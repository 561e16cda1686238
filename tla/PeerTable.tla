------------------------------ MODULE PeerTable ------------------------------
(***************************************************************************)
(* The list of peers of a superpeer (peer_list.c), the owners of the files *)
(* in its hash tables, and the thread that delists the silent peers        *)
(* (peer_list_checker.c).                                                  *)
(*                                                                         *)
(* Datagrams may be lost, duplicated and reordered, so the main loop may   *)
(* meet any command of any peer at any time.  The checker holds            *)
(* thinfo.mutex for a sweep, one action per node; JOIN and PING take it    *)
(* too and are one action, enabled between sweeps; LEAVE does not take it. *)
(***************************************************************************)
EXTENDS Integers, Sequences, SequencesExt

CONSTANTS
    Peer,       \* the addresses of the peers
    Nil,        \* the NULL pointer
    Rate,       \* the rates a peer may announce
    MaxPCount   \* MAX_P_COUNT

ASSUME PeerTableAssumption ==
    /\ Nil \notin Peer
    /\ Rate \subseteq Nat /\ Rate # {}
    /\ MaxPCount \in Nat \ {0}

VARIABLES
    peer_list,     \* the addresses of the nodes from peer_list_head on
    peer_rate,     \* peer_rate and flag of the node of a peer
    flag,
    curr_p_count,  \* the number of nodes, as the code counts them
    files,         \* the peers with a file in the hash tables
    main,          \* where the main thread and the checker are; some of the
    checker,       \* places are those of module Superpeer
    cursor,        \* its tmp_node
    acked,         \* history: the peers whose JOIN was accepted
    periods        \* history: sweeps begun since a peer was last heard of

list_vars == <<peer_list, peer_rate, flag, periods>>
vars == <<list_vars, curr_p_count, files, main, checker, cursor, acked>>

\* The peer_rate of a peer without a node.
NoRate == CHOOSE r \in Rate : TRUE

Listed == ToSet(peer_list)
IndexOf(p) == CHOOSE i \in DOMAIN peer_list : peer_list[i] = p

\* The process runs: the checker did not follow a freed pointer, the main
\* thread did not exit.
Up == checker # "crashed" /\ main # "exited"

Receiving == main = "recv" /\ Up

\* thinfo.mutex is free except during a sweep.
LockFree == checker \notin {"sweep", "count", "crashed"}

-----------------------------------------------------------------------------
(* peer_list.c *)

\* sorted_insert_peer puts a peer of rate r before the first node of a lower
\* rate: i is its place.
IsPlace(i, r) ==
    /\ \A j \in 1..(i - 1) : r <= peer_rate[peer_list[j]]
    /\ i <= Len(peer_list) => r > peer_rate[peer_list[i]]

\* remove_peer_node without its last line, the decrement of curr_p_count,
\* which is an action of its own; what the node held is reset with it.
Unlink(p) ==
    /\ peer_list' = RemoveAt(peer_list, IndexOf(p))
    /\ flag' = [flag EXCEPT ![p] = 0]
    /\ periods' = [periods EXCEPT ![p] = 0]
    /\ peer_rate' = [peer_rate EXCEPT ![p] = NoRate]
    /\ files' = files \ {p}

\* The node after that of p, or NULL.
NextOf(p) ==
    IF IndexOf(p) < Len(peer_list) THEN peer_list[IndexOf(p) + 1] ELSE Nil

-----------------------------------------------------------------------------
(* The main thread *)

\* Variant: the list takes one peer more.
RoomyJoin(p, r) ==
    /\ Receiving /\ LockFree
    /\ p \notin Listed
    /\ curr_p_count <= MaxPCount
    /\ \E i \in 1..(Len(peer_list) + 1) :
          IsPlace(i, r) /\ peer_list' = InsertAt(peer_list, i, p)
    /\ curr_p_count' = (IF peer_list = <<>> THEN 0 ELSE curr_p_count) + 1
    /\ peer_rate' = [peer_rate EXCEPT ![p] = r]
    /\ flag' = [flag EXCEPT ![p] = 1]
    /\ periods' = [periods EXCEPT ![p] = 0]
    /\ acked' = acked \cup {p}
    /\ UNCHANGED <<files, main, checker, cursor>>

\* join_handler of a peer that fits; a listed one is only told ACK again.
Join(p, r) ==
    /\ Receiving /\ LockFree
    /\ p \notin Listed
    /\ curr_p_count < MaxPCount
    /\ \E i \in 1..(Len(peer_list) + 1) :
          IsPlace(i, r) /\ peer_list' = InsertAt(peer_list, i, p)
    /\ curr_p_count' = (IF peer_list = <<>> THEN 0 ELSE curr_p_count) + 1
    /\ peer_rate' = [peer_rate EXCEPT ![p] = r]
    /\ flag' = [flag EXCEPT ![p] = 1]
    /\ periods' = [periods EXCEPT ![p] = 0]
    /\ acked' = acked \cup {p}
    /\ UNCHANGED <<files, main, checker, cursor>>

\* Variant: a PING updates the rate only.
FlaglessPing(p, r) ==
    /\ Receiving /\ LockFree
    /\ p \in Listed
    /\ peer_rate' = [peer_rate EXCEPT ![p] = r]
    /\ periods' = [periods EXCEPT ![p] = 0]
    /\ UNCHANGED <<peer_list, flag, curr_p_count, files, main, checker, cursor,
                   acked>>

\* update_peer_flag; the node does not move, whatever its new rate.
Ping(p, r) ==
    /\ Receiving /\ LockFree
    /\ p \in Listed
    /\ flag' = [flag EXCEPT ![p] = 1]
    /\ peer_rate' = [peer_rate EXCEPT ![p] = r]
    /\ periods' = [periods EXCEPT ![p] = 0]
    /\ UNCHANGED <<peer_list, curr_p_count, files, main, checker, cursor, acked>>

\* leave_handler, and register_handler of the child, remove a listed peer
\* without the lock, even in the middle of a sweep.
RemovePeer(p, handler) ==
    /\ Receiving
    /\ p \in Listed
    /\ Unlink(p)
    /\ main' = handler
    /\ UNCHANGED <<curr_p_count, checker, cursor, acked>>

\* The decrement of curr_p_count with which the removal ends; leave_handler is
\* then done, register_handler has more to do.
Counted == main' = IF main = "leave" THEN "recv" ELSE "registered"

CountMain ==
    /\ main \in {"leave", "register"} /\ Up
    /\ curr_p_count' = curr_p_count - 1
    /\ Counted
    /\ UNCHANGED <<list_vars, files, checker, cursor, acked>>

\* update_file_list_handler adds or removes files of whoever sent it; a
\* peer that was once accepted may go on sharing, or its packet be late.
UpdateFileList(p) ==
    /\ Receiving
    /\ p \in acked
    /\ files' \in {files \cup {p}, files \ {p}}
    /\ UNCHANGED <<list_vars, curr_p_count, main, checker, cursor, acked>>

-----------------------------------------------------------------------------
(* peer_list_checker_func *)

StartSweep ==
    /\ Up /\ checker = "sleep"
    /\ checker' = "sweep"
    /\ cursor' = IF peer_list = <<>> THEN Nil ELSE Head(peer_list)
    /\ periods' = [p \in Peer |-> IF p \in Listed THEN periods[p] + 1 ELSE 0]
    /\ UNCHANGED <<peer_list, peer_rate, flag, curr_p_count, files, main, acked>>

\* Variant: the flag of a node that is kept is not cleared.
StickySweepKeep ==
    /\ Up /\ checker = "sweep"
    /\ cursor \in Listed /\ flag[cursor] = 1
    /\ cursor' = NextOf(cursor)
    /\ UNCHANGED <<list_vars, curr_p_count, files, main, checker, acked>>

\* A node that was refreshed is kept, its flag cleared ...
SweepKeep ==
    /\ Up /\ checker = "sweep"
    /\ cursor \in Listed /\ flag[cursor] = 1
    /\ flag' = [flag EXCEPT ![cursor] = 0]
    /\ cursor' = NextOf(cursor)
    /\ UNCHANGED <<peer_list, peer_rate, periods, curr_p_count, files, main,
                   checker, acked>>

\* ... and the others are removed with their files.
SweepRemove ==
    /\ Up /\ checker = "sweep"
    /\ cursor \in Listed /\ flag[cursor] = 0
    /\ Unlink(cursor)
    /\ cursor' = NextOf(cursor)
    /\ checker' = "count"
    /\ UNCHANGED <<curr_p_count, main, acked>>

\* Variant: remove_peer_node is called twice for the node.
DoubleCountChecker ==
    /\ Up /\ checker = "count"
    /\ curr_p_count' = curr_p_count - 2
    /\ checker' = "sweep"
    /\ UNCHANGED <<list_vars, files, main, cursor, acked>>

CountChecker ==
    /\ Up /\ checker = "count"
    /\ curr_p_count' = curr_p_count - 1
    /\ checker' = "sweep"
    /\ UNCHANGED <<list_vars, files, main, cursor, acked>>

\* Two unsynchronised decrements: one of them may be lost.
CountBoth ==
    /\ checker = "count"
    /\ main \in {"leave", "register"} /\ Up
    /\ curr_p_count' = curr_p_count - 1
    /\ checker' = "sweep" /\ Counted
    /\ UNCHANGED <<list_vars, files, cursor, acked>>

\* The main thread has freed the node the checker visits next, and the checker
\* reads it.  What follows is undefined: the model ends here, and nothing is
\* claimed of a process that went on.
SweepFreed ==
    /\ Up /\ checker = "sweep"
    /\ cursor \notin Listed \cup {Nil}
    /\ checker' = "crashed"
    /\ UNCHANGED <<list_vars, curr_p_count, files, main, cursor, acked>>

\* The lock is released; what follows in the loop is not about the list.
EndSweep ==
    /\ Up /\ checker = "sweep"
    /\ cursor = Nil
    /\ checker' = "expire"
    /\ UNCHANGED <<list_vars, curr_p_count, files, main, cursor, acked>>

Sleep ==
    /\ Up /\ checker = "expire"
    /\ checker' = "sleep"
    /\ UNCHANGED <<list_vars, curr_p_count, files, main, cursor, acked>>

-----------------------------------------------------------------------------
\* init_superpeer and run_threads of a client that becomes superpeer.
Init ==
    /\ peer_list = <<>>
    /\ peer_rate = [p \in Peer |-> NoRate]
    /\ flag = [p \in Peer |-> 0]
    /\ curr_p_count = 0
    /\ files = {}
    /\ main = "recv"
    /\ checker = "sleep"
    /\ cursor = Nil
    /\ acked = {}
    /\ periods = [p \in Peer |-> 0]

Membership ==
    \E p \in Peer :
        \/ \E r \in Rate : Join(p, r) \/ Ping(p, r)
        \/ RemovePeer(p, "leave")

Receive == Membership \/ \E p \in Peer : UpdateFileList(p)

Sweep ==
    \/ StartSweep \/ SweepKeep \/ SweepRemove \/ CountChecker \/ CountBoth
    \/ SweepFreed \/ EndSweep

Next == Receive \/ CountMain \/ Sweep \/ Sleep

Spec == Init /\ [][Next]_vars

-----------------------------------------------------------------------------
(* Properties *)

\* Every variable has its type.
TypeOK ==
    /\ peer_list \in Seq(Peer)
    /\ peer_rate \in [Peer -> Rate]
    /\ flag \in [Peer -> 0..1]
    /\ curr_p_count \in Nat
    /\ files \in SUBSET Peer
    /\ main \in {"recv", "leave", "register", "registered", "promote", "send",
                "blocked", "exited"}
    /\ checker \in {"sleep", "sweep", "count", "expire", "give_up", "crashed"}
    /\ cursor \in Peer \cup {Nil}
    /\ acked \in SUBSET Peer
    /\ periods \in [Peer -> Nat]

\* A superpeer never serves more than MAX_P_COUNT peers and never has two
\* nodes for one: although LEAVE and REGISTER race with the checker for
\* curr_p_count, it never counts too few.
CapacityKept ==
    /\ IsInjective(peer_list)
    /\ Len(peer_list) <= curr_p_count /\ curr_p_count <= MaxPCount

\* A peer silent for two sweeps is no longer listed once the sweep ends, however
\* LEAVEs, PINGs and JOINs are interleaved with the sweeps.
SilentDelisted == LockFree => \A p \in Listed : periods[p] <= 1

\* The checker delists a peer only if a whole period between two sweeps went by
\* without its JOIN or a PING of it.
DelistedOnlyAfterSilence ==
    [][\A p \in Listed \ Listed' : checker' = "count" /\ checker = "sweep"
                                   => periods[p] >= 2]_vars

\* README: the superpeers keep track of the files shared by the peers
\* associated to them (update_file_list_handler, remove_all_file).
FilesOfMembers == files \subseteq Listed

\* get_addr_head: if every insertion is ordered (and sorted_insert_peer is the
\* only one) the head is the address with the best rate.
HeadIsBest ==
    \A i \in DOMAIN peer_list : peer_rate[peer_list[1]] >= peer_rate[peer_list[i]]
=============================================================================
