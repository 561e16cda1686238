------------------------------ MODULE Bootstrap ------------------------------
(***************************************************************************)
(* The bootstrap server: the list of superpeers it keeps (sp_list.c), the  *)
(* thread that delists the silent ones (sp_list_checker.c) and the main    *)
(* loop that serves PING, REGISTER, LEAVE and JOIN (bootstrap.c).          *)
(*                                                                         *)
(* Datagrams may be lost, duplicated and reordered, so the main loop may   *)
(* meet any command from any address at any time.  A critical section of   *)
(* the main thread that no other thread can observe half done is one       *)
(* action; the checker's sweep, which an unlocked read can observe, takes  *)
(* one action per node.                                                    *)
(***************************************************************************)
EXTENDS Naturals, Sequences, SequencesExt

CONSTANTS
    Addr,        \* the UDP addresses of the clients
    Nil,         \* the NULL pointer
    Junk,        \* what a read of a freed node may return
    AddrToSend   \* addr_to_send, the addresses that fit in a LIST

ASSUME BootstrapAssumption ==
    /\ Nil \notin Addr
    /\ Junk \notin Addr
    /\ AddrToSend \in Nat \ {0}

VARIABLES
    sp_list,   \* the addresses of the nodes from sp_list_head on
    flag,      \* flag[a] = 1: the node of a was refreshed since the last sweep
    free_spots,\* free_spots[a], cut to 0..1
    it_addr,   \* the node whose address the next LIST starts with
    sp_count,  \* the number of nodes, as the code counts them
    lock,      \* the holder of thinfo.mutex
    pos,       \* the cursor of the thread that walks the list under the lock
    main,      \* where the main thread is
    ret,       \* the length of the LIST under construction
    picked,    \* get_addr_sp's result: nodes of the list, shared by pointer
    reply,     \* the last answer to a JOIN
    periods    \* history: sweeps begun since a was last heard of

list_vars == <<sp_list, flag, free_spots, it_addr, sp_count, periods>>
main_vars == <<main, ret, picked, reply>>
vars == <<list_vars, lock, pos, main_vars>>

Listed == ToSet(sp_list)
IndexOf(a) == CHOOSE i \in DOMAIN sp_list : sp_list[i] = a

\* Variant: no cap on the length of a LIST.
UncappedLesserOf(m, n) == m
LesserOf(m, n) == IF m < n THEN m ELSE n

-----------------------------------------------------------------------------
(* sp_list.c *)

\* insert_sp: a known address is only refreshed, free_spots keeps its value.
InsertSp(a, spots) ==
    /\ flag' = [flag EXCEPT ![a] = 1]
    /\ periods' = [periods EXCEPT ![a] = 0]
    /\ \/ a \in Listed /\ UNCHANGED <<sp_list, free_spots, it_addr, sp_count>>
       \/ /\ a \notin Listed
          /\ sp_list' = <<a>> \o sp_list
          /\ free_spots' = [free_spots EXCEPT ![a] = spots]
          /\ it_addr' = IF it_addr = Nil THEN a ELSE it_addr
          /\ sp_count' = (IF sp_list = <<>> THEN 0 ELSE sp_count) + 1

\* Variant: the last node of the list is removed and prev is forgotten.
ForgetfulAfterRemoval(i) == IF i < Len(sp_list) THEN sp_list[i + 1] ELSE Nil

\* Where remove_sp moves the iterator when it stands on the i-th node.
AfterRemoval(i) ==
    IF i < Len(sp_list) THEN sp_list[i + 1]
    ELSE IF i > 1 THEN sp_list[i - 1] ELSE Nil

\* remove_sp of the i-th node; what the node held is reset with it.
RemoveSp(i) ==
    LET a == sp_list[i] IN
    /\ sp_list' = RemoveAt(sp_list, i)
    /\ it_addr' = IF it_addr = a THEN AfterRemoval(i) ELSE it_addr
    /\ sp_count' = sp_count - 1
    /\ flag' = [flag EXCEPT ![a] = 0]
    /\ free_spots' = [free_spots EXCEPT ![a] = 0]
    /\ periods' = [periods EXCEPT ![a] = 0]

\* Variant: the iterator is put back on the node it came from.
StuckNextOf(a) == a

\* get_addr returns the iterator's address and moves it on, wrapping around.
NextOf(a) ==
    IF IndexOf(a) < Len(sp_list) THEN sp_list[IndexOf(a) + 1] ELSE sp_list[1]

\* The addresses n successive calls of get_addr return.
AddrsFromIterator(n) ==
    [k \in 1..n |-> sp_list[1 + ((IndexOf(it_addr) + k - 2) % Len(sp_list))]]

-----------------------------------------------------------------------------
(* The main thread: one datagram at a time. *)

Receiving == main = "recv" /\ lock = "free"

\* Variant: a PING updates the free spots only.
FlaglessPing(a, spots) ==
    /\ Receiving
    /\ a \in Listed
    /\ free_spots' = [free_spots EXCEPT ![a] = spots]
    /\ periods' = [periods EXCEPT ![a] = 0]
    /\ UNCHANGED <<sp_list, flag, it_addr, sp_count, lock, pos, main_vars>>

\* A PING of a listed superpeer; update_sp_flag changes nothing for the others.
Ping(a, spots) ==
    /\ Receiving
    /\ a \in Listed
    /\ flag' = [flag EXCEPT ![a] = 1]
    /\ free_spots' = [free_spots EXCEPT ![a] = spots]
    /\ periods' = [periods EXCEPT ![a] = 0]
    /\ UNCHANGED <<sp_list, it_addr, sp_count, lock, pos, main_vars>>

Register(a, spots) ==
    /\ Receiving
    /\ InsertSp(a, spots)
    /\ UNCHANGED <<lock, pos, main_vars>>

Leave(a) ==
    /\ Receiving
    /\ a \in Listed
    /\ RemoveSp(IndexOf(a))
    /\ UNCHANGED <<lock, pos, main_vars>>

\* sp_join when the list is empty: the joiner becomes the first superpeer.
JoinPromoted(a) ==
    /\ Receiving
    /\ sp_list = <<>>
    /\ InsertSp(a, 1)
    /\ reply' = [cmd |-> "PROMOTE", addrs |-> <<a>>]
    /\ UNCHANGED <<lock, pos, main, ret, picked>>

\* sp_join of the only listed superpeer, which missed its PROMOTE.
JoinPromotedAgain(a) ==
    /\ Receiving
    /\ sp_list # <<>>
    /\ sp_count = 1 /\ sp_list[1] = a
    /\ reply' = [cmd |-> "PROMOTE", addrs |-> <<a>>]
    /\ UNCHANGED <<list_vars, lock, pos, main, ret, picked>>

\* sp_join otherwise: the lock is released before send_addr_list is called.
JoinListed(a, superpeer) ==
    /\ Receiving
    /\ sp_list # <<>>
    /\ ~(sp_count = 1 /\ sp_list[1] = a)
    /\ main' = IF superpeer THEN "lock" ELSE "count"
    /\ UNCHANGED <<list_vars, lock, pos, ret, picked, reply>>

\* set_str_addrlist reads sp_count before it takes the lock ...
ReadCount ==
    /\ main = "count"
    /\ ret' = LesserOf(sp_count, AddrToSend)
    /\ main' = "fill"
    /\ UNCHANGED <<list_vars, lock, pos, picked, reply>>

\* ... and copies that many addresses under it.  The iterator is put back on
\* the node after the first address, so each LIST moves it by one.
FillList ==
    /\ main = "fill" /\ lock = "free"
    /\ it_addr # Nil
    /\ reply' = [cmd |-> "LIST", addrs |-> AddrsFromIterator(ret)]
    /\ it_addr' = NextOf(it_addr)
    /\ ret' = 0
    /\ main' = "recv"
    /\ UNCHANGED <<sp_list, flag, free_spots, sp_count, periods, lock, pos, picked>>

\* get_addr dereferences a NULL iterator: the server dies with the lock held.
FillCrash ==
    /\ main = "fill" /\ lock = "free"
    /\ it_addr = Nil
    /\ lock' = "main"
    /\ main' = "crashed"
    /\ UNCHANGED <<list_vars, pos, ret, picked, reply>>

\* The answer to a JOIN with the superpeer flag: get_addr_sp walks the list ...
StartPick ==
    /\ main = "lock" /\ lock = "free"
    /\ lock' = "main"
    /\ pos' = 1
    /\ picked' = <<>>
    /\ main' = "pick"
    /\ UNCHANGED <<list_vars, ret, reply>>

Picking == pos <= Len(sp_list) /\ Len(picked) < AddrToSend

\* ... keeps at the head of its result each node with a free spot ...
PickNode ==
    /\ main = "pick" /\ Picking
    /\ picked' = IF free_spots[sp_list[pos]] > 0 THEN <<sp_list[pos]>> \o picked
                ELSE picked
    /\ pos' = pos + 1
    /\ UNCHANGED <<list_vars, lock, main, ret, reply>>

\* ... and the lock is released; no answer at all if there was no such node.
EndPick ==
    /\ main = "pick" /\ ~Picking
    /\ lock' = "free"
    /\ pos' = 1
    /\ IF picked = <<>>
       THEN main' = "recv" /\ UNCHANGED reply
       ELSE main' = "walk" /\ reply' = [cmd |-> "LIST", addrs |-> <<>>]
    /\ UNCHANGED <<list_vars, ret, picked>>

\* The picked nodes are read after the unlock: one the checker has freed in
\* the meantime gives its old address or anything else.
WalkNode ==
    /\ main = "walk" /\ picked # <<>>
    /\ \E a \in IF Head(picked) \in Listed THEN {Head(picked)}
                                           ELSE {Head(picked), Junk} :
           reply' = [reply EXCEPT !.addrs = Append(@, a)]
    /\ picked' = Tail(picked)
    /\ main' = IF Len(picked) = 1 THEN "recv" ELSE "walk"
    /\ UNCHANGED <<list_vars, lock, pos, ret>>

-----------------------------------------------------------------------------
(* sp_list_checker_func *)

StartSweep ==
    /\ lock = "free" /\ main # "crashed"
    /\ lock' = "checker"
    /\ pos' = 1
    /\ periods' = [a \in Addr |-> IF a \in Listed THEN periods[a] + 1 ELSE 0]
    /\ UNCHANGED <<sp_list, flag, free_spots, it_addr, sp_count, main_vars>>

\* Variant: the flag of a node that is kept is not cleared.
StickySweepKeep ==
    /\ lock = "checker" /\ pos <= Len(sp_list)
    /\ flag[sp_list[pos]] = 1
    /\ pos' = pos + 1
    /\ UNCHANGED <<list_vars, lock, main_vars>>

\* A node found refreshed is kept and its flag cleared; the cursor moves on.
SweepKeep ==
    /\ lock = "checker" /\ pos <= Len(sp_list)
    /\ flag[sp_list[pos]] = 1
    /\ flag' = [flag EXCEPT ![sp_list[pos]] = 0]
    /\ pos' = pos + 1
    /\ UNCHANGED <<sp_list, free_spots, it_addr, sp_count, periods, lock, main_vars>>

\* The others are removed; the cursor is then at the next node already.
SweepRemove ==
    /\ lock = "checker" /\ pos <= Len(sp_list)
    /\ flag[sp_list[pos]] = 0
    /\ RemoveSp(pos)
    /\ UNCHANGED <<pos, lock, main_vars>>

EndSweep ==
    /\ lock = "checker" /\ pos > Len(sp_list)
    /\ lock' = "free"
    /\ pos' = 1
    /\ UNCHANGED <<list_vars, main_vars>>

-----------------------------------------------------------------------------
Init ==
    /\ sp_list = <<>>
    /\ flag = [a \in Addr |-> 0]
    /\ free_spots = [a \in Addr |-> 0]
    /\ it_addr = Nil
    /\ sp_count = 0
    /\ lock = "free"
    /\ pos = 1
    /\ main = "recv"
    /\ ret = 0
    /\ picked = <<>>
    /\ reply = [cmd |-> "none", addrs |-> <<>>]
    /\ periods = [a \in Addr |-> 0]

Receive ==
    \E a \in Addr :
        \/ \E spots \in 0..1 : Ping(a, spots) \/ Register(a, spots)
        \/ Leave(a)
        \/ JoinPromoted(a)
        \/ JoinPromotedAgain(a)
        \/ \E superpeer \in BOOLEAN : JoinListed(a, superpeer)

Answer ==
    \/ ReadCount \/ FillList \/ FillCrash
    \/ StartPick \/ PickNode \/ EndPick \/ WalkNode

Sweep == StartSweep \/ SweepKeep \/ SweepRemove \/ EndSweep

Next == Receive \/ Answer \/ Sweep

Spec == Init /\ [][Next]_vars

-----------------------------------------------------------------------------
(* Properties *)

\* Every variable has its type.
TypeOK ==
    /\ sp_list \in Seq(Addr)
    /\ flag \in [Addr -> 0..1]
    /\ free_spots \in [Addr -> 0..1]
    /\ it_addr \in Addr \cup {Nil}
    /\ sp_count \in Nat
    /\ lock \in {"free", "main", "checker"}
    /\ pos \in Nat \ {0}
    /\ main \in {"recv", "count", "fill", "lock", "pick", "walk", "crashed"}
    /\ ret \in 0..AddrToSend
    /\ picked \in Seq(Addr)
    /\ reply \in [cmd : {"none", "PROMOTE", "LIST"}, addrs : Seq(Addr \cup {Junk})]
    /\ periods \in [Addr -> Nat]

\* An address has one node.
NoDuplicates ==
    \A i, j \in DOMAIN sp_list : sp_list[i] = sp_list[j] => i = j

\* sp_count, which sp_join and LIST trust, is the length of the list.
CountIsLength == sp_count = Len(sp_list)

\* The iterator stands on a node of the list as long as there is one, so that
\* a get_addr that finds the list not empty never touches freed memory.
IteratorListed == IF sp_list = <<>> THEN it_addr = Nil ELSE it_addr \in Listed

\* The list stays consistent whatever the main loop and the checker insert
\* and remove (insert_sp, remove_sp, sp_list_checker_func).
ListConsistent == NoDuplicates /\ CountIsLength /\ IteratorListed

\* A superpeer silent for two sweeps is no longer listed once the sweep ends
\* (sp_list_checker_func clears a flag in one sweep and delists in the next).
SilentDelisted ==
    lock # "checker" => \A a \in Listed : periods[a] <= 1

\* The checker delists a superpeer only if a whole period between two sweeps
\* went by without a PING, REGISTER or first JOIN of it.
DelistedOnlyAfterSilence ==
    [][\A a \in Listed \ Listed' : lock = "checker" => periods[a] >= 2]_vars

\* The list implements Lease: with the lock of thinfo a sweep delists exactly
\* the superpeers that are due, and nothing else happens meanwhile.
Lease == INSTANCE Lease WITH
    Client <- Addr, members <- Listed, age <- periods, checking <- lock = "checker"
LeaseImplemented == Lease!Spec

\* get_addr's rotation starves nobody: a superpeer that stays listed is the
\* first address of infinitely many of the infinitely many LISTs sent, however
\* others come and go.
RoundRobin ==
    \A a \in Addr :
        /\ <>[](a \in Listed)
        /\ []<><<FillList>>_vars
        => []<><<FillList /\ it_addr = a>>_vars

\* The comment on sp_join: the bootstrap answers a JOIN with the list of the
\* superpeers, or with PROMOTE if the list is empty.
JoinAnswered == main # "crashed"
=============================================================================
