------------------------------ MODULE Superpeer ------------------------------
(***************************************************************************)
(* A superpeer that promotes one of its peers when its list is full        *)
(* (superpeer.c, the handlers of client.c), hands the peers it cannot take *)
(* to that child, pings it (pinger.c), and leaves when its user says so.   *)
(* The list of peers and its checker are those of PeerTable, which this    *)
(* module extends.                                                         *)
(*                                                                         *)
(* Datagrams may be lost, duplicated and reordered, and a peer may be in   *)
(* any state, so the main loop may meet any command of any peer at any     *)
(* time.                                                                   *)
(***************************************************************************)
EXTENDS PeerTable

CONSTANTS
    Bs,             \* the address of the bootstrap server
    MaxMissPong,    \* the pongs a child may miss, 3 in the code
    PromoteTtl,     \* the initial promote_ttl, 5 in the code
    MaxUnanswered   \* bound: PROMOTEs waiting for an ACK or an ERR

ASSUME SuperpeerAssumption ==
    /\ Bs \notin Peer \cup {Nil}
    /\ MaxMissPong \in Nat
    /\ PromoteTtl \in Nat
    /\ MaxUnanswered \in Nat \ {0}

VARIABLES
    state,          \* state, as far as a superpeer uses it
    have_child,
    child_addr,
    child_miss_pong,
    curr_child_p_count,
    target,         \* the address promote_peer found at the head of the list
    unanswered,     \* PROMOTEs the retransmission thread repeats
    errs,           \* ERR PROMOTE lines in the pipe
    leave_sent,     \* the LEAVE to the bootstrap server waits for its ACK
    promote_ttl,
    kept,           \* a retx_send failed and kept retx_mutex
    pinger,         \* "sleep", or "stopped": it ended, or will wait for ever when
                    \* it next sends
    promoted        \* history: the peers a PROMOTE was sent to

table_vars == <<peer_list, peer_rate, flag, curr_p_count, files, cursor, acked, periods>>
child_vars == <<have_child, child_addr, child_miss_pong, curr_child_p_count>>
promote_vars == <<target, unanswered, errs, promoted>>
retx_vars == <<kept, pinger>>
own_vars == <<state, child_vars, promote_vars, leave_sent, promote_ttl, retx_vars>>
superpeer_vars == <<table_vars, main, checker, own_vars>>

\* A retx_send that fails keeps retx_mutex, which each round of the pinger begins
\* by locking, for the PING to the server.
KeepLock == kept' = TRUE /\ pinger' = "stopped"

-----------------------------------------------------------------------------
(* The main thread *)

\* A JOIN while the list is full; it is ignored while a PROMOTE is pending.
Refuse(p) ==
    /\ Receiving
    /\ p \notin Listed
    /\ curr_p_count >= MaxPCount
    /\ state # "PROMOTE_SENT"
    /\ UNCHANGED table_vars

\* The joiner is sent to the child; the last one it has room for is counted.
JoinRedirected(p) ==
    /\ Refuse(p)
    /\ have_child = 1 /\ child_miss_pong < MaxMissPong
    /\ have_child' = IF curr_child_p_count = MaxPCount - 1 THEN 0 ELSE 1
    /\ UNCHANGED <<main, checker, state, child_addr, child_miss_pong,
                   curr_child_p_count, promote_vars, leave_sent, promote_ttl, retx_vars>>

\* Without a child, or with one that does not answer, a peer is promoted.
JoinPromotes(p) ==
    /\ Refuse(p)
    /\ have_child = 0 \/ child_miss_pong >= MaxMissPong
    /\ unanswered + errs < MaxUnanswered
    /\ main' = "promote"
    /\ UNCHANGED <<checker, own_vars>>

\* promote_peer: the pointer to the head's address is taken under the lock ...
GetHead ==
    /\ main = "promote" /\ Up /\ LockFree
    /\ target' = IF peer_list = <<>> THEN Nil ELSE Head(peer_list)
    /\ main' = "send"
    /\ UNCHANGED <<table_vars, checker, state, child_vars, unanswered, errs,
                   promoted, leave_sent, promote_ttl, retx_vars>>

\* ... and used after it: the node may have been freed, and then the PROMOTE
\* goes there or anywhere.
SendPromote ==
    /\ main = "send" /\ Up /\ ~kept
    /\ target # Nil
    /\ unanswered' = unanswered + 1
    /\ \/ promoted' = promoted \cup {target}
       \/ target \notin Listed /\ UNCHANGED promoted
    /\ state' = "PROMOTE_SENT"
    /\ target' = Nil
    /\ main' = "recv"
    /\ UNCHANGED <<table_vars, checker, child_vars, errs, leave_sent, promote_ttl, retx_vars>>

\* retx_send fails and keeps retx_mutex: the system did not send the PROMOTE, or
\* the checker emptied the list in between and the target is NULL.  The handler
\* of a JOIN returns, that of an ERR ends the main loop.
SendPromoteFails ==
    /\ main = "send" /\ Up /\ ~kept
    /\ KeepLock
    /\ target' = Nil
    /\ main' \in {"recv", "exited"}
    /\ UNCHANGED <<table_vars, checker, state, child_vars, unanswered, errs, promoted,
                   leave_sent, promote_ttl>>

\* Another request is not sent: a query of the user, the answer to one of a peer,
\* the LEAVE.
SendFails ==
    /\ Receiving /\ ~kept
    /\ KeepLock
    /\ UNCHANGED <<table_vars, main, checker, state, child_vars, promote_vars,
                   leave_sent, promote_ttl>>

\* The main thread locks retx_mutex that was kept, and waits for ever.  It does so
\* for each datagram it sends and each node it stops; a handler that changes
\* something before it sends, as that of a JOIN, does so first.
Block ==
    /\ kept /\ Up
    /\ main \in {"recv", "send"}
    /\ main' = "blocked"
    /\ UNCHANGED <<table_vars, checker, own_vars>>

Pong(p, n) ==
    /\ Receiving
    /\ p = child_addr
    /\ curr_child_p_count' = n
    /\ child_miss_pong' = 0
    /\ UNCHANGED <<table_vars, main, checker, state, have_child, child_addr,
                   promote_vars, leave_sent, promote_ttl, retx_vars>>

\* register_handler of the child, once its ACK is sent: its node is removed if it
\* has one ...
Register(p) ==
    /\ Receiving /\ ~kept
    /\ p = child_addr
    /\ \/ RemovePeer(p, "register")
       \/ p \notin Listed /\ main' = "registered" /\ UNCHANGED <<table_vars, checker>>
    /\ UNCHANGED own_vars

\* ... and then it is the child.
Registered ==
    /\ main = "registered" /\ Up
    /\ state' = "ACTIVE"
    /\ have_child' = 1
    /\ main' = "recv"
    /\ UNCHANGED <<table_vars, checker, child_addr, child_miss_pong,
                   curr_child_p_count, promote_vars, leave_sent, promote_ttl, retx_vars>>

\* ack_handler.  A PROMOTE is stopped if the ACK has its index, but the state
\* advances whatever was acknowledged: peers also acknowledge the answers to
\* their WHOHAS.
Acknowledged(a) ==
    /\ Receiving
    /\ child_addr' = IF state = "PROMOTE_SENT" THEN a ELSE child_addr
    /\ main' = IF state = "LEAVE_SENT" THEN "exited" ELSE main
    /\ UNCHANGED <<table_vars, checker, state, have_child, child_miss_pong,
                   curr_child_p_count, target, errs, promoted, promote_ttl,
                   retx_vars>>

AckPeer(p) ==
    /\ Acknowledged(p)
    /\ \/ /\ ~kept
          /\ p \in promoted /\ unanswered > 0 /\ unanswered' = unanswered - 1
       \/ p \in acked /\ UNCHANGED unanswered
    /\ UNCHANGED leave_sent

AckLeave ==
    /\ leave_sent /\ ~kept
    /\ Acknowledged(Bs)
    /\ leave_sent' = FALSE
    /\ UNCHANGED unanswered

Abort(p) ==
    /\ Receiving
    /\ p = child_addr
    /\ state' = "ACTIVE"
    /\ UNCHANGED <<table_vars, main, checker, child_vars, promote_vars,
                   leave_sent, promote_ttl, retx_vars>>

\* error_handler of a PROMOTE that was given up.
PromoteError ==
    /\ Receiving
    /\ errs > 0
    /\ errs' = errs - 1
    /\ IF curr_p_count >= MaxPCount
       THEN main' = "promote" /\ UNCHANGED state
       ELSE state' = "ACTIVE" /\ UNCHANGED main
    /\ UNCHANGED <<table_vars, checker, child_vars, target, unanswered, promoted,
                   leave_sent, promote_ttl, retx_vars>>

\* The user's leave (bound: one LEAVE waits for its ACK at a time); a LEAVE that
\* was given up ends the program as well.
KeyboardLeave ==
    /\ Receiving /\ ~kept
    /\ ~leave_sent
    /\ leave_sent' = TRUE
    /\ state' = "LEAVE_SENT"
    /\ UNCHANGED <<table_vars, main, checker, child_vars, promote_vars, promote_ttl, retx_vars>>

LeaveError ==
    /\ Receiving
    /\ leave_sent
    /\ main' = "exited"
    /\ UNCHANGED <<table_vars, checker, own_vars>>

-----------------------------------------------------------------------------
(* The other threads *)

\* The retransmission thread gives a PROMOTE up.
GiveUp ==
    /\ Up /\ ~kept
    /\ unanswered > 0
    /\ unanswered' = unanswered - 1
    /\ errs' = errs + 1
    /\ UNCHANGED <<table_vars, main, checker, state, child_vars, target, promoted,
                   leave_sent, promote_ttl, retx_vars>>

\* Variant: a child that missed too many pongs is pinged no more, that is all.
IdlePingChild ==
    /\ Up /\ pinger = "sleep"
    /\ have_child = 1
    /\ child_miss_pong < MaxMissPong
    /\ child_miss_pong' = child_miss_pong + 1
    /\ UNCHANGED <<table_vars, main, checker, state, have_child, child_addr,
                   curr_child_p_count, promote_vars, leave_sent, promote_ttl, retx_vars>>

\* A round of the pinger while there is a child, after the server and the
\* neighbours were pinged.
PingChild ==
    /\ Up /\ pinger = "sleep"
    /\ have_child = 1
    /\ IF child_miss_pong < MaxMissPong
       THEN child_miss_pong' = child_miss_pong + 1 /\ UNCHANGED have_child
       ELSE child_miss_pong' = 0 /\ have_child' = 0
    /\ UNCHANGED <<table_vars, main, checker, state, child_addr,
                   curr_child_p_count, promote_vars, leave_sent, promote_ttl, retx_vars>>

\* The neighbours come before the child: tcp_ping fails and the pinger ends, or it
\* waits for the lock that accept_conn kept.  (That a write to a neighbour that is
\* gone ends the process is in Overlay.)
PingNeighboursFails ==
    /\ Up /\ pinger = "sleep"
    /\ pinger' = "stopped"
    /\ UNCHANGED <<table_vars, main, checker, state, child_vars, promote_vars,
                   leave_sent, promote_ttl, kept>>

\* Variant: the time a PROMOTE has is not counted down.
StuckAgePromote ==
    /\ Up /\ checker = "expire"
    /\ checker' = "sleep"
    /\ UNCHANGED <<table_vars, main, own_vars>>

\* Variant: an expired promote_ttl goes on being counted down.
UncheckedAgePromote ==
    /\ Up /\ checker = "expire"
    /\ checker' = "sleep"
    /\ promote_ttl' = IF state = "PROMOTE_SENT" THEN promote_ttl - 1 ELSE PromoteTtl
    /\ UNCHANGED <<table_vars, main, state, child_vars, promote_vars, leave_sent,
                   retx_vars>>

\* The checker after a sweep, the lock released: it reads state here ...
AgePromote ==
    /\ Up /\ checker = "expire"
    /\ IF state = "PROMOTE_SENT" /\ promote_ttl = 0
       THEN checker' = "give_up" /\ UNCHANGED promote_ttl
       ELSE /\ checker' = "sleep"
            /\ promote_ttl' = IF state = "PROMOTE_SENT" THEN promote_ttl - 1
                                                        ELSE PromoteTtl
    /\ UNCHANGED <<table_vars, main, state, child_vars, promote_vars, leave_sent,
                   retx_vars>>

\* ... and writes it here, whatever the main thread has written in between.
ExpirePromote ==
    /\ Up /\ checker = "give_up"
    /\ state' = "ACTIVE"
    /\ promote_ttl' = PromoteTtl
    /\ checker' = "sleep"
    /\ UNCHANGED <<table_vars, main, child_vars, promote_vars, leave_sent, retx_vars>>

-----------------------------------------------------------------------------
\* init_superpeer and run_threads of a client that becomes superpeer.
SuperpeerInit ==
    /\ Init
    /\ state = "ACTIVE"
    /\ have_child = 0
    /\ child_addr = Nil
    /\ child_miss_pong = 0
    /\ curr_child_p_count = 0
    /\ target = Nil
    /\ unanswered = 0
    /\ errs = 0
    /\ leave_sent = FALSE
    /\ promote_ttl = PromoteTtl
    /\ kept = FALSE
    /\ pinger = "sleep"
    /\ promoted = {}

\* The file lists of the peers, which no promotion reads, are left to PeerTable.
Handle ==
    \/ Membership /\ UNCHANGED own_vars
    \/ \E p \in Peer :
          \/ JoinRedirected(p) \/ JoinPromotes(p)
          \/ \E n \in 0..MaxPCount : Pong(p, n)
          \/ Register(p) \/ AckPeer(p) \/ Abort(p)
    \/ AckLeave \/ PromoteError \/ KeyboardLeave \/ LeaveError \/ SendFails

Continue ==
    \/ CountMain /\ UNCHANGED own_vars
    \/ GetHead \/ SendPromote \/ SendPromoteFails \/ Registered \/ Block

Check ==
    \/ Sweep /\ UNCHANGED own_vars
    \/ AgePromote \/ ExpirePromote

SuperpeerNext ==
    \/ Handle \/ Continue \/ Check
    \/ GiveUp \/ PingChild \/ PingNeighboursFails

\* The checker wakes for ever, and so does the pinger until it is stopped.
SuperpeerSpec ==
    /\ SuperpeerInit /\ [][SuperpeerNext]_superpeer_vars
    /\ WF_superpeer_vars(Check) /\ WF_superpeer_vars(PingChild)

-----------------------------------------------------------------------------
(* Properties *)

\* Every variable has its type.
SuperpeerTypeOK ==
    /\ TypeOK
    /\ state \in {"ACTIVE", "PROMOTE_SENT", "LEAVE_SENT"}
    /\ have_child \in 0..1
    /\ child_addr \in Peer \cup {Bs, Nil}
    /\ child_miss_pong \in 0..MaxMissPong
    /\ curr_child_p_count \in 0..MaxPCount
    /\ target \in Peer \cup {Nil}
    /\ unanswered \in 0..MaxUnanswered
    /\ errs \in 0..MaxUnanswered
    /\ leave_sent \in BOOLEAN
    /\ promote_ttl \in 0..PromoteTtl
    /\ kept \in BOOLEAN
    /\ pinger \in {"sleep", "stopped"}
    /\ promoted \in SUBSET Peer

\* A superpeer does not ignore JOINs for ever because of a promotion that came
\* to nothing (promote_ttl), as long as it runs.
PromotionEnds == []<>(state # "PROMOTE_SENT" \/ ~Up)

\* A child that stops answering is forgotten, so that JOINs are not redirected
\* to it for ever: a superpeer that has a child from some time on, and whose
\* pinger was not stopped by a retx_send or a tcp_ping that failed, hears of it
\* again and again (pinger_func, pong_handler).
SilentChildForgotten ==
    <>[](have_child = 1 /\ Up /\ pinger = "sleep")
        => []<><<\E p \in Peer, n \in 0..MaxPCount : Pong(p, n)>>_superpeer_vars

\* superpeer.h: child_addr is the last PROMOTE sent (ack_handler).
ChildWasPromoted == child_addr \in Peer => child_addr \in promoted

\* Help text of the client: leave closes the program -- at the latest when the
\* server acknowledges it (keyboard_handler, ack_handler).
LeaveCloses == [][AckLeave => main' = "exited"]_superpeer_vars
=============================================================================
