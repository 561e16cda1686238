------------------------------- MODULE Session -------------------------------
(***************************************************************************)
(* A client on its way to a superpeer, as a peer, and on its way to become *)
(* a superpeer (the handlers of client.c), with the thread that watches    *)
(* its superpeer (sp_checker.c) and the starting and stopping of threads   *)
(* (thread_util.c).  What a client does as a superpeer is in Superpeer.    *)
(*                                                                         *)
(* Datagrams may be lost, duplicated and reordered: an answer may come at  *)
(* any time once its request was sent.  A request is repeated by the       *)
(* retransmission thread until an answer stops it or it is given up, and   *)
(* then an ERR line is in the pipe (module Retx).  A request that the      *)
(* system does not send is not repeated, nothing reports it, and retx_send *)
(* returns with retx_mutex locked: whoever locks it next waits for ever.   *)
(***************************************************************************)
EXTENDS Naturals, Sequences, SequencesExt

CONSTANTS
    Sp,            \* the addresses of superpeers
    Bs,            \* the address of the bootstrap server
    Nil,           \* no address: addr_to_ping before the first session
    Lists,         \* the LISTs the bootstrap server may send
    MaxBsError,    \* MAX_BS_ERROR
    MaxJoinOvTry,  \* MAX_JOIN_OV_TRY
    MaxSame,       \* bound: copies of one request that are told apart
    MaxPipe        \* bound: lines in the pipe when one is added by a give-up
                   \* or when a session starts

ASSUME SessionAssumption ==
    /\ Bs \notin Sp /\ Nil \notin Sp \cup {Bs}
    /\ Lists \subseteq Seq(Sp) \ {<<>>}
    /\ MaxBsError \in Nat /\ MaxJoinOvTry \in Nat \ {0}
    /\ MaxSame \in Nat \ {0} /\ MaxPipe \in Nat \ {0}

\* The requests.  A JOIN to the server with the superpeer flag is no different
\* from one without it as far as its sender can see; a REGISTER that is given up
\* has no consequence, and its copies are not counted.
Join(a) == <<"JOIN", a>>
Register == <<"REGISTER", Bs>>
Leaving == <<"LEAVE", Nil>>
Request == {Join(a) : a \in Sp \cup {Bs}} \cup {Leaving}

VARIABLES
    state,
    is_sp,
    addr_to_ping,   \* of the pinger: the superpeer, or the server
    candidates,     \* addr_list from curr_addr_index on
    bserror,
    join_ov_try,
    pingers,        \* the pinger threads that run
    pinger,         \* "none", or where the last of them is; it was told to stop
                    \* when the main thread is at one of Stopping
    sp_checker,     \* "none": NULL; else where its thread is
    go,             \* thinfo.go of sp_checker
    sp_flag,
    pipe,           \* "RST", or the command of an ERR line
    pending,        \* the copies of a request that are repeated
    given_up,       \* JOINs given up, their node still in the list
    kept,           \* retx_send failed and kept retx_mutex
    answerable,     \* history: requests, no longer repeated, a late answer to
                    \* which may be under way
    pinged,         \* history: a superpeer was pinged, its PONGs may be under way
    strayed,        \* history: somebody not in the LIST refused a JOIN
    main            \* where the main thread is

thread_vars == <<pingers, pinger, sp_checker, go, sp_flag>>
request_vars == <<pending, given_up, answerable, pinged, kept>>
join_vars == <<candidates, bserror, join_ov_try>>
vars == <<state, is_sp, addr_to_ping, join_vars, thread_vars, pipe, request_vars,
          strayed, main>>

Up == main \notin {"crashed", "exited"}
Receiving == main = "recv"

\* stop_threads waits for the threads, on behalf of a handler, of the RST in the
\* pipe, and of the ACK of a REGISTER.
Stopping == {"rejoin", "reset", "register"}

\* Peers and superpeers answer what they were sent.
Sent(r) == pending[r] > 0 \/ r \in answerable

-----------------------------------------------------------------------------
(* Requests: retx_send and retx_stop *)

And(f, r) == [f EXCEPT ![r] = IF @ < MaxSame THEN @ + 1 ELSE @]

\* retx_send fails, with f under way.  Nothing is repeated any more, but superpeers
\* may answer what they were sent.
Keep(f) ==
    /\ kept' = TRUE
    /\ pending' = [r \in Request |-> IF r[2] \in Sp THEN f[r] ELSE 0]

\* retx_send of r, with f under way, and then the next state; or it fails.
Ask(f, r, next) ==
    /\ ~kept
    /\ \/ pending' = And(f, r) /\ state' = next /\ UNCHANGED kept
       \/ Keep(f) /\ UNCHANGED state

\* What may still be repeated after an answer to r.  A first answer stops a
\* copy, under the lock; a late one finds none and takes no lock.
Without(r) ==
    (IF pending[r] > 0 /\ ~kept THEN {[pending EXCEPT ![r] = @ - 1]} ELSE {})
    \cup (IF r \in answerable THEN {pending} ELSE {})

\* The handler of an answer to r goes on with the requests f.
Stopped(r, f) ==
    /\ f \in Without(r)
    /\ answerable' = answerable \cup ({r} \ {Leaving})
    /\ given_up' \in {given_up} \cup (IF kept THEN {} ELSE {given_up \ {r}})

\* A request that no other action follows is not sent: a query, or the files
\* for a new superpeer.
SendFails ==
    /\ Receiving /\ ~kept
    /\ Keep(pending)
    /\ UNCHANGED <<state, is_sp, addr_to_ping, join_vars, thread_vars, pipe, given_up,
                   answerable, pinged, strayed, main>>

\* The main thread locks retx_mutex, in any handler that sends or that finds the
\* node of an answer, and waits for ever.  Nobody reads what it changed before.
Block ==
    /\ Receiving /\ kept
    /\ main' = "blocked"
    /\ UNCHANGED <<state, is_sp, addr_to_ping, join_vars, thread_vars, pipe,
                   request_vars, strayed>>

-----------------------------------------------------------------------------
(* Threads *)

\* run_threads of a peer whose superpeer is a.
RunPeerThreads(a) ==
    /\ sp_checker' = "sleep" /\ go' = 1 /\ sp_flag' = 1
    /\ pingers' = pingers + 1 /\ pinger' = "sleep"
    /\ addr_to_ping' = a
    /\ pinged' = TRUE

\* stop_threads, up to where it waits for the threads; it follows sp_checker,
\* and signals a pinger that must be there.
StopThreads(reset, next) ==
    IF pingers = 0 \/ (~is_sp /\ sp_checker = "none")
    THEN main' = "crashed" /\ UNCHANGED go
    ELSE /\ main' = next
         /\ go' = IF reset \/ is_sp THEN go ELSE 0

\* The threads have ended: stop_threads frees sp_checker and returns.
Joined ==
    /\ is_sp \/ sp_checker = "ended"
    /\ pinger = "ended"
    /\ sp_checker' = "none" /\ go' = 0 /\ sp_flag' = 0

\* A JOIN to the server after a session: RST, a LEAVE, a query that was refused.
\* A handler of the pipe that fails ends the main loop.
Rejoin ==
    /\ main \in {"rejoin", "reset"} /\ Joined
    /\ pingers' = pingers - 1 /\ pinger' = "none"
    /\ \/ /\ Ask(pending, Join(Bs), "JOINBS_SENT")
          /\ main' = IF kept' /\ main = "reset" THEN "exited" ELSE "recv"
       \/ kept /\ main' = "blocked" /\ UNCHANGED <<pending, state, kept>>
    /\ UNCHANGED <<is_sp, addr_to_ping, join_vars, pipe, given_up, answerable,
                   pinged, strayed>>

\* The rest of ack_handler for a REGISTER: the client is a superpeer.
BecomeSuperpeer ==
    /\ main = "register" /\ Joined
    /\ is_sp' = TRUE
    /\ addr_to_ping' = Bs
    /\ state' = "ACTIVE"
    /\ main' = "recv"
    /\ pinger' = "sleep"
    /\ UNCHANGED <<join_vars, pingers, pipe, request_vars, strayed>>

\* The pinger wakes: it stops if it was told to, else it sends a PING, for which
\* it locks retx_mutex.
Ping ==
    /\ Up /\ pinger = "sleep"
    /\ \/ main \in Stopping /\ pinger' = "ended"
       \/ main \notin Stopping /\ kept /\ pinger' = "stuck"
    /\ UNCHANGED <<state, is_sp, addr_to_ping, join_vars, pingers, sp_checker, go,
                   sp_flag, pipe, request_vars, strayed, main>>

\* That of a superpeer goes on to its neighbours: tcp_ping may fail, and then it
\* ends, or wait for a lock that accept_conn kept, or write to a neighbour that
\* is gone, and then the process ends.
PingNeighbours ==
    /\ Up /\ pinger = "sleep" /\ is_sp
    /\ main \notin Stopping /\ ~kept
    /\ \/ pinger' \in {"ended", "stuck"} /\ UNCHANGED main
       \/ main' = "exited" /\ UNCHANGED pinger
    /\ UNCHANGED <<state, is_sp, addr_to_ping, join_vars, pingers, sp_checker, go,
                   sp_flag, pipe, request_vars, strayed>>

\* Variant: the flag is read and not cleared.
StickyCheckSp ==
    /\ Up /\ sp_checker = "sleep"
    /\ sp_checker' = CASE go = 0 -> "ended"
                       [] go = 1 /\ sp_flag = 0 -> "reset"
                       [] go = 1 /\ sp_flag = 1 -> "sleep"
    /\ UNCHANGED <<state, is_sp, addr_to_ping, join_vars, pingers, pinger, go, sp_flag,
                   pipe, request_vars, strayed, main>>

\* Variant: a checker that is told to stop sleeps on.
EndlessCheckSp ==
    /\ Up /\ sp_checker = "sleep"
    /\ sp_checker' = IF go = 1 /\ sp_flag = 0 THEN "reset" ELSE "sleep"
    /\ sp_flag' = IF go = 1 THEN 0 ELSE sp_flag
    /\ UNCHANGED <<state, is_sp, addr_to_ping, join_vars, pingers, pinger, go, pipe,
                   request_vars, strayed, main>>

\* sp_checker_func wakes up ...
CheckSp ==
    /\ Up /\ sp_checker = "sleep"
    /\ sp_checker' = CASE go = 0 -> "ended"
                       [] go = 1 /\ sp_flag = 0 -> "reset"
                       [] go = 1 /\ sp_flag = 1 -> "sleep"
    /\ sp_flag' = IF go = 1 THEN 0 ELSE sp_flag
    /\ UNCHANGED <<state, is_sp, addr_to_ping, join_vars, pingers, pinger, go, pipe,
                   request_vars, strayed, main>>

\* ... and, no lock held, reports a superpeer that does not answer, and ends.
WriteReset ==
    /\ Up /\ sp_checker = "reset"
    /\ pipe' = Append(pipe, "RST")
    /\ sp_checker' = "ended"
    /\ UNCHANGED <<state, is_sp, addr_to_ping, join_vars, pingers, pinger, go,
                   sp_flag, request_vars, strayed, main>>

\* The retransmission thread gives a request up.
GiveUp(r) ==
    /\ Up /\ ~kept
    /\ pending[r] > 0
    /\ Len(pipe) < MaxPipe
    /\ pending' = [pending EXCEPT ![r] = @ - 1]
    /\ answerable' = answerable \cup ({r} \ {Leaving})
    /\ given_up' = IF r \in {Join(a) : a \in Sp} THEN given_up \cup {r} ELSE given_up
    /\ pipe' = Append(pipe, IF r = Leaving THEN "LEAVE" ELSE "JOIN")
    /\ UNCHANGED <<state, is_sp, addr_to_ping, join_vars, thread_vars, pinged, kept,
                   strayed, main>>

-----------------------------------------------------------------------------
(* ack_handler: what an ACK does depends on the state, not on the request. *)

\* Variant: any ACK of a superpeer starts the threads.
EagerAckJoin(a, f) ==
    /\ state \in {"JOINSP_SENT", "ACTIVE"} /\ ~is_sp
    /\ Len(pipe) < MaxPipe
    /\ RunPeerThreads(a)
    /\ state' = "ACTIVE"
    /\ candidates' = <<>>
    /\ pending' = f
    /\ strayed' = FALSE
    /\ UNCHANGED <<is_sp, bserror, join_ov_try, kept, main>>

AckJoin(a, f) ==
    /\ state = "JOINSP_SENT" /\ ~is_sp
    /\ Len(pipe) < MaxPipe
    /\ RunPeerThreads(a)
    /\ state' = "ACTIVE"
    /\ candidates' = <<>>
    /\ pending' = f
    /\ strayed' = FALSE
    /\ UNCHANGED <<is_sp, bserror, join_ov_try, kept, main>>

\* run_threads of a superpeer follows the bs_addr it was not given.
AckJoinCrash(f) ==
    /\ state = "JOINSP_SENT" /\ is_sp
    /\ main' = "crashed"
    /\ pending' = f
    /\ UNCHANGED <<state, is_sp, addr_to_ping, join_vars, thread_vars, pinged, kept,
                   strayed>>

\* The REGISTER to the superpeer is sent first, if it can be.
AckRegister(a, f) ==
    /\ state = "REGISTER_SENT" /\ a = Bs
    /\ ~kept
    /\ \/ StopThreads(FALSE, "register") /\ pending' = f /\ UNCHANGED kept
       \/ Keep(f) /\ UNCHANGED <<go, main>>
    /\ UNCHANGED <<state, is_sp, addr_to_ping, join_vars, pingers, pinger, sp_checker,
                   sp_flag, pinged, strayed>>

AckOther(a, f) ==
    /\ state # "JOINSP_SENT" /\ ~(state = "REGISTER_SENT" /\ a = Bs)
    /\ main' = IF state = "LEAVE_SENT" THEN "exited" ELSE main
    /\ pending' = f
    /\ UNCHANGED <<state, is_sp, addr_to_ping, join_vars, thread_vars, pinged, kept,
                   strayed>>

Acked(a, f) ==
    \/ AckJoin(a, f) \/ AckJoinCrash(f) \/ AckRegister(a, f) \/ AckOther(a, f)

\* An ACK of superpeer a for a JOIN or a LEAVE; once it accepted a JOIN it was
\* also sent lists of files, whose ACKs stop neither.
AckBySp(a) ==
    /\ Receiving
    /\ \E r \in {Join(a)} \cup (IF Join(a) \in answerable THEN {Leaving} ELSE {}) :
       \E f \in Without(r) : Stopped(r, f) /\ Acked(a, f)
    /\ UNCHANGED pipe

AckByBs ==
    /\ Receiving
    /\ Register \in answerable
    /\ Acked(Bs, pending)
    /\ UNCHANGED <<pipe, given_up, answerable>>

-----------------------------------------------------------------------------
(* The other answers *)

\* The next address of the list is tried, or the server is asked again.
TryNext(f) ==
    /\ ~kept
    /\ candidates' = Tail(candidates)
    /\ IF Len(candidates) > 1
       THEN Ask(f, Join(candidates[2]), state)
       ELSE Ask(f, Join(Bs), "JOINBS_SENT")

\* err_handler for a JOIN to a.
ErrJoin(a, f) ==
    IF state = "JOINSP_SENT" /\ a = Head(candidates)
    THEN TryNext(f) /\ UNCHANGED strayed
    ELSE /\ pending' = f
         /\ strayed' = (strayed \/ state = "JOINSP_SENT")
         /\ UNCHANGED <<state, candidates, kept>>

\* Without a node of that index an ERR is ignored; the node of a JOIN that was
\* given up is still there.
Refused(a) ==
    LET r == Join(a) IN
    /\ Receiving /\ ~kept
    /\ \/ /\ pending[r] > 0
          /\ ErrJoin(a, [pending EXCEPT ![r] = @ - 1])
          /\ answerable' = answerable \cup {r}
          /\ UNCHANGED given_up
       \/ /\ r \in given_up
          /\ ErrJoin(a, pending)
          /\ given_up' = given_up \ {r}
          /\ UNCHANGED answerable
    /\ UNCHANGED <<is_sp, addr_to_ping, bserror, join_ov_try, thread_vars, pipe, pinged,
                   main>>

\* A query of the user whose answer is an ERR: addr_to_ping is no superpeer.
QueryRefused ==
    /\ Receiving /\ ~kept
    /\ state = "ACTIVE" /\ addr_to_ping \in Sp
    /\ StopThreads(FALSE, "rejoin")
    /\ UNCHANGED <<state, is_sp, addr_to_ping, join_vars, pingers, pinger, sp_checker,
                   sp_flag, pipe, request_vars, strayed>>

\* Variant: a redirected client waits for the superpeer to come back to it.
LostRedirect(a, b) ==
    /\ Receiving
    /\ \E f \in Without(Join(a)) : Stopped(Join(a), f) /\ pending' = f
    /\ UNCHANGED <<state, is_sp, addr_to_ping, join_vars, thread_vars, pipe, pinged, kept,
                   strayed, main>>

Redirect(a, b) ==
    /\ Receiving
    /\ \E f \in Without(Join(a)) :
          /\ Stopped(Join(a), f)
          /\ IF state = "JOINSP_SENT"
             THEN Ask(f, Join(b), state)
             ELSE pending' = f /\ UNCHANGED <<state, kept>>
    /\ UNCHANGED <<is_sp, addr_to_ping, join_vars, thread_vars, pipe, pinged, strayed,
                   main>>

\* A LIST in JOINBS_SENT: its first superpeer is asked.
ListJoin(list, f) ==
    /\ bserror' = 0
    /\ candidates' = list
    /\ Ask(f, Join(Head(list)), "JOINSP_SENT")
    /\ strayed' = FALSE
    /\ UNCHANGED <<is_sp, join_ov_try, main>>

\* The overlay was joined: the client registers as a superpeer.
RegisterAtBs(f) ==
    /\ ~kept
    /\ \/ state' = "REGISTER_SENT" /\ join_ov_try' = 0 /\ pending' = f /\ UNCHANGED kept
       \/ Keep(f) /\ UNCHANGED <<state, join_ov_try>>

\* The server is asked for more addresses to connect to.
OpenMore(f, tries) ==
    /\ Ask(f, Join(Bs), "OPEN_MORE_CONN")
    /\ join_ov_try' = tries

\* An ABORT to the superpeer, sent or not.
Abort(f) == ~kept /\ ((pending' = f /\ UNCHANGED kept) \/ Keep(f))

\* A LIST in PROMOTE_RECV: init_superpeer connects to all of it, to a part of
\* it, or fails; if the socket it leaves closed was among those select waits
\* for, the main loop ends.
ListInit(f) ==
    /\ bserror' = 0
    /\ candidates' = <<>>
    /\ is_sp' = FALSE
    /\ \/ RegisterAtBs(f) /\ UNCHANGED main
       \/ OpenMore(f, 1) /\ UNCHANGED main
       \/ /\ Abort(f) /\ state' = "ACTIVE" /\ join_ov_try' = 0
          /\ main' \in {"recv", "exited"}
    /\ UNCHANGED strayed

\* Variant: the tries are not limited.
TirelessListMore(f) ==
    /\ candidates' = <<>>
    /\ \/ RegisterAtBs(f)
       \/ OpenMore(f, join_ov_try + 1)
       \/ Abort(f) /\ UNCHANGED <<state, join_ov_try>>
    /\ UNCHANGED <<is_sp, bserror, strayed, main>>

\* A LIST in OPEN_MORE_CONN: after too many tries the client makes do with the
\* connections it has, or remains a peer if there are none.
ListMore(f) ==
    /\ candidates' = <<>>
    /\ \/ RegisterAtBs(f)
       \/ join_ov_try < MaxJoinOvTry /\ OpenMore(f, join_ov_try + 1)
       \/ /\ join_ov_try >= MaxJoinOvTry
          /\ ~kept /\ pending' = f /\ UNCHANGED kept
          /\ state' = "ACTIVE" /\ join_ov_try' = 0
       \/ Abort(f) /\ UNCHANGED <<state, join_ov_try>>
    /\ UNCHANGED <<is_sp, bserror, strayed, main>>

ListHandler(list) ==
    /\ Receiving
    /\ \E f \in Without(Join(Bs)) :
          /\ \/ state = "JOINBS_SENT" /\ ListJoin(list, f)
             \/ state = "PROMOTE_RECV" /\ ListInit(f)
             \/ state = "OPEN_MORE_CONN" /\ ListMore(f)
             \/ /\ state \notin {"JOINBS_SENT", "PROMOTE_RECV", "OPEN_MORE_CONN"}
                /\ pending' = f
                /\ UNCHANGED <<state, is_sp, join_vars, kept, strayed, main>>
    /\ answerable' = answerable \cup {Join(Bs)}
                     \cup IF state' = "REGISTER_SENT" THEN {Register} ELSE {}
    /\ UNCHANGED <<addr_to_ping, thread_vars, pipe, given_up, pinged>>

\* A PROMOTE in JOINBS_SENT is taken for the server's; init_superpeer may fail.
PromotedFirst(f) ==
    /\ state = "JOINBS_SENT"
    /\ state' = "ACTIVE"
    /\ candidates' = <<>>
    /\ join_ov_try' = 0
    /\ pending' = f /\ UNCHANGED kept
    /\ \/ /\ is_sp' = TRUE /\ addr_to_ping' = Bs
          /\ pingers' = pingers + 1 /\ pinger' = "sleep"
       \/ is_sp' = FALSE /\ UNCHANGED <<pingers, pinger, addr_to_ping>>

\* Otherwise the client, once its ACK is sent, asks the server for superpeers to
\* connect to, once.
PromotedPeer(f) ==
    /\ state # "JOINBS_SENT" /\ ~kept
    /\ \/ pending' = f /\ UNCHANGED <<state, kept>>
       \/ /\ state \notin {"PROMOTE_RECV", "REGISTER_SENT"} /\ ~is_sp
          /\ Ask(f, Join(Bs), "PROMOTE_RECV")
    /\ UNCHANGED <<is_sp, addr_to_ping, candidates, join_ov_try, pingers, pinger>>

Promoted(f) == PromotedFirst(f) \/ PromotedPeer(f)

PromoteByBs ==
    /\ Receiving
    /\ \E f \in Without(Join(Bs)) : Stopped(Join(Bs), f) /\ Promoted(f)
    /\ UNCHANGED <<bserror, sp_checker, go, sp_flag, pipe, pinged, strayed, main>>

\* A superpeer promotes a peer whose JOIN it accepted; the ACK may be lost.
PromoteBySp(a) ==
    /\ Receiving
    /\ Sent(Join(a))
    /\ Promoted(pending)
    /\ UNCHANGED <<bserror, sp_checker, go, sp_flag, pipe, given_up, answerable, pinged,
                   strayed, main>>

-----------------------------------------------------------------------------
(* The superpeer and the user *)

\* leave_handler: the superpeer leaves.
Leave(a) ==
    /\ Receiving
    /\ ~is_sp /\ a = addr_to_ping
    /\ StopThreads(FALSE, "rejoin")
    /\ UNCHANGED <<state, is_sp, addr_to_ping, join_vars, pingers, pinger, sp_checker,
                   sp_flag, pipe, request_vars, strayed>>

\* pong_handler of a peer, whoever sent the PONG; update_sp_flag follows
\* sp_checker.
Pong ==
    /\ Receiving
    /\ ~is_sp /\ pinged
    /\ IF sp_checker = "none"
       THEN main' = "crashed" /\ UNCHANGED sp_flag
       ELSE sp_flag' = 1 /\ UNCHANGED main
    /\ UNCHANGED <<state, is_sp, addr_to_ping, join_vars, pingers, pinger, sp_checker,
                   go, pipe, request_vars, strayed>>

\* The leave of a peer's user (bound: one LEAVE is repeated at a time).
KeyboardLeave ==
    /\ Receiving
    /\ ~is_sp /\ pending[Leaving] = 0
    /\ Ask(pending, Leaving, "LEAVE_SENT")
    /\ UNCHANGED <<is_sp, addr_to_ping, join_vars, thread_vars, pipe, given_up,
                   answerable, pinged, strayed, main>>

-----------------------------------------------------------------------------
(* pipe_handler *)

Reads(line) == Receiving /\ pipe # <<>> /\ Head(pipe) = line /\ pipe' = Tail(pipe)

ReadReset ==
    /\ Reads("RST")
    /\ StopThreads(TRUE, "reset")
    /\ UNCHANGED <<state, is_sp, addr_to_ping, join_vars, pingers, pinger, sp_checker,
                   sp_flag, request_vars, strayed>>

\* error_handler for a JOIN, whichever it was.
ReadJoinError ==
    /\ Reads("JOIN")
    /\ CASE state = "JOINBS_SENT" /\ bserror < MaxBsError ->
              /\ bserror' = bserror + 1
              /\ Ask(pending, Join(Bs), state)
              /\ main' = IF kept' THEN "exited" ELSE main
              /\ UNCHANGED candidates
         [] state = "JOINBS_SENT" /\ bserror >= MaxBsError ->
              main' = "exited" /\ UNCHANGED <<state, candidates, bserror, pending, kept>>
         [] state = "JOINSP_SENT" ->
              /\ TryNext(pending)
              /\ main' = IF kept' THEN "exited" ELSE main
              /\ UNCHANGED bserror
         [] OTHER -> UNCHANGED <<state, candidates, bserror, pending, kept, main>>
    /\ UNCHANGED <<is_sp, addr_to_ping, join_ov_try, thread_vars, given_up,
                   answerable, pinged, strayed>>

ReadLeaveError ==
    /\ Reads("LEAVE")
    /\ main' = "exited"
    /\ UNCHANGED <<state, is_sp, addr_to_ping, join_vars, thread_vars,
                   request_vars, strayed>>

-----------------------------------------------------------------------------
\* init and main up to the main loop.
Init ==
    /\ state = "JOINBS_SENT"
    /\ is_sp = FALSE
    /\ addr_to_ping = Nil
    /\ candidates = <<>>
    /\ bserror = 0
    /\ join_ov_try = 0
    /\ pingers = 0
    /\ pinger = "none"
    /\ sp_checker = "none"
    /\ go = 0
    /\ sp_flag = 0
    /\ pipe = <<>>
    /\ pending = [r \in Request |-> IF r = Join(Bs) THEN 1 ELSE 0]
    /\ given_up = {}
    /\ answerable = {}
    /\ pinged = FALSE
    /\ kept = FALSE
    /\ strayed = FALSE
    /\ main = "recv"

Receive ==
    \/ AckByBs \/ PromoteByBs \/ \E list \in Lists : ListHandler(list)
    \/ \E a \in Sp :
          \/ AckBySp(a) \/ Refused(a) \/ PromoteBySp(a) \/ Leave(a)
          \/ \E b \in Sp \ {a} : Redirect(a, b)
    \/ Pong \/ QueryRefused \/ KeyboardLeave
    \/ SendFails \/ Block

Read == ReadReset \/ ReadJoinError \/ ReadLeaveError
Return == Rejoin \/ BecomeSuperpeer
Watch == CheckSp \/ WriteReset

Next ==
    \/ Receive \/ Read \/ Return \/ Watch \/ Ping \/ PingNeighbours
    \/ \E r \in Request : GiveUp(r)

\* The checker and the pinger wake until they end, and a join of threads that
\* ended returns.
Spec ==
    Init /\ [][Next]_vars /\ WF_vars(Watch) /\ WF_vars(Ping) /\ WF_vars(Return)

-----------------------------------------------------------------------------
(* Properties *)

\* Every variable has its type.
TypeOK ==
    /\ state \in {"JOINBS_SENT", "JOINSP_SENT", "PROMOTE_RECV", "OPEN_MORE_CONN",
                 "REGISTER_SENT", "ACTIVE", "LEAVE_SENT"}
    /\ is_sp \in BOOLEAN
    /\ addr_to_ping \in Sp \cup {Bs, Nil}
    /\ candidates \in Seq(Sp)
    /\ bserror \in 0..MaxBsError
    /\ join_ov_try \in 0..MaxJoinOvTry
    /\ pingers \in Nat
    /\ pinger \in {"none", "sleep", "stuck", "ended"}
    /\ sp_checker \in {"none", "sleep", "reset", "ended"}
    /\ go \in 0..1
    /\ sp_flag \in 0..1
    /\ pipe \in Seq({"RST", "JOIN", "LEAVE"})
    /\ pending \in [Request -> 0..MaxSame]
    /\ given_up \in SUBSET {Join(a) : a \in Sp}
    /\ answerable \in SUBSET (Request \cup {Register})
    /\ pinged \in BOOLEAN
    /\ kept \in BOOLEAN
    /\ strayed \in BOOLEAN
    /\ main \in Stopping \cup {"recv", "blocked", "crashed", "exited"}

\* A client never runs two pingers or two checkers of its superpeer, and a
\* client that looks for a superpeer has neither: through all rejoins,
\* promotions and stray answers threads are started only when none run
\* (run_threads overwrites sp_checker and the pinger).
OneCrew ==
    /\ pingers <= 1
    /\ sp_checker # "none" /\ ~is_sp => pingers = 1
    /\ state \in {"JOINBS_SENT", "JOINSP_SENT"} => pingers = 0

\* A client that looks for a superpeer is never left waiting for nothing: a
\* JOIN is still repeated, or its ERR is in the pipe.  Two things can break
\* this: an ERR to a JOIN from outside the list, which err_handler drops, and a
\* retx_send that failed, of this JOIN or of an earlier request.
JoinUnderWay ==
    Up /\ main = "recv" /\ ~kept =>
       /\ state = "JOINBS_SENT" => pending[Join(Bs)] > 0 \/ "JOIN" \in ToSet(pipe)
       /\ state = "JOINSP_SENT" =>
             \/ \E a \in Sp : pending[Join(a)] > 0
             \/ "JOIN" \in ToSet(pipe)
             \/ strayed

\* stop_threads returns, unless the pinger it joins waits for a lock that was
\* kept: the checker ends, also if stop_threads was told that it had ended
\* already and did not stop it, and so does the pinger.
StopReturns == main \in Stopping ~> main \notin Stopping \/ pinger = "stuck"

\* A superpeer that does not answer is noticed: a checker that runs from some
\* time on is told of a PONG again and again.
SilenceNoticed ==
    <>[](sp_checker = "sleep" /\ Up) => []<><<Pong>>_vars

\* The comment on stop_threads: if it was called for an RST the checker of the
\* superpeer has ended already, otherwise it is still active.
ResetMeansEnded ==
    [][/\ ReadReset /\ ~is_sp => sp_checker = "ended"
       /\ QueryRefused \/ \E a \in Sp : Leave(a) =>
             sp_checker \in {"sleep", "reset"}]_vars
=============================================================================
