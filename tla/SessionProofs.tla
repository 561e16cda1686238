---------------------------- MODULE SessionProofs ----------------------------
(***************************************************************************)
(* A client has one crew of threads at most, and one that looks for a      *)
(* superpeer is never left waiting for nothing: for any superpeers, LISTs  *)
(* and limits.                                                             *)
(***************************************************************************)
EXTENDS Session, TLAPS

Copies == [Request -> 0..MaxSame]

\* Where the session is; who waits for a superpeer has the one it asked at the
\* head of its list.
ControlOK ==
    /\ state \in {"JOINBS_SENT", "JOINSP_SENT", "PROMOTE_RECV", "OPEN_MORE_CONN",
                 "REGISTER_SENT", "ACTIVE", "LEAVE_SENT"}
    /\ is_sp \in BOOLEAN
    /\ addr_to_ping \in Sp \cup {Bs, Nil}
    /\ candidates \in Seq(Sp)
    /\ bserror \in 0..MaxBsError
    /\ join_ov_try \in 0..MaxJoinOvTry
    /\ state = "JOINSP_SENT" /\ ~kept => candidates # <<>>

\* Whether there are threads.  A checker runs only beside a pinger, also in a
\* superpeer, and threads are joined only when there are any.
CrewOK ==
    /\ pingers \in 0..1
    /\ sp_checker \in {"none", "sleep", "reset", "ended"}
    /\ go \in 0..1
    /\ sp_flag \in 0..1
    /\ pinger \in {"none", "sleep", "stuck", "ended"}
    /\ main \in Stopping \cup {"recv", "blocked", "crashed", "exited"}
    /\ sp_checker # "none" => pingers = 1
    /\ main \in Stopping => pingers = 1
    /\ state \in {"JOINBS_SENT", "JOINSP_SENT"} => pingers = 0

\* What was sent, and what was reported.
RequestsOK ==
    /\ pipe \in Seq({"RST", "JOIN", "LEAVE"})
    /\ pending \in Copies
    /\ given_up \in SUBSET {Join(a) : a \in Sp}
    /\ answerable \in SUBSET (Request \cup {Register})
    /\ pinged \in BOOLEAN
    /\ strayed \in BOOLEAN

\* Whether retx_mutex was kept.
LockOK == kept \in BOOLEAN

\* The inductive invariant.
IInv == ControlOK /\ CrewOK /\ RequestsOK /\ LockOK /\ JoinUnderWay

LEMMA InitIInv == Init => IInv
<1> SUFFICES ASSUME Init PROVE IInv
  OBVIOUS
<1>1. ControlOK
  <2>1. candidates \in Seq(Sp) /\ state = "JOINBS_SENT"
    BY DEF Init
  <2>2. /\ bserror \in 0..MaxBsError
        /\ join_ov_try \in 0..MaxJoinOvTry
    BY SessionAssumption DEF SessionAssumption, Init
  <2>3. QED
    BY <2>1, <2>2, Zenon DEF Init, ControlOK
<1>2. CrewOK
  <2>1. main = "recv" /\ pingers = 0
    BY DEF Init
  <2>2. QED
    BY <2>1 DEF Init, CrewOK, Stopping
<1>3. RequestsOK /\ JoinUnderWay
  <2>1. Join(Bs) \in Request
    BY DEF Request
  <2>2. pending \in Copies /\ pending[Join(Bs)] = 1
    BY <2>1, SessionAssumption DEF SessionAssumption, Init, Copies
  <2>3. pipe \in Seq({"RST", "JOIN", "LEAVE"})
    BY DEF Init
  <2>4. given_up = {} /\ answerable = {} /\ pinged = FALSE /\ strayed = FALSE
    BY DEF Init
  <2>5. RequestsOK
    BY <2>2, <2>3, <2>4 DEF RequestsOK
  <2>6. JoinUnderWay
    BY <2>2 DEF Init, JoinUnderWay
  <2>7. QED
    BY <2>5, <2>6
<1>4. LockOK
  BY DEF Init, LockOK
<1>5. QED
  BY <1>1, <1>2, <1>3, <1>4 DEF IInv

-----------------------------------------------------------------------------
(* Threads *)

\* Threads are started only by an ACK in JOINSP_SENT and by a PROMOTE in
\* JOINBS_SENT, where there are none, and those states are entered only from
\* each other and by Rejoin, which ends the pinger.
LEMMA CrewPreserved == IInv /\ [Next]_vars => CrewOK'
<1> SUFFICES ASSUME ControlOK, CrewOK, [Next]_vars PROVE CrewOK'
  BY DEF IInv
<1> USE DEF ControlOK, CrewOK, Stopping
<1>1. CASE AckByBs
  BY <1>1 DEF AckByBs, Acked, AckJoin, AckJoinCrash, AckRegister, AckOther,
              RunPeerThreads, StopThreads, thread_vars, join_vars, Receiving
<1>2. ASSUME NEW a \in Sp, AckBySp(a) PROVE CrewOK'
  BY <1>2 DEF AckBySp, Acked, AckJoin, AckJoinCrash, AckRegister, AckOther,
              RunPeerThreads, StopThreads, thread_vars, join_vars, Receiving
<1>3. ASSUME NEW a \in Sp, Refused(a) PROVE CrewOK'
  BY <1>3 DEF Refused, ErrJoin, TryNext, Ask, thread_vars
<1>4. ASSUME NEW a \in Sp, NEW b \in Sp, Redirect(a, b) PROVE CrewOK'
  BY <1>4 DEF Redirect, Ask, thread_vars
<1>5. ASSUME NEW list \in Lists, ListHandler(list) PROVE CrewOK'
  BY <1>5 DEF ListHandler, ListJoin, ListInit, ListMore, RegisterAtBs, OpenMore,
              Abort, Ask, Receiving, thread_vars, join_vars
<1>6. ASSUME NEW f, Promoted(f), Receiving,
             UNCHANGED <<bserror, sp_checker, go, sp_flag, main>>
      PROVE  CrewOK'
  BY <1>6 DEF Promoted, PromotedFirst, PromotedPeer, Ask, Receiving
<1>7. CASE PromoteByBs \/ \E a \in Sp : PromoteBySp(a)
  BY <1>6, <1>7 DEF PromoteByBs, PromoteBySp
<1>8. CASE QueryRefused \/ ReadReset \/ \E a \in Sp : Leave(a)
  BY <1>8 DEF QueryRefused, ReadReset, Leave, StopThreads, request_vars
<1>9. CASE Pong \/ KeyboardLeave
  BY <1>9 DEF Pong, KeyboardLeave, Ask, thread_vars, request_vars
<1>10. CASE ReadJoinError
  BY <1>10 DEF ReadJoinError, Reads, Receiving, TryNext, Ask, thread_vars
<1>11. CASE ReadLeaveError
  BY <1>11 DEF ReadLeaveError, thread_vars, request_vars
<1>12. CASE Rejoin \/ BecomeSuperpeer
  BY <1>12 DEF Rejoin, BecomeSuperpeer, Joined, Ask, request_vars
<1>13. CASE CheckSp \/ WriteReset \/ Ping \/ PingNeighbours \/ SendFails \/ Block
  BY <1>13 DEF CheckSp, WriteReset, Ping, PingNeighbours, SendFails, Block, Receiving, Up,
               thread_vars, request_vars
<1>14. ASSUME NEW r \in Request, GiveUp(r) PROVE CrewOK'
  BY <1>14 DEF GiveUp, thread_vars
<1>15. CASE UNCHANGED vars
  BY <1>15 DEF vars, thread_vars, request_vars
<1>16. QED
  BY <1>1, <1>2, <1>3, <1>4, <1>5, <1>7, <1>8, <1>9, <1>10, <1>11, <1>12, <1>13,
     <1>14, <1>15 DEF Next, Receive, Read, Return, Watch

\* Who does not keep the lock for ever leaves it as it was.
LEMMA LockPreserved == LockOK /\ [Next]_vars => LockOK'
<1> SUFFICES ASSUME LockOK, [Next]_vars PROVE LockOK'
  OBVIOUS
<1> USE DEF LockOK
<1>1. ASSUME NEW f, NEW r, NEW next, Ask(f, r, next) PROVE LockOK'
  BY <1>1, Zenon DEF Ask, Keep
<1>2. ASSUME NEW a, NEW f, Acked(a, f) PROVE LockOK'
  BY <1>2, Zenon DEF Acked, AckJoin, AckJoinCrash, AckRegister, AckOther, Keep
<1>3. ASSUME NEW a \in Sp, Refused(a) PROVE LockOK'
  BY <1>1, <1>3, Zenon DEF Refused, ErrJoin, TryNext
<1>4. ASSUME NEW a \in Sp, NEW b \in Sp, Redirect(a, b) PROVE LockOK'
  BY <1>1, <1>4, Zenon DEF Redirect
<1>5. ASSUME NEW list \in Lists, ListHandler(list) PROVE LockOK'
  BY <1>1, <1>5, Zenon DEF ListHandler, ListJoin, ListInit, ListMore, RegisterAtBs,
                           OpenMore, Abort, Keep
<1>6. ASSUME NEW f, Promoted(f) PROVE LockOK'
  BY <1>1, <1>6, Zenon DEF Promoted, PromotedFirst, PromotedPeer
<1>7. CASE KeyboardLeave \/ Rejoin \/ SendFails
  BY <1>1, <1>7, Zenon DEF KeyboardLeave, Rejoin, SendFails, Keep
<1>8. CASE ReadJoinError
  <2>1. \/ \E r, next : Ask(pending, r, next)
        \/ TryNext(pending)
        \/ UNCHANGED kept
    BY <1>8 DEF ReadJoinError
  <2>2. QED
    BY <1>1, <2>1, Zenon DEF TryNext
<1>9. CASE UNCHANGED kept
  BY <1>9
<1>10. CASE \/ QueryRefused \/ ReadReset \/ ReadLeaveError \/ Pong
            \/ BecomeSuperpeer \/ CheckSp \/ WriteReset \/ Ping \/ PingNeighbours \/ Block
            \/ \E a \in Sp : Leave(a)
            \/ \E r \in Request : GiveUp(r)
            \/ UNCHANGED vars
  BY <1>9, <1>10 DEF QueryRefused, ReadReset, ReadLeaveError, Pong, BecomeSuperpeer,
                     CheckSp, WriteReset, Ping, PingNeighbours, Block, Leave, GiveUp,
                     vars, request_vars
<1>11. CASE \/ AckByBs \/ PromoteByBs
            \/ \E a \in Sp : AckBySp(a) \/ PromoteBySp(a)
  BY <1>2, <1>6, <1>11 DEF AckByBs, AckBySp, PromoteByBs, PromoteBySp
<1>12. QED
  BY <1>3, <1>4, <1>5, <1>7, <1>8, <1>10, <1>11
     DEF Next, Receive, Read, Return, Watch

-----------------------------------------------------------------------------
(* The session *)

LEMMA TailNonEmpty ==
    ASSUME NEW S, NEW s \in Seq(S), s # <<>>
    PROVE  Tail(s) \in Seq(S) /\ (Len(s) > 1 => Tail(s) # <<>>)
<1>1. Tail(s) \in Seq(S) /\ Len(Tail(s)) = Len(s) - 1 /\ Len(s) \in Nat
  OBVIOUS
<1>2. Len(s) > 1 => Len(Tail(s)) # 0
  <2> DEFINE n == Len(s)
             m == Len(Tail(s))
  <2>1. m = n - 1 /\ n \in Nat
    BY <1>1
  <2> HIDE DEF n, m
  <2>2. n > 1 => m # 0
    BY ONLY <2>1
  <2>3. QED
    BY <2>2 DEF n, m
<1>3. Len(<<>>) = 0
  OBVIOUS
<1>4. QED
  BY <1>1, <1>2, <1>3, Zenon

\* The counts start in their ranges.
LEMMA CountsStart ==
    0 \in 0..MaxBsError /\ 0 \in 0..MaxJoinOvTry /\ 1 \in 0..MaxJoinOvTry
BY SessionAssumption DEF SessionAssumption

\* The list that is left after its head was tried.
LEMMA TryNextPreserves ==
    ASSUME ControlOK, state = "JOINSP_SENT", NEW f, TryNext(f)
    PROVE  /\ candidates' \in Seq(Sp)
           /\ state' \in {"JOINSP_SENT", "JOINBS_SENT"}
           /\ state' = "JOINSP_SENT" /\ ~kept' => candidates' # <<>>
<1>1. candidates \in Seq(Sp) /\ candidates # <<>> /\ ~kept
  BY DEF ControlOK, TryNext
<1>2. /\ Tail(candidates) \in Seq(Sp)
      /\ Len(candidates) > 1 => Tail(candidates) # <<>>
  BY <1>1, TailNonEmpty
<1>3. candidates' = Tail(candidates)
  BY DEF TryNext
<1>4. \/ kept' = TRUE /\ state' = state
      \/ IF Len(candidates) > 1 THEN state' = state ELSE state' = "JOINBS_SENT"
  BY DEF TryNext, Ask, Keep
<1>5. QED
  BY <1>2, <1>3, <1>4

\* An ACK empties the list or leaves it with its state.
LEMMA AckedControl ==
    ASSUME ControlOK, NEW a \in Sp \cup {Bs}, NEW f, Acked(a, f)
    PROVE  ControlOK'
<1> USE DEF ControlOK
<1>1. <<>> \in Seq(Sp)
  OBVIOUS
<1>2. CASE AckJoin(a, f)
  BY <1>1, <1>2 DEF AckJoin, RunPeerThreads
<1>3. CASE AckJoinCrash(f)
  BY <1>3 DEF AckJoinCrash, join_vars
<1>4. CASE AckRegister(a, f)
  BY <1>4 DEF AckRegister, join_vars
<1>5. CASE AckOther(a, f)
  BY <1>5 DEF AckOther, join_vars
<1>6. QED
  BY <1>2, <1>3, <1>4, <1>5 DEF Acked

LEMMA PromotedControl ==
    ASSUME ControlOK, NEW f, Promoted(f), UNCHANGED bserror
    PROVE  ControlOK'
<1> USE CountsStart DEF ControlOK
<1>1. <<>> \in Seq(Sp)
  OBVIOUS
<1>2. CASE PromotedFirst(f)
  BY <1>1, <1>2 DEF PromotedFirst
<1>3. CASE PromotedPeer(f)
  BY <1>3 DEF PromotedPeer, Ask
<1>4. QED
  BY <1>2, <1>3 DEF Promoted

LEMMA ListControl ==
    ASSUME ControlOK, NEW list \in Lists, ListHandler(list)
    PROVE  ControlOK'
<1> USE CountsStart DEF ControlOK
<1>1. <<>> \in Seq(Sp) /\ list \in Seq(Sp) /\ list # <<>>
  BY SessionAssumption DEF SessionAssumption
<1>2. PICK f \in Without(Join(Bs)) :
         \/ state = "JOINBS_SENT" /\ ListJoin(list, f)
         \/ state = "PROMOTE_RECV" /\ ListInit(f)
         \/ state = "OPEN_MORE_CONN" /\ ListMore(f)
         \/ UNCHANGED <<state, is_sp, join_vars, kept>>
  BY DEF ListHandler
<1>3. addr_to_ping' = addr_to_ping
  BY DEF ListHandler
<1>4. CASE ListJoin(list, f)
  BY <1>1, <1>3, <1>4 DEF ListJoin, Ask
<1>5. CASE ListInit(f)
  BY <1>1, <1>3, <1>5 DEF ListInit, RegisterAtBs, OpenMore, Abort, Ask, Keep
<1>6. CASE state = "OPEN_MORE_CONN" /\ ListMore(f)
  <2>1. join_ov_try < MaxJoinOvTry => join_ov_try + 1 \in 0..MaxJoinOvTry
    BY SessionAssumption DEF SessionAssumption
  <2>2. QED
    BY <1>1, <1>3, <1>6, <2>1 DEF ListMore, RegisterAtBs, OpenMore, Abort, Ask,
                                      Keep
<1>7. CASE UNCHANGED <<state, is_sp, join_vars, kept>>
  BY <1>3, <1>7 DEF join_vars
<1>8. QED
  BY <1>2, <1>4, <1>5, <1>6, <1>7

LEMMA ControlPreserved == IInv /\ [Next]_vars => ControlOK'
<1> SUFFICES ASSUME ControlOK, [Next]_vars PROVE ControlOK'
  BY DEF IInv
<1>1. CASE AckByBs \/ \E a \in Sp : AckBySp(a)
  BY <1>1, AckedControl DEF AckByBs, AckBySp
<1>2. ASSUME NEW a \in Sp, Refused(a) PROVE ControlOK'
  <2>1. PICK f : ErrJoin(a, f)
    BY <1>2 DEF Refused
  <2>2. UNCHANGED <<is_sp, addr_to_ping, bserror, join_ov_try>>
    BY <1>2 DEF Refused
  <2>3. CASE state = "JOINSP_SENT" /\ TryNext(f)
    BY <2>2, <2>3, TryNextPreserves DEF ControlOK
  <2>4. CASE UNCHANGED <<state, candidates, kept>>
    BY <2>2, <2>4 DEF ControlOK
  <2>5. QED
    BY <2>1, <2>3, <2>4 DEF ErrJoin
<1>3. CASE \E list \in Lists : ListHandler(list)
  BY <1>3, ListControl
<1>4. CASE PromoteByBs \/ \E a \in Sp : PromoteBySp(a)
  BY <1>4, PromotedControl DEF PromoteByBs, PromoteBySp
<1>5. CASE KeyboardLeave
  BY <1>5 DEF KeyboardLeave, Ask, join_vars, ControlOK
<1>6. CASE ReadJoinError
  <2>1. CASE state = "JOINSP_SENT"
    BY <1>6, <2>1, TryNextPreserves DEF ReadJoinError, ControlOK
  <2>2. CASE state # "JOINSP_SENT"
    <3>1. bserror < MaxBsError => bserror + 1 \in 0..MaxBsError
      BY SessionAssumption DEF SessionAssumption, ControlOK
    <3>2. bserror < MaxBsError \/ bserror >= MaxBsError
      BY SessionAssumption DEF SessionAssumption, ControlOK
    <3>3. UNCHANGED <<is_sp, addr_to_ping, join_ov_try>>
      BY <1>6 DEF ReadJoinError
    <3>4. /\ UNCHANGED <<state, candidates>>
          /\ \/ bserror' = bserror
             \/ bserror < MaxBsError /\ bserror' = bserror + 1
      BY <1>6, <2>2, <3>2 DEF ReadJoinError, Ask
    <3>5. QED
      BY <2>2, <3>1, <3>3, <3>4 DEF ControlOK
  <2>3. QED
    BY <2>1, <2>2
<1>7. CASE Rejoin
  BY <1>7 DEF Rejoin, Ask, join_vars, ControlOK
<1>8. CASE BecomeSuperpeer
  BY <1>8 DEF BecomeSuperpeer, join_vars, ControlOK
<1>9. CASE UNCHANGED <<state, is_sp, addr_to_ping, join_vars, kept>>
  BY <1>9 DEF join_vars, ControlOK
<1>10. CASE \/ Pong \/ QueryRefused \/ ReadReset \/ ReadLeaveError
            \/ CheckSp \/ WriteReset \/ Ping \/ PingNeighbours \/ Block
            \/ \E a \in Sp : Leave(a)
            \/ \E r \in Request : GiveUp(r)
            \/ UNCHANGED vars
  BY <1>9, <1>10 DEF Pong, QueryRefused, ReadReset, ReadLeaveError, CheckSp, WriteReset,
                     Ping, PingNeighbours, Block, Leave, GiveUp, request_vars, vars
<1>11. CASE SendFails \/ \E a, b \in Sp : Redirect(a, b)
  BY <1>11 DEF SendFails, Redirect, Ask, join_vars, ControlOK
<1>12. QED
  BY <1>1, <1>2, <1>3, <1>4, <1>5, <1>6, <1>7, <1>8, <1>10, <1>11
     DEF Next, Receive, Read, Return, Watch

-----------------------------------------------------------------------------
(* Requests *)

LEMMA JoinFacts ==
    /\ \A a \in Sp \cup {Bs} : Join(a) \in Request /\ Join(a) # Leaving
    /\ \A a \in Sp : Join(a) # Join(Bs)
    /\ Leaving \in Request
BY SessionAssumption DEF SessionAssumption, Request, Join, Leaving

\* One more copy of r, up to the bound.
LEMMA AndFacts ==
    ASSUME NEW f \in Copies, NEW r \in Request
    PROVE  /\ And(f, r) \in Copies /\ And(f, r)[r] > 0
           /\ \A q \in Request : f[q] > 0 => And(f, r)[q] > 0
<1>1. \A q \in Request : f[q] \in 0..MaxSame
  BY DEF Copies
<1>2. \A q \in Request :
         And(f, r)[q] = IF q = r /\ f[q] < MaxSame THEN f[q] + 1 ELSE f[q]
  BY DEF And, Copies
<1>3. And(f, r) \in Copies
  BY <1>1, SessionAssumption DEF SessionAssumption, And, Copies
<1>4. QED
  BY <1>1, <1>2, <1>3, SessionAssumption DEF SessionAssumption

\* One copy less of r.
LEMMA LessFacts ==
    ASSUME pending \in Copies, NEW r \in Request, pending[r] > 0
    PROVE  /\ [pending EXCEPT ![r] = @ - 1] \in Copies
           /\ \A q \in Request : q # r => [pending EXCEPT ![r] = @ - 1][q] = pending[q]
<1>1. pending[r] \in 0..MaxSame
  BY DEF Copies
<1>2. pending[r] - 1 \in 0..MaxSame
  BY <1>1, SessionAssumption DEF SessionAssumption
<1>3. QED
  BY <1>2 DEF Copies

LEMMA WithoutFacts ==
    ASSUME pending \in Copies, NEW r \in Request, NEW f \in Without(r)
    PROVE  f \in Copies /\ \A q \in Request : q # r => f[q] = pending[q]
<1>1. CASE f = pending
  BY <1>1
<1>2. CASE pending[r] > 0 /\ f = [pending EXCEPT ![r] = @ - 1]
  BY <1>2, LessFacts
<1>3. QED
  BY <1>1, <1>2 DEF Without

LEMMA StoppedFacts ==
    ASSUME RequestsOK, NEW r \in Request, NEW f, Stopped(r, f)
    PROVE  /\ f \in Copies /\ \A q \in Request : q # r => f[q] = pending[q]
           /\ given_up' \in SUBSET {Join(a) : a \in Sp}
           /\ answerable' \in SUBSET (Request \cup {Register})
<1>1. pending \in Copies /\ f \in Without(r)
  BY DEF RequestsOK, Stopped
<1>2. f \in Copies /\ \A q \in Request : q # r => f[q] = pending[q]
  BY <1>1, WithoutFacts
<1>3. QED
  BY <1>2 DEF RequestsOK, Stopped

\* retx_send fails for good,
LEMMA KeepFacts ==
    ASSUME NEW f \in Copies, Keep(f)
    PROVE  pending' \in Copies /\ kept'
<1>1. 0 \in 0..MaxSame
  BY SessionAssumption DEF SessionAssumption
<1>2. QED
  BY <1>1 DEF Keep, Copies

\* or repeats the request.
LEMMA AskFacts ==
    ASSUME NEW f \in Copies, NEW r \in Request, NEW next, Ask(f, r, next)
    PROVE  /\ pending' \in Copies
           /\ kept' \/ (state' = next /\ pending'[r] > 0)
BY AndFacts, KeepFacts DEF Ask

\* When a client does not wait, when it has just asked, and when it waits as
\* before, nobody left it waiting.
LEMMA NotWaiting ==
    ASSUME \/ main' # "recv" \/ kept'
           \/ state' \notin {"JOINBS_SENT", "JOINSP_SENT"}
    PROVE  JoinUnderWay'
BY DEF JoinUnderWay

LEMMA Asked ==
    ASSUME \/ kept'
           \/ state' = "JOINBS_SENT" /\ pending'[Join(Bs)] > 0
           \/ state' = "JOINSP_SENT" /\ \E a \in Sp : pending'[Join(a)] > 0
    PROVE  JoinUnderWay'
BY DEF JoinUnderWay

LEMMA WaitsOn ==
    ASSUME JoinUnderWay, state' = state, main = "recv", kept => kept',
           state = "JOINBS_SENT" /\ pending[Join(Bs)] > 0 => pending'[Join(Bs)] > 0,
           state = "JOINSP_SENT" =>
               \A a \in Sp : pending[Join(a)] > 0 => pending'[Join(a)] > 0,
           "JOIN" \in ToSet(pipe) => "JOIN" \in ToSet(pipe'),
           strayed => strayed'
    PROVE  JoinUnderWay'
<1>1. Up
  BY DEF Up
<1>2. QED
  BY <1>1 DEF JoinUnderWay

LEMMA TryNextRequests ==
    ASSUME ControlOK, state = "JOINSP_SENT", NEW f \in Copies, TryNext(f)
    PROVE  pending' \in Copies /\ JoinUnderWay'
<1>1. candidates \in Seq(Sp)
  BY DEF ControlOK
<1>2. CASE Len(candidates) > 1
  <2>1. candidates[2] \in Sp
    BY <1>1, <1>2
  <2>2. Ask(f, Join(candidates[2]), state)
    BY <1>2 DEF TryNext
  <2>3. QED
    BY <2>1, <2>2, JoinFacts, AskFacts, Asked
<1>3. CASE ~(Len(candidates) > 1)
  <2>1. Ask(f, Join(Bs), "JOINBS_SENT")
    BY <1>3 DEF TryNext
  <2>2. QED
    BY <2>1, JoinFacts, AskFacts, Asked
<1>4. QED
  BY <1>2, <1>3

\* An ACK in JOINSP_SENT starts the threads or crashes the client; otherwise it
\* stops nothing that is waited for.
LEMMA AckedRequests ==
    ASSUME RequestsOK, JoinUnderWay, Receiving, NEW a, NEW f \in Copies, Acked(a, f),
           f[Join(Bs)] = pending[Join(Bs)], UNCHANGED pipe
    PROVE  /\ pending' \in Copies /\ pinged' \in BOOLEAN /\ strayed' \in BOOLEAN
           /\ JoinUnderWay'
<1>1. CASE AckJoin(a, f)
  <2>1. /\ pending' = f /\ pinged' = TRUE /\ strayed' = FALSE
        /\ state' = "ACTIVE"
    BY <1>1 DEF AckJoin, RunPeerThreads
  <2>2. QED
    BY <2>1, NotWaiting
<1>2. CASE AckJoinCrash(f)
  <2>1. pending' = f /\ UNCHANGED <<pinged, strayed>> /\ main' = "crashed"
    BY <1>2 DEF AckJoinCrash
  <2>2. QED
    BY <2>1, NotWaiting DEF RequestsOK
<1>3. CASE AckRegister(a, f)
  <2>1. /\ pending' = f \/ Keep(f)
        /\ UNCHANGED <<pinged, strayed>> /\ state' = "REGISTER_SENT"
    BY <1>3 DEF AckRegister
  <2>2. QED
    BY <2>1, KeepFacts, NotWaiting DEF RequestsOK
<1>4. CASE AckOther(a, f)
  <2>1. /\ pending' = f /\ UNCHANGED <<pinged, strayed>>
        /\ state' = state /\ state # "JOINSP_SENT" /\ kept' = kept
    BY <1>4 DEF AckOther
  <2>2. JoinUnderWay'
    BY <2>1, WaitsOn DEF Receiving
  <2>3. QED
    BY <2>1, <2>2 DEF RequestsOK
<1>5. QED
  BY <1>1, <1>2, <1>3, <1>4 DEF Acked

LEMMA PromotedRequests ==
    ASSUME RequestsOK, JoinUnderWay, Receiving, NEW f \in Copies, Promoted(f),
           \A a \in Sp : f[Join(a)] = pending[Join(a)],
           UNCHANGED <<pipe, strayed>>
    PROVE  pending' \in Copies /\ JoinUnderWay'
<1>1. CASE PromotedFirst(f)
  <2>1. pending' = f /\ state' = "ACTIVE"
    BY <1>1 DEF PromotedFirst
  <2>2. QED
    BY <2>1, NotWaiting
<1>2. CASE state # "JOINBS_SENT" /\ pending' = f /\ UNCHANGED <<state, kept>>
  BY <1>2, WaitsOn DEF Receiving
<1>3. CASE Ask(f, Join(Bs), "PROMOTE_RECV")
  BY <1>3, JoinFacts, AskFacts, NotWaiting
<1>4. QED
  BY <1>1, <1>2, <1>3 DEF Promoted, PromotedPeer

LEMMA ListRequests ==
    ASSUME RequestsOK, JoinUnderWay, NEW list \in Lists, ListHandler(list)
    PROVE  RequestsOK' /\ JoinUnderWay'
<1>1. PICK f \in Without(Join(Bs)) :
         \/ state = "JOINBS_SENT" /\ ListJoin(list, f)
         \/ state = "PROMOTE_RECV" /\ ListInit(f)
         \/ state = "OPEN_MORE_CONN" /\ ListMore(f)
         \/ /\ state \notin {"JOINBS_SENT", "PROMOTE_RECV", "OPEN_MORE_CONN"}
            /\ pending' = f
            /\ UNCHANGED <<state, strayed, kept>>
  BY DEF ListHandler
<1>2. pending \in Copies
  BY DEF RequestsOK
<1>3. f \in Copies /\ \A a \in Sp : f[Join(a)] = pending[Join(a)]
  BY <1>2, JoinFacts, WithoutFacts
<1>4. ASSUME NEW next, Ask(f, Join(Bs), next)
      PROVE  pending' \in Copies /\ (kept' \/ state' = next)
  BY <1>3, <1>4, JoinFacts, AskFacts
<1>5. UNCHANGED <<pipe, given_up, pinged>> /\ main = "recv"
  BY DEF ListHandler, Receiving
<1>6. answerable' \in SUBSET (Request \cup {Register})
  BY JoinFacts DEF ListHandler, RequestsOK
<1>7. pending' \in Copies /\ strayed' \in BOOLEAN /\ JoinUnderWay'
  <2>1. CASE ListJoin(list, f)
    <3>1. Head(list) \in Sp
      BY SessionAssumption DEF SessionAssumption
    <3>2. Ask(f, Join(Head(list)), "JOINSP_SENT") /\ strayed' = FALSE
      BY <2>1 DEF ListJoin
    <3>3. QED
      BY <1>3, <3>1, <3>2, JoinFacts, AskFacts, Asked
  <2>2. CASE ListInit(f)
    <3>1. /\ \/ pending' = f /\ state' \in {"REGISTER_SENT", "ACTIVE"}
             \/ Keep(f)
             \/ Ask(f, Join(Bs), "OPEN_MORE_CONN")
          /\ strayed' = strayed
      BY <2>2 DEF ListInit, RegisterAtBs, OpenMore, Abort
    <3>2. QED
      BY <1>3, <1>4, <3>1, KeepFacts, NotWaiting DEF RequestsOK
  <2>3. CASE state = "OPEN_MORE_CONN" /\ ListMore(f)
    <3>1. /\ \/ pending' = f /\ state' \in {"REGISTER_SENT", "OPEN_MORE_CONN", "ACTIVE"}
             \/ Keep(f)
             \/ Ask(f, Join(Bs), "OPEN_MORE_CONN")
          /\ strayed' = strayed
      BY <2>3 DEF ListMore, RegisterAtBs, OpenMore, Abort
    <3>2. QED
      BY <1>3, <1>4, <3>1, KeepFacts, NotWaiting DEF RequestsOK
  <2>4. CASE /\ state # "JOINBS_SENT" /\ pending' = f
             /\ UNCHANGED <<state, strayed, kept>>
    <3>1. JoinUnderWay'
      BY <1>3, <1>5, <2>4, WaitsOn
    <3>2. QED
      BY <1>3, <2>4, <3>1 DEF RequestsOK
  <2>5. QED
    BY <1>1, <2>1, <2>2, <2>3, <2>4
<1>8. QED
  BY <1>5, <1>6, <1>7 DEF RequestsOK

\* An ERR that err_handler drops leaves a client waiting only if it strayed.
LEMMA RefusedRequests ==
    ASSUME ControlOK, RequestsOK, JoinUnderWay, NEW a \in Sp, Refused(a)
    PROVE  RequestsOK' /\ JoinUnderWay'
<1>1. Join(a) \in Request /\ Join(a) # Join(Bs) /\ Join(Bs) \in Request
  BY JoinFacts
<1>2. pending \in Copies
  BY DEF RequestsOK
<1>3. PICK f \in Copies :
         ErrJoin(a, f) /\ \A q \in Request : q # Join(a) => f[q] = pending[q]
  <2>1. CASE pending[Join(a)] > 0 /\ ErrJoin(a, [pending EXCEPT ![Join(a)] = @ - 1])
    BY <1>1, <1>2, <2>1, LessFacts
  <2>2. CASE ErrJoin(a, pending)
    BY <1>2, <2>2
  <2>3. QED
    BY <2>1, <2>2 DEF Refused
<1>4. UNCHANGED <<pipe, pinged>> /\ main = "recv"
  BY DEF Refused, Receiving
<1>5. /\ answerable' \in SUBSET (Request \cup {Register})
      /\ given_up' \in SUBSET {Join(b) : b \in Sp}
  BY <1>1 DEF Refused, RequestsOK
<1>6. pending' \in Copies /\ strayed' \in BOOLEAN /\ JoinUnderWay'
  <2>1. CASE state = "JOINSP_SENT" /\ TryNext(f) /\ strayed' = strayed
    BY <2>1, TryNextRequests DEF RequestsOK
  <2>2. CASE /\ pending' = f /\ UNCHANGED <<state, candidates, kept>>
             /\ strayed' = (strayed \/ state = "JOINSP_SENT")
    <3>1. strayed' \in BOOLEAN
      BY <2>2 DEF RequestsOK
    <3>2. CASE state = "JOINSP_SENT"
      BY <2>2, <3>1, <3>2 DEF JoinUnderWay
    <3>3. CASE state # "JOINSP_SENT"
      <4>1. pending'[Join(Bs)] = pending[Join(Bs)]
        BY <1>1, <1>3, <2>2
      <4>2. strayed => strayed'
        BY <2>2
      <4>3. QED
        BY <1>4, <2>2, <3>1, <3>3, <4>1, <4>2, WaitsOn
    <3>4. QED
      BY <3>2, <3>3
  <2>3. QED
    BY <1>3, <2>1, <2>2 DEF ErrJoin
<1>7. QED
  BY <1>4, <1>5, <1>6 DEF RequestsOK

\* A request that is given up is reported; only the report of a JOIN is waited
\* for.
LEMMA GiveUpRequests ==
    ASSUME RequestsOK, JoinUnderWay, CrewOK, NEW r \in Request, GiveUp(r)
    PROVE  RequestsOK' /\ JoinUnderWay'
<1> DEFINE line == IF r = Leaving THEN "LEAVE" ELSE "JOIN"
<1>1. pipe' = Append(pipe, line) /\ pipe \in Seq({"RST", "JOIN", "LEAVE"})
  BY DEF GiveUp, RequestsOK
<1>2. line \in {"RST", "JOIN", "LEAVE"}
  OBVIOUS
<1>3. /\ pipe' \in Seq({"RST", "JOIN", "LEAVE"})
      /\ line \in ToSet(pipe') /\ ToSet(pipe) \subseteq ToSet(pipe')
  <2> HIDE DEF line
  <2>1. QED
    BY <1>1, <1>2 DEF ToSet
<1>4. pending' \in Copies /\ \A q \in Request : q # r => pending'[q] = pending[q]
  BY LessFacts DEF GiveUp, RequestsOK
<1>5. /\ answerable' \in SUBSET (Request \cup {Register})
      /\ given_up' \in SUBSET {Join(a) : a \in Sp}
      /\ UNCHANGED <<state, main, pinged, kept, strayed>>
  BY DEF GiveUp, RequestsOK
<1>6. RequestsOK'
  BY <1>3, <1>4, <1>5 DEF RequestsOK
<1>7. JoinUnderWay'
  <2>1. CASE r # Leaving
    <3>1. "JOIN" \in ToSet(pipe')
      BY <1>3, <2>1
    <3>2. QED
      BY <3>1 DEF JoinUnderWay
  <2>2. CASE r = Leaving
    <3>1. \A a \in Sp \cup {Bs} : pending'[Join(a)] = pending[Join(a)]
      BY <1>4, <2>2, JoinFacts
    <3>2. CASE main = "recv"
      BY <1>3, <1>5, <3>1, <3>2, WaitsOn
    <3>3. CASE main # "recv"
      BY <1>5, <3>3, NotWaiting
    <3>4. QED
      BY <3>2, <3>3
  <2>3. QED
    BY <2>1, <2>2
<1>8. QED
  BY <1>6, <1>7

\* What reads a line of the pipe.  One that asks for a new session where there
\* is none, and so would leave a JOIN unread, crashes the client.
LEMMA ReadRequests ==
    ASSUME ControlOK, CrewOK, RequestsOK, JoinUnderWay, Read
    PROVE  RequestsOK' /\ JoinUnderWay'
<1>1. pipe \in Seq({"RST", "JOIN", "LEAVE"}) /\ pipe # <<>> /\ pipe' = Tail(pipe)
  BY DEF Read, ReadReset, ReadJoinError, ReadLeaveError, Reads, RequestsOK
<1>2. pipe' \in Seq({"RST", "JOIN", "LEAVE"})
  BY <1>1
<1>3. UNCHANGED <<given_up, answerable, pinged, strayed>>
  BY DEF Read, ReadReset, ReadJoinError, ReadLeaveError, request_vars
<1>4. pending' \in Copies /\ JoinUnderWay'
  <2>1. CASE ReadReset
    <3>1. pending' = pending /\ main' \in {"crashed", "reset"}
      BY <2>1 DEF ReadReset, StopThreads, request_vars
    <3>2. QED
      BY <3>1, NotWaiting DEF RequestsOK
  <2>2. CASE ReadLeaveError
    <3>1. pending' = pending /\ main' = "exited"
      BY <2>2 DEF ReadLeaveError, request_vars
    <3>2. QED
      BY <3>1, NotWaiting DEF RequestsOK
  <2>3. CASE ReadJoinError /\ state = "JOINSP_SENT"
    <3>1. TryNext(pending)
      BY <2>3 DEF ReadJoinError
    <3>2. QED
      BY <2>3, <3>1, TryNextRequests DEF RequestsOK
  <2>4. CASE ReadJoinError /\ state = "JOINBS_SENT"
    <3>1. bserror < MaxBsError \/ bserror >= MaxBsError
      BY SessionAssumption DEF SessionAssumption, ControlOK
    <3>2. \/ Ask(pending, Join(Bs), state)
          \/ pending' = pending /\ main' = "exited"
      BY <2>4, <3>1 DEF ReadJoinError
    <3>3. QED
      BY <2>4, <3>2, JoinFacts, AskFacts, Asked, NotWaiting DEF RequestsOK
  <2>5. CASE ReadJoinError /\ state \notin {"JOINSP_SENT", "JOINBS_SENT"}
    <3>1. UNCHANGED <<state, pending>>
      BY <2>5 DEF ReadJoinError
    <3>2. QED
      BY <2>5, <3>1, NotWaiting DEF RequestsOK
  <2>6. QED
    BY <2>1, <2>2, <2>3, <2>4, <2>5 DEF Read
<1>5. QED
  BY <1>2, <1>3, <1>4 DEF RequestsOK

LEMMA RequestsPreserved == IInv /\ [Next]_vars => RequestsOK' /\ JoinUnderWay'
<1> SUFFICES ASSUME IInv, [Next]_vars PROVE RequestsOK' /\ JoinUnderWay'
  OBVIOUS
<1>0. ControlOK /\ CrewOK /\ RequestsOK /\ JoinUnderWay /\ pending \in Copies
  BY DEF IInv, RequestsOK
<1>1. CASE AckByBs
  <2>1. Acked(Bs, pending) /\ Receiving /\ UNCHANGED <<pipe, given_up, answerable>>
    BY <1>1 DEF AckByBs
  <2>2. pending' \in Copies /\ pinged' \in BOOLEAN /\ strayed' \in BOOLEAN /\ JoinUnderWay'
    BY <1>0, <2>1, AckedRequests
  <2>3. QED
    BY <1>0, <2>1, <2>2 DEF RequestsOK
<1>2. ASSUME NEW a \in Sp, AckBySp(a) PROVE RequestsOK' /\ JoinUnderWay'
  <2>0. PICK r \in {Join(a), Leaving} : \E f : Stopped(r, f) /\ Acked(a, f)
    BY <1>2 DEF AckBySp
  <2>1. PICK f : Stopped(r, f) /\ Acked(a, f)
    BY <2>0
  <2>2. r \in Request /\ Join(Bs) \in Request /\ r # Join(Bs)
    BY JoinFacts
  <2>3. /\ f \in Copies /\ f[Join(Bs)] = pending[Join(Bs)]
        /\ given_up' \in SUBSET {Join(b) : b \in Sp}
        /\ answerable' \in SUBSET (Request \cup {Register})
    BY <1>0, <2>1, <2>2, StoppedFacts
  <2>4. Receiving /\ UNCHANGED pipe
    BY <1>2 DEF AckBySp
  <2>5. pending' \in Copies /\ pinged' \in BOOLEAN /\ strayed' \in BOOLEAN /\ JoinUnderWay'
    BY <1>0, <2>1, <2>3, <2>4, AckedRequests
  <2>6. QED
    BY <1>0, <2>3, <2>4, <2>5 DEF RequestsOK
<1>3. ASSUME NEW a \in Sp, NEW b \in Sp, Redirect(a, b) PROVE RequestsOK' /\ JoinUnderWay'
  <2>1. PICK f : /\ Stopped(Join(a), f)
                 /\ IF state = "JOINSP_SENT"
                    THEN Ask(f, Join(b), state)
                    ELSE pending' = f /\ UNCHANGED <<state, kept>>
    BY <1>3 DEF Redirect
  <2>2. /\ f \in Copies /\ f[Join(Bs)] = pending[Join(Bs)]
        /\ given_up' \in SUBSET {Join(c) : c \in Sp}
        /\ answerable' \in SUBSET (Request \cup {Register})
    BY <1>0, <2>1, JoinFacts, StoppedFacts
  <2>3. /\ main = "recv" /\ pipe' = pipe
        /\ pinged' = pinged /\ strayed' = strayed
    BY <1>3 DEF Redirect, Receiving
  <2>4. pending' \in Copies /\ JoinUnderWay'
    <3>1. CASE state = "JOINSP_SENT"
      <4>1. Ask(f, Join(b), state)
        BY <2>1, <3>1
      <4>2. QED
        BY <2>2, <3>1, <4>1, JoinFacts, AskFacts, Asked
    <3>2. CASE state # "JOINSP_SENT"
      <4>1. pending' = f /\ UNCHANGED <<state, kept>>
        BY <2>1, <3>2
      <4>2. QED
        BY <1>0, <2>2, <2>3, <3>2, <4>1, WaitsOn
    <3>3. QED
      BY <3>1, <3>2
  <2>5. QED
    BY <1>0, <2>2, <2>3, <2>4 DEF RequestsOK
<1>4. CASE PromoteByBs
  <2>1. PICK f : Stopped(Join(Bs), f) /\ Promoted(f)
    BY <1>4 DEF PromoteByBs
  <2>2. /\ f \in Copies /\ \A a \in Sp : f[Join(a)] = pending[Join(a)]
        /\ given_up' \in SUBSET {Join(b) : b \in Sp}
        /\ answerable' \in SUBSET (Request \cup {Register})
    BY <1>0, <2>1, JoinFacts, StoppedFacts
  <2>3. Receiving /\ UNCHANGED <<pipe, pinged, strayed>>
    BY <1>4 DEF PromoteByBs
  <2>4. pending' \in Copies /\ JoinUnderWay'
    BY <1>0, <2>1, <2>2, <2>3, PromotedRequests
  <2>5. QED
    BY <1>0, <2>2, <2>3, <2>4 DEF RequestsOK
<1>5. ASSUME NEW a \in Sp, PromoteBySp(a) PROVE RequestsOK' /\ JoinUnderWay'
  <2>1. /\ Receiving /\ Promoted(pending)
        /\ UNCHANGED <<pipe, given_up, answerable, pinged, strayed>>
    BY <1>5 DEF PromoteBySp
  <2>2. pending' \in Copies /\ JoinUnderWay'
    BY <1>0, <2>1, PromotedRequests
  <2>3. QED
    BY <1>0, <2>1, <2>2 DEF RequestsOK
<1>6. CASE QueryRefused \/ \E a \in Sp : Leave(a)
  <2>1. UNCHANGED <<pipe, request_vars, strayed>> /\ main' \in {"crashed", "rejoin"}
    BY <1>6 DEF QueryRefused, Leave, StopThreads
  <2>2. QED
    BY <1>0, <2>1, NotWaiting DEF RequestsOK, request_vars
<1>7. CASE KeyboardLeave
  <2>1. /\ Ask(pending, Leaving, "LEAVE_SENT")
        /\ UNCHANGED <<pipe, given_up, answerable, pinged, strayed>>
    BY <1>7 DEF KeyboardLeave
  <2>2. pending' \in Copies /\ (kept' \/ state' = "LEAVE_SENT")
    BY <1>0, <2>1, JoinFacts, AskFacts
  <2>3. QED
    BY <1>0, <2>1, <2>2, NotWaiting DEF RequestsOK
<1>8. CASE Rejoin
  <2>1. /\ \/ Ask(pending, Join(Bs), "JOINBS_SENT")
           \/ pending' = pending /\ main' = "blocked"
        /\ UNCHANGED <<pipe, given_up, answerable, pinged, strayed>>
    BY <1>8 DEF Rejoin
  <2>2. pending' \in Copies /\ JoinUnderWay'
    BY <1>0, <2>1, JoinFacts, AskFacts, Asked, NotWaiting
  <2>3. QED
    BY <1>0, <2>1, <2>2 DEF RequestsOK
<1>9. CASE BecomeSuperpeer
  BY <1>0, <1>9, NotWaiting DEF BecomeSuperpeer, RequestsOK, request_vars
<1>10. CASE WriteReset
  <2>1. pipe' = Append(pipe, "RST") /\ UNCHANGED <<state, main, request_vars, strayed>>
    BY <1>10 DEF WriteReset
  <2>2. pipe \in Seq({"RST", "JOIN", "LEAVE"})
    BY <1>0 DEF RequestsOK
  <2>3. pipe' \in Seq({"RST", "JOIN", "LEAVE"}) /\ ToSet(pipe) \subseteq ToSet(pipe')
    BY <2>1, <2>2 DEF ToSet
  <2>4. JoinUnderWay'
    BY <1>0, <2>1, <2>3, WaitsOn, NotWaiting DEF request_vars
  <2>5. QED
    BY <1>0, <2>1, <2>3, <2>4 DEF RequestsOK, request_vars
<1>11. CASE Pong
  <2>1. UNCHANGED <<pipe, state, request_vars, strayed>> /\ main = "recv"
    BY <1>11 DEF Pong, Receiving
  <2>2. JoinUnderWay'
    BY <1>0, <2>1, WaitsOn DEF request_vars
  <2>3. QED
    BY <1>0, <2>1, <2>2 DEF RequestsOK, request_vars
<1>12. CASE CheckSp \/ Ping \/ PingNeighbours \/ Block \/ UNCHANGED vars
  <2>1. /\ UNCHANGED <<pipe, state, request_vars, strayed>>
        /\ main' = main \/ main' # "recv"
    BY <1>12 DEF CheckSp, Ping, PingNeighbours, Block, vars
  <2>2. JoinUnderWay'
    BY <1>0, <2>1, WaitsOn, NotWaiting DEF request_vars
  <2>3. QED
    BY <1>0, <2>1, <2>2 DEF RequestsOK, request_vars
<1>13. CASE SendFails
  <2>1. Keep(pending) /\ UNCHANGED <<pipe, given_up, answerable, pinged, strayed>>
    BY <1>13 DEF SendFails
  <2>2. pending' \in Copies /\ kept'
    BY <1>0, <2>1, KeepFacts DEF RequestsOK
  <2>3. QED
    BY <1>0, <2>1, <2>2, NotWaiting DEF RequestsOK
<1>14. QED
  BY <1>0, <1>1, <1>2, <1>3, <1>4, <1>5, <1>6, <1>7, <1>8, <1>9, <1>10, <1>11, <1>12,
     <1>13,
     ListRequests, RefusedRequests, GiveUpRequests, ReadRequests
     DEF Next, Receive, Return, Watch

-----------------------------------------------------------------------------

LEMMA Invariance == Spec => []IInv
<1>1. IInv /\ [Next]_vars => IInv'
  BY ControlPreserved, CrewPreserved, LockPreserved, RequestsPreserved DEF IInv
<1>2. QED
  BY InitIInv, <1>1, PTL DEF Spec

\* Every variable has its type (client.c, sp_checker.c).
THEOREM TypeCorrect == Spec => []TypeOK
<1>1. IInv => TypeOK
  BY DEF IInv, ControlOK, CrewOK, RequestsOK, LockOK, Copies, TypeOK
<1>2. QED
  BY Invariance, <1>1, PTL

\* Through all rejoins, promotions and stray answers a client has one pinger and
\* one checker at most, and none while it looks for a superpeer (run_threads,
\* stop_threads and the handlers that call them).
THEOREM NeverTwoCrews == Spec => []OneCrew
<1>1. IInv => OneCrew
  BY DEF IInv, CrewOK, OneCrew
<1>2. QED
  BY Invariance, <1>1, PTL

\* A client that looks for a superpeer has a JOIN that is repeated or was just
\* given up, unless somebody it did not find in its LIST refused one, or a
\* retx_send failed (ack_handler, err_handler, list_handler, redirect_handler,
\* error_handler, retx_send).
THEOREM AlwaysAsked == Spec => []JoinUnderWay
<1>1. IInv => JoinUnderWay
  BY DEF IInv
<1>2. QED
  BY Invariance, <1>1, PTL
=============================================================================
