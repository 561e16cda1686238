---------------------------- MODULE TransfersProofs --------------------------
(***************************************************************************)
(* The two sides of the transfers, each for every size of its pool.        *)
(*                                                                         *)
(* The count of uploads is exact, with any number of connections, as long  *)
(* as no thread fails in mid-service.                                      *)
(*                                                                         *)
(* A part file is truthful and a completed download has all its chunks,    *)
(* for any files and wherever the process ended, unless two threads wrote  *)
(* two files to one name at a time.                                        *)
(***************************************************************************)
EXTENDS Uploads, Downloads, ListLemmas

-----------------------------------------------------------------------------
(* The uploads *)

\* The places where j is in s; Reports(i) are those of i in the pipe.
Places(s, j) == {k \in DOMAIN s : s[k] = j}

\* Every variable has its type.
UploadsTyped ==
    /\ upload_count \in Int
    /\ sleeping \in [Slot -> BOOLEAN]
    /\ socksd \in [Slot -> Nat] /\ open \subseteq Nat
    /\ pc \in [Slot -> {"top", "wait", "request", "serve"}]
    /\ pipe \in Seq(Slot)
    /\ conns \in Nat
    /\ failed \subseteq Nat /\ spurious \in Nat

\* No thread failed while it served chunks, and none woke without a signal.
Regular == failed = {} /\ spurious = 0

\* No two threads had one connection, and no connection is known before it is
\* accepted.
OwnConns ==
    /\ open \subseteq 1..conns
    /\ \A i \in Slot : socksd[i] <= conns
    /\ \A i, j \in Slot : i # j => socksd[i] # socksd[j] \/ socksd[i] = 0

\* A thread that sleeps has nothing to report; one that does not has its
\* connection open or one report in the pipe; one that serves has the former.
SlotOK(i) ==
    /\ IF sleeping[i]
       THEN Reports(i) = {} /\ socksd[i] \notin open /\ pc[i] \in {"top", "wait"}
       ELSE IF socksd[i] \in open THEN Reports(i) = {}
       ELSE \E k \in DOMAIN pipe : Reports(i) = {k}
    /\ pc[i] \in {"request", "serve"} => socksd[i] \in open

\* The inductive invariant.
UploadsInv ==
    /\ UploadsTyped /\ OwnConns
    /\ Regular => upload_count = Cardinality(Awake) /\ \A i \in Slot : SlotOK(i)

LEMMA AwakeFinite == IsFiniteSet(Awake)
<1>1. IsFiniteSet(1..MaxUpload)
  BY FS_Interval, UploadsAssumption DEF UploadsAssumption
<1>2. Awake \in SUBSET (1..MaxUpload)
  BY DEF Awake, Slot
<1>3. QED
  BY ONLY <1>1, <1>2, FS_Subset

\* A report added at the end is one place more for its thread only.
LEMMA PlacesAppend ==
    ASSUME NEW S, NEW s \in Seq(S), NEW i \in S, NEW j
    PROVE  Places(Append(s, i), j) =
               IF j = i THEN Places(s, j) \cup {Len(s) + 1} ELSE Places(s, j)
BY DEF Places

\* Without its head a sequence has the places it had, one to the left.
LEMMA PlacesTail ==
    ASSUME NEW S, NEW s \in Seq(S), s # <<>>, NEW j
    PROVE  /\ Places(s, j) = {} => Places(Tail(s), j) = {}
           /\ \A k \in DOMAIN s : Places(s, j) = {k} =>
                IF k = 1 THEN Places(Tail(s), j) = {}
                ELSE k - 1 \in DOMAIN Tail(s) /\ Places(Tail(s), j) = {k - 1}
<1>1. /\ Tail(s) \in Seq(S) /\ Len(Tail(s)) = Len(s) - 1 /\ Len(s) \in Nat
      /\ \A k \in 1..Len(s) - 1 : Tail(s)[k] = s[k + 1]
  OBVIOUS
<1>2. DOMAIN s = 1..Len(s) /\ DOMAIN Tail(s) = 1..Len(s) - 1
  BY <1>1
<1>3. \A k : k \in Places(Tail(s), j) <=> k \in Nat /\ k # 0 /\ k + 1 \in Places(s, j)
  BY <1>1, <1>2 DEF Places
<1>4. ASSUME Places(s, j) = {} PROVE Places(Tail(s), j) = {}
  BY <1>3, <1>4
<1>5. ASSUME NEW k \in DOMAIN s, Places(s, j) = {k}
      PROVE  IF k = 1 THEN Places(Tail(s), j) = {}
             ELSE k - 1 \in DOMAIN Tail(s) /\ Places(Tail(s), j) = {k - 1}
  BY <1>2, <1>3, <1>5
<1>6. QED
  BY <1>4, <1>5

LEMMA UploadsStart == Init => UploadsInv
<1> SUFFICES ASSUME Init PROVE UploadsInv
  OBVIOUS
<1>1. UploadsTyped
  <2>1. pc \in [Slot -> {"top", "wait", "request", "serve"}] /\ pipe \in Seq(Slot)
    BY DEF Init
  <2>2. sleeping \in [Slot -> BOOLEAN] /\ socksd \in [Slot -> Nat]
    BY DEF Init
  <2>3. upload_count \in Int /\ conns \in Nat /\ open \subseteq Nat
    BY DEF Init
  <2>4. failed \subseteq Nat /\ spurious \in Nat
    BY DEF Init
  <2>5. QED
    BY ONLY <2>1, <2>2, <2>3, <2>4 DEF UploadsTyped
<1>4. OwnConns
  BY DEF Init, OwnConns
<1>2. Awake = {}
  BY DEF Init, Awake
<1>3. \A i \in Slot : SlotOK(i)
  BY DEF Init, SlotOK, Reports
<1>5. QED
  BY <1>1, <1>2, <1>3, <1>4, FS_EmptySet DEF Init, UploadsInv

\* What all actions of a thread have in common: it may close its connection and
\* report, and leaves the others as they are.
LEMMA ThreadPreserves ==
    ASSUME UploadsInv, NEW i \in Slot, UnchangedMain,
           open' = open \/ open' = open \ {socksd[i]},
           pipe' = pipe \/ pipe' = Append(pipe, i),
           pc' \in [Slot -> {"top", "wait", "request", "serve"}],
           \A j \in Slot : j # i => pc'[j] = pc[j],
           failed' \subseteq Nat, spurious' \in Nat,
           Regular' => Regular /\ SlotOK(i)'
    PROVE  UploadsInv'
<1>1. UploadsTyped'
  <2>1. UNCHANGED <<upload_count, sleeping, socksd, conns>> /\ UploadsTyped
    BY DEF UploadsInv, UnchangedMain
  <2>2. pipe' \in Seq(Slot)
    <3>1. pipe \in Seq(Slot) /\ Append(pipe, i) \in Seq(Slot)
      BY DEF UploadsInv, UploadsTyped
    <3>2. QED
      BY <3>1
  <2>3. open' \subseteq Nat
    BY DEF UploadsInv, UploadsTyped
  <2>4. QED
    BY <2>1, <2>2, <2>3, Zenon DEF UploadsTyped
<1>2. OwnConns'
  BY DEF UploadsInv, OwnConns, UnchangedMain
<1>3. ASSUME Regular' PROVE upload_count' = Cardinality(Awake')
  BY <1>3 DEF UploadsInv, Awake, UnchangedMain
<1>4. ASSUME Regular', NEW j \in Slot, j # i PROVE SlotOK(j)'
  <2>1. SlotOK(j)
    BY <1>4 DEF UploadsInv
  <2>2. socksd[j] \in open' <=> socksd[j] \in open
    <3>1. socksd[j] # socksd[i] \/ socksd[j] = 0
      BY <1>4 DEF UploadsInv, OwnConns
    <3>2. 0 \notin open
      BY DEF UploadsInv, OwnConns, UploadsTyped
    <3>3. QED
      BY <3>1, <3>2
  <2>3. Reports(j)' = Reports(j) /\ DOMAIN pipe \subseteq DOMAIN pipe'
    <3>1. CASE pipe' = pipe
      BY <3>1 DEF Reports
    <3>2. CASE pipe' = Append(pipe, i)
      <4>1. pipe \in Seq(Slot)
        BY DEF UploadsInv, UploadsTyped
      <4>2. Places(Append(pipe, i), j) = Places(pipe, j)
        BY <1>4, <4>1, PlacesAppend
      <4>3. DOMAIN pipe \subseteq DOMAIN Append(pipe, i)
        BY <4>1
      <4>4. QED
        BY <3>2, <4>2, <4>3 DEF Reports, Places
    <3>3. QED
      BY <3>1, <3>2
  <2>4. socksd' = socksd /\ sleeping' = sleeping /\ pc'[j] = pc[j]
    BY <1>4 DEF UnchangedMain
  <2>5. QED
    BY <2>1, <2>2, <2>3, <2>4 DEF SlotOK
<1>5. QED
  BY <1>1, <1>2, <1>3, <1>4 DEF UploadsInv

\* A thread that has its connection has it open, and no report in the pipe.
LEMMA Busy ==
    ASSUME UploadsInv, Regular, NEW i \in Slot, pc[i] \in {"request", "serve"}
    PROVE  ~sleeping[i] /\ socksd[i] \in open /\ Reports(i) = {}
BY DEF UploadsInv, SlotOK

\* It closes the connection, reports and goes back to the top.
LEMMA ReportOK ==
    ASSUME UploadsInv, Regular, NEW i \in Slot, pc[i] \in {"request", "serve"},
           UnchangedMain, Close(i), Report(i), Goto(i, "top")
    PROVE  SlotOK(i)'
<1>1. ~sleeping[i] /\ Reports(i) = {}
  BY Busy
<1>2. pipe \in Seq(Slot) /\ pipe' = Append(pipe, i)
  BY DEF UploadsInv, UploadsTyped, Report
<1>3. Reports(i)' = {Len(pipe) + 1}
  BY <1>1, <1>2, PlacesAppend DEF Reports, Places
<1>4. Len(pipe) + 1 \in DOMAIN pipe'
  BY <1>2
<1>5. socksd' = socksd /\ sleeping' = sleeping
  BY DEF UnchangedMain
<1>6. socksd'[i] \notin open' /\ pc'[i] = "top"
  BY <1>5 DEF Close, Goto, UploadsInv, UploadsTyped
<1>7. QED
  BY <1>1, <1>3, <1>4, <1>5, <1>6 DEF SlotOK

LEMMA UploaderPreserves ==
    ASSUME UploadsInv, NEW i \in Slot, Uploader(i)
    PROVE  UploadsInv'
<1>0. /\ pc \in [Slot -> {"top", "wait", "request", "serve"}]
      /\ failed \subseteq Nat /\ spurious \in Nat
  BY DEF UploadsInv, UploadsTyped
<1>1. CASE Wait(i)
  <2>1. ASSUME Regular PROVE SlotOK(i)'
    <3>1. SlotOK(i)
      BY <2>1 DEF UploadsInv
    <3>2. pc'[i] = "wait" /\ open' = open /\ pipe' = pipe
          /\ socksd' = socksd /\ sleeping' = sleeping
      BY <1>0, <1>1 DEF Wait, Goto, UnchangedMain
    <3>3. QED
      BY <3>1, <3>2 DEF SlotOK, Reports
  <2>2. QED
    BY <1>0, <1>1, <2>1, ThreadPreserves DEF Wait, Goto, Regular
<1>2. CASE Refuse(i)
  <2>1. ASSUME Regular PROVE SlotOK(i)'
    BY <1>2, <2>1, ReportOK DEF Refuse, At
  <2>2. QED
    BY <1>0, <1>2, <2>1, ThreadPreserves DEF Refuse, Goto, Close, Report, Regular
<1>3. CASE Answer(i)
  <2>1. ASSUME Regular PROVE SlotOK(i)'
    <3>1. ~sleeping[i] /\ socksd[i] \in open /\ Reports(i) = {}
      BY <1>3, <2>1, Busy DEF Answer, At
    <3>2. open' = open /\ pipe' = pipe /\ socksd' = socksd /\ sleeping' = sleeping
      BY <1>3 DEF Answer, UnchangedMain
    <3>3. QED
      BY <3>1, <3>2 DEF SlotOK, Reports
  <2>2. QED
    BY <1>0, <1>3, <2>1, ThreadPreserves DEF Answer, Goto, Regular
<1>4. CASE ChunkFails(i)
  <2>1. failed' \subseteq Nat /\ ~Regular'
    BY <1>0, <1>4 DEF ChunkFails, Regular, UploadsInv, UploadsTyped
  <2>2. pc' = [pc EXCEPT ![i] = "serve"] /\ spurious' = spurious /\ UnchangedMain
    BY <1>4 DEF ChunkFails, Goto
  <2>3. open' = open \ {socksd[i]} /\ pipe' = Append(pipe, i)
    BY <1>4 DEF ChunkFails, Close, Report
  <2>4. QED
    BY <1>0, <2>1, <2>2, <2>3, ThreadPreserves
<1>5. CASE EndUpload(i)
  <2>1. ASSUME Regular PROVE SlotOK(i)'
    BY <1>5, <2>1, ReportOK DEF EndUpload, At
  <2>2. QED
    BY <1>0, <1>5, <2>1, ThreadPreserves DEF EndUpload, Goto, Close, Report, Regular
<1>6. CASE WakeSpuriously(i)
  <2>1. pc' \in [Slot -> {"top", "wait", "request", "serve"}]
        /\ spurious' \in Nat /\ spurious' # 0
        /\ \A j \in Slot : j # i => pc'[j] = pc[j]
    BY <1>0, <1>6 DEF WakeSpuriously, Goto
  <2>2. open' = open /\ pipe' = pipe /\ failed' \subseteq Nat /\ UnchangedMain
    BY <1>0, <1>6, Zenon DEF WakeSpuriously
  <2>3. ~Regular'
    BY <2>1 DEF Regular
  <2>4. QED
    BY <2>1, <2>2, <2>3, ThreadPreserves
<1>7. CASE BrokenPipe(i)
  <2>1. /\ UNCHANGED <<open, pc, pipe, failed, spurious>> /\ UnchangedMain
    BY <1>7, Zenon DEF BrokenPipe
  <2>2. ASSUME Regular PROVE SlotOK(i)'
    <3>1. SlotOK(i)
      BY <2>2 DEF UploadsInv
    <3>2. QED
      BY <2>1, <3>1 DEF SlotOK, Reports, UnchangedMain
  <2>3. failed' \subseteq Nat /\ spurious' \in Nat /\ (Regular' <=> Regular)
    BY <1>0, <2>1, Zenon DEF Regular
  <2>4. QED
    BY <1>0, <2>1, <2>2, <2>3, ThreadPreserves
<1>8. QED
  BY <1>1, <1>2, <1>3, <1>4, <1>5, <1>6, <1>7 DEF Uploader

\* A thread that slept is awake with a new connection.
LEMMA GivePreserves ==
    ASSUME UploadsInv, NEW i \in Slot, sleeping[i], Give(i, conns + 1),
           conns' = conns + 1, UNCHANGED <<fd, pipe, failed, spurious>>
    PROVE  UploadsInv'
<1> DEFINE c == conns + 1
<1>1. /\ socksd' = [socksd EXCEPT ![i] = c] /\ sleeping' = [sleeping EXCEPT ![i] = FALSE]
      /\ open' = open \cup {c} /\ upload_count' = upload_count + 1
      /\ pipe' = pipe /\ failed' = failed /\ spurious' = spurious /\ conns' = c
  BY DEF Give
<1>2. UploadsTyped'
  <2>1. pc' \in [Slot -> {"top", "wait", "request", "serve"}]
    BY DEF Give, UploadsInv, UploadsTyped
  <2>2. c \in Nat
    BY DEF UploadsInv, UploadsTyped
  <2>3. upload_count' \in Int /\ open' \subseteq Nat
    BY <1>1, <2>2 DEF UploadsInv, UploadsTyped
  <2>4. sleeping' \in [Slot -> BOOLEAN] /\ socksd' \in [Slot -> Nat]
    BY <1>1, <2>2 DEF UploadsInv, UploadsTyped
  <2>5. pipe' \in Seq(Slot) /\ failed' \subseteq Nat /\ spurious' \in Nat
    BY <1>1, Zenon DEF UploadsInv, UploadsTyped
  <2>6. QED
    BY <1>1, <2>1, <2>2, <2>3, <2>4, <2>5, Zenon DEF UploadsTyped
<1>3. OwnConns'
  BY <1>1 DEF UploadsInv, UploadsTyped, OwnConns
<1>4. ASSUME Regular' PROVE upload_count' = Cardinality(Awake')
  <2>1. Awake' = Awake \cup {i} /\ i \notin Awake
    BY <1>1 DEF Awake, UploadsInv, UploadsTyped
  <2>2. Cardinality(Awake \cup {i}) = Cardinality(Awake) + 1
    BY <2>1, AwakeFinite, FS_AddElement
  <2>3. QED
    BY <1>1, <1>4, <2>1, <2>2 DEF UploadsInv, Regular
<1>5. ASSUME Regular', NEW j \in Slot PROVE SlotOK(j)'
  <2>1. SlotOK(j) /\ SlotOK(i)
    BY <1>1, <1>5 DEF UploadsInv, Regular
  <2>2. CASE j = i
    <3>1. Reports(i) = {}
      BY <2>1 DEF SlotOK
    <3>2. socksd'[i] = c /\ c \in open' /\ ~sleeping'[i]
      BY <1>1 DEF UploadsInv, UploadsTyped
    <3>3. QED
      BY <1>1, <2>2, <3>1, <3>2 DEF SlotOK, Reports
  <2>3. CASE j # i
    <3>1. socksd'[j] = socksd[j] /\ sleeping'[j] = sleeping[j] /\ pc'[j] = pc[j]
      BY <1>1, <2>3 DEF Give, UploadsInv, UploadsTyped
    <3>2. socksd[j] \in open' <=> socksd[j] \in open
      <4>1. socksd[j] # c
        BY DEF UploadsInv, UploadsTyped, OwnConns
      <4>2. QED
        BY <1>1, <4>1
    <3>3. QED
      BY <1>1, <2>1, <3>1, <3>2 DEF SlotOK, Reports
  <2>4. QED
    BY <2>2, <2>3
<1>6. QED
  BY <1>2, <1>3, <1>4, <1>5 DEF UploadsInv

LEMMA AcceptPreserves == UploadsInv /\ Accept => UploadsInv'
<1> SUFFICES ASSUME UploadsInv, Accept PROVE UploadsInv'
  OBVIOUS
<1>1. CASE UNCHANGED <<socksd, sleeping, pc, deaf, open, upload_count>>
  <2>1. /\ conns' = conns + 1 /\ pipe' = pipe /\ failed' = failed
        /\ spurious' = spurious
    BY DEF Accept
  <2>2. UploadsTyped' /\ OwnConns'
    BY <1>1, <2>1 DEF UploadsInv, UploadsTyped, OwnConns
  <2>3. QED
    BY <1>1, <2>1, <2>2 DEF UploadsInv, SlotOK, Reports, Awake, Regular
<1>2. CASE \E i \in Slot : sleeping[i] /\ Give(i, conns + 1)
  BY <1>2, GivePreserves DEF Accept
<1>3. QED
  BY <1>1, <1>2 DEF Accept

\* The report at the head was the only one of its thread, which may sleep.
LEMMA ReadPipePreserves == UploadsInv /\ ReadPipe => UploadsInv'
<1> SUFFICES ASSUME UploadsInv, ReadPipe PROVE UploadsInv'
  OBVIOUS
<1> DEFINE i == Head(pipe)
<1>1. /\ pipe \in Seq(Slot) /\ pipe # <<>> /\ pipe' = Tail(pipe)
      /\ sleeping' = [sleeping EXCEPT ![i] = TRUE]
      /\ upload_count' = upload_count - 1
      /\ UNCHANGED <<socksd, open, pc, conns, failed, spurious>>
  BY DEF UploadsInv, UploadsTyped, ReadPipe
<1>2. i \in Slot /\ 1 \in DOMAIN pipe /\ pipe[1] = i /\ pipe' \in Seq(Slot)
  BY <1>1
<1>3. UploadsTyped' /\ OwnConns'
  BY <1>1, <1>2 DEF UploadsInv, UploadsTyped, OwnConns
<1>4. ASSUME Regular
      PROVE  ~sleeping[i] /\ socksd[i] \notin open /\ Reports(i) = {1}
  <2>1. SlotOK(i)
    BY <1>2, <1>4 DEF UploadsInv
  <2>2. 1 \in Reports(i)
    BY <1>2 DEF Reports
  <2>3. QED
    BY <2>1, <2>2 DEF SlotOK
<1>5. ASSUME Regular' PROVE upload_count' = Cardinality(Awake')
  <2>1. Awake' = Awake \ {i} /\ i \in Awake
    BY <1>1, <1>2, <1>4, <1>5 DEF Awake, UploadsInv, UploadsTyped, Regular
  <2>2. Cardinality(Awake \ {i}) = Cardinality(Awake) - 1
    BY <2>1, AwakeFinite, FS_RemoveElement
  <2>3. QED
    BY <1>1, <1>5, <2>1, <2>2 DEF UploadsInv, Regular
<1>6. ASSUME Regular', NEW j \in Slot PROVE SlotOK(j)'
  <2>1. SlotOK(j)
    BY <1>1, <1>6 DEF UploadsInv, Regular
  <2>2. /\ Reports(j) = Places(pipe, j) /\ Reports(j)' = Places(Tail(pipe), j)
    BY <1>1 DEF Reports, Places
  <2>3. CASE j = i
    <3>1. Reports(j)' = {}
      <4>1. Places(pipe, j) = {1}
        BY <1>1, <1>4, <1>6, <2>2, <2>3 DEF Regular
      <4>2. QED
        BY ONLY <1>1, <1>2, <2>2, <4>1, PlacesTail
    <3>2. pc[i] \in {"top", "wait"}
      BY <1>1, <1>4, <1>6, <2>1, <2>3 DEF SlotOK, UploadsInv, UploadsTyped, Regular
    <3>3. sleeping'[j]
      BY <1>1, <1>2, <2>3 DEF UploadsInv, UploadsTyped
    <3>4. socksd'[j] \notin open' /\ pc'[j] \in {"top", "wait"}
      BY <1>1, <1>4, <1>6, <2>3, <3>2 DEF Regular
    <3>5. QED
      BY <3>1, <3>3, <3>4 DEF SlotOK
  <2>4. CASE j # i
    <3>1. sleeping'[j] = sleeping[j]
      BY <1>1, <2>4 DEF UploadsInv, UploadsTyped
    <3>2. Reports(j) = {} => Reports(j)' = {}
      BY <1>1, <2>2, PlacesTail
    <3>3. ASSUME NEW k \in DOMAIN pipe, Reports(j) = {k}
          PROVE  \E l \in DOMAIN pipe' : Reports(j)' = {l}
      <4>1. k # 1
        BY <1>2, <2>4, <3>3 DEF Reports
      <4>2. k - 1 \in DOMAIN Tail(pipe) /\ Places(Tail(pipe), j) = {k - 1}
        BY <1>1, <2>2, <3>3, <4>1, PlacesTail
      <4>3. QED
        BY <1>1, <2>2, <4>2
    <3>4. QED
      BY <1>1, <2>1, <3>1, <3>2, <3>3 DEF SlotOK
  <2>5. QED
    BY <2>3, <2>4
<1>7. QED
  BY <1>3, <1>5, <1>6 DEF UploadsInv

LEMMA UploadsStep == UploadsInv /\ [Next]_vars => UploadsInv'
<1> SUFFICES ASSUME UploadsInv, [Next]_vars PROVE UploadsInv'
  OBVIOUS
<1>1. CASE Accept
  BY <1>1, AcceptPreserves
<1>2. CASE ReadPipe
  BY <1>2, ReadPipePreserves
<1>3. CASE \E i \in Slot : Uploader(i)
  BY <1>3, UploaderPreserves
<1>4. CASE UNCHANGED vars
  <2>1. UploadsTyped' /\ OwnConns'
    BY <1>4, Zenon DEF vars, UploadsInv, UploadsTyped, OwnConns
  <2>2. Awake' = Awake /\ \A i \in Slot : SlotOK(i)' <=> SlotOK(i)
    BY <1>4, Zenon DEF vars, SlotOK, Reports, Awake
  <2>3. QED
    BY <1>4, <2>1, <2>2 DEF vars, UploadsInv, Regular
<1>5. CASE Stall
  <2>1. UploadsTyped' /\ OwnConns'
    BY <1>5, Zenon DEF Stall, UploadsInv, UploadsTyped, OwnConns
  <2>2. Awake' = Awake /\ \A i \in Slot : SlotOK(i)' <=> SlotOK(i)
    BY <1>5, Zenon DEF Stall, SlotOK, Reports, Awake
  <2>3. QED
    BY <1>5, <2>1, <2>2 DEF Stall, UploadsInv, Regular
<1>6. QED
  BY <1>1, <1>2, <1>3, <1>4, <1>5 DEF Next

LEMMA UploadsInvariant == Spec => []UploadsInv
BY UploadsStart, UploadsStep, PTL DEF Spec

\* Every variable has its type (uploader.c, client.c).
THEOREM UploadsTypeCorrect == Spec => []UploadsTyped
<1>1. UploadsInv => UploadsTyped
  BY DEF UploadsInv
<1>2. QED
  BY UploadsInvariant, <1>1, PTL

\* As long as no thread failed while it served chunks or woke without a signal,
\* upload_count is the number of threads that are not asleep, and each of them is
\* served out by exactly one report (uploader_func, upload_term_handler).
THEOREM ExactCount == Spec => []CountExact
<1>1. UploadsInv => CountExact
  BY DEF UploadsInv, CountExact, SlotOK, Regular
<1>2. QED
  BY UploadsInvariant, <1>1, PTL

-----------------------------------------------------------------------------
(* The downloads: the operators on chunks *)

PartFile == [md5 : Md5, count : Nat, entries : Seq(Nat)]

LEMMA PartIsThere == ASSUME NEW p \in PartFile PROVE p # NoPart
<1>1. p = [md5 |-> p.md5, count |-> p.count, entries |-> p.entries]
  BY DEF PartFile
<1>2. DOMAIN p = {"md5", "count", "entries"}
  BY <1>1
<1>3. "md5" \in DOMAIN p
  BY <1>2
<1>4. DOMAIN NoPart = {}
  BY DEF NoPart
<1>5. QED
  BY <1>3, <1>4

\* a has the chunks that are not in mine, in order.
InOrder(a, N, mine) ==
    /\ \A k, l \in DOMAIN a : k < l => a[k] < a[l]
    /\ \A k \in DOMAIN a : a[k] \notin mine
    /\ \A c \in 1..N : c \notin mine => \E k \in DOMAIN a : a[k] = c

\* What comes before a chunk of q is in mine or earlier in q.
Skips(q, mine) ==
    \A i \in DOMAIN q : \A c \in 1..q[i] - 1 :
        c \in mine \/ \E k \in 1..i - 1 : q[k] = c

\* Data with a chunk written: the chunk is there, and what was there is kept.
LEMMA WriteAtProperties ==
    ASSUME NEW d \in Seq(Content), NEW c \in Nat \ {0}, NEW x \in Content
    PROVE  /\ WriteAt(d, c, x) \in Seq(Content)
           /\ Len(WriteAt(d, c, x)) = IF Len(d) > c THEN Len(d) ELSE c
           /\ WriteAt(d, c, x)[c] = x
           /\ \A i \in 1..Len(d) : i # c => WriteAt(d, c, x)[i] = d[i]
<1> DEFINE n == IF Len(d) > c THEN Len(d) ELSE c
           f == [i \in 1..n |-> IF i = c THEN x ELSE IF i <= Len(d) THEN d[i] ELSE Hole]
<1>1. n \in Nat /\ c \in 1..n /\ 1..Len(d) \subseteq 1..n
  OBVIOUS
<1>2. WriteAt(d, c, x) = f
  BY MaxOfTwo DEF WriteAt
<1> HIDE DEF n
<1>3. f \in Seq(Content) /\ Len(f) = n
  <2>1. \A i \in 1..n : f[i] \in Content
    BY DEF Content
  <2>2. QED
    BY <1>1, <2>1
<1>4. QED
  BY <1>1, <1>2, <1>3 DEF n

\* The chunks that a part lacks, in ascending order; if its entries are no
\* more than the chunks that were counted, each its own, their number is what
\* the count leaves.
LEMMA AbsentProperties ==
    ASSUME NEW p \in PartFile
    PROVE  LET N == Chunks[p.md5]
               a == Absent(p)
               mine == Range(SubSeq(p.entries, 1, p.count))
           IN  /\ a \in Seq(1..N)
               /\ InOrder(a, N, mine)
               /\ Len(a) = Cardinality((1..N) \ mine)
<1> DEFINE N == Chunks[p.md5]
           a == Absent(p)
           mine == Range(SubSeq(p.entries, 1, p.count))
           id == [i \in 1..N |-> i]
           I == {i \in DOMAIN id : id[i] \notin mine}
<1>1. N \in Nat
  BY DownloadsAssumption DEF DownloadsAssumption, PartFile
<1>2. a = Picked(id, I)
  BY DEF Absent, Minus
<1>3. I = (1..N) \ mine
  OBVIOUS
<1>4. id \in Seq(1..N) /\ I \in SUBSET DOMAIN id /\ DOMAIN id = 1..N
  BY <1>1
<1>5. /\ a \in Seq(1..N)
      /\ \E h \in [DOMAIN a -> I] : Traces(h, a, id, I)
  <2> HIDE DEF id, I, N
  <2>1. /\ Picked(id, I) \in Seq(1..N)
        /\ \E h \in [DOMAIN Picked(id, I) -> I] : Traces(h, Picked(id, I), id, I)
    BY ONLY <1>4, PickedProperties, Zenon
  <2> HIDE DEF a
  <2>2. QED
    BY <1>2, <2>1
<1>6. PICK h \in [DOMAIN a -> I] : Traces(h, a, id, I)
  BY <1>5
<1>7. \A k \in DOMAIN a : a[k] = h[k]
  BY <1>4, <1>6 DEF Traces
<1>8. Len(a) = Cardinality(I)
  <2>1. IsFiniteSet(I)
    <3>1. IsFiniteSet(1..N) /\ I \in SUBSET (1..N)
      BY <1>1, <1>3, FS_Interval
    <3> HIDE DEF I
    <3>2. QED
      BY <3>1, FS_Subset
  <2>2. Cardinality(I) \in Nat
    BY <2>1, FS_CardinalityType
  <2> HIDE DEF I
  <2>3. DOMAIN a = 1..Cardinality(I)
    BY <1>2 DEF Picked
  <2>4. QED
    BY <1>5, <2>2, <2>3
<1> HIDE DEF a, id, mine, N, I
<1>9. \A k, l \in DOMAIN a : k < l => a[k] < a[l]
  BY <1>6, <1>7 DEF Traces
<1>10. \A k \in DOMAIN a : a[k] \notin mine
  BY <1>3, <1>6, <1>7
<1>11. \A c \in 1..N : c \notin mine => \E k \in DOMAIN a : a[k] = c
  BY <1>3, <1>6, <1>7 DEF Traces
<1>12. QED
  BY <1>3, <1>5, <1>8, <1>9, <1>10, <1>11 DEF a, mine, N, InOrder

\* The first n of the chunks that are not in mine, when a has them in order.
LEMMA FirstMissing ==
    ASSUME NEW N \in Nat, NEW mine, NEW a \in Seq(1..N), NEW n \in 0..Len(a),
           NEW q, q = SubSeq(a, 1, n), InOrder(a, N, mine)
    PROVE  /\ q \in Seq(Nat) /\ Range(q) \subseteq 1..N /\ Len(q) = n
           /\ Skips(q, mine) /\ IsInjective(q)
           /\ n = Len(a) => Range(q) = (1..N) \ mine
<1>0. /\ \A k, l \in DOMAIN a : k < l => a[k] < a[l]
      /\ \A k \in DOMAIN a : a[k] \notin mine
      /\ \A c \in 1..N : c \notin mine => \E k \in DOMAIN a : a[k] = c
      /\ N \in Nat
  BY DEF InOrder
<1>1. /\ q \in Seq(1..N) /\ Len(q) = n /\ DOMAIN q = 1..n /\ n \in Nat
      /\ DOMAIN a = 1..Len(a) /\ Len(a) \in Nat
      /\ \A i \in 1..n : q[i] = a[i] /\ i \in DOMAIN a /\ a[i] \in 1..N
  OBVIOUS
<1>2. q \in Seq(Nat) /\ Range(q) \subseteq 1..N
  BY ONLY <1>1 DEF Range
<1>3. ASSUME NEW i \in DOMAIN q, NEW c \in 1..q[i] - 1, c \notin mine
      PROVE  \E k \in 1..i - 1 : q[k] = c
  <2>1. /\ i \in 1..n /\ q[i] = a[i] /\ a[i] \in 1..N /\ i \in DOMAIN a
        /\ c \in 1..N /\ c < a[i]
    BY ONLY <1>0, <1>1
  <2>2. PICK k \in DOMAIN a : a[k] = c
    BY ONLY <1>0, <1>1, <1>3, <2>1
  <2>3. k \in 1..Len(a) /\ ~(i < k) /\ i # k
    BY ONLY <1>0, <1>1, <2>1, <2>2
  <2>4. k \in 1..i - 1 /\ k \in 1..n
    <3>1. n \in Nat /\ Len(a) \in Nat
      BY ONLY <1>1
    <3>2. i \in 1..n
      BY ONLY <2>1
    <3>3. QED
      BY ONLY <2>3, <3>1, <3>2
  <2>5. q[k] = c
    BY ONLY <1>0, <1>1, <2>2, <2>4
  <2>6. QED
    BY ONLY <2>4, <2>5, Zenon
<1>4. IsInjective(q)
  <2>1. ASSUME NEW k \in 1..n, NEW l \in 1..n, k < l
        PROVE  q[k] # q[l]
    <3>1. k \in DOMAIN a /\ l \in DOMAIN a /\ q[k] = a[k] /\ q[l] = a[l]
      BY ONLY <1>1
    <3>2. a[k] < a[l]
      BY ONLY <1>0, <2>1, <3>1, Zenon
    <3>3. a[k] \in Nat /\ a[l] \in Nat
      BY ONLY <1>0, <1>1
    <3>4. QED
      BY ONLY <3>1, <3>2, <3>3
  <2>2. \A k, l \in 1..n : q[k] = q[l] => k = l
    BY ONLY <1>0, <1>1, <2>1
  <2>3. QED
    BY ONLY <1>0, <1>1, <2>2 DEF IsInjective
<1>5. ASSUME n = Len(a)
      PROVE  Range(q) = (1..N) \ mine
  <2>1. \A i \in 1..n : q[i] \in 1..N /\ q[i] \notin mine
    BY ONLY <1>0, <1>1
  <2>2. \A c \in 1..N : c \notin mine => \E k \in 1..n : q[k] = c
    BY ONLY <1>0, <1>1, <1>5
  <2>3. Range(q) = {q[i] : i \in 1..n}
    BY ONLY <1>1 DEF Range
  <2>4. QED
    BY ONLY <2>1, <2>2, <2>3, Zenon
<1>6. Skips(q, mine)
  BY ONLY <1>3 DEF Skips
<1>7. QED
  BY ONLY <1>1, <1>2, <1>4, <1>5, <1>6

\* What download sets out to fetch: chunks of the file, no more than the count
\* leaves, none before one that is neither down as there nor fetched earlier;
\* all that are not there if the entries are as many as were counted.
LEMMA MissingProperties ==
    ASSUME NEW p \in PartFile,
           p.count <= Chunks[p.md5], p.count <= Len(p.entries),
           Range(p.entries) \subseteq 1..Chunks[p.md5]
    PROVE  LET N == Chunks[p.md5]
               q == Missing(p)
           IN  /\ q \in Seq(Nat) /\ Range(q) \subseteq 1..N
               /\ p.count + Len(q) <= N
               /\ Skips(q, Range(p.entries))
               /\ IsInjective(p.entries) /\ p.count = Len(p.entries) =>
                     Range(q) = (1..N) \ Range(p.entries) /\ IsInjective(q)
<1> DEFINE N == Chunks[p.md5]
           a == Absent(p)
           mine == Range(SubSeq(p.entries, 1, p.count))
           room == N - p.count
           most == Min({room, Len(a)})
           q == Missing(p)
<1>1. /\ N \in Nat /\ p.count \in Nat /\ p.entries \in Seq(Nat) /\ room \in Nat
      /\ p.count \in 0..Len(p.entries) /\ Range(p.entries) \subseteq 1..N
  BY DownloadsAssumption DEF DownloadsAssumption, PartFile
<1>2. /\ a \in Seq(1..N)
      /\ InOrder(a, N, mine)
      /\ Len(a) = Cardinality((1..N) \ mine)
  BY AbsentProperties
<1>3. mine \subseteq Range(p.entries) /\ (p.count = Len(p.entries) => mine = Range(p.entries))
  BY <1>1, RangeOfPrefix
<1>4. q = SubSeq(a, 1, most)
  BY DEF Missing
<1>5. most = IF room < Len(a) THEN room ELSE Len(a)
  <2>1. Len(a) \in Nat
    BY <1>2
  <2> HIDE DEF a, room
  <2>2. QED
    BY <1>1, <2>1, MinOfTwo
<1> HIDE DEF most, a, mine, q, N
<1>6. most \in 0..Len(a) /\ p.count + most <= N
  BY <1>1, <1>2, <1>5
<1>7. /\ q \in Seq(Nat) /\ Range(q) \subseteq 1..N /\ Len(q) = most
      /\ Skips(q, mine) /\ IsInjective(q)
      /\ most = Len(a) => Range(q) = (1..N) \ mine
  <2>1. N \in Nat /\ a \in Seq(1..N) /\ most \in 0..Len(a)
    BY <1>1, <1>2, <1>6
  <2>2. InOrder(a, N, mine)
    BY <1>2
  <2>3. \A x : x = SubSeq(a, 1, most) =>
           /\ x \in Seq(Nat) /\ Range(x) \subseteq 1..N /\ Len(x) = most
           /\ Skips(x, mine) /\ IsInjective(x)
           /\ most = Len(a) => Range(x) = (1..N) \ mine
    BY ONLY <2>1, <2>2, FirstMissing, ZenonT(40)
  <2>4. QED
    BY ONLY <1>4, <2>3, Zenon
<1>8. ASSUME IsInjective(p.entries), p.count = Len(p.entries)
      PROVE  Range(q) = (1..N) \ Range(p.entries)
  <2> DEFINE T == Range(p.entries)
             U == 1..N
  <2>1. IsFiniteSet(T) /\ Cardinality(T) = p.count /\ T \in SUBSET U
    BY <1>1, <1>8, RangeOfInjective
  <2>2. IsFiniteSet(U) /\ Cardinality(U) = N
    <3>1. N \in Nat
      BY <1>1
    <3>2. QED
      BY ONLY <3>1, FS_Interval
  <2> HIDE DEF T, U
  <2>3. U \cap T = T
    BY <2>1
  <2>4. Cardinality(U \ T) = N - p.count
    <3>1. Cardinality(U \ T) = Cardinality(U) - Cardinality(U \cap T)
      BY ONLY <2>2, FS_Difference, Zenon
    <3>2. QED
      BY <2>1, <2>2, <2>3, <3>1
  <2>5. mine = T
    BY <1>3, <1>8 DEF T
  <2>6. most = Len(a)
    BY <1>1, <1>2, <1>5, <2>4, <2>5 DEF U
  <2>7. QED
    BY <1>7, <2>5, <2>6 DEF T
<1>9. Skips(q, Range(p.entries))
  BY <1>3, <1>7 DEF Skips
<1>10. QED
  BY <1>6, <1>7, <1>8, <1>9 DEF q, N
-----------------------------------------------------------------------------
(* The invariant *)

Job == [md5 : Md5, name : Name \cup {""}, missing : Seq(Nat), got : Nat, linked : BOOLEAN]
Stage == {"idle", "spin", "connect", "name", "open", "create"}
             \cup {"fetch", "count", "entry", "relist"}
Lines == {Line(m) : m \in Md5} \cup {TornLine(m) : m \in Md5}

DownloadsTyped ==
    /\ download_list \in Seq(Md5) /\ Len(download_list) <= gets
    /\ spinning \in BOOLEAN
    /\ at \in [Thread -> Stage]
    /\ job \in [Thread -> Job]
    /\ downloads \in Seq(Lines)
    /\ part \in [Name -> {NoPart} \cup PartFile]
    /\ out \in [Name -> Seq(Content)]
    /\ gets \in 0..MaxGets /\ crashes \in 0..MaxCrashes
    /\ wrote \in [Name -> SUBSET Md5] /\ \A n \in Name : IsFiniteSet(wrote[n])
    /\ overlapped \subseteq Name

\* Chunk c of file m is in the data of name n.
Good(n, c, m) == c \in DOMAIN out[n] /\ out[n][c] = m

\* The job of a thread that works at a file: the file was counted among those
\* of its name, the part it has linked is there, the chunks it is to fetch are
\* no more than the count leaves, and one that is fetched is there.
JobFits(t) ==
    LET j == job[t]
    IN  /\ at[t] \in {"open", "create", "fetch", "count", "entry", "relist"} =>
              j.name = FileName[j.md5]
        /\ Writing(t) => j.md5 \in wrote[j.name]
        /\ j.linked => Writing(t) /\ j.name \in Name /\ part[j.name] # NoPart
        /\ at[t] \in {"count", "entry"} => j.missing # <<>>
        /\ j.got + Len(j.missing) <= Chunks[j.md5] + IF at[t] = "entry" THEN 1 ELSE 0
        /\ Range(j.missing) \subseteq 1..Chunks[j.md5]
        /\ at[t] \in {"count", "entry"} /\ ~Mixed(j.name) => Good(j.name, j.missing[1], j.md5)

\* A part is of a file of its name that was written, counts no more chunks
\* than the file has, and what it has down is there.
PartFits(n) ==
    part[n] # NoPart =>
        LET p == part[n]
        IN  /\ p.md5 \in wrote[n] /\ FileName[p.md5] = n
            /\ p.count <= Chunks[p.md5]
            /\ Range(p.entries) \subseteq 1..Chunks[p.md5]
            /\ ~Mixed(n) => \A c \in Range(p.entries) : Good(n, c, p.md5)

\* What comes before a chunk that a thread is to fetch is there or is fetched
\* first.
Ahead(t) ==
    LET j == job[t]
    IN  \A i \in DOMAIN j.missing : \A c \in 1..j.missing[i] - 1 :
            Good(j.name, c, j.md5) \/ \E k \in 1..i - 1 : j.missing[k] = c

\* Data into which only file m was written has no gap: but for the last, which
\* may be torn, the chunks are those of m.
Straight(n, m) ==
    /\ Len(out[n]) <= Chunks[m]
    /\ \A c \in DOMAIN out[n] :
          out[n][c] = m \/ (c = Len(out[n]) /\ c < Chunks[m])

Single(n) ==
    \A m \in Md5 : FileName[m] = n /\ wrote[n] \subseteq {m} =>
        /\ Straight(n, m)
        /\ \A t \in Thread : Writing(t) /\ job[t].name = n => Ahead(t)

\* A part that no two threads wrote at a time has each chunk down once, and
\* counts one more at most.
PartExact(n) ==
    part[n] # NoPart =>
        /\ IsInjective(part[n].entries)
        /\ part[n].count \in {Len(part[n].entries), Len(part[n].entries) + 1}

\* The thread that writes such a part, and then no other does, has its count,
\* and is to fetch what the part lacks.
JobExact(t, n) ==
    /\ at[t] = "create" => part[n] = NoPart
    /\ Writing(t) =>
          /\ job[t].linked /\ part[n].md5 = job[t].md5
          /\ \A u \in Thread \ {t} :
                job[u].name = n => ~Writing(u) /\ at[u] # "create"
          /\ part[n].count = job[t].got
          /\ job[t].got = Len(part[n].entries) + IF at[t] = "entry" THEN 1 ELSE 0
          /\ Range(job[t].missing) = (1..Chunks[job[t].md5]) \ Range(part[n].entries)
          /\ IsInjective(job[t].missing)

Alone(n) ==
    n \notin overlapped =>
        /\ PartExact(n)
        /\ \A t \in Thread : job[t].name = n => JobExact(t, n)

\* The inductive invariant.
DownloadsInv ==
    /\ DownloadsTyped
    /\ \A t \in Thread : JobFits(t)
    /\ \A n \in Name : PartFits(n) /\ Single(n) /\ Alone(n)

\* What NoJob has.
LEMMA NoJobTyped ==
    /\ NoJob.md5 \in Md5 /\ NoJob \in Job
    /\ NoJob.name = "" /\ NoJob.missing = <<>> /\ NoJob.got = 0 /\ ~NoJob.linked
BY DownloadsAssumption DEF NoJob, Job, DownloadsAssumption

\* A job with another file, or another name.
LEMMA FieldsKept ==
    ASSUME NEW j \in Job
    PROVE  /\ \A m \in Md5 :
                 LET k == [j EXCEPT !.md5 = m]
                 IN  /\ k \in Job /\ k.md5 = m /\ k.name = j.name
                     /\ k.missing = j.missing /\ k.got = j.got /\ k.linked = j.linked
           /\ \A n \in Name :
                 LET k == [j EXCEPT !.name = n]
                 IN  /\ k \in Job /\ k.md5 = j.md5 /\ k.name = n
                     /\ k.missing = j.missing /\ k.got = j.got /\ k.linked = j.linked
BY DEF Job

\* A job that has got further.
LEMMA JobAdvances ==
    ASSUME NEW j \in Job
    PROVE  /\ LET k == [j EXCEPT !.linked = FALSE]
              IN  /\ k \in Job /\ k.md5 = j.md5 /\ k.name = j.name
                  /\ k.missing = j.missing /\ k.got = j.got /\ ~k.linked
           /\ \A g \in Nat :
                 LET k == [j EXCEPT !.got = g]
                 IN  /\ k \in Job /\ k.md5 = j.md5 /\ k.name = j.name
                     /\ k.missing = j.missing /\ k.got = g /\ k.linked = j.linked
           /\ \A q \in Seq(Nat) :
                 LET k == [j EXCEPT !.missing = q]
                 IN  /\ k \in Job /\ k.md5 = j.md5 /\ k.name = j.name
                     /\ k.missing = q /\ k.got = j.got /\ k.linked = j.linked
BY DEF Job

\* A thread that has opened no part, and knows the name if it is to open one,
\* fits.
LEMMA EmptyJobFits ==
    ASSUME NEW t \in Thread, job'[t].md5 \in Md5, at'[t] \in Stage,
           job'[t].missing = <<>>, job'[t].got = 0, ~job'[t].linked, ~Writing(t)',
           at'[t] \in {"open", "create", "relist"} =>
               job'[t].name = FileName[job'[t].md5]
    PROVE  JobFits(t)'
<1>1. Chunks[job'[t].md5] \in Nat
  BY DownloadsAssumption DEF DownloadsAssumption
<1>2. Len(job'[t].missing) = 0 /\ Range(job'[t].missing) = {}
  BY DEF Range
<1>3. QED
  BY <1>1, <1>2 DEF JobFits, Writing, Stage

\* What is known of a thread at work on a file.
LEMMA AtWork ==
    ASSUME DownloadsInv, NEW t \in Thread,
           at[t] \in {"open", "create", "fetch", "count", "entry", "relist"}
    PROVE  /\ job[t].md5 \in Md5 /\ job[t].name \in Name
           /\ FileName[job[t].md5] = job[t].name
           /\ Chunks[job[t].md5] \in Nat \ {0}
           /\ job[t] \in Job /\ job[t].missing \in Seq(Nat) /\ job[t].got \in Nat
           /\ Writing(t) => job[t].md5 \in wrote[job[t].name]
<1>1. job[t] \in Job
  BY DEF DownloadsInv, DownloadsTyped
<1>2. job[t].md5 \in Md5 /\ job[t].missing \in Seq(Nat) /\ job[t].got \in Nat
  BY <1>1 DEF Job
<1>3. FileName[job[t].md5] = job[t].name /\ (Writing(t) => job[t].md5 \in wrote[job[t].name])
  BY DEF DownloadsInv, JobFits
<1>4. job[t].name \in Name /\ Chunks[job[t].md5] \in Nat \ {0}
  BY <1>2, <1>3, DownloadsAssumption DEF Name, Range, DownloadsAssumption
<1>5. QED
  BY <1>1, <1>2, <1>3, <1>4

\* A name into which one file was written is not mixed.
LEMMA OneIsNotMixed ==
    ASSUME NEW n \in Name, NEW m, wrote'[n] \subseteq {m}
    PROVE  ~Mixed(n)'
<1>1. IsFiniteSet({m}) /\ Cardinality({m}) = 1
  BY FS_Singleton
<1>2. wrote'[n] \in SUBSET {m}
  OBVIOUS
<1>3. Cardinality(wrote'[n]) \in Nat /\ Cardinality(wrote'[n]) <= 1
  BY <1>1, <1>2, FS_Subset, FS_CardinalityType
<1>4. QED
  BY <1>3 DEF Mixed

\* As files are written to a name, it becomes mixed for good.
LEMMA MixedStays ==
    ASSUME NEW n \in Name, IsFiniteSet(wrote'[n]), wrote[n] \subseteq wrote'[n],
           overlapped \subseteq overlapped', ~Mixed(n)'
    PROVE  ~Mixed(n)
<1>1. IsFiniteSet(wrote[n]) /\ Cardinality(wrote[n]) <= Cardinality(wrote'[n])
      /\ Cardinality(wrote[n]) \in Nat /\ Cardinality(wrote'[n]) \in Nat
  BY FS_Subset, FS_CardinalityType
<1>2. QED
  BY <1>1 DEF Mixed

\* A name that is not mixed although threads overlapped has had one file.
LEMMA OneWritten ==
    ASSUME NEW n \in Name, IsFiniteSet(wrote[n]), n \in overlapped,
           NEW m \in wrote[n]
    PROVE  ~Mixed(n) <=> wrote[n] \subseteq {m}
BY OneOfMany DEF Mixed

\* Who writes a name that is not mixed writes the file of its part, and that
\* of every other writer.
LEMMA OneFile ==
    ASSUME DownloadsInv, NEW t \in Thread, Writing(t), ~Mixed(job[t].name)
    PROVE  /\ part[job[t].name] # NoPart => part[job[t].name].md5 = job[t].md5
           /\ \A u \in Thread :
                 Writing(u) /\ job[u].name = job[t].name => job[u].md5 = job[t].md5
<1> DEFINE n == job[t].name
           m == job[t].md5
<1>1. /\ n \in Name /\ m \in Md5 /\ m \in wrote[n] /\ IsFiniteSet(wrote[n])
      /\ FileName[m] = n
  <2>1. m \in Md5 /\ n = FileName[m] /\ m \in wrote[n]
    BY DEF DownloadsInv, DownloadsTyped, Job, JobFits, Writing
  <2>2. n \in Name
    BY <2>1, DownloadsAssumption DEF Name, Range, DownloadsInv, DownloadsAssumption
  <2>3. QED
    BY <2>1, <2>2 DEF DownloadsInv, DownloadsTyped
<1>2. part[n] # NoPart => part[n].md5 \in wrote[n]
  BY <1>1 DEF DownloadsInv, PartFits
<1>3. \A u \in Thread : Writing(u) => job[u].md5 \in wrote[job[u].name]
  BY DEF DownloadsInv, JobFits
<1>4. CASE n \in overlapped
  <2>1. wrote[n] \subseteq {m}
    BY <1>1, <1>4, OneWritten
  <2>2. QED
    BY <1>2, <1>3, <2>1
<1>5. CASE n \notin overlapped
  <2>1. JobExact(t, n)
    BY <1>1, <1>5 DEF DownloadsInv, Alone
  <2>2. QED
    BY <2>1 DEF JobExact
<1>6. QED
  BY <1>4, <1>5

-----------------------------------------------------------------------------
(* Steps that write no file *)

\* A thread that keeps its job fits as before, if what was good is.
LEMMA JobKept ==
    ASSUME NEW u \in Thread, JobFits(u), job'[u] = job[u], at'[u] = at[u],
           job[u].missing \in Seq(Nat),
           Writing(u) =>
               /\ job[u].md5 \in wrote[job[u].name] => job[u].md5 \in wrote'[job[u].name]
               /\ job[u].linked => part'[job[u].name] # NoPart
               /\ ~Mixed(job[u].name)' =>
                     /\ ~Mixed(job[u].name)
                     /\ \A c \in Nat : Good(job[u].name, c, job[u].md5) =>
                                           Good(job[u].name, c, job[u].md5)'
    PROVE  JobFits(u)'
<1>1. job[u].missing # <<>> => job[u].missing[1] \in Nat
  OBVIOUS
<1>2. ASSUME at'[u] \in {"count", "entry"}, ~Mixed(job[u].name)'
      PROVE  Good(job[u].name, job[u].missing[1], job[u].md5)'
  <2>1. /\ job[u].missing # <<>> /\ ~Mixed(job[u].name) /\ Writing(u)
        /\ Good(job[u].name, job[u].missing[1], job[u].md5)
    BY <1>2 DEF JobFits, Writing
  <2>2. QED
    BY <1>1, <1>2, <2>1
<1>3. /\ at'[u] \in {"open", "create", "fetch", "count", "entry", "relist"} =>
            job'[u].name = FileName[job'[u].md5]
      /\ Writing(u)' => job'[u].md5 \in wrote'[job'[u].name]
      /\ job'[u].linked =>
            Writing(u)' /\ job'[u].name \in Name /\ part'[job'[u].name] # NoPart
      /\ at'[u] \in {"count", "entry"} => job'[u].missing # <<>>
      /\ job'[u].got + Len(job'[u].missing)
            <= Chunks[job'[u].md5] + IF at'[u] = "entry" THEN 1 ELSE 0
      /\ Range(job'[u].missing) \subseteq 1..Chunks[job'[u].md5]
  BY DEF JobFits, Writing
<1>4. QED
  BY <1>2, <1>3 DEF JobFits

\* A job stays exact if its thread and its part are as before, and so is every
\* thread that now has the name.
LEMMA JobExactKept ==
    ASSUME NEW k, NEW u \in Thread, JobExact(u, k),
           job'[u] = job[u], at'[u] = at[u], part'[k] = part[k],
           \A v \in Thread : job'[v].name = k => job[v].name = k /\ at'[v] = at[v]
    PROVE  JobExact(u, k)'
<1>1. Writing(u)' <=> Writing(u)
  BY DEF Writing
<1>2. ASSUME Writing(u), NEW v \in Thread \ {u}, job'[v].name = k
      PROVE  ~Writing(v)' /\ at'[v] # "create"
  <2>1. job[v].name = k /\ at'[v] = at[v]
    BY <1>2
  <2>2. ~Writing(v) /\ at[v] # "create"
    BY <1>2, <2>1 DEF JobExact
  <2>3. QED
    BY <2>1, <2>2 DEF Writing
<1>3. QED
  BY <1>1, <1>2 DEF JobExact

\* Nothing but the lists changes.
LEMMA ListStep ==
    ASSUME DownloadsInv, DownloadsTyped', UNCHANGED <<at, job, part, out, history>>
    PROVE  DownloadsInv'
<1>1. UNCHANGED <<wrote, overlapped>>
  BY DEF history
<1>2. (\A t \in Thread : JobFits(t))'
  BY <1>1 DEF DownloadsInv, JobFits, Writing, Mixed, Good
<1>3. (\A n \in Name : PartFits(n))'
  BY <1>1 DEF DownloadsInv, PartFits, Mixed, Good
<1>4. (\A n \in Name : Single(n))'
  BY <1>1 DEF DownloadsInv, Single, Straight, Ahead, Writing, Good
<1>5. ASSUME NEW n \in Name
      PROVE  Alone(n)'
  <2>1. PartExact(n)' <=> PartExact(n)
    BY DEF PartExact
  <2>2. \A t \in Thread : JobExact(t, n)' <=> JobExact(t, n)
    BY DEF JobExact, Writing
  <2>3. Alone(n)
    BY DEF DownloadsInv
  <2>4. QED
    BY <1>1, <2>1, <2>2, <2>3 DEF Alone
<1>6. QED
  BY <1>2, <1>3, <1>4, <1>5 DEF DownloadsInv

\* One thread that does not write, and will not, gets another job; it comes to
\* create a part only where there is none.
LEMMA QuietStep ==
    ASSUME DownloadsInv, DownloadsTyped', NEW t \in Thread,
           UNCHANGED <<part, out, history>>,
           \A u \in Thread \ {t} : job'[u] = job[u] /\ at'[u] = at[u],
           JobFits(t)', ~Writing(t)',
           at'[t] = "create" => part[job'[t].name] = NoPart
    PROVE  DownloadsInv'
<1>1. UNCHANGED <<wrote, overlapped>>
  BY DEF history
<1>2. ASSUME NEW u \in Thread
      PROVE  JobFits(u)'
  <2>1. CASE u = t
    BY <2>1
  <2>2. CASE u # t
    <3>1. JobFits(u) /\ UNCHANGED <<part, out>> /\ job'[u] = job[u] /\ at'[u] = at[u]
      BY <2>2 DEF DownloadsInv
    <3>2. QED
      BY ONLY <1>1, <3>1 DEF JobFits, Writing, Mixed, Good
  <2>3. QED
    BY <2>1, <2>2
<1>3. (\A n \in Name : PartFits(n))'
  BY <1>1 DEF DownloadsInv, PartFits, Mixed, Good
<1>4. ASSUME NEW n \in Name
      PROVE  Single(n)'
  <2>1. \A u \in Thread : Writing(u)' /\ job'[u].name = n =>
           Writing(u) /\ job'[u] = job[u]
    BY DEF Writing
  <2>2. Single(n)
    BY DEF DownloadsInv
  <2>3. QED
    BY <1>1, <2>1, <2>2 DEF Single, Straight, Ahead, Good
<1>5. ASSUME NEW n \in Name
      PROVE  Alone(n)'
  <2>1. Alone(n) /\ \A u \in Thread : JobFits(u)
    BY DEF DownloadsInv
  <2>2. PartExact(n) => PartExact(n)'
    BY DEF PartExact
  <2>3. ASSUME n \notin overlapped', NEW u \in Thread, job'[u].name = n
        PROVE  JobExact(u, n)'
    <3>1. CASE u = t
      BY <3>1, <2>3 DEF JobExact
    <3>2. CASE u # t
      <4>1. job'[u] = job[u] /\ at'[u] = at[u] /\ JobExact(u, n)
        BY <1>1, <2>1, <2>3, <3>2 DEF Alone
      <4>2. Writing(u) => part[n] # NoPart
        BY <2>1, <2>3, <4>1 DEF JobFits, JobExact
      <4>3. ASSUME Writing(u), NEW v \in Thread \ {u}, job'[v].name = n
            PROVE  ~Writing(v)' /\ at'[v] # "create"
        <5>1. CASE v = t
          BY <4>2, <4>3, <5>1
        <5>2. CASE v # t
          <6>1. job'[v] = job[v] /\ at'[v] = at[v]
            BY <5>2
          <6>2. QED
            BY <4>1, <4>3, <6>1 DEF JobExact, Writing
        <5>3. QED
          BY <5>1, <5>2
      <4>4. QED
        BY <4>1, <4>3 DEF JobExact, Writing
    <3>3. QED
      BY <3>1, <3>2
  <2>4. QED
    BY <1>1, <2>1, <2>2, <2>3 DEF Alone
<1>6. QED
  BY <1>2, <1>3, <1>4, <1>5 DEF DownloadsInv

\* add_download.
LEMMA GetKeeps ==
    ASSUME DownloadsInv, NEW m \in Md5, Get(m)
    PROVE  DownloadsInv'
<1>1. DownloadsTyped'
  BY DownloadsAssumption
     DEF DownloadsInv, DownloadsTyped, Get, history, disk, DownloadsAssumption
<1>2. QED
  BY <1>1, ListStep DEF Get, disk

\* A thread ends what it does.
LEMMA FinishKeeps ==
    ASSUME DownloadsInv, NEW t \in Thread, Finish(t), UnchangedList,
           UNCHANGED <<part, out, history>>, downloads' \in Seq(Lines)
    PROVE  DownloadsInv'
<1>1. /\ at' = [at EXCEPT ![t] = "idle"] /\ job' = [job EXCEPT ![t] = NoJob]
      /\ at \in [Thread -> Stage] /\ job \in [Thread -> Job]
  BY DEF Finish, GoTo, DownloadsInv, DownloadsTyped
<1>2. /\ at'[t] = "idle" /\ job'[t] = NoJob
      /\ \A u \in Thread \ {t} : job'[u] = job[u] /\ at'[u] = at[u]
      /\ at' \in [Thread -> Stage] /\ job' \in [Thread -> Job]
  BY <1>1, NoJobTyped DEF Stage
<1>3. DownloadsTyped'
  BY <1>2 DEF DownloadsInv, DownloadsTyped, UnchangedList, history
<1>4. JobFits(t)' /\ ~Writing(t)'
  <2>1. ~Writing(t)'
    BY <1>2 DEF Writing
  <2>2. JobFits(t)'
    BY <1>2, <2>1, NoJobTyped, EmptyJobFits DEF Stage
  <2>3. QED
    BY <2>1, <2>2
<1>5. QED
  BY <1>2, <1>3, <1>4, QuietStep

\* get_download.
LEMMA GetDownloadKeeps ==
    ASSUME DownloadsInv, NEW t \in Thread, GetDownload(t)
    PROVE  DownloadsInv'
<1> DEFINE j == [NoJob EXCEPT !.md5 = download_list[1]]
<1>1. /\ at' = [at EXCEPT ![t] = "connect"] /\ job' = [job EXCEPT ![t] = j]
      /\ at \in [Thread -> Stage] /\ job \in [Thread -> Job]
      /\ download_list' = <<>> /\ download_list \in Seq(Md5) /\ Len(download_list) = 1
      /\ UNCHANGED <<spinning, disk, gets, crashes, history>>
  BY DEF GetDownload, DownloadsInv, DownloadsTyped
<1>2. /\ j \in Job /\ j.md5 \in Md5 /\ j.name = ""
      /\ j.missing = <<>> /\ j.got = 0 /\ ~j.linked
  <2>1. download_list[1] \in Md5
    <3>1. download_list \in Seq(Md5) /\ Len(download_list) = 1
      BY <1>1
    <3>2. QED
      BY ONLY <3>1
  <2>2. \A m \in Md5 : LET k == [NoJob EXCEPT !.md5 = m]
                       IN  /\ k \in Job /\ k.md5 = m /\ k.name = ""
                           /\ k.missing = <<>> /\ k.got = 0 /\ ~k.linked
    BY NoJobTyped, FieldsKept
  <2>3. QED
    BY <2>1, <2>2
<1> HIDE DEF j
<1>3. /\ at'[t] = "connect" /\ job'[t] = j
      /\ \A u \in Thread \ {t} : job'[u] = job[u] /\ at'[u] = at[u]
      /\ at' \in [Thread -> Stage] /\ job' \in [Thread -> Job]
  BY <1>1, <1>2 DEF Stage
<1>4. DownloadsTyped'
  <2>1. download_list' \in Seq(Md5) /\ Len(download_list') = 0
    BY <1>1
  <2>2. gets \in 0..MaxGets
    BY DEF DownloadsInv, DownloadsTyped
  <2>3. QED
    BY <1>1, <1>3, <2>1, <2>2 DEF DownloadsInv, DownloadsTyped, disk, history
<1>5. ~Writing(t)'
  BY <1>3 DEF Writing
<1>6. JobFits(t)'
  BY <1>2, <1>3, <1>5, EmptyJobFits DEF Stage
<1>7. QED
  BY <1>1, <1>3, <1>4, <1>5, <1>6, QuietStep DEF disk

\* get_download of a longer list.
LEMMA SpinKeeps ==
    ASSUME DownloadsInv, NEW t \in Thread, SpinOnList(t)
    PROVE  DownloadsInv'
<1>1. /\ at' = [at EXCEPT ![t] = "spin"] /\ at[t] = "idle" /\ spinning' = TRUE
      /\ at \in [Thread -> Stage]
      /\ UNCHANGED <<download_list, job, disk, gets, crashes, history>>
  BY DEF SpinOnList, DownloadsInv, DownloadsTyped
<1>2. /\ at'[t] = "spin" /\ \A u \in Thread \ {t} : at'[u] = at[u]
      /\ at' \in [Thread -> Stage]
  BY <1>1 DEF Stage
<1>3. DownloadsTyped'
  BY <1>1, <1>2 DEF DownloadsInv, DownloadsTyped, disk, history
<1>4. JobFits(t)' /\ ~Writing(t)'
  BY <1>1, <1>2 DEF DownloadsInv, JobFits, Writing
<1>5. QED
  BY <1>1, <1>2, <1>3, <1>4, QuietStep DEF disk

\* fill_file_info of the peer.
LEMMA ConnectKeeps ==
    ASSUME DownloadsInv, NEW t \in Thread, Connect(t)
    PROVE  DownloadsInv'
<1>1. /\ at' = [at EXCEPT ![t] = "name"] /\ at[t] = "connect"
      /\ at \in [Thread -> Stage]
      /\ UNCHANGED <<job, disk, history>> /\ UnchangedList
  BY DEF Connect, GoTo, DownloadsInv, DownloadsTyped
<1>2. /\ at'[t] = "name" /\ \A u \in Thread \ {t} : at'[u] = at[u]
      /\ at' \in [Thread -> Stage]
  BY <1>1 DEF Stage
<1>3. DownloadsTyped'
  BY <1>1, <1>2 DEF DownloadsInv, DownloadsTyped, disk, history, UnchangedList
<1>4. JobFits(t)' /\ ~Writing(t)'
  BY <1>1, <1>2 DEF DownloadsInv, JobFits, Writing
<1>5. QED
  BY <1>1, <1>2, <1>3, <1>4, QuietStep DEF disk

LEMMA LineTyped == ASSUME NEW m \in Md5 PROVE Line(m) \in Lines
BY DEF Lines

\* get_filepart_name.
LEMMA GetFilepartNameKeeps ==
    ASSUME DownloadsInv, NEW t \in Thread, GetFilepartName(t)
    PROVE  DownloadsInv'
<1> DEFINE m == job[t].md5
<1>1. /\ at[t] = "name" /\ UNCHANGED <<part, out, history>> /\ UnchangedList
      /\ \/ Finish(t) /\ UNCHANGED downloads
         \/ /\ at' = [at EXCEPT ![t] = "open"]
            /\ job' = [job EXCEPT ![t].name = FileName[m]]
            /\ downloads' \in {Append(downloads, Line(m)), downloads}
  BY DEF GetFilepartName, GoTo
<1>2. /\ at \in [Thread -> Stage] /\ job \in [Thread -> Job] /\ downloads \in Seq(Lines)
      /\ m \in Md5
  BY DEF DownloadsInv, DownloadsTyped, Job
<1>3. CASE Finish(t) /\ UNCHANGED downloads
  BY <1>1, <1>2, <1>3, FinishKeeps
<1>4. CASE /\ at' = [at EXCEPT ![t] = "open"]
           /\ job' = [job EXCEPT ![t].name = FileName[m]]
           /\ downloads' \in {Append(downloads, Line(m)), downloads}
  <2>1. FileName[m] \in Name
    BY <1>2, DownloadsAssumption DEF DownloadsAssumption, Name, Range
  <2>2. /\ at'[t] = "open" /\ job'[t] = [job[t] EXCEPT !.name = FileName[m]]
        /\ \A u \in Thread \ {t} : job'[u] = job[u] /\ at'[u] = at[u]
        /\ at' \in [Thread -> Stage] /\ job' \in [Thread -> Job]
    BY <1>2, <1>4, <2>1 DEF Stage, Job
  <2>3. downloads' \in Seq(Lines)
    BY <1>2, <1>4, LineTyped
  <2>4. DownloadsTyped'
    BY <1>1, <2>2, <2>3 DEF DownloadsInv, DownloadsTyped, UnchangedList, history
  <2>5. /\ job'[t].md5 = m /\ job'[t].name = FileName[m] /\ job'[t].missing = job[t].missing
        /\ job'[t].got = job[t].got /\ job'[t].linked = job[t].linked
    BY <1>2, <2>1, <2>2, FieldsKept
  <2>6. ~Writing(t) /\ ~Writing(t)'
    BY <1>1, <2>2 DEF Writing
  <2>7. JobFits(t)
    BY DEF DownloadsInv
  <2>8. JobFits(t)'
    BY <1>1, <2>2, <2>5, <2>6, <2>7 DEF JobFits
  <2>9. QED
    BY <1>1, <2>2, <2>4, <2>6, <2>8, QuietStep
<1>5. QED
  BY <1>1, <1>3, <1>4

\* open_file_part finds no part.
LEMMA OpenAbsentKeeps ==
    ASSUME DownloadsInv, NEW t \in Thread, OpenFilePartAbsent(t)
    PROVE  DownloadsInv'
<1>1. /\ at' = [at EXCEPT ![t] = "create"] /\ at[t] = "open" /\ part[job[t].name] = NoPart
      /\ at \in [Thread -> Stage]
      /\ UNCHANGED <<job, disk, history>> /\ UnchangedList
  BY DEF OpenFilePartAbsent, GoTo, DownloadsInv, DownloadsTyped
<1>2. /\ at'[t] = "create" /\ \A u \in Thread \ {t} : at'[u] = at[u]
      /\ at' \in [Thread -> Stage]
  BY <1>1 DEF Stage
<1>3. DownloadsTyped'
  BY <1>1, <1>2 DEF DownloadsInv, DownloadsTyped, disk, history, UnchangedList
<1>4. JobFits(t)' /\ ~Writing(t)'
  BY <1>1, <1>2 DEF DownloadsInv, JobFits, Writing
<1>5. QED
  BY <1>1, <1>2, <1>3, <1>4, QuietStep DEF disk

\* remove_filepart takes the line of the file out.
LEMMA RemoveLineKeeps ==
    ASSUME DownloadsInv, NEW t \in Thread, RemoveLine(t)
    PROVE  DownloadsInv'
<1>1. downloads \in Seq(Lines)
  BY DEF DownloadsInv, DownloadsTyped
<1>2. \A S : Minus(downloads, S) \in Seq(Lines)
  BY <1>1, MinusProperties
<1>3. /\ downloads' \in Seq(Lines) /\ Finish(t)
      /\ UNCHANGED <<part, out, history>> /\ UnchangedList
  BY <1>1, <1>2 DEF RemoveLine
<1>4. QED
  BY <1>3, FinishKeeps

-----------------------------------------------------------------------------
(* The part is opened *)

\* A thread begins to write the part of its name, which then is r, having read
\* p: if it is the only one, p is r and exact.
LEMMA BeginKeeps ==
    ASSUME DownloadsInv, NEW t \in Thread, at[t] \in {"open", "create"},
           NEW n, n = job[t].name, NEW m, m = job[t].md5,
           NEW p \in PartFile, NEW r \in PartFile,
           Begin(t, p), UnchangedList, UNCHANGED <<downloads, out>>,
           part' = [part EXCEPT ![n] = r],
           p.md5 = m, r.md5 = m, r.count = p.count,
           p.count <= Chunks[m], p.count <= Len(p.entries),
           Range(p.entries) \subseteq 1..Chunks[m],
           Range(r.entries) \subseteq 1..Chunks[m],
           ~Mixed(n)' =>
               \A c \in Range(p.entries) \cup Range(r.entries) : Good(n, c, m),
           n \notin overlapped' =>
               r = p /\ IsInjective(p.entries) /\ p.count = Len(p.entries)
    PROVE  DownloadsInv'
<1> DEFINE q == Missing(p)
<1>1. /\ m \in Md5 /\ n \in Name /\ FileName[m] = n /\ Chunks[m] \in Nat \ {0}
      /\ job[t] \in Job
  BY AtWork
<1>2. /\ q \in Seq(Nat) /\ Range(q) \subseteq 1..Chunks[m]
      /\ p.count + Len(q) <= Chunks[m]
      /\ Skips(q, Range(p.entries))
      /\ IsInjective(p.entries) /\ p.count = Len(p.entries) =>
            Range(q) = (1..Chunks[m]) \ Range(p.entries) /\ IsInjective(q)
  BY MissingProperties
<1>3. p.count \in Nat
  BY DEF PartFile
<1>4. /\ at \in [Thread -> Stage] /\ job \in [Thread -> Job]
      /\ part \in [Name -> {NoPart} \cup PartFile]
      /\ wrote \in [Name -> SUBSET Md5] /\ \A k \in Name : IsFiniteSet(wrote[k])
      /\ overlapped \subseteq Name
  BY DEF DownloadsInv, DownloadsTyped
<1>5. /\ job' = [job EXCEPT ![t].missing = q, ![t].got = p.count, ![t].linked = TRUE]
      /\ at' = [at EXCEPT ![t] = "fetch"]
      /\ wrote' = [wrote EXCEPT ![n] = @ \cup {m}]
      /\ overlapped' = IF \E u \in Thread \ {t} :
                              job[u].name = n /\ (Writing(u) \/ at[u] = "create")
                       THEN overlapped \cup {n} ELSE overlapped
  BY DEF Begin, GoTo
<1> HIDE DEF q
<1>6. /\ job' \in [Thread -> Job]
      /\ job'[t].md5 = m /\ job'[t].name = n /\ job'[t].missing = q
      /\ job'[t].got = p.count /\ job'[t].linked
      /\ \A u \in Thread \ {t} : job'[u] = job[u]
  BY <1>2, <1>3, <1>4, <1>5 DEF Job
<1>7. /\ at' \in [Thread -> Stage] /\ at'[t] = "fetch"
      /\ \A u \in Thread \ {t} : at'[u] = at[u]
  BY <1>4, <1>5 DEF Stage
<1>8. /\ wrote' \in [Name -> SUBSET Md5] /\ m \in wrote'[n]
      /\ \A k \in Name : wrote[k] \subseteq wrote'[k] /\ IsFiniteSet(wrote'[k])
      /\ \A k \in Name \ {n} : wrote'[k] = wrote[k]
  <2>1. IsFiniteSet(wrote[n] \cup {m})
    BY <1>1, <1>4, FS_AddElement
  <2>2. QED
    BY <1>1, <1>4, <1>5, <2>1
<1>9. /\ overlapped \subseteq overlapped' /\ overlapped' \subseteq overlapped \cup {n}
      /\ n \notin overlapped' => \A u \in Thread \ {t} :
            job[u].name = n => ~Writing(u) /\ at[u] # "create"
  BY <1>5
<1>10. /\ part' \in [Name -> {NoPart} \cup PartFile] /\ part'[n] = r /\ r # NoPart
       /\ \A k \in Name \ {n} : part'[k] = part[k]
  <2>1. r # NoPart
    BY PartIsThere
  <2>2. QED
    BY <1>1, <1>4, <2>1
<1>11. DownloadsTyped'
  BY <1>1, <1>6, <1>7, <1>8, <1>9, <1>10
     DEF DownloadsInv, DownloadsTyped, UnchangedList
<1>12. \A k \in Name : ~Mixed(k)' => ~Mixed(k)
  BY <1>8, <1>9, MixedStays
<1>13. \A k, c, x : Good(k, c, x)' <=> Good(k, c, x)
  BY DEF Good
<1>14. ASSUME NEW u \in Thread
       PROVE  JobFits(u)'
  <2>1. CASE u = t
    BY <1>1, <1>2, <1>3, <1>6, <1>7, <1>8, <1>10, <2>1 DEF JobFits, Writing
  <2>2. CASE u # t
    <3>1. job'[u] = job[u] /\ at'[u] = at[u] /\ JobFits(u) /\ job[u].missing \in Seq(Nat)
      BY <1>4, <1>6, <1>7, <2>2 DEF DownloadsInv, Job
    <3>2. ASSUME Writing(u)
          PROVE  job[u].name \in Name
      BY <3>2, AtWork DEF Writing
    <3>3. ASSUME Writing(u), job[u].linked
          PROVE  part'[job[u].name] # NoPart
      BY <1>10, <3>1, <3>2, <3>3 DEF JobFits
    <3>4. QED
      BY <1>8, <1>12, <1>13, <3>1, <3>2, <3>3, JobKept
  <2>3. QED
    BY <2>1, <2>2
<1>15. ASSUME NEW k \in Name
       PROVE  PartFits(k)'
  <2>1. CASE k = n
    BY <1>1, <1>8, <1>10, <1>13, <2>1 DEF PartFits
  <2>2. CASE k # n
    BY <1>8, <1>10, <1>12, <1>13, <2>2 DEF PartFits, DownloadsInv
  <2>3. QED
    BY <2>1, <2>2
<1>16. ASSUME NEW k \in Name
       PROVE  Single(k)'
  <2>1. ASSUME NEW x \in Md5, FileName[x] = k, wrote'[k] \subseteq {x}
        PROVE  /\ Straight(k, x)'
               /\ \A u \in Thread : Writing(u)' /\ job'[u].name = k => Ahead(u)'
    <3>1. /\ Straight(k, x)
          /\ \A u \in Thread : Writing(u) /\ job[u].name = k => Ahead(u)
      BY <1>8, <2>1 DEF DownloadsInv, Single
    <3>2. Straight(k, x)'
      BY <3>1 DEF Straight
    <3>3. ASSUME NEW u \in Thread \ {t}, Writing(u)', job'[u].name = k
          PROVE  Ahead(u)'
      BY <1>6, <1>7, <3>1, <3>3 DEF Ahead, Writing, Good
    <3>4. ASSUME k = n
          PROVE  Ahead(t)'
      <4>1. ~Mixed(n)'
        BY <1>1, <2>1, <3>4, OneIsNotMixed
      <4>2. \A c \in Range(p.entries) : Good(n, c, m)'
        BY <1>1, <1>13, <4>1
      <4>3. QED
        BY <1>2, <1>6, <4>2 DEF Ahead, Skips
    <3>5. QED
      BY <1>6, <3>2, <3>3, <3>4
  <2>2. QED
    BY <2>1 DEF Single
<1>17. ASSUME NEW k \in Name
       PROVE  Alone(k)'
  <2>1. SUFFICES ASSUME k \notin overlapped'
                 PROVE  PartExact(k)' /\ \A u \in Thread : job'[u].name = k => JobExact(u, k)'
    BY DEF Alone
  <2>2. PartExact(k) /\ \A u \in Thread : job[u].name = k => JobExact(u, k)
    BY <1>9, <2>1 DEF DownloadsInv, Alone
  <2>3. CASE k = n
    <3>1. r = p /\ IsInjective(p.entries) /\ p.count = Len(p.entries)
      BY <2>1, <2>3
    <3>2. PartExact(k)'
      BY <1>3, <1>10, <2>3, <3>1 DEF PartExact
    <3>3. \A u \in Thread \ {t} : job[u].name = n => ~Writing(u)' /\ at'[u] # "create"
      BY <1>7, <1>9, <2>1, <2>3 DEF Writing
    <3>4. JobExact(t, k)'
      BY <1>2, <1>3, <1>6, <1>7, <1>10, <2>3, <3>1, <3>3 DEF JobExact
    <3>5. \A u \in Thread \ {t} : job'[u].name = k => JobExact(u, k)'
      BY <1>6, <2>3, <3>3 DEF JobExact
    <3>6. QED
      BY <3>2, <3>4, <3>5
  <2>4. CASE k # n
    <3>1. PartExact(k)'
      BY <1>10, <2>2, <2>4 DEF PartExact
    <3>2. ASSUME NEW u \in Thread, job'[u].name = k
          PROVE  JobExact(u, k)'
      <4>1. u # t /\ job'[u] = job[u] /\ at'[u] = at[u] /\ part'[k] = part[k]
        BY <1>6, <1>7, <1>10, <2>4, <3>2
      <4>2. \A v \in Thread : job'[v].name = k => job[v].name = k /\ at'[v] = at[v]
        BY <1>6, <1>7, <2>4
      <4>3. JobExact(u, k)
        BY <2>2, <3>2, <4>1
      <4>4. QED
        BY ONLY u \in Thread, <4>1, <4>2, <4>3, JobExactKept
    <3>3. QED
      BY <3>1, <3>2
  <2>5. QED
    BY <2>3, <2>4
<1>18. QED
  BY <1>11, <1>14, <1>15, <1>16, <1>17 DEF DownloadsInv

\* open_file_part found no part: create_file_part.
LEMMA CreateKeeps ==
    ASSUME DownloadsInv, NEW t \in Thread, CreateFilePart(t)
    PROVE  DownloadsInv'
<1>1. PICK n : n = job[t].name
  OBVIOUS
<1>2. PICK m : m = job[t].md5
  OBVIOUS
<1> DEFINE p == NewPart(m)
<1>3. PICK r : r = IF part[n] = NoPart THEN p ELSE [p EXCEPT !.entries = part[n].entries]
  OBVIOUS
<1>4. /\ at[t] = "create" /\ part \in [Name -> {NoPart} \cup PartFile]
      /\ wrote \in [Name -> SUBSET Md5] /\ IsFiniteSet(wrote[n])
      /\ m \in Md5 /\ n \in Name /\ FileName[m] = n /\ Chunks[m] \in Nat
      /\ PartFits(n) /\ (n \notin overlapped => part[n] = NoPart)
  <2>1. at[t] = "create"
    BY DEF CreateFilePart
  <2>2. m \in Md5 /\ n \in Name /\ FileName[m] = n /\ Chunks[m] \in Nat
    BY <1>1, <1>2, <2>1, AtWork
  <2>3. n \notin overlapped => part[n] = NoPart
    BY <1>1, <2>1, <2>2 DEF DownloadsInv, Alone, JobExact
  <2>4. QED
    BY <2>1, <2>2, <2>3 DEF DownloadsInv, DownloadsTyped
<1>5. /\ p \in PartFile /\ p.md5 = m /\ p.count = 0 /\ p.entries = <<>>
      /\ Range(p.entries) = {} /\ Len(p.entries) = 0 /\ IsInjective(p.entries)
  <2>1. p \in PartFile /\ p.md5 = m /\ p.count = 0 /\ p.entries = <<>>
    BY <1>4 DEF NewPart, PartFile
  <2>2. Range(p.entries) = {} /\ Len(p.entries) = 0 /\ IsInjective(p.entries)
    BY <2>1 DEF Range, IsInjective
  <2>3. QED
    BY <2>1, <2>2
<1>6. /\ Begin(t, p) /\ UnchangedList /\ UNCHANGED <<downloads, out>>
      /\ part' = [part EXCEPT ![n] = r]
  BY <1>1, <1>2, <1>3, <1>4 DEF CreateFilePart
<1>7. n \notin overlapped' => n \notin overlapped
  BY <1>6 DEF Begin
<1>8. IsFiniteSet(wrote'[n]) /\ m \in wrote'[n] /\ wrote[n] \subseteq wrote'[n]
  <2>1. IsFiniteSet(wrote[n] \cup {m})
    BY <1>4, FS_AddElement
  <2>2. wrote'[n] = wrote[n] \cup {m}
    BY <1>1, <1>4, <1>5, <1>6 DEF Begin
  <2>3. QED
    BY <2>1, <2>2
<1> HIDE DEF p
<1>9. /\ r \in PartFile /\ r.md5 = m /\ r.count = 0
      /\ part[n] = NoPart => r = p
      /\ part[n] # NoPart => r.entries = part[n].entries
  BY <1>3, <1>4, <1>5 DEF PartFile
<1>10. Range(r.entries) \subseteq 1..Chunks[m]
  <2>1. CASE part[n] = NoPart
    BY <1>5, <1>9, <2>1
  <2>2. CASE part[n] # NoPart
    <3>1. part[n].md5 \in Md5 /\ FileName[part[n].md5] = n
      BY <1>4, <2>2 DEF PartFits, PartFile
    <3>2. Chunks[part[n].md5] = Chunks[m]
      BY <1>4, <3>1, DownloadsAssumption DEF DownloadsAssumption
    <3>3. QED
      BY <1>4, <1>9, <2>2, <3>2 DEF PartFits
  <2>3. QED
    BY <2>1, <2>2
<1>11. ASSUME ~Mixed(n)', NEW c \in Range(p.entries) \cup Range(r.entries)
       PROVE  Good(n, c, m)
  <2>1. part[n] # NoPart /\ c \in Range(part[n].entries)
    BY <1>5, <1>9, <1>11
  <2>2. n \in overlapped'
    BY <1>4, <1>7, <2>1
  <2>3. ~(Cardinality(wrote'[n]) > 1)
    BY <1>11, <2>2 DEF Mixed
  <2>4. wrote'[n] \subseteq {m}
    BY <1>8, <2>3, OneOfMany
  <2>5. part[n].md5 = m
    BY <1>4, <1>8, <2>1, <2>4 DEF PartFits
  <2>6. ~Mixed(n)
    BY <1>4, <1>6, <1>8, <1>11, MixedStays DEF Begin
  <2>7. QED
    BY <1>4, <2>1, <2>5, <2>6 DEF PartFits
<1>12. at[t] \in {"open", "create"}
  BY <1>4
<1>13. /\ p.count <= Chunks[m] /\ p.count <= Len(p.entries)
       /\ Range(p.entries) \subseteq 1..Chunks[m] /\ r.count = p.count
       /\ p.count = Len(p.entries)
  BY <1>4, <1>5, <1>9
<1>14. n \notin overlapped' => r = p /\ IsInjective(p.entries) /\ p.count = Len(p.entries)
  BY <1>4, <1>5, <1>7, <1>9
<1>15. QED
  BY ONLY DownloadsInv, t \in Thread, <1>1, <1>2, <1>5, <1>6, <1>9, <1>10, <1>11, <1>12,
          <1>13, <1>14, BeginKeeps, Zenon

\* open_file_part finds a part: load_file_part.
LEMMA LoadKeeps ==
    ASSUME DownloadsInv, NEW t \in Thread, LoadFilePart(t)
    PROVE  DownloadsInv'
<1>1. PICK n : n = job[t].name
  OBVIOUS
<1>2. PICK m : m = job[t].md5
  OBVIOUS
<1>3. PICK p : p = part[n]
  OBVIOUS
<1>4. /\ at[t] = "open" /\ p # NoPart /\ UNCHANGED disk /\ UnchangedList
      /\ \/ Finish(t) /\ UNCHANGED history
         \/ Begin(t, p) /\ p.md5 = m /\ ~(p.count > Len(p.entries))
  BY <1>1, <1>2, <1>3 DEF LoadFilePart
<1>5. /\ downloads \in Seq(Lines) /\ part \in [Name -> {NoPart} \cup PartFile]
      /\ wrote \in [Name -> SUBSET Md5] /\ IsFiniteSet(wrote[n])
      /\ m \in Md5 /\ n \in Name /\ PartFits(n) /\ p \in PartFile
      /\ n \notin overlapped => PartExact(n)
  <2>1. m \in Md5 /\ n \in Name
    BY <1>1, <1>2, <1>4, AtWork
  <2>2. QED
    BY <1>3, <1>4, <2>1 DEF DownloadsInv, DownloadsTyped, Alone
<1>6. CASE Finish(t) /\ UNCHANGED history
  BY <1>4, <1>5, <1>6, FinishKeeps DEF disk
<1>7. CASE Begin(t, p) /\ p.md5 = m /\ ~(p.count > Len(p.entries))
  <2>1. /\ p.count \in Nat /\ p.count <= Len(p.entries) /\ p.count <= Chunks[m]
        /\ Range(p.entries) \subseteq 1..Chunks[m]
    <3>1. p.count \in Nat /\ p.entries \in Seq(Nat)
      BY <1>5 DEF PartFile
    <3>2. p.count <= Len(p.entries)
      BY <1>7, <3>1
    <3>3. QED
      BY <1>3, <1>4, <1>5, <1>7, <3>1, <3>2 DEF PartFits
  <2>2. /\ IsFiniteSet(wrote'[n]) /\ wrote[n] \subseteq wrote'[n]
        /\ overlapped \subseteq overlapped'
    <3>1. IsFiniteSet(wrote[n] \cup {m})
      BY <1>5, FS_AddElement
    <3>2. wrote'[n] = wrote[n] \cup {m}
      BY <1>1, <1>5, <1>7 DEF Begin
    <3>3. QED
      BY <1>7, <3>1, <3>2 DEF Begin
  <2>3. ASSUME ~Mixed(n)', NEW c \in Range(p.entries) \cup Range(p.entries)
        PROVE  Good(n, c, m)
    <3>1. ~Mixed(n)
      BY <1>5, <2>2, <2>3, MixedStays
    <3>2. QED
      BY <1>3, <1>4, <1>5, <1>7, <2>3, <3>1 DEF PartFits
  <2>4. ASSUME n \notin overlapped'
        PROVE  IsInjective(p.entries) /\ p.count = Len(p.entries)
    <3>1. PartExact(n)
      BY <1>5, <2>2, <2>4
    <3>2. Len(p.entries) \in Nat
      BY <1>5 DEF PartFile
    <3>3. QED
      BY <1>3, <1>4, <2>1, <3>1, <3>2 DEF PartExact
  <2>5. part' = [part EXCEPT ![n] = p] /\ UNCHANGED <<downloads, out>>
    BY <1>3, <1>4, <1>5 DEF disk
  <2>6. QED
    BY <1>1, <1>2, <1>4, <1>5, <1>7, <2>1, <2>3, <2>4, <2>5, BeginKeeps
<1>8. QED
  BY <1>4, <1>6, <1>7

-----------------------------------------------------------------------------
(* The chunks *)

\* A thread writes to the file of its name, which then is d, and goes on or
\* ends: what was there of its file is kept, and one file leaves no gap.
Writes(t, n, m, d) ==
    /\ at[t] = "fetch" /\ n = job[t].name /\ m = job[t].md5
    /\ d \in Seq(Content) /\ out' = [out EXCEPT ![n] = d]
    /\ UNCHANGED <<downloads, part, history>> /\ UnchangedList
    /\ at' \in [Thread -> Stage] /\ job' \in [Thread -> Job]
    /\ \A u \in Thread \ {t} : job'[u] = job[u] /\ at'[u] = at[u]
    /\ \/ /\ job'[t] = job[t] /\ at'[t] = "count" /\ job[t].missing # <<>>
          /\ Good(n, job[t].missing[1], m)'
       \/ job'[t] = NoJob /\ at'[t] = "idle"
    /\ \A c \in DOMAIN out[n] : out[n][c] = m => c \in DOMAIN d /\ d[c] = m
    /\ wrote[n] \subseteq {m} => Straight(n, m)'

LEMMA DataStep ==
    ASSUME DownloadsInv, NEW t \in Thread, NEW n, NEW m, NEW d, Writes(t, n, m, d)
    PROVE  DownloadsInv'
<1> USE DEF Writes
<1>1. /\ m \in Md5 /\ n \in Name /\ FileName[m] = n /\ m \in wrote[n] /\ Writing(t)
      /\ out \in [Name -> Seq(Content)]
  BY AtWork DEF Writing, DownloadsInv, DownloadsTyped
<1>2. UNCHANGED <<wrote, overlapped, part>>
  BY DEF history
<1>3. \A k : Mixed(k)' <=> Mixed(k)
  BY <1>2 DEF Mixed
<1>4. /\ out'[n] = d
      /\ \A k \in Name \ {n} : out'[k] = out[k]
  BY <1>1
<1>5. /\ \A c : Good(n, c, m) => Good(n, c, m)'
      /\ \A k \in Name \ {n} : \A c, x : Good(k, c, x)' <=> Good(k, c, x)
  BY <1>4 DEF Good
<1>6. ~Mixed(n) => /\ part[n] # NoPart => part[n].md5 = m
                   /\ \A u \in Thread : Writing(u) /\ job[u].name = n => job[u].md5 = m
  BY <1>1, OneFile
<1>7. DownloadsTyped'
  BY <1>1, <1>2 DEF DownloadsInv, DownloadsTyped, UnchangedList
<1>8. ASSUME NEW u \in Thread
      PROVE  JobFits(u)'
  <2>1. CASE u # t
    <3>1. job'[u] = job[u] /\ at'[u] = at[u] /\ JobFits(u) /\ job[u].missing \in Seq(Nat)
      BY <2>1 DEF DownloadsInv, DownloadsTyped, Job
    <3>2. ASSUME Writing(u)
          PROVE  job[u].name \in Name
      BY <3>2, AtWork DEF Writing
    <3>3. ASSUME Writing(u), ~Mixed(job[u].name)'
          PROVE  /\ ~Mixed(job[u].name)
                 /\ \A c \in Nat : Good(job[u].name, c, job[u].md5) =>
                                       Good(job[u].name, c, job[u].md5)'
      BY <1>3, <1>5, <1>6, <3>1, <3>2, <3>3
    <3>4. Writing(u) /\ job[u].linked => part'[job[u].name] # NoPart
      BY <1>2, <3>1 DEF JobFits
    <3>5. QED
      BY <1>2, <3>1, <3>3, <3>4, JobKept
  <2>2. CASE job'[u] = NoJob /\ at'[u] = "idle"
    <3>1. ~Writing(u)'
      BY <2>2 DEF Writing
    <3>2. QED
      BY <2>2, <3>1, NoJobTyped, EmptyJobFits DEF Stage
  <2>3. CASE u = t /\ job'[t] = job[t] /\ at'[t] = "count"
    <3>1. JobFits(t)
      BY DEF DownloadsInv
    <3>2. job[t].missing # <<>> /\ Good(n, job[t].missing[1], m)'
      BY <2>3
    <3>3. QED
      BY <1>1, <1>2, <2>3, <3>1, <3>2 DEF JobFits, Writing
  <2>4. QED
    BY <2>1, <2>2, <2>3
<1>9. ASSUME NEW k \in Name
      PROVE  PartFits(k)'
  <2>1. PartFits(k)
    BY DEF DownloadsInv
  <2>2. CASE k = n
    BY <1>2, <1>3, <1>5, <1>6, <2>1, <2>2 DEF PartFits
  <2>3. CASE k # n
    BY <1>2, <1>3, <1>5, <2>1, <2>3 DEF PartFits
  <2>4. QED
    BY <2>2, <2>3
<1>10. ASSUME NEW u \in Thread, Writing(u)'
       PROVE  job'[u] = job[u] /\ Writing(u)
  BY <1>1, <1>10 DEF Writing
<1>11. ASSUME NEW k \in Name
       PROVE  Single(k)'
  <2>1. ASSUME NEW x \in Md5, FileName[x] = k, wrote'[k] \subseteq {x}
        PROVE  /\ Straight(k, x)'
               /\ \A u \in Thread : Writing(u)' /\ job'[u].name = k => Ahead(u)'
    <3>1. /\ Straight(k, x)
          /\ \A u \in Thread : Writing(u) /\ job[u].name = k => Ahead(u)
      BY <1>2, <2>1 DEF DownloadsInv, Single
    <3>2. CASE k = n
      <4>1. x = m /\ wrote[n] \subseteq {m}
        BY <1>1, <1>2, <2>1, <3>2
      <4>2. ASSUME NEW u \in Thread, Writing(u)', job'[u].name = k
            PROVE  Ahead(u)'
        <5>1. job'[u] = job[u] /\ Writing(u) /\ job[u].name = n /\ Ahead(u)
          BY <1>10, <3>1, <3>2, <4>2
        <5>2. job[u].md5 = m
          BY <4>1, <5>1 DEF DownloadsInv, JobFits
        <5>3. QED
          BY <1>5, <5>1, <5>2 DEF Ahead
      <4>3. QED
        BY <3>2, <4>1, <4>2
    <3>3. CASE k # n
      <4>1. Straight(k, x)'
        BY <1>4, <3>1, <3>3 DEF Straight
      <4>2. ASSUME NEW u \in Thread, Writing(u)', job'[u].name = k
            PROVE  Ahead(u)'
        <5>1. job'[u] = job[u] /\ job[u].name = k /\ Ahead(u)
          BY <1>10, <3>1, <4>2
        <5>2. QED
          BY <1>5, <3>3, <5>1 DEF Ahead
      <4>3. QED
        BY <4>1, <4>2
    <3>4. QED
      BY <3>2, <3>3
  <2>2. QED
    BY <2>1 DEF Single
<1>12. ASSUME NEW k \in Name
       PROVE  Alone(k)'
  <2>1. SUFFICES ASSUME k \notin overlapped'
                 PROVE  PartExact(k)' /\ \A u \in Thread : job'[u].name = k => JobExact(u, k)'
    BY DEF Alone
  <2>2. PartExact(k) /\ \A u \in Thread : job[u].name = k => JobExact(u, k)
    BY <1>2, <2>1 DEF DownloadsInv, Alone
  <2>3. PartExact(k)'
    BY <1>2, <2>2 DEF PartExact
  <2>4. ASSUME NEW u \in Thread, job'[u].name = k
        PROVE  JobExact(u, k)'
    <3>1. at'[u] = "create" => at[u] = "create" /\ job'[u] = job[u]
      OBVIOUS
    <3>2. \A v \in Thread : Writing(v)' \/ at'[v] = "create" =>
             job'[v] = job[v] /\ (Writing(v) \/ at[v] = "create")
      BY <1>10, <3>1
    <3>3. at'[u] = "create" => part'[k] = NoPart
      BY <1>2, <2>2, <2>4, <3>1 DEF JobExact
    <3>4. ASSUME Writing(u)'
          PROVE  /\ job'[u] = job[u] /\ Writing(u) /\ JobExact(u, k)
                 /\ at'[u] = "entry" <=> at[u] = "entry"
      BY <1>10, <2>2, <2>4, <3>4
    <3>5. ASSUME Writing(u)'
          PROVE  \A v \in Thread \ {u} : job'[v].name = k => ~Writing(v)' /\ at'[v] # "create"
      BY <3>2, <3>4, <3>5 DEF JobExact
    <3>6. QED
      BY <1>2, <3>3, <3>4, <3>5 DEF JobExact
  <2>5. QED
    BY <2>3, <2>4
<1>13. QED
  BY <1>7, <1>8, <1>9, <1>11, <1>12 DEF DownloadsInv

\* The chunk that a thread is to fetch, and what its file then holds of it.
LEMMA NextChunk ==
    ASSUME DownloadsInv, NEW t \in Thread, at[t] = "fetch", job[t].missing # <<>>
    PROVE  \A n, m, c : n = job[t].name /\ m = job[t].md5 /\ c = job[t].missing[1] =>
              /\ m \in Md5 /\ n \in Name /\ FileName[m] = n
              /\ c \in Nat \ {0} /\ Chunks[m] \in Nat \ {0} /\ c <= Chunks[m]
              /\ out[n] \in Seq(Content) /\ out \in [Name -> Seq(Content)]
              /\ wrote[n] \subseteq {m} =>
                    Straight(n, m) /\ \A e \in 1..c - 1 : Good(n, e, m)
<1> SUFFICES ASSUME NEW n, NEW m, NEW c,
                    n = job[t].name, m = job[t].md5, c = job[t].missing[1]
             PROVE  /\ m \in Md5 /\ n \in Name /\ FileName[m] = n
                    /\ c \in Nat \ {0} /\ Chunks[m] \in Nat \ {0} /\ c <= Chunks[m]
                    /\ out[n] \in Seq(Content) /\ out \in [Name -> Seq(Content)]
                    /\ wrote[n] \subseteq {m} =>
                          Straight(n, m) /\ \A e \in 1..c - 1 : Good(n, e, m)
  BY Zenon
<1>1. /\ m \in Md5 /\ n \in Name /\ FileName[m] = n /\ m \in wrote[n] /\ Writing(t)
      /\ Chunks[m] \in Nat \ {0} /\ job[t].missing \in Seq(Nat)
  BY AtWork DEF Writing
<1>2. c \in Range(job[t].missing) /\ 1 \in DOMAIN job[t].missing
  BY <1>1 DEF Range
<1>3. c \in 1..Chunks[m]
  BY <1>2 DEF DownloadsInv, JobFits
<1>4. out[n] \in Seq(Content) /\ out \in [Name -> Seq(Content)]
  BY <1>1 DEF DownloadsInv, DownloadsTyped
<1>5. ASSUME wrote[n] \subseteq {m}
      PROVE  Straight(n, m) /\ \A e \in 1..c - 1 : Good(n, e, m)
  <2>1. Straight(n, m) /\ Ahead(t)
    BY <1>1, <1>5 DEF DownloadsInv, Single
  <2>2. \A e \in 1..c - 1 : Good(n, e, m) \/ \E k \in 1..1 - 1 : job[t].missing[k] = e
    BY <1>2, <2>1 DEF Ahead
  <2>3. QED
    BY <2>1, <2>2
<1>6. QED
  BY <1>1, <1>3, <1>4, <1>5

\* Data without a gap, with the next chunk written to it.
LEMMA StraightWrite ==
    ASSUME NEW n \in Name, NEW m \in Md5, NEW c \in Nat \ {0}, NEW x \in Content,
           out \in [Name -> Seq(Content)], Chunks[m] \in Nat, c <= Chunks[m],
           Straight(n, m), \A e \in 1..c - 1 : Good(n, e, m),
           x = m \/ (c < Chunks[m] /\ ~Good(n, c, m)),
           out'[n] = WriteAt(out[n], c, x)
    PROVE  Straight(n, m)'
<1> DEFINE L == Len(out[n])
<1>1. L \in Nat /\ DOMAIN out[n] = 1..L /\ out[n] \in Seq(Content)
  OBVIOUS
<1>2. /\ out'[n] \in Seq(Content)
      /\ Len(out'[n]) = IF L > c THEN L ELSE c
      /\ out'[n][c] = x
      /\ \A i \in 1..L : i # c => out'[n][i] = out[n][i]
  <2>1. /\ WriteAt(out[n], c, x) \in Seq(Content)
        /\ Len(WriteAt(out[n], c, x)) = IF Len(out[n]) > c THEN Len(out[n]) ELSE c
        /\ WriteAt(out[n], c, x)[c] = x
        /\ \A i \in 1..Len(out[n]) : i # c => WriteAt(out[n], c, x)[i] = out[n][i]
    BY ONLY <1>1, c \in Nat \ {0}, x \in Content, WriteAtProperties, ZenonT(40)
  <2>2. QED
    BY ONLY out'[n] = WriteAt(out[n], c, x), <2>1, Zenon
<1> HIDE DEF L
<1>3. DOMAIN out'[n] = 1..Len(out'[n]) /\ Len(out'[n]) \in Nat
  BY <1>2
<1>4. L <= Chunks[m] /\ \A i \in 1..L : out[n][i] = m \/ (i = L /\ i < Chunks[m])
  BY <1>1 DEF Straight, L
<1>5. \A e \in 1..c - 1 : e \in 1..L /\ out[n][e] = m
  BY <1>1 DEF Good
<1>6. c - 1 <= L
  <2>1. c = 1 \/ c - 1 \in 1..c - 1
    OBVIOUS
  <2>2. CASE c = 1
    BY <1>1, <2>2
  <2>3. CASE c - 1 \in 1..c - 1
    <3>1. c - 1 \in 1..L
      BY <1>5, <2>3
    <3>2. QED
      BY <1>1, <3>1
  <2>4. QED
    BY <2>1, <2>2, <2>3
<1>7. c \in 1..L => out[n][c] = m \/ x = m \/ c = L
  BY <1>1, <1>4
<1>8. x # m => c < Chunks[m] /\ (c \in 1..L => out[n][c] # m)
  BY <1>1 DEF Good
<1>9. ASSUME NEW i \in 1..Len(out'[n])
      PROVE  out'[n][i] = m \/ (i = Len(out'[n]) /\ i < Chunks[m])
  <2>1. CASE i = c
    BY <1>1, <1>2, <1>4, <1>8, <2>1
  <2>2. CASE i # c
    <3>1. i \in 1..L /\ out'[n][i] = out[n][i]
      BY <1>1, <1>2, <1>6, <1>9, <2>2
    <3>2. CASE i < c
      BY <1>5, <3>1, <3>2
    <3>3. CASE i > c
      BY <1>1, <1>2, <1>4, <3>1, <3>3
    <3>4. QED
      BY <2>2, <3>2, <3>3, <3>1, <1>1
  <2>3. QED
    BY <2>1, <2>2
<1>10. Len(out'[n]) <= Chunks[m]
  BY <1>1, <1>2, <1>4
<1>11. QED
  BY <1>3, <1>9, <1>10 DEF Straight

\* get_chunk.
LEMMA GetChunkKeeps ==
    ASSUME DownloadsInv, NEW t \in Thread, GetChunk(t)
    PROVE  DownloadsInv'
<1>1. PICK n : n = job[t].name
  OBVIOUS
<1>2. PICK m : m = job[t].md5
  OBVIOUS
<1>3. PICK c : c = job[t].missing[1]
  OBVIOUS
<1>4. PICK d : d = WriteAt(out[n], c, m)
  OBVIOUS
<1>5. /\ at[t] = "fetch" /\ job[t].missing # <<>> /\ out' = [out EXCEPT ![n] = d]
      /\ at' = [at EXCEPT ![t] = "count"]
      /\ UNCHANGED <<job, downloads, part, history>> /\ UnchangedList
      /\ at \in [Thread -> Stage] /\ job \in [Thread -> Job]
  BY <1>1, <1>2, <1>3, <1>4 DEF GetChunk, GoTo, DownloadsInv, DownloadsTyped
<1>6. /\ m \in Md5 /\ n \in Name /\ FileName[m] = n
      /\ c \in Nat \ {0} /\ Chunks[m] \in Nat \ {0} /\ c <= Chunks[m]
      /\ out[n] \in Seq(Content) /\ out \in [Name -> Seq(Content)]
      /\ wrote[n] \subseteq {m} =>
            Straight(n, m) /\ \A e \in 1..c - 1 : Good(n, e, m)
  <2>1. at[t] = "fetch" /\ job[t].missing # <<>>
    BY <1>5
  <2>2. QED
    BY <1>1, <1>2, <1>3, <2>1, NextChunk
<1>7. m \in Content
  BY <1>6 DEF Content
<1>8. /\ d \in Seq(Content)
      /\ Len(d) = IF Len(out[n]) > c THEN Len(out[n]) ELSE c
      /\ d[c] = m
      /\ \A i \in 1..Len(out[n]) : i # c => d[i] = out[n][i]
  <2>1. /\ WriteAt(out[n], c, m) \in Seq(Content)
        /\ Len(WriteAt(out[n], c, m)) = IF Len(out[n]) > c THEN Len(out[n]) ELSE c
        /\ WriteAt(out[n], c, m)[c] = m
        /\ \A i \in 1..Len(out[n]) : i # c => WriteAt(out[n], c, m)[i] = out[n][i]
    BY ONLY <1>6, <1>7, WriteAtProperties, ZenonT(40)
  <2>2. QED
    BY ONLY <1>4, <2>1, Zenon
<1>9. Len(out[n]) \in Nat /\ DOMAIN out[n] = 1..Len(out[n]) /\ DOMAIN d = 1..Len(d)
  BY <1>6, <1>8
<1>10. c \in DOMAIN d /\ \A i \in DOMAIN out[n] : out[n][i] = m => i \in DOMAIN d /\ d[i] = m
  BY <1>6, <1>8, <1>9
<1>11. out'[n] = d
  BY <1>5, <1>6
<1>12. Good(n, job[t].missing[1], m)'
  BY <1>3, <1>5, <1>8, <1>10, <1>11 DEF Good
<1>13. wrote[n] \subseteq {m} => Straight(n, m)'
  BY <1>4, <1>6, <1>7, <1>11, StraightWrite
<1>14. /\ at' \in [Thread -> Stage] /\ job' \in [Thread -> Job]
       /\ \A u \in Thread \ {t} : job'[u] = job[u] /\ at'[u] = at[u]
       /\ UNCHANGED <<downloads, part, history>>
  BY <1>5 DEF Stage
<1>15. Writes(t, n, m, d)
  BY <1>1, <1>2, <1>5, <1>8, <1>10, <1>12, <1>13, <1>14 DEF Writes
<1>16. QED
  BY <1>15, DataStep

\* The peer breaks off within a chunk.
LEMMA BreakOffKeeps ==
    ASSUME DownloadsInv, NEW t \in Thread, BreakOff(t)
    PROVE  DownloadsInv'
<1>1. PICK n : n = job[t].name
  OBVIOUS
<1>2. PICK m : m = job[t].md5
  OBVIOUS
<1>3. PICK c : c = job[t].missing[1]
  OBVIOUS
<1>4. PICK d : d = WriteAt(out[n], c, Torn)
  OBVIOUS
<1>5. /\ at[t] = "fetch" /\ job[t].missing # <<>>
      /\ Finish(t) /\ UNCHANGED <<downloads, part, history>> /\ UnchangedList
      /\ \/ /\ (c <= Len(out[n]) /\ out[n][c] # m) \/ (Len(out[n]) < c /\ c < Chunks[m])
            /\ out' = [out EXCEPT ![n] = d]
         \/ UNCHANGED out
      /\ at \in [Thread -> Stage] /\ job \in [Thread -> Job] /\ downloads \in Seq(Lines)
  BY <1>1, <1>2, <1>3, <1>4 DEF BreakOff, WriteTorn, DownloadsInv, DownloadsTyped
<1>6. CASE UNCHANGED out
  BY <1>5, <1>6, FinishKeeps
<1>7. CASE /\ (c <= Len(out[n]) /\ out[n][c] # m) \/ (Len(out[n]) < c /\ c < Chunks[m])
           /\ out' = [out EXCEPT ![n] = d]
  <2>1. /\ m \in Md5 /\ n \in Name /\ FileName[m] = n
        /\ c \in Nat \ {0} /\ Chunks[m] \in Nat \ {0} /\ c <= Chunks[m]
        /\ out[n] \in Seq(Content) /\ out \in [Name -> Seq(Content)]
        /\ wrote[n] \subseteq {m} =>
              Straight(n, m) /\ \A e \in 1..c - 1 : Good(n, e, m)
    <3>1. at[t] = "fetch" /\ job[t].missing # <<>>
      BY <1>5
    <3>2. QED
      BY <1>1, <1>2, <1>3, <3>1, NextChunk
  <2>2. Torn \in Content
    BY DEF Content
  <2>3. /\ d \in Seq(Content)
        /\ Len(d) = IF Len(out[n]) > c THEN Len(out[n]) ELSE c
        /\ \A i \in 1..Len(out[n]) : i # c => d[i] = out[n][i]
    <3>1. /\ WriteAt(out[n], c, Torn) \in Seq(Content)
          /\ Len(WriteAt(out[n], c, Torn)) = IF Len(out[n]) > c THEN Len(out[n]) ELSE c
          /\ WriteAt(out[n], c, Torn)[c] = Torn
          /\ \A i \in 1..Len(out[n]) : i # c => WriteAt(out[n], c, Torn)[i] = out[n][i]
      BY ONLY <2>1, <2>2, WriteAtProperties, ZenonT(40)
    <3>2. QED
      BY ONLY <1>4, <3>1, Zenon
  <2>4. Len(out[n]) \in Nat /\ DOMAIN out[n] = 1..Len(out[n]) /\ DOMAIN d = 1..Len(d)
    BY <2>1, <2>3
  <2>5. ~Good(n, c, m)
    BY <1>7, <2>1, <2>4 DEF Good
  <2>6. \A i \in DOMAIN out[n] : out[n][i] = m => i \in DOMAIN d /\ d[i] = m
    BY <2>1, <2>3, <2>4, <2>5 DEF Good
  <2>7. out'[n] = d
    BY <1>7, <2>1
  <2>8. ASSUME wrote[n] \subseteq {m}
        PROVE  Straight(n, m)'
    <3>1. c < Chunks[m]
      BY <1>7, <2>1, <2>4, <2>8 DEF Straight
    <3>2. QED
      BY <1>4, <2>1, <2>2, <2>5, <2>7, <2>8, <3>1, StraightWrite
  <2>9. /\ at' = [at EXCEPT ![t] = "idle"] /\ job' = [job EXCEPT ![t] = NoJob]
        /\ NoJob \in Job
    BY <1>5, NoJobTyped DEF Finish, GoTo
  <2>10. /\ at' \in [Thread -> Stage] /\ job' \in [Thread -> Job]
         /\ \A u \in Thread \ {t} : job'[u] = job[u] /\ at'[u] = at[u]
         /\ job'[t] = NoJob /\ at'[t] = "idle"
    BY <1>5, <2>9 DEF Stage
  <2>11. Writes(t, n, m, d)
    BY <1>1, <1>2, <1>5, <1>7, <2>3, <2>6, <2>8, <2>10 DEF Writes
  <2>12. QED
    BY <2>11, DataStep
<1>8. QED
  BY <1>5, <1>6, <1>7

-----------------------------------------------------------------------------
(* The part is written *)

\* A thread writes to the part it has linked, which then is r, of the same
\* file; what r has down is there, and if nobody else writes it is exact.
Counts(t, n, m, r) ==
    /\ Writing(t) /\ Writing(t)' /\ n = job[t].name /\ m = job[t].md5
    /\ job[t].linked => r \in PartFile /\ r.md5 = part[n].md5
    /\ part' = IF job[t].linked THEN [part EXCEPT ![n] = r] ELSE part
    /\ UNCHANGED <<downloads, out, history>> /\ UnchangedList
    /\ at' \in [Thread -> Stage] /\ job' \in [Thread -> Job]
    /\ \A u \in Thread \ {t} : job'[u] = job[u] /\ at'[u] = at[u]
    /\ job'[t].name = n /\ job'[t].md5 = m
    /\ JobFits(t)' /\ PartFits(n)'
    /\ wrote[n] \subseteq {m} /\ Ahead(t) => Ahead(t)'
    /\ n \notin overlapped => PartExact(n)' /\ JobExact(t, n)'

LEMMA PartStep ==
    ASSUME DownloadsInv, NEW t \in Thread, NEW n, NEW m, NEW r, Counts(t, n, m, r)
    PROVE  DownloadsInv'
<1> USE DEF Counts
<1>1. /\ m \in Md5 /\ n \in Name /\ FileName[m] = n /\ m \in wrote[n]
      /\ part \in [Name -> {NoPart} \cup PartFile]
  BY AtWork DEF Writing, DownloadsInv, DownloadsTyped
<1>2. UNCHANGED <<wrote, overlapped, out>>
  BY DEF history
<1>3. \A k : Mixed(k)' <=> Mixed(k)
  BY <1>2 DEF Mixed
<1>4. \A k, c, x : Good(k, c, x)' <=> Good(k, c, x)
  BY <1>2 DEF Good
<1>5. /\ part' \in [Name -> {NoPart} \cup PartFile]
      /\ part[n] # NoPart => part'[n] # NoPart
      /\ \A k \in Name \ {n} : part'[k] = part[k]
  <2>1. CASE job[t].linked
    BY <1>1, <2>1, PartIsThere
  <2>2. CASE ~job[t].linked
    BY <1>1, <2>2
  <2>3. QED
    BY <2>1, <2>2
<1>6. DownloadsTyped'
  BY <1>2, <1>5 DEF DownloadsInv, DownloadsTyped, UnchangedList
<1>7. ASSUME NEW u \in Thread
      PROVE  JobFits(u)'
  <2>1. CASE u # t
    <3>1. job'[u] = job[u] /\ at'[u] = at[u] /\ JobFits(u) /\ job[u].missing \in Seq(Nat)
      BY <2>1 DEF DownloadsInv, DownloadsTyped, Job
    <3>2. ASSUME Writing(u)
          PROVE  job[u].name \in Name
      BY <3>2, AtWork DEF Writing
    <3>3. ASSUME Writing(u), job[u].linked
          PROVE  part'[job[u].name] # NoPart
      BY <1>5, <3>1, <3>2, <3>3 DEF JobFits
    <3>4. QED
      BY <1>2, <1>3, <1>4, <3>1, <3>3, JobKept
  <2>2. QED
    BY <2>1
<1>8. ASSUME NEW k \in Name
      PROVE  PartFits(k)'
  <2>1. CASE k # n
    BY <1>2, <1>3, <1>4, <1>5, <2>1 DEF PartFits, DownloadsInv
  <2>2. QED
    BY <2>1
<1>9. ASSUME NEW k \in Name
      PROVE  Single(k)'
  <2>1. ASSUME NEW x \in Md5, FileName[x] = k, wrote'[k] \subseteq {x}
        PROVE  /\ Straight(k, x)'
               /\ \A u \in Thread : Writing(u)' /\ job'[u].name = k => Ahead(u)'
    <3>1. /\ Straight(k, x)
          /\ \A u \in Thread : Writing(u) /\ job[u].name = k => Ahead(u)
      BY <1>2, <2>1 DEF DownloadsInv, Single
    <3>2. Straight(k, x)'
      BY <1>2, <3>1 DEF Straight
    <3>3. ASSUME NEW u \in Thread \ {t}, Writing(u)', job'[u].name = k
          PROVE  Ahead(u)'
      <4>1. job'[u] = job[u] /\ Ahead(u)
        BY <3>1, <3>3 DEF Writing
      <4>2. QED
        BY <1>4, <4>1 DEF Ahead
    <3>4. ASSUME k = n
          PROVE  Ahead(t)'
      BY <1>1, <1>2, <2>1, <3>1, <3>4
    <3>5. QED
      BY <3>2, <3>3, <3>4
  <2>2. QED
    BY <2>1 DEF Single
<1>10. ASSUME NEW k \in Name
       PROVE  Alone(k)'
  <2>1. SUFFICES ASSUME k \notin overlapped'
                 PROVE  PartExact(k)' /\ \A u \in Thread : job'[u].name = k => JobExact(u, k)'
    BY DEF Alone
  <2>2. PartExact(k) /\ \A u \in Thread : job[u].name = k => JobExact(u, k)
    BY <1>2, <2>1 DEF DownloadsInv, Alone
  <2>3. CASE k = n
    <3>1. PartExact(k)' /\ JobExact(t, k)'
      BY <1>2, <2>1, <2>3
    <3>2. ASSUME NEW u \in Thread \ {t}, job'[u].name = k
          PROVE  JobExact(u, k)'
      <4>1. ~Writing(u)' /\ at'[u] # "create"
        BY <2>3, <3>1, <3>2 DEF JobExact
      <4>2. QED
        BY <4>1 DEF JobExact
    <3>3. QED
      BY <3>1, <3>2
  <2>4. CASE k # n
    <3>1. PartExact(k)'
      BY <1>5, <2>2, <2>4 DEF PartExact
    <3>2. ASSUME NEW u \in Thread, job'[u].name = k
          PROVE  JobExact(u, k)'
      <4>1. u # t /\ job'[u] = job[u] /\ at'[u] = at[u] /\ part'[k] = part[k]
        BY <1>5, <2>4, <3>2
      <4>2. \A v \in Thread : job'[v].name = k => job[v].name = k /\ at'[v] = at[v]
        BY <2>4
      <4>3. JobExact(u, k)
        BY <2>2, <3>2, <4>1
      <4>4. QED
        BY ONLY u \in Thread, <4>1, <4>2, <4>3, JobExactKept
    <3>3. QED
      BY <3>1, <3>2
  <2>5. QED
    BY <2>3, <2>4
<1>11. QED
  BY <1>6, <1>7, <1>8, <1>9, <1>10 DEF DownloadsInv

\* write_filepart, the header.
LEMMA WriteCountKeeps ==
    ASSUME DownloadsInv, NEW t \in Thread, WriteCount(t)
    PROVE  DownloadsInv'
<1>1. PICK n : n = job[t].name
  OBVIOUS
<1>2. PICK m : m = job[t].md5
  OBVIOUS
<1>3. PICK g : g = job[t].got
  OBVIOUS
<1>4. PICK r : r = [part[n] EXCEPT !.count = g + 1]
  OBVIOUS
<1>5. /\ at[t] = "count" /\ at' = [at EXCEPT ![t] = "entry"]
      /\ job' = [job EXCEPT ![t].got = g + 1]
      /\ part' = IF job[t].linked THEN [part EXCEPT ![n] = r] ELSE part
      /\ UNCHANGED <<downloads, out, history>> /\ UnchangedList
      /\ at \in [Thread -> Stage] /\ job \in [Thread -> Job]
      /\ part \in [Name -> {NoPart} \cup PartFile] /\ JobFits(t)
  BY <1>1, <1>3, <1>4 DEF WriteCount, GoTo, DownloadsInv, DownloadsTyped
<1>6. /\ m \in Md5 /\ n \in Name /\ FileName[m] = n /\ Writing(t) /\ g \in Nat
      /\ Chunks[m] \in Nat \ {0} /\ job[t].missing \in Seq(Nat) /\ job[t] \in Job
  BY <1>1, <1>2, <1>3, <1>5, AtWork DEF Writing
<1>7. UNCHANGED <<wrote, overlapped, out>>
  BY <1>5 DEF history
<1>8. (\A k : Mixed(k)' <=> Mixed(k)) /\ (\A k, c, x : Good(k, c, x)' <=> Good(k, c, x))
  BY <1>7 DEF Mixed, Good
<1>9. /\ job'[t].md5 = m /\ job'[t].name = n /\ job'[t].missing = job[t].missing
      /\ job'[t].got = g + 1 /\ job'[t].linked = job[t].linked /\ job' \in [Thread -> Job]
      /\ \A u \in Thread \ {t} : job'[u] = job[u]
  <2> DEFINE k == [job[t] EXCEPT !.got = g + 1]
  <2>1. g + 1 \in Nat
    BY <1>6
  <2>2. /\ k \in Job /\ k.md5 = job[t].md5 /\ k.name = job[t].name
        /\ k.missing = job[t].missing /\ k.got = g + 1 /\ k.linked = job[t].linked
    BY <1>6, <2>1, JobAdvances
  <2>3. job' = [job EXCEPT ![t] = k]
    BY <1>5
  <2> HIDE DEF k
  <2>4. QED
    BY <1>1, <1>2, <1>5, <2>2, <2>3
<1>10. /\ at'[t] = "entry" /\ Writing(t)' /\ at' \in [Thread -> Stage]
       /\ \A u \in Thread \ {t} : at'[u] = at[u]
  BY <1>5 DEF Stage, Writing
<1>11. job[t].linked => part[n] # NoPart /\ part[n] \in PartFile
  BY <1>1, <1>5, <1>6 DEF JobFits
<1>12. job[t].linked =>
          /\ r \in PartFile /\ r.md5 = part[n].md5 /\ r.count = g + 1
          /\ r.entries = part[n].entries /\ part'[n] = r /\ r # NoPart
  <2>1. g + 1 \in Nat
    BY <1>6
  <2>2. job[t].linked => r \in PartFile /\ r.md5 = part[n].md5 /\ r.count = g + 1
                         /\ r.entries = part[n].entries
    BY <1>4, <1>11, <2>1 DEF PartFile
  <2>3. QED
    BY <1>5, <1>6, <2>2, PartIsThere
<1>13. ~job[t].linked => part'[n] = part[n]
  BY <1>5
<1>14. /\ g + Len(job[t].missing) <= Chunks[m]
       /\ job[t].missing # <<>> /\ Len(job[t].missing) \in Nat
  BY <1>2, <1>3, <1>5, <1>6 DEF JobFits
<1>15. g + 1 <= Chunks[m]
  BY <1>6, <1>14
<1>16. JobFits(t)'
  <2>1. /\ Range(job[t].missing) \subseteq 1..Chunks[m]
        /\ ~Mixed(n) => Good(n, job[t].missing[1], m)
    BY <1>1, <1>2, <1>5 DEF JobFits
  <2>2. job[t].linked => part'[n] # NoPart
    BY <1>12
  <2>3. m \in wrote'[n]
    BY <1>1, <1>2, <1>5, <1>6, <1>7 DEF JobFits
  <2>4. job'[t].got + Len(job'[t].missing) <= Chunks[m] + 1
    <3>1. \A l, N \in Nat : g + l <= N => g + 1 + l <= N + 1
      BY <1>6
    <3>2. g + 1 + Len(job[t].missing) <= Chunks[m] + 1
      BY ONLY <1>6, <1>14, <3>1
    <3>3. QED
      BY ONLY <1>9, <3>2
  <2>5. QED
    BY <1>6, <1>8, <1>9, <1>10, <1>14, <2>1, <2>2, <2>3, <2>4 DEF JobFits
<1>17. PartFits(n)'
  <2>1. PartFits(n)
    BY <1>6 DEF DownloadsInv
  <2>2. CASE job[t].linked
    <3>1. part[n].md5 \in Md5 /\ FileName[part[n].md5] = n
      BY <1>11, <2>1, <2>2 DEF PartFits, PartFile
    <3>2. Chunks[part[n].md5] = Chunks[m]
      BY <1>6, <3>1, DownloadsAssumption DEF DownloadsAssumption
    <3>3. QED
      BY <1>7, <1>8, <1>11, <1>12, <1>15, <2>1, <2>2, <3>2 DEF PartFits
  <2>3. CASE ~job[t].linked
    BY <1>7, <1>8, <1>13, <2>1, <2>3 DEF PartFits
  <2>4. QED
    BY <2>2, <2>3
<1>18. Ahead(t) => Ahead(t)'
  BY <1>1, <1>2, <1>8, <1>9 DEF Ahead
<1>19. ASSUME n \notin overlapped
       PROVE  PartExact(n)' /\ JobExact(t, n)'
  <2>1. PartExact(n) /\ JobExact(t, n)
    BY <1>1, <1>6, <1>19 DEF DownloadsInv, Alone
  <2>2. /\ job[t].linked /\ part[n].md5 = m /\ g = Len(part[n].entries)
        /\ Range(job[t].missing) = (1..Chunks[m]) \ Range(part[n].entries)
        /\ IsInjective(job[t].missing)
        /\ \A u \in Thread \ {t} : job[u].name = n => ~Writing(u) /\ at[u] # "create"
    BY <1>2, <1>3, <1>5, <1>6, <2>1 DEF JobExact
  <2>3. /\ part'[n].md5 = m /\ part'[n].count = g + 1 /\ part'[n].entries = part[n].entries
        /\ part[n] # NoPart
    BY <1>11, <1>12, <2>2
  <2>4. PartExact(n)'
    BY <1>6, <2>1, <2>2, <2>3 DEF PartExact
  <2>5. \A u \in Thread \ {t} : job'[u].name = n => ~Writing(u)' /\ at'[u] # "create"
    BY <1>9, <1>10, <2>2 DEF Writing
  <2>6. JobExact(t, n)'
    BY <1>9, <1>10, <2>2, <2>3, <2>5 DEF JobExact
  <2>7. QED
    BY <2>4, <2>6
<1>20. Counts(t, n, m, r)
  BY <1>1, <1>2, <1>5, <1>6, <1>9, <1>10, <1>12, <1>16, <1>17, <1>18, <1>19 DEF Counts
<1>21. QED
  BY <1>20, PartStep

\* write_filepart, the entry.
LEMMA WriteEntryKeeps ==
    ASSUME DownloadsInv, NEW t \in Thread, WriteEntry(t)
    PROVE  DownloadsInv'
<1>1. PICK n : n = job[t].name
  OBVIOUS
<1>2. PICK m : m = job[t].md5
  OBVIOUS
<1>3. PICK q : q = job[t].missing
  OBVIOUS
<1>0. PICK z : z = Tail(q)
  OBVIOUS
<1>4. PICK r : r = [part[n] EXCEPT !.entries = Append(part[n].entries, q[1])]
  OBVIOUS
<1>5. /\ at[t] = "entry" /\ at' = [at EXCEPT ![t] = "fetch"]
      /\ job' = [job EXCEPT ![t].missing = z]
      /\ part' = IF job[t].linked THEN [part EXCEPT ![n] = r] ELSE part
      /\ UNCHANGED <<downloads, out, history>> /\ UnchangedList
      /\ at \in [Thread -> Stage] /\ job \in [Thread -> Job]
      /\ part \in [Name -> {NoPart} \cup PartFile] /\ JobFits(t)
  BY <1>0, <1>1, <1>3, <1>4 DEF WriteEntry, GoTo, DownloadsInv, DownloadsTyped
<1>6. /\ m \in Md5 /\ n \in Name /\ FileName[m] = n /\ Writing(t) /\ job[t].got \in Nat
      /\ Chunks[m] \in Nat \ {0} /\ q \in Seq(Nat) /\ job[t] \in Job
  BY <1>1, <1>2, <1>3, <1>5, AtWork DEF Writing
<1>7. UNCHANGED <<wrote, overlapped, out>>
  BY <1>5 DEF history
<1>8. (\A k : Mixed(k)' <=> Mixed(k)) /\ (\A k, c, x : Good(k, c, x)' <=> Good(k, c, x))
  BY <1>7 DEF Mixed, Good
<1>9. /\ q # <<>> /\ Range(q) \subseteq 1..Chunks[m] /\ m \in wrote[n]
      /\ job[t].got + Len(q) <= Chunks[m] + 1
      /\ ~Mixed(n) => Good(n, q[1], m)
  BY <1>1, <1>2, <1>3, <1>5, <1>6 DEF JobFits
<1>10. /\ z \in Seq(Nat) /\ Len(z) = Len(q) - 1 /\ Len(q) \in Nat \ {0}
       /\ DOMAIN q = 1..Len(q) /\ DOMAIN z = 1..Len(q) - 1
       /\ \A i \in 1..Len(q) - 1 : z[i] = q[i + 1]
  <2>1. q \in Seq(Nat) /\ q # <<>>
    BY ONLY <1>6, <1>9
  <2>2. QED
    BY ONLY <1>0, <2>1
<1>11. q[1] \in Range(q) /\ q[1] \in Nat
  <2>1. 1 \in DOMAIN q
    BY ONLY <1>10
  <2>2. q[1] \in Range(q)
    BY ONLY <2>1 DEF Range
  <2>3. QED
    BY <1>6, <2>1, <2>2
<1>12. Range(z) \subseteq Range(q)
  <2>1. \A i \in 1..Len(q) - 1 : i + 1 \in 1..Len(q)
    BY <1>10
  <2>2. QED
    BY <1>10, <2>1 DEF Range
<1>13. /\ job'[t].md5 = m /\ job'[t].name = n /\ job'[t].missing = z
       /\ job'[t].got = job[t].got /\ job'[t].linked = job[t].linked
       /\ job' \in [Thread -> Job]
       /\ \A u \in Thread \ {t} : job'[u] = job[u]
  <2> DEFINE k == [job[t] EXCEPT !.missing = z]
  <2>1. /\ k \in Job /\ k.md5 = job[t].md5 /\ k.name = job[t].name
        /\ k.missing = z /\ k.got = job[t].got /\ k.linked = job[t].linked
    BY <1>6, <1>10, JobAdvances
  <2>2. job' = [job EXCEPT ![t] = k]
    BY <1>5
  <2> HIDE DEF k
  <2>3. QED
    BY <1>1, <1>2, <1>5, <2>1, <2>2
<1>14. /\ at'[t] = "fetch" /\ Writing(t)' /\ at' \in [Thread -> Stage]
       /\ \A u \in Thread \ {t} : at'[u] = at[u]
  BY <1>5 DEF Stage, Writing
<1>15. job[t].linked => part[n] # NoPart /\ part[n] \in PartFile
  BY <1>1, <1>5, <1>6 DEF JobFits
<1>16. job[t].linked =>
          /\ r \in PartFile /\ r.md5 = part[n].md5 /\ r.count = part[n].count
          /\ r.entries = Append(part[n].entries, q[1]) /\ part'[n] = r /\ r # NoPart
          /\ Range(r.entries) = Range(part[n].entries) \cup {q[1]}
          /\ part[n].entries \in Seq(Nat)
  <2>1. job[t].linked => part[n].entries \in Seq(Nat)
    BY <1>15 DEF PartFile
  <2>2. job[t].linked => Append(part[n].entries, q[1]) \in Seq(Nat)
    BY <1>11, <2>1
  <2>3. job[t].linked => r \in PartFile /\ r.md5 = part[n].md5 /\ r.count = part[n].count
                         /\ r.entries = Append(part[n].entries, q[1])
    BY <1>4, <1>15, <2>2 DEF PartFile
  <2>4. job[t].linked =>
           Range(Append(part[n].entries, q[1])) = Range(part[n].entries) \cup {q[1]}
    BY <1>11, <2>1, AppendRange
  <2>5. QED
    BY <1>5, <1>6, <2>1, <2>3, <2>4, PartIsThere
<1>17. ~job[t].linked => part'[n] = part[n]
  BY <1>5
<1>18. JobFits(t)'
  <2>1. Range(z) \subseteq 1..Chunks[m]
    BY <1>9, <1>12
  <2>2. job[t].got + Len(z) <= Chunks[m] + 0
    BY <1>6, <1>9, <1>10
  <2>3. m \in wrote'[n]
    BY <1>7, <1>9
  <2>4. QED
    BY <1>6, <1>13, <1>14, <1>16, <2>1, <2>2, <2>3 DEF JobFits
<1>19. ~Mixed(n) /\ job[t].linked => part[n].md5 = m
  BY <1>1, <1>2, <1>6, <1>15, OneFile
<1>20. PartFits(n)'
  <2>1. PartFits(n)
    BY <1>6 DEF DownloadsInv
  <2>2. CASE job[t].linked
    <3>1. part[n].md5 \in Md5 /\ FileName[part[n].md5] = n
      BY <1>15, <2>1, <2>2 DEF PartFits, PartFile
    <3>2. Chunks[part[n].md5] = Chunks[m]
      BY <1>6, <3>1, DownloadsAssumption DEF DownloadsAssumption
    <3>3. Range(r.entries) \subseteq 1..Chunks[r.md5]
      BY <1>9, <1>11, <1>15, <1>16, <2>1, <2>2, <3>2 DEF PartFits
    <3>4. ~Mixed(n)' => \A c \in Range(r.entries) : Good(n, c, r.md5)'
      BY <1>8, <1>9, <1>15, <1>16, <1>19, <2>1, <2>2 DEF PartFits
    <3>5. QED
      BY <1>7, <1>15, <1>16, <2>1, <2>2, <3>3, <3>4 DEF PartFits
  <2>3. CASE ~job[t].linked
    BY <1>7, <1>8, <1>17, <2>1, <2>3 DEF PartFits
  <2>4. QED
    BY <2>2, <2>3
<1>21. ASSUME wrote[n] \subseteq {m}, Ahead(t)
       PROVE  Ahead(t)'
  <2>1. Good(n, q[1], m)
    BY <1>6, <1>7, <1>8, <1>9, <1>21, OneIsNotMixed
  <2>2. ASSUME NEW i \in 1..Len(q) - 1, NEW c \in 1..q[i + 1] - 1
        PROVE  Good(n, c, m) \/ \E k \in 1..i - 1 : z[k] = c
    <3>1. Good(n, c, m) \/ \E k \in 1..i + 1 - 1 : q[k] = c
      <4>1. i + 1 \in DOMAIN q
        BY <1>10
      <4>2. QED
        BY <1>1, <1>2, <1>3, <1>21, <2>2, <4>1 DEF Ahead
    <3>2. ASSUME NEW k \in 1..i + 1 - 1, q[k] = c, k # 1
          PROVE  k - 1 \in 1..i - 1 /\ z[k - 1] = c
      <4>1. k - 1 \in 1..i - 1 /\ k - 1 \in 1..Len(q) - 1 /\ k - 1 + 1 = k
        BY <1>10, <2>2, <3>2
      <4>2. QED
        BY <1>10, <3>2, <4>1
    <3>3. QED
      BY <2>1, <3>1, <3>2
  <2>3. \A i \in DOMAIN z : \A c \in 1..z[i] - 1 :
           Good(n, c, m) \/ \E k \in 1..i - 1 : z[k] = c
    BY <1>10, <2>2
  <2>4. QED
    BY <1>8, <1>13, <2>3 DEF Ahead
<1>22. ASSUME n \notin overlapped
       PROVE  PartExact(n)' /\ JobExact(t, n)'
  <2> DEFINE s == part[n].entries
  <2>1. PartExact(n) /\ JobExact(t, n)
    BY <1>1, <1>6, <1>22 DEF DownloadsInv, Alone
  <2>2. /\ job[t].linked /\ part[n].md5 = m /\ part[n].count = job[t].got
        /\ job[t].got = Len(s) + 1
        /\ Range(q) = (1..Chunks[m]) \ Range(s) /\ IsInjective(q)
        /\ \A u \in Thread \ {t} : job[u].name = n => ~Writing(u) /\ at[u] # "create"
    BY <1>2, <1>3, <1>5, <1>6, <2>1 DEF JobExact
  <2>3. /\ part'[n].md5 = m /\ part'[n].count = Len(s) + 1
        /\ part'[n].entries = Append(s, q[1]) /\ s \in Seq(Nat)
        /\ Range(Append(s, q[1])) = Range(s) \cup {q[1]}
    BY <1>16, <2>2
  <2>4. IsInjective(s) /\ q[1] \notin Range(s)
    BY <1>11, <1>15, <2>1, <2>2 DEF PartExact
  <2> HIDE DEF s
  <2>5. IsInjective(Append(s, q[1])) /\ Len(Append(s, q[1])) = Len(s) + 1
    BY <1>11, <2>3, <2>4, AppendNew
  <2>6. PartExact(n)'
    BY <2>3, <2>5 DEF PartExact
  <2>7. \A u \in Thread \ {t} : job'[u].name = n => ~Writing(u)' /\ at'[u] # "create"
    BY <1>13, <1>14, <2>2 DEF Writing
  <2>8. /\ IsInjective(z)
        /\ Range(z) = Range(q) \ {q[1]}
    BY <1>0, <1>6, <1>9, <2>2, TailInjective
  <2>9. Range(z) = (1..Chunks[m]) \ Range(Append(s, q[1]))
    BY <2>2, <2>3, <2>8
  <2>10. JobExact(t, n)'
    BY <1>13, <1>14, <2>2, <2>3, <2>5, <2>7, <2>8, <2>9 DEF JobExact
  <2>11. QED
    BY <2>6, <2>10
<1>23. Counts(t, n, m, r)
  BY <1>1, <1>2, <1>5, <1>6, <1>13, <1>14, <1>16, <1>18, <1>20, <1>21, <1>22 DEF Counts
<1>24. QED
  BY <1>23, PartStep

-----------------------------------------------------------------------------
(* The end of a download, and of the process *)

\* remove_filepart: the part goes.
LEMMA UnlinkKeeps ==
    ASSUME DownloadsInv, NEW t \in Thread, at[t] = "fetch", job[t].missing = <<>>,
           NEW n, n = job[t].name, Unlink(t, n),
           UNCHANGED <<downloads, out, history>>, UnchangedList
    PROVE  DownloadsInv'
<1>1. /\ part' = [part EXCEPT ![n] = NoPart]
      /\ job' = [u \in Thread |->
                    IF job[u].name = n THEN [job[u] EXCEPT !.linked = FALSE] ELSE job[u]]
      /\ at' = [at EXCEPT ![t] = "relist"]
      /\ at \in [Thread -> Stage] /\ job \in [Thread -> Job]
      /\ part \in [Name -> {NoPart} \cup PartFile] /\ Writing(t)
  BY DEF Unlink, GoTo, DownloadsInv, DownloadsTyped, Writing
<1>2. n \in Name
  BY AtWork
<1>3. UNCHANGED <<wrote, overlapped, out>>
  BY DEF history
<1>4. (\A k : Mixed(k)' <=> Mixed(k)) /\ (\A k, c, x : Good(k, c, x)' <=> Good(k, c, x))
  BY <1>3 DEF Mixed, Good
<1>5. /\ job' \in [Thread -> Job]
      /\ \A u \in Thread :
            /\ job'[u] \in Job /\ job'[u].md5 = job[u].md5 /\ job'[u].name = job[u].name
            /\ job'[u].missing = job[u].missing /\ job'[u].got = job[u].got
            /\ job[u].name # n => job'[u] = job[u]
            /\ job[u].name = n => ~job'[u].linked
  <2>1. ASSUME NEW u \in Thread
        PROVE  /\ job'[u] \in Job /\ job'[u].md5 = job[u].md5 /\ job'[u].name = job[u].name
               /\ job'[u].missing = job[u].missing /\ job'[u].got = job[u].got
               /\ job[u].name # n => job'[u] = job[u]
               /\ job[u].name = n => ~job'[u].linked
    <3>1. CASE job[u].name = n
      <4> DEFINE k == [job[u] EXCEPT !.linked = FALSE]
      <4>1. /\ k \in Job /\ k.md5 = job[u].md5 /\ k.name = job[u].name
            /\ k.missing = job[u].missing /\ k.got = job[u].got /\ ~k.linked
        <5>1. job[u] \in Job
          BY <1>1
        <5>2. QED
          BY <5>1, JobAdvances
      <4>2. job'[u] = k
        BY <1>1, <3>1
      <4> HIDE DEF k
      <4>3. QED
        BY <3>1, <4>1, <4>2
    <3>2. CASE job[u].name # n
      BY <1>1, <3>2
    <3>3. QED
      BY <3>1, <3>2
  <2>2. job' \in [Thread -> Job]
    <3>1. job' = [u \in Thread |-> job'[u]]
      BY <1>1
    <3>2. QED
      BY <2>1, <3>1
  <2>3. QED
    BY <2>1, <2>2
<1>6. /\ at'[t] = "relist" /\ at' \in [Thread -> Stage]
      /\ \A u \in Thread \ {t} : at'[u] = at[u]
  BY <1>1 DEF Stage
<1>7. /\ part' \in [Name -> {NoPart} \cup PartFile] /\ part'[n] = NoPart
      /\ \A k \in Name \ {n} : part'[k] = part[k]
  BY <1>1, <1>2
<1>8. DownloadsTyped'
  BY <1>3, <1>5, <1>6, <1>7 DEF DownloadsInv, DownloadsTyped, UnchangedList
<1>9. \A u \in Thread : Writing(u)' => u # t /\ Writing(u) /\ at'[u] = at[u]
  BY <1>6 DEF Writing
<1>10. ASSUME NEW u \in Thread
       PROVE  JobFits(u)'
  <2>1. JobFits(u)
    BY DEF DownloadsInv
  <2>2. /\ at'[u] \in {"open", "create", "fetch", "count", "entry", "relist"} =>
              job'[u].name = FileName[job'[u].md5]
        /\ Writing(u)' => job'[u].md5 \in wrote'[job'[u].name]
    BY <1>3, <1>5, <1>6, <1>9, <2>1 DEF JobFits
  <2>3. job'[u].linked =>
           Writing(u)' /\ job'[u].name \in Name /\ part'[job'[u].name] # NoPart
    <3>1. job'[u].linked => job[u].name # n /\ job'[u] = job[u] /\ u # t
      BY <1>5
    <3>2. QED
      BY <1>6, <1>7, <2>1, <3>1 DEF JobFits, Writing
  <2>4. at'[u] = "entry" <=> at[u] = "entry"
    BY <1>6
  <2>5. /\ job'[u].got + Len(job'[u].missing)
              <= Chunks[job'[u].md5] + IF at'[u] = "entry" THEN 1 ELSE 0
        /\ Range(job'[u].missing) \subseteq 1..Chunks[job'[u].md5]
    BY <1>5, <2>1, <2>4 DEF JobFits
  <2>6. at'[u] \in {"count", "entry"} =>
           /\ job'[u].missing # <<>>
           /\ (~Mixed(job[u].name) => Good(job[u].name, job[u].missing[1], job[u].md5))'
    <3>1. PICK k : k = job[u].name
      OBVIOUS
    <3>2. PICK x : x = job[u].md5
      OBVIOUS
    <3>3. PICK q : q = job[u].missing
      OBVIOUS
    <3>4. at'[u] \in {"count", "entry"} => at'[u] = at[u]
      BY <1>6
    <3>5. at'[u] \in {"count", "entry"} => q # <<>> /\ (~Mixed(k) => Good(k, q[1], x))
      BY <2>1, <3>1, <3>2, <3>3, <3>4 DEF JobFits
    <3>6. at'[u] \in {"count", "entry"} => q # <<>> /\ (~Mixed(k) => Good(k, q[1], x))'
      BY <1>4, <3>5
    <3>7. k = job'[u].name /\ x = job'[u].md5 /\ q = job'[u].missing
      BY <1>5, <3>1, <3>2, <3>3
    <3>8. QED
      BY <3>6, <3>7
  <2>7. QED
    BY <2>2, <2>3, <2>5, <2>6 DEF JobFits
<1>11. ASSUME NEW k \in Name
       PROVE  PartFits(k)'
  <2>1. CASE k = n
    BY <1>7, <2>1 DEF PartFits
  <2>2. CASE k # n
    BY <1>3, <1>4, <1>7, <2>2 DEF PartFits, DownloadsInv
  <2>3. QED
    BY <2>1, <2>2
<1>12. ASSUME NEW k \in Name
       PROVE  Single(k)'
  <2>1. Single(k)
    BY DEF DownloadsInv
  <2>2. \A x : Straight(k, x)' <=> Straight(k, x)
    BY <1>3 DEF Straight
  <2>3. \A u \in Thread : Ahead(u) => Ahead(u)'
    <3>1. \A u \in Thread : job'[u].name = job[u].name /\ job'[u].md5 = job[u].md5
                            /\ job'[u].missing = job[u].missing
      BY <1>5
    <3>2. QED
      BY <1>3, <3>1 DEF Ahead, Good
  <2>4. QED
    BY <1>3, <1>5, <1>9, <2>1, <2>2, <2>3 DEF Single
<1>13. ASSUME NEW k \in Name
       PROVE  Alone(k)'
  <2>1. SUFFICES ASSUME k \notin overlapped'
                 PROVE  PartExact(k)' /\ \A u \in Thread : job'[u].name = k => JobExact(u, k)'
    BY DEF Alone
  <2>2. PartExact(k) /\ \A u \in Thread : job[u].name = k => JobExact(u, k)
    BY <1>3, <2>1 DEF DownloadsInv, Alone
  <2>3. CASE k = n
    <3>1. PartExact(k)'
      BY <1>7, <2>3 DEF PartExact
    <3>2. \A u \in Thread \ {t} : job[u].name = n => ~Writing(u)
      BY <1>1, <2>2, <2>3 DEF JobExact
    <3>3. ASSUME NEW u \in Thread, job'[u].name = k
          PROVE  JobExact(u, k)'
      <4>1. ~Writing(u)'
        BY <1>5, <1>9, <2>3, <3>2, <3>3
      <4>2. QED
        BY <1>7, <2>3, <4>1 DEF JobExact
    <3>4. QED
      BY <3>1, <3>3
  <2>4. CASE k # n
    <3>1. PartExact(k)'
      BY <1>7, <2>2, <2>4 DEF PartExact
    <3>2. ASSUME NEW u \in Thread, job'[u].name = k
          PROVE  JobExact(u, k)'
      <4>1. u # t /\ job'[u] = job[u] /\ at'[u] = at[u] /\ part'[k] = part[k]
        BY <1>5, <1>6, <1>7, <2>4, <3>2
      <4>2. \A v \in Thread : job'[v].name = k => job[v].name = k /\ at'[v] = at[v]
        BY <1>5, <1>6, <2>4
      <4>3. JobExact(u, k)
        BY <2>2, <3>2, <4>1
      <4>4. QED
        BY ONLY u \in Thread, <4>1, <4>2, <4>3, JobExactKept
    <3>3. QED
      BY <3>1, <3>2
  <2>5. QED
    BY <2>3, <2>4
<1>14. QED
  BY <1>8, <1>10, <1>11, <1>12, <1>13 DEF DownloadsInv

\* download ends.
LEMMA EndDownloadKeeps ==
    ASSUME DownloadsInv, NEW t \in Thread, EndDownload(t)
    PROVE  DownloadsInv'
<1>1. PICK n : n = job[t].name
  OBVIOUS
<1>2. /\ at[t] = "fetch" /\ job[t].missing = <<>>
      /\ UNCHANGED <<downloads, out, history>> /\ UnchangedList
      /\ Unlink(t, n) \/ (Finish(t) /\ UNCHANGED part)
  BY <1>1 DEF EndDownload
<1>3. downloads \in Seq(Lines)
  BY DEF DownloadsInv, DownloadsTyped
<1>4. CASE Unlink(t, n)
  BY <1>1, <1>2, <1>4, UnlinkKeeps
<1>5. CASE Finish(t) /\ UNCHANGED part
  BY <1>2, <1>3, <1>5, FinishKeeps
<1>6. QED
  BY <1>2, <1>4, <1>5

\* A step fails before the part is opened.
LEMMA FailKeeps ==
    ASSUME DownloadsInv, NEW t \in Thread, Fail(t)
    PROVE  DownloadsInv'
<1>1. downloads \in Seq(Lines)
  BY DEF DownloadsInv, DownloadsTyped
<1>2. QED
  BY <1>1, FinishKeeps DEF Fail, disk

\* The process ends and starts again.
LEMMA CrashKeeps ==
    ASSUME DownloadsInv, Crash
    PROVE  DownloadsInv'
<1>1. /\ at' = [t \in Thread |-> "idle"] /\ job' = [t \in Thread |-> NoJob]
      /\ download_list' = <<>> /\ spinning' = FALSE
      /\ crashes < MaxCrashes /\ crashes' = crashes + 1
      /\ UNCHANGED <<part, out, gets, history>>
  BY DEF Crash
<1>2. UNCHANGED <<wrote, overlapped>>
  BY <1>1 DEF history
<1>3. downloads' \in Seq(Lines)
  <2>1. downloads \in Seq(Lines) /\ \A t \in Thread : TornLine(job[t].md5) \in Lines
    BY DEF DownloadsInv, DownloadsTyped, Job, Lines
  <2>2. \A t \in Thread : Append(downloads, TornLine(job[t].md5)) \in Seq(Lines)
    BY <2>1
  <2>3. <<>> \in Seq(Lines)
    OBVIOUS
  <2>4. QED
    BY <2>1, <2>2, <2>3 DEF Crash
<1>4. \A t \in Thread : at'[t] = "idle" /\ job'[t] = NoJob /\ ~Writing(t)'
  BY <1>1 DEF Writing
<1>5. DownloadsTyped'
  <2>1. download_list' \in Seq(Md5) /\ Len(download_list') = 0
    BY <1>1
  <2>2. at' \in [Thread -> Stage] /\ job' \in [Thread -> Job]
    BY <1>1, NoJobTyped DEF Stage
  <2>3. crashes' \in 0..MaxCrashes /\ gets \in 0..MaxGets
    BY <1>1, DownloadsAssumption DEF DownloadsInv, DownloadsTyped, DownloadsAssumption
  <2>4. UNCHANGED <<part, out, gets>> /\ spinning' \in BOOLEAN
    BY <1>1
  <2>5. Len(download_list') <= gets'
    BY <2>1, <2>3, <2>4
  <2>6. QED
    BY <1>2, <1>3, <2>1, <2>2, <2>3, <2>4, <2>5 DEF DownloadsInv, DownloadsTyped
<1>6. (\A t \in Thread : JobFits(t))'
  BY <1>4, NoJobTyped, EmptyJobFits DEF Stage
<1>7. (\A n \in Name : PartFits(n))'
  BY <1>1, <1>2 DEF DownloadsInv, PartFits, Mixed, Good
<1>8. (\A n \in Name : Single(n))'
  BY <1>1, <1>2, <1>4 DEF DownloadsInv, Single, Straight
<1>9. (\A n \in Name : Alone(n))'
  BY <1>1, <1>2, <1>4 DEF DownloadsInv, Alone, PartExact, JobExact
<1>10. QED
  BY <1>5, <1>6, <1>7, <1>8, <1>9 DEF DownloadsInv

-----------------------------------------------------------------------------
(* Theorems *)

LEMMA DownloadsStart == DownloadsInit => DownloadsInv
<1> SUFFICES ASSUME DownloadsInit
             PROVE  DownloadsInv
  OBVIOUS
<1>1. DownloadsTyped
  <2>1. IsFiniteSet({})
    BY FS_EmptySet
  <2>2. <<>> \in Seq(Md5) /\ <<>> \in Seq(Lines) /\ <<>> \in Seq(Content) /\ Len(<<>>) = 0
    OBVIOUS
  <2>3. 0 \in 0..MaxGets /\ 0 \in 0..MaxCrashes /\ 0 <= 0
    BY DownloadsAssumption DEF DownloadsAssumption
  <2>4. QED
    BY <2>1, <2>2, <2>3, NoJobTyped DEF DownloadsInit, DownloadsTyped, Stage
<1>2. \A t \in Thread : at[t] = "idle" /\ job[t] = NoJob /\ ~Writing(t)
  BY DEF DownloadsInit, Writing
<1>3. ASSUME NEW t \in Thread
      PROVE  JobFits(t)
  <2>1. /\ job[t].md5 \in Md5 /\ job[t].missing = <<>> /\ job[t].got = 0
        /\ ~job[t].linked /\ at[t] = "idle" /\ ~Writing(t)
    BY <1>2, NoJobTyped
  <2>2. Chunks[job[t].md5] \in Nat
    BY <2>1, DownloadsAssumption DEF DownloadsAssumption
  <2>3. Len(job[t].missing) = 0 /\ Range(job[t].missing) = {}
    BY <2>1 DEF Range
  <2>4. QED
    BY <2>1, <2>2, <2>3 DEF JobFits
<1>4. \A n \in Name : PartFits(n)
  BY DEF DownloadsInit, PartFits
<1>5. \A n \in Name : Single(n)
  <2>1. \A m \in Md5 : Chunks[m] \in Nat
    BY DownloadsAssumption DEF DownloadsAssumption
  <2>2. \A n \in Name : Len(out[n]) = 0 /\ DOMAIN out[n] = {}
    BY DEF DownloadsInit
  <2>3. QED
    BY <1>2, <2>1, <2>2 DEF Single, Straight
<1>6. \A n \in Name : Alone(n)
  BY <1>2 DEF DownloadsInit, Alone, PartExact, JobExact
<1>7. QED
  BY <1>1, <1>3, <1>4, <1>5, <1>6 DEF DownloadsInv

LEMMA DownloadsStep == DownloadsInv /\ [DownloadsNext]_dvars => DownloadsInv'
<1> SUFFICES ASSUME DownloadsInv, [DownloadsNext]_dvars
             PROVE  DownloadsInv'
  OBVIOUS
<1>1. ASSUME NEW m \in Md5, Get(m)
      PROVE  DownloadsInv'
  BY <1>1, GetKeeps
<1>2. ASSUME NEW t \in Thread, Downloader(t)
      PROVE  DownloadsInv'
  <2>1. CASE GetDownload(t)
    BY <2>1, GetDownloadKeeps
  <2>2. CASE SpinOnList(t)
    BY <2>2, SpinKeeps
  <2>3. CASE Connect(t)
    BY <2>3, ConnectKeeps
  <2>4. CASE Fail(t)
    BY <2>4, FailKeeps
  <2>5. CASE GetFilepartName(t)
    BY <2>5, GetFilepartNameKeeps
  <2>6. CASE OpenFilePartAbsent(t)
    BY <2>6, OpenAbsentKeeps
  <2>7. CASE CreateFilePart(t)
    BY <2>7, CreateKeeps
  <2>8. CASE LoadFilePart(t)
    BY <2>8, LoadKeeps
  <2>9. CASE GetChunk(t)
    BY <2>9, GetChunkKeeps
  <2>10. CASE BreakOff(t)
    BY <2>10, BreakOffKeeps
  <2>11. CASE WriteCount(t)
    BY <2>11, WriteCountKeeps
  <2>12. CASE WriteEntry(t)
    BY <2>12, WriteEntryKeeps
  <2>13. CASE EndDownload(t)
    BY <2>13, EndDownloadKeeps
  <2>14. CASE RemoveLine(t)
    BY <2>14, RemoveLineKeeps
  <2>15. QED
    BY <1>2, <2>1, <2>2, <2>3, <2>4, <2>5, <2>6, <2>7, <2>8, <2>9, <2>10, <2>11, <2>12,
       <2>13, <2>14 DEF Downloader
<1>3. CASE Crash
  BY <1>3, CrashKeeps
<1>4. CASE UNCHANGED dvars
  <2>1. DownloadsTyped'
    BY <1>4 DEF DownloadsInv, DownloadsTyped, dvars, disk, history
  <2>2. QED
    BY <1>4, <2>1, ListStep DEF dvars, disk
<1>5. QED
  BY <1>1, <1>2, <1>3, <1>4 DEF DownloadsNext

\* The inductive invariant holds of every run.
THEOREM DownloadsInvariant == DownloadsSpec => []DownloadsInv
BY DownloadsStart, DownloadsStep, PTL DEF DownloadsSpec

\* Every variable of the downloads has its type, and no part counts more
\* chunks than its file has.
THEOREM DownloadsTypeCorrect == DownloadsSpec => []TypeOK
<1>1. ASSUME DownloadsInv
      PROVE  TypeOK
  <2> USE <1>1
  <2>1. /\ Len(download_list) <= MaxGets /\ Range(download_list) \subseteq Md5
    <3>1. download_list \in Seq(Md5) /\ Len(download_list) <= gets /\ gets \in 0..MaxGets
      BY DEF DownloadsInv, DownloadsTyped
    <3>2. MaxGets \in Nat
      BY DownloadsAssumption DEF DownloadsAssumption
    <3>3. QED
      BY ONLY <3>1, <3>2 DEF Range
  <2>2. ASSUME NEW t \in Thread
        PROVE  /\ at[t] \in {"idle", "spin", "connect", "name", "open", "create"}
                     \cup {"fetch", "count", "entry", "relist"}
               /\ job[t].md5 \in Md5 /\ job[t].name \in Name \cup {""}
               /\ job[t].got + Len(job[t].missing) <= Chunks[job[t].md5] + 1
    <3>1. at[t] \in Stage /\ job[t] \in Job /\ JobFits(t)
      BY DEF DownloadsInv, DownloadsTyped
    <3>2. /\ job[t].md5 \in Md5 /\ job[t].name \in Name \cup {""} /\ job[t].got \in Nat
          /\ job[t].missing \in Seq(Nat) /\ Chunks[job[t].md5] \in Nat
      <4>1. /\ job[t].md5 \in Md5 /\ job[t].name \in Name \cup {""} /\ job[t].got \in Nat
            /\ job[t].missing \in Seq(Nat)
        BY ONLY <3>1 DEF Job
      <4>2. Chunks[job[t].md5] \in Nat
        BY <4>1, DownloadsAssumption DEF DownloadsAssumption
      <4>3. QED
        BY <4>1, <4>2
    <3>3. Len(job[t].missing) \in Nat
      <4>1. \A q \in Seq(Nat) : Len(q) \in Nat
        OBVIOUS
      <4>2. QED
        BY ONLY <3>2, <4>1, Zenon
    <3>4. job[t].got + Len(job[t].missing) <= Chunks[job[t].md5] + 1
      <4>1. job[t].got + Len(job[t].missing)
               <= Chunks[job[t].md5] + IF at[t] = "entry" THEN 1 ELSE 0
        BY ONLY <3>1 DEF JobFits
      <4>2. \A g, l, N \in Nat : \A e \in {0, 1} : g + l <= N + e => g + l <= N + 1
        OBVIOUS
      <4>3. (IF at[t] = "entry" THEN 1 ELSE 0) \in {0, 1}
        OBVIOUS
      <4>4. QED
        BY ONLY <3>2, <3>3, <4>1, <4>2, <4>3, Zenon
    <3>5. QED
      BY <3>1, <3>2, <3>4 DEF Stage
  <2>3. Range(downloads) \subseteq {Line(m) : m \in Md5} \cup {TornLine(m) : m \in Md5}
    <3>1. downloads \in Seq(Lines)
      BY DEF DownloadsInv, DownloadsTyped
    <3>2. Range(downloads) \subseteq Lines
      BY ONLY <3>1 DEF Range
    <3>3. QED
      BY <3>2 DEF Lines
  <2>4. ASSUME NEW n \in Name
        PROVE  /\ Range(out[n]) \subseteq Content
               /\ part[n] # NoPart => part[n].count \in 0..Chunks[part[n].md5]
    <3>1. out[n] \in Seq(Content) /\ PartFits(n) /\ part[n] \in {NoPart} \cup PartFile
      BY DEF DownloadsInv, DownloadsTyped
    <3>2. Range(out[n]) \subseteq Content
      BY ONLY <3>1 DEF Range
    <3>3. QED
      BY <3>1, <3>2, DownloadsAssumption DEF PartFits, PartFile, DownloadsAssumption
  <2>5. QED
    BY <2>1, <2>2, <2>3, <2>4 DEF TypeOK, DownloadsInv, DownloadsTyped
<1>2. QED
  BY <1>1, DownloadsInvariant, PTL

\* What a part file has down is in the file, whatever the pool, the files and
\* the bounds, and wherever the process ended, unless two threads wrote two
\* files of its name at a time.
THEOREM PartIsTruthful == DownloadsSpec => []PartTruthful
<1>1. ASSUME DownloadsInv
      PROVE  PartTruthful
  <2>1. \A n \in Name : PartFits(n) /\ out[n] \in Seq(Content)
    BY <1>1 DEF DownloadsInv, DownloadsTyped
  <2>2. ASSUME NEW n \in Name, NEW c, NEW m, Good(n, c, m)
        PROVE  c <= Len(out[n]) /\ out[n][c] = m
    BY <2>1, <2>2 DEF Good
  <2>3. ASSUME NEW n \in Name, part[n] # NoPart, ~Mixed(n),
               NEW c \in Range(part[n].entries)
        PROVE  c <= Len(out[n]) /\ out[n][c] = part[n].md5
    <3>1. PICK m : m = part[n].md5
      OBVIOUS
    <3>2. Good(n, c, m)
      BY <2>1, <2>3, <3>1 DEF PartFits
    <3>3. QED
      BY <2>2, <3>1, <3>2
  <2>4. QED
    BY <2>3 DEF PartTruthful
<1>2. QED
  BY <1>1, DownloadsInvariant, PTL

\* Who comes to take the line of a file out found it complete.
LEMMA CompleteBefore ==
    ASSUME DownloadsInv, DownloadsNext, NEW t \in Thread, at[t] # "relist", at'[t] = "relist"
    PROVE  at[t] = "fetch" /\ job[t].missing = <<>> /\ Complete(t)
<1>1. at \in [Thread -> Stage]
  BY DEF DownloadsInv, DownloadsTyped
<1>2. ~Crash
  BY DEF Crash
<1>3. \A m \in Md5 : ~Get(m)
  BY DEF Get
<1>4. PICK u \in Thread : Downloader(u)
  BY <1>2, <1>3 DEF DownloadsNext
<1>5. \A where : at' = [at EXCEPT ![u] = where] => u = t /\ where = "relist"
  BY <1>1
<1>6. EndDownload(u) /\ ~Finish(u)
  BY <1>4, <1>5
     DEF Downloader, GetDownload, SpinOnList, Connect, Fail, GetFilepartName,
         OpenFilePartAbsent, CreateFilePart, LoadFilePart, Begin, GetChunk, BreakOff,
         WriteCount, WriteEntry, EndDownload, RemoveLine, Finish, GoTo
<1>7. u = t
  BY <1>5, <1>6 DEF EndDownload, Unlink, GoTo
<1>8. QED
  BY <1>6, <1>7 DEF EndDownload

\* A download that is completed has all its chunks, although several threads
\* may write one file and count its chunks over each other; two files of one
\* name that were written at a time are left out.
THEOREM CompletedHasAll == DownloadsSpec => CompleteMeansAll
<1>1. ASSUME DownloadsInv, DownloadsNext, NEW t \in Thread,
             at[t] # "relist", at'[t] = "relist", ~Mixed(job[t].name)
      PROVE  out[job[t].name] = [i \in 1..Chunks[job[t].md5] |-> job[t].md5]
  <2> USE <1>1
  <2>1. PICK n : n = job[t].name
    OBVIOUS
  <2>2. PICK m : m = job[t].md5
    OBVIOUS
  <2>3. at[t] = "fetch" /\ job[t].missing = <<>> /\ Writing(t) /\ Len(out[n]) = Chunks[m]
    BY <2>1, <2>2, CompleteBefore DEF Complete, Writing
  <2>4. /\ m \in Md5 /\ n \in Name /\ FileName[m] = n /\ m \in wrote[n]
        /\ Chunks[m] \in Nat \ {0}
    BY <2>1, <2>2, <2>3, AtWork
  <2>5. /\ out[n] \in Seq(Content) /\ IsFiniteSet(wrote[n])
        /\ PartFits(n) /\ Single(n) /\ Alone(n)
    BY <2>4 DEF DownloadsInv, DownloadsTyped
  <2>6. DOMAIN out[n] = 1..Chunks[m]
    BY <2>3, <2>5
  <2>7. \A c \in 1..Chunks[m] : out[n][c] = m
    <3>1. CASE n \in overlapped
      <4>1. wrote[n] \subseteq {m}
        BY <2>1, <2>4, <2>5, <3>1, OneWritten
      <4>2. Straight(n, m)
        BY <2>4, <2>5, <4>1 DEF Single
      <4>3. QED
        BY <2>3, <2>4, <2>6, <4>2 DEF Straight
    <3>2. CASE n \notin overlapped
      <4>1. /\ part[n].md5 = m /\ part[n] # NoPart
            /\ Range(<<>>) = (1..Chunks[m]) \ Range(part[n].entries)
        BY <2>1, <2>2, <2>3, <2>5, <3>2 DEF Alone, JobExact, DownloadsInv, JobFits
      <4>2. Range(<<>>) = {}
        BY DEF Range
      <4>3. \A c \in 1..Chunks[m] : Good(n, c, m)
        BY <2>1, <2>5, <4>1, <4>2 DEF PartFits
      <4>4. QED
        BY <4>3 DEF Good
    <3>3. QED
      BY <3>1, <3>2
  <2>8. out[n] = [i \in 1..Chunks[m] |-> m]
    <3>1. out[n] = [i \in DOMAIN out[n] |-> out[n][i]]
      BY ONLY <2>5
    <3>2. QED
      BY ONLY <2>6, <2>7, <3>1
  <2>9. QED
    BY <2>1, <2>2, <2>8
<1>2. ASSUME DownloadsInv, [DownloadsNext]_dvars
      PROVE  [\A t \in Thread :
                 at[t] # "relist" /\ at'[t] = "relist" /\ ~Mixed(job[t].name) =>
                     out[job[t].name] = [i \in 1..Chunks[job[t].md5] |-> job[t].md5]]_dvars
  BY <1>1, <1>2
<1>3. QED
  BY <1>2, DownloadsInvariant, PTL DEF DownloadsSpec, CompleteMeansAll
=============================================================================
