---------------------------- MODULE SendingProofs ----------------------------
(***************************************************************************)
(* What a client sends again and again until it is acknowledged.           *)
(*                                                                         *)
(* The retransmission engine bounds its effort, spaces it out and gives up *)
(* for good, for every MAX_RETX, any number of packets and any indexes.    *)
(*                                                                         *)
(* The difference of listing and folder is right, and the packets that     *)
(* carry it keep the index of the superpeer exact, for any directories,    *)
(* files and changes, any size of packets and whatever becomes of them.    *)
(***************************************************************************)
EXTENDS Retx, Share, ListLemmas

-----------------------------------------------------------------------------
(* The retransmission engine *)

\* What holds of a packet with a node: its counters count what happened, and
\* until it is given up its countdown completes the delay since the last try.
NodeOK(p) ==
    /\ p \in 1..made
    /\ nretx[p] = sends[p] /\ errors[p] = fails[p]
    /\ sends[p] >= 1
    /\ countdown[p] = -1 => p \in reported
    /\ countdown[p] # -1 => p \notin reported /\ countdown[p] + quiet[p] = nretx[p]

\* Packets that were not sent yet have no past.
FreshOK(p) == p > made => p \notin reported /\ sends[p] = 0 /\ fails[p] = 0

\* The inductive invariant.
IInv ==
    /\ TypeOK
    /\ EffortBounded
    /\ ReportJustified
    /\ pipe \subseteq reported
    /\ \A p \in packet_list : NodeOK(p)
    /\ \A p \in Packet : FreshOK(p)

\* The values the fields of a packet_node are reset to.
LEMMA SmallCounts == /\ 0 \in 0..MaxRetx /\ 1 \in 0..MaxRetx
                     /\ 0 \in -1..MaxRetx /\ 1 \in -1..MaxRetx
BY RetxAssumption DEF RetxAssumption

\* Setting one value of a function keeps its type.
LEMMA ExceptTyped ==
    ASSUME NEW S, NEW T, NEW f \in [S -> T], NEW p, NEW v \in T
    PROVE  [f EXCEPT ![p] = v] \in [S -> T]
OBVIOUS

LEMMA InitIInv == Init => IInv
<1> SUFFICES ASSUME Init PROVE IInv
  OBVIOUS
<1> USE RetxAssumption DEF RetxAssumption
<1>1. (CHOOSE x \in Index : TRUE) \in Index
  OBVIOUS
<1>2. index \in [Packet -> Index] /\ leaked \in BOOLEAN
  BY <1>1 DEF Init
<1>3. nretx \in [Packet -> 0..MaxRetx] /\ errors \in [Packet -> 0..MaxRetx]
  BY DEF Init
<1>4. countdown \in [Packet -> -1..MaxRetx]
  BY DEF Init
<1>5. TypeOK
  BY <1>2, <1>3, <1>4 DEF Init, TypeOK
<1>6. QED
  BY <1>5 DEF Init, IInv, EffortBounded, ReportJustified, FreshOK

LEMMA RetxSendPreserves ==
    ASSUME IInv, NEW x \in Index, RetxSend(x)
    PROVE  IInv'
<1> DEFINE p == made + 1
<1>1. p \in Packet /\ p \notin packet_list /\ p \notin reported /\ sends[p] = 0 /\ fails[p] = 0
  BY RetxAssumption DEF RetxAssumption, RetxSend, IInv, TypeOK, NodeOK, FreshOK, Packet
<1>2. TypeOK'
  <2> USE RetxAssumption DEF RetxAssumption
  <2>1. /\ made' \in 0..MaxPackets /\ packet_list' \in SUBSET Packet
        /\ index' \in [Packet -> Index]
    <3>1. index \in [Packet -> Index]
      BY DEF IInv, TypeOK
    <3>2. index' \in [Packet -> Index]
      BY ONLY <3>1, ExceptTyped, x \in Index, RetxSend(x), Zenon DEF RetxSend
    <3>3. made' \in 0..MaxPackets
      BY DEF RetxSend, IInv, TypeOK
    <3>4. packet_list' \in SUBSET Packet
      BY <1>1 DEF RetxSend, IInv, TypeOK
    <3>5. QED
      BY <3>2, <3>3, <3>4
  <2>2. nretx' \in [Packet -> 0..MaxRetx] /\ errors' \in [Packet -> 0..MaxRetx]
    <3>1. nretx \in [Packet -> 0..MaxRetx] /\ errors \in [Packet -> 0..MaxRetx]
      BY DEF IInv, TypeOK
    <3>2. [nretx EXCEPT ![p] = 1] \in [Packet -> 0..MaxRetx]
      BY ONLY <3>1, SmallCounts, ExceptTyped, Zenon
    <3>3. [errors EXCEPT ![p] = 0] \in [Packet -> 0..MaxRetx]
      BY ONLY <3>1, SmallCounts, ExceptTyped, Zenon
    <3>4. QED
      BY ONLY <3>2, <3>3, RetxSend(x), Zenon DEF RetxSend
  <2>3. countdown' \in [Packet -> -1..MaxRetx]
    <3>1. countdown \in [Packet -> -1..MaxRetx]
      BY DEF IInv, TypeOK
    <3>2. [countdown EXCEPT ![p] = 1] \in [Packet -> -1..MaxRetx]
      BY ONLY <3>1, SmallCounts, ExceptTyped, Zenon
    <3>3. QED
      BY ONLY <3>2, RetxSend(x), Zenon DEF RetxSend
  <2>4. sends' \in [Packet -> Nat] /\ quiet' \in [Packet -> Nat]
    BY <1>1 DEF RetxSend, IInv, TypeOK
  <2>5. QED
    BY <2>1, <2>2, <2>3, <2>4 DEF RetxSend, IInv, TypeOK
<1>3. EffortBounded'
  BY <1>1, RetxAssumption DEF RetxAssumption, RetxSend, IInv, TypeOK, EffortBounded
<1>4. ReportJustified' /\ (pipe \subseteq reported)'
  BY <1>1 DEF RetxSend, IInv, TypeOK, ReportJustified
<1>5. ASSUME NEW q \in packet_list' PROVE NodeOK(q)'
  <2>1. CASE q = p
    BY <1>1, <2>1 DEF RetxSend, IInv, TypeOK, NodeOK, Packet
  <2>2. CASE q # p
    <3>1. q \in packet_list /\ q \in Packet /\ NodeOK(q)
      BY <1>5, <2>2 DEF RetxSend, IInv, TypeOK
    <3>2. QED
      BY <2>2, <3>1 DEF RetxSend, IInv, TypeOK, NodeOK, Packet
  <2>3. QED
    BY <2>1, <2>2
<1>6. ASSUME NEW q \in Packet PROVE FreshOK(q)'
  BY <1>1, <1>6 DEF RetxSend, IInv, TypeOK, FreshOK, Packet
<1>7. QED
  BY <1>2, <1>3, <1>4, <1>5, <1>6 DEF IInv

LEMMA RetxStopPreserves ==
    ASSUME IInv, NEW x \in Index, RetxStop(x)
    PROVE  IInv'
<1> DEFINE p == GetPacketNode(x)
<1>1. /\ packet_list' = packet_list \ {p}
      /\ nretx' = [nretx EXCEPT ![p] = 0]
      /\ countdown' = [countdown EXCEPT ![p] = 0]
      /\ errors' = [errors EXCEPT ![p] = 0]
      /\ quiet' = [quiet EXCEPT ![p] = 0]
      /\ UNCHANGED <<made, index, pipe, leaked, sends, fails, reported>>
  BY DEF RetxStop
<1> HIDE DEF p
<1>2. TypeOK'
  <2> USE RetxAssumption DEF RetxAssumption
  <2>0. /\ nretx \in [Packet -> 0..MaxRetx] /\ errors \in [Packet -> 0..MaxRetx]
        /\ countdown \in [Packet -> -1..MaxRetx] /\ quiet \in [Packet -> Nat]
    BY DEF IInv, TypeOK
  <2>1. nretx' \in [Packet -> 0..MaxRetx] /\ errors' \in [Packet -> 0..MaxRetx]
    BY ONLY <1>1, <2>0, SmallCounts, ExceptTyped, Zenon
  <2>2. countdown' \in [Packet -> -1..MaxRetx] /\ quiet' \in [Packet -> Nat]
    <3>1. 0 \in Nat
      OBVIOUS
    <3>2. QED
      BY ONLY <1>1, <2>0, <3>1, SmallCounts, ExceptTyped, Zenon
  <2>3. QED
    BY <1>1, <2>1, <2>2 DEF IInv, TypeOK
<1>3. EffortBounded' /\ ReportJustified' /\ (pipe \subseteq reported)'
  BY <1>1 DEF IInv, EffortBounded, ReportJustified
<1>4. ASSUME NEW q \in packet_list' PROVE NodeOK(q)'
  <2>1. q \in packet_list /\ q # p /\ q \in Packet /\ NodeOK(q)
    BY <1>1, <1>4 DEF IInv, TypeOK
  <2>2. QED
    BY <1>1, <2>1 DEF IInv, TypeOK, NodeOK
<1>5. \A q \in Packet : FreshOK(q)'
  BY <1>1 DEF IInv, FreshOK
<1>6. QED
  BY <1>2, <1>3, <1>4, <1>5 DEF IInv

LEMMA PassPreserves ==
    ASSUME IInv, Pass
    PROVE  IInv'
<1> USE RetxAssumption DEF RetxAssumption
<1>1. PICK ok \in SUBSET Due :
        /\ nretx' = [p \in Packet |-> IF p \in ok THEN nretx[p] + 1 ELSE nretx[p]]
        /\ errors' = [p \in Packet |-> IF p \in Due \ ok THEN errors[p] + 1 ELSE errors[p]]
        /\ countdown' = [p \in Packet |-> NextCountdown(p, ok)]
        /\ sends' = [p \in Packet |-> IF p \in ok THEN sends[p] + 1 ELSE sends[p]]
        /\ fails' = [p \in Packet |-> IF p \in Due \ ok THEN fails[p] + 1 ELSE fails[p]]
  BY DEF Pass
<1>2. /\ quiet' = [p \in Packet |->
                   CASE p \in Due                                 -> 0
                     [] p \in packet_list \ Due /\ countdown[p] > 0 -> quiet[p] + 1
                     [] OTHER                                     -> quiet[p]]
      /\ pipe' = pipe \cup Exhausted
      /\ reported' = reported \cup Exhausted
      /\ UNCHANGED <<made, packet_list, index, leaked>>
  BY DEF Pass
<1>3. /\ packet_list \subseteq Packet
      /\ Due \subseteq Expired /\ Exhausted \subseteq Expired
      /\ Expired \subseteq packet_list
      /\ Due \cap Exhausted = {}
  BY DEF IInv, TypeOK, Due, Expired, Exhausted
<1>4. ASSUME NEW p \in Due
      PROVE  nretx[p] < MaxRetx /\ errors[p] < MaxRetx /\ countdown[p] = 0
  BY <1>3 DEF IInv, TypeOK, Due, Expired, Exhausted
<1>5. ASSUME NEW p \in Packet
      PROVE  NextCountdown(p, ok) \in -1..MaxRetx
  BY <1>3, <1>4 DEF IInv, TypeOK, NextCountdown
<1>6. TypeOK'
  <2>1. nretx' \in [Packet -> 0..MaxRetx] /\ errors' \in [Packet -> 0..MaxRetx]
    BY <1>1, <1>3, <1>4 DEF IInv, TypeOK
  <2>2. countdown' \in [Packet -> -1..MaxRetx]
    BY <1>1, <1>5
  <2>3. sends' \in [Packet -> Nat] /\ fails' \in [Packet -> Nat]
    BY <1>1 DEF IInv, TypeOK
  <2>4. quiet' \in [Packet -> Nat]
    BY <1>2 DEF IInv, TypeOK
  <2>5. QED
    BY <1>2, <1>3, <2>1, <2>2, <2>3, <2>4 DEF IInv, TypeOK
<1>7. ASSUME NEW p \in Packet
      PROVE  sends'[p] <= MaxRetx /\ sends'[p] + fails'[p] < 2 * MaxRetx
  <2>1. CASE p \in Due
    <3>1. sends[p] < MaxRetx /\ fails[p] < MaxRetx
      BY <1>3, <1>4, <2>1 DEF IInv, NodeOK
    <3>2. QED
      BY <1>1, <2>1, <3>1 DEF IInv, TypeOK
  <2>2. CASE p \notin Due
    BY <1>1, <2>2 DEF IInv, EffortBounded
  <2>3. QED
    BY <2>1, <2>2
<1>8. ASSUME NEW p \in reported'
      PROVE  sends'[p] = MaxRetx \/ fails'[p] = MaxRetx
  <2>1. p \notin Due
    <3>1. CASE p \in Exhausted
      BY <1>3, <3>1
    <3>2. CASE p \in reported
      BY <1>3, <1>4, <3>2 DEF IInv, NodeOK
    <3>3. QED
      BY <1>2, <1>8, <3>1, <3>2
  <2>2. p \in Packet
    BY <1>2, <1>3, <1>8 DEF IInv, TypeOK
  <2>3. sends'[p] = sends[p] /\ fails'[p] = fails[p]
    BY <1>1, <2>1, <2>2
  <2>4. sends[p] = MaxRetx \/ fails[p] = MaxRetx
    <3>1. CASE p \in Exhausted
      BY <1>3, <3>1 DEF Exhausted, IInv, NodeOK
    <3>2. CASE p \in reported
      BY <3>2 DEF IInv, ReportJustified
    <3>3. QED
      BY <1>2, <1>8, <3>1, <3>2
  <2>5. QED
    BY <2>3, <2>4
<1>9. (pipe \subseteq reported)'
  BY <1>2 DEF IInv
<1>10. ASSUME NEW p \in packet_list' PROVE NodeOK(p)'
  <2>1. p \in packet_list /\ p \in Packet /\ NodeOK(p)
    BY <1>2, <1>3, <1>10 DEF IInv
  <2>2. /\ nretx[p] \in 0..MaxRetx /\ errors[p] \in 0..MaxRetx
        /\ countdown[p] \in -1..MaxRetx /\ quiet[p] \in Nat
        /\ sends[p] \in Nat /\ fails[p] \in Nat /\ made \in Nat
    BY <2>1 DEF IInv, TypeOK
  <2>3. CASE p \in Exhausted
    <3>1. p \notin Due /\ countdown'[p] = -1 /\ p \in reported'
      BY <1>1, <1>2, <1>3, <2>1, <2>3 DEF NextCountdown
    <3>2. QED
      BY <1>1, <1>2, <2>1, <2>2, <3>1 DEF NodeOK
  <2>4. CASE p \in ok
    <3>1. /\ p \in Due /\ p \notin Exhausted /\ countdown[p] = 0
          /\ countdown'[p] = nretx[p] + 1 /\ quiet'[p] = 0
          /\ nretx'[p] = nretx[p] + 1
      BY <1>1, <1>2, <1>3, <1>4, <2>1, <2>4 DEF NextCountdown
    <3>2. QED
      BY <1>1, <1>2, <2>1, <2>2, <2>4, <3>1 DEF NodeOK
  <2>5. CASE p \in Due \ ok
    <3>1. /\ p \notin Exhausted /\ countdown[p] = 0
          /\ countdown'[p] = nretx[p] /\ quiet'[p] = 0 /\ nretx'[p] = nretx[p]
      BY <1>1, <1>2, <1>3, <1>4, <2>1, <2>5 DEF NextCountdown
    <3>2. QED
      BY <1>1, <1>2, <2>1, <2>2, <2>5, <3>1 DEF NodeOK
  <2>6. CASE p \notin Expired
    <3>1. p \notin Exhausted /\ p \notin Due /\ p \notin ok /\ countdown[p] # 0
      BY <1>1, <1>3, <2>1, <2>6 DEF Expired
    <3>2. CASE countdown[p] > 0
      <4>1. countdown'[p] = countdown[p] - 1 /\ quiet'[p] = quiet[p] + 1
        BY <1>1, <1>2, <2>1, <2>6, <3>1, <3>2 DEF NextCountdown
      <4>2. QED
        BY <1>1, <1>2, <2>1, <2>2, <3>1, <3>2, <4>1 DEF NodeOK
    <3>3. CASE countdown[p] = -1
      <4>1. countdown'[p] = -1
        BY <1>1, <2>1, <3>1, <3>3 DEF NextCountdown
      <4>2. QED
        BY <1>1, <1>2, <2>1, <2>2, <3>1, <3>3, <4>1 DEF NodeOK
    <3>4. QED
      BY <2>2, <3>1, <3>2, <3>3
  <2>7. QED
    BY <2>3, <2>4, <2>5, <2>6 DEF Due
<1>11. ASSUME NEW p \in Packet PROVE FreshOK(p)'
  <2>1. CASE p > made
    <3>1. p \notin packet_list
      BY <2>1 DEF IInv, TypeOK, NodeOK
    <3>2. QED
      BY <1>1, <1>2, <1>3, <2>1, <3>1 DEF IInv, FreshOK
  <2>2. CASE ~(p > made)
    BY <1>2, <2>2 DEF FreshOK
  <2>3. QED
    BY <2>1, <2>2
<1>12. QED
  BY <1>6, <1>7, <1>8, <1>9, <1>10, <1>11 DEF IInv, EffortBounded, ReportJustified

LEMMA NextPreserves == IInv /\ [Next]_vars => IInv'
<1> SUFFICES ASSUME IInv, [Next]_vars PROVE IInv'
  OBVIOUS
<1>1. CASE \E x \in Index : RetxSend(x)
  BY <1>1, RetxSendPreserves
<1>2. CASE \E x \in Index : RetxStop(x)
  BY <1>2, RetxStopPreserves
<1>3. CASE RetxSendFails
  BY <1>3 DEF RetxSendFails, node_vars, history, IInv, TypeOK, EffortBounded,
              ReportJustified, NodeOK, FreshOK
<1>4. CASE \E p \in Packet : ReadErr(p)
  BY <1>4 DEF ReadErr, node_vars, history, IInv, TypeOK, EffortBounded,
              ReportJustified, NodeOK, FreshOK
<1>5. CASE Pass
  BY <1>5, PassPreserves
<1>6. CASE UNCHANGED vars
  BY <1>6 DEF vars, node_vars, history, IInv, TypeOK, EffortBounded,
              ReportJustified, NodeOK, FreshOK
<1>7. QED
  BY <1>1, <1>2, <1>3, <1>4, <1>5, <1>6 DEF Next

-----------------------------------------------------------------------------
(* The theorems *)

\* The inductive invariant holds in every reachable state.
THEOREM Invariance == Spec => []IInv
<1>1. Init => IInv
  BY InitIInv
<1>2. QED
  BY <1>1, NextPreserves, PTL DEF Spec

\* Every variable keeps its type, and the invariants the runs check hold: the
\* effort spent on a packet is bounded and an ERR is justified.
THEOREM TypeCorrect == Spec => []TypeOK
<1>1. IInv => TypeOK
  BY DEF IInv
<1>2. QED
  BY <1>1, Invariance, PTL

\* At most MAX_RETX copies of a packet and 2 * MAX_RETX - 1 attempts.
THEOREM BoundedEffort == Spec => []EffortBounded
<1>1. IInv => EffortBounded
  BY DEF IInv
<1>2. QED
  BY <1>1, Invariance, PTL

\* No ERR before MAX_RETX copies or MAX_RETX failures.
THEOREM JustifiedReport == Spec => []ReportJustified
<1>1. IInv => ReportJustified
  BY DEF IInv
<1>2. QED
  BY <1>1, Invariance, PTL

\* After its stop or its ERR a packet is left alone.
THEOREM Finality == Spec => FinishedIsFinal
<1> DEFINE Final == \A p \in 1..made :
              p \notin packet_list \/ p \in reported =>
                 /\ sends'[p] = sends[p] /\ fails'[p] = fails[p]
                 /\ p \in pipe' => p \in pipe
<1>1. IInv /\ [Next]_vars => [Final]_vars
  <2>1. SUFFICES ASSUME IInv, Next, NEW p \in 1..made,
                        p \notin packet_list \/ p \in reported
                 PROVE  /\ sends'[p] = sends[p] /\ fails'[p] = fails[p]
                        /\ p \in pipe' => p \in pipe
    OBVIOUS
  <2>2. p \in Packet /\ p \notin Expired /\ made \in Nat
    BY <2>1, RetxAssumption DEF RetxAssumption, IInv, TypeOK, NodeOK, Expired, Packet
  <2>3. CASE \E x \in Index : RetxSend(x)
    <3>1. p # made + 1 /\ made + 1 \in Packet
      BY <2>1, <2>2, <2>3, RetxAssumption DEF RetxAssumption, RetxSend, Packet
    <3>2. QED
      BY <2>1, <2>2, <2>3, <3>1 DEF RetxSend, IInv, TypeOK
  <2>4. CASE Pass
    BY <2>2, <2>4 DEF Pass, Due, Exhausted
  <2>5. CASE \/ \E x \in Index : RetxStop(x)
             \/ RetxSendFails
             \/ \E q \in Packet : ReadErr(q)
    BY <2>5 DEF RetxStop, RetxSendFails, ReadErr, history
  <2>6. QED
    BY <2>1, <2>3, <2>4, <2>5 DEF Next
<1>2. QED
  BY <1>1, Invariance, PTL DEF Spec, FinishedIsFinal

\* The delay before the (n+1)-th copy is at least n passes.
THEOREM Backoff == Spec => BacksOff
<1> DEFINE Spaced == \A p \in Packet :
              sends[p] > 0 /\ sends'[p] + fails'[p] > sends[p] + fails[p]
                 => quiet[p] >= sends[p]
<1>1. IInv /\ [Next]_vars => [Spaced]_vars
  <2>1. SUFFICES ASSUME IInv, Next, NEW p \in Packet, sends[p] > 0,
                        sends'[p] + fails'[p] > sends[p] + fails[p]
                 PROVE  quiet[p] >= sends[p]
    OBVIOUS
  <2>2. sends[p] \in Nat /\ fails[p] \in Nat /\ quiet[p] \in Nat
    BY <2>1 DEF IInv, TypeOK
  <2>3. CASE \E x \in Index : RetxSend(x)
    <3>1. sends[made + 1] = 0 /\ made + 1 \in Packet
      <4>1. made + 1 \in Packet /\ made + 1 > made
        BY <2>1, <2>3, RetxAssumption DEF RetxAssumption, RetxSend, IInv, TypeOK, Packet
      <4>2. QED
        BY <2>1, <4>1 DEF IInv, FreshOK
    <3>2. sends'[p] = sends[p] /\ fails'[p] = fails[p]
      BY <2>1, <2>3, <3>1 DEF RetxSend, IInv, TypeOK
    <3>3. QED
      BY <2>1, <2>2, <3>2
  <2>4. CASE Pass
    <3>1. p \in Due
      BY <2>1, <2>2, <2>4 DEF Pass
    <3>2. p \in packet_list /\ countdown[p] = 0
      BY <3>1 DEF Due, Expired
    <3>3. countdown[p] + quiet[p] = nretx[p] /\ nretx[p] = sends[p]
      BY <2>1, <3>2 DEF IInv, NodeOK
    <3>4. QED
      BY <2>2, <3>2, <3>3
  <2>5. CASE \/ \E x \in Index : RetxStop(x)
             \/ RetxSendFails
             \/ \E q \in Packet : ReadErr(q)
    BY <2>1, <2>2, <2>5 DEF RetxStop, RetxSendFails, ReadErr, history
  <2>6. QED
    BY <2>1, <2>3, <2>4, <2>5 DEF Next
<1>2. QED
  BY <1>1, Invariance, PTL DEF Spec, BacksOff

-----------------------------------------------------------------------------
(* The turns of create_diff *)

\* Turns is what it is defined to be, as there is such a function: the turns
\* up to any number can be made one by one.
LEMMA TurnsAre ==
    ASSUME NEW old, Len(old) \in Nat
    PROVE  Turns(old) = [i \in 0 .. Len(Walk) + Len(old) |->
                            IF i = 0 THEN Start ELSE Turn(old, Turns(old)[i - 1])]
<1> DEFINE Made(n, f) ==
              f = [i \in 0..n |-> IF i = 0 THEN Start ELSE Turn(old, f[i - 1])]
           Unmade == {n \in Nat : ~\E f : Made(n, f)}
           N == Len(Walk) + Len(old)
<1>1. N \in Nat
  BY ShareAssumption DEF ShareAssumption
<1>2. \E f : Made(0, f)
  <2>1. \A i \in 0..0 : i = 0
    OBVIOUS
  <2>2. Made(0, [i \in 0..0 |-> Start])
    BY <2>1, Zenon
  <2>3. QED
    BY <2>2, Zenon
<1>3. ASSUME NEW n \in Nat, NEW f, Made(n, f)
      PROVE  \E g : Made(n + 1, g)
  <2> DEFINE g == [i \in 0..n + 1 |-> IF i = n + 1 THEN Turn(old, f[n]) ELSE f[i]]
  <2>1. \A i \in 0..n + 1 : g[i] = IF i = 0 THEN Start ELSE Turn(old, g[i - 1])
    <3>1. ASSUME NEW i \in 0..n + 1
          PROVE  g[i] = IF i = 0 THEN Start ELSE Turn(old, g[i - 1])
      <4>1. CASE i = n + 1
        <5>1. g[i] = Turn(old, f[n]) /\ i # 0 /\ g[i - 1] = f[n]
          BY <4>1
        <5>2. QED
          BY <5>1, Zenon
      <4>2. CASE i # n + 1
        <5>1. i \in 0..n /\ g[i] = f[i]
          BY <4>2
        <5>2. i # 0 => i - 1 \in 0..n + 1 /\ i - 1 # n + 1
          BY <5>1
        <5>3. i # 0 => g[i - 1] = f[i - 1]
          BY <5>2
        <5>4. f[i] = IF i = 0 THEN Start ELSE Turn(old, f[i - 1])
          BY <1>3, <5>1, Zenon
        <5>5. QED
          BY <5>1, <5>3, <5>4, Zenon
      <4>3. QED
        BY <4>1, <4>2
    <3>2. QED
      BY <3>1
  <2>2. Made(n + 1, g)
    <3>1. g = [i \in 0..n + 1 |-> g[i]]
      BY Zenon
    <3> HIDE DEF g
    <3>2. QED
      BY <2>1, <3>1, Zenon
  <2>3. QED
    BY <2>2, Zenon
<1>4. Unmade = {}
  <2>1. SUFFICES ASSUME Unmade # {} PROVE FALSE
    OBVIOUS
  <2>2. /\ Min(Unmade) \in Nat /\ Min(Unmade) \in Unmade
        /\ \A k \in Nat : k \in Unmade => Min(Unmade) <= k
    <3>1. Unmade \in SUBSET Nat
      OBVIOUS
    <3> HIDE DEF Unmade
    <3>2. Min(Unmade) \in Unmade /\ \A k \in Unmade : Min(Unmade) <= k
      BY ONLY <2>1, <3>1, MinProperties, Zenon
    <3>3. QED
      BY <3>1, <3>2
  <2> DEFINE m == Min(Unmade)
  <2>3. ~\E f : Made(m, f)
    BY <2>2
  <2> HIDE DEF m, Made
  <2>4. m # 0
    BY ONLY <1>2, <2>3, Zenon
  <2>5. m - 1 \in Nat /\ m - 1 \notin Unmade /\ m - 1 + 1 = m
    <3>1. m \in Nat /\ \A k \in Nat : k \in Unmade => m <= k
      BY <2>2 DEF m
    <3>2. QED
      BY ONLY <2>4, <3>1
  <2>6. \E f : Made(m - 1, f)
    BY <2>5
  <2>7. QED
    BY <1>3, <2>3, <2>5, <2>6
<1>5. \E f : Made(N, f)
  BY <1>1, <1>4
<1>6. QED
  BY <1>5, Zenon DEF Turns

-----------------------------------------------------------------------------
(* The lines of the difference *)

FilesType == UNION {[names -> File] : names \in SUBSET Name}
SectionType == [dir : Dir, mtime : Time, files : FilesType]
LineType == [op : {"+", "-"}, entry : Entry]

\* The entries that lines add, and those that they remove.
Added(lines) == {l.entry : l \in {x \in Range(lines) : x.op = "+"}}
Removed(lines) == {l.entry : l \in {x \in Range(lines) : x.op = "-"}}

\* What FilesType has.
LEMMA FilesAre ==
    /\ \A f : f \in FilesType <=> IsFiles(f)
    /\ \A f \in FilesType : \A n \in DOMAIN f : n \in Name /\ f[n] \in File
    /\ \A f \in FilesType : \A n \in DOMAIN f : EntryOf(n, f[n]) \in Entry
    /\ <<>> \in FilesType /\ DOMAIN <<>> = {}
<1>1. DOMAIN <<>> = {} /\ <<>> \in [{} -> File]
  OBVIOUS
<1>2. ASSUME NEW f PROVE f \in FilesType <=> IsFiles(f)
  BY Zenon DEF FilesType, IsFiles
<1>3. ASSUME NEW f \in FilesType, NEW n \in DOMAIN f PROVE n \in Name /\ f[n] \in File
  BY <1>2 DEF IsFiles
<1>4. ASSUME NEW f \in FilesType, NEW n \in DOMAIN f PROVE EntryOf(n, f[n]) \in Entry
  BY <1>3 DEF EntryOf, Entry, File
<1>5. <<>> \in FilesType
  BY <1>1 DEF FilesType
<1>6. QED
  BY <1>1, <1>2, <1>3, <1>4, <1>5

\* The lines of two sequences one after the other.
LEMMA LinesConcat ==
    ASSUME NEW a \in Seq(LineType), NEW b \in Seq(LineType)
    PROVE  /\ a \o b \in Seq(LineType)
           /\ Added(a \o b) = Added(a) \cup Added(b)
           /\ Removed(a \o b) = Removed(a) \cup Removed(b)
<1>1. a \o b \in Seq(LineType) /\ Range(a \o b) = Range(a) \cup Range(b)
  BY ConcatRange
<1>2. QED
  BY <1>1 DEF Added, Removed

\* Each name has a candidate of either kind.
LEMMA CandidatesAre ==
    /\ Candidates \in Seq([op : {"+", "-"}, name : Name])
    /\ \A n \in Name, o \in {"+", "-"} :
          \E i \in DOMAIN Candidates : Candidates[i] = [op |-> o, name |-> n]
<1> DEFINE M == Len(NameOrder)
<1>1. /\ NameOrder \in Seq(Name) /\ M \in Nat /\ DOMAIN NameOrder = 1..M
      /\ \A k \in 1..M : NameOrder[k] \in Name
  BY ShareAssumption DEF ShareAssumption
<1>2. \A i \in 1 .. 2 * M : (i + 1) \div 2 \in 1..M
  BY <1>1
<1>3. /\ DOMAIN Candidates = 1 .. 2 * M
      /\ \A i \in 1 .. 2 * M :
            Candidates[i] = [op |-> IF i % 2 = 1 THEN "-" ELSE "+",
                             name |-> NameOrder[(i + 1) \div 2]]
  BY <1>1 DEF Candidates
<1>4. \A i \in 1 .. 2 * M : Candidates[i] \in [op : {"+", "-"}, name : Name]
  BY <1>1, <1>2, <1>3
<1>5. Candidates \in Seq([op : {"+", "-"}, name : Name])
  <2>1. 2 * M \in Nat
    BY <1>1
  <2>2. Candidates \in [1 .. 2 * M -> [op : {"+", "-"}, name : Name]]
    <3>1. Candidates = [i \in 1 .. 2 * M |-> Candidates[i]]
      BY <1>3 DEF Candidates
    <3>2. QED
      BY ONLY <1>4, <3>1
  <2>3. QED
    BY ONLY <2>1, <2>2, FunctionSeq, Zenon
<1>6. ASSUME NEW n \in Name, NEW o \in {"+", "-"}
      PROVE  \E i \in DOMAIN Candidates : Candidates[i] = [op |-> o, name |-> n]
  <2>1. PICK k \in 1..M : NameOrder[k] = n
    BY <1>1 DEF Name, Range
  <2>2. CASE o = "-"
    <3>1. 2 * k - 1 \in 1 .. 2 * M /\ (2 * k - 1) % 2 = 1 /\ (2 * k - 1 + 1) \div 2 = k
      BY <1>1
    <3>2. QED
      BY <1>3, <2>1, <2>2, <3>1
  <2>3. CASE o = "+"
    <3>1. 2 * k \in 1 .. 2 * M /\ (2 * k) % 2 # 1 /\ (2 * k + 1) \div 2 = k
      BY <1>1
    <3>2. QED
      BY <1>3, <2>1, <2>3, <3>1
  <2>4. QED
    BY <2>2, <2>3
<1>7. QED
  BY <1>5, <1>6

\* The lines remove what is listed and not kept, and add what is not listed.
LEMMA LinesAre ==
    ASSUME NEW old \in FilesType, NEW new \in FilesType
    PROVE  /\ Lines(old, new) \in Seq(LineType)
           /\ Removed(Lines(old, new)) =
                 {EntryOf(n, old[n]) : n \in {x \in DOMAIN old : ~Same(old, new, x)}}
           /\ Added(Lines(old, new)) =
                 {EntryOf(n, new[n]) : n \in {x \in DOMAIN new : ~Same(old, new, x)}}
<1> DEFINE C == [op : {"+", "-"}, name : Name]
           side(c) == IF c.op = "-" THEN old ELSE new
           Differs(c) == c.name \in DOMAIN side(c) /\ ~Same(old, new, c.name)
           I == {i \in DOMAIN Candidates : Differs(Candidates[i])}
           chosen == Picked(Candidates, I)
           line(c) == [op |-> c.op, entry |-> EntryOf(c.name, side(c)[c.name])]
           ls == [i \in DOMAIN chosen |-> line(chosen[i])]
<1>1. Lines(old, new) = ls
  BY DEF Lines
<1>2. /\ chosen \in Seq(C)
      /\ ToSet(chosen) = {Candidates[i] : i \in I}
  <2>1. I \in SUBSET DOMAIN Candidates
    OBVIOUS
  <2> HIDE DEF I
  <2>2. QED
    BY <2>1, CandidatesAre, PickedMembers
<1> HIDE DEF chosen
<1>3. \A c : c \in ToSet(chosen) <=> c \in C /\ Differs(c)
  <2>1. ASSUME NEW c \in ToSet(chosen) PROVE c \in C /\ Differs(c)
    <3> HIDE DEF I
    <3>1. PICK i \in I : c = Candidates[i]
      BY ONLY <1>2, <2>1
    <3>2. i \in DOMAIN Candidates
      BY <3>1 DEF I
    <3>3. Differs(Candidates[i])
      BY <3>1 DEF I
    <3> HIDE DEF Differs, C
    <3>4. Candidates \in Seq(C)
      BY CandidatesAre DEF C
    <3>5. Candidates[i] \in C
      BY ONLY <3>2, <3>4
    <3>6. QED
      BY ONLY <3>1, <3>3, <3>5, Zenon
  <2>2. ASSUME NEW c \in C, Differs(c) PROVE c \in ToSet(chosen)
    <3>1. c.name \in Name /\ c.op \in {"+", "-"} /\ c = [op |-> c.op, name |-> c.name]
      OBVIOUS
    <3>2. PICK i \in DOMAIN Candidates : Candidates[i] = c
      BY <3>1, CandidatesAre
    <3>3. QED
      BY <1>2, <2>2, <3>2
  <2>3. QED
    BY <2>1, <2>2
<1> HIDE DEF I
<1>4. \A i \in DOMAIN chosen : chosen[i] \in ToSet(chosen)
  BY DEF ToSet
<1>5. \A c \in C : Differs(c) => line(c) \in LineType
  BY FilesAre DEF LineType
<1>6. ls \in Seq(LineType)
  <2>1. DOMAIN chosen = 1..Len(chosen) /\ Len(chosen) \in Nat
    BY <1>2
  <2>2. \A i \in DOMAIN chosen : line(chosen[i]) \in LineType
    BY <1>3, <1>4, <1>5
  <2>3. ls \in [1..Len(chosen) -> LineType]
    BY ONLY <2>1, <2>2
  <2>4. QED
    BY ONLY <2>1, <2>3
<1>7. Range(ls) = {line(c) : c \in ToSet(chosen)}
  BY DEF Range, ToSet
<1> HIDE DEF ls
<1>8. \A c : line(c).op = c.op /\ line(c).entry = EntryOf(c.name, side(c)[c.name])
  OBVIOUS
<1>9. Removed(ls) = {EntryOf(n, old[n]) : n \in {x \in DOMAIN old : ~Same(old, new, x)}}
  <2>1. ASSUME NEW c \in ToSet(chosen), c.op = "-"
        PROVE  /\ c.name \in DOMAIN old /\ ~Same(old, new, c.name)
               /\ line(c).entry = EntryOf(c.name, old[c.name])
    BY <1>3, <1>8, <2>1
  <2>2. ASSUME NEW n \in DOMAIN old, ~Same(old, new, n)
        PROVE  \E c \in ToSet(chosen) : c.op = "-" /\ line(c).entry = EntryOf(n, old[n])
    <3> DEFINE c == [op |-> "-", name |-> n]
    <3>1. c \in C /\ Differs(c) /\ c.op = "-" /\ c.name = n
      BY <2>2, FilesAre
    <3>2. c \in ToSet(chosen) /\ line(c).entry = EntryOf(n, old[n])
      BY <1>3, <1>8, <3>1
    <3>3. QED
      BY <3>1, <3>2
  <2>3. ASSUME NEW e \in Removed(ls)
        PROVE  e \in {EntryOf(n, old[n]) : n \in {x \in DOMAIN old : ~Same(old, new, x)}}
    <3>1. PICK c \in ToSet(chosen) : line(c).op = "-" /\ e = line(c).entry
      BY <1>7 DEF Removed
    <3>2. QED
      BY <1>8, <2>1, <3>1
  <2>4. ASSUME NEW n \in DOMAIN old, ~Same(old, new, n)
        PROVE  EntryOf(n, old[n]) \in Removed(ls)
    <3>1. PICK c \in ToSet(chosen) : c.op = "-" /\ line(c).entry = EntryOf(n, old[n])
      BY <2>2, <2>4
    <3>2. line(c) \in Range(ls) /\ line(c).op = "-"
      BY <1>7, <1>8, <3>1
    <3> HIDE DEF line
    <3>3. QED
      BY <3>1, <3>2 DEF Removed
  <2>5. QED
    BY <2>3, <2>4
<1>10. Added(ls) = {EntryOf(n, new[n]) : n \in {x \in DOMAIN new : ~Same(old, new, x)}}
  <2>1. ASSUME NEW c \in ToSet(chosen), c.op = "+"
        PROVE  /\ c.name \in DOMAIN new /\ ~Same(old, new, c.name)
               /\ line(c).entry = EntryOf(c.name, new[c.name])
    BY <1>3, <1>8, <2>1
  <2>2. ASSUME NEW n \in DOMAIN new, ~Same(old, new, n)
        PROVE  \E c \in ToSet(chosen) : c.op = "+" /\ line(c).entry = EntryOf(n, new[n])
    <3> DEFINE c == [op |-> "+", name |-> n]
    <3>1. c \in C /\ Differs(c) /\ c.op = "+" /\ c.name = n
      BY <2>2, FilesAre
    <3>2. c \in ToSet(chosen) /\ line(c).entry = EntryOf(n, new[n])
      BY <1>3, <1>8, <3>1
    <3>3. QED
      BY <3>1, <3>2
  <2>3. ASSUME NEW e \in Added(ls)
        PROVE  e \in {EntryOf(n, new[n]) : n \in {x \in DOMAIN new : ~Same(old, new, x)}}
    <3>1. PICK c \in ToSet(chosen) : line(c).op = "+" /\ e = line(c).entry
      BY <1>7 DEF Added
    <3>2. QED
      BY <1>8, <2>1, <3>1
  <2>4. ASSUME NEW n \in DOMAIN new, ~Same(old, new, n)
        PROVE  EntryOf(n, new[n]) \in Added(ls)
    <3>1. PICK c \in ToSet(chosen) : c.op = "+" /\ line(c).entry = EntryOf(n, new[n])
      BY <2>2, <2>4
    <3>2. line(c) \in Range(ls) /\ line(c).op = "+"
      BY <1>7, <1>8, <3>1
    <3> HIDE DEF line
    <3>3. QED
      BY <3>1, <3>2 DEF Added
  <2>5. QED
    BY <2>3, <2>4
<1>11. QED
  BY <1>1, <1>6, <1>9, <1>10
-----------------------------------------------------------------------------
(* A turn *)

DirectoryType == [mtime : Time, files : FilesType]

\* What IsFolder says, with a type for the directories.
LEMMA FoldersAre ==
    ASSUME NEW f
    PROVE  IsFolder(f) <=>
              Root \in DOMAIN f /\ DOMAIN f \subseteq Dir /\ f \in [DOMAIN f -> DirectoryType]
<1>1. \A d : IsDirectory(d) <=> d \in DirectoryType
  <2>1. ASSUME NEW d, IsDirectory(d) PROVE d \in DirectoryType
    BY <2>1, FilesAre DEF IsDirectory, DirectoryType
  <2>2. ASSUME NEW d \in DirectoryType PROVE IsDirectory(d)
    <3>1. d.files \in FilesType /\ d \in [mtime : Time, files : {d.files}]
      BY DEF DirectoryType
    <3>2. QED
      BY <3>1, FilesAre DEF IsDirectory
  <2>3. QED
    BY <2>1, <2>2
<1>2. ASSUME f \in [DOMAIN f -> Range(f)], \A d \in DOMAIN f : f[d] \in DirectoryType
      PROVE  f \in [DOMAIN f -> DirectoryType]
  BY <1>2
<1>3. ASSUME f \in [DOMAIN f -> DirectoryType]
      PROVE  f \in [DOMAIN f -> Range(f)] /\ \A d \in DOMAIN f : f[d] \in DirectoryType
  BY <1>3 DEF Range
<1>4. QED
  BY <1>1, <1>2, <1>3, Zenon DEF IsFolder

\* A directory of the folder has its types.
LEMMA FolderHas ==
    ASSUME IsFolder(folder), NEW d \in DOMAIN folder
    PROVE  d \in Dir /\ folder[d].mtime \in Time /\ folder[d].files \in FilesType
<1>1. d \in Dir /\ folder[d] \in DirectoryType
  BY FoldersAre
<1>2. QED
  BY <1>1 DEF DirectoryType

\* The entries of the first sections of a listing.
EntriesBefore(old, k) == UNION {Entries(old[j]) : j \in 1 .. k - 1}

\* A section says what the folder has, or is an old one that misses changes in place.
RightSection(old, s) ==
    /\ s.dir \in DOMAIN folder
    /\ LET d == folder[s.dir]
       IN  /\ s.mtime = d.mtime
           /\ DOMAIN s.files = DOMAIN d.files
           /\ \A n \in DOMAIN d.files :
                 \/ s.files[n] = d.files[n]
                 \/ s \in Range(old) /\ s.files[n].mtime < d.files[n].mtime

Fits(s) ==
    s.dir \in DOMAIN folder /\ s.mtime = folder[s.dir].mtime =>
        LET d == folder[s.dir]
        IN  /\ DOMAIN s.files = DOMAIN d.files
            /\ \A n \in DOMAIN d.files :
                  s.files[n] = d.files[n] \/ s.files[n].mtime < d.files[n].mtime

\* A file of a section is the one of that name and mtime that the folder has.
Known(s) ==
    \A n \in DOMAIN s.files : \A d \in DOMAIN folder :
        n \in DOMAIN folder[d].files /\ s.files[n].mtime = folder[d].files[n].mtime
            => s.files[n] = folder[d].files[n]

ListingOK(old) ==
    /\ old \in Seq(SectionType)
    /\ \A i \in DOMAIN old : Fits(old[i]) /\ Known(old[i])

\* New listing, entries that the lines add and remove, entries read of the old one.
Differ(O, A, M, R, D) ==
    /\ A \subseteq O /\ M \subseteq R
    /\ O \ A \subseteq R /\ R \ M \subseteq O
    /\ M \cap O \subseteq A \cup D

\* The difference grows by sections: what was read before and is read now may only be
\* the same if it is doubled.
LEMMA DifferStep ==
    ASSUME NEW O, NEW A, NEW M, NEW R, NEW D, NEW O2, NEW A2, NEW M2, NEW R2,
           Differ(O, A, M, R, D), Differ(O2, A2, M2, R2, D), R \cap R2 \subseteq D
    PROVE  Differ(O \cup O2, A \cup A2, M \cup M2, R \cup R2, D)
BY Zenon DEF Differ

AccType ==
    [place : Nat, section : Nat, out : Seq(SectionType), lines : Seq(LineType)]

\* What has come of the first sections of old and the first directories of the walk.
OutOK(old, out, place) ==
    /\ \A s \in Range(out) :
          RightSection(old, s) /\ \E k \in 1 .. place - 1 : s.dir = Walk[k]
    /\ \A k \in 1 .. place - 1 :
          Walk[k] \in DOMAIN folder => \E s \in Range(out) : s.dir = Walk[k]
    /\ \A i, j \in DOMAIN out : out[i].dir = out[j].dir => i = j

AccOK(old, acc) ==
    /\ acc \in AccType
    /\ acc.place \in 1 .. Len(Walk) + 1 /\ acc.section \in 1 .. Len(old) + 1
    /\ OutOK(old, acc.out, acc.place)
    /\ Differ(AllOf(acc.out), Added(acc.lines), Removed(acc.lines),
              EntriesBefore(old, acc.section), Doubled(old))

\* A section of a listing has its types.
LEMMA SectionHas ==
    /\ \A s \in SectionType : s.dir \in Dir /\ s.mtime \in Time /\ s.files \in FilesType
    /\ \A old \in Seq(SectionType) : \A i \in 1..Len(old) : old[i] \in SectionType
<1>1. \A s \in SectionType : s.dir \in Dir /\ s.mtime \in Time /\ s.files \in FilesType
  BY DEF SectionType
<1>2. \A S : \A old \in Seq(S) : \A i \in 1..Len(old) : old[i] \in S
  OBVIOUS
<1>3. QED
  BY <1>1, <1>2, Zenon

\* What is listed are entries.
LEMMA EntriesType ==
    ASSUME NEW s, s.files \in FilesType
    PROVE  Entries(s) \subseteq Entry
BY FilesAre DEF Entries

\* An entry of a section that is read and of one that was is doubled.
LEMMA ReadTwice ==
    ASSUME NEW old \in Seq(SectionType), NEW k \in 1..Len(old)
    PROVE  /\ EntriesBefore(old, k + 1) = EntriesBefore(old, k) \cup Entries(old[k])
           /\ EntriesBefore(old, k) \cap Entries(old[k]) \subseteq Doubled(old)
<1>1. 1 .. k + 1 - 1 = 1 .. k - 1 \cup {k}
  OBVIOUS
<1>2. EntriesBefore(old, k + 1) = EntriesBefore(old, k) \cup Entries(old[k])
  <2>1. ASSUME NEW e
        PROVE  e \in EntriesBefore(old, k + 1)
                   <=> e \in EntriesBefore(old, k) \cup Entries(old[k])
    BY <1>1 DEF EntriesBefore
  <2>2. QED
    BY <2>1
<1>3. ASSUME NEW e \in EntriesBefore(old, k), e \in Entries(old[k])
      PROVE  e \in Doubled(old)
  <2>1. PICK j \in 1 .. k - 1 : e \in Entries(old[j])
    BY DEF EntriesBefore
  <2>2. j \in DOMAIN old /\ k \in DOMAIN old /\ j # k
    OBVIOUS
  <2>3. old[k].files \in FilesType
    BY SectionHas
  <2>4. e \in Entry
    BY <1>3, <2>3, EntriesType, Zenon
  <2>5. QED
    BY <1>3, <2>1, <2>2, <2>4, Zenon DEF Doubled
<1>4. QED
  BY <1>2, <1>3

\* A section more at the end of the new listing (add_dir, copy_dir, update_dir).
LEMMA AppendedSection ==
    ASSUME NEW out \in Seq(SectionType), NEW s \in SectionType
    PROVE  /\ Append(out, s) \in Seq(SectionType)
           /\ Range(Append(out, s)) = Range(out) \cup {s}
           /\ AllOf(Append(out, s)) = AllOf(out) \cup Entries(s)
<1> DEFINE q == Append(out, s)
<1>1. /\ q \in Seq(SectionType) /\ DOMAIN q = 1 .. Len(out) + 1
      /\ \A i \in 1..Len(out) : q[i] = out[i]
      /\ q[Len(out) + 1] = s
      /\ DOMAIN out = 1..Len(out) /\ Len(out) \in Nat
  OBVIOUS
<1> HIDE DEF q
<1>2. 1 .. Len(out) + 1 = 1..Len(out) \cup {Len(out) + 1}
  BY <1>1
<1>3. Range(q) = Range(out) \cup {s}
  BY ONLY <1>1, <1>2 DEF Range
<1>4. AllOf(q) = AllOf(out) \cup Entries(s)
  BY <1>3, Zenon DEF AllOf
<1>5. QED
  BY <1>1, <1>3, <1>4 DEF q

\* The next directory of the walk gets its section.
LEMMA OutStep ==
    ASSUME NEW old, NEW out \in Seq(SectionType), NEW place \in 1..Len(Walk),
           OutOK(old, out, place),
           NEW s \in SectionType, s.dir = Walk[place], RightSection(old, s)
    PROVE  OutOK(old, Append(out, s), place + 1)
<1> DEFINE q == Append(out, s)
<1>1. Len(Walk) \in Nat /\ \A i, j \in 1..Len(Walk) : Walk[i] = Walk[j] => i = j
  <2>1. Len(Walk) \in Nat /\ DOMAIN Walk = 1..Len(Walk)
    BY ShareAssumption DEF ShareAssumption
  <2>2. QED
    BY <2>1, ShareAssumption DEF ShareAssumption, IsInjective
<1>2. /\ DOMAIN q = 1 .. Len(out) + 1 /\ DOMAIN out = 1..Len(out) /\ Len(out) \in Nat
      /\ \A i \in 1..Len(out) : q[i] = out[i] /\ out[i] \in Range(out)
      /\ q[Len(out) + 1] = s
  BY DEF Range
<1>3. Range(q) = Range(out) \cup {s}
  BY AppendedSection
<1> HIDE DEF q
<1>4. \A k : k \in 1 .. place + 1 - 1 <=> k \in 1 .. place - 1 \/ k = place
  BY <1>1
<1>5. ASSUME NEW x \in Range(q)
      PROVE  RightSection(old, x) /\ \E k \in 1 .. place + 1 - 1 : x.dir = Walk[k]
  BY <1>3, <1>4 DEF OutOK
<1>6. ASSUME NEW k \in 1 .. place + 1 - 1, Walk[k] \in DOMAIN folder
      PROVE  \E x \in Range(q) : x.dir = Walk[k]
  BY <1>3, <1>4, <1>6 DEF OutOK
<1>7. ASSUME NEW i \in 1..Len(out) PROVE out[i].dir # s.dir
  <2>1. PICK k \in 1 .. place - 1 : out[i].dir = Walk[k]
    BY <1>2 DEF OutOK
  <2>2. k \in 1..Len(Walk) /\ k # place
    BY <1>1
  <2>3. QED
    BY <1>1, <2>1, <2>2
<1>8. ASSUME NEW i \in DOMAIN q, NEW j \in DOMAIN q, q[i].dir = q[j].dir
      PROVE  i = j
  <2>1. \A k \in DOMAIN q : k \in 1..Len(out) \/ k = Len(out) + 1
    BY <1>2
  <2>2. \A a, b \in 1..Len(out) : out[a].dir = out[b].dir => a = b
    BY <1>2, Zenon DEF OutOK
  <2>3. QED
    BY <1>2, <1>7, <1>8, <2>1, <2>2
<1>9. OutOK(old, q, place + 1)
  <2>1. \A i, j \in DOMAIN q : q[i].dir = q[j].dir => i = j
    BY <1>8, Zenon
  <2>2. \A k \in 1 .. place + 1 - 1 :
           Walk[k] \in DOMAIN folder => \E x \in Range(q) : x.dir = Walk[k]
    BY <1>6, Zenon
  <2>3. \A x \in Range(q) :
           RightSection(old, x) /\ \E k \in 1 .. place + 1 - 1 : x.dir = Walk[k]
    BY <1>5, Zenon
  <2>4. QED
    BY ONLY <2>1, <2>2, <2>3 DEF OutOK
<1>10. QED
  BY <1>9, Zenon DEF q

\* The next directory of the walk does not exist.
LEMMA SkippedDir ==
    ASSUME NEW old, NEW out, NEW place \in 1..Len(Walk), OutOK(old, out, place),
           Walk[place] \notin DOMAIN folder
    PROVE  OutOK(old, out, place + 1)
<1>1. \A k : k \in 1 .. place + 1 - 1 <=> k \in 1 .. place - 1 \/ k = place
  BY ShareAssumption DEF ShareAssumption
<1>2. QED
  BY <1>1 DEF OutOK

\* The difference that one section and one directory make.
\* remove_dir: all files of a section are removed.
LEMMA RemovedSection ==
    ASSUME NEW files \in FilesType, NEW D
    PROVE  LET ls == Lines(files, <<>>)
           IN  ls \in Seq(LineType)
               /\ Differ({}, Added(ls), Removed(ls), {EntryOf(n, files[n]) : n \in DOMAIN files}, D)
<1> DEFINE ls == Lines(files, <<>>)
<1>1. <<>> \in FilesType /\ DOMAIN <<>> = {}
  BY FilesAre
<1>2. ls \in Seq(LineType) /\ Added(ls) = {}
      /\ Removed(ls) = {EntryOf(n, files[n]) : n \in DOMAIN files}
  <2>1. /\ ls \in Seq(LineType)
        /\ Removed(ls) =
                 {EntryOf(n, files[n]) : n \in {x \in DOMAIN files : ~Same(files, <<>>, x)}}
        /\ Added(ls) =
                 {EntryOf(n, <<>>[n]) : n \in {x \in DOMAIN <<>> : ~Same(files, <<>>, x)}}
    BY <1>1, LinesAre
  <2>2. \A x : ~Same(files, <<>>, x)
    BY <1>1 DEF Same
  <2>3. QED
    BY <1>1, <2>1, <2>2
<1>3. QED
  BY <1>2 DEF Differ

\* add_dir: all files of a directory are added.
LEMMA AddedSection ==
    ASSUME NEW files \in FilesType, NEW D
    PROVE  LET ls == Lines(<<>>, files)
           IN  ls \in Seq(LineType)
               /\ Differ({EntryOf(n, files[n]) : n \in DOMAIN files}, Added(ls), Removed(ls), {}, D)
<1> DEFINE ls == Lines(<<>>, files)
<1>1. <<>> \in FilesType /\ DOMAIN <<>> = {}
  BY FilesAre
<1>2. ls \in Seq(LineType) /\ Removed(ls) = {}
      /\ Added(ls) = {EntryOf(n, files[n]) : n \in DOMAIN files}
  <2>1. /\ ls \in Seq(LineType)
        /\ Removed(ls) =
                 {EntryOf(n, <<>>[n]) : n \in {x \in DOMAIN <<>> : ~Same(<<>>, files, x)}}
        /\ Added(ls) =
                 {EntryOf(n, files[n]) : n \in {x \in DOMAIN files : ~Same(<<>>, files, x)}}
    BY <1>1, LinesAre
  <2>2. \A x : ~Same(<<>>, files, x)
    BY <1>1 DEF Same
  <2>3. QED
    BY <1>1, <2>1, <2>2
<1>3. QED
  BY <1>2 DEF Differ

\* update_dir: the lines take the files of the section to those of the directory.
LEMMA ChangedSection ==
    ASSUME NEW old \in FilesType, NEW new \in FilesType, NEW D
    PROVE  LET ls == Lines(old, new)
               kept == UpdatedFiles(old, new)
           IN  /\ ls \in Seq(LineType) /\ kept \in FilesType
               /\ Differ({EntryOf(n, kept[n]) : n \in DOMAIN kept}, Added(ls), Removed(ls),
                         {EntryOf(n, old[n]) : n \in DOMAIN old}, D)
<1> DEFINE ls == Lines(old, new)
           kept == UpdatedFiles(old, new)
           Unlike(f) == {x \in DOMAIN f : ~Same(old, new, x)}
<1>1. /\ ls \in Seq(LineType)
      /\ Removed(ls) = {EntryOf(n, old[n]) : n \in Unlike(old)}
      /\ Added(ls) = {EntryOf(n, new[n]) : n \in Unlike(new)}
  BY LinesAre
<1>2. /\ DOMAIN kept = DOMAIN new
      /\ \A n \in DOMAIN new : kept[n] = IF Same(old, new, n) THEN old[n] ELSE new[n]
  BY DEF UpdatedFiles
<1>3. \A n : Same(old, new, n) => n \in DOMAIN old /\ n \in DOMAIN new
  BY DEF Same
<1>4. kept \in FilesType
  <2>1. \A n \in DOMAIN new : n \in Name /\ kept[n] \in File
    BY <1>2, <1>3, FilesAre
  <2>2. kept = [n \in DOMAIN new |-> kept[n]]
    BY <1>2 DEF UpdatedFiles
  <2> HIDE DEF kept
  <2>3. kept \in [DOMAIN new -> File]
    BY ONLY <2>1, <2>2
  <2>4. DOMAIN new \in SUBSET Name
    BY <2>1
  <2>5. QED
    BY <2>3, <2>4, Zenon DEF FilesType
<1> HIDE DEF ls, kept
<1>5. \A m, n, f, g : EntryOf(m, f) = EntryOf(n, g) => m = n
  BY DEF EntryOf
<1> DEFINE O == {EntryOf(n, kept[n]) : n \in DOMAIN kept}
           R == {EntryOf(n, old[n]) : n \in DOMAIN old}
<1>6. Added(ls) \subseteq O
  BY <1>1, <1>2
<1>7. Removed(ls) \subseteq R
  BY <1>1
<1>8. O \ Added(ls) \subseteq R
  <2>1. ASSUME NEW n \in DOMAIN kept, EntryOf(n, kept[n]) \notin Added(ls)
        PROVE  EntryOf(n, kept[n]) \in R
    <3>1. Same(old, new, n)
      <4>1. SUFFICES ASSUME ~Same(old, new, n) PROVE FALSE
        OBVIOUS
      <4>2. kept[n] = new[n] /\ n \in Unlike(new)
        BY <1>2, <4>1
      <4>3. QED
        BY <1>1, <2>1, <4>2
    <3>2. QED
      BY <1>2, <1>3, <3>1
  <2>2. QED
    BY <2>1
<1>9. R \ Removed(ls) \subseteq O
  <2>1. ASSUME NEW n \in DOMAIN old, EntryOf(n, old[n]) \notin Removed(ls)
        PROVE  EntryOf(n, old[n]) \in O
    <3>1. Same(old, new, n)
      BY <1>1, <2>1
    <3>2. QED
      BY <1>2, <1>3, <3>1
  <2>2. QED
    BY <2>1
<1>10. Removed(ls) \cap O \subseteq Added(ls)
  <2>1. ASSUME NEW m \in Unlike(old), NEW n \in DOMAIN kept,
               EntryOf(m, old[m]) = EntryOf(n, kept[n])
        PROVE  EntryOf(n, kept[n]) \in Added(ls)
    <3>1. m = n
      BY <1>5, <2>1, Zenon
    <3>2. n \in Unlike(new) /\ kept[n] = new[n]
      BY <1>2, <3>1
    <3>3. QED
      BY <1>1, <3>2
  <2>2. QED
    BY <1>1, <2>1
<1>11. QED
  BY <1>1, <1>4, <1>6, <1>7, <1>8, <1>9, <1>10 DEF Differ, ls, kept

\* What an accumulator has that is right.
LEMMA AccHas ==
    ASSUME NEW old \in Seq(SectionType), NEW acc, AccOK(old, acc)
    PROVE  /\ acc.place \in 1 .. Len(Walk) + 1 /\ acc.section \in 1 .. Len(old) + 1
           /\ acc.out \in Seq(SectionType) /\ acc.lines \in Seq(LineType)
           /\ acc \in AccType
           /\ Len(Walk) \in Nat /\ Len(old) \in Nat
BY ShareAssumption DEF AccOK, AccType, ShareAssumption

\* The lines of one more section of old (at k), and one more section of the new listing.
\* The lines of a section more, after those there are.
LEMMA LinesStep ==
    ASSUME NEW D, NEW O, NEW R, NEW ls \in Seq(LineType),
           Differ(O, Added(ls), Removed(ls), R, D),
           NEW O2, NEW R2, NEW more \in Seq(LineType),
           Differ(O2, Added(more), Removed(more), R2, D), R \cap R2 \subseteq D
    PROVE  /\ ls \o more \in Seq(LineType)
           /\ Differ(O \cup O2, Added(ls \o more), Removed(ls \o more), R \cup R2, D)
<1>1. /\ ls \o more \in Seq(LineType)
      /\ Added(ls \o more) = Added(ls) \cup Added(more)
      /\ Removed(ls \o more) = Removed(ls) \cup Removed(more)
  BY LinesConcat
<1>2. Differ(O \cup O2, Added(ls) \cup Added(more), Removed(ls) \cup Removed(more),
             R \cup R2, D)
  BY DifferStep, Zenon
<1>3. QED
  BY <1>1, <1>2, Zenon

\* RemoveDir keeps what was done right.
LEMMA RemoveDirOK ==
    ASSUME NEW old, ListingOK(old), NEW acc, AccOK(old, acc), acc.section <= Len(old)
    PROVE  LET new == RemoveDir(acc, old[acc.section])
           IN  /\ AccOK(old, new)
               /\ new.place = acc.place /\ new.section = acc.section + 1
<1> DEFINE k == acc.section
           s == old[k]
           ls == Lines(s.files, <<>>)
           new == RemoveDir(acc, s)
<1>1. old \in Seq(SectionType)
  BY DEF ListingOK
<1>2. /\ acc.place \in 1 .. Len(Walk) + 1 /\ k \in 1 .. Len(old) + 1
      /\ acc.out \in Seq(SectionType) /\ acc.lines \in Seq(LineType)
      /\ acc \in AccType
      /\ Len(Walk) \in Nat /\ Len(old) \in Nat
  BY <1>1, AccHas, Zenon
<1>3. k \in 1..Len(old) /\ k + 1 \in 1 .. Len(old) + 1 /\ k + 1 \in Nat /\ acc.place \in Nat
  BY <1>2
<1>4. s.files \in FilesType
  BY <1>1, <1>3, SectionHas, Zenon
<1>5. ls \in Seq(LineType) /\ Differ({}, Added(ls), Removed(ls), Entries(s), Doubled(old))
  BY <1>4, RemovedSection, Zenon DEF Entries
<1>6. /\ EntriesBefore(old, k + 1) = EntriesBefore(old, k) \cup Entries(s)
      /\ EntriesBefore(old, k) \cap Entries(s) \subseteq Doubled(old)
  BY <1>1, <1>3, ReadTwice, Zenon
<1>7. /\ Differ(AllOf(acc.out), Added(acc.lines), Removed(acc.lines),
                EntriesBefore(old, k), Doubled(old))
      /\ OutOK(old, acc.out, acc.place)
  BY Zenon DEF AccOK
<1>8. /\ acc.lines \o ls \in Seq(LineType)
      /\ Differ(AllOf(acc.out) \cup {}, Added(acc.lines \o ls), Removed(acc.lines \o ls),
                EntriesBefore(old, k) \cup Entries(s), Doubled(old))
  <2> HIDE DEF ls, s, k
  <2>1. QED
    BY <1>2, <1>5, <1>6, <1>7, LinesStep, Zenon
<1>9. /\ new \in AccType /\ new.place = acc.place /\ new.section = k + 1
      /\ new.out = acc.out /\ new.lines = acc.lines \o ls
  <2>1. new = [acc EXCEPT !.section = k + 1, !.lines = acc.lines \o ls]
    BY Zenon DEF RemoveDir
  <2> HIDE DEF new, k, ls
  <2>2. QED
    BY <1>2, <1>3, <1>8, <2>1 DEF AccType
<1>10. AllOf(acc.out) \cup {} = AllOf(acc.out)
  OBVIOUS
<1> HIDE DEF ls, s, k, new
<1>11. AccOK(old, new)
  BY <1>2, <1>3, <1>6, <1>7, <1>8, <1>9, <1>10, Zenon DEF AccOK
<1>12. QED
  BY <1>9, <1>11 DEF new, s, k

\* A directory is listed: s is its section, ls are its lines.
LEMMA ListedDir ==
    ASSUME IsFolder(folder), NEW old, ListingOK(old), NEW acc, AccOK(old, acc),
           NEW new \in AccType,
           acc.place <= Len(Walk), new.place = acc.place + 1,
           new.section \in 1 .. Len(old) + 1,
           NEW s \in SectionType, s.dir = Walk[acc.place], RightSection(old, s),
           new.out = Append(acc.out, s),
           NEW ls \in Seq(LineType), new.lines = acc.lines \o ls,
           NEW R, EntriesBefore(old, new.section) = EntriesBefore(old, acc.section) \cup R,
           EntriesBefore(old, acc.section) \cap R \subseteq Doubled(old),
           Differ(Entries(s), Added(ls), Removed(ls), R, Doubled(old))
    PROVE  AccOK(old, new)
<1>1. old \in Seq(SectionType)
  BY DEF ListingOK
<1>2. /\ acc.place \in 1 .. Len(Walk) + 1 /\ acc.section \in 1 .. Len(old) + 1
      /\ acc.out \in Seq(SectionType) /\ acc.lines \in Seq(LineType)
      /\ acc \in AccType
      /\ Len(Walk) \in Nat /\ Len(old) \in Nat
  BY <1>1, AccHas, Zenon
<1>3. acc.place \in 1..Len(Walk) /\ new.place \in 1 .. Len(Walk) + 1
  <2>1. acc.place <= Len(Walk) /\ new.place = acc.place + 1
    OBVIOUS
  <2>2. QED
    BY ONLY <1>2, <2>1
<1>4. /\ Differ(AllOf(acc.out), Added(acc.lines), Removed(acc.lines),
                EntriesBefore(old, acc.section), Doubled(old))
      /\ OutOK(old, acc.out, acc.place)
  BY Zenon DEF AccOK
<1>5. AllOf(new.out) = AllOf(acc.out) \cup Entries(s)
  BY <1>2, AppendedSection, Zenon
<1>6. OutOK(old, new.out, new.place)
  BY <1>2, <1>3, <1>4, OutStep, Zenon
<1>7. Differ(AllOf(new.out), Added(new.lines), Removed(new.lines),
             EntriesBefore(old, new.section), Doubled(old))
  <2>1. Differ(AllOf(acc.out) \cup Entries(s), Added(acc.lines \o ls),
               Removed(acc.lines \o ls), EntriesBefore(old, acc.section) \cup R, Doubled(old))
    BY <1>2, <1>4, LinesStep, Zenon
  <2>2. QED
    BY <1>5, <2>1, Zenon
<1>8. QED
  BY <1>3, <1>6, <1>7, Zenon DEF AccOK

\* AddDir keeps what was done right.
LEMMA AddDirOK ==
    ASSUME IsFolder(folder), NEW old, ListingOK(old), NEW acc, AccOK(old, acc),
           acc.place <= Len(Walk), Walk[acc.place] \in DOMAIN folder
    PROVE  LET new == AddDir(acc, Walk[acc.place])
           IN  /\ AccOK(old, new)
               /\ new.place = acc.place + 1 /\ new.section = acc.section
<1> DEFINE d == Walk[acc.place]
           s == Section(d, folder[d].files)
           ls == Lines(<<>>, folder[d].files)
           new == AddDir(acc, d)
<1>1. /\ acc.place \in 1 .. Len(Walk) + 1 /\ acc.section \in 1 .. Len(old) + 1
      /\ acc.out \in Seq(SectionType) /\ acc.lines \in Seq(LineType)
      /\ acc \in AccType
      /\ Len(Walk) \in Nat /\ Len(old) \in Nat
  BY AccHas, Zenon DEF ListingOK
<1>2. acc.place + 1 \in Nat /\ acc.section \in Nat
  BY <1>1
<1>3. d \in Dir /\ folder[d].mtime \in Time /\ folder[d].files \in FilesType
  BY FolderHas, Zenon
<1>4. /\ s \in SectionType /\ s.dir = d /\ s.files = folder[d].files
      /\ s.mtime = folder[d].mtime
  BY <1>3 DEF Section, SectionType
<1>5. RightSection(old, s)
  BY <1>4, Zenon DEF RightSection
<1>6. ls \in Seq(LineType) /\ Differ(Entries(s), Added(ls), Removed(ls), {}, Doubled(old))
  <2>1. Entries(s) = {EntryOf(n, folder[d].files[n]) : n \in DOMAIN folder[d].files}
    BY <1>4, Zenon DEF Entries
  <2>2. QED
    BY <1>3, <2>1, AddedSection, Zenon
<1>7. Append(acc.out, s) \in Seq(SectionType)
  BY <1>1, <1>4, AppendedSection, Zenon
<1>8. acc.lines \o ls \in Seq(LineType)
  <2> HIDE DEF ls
  <2>1. QED
    BY <1>1, <1>6, LinesConcat, Zenon
<1>9. /\ new \in AccType /\ new.place = acc.place + 1 /\ new.section = acc.section
      /\ new.out = Append(acc.out, s) /\ new.lines = acc.lines \o ls
  <2>1. new = [acc EXCEPT !.place = acc.place + 1, !.out = Append(acc.out, s),
                          !.lines = acc.lines \o ls]
    BY Zenon DEF AddDir
  <2> HIDE DEF new, s, ls
  <2>2. QED
    BY <1>1, <1>2, <1>7, <1>8, <2>1 DEF AccType
<1>10. /\ EntriesBefore(old, new.section) = EntriesBefore(old, acc.section) \cup {}
       /\ EntriesBefore(old, acc.section) \cap {} \subseteq Doubled(old)
  BY <1>9
<1> HIDE DEF ls, s, new
<1>11. AccOK(old, new)
  BY <1>1, <1>4, <1>5, <1>6, <1>9, <1>10, ListedDir, Zenon
<1>12. QED
  BY <1>9, <1>11 DEF new

\* CopyDir does, as the section fits the directory whose mtime it has.
LEMMA CopyDirOK ==
    ASSUME IsFolder(folder), NEW old, ListingOK(old), NEW acc, AccOK(old, acc),
           acc.place <= Len(Walk), Walk[acc.place] \in DOMAIN folder,
           acc.section <= Len(old), old[acc.section].dir = Walk[acc.place],
           old[acc.section].mtime = folder[Walk[acc.place]].mtime
    PROVE  LET new == CopyDir(acc, Walk[acc.place], old[acc.section])
           IN  /\ AccOK(old, new)
               /\ new.place = acc.place + 1 /\ new.section = acc.section + 1
<1> DEFINE d == Walk[acc.place]
           k == acc.section
           s == old[k]
           new == CopyDir(acc, d, s)
<1>1. /\ acc.place \in 1 .. Len(Walk) + 1 /\ k \in 1 .. Len(old) + 1
      /\ acc.out \in Seq(SectionType) /\ acc.lines \in Seq(LineType)
      /\ acc \in AccType
      /\ Len(Walk) \in Nat /\ Len(old) \in Nat /\ old \in Seq(SectionType)
  BY AccHas, Zenon DEF ListingOK
<1>2. /\ acc.place + 1 \in Nat /\ k \in 1..Len(old)
      /\ k + 1 \in Nat /\ k + 1 \in 1 .. Len(old) + 1
  BY <1>1
<1>3. s \in SectionType /\ s.files \in FilesType /\ s \in Range(old) /\ Fits(s)
  <2>1. k \in DOMAIN old /\ s \in SectionType
    BY <1>1, <1>2
  <2>2. Fits(s)
    BY <2>1, Zenon DEF ListingOK
  <2>3. QED
    BY <2>1, <2>2, SectionHas, Zenon DEF Range
<1>4. Section(d, s.files) = s
  BY <1>3 DEF Section, SectionType
<1>5. RightSection(old, s)
  BY <1>3, Zenon DEF RightSection, Fits
<1>6. /\ <<>> \in Seq(LineType) /\ acc.lines \o <<>> = acc.lines
      /\ Differ(Entries(s), Added(<<>>), Removed(<<>>), Entries(s), Doubled(old))
  <2>1. Range(<<>>) = {}
    BY DEF Range
  <2>2. Added(<<>>) = {} /\ Removed(<<>>) = {}
    BY <2>1 DEF Added, Removed
  <2>3. <<>> \in Seq(LineType) /\ acc.lines \o <<>> = acc.lines
    BY <1>1
  <2>4. QED
    BY <2>2, <2>3 DEF Differ
<1>7. Append(acc.out, s) \in Seq(SectionType)
  BY <1>1, <1>3, AppendedSection, Zenon
<1>8. /\ new \in AccType /\ new.place = acc.place + 1 /\ new.section = k + 1
      /\ new.out = Append(acc.out, s) /\ new.lines = acc.lines
  <2>1. new = [acc EXCEPT !.place = acc.place + 1, !.section = k + 1,
                          !.out = Append(acc.out, s)]
    BY <1>4, Zenon DEF CopyDir
  <2> HIDE DEF new, k, s
  <2>2. QED
    BY <1>1, <1>2, <1>7, <2>1 DEF AccType
<1>9. /\ EntriesBefore(old, k + 1) = EntriesBefore(old, k) \cup Entries(s)
      /\ EntriesBefore(old, k) \cap Entries(s) \subseteq Doubled(old)
  BY <1>1, <1>2, ReadTwice, Zenon
<1> HIDE DEF s, new
<1>10. AccOK(old, new)
  BY <1>1, <1>2, <1>3, <1>5, <1>6, <1>8, <1>9, ListedDir, Zenon DEF s
<1>11. QED
  BY <1>8, <1>10 DEF new, s

\* UpdateDir does, as a listed file is the one that the folder has at that mtime.
LEMMA UpdateDirOK ==
    ASSUME IsFolder(folder), NEW old, ListingOK(old), NEW acc, AccOK(old, acc),
           acc.place <= Len(Walk), Walk[acc.place] \in DOMAIN folder,
           acc.section <= Len(old)
    PROVE  LET new == UpdateDir(acc, Walk[acc.place], old[acc.section])
           IN  /\ AccOK(old, new)
               /\ new.place = acc.place + 1 /\ new.section = acc.section + 1
<1> DEFINE d == Walk[acc.place]
           k == acc.section
           listed == old[k]
           kept == UpdatedFiles(listed.files, folder[d].files)
           s == Section(d, kept)
           ls == Lines(listed.files, folder[d].files)
           new == UpdateDir(acc, d, listed)
<1>1. /\ acc.place \in 1 .. Len(Walk) + 1 /\ k \in 1 .. Len(old) + 1
      /\ acc.out \in Seq(SectionType) /\ acc.lines \in Seq(LineType)
      /\ acc \in AccType
      /\ Len(Walk) \in Nat /\ Len(old) \in Nat /\ old \in Seq(SectionType)
  BY AccHas, Zenon DEF ListingOK
<1>2. /\ acc.place + 1 \in Nat /\ k \in 1..Len(old)
      /\ k + 1 \in Nat /\ k + 1 \in 1 .. Len(old) + 1
  BY <1>1
<1>3. listed.files \in FilesType /\ Known(listed)
  <2>1. k \in DOMAIN old /\ listed \in SectionType
    BY <1>1, <1>2
  <2>2. Known(listed)
    BY <2>1, Zenon DEF ListingOK
  <2>3. QED
    BY <2>1, <2>2, SectionHas, Zenon
<1>4. d \in Dir /\ folder[d].mtime \in Time /\ folder[d].files \in FilesType
  BY FolderHas, Zenon
<1>5. /\ ls \in Seq(LineType) /\ kept \in FilesType
      /\ Differ({EntryOf(n, kept[n]) : n \in DOMAIN kept}, Added(ls), Removed(ls),
                {EntryOf(n, listed.files[n]) : n \in DOMAIN listed.files}, Doubled(old))
  BY <1>3, <1>4, ChangedSection, Zenon
<1>6. /\ s \in SectionType /\ s.dir = d /\ s.files = kept
      /\ s.mtime = folder[d].mtime
  <2> HIDE DEF kept
  <2>1. QED
    BY <1>4, <1>5 DEF Section, SectionType
<1>7. RightSection(old, s)
  <2>1. /\ DOMAIN kept = DOMAIN folder[d].files
        /\ \A n \in DOMAIN folder[d].files :
              kept[n] = IF Same(listed.files, folder[d].files, n) THEN listed.files[n]
                        ELSE folder[d].files[n]
    BY Zenon DEF UpdatedFiles
  <2>2. ASSUME NEW n \in DOMAIN folder[d].files, Same(listed.files, folder[d].files, n)
        PROVE  listed.files[n] = folder[d].files[n]
    BY <1>3, <2>2 DEF Known, Same
  <2>3. \A n \in DOMAIN folder[d].files : kept[n] = folder[d].files[n]
    BY <2>1, <2>2, Zenon
  <2> HIDE DEF s, kept
  <2>4. QED
    BY <1>6, <2>1, <2>3, Zenon DEF RightSection
<1>8. Differ(Entries(s), Added(ls), Removed(ls), Entries(listed), Doubled(old))
  <2> HIDE DEF s, kept, ls, listed
  <2>1. QED
    BY <1>5, <1>6, Zenon DEF Entries
<1>9. Append(acc.out, s) \in Seq(SectionType)
  <2> HIDE DEF s
  <2>1. QED
    BY <1>1, <1>6, AppendedSection, Zenon
<1>10. acc.lines \o ls \in Seq(LineType)
  <2> HIDE DEF ls
  <2>1. QED
    BY <1>1, <1>5, LinesConcat, Zenon
<1>11. /\ new \in AccType /\ new.place = acc.place + 1 /\ new.section = k + 1
       /\ new.out = Append(acc.out, s) /\ new.lines = acc.lines \o ls
  <2>1. new = [acc EXCEPT !.place = acc.place + 1, !.section = k + 1,
                          !.out = Append(acc.out, s), !.lines = acc.lines \o ls]
    BY Zenon DEF UpdateDir
  <2> HIDE DEF new, k, s, ls
  <2>2. QED
    BY <1>1, <1>2, <1>9, <1>10, <2>1 DEF AccType
<1>12. /\ EntriesBefore(old, k + 1) = EntriesBefore(old, k) \cup Entries(listed)
       /\ EntriesBefore(old, k) \cap Entries(listed) \subseteq Doubled(old)
  BY <1>1, <1>2, ReadTwice, Zenon
<1> HIDE DEF s, new, ls, listed
<1>13. AccOK(old, new)
  BY <1>1, <1>2, <1>5, <1>6, <1>7, <1>8, <1>11, <1>12, ListedDir, Zenon
<1>14. QED
  BY <1>11, <1>13 DEF new, listed

\* A directory that does not exist is passed by.
LEMMA SkipOK ==
    ASSUME NEW old, ListingOK(old), NEW acc, AccOK(old, acc),
           acc.place <= Len(Walk), Walk[acc.place] \notin DOMAIN folder
    PROVE  LET new == [acc EXCEPT !.place = @ + 1]
           IN  /\ AccOK(old, new)
               /\ new.place = acc.place + 1 /\ new.section = acc.section
<1> DEFINE new == [acc EXCEPT !.place = @ + 1]
<1>1. /\ acc.place \in 1 .. Len(Walk) + 1 /\ acc.section \in 1 .. Len(old) + 1
      /\ acc \in AccType
      /\ Len(Walk) \in Nat /\ Len(old) \in Nat
  BY AccHas, Zenon DEF ListingOK
<1>2. acc.place + 1 \in 1 .. Len(Walk) + 1 /\ acc.place \in 1..Len(Walk)
  BY <1>1
<1>3. /\ new \in AccType /\ new.place = acc.place + 1 /\ new.section = acc.section
      /\ new.out = acc.out /\ new.lines = acc.lines
  BY <1>1, <1>2 DEF AccType
<1>4. OutOK(old, acc.out, acc.place + 1)
  BY <1>2, SkippedDir, Zenon DEF AccOK
<1> HIDE DEF new
<1>5. AccOK(old, new)
  BY <1>2, <1>3, <1>4, Zenon DEF AccOK
<1>6. QED
  BY <1>3, <1>5 DEF new

\* A turn keeps what has been done right, and gets on unless all is done.
LEMMA TurnOK ==
    ASSUME IsFolder(folder), NEW old, ListingOK(old), NEW acc, AccOK(old, acc)
    PROVE  LET new == Turn(old, acc)
           IN  /\ AccOK(old, new)
               /\ \/ new.place + new.section >= acc.place + acc.section + 1
                  \/ new = acc /\ acc.place > Len(Walk) /\ acc.section > Len(old)
<1> DEFINE new == Turn(old, acc)
           s == old[acc.section]
           d == Walk[acc.place]
<1>1. /\ acc.place \in 1 .. Len(Walk) + 1 /\ acc.section \in 1 .. Len(old) + 1
      /\ Len(Walk) \in Nat /\ Len(old) \in Nat
  BY AccHas, Zenon DEF ListingOK
<1>2. \/ new = acc /\ acc.place > Len(Walk) /\ ~(acc.section <= Len(old))
      \/ new = RemoveDir(acc, s) /\ acc.section <= Len(old)
      \/ /\ new = [acc EXCEPT !.place = @ + 1]
         /\ ~(acc.place > Len(Walk)) /\ d \notin DOMAIN folder
      \/ /\ new = AddDir(acc, d)
         /\ ~(acc.place > Len(Walk)) /\ d \in DOMAIN folder
      \/ /\ new = CopyDir(acc, d, s)
         /\ ~(acc.place > Len(Walk)) /\ d \in DOMAIN folder
         /\ acc.section <= Len(old) /\ s.dir = d /\ s.mtime = folder[d].mtime
      \/ /\ new = UpdateDir(acc, d, s)
         /\ ~(acc.place > Len(Walk)) /\ d \in DOMAIN folder
         /\ acc.section <= Len(old)
  BY Zenon DEF Turn
<1>3. ~(acc.place > Len(Walk)) => acc.place <= Len(Walk)
  BY <1>1
<1>4. ~(acc.section <= Len(old)) => acc.section > Len(old)
  BY <1>1
<1> HIDE DEF new
<1>5. CASE new = acc /\ acc.place > Len(Walk) /\ ~(acc.section <= Len(old))
  BY <1>4, <1>5 DEF new
<1>6. CASE new = RemoveDir(acc, s) /\ acc.section <= Len(old)
  <2>1. AccOK(old, new) /\ new.place = acc.place /\ new.section = acc.section + 1
    BY <1>6, RemoveDirOK, Zenon
  <2>2. QED
    BY <1>1, <2>1 DEF new
<1>7. CASE /\ new = [acc EXCEPT !.place = @ + 1]
           /\ ~(acc.place > Len(Walk)) /\ d \notin DOMAIN folder
  <2>1. AccOK(old, new) /\ new.place = acc.place + 1 /\ new.section = acc.section
    BY <1>3, <1>7, SkipOK, Zenon
  <2>2. QED
    BY <1>1, <2>1 DEF new
<1>8. CASE /\ new = AddDir(acc, d)
           /\ ~(acc.place > Len(Walk)) /\ d \in DOMAIN folder
  <2>1. AccOK(old, new) /\ new.place = acc.place + 1 /\ new.section = acc.section
    BY <1>3, <1>8, AddDirOK, Zenon
  <2>2. QED
    BY <1>1, <2>1 DEF new
<1>9. CASE /\ new = CopyDir(acc, d, s)
           /\ ~(acc.place > Len(Walk)) /\ d \in DOMAIN folder
           /\ acc.section <= Len(old) /\ s.dir = d /\ s.mtime = folder[d].mtime
  <2>1. AccOK(old, new) /\ new.place = acc.place + 1 /\ new.section = acc.section + 1
    BY <1>3, <1>9, CopyDirOK, Zenon
  <2>2. QED
    BY <1>1, <2>1 DEF new
<1>10. CASE /\ new = UpdateDir(acc, d, s)
            /\ ~(acc.place > Len(Walk)) /\ d \in DOMAIN folder
            /\ acc.section <= Len(old)
  <2>1. AccOK(old, new) /\ new.place = acc.place + 1 /\ new.section = acc.section + 1
    BY <1>3, <1>10, UpdateDirOK, Zenon
  <2>2. QED
    BY <1>1, <2>1 DEF new
<1>11. QED
  BY <1>2, <1>5, <1>6, <1>7, <1>8, <1>9, <1>10

\* At the start nothing is wrong.
LEMMA StartOK ==
    ASSUME NEW old, ListingOK(old)
    PROVE  AccOK(old, Start)
<1>1. Len(Walk) \in Nat /\ Len(old) \in Nat
  BY ShareAssumption DEF ShareAssumption, ListingOK
<1>2. /\ Start \in AccType /\ Start.place = 1 /\ Start.section = 1
      /\ Start.out = <<>> /\ Start.lines = <<>>
  BY DEF Start, AccType
<1>3. Range(<<>>) = {} /\ DOMAIN <<>> = {} /\ 1 .. 1 - 1 = {}
  BY DEF Range
<1>4. AllOf(<<>>) = {} /\ Added(<<>>) = {} /\ Removed(<<>>) = {} /\ EntriesBefore(old, 1) = {}
  BY <1>3 DEF AllOf, Added, Removed, EntriesBefore
<1>5. Differ({}, {}, {}, {}, Doubled(old))
  BY DEF Differ
<1>6. OutOK(old, <<>>, 1)
  BY <1>3 DEF OutOK
<1>7. 1 \in 1 .. Len(Walk) + 1 /\ 1 \in 1 .. Len(old) + 1
  BY <1>1
<1>8. QED
  BY <1>2, <1>4, <1>5, <1>6, <1>7, Zenon DEF AccOK

\* As many turns as there are directories and sections are enough.
LEMMA GetsOn ==
    ASSUME NEW p \in Int, NEW k \in Int, NEW q \in Int, NEW l \in Int, NEW i \in Int,
           NEW W \in Int, NEW L \in Int,
           q <= W + 1, l <= L + 1, q + l >= p + k + 1,
           p + k >= i - 1 + 2 \/ (p > W /\ k > L)
    PROVE  q + l >= i + 2
OBVIOUS

\* By induction on the turns, as a least turn that goes wrong.
LEMMA TurnsOK ==
    ASSUME IsFolder(folder), NEW old, ListingOK(old)
    PROVE  \A i \in 0 .. Len(Walk) + Len(old) :
              LET acc == Turns(old)[i]
              IN  /\ AccOK(old, acc)
                  /\ \/ acc.place + acc.section >= i + 2
                     \/ acc.place > Len(Walk) /\ acc.section > Len(old)
<1> DEFINE N == Len(Walk) + Len(old)
           T == Turns(old)
           Right(i) == /\ AccOK(old, T[i])
                       /\ \/ T[i].place + T[i].section >= i + 2
                          \/ T[i].place > Len(Walk) /\ T[i].section > Len(old)
           Wrong == {i \in 0..N : ~Right(i)}
<1>1. Len(Walk) \in Nat /\ Len(old) \in Nat /\ N \in Nat
  BY ShareAssumption DEF ShareAssumption, ListingOK
<1>2. \A i \in 0..N : T[i] = IF i = 0 THEN Start ELSE Turn(old, T[i - 1])
  <2>1. T = [i \in 0..N |-> IF i = 0 THEN Start ELSE Turn(old, T[i - 1])]
    BY <1>1, TurnsAre, Zenon
  <2> HIDE DEF T, N
  <2>2. QED
    BY <2>1, Zenon
<1> HIDE DEF T
<1>3. Right(0)
  <2>1. T[0] = Start
    BY <1>1, <1>2
  <2>2. Start.place + Start.section >= 0 + 2
    BY DEF Start
  <2>3. QED
    BY <2>1, <2>2, StartOK
<1>4. ASSUME NEW i \in 0..N, i # 0, Right(i - 1)
      PROVE  Right(i)
  <2>1. T[i] = Turn(old, T[i - 1])
    BY <1>2, <1>4, Zenon
  <2>2. /\ AccOK(old, T[i])
        /\ \/ T[i].place + T[i].section >= T[i - 1].place + T[i - 1].section + 1
           \/ T[i] = T[i - 1] /\ T[i - 1].place > Len(Walk) /\ T[i - 1].section > Len(old)
    BY <1>4, <2>1, TurnOK, Zenon
  <2>3. /\ T[i].place \in Nat /\ T[i].section \in Nat
        /\ T[i].place <= Len(Walk) + 1 /\ T[i].section <= Len(old) + 1
        /\ T[i - 1].place \in 1 .. Len(Walk) + 1 /\ T[i - 1].section \in 1 .. Len(old) + 1
    <3>1. \A a : AccOK(old, a) =>
             a.place \in 1 .. Len(Walk) + 1 /\ a.section \in 1 .. Len(old) + 1
      BY Zenon DEF AccOK
    <3>2. /\ T[i].place \in 1 .. Len(Walk) + 1 /\ T[i].section \in 1 .. Len(old) + 1
          /\ T[i - 1].place \in 1 .. Len(Walk) + 1 /\ T[i - 1].section \in 1 .. Len(old) + 1
      BY <1>4, <2>2, <3>1, Zenon
    <3>3. QED
      BY ONLY <1>1, <3>2
  <2>4. CASE T[i] = T[i - 1] /\ T[i - 1].place > Len(Walk) /\ T[i - 1].section > Len(old)
    BY <2>2, <2>4
  <2>5. CASE T[i].place + T[i].section >= T[i - 1].place + T[i - 1].section + 1
    <3>1. \/ T[i - 1].place + T[i - 1].section >= i - 1 + 2
          \/ T[i - 1].place > Len(Walk) /\ T[i - 1].section > Len(old)
      BY <1>4
    <3>2. /\ i \in Int /\ T[i - 1].place \in Int /\ T[i - 1].section \in Int
          /\ T[i].place \in Int /\ T[i].section \in Int /\ Len(Walk) \in Int /\ Len(old) \in Int
          /\ T[i].place <= Len(Walk) + 1 /\ T[i].section <= Len(old) + 1
      BY <1>1, <2>3
    <3>3. T[i].place + T[i].section >= i + 2
      BY ONLY <2>5, <3>1, <3>2, GetsOn, Zenon
    <3>4. QED
      BY <2>2, <3>3
  <2>6. QED
    BY <2>2, <2>4, <2>5
<1>5. Wrong = {}
  <2>1. SUFFICES ASSUME Wrong # {} PROVE FALSE
    OBVIOUS
  <2> DEFINE m == Min(Wrong)
  <2>2. Wrong \in SUBSET Nat
    BY <1>1
  <2> HIDE DEF Right
  <2>3. m \in Wrong /\ \A k \in Wrong : m <= k
    <3> HIDE DEF Wrong
    <3>1. QED
      BY ONLY <2>1, <2>2, MinProperties, Zenon
  <2> HIDE DEF m
  <2>4. m \in 0..N /\ ~Right(m)
    BY <2>3
  <2>5. m # 0
    BY <1>3, <2>4
  <2>6. m - 1 \in 0..N /\ ~(m <= m - 1)
    BY <1>1, <2>4, <2>5
  <2>7. Right(m - 1)
    BY <2>3, <2>6
  <2>8. QED
    BY <1>4, <2>4, <2>5, <2>7
<1>6. QED
  BY <1>5, Zenon DEF T

\* The difference of a listing and the folder.
LEMMA DiffIs ==
    ASSUME IsFolder(folder), NEW old, ListingOK(old)
    PROVE  LET d == Diff(old)
           IN  /\ d.out \in Seq(SectionType) /\ d.lines \in Seq(LineType)
               /\ \A s \in Range(d.out) : RightSection(old, s)
               /\ {s.dir : s \in Range(d.out)} = DOMAIN folder
               /\ \A i, j \in DOMAIN d.out : d.out[i].dir = d.out[j].dir => i = j
               /\ Differ(AllOf(d.out), Added(d.lines), Removed(d.lines), AllOf(old),
                         Doubled(old))
<1> DEFINE N == Len(Walk) + Len(old)
           d == Diff(old)
<1>1. Len(Walk) \in Nat /\ Len(old) \in Nat /\ N \in 0..N /\ old \in Seq(SectionType)
  BY ShareAssumption DEF ShareAssumption, ListingOK
<1>2. /\ AccOK(old, d)
      /\ \/ d.place + d.section >= N + 2
         \/ d.place > Len(Walk) /\ d.section > Len(old)
  BY <1>1, TurnsOK, Zenon DEF Diff
<1> HIDE DEF d
<1>3. d.place = Len(Walk) + 1 /\ d.section = Len(old) + 1
  <2>1. d.place \in 1 .. Len(Walk) + 1 /\ d.section \in 1 .. Len(old) + 1
    BY <1>1, <1>2, AccHas, Zenon
  <2>2. QED
    BY <1>1, <1>2, <2>1
<1>4. d.out \in Seq(SectionType) /\ d.lines \in Seq(LineType)
  BY <1>1, <1>2, AccHas, Zenon
<1>5. EntriesBefore(old, d.section) = AllOf(old)
  <2>1. DOMAIN old = 1 .. d.section - 1
    BY <1>1, <1>3
  <2>2. ASSUME NEW e
        PROVE  e \in EntriesBefore(old, d.section) <=> e \in AllOf(old)
    BY <2>1 DEF EntriesBefore, AllOf, Range
  <2>3. QED
    BY <2>2
<1>6. 1 .. d.place - 1 = 1..Len(Walk)
  BY <1>1, <1>3
<1>7. {s.dir : s \in Range(d.out)} = DOMAIN folder
  <2>1. \A s \in Range(d.out) : s.dir \in DOMAIN folder
    BY <1>2, Zenon DEF AccOK, OutOK, RightSection
  <2>2. ASSUME NEW x \in DOMAIN folder PROVE \E s \in Range(d.out) : s.dir = x
    <3>1. x \in Dir
      BY FolderHas
    <3>2. DOMAIN Walk = 1..Len(Walk)
      BY ShareAssumption DEF ShareAssumption
    <3>3. PICK k \in 1..Len(Walk) : Walk[k] = x
      BY <3>1, <3>2, Zenon DEF Dir, Range
    <3>4. QED
      BY <1>2, <1>6, <3>3, Zenon DEF AccOK, OutOK
  <2>3. QED
    BY <2>1, <2>2
<1>8. QED
  BY <1>2, <1>4, <1>5, <1>7, Zenon DEF AccOK, OutOK, d
-----------------------------------------------------------------------------
(* Packets *)

\* A line has its types.
LEMMA LinesHave ==
    ASSUME NEW lines \in Seq(LineType)
    PROVE  /\ DOMAIN lines = 1..Len(lines) /\ Len(lines) \in Nat
           /\ \A i \in DOMAIN lines : lines[i] \in LineType
           /\ \A i \in DOMAIN lines : lines[i].op \in {"+", "-"} /\ lines[i].entry \in Entry
           /\ \A i \in DOMAIN lines : lines[i] = [op |-> lines[i].op, entry |-> lines[i].entry]
<1>1. \A l \in LineType : l.op \in {"+", "-"} /\ l.entry \in Entry
                          /\ l = [op |-> l.op, entry |-> l.entry]
  BY DEF LineType
<1>2. /\ DOMAIN lines = 1..Len(lines) /\ Len(lines) \in Nat
      /\ \A i \in DOMAIN lines : lines[i] \in LineType
  OBVIOUS
<1>3. QED
  BY <1>1, <1>2, Zenon

\* An entry that occurs has a last line.
LEMMA LastLine ==
    ASSUME NEW lines \in Seq(LineType), NEW e, \E i \in DOMAIN lines : lines[i].entry = e
    PROVE  \E i \in DOMAIN lines :
              lines[i].entry = e /\ \A j \in DOMAIN lines : j > i => lines[j].entry # e
<1> DEFINE I == {k \in Nat : k < Len(lines) /\ lines[Len(lines) - k].entry = e}
           m == Min(I)
<1>1. DOMAIN lines = 1..Len(lines) /\ Len(lines) \in Nat
  BY LinesHave
<1>2. PICK i \in DOMAIN lines : lines[i].entry = e
  OBVIOUS
<1>3. Len(lines) - (Len(lines) - i) = i /\ Len(lines) - i \in Nat /\ Len(lines) - i < Len(lines)
  BY <1>1
<1>4. Len(lines) - i \in I
  BY <1>2, <1>3
<1>5. m \in I /\ \A k \in I : m <= k
  <2>1. I \in SUBSET Nat /\ I # {}
    BY <1>4
  <2> HIDE DEF I
  <2>2. QED
    BY <2>1, MinProperties, Zenon
<1> HIDE DEF m
<1>6. m \in Nat /\ m < Len(lines) /\ lines[Len(lines) - m].entry = e
  BY <1>5
<1>7. ASSUME NEW j \in DOMAIN lines, j > Len(lines) - m PROVE lines[j].entry # e
  <2>1. SUFFICES ASSUME lines[j].entry = e PROVE FALSE
    OBVIOUS
  <2>2. Len(lines) - (Len(lines) - j) = j /\ Len(lines) - j \in Nat /\ Len(lines) - j < Len(lines)
    BY <1>1
  <2>3. Len(lines) - j \in I
    BY <2>1, <2>2
  <2>4. m <= Len(lines) - j
    BY <1>5, <2>3
  <2>5. QED
    BY <1>1, <1>6, <1>7, <2>4
<1>8. Len(lines) - m \in DOMAIN lines
  BY <1>1, <1>6
<1>9. QED
  BY <1>6, <1>7, <1>8, Zenon

\* An entry without lines stays in or out; lines of one kind decide.
LEMMA ApplyIs ==
    ASSUME NEW lines \in Seq(LineType), NEW entries, NEW e \in Entry
    PROVE  /\ (\A l \in Range(lines) : l.entry # e)
                  => (e \in Apply(entries, lines) <=> e \in entries)
           /\ \A o \in {"+", "-"} :
                 /\ \E l \in Range(lines) : l.entry = e
                 /\ \A l \in Range(lines) : l.entry = e => l.op = o
                 => (e \in Apply(entries, lines) <=> o = "+")
<1>1. /\ DOMAIN lines = 1..Len(lines) /\ Len(lines) \in Nat
      /\ \A i \in DOMAIN lines : lines[i] = [op |-> lines[i].op, entry |-> lines[i].entry]
  BY LinesHave, Zenon
<1>2. \A i \in DOMAIN lines : lines[i] \in Range(lines)
  BY Zenon DEF Range
<1>3. \A l \in Range(lines) : \E i \in DOMAIN lines : lines[i] = l
  BY Zenon DEF Range
<1>4. [op |-> "+", entry |-> e].op = "+" /\ [op |-> "+", entry |-> e].entry = e
  OBVIOUS
<1>5. ASSUME \A l \in Range(lines) : l.entry # e
      PROVE  e \in Apply(entries, lines) <=> e \in entries
  <2>1. \A i \in DOMAIN lines : lines[i].entry # e
    BY <1>2, <1>5
  <2>2. QED
    BY <1>4, <2>1, Zenon DEF Apply
<1>6. ASSUME NEW o \in {"+", "-"}, \E l \in Range(lines) : l.entry = e,
             \A l \in Range(lines) : l.entry = e => l.op = o
      PROVE  e \in Apply(entries, lines) <=> o = "+"
  <2>1. \E i \in DOMAIN lines : lines[i].entry = e
    BY <1>3, <1>6, Zenon
  <2>2. PICK i \in DOMAIN lines :
               lines[i].entry = e /\ \A j \in DOMAIN lines : j > i => lines[j].entry # e
    BY <2>1, LastLine, Zenon
  <2>3. lines[i].op = o
    BY <1>2, <1>6, <2>2, Zenon
  <2>4. ASSUME o = "+" PROVE e \in Apply(entries, lines)
    <3>1. lines[i] = [op |-> "+", entry |-> e]
      BY <1>1, <2>2, <2>3, <2>4, Zenon
    <3>2. QED
      BY <2>2, <3>1, Zenon DEF Apply
  <2>5. ASSUME e \in Apply(entries, lines) PROVE o = "+"
    <3>1. PICK j \in DOMAIN lines : lines[j] = [op |-> "+", entry |-> e]
      BY <2>1, <2>5, Zenon DEF Apply
    <3>2. QED
      BY <1>2, <1>4, <1>6, <3>1, Zenon
  <2>6. QED
    BY <2>4, <2>5
<1>7. QED
  BY <1>5, <1>6, Zenon

\* Each line has a packet that starts at most MaxLines - 1 lines before it.
LEMMA StartBefore ==
    ASSUME NEW lines \in Seq(LineType), NEW i \in DOMAIN lines
    PROVE  \E j \in Starts(lines) : j <= i /\ i <= j + MaxLines - 1
<1> DEFINE K == {k \in Nat : i <= k * MaxLines + MaxLines}
           m == Min(K)
<1>1. MaxLines \in Nat /\ MaxLines >= 1
  BY ShareAssumption DEF ShareAssumption
<1>2. DOMAIN lines = 1..Len(lines) /\ Len(lines) \in Nat /\ i \in Nat
  BY LinesHave
<1>3. i \in K
  <2>1. i <= i * MaxLines
    BY <1>1, <1>2
  <2>2. i * MaxLines \in Nat
    BY <1>1, <1>2
  <2>3. QED
    BY <1>1, <1>2, <2>1, <2>2
<1>4. m \in K /\ \A k \in K : m <= k
  <2>1. K \in SUBSET Nat /\ K # {}
    BY <1>3
  <2> HIDE DEF K
  <2>2. QED
    BY <2>1, MinProperties, Zenon
<1> HIDE DEF m
<1>5. m \in Nat /\ m <= i /\ i <= m * MaxLines + MaxLines /\ m * MaxLines \in Nat
  <2>1. m \in Nat /\ i <= m * MaxLines + MaxLines
    BY <1>4
  <2>2. m <= i
    BY <1>3, <1>4, Zenon
  <2>3. m * MaxLines \in Nat
    BY <1>1, <2>1
  <2>4. QED
    BY <2>1, <2>2, <2>3
<1>6. m * MaxLines < i
  <2>1. CASE m = 0
    BY <1>1, <1>2, <2>1
  <2>2. CASE m # 0
    <3>1. m - 1 \in Nat /\ m - 1 \notin K
      <4>1. m - 1 \in Nat /\ ~(m <= m - 1)
        BY <1>5, <2>2
      <4>2. QED
        BY <1>4, <4>1
    <3>2. ~(i <= (m - 1) * MaxLines + MaxLines)
      BY <3>1
    <3>3. (m - 1) * MaxLines + MaxLines = m * MaxLines
      BY <1>1, <1>5
    <3>4. QED
      BY <1>2, <1>5, <3>2, <3>3
  <2>3. QED
    BY <2>1, <2>2
<1>7. m \in 0..Len(lines) /\ m * MaxLines + 1 \in DOMAIN lines
  BY <1>2, <1>5, <1>6
<1>8. m * MaxLines + 1 \in Starts(lines)
  BY <1>7, Zenon DEF Starts
<1>9. m * MaxLines + 1 <= i /\ i <= m * MaxLines + 1 + MaxLines - 1
  BY <1>1, <1>2, <1>5, <1>6
<1>10. QED
  BY <1>8, <1>9

\* The lines of a packet.
LEMMA SubSeqOfLines ==
    ASSUME NEW lines \in Seq(LineType), NEW i \in 1..Len(lines), NEW j \in i..Len(lines)
    PROVE  /\ SubSeq(lines, i, j) \in Seq(LineType)
           /\ Len(SubSeq(lines, i, j)) = j - i + 1
           /\ Range(SubSeq(lines, i, j)) = {lines[k] : k \in i..j}
<1> DEFINE q == SubSeq(lines, i, j)
<1>1. /\ q \in Seq(LineType) /\ Len(q) = j - i + 1 /\ DOMAIN q = 1 .. j - i + 1
      /\ \A k \in 1 .. j - i + 1 : q[k] = lines[i + k - 1]
  OBVIOUS
<1> HIDE DEF q
<1>2. ASSUME NEW k \in i..j PROVE k - i + 1 \in DOMAIN q /\ q[k - i + 1] = lines[k]
  BY <1>1
<1>3. ASSUME NEW k \in DOMAIN q PROVE i + k - 1 \in i..j /\ q[k] = lines[i + k - 1]
  BY <1>1
<1>4. Range(q) = {lines[k] : k \in i..j}
  <2>1. ASSUME NEW x \in Range(q) PROVE x \in {lines[k] : k \in i..j}
    BY <1>3 DEF Range
  <2>2. ASSUME NEW k \in i..j PROVE lines[k] \in Range(q)
    BY <1>2 DEF Range
  <2>3. QED
    BY <2>1, <2>2, Zenon
<1>5. QED
  BY <1>1, <1>4 DEF q

\* The packets have the lines, and are not too long.
LEMMA PacketsAre ==
    ASSUME NEW lines \in Seq(LineType)
    PROVE  /\ \A p \in Packets(lines) : p.lines \in Seq(LineType) /\ Len(p.lines) \in 1..MaxLines
           /\ LinesIn(Packets(lines)) = Range(lines)
<1> DEFINE end(i) == Min({i + MaxLines - 1, Len(lines)})
           packet(i) == [time |-> now, lines |-> SubSeq(lines, i, end(i))]
<1>1. MaxLines \in Nat /\ MaxLines >= 1
  BY ShareAssumption DEF ShareAssumption
<1>2. DOMAIN lines = 1..Len(lines) /\ Len(lines) \in Nat
  BY LinesHave
<1>3. Packets(lines) = {packet(i) : i \in Starts(lines)}
  BY Zenon DEF Packets
<1>4. \A i \in Starts(lines) : i \in 1..Len(lines)
  BY <1>2 DEF Starts
<1>5. ASSUME NEW i \in Starts(lines)
      PROVE  /\ end(i) \in i..Len(lines) /\ end(i) - i + 1 \in 1..MaxLines
             /\ \A k \in i..Len(lines) : k <= i + MaxLines - 1 => k \in i..end(i)
  <2>1. i \in 1..Len(lines) /\ i + MaxLines - 1 \in Nat
    BY <1>1, <1>4
  <2>2. end(i) = IF i + MaxLines - 1 <= Len(lines) THEN i + MaxLines - 1 ELSE Len(lines)
    BY <1>2, <2>1, MinOfTwo
  <2> HIDE DEF end
  <2>3. QED
    BY <1>1, <1>2, <2>1, <2>2
<1> HIDE DEF end
<1>6. ASSUME NEW i \in Starts(lines)
      PROVE  /\ packet(i).lines \in Seq(LineType) /\ Len(packet(i).lines) \in 1..MaxLines
             /\ Range(packet(i).lines) = {lines[k] : k \in i..end(i)}
  <2>1. packet(i).lines = SubSeq(lines, i, end(i))
    OBVIOUS
  <2> HIDE DEF packet
  <2>2. QED
    BY <1>4, <1>5, <2>1, SubSeqOfLines
<1> HIDE DEF packet
<1>7. ASSUME NEW l \in LinesIn(Packets(lines)) PROVE l \in Range(lines)
  <2>1. PICK i \in Starts(lines) : l \in Range(packet(i).lines)
    BY <1>3 DEF LinesIn
  <2>2. PICK k \in i..end(i) : l = lines[k]
    BY <1>6, <2>1
  <2>3. k \in DOMAIN lines
    BY <1>2, <1>4, <1>5
  <2>4. QED
    BY <2>2, <2>3, Zenon DEF Range
<1>8. ASSUME NEW k \in DOMAIN lines PROVE lines[k] \in LinesIn(Packets(lines))
  <2>1. PICK i \in Starts(lines) : i <= k /\ k <= i + MaxLines - 1
    BY StartBefore
  <2>2. k \in i..end(i)
    BY <1>2, <1>4, <1>5, <2>1
  <2>3. lines[k] \in Range(packet(i).lines)
    BY <1>6, <2>2
  <2>4. QED
    BY <1>3, <2>3 DEF LinesIn
<1>9. LinesIn(Packets(lines)) = Range(lines)
  BY <1>7, <1>8 DEF Range
<1>10. QED
  BY <1>3, <1>6, <1>9
-----------------------------------------------------------------------------
(* The invariant *)

PacketOK(p) == p.lines \in Seq(LineType) /\ Len(p.lines) \in 1..MaxLines

Typed ==
    /\ IsFolder(folder)
    /\ share_file \in Seq(SectionType)
    /\ \A i, j \in DOMAIN share_file : share_file[i].dir = share_file[j].dir => i = j
    /\ \A p \in unacked : PacketOK(p)
    /\ indexed \subseteq Entry
    /\ is_sp \in BOOLEAN
    /\ now \in 1..MaxTime
    /\ doubtful \subseteq Entry /\ lost \subseteq Entry

\* A directory of the folder, or a section of the listing, was made before t.
Before(d, t) == d.mtime < t /\ \A n \in DOMAIN d.files : d.files[n].mtime < t

Past ==
    /\ \A d \in DOMAIN folder : Before(folder[d], now)
    /\ \A i \in DOMAIN share_file : Before(share_file[i], now)

\* Files of one name and mtime are the same.
OneFile == \A d \in DOMAIN folder : Known(folder[d])

\* All lines of an entry that are on their way say what is listed; without one,
\* the index does.
FaithfulFor(e) ==
    /\ \A l \in LinesIn(unacked) : l.entry = e => (l.op = "+" <=> e \in Listed)
    /\ e \notin Sent(unacked) => (e \in indexed <=> e \in Listed)

Faithful == share_file # <<>> => \A e \in Entry \ (doubtful \cup lost) : FaithfulFor(e)

ShareInv ==
    /\ Typed
    /\ Past
    /\ OneFile
    /\ ListingOK(share_file)
    /\ Faithful

\* The operations on sets of packets.
LEMMA LinesInUnion ==
    ASSUME NEW P, NEW Q
    PROVE  LinesIn(P \cup Q) = LinesIn(P) \cup LinesIn(Q) /\ LinesIn({}) = {}
BY DEF LinesIn

\* The lines of packets are lines, and their entries are entries.
LEMMA LinesInType ==
    ASSUME NEW P, \A p \in P : p.lines \in Seq(LineType)
    PROVE  /\ \A l \in LinesIn(P) : l \in LineType /\ l.op \in {"+", "-"} /\ l.entry \in Entry
           /\ Sent(P) \subseteq Entry
<1>1. ASSUME NEW l \in LinesIn(P) PROVE l \in LineType
  <2>1. PICK p \in P : l \in Range(p.lines)
    BY DEF LinesIn
  <2>2. p.lines \in Seq(LineType)
    OBVIOUS
  <2>3. PICK i \in DOMAIN p.lines : l = p.lines[i]
    BY <2>1, Zenon DEF Range
  <2>4. QED
    BY <2>2, <2>3, LinesHave, Zenon
<1>2. \A l \in LineType : l.op \in {"+", "-"} /\ l.entry \in Entry
  BY DEF LineType
<1>3. QED
  BY <1>1, <1>2 DEF Sent

\* An entry in lines of both kinds is contradicted.
LEMMA NotContradicted ==
    ASSUME NEW L, NEW e, e \notin Contradicted(L), NEW l \in L, NEW m \in L,
           l.entry = e, m.entry = e, l.op \in {"+", "-"}, m.op \in {"+", "-"}
    PROVE  l.op = m.op
BY DEF Contradicted

\* The new listing and the lines of the difference agree with what is on its way.
LEMMA PublishFaithful ==
    ASSUME IsFolder(folder), NEW old, ListingOK(old), NEW sp, NEW entries, NEW packets,
           Publish(sp, old, entries, packets),
           entries \subseteq Entry,
           \A p \in packets : p.lines \in Seq(LineType),
           \/ old = <<>>
           \/ \A e \in Entry \ (doubtful' \cup lost') :
                 /\ \A l \in LinesIn(packets) : l.entry = e => (l.op = "+" <=> e \in AllOf(old))
                 /\ e \notin Sent(packets) => (e \in entries <=> e \in AllOf(old))
    PROVE  Faithful'
<1> DEFINE d == Diff(old)
           L == Range(d.lines)
           sent == IF sp THEN {} ELSE Packets(d.lines)
<1>1. /\ share_file' = d.out
      /\ indexed' = IF sp THEN Apply(entries, d.lines) ELSE entries
      /\ unacked' = packets \cup sent
      /\ doubtful' = doubtful \cup Doubled(old) \cup Doubled(d.out)
               \cup Contradicted(L \cup LinesIn(packets))
               \cup IF old = <<>> THEN (entries \cup Sent(packets)) \ AllOf(d.out) ELSE {}
  BY Zenon DEF Publish
<1>2. /\ d.lines \in Seq(LineType)
      /\ Differ(AllOf(d.out), Added(d.lines), Removed(d.lines), AllOf(old), Doubled(old))
  BY DiffIs, Zenon
<1>3. LinesIn(unacked') = LinesIn(packets) \cup IF sp THEN {} ELSE L
  <2> HIDE DEF d
  <2>1. LinesIn(Packets(d.lines)) = L
    BY <1>2, PacketsAre, Zenon
  <2>2. QED
    BY <1>1, <2>1, LinesInUnion
<1>4. \A l \in L : l \in LineType /\ l.op \in {"+", "-"} /\ l.entry \in Entry
  <2> HIDE DEF d
  <2>1. ASSUME NEW l \in L PROVE l \in LineType /\ l.op \in {"+", "-"} /\ l.entry \in Entry
    <3>1. PICK i \in DOMAIN d.lines : l = d.lines[i]
      BY DEF Range
    <3>2. QED
      BY <1>2, <3>1, LinesHave, Zenon
  <2>2. QED
    BY <2>1
<1>5. \A l \in LinesIn(packets) : l.op \in {"+", "-"}
  BY LinesInType, Zenon
<1>6. AllOf(<<>>) = {}
  BY DEF AllOf, Range
<1> HIDE DEF d, L, sent
<1>7. ASSUME NEW e \in Entry, e \notin doubtful', e \notin lost'
      PROVE  /\ \A l \in LinesIn(unacked') : l.entry = e => (l.op = "+" <=> e \in AllOf(d.out))
             /\ (\A l \in LinesIn(unacked') : l.entry # e)
                   => (e \in indexed' <=> e \in AllOf(d.out))
  <2>1. /\ e \notin Contradicted(L \cup LinesIn(packets))
        /\ e \notin Doubled(old)
        /\ old = <<>> => e \notin (entries \cup Sent(packets)) \ AllOf(d.out)
    BY <1>1, <1>7
  <2>2. CASE \E l \in L : l.entry = e
    <3>1. PICK m \in L : m.entry = e
      BY <2>2
    <3>2. \A l \in L \cup LinesIn(packets) : l.entry = e => l.op = m.op
      BY <1>4, <1>5, <2>1, <3>1, NotContradicted
    <3>3. m.op = "+" <=> e \in AllOf(d.out)
      <4>1. m.op = "+" => e \in Added(d.lines)
        BY <3>1 DEF Added, L
      <4>2. m.op = "-" => e \in Removed(d.lines)
        BY <3>1 DEF Removed, L
      <4>3. e \in Added(d.lines) => m.op = "+"
        BY <3>2 DEF Added, L
      <4>4. m.op \in {"+", "-"}
        BY <1>4
      <4>5. QED
        BY <1>2, <2>1, <4>1, <4>2, <4>3, <4>4 DEF Differ
    <3>4. \A l \in LinesIn(unacked') : l.entry = e => l.op = m.op
      BY <1>3, <3>2
    <3>5. ASSUME \A l \in LinesIn(unacked') : l.entry # e
          PROVE  e \in indexed' <=> m.op = "+"
      <4>1. sp
        BY <1>3, <3>1, <3>5
      <4>2. indexed' = Apply(entries, d.lines)
        BY <1>1, <4>1
      <4>3. QED
        BY <1>2, <1>4, <3>1, <3>2, <4>2, ApplyIs DEF L
    <3>6. QED
      BY <3>3, <3>4, <3>5
  <2>3. CASE \A l \in L : l.entry # e
    <3>1. e \in AllOf(d.out) <=> e \in AllOf(old)
      <4>1. e \notin Added(d.lines) /\ e \notin Removed(d.lines)
        BY <2>3 DEF Added, Removed, L
      <4>2. QED
        BY <1>2, <4>1 DEF Differ
    <3>2. e \in indexed' <=> e \in entries
      BY <1>1, <1>2, <2>3, ApplyIs DEF L
    <3>3. \A l \in LinesIn(unacked') : l.entry = e => l \in LinesIn(packets)
      BY <1>3, <2>3
    <3>4. \A l \in LinesIn(packets) : l \in LinesIn(unacked')
      BY <1>3
    <3>5. e \in Sent(packets) <=> \E l \in LinesIn(packets) : l.entry = e
      BY DEF Sent
    <3>6. CASE old = <<>>
      BY <1>6, <2>1, <3>1, <3>2, <3>3, <3>5, <3>6
    <3>7. CASE old # <<>>
      <4>1. /\ \A l \in LinesIn(packets) : l.entry = e => (l.op = "+" <=> e \in AllOf(old))
            /\ e \notin Sent(packets) => (e \in entries <=> e \in AllOf(old))
        BY <1>7, <3>7
      <4>2. QED
        BY <3>1, <3>2, <3>3, <3>4, <3>5, <4>1
    <3>8. QED
      BY <3>6, <3>7
  <2>4. QED
    BY <2>2, <2>3
<1>8. \A e : e \notin Sent(unacked)' => \A l \in LinesIn(unacked') : l.entry # e
  BY DEF Sent
<1>9. QED
  BY <1>1, <1>7, <1>8 DEF Faithful, FaithfulFor, Listed

\* What was made before a time was made before the next.
LEMMA BeforeLater ==
    ASSUME NEW d, d.mtime \in Time, d.files \in FilesType, NEW t \in Nat, Before(d, t)
    PROVE  Before(d, t + 1)
<1>1. \A x \in Time : x < t => x < t + 1
  BY DEF Time
<1>2. \A n \in DOMAIN d.files : d.files[n].mtime \in Time
  BY FilesAre DEF File
<1>3. QED
  BY <1>1, <1>2 DEF Before

\* The new listing is as good as the one before.
LEMMA NewListing ==
    ASSUME IsFolder(folder), OneFile, now \in Nat,
           \A d \in DOMAIN folder : Before(folder[d], now),
           NEW old, ListingOK(old)
    PROVE  LET out == Diff(old).out
           IN  /\ ListingOK(out)
               /\ \A i \in DOMAIN out : Before(out[i], now)
<1> DEFINE out == Diff(old).out
<1>1. /\ out \in Seq(SectionType)
      /\ \A s \in Range(out) : RightSection(old, s)
  BY DiffIs, Zenon
<1> HIDE DEF out
<1>2. \A s \in Range(old) : Known(s)
  BY Zenon DEF ListingOK, Range
<1>3. ASSUME NEW i \in DOMAIN out
      PROVE  Fits(out[i]) /\ Known(out[i]) /\ Before(out[i], now)
  <2> DEFINE s == out[i]
             d == folder[s.dir]
  <2>1. s \in Range(out) /\ s \in SectionType
    BY <1>1 DEF Range
  <2>2. /\ s.dir \in DOMAIN folder
        /\ s.mtime = d.mtime
        /\ DOMAIN s.files = DOMAIN d.files
        /\ \A n \in DOMAIN d.files :
              \/ s.files[n] = d.files[n]
              \/ s \in Range(old) /\ s.files[n].mtime < d.files[n].mtime
    BY <1>1, <2>1, Zenon DEF RightSection
  <2>3. s.files \in FilesType /\ d.files \in FilesType /\ Known(d) /\ Before(d, now)
    BY <2>1, <2>2, SectionHas, FolderHas, Zenon DEF OneFile
  <2> HIDE DEF s, d
  <2>4. Known(s)
    <3>1. ASSUME NEW n \in DOMAIN s.files, s.files[n] = d.files[n], NEW e \in DOMAIN folder,
                 n \in DOMAIN folder[e].files, s.files[n].mtime = folder[e].files[n].mtime
          PROVE  s.files[n] = folder[e].files[n]
      BY <2>2, <2>3, <3>1 DEF Known
    <3>2. QED
      BY <1>2, <2>2, <3>1, Zenon DEF Known
  <2>5. Before(s, now)
    <3>1. \A n \in DOMAIN d.files : s.files[n].mtime \in Int /\ d.files[n].mtime \in Int
      BY <2>2, <2>3, FilesAre DEF File, Time
    <3>2. \A n \in DOMAIN d.files : d.files[n].mtime < now
      BY <2>3 DEF Before
    <3>3. \A n \in DOMAIN s.files : s.files[n].mtime < now
      BY <2>2, <3>1, <3>2
    <3>4. QED
      BY <2>2, <2>3, <3>3 DEF Before
  <2>6. Fits(s)
    BY <2>2, Zenon DEF Fits, d
  <2>7. QED
    BY <2>4, <2>5, <2>6 DEF s
<1>4. ListingOK(out)
  BY <1>1, <1>3, Zenon DEF ListingOK
<1>5. QED
  BY <1>3, <1>4, Zenon DEF out

\* All but Faithful after a difference is published.
LEMMA PublishKeeps ==
    ASSUME IsFolder(folder), OneFile, now \in Nat,
           \A d \in DOMAIN folder : Before(folder[d], now),
           NEW old, ListingOK(old), NEW sp \in BOOLEAN, NEW entries, NEW packets,
           Publish(sp, old, entries, packets), folder' = folder,
           entries \subseteq Entry, \A p \in packets : PacketOK(p), doubtful \subseteq Entry
    PROVE  /\ ListingOK(share_file)'
           /\ \A i \in DOMAIN share_file' : Before(share_file'[i], now)
           /\ \A i, j \in DOMAIN share_file' : share_file'[i].dir = share_file'[j].dir => i = j
           /\ \A p \in unacked' : PacketOK(p)
           /\ indexed' \subseteq Entry /\ is_sp' \in BOOLEAN /\ doubtful' \subseteq Entry
<1> DEFINE d == Diff(old)
           sent == IF sp THEN {} ELSE Packets(d.lines)
<1>1. /\ share_file' = d.out /\ is_sp' = sp
      /\ indexed' = IF sp THEN Apply(entries, d.lines) ELSE entries
      /\ unacked' = packets \cup sent
      /\ doubtful' = doubtful \cup Doubled(old) \cup Doubled(d.out)
               \cup Contradicted(Range(d.lines) \cup LinesIn(packets))
               \cup IF old = <<>> THEN (entries \cup Sent(packets)) \ AllOf(d.out) ELSE {}
  BY Zenon DEF Publish
<1>2. /\ d.lines \in Seq(LineType)
      /\ \A i, j \in DOMAIN d.out : d.out[i].dir = d.out[j].dir => i = j
  BY DiffIs, Zenon
<1>3. /\ ListingOK(d.out)
      /\ \A i \in DOMAIN d.out : Before(d.out[i], now)
  BY NewListing, Zenon
<1> HIDE DEF d
<1>4. ListingOK(share_file)'
  <2>1. share_file' = d.out /\ folder' = folder /\ ListingOK(d.out)
    BY <1>1, <1>3, Zenon
  <2>2. \A i \in DOMAIN d.out : Fits(d.out[i]) /\ Known(d.out[i])
    BY <2>1, Zenon DEF ListingOK
  <2>3. ASSUME NEW i \in DOMAIN d.out PROVE Fits(share_file[i])' /\ Known(share_file[i])'
    <3>1. share_file'[i] = d.out[i] /\ Fits(d.out[i]) /\ Known(d.out[i])
      BY <2>1, <2>2, <2>3, Zenon
    <3>2. Fits(share_file[i])'
      BY ONLY <2>1, <3>1 DEF Fits
    <3>3. Known(share_file[i])'
      BY ONLY <2>1, <3>1 DEF Known
    <3>4. QED
      BY <3>2, <3>3
  <2>4. QED
    BY <2>1, <2>3, Zenon DEF ListingOK
<1>5. \A p \in unacked' : PacketOK(p)
  <2>1. \A p \in Packets(d.lines) : PacketOK(p)
    BY <1>2, PacketsAre, Zenon DEF PacketOK
  <2>2. QED
    BY <1>1, <2>1
<1>6. indexed' \subseteq Entry
  <2>1. Apply(entries, d.lines) \subseteq Entry
    BY DEF Apply
  <2>2. QED
    BY <1>1, <2>1
<1>7. doubtful' \subseteq Entry
  <2>1. \A p \in packets : p.lines \in Seq(LineType)
    BY DEF PacketOK
  <2>2. Sent(packets) \subseteq Entry /\ \A l \in LinesIn(packets) : l.entry \in Entry
    BY <2>1, LinesInType, Zenon
  <2>3. \A l \in Range(d.lines) : l.entry \in Entry
    <3>1. ASSUME NEW l \in Range(d.lines) PROVE l.entry \in Entry
      <4>1. PICK i \in DOMAIN d.lines : l = d.lines[i]
        BY Zenon DEF Range
      <4>2. QED
        BY <1>2, <4>1, LinesHave, Zenon
    <3>2. QED
      BY <3>1
  <2>4. Contradicted(Range(d.lines) \cup LinesIn(packets)) \subseteq Entry
    BY <2>2, <2>3 DEF Contradicted
  <2>5. Doubled(old) \subseteq Entry /\ Doubled(d.out) \subseteq Entry
    BY DEF Doubled
  <2>6. QED
    BY <1>1, <2>2, <2>4, <2>5
<1>8. QED
  BY <1>1, <1>2, <1>3, <1>4, <1>5, <1>6, <1>7
-----------------------------------------------------------------------------
(* Changes of the folder *)

\* A directory of f is touched now, or only its files are.
Touched(f, d) ==
    \/ f[d].mtime = now
    \/ /\ d \in DOMAIN folder
       /\ f[d].mtime = folder[d].mtime
       /\ DOMAIN f[d].files = DOMAIN folder[d].files
       /\ \A n \in DOMAIN f[d].files :
             f[d].files[n] = folder[d].files[n] \/ f[d].files[n].mtime = now

\* A file of f is w or was in the folder.
Kept(f, w) ==
    \A d \in DOMAIN f : \A n \in DOMAIN f[d].files :
        \/ f[d].files[n] = w
        \/ \E e \in DOMAIN folder :
              n \in DOMAIN folder[e].files /\ f[d].files[n] = folder[e].files[n]

\* What the user may do to the folder keeps the invariant: a file of the new folder is
\* written now or is an old one, and a directory that has other names is touched.
LEMMA ChangedKeeps ==
    ASSUME ShareInv, NEW f, Changed(f), NEW w, w.mtime = now,
           IsFolder(f), \A d \in DOMAIN f : Touched(f, d), Kept(f, w)
    PROVE  ShareInv'
<1>1. /\ IsFolder(folder) /\ share_file \in Seq(SectionType) /\ now \in 1..MaxTime
      /\ OneFile /\ ListingOK(share_file) /\ Faithful
      /\ \A d \in DOMAIN folder : Before(folder[d], now)
      /\ \A i \in DOMAIN share_file : Before(share_file[i], now)
  BY DEF ShareInv, Typed, Past
<1>2. /\ now < MaxTime /\ now' = now + 1 /\ folder' = f
      /\ UNCHANGED <<share_file, unacked, indexed, is_sp, doubtful, lost>>
  BY DEF Changed, Tick
<1>3. /\ MaxTime \in Nat /\ now \in Nat /\ now' \in 1..MaxTime
  BY <1>1, <1>2, ShareAssumption DEF ShareAssumption
<1>4. \A d \in DOMAIN f : f[d].mtime \in Time /\ f[d].files \in FilesType
  BY FoldersAre DEF DirectoryType
<1>5. \A d \in DOMAIN folder : folder[d].mtime \in Time /\ folder[d].files \in FilesType
  BY <1>1, FolderHas
<1>6. ASSUME NEW d \in DOMAIN folder, NEW n \in DOMAIN folder[d].files
      PROVE  folder[d].files[n].mtime < now /\ folder[d].files[n].mtime \in Int
  BY <1>1, <1>5, FilesAre DEF Before, File, Time
<1>7. ASSUME NEW d \in DOMAIN f
      PROVE  Before(f[d], now + 1)
  <2>1. f[d].mtime < now + 1
    <3>1. CASE f[d].mtime = now
      BY <1>3, <3>1
    <3>2. CASE d \in DOMAIN folder /\ f[d].mtime = folder[d].mtime
      BY <1>1, <1>3, <1>5, <3>2 DEF Before, Time
    <3>3. QED
      BY <3>1, <3>2 DEF Touched
  <2>2. ASSUME NEW n \in DOMAIN f[d].files PROVE f[d].files[n].mtime < now + 1
    <3>1. CASE f[d].files[n] = w
      BY <1>3, <3>1
    <3>2. CASE \E e \in DOMAIN folder :
                  n \in DOMAIN folder[e].files /\ f[d].files[n] = folder[e].files[n]
      BY <1>3, <1>6, <3>2
    <3>3. QED
      BY <3>1, <3>2 DEF Kept
  <2>3. QED
    BY <2>1, <2>2 DEF Before
<1>8. ASSUME NEW d \in DOMAIN share_file PROVE Before(share_file[d], now + 1)
  <2>1. share_file[d] \in SectionType
    BY <1>1
  <2>2. QED
    BY <1>1, <1>3, <2>1, SectionHas, BeforeLater, Zenon
<1>9. ASSUME NEW d \in DOMAIN f, NEW n \in DOMAIN f[d].files,
             NEW e \in DOMAIN f, n \in DOMAIN f[e].files,
             f[d].files[n].mtime = f[e].files[n].mtime
      PROVE  f[d].files[n] = f[e].files[n]
  <2>1. \A x \in DOMAIN f : n \in DOMAIN f[x].files =>
             \/ f[x].files[n] = w
             \/ \E y \in DOMAIN folder :
                   n \in DOMAIN folder[y].files /\ f[x].files[n] = folder[y].files[n]
    BY Zenon DEF Kept
  <2>2. CASE f[d].files[n] = w /\ f[e].files[n] = w
    BY <2>2
  <2>3. CASE \E x \in DOMAIN folder :
                n \in DOMAIN folder[x].files /\ f[d].files[n] = folder[x].files[n]
    <3>1. f[d].files[n].mtime < now /\ f[d].files[n].mtime \in Int
      BY <1>6, <2>3
    <3>2. f[e].files[n] # w
      BY <1>3, <1>9, <3>1
    <3>3. PICK x \in DOMAIN folder :
                  n \in DOMAIN folder[x].files /\ f[d].files[n] = folder[x].files[n]
      BY <2>3
    <3>4. PICK y \in DOMAIN folder :
                  n \in DOMAIN folder[y].files /\ f[e].files[n] = folder[y].files[n]
      BY <1>9, <2>1, <3>2, Zenon
    <3>5. QED
      BY <1>1, <1>9, <3>3, <3>4 DEF OneFile, Known
  <2>4. CASE \E x \in DOMAIN folder :
                n \in DOMAIN folder[x].files /\ f[e].files[n] = folder[x].files[n]
    <3>1. f[e].files[n].mtime < now /\ f[e].files[n].mtime \in Int
      BY <1>6, <2>4
    <3>2. f[d].files[n] # w
      BY <1>3, <1>9, <3>1
    <3>3. PICK x \in DOMAIN folder :
                  n \in DOMAIN folder[x].files /\ f[e].files[n] = folder[x].files[n]
      BY <2>4
    <3>4. PICK y \in DOMAIN folder :
                  n \in DOMAIN folder[y].files /\ f[d].files[n] = folder[y].files[n]
      BY <1>9, <2>1, <3>2, Zenon
    <3>5. QED
      BY <1>1, <1>9, <3>3, <3>4 DEF OneFile, Known
  <2>5. QED
    BY <1>9, <2>1, <2>2, <2>3, <2>4, Zenon
<1>10. OneFile'
  BY <1>2, <1>9 DEF OneFile, Known
<1>11. ASSUME NEW i \in DOMAIN share_file
       PROVE  Fits(share_file[i])' /\ Known(share_file[i])'
  <2> DEFINE s == share_file[i]
  <2>1. s \in SectionType
    BY <1>1
  <2>2. /\ s.files \in FilesType /\ s.mtime \in Int /\ s.mtime < now
        /\ \A n \in DOMAIN s.files : s.files[n].mtime < now /\ s.files[n].mtime \in Int
    BY <1>1, <2>1, SectionHas, FilesAre DEF Before, Time, File
  <2>3. Fits(s) /\ Known(s)
    BY <1>1, Zenon DEF ListingOK
  <2> HIDE DEF s
  <2>4. ASSUME s.dir \in DOMAIN f, s.mtime = f[s.dir].mtime
        PROVE  /\ DOMAIN s.files = DOMAIN f[s.dir].files
               /\ \A n \in DOMAIN f[s.dir].files :
                     s.files[n] = f[s.dir].files[n] \/ s.files[n].mtime < f[s.dir].files[n].mtime
    <3>1. f[s.dir].mtime # now
      BY <1>3, <2>2, <2>4
    <3>2. /\ s.dir \in DOMAIN folder
          /\ f[s.dir].mtime = folder[s.dir].mtime
          /\ DOMAIN f[s.dir].files = DOMAIN folder[s.dir].files
          /\ \A n \in DOMAIN f[s.dir].files :
             f[s.dir].files[n] = folder[s.dir].files[n] \/ f[s.dir].files[n].mtime = now
      BY <2>4, <3>1, Zenon DEF Touched
    <3>3. /\ DOMAIN s.files = DOMAIN folder[s.dir].files
          /\ \A n \in DOMAIN folder[s.dir].files :
                s.files[n] = folder[s.dir].files[n]
                    \/ s.files[n].mtime < folder[s.dir].files[n].mtime
      BY <2>3, <2>4, <3>2, Zenon DEF Fits
    <3>4. QED
      BY <2>2, <3>2, <3>3, Zenon
  <2>5. ASSUME NEW n \in DOMAIN s.files, NEW d \in DOMAIN f,
               n \in DOMAIN f[d].files, s.files[n].mtime = f[d].files[n].mtime
        PROVE  s.files[n] = f[d].files[n]
    <3>1. f[d].files[n] # w
      BY <1>3, <2>2, <2>5
    <3>2. PICK e \in DOMAIN folder :
                  n \in DOMAIN folder[e].files /\ f[d].files[n] = folder[e].files[n]
      BY <2>5, <3>1, Zenon DEF Kept
    <3>3. QED
      BY <2>3, <2>5, <3>2 DEF Known
  <2>6. QED
    BY <1>2, <2>4, <2>5 DEF Fits, Known, s
<1>12. ListingOK(share_file)'
  BY <1>1, <1>2, <1>11 DEF ListingOK
<1>13. Past'
  BY <1>2, <1>7, <1>8 DEF Past
<1>14. Faithful'
  BY <1>1, <1>2 DEF Faithful, FaithfulFor, Listed
<1>15. Typed'
  BY <1>2, <1>3 DEF Typed, ShareInv
<1>16. QED
  BY <1>10, <1>12, <1>13, <1>14, <1>15 DEF ShareInv

\* The files that are left when one goes.
LEMMA FilesWithout ==
    ASSUME NEW files \in FilesType, NEW n
    PROVE  LET new == Without(files, n)
           IN  /\ new \in FilesType /\ DOMAIN new = DOMAIN files \ {n}
               /\ \A x \in DOMAIN new : x \in DOMAIN files /\ new[x] = files[x]
<1> DEFINE new == [x \in DOMAIN files \ {n} |-> files[x]]
<1>1. \A x \in DOMAIN files : x \in Name /\ files[x] \in File
  BY FilesAre
<1>2. new \in [DOMAIN files \ {n} -> File] /\ DOMAIN files \ {n} \in SUBSET Name
  BY <1>1
<1>3. new \in FilesType
  BY <1>2, Zenon DEF FilesType
<1>4. QED
  BY <1>3 DEF Without

\* One more file, or another one of that name.
LEMMA FilesWith ==
    ASSUME NEW files \in FilesType, NEW n \in Name, NEW file \in File
    PROVE  LET new == With(files, n, file)
           IN  /\ new \in FilesType /\ DOMAIN new = DOMAIN files \cup {n}
               /\ \A x \in DOMAIN new :
                     \/ x = n /\ new[x] = file
                     \/ x \in DOMAIN files /\ new[x] = files[x]
<1> DEFINE new == [x \in DOMAIN files \cup {n} |-> IF x = n THEN file ELSE files[x]]
<1>1. \A x \in DOMAIN files : x \in Name /\ files[x] \in File
  BY FilesAre
<1>2. /\ new \in [DOMAIN files \cup {n} -> File] /\ DOMAIN files \cup {n} \in SUBSET Name
      /\ DOMAIN new = DOMAIN files \cup {n}
      /\ \A x \in DOMAIN new :
            \/ x = n /\ new[x] = file
            \/ x \in DOMAIN files /\ new[x] = files[x]
  BY <1>1
<1>3. new \in FilesType
  BY <1>2, Zenon DEF FilesType
<1>4. QED
  BY <1>2, <1>3 DEF With

\* The folder f, but for some directories, is what it was.
LEMMA ElsewhereSame ==
    ASSUME NEW f, NEW S, NEW w,
           \A d \in DOMAIN f : d \in S \/ (d \in DOMAIN folder /\ f[d] = folder[d]),
           \A d \in DOMAIN f \cap S :
              /\ Touched(f, d)
              /\ \A n \in DOMAIN f[d].files :
                    \/ f[d].files[n] = w
                    \/ \E e \in DOMAIN folder :
                          n \in DOMAIN folder[e].files /\ f[d].files[n] = folder[e].files[n]
    PROVE  (\A d \in DOMAIN f : Touched(f, d)) /\ Kept(f, w)
<1>1. ASSUME NEW d \in DOMAIN f, d \in DOMAIN folder /\ f[d] = folder[d]
      PROVE  Touched(f, d) /\ \A n \in DOMAIN f[d].files :
                    n \in DOMAIN folder[d].files /\ f[d].files[n] = folder[d].files[n]
  BY <1>1, Zenon DEF Touched
<1>2. QED
  BY <1>1, Zenon DEF Kept

\* The types that the changes of the folder need.
LEMMA NowIsTime ==
    ASSUME ShareInv
    PROVE  /\ now \in Time /\ IsFolder(folder)
           /\ Root \in DOMAIN folder /\ DOMAIN folder \subseteq Dir
           /\ folder \in [DOMAIN folder -> DirectoryType]
           /\ \A d \in DOMAIN folder : folder[d].mtime \in Time /\ folder[d].files \in FilesType
           /\ \A m \in Md5 : [mtime |-> now, md5 |-> m] \in File
           /\ \A files \in FilesType : [mtime |-> now, files |-> files] \in DirectoryType
<1>1. IsFolder(folder) /\ now \in 1..MaxTime /\ MaxTime \in Nat
  BY ShareAssumption DEF ShareAssumption, ShareInv, Typed
<1>2. now \in Time
  BY <1>1 DEF Time
<1>3. QED
  BY <1>1, <1>2, FoldersAre, FolderHas DEF File, DirectoryType

\* A file is put.
LEMMA PutStep ==
    ASSUME ShareInv, NEW d \in DOMAIN folder, NEW n \in Name, NEW m \in Md5, Put(d, n, m)
    PROVE  ShareInv'
<1> DEFINE w == [mtime |-> now, md5 |-> m]
           files == With(folder[d].files, n, w)
           new == [mtime |-> now, files |-> files]
           f == [folder EXCEPT ![d] = new]
<1>1. Changed(f)
  BY DEF Put
<1>2. w \in File /\ w.mtime = now
  BY NowIsTime
<1> HIDE DEF w
<1>3. /\ files \in FilesType
      /\ \A x \in DOMAIN files :
                     \/ x = n /\ files[x] = w
                     \/ x \in DOMAIN folder[d].files /\ files[x] = folder[d].files[x]
  <2>1. folder[d].files \in FilesType
    BY NowIsTime
  <2>2. QED
    BY <1>2, <2>1, FilesWith, Zenon
<1> HIDE DEF files
<1>4. new.mtime = now /\ new.files = files /\ new \in DirectoryType
  BY <1>3, NowIsTime
<1> HIDE DEF new
<1>5. /\ DOMAIN f = DOMAIN folder /\ f[d] = new
      /\ \A x \in DOMAIN f : x \in {d} \/ (x \in DOMAIN folder /\ f[x] = folder[x])
      /\ f \in [DOMAIN folder -> DirectoryType]
  BY <1>4, NowIsTime
<1> HIDE DEF f
<1>6. IsFolder(f)
  BY <1>5, NowIsTime, FoldersAre, Zenon
<1>7. (\A x \in DOMAIN f : Touched(f, x)) /\ Kept(f, w)
  <2>1. Touched(f, d)
    BY <1>4, <1>5 DEF Touched
  <2>2. \A x \in DOMAIN f[d].files :
           \/ f[d].files[x] = w
           \/ \E e \in DOMAIN folder :
                  x \in DOMAIN folder[e].files /\ f[d].files[x] = folder[e].files[x]
    BY <1>3, <1>4, <1>5, Zenon
  <2>3. \A x \in DOMAIN f \cap {d} :
              /\ Touched(f, x)
              /\ \A y \in DOMAIN f[x].files :
                    \/ f[x].files[y] = w
                    \/ \E e \in DOMAIN folder :
                          y \in DOMAIN folder[e].files /\ f[x].files[y] = folder[e].files[y]
    BY <2>1, <2>2
  <2>4. QED
    BY <1>5, <2>3, ElsewhereSame, Zenon
<1>8. QED
  BY <1>1, <1>2, <1>6, <1>7, ChangedKeeps, Zenon

\* A file is changed in place.
LEMMA EditStep ==
    ASSUME ShareInv, NEW d \in DOMAIN folder, NEW n \in DOMAIN folder[d].files, NEW m \in Md5,
           Edit(d, n, m)
    PROVE  ShareInv'
<1> DEFINE w == [mtime |-> now, md5 |-> m]
           f == [folder EXCEPT ![d].files[n] = w]
<1>1. Changed(f)
  BY DEF Edit
<1>2. w \in File /\ w.mtime = now
  BY NowIsTime
<1>3. /\ folder[d] \in DirectoryType /\ folder[d].files \in FilesType
      /\ folder[d].files \in [DOMAIN folder[d].files -> File]
      /\ DOMAIN folder[d].files \in SUBSET Name
  BY NowIsTime, FilesAre, Zenon DEF IsFiles
<1> HIDE DEF w
<1> DEFINE files == [folder[d].files EXCEPT ![n] = w]
           new == [folder[d] EXCEPT !.files = files]
<1>4. /\ DOMAIN files = DOMAIN folder[d].files /\ files[n] = w
      /\ \A x \in DOMAIN files : x # n => files[x] = folder[d].files[x]
      /\ files \in [DOMAIN folder[d].files -> File]
  BY <1>2, <1>3
<1>5. files \in FilesType
  BY <1>3, <1>4, Zenon DEF FilesType
<1>6. f = [folder EXCEPT ![d] = new]
  BY Zenon
<1> HIDE DEF files
<1>7. new.mtime = folder[d].mtime /\ new.files = files /\ new \in DirectoryType
  BY <1>3, <1>5 DEF DirectoryType
<1> HIDE DEF new, f
<1>8. /\ DOMAIN f = DOMAIN folder /\ f[d] = new
      /\ \A x \in DOMAIN f : x \in {d} \/ (x \in DOMAIN folder /\ f[x] = folder[x])
      /\ f \in [DOMAIN folder -> DirectoryType]
  BY <1>6, <1>7, NowIsTime
<1>9. IsFolder(f)
  BY <1>8, NowIsTime, FoldersAre, Zenon
<1>10. (\A x \in DOMAIN f : Touched(f, x)) /\ Kept(f, w)
  <2>1. Touched(f, d)
    BY <1>2, <1>4, <1>7, <1>8 DEF Touched
  <2>2. \A x \in DOMAIN f[d].files :
           \/ f[d].files[x] = w
           \/ \E e \in DOMAIN folder :
                  x \in DOMAIN folder[e].files /\ f[d].files[x] = folder[e].files[x]
    BY <1>4, <1>7, <1>8, Zenon
  <2>3. \A x \in DOMAIN f \cap {d} :
              /\ Touched(f, x)
              /\ \A y \in DOMAIN f[x].files :
                    \/ f[x].files[y] = w
                    \/ \E e \in DOMAIN folder :
                          y \in DOMAIN folder[e].files /\ f[x].files[y] = folder[e].files[y]
    BY <2>1, <2>2
  <2>4. QED
    BY <1>8, <2>3, ElsewhereSame, Zenon
<1>11. QED
  BY <1>1, <1>2, <1>9, <1>10, ChangedKeeps, Zenon

\* A file is deleted.
LEMMA DeleteFileStep ==
    ASSUME ShareInv, NEW d \in DOMAIN folder, NEW n \in DOMAIN folder[d].files,
           DeleteFile(d, n)
    PROVE  ShareInv'
<1> DEFINE w == [mtime |-> now]
           files == Without(folder[d].files, n)
           new == [mtime |-> now, files |-> files]
           f == [folder EXCEPT ![d] = new]
<1>1. Changed(f)
  BY DEF DeleteFile
<1>2. w.mtime = now
  OBVIOUS
<1> HIDE DEF w
<1>3. /\ files \in FilesType
      /\ \A x \in DOMAIN files : x \in DOMAIN folder[d].files /\ files[x] = folder[d].files[x]
  <2>1. folder[d].files \in FilesType
    BY NowIsTime
  <2>2. QED
    BY <2>1, FilesWithout, Zenon
<1> HIDE DEF files
<1>4. new.mtime = now /\ new.files = files /\ new \in DirectoryType
  BY <1>3, NowIsTime
<1> HIDE DEF new
<1>5. /\ DOMAIN f = DOMAIN folder /\ f[d] = new
      /\ \A x \in DOMAIN f : x \in {d} \/ (x \in DOMAIN folder /\ f[x] = folder[x])
      /\ f \in [DOMAIN folder -> DirectoryType]
  BY <1>4, NowIsTime
<1> HIDE DEF f
<1>6. IsFolder(f)
  BY <1>5, NowIsTime, FoldersAre, Zenon
<1>7. (\A x \in DOMAIN f : Touched(f, x)) /\ Kept(f, w)
  <2>1. Touched(f, d)
    BY <1>4, <1>5 DEF Touched
  <2>2. \A x \in DOMAIN f[d].files :
           \/ f[d].files[x] = w
           \/ \E e \in DOMAIN folder :
                  x \in DOMAIN folder[e].files /\ f[d].files[x] = folder[e].files[x]
    BY <1>3, <1>4, <1>5, Zenon
  <2>3. \A x \in DOMAIN f \cap {d} :
              /\ Touched(f, x)
              /\ \A y \in DOMAIN f[x].files :
                    \/ f[x].files[y] = w
                    \/ \E e \in DOMAIN folder :
                          y \in DOMAIN folder[e].files /\ f[x].files[y] = folder[e].files[y]
    BY <2>1, <2>2
  <2>4. QED
    BY <1>5, <2>3, ElsewhereSame, Zenon
<1>8. QED
  BY <1>1, <1>2, <1>6, <1>7, ChangedKeeps, Zenon

\* A file goes to another directory.
LEMMA MoveStep ==
    ASSUME ShareInv, NEW d \in DOMAIN folder, NEW n \in DOMAIN folder[d].files,
           NEW to \in DOMAIN folder, Move(d, n, to)
    PROVE  ShareInv'
<1> DEFINE w == [mtime |-> now]
           file == folder[d].files[n]
           less == Without(folder[d].files, n)
           more == With(folder[to].files, n, file)
           here == [mtime |-> now, files |-> less]
           there == [mtime |-> now, files |-> more]
           f == [folder EXCEPT ![d] = here, ![to] = there]
<1>1. d # to /\ Changed(f)
  BY DEF Move
<1>2. w.mtime = now
  OBVIOUS
<1> HIDE DEF w
<1>3. /\ less \in FilesType
      /\ \A x \in DOMAIN less : x \in DOMAIN folder[d].files /\ less[x] = folder[d].files[x]
  <2>1. folder[d].files \in FilesType
    BY NowIsTime
  <2>2. QED
    BY <2>1, FilesWithout, Zenon
<1>4. /\ more \in FilesType
      /\ \A x \in DOMAIN more :
            \/ x \in DOMAIN folder[d].files /\ more[x] = folder[d].files[x]
            \/ x \in DOMAIN folder[to].files /\ more[x] = folder[to].files[x]
  <2>1. folder[d].files \in FilesType /\ folder[to].files \in FilesType
    BY NowIsTime
  <2>2. n \in Name /\ file \in File
    BY <2>1, FilesAre, Zenon
  <2>3. /\ more \in FilesType
        /\ \A x \in DOMAIN more :
              \/ x = n /\ more[x] = file
              \/ x \in DOMAIN folder[to].files /\ more[x] = folder[to].files[x]
    BY <2>1, <2>2, FilesWith, Zenon
  <2>4. QED
    BY <2>3, Zenon
<1> HIDE DEF less, more, file
<1>5. /\ here.mtime = now /\ here.files = less /\ here \in DirectoryType
      /\ there.mtime = now /\ there.files = more /\ there \in DirectoryType
  BY <1>3, <1>4, NowIsTime
<1> HIDE DEF here, there
<1>6. /\ DOMAIN f = DOMAIN folder /\ f[d] = here /\ f[to] = there
      /\ \A x \in DOMAIN f : x \in {d, to} \/ (x \in DOMAIN folder /\ f[x] = folder[x])
      /\ f \in [DOMAIN folder -> DirectoryType]
  BY <1>1, <1>5, NowIsTime
<1> HIDE DEF f
<1>7. IsFolder(f)
  BY <1>6, NowIsTime, FoldersAre, Zenon
<1>8. (\A x \in DOMAIN f : Touched(f, x)) /\ Kept(f, w)
  <2>1. Touched(f, d) /\ Touched(f, to)
    BY <1>5, <1>6 DEF Touched
  <2>2. \A x \in DOMAIN f[d].files :
           \E e \in DOMAIN folder :
                  x \in DOMAIN folder[e].files /\ f[d].files[x] = folder[e].files[x]
    BY <1>3, <1>5, <1>6, Zenon
  <2>3. \A x \in DOMAIN f[to].files :
           \E e \in DOMAIN folder :
                  x \in DOMAIN folder[e].files /\ f[to].files[x] = folder[e].files[x]
    BY <1>4, <1>5, <1>6, Zenon
  <2>4. \A x \in DOMAIN f \cap {d, to} :
              /\ Touched(f, x)
              /\ \A y \in DOMAIN f[x].files :
                    \/ f[x].files[y] = w
                    \/ \E e \in DOMAIN folder :
                          y \in DOMAIN folder[e].files /\ f[x].files[y] = folder[e].files[y]
    BY <2>1, <2>2, <2>3
  <2>5. QED
    BY <1>6, <2>4, ElsewhereSame, Zenon
<1>9. QED
  BY <1>1, <1>2, <1>7, <1>8, ChangedKeeps, Zenon

\* A directory is made.
LEMMA MakeDirStep ==
    ASSUME ShareInv, NEW d \in Dir, MakeDir(d)
    PROVE  ShareInv'
<1> DEFINE w == [mtime |-> now]
           up == Parent[d]
           fresh == [mtime |-> now, files |-> <<>>]
           new == [folder[up] EXCEPT !.mtime = now]
           f == [x \in DOMAIN folder \cup {d} |->
                    IF x = d THEN fresh ELSE IF x = up THEN new ELSE folder[x]]
<1>1. d \notin DOMAIN folder /\ up \in DOMAIN folder /\ Changed(f)
  <2>1. f = [x \in DOMAIN folder \cup {d} |->
                IF x = d THEN fresh
                ELSE IF x = up THEN [folder[x] EXCEPT !.mtime = now] ELSE folder[x]]
    OBVIOUS
  <2> HIDE DEF f
  <2>2. QED
    BY <2>1, Zenon DEF MakeDir
<1>2. w.mtime = now
  OBVIOUS
<1> HIDE DEF w
<1>3. fresh.mtime = now /\ fresh.files = <<>> /\ fresh \in DirectoryType /\ DOMAIN <<>> = {}
  <2>1. <<>> \in FilesType /\ DOMAIN <<>> = {}
    BY FilesAre
  <2>2. QED
    BY <2>1, NowIsTime
<1>4. new.mtime = now /\ new.files = folder[up].files /\ new \in DirectoryType
  <2>1. folder[up] \in DirectoryType /\ now \in Time
    BY <1>1, NowIsTime
  <2>2. QED
    BY <2>1 DEF DirectoryType
<1> HIDE DEF fresh, new
<1>5. up # d
  BY <1>1
<1>6. /\ DOMAIN f = DOMAIN folder \cup {d} /\ f[d] = fresh /\ f[up] = new
      /\ \A x \in DOMAIN f : x \in {d, up} \/ (x \in DOMAIN folder /\ f[x] = folder[x])
      /\ f \in [DOMAIN folder \cup {d} -> DirectoryType]
  BY <1>1, <1>3, <1>4, <1>5, NowIsTime
<1> HIDE DEF f
<1>7. IsFolder(f)
  <2>1. Root \in DOMAIN f /\ DOMAIN f \subseteq Dir
    BY <1>6, NowIsTime
  <2>2. QED
    BY <1>6, <2>1, FoldersAre, Zenon
<1>8. (\A x \in DOMAIN f : Touched(f, x)) /\ Kept(f, w)
  <2>1. Touched(f, d) /\ Touched(f, up)
    BY <1>3, <1>4, <1>6 DEF Touched
  <2>2. DOMAIN f[d].files = {}
    BY <1>3, <1>6
  <2>3. \A x \in DOMAIN f[up].files :
           \E e \in DOMAIN folder :
                  x \in DOMAIN folder[e].files /\ f[up].files[x] = folder[e].files[x]
    BY <1>1, <1>4, <1>6, Zenon
  <2> HIDE DEF up
  <2>4. \A x \in DOMAIN f \cap {d, up} :
              /\ Touched(f, x)
              /\ \A y \in DOMAIN f[x].files :
                    \/ f[x].files[y] = w
                    \/ \E e \in DOMAIN folder :
                          y \in DOMAIN folder[e].files /\ f[x].files[y] = folder[e].files[y]
    BY <2>1, <2>2, <2>3
  <2>5. QED
    BY <1>6, <2>4, ElsewhereSame, Zenon
<1>9. QED
  BY <1>1, <1>2, <1>7, <1>8, ChangedKeeps, Zenon

\* A directory goes.
LEMMA DeleteDirStep ==
    ASSUME ShareInv, NEW d \in DOMAIN folder, DeleteDir(d)
    PROVE  ShareInv'
<1> DEFINE w == [mtime |-> now]
           up == Parent[d]
           new(x) == [folder[x] EXCEPT !.mtime = now]
           f == [x \in DOMAIN folder \ {d} |-> IF x = up THEN new(x) ELSE folder[x]]
<1>1. d # Root /\ Changed(f)
  BY Zenon DEF DeleteDir
<1>2. w.mtime = now
  OBVIOUS
<1> HIDE DEF w
<1>3. ASSUME NEW x \in DOMAIN folder
      PROVE  new(x).mtime = now /\ new(x).files = folder[x].files /\ new(x) \in DirectoryType
  <2>1. folder[x] \in DirectoryType /\ now \in Time
    BY NowIsTime
  <2>2. QED
    BY <2>1 DEF DirectoryType
<1> HIDE DEF new
<1>4. /\ DOMAIN f = DOMAIN folder \ {d}
      /\ \A x \in DOMAIN f : x \in {up} \/ (x \in DOMAIN folder /\ f[x] = folder[x])
      /\ up \in DOMAIN f => up \in DOMAIN folder /\ f[up] = new(up)
      /\ f \in [DOMAIN folder \ {d} -> DirectoryType]
  BY <1>3, NowIsTime
<1> HIDE DEF f
<1>5. IsFolder(f)
  <2>1. Root \in DOMAIN f /\ DOMAIN f \subseteq Dir
    BY <1>1, <1>4, NowIsTime
  <2>2. QED
    BY <1>4, <2>1, FoldersAre, Zenon
<1>6. (\A x \in DOMAIN f : Touched(f, x)) /\ Kept(f, w)
  <2>1. ASSUME up \in DOMAIN f
        PROVE  /\ Touched(f, up)
               /\ \A y \in DOMAIN f[up].files :
                     y \in DOMAIN folder[up].files /\ f[up].files[y] = folder[up].files[y]
    BY <1>3, <1>4, <2>1 DEF Touched
  <2> HIDE DEF up
  <2>2. \A x \in DOMAIN f \cap {up} :
              /\ Touched(f, x)
              /\ \A y \in DOMAIN f[x].files :
                    \/ f[x].files[y] = w
                    \/ \E e \in DOMAIN folder :
                          y \in DOMAIN folder[e].files /\ f[x].files[y] = folder[e].files[y]
    BY <1>4, <2>1
  <2>3. QED
    BY <1>4, <2>2, ElsewhereSame, Zenon
<1>7. QED
  BY <1>1, <1>2, <1>5, <1>6, ChangedKeeps, Zenon
-----------------------------------------------------------------------------
(* The packets arrive, or do not *)

\* Delivering a packet makes the index what it should be for its entries.
LEMMA DeliverStep ==
    ASSUME ShareInv, NEW p \in unacked, Deliver(p) \/ DeliverLast(p)
    PROVE  ShareInv'
<1> DEFINE L == Range(p.lines)
<1>1. /\ Typed /\ Past /\ OneFile /\ ListingOK(share_file) /\ Faithful
      /\ \A q \in unacked : PacketOK(q)
      /\ p.lines \in Seq(LineType)
  BY DEF ShareInv, Typed, PacketOK
<1>2. /\ indexed' = Apply(indexed, p.lines)
      /\ unacked' = unacked \/ unacked' = unacked \ {p}
      /\ UNCHANGED <<folder, share_file, is_sp, now, doubtful, lost>>
  BY DEF Deliver, DeliverLast
<1>3. \A l \in LinesIn(unacked) : l \in L \/ l \in LinesIn(unacked')
  BY <1>2 DEF LinesIn
<1>4. \A l \in LinesIn(unacked') : l \in LinesIn(unacked)
  BY <1>2 DEF LinesIn
<1>5. \A l \in L : l \in LinesIn(unacked)
  BY DEF LinesIn
<1>6. \A l \in LinesIn(unacked) : l.op \in {"+", "-"}
  BY <1>1, LinesInType, Zenon DEF PacketOK
<1> HIDE DEF L
<1>7. ASSUME NEW e \in Entry,
             \A l \in LinesIn(unacked) : l.entry = e => (l.op = "+" <=> e \in Listed),
             e \notin Sent(unacked) => (e \in indexed <=> e \in Listed),
             \A l \in LinesIn(unacked') : l.entry # e
      PROVE  e \in indexed' <=> e \in Listed
  <2>1. CASE \A l \in L : l.entry # e
    <3>1. e \notin Sent(unacked)
      BY <1>3, <1>7, <2>1 DEF Sent
    <3>2. e \in indexed' <=> e \in indexed
      BY <1>1, <1>2, <2>1, ApplyIs DEF L
    <3>3. QED
      BY <1>7, <3>1, <3>2
  <2>2. CASE \E l \in L : l.entry = e
    <3>1. PICK m \in L : m.entry = e
      BY <2>2
    <3>2. \A l \in L : l.entry = e => l.op = m.op
      BY <1>5, <1>6, <1>7, <3>1
    <3>3. m.op \in {"+", "-"} /\ (m.op = "+" <=> e \in Listed)
      BY <1>5, <1>6, <1>7, <3>1
    <3>4. e \in indexed' <=> m.op = "+"
      BY <1>1, <1>2, <3>1, <3>2, <3>3, ApplyIs DEF L
    <3>5. QED
      BY <3>3, <3>4
  <2>3. QED
    BY <2>1, <2>2
<1>8. \A e : e \notin Sent(unacked)' => \A l \in LinesIn(unacked') : l.entry # e
  BY DEF Sent
<1>9. Faithful'
  BY <1>1, <1>2, <1>4, <1>7, <1>8 DEF Faithful, FaithfulFor, Listed
<1>10. indexed' \subseteq Entry
  BY <1>2 DEF Apply
<1>11. Typed'
  BY <1>1, <1>2, <1>10 DEF Typed
<1>12. ListingOK(share_file)' /\ OneFile' /\ Past'
  BY <1>1, <1>2 DEF ListingOK, OneFile, Past, Fits, Known
<1>13. QED
  BY <1>9, <1>11, <1>12 DEF ShareInv

\* What is given up counts as lost.
LEMMA GiveUpStep ==
    ASSUME ShareInv, NEW p \in unacked, GiveUp(p)
    PROVE  ShareInv'
<1>1. /\ Typed /\ Past /\ OneFile /\ ListingOK(share_file) /\ Faithful
      /\ p.lines \in Seq(LineType) /\ lost \subseteq Entry
  BY DEF ShareInv, Typed, PacketOK
<1>2. /\ unacked' = unacked \ {p}
      /\ lost' = lost \cup {l.entry : l \in Range(p.lines)}
      /\ UNCHANGED <<folder, share_file, indexed, is_sp, now, doubtful>>
  BY DEF GiveUp
<1>3. \A l \in LinesIn(unacked') : l \in LinesIn(unacked)
  BY <1>2 DEF LinesIn
<1>4. \A e \in Sent(unacked) : e \notin lost' => e \in Sent(unacked)'
  BY <1>2 DEF LinesIn, Sent
<1>5. Faithful'
  BY <1>1, <1>2, <1>3, <1>4 DEF Faithful, FaithfulFor, Listed
<1>6. lost' \subseteq Entry
  <2>1. ASSUME NEW l \in Range(p.lines) PROVE l.entry \in Entry
    <3>1. PICK i \in DOMAIN p.lines : l = p.lines[i]
      BY DEF Range
    <3>2. QED
      BY <1>1, <3>1, LinesHave, Zenon
  <2>2. QED
    BY <1>1, <1>2, <2>1
<1>7. Typed'
  BY <1>1, <1>2, <1>6 DEF Typed
<1>8. ListingOK(share_file)' /\ OneFile' /\ Past'
  BY <1>1, <1>2 DEF ListingOK, OneFile, Past, Fits, Known
<1>9. QED
  BY <1>5, <1>7, <1>8 DEF ShareInv

-----------------------------------------------------------------------------
(* The folder is listed *)

\* Without a listing all is listed anew.
LEMMA EmptyListing == ListingOK(<<>>)
BY DEF ListingOK

\* Update, Join, JoinAgain and BecomeSuperpeer publish a difference: from the listing,
\* with what the index has and what is on its way, or from no listing at all.
LEMMA PublishStep ==
    ASSUME ShareInv, Tick, folder' = folder,
           NEW old, NEW sp \in BOOLEAN, NEW entries, NEW packets,
           Publish(sp, old, entries, packets), lost' \subseteq Entry,
           entries \subseteq Entry, \A p \in packets : PacketOK(p),
           \/ old = <<>>
           \/ /\ old = share_file /\ share_file # <<>>
              /\ entries = indexed /\ packets = unacked /\ lost' = lost
    PROVE  ShareInv'
<1>1. /\ IsFolder(folder) /\ OneFile /\ now \in 1..MaxTime /\ ListingOK(share_file) /\ Faithful
      /\ \A d \in DOMAIN folder : Before(folder[d], now)
      /\ doubtful \subseteq Entry
  BY DEF ShareInv, Typed, Past
<1>2. MaxTime \in Nat /\ now \in Nat /\ now' = now + 1 /\ now' \in 1..MaxTime
  BY <1>1, ShareAssumption DEF ShareAssumption, Tick
<1>3. ListingOK(old)
  BY <1>1, EmptyListing
<1>4. \A p \in packets : p.lines \in Seq(LineType)
  BY DEF PacketOK
<1>5. /\ ListingOK(share_file)'
      /\ \A i \in DOMAIN share_file' : Before(share_file'[i], now)
      /\ \A i, j \in DOMAIN share_file' : share_file'[i].dir = share_file'[j].dir => i = j
      /\ \A p \in unacked' : PacketOK(p)
      /\ indexed' \subseteq Entry /\ is_sp' \in BOOLEAN /\ doubtful' \subseteq Entry
  BY <1>1, <1>2, <1>3, PublishKeeps, Zenon
<1>6. Faithful'
  <2>1. CASE old = <<>>
    BY <1>1, <1>3, <1>4, <2>1, PublishFaithful, Zenon
  <2>2. CASE /\ old = share_file /\ share_file # <<>>
             /\ entries = indexed /\ packets = unacked /\ lost' = lost
    <3>1. doubtful \subseteq doubtful'
      BY Zenon DEF Publish
    <3>2. \A e \in Entry \ (doubtful' \cup lost') :
             /\ \A l \in LinesIn(packets) : l.entry = e => (l.op = "+" <=> e \in AllOf(old))
             /\ e \notin Sent(packets) => (e \in entries <=> e \in AllOf(old))
      BY <1>1, <2>2, <3>1 DEF Faithful, FaithfulFor, Listed
    <3>3. QED
      BY <1>1, <1>3, <1>4, <3>2, PublishFaithful, Zenon
  <2>3. QED
    BY <2>1, <2>2
<1>7. share_file' \in Seq(SectionType)
  BY <1>5 DEF ListingOK
<1>8. Past'
  <2>1. ASSUME NEW d \in DOMAIN folder PROVE Before(folder[d], now + 1)
    BY <1>1, <1>2, FolderHas, BeforeLater, Zenon
  <2>2. ASSUME NEW i \in DOMAIN share_file' PROVE Before(share_file'[i], now + 1)
    <3>1. share_file'[i] \in SectionType
      BY <1>7
    <3>2. QED
      BY <1>2, <1>5, <3>1, SectionHas, BeforeLater, Zenon
  <2>3. QED
    BY <1>2, <2>1, <2>2 DEF Past
<1>9. OneFile'
  BY <1>1 DEF OneFile, Known
<1>10. Typed'
  BY <1>1, <1>2, <1>5, <1>7 DEF Typed
<1>11. QED
  BY <1>5, <1>6, <1>8, <1>9, <1>10 DEF ShareInv

-----------------------------------------------------------------------------
(* The theorems *)

\* The invariant holds at the start.
LEMMA ShareStart == ShareInit => ShareInv
<1> SUFFICES ASSUME ShareInit PROVE ShareInv
  OBVIOUS
<1>1. /\ folder \in Folders /\ share_file = <<>> /\ unacked = {} /\ indexed = {}
      /\ is_sp = FALSE /\ now = 1 /\ doubtful = {} /\ lost = {}
  BY DEF ShareInit
<1>2. /\ IsFolder(folder)
      /\ \A d \in DOMAIN folder : Before(folder[d], now)
      /\ OneFile
  <2>1. /\ IsFolder(folder)
        /\ \A d \in DOMAIN folder : folder[d].mtime < 1
        /\ \A d \in DOMAIN folder : \A n \in DOMAIN folder[d].files :
              /\ folder[d].files[n].mtime < 1
              /\ \A e \in DOMAIN folder :
                    n \in DOMAIN folder[e].files
                        /\ folder[e].files[n].mtime = folder[d].files[n].mtime
                        => folder[e].files[n] = folder[d].files[n]
    BY <1>1, ShareAssumption, Zenon DEF ShareAssumption
  <2>2. \A d \in DOMAIN folder : Before(folder[d], now)
    BY <1>1, <2>1 DEF Before
  <2>3. OneFile
    BY <2>1 DEF OneFile, Known
  <2>4. QED
    BY <2>1, <2>2, <2>3
<1>3. 1 \in 1..MaxTime
  BY ShareAssumption DEF ShareAssumption
<1>4. Typed
  <2>1. <<>> \in Seq(SectionType) /\ DOMAIN <<>> = {}
    OBVIOUS
  <2>2. QED
    BY <1>1, <1>2, <1>3, <2>1, Zenon DEF Typed
<1>5. QED
  BY <1>1, <1>2, <1>4, EmptyListing DEF ShareInv, Past, Faithful

\* Every step keeps it.
LEMMA ShareStep ==
    ASSUME ShareInv, [ShareNext]_share_vars
    PROVE  ShareInv'
<1>1. /\ indexed \subseteq Entry /\ lost \subseteq Entry /\ is_sp \in BOOLEAN
      /\ \A p \in unacked : PacketOK(p)
  BY DEF ShareInv, Typed
<1>2. CASE UserChanges
  BY <1>2, PutStep, EditStep, DeleteFileStep, MoveStep, MakeDirStep, DeleteDirStep, Zenon
     DEF UserChanges
<1>3. CASE Update
  <2>1. /\ Tick /\ share_file # <<>> /\ folder' = folder /\ lost' = lost
        /\ Publish(is_sp, share_file, indexed, unacked)
    BY <1>3 DEF Update
  <2>2. QED
    BY <1>1, <2>1, PublishStep, Zenon
<1>4. CASE Join \/ BecomeSuperpeer
  <2>1. PICK sp \in BOOLEAN : Tick /\ folder' = folder /\ lost' = {} /\ Publish(sp, <<>>, {}, {})
    BY <1>4 DEF Join, BecomeSuperpeer
  <2>2. PICK nothing : nothing = {}
    OBVIOUS
  <2>3. nothing \subseteq Entry /\ (\A p \in nothing : PacketOK(p)) /\ lost' \subseteq Entry
    BY <2>1, <2>2
  <2>4. Publish(sp, <<>>, nothing, nothing)
    BY <2>1, <2>2
  <2>5. QED
    BY <2>1, <2>3, <2>4, PublishStep, Zenon
<1>5. CASE JoinAgain
  <2>1. Tick /\ folder' = folder /\ lost' = lost /\ Publish(FALSE, <<>>, indexed, unacked)
    BY <1>5 DEF JoinAgain
  <2>2. FALSE \in BOOLEAN
    OBVIOUS
  <2>3. QED
    BY <1>1, <2>1, <2>2, PublishStep, Zenon
<1>6. CASE \E p \in unacked : Deliver(p) \/ DeliverLast(p) \/ GiveUp(p)
  BY <1>6, DeliverStep, GiveUpStep, Zenon
<1>7. CASE UNCHANGED share_vars
  <2>1. UNCHANGED <<folder, share_file, unacked, indexed, is_sp, now, doubtful, lost>>
    BY <1>7 DEF share_vars
  <2>2. QED
    BY <2>1 DEF ShareInv, Typed, Past, OneFile, ListingOK, Fits, Known, Faithful,
                FaithfulFor, Listed
<1>8. QED
  BY <1>2, <1>3, <1>4, <1>5, <1>6, <1>7 DEF ShareNext

\* Every state has it, for any folder, sequence of changes, number of updates and size
\* of packets (create_diff, send_share, add_files).
THEOREM ShareInvariance == ShareSpec => []ShareInv
<1>1. ShareInv /\ [ShareNext]_share_vars => ShareInv'
  BY ShareStep
<1>2. QED
  BY <1>1, ShareStart, PTL DEF ShareSpec

\* Every variable has its type, no listing has a directory twice and no packet too many
\* lines (create_diff, send_share).
THEOREM ShareTyped == ShareSpec => []ShareTypeOK
<1>1. ShareInv => ShareTypeOK
  <2> SUFFICES ASSUME ShareInv PROVE ShareTypeOK
    OBVIOUS
  <2>1. Typed
    BY DEF ShareInv
  <2>2. ASSUME NEW i \in DOMAIN share_file
        PROVE  LET s == share_file[i]
               IN  s \in [dir : Dir, mtime : Time, files : {s.files}] /\ IsFiles(s.files)
    <3>1. share_file[i] \in SectionType
      BY <2>1 DEF Typed
    <3>2. \A s \in SectionType : s \in [dir : Dir, mtime : Time, files : {s.files}]
                                    /\ s.files \in FilesType
      BY DEF SectionType
    <3>3. QED
      BY <3>1, <3>2, FilesAre, Zenon
  <2>3. QED
    BY <2>1, <2>2 DEF Typed, ShareTypeOK, PacketOK, LineType
<1>2. QED
  BY <1>1, ShareInvariance, PTL

\* The superpeer has what the client listed last, in whatever order its packets came
\* and how often, but for what is on its way, given up, or in doubt (create_diff,
\* add_files).
THEOREM IndexIsExact == ShareSpec => []IndexExact
<1>1. ShareInv => IndexExact
  BY DEF ShareInv, Faithful, FaithfulFor, IndexExact
<1>2. QED
  BY <1>1, ShareInvariance, PTL

\* A step that changes the listing publishes a difference.
LEMMA ListingChange ==
    ASSUME ShareInv, [ShareNext]_share_vars, share_file' # share_file
    PROVE  \E old, sp, entries, packets :
              /\ old = share_file \/ old = <<>>
              /\ Publish(sp, old, entries, packets)
<1>1. ~UserChanges
  BY DEF UserChanges, Put, Edit, DeleteFile, Move, MakeDir, DeleteDir, Changed
<1>2. ~\E p \in unacked : Deliver(p) \/ DeliverLast(p) \/ GiveUp(p)
  BY DEF Deliver, DeliverLast, GiveUp
<1>3. ~UNCHANGED share_vars
  BY DEF share_vars
<1>4. Update \/ Join \/ JoinAgain \/ BecomeSuperpeer
  BY <1>1, <1>2, <1>3 DEF ShareNext
<1>5. QED
  BY <1>4, Zenon DEF Update, Join, JoinAgain, BecomeSuperpeer

\* A new FILE_SHARE has the directories and the files of the folder, but for the md5 of
\* a file changed in place (diff, copy_dir).
THEOREM ListingIsRight == ShareSpec => ListingRight
<1> DEFINE A == share_file' # share_file =>
                /\ {s.dir : s \in Range(share_file')} = DOMAIN folder
                /\ \A s \in Range(share_file') :
                      LET d == folder[s.dir]
                      IN  /\ DOMAIN s.files = DOMAIN d.files
                          /\ \A n \in DOMAIN d.files :
                                \/ s.files[n] = d.files[n]
                                \/ /\ s \in Range(share_file)
                                   /\ s.mtime = d.mtime
                                   /\ s.files[n].mtime < d.files[n].mtime
<1>1. ASSUME ShareInv, [ShareNext]_share_vars PROVE A
  <2>1. SUFFICES ASSUME share_file' # share_file PROVE A
    BY Zenon
  <2>2. PICK old, sp, entries, packets :
           /\ old = share_file \/ old = <<>>
           /\ Publish(sp, old, entries, packets)
    BY <1>1, <2>1, ListingChange, Zenon
  <2>3. IsFolder(folder) /\ ListingOK(old) /\ share_file' = Diff(old).out
    BY <1>1, <2>2, EmptyListing DEF ShareInv, Typed, Publish
  <2>4. Range(<<>>) = {}
    BY DEF Range
  <2>5. /\ \A s \in Range(share_file') : RightSection(old, s)
        /\ {s.dir : s \in Range(share_file')} = DOMAIN folder
    BY <2>3, DiffIs, Zenon
  <2>6. Range(old) \subseteq Range(share_file)
    BY <2>2, <2>4
  <2>7. QED
    BY <2>5, <2>6 DEF RightSection
<1>2. ShareInv /\ [ShareNext]_share_vars => [A]_share_vars
  BY <1>1, Zenon
<1>3. QED
  BY <1>2, ShareInvariance, PTL DEF ShareSpec, ListingRight
=============================================================================
