--------------------------- MODULE PeerTableProofs ---------------------------
(***************************************************************************)
(* A superpeer's list of peers stays within its capacity although it is    *)
(* changed by two threads, and a peer is delisted after one silent period  *)
(* and never before, for every set of peers and rates and every capacity;  *)
(* so it is when the superpeer promotes some of them.                      *)
(***************************************************************************)
EXTENDS Superpeer, ListLemmas

\* The nodes that were removed and not counted off yet: at most one by the
\* main thread, one by the checker.
Uncounted ==
    (IF main \in {"leave", "register"} THEN 1 ELSE 0)
        + (IF checker = "count" THEN 1 ELSE 0)

\* curr_p_count never counts too few.  A decrement that is lost leaves it too
\* high, hence the inequality.
Counting ==
    Len(peer_list) + Uncounted <= curr_p_count /\ curr_p_count <= MaxPCount

\* A node the sweep has been at, and one it is still to come to.
Visited(i) == flag[peer_list[i]] = 0 /\ periods[peer_list[i]] = 1
Pending(i) == periods[peer_list[i]] = 2 - flag[peer_list[i]]

\* What flag says between sweeps of the time since the last word of a peer.
Rested == \A i \in DOMAIN peer_list : periods[peer_list[i]] = 1 - flag[peer_list[i]]

\* In a sweep, the nodes before the cursor have been visited and the others
\* not; once the cursor is NULL all have been visited.  Nothing is said when
\* the cursor stands on a freed node: the sweep will never end.
Swept ==
    /\ \A k \in DOMAIN peer_list : peer_list[k] = cursor =>
          \A i \in DOMAIN peer_list :
             (i < k => Visited(i)) /\ (i >= k => Pending(i))
    /\ cursor = Nil => \A i \in DOMAIN peer_list : Visited(i)

Silence ==
    /\ checker \in {"sleep", "expire", "give_up"} => Rested
    /\ checker \in {"sweep", "count"} => Swept

\* The inductive invariant.
IInv == TypeOK /\ IsInjective(peer_list) /\ Counting /\ Silence

-----------------------------------------------------------------------------
(* Insertion and removal *)

\* Where the k-th node was before the i-th was removed.
Old(i, k) == IF k < i THEN k ELSE k + 1

\* The parts of TypeOK about the list.
ListTyped ==
    /\ peer_list \in Seq(Peer)
    /\ peer_rate \in [Peer -> Rate]
    /\ flag \in [Peer -> 0..1]
    /\ files \in SUBSET Peer
    /\ periods \in [Peer -> Nat]

\* The domain of the list and the peers on it.
LEMMA ListFacts ==
    ASSUME ListTyped
    PROVE  /\ Len(peer_list) \in Nat
           /\ DOMAIN peer_list = 1..Len(peer_list)
           /\ \A i \in DOMAIN peer_list : peer_list[i] \in Peer /\ peer_list[i] \in Listed
BY DEF ListTyped, Listed, ToSet

\* IndexOf finds the node of a listed peer.
LEMMA IndexOfListed ==
    ASSUME NEW p \in Listed
    PROVE  IndexOf(p) \in DOMAIN peer_list /\ peer_list[IndexOf(p)] = p
BY DEF IndexOf, Listed, ToSet

\* remove_peer_node leaves every other node as it was.
LEMMA UnlinkKeepsOthers ==
    ASSUME PeerTableAssumption, ListTyped, IsInjective(peer_list), NEW p \in Listed,
           Unlink(p)
    PROVE  LET i == IndexOf(p) IN
           /\ i \in 1..Len(peer_list) /\ peer_list[i] = p /\ p \in Peer
           /\ ListTyped' /\ IsInjective(peer_list)'
           /\ Len(peer_list') = Len(peer_list) - 1
           /\ \A k \in DOMAIN peer_list' :
                 /\ Old(i, k) \in DOMAIN peer_list /\ Old(i, k) # i
                 /\ peer_list'[k] = peer_list[Old(i, k)]
                 /\ peer_list'[k] # p
                 /\ flag'[peer_list'[k]] = flag[peer_list'[k]]
                 /\ periods'[peer_list'[k]] = periods[peer_list'[k]]
<1> DEFINE i == IndexOf(p)
<1>1. i \in DOMAIN peer_list /\ peer_list[i] = p
  BY IndexOfListed
<1>2. /\ Len(peer_list) \in Nat /\ DOMAIN peer_list = 1..Len(peer_list)
      /\ i \in 1..Len(peer_list) /\ p \in Peer
  BY <1>1, ListFacts
<1>3. peer_list' = RemoveAt(peer_list, i)
  BY DEF Unlink
<1> HIDE DEF i
<1>4. /\ peer_list' \in Seq(Peer) /\ Len(peer_list') = Len(peer_list) - 1
      /\ \A k \in 1..(Len(peer_list) - 1) :
            peer_list'[k] = IF k < i THEN peer_list[k] ELSE peer_list[k + 1]
  BY <1>2, <1>3, RemoveAtProperties DEF ListTyped
<1>5. DOMAIN peer_list' = 1..(Len(peer_list) - 1)
  BY <1>2, <1>4
<1>6. ASSUME NEW k \in DOMAIN peer_list'
      PROVE  /\ Old(i, k) \in DOMAIN peer_list /\ Old(i, k) # i
             /\ peer_list'[k] = peer_list[Old(i, k)]
             /\ peer_list'[k] # p
  <2>1. Old(i, k) \in DOMAIN peer_list /\ Old(i, k) # i
    BY <1>2, <1>5, <1>6 DEF Old
  <2>2. peer_list'[k] = peer_list[Old(i, k)]
    BY <1>4, <1>5, <1>6 DEF Old
  <2>3. QED
    BY <1>1, <2>1, <2>2 DEF IsInjective
<1>7. IsInjective(peer_list)'
  <2>1. SUFFICES ASSUME NEW j \in DOMAIN peer_list', NEW k \in DOMAIN peer_list',
                        peer_list'[j] = peer_list'[k]
                 PROVE  j = k
    BY DEF IsInjective
  <2>2. Old(i, j) = Old(i, k)
    BY <1>6, <2>1 DEF IsInjective
  <2>3. QED
    BY <1>2, <1>5, <2>2 DEF Old
<1>8. NoRate \in Rate
  BY DEF NoRate, PeerTableAssumption
<1>9. ListTyped'
  <2>0. /\ flag \in [Peer -> 0..1] /\ periods \in [Peer -> Nat]
        /\ flag' = [flag EXCEPT ![p] = 0] /\ periods' = [periods EXCEPT ![p] = 0]
    BY DEF Unlink, ListTyped
  <2>1. flag' \in [Peer -> 0..1] /\ periods' \in [Peer -> Nat]
    <3>1. flag' \in [Peer -> 0..1]
      BY <1>2, <2>0
    <3>2. periods' \in [Peer -> Nat]
      BY <1>2, <2>0
    <3>3. QED
      BY <3>1, <3>2
  <2>2. peer_rate' \in [Peer -> Rate] /\ files' \in SUBSET Peer
    BY <1>8 DEF Unlink, ListTyped
  <2>3. QED
    BY <1>4, <2>1, <2>2 DEF ListTyped
<1>10. \A k \in DOMAIN peer_list' :
          /\ flag'[peer_list'[k]] = flag[peer_list'[k]]
          /\ periods'[peer_list'[k]] = periods[peer_list'[k]]
  BY <1>2, <1>6, ListFacts DEF Unlink, ListTyped
<1>11. QED
  BY <1>1, <1>2, <1>4, <1>6, <1>7, <1>9, <1>10 DEF i

\* remove_peer_node of any node leaves Rested and, of any node, Swept as they
\* were: the others keep their order, their flags and their silence.
LEMMA UnlinkKeepsSilence ==
    ASSUME PeerTableAssumption, ListTyped, IsInjective(peer_list), NEW p \in Listed,
           Unlink(p)
    PROVE  /\ Rested => Rested'
           /\ Swept /\ UNCHANGED cursor => Swept'
<1> DEFINE i == IndexOf(p)
<1>1. /\ i \in 1..Len(peer_list)
      /\ \A k \in DOMAIN peer_list' :
            /\ Old(i, k) \in DOMAIN peer_list
            /\ peer_list'[k] = peer_list[Old(i, k)]
            /\ flag'[peer_list'[k]] = flag[peer_list'[k]]
            /\ periods'[peer_list'[k]] = periods[peer_list'[k]]
  BY UnlinkKeepsOthers
<1>2. ListTyped' /\ ListTyped
  BY UnlinkKeepsOthers
<1> HIDE DEF i
<1>3. ASSUME NEW k \in DOMAIN peer_list'
      PROVE  /\ Visited(Old(i, k)) => Visited(k)'
             /\ Pending(Old(i, k)) => Pending(k)'
  BY <1>1, <1>3 DEF Visited, Pending
<1>4. DOMAIN peer_list' = 1..Len(peer_list)' /\ Len(peer_list)' \in Nat
  BY <1>2 DEF ListTyped
<1>5. ASSUME NEW j \in DOMAIN peer_list', NEW k \in DOMAIN peer_list'
      PROVE  j < k <=> Old(i, j) < Old(i, k)
  BY <1>1, <1>4 DEF Old
<1>6. Rested => Rested'
  BY <1>1 DEF Rested
<1>7. ASSUME Swept, UNCHANGED cursor PROVE Swept'
  <2>1. ASSUME NEW k \in DOMAIN peer_list', peer_list'[k] = cursor',
               NEW j \in DOMAIN peer_list'
        PROVE  (j < k => Visited(j)') /\ (j >= k => Pending(j)')
    <3>1. peer_list[Old(i, k)] = cursor
      BY <1>1, <1>7, <2>1
    <3>2. /\ Old(i, j) < Old(i, k) => Visited(Old(i, j))
          /\ Old(i, j) >= Old(i, k) => Pending(Old(i, j))
      BY <1>1, <1>7, <3>1 DEF Swept
    <3>3. j < k \/ j >= k
      BY <1>4
    <3>4. j >= k => Old(i, j) >= Old(i, k)
      BY <1>1, <1>4 DEF Old
    <3>5. QED
      BY <1>3, <1>5, <3>2, <3>3, <3>4
  <2>2. ASSUME cursor' = Nil, NEW j \in DOMAIN peer_list' PROVE Visited(j)'
    BY <1>1, <1>3, <1>7, <2>2 DEF Swept
  <2>3. QED
    BY <2>1, <2>2 DEF Swept
<1>8. QED
  BY <1>6, <1>7
\* sorted_insert_peer of a new peer, outside a sweep.
LEMMA InsertKeepsSilence ==
    ASSUME PeerTableAssumption, ListTyped, IsInjective(peer_list), Rested,
           NEW p \in Peer, p \notin Listed, NEW r \in Rate,
           NEW i \in 1..(Len(peer_list) + 1),
           peer_list' = InsertAt(peer_list, i, p),
           peer_rate' = [peer_rate EXCEPT ![p] = r],
           flag' = [flag EXCEPT ![p] = 1],
           periods' = [periods EXCEPT ![p] = 0],
           UNCHANGED files
    PROVE  /\ ListTyped' /\ IsInjective(peer_list)' /\ Rested'
           /\ Len(peer_list') = Len(peer_list) + 1
<1> DEFINE old(k) == IF k < i THEN k ELSE k - 1
<1>1. /\ Len(peer_list) \in Nat /\ DOMAIN peer_list = 1..Len(peer_list)
      /\ \A k \in DOMAIN peer_list : peer_list[k] \in Peer /\ peer_list[k] # p
  BY ListFacts
<1>2. /\ peer_list' \in Seq(Peer) /\ Len(peer_list') = Len(peer_list) + 1
      /\ \A k \in 1..(Len(peer_list) + 1) :
            peer_list'[k] = IF k < i THEN peer_list[k]
                            ELSE IF k = i THEN p ELSE peer_list[k - 1]
  <2> DEFINE new == InsertAt(peer_list, i, p)
  <2>1. peer_list \in Seq(Peer)
    BY DEF ListTyped
  <2>2. /\ new \in Seq(Peer) /\ Len(new) = Len(peer_list) + 1
        /\ \A k \in 1..(Len(peer_list) + 1) :
              new[k] = IF k < i THEN peer_list[k]
                       ELSE IF k = i THEN p ELSE peer_list[k - 1]
    <3>1. /\ InsertAt(peer_list, i, p) \in Seq(Peer)
          /\ Len(InsertAt(peer_list, i, p)) = Len(peer_list) + 1
          /\ \A k \in 1..(Len(peer_list) + 1) :
                InsertAt(peer_list, i, p)[k] = IF k < i THEN peer_list[k]
                                               ELSE IF k = i THEN p ELSE peer_list[k - 1]
      BY ONLY <2>1, p \in Peer, i \in 1..(Len(peer_list) + 1), InsertAtProperties
    <3>2. QED
      BY ONLY <3>1
  <2>3. peer_list' = new
    OBVIOUS
  <2> HIDE DEF new
  <2>4. QED
    BY <2>2, <2>3
<1>3. DOMAIN peer_list' = 1..(Len(peer_list) + 1)
  BY <1>1, <1>2
<1>4. peer_list'[i] = p
  BY <1>2
<1>5. ASSUME NEW k \in DOMAIN peer_list', k # i
      PROVE  old(k) \in DOMAIN peer_list /\ peer_list'[k] = peer_list[old(k)]
  BY <1>1, <1>2, <1>3, <1>5
<1>6. IsInjective(peer_list)'
  <2>1. SUFFICES ASSUME NEW j \in DOMAIN peer_list', NEW k \in DOMAIN peer_list',
                        peer_list'[j] = peer_list'[k]
                 PROVE  j = k
    BY DEF IsInjective
  <2> HIDE DEF old
  <2>2. CASE j = i \/ k = i
    BY <1>1, <1>4, <1>5, <2>1, <2>2
  <2>3. CASE j # i /\ k # i
    <3>1. old(j) = old(k)
      BY <1>5, <2>1, <2>3 DEF IsInjective
    <3>2. QED
      BY <1>1, <1>3, <2>3, <3>1 DEF old
  <2>4. QED
    BY <2>2, <2>3
<1>7. /\ flag \in [Peer -> 0..1] /\ periods \in [Peer -> Nat]
      /\ peer_rate \in [Peer -> Rate] /\ files \in SUBSET Peer
  BY DEF ListTyped
<1>8. ListTyped'
  <2>1. flag' \in [Peer -> 0..1] /\ periods' \in [Peer -> Nat]
    BY <1>7
  <2>2. peer_rate' \in [Peer -> Rate] /\ files' \in SUBSET Peer
    BY <1>7
  <2>3. QED
    BY <1>2, <2>1, <2>2 DEF ListTyped
<1> HIDE DEF old
<1>9. Rested'
  <2>1. SUFFICES ASSUME NEW k \in DOMAIN peer_list'
                 PROVE  periods'[peer_list'[k]] = 1 - flag'[peer_list'[k]]
    BY DEF Rested
  <2>2. CASE k = i
    BY <1>4, <1>7, <2>2
  <2>3. CASE k # i
    <3>1. /\ peer_list'[k] = peer_list[old(k)]
          /\ peer_list[old(k)] \in Peer /\ peer_list[old(k)] # p
          /\ periods[peer_list[old(k)]] = 1 - flag[peer_list[old(k)]]
      BY <1>1, <1>5, <2>3 DEF Rested
    <3>2. QED
      BY <1>7, <3>1
  <2>4. QED
    BY <2>2, <2>3
<1>10. QED
  BY <1>2, <1>6, <1>8, <1>9

-----------------------------------------------------------------------------
(* The steps preserve the invariant *)

\* The parts of TypeOK that are not about the list.
RestTyped ==
    /\ curr_p_count \in Nat
    /\ main \in {"recv", "leave", "register", "registered", "promote", "send",
                "blocked", "exited"}
    /\ checker \in {"sleep", "sweep", "count", "expire", "give_up", "crashed"}
    /\ cursor \in Peer \cup {Nil}
    /\ acked \in SUBSET Peer

LEMMA SplitTypeOK ==
    /\ TypeOK <=> ListTyped /\ RestTyped
    /\ TypeOK' <=> ListTyped' /\ RestTyped'
BY DEF TypeOK, ListTyped, RestTyped

LEMMA InitIInv == Init => IInv
<1> SUFFICES ASSUME Init PROVE IInv
  OBVIOUS
<1> USE PeerTableAssumption
<1>1. peer_list = <<>> /\ Len(peer_list) = 0 /\ DOMAIN peer_list = {}
  BY DEF Init
<1>2. NoRate \in Rate
  BY DEF NoRate, PeerTableAssumption
<1>3. TypeOK
  BY <1>2 DEF Init, TypeOK
<1>4. IsInjective(peer_list) /\ Counting /\ Silence
  BY <1>1 DEF Init, IsInjective, Counting, Uncounted, Silence, Rested, PeerTableAssumption
<1>5. QED
  BY <1>3, <1>4 DEF IInv

\* A LEAVE, or the REGISTER of the child, takes a node away.
LEMMA RemovePreserves ==
    ASSUME IInv, NEW p, NEW handler \in {"leave", "register"}, RemovePeer(p, handler)
    PROVE  IInv'
<1> USE PeerTableAssumption
<1>1. ListTyped /\ RestTyped /\ IsInjective(peer_list) /\ Counting /\ Silence
  BY SplitTypeOK DEF IInv
<1>2. Len(peer_list) \in Nat
  BY <1>1, ListFacts
<1>3. /\ p \in Listed /\ Unlink(p) /\ main = "recv" /\ main' = handler
      /\ UNCHANGED <<curr_p_count, checker, cursor, acked>>
  BY DEF RemovePeer, Receiving
<1>4. ListTyped' /\ IsInjective(peer_list)' /\ Len(peer_list') = Len(peer_list) - 1
  BY <1>1, <1>3, UnlinkKeepsOthers
<1>5. Uncounted' = Uncounted + 1
  BY <1>3 DEF Uncounted
<1>6. Counting'
  BY <1>1, <1>2, <1>3, <1>4, <1>5 DEF Counting, Uncounted, RestTyped
<1>7. RestTyped'
  BY <1>1, <1>3 DEF RestTyped
<1>8. Silence'
  BY <1>1, <1>3, UnlinkKeepsSilence DEF Silence
<1>9. QED
  BY <1>4, <1>6, <1>7, <1>8, SplitTypeOK DEF IInv

\* The steps of the main thread.
LEMMA MainPreserves ==
    IInv /\ (Receive \/ CountMain) => IInv'
<1> SUFFICES ASSUME IInv, Receive \/ CountMain PROVE IInv'
  OBVIOUS
<1> USE PeerTableAssumption
<1>0. ListTyped /\ RestTyped /\ IsInjective(peer_list) /\ Counting /\ Silence
  BY SplitTypeOK DEF IInv
<1>a. /\ Len(peer_list) \in Nat /\ DOMAIN peer_list = 1..Len(peer_list)
      /\ \A k \in DOMAIN peer_list : peer_list[k] \in Peer
  BY <1>0, ListFacts
<1>1. ASSUME NEW p \in Peer, NEW r \in Rate, Join(p, r) PROVE IInv'
  <2>1. /\ checker \in {"sleep", "expire", "give_up"} /\ main = "recv"
        /\ UNCHANGED <<main, checker, cursor, files>>
        /\ Rested
    BY <1>0, <1>1 DEF Join, Receiving, Up, LockFree, RestTyped, Silence
  <2>2. PICK i \in 1..(Len(peer_list) + 1) : peer_list' = InsertAt(peer_list, i, p)
    BY <1>1 DEF Join
  <2>3. ListTyped' /\ IsInjective(peer_list)' /\ Rested' /\ Len(peer_list') = Len(peer_list) + 1
    BY <1>0, <1>1, <2>1, <2>2, InsertKeepsSilence DEF Join
  <2>4. Counting' /\ curr_p_count' \in Nat
    <3>1. /\ Len(peer_list) <= curr_p_count /\ curr_p_count < MaxPCount
          /\ curr_p_count \in Nat /\ MaxPCount \in Nat \ {0}
      BY <1>0, <1>1, <2>1, <1>a DEF Counting, Uncounted, RestTyped, Join, PeerTableAssumption
    <3>2. /\ curr_p_count' = (IF peer_list = <<>> THEN 0 ELSE curr_p_count) + 1
          /\ peer_list = <<>> => Len(peer_list) = 0
      BY <1>1 DEF Join
    <3>3. curr_p_count' \in Nat /\ Len(peer_list) + 1 <= curr_p_count' /\ curr_p_count' <= MaxPCount
      BY <1>a, <3>1, <3>2
    <3>4. Uncounted' = 0
      BY <2>1 DEF Uncounted
    <3>5. QED
      BY <1>a, <2>3, <3>3, <3>4 DEF Counting
  <2>5. RestTyped'
    BY <1>0, <1>1, <2>1, <2>4 DEF Join, RestTyped
  <2>6. Silence'
    BY <2>1, <2>3 DEF Silence
  <2>7. QED
    BY <2>3, <2>4, <2>5, <2>6, SplitTypeOK DEF IInv
<1>2. ASSUME NEW p \in Peer, NEW r \in Rate, Ping(p, r) PROVE IInv'
  <2>1. /\ checker \in {"sleep", "expire", "give_up"}
        /\ UNCHANGED <<peer_list, curr_p_count, main, checker, cursor, files, acked>>
        /\ Rested
    BY <1>0, <1>2 DEF Ping, Receiving, Up, LockFree, RestTyped, Silence
  <2>2. /\ flag' = [flag EXCEPT ![p] = 1] /\ periods' = [periods EXCEPT ![p] = 0]
        /\ peer_rate' = [peer_rate EXCEPT ![p] = r]
    BY <1>2 DEF Ping
  <2>3. ListTyped'
    BY <1>0, <2>1, <2>2 DEF ListTyped
  <2>4. Rested'
    BY <1>0, <1>a, <2>1, <2>2 DEF Rested, ListTyped
  <2>5. IsInjective(peer_list)' /\ Counting' /\ RestTyped' /\ Silence'
    BY <1>0, <2>1, <2>4 DEF IsInjective, Counting, Uncounted, RestTyped, Silence
  <2>6. QED
    BY <2>3, <2>5, SplitTypeOK DEF IInv
<1>3. ASSUME NEW p \in Peer, RemovePeer(p, "leave") PROVE IInv'
  BY <1>3, RemovePreserves
<1>4. ASSUME NEW p \in Peer, UpdateFileList(p) PROVE IInv'
  <2>1. UNCHANGED <<list_vars, curr_p_count, main, checker, cursor, acked>>
        /\ files' \in SUBSET Peer
    BY <1>0, <1>4 DEF UpdateFileList, ListTyped
  <2>2. QED
    BY <1>0, <2>1, SplitTypeOK DEF IInv, list_vars, ListTyped, RestTyped, IsInjective,
       Counting, Uncounted, Silence, Rested, Swept, Visited, Pending
<1>5. CASE CountMain
  <2>1. /\ main \in {"leave", "register"} /\ main' \in {"recv", "registered"}
        /\ curr_p_count' = curr_p_count - 1
        /\ UNCHANGED <<list_vars, files, checker, cursor, acked>>
    BY <1>5 DEF CountMain, Counted
  <2>2. Uncounted' = Uncounted - 1 /\ Uncounted \in 1..2
    BY <2>1 DEF Uncounted
  <2>3. curr_p_count' \in Nat /\ Counting'
    BY <1>0, <1>a, <2>1, <2>2 DEF Counting, RestTyped, list_vars, PeerTableAssumption
  <2>4. ListTyped' /\ RestTyped'
    BY <1>0, <2>1, <2>3 DEF ListTyped, RestTyped, list_vars
  <2>5. IsInjective(peer_list)' /\ Silence'
    BY <1>0, <2>1 DEF list_vars, IsInjective, Silence, Rested, Swept, Visited, Pending
  <2>6. QED
    BY <2>3, <2>4, <2>5, SplitTypeOK DEF IInv
<1>6. QED
  BY <1>1, <1>2, <1>3, <1>4, <1>5 DEF Receive, Membership

\* The steps of the checker that walk the list.
LEMMA SweepPreserves ==
    IInv /\ (StartSweep \/ SweepKeep \/ SweepRemove) => IInv'
<1> SUFFICES ASSUME IInv, StartSweep \/ SweepKeep \/ SweepRemove PROVE IInv'
  OBVIOUS
<1> USE PeerTableAssumption
<1>0. ListTyped /\ RestTyped /\ IsInjective(peer_list) /\ Counting /\ Silence
  BY SplitTypeOK DEF IInv
<1>a. /\ Len(peer_list) \in Nat /\ DOMAIN peer_list = 1..Len(peer_list)
      /\ \A k \in DOMAIN peer_list : peer_list[k] \in Peer /\ peer_list[k] \in Listed
      /\ \A k \in DOMAIN peer_list : peer_list[k] # Nil
  BY <1>0, ListFacts DEF PeerTableAssumption
<1>1. CASE StartSweep
  <2>1. /\ Rested /\ checker = "sleep" /\ checker' = "sweep"
        /\ UNCHANGED <<peer_list, peer_rate, flag, curr_p_count, files, main, acked>>
        /\ cursor' = IF peer_list = <<>> THEN Nil ELSE Head(peer_list)
        /\ periods' = [p \in Peer |-> IF p \in Listed THEN periods[p] + 1 ELSE 0]
    BY <1>0, <1>1 DEF StartSweep, Silence
  <2>2. ListTyped'
    BY <1>0, <2>1 DEF ListTyped
  <2>3. /\ peer_list = <<>> => DOMAIN peer_list = {} /\ cursor' = Nil
        /\ peer_list # <<>> => 1 \in DOMAIN peer_list /\ cursor' = peer_list[1]
    BY <1>0, <1>a, <2>1 DEF ListTyped
  <2>4. RestTyped'
    BY <1>0, <1>a, <2>1, <2>3 DEF RestTyped
  <2>5. \A i \in DOMAIN peer_list : Pending(i)'
    <3>1. ASSUME NEW i \in DOMAIN peer_list PROVE Pending(i)'
      <4>1. periods'[peer_list[i]] = periods[peer_list[i]] + 1
        BY <1>a, <2>1
      <4>2. periods[peer_list[i]] = 1 - flag[peer_list[i]] /\ flag[peer_list[i]] \in 0..1
        BY <1>0, <1>a, <2>1 DEF Rested, ListTyped
      <4>3. 1 - flag[peer_list[i]] + 1 = 2 - flag[peer_list[i]]
        BY ONLY <4>2
      <4>4. QED
        BY <2>1, <4>1, <4>2, <4>3 DEF Pending
    <3>2. QED
      BY <3>1
  <2>6. Swept'
    <3>1. CASE peer_list = <<>>
      BY <2>1, <2>3, <3>1 DEF Swept
    <3>2. CASE peer_list # <<>>
      <4>1. cursor' # Nil /\ \A k \in DOMAIN peer_list : peer_list[k] = cursor' => k = 1
        BY <1>0, <1>a, <2>3, <3>2 DEF IsInjective
      <4>2. \A i \in DOMAIN peer_list : ~(i < 1)
        BY <1>a
      <4>3. QED
        BY <2>1, <2>5, <4>1, <4>2 DEF Swept
    <3>3. QED
      BY <3>1, <3>2
  <2>7. IsInjective(peer_list)' /\ Counting' /\ Silence'
    BY <1>0, <2>1, <2>6 DEF IsInjective, Counting, Uncounted, Silence
  <2>8. QED
    BY <2>2, <2>4, <2>7, SplitTypeOK DEF IInv
<1>2. ASSUME cursor \in Listed, checker = "sweep"
      PROVE  /\ IndexOf(cursor) \in 1..Len(peer_list) /\ peer_list[IndexOf(cursor)] = cursor
             /\ \A i \in DOMAIN peer_list :
                   /\ i < IndexOf(cursor) => Visited(i)
                   /\ i >= IndexOf(cursor) => Pending(i)
             /\ NextOf(cursor) =
                   IF IndexOf(cursor) < Len(peer_list) THEN peer_list[IndexOf(cursor) + 1]
                   ELSE Nil
             /\ NextOf(cursor) \in Peer \cup {Nil}
  <2>1. IndexOf(cursor) \in DOMAIN peer_list /\ peer_list[IndexOf(cursor)] = cursor
    BY <1>2, IndexOfListed
  <2>2. NextOf(cursor) =
           IF IndexOf(cursor) < Len(peer_list) THEN peer_list[IndexOf(cursor) + 1] ELSE Nil
    BY DEF NextOf
  <2> DEFINE n == IndexOf(cursor)
  <2> HIDE DEF n
  <2>3. n \in DOMAIN peer_list /\ peer_list[n] = cursor
    BY <2>1 DEF n
  <2>4. \A i \in DOMAIN peer_list : (i < n => Visited(i)) /\ (i >= n => Pending(i))
    BY <1>0, <1>2, <2>3 DEF Silence, Swept
  <2>5. (IF n < Len(peer_list) THEN peer_list[n + 1] ELSE Nil) \in Peer \cup {Nil}
    BY <1>a, <2>3
  <2>6. QED
    BY <1>a, <2>1, <2>2, <2>4, <2>5 DEF n
<1>3. CASE SweepKeep
  <2> DEFINE n == IndexOf(cursor)
  <2>1. /\ checker = "sweep" /\ cursor \in Listed /\ flag[cursor] = 1
        /\ flag' = [flag EXCEPT ![cursor] = 0]
        /\ cursor' = NextOf(cursor)
        /\ UNCHANGED <<peer_list, peer_rate, periods, curr_p_count, files, main, checker,
                       acked>>
    BY <1>3 DEF SweepKeep
  <2>2. /\ n \in 1..Len(peer_list) /\ peer_list[n] = cursor
        /\ \A i \in DOMAIN peer_list : (i < n => Visited(i)) /\ (i >= n => Pending(i))
        /\ cursor' = IF n < Len(peer_list) THEN peer_list[n + 1] ELSE Nil
        /\ cursor' \in Peer \cup {Nil}
    BY <1>2, <2>1
  <2> HIDE DEF n
  <2>3. ListTyped'
    <3>1. flag \in [Peer -> 0..1] /\ cursor \in Peer
      BY <1>0, <1>a, <2>2 DEF ListTyped
    <3>2. flag' \in [Peer -> 0..1]
      BY <2>1, <3>1
    <3>3. QED
      BY <1>0, <2>1, <3>2 DEF ListTyped
  <2>4. RestTyped'
    BY <1>0, <2>1, <2>2 DEF RestTyped
  <2>5. \A i \in DOMAIN peer_list :
           (i < n + 1 => Visited(i)') /\ (i >= n + 1 => Pending(i)')
    <3>1. SUFFICES ASSUME NEW i \in DOMAIN peer_list
                   PROVE  (i < n + 1 => Visited(i)') /\ (i >= n + 1 => Pending(i)')
      OBVIOUS
    <3>2. CASE i = n
      <4>1. flag'[cursor] = 0 /\ periods[cursor] = 1
        <5>1. Pending(n)
          BY <1>a, <2>2
        <5>2. periods[cursor] = 2 - flag[cursor]
          BY <2>2, <5>1 DEF Pending
        <5>3. flag'[cursor] = 0
          BY <1>0, <1>a, <2>1, <2>2 DEF ListTyped
        <5>4. QED
          BY <2>1, <5>2, <5>3
      <4>2. Visited(i)' /\ ~(i >= n + 1)
        BY <2>1, <2>2, <3>2, <4>1 DEF Visited
      <4>3. QED
        BY <4>2
    <3>3. CASE i # n
      <4>1. peer_list[i] # cursor /\ peer_list[i] \in Peer
        BY <1>0, <1>a, <2>2, <3>1, <3>3 DEF IsInjective
      <4>2. flag'[peer_list[i]] = flag[peer_list[i]]
        BY <1>0, <2>1, <4>1 DEF ListTyped
      <4>3. (Visited(i) => Visited(i)') /\ (Pending(i) => Pending(i)')
        BY <2>1, <4>2 DEF Visited, Pending
      <4>4. (i < n + 1 => i < n) /\ (i >= n + 1 => i >= n)
        BY <1>a, <2>2, <3>1, <3>3
      <4>5. QED
        BY <2>2, <4>3, <4>4
    <3>4. QED
      BY <3>2, <3>3
  <2>6. Swept'
    <3>1. CASE n < Len(peer_list)
      <4>1. /\ n + 1 \in DOMAIN peer_list /\ cursor' = peer_list[n + 1] /\ cursor' # Nil
            /\ \A k \in DOMAIN peer_list : peer_list[k] = cursor' => k = n + 1
        BY <1>0, <1>a, <2>2, <3>1 DEF IsInjective
      <4>2. QED
        BY <2>1, <2>5, <4>1 DEF Swept
    <3>2. CASE ~(n < Len(peer_list))
      <4>1. cursor' = Nil /\ \A i \in DOMAIN peer_list : i < n + 1
        BY <1>a, <2>2, <3>2
      <4>2. QED
        BY <1>a, <2>1, <2>5, <4>1 DEF Swept
    <3>3. QED
      BY <3>1, <3>2
  <2>7. IsInjective(peer_list)' /\ Counting' /\ Silence'
    BY <1>0, <2>1, <2>6 DEF IsInjective, Counting, Uncounted, Silence
  <2>8. QED
    BY <2>3, <2>4, <2>7, SplitTypeOK DEF IInv
<1>4. CASE SweepRemove
  <2> DEFINE n == IndexOf(cursor)
  <2>1. /\ checker = "sweep" /\ checker' = "count" /\ cursor \in Listed
        /\ Unlink(cursor) /\ cursor' = NextOf(cursor)
        /\ UNCHANGED <<curr_p_count, main, acked>>
    BY <1>4 DEF SweepRemove
  <2>2. /\ n \in 1..Len(peer_list) /\ peer_list[n] = cursor
        /\ \A i \in DOMAIN peer_list : (i < n => Visited(i)) /\ (i >= n => Pending(i))
        /\ cursor' = IF n < Len(peer_list) THEN peer_list[n + 1] ELSE Nil
        /\ cursor' \in Peer \cup {Nil}
    BY <1>2, <2>1
  <2>3. /\ ListTyped' /\ IsInjective(peer_list)' /\ Len(peer_list') = Len(peer_list) - 1
        /\ \A k \in DOMAIN peer_list' :
              /\ Old(n, k) \in DOMAIN peer_list /\ Old(n, k) # n
              /\ peer_list'[k] = peer_list[Old(n, k)]
              /\ flag'[peer_list'[k]] = flag[peer_list'[k]]
              /\ periods'[peer_list'[k]] = periods[peer_list'[k]]
    BY <1>0, <2>1, UnlinkKeepsOthers
  <2> HIDE DEF n
  <2>4. DOMAIN peer_list' = 1..(Len(peer_list) - 1)
    BY <1>a, <2>2, <2>3 DEF ListTyped
  <2>5. RestTyped'
    BY <1>0, <2>1, <2>2 DEF RestTyped
  <2>6. Counting'
    <3>1. Uncounted' = Uncounted + 1
      BY <2>1 DEF Uncounted
    <3>2. QED
      BY <1>0, <1>a, <2>1, <2>3, <3>1 DEF Counting, Uncounted, RestTyped
  <2>7. \A k \in DOMAIN peer_list' : (k < n => Visited(k)') /\ (k >= n => Pending(k)')
    <3>1. SUFFICES ASSUME NEW k \in DOMAIN peer_list'
                   PROVE  (k < n => Visited(k)') /\ (k >= n => Pending(k)')
      OBVIOUS
    <3>2. /\ Visited(Old(n, k)) => Visited(k)'
          /\ Pending(Old(n, k)) => Pending(k)'
      BY <2>3, <3>1 DEF Visited, Pending
    <3>3. (k < n => Old(n, k) < n) /\ (k >= n => Old(n, k) >= n)
      BY <2>2, <2>4, <3>1 DEF Old
    <3>4. QED
      BY <2>2, <2>3, <3>1, <3>2, <3>3
  <2>8. Swept'
    <3>1. CASE n < Len(peer_list)
      <4>1. n \in DOMAIN peer_list' /\ Old(n, n) = n + 1
        BY <1>a, <2>2, <2>4, <3>1 DEF Old
      <4>2. cursor' = peer_list'[n] /\ cursor' # Nil
        BY <1>a, <2>2, <2>3, <3>1, <4>1
      <4>3. \A k \in DOMAIN peer_list' : peer_list'[k] = cursor' => k = n
        BY <2>3, <4>1, <4>2 DEF IsInjective
      <4>4. QED
        BY <2>7, <4>2, <4>3 DEF Swept
    <3>2. CASE ~(n < Len(peer_list))
      <4>1. cursor' = Nil /\ \A k \in DOMAIN peer_list' : k < n
        BY <1>a, <2>2, <2>4, <3>2
      <4>2. \A k \in DOMAIN peer_list' : peer_list'[k] # Nil
        BY <1>a, <2>3
      <4>3. QED
        BY <2>7, <4>1, <4>2 DEF Swept
    <3>3. QED
      BY <3>1, <3>2
  <2>9. QED
    BY <2>1, <2>3, <2>5, <2>6, <2>8, SplitTypeOK DEF IInv, Silence
<1>5. QED
  BY <1>1, <1>3, <1>4

\* The other steps of the checker do not touch the list.
LEMMA CheckerPreserves ==
    IInv /\ (CountChecker \/ CountBoth \/ SweepFreed \/ EndSweep \/ Sleep) => IInv'
<1> SUFFICES ASSUME IInv, CountChecker \/ CountBoth \/ SweepFreed \/ EndSweep \/ Sleep
             PROVE  IInv'
  OBVIOUS
<1> USE PeerTableAssumption
<1>0. ListTyped /\ RestTyped /\ IsInjective(peer_list) /\ Counting /\ Silence
  BY SplitTypeOK DEF IInv
<1>a. Len(peer_list) \in Nat
  BY <1>0, ListFacts
<1>1. UNCHANGED <<list_vars, files, cursor, acked>>
  BY DEF CountChecker, CountBoth, SweepFreed, EndSweep, Sleep
<1>2. ListTyped' /\ IsInjective(peer_list)' /\ (Rested <=> Rested') /\ (Swept <=> Swept')
  BY <1>0, <1>1 DEF list_vars, ListTyped, IsInjective, Rested, Swept, Visited, Pending
<1>3. CASE CountChecker \/ CountBoth
  <2>1. /\ checker = "count" /\ checker' = "sweep" /\ curr_p_count' = curr_p_count - 1
        /\ main' \in {main, "recv", "registered"}
    BY <1>3 DEF CountChecker, CountBoth, Counted
  <2>2. Uncounted' <= Uncounted - 1 /\ Uncounted \in 1..2 /\ Uncounted' \in 0..1
    BY <2>1 DEF Uncounted
  <2>3. curr_p_count' \in Nat /\ Counting'
    BY <1>0, <1>1, <1>a, <2>1, <2>2 DEF Counting, RestTyped, list_vars, PeerTableAssumption
  <2>4. RestTyped' /\ Silence'
    BY <1>0, <1>1, <1>2, <2>1, <2>3 DEF RestTyped, Silence
  <2>5. QED
    BY <1>2, <2>3, <2>4, SplitTypeOK DEF IInv
<1>4. CASE SweepFreed \/ EndSweep \/ Sleep
  <2>1. /\ UNCHANGED <<curr_p_count, main>>
        /\ checker' \in {"sleep", "expire", "crashed"} /\ checker # "count"
    BY <1>4 DEF SweepFreed, EndSweep, Sleep
  <2>2. RestTyped' /\ Counting'
    BY <1>0, <1>1, <2>1 DEF RestTyped, Counting, Uncounted, list_vars
  <2>3. Silence'
    <3>1. CASE SweepFreed
      BY <3>1 DEF SweepFreed, Silence
    <3>2. CASE EndSweep
      <4>1. Rested
        BY <1>0, <3>2 DEF EndSweep, Silence, Swept, Rested, Visited
      <4>2. QED
        BY <1>2, <3>2, <4>1 DEF EndSweep, Silence
    <3>3. CASE Sleep
      BY <1>0, <1>2, <3>3 DEF Sleep, Silence
    <3>4. QED
      BY <1>4, <3>1, <3>2, <3>3
  <2>4. QED
    BY <1>2, <2>2, <2>3, SplitTypeOK DEF IInv
<1>5. QED
  BY <1>3, <1>4

LEMMA NextPreserves == IInv /\ [Next]_vars => IInv'
<1> SUFFICES ASSUME IInv, [Next]_vars PROVE IInv'
  OBVIOUS
<1>1. CASE Next
  BY <1>1, MainPreserves, SweepPreserves, CheckerPreserves DEF Next, Sweep
<1>2. CASE UNCHANGED vars
  BY <1>2 DEF vars, list_vars, IInv, TypeOK, IsInjective, Counting, Uncounted, Silence,
              Rested, Swept, Visited, Pending
<1>3. QED
  BY <1>1, <1>2

-----------------------------------------------------------------------------
(* What the invariant says *)

LEMMA CapacityHolds == ASSUME IInv PROVE CapacityKept
<1>1. Len(peer_list) \in Nat /\ curr_p_count \in Nat /\ MaxPCount \in Nat
  BY PeerTableAssumption DEF IInv, TypeOK, PeerTableAssumption
<1>2. Uncounted \in 0..2
  BY DEF Uncounted
<1>3. QED
  BY <1>1, <1>2 DEF IInv, Counting, CapacityKept

LEMMA SilenceHolds == ASSUME IInv PROVE SilentDelisted
<1>1. SUFFICES ASSUME LockFree, NEW p \in Listed PROVE periods[p] <= 1
  BY DEF SilentDelisted
<1>2. PICK i \in DOMAIN peer_list : peer_list[i] = p
  BY DEF Listed, ToSet
<1>3. periods[p] = 1 - flag[p]
  BY <1>1, <1>2 DEF IInv, TypeOK, LockFree, Silence, Rested
<1>4. flag[p] \in 0..1
  BY <1>2 DEF IInv, TypeOK
<1>5. QED
  BY <1>3, <1>4

\* The node the checker removes has been silent for two sweeps.
LEMMA RemovalJustified ==
    ASSUME IInv, SweepRemove, NEW p \in Listed \ Listed' PROVE periods[p] >= 2
<1>1. /\ cursor \in Listed /\ flag[cursor] = 0 /\ peer_list \in Seq(Peer)
      /\ peer_list' = RemoveAt(peer_list, IndexOf(cursor)) /\ checker = "sweep"
  BY DEF SweepRemove, Unlink, IInv, TypeOK
<1> DEFINE n == IndexOf(cursor)
<1>2. /\ n \in DOMAIN peer_list /\ peer_list[n] = cursor
      /\ peer_list' = RemoveAt(peer_list, n)
  BY <1>1, IndexOfListed
<1> HIDE DEF n
<1>3. DOMAIN peer_list = 1..Len(peer_list) /\ Len(peer_list) \in Nat
  BY <1>1
<1>4. Pending(n)
  BY <1>1, <1>2, <1>3 DEF IInv, Silence, Swept
<1>5. periods[cursor] = 2
  BY <1>1, <1>2, <1>4 DEF Pending
<1>6. p = cursor
  <2>1. PICK k \in DOMAIN peer_list : peer_list[k] = p
    BY DEF Listed, ToSet
  <2>2. CASE k # n
    <3>1. peer_list \in Seq(Peer) /\ n \in 1..Len(peer_list) /\ k \in 1..Len(peer_list)
      BY <1>1, <1>2, <1>3
    <3>2. peer_list[k] \in ToSet(RemoveAt(peer_list, n))
      BY ONLY <3>1, <2>2, RemoveAtKeepsOthers
    <3>3. QED
      BY <1>2, <2>1, <3>2 DEF Listed
  <2>3. QED
    BY <1>2, <2>1, <2>2
<1>7. QED
  BY <1>5, <1>6

-----------------------------------------------------------------------------
(* The theorems about the list *)

\* The inductive invariant holds in every reachable state.
THEOREM Invariance == Spec => []IInv
BY InitIInv, NextPreserves, PTL DEF Spec

\* Every variable keeps its type; curr_p_count, which two threads decrement,
\* never goes below 0.
THEOREM TypeCorrect == Spec => []TypeOK
<1>1. IInv => TypeOK
  BY DEF IInv
<1>2. QED
  BY <1>1, Invariance, PTL

\* No interleaving of JOIN, LEAVE, REGISTER and the sweeps admits a peer
\* beyond the capacity, or twice.
THEOREM Capacity == Spec => []CapacityKept
BY CapacityHolds, Invariance, PTL

\* No peer stays listed through two sweeps without a word of it.
THEOREM SilentAreDelisted == Spec => []SilentDelisted
BY SilenceHolds, Invariance, PTL

\* The checker does not delist a peer heard of since the sweep before the
\* last one.
THEOREM DelistingIsJustified == Spec => DelistedOnlyAfterSilence
<1> DEFINE Justified ==
        \A p \in Listed \ Listed' : checker' = "count" /\ checker = "sweep" => periods[p] >= 2
<1>1. IInv /\ [Next]_vars => [Justified]_vars
  <2>1. SUFFICES ASSUME IInv, Next, NEW p \in Listed \ Listed',
                        checker' = "count", checker = "sweep"
                 PROVE  periods[p] >= 2
    OBVIOUS
  <2>2. SweepRemove
    BY <2>1 DEF Next, Receive, Membership, Sweep, Join, Ping, RemovePeer, UpdateFileList,
       CountMain, StartSweep, SweepKeep, CountChecker, CountBoth, SweepFreed, EndSweep,
       Sleep
  <2>3. QED
    BY <2>1, <2>2, RemovalJustified
<1>2. QED
  BY <1>1, Invariance, PTL DEF Spec, DelistedOnlyAfterSilence

-----------------------------------------------------------------------------
(* The superpeer that promotes its peers *)

\* A PROMOTE that is about to be sent is among those that wait for an answer.
Promoting == IF main \in {"promote", "send"} THEN 1 ELSE 0

\* The bound of the PROMOTEs is kept, and the address of one is taken from a list
\* with a head.
PromoteOK == unanswered + errs + Promoting <= MaxUnanswered

\* The inductive invariant.
SuperpeerInv == IInv /\ SuperpeerTypeOK /\ PromoteOK

\* The types of what a superpeer has besides its list.
OwnTyped ==
    /\ state \in {"ACTIVE", "PROMOTE_SENT", "LEAVE_SENT"}
    /\ have_child \in 0..1
    /\ child_addr \in Peer \cup {Bs, Nil}
    /\ child_miss_pong \in 0..MaxMissPong
    /\ curr_child_p_count \in 0..MaxPCount
    /\ target \in Peer \cup {Nil}
    /\ unanswered \in 0..MaxUnanswered
    /\ errs \in 0..MaxUnanswered
    /\ leave_sent \in BOOLEAN
    /\ promote_ttl \in 0..PromoteTtl
    /\ kept \in BOOLEAN
    /\ pinger \in {"sleep", "stopped"}
    /\ promoted \in SUBSET Peer

LEMMA SplitSuperpeer ==
    /\ SuperpeerInv <=> IInv /\ OwnTyped /\ PromoteOK
    /\ SuperpeerInv' <=> IInv' /\ OwnTyped' /\ PromoteOK'
BY DEF SuperpeerInv, SuperpeerTypeOK, OwnTyped, IInv

\* Steps that leave the list alone.
LEMMA TableRests ==
    ASSUME IInv, UNCHANGED table_vars,
           main' \in {"recv", "registered", "promote", "send", "blocked", "exited", main},
           main \in {"leave", "register"} => main' = main,
           \/ checker' = checker
           \/ {checker, checker'} \subseteq {"sleep", "expire", "give_up"}
    PROVE  IInv'
<1>1. ListTyped /\ RestTyped /\ IsInjective(peer_list) /\ Counting /\ Silence
  BY SplitTypeOK DEF IInv
<1>2. UNCHANGED <<peer_list, peer_rate, flag, curr_p_count, files, cursor, acked, periods>>
  BY DEF table_vars
<1>3. ListTyped' /\ IsInjective(peer_list)' /\ (Rested <=> Rested') /\ (Swept <=> Swept')
  BY <1>1, <1>2 DEF ListTyped, IsInjective, Rested, Swept, Visited, Pending
<1>4. RestTyped'
  BY <1>1, <1>2 DEF RestTyped
<1>5. Counting'
  BY <1>1, <1>2 DEF Counting, Uncounted
<1>6. Silence'
  BY <1>1, <1>3 DEF Silence
<1>7. QED
  BY <1>3, <1>4, <1>5, <1>6, SplitTypeOK DEF IInv

LEMMA SuperpeerStart == SuperpeerInit => SuperpeerInv
<1> SUFFICES ASSUME SuperpeerInit PROVE SuperpeerInv
  OBVIOUS
<1>1. IInv
  BY InitIInv DEF SuperpeerInit
<1>2. OwnTyped
  <2>1. {} \in SUBSET Peer /\ 0 \in 0..1 /\ 0 \in 0..MaxMissPong /\ 0 \in 0..MaxPCount
    BY SuperpeerAssumption, PeerTableAssumption DEF SuperpeerAssumption, PeerTableAssumption
  <2>2. 0 \in 0..MaxUnanswered /\ PromoteTtl \in 0..PromoteTtl
    BY SuperpeerAssumption DEF SuperpeerAssumption
  <2>3. QED
    BY <2>1, <2>2 DEF SuperpeerInit, OwnTyped
<1>3. PromoteOK
  <2>1. main = "recv" /\ unanswered = 0 /\ errs = 0
    BY DEF SuperpeerInit, Init
  <2>2. QED
    BY <2>1, SuperpeerAssumption DEF PromoteOK, Promoting, SuperpeerAssumption
<1>4. QED
  BY <1>1, <1>2, <1>3, SplitSuperpeer

\* The steps of PeerTable.
LEMMA TableStepKeeps ==
    ASSUME SuperpeerInv, UNCHANGED own_vars, Membership \/ CountMain \/ Sweep
    PROVE  SuperpeerInv'
<1>1. IInv /\ OwnTyped /\ PromoteOK
  BY SplitSuperpeer
<1>2. IInv'
  BY <1>1, MainPreserves, SweepPreserves, CheckerPreserves DEF Receive, Sweep
<1>3. OwnTyped'
  BY <1>1 DEF OwnTyped, own_vars, child_vars, promote_vars, retx_vars
<1>4. UNCHANGED main \/ main' \in {"recv", "registered", "leave"}
  BY DEF Membership, Join, Ping, RemovePeer, CountMain, Counted, Sweep, StartSweep, SweepKeep,
         SweepRemove, CountChecker, CountBoth, SweepFreed, EndSweep
<1>5. PromoteOK'
  <2>1. Promoting' <= Promoting /\ Promoting \in 0..1 /\ Promoting' \in 0..1
    BY <1>4 DEF Promoting
  <2>2. /\ unanswered' = unanswered /\ errs' = errs
        /\ unanswered \in Nat /\ errs \in Nat
    BY <1>1 DEF own_vars, promote_vars, OwnTyped
  <2>3. unanswered + errs + Promoting <= MaxUnanswered /\ MaxUnanswered \in Nat
    BY <1>1, SuperpeerAssumption DEF PromoteOK, SuperpeerAssumption
  <2>4. unanswered' + errs' + Promoting' <= MaxUnanswered
    BY <2>1, <2>2, <2>3 DEF Promoting
  <2>5. QED
    BY <2>4 DEF PromoteOK
<1>6. QED
  BY <1>2, <1>3, <1>5, SplitSuperpeer

\* The other commands the main thread handles.
LEMMA HandleKeeps == ASSUME SuperpeerInv, Handle PROVE SuperpeerInv'
<1> USE SuperpeerAssumption, PeerTableAssumption DEF SuperpeerAssumption, PeerTableAssumption
<1>1. IInv /\ OwnTyped /\ PromoteOK
  BY SplitSuperpeer
<1>2. ASSUME NEW p \in Peer, JoinRedirected(p) PROVE SuperpeerInv'
  <2>1. UNCHANGED <<table_vars, main, checker>>
    BY <1>2 DEF JoinRedirected, Refuse
  <2>2. OwnTyped' /\ PromoteOK'
    BY <1>1, <1>2 DEF JoinRedirected, OwnTyped, PromoteOK, Promoting, promote_vars, retx_vars
  <2>3. QED
    BY <1>1, <2>1, <2>2, TableRests, SplitSuperpeer
<1>3. ASSUME NEW p \in Peer, JoinPromotes(p) PROVE SuperpeerInv'
  <2>1. /\ UNCHANGED <<table_vars, checker>> /\ main = "recv" /\ main' = "promote"
        /\ UNCHANGED <<state, child_vars, promote_vars, leave_sent, retx_vars, promote_ttl>>
        /\ unanswered + errs < MaxUnanswered
    BY <1>3 DEF JoinPromotes, Refuse, Receiving, own_vars
  <2>2. OwnTyped' /\ PromoteOK'
    BY <1>1, <2>1 DEF OwnTyped, PromoteOK, Promoting, child_vars, promote_vars, retx_vars
  <2>3. QED
    BY <1>1, <2>1, <2>2, TableRests, SplitSuperpeer
<1>4. ASSUME NEW p \in Peer, NEW n \in 0..MaxPCount, Pong(p, n) PROVE SuperpeerInv'
  <2>1. UNCHANGED <<table_vars, main, checker>>
    BY <1>4 DEF Pong
  <2>2. OwnTyped' /\ PromoteOK'
    BY <1>1, <1>4 DEF Pong, OwnTyped, PromoteOK, Promoting, promote_vars, retx_vars
  <2>3. QED
    BY <1>1, <2>1, <2>2, TableRests, SplitSuperpeer
<1>5. ASSUME NEW p \in Peer, Register(p) PROVE SuperpeerInv'
  <2>1. UNCHANGED <<state, child_vars, promote_vars, leave_sent, retx_vars, promote_ttl>>
    BY <1>5 DEF Register, own_vars
  <2>2. main = "recv" /\ main' \in {"register", "registered"}
    BY <1>5 DEF Register, RemovePeer, Receiving
  <2>3. OwnTyped' /\ PromoteOK'
    BY <1>1, <2>1, <2>2
       DEF OwnTyped, PromoteOK, Promoting, child_vars, promote_vars, retx_vars
  <2>4. CASE RemovePeer(p, "register")
    BY <1>1, <2>3, <2>4, RemovePreserves, SplitSuperpeer
  <2>5. CASE main' = "registered" /\ UNCHANGED <<table_vars, checker>>
    BY <1>1, <2>2, <2>3, <2>5, TableRests, SplitSuperpeer
  <2>6. QED
    BY <1>5, <2>4, <2>5 DEF Register
<1>6. ASSUME NEW a \in Peer \cup {Bs}, Acknowledged(a),
             unanswered' \in {unanswered, unanswered - 1}, unanswered' >= 0,
             leave_sent' \in BOOLEAN
      PROVE  SuperpeerInv'
  <2>1. /\ UNCHANGED <<table_vars, checker>> /\ main = "recv" /\ main' \in {"recv", "exited"}
    BY <1>6 DEF Acknowledged, Receiving
  <2>2. OwnTyped'
    BY <1>1, <1>6 DEF Acknowledged, OwnTyped, retx_vars
  <2>3. PromoteOK'
    <3>1. errs' = errs /\ errs \in Nat /\ unanswered \in Nat
      BY <1>1, <1>6 DEF Acknowledged, OwnTyped
    <3>2. CASE unanswered' = unanswered
      BY <1>1, <2>1, <3>1, <3>2 DEF PromoteOK, Promoting
    <3>3. CASE unanswered' = unanswered - 1
      BY <1>1, <2>1, <3>1, <3>3 DEF PromoteOK, Promoting
    <3>4. QED
      BY <1>6, <3>2, <3>3
  <2>4. QED
    BY <1>1, <2>1, <2>2, <2>3, TableRests, SplitSuperpeer
<1>7. ASSUME NEW p \in Peer, AckPeer(p) PROVE SuperpeerInv'
  <2>1. unanswered' \in {unanswered, unanswered - 1} /\ unanswered' >= 0
    BY <1>1, <1>7 DEF AckPeer, OwnTyped
  <2>2. leave_sent' \in BOOLEAN /\ Acknowledged(p)
    BY <1>1, <1>7 DEF AckPeer, OwnTyped
  <2>3. QED
    BY <1>6, <2>1, <2>2
<1>8. CASE AckLeave
  <2>1. unanswered' \in {unanswered, unanswered - 1} /\ unanswered' >= 0
    BY <1>1, <1>8 DEF AckLeave, OwnTyped
  <2>2. leave_sent' \in BOOLEAN /\ Acknowledged(Bs)
    BY <1>8 DEF AckLeave
  <2>3. QED
    BY <1>6, <2>1, <2>2
<1>9. CASE (\E p \in Peer : Abort(p)) \/ KeyboardLeave
  <2>1. UNCHANGED <<table_vars, main, checker, child_vars, promote_vars, promote_ttl, retx_vars>>
    BY <1>9 DEF Abort, KeyboardLeave
  <2>2. state' \in {"ACTIVE", "LEAVE_SENT"} /\ leave_sent' \in {leave_sent, TRUE}
    BY <1>9 DEF Abort, KeyboardLeave
  <2>3. OwnTyped' /\ PromoteOK'
    BY <1>1, <2>1, <2>2
       DEF OwnTyped, PromoteOK, Promoting, child_vars, promote_vars, retx_vars
  <2>4. QED
    BY <1>1, <2>1, <2>3, TableRests, SplitSuperpeer
<1>10. CASE PromoteError
  <2>1. /\ UNCHANGED <<table_vars, checker>> /\ main = "recv"
        /\ errs > 0 /\ errs' = errs - 1
        /\ main' \in {"promote", "recv"} /\ state' \in {state, "ACTIVE"}
        /\ UNCHANGED <<child_vars, target, unanswered, promoted, leave_sent, retx_vars,
                       promote_ttl>>
    BY <1>10 DEF PromoteError, Receiving
  <2>2. OwnTyped' /\ PromoteOK'
    BY <1>1, <2>1 DEF OwnTyped, PromoteOK, Promoting, child_vars, retx_vars
  <2>3. QED
    BY <1>1, <2>1, <2>2, TableRests, SplitSuperpeer
<1>11. CASE LeaveError
  <2>1. /\ UNCHANGED <<table_vars, checker>> /\ main = "recv" /\ main' = "exited"
        /\ UNCHANGED <<state, child_vars, promote_vars, leave_sent, retx_vars, promote_ttl>>
    BY <1>11 DEF LeaveError, Receiving, own_vars
  <2>2. OwnTyped' /\ PromoteOK'
    BY <1>1, <2>1 DEF OwnTyped, PromoteOK, Promoting, child_vars, promote_vars, retx_vars
  <2>3. QED
    BY <1>1, <2>1, <2>2, TableRests, SplitSuperpeer
<1>12. CASE Membership /\ UNCHANGED own_vars
  BY <1>12, TableStepKeeps
<1>13. CASE SendFails
  <2>1. UNCHANGED <<table_vars, main, checker>>
    BY <1>13 DEF SendFails
  <2>2. OwnTyped' /\ PromoteOK'
    BY <1>1, <1>13
       DEF SendFails, KeepLock, OwnTyped, PromoteOK, Promoting, child_vars, promote_vars
  <2>3. QED
    BY <1>1, <2>1, <2>2, TableRests, SplitSuperpeer
<1>14. QED
  BY <1>2, <1>3, <1>4, <1>5, <1>7, <1>8, <1>9, <1>10, <1>11, <1>12, <1>13 DEF Handle

\* What the main thread goes on with, and the other threads.
LEMMA ContinueKeeps ==
    ASSUME SuperpeerInv, Continue \/ GiveUp \/ PingChild \/ PingNeighboursFails \/ Check
    PROVE  SuperpeerInv'
<1> USE SuperpeerAssumption, PeerTableAssumption DEF SuperpeerAssumption, PeerTableAssumption
<1>1. IInv /\ OwnTyped /\ PromoteOK
  BY SplitSuperpeer
<1>2. CASE GetHead
  <2>1. /\ UNCHANGED <<table_vars, checker>> /\ main = "promote" /\ main' = "send"
        /\ UNCHANGED <<state, child_vars, unanswered, errs, promoted, leave_sent, retx_vars,
                       promote_ttl>>
        /\ target' = IF peer_list = <<>> THEN Nil ELSE Head(peer_list)
    BY <1>2 DEF GetHead
  <2>2. peer_list # <<>> => Head(peer_list) \in Peer
    BY <1>1 DEF IInv, TypeOK
  <2>3. OwnTyped' /\ PromoteOK'
    BY <1>1, <2>1, <2>2 DEF OwnTyped, PromoteOK, Promoting, child_vars, retx_vars
  <2>4. QED
    BY <1>1, <2>1, <2>3, TableRests, SplitSuperpeer
<1>3. CASE SendPromote
  <2>1. /\ UNCHANGED <<table_vars, checker>> /\ main = "send" /\ main' = "recv"
        /\ target # Nil /\ target' = Nil /\ unanswered' = unanswered + 1
        /\ promoted' \in {promoted, promoted \cup {target}} /\ state' = "PROMOTE_SENT"
        /\ UNCHANGED <<child_vars, errs, leave_sent, retx_vars, promote_ttl>>
    BY <1>3 DEF SendPromote
  <2>2. unanswered + errs + 1 <= MaxUnanswered /\ unanswered \in Nat /\ errs \in Nat
    BY <1>1, <2>1 DEF PromoteOK, Promoting, OwnTyped
  <2>3. PromoteOK' /\ unanswered' \in 0..MaxUnanswered
    BY <2>1, <2>2 DEF PromoteOK, Promoting
  <2>4. promoted' \in SUBSET Peer
    BY <1>1, <2>1 DEF OwnTyped
  <2>5. OwnTyped'
    BY <1>1, <2>1, <2>3, <2>4 DEF OwnTyped, child_vars, retx_vars
  <2>6. QED
    BY <1>1, <2>1, <2>3, <2>5, TableRests, SplitSuperpeer
<1>4. CASE SendPromoteFails
  <2>1. /\ UNCHANGED <<table_vars, checker>> /\ main = "send" /\ main' \in {"recv", "exited"}
        /\ target' = Nil /\ kept' = TRUE /\ pinger' = "stopped"
        /\ UNCHANGED <<state, child_vars, unanswered, errs, promoted, leave_sent, promote_ttl>>
    BY <1>4 DEF SendPromoteFails, KeepLock
  <2>2. OwnTyped' /\ PromoteOK'
    BY <1>1, <2>1 DEF OwnTyped, PromoteOK, Promoting, child_vars
  <2>3. QED
    BY <1>1, <2>1, <2>2, TableRests, SplitSuperpeer
<1>5. CASE Registered
  <2>1. /\ UNCHANGED <<table_vars, checker>> /\ main = "registered" /\ main' = "recv"
        /\ state' = "ACTIVE" /\ have_child' = 1
        /\ UNCHANGED <<child_addr, child_miss_pong, curr_child_p_count, promote_vars,
                       leave_sent, retx_vars, promote_ttl>>
    BY <1>5 DEF Registered
  <2>2. OwnTyped' /\ PromoteOK'
    BY <1>1, <2>1 DEF OwnTyped, PromoteOK, Promoting, promote_vars, retx_vars
  <2>3. QED
    BY <1>1, <2>1, <2>2, TableRests, SplitSuperpeer
<1>6. CASE GiveUp
  <2>1. /\ UNCHANGED <<table_vars, main, checker>>
        /\ unanswered > 0 /\ unanswered' = unanswered - 1 /\ errs' = errs + 1
        /\ UNCHANGED <<state, child_vars, target, promoted, leave_sent, retx_vars, promote_ttl>>
    BY <1>6 DEF GiveUp
  <2>2. unanswered + errs <= MaxUnanswered /\ unanswered \in Nat /\ errs \in Nat
    BY <1>1 DEF PromoteOK, Promoting, OwnTyped
  <2>3. OwnTyped' /\ PromoteOK'
    BY <1>1, <2>1, <2>2 DEF OwnTyped, PromoteOK, Promoting, child_vars, retx_vars
  <2>4. QED
    BY <1>1, <2>1, <2>3, TableRests, SplitSuperpeer
<1>7. CASE PingChild
  <2>1. UNCHANGED <<table_vars, main, checker>>
    BY <1>7 DEF PingChild
  <2>2. OwnTyped' /\ PromoteOK'
    BY <1>1, <1>7 DEF PingChild, OwnTyped, PromoteOK, Promoting, promote_vars, retx_vars
  <2>3. QED
    BY <1>1, <2>1, <2>2, TableRests, SplitSuperpeer
<1>8. CASE AgePromote \/ ExpirePromote
  <2>1. /\ UNCHANGED <<table_vars, main>>
        /\ {checker, checker'} \subseteq {"sleep", "expire", "give_up"}
    BY <1>8 DEF AgePromote, ExpirePromote
  <2>2. OwnTyped' /\ PromoteOK'
    BY <1>1, <1>8
       DEF AgePromote, ExpirePromote, OwnTyped, PromoteOK, Promoting, child_vars,
           promote_vars, retx_vars
  <2>3. QED
    BY <1>1, <2>1, <2>2, TableRests, SplitSuperpeer
<1>9. CASE (CountMain \/ Sweep) /\ UNCHANGED own_vars
  BY <1>9, TableStepKeeps
<1>10. CASE Block
  <2>1. /\ UNCHANGED <<table_vars, checker>> /\ main \in {"recv", "send"}
        /\ main' = "blocked" /\ UNCHANGED own_vars
    BY <1>10 DEF Block
  <2>2. OwnTyped' /\ PromoteOK'
    BY <1>1, <2>1
       DEF OwnTyped, PromoteOK, Promoting, own_vars, child_vars, promote_vars, retx_vars
  <2>3. QED
    BY <1>1, <2>1, <2>2, TableRests, SplitSuperpeer
<1>11. CASE PingNeighboursFails
  <2>1. UNCHANGED <<table_vars, main, checker>>
    BY <1>11 DEF PingNeighboursFails
  <2>2. OwnTyped' /\ PromoteOK'
    BY <1>1, <1>11
       DEF PingNeighboursFails, OwnTyped, PromoteOK, Promoting, child_vars, promote_vars
  <2>3. QED
    BY <1>1, <2>1, <2>2, TableRests, SplitSuperpeer
<1>12. QED
  BY <1>2, <1>3, <1>4, <1>5, <1>6, <1>7, <1>8, <1>9, <1>10, <1>11 DEF Continue, Check

LEMMA SuperpeerStep == SuperpeerInv /\ [SuperpeerNext]_superpeer_vars => SuperpeerInv'
<1> SUFFICES ASSUME SuperpeerInv, [SuperpeerNext]_superpeer_vars PROVE SuperpeerInv'
  OBVIOUS
<1>1. CASE SuperpeerNext
  BY <1>1, HandleKeeps, ContinueKeeps DEF SuperpeerNext
<1>2. CASE UNCHANGED superpeer_vars
  <2>1. UNCHANGED <<table_vars, main, checker, own_vars>>
    BY <1>2 DEF superpeer_vars
  <2>2. IInv'
    BY <2>1, TableRests, SplitSuperpeer
  <2>3. OwnTyped' /\ PromoteOK'
    BY <2>1, SplitSuperpeer
       DEF OwnTyped, PromoteOK, Promoting, own_vars, child_vars, promote_vars, retx_vars
  <2>4. QED
    BY <2>2, <2>3, SplitSuperpeer
<1>3. QED
  BY <1>1, <1>2

THEOREM SuperpeerInvariance == SuperpeerSpec => []SuperpeerInv
BY SuperpeerStart, SuperpeerStep, PTL DEF SuperpeerSpec

\* Every variable of a superpeer keeps its type, also those that two threads
\* write without a lock (promote_ttl and the counters of the child).
THEOREM SuperpeerTyped == SuperpeerSpec => []SuperpeerTypeOK
<1>1. SuperpeerInv => SuperpeerTypeOK
  BY DEF SuperpeerInv
<1>2. QED
  BY <1>1, SuperpeerInvariance, PTL

-----------------------------------------------------------------------------
(* A superpeer implements PeerTable *)

\* What a superpeer does besides its list is nothing, or the end of a step, to the
\* list: main and checker without the places PeerTable does not know.
MainOfTable == IF main \in {"leave", "register"} THEN "leave" ELSE "recv"
CheckerOfTable == IF checker = "give_up" THEN "expire" ELSE checker
Table == INSTANCE PeerTable WITH main <- MainOfTable, checker <- CheckerOfTable

\* Operators that do not look at main or checker.
LEMMA SameTable ==
    /\ Table!Listed = Listed /\ Table!NoRate = NoRate
    /\ \A p : Table!NextOf(p) = NextOf(p)
    /\ \A i, r : Table!IsPlace(i, r) <=> IsPlace(i, r)
    /\ \A s, i, p : Table!InsertAt(s, i, p) = InsertAt(s, i, p)
    /\ \A p : Table!Unlink(p) <=> Unlink(p)
<1>1. Table!Listed = Listed /\ Table!NoRate = NoRate
  BY DEF Table!Listed, Table!ToSet, Listed, ToSet, Table!NoRate, NoRate
<1>2. \A p : Table!IndexOf(p) = IndexOf(p)
  BY DEF Table!IndexOf, IndexOf
<1>3. \A p : Table!NextOf(p) = NextOf(p)
  BY <1>2 DEF Table!NextOf, NextOf
<1>4. \A i, r : Table!IsPlace(i, r) <=> IsPlace(i, r)
  BY DEF Table!IsPlace, IsPlace
<1>5. \A s, i, p : Table!InsertAt(s, i, p) = InsertAt(s, i, p)
  BY DEF Table!InsertAt, InsertAt
<1>6. \A s, i : Table!RemoveAt(s, i) = RemoveAt(s, i)
  BY DEF Table!RemoveAt, RemoveAt
<1>7. \A p : Table!Unlink(p) <=> Unlink(p)
  BY <1>1, <1>2, <1>6 DEF Table!Unlink, Unlink
<1>8. QED
  BY <1>1, <1>3, <1>4, <1>5, <1>7

LEMMA StartOfTable == SuperpeerInit => Table!Init
BY DEF SuperpeerInit, Init, Table!Init, MainOfTable, CheckerOfTable, Table!NoRate, NoRate

\* A step of the list is one of PeerTable.
LEMMA MainOfTableSteps ==
    ASSUME SuperpeerInv, Membership \/ CountMain PROVE Table!Next
<1>1. ASSUME NEW p \in Peer, NEW r \in Rate, Join(p, r) PROVE Table!Join(p, r)
  BY <1>1, SameTable
     DEF Join, Table!Join, Receiving, Table!Receiving, Up, Table!Up, LockFree, Table!LockFree,
         MainOfTable, CheckerOfTable
<1>2. ASSUME NEW p \in Peer, NEW r \in Rate, Ping(p, r) PROVE Table!Ping(p, r)
  BY <1>2, SameTable
     DEF Ping, Table!Ping, Receiving, Table!Receiving, Up, Table!Up, LockFree, Table!LockFree,
         MainOfTable, CheckerOfTable
<1>3. ASSUME NEW p \in Peer, RemovePeer(p, "leave") PROVE Table!RemovePeer(p, "leave")
  BY <1>3, SameTable
     DEF RemovePeer, Table!RemovePeer, Receiving, Table!Receiving, Up, Table!Up,
         MainOfTable, CheckerOfTable
<1>4. CountMain => Table!CountMain
  BY DEF CountMain, Table!CountMain, Counted, Table!Counted, Up, Table!Up, list_vars,
         Table!list_vars, MainOfTable, CheckerOfTable
<1>5. QED
  BY <1>1, <1>2, <1>3, <1>4 DEF Membership, Table!Membership, Table!Receive, Table!Next

LEMMA SweepOfTableSteps == ASSUME SuperpeerInv, Sweep PROVE Table!Sweep
<1>1. StartSweep => Table!StartSweep
  BY SameTable DEF StartSweep, Table!StartSweep, Up, Table!Up, MainOfTable, CheckerOfTable
<1>2. SweepKeep => Table!SweepKeep
  BY SameTable DEF SweepKeep, Table!SweepKeep, Up, Table!Up, MainOfTable, CheckerOfTable
<1>3. SweepRemove => Table!SweepRemove
  BY SameTable DEF SweepRemove, Table!SweepRemove, Up, Table!Up, MainOfTable, CheckerOfTable
<1>4. CountChecker => Table!CountChecker
  BY DEF CountChecker, Table!CountChecker, Up, Table!Up, MainOfTable, CheckerOfTable, list_vars,
         Table!list_vars
<1>5. CountBoth => Table!CountBoth
  BY DEF CountBoth, Table!CountBoth, Counted, Table!Counted, Up, Table!Up, MainOfTable,
         CheckerOfTable, list_vars, Table!list_vars
<1>6. SweepFreed => Table!SweepFreed
  BY SameTable DEF SweepFreed, Table!SweepFreed, Up, Table!Up, MainOfTable, CheckerOfTable,
         list_vars, Table!list_vars
<1>7. EndSweep => Table!EndSweep
  BY DEF EndSweep, Table!EndSweep, Up, Table!Up, MainOfTable, CheckerOfTable, list_vars,
         Table!list_vars
<1>8. QED
  BY <1>1, <1>2, <1>3, <1>4, <1>5, <1>6, <1>7 DEF Sweep, Table!Sweep

\* The other steps of a superpeer.
LEMMA AsideOfTable ==
    ASSUME UNCHANGED table_vars, main' \notin {"leave", "register"},
           main \notin {"leave", "register"}, UNCHANGED checker
    PROVE  UNCHANGED Table!vars
BY DEF table_vars, Table!vars, Table!list_vars, MainOfTable, CheckerOfTable

LEMMA StepOfTable ==
    ASSUME SuperpeerInv, [SuperpeerNext]_superpeer_vars PROVE [Table!Next]_(Table!vars)
<1>1. CASE Membership \/ CountMain \/ Sweep
  BY <1>1, MainOfTableSteps, SweepOfTableSteps DEF Table!Next
<1>2. CASE UNCHANGED <<table_vars, main, checker>>
  BY <1>2 DEF table_vars, Table!vars, Table!list_vars, MainOfTable, CheckerOfTable
<1>3. ASSUME NEW p \in Peer, Register(p) PROVE [Table!Next]_(Table!vars)
  <2>1. CASE RemovePeer(p, "register")
    <3>1. Table!RemovePeer(p, "leave")
      BY <2>1, SameTable
         DEF RemovePeer, Table!RemovePeer, Receiving, Table!Receiving, Up, Table!Up,
             MainOfTable, CheckerOfTable
    <3>2. QED
      BY <3>1 DEF Table!Membership, Table!Receive, Table!Next
  <2>2. CASE main' = "registered" /\ UNCHANGED <<table_vars, checker>>
    BY <1>3, <2>2, AsideOfTable DEF Register, Receiving
  <2>3. QED
    BY <1>3, <2>1, <2>2 DEF Register
<1>4. CASE \E p \in Peer : JoinPromotes(p)
  BY <1>4, AsideOfTable DEF JoinPromotes, Refuse, Receiving
<1>5. CASE \E a \in Peer \cup {Bs} : Acknowledged(a)
  BY <1>5, AsideOfTable DEF Acknowledged, Receiving
<1>6. CASE PromoteError \/ LeaveError
  BY <1>6, AsideOfTable DEF PromoteError, LeaveError, Receiving
<1>7. CASE GetHead \/ SendPromote \/ SendPromoteFails \/ Registered \/ Block
  BY <1>7, AsideOfTable DEF GetHead, SendPromote, SendPromoteFails, Registered, Block
<1>8. CASE AgePromote \/ ExpirePromote
  <2>1. /\ UNCHANGED <<table_vars, main>> /\ Up /\ checker \in {"expire", "give_up"}
        /\ checker' \in {"sleep", "give_up"}
        /\ checker = "give_up" => checker' = "sleep"
    BY <1>8 DEF AgePromote, ExpirePromote
  <2>2. CASE checker' = "give_up"
    BY <2>1, <2>2 DEF table_vars, Table!vars, Table!list_vars, MainOfTable, CheckerOfTable
  <2>3. CASE checker' = "sleep"
    <3>1. Table!Sleep
      BY <2>1, <2>3
         DEF Table!Sleep, Table!Up, Up, table_vars, Table!list_vars, MainOfTable,
             CheckerOfTable
    <3>2. QED
      BY <3>1 DEF Table!Next
  <2>4. QED
    BY <2>1, <2>2, <2>3
<1>9. CASE SuperpeerNext
  <2>1. ASSUME NEW p \in Peer, AckPeer(p) PROVE Acknowledged(p)
    BY <2>1 DEF AckPeer
  <2>2. AckLeave => Acknowledged(Bs)
    BY DEF AckLeave
  <2>3. ASSUME \/ \E p \in Peer : JoinRedirected(p) \/ Abort(p)
               \/ \E p \in Peer, n \in 0..MaxPCount : Pong(p, n)
               \/ KeyboardLeave \/ GiveUp \/ PingChild
               \/ SendFails \/ PingNeighboursFails
        PROVE  UNCHANGED <<table_vars, main, checker>>
    BY <2>3
       DEF JoinRedirected, Refuse, Abort, Pong, KeyboardLeave, GiveUp, PingChild, SendFails,
           PingNeighboursFails
  <2>4. QED
    BY <1>1, <1>2, <1>3, <1>4, <1>5, <1>6, <1>7, <1>8, <1>9, <2>1, <2>2, <2>3
       DEF SuperpeerNext, Handle, Continue, Check
<1>10. QED
  BY <1>2, <1>9 DEF superpeer_vars

\* To its list of peers, a superpeer that promotes, pings its child and leaves is
\* one that does nothing of all this: the list never waits for, and is never
\* changed by, a promotion.
THEOREM SuperpeerImplementsPeerTable == SuperpeerSpec => Table!Spec
BY StartOfTable, StepOfTable, SuperpeerInvariance, PTL DEF SuperpeerSpec, Table!Spec

\* The capacity is kept and the silent are delisted, and they only, by a superpeer
\* that promotes its peers, pings its child and leaves, too.
THEOREM SuperpeerKeepsList ==
    SuperpeerSpec => [](CapacityKept /\ SilentDelisted) /\ DelistedOnlyAfterSilence
<1> DEFINE Justified ==
        \A p \in Listed \ Listed' : checker' = "count" /\ checker = "sweep" => periods[p] >= 2
<1>1. SuperpeerInv => CapacityKept /\ SilentDelisted
  BY CapacityHolds, SilenceHolds DEF SuperpeerInv
<1>2. SuperpeerInv /\ [SuperpeerNext]_superpeer_vars => [Justified]_vars
  <2>1. SUFFICES ASSUME SuperpeerInv, [SuperpeerNext]_superpeer_vars,
                        NEW p \in Listed \ Listed', checker' = "count", checker = "sweep"
                 PROVE  periods[p] >= 2
    OBVIOUS
  <2>2. SuperpeerNext
    BY <2>1 DEF superpeer_vars
  <2>3. Membership \/ CountMain \/ Sweep \/ \E p1 \in Peer : Register(p1)
    BY <2>1, <2>2
       DEF SuperpeerNext, Handle, Continue, Check, JoinRedirected, JoinPromotes, Pong, AckPeer,
           Acknowledged, Abort, AckLeave, PromoteError, KeyboardLeave, LeaveError, GetHead,
           SendPromote, SendPromoteFails, Registered, GiveUp, PingChild, AgePromote,
           ExpirePromote, SendFails, Block, PingNeighboursFails
  <2>4. SweepRemove
    BY <2>1, <2>3
       DEF Membership, Join, Ping, RemovePeer, CountMain, Register, Sweep, StartSweep,
           SweepKeep, CountChecker, CountBoth, SweepFreed, EndSweep
  <2>5. QED
    BY <2>1, <2>4, RemovalJustified DEF SuperpeerInv
<1>3. QED
  BY <1>1, <1>2, SuperpeerInvariance, PTL DEF SuperpeerSpec, DelistedOnlyAfterSilence
=============================================================================
