--------------------------- MODULE BootstrapProofs ---------------------------
(***************************************************************************)
(* The list of superpeers of the bootstrap server stays consistent, and a  *)
(* superpeer is delisted after one silent period and never before, for     *)
(* every set of addresses and every length of LIST.                        *)
(***************************************************************************)
EXTENDS Bootstrap, ListLemmas

\* What flag says of the sweeps since the superpeer of a node was last heard
\* of.  During a sweep the nodes before the cursor have been visited (and kept,
\* their flag cleared) and the others still have the flag of before it.
SilenceAt(i) ==
    LET a == sp_list[i] IN
    /\ lock # "checker" => periods[a] = 1 - flag[a]
    /\ lock = "checker" /\ i < pos => flag[a] = 0 /\ periods[a] = 1
    /\ lock = "checker" /\ i >= pos => periods[a] = 2 - flag[a]

Silence == \A i \in DOMAIN sp_list : SilenceAt(i)

\* The main thread is in a critical section of several steps, or died in one.
LockHeld == lock = "main" <=> main \in {"pick", "crashed"}

\* The inductive invariant.  Silence is what SilentDelisted lacks: that no
\* flag is stale, neither between sweeps nor in the middle of one.
IInv == TypeOK /\ LockHeld /\ ListConsistent /\ Silence

-----------------------------------------------------------------------------
(* The operators on the list *)

\* IndexOf finds the node of a listed address.
LEMMA IndexOfListed ==
    ASSUME NEW a \in Listed
    PROVE  IndexOf(a) \in DOMAIN sp_list /\ sp_list[IndexOf(a)] = a
BY DEF IndexOf, Listed, ToSet

\* In a list without duplicates no other node has the address of node i.
LEMMA NotListedAfterRemoval ==
    ASSUME sp_list \in Seq(Addr), NoDuplicates, NEW i \in DOMAIN sp_list,
           NEW j \in DOMAIN RemoveAt(sp_list, i)
    PROVE  /\ RemoveAt(sp_list, i)[j] # sp_list[i]
           /\ RemoveAt(sp_list, i)[j] =
                 sp_list[IF j < i THEN j ELSE j + 1]
           /\ (IF j < i THEN j ELSE j + 1) \in DOMAIN sp_list
<1>0. sp_list \in Seq(Addr) /\ i \in 1..Len(sp_list)
  OBVIOUS
<1>1. /\ RemoveAt(sp_list, i) \in Seq(Addr)
      /\ Len(RemoveAt(sp_list, i)) = Len(sp_list) - 1
      /\ \A k \in 1..(Len(sp_list) - 1) :
            RemoveAt(sp_list, i)[k] = IF k < i THEN sp_list[k] ELSE sp_list[k + 1]
  BY ONLY <1>0, RemoveAtProperties
<1>2. j \in 1..(Len(sp_list) - 1)
  BY <1>1
<1>3. QED
  BY <1>1, <1>2 DEF NoDuplicates

\* insert_sp of a new address keeps the other nodes, one place further on.
LEMMA InsertedAtHead ==
    ASSUME sp_list \in Seq(Addr), NEW a \in Addr
    PROVE  /\ <<a>> \o sp_list \in Seq(Addr)
           /\ Len(<<a>> \o sp_list) = Len(sp_list) + 1
           /\ (<<a>> \o sp_list)[1] = a
           /\ \A k \in 2..(Len(sp_list) + 1) :
                 /\ (<<a>> \o sp_list)[k] = sp_list[k - 1]
                 /\ k - 1 \in 1..Len(sp_list)
<1>1. <<a>> \in Seq(Addr) /\ Len(<<a>>) = 1 /\ <<a>>[1] = a
  OBVIOUS
<1>2. QED
  BY <1>1, ConcatProperties

-----------------------------------------------------------------------------
(* What insert_sp and remove_sp preserve, whoever calls them *)

ListTyped ==
    /\ sp_list \in Seq(Addr)
    /\ flag \in [Addr -> 0..1]
    /\ free_spots \in [Addr -> 0..1]
    /\ it_addr \in Addr \cup {Nil}
    /\ sp_count \in Nat
    /\ periods \in [Addr -> Nat]
    /\ pos \in Nat \ {0}

\* insert_sp, which only the main thread calls, outside a sweep.
LEMMA InsertPreserves ==
    ASSUME ListTyped, ListConsistent, Silence, NEW a \in Addr, NEW s \in 0..1,
           lock # "checker", lock' # "checker", UNCHANGED pos, InsertSp(a, s)
    PROVE  ListTyped' /\ ListConsistent' /\ Silence'
<1>1. CASE a \in Listed
  <2>1. /\ UNCHANGED <<sp_list, free_spots, it_addr, sp_count>>
        /\ flag' = [flag EXCEPT ![a] = 1]
        /\ periods' = [periods EXCEPT ![a] = 0]
    BY <1>1 DEF InsertSp
  <2>2. ListTyped'
    BY <2>1 DEF ListTyped
  <2>3. ListConsistent'
    BY <2>1 DEF ListConsistent, NoDuplicates, CountIsLength, IteratorListed, Listed
  <2>4. Silence'
    BY <2>1 DEF ListTyped, Silence, SilenceAt
  <2>5. QED
    BY <2>2, <2>3, <2>4
<1>2. CASE a \notin Listed
  <2>1. /\ sp_list' = <<a>> \o sp_list
        /\ free_spots' = [free_spots EXCEPT ![a] = s]
        /\ it_addr' = IF it_addr = Nil THEN a ELSE it_addr
        /\ sp_count' = (IF sp_list = <<>> THEN 0 ELSE sp_count) + 1
        /\ flag' = [flag EXCEPT ![a] = 1]
        /\ periods' = [periods EXCEPT ![a] = 0]
    BY <1>2 DEF InsertSp
  <2>2. /\ sp_list' \in Seq(Addr)
        /\ Len(sp_list') = Len(sp_list) + 1
        /\ sp_list'[1] = a
        /\ \A k \in 2..(Len(sp_list) + 1) :
              sp_list'[k] = sp_list[k - 1] /\ k - 1 \in 1..Len(sp_list)
    BY <2>1, InsertedAtHead DEF ListTyped
  <2>3. ListTyped'
    BY <2>1, <2>2 DEF ListTyped
  <2>4. \A k \in DOMAIN sp_list : sp_list[k] # a
    BY <1>2 DEF Listed, ToSet
  <2>a. /\ Len(sp_list) \in Nat
        /\ DOMAIN sp_list = 1..Len(sp_list)
        /\ DOMAIN sp_list' = 1..(Len(sp_list) + 1)
    BY <2>2 DEF ListTyped
  <2>b. \A k \in DOMAIN sp_list' : k = 1 \/ k \in 2..(Len(sp_list) + 1)
    BY <2>a
  <2>5. NoDuplicates'
    <3>1. SUFFICES ASSUME NEW j \in DOMAIN sp_list', NEW k \in DOMAIN sp_list',
                          sp_list'[j] = sp_list'[k]
                   PROVE  j = k
      BY DEF NoDuplicates
    <3>2. CASE j = 1 \/ k = 1
      BY <2>2, <2>4, <2>a, <2>b, <3>1, <3>2
    <3>3. CASE j # 1 /\ k # 1
      <4>1. sp_list[j - 1] = sp_list[k - 1] /\ {j - 1, k - 1} \subseteq DOMAIN sp_list
        BY <2>2, <2>a, <2>b, <3>1, <3>3
      <4>2. j - 1 = k - 1
        BY <4>1 DEF ListConsistent, NoDuplicates
      <4>3. QED
        BY <4>2, <2>a
    <3>4. QED
      BY <3>2, <3>3
  <2>6. CountIsLength'
    BY <2>1, <2>2, <2>a DEF ListConsistent, CountIsLength, ListTyped
  <2>7. \A k \in DOMAIN sp_list : k + 1 \in DOMAIN sp_list' /\ sp_list'[k + 1] = sp_list[k]
    <3>1. SUFFICES ASSUME NEW k \in DOMAIN sp_list
                   PROVE  k + 1 \in DOMAIN sp_list' /\ sp_list'[k + 1] = sp_list[k]
      OBVIOUS
    <3>2. k + 1 \in 2..(Len(sp_list) + 1) /\ (k + 1) - 1 = k
      BY <2>a
    <3>3. QED
      BY <2>2, <2>a, <3>2
  <2>8. IteratorListed'
    <3>1. sp_list' # <<>> /\ 1 \in DOMAIN sp_list'
      BY <2>2, <2>a
    <3>2. CASE it_addr = Nil
      BY <2>1, <2>2, <3>1, <3>2 DEF IteratorListed, Listed, ToSet
    <3>3. CASE it_addr # Nil
      <4>1. it_addr \in Listed
        BY <3>3 DEF ListConsistent, IteratorListed
      <4>2. PICK k \in DOMAIN sp_list : sp_list[k] = it_addr
        BY <4>1 DEF Listed, ToSet
      <4>3. QED
        BY <2>1, <2>7, <3>1, <3>3, <4>2 DEF IteratorListed, Listed, ToSet
    <3>4. QED
      BY <3>2, <3>3
  <2>9. Silence'
    BY <2>1, <2>2, <2>4 DEF Silence, SilenceAt, ListTyped
  <2>10. QED
    BY <2>3, <2>5, <2>6, <2>8, <2>9 DEF ListConsistent
<1>3. QED
  BY <1>1, <1>2

\* remove_sp: of any node outside a sweep, of the node at the cursor in one.
LEMMA RemovePreserves ==
    ASSUME BootstrapAssumption, ListTyped, ListConsistent, Silence,
           NEW i \in DOMAIN sp_list,
           lock = "checker" => i = pos, UNCHANGED <<lock, pos>>, RemoveSp(i)
    PROVE  ListTyped' /\ ListConsistent' /\ Silence'
<1> DEFINE a == sp_list[i]
           old(k) == IF k < i THEN k ELSE k + 1
<1>1. a \in Addr /\ i \in 1..Len(sp_list) /\ Len(sp_list) \in Nat
  BY DEF ListTyped
<1>2. /\ sp_list' = RemoveAt(sp_list, i)
      /\ it_addr' = IF it_addr = a THEN AfterRemoval(i) ELSE it_addr
      /\ sp_count' = sp_count - 1
      /\ flag' = [flag EXCEPT ![a] = 0]
      /\ free_spots' = [free_spots EXCEPT ![a] = 0]
      /\ periods' = [periods EXCEPT ![a] = 0]
  BY DEF RemoveSp
<1>3. /\ sp_list' \in Seq(Addr)
      /\ Len(sp_list') = Len(sp_list) - 1
      /\ \A k \in DOMAIN sp_list' :
            sp_list'[k] = sp_list[old(k)] /\ old(k) \in DOMAIN sp_list /\ old(k) # i
  <2>1. /\ sp_list' \in Seq(Addr)
        /\ Len(sp_list') = Len(sp_list) - 1
        /\ \A k \in 1..(Len(sp_list) - 1) :
              sp_list'[k] = IF k < i THEN sp_list[k] ELSE sp_list[k + 1]
    <3>1. sp_list \in Seq(Addr) /\ i \in 1..Len(sp_list)
      BY <1>1 DEF ListTyped
    <3>2. QED
      BY ONLY <1>2, <3>1, RemoveAtProperties
  <2>2. DOMAIN sp_list' = 1..(Len(sp_list) - 1) /\ DOMAIN sp_list = 1..Len(sp_list)
    BY <1>1, <2>1 DEF ListTyped
  <2>3. QED
    BY <1>1, <2>1, <2>2
<1>4. \A k \in DOMAIN sp_list' : sp_list'[k] # a
  BY <1>3 DEF ListConsistent, NoDuplicates
<1>5. \A k \in DOMAIN sp_list : k # i =>
         \E j \in DOMAIN sp_list' : sp_list'[j] = sp_list[k]
  <2>1. SUFFICES ASSUME NEW k \in DOMAIN sp_list, k # i
                 PROVE  \E j \in DOMAIN sp_list' : sp_list'[j] = sp_list[k]
    OBVIOUS
  <2> DEFINE j == IF k < i THEN k ELSE k - 1
  <2>2. j \in 1..(Len(sp_list) - 1) /\ old(j) = k
    BY <1>1, <2>1 DEF ListTyped
  <2>3. QED
    BY <1>1, <1>3, <2>2
<1>6. AfterRemoval(i) \in Addr \cup {Nil}
  BY <1>1 DEF AfterRemoval, ListTyped
<1>7. ListTyped'
  BY <1>1, <1>2, <1>3, <1>6 DEF ListTyped, ListConsistent, CountIsLength
<1>8. NoDuplicates'
  BY <1>1, <1>3 DEF ListConsistent, NoDuplicates
<1>9. CountIsLength'
  BY <1>2, <1>3 DEF ListConsistent, CountIsLength
<1>10. IteratorListed'
  <2>1. sp_list # <<>> /\ it_addr \in Listed
    BY <1>1 DEF ListConsistent, IteratorListed
  <2>2. CASE Len(sp_list) = 1
    <3>1. i = 1 /\ sp_list' = <<>> /\ it_addr = a
      BY <1>1, <1>3, <2>1, <2>2 DEF Listed, ToSet, ListTyped
    <3>2. QED
      BY <3>1, <1>2, <2>2 DEF AfterRemoval, IteratorListed
  <2>3. CASE Len(sp_list) > 1 /\ it_addr # a
    <3>1. PICK k \in DOMAIN sp_list : sp_list[k] = it_addr
      BY <2>1 DEF Listed, ToSet
    <3>2. PICK j \in DOMAIN sp_list' : sp_list'[j] = it_addr
      BY <1>5, <2>3, <3>1
    <3>3. QED
      BY <1>2, <1>3, <2>3, <3>2 DEF IteratorListed, Listed, ToSet
  <2>4. CASE Len(sp_list) > 1 /\ it_addr = a
    <3>1. PICK k \in DOMAIN sp_list : k # i /\ sp_list[k] = AfterRemoval(i)
      <4>1. CASE i < Len(sp_list)
        <5>1. i + 1 \in DOMAIN sp_list /\ AfterRemoval(i) = sp_list[i + 1]
          BY <1>1, <4>1 DEF AfterRemoval, ListTyped
        <5>2. QED
          BY <1>1, <5>1
      <4>2. CASE i = Len(sp_list)
        <5>1. i - 1 \in DOMAIN sp_list /\ AfterRemoval(i) = sp_list[i - 1]
          BY <1>1, <2>4, <4>2 DEF AfterRemoval, ListTyped
        <5>2. QED
          BY <1>1, <5>1
      <4>3. QED
        BY <1>1, <4>1, <4>2
    <3>2. PICK j \in DOMAIN sp_list' : sp_list'[j] = AfterRemoval(i)
      BY <1>5, <3>1
    <3>3. QED
      BY <1>2, <1>3, <2>4, <3>2 DEF IteratorListed, Listed, ToSet
  <2>5. Len(sp_list) = 1 \/ Len(sp_list) > 1
    BY <1>1
  <2>6. QED
    BY <2>2, <2>3, <2>4, <2>5
<1>11. Silence'
  <2>1. SUFFICES ASSUME NEW k \in DOMAIN sp_list' PROVE SilenceAt(k)'
    BY DEF Silence
  <2>2. /\ sp_list'[k] = sp_list[old(k)] /\ old(k) \in DOMAIN sp_list
        /\ sp_list'[k] # a /\ sp_list'[k] \in Addr
    BY <1>3, <1>4 DEF ListTyped
  <2>3. flag'[sp_list'[k]] = flag[sp_list[old(k)]]
        /\ periods'[sp_list'[k]] = periods[sp_list[old(k)]]
    BY <1>2, <2>2 DEF ListTyped
  <2>4. SilenceAt(old(k))
    BY <2>2 DEF Silence
  <2>5. lock = "checker" => (k < pos <=> old(k) < pos)
    BY <1>1, <1>3, <2>2 DEF ListTyped
  <2>6. k \in Nat /\ old(k) \in Nat /\ pos \in Nat
    <3>1. sp_list \in Seq(Addr) /\ sp_list' \in Seq(Addr) /\ pos \in Nat
      BY <1>1, <1>3 DEF ListTyped
    <3>2. QED
      BY ONLY <2>1, <2>2, <3>1
  <2>7. QED
    BY <2>3, <2>4, <2>5, <2>6 DEF SilenceAt
<1>12. QED
  BY <1>7, <1>8, <1>9, <1>10, <1>11 DEF ListConsistent

-----------------------------------------------------------------------------
(* Every step preserves the inductive invariant *)

\* The conjuncts of IInv regrouped for InsertPreserves and RemovePreserves.
LEMMA IInvListPart == IInv => ListTyped /\ ListConsistent /\ Silence
BY DEF IInv, TypeOK, ListTyped

\* The addresses a LIST is filled with are listed ones.
LEMMA AddrsFromIteratorType ==
    ASSUME IInv, it_addr # Nil, NEW n \in Nat
    PROVE  /\ AddrsFromIterator(n) \in Seq(Addr \cup {Junk})
           /\ NextOf(it_addr) \in Listed
           /\ NextOf(it_addr) \in Addr
<1>1. sp_list \in Seq(Addr) /\ it_addr \in Listed /\ sp_list # <<>>
  BY DEF IInv, TypeOK, ListConsistent, IteratorListed
<1>2. IndexOf(it_addr) \in 1..Len(sp_list)
  BY <1>1, IndexOfListed
<1>3. Len(sp_list) \in Nat \ {0}
  BY <1>1
<1>4. ASSUME NEW k \in 1..n
      PROVE  sp_list[1 + ((IndexOf(it_addr) + k - 2) % Len(sp_list))] \in Addr
  <2> DEFINE m == IndexOf(it_addr) + k - 2
  <2>1. m \in Int
    BY <1>2
  <2>2. m % Len(sp_list) \in 0..(Len(sp_list) - 1)
    <3> HIDE DEF m
    <3>1. QED
      BY <1>3, <2>1
  <2>3. QED
    BY <1>1, <1>3, <2>2
<1>5. AddrsFromIterator(n) \in Seq(Addr \cup {Junk})
  <2>1. AddrsFromIterator(n) \in [1..n -> Addr \cup {Junk}]
    BY <1>4 DEF AddrsFromIterator
  <2>2. QED
    BY <2>1
<1>6. NextOf(it_addr) \in Listed /\ NextOf(it_addr) \in Addr
  <2>1. \A k \in 1..Len(sp_list) : sp_list[k] \in Listed /\ sp_list[k] \in Addr
    BY <1>1 DEF Listed, ToSet
  <2>2. QED
    BY <1>2, <1>3, <2>1 DEF NextOf
<1>7. QED
  BY <1>5, <1>6

LEMMA InitIInv == BootstrapAssumption /\ Init => IInv
BY DEF BootstrapAssumption, Init, IInv, TypeOK, LockHeld, ListConsistent, NoDuplicates,
       CountIsLength, IteratorListed, Silence, SilenceAt

\* The steps of the main thread that serve a datagram.
LEMMA ReceivePreserves == IInv /\ Receive => IInv'
<1> SUFFICES ASSUME IInv, Receive PROVE IInv'
  OBVIOUS
<1> USE BootstrapAssumption
<1>0. TypeOK /\ LockHeld /\ ListTyped /\ ListConsistent /\ Silence
  BY IInvListPart DEF IInv
<1>1. ASSUME NEW a \in Addr, NEW s \in 0..1, Ping(a, s) PROVE IInv'
  <2>1. TypeOK' /\ LockHeld'
    BY <1>0, <1>1 DEF Ping, Receiving, LockHeld, TypeOK, main_vars
  <2>2. ListConsistent'
    BY <1>0, <1>1 DEF Ping, ListConsistent, NoDuplicates, CountIsLength,
                      IteratorListed, Listed
  <2>3. Silence'
    BY <1>0, <1>1 DEF Ping, Receiving, TypeOK, Silence, SilenceAt
  <2>4. QED
    BY <2>1, <2>2, <2>3 DEF IInv
<1>2. ASSUME NEW a \in Addr, NEW s \in 0..1, Register(a, s) PROVE IInv'
  <2>1. ListTyped' /\ ListConsistent' /\ Silence'
    BY <1>0, <1>2, InsertPreserves DEF Register, Receiving
  <2>2. TypeOK' /\ LockHeld'
    BY <1>0, <1>2, <2>1 DEF Register, Receiving, LockHeld, TypeOK, ListTyped, main_vars
  <2>3. QED
    BY <2>1, <2>2 DEF IInv
<1>3. ASSUME NEW a \in Addr, Leave(a) PROVE IInv'
  <2>1. IndexOf(a) \in DOMAIN sp_list
    BY <1>3, IndexOfListed DEF Leave
  <2>2. ListTyped' /\ ListConsistent' /\ Silence'
    BY <1>0, <1>3, <2>1, RemovePreserves DEF Leave, Receiving
  <2>3. TypeOK' /\ LockHeld'
    BY <1>0, <1>3, <2>2 DEF Leave, Receiving, LockHeld, TypeOK, ListTyped, main_vars
  <2>4. QED
    BY <2>2, <2>3 DEF IInv
<1>4. ASSUME NEW a \in Addr, JoinPromoted(a) PROVE IInv'
  <2>1. ListTyped' /\ ListConsistent' /\ Silence'
    BY <1>0, <1>4, InsertPreserves DEF JoinPromoted, Receiving
  <2>2. reply' \in [cmd : {"none", "PROMOTE", "LIST"}, addrs : Seq(Addr \cup {Junk})]
    BY <1>4 DEF JoinPromoted
  <2>3. TypeOK' /\ LockHeld'
    BY <1>0, <1>4, <2>1, <2>2 DEF JoinPromoted, Receiving, LockHeld, TypeOK, ListTyped
  <2>4. QED
    BY <2>1, <2>3 DEF IInv
<1>5. ASSUME NEW a \in Addr, JoinPromotedAgain(a) PROVE IInv'
  <2>1. reply' \in [cmd : {"none", "PROMOTE", "LIST"}, addrs : Seq(Addr \cup {Junk})]
    BY <1>5 DEF JoinPromotedAgain
  <2>2. TypeOK' /\ LockHeld'
    BY <1>0, <1>5, <2>1 DEF JoinPromotedAgain, Receiving, LockHeld, TypeOK, list_vars
  <2>3. ListConsistent' /\ Silence'
    BY <1>0, <1>5 DEF JoinPromotedAgain, list_vars, ListConsistent, NoDuplicates,
                      CountIsLength, IteratorListed, Listed, Silence, SilenceAt
  <2>4. QED
    BY <2>2, <2>3 DEF IInv
<1>6. ASSUME NEW a \in Addr, NEW sp \in BOOLEAN, JoinListed(a, sp) PROVE IInv'
  <2>1. TypeOK' /\ LockHeld'
    BY <1>0, <1>6 DEF JoinListed, Receiving, LockHeld, TypeOK, list_vars
  <2>2. ListConsistent' /\ Silence'
    BY <1>0, <1>6 DEF JoinListed, list_vars, ListConsistent, NoDuplicates,
                      CountIsLength, IteratorListed, Listed, Silence, SilenceAt
  <2>3. QED
    BY <2>1, <2>2 DEF IInv
<1>7. QED
  BY <1>1, <1>2, <1>3, <1>4, <1>5, <1>6 DEF Receive

\* The steps of the main thread that answer a JOIN leave the list alone, but
\* for the iterator.
LEMMA AnswerPreserves == IInv /\ Answer => IInv'
<1> SUFFICES ASSUME IInv, Answer PROVE IInv'
  OBVIOUS
<1> USE BootstrapAssumption
<1>0. TypeOK /\ LockHeld /\ ListConsistent /\ Silence
  BY DEF IInv
<1>a. ASSUME UNCHANGED <<sp_list, it_addr, sp_count>> PROVE ListConsistent'
  BY <1>0, <1>a DEF ListConsistent, NoDuplicates, CountIsLength, IteratorListed, Listed
<1>b. ASSUME UNCHANGED <<sp_list, flag, periods>>, lock # "checker", lock' # "checker"
      PROVE  Silence'
  BY <1>0, <1>b DEF Silence, SilenceAt
<1>1. CASE ReadCount
  <2>1. ret' \in 0..AddrToSend
    BY <1>0, <1>1 DEF ReadCount, LesserOf, TypeOK, BootstrapAssumption
  <2>2. TypeOK' /\ LockHeld'
    BY <1>0, <1>1, <2>1 DEF ReadCount, LockHeld, TypeOK, list_vars
  <2>3. ListConsistent'
    BY <1>a, <1>1 DEF ReadCount, list_vars
  <2>4. Silence'
    BY <1>0, <1>1 DEF ReadCount, list_vars, Silence, SilenceAt
  <2>5. QED
    BY <2>2, <2>3, <2>4 DEF IInv
<1>2. CASE FillList
  <2>1. ret \in Nat
    BY <1>0 DEF TypeOK, BootstrapAssumption
  <2>2. /\ AddrsFromIterator(ret) \in Seq(Addr \cup {Junk})
        /\ NextOf(it_addr) \in Listed /\ NextOf(it_addr) \in Addr
    BY <1>2, <2>1, AddrsFromIteratorType DEF FillList
  <2>3. reply' \in [cmd : {"none", "PROMOTE", "LIST"}, addrs : Seq(Addr \cup {Junk})]
    BY <1>2, <2>2 DEF FillList
  <2>4. TypeOK' /\ LockHeld'
    BY <1>0, <1>2, <2>2, <2>3 DEF FillList, LockHeld, TypeOK, BootstrapAssumption
  <2>5. ListConsistent'
    <3>1. sp_list # <<>>
      BY <1>0, <1>2 DEF FillList, ListConsistent, IteratorListed
    <3>2. QED
      BY <1>0, <1>2, <2>2, <3>1 DEF FillList, ListConsistent, NoDuplicates,
                                    CountIsLength, IteratorListed, Listed
  <2>6. Silence'
    BY <1>b, <1>2 DEF FillList
  <2>7. QED
    BY <2>4, <2>5, <2>6 DEF IInv
<1>3. CASE FillCrash
  <2>1. TypeOK' /\ LockHeld'
    BY <1>0, <1>3 DEF FillCrash, LockHeld, TypeOK, list_vars
  <2>2. ListConsistent' /\ Silence'
    BY <1>a, <1>b, <1>3 DEF FillCrash, list_vars
  <2>3. QED
    BY <2>1, <2>2 DEF IInv
<1>4. CASE StartPick
  <2>1. TypeOK' /\ LockHeld'
    BY <1>0, <1>4 DEF StartPick, LockHeld, TypeOK, list_vars
  <2>2. ListConsistent' /\ Silence'
    BY <1>a, <1>b, <1>4 DEF StartPick, list_vars
  <2>3. QED
    BY <2>1, <2>2 DEF IInv
<1>5. CASE PickNode
  <2>1. sp_list[pos] \in Addr /\ pos + 1 \in Nat \ {0}
    BY <1>0, <1>5 DEF PickNode, Picking, TypeOK
  <2>2. picked' \in Seq(Addr)
    BY <1>0, <1>5, <2>1 DEF PickNode, TypeOK
  <2>3. TypeOK' /\ LockHeld'
    BY <1>0, <1>5, <2>1, <2>2 DEF PickNode, LockHeld, TypeOK, list_vars
  <2>4. ListConsistent' /\ Silence'
    BY <1>0, <1>a, <1>b, <1>5 DEF PickNode, LockHeld, list_vars
  <2>5. QED
    BY <2>3, <2>4 DEF IInv
<1>6. CASE EndPick
  <2>1. reply' \in [cmd : {"none", "PROMOTE", "LIST"}, addrs : Seq(Addr \cup {Junk})]
    <3>1. CASE picked = <<>>
      BY <1>0, <1>6, <3>1 DEF EndPick, TypeOK
    <3>2. CASE picked # <<>>
      <4>1. reply' = [cmd |-> "LIST", addrs |-> <<>>]
        BY <1>6, <3>2 DEF EndPick
      <4>2. QED
        BY <4>1
    <3>3. QED
      BY <3>1, <3>2
  <2>2. TypeOK' /\ LockHeld'
    BY <1>0, <1>6, <2>1 DEF EndPick, LockHeld, TypeOK, list_vars
  <2>3. ListConsistent' /\ Silence'
    BY <1>0, <1>a, <1>b, <1>6 DEF EndPick, LockHeld, list_vars
  <2>4. QED
    BY <2>2, <2>3 DEF IInv
<1>7. CASE WalkNode
  <2>1. /\ picked' \in Seq(Addr)
        /\ Head(picked) \in Addr
    BY <1>0, <1>7 DEF WalkNode, TypeOK
  <2>2. PICK a \in Addr \cup {Junk} : reply' = [reply EXCEPT !.addrs = Append(@, a)]
    BY <1>7, <2>1 DEF WalkNode
  <2>3. reply' \in [cmd : {"none", "PROMOTE", "LIST"}, addrs : Seq(Addr \cup {Junk})]
    <3>1. reply.addrs \in Seq(Addr \cup {Junk})
      BY <1>0 DEF TypeOK
    <3>2. Append(reply.addrs, a) \in Seq(Addr \cup {Junk})
      BY <3>1, AppendProperties
    <3>3. QED
      BY <1>0, <2>2, <3>2 DEF TypeOK
  <2>4. TypeOK' /\ LockHeld'
    BY <1>0, <1>7, <2>1, <2>3 DEF WalkNode, LockHeld, TypeOK, list_vars
  <2>5. ListConsistent'
    BY <1>a, <1>7 DEF WalkNode, list_vars
  <2>6. Silence'
    BY <1>0, <1>7 DEF WalkNode, list_vars, Silence, SilenceAt
  <2>7. QED
    BY <2>4, <2>5, <2>6 DEF IInv
<1>8. QED
  BY <1>1, <1>2, <1>3, <1>4, <1>5, <1>6, <1>7 DEF Answer

\* The steps of the checker.
LEMMA SweepPreserves == IInv /\ Sweep => IInv'
<1> SUFFICES ASSUME IInv, Sweep PROVE IInv'
  OBVIOUS
<1> USE BootstrapAssumption
<1>0. TypeOK /\ LockHeld /\ ListTyped /\ ListConsistent /\ Silence
  BY IInvListPart DEF IInv
<1>a. DOMAIN sp_list = 1..Len(sp_list) /\ Len(sp_list) \in Nat /\ pos \in Nat \ {0}
  BY <1>0 DEF TypeOK
<1>b. \A i \in DOMAIN sp_list : sp_list[i] \in Addr /\ sp_list[i] \in Listed
  BY <1>0 DEF TypeOK, Listed, ToSet
<1>1. CASE StartSweep
  <2>1. TypeOK' /\ LockHeld'
    BY <1>0, <1>1 DEF StartSweep, LockHeld, TypeOK, main_vars
  <2>2. ListConsistent'
    BY <1>0, <1>1 DEF StartSweep, ListConsistent, NoDuplicates, CountIsLength,
                      IteratorListed, Listed
  <2>3. Silence'
    <3>1. SUFFICES ASSUME NEW i \in DOMAIN sp_list PROVE SilenceAt(i)'
      BY <1>1 DEF StartSweep, Silence
    <3>2. periods[sp_list[i]] = 1 - flag[sp_list[i]]
      BY <1>0, <1>1 DEF StartSweep, Silence, SilenceAt
    <3>3. /\ periods'[sp_list[i]] = periods[sp_list[i]] + 1
          /\ flag[sp_list[i]] \in 0..1
      BY <1>0, <1>1, <1>b DEF StartSweep, TypeOK
    <3>4. QED
      BY <1>1, <1>a, <3>2, <3>3 DEF StartSweep, SilenceAt
  <2>4. QED
    BY <2>1, <2>2, <2>3 DEF IInv
<1>2. CASE SweepKeep
  <2>1. pos \in DOMAIN sp_list /\ sp_list[pos] \in Addr
    BY <1>2, <1>a, <1>b DEF SweepKeep
  <2>2. TypeOK' /\ LockHeld'
    BY <1>0, <1>2, <2>1 DEF SweepKeep, LockHeld, TypeOK, main_vars
  <2>3. ListConsistent'
    BY <1>0, <1>2 DEF SweepKeep, ListConsistent, NoDuplicates, CountIsLength,
                      IteratorListed, Listed
  <2>4. Silence'
    <3>1. SUFFICES ASSUME NEW i \in DOMAIN sp_list PROVE SilenceAt(i)'
      BY <1>2 DEF SweepKeep, Silence
    <3>2. SilenceAt(i) /\ SilenceAt(pos)
      BY <1>0, <2>1 DEF Silence
    <3>3. CASE i = pos
      BY <1>0, <1>2, <1>a, <2>1, <3>2, <3>3 DEF SweepKeep, SilenceAt, TypeOK
    <3>4. CASE i # pos
      <4>1. sp_list[i] # sp_list[pos] /\ (i < pos + 1 <=> i < pos)
        BY <1>0, <1>a, <2>1, <3>4 DEF ListConsistent, NoDuplicates
      <4>2. flag'[sp_list[i]] = flag[sp_list[i]]
        BY <1>0, <1>2, <1>b, <4>1 DEF SweepKeep, TypeOK
      <4>3. QED
        BY <1>2, <1>a, <3>2, <4>1, <4>2 DEF SweepKeep, SilenceAt
    <3>5. QED
      BY <3>3, <3>4
  <2>5. QED
    BY <2>2, <2>3, <2>4 DEF IInv
<1>3. CASE SweepRemove
  <2>1. pos \in DOMAIN sp_list
    BY <1>3, <1>a DEF SweepRemove
  <2>2. ListTyped' /\ ListConsistent' /\ Silence'
    BY <1>0, <1>3, <2>1, RemovePreserves DEF SweepRemove
  <2>3. TypeOK' /\ LockHeld'
    BY <1>0, <1>3, <2>2 DEF SweepRemove, LockHeld, TypeOK, ListTyped, main_vars
  <2>4. QED
    BY <2>2, <2>3 DEF IInv
<1>4. CASE EndSweep
  <2>1. TypeOK' /\ LockHeld'
    BY <1>0, <1>4 DEF EndSweep, LockHeld, TypeOK, list_vars, main_vars
  <2>2. ListConsistent'
    BY <1>0, <1>4 DEF EndSweep, list_vars, ListConsistent, NoDuplicates,
                      CountIsLength, IteratorListed, Listed
  <2>3. Silence'
    <3>1. SUFFICES ASSUME NEW i \in DOMAIN sp_list PROVE SilenceAt(i)'
      BY <1>4 DEF EndSweep, list_vars, Silence
    <3>2. flag[sp_list[i]] = 0 /\ periods[sp_list[i]] = 1
      BY <1>0, <1>4, <1>a DEF EndSweep, Silence, SilenceAt
    <3>3. QED
      BY <1>4, <3>2 DEF EndSweep, list_vars, SilenceAt
  <2>4. QED
    BY <2>1, <2>2, <2>3 DEF IInv
<1>5. QED
  BY <1>1, <1>2, <1>3, <1>4 DEF Sweep

LEMMA NextPreserves == IInv /\ [Next]_vars => IInv'
<1> SUFFICES ASSUME IInv, [Next]_vars PROVE IInv'
  OBVIOUS
<1>1. CASE Next
  BY <1>1, ReceivePreserves, AnswerPreserves, SweepPreserves DEF Next
<1>2. CASE UNCHANGED vars
  BY <1>2 DEF vars, list_vars, main_vars, IInv, TypeOK, LockHeld, ListConsistent,
              NoDuplicates, CountIsLength, IteratorListed, Listed, Silence, SilenceAt
<1>3. QED
  BY <1>1, <1>2

-----------------------------------------------------------------------------
(* The theorems *)

\* The inductive invariant holds in every reachable state.
THEOREM Invariance == Spec => []IInv
<1>1. Init => IInv
  BY InitIInv, BootstrapAssumption
<1>2. QED
  BY <1>1, NextPreserves, PTL DEF Spec

\* Every variable keeps its type; in particular a LIST never holds more than
\* AddrToSend addresses, the size of send_addr_list's buffer.
THEOREM TypeCorrect == Spec => []TypeOK
<1>1. IInv => TypeOK
  BY DEF IInv
<1>2. QED
  BY <1>1, Invariance, PTL

\* Main loop and checker keep the list consistent: one node an address, the
\* count right, the iterator on a node of the list.
THEOREM Consistency == Spec => []ListConsistent
<1>1. IInv => ListConsistent
  BY DEF IInv
<1>2. QED
  BY <1>1, Invariance, PTL

\* No superpeer stays listed through two sweeps without a word of it.
THEOREM SilentAreDelisted == Spec => []SilentDelisted
<1>1. IInv => SilentDelisted
  <2>1. SUFFICES ASSUME IInv, lock # "checker", NEW a \in Listed
                 PROVE  periods[a] <= 1
    BY DEF SilentDelisted
  <2>2. PICK i \in DOMAIN sp_list : sp_list[i] = a
    BY DEF Listed, ToSet
  <2>3. periods[a] = 1 - flag[a] /\ flag[a] \in 0..1
    BY <2>1, <2>2 DEF IInv, Silence, SilenceAt, TypeOK
  <2>4. QED
    BY <2>3
<1>2. QED
  BY <1>1, Invariance, PTL

\* A superpeer heard of since the sweep before the last one is not delisted by
\* the checker.
THEOREM DelistingIsJustified == Spec => DelistedOnlyAfterSilence
<1> DEFINE Justified == \A a \in Listed \ Listed' : lock = "checker" => periods[a] >= 2
<1>1. IInv /\ [Next]_vars => [Justified]_vars
  <2>1. SUFFICES ASSUME IInv, Next, NEW a \in Listed \ Listed', lock = "checker"
                 PROVE  periods[a] >= 2
    OBVIOUS
  <2>2. sp_list' # sp_list
    BY <2>1 DEF Listed
  <2>3. SweepRemove
    BY <2>1, <2>2 DEF Next, Receive, Answer, Sweep, Ping, Register, Leave, JoinPromoted,
       JoinPromotedAgain, JoinListed, Receiving, ReadCount, FillList, FillCrash, StartPick,
       PickNode, EndPick, WalkNode, StartSweep, SweepKeep, EndSweep, list_vars
  <2>4. /\ pos \in 1..Len(sp_list) /\ DOMAIN sp_list = 1..Len(sp_list)
        /\ flag[sp_list[pos]] = 0 /\ sp_list' = RemoveAt(sp_list, pos)
    BY <2>1, <2>3 DEF SweepRemove, RemoveSp, IInv, TypeOK
  <2>5. periods[sp_list[pos]] = 2
    BY <2>1, <2>4 DEF IInv, Silence, SilenceAt
  <2>6. a = sp_list[pos]
    <3>1. PICK k \in DOMAIN sp_list : sp_list[k] = a
      BY <2>1 DEF Listed, ToSet
    <3>2. sp_list \in Seq(Addr)
      BY <2>1 DEF IInv, TypeOK
    <3>3. CASE k # pos
      <4>1. pos \in 1..Len(sp_list) /\ k \in 1..Len(sp_list)
        BY <2>4, <3>1
      <4>2. sp_list[k] \in ToSet(RemoveAt(sp_list, pos))
        BY ONLY <3>2, <3>3, <4>1, RemoveAtKeepsOthers
      <4>3. QED
        BY <2>1, <2>4, <3>1, <4>2 DEF Listed
    <3>4. QED
      BY <3>1, <3>3
  <2>7. QED
    BY <2>5, <2>6
<1>2. QED
  BY <1>1, Invariance, PTL DEF Spec, DelistedOnlyAfterSilence
-----------------------------------------------------------------------------
(* The list implements Lease *)

\* The members of the lease after insert_sp of a new address.
LEMMA ListedAfterInsert ==
    ASSUME sp_list \in Seq(Addr), NEW a \in Addr
    PROVE  ToSet(<<a>> \o sp_list) = Listed \cup {a}
<1> DEFINE new == <<a>> \o sp_list
<1>1. /\ new \in Seq(Addr) /\ Len(new) = Len(sp_list) + 1 /\ new[1] = a
      /\ \A k \in 2..(Len(sp_list) + 1) :
            new[k] = sp_list[k - 1] /\ k - 1 \in 1..Len(sp_list)
  BY InsertedAtHead
<1> HIDE DEF new
<1>2. /\ DOMAIN new = 1..(Len(sp_list) + 1) /\ DOMAIN sp_list = 1..Len(sp_list)
      /\ Len(sp_list) \in Nat
  BY <1>1
<1>3. \A k \in DOMAIN new : new[k] \in Listed \cup {a}
  <2>1. ASSUME NEW k \in DOMAIN new PROVE k = 1 \/ k \in 2..(Len(sp_list) + 1)
    BY ONLY <1>2, <2>1
  <2>2. \A k \in 1..Len(sp_list) : sp_list[k] \in Listed
    BY <1>2 DEF Listed, ToSet
  <2>3. \A k \in 2..(Len(sp_list) + 1) : new[k] \in Listed
    BY ONLY <1>1, <2>2, Zenon
  <2>4. QED
    BY ONLY <1>1, <2>1, <2>3
<1>4. \A k \in DOMAIN sp_list : k + 1 \in DOMAIN new /\ new[k + 1] = sp_list[k]
  <2>1. SUFFICES ASSUME NEW k \in DOMAIN sp_list
                 PROVE  k + 1 \in DOMAIN new /\ new[k + 1] = sp_list[k]
    OBVIOUS
  <2>2. k + 1 \in 2..(Len(sp_list) + 1) /\ (k + 1) - 1 = k
    BY <1>2
  <2>3. QED
    BY <1>1, <1>2, <2>2
<1>5. Listed \subseteq ToSet(new)
  BY <1>4 DEF Listed, ToSet
<1>6. a \in ToSet(new)
  BY <1>1, <1>2 DEF ToSet
<1>7. ToSet(new) \subseteq Listed \cup {a}
  BY <1>3 DEF ToSet
<1>8. QED
  BY <1>5, <1>6, <1>7 DEF new

\* The members of the lease after remove_sp of the i-th node.
LEMMA ListedAfterRemoval ==
    ASSUME sp_list \in Seq(Addr), NoDuplicates, NEW i \in DOMAIN sp_list
    PROVE  ToSet(RemoveAt(sp_list, i)) = Listed \ {sp_list[i]}
<1> DEFINE new == RemoveAt(sp_list, i)
<1>0. sp_list \in Seq(Addr) /\ i \in 1..Len(sp_list)
  OBVIOUS
<1>1. /\ new \in Seq(Addr) /\ Len(new) = Len(sp_list) - 1
      /\ \A k \in 1..(Len(sp_list) - 1) :
            new[k] = IF k < i THEN sp_list[k] ELSE sp_list[k + 1]
  BY ONLY <1>0, RemoveAtProperties
<1>2. \A j \in DOMAIN new : new[j] # sp_list[i] /\ new[j] \in Listed
  <2>1. SUFFICES ASSUME NEW j \in DOMAIN new
                 PROVE  new[j] # sp_list[i] /\ new[j] \in Listed
    OBVIOUS
  <2>2. /\ new[j] # sp_list[i]
        /\ new[j] = sp_list[IF j < i THEN j ELSE j + 1]
        /\ (IF j < i THEN j ELSE j + 1) \in DOMAIN sp_list
    BY NotListedAfterRemoval
  <2> HIDE DEF new
  <2>3. QED
    BY <2>2 DEF Listed, ToSet
<1> HIDE DEF new
<1>3. \A k \in DOMAIN sp_list : k # i => sp_list[k] \in ToSet(new)
  <2>1. SUFFICES ASSUME NEW k \in DOMAIN sp_list, k # i
                 PROVE  sp_list[k] \in ToSet(new)
    OBVIOUS
  <2>2. k \in 1..Len(sp_list) /\ i \in 1..Len(sp_list)
    BY <2>1
  <2>3. QED
    BY ONLY sp_list \in Seq(Addr), <2>1, <2>2, RemoveAtKeepsOthers DEF new
<1>4. ToSet(new) \subseteq Listed \ {sp_list[i]}
  BY <1>2 DEF ToSet
<1>5. Listed \ {sp_list[i]} \subseteq ToSet(new)
  BY <1>3 DEF Listed, ToSet
<1>6. QED
  BY <1>4, <1>5 DEF new

\* insert_sp outside a sweep enrolls or renews.
LEMMA InsertIsEnrollOrRenew ==
    ASSUME IInv, NEW a \in Addr, NEW s \in 0..1, lock = "free", UNCHANGED lock,
           InsertSp(a, s)
    PROVE  Lease!Next
<1>1. sp_list \in Seq(Addr)
  BY DEF IInv, TypeOK
<1>2. CASE a \in Listed
  <2>1. Lease!Renew(a)
    BY <1>2 DEF InsertSp, Lease!Renew, Listed
  <2>2. QED
    BY <2>1 DEF Lease!Next
<1>3. CASE a \notin Listed
  <2>1. Listed' = Listed \cup {a}
    BY <1>1, <1>3, ListedAfterInsert DEF InsertSp, Listed
  <2>2. Lease!Enroll(a)
    BY <1>3, <2>1 DEF InsertSp, Lease!Enroll
  <2>3. QED
    BY <2>2 DEF Lease!Next
<1>4. QED
  BY <1>2, <1>3

\* Each step of the server is a step of the lease or leaves its members alone.
LEMMA LeaseStep == IInv /\ [Next]_vars => [Lease!Next]_(Lease!vars)
<1> SUFFICES ASSUME IInv, [Next]_vars PROVE [Lease!Next]_(Lease!vars)
  OBVIOUS
<1>0. /\ sp_list \in Seq(Addr) /\ NoDuplicates /\ LockHeld /\ Silence
      /\ pos \in Nat \ {0} /\ periods \in [Addr -> Nat] /\ flag \in [Addr -> 0..1]
  BY DEF IInv, TypeOK, ListConsistent
<1>a. \A i \in DOMAIN sp_list : sp_list[i] \in Addr /\ sp_list[i] \in Listed
  BY <1>0 DEF Listed, ToSet
<1>b. ASSUME UNCHANGED <<sp_list, periods>>, lock # "checker", lock' # "checker"
      PROVE  UNCHANGED Lease!vars
  BY <1>b DEF Lease!vars, Listed
<1>1. ASSUME NEW a \in Addr, NEW s \in 0..1, Ping(a, s) PROVE Lease!Next
  <2>1. Lease!Renew(a)
    BY <1>1 DEF Ping, Receiving, Lease!Renew, Listed
  <2>2. QED
    BY <2>1 DEF Lease!Next
<1>2. ASSUME NEW a \in Addr, NEW s \in 0..1, Register(a, s) PROVE Lease!Next
  BY <1>2, InsertIsEnrollOrRenew DEF Register, Receiving
<1>3. ASSUME NEW a \in Addr, Leave(a) PROVE Lease!Next
  <2>1. IndexOf(a) \in DOMAIN sp_list /\ sp_list[IndexOf(a)] = a
    BY <1>3, IndexOfListed DEF Leave
  <2>2. Listed' = Listed \ {a}
    BY <1>0, <1>3, <2>1, ListedAfterRemoval DEF Leave, RemoveSp, Listed
  <2>3. Lease!Quit(a)
    BY <1>3, <2>1, <2>2 DEF Leave, Receiving, RemoveSp, Lease!Quit
  <2>4. QED
    BY <2>3 DEF Lease!Next
<1>4. ASSUME NEW a \in Addr, JoinPromoted(a) PROVE Lease!Next
  BY <1>4, InsertIsEnrollOrRenew DEF JoinPromoted, Receiving
<1>5. CASE \E a \in Addr : JoinPromotedAgain(a) \/ \E sp \in BOOLEAN : JoinListed(a, sp)
  BY <1>5, <1>b DEF JoinPromotedAgain, JoinListed, Receiving, list_vars
<1>6. CASE Answer
  <2>1. UNCHANGED <<sp_list, periods>>
    BY <1>6 DEF Answer, ReadCount, FillList, FillCrash, StartPick, PickNode, EndPick,
                WalkNode, list_vars
  <2>2. lock' = "checker" <=> lock = "checker"
    BY <1>0, <1>6 DEF Answer, ReadCount, FillList, FillCrash, StartPick, PickNode,
                      EndPick, WalkNode, LockHeld
  <2>3. QED
    BY <2>1, <2>2 DEF Lease!vars, Listed
<1>7. CASE StartSweep
  <2>1. Lease!BeginRound
    BY <1>7 DEF StartSweep, Lease!BeginRound, Listed
  <2>2. QED
    BY <2>1 DEF Lease!Next
<1>8. CASE SweepKeep
  BY <1>8 DEF SweepKeep, Lease!vars, Listed
<1>9. CASE SweepRemove
  <2> DEFINE a == sp_list[pos]
  <2>1. pos \in DOMAIN sp_list /\ a \in Addr /\ a \in Listed
    BY <1>0, <1>9, <1>a DEF SweepRemove
  <2>2. periods[a] = 2 /\ a \in Lease!Overdue
    BY <1>0, <1>9, <2>1 DEF SweepRemove, Silence, SilenceAt, Lease!Overdue
  <2>3. Listed' = Listed \ {a}
    BY <1>0, <1>9, <2>1, ListedAfterRemoval DEF SweepRemove, RemoveSp, Listed
  <2>4. Lease!Expire(a)
    BY <1>9, <2>1, <2>2, <2>3 DEF SweepRemove, RemoveSp, Lease!Expire
  <2>5. QED
    BY <2>1, <2>4 DEF Lease!Next
<1>10. CASE EndSweep
  <2>1. \A i \in DOMAIN sp_list : periods[sp_list[i]] = 1
    BY <1>0, <1>10 DEF EndSweep, Silence, SilenceAt
  <2>2. Lease!Overdue = {}
    BY <2>1 DEF Lease!Overdue, Listed, ToSet
  <2>3. Lease!EndRound
    BY <1>10, <2>2 DEF EndSweep, list_vars, Lease!EndRound, Listed
  <2>4. QED
    BY <2>3 DEF Lease!Next
<1>11. CASE UNCHANGED vars
  BY <1>11 DEF vars, list_vars, Lease!vars, Listed
<1>12. QED
  BY <1>1, <1>2, <1>3, <1>4, <1>5, <1>6, <1>7, <1>8, <1>9, <1>10, <1>11
     DEF Next, Receive, Sweep

\* The server keeps the promise of Lease: whatever clients and losses do, a
\* sweep expires exactly the members that are overdue.
THEOREM ImplementsLease == Spec => LeaseImplemented
<1>1. Init => Lease!Init
  BY DEF Init, Lease!Init, Listed, ToSet
<1>2. QED
  BY <1>1, LeaseStep, Invariance, PTL DEF Spec, Lease!Spec, LeaseImplemented
=============================================================================
