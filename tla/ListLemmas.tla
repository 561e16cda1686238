----------------------------- MODULE ListLemmas -----------------------------
(***************************************************************************)
(* What insert_node, sorted_insert_node and remove_node of list.c, in the  *)
(* model InsertAt, RemoveAt, Minus and Picked, do to a list, and facts on  *)
(* first places, on sequences with each element once and on small sets.    *)
(***************************************************************************)
EXTENDS Naturals, Sequences, SequencesExt, Lists, TLAPS, SequenceTheorems,
        FiniteSetTheorems, WellFoundedInduction

\* What RemoveAt, the model of remove_node of the i-th node, leaves.
LEMMA RemoveAtProperties ==
    ASSUME NEW S, NEW s \in Seq(S), NEW i \in 1..Len(s)
    PROVE  /\ RemoveAt(s, i) \in Seq(S)
           /\ Len(RemoveAt(s, i)) = Len(s) - 1
           /\ \A k \in 1..(Len(s) - 1) :
                 RemoveAt(s, i)[k] = IF k < i THEN s[k] ELSE s[k + 1]
<1> DEFINE front == SubSeq(s, 1, i - 1)
           back  == SubSeq(s, i + 1, Len(s))
<1>1. /\ front \in Seq(S) /\ Len(front) = i - 1
      /\ \A k \in 1..(i - 1) : front[k] = s[k]
  OBVIOUS
<1>2. /\ back \in Seq(S) /\ Len(back) = Len(s) - i
      /\ \A k \in 1..(Len(s) - i) : back[k] = s[k + i]
  OBVIOUS
<1>3. RemoveAt(s, i) = front \o back
  BY DEF RemoveAt
<1> DEFINE rest == front \o back
<1> HIDE DEF front, back
<1>4. /\ rest \in Seq(S)
      /\ Len(rest) = Len(front) + Len(back)
      /\ \A k \in 1..(Len(front) + Len(back)) :
            rest[k] = IF k <= Len(front) THEN front[k] ELSE back[k - Len(front)]
  BY <1>1, <1>2, ConcatProperties
<1> HIDE DEF rest
<1>5. Len(front) + Len(back) = Len(s) - 1
  BY <1>1, <1>2
<1>6. ASSUME NEW k \in 1..(Len(s) - 1)
      PROVE  rest[k] = IF k < i THEN s[k] ELSE s[k + 1]
  <2>1. CASE k < i
    BY <2>1, <1>1, <1>4, <1>5
  <2>2. CASE k >= i
    <3>1. /\ k - (i - 1) \in 1..(Len(s) - i)
          /\ (k - (i - 1)) + i = k + 1
      BY <2>2
    <3>2. rest[k] = back[k - (i - 1)]
      <4>1. k \in 1..(Len(front) + Len(back)) /\ ~(k <= Len(front))
        BY <2>2, <1>1, <1>5
      <4>2. QED
        BY <4>1, <1>1, <1>4
    <3>3. QED
      BY <2>2, <3>1, <3>2, <1>2
  <2>3. k < i \/ k >= i
    OBVIOUS
  <2>4. QED
    BY <2>1, <2>2, <2>3
<1>7. QED
  BY <1>3, <1>4, <1>5, <1>6 DEF rest

\* remove_node of the i-th node keeps what the other nodes hold.
LEMMA RemoveAtKeepsOthers ==
    ASSUME NEW S, NEW s \in Seq(S), NEW i \in 1..Len(s), NEW k \in 1..Len(s), k # i
    PROVE  s[k] \in ToSet(RemoveAt(s, i))
<1> DEFINE new == RemoveAt(s, i)
           j   == IF k < i THEN k ELSE k - 1
<1>1. /\ new \in Seq(S) /\ Len(new) = Len(s) - 1
      /\ \A m \in 1..(Len(s) - 1) : new[m] = IF m < i THEN s[m] ELSE s[m + 1]
  BY RemoveAtProperties
<1>2. j \in 1..(Len(s) - 1) /\ (IF j < i THEN j ELSE j + 1) = k
  OBVIOUS
<1> HIDE DEF new, j
<1>3. j \in DOMAIN new
  BY <1>1, <1>2
<1>4. new[j] = s[k]
  BY <1>1, <1>2
<1>5. QED
  BY <1>3, <1>4 DEF ToSet, new

\* What InsertAt, the model of sorted_insert_node before the i-th node, leaves.
LEMMA InsertAtProperties ==
    ASSUME NEW S, NEW s \in Seq(S), NEW e \in S, NEW i \in 1..(Len(s) + 1)
    PROVE  /\ InsertAt(s, i, e) \in Seq(S)
           /\ Len(InsertAt(s, i, e)) = Len(s) + 1
           /\ \A k \in 1..(Len(s) + 1) :
                 InsertAt(s, i, e)[k] = IF k < i THEN s[k]
                                        ELSE IF k = i THEN e ELSE s[k - 1]
<1> DEFINE front == SubSeq(s, 1, i - 1)
           back  == SubSeq(s, i, Len(s))
           mid   == front \o <<e>>
           all   == mid \o back
<1>1. /\ front \in Seq(S) /\ Len(front) = i - 1
      /\ \A k \in 1..(i - 1) : front[k] = s[k]
  OBVIOUS
<1>2. /\ back \in Seq(S) /\ Len(back) = Len(s) - i + 1
      /\ \A k \in 1..(Len(s) - i + 1) : back[k] = s[k + i - 1]
  OBVIOUS
<1>3. InsertAt(s, i, e) = all
  BY DEF InsertAt
<1>4. <<e>> \in Seq(S) /\ Len(<<e>>) = 1 /\ <<e>>[1] = e
  OBVIOUS
<1> HIDE DEF front, back
<1>5. /\ mid \in Seq(S)
      /\ Len(mid) = i
      /\ \A k \in 1..i : mid[k] = IF k < i THEN s[k] ELSE e
  BY <1>1, <1>4, ConcatProperties
<1> HIDE DEF mid
<1>6. /\ all \in Seq(S)
      /\ Len(all) = Len(mid) + Len(back)
      /\ \A k \in 1..(Len(mid) + Len(back)) :
            all[k] = IF k <= Len(mid) THEN mid[k] ELSE back[k - Len(mid)]
  BY <1>2, <1>5, ConcatProperties
<1> HIDE DEF all
<1>7. Len(mid) + Len(back) = Len(s) + 1
  BY <1>2, <1>5
<1>8. ASSUME NEW k \in 1..(Len(s) + 1)
      PROVE  all[k] = IF k < i THEN s[k] ELSE IF k = i THEN e ELSE s[k - 1]
  <2>1. CASE k <= i
    BY <2>1, <1>5, <1>6, <1>7
  <2>2. CASE k > i
    <3>1. k - i \in 1..(Len(s) - i + 1) /\ (k - i) + i - 1 = k - 1
      BY <2>2
    <3>2. all[k] = back[k - i]
      BY <2>2, <1>5, <1>6, <1>7
    <3>3. QED
      BY <2>2, <3>1, <3>2, <1>2
  <2>3. QED
    BY <2>1, <2>2
<1>9. QED
  BY <1>3, <1>6, <1>7, <1>8
-----------------------------------------------------------------------------
(* The first place with a property *)

\* A set of numbers that is not empty has a least element, and Min is that.
LEMMA MinProperties ==
    ASSUME NEW I \in SUBSET Nat, I # {}
    PROVE  Min(I) \in I /\ \A j \in I : Min(I) <= j
<1> DEFINE Less == {p \in Nat \X Nat : p[1] < p[2]}
<1>1. IsWellFoundedOn(Less, Nat)
  <2>1. IsWellFoundedOn(OpToRel(<, Nat), Nat)
    BY NatLessThanWellFounded, Zenon
  <2>2. OpToRel(<, Nat) = Less
    BY Zenon DEF OpToRel
  <2>3. QED
    BY <2>1, <2>2, Zenon
<1>2. \E i \in I : \A j \in I : ~(<<j, i>> \in Less)
  <2> HIDE DEF Less
  <2>1. QED
    BY <1>1, WFMin
<1>3. \E i \in I : \A j \in I : i <= j
  <2>1. PICK i \in I : \A j \in I : ~(<<j, i>> \in Less)
    BY <1>2
  <2>2. ASSUME NEW j \in I
        PROVE  i <= j
    <3>1. i \in Nat /\ j \in Nat
      OBVIOUS
    <3>2. <<j, i>> \in Less <=> j < i
      BY <3>1
    <3>3. QED
      BY <2>1, <3>1, <3>2
  <2>3. QED
    BY <2>2
<1>4. QED
  BY <1>3 DEF Min

-----------------------------------------------------------------------------
(* Picked and Minus *)

\* q has the elements of s at the places in I, each once and in order: h says
\* from which place each came.
Traces(h, q, s, I) ==
    /\ \A k \in DOMAIN q : q[k] = s[h[k]]
    /\ \A k, l \in DOMAIN q : k < l => h[k] < h[l]
    /\ \A i \in I : \E k \in DOMAIN q : h[k] = i

\* That is what Picked keeps.
LEMMA PickedProperties ==
    ASSUME NEW S, NEW s \in Seq(S), NEW I \in SUBSET DOMAIN s
    PROVE  /\ Picked(s, I) \in Seq(S)
           /\ \E h \in [DOMAIN Picked(s, I) -> I] : Traces(h, Picked(s, I), s, I)
<1> DEFINE n == Cardinality(I)
           Below(i) == {j \in I : j < i}
           Before(i) == Cardinality(Below(i))
           rank == [i \in I |-> Before(i) + 1]
           h == [k \in 1..n |-> CHOOSE i \in I : Before(i) = k - 1]
<1>1. IsFiniteSet(I) /\ n \in Nat
  <2>1. IsFiniteSet(1..Len(s)) /\ DOMAIN s = 1..Len(s)
    BY FS_Interval
  <2>2. QED
    BY <2>1, FS_Subset, FS_CardinalityType
<1>2. \A i \in I : i \in Nat
  OBVIOUS
<1>3. ASSUME NEW i \in I
      PROVE  IsFiniteSet(Below(i)) /\ Before(i) \in 0..(n - 1)
  <2>1. Below(i) \in SUBSET (I \ {i})
    BY <1>2
  <2>2. IsFiniteSet(I \ {i}) /\ Cardinality(I \ {i}) = n - 1
    BY <1>1, FS_RemoveElement
  <2> HIDE DEF Below
  <2>3. IsFiniteSet(Below(i)) /\ Cardinality(Below(i)) <= n - 1
    BY <2>1, <2>2, FS_Subset
  <2>4. Cardinality(Below(i)) \in Nat
    BY <2>3, FS_CardinalityType
  <2>5. QED
    BY <2>3, <2>4, <1>1
<1>4. ASSUME NEW i \in I, NEW j \in I, i < j
      PROVE  Before(i) < Before(j)
  <2>1. Below(i) \in SUBSET Below(j) /\ i \in Below(j) /\ i \notin Below(i)
    BY <1>2, <1>4
  <2> HIDE DEF Below
  <2>2. IsFiniteSet(Below(j)) /\ Before(i) \in Nat /\ Before(j) \in Nat
    BY <1>3, <1>1
  <2>3. Cardinality(Below(i)) <= Cardinality(Below(j))
        /\ (Cardinality(Below(j)) = Cardinality(Below(i)) => Below(j) = Below(i))
    BY <2>1, <2>2, FS_Subset
  <2>4. QED
    BY <2>1, <2>2, <2>3
<1> HIDE DEF Below
<1>5. rank \in Surjection(I, 1..n)
  <2>1. rank \in [I -> 1..n]
    BY <1>1, <1>3
  <2>2. \A i, j \in I : rank[i] = rank[j] => i = j
    <3>1. SUFFICES ASSUME NEW i \in I, NEW j \in I, rank[i] = rank[j], i # j
                   PROVE  FALSE
      OBVIOUS
    <3>2. Before(i) = Before(j) /\ Before(i) \in Nat
      BY <3>1, <1>1, <1>3
    <3>3. CASE i < j
      BY <3>2, <3>3, <1>4
    <3>4. CASE j < i
      BY <3>2, <3>4, <1>4
    <3>5. QED
      BY <3>1, <3>3, <3>4, <1>2
  <2>3. rank \in Injection(I, 1..n)
    BY <2>1, <2>2 DEF Injection, IsInjective
  <2>4. IsFiniteSet(1..n) /\ Cardinality(1..n) = n
    BY <1>1, FS_Interval
  <2> HIDE DEF rank
  <2>5. QED
    BY <2>3, <2>4, FS_Injection
<1>6. ASSUME NEW k \in 1..n
      PROVE  h[k] \in I /\ Before(h[k]) = k - 1
  <2>1. PICK i \in I : rank[i] = k
    BY <1>5 DEF Surjection
  <2>2. Before(i) = k - 1
    BY <2>1, <1>1, <1>3
  <2>3. QED
    BY <2>2
<1>7. Picked(s, I) = [k \in 1..n |-> s[h[k]]]
  <2>1. ASSUME NEW k \in 1..n
        PROVE  s[CHOOSE i \in I : Cardinality({j \in I : j < i}) = k - 1] = s[h[k]]
    BY DEF Below
  <2> HIDE DEF h
  <2>2. QED
    BY <2>1 DEF Picked
<1>8. h \in [1..n -> I]
  BY <1>6
<1>9. ASSUME NEW k \in 1..n, NEW l \in 1..n, k < l
      PROVE  h[k] < h[l]
  <2>1. Before(h[k]) = k - 1 /\ Before(h[l]) = l - 1 /\ h[k] \in I /\ h[l] \in I
    BY <1>6
  <2> HIDE DEF h, Before
  <2>2. ~(h[l] < h[k])
    <3>1. SUFFICES ASSUME h[l] < h[k]
                   PROVE  FALSE
      OBVIOUS
    <3>2. Before(h[l]) < Before(h[k])
      BY <1>4, <2>1, <3>1
    <3>3. QED
      BY <3>2, <2>1, <1>9, <1>1
  <2>3. h[l] # h[k]
    BY <2>1, <1>9, <1>1
  <2>4. QED
    BY <2>1, <2>2, <2>3, <1>2
<1>10. ASSUME NEW i \in I
       PROVE  \E k \in 1..n : h[k] = i
  <2> DEFINE k == Before(i) + 1
  <2>1. k \in 1..n
    BY <1>1, <1>3
  <2>2. Before(h[k]) = Before(i) /\ h[k] \in I
    BY <1>1, <1>3, <1>6, <2>1
  <2> HIDE DEF h, Before, k
  <2>3. ~(h[k] < i) /\ ~(i < h[k])
    BY <2>2, <1>1, <1>3, <1>4
  <2>4. QED
    BY <2>1, <2>2, <2>3, <1>2
<1> HIDE DEF h, n
<1>11. DOMAIN Picked(s, I) = 1..n /\ \A k \in 1..n : Picked(s, I)[k] = s[h[k]]
  BY <1>7
<1>12. Picked(s, I) \in Seq(S)
  <2>1. \A k \in 1..n : s[h[k]] \in S
    BY <1>8
  <2>2. QED
    BY <1>1, <1>7, <2>1
<1>13. QED
  <2>1. h \in [DOMAIN Picked(s, I) -> I]
    BY <1>8, <1>11
  <2>2. /\ \A k \in DOMAIN Picked(s, I) : Picked(s, I)[k] = s[h[k]]
        /\ \A k, l \in DOMAIN Picked(s, I) : k < l => h[k] < h[l]
        /\ \A i \in I : \E k \in DOMAIN Picked(s, I) : h[k] = i
    BY ONLY <1>9, <1>10, <1>11, Zenon
  <2>3. Traces(h, Picked(s, I), s, I)
    BY ONLY <2>2 DEF Traces
  <2>4. QED
    BY ONLY <1>12, <2>1, <2>3, Zenon

\* What Picked keeps, and that it keeps no element twice.
LEMMA PickedMembers ==
    ASSUME NEW S, NEW s \in Seq(S), NEW I \in SUBSET DOMAIN s
    PROVE  /\ Picked(s, I) \in Seq(S)
           /\ ToSet(Picked(s, I)) = {s[i] : i \in I}
           /\ \A k, l \in DOMAIN Picked(s, I) : k # l =>
                 \E i, j \in I :
                    i # j /\ Picked(s, I)[k] = s[i] /\ Picked(s, I)[l] = s[j]
<1> DEFINE q == Picked(s, I)
<1>0. /\ q \in Seq(S)
      /\ \E h \in [DOMAIN q -> I] : Traces(h, q, s, I)
  <2>1. I \in SUBSET DOMAIN s /\ s \in Seq(S)
    OBVIOUS
  <2>2. QED
    BY ONLY <2>1, PickedProperties, Zenon DEF q
<1> HIDE DEF q
<1>1. PICK h \in [DOMAIN q -> I] :
         /\ \A k \in DOMAIN q : q[k] = s[h[k]]
         /\ \A k, l \in DOMAIN q : k < l => h[k] < h[l]
         /\ \A i \in I : \E k \in DOMAIN q : h[k] = i
  BY <1>0 DEF Traces
<1>2. ToSet(q) = {s[i] : i \in I}
  <2>1. \A k \in DOMAIN q : \E i \in I : q[k] = s[i]
    BY <1>1
  <2>2. \A i \in I : \E k \in DOMAIN q : q[k] = s[i]
    BY <1>1
  <2>3. QED
    BY <2>1, <2>2 DEF ToSet
<1>3. ASSUME NEW k \in DOMAIN q, NEW l \in DOMAIN q, k # l
      PROVE  \E i, j \in I : i # j /\ q[k] = s[i] /\ q[l] = s[j]
  <2>1. k < l \/ l < k
    BY <1>0, <1>3
  <2>2. h[k] \in I /\ h[l] \in I /\ h[k] \in Nat /\ h[l] \in Nat
    BY <1>1
  <2>3. h[k] # h[l]
    BY <1>1, <2>1, <2>2
  <2>4. QED
    BY <1>1, <2>2, <2>3
<1>4. QED
  BY <1>0, <1>2, <1>3 DEF q

\* Minus takes away the elements it is told to, and doubles none.
LEMMA MinusProperties ==
    ASSUME NEW S, NEW s \in Seq(S), NEW T
    PROVE  /\ Minus(s, T) \in Seq(S)
           /\ ToSet(Minus(s, T)) = ToSet(s) \ T
           /\ IsInjective(s) => IsInjective(Minus(s, T))
<1> DEFINE I == {i \in DOMAIN s : s[i] \notin T}
           q == Picked(s, I)
<1>1. Minus(s, T) = q
  BY DEF Minus
<1>2. /\ q \in Seq(S)
      /\ ToSet(q) = {s[i] : i \in I}
      /\ \A k, l \in DOMAIN q : k # l =>
            \E i, j \in I : i # j /\ q[k] = s[i] /\ q[l] = s[j]
  <2>1. I \in SUBSET DOMAIN s
    OBVIOUS
  <2> HIDE DEF I
  <2>2. QED
    BY <2>1, PickedMembers
<1> HIDE DEF q
<1>3. {s[i] : i \in I} = ToSet(s) \ T
  BY DEF ToSet
<1>4. ASSUME IsInjective(s), NEW k \in DOMAIN q, NEW l \in DOMAIN q, k # l
      PROVE  q[k] # q[l]
  BY <1>2, <1>4 DEF IsInjective
<1>5. QED
  BY <1>1, <1>2, <1>3, <1>4 DEF IsInjective

-----------------------------------------------------------------------------
(* Elements added at an end *)

\* Cons puts the element before the others, and doubles none if it is new.
LEMMA ConsMembers ==
    ASSUME NEW S, NEW s \in Seq(S), NEW e \in S
    PROVE  /\ <<e>> \o s \in Seq(S) /\ <<e>> \o s # <<>>
           /\ ToSet(<<e>> \o s) = ToSet(s) \cup {e}
           /\ IsInjective(s) /\ e \notin ToSet(s) => IsInjective(<<e>> \o s)
<1> DEFINE q == <<e>> \o s
<1>1. /\ q \in Seq(S) /\ Len(q) = Len(s) + 1 /\ q[1] = e
      /\ \A k \in 2..(Len(s) + 1) : q[k] = s[k - 1]
  OBVIOUS
<1>2. DOMAIN q = 1..(Len(s) + 1) /\ DOMAIN s = 1..Len(s)
  BY <1>1
<1> HIDE DEF q
<1>3. ToSet(q) = ToSet(s) \cup {e}
  <2>1. ToSet(q) \subseteq ToSet(s) \cup {e}
    BY <1>1, <1>2 DEF ToSet
  <2>2. ASSUME NEW k \in DOMAIN s
        PROVE  s[k] \in ToSet(q)
    <3>1. k + 1 \in DOMAIN q /\ q[k + 1] = s[k]
      BY <1>1, <1>2
    <3>2. QED
      BY <3>1 DEF ToSet
  <2>3. e \in ToSet(q)
    BY <1>1, <1>2 DEF ToSet
  <2>4. QED
    BY <2>1, <2>2, <2>3 DEF ToSet
<1>4. ASSUME IsInjective(s), e \notin ToSet(s), NEW k \in DOMAIN q, NEW l \in DOMAIN q,
             q[k] = q[l]
      PROVE  k = l
  <2>1. \A m \in DOMAIN q : m # 1 => m - 1 \in DOMAIN s /\ q[m] = s[m - 1] /\ q[m] # e
    BY <1>1, <1>2, <1>4 DEF ToSet
  <2>2. CASE k = 1 \/ l = 1
    BY <2>1, <2>2, <1>1, <1>4
  <2>3. CASE k # 1 /\ l # 1
    BY <2>1, <2>3, <1>4, <1>2 DEF IsInjective
  <2>4. QED
    BY <2>2, <2>3
<1>5. q # <<>>
  BY <1>1
<1>6. QED
  BY <1>1, <1>3, <1>4, <1>5 DEF IsInjective, q

\* Append puts it after them, likewise.
LEMMA AppendMembers ==
    ASSUME NEW S, NEW s \in Seq(S), NEW e \in S
    PROVE  /\ Append(s, e) \in Seq(S)
           /\ ToSet(Append(s, e)) = ToSet(s) \cup {e}
<1> DEFINE q == Append(s, e)
<1>1. /\ q \in Seq(S) /\ Len(q) = Len(s) + 1 /\ q[Len(s) + 1] = e
      /\ \A k \in 1..Len(s) : q[k] = s[k]
  OBVIOUS
<1>2. DOMAIN q = 1..(Len(s) + 1) /\ DOMAIN s = 1..Len(s)
  BY <1>1
<1> HIDE DEF q
<1>3. ToSet(q) = ToSet(s) \cup {e}
  BY <1>1, <1>2 DEF ToSet
<1>4. QED
  BY <1>1, <1>3 DEF q
-----------------------------------------------------------------------------
(* Sequences with each element once, and small sets *)

\* The first n elements of a sequence, as a set.
LEMMA RangeOfPrefix ==
    ASSUME NEW S, NEW s \in Seq(S), NEW n \in 0..Len(s)
    PROVE  /\ Range(SubSeq(s, 1, n)) \subseteq Range(s)
           /\ n = Len(s) => Range(SubSeq(s, 1, n)) = Range(s)
<1> DEFINE q == SubSeq(s, 1, n)
<1>1. /\ DOMAIN q = 1..n /\ DOMAIN s = 1..Len(s) /\ Len(s) \in Nat
      /\ \A i \in 1..n : q[i] = s[i]
  OBVIOUS
<1> HIDE DEF q
<1>2. 1..n \subseteq 1..Len(s)
  BY <1>1
<1>3. Range(q) \subseteq Range(s)
  BY <1>1, <1>2 DEF Range
<1>4. ASSUME n = Len(s) PROVE Range(s) \subseteq Range(q)
  BY <1>1, <1>4 DEF Range
<1>5. QED
  BY <1>3, <1>4 DEF q

\* As many different elements as a sequence is long.
LEMMA RangeOfInjective ==
    ASSUME NEW S, NEW s \in Seq(S), IsInjective(s)
    PROVE  IsFiniteSet(Range(s)) /\ Cardinality(Range(s)) = Len(s)
<1> DEFINE T == Range(s)
           n == Len(s)
<1>1. n \in Nat /\ DOMAIN s = 1..n
  OBVIOUS
<1>2. s \in [1..n -> T] /\ \A y \in T : \E i \in 1..n : s[i] = y
  BY <1>1 DEF Range
<1> HIDE DEF T, n
<1>3. s \in Surjection(1..n, T)
  BY <1>2 DEF Surjection
<1>4. s \in Injection(1..n, T)
  BY <1>1, <1>2 DEF Injection, IsInjective
<1>5. s \in Bijection(1..n, T)
  BY <1>3, <1>4 DEF Bijection
<1>6. IsFiniteSet(1..n) /\ Cardinality(1..n) = n
  BY <1>1, FS_Interval
<1>7. ExistsBijection(1..n, T)
  BY <1>5 DEF ExistsBijection
<1>8. IsFiniteSet(T) /\ Cardinality(T) = n
  BY <1>6, <1>7, FS_Bijection
<1>9. QED
  BY <1>8 DEF T, n

\* A sequence with one more element.
LEMMA AppendRange ==
    ASSUME NEW S, NEW s \in Seq(S), NEW x \in S
    PROVE  Range(Append(s, x)) = Range(s) \cup {x}
<1> DEFINE q == Append(s, x)
           n == Len(s)
<1>1. /\ n \in Nat /\ DOMAIN s = 1..n /\ DOMAIN q = 1..n + 1 /\ q[n + 1] = x
      /\ \A i \in 1..n : q[i] = s[i]
  OBVIOUS
<1> HIDE DEF q, n
<1>2. (1..n) \cup {n + 1} = 1..n + 1
  BY <1>1
<1>3. QED
  BY <1>1, <1>2 DEF Range, q

\* If it is a new one, the elements stay different.
LEMMA AppendNew ==
    ASSUME NEW S, NEW s \in Seq(S), IsInjective(s), NEW x \in S, x \notin Range(s)
    PROVE  IsInjective(Append(s, x)) /\ Len(Append(s, x)) = Len(s) + 1
<1> DEFINE q == Append(s, x)
           n == Len(s)
<1>1. /\ n \in Nat /\ DOMAIN s = 1..n /\ DOMAIN q = 1..n + 1 /\ q[n + 1] = x
      /\ \A i \in 1..n : q[i] = s[i]
      /\ Len(q) = n + 1
  OBVIOUS
<1> HIDE DEF q, n
<1>2. /\ \A i, j \in 1..n : s[i] = s[j] => i = j
      /\ \A i \in 1..n : s[i] # x
  BY <1>1 DEF IsInjective, Range
<1>3. \A i \in 1..n + 1 : i \in 1..n \/ i = n + 1
  BY <1>1
<1>4. \A i, j \in 1..n + 1 : q[i] = q[j] => i = j
  BY <1>1, <1>2, <1>3
<1>5. IsInjective(q) /\ Len(q) = n + 1
  BY <1>1, <1>4 DEF IsInjective
<1>6. QED
  BY <1>5 DEF q, n

\* A sequence of different elements without its first.
LEMMA TailInjective ==
    ASSUME NEW S, NEW s \in Seq(S), IsInjective(s), s # <<>>
    PROVE  IsInjective(Tail(s)) /\ Range(Tail(s)) = Range(s) \ {s[1]}
<1> DEFINE q == Tail(s)
           n == Len(s)
<1>1. /\ n \in Nat \ {0} /\ DOMAIN s = 1..n /\ DOMAIN q = 1..n - 1
      /\ \A i \in 1..n - 1 : q[i] = s[i + 1]
  OBVIOUS
<1>2. \A i, j \in 1..n : s[i] = s[j] => i = j
  BY <1>1 DEF IsInjective
<1> HIDE DEF q, n
<1>3. \A i, j \in 1..n - 1 : q[i] = q[j] => i = j
  <2>1. \A i \in 1..n - 1 : i + 1 \in 1..n /\ i \in Int
    BY <1>1
  <2>2. ASSUME NEW i \in 1..n - 1, NEW j \in 1..n - 1, q[i] = q[j]
        PROVE  i = j
    <3>1. i + 1 = j + 1
      BY <1>1, <1>2, <2>1, <2>2
    <3>2. QED
      BY <3>1
  <2>3. QED
    BY <2>2
<1>4. \A i \in 1..n - 1 : q[i] \in Range(s) /\ q[i] # s[1]
  <2>1. ASSUME NEW i \in 1..n - 1
        PROVE  i + 1 \in 1..n /\ 1 \in 1..n /\ i + 1 # 1
    BY <1>1
  <2>2. QED
    BY <1>1, <1>2, <2>1 DEF Range
<1>5. \A i \in 1..n : s[i] # s[1] => \E j \in 1..n - 1 : q[j] = s[i]
  <2>1. ASSUME NEW i \in 1..n, i # 1
        PROVE  i - 1 \in 1..n - 1 /\ i - 1 + 1 = i
    BY <1>1, <2>1
  <2>2. QED
    BY <1>1, <2>1
<1>6. Range(q) = {q[i] : i \in 1..n - 1} /\ Range(s) = {s[i] : i \in 1..n}
  BY <1>1 DEF Range
<1>7. Range(q) = Range(s) \ {s[1]}
  BY <1>4, <1>5, <1>6
<1>8. IsInjective(q)
  BY <1>1, <1>3 DEF IsInjective
<1>9. QED
  BY <1>7, <1>8 DEF q

\* Max of two numbers is the greater.
LEMMA MaxOfTwo ==
    ASSUME NEW a \in Nat, NEW b \in Nat
    PROVE  Max({a, b}) = IF a > b THEN a ELSE b
<1> DEFINE m == IF a > b THEN a ELSE b
<1>1. m \in {a, b} /\ \A y \in {a, b} : m >= y
  OBVIOUS
<1>2. \A x \in {a, b} : (\A y \in {a, b} : x >= y) => x = m
  OBVIOUS
<1> HIDE DEF m
<1>3. Max({a, b}) = m
  BY <1>1, <1>2 DEF Max
<1>4. QED
  BY <1>3 DEF m

\* Min of two numbers is the lesser.
LEMMA MinOfTwo ==
    ASSUME NEW a \in Nat, NEW b \in Nat
    PROVE  Min({a, b}) = IF a < b THEN a ELSE b
<1> DEFINE m == IF a < b THEN a ELSE b
<1>1. m \in {a, b} /\ \A y \in {a, b} : m <= y
  OBVIOUS
<1>2. \A x \in {a, b} : (\A y \in {a, b} : x <= y) => x = m
  OBVIOUS
<1> HIDE DEF m
<1>3. Min({a, b}) = m
  BY <1>1, <1>2 DEF Min
<1>4. QED
  BY <1>3 DEF m

\* A finite set with one element or less.
LEMMA OneOfMany ==
    ASSUME NEW S, IsFiniteSet(S), NEW m \in S
    PROVE  ~(Cardinality(S) > 1) <=> S \subseteq {m}
<1>1. IsFiniteSet({m}) /\ Cardinality({m}) = 1
  BY FS_Singleton
<1>2. {m} \in SUBSET S /\ Cardinality(S) \in Nat
  BY FS_CardinalityType
<1>3. Cardinality({m}) <= Cardinality(S) /\ (Cardinality({m}) = Cardinality(S) => {m} = S)
  BY <1>2, FS_Subset
<1>4. S \subseteq {m} <=> S = {m}
  OBVIOUS
<1>5. QED
  BY <1>1, <1>2, <1>3, <1>4

\* A function on the first numbers is a sequence.
LEMMA FunctionSeq ==
    ASSUME NEW S, NEW n \in Nat, NEW f \in [1..n -> S]
    PROVE  f \in Seq(S) /\ Len(f) = n
OBVIOUS

\* What two sequences have one after the other.
LEMMA ConcatRange ==
    ASSUME NEW S, NEW a \in Seq(S), NEW b \in Seq(S)
    PROVE  a \o b \in Seq(S) /\ Range(a \o b) = Range(a) \cup Range(b)
<1> DEFINE q == a \o b
<1>1. /\ q \in Seq(S) /\ DOMAIN q = 1 .. Len(a) + Len(b)
      /\ DOMAIN a = 1..Len(a) /\ DOMAIN b = 1..Len(b) /\ Len(a) \in Nat /\ Len(b) \in Nat
      /\ \A i \in 1 .. Len(a) + Len(b) : q[i] = IF i <= Len(a) THEN a[i] ELSE b[i - Len(a)]
  OBVIOUS
<1> HIDE DEF q
<1>2. ASSUME NEW i \in DOMAIN q PROVE q[i] \in Range(a) \cup Range(b)
  <2>1. CASE i <= Len(a)
    <3>1. i \in DOMAIN a /\ q[i] = a[i]
      BY <1>1, <2>1
    <3>2. QED
      BY <3>1 DEF Range
  <2>2. CASE i > Len(a)
    <3>1. i - Len(a) \in DOMAIN b /\ q[i] = b[i - Len(a)]
      BY <1>1, <2>2
    <3>2. QED
      BY <3>1 DEF Range
  <2>3. QED
    BY <1>1, <2>1, <2>2
<1>3. ASSUME NEW i \in DOMAIN a PROVE a[i] \in Range(q)
  <2>1. i \in DOMAIN q /\ q[i] = a[i]
    BY <1>1
  <2>2. QED
    BY <2>1 DEF Range
<1>4. ASSUME NEW i \in DOMAIN b PROVE b[i] \in Range(q)
  <2>1. i + Len(a) \in DOMAIN q /\ ~(i + Len(a) <= Len(a)) /\ i + Len(a) - Len(a) = i
    BY <1>1
  <2>2. q[i + Len(a)] = b[i]
    BY <1>1, <2>1
  <2>3. QED
    BY <2>1, <2>2 DEF Range
<1>5. Range(q) = Range(a) \cup Range(b)
  BY <1>2, <1>3, <1>4 DEF Range
<1>6. QED
  BY <1>1, <1>5 DEF q
=============================================================================
