--------------------------- MODULE FileIndexProofs ---------------------------
(***************************************************************************)
(* The three tables of the file index hold the same files, and implement a *)
(* set of entries with owners, for every set of names, md5s and peers,     *)
(* every hash function, and whatever names begin with others.              *)
(***************************************************************************)
EXTENDS FileIndex, ListLemmas

\* A node of a table whose keys are K.
NodeOf(K) == [key : K, list : Seq(Entry)]

\* A table of buckets B with keys K.
IsTable(table, B, K) == table \in [B -> Seq(NodeOf(K))]

\* The types of the tables.
TablesTyped ==
    /\ IsTable(hash_file, Range(FileHash), Name)
    /\ IsTable(hash_md5, Range(Md5Hash), Md5)
    /\ IsTable(hash_ip, Range(IpHash), Ip)

\* A field of an entry, by which a table with keys K is sorted.
IsKey(key, K) == key \in [Entry -> K]

\* i is the place of the node of key k, or 0 if there is none.
IsPlaceOf(i, bucket, k) ==
    /\ i \in 0..Len(bucket)
    /\ i # 0 => bucket[i].key = k
    /\ i = 0 => \A j \in DOMAIN bucket : bucket[j].key # k

\* The inductive invariant.
IInv == TypeOK /\ TablesTyped /\ TablesAgree

-----------------------------------------------------------------------------
(* One bucket *)

\* The key of each node of a bucket is that of each entry on its list.
LEMMA BucketFacts ==
    ASSUME NEW K, NEW bucket \in Seq(NodeOf(K)), NEW key, NEW es, BucketHolds(bucket, key, es)
    PROVE  /\ DOMAIN bucket = 1..Len(bucket)
           /\ \A i \in DOMAIN bucket :
                 /\ bucket[i] \in NodeOf(K) /\ bucket[i] \in ToSet(bucket)
                 /\ bucket[i].list \in Seq(Entry) /\ bucket[i].list # <<>>
                 /\ IsInjective(bucket[i].list) /\ ToSet(bucket[i].list) \subseteq es
                 /\ \A e \in ToSet(bucket[i].list) : key[e] = bucket[i].key
           /\ \A e \in es : \E i \in DOMAIN bucket : e \in ToSet(bucket[i].list)
<1>1. DOMAIN bucket = 1..Len(bucket) /\ \A i \in DOMAIN bucket : bucket[i] \in NodeOf(K)
  OBVIOUS
<1>2. \A i \in DOMAIN bucket : bucket[i] \in ToSet(bucket)
  BY DEF ToSet
<1>3. \A i \in DOMAIN bucket : bucket[i].list \in Seq(Entry)
  BY <1>1 DEF NodeOf
<1>4. ASSUME NEW i \in DOMAIN bucket
      PROVE  /\ bucket[i].list # <<>>
             /\ IsInjective(bucket[i].list) /\ ToSet(bucket[i].list) \subseteq es
             /\ \A e \in ToSet(bucket[i].list) : key[e] = bucket[i].key
  BY <1>2 DEF BucketHolds
<1>5. ASSUME NEW e \in es
      PROVE  \E i \in DOMAIN bucket : e \in ToSet(bucket[i].list)
  <2>1. PICK node \in ToSet(bucket) : e \in ToSet(node.list)
    BY DEF BucketHolds
  <2>2. PICK i \in DOMAIN bucket : node = bucket[i]
    BY DEF ToSet
  <2>3. QED
    BY <2>1, <2>2
<1>6. QED
  BY <1>1, <1>2, <1>3, <1>4, <1>5

\* The same by places, the way it is proved of a bucket that has changed.
LEMMA BucketHoldsIf ==
    ASSUME NEW bucket, NEW key, NEW es,
           \A i \in DOMAIN bucket :
              /\ bucket[i].list # <<>> /\ IsInjective(bucket[i].list)
              /\ ToSet(bucket[i].list) \subseteq es
              /\ \A e \in ToSet(bucket[i].list) : key[e] = bucket[i].key,
           \A e \in es : \E i \in DOMAIN bucket : e \in ToSet(bucket[i].list),
           \A i, j \in DOMAIN bucket : bucket[i].key = bucket[j].key => i = j
    PROVE  BucketHolds(bucket, key, es)
<1>1. \A node \in ToSet(bucket) : \E i \in DOMAIN bucket : node = bucket[i]
  BY DEF ToSet
<1>2. \A i \in DOMAIN bucket : bucket[i] \in ToSet(bucket)
  BY DEF ToSet
<1>3. es = UNION {ToSet(node.list) : node \in ToSet(bucket)}
  <2>1. ASSUME NEW e \in es
        PROVE  \E node \in ToSet(bucket) : e \in ToSet(node.list)
    BY <1>2
  <2>2. ASSUME NEW node \in ToSet(bucket)
        PROVE  ToSet(node.list) \subseteq es
    BY <1>1
  <2>3. QED
    BY <2>1, <2>2
<1>4. QED
  BY <1>1, <1>3 DEF BucketHolds

\* A new entry goes to the node of its key, or to a new one if there is none.
LEMMA AddAtHolds ==
    ASSUME NEW K, NEW bucket \in Seq(NodeOf(K)), NEW key \in [Entry -> K],
           NEW es \in SUBSET Entry, BucketHolds(bucket, key, es),
           NEW e \in Entry, e \notin es,
           NEW i, IsPlaceOf(i, bucket, key[e])
    PROVE  /\ AddAt(bucket, i, key[e], e) \in Seq(NodeOf(K))
           /\ BucketHolds(AddAt(bucket, i, key[e], e), key, es \cup {e})
<1> DEFINE new == AddAt(bucket, i, key[e], e)
           node == [key |-> key[e], list |-> <<e>>]
<1>0. /\ DOMAIN bucket = 1..Len(bucket) /\ Len(bucket) \in Nat
      /\ \A j \in DOMAIN bucket :
            /\ bucket[j] \in NodeOf(K)
            /\ bucket[j].list \in Seq(Entry) /\ bucket[j].list # <<>>
            /\ IsInjective(bucket[j].list) /\ ToSet(bucket[j].list) \subseteq es
            /\ \A d \in ToSet(bucket[j].list) : key[d] = bucket[j].key
      /\ \A d \in es : \E j \in DOMAIN bucket : d \in ToSet(bucket[j].list)
  BY BucketFacts
<1>1. \A j, k \in DOMAIN bucket : bucket[j].key = bucket[k].key => j = k
  BY DEF BucketHolds
<1>a. /\ i \in 0..Len(bucket)
      /\ i # 0 => bucket[i].key = key[e]
      /\ i = 0 => \A j \in DOMAIN bucket : bucket[j].key # key[e]
  BY DEF IsPlaceOf
<1>2. CASE i = 0
  <2>1. new = Append(bucket, node)
    BY <1>2 DEF AddAt
  <2>2. /\ node \in NodeOf(K) /\ node.list = <<e>> /\ node.key = key[e]
        /\ ToSet(<<e>>) = {e} /\ IsInjective(<<e>>) /\ <<e>> # <<>>
    BY DEF NodeOf, ToSet, IsInjective
  <2> HIDE DEF node
  <2>3. /\ new \in Seq(NodeOf(K)) /\ DOMAIN new = 1..(Len(bucket) + 1)
        /\ \A j \in DOMAIN bucket : new[j] = bucket[j]
        /\ new[Len(bucket) + 1] = node
    BY <1>0, <2>1, <2>2
  <2> HIDE DEF new
  <2>4. \A j \in DOMAIN new : j \in DOMAIN bucket \/ j = Len(bucket) + 1
    BY <1>0, <2>3
  <2>5. DOMAIN bucket \subseteq DOMAIN new /\ Len(bucket) + 1 \in DOMAIN new
    BY <1>0, <2>3
  <2>6. \A j \in DOMAIN new :
           /\ new[j].list # <<>> /\ IsInjective(new[j].list)
           /\ ToSet(new[j].list) \subseteq es \cup {e}
           /\ \A d \in ToSet(new[j].list) : key[d] = new[j].key
    <3>1. SUFFICES ASSUME NEW j \in DOMAIN new
                   PROVE  /\ new[j].list # <<>> /\ IsInjective(new[j].list)
                          /\ ToSet(new[j].list) \subseteq es \cup {e}
                          /\ \A d \in ToSet(new[j].list) : key[d] = new[j].key
      OBVIOUS
    <3>2. CASE j \in DOMAIN bucket
      BY <1>0, <2>3, <3>2
    <3>3. CASE j = Len(bucket) + 1
      BY <2>2, <2>3, <3>3
    <3>4. QED
      BY <2>4, <3>2, <3>3
  <2>7. \A d \in es \cup {e} : \E j \in DOMAIN new : d \in ToSet(new[j].list)
    BY <1>0, <2>2, <2>3, <2>5
  <2>8. \A j, k \in DOMAIN new : new[j].key = new[k].key => j = k
    BY <1>0, <1>1, <1>2, <1>a, <2>2, <2>3, <2>4
  <2>9. BucketHolds(new, key, es \cup {e})
    BY ONLY <2>6, <2>7, <2>8, BucketHoldsIf
  <2>10. QED
    BY <2>3, <2>9 DEF new
<1>3. CASE i # 0
  <2> DEFINE list == bucket[i].list
  <2>1. i \in DOMAIN bucket /\ bucket[i].key = key[e] /\ list \in Seq(Entry)
    BY <1>0, <1>3, <1>a
  <2>2. e \notin ToSet(list) /\ IsInjective(list)
    BY <1>0, <2>1
  <2>3. /\ <<e>> \o list \in Seq(Entry) /\ <<e>> \o list # <<>>
        /\ ToSet(<<e>> \o list) = ToSet(list) \cup {e}
        /\ IsInjective(<<e>> \o list)
    BY ONLY <2>1, <2>2, e \in Entry, ConsMembers
  <2>4. new = [bucket EXCEPT ![i].list = <<e>> \o @]
    BY <1>3 DEF AddAt
  <2>5. /\ DOMAIN new = DOMAIN bucket
        /\ \A j \in DOMAIN bucket : j # i => new[j] = bucket[j]
        /\ new[i] = [bucket[i] EXCEPT !.list = <<e>> \o list]
    BY <2>1, <2>4
  <2>6. /\ new[i] \in NodeOf(K) /\ new[i].key = key[e] /\ new[i].list = <<e>> \o list
    BY <1>0, <2>1, <2>3, <2>5 DEF NodeOf
  <2>7. new \in Seq(NodeOf(K))
    BY <1>0, <2>4, <2>5, <2>6
  <2> HIDE DEF new, list
  <2>8. \A j \in DOMAIN new : new[j].key = bucket[j].key
    BY <2>1, <2>5, <2>6
  <2>9. \A j \in DOMAIN new :
           /\ new[j].list # <<>> /\ IsInjective(new[j].list)
           /\ ToSet(new[j].list) \subseteq es \cup {e}
           /\ \A d \in ToSet(new[j].list) : key[d] = new[j].key
    <3>1. SUFFICES ASSUME NEW j \in DOMAIN new
                   PROVE  /\ new[j].list # <<>> /\ IsInjective(new[j].list)
                          /\ ToSet(new[j].list) \subseteq es \cup {e}
                          /\ \A d \in ToSet(new[j].list) : key[d] = new[j].key
      OBVIOUS
    <3>2. CASE j = i
      BY <1>0, <2>1, <2>3, <2>6, <3>2 DEF list
    <3>3. CASE j # i
      BY <1>0, <2>5, <3>3
    <3>4. QED
      BY <3>2, <3>3
  <2>10. ASSUME NEW d \in es \cup {e}
         PROVE  \E j \in DOMAIN new : d \in ToSet(new[j].list)
    <3>1. CASE d = e
      BY <2>1, <2>3, <2>5, <2>6, <3>1
    <3>2. CASE d # e
      <4>1. PICK j \in DOMAIN bucket : d \in ToSet(bucket[j].list)
        BY <1>0, <3>2
      <4>2. d \in ToSet(new[j].list)
        BY <2>3, <2>5, <2>6, <4>1 DEF list
      <4>3. QED
        BY <2>5, <4>1, <4>2
    <3>3. QED
      BY <3>1, <3>2
  <2>11. \A j, k \in DOMAIN new : new[j].key = new[k].key => j = k
    BY <1>1, <2>5, <2>8
  <2>12. BucketHolds(new, key, es \cup {e})
    BY ONLY <2>9, <2>10, <2>11, BucketHoldsIf
  <2>13. QED
    BY <2>7, <2>12 DEF new
<1>4. QED
  BY <1>2, <1>3

\* Without takes entries away from a bucket, and no node is left empty.
LEMMA WithoutHolds ==
    ASSUME NEW K, NEW bucket \in Seq(NodeOf(K)), NEW key \in [Entry -> K],
           NEW es, BucketHolds(bucket, key, es), NEW gone
    PROVE  /\ Without(bucket, gone) \in Seq(NodeOf(K))
           /\ BucketHolds(Without(bucket, gone), key, es \ gone)
<1> DEFINE less == [i \in DOMAIN bucket |-> [bucket[i] EXCEPT !.list = Minus(@, gone)]]
           kept == {i \in DOMAIN less : less[i].list # <<>>}
           new == Picked(less, kept)
<1>0. /\ DOMAIN bucket = 1..Len(bucket) /\ Len(bucket) \in Nat
      /\ \A j \in DOMAIN bucket :
            /\ bucket[j] \in NodeOf(K)
            /\ bucket[j].list \in Seq(Entry) /\ bucket[j].list # <<>>
            /\ IsInjective(bucket[j].list) /\ ToSet(bucket[j].list) \subseteq es
            /\ \A d \in ToSet(bucket[j].list) : key[d] = bucket[j].key
      /\ \A d \in es : \E j \in DOMAIN bucket : d \in ToSet(bucket[j].list)
  BY BucketFacts
<1>1. \A j, k \in DOMAIN bucket : bucket[j].key = bucket[k].key => j = k
  BY DEF BucketHolds
<1>2. Without(bucket, gone) = new
  BY DEF Without
<1>3. DOMAIN less = DOMAIN bucket
  OBVIOUS
<1>4. ASSUME NEW j \in DOMAIN bucket
      PROVE  /\ less[j] \in NodeOf(K) /\ less[j].key = bucket[j].key
             /\ ToSet(less[j].list) = ToSet(bucket[j].list) \ gone
             /\ IsInjective(less[j].list)
  <2>1. /\ Minus(bucket[j].list, gone) \in Seq(Entry)
        /\ ToSet(Minus(bucket[j].list, gone)) = ToSet(bucket[j].list) \ gone
        /\ IsInjective(Minus(bucket[j].list, gone))
    BY <1>0, MinusProperties
  <2>2. less[j] = [bucket[j] EXCEPT !.list = Minus(bucket[j].list, gone)]
    OBVIOUS
  <2>3. bucket[j] \in NodeOf(K)
    BY <1>0
  <2> HIDE DEF less
  <2>4. /\ less[j] \in NodeOf(K) /\ less[j].key = bucket[j].key
        /\ less[j].list = Minus(bucket[j].list, gone)
    BY <2>1, <2>2, <2>3 DEF NodeOf
  <2>5. QED
    BY <2>1, <2>4
<1>5. less \in Seq(NodeOf(K))
  <2> HIDE DEF less
  <2>1. less \in [1..Len(bucket) -> NodeOf(K)]
    <3>1. less = [i \in 1..Len(bucket) |-> less[i]]
      BY <1>0 DEF less
    <3>2. QED
      BY <1>0, <1>4, <3>1
  <2>2. QED
    BY <1>0, <2>1
<1> HIDE DEF less
<1>6. kept \in SUBSET DOMAIN less
  OBVIOUS
<1> HIDE DEF kept
<1>7. /\ new \in Seq(NodeOf(K))
      /\ ToSet(new) = {less[i] : i \in kept}
      /\ \A k, l \in DOMAIN new : k # l =>
            \E i, j \in kept : i # j /\ new[k] = less[i] /\ new[l] = less[j]
  BY ONLY <1>5, <1>6, PickedMembers
<1> HIDE DEF new
<1>8. \A i \in kept : i \in DOMAIN bucket /\ less[i].list # <<>>
  BY <1>3 DEF kept
<1>9. ASSUME NEW k \in DOMAIN new
      PROVE  \E i \in kept : new[k] = less[i]
  BY <1>7 DEF ToSet
<1>10. \A k \in DOMAIN new :
          /\ new[k].list # <<>> /\ IsInjective(new[k].list)
          /\ ToSet(new[k].list) \subseteq es \ gone
          /\ \A d \in ToSet(new[k].list) : key[d] = new[k].key
  <2>1. SUFFICES ASSUME NEW k \in DOMAIN new
                 PROVE  /\ new[k].list # <<>> /\ IsInjective(new[k].list)
                        /\ ToSet(new[k].list) \subseteq es \ gone
                        /\ \A d \in ToSet(new[k].list) : key[d] = new[k].key
    OBVIOUS
  <2>2. PICK i \in kept : new[k] = less[i]
    BY <1>9
  <2>3. i \in DOMAIN bucket /\ less[i].list # <<>>
    BY <1>8
  <2>4. QED
    BY <1>0, <1>4, <2>2, <2>3
<1>11. ASSUME NEW d \in es \ gone
       PROVE  \E k \in DOMAIN new : d \in ToSet(new[k].list)
  <2>1. PICK i \in DOMAIN bucket : d \in ToSet(bucket[i].list)
    BY <1>0
  <2>2. d \in ToSet(less[i].list)
    BY <1>4, <2>1
  <2>3. less[i].list # <<>>
    BY <2>2 DEF ToSet
  <2>4. less[i] \in ToSet(new)
    BY <1>3, <1>7, <2>3 DEF kept
  <2>5. PICK k \in DOMAIN new : new[k] = less[i]
    BY <2>4 DEF ToSet
  <2>6. QED
    BY <2>2, <2>5
<1>12. ASSUME NEW k \in DOMAIN new, NEW l \in DOMAIN new, new[k].key = new[l].key
       PROVE  k = l
  <2>1. SUFFICES ASSUME k # l
                 PROVE  FALSE
    OBVIOUS
  <2>2. PICK i \in kept, j \in kept : i # j /\ new[k] = less[i] /\ new[l] = less[j]
    BY <1>7, <2>1
  <2>3. bucket[i].key = bucket[j].key /\ i \in DOMAIN bucket /\ j \in DOMAIN bucket
    BY <1>4, <1>8, <1>12, <2>2
  <2>4. QED
    BY <1>1, <2>2, <2>3
<1>13. BucketHolds(new, key, es \ gone)
  BY ONLY <1>10, <1>11, <1>12, BucketHoldsIf
<1>14. QED
  BY <1>2, <1>7, <1>13

-----------------------------------------------------------------------------
(* One table *)

\* The keys of an entry, and the buckets they have.
LEMMA KeyTypes ==
    /\ IsKey(NameOf, Name) /\ \A e \in Entry : NameOf[e] = e.name
    /\ IsKey(Md5Of, Md5) /\ \A e \in Entry : Md5Of[e] = e.md5
    /\ IsKey(IpOf, Ip) /\ \A e \in Entry : IpOf[e] = e.peer[1]
    /\ \A n \in Name : FileHash[n] \in Range(FileHash)
    /\ \A m \in Md5 : Md5Hash[m] \in Range(Md5Hash)
    /\ \A ip \in Ip : IpHash[ip] \in Range(IpHash)
<1>1. \A e \in Entry : e.name \in Name /\ e.md5 \in Md5 /\ e.peer \in Peer
  BY DEF Entry
<1>2. \A e \in Entry : e.peer[1] \in Ip
  BY <1>1 DEF Ip
<1>3. /\ IsKey(NameOf, Name) /\ \A e \in Entry : NameOf[e] = e.name
      /\ IsKey(Md5Of, Md5) /\ \A e \in Entry : Md5Of[e] = e.md5
      /\ IsKey(IpOf, Ip) /\ \A e \in Entry : IpOf[e] = e.peer[1]
  BY <1>1, <1>2 DEF NameOf, Md5Of, IpOf, IsKey
<1>4. /\ \A n \in Name : FileHash[n] \in Range(FileHash)
      /\ \A m \in Md5 : Md5Hash[m] \in Range(Md5Hash)
      /\ \A ip \in Ip : IpHash[ip] \in Range(IpHash)
  BY FileIndexAssumption DEF Range
<1>5. QED
  BY <1>3, <1>4

\* The files that the lookups find in the table by name are those it holds.
LEMMA FilesAreHeld ==
    ASSUME NEW table, IsTable(table, Range(FileHash), Name),
           NEW es, es \subseteq Entry, Holds(table, NameOf, FileHash, es)
    PROVE  UNION {ToSet(node.list) : node \in Nodes(table)} = es
<1> DEFINE Bucket(b) == {e \in es : FileHash[NameOf[e]] = b}
<1>1. ASSUME NEW b \in DOMAIN table
      PROVE  Bucket(b) = UNION {ToSet(node.list) : node \in ToSet(table[b])}
  BY DEF Holds, BucketHolds
<1>2. ASSUME NEW e \in es
      PROVE  \E node \in Nodes(table) : e \in ToSet(node.list)
  <2>1. FileHash[NameOf[e]] \in DOMAIN table
    BY KeyTypes DEF IsTable, IsKey
  <2>2. e \in Bucket(FileHash[NameOf[e]])
    OBVIOUS
  <2>3. PICK node \in ToSet(table[FileHash[NameOf[e]]]) : e \in ToSet(node.list)
    BY <1>1, <2>1, <2>2
  <2>4. QED
    BY <2>1, <2>3 DEF Nodes
<1>3. ASSUME NEW node \in Nodes(table)
      PROVE  ToSet(node.list) \subseteq es
  <2>1. PICK b \in DOMAIN table : node \in ToSet(table[b])
    BY DEF Nodes
  <2>2. ToSet(node.list) \subseteq Bucket(b)
    BY <1>1, <2>1
  <2>3. QED
    BY <2>2
<1>4. QED
  BY <1>2, <1>3

\* A table with a new entry.
LEMMA TableWithEntry ==
    ASSUME NEW K, NEW B, NEW table, IsTable(table, B, K), NEW key, IsKey(key, K),
           NEW hash, NEW es, es \subseteq Entry, Holds(table, key, hash, es),
           NEW e, e \in Entry, e \notin es, NEW b, b \in B, b = hash[key[e]],
           NEW i, IsPlaceOf(i, table[b], key[e]),
           NEW new, new = [table EXCEPT ![b] = AddAt(@, i, key[e], e)]
    PROVE  IsTable(new, B, K) /\ Holds(new, key, hash, es \cup {e})
<1> DEFINE Old(c) == {d \in es : hash[key[d]] = c}
           New(c) == {d \in es \cup {e} : hash[key[d]] = c}
<1>0. table \in [B -> Seq(NodeOf(K))] /\ key \in [Entry -> K]
  BY DEF IsTable, IsKey
<1>1. table[b] \in Seq(NodeOf(K)) /\ BucketHolds(table[b], key, Old(b))
  BY <1>0 DEF Holds
<1>2. /\ AddAt(table[b], i, key[e], e) \in Seq(NodeOf(K))
      /\ BucketHolds(AddAt(table[b], i, key[e], e), key, Old(b) \cup {e})
  <2>1. Old(b) \in SUBSET Entry /\ e \notin Old(b)
    OBVIOUS
  <2> HIDE DEF Old
  <2>2. QED
    BY <1>0, <1>1, <2>1, AddAtHolds
<1>3. Old(b) \cup {e} = New(b)
  OBVIOUS
<1>4. \A c \in B : c # b => Old(c) = New(c)
  OBVIOUS
<1>5. new[b] = AddAt(table[b], i, key[e], e) /\ \A c \in B : c # b => new[c] = table[c]
  BY <1>0
<1>6. new \in [B -> Seq(NodeOf(K))]
  BY <1>0, <1>2
<1>7. \A c \in B : BucketHolds(table[c], key, Old(c))
  BY <1>0 DEF Holds
<1> HIDE DEF Old
<1>8. \A c \in B : BucketHolds(new[c], key, New(c))
  <2> HIDE DEF New
  <2>1. QED
    BY <1>2, <1>3, <1>4, <1>5, <1>7
<1>9. Holds(new, key, hash, es \cup {e})
  BY <1>6, <1>8 DEF Holds
<1>10. QED
  BY <1>6, <1>9 DEF IsTable

\* A table without some entries.
LEMMA TableWithout ==
    ASSUME NEW K, NEW B, NEW table, IsTable(table, B, K), NEW key, IsKey(key, K),
           NEW hash, NEW es, Holds(table, key, hash, es), NEW gone,
           NEW new, new = [b \in DOMAIN table |-> Without(table[b], gone)]
    PROVE  IsTable(new, B, K) /\ Holds(new, key, hash, es \ gone)
<1> DEFINE Old(b) == {d \in es : hash[key[d]] = b}
           New(b) == {d \in es \ gone : hash[key[d]] = b}
<1>0. table \in [B -> Seq(NodeOf(K))] /\ key \in [Entry -> K]
  BY DEF IsTable, IsKey
<1>1. ASSUME NEW b \in B
      PROVE  /\ Without(table[b], gone) \in Seq(NodeOf(K))
             /\ BucketHolds(Without(table[b], gone), key, New(b))
  <2>1. table[b] \in Seq(NodeOf(K)) /\ BucketHolds(table[b], key, Old(b))
    BY <1>0 DEF Holds
  <2>2. Old(b) \ gone = New(b)
    OBVIOUS
  <2> HIDE DEF Old, New
  <2>3. /\ Without(table[b], gone) \in Seq(NodeOf(K))
        /\ BucketHolds(Without(table[b], gone), key, Old(b) \ gone)
    BY <1>0, <2>1, WithoutHolds
  <2>4. QED
    BY <2>2, <2>3
<1>2. new \in [B -> Seq(NodeOf(K))]
  BY <1>0, <1>1
<1>3. Holds(new, key, hash, es \ gone)
  BY <1>0, <1>1 DEF Holds
<1>4. QED
  BY <1>2, <1>3 DEF IsTable

\* insert_ip_node and insert_md5_node find the node of the key or none.
LEMMA AddNodeFinds ==
    ASSUME NEW K, NEW bucket \in Seq(NodeOf(K)), NEW k, NEW e
    PROVE  \E i : IsPlaceOf(i, bucket, k) /\ AddNode(bucket, k, e) = AddAt(bucket, i, k, e)
<1> DEFINE I == {i \in 1..Len(bucket) : bucket[i].key = k}
           i == IF I # {} THEN Min(I) ELSE 0
<1>1. AddNode(bucket, k, e) = AddAt(bucket, i, k, e)
  BY DEF AddNode, Find, SelectInSeq
<1>2. I # {} => i \in I
  <2>1. I \in SUBSET Nat
    OBVIOUS
  <2> HIDE DEF I
  <2>2. QED
    BY <2>1, MinProperties
<1>3. I = {} => i = 0 /\ \A j \in DOMAIN bucket : bucket[j].key # k
  OBVIOUS
<1> HIDE DEF i
<1>4. I # {} => i \in 1..Len(bucket) /\ bucket[i].key = k
  BY <1>2
<1>5. i \in 0..Len(bucket)
  BY <1>3, <1>4
<1>6. IsPlaceOf(i, bucket, k)
  BY <1>3, <1>4, <1>5 DEF IsPlaceOf
<1>7. QED
  BY <1>1, <1>6

\* The list at an address, if the table by address holds es.
LEMMA FilesAtAddress ==
    ASSUME IsTable(hash_ip, Range(IpHash), Ip), NEW es, es \subseteq Entry,
           Holds(hash_ip, IpOf, IpHash, es), NEW ip, ip \in Ip
    PROVE  /\ FilesAt(ip) \in Seq(Entry)
           /\ IsInjective(FilesAt(ip))
           /\ ToSet(FilesAt(ip)) = {e \in es : e.peer[1] = ip}
<1> DEFINE bucket == hash_ip[IpHash[ip]]
           here == {e \in es : IpHash[IpOf[e]] = IpHash[ip]}
           I == {i \in 1..Len(bucket) : bucket[i].key = ip}
           i == IF I # {} THEN Min(I) ELSE 0
<1>0. IpHash[ip] \in Range(IpHash)
  BY KeyTypes
<1>1. bucket \in Seq(NodeOf(Ip)) /\ BucketHolds(bucket, IpOf, here)
  BY <1>0 DEF Holds, IsTable
<1>2. FilesAt(ip) = IF i = 0 THEN <<>> ELSE bucket[i].list
  BY DEF FilesAt, Find, SelectInSeq
<1>3. I # {} => i \in I
  <2>1. I \in SUBSET Nat
    OBVIOUS
  <2> HIDE DEF I
  <2>2. QED
    BY <2>1, MinProperties
<1>4. \A e \in es : IpOf[e] = e.peer[1]
  BY KeyTypes
<1> HIDE DEF bucket
<1>5. /\ DOMAIN bucket = 1..Len(bucket)
      /\ \A j \in DOMAIN bucket :
            /\ bucket[j].list \in Seq(Entry)
            /\ IsInjective(bucket[j].list) /\ ToSet(bucket[j].list) \subseteq here
            /\ \A e \in ToSet(bucket[j].list) : IpOf[e] = bucket[j].key
      /\ \A e \in here : \E j \in DOMAIN bucket : e \in ToSet(bucket[j].list)
  <2> HIDE DEF here
  <2>1. QED
    BY <1>1, BucketFacts
<1>6. \A j, k \in DOMAIN bucket : bucket[j].key = bucket[k].key => j = k
  BY <1>1 DEF BucketHolds
<1>7. ASSUME NEW e \in es, e.peer[1] = ip
      PROVE  \E j \in I : e \in ToSet(bucket[j].list)
  <2>1. e \in here
    BY <1>4, <1>7
  <2>2. PICK j \in DOMAIN bucket : e \in ToSet(bucket[j].list)
    BY <1>5, <2>1
  <2>3. bucket[j].key = ip
    BY <1>4, <1>5, <1>7, <2>2
  <2>4. QED
    BY <1>5, <2>2, <2>3
<1>8. CASE I = {}
  <2>1. FilesAt(ip) = <<>>
    BY <1>2, <1>8
  <2>2. {e \in es : e.peer[1] = ip} = {}
    BY <1>7, <1>8
  <2>3. <<>> \in Seq(Entry) /\ ToSet(<<>>) = {} /\ IsInjective(<<>>)
    BY DEF ToSet, IsInjective
  <2>4. QED
    BY <2>1, <2>2, <2>3
<1>9. CASE I # {}
  <2>1. i \in DOMAIN bucket /\ bucket[i].key = ip /\ i # 0
    BY <1>3, <1>5, <1>9
  <2>2. FilesAt(ip) = bucket[i].list
    BY <1>2, <2>1
  <2> HIDE DEF i
  <2>3. ASSUME NEW e \in es, e.peer[1] = ip
        PROVE  e \in ToSet(bucket[i].list)
    <3>1. PICK j \in I : e \in ToSet(bucket[j].list)
      BY <1>7, <2>3
    <3>2. j \in DOMAIN bucket /\ bucket[j].key = ip
      BY <1>5
    <3>3. j = i
      BY <1>6, <2>1, <3>2
    <3>4. QED
      BY <3>1, <3>3
  <2>4. ASSUME NEW e \in ToSet(bucket[i].list)
        PROVE  e \in es /\ e.peer[1] = ip
    BY <1>4, <1>5, <2>1
  <2>5. ToSet(bucket[i].list) = {e \in es : e.peer[1] = ip}
    BY <2>3, <2>4
  <2>6. QED
    BY <1>5, <2>1, <2>2, <2>5
<1>10. QED
  BY <1>8, <1>9

-----------------------------------------------------------------------------
(* The steps *)

\* What the invariant says of the files.
LEMMA IndexFacts ==
    ASSUME IInv
    PROVE  /\ Files \subseteq Entry /\ TablesTyped
           /\ Holds(hash_file, NameOf, FileHash, Files)
           /\ Holds(hash_md5, Md5Of, Md5Hash, Files)
           /\ Holds(hash_ip, IpOf, IpHash, Files)
  BY DEF IInv, TypeOK, TablesAgree

\* insert_file enters one new file in all tables: the node found by prefix
\* gives it its name, and so its bucket.
LEMMA InsertFileEnters ==
    ASSUME IInv, NEW n \in Name, NEW m \in Md5, NEW p \in Peer, InsertFile(n, m, p)
    PROVE  /\ \E e \in Entry :
                 e \notin Files /\ Files' = Files \cup {e} /\ e.peer = p
           /\ TablesTyped' /\ TablesAgree'
<1> DEFINE b == FileHash[n]
           bucket == hash_file[b]
           I == {i \in 1..Len(bucket) : <<n, bucket[i].key>> \in Prefix}
           i == IF I # {} THEN Min(I) ELSE 0
           name == IF i = 0 THEN n ELSE bucket[i].key
           e == [name |-> name, md5 |-> m, peer |-> p]
<1>0. /\ Files \subseteq Entry /\ TablesTyped
      /\ Holds(hash_file, NameOf, FileHash, Files)
      /\ Holds(hash_md5, Md5Of, Md5Hash, Files)
      /\ Holds(hash_ip, IpOf, IpHash, Files)
  BY IndexFacts
<1>1. /\ e \notin Files
      /\ hash_file' = [hash_file EXCEPT ![b] = AddAt(@, i, n, e)]
      /\ hash_ip' = [hash_ip EXCEPT ![IpHash[p[1]]] = AddNode(@, p[1], e)]
      /\ hash_md5' = [hash_md5 EXCEPT ![Md5Hash[m]] = AddNode(@, m, e)]
  BY DEF InsertFile, Find, SelectInSeq
<1>2. b \in Range(FileHash) /\ bucket \in Seq(NodeOf(Name))
  BY <1>0, KeyTypes DEF TablesTyped, IsTable
<1>3. I # {} => i \in I
  <2>1. I \in SUBSET Nat
    OBVIOUS
  <2> HIDE DEF I
  <2>2. QED
    BY <2>1, MinProperties
<1>4. \A j \in DOMAIN bucket : bucket[j].key \in Name /\ FileHash[bucket[j].key] = b
  <2> DEFINE here == {d \in Files : FileHash[NameOf[d]] = b}
  <2>1. BucketHolds(bucket, NameOf, here)
    BY <1>0, <1>2 DEF Holds, TablesTyped, IsTable
  <2> HIDE DEF bucket, here
  <2>2. SUFFICES ASSUME NEW j \in DOMAIN bucket
                 PROVE  bucket[j].key \in Name /\ FileHash[bucket[j].key] = b
    OBVIOUS
  <2>3. /\ bucket[j] \in NodeOf(Name) /\ bucket[j].list \in Seq(Entry)
        /\ bucket[j].list # <<>>
        /\ ToSet(bucket[j].list) \subseteq here
        /\ \A d \in ToSet(bucket[j].list) : NameOf[d] = bucket[j].key
    BY <1>2, <2>1, BucketFacts
  <2>4. bucket[j].list[1] \in ToSet(bucket[j].list)
    BY <2>3 DEF ToSet
  <2>5. QED
    BY <2>3, <2>4 DEF NodeOf, here
<1>5. \A j \in DOMAIN bucket : <<n, bucket[j].key>> \notin Prefix => bucket[j].key # n
  BY FileIndexAssumption
<1>6. /\ IsPlaceOf(i, bucket, name) /\ name \in Name /\ FileHash[name] = b
      /\ (i = 0 => name = n)
  <2>1. CASE I = {}
    <3>1. i = 0 /\ name = n
      BY <2>1
    <3>2. \A j \in DOMAIN bucket : bucket[j].key # n
      <4>1. DOMAIN bucket = 1..Len(bucket)
        BY <1>2
      <4>2. \A j \in DOMAIN bucket : <<n, bucket[j].key>> \notin Prefix
        BY <2>1, <4>1
      <4>3. QED
        BY <1>5, <4>2
    <3> HIDE DEF i, name
    <3>3. QED
      BY <1>2, <3>1, <3>2 DEF IsPlaceOf
  <2>2. CASE I # {}
    <3>1. i \in 1..Len(bucket) /\ i \in DOMAIN bucket
      BY <1>2, <1>3, <2>2
    <3> HIDE DEF i
    <3>2. name = bucket[i].key /\ i # 0
      BY <3>1
    <3> HIDE DEF name
    <3>3. QED
      BY <1>2, <1>4, <3>1, <3>2 DEF IsPlaceOf
  <2>3. QED
    BY <2>1, <2>2
<1> HIDE DEF i, name
<1>7. /\ e \in Entry /\ NameOf[e] = name /\ Md5Of[e] = m /\ IpOf[e] = p[1] /\ e.peer = p
      /\ p[1] \in Ip
  <2>1. e \in Entry
    BY <1>6 DEF Entry
  <2>2. QED
    BY <2>1, KeyTypes DEF Ip
<1> HIDE DEF e
<1>8. AddAt(bucket, i, n, e) = AddAt(bucket, i, name, e)
  BY <1>2, <1>6 DEF AddAt
<1>9. /\ IsTable(hash_file', Range(FileHash), Name)
      /\ Holds(hash_file', NameOf, FileHash, Files \cup {e})
  <2>1. hash_file' = [hash_file EXCEPT ![b] = AddAt(@, i, NameOf[e], e)]
    BY <1>1, <1>7, <1>8
  <2>2. /\ IsTable(hash_file, Range(FileHash), Name) /\ IsKey(NameOf, Name)
        /\ b \in Range(FileHash) /\ b = FileHash[NameOf[e]]
        /\ IsPlaceOf(i, hash_file[b], NameOf[e])
    BY <1>0, <1>2, <1>6, <1>7, KeyTypes DEF TablesTyped
  <2>3. /\ Files \subseteq Entry /\ Holds(hash_file, NameOf, FileHash, Files)
        /\ e \in Entry /\ e \notin Files
    BY <1>0, <1>1, <1>7
  <2> HIDE DEF b
  <2>4. QED
    BY ONLY <2>1, <2>2, <2>3, TableWithEntry, ZenonT(60)
<1>10. /\ IsTable(hash_md5', Range(Md5Hash), Md5)
       /\ Holds(hash_md5', Md5Of, Md5Hash, Files \cup {e})
  <2> DEFINE c == Md5Hash[m]
  <2>1. c \in Range(Md5Hash) /\ hash_md5[c] \in Seq(NodeOf(Md5))
    BY <1>0, KeyTypes DEF TablesTyped, IsTable
  <2>2. PICK j : /\ IsPlaceOf(j, hash_md5[c], m)
                 /\ AddNode(hash_md5[c], m, e) = AddAt(hash_md5[c], j, m, e)
    BY <2>1, AddNodeFinds
  <2>3. hash_md5' = [hash_md5 EXCEPT ![c] = AddAt(@, j, Md5Of[e], e)]
    BY <1>1, <1>7, <2>1, <2>2
  <2>4. /\ IsTable(hash_md5, Range(Md5Hash), Md5) /\ IsKey(Md5Of, Md5)
        /\ c = Md5Hash[Md5Of[e]] /\ IsPlaceOf(j, hash_md5[c], Md5Of[e])
    BY <1>0, <1>7, <2>2, KeyTypes DEF TablesTyped
  <2>5. /\ Files \subseteq Entry /\ Holds(hash_md5, Md5Of, Md5Hash, Files)
        /\ e \in Entry /\ e \notin Files
    BY <1>0, <1>1, <1>7
  <2> HIDE DEF c
  <2>6. QED
    BY ONLY <2>1, <2>3, <2>4, <2>5, TableWithEntry, Zenon
<1>11. /\ IsTable(hash_ip', Range(IpHash), Ip)
       /\ Holds(hash_ip', IpOf, IpHash, Files \cup {e})
  <2> DEFINE ip == p[1]
             c == IpHash[ip]
  <2>1. c \in Range(IpHash) /\ hash_ip[c] \in Seq(NodeOf(Ip))
    BY <1>0, <1>7, KeyTypes DEF TablesTyped, IsTable
  <2>2. PICK j : /\ IsPlaceOf(j, hash_ip[c], ip)
                 /\ AddNode(hash_ip[c], ip, e) = AddAt(hash_ip[c], j, ip, e)
    <3> HIDE DEF c, ip
    <3>1. QED
      BY <2>1, AddNodeFinds
  <2>3. hash_ip' = [hash_ip EXCEPT ![c] = AddAt(@, j, IpOf[e], e)]
    BY <1>1, <1>7, <2>1, <2>2
  <2>4. /\ IsTable(hash_ip, Range(IpHash), Ip) /\ IsKey(IpOf, Ip)
        /\ c = IpHash[IpOf[e]] /\ IsPlaceOf(j, hash_ip[c], IpOf[e])
    BY <1>0, <1>7, <2>2, KeyTypes DEF TablesTyped
  <2>5. /\ Files \subseteq Entry /\ Holds(hash_ip, IpOf, IpHash, Files)
        /\ e \in Entry /\ e \notin Files
    BY <1>0, <1>1, <1>7
  <2> HIDE DEF c, ip
  <2>6. QED
    BY ONLY <2>1, <2>3, <2>4, <2>5, TableWithEntry, Zenon
<1>12. Files' = Files \cup {e}
  <2>1. Files \cup {e} \subseteq Entry
    BY <1>0, <1>7
  <2>2. UNION {ToSet(node.list) : node \in Nodes(hash_file')} = Files \cup {e}
    BY <1>9, <2>1, FilesAreHeld
  <2>3. QED
    BY <2>2 DEF Files, Nodes
<1>13. TablesTyped' /\ TablesAgree'
  <2>1. TablesTyped'
    BY <1>9, <1>10, <1>11 DEF TablesTyped, IsTable, NodeOf, Entry
  <2>2. TablesAgree'
    BY <1>9, <1>10, <1>11, <1>12 DEF TablesAgree, Holds, NameOf, Md5Of, IpOf
  <2>3. QED
    BY <2>1, <2>2
<1>14. QED
  BY <1>1, <1>7, <1>12, <1>13

\* Entries are removed from all tables at once.
LEMMA DropRemoves ==
    ASSUME IInv, NEW gone, Drop(gone)
    PROVE  Files' = Files \ gone /\ TablesTyped' /\ TablesAgree'
<1>0. /\ Files \subseteq Entry /\ TablesTyped
      /\ Holds(hash_file, NameOf, FileHash, Files)
      /\ Holds(hash_md5, Md5Of, Md5Hash, Files)
      /\ Holds(hash_ip, IpOf, IpHash, Files)
  BY IndexFacts
<1>1. /\ IsTable(hash_file', Range(FileHash), Name)
      /\ Holds(hash_file', NameOf, FileHash, Files \ gone)
  <2>1. /\ hash_file' = [k \in DOMAIN hash_file |-> Without(hash_file[k], gone)]
        /\ IsTable(hash_file, Range(FileHash), Name) /\ IsKey(NameOf, Name)
    BY <1>0, KeyTypes DEF Drop, TablesTyped
  <2>2. QED
    BY ONLY <1>0, <2>1, TableWithout
<1>2. /\ IsTable(hash_md5', Range(Md5Hash), Md5)
      /\ Holds(hash_md5', Md5Of, Md5Hash, Files \ gone)
  <2>1. /\ hash_md5' = [k \in DOMAIN hash_md5 |-> Without(hash_md5[k], gone)]
        /\ IsTable(hash_md5, Range(Md5Hash), Md5) /\ IsKey(Md5Of, Md5)
    BY <1>0, KeyTypes DEF Drop, TablesTyped
  <2>2. QED
    BY ONLY <1>0, <2>1, TableWithout
<1>3. /\ IsTable(hash_ip', Range(IpHash), Ip)
      /\ Holds(hash_ip', IpOf, IpHash, Files \ gone)
  <2>1. /\ hash_ip' = [k \in DOMAIN hash_ip |-> Without(hash_ip[k], gone)]
        /\ IsTable(hash_ip, Range(IpHash), Ip) /\ IsKey(IpOf, Ip)
    BY <1>0, KeyTypes DEF Drop, TablesTyped
  <2>2. QED
    BY ONLY <1>0, <2>1, TableWithout
<1>4. Files' = Files \ gone
  <2>0. Files \ gone \subseteq Entry
    BY <1>0
  <2>1. UNION {ToSet(node.list) : node \in Nodes(hash_file')} = Files \ gone
    BY ONLY <1>1, <2>0, FilesAreHeld
  <2>2. QED
    BY <2>1 DEF Files, Nodes
<1>5. TablesTyped'
  BY <1>1, <1>2, <1>3 DEF TablesTyped, IsTable, NodeOf, Entry
<1>6. TablesAgree'
  BY <1>1, <1>2, <1>3, <1>4 DEF TablesAgree, Holds, NameOf, Md5Of, IpOf
<1>7. QED
  BY <1>4, <1>5, <1>6

\* What the lookup by address finds.
LEMMA AddressFacts ==
    ASSUME IInv, NEW p \in Peer
    PROVE  /\ FilesAt(p[1]) \in Seq(Entry) /\ IsInjective(FilesAt(p[1]))
           /\ ToSet(FilesAt(p[1])) = {e \in Files : e.peer[1] = p[1]}
<1>1. /\ IsTable(hash_ip, Range(IpHash), Ip) /\ Files \subseteq Entry
      /\ Holds(hash_ip, IpOf, IpHash, Files)
  BY IndexFacts DEF TablesTyped
<1>2. p[1] \in Ip
  BY DEF Ip
<1>3. QED
  BY ONLY <1>1, <1>2, FilesAtAddress

\* The checker goes on to another entry at its address, or is done.
LEMMA AdvanceMoves ==
    ASSUME IInv, checker = "sweep", Advance
    PROVE  \E e \in Files :
              /\ cursor = <<e>>
              /\ \/ cursor' = <<>> /\ checker' = "idle"
                 \/ checker' = "sweep" /\ \E d \in Files : d # e /\ cursor' = <<d>>
<1> DEFINE e == cursor[1]
           list == FilesAt(e.peer[1])
           I == {i \in 1..Len(list) : list[i] = e}
           i == IF I # {} THEN Min(I) ELSE 0
<1>1. PICK d \in Files : cursor = <<d>>
  BY DEF IInv, TypeOK
<1>2. e \in Files /\ e \in Entry /\ e.peer \in Peer /\ cursor = <<e>>
  <2>1. d \in Entry
    BY IndexFacts
  <2>2. d.peer \in Peer
    BY <2>1 DEF Entry
  <2>3. QED
    BY <1>1, <2>1, <2>2
<1> HIDE DEF e
<1>3. /\ list \in Seq(Entry) /\ IsInjective(list)
      /\ ToSet(list) = {f \in Files : f.peer[1] = e.peer[1]}
  BY <1>2, AddressFacts
<1>4. /\ cursor' = SubSeq(list, i + 1, Min({i + 1, Len(list)}))
      /\ checker' = IF i < Len(list) THEN "sweep" ELSE "idle"
  BY DEF Advance, SelectInSeq, e
<1> HIDE DEF list
<1>5. i \in 1..Len(list) /\ list[i] = e
  <2>1. e \in ToSet(list)
    BY <1>2, <1>3
  <2>2. I \in SUBSET Nat /\ I # {}
    BY <1>3, <2>1 DEF ToSet
  <2> HIDE DEF I
  <2>3. i \in I
    BY <2>2, MinProperties
  <2>4. QED
    BY <2>3 DEF I
<1> HIDE DEF i
<1>6. /\ i + 1 <= Len(list) => Min({i + 1, Len(list)}) = i + 1
      /\ i = Len(list) => Min({i + 1, Len(list)}) = i
  <2> DEFINE m == Min({i + 1, Len(list)})
  <2>1. {i + 1, Len(list)} \in SUBSET Nat /\ Len(list) \in Nat
    BY <1>3, <1>5
  <2>2. m \in {i + 1, Len(list)} /\ \A j \in {i + 1, Len(list)} : m <= j
    BY <2>1, MinProperties
  <2> HIDE DEF m
  <2>3. (m = i + 1 \/ m = Len(list)) /\ m <= i + 1 /\ m <= Len(list)
    BY <2>2
  <2>4. (i + 1 <= Len(list) => m = i + 1) /\ (i = Len(list) => m = i)
    BY <1>5, <2>1, <2>3
  <2>5. QED
    BY <2>4 DEF m
<1>7. CASE i < Len(list)
  <2> DEFINE d2 == list[i + 1]
  <2>1. i + 1 \in DOMAIN list /\ i \in DOMAIN list
    BY <1>3, <1>5, <1>7
  <2>2. cursor' = <<d2>>
    <3>1. cursor' = SubSeq(list, i + 1, i + 1)
      BY <1>3, <1>4, <1>5, <1>6, <1>7
    <3>2. i + 1 \in 1..Len(list) /\ list \in Seq(Entry)
      BY <1>3, <2>1
    <3>3. SubSeq(list, i + 1, i + 1) = <<list[i + 1]>>
      <4> DEFINE one == SubSeq(list, i + 1, i + 1)
      <4>1. one \in Seq(Entry) /\ Len(one) = 1 /\ one[1] = list[i + 1]
        BY ONLY <3>2
      <4> HIDE DEF one
      <4>2. one = <<list[i + 1]>>
        BY ONLY <4>1
      <4>3. QED
        BY <4>2 DEF one
    <3>4. QED
      BY <3>1, <3>3
  <2>3. d2 \in ToSet(list)
    BY <2>1 DEF ToSet
  <2>4. d2 # e
    BY <1>3, <1>5, <2>1 DEF IsInjective
  <2>5. checker' = "sweep"
    BY <1>4, <1>7
  <2> HIDE DEF d2
  <2>6. QED
    BY <1>2, <1>3, <2>2, <2>3, <2>4, <2>5
<1>8. CASE i = Len(list)
  <2>1. cursor' = SubSeq(list, i + 1, i)
    BY <1>4, <1>6, <1>8
  <2>2. cursor' = <<>>
    BY <1>3, <1>5, <2>1
  <2>3. checker' = "idle"
    BY <1>3, <1>4, <1>8
  <2>4. QED
    BY <1>2, <2>2, <2>3
<1>9. QED
  BY <1>3, <1>5, <1>7, <1>8

-----------------------------------------------------------------------------
(* The invariant *)

\* What the main thread removes is gone from the tables; the checker that stood
\* on it is lost, one that stands on another file is not.
LEMMA MainRemovesKeeps ==
    ASSUME IInv, NEW p \in Peer, NEW es, MainRemoves(p, es)
    PROVE  IInv' /\ Files' = Files \ es /\ served' = p
<1>1. Files' = Files \ es /\ TablesTyped' /\ TablesAgree'
  BY DropRemoves DEF MainRemoves
<1>2. /\ Files \subseteq Entry /\ doomed \subseteq Files
      /\ checker \in {"idle", "sweep", "lost", "crashed"} /\ silent \in Peer
      /\ cursor \in {<<e>> : e \in Files} \cup {<<>>}
      /\ (checker = "sweep" <=> cursor # <<>>)
  BY DEF IInv, TypeOK
<1>3. /\ doomed' = doomed \ es /\ silent' = silent /\ served' = p
      /\ \/ ToSet(cursor) \cap es = {} /\ checker' = checker /\ cursor' = cursor
         \/ checker' = "lost" /\ cursor' = <<>>
  BY DEF MainRemoves
<1>4. /\ cursor' \in {<<e>> : e \in Files \ es} \cup {<<>>}
      /\ (checker' = "sweep" <=> cursor' # <<>>)
  <2>1. CASE ToSet(cursor) \cap es = {} /\ checker' = checker /\ cursor' = cursor
    <3>1. ASSUME NEW e \in Files, cursor = <<e>>
          PROVE  e \notin es
      <4>1. e \in ToSet(cursor)
        BY <3>1 DEF ToSet
      <4>2. QED
        BY <2>1, <4>1
    <3>2. QED
      BY <1>2, <2>1, <3>1
  <2>2. CASE checker' = "lost" /\ cursor' = <<>>
    BY <2>2
  <2>3. QED
    BY <1>3, <2>1, <2>2
<1>5. checker' \in {"idle", "sweep", "lost", "crashed"}
  BY <1>2, <1>3
<1>6. TypeOK'
  BY <1>1, <1>2, <1>3, <1>4, <1>5 DEF TypeOK, Entry
<1>7. QED
  BY <1>1, <1>3, <1>6 DEF IInv

\* What the main thread does for the message it reads keeps the invariant.
LEMMA ServeKeeps ==
    ASSUME IInv, Serve
    PROVE  IInv'
<1>1. ASSUME NEW p \in Peer, NEW n \in Name, NEW m \in Md5, InsertFile(n, m, p)
      PROVE  IInv'
  <2>1. PICK e \in Entry : e \notin Files /\ Files' = Files \cup {e}
    BY <1>1, InsertFileEnters
  <2>2. TablesTyped' /\ TablesAgree'
    BY <1>1, InsertFileEnters
  <2>3. UNCHANGED <<checker, silent, cursor, doomed>> /\ served' = p
    BY <1>1 DEF InsertFile
  <2>4. cursor' \in {<<d>> : d \in Files'} \cup {<<>>}
    BY <2>1, <2>3 DEF IInv, TypeOK
  <2>5. TypeOK'
    BY <2>1, <2>3, <2>4 DEF IInv, TypeOK, Entry
  <2>6. QED
    BY <2>2, <2>5 DEF IInv
<1>2. ASSUME NEW p \in Peer, NEW n \in Name, NEW m \in Md5, RemoveFile(n, m, p)
      PROVE  IInv'
  BY <1>2, MainRemovesKeeps DEF RemoveFile
<1>3. ASSUME NEW p \in Peer, RemoveAllFile(p)
      PROVE  IInv'
  BY <1>3, MainRemovesKeeps DEF RemoveAllFile
<1>4. QED
  BY <1>1, <1>2, <1>3 DEF Serve

\* The checker leaves an entry before it removes it.
LEMMA SweepFileMoves ==
    ASSUME IInv, SweepFile
    PROVE  /\ IInv'
           /\ \/ \E e \in Files : /\ Files' = Files \ {e}
                                   /\ served' = e.peer
              \/ UNCHANGED <<Files, served>>
<1>1. PICK e \in Files :
         /\ cursor = <<e>>
         /\ \/ cursor' = <<>> /\ checker' = "idle"
            \/ checker' = "sweep" /\ \E d \in Files : d # e /\ cursor' = <<d>>
  BY AdvanceMoves DEF SweepFile
<1>2. /\ Files \subseteq Entry /\ doomed \subseteq Files /\ silent \in Peer
      /\ served \in Peer /\ TablesTyped /\ TablesAgree
  BY DEF IInv, TypeOK
<1>3. silent' = silent
  BY DEF SweepFile
<1>4. ToSet(cursor) = {e}
  BY <1>1 DEF ToSet
<1>5. CASE e.peer = silent /\ CheckerRemoves
  <2>1. Files' = Files \ {e} /\ TablesTyped' /\ TablesAgree'
    BY <1>4, <1>5, DropRemoves DEF CheckerRemoves
  <2>2. doomed' \subseteq Files'
    BY <1>2, <1>4, <1>5, <2>1 DEF CheckerRemoves
  <2>3. /\ cursor' \in {<<d>> : d \in Files'} \cup {<<>>}
        /\ (checker' = "sweep" <=> cursor' # <<>>)
        /\ checker' \in {"idle", "sweep", "lost", "crashed"}
    BY <1>1, <2>1
  <2>4. served' = e.peer /\ served' \in Peer
    BY <1>2, <1>5 DEF CheckerRemoves
  <2>5. TypeOK'
    BY <1>2, <1>3, <2>1, <2>2, <2>3, <2>4 DEF TypeOK, Entry
  <2>6. QED
    BY <1>1, <2>1, <2>4, <2>5 DEF IInv
<1>6. CASE UNCHANGED <<tables, doomed, served>>
  <2>1. Files' = Files
    BY <1>6 DEF Files, Nodes, tables
  <2>2. TablesTyped' /\ TablesAgree'
    BY <1>2, <1>6, <2>1
       DEF tables, TablesTyped, IsTable, NodeOf, Entry, TablesAgree, Holds, NameOf, Md5Of, IpOf
  <2>3. /\ cursor' \in {<<d>> : d \in Files'} \cup {<<>>}
        /\ (checker' = "sweep" <=> cursor' # <<>>)
        /\ checker' \in {"idle", "sweep", "lost", "crashed"}
    BY <1>1, <2>1
  <2>4. TypeOK'
    BY <1>2, <1>3, <1>6, <2>1, <2>3 DEF TypeOK, Entry
  <2>5. QED
    BY <1>6, <2>1, <2>2, <2>4 DEF IInv
<1>7. QED
  <2>1. cursor[1] = e
    BY <1>1
  <2>2. QED
    BY <1>5, <1>6, <2>1 DEF SweepFile

\* Steps of the checker that leave the tables alone.
LEMMA CheckKeeps ==
    ASSUME IInv, Check
    PROVE  IInv'
<1>1. ASSUME NEW p \in Peer, StartRemoveAll(p)
      PROVE  IInv'
  <2>1. Files' = Files
    BY <1>1 DEF StartRemoveAll, Files, Nodes, tables
  <2>2. TablesTyped' /\ TablesAgree'
    BY <1>1, <2>1
       DEF StartRemoveAll, IInv, tables, TablesTyped, IsTable, NodeOf, Entry, TablesAgree,
           Holds, NameOf, Md5Of, IpOf
  <2>3. /\ FilesAt(p[1]) \in Seq(Entry) /\ FilesAt(p[1]) # <<>>
        /\ ToSet(FilesAt(p[1])) = {e \in Files : e.peer[1] = p[1]}
    BY <1>1, AddressFacts DEF StartRemoveAll
  <2>4. Head(FilesAt(p[1])) \in Files
    <3>1. 1 \in DOMAIN FilesAt(p[1]) /\ Head(FilesAt(p[1])) = FilesAt(p[1])[1]
      BY <2>3
    <3>2. Head(FilesAt(p[1])) \in ToSet(FilesAt(p[1]))
      BY <3>1 DEF ToSet
    <3>3. QED
      BY <2>3, <3>2
  <2>5. /\ checker' = "sweep" /\ silent' = p /\ served' = served
        /\ cursor' = <<Head(FilesAt(p[1]))>>
        /\ doomed' = {e \in ToSet(FilesAt(p[1])) : e.peer = p}
    BY <1>1 DEF StartRemoveAll
  <2>6. doomed' \subseteq Files
    BY <2>3, <2>5
  <2>7. cursor' # <<>>
    BY <2>5
  <2>8. TypeOK'
    BY <2>1, <2>4, <2>5, <2>6, <2>7 DEF IInv, TypeOK, Entry
  <2>9. QED
    BY <2>2, <2>8 DEF IInv
<1>2. CASE SweepFile
  BY <1>2, SweepFileMoves
<1>3. CASE FollowFreed
  <2>1. Files' = Files /\ UNCHANGED <<tables, silent, cursor, doomed, served>>
    BY <1>3 DEF FollowFreed, Files, Nodes, tables
  <2>2. TablesTyped' /\ TablesAgree'
    BY <2>1 DEF IInv, tables, TablesTyped, IsTable, NodeOf, Entry, TablesAgree, Holds,
                NameOf, Md5Of, IpOf
  <2>3. checker = "lost" /\ checker' = "crashed"
    BY <1>3 DEF FollowFreed
  <2>4. TypeOK'
    BY <2>1, <2>3 DEF IInv, TypeOK, Entry
  <2>5. QED
    BY <2>2, <2>4 DEF IInv
<1>4. QED
  BY <1>1, <1>2, <1>3 DEF Check

\* The empty tables.
LEMMA InitKeeps ==
    ASSUME Init
    PROVE  IInv /\ Files = {}
<1>1. /\ hash_file = [k \in Range(FileHash) |-> <<>>]
      /\ hash_md5 = [k \in Range(Md5Hash) |-> <<>>]
      /\ hash_ip = [k \in Range(IpHash) |-> <<>>]
  BY DEF Init
<1>2. TablesTyped
  BY <1>1 DEF TablesTyped, IsTable
<1>3. ToSet(<<>>) = {}
  BY DEF ToSet
<1>4. Files = {}
  BY <1>1, <1>3 DEF Files, Nodes
<1>5. \A key : BucketHolds(<<>>, key, {})
  BY <1>3 DEF BucketHolds
<1>6. ASSUME NEW B, NEW key, NEW hash
      PROVE  Holds([k \in B |-> <<>>], key, hash, {})
  BY <1>5 DEF Holds
<1>7. TablesAgree
  BY <1>1, <1>4, <1>6 DEF TablesAgree
<1>8. TypeOK
  <2>1. silent \in Peer /\ served \in Peer
    BY FileIndexAssumption DEF Init
  <2>2. QED
    BY <1>4, <2>1 DEF Init, TypeOK
<1>9. QED
  BY <1>2, <1>4, <1>7, <1>8 DEF IInv

LEMMA Invariance == Spec => []IInv
<1>1. Init => IInv
  BY InitKeeps
<1>2. IInv /\ [Next]_vars => IInv'
  <2> SUFFICES ASSUME IInv, [Next]_vars
               PROVE  IInv'
    OBVIOUS
  <2>1. CASE Serve
    BY <2>1, ServeKeeps
  <2>2. CASE Check
    BY <2>2, CheckKeeps
  <2>3. CASE UNCHANGED vars
    <3>1. Files' = Files /\ UNCHANGED <<tables, checker, silent, cursor, doomed, served>>
      BY <2>3 DEF vars, tables, Files, Nodes
    <3>2. TablesTyped' /\ TablesAgree'
      BY <3>1 DEF IInv, tables, TablesTyped, IsTable, NodeOf, Entry, TablesAgree, Holds,
                  NameOf, Md5Of, IpOf
    <3>3. TypeOK'
      BY <3>1 DEF IInv, TypeOK, Entry
    <3>4. QED
      BY <3>2, <3>3 DEF IInv
  <2>4. QED
    BY <2>1, <2>2, <2>3 DEF Next
<1>3. QED
  BY <1>1, <1>2, PTL DEF Spec

\* Every variable of the index keeps its type; the checker stands on a file that
\* is there, or has lost it.
THEOREM TypeCorrect == Spec => []TypeOK
<1>1. IInv => TypeOK
  BY DEF IInv
<1>2. QED
  BY <1>1, Invariance, PTL

\* insert_file, remove_file and remove_all_file, by both threads, keep the three
\* tables in agreement, whatever keys share a bucket and whatever names begin
\* with others.
THEOREM TablesStayEqual == Spec => []TablesAgree
<1>1. IInv => TablesAgree
  BY DEF IInv
<1>2. QED
  BY <1>1, Invariance, PTL

-----------------------------------------------------------------------------
(* The index implements a catalog *)

\* Each step publishes one file of the peer served, withdraws one, takes all it has,
\* or changes no file.
LEMMA CatalogStep ==
    ASSUME IInv, [Next]_vars
    PROVE  [Abstract!Next]_<<Files, served>>
<1> DEFINE Owner == [e \in Entry |-> e.peer]
<1>0. Files \subseteq Entry /\ \A e \in Entry : Owner[e] = e.peer
  BY IndexFacts
<1>1. ASSUME NEW p \in Peer, NEW n \in Name, NEW m \in Md5, InsertFile(n, m, p)
      PROVE  Abstract!Next
  <2>1. PICK e \in Entry : e \notin Files /\ Files' = Files \cup {e} /\ e.peer = p
    BY <1>1, InsertFileEnters
  <2>2. served' = Owner[e]
    BY <1>0, <1>1, <2>1 DEF InsertFile
  <2>3. QED
    BY <2>1, <2>2 DEF Abstract!Next, Abstract!Publish
<1>2. ASSUME NEW p \in Peer, NEW n \in Name, NEW m \in Md5, RemoveFile(n, m, p)
      PROVE  Abstract!Next
  <2> DEFINE list == FilesAt(p[1])
             I == {i \in 1..Len(list) :
                     <<n, list[i].name>> \in Prefix /\ list[i].peer = p /\ list[i].md5 = m}
             i == IF I # {} THEN Min(I) ELSE 0
  <2>1. i # 0 /\ MainRemoves(p, {list[i]})
    BY <1>2 DEF RemoveFile, SelectInSeq
  <2>2. list \in Seq(Entry) /\ ToSet(list) \subseteq Files
    BY AddressFacts
  <2> HIDE DEF list
  <2>3. i \in DOMAIN list /\ list[i].peer = p
    <3>1. I \in SUBSET Nat /\ I # {} /\ I \subseteq DOMAIN list
      BY <2>1, <2>2
    <3>2. \A k \in I : list[k].peer = p
      OBVIOUS
    <3> HIDE DEF I
    <3>3. i \in I
      BY <3>1, MinProperties
    <3>4. QED
      BY <3>1, <3>2, <3>3
  <2> HIDE DEF i
  <2>4. list[i] \in Files
    BY <2>2, <2>3 DEF ToSet
  <2>5. Files' = Files \ {list[i]} /\ served' = p
    BY <2>1, MainRemovesKeeps
  <2>6. served' = Owner[list[i]] /\ list[i] \in Entry
    BY <1>0, <2>3, <2>4, <2>5
  <2>7. QED
    BY <2>4, <2>5, <2>6 DEF Abstract!Next, Abstract!Withdraw
<1>3. ASSUME NEW p \in Peer, RemoveAllFile(p)
      PROVE  Abstract!Next
  <2> DEFINE es == {e \in ToSet(FilesAt(p[1])) : e.peer = p}
  <2>1. es # {} /\ MainRemoves(p, es)
    BY <1>3 DEF RemoveAllFile
  <2>2. es = {e \in Files : e.peer = p}
    BY AddressFacts
  <2>3. Files' = {e \in Files : e.peer # p} /\ served' = p
    BY <2>1, <2>2, MainRemovesKeeps
  <2>4. \A e \in Files : Owner[e] = e.peer
    BY <1>0
  <2>5. PICK e \in Files : Owner[e] = p
    BY <2>1, <2>2, <2>4
  <2>6. Files' = {d \in Files : Owner[d] # Owner[e]} /\ served' = Owner[e]
    BY <2>3, <2>4, <2>5
  <2>7. QED
    BY <2>6 DEF Abstract!Next, Abstract!Leave
<1>4. ASSUME NEW p \in Peer, StartRemoveAll(p)
      PROVE  UNCHANGED <<Files, served>>
  BY <1>4 DEF StartRemoveAll, Files, Nodes, tables
<1>5. CASE SweepFile
  <2>1. CASE UNCHANGED <<Files, served>>
    BY <2>1
  <2>2. ASSUME NEW e \in Files, Files' = Files \ {e}, served' = e.peer
        PROVE  Abstract!Next
    <3>1. e \in Entry /\ served' = Owner[e]
      BY <1>0, <2>2
    <3>2. QED
      BY <2>2, <3>1 DEF Abstract!Next, Abstract!Withdraw
  <2>3. QED
    BY <1>5, <2>1, <2>2, SweepFileMoves
<1>6. CASE FollowFreed
  BY <1>6 DEF FollowFreed, Files, Nodes, tables
<1>7. CASE UNCHANGED vars
  BY <1>7 DEF vars, Files, Nodes, tables
<1>8. QED
  BY <1>1, <1>2, <1>3, <1>4, <1>5, <1>6, <1>7 DEF Next, Serve, Check

\* The index keeps the promise of Catalog: it is a set of entries to which the peer
\* that is served adds one and from which one of its own goes, or all of them; what
\* another peer has is never touched, by the main thread or the checker.
THEOREM ImplementsCatalog == Spec => CatalogImplemented
<1>1. Init => Abstract!Init
  BY InitKeeps DEF Abstract!Init
<1>2. QED
  BY <1>1, CatalogStep, Invariance, PTL DEF Spec, Abstract!Spec, CatalogImplemented
=============================================================================
