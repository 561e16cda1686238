---------------------------- MODULE OverlayProofs ----------------------------
(***************************************************************************)
(* A superpeer's table of connections is exact whenever it waits in select *)
(* for any descriptors, addresses, limits and room of the array, as long   *)
(* as no node was taken by the pinger when its connection ended and the    *)
(* string of addresses was not overrun.  A query comes to all superpeers,  *)
(* in an overlay of any form.                                              *)
(***************************************************************************)
EXTENDS Overlay, Flood, ListLemmas, FiniteSetTheorems

Node == [fd : Fd, addr : Addr]
Places == {"select", "insert", "count", "walk", "delete", "freed", "blocked"}
Alive(f) == sock[f] \in {"up", "hung", "reset"}

\* The connections there are: those of the nodes, also the one whose node is not
\* inserted yet, without the one whose node is not deleted yet.
Live == CASE main.at = "insert" -> Fds \cup {main.fd}
          [] main.at = "delete" -> Fds \ {main.fd}
          [] OTHER -> Fds

\* The list, without two nodes of one descriptor, and the string.
ListOK ==
    /\ near \in Seq(Node)
    /\ \A i, j \in DOMAIN near : near[i].fd = near[j].fd => i = j
    /\ near_str \in Seq(Addr) /\ Len(near_str) = Len(near)
    /\ ToSet(near_str) = ToSet(Addrs(near))

\* The count.
CountOK ==
    /\ nsock = IF main.at = "count" THEN Len(near) - 1 ELSE Len(near)
    /\ Len(near) <= MaxTcpSock
    /\ main.at = "insert" => Len(near) < MaxTcpSock

\* The descriptors.
SockOK ==
    /\ sock \in [Fd -> {"none", "up", "hung", "reset", "lost"}]
    /\ \A f \in Live : Alive(f)
    /\ watched \subseteq Live
    /\ adds < Room => Live \subseteq watched

\* Where the main thread is in the list; the node it goes on at is in it.
MainOK ==
    /\ main \in [at : Places, fd : Fd \cup {Nobody}, addr : Addr \cup {Nobody},
                 ready : SUBSET Fd, next : Fd \cup {Nobody}]
    /\ main.at = "insert" => main.fd \in Fd \ Fds /\ main.addr \in Addr
    /\ main.at \in {"walk", "delete"} => main.fd \in Fds
    /\ main.at = "delete" =>
           /\ sock[main.fd] = "none"
           /\ main.next \in (Fds \ {main.fd}) \cup {Nobody}
    /\ main.at = "freed" => main.next \in Fds \cup {Nobody}

Exact == ListOK /\ CountOK /\ SockOK /\ MainOK

\* The inductive invariant.
IInv == up /\ stale = {} /\ beyond = {} => Exact

-----------------------------------------------------------------------------
(* The list *)

LEMMA FdsInFd == near \in Seq(Node) => Fds \subseteq Fd
<1> SUFFICES ASSUME near \in Seq(Node), NEW i \in DOMAIN near PROVE near[i].fd \in Fd
  BY DEF Fds
<1>1. near[i] \in Node
  OBVIOUS
<1>2. QED
  BY <1>1 DEF Node

\* As many nodes as descriptors.
LEMMA FdsCount == ListOK => Cardinality(Fds) = Len(near)
<1> SUFFICES ASSUME ListOK PROVE Cardinality(Fds) = Len(near)
  OBVIOUS
<1> DEFINE f == [i \in 1..Len(near) |-> near[i].fd]
<1>1. Len(near) \in Nat /\ DOMAIN near = 1..Len(near)
  BY DEF ListOK
<1>2. f \in Bijection(1..Len(near), Fds)
  BY <1>1 DEF ListOK, Fds, Bijection, Injection, Surjection, IsInjective
<1>3. ExistsBijection(1..Len(near), Fds)
  BY <1>2 DEF ExistsBijection
<1>4. QED
  BY <1>1, <1>3, FS_CountingElements

LEMMA PlaceFacts ==
    ASSUME NEW f \in Fds
    PROVE  Place(f) \in DOMAIN near /\ near[Place(f)].fd = f
BY DEF Fds, Place

\* The walk goes on in the list, and not at the same node.
LEMMA AfterFacts ==
    ASSUME ListOK, NEW f \in Fds
    PROVE  After(f) \in (Fds \ {f}) \cup {Nobody}
<1> DEFINE i == Place(f)
<1>1. i \in 1..Len(near) /\ near[i].fd = f /\ DOMAIN near = 1..Len(near)
  BY PlaceFacts DEF ListOK
<1>2. CASE i < Len(near)
  <2>1. i + 1 \in 1..Len(near) /\ i + 1 # i
    BY <1>1, <1>2
  <2>2. near[i + 1].fd \in Fds /\ near[i + 1].fd # f
    BY <1>1, <2>1 DEF Fds, ListOK
  <2>3. QED
    BY <1>2, <2>2 DEF After
<1>3. CASE ~(i < Len(near))
  BY <1>3 DEF After
<1>4. QED
  BY <1>2, <1>3

LEMMA AddrsFacts ==
    ASSUME NEW s \in Seq(Node)
    PROVE  /\ Addrs(s) \in Seq(Addr) /\ Len(Addrs(s)) = Len(s)
           /\ ToSet(Addrs(s)) = {s[i].addr : i \in DOMAIN s}
<1>1. DOMAIN s = 1..Len(s) /\ Len(s) \in Nat
  OBVIOUS
<1>2. \A i \in 1..Len(s) : s[i].addr \in Addr
  <2>1. \A i \in 1..Len(s) : s[i] \in Node
    OBVIOUS
  <2>2. QED
    BY <2>1 DEF Node
<1>3. Addrs(s) = [i \in 1..Len(s) |-> s[i].addr]
  BY <1>1 DEF Addrs
<1>4. Addrs(s) \in Seq(Addr) /\ Len(Addrs(s)) = Len(s)
  BY <1>1, <1>2, <1>3
<1>5. ToSet(Addrs(s)) = {s[i].addr : i \in DOMAIN s}
  BY <1>1, <1>3 DEF ToSet
<1>6. QED
  BY <1>4, <1>5

\* A new node adds its descriptor and its address.
LEMMA InsertFacts ==
    ASSUME ListOK, NEW f \in Fd \ Fds, NEW a \in Addr, near' = InsertNear(f, a)
    PROVE  /\ near' \in Seq(Node) /\ Len(near') = Len(near) + 1
           /\ \A i, j \in DOMAIN near' : near'[i].fd = near'[j].fd => i = j
           /\ Fds' = Fds \cup {f}
           /\ {near'[i].addr : i \in DOMAIN near'} =
                  {near[i].addr : i \in DOMAIN near} \cup {a}
<1> DEFINE n == [fd |-> f, addr |-> a]
<1>0. near \in Seq(Node) /\ n \in Node /\ DOMAIN near = 1..Len(near) /\ Len(near) \in Nat
  BY DEF Node, ListOK
<1>1. CASE near = <<>>
  <2>1. near' = <<n>>
    BY <1>1 DEF InsertNear, Listed
  <2>2. /\ Len(near') = 1 /\ DOMAIN near' = {1} /\ near'[1] = n
        /\ near' \in Seq(Node) /\ Len(near) = 0 /\ DOMAIN near = {}
    BY <1>0, <1>1, <2>1
  <2>3. QED
    BY <2>2 DEF Fds
<1>2. CASE near # <<>>
  <2>1. near' = InsertAt(near, 2, n) /\ 2 \in 1..Len(near) + 1
    BY <1>0, <1>2 DEF InsertNear, Listed
  <2>2. /\ near' \in Seq(Node) /\ Len(near') = Len(near) + 1
        /\ \A k \in 1..Len(near) + 1 :
              near'[k] = IF k < 2 THEN near[k] ELSE IF k = 2 THEN n ELSE near[k - 1]
    <3> HIDE DEF n
    <3>1. 2 \in 1..Len(near) + 1 /\ near \in Seq(Node) /\ n \in Node
      BY <1>0, <2>1
    <3>2. /\ InsertAt(near, 2, n) \in Seq(Node) /\ Len(InsertAt(near, 2, n)) = Len(near) + 1
          /\ \A k \in 1..Len(near) + 1 :
                InsertAt(near, 2, n)[k] =
                    IF k < 2 THEN near[k] ELSE IF k = 2 THEN n ELSE near[k - 1]
      BY ONLY <3>1, InsertAtProperties
    <3>3. QED
      BY <2>1, <3>2, Zenon
  <2>3. DOMAIN near' = 1..Len(near) + 1
    BY <2>2
  <2>4. \A k \in DOMAIN near : \E l \in DOMAIN near' : near'[l] = near[k]
    <3> SUFFICES ASSUME NEW k \in 1..Len(near)
                 PROVE  \E l \in 1..Len(near) + 1 : near'[l] = near[k]
      BY <1>0, <2>3
    <3>1. CASE k < 2
      BY <1>0, <2>2, <3>1
    <3>2. CASE k >= 2
      <4>1. k + 1 \in 1..Len(near) + 1 /\ k + 1 > 2 /\ (k + 1) - 1 = k
        BY <1>0, <3>2
      <4>2. near'[k + 1] = near[k]
        BY <2>2, <4>1
      <4>3. QED
        BY <4>1, <4>2
    <3>3. QED
      BY <3>1, <3>2
  <2>5. ASSUME NEW l \in 1..Len(near) + 1
        PROVE  near'[l] = n \/ \E k \in 1..Len(near) : near'[l] = near[k]
    <3>1. CASE l < 2
      BY <1>0, <2>1, <2>2, <3>1
    <3>2. CASE l = 2
      BY <2>2, <3>2
    <3>3. CASE l > 2
      <4>1. l - 1 \in 1..Len(near) /\ ~(l < 2) /\ l # 2
        BY <1>0, <3>3
      <4>2. near'[l] = near[l - 1]
        BY <2>2, <4>1
      <4>3. QED
        BY <4>1, <4>2
    <3>4. QED
      BY <3>1, <3>2, <3>3
  <2>6. near'[2] = n /\ 2 \in DOMAIN near'
    BY <2>1, <2>2, <2>3
  <2>7. \A k \in DOMAIN near : near[k].fd # f
    BY DEF Fds
  <2>8. \A i, j \in DOMAIN near' : near'[i].fd = near'[j].fd => i = j
    <3> SUFFICES ASSUME NEW i \in 1..Len(near) + 1, NEW j \in 1..Len(near) + 1,
                        near'[i].fd = near'[j].fd, i < j
                 PROVE  FALSE
      BY <1>0, <2>3
    <3>1. CASE j = 2
      BY <1>0, <2>2, <2>7, <3>1
    <3>2. CASE j # 2
      <4>1. j - 1 \in DOMAIN near /\ near'[j] = near[j - 1]
        BY <1>0, <2>2, <3>2
      <4>2. CASE i = 2
        BY <2>2, <2>7, <4>1, <4>2
      <4>3. CASE i # 2
        <5>1. \E k \in DOMAIN near : k < j - 1 /\ near'[i] = near[k]
          <6>1. CASE i < 2
            <7>1. i \in DOMAIN near /\ i < j - 1
              BY <1>0, <2>1, <3>2, <6>1
            <7>2. near'[i] = near[i]
              BY <2>2, <6>1
            <7>3. QED
              BY <7>1, <7>2
          <6>2. CASE i > 2
            <7>1. i - 1 \in DOMAIN near /\ i - 1 < j - 1 /\ ~(i < 2) /\ i # 2
              BY <1>0, <6>2
            <7>2. near'[i] = near[i - 1]
              BY <2>2, <7>1
            <7>3. QED
              BY <7>1, <7>2
          <6>3. QED
            BY <4>3, <6>1, <6>2
        <5>2. QED
          BY <4>1, <5>1 DEF ListOK
      <4>4. QED
        BY <4>2, <4>3
    <3>3. QED
      BY <3>1, <3>2
  <2>9. n.fd = f /\ n.addr = a
    OBVIOUS
  <2> HIDE DEF n
  <2>10. \A l \in DOMAIN near' : near'[l] = n \/ \E k \in DOMAIN near : near'[l] = near[k]
    BY <1>0, <2>3, <2>5
  <2>11. Fds' = Fds \cup {f}
    BY <2>4, <2>6, <2>9, <2>10 DEF Fds
  <2>12. {near'[i].addr : i \in DOMAIN near'} = {near[i].addr : i \in DOMAIN near} \cup {a}
    BY <2>4, <2>6, <2>9, <2>10
  <2>13. QED
    BY <2>2, <2>8, <2>11, <2>12
<1>3. QED
  BY <1>1, <1>2

\* The node that is deleted takes its descriptor along, and no other.
LEMMA RemoveFacts ==
    ASSUME ListOK, NEW f \in Fds, near' = RemoveAt(near, Place(f))
    PROVE  /\ near' \in Seq(Node) /\ Len(near') = Len(near) - 1
           /\ \A i, j \in DOMAIN near' : near'[i].fd = near'[j].fd => i = j
           /\ Fds' = Fds \ {f}
<1> DEFINE p == Place(f)
<1>1. near \in Seq(Node) /\ DOMAIN near = 1..Len(near) /\ Len(near) \in Nat
  BY DEF ListOK
<1>2. p \in 1..Len(near) /\ near[p].fd = f
  BY <1>1, PlaceFacts
<1> HIDE DEF p
<1>3. /\ near' \in Seq(Node) /\ Len(near') = Len(near) - 1
      /\ \A k \in 1..Len(near) - 1 : near'[k] = IF k < p THEN near[k] ELSE near[k + 1]
  BY <1>1, <1>2, RemoveAtProperties DEF p
<1>4. DOMAIN near' = 1..Len(near) - 1
  BY <1>1, <1>3
<1> DEFINE old(k) == IF k < p THEN k ELSE k + 1
<1>5. \A k \in 1..Len(near) - 1 :
         old(k) \in 1..Len(near) /\ old(k) # p /\ near'[k] = near[old(k)]
  BY <1>1, <1>2, <1>3
<1>6. \A i, j \in 1..Len(near) - 1 : old(i) = old(j) => i = j
  BY <1>1, <1>2
<1>7. \A k \in 1..Len(near) : k # p => \E l \in 1..Len(near) - 1 : old(l) = k
  <2> SUFFICES ASSUME NEW k \in 1..Len(near), k # p
               PROVE  \E l \in 1..Len(near) - 1 : old(l) = k
    OBVIOUS
  <2>1. CASE k < p
    BY <1>1, <1>2, <2>1
  <2>2. CASE k > p
    <3>1. k - 1 \in 1..Len(near) - 1 /\ old(k - 1) = k
      BY <1>1, <1>2, <2>2
    <3>2. QED
      BY <3>1
  <2>3. QED
    BY <1>2, <2>1, <2>2
<1> HIDE DEF old
<1>8. \A k \in 1..Len(near) : near[k].fd = f => k = p
  BY <1>1, <1>2 DEF ListOK
<1>9. \A i, j \in DOMAIN near' : near'[i].fd = near'[j].fd => i = j
  BY <1>1, <1>4, <1>5, <1>6 DEF ListOK
<1>10. ASSUME NEW x PROVE x \in Fds' <=> x \in Fds \ {f}
  <2>1. ASSUME x \in Fds' PROVE x \in Fds \ {f}
    <3>1. PICK l \in 1..Len(near) - 1 : x = near'[l].fd
      BY <1>4, <2>1 DEF Fds
    <3>2. QED
      BY <1>1, <1>5, <1>8, <3>1 DEF Fds
  <2>2. ASSUME x \in Fds, x # f PROVE x \in Fds'
    <3>1. PICK k \in 1..Len(near) : x = near[k].fd
      BY <1>1, <2>2 DEF Fds
    <3>2. k # p
      BY <1>2, <2>2, <3>1
    <3>3. PICK l \in 1..Len(near) - 1 : old(l) = k
      BY <1>7, <3>2
    <3>4. QED
      BY <1>4, <1>5, <3>1, <3>3 DEF Fds
  <2>3. QED
    BY <2>1, <2>2
<1>11. QED
  BY <1>3, <1>9, <1>10

LEMMA ListSame == ListOK /\ UNCHANGED <<near, near_str>> => ListOK' /\ Fds' = Fds
<1> SUFFICES ASSUME ListOK, near' = near, near_str' = near_str
             PROVE  ListOK' /\ Fds' = Fds
  OBVIOUS
<1>1. Fds' = Fds
  BY DEF Fds
<1>2. ListOK'
  BY DEF ListOK
<1>3. QED
  BY <1>1, <1>2

LEMMA InitIInv == Init => IInv
<1> SUFFICES ASSUME Init PROVE Exact
  BY DEF IInv
<1>1. near = <<>> /\ near_str = <<>> /\ Len(near) = 0 /\ DOMAIN near = {} /\ Fds = {}
  BY DEF Init, Fds
<1>2. near \in Seq(Node) /\ near_str \in Seq(Addr) /\ Addrs(near) = near_str
  BY <1>1 DEF Addrs
<1>3. ListOK
  BY <1>1, <1>2 DEF ListOK
<1>4. CountOK /\ MainOK
  BY <1>1, OverlayAssumption DEF OverlayAssumption, Init, AtSelect, CountOK, MainOK, Places
<1>5. SockOK
  BY <1>1 DEF Init, AtSelect, SockOK, Live
<1>6. QED
  BY <1>3, <1>4, <1>5 DEF Exact

-----------------------------------------------------------------------------
(* Connections begin *)

\* A descriptor that is free has no node.
LEMMA FreshFd ==
    ASSUME Exact, NEW f \in Fd, Comes(f)
    PROVE  main.at = "select" /\ Live = Fds /\ f \notin Fds
BY DEF Exact, SockOK, Alive, Live, Comes

\* What fd_add and a fresh connection do to the descriptors.
LEMMA AddedSock ==
    ASSUME Exact, NEW f \in Fd, sock' = [sock EXCEPT ![f] = "up"], FdAdd(f),
           Live' = Live \cup {f}
    PROVE  SockOK'
BY DEF Exact, SockOK, Alive, FdAdd

LEMMA AcceptExact ==
    ASSUME Exact, NEW f \in Fd, NEW a \in Addr, Accept(f, a)
    PROVE  Exact'
<1>1. main.at = "select" /\ Live = Fds /\ f \notin Fds
  BY FreshFd DEF Accept
<1>2. ListOK' /\ Fds' = Fds
  BY ListSame DEF Exact, Accept
<1>3. main' = [at |-> "insert", fd |-> f, addr |-> a, ready |-> {}, next |-> Nobody]
  BY DEF Accept, AtSelect
<1>4. Live' = Live \cup {f}
  BY <1>1, <1>2, <1>3 DEF Live
<1>5. SockOK'
  BY <1>4, AddedSock DEF Accept
<1>6. CountOK'
  <2>1. nsock = Len(near) /\ nsock < MaxTcpSock /\ nsock' = nsock /\ near' = near
    BY <1>1 DEF Exact, CountOK, Accept
  <2>2. QED
    BY <1>3, <2>1 DEF Exact, CountOK
<1>7. MainOK'
  BY <1>1, <1>2, <1>3 DEF MainOK, Places
<1>8. QED
  BY <1>2, <1>5, <1>6, <1>7 DEF Exact

LEMMA AcceptFailsExact ==
    ASSUME Exact, NEW f \in Fd, AcceptFails(f)
    PROVE  Exact'
<1>1. main.at = "select" /\ Live = Fds /\ f \notin Fds
  BY FreshFd DEF AcceptFails
<1>2. ListOK' /\ Fds' = Fds
  BY ListSame DEF Exact, AcceptFails
<1>3. main' = main /\ Live' = Live
  BY <1>2 DEF AcceptFails, Live
<1>4. SockOK'
  BY <1>1, <1>3 DEF Exact, SockOK, Alive, AcceptFails
<1>5. CountOK' /\ MainOK'
  BY <1>1, <1>2, <1>3 DEF Exact, CountOK, MainOK, AcceptFails
<1>6. QED
  BY <1>2, <1>4, <1>5 DEF Exact

LEMMA InsertExact ==
    ASSUME Exact, Insert
    PROVE  Exact'
<1> DEFINE f == main.fd
           a == main.addr
<1>1. main.at = "insert" /\ f \in Fd \ Fds /\ a \in Addr
  BY DEF Insert, Exact, MainOK
<1>2. ~Conflict(f, a)
  BY <1>1 DEF Conflict, Fds
<1>3. /\ near' = InsertNear(f, a) /\ near_str' = Addrs(near')
      /\ main' = [main EXCEPT !.at = "count"]
      /\ UNCHANGED <<sock, nsock, watched, adds>>
  BY <1>2 DEF Insert
<1>4. /\ near' \in Seq(Node) /\ Len(near') = Len(near) + 1
      /\ \A i, j \in DOMAIN near' : near'[i].fd = near'[j].fd => i = j
      /\ Fds' = Fds \cup {f}
  BY <1>1, <1>3, InsertFacts DEF Exact
<1>5. ListOK'
  BY <1>3, <1>4, AddrsFacts DEF ListOK
<1>6. MainOK'
  BY <1>3, <1>4 DEF Exact, MainOK, Places
<1>7. main'.at = "count"
  BY <1>3 DEF Exact, MainOK
<1>8. CountOK'
  <2>1. nsock = Len(near) /\ Len(near) < MaxTcpSock /\ Len(near) \in Nat
    BY <1>1 DEF Exact, CountOK, ListOK
  <2>2. QED
    BY <1>3, <1>4, <1>7, <2>1, OverlayAssumption DEF OverlayAssumption, CountOK
<1>9. Live' = Live
  BY <1>1, <1>4, <1>7 DEF Live
<1>10. SockOK'
  BY <1>3, <1>9 DEF Exact, SockOK, Alive
<1>11. QED
  BY <1>5, <1>6, <1>8, <1>10 DEF Exact

LEMMA CountExact ==
    ASSUME Exact, Count
    PROVE  Exact'
<1>1. ListOK' /\ Fds' = Fds
  BY ListSame DEF Exact, Count
<1>2. main.at = "count" /\ main' = AtSelect /\ UNCHANGED <<near, sock, watched, adds>>
  BY DEF Count
<1>3. nsock' = Len(near)
  <2>1. nsock = Len(near) - 1 /\ nsock' = nsock + 1 /\ Len(near) \in Nat
    BY <1>2 DEF Exact, CountOK, ListOK, Count
  <2>2. QED
    BY <2>1
<1>4. CountOK' /\ MainOK'
  BY <1>1, <1>2, <1>3 DEF AtSelect, Exact, CountOK, MainOK, Places
<1>5. Live' = Live
  BY <1>1, <1>2 DEF AtSelect, Live
<1>6. SockOK'
  BY <1>2, <1>5 DEF Exact, SockOK, Alive
<1>7. QED
  BY <1>1, <1>4, <1>6 DEF Exact

\* join_overlay writes the address after all others, insert_near puts the node
\* second: the string has the same addresses as the list in another order.
LEMMA JoinExact ==
    ASSUME Exact, NEW f \in Fd, NEW a \in Addr, Join(f, a), beyond' = {}
    PROVE  Exact'
<1>1. main.at = "select" /\ Live = Fds /\ f \notin Fds
  BY FreshFd DEF Join
<1>2. ~Conflict(f, a)
  BY <1>1 DEF Conflict, Fds
<1>3. /\ near' = InsertNear(f, a) /\ near_str' = Written(a) /\ nsock' = nsock + 1
      /\ nsock < MaxTcpSock /\ main' = main
  BY <1>2 DEF Join
<1>4. /\ near' \in Seq(Node) /\ Len(near') = Len(near) + 1
      /\ \A i, j \in DOMAIN near' : near'[i].fd = near'[j].fd => i = j
      /\ Fds' = Fds \cup {f}
      /\ {near'[i].addr : i \in DOMAIN near'} = {near[i].addr : i \in DOMAIN near} \cup {a}
  BY <1>1, <1>3, InsertFacts DEF Exact
<1>5. nsock = Len(near) /\ Len(near) \in Nat
  BY <1>1 DEF Exact, CountOK, ListOK
<1>6. /\ near_str' \in Seq(Addr) /\ Len(near_str') = Len(near) + 1
      /\ ToSet(near_str') = ToSet(near_str) \cup {a}
  <2>1. near_str \in Seq(Addr) /\ Len(near_str) = Len(near)
    BY DEF Exact, ListOK
  <2> DEFINE n == Len(near)
  <2>2. near_str' = [i \in 1..n + 1 |-> IF i = n + 1 THEN a ELSE near_str[i]]
    <3>1. \A i \in 1..n + 1 : i # n + 1 => i <= Len(near_str)
      BY <1>5, <2>1
    <3>2. QED
      BY <1>3, <1>5, <3>1 DEF Written
  <2>3. DOMAIN near_str = 1..n /\ \A i \in 1..n : near_str[i] \in Addr
    BY <2>1
  <2>4. near_str' \in Seq(Addr) /\ Len(near_str') = n + 1 /\ DOMAIN near_str' = 1..n + 1
    BY <1>5, <2>2, <2>3
  <2>5. ToSet(near_str') = ToSet(near_str) \cup {a}
    BY <1>5, <2>2, <2>3, <2>4 DEF ToSet
  <2>6. QED
    BY <2>4, <2>5
<1>7. ListOK'
  <2>1. ToSet(near_str) = {near[i].addr : i \in DOMAIN near}
    BY AddrsFacts DEF Exact, ListOK
  <2>2. ToSet(near_str') = ToSet(Addrs(near'))
    BY <1>4, <1>6, <2>1, AddrsFacts
  <2>3. QED
    BY <1>4, <1>6, <2>2 DEF ListOK
<1>8. CountOK' /\ MainOK'
  <2>1. CountOK'
    BY <1>1, <1>3, <1>4, <1>5, OverlayAssumption DEF OverlayAssumption, CountOK
  <2>2. MainOK'
    BY <1>1, <1>3 DEF Exact, MainOK
  <2>3. QED
    BY <2>1, <2>2
<1>9. Live' = Live \cup {f}
  BY <1>1, <1>3, <1>4 DEF Live
<1>10. SockOK'
  BY <1>9, AddedSock DEF Join
<1>11. QED
  BY <1>7, <1>8, <1>10 DEF Exact

-----------------------------------------------------------------------------
(* Connections end *)

\* A connection that is alive changes how it is, and nothing else does.
LEMMA SockStepExact ==
    ASSUME Exact, UNCHANGED <<near, near_str, nsock, watched, adds, main>>,
           \/ sock' = sock
           \/ \E f \in Fd : Alive(f) /\ \E s \in {"hung", "reset"} :
                 sock' = [sock EXCEPT ![f] = s]
    PROVE  Exact'
<1>1. ListOK' /\ Fds' = Fds
  BY ListSame DEF Exact
<1>2. Live' = Live
  BY <1>1 DEF Live
<1>3. SockOK'
  <2>1. CASE sock' = sock
    BY <1>2, <2>1 DEF Exact, SockOK, Alive
  <2>2. ASSUME NEW f \in Fd, NEW s \in {"hung", "reset"}, sock' = [sock EXCEPT ![f] = s]
        PROVE  SockOK'
    <3>1. sock' \in [Fd -> {"none", "up", "hung", "reset", "lost"}]
      BY <2>2 DEF Exact, SockOK
    <3>2. \A g \in Live : Alive(g)'
      BY <2>2 DEF Exact, SockOK, Alive
    <3>3. QED
      BY <1>2, <3>1, <3>2 DEF Exact, SockOK
  <2>3. QED
    BY <2>1, <2>2
<1>4. \A f \in Fd : sock[f] = "none" => sock'[f] = "none"
  BY DEF Exact, SockOK, Alive
<1>5. MainOK'
  <2>1. main.at = "delete" => main.fd \in Fd
    BY FdsInFd DEF Exact, MainOK, ListOK
  <2>2. QED
    BY <1>1, <1>4, <2>1 DEF Exact, MainOK
<1>6. CountOK'
  BY DEF Exact, CountOK
<1>7. QED
  BY <1>1, <1>3, <1>5, <1>6 DEF Exact

\* The main thread moves within the list, or back to select.
LEMMA WalkExact ==
    ASSUME Exact, UNCHANGED <<near, near_str, nsock, watched, adds, sock>>,
           main.at \in {"select", "walk", "freed"},
           NEW ready \in SUBSET Fd, NEW next \in Fds \cup {Nobody}, WalkOn(ready, next)
    PROVE  Exact'
<1>1. ListOK' /\ Fds' = Fds /\ Fds \subseteq Fd
  BY ListSame, FdsInFd DEF Exact, ListOK
<1>2. main' = AtSelect
      \/ /\ main' = [at |-> "walk", fd |-> next, addr |-> Nobody, ready |-> ready,
                     next |-> Nobody]
         /\ next # Nobody
  BY DEF WalkOn, AtSelect
<1>3. main'.at \in {"select", "walk"}
  BY <1>2 DEF AtSelect
<1>4. Live' = Live
  BY <1>1, <1>3 DEF Live
<1>5. SockOK' /\ CountOK'
  BY <1>3, <1>4 DEF Exact, SockOK, Alive, CountOK
<1>6. MainOK'
  BY <1>1, <1>2 DEF MainOK, AtSelect, Places
<1>7. QED
  BY <1>1, <1>5, <1>6 DEF Exact

LEMMA SelectExact ==
    ASSUME Exact, NEW data \in SUBSET Fd, Select(data)
    PROVE  Exact'
<1> DEFINE ready == data \cup {f \in watched : sock[f] \in {"hung", "reset"}}
<1>1. First \in Fds \cup {Nobody}
  BY DEF First, Fds, Exact, ListOK
<1>2. watched \subseteq Fd
  BY FdsInFd DEF Exact, SockOK, Live, ListOK, MainOK, Select
<1>3. ready \in SUBSET Fd
  BY <1>2
<1>4. /\ WalkOn(ready, First) /\ main.at = "select"
      /\ UNCHANGED <<near, near_str, nsock, watched, adds, sock>>
  BY DEF Select, WalkOn
<1>5. QED
  BY <1>1, <1>3, <1>4, WalkExact

LEMMA VisitExact ==
    ASSUME Exact, Visit
    PROVE  Exact'
<1>1. After(main.fd) \in Fds \cup {Nobody}
  BY AfterFacts DEF Exact, MainOK, Visit
<1>2. main.ready \ {main.fd} \in SUBSET Fd
  BY DEF Exact, MainOK
<1>3. QED
  BY <1>1, <1>2, WalkExact DEF Visit

LEMMA CloseExact ==
    ASSUME Exact, Close
    PROVE  Exact'
<1> DEFINE f == main.fd
<1>1. ListOK' /\ Fds' = Fds /\ Fds \subseteq Fd
  BY ListSame, FdsInFd DEF Exact, ListOK, Close
<1>2. main.at = "walk" /\ f \in Fds
  BY DEF Close, Exact, MainOK
<1>3. After(f) \in (Fds \ {f}) \cup {Nobody}
  BY <1>2, AfterFacts DEF Exact
<1>4. /\ main' = [main EXCEPT !.at = "delete", !.next = After(f)]
      /\ sock' = [sock EXCEPT ![f] = "none"] /\ watched' = watched \ {f}
      /\ UNCHANGED <<near, near_str, nsock, adds>>
  BY DEF Close
<1>5. main'.at = "delete" /\ main'.fd = f /\ main'.next = After(f)
  BY <1>4 DEF Exact, MainOK
<1>6. Live = Fds /\ Live' = Fds \ {f}
  BY <1>1, <1>2, <1>5 DEF Live
<1>7. SockOK'
  BY <1>1, <1>4, <1>6 DEF Exact, SockOK, Alive
<1>8. MainOK'
  <2>1. sock'[f] = "none"
    BY <1>1, <1>2, <1>4 DEF Exact, SockOK
  <2>2. main' \in [at : Places, fd : Fd \cup {Nobody}, addr : Addr \cup {Nobody},
                  ready : SUBSET Fd, next : Fd \cup {Nobody}]
    BY <1>1, <1>3, <1>4 DEF Exact, MainOK, Places
  <2>3. QED
    BY <1>1, <1>2, <1>3, <1>5, <2>1, <2>2 DEF MainOK
<1>9. CountOK'
  BY <1>2, <1>4, <1>5 DEF Exact, CountOK
<1>10. QED
  BY <1>1, <1>7, <1>8, <1>9 DEF Exact

LEMMA DeleteExact ==
    ASSUME Exact, Delete, stale' = {}
    PROVE  Exact'
<1> DEFINE f == main.fd
<1>1. main.at = "delete" /\ f \in Fds /\ main.next \in (Fds \ {f}) \cup {Nobody}
  BY DEF Delete, Exact, MainOK
<1>2. /\ near' = RemoveAt(near, Place(f)) /\ near_str' = Addrs(near')
      /\ nsock' = nsock - 1
      /\ main' = [main EXCEPT !.at = "freed", !.ready = @ \ {f}]
      /\ UNCHANGED <<sock, watched, adds>>
  BY DEF Delete
<1>3. /\ near' \in Seq(Node) /\ Len(near') = Len(near) - 1
      /\ \A i, j \in DOMAIN near' : near'[i].fd = near'[j].fd => i = j
      /\ Fds' = Fds \ {f}
  BY <1>1, <1>2, RemoveFacts DEF Exact
<1>4. ListOK'
  BY <1>2, <1>3, AddrsFacts DEF ListOK
<1>5. main'.at = "freed" /\ main'.next = main.next
  BY <1>2 DEF Exact, MainOK
<1>6. MainOK'
  <2>1. main' \in [at : Places, fd : Fd \cup {Nobody}, addr : Addr \cup {Nobody},
                  ready : SUBSET Fd, next : Fd \cup {Nobody}]
    BY <1>2 DEF Exact, MainOK, Places
  <2>2. QED
    BY <1>1, <1>3, <1>5, <2>1 DEF MainOK
<1>7. Live' = Live
  BY <1>1, <1>3, <1>5 DEF Live
<1>8. SockOK'
  BY <1>2, <1>7 DEF Exact, SockOK, Alive
<1>9. CountOK'
  <2>1. nsock = Len(near) /\ Len(near) <= MaxTcpSock /\ Len(near) \in Nat
    BY <1>1 DEF Exact, CountOK, ListOK
  <2>2. QED
    BY <1>2, <1>3, <1>5, <2>1, OverlayAssumption DEF OverlayAssumption, CountOK
<1>10. QED
  BY <1>4, <1>6, <1>8, <1>9 DEF Exact

LEMMA WalkFreedExact ==
    ASSUME Exact, WalkFreed, up'
    PROVE  Exact'
<1>1. WalkOn(main.ready, main.next) /\ sock' = sock /\ main.at = "freed"
  BY DEF WalkFreed, Crash
<1>2. main.ready \in SUBSET Fd /\ main.next \in Fds \cup {Nobody}
  BY <1>1 DEF Exact, MainOK
<1>3. QED
  BY <1>1, <1>2, WalkExact DEF WalkFreed

-----------------------------------------------------------------------------

LEMMA PingerExact ==
    ASSUME Exact, Pinger, up'
    PROVE  Exact'
<1>1. CASE sock' = sock /\ UnchangedTable
  BY <1>1, SockStepExact DEF UnchangedTable
<1>2. CASE SendPing /\ sock[pinger.fd] = "hung"
  <2>1. sock' = [sock EXCEPT ![pinger.fd] = "reset"] /\ UnchangedTable
    BY <1>2 DEF SendPing
  <2>2. CASE pinger.fd \in Fd
    BY <1>2, <2>1, <2>2, SockStepExact DEF Alive, UnchangedTable
  <2>3. CASE pinger.fd \notin Fd
    <3>1. sock' = sock
      BY <2>1, <2>3 DEF Exact, SockOK
    <3>2. QED
      BY <1>1, <2>1, <3>1
  <2>4. QED
    BY <2>2, <2>3
<1>3. QED
  BY <1>1, <1>2 DEF Pinger, TcpPing, StartPing, LockNode, SendPing, NextNode, FollowFreed,
                    Crash

\* The main thread is at no node when it is blocked.
LEMMA BlockExact ==
    ASSUME Exact, Block
    PROVE  Exact'
<1>1. /\ main' = [at |-> "blocked", fd |-> Nobody, addr |-> Nobody, ready |-> {},
                  next |-> Nobody]
      /\ main.at \in {"select", "walk"}
      /\ UNCHANGED <<sock, near, near_str, nsock, watched, adds>>
  BY DEF Block, AtSelect
<1>2. ListOK' /\ Fds' = Fds
  BY <1>1, ListSame DEF Exact
<1>3. Live' = Live
  BY <1>1, <1>2 DEF Live
<1>4. SockOK' /\ CountOK' /\ MainOK'
  BY <1>1, <1>3 DEF Exact, SockOK, Alive, CountOK, MainOK, Places
<1>5. QED
  BY <1>2, <1>4 DEF Exact

LEMMA StepIInv == IInv /\ [Next]_vars => IInv'
<1> SUFFICES ASSUME IInv, [Next]_vars, up', stale' = {}, beyond' = {} PROVE Exact'
  BY DEF IInv
<1>1. CASE UNCHANGED vars
  BY <1>1, SockStepExact DEF vars, IInv
<1>2. CASE Next
  <2>0. ~HeapCorrupted
    BY Zenon DEF HeapCorrupted
  <2>1. up /\ stale = {} /\ beyond = {}
    BY <1>2, <2>0 DEF Next, Accept, Join, Comes, AcceptFails, HangUp, Select, Main, Insert, Count,
                Visit, Close, Delete, WalkFreed, Pinger, StartPing, LockNode, SendPing,
                NextNode, FollowFreed, TcpPing, Block, UnchangedTable
  <2>2. Exact
    BY <2>1 DEF IInv
  <2>3. ASSUME NEW f \in Fd, HangUp(f) PROVE Exact'
    BY <2>2, <2>3, SockStepExact DEF HangUp, Alive
  <2>4. CASE Main
    BY <2>2, <2>4, InsertExact, CountExact, VisitExact, CloseExact, DeleteExact,
       WalkFreedExact DEF Main
  <2>5. QED
    BY <1>2, <2>0, <2>2, <2>3, <2>4, AcceptExact, JoinExact, AcceptFailsExact, SelectExact,
       PingerExact, BlockExact DEF Next
<1>3. QED
  BY <1>1, <1>2

\* While no node outlives its connection and near_str is not overrun, the list,
\* the string, the count and the set of select agree with the connections there
\* are whenever the main thread waits (accept_conn, join_overlay, close_conn,
\* tcp_ping).
THEOREM TableStaysExact == Spec => []TableExact
<1>1. IInv => TableExact
  <2> SUFFICES ASSUME Exact, main.at = "select" PROVE TableExact
    BY DEF IInv, TableExact
  <2>1. Live = Fds
    BY DEF Live
  <2>2. nsock = Len(near) /\ nsock <= MaxTcpSock
    BY DEF Exact, CountOK
  <2>3. Cardinality(Fds) = Len(near)
    BY FdsCount DEF Exact
  <2>4. QED
    BY <2>1, <2>2, <2>3 DEF TableExact, Exact, ListOK, SockOK, Alive
<1>2. QED
  BY InitIInv, StepIInv, <1>1, PTL DEF Spec

-----------------------------------------------------------------------------
(* The flood of a query *)

\* The variables the argument is about have their types.
FloodTyped ==
    /\ chan \in [Superpeer -> [Superpeer -> Seq(1..TTL)]]
    /\ known \in [Superpeer -> [Superpeer -> SUBSET AnyList]]
    /\ handled \subseteq Superpeer /\ due \subseteq Superpeer
    /\ request \in [Superpeer -> Int] /\ asks \in Nat

\* Only who has handled the query sends it, or remembers it.
Senders ==
    /\ \A n, m \in Superpeer : chan[n][m] # <<>> => n \in handled
    /\ \A n \in Superpeer : request[n] # Unknown => n \in handled
    /\ asks = 0 => handled = {} /\ due = {}

\* Who is next to a superpeer that has handled the query has done so, too, or a
\* copy is on its way there, from that superpeer or from another.
Covered ==
    \A n \in handled : \A m \in Near(n) :
        m \in handled \/ \E k \in Superpeer : chan[k][m] # <<>>

\* A copy has spent one of its TTL for each superpeer that has handled the
\* query, at most.
Spent ==
    \A n, m \in Superpeer : \A i \in DOMAIN chan[n][m] :
        TTL < chan[n][m][i] + Cardinality(handled)

\* A flood about which something is promised.
Spreading ==
    /\ Asked \in handled /\ due \subseteq Component({Asked})
    /\ AllRead /\ Covered /\ Spent

\* The inductive invariant.
FloodInv == FloodTyped /\ Senders /\ (due \subseteq handled \/ Spreading)

\* Who has handled the query is one of finitely many.
LEMMA HandledCount ==
    ASSUME FloodTyped
    PROVE  /\ IsFiniteSet(handled)
           /\ Cardinality(handled) \in Nat
           /\ \A n \in Superpeer \ handled :
                 Cardinality(handled \cup {n}) = Cardinality(handled) + 1
           /\ \A n \in handled : Cardinality(handled) >= 1
<1>1. IsFiniteSet(handled)
  BY FS_Subset, FloodAssumption DEF FloodTyped, FloodAssumption
<1>2. Cardinality(handled) \in Nat
  BY <1>1, FS_CardinalityType
<1>3. \A n \in Superpeer \ handled : Cardinality(handled \cup {n}) = Cardinality(handled) + 1
  BY <1>1, FS_AddElement
<1>4. \A n \in handled : Cardinality(handled) >= 1
  BY <1>1, <1>2, FS_EmptySet
<1>5. QED
  BY <1>1, <1>2, <1>3, <1>4

\* Once as many have handled the query as the TTL allows for, all have.
LEMMA AllHandled ==
    ASSUME NEW S, S \subseteq Superpeer, TTL < Cardinality(S)
    PROVE  S = Superpeer
<1>1. /\ IsFiniteSet(Superpeer) /\ TTL \in Nat /\ TTL >= Cardinality(Superpeer) - 1
  BY FloodAssumption DEF FloodAssumption
<1>2. /\ Cardinality(Superpeer) \in Nat /\ IsFiniteSet(S) /\ Cardinality(S) \in Nat
      /\ Cardinality(S) <= Cardinality(Superpeer)
      /\ Cardinality(S) = Cardinality(Superpeer) => S = Superpeer
  BY <1>1, FS_CardinalityType, FS_Subset
<1>3. QED
  BY <1>1, <1>2

\* d is what the channels c become when n has sent its copies.
AfterSend(d, c, n, targets, ttl) ==
    /\ d \in [Superpeer -> [Superpeer -> Seq(1..TTL)]]
    /\ \A k, m \in Superpeer :
          d[k][m] = IF k = n /\ m \in targets /\ ttl > 0
                    THEN Append(c[k][m], ttl) ELSE c[k][m]

LEMMA SendProperties ==
    \A c \in [Superpeer -> [Superpeer -> Seq(1..TTL)]], n \in Superpeer, ttl \in 0..TTL :
        \A targets, d : d = Send(c, n, targets, ttl) => AfterSend(d, c, n, targets, ttl)
<1> SUFFICES ASSUME NEW c \in [Superpeer -> [Superpeer -> Seq(1..TTL)]], NEW n \in Superpeer,
                    NEW ttl \in 0..TTL, NEW targets, NEW d, d = Send(c, n, targets, ttl)
             PROVE  AfterSend(d, c, n, targets, ttl)
  OBVIOUS
<1>1. TTL \in Nat
  BY FloodAssumption DEF FloodAssumption
<1>2. ASSUME NEW m \in Superpeer
      PROVE  (IF m \in targets /\ ttl > 0 THEN Append(c[n][m], ttl) ELSE c[n][m]) \in Seq(1..TTL)
  <2>1. ttl > 0 => ttl \in 1..TTL
    BY <1>1
  <2>2. c[n][m] \in Seq(1..TTL)
    OBVIOUS
  <2>3. \A S : \A q \in Seq(S), x \in S : Append(q, x) \in Seq(S)
    OBVIOUS
  <2>4. CASE m \in targets /\ ttl > 0
    <3>1. Append(c[n][m], ttl) \in Seq(1..TTL)
      BY ONLY <2>1, <2>2, <2>3, <2>4, Zenon
    <3>2. QED
      BY <2>4, <3>1
  <2>5. QED
    BY ONLY <2>2, <2>4, Zenon
<1>3. [m \in Superpeer |->
         IF m \in targets /\ ttl > 0 THEN Append(c[n][m], ttl) ELSE c[n][m]]
             \in [Superpeer -> Seq(1..TTL)]
  BY <1>2
<1>4. QED
  BY <1>3 DEF Send, AfterSend

\* A copy at the end of a channel.
LEMMA LongerChannel ==
    ASSUME NEW S, NEW s \in Seq(S), NEW x
    PROVE  /\ Append(s, x) # <<>>
           /\ \A i \in DOMAIN Append(s, x) :
                 Append(s, x)[i] = x \/ \E j \in DOMAIN s : Append(s, x)[i] = s[j]
<1>1. /\ Len(s) \in Nat /\ DOMAIN s = 1..Len(s)
      /\ Len(Append(s, x)) = Len(s) + 1 /\ DOMAIN Append(s, x) = 1..Len(s) + 1
      /\ \A i \in 1..Len(s) + 1 : Append(s, x)[i] = IF i = Len(s) + 1 THEN x ELSE s[i]
  OBVIOUS
<1>2. Append(s, x) # <<>>
  BY <1>1
<1>3. QED
  BY <1>1, <1>2

\* A channel without its first copy.
LEMMA ShorterChannel ==
    ASSUME NEW S, NEW s \in Seq(S), s # <<>>
    PROVE  /\ Head(s) \in S /\ 1 \in DOMAIN s /\ s[1] = Head(s)
           /\ Tail(s) \in Seq(S)
           /\ \A i \in DOMAIN Tail(s) : \E j \in DOMAIN s : Tail(s)[i] = s[j]
<1>1. /\ Len(s) \in Nat \ {0} /\ DOMAIN s = 1..Len(s)
      /\ Tail(s) \in Seq(S) /\ DOMAIN Tail(s) = 1..Len(s) - 1
      /\ \A i \in 1..Len(s) - 1 : Tail(s)[i] = s[i + 1]
      /\ Head(s) = s[1] /\ Head(s) \in S
  OBVIOUS
<1>2. \A i \in 1..Len(s) - 1 : i + 1 \in 1..Len(s)
  BY <1>1
<1>3. QED
  BY <1>1, <1>2

\* A flood that came to its end without a disturbance has come to all.
LEMMA SpreadOut ==
    ASSUME FloodTyped, Spreading, Quiet
    PROVE  due \subseteq handled
<1>1. Closed(handled)
  BY DEF Closed, Quiet, Spreading, Covered, Near
<1>2. handled \in SUBSET Superpeer /\ {Asked} \subseteq handled
  BY DEF FloodTyped, Spreading
<1>3. Component({Asked}) \subseteq handled
  BY <1>1, <1>2 DEF Component
<1>4. QED
  BY <1>3 DEF Spreading

LEMMA FloodStart == FloodInit => FloodInv
<1> SUFFICES ASSUME FloodInit PROVE FloodInv
  OBVIOUS
<1>1. <<>> \in Seq(1..TTL)
  OBVIOUS
<1>2. FloodTyped
  BY <1>1 DEF FloodInit, FloodTyped, Unknown
<1>3. Senders
  BY DEF FloodInit, Senders
<1>4. QED
  BY <1>2, <1>3 DEF FloodInv, FloodInit

\* A copy that arrives at n, which has the query or takes it and sends it on.
LEMMA ArrivalKeeps ==
    ASSUME FloodInv, NEW n \in Superpeer, NEW from \in Superpeer, Receive(n, from)
    PROVE  FloodInv'
<1> DEFINE c == chan[from][n]
           rest == [chan EXCEPT ![from][n] = Tail(c)]
           ttl == Head(c) - 1
<1>1. FloodTyped /\ Senders /\ (due \subseteq handled \/ Spreading) /\ TTL \in Nat
  BY FloodAssumption DEF FloodInv, FloodAssumption
<1>2. /\ chan \in [Superpeer -> [Superpeer -> Seq(1..TTL)]] /\ c \in Seq(1..TTL) /\ c # <<>>
  BY <1>1 DEF FloodTyped, Receive
<1>3. /\ Head(c) \in 1..TTL /\ 1 \in DOMAIN c /\ c[1] = Head(c)
      /\ Tail(c) \in Seq(1..TTL)
      /\ \A i \in DOMAIN Tail(c) : \E j \in DOMAIN c : Tail(c)[i] = c[j]
  <2> HIDE DEF c
  <2>1. QED
    BY <1>2, ShorterChannel
<1>4. from \in handled
  BY <1>1, <1>2 DEF Senders
<1>5. /\ rest \in [Superpeer -> [Superpeer -> Seq(1..TTL)]]
      /\ \A k, m \in Superpeer :
            rest[k][m] = IF k = from /\ m = n THEN Tail(c) ELSE chan[k][m]
  BY <1>2, <1>3
<1>6. \A k, m \in Superpeer : \A i \in DOMAIN rest[k][m] :
         \E j \in DOMAIN chan[k][m] : rest[k][m][i] = chan[k][m][j]
  BY <1>3, <1>5
<1> HIDE DEF rest
<1>7. \A k, m \in Superpeer : rest[k][m] # <<>> => chan[k][m] # <<>>
  BY <1>2, <1>5
<1>8. UNCHANGED <<net_vars, known, asks, changes>>
  BY DEF Receive
<1>9. \A S : Component(S)' = Component(S)
  BY <1>8 DEF Component, Closed, Near, net_vars
<1>10. CASE request[n] # Unknown
  <2>1. chan' = rest /\ UNCHANGED <<request, handled, due>>
    BY <1>10 DEF Receive, rest, c
  <2>2. FloodTyped' /\ Senders'
    BY <1>1, <1>5, <1>7, <1>8, <2>1 DEF FloodTyped, Senders
  <2>3. n \in handled
    BY <1>1, <1>10 DEF Senders
  <2>4. ASSUME Spreading PROVE Spreading'
    <3>1. Covered'
      <4>1. ASSUME NEW k \in handled, NEW m \in Near(k)
            PROVE  m \in handled \/ \E l \in Superpeer : rest[l][m] # <<>>
        <5>1. m \in handled \/ \E l \in Superpeer : chan[l][m] # <<>>
          BY <2>4 DEF Spreading, Covered
        <5>2. m \in Superpeer
          BY DEF Near
        <5>3. QED
          BY <1>5, <2>3, <5>1, <5>2
      <4>2. \A k : Near(k)' = Near(k)
        BY <1>8 DEF Near, net_vars
      <4>3. QED
        BY <2>1, <4>1, <4>2 DEF Covered
    <3>2. Spent'
      BY <1>6, <2>1, <2>4 DEF Spreading, Spent
    <3>3. AllRead'
      BY <1>8, <2>4 DEF Spreading, AllRead, Readers, Near, net_vars
    <3>4. QED
      BY <1>9, <2>1, <2>4, <3>1, <3>2, <3>3 DEF Spreading
  <2>5. QED
    BY <1>1, <2>1, <2>2, <2>4 DEF FloodInv
<1>11. CASE request[n] = Unknown
  <2>0. PICK list \in known[n][from] :
           /\ chan' = Send(rest, n, Readers(n) \ Skipped(from, list), ttl) /\ Remember(n)
           /\ due' = IF Misled(n, from, list) \/ n \in handled THEN {} ELSE due
    BY <1>11 DEF Receive, rest, c, ttl
  <2> DEFINE targets == Readers(n) \ Skipped(from, list)
             misled == Misled(n, from, list)
  <2>1. /\ chan' = Send(rest, n, targets, ttl) /\ Remember(n)
        /\ due' = IF misled \/ n \in handled THEN {} ELSE due
    BY <2>0
  <2>2. ttl \in 0..TTL /\ ttl + 1 = Head(c)
    BY <1>1, <1>3
  <2> HIDE DEF ttl, targets, misled
  <2>3. /\ chan' \in [Superpeer -> [Superpeer -> Seq(1..TTL)]]
        /\ \A k, m \in Superpeer :
              chan'[k][m] = IF k = n /\ m \in targets /\ ttl > 0
                            THEN Append(rest[k][m], ttl) ELSE rest[k][m]
    <3>1. rest \in [Superpeer -> [Superpeer -> Seq(1..TTL)]] /\ n \in Superpeer
      BY <1>5
    <3>2. QED
      <4>1. ttl \in 0..TTL
        BY <2>2
      <4>2. chan' = Send(rest, n, targets, ttl)
        BY <2>1
      <4>3. \A d : d = Send(rest, n, targets, ttl) => AfterSend(d, rest, n, targets, ttl)
        BY ONLY <3>1, <4>1, SendProperties, Zenon
      <4>4. AfterSend(chan', rest, n, targets, ttl)
        BY <4>2, <4>3
      <4>5. QED
        BY <4>4 DEF AfterSend
  <2>4. /\ handled' = handled \cup {n}
        /\ request' = [request EXCEPT ![n] = RequestTTL] /\ RequestTTL \in Nat
    BY <2>1, FloodAssumption DEF Remember, FloodAssumption
  <2>5. FloodTyped'
    BY <1>1, <1>8, <2>1, <2>3, <2>4 DEF FloodTyped
  <2>6. Senders'
    <3>1. asks # 0
      BY <1>1, <1>4 DEF Senders
    <3>2. \A k, m \in Superpeer : chan'[k][m] # <<>> => k \in handled'
      <4>1. ASSUME NEW k \in Superpeer, NEW m \in Superpeer, chan'[k][m] # <<>>, k # n
            PROVE  k \in handled
        <5>1. chan'[k][m] = rest[k][m]
          BY <2>3, <4>1
        <5>2. rest[k][m] # <<>>
          BY <4>1, <5>1
        <5>3. chan[k][m] # <<>>
          BY <1>7, <5>2
        <5>4. QED
          BY <1>1, <5>3 DEF Senders
      <4>2. QED
        BY <2>4, <4>1
    <3>3. \A k \in Superpeer : request'[k] # Unknown => k \in handled'
      BY <1>1, <2>4 DEF Senders, FloodTyped
    <3>4. QED
      BY <1>8, <3>1, <3>2, <3>3 DEF Senders
  <2>7. CASE due \subseteq handled \/ misled \/ n \in handled
    BY <2>1, <2>4, <2>5, <2>6, <2>7, <1>1 DEF FloodInv
  <2>8. CASE Spreading /\ ~misled /\ n \notin handled
    <3>1. Cardinality(handled') = Cardinality(handled) + 1 /\ Cardinality(handled) \in Nat
      BY <1>1, <2>4, <2>8, HandledCount
    <3>2. TTL < Head(c) + Cardinality(handled)
      BY <1>3, <2>8 DEF Spreading, Spent
    <3>3. CASE ttl = 0
      <4>1. TTL < Cardinality(handled')
        BY <1>1, <1>3, <2>2, <3>1, <3>2, <3>3
      <4>2. handled' = Superpeer
        <5>1. handled' \subseteq Superpeer
          BY <1>1, <2>4 DEF FloodTyped
        <5>2. QED
          BY ONLY <4>1, <5>1, AllHandled
      <4>3. due' \subseteq handled'
        BY <1>1, <2>1, <4>2 DEF FloodTyped
      <4>4. QED
        BY <2>5, <2>6, <4>3 DEF FloodInv
    <3>4. CASE ttl > 0
      <4>0. \A k, m \in Superpeer : Append(rest[k][m], ttl) # <<>>
        <5>1. ASSUME NEW k \in Superpeer, NEW m \in Superpeer
              PROVE  Append(rest[k][m], ttl) # <<>>
          <6>1. rest[k][m] \in Seq(1..TTL)
            BY <1>5
          <6>2. QED
            BY ONLY <6>1, LongerChannel
        <5>2. QED
          BY <5>1
      <4>1. \A k, m \in Superpeer : rest[k][m] # <<>> => chan'[k][m] # <<>>
        <5>1. \A k, m \in Superpeer :
                 chan'[k][m] = rest[k][m] \/ chan'[k][m] = Append(rest[k][m], ttl)
          BY <2>3
        <5>2. QED
          BY ONLY <4>0, <5>1
      <4>2. \A m \in targets \cap Superpeer : chan'[n][m] # <<>>
        BY <2>3, <3>4, <4>0
      <4>3. ASSUME NEW k \in handled, NEW m \in Near(k)
            PROVE  m \in handled' \/ \E l \in Superpeer : chan'[l][m] # <<>>
        <5>1. m \in handled \/ \E l \in Superpeer : chan[l][m] # <<>>
          BY <2>8 DEF Spreading, Covered
        <5>2. m \in Superpeer
          BY DEF Near
        <5>3. m # n => \A l \in Superpeer : rest[l][m] = chan[l][m]
          BY <1>5, <5>2
        <5>4. QED
          BY <2>4, <4>1, <5>1, <5>2, <5>3
      <4>4. ASSUME NEW m \in Near(n)
            PROVE  m \in handled' \/ \E l \in Superpeer : chan'[l][m] # <<>>
        <5>1. m \in Superpeer
          BY DEF Near
        <5>2. CASE m \in targets
          BY <4>2, <5>1, <5>2
        <5>3. CASE m = from
          BY <1>4, <2>4, <5>3
        <5>4. CASE m \in list /\ m # from
          <6>1. m \in Near(from)
            BY <2>8, <5>1, <5>4 DEF misled, Misled, Near
          <6>2. QED
            BY <1>4, <4>3, <6>1
        <5>5. m \in Readers(n)
          BY <2>8 DEF Spreading, AllRead
        <5>6. QED
          BY <5>2, <5>3, <5>4, <5>5 DEF targets, Skipped
      <4>5. Covered'
        <5>1. \A k : Near(k)' = Near(k)
          BY <1>8 DEF Near, net_vars
        <5>2. QED
          BY <2>4, <4>3, <4>4, <5>1 DEF Covered
      <4>6. Spent'
        <5>1. ASSUME NEW k \in Superpeer, NEW m \in Superpeer, NEW i \in DOMAIN chan'[k][m]
              PROVE  TTL < chan'[k][m][i] + Cardinality(handled')
          <6>1. \A j \in DOMAIN rest[k][m] : TTL < rest[k][m][j] + Cardinality(handled')
            <7>1. \A j \in DOMAIN chan[k][m] :
                     TTL < chan[k][m][j] + Cardinality(handled) /\ chan[k][m][j] \in Nat
              <8>1. chan[k][m] \in Seq(1..TTL)
                BY <1>2
              <8>2. \A q \in Seq(1..TTL) : \A j \in DOMAIN q : q[j] \in Nat
                BY <1>1
              <8>3. QED
                BY <2>8, <8>1, <8>2 DEF Spreading, Spent
            <7>2. QED
              BY <1>1, <1>6, <3>1, <7>1
          <6>2. CASE k = n /\ m \in targets
            <7>0. rest[k][m] \in Seq(1..TTL)
              BY <1>5
            <7>1. chan'[k][m] = Append(rest[k][m], ttl) /\ rest[k][m] \in Seq(1..TTL)
              BY ONLY <2>3, <3>4, <6>2, <7>0
            <7>2. \/ chan'[k][m][i] = ttl
                  \/ \E j \in DOMAIN rest[k][m] : chan'[k][m][i] = rest[k][m][j]
              BY <7>1, LongerChannel
            <7>3. TTL < ttl + Cardinality(handled')
              BY <1>1, <1>3, <2>2, <3>1, <3>2
            <7>4. QED
              BY <6>1, <7>2, <7>3
          <6>3. CASE ~(k = n /\ m \in targets)
            BY <2>3, <6>1, <6>3
          <6>4. QED
            BY <6>2, <6>3
        <5>2. QED
          BY <5>1 DEF Spent
      <4>7. Spreading'
        <5>1. AllRead'
          BY <1>8, <2>8 DEF Spreading, AllRead, Readers, Near, net_vars
        <5>2. QED
          BY <1>9, <2>1, <2>4, <2>8, <4>5, <4>6, <5>1 DEF Spreading
      <4>8. QED
        BY <2>5, <2>6, <4>7 DEF FloodInv
    <3>5. QED
      BY <2>2, <3>3, <3>4
  <2>9. QED
    BY <1>1, <2>7, <2>8
<1>12. QED
  BY <1>10, <1>11

\* The query is put to the superpeer, for the first time or once more.
LEMMA AskKeeps == ASSUME FloodInv, Ask PROVE FloodInv'
<1>1. /\ FloodTyped /\ Senders /\ (due \subseteq handled \/ Spreading)
      /\ TTL \in Nat /\ Asked \in Superpeer /\ RequestTTL \in Nat
  BY FloodAssumption DEF FloodInv, FloodAssumption
<1>2. UNCHANGED <<net_vars, known, changes>>
  BY DEF Ask
<1>3. \A S : Component(S)' = Component(S)
  BY <1>2 DEF Component, Closed, Near, net_vars
<1>4. CASE request[Asked] # Unknown
  <2>1. UNCHANGED <<request, handled, chan, asks, due>>
    BY <1>4 DEF Ask
  <2>2. QED
    BY <1>1, <1>2, <1>3, <2>1
       DEF FloodInv, FloodTyped, Senders, Spreading, Covered, Spent, Near, AllRead, Readers,
           net_vars
<1>5. CASE request[Asked] = Unknown
  <2>1. /\ asks' = asks + 1 /\ asks \in Nat
        /\ request' = [request EXCEPT ![Asked] = RequestTTL]
        /\ handled' = handled \cup {Asked}
        /\ chan' = Send(chan, Asked, Readers(Asked), TTL)
        /\ due' = IF asks = 0 /\ AllRead THEN Component({Asked}) ELSE due
    BY <1>1, <1>5 DEF Ask, Remember, FloodTyped
  <2>2. /\ chan \in [Superpeer -> [Superpeer -> Seq(1..TTL)]]
        /\ TTL \in 0..TTL
    BY <1>1 DEF FloodTyped
  <2>3. /\ chan' \in [Superpeer -> [Superpeer -> Seq(1..TTL)]]
        /\ \A k, m \in Superpeer :
              chan'[k][m] = IF k = Asked /\ m \in Readers(Asked) /\ TTL > 0
                            THEN Append(chan[k][m], TTL) ELSE chan[k][m]
    <3>1. \A d : d = Send(chan, Asked, Readers(Asked), TTL) =>
                     AfterSend(d, chan, Asked, Readers(Asked), TTL)
      BY ONLY <1>1, <2>2, SendProperties, Zenon
    <3>2. AfterSend(chan', chan, Asked, Readers(Asked), TTL)
      BY <2>1, <3>1
    <3>3. QED
      BY <3>2 DEF AfterSend
  <2>4. FloodTyped'
    <3>1. Component({Asked}) \subseteq Superpeer
      BY DEF Component
    <3>2. handled' \subseteq Superpeer /\ due' \subseteq Superpeer
      <4>1. due' = Component({Asked}) \/ due' = due
        BY <2>1, Zenon
      <4>2. handled \subseteq Superpeer /\ due \subseteq Superpeer
        BY <1>1 DEF FloodTyped
      <4>3. due' \subseteq Superpeer
        BY ONLY <3>1, <4>1, <4>2, Zenon
      <4>4. handled' = handled \cup {Asked}
        BY <2>1
      <4>5. Asked \in Superpeer
        BY <1>1
      <4>6. QED
        BY ONLY <4>2, <4>3, <4>4, <4>5
    <3>3. request' \in [Superpeer -> Int] /\ asks' \in Nat
      BY <1>1, <2>1 DEF FloodTyped
    <3>4. known' \in [Superpeer -> [Superpeer -> SUBSET AnyList]]
      BY <1>1, <1>2 DEF FloodTyped
    <3>5. QED
      BY <2>3, <3>2, <3>3, <3>4 DEF FloodTyped
  <2>5. Senders'
    <3>1. ASSUME NEW k \in Superpeer, NEW m \in Superpeer, chan'[k][m] # <<>>, k # Asked
          PROVE  k \in handled
      BY <1>1, <2>3, <3>1 DEF Senders
    <3>2. asks' # 0
      BY <2>1
    <3>3. QED
      BY <1>1, <2>1, <3>1, <3>2 DEF Senders, FloodTyped
  <2>6. CASE due \subseteq handled /\ (asks # 0 \/ ~AllRead)
    BY <2>1, <2>4, <2>5, <2>6 DEF FloodInv
  <2>7. CASE (asks = 0 /\ AllRead) \/ Spreading
    <3>1. /\ asks = 0 => handled = {}
          /\ \A k, m \in Superpeer : asks = 0 => chan[k][m] = <<>>
      BY <1>1 DEF Senders
    <3>2. /\ Cardinality(handled') \in Nat /\ Cardinality(handled') >= 1
          /\ asks # 0 => handled' = handled
      <4>1. FloodTyped' /\ Asked \in handled'
        BY <2>1, <2>4
      <4>2. asks # 0 => handled' = handled
        BY <2>1, <2>7 DEF Spreading
      <4>3. IsFiniteSet(handled')
        BY <4>1, FS_Subset, FloodAssumption DEF FloodTyped, FloodAssumption
      <4>4. QED
        BY <4>1, <4>2, <4>3, FS_CardinalityType, FS_EmptySet
    <3>3. Covered'
      <4>0. \A k, m \in Superpeer : Append(chan[k][m], TTL) # <<>>
        <5>1. ASSUME NEW k \in Superpeer, NEW m \in Superpeer
              PROVE  Append(chan[k][m], TTL) # <<>>
          <6>1. chan[k][m] \in Seq(1..TTL)
            BY <2>2
          <6>2. QED
            BY ONLY <6>1, LongerChannel
        <5>2. QED
          BY <5>1
      <4>1. \A m \in Near(Asked) : TTL > 0
        <5>1. ASSUME NEW m \in Near(Asked), TTL = 0 PROVE FALSE
          <6>1. m \in Superpeer /\ m # Asked
            BY DEF Near
          <6>2. {Asked} \subseteq Superpeer /\ Cardinality({Asked}) = 1
            BY <1>1, FS_Singleton
          <6>3. {Asked} = Superpeer
            BY ONLY <5>1, <6>2, AllHandled
          <6>4. QED
            BY <6>1, <6>3
        <5>2. QED
          BY <1>1, <5>1
      <4>2. \A m \in Near(Asked) : chan'[Asked][m] # <<>>
        <5>1. Near(Asked) \subseteq Superpeer
          BY DEF Near
        <5>2. Readers(Asked) = Near(Asked)
          BY <1>1, <2>7 DEF Spreading, AllRead
        <5>3. QED
          BY <1>1, <2>3, <4>0, <4>1, <5>1, <5>2
      <4>3. ASSUME NEW k \in handled, NEW m \in Near(k)
            PROVE  m \in handled \/ \E l \in Superpeer : chan'[l][m] # <<>>
        <5>1. m \in handled \/ \E l \in Superpeer : chan[l][m] # <<>>
          BY <2>7, <3>1 DEF Spreading, Covered
        <5>2. m \in Superpeer
          BY DEF Near
        <5>3. \A l \in Superpeer :
                 chan'[l][m] = chan[l][m] \/ chan'[l][m] = Append(chan[l][m], TTL)
          BY <2>3, <5>2
        <5>4. \A l \in Superpeer : chan[l][m] # <<>> => chan'[l][m] # <<>>
          BY ONLY <4>0, <5>2, <5>3
        <5>5. QED
          BY ONLY <5>1, <5>4
      <4>4. \A k : Near(k)' = Near(k)
        BY <1>2 DEF Near, net_vars
      <4>5. QED
        BY <1>1, <2>1, <4>2, <4>3, <4>4 DEF Covered
    <3>4. Spent'
      <4>1. ASSUME NEW k \in Superpeer, NEW m \in Superpeer, NEW i \in DOMAIN chan'[k][m]
            PROVE  TTL < chan'[k][m][i] + Cardinality(handled')
        <5>1. chan[k][m] \in Seq(1..TTL)
          BY <2>2
        <5>2. \A j \in DOMAIN chan[k][m] : TTL < chan[k][m][j] + Cardinality(handled')
          <6>1. CASE asks = 0
            <7>1. DOMAIN chan[k][m] = {}
              BY <3>1, <6>1
            <7>2. QED
              BY <7>1
          <6>2. CASE asks # 0
            BY <2>7, <3>2, <6>2 DEF Spreading, Spent
          <6>3. QED
            BY <6>1, <6>2
        <5>3. TTL < TTL + Cardinality(handled')
          BY <1>1, <3>2
        <5>4. CASE chan'[k][m] = Append(chan[k][m], TTL)
          <6>1. chan'[k][m][i] = TTL \/ \E l \in DOMAIN chan[k][m] : chan'[k][m][i] = chan[k][m][l]
            BY <5>1, <5>4, LongerChannel
          <6>2. QED
            BY <5>2, <5>3, <6>1
        <5>5. CASE chan'[k][m] = chan[k][m]
          BY <5>2, <5>5
        <5>6. QED
          BY <2>3, <5>4, <5>5
      <4>2. QED
        BY <4>1 DEF Spent
    <3>5. Spreading'
      <4>1. due' \subseteq Component({Asked})
        BY <2>1, <2>7 DEF Spreading
      <4>2. AllRead'
        BY <1>2, <2>7 DEF Spreading, AllRead, Readers, Near, net_vars
      <4>3. QED
        BY <1>3, <2>1, <3>3, <3>4, <4>1, <4>2 DEF Spreading
    <3>6. QED
      BY <2>4, <2>5, <3>5 DEF FloodInv
  <2>8. QED
    BY <1>1, <2>6, <2>7
<1>6. QED
  BY <1>4, <1>5

\* A superpeer that comes or goes: if copies are under way nothing is promised
\* any more, otherwise the flood is over and has come to all.
LEMMA ChangeKeeps ==
    ASSUME FloodInv, Change, FloodTyped',
           \A n, m \in Superpeer : chan'[n][m] \in {chan[n][m], <<>>},
           \A n \in Superpeer : request'[n] \in {request[n], Unknown}
    PROVE  FloodInv'
<1>1. /\ FloodTyped /\ Senders /\ (due \subseteq handled \/ Spreading)
  BY DEF FloodInv
<1>2. /\ due' = (IF Quiet THEN due ELSE {}) /\ asks' = asks /\ handled' = handled
  BY DEF Change
<1>3. due' \subseteq handled'
  BY <1>1, <1>2, SpreadOut
<1>4. Senders'
  BY <1>1, <1>2 DEF Senders
<1>5. QED
  BY <1>3, <1>4 DEF FloodInv

LEMMA JoinKeeps ==
    ASSUME FloodInv, NEW n \in Superpeer, NEW others, JoinOverlay(n, others)
    PROVE  FloodInv'
<1>1. Change /\ UNCHANGED <<known, chan, request>>
  BY DEF JoinOverlay
<1>2. FloodTyped'
  BY <1>1 DEF Change, FloodInv, FloodTyped
<1>3. QED
  BY <1>1, <1>2, ChangeKeeps

LEMMA LeaveKeeps ==
    ASSUME FloodInv, NEW n \in Superpeer, LeaveOverlay(n)
    PROVE  FloodInv'
<1>1. /\ Change /\ FloodTyped
      /\ known' = [m \in Superpeer |-> [k \in Superpeer |->
                      IF n \in {m, k} THEN AnyList ELSE known[m][k]]]
      /\ chan' = [m \in Superpeer |-> [k \in Superpeer |->
                     IF n \in {m, k} THEN <<>> ELSE chan[m][k]]]
      /\ request' = [request EXCEPT ![n] = Unknown]
  BY DEF LeaveOverlay, FloodInv
<1>2. chan' \in [Superpeer -> [Superpeer -> Seq(1..TTL)]]
  <2>1. <<>> \in Seq(1..TTL)
    OBVIOUS
  <2>2. \A m, k \in Superpeer : chan[m][k] \in Seq(1..TTL)
    BY <1>1 DEF FloodTyped
  <2>3. QED
    BY <1>1, <2>1, <2>2
<1>3. FloodTyped'
  BY <1>1, <1>2 DEF Change, FloodTyped, Unknown
<1>4. \A k, m \in Superpeer : chan'[k][m] \in {chan[k][m], <<>>}
  BY <1>1
<1>5. \A k \in Superpeer : request'[k] \in {request[k], Unknown}
  BY <1>1 DEF FloodTyped
<1>6. QED
  BY <1>1, <1>3, <1>4, <1>5, ChangeKeeps

LEMMA StallKeeps ==
    ASSUME FloodInv, NEW n \in Superpeer, Stall(n)
    PROVE  FloodInv'
<1>1. /\ Change /\ FloodTyped /\ UNCHANGED <<known, request>>
      /\ chan' = [m \in Superpeer |-> [chan[m] EXCEPT ![n] = <<>>]]
  BY DEF Stall, FloodInv
<1>2. \A m \in Superpeer : chan[m] \in [Superpeer -> Seq(1..TTL)]
  BY <1>1 DEF FloodTyped
<1>3. <<>> \in Seq(1..TTL)
  OBVIOUS
<1>4. /\ chan' \in [Superpeer -> [Superpeer -> Seq(1..TTL)]]
      /\ \A k, m \in Superpeer : chan'[k][m] \in {chan[k][m], <<>>}
  BY <1>1, <1>2, <1>3
<1>5. FloodTyped'
  BY <1>1, <1>4 DEF Change, FloodTyped
<1>6. QED
  BY <1>1, <1>4, <1>5, ChangeKeeps

\* Steps that touch neither copies nor connections.
LEMMA AsideKeeps ==
    ASSUME FloodInv, FloodTyped', UNCHANGED <<links, reads, chan, asks, handled, due>>,
           \A n \in Superpeer : request'[n] # Unknown => n \in handled
    PROVE  FloodInv'
<1>1. Senders'
  BY DEF FloodInv, Senders
<1>2. \A k : Near(k)' = Near(k)
  BY DEF Near
<1>3. Component({Asked})' = Component({Asked})
  BY DEF Component, Closed, Near
<1>4. Spreading => Spreading'
  BY <1>2, <1>3 DEF Spreading, Covered, Spent, AllRead, Readers
<1>5. QED
  BY <1>1, <1>4 DEF FloodInv

LEMMA PingKeeps == ASSUME FloodInv, NEW n \in Superpeer, Ping(n) PROVE FloodInv'
<1> DEFINE list == Near(n) \cup {m \in Superpeer : <<n, m>> \in gone}
<1>1. /\ known' = [m \in Superpeer |->
                      IF m \in Readers(n) THEN [known[m] EXCEPT ![n] = {list}] ELSE known[m]]
      /\ UNCHANGED <<net_vars, chan, request, asks, changes, handled, due>>
  BY DEF Ping
<1>2. FloodTyped'
  <2>1. {list} \in SUBSET AnyList
    BY DEF Near, AnyList
  <2> HIDE DEF list
  <2>2. QED
    BY <1>1, <2>1 DEF FloodInv, FloodTyped
<1>3. QED
  BY <1>1, <1>2, AsideKeeps DEF FloodInv, Senders, net_vars

LEMMA CheckKeeps == ASSUME FloodInv, NEW n \in Superpeer, CheckRequests(n) PROVE FloodInv'
<1>1. /\ request[n] # Unknown
      /\ request' = [request EXCEPT ![n] = IF @ = 0 THEN Unknown ELSE @ - 1]
      /\ UNCHANGED <<net_vars, known, chan, asks, changes, handled, due>>
  BY DEF CheckRequests
<1>2. FloodTyped'
  BY <1>1 DEF FloodInv, FloodTyped, Unknown
<1>3. \A k \in Superpeer : request'[k] # Unknown => k \in handled
  BY <1>1 DEF FloodInv, FloodTyped, Senders
<1>4. QED
  BY <1>1, <1>2, <1>3, AsideKeeps DEF net_vars

LEMMA FloodStep == FloodInv /\ [FloodNext]_flood_vars => FloodInv'
<1> SUFFICES ASSUME FloodInv, [FloodNext]_flood_vars PROVE FloodInv'
  OBVIOUS
<1>1. CASE Ask
  BY <1>1, AskKeeps
<1>2. CASE \E n, m \in Superpeer : Receive(n, m)
  BY <1>2, ArrivalKeeps
<1>3. CASE \E n \in Superpeer : Ping(n)
  BY <1>3, PingKeeps
<1>4. CASE \E n \in Superpeer : CheckRequests(n)
  BY <1>4, CheckKeeps
<1>5. CASE \E n \in Superpeer : LeaveOverlay(n)
  BY <1>5, LeaveKeeps
<1>6. CASE \E n \in Superpeer, others \in SUBSET (running \ stalled) : JoinOverlay(n, others)
  BY <1>6, JoinKeeps
<1>7. CASE \E n \in Superpeer : Stall(n)
  BY <1>7, StallKeeps
<1>8. CASE UNCHANGED flood_vars
  <2>1. UNCHANGED <<net_vars, known, chan, request, asks, changes, handled, due>>
    BY <1>8 DEF flood_vars, net_vars
  <2>2. FloodTyped'
    BY <2>1 DEF FloodInv, FloodTyped
  <2>3. QED
    BY <2>1, <2>2, AsideKeeps DEF FloodInv, Senders, net_vars
<1>9. QED
  BY <1>1, <1>2, <1>3, <1>4, <1>5, <1>6, <1>7, <1>8 DEF FloodNext

\* When no copy is on its way the query has been handled by all superpeers that
\* were connected with the one asked, in an overlay of any form and any number
\* of superpeers the TTL allows for, though each sends the query to some of its
\* neighbours only and takes no copy but the first.
THEOREM FloodReachesAll == FloodSpec => []AllReached
<1>1. FloodInv => AllReached
  BY SpreadOut DEF FloodInv, AllReached
<1>2. QED
  BY FloodStart, FloodStep, <1>1, PTL DEF FloodSpec
=============================================================================
