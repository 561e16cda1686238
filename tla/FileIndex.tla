------------------------------ MODULE FileIndex ------------------------------
(***************************************************************************)
(* The file index of a superpeer (hashtable.c): one table of its files by  *)
(* name, one by address and one by md5, each a row of buckets, each bucket *)
(* a list of nodes, each node a list.  One file of one peer is an element  *)
(* of one list of each table; the three elements point at each other.      *)
(*                                                                         *)
(* The main thread enters and removes files as UPDATE_FILE_LIST, LEAVE and *)
(* REGISTER come in; the checker removes the files of a silent peer.  They *)
(* have no lock in common.  The loop of the checker is one action per      *)
(* file; what happens when both change one list at the same instant is not *)
(* modelled, that the checker stands on a file that is freed is.           *)
(***************************************************************************)
EXTENDS Integers, Sequences, SequencesExt, FiniteSets, Lists

CONSTANTS
    Name,       \* names of files
    Prefix,     \* the pairs <<s, n>> of names such that n begins with s
    Md5,
    Peer,       \* the peers, pairs of an address and a port
    FileHash,   \* the buckets: filehash of a name, of an md5, and iphash
    Md5Hash,
    IpHash,
    MaxFiles    \* bound: entries in the index

Ip == {p[1] : p \in Peer}

ASSUME FileIndexAssumption ==
    /\ Prefix \subseteq Name \X Name
    /\ \A n \in Name : <<n, n>> \in Prefix
    /\ Peer # {}
    /\ DOMAIN FileHash = Name /\ DOMAIN Md5Hash = Md5 /\ DOMAIN IpHash = Ip
    /\ MaxFiles \in Nat

VARIABLES
    hash_file,  \* the tables: in each bucket nodes [key, list]
    hash_md5,
    hash_ip,
    checker,    \* "idle", "sweep", "lost" or "crashed"
    silent,     \* the peer whose files the checker removes
    cursor,     \* its file_info_app: one entry in a sweep, else none
    doomed,     \* history: the entries it found and that are still there
    served      \* history: the peer the last change was made for

tables == <<hash_file, hash_md5, hash_ip>>
vars == <<tables, checker, silent, cursor, doomed, served>>

\* A file_info, an addr_node and an md5_info that point at each other; name is
\* that of the file_node.
Entry == [name : Name, md5 : Md5, peer : Peer]

Nodes(table) == UNION {ToSet(table[k]) : k \in DOMAIN table}
Files == UNION {ToSet(node.list) : node \in Nodes(hash_file)}

Up == checker # "crashed"

-----------------------------------------------------------------------------
(* Nodes and lists *)

\* The place of the first node of a bucket whose key passes the test, or 0.
Find(bucket, Test(_)) == SelectInSeq(bucket, LAMBDA node : Test(node.key))

\* A new element goes to the head of the list of the node at place i, or to a
\* new node for key k at the end of the bucket if i is 0.
AddAt(bucket, i, k, e) ==
    IF i = 0 THEN Append(bucket, [key |-> k, list |-> <<e>>])
             ELSE [bucket EXCEPT ![i].list = <<e>> \o @]

\* insert_ip_node and insert_md5_node.
AddNode(bucket, k, e) == AddAt(bucket, Find(bucket, LAMBDA key : key = k), k, e)

\* Variant: a list that loses its last element leaves an empty node behind.
HollowWithout(bucket, es) ==
    [i \in DOMAIN bucket |-> [bucket[i] EXCEPT !.list = Minus(@, es)]]

\* remove_addr_node, remove_md5_info and remove_file_info of some entries: a
\* node goes with its last element.
Without(bucket, es) ==
    LET less == [i \in DOMAIN bucket |-> [bucket[i] EXCEPT !.list = Minus(@, es)]]
    IN  Picked(less, {i \in DOMAIN less : less[i].list # <<>>})

\* The three elements of each entry are removed.
Drop(es) ==
    /\ hash_md5' = [k \in DOMAIN hash_md5 |-> Without(hash_md5[k], es)]
    /\ hash_file' = [k \in DOMAIN hash_file |-> Without(hash_file[k], es)]
    /\ hash_ip' = [k \in DOMAIN hash_ip |-> Without(hash_ip[k], es)]

\* The list of the files at an address, of all its ports; empty if there is no
\* node.
FilesAt(ip) ==
    LET bucket == hash_ip[IpHash[ip]]
        i == Find(bucket, LAMBDA key : key = ip)
    IN  IF i = 0 THEN <<>> ELSE bucket[i].list

-----------------------------------------------------------------------------
(* The main thread *)

\* insert_file.  A node fits if its name begins with the one given; an entry
\* that is there is not entered twice.
InsertFile(n, m, p) ==
    LET bucket == hash_file[FileHash[n]]
        i == Find(bucket, LAMBDA key : <<n, key>> \in Prefix)
        name == IF i = 0 THEN n ELSE bucket[i].key
        e == [name |-> name, md5 |-> m, peer |-> p]
    IN  /\ Up
        /\ Cardinality(Files) < MaxFiles
        /\ e \notin Files
        /\ hash_file' = [hash_file EXCEPT ![FileHash[n]] = AddAt(@, i, n, e)]
        /\ hash_ip' = [hash_ip EXCEPT ![IpHash[p[1]]] = AddNode(@, p[1], e)]
        /\ hash_md5' = [hash_md5 EXCEPT ![Md5Hash[m]] = AddNode(@, m, e)]
        /\ served' = p
        /\ UNCHANGED <<checker, silent, cursor, doomed>>

\* The main thread removes entries for p; the checker may stand on one of them.
MainRemoves(p, es) ==
    /\ Up
    /\ Drop(es)
    /\ served' = p
    /\ doomed' = doomed \ es
    /\ IF ToSet(cursor) \cap es = {} THEN UNCHANGED <<checker, cursor>>
       ELSE checker' = "lost" /\ cursor' = <<>>
    /\ UNCHANGED silent

\* Variant: the port is not looked at.
AnyPortRemoveFile(n, m, p) ==
    LET list == FilesAt(p[1])
        i == SelectInSeq(list, LAMBDA e : <<n, e.name>> \in Prefix /\ e.md5 = m)
    IN  i # 0 /\ MainRemoves(p, {list[i]})

\* remove_file: the first entry at the address whose name begins with the one
\* given, of that port and md5.
RemoveFile(n, m, p) ==
    LET list == FilesAt(p[1])
        i == SelectInSeq(list, LAMBDA e :
                 <<n, e.name>> \in Prefix /\ e.peer = p /\ e.md5 = m)
    IN  i # 0 /\ MainRemoves(p, {list[i]})

\* Variant: the port is not looked at.
AnyPortRemoveAllFile(p) ==
    LET es == ToSet(FilesAt(p[1]))
    IN  es # {} /\ MainRemoves(p, es)

\* remove_all_file as the main thread calls it.
RemoveAllFile(p) ==
    LET es == {e \in ToSet(FilesAt(p[1])) : e.peer = p}
    IN  es # {} /\ MainRemoves(p, es)

-----------------------------------------------------------------------------
(* The checker *)

\* It calls remove_all_file for a peer that was silent.
StartRemoveAll(p) ==
    /\ checker = "idle"
    /\ FilesAt(p[1]) # <<>>
    /\ checker' = "sweep"
    /\ silent' = p
    /\ cursor' = <<Head(FilesAt(p[1]))>>
    /\ doomed' = {e \in ToSet(FilesAt(p[1])) : e.peer = p}
    /\ UNCHANGED <<tables, served>>

\* The checker is done with its entry and reads the pointer to the next, from a
\* node it may have freed; it is still there.
Advance ==
    LET list == FilesAt(cursor[1].peer[1])
        i == SelectInSeq(list, LAMBDA e : e = cursor[1])
    IN  /\ cursor' = SubSeq(list, i + 1, Min({i + 1, Len(list)}))
        /\ checker' = IF i < Len(list) THEN "sweep" ELSE "idle"

\* It removes the entry.
CheckerRemoves ==
    /\ Drop(ToSet(cursor))
    /\ doomed' = doomed \ ToSet(cursor)
    /\ served' = silent

\* Variant: the entry is removed and looked at again.
StuckSweepFile ==
    /\ checker = "sweep"
    /\ IF cursor[1].peer = silent
       THEN CheckerRemoves /\ UNCHANGED <<checker, cursor>>
       ELSE Advance /\ UNCHANGED <<tables, doomed, served>>
    /\ UNCHANGED silent

\* Variant: the loop ends at a file of another port.
ShortSweepFile ==
    /\ checker = "sweep"
    /\ IF cursor[1].peer = silent
       THEN Advance /\ CheckerRemoves
       ELSE checker' = "idle" /\ cursor' = <<>> /\ UNCHANGED <<tables, doomed, served>>
    /\ UNCHANGED silent

\* Variant: the port is not looked at.
AnyPortSweepFile ==
    /\ checker = "sweep"
    /\ Advance
    /\ CheckerRemoves
    /\ UNCHANGED silent

\* One turn of the loop.
SweepFile ==
    /\ checker = "sweep"
    /\ Advance
    /\ IF cursor[1].peer = silent
       THEN CheckerRemoves
       ELSE UNCHANGED <<tables, doomed, served>>
    /\ UNCHANGED silent

\* The file under the checker was freed and its node is something else by now.
FollowFreed ==
    /\ checker = "lost"
    /\ checker' = "crashed"
    /\ UNCHANGED <<tables, silent, cursor, doomed, served>>

-----------------------------------------------------------------------------
\* init_hashtable.
Init ==
    /\ hash_file = [k \in Range(FileHash) |-> <<>>]
    /\ hash_md5 = [k \in Range(Md5Hash) |-> <<>>]
    /\ hash_ip = [k \in Range(IpHash) |-> <<>>]
    /\ checker = "idle"
    /\ silent = CHOOSE p \in Peer : TRUE
    /\ cursor = <<>>
    /\ doomed = {}
    /\ served = CHOOSE p \in Peer : TRUE

Serve ==
    \E p \in Peer :
        \/ \E n \in Name, m \in Md5 : InsertFile(n, m, p) \/ RemoveFile(n, m, p)
        \/ RemoveAllFile(p)

Check ==
    \/ \E p \in Peer : StartRemoveAll(p)
    \/ SweepFile \/ FollowFreed

Next == Serve \/ Check

\* The checker is a thread of its own.
Spec == Init /\ [][Next]_vars /\ WF_vars(SweepFile \/ FollowFreed)

-----------------------------------------------------------------------------
(* Properties *)

\* Every variable has its type.
TypeOK ==
    /\ Files \subseteq Entry
    /\ checker \in {"idle", "sweep", "lost", "crashed"}
    /\ silent \in Peer
    /\ cursor \in {<<e>> : e \in Files} \cup {<<>>}
    /\ checker = "sweep" <=> cursor # <<>>
    /\ doomed \subseteq Files
    /\ served \in Peer

NameOf == [e \in Entry |-> e.name]
Md5Of == [e \in Entry |-> e.md5]
IpOf == [e \in Entry |-> e.peer[1]]

\* bucket holds the entries es, each once and under its key, and no node that
\* is empty or a second one for its key.
BucketHolds(bucket, key, es) ==
    /\ es = UNION {ToSet(node.list) : node \in ToSet(bucket)}
    /\ \A node \in ToSet(bucket) :
          /\ node.list # <<>> /\ IsInjective(node.list)
          /\ \A e \in ToSet(node.list) : key[e] = node.key
    /\ \A i, j \in DOMAIN bucket : bucket[i].key = bucket[j].key => i = j

\* table holds the entries es, each in its bucket.
Holds(table, key, hash, es) ==
    \A b \in DOMAIN table : BucketHolds(table[b], key, {e \in es : hash[key[e]] = b})

\* The three tables never disagree, whatever collides and whatever names begin
\* with others: what a WHOHAS by name finds, one by md5 finds too, and a LEAVE
\* removes it (insert_file, remove_file, remove_all_file).
TablesAgree ==
    /\ Holds(hash_file, NameOf, FileHash, Files)
    /\ Holds(hash_md5, Md5Of, Md5Hash, Files)
    /\ Holds(hash_ip, IpOf, IpHash, Files)

\* The index implements a set of entries of which each operation changes those of
\* one peer, the one it is done for: neither remove_file and remove_all_file of the
\* main thread nor the loop of the checker, each of which looks the peer up by its
\* address and tells it by its port, takes a file another peer has.
Abstract == INSTANCE Catalog WITH
    Owner <- [e \in Entry |-> e.peer], entries <- Files

CatalogImplemented == Abstract!Spec

\* What a silent peer shares when the checker comes to it is gone when the
\* checker is done, although the main thread goes on entering and removing
\* files (remove_all_file).
SilentPeerForgotten == checker = "sweep" ~> doomed = {} \/ ~Up
=============================================================================
