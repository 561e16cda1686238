------------------------------- MODULE Overlay -------------------------------
(***************************************************************************)
(* The connections of a superpeer with its neighbours in the overlay       *)
(* (superpeer.c, near_list.c, select_util.c, the main loop of client.c and *)
(* tcp_ping of pinger.c).  The main thread accepts and opens connections,  *)
(* waits on all of them with select and closes those that end; the pinger  *)
(* walks the list of neighbours and sends each a PING.  Entries are added  *)
(* by accept_conn, and read by the pinger, under NEAR_LIST_LOCK; close_conn*)
(* and join_overlay change the list without it.  Each node has a mutex the *)
(* pinger holds while it sends.                                            *)
(*                                                                         *)
(* The array behind select counts what was ever added: when it is full a   *)
(* connection is kept but not watched.  Packets are left out (Flood has    *)
(* them), so a PING's contents are too; a neighbour reads what is sent.    *)
(***************************************************************************)
EXTENDS Integers, Sequences, FiniteSets, SequencesExt

CONSTANTS
    Fd,         \* descriptors there are for connections
    Addr,       \* addresses of neighbours
    MaxTcpSock, \* max_tcp_sock
    Room,       \* MAX_FD_SIZE less the descriptors added for other purposes
    MaxConns    \* bound: connections that come in or are opened

ASSUME OverlayAssumption ==
    /\ Fd \subseteq Nat \ {0} /\ Addr \subseteq Nat \ {0}
    /\ MaxTcpSock \in Nat \ {0} /\ Room \in Nat /\ MaxConns \in Nat

VARIABLES
    sock,       \* of each descriptor: none, up, hung (closed by the neighbour),
                \* reset (hung, and written to since), lost (open, but forgotten)
    near,       \* near_list_head: the nodes [fd, addr]
    near_str, nsock,
    watched,    \* allset
    adds,       \* fd_count, less those of other purposes
    lock,       \* NEAR_LIST_LOCK: none, main or pinger
    main,       \* what the main thread does: at, fd, addr, ready, next
    pinger,     \* what the pinger does: at, fd
    up,         \* the process runs
    conns,
    stale,      \* history: descriptors closed whose node could not be deleted
    beyond      \* history: the addresses written past the end of near_str

vars == <<sock, near, near_str, nsock, watched, adds, lock, main, pinger, up,
          conns, stale, beyond>>

Nobody == 0

Fds == {near[i].fd : i \in DOMAIN near}
Listed(f) == f \in Fds

\* Where the node of f is, the node after it, and the first.
Place(f) == CHOOSE i \in DOMAIN near : near[i].fd = f
After(f) == IF Place(f) < Len(near) THEN near[Place(f) + 1].fd ELSE Nobody
First == IF near = <<>> THEN Nobody ELSE near[1].fd

\* set_near.
Addrs(nodes) == [i \in DOMAIN nodes |-> nodes[i].addr]

\* The address is written after nsock others; there may be fewer.
Written(a) ==
    [i \in 1..nsock + 1 |-> IF i = nsock + 1 THEN a
                           ELSE IF i <= Len(near_str) THEN near_str[i] ELSE Nobody]

AtSelect == [at |-> "select", fd |-> Nobody, addr |-> Nobody, ready |-> {},
             next |-> Nobody]

-----------------------------------------------------------------------------
(* Connections begin *)

\* fd_add.
FdAdd(f) ==
    IF adds < Room
    THEN watched' = watched \cup {f} /\ adds' = adds + 1
    ELSE UNCHANGED <<watched, adds>>

\* insert_near: a new node comes second.  A node with the same descriptor is
\* taken for the same neighbour, or makes it fail.
Conflict(f, a) == \E i \in DOMAIN near : near[i].fd = f /\ near[i].addr # a
InsertNear(f, a) ==
    IF Listed(f) THEN near
    ELSE IF near = <<>> THEN <<[fd |-> f, addr |-> a]>>
    ELSE InsertAt(near, 2, [fd |-> f, addr |-> a])

Comes(f) ==
    /\ up /\ main.at = "select"
    /\ conns < MaxConns /\ conns' = conns + 1
    /\ sock[f] = "none"

\* accept_conn answers a superpeer with ACK and reads its port.
Accept(f, a) ==
    /\ Comes(f) /\ nsock < MaxTcpSock
    /\ sock' = [sock EXCEPT ![f] = "up"]
    /\ FdAdd(f)
    /\ main' = [AtSelect EXCEPT !.at = "insert", !.fd = f, !.addr = a]
    /\ UNCHANGED <<near, near_str, nsock, lock, pinger, up, stale, beyond>>

\* The answer or the port fails, and the descriptor is not closed.
AcceptFails(f) ==
    /\ Comes(f)
    /\ sock' = [sock EXCEPT ![f] = "lost"]
    /\ UNCHANGED <<near, near_str, nsock, watched, adds, lock, main, pinger, up,
                   stale, beyond>>

\* The node is inserted under the lock, which is kept when that fails.
Insert ==
    /\ up /\ main.at = "insert" /\ lock = "none"
    /\ IF Conflict(main.fd, main.addr)
       THEN lock' = "main" /\ main' = AtSelect /\ UNCHANGED <<near, near_str>>
       ELSE /\ near' = InsertNear(main.fd, main.addr)
            /\ near_str' = Addrs(near')
            /\ main' = [main EXCEPT !.at = "count"]
            /\ UNCHANGED lock
    /\ UNCHANGED <<sock, nsock, watched, adds, pinger, up, conns, stale, beyond>>

Count ==
    /\ up /\ main.at = "count"
    /\ nsock' = nsock + 1
    /\ main' = AtSelect
    /\ UNCHANGED <<sock, near, near_str, watched, adds, lock, pinger, up, conns,
                   stale, beyond>>

\* join_overlay connects with one superpeer of its list.  It does not look how many
\* connections there are, and near_str has room for MaxTcpSock addresses.
Join(f, a) ==
    /\ Comes(f)
    /\ \A i \in DOMAIN near : near[i].addr # a
    /\ sock' = [sock EXCEPT ![f] = "up"]
    /\ FdAdd(f)
    /\ IF Conflict(f, a)
       THEN UNCHANGED <<near, near_str, nsock, beyond>>
       ELSE /\ near' = InsertNear(f, a)
            /\ near_str' = Written(a)
            /\ nsock' = nsock + 1
            /\ beyond' = IF nsock < MaxTcpSock THEN beyond ELSE beyond \cup {a}
    /\ UNCHANGED <<lock, main, pinger, up, stale>>

-----------------------------------------------------------------------------
(* Connections end *)

HangUp(f) ==
    /\ up /\ sock[f] = "up"
    /\ sock' = [sock EXCEPT ![f] = "hung"]
    /\ UNCHANGED <<near, near_str, nsock, watched, adds, lock, main, pinger, up,
                   conns, stale, beyond>>

\* select returns: some connections have data to read, and all that hung up are
\* ready as well.
Select(data) ==
    /\ up /\ main.at = "select"
    /\ data \subseteq {f \in watched : sock[f] = "up"}
    /\ LET ready == data \cup {f \in watched : sock[f] \in {"hung", "reset"}}
       IN  /\ ready # {} /\ First # Nobody
           /\ main' = [AtSelect EXCEPT !.at = "walk", !.fd = First, !.ready = ready]
    /\ UNCHANGED <<sock, near, near_str, nsock, watched, adds, lock, pinger, up,
                   conns, stale, beyond>>

\* The walk over the list goes on at a node, if there is more to do.
WalkOn(ready, next) ==
    main' = IF ready = {} \/ next = Nobody THEN AtSelect
            ELSE [AtSelect EXCEPT !.at = "walk", !.fd = next, !.ready = ready]

\* The node is not ready, or tcp_handler reads a packet.
Visit ==
    /\ up /\ main.at = "walk"
    /\ main.fd \in main.ready => sock[main.fd] = "up"
    /\ WalkOn(main.ready \ {main.fd}, After(main.fd))
    /\ UNCHANGED <<sock, near, near_str, nsock, watched, adds, lock, pinger, up,
                   conns, stale, beyond>>

\* close_conn: the descriptor goes first.
Close ==
    /\ up /\ main.at = "walk"
    /\ main.fd \in main.ready /\ sock[main.fd] \in {"hung", "reset"}
    /\ sock' = [sock EXCEPT ![main.fd] = "none"]
    /\ watched' = watched \ {main.fd}
    /\ main' = [main EXCEPT !.at = "delete", !.next = After(main.fd)]
    /\ UNCHANGED <<near, near_str, nsock, adds, lock, pinger, up, conns, stale, beyond>>

\* Variant: the string of addresses is left as it is.
ForgetfulDelete ==
    /\ up /\ main.at = "delete"
    /\ IF pinger = [at |-> "send", fd |-> main.fd]
       THEN /\ stale' = stale \cup {main.fd}
            /\ WalkOn(main.ready \ {main.fd}, main.next)
            /\ UNCHANGED <<near, near_str, nsock, pinger>>
       ELSE /\ near' = RemoveAt(near, Place(main.fd))
            /\ nsock' = nsock - 1
            /\ pinger' = IF pinger.fd = main.fd
                         THEN [at |-> "freed", fd |-> Nobody] ELSE pinger
            /\ main' = [main EXCEPT !.at = "freed", !.ready = @ \ {main.fd}]
            /\ UNCHANGED <<near_str, stale>>
    /\ UNCHANGED <<sock, watched, adds, lock, up, conns, beyond>>

\* The node follows, unless its mutex is taken, which cannot be destroyed then.
\* The pinger may be at the node all the same.
Delete ==
    /\ up /\ main.at = "delete"
    /\ IF pinger = [at |-> "send", fd |-> main.fd]
       THEN /\ stale' = stale \cup {main.fd}
            /\ WalkOn(main.ready \ {main.fd}, main.next)
            /\ UNCHANGED <<near, near_str, nsock, pinger>>
       ELSE /\ near' = RemoveAt(near, Place(main.fd))
            /\ near_str' = Addrs(near')
            /\ nsock' = nsock - 1
            /\ pinger' = IF pinger.fd = main.fd
                         THEN [at |-> "freed", fd |-> Nobody] ELSE pinger
            /\ main' = [main EXCEPT !.at = "freed", !.ready = @ \ {main.fd}]
            /\ UNCHANGED stale
    /\ UNCHANGED <<sock, watched, adds, lock, up, conns, beyond>>

\* The process ends.
Crash == up' = FALSE /\ UNCHANGED <<main, pinger, lock, sock>>

\* If more is ready the loop reads next in the node that was freed: what was
\* there, or junk.
WalkFreed ==
    /\ up /\ main.at = "freed"
    /\ \/ WalkOn(main.ready, main.next) /\ UNCHANGED <<up, pinger, lock, sock>>
       \/ main.ready # {} /\ Crash
    /\ UNCHANGED <<near, near_str, nsock, watched, adds, conns, stale, beyond>>

-----------------------------------------------------------------------------
(* The pinger *)

UnchangedTable ==
    UNCHANGED <<near, near_str, nsock, watched, adds, main, conns, stale, beyond>>

\* tcp_ping ends, with success or not; a failure ends the thread.
ReturnTo(at) == lock' = "none" /\ pinger' = [at |-> at, fd |-> Nobody]

At(where, f) == pinger' = [at |-> where, fd |-> f]

StartPing ==
    /\ up /\ pinger.at = "sleep" /\ lock = "none"
    /\ IF First = Nobody THEN UNCHANGED <<lock, pinger>>
       ELSE lock' = "pinger" /\ At("node", First)
    /\ UNCHANGED <<sock, up>> /\ UnchangedTable

LockNode ==
    /\ up /\ pinger.at = "node"
    /\ At("send", pinger.fd)
    /\ UNCHANGED <<sock, lock, up>> /\ UnchangedTable

\* A neighbour that hung up resets the connection; the second PING to it raises
\* SIGPIPE.  A closed descriptor makes tcp_ping fail.
SendPing ==
    LET s == sock[pinger.fd]
    IN  /\ up /\ pinger.at = "send"
        /\ \/ s = "up" /\ At("next", pinger.fd) /\ UNCHANGED <<sock, lock, up>>
           \/ /\ s = "hung" /\ At("next", pinger.fd)
              /\ sock' = [sock EXCEPT ![pinger.fd] = "reset"]
              /\ UNCHANGED <<lock, up>>
           \/ s = "reset" /\ Crash /\ UNCHANGED main
           \/ s \in {"none", "lost"} /\ ReturnTo("ended") /\ UNCHANGED <<sock, up>>
        /\ UnchangedTable

\* Variant: the end of the list is left with the lock.
KeepingNextNode ==
    /\ up /\ pinger.at = "next"
    /\ IF After(pinger.fd) = Nobody
       THEN pinger' = [at |-> "sleep", fd |-> Nobody] /\ UNCHANGED lock
       ELSE At("node", After(pinger.fd)) /\ UNCHANGED lock
    /\ UNCHANGED <<sock, up>> /\ UnchangedTable

NextNode ==
    /\ up /\ pinger.at = "next"
    /\ IF After(pinger.fd) = Nobody THEN ReturnTo("sleep")
       ELSE At("node", After(pinger.fd)) /\ UNCHANGED lock
    /\ UNCHANGED <<sock, up>> /\ UnchangedTable

\* Its node was freed: it crashes, fails on the mutex or the descriptor, or
\* finds a node or the end of the list.
FollowFreed ==
    /\ up /\ pinger.at = "freed"
    /\ \/ Crash
       \/ ReturnTo("ended") /\ UNCHANGED <<sock, up>>
       \/ ReturnTo("sleep") /\ UNCHANGED <<sock, up>>
       \/ /\ \E i \in DOMAIN near : At("node", near[i].fd)
          /\ UNCHANGED <<sock, lock, up>>
    /\ UnchangedTable

-----------------------------------------------------------------------------
\* A handler waits for retx_mutex, which a retx_send kept that failed (Session), for
\* ever; so does the pinger before it comes to tcp_ping again.
Block ==
    /\ up /\ main.at \in {"select", "walk"}
    /\ main' = [AtSelect EXCEPT !.at = "blocked"]
    /\ UNCHANGED <<sock, near, near_str, nsock, watched, adds, lock, pinger, up,
                   conns, stale, beyond>>

\* What was behind near_str in the heap was overwritten: the process may end.
HeapCorrupted ==
    /\ up /\ beyond # {}
    /\ up' = FALSE
    /\ UNCHANGED <<sock, lock, pinger>> /\ UnchangedTable

Init ==
    /\ sock = [f \in Fd |-> "none"]
    /\ near = <<>> /\ near_str = <<>> /\ nsock = 0
    /\ watched = {} /\ adds = 0
    /\ lock = "none"
    /\ main = AtSelect
    /\ pinger = [at |-> "sleep", fd |-> Nobody]
    /\ up = TRUE
    /\ conns = 0
    /\ stale = {} /\ beyond = {}

Main == Insert \/ Count \/ Visit \/ Close \/ Delete \/ WalkFreed
TcpPing == LockNode \/ SendPing \/ NextNode \/ FollowFreed
Pinger == StartPing \/ TcpPing

Next ==
    \/ \E f \in Fd, a \in Addr : Accept(f, a) \/ Join(f, a)
    \/ \E f \in Fd : AcceptFails(f) \/ HangUp(f)
    \/ \E data \in SUBSET Fd : Select(data)
    \/ Main \/ Pinger \/ Block \/ HeapCorrupted

\* The main thread runs unless it is blocked, what comes in on other descriptors
\* ends some time, and a tcp_ping that began comes to its end.
Spec ==
    /\ Init /\ [][Next]_vars
    /\ WF_vars(\E data \in SUBSET Fd : Select(data))
    /\ WF_vars(Main) /\ WF_vars(TcpPing)

-----------------------------------------------------------------------------
(* Properties *)

\* Back at select the list, the string that PINGs carry, the count and the set
\* of select agree with the connections there are (accept_conn, join_overlay,
\* close_conn), as long as each connection that ended could be deleted, and for
\* select as long as its array had room.  The string has room for all of them until
\* join_overlay adds one to as many as accept_conn takes; nothing is said of what
\* is in memory afterwards.
TableExact ==
    up /\ main.at = "select" /\ stale = {} /\ beyond = {} =>
        /\ nsock = Len(near) /\ nsock <= MaxTcpSock
        /\ Cardinality(Fds) = Len(near)
        /\ Len(near_str) = nsock /\ ToSet(near_str) = ToSet(Addrs(near))
        /\ watched \subseteq Fds
        /\ \A f \in Fds : sock[f] \in {"up", "hung", "reset"}
        /\ adds < Room => Fds \subseteq watched

\* A neighbour that is watched and hangs up is dropped from the list, whatever
\* the pinger does in between, unless its node was taken while it was closed, memory
\* was overwritten, or the main thread is blocked.
NeighbourDropped ==
    \A f \in Fd :
        Listed(f) /\ f \in watched /\ sock[f] \in {"hung", "reset"}
            ~> ~Listed(f) \/ stale # {} \/ beyond # {} \/ main.at = "blocked" \/ ~up
=============================================================================
