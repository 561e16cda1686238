-------------------------------- MODULE Flood --------------------------------
(***************************************************************************)
(* A query (WHOHAS) floods the overlay of superpeers: whohas_request_-     *)
(* handler, flood_overlay and the list of requests of client.c, superpeer.c*)
(* and fifo_request.c.  A superpeer handles a query once while it remembers*)
(* it, and sends it on to its neighbours unless they are, by what it holds *)
(* as the sender's list, neighbours of the sender too.  That is the list of*)
(* the sender's last PING, and before the first one whatever was in memory:*)
(* create_new_near_node leaves it as it was.  A copy may go as many hops as*)
(* its TTL.  Its checker makes a superpeer forget old queries.             *)
(*                                                                         *)
(* One query; the superpeer it was put to may get it again, since peers    *)
(* retransmit.  Connections are TCP: in order, lost only with a superpeer. *)
(* A PING comes to all neighbours at once.  A superpeer whose array behind *)
(* select is full when a connection begins (Overlay) sends to it and never *)
(* reads from it.                                                          *)
(***************************************************************************)
EXTENDS Integers, Sequences, FiniteSets

CONSTANTS
    Superpeer,
    Asked,      \* the one the query is put to
    Overlays,   \* what links and reads may be at the start
    TTL,        \* DEFAULT_TTL
    RequestTTL, \* REQUEST_TTL
    MaxAsks,    \* bound: times the query is new to the one asked
    MaxChanges  \* bound: superpeers that come, go or stall

\* The TTL lasts for the longest detour.
ASSUME FloodAssumption ==
    /\ Asked \in Superpeer /\ IsFiniteSet(Superpeer)
    /\ TTL \in Nat /\ TTL >= Cardinality(Superpeer) - 1
    /\ RequestTTL \in Nat

VARIABLES
    running,    \* the superpeers there are
    links,      \* the connections, sets of two superpeers
    reads,      \* the pairs <<n, m>> such that n reads what m sends
    stalled,    \* those whose main thread waits for a lock that was kept
    gone,       \* the pairs <<n, m>> such that n does not know that m has ended
    known,      \* known[n][m]: what the list n holds for m may be
    chan,       \* chan[n][m]: the TTLs of the copies on their way from n to m
    request,    \* what n remembers: how many passes it will, or Unknown
    asks, changes,
    handled,    \* history: who has handled the query
    due         \* history: who must, while something is promised

net_vars == <<running, stalled, links, reads, gone>>
flood_vars == <<net_vars, known, chan, request, asks, changes, handled, due>>

Unknown == -1

Near(n) == {m \in Superpeer : {n, m} \in links /\ m # n}

\* The neighbours that read what n sends them.
Readers(n) == {m \in Near(n) : <<m, n>> \in reads}
AllRead == \A n \in Superpeer : Readers(n) = Near(n)

\* The list of a node no PING has filled: junk, or that of a freed node.
AnyList == SUBSET Superpeer

\* The superpeers connected with those in S.
Closed(T) == \A n \in T : Near(n) \subseteq T
Component(S) ==
    {n \in Superpeer : \A T \in SUBSET Superpeer : S \subseteq T /\ Closed(T) => n \in T}

Quiet == \A n, m \in Superpeer : chan[n][m] = <<>>

-----------------------------------------------------------------------------
(* The query *)

\* flood_overlay skips these neighbours: who sent the copy, and who is in the list
\* held for it.
Skipped(from, list) == {from} \cup list

\* A neighbour of n is skipped that the sender does not have.
Misled(n, from, list) == \E m \in list \cap Near(n) : {from, m} \notin links

\* n sends a copy to each of these.
Send(c, n, targets, ttl) ==
    [c EXCEPT ![n] = [m \in Superpeer |->
        IF m \in targets /\ ttl > 0 THEN Append(@[m], ttl) ELSE @[m]]]

Remember(n) ==
    /\ request' = [request EXCEPT ![n] = RequestTTL]
    /\ handled' = handled \cup {n}

\* whohas_request_handler for a peer, which may repeat the query, or for the
\* superpeer's own user.
Ask ==
    /\ Asked \in running \ stalled
    /\ IF request[Asked] # Unknown
       THEN UNCHANGED <<request, handled, chan, asks, due>>
       ELSE /\ asks < MaxAsks /\ asks' = asks + 1
            /\ Remember(Asked)
            /\ chan' = Send(chan, Asked, Readers(Asked), TTL)
            /\ due' = IF asks = 0 /\ AllRead THEN Component({Asked}) ELSE due
    /\ UNCHANGED <<net_vars, known, changes>>

\* Variant: the TTL is spent a hop early.
ThriftyReceive(n, from) ==
    /\ chan[from][n] # <<>>
    /\ LET ttl == Head(chan[from][n]) - 2
           rest == [chan EXCEPT ![from][n] = Tail(@)]
       IN  IF request[n] # Unknown
           THEN chan' = rest /\ UNCHANGED <<request, handled, due>>
           ELSE \E list \in known[n][from] :
                   /\ Remember(n)
                   /\ chan' = Send(rest, n, Readers(n) \ Skipped(from, list), ttl)
                   /\ due' = IF Misled(n, from, list) \/ n \in handled THEN {} ELSE due
    /\ UNCHANGED <<net_vars, known, asks, changes>>

\* Variant: the TTL stays as it was.
TirelessReceive(n, from) ==
    /\ chan[from][n] # <<>>
    /\ LET ttl == Head(chan[from][n])
           rest == [chan EXCEPT ![from][n] = Tail(@)]
       IN  IF request[n] # Unknown
           THEN chan' = rest /\ UNCHANGED <<request, handled, due>>
           ELSE \E list \in known[n][from] :
                   /\ Remember(n)
                   /\ chan' = Send(rest, n, Readers(n) \ Skipped(from, list), ttl)
                   /\ due' = IF Misled(n, from, list) \/ n \in handled THEN {} ELSE due
    /\ UNCHANGED <<net_vars, known, asks, changes>>

\* whohas_request_handler for a copy from the overlay (tcp_handler).  Nothing is
\* promised of a flood that comes again to a superpeer that has forgotten it: the
\* copy has spent its TTL on a circle, and may be ahead of a better one.
Receive(n, from) ==
    /\ chan[from][n] # <<>>
    /\ LET ttl == Head(chan[from][n]) - 1
           rest == [chan EXCEPT ![from][n] = Tail(@)]
       IN  IF request[n] # Unknown
           THEN chan' = rest /\ UNCHANGED <<request, handled, due>>
           ELSE \E list \in known[n][from] :
                   /\ Remember(n)
                   /\ chan' = Send(rest, n, Readers(n) \ Skipped(from, list), ttl)
                   /\ due' = IF Misled(n, from, list) \/ n \in handled THEN {} ELSE due
    /\ UNCHANGED <<net_vars, known, asks, changes>>

\* peer_list_checker_func, the list of requests.
CheckRequests(n) ==
    /\ request[n] # Unknown
    /\ request' = [request EXCEPT ![n] = IF @ = 0 THEN Unknown ELSE @ - 1]
    /\ UNCHANGED <<net_vars, known, chan, asks, changes, handled, due>>

-----------------------------------------------------------------------------
(* The overlay *)

\* tcp_ping of n, with the neighbours n lists, and update_near of those that read.
Ping(n) ==
    LET list == Near(n) \cup {m \in Superpeer : <<n, m>> \in gone}
    IN  /\ n \notin stalled
        /\ known' = [m \in Superpeer |->
                       IF m \in Readers(n) THEN [known[m] EXCEPT ![n] = {list}] ELSE known[m]]
        /\ UNCHANGED <<net_vars, chan, request, asks, changes, handled, due>>

\* A change of the overlay while copies are on their way: nothing is promised.
Change ==
    /\ changes < MaxChanges /\ changes' = changes + 1
    /\ due' = IF Quiet THEN due ELSE {}
    /\ UNCHANGED <<asks, handled>>

\* join_overlay of n, and accept_conn of the others; either side may have no room
\* left in its array (fd_add).
JoinOverlay(n, others) ==
    /\ n \notin running /\ others # {}
    /\ running' = running \cup {n}
    /\ links' = links \cup {{n, m} : m \in others}
    /\ \E new \in SUBSET (({n} \X others) \cup (others \X {n})) : reads' = reads \cup new
    /\ UNCHANGED <<stalled, gone, known, chan, request>>
    /\ Change

\* n ends, as its user wants or when junk leads it astray; the neighbours that read
\* from it close their connections (close_conn), the others list it further.  What
\* is held for it afterwards is as good as junk.  (That a write to it may end them
\* as well is in Overlay.)
LeaveOverlay(n) ==
    /\ n \in running
    /\ running' = running \ {n} /\ stalled' = stalled \ {n}
    /\ links' = {l \in links : n \notin l}
    /\ reads' = {c \in reads : n \notin {c[1], c[2]}}
    /\ gone' = {c \in gone : c[1] # n}
                  \cup {<<m, n>> : m \in {k \in Near(n) : <<k, n>> \notin reads}}
    /\ known' = [m \in Superpeer |-> [k \in Superpeer |->
                   IF n \in {m, k} THEN AnyList ELSE known[m][k]]]
    /\ chan' = [m \in Superpeer |-> [k \in Superpeer |->
                   IF n \in {m, k} THEN <<>> ELSE chan[m][k]]]
    /\ request' = [request EXCEPT ![n] = Unknown]
    /\ Change

\* The main thread of n waits for ever for retx_mutex, which a retx_send kept that
\* failed (Superpeer): n reads nothing more, and neither does its pinger go on.
Stall(n) ==
    /\ n \in running \ stalled
    /\ stalled' = stalled \cup {n}
    /\ reads' = {c \in reads : c[1] # n}
    /\ chan' = [m \in Superpeer |-> [chan[m] EXCEPT ![n] = <<>>]]
    /\ UNCHANGED <<running, links, gone, known, request>>
    /\ Change

-----------------------------------------------------------------------------
FloodInit ==
    /\ \E o \in Overlays : links = o.links /\ reads = o.reads
    /\ stalled = {} /\ gone = {}
    /\ running = {Asked} \cup UNION links
    /\ known = [n \in Superpeer |-> [m \in Superpeer |-> AnyList]]
    /\ chan = [n \in Superpeer |-> [m \in Superpeer |-> <<>>]]
    /\ request = [n \in Superpeer |-> Unknown]
    /\ asks = 0 /\ changes = 0
    /\ handled = {} /\ due = {}

FloodNext ==
    \/ Ask
    \/ \E n, m \in Superpeer : Receive(n, m)
    \/ \E n \in Superpeer : Ping(n) \/ CheckRequests(n) \/ LeaveOverlay(n) \/ Stall(n)
    \/ \E n \in Superpeer, others \in SUBSET (running \ stalled) :
          JoinOverlay(n, others)

\* The main loop of each superpeer gets to every connection it watches, and there are
\* copies on no other (Readers).
FloodSpec == FloodInit /\ [][FloodNext]_flood_vars
                /\ \A n, m \in Superpeer : WF_flood_vars(Receive(n, m))

-----------------------------------------------------------------------------
(* Properties *)

\* When no copy is on its way, all superpeers that were connected with the one
\* asked have handled the query, though each sends it to some of its neighbours
\* only and drops all copies but the first, which may have come the long way
\* (flood_overlay).  The promise is made if the connections are all watched, and
\* ends with a change of the overlay, a superpeer that forgot the query, or one
\* that spared a neighbour the sender did not have, because of an old list, junk
\* or that of another neighbour.
AllReached == Quiet => due \subseteq handled

\* The copies of a query come to an end, although superpeers forget it and then
\* handle it once more.
FloodEnds == ~Quiet ~> Quiet
=============================================================================
