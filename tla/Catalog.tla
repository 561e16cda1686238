------------------------------- MODULE Catalog -------------------------------
(***************************************************************************)
(* What the file index of a superpeer promises: it is a set of entries,    *)
(* each the property of one peer.  A peer publishes and withdraws one file *)
(* at a time, and nothing of it remains when it leaves.  What changes is   *)
(* always of the peer that is served.                                      *)
(***************************************************************************)
CONSTANTS
    Entry,      \* the entries: a file of a peer
    Owner       \* the owner of an entry, a function

VARIABLES
    entries,
    served      \* the peer the last change was made for

Publish(e) ==
    /\ e \notin entries
    /\ entries' = entries \cup {e}
    /\ served' = Owner[e]

Withdraw(e) ==
    /\ e \in entries
    /\ entries' = entries \ {e}
    /\ served' = Owner[e]

Leave(o) ==
    /\ entries' = {e \in entries : Owner[e] # o}
    /\ served' = o

Init == entries = {}

Next ==
    \/ \E e \in Entry : Publish(e) \/ Withdraw(e)
    \/ \E e \in entries : Leave(Owner[e])

Spec == Init /\ [][Next]_<<entries, served>>
=============================================================================
