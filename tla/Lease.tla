-------------------------------- MODULE Lease --------------------------------
(***************************************************************************)
(* What a list of members kept alive by pings promises: a member that is   *)
(* silent for a whole period between two rounds of checks is expired in    *)
(* the round that ends it, and nobody is expired otherwise.  The list of   *)
(* superpeers of the bootstrap server implements it (module Bootstrap).    *)
(***************************************************************************)
EXTENDS Naturals

CONSTANT Client

VARIABLES
    members,
    age,        \* age[a]: the rounds begun since a member was last heard of
    checking    \* a round of checks is under way

vars == <<members, age, checking>>

Overdue == {a \in members : age[a] >= 2}

Init ==
    /\ members = {}
    /\ age = [a \in Client |-> 0]
    /\ checking = FALSE

Enroll(a) ==
    /\ ~checking
    /\ a \notin members
    /\ members' = members \cup {a}
    /\ age' = [age EXCEPT ![a] = 0]
    /\ UNCHANGED checking

Renew(a) ==
    /\ ~checking
    /\ a \in members
    /\ age' = [age EXCEPT ![a] = 0]
    /\ UNCHANGED <<members, checking>>

Quit(a) ==
    /\ ~checking
    /\ a \in members
    /\ members' = members \ {a}
    /\ age' = [age EXCEPT ![a] = 0]
    /\ UNCHANGED checking

BeginRound ==
    /\ ~checking
    /\ checking' = TRUE
    /\ age' = [a \in Client |-> IF a \in members THEN age[a] + 1 ELSE 0]
    /\ UNCHANGED members

Expire(a) ==
    /\ checking
    /\ a \in Overdue
    /\ members' = members \ {a}
    /\ age' = [age EXCEPT ![a] = 0]
    /\ UNCHANGED checking

\* A round leaves nobody behind.
EndRound ==
    /\ checking
    /\ Overdue = {}
    /\ checking' = FALSE
    /\ UNCHANGED <<members, age>>

Next ==
    \/ BeginRound \/ EndRound
    \/ \E a \in Client : Enroll(a) \/ Renew(a) \/ Quit(a) \/ Expire(a)

Spec == Init /\ [][Next]_vars
=============================================================================
