----------------------------- MODULE MCSession -----------------------------
(* Session with two superpeers, a LIST of both.                            *)
EXTENDS Session

CONSTANTS s1, s2

MCSp == {s1, s2}
MCLists == {<<s1, s2>>}
=============================================================================
