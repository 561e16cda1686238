------------------------------- MODULE MCFlood -------------------------------
EXTENDS Flood

Links(pairs) == {{p[1], p[2]} : p \in pairs}
Both(pairs) == pairs \cup {<<p[2], p[1]>> : p \in pairs}

Chain == {<<"a", "b">>, <<"b", "c">>, <<"c", "d">>}
Ring == Chain \cup {<<"d", "a">>}
Tailed == {<<"a", "b">>, <<"a", "c">>, <<"b", "c">>, <<"c", "d">>}
Two == {<<"a", "b">>}

\* A chain, a ring, a triangle with a tail, and two superpeers; and the triangle
\* with a superpeer that does not watch one of its connections.
MCOverlays ==
    {[links |-> Links(p), reads |-> Both(p)] : p \in {Chain, Ring, Tailed, Two}}
        \cup {[links |-> Links(Tailed), reads |-> Both(Tailed) \ {<<"c", "a">>}]}
=============================================================================
