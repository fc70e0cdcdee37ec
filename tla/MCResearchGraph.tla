-------------------------- MODULE MCResearchGraph --------------------------
\* Two runs for one packet: both with debate and with the same or different
\* models for their analysts, and one with debate and one without.
EXTENDS ResearchGraph, TLC
CONSTANTS r1, r2, m1, m2
Pair(d1, d2, m) == (r1 :> [debate |-> d1, route |-> m1]) @@ (r2 :> [debate |-> d2, route |-> m])
Swapped(v) == (r1 :> v[r2]) @@ (r2 :> v[r1])
Pairs == LET some == {Pair(TRUE, TRUE, m1), Pair(FALSE, TRUE, m1), Pair(TRUE, TRUE, m2)}
         IN  some \cup {Swapped(v) : v \in some}
Alike == Permutations({r1, r2})
=============================================================================
