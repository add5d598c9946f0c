------------------------------- MODULE MCLive -------------------------------
EXTENDS Live, TLC
CONSTANTS c1, c2, m1

OneChannel == m1 :> c1
FirstOnly  == [m \in Numbers |-> c1]
Symmetry   == Permutations(Calls) \cup Permutations(Gateways)
=============================================================================
