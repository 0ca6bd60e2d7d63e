------------------------- MODULE MCResilientClient -------------------------
\* Instances of ResilientClient for TLC.
EXTENDS ResilientClient, TLC

CONSTANTS c1, c2, c3

TwoClients == {c1, c2}
ThreeClients == {c1, c2, c3}
Symmetry2 == Permutations(TwoClients)
Symmetry3 == Permutations(ThreeClients)
=============================================================================
