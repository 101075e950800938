----------------------------- MODULE MCSpaces -----------------------------
EXTENDS Spaces, TLC

CONSTANTS c1, c2, s1, s2, s3, n1, n2

MCClients == {c1, c2}
MCIds == {s1, s2, s3}
MCNames == {n1, n2}

Symmetry == Permutations(MCClients) \cup Permutations(MCNames)
=============================================================================
