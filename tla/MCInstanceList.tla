--------------------------- MODULE MCInstanceList ---------------------------
\* The instance list for TLC: stagings and ids as they come.
EXTENDS InstanceList, TLC

\* Sound for invariants and action properties, which treat all stagings alike.
Alike == Permutations(Stagings)
=============================================================================
