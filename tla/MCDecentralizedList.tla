-------------------------- MODULE MCDecentralizedList --------------------------
EXTENDS DecentralizedList, TLC

\* Nothing tells one place from another.
Symmetry == Permutations(Places)
=============================================================================
