------------------------------- MODULE MCAgps -------------------------------
EXTENDS Agps, TLC
Symmetry == Permutations(Handles)
=============================================================================
