---------------------------- MODULE MC_Rotator ----------------------------
EXTENDS Rotator, TLC

Symmetry == Permutations(Sessions)
=============================================================================
