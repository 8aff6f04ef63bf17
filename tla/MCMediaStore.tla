---------------------------- MODULE MCMediaStore ----------------------------
EXTENDS MediaStore, TLC

Symmetry == Permutations(Requests)
=============================================================================
