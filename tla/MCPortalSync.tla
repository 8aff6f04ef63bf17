---------------------------- MODULE MCPortalSync ----------------------------
EXTENDS PortalSync

Symmetry == Permutations(Sends)
=============================================================================
