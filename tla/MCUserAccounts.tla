-------------------------- MODULE MCUserAccounts --------------------------
EXTENDS UserAccounts, TLC

Symmetry ==
    Permutations(Requests) \cup Permutations(Names \ {Boss}) \cup Permutations(Emails)
=============================================================================
