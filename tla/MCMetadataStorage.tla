------------------------- MODULE MCMetadataStorage -------------------------
EXTENDS MetadataStorage, TLC

Symmetry == Permutations(Edits) \cup Permutations(Files)
=============================================================================
