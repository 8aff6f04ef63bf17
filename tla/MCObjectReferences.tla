------------------------- MODULE MCObjectReferences -------------------------
EXTENDS ObjectReferences, TLC

CONSTANTS o1, c1, c2

\* One object in two fields, two objects in a field, an object in the last field only.
MCBodies ==
    {[producer |-> {o1}, contacts |-> {c1}, provider |-> {}, metaContacts |-> {c1}],
     [producer |-> {o1}, contacts |-> {c1, c2}, provider |-> {o1}, metaContacts |-> {}],
     [producer |-> {o1}, contacts |-> {c1}, provider |-> {}, metaContacts |-> {c2}]}

Symmetry == Permutations(Requests)
=============================================================================
