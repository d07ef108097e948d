------------------------- MODULE MCDocumentSelection -------------------------
\* DocumentSelection with the symmetry of its paths and document ids for TLC.
EXTENDS DocumentSelection, TLC

Symmetry == Permutations(Paths) \cup Permutations(Ids)
=============================================================================
