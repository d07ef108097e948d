-------------------------- MODULE MCDocumentRuntime --------------------------
(***************************************************************************)
(* Small instances of DocumentRuntime.                                     *)
(***************************************************************************)
EXTENDS DocumentRuntime, TLC

\* Paths and session ids are interchangeable; used by the safety runs only.
Symmetry == Permutations(Paths) \cup Permutations(Sessions)
=============================================================================
