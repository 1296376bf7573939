--------------------------- MODULE MCModelGrants ---------------------------
(***************************************************************************)
(* Small instances of ModelGrants.                                         *)
(***************************************************************************)
EXTENDS ModelGrants, TLC

\* Processes and call ids are interchangeable.
Symmetry == Permutations(Process) \cup Permutations(Call)
=============================================================================
