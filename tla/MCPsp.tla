------------------------------- MODULE MCPsp -------------------------------
(***************************************************************************)
(* Small instances of Psp for TLC.                                         *)
(***************************************************************************)
EXTENDS PspCustody, TLC

\* Handlers are interchangeable, and so are the ids, where no policy list has one.
Symmetry == Permutations(Handlers) \cup Permutations(Ids)
=============================================================================
