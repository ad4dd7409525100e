---------------------------- MODULE MCInstances ----------------------------
(***************************************************************************)
(* A small instance of Instances for TLC.                                  *)
(***************************************************************************)
EXTENDS InstancesInvariants, TLC

\* Without names and lists the containers are interchangeable.
Symmetry == Permutations(Ids)
=============================================================================
