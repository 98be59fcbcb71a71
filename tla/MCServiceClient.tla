-------------------------- MODULE MCServiceClient --------------------------
(* An instance of ServiceClient for TLC.                                   *)
EXTENDS ServiceClient, TLC

Symmetry == Permutations(Method)
=============================================================================
