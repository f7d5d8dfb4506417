-------------------------- MODULE MCEnvironmentApi --------------------------
(***************************************************************************)
(* EnvironmentApi on small instances.                                      *)
(***************************************************************************)
EXTENDS EnvironmentApi, TLC

Symmetry ==
  Permutations(Envs) \cup Permutations(Names) \cup Permutations(Callbacks)
=============================================================================
