---------------------------- MODULE MCHostCalls ----------------------------
(***************************************************************************)
(* HostCalls on a small instance.                                          *)
(***************************************************************************)
EXTENDS HostCalls, TLC

Symmetry == Permutations(Names)
=============================================================================
