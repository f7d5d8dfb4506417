--------------------------- MODULE MCHandleTable ---------------------------
(***************************************************************************)
(* HandleTable on a small instance: the sets are model values, and runtimes*)
(* and names are interchangeable.                                          *)
(***************************************************************************)
EXTENDS HandleTable, TLC

Symmetry == Permutations(Runtimes) \cup Permutations(Names)
=============================================================================
