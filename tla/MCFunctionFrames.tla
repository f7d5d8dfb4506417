-------------------------- MODULE MCFunctionFrames --------------------------
(***************************************************************************)
(* FunctionFrames on small instances.                                      *)
(***************************************************************************)
EXTENDS FunctionFrames

CONSTANTS f, x

\* A function whose parameter is named like the other function, which has no
\* parameters and assigns the name of the first.
Shadowing ==
  {[name |-> x, params |-> <<f>>, assigned |-> {}],
   [name |-> f, params |-> <<>>, assigned |-> {x}]}
=============================================================================
