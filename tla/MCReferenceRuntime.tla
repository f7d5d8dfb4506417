------------------------- MODULE MCReferenceRuntime -------------------------
(***************************************************************************)
(* ReferenceRuntime on a small instance: two environments over one runtime,*)
(* one name, an integer and another object.                                *)
(***************************************************************************)
EXTENDS ReferenceRuntime, TLC

CONSTANTS x, int, str

\* One object, a name bound twice, and a refused name after a good one.
MCEntryLists ==
  {<<<<x, str>>>>, <<<<BadName, str>>>>,
   <<<<x, int>>, <<x, str>>>>, <<<<x, str>>, <<BadName, int>>>>}

Symmetry == Permutations(Envs)
=============================================================================
