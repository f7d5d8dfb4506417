----------------------------- MODULE MCVmClasses -----------------------------
(***************************************************************************)
(* Three classes with super() in them, of which the second may be made in  *)
(* a function.                                                             *)
(***************************************************************************)
EXTENDS VmClasses
Class(n, d, s) == [name |-> n, defines |-> d, self |-> TRUE, scope |-> s]
MCStatements ==
  <<{Class("A", TRUE, "global")},
    {Class("B", TRUE, "local"), Class("B", TRUE, "global")},
    {Class("C", FALSE, "global")}>>
=============================================================================
