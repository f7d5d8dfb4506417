---------------------------- MODULE BlockEvents ----------------------------
(***************************************************************************)
(* What a call does to the outside, as seen both by the bytecode machine   *)
(* (VmFrame) and by the language it implements (PythonBlocks): a sequence  *)
(* of events, each one call of foreign code with its result.               *)
(***************************************************************************)
CONSTANT Errors         \* the exceptions foreign code may raise

NoError == "none"

\* Nothing else that comes of a call of foreign code is an error.
ASSUME ErrorsAssumption ==
    Errors \cap {NoError, "ok", "go", "stop", "item", "suspend", "done", "suppress"} = {}

\* what: a plain statement ("do"), a condition ("test"), one step of an
\* iterator or an iter() that fails ("next"), "enter" or "exit", what a
\* suspended frame is resumed with ("yield"), or one step of an awaited object
\* ("await"); of: the statement it belongs to; with: the exception an __exit__
\* is given; result: what came of it.
Event(what, of, with, result) ==
    [what |-> what, of |-> of, with |-> with, result |-> result]

\* What a context manager may do besides entering and exiting quietly.
FailsToEnter == "fails to enter"
FailsToExit == "fails to exit"
Suppresses == "suppresses"

\* How a call ends.
Returns(value) == [how |-> "returns", what |-> value]
Raises(error) == [how |-> "raises", what |-> error]
=============================================================================
