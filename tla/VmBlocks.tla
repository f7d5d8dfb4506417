------------------------------ MODULE VmBlocks ------------------------------
(***************************************************************************)
(* The bytecode machine running what the front end lowers, compared with   *)
(* what Python makes of the same statements.                               *)
(***************************************************************************)
EXTENDS ProtectedCode, Lowering

LOCAL INSTANCE TLC

(***************************************************************************)
(* The programs machine and front end get right.  A statement is judged by *)
(* where it stands:                                                        *)
(*   jumps      break and continue cross no with and no try;               *)
(*   returns    return crosses no finally, and no try inside a with whose  *)
(*              exit may fail;                                             *)
(*   fragile    an exit around it may fail;                                *)
(*   empty      the value stack is empty on every way here;                *)
(*   clears     nothing on the value stack is needed later: no for loop    *)
(*              of the function is under way;                              *)
(*   catches    no for loop and no finally clause would lose what a        *)
(*              caught exception clears from the stack;                    *)
(*   outermost  no with and no try is around it;                           *)
(*   reraises   the exception being handled is the one last caught;        *)
(*   escapes    no try and no with that may suppress is around it: an      *)
(*              exception ends the call;                                   *)
(*   resumed    how a yield is resumed: "never", by "next" or by "send".   *)
(***************************************************************************)
FunctionLevel(resumed) ==
    [resumed |-> resumed, escapes |-> TRUE, jumps |-> FALSE, returns |-> TRUE, fragile |-> FALSE, empty |-> TRUE,
     clears |-> TRUE, catches |-> TRUE, outermost |-> TRUE, reraises |-> FALSE]

RECURSIVE Supported(_, _), HasWith(_)

HasWith(b) ==
    \E i \in DOMAIN b :
        \/ b[i].kind = "with"
        \/ b[i].kind \in {"if", "for", "while", "try"} /\ HasWith(b[i].body)
        \/ b[i].kind \in {"if", "for", "while", "try"} /\ HasWith(b[i].orelse)
        \/ b[i].kind = "try" /\ \/ HasWith(b[i].finalbody)
                                \/ \E j \in DOMAIN b[i].handlers : HasWith(b[i].handlers[j].body)

\* What follows b is entered in place of the instruction a throw drops.
RECURSIVE EndsInYield(_)
EndsInYield(b) ==
    /\ b # <<>>
    /\ LET last == b[Len(b)]
       IN \/ last.kind = "yield"
          \/ last.kind = "if" /\ EndsInYield(IF last.orelse = <<>> THEN last.body ELSE last.orelse)
          \/ last.kind \in {"for", "while"} /\ EndsInYield(last.orelse)

SupportedWith(s, c) ==
    /\ FailsToEnter \notin s.manager
    /\ FailsToExit \in s.manager => c.outermost
    /\ Suppresses \in s.manager => c.clears /\ ~HasWith(s.body) /\ ~EndsInYield(s.body)
    /\ Supported(s.body, [c EXCEPT !.jumps = FALSE, !.empty = FALSE, !.outermost = FALSE,
                                   !.fragile = @ \/ FailsToExit \in s.manager,
                                   !.escapes = @ /\ Suppresses \notin s.manager])

SupportedExcept(s, c) ==
    /\ c.catches
    /\ Supported(s.body, [c EXCEPT !.jumps = FALSE, !.outermost = FALSE, !.escapes = FALSE,
                                   !.returns = @ /\ ~c.fragile /\ s.finalbody = <<>>])
    /\ Supported(s.orelse, c)
    /\ \A j \in DOMAIN s.handlers :
         \/ Supported(s.handlers[j].body, [c EXCEPT !.empty = TRUE])
         \/ Supported(s.handlers[j].body,
                      [c EXCEPT !.empty = TRUE, !.catches = FALSE, !.reraises = TRUE])
    /\ s.finalbody # <<>> =>
         /\ s.orelse = <<>>
         /\ \A j \in DOMAIN s.handlers : s.handlers[j].body = <<>>
         /\ s.handlers[Len(s.handlers)].type = Anything
         /\ Supported(s.finalbody, c)

SupportedFinally(s, c) ==
    /\ Supported(s.body, [c EXCEPT !.jumps = FALSE, !.returns = FALSE, !.outermost = FALSE,
                                   !.escapes = FALSE])
    /\ Supported(s.finalbody, [c EXCEPT !.jumps = FALSE, !.empty = FALSE,
                                        !.catches = FALSE, !.reraises = FALSE])

Supported(b, c) ==
    \A i \in DOMAIN b :
        LET s == b[i]
        IN CASE s.kind = "do" -> TRUE
             [] s.kind = "yield" -> c.resumed = "next"
             [] s.kind = "ask" -> c.resumed = "send"
             [] s.kind = "await" -> c.resumed # "never" /\ c.escapes
             [] s.kind \in {"break", "continue"} -> c.jumps
             [] s.kind = "return" -> c.returns /\ (s.value = "none" => c.empty)
             [] s.kind = "raise" -> c.reraises /\ c.empty
             [] s.kind = "if" -> Supported(s.body, c) /\ Supported(s.orelse, c)
             [] s.kind = "while" ->
                    /\ Supported(s.body, [c EXCEPT !.jumps = TRUE])
                    /\ Supported(s.orelse, [c EXCEPT !.jumps = FALSE])
             [] s.kind = "for" ->
                    /\ Supported(s.body, [c EXCEPT !.jumps = TRUE, !.empty = FALSE,
                                                   !.clears = FALSE, !.catches = FALSE])
                    /\ Supported(s.orelse, [c EXCEPT !.jumps = FALSE])
             [] s.kind = "with" -> SupportedWith(s, c)
             [] s.kind = "try" /\ s.handlers # <<>> -> SupportedExcept(s, c)
             [] s.kind = "try" /\ s.handlers = <<>> -> SupportedFinally(s, c)

\* What is open at each address that is reached, going through code in the
\* order of addresses: jumps back reach what has been reached, and what was
\* found first stays.
NewlyOpen(reached) == [a \in {to[1] : to \in reached} |-> (CHOOSE to \in reached : to[1] = a)[2]]
Passed(c, a, before) ==
    IF a \in DOMAIN before THEN before @@ NewlyOpen(GoesTo(c, a, before[a])) ELSE before
Opened(c) ==
    LET opened[a \in 0 .. Len(c)] == IF a = 0 THEN 1 :> <<>> ELSE Passed(c, a, opened[a - 1])
    IN opened[Len(c)]

\* The functions of VmFrame, made from a sequence of programs.
Described(body, c, opened, resumed) ==
    [source |-> body,
     code |-> c,
     opened |-> opened,
     protected |-> IsProtected(c, opened),
     resumable |-> resumed # "never",
     sends |-> resumed = "send",
     supported |-> Supported(body, FunctionLevel(resumed))]
WithOpened(body, c, resumed) == Described(body, c, Opened(c), resumed)
Compiled(programs, resumed) ==
    [i \in DOMAIN programs |-> WithOpened(programs[i], LowerFunction(programs[i]), resumed)]

\* Machine and front end keep the same books for what they get right.
ASSUME FragmentAssumption ==
    \A i \in DOMAIN Functions : Functions[i].supported => Functions[i].protected

----------------------------------------------------------------------------
(***************************************************************************)
(* Properties.                                                             *)
(***************************************************************************)

\* Whatever foreign code does, the statements of a supported program run in
\* the order Python runs them, every __exit__ gets the exception Python would
\* give it, and the call ends as Python ends it; so too when it is suspended
\* at any yield or await and resumed or thrown into by its host, or closed, if
\* it is a generator.
FollowsPython ==
    Functions[program].supported =>
    LET meaning == IF Functions[program].resumable
                   THEN MeaningResumed(Functions[program].source, trace)
                   ELSE Meaning(Functions[program].source, trace)
    IN IF outcome = Running THEN meaning # Wrong ELSE meaning = outcome

\* What the front end says of break (loop_needs_pop): it drops the iterator
\* of its own loop, so that no FOR_ITER takes another loop's for its own.
IteratorsKeepToTheirLoops ==
    outcome = Running /\ raised = NoError /\ returning = NoValue /\ ip <= Len(code)
        /\ here.op = "FOR_ITER" /\ stack # <<>> /\ Top(stack).kind = "iterator"
    => Top(stack).of = here.of
=============================================================================
