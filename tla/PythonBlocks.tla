---------------------------- MODULE PythonBlocks ----------------------------
(***************************************************************************)
(* What the statements that steer control mean in Python: loops, with,     *)
(* try, return, break, continue, the bare raise, yield and await.  A       *)
(* program is a block, a sequence of statements; a statement is a record   *)
(* with its kind and its sub-blocks.  What a program does to the outside   *)
(* is a sequence of events with their results (BlockEvents).               *)
(*                                                                         *)
(* Meaning replays a sequence of events against a program and says how the *)
(* program ends, that it wants more events, or that Python would not have  *)
(* done this.  It is the reference the bytecode machine is compared with;  *)
(* nothing in the repository is translated here.                           *)
(***************************************************************************)
EXTENDS Naturals, Sequences, BlockEvents

(***************************************************************************)
(* Programs.  The name of a statement is its path through the blocks.      *)
(***************************************************************************)
Do == [kind |-> "do"]
Break == [kind |-> "break"]
Continue == [kind |-> "continue"]
Reraise == [kind |-> "raise"]
Yield == [kind |-> "yield"]          \* yield
Ask == [kind |-> "ask"]              \* x = yield
Await == [kind |-> "await"]          \* await f()
Return == [kind |-> "return", value |-> "value"]
BareReturn == [kind |-> "return", value |-> "none"]
If(body, orelse) == [kind |-> "if", body |-> body, orelse |-> orelse]
While(body, orelse) == [kind |-> "while", body |-> body, orelse |-> orelse]
For(body, orelse) == [kind |-> "for", body |-> body, orelse |-> orelse]
With(manager, body) == [kind |-> "with", manager |-> manager, body |-> body]
Try(body, clauses, orelse, finalbody) ==
    [kind |-> "try", body |-> body, handlers |-> clauses,
     orelse |-> orelse, finalbody |-> finalbody]
Except(type, body) == [type |-> type, body |-> body]
Anything == "anything"       \* the type of a bare except clause

\* A program Python accepts: break and continue stand inside a loop.
RECURSIVE Legal(_, _)
Legal(b, inLoop) ==
    \A i \in DOMAIN b :
        LET s == b[i]
        IN CASE s.kind \in {"break", "continue"} -> inLoop
             [] s.kind = "with" -> Legal(s.body, inLoop)
             [] s.kind = "if" -> Legal(s.body, inLoop) /\ Legal(s.orelse, inLoop)
             [] s.kind \in {"for", "while"} ->
                    Legal(s.body, TRUE) /\ Legal(s.orelse, inLoop)
             [] s.kind = "try" ->
                    /\ Legal(s.body, inLoop) /\ Legal(s.orelse, inLoop)
                    /\ Legal(s.finalbody, inLoop)
                    /\ \A j \in DOMAIN s.handlers : Legal(s.handlers[j].body, inLoop)
             [] OTHER -> TRUE

Catches(handler, error) == handler.type \in {Anything, error}

\* The sub-blocks of the statement at path p.
BodyOf(p) == Append(p, 101)
OrelseOf(p) == Append(p, 102)
FinalOf(p) == Append(p, 103)
HandlerOf(p, j) == Append(p, 110 + j)

(***************************************************************************)
(* How a block ends: normally, by a jump, by an exception, for want of     *)
(* another event, or by an event Python would not have produced.           *)
(***************************************************************************)
Normal == [how |-> "normal", what |-> NoError]
Wants == [how |-> "wants", what |-> NoError]
Wrong == [how |-> "wrong", what |-> NoError]
Leaves(jump) == [how |-> jump, what |-> NoError]

\* After n events, the block has ended this way.
At(n, ends) == [n |-> n, ends |-> ends]

\* The next event of the trace must be this one.
Expect(trace, n, what, of, with, Then(_)) ==
    IF n >= Len(trace) THEN At(n, Wants)
    ELSE LET e == trace[n + 1]
         IN IF e.what = what /\ e.of = of /\ e.with = with
            THEN Then(e.result) ELSE At(n, Wrong)

RECURSIVE Block(_, _, _, _, _), Statement(_, _, _, _, _), Loop(_, _, _, _, _)
RECURSIVE Awaited(_, _, _)

\* The statements of block b at path p from the n-th event on, while the
\* exception `handled` is being handled.
Block(b, p, n, handled, trace) ==
    IF b = <<>> THEN At(n, Normal)
    ELSE LET init == SubSeq(b, 1, Len(b) - 1)
             before == Block(init, p, n, handled, trace)
         IN IF before.ends # Normal THEN before
            ELSE Statement(b[Len(b)], Append(p, Len(b)), before.n, handled, trace)

\* One more round of the loop s.
Loop(s, p, n, handled, trace) ==
    LET Round(result) ==
            CASE result \in Errors -> At(n + 1, Raises(result))
              [] result = "stop" ->
                    Block(s.orelse, OrelseOf(p), n + 1, handled, trace)
              [] OTHER ->
                    LET body == Block(s.body, BodyOf(p), n + 1, handled, trace)
                    IN CASE body.ends \in {Normal, Leaves("continue")} ->
                                Loop(s, p, body.n, handled, trace)
                         [] body.ends = Leaves("break") -> At(body.n, Normal)
                         [] OTHER -> body
    IN Expect(trace, n, IF s.kind = "for" THEN "next" ELSE "test", p, NoError, Round)

\* What __exit__ makes of the way the body of a with ended.
Exited(body, p, trace) ==
    LET error == IF body.ends.how = "raises" THEN body.ends.what ELSE NoError
        Result(result) ==
            CASE result \in Errors -> At(body.n + 1, Raises(result))
              [] result = "suppress" /\ error # NoError -> At(body.n + 1, Normal)
              [] OTHER -> At(body.n + 1, body.ends)
    IN Expect(trace, body.n, "exit", p, error, Result)

\* The handler that takes the exception, if one does, then the else clause.
Handled(s, p, body, handled, trace) ==
    LET error == body.ends.what
        taking == {j \in DOMAIN s.handlers : Catches(s.handlers[j], error)}
        j == CHOOSE k \in taking : \A i \in taking : k <= i
    IN CASE body.ends = Normal -> Block(s.orelse, OrelseOf(p), body.n, handled, trace)
         [] body.ends.how = "raises" /\ taking # {} ->
                Block(s.handlers[j].body, HandlerOf(p, j), body.n, error, trace)
         [] OTHER -> body

\* The finally clause, which runs however the rest ended.
Finally(s, p, rest, handled, trace) ==
    LET error == IF rest.ends.how = "raises" THEN rest.ends.what ELSE handled
        final == Block(s.finalbody, FinalOf(p), rest.n, error, trace)
    IN IF rest.ends.how \in {"wants", "wrong"} THEN rest
       ELSE IF final.ends = Normal THEN At(final.n, rest.ends) ELSE final

\* An await goes on for as long as what it awaits suspends.
Awaited(p, n, trace) ==
    LET Result(r) == CASE r \in Errors -> At(n + 1, Raises(r))
                       [] r = "suspend" -> Awaited(p, n + 1, trace)
                       [] OTHER -> At(n + 1, Normal)
    IN Expect(trace, n, "await", p, NoError, Result)

Statement(s, p, n, handled, trace) ==
    CASE s.kind \in {"do", "yield", "ask"} ->
            LET Result(r) == At(n + 1, IF r \in Errors THEN Raises(r) ELSE Normal)
            IN Expect(trace, n, IF s.kind = "do" THEN "do" ELSE "yield", p, NoError, Result)
      [] s.kind = "await" -> Awaited(p, n, trace)
      [] s.kind \in {"break", "continue"} -> At(n, Leaves(s.kind))
      [] s.kind = "return" -> At(n, Returns(s.value))
      [] s.kind = "raise" ->
            At(n, Raises(IF handled = NoError THEN "RuntimeError" ELSE handled))
      [] s.kind = "if" ->
            LET Result(r) ==
                    CASE r \in Errors -> At(n + 1, Raises(r))
                      [] r = "stop" -> Block(s.orelse, OrelseOf(p), n + 1, handled, trace)
                      [] OTHER -> Block(s.body, BodyOf(p), n + 1, handled, trace)
            IN Expect(trace, n, "test", p, NoError, Result)
      [] s.kind \in {"for", "while"} -> Loop(s, p, n, handled, trace)
      [] s.kind = "with" ->
            LET Entered(r) ==
                    IF r \in Errors THEN At(n + 1, Raises(r))
                    ELSE LET body == Block(s.body, BodyOf(p), n + 1, handled, trace)
                         IN IF body.ends.how \in {"wants", "wrong"} THEN body
                            ELSE Exited(body, p, trace)
            IN Expect(trace, n, "enter", p, NoError, Entered)
      [] s.kind = "try" ->
            LET body == Block(s.body, BodyOf(p), n, handled, trace)
            IN Finally(s, p, Handled(s, p, body, handled, trace), handled, trace)

\* How a run of the body is seen, given the events so far; falling off the
\* end returns None.
Seen(run, trace) ==
    IF run.ends = Wants THEN Wants
    ELSE IF run.ends = Wrong \/ run.n < Len(trace) THEN Wrong
    ELSE IF run.ends = Normal THEN Returns("none") ELSE run.ends

\* A call of a function whose body is the program.
Meaning(program, trace) == Seen(Block(program, <<>>, 0, NoError, trace), trace)

\* A generator or coroutine: what it is first resumed with starts the body,
\* or is raised before any of it runs.
MeaningResumed(program, trace) ==
    LET Started(r) == IF r \in Errors THEN At(1, Raises(r))
                      ELSE Block(program, <<>>, 1, NoError, trace)
    IN Seen(Expect(trace, 0, "yield", <<>>, NoError, Started), trace)
=============================================================================
