---------------------------- MODULE NativeBlocks ----------------------------
(***************************************************************************)
(* Control flow of the native runtime (native_api_control.py), which finds *)
(* blocks by indentation while it executes them: a block that runs ends    *)
(* where execution stopped, a block that is passed over ends where the     *)
(* indentation falls, and the else that follows is looked for from there.  *)
(*                                                                         *)
(* A source is a sequence of lines [indent, word, of, parts]: headers "if",*)
(* "while" and "else", "blank" lines (empty, or a comment, at any          *)
(* indentation) and "simple" ones, whose parts are separated by ";".       *)
(* Conditions and plain statements are events of BlockEvents: what they    *)
(* come to is left open and recorded in `trace`.  PythonBlocks says what   *)
(* the same events mean in Python.                                         *)
(***************************************************************************)
EXTENDS PythonBlocks, Integers

CONSTANTS BlockPrograms,      \* the programs: blocks of PythonBlocks
          Layouts,      \* ways to write a program down
          MaxTrace      \* bound on the events of an execution

VARIABLES program, layout, trace

vars == <<program, layout, trace>>

(***************************************************************************)
(* Writing programs down.  A layout says how far blocks are indented, what *)
(* surrounds them, and whether neighbouring statements share a line.       *)
(***************************************************************************)
Line(indent, word, of, parts) ==
  [indent |-> indent, word |-> word, of |-> of, parts |-> parts]
Header(indent, word, of) == Line(indent, word, of, <<>>)
Simple(indent, parts) == Line(indent, "simple", <<>>, parts)
Blank(indent) == Header(indent, "blank", <<>>)
Part(word, of) == [word |-> word, of |-> of]
IsSimple(s) == s.kind \in {"do", "break", "continue"}

RECURSIVE Lines(_, _, _, _)
Lines(b, p, indent, l) ==
  LET init == SubSeq(b, 1, Len(b) - 1)
      s == b[Len(b)]
      of == Append(p, Len(b))
      before == Lines(init, p, indent, l)
      Suite(c, at, step) ==
        [i \in 1 .. l.blanks |-> Blank(0)]
          \o (IF c = <<>> THEN <<Simple(indent + step, <<Part("pass", <<>>)>>)>>
              ELSE Lines(c, at, indent + step, l))
          \o [i \in 1 .. l.blanks |-> Blank(indent + 3)]
      last == before[Len(before)]
  IN  IF b = <<>> THEN <<>>
      ELSE IF IsSimple(s)
      THEN IF l.joined /\ init # <<>> /\ IsSimple(init[Len(init)])
           THEN [before EXCEPT ![Len(before)].parts = Append(@, Part(s.kind, of))]
           ELSE Append(before, Simple(indent, <<Part(s.kind, of)>>))
      ELSE before \o <<Header(indent, s.kind, of)>> \o Suite(s.body, BodyOf(of), l.body)
             \o (IF s.orelse = <<>> THEN <<>>
                 ELSE <<Header(indent, "else", of)>> \o Suite(s.orelse, OrelseOf(of), l.orelse))

(***************************************************************************)
(* The interpreter.                                                        *)
(***************************************************************************)
\* What a block, or a line, came to: where it stopped, the status (a failure
\* is the error that was raised, or COMPILE_ERROR), the flow, and how many
\* events have been used.  "WANTS" stops for want of an event, `wanted`.
Went(at, st, flow, n) == [at |-> at, st |-> st, flow |-> flow, n |-> n]
Refused(at, n) == Went(at, "COMPILE_ERROR", "normal", n)
Wanting(n, what, of) ==
  [st |-> "WANTS", wanted |-> [what |-> what, of |-> of], n |-> n]

\* _next_content_position.
NextContent(lines, p) ==
  LET content == {q \in p .. Len(lines) : lines[q].word # "blank"}
  IN  IF content = {} THEN Len(lines) + 1
      ELSE CHOOSE q \in content : \A r \in content : q <= r

\* _child_indent: -1 if no deeper line follows.
ChildIndent(lines, p, parent) ==
  LET q == NextContent(lines, p)
  IN  IF q > Len(lines) \/ lines[q].indent <= parent THEN -1 ELSE lines[q].indent

\* _skip_block: the first line with something on it, indented less.
SkipBlock(lines, p, indent) ==
  LET outside == {q \in p .. Len(lines) : lines[q].word # "blank" /\ lines[q].indent < indent}
  IN  IF outside = {} THEN Len(lines) + 1
      ELSE CHOOSE q \in outside : \A r \in outside : q <= r

\* _execute_simple_range, from the i-th part of the line at p.
RECURSIVE ExecuteSimple(_, _, _, _, _, _)
ExecuteSimple(lines, p, i, depth, n, t) ==
  LET part == lines[p].parts[i]
  IN  IF i > Len(lines[p].parts) THEN Went(p + 1, "OK", "normal", n)
      ELSE IF part.word = "pass" THEN ExecuteSimple(lines, p, i + 1, depth, n, t)
      ELSE IF part.word \in {"break", "continue"}
      THEN IF depth <= 0 THEN Refused(p, n) ELSE Went(p + 1, "OK", part.word, n)
      ELSE IF n >= Len(t) THEN Wanting(n, "do", part.of)
      ELSE IF t[n + 1].result \in Errors THEN Went(p, t[n + 1].result, "normal", n + 1)
      ELSE ExecuteSimple(lines, p, i + 1, depth, n + 1, t)

RECURSIVE ExecuteBlock(_, _, _, _, _, _), WhileStatement(_, _, _, _, _, _)

\* Mutant: the flow out of the body is dropped when an else follows.
ElseForgetsFlow(lines, p, indent, depth, held, done, t) ==
  LET q == NextContent(lines, done.at)
      orelse == ChildIndent(lines, q + 1, indent)
      other == ExecuteBlock(lines, q + 1, orelse, depth, done.n, t)
  IN  IF q > Len(lines) \/ lines[q].indent # indent \/ lines[q].word # "else" THEN done
      ELSE IF orelse < 0 THEN Refused(q, done.n)
      ELSE IF held THEN Went(SkipBlock(lines, q + 1, orelse), "OK", "normal", done.n)
      ELSE other

\* The else of the if at p whose condition held or not, its body being done.
Else(lines, p, indent, depth, held, done, t) ==
  LET q == NextContent(lines, done.at)
      orelse == ChildIndent(lines, q + 1, indent)
      other == ExecuteBlock(lines, q + 1, orelse, depth, done.n, t)
  IN  IF q > Len(lines) \/ lines[q].indent # indent \/ lines[q].word # "else" THEN done
      ELSE IF orelse < 0 THEN Refused(q, done.n)
      ELSE IF held THEN [done EXCEPT !.at = SkipBlock(lines, q + 1, orelse)]
      ELSE other

\* The if of _execute_block.
IfStatement(lines, p, indent, depth, n, t) ==
  LET child == ChildIndent(lines, p + 1, indent)
      result == t[n + 1].result
      done == IF result = "stop"
              THEN Went(SkipBlock(lines, p + 1, child), "OK", "normal", n + 1)
              ELSE ExecuteBlock(lines, p + 1, child, depth, n + 1, t)
  IN  IF child < 0 THEN Refused(p, n)
      ELSE IF n >= Len(t) THEN Wanting(n, "test", lines[p].of)
      ELSE IF result \in Errors THEN Went(p, result, "normal", n + 1)
      ELSE IF done.st # "OK" THEN done
      ELSE Else(lines, p, indent, depth, result # "stop", done, t)

\* The while of _execute_block.
WhileStatement(lines, p, indent, depth, n, t) ==
  LET child == ChildIndent(lines, p + 1, indent)
      result == t[n + 1].result
      body == ExecuteBlock(lines, p + 1, child, depth + 1, n + 1, t)
      Ended(k) == Went(SkipBlock(lines, p + 1, child), "OK", "normal", k)
  IN  IF child < 0 THEN Refused(p, n)
      ELSE IF n >= Len(t) THEN Wanting(n, "test", lines[p].of)
      ELSE IF result \in Errors THEN Went(p, result, "normal", n + 1)
      ELSE IF result = "stop" THEN Ended(n + 1)
      ELSE IF body.st # "OK" THEN body
      ELSE IF body.flow = "break" THEN Ended(body.n)
      ELSE WhileStatement(lines, p, indent, depth, body.n, t)

\* _execute_block.
ExecuteBlock(lines, p, indent, depth, n, t) ==
  LET line == lines[p]
      done == CASE line.word = "if" -> IfStatement(lines, p, indent, depth, n, t)
                [] line.word = "while" -> WhileStatement(lines, p, indent, depth, n, t)
                [] line.word = "else" -> Refused(p, n)
                [] line.word = "simple" -> ExecuteSimple(lines, p, 1, depth, n, t)
  IN  IF p > Len(lines) THEN Went(p, "OK", "normal", n)
      ELSE IF line.word = "blank" THEN ExecuteBlock(lines, p + 1, indent, depth, n, t)
      ELSE IF line.indent < indent THEN Went(p, "OK", "normal", n)
      ELSE IF line.indent > indent THEN Refused(p, n)
      ELSE IF done.st # "OK" \/ done.flow # "normal" THEN done
      ELSE ExecuteBlock(lines, done.at, indent, depth, done.n, t)

\* _portapy_exec_span_impl.
ExecSpan(lines, t) ==
  LET done == ExecuteBlock(lines, 1, 0, 0, 0, t)
  IN  IF done.st = "OK" /\ done.flow # "normal" THEN Refused(done.at, done.n) ELSE done

Execution == ExecSpan(Lines(program, <<>>, 0, layout), trace)

Init == program \in BlockPrograms /\ layout \in Layouts /\ trace = <<>>

\* The condition or statement the interpreter is at is evaluated.
Evaluates ==
  /\ Execution.st = "WANTS" /\ Len(trace) < MaxTrace
  /\ \E result \in Errors \cup {"go", "stop"} :
       /\ result = "stop" => Execution.wanted.what = "test"
       /\ trace' = Append(trace, Event(Execution.wanted.what, Execution.wanted.of, NoError, result))
  /\ UNCHANGED <<program, layout>>

Next == Evaluates

Spec == Init /\ [][Next]_vars

----------------------------------------------------------------------------
\* However a program is laid out and whatever its conditions come to, the
\* conditions and statements that run are those Python runs, in that order,
\* and the program ends as it does in Python.
BlocksFollowPython ==
  LET st == Execution.st
  IN  Meaning(program, trace) = CASE st = "WANTS" -> Wants
                                  [] st = "OK" -> Returns("none")
                                  [] OTHER -> Raises(st)
=============================================================================
