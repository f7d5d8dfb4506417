---------------------------- MODULE NativeSource ----------------------------
(***************************************************************************)
(* eval and exec of the native runtime (native_api_expressions.py): source *)
(* is cut into statements, each statement is evaluated and bound by the    *)
(* evaluator of NativeExpressions, until one fails.  One statement is one  *)
(* step.                                                                   *)
(*                                                                         *)
(* `written` is a history variable: the statements, as trees, that the     *)
(* source spells, or Nonsense for tokens that spell no program.  A         *)
(* statement is [kind, name, op, tree]: "pass", "eval" (an expression      *)
(* given to eval), "expr", "assign" and "augment".  joined tells whether   *)
(* its comparisons are written with no space before them.                  *)
(***************************************************************************)
EXTENDS NativeExpressions

CONSTANTS Programs,     \* sequences of statements: one "eval", or for exec
          Dense,        \* those also written with joined comparisons
          Junk,         \* token sequences that spell no program
          AtStart,      \* the names bound at first, with value and handle
          Separator     \* between statements: ";" or a new line

VARIABLES
  written,   \* history: the statements that the source spells, or Nonsense
  joined,    \* history: whether it spells comparisons joined to the left
  form,      \* "eval" or "exec"
  rest,      \* the tokens not yet read
  globals,   \* the values and handles of the names
  live,      \* the references that exist
  status,    \* how it ended, or Running
  result,    \* what eval gives to the host
  executed   \* history: statements executed

vars == <<written, joined, form, rest, globals, live, status, result, executed>>

Nonsense == <<>>
Running == "running"
NoResult == [v |-> None, live |-> 0]

\* The tokens of a statement and of a program.
Spelled(s) ==
  CASE s.kind = "pass" -> <<"pass">>
    [] s.kind \in {"eval", "expr"} -> Tokens(s.tree)
    [] s.kind = "assign" -> <<s.name, "=">> \o Tokens(s.tree)
    [] s.kind = "augment" -> <<s.name, s.op>> \o Tokens(s.tree)
Source(program) ==
  FlattenSeq([i \in DOMAIN program |->
                IF i = 1 THEN Spelled(program[i])
                ELSE <<Separator>> \o Spelled(program[i])])

\* A source without the space before its comparisons.
Densely(s) ==
  [i \in DOMAIN s |-> IF s[i] \in Range(Joined)
                      THEN CHOOSE t \in DOMAIN Joined : Joined[t] = s[i] ELSE s[i]]

Init ==
  /\ globals = AtStart /\ live = Cardinality(DOMAIN AtStart)
  /\ status = Running /\ result = NoResult /\ executed = 0
  /\ \/ /\ joined \in BOOLEAN
        /\ written \in IF joined THEN Dense ELSE Programs
        /\ form = IF written[1].kind = "eval" THEN "eval" ELSE "exec"
        /\ rest = IF joined THEN Densely(Source(written)) ELSE Source(written)
     \/ /\ written = Nonsense /\ joined = FALSE
        /\ form \in {"eval", "exec"}
        /\ rest \in Junk

\* _portapy_eval_span_impl: the result goes to the host with its reference.
Eval ==
  /\ status = Running /\ form = "eval"
  /\ LET r == Expression(rest, globals)
     IN  /\ status' = r.st
         /\ live' = live + r.live
         /\ result' = IF OK(r) THEN [v |-> r.v, live |-> 1] ELSE NoResult
  /\ executed' = 1
  /\ UNCHANGED <<written, joined, form, rest, globals>>

\* _bind_global: the name takes over the reference, its old value loses one.
Bind(name, r, g) ==
  LET handle == IF r.h # Fresh THEN r.h
                ELSE CHOOSE h \in 1 .. Cardinality(DOMAIN g) + 1 :
                       \A n \in DOMAIN g : g[n].h # h
  IN  [st |-> "OK",
       globals |-> (name :> [v |-> r.v, h |-> handle]) @@ g,
       live |-> r.live - 1 + (IF name \in DOMAIN g THEN 0 ELSE 1)]

\* A statement that binds nothing.
Binds(r, g, taken) == [st |-> r.st, globals |-> g, live |-> taken]

\* The augmented assignment of r to a name: the right side comes first.
Augment(name, op, r, g) ==
  LET combined == Operation(Augmented[op], Retained(g[name], 0), r)
  IN  IF name \notin DOMAIN g THEN Binds(Refuse("NOT_FOUND", 0), g, Released(r))
      ELSE IF ~OK(combined) THEN Binds(combined, g, combined.live)
      ELSE Bind(name, combined, g)

\* What becomes of the result of an expression and of an assignment.
Dropped(r, g) == Binds(r, g, IF OK(r) THEN Released(r) ELSE r.live)
Assigned(name, op, r, g) ==
  IF ~OK(r) THEN Binds(r, g, r.live)
  ELSE IF op = "=" THEN Bind(name, r, g) ELSE Augment(name, op, r, g)

\* The first token of s among these at depth 0, or 0.  The depth goes below 0
\* at a stray ")", and nothing after it is at depth 0 any more.
FirstAtDepthZero(s, tokens) ==
  LET d == DepthFrom(s, -Len(s))
  IN  SelectInSeq([i \in DOMAIN s |-> IF d[i] = 0 THEN s[i] ELSE "("],
                  LAMBDA t : t \in tokens)

IsIdentifier(s) ==
  Len(s) = 1 /\ s[1] \notin Symbols \cup {"0", "1", "2", "'s'", "''"}

\* _exec_statement.  **= and /= are taken for "=" after a name that is none;
\* <<= and >>= are no assignments, and fail as expressions.
Execute(s, g) ==
  LET i == FirstAtDepthZero(s, DOMAIN Augmented \cup {"=", "**=", "/="})
  IN  IF s \in {<<>>, <<"pass">>} THEN Binds([st |-> "OK"], g, 0)
      ELSE IF i = 0 THEN Dropped(Expression(s, g), g)
      ELSE IF ~IsIdentifier(Before(s, i)) \/ s[i] \in {"**=", "/="}
      THEN Binds(Refuse("COMPILE_ERROR", 0), g, 0)
      ELSE Assigned(s[1], s[i], Expression(After(s, i), g), g)

\* Where the first statement of s ends, or 0 if it is the last.
End(s) == FirstAtDepthZero(s, {";", "newline", "#"})

\* What follows the statement: a comment goes on to the end of its line.
Remaining(s) ==
  LET i == End(s)
      line == After(s, i)
      j == FirstAnywhere(line, {"newline"})
  IN  IF i = 0 THEN <<>>
      ELSE IF s[i] # "#" THEN line
      ELSE IF j = 0 THEN <<>> ELSE After(line, j)

\* One round of the loop of _portapy_exec_span_impl.
Exec ==
  /\ status = Running /\ form = "exec" /\ rest # <<>>
  /\ LET s == IF End(rest) = 0 THEN rest ELSE Before(rest, End(rest))
         done == Execute(s, globals)
     IN  /\ globals' = done.globals
         /\ live' = live + done.live
         /\ status' = IF done.st = "OK" THEN Running ELSE done.st
  /\ rest' = Remaining(rest)
  /\ executed' = executed + 1
  /\ UNCHANGED <<written, joined, form, result>>

\* The end of the source.
Finish ==
  /\ status = Running /\ form = "exec" /\ rest = <<>>
  /\ status' = "OK"
  /\ UNCHANGED <<written, joined, form, rest, globals, live, result, executed>>

Next == Eval \/ Exec \/ Finish

Spec == Init /\ [][Next]_vars

----------------------------------------------------------------------------
(***************************************************************************)
(* What Python makes of the first n statements of a program: how far it    *)
(* gets, with the values of the names.                                     *)
(***************************************************************************)
RECURSIVE PythonAfter(_, _)
PythonAfter(program, n) ==
  LET before == PythonAfter(program, n - 1)
      s == program[n]
      worth ==
        CASE s.kind = "pass" -> Good(None)
          [] s.kind \in {"eval", "expr", "assign"} -> Worth(s.tree, before.g)
          [] s.kind = "augment" ->
               Worth(<<Augmented[s.op], <<s.name>>, s.tree>>, before.g)
  IN  IF n = 0 THEN [st |-> "OK", v |-> None, g |-> AtStart]
      ELSE IF before.st # "OK" THEN before
      ELSE IF worth.st = "OK" /\ s.kind \in {"assign", "augment"}
      THEN [st |-> "OK", v |-> worth.v,
            g |-> (s.name :> [v |-> worth.v]) @@ before.g]
      ELSE [st |-> worth.st, v |-> worth.v, g |-> before.g]

\* Where statement s is evaluated as Python does, with the names of g.  An
\* augmented assignment to an unbound name fails only after its right side.
SupportedStatement(s, g) ==
  CASE s.kind = "pass" -> TRUE
    [] s.kind \in {"eval", "expr", "assign"} -> Supported(s.tree, joined, g)
    [] s.kind = "augment" ->
         /\ Supported(s.tree, joined, g)
         /\ s.name \in DOMAIN g \/ Worth(s.tree, g).st = "OK"
         /\ s.name \in DOMAIN g /\ s.op \in {"&=", "|=", "^="} =>
              {g[s.name].v.k, Worth(s.tree, g).v.k} # {"bool"}

\* Precedence, associativity, short circuit, comparison, assignment: each
\* statement of a program the subset supports leaves the names as Python does,
\* fails where and as Python fails, and eval returns Python's value.
FollowsPython ==
  written # Nonsense /\ executed <= Len(written) =>
    LET python == PythonAfter(written, executed)
        supported == \A i \in 1 .. executed :
                       SupportedStatement(written[i], PythonAfter(written, i - 1).g)
    IN  supported =>
          /\ python.st = (IF status = Running THEN "OK" ELSE status)
          /\ DOMAIN globals = DOMAIN python.g
          /\ \A n \in DOMAIN globals : globals[n].v = python.g[n].v
          /\ status = "OK" /\ form = "eval" => result.v = python.v

\* On every way through the evaluator, malformed source and failing operands
\* included, what was retained is released: the references left are those of
\* the names and of the result given to the host.
Balanced == live = Cardinality(DOMAIN globals) + result.live
=============================================================================
