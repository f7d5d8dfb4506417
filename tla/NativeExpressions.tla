------------------------- MODULE NativeExpressions -------------------------
(***************************************************************************)
(* The expression evaluator of the native runtime, which evaluates while   *)
(* it parses: native_api_boolean.py cuts the source at or, and, not and    *)
(* the first comparison (found by native_api_expressions.py), and          *)
(* native_api_scalar.py evaluates each piece by recursive descent.         *)
(*                                                                         *)
(* Source is a sequence of tokens: spelling and the decoding of literals   *)
(* are abstracted, and spaces but for one: ==, !=, <= and >= written with  *)
(* no space before them are tokens of their own (Joined).  g maps the      *)
(* bound names to a value v and the handle h that holds it.                *)
(*                                                                         *)
(* A result has the status st, the value v, its handle h if it is that of  *)
(* a name, the position after the last token read (scalar layer only), and *)
(* live: the references taken by the evaluation and not given back, which  *)
(* the caller must account for.                                            *)
(***************************************************************************)
EXTENDS PythonExpressions, SequencesExt

Fresh == 0      \* the handle of a value no name holds

Got(v, at) == [st |-> "OK", v |-> v, h |-> Fresh, at |-> at, live |-> 1]
Refuse(st, at) == [st |-> st, v |-> None, h |-> Fresh, at |-> at, live |-> 0]
\* _retain_global.
Retained(b, at) == [Got(b.v, at) EXCEPT !.h = b.h]
OK(r) == r.st = "OK"

\* _release: one reference to the value of r is given back; r is then spent.
Released(r) == r.live - 1

\* not: the operand is released and a fresh bool made.
Negated(r) == [r EXCEPT !.v = BoolOf(~Truth(@)), !.h = Fresh]

\* Mutant: the operand evaluated first is forgotten when the second fails.
FailsForgetting(r, l) == [r EXCEPT !.live = @ + l.live]

\* The failure r, given that the reference of the earlier result l was dropped.
FailsAfter(r, l) == [r EXCEPT !.live = @ + Released(l)]

\* The augmented assignments the evaluator knows, and their operators.
Augmented == [t \in {"+=", "-=", "*=", "//=", "%=", "&=", "|=", "^="} |->
                CASE t = "+=" -> "+" [] t = "-=" -> "-" [] t = "*=" -> "*"
                  [] t = "//=" -> "//" [] t = "%=" -> "%" [] t = "&=" -> "&"
                  [] t = "|=" -> "|" [] t = "^=" -> "^"]

\* The comparisons of two characters that follow what precedes them directly.
Joined == [t \in {".==", ".!=", ".<=", ".>="} |->
             CASE t = ".==" -> "==" [] t = ".!=" -> "!="
               [] t = ".<=" -> "<=" [] t = ".>=" -> ">="]
ComparisonTokens == Comparisons \cup DOMAIN Joined

\* Tokens that are not names; to the evaluator every other token is one, the
\* words and, or, not and is included.
Symbols == {"(", ")", "/", "end", ";", "#", "newline"} \cup Unaries
             \cup Arithmetic \cup (ComparisonTokens \ {"is", "is not"}) \cup {"=", "**=", "/=", "<<=", ">>="}
             \cup DOMAIN Augmented
At(s, p) == IF p \in 1 .. Len(s) THEN s[p] ELSE "end"

(***************************************************************************)
(* The scalar layer.                                                       *)
(***************************************************************************)
\* _binary on two values.
Apply(op, a, b) ==
  IF op = "+" /\ a.k = "str" /\ b.k = "str" THEN Good(StrOf(a.n + b.n))
  ELSE IF op = "*" /\ a.k = "str" /\ b.k \in Numbers
  THEN Good(StrOf(a.n * (IF b.n < 0 THEN 0 ELSE b.n)))
  ELSE IF op = "*" /\ b.k = "str" /\ a.k \in Numbers
  THEN Good(StrOf(b.n * (IF a.n < 0 THEN 0 ELSE a.n)))
  ELSE IF a.k \notin Numbers \/ b.k \notin Numbers THEN Bad("TYPE_ERROR")
  ELSE IF op \in {"//", "%"} /\ b.n = 0 THEN Bad("RUNTIME_ERROR")
  ELSE IF op = "**" /\ b.n < 0 THEN Bad("TYPE_ERROR")
  ELSE IF op \in {"<<", ">>"} /\ b.n < 0 THEN Bad("RUNTIME_ERROR")
  ELSE IF op \in Arithmetic THEN Good(IntOf(Number(op, a.n, b.n)))
  ELSE Bad("TYPE_ERROR")

\* Both operands are released, on every path, and a fresh value may be made.
Combined(out, l, r) ==
  [st |-> out.st, v |-> out.v, h |-> Fresh, at |-> r.at,
   live |-> Released(l) + Released(r) + (IF out.st = "OK" THEN 1 ELSE 0)]

\* _compare: identity holds between singletons and of one handle with itself.
Related(op, a, b, same) ==
  CASE op = "==" -> Good(BoolOf(SameValue(a, b)))
    [] op = "!=" -> Good(BoolOf(~SameValue(a, b)))
    [] op \in {"is", "is not"} ->
         LET identical == same \/ (a = b /\ a.k \in {"none", "bool"})
         IN  Good(BoolOf(identical = (op = "is")))
    [] OTHER ->
         IF (a.k \in Numbers /\ b.k \in Numbers) \/ (a.k = b.k /\ a.k = "str")
         THEN Good(BoolOf(Ordered(op, a.n, b.n)))
         ELSE Bad("TYPE_ERROR")

\* The operation on two results, the second of which was asked for only if the
\* first is a value.
Operation(op, l, r) ==
  IF ~OK(r) THEN FailsAfter(r, l) ELSE Combined(Apply(op, l.v, r.v), l, r)

\* Whether two operands are one value, held by a name or by two aliases.
OneHandle(l, r) == l.h = r.h /\ l.h # Fresh

Relation(op, l, r) ==
  IF ~OK(l) THEN l
  ELSE IF ~OK(r) THEN FailsAfter(r, l)
  ELSE Combined(Related(op, l.v, r.v, OneHandle(l, r)), l, r)

\* The rules of the grammar, each made of the one before: atoms, powers, signs,
\* the left-associative operators of each level, and at most one comparison.
Atoms == 0
Powers == 1
Signs == 2
Levels == <<{"//", "*", "%", "/"}, {"+", "-"}, {"<<", ">>"}, {"&"}, {"^"}, {"|"}>>
Operators(rule) == Levels[rule - Signs]
Lowest == Signs + Len(Levels)
Compared == Lowest + 1

\* _comparison_operator: the operator at p and how many tokens it takes.
ComparisonAt(s, p) ==
  IF At(s, p) = "is"
  THEN IF At(s, p + 1) = "not" THEN <<"is not", 2>> ELSE <<"is", 1>>
  ELSE IF At(s, p) \in Comparisons THEN <<s[p], 1>>
  ELSE IF At(s, p) \in DOMAIN Joined THEN <<Joined[s[p]], 1>> ELSE <<"", 0>>

\* What stands at p of s, by a rule.
RECURSIVE Parsed(_, _, _, _)

\* _parse_atom.
Atom(s, p, g) ==
  LET inner == Parsed(Compared, s, p + 1, g)
      token == At(s, p)
  IN  IF token = "("
      THEN IF ~OK(inner) THEN inner
           ELSE IF At(s, inner.at) # ")"
           THEN FailsAfter(Refuse("COMPILE_ERROR", inner.at), inner)
           ELSE [inner EXCEPT !.at = @ + 1]
      ELSE IF token \in Literals THEN Got(LiteralValue(token), p + 1)
      ELSE IF token \in DOMAIN g THEN Retained(g[token], p + 1)
      ELSE IF token \in Symbols THEN Refuse("COMPILE_ERROR", p)
      ELSE Refuse("NOT_FOUND", p + 1)

\* _parse_power.
Power(s, p, g) ==
  LET l == Parsed(Atoms, s, p, g)
  IN  IF ~OK(l) \/ At(s, l.at) # "**" THEN l
      ELSE Operation("**", l, Parsed(Signs, s, l.at + 1, g))

\* _parse_unary; its "not" binds as tightly as a sign.
Unary(s, p, g) ==
  LET operand == Parsed(Signs, s, p + 1, g)
      token == At(s, p)
  IN  IF token \notin Unaries \cup {"not"} THEN Parsed(Powers, s, p, g)
      ELSE IF ~OK(operand) THEN operand
      ELSE IF token = "not" THEN Negated(operand)
      ELSE IF operand.v.k \notin Numbers
      THEN FailsAfter(Refuse("TYPE_ERROR", p), operand)
      ELSE [operand EXCEPT !.v = PyUnary(token, @).v, !.h = Fresh]

RECURSIVE Loop(_, _, _, _)

\* Mutant: the right operand is taken at the same level, so that operators of
\* one level associate to the right.
LoopRight(rule, s, l, g) ==
  IF ~OK(l) \/ At(s, l.at) \notin Operators(rule) THEN l
  ELSE Loop(rule, s, Operation(s[l.at], l, Parsed(rule, s, l.at + 1, g)), g)

\* The loop of _parse_left, l being what it has so far.
Loop(rule, s, l, g) ==
  IF ~OK(l) \/ At(s, l.at) \notin Operators(rule) THEN l
  ELSE Loop(rule, s, Operation(s[l.at], l, Parsed(rule - 1, s, l.at + 1, g)), g)

\* _parse_comparison of the scalar layer: at most one comparison.
Scalar(s, p, g) ==
  LET l == Parsed(Lowest, s, p, g)
      cmp == ComparisonAt(s, l.at)
  IN  IF ~OK(l) \/ cmp[1] = "" THEN l
      ELSE Relation(cmp[1], l, Parsed(Lowest, s, l.at + cmp[2], g))

\* _parse_left takes its first operand by the rule before.
Parsed(rule, s, p, g) ==
  CASE rule = Atoms -> Atom(s, p, g)
    [] rule = Powers -> Power(s, p, g)
    [] rule = Signs -> Unary(s, p, g)
    [] rule = Compared -> Scalar(s, p, g)
    [] OTHER -> Loop(rule, s, Parsed(rule - 1, s, p, g), g)

\* _parse_scalar_complete: a piece is an expression and nothing more.  It is
\* read with the two characters next to it, for the scalar layer looks for
\* them without regard to where the piece ends.
NothingMore(r, end) ==
  IF ~OK(r) \/ r.at = end THEN r ELSE FailsAfter(Refuse("COMPILE_ERROR", r.at), r)
Complete(s, next, g) == NothingMore(Parsed(Compared, s \o next, 1, g), Len(s) + 1)

(***************************************************************************)
(* The boolean layer.                                                      *)
(***************************************************************************)
\* The depth of parentheses after each token, not below the floor.
DepthFrom(s, floor) ==
  LET d[i \in 0 .. Len(s)] ==
        IF i = 0 THEN 0
        ELSE IF s[i] = "(" THEN d[i - 1] + 1
        ELSE IF s[i] = ")" /\ d[i - 1] > floor THEN d[i - 1] - 1
        ELSE d[i - 1]
  IN  d
Depth(s) == DepthFrom(s, 0)

FirstAnywhere(s, words) == SelectInSeq(s, LAMBDA t : t \in words)

\* _find_word_operator and _find_comparison: the first of the words that is
\* not inside parentheses, or 0.
FirstOutside(s, words) ==
  LET d == Depth(s)
  IN  SelectInSeq([i \in 1 .. Len(s) |-> IF d[i] = 0 THEN s[i] ELSE "("],
                  LAMBDA t : t \in words)

Before(s, i) == SubSeq(s, 1, i - 1)
After(s, i) == SubSeq(s, i + 1, Len(s))

\* _strip_outer_parentheses: while the first parenthesis closes at the end.
RECURSIVE Stripped(_)
Stripped(s) ==
  LET d == Depth(s)
      n == Len(s)
  IN  IF n >= 2 /\ s[1] = "(" /\ s[n] = ")" /\ d[n] = 0 /\ \A i \in 1 .. n - 1 : d[i] > 0
      THEN Stripped(SubSeq(s, 2, n - 1))
      ELSE s

\* s as a disjunction, a conjunction or a negation.
RECURSIVE Junction(_, _, _)

\* The comparison of _parse_comparison, cut at the first one outside.  One that
\* is joined to its left side is there for the scalar layer to take as well,
\* which then has no right side to read.
Comparison(s, g) ==
  LET i == FirstOutside(s, ComparisonTokens)
      cmp == ComparisonAt(s, i)
      next == IF s[i] \in DOMAIN Joined THEN <<s[i]>> ELSE <<>>
  IN  IF i = 0 THEN Complete(s, <<>>, g)
      ELSE Relation(cmp[1], Complete(Before(s, i), next, g),
                    Complete(After(s, i + cmp[2] - 1), <<>>, g))

\* _parse_not.
Not(s, g) ==
  LET inner == Stripped(s)
      r == Junction("not", Tail(s), g)
  IN  IF inner # s THEN Junction("or", inner, g)
      ELSE IF At(s, 1) # "not" THEN Comparison(s, g)
      ELSE IF ~OK(r) THEN r
      ELSE Negated(r)

\* The right operand decides; the left one has been released.
Decides(l, r) == [r EXCEPT !.live = @ + Released(l)]

\* _parse_and and _parse_or: what follows a deciding operand is not read.
And(s, g) ==
  LET i == FirstOutside(s, {"and"})
      l == Junction("not", Before(s, i), g)
  IN  IF i = 0 THEN Junction("not", s, g)
      ELSE IF ~OK(l) \/ ~Truth(l.v) THEN l
      ELSE Decides(l, Junction("and", After(s, i), g))

Or(s, g) ==
  LET i == FirstOutside(s, {"or"})
      l == Junction("and", Before(s, i), g)
  IN  IF i = 0 THEN Junction("and", s, g)
      ELSE IF ~OK(l) \/ Truth(l.v) THEN l
      ELSE Decides(l, Junction("or", After(s, i), g))

Junction(word, s, g) ==
  CASE word = "or" -> Or(s, g) [] word = "and" -> And(s, g) [] word = "not" -> Not(s, g)

\* _parse_boolean_expression.
Expression(s, g) == Junction("or", Stripped(s), g)

(***************************************************************************)
(* The trees on which the evaluator follows Python.  A scalar operand, in  *)
(* parentheses or not, is read by the scalar layer alone: it knows neither *)
(* and nor or, and its "not" binds as tightly as a sign.  Beyond that the  *)
(* native subset has no negative powers, gives &, ^ and | of two bools as  *)
(* an int, and identity of numbers and strings is that of their handles.   *)
(* A comparison outside parentheses is refused when joined to its left     *)
(* side (x==1), and followed when not (x ==1, (x==1) + 1).                 *)
(***************************************************************************)
RECURSIVE ScalarSupported(_, _)
ScalarSupported(t, g) ==
  LET a == Worth(t[2], g).v
      b == Worth(t[3], g).v
  IN  \/ Len(t) = 1
      \/ /\ t[1] = "not" /\ (Binding(t[2]) >= 11 \/ t[2][1] = "not")
         /\ ScalarSupported(t[2], g)
      \/ /\ t[1] \in Unaries /\ Len(t) = 2
         /\ ScalarSupported(t[2], g)
      \/ /\ t[1] \in Arithmetic \cup Comparisons /\ Len(t) = 3
         /\ ScalarSupported(t[2], g) /\ ScalarSupported(t[3], g)
         /\ t[1] = "**" => b.n >= 0
         /\ t[1] \in {"&", "^", "|"} => ~(a.k = "bool" /\ b.k = "bool")
         /\ t[1] \in {"is", "is not"} => {a.k, b.k} \cap {"int", "str"} = {}

RECURSIVE Supported(_, _, _)
Supported(t, joined, g) ==
  IF t[1] \in {"and", "or"} THEN Supported(t[2], joined, g) /\ Supported(t[3], joined, g)
  ELSE IF t[1] = "not" THEN Supported(t[2], joined, g)
  ELSE ScalarSupported(t, g) /\ (joined => t[1] \notin Range(Joined))
=============================================================================
