------------------------- MODULE PythonExpressions -------------------------
(***************************************************************************)
(* Expressions as trees, what Python says they are worth, and how they are *)
(* written down with no parenthesis that precedence makes redundant.       *)
(*                                                                         *)
(* A tree is a tuple: <<token>> for a literal or a name, <<operator, tree>>*)
(* or <<operator, tree, tree>>.  A value is a kind and a number: the value *)
(* of an int or a bool, the length of a str (all strings here repeat one   *)
(* letter, so their length decides every comparison).                      *)
(*                                                                         *)
(* The result of an evaluation is [st, v]: the class of the exception that *)
(* ends it, named as the statuses of the native ABI, or "OK" and a value.  *)
(***************************************************************************)
EXTENDS Integers, Sequences

LOCAL INSTANCE Bitwise

Value(k, n) == [k |-> k, n |-> n]
None == Value("none", 0)
BoolOf(b) == Value("bool", IF b THEN 1 ELSE 0)
IntOf(n) == Value("int", n)
StrOf(n) == Value("str", n)

Literals == {"0", "1", "2", "True", "False", "None", "'s'", "''"}
LiteralValue(token) ==
  CASE token = "0" -> IntOf(0)
    [] token = "1" -> IntOf(1)
    [] token = "2" -> IntOf(2)
    [] token = "True" -> BoolOf(TRUE)
    [] token = "False" -> BoolOf(FALSE)
    [] token = "None" -> None
    [] token = "'s'" -> StrOf(1)
    [] token = "''" -> StrOf(0)

Numbers == {"int", "bool"}
Truth(v) == v.n # 0

Comparisons == {"==", "!=", "<", "<=", ">", ">=", "is", "is not"}
Arithmetic == {"+", "-", "*", "//", "%", "**", "<<", ">>", "&", "^", "|"}
Unaries == {"-", "+", "~"}

\* Two's complement of 24 bits, wide enough for every operand that occurs.
Bits == 24
Wrap(n) == n % 2^Bits
Unwrap(n) == IF n >= 2^(Bits - 1) THEN n - 2^Bits ELSE n
Bitwise2(op, a, b) ==
  Unwrap(CASE op = "&" -> Wrap(a) & Wrap(b)
           [] op = "|" -> Wrap(a) | Wrap(b)
           [] op = "^" -> Wrap(a) ^^ Wrap(b))

\* Division rounds down, whatever the signs.
FloorDiv(a, b) == IF b > 0 THEN a \div b ELSE (-a) \div (-b)
Number(op, a, b) ==
  CASE op = "+" -> a + b
    [] op = "-" -> a - b
    [] op = "*" -> a * b
    [] op = "//" -> FloorDiv(a, b)
    [] op = "%" -> a - b * FloorDiv(a, b)
    [] op = "**" -> IF b = 0 THEN 1 ELSE a ^ b
    [] op = "<<" -> a * 2^b
    [] op = ">>" -> FloorDiv(a, 2^b)
    [] op \in {"&", "^", "|"} -> Bitwise2(op, a, b)

Ordered(op, a, b) ==
  CASE op = "<" -> a < b
    [] op = "<=" -> a <= b
    [] op = ">" -> a > b
    [] op = ">=" -> a >= b

Good(v) == [st |-> "OK", v |-> v]
Bad(st) == [st |-> st, v |-> None]

PyArithmetic(op, a, b) ==
  IF a.k \in Numbers /\ b.k \in Numbers
  THEN CASE op \in {"//", "%"} /\ b.n = 0 -> Bad("RUNTIME_ERROR")
         [] op \in {"<<", ">>"} /\ b.n < 0 -> Bad("RUNTIME_ERROR")
         [] op \in {"&", "^", "|"} /\ a.k = "bool" /\ b.k = "bool" ->
              Good(Value("bool", Number(op, a.n, b.n)))
         [] OTHER -> Good(IntOf(Number(op, a.n, b.n)))
  ELSE CASE op = "+" /\ a.k = "str" /\ b.k = "str" -> Good(StrOf(a.n + b.n))
         [] op = "*" /\ a.k = "str" /\ b.k \in Numbers ->
              Good(StrOf(IF b.n < 0 THEN 0 ELSE a.n * b.n))
         [] op = "*" /\ b.k = "str" /\ a.k \in Numbers ->
              Good(StrOf(IF a.n < 0 THEN 0 ELSE a.n * b.n))
         [] op = "%" /\ a.k = "str" -> Bad("TYPE_ERROR")
         [] OTHER -> Bad("TYPE_ERROR")

SameValue(a, b) ==
  a.n = b.n /\ (a.k = b.k \/ (a.k \in Numbers /\ b.k \in Numbers))

PyCompare(op, a, b) ==
  CASE op = "==" -> Good(BoolOf(SameValue(a, b)))
    [] op = "!=" -> Good(BoolOf(~SameValue(a, b)))
    [] op = "is" -> Good(BoolOf(a = b))
    [] op = "is not" -> Good(BoolOf(a # b))
    [] OTHER ->
         IF (a.k \in Numbers /\ b.k \in Numbers) \/ (a.k = "str" /\ b.k = "str")
         THEN Good(BoolOf(Ordered(op, a.n, b.n)))
         ELSE Bad("TYPE_ERROR")

PyUnary(op, a) ==
  IF a.k \notin Numbers THEN Bad("TYPE_ERROR")
  ELSE Good(IntOf(CASE op = "-" -> -a.n [] op = "+" -> a.n [] op = "~" -> -a.n - 1))

\* What the tree t is worth where g[name].v is the value of a name.
RECURSIVE Worth(_, _)
Worth(t, g) ==
  LET first == Worth(t[2], g)
      second == Worth(t[3], g)
  IN  IF Len(t) = 1
      THEN IF t[1] \in Literals THEN Good(LiteralValue(t[1]))
           ELSE IF t[1] \in DOMAIN g THEN Good(g[t[1]].v) ELSE Bad("NOT_FOUND")
      ELSE IF first.st # "OK" THEN first
      ELSE IF t[1] = "not" THEN Good(BoolOf(~Truth(first.v)))
      ELSE IF t[1] \in {"and", "or"}
      THEN IF Truth(first.v) = (t[1] = "or") THEN first ELSE second
      ELSE IF Len(t) = 2 THEN PyUnary(t[1], first.v)
      ELSE IF second.st # "OK" THEN second
      ELSE IF t[1] \in Comparisons THEN PyCompare(t[1], first.v, second.v)
      ELSE PyArithmetic(t[1], first.v, second.v)

\* How tightly the operator at the root of a tree binds.
Binding(t) ==
  IF Len(t) = 1 THEN 13
  ELSE IF t[1] = "not" THEN 3
  ELSE IF Len(t) = 2 THEN 11
  ELSE CASE t[1] = "or" -> 1
         [] t[1] = "and" -> 2
         [] t[1] \in Comparisons -> 4
         [] t[1] = "|" -> 5
         [] t[1] = "^" -> 6
         [] t[1] = "&" -> 7
         [] t[1] \in {"<<", ">>"} -> 8
         [] t[1] \in {"+", "-"} -> 9
         [] t[1] \in {"*", "//", "%"} -> 10
         [] t[1] = "**" -> 12

Written(op) == IF op = "is not" THEN <<"is", "not">> ELSE <<op>>

\* The tokens of t, and of t as an operand that must bind at least so tightly.
RECURSIVE Tokens(_)
Tokens(t) ==
  LET Operand(u, least) ==
        IF Binding(u) < least THEN <<"(">> \o Tokens(u) \o <<")">> ELSE Tokens(u)
      own == Binding(t)
  IN  CASE Len(t) = 1 -> t
        [] Len(t) = 2 -> <<t[1]>> \o Operand(t[2], own)
        [] Len(t) = 3 /\ t[1] = "**" ->
             Operand(t[2], 13) \o <<"**">> \o Operand(t[3], 11)
        [] Len(t) = 3 /\ t[1] \in Comparisons ->
             Operand(t[2], 5) \o Written(t[1]) \o Operand(t[3], 5)
        [] OTHER -> Operand(t[2], own) \o <<t[1]>> \o Operand(t[3], own + 1)
=============================================================================
