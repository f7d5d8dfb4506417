--------------------------- MODULE MCVmStatements ---------------------------
(***************************************************************************)
(* What a virtual machine does within a statement, on small instances:     *)
(* calls (VmCalls), expressions and assignments (VmExpressions) and        *)
(* classes (VmClasses) side by side; a behaviour is one of one of the      *)
(* three, and the other two stay as they are.                              *)
(***************************************************************************)
EXTENDS VmCalls

(***************************************************************************)
(* Calls: up to two positional and two keyword-only parameters, in every   *)
(* combination, and up to three arguments of each kind.                    *)
(***************************************************************************)
Def(args, posonly, defaults, vararg, kwonly, kwdefaults, kwarg) ==
  [args |-> args, posonly |-> posonly, defaults |-> defaults, vararg |-> vararg,
   kwonly |-> kwonly, kwdefaults |-> kwdefaults, kwarg |-> kwarg]
AllDefinitions == {} \cup
  UNION {{Def(args, p, d, v, kwonly, ks, k) :
            p \in 0 .. Len(args), d \in 0 .. Len(args), v \in {None, "rest"},
            ks \in SUBSET ToSet(kwonly), k \in {None, "others"}} :
         args \in {<<>>, <<"a">>, <<"a", "b">>}, kwonly \in {<<>>, <<"c">>, <<"c", "d">>}}
MCDefinitions == AllDefinitions

Value(i, j) == <<"value", i, j>>
Positionals == {<<>>, <<<<Value(1, 1)>>>>, <<<<Value(1, 1), Value(1, 2)>>>>,
                <<<<Value(1, 1)>>, <<>>, <<Value(2, 1), Value(2, 2)>>>>}
Keywords(i, names) == [n \in names |-> <<"keyword", i, n>>]
Mappings == {{"a"}, {"b"}, {"c"}, {"a", "d"}, {"b", "c"}, {"e"}, {"rest"}, {"others", "d"}}
AllCalls == {} \cup
  {[positional |-> p, keywords |-> k] :
     p \in Positionals,
     k \in {<<>>} \cup {<<Keywords(1, ns)>> : ns \in Mappings}
            \cup {<<Keywords(1, ns), Keywords(2, ms)>> :
                    ns \in {{"a"}, {"c"}, {"e"}},
                    ms \in {{"a", "d"}, {"b", "c"}, {"c", "d"}, {"rest"}}}}
MCCalls == AllCalls

(***************************************************************************)
(* Expressions two or three operators deep, and every kind of target.      *)
(***************************************************************************)
VARIABLES statement, code, ip, stack, temps, ended, trace

N(k, of) == [k |-> k, of |-> of]
x == N("name", <<"x">>)
y == N("name", <<"y">>)
one == N("constant", <<>>)
Star(t) == N("star", <<t>>)

Small == {x, one, N("binary", <<x, y>>), N("not", <<y>>), N("and", <<x, y>>),
          N("or", <<x, y>>), N("walrus", <<"x", y>>)}
Two == UNION {{N(k, <<a, b>>) : k \in {"binary", "and", "or", "compare", "item"}} : a, b \in Small}
Three == {N("if", <<a, b, x>>) : a, b \in Small} \cup {N("if", <<x, a, b>>) : a, b \in Small}
           \cup {N(k, <<x, a, y>>) : k \in {"and", "or", "compare", "fstring", "display"}, a \in Small}
CallTrees == {N("call", <<x>> \o s) : s \in {<<Star(y)>>, <<Star(x), y>>, <<y, x>>, <<y, Star(x)>>}}
           \cup {N("display", <<Star(y), Star(x)>>), N("display", <<>>)}
One == {N(k, <<a>>) : k \in {"not", "unary", "attribute"}, a \in Small \cup Two}
Mixed == {N("and", <<a, b, y>>) : a \in {N("if", <<x, y, one>>), N("or", <<x, y, x>>)}, b \in {N("or", <<x, y>>), N("if", <<y, x, y>>)}}
For(target, source, ifs) == [target |-> target, source |-> source, ifs |-> ifs]
Comprehension(of, generators) == [k |-> "comprehension", of |-> of, generators |-> generators]
Comprehensions ==
  {Comprehension(of, g) :
     of \in {<<y>>, <<N("binary", <<x, one>>)>>, <<x, y>>},
     g \in {<<For(x, y, <<>>)>>, <<For(x, y, <<x>>)>>, <<For(N("tuple", <<x, y>>), y, <<x, y>>)>>,
            <<For(x, y, <<x>>), For(y, x, <<>>)>>, <<For(x, one, <<>>), For(y, x, <<y>>)>>}}
Trees == Comprehensions
           \cup {N("binary", <<x, Comprehension(<<x>>, <<For(x, one, <<x>>)>>)>>)} \cup Small \cup Two \cup Three \cup One \cup CallTrees \cup Mixed

Statement(k, targets, v) == [k |-> k, targets |-> targets, value |-> v, message |-> one]
Attribute == N("attribute", <<N("or", <<x, y>>)>>)
Item == N("item", <<x, N("if", <<x, y, x>>)>>)
Pair == N("tuple", <<Attribute, N("tuple", <<x, Item>>)>>)
Targets == {x, Attribute, Item, Pair}
Values_ == {y, N("and", <<x, y>>)}
MCSources == {} \cup
  {Statement("expr", <<>>, t) : t \in Trees}
    \cup {Statement("assign", ts, v) : ts \in {<<a>> : a \in Targets} \cup (Targets \X Targets), v \in Values_}
    \cup {Statement("augment", <<t>>, v) : t \in Targets \ {Pair}, v \in Values_}
    \cup {Statement("delete", <<t>>, one) : t \in Targets \ {Pair}}
    \cup {[Statement("assert", <<>>, v) EXCEPT !.message = m] : v \in Values_, m \in {one, x}}

Expressions == INSTANCE VmExpressions WITH Sources <- MCSources, MaxItems <- 2, MaxEvents <- 40

(***************************************************************************)
(* Classes: four statements, one of which may run in a function and one    *)
(* may be run twice, over classes and one type of the host.                *)
(***************************************************************************)
CONSTANT dict

VARIABLES classes, globals, receiver, chain

Class(n, d, s) == [name |-> n, defines |-> d, self |-> TRUE, scope |-> s]
A == Class("A", TRUE, "global")
LocalA == Class("A", TRUE, "local")
B == Class("B", TRUE, "global")
C == Class("C", FALSE, "global")
OtherB == [B EXCEPT !.self = FALSE]
MCStatements == <<{A}, {A, B, OtherB}, {B, LocalA, C}, {C}>>

Classes == INSTANCE VmClasses
             WITH HostTypes <- {dict}, Statements <- MCStatements,
                  MaxBases <- 2, MaxDeleted <- 1, MaxChain <- 5

(***************************************************************************)
(* Side by side.                                                           *)
(***************************************************************************)
VARIABLE part

expressionVars == <<statement, code, ip, stack, temps, ended, trace>>
classVars == <<classes, globals, receiver, chain>>

NoCall ==
  /\ definition = Def(<<>>, 0, 0, None, <<>>, {}, None)
  /\ call = [positional |-> <<>>, keywords |-> <<>>]
  /\ phase = "bound" /\ read = 0 /\ positional = <<>> /\ kwargs = NoLocals
  /\ pending = {} /\ locals = NoLocals
NoStatement ==
  /\ statement = Statement("expr", <<>>, one) /\ code = <<>> /\ ip = 1 /\ stack = <<>>
  /\ temps = <<>> /\ trace = <<>> /\ ended = "ok"

MCInit ==
  /\ Classes!Init
  /\ \/ part = "calls" /\ CallInit /\ NoStatement
     \/ part = "expressions" /\ Expressions!Init /\ NoCall
     \/ part = "classes" /\ NoCall /\ NoStatement
MCNext ==
  /\ part' = part
  /\ \/ part = "calls" /\ CallNext /\ UNCHANGED <<expressionVars, classVars>>
     \/ part = "expressions" /\ Expressions!Next /\ UNCHANGED <<callVars, classVars>>
     \/ part = "classes" /\ Classes!Next /\ UNCHANGED <<callVars, expressionVars>>
MCSpec ==
  MCInit /\ [][MCNext]_<<part, callVars, expressionVars, classVars>> /\ Expressions!Fairness

\* Names, foreign code and operands in Python's order (frontend.py, vm.py).
EvaluationFollowsPython == Expressions!EvaluationFollowsPython

\* A statement uses up what it pushed, but for an item among several targets.
StackBalanced == Expressions!StackBalanced

\* A statement over iterators that end comes to an end.
EveryStatementEnds == Expressions!EveryStatementEnds


\* super() climbs a line of classes bound at module level, each method once
\* (_lexical_super_class).
SuperFollowsPython == Classes!SuperFollowsPython
=============================================================================
