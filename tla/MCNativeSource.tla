--------------------------- MODULE MCNativeSource ---------------------------
EXTENDS NativeSource, SlotList, TLC

MCAtStart == [n \in {"x", "s"} |->
              IF n = "x" THEN [v |-> IntOf(2), h |-> 1] ELSE [v |-> StrOf(1), h |-> 2]]

Leaves == {<<t>> : t \in {"x", "s", "u", "0", "1", "True", "None", "''"}}
Few == {<<"x">>, <<"u">>, <<"1">>, <<"True">>}
Binaries == (Arithmetic \cup Comparisons \cup {"and", "or"}) \ {"^", ">>", ">=", "!="}
PrefixWords == {"not", "-", "~"}

Nodes(operators, ls, rs) == {<<op, l, r>> : op \in operators, l \in ls, r \in rs}
Prefixed(ts) == {<<op, t>> : op \in PrefixWords, t \in ts}
One == Nodes(Binaries, Leaves, Leaves) \cup Prefixed(Leaves)
Small == Nodes(Binaries \ {"%", "|", "is not", "<="}, Few, {<<"x">>, <<"1">>}) \cup Prefixed(Few)
\* One side deep, then both.
Two == Nodes(Binaries, Small, Few) \cup Nodes(Binaries, Few, Small) \cup Prefixed(Small)
Deep == {<<"+", <<"x">>, <<"1">>>>, <<"*", <<"u">>, <<"1">>>>, <<"and", <<"x">>, <<"s">>>>,
         <<"or", <<"None">>, <<"u">>>>, <<"<", <<"x">>, <<"1">>>>, <<"not", <<"x">>>>,
         <<"-", <<"x">>>>, <<"**", <<"x">>, <<"x">>>>, <<"-", <<"x">>, <<"1">>>>}
Three == LET both == Nodes(Binaries, Deep, Deep)
         IN  Nodes({"+", "-", "**", "and", "or", "=="}, both, {<<"1">>}) \cup both
Trees == Leaves \cup One \cup Two \cup Three

Expr(t) == [kind |-> "expr", tree |-> t]
Assign(n, t) == [kind |-> "assign", name |-> n, tree |-> t]
Augmenting(n, op, t) == [kind |-> "augment", name |-> n, op |-> op, tree |-> t]
Pass == [kind |-> "pass"]
Statements ==
  {Assign(n, t) : n \in {"x", "u"}, t \in {<<"x">>, <<"u">>, <<"+", <<"x">>, <<"1">>>>,
                                           <<"==", <<"x">>, <<"u">>>>}}
    \cup {Augmenting(n, op, t) : n \in {"x", "u"}, op \in {"+=", "*=", "//=", "&="},
                                 t \in {<<"1">>, <<"0">>, <<"s">>, <<"is", <<"x">>, <<"u">>>>}}
    \cup {Expr(<<"u">>), Expr(<<"or", <<"x">>, <<"u">>>>), Pass}
Sequences == {<<a, b>> : a, b \in Statements}
               \cup {<<a, b, Assign("x", <<"or", <<"u">>, <<"x">>>>)>> : a, b \in Statements}

\* Trees with ==, !=, <= and >= under and beside the other operators.
CompareLeaves == {<<"x">>, <<"u">>, <<"1">>}
Compare == Nodes({"==", "!=", "<=", ">="}, CompareLeaves, {<<"x">>, <<"1">>})
             \cup Nodes({"<="}, {<<"+", <<"x">>, <<"1">>>>}, {<<"1">>, <<"u">>})
MCDense ==
  {<<[kind |-> "eval", tree |-> t]>> :
     t \in Compare \cup Prefixed(Compare)
           \cup Nodes({"+", "<", "==", "and", "or"}, Compare, {<<"1">>, <<"u">>})
           \cup Nodes({"+", "<", "==", "and", "or"}, {<<"1">>, <<"None">>}, Compare)
           \cup Nodes({"and", "<"}, Compare, Compare)}
    \cup {<<Assign("u", t)>> : t \in Compare \cup Nodes({"+"}, {<<"x">>}, Compare)}
    \cup {<<Augmenting("x", "+=", t), Assign("u", t)>> : t \in Nodes({"-"}, Compare, {<<"x">>})}

MCPrograms == {<<[kind |-> "eval", tree |-> t]>> : t \in Trees}
                \cup {<<a>> : a \in Statements} \cup Sequences \cup MCDense

JunkTokens == {"(", ")", "x", "+", "and", "not", "<", "=", ";"}
MCJunk == UNION {[1 .. n -> JunkTokens] : n \in 1 .. 4}
            \cup {<<"x", op, "1">> : op \in {"**=", "/=", "<<=", "/", "#"}}
            \cup {<<"x", "is", "not", a, b>> : a, b \in JunkTokens}
            \cup {<<a, "x", op, b, "1">> : op \in DOMAIN Joined, a, b \in JunkTokens}
            \cup {<<"(", "x", a, ";", b, ")", ";", "x">> : a, b \in {"+", "and", "x", "#", "="}}
            \cup {<<"x", "#", a, "newline", b, "=", c>> : a, b, c \in {"x", "(", ")", "1"}}

(***************************************************************************)
(* Blocks: two deep, written plainly, with statements sharing lines, and   *)
(* with blank lines and uneven indentation.  Either a source or a program  *)
(* of blocks is given.                                                     *)
(***************************************************************************)
VARIABLES program, layout, trace

do == [kind |-> "do"]
break == [kind |-> "break"]
continue == [kind |-> "continue"]
if(body, orelse) == [kind |-> "if", body |-> body, orelse |-> orelse]
while(body) == [kind |-> "while", body |-> body, orelse |-> <<>>]
Inner == {<<>>, <<do>>, <<break>>, <<continue>>, <<do, break, do>>}
Inside(bs) == {<<if(b, <<>>)>> : b \in bs} \cup {<<if(b, c)>> : b, c \in bs}
                \cup {<<while(b)>> : b \in bs}
Level1 == Inside(Inner)
Level2 == Level1 \cup {<<do>> \o b \o <<do>> : b \in Level1} \cup {<<break>>, <<do>>}
MCWritten ==
  {<<while(b), do>> : b \in Level2}
    \cup {<<if(b, c), do>> : b \in Level1, c \in {<<>>, <<do>>}}
    \cup {<<if(<<do>>, b)>> : b \in Level1}
    \cup {<<while(<<if(b, c), do>>)>> : b, c \in {<<while(<<break>>), break, do>>,
                                                 <<while(<<do, continue>>), continue>>, <<if(<<break>>, <<do>>)>>}}
MCLayouts ==
  {[body |-> 1, orelse |-> 1, blanks |-> 0, joined |-> FALSE],
   [body |-> 1, orelse |-> 1, blanks |-> 0, joined |-> TRUE],
   [body |-> 3, orelse |-> 1, blanks |-> 1, joined |-> TRUE]}

Blocks == INSTANCE NativeBlocks
            WITH Errors <- {"error"}, Layouts <- MCLayouts, MaxTrace <- 6,
                 BlockPrograms <- MCWritten

(***************************************************************************)
(* The table of globals.                                                   *)
(***************************************************************************)
CONSTANT MaxSlots

Table == INSTANCE GlobalSlots

\* A cleared slot is told from those of runtimes and of names.
ASSUME SlotsAssumption == Nothing \notin Runtimes \cup Names

Symmetry == Permutations(Runtimes) \cup Permutations(Names) \cup Permutations(Values)

(***************************************************************************)
(* Side by side: a behaviour is one of a source, of blocks or of a table,  *)
(* and the other two stay as they are.                                     *)
(***************************************************************************)
VARIABLE part

blockVars == <<program, layout, trace>>
tableVars == <<slots, alive, snapshot>>

NoBlocks == /\ program = <<>> /\ trace = <<>>
            /\ layout = [body |-> 1, orelse |-> 1, blanks |-> 0, joined |-> FALSE]
NoSource == /\ written = Nonsense /\ joined = FALSE /\ form = "exec" /\ rest = <<>> /\ executed = 0
            /\ globals = AtStart /\ live = Cardinality(DOMAIN AtStart)
            /\ status = "OK" /\ result = NoResult
MCInit ==
  /\ Table!Init
  /\ \/ part = "source" /\ Init /\ NoBlocks
     \/ part = "blocks" /\ Blocks!Init /\ Blocks!Legal(program, FALSE) /\ NoSource
     \/ part = "table" /\ NoSource /\ NoBlocks
MCNext ==
  /\ part' = part
  /\ \/ part = "source" /\ Next /\ UNCHANGED <<blockVars, tableVars>>
     \/ part = "blocks" /\ Blocks!Next /\ UNCHANGED <<vars, tableVars>>
     \/ part = "table" /\ Table!Next /\ UNCHANGED <<vars, blockVars>>
MCSpec == MCInit /\ [][MCNext]_<<part, vars, blockVars, tableVars>>

\* Blocks found by indentation while they run (native_api_control.py): however
\* a program is laid out and whatever its conditions come to, what runs and
\* how it ends is what Python makes of the program.
BlocksFollowPython == Blocks!BlocksFollowPython
=============================================================================
