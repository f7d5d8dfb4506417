---------------------------- MODULE VmExpressions ----------------------------
(***************************************************************************)
(* Expressions, assignments, deletions and assertions: what the front end  *)
(* (core/frontend.py) makes of them and what the machine (core/vm.py) does *)
(* with it.  Instructions are [op, arg, n]; every instruction that can run *)
(* foreign code, or that changes names, adds an event to trace.            *)
(***************************************************************************)
EXTENDS PythonEvaluation

CONSTANTS
  Sources,   \* the statements
  MaxItems,  \* bound: items of one iterator; every iterator ends
  MaxEvents  \* bound: events of a statement, more than any of the statements has

VARIABLES statement, code, ip, stack, temps, ended

vars == <<statement, code, ip, stack, temps, ended, trace>>

(***************************************************************************)
(* _Lowerer.expr.  at is the address of the first instruction.             *)
(***************************************************************************)
I(op, arg, n) == [op |-> op, arg |-> arg, n |-> n]
Push(what, n) == I("push", what, n)        \* n operands, one result
Effect(what, n) == I("effect", what, n)    \* n operands, no result
Simple(op) == I(op, 0, 0)
Jump(op, target) == I(op, target, 0)
Temp(op, name, at) == I(op, <<name, at>>, 0)

\* BINARY_BOOL_AND: bool(left and right).
BoolAnd == <<Simple("and"), Push("truth", 1)>>

\* _call gets the starred arguments unevaluated; so do BUILD_LIST_UNPACK and
\* its kin: they are iterated last, in order.
Stars(ts) ==
  FlattenSeq([i \in DOMAIN ts |->
    IF ts[i].k = "star" THEN <<I("iterate", 0, Len(ts) - i)>> ELSE <<>>])

RECURSIVE Lower(_, _), LowerAll(_, _), LowerJunction(_, _, _), LowerChain(_, _, _), LowerFormat(_, _, _),
  StoreSequence(_, _), LowerGenerators(_, _, _, _), LowerIfs(_, _, _)

\* Mutant: the condition jumps to the wrong branch.
LowerIfInverted(t, at) ==
  LET test == Lower(t.of[1], at)
      body == Lower(t.of[2], at + Len(test) + 1)
      orelse == Lower(t.of[3], at + Len(test) + Len(body) + 2)
      otherwise == at + Len(test) + Len(body) + 2
  IN  test \o <<Jump("jump if true", otherwise)>> \o body
        \o <<Jump("jump", otherwise + Len(orelse))>> \o orelse

LowerIf(t, at) ==
  LET test == Lower(t.of[1], at)
      body == Lower(t.of[2], at + Len(test) + 1)
      orelse == Lower(t.of[3], at + Len(test) + Len(body) + 2)
      otherwise == at + Len(test) + Len(body) + 2
  IN  test \o <<Jump("jump if false", otherwise)>> \o body
        \o <<Jump("jump", otherwise + Len(orelse))>> \o orelse

Lower(t, at) ==
  CASE t.k = "constant" -> <<Simple("constant")>>
    [] t.k = "name" -> <<I("load", t.of[1], 0)>>
    [] t.k \in {"binary", "unary", "attribute", "item"} ->
         LowerAll(t.of, at) \o <<Push(t.k, Len(t.of))>>
    [] t.k \in {"call", "display"} ->
         LowerAll(t.of, at) \o Stars(t.of) \o <<Push(t.k, Len(t.of))>>
    [] t.k = "star" -> Lower(t.of[1], at)
    [] t.k = "not" -> Lower(t.of[1], at) \o <<Push("truth", 1)>>
    [] t.k \in {"and", "or"} ->
         LowerJunction(t.of, at, IF t.k = "and" THEN "jump if false" ELSE "jump if true")
    [] t.k = "compare" -> LowerChain(t.of, at, FALSE)
    [] t.k = "if" -> LowerIf(t, at)
    [] t.k = "walrus" ->
         Lower(t.of[2], at) \o <<Simple("dup"), I("store", t.of[1], 0)>>
    [] t.k = "fstring" -> LowerFormat(t.of, at, FALSE)
    [] t.k = "comprehension" ->
         <<Simple("constant"), Temp("save", "collected", at)>>
           \o LowerGenerators(t, t.generators, at + 2, at)
           \o <<Temp("fetch", "collected", at)>>

LowerAll(ts, at) ==
  LET first == Lower(Head(ts), at)
  IN  IF ts = <<>> THEN <<>> ELSE first \o LowerAll(Tail(ts), at + Len(first))

\* Mutant: the operand that does not decide stays on the stack.
LowerJunctionKeeping(ts, at, jump) ==
  LET first == Lower(Head(ts), at)
      rest == LowerJunction(Tail(ts), at + Len(first) + 2, jump)
      exit == at + Len(first) + 2 + Len(rest)
  IN  IF Len(ts) = 1 THEN first
      ELSE first \o <<Simple("dup"), Jump(jump, exit)>> \o rest

\* The jump takes the copy; what it was copied from is the result.
LowerJunction(ts, at, jump) ==
  LET first == Lower(Head(ts), at)
      rest == LowerJunction(Tail(ts), at + Len(first) + 3, jump)
      exit == at + Len(first) + 3 + Len(rest)
  IN  IF Len(ts) = 1 THEN first
      ELSE first \o <<Simple("dup"), Jump(jump, exit), Simple("pop")>> \o rest

\* Each comparison evaluates both its operands.
LowerChain(ts, at, more) ==
  LET pair == LowerAll(SubSeq(ts, 1, 2), at)
      compared == pair \o <<Push("compare", 2)>> \o (IF more THEN BoolAnd ELSE <<>>)
  IN  IF Len(ts) = 1 THEN <<>>
      ELSE compared \o LowerChain(Tail(ts), at + Len(compared), TRUE)

\* f"...": each value is formatted and joined to those before it.
LowerFormat(ts, at, more) ==
  LET first == Lower(Head(ts), at) \o <<Push("format", 1)>>
                 \o (IF more THEN <<Simple("join")>> ELSE <<>>)
  IN  IF ts = <<>> THEN <<>>
      ELSE first \o LowerFormat(Tail(ts), at + Len(first), TRUE)

\* Mutant: the loop takes a new iterator every time.
LoopFromSource(at, iterate) == at

\* Where a loop comes back to: its FOR_ITER.
LoopStart(at, iterate) == at + Len(iterate)

\* comprehension: loops in the code around it; the list is put aside under the
\* name made at home.
LowerGenerators(t, generators, at, home) ==
  LET g == Head(generators)
      iterate == Lower(g.source, at) \o <<Push("iterate", 1)>>
      first == at + Len(iterate) + 1
      bind == StoreSequence(g.target, first)
      tests == LowerIfs(g.ifs, first + Len(bind), 0)
      inside == first + Len(bind) + Len(tests)
      body == LowerGenerators(t, Tail(generators), inside, home)
      continue == inside + Len(body)
  IN  IF generators = <<>>
      THEN <<Temp("fetch", "collected", home)>> \o LowerAll(t.of, at + 1)
             \o <<IF Len(t.of) = 1 THEN Effect("append", 2) ELSE Effect("setitem", 3)>>
      ELSE iterate \o <<Jump("for", continue + 1)>> \o bind
             \o LowerIfs(g.ifs, first + Len(bind), continue) \o body
             \o <<Jump("jump", LoopStart(at, iterate))>>

LowerIfs(ifs, at, continue) ==
  LET first == Lower(Head(ifs), at) \o <<Jump("jump if false", continue)>>
  IN  IF ifs = <<>> THEN <<>>
      ELSE first \o LowerIfs(Tail(ifs), at + Len(first), continue)

(***************************************************************************)
(* _Lowerer.stmt.  Values that must wait are kept in variables named after *)
(* the address they are made at.                                           *)
(***************************************************************************)
Setter(target) == Effect(IF target.k = "attribute" THEN "setattr" ELSE "setitem",
                         Len(target.of) + 1)

\* store_value_target: the value on the stack is put aside, the parts of an
\* item one by one as well.
StoreValue(target, at) ==
  LET object == Lower(target.of[1], at + 1)
      index == Lower(target.of[2], at + Len(object) + 2)
  IN  CASE target.k = "name" -> <<I("store", target.of[1], 0)>>
        [] target.k = "attribute" ->
             <<Temp("save", "value", at)>> \o object
               \o <<Temp("fetch", "value", at), Setter(target)>>
        [] target.k = "item" ->
             <<Temp("save", "value", at)>> \o object \o <<Temp("save", "object", at)>>
               \o index \o <<Temp("save", "index", at), Temp("fetch", "object", at),
                             Temp("fetch", "index", at), Temp("fetch", "value", at),
                             Setter(target)>>

\* store_sequence.
RECURSIVE StoreEach(_, _)
StoreSequence(target, at) ==
  IF target.k = "tuple"
  THEN <<I("unpack", 0, Len(target.of))>> \o StoreEach(target.of, at + 1)
  ELSE StoreValue(target, at)
StoreEach(targets, at) ==
  LET first == StoreSequence(Head(targets), at)
  IN  IF targets = <<>> THEN <<>> ELSE first \o StoreEach(Tail(targets), at + Len(first))

\* One of several targets: the value is fetched, and swapped below an object.
StoreOne(target, at) ==
  LET fetch == Temp("fetch", "assigned", 0)
      object == Lower(target.of[1], at + 1)
      index == Lower(target.of[2], at + Len(object) + 2)
  IN  CASE target.k \in {"name", "tuple"} -> <<fetch>> \o StoreSequence(target, at + 1)
        [] target.k = "attribute" -> <<fetch>> \o object \o <<Simple("swap"), Setter(target)>>
        [] target.k = "item" ->
             <<fetch>> \o object \o <<Temp("save", "object", at)>>
               \o index \o <<Temp("save", "index", at), Temp("fetch", "object", at),
                             Temp("fetch", "index", at), fetch, Setter(target)>>
RECURSIVE StoreAll(_, _)
StoreAll(targets, at) ==
  LET first == StoreOne(Head(targets), at)
  IN  IF targets = <<>> THEN <<>> ELSE first \o StoreAll(Tail(targets), at + Len(first))

LowerAssign(targets, value) ==
  LET target == targets[1]
      parts == LowerAll(target.of, 1)
      first == Lower(value, 1)
  IN  IF Len(targets) = 1 /\ target.k \in {"attribute", "item"}
      THEN parts \o Lower(value, Len(parts) + 1) \o <<Setter(target)>>
      ELSE IF Len(targets) = 1 THEN first \o StoreSequence(target, Len(first) + 1)
      ELSE first \o <<Temp("save", "assigned", 0)>> \o StoreAll(targets, Len(first) + 2)

LowerAugment(target, value) ==
  LET object == Lower(target.of[1], 1)
      index == Lower(target.of[2], Len(object) + 2)
      operands == object \o <<Temp("save", "object", 0)>> \o index
                    \o <<Temp("save", "index", 0), Temp("fetch", "object", 0),
                         Temp("fetch", "index", 0), Push("item", 2)>>
      then(before) == before \o Lower(value, Len(before) + 1) \o <<Push("binary", 2)>>
  IN  CASE target.k = "name" -> then(Lower(target, 1)) \o <<I("store", target.of[1], 0)>>
        [] target.k = "attribute" ->
             then(object \o <<Simple("dup"), Push("attribute", 1)>>) \o <<Setter(target)>>
        [] target.k = "item" ->
             then(operands) \o <<Temp("save", "value", 0), Temp("fetch", "object", 0),
                                 Temp("fetch", "index", 0), Temp("fetch", "value", 0),
                                 Setter(target)>>

LowerDelete(target) ==
  CASE target.k = "name" -> <<I("delete", target.of[1], 0)>>
    [] target.k = "attribute" -> LowerAll(target.of, 1) \o <<Effect("delattr", 1)>>
    [] target.k = "item" -> LowerAll(target.of, 1) \o <<Effect("delitem", 2)>>

\* The message is evaluated before ASSERT tests.
LowerAssert(test, message) ==
  LET first == Lower(test, 1)
  IN  first \o (IF message.k = "constant" THEN <<>> ELSE Lower(message, Len(first) + 1))
        \o <<I("assert", message.k # "constant", 0)>>

LowerStatement(s) ==
  CASE s.k = "expr" -> Lower(s.value, 1) \o <<Simple("pop")>>
    [] s.k = "assign" -> LowerAssign(s.targets, s.value)
    [] s.k = "augment" -> LowerAugment(s.targets[1], s.value)
    [] s.k = "delete" -> LowerDelete(s.targets[1])
    [] s.k = "assert" -> LowerAssert(s.value, s.message)

(***************************************************************************)
(* The machine.                                                            *)
(***************************************************************************)
Init ==
  /\ statement \in Sources /\ code = LowerStatement(statement)
  /\ ip = 1 /\ stack = <<>> /\ temps = <<>> /\ trace = <<>> /\ ended = "no"

Depth(n) == SubSeq(stack, 1, Len(stack) - n)
Operands(n) == SubSeq(stack, Len(stack) - n + 1, Len(stack))
Runs(ops) ==
  /\ ended = "no" /\ Len(trace) <= MaxEvents
  /\ ip \in DOMAIN code /\ code[ip].op \in ops
Arg == code[ip].arg
Count == code[ip].n
Continues(next, s) ==
  /\ ip' = next /\ stack' = s /\ UNCHANGED <<statement, code, ended>>

\* An event that may raise; if it does not, the machine goes on.
Happens(what, on, ends) == trace' = Append(trace, [what |-> what, on |-> on, ends |-> ends])
Fails(what, on) ==
  /\ Happens(what, on, "raise") /\ ended' = "raised"
  /\ UNCHANGED <<statement, code, ip, stack, temps>>
Result == Len(trace) + 1
Ends(what) == IF what = "truth" THEN {"true", "false"} ELSE {"ok"}

\* Instructions without events.
Move ==
  /\ Runs({"constant", "dup", "pop", "swap", "join", "jump"})
  /\ CASE code[ip].op = "constant" -> Continues(ip + 1, Append(stack, 0))
       [] code[ip].op = "dup" -> Continues(ip + 1, Append(stack, Last(stack)))
       [] code[ip].op = "pop" -> Continues(ip + 1, Front(stack))
       [] code[ip].op = "swap" -> Continues(ip + 1, Depth(2) \o Reverse(Operands(2)))
       [] code[ip].op = "join" -> Continues(ip + 1, Append(Depth(2), Last(stack)))
       [] code[ip].op = "jump" -> Continues(Arg, stack)
  /\ UNCHANGED <<temps, trace>>

Save ==
  /\ Runs({"save"})
  /\ temps' = (Arg :> Last(stack)) @@ temps
  /\ Continues(ip + 1, Front(stack)) /\ UNCHANGED trace

Fetch ==
  /\ Runs({"fetch"})
  /\ Continues(ip + 1, Append(stack, temps[Arg])) /\ UNCHANGED <<temps, trace>>

Load ==
  /\ Runs({"load"})
  /\ \/ Fails("load", <<Arg>>)
     \/ /\ Happens("load", <<Arg>>, "ok")
        /\ Continues(ip + 1, Append(stack, Result)) /\ UNCHANGED temps

Store ==
  /\ Runs({"store"})
  /\ Happens("store", <<Arg, Last(stack)>>, "ok")
  /\ Continues(ip + 1, Front(stack)) /\ UNCHANGED temps

DeleteName ==
  /\ Runs({"delete"})
  /\ \/ Fails("delete", <<Arg>>)
     \/ Happens("delete", <<Arg>>, "ok") /\ Continues(ip + 1, stack) /\ UNCHANGED temps

\* Operators, calls, displays, attributes, items, formatting, truth as a value.
Operate ==
  /\ Runs({"push"})
  /\ \/ Fails(Arg, Operands(Count))
     \/ \E ends \in Ends(Arg) :
          /\ Happens(Arg, Operands(Count), ends)
          /\ Continues(ip + 1, Append(Depth(Count), Result)) /\ UNCHANGED temps

Change ==
  /\ Runs({"effect"})
  /\ \/ Fails(Arg, Operands(Count))
     \/ /\ Happens(Arg, Operands(Count), "ok")
        /\ Continues(ip + 1, Depth(Count)) /\ UNCHANGED temps

\* A starred argument, n values below the top.
Iterate ==
  LET place == Len(stack) - Count IN
  /\ Runs({"iterate"})
  /\ \/ Fails("iterate", <<stack[place]>>)
     \/ /\ Happens("iterate", <<stack[place]>>, "ok")
        /\ Continues(ip + 1, [stack EXCEPT ![place] = Result]) /\ UNCHANGED temps

\* The last item is pushed first.
Unpack ==
  /\ Runs({"unpack"})
  /\ \/ Fails("unpack", <<Last(stack)>>)
     \/ /\ Happens("unpack", <<Last(stack)>>, "ok")
        /\ Continues(ip + 1, Front(stack) \o [i \in 1 .. Count |-> <<Result, Count + 1 - i>>])
        /\ UNCHANGED temps

JumpIf ==
  /\ Runs({"jump if true", "jump if false"})
  /\ \/ Fails("truth", <<Last(stack)>>)
     \/ \E truth \in BOOLEAN :
          /\ Happens("truth", <<Last(stack)>>, IF truth THEN "true" ELSE "false")
          /\ Continues(IF truth = (code[ip].op = "jump if true") THEN Arg ELSE ip + 1,
                       Front(stack))
          /\ UNCHANGED temps

ItemsOf(iterator) ==
  Cardinality({i \in DOMAIN trace : trace[i].what = "next" /\ trace[i].on = <<iterator>>})

\* FOR_ITER: the next item on top of the iterator, or neither.
ForIter ==
  LET event == <<Last(stack)>> IN
  /\ Runs({"for"})
  /\ \/ Fails("next", event)
     \/ /\ ItemsOf(Last(stack)) < MaxItems
        /\ Happens("next", event, "ok")
        /\ Continues(ip + 1, Append(stack, Result)) /\ UNCHANGED temps
     \/ /\ Happens("next", event, "done")
        /\ Continues(Arg, Front(stack)) /\ UNCHANGED temps

\* bool(left and right): what decides, left when it is false and right when it is
\* not, is tested by the next instruction, a false left for the second time.
And ==
  LET left == stack[Len(stack) - 1] IN
  /\ Runs({"and"})
  /\ \/ Fails("truth", <<left>>)
     \/ \E truth \in BOOLEAN :
          /\ Happens("truth", <<left>>, IF truth THEN "true" ELSE "false")
          /\ Continues(ip + 1, Append(Depth(2), IF truth THEN Last(stack) ELSE left))
          /\ UNCHANGED temps

TestAssertion ==
  LET test == stack[IF Arg THEN Len(stack) - 1 ELSE Len(stack)] IN
  /\ Runs({"assert"})
  /\ \/ Fails("truth", <<test>>)
     \/ /\ Happens("truth", <<test>>, "true")
        /\ Continues(ip + 1, Depth(IF Arg THEN 2 ELSE 1)) /\ UNCHANGED temps
     \/ /\ Happens("truth", <<test>>, "false")
        /\ ended' = "raised" /\ UNCHANGED <<statement, code, ip, stack, temps>>

Finish ==
  /\ ended = "no" /\ ip = Len(code) + 1
  /\ ended' = "ok" /\ UNCHANGED <<statement, code, ip, stack, temps, trace>>

Next ==
  \/ Move \/ Save \/ Fetch \/ Load \/ Store \/ DeleteName \/ Operate \/ Change
  \/ Iterate \/ Unpack \/ ForIter \/ JumpIf \/ And \/ TestAssertion \/ Finish

\* _run_frame goes on as long as the frame has not ended.
Fairness == WF_vars(Next)

Spec == Init /\ [][Next]_vars /\ Fairness

(***************************************************************************)
(* Properties.                                                             *)
(***************************************************************************)
\* Trees whose parts are evaluated once and in Python's order: no comparison
\* of three operands, and no starred part before another part.
RECURSIVE IsOrdered(_)
IsOrdered(t) ==
  CASE t.k \in {"name", "constant"} -> TRUE
    [] t.k = "walrus" -> IsOrdered(t.of[2])
    [] t.k = "comprehension" ->
         /\ \A i \in DOMAIN t.of : IsOrdered(t.of[i])
         /\ \A i \in DOMAIN t.generators : LET g == t.generators[i] IN
              IsOrdered(g.source) /\ \A j \in DOMAIN g.ifs : IsOrdered(g.ifs[j])
    [] OTHER ->
         /\ t.k = "compare" => Len(t.of) = 2
         /\ \A i \in 1 .. Len(t.of) - 1 : t.of[i].k # "star"
         /\ \A i \in DOMAIN t.of : IsOrdered(t.of[i])

\* Statements evaluated in Python's order: not one attribute or item assigned
\* to (its object is evaluated before the value), nor an assertion with a
\* message (which is always evaluated).
IsSupported(s) ==
  /\ IsOrdered(s.value) /\ s.message.k = "constant"
  /\ \A i \in DOMAIN s.targets : IsOrdered(s.targets[i])
  /\ s.k = "assign" => Len(s.targets) > 1 \/ s.targets[1].k \in {"name", "tuple"}

\* Operands, tests, jumps, stores and the values put aside: whatever fails and
\* whatever is true, names are read and bound and foreign code is run in
\* Python's order and with Python's operands, and nothing else is (the lowering
\* of frontend.py on the machine of vm.py).
EvaluationFollowsPython ==
  IsSupported(statement) =>
    LET python == Value(statement, Start) IN
    /\ python.n = Len(trace)
    /\ python.st \in CASE ended = "no" -> {"more", "ok"}
                        [] OTHER -> {ended}

\* An item among several targets: StoreOne fetches the value twice.
LeavesValue(s) ==
  s.k = "assign" /\ Len(s.targets) > 1 /\ \E i \in DOMAIN s.targets : s.targets[i].k = "item"

\* A statement that ends normally has used up what it pushed, in Python's order
\* or not, so that the iterator of a loop around it is on top again.  Only an
\* item among several targets leaves the value on the stack.
StackBalanced ==
  ended = "ok" => stack = IF LeavesValue(statement)
                          THEN SelectSeq(stack, LAMBDA v : v = temps[<<"assigned", 0>>])
                          ELSE <<>>

\* However its jumps nest, a statement over iterators that end comes to an end:
\* no path of the code loops without asking an iterator, or leaves the code.
EveryStatementEnds == <>(ended # "no")
=============================================================================
