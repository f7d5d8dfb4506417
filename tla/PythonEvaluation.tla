--------------------------- MODULE PythonEvaluation ---------------------------
(***************************************************************************)
(* The order in which Python evaluates expressions and assignments.        *)
(*                                                                         *)
(* A tree is [k, of]: its kind and its parts.  What an evaluation does to  *)
(* the world are events [what, on, ends]: names read and bound, operators, *)
(* truth tests, calls, attributes, items, iteration, each of which may run *)
(* foreign code and may raise.  on lists the values it is applied to; a    *)
(* value is the number of the event that produced it, 0 for a constant and *)
(* <<n, j>> for the j-th of the values unpacked by event n.                *)
(*                                                                         *)
(* The operators below read the events of trace along a statement and say  *)
(* in st whether it ends normally ("ok") or with an exception ("raised"),  *)
(* wants another event ("more"), or finds an event that is not Python's    *)
(* next one ("wrong").                                                     *)
(***************************************************************************)
EXTENDS Naturals, SequencesExt

VARIABLE trace

Start == [n |-> 0, st |-> "ok", v |-> 0]

Perform(s, what, on) ==
  LET e == trace[s.n + 1] IN
  IF s.st # "ok" THEN s
  ELSE IF s.n = Len(trace) THEN [s EXCEPT !.st = "more"]
  ELSE IF e.what # what \/ e.on # on THEN [s EXCEPT !.st = "wrong"]
  ELSE [n |-> s.n + 1, v |-> s.n + 1,
        st |-> IF e.ends = "raise" THEN "raised" ELSE "ok"]

Test(s) == Perform(s, "truth", <<s.v>>)
IsTrue(s) == s.st = "ok" /\ trace[s.n].ends = "true"

\* Operations on all their parts, evaluated from left to right.
Strict == {"binary", "unary", "attribute", "item", "call", "display"}
Statements == {"expr", "assign", "augment", "delete", "assert"}

RECURSIVE Value(_, _), Values(_, _, _), Junction(_, _, _), Chain(_, _, _), Formatted(_, _),
  Assigned(_, _, _), AssignedAll(_, _, _), Collected(_, _, _), Rounds(_, _, _, _), Filtered(_, _)

\* A starred part is iterated before the next part is evaluated.
Values(ts, s, vs) ==
  LET t == Head(ts)
      v == IF t.k = "star" THEN LET i == Value(t.of[1], s) IN Perform(i, "iterate", <<i.v>>)
           ELSE Value(t, s)
  IN  IF ts = <<>> THEN [s |-> s, vs |-> vs] ELSE Values(Tail(ts), v, Append(vs, v.v))

\* The first value that decides, or the last.
Junction(ts, s, decisive) ==
  LET v == Value(Head(ts), s)
      test == Test(v)
  IN  IF Len(ts) = 1 THEN v
      ELSE IF test.st # "ok" THEN test
      ELSE IF IsTrue(test) = decisive THEN [test EXCEPT !.v = v.v]
      ELSE Junction(Tail(ts), test, decisive)

\* Each operand once; the first false comparison ends it.
Chain(left, ts, s) ==
  LET right == Value(Head(ts), s)
      compared == Perform(right, "compare", <<left, right.v>>)
      test == Test(compared)
  IN  IF Len(ts) = 1 THEN compared
      ELSE IF test.st # "ok" THEN test
      ELSE IF IsTrue(test) THEN Chain(right.v, Tail(ts), test)
      ELSE [test EXCEPT !.v = compared.v]

Formatted(ts, s) ==
  LET v == Value(Head(ts), s)
      formatted == Perform(v, "format", <<v.v>>)
  IN  IF ts = <<>> THEN s ELSE Formatted(Tail(ts), formatted)

\* Comprehensions: what is collected goes to 0; the loops nest as written.
Collected(t, generators, s) ==
  LET source == Value(Head(generators).source, s)
      iterator == Perform(source, "iterate", <<source.v>>)
      all == Values(t.of, s, <<>>)
  IN  IF generators # <<>> THEN Rounds(t, generators, iterator.v, iterator)
      ELSE Perform(all.s, IF Len(t.of) = 1 THEN "append" ELSE "setitem", <<0>> \o all.vs)

Rounds(t, generators, iterator, s) ==
  LET item == Perform(s, "next", <<iterator>>)
      bound == Assigned(Head(generators).target, item.v, item)
      kept == Filtered(Head(generators).ifs, bound)
      inner == Collected(t, Tail(generators), kept)
  IN  IF item.st # "ok" \/ trace[item.n].ends = "done" THEN item
      ELSE IF kept.st # "ok" THEN kept
      ELSE IF IsTrue(kept) \/ Head(generators).ifs = <<>>
      THEN IF inner.st # "ok" THEN inner ELSE Rounds(t, generators, iterator, inner)
      ELSE Rounds(t, generators, iterator, kept)

\* The last test made.
Filtered(ifs, s) ==
  LET test == Test(Value(Head(ifs), s))
  IN  IF ifs = <<>> THEN s
      ELSE IF Len(ifs) = 1 \/ ~IsTrue(test) THEN test ELSE Filtered(Tail(ifs), test)

(***************************************************************************)
(* Statements.                                                             *)
(***************************************************************************)
Assigned(target, v, s) ==
  LET parts == Values(target.of, s, <<>>)
      unpacked == Perform(s, "unpack", <<v>>)
  IN  CASE target.k = "name" -> Perform(s, "store", <<target.of[1], v>>)
        [] target.k = "attribute" -> Perform(parts.s, "setattr", Append(parts.vs, v))
        [] target.k = "item" -> Perform(parts.s, "setitem", Append(parts.vs, v))
        [] target.k = "tuple" ->
             AssignedAll(target.of, [i \in DOMAIN target.of |-> <<unpacked.v, i>>], unpacked)

AssignedAll(targets, vs, s) ==
  IF targets = <<>> THEN s
  ELSE AssignedAll(Tail(targets), Tail(vs), Assigned(Head(targets), Head(vs), s))

\* Values without an operator in place of their own: x += y is x = x + y, with
\* the parts of the target evaluated once.
Augmented(target, value, s) ==
  LET parts == Values(target.of, s, <<>>)
      old == IF target.k = "name" THEN Perform(s, "load", target.of)
             ELSE Perform(parts.s, target.k, parts.vs)
      new == Value(value, old)
      combined == Perform(new, "binary", <<old.v, new.v>>)
  IN  CASE target.k = "name" -> Perform(combined, "store", <<target.of[1], combined.v>>)
        [] target.k = "attribute" -> Perform(combined, "setattr", Append(parts.vs, combined.v))
        [] target.k = "item" -> Perform(combined, "setitem", Append(parts.vs, combined.v))

Deleted(target, s) ==
  LET parts == Values(target.of, s, <<>>)
  IN  CASE target.k = "name" -> Perform(s, "delete", target.of)
        [] target.k = "attribute" -> Perform(parts.s, "delattr", parts.vs)
        [] target.k = "item" -> Perform(parts.s, "delitem", parts.vs)

\* The message is evaluated only if the test fails.
Asserted(test, message, s) ==
  LET tested == Test(Value(test, s))
      failed == Value(message, tested)
  IN  IF tested.st # "ok" \/ IsTrue(tested) THEN tested
      ELSE IF failed.st # "ok" THEN failed ELSE [failed EXCEPT !.st = "raised"]

Executed(statement, s) ==
  LET v == Value(statement.value, s) IN
  CASE statement.k = "expr" -> v
    [] statement.k = "assign" ->
         AssignedAll(statement.targets, [i \in DOMAIN statement.targets |-> v.v], v)
    [] statement.k = "augment" -> Augmented(statement.targets[1], statement.value, s)
    [] statement.k = "delete" -> Deleted(statement.targets[1], s)
    [] statement.k = "assert" -> Asserted(statement.value, statement.message, s)

\* What an expression, or a statement, comes to.
Value(t, s) ==
  LET first == Value(t.of[1], s)
      all == Values(t.of, s, <<>>)
  IN  CASE s.st # "ok" -> s
        [] t.k = "constant" -> [s EXCEPT !.v = 0]
        [] t.k = "name" -> Perform(s, "load", t.of)
        [] t.k \in Strict -> Perform(all.s, t.k, all.vs)
        [] t.k = "not" -> Test(first)
        [] t.k \in {"and", "or"} -> Junction(t.of, s, t.k = "or")
        [] t.k = "compare" -> Chain(first.v, Tail(t.of), first)
        [] t.k = "if" -> LET test == Test(first) IN
                         Value(IF IsTrue(test) THEN t.of[2] ELSE t.of[3], test)
        [] t.k = "walrus" -> LET v == Value(t.of[2], s)
                                 stored == Perform(v, "store", <<t.of[1], v.v>>)
                             IN  IF stored.st = "ok" THEN [stored EXCEPT !.v = v.v] ELSE stored
        [] t.k = "fstring" -> Formatted(t.of, s)
        [] t.k = "comprehension" -> [Collected(t, t.generators, s) EXCEPT !.v = 0]
        [] t.k \in Statements -> Executed(t, s)
=============================================================================
