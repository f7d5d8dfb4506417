------------------------ MODULE FunctionFramesProofs ------------------------
(***************************************************************************)
(* Proofs about FunctionFrames, for any functions, names, values, call     *)
(* depth and nesting: leaving a body restores every global, the call       *)
(* depth counts the bodies in execution, and every reference to a value    *)
(* has one owner.                                                          *)
(***************************************************************************)
EXTENDS FunctionFrames, CountsAndStacks

Frames == Calls \cup BodyFrames

\* The types of what the theorems are about; counts of references are not.
Shape ==
  /\ size \in 0 .. MaxValues
  /\ globals \in Bindings
  /\ defined \in [Names -> Definitions \cup {Undefined}]
  /\ depth \in Nat
  /\ stack \in Seq(Frames)
  /\ \A i \in DOMAIN stack :
       /\ defined[stack[i].name] # Undefined
       /\ stack[i].kind = "body" => DOMAIN stack[i].saved = Locals(defined[stack[i].name])
  /\ returned.status \in {"NONE", "OK", "FAILED"}
  /\ returned.status = "OK" => returned.value \in Handles
  /\ returned.status = "NONE" <=> returned = NoReturn
  /\ returned.use \in AllUses

\* What an expression may be for, when the k-th entry of the stack is the one
\* that evaluates it: a call takes arguments, a body executes statements that
\* bind only the names it has saved.
Fits(use, k) ==
  /\ k = 0 => use.to \in {"host", "drop", "bind", "augment"}
  /\ k > 0 => /\ stack[k].kind = "call" => use.to = "argument"
              /\ stack[k].kind = "body" =>
                   /\ use.to \in {"drop", "return", "bind", "augment"}
                   /\ use.to \in {"bind", "augment"} => use.name \in DOMAIN stack[k].saved

UsesFit ==
  /\ \A i \in DOMAIN stack : Fits(stack[i].use, i - 1)
  /\ returned # NoReturn => Fits(returned.use, Len(stack))

\* What the names outside of those a body has saved are bound to, in the newest
\* body or when the next body started, is what they were bound to when it started.
Above(i) == {j \in Bodies : j > i}
BeforeExact ==
  \A i \in Bodies :
    /\ \A n \in DOMAIN stack[i].saved : stack[i].saved[n] = stack[i].before[n]
    /\ Above(i) = {} =>
         \A n \in Names \ DOMAIN stack[i].saved : globals[n] = stack[i].before[n]
    /\ \A j \in Above(i) : (\A k \in Above(i) : j <= k) =>
         \A n \in Names \ DOMAIN stack[i].saved : stack[j].before[n] = stack[i].before[n]

\* The inductive invariant.
Inv == Shape /\ UsesFit /\ BeforeExact /\ DepthCounts

USE DEF NULL, Handles, NoName, Plain, Returned

(***************************************************************************)
(* The shape of a step.                                                    *)
(***************************************************************************)
LEMMA InvInit == Init => Inv
  <1> SUFFICES ASSUME Init PROVE Inv
    OBVIOUS
  <1>1. /\ stack = <<>> /\ returned = NoReturn /\ size = 0 /\ depth = 0
        /\ globals = [n \in Names |-> NULL] /\ defined = [n \in Names |-> Undefined]
        /\ Bodies = {}
    <2>1. stack = <<>> /\ returned = NoReturn /\ size = 0 /\ depth = 0
      BY DEF Init
    <2>2. globals = [n \in Names |-> NULL]
      BY DEF Init
    <2>3. defined = [n \in Names |-> Undefined]
      BY DEF Init
    <2>4. Bodies = {}
      BY <2>1 DEF Bodies
    <2> QED
      BY <2>1, <2>2, <2>3, <2>4
  <1>2. Shape
    <2>1. NoReturn.status = "NONE" /\ NoReturn.use \in AllUses
      BY DEF NoReturn, AllUses, Use
    <2>2. stack \in Seq(Frames) /\ DOMAIN stack = {}
      BY <1>1
    <2> QED
      BY <1>1, <2>1, <2>2, FunctionFramesAssumption DEF Shape, Bindings
  <1>3. UsesFit
    <2>1. DOMAIN stack = {}
      BY <1>1
    <2> QED
      BY <1>1, <2>1 DEF UsesFit
  <1>4. BeforeExact
    BY <1>1 DEF BeforeExact
  <1>5. DepthCounts
    BY <1>1, FS_EmptySet DEF DepthCounts
  <1> QED
    BY <1>2, <1>3, <1>4, <1>5 DEF Inv

\* The bodies stay as they are and the names the newest may not assign are left alone.
LEMMA KeepBodies ==
  ASSUME BeforeExact, DepthCounts, Bodies' = Bodies, depth' = depth,
         \A i \in Bodies : stack'[i].saved = stack[i].saved /\ stack'[i].before = stack[i].before,
         \A i \in Bodies : Above(i) = {} =>
           \A n \in Names \ DOMAIN stack[i].saved : globals'[n] = globals[n]
  PROVE  BeforeExact' /\ DepthCounts'
  <1>1. DepthCounts'
    BY DEF DepthCounts
  <1>2. \A i \in Bodies : Above(i)' = Above(i)
    BY DEF Above
  <1>3. BeforeExact'
    <2> SUFFICES ASSUME NEW i \in Bodies
                 PROVE  /\ \A n \in DOMAIN stack'[i].saved : stack'[i].saved[n] = stack'[i].before[n]
                        /\ Above(i) = {} =>
                             \A n \in Names \ DOMAIN stack'[i].saved : globals'[n] = stack'[i].before[n]
                        /\ \A j \in Above(i) : (\A k \in Above(i) : j <= k) =>
                             \A n \in Names \ DOMAIN stack'[i].saved :
                               stack'[j].before[n] = stack'[i].before[n]
      BY <1>2 DEF BeforeExact
    <2>1. /\ \A n \in DOMAIN stack[i].saved : stack[i].saved[n] = stack[i].before[n]
          /\ Above(i) = {} =>
               \A n \in Names \ DOMAIN stack[i].saved : globals[n] = stack[i].before[n]
          /\ \A j \in Above(i) : (\A k \in Above(i) : j <= k) =>
               \A n \in Names \ DOMAIN stack[i].saved : stack[j].before[n] = stack[i].before[n]
      BY DEF BeforeExact
    <2>2. \A j \in Above(i) : j \in Bodies
      BY DEF Above
    <2> QED
      BY <2>1, <2>2
  <1> QED
    BY <1>1, <1>3

\* A stack entry, and an entry of the body kind.
LEMMA EntryFacts ==
  ASSUME Shape, NEW i \in DOMAIN stack
  PROVE  /\ stack[i] \in Frames /\ stack[i].kind \in {"call", "body"}
         /\ stack[i].use \in AllUses /\ stack[i].name \in Names
         /\ stack[i].kind = "call" => stack[i] \in Calls /\ stack[i].args \in Seq(Handles)
         /\ stack[i].kind = "body" =>
              stack[i] \in BodyFrames /\ stack[i].saved \in SavedBindings /\ stack[i].before \in Bindings
  <1>1. stack \in Seq(Frames)
    BY DEF Shape
  <1>2. stack[i] \in Frames
    BY <1>1, ElementOfSeq, LenProperties
  <1>3. CASE stack[i] \in Calls
    BY <1>2, <1>3 DEF Calls
  <1>4. CASE stack[i] \in BodyFrames
    BY <1>2, <1>4 DEF BodyFrames
  <1> QED
    BY <1>2, <1>3, <1>4 DEF Frames

LEMMA NextUsesFit ==
  ASSUME Shape, NEW use \in NextUses
  PROVE  use \in AllUses /\ Fits(use, Len(stack))
  <1> DEFINE Kinds == {"host", "drop", "argument", "return", "bind", "augment"}
  <1>1. ASSUME NEW to \in Kinds, NEW n \in Names \cup {NoName}
        PROVE  Use(to, n) \in AllUses /\ Use(to, n).to = to /\ Use(to, n).name = n
    BY <1>1 DEF Use, AllUses
  <1>2. ASSUME NEW to \in Kinds, use = Plain(to)
        PROVE  use \in AllUses /\ use.to = to
    BY <1>2 DEF Use, AllUses
  <1>3. CASE stack = <<>>
    <2>1. Len(stack) = 0
      BY <1>3
    <2>2. \/ use \in {Plain("host"), Plain("drop")}
          \/ use \in {Use("bind", n) : n \in Names}
          \/ use \in {Use("augment", n) : n \in Names}
      <3>1. NextUses = {Plain("host"), Plain("drop")} \cup {Use("bind", n) : n \in Names}
                       \cup {Use("augment", n) : n \in Names}
        BY <1>3 DEF NextUses
      <3>2. \A A, B, C : use \in A \cup B \cup C => use \in A \/ use \in B \/ use \in C
        OBVIOUS
      <3> QED
        BY ONLY use \in NextUses, <3>1, <3>2
    <2>3. use \in AllUses /\ use.to \in {"host", "drop", "bind", "augment"}
      <3>1. CASE use \in {Plain("host"), Plain("drop")}
        BY <3>1 DEF Use, AllUses
      <3>2. CASE use \in {Use("bind", n) : n \in Names}
        <4>1. PICK n \in Names : use = Use("bind", n)
          BY ONLY <3>2
        <4> QED
          BY <4>1 DEF Use, AllUses
      <3>3. CASE use \in {Use("augment", n) : n \in Names}
        <4>1. PICK n \in Names : use = Use("augment", n)
          BY ONLY <3>3
        <4> QED
          BY <4>1 DEF Use, AllUses
      <3> QED
        BY ONLY <2>2, <3>1, <3>2, <3>3
    <2> QED
      BY ONLY <2>1, <2>3 DEF Fits
  <1>4. CASE stack # <<>>
    <2> DEFINE top == stack[Len(stack)]
               own == DOMAIN top.saved
    <2>1. /\ Len(stack) \in Nat /\ Len(stack) > 0 /\ Len(stack) \in DOMAIN stack
          /\ Last(stack) = top
      BY <1>4, TopFacts DEF Shape
    <2>2. top.kind \in {"call", "body"}
      BY <2>1, EntryFacts
    <2>3. CASE top.kind = "call"
      <3>1. use = Plain("argument")
        <4>1. NextUses \subseteq {Plain("argument")}
          BY <1>4, <2>1, <2>3 DEF NextUses
        <4> QED
          BY ONLY use \in NextUses, <4>1
      <3>2. use \in AllUses /\ use.to = "argument"
        BY <3>1 DEF Use, AllUses
      <3> QED
        BY ONLY <2>1, <2>3, <3>2 DEF Fits, top
    <2>4. CASE top.kind = "body"
      <3>1. Locals(defined[top.name]) = own
        BY <2>1, <2>4 DEF Shape
      <3>2. own \subseteq Names
        <4>1. top.saved \in SavedBindings
          BY <2>1, <2>4, EntryFacts
        <4> QED
          BY <4>1 DEF SavedBindings
      <3>3. \/ use \in {Plain("drop"), Plain("return")}
            \/ use \in {Use(to, n) : to \in {"bind", "augment"}, n \in own}
        <4>1. Last(stack).kind # "call"
          BY <2>1, <2>4
        <4>2. Locals(defined[Last(stack).name]) = own
          BY <2>1, <3>1
        <4> HIDE DEF own, top
        <4>3. NextUses = {Plain("drop"), Plain("return")}
                         \cup {Use(to, n) : to \in {"bind", "augment"}, n \in own}
          BY <1>4, <4>1, <4>2 DEF NextUses
        <4>4. \A A, B : use \in A \cup B => use \in A \/ use \in B
          OBVIOUS
        <4> QED
          BY ONLY use \in NextUses, <4>3, <4>4
      <3>5. use \in AllUses /\ use.to \in {"drop", "return", "bind", "augment"}
            /\ (use.to \in {"bind", "augment"} => use.name \in own)
        <4>1. CASE use \in {Plain("drop"), Plain("return")}
          BY <4>1 DEF Use, AllUses
        <4>2. CASE use \in {Use(to, n) : to \in {"bind", "augment"}, n \in own}
          <5> HIDE DEF own, top
          <5>1. PICK to \in {"bind", "augment"}, n \in own : use = Use(to, n)
            BY ONLY <4>2
          <5>2. n \in Names \cup {NoName}
            BY <3>2
          <5>3. use.to = to /\ use.name = n
            BY ONLY <5>1 DEF Use
          <5>4. use \in AllUses
            BY <5>1, <5>2 DEF Use, AllUses
          <5> QED
            BY ONLY <5>3, <5>4, to \in {"bind", "augment"}, n \in own
        <4> QED
          BY ONLY <3>3, <4>1, <4>2
      <3> QED
        BY ONLY <2>1, <2>4, <3>5 DEF Fits, top, own
    <2> QED
      BY ONLY <2>2, <2>3, <2>4
  <1> QED
    BY ONLY <1>3, <1>4

\* An expression has a result.
LEMMA ReturnsStep ==
  ASSUME Inv, UNCHANGED <<stack, globals, defined, depth>>, size' \in 0 .. MaxValues,
         NEW status \in {"OK", "FAILED"}, NEW v, NEW use \in AllUses,
         status = "OK" => v \in Handles, Fits(use, Len(stack)),
         returned' = Returned(status, v, use)
  PROVE  Inv'
  <1>1. returned'.status = status /\ returned'.value = v /\ returned'.use = use /\ returned' # NoReturn
    BY DEF NoReturn, Use
  <1>2. Shape'
    BY <1>1 DEF Inv, Shape
  <1>3. UsesFit'
    BY <1>1 DEF Inv, UsesFit, Fits
  <1>4. BeforeExact' /\ DepthCounts'
    <2>1. Bodies' = Bodies
      BY DEF Bodies
    <2> QED
      BY <2>1, KeepBodies DEF Inv
  <1> QED
    BY <1>2, <1>3, <1>4 DEF Inv

\* A result is gone and nothing else has changed.
LEMMA ClearedStep ==
  ASSUME Inv, UNCHANGED <<size, stack, globals, defined, depth>>, returned' = NoReturn
  PROVE  Inv'
  <1>1. Shape'
    BY DEF Inv, Shape, NoReturn, AllUses, Use
  <1>2. UsesFit'
    BY DEF Inv, UsesFit, Fits
  <1>3. BeforeExact' /\ DepthCounts'
    <2>1. Bodies' = Bodies
      BY DEF Bodies
    <2> QED
      BY <2>1, KeepBodies DEF Inv
  <1> QED
    BY <1>1, <1>2, <1>3 DEF Inv

\* The host acts between calls.
LEMMA IdleStep ==
  ASSUME Inv, Idle, UNCHANGED <<stack, returned, depth>>, size' \in 0 .. MaxValues,
         globals' \in Bindings, defined' \in [Names -> Definitions \cup {Undefined}]
  PROVE  Inv'
  <1>1. stack = <<>> /\ stack' = <<>> /\ Bodies = {} /\ Bodies' = {} /\ returned' = NoReturn
    BY DEF Idle, Bodies
  <1>2. Shape'
    BY <1>1 DEF Inv, Shape
  <1>3. UsesFit'
    BY <1>1 DEF UsesFit
  <1>4. BeforeExact' /\ DepthCounts'
    BY <1>1 DEF Inv, BeforeExact, DepthCounts
  <1> QED
    BY <1>2, <1>3, <1>4 DEF Inv

\* A statement binds a name.
LEMMA BindStep ==
  ASSUME Inv, returned # NoReturn, returned.use.to \in {"bind", "augment"},
         UNCHANGED <<stack, defined, depth>>, size' \in 0 .. MaxValues,
         NEW v \in Handles, globals' = [globals EXCEPT ![returned.use.name] = v],
         returned' = NoReturn
  PROVE  Inv'
  <1>1. Shape'
    BY DEF Inv, Shape, NoReturn, AllUses, Bindings, Use
  <1>2. UsesFit'
    BY DEF Inv, UsesFit, Fits
  <1>3. ASSUME NEW i \in Bodies, Above(i) = {}
        PROVE  returned.use.name \in DOMAIN stack[i].saved
    <2>1. i \in DOMAIN stack /\ stack # <<>>
      BY DEF Bodies
    <2>2. Len(stack) \in Nat /\ Len(stack) > 0 /\ Len(stack) \in DOMAIN stack /\ DOMAIN stack = 1 .. Len(stack)
      BY <2>1, TopFacts, LenProperties DEF Inv, Shape
    <2>3. Fits(returned.use, Len(stack))
      BY DEF Inv, UsesFit
    <2>4. stack[Len(stack)].kind \in {"call", "body"}
      BY <2>2, EntryFacts DEF Inv
    <2>5. stack[Len(stack)].kind = "body"
      BY <2>2, <2>3, <2>4 DEF Fits
    <2>6. Len(stack) = i
      BY <1>3, <2>1, <2>2, <2>5 DEF Above, Bodies
    <2> QED
      BY <2>2, <2>3, <2>5, <2>6 DEF Fits
  <1>4. BeforeExact' /\ DepthCounts'
    <2>1. Bodies' = Bodies
      BY DEF Bodies
    <2>2. \A i \in Bodies : Above(i) = {} =>
            \A n \in Names \ DOMAIN stack[i].saved : globals'[n] = globals[n]
      BY <1>3 DEF Inv, Shape, Bindings
    <2> QED
      BY <2>1, <2>2, KeepBodies DEF Inv
  <1> QED
    BY <1>1, <1>2, <1>4 DEF Inv

\* What the result of an expression is for tells what is on top of the stack.
LEMMA TopKind ==
  ASSUME Inv, returned # NoReturn
  PROVE  /\ returned.use.to \in {"argument", "return"} => stack # <<>>
         /\ returned.use.to = "argument" => Last(stack).kind = "call"
         /\ returned.use.to # "argument" /\ stack # <<>> => Last(stack).kind = "body"
  <1>1. Fits(returned.use, Len(stack))
    BY DEF Inv, UsesFit
  <1>2. CASE stack = <<>>
    <2>1. Len(stack) = 0
      BY <1>2
    <2> QED
      BY <1>1, <1>2, <2>1 DEF Fits
  <1>3. CASE stack # <<>>
    <2>1. Len(stack) > 0 /\ Len(stack) \in DOMAIN stack /\ Last(stack) = stack[Len(stack)]
      BY <1>3, TopFacts DEF Inv, Shape
    <2>2. stack[Len(stack)].kind \in {"call", "body"}
      BY <2>1, EntryFacts DEF Inv
    <2> QED
      BY <1>1, <1>3, <2>1, <2>2 DEF Fits
  <1> QED
    BY <1>2, <1>3

\* The entries above the k-th are calls, before the step and after it.
LEMMA CallsStep ==
  ASSUME Inv, UNCHANGED <<size, globals, defined, depth>>, NEW k \in Nat,
         stack' \in Seq(Frames), Len(stack) \in {k, k + 1}, Len(stack') \in {k, k + 1},
         \A i \in 1 .. k : stack'[i] = stack[i],
         Len(stack) = k + 1 => stack[k + 1].kind = "call",
         Len(stack') = k + 1 =>
           /\ stack'[k + 1].kind = "call" /\ Fits(stack'[k + 1].use, k)
           /\ defined[stack'[k + 1].name] # Undefined
           /\ returned' = NoReturn,
         Len(stack') = k => \E use \in AllUses :
           returned' = Returned("FAILED", NULL, use) /\ Fits(use, k)
  PROVE  Inv'
  <1>1. PICK m \in Nat : /\ m = Len(stack) /\ DOMAIN stack = 1 .. m
                         /\ m = k \/ m = k + 1
    BY LenProperties DEF Inv, Shape
  <1>2. PICK l \in Nat : /\ l = Len(stack') /\ DOMAIN stack' = 1 .. l
                         /\ l = k \/ l = k + 1
    BY LenProperties
  <1>3. ASSUME NEW i \in 1 .. k PROVE i \in DOMAIN stack /\ i \in DOMAIN stack' /\ stack'[i] = stack[i]
    <2>1. i \in 1 .. m /\ i \in 1 .. l
      BY ONLY <1>1, <1>2, k \in Nat, m \in Nat, l \in Nat, i \in 1 .. k
    <2> QED
      BY <1>1, <1>2, <2>1
  <1>4. ASSUME NEW i \in DOMAIN stack, i \notin 1 .. k PROVE i = k + 1 /\ Len(stack) = k + 1
    <2>1. i \in 1 .. m
      BY <1>1
    <2>2. i = k + 1 /\ m = k + 1
      BY ONLY <1>1, <1>4, <2>1, k \in Nat, m \in Nat
    <2> QED
      BY <1>1, <2>2
  <1>5. ASSUME NEW i \in DOMAIN stack', i \notin 1 .. k PROVE i = k + 1 /\ Len(stack') = k + 1
    <2>1. i \in 1 .. l
      BY <1>2
    <2>2. i = k + 1 /\ l = k + 1
      BY ONLY <1>2, <1>5, <2>1, k \in Nat, l \in Nat
    <2> QED
      BY <1>2, <2>2
  <1>6. returned' = NoReturn \/ \E use \in AllUses :
          returned' = Returned("FAILED", NULL, use) /\ Fits(use, k) /\ Len(stack') = k
    OBVIOUS
  <1>7. Shape'
    <2>1. /\ returned'.status \in {"NONE", "FAILED"} /\ returned'.use \in AllUses
          /\ returned'.status = "NONE" <=> returned' = NoReturn
      BY <1>6 DEF NoReturn, AllUses, Use
    <2>2. ASSUME NEW i \in DOMAIN stack'
          PROVE  /\ defined[stack'[i].name] # Undefined
                 /\ stack'[i].kind = "body" =>
                      DOMAIN stack'[i].saved = Locals(defined[stack'[i].name])
      <3>1. CASE i \in 1 .. k
        <4>1. i \in DOMAIN stack /\ stack'[i] = stack[i]
          BY <1>3, <3>1
        <4>2. /\ defined[stack[i].name] # Undefined
              /\ stack[i].kind = "body" => DOMAIN stack[i].saved = Locals(defined[stack[i].name])
          BY <4>1 DEF Inv, Shape
        <4> QED
          BY ONLY <4>1, <4>2
      <3>2. CASE i \notin 1 .. k
        <4>1. i = k + 1 /\ Len(stack') = k + 1
          BY <1>5, <3>2
        <4> QED
          BY <4>1
      <3> QED
        BY <3>1, <3>2
    <2>3. size' \in 0 .. MaxValues /\ globals' \in Bindings /\ depth' \in Nat
          /\ defined' = defined /\ defined \in [Names -> Definitions \cup {Undefined}]
      BY DEF Inv, Shape
    <2> QED
      BY ONLY stack' \in Seq(Frames), <2>1, <2>2, <2>3 DEF Shape, Bindings, AllUses
  <1>8. UsesFit'
    <2>1. ASSUME NEW i \in DOMAIN stack' PROVE Fits(stack[i].use, i - 1)'
      <3>1. Fits(stack'[i].use, i - 1)
        <4>1. CASE i \in 1 .. k
          <5>1. i \in DOMAIN stack /\ stack'[i] = stack[i]
            BY <1>3, <4>1
          <5>2. Fits(stack[i].use, i - 1)
            BY <5>1 DEF Inv, UsesFit
          <5> QED
            BY ONLY <5>1, <5>2
        <4>2. CASE i \notin 1 .. k
          <5>1. i = k + 1 /\ Len(stack') = k + 1
            BY <1>5, <4>2
          <5>2. i - 1 = k /\ Fits(stack'[i].use, k)
            BY <5>1
          <5> QED
            BY ONLY <5>2
        <4> QED
          BY <4>1, <4>2
      <3>2. CASE i - 1 = 0
        BY ONLY <3>1, <3>2 DEF Fits
      <3>3. CASE i - 1 # 0
        <4>1. i - 1 \in 1 .. k
          <5>1. i \in 1 .. l
            BY <1>2
          <5> QED
            BY ONLY <1>2, <3>3, <5>1, k \in Nat, l \in Nat
        <4>2. stack'[i - 1] = stack[i - 1]
          BY <1>3, <4>1
        <4> QED
          BY ONLY <3>1, <4>2 DEF Fits
      <3> QED
        BY <3>2, <3>3
    <2>2. ASSUME returned' # NoReturn PROVE Fits(returned.use, Len(stack))'
      <3>1. PICK use \in AllUses : returned' = Returned("FAILED", NULL, use) /\ Fits(use, k) /\ Len(stack') = k
        BY <1>6, <2>2
      <3>2. Fits(returned'.use, k)
        BY <3>1
      <3>3. CASE k = 0
        BY ONLY <3>1, <3>2, <3>3 DEF Fits
      <3>4. CASE k # 0
        <4>1. stack'[k] = stack[k]
          BY <1>3, <3>4
        <4> QED
          BY ONLY <3>1, <3>2, <4>1 DEF Fits
      <3> QED
        BY <3>3, <3>4
    <2> QED
      BY ONLY <2>1, <2>2 DEF UsesFit, NoReturn, Use
  <1>9. BeforeExact' /\ DepthCounts'
    <2>1. ASSUME NEW i \in Bodies PROVE i \in Bodies' /\ stack'[i] = stack[i]
      <3>1. i \in DOMAIN stack /\ stack[i].kind = "body"
        BY DEF Bodies
      <3>2. i \in 1 .. k
        BY <1>4, <3>1
      <3> QED
        BY <1>3, <3>1, <3>2 DEF Bodies
    <2>2. ASSUME NEW i \in Bodies' PROVE i \in Bodies
      <3>1. i \in DOMAIN stack' /\ stack'[i].kind = "body"
        BY DEF Bodies
      <3>2. i \in 1 .. k
        BY <1>5, <3>1
      <3> QED
        BY <1>3, <3>1, <3>2 DEF Bodies
    <2>3. Bodies' = Bodies
      BY ONLY <2>1, <2>2
    <2> QED
      BY <2>1, <2>3, KeepBodies DEF Inv
  <1> QED
    BY <1>7, <1>8, <1>9 DEF Inv

\* A finite number of bodies is in execution.
LEMMA BodiesFinite ==
  ASSUME Shape
  PROVE  IsFiniteSet(Bodies)
  <1>1. DOMAIN stack = 1 .. Len(stack) /\ Len(stack) \in Nat
    BY LenProperties DEF Shape
  <1>2. Bodies \subseteq 1 .. Len(stack)
    BY <1>1 DEF Bodies
  <1>3. IsFiniteSet(1 .. Len(stack))
    BY <1>1, FS_Interval
  <1> QED
    BY <1>2, <1>3, FS_Subset

\* The call on top of the stack becomes a body: what the body may bind is saved.
LEMMA EnterStep ==
  ASSUME Inv, stack # <<>>, Last(stack).kind = "call",
         UNCHANGED <<size, defined, returned>>, returned = NoReturn, depth' = depth + 1,
         NEW b \in BodyFrames, stack' = Append(Front(stack), b),
         b.name = Last(stack).name, b.use = Last(stack).use,
         DOMAIN b.saved = Locals(defined[b.name]), b.before = globals,
         \A n \in DOMAIN b.saved : b.saved[n] = globals[n],
         globals' \in Bindings,
         \A n \in Names \ DOMAIN b.saved : globals'[n] = globals[n]
  PROVE  Inv'
  <1>1. PICK m \in Nat : /\ m = Len(stack) /\ m > 0 /\ DOMAIN stack = 1 .. m /\ m \in DOMAIN stack
                         /\ Last(stack) = stack[m] /\ Front(stack) \in Seq(Frames)
                         /\ Len(Front(stack)) = m - 1
                         /\ \A i \in 1 .. m - 1 : Front(stack)[i] = stack[i]
    <2>1. stack \in Seq(Frames)
      BY DEF Inv, Shape
    <2>2. DOMAIN stack = 1 .. Len(stack)
      BY <2>1, LenProperties
    <2>3. /\ Len(stack) \in Nat /\ Len(stack) > 0 /\ Len(stack) \in DOMAIN stack
          /\ Last(stack) = stack[Len(stack)] /\ Front(stack) \in Seq(Frames)
          /\ Len(Front(stack)) = Len(stack) - 1
          /\ \A j \in 1 .. Len(stack) - 1 : Front(stack)[j] = stack[j]
      BY <2>1, TopFacts
    <2> QED
      BY ONLY <2>2, <2>3
  <1>2. b \in Frames /\ b.kind = "body"
    BY DEF Frames, BodyFrames
  <1>3. /\ stack' \in Seq(Frames) /\ Len(stack') = Len(Front(stack)) + 1
        /\ \A i \in 1 .. Len(Front(stack)) : stack'[i] = Front(stack)[i]
        /\ stack'[Len(Front(stack)) + 1] = b
    BY <1>1, <1>2, PushFacts
  <1>4. /\ Len(stack') = m /\ DOMAIN stack' = 1 .. m /\ stack'[m] = b
        /\ \A i \in 1 .. m - 1 : stack'[i] = stack[i]
    <2>1. m - 1 + 1 = m
      OBVIOUS
    <2>2. Len(stack') = m /\ stack'[m] = b
      BY <1>1, <1>3, <2>1
    <2>3. DOMAIN stack' = 1 .. m
      BY <1>3, <2>2, LenProperties
    <2> QED
      BY <1>1, <1>3, <2>2, <2>3
  <1>5. ASSUME NEW i \in 1 .. m, i # m PROVE i \in 1 .. m - 1
    BY <1>5
  <1>6. Shape'
    <2>1. ASSUME NEW i \in DOMAIN stack'
          PROVE  /\ defined[stack'[i].name] # Undefined
                 /\ stack'[i].kind = "body" =>
                      DOMAIN stack'[i].saved = Locals(defined[stack'[i].name])
      <3>1. CASE i = m
        <4>1. defined[stack[m].name] # Undefined
          BY <1>1 DEF Inv, Shape
        <4> QED
          BY <1>1, <1>4, <3>1, <4>1
      <3>2. CASE i # m
        <4>1. i \in DOMAIN stack /\ stack'[i] = stack[i]
          BY <1>1, <1>4, <1>5, <3>2
        <4>2. /\ defined[stack[i].name] # Undefined
              /\ stack[i].kind = "body" => DOMAIN stack[i].saved = Locals(defined[stack[i].name])
          BY <4>1 DEF Inv, Shape
        <4> QED
          BY ONLY <4>1, <4>2
      <3> QED
        BY <3>1, <3>2
    <2>2. /\ size' \in 0 .. MaxValues /\ depth' \in Nat /\ defined' = defined
          /\ defined \in [Names -> Definitions \cup {Undefined}]
      BY DEF Inv, Shape
    <2>3. NoReturn.status = "NONE" /\ NoReturn.use \in AllUses
      BY DEF NoReturn, AllUses, Use
    <2> QED
      BY ONLY <1>3, <2>1, <2>2, <2>3, globals' \in Bindings, returned' = returned,
         returned = NoReturn
         DEF Shape, Bindings, AllUses, NoReturn
  <1>7. UsesFit'
    <2>1. ASSUME NEW i \in DOMAIN stack' PROVE Fits(stack[i].use, i - 1)'
      <3>1. i \in DOMAIN stack /\ i \in 1 .. m
        BY <1>1, <1>4
      <3>2. Fits(stack[i].use, i - 1)
        BY <3>1 DEF Inv, UsesFit
      <3>3. stack'[i].use = stack[i].use
        <4>1. CASE i = m
          BY <1>1, <1>4, <4>1
        <4>2. CASE i # m
          BY <1>4, <1>5, <3>1, <4>2
        <4> QED
          BY <4>1, <4>2
      <3>4. CASE i - 1 = 0
        BY ONLY <3>2, <3>3, <3>4 DEF Fits
      <3>5. CASE i - 1 # 0
        <4>1. i - 1 \in 1 .. m - 1
          BY ONLY <3>1, <3>5, m \in Nat
        <4>2. stack'[i - 1] = stack[i - 1]
          BY <1>4, <4>1
        <4> QED
          BY ONLY <3>2, <3>3, <4>2 DEF Fits
      <3> QED
        BY <3>4, <3>5
    <2> QED
      BY <2>1 DEF UsesFit, NoReturn, Use
  <1>8. m \notin Bodies /\ Bodies' = Bodies \cup {m} /\ \A i \in Bodies : i \in 1 .. m - 1
    <2>1. m \notin Bodies
      BY <1>1 DEF Bodies
    <2>2. \A i \in Bodies : i \in 1 .. m - 1
      BY <1>1, <1>5, <2>1 DEF Bodies
    <2>3. ASSUME NEW i \in Bodies' PROVE i \in Bodies \cup {m}
      <3>1. i \in DOMAIN stack' /\ stack'[i].kind = "body"
        BY DEF Bodies
      <3>2. CASE i # m
        <4>1. stack'[i] = stack[i] /\ i \in DOMAIN stack
          BY <1>1, <1>4, <1>5, <3>1, <3>2
        <4> QED
          BY <3>1, <4>1 DEF Bodies
      <3> QED
        BY <3>2
    <2>4. m \in Bodies'
      BY <1>1, <1>2, <1>4 DEF Bodies
    <2>5. ASSUME NEW i \in Bodies PROVE i \in Bodies'
      <3>1. i \in 1 .. m - 1 /\ stack[i].kind = "body" /\ i \in DOMAIN stack
        BY <2>2 DEF Bodies
      <3>2. stack'[i] = stack[i] /\ i \in DOMAIN stack'
        BY <1>1, <1>4, <3>1
      <3> QED
        BY <3>1, <3>2 DEF Bodies
    <2> QED
      BY ONLY <2>1, <2>2, <2>3, <2>4, <2>5
  <1>9. DepthCounts'
    <2>1. IsFiniteSet(Bodies)
      BY BodiesFinite DEF Inv
    <2>2. Cardinality(Bodies \cup {m}) = IF m \in Bodies THEN Cardinality(Bodies) ELSE Cardinality(Bodies) + 1
      BY <2>1, CountUpdate
    <2> QED
      BY <1>8, <2>2 DEF Inv, DepthCounts
  <1>10. BeforeExact'
    <2> SUFFICES ASSUME NEW i \in Bodies'
                 PROVE  /\ \A n \in DOMAIN stack'[i].saved : stack'[i].saved[n] = stack'[i].before[n]
                        /\ Above(i)' = {} =>
                             \A n \in Names \ DOMAIN stack'[i].saved : globals'[n] = stack'[i].before[n]
                        /\ \A j \in Above(i)' : (\A k \in Above(i)' : j <= k) =>
                             \A n \in Names \ DOMAIN stack'[i].saved :
                               stack'[j].before[n] = stack'[i].before[n]
      BY DEF BeforeExact
    <2>1. CASE i = m
      <3>1. Above(i)' = {}
        <4>1. ASSUME NEW j \in Above(i)' PROVE FALSE
          <5>1. j \in Bodies \cup {m} /\ j > m
            BY <1>8, <2>1 DEF Above
          <5> QED
            BY <1>8, <5>1
        <4> QED
          BY <4>1
      <3> QED
        BY <1>4, <2>1, <3>1
    <2>2. CASE i # m
      <3>1. i \in Bodies /\ i \in 1 .. m - 1 /\ stack'[i] = stack[i]
        BY <1>4, <1>8, <2>2
      <3>2. /\ \A n \in DOMAIN stack[i].saved : stack[i].saved[n] = stack[i].before[n]
            /\ Above(i) = {} =>
                 \A n \in Names \ DOMAIN stack[i].saved : globals[n] = stack[i].before[n]
            /\ \A j \in Above(i) : (\A k \in Above(i) : j <= k) =>
                 \A n \in Names \ DOMAIN stack[i].saved : stack[j].before[n] = stack[i].before[n]
        BY <3>1 DEF Inv, BeforeExact
      <3>3. Above(i)' = Above(i) \cup {m}
        BY <1>8, <3>1 DEF Above
      <3>4. \A j \in Above(i) : j \in 1 .. m - 1 /\ stack'[j] = stack[j]
        BY <1>4, <1>8 DEF Above
      <3>5. ASSUME NEW j \in Above(i) \cup {m}, \A k \in Above(i) \cup {m} : j <= k
            PROVE  \A n \in Names \ DOMAIN stack[i].saved : stack'[j].before[n] = stack[i].before[n]
        <4>1. CASE Above(i) = {}
          <5>1. stack'[j].before = globals
            BY <1>4, <4>1
          <5> QED
            BY <3>2, <4>1, <5>1
        <4>2. CASE Above(i) # {}
          <5>1. PICK k \in Above(i) : TRUE
            BY <4>2
          <5>2. j <= k /\ k \in 1 .. m - 1
            BY <3>4, <3>5, <5>1
          <5>3. j # m
            BY ONLY <5>2, m \in Nat
          <5>4. j \in Above(i) /\ \A h \in Above(i) : j <= h
            BY <3>5, <5>3
          <5>5. \A n \in Names \ DOMAIN stack[i].saved : stack[j].before[n] = stack[i].before[n]
            BY ONLY <3>2, <5>4
          <5>6. stack'[j] = stack[j]
            BY <3>4, <5>4
          <5> QED
            BY ONLY <5>5, <5>6
        <4> QED
          BY <4>1, <4>2
      <3> QED
        BY ONLY <3>1, <3>2, <3>3, <3>5
    <2> QED
      BY <2>1, <2>2
  <1> QED
    BY <1>6, <1>7, <1>9, <1>10 DEF Inv

\* A body ends, and every global is what it was when the body started.
LEMMA LeaveStep ==
  ASSUME Inv, stack # <<>>, Last(stack).kind = "body", size' \in 0 .. MaxValues,
         UNCHANGED defined, NEW status \in {"OK", "FAILED"}, NEW v,
         status = "OK" => v \in Handles,
         globals' = Restored(status, Last(stack).saved), stack' = Front(stack),
         depth' = DepthAfter(status), returned' = Returned(status, v, Last(stack).use)
  PROVE  Inv' /\ globals' = Last(stack).before
  <1>1. PICK m \in Nat : /\ m = Len(stack) /\ m > 0 /\ DOMAIN stack = 1 .. m /\ m \in DOMAIN stack
                         /\ Last(stack) = stack[m] /\ Front(stack) \in Seq(Frames)
                         /\ Len(Front(stack)) = m - 1
                         /\ \A i \in 1 .. m - 1 : Front(stack)[i] = stack[i]
    BY TopFacts, LenProperties DEF Inv, Shape
  <1>2. /\ stack' \in Seq(Frames) /\ Len(stack') = m - 1 /\ DOMAIN stack' = 1 .. m - 1
        /\ \A i \in 1 .. m - 1 : stack'[i] = stack[i] /\ i \in DOMAIN stack
    <2>1. stack' \in Seq(Frames) /\ Len(stack') = m - 1 /\ \A i \in 1 .. m - 1 : stack'[i] = stack[i]
      BY <1>1
    <2>2. DOMAIN stack' = 1 .. m - 1
      BY <2>1, LenProperties
    <2>3. \A i \in 1 .. m - 1 : i \in 1 .. m
      BY ONLY m \in Nat
    <2> QED
      BY <1>1, <2>1, <2>2, <2>3
  <1>3. /\ stack[m] \in BodyFrames /\ stack[m].saved \in SavedBindings /\ stack[m].before \in Bindings
        /\ stack[m].use \in AllUses
    BY <1>1, EntryFacts DEF Inv
  <1>4. m \in Bodies /\ \A i \in Bodies : i \in 1 .. m
    BY <1>1 DEF Bodies
  <1>5. /\ \A n \in DOMAIN stack[m].saved : stack[m].saved[n] = stack[m].before[n]
        /\ \A n \in Names \ DOMAIN stack[m].saved : globals[n] = stack[m].before[n]
    <2>1. Above(m) = {}
      <3>1. ASSUME NEW j \in Above(m) PROVE FALSE
        <4>1. j \in 1 .. m /\ j > m
          BY <1>4 DEF Above
        <4> QED
          BY <4>1
      <3> QED
        BY <3>1
    <2> QED
      BY <1>4, <2>1 DEF Inv, BeforeExact
  <1>6. globals' = stack[m].before
    <2>1. globals' = [n \in Names |-> IF n \in DOMAIN stack[m].saved THEN stack[m].saved[n] ELSE globals[n]]
      BY <1>1 DEF Restored
    <2>2. \A n \in Names : globals'[n] = stack[m].before[n]
      BY <1>5, <2>1
    <2> QED
      BY <1>3, <2>1, <2>2 DEF Bindings
  <1>7. Bodies' = Bodies \ {m} /\ \A i \in Bodies' : i \in Bodies /\ i \in 1 .. m - 1 /\ stack'[i] = stack[i]
    <2>1. ASSUME NEW i \in Bodies' PROVE i \in Bodies /\ i # m /\ i \in 1 .. m - 1 /\ stack'[i] = stack[i]
      <3>1. i \in 1 .. m - 1 /\ stack'[i].kind = "body"
        BY <1>2 DEF Bodies
      <3>2. i # m
        BY ONLY <3>1, m \in Nat
      <3> QED
        BY <1>2, <3>1, <3>2 DEF Bodies
    <2>2. ASSUME NEW i \in Bodies, i # m PROVE i \in Bodies'
      <3>1. i \in 1 .. m - 1
        BY <1>4, <2>2
      <3> QED
        BY <1>2, <3>1 DEF Bodies
    <2> QED
      BY ONLY <2>1, <2>2
  <1>8. Fits(stack[m].use, m - 1)
    BY <1>1 DEF Inv, UsesFit
  <1>9. /\ returned'.status = status /\ returned'.value = v /\ returned'.use = stack[m].use
        /\ returned' # NoReturn
    BY <1>1 DEF NoReturn, Use
  <1>10. DepthCounts' /\ depth' \in Nat
    <2>1. IsFiniteSet(Bodies)
      BY BodiesFinite DEF Inv
    <2>2. /\ Cardinality(Bodies) \in Nat
          /\ Cardinality(Bodies \ {m}) = IF m \in Bodies THEN Cardinality(Bodies) - 1 ELSE Cardinality(Bodies)
          /\ m \in Bodies => Cardinality(Bodies) > 0
      BY <2>1, CountUpdate
    <2>3. depth = Cardinality(Bodies) /\ depth' = depth - 1
      BY DEF Inv, DepthCounts, DepthAfter
    <2>4. Cardinality(Bodies \ {m}) = depth' /\ depth' \in Nat
      BY <1>4, <2>2, <2>3
    <2> QED
      BY <1>7, <2>4 DEF DepthCounts
  <1>11. Shape'
    <2>1. ASSUME NEW i \in DOMAIN stack'
          PROVE  /\ defined[stack'[i].name] # Undefined
                 /\ stack'[i].kind = "body" =>
                      DOMAIN stack'[i].saved = Locals(defined[stack'[i].name])
      <3>1. i \in DOMAIN stack /\ stack'[i] = stack[i]
        BY <1>2
      <3>2. /\ defined[stack[i].name] # Undefined
            /\ stack[i].kind = "body" => DOMAIN stack[i].saved = Locals(defined[stack[i].name])
        BY <3>1 DEF Inv, Shape
      <3> QED
        BY ONLY <3>1, <3>2
    <2>2. defined' = defined /\ defined \in [Names -> Definitions \cup {Undefined}] /\ globals' \in Bindings
      BY <1>3, <1>6 DEF Inv, Shape
    <2>3. returned'.status \in {"OK", "FAILED"} /\ returned'.use \in AllUses
          /\ (returned'.status = "OK" => returned'.value \in Handles)
      BY <1>3, <1>9
    <2> QED
      BY ONLY <1>2, <1>9, <1>10, <2>1, <2>2, <2>3, size' \in 0 .. MaxValues
         DEF Shape, Bindings, AllUses, NoReturn
  <1>12. UsesFit'
    <2>1. ASSUME NEW use, NEW k \in 1 .. m, Fits(use, k - 1) PROVE Fits(use, k - 1)'
      <3>1. CASE k - 1 = 0
        BY ONLY <2>1, <3>1 DEF Fits
      <3>2. CASE k - 1 # 0
        <4>1. k - 1 \in 1 .. m - 1
          BY ONLY <3>2, m \in Nat, k \in 1 .. m
        <4>2. stack'[k - 1] = stack[k - 1]
          BY <1>2, <4>1
        <4> QED
          BY ONLY <2>1, <4>2 DEF Fits
      <3> QED
        BY <3>1, <3>2
    <2>2. ASSUME NEW i \in DOMAIN stack' PROVE Fits(stack[i].use, i - 1)'
      <3>1. i \in 1 .. m /\ i \in DOMAIN stack /\ stack'[i] = stack[i]
        BY <1>1, <1>2
      <3>2. Fits(stack[i].use, i - 1)
        BY <3>1 DEF Inv, UsesFit
      <3> QED
        BY <2>1, <3>1, <3>2 DEF Fits
    <2>3. Fits(returned.use, Len(stack))'
      <3>1. m \in 1 .. m
        BY <1>1
      <3>2. CASE m - 1 = 0
        BY ONLY <1>2, <1>8, <1>9, <3>2 DEF Fits
      <3>3. CASE m - 1 # 0
        <4>1. m - 1 \in 1 .. m - 1
          BY ONLY <1>1, <3>3, m \in Nat
        <4>2. stack'[m - 1] = stack[m - 1]
          BY <1>2, <4>1
        <4> QED
          BY ONLY <1>2, <1>8, <1>9, <4>2 DEF Fits
      <3> QED
        BY <3>2, <3>3
    <2> QED
      BY ONLY <2>2, <2>3 DEF UsesFit
  <1>13. BeforeExact'
    <2> SUFFICES ASSUME NEW i \in Bodies'
                 PROVE  /\ \A n \in DOMAIN stack'[i].saved : stack'[i].saved[n] = stack'[i].before[n]
                        /\ Above(i)' = {} =>
                             \A n \in Names \ DOMAIN stack'[i].saved : globals'[n] = stack'[i].before[n]
                        /\ \A j \in Above(i)' : (\A k \in Above(i)' : j <= k) =>
                             \A n \in Names \ DOMAIN stack'[i].saved :
                               stack'[j].before[n] = stack'[i].before[n]
      BY DEF BeforeExact
    <2>1. i \in Bodies /\ i \in 1 .. m - 1 /\ stack'[i] = stack[i]
      BY <1>7
    <2>2. /\ \A n \in DOMAIN stack[i].saved : stack[i].saved[n] = stack[i].before[n]
          /\ \A j \in Above(i) : (\A k \in Above(i) : j <= k) =>
               \A n \in Names \ DOMAIN stack[i].saved : stack[j].before[n] = stack[i].before[n]
      BY <2>1 DEF Inv, BeforeExact
    <2>3. Above(i)' = Above(i) \ {m} /\ m \in Above(i)
      BY <1>4, <1>7, <2>1 DEF Above
    <2>4. \A j \in Above(i)' : j \in 1 .. m - 1 /\ stack'[j] = stack[j]
      BY <1>7 DEF Above
    <2>5. ASSUME Above(i)' = {}
          PROVE  \A n \in Names \ DOMAIN stack[i].saved : globals'[n] = stack[i].before[n]
      <3>1. Above(i) = {m}
        BY <2>3, <2>5
      <3>2. m <= m
        OBVIOUS
      <3>3. \A k \in Above(i) : m <= k
        BY ONLY <3>1, <3>2
      <3>4. \A n \in Names \ DOMAIN stack[i].saved : stack[m].before[n] = stack[i].before[n]
        BY ONLY <2>2, <2>3, <3>3
      <3> QED
        BY ONLY <1>6, <3>4
    <2>6. ASSUME NEW j \in Above(i)', \A k \in Above(i)' : j <= k
          PROVE  \A n \in Names \ DOMAIN stack[i].saved : stack'[j].before[n] = stack[i].before[n]
      <3>1. j \in Above(i) /\ j \in 1 .. m - 1 /\ stack'[j] = stack[j]
        BY <2>3, <2>4
      <3>2. j <= m
        BY ONLY <3>1, m \in Nat
      <3>3. \A k \in Above(i) : j <= k
        BY ONLY <2>3, <2>6, <3>2
      <3>4. \A n \in Names \ DOMAIN stack[i].saved : stack[j].before[n] = stack[i].before[n]
        BY ONLY <2>2, <3>1, <3>3
      <3> QED
        BY ONLY <3>1, <3>4
    <2> QED
      BY ONLY <2>1, <2>2, <2>5, <2>6
  <1> QED
    BY <1>1, <1>6, <1>10, <1>11, <1>12, <1>13 DEF Inv

(***************************************************************************)
(* Every action keeps the invariant.                                       *)
(***************************************************************************)
\* The value an action appends.
LEMMA Appended ==
  ASSUME Shape, NEW n, Append1(n)
  PROVE  size + 1 \in Handles /\ size' = size + 1 /\ size' \in 0 .. MaxValues
  BY FunctionFramesAssumption DEF Shape, Append1

\* A failing statement ends the body it is in, or the host's statement.
LEMMA FailStatementKeeps ==
  ASSUME Inv, returned # NoReturn, returned.use.to # "argument",
         NEW counts, FailStatement(counts), UNCHANGED <<size, defined>>
  PROVE  Inv' /\ (depth' < depth => globals' = Last(stack).before)
  <1>1. CASE stack = <<>>
    <2>1. UNCHANGED <<stack, globals, depth>> /\ returned' = NoReturn
      BY <1>1 DEF FailStatement
    <2>2. depth \in Nat
      BY DEF Inv, Shape
    <2>3. Inv'
      BY <2>1, ClearedStep
    <2> QED
      BY <2>1, <2>2, <2>3
  <1>2. CASE stack # <<>>
    <2>1. LeaveBody(counts, "FAILED", NULL)
      BY <1>2 DEF FailStatement
    <2>2. Last(stack).kind = "body"
      BY <1>2, TopKind
    <2>3. size' \in 0 .. MaxValues
      BY DEF Inv, Shape
    <2> QED
      BY <1>2, <2>1, <2>2, <2>3, LeaveStep DEF LeaveBody
  <1> QED
    BY <1>1, <1>2

\* A call's arguments are evaluated for it.
LEMMA EvaluateCallKeeps ==
  ASSUME Inv, NEW n \in Names, NEW use \in NextUses, EvaluateCall(n, use)
  PROVE  Inv' /\ depth' = depth
  <1>1. use \in AllUses /\ Fits(use, Len(stack))
    BY NextUsesFit DEF Inv
  <1>2. UNCHANGED <<size, globals, defined, depth>> /\ returned = NoReturn
    BY DEF EvaluateCall, values
  <1>3. CASE returned' = Returned("FAILED", NULL, use) /\ UNCHANGED stack
    <2>1. size' \in 0 .. MaxValues
      BY <1>2 DEF Inv, Shape
    <2> QED
      BY <1>1, <1>2, <1>3, <2>1, ReturnsStep
  <1>4. CASE IsFunction(n) /\ stack' = Append(stack, Call(n, use, <<>>)) /\ UNCHANGED returned
    <2> DEFINE k == Len(stack)
               c == Call(n, use, <<>>)
    <2>1. k \in Nat /\ stack \in Seq(Frames)
      BY LenProperties DEF Inv, Shape
    <2>2. c \in Frames /\ c.kind = "call" /\ c.name = n /\ c.use = use
      <3>1. <<>> \in Seq(Handles)
        OBVIOUS
      <3> QED
        BY <1>1, <3>1 DEF Call, Frames, Calls
    <2> HIDE DEF c
    <2>3. /\ stack' \in Seq(Frames) /\ Len(stack') = k + 1
          /\ \A i \in 1 .. k : stack'[i] = stack[i]
          /\ stack'[k + 1] = c
      BY <1>4, <2>1, <2>2, PushFacts DEF c
    <2>4. defined[n] # Undefined
      BY <1>4 DEF IsFunction
    <2>5. /\ stack'[k + 1].kind = "call" /\ Fits(stack'[k + 1].use, k)
          /\ defined[stack'[k + 1].name] # Undefined
          /\ returned' = NoReturn
      BY <1>1, <1>2, <1>4, <2>2, <2>3, <2>4
    <2> HIDE DEF k
    <2>6. Len(stack) \in {k, k + 1} /\ Len(stack') \in {k, k + 1} /\ Len(stack) # k + 1 /\ Len(stack') # k
      BY ONLY <2>1, <2>3 DEF k
    <2> QED
      BY <1>2, <2>1, <2>3, <2>5, <2>6, CallsStep
  <1> QED
    BY <1>3, <1>4 DEF EvaluateCall

\* A call is refused, or its body starts.
LEMMA InvokeKeeps ==
  ASSUME Inv, Invoke
  PROVE  Inv' /\ depth' >= depth
  <1> DEFINE call == Last(stack)
             d == defined[call.name]
             refuse == Len(call.args) # Len(d.params) \/ TooDeep
             b == Body(call.name, call.use, [n \in Locals(d) |-> globals[n]])
  <1>1. stack # <<>> /\ returned = NoReturn /\ call.kind = "call" /\ UNCHANGED <<size, defined>>
    BY DEF Invoke, In
  <1>2. PICK m \in Nat : /\ m = Len(stack) /\ m > 0 /\ DOMAIN stack = 1 .. m /\ m \in DOMAIN stack
                         /\ call = stack[m] /\ Front(stack) \in Seq(Frames)
                         /\ Len(Front(stack)) = m - 1
                         /\ \A i \in 1 .. m - 1 : Front(stack)[i] = stack[i]
    BY <1>1, TopFacts, LenProperties DEF Inv, Shape
  <1>3. /\ call.use \in AllUses /\ call.name \in Names /\ call.args \in Seq(Handles)
        /\ Fits(call.use, m - 1) /\ d # Undefined
    <2>1. call.use \in AllUses /\ call.name \in Names /\ call.args \in Seq(Handles)
      BY <1>1, <1>2, EntryFacts DEF Inv
    <2>2. Fits(stack[m].use, m - 1) /\ defined[stack[m].name] # Undefined
      BY <1>2 DEF Inv, UsesFit, Shape
    <2> QED
      BY <1>2, <2>1, <2>2
  <1>4. depth \in Nat
    BY DEF Inv, Shape
  <1>5. CASE refuse
    <2>1. /\ stack' = Front(stack) /\ returned' = Returned("FAILED", NULL, call.use)
          /\ UNCHANGED <<globals, depth>>
      BY <1>5 DEF Invoke
    <2>2. PICK k \in Nat : k = m - 1 /\ m = k + 1
      BY <1>2
    <2>3. /\ stack' \in Seq(Frames) /\ Len(stack') = k /\ Len(stack) = k + 1
          /\ \A i \in 1 .. k : stack'[i] = stack[i]
          /\ stack[k + 1].kind = "call" /\ Fits(call.use, k)
      BY <1>1, <1>2, <1>3, <2>1, <2>2
    <2>4. Len(stack) \in {k, k + 1} /\ Len(stack') \in {k, k + 1} /\ Len(stack') # k + 1
      BY ONLY <2>3, k \in Nat
    <2>5. \E use \in AllUses : returned' = Returned("FAILED", NULL, use) /\ Fits(use, k)
      BY <1>3, <2>1, <2>3
    <2> HIDE DEF call, d
    <2>6. Inv'
      BY <1>1, <2>1, <2>3, <2>4, <2>5, CallsStep
    <2> QED
      BY <1>4, <2>1, <2>6
  <1>6. CASE ~refuse
    <2>1. /\ globals' = [n \in Names |->
                          IF n \in Range(d.params)
                          THEN call.args[CHOOSE i \in DOMAIN d.params : d.params[i] = n]
                          ELSE globals[n]]
          /\ depth' = depth + 1 /\ stack' = Append(Front(stack), b) /\ UNCHANGED returned
          /\ Len(call.args) = Len(d.params)
      BY <1>6 DEF Invoke
    <2>2. d \in Definitions /\ d.params \in Seq(Names) /\ d.assigned \subseteq Names
      BY <1>3, FunctionFramesAssumption DEF Inv, Shape
    <2>3. Range(d.params) \subseteq Names /\ DOMAIN d.params = DOMAIN call.args
      <3>1. DOMAIN d.params = 1 .. Len(d.params) /\ DOMAIN call.args = 1 .. Len(call.args)
        BY <1>3, <2>2, LenProperties
      <3>2. \A i \in DOMAIN d.params : d.params[i] \in Names
        BY <2>2, <3>1, ElementOfSeq
      <3> QED
        BY <2>1, <3>1, <3>2 DEF Range
    <2>4. ASSUME NEW n \in Range(d.params)
          PROVE  call.args[CHOOSE i \in DOMAIN d.params : d.params[i] = n] \in Handles
      <3>1. \E i \in DOMAIN d.params : d.params[i] = n
        BY DEF Range
      <3> DEFINE at == CHOOSE i \in DOMAIN d.params : d.params[i] = n
      <3>2. at \in DOMAIN call.args
        BY <2>3, <3>1
      <3> HIDE DEF at
      <3>3. at \in 1 .. Len(call.args)
        BY <1>3, <3>2, LenProperties
      <3>4. call.args[at] \in Handles
        BY <1>3, <3>3, ElementOfSeq
      <3> QED
        BY <3>4 DEF at
    <2>5. globals \in Bindings /\ globals' \in Bindings
      BY <2>1, <2>4 DEF Inv, Shape, Bindings
    <2>6. Locals(d) \subseteq Names /\ Range(d.params) \subseteq Locals(d)
      BY <2>2, <2>3 DEF Locals
    <2>7. /\ b.kind = "body" /\ b.name = call.name /\ b.use = call.use /\ b.before = globals
          /\ b.saved = [n \in Locals(d) |-> globals[n]]
      BY DEF Body
    <2>8. b \in BodyFrames
      <3>1. [n \in Locals(d) |-> globals[n]] \in [Locals(d) -> Handles \cup {NULL}]
        BY <2>5, <2>6 DEF Bindings
      <3>2. [n \in Locals(d) |-> globals[n]] \in SavedBindings
        BY <2>6, <3>1 DEF SavedBindings
      <3> QED
        BY <1>3, <2>5, <3>2 DEF Body, BodyFrames
    <2>9. /\ DOMAIN b.saved = Locals(defined[b.name])
          /\ \A n \in DOMAIN b.saved : b.saved[n] = globals[n]
          /\ \A n \in Names \ DOMAIN b.saved : globals'[n] = globals[n]
      BY <2>1, <2>6, <2>7
    <2> HIDE DEF b, d, refuse
    <2>10. Inv'
      BY <1>1, <2>1, <2>5, <2>7, <2>8, <2>9, EnterStep
    <2> QED
      BY <1>4, <2>1, <2>10
  <1> QED
    BY <1>5, <1>6

\* A call takes an argument, or fails with it.
LEMMA ArgumentKeeps ==
  ASSUME Inv, returned # NoReturn, returned.use.to = "argument",
         UNCHANGED <<size, globals, defined, depth>>,
         \/ stack' = Front(stack) /\ returned' = Returned("FAILED", NULL, Last(stack).use)
         \/ /\ returned.status = "OK" /\ returned' = NoReturn
            /\ stack' = [stack EXCEPT ![Len(stack)] =
                           Call(Last(stack).name, Last(stack).use,
                                Append(Last(stack).args, returned.value))]
  PROVE  Inv'
  <1> DEFINE call == Last(stack)
             c == Call(call.name, call.use, Append(call.args, returned.value))
  <1>1. stack # <<>> /\ call.kind = "call"
    BY TopKind
  <1>2. PICK m \in Nat : /\ m = Len(stack) /\ m > 0 /\ DOMAIN stack = 1 .. m /\ m \in DOMAIN stack
                         /\ call = stack[m] /\ Front(stack) \in Seq(Frames)
                         /\ Len(Front(stack)) = m - 1
                         /\ \A i \in 1 .. m - 1 : Front(stack)[i] = stack[i]
    BY <1>1, TopFacts, LenProperties DEF Inv, Shape
  <1>3. /\ call.use \in AllUses /\ call.name \in Names /\ call.args \in Seq(Handles)
        /\ Fits(call.use, m - 1) /\ defined[call.name] # Undefined
    <2>1. call.use \in AllUses /\ call.name \in Names /\ call.args \in Seq(Handles)
      BY <1>1, <1>2, EntryFacts DEF Inv
    <2>2. Fits(stack[m].use, m - 1) /\ defined[stack[m].name] # Undefined
      BY <1>2 DEF Inv, UsesFit, Shape
    <2> QED
      BY <1>2, <2>1, <2>2
  <1>4. PICK k \in Nat : k = m - 1 /\ m = k + 1
    BY <1>2
  <1>5. Len(stack) \in {k, k + 1} /\ stack[k + 1].kind = "call" /\ Fits(call.use, k)
    BY <1>1, <1>2, <1>3, <1>4
  <1>6. CASE stack' = Front(stack) /\ returned' = Returned("FAILED", NULL, call.use)
    <2>1. /\ stack' \in Seq(Frames) /\ Len(stack') = k
          /\ \A i \in 1 .. k : stack'[i] = stack[i]
      BY <1>2, <1>4, <1>6
    <2>2. Len(stack') \in {k, k + 1} /\ Len(stack') # k + 1
      BY ONLY <2>1, k \in Nat
    <2>3. \E use \in AllUses : returned' = Returned("FAILED", NULL, use) /\ Fits(use, k)
      BY <1>3, <1>5, <1>6
    <2> HIDE DEF call
    <2> QED
      BY <1>5, <2>1, <2>2, <2>3, CallsStep
  <1>7. CASE /\ returned.status = "OK" /\ returned' = NoReturn
             /\ stack' = [stack EXCEPT ![Len(stack)] = c]
    <2>1. c \in Frames /\ c.kind = "call" /\ c.name = call.name /\ c.use = call.use
      <3>1. returned.value \in Handles
        BY <1>7 DEF Inv, Shape
      <3>2. Append(call.args, returned.value) \in Seq(Handles)
        BY <1>3, <3>1, PushFacts
      <3> QED
        BY <1>3, <3>2 DEF Call, Frames, Calls
    <2> HIDE DEF c, call
    <2>2. stack \in Seq(Frames) /\ m \in 1 .. Len(stack)
      BY <1>2 DEF Inv, Shape
    <2>3. [stack EXCEPT ![m] = c] \in Seq(Frames)
      BY <2>1, <2>2, ExceptSeq
    <2>4. /\ DOMAIN stack' = 1 .. m /\ stack'[m] = c /\ stack' \in Seq(Frames)
          /\ \A i \in 1 .. m - 1 : stack'[i] = stack[i]
      BY <1>2, <1>7, <2>2, <2>3
    <2>5. Len(stack') = m
      BY <1>2, <2>4, LenProperties
    <2>6. /\ stack'[k + 1].kind = "call" /\ Fits(stack'[k + 1].use, k)
          /\ defined[stack'[k + 1].name] # Undefined
          /\ \A i \in 1 .. k : stack'[i] = stack[i]
      BY <1>3, <1>4, <1>5, <2>1, <2>4
    <2>7. Len(stack') \in {k, k + 1} /\ Len(stack') # k
      BY ONLY <1>4, <2>5, k \in Nat
    <2> QED
      BY <1>5, <1>7, <2>4, <2>6, <2>7, CallsStep
  <1> QED
    BY <1>6, <1>7

\* The host's own actions.
LEMMA HostKeeps ==
  ASSUME Inv,
         \/ \E n \in Names, h \in Handles : SetGlobal(n, h)
         \/ \E n \in Names : DeleteGlobal(n)
         \/ \E h \in Handles : Release(h)
         \/ \E d \in Definitions : DefineFunction(d)
  PROVE  Inv' /\ depth' = depth
  <1>1. /\ Shape /\ size \in 0 .. MaxValues /\ globals \in Bindings
        /\ defined \in [Names -> Definitions \cup {Undefined}]
    BY DEF Inv, Shape
  <1>2. ASSUME NEW n \in Names, NEW h \in Handles, SetGlobal(n, h) PROVE Inv' /\ depth' = depth
    <2>1. Idle /\ UNCHANGED <<size, defined, depth, stack, returned>>
      BY <1>2 DEF SetGlobal
    <2>2. globals' \in Bindings
      BY <1>1, <1>2 DEF SetGlobal, Bindings
    <2> QED
      BY <1>1, <2>1, <2>2, IdleStep
  <1>3. ASSUME NEW n \in Names, DeleteGlobal(n) PROVE Inv' /\ depth' = depth
    <2>1. Idle /\ UNCHANGED <<size, defined, depth, stack, returned>>
      BY <1>3 DEF DeleteGlobal
    <2>2. globals' \in Bindings
      BY <1>1, <1>3 DEF DeleteGlobal, Bindings
    <2> QED
      BY <1>1, <2>1, <2>2, IdleStep
  <1>4. ASSUME NEW h \in Handles, Release(h) PROVE Inv' /\ depth' = depth
    <2>1. Idle /\ UNCHANGED <<size, globals, defined, depth, stack, returned>>
      BY <1>4 DEF Release
    <2> QED
      BY <1>1, <2>1, IdleStep
  <1>5. ASSUME NEW d \in Definitions, DefineFunction(d) PROVE Inv' /\ depth' = depth
    <2>1. Idle /\ UNCHANGED <<depth, stack, returned>> /\ Append1(d.name)
      BY <1>5 DEF DefineFunction
    <2>2. size + 1 \in Handles /\ size' \in 0 .. MaxValues
      BY <1>1, <2>1, Appended
    <2>3. d.name \in Names
      BY FunctionFramesAssumption
    <2>4. globals' \in Bindings
      BY <1>1, <1>5, <2>2, <2>3 DEF DefineFunction, Bindings
    <2>5. defined' \in [Names -> Definitions \cup {Undefined}]
      BY <1>1, <1>5, <2>3 DEF DefineFunction
    <2> QED
      BY <2>1, <2>2, <2>4, <2>5, IdleStep
  <1> QED
    BY <1>2, <1>3, <1>4, <1>5

\* Every step keeps the invariant, and restores every global when it leaves a body.
LEMMA InvNext ==
  ASSUME Inv, [Next]_vars
  PROVE  Inv' /\ (depth' < depth => globals' = Last(stack).before)
  <1> DEFINE Goal == Inv' /\ (depth' < depth => globals' = Last(stack).before)
  <1>1. Shape /\ depth \in Nat /\ size \in 0 .. MaxValues /\ globals \in Bindings
    BY DEF Inv, Shape
  <1>2. ASSUME Inv', depth' = depth PROVE Goal
    BY <1>1, <1>2
  <1>3. CASE UNCHANGED vars
    <2>1. UNCHANGED <<size, globals, defined, depth, stack, returned>>
      BY <1>3 DEF vars, values
    <2>2. Shape'
      BY <1>1, <2>1 DEF Shape
    <2>3. UsesFit'
      BY <2>1 DEF Inv, UsesFit, Fits
    <2>4. BeforeExact' /\ DepthCounts'
      <3>1. Bodies' = Bodies
        BY <2>1 DEF Bodies
      <3> QED
        BY <2>1, <3>1, KeepBodies DEF Inv
    <2> QED
      BY <1>2, <2>1, <2>2, <2>3, <2>4 DEF Inv
  <1>4. CASE \/ \E n \in Names, h \in Handles : SetGlobal(n, h)
             \/ \E n \in Names : DeleteGlobal(n)
             \/ \E h \in Handles : Release(h)
             \/ \E d \in Definitions : DefineFunction(d)
    BY <1>2, <1>4, HostKeeps
  <1>5. ASSUME NEW use \in NextUses, NEW n \in Names, EvaluateName(n, use) PROVE Goal
    <2>1. use \in AllUses /\ Fits(use, Len(stack))
      BY <1>1, NextUsesFit
    <2>2. UNCHANGED <<stack, globals, defined, depth>> /\ size' \in 0 .. MaxValues
      BY <1>1, <1>5 DEF EvaluateName
    <2>3. CASE Valid(globals[n])
      <3>1. returned' = Returned("OK", globals[n], use) /\ globals[n] \in Handles
        BY <1>1, <1>5, <2>3 DEF EvaluateName, Valid, Bindings
      <3> QED
        BY <1>2, <2>1, <2>2, <3>1, ReturnsStep
    <2>4. CASE ~Valid(globals[n])
      <3>1. returned' = Returned("FAILED", NULL, use)
        BY <1>5, <2>4 DEF EvaluateName
      <3> QED
        BY <1>2, <2>1, <2>2, <3>1, ReturnsStep
    <2> QED
      BY <2>3, <2>4
  <1>6. ASSUME NEW use \in NextUses, NEW n \in Names, EvaluateCall(n, use) PROVE Goal
    BY <1>2, <1>6, EvaluateCallKeeps
  <1>7. ASSUME NEW use \in NextUses, EvaluateLiteral(use) PROVE Goal
    <2>1. use \in AllUses /\ Fits(use, Len(stack))
      BY <1>1, NextUsesFit
    <2>2. UNCHANGED <<stack, globals, defined, depth>> /\ returned' = Returned("OK", size + 1, use)
      BY <1>7 DEF EvaluateLiteral
    <2>3. size + 1 \in Handles /\ size' \in 0 .. MaxValues
      BY <1>1, <1>7, Appended DEF EvaluateLiteral
    <2> QED
      BY <1>2, <2>1, <2>2, <2>3, ReturnsStep
  <1>8. CASE Invoke
    <2>1. Inv' /\ depth' >= depth
      BY <1>8, InvokeKeeps
    <2>2. depth' \in Nat
      BY <2>1 DEF Inv, Shape
    <2> QED
      BY <1>1, <2>1, <2>2
  <1>9. CASE EndOfBody
    <2>1. /\ stack # <<>> /\ Last(stack).kind = "body" /\ Append1(NoName) /\ UNCHANGED defined
          /\ \E counts : LeaveBody(counts, "OK", size + 1)
      BY <1>9 DEF EndOfBody, In
    <2>2. size + 1 \in Handles /\ size' \in 0 .. MaxValues
      BY <1>1, <2>1, Appended
    <2> QED
      BY <2>1, <2>2, LeaveStep DEF LeaveBody
  <1>10. CASE CompoundStatement
    <2>1. /\ stack # <<>> /\ Last(stack).kind = "body" /\ UNCHANGED <<size, defined>>
          /\ \E counts : LeaveBody(counts, "FAILED", NULL)
      BY <1>10 DEF CompoundStatement, In
    <2> QED
      BY <1>1, <2>1, LeaveStep DEF LeaveBody
  <1>11. CASE Failed
    <2>1. returned # NoReturn /\ UNCHANGED <<size, defined>>
      BY <1>11 DEF Failed, NoReturn
    <2>2. CASE returned.use.to = "argument"
      <3>1. /\ stack' = Front(stack) /\ returned' = Returned("FAILED", NULL, Last(stack).use)
            /\ UNCHANGED <<size, globals, defined, depth>>
        BY <1>11, <2>1, <2>2 DEF Failed
      <3> QED
        BY <1>2, <2>1, <2>2, <3>1, ArgumentKeeps
    <2>3. CASE returned.use.to # "argument"
      <3>1. FailStatement(refs)
        BY <1>11, <2>3 DEF Failed
      <3> QED
        BY <2>1, <2>3, <3>1, FailStatementKeeps
    <2> QED
      BY <2>2, <2>3
  <1>12. CASE TakeArgument
    <2>1. /\ returned.status = "OK" /\ returned.use.to = "argument" /\ returned' = NoReturn
          /\ stack' = [stack EXCEPT ![Len(stack)] =
                         Call(Last(stack).name, Last(stack).use,
                              Append(Last(stack).args, returned.value))]
          /\ UNCHANGED <<size, globals, defined, depth>>
      BY <1>12 DEF TakeArgument, values
    <2>2. returned # NoReturn
      BY <2>1 DEF NoReturn
    <2> QED
      BY <1>2, <2>1, <2>2, ArgumentKeeps
  <1>13. CASE ToHost \/ DropResult
    <2>1. UNCHANGED <<size, stack, globals, defined, depth>> /\ returned' = NoReturn
      BY <1>13 DEF ToHost, DropResult
    <2> QED
      BY <1>2, <2>1, ClearedStep
  <1>14. CASE Assign
    <2>1. /\ returned.status = "OK" /\ returned.use.to = "bind" /\ returned' = NoReturn
          /\ globals' = [globals EXCEPT ![returned.use.name] = returned.value]
          /\ UNCHANGED <<size, stack, defined, depth>>
      BY <1>14 DEF Assign
    <2>2. returned # NoReturn /\ returned.value \in Handles
      BY <2>1 DEF NoReturn, Inv, Shape
    <2> QED
      BY <1>1, <1>2, <2>1, <2>2, BindStep
  <1>15. CASE Augment
    <2>1. returned.status = "OK" /\ returned.use.to = "augment" /\ UNCHANGED defined
      BY <1>15 DEF Augment
    <2>2. returned # NoReturn
      BY <2>1 DEF NoReturn
    <2>3. CASE /\ Append1(NoName) /\ returned' = NoReturn
               /\ globals' = [globals EXCEPT ![returned.use.name] = size + 1]
               /\ UNCHANGED <<depth, stack>>
      <3>1. size + 1 \in Handles /\ size' \in 0 .. MaxValues
        BY <1>1, <2>3, Appended
      <3> QED
        BY <1>2, <2>1, <2>2, <2>3, <3>1, BindStep
    <2>4. CASE FailStatement(Drop(refs, returned.value)) /\ UNCHANGED <<size, function>>
      BY <2>1, <2>2, <2>4, FailStatementKeeps
    <2> QED
      BY <1>15, <2>3, <2>4 DEF Augment
  <1>16. CASE Return
    <2>1. /\ returned.status = "OK" /\ returned.use.to = "return" /\ UNCHANGED <<size, defined>>
          /\ LeaveBody(refs, "OK", returned.value)
      BY <1>16 DEF Return
    <2>2. returned # NoReturn /\ returned.value \in Handles
      BY <2>1 DEF NoReturn, Inv, Shape
    <2>3. stack # <<>> /\ Last(stack).kind = "body"
      BY <2>1, <2>2, TopKind
    <2> QED
      BY <1>1, <2>1, <2>2, <2>3, LeaveStep DEF LeaveBody
  <1>17. CASE Next
    <2>1. CASE \/ \E n \in Names, h \in Handles : SetGlobal(n, h)
               \/ \E n \in Names : DeleteGlobal(n)
               \/ \E h \in Handles : Release(h)
               \/ \E d \in Definitions : DefineFunction(d)
      BY <1>4, <2>1
    <2>2. CASE \E use \in NextUses :
                 \/ \E n \in Names : EvaluateName(n, use) \/ EvaluateCall(n, use)
                 \/ EvaluateLiteral(use)
      <3>1. PICK use \in NextUses :
              \/ \E n \in Names : EvaluateName(n, use) \/ EvaluateCall(n, use)
              \/ EvaluateLiteral(use)
        BY <2>2
      <3>2. CASE \E n \in Names : EvaluateName(n, use) \/ EvaluateCall(n, use)
        BY ONLY <1>5, <1>6, <3>1, <3>2
      <3>3. CASE EvaluateLiteral(use)
        BY ONLY <1>7, <3>1, <3>3
      <3> QED
        BY ONLY <3>1, <3>2, <3>3
    <2>3. CASE \/ Invoke \/ EndOfBody \/ CompoundStatement
               \/ Failed \/ TakeArgument \/ ToHost \/ DropResult \/ Assign \/ Augment \/ Return
      BY ONLY <1>8, <1>9, <1>10, <1>11, <1>12, <1>13, <1>14, <1>15, <1>16, <2>3
    <2> QED
      BY ONLY Next, <2>1, <2>2, <2>3 DEF Next
  <1> QED
    BY <1>3, <1>17 DEF Goal

(***************************************************************************)
(* The theorems.                                                           *)
(***************************************************************************)
\* The inductive invariant holds in every reachable state.
THEOREM Invariant == Spec => []Inv
  <1>1. Init => Inv
    BY InvInit
  <1>2. Inv /\ [Next]_vars => Inv'
    BY InvNext
  <1> QED
    BY <1>1, <1>2, PTL DEF Spec

\* The depth counter that stops runaway recursion counts the bodies in
\* execution, for any functions, nesting and limit.
THEOREM DepthExact == Spec => []DepthCounts
  <1>1. Inv => DepthCounts
    BY DEF Inv
  <1> QED
    BY <1>1, Invariant, PTL

\* Whatever a body and the calls within it have done, and however it has
\* ended, leaving it puts every global back to what it was when it started.
THEOREM CallsRestore == Spec => CallsRestoreGlobals
  <1>1. Inv /\ [Next]_vars => [depth' < depth => globals' = Last(stack).before]_vars
    BY InvNext
  <1> QED
    BY <1>1, Invariant, PTL DEF Spec, CallsRestoreGlobals

(***************************************************************************)
(* What the stack keeps.                                                   *)
(***************************************************************************)
\* What an entry of the stack keeps alive: the arguments a call has collected,
\* or the bindings a body has saved.
Row(a) == IF a.kind = "call" THEN a.args ELSE a.saved
InStack(s, h) == Cardinality(Places(Kept(s), h))
Sized(s) == \A i \in DOMAIN s : s[i].kind = "call" => Len(s[i].args) <= MaxArgs

\* The k-th entry is a call that takes another argument.
Collecting(k) ==
  k \in DOMAIN stack /\ stack[k].kind = "call" /\ Len(stack[k].args) < MaxArgs

\* What an expression is for, when the k-th entry of the stack evaluates it: the
\* entry takes the argument, or the name that is bound exists.
Proper(use, k) ==
  /\ use.to = "argument" => Collecting(k)
  /\ use.to \in {"bind", "augment"} => use.name \in Names

\* Calls have no more arguments than they may, and every result has its place.
Room ==
  /\ Sized(stack)
  /\ \A i \in DOMAIN stack : Proper(stack[i].use, i - 1)
  /\ Proper(returned.use, Len(stack))

\* Values that do not exist yet have no references.
Unborn == \A h \in Handles : h > size => refs[h] = 0

\* The inductive invariant of the counts, on top of Inv.
Counted ==
  /\ refs \in [Handles -> Nat] /\ held \in [Handles -> Nat]
  /\ function \in [Handles -> Names \cup {NoName}]
  /\ depth <= MaxCallDepth
  /\ returned.value \in Handles \cup {NULL}
  /\ returned.status # "OK" => returned.value = NULL
  /\ Room /\ Unborn /\ OwnershipExact

\* The rows of the stack have few columns.
LEMMA RowDomain ==
  ASSUME NEW a \in Frames, a.kind = "call" => Len(a.args) <= MaxArgs
  PROVE  DOMAIN Row(a) \subseteq (1 .. MaxArgs) \cup Names
  <1>1. CASE a \in Calls
    <2>1. a.kind = "call" /\ a.args \in Seq(Handles)
      BY <1>1 DEF Calls
    <2>2. DOMAIN a.args = 1 .. Len(a.args) /\ Len(a.args) \in Nat /\ Len(a.args) <= MaxArgs
      BY <2>1, LenProperties
    <2>3. MaxArgs \in Nat
      BY FunctionFramesAssumption
    <2>4. DOMAIN a.args \subseteq 1 .. MaxArgs
      BY ONLY <2>2, <2>3
    <2> QED
      BY <2>1, <2>4 DEF Row
  <1>2. CASE a \in BodyFrames
    <2>1. a.kind = "body" /\ a.saved \in SavedBindings
      BY <1>2 DEF BodyFrames
    <2>2. DOMAIN a.saved \subseteq Names
      BY <2>1 DEF SavedBindings
    <2> QED
      BY <2>1, <2>2 DEF Row
  <1> QED
    BY <1>1, <1>2 DEF Frames

LEMMA KeptFinite ==
  ASSUME NEW s \in Seq(Frames), Sized(s), NEW h
  PROVE  /\ IsFiniteSet(Spots(Kept(s), h))
         /\ InStack(s, h) = Cardinality(Spots(Kept(s), h)) /\ InStack(s, h) \in Nat
         /\ DOMAIN Kept(s) = 1 .. Len(s) /\ Len(s) \in Nat
         /\ \A i \in 1 .. Len(s) : Kept(s)[i] = Row(s[i])
  <1> DEFINE rows == Kept(s)
             K == (1 .. MaxArgs) \cup Names
  <1>1. DOMAIN s = 1 .. Len(s) /\ Len(s) \in Nat
    BY LenProperties
  <1>2. rows = [i \in 1 .. Len(s) |-> Row(s[i])]
    BY <1>1 DEF Kept, Row
  <1>3. DOMAIN rows = 1 .. Len(s) /\ \A i \in 1 .. Len(s) : rows[i] = Row(s[i])
    BY ONLY <1>2
  <1>4. IsFiniteSet(DOMAIN rows)
    <2>1. 1 \in Int /\ Len(s) \in Int
      BY <1>1
    <2> QED
      BY <1>3, <2>1, FS_Interval
  <1>5. IsFiniteSet(K)
    <2>1. 1 \in Int /\ MaxArgs \in Int /\ IsFiniteSet(Names)
      BY FunctionFramesAssumption
    <2> QED
      BY <2>1, FS_Interval, FS_Union
  <1>6. \A i \in DOMAIN rows : DOMAIN rows[i] \subseteq K
    <2> SUFFICES ASSUME NEW i \in 1 .. Len(s) PROVE DOMAIN Row(s[i]) \subseteq K
      BY <1>3
    <2>1. s[i] \in Frames
      BY <1>1, ElementOfSeq
    <2>2. s[i].kind = "call" => Len(s[i].args) <= MaxArgs
      BY <1>1 DEF Sized
    <2> QED
      BY <2>1, <2>2, RowDomain
  <1> HIDE DEF rows, K
  <1>7. IsFiniteSet(Spots(rows, h)) /\ Cardinality(Spots(rows, h)) \in Nat
    BY <1>4, <1>5, <1>6, SpotsFinite
  <1>8. InStack(s, h) = Cardinality(Spots(rows, h))
    BY DEF InStack, Places, Spots, rows
  <1> QED
    BY <1>1, <1>3, <1>7, <1>8 DEF rows

\* One entry more keeps what it keeps more.
LEMMA KeptGrows ==
  ASSUME NEW less \in Seq(Frames), NEW more \in Seq(Frames), Sized(more),
         Len(more) = Len(less) + 1, \A i \in 1 .. Len(less) : more[i] = less[i], NEW h
  PROVE  /\ InRow(Row(more[Len(more)]), h) \in Nat
         /\ InStack(less, h) \in Nat /\ InStack(more, h) \in Nat
         /\ InStack(more, h) = InStack(less, h) + InRow(Row(more[Len(more)]), h)
  <1> DEFINE L == Kept(less)
             M == Kept(more)
             c == Len(more)
  <1>1. Sized(less)
    <2>1. DOMAIN less = 1 .. Len(less) /\ DOMAIN more = 1 .. Len(more) /\ Len(less) \in Nat
      BY LenProperties
    <2> QED
      BY <2>1 DEF Sized
  <1>2. /\ IsFiniteSet(Spots(M, h)) /\ InStack(more, h) = Cardinality(Spots(M, h))
        /\ InStack(more, h) \in Nat
        /\ DOMAIN M = 1 .. c /\ c \in Nat /\ \A i \in 1 .. c : M[i] = Row(more[i])
    BY KeptFinite
  <1>3. /\ InStack(less, h) = Cardinality(Spots(L, h)) /\ InStack(less, h) \in Nat
        /\ DOMAIN L = 1 .. Len(less) /\ Len(less) \in Nat
        /\ \A i \in 1 .. Len(less) : L[i] = Row(less[i])
    BY <1>1, KeptFinite
  <1>4. c = Len(less) + 1
    OBVIOUS
  <1> HIDE DEF L, M, c
  <1>5. c \in DOMAIN M /\ DOMAIN L = DOMAIN M \ {c}
    BY <1>2, <1>3, <1>4
  <1>6. \A i \in DOMAIN L : L[i] = M[i]
    BY <1>2, <1>3, <1>4
  <1>7. /\ InRow(M[c], h) \in Nat
        /\ Cardinality(Spots(M, h)) = Cardinality(Spots(L, h)) + InRow(M[c], h)
    <2>1. IsFiniteSet(Spots(M, h))
      BY <1>2
    <2> QED
      BY ONLY <1>5, <1>6, <2>1, SpotsAdd
  <1>8. M[c] = Row(more[c])
    BY <1>2, <1>5
  <1> QED
    BY <1>2, <1>3, <1>7, <1>8 DEF c

(***************************************************************************)
(* The owners of a value.                                                  *)
(***************************************************************************)
InGlobals(h) == Bound(globals, Names, h)
OnWay(h) == IF returned.value = h THEN 1 ELSE 0
Owned(h) == held[h] + InGlobals(h) + InStack(stack, h) + OnWay(h)

\* The names that are bound to a value are those among some names and those
\* among the others.
LEMMA BoundFacts ==
  ASSUME NEW f, NEW D \in SUBSET Names, NEW h
  PROVE  /\ Bound(f, Names, h) \in Nat /\ Bound(f, D, h) \in Nat /\ Bound(f, Names \ D, h) \in Nat
         /\ Bound(f, Names, h) = Bound(f, D, h) + Bound(f, Names \ D, h)
  <1> DEFINE A == {n \in D : f[n] = h}
             B == {n \in Names \ D : f[n] = h}
             C == {n \in Names : f[n] = h}
  <1>1. IsFiniteSet(A) /\ IsFiniteSet(B) /\ A \cap B = {} /\ C = A \cup B
    BY FunctionFramesAssumption, FS_Subset
  <1> HIDE DEF A, B, C
  <1>2. Cardinality(A) \in Nat /\ Cardinality(B) \in Nat
    BY <1>1, FS_CardinalityType
  <1>3. Cardinality(A \cup B) = Cardinality(A) + Cardinality(B) - Cardinality(A \cap B)
    BY <1>1, FS_Union
  <1>4. Cardinality(A \cap B) = 0
    BY <1>1, FS_EmptySet
  <1>5. Cardinality(C) = Cardinality(A) + Cardinality(B)
    BY <1>1, <1>2, <1>3, <1>4
  <1>6. /\ Bound(f, Names, h) = Cardinality(C) /\ Bound(f, D, h) = Cardinality(A)
        /\ Bound(f, Names \ D, h) = Cardinality(B)
    BY DEF Bound, A, B, C
  <1> QED
    BY <1>2, <1>5, <1>6

LEMMA GlobalCount ==
  ASSUME NEW h
  PROVE  InGlobals(h) \in Nat /\ InGlobals(h)' \in Nat
  <1>1. InGlobals(h) \in Nat
    BY BoundFacts DEF InGlobals
  <1>2. InGlobals(h)' \in Nat
    BY BoundFacts DEF InGlobals
  <1> QED
    BY <1>1, <1>2

\* A write to one global moves its owner's count from the old value to the new.
LEMMA GlobalWrite ==
  ASSUME NEW n \in Names, \A m \in Names \ {n} : globals'[m] = globals[m], NEW h \in Handles
  PROVE  InGlobals(h)' + (IF globals[n] = h THEN 1 ELSE 0) =
           InGlobals(h) + (IF globals'[n] = h THEN 1 ELSE 0)
  <1>1. IsFiniteSet(Names)
    BY FunctionFramesAssumption
  <1>2. \A m \in Names \ {n} : globals'[m] = globals[m]
    OBVIOUS
  <1> DEFINE before == Holders(Names, globals, h)
             after == Holders(Names, globals', h)
  <1>3. Cardinality(before) + (IF globals'[n] = h THEN 1 ELSE 0) =
          Cardinality(after) + (IF globals[n] = h THEN 1 ELSE 0)
    BY ONLY <1>1, <1>2, n \in Names, CellWrite DEF before, after
  <1>4. /\ InGlobals(h) = Cardinality(Holders(Names, globals, h))
        /\ InGlobals(h)' = Cardinality(Holders(Names, globals', h))
    BY DEF InGlobals, Bound, Holders
  <1> QED
    BY <1>3, <1>4

\* The counts of a value's owners, and that each of them keeps it alive.
LEMMA OwnerFacts ==
  ASSUME Inv, Counted, NEW h \in Handles
  PROVE  /\ refs[h] \in Nat /\ held[h] \in Nat /\ InGlobals(h) \in Nat
         /\ InStack(stack, h) \in Nat /\ OnWay(h) \in {0, 1}
         /\ refs[h] = held[h] + InGlobals(h) + InStack(stack, h) + OnWay(h)
         /\ \A n \in Names : globals[n] = h => InGlobals(h) > 0
  <1>1. refs[h] \in Nat /\ held[h] \in Nat
    BY DEF Counted
  <1>2. InGlobals(h) \in Nat
    BY BoundFacts DEF InGlobals
  <1>3. InStack(stack, h) \in Nat
    BY KeptFinite DEF Inv, Shape, Counted, Room
  <1>4. OnWay(h) \in {0, 1}
    BY DEF OnWay
  <1>5. refs[h] = held[h] + InGlobals(h) + InStack(stack, h) + OnWay(h)
    BY DEF Counted, OwnershipExact, InGlobals, InStack, OnWay
  <1>6. ASSUME NEW n \in Names, globals[n] = h PROVE InGlobals(h) > 0
    <2> DEFINE A == {m \in Names : globals[m] = h}
    <2>1. IsFiniteSet(A) /\ n \in A
      BY <1>6, FunctionFramesAssumption, FS_Subset
    <2> HIDE DEF A
    <2>2. Cardinality(A) > 0
      BY <2>1, CountUpdate
    <2> QED
      BY <2>2 DEF A, InGlobals, Bound
  <1> QED
    BY <1>1, <1>2, <1>3, <1>4, <1>5, <1>6

\* A value that does not exist yet has no owner.
LEMMA NoOwner ==
  ASSUME Inv, Counted, NEW h \in Handles, h > size
  PROVE  /\ refs[h] = 0 /\ held[h] = 0 /\ InGlobals(h) = 0 /\ InStack(stack, h) = 0
         /\ OnWay(h) = 0 /\ returned.value # h /\ \A n \in Names : globals[n] # h
  <1>1. /\ held[h] \in Nat /\ InGlobals(h) \in Nat /\ InStack(stack, h) \in Nat /\ OnWay(h) \in {0, 1}
        /\ refs[h] = held[h] + InGlobals(h) + InStack(stack, h) + OnWay(h)
        /\ \A n \in Names : globals[n] = h => InGlobals(h) > 0
    BY OwnerFacts
  <1>2. refs[h] = 0
    BY DEF Counted, Unborn
  <1>3. held[h] = 0 /\ InGlobals(h) = 0 /\ InStack(stack, h) = 0 /\ OnWay(h) = 0
    <2> DEFINE a == held[h]  b == InGlobals(h)  c == InStack(stack, h)  d == OnWay(h)
    <2>1. a \in Nat /\ b \in Nat /\ c \in Nat /\ d \in {0, 1} /\ 0 = a + b + c + d
      BY <1>1, <1>2
    <2> HIDE DEF a, b, c, d
    <2>2. a = 0 /\ b = 0 /\ c = 0 /\ d = 0
      BY ONLY <2>1
    <2> QED
      BY <2>2 DEF a, b, c, d
  <1> QED
    BY <1>1, <1>2, <1>3 DEF OnWay

\* A new value has one reference.
LEMMA FreshFacts ==
  ASSUME Inv, Counted, size < MaxValues, NEW f \in [Handles -> Nat], f[size + 1] = 0
  PROVE  /\ size + 1 \in Handles /\ size \in Nat
         /\ [f EXCEPT ![size + 1] = 1] \in [Handles -> Nat]
         /\ \A h \in Handles :
              [f EXCEPT ![size + 1] = 1][h] = f[h] + (IF h = size + 1 THEN 1 ELSE 0)
  <1>1. size \in 0 .. MaxValues /\ MaxValues \in Nat
    BY FunctionFramesAssumption DEF Inv, Shape
  <1>2. size + 1 \in Handles /\ size \in Nat
    BY <1>1
  <1> QED
    BY <1>2

\* Releases and retains of one reference.
LEMMA DropNone ==
  ASSUME NEW f \in [Handles -> Nat], NEW h \in Handles \cup {NULL},
         NEW k \in Handles, f[k] = 0
  PROVE  Drop(f, h)[k] = 0
  BY DEF Drop

LEMMA DropFacts ==
  ASSUME NEW f \in [Handles -> Nat], NEW h \in Handles \cup {NULL}
  PROVE  /\ Drop(f, h) \in [Handles -> Nat]
         /\ (h # NULL => f[h] > 0) =>
              \A k \in Handles : Drop(f, h)[k] = f[k] - (IF k = h THEN 1 ELSE 0)
  BY DEF Drop

LEMMA KeepFacts ==
  ASSUME NEW f \in [Handles -> Nat], NEW h \in Handles
  PROVE  /\ Keep(f, h) \in [Handles -> Nat]
         /\ \A k \in Handles : Keep(f, h)[k] = f[k] + (IF k = h THEN 1 ELSE 0)
  BY DEF Keep

LEMMA DropAllFacts ==
  ASSUME NEW f \in [Handles -> Nat], NEW args, \A h \in Handles : Occurrences(args, h) \in Nat
  PROVE  /\ DropAll(f, args) \in [Handles -> Nat]
         /\ \A h \in Handles :
              f[h] >= Occurrences(args, h) => DropAll(f, args)[h] = f[h] - Occurrences(args, h)
  BY DEF DropAll

\* What the arguments of a call, or the bindings of a body, count of a value.
LEMMA RowCounts ==
  ASSUME NEW a \in Frames, NEW h
  PROVE  /\ a.kind = "call" => InRow(Row(a), h) = Occurrences(a.args, h)
         /\ a.kind = "body" => InRow(Row(a), h) = Bound(a.saved, DOMAIN a.saved, h)
  BY DEF Row, InRow, Occurrences, Bound

(***************************************************************************)
(* Room for arguments.                                                     *)
(***************************************************************************)
\* The stack keeps its first k entries and may lose, get or change one more.
LEMMA RoomStep ==
  ASSUME Inv, Room, NEW k \in Nat, stack' \in Seq(Frames),
         Len(stack) \in {k, k + 1}, Len(stack') \in {k, k + 1},
         \A i \in 1 .. k : stack'[i] = stack[i],
         Len(stack') = k + 1 =>
           /\ stack'[k + 1].kind = "call" => Len(stack'[k + 1].args) <= MaxArgs
           /\ Proper(stack'[k + 1].use, k),
         returned' = NoReturn \/ (Len(stack') = k /\ Proper(returned'.use, k))
  PROVE  Room'
  <1>1. DOMAIN stack = 1 .. Len(stack) /\ DOMAIN stack' = 1 .. Len(stack')
    BY LenProperties DEF Inv, Shape
  <1>2. \A i \in 1 .. k : i \in DOMAIN stack /\ i \in DOMAIN stack'
    <2>1. \A m \in {k, k + 1} : \A i \in 1 .. k : i \in 1 .. m
      BY ONLY k \in Nat
    <2> QED
      BY <1>1, <2>1
  <1>3. \A i \in DOMAIN stack' : i \in 1 .. k \/ (i = k + 1 /\ Len(stack') = k + 1)
    <2>1. \A m \in {k, k + 1} : \A i \in 1 .. m : i \in 1 .. k \/ (i = k + 1 /\ m = k + 1)
      BY ONLY k \in Nat
    <2> QED
      BY <1>1, <2>1
  <1>4. Sized(stack')
    BY <1>2, <1>3 DEF Sized, Room
  <1>5. ASSUME NEW j \in 0 .. k, Collecting(j)
        PROVE  Collecting(j)'
    <2>1. j \in DOMAIN stack
      BY <1>5 DEF Collecting
    <2>2. j \in 1 .. k
      <3>1. j # 0
        <4>1. \A m \in {k, k + 1} : 0 \notin 1 .. m
          BY ONLY k \in Nat
        <4> QED
          BY <1>1, <2>1, <4>1
      <3> QED
        BY ONLY <3>1, j \in 0 .. k, k \in Nat
    <2> QED
      BY <1>2, <1>5, <2>1, <2>2 DEF Collecting
  <1>6. ASSUME NEW i \in DOMAIN stack'
        PROVE  Proper(stack[i].use, i - 1)'
    <2>1. CASE i \in 1 .. k
      <3>1. Proper(stack[i].use, i - 1)
        BY <1>2, <2>1 DEF Room
      <3>2. i - 1 \in 0 .. k
        BY <2>1
      <3> QED
        BY <1>5, <2>1, <3>1, <3>2 DEF Proper
    <2>2. CASE i = k + 1 /\ Len(stack') = k + 1
      <3>1. Proper(stack'[i].use, k)
        BY <2>2
      <3>2. i - 1 = k /\ k \in 0 .. k
        BY <2>2
      <3> QED
        BY <1>5, <3>1, <3>2 DEF Proper
    <2> QED
      BY <1>3, <2>1, <2>2
  <1>7. Proper(returned.use, Len(stack))'
    <2>1. k \in 0 .. k
      OBVIOUS
    <2> QED
      BY <1>5, <2>1 DEF Proper, NoReturn, Use
  <1> QED
    BY <1>4, <1>6, <1>7 DEF Room

\* An expression is for an argument only where a call has room for it, and binds
\* only names that exist.
LEMMA NextUsesProper ==
  ASSUME Inv, NEW use \in NextUses
  PROVE  Proper(use, Len(stack))
  <1>1. ASSUME use.to = "argument" PROVE Collecting(Len(stack))
    <2>1. stack # <<>>
      BY <1>1 DEF NextUses, Use
    <2>2. Len(stack) \in DOMAIN stack /\ Last(stack) = stack[Len(stack)]
      BY <2>1, TopFacts DEF Inv, Shape
    <2>3. Last(stack).kind = "call"
      BY <1>1, <2>1 DEF NextUses, Use
    <2>4. Len(Last(stack).args) < MaxArgs
      BY <2>1, <2>3 DEF NextUses
    <2> QED
      BY <2>2, <2>3, <2>4 DEF Collecting
  <1>2. ASSUME use.to \in {"bind", "augment"} PROVE use.name \in Names
    <2>1. CASE stack = <<>>
      BY <1>2, <2>1 DEF NextUses, Use
    <2>2. CASE stack # <<>>
      <3>1. PICK m \in DOMAIN stack : Last(stack) = stack[m]
        BY <2>2, TopFacts DEF Inv, Shape
      <3>2. Last(stack).kind # "call"
        BY <1>2, <2>2 DEF NextUses, Use
      <3>3. use \in {Plain("drop"), Plain("return")}
                   \cup {Use(to, n) : to \in {"bind", "augment"}, n \in Locals(defined[Last(stack).name])}
        BY <2>2, <3>2 DEF NextUses
      <3>4. use.name \in Locals(defined[Last(stack).name])
        BY <1>2, <3>3 DEF Use
      <3>5. stack[m].kind = "body" /\ stack[m].saved \in SavedBindings
        BY <3>1, <3>2, EntryFacts DEF Inv
      <3>6. DOMAIN stack[m].saved = Locals(defined[stack[m].name])
        BY <3>5 DEF Inv, Shape
      <3> QED
        BY <3>1, <3>4, <3>5, <3>6 DEF SavedBindings
    <2> QED
      BY <2>1, <2>2
  <1> QED
    BY <1>1, <1>2 DEF Proper

\* The stack stays as it is.
LEMMA RoomStays ==
  ASSUME Room, UNCHANGED stack, Proper(returned'.use, Len(stack))
  PROVE  Room'
  BY DEF Room, Sized, Collecting, Proper

\* What a step on an unchanged stack has to show of the counts.
LEMMA StayStep ==
  ASSUME Inv, Counted, UNCHANGED <<stack, depth>>,
         refs' \in [Handles -> Nat], held' \in [Handles -> Nat],
         function' \in [Handles -> Names \cup {NoName}],
         \/ returned' = NoReturn
         \/ \E use : /\ Proper(use, Len(stack))
                     /\ \/ \E v \in Handles : returned' = Returned("OK", v, use)
                        \/ returned' = Returned("FAILED", NULL, use),
         Unborn',
         \A h \in Handles : refs[h] = Owned(h) =>
           refs'[h] + (held[h] + InGlobals(h) + OnWay(h)) =
             refs[h] + (held'[h] + InGlobals(h)' + OnWay(h)')
  PROVE  Counted'
  <1>1. /\ returned'.value \in Handles \cup {NULL}
        /\ returned'.status # "OK" => returned'.value = NULL
        /\ Proper(returned'.use, Len(stack))
    BY DEF NoReturn, Use, Proper
  <1>2. Room'
    BY <1>1, RoomStays DEF Counted
  <1>3. OwnershipExact'
    <2> SUFFICES ASSUME NEW h \in Handles
                 PROVE  refs'[h] = held'[h] + InGlobals(h)' + InStack(stack, h)' + OnWay(h)'
      BY DEF OwnershipExact, InGlobals, InStack, OnWay
    <2>1. /\ refs[h] \in Nat /\ held[h] \in Nat /\ InGlobals(h) \in Nat
          /\ InStack(stack, h) \in Nat /\ OnWay(h) \in {0, 1}
          /\ refs[h] = held[h] + InGlobals(h) + InStack(stack, h) + OnWay(h)
      BY OwnerFacts
    <2>2. refs'[h] \in Nat /\ held'[h] \in Nat /\ OnWay(h)' \in {0, 1}
      BY DEF OnWay
    <2>3. InGlobals(h)' \in Nat
      BY BoundFacts DEF InGlobals
    <2>4. InStack(stack, h)' = InStack(stack, h)
      BY DEF InStack
    <2>5. refs'[h] + (held[h] + InGlobals(h) + OnWay(h)) =
            refs[h] + (held'[h] + InGlobals(h)' + OnWay(h)')
      BY <2>1 DEF Owned
    <2> DEFINE r == refs[h]  rr == refs'[h]  e == held[h]  ee == held'[h]
               g == InGlobals(h)  gg == InGlobals(h)'  s == InStack(stack, h)
               w == OnWay(h)  ww == OnWay(h)'
    <2>6. r \in Nat /\ e \in Nat /\ g \in Nat /\ s \in Nat /\ w \in {0, 1}
      BY <2>1
    <2>7. rr \in Nat /\ ee \in Nat /\ gg \in Nat /\ ww \in {0, 1}
      BY <2>2, <2>3
    <2>8. r = e + g + s + w
      BY <2>1
    <2>9. rr + (e + g + w) = r + (ee + gg + ww)
      BY ONLY <2>5
    <2> HIDE DEF r, rr, e, ee, g, gg, s, w, ww
    <2>10. rr = ee + gg + s + ww
      BY ONLY <2>6, <2>7, <2>8, <2>9
    <2> QED
      BY <2>4, <2>10 DEF rr, ee, gg, s, ww
  <1> QED
    BY <1>1, <1>2, <1>3 DEF Counted

(***************************************************************************)
(* Steps of the host.                                                      *)
(***************************************************************************)
\* What a name is bound to is alive.
LEMMA BoundAlive ==
  ASSUME Inv, Counted, NEW n \in Names
  PROVE  globals[n] \in Handles \cup {NULL} /\ (globals[n] # NULL => refs[globals[n]] > 0)
  <1>1. globals[n] \in Handles \cup {NULL}
    BY DEF Inv, Shape, Bindings
  <1>2. ASSUME NEW h \in Handles, globals[n] = h PROVE refs[h] > 0
    <2>1. /\ held[h] \in Nat /\ InGlobals(h) \in Nat /\ InStack(stack, h) \in Nat /\ OnWay(h) \in {0, 1}
          /\ refs[h] = held[h] + InGlobals(h) + InStack(stack, h) + OnWay(h) /\ InGlobals(h) > 0
      BY <1>2, OwnerFacts
    <2> DEFINE a == held[h]  b == InGlobals(h)  c == InStack(stack, h)  d == OnWay(h)
    <2>2. a \in Nat /\ b \in Nat /\ c \in Nat /\ d \in {0, 1} /\ b > 0 /\ refs[h] = a + b + c + d
      BY <2>1
    <2> HIDE DEF a, b, c, d
    <2> QED
      BY ONLY <2>2
  <1> QED
    BY <1>1, <1>2

LEMMA SetGlobalCounts ==
  ASSUME Inv, Counted, NEW n \in Names, NEW x \in Handles, SetGlobal(n, x)
  PROVE  Counted'
  <1>1. /\ Idle /\ refs[x] > 0 /\ refs' = Drop(Keep(refs, x), globals[n])
        /\ globals' = [globals EXCEPT ![n] = x]
        /\ UNCHANGED <<size, function, depth, stack, returned, held>> /\ returned = NoReturn
    BY DEF SetGlobal, Valid, Idle
  <1>2. refs \in [Handles -> Nat] /\ held \in [Handles -> Nat] /\ globals \in Bindings
        /\ function \in [Handles -> Names \cup {NoName}]
    BY DEF Counted, Inv, Shape
  <1>3. globals[n] \in Handles \cup {NULL} /\ (globals[n] # NULL => refs[globals[n]] > 0)
    BY BoundAlive
  <1>4. /\ Keep(refs, x) \in [Handles -> Nat]
        /\ \A k \in Handles : Keep(refs, x)[k] = refs[k] + (IF k = x THEN 1 ELSE 0)
    BY <1>2, KeepFacts
  <1> DEFINE f == Keep(refs, x)
             v == globals[n]
  <1>5. /\ f \in [Handles -> Nat] /\ v \in Handles \cup {NULL} /\ (v # NULL => f[v] > 0)
        /\ refs' = Drop(f, v) /\ \A k \in Handles : refs[k] = 0 => f[k] = 0
    BY <1>1, <1>2, <1>3, <1>4
  <1> HIDE DEF f, v
  <1>6. /\ refs' \in [Handles -> Nat]
        /\ \A k \in Handles : refs'[k] = f[k] - (IF k = v THEN 1 ELSE 0)
    BY <1>5, DropFacts
  <1>7. Unborn'
    <2> SUFFICES ASSUME NEW h \in Handles, h > size PROVE refs'[h] = 0
      BY <1>1 DEF Unborn
    <2>1. refs[h] = 0
      BY DEF Unborn, Counted
    <2>2. f[h] = 0
      BY <1>1, <1>4, <2>1 DEF f
    <2> QED
      BY <1>5, <2>2, DropNone
  <1>8. ASSUME NEW h \in Handles
        PROVE  refs'[h] + (held[h] + InGlobals(h) + OnWay(h)) =
                 refs[h] + (held'[h] + InGlobals(h)' + OnWay(h)')
    <2>0. InGlobals(h) \in Nat /\ InGlobals(h)' \in Nat
      BY GlobalCount
    <2>1. InGlobals(h)' + (IF globals[n] = h THEN 1 ELSE 0) = InGlobals(h) + (IF x = h THEN 1 ELSE 0)
      <3>1. globals \in Bindings /\ globals' = [globals EXCEPT ![n] = x] /\ n \in Names
        BY <1>1, <1>2
      <3>2. globals'[n] = x /\ \A m \in Names \ {n} : globals'[m] = globals[m]
        BY ONLY <3>1 DEF Bindings
      <3>3. InGlobals(h)' + (IF globals[n] = h THEN 1 ELSE 0) =
              InGlobals(h) + (IF globals'[n] = h THEN 1 ELSE 0)
        BY ONLY <3>1, <3>2, h \in Handles, GlobalWrite
      <3> QED
        BY ONLY <3>2, <3>3
    <2>2. refs'[h] = refs[h] + (IF h = x THEN 1 ELSE 0) - (IF h = globals[n] THEN 1 ELSE 0)
      <3>1. f[h] = refs[h] + (IF h = x THEN 1 ELSE 0)
        BY <1>4 DEF f
      <3>2. refs'[h] = f[h] - (IF h = globals[n] THEN 1 ELSE 0)
        BY <1>6 DEF v
      <3>3. refs[h] \in Nat
        BY <1>2
      <3> QED
        BY ONLY <3>1, <3>2, <3>3
    <2>3. held' = held /\ OnWay(h)' = OnWay(h) /\ OnWay(h) \in {0, 1} /\ held[h] \in Nat
          /\ refs[h] \in Nat /\ refs'[h] \in Nat
      BY <1>1, <1>2, <1>6 DEF OnWay
    <2> QED
      BY <2>0, <2>1, <2>2, <2>3
  <1> QED
    BY <1>1, <1>2, <1>6, <1>7, <1>8, StayStep

LEMMA DeleteGlobalCounts ==
  ASSUME Inv, Counted, NEW n \in Names, DeleteGlobal(n)
  PROVE  Counted'
  <1>1. /\ refs' = Drop(refs, globals[n]) /\ globals[n] # NULL
        /\ globals' = [globals EXCEPT ![n] = NULL]
        /\ UNCHANGED <<size, function, depth, stack, returned, held>> /\ returned = NoReturn
    BY DEF DeleteGlobal, Idle
  <1>2. refs \in [Handles -> Nat] /\ held \in [Handles -> Nat] /\ globals \in Bindings
        /\ function \in [Handles -> Names \cup {NoName}]
    BY DEF Counted, Inv, Shape
  <1>3. globals[n] \in Handles \cup {NULL} /\ refs[globals[n]] > 0
    BY <1>1, BoundAlive
  <1>4. /\ refs' \in [Handles -> Nat]
        /\ \A k \in Handles : refs'[k] = refs[k] - (IF k = globals[n] THEN 1 ELSE 0)
    BY <1>1, <1>2, <1>3, DropFacts
  <1>5. Unborn'
    <2> SUFFICES ASSUME NEW h \in Handles, h > size PROVE refs'[h] = 0
      BY <1>1 DEF Unborn
    <2>1. refs[h] = 0
      BY DEF Unborn, Counted
    <2> QED
      BY <1>1, <1>2, <1>3, <2>1, DropNone
  <1>6. ASSUME NEW h \in Handles
        PROVE  refs'[h] + (held[h] + InGlobals(h) + OnWay(h)) =
                 refs[h] + (held'[h] + InGlobals(h)' + OnWay(h)')
    <2>0. InGlobals(h) \in Nat /\ InGlobals(h)' \in Nat
      BY GlobalCount
    <2>1. InGlobals(h)' + (IF globals[n] = h THEN 1 ELSE 0) = InGlobals(h) + (IF NULL = h THEN 1 ELSE 0)
      <3>1. globals \in Bindings /\ globals' = [globals EXCEPT ![n] = NULL] /\ n \in Names
        BY <1>1, <1>2
      <3>2. globals'[n] = NULL /\ \A m \in Names \ {n} : globals'[m] = globals[m]
        BY ONLY <3>1 DEF Bindings
      <3>3. InGlobals(h)' + (IF globals[n] = h THEN 1 ELSE 0) =
              InGlobals(h) + (IF globals'[n] = h THEN 1 ELSE 0)
        BY ONLY <3>1, <3>2, h \in Handles, GlobalWrite
      <3> QED
        BY ONLY <3>2, <3>3
    <2>2. held' = held /\ OnWay(h)' = OnWay(h) /\ OnWay(h) \in {0, 1} /\ held[h] \in Nat
          /\ refs[h] \in Nat /\ refs'[h] \in Nat
      BY <1>1, <1>2, <1>4 DEF OnWay
    <2>3. NULL # h
      OBVIOUS
    <2>4. refs'[h] = refs[h] - (IF h = globals[n] THEN 1 ELSE 0)
      BY <1>4
    <2>5. held'[h] = held[h]
      BY <2>2
    <2>6. held[h] \in Nat /\ refs[h] \in Nat /\ OnWay(h)' = OnWay(h) /\ OnWay(h) \in {0, 1}
      BY <2>2
    <2>7. InGlobals(h)' + (IF globals[n] = h THEN 1 ELSE 0) = InGlobals(h)
      BY <2>0, <2>1, <2>3
    <2> QED
      BY ONLY <2>0, <2>4, <2>5, <2>6, <2>7
  <1> QED
    BY <1>1, <1>2, <1>4, <1>5, <1>6, StayStep

LEMMA ReleaseCounts ==
  ASSUME Inv, Counted, NEW x \in Handles, Release(x)
  PROVE  Counted'
  <1>1. /\ refs' = Drop(refs, x) /\ held[x] > 0 /\ held' = [held EXCEPT ![x] = @ - 1]
        /\ UNCHANGED <<size, function, globals, depth, stack, returned>> /\ returned = NoReturn
    BY DEF Release, Idle
  <1>2. refs \in [Handles -> Nat] /\ held \in [Handles -> Nat]
        /\ function \in [Handles -> Names \cup {NoName}]
    BY DEF Counted
  <1>3. refs[x] > 0
    <2>1. /\ held[x] \in Nat /\ InGlobals(x) \in Nat /\ InStack(stack, x) \in Nat /\ OnWay(x) \in {0, 1}
          /\ refs[x] = held[x] + InGlobals(x) + InStack(stack, x) + OnWay(x)
      BY OwnerFacts
    <2> DEFINE a == held[x]  b == InGlobals(x)  c == InStack(stack, x)  d == OnWay(x)
    <2>2. a \in Nat /\ b \in Nat /\ c \in Nat /\ d \in {0, 1} /\ a > 0 /\ refs[x] = a + b + c + d
      BY <1>1, <2>1
    <2> HIDE DEF a, b, c, d
    <2> QED
      BY ONLY <2>2
  <1>4. /\ refs' \in [Handles -> Nat]
        /\ \A k \in Handles : refs'[k] = refs[k] - (IF k = x THEN 1 ELSE 0)
    BY <1>1, <1>2, <1>3, DropFacts
  <1>5. Unborn'
    <2> SUFFICES ASSUME NEW h \in Handles, h > size PROVE refs'[h] = 0
      BY <1>1 DEF Unborn
    <2>1. refs[h] = 0
      BY DEF Unborn, Counted
    <2> QED
      BY <1>1, <1>2, <2>1, DropNone
  <1>6. held' \in [Handles -> Nat]
    BY <1>1, <1>2
  <1>7. ASSUME NEW h \in Handles
        PROVE  refs'[h] + (held[h] + InGlobals(h) + OnWay(h)) =
                 refs[h] + (held'[h] + InGlobals(h)' + OnWay(h)')
    <2>1. InGlobals(h) \in Nat
      BY BoundFacts DEF InGlobals
    <2>0. InGlobals(h)' = InGlobals(h)
      BY <1>1 DEF InGlobals, Bound
    <2>2. OnWay(h)' = OnWay(h) /\ OnWay(h) \in {0, 1} /\ held[h] \in Nat
          /\ refs[h] \in Nat /\ refs'[h] \in Nat
      BY <1>1, <1>2, <1>4 DEF OnWay
    <2>3. held'[h] = held[h] - (IF h = x THEN 1 ELSE 0)
      BY <1>1, <1>2
    <2> QED
      BY <1>4, <2>0, <2>1, <2>2, <2>3
  <1> QED
    BY <1>1, <1>2, <1>4, <1>5, <1>6, <1>7, StayStep

LEMMA DefineFunctionCounts ==
  ASSUME Inv, Counted, NEW d \in Definitions, DefineFunction(d)
  PROVE  Counted'
  <1> DEFINE n == d.name
             new == size + 1
             f == [refs EXCEPT ![size + 1] = 1]
             v == globals[n]
  <1>1. /\ size < MaxValues /\ size' = size + 1 /\ function' = [function EXCEPT ![size + 1] = n]
        /\ refs' = Drop(f, v) /\ globals' = [globals EXCEPT ![n] = new]
        /\ UNCHANGED <<depth, stack, returned, held>> /\ returned = NoReturn
    BY DEF DefineFunction, Append1, Idle
  <1>2. n \in Names
    BY FunctionFramesAssumption
  <1>3. refs \in [Handles -> Nat] /\ held \in [Handles -> Nat] /\ globals \in Bindings
        /\ function \in [Handles -> Names \cup {NoName}]
    BY DEF Counted, Inv, Shape
  <1>4. new \in Handles /\ new > size /\ size \in Nat
    BY <1>1, FunctionFramesAssumption DEF Inv, Shape
  <1>5. refs[new] = 0
    BY <1>4 DEF Counted, Unborn
  <1>6. /\ f \in [Handles -> Nat]
        /\ \A h \in Handles : f[h] = refs[h] + (IF h = new THEN 1 ELSE 0)
    BY <1>1, <1>3, <1>5, FreshFacts
  <1>7. v \in Handles \cup {NULL} /\ (v # NULL => refs[v] > 0)
    BY <1>2, BoundAlive
  <1>8. v # NULL => f[v] > 0
    BY <1>3, <1>6, <1>7
  <1>9. function' \in [Handles -> Names \cup {NoName}]
    BY <1>1, <1>2, <1>3
  <1> HIDE DEF f, v, new, n
  <1>10. /\ refs' \in [Handles -> Nat]
         /\ \A k \in Handles : refs'[k] = f[k] - (IF k = v THEN 1 ELSE 0)
    BY <1>1, <1>6, <1>7, <1>8, DropFacts
  <1>11. Unborn'
    <2> SUFFICES ASSUME NEW h \in Handles, h > size + 1 PROVE refs'[h] = 0
      BY <1>1 DEF Unborn
    <2>1. h > size /\ h # size + 1
      BY <1>4
    <2>2. refs[h] = 0
      BY <2>1 DEF Counted, Unborn
    <2>3. f[h] = 0
      BY <1>6, <2>1, <2>2 DEF new
    <2> QED
      BY <1>1, <1>6, <1>7, <2>3, DropNone
  <1>12. ASSUME NEW h \in Handles
         PROVE  refs'[h] + (held[h] + InGlobals(h) + OnWay(h)) =
                  refs[h] + (held'[h] + InGlobals(h)' + OnWay(h)')
    <2>0. InGlobals(h) \in Nat /\ InGlobals(h)' \in Nat
      BY GlobalCount
    <2>1. InGlobals(h)' + (IF globals[n] = h THEN 1 ELSE 0) = InGlobals(h) + (IF new = h THEN 1 ELSE 0)
      <3>1. globals \in Bindings /\ globals' = [globals EXCEPT ![n] = new] /\ n \in Names
        BY <1>4, <1>1, <1>2, <1>3
      <3>2. globals'[n] = new /\ \A m \in Names \ {n} : globals'[m] = globals[m]
        BY ONLY <3>1 DEF Bindings
      <3>3. InGlobals(h)' + (IF globals[n] = h THEN 1 ELSE 0) =
              InGlobals(h) + (IF globals'[n] = h THEN 1 ELSE 0)
        BY ONLY <3>1, <3>2, h \in Handles, GlobalWrite
      <3> QED
        BY ONLY <3>2, <3>3
    <2>2. refs'[h] = refs[h] + (IF h = new THEN 1 ELSE 0) - (IF h = globals[n] THEN 1 ELSE 0)
      <3>1. f[h] = refs[h] + (IF h = new THEN 1 ELSE 0)
        BY <1>6
      <3>2. refs'[h] = f[h] - (IF h = globals[n] THEN 1 ELSE 0)
        BY <1>10 DEF v
      <3>3. refs[h] \in Nat
        BY <1>3
      <3> QED
        BY ONLY <3>1, <3>2, <3>3
    <2>3. held' = held /\ OnWay(h)' = OnWay(h) /\ OnWay(h) \in {0, 1} /\ held[h] \in Nat
          /\ refs[h] \in Nat /\ refs'[h] \in Nat
      BY <1>1, <1>3, <1>10 DEF OnWay
    <2> QED
      BY <2>0, <2>1, <2>2, <2>3
  <1> QED
    BY <1>1, <1>3, <1>9, <1>10, <1>11, <1>12, StayStep

(***************************************************************************)
(* Expressions and their results.                                          *)
(***************************************************************************)
LEMMA NoneOnWay ==
  ASSUME returned = NoReturn, NEW h \in Handles
  PROVE  OnWay(h) = 0
  BY DEF OnWay, NoReturn

\* What is on its way is alive, and so is what is bound when it is gone.
LEMMA ResultAlive ==
  ASSUME Inv, Counted, NEW h \in Handles
  PROVE  /\ returned.value = h => refs[h] > 0
         /\ \A n \in Names : globals[n] = h => refs[h] > OnWay(h)
  <1>1. /\ held[h] \in Nat /\ InGlobals(h) \in Nat /\ InStack(stack, h) \in Nat /\ OnWay(h) \in {0, 1}
        /\ refs[h] = held[h] + InGlobals(h) + InStack(stack, h) + OnWay(h)
        /\ \A n \in Names : globals[n] = h => InGlobals(h) > 0
    BY OwnerFacts
  <1> DEFINE a == held[h]  b == InGlobals(h)  c == InStack(stack, h)  d == OnWay(h)
  <1>2. a \in Nat /\ b \in Nat /\ c \in Nat /\ d \in {0, 1} /\ refs[h] = a + b + c + d
    BY <1>1
  <1>3. \A n \in Names : globals[n] = h => b > 0
    BY <1>1
  <1>4. returned.value = h => d = 1
    BY DEF OnWay
  <1> HIDE DEF a, b, c, d
  <1>5. (d = 1 => refs[h] > 0) /\ (b > 0 => refs[h] > d)
    BY ONLY <1>2
  <1> QED
    BY <1>3, <1>4, <1>5 DEF d

LEMMA CountedTypes ==
  ASSUME Inv, Counted
  PROVE  /\ refs \in [Handles -> Nat] /\ held \in [Handles -> Nat]
         /\ function \in [Handles -> Names \cup {NoName}]
         /\ globals \in Bindings
  BY DEF Counted, Inv, Shape

LEMMA EvaluateNameCounts ==
  ASSUME Inv, Counted, NEW n \in Names, NEW use \in NextUses, EvaluateName(n, use)
  PROVE  Counted'
  <1>1. returned = NoReturn /\ UNCHANGED <<size, function, globals, depth, stack, held>>
    BY DEF EvaluateName
  <1>2. /\ refs \in [Handles -> Nat] /\ held \in [Handles -> Nat]
        /\ function \in [Handles -> Names \cup {NoName}]
    BY CountedTypes
  <1>3. Proper(use, Len(stack))
    BY NextUsesProper
  <1>4. \A h \in Handles : OnWay(h) = 0 /\ held[h] \in Nat /\ InGlobals(h) \in Nat /\ InGlobals(h)' = InGlobals(h)
    BY <1>1, <1>2, NoneOnWay, GlobalCount DEF InGlobals, Bound
  <1>5. CASE Valid(globals[n])
    <2>1. /\ refs' = Keep(refs, globals[n]) /\ returned' = Returned("OK", globals[n], use)
          /\ refs[globals[n]] > 0 /\ globals[n] # NULL
      BY <1>5 DEF EvaluateName, Valid
    <2>2. globals[n] \in Handles
      BY <2>1, BoundAlive
    <2>3. /\ refs' \in [Handles -> Nat]
          /\ \A k \in Handles : refs'[k] = refs[k] + (IF k = globals[n] THEN 1 ELSE 0)
      BY <1>2, <2>1, <2>2, KeepFacts
    <2>4. Unborn'
      <3> SUFFICES ASSUME NEW h \in Handles, h > size PROVE refs'[h] = 0
        BY <1>1 DEF Unborn
      <3>1. refs[h] = 0
        BY DEF Unborn, Counted
      <3> QED
        BY <2>1, <2>3, <3>1
    <2>5. ASSUME NEW h \in Handles
          PROVE  refs'[h] + (held[h] + InGlobals(h) + OnWay(h)) =
                   refs[h] + (held'[h] + InGlobals(h)' + OnWay(h)')
      <3>1. OnWay(h)' = IF globals[n] = h THEN 1 ELSE 0
        BY <2>1 DEF OnWay
      <3>2. held'[h] = held[h] /\ refs[h] \in Nat
        BY <1>1, <1>2
      <3> QED
        BY <1>4, <2>3, <3>1, <3>2
    <2> QED
      BY <1>1, <1>2, <1>3, <2>1, <2>2, <2>3, <2>4, <2>5, StayStep
  <1>6. CASE ~Valid(globals[n])
    <2>1. returned' = Returned("FAILED", NULL, use) /\ UNCHANGED refs
      BY <1>6 DEF EvaluateName
    <2>2. Unborn'
      BY <1>1, <2>1 DEF Unborn, Counted
    <2>3. ASSUME NEW h \in Handles
          PROVE  refs'[h] + (held[h] + InGlobals(h) + OnWay(h)) =
                   refs[h] + (held'[h] + InGlobals(h)' + OnWay(h)')
      <3>1. OnWay(h)' = 0
        BY <2>1 DEF OnWay
      <3> QED
        BY <1>1, <1>4, <2>1, <3>1
    <2> QED
      BY <1>1, <1>2, <1>3, <2>1, <2>2, <2>3, StayStep
  <1> QED
    BY <1>5, <1>6

LEMMA EvaluateLiteralCounts ==
  ASSUME Inv, Counted, NEW use \in NextUses, EvaluateLiteral(use)
  PROVE  Counted'
  <1> DEFINE new == size + 1
  <1>1. /\ returned = NoReturn /\ size < MaxValues /\ size' = size + 1
        /\ function' = [function EXCEPT ![size + 1] = NoName]
        /\ refs' = [refs EXCEPT ![size + 1] = 1] /\ returned' = Returned("OK", new, use)
        /\ UNCHANGED <<globals, depth, stack, held>>
    BY DEF EvaluateLiteral, Append1
  <1>2. /\ refs \in [Handles -> Nat] /\ held \in [Handles -> Nat]
        /\ function \in [Handles -> Names \cup {NoName}]
    BY CountedTypes
  <1>3. Proper(use, Len(stack))
    BY NextUsesProper
  <1>4. new \in Handles /\ new > size /\ size \in Nat
    BY <1>1, FunctionFramesAssumption DEF Inv, Shape
  <1>5. refs[size + 1] = 0
    BY <1>4 DEF Counted, Unborn
  <1>6. /\ refs' \in [Handles -> Nat]
        /\ \A h \in Handles : refs'[h] = refs[h] + (IF h = size + 1 THEN 1 ELSE 0)
    BY <1>1, <1>2, <1>5, FreshFacts
  <1>7. function' \in [Handles -> Names \cup {NoName}]
    BY <1>1, <1>2
  <1>8. Unborn'
    <2> SUFFICES ASSUME NEW h \in Handles, h > size + 1 PROVE refs'[h] = 0
      BY <1>1 DEF Unborn
    <2>1. h > size /\ h # size + 1
      BY <1>4
    <2>2. refs[h] = 0
      BY <2>1 DEF Counted, Unborn
    <2> QED
      BY <1>6, <2>1, <2>2
  <1>9. ASSUME NEW h \in Handles
        PROVE  refs'[h] + (held[h] + InGlobals(h) + OnWay(h)) =
                 refs[h] + (held'[h] + InGlobals(h)' + OnWay(h)')
    <2>1. OnWay(h) = 0 /\ InGlobals(h) \in Nat /\ InGlobals(h)' = InGlobals(h)
      BY <1>1, NoneOnWay, GlobalCount DEF InGlobals, Bound
    <2>2. OnWay(h)' = IF h = size + 1 THEN 1 ELSE 0
      BY <1>1 DEF OnWay
    <2>3. held'[h] = held[h] /\ held[h] \in Nat /\ refs[h] \in Nat
      BY <1>1, <1>2
    <2>4. refs'[h] = refs[h] + (IF h = size + 1 THEN 1 ELSE 0)
      BY <1>6
    <2> QED
      BY ONLY <2>1, <2>2, <2>3, <2>4
  <1> QED
    BY <1>1, <1>2, <1>3, <1>4, <1>6, <1>7, <1>8, <1>9, StayStep

LEMMA ToHostCounts ==
  ASSUME Inv, Counted, ToHost
  PROVE  Counted'
  <1> DEFINE v == returned.value
  <1>1. /\ returned.status = "OK" /\ returned' = NoReturn
        /\ UNCHANGED <<size, function, globals, depth, stack>>
    BY DEF ToHost
  <1>2. /\ refs \in [Handles -> Nat] /\ held \in [Handles -> Nat]
        /\ function \in [Handles -> Names \cup {NoName}]
    BY CountedTypes
  <1>3. v \in Handles
    BY <1>1 DEF Inv, Shape
  <1>4. refs[v] > 0
    BY <1>3, ResultAlive
  <1>5. \A h \in Handles : OnWay(h)' = 0
    BY <1>1 DEF OnWay, NoReturn
  <1>6. \A h \in Handles : InGlobals(h) \in Nat /\ InGlobals(h)' = InGlobals(h)
    BY <1>1, GlobalCount DEF InGlobals, Bound
  <1>7. \A h \in Handles : OnWay(h) = IF h = v THEN 1 ELSE 0
    BY DEF OnWay
  <1> HIDE DEF v
  <1>8. CASE held' = Keep(held, v) /\ UNCHANGED refs
    <2>1. /\ held' \in [Handles -> Nat]
          /\ \A k \in Handles : held'[k] = held[k] + (IF k = v THEN 1 ELSE 0)
      BY <1>2, <1>3, <1>8, KeepFacts
    <2>2. Unborn'
      BY <1>1, <1>8 DEF Unborn, Counted
    <2>3. ASSUME NEW h \in Handles
          PROVE  refs'[h] + (held[h] + InGlobals(h) + OnWay(h)) =
                   refs[h] + (held'[h] + InGlobals(h)' + OnWay(h)')
      <3>1. held[h] \in Nat /\ refs'[h] = refs[h] /\ refs[h] \in Nat
        BY <1>2, <1>8
      <3> QED
        BY <1>5, <1>6, <1>7, <2>1, <3>1
    <2> QED
      BY <1>1, <1>2, <1>8, <2>1, <2>2, <2>3, StayStep
  <1>9. CASE refs' = Drop(refs, v) /\ UNCHANGED held
    <2>1. /\ refs' \in [Handles -> Nat]
          /\ \A k \in Handles : refs'[k] = refs[k] - (IF k = v THEN 1 ELSE 0)
      BY <1>2, <1>3, <1>4, <1>9, DropFacts
    <2>2. Unborn'
      <3> SUFFICES ASSUME NEW h \in Handles, h > size PROVE refs'[h] = 0
        BY <1>1 DEF Unborn
      <3>1. refs[h] = 0
        BY DEF Unborn, Counted
      <3> QED
        BY <1>4, <2>1, <3>1
    <2>3. ASSUME NEW h \in Handles
          PROVE  refs'[h] + (held[h] + InGlobals(h) + OnWay(h)) =
                   refs[h] + (held'[h] + InGlobals(h)' + OnWay(h)')
      <3>1. held[h] \in Nat /\ held'[h] = held[h] /\ refs[h] \in Nat
        BY <1>2, <1>9
      <3> QED
        BY <1>5, <1>6, <1>7, <2>1, <3>1
    <2> QED
      BY <1>1, <1>2, <1>9, <2>1, <2>2, <2>3, StayStep
  <1> QED
    BY <1>8, <1>9 DEF ToHost, v

LEMMA DropResultCounts ==
  ASSUME Inv, Counted, DropResult
  PROVE  Counted'
  <1> DEFINE v == returned.value
  <1>1. /\ returned.status = "OK" /\ returned' = NoReturn /\ refs' = Drop(refs, v)
        /\ UNCHANGED <<size, function, globals, depth, stack, held>>
    BY DEF DropResult
  <1>2. /\ refs \in [Handles -> Nat] /\ held \in [Handles -> Nat]
        /\ function \in [Handles -> Names \cup {NoName}]
    BY CountedTypes
  <1>3. v \in Handles
    BY <1>1 DEF Inv, Shape
  <1>4. refs[v] > 0
    BY <1>3, ResultAlive
  <1>5. \A h \in Handles : OnWay(h)' = 0 /\ OnWay(h) = IF h = v THEN 1 ELSE 0
    BY <1>1 DEF OnWay, NoReturn
  <1>6. \A h \in Handles : InGlobals(h) \in Nat /\ InGlobals(h)' = InGlobals(h)
    BY <1>1, GlobalCount DEF InGlobals, Bound
  <1> HIDE DEF v
  <1>7. /\ refs' \in [Handles -> Nat]
        /\ \A k \in Handles : refs'[k] = refs[k] - (IF k = v THEN 1 ELSE 0)
    BY <1>1, <1>2, <1>3, <1>4, DropFacts
  <1>8. Unborn'
    <2> SUFFICES ASSUME NEW h \in Handles, h > size PROVE refs'[h] = 0
      BY <1>1 DEF Unborn
    <2>1. refs[h] = 0
      BY DEF Unborn, Counted
    <2> QED
      BY <1>4, <1>7, <2>1
  <1>9. ASSUME NEW h \in Handles
        PROVE  refs'[h] + (held[h] + InGlobals(h) + OnWay(h)) =
                 refs[h] + (held'[h] + InGlobals(h)' + OnWay(h)')
    <2>1. held[h] \in Nat /\ held'[h] = held[h] /\ refs[h] \in Nat
      BY <1>1, <1>2
    <2> QED
      BY <1>5, <1>6, <1>7, <2>1
  <1> QED
    BY <1>1, <1>2, <1>7, <1>8, <1>9, StayStep

LEMMA AssignCounts ==
  ASSUME Inv, Counted, Assign
  PROVE  Counted'
  <1> DEFINE x == returned.value
             n == returned.use.name
             v == globals[n]
  <1>1. /\ returned.status = "OK" /\ returned' = NoReturn /\ refs' = Drop(refs, v)
        /\ globals' = [globals EXCEPT ![n] = x]
        /\ UNCHANGED <<size, function, depth, stack, held>>
    BY DEF Assign
  <1>2. /\ refs \in [Handles -> Nat] /\ held \in [Handles -> Nat]
        /\ function \in [Handles -> Names \cup {NoName}] /\ globals \in Bindings
    BY CountedTypes
  <1>3. n \in Names
    BY DEF Assign, Counted, Room, Proper
  <1>4. x \in Handles
    BY <1>1 DEF Inv, Shape
  <1>5. v \in Handles \cup {NULL} /\ (v # NULL => refs[v] > 0)
    BY <1>3, BoundAlive
  <1>6. \A h \in Handles : OnWay(h)' = 0 /\ OnWay(h) = IF h = x THEN 1 ELSE 0
    BY <1>1 DEF OnWay, NoReturn
  <1> HIDE DEF x, n, v
  <1>7. /\ refs' \in [Handles -> Nat]
        /\ \A k \in Handles : refs'[k] = refs[k] - (IF k = v THEN 1 ELSE 0)
    BY <1>1, <1>2, <1>5, DropFacts
  <1>8. Unborn'
    <2> SUFFICES ASSUME NEW h \in Handles, h > size PROVE refs'[h] = 0
      BY <1>1 DEF Unborn
    <2>1. refs[h] = 0
      BY DEF Unborn, Counted
    <2> QED
      BY <1>1, <1>2, <1>5, <2>1, DropNone
  <1>9. ASSUME NEW h \in Handles
        PROVE  refs'[h] + (held[h] + InGlobals(h) + OnWay(h)) =
                 refs[h] + (held'[h] + InGlobals(h)' + OnWay(h)')
    <2>0. InGlobals(h) \in Nat /\ InGlobals(h)' \in Nat
      BY GlobalCount
    <2>1. InGlobals(h)' + (IF globals[n] = h THEN 1 ELSE 0) = InGlobals(h) + (IF x = h THEN 1 ELSE 0)
      <3>1. globals \in Bindings /\ globals' = [globals EXCEPT ![n] = x] /\ n \in Names
        BY <1>1, <1>2, <1>4, <1>3
      <3>2. globals'[n] = x /\ \A m \in Names \ {n} : globals'[m] = globals[m]
        BY ONLY <3>1 DEF Bindings
      <3>3. InGlobals(h)' + (IF globals[n] = h THEN 1 ELSE 0) =
              InGlobals(h) + (IF globals'[n] = h THEN 1 ELSE 0)
        BY ONLY <3>1, <3>2, h \in Handles, GlobalWrite
      <3> QED
        BY ONLY <3>2, <3>3
    <2>2. held[h] \in Nat /\ held'[h] = held[h] /\ refs[h] \in Nat
      BY <1>1, <1>2
    <2> QED
      <3>1. refs'[h] = refs[h] - (IF h = globals[n] THEN 1 ELSE 0)
        BY <1>7 DEF v
      <3>2. OnWay(h)' = 0 /\ OnWay(h) = IF h = x THEN 1 ELSE 0
        BY <1>6
      <3> QED
        BY ONLY <3>1, <3>2, <2>0, <2>1, <2>2
  <1> QED
    BY <1>1, <1>2, <1>7, <1>8, <1>9, StayStep

\* The operands of n += e are released and the name is bound to a new value.
LEMMA AugmentCounts ==
  ASSUME Inv, Counted, returned.status = "OK", returned.use.to = "augment", UNCHANGED held,
         Append1(NoName),
         refs' = Drop([Drop(refs, returned.value) EXCEPT ![size + 1] = 1],
                      globals[returned.use.name]),
         globals' = [globals EXCEPT ![returned.use.name] = size + 1],
         returned' = NoReturn, UNCHANGED <<depth, stack>>
  PROVE  Counted'
  <1> DEFINE x == returned.value
             n == returned.use.name
             v == globals[n]
             new == size + 1
             r == Drop(refs, x)
             f == [r EXCEPT ![size + 1] = 1]
  <1>1. /\ size < MaxValues /\ size' = size + 1 /\ function' = [function EXCEPT ![size + 1] = NoName]
        /\ refs' = Drop(f, v) /\ globals' = [globals EXCEPT ![n] = new]
    BY DEF Append1
  <1>2. /\ refs \in [Handles -> Nat] /\ held \in [Handles -> Nat]
        /\ function \in [Handles -> Names \cup {NoName}] /\ globals \in Bindings
    BY CountedTypes
  <1>3. n \in Names
    BY DEF Counted, Room, Proper
  <1>4. x \in Handles
    BY DEF Inv, Shape
  <1>5. refs[x] > 0
    BY <1>4, ResultAlive
  <1>6. v \in Handles \cup {NULL}
    BY <1>3, BoundAlive
  <1>7. \A h \in Handles : OnWay(h)' = 0 /\ OnWay(h) = IF h = x THEN 1 ELSE 0
    BY DEF OnWay, NoReturn
  <1>8. v # NULL => refs[v] > OnWay(v)
    BY <1>3, <1>6, ResultAlive
  <1>9. new \in Handles /\ new > size /\ size \in Nat
    BY <1>1, FunctionFramesAssumption DEF Inv, Shape
  <1>10. refs[new] = 0
    BY <1>9 DEF Counted, Unborn
  <1> HIDE DEF x, n, v
  <1>11. /\ r \in [Handles -> Nat]
         /\ \A k \in Handles : r[k] = refs[k] - (IF k = x THEN 1 ELSE 0)
    BY <1>2, <1>4, <1>5, DropFacts
  <1>12. r[size + 1] = 0
    BY <1>2, <1>4, <1>9, <1>10, DropNone
  <1> HIDE DEF r
  <1>13. /\ f \in [Handles -> Nat]
         /\ \A h \in Handles : f[h] = r[h] + (IF h = size + 1 THEN 1 ELSE 0)
    BY <1>1, <1>11, <1>12, FreshFacts
  <1>14. v # NULL => f[v] > 0
    <2> SUFFICES ASSUME v # NULL PROVE f[v] > 0
      OBVIOUS
    <2>1. v \in Handles /\ refs[v] > OnWay(v) /\ OnWay(v) = (IF v = x THEN 1 ELSE 0) /\ refs[v] \in Nat
      BY <1>2, <1>6, <1>7, <1>8
    <2>2. r[v] > 0 /\ r[v] \in Nat
      BY <1>11, <2>1
    <2> QED
      BY <1>13, <2>1, <2>2
  <1>15. function' \in [Handles -> Names \cup {NoName}]
    BY <1>1, <1>2
  <1> HIDE DEF f, new
  <1>16. /\ refs' \in [Handles -> Nat]
         /\ \A k \in Handles : refs'[k] = f[k] - (IF k = v THEN 1 ELSE 0)
    <2>1. refs' = Drop(f, v) /\ f \in [Handles -> Nat]
      BY <1>1, <1>13
    <2> QED
      BY ONLY <1>6, <1>14, <2>1, DropFacts
  <1>17. Unborn'
    <2> SUFFICES ASSUME NEW h \in Handles, h > size + 1 PROVE refs'[h] = 0
      BY <1>1 DEF Unborn
    <2>1. h > size /\ h # size + 1
      BY <1>9
    <2>2. refs[h] = 0
      BY <2>1 DEF Counted, Unborn
    <2>3. r[h] = 0
      BY <1>2, <1>4, <2>2, DropNone DEF r
    <2>4. f[h] = 0
      BY <1>13, <2>1, <2>3
    <2> QED
      <3>1. refs' = Drop(f, v) /\ f \in [Handles -> Nat]
        BY <1>1, <1>13
      <3> QED
        BY ONLY <1>6, <2>4, <3>1, h \in Handles, DropNone
  <1>18. ASSUME NEW h \in Handles
         PROVE  refs'[h] + (held[h] + InGlobals(h) + OnWay(h)) =
                  refs[h] + (held'[h] + InGlobals(h)' + OnWay(h)')
    <2>0. InGlobals(h) \in Nat /\ InGlobals(h)' \in Nat
      BY GlobalCount
    <2>1. InGlobals(h)' + (IF globals[n] = h THEN 1 ELSE 0) = InGlobals(h) + (IF new = h THEN 1 ELSE 0)
      <3>1. globals \in Bindings /\ globals' = [globals EXCEPT ![n] = new] /\ n \in Names
        BY <1>1, <1>2, <1>9, <1>3
      <3>2. globals'[n] = new /\ \A m \in Names \ {n} : globals'[m] = globals[m]
        BY ONLY <3>1 DEF Bindings
      <3>3. InGlobals(h)' + (IF globals[n] = h THEN 1 ELSE 0) =
              InGlobals(h) + (IF globals'[n] = h THEN 1 ELSE 0)
        BY ONLY <3>1, <3>2, h \in Handles, GlobalWrite
      <3> QED
        BY ONLY <3>2, <3>3
    <2> DEFINE e == held[h]  g == InGlobals(h)  gg == InGlobals(h)'  w == OnWay(h)
               R == refs[h]  RR == refs'[h]
               plus == IF h = new THEN 1 ELSE 0
               minus == IF h = v THEN 1 ELSE 0
    <2>2. gg + minus = g + plus /\ g \in Nat /\ gg \in Nat
      BY <2>0, <2>1 DEF v
    <2>3. RR = f[h] - minus /\ f[h] = r[h] + plus /\ r[h] = R - w
      BY <1>7, <1>11, <1>13, <1>16 DEF new
    <2>4. e \in Nat /\ R \in Nat /\ r[h] \in Nat /\ f[h] \in Nat /\ RR \in Nat /\ w \in {0, 1}
          /\ plus \in {0, 1} /\ minus \in {0, 1} /\ held'[h] = e /\ OnWay(h)' = 0
      BY <1>2, <1>7, <1>11, <1>13, <1>16
    <2> HIDE DEF e, g, gg, w, R, RR, plus, minus
    <2>5. RR + (e + g + w) = R + (e + gg + 0)
      BY ONLY <2>2, <2>3, <2>4
    <2> QED
      BY <2>4, <2>5 DEF e, g, gg, w, R, RR
  <1> QED
    BY <1>2, <1>15, <1>16, <1>17, <1>18, StayStep

(***************************************************************************)
(* Calls and their arguments.                                              *)
(***************************************************************************)
\* The stack without its top, and what the top keeps.
LEMMA TopCount ==
  ASSUME Inv, Counted, stack # <<>>
  PROVE  /\ Last(stack) \in Frames /\ Last(stack) = stack[Len(stack)]
         /\ Last(stack).kind = "call" => Len(Last(stack).args) <= MaxArgs
         /\ Proper(Last(stack).use, Len(stack) - 1)
         /\ Front(stack) \in Seq(Frames) /\ Sized(Front(stack))
         /\ Len(stack) \in Nat /\ Len(stack) > 0 /\ Len(Front(stack)) = Len(stack) - 1
         /\ \A i \in 1 .. Len(stack) - 1 : Front(stack)[i] = stack[i]
         /\ \A h \in Handles :
              /\ InRow(Row(Last(stack)), h) \in Nat /\ InStack(Front(stack), h) \in Nat
              /\ InStack(stack, h) = InStack(Front(stack), h) + InRow(Row(Last(stack)), h)
  <1> DEFINE f == Front(stack)
  <1>1. /\ Len(stack) \in Nat /\ Len(stack) > 0 /\ Len(stack) \in DOMAIN stack
        /\ Last(stack) = stack[Len(stack)] /\ Last(stack) \in Frames
        /\ f \in Seq(Frames) /\ Len(f) = Len(stack) - 1
        /\ \A i \in 1 .. Len(stack) - 1 : f[i] = stack[i]
    BY TopFacts DEF Inv, Shape
  <1>2. Sized(stack) /\ stack \in Seq(Frames) /\ \A i \in DOMAIN stack : Proper(stack[i].use, i - 1)
    BY DEF Counted, Room, Inv, Shape
  <1>3. Last(stack).kind = "call" => Len(Last(stack).args) <= MaxArgs
    BY <1>1, <1>2 DEF Sized
  <1>4. Proper(Last(stack).use, Len(stack) - 1)
    BY <1>1, <1>2
  <1> HIDE DEF f
  <1>5. Sized(f)
    <2>1. DOMAIN f = 1 .. Len(stack) - 1 /\ DOMAIN stack = 1 .. Len(stack)
      BY <1>1, <1>2, LenProperties
    <2> QED
      BY <1>1, <1>2, <2>1 DEF Sized
  <1>6. Len(stack) = Len(f) + 1 /\ \A i \in 1 .. Len(f) : stack[i] = f[i]
    BY <1>1
  <1>7. ASSUME NEW h \in Handles
        PROVE  /\ InRow(Row(stack[Len(stack)]), h) \in Nat /\ InStack(f, h) \in Nat
               /\ InStack(stack, h) = InStack(f, h) + InRow(Row(stack[Len(stack)]), h)
    <2>1. f \in Seq(Frames)
      BY <1>1
    <2>2. InRow(Row(stack[Len(stack)]), h) \in Nat
      BY ONLY <1>2, <1>6, <2>1, KeptGrows
    <2>3. InStack(f, h) \in Nat
      BY ONLY <1>2, <1>6, <2>1, KeptGrows
    <2>4. InStack(stack, h) = InStack(f, h) + InRow(Row(stack[Len(stack)]), h)
      BY ONLY <1>2, <1>6, <2>1, KeptGrows
    <2> QED
      BY <2>2, <2>3, <2>4
  <1> QED
    BY <1>1, <1>3, <1>4, <1>5, <1>7 DEF f

\* A stack with another entry on top, and what it keeps.
LEMMA NewTop ==
  ASSUME NEW s \in Seq(Frames), Sized(s), NEW e \in Frames,
         e.kind = "call" => Len(e.args) <= MaxArgs,
         NEW t \in Seq(Frames), Len(t) = Len(s) + 1,
         \A i \in 1 .. Len(s) : t[i] = s[i], t[Len(s) + 1] = e
  PROVE  \A h \in Handles :
           /\ InRow(Row(e), h) \in Nat
           /\ InStack(t, h) = InStack(s, h) + InRow(Row(e), h)
  <1>1. DOMAIN s = 1 .. Len(s) /\ DOMAIN t = 1 .. Len(s) + 1 /\ Len(s) \in Nat
    BY LenProperties
  <1>2. Sized(t)
    <2>1. ASSUME NEW i \in DOMAIN t, t[i].kind = "call" PROVE Len(t[i].args) <= MaxArgs
      <3>1. CASE i \in 1 .. Len(s)
        BY <1>1, <2>1, <3>1 DEF Sized
      <3>2. CASE i = Len(s) + 1
        BY <2>1, <3>2
      <3>3. i \in 1 .. Len(s) \/ i = Len(s) + 1
        BY <1>1
      <3> QED
        BY <3>1, <3>2, <3>3
    <2> QED
      BY <2>1 DEF Sized
  <1> SUFFICES ASSUME NEW h \in Handles
               PROVE  /\ InRow(Row(e), h) \in Nat
                      /\ InStack(t, h) = InStack(s, h) + InRow(Row(e), h)
    OBVIOUS
  <1>3. s \in Seq(Frames) /\ t \in Seq(Frames) /\ Len(t) = Len(s) + 1
        /\ \A i \in 1 .. Len(s) : t[i] = s[i]
    OBVIOUS
  <1>4. InRow(Row(t[Len(t)]), h) \in Nat
    BY ONLY <1>2, <1>3, KeptGrows
  <1>5. InStack(t, h) = InStack(s, h) + InRow(Row(t[Len(t)]), h)
    BY ONLY <1>2, <1>3, KeptGrows
  <1> QED
    BY <1>4, <1>5

\* The call on top of the stack has failed: its arguments are released.
LEMMA FailedCallCounts ==
  ASSUME Inv, Counted, stack # <<>>, Last(stack).kind = "call", returned.status # "OK",
         UNCHANGED <<size, function, globals, depth, held>>, stack' = Front(stack),
         refs' = DropAll(refs, Last(stack).args),
         returned' = Returned("FAILED", NULL, Last(stack).use)
  PROVE  Counted'
  <1> DEFINE args == Last(stack).args
  <1>1. /\ Last(stack) \in Frames /\ Proper(Last(stack).use, Len(stack) - 1)
        /\ Front(stack) \in Seq(Frames) /\ Len(stack) \in Nat /\ Len(stack) > 0
        /\ Len(Front(stack)) = Len(stack) - 1
        /\ \A i \in 1 .. Len(stack) - 1 : Front(stack)[i] = stack[i]
        /\ \A h \in Handles :
             /\ InRow(Row(Last(stack)), h) \in Nat /\ InStack(Front(stack), h) \in Nat
             /\ InStack(stack, h) = InStack(Front(stack), h) + InRow(Row(Last(stack)), h)
    BY TopCount
  <1>2. \A h \in Handles : InRow(Row(Last(stack)), h) = Occurrences(args, h)
    BY <1>1, RowCounts
  <1>3. /\ refs \in [Handles -> Nat] /\ held \in [Handles -> Nat]
        /\ function \in [Handles -> Names \cup {NoName}]
    BY CountedTypes
  <1>4. \A h \in Handles : Occurrences(args, h) \in Nat
    BY <1>1, <1>2
  <1>5. \A h \in Handles : OnWay(h) = 0 /\ OnWay(h)' = 0
    BY DEF OnWay, Counted
  <1> HIDE DEF args
  <1>6. ASSUME NEW h \in Handles
        PROVE  refs[h] = held[h] + InGlobals(h) + InStack(Front(stack), h) + Occurrences(args, h)
    <2>1. refs[h] = held[h] + InGlobals(h) + InStack(stack, h) + OnWay(h)
      BY OwnerFacts
    <2>2. /\ InStack(stack, h) = InStack(Front(stack), h) + Occurrences(args, h)
          /\ InStack(Front(stack), h) \in Nat /\ Occurrences(args, h) \in Nat
          /\ InGlobals(h) \in Nat /\ held[h] \in Nat /\ OnWay(h) = 0
      BY <1>1, <1>2, <1>3, <1>4, <1>5, GlobalCount
    <2> DEFINE a == held[h]  b == InGlobals(h)  c == InStack(Front(stack), h)
               o == Occurrences(args, h)
    <2>3. refs[h] = a + b + (c + o) + 0 /\ a \in Nat /\ b \in Nat /\ c \in Nat /\ o \in Nat
      BY <2>1, <2>2
    <2> HIDE DEF a, b, c, o
    <2>4. refs[h] = a + b + c + o
      BY ONLY <2>3
    <2> QED
      BY <2>4 DEF a, b, c, o
  <1>7. ASSUME NEW h \in Handles
        PROVE  /\ refs[h] >= Occurrences(args, h)
               /\ refs[h] - Occurrences(args, h) = held[h] + InGlobals(h) + InStack(Front(stack), h) + 0
    <2> DEFINE a == held[h]  b == InGlobals(h)  c == InStack(Front(stack), h)
               o == Occurrences(args, h)
    <2>1. refs[h] = a + b + c + o /\ a \in Nat /\ b \in Nat /\ c \in Nat /\ o \in Nat
      BY <1>1, <1>3, <1>4, <1>6, GlobalCount
    <2> HIDE DEF a, b, c, o
    <2>2. refs[h] >= o /\ refs[h] - o = a + b + c + 0
      BY ONLY <2>1
    <2> QED
      BY <2>2 DEF a, b, c, o
  <1>8. refs' \in [Handles -> Nat]
    BY <1>3, <1>4, DropAllFacts DEF args
  <1>9. \A h \in Handles : refs'[h] = refs[h] - Occurrences(args, h)
    BY <1>3, <1>4, <1>7, DropAllFacts DEF args
  <1>10. OwnershipExact'
    <2> SUFFICES ASSUME NEW h \in Handles
                 PROVE  refs'[h] = held'[h] + InGlobals(h)' + InStack(stack, h)' + OnWay(h)'
      BY DEF OwnershipExact, InGlobals, InStack, OnWay
    <2>1. InStack(stack, h)' = InStack(Front(stack), h)
      BY DEF InStack
    <2>2. held' = held /\ InGlobals(h)' = InGlobals(h) /\ OnWay(h)' = 0
      BY <1>5 DEF InGlobals, Bound
    <2> QED
      BY <1>7, <1>9, <2>1, <2>2
  <1>11. Unborn'
    <2> SUFFICES ASSUME NEW h \in Handles, h > size PROVE refs'[h] = 0
      BY DEF Unborn
    <2>1. refs[h] = 0
      BY DEF Unborn, Counted
    <2> QED
      BY <1>4, <1>7, <1>9, <2>1
  <1>12. Room'
    <2>1. PICK k \in Nat : k = Len(stack) - 1 /\ Len(stack) = k + 1
      BY <1>1
    <2>2. /\ stack' \in Seq(Frames) /\ Len(stack) \in {k, k + 1} /\ Len(stack') = k
          /\ \A i \in 1 .. k : stack'[i] = stack[i]
          /\ Proper(returned'.use, k)
      BY <1>1, <2>1
    <2>3. Len(stack') \in {k, k + 1} /\ Len(stack') # k + 1
      BY <2>2
    <2>4. Room
      BY DEF Counted
    <2> QED
      BY ONLY Inv, <2>2, <2>3, <2>4, RoomStep
  <1>13. returned'.value = NULL /\ depth' = depth
    OBVIOUS
  <1> QED
    BY <1>3, <1>8, <1>10, <1>11, <1>12, <1>13 DEF Counted

LEMMA NewCall ==
  ASSUME NEW n \in Names, NEW use \in AllUses, NEW args \in Seq(Handles)
  PROVE  /\ Call(n, use, args) \in Frames /\ Call(n, use, args).kind = "call"
         /\ Call(n, use, args).use = use /\ Call(n, use, args).args = args
         /\ Call(n, use, args).name = n
         /\ Row(Call(n, use, args)) = args
  BY DEF Call, Frames, Calls, Row

LEMMA EvaluateCallCounts ==
  ASSUME Inv, Counted, NEW n \in Names, NEW use \in NextUses, EvaluateCall(n, use)
  PROVE  Counted'
  <1>1. returned = NoReturn /\ UNCHANGED <<size, refs, function, globals, depth, held>>
    BY DEF EvaluateCall, values
  <1>2. /\ refs \in [Handles -> Nat] /\ held \in [Handles -> Nat]
        /\ function \in [Handles -> Names \cup {NoName}]
    BY CountedTypes
  <1>3. Proper(use, Len(stack)) /\ use \in AllUses
    BY NextUsesProper, NextUsesFit DEF Inv
  <1>4. \A h \in Handles : OnWay(h) = 0 /\ InGlobals(h)' = InGlobals(h) /\ InGlobals(h) \in Nat
    BY <1>1, NoneOnWay, GlobalCount DEF InGlobals, Bound
  <1>5. Unborn'
    BY <1>1 DEF Unborn, Counted
  <1>6. CASE returned' = Returned("FAILED", NULL, use) /\ UNCHANGED stack
    <2>1. ASSUME NEW h \in Handles
          PROVE  refs'[h] + (held[h] + InGlobals(h) + OnWay(h)) =
                   refs[h] + (held'[h] + InGlobals(h)' + OnWay(h)')
      <3>1. OnWay(h)' = 0
        BY <1>6 DEF OnWay
      <3> QED
        BY <1>1, <1>4, <3>1
    <2> QED
      BY <1>1, <1>2, <1>3, <1>5, <1>6, <2>1, StayStep
  <1>7. CASE stack' = Append(stack, Call(n, use, <<>>)) /\ UNCHANGED returned
    <2> DEFINE none == <<>>
    <2>1. none \in Seq(Handles) /\ Len(none) = 0 /\ DOMAIN none = {}
      OBVIOUS
    <2> HIDE DEF none
    <2> DEFINE e == Call(n, use, none)
    <2>2. e \in Frames /\ e.kind = "call" /\ e.use = use /\ e.args = none /\ Row(e) = none
      <3>1. n \in Names /\ use \in AllUses /\ none \in Seq(Handles)
        BY <1>3, <2>1
      <3>2. e \in Frames
        BY ONLY <3>1, NewCall
      <3>3. e.kind = "call" /\ e.use = use /\ e.args = none /\ Row(e) = none
        BY ONLY <3>1, NewCall
      <3> QED
        BY <3>2, <3>3
    <2>3. stack' = Append(stack, e)
      BY <1>7 DEF none
    <2> HIDE DEF e
    <2>4. stack \in Seq(Frames) /\ Sized(stack) /\ Room
      BY DEF Counted, Room, Inv, Shape
    <2>5. /\ stack' \in Seq(Frames) /\ Len(stack') = Len(stack) + 1 /\ Len(stack) \in Nat
          /\ \A i \in 1 .. Len(stack) : stack'[i] = stack[i]
          /\ stack'[Len(stack) + 1] = e
      BY <2>2, <2>3, <2>4, PushFacts, LenProperties
    <2>6. e.kind = "call" => Len(e.args) <= MaxArgs
      BY <2>1, <2>2, FunctionFramesAssumption
    <2>7. \A h \in Handles : /\ InRow(Row(e), h) \in Nat
                             /\ InStack(stack', h) = InStack(stack, h) + InRow(Row(e), h)
      BY ONLY <2>2, <2>4, <2>5, <2>6, NewTop
    <2>8. \A h \in Handles : InRow(Row(e), h) = 0
      <3>1. \A h : {i \in DOMAIN none : none[i] = h} = {}
        BY <2>1
      <3> QED
        BY <2>2, <3>1, FS_EmptySet DEF InRow
    <2>9. OwnershipExact'
      <3> SUFFICES ASSUME NEW h \in Handles
                   PROVE  refs'[h] = held'[h] + InGlobals(h)' + InStack(stack, h)' + OnWay(h)'
        BY DEF OwnershipExact, InGlobals, InStack, OnWay
      <3>1. InStack(stack, h)' = InStack(stack', h)
        BY DEF InStack
      <3>2. InStack(stack, h) \in Nat /\ refs[h] = held[h] + InGlobals(h) + InStack(stack, h) + OnWay(h)
        BY OwnerFacts
      <3>3. InStack(stack, h)' = InStack(stack, h)
        BY <2>7, <2>8, <3>1, <3>2
      <3>4. OnWay(h)' = OnWay(h)
        BY <1>7 DEF OnWay
      <3> QED
        BY <1>1, <1>4, <3>2, <3>3, <3>4
    <2>10. Room'
      <3>1. PICK k \in Nat : k = Len(stack)
        BY <2>5
      <3>2. /\ Len(stack) \in {k, k + 1} /\ Len(stack') \in {k, k + 1}
            /\ \A i \in 1 .. k : stack'[i] = stack[i]
            /\ stack'[k + 1].kind = "call" => Len(stack'[k + 1].args) <= MaxArgs
            /\ Proper(stack'[k + 1].use, k)
            /\ returned' = NoReturn
        BY <1>1, <1>3, <1>7, <2>2, <2>5, <2>6, <3>1
      <3> QED
        BY ONLY Inv, <2>4, <2>5, <3>2, RoomStep
    <2>11. /\ returned'.value \in Handles \cup {NULL} /\ (returned'.status # "OK" => returned'.value = NULL)
           /\ depth' <= MaxCallDepth
      BY <1>1, <1>7 DEF Counted
    <2> QED
      BY <1>1, <1>2, <1>5, <2>9, <2>10, <2>11 DEF Counted
  <1> QED
    BY <1>6, <1>7 DEF EvaluateCall

\* One argument more is one occurrence more.
LEMMA ArgumentAdded ==
  ASSUME NEW args \in Seq(Handles), NEW v \in Handles, NEW h
  PROVE  /\ Occurrences(args, h) \in Nat
         /\ Occurrences(Append(args, v), h) = Occurrences(args, h) + (IF v = h THEN 1 ELSE 0)
  <1> DEFINE at == {i \in DOMAIN args : args[i] = h}
             more == Append(args, v)
             c == Len(args) + 1
  <1>1. DOMAIN args = 1 .. Len(args) /\ Len(args) \in Nat
    BY LenProperties
  <1>2. /\ more \in Seq(Handles) /\ Len(more) = c /\ more[c] = v
        /\ \A i \in 1 .. Len(args) : more[i] = args[i]
    BY AppendProperties
  <1>3. DOMAIN more = 1 .. c
    BY <1>2, LenProperties
  <1>4. IsFiniteSet(at) /\ c \notin at
    <2>1. IsFiniteSet(1 .. Len(args))
      BY <1>1, FS_Interval
    <2> QED
      BY <1>1, <2>1, FS_Subset
  <1>5. {i \in DOMAIN more : more[i] = h} = IF v = h THEN at \cup {c} ELSE at
    <2>1. 1 .. c = (1 .. Len(args)) \cup {c}
      BY <1>1
    <2> HIDE DEF more, c
    <2> QED
      BY <1>1, <1>2, <1>3, <2>1
  <1> HIDE DEF at, more, c
  <1>6. Cardinality(at) \in Nat
    BY <1>4, FS_CardinalityType
  <1>7. Cardinality(at \cup {c}) = Cardinality(at) + 1
    BY <1>4, CountUpdate
  <1>8. Occurrences(args, h) = Cardinality(at)
    BY DEF Occurrences, at
  <1>9. Occurrences(more, h) = IF v = h THEN Cardinality(at \cup {c}) ELSE Cardinality(at)
    BY <1>5 DEF Occurrences
  <1>10. Occurrences(more, h) = Cardinality(at) + (IF v = h THEN 1 ELSE 0)
    BY <1>6, <1>7, <1>9
  <1> QED
    BY <1>6, <1>8, <1>10 DEF more

LEMMA TakeArgumentCounts ==
  ASSUME Inv, Counted, TakeArgument
  PROVE  Counted'
  <1> DEFINE call == Last(stack)
             v == returned.value
             more == Append(call.args, v)
             e == Call(call.name, call.use, more)
  <1>1. /\ returned.status = "OK" /\ returned.use.to = "argument" /\ returned' = NoReturn
        /\ stack' = [stack EXCEPT ![Len(stack)] = e]
        /\ UNCHANGED <<size, refs, function, globals, depth, held>>
    BY DEF TakeArgument, values
  <1>2. /\ refs \in [Handles -> Nat] /\ held \in [Handles -> Nat]
        /\ function \in [Handles -> Names \cup {NoName}]
    BY CountedTypes
  <1>3. v \in Handles
    BY <1>1 DEF Inv, Shape
  <1>4. Len(stack) \in DOMAIN stack /\ stack[Len(stack)].kind = "call"
        /\ Len(stack[Len(stack)].args) < MaxArgs
    BY <1>1 DEF Counted, Room, Proper, Collecting
  <1>5. stack # <<>>
    BY <1>4
  <1>6. /\ call \in Frames /\ call = stack[Len(stack)] /\ Proper(call.use, Len(stack) - 1)
        /\ Front(stack) \in Seq(Frames) /\ Sized(Front(stack))
        /\ Len(stack) \in Nat /\ Len(stack) > 0 /\ Len(Front(stack)) = Len(stack) - 1
        /\ \A i \in 1 .. Len(stack) - 1 : Front(stack)[i] = stack[i]
        /\ \A h \in Handles :
             /\ InRow(Row(call), h) \in Nat /\ InStack(Front(stack), h) \in Nat
             /\ InStack(stack, h) = InStack(Front(stack), h) + InRow(Row(call), h)
    BY <1>5, TopCount
  <1>7. call.kind = "call" /\ call.args \in Seq(Handles) /\ call.name \in Names /\ call.use \in AllUses
        /\ Len(call.args) < MaxArgs
    BY <1>4, <1>6, EntryFacts DEF Inv
  <1> HIDE DEF call, v
  <1>8. more \in Seq(Handles) /\ Len(more) = Len(call.args) + 1 /\ Len(call.args) \in Nat
    BY <1>3, <1>7, AppendProperties, LenProperties
  <1>9. Len(more) <= MaxArgs
    BY <1>7, <1>8, FunctionFramesAssumption
  <1> HIDE DEF more
  <1>10. e \in Frames /\ e.kind = "call" /\ e.use = call.use /\ e.args = more /\ Row(e) = more
    BY <1>7, <1>8, NewCall
  <1> HIDE DEF e
  <1>11. /\ stack' \in Seq(Frames) /\ Len(stack') = Len(stack)
         /\ \A i \in 1 .. Len(stack) - 1 : stack'[i] = stack[i]
         /\ stack'[Len(stack)] = e
    <2>1. stack \in Seq(Frames) /\ DOMAIN stack = 1 .. Len(stack)
      BY LenProperties DEF Inv, Shape
    <2>2. stack' \in Seq(Frames) /\ Len(stack') = Len(stack)
      BY <1>1, <1>4, <1>10, <2>1, ExceptSeq
    <2> QED
      BY <1>1, <1>4, <1>6, <2>1, <2>2
  <1>12. \A h \in Handles : /\ InRow(Row(e), h) \in Nat
                            /\ InStack(stack', h) = InStack(Front(stack), h) + InRow(Row(e), h)
    <2>1. Len(stack') = Len(Front(stack)) + 1 /\ stack'[Len(Front(stack)) + 1] = e
      BY <1>6, <1>11
    <2>2. \A i \in 1 .. Len(Front(stack)) : stack'[i] = Front(stack)[i]
      BY <1>6, <1>11
    <2>3. Front(stack) \in Seq(Frames) /\ Sized(Front(stack)) /\ stack' \in Seq(Frames)
      BY <1>6, <1>11
    <2>4. e \in Frames /\ (e.kind = "call" => Len(e.args) <= MaxArgs)
      BY <1>9, <1>10
    <2> QED
      BY ONLY <2>1, <2>2, <2>3, <2>4, NewTop
  <1>13. ASSUME NEW h \in Handles
         PROVE  InRow(Row(e), h) = InRow(Row(call), h) + (IF v = h THEN 1 ELSE 0)
    <2>1. InRow(Row(e), h) = Occurrences(more, h)
      BY <1>10 DEF InRow, Occurrences
    <2>2. InRow(Row(call), h) = Occurrences(call.args, h)
      BY <1>6, <1>7, RowCounts
    <2>3. Occurrences(more, h) = Occurrences(call.args, h) + (IF v = h THEN 1 ELSE 0)
      BY <1>3, <1>7, ArgumentAdded DEF more
    <2> QED
      BY <2>1, <2>2, <2>3
  <1>14. OwnershipExact'
    <2> SUFFICES ASSUME NEW h \in Handles
                 PROVE  refs'[h] = held'[h] + InGlobals(h)' + InStack(stack, h)' + OnWay(h)'
      BY DEF OwnershipExact, InGlobals, InStack, OnWay
    <2>1. InStack(stack, h)' = InStack(stack', h)
      BY DEF InStack
    <2>2. /\ held[h] \in Nat /\ InGlobals(h) \in Nat
          /\ refs[h] = held[h] + InGlobals(h) + InStack(stack, h) + OnWay(h)
      BY OwnerFacts
    <2>3. OnWay(h)' = 0 /\ OnWay(h) = IF v = h THEN 1 ELSE 0
      BY <1>1 DEF OnWay, NoReturn, v
    <2>4. refs'[h] = refs[h] /\ held'[h] = held[h] /\ InGlobals(h)' = InGlobals(h)
      BY <1>1 DEF InGlobals, Bound
    <2> DEFINE a == held[h]  b == InGlobals(h)  s == InStack(Front(stack), h)
               o == InRow(Row(call), h)  w == OnWay(h)
    <2>5. /\ a \in Nat /\ b \in Nat /\ s \in Nat /\ o \in Nat /\ w \in {0, 1}
          /\ refs[h] = a + b + (s + o) + w
          /\ InStack(stack', h) = s + (o + w)
      BY <1>6, <1>12, <1>13, <2>2, <2>3
    <2> HIDE DEF a, b, s, o, w
    <2>6. refs[h] = a + b + InStack(stack', h) + 0
      BY ONLY <2>5
    <2> QED
      BY <2>1, <2>3, <2>4, <2>6 DEF a, b
  <1>15. Room'
    <2>1. PICK k \in Nat : k = Len(stack) - 1 /\ Len(stack) = k + 1
      BY <1>6
    <2>2. /\ Len(stack) \in {k, k + 1} /\ Len(stack') \in {k, k + 1}
          /\ \A i \in 1 .. k : stack'[i] = stack[i]
          /\ stack'[k + 1].kind = "call" => Len(stack'[k + 1].args) <= MaxArgs
          /\ Proper(stack'[k + 1].use, k)
      BY <1>6, <1>9, <1>10, <1>11, <2>1
    <2>3. Room /\ returned' = NoReturn /\ stack' \in Seq(Frames)
      BY <1>1, <1>11 DEF Counted
    <2> QED
      BY ONLY Inv, <2>2, <2>3, RoomStep
  <1>16. Unborn' /\ depth' <= MaxCallDepth
    BY <1>1 DEF Unborn, Counted
  <1>17. returned'.value = NULL
    BY <1>1 DEF NoReturn
  <1> QED
    BY <1>1, <1>2, <1>14, <1>15, <1>16, <1>17 DEF Counted

(***************************************************************************)
(* Bodies.                                                                 *)
(***************************************************************************)
\* The saved bindings come back, and what was bound over them is released;
\* counts are those with the value the body returns.
LEMMA LeaveBodyCounts ==
  ASSUME Inv, Counted, stack # <<>>, Last(stack).kind = "body",
         NEW counts \in [Handles -> Nat], NEW status, NEW value \in Handles \cup {NULL},
         status # "OK" => value = NULL, LeaveBody(counts, status, value),
         UNCHANGED held, function' \in [Handles -> Names \cup {NoName}],
         \A h \in Handles :
           counts[h] = held[h] + InGlobals(h) + InStack(stack, h) + (IF value = h THEN 1 ELSE 0),
         \A h \in Handles : h > size' => counts[h] = 0
  PROVE  Counted'
  <1> DEFINE body == Last(stack)
             D == DOMAIN body.saved
  <1>1. /\ globals' = Restored(status, body.saved)
        /\ refs' = [h \in Handles |-> counts[h] - Bound(globals, D, h)]
        /\ stack' = Front(stack) /\ depth' = depth - 1
        /\ returned' = Returned(status, value, body.use)
    BY DEF LeaveBody, DepthAfter
  <1>2. /\ body \in Frames /\ body = stack[Len(stack)] /\ Proper(body.use, Len(stack) - 1)
        /\ Front(stack) \in Seq(Frames) /\ Len(stack) \in Nat /\ Len(stack) > 0
        /\ Len(Front(stack)) = Len(stack) - 1
        /\ \A i \in 1 .. Len(stack) - 1 : Front(stack)[i] = stack[i]
        /\ \A h \in Handles :
             /\ InRow(Row(body), h) \in Nat /\ InStack(Front(stack), h) \in Nat
             /\ InStack(stack, h) = InStack(Front(stack), h) + InRow(Row(body), h)
    BY TopCount
  <1>3. \A h \in Handles : InRow(Row(body), h) = Bound(body.saved, D, h)
    BY <1>2, RowCounts
  <1>4. body.saved \in SavedBindings /\ D \subseteq Names
    <2>1. Len(stack) \in DOMAIN stack
      BY TopFacts DEF Inv, Shape
    <2>2. stack[Len(stack)].saved \in SavedBindings
      BY <1>2, <2>1, EntryFacts DEF Inv
    <2>3. body.saved \in SavedBindings
      BY <1>2, <2>2
    <2> QED
      BY <2>3 DEF SavedBindings
  <1>5. /\ \A n \in D : globals'[n] = body.saved[n]
        /\ \A n \in Names \ D : globals'[n] = globals[n]
    BY <1>1, <1>4 DEF Restored
  <1>6. /\ held \in [Handles -> Nat] /\ globals \in Bindings
    BY CountedTypes
  <1> HIDE DEF body, D
  <1>7. ASSUME NEW h \in Handles
        PROVE  /\ counts[h] - Bound(globals, D, h) \in Nat
               /\ counts[h] - Bound(globals, D, h) =
                    held[h] + InGlobals(h)' + InStack(Front(stack), h) + (IF value = h THEN 1 ELSE 0)
    <2> DEFINE a == held[h]  w == IF value = h THEN 1 ELSE 0
               s == InStack(Front(stack), h)  o == Bound(body.saved, D, h)
               p == Bound(globals, D, h)  q == Bound(globals, Names \ D, h)
               g == InGlobals(h)'
    <2>1. D \in SUBSET Names
      BY <1>4
    <2>2. p \in Nat /\ q \in Nat /\ InGlobals(h) = p + q
      <3>1. p \in Nat /\ q \in Nat
        BY ONLY <2>1, BoundFacts
      <3>2. Bound(globals, Names, h) = p + q
        BY ONLY <2>1, BoundFacts
      <3> QED
        BY <3>1, <3>2 DEF InGlobals
    <2>3. Bound(globals', D, h) = o
      <3>1. {n \in D : globals'[n] = h} = {n \in D : body.saved[n] = h}
        BY <1>5
      <3> QED
        BY <3>1 DEF Bound
    <2>4. Bound(globals', Names \ D, h) = q
      <3>1. {n \in Names \ D : globals'[n] = h} = {n \in Names \ D : globals[n] = h}
        BY <1>5
      <3> QED
        BY <3>1 DEF Bound
    <2>5. g = Bound(globals', Names, h)
      BY DEF InGlobals, Bound
    <2>6. Bound(globals', Names, h) = Bound(globals', D, h) + Bound(globals', Names \ D, h)
      BY ONLY <2>1, BoundFacts
    <2>7. o \in Nat
      BY ONLY <2>1, BoundFacts
    <2>8. a \in Nat /\ w \in {0, 1} /\ s \in Nat
      BY <1>2, <1>6
    <2>9. counts[h] = a + (p + q) + (s + o) + w
      BY <1>2, <1>3, <2>2
    <2>10. g = o + q
      BY <2>3, <2>4, <2>5, <2>6
    <2> HIDE DEF a, w, s, o, p, q, g
    <2>11. counts[h] - p \in Nat /\ counts[h] - p = a + g + s + w
      BY ONLY <2>2, <2>7, <2>8, <2>9, <2>10
    <2> QED
      BY <2>11 DEF a, w, s, p, g
  <1>8. refs' \in [Handles -> Nat] /\ \A h \in Handles : refs'[h] = counts[h] - Bound(globals, D, h)
    <2>1. \A h \in Handles : counts[h] - Bound(globals, D, h) \in Nat
      BY <1>7
    <2>2. refs' = [h \in Handles |-> counts[h] - Bound(globals, D, h)]
      BY <1>1 DEF D, body
    <2> QED
      BY ONLY <2>1, <2>2
  <1>9. OwnershipExact'
    <2> SUFFICES ASSUME NEW h \in Handles
                 PROVE  refs'[h] = held'[h] + InGlobals(h)' + InStack(stack, h)' + OnWay(h)'
      BY DEF OwnershipExact, InGlobals, InStack, OnWay
    <2>1. InStack(stack, h)' = InStack(Front(stack), h)
      BY <1>1 DEF InStack
    <2>2. held' = held /\ OnWay(h)' = (IF value = h THEN 1 ELSE 0)
      BY <1>1 DEF OnWay
    <2>3. counts[h] - Bound(globals, D, h) =
            held[h] + InGlobals(h)' + InStack(Front(stack), h) + (IF value = h THEN 1 ELSE 0)
      BY <1>7
    <2>4. refs'[h] = counts[h] - Bound(globals, D, h)
      BY <1>8
    <2> QED
      BY ONLY <2>1, <2>2, <2>3, <2>4
  <1>10. Unborn'
    <2> SUFFICES ASSUME NEW h \in Handles, h > size' PROVE refs'[h] = 0
      BY DEF Unborn
    <2>1. counts[h] = 0 /\ refs'[h] \in Nat /\ refs'[h] = counts[h] - Bound(globals, D, h)
      BY <1>8
    <2>2. Bound(globals, D, h) \in Nat
      BY <1>4, BoundFacts
    <2> QED
      BY ONLY <2>1, <2>2
  <1>11. Room'
    <2>1. PICK k \in Nat : k = Len(stack) - 1 /\ Len(stack) = k + 1
      BY <1>2
    <2>2. /\ stack' \in Seq(Frames) /\ Len(stack) \in {k, k + 1} /\ Len(stack') = k
          /\ \A i \in 1 .. k : stack'[i] = stack[i]
      BY <1>1, <1>2, <2>1
    <2>3. Len(stack') \in {k, k + 1} /\ Len(stack') # k + 1
      BY <2>2
    <2>4. Room
      BY DEF Counted
    <2>5. returned'.use = body.use
      BY <1>1 DEF body
    <2>6. Proper(returned'.use, k)
      BY <1>2, <2>1, <2>5
    <2> QED
      BY ONLY Inv, <2>2, <2>3, <2>4, <2>6, RoomStep
  <1>12. depth' <= MaxCallDepth
    <2>1. depth \in Nat /\ depth <= MaxCallDepth /\ MaxCallDepth \in Nat
      BY FunctionFramesAssumption DEF Inv, Shape, Counted
    <2> QED
      BY <1>1, <2>1
  <1>13. returned'.value = value /\ returned'.status = status
    BY <1>1
  <1>14. held' \in [Handles -> Nat]
    BY <1>6
  <1> QED
    BY <1>8, <1>9, <1>10, <1>11, <1>12, <1>13, <1>14 DEF Counted

\* A body that ends without a statement that fails or returns.
LEMMA EndOfBodyCounts ==
  ASSUME Inv, Counted, EndOfBody
  PROVE  Counted'
  <1> DEFINE new == size + 1
             counts == [refs EXCEPT ![size + 1] = 1]
  <1>1. /\ stack # <<>> /\ returned = NoReturn /\ Last(stack).kind = "body"
        /\ size < MaxValues /\ size' = size + 1
        /\ function' = [function EXCEPT ![size + 1] = NoName]
        /\ LeaveBody(counts, "OK", new) /\ UNCHANGED held
    BY DEF EndOfBody, In, Append1
  <1>2. /\ refs \in [Handles -> Nat] /\ held \in [Handles -> Nat]
        /\ function \in [Handles -> Names \cup {NoName}]
    BY CountedTypes
  <1>3. new \in Handles /\ new > size /\ size \in Nat
    BY <1>1, FunctionFramesAssumption DEF Inv, Shape
  <1>4. refs[size + 1] = 0
    BY <1>3 DEF Counted, Unborn
  <1>5. /\ counts \in [Handles -> Nat]
        /\ \A h \in Handles : counts[h] = refs[h] + (IF h = size + 1 THEN 1 ELSE 0)
    BY <1>1, <1>2, <1>4, FreshFacts
  <1>6. function' \in [Handles -> Names \cup {NoName}]
    BY <1>1, <1>2
  <1> HIDE DEF counts
  <1>7. ASSUME NEW h \in Handles
        PROVE  counts[h] = held[h] + InGlobals(h) + InStack(stack, h) + (IF new = h THEN 1 ELSE 0)
    <2> DEFINE a == held[h]  b == InGlobals(h)  s == InStack(stack, h)
               w == IF new = h THEN 1 ELSE 0
    <2>1. /\ held[h] \in Nat /\ InGlobals(h) \in Nat /\ InStack(stack, h) \in Nat
          /\ refs[h] = held[h] + InGlobals(h) + InStack(stack, h) + OnWay(h)
      BY OwnerFacts
    <2>2. OnWay(h) = 0
      BY <1>1, NoneOnWay
    <2>3. a \in Nat /\ b \in Nat /\ s \in Nat /\ w \in {0, 1} /\ refs[h] = a + b + s + 0
          /\ counts[h] = refs[h] + w
      BY <1>5, <2>1, <2>2
    <2> HIDE DEF a, b, s, w
    <2>4. counts[h] = a + b + s + w
      BY ONLY <2>3
    <2> QED
      BY <2>4 DEF a, b, s, w
  <1>8. ASSUME NEW h \in Handles, h > size' PROVE counts[h] = 0
    <2>1. h > size /\ h # size + 1
      BY <1>1, <1>3, <1>8
    <2>2. refs[h] = 0
      BY <2>1 DEF Counted, Unborn
    <2> QED
      BY <1>5, <2>1, <2>2
  <1> HIDE DEF new
  <1>9. Inv /\ Counted
    OBVIOUS
  <1> QED
    BY ONLY <1>1, <1>3, <1>5, <1>6, <1>7, <1>8, <1>9, LeaveBodyCounts

LEMMA CompoundStatementCounts ==
  ASSUME Inv, Counted, CompoundStatement
  PROVE  Counted'
  <1>1. /\ stack # <<>> /\ returned = NoReturn /\ Last(stack).kind = "body"
        /\ LeaveBody(refs, "FAILED", NULL) /\ UNCHANGED <<size, function, held>>
    BY DEF CompoundStatement, In
  <1>2. refs \in [Handles -> Nat] /\ function' \in [Handles -> Names \cup {NoName}]
    BY <1>1, CountedTypes
  <1>3. \A h \in Handles : refs[h] = held[h] + InGlobals(h) + InStack(stack, h) + (IF NULL = h THEN 1 ELSE 0)
    <2> SUFFICES ASSUME NEW h \in Handles
                 PROVE  refs[h] = held[h] + InGlobals(h) + InStack(stack, h) + (IF NULL = h THEN 1 ELSE 0)
      OBVIOUS
    <2>1. refs[h] = held[h] + InGlobals(h) + InStack(stack, h) + OnWay(h)
      BY OwnerFacts
    <2>2. OnWay(h) = 0 /\ (IF NULL = h THEN 1 ELSE 0) = 0
      BY <1>1, NoneOnWay
    <2> QED
      BY ONLY <2>1, <2>2
  <1>4. \A h \in Handles : h > size' => refs[h] = 0
    BY <1>1 DEF Counted, Unborn
  <1>5. Inv /\ Counted /\ NULL \in Handles \cup {NULL} /\ held' = held
    BY <1>1
  <1> QED
    BY ONLY <1>1, <1>2, <1>3, <1>4, <1>5, LeaveBodyCounts

LEMMA ReturnCounts ==
  ASSUME Inv, Counted, Return
  PROVE  Counted'
  <1>1. /\ returned.status = "OK" /\ returned.use.to = "return"
        /\ LeaveBody(refs, "OK", returned.value) /\ UNCHANGED <<size, function, held>>
    BY DEF Return
  <1>2. returned # NoReturn
    BY <1>1 DEF NoReturn
  <1>3. stack # <<>> /\ Last(stack).kind = "body"
    BY <1>1, <1>2, TopKind
  <1>4. refs \in [Handles -> Nat] /\ function' \in [Handles -> Names \cup {NoName}]
    BY <1>1, CountedTypes
  <1>5. \A h \in Handles :
          refs[h] = held[h] + InGlobals(h) + InStack(stack, h) + (IF returned.value = h THEN 1 ELSE 0)
    BY OwnerFacts DEF OnWay
  <1>6. \A h \in Handles : h > size' => refs[h] = 0
    BY <1>1 DEF Counted, Unborn
  <1>7. Inv /\ Counted /\ returned.value \in Handles \cup {NULL} /\ held' = held
    BY <1>1 DEF Counted
  <1> QED
    BY ONLY <1>1, <1>3, <1>4, <1>5, <1>6, <1>7, LeaveBodyCounts

\* The expression of a statement that fails has been released, or has none.
LEMMA FailStatementCounts ==
  ASSUME Inv, Counted, returned # NoReturn, returned.use.to # "argument",
         NEW counts \in [Handles -> Nat], FailStatement(counts),
         UNCHANGED <<size, function, held>>,
         \A h \in Handles : counts[h] = refs[h] - OnWay(h)
  PROVE  Counted'
  <1>1. function \in [Handles -> Names \cup {NoName}] /\ refs \in [Handles -> Nat] /\ held \in [Handles -> Nat]
    BY CountedTypes
  <1>2. ASSUME NEW h \in Handles
        PROVE  counts[h] = held[h] + InGlobals(h) + InStack(stack, h) + 0
    <2>1. /\ held[h] \in Nat /\ InGlobals(h) \in Nat /\ InStack(stack, h) \in Nat /\ OnWay(h) \in {0, 1}
          /\ refs[h] = held[h] + InGlobals(h) + InStack(stack, h) + OnWay(h)
      BY OwnerFacts
    <2> DEFINE a == held[h]  b == InGlobals(h)  s == InStack(stack, h)  w == OnWay(h)
    <2>2. /\ a \in Nat /\ b \in Nat /\ s \in Nat /\ w \in {0, 1}
          /\ counts[h] = (a + b + s + w) - w
      BY <2>1
    <2> HIDE DEF a, b, s, w
    <2>3. counts[h] = a + b + s + 0
      BY ONLY <2>2
    <2> QED
      BY <2>3 DEF a, b, s
  <1>3. ASSUME NEW h \in Handles, h > size PROVE counts[h] = 0
    <2>1. held[h] = 0 /\ InGlobals(h) = 0 /\ InStack(stack, h) = 0
      BY <1>3, NoOwner
    <2> QED
      BY <1>2, <2>1
  <1>4. CASE stack = <<>>
    <2>1. refs' = counts /\ returned' = NoReturn /\ UNCHANGED <<globals, depth, stack>>
      BY <1>4 DEF FailStatement
    <2>2. Unborn'
      BY <1>3, <2>1 DEF Unborn
    <2>3. OwnershipExact'
      <3> SUFFICES ASSUME NEW h \in Handles
                   PROVE  refs'[h] = held'[h] + InGlobals(h)' + InStack(stack, h)' + OnWay(h)'
        BY DEF OwnershipExact, InGlobals, InStack, OnWay
      <3>1. /\ held'[h] = held[h] /\ InGlobals(h)' = InGlobals(h) /\ InStack(stack, h)' = InStack(stack, h)
            /\ OnWay(h)' = 0 /\ refs'[h] = counts[h]
        BY <2>1 DEF InGlobals, Bound, InStack, OnWay, NoReturn
      <3> QED
        BY <1>2, <3>1
    <2>4. Proper(returned'.use, Len(stack))
      BY <2>1 DEF NoReturn, Proper, Use
    <2>5. Room'
      BY <2>1, <2>4, RoomStays DEF Counted
    <2>6. returned'.value = NULL /\ refs' \in [Handles -> Nat] /\ depth' <= MaxCallDepth
      BY <2>1 DEF NoReturn, Counted
    <2> QED
      BY <1>1, <2>2, <2>3, <2>5, <2>6 DEF Counted
  <1>5. CASE stack # <<>>
    <2>1. LeaveBody(counts, "FAILED", NULL)
      BY <1>5 DEF FailStatement
    <2>2. Last(stack).kind = "body"
      BY <1>5, TopKind
    <2>3. \A h \in Handles :
            counts[h] = held[h] + InGlobals(h) + InStack(stack, h) + (IF NULL = h THEN 1 ELSE 0)
      <3>1. \A h \in Handles : (IF NULL = h THEN 1 ELSE 0) = 0
        OBVIOUS
      <3> QED
        BY ONLY <1>2, <3>1
    <2>4. \A h \in Handles : h > size' => counts[h] = 0
      BY <1>3
    <2>5. /\ Inv /\ Counted /\ NULL \in Handles \cup {NULL} /\ held' = held
          /\ counts \in [Handles -> Nat] /\ function' \in [Handles -> Names \cup {NoName}]
      BY <1>1
    <2> QED
      BY ONLY <1>5, <2>1, <2>2, <2>3, <2>4, <2>5, LeaveBodyCounts
  <1> QED
    BY <1>4, <1>5

LEMMA FailedCounts ==
  ASSUME Inv, Counted, Failed
  PROVE  Counted'
  <1>1. returned.status = "FAILED" /\ UNCHANGED <<size, function, defined, held>>
    BY DEF Failed
  <1>2. returned # NoReturn /\ returned.value = NULL /\ returned.status # "OK"
    BY <1>1 DEF NoReturn, Counted
  <1>3. CASE returned.use.to = "argument"
    <2>1. /\ refs' = DropAll(refs, Last(stack).args) /\ stack' = Front(stack)
          /\ returned' = Returned("FAILED", NULL, Last(stack).use)
          /\ UNCHANGED <<globals, depth>>
      BY <1>3 DEF Failed
    <2>2. stack # <<>> /\ Last(stack).kind = "call"
      BY <1>2, <1>3, TopKind
    <2>3. Inv /\ Counted
      OBVIOUS
    <2> QED
      BY ONLY <1>1, <1>2, <2>1, <2>2, <2>3, FailedCallCounts
  <1>4. CASE returned.use.to # "argument"
    <2>1. FailStatement(refs)
      BY <1>4 DEF Failed
    <2>2. refs \in [Handles -> Nat]
      BY CountedTypes
    <2>3. \A h \in Handles : refs[h] = refs[h] - OnWay(h)
      <3>1. \A h \in Handles : OnWay(h) = 0
        BY <1>2 DEF OnWay
      <3> QED
        BY <2>2, <3>1
    <2>4. Inv /\ Counted
      OBVIOUS
    <2> QED
      BY ONLY <1>1, <1>2, <1>4, <2>1, <2>2, <2>3, <2>4, FailStatementCounts
  <1> QED
    BY <1>3, <1>4

LEMMA AugmentStepCounts ==
  ASSUME Inv, Counted, Augment
  PROVE  Counted'
  <1>1. returned.status = "OK" /\ returned.use.to = "augment" /\ UNCHANGED <<defined, held>>
    BY DEF Augment
  <1>2. Inv /\ Counted
    OBVIOUS
  <1>3. CASE /\ Append1(NoName)
             /\ refs' = Drop([Drop(refs, returned.value) EXCEPT ![size + 1] = 1],
                             globals[returned.use.name])
             /\ globals' = [globals EXCEPT ![returned.use.name] = size + 1]
             /\ returned' = NoReturn /\ UNCHANGED <<depth, stack>>
    BY ONLY <1>1, <1>2, <1>3, AugmentCounts
  <1>4. CASE FailStatement(Drop(refs, returned.value)) /\ UNCHANGED <<size, function>>
    <2>1. returned # NoReturn /\ returned.use.to # "argument"
      BY <1>1 DEF NoReturn
    <2>2. returned.value \in Handles
      BY <1>1 DEF Inv, Shape
    <2>3. refs[returned.value] > 0 /\ refs \in [Handles -> Nat]
      BY <2>2, ResultAlive, CountedTypes
    <2> DEFINE counts == Drop(refs, returned.value)
               v == returned.value
    <2>4. counts \in [Handles -> Nat]
      BY <2>2, <2>3, DropFacts
    <2>5. \A h \in Handles : counts[h] = refs[h] - OnWay(h)
      <3> HIDE DEF v
      <3>1. \A h \in Handles : Drop(refs, v)[h] = refs[h] - (IF h = v THEN 1 ELSE 0)
        BY <2>2, <2>3, DropFacts DEF v
      <3>2. \A h \in Handles : OnWay(h) = IF h = v THEN 1 ELSE 0
        BY DEF OnWay, v
      <3> QED
        BY <3>1, <3>2 DEF v
    <2>6. FailStatement(counts)
      BY <1>4
    <2> HIDE DEF counts
    <2> QED
      BY ONLY <1>1, <1>2, <1>4, <2>1, <2>4, <2>5, <2>6, FailStatementCounts
  <1> QED
    BY <1>3, <1>4 DEF Augment

\* Each argument is bound to one parameter.
LEMMA ArgumentsBound ==
  ASSUME NEW args \in Seq(Handles), NEW params \in Seq(Names), IsInjective(params),
         Len(args) = Len(params), NEW g \in Bindings,
         \A i \in DOMAIN params : g[params[i]] = args[i],
         NEW h \in Handles
  PROVE  Bound(g, Range(params), h) = Occurrences(args, h)
  <1> DEFINE A == {i \in DOMAIN args : args[i] = h}
             B == {n \in Range(params) : g[n] = h}
             f == [i \in A |-> params[i]]
  <1>1. /\ DOMAIN args = 1 .. Len(args) /\ DOMAIN params = 1 .. Len(args) /\ Len(args) \in Nat
    BY LenProperties
  <1>2. IsFiniteSet(A)
    <2>1. IsFiniteSet(1 .. Len(args))
      BY <1>1, FS_Interval
    <2> QED
      BY <1>1, <2>1, FS_Subset
  <1>3. ASSUME NEW i \in DOMAIN params PROVE params[i] \in Range(params) /\ g[params[i]] = args[i]
    <2>1. params[i] \in Range(params)
      BY DEF Range
    <2> QED
      BY <2>1
  <1>4. f \in Bijection(A, B)
    <2>1. \A i \in A : i \in DOMAIN params /\ f[i] = params[i] /\ f[i] \in B
      BY <1>1, <1>3
    <2>2. DOMAIN f = A
      OBVIOUS
    <2>3. \A n \in B : \E i \in A : f[i] = n
      <3> SUFFICES ASSUME NEW n \in B PROVE \E i \in A : f[i] = n
        OBVIOUS
      <3>1. PICK i \in DOMAIN params : params[i] = n
        BY DEF Range
      <3>2. args[i] = h /\ i \in DOMAIN args
        BY <1>1, <1>3, <3>1
      <3> QED
        BY <3>1, <3>2
    <2>4. \A i, j \in A : f[i] = f[j] => i = j
      BY <2>1 DEF IsInjective
    <2>5. f \in [A -> B]
      BY <2>1, <2>2
    <2> HIDE DEF f, A, B
    <2>6. f \in Surjection(A, B)
      BY <2>3, <2>5 DEF Surjection, Range
    <2>7. f \in Injection(A, B)
      BY <2>4, <2>5 DEF Injection, IsInjective
    <2> QED
      BY <2>6, <2>7 DEF Bijection
  <1> HIDE DEF f, A, B
  <1>5. ExistsBijection(A, B)
    BY <1>4 DEF ExistsBijection
  <1>6. Cardinality(B) = Cardinality(A)
    BY <1>2, <1>5, FS_Bijection
  <1> QED
    BY <1>6 DEF A, B, Bound, Occurrences

\* A call becomes a body: what its parameters were bound to is saved, and the
\* arguments are bound instead.
LEMMA EnterCounts ==
  ASSUME Inv, Counted, stack # <<>>, Last(stack).kind = "call", returned = NoReturn,
         UNCHANGED <<size, function, held, returned>>, depth' = depth + 1, depth < MaxCallDepth,
         NEW b \in BodyFrames, b.use = Last(stack).use, stack' = Append(Front(stack), b),
         \A n \in DOMAIN b.saved : b.saved[n] = globals[n],
         NEW P \in SUBSET Names,
         \A n \in Names \ P : globals'[n] = globals[n],
         \A h \in Handles : Bound(globals', P, h) = Occurrences(Last(stack).args, h),
         refs' = [h \in Handles |->
                    refs[h] + Bound(globals, DOMAIN b.saved, h) - Bound(globals, P, h)]
  PROVE  Counted'
  <1> DEFINE call == Last(stack)
             D == DOMAIN b.saved
  <1>1. /\ call \in Frames /\ Proper(call.use, Len(stack) - 1)
        /\ Front(stack) \in Seq(Frames) /\ Sized(Front(stack))
        /\ Len(stack) \in Nat /\ Len(stack) > 0 /\ Len(Front(stack)) = Len(stack) - 1
        /\ \A i \in 1 .. Len(stack) - 1 : Front(stack)[i] = stack[i]
        /\ \A h \in Handles :
             /\ InRow(Row(call), h) \in Nat /\ InStack(Front(stack), h) \in Nat
             /\ InStack(stack, h) = InStack(Front(stack), h) + InRow(Row(call), h)
    BY TopCount
  <1>2. b \in Frames /\ b.kind = "body" /\ b.saved \in SavedBindings
    BY DEF Frames, BodyFrames
  <1>3. D \in SUBSET Names
    BY <1>2 DEF SavedBindings
  <1>4. \A h \in Handles : InRow(Row(call), h) = Occurrences(call.args, h)
    BY <1>1, RowCounts
  <1>5. \A h \in Handles : InRow(Row(b), h) = Bound(globals, D, h)
    <2> SUFFICES ASSUME NEW h \in Handles PROVE InRow(Row(b), h) = Bound(globals, D, h)
      OBVIOUS
    <2>1. InRow(Row(b), h) = Bound(b.saved, D, h)
      BY <1>2, RowCounts
    <2>2. {n \in D : b.saved[n] = h} = {n \in D : globals[n] = h}
      OBVIOUS
    <2> QED
      BY <2>1, <2>2 DEF Bound
  <1>6. /\ refs \in [Handles -> Nat] /\ held \in [Handles -> Nat]
        /\ function \in [Handles -> Names \cup {NoName}]
    BY CountedTypes
  <1> HIDE DEF call, D
  <1>7. /\ stack' \in Seq(Frames) /\ Len(stack') = Len(Front(stack)) + 1
        /\ \A i \in 1 .. Len(Front(stack)) : stack'[i] = Front(stack)[i]
        /\ stack'[Len(Front(stack)) + 1] = b
    <2>1. Front(stack) \in Seq(Frames) /\ b \in Frames /\ stack' = Append(Front(stack), b)
      BY <1>1, <1>2
    <2> QED
      BY ONLY <2>1, PushFacts
  <1>8. \A h \in Handles : /\ InRow(Row(b), h) \in Nat
                           /\ InStack(stack', h) = InStack(Front(stack), h) + InRow(Row(b), h)
    <2>1. Front(stack) \in Seq(Frames) /\ Sized(Front(stack)) /\ b \in Frames
          /\ (b.kind = "call" => Len(b.args) <= MaxArgs)
      BY <1>1, <1>2
    <2> QED
      BY ONLY <1>7, <2>1, NewTop
  <1>9. ASSUME NEW h \in Handles
        PROVE  /\ refs[h] + Bound(globals, D, h) - Bound(globals, P, h) \in Nat
               /\ refs[h] + Bound(globals, D, h) - Bound(globals, P, h) =
                    held[h] + InGlobals(h)' + InStack(stack', h) + 0
    <2> DEFINE a == held[h]  s == InStack(Front(stack), h)  o == Occurrences(call.args, h)
               d == Bound(globals, D, h)
               p == Bound(globals, P, h)  q == Bound(globals, Names \ P, h)
               g == InGlobals(h)'
    <2>1. p \in Nat /\ q \in Nat /\ InGlobals(h) = p + q
      BY BoundFacts DEF InGlobals
    <2>2. d \in Nat
      BY <1>3, BoundFacts
    <2>3. Bound(globals', P, h) = o
      BY DEF call
    <2>4. Bound(globals', Names \ P, h) = q
      <3>1. {n \in Names \ P : globals'[n] = h} = {n \in Names \ P : globals[n] = h}
        OBVIOUS
      <3> QED
        BY <3>1 DEF Bound
    <2>5. g = Bound(globals', Names, h)
      BY DEF InGlobals, Bound
    <2>6. Bound(globals', Names, h) = Bound(globals', P, h) + Bound(globals', Names \ P, h)
      BY ONLY P \in SUBSET Names, BoundFacts
    <2>7. g = o + q
      BY <2>3, <2>4, <2>5, <2>6
    <2>8. refs[h] = held[h] + InGlobals(h) + InStack(stack, h) + OnWay(h) /\ OnWay(h) = 0
      BY OwnerFacts, NoneOnWay
    <2>9. a \in Nat /\ s \in Nat /\ o \in Nat
      BY <1>1, <1>4, <1>6
    <2>10. refs[h] = a + (p + q) + (s + o) + 0
      BY <1>1, <1>4, <2>1, <2>8
    <2>11. InStack(stack', h) = s + d
      BY <1>5, <1>8
    <2> HIDE DEF a, s, o, d, p, q, g
    <2>12. refs[h] + d - p \in Nat /\ refs[h] + d - p = a + g + InStack(stack', h) + 0
      BY ONLY <2>1, <2>2, <2>7, <2>9, <2>10, <2>11
    <2> QED
      BY <2>12 DEF a, d, p, g
  <1>10. /\ refs' \in [Handles -> Nat]
         /\ \A h \in Handles : refs'[h] = refs[h] + Bound(globals, D, h) - Bound(globals, P, h)
    <2>1. refs' = [h \in Handles |-> refs[h] + Bound(globals, D, h) - Bound(globals, P, h)]
      BY DEF D
    <2>2. \A h \in Handles : refs[h] + Bound(globals, D, h) - Bound(globals, P, h) \in Nat
      BY <1>9
    <2> QED
      BY ONLY <2>1, <2>2
  <1>11. OwnershipExact'
    <2> SUFFICES ASSUME NEW h \in Handles
                 PROVE  refs'[h] = held'[h] + InGlobals(h)' + InStack(stack, h)' + OnWay(h)'
      BY DEF OwnershipExact, InGlobals, InStack, OnWay
    <2>1. InStack(stack, h)' = InStack(stack', h)
      BY DEF InStack
    <2>2. held'[h] = held[h] /\ OnWay(h)' = 0
      BY DEF OnWay, NoReturn
    <2>3. refs'[h] = held[h] + InGlobals(h)' + InStack(stack', h) + 0
      BY <1>9, <1>10
    <2> QED
      BY ONLY <2>1, <2>2, <2>3
  <1>12. Unborn'
    <2> SUFFICES ASSUME NEW h \in Handles, h > size PROVE refs'[h] = 0
      BY DEF Unborn
    <2>1. refs[h] = 0 /\ \A n \in Names : globals[n] # h
      BY NoOwner
    <2>2. Bound(globals, D, h) = 0 /\ Bound(globals, P, h) = 0
      <3>1. {n \in D : globals[n] = h} = {} /\ {n \in P : globals[n] = h} = {}
        BY <1>3, <2>1
      <3> QED
        BY <3>1, FS_EmptySet DEF Bound
    <2> QED
      BY <1>10, <2>1, <2>2
  <1>13. Room'
    <2>1. PICK k \in Nat : k = Len(stack) - 1 /\ Len(stack) = k + 1
      BY <1>1
    <2>2. /\ Len(stack) \in {k, k + 1} /\ Len(stack') \in {k, k + 1}
          /\ \A i \in 1 .. k : stack'[i] = stack[i]
          /\ stack'[k + 1].kind = "call" => Len(stack'[k + 1].args) <= MaxArgs
          /\ stack'[k + 1] = b
      BY <1>1, <1>2, <1>7, <2>1
    <2>3. Proper(stack'[k + 1].use, k)
      BY <1>1, <2>1, <2>2 DEF call
    <2>4. Room /\ returned' = NoReturn /\ stack' \in Seq(Frames)
      BY <1>7 DEF Counted
    <2> QED
      BY ONLY Inv, <2>2, <2>3, <2>4, RoomStep
  <1>14. depth' <= MaxCallDepth
    <2>1. depth \in Nat /\ MaxCallDepth \in Nat
      BY FunctionFramesAssumption DEF Inv, Shape
    <2> QED
      BY <2>1
  <1>15. returned'.value = NULL
    BY DEF NoReturn
  <1>16. held' \in [Handles -> Nat] /\ function' \in [Handles -> Names \cup {NoName}]
    BY <1>6
  <1> QED
    BY <1>10, <1>11, <1>12, <1>13, <1>14, <1>15, <1>16 DEF Counted

LEMMA InvokeCounts ==
  ASSUME Inv, Counted, Invoke
  PROVE  Counted'
  <1> DEFINE call == Last(stack)
             d == defined[call.name]
             refuse == Len(call.args) # Len(d.params) \/ TooDeep
             b == Body(call.name, call.use, [n \in Locals(d) |-> globals[n]])
             P == Range(d.params)
  <1>1. /\ stack # <<>> /\ returned = NoReturn /\ call.kind = "call"
        /\ UNCHANGED <<size, function, defined, held>>
    BY DEF Invoke, In
  <1>2. Inv /\ Counted
    OBVIOUS
  <1>3. CASE refuse
    <2>1. /\ refs' = DropAll(refs, call.args) /\ stack' = Front(stack)
          /\ returned' = Returned("FAILED", NULL, call.use)
          /\ UNCHANGED <<globals, depth>>
      BY <1>3 DEF Invoke
    <2>2. returned.status # "OK"
      BY <1>1 DEF NoReturn
    <2> QED
      BY ONLY <1>1, <1>2, <2>1, <2>2, FailedCallCounts
  <1>4. CASE ~refuse
    <2>1. /\ refs' = Saved(d)
          /\ globals' = [n \in Names |->
                          IF n \in P
                          THEN call.args[CHOOSE i \in DOMAIN d.params : d.params[i] = n]
                          ELSE globals[n]]
          /\ depth' = depth + 1 /\ stack' = Append(Front(stack), b) /\ UNCHANGED returned
          /\ Len(call.args) = Len(d.params) /\ ~TooDeep
      BY <1>4 DEF Invoke
    <2>2. PICK m \in DOMAIN stack : call = stack[m]
      BY <1>1, TopFacts DEF Inv, Shape
    <2>3. call.use \in AllUses /\ call.name \in Names /\ call.args \in Seq(Handles)
      BY <1>1, <2>2, EntryFacts DEF Inv
    <2>4. d \in Definitions /\ d.params \in Seq(Names) /\ d.assigned \subseteq Names
          /\ IsInjective(d.params)
      <3>1. d # Undefined /\ defined \in [Names -> Definitions \cup {Undefined}]
        BY <2>2 DEF Inv, Shape
      <3>2. d \in Definitions
        BY <2>3, <3>1
      <3> QED
        BY <3>2, FunctionFramesAssumption
    <2>5. P \subseteq Names /\ Locals(d) \subseteq Names
      <3>1. DOMAIN d.params = 1 .. Len(d.params)
        BY <2>4, LenProperties
      <3>2. \A i \in DOMAIN d.params : d.params[i] \in Names
        BY <2>4, <3>1, ElementOfSeq
      <3> QED
        BY <2>4, <3>2 DEF Range, Locals
    <2>6. depth < MaxCallDepth
      <3>1. depth \in Nat /\ MaxCallDepth \in Nat
        BY FunctionFramesAssumption DEF Inv, Shape
      <3> QED
        BY <2>1, <3>1 DEF TooDeep
    <2>7. /\ b.use = call.use /\ b.saved = [n \in Locals(d) |-> globals[n]]
          /\ DOMAIN b.saved = Locals(d)
          /\ \A n \in DOMAIN b.saved : b.saved[n] = globals[n]
      BY DEF Body
    <2>8. b \in BodyFrames
      <3>1. globals \in Bindings
        BY DEF Inv, Shape
      <3>2. [n \in Locals(d) |-> globals[n]] \in [Locals(d) -> Handles \cup {NULL}]
        BY <2>5, <3>1 DEF Bindings
      <3>3. [n \in Locals(d) |-> globals[n]] \in SavedBindings
        BY <2>5, <3>2 DEF SavedBindings
      <3> QED
        BY <2>3, <3>1, <3>3 DEF Body, BodyFrames
    <2>9. ASSUME NEW h \in Handles PROVE Bound(globals', P, h) = Occurrences(call.args, h)
      <3> DEFINE args == call.args
                 params == d.params
                 g == globals'
      <3>1. args \in Seq(Handles) /\ params \in Seq(Names) /\ IsInjective(params)
            /\ Len(args) = Len(params)
        BY <2>1, <2>3, <2>4
      <3>2. ASSUME NEW i \in DOMAIN params PROVE g[params[i]] = args[i]
        <4>1. params[i] \in P /\ params[i] \in Names
          BY <2>5 DEF Range
        <4> DEFINE c == CHOOSE j \in DOMAIN params : params[j] = params[i]
        <4>2. c \in DOMAIN params /\ params[c] = params[i]
          OBVIOUS
        <4>3. c = i
          BY <3>1, <4>2 DEF IsInjective
        <4>4. g[params[i]] = args[c]
          BY <2>1, <4>1
        <4> QED
          BY <4>3, <4>4
      <3>0. g \in Bindings
        <4>1. Inv'
          BY InvokeKeeps
        <4> QED
          BY <4>1 DEF Inv, Shape
      <3> HIDE DEF args, params, g
      <3>3. Bound(g, Range(params), h) = Occurrences(args, h)
        BY ONLY <3>0, <3>1, <3>2, h \in Handles, ArgumentsBound
      <3> QED
        BY <3>3 DEF args, params, g
    <2>10. \A n \in Names \ P : globals'[n] = globals[n]
      BY <2>1
    <2>11. refs' = [h \in Handles |->
                      refs[h] + Bound(globals, DOMAIN b.saved, h) - Bound(globals, P, h)]
      BY <2>1, <2>7 DEF Saved
    <2>12. P \in SUBSET Names
      BY <2>5
    <2> HIDE DEF b, d, P, refuse
    <2> QED
      BY ONLY <1>1, <1>2, <2>1, <2>6, <2>7, <2>8, <2>9, <2>10, <2>11, <2>12, EnterCounts
  <1> QED
    BY <1>3, <1>4

(***************************************************************************)
(* The counts in every reachable state.                                    *)
(***************************************************************************)
LEMMA CountedInit == Init => Counted
  <1> SUFFICES ASSUME Init PROVE Counted
    OBVIOUS
  <1>1. /\ refs = [h \in Handles |-> 0] /\ held = [h \in Handles |-> 0]
        /\ function = [h \in Handles |-> NoName] /\ globals = [n \in Names |-> NULL]
        /\ depth = 0 /\ stack = <<>> /\ returned = NoReturn
    BY DEF Init
  <1>2. MaxCallDepth \in Nat
    BY FunctionFramesAssumption
  <1>3. returned.value = NULL /\ returned.status = "NONE" /\ Proper(returned.use, Len(stack))
    BY <1>1 DEF NoReturn, Proper, Use
  <1>4. stack \in Seq(Frames) /\ DOMAIN stack = {}
    BY <1>1
  <1>5. Sized(stack) /\ Room
    BY <1>3, <1>4 DEF Sized, Room
  <1>6. Unborn
    BY <1>1 DEF Unborn
  <1>7. OwnershipExact
    <2> SUFFICES ASSUME NEW h \in Handles
                 PROVE  refs[h] = held[h] + InGlobals(h) + InStack(stack, h) + OnWay(h)
      BY DEF OwnershipExact, InGlobals, InStack, OnWay
    <2>1. InGlobals(h) = 0
      <3>1. {n \in Names : globals[n] = h} = {}
        BY <1>1
      <3> QED
        BY <3>1, FS_EmptySet DEF InGlobals, Bound
    <2>2. InStack(stack, h) = 0
      <3>1. DOMAIN Kept(stack) = {}
        BY <1>4 DEF Kept
      <3>2. Places(Kept(stack), h) = {}
        BY <3>1 DEF Places
      <3> QED
        BY <3>2, FS_EmptySet DEF InStack
    <2>3. OnWay(h) = 0
      BY <1>3 DEF OnWay
    <2> QED
      BY <1>1, <2>1, <2>2, <2>3
  <1>8. refs \in [Handles -> Nat] /\ held \in [Handles -> Nat]
        /\ function \in [Handles -> Names \cup {NoName}] /\ depth <= MaxCallDepth
    BY <1>1, <1>2
  <1> QED
    BY <1>3, <1>5, <1>6, <1>7, <1>8 DEF Counted

LEMMA CountedNext ==
  ASSUME Inv, Counted, [Next]_vars
  PROVE  Counted'
  <1>1. CASE UNCHANGED vars
    <2>1. UNCHANGED <<size, refs, function, globals, depth, stack, returned, held>>
      BY <1>1 DEF vars, values
    <2>2. Proper(returned'.use, Len(stack))
      BY <2>1 DEF Counted, Room
    <2>3. Room'
      BY <2>1, <2>2, RoomStays DEF Counted
    <2>4. OwnershipExact' /\ Unborn'
      BY <2>1 DEF Counted, OwnershipExact, Unborn, Bound
    <2> QED
      BY <2>1, <2>3, <2>4 DEF Counted
  <1>2. CASE \/ \E n \in Names, h \in Handles : SetGlobal(n, h)
             \/ \E n \in Names : DeleteGlobal(n)
             \/ \E h \in Handles : Release(h)
             \/ \E d \in Definitions : DefineFunction(d)
    BY <1>2, SetGlobalCounts, DeleteGlobalCounts, ReleaseCounts, DefineFunctionCounts
  <1>3. CASE \E use \in NextUses :
               \/ \E n \in Names : EvaluateName(n, use) \/ EvaluateCall(n, use)
               \/ EvaluateLiteral(use)
    BY <1>3, EvaluateNameCounts, EvaluateCallCounts, EvaluateLiteralCounts
  <1>4. CASE Invoke \/ EndOfBody \/ CompoundStatement
    BY <1>4, InvokeCounts, EndOfBodyCounts, CompoundStatementCounts
  <1>5. CASE Failed \/ TakeArgument \/ ToHost \/ DropResult \/ Assign \/ Augment \/ Return
    BY <1>5, FailedCounts, TakeArgumentCounts, ToHostCounts, DropResultCounts, AssignCounts,
       AugmentStepCounts, ReturnCounts
  <1> QED
    BY ONLY [Next]_vars, <1>1, <1>2, <1>3, <1>4, <1>5 DEF Next

\* Every count is right in every reachable state.
LEMMA CountedAlways == Spec => [](Inv /\ Counted)
  <1>1. Init => Inv /\ Counted
    BY InvInit, CountedInit
  <1>2. (Inv /\ Counted) /\ [Next]_vars => (Inv /\ Counted)'
    BY InvNext, CountedNext
  <1> QED
    BY <1>1, <1>2, PTL DEF Spec

\* The values of the variables, whatever functions the source defines: the
\* depth stays within its limit, and an entry of the stack collects no more
\* arguments, and saves no other names, than its function has.
THEOREM FunctionTypes == Spec => []TypeOK
  <1>1. ASSUME Inv, Counted PROVE TypeOK
    <2>1. depth \in 0 .. MaxCallDepth
      BY <1>1, FunctionFramesAssumption DEF Inv, Shape, Counted
    <2>2. stack \in Seq(Calls \cup BodyFrames)
      BY <1>1 DEF Inv, Shape, Frames
    <2>3. \A i \in DOMAIN stack :
            /\ defined[stack[i].name] # Undefined
            /\ stack[i].kind = "call" => Len(stack[i].args) <= MaxArgs
            /\ stack[i].kind = "body" => DOMAIN stack[i].saved = Locals(defined[stack[i].name])
      BY <1>1 DEF Inv, Shape, Counted, Room, Sized
    <2>4. /\ size \in 0 .. MaxValues /\ globals \in Bindings
          /\ defined \in [Names -> Definitions \cup {Undefined}]
          /\ returned.status \in {"NONE", "OK", "FAILED"} /\ returned.use \in AllUses
      BY <1>1 DEF Inv, Shape
    <2>5. /\ refs \in [Handles -> Nat] /\ held \in [Handles -> Nat]
          /\ function \in [Handles -> Names \cup {NoName}]
          /\ returned.value \in Handles \cup {NULL}
      BY <1>1 DEF Counted
    <2> QED
      BY <2>1, <2>2, <2>3, <2>4, <2>5 DEF TypeOK
  <1>2. Inv /\ Counted => TypeOK
    BY <1>1
  <1> QED
    BY <1>2, CountedAlways, PTL

\* Every reference to a value has one owner, through any nesting of calls that
\* return, fail, are refused or reach the depth limit: none is lost when the
\* saved globals come back, and none is released twice.
THEOREM FunctionOwnership == Spec => []OwnershipExact
  <1>1. Inv /\ Counted => OwnershipExact
    BY DEF Counted
  <1> QED
    BY <1>1, CountedAlways, PTL
=============================================================================
