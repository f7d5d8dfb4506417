--------------------------- MODULE FunctionFrames ---------------------------
(***************************************************************************)
(* Functions defined by interpreted source (native_api_functions.py), in   *)
(* one runtime that is not destroyed.                                      *)
(*                                                                         *)
(* There are no local scopes: a call saves the globals its body may        *)
(* assign, binds the arguments over them and puts the saved ones back when *)
(* the body returns or fails.  A function is its parameters and the other  *)
(* names its body assigns; which statements the body consists of is left   *)
(* open, so a body here runs any statements that assign only those names.  *)
(*                                                                         *)
(* stack is the C stack: calls whose arguments are being evaluated, and    *)
(* bodies in execution.  returned is the result of the expression that has *)
(* just been evaluated, and what it is for.                                *)
(***************************************************************************)
EXTENDS Naturals, FiniteSets, SequencesExt

CONSTANTS
  Names,         \* names of globals, functions and parameters
  Definitions,   \* functions that source may define
  MaxValues,     \* bound: values ever appended
  MaxArgs,       \* bound: arguments of a call
  MaxCallDepth,  \* _MAX_CALL_DEPTH
  MaxNesting,    \* bound: calls and bodies on the stack
  MaxHeld        \* bound: references the host owns to one value

ASSUME FunctionFramesAssumption ==
  /\ IsFiniteSet(Names)
  /\ Definitions \subseteq [name : Names, params : Seq(Names), assigned : SUBSET Names]
  /\ \A d \in Definitions : IsInjective(d.params)
  /\ {MaxValues, MaxArgs, MaxCallDepth, MaxNesting, MaxHeld} \subseteq Nat

VARIABLES
  size,       \* values appended so far
  refs,       \* _value_refs
  function,   \* the function a callable value stands for
  globals,    \* the global table
  defined,    \* the function tables, by name
  depth,      \* _call_depth
  stack,      \* calls and bodies in progress, newest last
  returned,   \* the result of an expression, on its way
  held        \* history: references the host owns

values == <<size, refs, function>>
vars == <<values, globals, defined, depth, stack, returned, held>>

NULL == 0
Handles == 1 .. MaxValues
NoName == "unnamed"
Undefined == [name |-> NoName, params |-> <<>>, assigned |-> {}]

Use(to, n) == [to |-> to, name |-> n]
Plain(to) == Use(to, NoName)
Returned(status, value, use) == [status |-> status, value |-> value, use |-> use]
NoReturn == Returned("NONE", NULL, Plain("host"))

\* The names a call of this function saves: _collect_local_names.
Locals(d) == Range(d.params) \cup d.assigned

Call(n, use, args) == [kind |-> "call", name |-> n, use |-> use, args |-> args]
\* before is a history component: every global when the body started.
Body(n, use, saved) ==
  [kind |-> "body", name |-> n, use |-> use, saved |-> saved, before |-> globals]

Bindings == [Names -> Handles \cup {NULL}]
AllUses == [to : {"host", "drop", "argument", "return", "bind", "augment"},
            name : Names \cup {NoName}]
Calls == [kind : {"call"}, name : Names, use : AllUses, args : Seq(Handles)]
SavedBindings == UNION {[names -> Handles \cup {NULL}] : names \in SUBSET Names}
BodyFrames ==
  [kind : {"body"}, name : Names, use : AllUses, saved : SavedBindings, before : Bindings]

TypeOK ==
  /\ size \in 0 .. MaxValues
  /\ refs \in [Handles -> Nat]
  /\ held \in [Handles -> Nat]
  /\ function \in [Handles -> Names \cup {NoName}]
  /\ globals \in Bindings
  /\ defined \in [Names -> Definitions \cup {Undefined}]
  /\ depth \in 0 .. MaxCallDepth
  /\ stack \in Seq(Calls \cup BodyFrames)
  /\ \A i \in DOMAIN stack :
       /\ defined[stack[i].name] # Undefined
       /\ stack[i].kind = "call" => Len(stack[i].args) <= MaxArgs
       /\ stack[i].kind = "body" => DOMAIN stack[i].saved = Locals(defined[stack[i].name])
  /\ returned.status \in {"NONE", "OK", "FAILED"}
  /\ returned.value \in Handles \cup {NULL}
  /\ returned.use \in AllUses

Init ==
  /\ size = 0
  /\ refs = [h \in Handles |-> 0]
  /\ function = [h \in Handles |-> NoName]
  /\ globals = [n \in Names |-> NULL]
  /\ defined = [n \in Names |-> Undefined]
  /\ depth = 0
  /\ stack = <<>>
  /\ returned = NoReturn
  /\ held = [h \in Handles |-> 0]

(***************************************************************************)
(* Helpers.                                                                *)
(***************************************************************************)
Valid(h) == h # NULL /\ refs[h] > 0

Keep(f, h) == [f EXCEPT ![h] = @ + 1]
Drop(f, h) == IF h = NULL \/ f[h] = 0 THEN f ELSE [f EXCEPT ![h] = @ - 1]

Occurrences(args, h) == Cardinality({i \in DOMAIN args : args[i] = h})

\* Every argument is released once, while it is still valid.
DropAll(f, args) ==
  [h \in Handles |->
     LET n == Occurrences(args, h) IN IF f[h] > n THEN f[h] - n ELSE 0]

\* How many of these names are bound to h.
Bound(bindings, names, h) == Cardinality({n \in names : bindings[n] = h})

\* A fresh value, counted once; n is the function it stands for, if any.
Append1(n) ==
  /\ size < MaxValues
  /\ size' = size + 1
  /\ function' = [function EXCEPT ![size + 1] = n]

\* _find_function_slot: a name calls its function only while it is bound to a
\* callable made for that function.
IsFunction(n) ==
  /\ defined[n] # Undefined
  /\ Valid(globals[n]) /\ function[globals[n]] = n

Idle == stack = <<>> /\ returned = NoReturn
In(kind) == stack # <<>> /\ returned = NoReturn /\ Last(stack).kind = kind

(***************************************************************************)
(* The host, between calls.                                                *)
(***************************************************************************)
SetGlobal(n, h) ==
  /\ Idle
  /\ Valid(h) /\ held[h] > 0
  /\ refs' = Drop(Keep(refs, h), globals[n])
  /\ globals' = [globals EXCEPT ![n] = h]
  /\ UNCHANGED <<size, function, defined, depth, stack, returned, held>>

DeleteGlobal(n) ==
  /\ Idle
  /\ globals[n] # NULL
  /\ refs' = Drop(refs, globals[n])
  /\ globals' = [globals EXCEPT ![n] = NULL]
  /\ UNCHANGED <<size, function, defined, depth, stack, returned, held>>

Release(h) ==
  /\ Idle
  /\ held[h] > 0
  /\ refs' = Drop(refs, h)
  /\ held' = [held EXCEPT ![h] = @ - 1]
  /\ UNCHANGED <<size, function, globals, defined, depth, stack, returned>>

\* A def statement: the name's function is replaced, and the name is bound to
\* a fresh callable.
DefineFunction(d) ==
  LET n == d.name IN
  /\ Idle
  /\ Append1(n)
  /\ defined' = [defined EXCEPT ![n] = d]
  /\ refs' = Drop([refs EXCEPT ![size + 1] = 1], globals[n])
  /\ globals' = [globals EXCEPT ![n] = size + 1]
  /\ UNCHANGED <<depth, stack, returned, held>>

(***************************************************************************)
(* Expressions.                                                            *)
(***************************************************************************)
\* What the next expression may be for: the host evaluates it or executes a
\* statement, a call takes it as an argument, a body executes a statement.
NextUses ==
  IF stack = <<>>
  THEN {Plain("host"), Plain("drop")} \cup {Use("bind", n) : n \in Names}
       \cup {Use("augment", n) : n \in Names}
  ELSE IF Last(stack).kind = "call"
  THEN IF Len(Last(stack).args) < MaxArgs THEN {Plain("argument")} ELSE {}
  ELSE {Plain("drop"), Plain("return")}
       \cup {Use(to, n) : to \in {"bind", "augment"},
                          n \in Locals(defined[Last(stack).name])}

EvaluateName(n, use) ==
  /\ returned = NoReturn
  /\ IF Valid(globals[n])
     THEN /\ refs' = Keep(refs, globals[n])
          /\ returned' = Returned("OK", globals[n], use)
     ELSE /\ returned' = Returned("FAILED", NULL, use)
          /\ UNCHANGED refs
  /\ UNCHANGED <<size, function, globals, defined, depth, stack, held>>

EvaluateLiteral(use) ==
  /\ returned = NoReturn
  /\ Append1(NoName)
  /\ refs' = [refs EXCEPT ![size + 1] = 1]
  /\ returned' = Returned("OK", size + 1, use)
  /\ UNCHANGED <<globals, defined, depth, stack, held>>

\* n(...): the callee is looked up before its arguments are evaluated.
EvaluateCall(n, use) ==
  /\ returned = NoReturn
  /\ \/ /\ IsFunction(n)
        /\ Len(stack) < MaxNesting
        /\ stack' = Append(stack, Call(n, use, <<>>))
        /\ UNCHANGED returned
     \/ /\ ~IsFunction(n)
        /\ returned' = Returned("FAILED", NULL, use)
        /\ UNCHANGED stack
  /\ UNCHANGED <<values, globals, defined, depth, held>>

(***************************************************************************)
(* Calls.                                                                  *)
(***************************************************************************)
\* Mutant: the saved bindings are not retained.
SavedBorrowed(d) == [h \in Handles |-> refs[h] - Bound(globals, Range(d.params), h)]

\* _save_binding retains every binding it saves; binding a parameter releases
\* what its name was bound to.
Saved(d) ==
  [h \in Handles |-> refs[h] + Bound(globals, Locals(d), h)
                             - Bound(globals, Range(d.params), h)]

\* Mutant: the limit is off by one.
TooDeepByOne == depth > MaxCallDepth

TooDeep == depth >= MaxCallDepth

\* _invoke_function, up to the body.
Invoke ==
  LET call == Last(stack)
      d == defined[call.name]
      refuse == Len(call.args) # Len(d.params) \/ TooDeep
  IN
  /\ In("call")
  /\ UNCHANGED <<size, function, defined, held>>
  /\ \/ /\ refuse
        /\ refs' = DropAll(refs, call.args)
        /\ stack' = Front(stack)
        /\ returned' = Returned("FAILED", NULL, call.use)
        /\ UNCHANGED <<globals, depth>>
     \/ /\ ~refuse
        /\ refs' = Saved(d)
        /\ globals' = [n \in Names |->
                         IF n \in Range(d.params)
                         THEN call.args[CHOOSE i \in DOMAIN d.params : d.params[i] = n]
                         ELSE globals[n]]
        /\ depth' = depth + 1
        /\ stack' = Append(Front(stack),
                           Body(call.name, call.use,
                                [n \in Locals(d) |-> globals[n]]))
        /\ UNCHANGED returned

\* Mutant: a failing body leaves the arguments bound.
RestoredOnSuccess(status, saved) ==
  IF status = "FAILED" THEN globals
  ELSE [n \in Names |-> IF n \in DOMAIN saved THEN saved[n] ELSE globals[n]]

\* _restore_bindings: saved bindings come back, other locals are removed.
Restored(status, saved) ==
  [n \in Names |-> IF n \in DOMAIN saved THEN saved[n] ELSE globals[n]]

\* Mutant: the call depth is not taken back when the body fails.
DepthAfterSuccess(status) == IF status = "OK" THEN depth - 1 ELSE depth

DepthAfter(status) == depth - 1

\* The body ends; counts are what the expression or statement has left.
LeaveBody(counts, status, value) ==
  LET body == Last(stack) IN
  /\ globals' = Restored(status, body.saved)
  /\ refs' = [h \in Handles |-> counts[h] - Bound(globals, DOMAIN body.saved, h)]
  /\ stack' = Front(stack)
  /\ depth' = DepthAfter(status)
  /\ returned' = Returned(status, value, body.use)

\* The body runs out of statements and returns None.
EndOfBody ==
  /\ In("body")
  /\ Append1(NoName)
  /\ LeaveBody([refs EXCEPT ![size + 1] = 1], "OK", size + 1)
  /\ UNCHANGED <<defined, held>>

\* Compound statements are not available inside functions.
CompoundStatement ==
  /\ In("body")
  /\ LeaveBody(refs, "FAILED", NULL)
  /\ UNCHANGED <<size, function, defined, held>>

(***************************************************************************)
(* What becomes of an expression's result.                                 *)
(***************************************************************************)
\* A failing statement fails the body it is in, or ends the host's exec.
FailStatement(counts) ==
  IF stack = <<>>
  THEN /\ refs' = counts
       /\ returned' = NoReturn
       /\ UNCHANGED <<globals, depth, stack>>
  ELSE LeaveBody(counts, "FAILED", NULL)

Failed ==
  /\ returned.status = "FAILED"
  /\ IF returned.use.to = "argument"
     THEN /\ refs' = DropAll(refs, Last(stack).args)
          /\ stack' = Front(stack)
          /\ returned' = Returned("FAILED", NULL, Last(stack).use)
          /\ UNCHANGED <<globals, depth>>
     ELSE FailStatement(refs)
  /\ UNCHANGED <<size, function, defined, held>>

TakeArgument ==
  LET call == Last(stack) IN
  /\ returned.status = "OK" /\ returned.use.to = "argument"
  /\ stack' = [stack EXCEPT ![Len(stack)] =
                 Call(call.name, call.use, Append(call.args, returned.value))]
  /\ returned' = NoReturn
  /\ UNCHANGED <<values, globals, defined, depth, held>>

\* The host owns the result; at its bound it releases it at once.
ToHost ==
  /\ returned.status = "OK" /\ returned.use.to = "host"
  /\ IF held[returned.value] < MaxHeld
     THEN /\ held' = Keep(held, returned.value)
          /\ UNCHANGED refs
     ELSE /\ refs' = Drop(refs, returned.value)
          /\ UNCHANGED held
  /\ returned' = NoReturn
  /\ UNCHANGED <<size, function, globals, defined, depth, stack>>

DropResult ==
  /\ returned.status = "OK" /\ returned.use.to = "drop"
  /\ refs' = Drop(refs, returned.value)
  /\ returned' = NoReturn
  /\ UNCHANGED <<size, function, globals, defined, depth, stack, held>>

Assign ==
  LET n == returned.use.name IN
  /\ returned.status = "OK" /\ returned.use.to = "bind"
  /\ refs' = Drop(refs, globals[n])
  /\ globals' = [globals EXCEPT ![n] = returned.value]
  /\ returned' = NoReturn
  /\ UNCHANGED <<size, function, defined, depth, stack, held>>

\* n += e: the operands are released, and the name is bound to a new value;
\* or the name is unbound, or the operands do not fit the operator.
Augment ==
  LET n == returned.use.name
      released == Drop(refs, returned.value)
  IN
  /\ returned.status = "OK" /\ returned.use.to = "augment"
  /\ UNCHANGED <<defined, held>>
  /\ \/ /\ Valid(globals[n])
        /\ Append1(NoName)
        /\ refs' = Drop([released EXCEPT ![size + 1] = 1], globals[n])
        /\ globals' = [globals EXCEPT ![n] = size + 1]
        /\ returned' = NoReturn
        /\ UNCHANGED <<depth, stack>>
     \/ /\ FailStatement(released)
        /\ UNCHANGED <<size, function>>

Return ==
  /\ returned.status = "OK" /\ returned.use.to = "return"
  /\ LeaveBody(refs, "OK", returned.value)
  /\ UNCHANGED <<size, function, defined, held>>

Next ==
  \/ \E n \in Names, h \in Handles : SetGlobal(n, h)
  \/ \E n \in Names : DeleteGlobal(n)
  \/ \E h \in Handles : Release(h)
  \/ \E d \in Definitions : DefineFunction(d)
  \/ \E use \in NextUses :
       \/ \E n \in Names : EvaluateName(n, use) \/ EvaluateCall(n, use)
       \/ EvaluateLiteral(use)
  \/ Invoke \/ EndOfBody \/ CompoundStatement
  \/ Failed \/ TakeArgument \/ ToHost \/ DropResult \/ Assign \/ Augment \/ Return

Spec == Init /\ [][Next]_vars

(***************************************************************************)
(* Properties.                                                             *)
(***************************************************************************)
Bodies == {i \in DOMAIN stack : stack[i].kind = "body"}

\* What a call has collected, and what a body will put back.
Kept(s) == [i \in DOMAIN s |-> IF s[i].kind = "call" THEN s[i].args ELSE s[i].saved]

\* The places on the stack where a value is kept.
Places(rows, h) ==
  UNION {{i} \X {k \in DOMAIN rows[i] : rows[i][k] = h} : i \in DOMAIN rows}

\* Every reference has one owner through any nesting of calls: the host, a
\* global, an argument of a call still being evaluated, a binding some body
\* has saved, or a result on its way.
OwnershipExact ==
  \A h \in Handles :
    refs[h] = held[h] + Bound(globals, Names, h)
              + Cardinality(Places(Kept(stack), h))
              + (IF returned.value = h THEN 1 ELSE 0)

\* The depth counter that stops runaway recursion counts the bodies in
\* execution, however each of them has ended.
DepthCounts == depth = Cardinality(Bodies)

\* A call has no effect on its caller's names, not even when it fails or when
\* a parameter has the name of a global or of the function: the step that
\* leaves a body puts every global back to what it was when the body started.
CallsRestoreGlobals ==
  [][depth' < depth => globals' = Last(stack).before]_vars

=============================================================================
