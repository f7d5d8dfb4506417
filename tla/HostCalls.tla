----------------------------- MODULE HostCalls -----------------------------
(***************************************************************************)
(* Calls from interpreted source to callables of the embedding host        *)
(* (native_api_host_calls.py and host_call_glue.c), in one runtime.        *)
(*                                                                         *)
(* A call expression f(a, b) resolves f, evaluates its arguments, which    *)
(* may be calls themselves, pushes a pending frame that owns the arguments *)
(* and runs the host's callback.  The callback may call back into the      *)
(* runtime, and so start further evaluations, before it returns.  stack is *)
(* the C stack: evaluations that are collecting arguments, and callbacks   *)
(* that are running; the interpreter acts on an evaluation, the host on a  *)
(* callback or when the stack is empty.                                    *)
(*                                                                         *)
(* held, leaked and crossed are history variables: what the host owns,     *)
(* references nobody will release any more, and whether a failing call has *)
(* cleared the pending frame of another call.                              *)
(***************************************************************************)
EXTENDS Naturals, FiniteSets, SequencesExt

CONSTANTS
  Names,      \* names of globals
  MaxValues,  \* bound: values ever appended
  MaxArgs,    \* bound: arguments of a call
  MaxDepth,   \* bound: evaluations and callbacks on the stack
  MaxHeld,    \* bound: references the host owns to one value
  MaxLeaked   \* bound: references lost of one value

ASSUME HostCallsAssumption ==
  /\ IsFiniteSet(Names)
  /\ {MaxValues, MaxArgs, MaxDepth, MaxHeld, MaxLeaked} \subseteq Nat

VARIABLES
  alive,      \* the runtime exists
  size,       \* values appended so far
  callables,  \* values registered in the host callable table
  refs,       \* _value_refs
  globals,    \* the global table
  handler,    \* a call handler is installed
  pending,    \* the pending frames still in use, as their arguments
  stack,      \* evaluations and callbacks in progress, newest last
  returned,   \* the result on its way to whoever waits for it
  held,       \* history: references the host owns
  leaked,     \* history: references without an owner
  crossed     \* history: a call cleared the frame of another

values == <<size, callables>>
history == <<held, leaked, crossed>>
vars == <<alive, values, refs, globals, handler, pending, stack, returned, history>>

NULL == 0
Handles == 1 .. MaxValues
NoReturn == [status |-> "NONE", value |-> NULL, use |-> "host"]

\* Who waits for a value: the host that evaluates or executes source, or the
\* enclosing call, whose argument it becomes.
Uses == {"host", "argument"}

Arguments == SeqOf(Handles, MaxArgs)
Evaluation(use, args) == [kind |-> "evaluation", use |-> use, args |-> args]
Callback(use, args) == [kind |-> "callback", use |-> use, args |-> args]
Returned(status, value, use) == [status |-> status, value |-> value, use |-> use]

Activations == [kind : {"evaluation", "callback"}, use : Uses, args : Arguments]
Results == [status : {"NONE", "OK", "FAILED"}, value : Handles \cup {NULL}, use : Uses]

TypeOK ==
  /\ alive \in BOOLEAN /\ handler \in BOOLEAN /\ crossed \in BOOLEAN
  /\ size \in 0 .. MaxValues
  /\ callables \subseteq 1 .. size
  /\ refs \in [Handles -> Nat]
  /\ held \in [Handles -> Nat]
  /\ leaked \in [Handles -> Nat]
  /\ globals \in [Names -> Handles \cup {NULL}]
  /\ pending \in Seq(Arguments)
  /\ stack \in Seq(Activations)
  /\ returned \in Results

Init ==
  /\ alive = TRUE
  /\ size = 0
  /\ callables = {}
  /\ refs = [h \in Handles |-> 0]
  /\ globals = [n \in Names |-> NULL]
  /\ handler = FALSE
  /\ pending = <<>>
  /\ stack = <<>>
  /\ returned = NoReturn
  /\ held = [h \in Handles |-> 0]
  /\ leaked = [h \in Handles |-> 0]
  /\ crossed = FALSE

(***************************************************************************)
(* Helpers.                                                                *)
(***************************************************************************)
Valid(f, h) == alive /\ h # NULL /\ f[h] > 0

Keep(f, h) == [f EXCEPT ![h] = @ + 1]
Drop(f, h) == IF Valid(f, h) THEN [f EXCEPT ![h] = @ - 1] ELSE f

Occurrences(args, h) == Cardinality({i \in DOMAIN args : args[i] = h})

\* Mutant: the arguments are released without asking whether they are valid.
DropAllUnchecked(f, args) == [h \in Handles |-> f[h] - Occurrences(args, h)]

\* Every argument is released once, while it is still valid.
DropAll(f, args) ==
  [h \in Handles |->
     LET n == IF alive THEN Occurrences(args, h) ELSE 0 IN
     IF f[h] > n THEN f[h] - n ELSE IF n = 0 THEN f[h] ELSE 0]

\* A fresh value, counted once.
Append1 ==
  /\ alive /\ size < MaxValues
  /\ size' = size + 1
  /\ refs' = [refs EXCEPT ![size + 1] = 1]

\* Nothing is on its way, and the newest activation is of this kind.
HostRuns ==
  /\ returned = NoReturn
  /\ stack # <<>> => Last(stack).kind = "callback"
Interpreting ==
  /\ returned = NoReturn
  /\ stack # <<>> /\ Last(stack).kind = "evaluation"

IsCallable(n) == Valid(refs, globals[n]) /\ globals[n] \in callables

(***************************************************************************)
(* The host, outside of calls or inside a callback.                        *)
(***************************************************************************)
\* portapy_value_from_host_callable; plain values enter as literals.
ValueFromHostCallable ==
  /\ HostRuns
  /\ Append1
  /\ callables' = callables \cup {size + 1}
  /\ held' = [held EXCEPT ![size + 1] = 1]
  /\ UNCHANGED <<alive, globals, handler, pending, stack, returned, leaked, crossed>>

\* The host retains what it owns, or an argument lent to the callback.
Retain(h) ==
  /\ HostRuns
  /\ Valid(refs, h) /\ held[h] < MaxHeld
  /\ held[h] > 0 \/ (stack # <<>> /\ h \in Range(Last(stack).args))
  /\ refs' = Keep(refs, h)
  /\ held' = Keep(held, h)
  /\ UNCHANGED <<alive, values, globals, handler, pending, stack, returned, leaked, crossed>>

Release(h) ==
  /\ HostRuns
  /\ Valid(refs, h) /\ held[h] > 0
  /\ refs' = Drop(refs, h)
  /\ held' = [held EXCEPT ![h] = @ - 1]
  /\ UNCHANGED <<alive, values, globals, handler, pending, stack, returned, leaked, crossed>>

SetGlobal(n, h) ==
  /\ HostRuns
  /\ Valid(refs, h) /\ held[h] > 0
  /\ refs' = Drop(Keep(refs, h), globals[n])
  /\ globals' = [globals EXCEPT ![n] = h]
  /\ UNCHANGED <<alive, values, handler, pending, stack, returned, history>>

DeleteGlobal(n) ==
  /\ HostRuns
  /\ alive /\ globals[n] # NULL
  /\ refs' = Drop(refs, globals[n])
  /\ globals' = [globals EXCEPT ![n] = NULL]
  /\ UNCHANGED <<alive, values, handler, pending, stack, returned, history>>

\* portapy_host_set_call_handler, also to remove the handler.
SetHandler(installed) ==
  /\ HostRuns
  /\ handler' = installed
  /\ UNCHANGED <<alive, values, refs, globals, pending, stack, returned, history>>

\* Also from within a callback: the frames in progress are left in place.
RuntimeDestroy ==
  /\ HostRuns
  /\ alive /\ alive' = FALSE
  /\ refs' = [h \in Handles |-> 0]
  /\ globals' = [n \in Names |-> NULL]
  /\ held' = refs' /\ leaked' = refs'
  /\ UNCHANGED <<values, handler, pending, stack, returned, crossed>>

(***************************************************************************)
(* Evaluating a call.                                                      *)
(***************************************************************************)
\* _parse_host_call_or_expression: the callee is resolved (and its temporary
\* reference released) before any argument is evaluated.
BeginCall(n, use) ==
  \/ /\ IsCallable(n)
     /\ Len(stack) < MaxDepth
     /\ stack' = Append(stack, Evaluation(use, <<>>))
     /\ UNCHANGED returned
  \/ /\ ~IsCallable(n)
     /\ returned' = Returned("FAILED", NULL, use)
     /\ UNCHANGED stack

\* The host evaluates "n(...)" or executes "n(...)" or "x = n(...)".
HostEvaluates(n) ==
  /\ HostRuns /\ alive
  /\ BeginCall(n, "host")
  /\ UNCHANGED <<alive, values, refs, globals, handler, pending, history>>

ArgumentCall(n) ==
  /\ Interpreting
  /\ Len(Last(stack).args) < MaxArgs
  /\ BeginCall(n, "argument")
  /\ UNCHANGED <<alive, values, refs, globals, handler, pending, history>>

\* A bare name: _retain_global, or NOT_FOUND.
ArgumentName(n) ==
  /\ Interpreting
  /\ Len(Last(stack).args) < MaxArgs
  /\ IF Valid(refs, globals[n])
     THEN /\ refs' = Keep(refs, globals[n])
          /\ returned' = Returned("OK", globals[n], "argument")
     ELSE /\ returned' = Returned("FAILED", NULL, "argument")
          /\ UNCHANGED refs
  /\ UNCHANGED <<alive, values, globals, handler, pending, stack, history>>

ArgumentLiteral ==
  /\ Interpreting
  /\ Len(Last(stack).args) < MaxArgs
  /\ Append1
  /\ returned' = Returned("OK", size + 1, "argument")
  /\ UNCHANGED <<alive, callables, globals, handler, pending, stack, history>>

\* _find_pending_frame and _clear_pending_frame: the newest frame in use goes,
\* and the references to its arguments with it.
ClearNewest(f, frames) ==
  IF frames = <<>> THEN [refs |-> f, frames |-> frames]
  ELSE [refs |-> DropAll(f, Last(frames)), frames |-> Front(frames)]

\* portapy_host_dispatch_complete, then the rest of _dispatch_host_call: a
\* result that is NULL makes it clear the newest frame once more.
Complete(frames, ok, result, use) ==
  LET once == ClearNewest(refs, frames)
      twice == ClearNewest(once.refs, once.frames)
      delivered == frames # <<>> /\ ok /\ Valid(refs, result)
  IN
  /\ returned' = IF delivered THEN Returned("OK", result, use)
                              ELSE Returned("FAILED", NULL, use)
  /\ refs' = IF delivered THEN once.refs ELSE twice.refs
  /\ pending' = IF delivered THEN once.frames ELSE twice.frames
  /\ leaked' = IF frames = <<>> /\ Valid(refs, result)
               THEN Keep(leaked, result) ELSE leaked
  /\ crossed' = (crossed \/ (~delivered /\ once.frames # <<>>))

\* Mutant: the arguments are released before the callback runs.
DispatchReleases ==
  LET call == Last(stack) IN
  /\ Interpreting
  /\ refs' = DropAll(refs, call.args)
  /\ pending' = IF handler THEN Append(pending, <<>>) ELSE pending
  /\ stack' = IF handler THEN Append(Front(stack), Callback(call.use, call.args))
              ELSE Front(stack)
  /\ returned' = IF handler THEN NoReturn ELSE Returned("FAILED", NULL, call.use)
  /\ UNCHANGED <<alive, values, globals, handler, history>>

\* _dispatch_host_call: the arguments move to a new pending frame and the
\* host's callback starts, or the call fails because no handler is installed.
Dispatch ==
  LET call == Last(stack)
      frames == Append(pending, call.args)
  IN
  /\ Interpreting
  /\ UNCHANGED <<alive, values, globals, handler, held>>
  /\ \/ /\ handler
        /\ pending' = frames
        /\ stack' = Append(Front(stack), Callback(call.use, call.args))
        /\ UNCHANGED <<refs, returned, leaked, crossed>>
     \/ /\ ~handler
        /\ stack' = Front(stack)
        /\ Complete(frames, FALSE, NULL, call.use)

\* The callback returns a value the host owns, or a failure, or OK without a
\* value.
CallbackReturns(ok, h) ==
  /\ HostRuns /\ stack # <<>>
  /\ h # NULL => ok /\ held[h] > 0 /\ leaked[h] < MaxLeaked
  /\ stack' = Front(stack)
  /\ held' = IF h = NULL THEN held ELSE [held EXCEPT ![h] = @ - 1]
  /\ Complete(pending, ok, h, Last(stack).use)
  /\ UNCHANGED <<alive, values, globals, handler>>

DeliverArgument ==
  /\ returned.status = "OK" /\ returned.use = "argument"
  /\ stack' = Append(Front(stack), Evaluation(Last(stack).use,
                                            Append(Last(stack).args, returned.value)))
  /\ returned' = NoReturn
  /\ UNCHANGED <<alive, values, refs, globals, handler, pending, history>>

\* Mutant: the arguments evaluated so far are forgotten.
FailArgumentLeaks ==
  /\ returned.status = "FAILED" /\ returned.use = "argument"
  /\ stack' = Front(stack)
  /\ returned' = Returned("FAILED", NULL, Last(stack).use)
  /\ UNCHANGED <<alive, values, refs, globals, handler, pending, history>>

\* The enclosing evaluation releases its arguments and fails in turn.
FailArgument ==
  /\ returned.status = "FAILED" /\ returned.use = "argument"
  /\ refs' = DropAll(refs, Last(stack).args)
  /\ stack' = Front(stack)
  /\ returned' = Returned("FAILED", NULL, Last(stack).use)
  /\ UNCHANGED <<alive, values, globals, handler, pending, history>>

\* eval hands the value to the host; exec of "n(...)" drops it, and exec of
\* "x = n(...)" binds it to x.
HostReceives ==
  LET h == returned.value IN
  /\ returned # NoReturn /\ returned.use = "host"
  /\ returned' = NoReturn
  /\ UNCHANGED <<alive, values, handler, pending, stack, leaked, crossed>>
  /\ \/ /\ returned.status = "FAILED"
        /\ UNCHANGED <<refs, globals, held>>
     \/ /\ returned.status = "OK"
        /\ held' = Keep(held, h)
        /\ UNCHANGED <<refs, globals>>
     \/ /\ returned.status = "OK"
        /\ refs' = Drop(refs, h)
        /\ UNCHANGED <<globals, held>>
     \/ /\ returned.status = "OK"
        /\ UNCHANGED held
        /\ \E x \in Names :
             /\ refs' = Drop(refs, globals[x])
             /\ globals' = [globals EXCEPT ![x] = h]

Next ==
  \/ ValueFromHostCallable
  \/ \E h \in Handles : Retain(h) \/ Release(h)
  \/ \E n \in Names, h \in Handles : SetGlobal(n, h)
  \/ \E n \in Names : DeleteGlobal(n)
  \/ \E installed \in BOOLEAN : SetHandler(installed)
  \/ RuntimeDestroy
  \/ \E n \in Names : HostEvaluates(n) \/ ArgumentCall(n) \/ ArgumentName(n)
  \/ ArgumentLiteral
  \/ Dispatch
  \/ \E ok \in BOOLEAN, h \in Handles \cup {NULL} : CallbackReturns(ok, h)
  \/ DeliverArgument
  \/ FailArgument
  \/ HostReceives

Spec == Init /\ [][Next]_vars

(***************************************************************************)
(* Properties.                                                             *)
(***************************************************************************)
\* The places in a sequence of argument lists where a value stands.
Places(frames, h) ==
  UNION {{i} \X {k \in DOMAIN frames[i] : frames[i][k] = h} : i \in DOMAIN frames}
InSequence(frames, h) == Cardinality(Places(frames, h))

\* What the evaluations in progress have collected so far.
Collected(s) == [i \in DOMAIN s |-> IF s[i].kind = "evaluation" THEN s[i].args ELSE <<>>]

\* Ownership is exact through any nesting of evaluations and callbacks: while
\* the runtime lives, each reference to a value is the host's, a global's, an
\* argument's in a frame or an evaluation, or a result's on its way; nothing
\* else keeps a value alive but a result that found no frame to complete.
OwnershipExact ==
  \A h \in Handles :
    refs[h] = IF alive
              THEN held[h] + leaked[h]
                   + Cardinality({n \in Names : globals[n] = h})
                   + InSequence(pending, h)
                   + InSequence(Collected(stack), h)
                   + (IF returned.value = h THEN 1 ELSE 0)
              ELSE 0

Callbacks == {i \in DOMAIN stack : stack[i].kind = "callback"}

\* docs/FFI.md: "Callback arguments are borrowed", so they stay valid until
\* the callback they were lent to returns.
BorrowedArgumentsValid ==
  alive => \A i \in Callbacks : \A h \in Range(stack[i].args) : Valid(refs, h)

\* How many callbacks are running below and at a place of the stack.
CallbacksUpTo(i) == Cardinality({j \in Callbacks : j <= i})

\* As long as no call failed while another callback was running, the pending
\* frames are those of the running callbacks, in order, their arguments stay
\* valid and no result is lost.
FramesInStep ==
  ~crossed => /\ Len(pending) = Cardinality(Callbacks)
              /\ \A i \in Callbacks : pending[CallbacksUpTo(i)] = stack[i].args
              /\ BorrowedArgumentsValid
              /\ \A h \in Handles : leaked[h] = 0
=============================================================================
