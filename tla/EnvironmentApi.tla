--------------------------- MODULE EnvironmentApi ---------------------------
(***************************************************************************)
(* The environment helpers (native/environment_api.c): portapy_add with    *)
(* direct callbacks, mixed with the fine-grained API they are built from.  *)
(*                                                                         *)
(* A direct callback is kept in a slot of its own table under a callable   *)
(* id from an internal range; a value of the runtime carries only the id.  *)
(* A call resolves the name to the id before its arguments are evaluated;  *)
(* when it is dispatched the slot is looked up again, and an id without a  *)
(* slot goes to the runtime's raw call handler.                            *)
(***************************************************************************)
EXTENDS Integers, FiniteSets, SequencesExt

CONSTANTS
  Envs,        \* environments, all created at the start
  Names,       \* names of globals
  Callbacks,   \* direct callbacks of the host
  MaxValues,   \* bound: values ever created
  MaxIds,      \* bound: direct callable ids ever reserved
  MaxCalls,    \* bound: calls in progress, nested
  MaxHeld      \* bound: references the host owns to one value

ASSUME EnvironmentApiAssumption ==
  /\ IsFiniteSet(Envs) /\ IsFiniteSet(Names) /\ IsFiniteSet(Callbacks)
  /\ {MaxValues, MaxIds, MaxCalls, MaxHeld} \subseteq Nat

VARIABLES
  alive,       \* the environments not yet destroyed
  slots,       \* direct_slots, in the order of the array
  nextId,      \* next_direct_callable_id
  created,     \* the values created so far
  refs,        \* _value_refs
  globals,     \* the global table
  raw,         \* environments with a raw call handler installed
  calls,       \* calls in progress, newest last
  held,        \* history: references the host owns
  registered,  \* history: the slots of all adds that succeeded
  replaced,    \* history: ids given up because their name was replaced
  ended,       \* history: environments given to portapy_destroy
  outcome      \* history: what the last call of the host did

table == <<slots, nextId>>
values == <<created, refs, globals>>
history == <<held, registered, replaced, ended>>
vars == <<alive, table, values, raw, calls, history, outcome>>

NULL == 0
Handles == 1 .. MaxValues
Cells == Envs \X Names

\* Callable ids: what a raw callable or a plain value carries, and the
\* internal range from PORTAPY_DIRECT_CALLABLE_BASE.
NoId == 0
RawId == 1
DirectBase == 2
Direct == DirectBase .. DirectBase + MaxIds - 1

Value(e, id) == [env |-> e, id |-> id]
Slot(e, id, callback) == [env |-> e, id |-> id, callback |-> callback]
Call(e, id, running) == [env |-> e, id |-> id, running |-> running]
Quiet == [op |-> "other"]
Added(ok) == [op |-> "add", ok |-> ok]
Ran(call, callback) == [op |-> "run", env |-> call.env, id |-> call.id, ran |-> callback]
Refused(call) == [op |-> "refused", env |-> call.env, id |-> call.id]
Slots == [env : Envs, id : Direct, callback : Callbacks]

TypeOK ==
  /\ alive \subseteq Envs /\ raw \subseteq Envs
  /\ slots \in Seq(Slots)
  /\ nextId \in DirectBase .. DirectBase + MaxIds
  /\ created \in Seq([env : Envs, id : Direct \cup {NoId, RawId}])
  /\ Len(created) <= MaxValues
  /\ refs \in [Handles -> Nat] /\ held \in [Handles -> Nat]
  /\ globals \in [Cells -> Handles \cup {NULL}]
  /\ calls \in Seq([env : Envs, id : Direct \cup {RawId}, running : BOOLEAN])
  /\ registered \subseteq Slots
  /\ replaced \subseteq Direct /\ ended \subseteq Envs

Init ==
  /\ alive = Envs
  /\ slots = <<>>
  /\ nextId = DirectBase
  /\ created = <<>>
  /\ refs = [h \in Handles |-> 0]
  /\ globals = [b \in Cells |-> NULL]
  /\ raw = {}
  /\ calls = <<>>
  /\ held = [h \in Handles |-> 0]
  /\ registered = {}
  /\ replaced = {}
  /\ ended = {}
  /\ outcome = Quiet

(***************************************************************************)
(* Helpers.                                                                *)
(***************************************************************************)
Valid(e, h) == h # NULL /\ refs[h] > 0 /\ created[h].env = e /\ e \in alive

Keep(f, h) == [f EXCEPT ![h] = @ + 1]
Drop(f, h) == IF h = NULL \/ f[h] = 0 THEN f ELSE [f EXCEPT ![h] = @ - 1]

\* find_direct_slot: the index of the first slot of the environment with the
\* id, or 0.
FindSlot(some, e, id) == SelectInSeq(some, LAMBDA s : s.env = e /\ s.id = id)

\* remove_direct_slot_at: the last slot is moved into the hole.
RemoveSlotAt(some, i) == Front([some EXCEPT ![i] = Last(some)])

\* remove_direct_slot.
RemoveSlot(some, e, id) ==
  LET i == FindSlot(some, e, id) IN IF i = 0 THEN some ELSE RemoveSlotAt(some, i)

\* Mutant: the loop also steps over the slot it has just moved into the hole.
RemovalTurnSkips(e, turn) ==
  IF turn.index > Len(turn.left) THEN turn
  ELSE IF turn.left[turn.index].env = e
  THEN [index |-> turn.index + 1, left |-> RemoveSlotAt(turn.left, turn.index)]
  ELSE [turn EXCEPT !.index = @ + 1]

\* remove_environment_slots: a turn of the loop moves the last slot into the
\* place it looks at and looks there again, or goes on to the next place.
RemovalTurn(e, turn) ==
  IF turn.index > Len(turn.left) THEN turn
  ELSE IF turn.left[turn.index].env = e
  THEN [turn EXCEPT !.left = RemoveSlotAt(@, turn.index)]
  ELSE [turn EXCEPT !.index = @ + 1]

\* The loop: a turn brings its index and the end one closer, so it ends after
\* as many turns as there were slots.
RemoveSlots(some, e) ==
  LET loop[k \in 0 .. Len(some)] ==
        IF k = 0 THEN [index |-> 1, left |-> some] ELSE RemovalTurn(e, loop[k - 1])
  IN  loop[Len(some)].left

\* What inspect_binding and helper_callable_id_for_value find: the direct id
\* behind a value, as long as it has a slot.
HelperId(some, e, h) ==
  IF h # NULL /\ Valid(e, h) /\ FindSlot(some, e, created[h].id) # 0
  THEN created[h].id ELSE NoId

\* Mutant: what was retained to look at is not released.
InspectedKept(f, h) == IF h = NULL THEN f ELSE Keep(f, h)

\* inspect_binding retains the value it looks at and releases it, whatever it
\* finds; a name that is not bound has none.
Inspected(f, h) == IF h = NULL THEN f ELSE Drop(Keep(f, h), h)

\* The host runs: outside of all calls, or in the callback of the newest one.
HostRuns == calls # <<>> => Last(calls).running

(***************************************************************************)
(* The fine-grained API.                                                   *)
(***************************************************************************)
ValueFrom(e, id) ==
  /\ HostRuns
  /\ e \in alive /\ Len(created) < MaxValues
  /\ created' = Append(created, Value(e, id))
  /\ refs' = [refs EXCEPT ![Len(created) + 1] = 1]
  /\ held' = [held EXCEPT ![Len(created) + 1] = 1]
  /\ outcome' = Quiet
  /\ UNCHANGED <<alive, table, globals, raw, calls, registered, replaced, ended>>

Release(e, h) ==
  /\ HostRuns
  /\ Valid(e, h) /\ held[h] > 0
  /\ refs' = Drop(refs, h)
  /\ held' = [held EXCEPT ![h] = @ - 1]
  /\ outcome' = Quiet
  /\ UNCHANGED <<alive, table, created, globals, raw, calls, registered, replaced, ended>>

GetGlobal(e, n) ==
  LET h == globals[<<e, n>>] IN
  /\ HostRuns
  /\ Valid(e, h) /\ held[h] < MaxHeld
  /\ refs' = Keep(refs, h)
  /\ held' = Keep(held, h)
  /\ outcome' = Quiet
  /\ UNCHANGED <<alive, table, created, globals, raw, calls, registered, replaced, ended>>

\* portapy_set_global, and "n = m" executed by portapy_execute: the binding is
\* replaced without a look at the direct slots.
SetGlobal(e, n, h) ==
  /\ HostRuns
  /\ Valid(e, h)
  /\ held[h] > 0 \/ \E m \in Names : globals[<<e, m>>] = h
  /\ refs' = Drop(Keep(refs, h), globals[<<e, n>>])
  /\ globals' = [globals EXCEPT ![<<e, n>>] = h]
  /\ outcome' = Quiet
  /\ UNCHANGED <<alive, table, created, raw, calls, history>>

DeleteGlobal(e, n) ==
  /\ HostRuns
  /\ e \in alive /\ globals[<<e, n>>] # NULL
  /\ refs' = Drop(refs, globals[<<e, n>>])
  /\ globals' = [globals EXCEPT ![<<e, n>>] = NULL]
  /\ outcome' = Quiet
  /\ UNCHANGED <<alive, table, created, raw, calls, history>>

SetHandler(e) ==
  /\ HostRuns
  /\ raw' \in {raw \cup {e}, raw \ {e}}
  /\ outcome' = Quiet
  /\ UNCHANGED <<alive, table, values, calls, history>>

\* The tables without the values and globals of an environment.
EndEnvironment(e) ==
  LET kept(f) == [h \in Handles |->
                    IF h <= Len(created) /\ created[h].env = e THEN 0 ELSE f[h]]
  IN
  /\ alive' = alive \ {e}
  /\ refs' = kept(refs)
  /\ held' = kept(held)
  /\ globals' = [b \in Cells |-> IF b[1] = e THEN NULL ELSE globals[b]]
  /\ UNCHANGED <<created, nextId, raw, calls, registered, replaced>>

\* portapy_runtime_destroy on an environment: its slots stay.
RuntimeDestroy(e) ==
  /\ HostRuns /\ e \in alive
  /\ EndEnvironment(e)
  /\ outcome' = Quiet
  /\ UNCHANGED <<slots, ended>>

(***************************************************************************)
(* The environment helpers.                                                *)
(***************************************************************************)
\* Mutant: references of a destroyed environment are dropped once more when it
\* is destroyed again.
DestroyAgain(e) ==
  /\ HostRuns
  /\ slots' = RemoveSlots(slots, e)
  /\ refs' = [h \in Handles |->
               IF h <= Len(created) /\ created[h].env = e
               THEN refs[h] - held[h] - Cardinality({n \in Names : globals[<<e, n>>] = h})
               ELSE refs[h]]
  /\ alive' = alive \ {e}
  /\ ended' = ended \cup {e}
  /\ outcome' = Quiet
  /\ UNCHANGED <<nextId, created, globals, raw, calls, held, registered, replaced>>

\* portapy_destroy also removes the slots, even of an environment that has
\* been destroyed before.
Destroy(e) ==
  /\ HostRuns
  /\ slots' = RemoveSlots(slots, e)
  /\ ended' = ended \cup {e}
  /\ IF e \in alive THEN EndEnvironment(e)
     ELSE UNCHANGED <<alive, created, nextId, refs, globals, raw, calls, held, registered, replaced>>
  /\ outcome' = Quiet

\* Mutant: replacing a binding gives up the slot of the new value too.
ReplacedIdAlways(previous, next) == previous

\* The id whose slot a successful add removes: none if the name had none, or
\* has it again.
ReplacedId(previous, next) == IF previous = next THEN NoId ELSE previous

\* remove_direct_slot, when an add fails after the slot was reserved.
Undone(reserved, e, id) == RemoveSlot(reserved, e, id)

\* portapy_add_value_utf8.
AddValue(e, n, h, replace) ==
  LET old == globals[<<e, n>>]
      previous == HelperId(slots, e, old)
      next == HelperId(slots, e, h)
      ok == Valid(e, h) /\ (old # NULL => replace)
  IN
  /\ HostRuns
  /\ Valid(e, h) => held[h] > 0
  /\ outcome' = Added(ok)
  /\ UNCHANGED <<alive, nextId, created, raw, calls, held, registered, ended>>
  /\ IF ok
     THEN /\ refs' = Drop(Keep(Inspected(refs, old), h), old)
          /\ globals' = [globals EXCEPT ![<<e, n>>] = h]
          /\ slots' = RemoveSlot(slots, e, ReplacedId(previous, next))
          /\ replaced' = replaced \cup ({previous} \ {NoId, next})
     ELSE /\ refs' = Inspected(refs, old)
          /\ UNCHANGED <<globals, slots, replaced>>

\* Mutant: the value is not released.
MadeKept(f, h) == f

\* The reference a value was made with is released, whether it could be bound
\* or not.
MadeReleased(f, h) == Drop(f, h)

\* portapy_add_callable_utf8: reserve a slot, make a value for its id, bind
\* it, release it; a failure takes the slot back.  In a destroyed environment
\* there is no value to make.
AddCallable(e, n, callback, replace) ==
  LET id == nextId
      h == Len(created) + 1
      old == globals[<<e, n>>]
      reserved == Append(slots, Slot(e, id, callback))
      inspected == Inspected([refs EXCEPT ![h] = 1], old)
      previous == HelperId(reserved, e, old)
      ok == e \in alive /\ (old # NULL => replace)
  IN
  /\ HostRuns
  /\ nextId < DirectBase + MaxIds /\ Len(created) < MaxValues
  /\ nextId' = nextId + 1
  /\ outcome' = Added(ok)
  /\ created' = IF e \in alive THEN Append(created, Value(e, id)) ELSE created
  /\ UNCHANGED <<alive, raw, calls, held, ended>>
  /\ IF ok
     THEN /\ refs' = MadeReleased(Drop(Keep(inspected, h), old), h)
          /\ globals' = [globals EXCEPT ![<<e, n>>] = h]
          /\ slots' = RemoveSlot(reserved, e, ReplacedId(previous, id))
          /\ registered' = registered \cup {Slot(e, id, callback)}
          /\ replaced' = replaced \cup ({previous} \ {NoId, id})
     ELSE /\ refs' = IF e \in alive THEN MadeReleased(inspected, h) ELSE refs
          /\ slots' = Undone(reserved, e, id)
          /\ UNCHANGED <<globals, registered, replaced>>

(***************************************************************************)
(* Calls from source.                                                      *)
(***************************************************************************)
\* "n(...)" is executed by the host or evaluated as an argument of the newest
\* call: the name is resolved to a callable id.
ResolveCall(e, n) ==
  LET h == globals[<<e, n>>] IN
  /\ Len(calls) < MaxCalls
  /\ calls # <<>> /\ ~Last(calls).running => Last(calls).env = e
  /\ Valid(e, h) /\ created[h].id # NoId
  /\ calls' = Append(calls, Call(e, created[h].id, FALSE))
  /\ outcome' = Quiet
  /\ UNCHANGED <<alive, table, values, raw, history>>

Found(call) == FindSlot(slots, call.env, call.id)
Run(call, callback) ==
  /\ calls' = [calls EXCEPT ![Len(calls)] = Call(call.env, call.id, TRUE)]
  /\ outcome' = Ran(call, callback)
Refuse(call) ==
  /\ calls' = Front(calls)
  /\ outcome' = Refused(call)

\* Mutant: an installed handler is preferred to the slot.
DispatchRawFirst ==
  LET call == Last(calls) IN
  /\ calls # <<>> /\ ~Last(calls).running /\ call.env \in alive
  /\ \/ call.env \in raw /\ Run(call, "raw")
     \/ call.env \notin raw /\ Found(call) # 0 /\ Run(call, slots[Found(call)].callback)
     \/ call.env \notin raw /\ Found(call) = 0 /\ Refuse(call)
  /\ UNCHANGED <<alive, table, values, raw, history>>

\* _portapy_host_dispatch_callback: the id's direct callback, or the raw
\* handler, or INTERRUPTED.  Once its environment is destroyed a call has no
\* valid argument left to be dispatched with.
Dispatch ==
  LET call == Last(calls) IN
  /\ calls # <<>> /\ ~Last(calls).running /\ call.env \in alive
  /\ \/ Found(call) # 0 /\ Run(call, slots[Found(call)].callback)
     \/ Found(call) = 0 /\ call.env \in raw /\ Run(call, "raw")
     \/ Found(call) = 0 /\ call.env \notin raw /\ Refuse(call)
  /\ UNCHANGED <<alive, table, values, raw, history>>

\* The callback returns, or an argument fails and the call with it.
CallEnds ==
  /\ calls # <<>>
  /\ calls' = Front(calls)
  /\ outcome' = Quiet
  /\ UNCHANGED <<alive, table, values, raw, history>>

Next ==
  \/ \E e \in Envs, id \in {NoId, RawId} : ValueFrom(e, id)
  \/ \E e \in Envs, h \in Handles : Release(e, h)
  \/ \E e \in Envs, n \in Names :
       \/ GetGlobal(e, n) \/ DeleteGlobal(e, n) \/ ResolveCall(e, n)
       \/ \E h \in Handles : SetGlobal(e, n, h)
       \/ \E replace \in BOOLEAN :
            \/ \E h \in Handles : AddValue(e, n, h, replace)
            \/ \E callback \in Callbacks : AddCallable(e, n, callback, replace)
  \/ \E e \in Envs : SetHandler(e) \/ RuntimeDestroy(e) \/ Destroy(e)
  \/ Dispatch \/ CallEnds

Spec == Init /\ [][Next]_vars

(***************************************************************************)
(* Properties.                                                             *)
(***************************************************************************)
\* The id a name's value carries.
IdOf(e, n) == IF globals[<<e, n>>] = NULL THEN NoId ELSE created[globals[<<e, n>>]].id

\* References stay exact: the helpers release what they retain to look at, and
\* the value they make for a callback.
OwnershipExact ==
  \A h \in Handles :
    refs[h] = held[h] + Cardinality({b \in Cells : globals[b] = h})

\* A slot of the environment was registered under the id, and is in the table.
Reachable(e, id) ==
  \E s \in registered : s.env = e /\ s.id = id /\ s \in ToSet(slots)

\* docs/FFI.md: direct callbacks use an internal callable-ID range and both
\* callback styles coexist, so a name bound to a direct callable reaches the
\* callback registered for it, whichever level bound the name.
DirectNamesReachTheirCallback ==
  \A e \in alive, n \in Names : IdOf(e, n) \in Direct => Reachable(e, IdOf(e, n))

\* The same, as long as no add has replaced the callable under some name: in
\* particular adding a callable again under its own name keeps it callable,
\* and no failing add or destroyed environment takes another's callback away.
UnreplacedNamesReachTheirCallback ==
  \A e \in alive, n \in Names :
    IdOf(e, n) \in Direct \ replaced => Reachable(e, IdOf(e, n))

\* What runs is what was called, though the host may have rebound, deleted or
\* added names from the callbacks of the arguments.  A direct callable runs the
\* callback its environment registered for it and is never refused.  The
\* exception is one that an add has replaced in the meantime: like a raw
\* callable, it gets the raw handler or is refused, and never runs a direct
\* callback, its own or another's.
CallsRunTheirCallback ==
  /\ outcome.op = "run" =>
       IF outcome.id \in Direct \ replaced
       THEN Slot(outcome.env, outcome.id, outcome.ran) \in registered
       ELSE outcome.ran = "raw"
  /\ outcome.op = "refused" => outcome.id \notin Direct \ replaced

\* The table of callbacks holds exactly what was registered and is not over,
\* each once: no removal, by the swap of the last slot into the hole or by the
\* loop of such swaps over an environment, loses a slot of another id or
\* environment, leaves one of its own behind or doubles one.
SlotsAccountedFor ==
  /\ \A i, j \in DOMAIN slots : slots[i].id = slots[j].id => i = j
  /\ ToSet(slots) = {s \in registered : s.id \notin replaced /\ s.env \notin ended}

\* An add that fails leaves every name, reference and callback as it was: the
\* slot it reserved, the value it made and the reference it took to look at
\* the name's value are given back, on each of its ways out.
FailedAddChangesNothing ==
  [][outcome'.op = "add" /\ ~outcome'.ok =>
       UNCHANGED <<slots, refs, globals, alive, held>>]_vars

=============================================================================
