-------------------------- MODULE ReferenceRuntime --------------------------
(***************************************************************************)
(* The hosted Runtime of reference_api.py and the Environment objects of   *)
(* environment.py that share it.                                           *)
(*                                                                         *)
(* An operation enters by a door: a call on the Runtime itself (Direct) or *)
(* a method of one of the environments built over it.  exec, eval and call *)
(* run source, and running source may call host functions, which enter by  *)
(* any door again; frames is the stack of the runs that are under way.     *)
(* Every other operation is one step.  The interpreter appears only        *)
(* through what a run does to the runtime: it binds and deletes globals,   *)
(* calls the host, and ends with a result or an exception.                 *)
(*                                                                         *)
(* last and held are history variables: the failure reported by the        *)
(* operation that began or ended most recently, if it left a record, and   *)
(* the references the host owns.                                           *)
(***************************************************************************)
EXTENDS Naturals, Sequences

CONSTANTS
  Envs,        \* Environment objects constructed over the one Runtime
  Direct,      \* the door of calls made on the Runtime itself
  Names,       \* identifiers
  BadName,     \* a name that is empty or not an identifier
  Values,      \* Python objects
  Ints,        \* those of type int
  EntryLists,  \* lists of (name, object) pairs the host exposes in one call
  Unbound,     \* marks a name without a binding
  NoSnapshot,  \* marks a snapshot not yet taken
  MaxHandles,  \* bound: handles ever issued
  MaxHeld,     \* bound: references the host owns to one handle
  MaxDepth     \* bound: runs nested in each other

ASSUME ReferenceAssumption ==
  /\ Direct \notin Envs
  /\ BadName \notin Names
  /\ Unbound \notin Values
  /\ Ints \subseteq Values
  /\ EntryLists \subseteq Seq((Names \cup {BadName}) \X Values) \ {<<>>}
  /\ MaxHandles \in Nat /\ MaxHeld \in Nat /\ MaxDepth \in Nat

VARIABLES
  closed,     \* Runtime._closed
  globals,    \* Runtime._globals
  next,       \* Runtime._next
  object,     \* _Slot.value, by handle
  refs,       \* _Slot.refs, by handle; 0 when the handle is not in _values
  error,      \* the status in Runtime._last_error; "OK" stands for None
  envClosed,  \* Environment._closed, by environment
  snapshot,   \* the snapshot taken last, with the environment it belongs to
  frames,     \* the runs under way, outermost first
  last,       \* history: the failure with which the last operation ended, if any
  held        \* history: references the host owns, by handle

table == <<next, object, refs, held>>
vars == <<closed, globals, table, error, envClosed, snapshot, frames, last>>

Doors == Envs \cup {Direct}
Handles == 1 .. MaxHandles
Bindings == [Names -> Values \cup {Unbound}]
Runs == [door : Doors, op : {"exec", "eval", "call"}]
\* Operations that fail leave one of these in last_error ...
Recorded == {"INVALID_ARGUMENT", "COMPILE_ERROR", "RUNTIME_ERROR",
             "TYPE_ERROR", "NOT_FOUND", "INVALID_HANDLE"}
\* ... and EnvironmentClosedError and BindingError carry no such record.
Statuses == Recorded \cup {"OK", "CLOSED"}

TypeOK ==
  /\ closed \in BOOLEAN
  /\ globals \in Bindings
  /\ next \in 1 .. MaxHandles + 1
  /\ object \in [Handles -> Values \cup {Unbound}]
  /\ refs \in [Handles -> Nat]
  /\ error \in Statuses
  /\ envClosed \in [Envs -> BOOLEAN]
  /\ snapshot \in [env : Envs, bindings : Bindings] \cup {NoSnapshot}
  /\ frames \in Seq(Runs)
  /\ last \in Recorded \cup {"OK"}
  /\ held \in [Handles -> Nat]

Init ==
  /\ closed = FALSE
  /\ globals = [n \in Names |-> Unbound]
  /\ next = 1
  /\ object = [h \in Handles |-> Unbound]
  /\ refs = [h \in Handles |-> 0]
  /\ error = "OK"
  /\ envClosed = [e \in Envs |-> FALSE]
  /\ snapshot = NoSnapshot
  /\ frames = <<>>
  /\ last = "OK"
  /\ held = [h \in Handles |-> 0]

(***************************************************************************)
(* How operations begin and end.                                           *)
(***************************************************************************)
\* Environment._ensure_open, when the door is an environment.
Admits(d) == d \in Envs => ~envClosed[d]

\* The operation passes the environment's check and Runtime._ready.
Ready(d) == Admits(d) /\ ~closed

Ends(outcome) == last' = IF outcome \in Recorded THEN outcome ELSE "OK"

\* The operation ends with status s, recorded by _capture or cleared by _ready.
Answers(s) == Ends(s) /\ error' = s

\* Runtime._store, the reference going to the host.
Stores(v) ==
  /\ next <= MaxHandles
  /\ next' = next + 1
  /\ object' = [object EXCEPT ![next] = v]
  /\ refs' = [refs EXCEPT ![next] = 1]
  /\ held' = [held EXCEPT ![next] = 1]

\* Mutant: evaluate keeps the handle of its result.
StoresWithoutRelease(v) ==
  /\ next <= MaxHandles
  /\ next' = next + 1
  /\ object' = [object EXCEPT ![next] = v]
  /\ refs' = [refs EXCEPT ![next] = 1]
  /\ UNCHANGED held

\* Environment.evaluate: the result is stored, unboxed and released.
StoresAndReleases(v) ==
  /\ next <= MaxHandles
  /\ next' = next + 1
  /\ UNCHANGED <<object, refs, held>>

\* Any operation that checks, on what is closed.  An environment that already
\* knows does not ask its runtime; one that does not learns it from the status.
Blocked(d) ==
  /\ closed \/ ~Admits(d)
  /\ Ends("CLOSED")
  /\ error' = IF Admits(d) THEN "CLOSED" ELSE error
  /\ envClosed' = [e \in Envs |-> envClosed[e] \/ e = d]
  /\ UNCHANGED <<closed, globals, table, snapshot, frames>>

(***************************************************************************)
(* Globals.                                                                *)
(***************************************************************************)
\* Runtime.set_global.
SetGlobal(n, v) ==
  /\ Ready(Direct)
  /\ \/ /\ n = BadName
        /\ Answers("INVALID_ARGUMENT")
        /\ UNCHANGED globals
     \/ /\ n \in Names
        /\ globals' = [globals EXCEPT ![n] = v]
        /\ Answers("OK")
  /\ UNCHANGED <<closed, table, envClosed, snapshot, frames>>

\* The first k of the entries pass the checks of Environment._bind.
Fits(entries, k, replace) ==
  \A i \in 1 .. k :
     /\ entries[i][1] \in Names
     /\ \/ replace
        \/ /\ globals[entries[i][1]] = Unbound
           /\ \A j \in 1 .. i - 1 : entries[j][1] # entries[i][1]

\* The bindings after the first k entries, each replacing an earlier one.
Adding(entries, k) ==
  [n \in Names |->
     IF \E i \in 1 .. k : entries[i][1] = n
     THEN entries[CHOOSE i \in 1 .. k :
                    /\ entries[i][1] = n
                    /\ \A j \in i + 1 .. k : entries[j][1] # n][2]
     ELSE globals[n]]

\* Environment.add, set, expose and add_all: the entries are bound in order up
\* to the first that is refused, and those already bound stay.
Expose(e, entries, replace) ==
  /\ Ready(e)
  /\ \E k \in 0 .. Len(entries) :
       /\ Fits(entries, k, replace)
       /\ k < Len(entries) => ~Fits(entries, k + 1, replace)
       /\ globals' = Adding(entries, k)
       /\ Ends(IF k = Len(entries) THEN "OK" ELSE "BindingError")
       /\ error' = IF k = 0 /\ entries[1][1] = BadName THEN error ELSE "OK"
  /\ UNCHANGED <<closed, table, envClosed, snapshot, frames>>

\* Runtime.delete_global and Environment.remove; missing_ok forgives.
Delete(d, n, missing_ok) ==
  /\ Ready(d)
  /\ missing_ok => d \in Envs
  /\ globals' = [globals EXCEPT ![n] = Unbound]
  /\ Answers(IF globals[n] = Unbound /\ ~missing_ok THEN "NOT_FOUND"
                ELSE "OK")
  /\ UNCHANGED <<closed, table, envClosed, snapshot, frames>>

\* Runtime.read_global and Environment.get.
Read(d, n) ==
  /\ Ready(d)
  /\ Answers(IF globals[n] = Unbound THEN "NOT_FOUND" ELSE "OK")
  /\ UNCHANGED <<closed, globals, table, envClosed, snapshot, frames>>

\* Runtime.get_global: the value behind a new handle.
GetGlobal(n) ==
  /\ Ready(Direct)
  /\ \/ /\ globals[n] = Unbound
        /\ Answers("NOT_FOUND")
        /\ UNCHANGED table
     \/ /\ globals[n] # Unbound
        /\ Stores(globals[n])
        /\ Answers("OK")
  /\ UNCHANGED <<closed, globals, envClosed, snapshot, frames>>

\* Environment.snapshot.
Snapshot(e) ==
  /\ Ready(e)
  /\ snapshot' = [env |-> e, bindings |-> globals]
  /\ Answers("OK")
  /\ UNCHANGED <<closed, globals, table, envClosed, frames>>

\* EnvironmentSnapshot.restore, into the environment that took it.
Restore ==
  /\ snapshot # NoSnapshot
  /\ Ready(snapshot.env)
  /\ globals' = snapshot.bindings
  /\ Answers("OK")
  /\ UNCHANGED <<closed, table, envClosed, snapshot, frames>>

(***************************************************************************)
(* Running source.                                                         *)
(***************************************************************************)
\* Mutant: a run begins without _ready.
BeginsAnyway(d, op) ==
  /\ d \in Envs => op # "call"
  /\ Len(frames) < MaxDepth
  /\ frames' = Append(frames, [door |-> d, op |-> op])
  /\ error' = "OK"
  /\ Ends("running")
  /\ UNCHANGED <<closed, globals, table, envClosed, snapshot>>

\* exec, eval or call passes its checks and hands over to the interpreter.
Begins(d, op) ==
  /\ Ready(d)
  /\ d \in Envs => op # "call"
  /\ Len(frames) < MaxDepth
  /\ frames' = Append(frames, [door |-> d, op |-> op])
  /\ error' = "OK"
  /\ Ends("running")
  /\ UNCHANGED <<closed, globals, table, envClosed, snapshot>>

\* The front end refuses the source.
DoesNotCompile(d) ==
  /\ Ready(d)
  /\ Answers("COMPILE_ERROR")
  /\ UNCHANGED <<closed, globals, table, envClosed, snapshot, frames>>

\* What running source does to the globals, which it keeps a reference to even
\* when a host function it called has closed the runtime.
SourceBinds(n, v) ==
  /\ frames # <<>>
  /\ globals' = [globals EXCEPT ![n] = v]
  /\ UNCHANGED <<closed, table, error, envClosed, snapshot, frames, last>>

Innermost == frames[Len(frames)]
Outer == SubSeq(frames, 1, Len(frames) - 1)

\* Mutant: the exception is reported but the record is that of the last
\* operation the run itself made.
RaisesUnrecorded ==
  /\ frames # <<>>
  /\ frames' = Outer
  /\ Ends("RUNTIME_ERROR")
  /\ UNCHANGED <<closed, globals, table, error, envClosed, snapshot>>

\* The run ends with an exception.
Raises ==
  /\ frames # <<>>
  /\ frames' = Outer
  /\ Answers("RUNTIME_ERROR")
  /\ UNCHANGED <<closed, globals, table, envClosed, snapshot>>

\* exec ends well.  Nothing touches last_error: it shows the last operation
\* that failed inside the run, if its exception was caught there.
ExecReturns ==
  /\ frames # <<>> /\ Innermost.op = "exec"
  /\ frames' = Outer
  /\ Ends("OK")
  /\ UNCHANGED <<closed, globals, table, error, envClosed, snapshot>>

\* Runtime.eval_utf8 and call end well: the result is stored, even when the
\* runtime has been closed meanwhile.
ResultStored(v) ==
  /\ frames # <<>> /\ Innermost.door = Direct /\ Innermost.op # "exec"
  /\ frames' = Outer
  /\ Stores(v)
  /\ Ends("OK")
  /\ UNCHANGED <<closed, globals, error, envClosed, snapshot>>

\* Environment.evaluate ends: unbox is an operation of its own and refuses on
\* a runtime closed meanwhile; the handle is released either way.
Evaluated(v) ==
  /\ frames # <<>> /\ Innermost.door \in Envs /\ Innermost.op = "eval"
  /\ frames' = Outer
  /\ StoresAndReleases(v)
  /\ Answers(IF closed THEN "CLOSED" ELSE "OK")
  /\ envClosed' = [e \in Envs |->
                     envClosed[e] \/ (closed /\ e = Innermost.door)]
  /\ UNCHANGED <<closed, globals, snapshot>>

(***************************************************************************)
(* Handles.  None of these asks whether the runtime is closed, except      *)
(* unbox and the lookup of a callable.                                     *)
(***************************************************************************)
Box(v) ==
  /\ Stores(v)
  /\ Ends("OK")
  /\ UNCHANGED <<closed, globals, error, envClosed, snapshot, frames>>

\* Mutant: a release counts down before it looks the handle up.
UnknownCountsDown(h) ==
  /\ refs[h] = 0
  /\ refs' = [refs EXCEPT ![h] = @ - 1]
  /\ Answers("INVALID_HANDLE")
  /\ UNCHANGED <<closed, globals, next, object, held, envClosed, snapshot,
                 frames>>

\* An operation on a handle that is not in the table.
UnknownHandle(h) ==
  /\ refs[h] = 0
  /\ Answers("INVALID_HANDLE")
  /\ UNCHANGED <<closed, globals, table, envClosed, snapshot, frames>>

Retain(h) ==
  /\ refs[h] > 0 /\ held[h] < MaxHeld
  /\ refs' = [refs EXCEPT ![h] = @ + 1]
  /\ held' = [held EXCEPT ![h] = @ + 1]
  /\ Ends("OK")
  /\ UNCHANGED <<closed, globals, next, object, error, envClosed, snapshot,
                 frames>>

Release(h) ==
  /\ refs[h] > 0
  /\ refs' = [refs EXCEPT ![h] = @ - 1]
  /\ held' = [held EXCEPT ![h] = @ - 1]
  /\ object' = IF refs[h] = 1 THEN [object EXCEPT ![h] = Unbound] ELSE object
  /\ Ends("OK")
  /\ UNCHANGED <<closed, globals, next, error, envClosed, snapshot, frames>>

\* as_int; value_kind, as_float and as_utf8 differ in the type they ask for.
AsInt(h) ==
  /\ refs[h] > 0
  /\ \/ object[h] \in Ints /\ Ends("OK") /\ UNCHANGED error
     \/ object[h] \notin Ints /\ Answers("TYPE_ERROR")
  /\ UNCHANGED <<closed, globals, table, envClosed, snapshot, frames>>

Unbox(h) ==
  /\ Ready(Direct) /\ refs[h] > 0
  /\ Answers("OK")
  /\ UNCHANGED <<closed, globals, table, envClosed, snapshot, frames>>

ClearError ==
  /\ error' = "OK"
  /\ Ends("OK")
  /\ UNCHANGED <<closed, globals, table, envClosed, snapshot, frames>>

(***************************************************************************)
(* Closing.                                                                *)
(***************************************************************************)
\* Mutant: only the environment that closes is marked, the runtime stays open.
CloseMarksOnly(d) ==
  /\ Ends("OK")
  /\ envClosed' = [e \in Envs |-> envClosed[e] \/ e = d]
  /\ UNCHANGED <<closed, globals, table, error, snapshot, frames>>

\* Runtime.close, which clears every table, or refuses to do it again.
Close(d) ==
  /\ envClosed' = [e \in Envs |-> envClosed[e] \/ e = d]
  /\ \/ /\ ~closed
        /\ closed' = TRUE
        /\ globals' = [n \in Names |-> Unbound]
        /\ refs' = [h \in Handles |-> 0]
        /\ held' = [h \in Handles |-> 0]
        /\ object' = [h \in Handles |-> Unbound]
        /\ Answers("OK")
        /\ UNCHANGED next
     \/ /\ closed
        /\ Ends(IF d \in Envs THEN "OK" ELSE "CLOSED")
        /\ UNCHANGED <<closed, globals, table, error>>
  /\ UNCHANGED <<snapshot, frames>>

GlobalsStep ==
  \/ \E n \in Names \cup {BadName}, v \in Values : SetGlobal(n, v)
  \/ \E e \in Envs, entries \in EntryLists, replace \in BOOLEAN :
       Expose(e, entries, replace)
  \/ \E d \in Doors, n \in Names :
       Read(d, n) \/ \E missing_ok \in BOOLEAN : Delete(d, n, missing_ok)
  \/ \E n \in Names : GetGlobal(n)
  \/ \E e \in Envs : Snapshot(e)
  \/ Restore

RunStep ==
  \/ \E d \in Doors : DoesNotCompile(d)
  \/ \E d \in Doors, op \in {"exec", "eval", "call"} : Begins(d, op)
  \/ \E n \in Names, v \in Values \cup {Unbound} : SourceBinds(n, v)
  \/ Raises
  \/ ExecReturns
  \/ \E v \in Values : ResultStored(v) \/ Evaluated(v)

HandleStep ==
  \/ \E v \in Values : Box(v)
  \/ \E h \in Handles :
       UnknownHandle(h) \/ Retain(h) \/ Release(h) \/ AsInt(h) \/ Unbox(h)

Next ==
  \/ GlobalsStep
  \/ RunStep
  \/ HandleStep
  \/ ClearError
  \/ \E d \in Doors : Blocked(d) \/ Close(d)

Spec == Init /\ [][Next]_vars

(***************************************************************************)
(* Properties.                                                             *)
(***************************************************************************)
\* The table counts exactly the references the host owns: no method of an
\* environment leaves a handle behind, whatever the source it ran did to the
\* runtime before it returned, and closing takes every reference away.
RefsExact == refs = held

\* When an operation has failed, last_error describes that failure and not one
\* of an operation nested in it: the record an ExecutionError carries is its
\* own (environment.py:88).
FailuresExplained == last \in Recorded => error = last

\* An environment is closed only when its runtime is, so that two environments
\* over one runtime never disagree on whether names are still reachable.
ClosedTogether == \A e \in Envs : envClosed[e] => closed

\* Once the runtime is closed nothing brings it back, no operation that begins
\* later runs source, and only source already running changes its globals.
ClosedForGood ==
  [][closed => /\ closed'
               /\ Len(frames') <= Len(frames)
               /\ \/ UNCHANGED globals
                  \/ frames # <<>> /\ UNCHANGED <<frames, last>>]_vars
=============================================================================
