---------------------------- MODULE HandleTable ----------------------------
(***************************************************************************)
(* The opaque-handle core of PortaPy's native ABI.                         *)
(*                                                                         *)
(* native_api.py keeps every runtime's values in global append-only tables *)
(* and counts the references to each of them; native_api_host.py adds host *)
(* objects, their attribute table and dotted paths; and                    *)
(* native_api_environment.py adds the deletion of globals.  Each action    *)
(* below is one call of an exported function by the embedding host, or one *)
(* statement or expression the host hands to exec or eval.                 *)
(*                                                                         *)
(* held is a history variable: the references the host owns under the      *)
(* ownership rules of docs/FFI.md.  No action of the code reads it; it     *)
(* only keeps the modelled host from releasing what it does not own.       *)
(***************************************************************************)
EXTENDS Naturals, FiniteSets

CONSTANTS
  Runtimes,   \* runtime handles that may be created
  NoRuntime,  \* the owner recorded for a value slot not yet appended
  Names,      \* identifiers, for globals and for attributes
  BadName,    \* the empty name, refused by every call that takes a name
  HostIds,    \* 64-bit identities of host objects
  Scalar,     \* payload of every value that is not a host object
  MaxValues,  \* bound: values ever appended
  MaxHeld     \* bound: references the host owns to one value

ASSUME HandleTableAssumption ==
  /\ IsFiniteSet(Runtimes) /\ NoRuntime \notin Runtimes
  /\ IsFiniteSet(Names) /\ BadName \notin Names
  /\ IsFiniteSet(HostIds) /\ Scalar \notin HostIds
  /\ MaxValues \in Nat /\ MaxHeld \in Nat

VARIABLES
  life,     \* _runtime_alive: "absent" until created, then "alive", "dead"
  size,     \* number of value slots appended so far
  owner,    \* _value_runtime
  payload,  \* _value_kind and _value_i64
  refs,     \* _value_refs
  globals,  \* the global table, as a map from (runtime, name) to a handle
  attrs,    \* the attribute table: (runtime, host id, name) to a handle
  status,   \* _last_status
  error,    \* _runtime_error_status
  held      \* history: references the host owns

tables == <<life, size, owner, payload, refs, globals, attrs, held>>
vars == <<tables, status, error>>

NULL == 0
Handles == 1 .. MaxValues
Payloads == HostIds \cup {Scalar}
GlobalCells == Runtimes \X Names
AttrCells == Runtimes \X HostIds \X Names
Statuses == {"OK", "INVALID_ARGUMENT", "TYPE_ERROR", "NOT_FOUND",
             "INVALID_HANDLE"}

TypeOK ==
  /\ life \in [Runtimes -> {"absent", "alive", "dead"}]
  /\ size \in 0 .. MaxValues
  /\ owner \in [Handles -> Runtimes \cup {NoRuntime}]
  /\ payload \in [Handles -> Payloads]
  /\ refs \in [Handles -> Nat]
  /\ globals \in [GlobalCells -> Handles \cup {NULL}]
  /\ attrs \in [AttrCells -> Handles \cup {NULL}]
  /\ status \in Statuses
  /\ error \in [Runtimes -> Statuses]
  /\ held \in [Handles -> Nat]

Init ==
  /\ life = [r \in Runtimes |-> "absent"]
  /\ size = 0
  /\ owner = [h \in Handles |-> NoRuntime]
  /\ payload = [h \in Handles |-> Scalar]
  /\ refs = [h \in Handles |-> 0]
  /\ globals = [c \in GlobalCells |-> NULL]
  /\ attrs = [c \in AttrCells |-> NULL]
  /\ status = "OK"
  /\ error = [r \in Runtimes |-> "OK"]
  /\ held = [h \in Handles |-> 0]

(***************************************************************************)
(* Helpers.                                                                *)
(***************************************************************************)
Alive(r) == life[r] = "alive"

\* Mutant: handles are looked up without comparing their owner.
UsableAnywhere(f, r, h) == h # NULL /\ f[h] > 0

\* The per-value half of _value_is_valid, over the reference counts f.
Usable(f, r, h) == h # NULL /\ f[h] > 0 /\ owner[h] = r

Valid(r, h) == Alive(r) /\ Usable(refs, r, h)

Keep(f, h) == [f EXCEPT ![h] = @ + 1]

\* "if _value_is_valid(...): _value_refs[...] -= 1", as every path writes it.
Drop(f, r, h) == IF Usable(f, r, h) THEN [f EXCEPT ![h] = @ - 1] ELSE f

Global(r, n) == IF n \in Names THEN globals[<<r, n>>] ELSE NULL
Attr(r, id, n) == IF n \in Names THEN attrs[<<r, id, n>>] ELSE NULL

IsObject(h) == payload[h] \in HostIds

\* The call succeeds; clearing says whether it began with _clear_runtime_error.
Succeeds(r, clearing) ==
  /\ status' = "OK"
  /\ error' = IF clearing THEN [error EXCEPT ![r] = "OK"] ELSE error

\* The call is refused with status s and leaves record rec in the runtime.
Refused(r, s, rec) ==
  /\ status' = s
  /\ error' = [error EXCEPT ![r] = rec]
  /\ UNCHANGED tables

\* _fail: the status and the runtime's error record agree.
Fails(r, s) == Refused(r, s, s)

\* The caller receives an owned reference to the existing value h.
HostGains(h) ==
  /\ held[h] < MaxHeld
  /\ refs' = Keep(refs, h)
  /\ held' = Keep(held, h)
  /\ UNCHANGED <<life, size, owner, payload, globals, attrs>>

\* _append_value: a fresh slot owned by r, counted once.
Appended(r, p) ==
  /\ size < MaxValues
  /\ size' = size + 1
  /\ owner' = [owner EXCEPT ![size + 1] = r]
  /\ payload' = [payload EXCEPT ![size + 1] = p]

\* Mutant: the value a binding replaces is forgotten, not released.
BoundLeaks(f, r, n, h) ==
  /\ refs' = f
  /\ globals' = [globals EXCEPT ![<<r, n>>] = h]

\* _bind_global, given the counts f reached so far and a valid handle h: the
\* caller's reference to h passes to the binding, the old value is released.
Bound(f, r, n, h) ==
  /\ refs' = Drop(f, r, globals[<<r, n>>])
  /\ globals' = [globals EXCEPT ![<<r, n>>] = h]

(***************************************************************************)
(* Runtimes.                                                               *)
(***************************************************************************)
RuntimeCreate(r) ==
  /\ life[r] = "absent"
  /\ life' = [life EXCEPT ![r] = "alive"]
  /\ Succeeds(r, TRUE)
  /\ UNCHANGED <<size, owner, payload, refs, globals, attrs, held>>

\* Every value of the runtime loses all its references and every global its
\* value; attribute rows and the runtime's error record are left behind.
RuntimeDestroy(r) ==
  /\ Alive(r)
  /\ life' = [life EXCEPT ![r] = "dead"]
  /\ refs' = [h \in Handles |-> IF owner[h] = r THEN 0 ELSE refs[h]]
  /\ globals' = [c \in GlobalCells |-> IF c[1] = r THEN NULL ELSE globals[c]]
  /\ Succeeds(r, FALSE)
  /\ UNCHANGED <<size, owner, payload, attrs, held>>

\* What every other exported call does on a runtime that is not alive.
CallInvalidRuntime(r) ==
  /\ ~Alive(r)
  /\ Refused(r, "INVALID_HANDLE", error[r])

ErrorClear(r) ==
  /\ Alive(r)
  /\ Succeeds(r, TRUE)
  /\ UNCHANGED tables

(***************************************************************************)
(* Values.                                                                 *)
(***************************************************************************)
\* portapy_value_from_none, _bool, _i64, _f64_bits, _data_begin, _host_object.
ValueFrom(r, p) ==
  /\ Alive(r)
  /\ Appended(r, p)
  /\ refs' = [refs EXCEPT ![size + 1] = 1]
  /\ held' = [held EXCEPT ![size + 1] = 1]
  /\ Succeeds(r, TRUE)
  /\ UNCHANGED <<life, globals, attrs>>

\* Mutant: retain accepts a handle whose last reference is gone.
RetainUnchecked(r, h) ==
  Alive(r) /\ h <= size /\ HostGains(h) /\ Succeeds(r, FALSE)

Retain(r, h) ==
  /\ Alive(r)
  /\ \/ /\ Valid(r, h)
        /\ HostGains(h)
        /\ Succeeds(r, FALSE)
     \/ ~Valid(r, h) /\ Fails(r, "INVALID_HANDLE")

\* Mutant: release decrements without _value_is_valid.
ReleaseUnchecked(r, h) ==
  /\ held[h] > 0
  /\ refs' = [refs EXCEPT ![h] = @ - 1]
  /\ held' = [held EXCEPT ![h] = @ - 1]
  /\ Succeeds(r, FALSE)
  /\ UNCHANGED <<life, size, owner, payload, globals, attrs>>

\* docs/FFI.md: the host releases owned values, so held[h] > 0.
Release(r, h) ==
  /\ Alive(r)
  /\ \/ /\ Valid(r, h)
        /\ held[h] > 0
        /\ refs' = [refs EXCEPT ![h] = @ - 1]
        /\ held' = [held EXCEPT ![h] = @ - 1]
        /\ Succeeds(r, FALSE)
        /\ UNCHANGED <<life, size, owner, payload, globals, attrs>>
     \/ ~Valid(r, h) /\ Fails(r, "INVALID_HANDLE")

\* The scalar getters (kind, bool, i64, f64, size, byte) on value h.
ReadScalar(r, h) ==
  /\ Alive(r)
  /\ \/ ~Valid(r, h) /\ Fails(r, "INVALID_HANDLE")
     \/ Valid(r, h) /\ IsObject(h) /\ Fails(r, "TYPE_ERROR")
     \/ Valid(r, h) /\ ~IsObject(h) /\ Succeeds(r, FALSE) /\ UNCHANGED tables

\* _host_object_id: how a handle fails to name a host object.
NotAnObject(r, h) == IF Valid(r, h) THEN "TYPE_ERROR" ELSE "INVALID_HANDLE"

\* Reports through the status alone: the error record keeps what it held.
GetHostId(r, h) ==
  /\ Alive(r)
  /\ \/ /\ Valid(r, h) /\ IsObject(h)
        /\ Succeeds(r, FALSE) /\ UNCHANGED tables
     \/ /\ ~(Valid(r, h) /\ IsObject(h))
        /\ Refused(r, NotAnObject(r, h), error[r])

(***************************************************************************)
(* Globals.                                                                *)
(***************************************************************************)
GetGlobal(r, n) ==
  LET h == Global(r, n) IN
  /\ Alive(r)
  /\ \/ /\ Valid(r, h)
        /\ HostGains(h)
        /\ Succeeds(r, TRUE)
     \/ n = BadName /\ Fails(r, "INVALID_ARGUMENT")
     \/ n # BadName /\ ~Valid(r, h) /\ Fails(r, "NOT_FOUND")

\* The new value is retained before _bind_global releases the old one.
SetGlobal(r, n, h) ==
  /\ Alive(r)
  /\ \/ /\ n # BadName /\ Valid(r, h)
        /\ Bound(Keep(refs, h), r, n, h)
        /\ Succeeds(r, TRUE)
        /\ UNCHANGED <<life, size, owner, payload, attrs, held>>
     \/ n = BadName /\ Fails(r, "INVALID_ARGUMENT")
     \/ n # BadName /\ ~Valid(r, h) /\ Refused(r, "INVALID_HANDLE", "OK")

DeleteGlobal(r, n) ==
  /\ Alive(r)
  /\ \/ /\ Global(r, n) # NULL
        /\ refs' = Drop(refs, r, globals[<<r, n>>])
        /\ globals' = [globals EXCEPT ![<<r, n>>] = NULL]
        /\ Succeeds(r, TRUE)
        /\ UNCHANGED <<life, size, owner, payload, attrs, held>>
     \/ n = BadName /\ Fails(r, "INVALID_ARGUMENT")
     \/ n # BadName /\ Global(r, n) = NULL /\ Fails(r, "NOT_FOUND")

(***************************************************************************)
(* Host objects and their attributes.                                      *)
(***************************************************************************)
\* Mutant: the attribute row takes the value without retaining it.
HostSetAttrBorrows(r, o, n, h) ==
  /\ Alive(r) /\ Valid(r, o) /\ IsObject(o) /\ n # BadName /\ Valid(r, h)
  /\ refs' = Drop(refs, r, attrs[<<r, payload[o], n>>])
  /\ attrs' = [attrs EXCEPT ![<<r, payload[o], n>>] = h]
  /\ Succeeds(r, TRUE)
  /\ UNCHANGED <<life, size, owner, payload, globals, held>>

\* o is the owner's handle; the row is kept under the owner's host id.
HostSetAttr(r, o, n, h) ==
  /\ Alive(r)
  /\ \/ /\ Valid(r, o) /\ IsObject(o) /\ n # BadName /\ Valid(r, h)
        /\ refs' = Drop(Keep(refs, h), r, attrs[<<r, payload[o], n>>])
        /\ attrs' = [attrs EXCEPT ![<<r, payload[o], n>>] = h]
        /\ Succeeds(r, TRUE)
        /\ UNCHANGED <<life, size, owner, payload, globals, held>>
     \/ /\ ~(Valid(r, o) /\ IsObject(o))
        /\ Refused(r, NotAnObject(r, o), "OK")
     \/ /\ Valid(r, o) /\ IsObject(o) /\ n = BadName
        /\ Fails(r, "INVALID_ARGUMENT")
     \/ /\ Valid(r, o) /\ IsObject(o) /\ n # BadName /\ ~Valid(r, h)
        /\ Refused(r, "INVALID_HANDLE", "OK")

\* The refusal of portapy_host_get_attr for an owner o and name n.
AttrRefused(r, o, n) ==
  \/ /\ ~(Valid(r, o) /\ IsObject(o))
     /\ Refused(r, NotAnObject(r, o), "OK")
  \/ /\ Valid(r, o) /\ IsObject(o) /\ n = BadName
     /\ Fails(r, "INVALID_ARGUMENT")
  \/ /\ Valid(r, o) /\ IsObject(o) /\ n # BadName
     /\ ~Valid(r, Attr(r, payload[o], n))
     /\ IF Attr(r, payload[o], n) = NULL
        THEN Fails(r, "NOT_FOUND")
        ELSE Refused(r, "INVALID_HANDLE", "OK")

HasAttr(r, o, n) ==
  Valid(r, o) /\ IsObject(o) /\ Valid(r, Attr(r, payload[o], n))

HostGetAttr(r, o, n) ==
  /\ Alive(r)
  /\ \/ /\ HasAttr(r, o, n)
        /\ HostGains(attrs[<<r, payload[o], n>>])
        /\ Succeeds(r, TRUE)
     \/ AttrRefused(r, o, n)

(***************************************************************************)
(* Source handed to eval and exec.                                         *)
(***************************************************************************)
\* eval of a bare name: _retain_global, whose reference the host receives.
EvalName(r, n) ==
  /\ Alive(r)
  /\ \/ /\ Valid(r, globals[<<r, n>>])
        /\ HostGains(globals[<<r, n>>])
        /\ Succeeds(r, TRUE)
     \/ ~Valid(r, globals[<<r, n>>]) /\ Fails(r, "NOT_FOUND")

\* Mutant: the refused lookup returns before it releases the root.
PathRefusedLeaks(r, root, a) ==
  /\ Valid(r, root) /\ ~HasAttr(r, root, a)
  /\ status' = "NOT_FOUND"
  /\ refs' = Keep(refs, root)
  /\ UNCHANGED <<life, size, owner, payload, globals, attrs, held, error>>

\* _resolve_host_path fails on the root, or on its attribute a; the root it
\* retained is released before it returns.
PathRefused(r, root, a) ==
  \/ ~Valid(r, root) /\ Refused(r, "NOT_FOUND", "OK")
  \/ Valid(r, root) /\ AttrRefused(r, root, a)

\* eval of the dotted path "n.a": _resolve_host_path retains the root, reads
\* the attribute and releases the root again, also when the read is refused.
EvalPath(r, n, a) ==
  LET root == globals[<<r, n>>] IN
  /\ Alive(r)
  /\ \/ /\ HasAttr(r, root, a)
        /\ LET h == attrs[<<r, payload[root], a>>] IN
           /\ held[h] < MaxHeld
           /\ refs' = Drop(Keep(Keep(refs, root), h), r, root)
           /\ held' = Keep(held, h)
           /\ UNCHANGED <<life, size, owner, payload, globals, attrs>>
        /\ Succeeds(r, TRUE)
     \/ PathRefused(r, root, a)

\* exec of "n = m": the reference retained for m passes to the binding.
ExecAssignName(r, n, m) ==
  /\ Alive(r)
  /\ \/ /\ Valid(r, globals[<<r, m>>])
        /\ Bound(Keep(refs, globals[<<r, m>>]), r, n, globals[<<r, m>>])
        /\ Succeeds(r, TRUE)
        /\ UNCHANGED <<life, size, owner, payload, attrs, held>>
     \/ ~Valid(r, globals[<<r, m>>]) /\ Fails(r, "NOT_FOUND")

\* exec of "n = 1": the appended value's first reference is the binding's.
ExecAssignLiteral(r, n) ==
  /\ Alive(r)
  /\ Appended(r, Scalar)
  /\ Bound([refs EXCEPT ![size + 1] = 1], r, n, size + 1)
  /\ Succeeds(r, TRUE)
  /\ UNCHANGED <<life, attrs, held>>

\* exec of "n += m.a" (_execute_host_statement): both operands are retained,
\* _binary releases both whether or not it can add them, and the sum of two
\* integers is bound to n.
ExecAugmentPath(r, n, m, a) ==
  LET root == globals[<<r, m>>]
      current == globals[<<r, n>>]
      right == attrs[<<r, payload[root], a>>]
      both == Keep(Keep(refs, right), current)
  IN
  /\ Alive(r)
  /\ \/ PathRefused(r, root, a)
     \/ /\ HasAttr(r, root, a) /\ ~Valid(r, current)
        /\ Refused(r, "NOT_FOUND", "OK")
     \/ /\ HasAttr(r, root, a) /\ Valid(r, current)
        /\ IsObject(current) \/ IsObject(right)
        /\ status' = "TYPE_ERROR"
        /\ error' = [error EXCEPT ![r] = "TYPE_ERROR"]
        /\ refs' = Drop(Drop(both, r, current), r, right)
        /\ UNCHANGED <<life, size, owner, payload, globals, attrs, held>>
     \/ /\ HasAttr(r, root, a) /\ Valid(r, current)
        /\ ~IsObject(current) /\ ~IsObject(right)
        /\ Appended(r, Scalar)
        /\ Bound([Drop(Drop(both, r, current), r, right)
                    EXCEPT ![size + 1] = 1], r, n, size + 1)
        /\ Succeeds(r, TRUE)
        /\ UNCHANGED <<life, attrs, held>>

Next ==
  \E r \in Runtimes :
    \/ RuntimeCreate(r)
    \/ RuntimeDestroy(r)
    \/ CallInvalidRuntime(r)
    \/ ErrorClear(r)
    \/ \E p \in Payloads : ValueFrom(r, p)
    \/ \E h \in Handles : Retain(r, h) \/ Release(r, h)
    \/ \E h \in Handles : ReadScalar(r, h) \/ GetHostId(r, h)
    \/ \E n \in Names \cup {BadName} : GetGlobal(r, n) \/ DeleteGlobal(r, n)
    \/ \E n \in Names \cup {BadName}, h \in Handles : SetGlobal(r, n, h)
    \/ \E n \in Names \cup {BadName}, o, h \in Handles : HostSetAttr(r, o, n, h)
    \/ \E n \in Names \cup {BadName}, o \in Handles : HostGetAttr(r, o, n)
    \/ \E n \in Names : EvalName(r, n) \/ ExecAssignLiteral(r, n)
    \/ \E n, m \in Names : EvalPath(r, n, m) \/ ExecAssignName(r, n, m)
    \/ \E n, m, a \in Names : ExecAugmentPath(r, n, m, a)

Spec == Init /\ [][Next]_vars

(***************************************************************************)
(* Properties.                                                             *)
(***************************************************************************)
GlobalRefs(h) == {c \in GlobalCells : globals[c] = h}
AttrRefs(h) == {c \in AttrCells : attrs[c] = h}

\* Reference counting is exact: while a runtime lives, a value's count is the
\* number of references the host owns plus the number of globals and of
\* attribute rows that hold it; in a destroyed runtime every count is zero.
\* A missing retain or release on any path of set_global, delete_global,
\* host_set_attr, path resolution or assignment breaks it calls later.
RefsExact ==
  \A h \in 1 .. size :
    refs[h] = IF Alive(owner[h])
              THEN held[h] + Cardinality(GlobalRefs(h))
                           + Cardinality(AttrRefs(h))
              ELSE 0

\* Appended slots belong to a runtime that was created, the others to none;
\* a binding of a runtime, even of a destroyed one, names a slot it owned.
SlotsOwned ==
  /\ \A h \in Handles :
       IF h <= size THEN owner[h] \in Runtimes /\ life[owner[h]] # "absent"
                    ELSE owner[h] = NoRuntime /\ held[h] = 0
  /\ \A c \in GlobalCells : globals[c] # NULL => owner[globals[c]] = c[1]
  /\ \A c \in AttrCells : attrs[c] # NULL => owner[attrs[c]] = c[1]

\* The inductive invariant behind exact reference counting: counts can only
\* be exact if no binding crosses runtimes and no slot is counted twice.
RefsInv == TypeOK /\ SlotsOwned /\ RefsExact

\* What the host owns, and what a global or an attribute of a live runtime
\* holds, is a valid handle of that very runtime: nothing dangles after any
\* sequence of rebinding, deletion and release, and no runtime refers to
\* another's value.
NothingDangles ==
  /\ \A h \in 1 .. size : Alive(owner[h]) /\ held[h] > 0 => Valid(owner[h], h)
  /\ \A c \in GlobalCells :
       Alive(c[1]) /\ globals[c] # NULL => Valid(c[1], globals[c])
  /\ \A c \in AttrCells :
       Alive(c[1]) /\ attrs[c] # NULL => Valid(c[1], attrs[c])

\* A handle denotes one value for ever: its owner and payload never change,
\* and once its last reference is gone no call brings it back, so a stale
\* handle can only be refused.
HandlesNeverReused ==
  [][\A h \in 1 .. size :
       /\ owner'[h] = owner[h] /\ payload'[h] = payload[h]
       /\ refs[h] = 0 => refs'[h] = 0]_vars

\* A call changes the values, bindings and error record of one runtime only.
Touched(r) ==
  \/ life'[r] # life[r] \/ error'[r] # error[r]
  \/ \E c \in GlobalCells : c[1] = r /\ globals'[c] # globals[c]
  \/ \E c \in AttrCells : c[1] = r /\ attrs'[c] # attrs[c]
  \/ \E h \in 1 .. size : owner[h] = r /\ refs'[h] # refs[h]

\* Runtimes are isolated although all of them share the same global tables
\* and calls receive handles of any runtime: no call touches two of them.
RuntimesIsolated ==
  [][\A r, s \in Runtimes : Touched(r) /\ Touched(s) => r = s]_vars

\* A refused call leaves every table as it was: temporaries that a failing
\* path lookup or addition retained have been released again.
RefusalsChangeNothing ==
  [][status' # "OK" => UNCHANGED tables]_vars

=============================================================================
