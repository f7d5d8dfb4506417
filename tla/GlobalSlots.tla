---------------------------- MODULE GlobalSlots ----------------------------
(***************************************************************************)
(* The operations on the global table of the native runtime (native_api.py *)
(* and native_api_environment.py) and of the native facade above it        *)
(* (native_binary.py).  The table implements the dictionaries of Namespace *)
(* (ImplementsNamespace of SlotList).                                      *)
(***************************************************************************)
EXTENDS SlotList

CONSTANT MaxSlots  \* bound: slots ever appended

vars == <<slots, alive, snapshot>>

TypeOK ==
  /\ slots \in Seq([runtime : Runtimes \cup {Nothing}, name : Names \cup {Nothing},
                    value : Values \cup {Nothing}])
  /\ alive \subseteq Runtimes
  /\ \A r \in Runtimes : snapshot[r] \in Seq(Names \X Values)

Init ==
  /\ slots = <<>>
  /\ alive = Runtimes
  /\ snapshot = [r \in Runtimes |-> <<>>]

(***************************************************************************)
(* Operations of the host.                                                 *)
(***************************************************************************)
Bind(r, n, v) ==
  /\ r \in alive /\ Len(slots) < MaxSlots
  /\ slots' = BindIn(slots, r, n, v)
  /\ UNCHANGED <<alive, snapshot>>

Delete(r, n) ==
  /\ r \in alive /\ Find(slots, r, n) # 0
  /\ slots' = DeleteIn(slots, r, n)
  /\ UNCHANGED <<alive, snapshot>>

\* A name that is not bound, or a handle of a destroyed runtime: an error, and
\* nothing changes.
DeleteUnbound(r, n) == r \in alive /\ Find(slots, r, n) = 0 /\ UNCHANGED vars
CallDestroyed(r) == r \notin alive /\ UNCHANGED vars

\* The slots of a destroyed runtime lose their values and keep their names.
Destroy(r) ==
  /\ r \in alive
  /\ alive' = alive \ {r}
  /\ slots' = [i \in DOMAIN slots |->
                 IF slots[i].runtime = r THEN Slot(r, slots[i].name, Nothing)
                 ELSE slots[i]]
  /\ UNCHANGED snapshot

Snapshot(r) ==
  /\ r \in alive
  /\ snapshot' = [snapshot EXCEPT ![r] = BindingsOf(slots, r)]
  /\ UNCHANGED <<slots, alive>>

\* _restore_bindings: the two loops of SlotList, one after the other.
Restore(r) ==
  LET restored == SetAll(RemoveOthers(slots, r, snapshot[r]), r, snapshot[r]) IN
  /\ r \in alive /\ Len(restored) <= MaxSlots
  /\ slots' = restored
  /\ UNCHANGED <<alive, snapshot>>

Next ==
  \E r \in Runtimes :
    \/ \E n \in Names :
         Delete(r, n) \/ DeleteUnbound(r, n) \/ \E v \in Values : Bind(r, n, v)
    \/ Destroy(r) \/ CallDestroyed(r) \/ Snapshot(r) \/ Restore(r)

Spec == Init /\ [][Next]_vars
=============================================================================
