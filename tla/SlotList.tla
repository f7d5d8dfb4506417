------------------------------ MODULE SlotList ------------------------------
(***************************************************************************)
(* The list of global slots as the native runtime keeps it (native_api.py  *)
(* and native_api_environment.py): one for all runtimes, only ever         *)
(* appended to.  Deleting a name clears its slot for good; rebinding a     *)
(* deleted name appends another.  Names are enumerated through a logical   *)
(* index that skips the slots of other runtimes and the cleared ones, and  *)
(* the native facade (native_binary.py) snapshots and restores on top of   *)
(* that enumeration.                                                       *)
(*                                                                         *)
(* The list stands for the dictionaries of Namespace.  GlobalSlots has the *)
(* operations on it.                                                       *)
(***************************************************************************)
EXTENDS Naturals, FiniteSets, SequencesExt

CONSTANTS
  Runtimes,  \* runtimes, all created at the start
  Names,     \* names of globals
  Values     \* values of globals

VARIABLES
  slots,     \* _global_runtime, _global_name and _global_value
  alive,     \* runtimes not yet destroyed
  snapshot   \* the bindings of the last snapshot of each runtime, in order

Nothing == "none"
Slot(r, n, v) == [runtime |-> r, name |-> n, value |-> v]
Cleared == Slot(Nothing, Nothing, Nothing)

\* Mutant: the search stops before the newest slot.
FindMissesLast(table, r, n) ==
  IF table = <<>> THEN 0
  ELSE SelectInSeq(Front(table), LAMBDA s : s.runtime = r /\ s.name = n)

\* _find_global_slot: the first slot of the runtime with the name, or 0.
Find(table, r, n) == SelectInSeq(table, LAMBDA s : s.runtime = r /\ s.name = n)

\* _bind_global.
BindIn(table, r, n, v) ==
  LET i == Find(table, r, n) IN
  IF i # 0 THEN [table EXCEPT ![i] = Slot(r, n, v)] ELSE Append(table, Slot(r, n, v))

\* Mutant: the slot is removed by swapping the last one into its place.
DeleteSwaps(table, r, n) ==
  LET i == Find(table, r, n) IN
  IF i = 0 THEN table ELSE Front([table EXCEPT ![i] = Last(table)])

\* _portapy_delete_global_span_impl.
DeleteIn(table, r, n) ==
  LET i == Find(table, r, n) IN
  IF i = 0 THEN table ELSE [table EXCEPT ![i] = Cleared]

\* The slots an enumeration counts, and the one at a logical index: as many
\* count up to and with it.
Active(table, r) == {i \in DOMAIN table : table[i].runtime = r /\ table[i].name # Nothing}
ActiveSlot(table, r, k) ==
  CHOOSE i \in Active(table, r) : Cardinality(Active(table, r) \cap (1 .. i)) = k

\* _global_names, and bindings(): the names in order, each then looked up.
GlobalNames(table, r) ==
  [k \in 1 .. Cardinality(Active(table, r)) |-> table[ActiveSlot(table, r, k)].name]
BindingsOf(table, r) ==
  LET names == GlobalNames(table, r) IN
  [k \in DOMAIN names |-> <<names[k], table[Find(table, r, names[k])].value>>]

\* _restore_bindings: the names that are not in the snapshot are removed, in
\* the order they were listed in before the first was removed ...
RemoveOthers(table, r, pairs) ==
  LET names == GlobalNames(table, r)
      after[k \in 0 .. Len(names)] ==
        IF k = 0 THEN table
        ELSE IF \E i \in DOMAIN pairs : pairs[i][1] = names[k] THEN after[k - 1]
        ELSE DeleteIn(after[k - 1], r, names[k])
  IN  after[Len(names)]

\* ... and those in it are set, in its order.
SetAll(table, r, pairs) ==
  LET after[k \in 0 .. Len(pairs)] ==
        IF k = 0 THEN table
        ELSE BindIn(after[k - 1], r, pairs[k][1], pairs[k][2])
  IN  after[Len(pairs)]

(***************************************************************************)
(* What the list stands for.                                               *)
(***************************************************************************)
\* A runtime has one slot at most for a name, however often the name was
\* deleted and bound again: what lookup finds and what enumeration lists are
\* the same slots.
OneSlotPerName ==
  \A r \in Runtimes, i \in DOMAIN slots :
    slots[i].runtime = r => Find(slots, r, slots[i].name) = i

\* The slot list implements one ordered dictionary per runtime: no operation on
\* one runtime is seen in another, and snapshots restore what they captured.
Bindings == [r \in Runtimes |-> IF r \in alive THEN BindingsOf(slots, r) ELSE <<>>]
Dictionary == INSTANCE Namespace WITH bindings <- Bindings
ImplementsNamespace == Dictionary!Spec
=============================================================================
