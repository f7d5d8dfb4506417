----------------------------- MODULE Namespace -----------------------------
(***************************************************************************)
(* What the global namespace of a runtime promises its host: an ordered    *)
(* dictionary per runtime.  Binding a new name puts it last, rebinding     *)
(* leaves its place, deleting removes it, enumeration lists each name once *)
(* in order, and restoring a snapshot brings back its names and values.    *)
(***************************************************************************)
EXTENDS Naturals, SequencesExt

CONSTANTS
  Runtimes,  \* runtimes
  Names,     \* names of globals
  Values     \* what a name is bound to

VARIABLES
  bindings,  \* <<name, value>> pairs of each runtime, in order
  snapshot   \* the pairs of the last snapshot of each runtime

vars == <<bindings, snapshot>>

Pairs(seq) == {seq[i] : i \in DOMAIN seq}
Bound(seq, n) == \E i \in DOMAIN seq : seq[i][1] = n
Without(seq, n) ==
  IF Bound(seq, n) THEN RemoveAt(seq, CHOOSE i \in DOMAIN seq : seq[i][1] = n) ELSE seq
Put(seq, n, v) ==
  IF Bound(seq, n)
  THEN [i \in DOMAIN seq |-> IF seq[i][1] = n THEN <<n, v>> ELSE seq[i]]
  ELSE Append(seq, <<n, v>>)

Init ==
  /\ bindings = [r \in Runtimes |-> <<>>]
  /\ snapshot = [r \in Runtimes |-> <<>>]

Bind(r, n, v) ==
  /\ bindings' = [bindings EXCEPT ![r] = Put(@, n, v)]
  /\ UNCHANGED snapshot

Delete(r, n) ==
  /\ bindings' = [bindings EXCEPT ![r] = Without(@, n)]
  /\ UNCHANGED snapshot

Destroy(r) ==
  /\ bindings' = [bindings EXCEPT ![r] = <<>>]
  /\ UNCHANGED snapshot

Snapshot(r) ==
  /\ snapshot' = [snapshot EXCEPT ![r] = bindings[r]]
  /\ UNCHANGED bindings

\* Names come back with their values, each once; their order is not promised.
Restore(r) ==
  /\ Pairs(bindings'[r]) = Pairs(snapshot[r])
  /\ Len(bindings'[r]) = Len(snapshot[r])
  /\ \A other \in Runtimes \ {r} : bindings'[other] = bindings[other]
  /\ UNCHANGED snapshot

Next ==
  \E r \in Runtimes :
    \/ \E n \in Names : Delete(r, n) \/ \E v \in Values : Bind(r, n, v)
    \/ Destroy(r) \/ Snapshot(r) \/ Restore(r)

Spec == Init /\ [][Next]_vars
=============================================================================
