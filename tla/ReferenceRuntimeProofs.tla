----------------------- MODULE ReferenceRuntimeProofs -----------------------
(***************************************************************************)
(* The invariants of the hosted runtime, for any number of environments,   *)
(* names, objects, handles and nested runs.                                *)
(***************************************************************************)
EXTENDS ReferenceRuntime, SequenceTheorems,
        WellFoundedInduction, TLAPS

USE DEF ReferenceAssumption, Doors, Handles, Recorded, Statuses, table

\* What any ending of an operation leaves in last.
LEMMA EndsTyped ==
  ASSUME NEW s, Ends(s) PROVE last' \in Recorded \cup {"OK"}
  BY DEF Ends

\* Recording a handle keeps the table well typed and the counts equal.
LEMMA StoresTyped ==
  ASSUME TypeOK, NEW v \in Values, Stores(v)
  PROVE  /\ next' \in 1 .. MaxHandles + 1
         /\ object' \in [Handles -> Values \cup {Unbound}]
         /\ refs' \in [Handles -> Nat]
         /\ held' \in [Handles -> Nat]
         /\ refs = held => refs' = held'
  <1>1. MaxHandles \in Nat
    BY ReferenceAssumption
  <1>2. next \in Handles /\ next + 1 \in 1 .. MaxHandles + 1
    BY <1>1 DEF TypeOK, Stores
  <1>3. next' \in 1 .. MaxHandles + 1
    BY <1>2 DEF Stores
  <1>4. object' \in [Handles -> Values \cup {Unbound}]
    BY <1>2 DEF TypeOK, Stores
  <1>5. refs' \in [Handles -> Nat] /\ held' \in [Handles -> Nat]
    BY <1>2 DEF TypeOK, Stores
  <1>6. refs = held => refs' = held'
    BY DEF Stores
  <1> QED
    BY <1>3, <1>4, <1>5, <1>6

\* The runs that remain when the innermost has ended are well typed.
LEMMA OuterTyped ==
  ASSUME TypeOK, frames # <<>>
  PROVE  /\ Outer \in Seq(Runs)
         /\ Innermost \in Runs
         /\ Len(Outer) = Len(frames) - 1
  <1>1. frames \in Seq(Runs) /\ Len(frames) \in Nat /\ Len(frames) > 0
    BY EmptySeq, LenProperties DEF TypeOK
  <1>2. Innermost \in Runs
    BY <1>1, ElementOfSeq DEF Innermost
  <1>3. \A i \in 1 .. Len(frames) - 1 : frames[i] \in Runs
    BY <1>1, ElementOfSeq
  <1>4. Outer \in Seq(Runs) /\ Len(Outer) = Len(frames) - 1
    <2> DEFINE n == Len(frames) - 1
    <2>1. n \in Nat
      BY <1>1
    <2>2. \A i \in 1 .. n : frames[i] \in Runs
      BY <1>3
    <2>3. SubSeq(frames, 1, n) \in Seq(Runs) /\ Len(SubSeq(frames, 1, n)) = n
      <3> HIDE DEF n
      <3> QED
        BY <2>1, <2>2, SubSeqProperties
    <2> QED
      BY <2>3 DEF Outer
  <1> QED
    BY <1>2, <1>4

\* A bounded set of positions that is not empty has a last one.
LEMMA LastOf ==
  ASSUME NEW k \in Nat, NEW T \in SUBSET (1 .. k), T # {}
  PROVE  \E i \in T : \A j \in T : j <= i
  <1> DEFINE D == {k - i : i \in T}
  <1>1. D \subseteq Nat /\ D # {}
    <2>1. ASSUME NEW i \in T PROVE k - i \in Nat
      OBVIOUS
    <2>2. PICK i \in T : TRUE
      OBVIOUS
    <2>3. k - i \in D
      OBVIOUS
    <2> QED
      BY <2>1, <2>3
  <1>2. \E x \in D : \A y \in D : ~(<<y, x>> \in OpToRel(<, Nat))
    <2> DEFINE R == OpToRel(<, Nat)
    <2>1. IsWellFoundedOn(R, Nat)
      BY NatLessThanWellFounded, Zenon
    <2> HIDE DEF D, R
    <2>2. \E x \in D : \A y \in D : ~(<<y, x>> \in R)
      BY <1>1, <2>1, WFMin
    <2> QED
      BY <2>2, Zenon DEF R
  <1>3. PICK x \in D : \A y \in D : ~(y < x)
    BY <1>1, <1>2 DEF OpToRel
  <1>4. PICK i \in T : x = k - i
    OBVIOUS
  <1>5. ASSUME NEW j \in T PROVE j <= i
    <2>1. ~(k - j < x)
      BY <1>3
    <2> QED
      BY <2>1, <1>4
  <1> QED
    BY <1>5

LEMMA GlobalsTyped ==
  ASSUME TypeOK, GlobalsStep PROVE TypeOK'
  <1>1. ASSUME NEW n \in Names \cup {BadName}, NEW v \in Values, SetGlobal(n, v)
        PROVE  TypeOK'
    BY <1>1 DEF TypeOK, SetGlobal, Answers, Ends, Bindings
  <1>2. ASSUME NEW e \in Envs, NEW entries \in EntryLists,
               NEW replace \in BOOLEAN, Expose(e, entries, replace)
        PROVE  TypeOK'
    <2>1. entries \in Seq((Names \cup {BadName}) \X Values)
      BY ReferenceAssumption
    <2>. Len(entries) \in Nat
      BY <2>1, LenProperties
    <2>2. PICK k \in 0 .. Len(entries) :
            /\ Fits(entries, k, replace)
            /\ globals' = Adding(entries, k)
            /\ Ends(IF k = Len(entries) THEN "OK" ELSE "BindingError")
            /\ error' = IF k = 0 /\ entries[1][1] = BadName
                        THEN error ELSE "OK"
      BY <1>2 DEF Expose
    <2>3. globals' \in Bindings
      <3>1. ASSUME NEW n \in Names, \E i \in 1 .. k : entries[i][1] = n
            PROVE  Adding(entries, k)[n] \in Values
        <4> DEFINE At == {i \in 1 .. k : entries[i][1] = n}
        <4>1. PICK i \in At : \A j \in At : j <= i
          <5>1. k \in Nat /\ At \in SUBSET (1 .. k) /\ At # {}
            BY <3>1
          <5> HIDE DEF At
          <5> QED
            BY <5>1, LastOf
        <4>2. \A j \in i + 1 .. k : entries[j][1] # n
          BY <4>1
        <4>3. PICK m \in 1 .. k :
                /\ entries[m][1] = n
                /\ Adding(entries, k)[n] = entries[m][2]
          BY <3>1, <4>1, <4>2 DEF Adding
        <4>4. entries[m] \in (Names \cup {BadName}) \X Values
          BY <2>1, ElementOfSeq
        <4> QED
          BY <4>3, <4>4
      <3>2. ASSUME NEW n \in Names, ~\E i \in 1 .. k : entries[i][1] = n
            PROVE  Adding(entries, k)[n] \in Values \cup {Unbound}
        BY <3>2 DEF Adding, Bindings, TypeOK
      <3>3. Adding(entries, k) = [n \in Names |-> Adding(entries, k)[n]]
        BY DEF Adding
      <3> QED
        BY <2>2, <3>1, <3>2, <3>3 DEF Bindings
    <2> QED
      BY <1>2, <2>2, <2>3, EndsTyped DEF Expose, TypeOK
  <1>3. ASSUME NEW d \in Doors, NEW n \in Names, Read(d, n)
        PROVE  TypeOK'
    BY <1>3 DEF TypeOK, Read, Answers, Ends
  <1>4. ASSUME NEW d \in Doors, NEW n \in Names, NEW missing_ok \in BOOLEAN,
               Delete(d, n, missing_ok)
        PROVE  TypeOK'
    BY <1>4 DEF TypeOK, Delete, Answers, Ends, Bindings
  <1>5. ASSUME NEW n \in Names, GetGlobal(n)
        PROVE  TypeOK'
    <2>1. CASE globals[n] = Unbound
      BY <1>5, <2>1 DEF TypeOK, GetGlobal, Answers, Ends
    <2>2. CASE globals[n] # Unbound
      <3>1. globals[n] \in Values
        BY <2>2 DEF TypeOK, Bindings
      <3>2. Stores(globals[n]) /\ Answers("OK")
        BY <1>5, <2>2 DEF GetGlobal
      <3> QED
        BY <1>5, <3>1, <3>2, StoresTyped DEF TypeOK, GetGlobal, Answers, Ends
    <2> QED
      BY <2>1, <2>2
  <1>6. ASSUME NEW e \in Envs, Snapshot(e)
        PROVE  TypeOK'
    BY <1>6 DEF TypeOK, Snapshot, Answers, Ends
  <1>7. CASE Restore
    BY <1>7 DEF TypeOK, Restore, Answers, Ends
  <1> QED
    BY <1>1, <1>2, <1>3, <1>4, <1>5, <1>6, <1>7 DEF GlobalsStep

LEMMA RunTyped ==
  ASSUME TypeOK, RunStep PROVE TypeOK'
  <1>1. ASSUME NEW d \in Doors, DoesNotCompile(d)
        PROVE  TypeOK'
    BY <1>1 DEF TypeOK, DoesNotCompile, Answers, Ends
  <1>2. ASSUME NEW d \in Doors, NEW op \in {"exec", "eval", "call"},
               Begins(d, op)
        PROVE  TypeOK'
    <2>1. [door |-> d, op |-> op] \in Runs
      BY DEF Runs
    <2> QED
      BY <1>2, <2>1 DEF TypeOK, Begins, Ends
  <1>3. ASSUME NEW n \in Names, NEW v \in Values \cup {Unbound},
               SourceBinds(n, v)
        PROVE  TypeOK'
    BY <1>3 DEF TypeOK, SourceBinds, Bindings
  <1>4. CASE Raises
    BY <1>4, OuterTyped DEF TypeOK, Raises, Answers, Ends
  <1>5. CASE ExecReturns
    BY <1>5, OuterTyped DEF TypeOK, ExecReturns, Ends
  <1>6. ASSUME NEW v \in Values, ResultStored(v)
        PROVE  TypeOK'
    <2>1. frames # <<>> /\ Stores(v)
      BY <1>6 DEF ResultStored
    <2>2. frames' \in Seq(Runs)
      BY <1>6, <2>1, OuterTyped DEF ResultStored
    <2> QED
      BY <1>6, <2>1, <2>2, StoresTyped DEF TypeOK, ResultStored, Ends
  <1>7. ASSUME NEW v \in Values, Evaluated(v)
        PROVE  TypeOK'
    <2>1. frames # <<>> /\ frames' = Outer
      BY <1>7 DEF Evaluated
    <2>2. frames' \in Seq(Runs)
      BY <2>1, OuterTyped
    <2>3. next' \in 1 .. MaxHandles + 1
      BY <1>7, ReferenceAssumption DEF TypeOK, Evaluated, StoresAndReleases
    <2>4. envClosed' \in [Envs -> BOOLEAN]
      BY <1>7 DEF TypeOK, Evaluated
    <2>5. error' \in Statuses /\ last' \in Recorded \cup {"OK"}
      BY <1>7 DEF Evaluated, Answers, Ends
    <2> QED
      BY <1>7, <2>2, <2>3, <2>4, <2>5
      DEF TypeOK, Evaluated, StoresAndReleases
  <1> QED
    BY <1>1, <1>2, <1>3, <1>4, <1>5, <1>6, <1>7 DEF RunStep

LEMMA HandleTyped ==
  ASSUME TypeOK, RefsExact, HandleStep PROVE TypeOK'
  <1>1. ASSUME NEW v \in Values, Box(v)
        PROVE  TypeOK'
    BY <1>1, StoresTyped DEF TypeOK, Box, Ends
  <1>2. ASSUME NEW h \in Handles, UnknownHandle(h)
        PROVE  TypeOK'
    BY <1>2 DEF TypeOK, UnknownHandle, Answers, Ends
  <1>3. ASSUME NEW h \in Handles, Retain(h)
        PROVE  TypeOK'
    BY <1>3 DEF TypeOK, Retain, Ends
  <1>4. ASSUME NEW h \in Handles, Release(h)
        PROVE  TypeOK'
    BY <1>4 DEF TypeOK, RefsExact, Release, Ends
  <1>5. ASSUME NEW h \in Handles, AsInt(h) \/ Unbox(h)
        PROVE  TypeOK'
    BY <1>5 DEF TypeOK, AsInt, Unbox, Answers, Ends
  <1> QED
    BY <1>1, <1>2, <1>3, <1>4, <1>5 DEF HandleStep

LEMMA ClosingTyped ==
  ASSUME TypeOK, NEW d \in Doors, Blocked(d) \/ Close(d)
  PROVE  TypeOK'
  <1>1. envClosed' \in [Envs -> BOOLEAN]
    BY DEF TypeOK, Blocked, Close
  <1>2. CASE Blocked(d)
    BY <1>1, <1>2 DEF TypeOK, Blocked, Ends
  <1>3. CASE Close(d)
    <2>1. CASE closed
      <3>1. last' \in Recorded \cup {"OK"}
        BY <1>3, <2>1, EndsTyped DEF Close
      <3>2. UNCHANGED <<closed, globals, table, error, snapshot, frames>>
        BY <1>3, <2>1 DEF Close
      <3> QED
        BY <1>1, <3>1, <3>2 DEF TypeOK
    <2>2. CASE ~closed
      <3>1. /\ closed' = TRUE
            /\ globals' = [n \in Names |-> Unbound]
            /\ refs' = [h \in Handles |-> 0]
            /\ held' = [h \in Handles |-> 0]
            /\ object' = [h \in Handles |-> Unbound]
            /\ UNCHANGED <<next, snapshot, frames>>
            /\ error' = "OK" /\ last' = "OK"
        BY <1>3, <2>2 DEF Close, Answers, Ends
      <3>2. globals' \in Bindings
        BY <3>1 DEF Bindings
      <3> QED
        BY <1>1, <3>1, <3>2 DEF TypeOK
    <2> QED
      BY <2>1, <2>2
  <1> QED
    BY <1>2, <1>3

\* What one step leaves true of the counts.
LEMMA CountsStep ==
  ASSUME TypeOK, RefsExact, [Next]_vars PROVE RefsExact'
  <1>1. CASE GlobalsStep
    BY <1>1, StoresTyped
    DEF GlobalsStep, SetGlobal, Expose, Read, Delete, GetGlobal, Snapshot,
        Restore, Stores, RefsExact
  <1>2. CASE RunStep
    BY <1>2
    DEF RunStep, DoesNotCompile, Begins, SourceBinds, Raises, ExecReturns,
        ResultStored, Evaluated, Stores, StoresAndReleases, RefsExact
  <1>3. CASE HandleStep
    BY <1>3
    DEF HandleStep, Box, UnknownHandle, Retain, Release, AsInt, Unbox, Stores,
        RefsExact
  <1>4. CASE ClearError
    BY <1>4 DEF ClearError, RefsExact
  <1>5. ASSUME NEW d \in Doors, Blocked(d) \/ Close(d) PROVE RefsExact'
    BY <1>5 DEF Blocked, Close, RefsExact
  <1>6. CASE UNCHANGED vars
    BY <1>6 DEF vars, RefsExact
  <1> QED
    BY <1>1, <1>2, <1>3, <1>4, <1>5, <1>6 DEF Next

LEMMA TypeStep ==
  ASSUME TypeOK, RefsExact, [Next]_vars PROVE TypeOK'
  <1>1. CASE ClearError
    BY <1>1 DEF TypeOK, ClearError, Ends
  <1>2. CASE UNCHANGED vars
    BY <1>2 DEF vars, TypeOK
  <1> QED
    BY <1>1, <1>2, GlobalsTyped, RunTyped, HandleTyped, ClosingTyped DEF Next

LEMMA InitTyped == Init => TypeOK /\ RefsExact
  <1> SUFFICES ASSUME Init PROVE TypeOK /\ RefsExact
    OBVIOUS
  <1>1. RefsExact
    BY DEF Init, RefsExact
  <1>2. globals \in Bindings /\ frames \in Seq(Runs)
    BY DEF Init, Bindings
  <1>3. next \in 1 .. MaxHandles + 1
    BY ReferenceAssumption DEF Init
  <1> QED
    BY <1>1, <1>2, <1>3 DEF Init, TypeOK

\* The runtime's tables stay well typed, and the references counted in them are
\* exactly those the host owns, under any nesting of runs and any closing.
THEOREM RuntimeExact == Spec => [](TypeOK /\ RefsExact)
  <1>1. TypeOK /\ RefsExact /\ [Next]_vars => (TypeOK /\ RefsExact)'
    BY TypeStep, CountsStep
  <1> QED
    BY <1>1, InitTyped, PTL DEF Spec

\* The value table, the error record, the runs in progress and the environments
\* over the runtime keep their types, whatever re-enters or closes it.
THEOREM RuntimeTypes == Spec => []TypeOK
  BY RuntimeExact, PTL

\* The record of a failed operation is always its own.
THEOREM RuntimeExplains == Spec => []FailuresExplained
  <1>1. Init => FailuresExplained
    BY DEF Init, FailuresExplained
  <1>2. FailuresExplained /\ [Next]_vars => FailuresExplained'
    <2> SUFFICES ASSUME FailuresExplained, [Next]_vars
                 PROVE  FailuresExplained'
      OBVIOUS
    <2>1. CASE GlobalsStep
      BY <2>1
      DEF GlobalsStep, SetGlobal, Expose, Read, Delete, GetGlobal, Snapshot,
          Restore, Answers, Ends, FailuresExplained
    <2>2. CASE RunStep
      <3>1. ASSUME NEW d \in Doors, DoesNotCompile(d) PROVE FailuresExplained'
        BY <3>1 DEF DoesNotCompile, Answers, Ends, FailuresExplained
      <3>2. ASSUME NEW d \in Doors, NEW op \in {"exec", "eval", "call"},
                   Begins(d, op)
            PROVE  FailuresExplained'
        BY <3>2 DEF Begins, Answers, Ends, FailuresExplained
      <3>3. ASSUME NEW n \in Names, NEW v \in Values \cup {Unbound},
                   SourceBinds(n, v)
            PROVE  FailuresExplained'
        BY <3>3 DEF SourceBinds, Answers, Ends, FailuresExplained
      <3>4. CASE Raises
        BY <3>4 DEF Raises, Answers, Ends, FailuresExplained
      <3>5. CASE ExecReturns
        BY <3>5 DEF ExecReturns, Answers, Ends, FailuresExplained
      <3>6. ASSUME NEW v \in Values, ResultStored(v) PROVE FailuresExplained'
        BY <3>6 DEF ResultStored, Answers, Ends, FailuresExplained
      <3>7. ASSUME NEW v \in Values, Evaluated(v) PROVE FailuresExplained'
        BY <3>7 DEF Evaluated, Answers, Ends, FailuresExplained
      <3> QED
        BY <2>2, <3>1, <3>2, <3>3, <3>4, <3>5, <3>6, <3>7 DEF RunStep
    <2>3. CASE HandleStep
      BY <2>3
      DEF HandleStep, Box, UnknownHandle, Retain, Release, AsInt, Unbox,
          Answers, Ends, FailuresExplained
    <2>4. CASE ClearError
      BY <2>4 DEF ClearError, Ends, FailuresExplained
    <2>5. ASSUME NEW d \in Doors, Blocked(d) \/ Close(d)
          PROVE  FailuresExplained'
      BY <2>5 DEF Blocked, Close, Answers, Ends, FailuresExplained
    <2>6. CASE UNCHANGED vars
      BY <2>6 DEF vars, FailuresExplained
    <2> QED
      BY <2>1, <2>2, <2>3, <2>4, <2>5, <2>6 DEF Next
  <1> QED
    BY <1>1, <1>2, PTL DEF Spec

\* Whether one environment is closed never disagrees with the shared runtime.
THEOREM EnvironmentsAgree == Spec => []ClosedTogether
  <1>1. Init => ClosedTogether
    BY DEF Init, ClosedTogether
  <1>2. ClosedTogether /\ [Next]_vars => ClosedTogether'
    <2> SUFFICES ASSUME ClosedTogether, [Next]_vars
                 PROVE  ClosedTogether'
      OBVIOUS
    <2>1. CASE GlobalsStep
      BY <2>1
      DEF GlobalsStep, SetGlobal, Expose, Read, Delete, GetGlobal, Snapshot,
          Restore, ClosedTogether
    <2>2. CASE RunStep
      <3>1. ASSUME NEW d \in Doors, DoesNotCompile(d) PROVE ClosedTogether'
        BY <3>1 DEF DoesNotCompile, ClosedTogether
      <3>2. ASSUME NEW d \in Doors, NEW op \in {"exec", "eval", "call"},
                   Begins(d, op)
            PROVE  ClosedTogether'
        BY <3>2 DEF Begins, ClosedTogether
      <3>3. ASSUME NEW n \in Names, NEW v \in Values \cup {Unbound},
                   SourceBinds(n, v)
            PROVE  ClosedTogether'
        BY <3>3 DEF SourceBinds, ClosedTogether
      <3>4. CASE Raises
        BY <3>4 DEF Raises, ClosedTogether
      <3>5. CASE ExecReturns
        BY <3>5 DEF ExecReturns, ClosedTogether
      <3>6. ASSUME NEW v \in Values, ResultStored(v) PROVE ClosedTogether'
        BY <3>6 DEF ResultStored, ClosedTogether
      <3>7. ASSUME NEW v \in Values, Evaluated(v) PROVE ClosedTogether'
        BY <3>7 DEF Evaluated, ClosedTogether
      <3> QED
        BY <2>2, <3>1, <3>2, <3>3, <3>4, <3>5, <3>6, <3>7 DEF RunStep
    <2>3. CASE HandleStep
      BY <2>3
      DEF HandleStep, Box, UnknownHandle, Retain, Release, AsInt, Unbox,
          ClosedTogether
    <2>4. CASE ClearError
      BY <2>4 DEF ClearError, ClosedTogether
    <2>5. ASSUME NEW d \in Doors, Blocked(d) PROVE ClosedTogether'
      BY <2>5 DEF Blocked, Admits, ClosedTogether
    <2>6. ASSUME NEW d \in Doors, Close(d) PROVE ClosedTogether'
      BY <2>6 DEF Close, ClosedTogether
    <2>7. CASE UNCHANGED vars
      BY <2>7 DEF vars, ClosedTogether
    <2> QED
      BY <2>1, <2>2, <2>3, <2>4, <2>5, <2>6, <2>7 DEF Next
  <1> QED
    BY <1>1, <1>2, PTL DEF Spec

\* Closing is final: nothing begins on a closed runtime, and only the source
\* that was already running still writes its globals.
THEOREM ClosingIsFinal == Spec => ClosedForGood
  <1> DEFINE Final == closed => /\ closed'
                                /\ Len(frames') <= Len(frames)
                                /\ \/ UNCHANGED globals
                                   \/ frames # <<>> /\ UNCHANGED <<frames, last>>
  <1>1. TypeOK /\ [Next]_vars => [Final]_vars
    <2> SUFFICES ASSUME TypeOK, closed, Next PROVE Final
      OBVIOUS
    <2>. Len(frames) \in Nat
      BY LenProperties DEF TypeOK
    <2>1. CASE GlobalsStep
      BY <2>1
      DEF GlobalsStep, SetGlobal, Expose, Read, Delete, GetGlobal, Snapshot,
          Restore, Ready
    <2>2. CASE RunStep
      <3>1. ASSUME NEW d \in Doors, DoesNotCompile(d) PROVE Final
        BY <3>1 DEF DoesNotCompile, Ready
      <3>2. ASSUME NEW d \in Doors, NEW op \in {"exec", "eval", "call"},
                   Begins(d, op)
            PROVE  Final
        BY <3>2 DEF Begins, Ready
      <3>3. ASSUME NEW n \in Names, NEW v \in Values \cup {Unbound},
                   SourceBinds(n, v)
            PROVE  Final
        BY <3>3 DEF SourceBinds, Ready
      <3>4. CASE Raises
        BY <3>4, OuterTyped DEF Raises, Ready
      <3>5. CASE ExecReturns
        BY <3>5, OuterTyped DEF ExecReturns, Ready
      <3>6. ASSUME NEW v \in Values, ResultStored(v) PROVE Final
        BY <3>6, OuterTyped DEF ResultStored, Ready
      <3>7. ASSUME NEW v \in Values, Evaluated(v) PROVE Final
        BY <3>7, OuterTyped DEF Evaluated, Ready
      <3> QED
        BY <2>2, <3>1, <3>2, <3>3, <3>4, <3>5, <3>6, <3>7 DEF RunStep
    <2>3. CASE HandleStep
      <3>1. UNCHANGED <<closed, globals, frames>>
        BY <2>3
        DEF HandleStep, Box, UnknownHandle, Retain, Release, AsInt, Unbox
      <3> QED
        BY <3>1
    <2>4. CASE ClearError
      BY <2>4 DEF ClearError
    <2>5. ASSUME NEW d \in Doors, Blocked(d) PROVE Final
      BY <2>5 DEF Blocked
    <2>6. ASSUME NEW d \in Doors, Close(d) PROVE Final
      <3>1. UNCHANGED <<closed, globals, frames>>
        BY <2>6 DEF Close
      <3> QED
        BY <3>1
    <2> QED
      BY <2>1, <2>2, <2>3, <2>4, <2>5, <2>6 DEF Next
  <1>2. Spec => []TypeOK
    BY RuntimeExact, PTL
  <1> QED
    BY <1>1, <1>2, PTL DEF Spec, ClosedForGood
=============================================================================
