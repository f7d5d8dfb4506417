------------------------- MODULE HandleTableProofs -------------------------
(***************************************************************************)
(* Proofs about HandleTable, for every number of runtimes, names, host ids *)
(* and values.                                                             *)
(***************************************************************************)
EXTENDS HandleTable, CountsAndStacks

(***************************************************************************)
(* Type correctness.                                                       *)
(***************************************************************************)

\* Retaining and releasing keep reference counts natural numbers: a count is
\* only lowered when it is positive.
LEMMA KeepDropType ==
  ASSUME NEW f \in [Handles -> Nat], NEW h \in Handles \cup {NULL}, NEW r
  PROVE  /\ h \in Handles => Keep(f, h) \in [Handles -> Nat]
         /\ Drop(f, r, h) \in [Handles -> Nat]
  BY DEF Keep, Drop, Usable, Handles, NULL

LEMMA NextSlot ==
  ASSUME size \in 0 .. MaxValues, size < MaxValues
  PROVE  size + 1 \in Handles /\ size + 1 \in 0 .. MaxValues /\ size + 1 # NULL
  BY HandleTableAssumption DEF Handles, NULL

\* A usable handle is a handle.
LEMMA UsableIsHandle ==
  ASSUME NEW h \in Handles \cup {NULL}, NEW f, NEW r, Usable(f, r, h)
  PROVE  h \in Handles
  BY DEF Usable

\* An outcome that refuses the call preserves the types.
LEMMA RefusedType ==
  ASSUME TypeOK, NEW r \in Runtimes, NEW s \in Statuses, NEW e \in Statuses,
         Refused(r, s, e)
  PROVE  TypeOK'
  BY DEF TypeOK, Refused, tables, Statuses, Handles, NULL, GlobalCells, AttrCells

LEMMA FailsType ==
  ASSUME TypeOK, NEW r \in Runtimes, NEW s \in Statuses, Fails(r, s)
  PROVE  TypeOK'
  BY RefusedType DEF Fails

\* So does an outcome that succeeds, once its tables are known to.
LEMMA SucceedsType ==
  ASSUME TypeOK, NEW r \in Runtimes, NEW b \in BOOLEAN, Succeeds(r, b)
  PROVE  /\ status' \in Statuses
         /\ error' \in [Runtimes -> Statuses]
  BY DEF TypeOK, Succeeds, Statuses

LEMMA HostGainsType ==
  ASSUME TypeOK, NEW h \in Handles, HostGains(h)
  PROVE  /\ refs' \in [Handles -> Nat]
         /\ held' \in [Handles -> Nat]
         /\ UNCHANGED <<life, size, owner, payload, globals, attrs>>
  BY KeepDropType DEF TypeOK, HostGains

LEMMA AttrRefusedType ==
  ASSUME TypeOK, NEW r \in Runtimes, NEW o \in Handles \cup {NULL}, NEW n,
         AttrRefused(r, o, n)
  PROVE  TypeOK'
  <1>1. \A s, e \in Statuses : Refused(r, s, e) => TypeOK'
    BY RefusedType
  <1>2. {"TYPE_ERROR", "INVALID_HANDLE", "INVALID_ARGUMENT", "NOT_FOUND", "OK"}
          \subseteq Statuses
    BY DEF Statuses
  <1> QED
    BY <1>1, <1>2 DEF AttrRefused, Fails, NotAnObject

LEMMA TypeInit == Init => TypeOK
  BY HandleTableAssumption
  DEF Init, TypeOK, Statuses, Payloads, Handles, NULL

\* Every call preserves the types.
LEMMA TypeNext == TypeOK /\ [Next]_vars => TypeOK'
  <1> SUFFICES ASSUME TypeOK, [Next]_vars PROVE TypeOK'
    OBVIOUS
  <1> USE DEF GlobalCells, AttrCells
  <1>0. /\ {"OK", "INVALID_ARGUMENT", "TYPE_ERROR", "NOT_FOUND",
             "INVALID_HANDLE"} = Statuses
        /\ TRUE \in BOOLEAN /\ FALSE \in BOOLEAN
    BY DEF Statuses
  <1>1. ASSUME NEW r \in Runtimes, RuntimeCreate(r) PROVE TypeOK'
    BY <1>1, <1>0, SucceedsType DEF RuntimeCreate, TypeOK
  <1>2. ASSUME NEW r \in Runtimes, RuntimeDestroy(r) PROVE TypeOK'
    BY <1>2, <1>0, SucceedsType DEF RuntimeDestroy, TypeOK
  <1>3. ASSUME NEW r \in Runtimes, CallInvalidRuntime(r) PROVE TypeOK'
    BY <1>3, <1>0, RefusedType DEF CallInvalidRuntime, TypeOK
  <1>4. ASSUME NEW r \in Runtimes, ErrorClear(r) PROVE TypeOK'
    BY <1>4, <1>0, SucceedsType DEF ErrorClear, TypeOK, tables
  <1>5. ASSUME NEW r \in Runtimes, NEW p \in Payloads, ValueFrom(r, p)
        PROVE  TypeOK'
    BY <1>5, <1>0, SucceedsType, NextSlot DEF ValueFrom, Appended, TypeOK
  <1>6. ASSUME NEW r \in Runtimes, NEW h \in Handles, Retain(r, h)
        PROVE  TypeOK'
    BY <1>6, <1>0, SucceedsType, FailsType, HostGainsType DEF Retain, TypeOK
  <1>7. ASSUME NEW r \in Runtimes, NEW h \in Handles, Release(r, h)
        PROVE  TypeOK'
    <2>1. CASE Fails(r, "INVALID_HANDLE")
      BY <2>1, <1>0, FailsType
    <2>2. CASE /\ Valid(r, h) /\ held[h] > 0
               /\ refs' = [refs EXCEPT ![h] = @ - 1]
               /\ held' = [held EXCEPT ![h] = @ - 1]
               /\ Succeeds(r, FALSE)
               /\ UNCHANGED <<life, size, owner, payload, globals, attrs>>
      <3>1. refs[h] > 0 /\ refs[h] \in Nat /\ held[h] \in Nat
        BY <2>2 DEF Valid, Usable, TypeOK
      <3>2. refs[h] - 1 \in Nat /\ held[h] - 1 \in Nat
        BY <2>2, <3>1
      <3> QED
        BY <2>2, <3>2, <1>0, SucceedsType DEF TypeOK
    <2> QED
      BY <1>7, <2>1, <2>2 DEF Release
  <1>8. ASSUME NEW r \in Runtimes, NEW h \in Handles, ReadScalar(r, h)
        PROVE  TypeOK'
    BY <1>8, <1>0, SucceedsType, FailsType DEF ReadScalar, TypeOK, tables
  <1>9. ASSUME NEW r \in Runtimes, NEW h \in Handles, GetHostId(r, h)
        PROVE  TypeOK'
    BY <1>9, <1>0, SucceedsType, RefusedType
    DEF GetHostId, NotAnObject, TypeOK, tables
  <1>10. ASSUME NEW r \in Runtimes, NEW n \in Names \cup {BadName},
                GetGlobal(r, n)
         PROVE  TypeOK'
    <2>1. Global(r, n) \in Handles \cup {NULL}
      BY DEF Global, TypeOK
    <2> QED
      BY <1>10, <2>1, <1>0, SucceedsType, FailsType, HostGainsType,
         UsableIsHandle DEF GetGlobal, Valid, TypeOK
  <1>11. ASSUME NEW r \in Runtimes, NEW n \in Names \cup {BadName},
                NEW h \in Handles, SetGlobal(r, n, h)
         PROVE  TypeOK'
    <2>1. CASE /\ n # BadName /\ Bound(Keep(refs, h), r, n, h)
               /\ Succeeds(r, TRUE)
               /\ UNCHANGED <<life, size, owner, payload, attrs, held>>
      BY <2>1, <1>0, SucceedsType, KeepDropType DEF Bound, TypeOK
    <2> QED
      BY <1>11, <2>1, <1>0, FailsType, RefusedType DEF SetGlobal
  <1>12. ASSUME NEW r \in Runtimes, NEW n \in Names \cup {BadName},
                DeleteGlobal(r, n)
         PROVE  TypeOK'
    <2>1. CASE /\ Global(r, n) # NULL
               /\ refs' = Drop(refs, r, globals[<<r, n>>])
               /\ globals' = [globals EXCEPT ![<<r, n>>] = NULL]
               /\ Succeeds(r, TRUE)
               /\ UNCHANGED <<life, size, owner, payload, attrs, held>>
      <3>1. n \in Names
        BY <2>1 DEF Global
      <3> QED
        BY <2>1, <3>1, <1>0, SucceedsType, KeepDropType DEF TypeOK
    <2> QED
      BY <1>12, <2>1, <1>0, FailsType DEF DeleteGlobal
  <1>13. ASSUME NEW r \in Runtimes, NEW n \in Names \cup {BadName},
                NEW o \in Handles, NEW h \in Handles, HostSetAttr(r, o, n, h)
         PROVE  TypeOK'
    <2>1. CASE /\ IsObject(o) /\ n # BadName
               /\ refs' = Drop(Keep(refs, h), r, attrs[<<r, payload[o], n>>])
               /\ attrs' = [attrs EXCEPT ![<<r, payload[o], n>>] = h]
               /\ Succeeds(r, TRUE)
               /\ UNCHANGED <<life, size, owner, payload, globals, held>>
      BY <2>1, <1>0, SucceedsType, KeepDropType DEF IsObject, TypeOK
    <2> QED
      BY <1>13, <2>1, <1>0, FailsType, RefusedType DEF HostSetAttr, NotAnObject
  <1>14. ASSUME NEW r \in Runtimes, NEW n \in Names \cup {BadName},
                NEW o \in Handles, HostGetAttr(r, o, n)
         PROVE  TypeOK'
    <2>1. CASE /\ HasAttr(r, o, n)
               /\ HostGains(attrs[<<r, payload[o], n>>])
               /\ Succeeds(r, TRUE)
      <3>1. n \in Names /\ attrs[<<r, payload[o], n>>] \in Handles
        BY <2>1, UsableIsHandle
        DEF HasAttr, Attr, Valid, Usable, IsObject, TypeOK
      <3> QED
        BY <2>1, <3>1, <1>0, SucceedsType, HostGainsType DEF TypeOK
    <2> QED
      BY <1>14, <2>1, AttrRefusedType DEF HostGetAttr
  <1>15. ASSUME NEW r \in Runtimes, NEW n \in Names, EvalName(r, n)
         PROVE  TypeOK'
    BY <1>15, <1>0, SucceedsType, FailsType, HostGainsType, UsableIsHandle
    DEF EvalName, Valid, TypeOK
  <1>16. ASSUME NEW r \in Runtimes, NEW n \in Names, NEW a \in Names,
                EvalPath(r, n, a)
         PROVE  TypeOK'
    <2> DEFINE root == globals[<<r, n>>]
               h == attrs[<<r, payload[root], a>>]
    <2>0. root \in Handles \cup {NULL}
      BY DEF TypeOK
    <2>1. CASE /\ HasAttr(r, root, a)
               /\ refs' = Drop(Keep(Keep(refs, root), h), r, root)
               /\ held' = Keep(held, h)
               /\ UNCHANGED <<life, size, owner, payload, globals, attrs>>
               /\ Succeeds(r, TRUE)
      <3>1. root \in Handles /\ h \in Handles
        BY <2>0, <2>1, UsableIsHandle
        DEF HasAttr, Attr, Valid, Usable, IsObject, TypeOK
      <3>2. Keep(Keep(refs, root), h) \in [Handles -> Nat]
        BY <3>1, KeepDropType DEF TypeOK
      <3>3. refs' \in [Handles -> Nat] /\ held' \in [Handles -> Nat]
        BY <2>1, <3>1, <3>2, KeepDropType DEF TypeOK
      <3> QED
        BY <2>1, <3>3, <1>0, SucceedsType DEF TypeOK
    <2>2. CASE Refused(r, "NOT_FOUND", "OK")
      BY <2>2, <1>0, RefusedType
    <2>3. CASE AttrRefused(r, root, a)
      BY <2>3, <2>0, AttrRefusedType
    <2> QED
      BY <1>16, <2>1, <2>2, <2>3 DEF EvalPath, PathRefused
  <1>17. ASSUME NEW r \in Runtimes, NEW n \in Names, NEW m \in Names,
                ExecAssignName(r, n, m)
         PROVE  TypeOK'
    <2>1. CASE /\ Valid(r, globals[<<r, m>>])
               /\ Bound(Keep(refs, globals[<<r, m>>]), r, n, globals[<<r, m>>])
               /\ Succeeds(r, TRUE)
               /\ UNCHANGED <<life, size, owner, payload, attrs, held>>
      <3>1. globals[<<r, m>>] \in Handles
        BY <2>1, UsableIsHandle DEF Valid, TypeOK
      <3>2. Keep(refs, globals[<<r, m>>]) \in [Handles -> Nat]
        BY <3>1, KeepDropType DEF TypeOK
      <3> QED
        BY <2>1, <3>1, <3>2, <1>0, SucceedsType, KeepDropType DEF Bound, TypeOK
    <2> QED
      BY <1>17, <2>1, <1>0, FailsType DEF ExecAssignName
  <1>18. ASSUME NEW r \in Runtimes, NEW n \in Names, ExecAssignLiteral(r, n)
         PROVE  TypeOK'
    <2>1. [refs EXCEPT ![size + 1] = 1] \in [Handles -> Nat]
      BY DEF TypeOK
    <2>2. size + 1 \in Handles /\ size' \in 0 .. MaxValues
      BY <1>18, NextSlot DEF ExecAssignLiteral, Appended, TypeOK
    <2> QED
      BY <1>18, <2>1, <2>2, <1>0, SucceedsType, KeepDropType
      DEF ExecAssignLiteral, Appended, Bound, Payloads, TypeOK
  <1>19. ASSUME NEW r \in Runtimes, NEW n \in Names, NEW m \in Names,
                NEW a \in Names, ExecAugmentPath(r, n, m, a)
         PROVE  TypeOK'
    <2> DEFINE root == globals[<<r, m>>]
               current == globals[<<r, n>>]
               right == attrs[<<r, payload[root], a>>]
               both == Keep(Keep(refs, right), current)
               left == Drop(Drop(both, r, current), r, right)
    <2>0. root \in Handles \cup {NULL} /\ current \in Handles \cup {NULL}
      BY DEF TypeOK
    <2>1. ASSUME HasAttr(r, root, a), Valid(r, current)
          PROVE  right \in Handles /\ left \in [Handles -> Nat]
      <3>1. right \in Handles /\ current \in Handles
        BY <2>0, <2>1, UsableIsHandle
        DEF HasAttr, Attr, Valid, Usable, IsObject, TypeOK
      <3>2. Keep(refs, right) \in [Handles -> Nat]
        BY <3>1, KeepDropType DEF TypeOK
      <3>3. both \in [Handles -> Nat]
        BY <3>1, <3>2, KeepDropType
      <3>4. Drop(both, r, current) \in [Handles -> Nat]
        BY <3>1, <3>3, KeepDropType
      <3> QED
        BY <3>1, <3>4, KeepDropType
    <2>2. CASE Refused(r, "NOT_FOUND", "OK")
      BY <2>2, <1>0, RefusedType
    <2>3. CASE AttrRefused(r, root, a)
      BY <2>3, <2>0, AttrRefusedType
    <2>4. CASE /\ HasAttr(r, root, a) /\ Valid(r, current)
               /\ status' = "TYPE_ERROR"
               /\ error' = [error EXCEPT ![r] = "TYPE_ERROR"]
               /\ refs' = left
               /\ UNCHANGED <<life, size, owner, payload, globals, attrs, held>>
      BY <2>4, <2>1, <1>0 DEF TypeOK
    <2>5. CASE /\ HasAttr(r, root, a) /\ Valid(r, current)
               /\ Appended(r, Scalar)
               /\ Bound([left EXCEPT ![size + 1] = 1], r, n, size + 1)
               /\ Succeeds(r, TRUE)
               /\ UNCHANGED <<life, attrs, held>>
      <3>1. [left EXCEPT ![size + 1] = 1] \in [Handles -> Nat]
        BY <2>1, <2>5
      <3>2. size + 1 \in Handles /\ size' \in 0 .. MaxValues
        BY <2>5, NextSlot DEF Appended, TypeOK
      <3> QED
        BY <2>5, <3>1, <3>2, <1>0, SucceedsType, KeepDropType
        DEF Appended, Bound, Payloads, TypeOK
    <2> QED
      BY <1>19, <2>2, <2>3, <2>4, <2>5 DEF ExecAugmentPath, PathRefused
  <1>20. CASE UNCHANGED vars
    BY <1>20 DEF vars, tables, TypeOK
  <1> QED
    BY <1>1, <1>2, <1>3, <1>4, <1>5, <1>6, <1>7, <1>8, <1>9, <1>10, <1>11,
       <1>12, <1>13, <1>14, <1>15, <1>16, <1>17, <1>18, <1>19, <1>20 DEF Next

\* Type correctness of the handle tables.
THEOREM TypeCorrect == Spec => []TypeOK
  BY TypeInit, TypeNext, PTL DEF Spec

(***************************************************************************)
(* Exact reference counting.                                               *)
(***************************************************************************)
LEMMA CellsFinite == IsFiniteSet(GlobalCells) /\ IsFiniteSet(AttrCells)
  <1>1. IsFiniteSet(Runtimes \X Names)
    BY HandleTableAssumption, FS_Product
  <1>2. IsFiniteSet((Runtimes \X HostIds) \X Names)
    BY HandleTableAssumption, FS_Product
  <1>3. IsFiniteSet(Runtimes \X HostIds \X Names)
    <2> DEFINE S == (Runtimes \X HostIds) \X Names
               T == Runtimes \X HostIds \X Names
               f == [x \in S |-> <<x[1][1], x[1][2], x[2]>>]
    <2>1. f \in Surjection(S, T)
      <3>1. f \in [S -> T]
        OBVIOUS
      <3>2. \A t \in T : \E x \in S : f[x] = t
        <4> TAKE t \in T
        <4>1. PICK a \in Runtimes, b \in HostIds, n \in Names : t = <<a, b, n>>
          OBVIOUS
        <4>2. <<<<a, b>>, n>> \in S /\ f[<<<<a, b>>, n>>] = t
          BY <4>1
        <4> QED
          BY <4>2
      <3> QED
        BY <3>1, <3>2 DEF Surjection
    <2> QED
      BY <1>2, <2>1, FS_Surjection
  <1> QED
    BY <1>1, <1>3 DEF GlobalCells, AttrCells

\* Counting the references of a value, and how one write to a table moves them.
LEMMA CountsNat ==
  ASSUME TypeOK, NEW h
  PROVE  /\ Cardinality(GlobalRefs(h)) \in Nat
         /\ Cardinality(AttrRefs(h)) \in Nat
  BY CellsFinite, FS_Subset, FS_CardinalityType DEF GlobalRefs, AttrRefs

LEMMA GlobalWrite ==
  ASSUME TypeOK, NEW c \in GlobalCells, NEW v, NEW h,
         globals' = [globals EXCEPT ![c] = v]
  PROVE  /\ Cardinality(GlobalRefs(h)') =
              IF v = h THEN IF globals[c] = h THEN Cardinality(GlobalRefs(h))
                                   ELSE Cardinality(GlobalRefs(h)) + 1
                       ELSE IF globals[c] = h THEN Cardinality(GlobalRefs(h)) - 1
                                   ELSE Cardinality(GlobalRefs(h))
         /\ globals[c] = h => Cardinality(GlobalRefs(h)) > 0
  <1>1. DOMAIN globals = GlobalCells
    BY DEF TypeOK
  <1>2. IsFiniteSet(GlobalRefs(h)) /\ (c \in GlobalRefs(h) <=> globals[c] = h)
    BY CellsFinite, FS_Subset DEF GlobalRefs
  <1>3. CASE v = h
    <2>1. GlobalRefs(h)' = GlobalRefs(h) \cup {c}
      BY <1>1, <1>3 DEF GlobalRefs, GlobalCells
    <2>2. /\ Cardinality(GlobalRefs(h) \cup {c}) =
               IF c \in GlobalRefs(h) THEN Cardinality(GlobalRefs(h))
                                     ELSE Cardinality(GlobalRefs(h)) + 1
          /\ c \in GlobalRefs(h) => Cardinality(GlobalRefs(h)) > 0
      BY <1>2, CountUpdate
    <2> QED
      BY <1>2, <1>3, <2>1, <2>2
  <1>4. CASE v # h
    <2>1. GlobalRefs(h)' = GlobalRefs(h) \ {c}
      BY <1>1, <1>4 DEF GlobalRefs, GlobalCells
    <2> QED
      BY <1>2, <1>4, <2>1, CountUpdate
  <1> QED
    BY <1>3, <1>4

LEMMA AttrWrite ==
  ASSUME TypeOK, NEW c \in AttrCells, NEW v, NEW h,
         attrs' = [attrs EXCEPT ![c] = v]
  PROVE  /\ Cardinality(AttrRefs(h)') =
              IF v = h THEN IF attrs[c] = h THEN Cardinality(AttrRefs(h))
                                   ELSE Cardinality(AttrRefs(h)) + 1
                       ELSE IF attrs[c] = h THEN Cardinality(AttrRefs(h)) - 1
                                   ELSE Cardinality(AttrRefs(h))
         /\ attrs[c] = h => Cardinality(AttrRefs(h)) > 0
  <1>1. DOMAIN attrs = AttrCells
    BY DEF TypeOK
  <1>2. IsFiniteSet(AttrRefs(h)) /\ (c \in AttrRefs(h) <=> attrs[c] = h)
    BY CellsFinite, FS_Subset DEF AttrRefs
  <1>3. CASE v = h
    <2>1. AttrRefs(h)' = AttrRefs(h) \cup {c}
      BY <1>1, <1>3 DEF AttrRefs, AttrCells
    <2>2. /\ Cardinality(AttrRefs(h) \cup {c}) =
               IF c \in AttrRefs(h) THEN Cardinality(AttrRefs(h))
                                     ELSE Cardinality(AttrRefs(h)) + 1
          /\ c \in AttrRefs(h) => Cardinality(AttrRefs(h)) > 0
      BY <1>2, CountUpdate
    <2> QED
      BY <1>2, <1>3, <2>1, <2>2
  <1>4. CASE v # h
    <2>1. AttrRefs(h)' = AttrRefs(h) \ {c}
      BY <1>1, <1>4 DEF AttrRefs, AttrCells
    <2> QED
      BY <1>2, <1>4, <2>1, CountUpdate
  <1> QED
    BY <1>3, <1>4

LEMMA SameCells ==
  ASSUME NEW h
  PROVE  /\ globals' = globals => GlobalRefs(h)' = GlobalRefs(h)
         /\ attrs' = attrs => AttrRefs(h)' = AttrRefs(h)
  BY DEF GlobalRefs, AttrRefs, GlobalCells, AttrCells

\* What an appended slot and a binding are known to be.
LEMMA SlotFacts ==
  ASSUME RefsInv
  PROVE  /\ \A h \in Handles : owner[h] \in Runtimes => h <= size /\ h \in 1 .. size
         /\ \A h \in 1 .. size : h \in Handles /\ owner[h] \in Runtimes
         /\ \A c \in GlobalCells : globals[c] # NULL =>
              globals[c] \in 1 .. size /\ owner[globals[c]] = c[1]
         /\ \A c \in AttrCells : attrs[c] # NULL =>
              attrs[c] \in 1 .. size /\ owner[attrs[c]] = c[1]
  <1>1. ASSUME NEW h \in Handles, owner[h] \in Runtimes
        PROVE  h <= size /\ h \in 1 .. size
    <2>1. owner[h] # NoRuntime
      BY <1>1, HandleTableAssumption
    <2>2. h <= size
      BY <2>1 DEF RefsInv, SlotsOwned
    <2> QED
      BY <2>2, HandleTableAssumption DEF RefsInv, TypeOK, Handles
  <1>2. ASSUME NEW h \in 1 .. size
        PROVE  h \in Handles /\ owner[h] \in Runtimes
    BY HandleTableAssumption DEF RefsInv, SlotsOwned, TypeOK, Handles
  <1>3. ASSUME NEW c \in GlobalCells, globals[c] # NULL
        PROVE  globals[c] \in 1 .. size /\ owner[globals[c]] = c[1]
    <2>1. globals[c] \in Handles /\ c[1] \in Runtimes
      BY <1>3 DEF RefsInv, TypeOK, GlobalCells
    <2> QED
      BY <1>1, <1>3, <2>1 DEF RefsInv, SlotsOwned
  <1>4. ASSUME NEW c \in AttrCells, attrs[c] # NULL
        PROVE  attrs[c] \in 1 .. size /\ owner[attrs[c]] = c[1]
    <2>1. attrs[c] \in Handles /\ c[1] \in Runtimes
      BY <1>4 DEF RefsInv, TypeOK, AttrCells
    <2> QED
      BY <1>1, <1>4, <2>1 DEF RefsInv, SlotsOwned
  <1> QED
    BY <1>1, <1>2, <1>3, <1>4

\* A value a live runtime binds is counted, so releasing that binding lowers
\* its count.
LEMMA BoundUsable ==
  ASSUME RefsInv, NEW r \in Runtimes, Alive(r)
  PROVE  /\ \A n \in Names : globals[<<r, n>>] # NULL =>
              Usable(refs, r, globals[<<r, n>>])
         /\ \A i \in HostIds, n \in Names : attrs[<<r, i, n>>] # NULL =>
              Usable(refs, r, attrs[<<r, i, n>>])
  <1>1. ASSUME NEW n \in Names, globals[<<r, n>>] # NULL
        PROVE  Usable(refs, r, globals[<<r, n>>])
    <2> DEFINE h == globals[<<r, n>>]
    <2>1. <<r, n>> \in GlobalCells
      BY DEF GlobalCells
    <2>2. h \in 1 .. size /\ h \in Handles /\ owner[h] = r
      BY <1>1, <2>1, SlotFacts
    <2>3. GlobalRefs(h) # {} /\ IsFiniteSet(GlobalRefs(h))
      BY <2>1, CellsFinite, FS_Subset DEF GlobalRefs
    <2>4. Cardinality(GlobalRefs(h)) # 0
      BY <2>3, FS_EmptySet
    <2>5. /\ Cardinality(GlobalRefs(h)) \in Nat /\ Cardinality(AttrRefs(h)) \in Nat
          /\ held[h] \in Nat
      BY <2>2, CountsNat DEF RefsInv, TypeOK
    <2>6. refs[h] = held[h] + Cardinality(GlobalRefs(h)) + Cardinality(AttrRefs(h))
      BY <2>2 DEF RefsInv, RefsExact
    <2> QED
      BY <1>1, <2>2, <2>4, <2>5, <2>6 DEF Usable
  <1>2. ASSUME NEW i \in HostIds, NEW n \in Names, attrs[<<r, i, n>>] # NULL
        PROVE  Usable(refs, r, attrs[<<r, i, n>>])
    <2> DEFINE h == attrs[<<r, i, n>>]
    <2>1. <<r, i, n>> \in AttrCells
      BY DEF AttrCells
    <2>2. h \in 1 .. size /\ h \in Handles /\ owner[h] = r
      BY <1>2, <2>1, SlotFacts
    <2>3. AttrRefs(h) # {} /\ IsFiniteSet(AttrRefs(h))
      BY <2>1, CellsFinite, FS_Subset DEF AttrRefs
    <2>4. Cardinality(AttrRefs(h)) # 0
      BY <2>3, FS_EmptySet
    <2>5. /\ Cardinality(GlobalRefs(h)) \in Nat /\ Cardinality(AttrRefs(h)) \in Nat
          /\ held[h] \in Nat
      BY <2>2, CountsNat DEF RefsInv, TypeOK
    <2>6. refs[h] = held[h] + Cardinality(GlobalRefs(h)) + Cardinality(AttrRefs(h))
      BY <2>2 DEF RefsInv, RefsExact
    <2> QED
      BY <1>2, <2>2, <2>4, <2>5, <2>6 DEF Usable
  <1> QED
    BY <1>1, <1>2

\* A call that leaves the tables alone.
LEMMA TablesUnchanged ==
  ASSUME RefsInv, UNCHANGED tables
  PROVE  SlotsOwned' /\ RefsExact'
  <1>1. \A h : GlobalRefs(h)' = GlobalRefs(h) /\ AttrRefs(h)' = AttrRefs(h)
    BY SameCells DEF tables
  <1>2. SlotsOwned'
    BY DEF RefsInv, SlotsOwned, tables, Handles, GlobalCells, AttrCells
  <1>3. RefsExact'
    BY <1>1 DEF RefsInv, RefsExact, Alive, tables
  <1> QED
    BY <1>2, <1>3

\* A call that hands the host one more reference to a valid value.
LEMMA HostGainsExact ==
  ASSUME RefsInv, NEW h \in Handles, HostGains(h), NEW r \in Runtimes,
         Valid(r, h)
  PROVE  SlotsOwned' /\ RefsExact'
  <1>1. \A k : GlobalRefs(k)' = GlobalRefs(k) /\ AttrRefs(k)' = AttrRefs(k)
    BY SameCells DEF HostGains
  <1>2. h \in 1 .. size /\ owner[h] = r
    BY SlotFacts DEF Valid, Usable
  <1>3. SlotsOwned'
    BY <1>2
    DEF RefsInv, SlotsOwned, HostGains, Keep, TypeOK, Handles, GlobalCells, AttrCells
  <1>4. ASSUME NEW k \in 1 .. size
        PROVE  refs'[k] = IF Alive(owner[k])
                          THEN held'[k] + Cardinality(GlobalRefs(k))
                                        + Cardinality(AttrRefs(k))
                          ELSE 0
    <2>1. k \in Handles
      BY SlotFacts
    <2>2. /\ Cardinality(GlobalRefs(k)) \in Nat /\ Cardinality(AttrRefs(k)) \in Nat
          /\ held[k] \in Nat /\ refs[k] \in Nat
      BY <2>1, CountsNat DEF RefsInv, TypeOK
    <2>3. refs'[k] = (IF k = h THEN refs[k] + 1 ELSE refs[k])
          /\ held'[k] = (IF k = h THEN held[k] + 1 ELSE held[k])
      BY <2>1 DEF HostGains, Keep, RefsInv, TypeOK
    <2>4. k = h => Alive(owner[k])
      BY <1>2 DEF Valid
    <2> QED
      BY <2>2, <2>3, <2>4 DEF RefsInv, RefsExact
  <1> QED
    BY <1>1, <1>3, <1>4 DEF RefsExact, HostGains, Alive

\* A binding written by a live runtime: f counts every value of the next state
\* once for each reference the host, the old bindings and the new one hold.
LEMMA BindExact ==
  ASSUME RefsInv, NEW r \in Runtimes, Alive(r), NEW n \in Names,
         NEW v \in Handles \cup {NULL}, NEW f \in [Handles -> Nat],
         UNCHANGED <<life, held, attrs>>,
         size' \in 0 .. MaxValues, size <= size',
         \A k \in 1 .. size : owner'[k] = owner[k],
         \A k \in Handles :
           IF k <= size' THEN owner'[k] \in Runtimes /\ life[owner'[k]] # "absent"
                         ELSE owner'[k] = NoRuntime /\ held[k] = 0,
         v # NULL => v <= size' /\ owner'[v] = r,
         globals' = [globals EXCEPT ![<<r, n>>] = v],
         refs' = Drop(f, r, globals[<<r, n>>]),
         \A k \in 1 .. size' :
           f[k] = IF Alive(owner'[k])
                  THEN held[k] + Cardinality(GlobalRefs(k))
                               + Cardinality(AttrRefs(k))
                               + (IF k = v THEN 1 ELSE 0)
                  ELSE 0
  PROVE  SlotsOwned' /\ RefsExact'
  <1> DEFINE c == <<r, n>>
             old == globals[c]
  <1>0. c \in GlobalCells /\ c[1] = r
    BY DEF GlobalCells
  <1>1. \A k : AttrRefs(k)' = AttrRefs(k)
    BY SameCells
  <1>2. SlotsOwned'
    <2>1. ASSUME NEW d \in GlobalCells, globals'[d] # NULL
          PROVE  owner'[globals'[d]] = d[1]
      <3>1. CASE d = c
        BY <2>1, <3>1, <1>0 DEF RefsInv, TypeOK
      <3>2. CASE d # c
        <4>1. globals'[d] = globals[d]
          BY <3>2, <1>0 DEF RefsInv, TypeOK
        <4> QED
          BY <2>1, <4>1, SlotFacts
      <3> QED
        BY <3>1, <3>2
    <2>2. ASSUME NEW d \in AttrCells, attrs'[d] # NULL
          PROVE  owner'[attrs'[d]] = d[1]
      BY <2>2, SlotFacts
    <2> QED
      BY <2>1, <2>2 DEF SlotsOwned, GlobalCells, AttrCells
  <1>3. old # NULL => old \in 1 .. size /\ old \in Handles /\ owner[old] = r
    BY <1>0, SlotFacts
  <1>4. ASSUME NEW k \in 1 .. size'
        PROVE  refs'[k] = IF Alive(owner'[k])
                          THEN held[k] + Cardinality(GlobalRefs(k)')
                                       + Cardinality(AttrRefs(k))
                          ELSE 0
    <2>0. k \in Handles
      BY HandleTableAssumption DEF Handles
    <2>1. /\ Cardinality(GlobalRefs(k)) \in Nat /\ Cardinality(AttrRefs(k)) \in Nat
          /\ held[k] \in Nat /\ f[k] \in Nat
      BY <2>0, CountsNat DEF RefsInv, TypeOK
    <2>2. /\ Cardinality(GlobalRefs(k)') =
                IF v = k THEN IF old = k THEN Cardinality(GlobalRefs(k))
                                     ELSE Cardinality(GlobalRefs(k)) + 1
                         ELSE IF old = k THEN Cardinality(GlobalRefs(k)) - 1
                                     ELSE Cardinality(GlobalRefs(k))
          /\ old = k => Cardinality(GlobalRefs(k)) > 0
      BY <1>0, GlobalWrite DEF RefsInv
    <2>3. k # NULL
      BY <2>0 DEF Handles, NULL
    <2>4. CASE old = k
      <3>1. k \in 1 .. size /\ owner[k] = r /\ owner'[k] = r
        BY <2>4, <2>3, <1>3
      <3>2. f[k] = held[k] + Cardinality(GlobalRefs(k)) + Cardinality(AttrRefs(k))
                     + (IF k = v THEN 1 ELSE 0)
        BY <3>1
      <3>3. f[k] > 0
        BY <2>1, <2>2, <2>4, <3>2
      <3>4. refs'[k] = f[k] - 1
        BY <2>0, <2>3, <2>4, <3>1, <3>3 DEF Drop, Usable
      <3> QED
        BY <2>1, <2>2, <2>4, <3>1, <3>2, <3>4
    <2>5. CASE old # k
      <3>1. refs'[k] = f[k]
        BY <2>0, <2>5 DEF Drop
      <3>2. v = k => owner'[k] = r
        BY <2>3
      <3> QED
        BY <2>1, <2>2, <2>5, <3>1, <3>2
    <2> QED
      BY <2>4, <2>5
  <1>5. \A k : Alive(k)' <=> Alive(k)
    BY DEF Alive
  <1> QED
    BY <1>1, <1>2, <1>4, <1>5 DEF RefsExact, Alive

\* The slots of a step that appends no value.
LEMMA SameSlots ==
  ASSUME RefsInv, UNCHANGED <<life, size, owner>>
  PROVE  /\ size' \in 0 .. MaxValues /\ size <= size'
         /\ \A k \in 1 .. size : owner'[k] = owner[k]
         /\ \A k \in Handles :
              IF k <= size' THEN owner'[k] \in Runtimes /\ life[owner'[k]] # "absent"
                            ELSE owner'[k] = NoRuntime
  BY DEF RefsInv, SlotsOwned, TypeOK

\* The slots of a step that appends one value to a live runtime.
LEMMA NewSlot ==
  ASSUME RefsInv, NEW r \in Runtimes, Alive(r), NEW p, Appended(r, p),
         life' = life
  PROVE  /\ size' \in 0 .. MaxValues /\ size <= size'
         /\ size' = size + 1 /\ size' \in Handles /\ size' # NULL
         /\ \A k \in 1 .. size : owner'[k] = owner[k]
         /\ owner'[size'] = r
         /\ \A k \in Handles :
              IF k <= size' THEN owner'[k] \in Runtimes /\ life[owner'[k]] # "absent"
                            ELSE owner'[k] = NoRuntime
         /\ GlobalRefs(size') = {} /\ AttrRefs(size') = {} /\ held[size'] = 0
  <1>1. /\ size' = size + 1 /\ size' \in Handles /\ size' # NULL
        /\ size \in Nat /\ size' \in 0 .. MaxValues
    BY NextSlot DEF Appended, RefsInv, TypeOK
  <1>2. \A k \in Handles :
          owner'[k] = IF k = size' THEN r ELSE owner[k]
    BY <1>1 DEF Appended, RefsInv, TypeOK
  <1>3. \A k \in 1 .. size : k # size' /\ k \in Handles
    BY <1>1, HandleTableAssumption DEF Handles
  <1>4. \A k \in Handles : k <= size' => k = size' \/ k <= size
    BY <1>1 DEF Handles
  <1>5. life[r] # "absent" /\ r # NoRuntime
    BY HandleTableAssumption DEF Alive
  <1>6. \A k \in Handles :
          IF k <= size' THEN owner'[k] \in Runtimes /\ life[owner'[k]] # "absent"
                        ELSE owner'[k] = NoRuntime
    <2> TAKE k \in Handles
    <2>1. CASE k = size'
      BY <2>1, <1>1, <1>2, <1>5
    <2>2. CASE k # size' /\ k <= size
      BY <2>2, <1>1, <1>2 DEF RefsInv, SlotsOwned, Handles
    <2>3. CASE k # size' /\ ~(k <= size)
      BY <2>3, <1>1, <1>2, <1>4 DEF RefsInv, SlotsOwned
    <2> QED
      BY <2>1, <2>2, <2>3
  <1>7. ~(size' <= size)
    BY <1>1
  <1>8. GlobalRefs(size') = {} /\ AttrRefs(size') = {}
    BY <1>1, <1>7, SlotFacts DEF GlobalRefs, AttrRefs
  <1>9. held[size'] = 0
    BY <1>1, <1>7 DEF RefsInv, SlotsOwned
  <1> QED
    BY <1>1, <1>2, <1>3, <1>6, <1>8, <1>9

\* set_global and "n = m": the value is kept, then the old one is dropped.
LEMMA BindKept ==
  ASSUME RefsInv, NEW r \in Runtimes, NEW n \in Names, NEW h \in Handles,
         Valid(r, h), Bound(Keep(refs, h), r, n, h),
         UNCHANGED <<life, size, owner, payload, attrs, held>>
  PROVE  SlotsOwned' /\ RefsExact'
  <1> DEFINE f == Keep(refs, h)
  <1>1. Alive(r) /\ owner[h] = r /\ h \in 1 .. size
    BY SlotFacts DEF Valid, Usable
  <1>2. f \in [Handles -> Nat]
    BY KeepDropType DEF RefsInv, TypeOK
  <1>3. \A k \in Handles : ~(k <= size) => held[k] = 0
    BY DEF RefsInv, SlotsOwned
  <1>4. ASSUME NEW k \in 1 .. size
        PROVE  f[k] = IF Alive(owner[k])
                      THEN held[k] + Cardinality(GlobalRefs(k))
                                   + Cardinality(AttrRefs(k))
                                   + (IF k = h THEN 1 ELSE 0)
                      ELSE 0
    <2>1. k \in Handles
      BY SlotFacts
    <2>2. /\ Cardinality(GlobalRefs(k)) \in Nat /\ Cardinality(AttrRefs(k)) \in Nat
          /\ held[k] \in Nat /\ refs[k] \in Nat
      BY <2>1, CountsNat DEF RefsInv, TypeOK
    <2>3. f[k] = IF k = h THEN refs[k] + 1 ELSE refs[k]
      BY <2>1 DEF Keep, RefsInv, TypeOK
    <2> QED
      BY <1>1, <2>2, <2>3 DEF RefsInv, RefsExact
  <1>5. /\ size' \in 0 .. MaxValues /\ size <= size'
        /\ \A k \in 1 .. size : owner'[k] = owner[k]
        /\ \A k \in Handles :
             IF k <= size' THEN owner'[k] \in Runtimes /\ life[owner'[k]] # "absent"
                           ELSE owner'[k] = NoRuntime /\ held[k] = 0
    BY SameSlots, <1>3
  <1>6. h <= size' /\ owner'[h] = r
    BY <1>1
  <1>7. /\ globals' = [globals EXCEPT ![<<r, n>>] = h]
        /\ refs' = Drop(f, r, globals[<<r, n>>])
    BY DEF Bound
  <1>8. \A k \in 1 .. size' :
          f[k] = IF Alive(owner'[k])
                 THEN held[k] + Cardinality(GlobalRefs(k))
                              + Cardinality(AttrRefs(k))
                              + (IF k = h THEN 1 ELSE 0)
                 ELSE 0
    BY <1>4
  <1>9. h \in Handles \cup {NULL} /\ UNCHANGED <<life, held, attrs>>
    OBVIOUS
  <1> HIDE DEF f
  <1> QED
    BY <1>1, <1>2, <1>5, <1>6, <1>7, <1>8, <1>9, BindExact

\* An assignment of a fresh value, when the other counts are as they were.
LEMMA BindFresh ==
  ASSUME RefsInv, NEW r \in Runtimes, Alive(r), NEW n \in Names,
         NEW g \in [Handles -> Nat], \A k \in 1 .. size : g[k] = refs[k],
         NEW p, Appended(r, p),
         Bound([g EXCEPT ![size + 1] = 1], r, n, size + 1),
         UNCHANGED <<life, attrs, held>>
  PROVE  SlotsOwned' /\ RefsExact'
  <1> DEFINE f == [g EXCEPT ![size + 1] = 1]
  <1>1. /\ size' \in 0 .. MaxValues /\ size <= size'
        /\ size' = size + 1 /\ size' \in Handles /\ size' # NULL
        /\ \A k \in 1 .. size : owner'[k] = owner[k]
        /\ owner'[size'] = r
        /\ \A k \in Handles :
             IF k <= size' THEN owner'[k] \in Runtimes /\ life[owner'[k]] # "absent"
                           ELSE owner'[k] = NoRuntime
        /\ GlobalRefs(size') = {} /\ AttrRefs(size') = {} /\ held[size'] = 0
    BY NewSlot
  <1>2. f \in [Handles -> Nat]
    OBVIOUS
  <1>3. \A k \in Handles : ~(k <= size') => held[k] = 0
    BY <1>1 DEF RefsInv, SlotsOwned, TypeOK, Handles
  <1>4. ASSUME NEW k \in 1 .. size'
        PROVE  f[k] = IF Alive(owner'[k])
                      THEN held[k] + Cardinality(GlobalRefs(k))
                                   + Cardinality(AttrRefs(k))
                                   + (IF k = size' THEN 1 ELSE 0)
                      ELSE 0
    <2>1. CASE k = size'
      <3>1. f[k] = 1
        BY <1>1, <2>1
      <3>2. Cardinality(GlobalRefs(k)) = 0 /\ Cardinality(AttrRefs(k)) = 0
        BY <1>1, <2>1, FS_EmptySet
      <3> QED
        BY <1>1, <2>1, <3>1, <3>2
    <2>2. CASE k # size'
      <3>1. k \in 1 .. size /\ k \in Handles
        BY <1>1, <2>2, HandleTableAssumption DEF Handles, RefsInv, TypeOK
      <3>2. f[k] = refs[k]
        BY <1>1, <2>2, <3>1
      <3>3. /\ Cardinality(GlobalRefs(k)) \in Nat /\ Cardinality(AttrRefs(k)) \in Nat
            /\ held[k] \in Nat
        BY <3>1, CountsNat DEF RefsInv, TypeOK
      <3> QED
        BY <1>1, <2>2, <3>1, <3>2, <3>3 DEF RefsInv, RefsExact
    <2> QED
      BY <2>1, <2>2
  <1>5. /\ globals' = [globals EXCEPT ![<<r, n>>] = size']
        /\ refs' = Drop(f, r, globals[<<r, n>>])
    BY <1>1 DEF Bound
  <1>6. \A k \in Handles :
          IF k <= size' THEN owner'[k] \in Runtimes /\ life[owner'[k]] # "absent"
                        ELSE owner'[k] = NoRuntime /\ held[k] = 0
    BY <1>1, <1>3
  <1>7. size' <= size' /\ size' \in Handles \cup {NULL}
    BY <1>1
  <1> HIDE DEF f
  <1> QED
    BY <1>1, <1>2, <1>4, <1>5, <1>6, <1>7, BindExact

\* host_set_attr: the same exchange of references on an attribute row.
LEMMA AttrExact ==
  ASSUME RefsInv, NEW r \in Runtimes, NEW i \in HostIds, NEW n \in Names,
         NEW h \in Handles, Valid(r, h),
         refs' = Drop(Keep(refs, h), r, attrs[<<r, i, n>>]),
         attrs' = [attrs EXCEPT ![<<r, i, n>>] = h],
         UNCHANGED <<life, size, owner, payload, globals, held>>
  PROVE  SlotsOwned' /\ RefsExact'
  <1> DEFINE c == <<r, i, n>>
             old == attrs[c]
             f == Keep(refs, h)
  <1>0. c \in AttrCells /\ c[1] = r
    BY DEF AttrCells
  <1>1. \A k : GlobalRefs(k)' = GlobalRefs(k)
    BY SameCells
  <1>2. Alive(r) /\ owner[h] = r /\ h \in 1 .. size
    BY SlotFacts DEF Valid, Usable
  <1>3. SlotsOwned'
    <2>1. ASSUME NEW d \in AttrCells, attrs'[d] # NULL
          PROVE  owner'[attrs'[d]] = d[1]
      <3>1. CASE d = c
        BY <2>1, <3>1, <1>0, <1>2 DEF RefsInv, TypeOK
      <3>2. CASE d # c
        <4>1. attrs'[d] = attrs[d]
          BY <3>2, <1>0 DEF RefsInv, TypeOK
        <4> QED
          BY <2>1, <4>1, SlotFacts
      <3> QED
        BY <3>1, <3>2
    <2>2. ASSUME NEW d \in GlobalCells, globals'[d] # NULL
          PROVE  owner'[globals'[d]] = d[1]
      BY <2>2, SlotFacts
    <2> QED
      BY <2>1, <2>2 DEF RefsInv, SlotsOwned, Handles, GlobalCells, AttrCells
  <1>4. old # NULL => old \in 1 .. size /\ old \in Handles /\ owner[old] = r
    BY <1>0, SlotFacts
  <1>5. ASSUME NEW k \in 1 .. size
        PROVE  refs'[k] = IF Alive(owner[k])
                          THEN held[k] + Cardinality(GlobalRefs(k))
                                       + Cardinality(AttrRefs(k)')
                          ELSE 0
    <2>0. k \in Handles /\ k # NULL
      BY SlotFacts DEF Handles, NULL
    <2>1. /\ Cardinality(GlobalRefs(k)) \in Nat /\ Cardinality(AttrRefs(k)) \in Nat
          /\ held[k] \in Nat /\ refs[k] \in Nat
      BY <2>0, CountsNat DEF RefsInv, TypeOK
    <2>2. /\ Cardinality(AttrRefs(k)') =
                IF h = k THEN IF old = k THEN Cardinality(AttrRefs(k))
                                     ELSE Cardinality(AttrRefs(k)) + 1
                         ELSE IF old = k THEN Cardinality(AttrRefs(k)) - 1
                                     ELSE Cardinality(AttrRefs(k))
          /\ old = k => Cardinality(AttrRefs(k)) > 0
      BY <1>0, AttrWrite DEF RefsInv
    <2>3. f[k] = IF k = h THEN refs[k] + 1 ELSE refs[k]
      BY <2>0 DEF Keep, RefsInv, TypeOK
    <2>4. f \in [Handles -> Nat]
      BY KeepDropType DEF RefsInv, TypeOK
    <2>5. CASE old = k
      <3>1. owner[k] = r
        BY <2>5, <2>0, <1>4
      <3>2. refs[k] = held[k] + Cardinality(GlobalRefs(k)) + Cardinality(AttrRefs(k))
        BY <3>1, <1>2 DEF RefsInv, RefsExact
      <3>3. f[k] > 0
        BY <2>1, <2>2, <2>3, <2>5, <3>2
      <3>4. refs'[k] = f[k] - 1
        BY <2>0, <2>4, <2>5, <3>1, <3>3 DEF Drop, Usable
      <3> QED
        BY <2>1, <2>2, <2>3, <2>5, <3>1, <3>2, <3>4, <1>2
    <2>6. CASE old # k
      <3>1. refs'[k] = f[k]
        BY <2>0, <2>4, <2>6 DEF Drop
      <3> QED
        BY <2>1, <2>2, <2>3, <2>6, <3>1, <1>2 DEF RefsInv, RefsExact
    <2> QED
      BY <2>5, <2>6
  <1> QED
    BY <1>1, <1>3, <1>5 DEF RefsExact, Alive

\* delete_global: the binding goes, and its reference with it.
LEMMA DeleteExact ==
  ASSUME RefsInv, NEW r \in Runtimes, Alive(r), NEW n \in Names,
         refs' = Drop(refs, r, globals[<<r, n>>]),
         globals' = [globals EXCEPT ![<<r, n>>] = NULL],
         UNCHANGED <<life, size, owner, payload, attrs, held>>
  PROVE  SlotsOwned' /\ RefsExact'
  <1>1. NULL \in Handles \cup {NULL} /\ refs \in [Handles -> Nat]
    BY DEF RefsInv, TypeOK
  <1>2. \A k \in Handles : ~(k <= size) => held[k] = 0
    BY DEF RefsInv, SlotsOwned
  <1>3. /\ size' \in 0 .. MaxValues /\ size <= size'
        /\ \A k \in 1 .. size : owner'[k] = owner[k]
        /\ \A k \in Handles :
             IF k <= size' THEN owner'[k] \in Runtimes /\ life[owner'[k]] # "absent"
                           ELSE owner'[k] = NoRuntime /\ held[k] = 0
    BY SameSlots, <1>2
  <1>4. \A k \in 1 .. size' :
          refs[k] = IF Alive(owner'[k])
                    THEN held[k] + Cardinality(GlobalRefs(k))
                                 + Cardinality(AttrRefs(k))
                                 + (IF k = NULL THEN 1 ELSE 0)
                    ELSE 0
    <2> TAKE k \in 1 .. size'
    <2>1. k \in 1 .. size /\ k \in Handles /\ k # NULL
      BY SlotFacts DEF NULL
    <2>2. /\ Cardinality(GlobalRefs(k)) \in Nat /\ Cardinality(AttrRefs(k)) \in Nat
          /\ held[k] \in Nat
      BY <2>1, CountsNat DEF RefsInv, TypeOK
    <2> QED
      BY <2>1, <2>2 DEF RefsInv, RefsExact
  <1> QED
    BY <1>1, <1>3, <1>4, BindExact

\* Steps that only change what the host owns of one value.
LEMMA ReleaseExact ==
  ASSUME RefsInv, NEW r \in Runtimes, NEW h \in Handles, Valid(r, h),
         held[h] > 0,
         refs' = [refs EXCEPT ![h] = @ - 1],
         held' = [held EXCEPT ![h] = @ - 1],
         UNCHANGED <<life, size, owner, payload, globals, attrs>>
  PROVE  SlotsOwned' /\ RefsExact'
  <1>1. \A k : GlobalRefs(k)' = GlobalRefs(k) /\ AttrRefs(k)' = AttrRefs(k)
    BY SameCells
  <1>2. h \in 1 .. size /\ owner[h] = r /\ Alive(r)
    BY SlotFacts DEF Valid, Usable
  <1>3. SlotsOwned'
    BY <1>2 DEF RefsInv, SlotsOwned, TypeOK, Handles, GlobalCells, AttrCells
  <1>4. ASSUME NEW k \in 1 .. size
        PROVE  refs'[k] = IF Alive(owner[k])
                          THEN held'[k] + Cardinality(GlobalRefs(k))
                                        + Cardinality(AttrRefs(k))
                          ELSE 0
    <2>1. k \in Handles
      BY SlotFacts
    <2>2. /\ Cardinality(GlobalRefs(k)) \in Nat /\ Cardinality(AttrRefs(k)) \in Nat
          /\ held[k] \in Nat /\ refs[k] \in Nat
      BY <2>1, CountsNat DEF RefsInv, TypeOK
    <2>3. refs'[k] = (IF k = h THEN refs[k] - 1 ELSE refs[k])
          /\ held'[k] = (IF k = h THEN held[k] - 1 ELSE held[k])
      BY <2>1 DEF RefsInv, TypeOK
    <2> QED
      BY <1>2, <2>2, <2>3 DEF RefsInv, RefsExact
  <1> QED
    BY <1>1, <1>3, <1>4 DEF RefsExact, Alive

LEMMA ValueFromExact ==
  ASSUME RefsInv, NEW r \in Runtimes, NEW p \in Payloads, ValueFrom(r, p)
  PROVE  SlotsOwned' /\ RefsExact'
  <1>0. /\ Alive(r) /\ Appended(r, p)
        /\ refs' = [refs EXCEPT ![size + 1] = 1]
        /\ held' = [held EXCEPT ![size + 1] = 1]
        /\ UNCHANGED <<life, globals, attrs>>
    BY DEF ValueFrom
  <1>1. /\ size' = size + 1 /\ size' \in Handles /\ size' # NULL
        /\ \A k \in 1 .. size : owner'[k] = owner[k]
        /\ owner'[size'] = r
        /\ \A k \in Handles :
             IF k <= size' THEN owner'[k] \in Runtimes /\ life[owner'[k]] # "absent"
                           ELSE owner'[k] = NoRuntime
        /\ GlobalRefs(size') = {} /\ AttrRefs(size') = {} /\ held[size'] = 0
    BY <1>0, NewSlot
  <1>2. \A k : GlobalRefs(k)' = GlobalRefs(k) /\ AttrRefs(k)' = AttrRefs(k)
    BY <1>0, SameCells
  <1>3. \A k \in Handles : /\ refs'[k] = (IF k = size' THEN 1 ELSE refs[k])
                           /\ held'[k] = (IF k = size' THEN 1 ELSE held[k])
    BY <1>0, <1>1 DEF RefsInv, TypeOK
  <1>4. size \in Nat
    BY DEF RefsInv, TypeOK
  <1>5. SlotsOwned'
    <2>1. \A k \in Handles : ~(k <= size') => held'[k] = 0
      BY <1>1, <1>3, <1>4 DEF RefsInv, SlotsOwned, Handles
    <2>2. /\ \A c \in GlobalCells : globals'[c] # NULL => owner'[globals'[c]] = c[1]
          /\ \A c \in AttrCells : attrs'[c] # NULL => owner'[attrs'[c]] = c[1]
      BY <1>0, <1>1, SlotFacts
    <2> QED
      BY <1>0, <1>1, <2>1, <2>2 DEF SlotsOwned, GlobalCells, AttrCells
  <1>6. ASSUME NEW k \in 1 .. size'
        PROVE  refs'[k] = IF Alive(owner'[k])
                          THEN held'[k] + Cardinality(GlobalRefs(k))
                                        + Cardinality(AttrRefs(k))
                          ELSE 0
    <2>1. CASE k = size'
      <3>1. Cardinality(GlobalRefs(k)) = 0 /\ Cardinality(AttrRefs(k)) = 0
        BY <1>1, <2>1, FS_EmptySet
      <3> QED
        BY <1>0, <1>1, <1>3, <2>1, <3>1
    <2>2. CASE k # size'
      <3>1. k \in 1 .. size
        BY <1>1, <1>4, <2>2
      <3>2. k \in Handles
        BY <3>1, SlotFacts
      <3> QED
        BY <1>1, <1>3, <2>2, <3>1, <3>2 DEF RefsInv, RefsExact
    <2> QED
      BY <2>1, <2>2
  <1> QED
    BY <1>0, <1>2, <1>5, <1>6 DEF RefsExact, Alive

\* Creating a runtime concerns no slot; destroying one zeroes its counts.
LEMMA CreateExact ==
  ASSUME RefsInv, NEW r \in Runtimes, RuntimeCreate(r)
  PROVE  SlotsOwned' /\ RefsExact'
  <1>0. /\ life[r] = "absent" /\ life' = [life EXCEPT ![r] = "alive"]
        /\ UNCHANGED <<size, owner, payload, refs, globals, attrs, held>>
    BY DEF RuntimeCreate
  <1>1. \A k : GlobalRefs(k)' = GlobalRefs(k) /\ AttrRefs(k)' = AttrRefs(k)
    BY <1>0, SameCells
  <1>2. \A s \in Runtimes : life[s] # "absent" => life'[s] = life[s]
    BY <1>0 DEF RefsInv, TypeOK
  <1>3. SlotsOwned'
    BY <1>0, <1>2 DEF RefsInv, SlotsOwned, GlobalCells, AttrCells, Handles
  <1>4. \A k \in 1 .. size : owner[k] \in Runtimes /\ life[owner[k]] # "absent"
    BY SlotFacts DEF RefsInv, SlotsOwned
  <1> QED
    BY <1>0, <1>1, <1>2, <1>3, <1>4 DEF RefsInv, RefsExact, Alive

LEMMA DestroyExact ==
  ASSUME RefsInv, NEW r \in Runtimes, RuntimeDestroy(r)
  PROVE  SlotsOwned' /\ RefsExact'
  <1>0. /\ Alive(r) /\ life' = [life EXCEPT ![r] = "dead"]
        /\ refs' = [h \in Handles |-> IF owner[h] = r THEN 0 ELSE refs[h]]
        /\ globals' = [c \in GlobalCells |-> IF c[1] = r THEN NULL ELSE globals[c]]
        /\ UNCHANGED <<size, owner, payload, attrs, held>>
    BY DEF RuntimeDestroy
  <1>1. \A s \in Runtimes : life'[s] = IF s = r THEN "dead" ELSE life[s]
    BY <1>0 DEF RefsInv, TypeOK
  <1>2. SlotsOwned'
    <2>1. \A h \in Handles :
            IF h <= size' THEN owner'[h] \in Runtimes /\ life'[owner'[h]] # "absent"
                          ELSE owner'[h] = NoRuntime /\ held'[h] = 0
      BY <1>0, <1>1 DEF RefsInv, SlotsOwned
    <2>2. \A c \in GlobalCells : globals'[c] # NULL => owner'[globals'[c]] = c[1]
      BY <1>0, SlotFacts
    <2>3. \A c \in AttrCells : attrs'[c] # NULL => owner'[attrs'[c]] = c[1]
      BY <1>0, SlotFacts
    <2> QED
      BY <2>1, <2>2, <2>3 DEF SlotsOwned, GlobalCells, AttrCells
  <1>3. ASSUME NEW k \in 1 .. size
        PROVE  refs'[k] = IF Alive(owner[k])'
                          THEN held[k] + Cardinality(GlobalRefs(k)')
                                       + Cardinality(AttrRefs(k)')
                          ELSE 0
    <2>1. k \in Handles /\ owner[k] \in Runtimes
      BY SlotFacts
    <2>2. CASE owner[k] = r
      BY <1>0, <1>1, <2>1, <2>2 DEF Alive
    <2>3. CASE owner[k] # r
      <3>1. refs'[k] = refs[k] /\ (Alive(owner[k])' <=> Alive(owner[k]))
        BY <1>0, <1>1, <2>1, <2>3 DEF Alive
      <3>2. AttrRefs(k)' = AttrRefs(k)
        BY <1>0, SameCells
      <3>3. \A c \in GlobalCells : globals'[c] = k <=> globals[c] = k
        <4> TAKE c \in GlobalCells
        <4>1. k # NULL
          BY <2>1 DEF Handles, NULL
        <4>2. globals'[c] = IF c[1] = r THEN NULL ELSE globals[c]
          BY <1>0
        <4>3. c[1] = r => globals[c] # k
          BY <2>3, <4>1, SlotFacts
        <4> QED
          BY <4>1, <4>2, <4>3
      <3>4. GlobalRefs(k)' = GlobalRefs(k)
        BY <3>3 DEF GlobalRefs, GlobalCells
      <3> QED
        BY <3>1, <3>2, <3>4 DEF RefsInv, RefsExact
    <2> QED
      BY <2>2, <2>3
  <1>4. size' = size /\ owner' = owner /\ held' = held
    BY <1>0
  <1>5. RefsExact'
    BY <1>3, <1>4 DEF RefsExact, Alive
  <1> QED
    BY <1>2, <1>5

\* Temporaries are balanced: what a path lookup or an addition retained, it
\* releases again.
LEMMA RootReleased ==
  ASSUME RefsInv, NEW r \in Runtimes, NEW root \in Handles, NEW h \in Handles,
         Valid(r, root)
  PROVE  Drop(Keep(Keep(refs, root), h), r, root) = Keep(refs, h)
  BY DEF Drop, Keep, Usable, Valid, RefsInv, TypeOK

LEMMA OperandsReleased ==
  ASSUME RefsInv, NEW r \in Runtimes, NEW a \in Handles, NEW b \in Handles,
         Valid(r, a), Valid(r, b)
  PROVE  Drop(Drop(Keep(Keep(refs, b), a), r, a), r, b) = refs
  <1>1. refs \in [Handles -> Nat] /\ refs[a] > 0 /\ refs[b] > 0
    BY DEF Valid, Usable, RefsInv, TypeOK
  <1>2. a # NULL /\ b # NULL /\ owner[a] = r /\ owner[b] = r
    BY DEF Valid, Usable
  <1> DEFINE f == Keep(refs, b)
             g == Keep(f, a)
  <1>3. f \in [Handles -> Nat] /\ g \in [Handles -> Nat] /\ g[a] > 0
    BY <1>1 DEF Keep
  <1>4. Drop(g, r, a) = f
    BY <1>1, <1>2, <1>3 DEF Drop, Usable, Keep
  <1>5. Drop(f, r, b) = refs
    <2>1. f[b] = refs[b] + 1 /\ f[b] > 0
      BY <1>1 DEF Keep
    <2>2. Drop(f, r, b) = [f EXCEPT ![b] = @ - 1]
      BY <1>2, <2>1 DEF Drop, Usable
    <2> QED
      BY <1>1, <2>1, <2>2 DEF Keep
  <1>6. Drop(Drop(g, r, a), r, b) = refs
    <2> HIDE DEF f, g
    <2> QED
      BY <1>4, <1>5
  <1> QED
    BY <1>6

LEMMA AttrRefusedTables ==
  ASSUME NEW r, NEW o, NEW n, AttrRefused(r, o, n)
  PROVE  UNCHANGED tables
  BY DEF AttrRefused, Fails, Refused

LEMMA RefsInit == Init => RefsInv
  <1> SUFFICES ASSUME Init PROVE RefsInv
    OBVIOUS
  <1>1. TypeOK
    BY TypeInit
  <1>2. SlotsOwned
    BY DEF Init, SlotsOwned, Handles, NULL
  <1>3. RefsExact
    BY DEF Init, RefsExact
  <1> QED
    BY <1>1, <1>2, <1>3 DEF RefsInv

\* Every call preserves exact counting.
LEMMA RefsNext == RefsInv /\ [Next]_vars => RefsInv'
  <1> SUFFICES ASSUME RefsInv, [Next]_vars PROVE SlotsOwned' /\ RefsExact'
    BY TypeNext DEF RefsInv
  <1>a. TypeOK
    BY DEF RefsInv
  <1>b. ASSUME UNCHANGED tables PROVE SlotsOwned' /\ RefsExact'
    BY <1>b, TablesUnchanged
  <1>1. ASSUME NEW r \in Runtimes, RuntimeCreate(r)
        PROVE  SlotsOwned' /\ RefsExact'
    BY <1>1, CreateExact
  <1>2. ASSUME NEW r \in Runtimes, RuntimeDestroy(r)
        PROVE  SlotsOwned' /\ RefsExact'
    BY <1>2, DestroyExact
  <1>3. ASSUME NEW r \in Runtimes, CallInvalidRuntime(r) \/ ErrorClear(r)
        PROVE  SlotsOwned' /\ RefsExact'
    BY <1>3, <1>b DEF CallInvalidRuntime, ErrorClear, Refused
  <1>4. ASSUME NEW r \in Runtimes, NEW p \in Payloads, ValueFrom(r, p)
        PROVE  SlotsOwned' /\ RefsExact'
    BY <1>4, ValueFromExact
  <1>5. ASSUME NEW r \in Runtimes, NEW h \in Handles, Retain(r, h)
        PROVE  SlotsOwned' /\ RefsExact'
    BY <1>5, <1>b, HostGainsExact DEF Retain, Fails, Refused
  <1>6. ASSUME NEW r \in Runtimes, NEW h \in Handles, Release(r, h)
        PROVE  SlotsOwned' /\ RefsExact'
    BY <1>6, <1>b, ReleaseExact DEF Release, Fails, Refused
  <1>7. ASSUME NEW r \in Runtimes, NEW h \in Handles,
               ReadScalar(r, h) \/ GetHostId(r, h)
        PROVE  SlotsOwned' /\ RefsExact'
    BY <1>7, <1>b DEF ReadScalar, GetHostId, Fails, Refused
  <1>8. ASSUME NEW r \in Runtimes, NEW n \in Names \cup {BadName},
               GetGlobal(r, n)
        PROVE  SlotsOwned' /\ RefsExact'
    <2>1. Global(r, n) \in Handles \cup {NULL}
      BY <1>a DEF Global, TypeOK, GlobalCells
    <2>2. ASSUME Valid(r, Global(r, n)), HostGains(Global(r, n))
          PROVE  SlotsOwned' /\ RefsExact'
      BY <2>1, <2>2, HostGainsExact, UsableIsHandle DEF Valid
    <2> QED
      BY <1>8, <2>2, <1>b DEF GetGlobal, Fails, Refused
  <1>9. ASSUME NEW r \in Runtimes, NEW n \in Names \cup {BadName},
               DeleteGlobal(r, n)
        PROVE  SlotsOwned' /\ RefsExact'
    BY <1>9, <1>b, DeleteExact DEF DeleteGlobal, Global, Fails, Refused
  <1>10. ASSUME NEW r \in Runtimes, NEW n \in Names \cup {BadName},
                NEW h \in Handles, SetGlobal(r, n, h)
         PROVE  SlotsOwned' /\ RefsExact'
    BY <1>10, <1>b, BindKept DEF SetGlobal, Fails, Refused
  <1>11. ASSUME NEW r \in Runtimes, NEW n \in Names \cup {BadName},
                NEW o \in Handles, NEW h \in Handles, HostSetAttr(r, o, n, h)
         PROVE  SlotsOwned' /\ RefsExact'
    BY <1>11, <1>b, AttrExact DEF HostSetAttr, IsObject, Fails, Refused
  <1>c. ASSUME NEW r \in Runtimes, NEW o \in Handles \cup {NULL},
               NEW n \in Names \cup {BadName}, HasAttr(r, o, n)
        PROVE  /\ n \in Names
               /\ o \in Handles
               /\ Attr(r, payload[o], n) = attrs[<<r, payload[o], n>>]
               /\ attrs[<<r, payload[o], n>>] \in Handles
               /\ Valid(r, attrs[<<r, payload[o], n>>])
    BY <1>a, <1>c, UsableIsHandle
    DEF HasAttr, Attr, Valid, Usable, IsObject, TypeOK, AttrCells
  <1>12. ASSUME NEW r \in Runtimes, NEW n \in Names \cup {BadName},
                NEW o \in Handles, HostGetAttr(r, o, n)
         PROVE  SlotsOwned' /\ RefsExact'
    <2>1. CASE HasAttr(r, o, n) /\ HostGains(attrs[<<r, payload[o], n>>])
      BY <2>1, <1>c, HostGainsExact
    <2> QED
      BY <1>12, <2>1, <1>b, AttrRefusedTables DEF HostGetAttr
  <1>13. ASSUME NEW r \in Runtimes, NEW n \in Names, EvalName(r, n)
         PROVE  SlotsOwned' /\ RefsExact'
    <2>1. globals[<<r, n>>] \in Handles \cup {NULL}
      BY <1>a DEF TypeOK, GlobalCells
    <2> QED
      BY <1>13, <2>1, <1>b, HostGainsExact, UsableIsHandle
      DEF EvalName, Valid, Fails, Refused
  <1>14. ASSUME NEW r \in Runtimes, NEW n \in Names, ExecAssignLiteral(r, n)
         PROVE  SlotsOwned' /\ RefsExact'
    BY <1>14, <1>a, BindFresh DEF ExecAssignLiteral, TypeOK
  <1>15. ASSUME NEW r \in Runtimes, NEW n \in Names, NEW a \in Names,
                EvalPath(r, n, a)
         PROVE  SlotsOwned' /\ RefsExact'
    <2> DEFINE root == globals[<<r, n>>]
               h == attrs[<<r, payload[root], a>>]
    <2>0. root \in Handles \cup {NULL}
      BY <1>a DEF TypeOK, GlobalCells
    <2>1. CASE /\ HasAttr(r, root, a)
               /\ held[h] < MaxHeld
               /\ refs' = Drop(Keep(Keep(refs, root), h), r, root)
               /\ held' = Keep(held, h)
               /\ UNCHANGED <<life, size, owner, payload, globals, attrs>>
      <3>1. root \in Handles /\ h \in Handles /\ Valid(r, h) /\ Valid(r, root)
        BY <2>0, <2>1, <1>c DEF HasAttr
      <3>2. refs' = Keep(refs, h)
        BY <2>1, <3>1, RootReleased
      <3>3. HostGains(h)
        BY <2>1, <3>2 DEF HostGains
      <3> QED
        BY <3>1, <3>3, HostGainsExact
    <2> QED
      BY <1>15, <2>1, <1>b, AttrRefusedTables DEF EvalPath, PathRefused, Refused
  <1>16. ASSUME NEW r \in Runtimes, NEW n \in Names, NEW m \in Names,
                ExecAssignName(r, n, m)
         PROVE  SlotsOwned' /\ RefsExact'
    <2>1. globals[<<r, m>>] \in Handles \cup {NULL}
      BY <1>a DEF TypeOK, GlobalCells
    <2> QED
      BY <1>16, <2>1, <1>b, BindKept, UsableIsHandle
      DEF ExecAssignName, Valid, Fails, Refused
  <1>17. ASSUME NEW r \in Runtimes, NEW n \in Names, NEW m \in Names,
                NEW a \in Names, ExecAugmentPath(r, n, m, a)
         PROVE  SlotsOwned' /\ RefsExact'
    <2> DEFINE root == globals[<<r, m>>]
               current == globals[<<r, n>>]
               right == attrs[<<r, payload[root], a>>]
               both == Keep(Keep(refs, right), current)
               left == Drop(Drop(both, r, current), r, right)
    <2>0. root \in Handles \cup {NULL} /\ current \in Handles \cup {NULL}
      BY <1>a DEF TypeOK, GlobalCells
    <2>1. ASSUME HasAttr(r, root, a), Valid(r, current)
          PROVE  left = refs
      <3>1. current \in Handles /\ right \in Handles /\ Valid(r, right)
        BY <2>0, <2>1, <1>c, UsableIsHandle DEF Valid
      <3> QED
        BY <2>1, <3>1, OperandsReleased
    <2>2. CASE /\ HasAttr(r, root, a) /\ Valid(r, current)
               /\ refs' = left
               /\ UNCHANGED <<life, size, owner, payload, globals, attrs, held>>
      BY <2>1, <2>2, <1>b DEF tables
    <2>3. CASE /\ HasAttr(r, root, a) /\ Valid(r, current)
               /\ Appended(r, Scalar)
               /\ Bound([left EXCEPT ![size + 1] = 1], r, n, size + 1)
               /\ Alive(r)
               /\ UNCHANGED <<life, attrs, held>>
      <3>1. Bound([refs EXCEPT ![size + 1] = 1], r, n, size + 1)
        BY <2>1, <2>3
      <3> QED
        BY <2>3, <3>1, <1>a, BindFresh DEF TypeOK
    <2> QED
      BY <1>17, <2>2, <2>3, <1>b, AttrRefusedTables
      DEF ExecAugmentPath, PathRefused, Refused
  <1>18. CASE UNCHANGED vars
    BY <1>18, <1>b DEF vars
  <1> QED
    BY <1>1, <1>2, <1>3, <1>4, <1>5, <1>6, <1>7, <1>8, <1>9, <1>10, <1>11,
       <1>12, <1>13, <1>14, <1>15, <1>16, <1>17, <1>18 DEF Next

\* Reference counts are exact in every reachable state: the count of a value
\* is what the host owns of it plus the bindings that hold it.
THEOREM RefCountsExact == Spec => []RefsExact
  <1>1. RefsInv => RefsExact
    BY DEF RefsInv
  <1> QED
    BY <1>1, RefsInit, RefsNext, PTL DEF Spec

\* The inductive invariant itself, which the isolation run checks.
THEOREM RefsInvariant == Spec => []RefsInv
  BY RefsInit, RefsNext, PTL DEF Spec

\* No reference the host owns and no binding of a live runtime dangles.
THEOREM NoDangling == Spec => []NothingDangles
  <1>1. RefsInv => NothingDangles
    <2> SUFFICES ASSUME RefsInv PROVE NothingDangles
      OBVIOUS
    <2>1. ASSUME NEW h \in 1 .. size, Alive(owner[h]), held[h] > 0
          PROVE  Valid(owner[h], h)
      <3>1. h \in Handles /\ h # NULL
        BY SlotFacts DEF NULL
      <3>2. /\ Cardinality(GlobalRefs(h)) \in Nat /\ Cardinality(AttrRefs(h)) \in Nat
            /\ held[h] \in Nat
        BY <3>1, CountsNat DEF RefsInv, TypeOK
      <3>3. refs[h] > 0
        BY <2>1, <3>2 DEF RefsInv, RefsExact
      <3> QED
        BY <2>1, <3>1, <3>3 DEF Valid, Usable
    <2>2. ASSUME NEW c \in GlobalCells, Alive(c[1]), globals[c] # NULL
          PROVE  Valid(c[1], globals[c])
      <3>1. PICK r \in Runtimes, n \in Names : c = <<r, n>>
        BY DEF GlobalCells
      <3>2. Alive(r) /\ c[1] = r /\ globals[<<r, n>>] # NULL
        BY <2>2, <3>1
      <3> QED
        BY <3>1, <3>2, BoundUsable DEF Valid
    <2>3. ASSUME NEW c \in AttrCells, Alive(c[1]), attrs[c] # NULL
          PROVE  Valid(c[1], attrs[c])
      <3>1. PICK r \in Runtimes, i \in HostIds, n \in Names : c = <<r, i, n>>
        BY DEF AttrCells
      <3>2. Alive(r) /\ c[1] = r /\ attrs[<<r, i, n>>] # NULL
        BY <2>3, <3>1
      <3> QED
        BY <3>1, <3>2, BoundUsable DEF Valid
    <2> QED
      BY <2>1, <2>2, <2>3 DEF NothingDangles
  <1> QED
    BY <1>1, RefsInvariant, PTL

(***************************************************************************)
(* Handles are never reused.                                               *)
(***************************************************************************)
\* Neither a release nor the retain of a value still counted revives another.
LEMMA ZeroStays ==
  ASSUME NEW f \in [Handles -> Nat], NEW k \in Handles, f[k] = 0,
         NEW h \in Handles \cup {NULL}
  PROVE  /\ \A r : Drop(f, r, h)[k] = 0
         /\ h \in Handles /\ f[h] > 0 => Keep(f, h)[k] = 0
         /\ h \in Handles /\ h # k => [f EXCEPT ![h] = 1][k] = 0
  BY DEF Drop, Keep, Usable, Handles, NULL

\* The slots appended before the step, and what it does to the dead ones.
LEMMA NoReuseNext ==
  ASSUME RefsInv, [Next]_vars, NEW k \in 1 .. size
  PROVE  /\ owner'[k] = owner[k] /\ payload'[k] = payload[k]
         /\ refs[k] = 0 => refs'[k] = 0
  <1> DEFINE Same == owner'[k] = owner[k] /\ payload'[k] = payload[k]
             Dead == refs[k] = 0 => refs'[k] = 0
  <1>a. /\ TypeOK /\ k \in Handles /\ refs \in [Handles -> Nat]
        /\ size \in Nat /\ k # size + 1
        /\ globals \in [GlobalCells -> Handles \cup {NULL}]
        /\ attrs \in [AttrCells -> Handles \cup {NULL}]
    BY SlotFacts DEF RefsInv, TypeOK
  <1>b. ASSUME UNCHANGED tables PROVE Same /\ Dead
    BY <1>b DEF tables
  <1>c. ASSUME NEW r \in Runtimes, NEW p, Appended(r, p)
        PROVE  Same /\ size + 1 \in Handles
    BY <1>a, <1>c, NextSlot DEF Appended, TypeOK
  <1>d. ASSUME NEW r \in Runtimes, NEW h \in Handles, Valid(r, h)
        PROVE  /\ refs[h] > 0 /\ Keep(refs, h) \in [Handles -> Nat]
               /\ refs[k] = 0 => Keep(refs, h)[k] = 0
    BY <1>a, <1>d, ZeroStays, KeepDropType DEF Valid, Usable
  <1>e. ASSUME NEW r \in Runtimes, NEW h \in Handles, Valid(r, h), HostGains(h)
        PROVE  Same /\ Dead
    BY <1>d, <1>e DEF HostGains
  <1>f. ASSUME NEW r \in Runtimes, NEW h \in Handles, Valid(r, h),
               NEW o \in Handles \cup {NULL}, refs' = Drop(Keep(refs, h), r, o)
        PROVE  Dead
    BY <1>a, <1>d, <1>f, ZeroStays
  <1>g. ASSUME NEW r \in Runtimes, size + 1 \in Handles,
               NEW o \in Handles \cup {NULL},
               refs' = Drop([refs EXCEPT ![size + 1] = 1], r, o)
        PROVE  Dead
    <2> SUFFICES ASSUME refs[k] = 0 PROVE refs'[k] = 0
      OBVIOUS
    <2> DEFINE g == [refs EXCEPT ![size + 1] = 1]
    <2>1. g \in [Handles -> Nat] /\ g[k] = 0
      BY <1>a
    <2>2. refs' = Drop(g, r, o)
      BY <1>g
    <2> HIDE DEF g
    <2> QED
      BY <1>a, <2>1, <2>2, ZeroStays
  <1>h. ASSUME NEW r \in Runtimes, NEW o \in Handles \cup {NULL},
               NEW n \in Names \cup {BadName}, HasAttr(r, o, n)
        PROVE  /\ o \in Handles
               /\ attrs[<<r, payload[o], n>>] \in Handles
               /\ Valid(r, attrs[<<r, payload[o], n>>])
    BY <1>a, <1>h, UsableIsHandle
    DEF HasAttr, Attr, Valid, Usable, IsObject, TypeOK, AttrCells
  <1>i. \A r \in Runtimes, n \in Names : globals[<<r, n>>] \in Handles \cup {NULL}
    BY <1>a DEF GlobalCells
  <1>j. \A r \in Runtimes, i \in HostIds, n \in Names :
          attrs[<<r, i, n>>] \in Handles \cup {NULL}
    BY <1>a DEF AttrCells
  <1>1. ASSUME NEW r \in Runtimes, RuntimeCreate(r) \/ RuntimeDestroy(r)
        PROVE  Same /\ Dead
    BY <1>1, <1>a DEF RuntimeCreate, RuntimeDestroy
  <1>2. ASSUME NEW r \in Runtimes,
               \/ CallInvalidRuntime(r) \/ ErrorClear(r)
               \/ \E h \in Handles : ReadScalar(r, h) \/ GetHostId(r, h)
        PROVE  Same /\ Dead
    BY <1>2, <1>b
    DEF CallInvalidRuntime, ErrorClear, ReadScalar, GetHostId, Fails, Refused
  <1>3. ASSUME NEW r \in Runtimes, NEW p \in Payloads, ValueFrom(r, p)
        PROVE  Same /\ Dead
    BY <1>3, <1>a, <1>c DEF ValueFrom
  <1>4. ASSUME NEW r \in Runtimes, NEW h \in Handles, Retain(r, h)
        PROVE  Same /\ Dead
    BY <1>4, <1>b, <1>e DEF Retain, Fails, Refused
  <1>5. ASSUME NEW r \in Runtimes, NEW h \in Handles, Release(r, h)
        PROVE  Same /\ Dead
    <2>1. CASE Fails(r, "INVALID_HANDLE")
      BY <2>1, <1>b DEF Fails, Refused
    <2>2. CASE /\ refs[h] > 0 /\ refs' = [refs EXCEPT ![h] = @ - 1]
               /\ UNCHANGED <<life, size, owner, payload, globals, attrs>>
      BY <2>2, <1>a
    <2> QED
      BY <1>5, <2>1, <2>2 DEF Release, Valid, Usable
  <1>6. ASSUME NEW r \in Runtimes, NEW n \in Names \cup {BadName},
               GetGlobal(r, n)
        PROVE  Same /\ Dead
    <2>1. Global(r, n) \in Handles \cup {NULL}
      BY <1>i DEF Global
    <2>2. ASSUME Valid(r, Global(r, n)), HostGains(Global(r, n))
          PROVE  Same /\ Dead
      BY <2>1, <2>2, <1>e, UsableIsHandle DEF Valid
    <2> QED
      BY <1>6, <2>2, <1>b DEF GetGlobal, Fails, Refused
  <1>7. ASSUME NEW r \in Runtimes, NEW n \in Names \cup {BadName},
               DeleteGlobal(r, n)
        PROVE  Same /\ Dead
    <2>1. CASE UNCHANGED tables
      BY <2>1, <1>b
    <2>2. CASE /\ n \in Names /\ refs' = Drop(refs, r, globals[<<r, n>>])
               /\ UNCHANGED <<life, size, owner, payload, attrs, held>>
      <3>1. globals[<<r, n>>] \in Handles \cup {NULL}
        BY <2>2, <1>i
      <3>2. ASSUME refs[k] = 0 PROVE refs'[k] = 0
        BY <2>2, <3>1, <3>2, <1>a DEF Drop, Usable
      <3> QED
        BY <2>2, <3>2
    <2> QED
      BY <1>7, <2>1, <2>2 DEF DeleteGlobal, Global, Fails, Refused
  <1>8. ASSUME NEW r \in Runtimes, NEW n \in Names \cup {BadName},
               NEW h \in Handles, SetGlobal(r, n, h)
        PROVE  Same /\ Dead
    BY <1>8, <1>b, <1>f, <1>i DEF SetGlobal, Bound, Fails, Refused
  <1>9. ASSUME NEW r \in Runtimes, NEW n \in Names \cup {BadName},
               NEW o \in Handles, NEW h \in Handles, HostSetAttr(r, o, n, h)
        PROVE  Same /\ Dead
    BY <1>9, <1>b, <1>f, <1>j DEF HostSetAttr, IsObject, Fails, Refused
  <1>10. ASSUME NEW r \in Runtimes, NEW n \in Names \cup {BadName},
                NEW o \in Handles, HostGetAttr(r, o, n)
         PROVE  Same /\ Dead
    BY <1>10, <1>b, <1>e, <1>h, AttrRefusedTables DEF HostGetAttr
  <1>11. ASSUME NEW r \in Runtimes, NEW n \in Names, EvalName(r, n)
         PROVE  Same /\ Dead
    BY <1>11, <1>b, <1>e, <1>i, UsableIsHandle DEF EvalName, Valid, Fails, Refused
  <1>12. ASSUME NEW r \in Runtimes, NEW n \in Names, ExecAssignLiteral(r, n)
         PROVE  Same /\ Dead
    BY <1>12, <1>c, <1>g, <1>i DEF ExecAssignLiteral, Bound
  <1>13. ASSUME NEW r \in Runtimes, NEW n \in Names, NEW a \in Names,
                EvalPath(r, n, a)
         PROVE  Same /\ Dead
    <2> DEFINE root == globals[<<r, n>>]
               h == attrs[<<r, payload[root], a>>]
    <2>1. CASE /\ HasAttr(r, root, a)
               /\ refs' = Drop(Keep(Keep(refs, root), h), r, root)
               /\ UNCHANGED <<life, size, owner, payload, globals, attrs>>
      <3>1. root \in Handles /\ h \in Handles /\ Valid(r, h) /\ Valid(r, root)
        BY <2>1, <1>h, <1>i DEF HasAttr
      <3>2. refs' = Keep(refs, h)
        BY <2>1, <3>1, RootReleased
      <3> QED
        BY <2>1, <3>1, <3>2, <1>d
    <2> QED
      BY <1>13, <2>1, <1>b, AttrRefusedTables DEF EvalPath, PathRefused, Refused
  <1>14. ASSUME NEW r \in Runtimes, NEW n \in Names, NEW m \in Names,
                ExecAssignName(r, n, m)
         PROVE  Same /\ Dead
    <2>1. Valid(r, globals[<<r, m>>]) => globals[<<r, m>>] \in Handles
      BY <1>i, UsableIsHandle DEF Valid
    <2> QED
      BY <1>14, <2>1, <1>b, <1>f, <1>i DEF ExecAssignName, Bound, Fails, Refused
  <1>15. ASSUME NEW r \in Runtimes, NEW n \in Names, NEW m \in Names,
                NEW a \in Names, ExecAugmentPath(r, n, m, a)
         PROVE  Same /\ Dead
    <2> DEFINE root == globals[<<r, m>>]
               current == globals[<<r, n>>]
               right == attrs[<<r, payload[root], a>>]
               both == Keep(Keep(refs, right), current)
               left == Drop(Drop(both, r, current), r, right)
    <2>1. ASSUME HasAttr(r, root, a), Valid(r, current)
          PROVE  left = refs
      <3>1. current \in Handles /\ right \in Handles /\ Valid(r, right)
        BY <2>1, <1>h, <1>i, UsableIsHandle DEF Valid
      <3> QED
        BY <2>1, <3>1, OperandsReleased
    <2>2. CASE /\ HasAttr(r, root, a) /\ Valid(r, current)
               /\ refs' = left
               /\ UNCHANGED <<life, size, owner, payload, globals, attrs, held>>
      BY <2>1, <2>2, <1>b DEF tables
    <2>3. CASE /\ HasAttr(r, root, a) /\ Valid(r, current)
               /\ Appended(r, Scalar)
               /\ Bound([left EXCEPT ![size + 1] = 1], r, n, size + 1)
      <3>1. Bound([refs EXCEPT ![size + 1] = 1], r, n, size + 1)
        BY <2>1, <2>3
      <3> QED
        BY <2>3, <3>1, <1>c, <1>g, <1>i DEF Bound
    <2> QED
      BY <1>15, <2>2, <2>3, <1>b, AttrRefusedTables
      DEF ExecAugmentPath, PathRefused, Refused
  <1>16. CASE UNCHANGED vars
    BY <1>16, <1>b DEF vars
  <1> QED
    BY <1>1, <1>2, <1>3, <1>4, <1>5, <1>6, <1>7, <1>8, <1>9, <1>10, <1>11,
       <1>12, <1>13, <1>14, <1>15, <1>16 DEF Next

\* A handle denotes one value for ever, and a dead one is never revived.
THEOREM NoReuse == Spec => HandlesNeverReused
  <1>1. RefsInv /\ [Next]_vars =>
          [\A h \in 1 .. size :
             /\ owner'[h] = owner[h] /\ payload'[h] = payload[h]
             /\ refs[h] = 0 => refs'[h] = 0]_vars
    BY NoReuseNext
  <1> QED
    BY <1>1, RefsInvariant, PTL DEF Spec, HandlesNeverReused

(***************************************************************************)
(* Refusals change nothing.                                                *)
(***************************************************************************)
LEMMA RefusalsNext ==
  ASSUME RefsInv, [Next]_vars, status' # "OK"
  PROVE  UNCHANGED tables
  <1>a. ASSUME NEW r, NEW s, NEW rec, Refused(r, s, rec) PROVE UNCHANGED tables
    BY <1>a DEF Refused
  <1>b. ASSUME NEW r, NEW s, Fails(r, s) PROVE UNCHANGED tables
    BY <1>a, <1>b DEF Fails
  <1>c. ASSUME NEW r, NEW c, Succeeds(r, c) PROVE FALSE
    BY <1>c DEF Succeeds
  <1>1. ASSUME NEW r \in Runtimes,
               \/ RuntimeCreate(r) \/ RuntimeDestroy(r)
               \/ CallInvalidRuntime(r) \/ ErrorClear(r)
        PROVE  UNCHANGED tables
    BY <1>1, <1>a, <1>c
    DEF RuntimeCreate, RuntimeDestroy, CallInvalidRuntime, ErrorClear
  <1>2. ASSUME NEW r \in Runtimes, NEW p \in Payloads, ValueFrom(r, p)
        PROVE  UNCHANGED tables
    BY <1>2, <1>c DEF ValueFrom
  <1>3. ASSUME NEW r \in Runtimes, NEW h \in Handles,
               Retain(r, h) \/ Release(r, h) \/ ReadScalar(r, h) \/ GetHostId(r, h)
        PROVE  UNCHANGED tables
    BY <1>3, <1>a, <1>b, <1>c DEF Retain, Release, ReadScalar, GetHostId
  <1>4. ASSUME NEW r \in Runtimes, NEW n \in Names \cup {BadName},
               GetGlobal(r, n) \/ DeleteGlobal(r, n)
        PROVE  UNCHANGED tables
    BY <1>4, <1>b, <1>c DEF GetGlobal, DeleteGlobal
  <1>5. ASSUME NEW r \in Runtimes, NEW n \in Names \cup {BadName},
               NEW h \in Handles, SetGlobal(r, n, h)
        PROVE  UNCHANGED tables
    BY <1>5, <1>a, <1>b, <1>c DEF SetGlobal
  <1>6. ASSUME NEW r \in Runtimes, NEW n \in Names \cup {BadName},
               NEW o \in Handles, NEW h \in Handles, HostSetAttr(r, o, n, h)
        PROVE  UNCHANGED tables
    BY <1>6, <1>a, <1>b, <1>c DEF HostSetAttr
  <1>7. ASSUME NEW r \in Runtimes, NEW n \in Names \cup {BadName},
               NEW o \in Handles, HostGetAttr(r, o, n)
        PROVE  UNCHANGED tables
    BY <1>7, <1>c, AttrRefusedTables DEF HostGetAttr
  <1>8. ASSUME NEW r \in Runtimes, NEW n \in Names,
               EvalName(r, n) \/ ExecAssignLiteral(r, n)
        PROVE  UNCHANGED tables
    BY <1>8, <1>b, <1>c DEF EvalName, ExecAssignLiteral
  <1>9. ASSUME NEW r \in Runtimes, NEW n \in Names, NEW a \in Names, EvalPath(r, n, a)
        PROVE  UNCHANGED tables
    BY <1>9, <1>a, <1>c, AttrRefusedTables DEF EvalPath, PathRefused
  <1>10. ASSUME NEW r \in Runtimes, NEW n \in Names, NEW m \in Names, ExecAssignName(r, n, m)
         PROVE  UNCHANGED tables
    BY <1>10, <1>b, <1>c DEF ExecAssignName
  <1>11. ASSUME NEW r \in Runtimes, NEW n \in Names, NEW m \in Names, NEW a \in Names,
                ExecAugmentPath(r, n, m, a)
         PROVE  UNCHANGED tables
    <2> DEFINE root == globals[<<r, m>>]
               current == globals[<<r, n>>]
               right == attrs[<<r, payload[root], a>>]
               left == Drop(Drop(Keep(Keep(refs, right), current), r, current), r, right)
    <2>1. CASE /\ HasAttr(r, root, a) /\ Valid(r, current)
               /\ refs' = left
               /\ UNCHANGED <<life, size, owner, payload, globals, attrs, held>>
      <3>1. root \in Handles \cup {NULL} /\ current \in Handles \cup {NULL}
        BY DEF RefsInv, TypeOK, GlobalCells
      <3>2. root \in Handles /\ current \in Handles
        BY <2>1, <3>1, UsableIsHandle DEF HasAttr, Valid
      <3>3. right \in Handles /\ Valid(r, right)
        BY <2>1, <3>2, UsableIsHandle
        DEF HasAttr, Attr, Valid, Usable, IsObject, RefsInv, TypeOK, AttrCells
      <3>4. left = refs
        BY <2>1, <3>2, <3>3, OperandsReleased DEF RefsInv
      <3> QED
        BY <2>1, <3>4 DEF tables
    <2> QED
      BY <1>11, <2>1, <1>a, <1>c, AttrRefusedTables DEF ExecAugmentPath, PathRefused
  <1>12. CASE UNCHANGED vars
    BY <1>12 DEF vars
  <1> QED
    BY <1>1, <1>2, <1>3, <1>4, <1>5, <1>6, <1>7, <1>8, <1>9, <1>10, <1>11, <1>12 DEF Next

\* A refused call has released whatever it retained on the way, on every path
\* through name lookup, attribute access and augmented assignment.
THEOREM RefusalsKeep == Spec => RefusalsChangeNothing
  <1>1. RefsInv /\ [Next]_vars => [status' # "OK" => UNCHANGED tables]_vars
    BY RefusalsNext
  <1> QED
    BY <1>1, RefsInvariant, PTL DEF Spec, RefusalsChangeNothing

(***************************************************************************)
(* Runtimes are isolated.                                                  *)
(***************************************************************************)
\* A step that changes what belongs to r and to no other runtime.
OnlyOf(r) ==
  /\ \A s \in Runtimes \ {r} : life'[s] = life[s] /\ error'[s] = error[s]
  /\ \A c \in GlobalCells : c[1] # r => globals'[c] = globals[c]
  /\ \A c \in AttrCells : c[1] # r => attrs'[c] = attrs[c]
  /\ \A h \in 1 .. size : owner[h] # r => refs'[h] = refs[h]

\* Counting a value of r, or giving it up, leaves other owners' counts alone.
LEMMA CountsApart ==
  ASSUME NEW f \in [Handles -> Nat], NEW r, NEW h, NEW k \in Handles, owner[k] # r
  PROVE  /\ Drop(f, r, h)[k] = f[k]
         /\ h \in Handles /\ owner[h] = r => Keep(f, h)[k] = f[k]
  BY DEF Drop, Keep, Usable

LEMMA OnlyOfNext ==
  ASSUME RefsInv, [Next]_vars
  PROVE  UNCHANGED vars \/ \E r \in Runtimes : OnlyOf(r)
  <1> DEFINE Records(r) == \A s \in Runtimes \ {r} : error'[s] = error[s]
             Counts(r) == \A h \in 1 .. size : owner[h] # r => refs'[h] = refs[h]
  <1>a. /\ life \in [Runtimes -> {"absent", "alive", "dead"}]
        /\ size \in Nat /\ 1 .. size \subseteq Handles
        /\ refs \in [Handles -> Nat]
        /\ globals \in [GlobalCells -> Handles \cup {NULL}]
        /\ attrs \in [AttrCells -> Handles \cup {NULL}]
        /\ error \in [Runtimes -> Statuses]
    BY SlotFacts DEF RefsInv, TypeOK
  <1>b. ASSUME NEW r \in Runtimes, NEW s, NEW rec, Refused(r, s, rec) PROVE OnlyOf(r)
    BY <1>b, <1>a DEF Refused, OnlyOf, tables
  <1>c. ASSUME NEW r \in Runtimes, NEW s, Fails(r, s) PROVE OnlyOf(r)
    BY <1>b, <1>c DEF Fails
  <1>d. ASSUME NEW r \in Runtimes, NEW c, Succeeds(r, c) PROVE Records(r)
    BY <1>a, <1>d DEF Succeeds
  <1>e. ASSUME NEW r \in Runtimes, NEW h \in Handles, Valid(r, h)
        PROVE  /\ owner[h] = r /\ Keep(refs, h) \in [Handles -> Nat]
               /\ \A k \in 1 .. size : owner[k] # r => Keep(refs, h)[k] = refs[k]
    <2>1. owner[h] = r /\ Keep(refs, h) \in [Handles -> Nat]
      BY <1>a, <1>e, KeepDropType DEF Valid, Usable
    <2>2. \A k \in 1 .. size : owner[k] # r => Keep(refs, h)[k] = refs[k]
      <3> SUFFICES ASSUME NEW k \in 1 .. size, owner[k] # r
                   PROVE  Keep(refs, h)[k] = refs[k]
        OBVIOUS
      <3>1. k \in Handles /\ k # h /\ refs \in [Handles -> Nat]
        BY <1>a, <2>1
      <3> QED
        BY <3>1 DEF Keep
    <2> QED
      BY <2>1, <2>2
  <1>f. ASSUME NEW r \in Runtimes, NEW h \in Handles, Valid(r, h), HostGains(h),
               Records(r)
        PROVE  OnlyOf(r)
    BY <1>e, <1>f DEF HostGains, OnlyOf
  <1>g. ASSUME NEW r \in Runtimes, NEW h \in Handles, Valid(r, h), NEW o,
               refs' = Drop(Keep(refs, h), r, o)
        PROVE  Counts(r)
    <2> SUFFICES ASSUME NEW k \in 1 .. size, owner[k] # r PROVE refs'[k] = refs[k]
      OBVIOUS
    <2>1. Keep(refs, h) \in [Handles -> Nat] /\ Keep(refs, h)[k] = refs[k] /\ k \in Handles
      BY <1>a, <1>e, <1>g
    <2>2. Drop(Keep(refs, h), r, o)[k] = Keep(refs, h)[k]
      BY <2>1, CountsApart
    <2> QED
      BY <1>g, <2>1, <2>2
  <1>h. ASSUME NEW r \in Runtimes, size + 1 \in Handles, NEW o,
               refs' = Drop([refs EXCEPT ![size + 1] = 1], r, o)
        PROVE  Counts(r)
    <2> DEFINE g == [refs EXCEPT ![size + 1] = 1]
    <2>1. g \in [Handles -> Nat] /\ \A k \in 1 .. size : g[k] = refs[k]
      BY <1>a, <1>h
    <2>2. refs' = Drop(g, r, o)
      BY <1>h
    <2> HIDE DEF g
    <2>3. \A k \in 1 .. size : owner[k] # r => Drop(g, r, o)[k] = g[k]
      BY <1>a, <2>1, CountsApart
    <2> QED
      BY <2>1, <2>2, <2>3
  <1>i. ASSUME NEW r \in Runtimes, NEW n \in Names, NEW h,
               globals' = [globals EXCEPT ![<<r, n>>] = h]
        PROVE  \A c \in GlobalCells : c[1] # r => globals'[c] = globals[c]
    BY <1>a, <1>i
  <1>j. ASSUME NEW r \in Runtimes, NEW i \in HostIds, NEW n \in Names, NEW h,
               attrs' = [attrs EXCEPT ![<<r, i, n>>] = h]
        PROVE  \A c \in AttrCells : c[1] # r => attrs'[c] = attrs[c]
    BY <1>a, <1>j
  <1>k. \A r \in Runtimes, n \in Names : globals[<<r, n>>] \in Handles \cup {NULL}
    BY <1>a DEF GlobalCells
  <1>l. ASSUME NEW r \in Runtimes, NEW o \in Handles \cup {NULL},
               NEW n \in Names \cup {BadName}, HasAttr(r, o, n)
        PROVE  /\ o \in Handles
               /\ attrs[<<r, payload[o], n>>] \in Handles
               /\ Valid(r, attrs[<<r, payload[o], n>>])
    BY <1>a, <1>l, UsableIsHandle
    DEF HasAttr, Attr, Valid, Usable, IsObject, AttrCells, RefsInv, TypeOK
  <1>m. ASSUME NEW r \in Runtimes, NEW p, Appended(r, p) PROVE size + 1 \in Handles
    BY <1>m, NextSlot DEF Appended, RefsInv, TypeOK
  <1>n. ASSUME NEW r \in Runtimes, NEW o, NEW n, AttrRefused(r, o, n) PROVE OnlyOf(r)
    BY <1>n, <1>b, <1>c DEF AttrRefused
  <1>o. ASSUME NEW r \in Runtimes, NEW o, NEW n, PathRefused(r, o, n) PROVE OnlyOf(r)
    BY <1>o, <1>b, <1>n DEF PathRefused
  <1>p. ASSUME NEW r \in Runtimes, UNCHANGED tables, Records(r) PROVE OnlyOf(r)
    BY <1>p DEF tables, OnlyOf
  <1>1. ASSUME NEW r \in Runtimes, RuntimeCreate(r) PROVE OnlyOf(r)
    BY <1>1, <1>a, <1>d DEF RuntimeCreate, OnlyOf
  <1>2. ASSUME NEW r \in Runtimes, RuntimeDestroy(r) PROVE OnlyOf(r)
    BY <1>2, <1>a, <1>d DEF RuntimeDestroy, OnlyOf
  <1>3. ASSUME NEW r \in Runtimes,
               \/ CallInvalidRuntime(r) \/ ErrorClear(r)
               \/ \E h \in Handles : ReadScalar(r, h) \/ GetHostId(r, h)
        PROVE  OnlyOf(r)
    BY <1>3, <1>b, <1>c, <1>d, <1>p DEF CallInvalidRuntime, ErrorClear, ReadScalar, GetHostId
  <1>4. ASSUME NEW r \in Runtimes, NEW p \in Payloads, ValueFrom(r, p) PROVE OnlyOf(r)
    <2>1. size + 1 \in Handles /\ refs' = [refs EXCEPT ![size + 1] = 1]
          /\ UNCHANGED <<life, globals, attrs>>
      BY <1>4, <1>m DEF ValueFrom
    <2>2. Records(r)
      BY <1>4, <1>d DEF ValueFrom
    <2> QED
      BY <2>1, <2>2, <1>a DEF OnlyOf
  <1>5. ASSUME NEW r \in Runtimes, NEW h \in Handles, Retain(r, h) PROVE OnlyOf(r)
    BY <1>5, <1>c, <1>d, <1>f DEF Retain
  <1>6. ASSUME NEW r \in Runtimes, NEW h \in Handles, Release(r, h) PROVE OnlyOf(r)
    <2>1. CASE Fails(r, "INVALID_HANDLE")
      BY <2>1, <1>c
    <2>2. CASE /\ Valid(r, h) /\ refs' = [refs EXCEPT ![h] = @ - 1] /\ Succeeds(r, FALSE)
               /\ UNCHANGED <<life, size, owner, payload, globals, attrs>>
      <3>1. Records(r) /\ owner[h] = r
        BY <2>2, <1>d DEF Valid, Usable
      <3> QED
        BY <2>2, <3>1, <1>a DEF OnlyOf
    <2> QED
      BY <1>6, <2>1, <2>2 DEF Release
  <1>7. ASSUME NEW r \in Runtimes, NEW n \in Names \cup {BadName}, GetGlobal(r, n)
        PROVE  OnlyOf(r)
    <2>1. Global(r, n) \in Handles \cup {NULL}
      BY <1>k DEF Global
    <2>2. Valid(r, Global(r, n)) => Global(r, n) \in Handles
      BY <2>1, UsableIsHandle DEF Valid
    <2> QED
      BY <1>7, <2>2, <1>c, <1>d, <1>f DEF GetGlobal
  <1>8. ASSUME NEW r \in Runtimes, NEW n \in Names \cup {BadName}, DeleteGlobal(r, n)
        PROVE  OnlyOf(r)
    <2>1. CASE Fails(r, "INVALID_ARGUMENT") \/ Fails(r, "NOT_FOUND")
      BY <2>1, <1>c
    <2>2. CASE /\ n \in Names /\ refs' = Drop(refs, r, globals[<<r, n>>])
               /\ globals' = [globals EXCEPT ![<<r, n>>] = NULL]
               /\ Succeeds(r, TRUE)
               /\ UNCHANGED <<life, size, owner, payload, attrs, held>>
      <3>1. Counts(r)
        BY <2>2, <1>a, CountsApart
      <3> QED
        BY <2>2, <3>1, <1>d, <1>i DEF OnlyOf
    <2> QED
      BY <1>8, <2>1, <2>2 DEF DeleteGlobal, Global
  <1>9. ASSUME NEW r \in Runtimes, NEW n \in Names \cup {BadName},
               NEW h \in Handles, SetGlobal(r, n, h)
        PROVE  OnlyOf(r)
    <2>1. CASE /\ n \in Names /\ Valid(r, h) /\ Bound(Keep(refs, h), r, n, h)
               /\ Succeeds(r, TRUE) /\ UNCHANGED <<life, size, owner, payload, attrs, held>>
      BY <2>1, <1>d, <1>g, <1>i DEF Bound, OnlyOf
    <2> QED
      BY <1>9, <2>1, <1>b, <1>c DEF SetGlobal
  <1>10. ASSUME NEW r \in Runtimes, NEW n \in Names \cup {BadName},
                NEW o \in Handles, NEW h \in Handles, HostSetAttr(r, o, n, h)
         PROVE  OnlyOf(r)
    <2>1. CASE /\ n \in Names /\ Valid(r, h) /\ payload[o] \in HostIds
               /\ refs' = Drop(Keep(refs, h), r, attrs[<<r, payload[o], n>>])
               /\ attrs' = [attrs EXCEPT ![<<r, payload[o], n>>] = h]
               /\ Succeeds(r, TRUE) /\ UNCHANGED <<life, size, owner, payload, globals, held>>
      <3>1. Counts(r) /\ Records(r)
        BY <2>1, <1>d, <1>g
      <3>2. \A c \in AttrCells : c[1] # r => attrs'[c] = attrs[c]
        BY <2>1, <1>j
      <3> QED
        BY <2>1, <3>1, <3>2 DEF OnlyOf
    <2> QED
      BY <1>10, <2>1, <1>b, <1>c DEF HostSetAttr, IsObject
  <1>11. ASSUME NEW r \in Runtimes, NEW n \in Names \cup {BadName},
                NEW o \in Handles, HostGetAttr(r, o, n)
         PROVE  OnlyOf(r)
    BY <1>11, <1>d, <1>f, <1>l, <1>n DEF HostGetAttr
  <1>12. ASSUME NEW r \in Runtimes, NEW n \in Names, EvalName(r, n) PROVE OnlyOf(r)
    <2>1. Valid(r, globals[<<r, n>>]) => globals[<<r, n>>] \in Handles
      BY <1>k, UsableIsHandle DEF Valid
    <2> QED
      BY <1>12, <2>1, <1>c, <1>d, <1>f DEF EvalName
  <1>13. ASSUME NEW r \in Runtimes, NEW n \in Names, ExecAssignLiteral(r, n) PROVE OnlyOf(r)
    BY <1>13, <1>d, <1>h, <1>i, <1>m DEF ExecAssignLiteral, Bound, OnlyOf
  <1>14. ASSUME NEW r \in Runtimes, NEW n \in Names, NEW a \in Names, EvalPath(r, n, a)
         PROVE  OnlyOf(r)
    <2> DEFINE root == globals[<<r, n>>]
               h == attrs[<<r, payload[root], a>>]
    <2>1. CASE /\ HasAttr(r, root, a)
               /\ refs' = Drop(Keep(Keep(refs, root), h), r, root)
               /\ UNCHANGED <<life, size, owner, payload, globals, attrs>>
               /\ Succeeds(r, TRUE)
      <3>1. root \in Handles /\ h \in Handles /\ Valid(r, h) /\ Valid(r, root)
        BY <2>1, <1>l, <1>k DEF HasAttr
      <3>2. refs' = Keep(refs, h)
        BY <2>1, <3>1, <1>a, RootReleased
      <3>3. \A k \in 1 .. size : owner[k] # r => Keep(refs, h)[k] = refs[k]
        BY <3>1, <1>e
      <3>4. Counts(r) /\ Records(r)
        BY <2>1, <3>2, <3>3, <1>d
      <3> HIDE DEF root, h
      <3> QED
        BY <2>1, <3>4 DEF OnlyOf
    <2> QED
      BY <1>14, <2>1, <1>o DEF EvalPath
  <1>15. ASSUME NEW r \in Runtimes, NEW n \in Names, NEW m \in Names, ExecAssignName(r, n, m)
         PROVE  OnlyOf(r)
    <2>1. Valid(r, globals[<<r, m>>]) => globals[<<r, m>>] \in Handles
      BY <1>k, UsableIsHandle DEF Valid
    <2>2. CASE /\ Valid(r, globals[<<r, m>>])
               /\ Bound(Keep(refs, globals[<<r, m>>]), r, n, globals[<<r, m>>])
               /\ Succeeds(r, TRUE) /\ UNCHANGED <<life, size, owner, payload, attrs, held>>
      <3>1. Counts(r) /\ Records(r)
        BY <2>1, <2>2, <1>d, <1>g DEF Bound
      <3>2. \A c \in GlobalCells : c[1] # r => globals'[c] = globals[c]
        BY <2>2, <1>i DEF Bound
      <3> QED
        BY <2>2, <3>1, <3>2 DEF OnlyOf
    <2> QED
      BY <1>15, <2>2, <1>c DEF ExecAssignName
  <1>16. ASSUME NEW r \in Runtimes, NEW n \in Names, NEW m \in Names, NEW a \in Names,
                ExecAugmentPath(r, n, m, a)
         PROVE  OnlyOf(r)
    <2> DEFINE root == globals[<<r, m>>]
               current == globals[<<r, n>>]
               right == attrs[<<r, payload[root], a>>]
               left == Drop(Drop(Keep(Keep(refs, right), current), r, current), r, right)
    <2>1. ASSUME HasAttr(r, root, a), Valid(r, current)
          PROVE  left = refs
      <3>1. current \in Handles /\ right \in Handles /\ Valid(r, right)
        BY <2>1, <1>l, <1>k, UsableIsHandle DEF Valid
      <3> QED
        BY <2>1, <3>1, <1>a, OperandsReleased DEF RefsInv
    <2>2. CASE /\ HasAttr(r, root, a) /\ Valid(r, current)
               /\ refs' = left /\ error' = [error EXCEPT ![r] = "TYPE_ERROR"]
               /\ UNCHANGED <<life, size, owner, payload, globals, attrs, held>>
      BY <2>1, <2>2, <1>a DEF OnlyOf
    <2>3. CASE /\ HasAttr(r, root, a) /\ Valid(r, current)
               /\ Appended(r, Scalar)
               /\ Bound([left EXCEPT ![size + 1] = 1], r, n, size + 1)
               /\ Succeeds(r, TRUE) /\ UNCHANGED <<life, attrs, held>>
      <3>1. Bound([refs EXCEPT ![size + 1] = 1], r, n, size + 1)
        BY <2>1, <2>3
      <3> QED
        <4>1. Counts(r) /\ Records(r)
          BY <2>3, <3>1, <1>d, <1>h, <1>m DEF Bound
        <4>2. \A c \in GlobalCells : c[1] # r => globals'[c] = globals[c]
          BY <3>1, <1>i DEF Bound
        <4> QED
          BY <2>3, <4>1, <4>2 DEF OnlyOf
    <2> QED
      BY <1>16, <2>2, <2>3, <1>b, <1>o DEF ExecAugmentPath
  <1> QED
    BY <1>1, <1>2, <1>3, <1>4, <1>5, <1>6, <1>7, <1>8, <1>9, <1>10, <1>11,
       <1>12, <1>13, <1>14, <1>15, <1>16 DEF Next

\* Whatever handles a host passes to whatever runtime: one call changes the
\* values, bindings and error record of one runtime at most.
THEOREM Isolation == Spec => RuntimesIsolated
  <1>1. RefsInv /\ [Next]_vars =>
          [\A r, s \in Runtimes : Touched(r) /\ Touched(s) => r = s]_vars
    <2> SUFFICES ASSUME RefsInv, [Next]_vars, ~UNCHANGED vars,
                        NEW r \in Runtimes, NEW s \in Runtimes, Touched(r), Touched(s)
                 PROVE  r = s
      OBVIOUS
    <2>1. PICK t \in Runtimes : OnlyOf(t)
      BY OnlyOfNext
    <2>2. \A q \in Runtimes : Touched(q) => q = t
      BY <2>1 DEF OnlyOf, Touched
    <2> QED
      BY <2>2
  <1> QED
    BY <1>1, RefsInvariant, PTL DEF Spec, RuntimesIsolated

=============================================================================
