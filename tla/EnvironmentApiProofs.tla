------------------------ MODULE EnvironmentApiProofs ------------------------
(***************************************************************************)
(* Proofs about EnvironmentApi, for any number of environments, names,     *)
(* callbacks, values, callable ids and nested calls.                       *)
(***************************************************************************)
EXTENDS EnvironmentApi, CountsAndStacks

USE DEF Handles, Cells, NULL, NoId, RawId, DirectBase, Direct, Value, Slot, Call

\* Slots not yet used have no references.
Unused ==
  \A h \in Handles : h > Len(created) => refs[h] = 0 /\ held[h] = 0

\* A binding is a value of its own environment, which is alive.
BindingsOwn ==
  \A b \in Cells : globals[b] # NULL =>
    /\ globals[b] <= Len(created)
    /\ created[globals[b]].env = b[1] /\ b[1] \in alive

\* Ids in use have been given out.
IdsGiven ==
  /\ \A i \in DOMAIN created : created[i].id \in Direct => created[i].id < nextId
  /\ \A i \in DOMAIN calls : calls[i].id \in Direct => calls[i].id < nextId
  /\ \A s \in registered : s.id < nextId
  /\ \A id \in replaced : id < nextId

\* A direct id that is used in an environment was registered there.
Registered(e, id) == id \in Direct => \E s \in registered : s.env = e /\ s.id = id

ValuesRegistered ==
  \A i \in DOMAIN created : refs[i] > 0 => Registered(created[i].env, created[i].id)

CallsRegistered == \A i \in DOMAIN calls : Registered(calls[i].env, calls[i].id)

\* What portapy_destroy was given is not alive.
EndedDead == alive \cap ended = {}

\* The inductive invariant: the counts, and the ids and slots.
Rest ==
  /\ IdsGiven /\ ValuesRegistered /\ CallsRegistered /\ EndedDead
  /\ SlotsAccountedFor /\ CallsRunTheirCallback

Inv == TypeOK /\ Unused /\ BindingsOwn /\ OwnershipExact /\ Rest

Count(h) == Cardinality(Holders(Cells, globals, h))

(***************************************************************************)
(* The tables.                                                             *)
(***************************************************************************)
LEMMA CellsFinite == IsFiniteSet(Cells)
  BY EnvironmentApiAssumption, FS_Product

LEMMA CountNat == ASSUME TypeOK, NEW h PROVE Count(h) \in Nat
  BY CellsFinite, FS_Subset, FS_CardinalityType DEF Count, Holders

LEMMA KeepDrop ==
  ASSUME NEW f \in [Handles -> Nat], NEW h \in Handles \cup {NULL}
  PROVE  /\ Drop(f, h) \in [Handles -> Nat]
         /\ h \in Handles => Keep(f, h) \in [Handles -> Nat]
         /\ \A k \in Handles : Drop(f, h)[k] = IF k = h /\ f[k] > 0 THEN f[k] - 1 ELSE f[k]
         /\ h \in Handles => \A k \in Handles : Keep(f, h)[k] = IF k = h THEN f[k] + 1 ELSE f[k]
  BY DEF Keep, Drop

(***************************************************************************)
(* The array of slots.                                                     *)
(***************************************************************************)
\* An array of slots in which no id comes twice.
Arrays == {t \in Seq(Slots) : \A i, j \in DOMAIN t : t[i].id = t[j].id => i = j}

LEMMA ArrayFacts ==
  ASSUME NEW t \in Arrays
  PROVE  /\ t \in Seq(Slots) /\ Len(t) \in Nat /\ DOMAIN t = 1 .. Len(t)
         /\ \A i \in DOMAIN t : t[i] \in Slots
         /\ \A i, j \in DOMAIN t : t[i].id = t[j].id => i = j
         /\ ToSet(t) = {t[i] : i \in DOMAIN t}
  <1>1. t \in Seq(Slots)
    BY DEF Arrays
  <1>2. Len(t) \in Nat /\ DOMAIN t = 1 .. Len(t) /\ \A i \in 1 .. Len(t) : t[i] \in Slots
    BY <1>1, ElementOfSeq, LenProperties
  <1> QED
    BY <1>1, <1>2 DEF Arrays, ToSet

\* The search finds the slot of an environment and id, if there is one.
LEMMA FindFacts ==
  ASSUME NEW t \in Arrays, NEW e, NEW id
  PROVE  /\ FindSlot(t, e, id) = 0 => \A s \in ToSet(t) : ~(s.env = e /\ s.id = id)
         /\ FindSlot(t, e, id) # 0 =>
              /\ FindSlot(t, e, id) \in DOMAIN t
              /\ t[FindSlot(t, e, id)].env = e /\ t[FindSlot(t, e, id)].id = id
         /\ \A i \in DOMAIN t : t[i].env = e /\ t[i].id = id => FindSlot(t, e, id) = i
  <1> DEFINE I == {i \in 1 .. Len(t) : t[i].env = e /\ t[i].id = id}
             m == CHOOSE i \in I : \A j \in I : i <= j
  <1>1. /\ Len(t) \in Nat /\ DOMAIN t = 1 .. Len(t) /\ ToSet(t) = {t[i] : i \in DOMAIN t}
        /\ \A i, j \in DOMAIN t : t[i].id = t[j].id => i = j
    BY ArrayFacts
  <1>2. FindSlot(t, e, id) = IF I # {} THEN m ELSE 0
    BY DEF FindSlot, SelectInSeq, Min
  <1>3. I # {} => m \in I
    <2>1. \A i \in I : I \in SUBSET Nat /\ i \in I
      BY <1>1
    <2> HIDE DEF I
    <2>2. \A i \in I : \E k \in I : \A j \in I : k <= j
      BY <2>1, Least
    <2> QED
      BY <2>2
  <1>4. \A i \in I : i = m
    BY <1>1, <1>3
  <1> HIDE DEF m
  <1> QED
    BY <1>1, <1>2, <1>3, <1>4

\* The last slot takes the place of the one that is removed.
LEMMA RemoveAtFacts ==
  ASSUME NEW t \in Arrays, NEW i \in DOMAIN t, NEW u, u = RemoveSlotAt(t, i)
  PROVE  /\ u \in Arrays /\ Len(u) = Len(t) - 1 /\ ToSet(u) = ToSet(t) \ {t[i]}
         /\ \A j \in DOMAIN u : u[j] = IF j = i THEN t[Len(t)] ELSE t[j]
  <1> DEFINE filled == [t EXCEPT ![i] = Last(t)]
             top == Len(t)
  <1>1. /\ t \in Seq(Slots) /\ top \in Nat /\ DOMAIN t = 1 .. top
        /\ \A j \in DOMAIN t : t[j] \in Slots
        /\ \A j, k \in DOMAIN t : t[j].id = t[k].id => j = k
        /\ ToSet(t) = {t[j] : j \in DOMAIN t}
    BY ArrayFacts
  <1>2. i \in 1 .. top /\ t # <<>> /\ top \in DOMAIN t /\ Last(t) = t[top]
    BY <1>1 DEF Last
  <1>3. filled \in Seq(Slots) /\ Len(filled) = top /\ filled # <<>>
        /\ \A j \in 1 .. top : filled[j] = IF j = i THEN t[top] ELSE t[j]
    <2>1. t[top] \in Slots
      BY <1>1, <1>2
    <2>2. filled \in [1 .. top -> Slots]
      BY <1>1, <1>2, <2>1
    <2>3. filled \in Seq(Slots)
      BY <1>1, <2>2, SeqDef
    <2>4. DOMAIN filled = 1 .. top
      BY <2>2
    <2>5. Len(filled) = top
      BY <1>1, <2>3, <2>4, LenProperties
    <2> QED
      BY <1>1, <1>2, <2>3, <2>5
  <1>4. /\ u \in Seq(Slots) /\ Len(u) = top - 1
        /\ \A j \in 1 .. top - 1 : u[j] = filled[j]
    <2>1. u = Front(filled)
      BY DEF RemoveSlotAt
    <2>2. filled \in Seq(Slots) /\ filled # <<>> /\ Len(filled) = top
      BY <1>3
    <2> HIDE DEF filled, top
    <2>3. /\ Front(filled) \in Seq(Slots) /\ Len(Front(filled)) = Len(filled) - 1
          /\ \A j \in 1 .. Len(filled) - 1 : Front(filled)[j] = filled[j]
      BY <2>2, TopFacts
    <2> QED
      BY <2>1, <2>2, <2>3
  <1>5. DOMAIN u = 1 .. top - 1
    BY <1>4, LenProperties
  <1> HIDE DEF filled
  <1>6. \A j \in DOMAIN u : u[j] = IF j = i THEN t[top] ELSE t[j]
    BY <1>1, <1>3, <1>4, <1>5
  <1>7. \A j, k \in DOMAIN u : u[j].id = u[k].id => j = k
    BY <1>1, <1>2, <1>5, <1>6
  <1>8. ToSet(u) = {u[j] : j \in DOMAIN u}
    BY DEF ToSet
  <1>9. \A j \in DOMAIN u : u[j] \in ToSet(t) \ {t[i]}
    BY <1>1, <1>2, <1>5, <1>6
  <1>10. ASSUME NEW j \in DOMAIN t, t[j] # t[i] PROVE t[j] \in ToSet(u)
    <2>1. CASE j = top
      <3>1. i \in DOMAIN u /\ u[i] = t[j]
        BY <1>1, <1>2, <1>5, <1>6, <1>10, <2>1
      <3> QED
        BY <1>8, <3>1
    <2>2. CASE j # top
      <3>1. j \in DOMAIN u /\ u[j] = t[j]
        BY <1>1, <1>5, <1>6, <1>10, <2>2
      <3> QED
        BY <1>8, <3>1
    <2> QED
      BY <2>1, <2>2
  <1>11. ToSet(u) = ToSet(t) \ {t[i]}
    BY <1>1, <1>8, <1>9, <1>10
  <1> QED
    BY <1>4, <1>6, <1>7, <1>11 DEF Arrays

\* A slot removed is the one of its environment and id, and no other.
LEMMA RemoveFacts ==
  ASSUME NEW t \in Arrays, NEW e, NEW id
  PROVE  /\ RemoveSlot(t, e, id) \in Arrays
         /\ ToSet(RemoveSlot(t, e, id)) = {s \in ToSet(t) : ~(s.env = e /\ s.id = id)}
  <1> DEFINE i == FindSlot(t, e, id)
  <1>1. CASE i = 0
    <2>1. RemoveSlot(t, e, id) = t
      BY <1>1 DEF RemoveSlot
    <2> QED
      BY <1>1, <2>1, FindFacts
  <1>2. CASE i # 0
    <2>1. i \in DOMAIN t /\ t[i].env = e /\ t[i].id = id
      BY <1>2, FindFacts
    <2>2. RemoveSlot(t, e, id) = RemoveSlotAt(t, i)
      BY <1>2 DEF RemoveSlot
    <2>3. /\ \A j, k \in DOMAIN t : t[j].id = t[k].id => j = k
          /\ ToSet(t) = {t[j] : j \in DOMAIN t}
      BY ArrayFacts
    <2> HIDE DEF i
    <2>4. RemoveSlotAt(t, i) \in Arrays /\ ToSet(RemoveSlotAt(t, i)) = ToSet(t) \ {t[i]}
      BY <2>1, RemoveAtFacts
    <2>5. ToSet(t) \ {t[i]} = {s \in ToSet(t) : ~(s.env = e /\ s.id = id)}
      BY <2>1, <2>3
    <2> QED
      BY <2>2, <2>4, <2>5
  <1> QED
    BY <1>1, <1>2

\* The loop over an environment's slots: what is behind the index is another
\* environment's, and nothing of another environment has gone; a turn brings
\* the index and the end one closer.
Turns == [index : Nat \ {0}, left : Arrays]
Others(some, e) == {s \in some : s.env # e}
InLoop(t, e, k, turn) ==
  /\ turn \in Turns
  /\ Others(ToSet(turn.left), e) = Others(ToSet(t), e) /\ ToSet(turn.left) \subseteq ToSet(t)
  /\ \A j \in DOMAIN turn.left : j < turn.index => turn.left[j].env # e
  /\ turn.index + Len(t) = Len(turn.left) + k + 1

LEMMA TurnType ==
  ASSUME NEW e, NEW turn \in Turns
  PROVE  RemovalTurn(e, turn) \in Turns
  <1>1. turn.index \in Nat \ {0} /\ turn.left \in Arrays
        /\ turn = [index |-> turn.index, left |-> turn.left]
    BY DEF Turns
  <1>2. Len(turn.left) \in Nat /\ DOMAIN turn.left = 1 .. Len(turn.left)
    BY <1>1, ArrayFacts
  <1>3. CASE turn.index > Len(turn.left)
    BY <1>3 DEF RemovalTurn
  <1>4. CASE ~(turn.index > Len(turn.left)) /\ turn.left[turn.index].env = e
    <2>1. turn.index \in DOMAIN turn.left
      BY <1>1, <1>2, <1>4
    <2>2. RemoveSlotAt(turn.left, turn.index) \in Arrays
      BY <1>1, <2>1, RemoveAtFacts
    <2> QED
      BY <1>1, <1>4, <2>2 DEF RemovalTurn, Turns
  <1>5. CASE ~(turn.index > Len(turn.left)) /\ turn.left[turn.index].env # e
    BY <1>1, <1>5 DEF RemovalTurn, Turns
  <1> QED
    BY <1>3, <1>4, <1>5

LEMMA TurnStep ==
  ASSUME NEW t \in Arrays, NEW e, NEW k \in 0 .. Len(t) - 1, NEW turn, InLoop(t, e, k, turn)
  PROVE  InLoop(t, e, k + 1, RemovalTurn(e, turn))
  <1> DEFINE i == turn.index
             left == turn.left
             next == RemovalTurn(e, turn)
  <1>1. turn \in Turns /\ i \in Nat \ {0} /\ left \in Arrays /\ Len(t) \in Nat
    BY ArrayFacts DEF InLoop, Turns
  <1>2. Len(left) \in Nat /\ DOMAIN left = 1 .. Len(left) /\ ToSet(left) = {left[j] : j \in DOMAIN left}
    BY <1>1, ArrayFacts
  <1>3. ~(i > Len(left)) /\ i \in DOMAIN left
    BY <1>1, <1>2 DEF InLoop
  <1>4. next \in Turns
    BY <1>1, TurnType
  <1>7. /\ \A j \in DOMAIN left : j < i => left[j].env # e
        /\ i + Len(t) = Len(left) + k + 1
        /\ Others(ToSet(left), e) = Others(ToSet(t), e) /\ ToSet(left) \subseteq ToSet(t)
    BY DEF InLoop
  <1>5. CASE left[i].env = e
    <2>1. next.index = i /\ next.left = RemoveSlotAt(left, i)
      BY <1>1, <1>3, <1>5 DEF RemovalTurn, Turns
    <2>2. /\ Len(next.left) = Len(left) - 1 /\ ToSet(next.left) = ToSet(left) \ {left[i]}
          /\ \A j \in DOMAIN next.left : next.left[j] = IF j = i THEN left[Len(left)] ELSE left[j]
          /\ next.left \in Arrays
      <3> HIDE DEF i, left, next
      <3> QED
        BY <1>1, <1>3, <2>1, RemoveAtFacts
    <2>3. DOMAIN next.left = 1 .. Len(left) - 1
      BY <2>2, ArrayFacts
    <2> HIDE DEF next, left, i
    <2>4. ASSUME NEW j \in DOMAIN next.left, j < i PROVE next.left[j].env # e
      <3>1. j # i /\ j \in DOMAIN left
        BY <1>1, <1>2, <2>3, <2>4
      <3>2. next.left[j] = left[j]
        BY <2>2, <3>1
      <3> QED
        BY <1>7, <2>4, <3>1, <3>2
    <2>5. Others(ToSet(next.left), e) = Others(ToSet(t), e) /\ ToSet(next.left) \subseteq ToSet(t)
      BY <1>5, <1>7, <2>2 DEF Others
    <2>6. next.index + Len(t) = Len(next.left) + (k + 1) + 1
      BY <1>1, <1>2, <1>7, <2>1, <2>2
    <2> QED
      BY <1>4, <2>1, <2>4, <2>5, <2>6 DEF InLoop, next
  <1>6. CASE left[i].env # e
    <2>1. next.index = i + 1 /\ next.left = left
      BY <1>1, <1>3, <1>6 DEF RemovalTurn, Turns
    <2> HIDE DEF next, left, i
    <2>2. \A j \in DOMAIN next.left : j < i + 1 => next.left[j].env # e
      BY <1>1, <1>2, <1>6, <1>7, <2>1
    <2>3. next.index + Len(t) = Len(next.left) + (k + 1) + 1
      BY <1>1, <1>2, <1>7, <2>1
    <2> QED
      BY <1>4, <1>7, <2>1, <2>2, <2>3 DEF InLoop, next
  <1> QED
    BY <1>5, <1>6

\* The loop ends with all slots of the environment gone, and no other.
LEMMA LoopFacts ==
  ASSUME NEW t \in Arrays, NEW e
  PROVE  /\ RemoveSlots(t, e) \in Arrays
         /\ ToSet(RemoveSlots(t, e)) = {s \in ToSet(t) : s.env # e}
  <1> DEFINE top == Len(t)
             start == [index |-> 1, left |-> t]
             pass == [k \in 1 .. top |-> [turn \in Turns |-> RemovalTurn(e, turn)]]
  <1>1. top \in Nat
    BY ArrayFacts
  <1>2. start \in Turns
    BY DEF Turns
  <1>3. pass \in [1 .. top -> [Turns -> Turns]]
    BY TurnType
  <1>4. PICK f : Repeats(f, top, Turns, start, pass)
    <2> HIDE DEF pass, start, top
    <2> QED
      BY <1>1, <1>2, <1>3, Repetition
  <1>5. f \in [0 .. top -> Turns] /\ f[0] = start
    BY <1>4 DEF Repeats
  <1>6. ASSUME NEW k \in 1 .. top PROVE f[k] = RemovalTurn(e, f[k - 1])
    <2>1. k - 1 \in 0 .. top
      BY <1>1
    <2>2. f[k - 1] \in Turns /\ f[k] = pass[k][f[k - 1]]
      <3> HIDE DEF pass
      <3> QED
        BY <1>4, <2>1 DEF Repeats
    <2> QED
      BY <2>2
  <1> DEFINE IsRun(g) ==
               g = [k \in 0 .. top |-> IF k = 0 THEN start ELSE RemovalTurn(e, g[k - 1])]
             loop == CHOOSE g : IsRun(g)
             T == {k \in 0 .. top : loop[k] = f[k] /\ InLoop(t, e, k, f[k])}
  <1>7. IsRun(f)
    BY <1>1, <1>5, <1>6
  <1>8. IsRun(loop)
    <2> HIDE DEF IsRun
    <2> QED
      BY <1>7
  <1>9. RemoveSlots(t, e) = loop[top].left
    BY DEF RemoveSlots
  <1> HIDE DEF loop
  <1>10. 0 \in T
    <2>1. InLoop(t, e, 0, start)
      BY <1>1, <1>2, ArrayFacts DEF InLoop, Others
    <2>2. loop[0] = start /\ 0 \in 0 .. top
      BY <1>1, <1>8
    <2> QED
      BY <1>5, <2>1, <2>2
  <1>11. ASSUME NEW k \in 0 .. top - 1, k \in T PROVE k + 1 \in T
    <2>1. PICK m \in 1 .. top : m = k + 1
      BY <1>1
    <2>2. m - 1 = k /\ m # 0 /\ m \in 0 .. top /\ loop[k] = f[k] /\ InLoop(t, e, k, f[k])
      BY <1>1, <1>11, <2>1
    <2>3. loop[m] = RemovalTurn(e, loop[m - 1])
      BY <1>8, <2>2
    <2>4. f[m] = RemovalTurn(e, f[m - 1])
      BY <1>6, <2>1
    <2>5. InLoop(t, e, m, f[m])
      BY <2>1, <2>2, <2>4, TurnStep
    <2> QED
      BY <2>1, <2>2, <2>3, <2>4, <2>5
  <1> HIDE DEF T
  <1>12. top \in T
    <2>1. \A k \in 0 .. top - 1 : k \in T => k + 1 \in T
      BY <1>11
    <2>2. \A k \in 0 .. top : k \in T
      BY <1>1, <1>10, <2>1, UpTo
    <2> QED
      BY <1>1, <2>2
  <1> DEFINE done == f[top]
  <1>13. RemoveSlots(t, e) = done.left /\ InLoop(t, e, top, done)
    BY <1>9, <1>12 DEF T
  <1> HIDE DEF done
  <1>14. done.left \in Arrays /\ done.index \in Nat /\ done.index = Len(done.left) + 1
         /\ Len(done.left) \in Nat
    BY <1>1, <1>13, ArrayFacts DEF InLoop, Turns
  <1>15. /\ DOMAIN done.left = 1 .. Len(done.left)
         /\ ToSet(done.left) = {done.left[j] : j \in DOMAIN done.left}
    BY <1>14, ArrayFacts
  <1>16. \A s \in ToSet(done.left) : s.env # e
    BY <1>13, <1>14, <1>15 DEF InLoop
  <1> QED
    BY <1>13, <1>14, <1>16 DEF InLoop, Others

\* A slot more, of a new id.
LEMMA AppendFacts ==
  ASSUME NEW t \in Arrays, NEW new \in Slots, \A s \in ToSet(t) : s.id # new.id
  PROVE  /\ Append(t, new) \in Arrays /\ ToSet(Append(t, new)) = ToSet(t) \cup {new}
         /\ FindSlot(Append(t, new), new.env, new.id) = Len(t) + 1
         /\ RemoveSlot(Append(t, new), new.env, new.id) = t
  <1> DEFINE u == Append(t, new)
             top == Len(t) + 1
  <1>1. /\ t \in Seq(Slots) /\ Len(t) \in Nat /\ DOMAIN t = 1 .. Len(t)
        /\ \A i, j \in DOMAIN t : t[i].id = t[j].id => i = j
        /\ ToSet(t) = {t[i] : i \in DOMAIN t}
    BY ArrayFacts
  <1>2. /\ u \in Seq(Slots) /\ Len(u) = top /\ DOMAIN u = 1 .. top
        /\ \A i \in 1 .. Len(t) : u[i] = t[i] /\ u[top] = new
    <2>1. u \in Seq(Slots) /\ Len(u) = top /\ (\A i \in 1 .. Len(t) : u[i] = t[i]) /\ u[top] = new
      BY <1>1, AppendProperties
    <2> QED
      BY <2>1, LenProperties
  <1>3. u[top] = new /\ top \in DOMAIN u
    BY <1>1, <1>2, AppendProperties
  <1> HIDE DEF u
  <1>4. u \in Arrays
    BY <1>1, <1>2, <1>3 DEF Arrays
  <1>5. ToSet(u) = ToSet(t) \cup {new}
    <2>1. ToSet(u) = {u[i] : i \in DOMAIN u}
      BY DEF ToSet
    <2>2. DOMAIN u = DOMAIN t \cup {top}
      BY <1>1, <1>2
    <2> QED
      BY <1>1, <1>2, <1>3, <2>1, <2>2
  <1>6. FindSlot(u, new.env, new.id) = top
    BY <1>3, <1>4, FindFacts
  <1>7. RemoveSlot(u, new.env, new.id) = t
    <2> DEFINE v == RemoveSlotAt(u, top)
    <2>1. RemoveSlot(u, new.env, new.id) = v
      BY <1>1, <1>6 DEF RemoveSlot
    <2>2. /\ v \in Arrays /\ Len(v) = Len(t)
          /\ \A j \in DOMAIN v : v[j] = IF j = top THEN u[top] ELSE u[j]
      BY <1>1, <1>2, <1>3, <1>4, RemoveAtFacts
    <2> HIDE DEF v
    <2>3. v \in Seq(Slots) /\ DOMAIN v = 1 .. Len(t)
      BY <2>2, ArrayFacts
    <2>4. \A j \in 1 .. Len(t) : v[j] = t[j]
      BY <1>1, <1>2, <2>2, <2>3
    <2>5. v = t
      BY <1>1, <2>2, <2>3, <2>4, SeqEqual
    <2> QED
      BY <2>1, <2>5
  <1> QED
    BY <1>4, <1>5, <1>6, <1>7 DEF u

LEMMA SlotsArray == ASSUME TypeOK, SlotsAccountedFor PROVE slots \in Arrays
  BY DEF TypeOK, SlotsAccountedFor, Arrays

\* A valid handle is that of a value of its environment.
LEMMA ValidFacts ==
  ASSUME TypeOK, Unused, NEW e, NEW h \in Handles \cup {NULL}, Valid(e, h)
  PROVE  /\ h \in Handles /\ h \in DOMAIN created /\ refs[h] > 0
         /\ created[h].env = e /\ e \in alive
  <1>1. h \in Handles /\ refs[h] > 0
    BY DEF Valid
  <1>2. h \in Nat /\ Len(created) \in Nat /\ DOMAIN created = 1 .. Len(created)
    BY <1>1 DEF TypeOK
  <1>3. h <= Len(created)
    BY <1>1, <1>2 DEF Unused
  <1> QED
    BY <1>1, <1>2, <1>3 DEF Valid

LEMMA FreshHandle ==
  ASSUME TypeOK, Unused, BindingsOwn, OwnershipExact, Len(created) < MaxValues
  PROVE  /\ Len(created) + 1 \in Handles /\ Len(created) + 1 \notin DOMAIN created
         /\ refs[Len(created) + 1] = 0 /\ held[Len(created) + 1] = 0
         /\ Count(Len(created) + 1) = 0
         /\ \A b \in Cells : globals[b] # Len(created) + 1
  <1>1. Len(created) \in Nat /\ DOMAIN created = 1 .. Len(created)
    BY DEF TypeOK
  <1>2. Len(created) + 1 \in Handles /\ Len(created) + 1 \notin DOMAIN created
    BY <1>1, EnvironmentApiAssumption
  <1>3. refs[Len(created) + 1] = 0 /\ held[Len(created) + 1] = 0
    BY <1>1, <1>2 DEF Unused
  <1>4. \A b \in Cells : globals[b] # Len(created) + 1
    BY <1>1 DEF BindingsOwn
  <1>5. Count(Len(created) + 1) = 0
    BY <1>4, NoCell DEF Count
  <1> QED
    BY <1>2, <1>3, <1>4, <1>5

\* One write to the global table: a reference per cell stays exact when the new
\* value is counted once more than before and the old one is dropped.
LEMMA Rebound ==
  ASSUME TypeOK, NEW c \in Cells, NEW v \in Handles \cup {NULL},
         globals' = [globals EXCEPT ![c] = v],
         held' \in [Handles -> Nat],
         NEW f \in [Handles -> Nat],
         \A k \in Handles : f[k] = held'[k] + Count(k) + (IF v = k THEN 1 ELSE 0),
         refs' = Drop(f, globals[c])
  PROVE  OwnershipExact' /\ refs' \in [Handles -> Nat]
  <1> DEFINE old == globals[c]
  <1>1. old \in Handles \cup {NULL} /\ DOMAIN globals = Cells
    BY DEF TypeOK
  <1>2. /\ refs' \in [Handles -> Nat]
        /\ \A k \in Handles : refs'[k] = IF k = old /\ f[k] > 0 THEN f[k] - 1 ELSE f[k]
    BY <1>1 DEF Drop
  <1>3. ASSUME NEW k \in Handles
        PROVE  refs'[k] = held'[k] + Cardinality(Holders(Cells, globals', k))
    <2> DEFINE before == Cardinality(Holders(Cells, globals, k))
               after == Cardinality(Holders(Cells, globals', k))
    <2>1. /\ before \in Nat /\ after \in Nat
          /\ before + (IF globals'[c] = k THEN 1 ELSE 0) =
               after + (IF old = k THEN 1 ELSE 0)
      <3>1. \A b \in Cells \ {c} : globals'[b] = globals[b]
        BY <1>1
      <3>2. IsFiniteSet(Cells) /\ c \in Cells
        BY CellsFinite
      <3> HIDE DEF Cells
      <3>3. before \in Nat
        BY ONLY <3>1, <3>2, CellWrite DEF before
      <3>4. after \in Nat
        BY ONLY <3>1, <3>2, CellWrite DEF after
      <3>5. before + (IF globals'[c] = k THEN 1 ELSE 0) =
              after + (IF globals[c] = k THEN 1 ELSE 0)
        BY ONLY <3>1, <3>2, CellWrite DEF before, after
      <3> QED
        BY <3>3, <3>4, <3>5
    <2>2. f[k] = held'[k] + before + (IF v = k THEN 1 ELSE 0) /\ held'[k] \in Nat
      BY DEF Count
    <2>3. refs'[k] = IF k = old /\ f[k] > 0 THEN f[k] - 1 ELSE f[k]
      BY <1>2
    <2>4. globals'[c] = v
      BY <1>1
    <2> HIDE DEF before, after, old
    <2>5. refs'[k] = held'[k] + after
      BY <2>1, <2>2, <2>3, <2>4
    <2> QED
      BY <2>5 DEF after
  <1> QED
    BY <1>2, <1>3 DEF OwnershipExact, Holders

\* A step that leaves environments, ids, slots and calls alone.
LEMMA TablesKept ==
  ASSUME Inv,
         UNCHANGED <<alive, slots, nextId, calls, registered, replaced, ended>>,
         outcome' = Quiet,
         \A i \in DOMAIN created :
           i \in DOMAIN created' /\ created'[i] = created[i] /\ (refs'[i] > 0 => refs[i] > 0),
         \A i \in DOMAIN created' \ DOMAIN created : created'[i].id \notin Direct
  PROVE  Rest'
  <1>1. IdsGiven'
    BY DEF Inv, Rest, IdsGiven
  <1>2. ValuesRegistered'
    BY DEF Inv, Rest, ValuesRegistered, Registered
  <1>3. CallsRegistered' /\ EndedDead'
    BY DEF Inv, Rest, CallsRegistered, Registered, EndedDead
  <1>4. SlotsAccountedFor'
    BY DEF Inv, Rest, SlotsAccountedFor
  <1>5. CallsRunTheirCallback'
    BY DEF CallsRunTheirCallback, Quiet
  <1> QED
    BY <1>1, <1>2, <1>3, <1>4, <1>5 DEF Rest

(***************************************************************************)
(* The fine-grained API.                                                   *)
(***************************************************************************)
LEMMA InvInit == Init => Inv
  <1> SUFFICES ASSUME Init PROVE Inv
    OBVIOUS
  <1>1. created = <<>> /\ calls = <<>> /\ Len(created) = 0 /\ slots = <<>> /\ registered = {}
    BY DEF Init
  <1>2. TypeOK
    <2>1. nextId \in DirectBase .. DirectBase + MaxIds
      BY EnvironmentApiAssumption DEF Init
    <2>2. created \in Seq([env : Envs, id : Direct \cup {NoId, RawId}])
          /\ calls \in Seq([env : Envs, id : Direct \cup {RawId}, running : BOOLEAN])
      BY <1>1
    <2>3. Len(created) <= MaxValues /\ slots \in Seq(Slots)
      BY <1>1, EnvironmentApiAssumption
    <2> QED
      BY <1>1, <2>1, <2>2, <2>3 DEF Init, TypeOK
  <1>3. OwnershipExact
    <2> SUFFICES ASSUME NEW h \in Handles
                 PROVE  refs[h] = held[h] + Cardinality(Holders(Cells, globals, h))
      BY DEF OwnershipExact, Holders
    <2>1. \A b \in Cells : globals[b] # h
      BY DEF Init
    <2>2. Cardinality(Holders(Cells, globals, h)) = 0
      BY <2>1, NoCell
    <2> HIDE DEF Cells
    <2> QED
      BY <2>2 DEF Init
  <1>4. Unused /\ BindingsOwn
    BY DEF Init, Unused, BindingsOwn
  <1>5. IdsGiven /\ ValuesRegistered /\ CallsRegistered /\ EndedDead
    BY <1>1 DEF Init, IdsGiven, ValuesRegistered, CallsRegistered, EndedDead
  <1>6. SlotsAccountedFor /\ CallsRunTheirCallback
    BY <1>1 DEF Init, SlotsAccountedFor, CallsRunTheirCallback, Quiet, ToSet
  <1> QED
    BY <1>2, <1>3, <1>4, <1>5, <1>6 DEF Inv, Rest

LEMMA ValueFromStep ==
  ASSUME Inv, NEW e \in Envs, NEW id \in {NoId, RawId}, ValueFrom(e, id)
  PROVE  Inv'
  <1> DEFINE h == Len(created) + 1
  <1>1. /\ h \in Handles /\ h \notin DOMAIN created /\ refs[h] = 0 /\ held[h] = 0
        /\ Count(h) = 0
    BY FreshHandle DEF Inv, ValueFrom
  <1>2. /\ created' = Append(created, Value(e, id))
        /\ refs' = [refs EXCEPT ![h] = 1] /\ held' = [held EXCEPT ![h] = 1]
        /\ UNCHANGED <<alive, slots, nextId, globals, raw, calls, registered, replaced, ended>>
        /\ outcome' = Quiet
    BY DEF ValueFrom, table
  <1>3. Value(e, id) \in [env : Envs, id : Direct \cup {NoId, RawId}]
    OBVIOUS
  <1>4. /\ Len(created) \in Nat /\ DOMAIN created = 1 .. Len(created)
        /\ Len(created') = h /\ DOMAIN created' = DOMAIN created \cup {h}
        /\ \A i \in DOMAIN created : created'[i] = created[i]
        /\ created'[h] = Value(e, id)
        /\ created' \in Seq([env : Envs, id : Direct \cup {NoId, RawId}])
    <2>1. created \in Seq([env : Envs, id : Direct \cup {NoId, RawId}])
      BY DEF Inv, TypeOK
    <2> QED
      BY <1>2, <1>3, <2>1, AppendProperties
  <1>5. TypeOK'
    BY <1>1, <1>2, <1>4 DEF Inv, TypeOK, ValueFrom
  <1>6. Unused'
    BY <1>1, <1>2, <1>4 DEF Inv, TypeOK, Unused
  <1>7. BindingsOwn'
    <2>1. \A b \in Cells : globals[b] # NULL => globals[b] \in DOMAIN created
      BY <1>4 DEF Inv, TypeOK, BindingsOwn
    <2> QED
      BY <1>2, <1>4, <2>1 DEF Inv, BindingsOwn
  <1>8. OwnershipExact'
    <2> SUFFICES ASSUME NEW k \in Handles
                 PROVE  refs'[k] = held'[k] + Cardinality(Holders(Cells, globals', k))
      BY DEF OwnershipExact, Holders
    <2>1. Count(k) = Cardinality(Holders(Cells, globals', k)) /\ Count(k) \in Nat
      BY <1>2, CountNat DEF Count, Inv
    <2>2. refs[k] = held[k] + Count(k)
      BY DEF Inv, OwnershipExact, Count, Holders
    <2>3. refs \in [Handles -> Nat] /\ held \in [Handles -> Nat]
      BY DEF Inv, TypeOK
    <2>4. refs'[k] = held'[k] + Count(k)
      BY <1>1, <1>2, <2>1, <2>2, <2>3
    <2> QED
      BY <2>1, <2>4
  <1>9. Rest'
    <2>1. \A i \in DOMAIN created :
            i \in DOMAIN created' /\ created'[i] = created[i] /\ (refs'[i] > 0 => refs[i] > 0)
      <3>1. \A i \in DOMAIN created : i \in Handles /\ i # h
        BY <1>1, <1>4, EnvironmentApiAssumption
      <3> QED
        BY <1>2, <1>4, <3>1 DEF Inv, TypeOK
    <2>2. \A i \in DOMAIN created' \ DOMAIN created : created'[i].id \notin Direct
      BY <1>4, EnvironmentApiAssumption
    <2> QED
      BY <1>2, <2>1, <2>2, TablesKept
  <1> QED
    BY <1>5, <1>6, <1>7, <1>8, <1>9 DEF Inv

\* Release and GetGlobal move a reference of the host's.
LEMMA HostCountStep ==
  ASSUME Inv, NEW h \in Handles, h \in DOMAIN created, refs[h] > 0,
         \/ refs' = Keep(refs, h) /\ held' = Keep(held, h)
         \/ held[h] > 0 /\ refs' = Drop(refs, h) /\ held' = [held EXCEPT ![h] = @ - 1],
         outcome' = Quiet,
         UNCHANGED <<alive, table, created, globals, raw, calls, registered, replaced, ended>>
  PROVE  Inv'
  <1>1. refs \in [Handles -> Nat] /\ held \in [Handles -> Nat]
    BY DEF Inv, TypeOK
  <1>2. refs' \in [Handles -> Nat] /\ held' \in [Handles -> Nat]
    BY <1>1 DEF Keep, Drop
  <1>3. \A k \in Handles :
          /\ refs'[k] - held'[k] = refs[k] - held[k]
          /\ k # h => refs'[k] = refs[k] /\ held'[k] = held[k]
    <2>1. CASE refs' = Keep(refs, h) /\ held' = Keep(held, h)
      BY <1>1, <2>1 DEF Keep
    <2>2. CASE held[h] > 0 /\ refs' = Drop(refs, h) /\ held' = [held EXCEPT ![h] = @ - 1]
      <3>1. refs' = [refs EXCEPT ![h] = @ - 1]
        BY <2>2 DEF Drop
      <3> QED
        BY <1>1, <2>2, <3>1
    <2> QED
      BY <2>1, <2>2
  <1>4. TypeOK'
    BY <1>2 DEF Inv, TypeOK, table
  <1>5. Unused'
    <2>1. h <= Len(created)
      BY DEF Inv, TypeOK
    <2> QED
      BY <1>3, <2>1 DEF Inv, Unused
  <1>6. BindingsOwn'
    BY DEF Inv, BindingsOwn
  <1>7. OwnershipExact'
    <2> SUFFICES ASSUME NEW k \in Handles
                 PROVE  refs'[k] = held'[k] + Cardinality(Holders(Cells, globals', k))
      BY DEF OwnershipExact, Holders
    <2>1. Count(k) = Cardinality(Holders(Cells, globals', k)) /\ Count(k) \in Nat
      BY CountNat DEF Count, Inv
    <2>2. refs[k] = held[k] + Count(k)
      BY DEF Inv, OwnershipExact, Count, Holders
    <2>3. refs'[k] = held'[k] + Count(k)
      BY <1>1, <1>2, <1>3, <2>1, <2>2
    <2> QED
      BY <2>1, <2>3
  <1>8. Rest'
    <2>1. \A i \in DOMAIN created : i \in Handles
      BY EnvironmentApiAssumption DEF Inv, TypeOK
    <2>2. \A i \in DOMAIN created : refs'[i] > 0 => refs[i] > 0
      BY <1>3, <2>1
    <2> QED
      BY <2>2, TablesKept DEF table
  <1> QED
    BY <1>4, <1>5, <1>6, <1>7, <1>8 DEF Inv

\* A binding changes and counts move with it; slots may go with their ids
\* declared replaced.
LEMMA BindStep ==
  ASSUME Inv, NEW e \in Envs, NEW n \in Names, NEW v \in Handles \cup {NULL},
         v # NULL => v \in DOMAIN created /\ created[v].env = e /\ e \in alive /\ refs[v] > 0,
         refs' = Drop(IF v = NULL THEN refs ELSE Keep(refs, v), globals[<<e, n>>]),
         globals' = [globals EXCEPT ![<<e, n>>] = v],
         UNCHANGED <<alive, created, held>>
  PROVE  /\ refs' \in [Handles -> Nat] /\ globals' \in [Cells -> Handles \cup {NULL}]
         /\ Unused' /\ BindingsOwn' /\ OwnershipExact'
         /\ \A i \in DOMAIN created : refs'[i] > 0 => refs[i] > 0
  <1> DEFINE f == IF v = NULL THEN refs ELSE Keep(refs, v)
             c == <<e, n>>
             old == globals[c]
  <1>1. /\ refs \in [Handles -> Nat] /\ held \in [Handles -> Nat]
        /\ globals \in [Cells -> Handles \cup {NULL}] /\ c \in Cells
        /\ Len(created) \in Nat /\ DOMAIN created = 1 .. Len(created)
        /\ old \in Handles \cup {NULL}
    BY DEF Inv, TypeOK
  <1>2. v # NULL => v \in Handles
    OBVIOUS
  <1>3. /\ f \in [Handles -> Nat]
        /\ \A k \in Handles : f[k] = refs[k] + (IF v = k THEN 1 ELSE 0)
    BY <1>1, <1>2 DEF Keep
  <1>4. \A k \in Handles : f[k] = held[k] + Count(k) + (IF v = k THEN 1 ELSE 0)
    <2>1. \A k \in Handles : refs[k] = held[k] + Count(k) /\ Count(k) \in Nat
      BY CountNat DEF Inv, OwnershipExact, Count, Holders
    <2> QED
      BY <1>1, <1>3, <2>1
  <1>5. OwnershipExact' /\ refs' \in [Handles -> Nat]
    <2>1. /\ globals' = [globals EXCEPT ![c] = v] /\ held' = held
          /\ refs' = Drop(f, globals[c])
      OBVIOUS
    <2>2. \A k \in Handles : f[k] = held'[k] + Count(k) + (IF v = k THEN 1 ELSE 0)
      BY <1>4
    <2>3. TypeOK /\ held' \in [Handles -> Nat] /\ f \in [Handles -> Nat] /\ c \in Cells
      BY <1>1, <1>3, <2>1 DEF Inv
    <2>4. v \in Handles \cup {NULL}
      OBVIOUS
    <2> HIDE DEF f, c
    <2>5. OwnershipExact'
      BY ONLY <2>1, <2>2, <2>3, <2>4, Rebound
    <2>6. refs' \in [Handles -> Nat]
      <3>1. globals[c] \in Handles \cup {NULL}
        BY <1>1 DEF c
      <3>2. f \in [Handles -> Nat] /\ refs' = Drop(f, globals[c])
        BY <2>1, <2>3
      <3> QED
        BY ONLY <3>1, <3>2 DEF Drop, NULL, Handles
    <2> QED
      BY <2>5, <2>6
  <1>6. \A k \in Handles : refs'[k] > 0 => f[k] > 0
    <2>1. refs' = Drop(f, old)
      OBVIOUS
    <2>2. f \in [Handles -> Nat] /\ old \in Handles \cup {NULL}
      BY <1>1, <1>3
    <2> HIDE DEF f, old
    <2> QED
      BY ONLY <2>1, <2>2 DEF Drop, NULL, Handles
  <1>7. ASSUME NEW k \in Handles, refs'[k] > 0 PROVE refs[k] > 0
    <2>1. f[k] > 0 /\ f[k] = refs[k] + (IF v = k THEN 1 ELSE 0) /\ refs[k] \in Nat
      BY <1>1, <1>3, <1>6, <1>7
    <2>2. v = k => refs[k] > 0
      <3>1. v = k => v # NULL
        OBVIOUS
      <3> QED
        BY <3>1
    <2> HIDE DEF f
    <2> QED
      BY ONLY <2>1, <2>2
  <1>8. Unused'
    <2> SUFFICES ASSUME NEW k \in Handles, k > Len(created)
                 PROVE  refs'[k] = 0 /\ held'[k] = 0
      BY DEF Unused
    <2>1. refs[k] = 0 /\ held[k] = 0
      BY DEF Inv, Unused
    <2> QED
      <3>1. refs'[k] \in Nat /\ (refs'[k] > 0 => refs[k] > 0) /\ held'[k] = held[k]
        BY <1>5, <1>7
      <3> QED
        BY ONLY <2>1, <3>1
  <1>9. BindingsOwn'
    <2> SUFFICES ASSUME NEW b \in Cells, globals'[b] # NULL
                 PROVE  /\ globals'[b] <= Len(created)
                        /\ created[globals'[b]].env = b[1] /\ b[1] \in alive
      BY DEF BindingsOwn
    <2>1. CASE b = c
      BY <1>1, <2>1
    <2>2. CASE b # c
      BY <1>1, <2>2 DEF Inv, BindingsOwn
    <2> QED
      BY <2>1, <2>2
  <1>10. \A i \in DOMAIN created : i \in Handles
    BY <1>1, EnvironmentApiAssumption DEF Inv, TypeOK
  <1> QED
    BY <1>1, <1>5, <1>7, <1>8, <1>9, <1>10

LEMMA ReleaseStep ==
  ASSUME Inv, NEW e \in Envs, NEW h \in Handles, Release(e, h)
  PROVE  Inv'
  <1>1. h \in DOMAIN created /\ refs[h] > 0
    BY ValidFacts DEF Inv, Release
  <1> QED
    BY <1>1, HostCountStep DEF Release

LEMMA GetGlobalStep ==
  ASSUME Inv, NEW e \in Envs, NEW n \in Names, GetGlobal(e, n)
  PROVE  Inv'
  <1> DEFINE h == globals[<<e, n>>]
  <1>1. h \in Handles \cup {NULL} /\ Valid(e, h)
    BY DEF Inv, TypeOK, GetGlobal
  <1> HIDE DEF h
  <1>2. h \in Handles /\ h \in DOMAIN created /\ refs[h] > 0
    BY <1>1, ValidFacts DEF Inv
  <1>3. /\ refs' = Keep(refs, h) /\ held' = Keep(held, h) /\ outcome' = Quiet
        /\ UNCHANGED <<alive, table, created, globals, raw, calls, registered, replaced, ended>>
    BY DEF GetGlobal, h
  <1> QED
    BY <1>2, <1>3, HostCountStep

\* A binding changes and no slot does.
LEMMA PlainBind ==
  ASSUME Inv, NEW e \in Envs, NEW n \in Names, NEW v \in Handles \cup {NULL},
         v # NULL => v \in DOMAIN created /\ created[v].env = e /\ e \in alive /\ refs[v] > 0,
         refs' = Drop(IF v = NULL THEN refs ELSE Keep(refs, v), globals[<<e, n>>]),
         globals' = [globals EXCEPT ![<<e, n>>] = v],
         outcome' = Quiet,
         UNCHANGED <<alive, table, created, raw, calls, history>>
  PROVE  Inv'
  <1>1. UNCHANGED <<alive, created, held, slots, nextId, raw, calls, registered, replaced, ended>>
    BY DEF table, history
  <1>2. /\ refs' \in [Handles -> Nat] /\ globals' \in [Cells -> Handles \cup {NULL}]
        /\ Unused' /\ BindingsOwn' /\ OwnershipExact'
        /\ \A i \in DOMAIN created : refs'[i] > 0 => refs[i] > 0
    BY <1>1, BindStep
  <1>3. TypeOK'
    BY <1>1, <1>2 DEF Inv, TypeOK
  <1>4. Rest'
    BY <1>1, <1>2, TablesKept
  <1> QED
    BY <1>2, <1>3, <1>4 DEF Inv

LEMMA SetGlobalStep ==
  ASSUME Inv, NEW e \in Envs, NEW n \in Names, NEW h \in Handles, SetGlobal(e, n, h)
  PROVE  Inv'
  <1>1. h \in DOMAIN created /\ created[h].env = e /\ e \in alive /\ refs[h] > 0
    BY ValidFacts DEF Inv, SetGlobal
  <1>2. h # NULL
    OBVIOUS
  <1>3. /\ refs' = Drop(IF h = NULL THEN refs ELSE Keep(refs, h), globals[<<e, n>>])
        /\ globals' = [globals EXCEPT ![<<e, n>>] = h]
        /\ outcome' = Quiet /\ UNCHANGED <<alive, table, created, raw, calls, history>>
    BY <1>2 DEF SetGlobal
  <1> QED
    BY <1>1, <1>3, PlainBind

LEMMA DeleteGlobalStep ==
  ASSUME Inv, NEW e \in Envs, NEW n \in Names, DeleteGlobal(e, n)
  PROVE  Inv'
  <1>1. /\ refs' = Drop(IF NULL = NULL THEN refs ELSE Keep(refs, NULL), globals[<<e, n>>])
        /\ globals' = [globals EXCEPT ![<<e, n>>] = NULL]
        /\ outcome' = Quiet /\ UNCHANGED <<alive, table, created, raw, calls, history>>
    BY DEF DeleteGlobal
  <1> QED
    BY <1>1, PlainBind

LEMMA SetHandlerStep ==
  ASSUME Inv, NEW e \in Envs, SetHandler(e)
  PROVE  Inv'
  <1>1. /\ UNCHANGED <<alive, slots, nextId, created, refs, globals, calls, held, registered, replaced, ended>>
        /\ outcome' = Quiet /\ raw' \subseteq Envs
    BY DEF SetHandler, table, values, history, Inv, TypeOK
  <1>2. TypeOK' /\ Unused' /\ BindingsOwn'
    BY <1>1 DEF Inv, TypeOK, Unused, BindingsOwn
  <1>3. OwnershipExact'
    BY <1>1 DEF Inv, OwnershipExact
  <1>4. Rest'
    BY <1>1, TablesKept
  <1> QED
    BY <1>2, <1>3, <1>4 DEF Inv

(***************************************************************************)
(* The end of an environment.                                              *)
(***************************************************************************)
\* The slots of an environment go, all of them, or stay.
LEMMA SlotsEnd ==
  ASSUME Inv, NEW e \in Envs, UNCHANGED <<registered, replaced>>,
         \/ slots' = slots /\ ended' = ended
         \/ slots' = RemoveSlots(slots, e) /\ ended' = ended \cup {e}
  PROVE  SlotsAccountedFor' /\ slots' \in Seq(Slots) /\ ended' \subseteq Envs
  <1>1. slots \in Arrays
    BY SlotsArray DEF Inv, Rest
  <1>2. CASE slots' = slots /\ ended' = ended
    BY <1>2 DEF Inv, Rest, TypeOK, SlotsAccountedFor
  <1>3. CASE slots' = RemoveSlots(slots, e) /\ ended' = ended \cup {e}
    <2>1. slots' \in Arrays /\ ToSet(slots') = {s \in ToSet(slots) : s.env # e}
      BY <1>1, <1>3, LoopFacts
    <2>2. slots' \in Seq(Slots) /\ \A i, j \in DOMAIN slots' : slots'[i].id = slots'[j].id => i = j
      BY <2>1, ArrayFacts
    <2>3. ToSet(slots) = {s \in registered : s.id \notin replaced /\ s.env \notin ended}
      BY DEF Inv, Rest, SlotsAccountedFor
    <2>4. ToSet(slots') = {s \in registered' : s.id \notin replaced' /\ s.env \notin ended'}
      BY <1>3, <2>1, <2>3
    <2>5. ended' \subseteq Envs
      BY <1>3 DEF Inv, TypeOK
    <2> QED
      BY <2>2, <2>4, <2>5 DEF SlotsAccountedFor
  <1> QED
    BY <1>2, <1>3

LEMMA EndStep ==
  ASSUME Inv, NEW e \in Envs, EndEnvironment(e), outcome' = Quiet,
         \/ slots' = slots /\ ended' = ended
         \/ slots' = RemoveSlots(slots, e) /\ ended' = ended \cup {e}
  PROVE  Inv'
  <1> DEFINE Gone(k) == k <= Len(created) /\ created[k].env = e
  <1>1. /\ alive' = alive \ {e}
        /\ refs' = [k \in Handles |-> IF Gone(k) THEN 0 ELSE refs[k]]
        /\ held' = [k \in Handles |-> IF Gone(k) THEN 0 ELSE held[k]]
        /\ globals' = [b \in Cells |-> IF b[1] = e THEN NULL ELSE globals[b]]
        /\ UNCHANGED <<created, nextId, raw, calls, registered, replaced>>
    BY DEF EndEnvironment
  <1>10. SlotsAccountedFor' /\ slots' \in Seq(Slots) /\ ended' \subseteq Envs
    BY <1>1, SlotsEnd
  <1>2. TypeOK'
    BY <1>1, <1>10 DEF Inv, TypeOK
  <1>3. Unused'
    BY <1>1 DEF Inv, Unused
  <1>4. BindingsOwn'
    BY <1>1 DEF Inv, BindingsOwn
  <1>5. OwnershipExact'
    <2> SUFFICES ASSUME NEW k \in Handles
                 PROVE  refs'[k] = held'[k] + Cardinality(Holders(Cells, globals', k))
      BY DEF OwnershipExact, Holders
    <2>1. CASE Gone(k)
      <3>1. \A b \in Cells : globals'[b] # k
        BY <1>1, <2>1 DEF Inv, BindingsOwn
      <3>2. Cardinality(Holders(Cells, globals', k)) = 0
        BY <3>1, NoCell
      <3>3. refs'[k] = 0 /\ held'[k] = 0
        BY <1>1, <2>1
      <3> HIDE DEF Cells
      <3> QED
        BY <3>2, <3>3
    <2>2. CASE ~Gone(k)
      <3>1. \A b \in Cells : globals'[b] = k <=> globals[b] = k
        BY <1>1, <2>2 DEF Inv, BindingsOwn
      <3>2. Holders(Cells, globals', k) = Holders(Cells, globals, k)
        BY <3>1 DEF Holders
      <3>3. refs'[k] = refs[k] /\ held'[k] = held[k]
        BY <1>1, <2>2
      <3>4. refs[k] = held[k] + Cardinality(Holders(Cells, globals, k))
        BY DEF Inv, OwnershipExact, Holders
      <3> QED
        BY <3>2, <3>3, <3>4
    <2> QED
      BY <2>1, <2>2
  <1>6. IdsGiven'
    BY <1>1 DEF Inv, Rest, IdsGiven
  <1>7. ValuesRegistered'
    <2> SUFFICES ASSUME NEW i \in DOMAIN created, refs'[i] > 0
                 PROVE  Registered(created[i].env, created[i].id)
      BY <1>1 DEF ValuesRegistered, Registered
    <2>1. i \in Handles
      BY EnvironmentApiAssumption DEF Inv, TypeOK
    <2>2. refs[i] > 0
      BY <1>1, <2>1
    <2> QED
      BY <2>2 DEF Inv, Rest, ValuesRegistered
  <1>8. CallsRegistered' /\ EndedDead'
    BY <1>1 DEF Inv, Rest, CallsRegistered, Registered, EndedDead
  <1>9. CallsRunTheirCallback'
    BY DEF CallsRunTheirCallback, Quiet
  <1> QED
    BY <1>2, <1>3, <1>4, <1>5, <1>6, <1>7, <1>8, <1>9, <1>10 DEF Inv, Rest

LEMMA RuntimeDestroyStep ==
  ASSUME Inv, NEW e \in Envs, RuntimeDestroy(e)
  PROVE  Inv'
  BY EndStep DEF RuntimeDestroy

LEMMA DestroyStep ==
  ASSUME Inv, NEW e \in Envs, Destroy(e)
  PROVE  Inv'
  <1>1. slots' = RemoveSlots(slots, e) /\ ended' = ended \cup {e} /\ outcome' = Quiet
    BY DEF Destroy
  <1>2. CASE e \in alive
    BY <1>1, <1>2, EndStep DEF Destroy
  <1>3. CASE e \notin alive
    <2>1. UNCHANGED <<alive, created, nextId, refs, globals, raw, calls, held, registered, replaced>>
      BY <1>3 DEF Destroy
    <2>2. SlotsAccountedFor' /\ slots' \in Seq(Slots) /\ ended' \subseteq Envs
      BY <1>1, <2>1, SlotsEnd
    <2>3. TypeOK' /\ Unused' /\ BindingsOwn' /\ OwnershipExact'
      BY <2>1, <2>2 DEF Inv, TypeOK, Unused, BindingsOwn, OwnershipExact
    <2>4. IdsGiven' /\ ValuesRegistered' /\ CallsRegistered' /\ EndedDead'
      BY <1>1, <1>3, <2>1 DEF Inv, Rest, IdsGiven, ValuesRegistered, CallsRegistered, Registered, EndedDead
    <2>5. CallsRunTheirCallback'
      BY <1>1 DEF CallsRunTheirCallback, Quiet
    <2> QED
      BY <2>2, <2>3, <2>4, <2>5 DEF Inv, Rest
  <1> QED
    BY <1>2, <1>3

(***************************************************************************)
(* The environment helpers.                                                *)
(***************************************************************************)
LEMMA HelperIdFacts ==
  ASSUME NEW t \in Arrays, NEW e, NEW h
  PROVE  LET id == HelperId(t, e, h) IN
         id = NoId \/ (id = created[h].id /\ \E s \in ToSet(t) : s.env = e /\ s.id = id)
  <1>1. CASE h # NULL /\ Valid(e, h) /\ FindSlot(t, e, created[h].id) # 0
    <2> DEFINE i == FindSlot(t, e, created[h].id)
    <2>1. i \in DOMAIN t /\ t[i].env = e /\ t[i].id = created[h].id
      BY <1>1, FindFacts
    <2>2. t[i] \in ToSet(t)
      BY <2>1 DEF ToSet
    <2>3. HelperId(t, e, h) = created[h].id
      BY <1>1 DEF HelperId
    <2> HIDE DEF i
    <2> QED
      BY <2>1, <2>2, <2>3
  <1>2. CASE ~(h # NULL /\ Valid(e, h) /\ FindSlot(t, e, created[h].id) # 0)
    BY <1>2 DEF HelperId
  <1> QED
    BY <1>1, <1>2

\* What is retained to look at a binding is given back.
LEMMA InspectedFacts ==
  ASSUME NEW f \in [Handles -> Nat], NEW h \in Handles \cup {NULL}
  PROVE  Inspected(f, h) = f
  <1>1. CASE h = NULL
    BY <1>1 DEF Inspected
  <1>2. CASE h # NULL
    <2>1. Keep(f, h) = [f EXCEPT ![h] = f[h] + 1] /\ h \in Handles /\ f[h] \in Nat
      BY <1>2 DEF Keep
    <2>2. Keep(f, h)[h] = f[h] + 1
      BY <2>1
    <2>3. Drop(Keep(f, h), h) = [Keep(f, h) EXCEPT ![h] = f[h]]
      BY <1>2, <2>1, <2>2 DEF Drop
    <2>4. [Keep(f, h) EXCEPT ![h] = f[h]] = f
      BY <2>1
    <2> QED
      BY <1>2, <2>3, <2>4 DEF Inspected
  <1> QED
    BY <1>1, <1>2

\* Slots that an add replaced are gone, and no other.
LEMMA SlotsReplaced ==
  ASSUME NEW t \in Arrays, NEW e, NEW previous, NEW next, NEW u,
         u = RemoveSlot(t, e, ReplacedId(previous, next)),
         \A s \in ToSet(t) : s.id # NoId,
         previous = NoId \/ (\E s \in ToSet(t) : s.env = e /\ s.id = previous)
  PROVE  /\ u \in Arrays
         /\ ToSet(u) = {s \in ToSet(t) : s.id \notin {previous} \ {NoId, next}}
  <1> DEFINE gone == ReplacedId(previous, next)
  <1>1. u \in Arrays /\ ToSet(u) = {s \in ToSet(t) : ~(s.env = e /\ s.id = gone)}
    BY RemoveFacts
  <1>2. ASSUME NEW s \in ToSet(t) PROVE (s.env = e /\ s.id = gone) <=> s.id \in {previous} \ {NoId, next}
    <2>1. CASE gone = NoId
      BY <2>1 DEF ReplacedId
    <2>2. CASE gone # NoId
      <3>1. gone = previous /\ previous # next
        BY <2>2 DEF ReplacedId
      <3>2. PICK o \in ToSet(t) : o.env = e /\ o.id = previous
        BY <2>2, <3>1
      <3>3. s.id = previous => s = o
        BY <3>2, ArrayFacts
      <3> QED
        BY <2>2, <3>1, <3>2, <3>3
    <2> QED
      BY <2>1, <2>2
  <1> QED
    BY <1>1, <1>2

LEMMA AddValueStep ==
  ASSUME Inv, NEW e \in Envs, NEW n \in Names, NEW h \in Handles, NEW replace \in BOOLEAN,
         AddValue(e, n, h, replace)
  PROVE  Inv'
  <1> DEFINE old == globals[<<e, n>>]
             previous == HelperId(slots, e, old)
             next == HelperId(slots, e, h)
             gone == {previous} \ {NoId, next}
             ok == Valid(e, h) /\ (old # NULL => replace)
  <1>1. /\ outcome'.op = "add"
        /\ UNCHANGED <<alive, nextId, created, raw, calls, held, registered, ended>>
    BY DEF AddValue, Added
  <1>4. CallsRunTheirCallback' /\ EndedDead' /\ slots \in Arrays
    BY <1>1, SlotsArray DEF CallsRunTheirCallback, EndedDead, Inv, Rest
  <1>5. Inspected(refs, old) = refs
    <2>1. refs \in [Handles -> Nat] /\ old \in Handles \cup {NULL}
      BY DEF Inv, TypeOK
    <2> QED
      BY <2>1, InspectedFacts
  <1>2. CASE ok
    <2>1. /\ refs' = Drop(Keep(refs, h), old)
          /\ globals' = [globals EXCEPT ![<<e, n>>] = h]
          /\ slots' = RemoveSlot(slots, e, ReplacedId(previous, next))
          /\ replaced' = replaced \cup gone
      BY <1>2, <1>5 DEF AddValue
    <2>2. /\ \A s \in ToSet(slots) : s.id \in Direct /\ s.id # NoId
          /\ previous = NoId \/ \E s \in ToSet(slots) : s.env = e /\ s.id = previous
      <3>1. \A s \in ToSet(slots) : s.id \in Direct
        BY <1>4, ArrayFacts DEF Slots
      <3>2. \A s \in ToSet(slots) : s.id # NoId
        BY <3>1, EnvironmentApiAssumption
      <3> QED
        BY <1>4, <3>1, <3>2, HelperIdFacts
    <2>3. slots' \in Arrays /\ ToSet(slots') = {s \in ToSet(slots) : s.id \notin gone}
      <3> HIDE DEF previous, next
      <3> QED
        BY <1>4, <2>1, <2>2, SlotsReplaced
    <2>4. gone \subseteq Direct
      BY <2>2
    <2> HIDE DEF gone
    <2>5. h \in DOMAIN created /\ created[h].env = e /\ e \in alive /\ refs[h] > 0
      BY <1>2, ValidFacts DEF Inv
    <2>6. /\ refs' \in [Handles -> Nat] /\ globals' \in [Cells -> Handles \cup {NULL}]
          /\ Unused' /\ BindingsOwn' /\ OwnershipExact'
          /\ \A i \in DOMAIN created : refs'[i] > 0 => refs[i] > 0
      <3>1. refs' = Drop(IF h = NULL THEN refs ELSE Keep(refs, h), globals[<<e, n>>])
        BY <2>1
      <3> QED
        BY <1>1, <2>1, <2>5, <3>1, BindStep
    <2>7. TypeOK'
      <3>1. slots' \in Seq(Slots)
        BY <2>3, ArrayFacts
      <3> QED
        BY <1>1, <2>1, <2>4, <2>6, <3>1 DEF Inv, TypeOK
    <2>10. \A id \in gone : id < nextId
      <3>1. ToSet(slots) \subseteq registered
        BY DEF Inv, Rest, SlotsAccountedFor
      <3> QED
        BY <2>2, <3>1 DEF gone, Inv, Rest, IdsGiven
    <2>8. IdsGiven' /\ ValuesRegistered' /\ CallsRegistered'
      BY <1>1, <2>1, <2>6, <2>10 DEF Inv, Rest, IdsGiven, ValuesRegistered, CallsRegistered, Registered
    <2>9. SlotsAccountedFor'
      <3>1. \A i, j \in DOMAIN slots' : slots'[i].id = slots'[j].id => i = j
        BY <2>3, ArrayFacts
      <3>2. ToSet(slots) = {s \in registered : s.id \notin replaced /\ s.env \notin ended}
        BY DEF Inv, Rest, SlotsAccountedFor
      <3>3. ToSet(slots') = {s \in registered' : s.id \notin replaced' /\ s.env \notin ended'}
        BY <1>1, <2>1, <2>3, <3>2
      <3> QED
        BY <3>1, <3>3 DEF SlotsAccountedFor
    <2> QED
      BY <1>4, <2>6, <2>7, <2>8, <2>9 DEF Inv, Rest
  <1>3. CASE ~ok
    <2>1. UNCHANGED <<refs, globals, slots, replaced>>
      BY <1>3, <1>5 DEF AddValue
    <2>2. TypeOK' /\ Unused' /\ BindingsOwn' /\ OwnershipExact'
      BY <1>1, <2>1 DEF Inv, TypeOK, Unused, BindingsOwn, OwnershipExact
    <2>3. IdsGiven' /\ ValuesRegistered' /\ CallsRegistered' /\ SlotsAccountedFor'
      BY <1>1, <2>1 DEF Inv, Rest, IdsGiven, ValuesRegistered, CallsRegistered, Registered,
                        SlotsAccountedFor
    <2> QED
      BY <1>4, <2>2, <2>3 DEF Inv, Rest
  <1> QED
    BY <1>2, <1>3

\* A reserved slot has an id of its own; taken back, it leaves the slots that
\* were there.
LEMMA ReservedFacts ==
  ASSUME Inv, NEW e \in Envs, NEW callback \in Callbacks, nextId \in Direct,
         NEW reserved, reserved = Append(slots, Slot(e, nextId, callback))
  PROVE  /\ slots \in Arrays /\ reserved \in Arrays
         /\ ToSet(reserved) = ToSet(slots) \cup {Slot(e, nextId, callback)}
         /\ Undone(reserved, e, nextId) = slots
         /\ \A s \in ToSet(slots) : s.id < nextId /\ s.id \in Direct
  <1> DEFINE new == Slot(e, nextId, callback)
  <1>1. slots \in Arrays
    BY SlotsArray DEF Inv, Rest
  <1>2. \A s \in ToSet(slots) : s.id < nextId /\ s.id \in Direct
    <2>1. ToSet(slots) \subseteq registered
      BY DEF Inv, Rest, SlotsAccountedFor
    <2> QED
      BY <2>1 DEF Inv, Rest, IdsGiven, TypeOK, Slots
  <1>3. new \in Slots /\ new.env = e /\ new.id = nextId
    BY DEF Slots
  <1>4. \A s \in ToSet(slots) : s.id # new.id
    BY <1>2, <1>3, EnvironmentApiAssumption
  <1> HIDE DEF new
  <1>5. /\ Append(slots, new) \in Arrays /\ ToSet(Append(slots, new)) = ToSet(slots) \cup {new}
        /\ RemoveSlot(Append(slots, new), e, nextId) = slots
    BY <1>1, <1>3, <1>4, AppendFacts
  <1> QED
    BY <1>1, <1>2, <1>5 DEF Undone, new

\* A value made counts none once its maker has released it ...
LEMMA MadeUnbound ==
  ASSUME NEW r \in [Handles -> Nat], NEW h \in Handles, r[h] = 0,
         NEW made \in [Handles -> Nat], made[h] = 1,
         \A k \in Handles \ {h} : made[k] = r[k]
  PROVE  Drop(made, h) = r
  BY DEF Drop

\* ... and one when it is bound.
LEMMA MadeBound ==
  ASSUME NEW h \in Handles, NEW old \in Handles \cup {NULL}, old # h,
         NEW made \in [Handles -> Nat], made[h] = 1
  PROVE  Drop(Drop(Keep(made, h), old), h) = Drop(made, old)
  <1>1. h # NULL
    OBVIOUS
  <1>2. Keep(made, h) = [made EXCEPT ![h] = 2]
    BY DEF Keep
  <1>3. CASE old = NULL \/ made[old] = 0
    <2>1. Drop([made EXCEPT ![h] = 2], old) = [made EXCEPT ![h] = 2] /\ Drop(made, old) = made
      BY <1>3 DEF Drop
    <2>2. Drop([made EXCEPT ![h] = 2], h) = made
      <3>1. Drop([made EXCEPT ![h] = 2], h) = [made EXCEPT ![h] = 1]
        BY <1>1 DEF Drop
      <3>2. [made EXCEPT ![h] = 1] \in [Handles -> Nat]
        OBVIOUS
      <3>3. \A k \in Handles : [made EXCEPT ![h] = 1][k] = made[k]
        OBVIOUS
      <3> QED
        BY <3>1, <3>2, <3>3
    <2> QED
      BY <1>1, <1>2, <2>1, <2>2
  <1>4. CASE old # NULL /\ made[old] # 0
    <2> DEFINE left == [made EXCEPT ![h] = 2, ![old] = made[old] - 1]
    <2>1. Drop([made EXCEPT ![h] = 2], old) = left
      BY <1>4 DEF Drop
    <2>2. Drop(made, old) = [made EXCEPT ![old] = made[old] - 1]
      BY <1>4 DEF Drop
    <2>3. left[h] = 2
      BY <1>4
    <2>4. Drop(left, h) = [left EXCEPT ![h] = 1]
      BY <1>1, <2>3 DEF Drop
    <2>5. [left EXCEPT ![h] = 1] = [made EXCEPT ![old] = made[old] - 1]
      BY <1>4
    <2> QED
      BY <1>1, <1>2, <2>1, <2>2, <2>4, <2>5
  <1> QED
    BY <1>3, <1>4

LEMMA AddCallableStep ==
  ASSUME Inv, NEW e \in Envs, NEW n \in Names, NEW callback \in Callbacks,
         NEW replace \in BOOLEAN, AddCallable(e, n, callback, replace)
  PROVE  Inv'
  <1> DEFINE h == Len(created) + 1
             c == <<e, n>>
             old == globals[c]
             new == Slot(e, nextId, callback)
             reserved == Append(slots, new)
             inspected == Inspected([refs EXCEPT ![h] = 1], old)
             previous == HelperId(reserved, e, old)
             gone == {previous} \ {NoId, nextId}
             ok == e \in alive /\ (old # NULL => replace)
  <1>1. /\ h \in Handles /\ h \notin DOMAIN created /\ refs[h] = 0 /\ held[h] = 0
        /\ Count(h) = 0 /\ \A b \in Cells : globals[b] # h
    BY FreshHandle DEF Inv, AddCallable
  <1>2. nextId \in Direct /\ nextId' = nextId + 1 /\ nextId' \in DirectBase .. DirectBase + MaxIds
    BY EnvironmentApiAssumption DEF Inv, TypeOK, AddCallable
  <1>3. /\ outcome'.op = "add" /\ UNCHANGED <<alive, raw, calls, held, ended>>
        /\ created' = IF e \in alive THEN Append(created, Value(e, nextId)) ELSE created
    BY DEF AddCallable, Added
  <1>4. /\ refs \in [Handles -> Nat] /\ held \in [Handles -> Nat]
        /\ globals \in [Cells -> Handles \cup {NULL}] /\ c \in Cells
        /\ registered \subseteq Slots /\ ended' \subseteq Envs
        /\ replaced \subseteq Direct /\ calls' \in Seq([env : Envs, id : Direct \cup {RawId}, running : BOOLEAN])
        /\ alive' \subseteq Envs /\ raw' \subseteq Envs
        /\ old \in Handles \cup {NULL} /\ old # h
    BY <1>1, <1>3 DEF Inv, TypeOK
  <1>5. /\ Len(created) \in Nat /\ DOMAIN created = 1 .. Len(created)
        /\ created \in Seq([env : Envs, id : Direct \cup {NoId, RawId}])
        /\ created' \in Seq([env : Envs, id : Direct \cup {NoId, RawId}])
        /\ Len(created') <= MaxValues /\ Len(created) <= Len(created') /\ Len(created') <= h
        /\ \A i \in DOMAIN created : i \in DOMAIN created' /\ created'[i] = created[i]
        /\ \A i \in DOMAIN created' \ DOMAIN created :
             i = h /\ e \in alive /\ created'[i] = Value(e, nextId)
        /\ e \in alive => h \in DOMAIN created' /\ created'[h] = Value(e, nextId) /\ Len(created') = h
    <2>1. /\ created \in Seq([env : Envs, id : Direct \cup {NoId, RawId}])
          /\ Len(created) < MaxValues
      BY DEF Inv, TypeOK, AddCallable
    <2>2. Value(e, nextId) \in [env : Envs, id : Direct \cup {NoId, RawId}]
      BY <1>2
    <2>3. Len(created) \in Nat /\ DOMAIN created = 1 .. Len(created) /\ h \notin DOMAIN created
      BY <2>1
    <2>4. CASE e \in alive
      <3>1. created' = Append(created, Value(e, nextId))
        BY <1>3, <2>4
      <3>2. /\ created' \in Seq([env : Envs, id : Direct \cup {NoId, RawId}])
            /\ Len(created') = h /\ DOMAIN created' = DOMAIN created \cup {h}
            /\ \A i \in DOMAIN created : created'[i] = created[i]
            /\ created'[h] = Value(e, nextId)
        BY <2>1, <2>2, <3>1, AppendProperties
      <3>3. Len(created') <= MaxValues /\ Len(created) <= Len(created') /\ Len(created') <= h
        BY <2>1, <2>3, <3>2, EnvironmentApiAssumption
      <3>4. \A i \in DOMAIN created' \ DOMAIN created :
              i = h /\ e \in alive /\ created'[i] = Value(e, nextId)
        BY <2>4, <3>2
      <3> HIDE DEF Value, h
      <3> QED
        BY <2>1, <2>3, <2>4, <3>2, <3>3, <3>4
    <2>5. CASE e \notin alive
      <3>1. created' = created
        BY <1>3, <2>5
      <3>2. Len(created') <= MaxValues /\ Len(created) <= Len(created') /\ Len(created') <= h
        BY <2>1, <2>3, <3>1, EnvironmentApiAssumption
      <3> HIDE DEF Value, h
      <3> QED
        BY <2>1, <2>3, <2>5, <3>1, <3>2
    <2> QED
      BY <2>4, <2>5
  <1>6. \A k \in Handles : refs[k] = held[k] + Count(k) /\ Count(k) \in Nat
    BY CountNat DEF Inv, OwnershipExact, Count, Holders
  <1>7. \A b \in Cells : globals[b] # NULL =>
          globals[b] \in DOMAIN created /\ created'[globals[b]] = created[globals[b]]
    BY <1>4, <1>5 DEF Inv, BindingsOwn
  <1>11. \A i \in DOMAIN created' : created'[i].id \in Direct => created'[i].id < nextId + 1
    <2> SUFFICES ASSUME NEW i \in DOMAIN created', created'[i].id \in Direct
                 PROVE  created'[i].id < nextId + 1
      OBVIOUS
    <2>1. CASE i \in DOMAIN created
      <3>1. created'[i] = created[i]
        BY <1>5, <2>1
      <3>2. created[i].id < nextId /\ created[i].id \in Nat
        BY <2>1, <3>1 DEF Inv, Rest, IdsGiven
      <3> QED
        BY <1>2, <3>1, <3>2
    <2>2. CASE i \notin DOMAIN created
      <3>1. created'[i].id = nextId
        BY <1>5, <2>2 DEF Value
      <3> QED
        BY <1>2, <3>1
    <2> QED
      BY <2>1, <2>2
  <1>12. /\ slots \in Arrays /\ reserved \in Arrays
         /\ ToSet(reserved) = ToSet(slots) \cup {new} /\ Undone(reserved, e, nextId) = slots
         /\ \A s \in ToSet(slots) : s.id < nextId /\ s.id \in Direct
    BY <1>2, ReservedFacts
  <1>13. /\ [refs EXCEPT ![h] = 1] \in [Handles -> Nat]
         /\ inspected = [refs EXCEPT ![h] = 1]
         /\ MadeReleased(Drop(Keep(inspected, h), old), h) = Drop([refs EXCEPT ![h] = 1], old)
         /\ MadeReleased(inspected, h) = refs
    <2> DEFINE made == [refs EXCEPT ![h] = 1]
    <2>1. /\ made \in [Handles -> Nat] /\ Drop(Drop(Keep(made, h), old), h) = Drop(made, old)
          /\ Drop(made, h) = refs
      <3>1. /\ refs \in [Handles -> Nat] /\ h \in Handles /\ old \in Handles \cup {NULL} /\ old # h
            /\ refs[h] = 0
        BY <1>1, <1>4
      <3>2. made \in [Handles -> Nat] /\ made[h] = 1 /\ \A k \in Handles \ {h} : made[k] = refs[k]
        BY <1>1, <1>4
      <3> HIDE DEF h, old, made, Handles, NULL
      <3>3. Drop(made, h) = refs
        BY ONLY <3>1, <3>2, MadeUnbound, Zenon
      <3>4. Drop(Drop(Keep(made, h), old), h) = Drop(made, old)
        BY ONLY <3>1, <3>2, MadeBound, Zenon
      <3> QED
        BY ONLY <3>2, <3>3, <3>4
    <2>2. inspected = made
      <3>1. inspected = Inspected(made, old) /\ old \in Handles \cup {NULL}
        BY <1>4
      <3> HIDE DEF made, old, inspected
      <3> QED
        BY <2>1, <3>1, InspectedFacts
    <2> HIDE DEF made, inspected, old, h
    <2> QED
      BY <2>1, <2>2 DEF MadeReleased, made
  <1>14. CallsRunTheirCallback' /\ EndedDead'
    BY <1>3 DEF CallsRunTheirCallback, EndedDead, Inv, Rest
  <1>8. CASE ok
    <2> DEFINE f == [refs EXCEPT ![h] = 1]
    <2>1. /\ refs' = Drop(f, old)
          /\ globals' = [globals EXCEPT ![c] = h]
          /\ slots' = RemoveSlot(reserved, e, ReplacedId(previous, nextId))
          /\ registered' = registered \cup {new}
          /\ replaced' = replaced \cup gone
      BY <1>8, <1>13 DEF AddCallable
    <2>2. /\ slots' \in Arrays /\ ToSet(slots') = {s \in ToSet(reserved) : s.id \notin gone}
          /\ gone \subseteq Direct /\ nextId \notin gone
      <3>1. \A s \in ToSet(reserved) : s.id \in Direct
        BY <1>2, <1>12
      <3>2. \A s \in ToSet(reserved) : s.id # NoId
        BY <3>1, EnvironmentApiAssumption
      <3>3. previous = NoId \/ \E s \in ToSet(reserved) : s.env = e /\ s.id = previous
        <4> HIDE DEF old, new, reserved
        <4> QED
          BY <1>12, HelperIdFacts
      <3> HIDE DEF previous, reserved
      <3> QED
        BY <1>12, <2>1, <3>1, <3>2, <3>3, SlotsReplaced
    <2>3. old \in Handles \cup {NULL} /\ old # h
      BY <1>4
    <2>4. f \in [Handles -> Nat] /\ refs' = Drop(f, old)
      BY <1>13, <2>1
    <2>5. \A k \in Handles : f[k] = held'[k] + Count(k) + (IF h = k THEN 1 ELSE 0)
      <3> SUFFICES ASSUME NEW k \in Handles
                   PROVE  f[k] = held'[k] + Count(k) + (IF h = k THEN 1 ELSE 0)
        OBVIOUS
      <3>1. CASE k = h
        BY <1>1, <1>3, <1>4, <3>1
      <3>2. CASE k # h
        BY <1>3, <1>4, <1>6, <3>2
      <3> QED
        BY <3>1, <3>2
    <2>6. OwnershipExact' /\ refs' \in [Handles -> Nat]
      <3>1. /\ h \in Handles \cup {NULL} /\ globals' = [globals EXCEPT ![c] = h]
            /\ held' \in [Handles -> Nat] /\ refs' = Drop(f, globals[c])
        BY <1>1, <1>3, <1>4, <2>1, <2>4
      <3>2. TypeOK /\ c \in Cells /\ f \in [Handles -> Nat]
        BY <1>4, <2>4 DEF Inv
      <3> HIDE DEF f, c, h
      <3> QED
        BY <2>5, <3>1, <3>2, Rebound
    <2>7. \A k \in Handles : k # h /\ refs'[k] > 0 => refs[k] > 0
      <3>1. \A k \in Handles : refs'[k] > 0 => f[k] > 0
        BY <2>3, <2>4 DEF Drop
      <3> QED
        BY <1>4, <3>1
    <2>8. TypeOK'
      <3>1. slots' \in Seq(Slots)
        BY <2>2, ArrayFacts
      <3>2. globals' \in [Cells -> Handles \cup {NULL}]
        BY <1>1, <1>4, <2>1
      <3>3. registered' \subseteq Slots /\ replaced' \subseteq Direct
        <4>1. new \in Slots
          BY <1>2 DEF Slots
        <4> HIDE DEF new, gone
        <4> QED
          BY <1>4, <2>1, <2>2, <4>1
      <3> QED
        BY <1>2, <1>3, <1>4, <1>5, <2>6, <3>1, <3>2, <3>3 DEF TypeOK
    <2>9. Unused'
      <3> SUFFICES ASSUME NEW k \in Handles, k > Len(created')
                   PROVE  refs'[k] = 0 /\ held'[k] = 0
        BY DEF Unused
      <3>1. k > Len(created) /\ k # h
        BY <1>5, <1>8
      <3>2. refs[k] = 0 /\ held[k] = 0
        BY <3>1 DEF Inv, Unused
      <3> QED
        BY <1>3, <2>6, <2>7, <3>1, <3>2
    <2>10. BindingsOwn'
      <3> SUFFICES ASSUME NEW b \in Cells, globals'[b] # NULL
                   PROVE  /\ globals'[b] <= Len(created')
                          /\ created'[globals'[b]].env = b[1] /\ b[1] \in alive'
        BY DEF BindingsOwn
      <3>1. CASE b = c
        BY <1>3, <1>4, <1>5, <1>8, <2>1, <3>1
      <3>2. CASE b # c
        <4>1. globals'[b] = globals[b]
          BY <1>4, <2>1, <3>2
        <4>2. /\ globals[b] <= Len(created) /\ created[globals[b]].env = b[1]
              /\ b[1] \in alive /\ globals[b] \in DOMAIN created
              /\ created'[globals[b]] = created[globals[b]]
          BY <1>7, <4>1 DEF Inv, BindingsOwn
        <4> QED
          BY <1>3, <1>5, <4>1, <4>2
      <3> QED
        BY <3>1, <3>2
    <2>11. IdsGiven'
      <3>1. \A i \in DOMAIN calls : calls[i].id \in Direct => calls[i].id < nextId + 1
        BY <1>2 DEF Inv, Rest, IdsGiven
      <3>2. \A s \in registered' : s.id < nextId + 1
        <4>1. \A s \in registered : s.id \in Direct /\ s.id < nextId
          BY <1>4 DEF Inv, Rest, IdsGiven, Slots
        <4> QED
          BY <1>2, <2>1, <4>1
      <3>3. \A id \in replaced' : id < nextId + 1
        <4>1. \A s \in ToSet(reserved) : s.id < nextId + 1
          BY <1>2, <1>12
        <4>2. \A id \in gone : id < nextId + 1
          <5>1. previous = NoId \/ \E s \in ToSet(reserved) : s.env = e /\ s.id = previous
            <6> HIDE DEF old, new, reserved
            <6> QED
              BY <1>12, HelperIdFacts
          <5> HIDE DEF previous, reserved
          <5> QED
            BY <4>1, <5>1
        <4>3. \A id \in replaced : id < nextId + 1
          BY <1>2, <1>4 DEF Inv, Rest, IdsGiven
        <4> HIDE DEF gone
        <4> QED
          BY <2>1, <4>2, <4>3
      <3> QED
        BY <1>2, <1>3, <1>11, <3>1, <3>2, <3>3 DEF IdsGiven
    <2>12. \A a, id : Registered(a, id) => Registered(a, id)'
      BY <2>1 DEF Registered
    <2>13. ValuesRegistered'
      <3> SUFFICES ASSUME NEW i \in DOMAIN created', refs'[i] > 0
                   PROVE  Registered(created[i].env, created[i].id)'
        BY DEF ValuesRegistered
      <3>1. CASE i \in DOMAIN created
        <4>1. i \in Handles /\ i # h
          BY <1>1, <1>5, <3>1, EnvironmentApiAssumption
        <4>2. Registered(created[i].env, created[i].id)
          BY <2>7, <3>1, <4>1 DEF Inv, Rest, ValuesRegistered
        <4>3. created'[i] = created[i]
          BY <1>5, <3>1
        <4> QED
          BY <2>12, <4>2, <4>3 DEF Registered
      <3>2. CASE i \notin DOMAIN created
        <4>1. created'[i].env = e /\ created'[i].id = nextId
          BY <1>5, <3>2
        <4>2. new \in registered' /\ new.env = e /\ new.id = nextId
          BY <2>1
        <4> QED
          BY <4>1, <4>2 DEF Registered
      <3> QED
        BY <3>1, <3>2
    <2>14. CallsRegistered'
      <3> SUFFICES ASSUME NEW i \in DOMAIN calls PROVE Registered(calls[i].env, calls[i].id)'
        BY <1>3 DEF CallsRegistered
      <3>1. Registered(calls[i].env, calls[i].id)
        BY DEF Inv, Rest, CallsRegistered
      <3> QED
        BY <1>3, <2>1, <3>1 DEF Registered
    <2>15. SlotsAccountedFor'
      <3>1. \A i, j \in DOMAIN slots' : slots'[i].id = slots'[j].id => i = j
        BY <2>2, ArrayFacts
      <3>2. ToSet(slots) = {s \in registered : s.id \notin replaced /\ s.env \notin ended}
        BY DEF Inv, Rest, SlotsAccountedFor
      <3>3. e \notin ended /\ new.env = e /\ new.id = nextId
        BY <1>8 DEF Inv, Rest, EndedDead
      <3>4. nextId \notin replaced
        BY <1>2, EnvironmentApiAssumption DEF Inv, Rest, IdsGiven
      <3>5. ToSet(slots') = {s \in registered' : s.id \notin replaced' /\ s.env \notin ended'}
        <4> HIDE DEF gone, new
        <4> QED
          BY <1>3, <1>12, <2>1, <2>2, <3>2, <3>3, <3>4
      <3> QED
        BY <3>1, <3>5 DEF SlotsAccountedFor
    <2> QED
      BY <1>14, <2>6, <2>8, <2>9, <2>10, <2>11, <2>13, <2>14, <2>15 DEF Inv, Rest
  <1>9. CASE ~ok
    <2>1. UNCHANGED <<slots, refs, globals, registered, replaced>>
      BY <1>9, <1>12, <1>13 DEF AddCallable
    <2>2. TypeOK'
      BY <1>2, <1>3, <1>4, <1>5, <2>1 DEF Inv, TypeOK
    <2>3. Unused'
      BY <1>3, <1>5, <2>1 DEF Inv, Unused
    <2>4. BindingsOwn'
      BY <1>3, <1>4, <1>5, <1>7, <2>1 DEF Inv, BindingsOwn
    <2>5. OwnershipExact'
      BY <1>3, <2>1 DEF Inv, OwnershipExact
    <2>6. IdsGiven'
      <3>1. \A i \in DOMAIN calls : calls[i].id \in Direct => calls[i].id < nextId + 1
        BY <1>2 DEF Inv, Rest, IdsGiven
      <3>2. \A s \in registered : s.id < nextId + 1
        <4>1. \A s \in registered : s.id \in Direct /\ s.id < nextId
          BY <1>4 DEF Inv, Rest, IdsGiven, Slots
        <4> QED
          BY <1>2, <4>1
      <3>3. \A id \in replaced : id < nextId + 1
        BY <1>2, <1>4 DEF Inv, Rest, IdsGiven
      <3> QED
        BY <1>2, <1>3, <1>11, <2>1, <3>1, <3>2, <3>3 DEF IdsGiven
    <2>7. ValuesRegistered' /\ CallsRegistered'
      BY <1>1, <1>3, <1>5, <2>1 DEF Inv, Rest, ValuesRegistered, CallsRegistered, Registered
    <2>8. SlotsAccountedFor'
      BY <1>3, <2>1 DEF Inv, Rest, SlotsAccountedFor
    <2> QED
      BY <1>14, <2>2, <2>3, <2>4, <2>5, <2>6, <2>7, <2>8 DEF Inv, Rest
  <1> QED
    BY <1>8, <1>9

(***************************************************************************)
(* Calls.                                                                  *)
(***************************************************************************)
\* A step that only changes the calls in progress.
LEMMA CallsStep ==
  ASSUME Inv, UNCHANGED <<alive, table, values, raw, history>>,
         calls' \in Seq([env : Envs, id : Direct \cup {RawId}, running : BOOLEAN]),
         CallsRegistered',
         \A i \in DOMAIN calls' : calls'[i].id \in Direct => calls'[i].id < nextId,
         CallsRunTheirCallback'
  PROVE  Inv'
  <1>1. UNCHANGED <<alive, slots, nextId, created, refs, globals, raw, held, registered, replaced, ended>>
    BY DEF table, values, history
  <1>2. TypeOK' /\ Unused' /\ BindingsOwn'
    BY <1>1 DEF Inv, TypeOK, Unused, BindingsOwn
  <1>3. OwnershipExact'
    BY <1>1 DEF Inv, OwnershipExact
  <1>4. IdsGiven' /\ ValuesRegistered' /\ EndedDead'
    BY <1>1 DEF Inv, Rest, IdsGiven, ValuesRegistered, Registered, EndedDead
  <1>5. SlotsAccountedFor'
    BY <1>1 DEF Inv, Rest, SlotsAccountedFor
  <1> QED
    BY <1>2, <1>3, <1>4, <1>5 DEF Inv, Rest

LEMMA ResolveCallStep ==
  ASSUME Inv, NEW e \in Envs, NEW n \in Names, ResolveCall(e, n)
  PROVE  Inv'
  <1> DEFINE h == globals[<<e, n>>]
             call == Call(e, created[h].id, FALSE)
  <1>1. h \in Handles \cup {NULL} /\ Valid(e, h)
    BY DEF Inv, TypeOK, ResolveCall
  <1>2. /\ calls' = Append(calls, call) /\ outcome' = Quiet /\ created[h].id # NoId
        /\ UNCHANGED <<alive, table, values, raw, history>>
    BY DEF ResolveCall
  <1>3. h \in Handles /\ h \in DOMAIN created /\ refs[h] > 0 /\ created[h].env = e
    <2> HIDE DEF h
    <2> QED
      BY <1>1, ValidFacts DEF Inv
  <1>4. created[h].id \in Direct \cup {RawId}
    <2>1. created \in Seq([env : Envs, id : Direct \cup {NoId, RawId}])
      BY DEF Inv, TypeOK
    <2> DEFINE T == [env : Envs, id : Direct \cup {NoId, RawId}]
    <2>2. created[h] \in T
      <3>1. created \in Seq(T) /\ h \in DOMAIN created
        BY <1>3, <2>1
      <3> HIDE DEF T, h
      <3> QED
        BY <3>1, ElementOfSeq, LenProperties
    <2>3. created[h].id \in Direct \cup {NoId, RawId}
      BY <2>2
    <2>4. created[h].id # NoId
      BY <1>2 DEF h
    <2> QED
      BY <2>3, <2>4
  <1>5. call \in [env : Envs, id : Direct \cup {RawId}, running : BOOLEAN]
    BY <1>4
  <1>6. /\ calls' \in Seq([env : Envs, id : Direct \cup {RawId}, running : BOOLEAN])
        /\ \A i \in DOMAIN calls' : calls'[i] = call \/ (i \in DOMAIN calls /\ calls'[i] = calls[i])
    <2>1. calls \in Seq([env : Envs, id : Direct \cup {RawId}, running : BOOLEAN])
      BY DEF Inv, TypeOK
    <2> HIDE DEF call
    <2> QED
      BY <1>2, <1>5, <2>1, AppendProperties
  <1>7. Registered(call.env, call.id) /\ (call.id \in Direct => call.id < nextId)
    BY <1>3 DEF Inv, Rest, ValuesRegistered, IdsGiven
  <1>8. UNCHANGED <<alive, slots, registered, replaced, ended, nextId>>
    BY <1>2 DEF table, history
  <1>9. \A i \in DOMAIN calls' : calls'[i].id \in Direct => calls'[i].id < nextId
    BY <1>6, <1>7 DEF Inv, Rest, IdsGiven
  <1>10. CallsRegistered'
    BY <1>6, <1>7, <1>8 DEF Inv, Rest, CallsRegistered, Registered
  <1>11. CallsRunTheirCallback'
    BY <1>2 DEF CallsRunTheirCallback, Quiet
  <1> QED
    BY <1>2, <1>6, <1>9, <1>10, <1>11, CallsStep

LEMMA FrontFacts ==
  ASSUME Inv, calls # <<>>
  PROVE  /\ Front(calls) \in Seq([env : Envs, id : Direct \cup {RawId}, running : BOOLEAN])
         /\ \A i \in DOMAIN Front(calls) : i \in DOMAIN calls /\ Front(calls)[i] = calls[i]
  <1> DEFINE T == [env : Envs, id : Direct \cup {RawId}, running : BOOLEAN]
  <1>1. calls \in Seq(T)
    BY DEF Inv, TypeOK
  <1> HIDE DEF T
  <1>2. /\ Front(calls) \in Seq(T) /\ Len(Front(calls)) = Len(calls) - 1
        /\ Len(calls) \in Nat /\ Len(calls) > 0
        /\ \A i \in 1 .. Len(calls) - 1 : Front(calls)[i] = calls[i]
    BY <1>1, TopFacts
  <1>3. DOMAIN Front(calls) = 1 .. Len(calls) - 1 /\ DOMAIN calls = 1 .. Len(calls)
    BY <1>1, <1>2, LenProperties
  <1> QED
    BY <1>2, <1>3 DEF T

\* The newest call ends, and leaves the others.
LEMMA CallLeaves ==
  ASSUME Inv, calls # <<>>, calls' = Front(calls), CallsRunTheirCallback',
         UNCHANGED <<alive, table, values, raw, history>>
  PROVE  Inv'
  <1>1. UNCHANGED <<alive, slots, registered, replaced, ended, nextId>>
    BY DEF table, history
  <1>2. /\ calls' \in Seq([env : Envs, id : Direct \cup {RawId}, running : BOOLEAN])
        /\ \A i \in DOMAIN calls' : i \in DOMAIN calls /\ calls'[i] = calls[i]
    BY FrontFacts
  <1>3. \A i \in DOMAIN calls' : calls'[i].id \in Direct => calls'[i].id < nextId
    BY <1>2 DEF Inv, Rest, IdsGiven
  <1>4. CallsRegistered'
    BY <1>1, <1>2 DEF Inv, Rest, CallsRegistered, Registered
  <1> QED
    BY <1>2, <1>3, <1>4, CallsStep

LEMMA CallEndsStep ==
  ASSUME Inv, CallEnds
  PROVE  Inv'
  <1>1. CallsRunTheirCallback'
    BY DEF CallEnds, CallsRunTheirCallback, Quiet
  <1> QED
    BY <1>1, CallLeaves DEF CallEnds

LEMMA DispatchStep ==
  ASSUME Inv, Dispatch
  PROVE  Inv'
  <1> DEFINE call == Last(calls)
  <1>1. calls # <<>> /\ call.env \in alive /\ UNCHANGED <<alive, table, values, raw, history>>
    BY DEF Dispatch
  <1>2. UNCHANGED <<alive, slots, registered, replaced, ended, nextId>>
    BY <1>1 DEF table, history
  <1>3. /\ calls \in Seq([env : Envs, id : Direct \cup {RawId}, running : BOOLEAN])
        /\ Len(calls) \in DOMAIN calls /\ call = calls[Len(calls)]
    <2>1. calls \in Seq([env : Envs, id : Direct \cup {RawId}, running : BOOLEAN])
      BY DEF Inv, TypeOK
    <2>2. Len(calls) \in Nat /\ Len(calls) > 0
      BY <1>1, <2>1, EmptySeq, LenProperties
    <2> QED
      BY <2>1, <2>2 DEF Last
  <1>4. Registered(call.env, call.id) /\ slots \in Arrays
    BY <1>3, SlotsArray DEF Inv, Rest, CallsRegistered
  <1>9. ToSet(slots) = {s \in registered : s.id \notin replaced /\ s.env \notin ended}
    BY DEF Inv, Rest, SlotsAccountedFor
  <1>10. ASSUME Found(call) = 0 PROVE call.id \notin Direct \ replaced
    <2>1. \A s \in ToSet(slots) : ~(s.env = call.env /\ s.id = call.id)
      <3> HIDE DEF call
      <3> QED
        BY <1>4, <1>10, FindFacts DEF Found
    <2>2. call.env \notin ended
      BY <1>1 DEF Inv, Rest, EndedDead
    <2> HIDE DEF call
    <2> QED
      BY <1>4, <1>9, <2>1, <2>2 DEF Registered
  <1>5. ASSUME NEW ran, Run(call, ran),
               IF call.id \in Direct \ replaced
               THEN Slot(call.env, call.id, ran) \in registered ELSE ran = "raw"
        PROVE  Inv'
    <2>1. /\ calls' = [calls EXCEPT ![Len(calls)] = Call(call.env, call.id, TRUE)]
          /\ outcome' = Ran(call, ran)
      BY <1>5 DEF Run
    <2>2. /\ calls' \in Seq([env : Envs, id : Direct \cup {RawId}, running : BOOLEAN])
          /\ DOMAIN calls' = DOMAIN calls
          /\ \A i \in DOMAIN calls : calls'[i].env = calls[i].env /\ calls'[i].id = calls[i].id
      <3> DEFINE T == [env : Envs, id : Direct \cup {RawId}, running : BOOLEAN]
                 started == Call(call.env, call.id, TRUE)
      <3>1. /\ started \in T /\ started.env = calls[Len(calls)].env
            /\ started.id = calls[Len(calls)].id
        <4>1. calls[Len(calls)] \in T
          <5>1. calls \in Seq(T) /\ Len(calls) \in 1 .. Len(calls)
            BY <1>3
          <5> HIDE DEF T
          <5> QED
            BY <5>1, ElementOfSeq
        <4> QED
          BY <1>3, <4>1
      <3>2. calls' = [calls EXCEPT ![Len(calls)] = started]
        BY <2>1
      <3>3. calls \in Seq(T)
        BY <1>3
      <3> HIDE DEF T, started
      <3>4. calls' \in Seq(T)
        BY <1>3, <3>1, <3>2, <3>3, ExceptSeq
      <3>5. /\ DOMAIN calls' = DOMAIN calls
            /\ \A i \in DOMAIN calls : calls'[i] = IF i = Len(calls) THEN started ELSE calls[i]
        BY <3>2
      <3> QED
        BY <3>1, <3>4, <3>5 DEF T
    <2>3. \A i \in DOMAIN calls' : calls'[i].id \in Direct => calls'[i].id < nextId
      BY <2>2 DEF Inv, Rest, IdsGiven
    <2>4. CallsRegistered'
      BY <1>2, <2>2 DEF Inv, Rest, CallsRegistered, Registered
    <2>5. CallsRunTheirCallback'
      <3>1. /\ outcome'.op = "run" /\ outcome'.env = call.env /\ outcome'.id = call.id
            /\ outcome'.ran = ran
        BY <2>1 DEF Ran
      <3> HIDE DEF call
      <3> QED
        BY <1>2, <1>5, <3>1 DEF CallsRunTheirCallback
    <2> QED
      BY <1>1, <2>2, <2>3, <2>4, <2>5, CallsStep
  <1>6. CASE Found(call) # 0 /\ Run(call, slots[Found(call)].callback)
    <2> DEFINE s == slots[Found(call)]
    <2>1. s \in ToSet(slots) /\ s \in Slots /\ s.env = call.env /\ s.id = call.id
      <3>1. /\ Found(call) \in DOMAIN slots /\ s.env = call.env /\ s.id = call.id
        <4> HIDE DEF call
        <4> QED
          BY <1>4, <1>6, FindFacts DEF Found
      <3> QED
        BY <1>4, <3>1, ArrayFacts
    <2>2. s = Slot(call.env, call.id, s.callback) /\ call.id \in Direct
      BY <2>1 DEF Slots
    <2>3. Slot(call.env, call.id, s.callback) \in registered /\ call.id \notin replaced
      BY <1>9, <2>1, <2>2
    <2> HIDE DEF call
    <2> QED
      BY <1>5, <1>6, <2>2, <2>3
  <1>7. CASE Found(call) = 0 /\ call.env \in raw /\ Run(call, "raw")
    <2> HIDE DEF call
    <2> QED
      BY <1>5, <1>7, <1>10
  <1>8. CASE Found(call) = 0 /\ Refuse(call)
    <2>1. calls' = Front(calls) /\ outcome'.op = "refused" /\ outcome'.id = call.id
      BY <1>8 DEF Refuse, Refused
    <2>2. CallsRunTheirCallback'
      BY <1>2, <1>8, <1>10, <2>1 DEF CallsRunTheirCallback
    <2> QED
      BY <1>1, <2>1, <2>2, CallLeaves
  <1> QED
    BY <1>6, <1>7, <1>8 DEF Dispatch

(***************************************************************************)
(* The theorems.                                                           *)
(***************************************************************************)
LEMMA InvNext == Inv /\ [Next]_vars => Inv'
  <1> SUFFICES ASSUME Inv, [Next]_vars PROVE Inv'
    OBVIOUS
  <1>1. ASSUME NEW e \in Envs, NEW id \in {NoId, RawId}, ValueFrom(e, id) PROVE Inv'
    BY <1>1, ValueFromStep
  <1>2. ASSUME NEW e \in Envs, NEW h \in Handles, Release(e, h) PROVE Inv'
    BY <1>2, ReleaseStep
  <1>3. ASSUME NEW e \in Envs, NEW n \in Names, GetGlobal(e, n) PROVE Inv'
    BY <1>3, GetGlobalStep
  <1>4. ASSUME NEW e \in Envs, NEW n \in Names, DeleteGlobal(e, n) PROVE Inv'
    BY <1>4, DeleteGlobalStep
  <1>5. ASSUME NEW e \in Envs, NEW n \in Names, ResolveCall(e, n) PROVE Inv'
    BY <1>5, ResolveCallStep
  <1>6. ASSUME NEW e \in Envs, NEW n \in Names, NEW h \in Handles, SetGlobal(e, n, h) PROVE Inv'
    BY <1>6, SetGlobalStep
  <1>7. ASSUME NEW e \in Envs, NEW n \in Names, NEW replace \in BOOLEAN,
               NEW h \in Handles, AddValue(e, n, h, replace)
        PROVE  Inv'
    BY <1>7, AddValueStep
  <1>8. ASSUME NEW e \in Envs, NEW n \in Names, NEW replace \in BOOLEAN,
               NEW callback \in Callbacks, AddCallable(e, n, callback, replace)
        PROVE  Inv'
    BY <1>8, AddCallableStep
  <1>9. ASSUME NEW e \in Envs, SetHandler(e) \/ RuntimeDestroy(e) \/ Destroy(e) PROVE Inv'
    BY <1>9, SetHandlerStep, RuntimeDestroyStep, DestroyStep
  <1>10. CASE Dispatch
    BY <1>10, DispatchStep
  <1>11. CASE CallEnds
    BY <1>11, CallEndsStep
  <1>12. CASE UNCHANGED vars
    <2>1. UNCHANGED <<alive, table, values, raw, calls, history, outcome>>
      BY <1>12 DEF vars
    <2>2. UNCHANGED <<alive, slots, nextId, created, refs, globals, raw, calls, held, registered, replaced, ended, outcome>>
      BY <2>1 DEF table, values, history
    <2>3. TypeOK' /\ Unused' /\ BindingsOwn' /\ OwnershipExact'
      BY <2>2 DEF Inv, TypeOK, Unused, BindingsOwn, OwnershipExact
    <2>4. IdsGiven' /\ ValuesRegistered' /\ CallsRegistered' /\ EndedDead'
      BY <2>2 DEF Inv, Rest, IdsGiven, ValuesRegistered, CallsRegistered, Registered, EndedDead
    <2>5. SlotsAccountedFor' /\ CallsRunTheirCallback'
      BY <2>2 DEF Inv, Rest, SlotsAccountedFor, CallsRunTheirCallback
    <2> QED
      BY <2>3, <2>4, <2>5 DEF Inv, Rest
  <1> QED
    BY <1>1, <1>2, <1>3, <1>4, <1>5, <1>6, <1>7, <1>8, <1>9, <1>10, <1>11, <1>12 DEF Next

\* The invariant of the environment helpers holds in every reachable state.
THEOREM Invariant == Spec => []Inv
  BY InvInit, InvNext, PTL DEF Spec

\* Every table stays well formed, whatever the helpers and the fine-grained
\* calls do, in whichever order and from whichever callback.
THEOREM TypeCorrect == Spec => []TypeOK
  BY Invariant, PTL DEF Inv

\* The helpers leave no reference behind and take none they do not own: a
\* value's count is what the host holds plus the names bound to it.
THEOREM ReferencesExact == Spec => []OwnershipExact
  BY Invariant, PTL DEF Inv

\* The array of callbacks holds exactly the slots of the adds that succeeded,
\* without those an add has replaced and those of environments given to
\* portapy_destroy, whichever holes its removals filled in which order.
THEOREM SlotsExact == Spec => []SlotsAccountedFor
  BY Invariant, PTL DEF Inv, Rest

\* A name bound to a direct callable whose id no add has replaced has its own
\* callback's slot, so calling the name finds it.
THEOREM NamesReach == Spec => []UnreplacedNamesReachTheirCallback
  <1>1. Inv => UnreplacedNamesReachTheirCallback
    <2> SUFFICES ASSUME Inv, NEW e \in alive, NEW n \in Names, IdOf(e, n) \in Direct \ replaced
                 PROVE  Reachable(e, IdOf(e, n))
      BY DEF UnreplacedNamesReachTheirCallback
    <2> DEFINE c == <<e, n>>
               h == globals[c]
    <2>1. c \in Cells /\ h \in Handles \cup {NULL}
      BY DEF Inv, TypeOK
    <2>2. h # NULL /\ IdOf(e, n) = created[h].id
      BY EnvironmentApiAssumption DEF IdOf
    <2>3. h \in DOMAIN created /\ created[h].env = e
      BY <2>1, <2>2 DEF Inv, TypeOK, BindingsOwn
    <2>4. refs[h] > 0
      <3>1. refs[h] = held[h] + Cardinality(Holders(Cells, globals, h)) /\ held[h] \in Nat
        BY <2>1, <2>2 DEF Inv, OwnershipExact, TypeOK, Holders
      <3>2. IsFiniteSet(Holders(Cells, globals, h)) /\ c \in Holders(Cells, globals, h)
        BY <2>1, CellsFinite, FS_Subset DEF Holders
      <3> HIDE DEF Cells, h, c
      <3>3. Cardinality(Holders(Cells, globals, h)) \in Nat /\ Cardinality(Holders(Cells, globals, h)) > 0
        BY <3>2, CountUpdate
      <3> QED
        BY <3>1, <3>3
    <2>5. Registered(e, created[h].id)
      BY <2>3, <2>4 DEF Inv, Rest, ValuesRegistered
    <2>6. e \notin ended
      BY DEF Inv, Rest, EndedDead
    <2>7. ToSet(slots) = {s \in registered : s.id \notin replaced /\ s.env \notin ended}
      BY DEF Inv, Rest, SlotsAccountedFor
    <2> HIDE DEF h
    <2> QED
      BY <2>2, <2>5, <2>6, <2>7 DEF Registered, Reachable
  <1> QED
    BY <1>1, Invariant, PTL

\* A call of a direct callable that no add has replaced is never refused and
\* runs the callback registered for it, though the callbacks of its arguments
\* may have rebound or deleted the name in between; one that an add has
\* replaced is never given another's direct callback.
THEOREM CallsRunOwn == Spec => []CallsRunTheirCallback
  BY Invariant, PTL DEF Inv, Rest

\* An add that fails changes nothing but the ids and values it used up.
THEOREM FailedAdds == Spec => FailedAddChangesNothing
  <1>1. Inv /\ [Next]_vars =>
          [outcome'.op = "add" /\ ~outcome'.ok =>
             UNCHANGED <<slots, refs, globals, alive, held>>]_vars
    <2> SUFFICES ASSUME Inv, Next, outcome'.op = "add", ~outcome'.ok
                 PROVE  UNCHANGED <<slots, refs, globals, alive, held>>
      OBVIOUS
    <2>1. ASSUME NEW e \in Envs, NEW n \in Names, NEW replace \in BOOLEAN,
                 NEW h \in Handles, AddValue(e, n, h, replace)
          PROVE  UNCHANGED <<slots, refs, globals, alive, held>>
      <3>1. refs \in [Handles -> Nat] /\ globals[<<e, n>>] \in Handles \cup {NULL}
        BY DEF Inv, TypeOK
      <3>2. Inspected(refs, globals[<<e, n>>]) = refs
        BY <3>1, InspectedFacts
      <3> QED
        BY <2>1, <3>2 DEF AddValue, Added
    <2>2. ASSUME NEW e \in Envs, NEW n \in Names, NEW replace \in BOOLEAN,
                 NEW callback \in Callbacks, AddCallable(e, n, callback, replace)
          PROVE  UNCHANGED <<slots, refs, globals, alive, held>>
      <3> DEFINE h == Len(created) + 1
                 old == globals[<<e, n>>]
                 made == [refs EXCEPT ![h] = 1]
      <3>1. /\ h \in Handles /\ refs[h] = 0 /\ refs \in [Handles -> Nat]
            /\ old \in Handles \cup {NULL} /\ old # h /\ nextId \in Direct
        <4>1. Len(created) < MaxValues /\ nextId < DirectBase + MaxIds /\ nextId \in DirectBase .. DirectBase + MaxIds
          BY <2>2 DEF Inv, TypeOK, AddCallable
        <4>2. h \in Handles /\ refs[h] = 0 /\ \A b \in Cells : globals[b] # h
          BY <4>1, FreshHandle DEF Inv
        <4>3. nextId \in Direct
          BY <4>1, EnvironmentApiAssumption
        <4> QED
          BY <4>2, <4>3 DEF Inv, TypeOK
      <3>2. MadeReleased(Inspected(made, old), h) = refs
        <4>1. made \in [Handles -> Nat] /\ made[h] = 1 /\ \A k \in Handles \ {h} : made[k] = refs[k]
          BY <3>1
        <4> HIDE DEF h, old, made, Handles, NULL
        <4>2. Drop(made, h) = refs
          BY ONLY <3>1, <4>1, MadeUnbound, Zenon
        <4> QED
          BY <3>1, <4>1, <4>2, InspectedFacts DEF MadeReleased
      <3>3. Undone(Append(slots, Slot(e, nextId, callback)), e, nextId) = slots
        BY <3>1, ReservedFacts
      <3> QED
        BY <2>2, <3>2, <3>3 DEF AddCallable, Added
    <2>3. ASSUME outcome' = Quiet PROVE FALSE
      BY <2>3 DEF Quiet
    <2>4. \A e \in Envs : ~Destroy(e)
      BY <2>3 DEF Destroy
    <2>5. CASE Dispatch
      <3>1. outcome'.op \in {"run", "refused"}
        BY <2>5 DEF Dispatch, Run, Refuse, Ran, Refused
      <3> QED
        BY <3>1
    <2>6. /\ \A e \in Envs, id \in {NoId, RawId} : ~ValueFrom(e, id)
          /\ \A e \in Envs, h \in Handles : ~Release(e, h)
          /\ \A e \in Envs, n \in Names : ~DeleteGlobal(e, n) /\ ~ResolveCall(e, n)
      BY <2>3 DEF ValueFrom, Release, DeleteGlobal, ResolveCall
    <2>7. /\ \A e \in Envs, n \in Names : ~GetGlobal(e, n)
          /\ \A e \in Envs, n \in Names, h \in Handles : ~SetGlobal(e, n, h)
          /\ \A e \in Envs : ~SetHandler(e) /\ ~RuntimeDestroy(e)
          /\ ~CallEnds
      BY <2>3 DEF GetGlobal, SetGlobal, SetHandler, RuntimeDestroy, CallEnds
    <2> QED
      BY <2>1, <2>2, <2>4, <2>5, <2>6, <2>7 DEF Next
  <1> QED
    BY <1>1, Invariant, PTL DEF Spec, FailedAddChangesNothing
=============================================================================
