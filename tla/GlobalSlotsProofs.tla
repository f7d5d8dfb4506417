------------------------- MODULE GlobalSlotsProofs -------------------------
(***************************************************************************)
(* That the native slot list has one slot for a name and implements the    *)
(* ordered dictionaries of Namespace, for any runtimes, names and values   *)
(* and however many slots.                                                 *)
(***************************************************************************)
EXTENDS GlobalSlots, CountsAndStacks

\* A greater element is counted last.
LEMMA RankAppended ==
  ASSUME NEW N \in Nat, NEW A \in SUBSET (1 .. N), NEW B, B = A \cup {N + 1}
  PROVE  /\ Cardinality(B) = Cardinality(A) + 1
         /\ \A k \in 1 .. Cardinality(A) : Nth(B, k) = Nth(A, k)
         /\ Nth(B, Cardinality(A) + 1) = N + 1
  <1>1. N + 1 \in Nat /\ B \in SUBSET (1 .. N + 1) /\ N + 1 \notin A /\ N + 1 \in B
    OBVIOUS
  <1>2. Cardinality(B) = Cardinality(A) + 1 /\ Cardinality(A) \in Nat
    BY <1>1, RankFacts, CountUpdate
  <1>3. \A j \in B : Nth(B, Rank(B, j)) = j
    <2> DEFINE M == N + 1
    <2>1. M \in Nat /\ B \in SUBSET (1 .. M)
      BY <1>1
    <2> HIDE DEF M
    <2>2. Numbers(B)
      BY <2>1 DEF Numbers
    <2> QED
      BY <2>2, NthOfRank
  <1>4. ASSUME NEW k \in 1 .. Cardinality(A) PROVE Nth(B, k) = Nth(A, k)
    <2> DEFINE i == Nth(A, k)
    <2>1. i \in A /\ Rank(A, i) = k
      BY NthFacts
    <2> HIDE DEF i
    <2>2. B \cap (1 .. i) = A \cap (1 .. i) /\ i \in B
      BY <2>1
    <2>3. Rank(B, i) = k
      BY <2>1, <2>2 DEF Rank
    <2>4. Nth(B, k) = i
      BY <2>2, <2>3, <1>3
    <2> QED
      BY <2>4 DEF i
  <1>5. Rank(B, N + 1) = Cardinality(B)
    BY <1>1, RankFacts
  <1>6. Nth(B, Cardinality(B)) = N + 1
    BY <1>1, <1>5, <1>3
  <1> QED
    BY <1>2, <1>4, <1>6

\* Those after an element taken away are counted one earlier.
LEMMA RankRemoved ==
  ASSUME NEW N \in Nat, NEW A \in SUBSET (1 .. N), NEW d \in A
  PROVE  /\ Cardinality(A \ {d}) = Cardinality(A) - 1
         /\ \A k \in 1 .. Cardinality(A) - 1 : k < Rank(A, d) => Nth(A \ {d}, k) = Nth(A, k)
         /\ \A k \in 1 .. Cardinality(A) - 1 :
              ~(k < Rank(A, d)) => Nth(A \ {d}, k) = Nth(A, k + 1)
  <1> DEFINE B == A \ {d}
  <1>1. B \in SUBSET (1 .. N) /\ d \in Int
    OBVIOUS
  <1>2. Cardinality(B) = Cardinality(A) - 1 /\ Cardinality(A) \in Nat /\ IsFiniteSet(A)
    BY RankFacts, CountUpdate
  <1>3. ASSUME NEW i \in A PROVE Rank(B, i) = IF i < d THEN Rank(A, i) ELSE Rank(A, i) - 1
    <2> DEFINE F == A \cap (1 .. i)
    <2>1. i \in Int /\ IsFiniteSet(F) /\ Rank(A, i) = Cardinality(F)
      BY <1>2, FS_Subset DEF Rank
    <2>2. B \cap (1 .. i) = F \ {d}
      OBVIOUS
    <2>3. d \in F <=> ~(i < d)
      BY <1>1
    <2>4. Rank(B, i) = Cardinality(F \ {d})
      BY <2>2 DEF Rank
    <2> HIDE DEF F
    <2>5. Cardinality(F \ {d}) = IF d \in F THEN Cardinality(F) - 1 ELSE Cardinality(F)
      BY <2>1, CountUpdate
    <2> QED
      BY <2>1, <2>3, <2>4, <2>5
  <1>4. \A i, j \in A : i < j => Rank(A, i) < Rank(A, j)
    BY NthFacts
  <1>5. \A j \in B : Nth(B, Rank(B, j)) = j
    BY <1>1, NthFacts
  <1>6. ASSUME NEW k \in 1 .. Cardinality(B)
        PROVE  Nth(B, k) = IF k < Rank(A, d) THEN Nth(A, k) ELSE Nth(A, k + 1)
    <2>1. Rank(A, d) \in 1 .. Cardinality(A)
      BY NthFacts
    <2>2. CASE k < Rank(A, d)
      <3> DEFINE i == Nth(A, k)
      <3>1. k \in 1 .. Cardinality(A)
        BY <1>2
      <3>2. i \in A /\ Rank(A, i) = k
        BY <3>1, NthFacts
      <3> HIDE DEF i
      <3>3. i \in Int /\ i # d /\ ~(d < i)
        BY <2>1, <2>2, <3>2, <1>4
      <3>4. i \in B /\ i < d
        BY <1>1, <3>2, <3>3
      <3>5. Rank(B, i) = k
        BY <1>3, <3>2, <3>4
      <3>6. Nth(B, k) = i
        BY <3>4, <3>5, <1>5
      <3> QED
        BY <2>2, <3>6 DEF i
    <2>3. CASE ~(k < Rank(A, d))
      <3> DEFINE i == Nth(A, k + 1)
      <3>1. k + 1 \in 1 .. Cardinality(A)
        BY <1>2
      <3>2. i \in A /\ Rank(A, i) = k + 1
        BY <3>1, NthFacts
      <3> HIDE DEF i
      <3>3. i \in Int /\ i # d /\ ~(i < d)
        BY <2>1, <2>3, <3>2, <1>4
      <3>4. i \in B /\ ~(i < d)
        BY <3>2, <3>3
      <3>5. Rank(B, i) = k
        BY <1>3, <3>2, <3>4
      <3>6. Nth(B, k) = i
        BY <3>4, <3>5, <1>5
      <3> QED
        BY <2>3, <3>6 DEF i
    <2> QED
      BY <2>2, <2>3
  <1>7. Cardinality(A \ {d}) = Cardinality(A) - 1
    BY <1>2
  <1>8. \A k \in 1 .. Cardinality(A) - 1 :
          Nth(A \ {d}, k) = IF k < Rank(A, d) THEN Nth(A, k) ELSE Nth(A, k + 1)
    BY <1>6, <1>7
  <1> QED
    BY <1>7, <1>8

(***************************************************************************)
(* Tables: lists of slots, where a slot of a runtime has a name and no two *)
(* slots of one runtime have the same.                                     *)
(***************************************************************************)
Row == [runtime : Runtimes \cup {Nothing}, name : Names \cup {Nothing}, value : Values \cup {Nothing}]

Distinct(t) ==
  \A i, j \in DOMAIN t :
    t[i].runtime \in Runtimes /\ t[i].runtime = t[j].runtime /\ t[i].name = t[j].name => i = j
Tables ==
  {t \in Seq(Row) : Distinct(t) /\ \A i \in DOMAIN t : t[i].runtime \in Runtimes => t[i].name \in Names}

\* What marks a cleared slot is neither a runtime nor a name.
NothingIsApart == Nothing \notin Runtimes \cup Names

LEMMA TableFacts ==
  ASSUME NothingIsApart, NEW t \in Tables, NEW r \in Runtimes
  PROVE  /\ t \in Seq(Row) /\ Len(t) \in Nat /\ DOMAIN t = 1 .. Len(t)
         /\ \A i \in DOMAIN t : t[i] \in Row
         /\ Active(t, r) = {i \in DOMAIN t : t[i].runtime = r}
         /\ Active(t, r) \in SUBSET (1 .. Len(t))
  <1>1. t \in Seq(Row) /\ Len(t) \in Nat /\ DOMAIN t = 1 .. Len(t)
    BY LenProperties DEF Tables
  <1>2. \A i \in DOMAIN t : t[i] \in Row
    BY <1>1, ElementOfSeq
  <1>3. Active(t, r) = {i \in DOMAIN t : t[i].runtime = r}
    BY DEF Active, Tables, NothingIsApart
  <1> QED
    BY <1>1, <1>2, <1>3

\* A name is found in the only slot of the runtime with it, if there is one.
LEMMA FindFacts ==
  ASSUME NEW t \in Tables, NEW r \in Runtimes, NEW n
  PROVE  /\ Find(t, r, n) \in 0 .. Len(t)
         /\ Find(t, r, n) = 0 => \A i \in DOMAIN t : ~(t[i].runtime = r /\ t[i].name = n)
         /\ Find(t, r, n) # 0 =>
              /\ Find(t, r, n) \in DOMAIN t
              /\ t[Find(t, r, n)].runtime = r /\ t[Find(t, r, n)].name = n
         /\ \A i \in DOMAIN t : t[i].runtime = r /\ t[i].name = n => Find(t, r, n) = i
  <1> DEFINE I == {i \in 1 .. Len(t) : t[i].runtime = r /\ t[i].name = n}
             m == CHOOSE i \in I : \A j \in I : i <= j
  <1>1. Len(t) \in Nat /\ DOMAIN t = 1 .. Len(t) /\ Distinct(t)
    BY LenProperties DEF Tables
  <1>2. Find(t, r, n) = IF I # {} THEN m ELSE 0
    BY DEF Find, SelectInSeq, Min
  <1>3. I # {} => m \in I
    <2>1. \A i \in I : I \in SUBSET Nat /\ i \in I
      BY <1>1
    <2> HIDE DEF I
    <2>2. \A i \in I : \E k \in I : \A j \in I : k <= j
      BY <2>1, Least
    <2> QED
      BY <2>2
  <1>4. \A i \in I : i = m
    BY <1>1, <1>3 DEF Distinct
  <1> HIDE DEF m
  <1> QED
    BY <1>1, <1>2, <1>3, <1>4

(***************************************************************************)
(* What a table says of a runtime: which slots are of the runtime, and the *)
(* name and the value in each.                                             *)
(***************************************************************************)
Pair(t, i) == <<t[i].name, t[i].value>>
Contents(t, r) == {Pair(t, i) : i \in Active(t, r)}

Alike(t, u, r) ==
  Active(u, r) = Active(t, r) /\ \A i \in Active(t, r) : Pair(u, i) = Pair(t, i)

\* Enumeration lists the pairs of the active slots, in the order of the slots.
LEMMA Enumeration ==
  ASSUME NothingIsApart, NEW t \in Tables, NEW r \in Runtimes
  PROVE  LET size == Cardinality(Active(t, r)) IN
         /\ size \in Nat
         /\ GlobalNames(t, r) = [k \in 1 .. size |-> t[Nth(Active(t, r), k)].name]
         /\ BindingsOf(t, r) = [k \in 1 .. size |-> Pair(t, Nth(Active(t, r), k))]
  <1> DEFINE A == Active(t, r)
             size == Cardinality(A)
             names == GlobalNames(t, r)
  <1>1. Len(t) \in Nat /\ A \in SUBSET (1 .. Len(t)) /\ DOMAIN t = 1 .. Len(t)
        /\ A = {i \in DOMAIN t : t[i].runtime = r}
    BY TableFacts
  <1>2. names = [k \in 1 .. size |-> t[Nth(A, k)].name]
    BY DEF GlobalNames, ActiveSlot, Nth, Rank
  <1>3. BindingsOf(t, r) =
          [k \in DOMAIN names |-> <<names[k], t[Find(t, r, names[k])].value>>]
    BY DEF BindingsOf
  <1> HIDE DEF A, names
  <1>4. size \in Nat
    BY <1>1, RankFacts
  <1>5. \A k \in 1 .. size : Nth(A, k) \in A
    BY <1>1, NthFacts
  <1> HIDE DEF size
  <1>6. ASSUME NEW k \in 1 .. size
        PROVE  <<names[k], t[Find(t, r, names[k])].value>> = Pair(t, Nth(A, k))
    <2> DEFINE i == Nth(A, k)
    <2>1. i \in DOMAIN t /\ t[i].runtime = r /\ names[k] = t[i].name
      BY <1>1, <1>2, <1>5
    <2> HIDE DEF i
    <2>2. Find(t, r, t[i].name) = i
      BY <2>1, FindFacts
    <2>3. <<names[k], t[Find(t, r, names[k])].value>> = Pair(t, i)
      BY <2>1, <2>2 DEF Pair
    <2> QED
      BY <2>3 DEF i
  <1>7. BindingsOf(t, r) = [k \in 1 .. size |-> Pair(t, Nth(A, k))]
    BY <1>2, <1>3, <1>6
  <1> QED
    BY <1>2, <1>4, <1>7 DEF A, size, names

\* Tables alike for a runtime list the same for it.
LEMMA AlikeBindings ==
  ASSUME NothingIsApart, NEW t \in Tables, NEW u \in Tables, NEW r \in Runtimes, Alike(t, u, r)
  PROVE  BindingsOf(u, r) = BindingsOf(t, r) /\ GlobalNames(u, r) = GlobalNames(t, r)
  <1> DEFINE A == Active(t, r)
             size == Cardinality(A)
  <1>1. Len(t) \in Nat /\ A \in SUBSET (1 .. Len(t))
    BY TableFacts
  <1>2. Active(u, r) = A /\ \A i \in A : Pair(u, i) = Pair(t, i) /\ u[i].name = t[i].name
    BY DEF Alike, Pair
  <1>3. /\ GlobalNames(t, r) = [k \in 1 .. size |-> t[Nth(A, k)].name]
        /\ BindingsOf(t, r) = [k \in 1 .. size |-> Pair(t, Nth(A, k))]
    BY Enumeration
  <1>4. /\ GlobalNames(u, r) = [k \in 1 .. Cardinality(Active(u, r)) |-> u[Nth(Active(u, r), k)].name]
        /\ BindingsOf(u, r) = [k \in 1 .. Cardinality(Active(u, r)) |-> Pair(u, Nth(Active(u, r), k))]
    BY Enumeration
  <1> HIDE DEF A
  <1>5. \A k \in 1 .. size : Nth(A, k) \in A
    BY <1>1, NthFacts
  <1> QED
    BY <1>2, <1>3, <1>4, <1>5

\* What is listed is what the table holds, each name once.
LEMMA Listed ==
  ASSUME NothingIsApart, NEW t \in Tables, NEW r \in Runtimes
  PROVE  /\ BindingsOf(t, r) \in Seq(Names \X (Values \cup {Nothing}))
         /\ {BindingsOf(t, r)[k] : k \in DOMAIN BindingsOf(t, r)} = Contents(t, r)
         /\ \A k, l \in DOMAIN BindingsOf(t, r) :
              BindingsOf(t, r)[k][1] = BindingsOf(t, r)[l][1] => k = l
  <1> DEFINE A == Active(t, r)
             size == Cardinality(A)
             b == BindingsOf(t, r)
  <1>1. /\ Len(t) \in Nat /\ A \in SUBSET (1 .. Len(t))
        /\ DOMAIN t = 1 .. Len(t) /\ A = {i \in DOMAIN t : t[i].runtime = r}
        /\ \A i \in DOMAIN t : t[i] \in Row
    BY TableFacts
  <1>2. b = [k \in 1 .. size |-> Pair(t, Nth(A, k))] /\ size \in Nat
    BY Enumeration
  <1> HIDE DEF A, b
  <1>3. \A k \in 1 .. size : Nth(A, k) \in A /\ Rank(A, Nth(A, k)) = k
    BY <1>1, NthFacts
  <1>4. \A i \in A : Rank(A, i) \in 1 .. size /\ Nth(A, Rank(A, i)) = i
    BY <1>1, NthFacts
  <1> HIDE DEF size
  <1>5. \A i \in A : Pair(t, i) \in Names \X (Values \cup {Nothing})
    BY <1>1 DEF Pair, Tables, Row
  <1>6. \A i, j \in A : t[i].name = t[j].name => i = j
    BY <1>1 DEF Tables, Distinct
  <1>7. b \in Seq(Names \X (Values \cup {Nothing}))
    <2>1. b \in [1 .. size -> Names \X (Values \cup {Nothing})]
      BY <1>2, <1>3, <1>5
    <2> QED
      BY <1>2, <2>1, SeqDef
  <1>8. {b[k] : k \in DOMAIN b} = Contents(t, r)
    <2>1. ASSUME NEW k \in 1 .. size PROVE b[k] \in Contents(t, r)
      BY <1>2, <1>3 DEF Contents, A
    <2>2. ASSUME NEW i \in A PROVE \E k \in 1 .. size : b[k] = Pair(t, i)
      BY <1>2, <1>4
    <2>3. DOMAIN b = 1 .. size
      BY <1>2
    <2> QED
      BY <2>1, <2>2, <2>3 DEF Contents, A
  <1>9. ASSUME NEW k \in DOMAIN b, NEW l \in DOMAIN b, b[k][1] = b[l][1] PROVE k = l
    <2>1. k \in 1 .. size /\ l \in 1 .. size
      BY <1>2
    <2>2. b[k][1] = t[Nth(A, k)].name /\ b[l][1] = t[Nth(A, l)].name
      BY <1>2, <2>1 DEF Pair
    <2>3. Nth(A, k) = Nth(A, l)
      BY <1>3, <1>6, <1>9, <2>1, <2>2
    <2> QED
      BY <1>3, <2>1, <2>3
  <1> QED
    BY <1>7, <1>8, <1>9 DEF b

(***************************************************************************)
(* What binding and deleting a name do to a table: nothing to the slots of *)
(* another runtime.                                                        *)
(***************************************************************************)
LEMMA Rebinding ==
  ASSUME NothingIsApart, NEW t \in Tables, NEW r \in Runtimes, NEW n \in Names, NEW v \in Values,
         Find(t, r, n) # 0, NEW u, u = BindIn(t, r, n, v)
  PROVE  /\ u \in Tables /\ \A q \in Runtimes : Active(u, q) = Active(t, q)
         /\ \A j \in DOMAIN t :
              Pair(u, j) = IF t[j].runtime = r /\ t[j].name = n THEN <<n, v>> ELSE Pair(t, j)
  <1> DEFINE i == Find(t, r, n)
             new == Slot(r, n, v)
  <1>1. /\ t \in Seq(Row) /\ Len(t) \in Nat /\ DOMAIN t = 1 .. Len(t)
        /\ \A q \in Runtimes : Active(t, q) = {j \in DOMAIN t : t[j].runtime = q}
    BY TableFacts
  <1>2. /\ i \in DOMAIN t /\ t[i].runtime = r /\ t[i].name = n
        /\ \A j \in DOMAIN t : t[j].runtime = r /\ t[j].name = n => i = j
    BY FindFacts
  <1>3. u = [t EXCEPT ![i] = new]
    BY DEF BindIn
  <1>4. new \in Row /\ new.runtime = r /\ new.name = n /\ new.value = v
    BY DEF Slot, Row
  <1> HIDE DEF new, i
  <1>5. u \in Seq(Row) /\ DOMAIN u = DOMAIN t
        /\ \A j \in DOMAIN t : u[j] = IF j = i THEN new ELSE t[j]
    BY <1>1, <1>2, <1>3, <1>4, ExceptSeq
  <1>6. \A j \in DOMAIN t : u[j].runtime = t[j].runtime /\ u[j].name = t[j].name
    BY <1>2, <1>4, <1>5
  <1>7. u \in Tables
    BY <1>5, <1>6 DEF Tables, Distinct
  <1>8. ASSUME NEW q \in Runtimes PROVE Active(u, q) = Active(t, q)
    <2>1. Active(u, q) = {j \in DOMAIN u : u[j].runtime = q}
      BY <1>7, TableFacts
    <2> QED
      BY <1>1, <1>5, <1>6, <2>1
  <1>9. ASSUME NEW j \in DOMAIN t
        PROVE  Pair(u, j) = IF t[j].runtime = r /\ t[j].name = n THEN <<n, v>> ELSE Pair(t, j)
    BY <1>2, <1>4, <1>5 DEF Pair
  <1> QED
    BY <1>7, <1>8, <1>9

LEMMA NewBinding ==
  ASSUME NothingIsApart, NEW t \in Tables, NEW r \in Runtimes, NEW n \in Names, NEW v \in Values,
         Find(t, r, n) = 0, NEW u, u = BindIn(t, r, n, v)
  PROVE  /\ u \in Tables
         /\ \A q \in Runtimes \ {r} : Active(u, q) = Active(t, q)
         /\ Active(u, r) = Active(t, r) \cup {Len(t) + 1}
         /\ \A j \in DOMAIN t : Pair(u, j) = Pair(t, j)
         /\ Pair(u, Len(t) + 1) = <<n, v>>
  <1> DEFINE last == Len(t) + 1
             new == Slot(r, n, v)
  <1>1. /\ t \in Seq(Row) /\ Len(t) \in Nat /\ DOMAIN t = 1 .. Len(t)
        /\ \A q \in Runtimes : Active(t, q) = {j \in DOMAIN t : t[j].runtime = q}
    BY TableFacts
  <1>2. \A j \in DOMAIN t : ~(t[j].runtime = r /\ t[j].name = n)
    BY FindFacts
  <1>3. u = Append(t, new)
    BY DEF BindIn
  <1>4. new \in Row /\ new.runtime = r /\ new.name = n /\ new.value = v
    BY DEF Slot, Row
  <1> HIDE DEF new
  <1>5. /\ u \in Seq(Row) /\ Len(u) = Len(t) + 1
        /\ \A j \in 1 .. Len(t) : u[j] = t[j]
        /\ u[Len(t) + 1] = new
    BY <1>1, <1>3, <1>4, AppendProperties
  <1>6. /\ DOMAIN u = DOMAIN t \cup {last} /\ last \notin DOMAIN t
        /\ u[last] = new /\ \A j \in DOMAIN t : u[j] = t[j]
    <2>1. DOMAIN u = 1 .. last
      BY <1>5, LenProperties
    <2>2. last \notin 1 .. Len(t) /\ 1 .. last = (1 .. Len(t)) \cup {last}
      BY <1>1
    <2>3. u[last] = new /\ \A j \in 1 .. Len(t) : u[j] = t[j]
      BY <1>5
    <2> HIDE DEF last
    <2> QED
      BY <1>1, <2>1, <2>2, <2>3
  <1> HIDE DEF last
  <1>7. u \in Tables
    <2>1. Distinct(u)
      <3>1. \A i, j \in DOMAIN t :
              u[i].runtime \in Runtimes /\ u[i].runtime = u[j].runtime /\ u[i].name = u[j].name
                => i = j
        BY <1>6 DEF Tables, Distinct
      <3>2. \A j \in DOMAIN t : ~(u[j].runtime = u[last].runtime /\ u[j].name = u[last].name)
        BY <1>2, <1>4, <1>6
      <3> QED
        BY <1>6, <3>1, <3>2 DEF Distinct
    <2>2. \A i \in DOMAIN u : u[i].runtime \in Runtimes => u[i].name \in Names
      BY <1>4, <1>6 DEF Tables
    <2> QED
      BY <1>5, <2>1, <2>2 DEF Tables
  <1>8. ASSUME NEW q \in Runtimes
        PROVE  Active(u, q) = IF q = r THEN Active(t, q) \cup {last} ELSE Active(t, q)
    <2>1. Active(u, q) = {j \in DOMAIN u : u[j].runtime = q}
      BY <1>7, TableFacts
    <2> QED
      BY <1>1, <1>4, <1>6, <2>1
  <1>9. Pair(u, last) = <<n, v>> /\ \A j \in DOMAIN t : Pair(u, j) = Pair(t, j)
    BY <1>4, <1>6 DEF Pair
  <1> QED
    BY <1>7, <1>8, <1>9 DEF last

LEMMA Deleting ==
  ASSUME NothingIsApart, NEW t \in Tables, NEW r \in Runtimes, NEW n \in Names,
         Find(t, r, n) # 0, NEW u, u = DeleteIn(t, r, n)
  PROVE  /\ u \in Tables
         /\ \A q \in Runtimes \ {r} : Active(u, q) = Active(t, q)
         /\ Active(u, r) = Active(t, r) \ {Find(t, r, n)}
         /\ \A j \in DOMAIN t \ {Find(t, r, n)} : Pair(u, j) = Pair(t, j)
  <1> DEFINE i == Find(t, r, n)
  <1>1. /\ t \in Seq(Row) /\ Len(t) \in Nat /\ DOMAIN t = 1 .. Len(t)
        /\ \A q \in Runtimes : Active(t, q) = {j \in DOMAIN t : t[j].runtime = q}
    BY TableFacts
  <1>2. i \in DOMAIN t /\ t[i].runtime = r
    BY FindFacts
  <1>3. u = [t EXCEPT ![i] = Cleared]
    BY DEF DeleteIn
  <1>4. Cleared \in Row /\ Cleared.runtime \notin Runtimes
    BY DEF Cleared, Slot, Row, NothingIsApart
  <1> HIDE DEF i
  <1>5. u \in Seq(Row) /\ DOMAIN u = DOMAIN t
        /\ \A j \in DOMAIN t : u[j] = IF j = i THEN Cleared ELSE t[j]
    BY <1>1, <1>2, <1>3, <1>4, ExceptSeq
  <1>6. u \in Tables
    BY <1>4, <1>5 DEF Tables, Distinct
  <1>7. ASSUME NEW q \in Runtimes
        PROVE  Active(u, q) = IF q = r THEN Active(t, q) \ {i} ELSE Active(t, q)
    <2>1. Active(u, q) = {j \in DOMAIN u : u[j].runtime = q}
      BY <1>6, TableFacts
    <2> QED
      BY <1>1, <1>2, <1>4, <1>5, <2>1
  <1>8. \A j \in DOMAIN t \ {i} : Pair(u, j) = Pair(t, j)
    BY <1>5 DEF Pair
  <1> QED
    BY <1>6, <1>7, <1>8 DEF i

\* The two kinds of binding, and deleting what may not be bound, by what the
\* table holds before and after.
LEMMA BoundContents ==
  ASSUME NothingIsApart, NEW t \in Tables, NEW r \in Runtimes, NEW n \in Names, NEW v \in Values,
         NEW u, u = BindIn(t, r, n, v)
  PROVE  /\ u \in Tables /\ \A q \in Runtimes \ {r} : Alike(t, u, q)
         /\ Contents(u, r) = {p \in Contents(t, r) : p[1] # n} \cup {<<n, v>>}
  <1>1. /\ Len(t) \in Nat /\ DOMAIN t = 1 .. Len(t)
        /\ \A q \in Runtimes : Active(t, q) = {j \in DOMAIN t : t[j].runtime = q}
    BY TableFacts
  <1>2. CASE Find(t, r, n) # 0
    <2>1. /\ u \in Tables /\ \A q \in Runtimes : Active(u, q) = Active(t, q)
          /\ \A j \in DOMAIN t :
               Pair(u, j) = IF t[j].runtime = r /\ t[j].name = n THEN <<n, v>> ELSE Pair(t, j)
      BY <1>2, Rebinding
    <2>2. \E j \in DOMAIN t : t[j].runtime = r /\ t[j].name = n
      BY <1>2, FindFacts
    <2>3. \A q \in Runtimes \ {r} : Alike(t, u, q)
      BY <1>1, <2>1 DEF Alike
    <2>4. Contents(u, r) = {p \in Contents(t, r) : p[1] # n} \cup {<<n, v>>}
      <3>1. \A j \in Active(t, r) :
              IF t[j].name = n THEN Pair(u, j) = <<n, v>>
              ELSE Pair(u, j) = Pair(t, j) /\ Pair(t, j)[1] # n
        BY <1>1, <2>1 DEF Pair
      <3>2. \A j \in Active(t, r) : Pair(t, j)[1] # n => t[j].name # n
        BY DEF Pair
      <3>3. \E j \in Active(t, r) : t[j].name = n
        BY <1>1, <2>2
      <3>4. Contents(u, r) = {Pair(u, j) : j \in Active(t, r)}
        BY <2>1 DEF Contents
      <3>5. {p \in Contents(t, r) : p[1] # n} =
              {Pair(t, j) : j \in {i \in Active(t, r) : t[i].name # n}}
        BY <3>1, <3>2 DEF Contents
      <3> QED
        BY <3>1, <3>3, <3>4, <3>5
    <2> QED
      BY <2>1, <2>3, <2>4
  <1>3. CASE Find(t, r, n) = 0
    <2>1. /\ u \in Tables
          /\ \A q \in Runtimes \ {r} : Active(u, q) = Active(t, q)
          /\ Active(u, r) = Active(t, r) \cup {Len(t) + 1}
          /\ \A j \in DOMAIN t : Pair(u, j) = Pair(t, j)
          /\ Pair(u, Len(t) + 1) = <<n, v>>
      BY <1>3, NewBinding
    <2>2. \A j \in Active(t, r) : Pair(t, j)[1] # n
      BY <1>1, <1>3, FindFacts DEF Pair
    <2>3. \A q \in Runtimes \ {r} : Alike(t, u, q)
      BY <1>1, <2>1 DEF Alike
    <2>4. Contents(u, r) = Contents(t, r) \cup {<<n, v>>}
      BY <1>1, <2>1 DEF Contents
    <2>5. Contents(t, r) = {p \in Contents(t, r) : p[1] # n}
      BY <2>2 DEF Contents
    <2> QED
      BY <2>1, <2>3, <2>4, <2>5
  <1> QED
    BY <1>2, <1>3

LEMMA DeletedContents ==
  ASSUME NothingIsApart, NEW t \in Tables, NEW r \in Runtimes, NEW n \in Names,
         NEW u, u = DeleteIn(t, r, n)
  PROVE  /\ u \in Tables /\ \A q \in Runtimes \ {r} : Alike(t, u, q)
         /\ Contents(u, r) = {p \in Contents(t, r) : p[1] # n}
  <1> DEFINE i == Find(t, r, n)
  <1>1. /\ Len(t) \in Nat /\ DOMAIN t = 1 .. Len(t)
        /\ \A q \in Runtimes : Active(t, q) = {j \in DOMAIN t : t[j].runtime = q}
    BY TableFacts
  <1>2. CASE i # 0
    <2>1. /\ u \in Tables
          /\ \A q \in Runtimes \ {r} : Active(u, q) = Active(t, q)
          /\ Active(u, r) = Active(t, r) \ {i}
          /\ \A j \in DOMAIN t \ {i} : Pair(u, j) = Pair(t, j)
      BY <1>2, Deleting
    <2>2. /\ i \in DOMAIN t /\ t[i].runtime = r /\ t[i].name = n
          /\ \A j \in DOMAIN t : t[j].runtime = r /\ t[j].name = n => i = j
      BY <1>2, FindFacts
    <2> HIDE DEF i
    <2>3. \A q \in Runtimes \ {r} : Alike(t, u, q)
      BY <1>1, <2>1, <2>2 DEF Alike
    <2>4. \A j \in Active(t, r) : Pair(t, j)[1] # n <=> j # i
      BY <1>1, <2>2 DEF Pair
    <2>5. Contents(u, r) = {p \in Contents(t, r) : p[1] # n}
      BY <1>1, <2>1, <2>4 DEF Contents
    <2> QED
      BY <2>1, <2>3, <2>5
  <1>3. CASE i = 0
    <2>1. u = t
      BY <1>3 DEF DeleteIn
    <2>2. \A j \in Active(t, r) : Pair(t, j)[1] # n
      BY <1>1, <1>3, FindFacts DEF Pair
    <2>3. Contents(t, r) = {p \in Contents(t, r) : p[1] # n}
      BY <2>2 DEF Contents
    <2> QED
      BY <2>1, <2>3 DEF Alike
  <1> QED
    BY <1>2, <1>3

(***************************************************************************)
(* What the dictionary sees of one binding and one deletion.               *)
(***************************************************************************)
\* The names that are listed are those that can be found.
LEMMA ListsFound ==
  ASSUME NothingIsApart, NEW t \in Tables, NEW r \in Runtimes, NEW n \in Names
  PROVE  Dictionary!Bound(BindingsOf(t, r), n) <=> Find(t, r, n) # 0
  <1> DEFINE b == BindingsOf(t, r)
  <1>1. {b[k] : k \in DOMAIN b} = Contents(t, r)
    BY Listed
  <1>2. DOMAIN t = 1 .. Len(t) /\ Len(t) \in Nat
        /\ Active(t, r) = {i \in DOMAIN t : t[i].runtime = r}
    BY TableFacts
  <1> HIDE DEF b
  <1>3. (\E k \in DOMAIN b : b[k][1] = n) <=> \E p \in Contents(t, r) : p[1] = n
    BY <1>1
  <1>4. (\E p \in Contents(t, r) : p[1] = n) <=> \E i \in Active(t, r) : t[i].name = n
    <2>1. \A i \in Active(t, r) : Pair(t, i)[1] = t[i].name
      BY DEF Pair
    <2> QED
      BY <2>1 DEF Contents
  <1>5. (\E i \in Active(t, r) : t[i].name = n) <=> Find(t, r, n) # 0
    BY <1>2, FindFacts
  <1> QED
    BY <1>3, <1>4, <1>5 DEF Dictionary!Bound, b

LEMMA Puts ==
  ASSUME NothingIsApart, NEW t \in Tables, NEW r \in Runtimes, NEW n \in Names, NEW v \in Values
  PROVE  BindingsOf(BindIn(t, r, n, v), r) = Dictionary!Put(BindingsOf(t, r), n, v)
  <1> DEFINE u == BindIn(t, r, n, v)
             A == Active(t, r)
             size == Cardinality(A)
             b == BindingsOf(t, r)
  <1>1. /\ Len(t) \in Nat /\ DOMAIN t = 1 .. Len(t) /\ A \in SUBSET (1 .. Len(t))
        /\ A = {i \in DOMAIN t : t[i].runtime = r}
    BY TableFacts
  <1>2. b = [k \in 1 .. size |-> Pair(t, Nth(A, k))] /\ size \in Nat
    BY Enumeration
  <1>3. Dictionary!Bound(b, n) <=> Find(t, r, n) # 0
    BY ListsFound
  <1>4. \A k \in 1 .. size : Nth(A, k) \in A
    BY <1>1, NthFacts
  <1>5. CASE Find(t, r, n) # 0
    <2>1. /\ u \in Tables /\ Active(u, r) = A
          /\ \A j \in DOMAIN t :
               Pair(u, j) = IF t[j].runtime = r /\ t[j].name = n THEN <<n, v>> ELSE Pair(t, j)
      BY <1>5, Rebinding
    <2>2. BindingsOf(u, r) =
            [k \in 1 .. Cardinality(Active(u, r)) |-> Pair(u, Nth(Active(u, r), k))]
      BY <2>1, Enumeration
    <2>3. BindingsOf(u, r) = [k \in 1 .. size |-> Pair(u, Nth(A, k))]
      BY <2>1, <2>2
    <2> HIDE DEF A, size, b, u
    <2>4. \A k \in 1 .. size :
            Pair(u, Nth(A, k)) = IF b[k][1] = n THEN <<n, v>> ELSE b[k]
      <3>1. \A j \in A : Pair(u, j) = IF Pair(t, j)[1] = n THEN <<n, v>> ELSE Pair(t, j)
        BY <1>1, <2>1 DEF Pair
      <3> QED
        BY <1>2, <1>4, <3>1
    <2>5. BindingsOf(u, r) = [k \in DOMAIN b |-> IF b[k][1] = n THEN <<n, v>> ELSE b[k]]
      BY <1>2, <2>3, <2>4
    <2>6. Dictionary!Put(b, n, v) = [k \in DOMAIN b |-> IF b[k][1] = n THEN <<n, v>> ELSE b[k]]
      BY <1>3, <1>5 DEF Dictionary!Put
    <2> QED
      BY <2>5, <2>6 DEF b, u
  <1>6. CASE Find(t, r, n) = 0
    <2> DEFINE last == Len(t) + 1
    <2>1. /\ u \in Tables /\ Active(u, r) = A \cup {last}
          /\ \A j \in DOMAIN t : Pair(u, j) = Pair(t, j)
          /\ Pair(u, last) = <<n, v>>
      BY <1>6, NewBinding
    <2> DEFINE B == Active(u, r)
    <2>2. /\ BindingsOf(u, r) = [k \in 1 .. Cardinality(B) |-> Pair(u, Nth(B, k))]
          /\ B = A \cup {last}
      BY <2>1, Enumeration
    <2> HIDE DEF A, B, b, u
    <2>3. /\ Cardinality(B) = size + 1
          /\ \A k \in 1 .. size : Nth(B, k) = Nth(A, k)
          /\ Nth(B, size + 1) = last
      BY <1>1, <2>2, RankAppended
    <2> HIDE DEF size, last
    <2>4. \A j \in A : Pair(u, j) = Pair(t, j)
      BY <1>1, <2>1
    <2>5. BindingsOf(u, r) = [k \in 1 .. size + 1 |-> IF k = size + 1 THEN <<n, v>> ELSE b[k]]
      <3>1. \A k \in 1 .. size + 1 :
              Pair(u, Nth(B, k)) = IF k = size + 1 THEN <<n, v>> ELSE b[k]
        <4>1. \A k \in 1 .. size : Pair(u, Nth(B, k)) = b[k]
          BY <1>2, <1>4, <2>3, <2>4
        <4>2. Pair(u, Nth(B, size + 1)) = <<n, v>>
          BY <2>1, <2>3
        <4>3. \A k \in 1 .. size + 1 : k # size + 1 => k \in 1 .. size
          BY <1>2
        <4> QED
          BY <4>1, <4>2, <4>3
      <3> QED
        BY <2>2, <2>3, <3>1
    <2>6. Dictionary!Put(b, n, v) = Append(b, <<n, v>>)
      BY <1>3, <1>6 DEF Dictionary!Put
    <2>7. Append(b, <<n, v>>) = [k \in 1 .. size + 1 |-> IF k = size + 1 THEN <<n, v>> ELSE b[k]]
      <3> DEFINE S == Names \X (Values \cup {Nothing})
      <3>1. b \in Seq(S) /\ <<n, v>> \in S
        BY Listed DEF b
      <3>2. Len(b) = size
        BY <1>2, <3>1, LenProperties
      <3> HIDE DEF S
      <3>3. /\ DOMAIN Append(b, <<n, v>>) = 1 .. size + 1
            /\ \A k \in 1 .. size : Append(b, <<n, v>>)[k] = b[k]
            /\ Append(b, <<n, v>>)[size + 1] = <<n, v>>
            /\ Append(b, <<n, v>>) = [k \in DOMAIN Append(b, <<n, v>>) |-> Append(b, <<n, v>>)[k]]
        BY <3>1, <3>2, AppendProperties, LenProperties
      <3>4. \A k \in 1 .. size + 1 : k # size + 1 => k \in 1 .. size
        BY <1>2
      <3> QED
        BY <3>3, <3>4
    <2> QED
      BY <2>5, <2>6, <2>7 DEF b, u
  <1> QED
    BY <1>5, <1>6

\* A sequence without one of its places.
LEMMA RemoveAtFacts ==
  ASSUME NEW S, NEW s \in Seq(S), NEW p \in 1 .. Len(s)
  PROVE  RemoveAt(s, p) = [k \in 1 .. Len(s) - 1 |-> IF k < p THEN s[k] ELSE s[k + 1]]
  <1> DEFINE top == Len(s)
             before == SubSeq(s, 1, p - 1)
             behind == SubSeq(s, p + 1, top)
             whole == before \o behind
  <1>1. top \in Nat /\ p \in 1 .. top /\ \A i \in 1 .. top : s[i] \in S
    BY LenProperties, ElementOfSeq
  <1>2. /\ before \in Seq(S) /\ Len(before) = p - 1
        /\ \A k \in 1 .. p - 1 : before[k] = s[k]
    <2>1. /\ before \in Seq(S) /\ Len(before) = IF 1 <= p - 1 THEN p - 1 - 1 + 1 ELSE 0
          /\ \A k \in 1 .. p - 1 - 1 + 1 : before[k] = s[1 + k - 1]
      <3> DEFINE last == p - 1
      <3>1. last \in Int /\ \A i \in 1 .. last : s[i] \in S
        BY <1>1
      <3> HIDE DEF last
      <3>2. /\ SubSeq(s, 1, last) \in Seq(S)
            /\ Len(SubSeq(s, 1, last)) = IF 1 <= last THEN last - 1 + 1 ELSE 0
            /\ \A k \in 1 .. last - 1 + 1 : SubSeq(s, 1, last)[k] = s[1 + k - 1]
        BY <3>1, SubSeqProperties
      <3> QED
        BY <3>2 DEF last
    <2> HIDE DEF before
    <2>2. \A k \in 1 .. p - 1 : k \in 1 .. p - 1 - 1 + 1 /\ 1 + k - 1 = k
      BY <1>1
    <2> QED
      BY <1>1, <2>1, <2>2
  <1>3. /\ behind \in Seq(S) /\ Len(behind) = top - p
        /\ \A k \in 1 .. top - p : behind[k] = s[p + k]
    <2>1. /\ behind \in Seq(S) /\ Len(behind) = IF p + 1 <= top THEN top - (p + 1) + 1 ELSE 0
          /\ \A k \in 1 .. top - (p + 1) + 1 : behind[k] = s[p + 1 + k - 1]
      <3> DEFINE first == p + 1
      <3>1. first \in Int /\ top \in Int /\ \A i \in first .. top : s[i] \in S
        BY <1>1
      <3> HIDE DEF first, top
      <3>2. /\ SubSeq(s, first, top) \in Seq(S)
            /\ Len(SubSeq(s, first, top)) = IF first <= top THEN top - first + 1 ELSE 0
            /\ \A k \in 1 .. top - first + 1 : SubSeq(s, first, top)[k] = s[first + k - 1]
        BY <3>1, SubSeqProperties
      <3> QED
        BY <3>2 DEF first
    <2> HIDE DEF behind, top
    <2>2. \A k \in 1 .. top - p : k \in 1 .. top - (p + 1) + 1 /\ p + 1 + k - 1 = p + k
      BY <1>1
    <2> QED
      BY <1>1, <2>1, <2>2
  <1>4. RemoveAt(s, p) = whole
    BY DEF RemoveAt
  <1> HIDE DEF before, behind
  <1>5. /\ whole \in Seq(S) /\ Len(whole) = Len(before) + Len(behind)
        /\ \A k \in 1 .. Len(before) + Len(behind) :
             whole[k] = IF k <= Len(before) THEN before[k] ELSE behind[k - Len(before)]
    BY <1>2, <1>3, ConcatProperties
  <1> HIDE DEF whole, top
  <1>6. ASSUME NEW k \in 1 .. top - 1 PROVE whole[k] = IF k < p THEN s[k] ELSE s[k + 1]
    <2>1. whole[k] = IF k <= p - 1 THEN before[k] ELSE behind[k - (p - 1)]
      BY <1>1, <1>2, <1>3, <1>5
    <2>2. CASE k < p
      BY <1>1, <1>2, <2>1, <2>2
    <2>3. CASE ~(k < p)
      <3> DEFINE j == k - (p - 1)
      <3>1. j \in 1 .. top - p /\ p + j = k + 1 /\ whole[k] = behind[j]
        BY <1>1, <2>1, <2>3
      <3> HIDE DEF j
      <3>2. whole[k] = s[k + 1]
        BY <1>3, <3>1
      <3> QED
        BY <2>3, <3>2
    <2> QED
      BY <2>2, <2>3
  <1>7. DOMAIN whole = 1 .. top - 1 /\ whole = [k \in DOMAIN whole |-> whole[k]]
    <2>1. Len(whole) = top - 1
      BY <1>1, <1>2, <1>3, <1>5
    <2> QED
      BY <1>5, <2>1, LenProperties
  <1> QED
    BY <1>4, <1>6, <1>7 DEF top

LEMMA Takes ==
  ASSUME NothingIsApart, NEW t \in Tables, NEW r \in Runtimes, NEW n \in Names, Find(t, r, n) # 0
  PROVE  BindingsOf(DeleteIn(t, r, n), r) = Dictionary!Without(BindingsOf(t, r), n)
  <1> DEFINE u == DeleteIn(t, r, n)
             d == Find(t, r, n)
             A == Active(t, r)
             B == Active(u, r)
             size == Cardinality(A)
             b == BindingsOf(t, r)
             p == Rank(A, d)
  <1>1. /\ Len(t) \in Nat /\ DOMAIN t = 1 .. Len(t) /\ A \in SUBSET (1 .. Len(t))
        /\ A = {i \in DOMAIN t : t[i].runtime = r}
    BY TableFacts
  <1>2. b = [k \in 1 .. size |-> Pair(t, Nth(A, k))] /\ size \in Nat
    BY Enumeration
  <1>3. Dictionary!Bound(b, n)
    BY ListsFound
  <1>4. /\ d \in A /\ t[d].name = n
        /\ \A j \in A : t[j].name = n => j = d
    BY <1>1, FindFacts
  <1>5. /\ u \in Tables /\ B = A \ {d}
        /\ \A j \in DOMAIN t \ {d} : Pair(u, j) = Pair(t, j)
    BY Deleting
  <1>6. BindingsOf(u, r) = [k \in 1 .. Cardinality(B) |-> Pair(u, Nth(B, k))]
    BY <1>5, Enumeration
  <1>7. b \in Seq(Names \X (Values \cup {Nothing}))
    BY Listed
  <1> HIDE DEF A, B, b, d, u
  <1>8. /\ Cardinality(A \ {d}) = Cardinality(A) - 1
        /\ \A k \in 1 .. Cardinality(A) - 1 : k < Rank(A, d) => Nth(A \ {d}, k) = Nth(A, k)
        /\ \A k \in 1 .. Cardinality(A) - 1 :
             ~(k < Rank(A, d)) => Nth(A \ {d}, k) = Nth(A, k + 1)
    <2>1. Len(t) \in Nat /\ A \in SUBSET (1 .. Len(t)) /\ d \in A
      BY <1>1, <1>4
    <2> QED
      BY ONLY <2>1, RankRemoved, Zenon
  <1>9. /\ p \in 1 .. size /\ Nth(A, p) = d
        /\ \A k \in 1 .. size : Nth(A, k) \in A /\ Rank(A, Nth(A, k)) = k
    BY <1>1, <1>4, NthFacts
  <1> HIDE DEF size, p
  <1>10. p = CHOOSE i \in DOMAIN b : b[i][1] = n
    <2>1. DOMAIN b = 1 .. size /\ \A k \in 1 .. size : b[k][1] = t[Nth(A, k)].name
      BY <1>2 DEF Pair
    <2>2. \A k \in 1 .. size : b[k][1] = n => k = p
      BY <1>4, <1>9, <2>1 DEF p
    <2>3. p \in DOMAIN b /\ b[p][1] = n
      BY <1>4, <1>9, <2>1
    <2> QED
      BY <2>1, <2>2, <2>3
  <1>11. Len(b) = size
    BY <1>2, <1>7, LenProperties
  <1>12. Dictionary!Without(b, n) = RemoveAt(b, p)
    BY <1>3, <1>10 DEF Dictionary!Without, Dictionary!RemoveAt, RemoveAt
  <1>13. RemoveAt(b, p) = [k \in 1 .. Len(b) - 1 |-> IF k < p THEN b[k] ELSE b[k + 1]]
    <2>1. p \in 1 .. Len(b)
      BY <1>9, <1>11
    <2> QED
      BY <1>7, <2>1, RemoveAtFacts
  <1>14. ASSUME NEW k \in 1 .. size - 1
         PROVE  Pair(u, Nth(B, k)) = IF k < p THEN b[k] ELSE b[k + 1]
    <2> DEFINE l == IF k < p THEN k ELSE k + 1
    <2>1. l \in 1 .. size /\ l # p /\ Nth(B, k) = Nth(A, l)
      <3>1. k \in 1 .. Cardinality(A) - 1 /\ size \in Nat /\ p \in 1 .. size
        BY <1>2, <1>9 DEF size
      <3>2. Nth(B, k) = IF k < p THEN Nth(A, k) ELSE Nth(A, k + 1)
        BY <1>5, <1>8, <3>1 DEF p
      <3> QED
        BY <3>1, <3>2
    <2> HIDE DEF l
    <2>2. Nth(A, l) \in A /\ Nth(A, l) # d
      BY <1>9, <2>1 DEF p
    <2>3. Pair(u, Nth(B, k)) = Pair(t, Nth(A, l)) /\ Pair(t, Nth(A, l)) = b[l]
      BY <1>1, <1>2, <1>5, <2>1, <2>2
    <2> QED
      BY <2>3 DEF l
  <1>15. Cardinality(B) = size - 1
    BY <1>5, <1>8 DEF size
  <1>16. BindingsOf(u, r) = RemoveAt(b, p)
    BY <1>6, <1>11, <1>13, <1>14, <1>15
  <1> QED
    BY <1>12, <1>16 DEF b, u

(***************************************************************************)
(* Restoring a snapshot: two loops over tables.                            *)
(***************************************************************************)
\* The passes of the first loop, over the names that were listed.
Kept(pairs, n) == \E i \in DOMAIN pairs : pairs[i][1] = n
Removals(f, t, r, pairs, names) ==
  /\ f \in [0 .. Len(names) -> Tables] /\ f[0] = t
  /\ \A k \in 1 .. Len(names) :
       f[k] = IF Kept(pairs, names[k]) THEN f[k - 1] ELSE DeleteIn(f[k - 1], r, names[k])

\* The names are listed once, and removed in that order when they are not kept.
LEMMA Removing ==
  ASSUME NothingIsApart, NEW t \in Tables, NEW r \in Runtimes, NEW pairs,
         NEW names, names = GlobalNames(t, r), NEW top, top = Len(names)
  PROVE  /\ top \in Nat /\ \A k \in 1 .. top : names[k] \in Names
         /\ \A p \in Contents(t, r) : \E k \in 1 .. top : names[k] = p[1]
         /\ \E f : Removals(f, t, r, pairs, names) /\ RemoveOthers(t, r, pairs) = f[top]
  <1> DEFINE A == Active(t, r)
             size == Cardinality(A)
  <1>1. /\ Len(t) \in Nat /\ DOMAIN t = 1 .. Len(t) /\ A \in SUBSET (1 .. Len(t))
        /\ A = {i \in DOMAIN t : t[i].runtime = r}
    BY TableFacts
  <1>2. size \in Nat /\ names = [k \in 1 .. size |-> t[Nth(A, k)].name]
    BY Enumeration
  <1> HIDE DEF A
  <1>3. /\ \A k \in 1 .. size : Nth(A, k) \in A
        /\ \A i \in A : Rank(A, i) \in 1 .. size /\ Nth(A, Rank(A, i)) = i
    BY <1>1, NthFacts
  <1>4. \A i \in A : t[i].name \in Names
    BY <1>1 DEF Tables
  <1> HIDE DEF size
  <1>5. top = size /\ names \in Seq(Names) /\ \A k \in 1 .. size : names[k] \in Names
    <2>1. names \in [1 .. size -> Names]
      BY <1>2, <1>3, <1>4
    <2>2. names \in Seq(Names)
      BY <1>2, <2>1, SeqDef
    <2>3. DOMAIN names = 1 .. size /\ DOMAIN names = 1 .. Len(names) /\ Len(names) \in Nat
      BY <2>1, <2>2, LenProperties
    <2> QED
      BY <1>2, <2>1, <2>2, <2>3
  <1>6. ASSUME NEW p \in Contents(t, r) PROVE \E k \in 1 .. size : names[k] = p[1]
    <2>1. PICK i \in A : p = Pair(t, i)
      BY DEF Contents, A
    <2>2. p[1] = t[i].name
      BY <2>1 DEF Pair
    <2> QED
      BY <1>2, <1>3, <2>2
  <1> DEFINE pass == [k \in 1 .. top |-> [u \in Tables |->
                       IF Kept(pairs, names[k]) THEN u ELSE DeleteIn(u, r, names[k])]]
  <1>7. pass \in [1 .. top -> [Tables -> Tables]]
    <2>1. ASSUME NEW k \in 1 .. top, NEW u \in Tables
          PROVE  DeleteIn(u, r, names[k]) \in Tables
      BY <1>5, <2>1, DeletedContents
    <2> QED
      BY <2>1
  <1>8. top \in Nat
    BY <1>2, <1>5
  <1>9. PICK f : Repeats(f, top, Tables, t, pass)
    <2> HIDE DEF pass
    <2> QED
      BY <1>7, <1>8, Repetition
  <1>10. ASSUME NEW k \in 1 .. top
         PROVE  f[k] = IF Kept(pairs, names[k]) THEN f[k - 1] ELSE DeleteIn(f[k - 1], r, names[k])
    <2>1. f[k - 1] \in Tables /\ f[k] = pass[k][f[k - 1]]
      BY <1>8, <1>9 DEF Repeats
    <2> QED
      BY <2>1
  <1> DEFINE IsRun(g) ==
               g = [k \in 0 .. top |->
                      IF k = 0 THEN t
                      ELSE IF \E i \in DOMAIN pairs : pairs[i][1] = names[k] THEN g[k - 1]
                      ELSE DeleteIn(g[k - 1], r, names[k])]
             after == CHOOSE g : IsRun(g)
             T == {k \in 0 .. top : after[k] = f[k]}
  <1>11. f \in [0 .. top -> Tables] /\ f[0] = t /\ IsRun(f)
    <2>1. f \in [0 .. top -> Tables] /\ f[0] = t
      BY <1>9 DEF Repeats
    <2> QED
      BY <1>8, <1>10, <2>1 DEF Kept
  <1>12. IsRun(after)
    <2> HIDE DEF IsRun
    <2> QED
      BY <1>11
  <1>13. RemoveOthers(t, r, pairs) = after[top]
    BY DEF RemoveOthers
  <1> HIDE DEF after
  <1>14. 0 \in T
    BY <1>8, <1>11, <1>12
  <1>15. ASSUME NEW k \in 0 .. top - 1, k \in T PROVE k + 1 \in T
    <2>1. PICK m \in 1 .. top : m = k + 1
      BY <1>8
    <2>2. m - 1 = k /\ m # 0 /\ m \in 0 .. top /\ after[k] = f[k]
      BY <1>8, <1>15, <2>1
    <2>3. after[m] = IF Kept(pairs, names[m]) THEN after[m - 1] ELSE DeleteIn(after[m - 1], r, names[m])
      BY <1>12, <2>2 DEF Kept
    <2>4. f[m] = IF Kept(pairs, names[m]) THEN f[m - 1] ELSE DeleteIn(f[m - 1], r, names[m])
      BY <1>10, <2>1
    <2> QED
      BY <2>1, <2>2, <2>3, <2>4
  <1> HIDE DEF T
  <1>16. top \in T
    <2>1. \A k \in 0 .. top - 1 : k \in T => k + 1 \in T
      BY <1>15
    <2>2. \A k \in 0 .. top : k \in T
      BY <1>8, <1>14, <2>1, UpTo
    <2> QED
      BY <1>8, <2>2
  <1>17. RemoveOthers(t, r, pairs) = f[top]
    BY <1>13, <1>16 DEF T
  <1>18. Removals(f, t, r, pairs, names)
    BY <1>10, <1>11 DEF Removals
  <1> QED
    BY <1>5, <1>6, <1>8, <1>17, <1>18

\* The pairs are bound in their order.
LEMMA Setting ==
  ASSUME NothingIsApart, NEW t \in Tables, NEW r \in Runtimes, NEW pairs \in Seq(Names \X Values),
         NEW top, top = Len(pairs)
  PROVE  \E f \in [0 .. top -> Tables] :
           /\ f[0] = t /\ SetAll(t, r, pairs) = f[top]
           /\ \A k \in 1 .. top : f[k] = BindIn(f[k - 1], r, pairs[k][1], pairs[k][2])
  <1>1. top \in Nat /\ \A k \in 1 .. top : pairs[k][1] \in Names /\ pairs[k][2] \in Values
    <2>1. top \in Nat /\ \A k \in 1 .. top : pairs[k] \in Names \X Values
      BY ElementOfSeq, LenProperties
    <2> QED
      BY <2>1
  <1> DEFINE pass == [k \in 1 .. top |-> [u \in Tables |->
                        BindIn(u, r, pairs[k][1], pairs[k][2])]]
  <1>2. pass \in [1 .. top -> [Tables -> Tables]]
    <2>1. ASSUME NEW k \in 1 .. top, NEW u \in Tables
          PROVE  BindIn(u, r, pairs[k][1], pairs[k][2]) \in Tables
      BY <1>1, <2>1, BoundContents
    <2> QED
      BY <2>1
  <1>3. PICK f : Repeats(f, top, Tables, t, pass)
    <2> HIDE DEF pass
    <2> QED
      BY <1>1, <1>2, Repetition
  <1>4. ASSUME NEW k \in 1 .. top
        PROVE  f[k] = BindIn(f[k - 1], r, pairs[k][1], pairs[k][2])
    <2>1. k - 1 \in 0 .. top
      BY <1>1
    <2>2. f[k - 1] \in Tables /\ f[k] = pass[k][f[k - 1]]
      <3> HIDE DEF pass
      <3> QED
        BY <1>3, <2>1 DEF Repeats
    <2> QED
      BY <2>2
  <1> DEFINE IsRun(g) ==
               g = [k \in 0 .. top |->
                      IF k = 0 THEN t
                      ELSE BindIn(g[k - 1], r, pairs[k][1], pairs[k][2])]
             after == CHOOSE g : IsRun(g)
             T == {k \in 0 .. top : after[k] = f[k]}
  <1>5. f \in [0 .. top -> Tables] /\ f[0] = t /\ IsRun(f)
    <2>1. f \in [0 .. top -> Tables] /\ f[0] = t
      BY <1>3 DEF Repeats
    <2> QED
      BY <1>1, <1>4, <2>1
  <1>6. IsRun(after)
    <2> HIDE DEF IsRun
    <2> QED
      BY <1>5
  <1>7. SetAll(t, r, pairs) = after[top]
    BY DEF SetAll
  <1> HIDE DEF after
  <1>8. 0 \in T
    BY <1>1, <1>5, <1>6
  <1>9. ASSUME NEW k \in 0 .. top - 1, k \in T PROVE k + 1 \in T
    <2>1. PICK m \in 1 .. top : m = k + 1
      BY <1>1
    <2>2. m - 1 = k /\ m # 0 /\ m \in 0 .. top /\ after[k] = f[k]
      BY <1>1, <1>9, <2>1
    <2>3. after[m] = BindIn(after[m - 1], r, pairs[m][1], pairs[m][2])
      BY <1>6, <2>2
    <2>4. f[m] = BindIn(f[m - 1], r, pairs[m][1], pairs[m][2])
      BY <1>4, <2>1
    <2> QED
      BY <2>1, <2>2, <2>3, <2>4
  <1> HIDE DEF T
  <1>10. top \in T
    <2>1. \A k \in 0 .. top - 1 : k \in T => k + 1 \in T
      BY <1>9
    <2>2. \A k \in 0 .. top : k \in T
      BY <1>1, <1>8, <2>1, UpTo
    <2> QED
      BY <1>1, <2>2
  <1>11. SetAll(t, r, pairs) = f[top]
    BY <1>7, <1>10 DEF T
  <1> QED
    BY <1>4, <1>5, <1>11

\* What both loops keep: the slots of other runtimes.
LEMMA AlikeFurther ==
  ASSUME NEW t, NEW u, NEW w, NEW q, Alike(t, u, q), Alike(u, w, q)
  PROVE  Alike(t, w, q)
  BY DEF Alike

LEMMA AlikeThroughout ==
  ASSUME NEW top \in Nat, NEW f \in [0 .. top -> Tables], NEW r \in Runtimes,
         \A k \in 1 .. top : \A q \in Runtimes \ {r} : Alike(f[k - 1], f[k], q)
  PROVE  \A q \in Runtimes \ {r} : Alike(f[0], f[top], q)
  <1> SUFFICES ASSUME NEW q \in Runtimes \ {r} PROVE Alike(f[0], f[top], q)
    OBVIOUS
  <1> DEFINE T == {k \in 0 .. top : Alike(f[0], f[k], q)}
  <1>1. 0 \in T
    BY DEF Alike
  <1>2. ASSUME NEW k \in 0 .. top - 1, k \in T PROVE k + 1 \in T
    <2>1. PICK m \in 1 .. top : m = k + 1
      OBVIOUS
    <2>2. m - 1 = k /\ Alike(f[m - 1], f[m], q) /\ Alike(f[0], f[k], q)
      BY <1>2, <2>1
    <2>3. Alike(f[0], f[m], q)
      BY <2>2, AlikeFurther
    <2> QED
      BY <2>1, <2>3
  <1> HIDE DEF T
  <1>3. top \in T
    <2>1. \A k \in 0 .. top - 1 : k \in T => k + 1 \in T
      BY <1>2
    <2>2. \A k \in 0 .. top : k \in T
      BY <1>1, <2>1, UpTo
    <2> QED
      BY <2>2
  <1> QED
    BY <1>3 DEF T

\* What is left of a runtime's slots is what the snapshot has names for.
LEMMA Removed ==
  ASSUME NothingIsApart, NEW t \in Tables, NEW r \in Runtimes, NEW pairs,
         NEW u, u = RemoveOthers(t, r, pairs)
  PROVE  /\ u \in Tables /\ \A q \in Runtimes \ {r} : Alike(t, u, q)
         /\ \A p \in Contents(u, r) : \E i \in DOMAIN pairs : pairs[i][1] = p[1]
  <1> DEFINE names == GlobalNames(t, r)
             top == Len(names)
  <1>1. names = GlobalNames(t, r) /\ top = Len(names)
    OBVIOUS
  <1> HIDE DEF names, top
  <1>2. /\ top \in Nat /\ \A k \in 1 .. top : names[k] \in Names
        /\ \A p \in Contents(t, r) : \E k \in 1 .. top : names[k] = p[1]
    BY <1>1, Removing
  <1>3. PICK f : Removals(f, t, r, pairs, names) /\ u = f[top]
    BY <1>1, Removing
  <1>4. /\ f \in [0 .. top -> Tables] /\ f[0] = t /\ u = f[top]
        /\ \A k \in 1 .. top :
             f[k] = IF Kept(pairs, names[k]) THEN f[k - 1] ELSE DeleteIn(f[k - 1], r, names[k])
    BY <1>1, <1>3 DEF Removals
  <1>5. ASSUME NEW k \in 1 .. top
        PROVE  /\ f[k - 1] \in Tables /\ f[k] \in Tables
               /\ \A q \in Runtimes \ {r} : Alike(f[k - 1], f[k], q)
               /\ Contents(f[k], r) =
                    {p \in Contents(f[k - 1], r) : p[1] # names[k] \/ Kept(pairs, names[k])}
    <2>1. f[k - 1] \in Tables /\ f[k] \in Tables /\ names[k] \in Names
      <3>1. k - 1 \in 0 .. top /\ k \in 0 .. top
        BY <1>2
      <3> QED
        BY <1>2, <1>4, <3>1
    <2>2. CASE Kept(pairs, names[k])
      <3>1. f[k] = f[k - 1]
        BY <1>4, <2>2
      <3> QED
        BY <2>1, <2>2, <3>1 DEF Alike
    <2>3. CASE ~Kept(pairs, names[k])
      <3>1. f[k] = DeleteIn(f[k - 1], r, names[k])
        BY <1>4, <2>3
      <3>2. /\ \A q \in Runtimes \ {r} : Alike(f[k - 1], f[k], q)
            /\ Contents(f[k], r) = {p \in Contents(f[k - 1], r) : p[1] # names[k]}
        BY <2>1, <3>1, DeletedContents
      <3> QED
        BY <2>1, <2>3, <3>2
    <2> QED
      BY <2>2, <2>3
  <1>6. \A q \in Runtimes \ {r} : Alike(t, u, q)
    <2>1. \A k \in 1 .. top : \A q \in Runtimes \ {r} : Alike(f[k - 1], f[k], q)
      BY <1>5
    <2>2. \A q \in Runtimes \ {r} : Alike(f[0], f[top], q)
      BY <1>2, <1>4, <2>1, AlikeThroughout, ZenonT(20)
    <2> QED
      BY <1>2, <1>4, <2>2
  <1> DEFINE T == {k \in 0 .. top :
                     \A p \in Contents(f[k], r) :
                       p \in Contents(t, r) /\ \A j \in 1 .. k : p[1] # names[j] \/ Kept(pairs, p[1])}
  <1>7. 0 \in T
    BY <1>2, <1>4
  <1>8. ASSUME NEW k \in 0 .. top - 1, k \in T PROVE k + 1 \in T
    <2>1. PICK m \in 1 .. top : m = k + 1
      BY <1>2
    <2>2. m - 1 = k /\ m \in 0 .. top
      BY <1>2, <2>1
    <2>3. ASSUME NEW p \in Contents(f[m], r)
          PROVE  p \in Contents(t, r) /\ \A j \in 1 .. m : p[1] # names[j] \/ Kept(pairs, p[1])
      <3>1. p \in Contents(f[k], r) /\ (p[1] # names[m] \/ Kept(pairs, names[m]))
        BY <1>5, <2>2
      <3>2. p \in Contents(t, r) /\ \A j \in 1 .. k : p[1] # names[j] \/ Kept(pairs, p[1])
        BY <1>8, <3>1
      <3>3. \A j \in 1 .. m : j \in 1 .. k \/ j = m
        BY <2>1
      <3> QED
        BY <3>1, <3>2, <3>3
    <2> QED
      BY <2>1, <2>2, <2>3
  <1> HIDE DEF T
  <1>9. top \in T
    <2>1. \A k \in 0 .. top - 1 : k \in T => k + 1 \in T
      BY <1>8
    <2>2. \A k \in 0 .. top : k \in T
      BY <1>2, <1>7, <2>1, UpTo
    <2> QED
      BY <1>2, <2>2
  <1>10. ASSUME NEW p \in Contents(u, r) PROVE Kept(pairs, p[1])
    <2>1. p \in Contents(t, r) /\ \A j \in 1 .. top : p[1] # names[j] \/ Kept(pairs, p[1])
      BY <1>4, <1>9 DEF T
    <2> QED
      BY <1>2, <2>1
  <1>11. u \in Tables
    BY <1>2, <1>4
  <1> QED
    BY <1>6, <1>10, <1>11 DEF Kept

\* The pairs of a sequence with one pair for a name.
OneEach(s) == \A k, l \in DOMAIN s : s[k][1] = s[l][1] => k = l

\* What the second loop leaves: the pairs it set, and what had other names.
LEMMA AllSet ==
  ASSUME NothingIsApart, NEW t \in Tables, NEW r \in Runtimes, NEW pairs \in Seq(Names \X Values),
         OneEach(pairs), \A p \in Contents(t, r) : Kept(pairs, p[1]),
         NEW u, u = SetAll(t, r, pairs)
  PROVE  /\ u \in Tables /\ \A q \in Runtimes \ {r} : Alike(t, u, q)
         /\ Contents(u, r) = {pairs[k] : k \in DOMAIN pairs}
  <1> DEFINE top == Len(pairs)
  <1>1. top \in Nat /\ DOMAIN pairs = 1 .. top
    BY LenProperties
  <1>2. PICK f \in [0 .. top -> Tables] :
          /\ f[0] = t /\ u = f[top]
          /\ \A k \in 1 .. top : f[k] = BindIn(f[k - 1], r, pairs[k][1], pairs[k][2])
    BY Setting
  <1>3. ASSUME NEW k \in 1 .. top
        PROVE  pairs[k][1] \in Names /\ pairs[k][2] \in Values
               /\ pairs[k] = <<pairs[k][1], pairs[k][2]>>
    <2>1. pairs[k] \in Names \X Values
      BY <1>1, ElementOfSeq
    <2> QED
      BY <2>1
  <1> HIDE DEF top
  <1>4. ASSUME NEW k \in 1 .. top
        PROVE  /\ f[k - 1] \in Tables
               /\ \A q \in Runtimes \ {r} : Alike(f[k - 1], f[k], q)
               /\ Contents(f[k], r) =
                    {p \in Contents(f[k - 1], r) : p[1] # pairs[k][1]} \cup {pairs[k]}
    <2>1. f[k - 1] \in Tables
      <3>1. k - 1 \in 0 .. top
        BY <1>1
      <3> QED
        BY <1>2, <3>1
    <2>2. f[k] = BindIn(f[k - 1], r, pairs[k][1], pairs[k][2])
      BY <1>2
    <2>3. /\ \A q \in Runtimes \ {r} : Alike(f[k - 1], f[k], q)
          /\ Contents(f[k], r) =
               {p \in Contents(f[k - 1], r) : p[1] # pairs[k][1]}
                 \cup {<<pairs[k][1], pairs[k][2]>>}
      BY <1>3, <2>1, <2>2, BoundContents
    <2> QED
      BY <1>3, <2>1, <2>3
  <1>5. \A q \in Runtimes \ {r} : Alike(t, u, q)
    <2>1. \A k \in 1 .. top : \A q \in Runtimes \ {r} : Alike(f[k - 1], f[k], q)
      BY <1>4
    <2>2. \A q \in Runtimes \ {r} : Alike(f[0], f[top], q)
      BY <1>1, <1>2, <2>1, AlikeThroughout, ZenonT(20)
    <2> QED
      BY <1>1, <1>2, <2>2
  <1> DEFINE Old(k) == {p \in Contents(t, r) : \A j \in 1 .. k : pairs[j][1] # p[1]}
             T == {k \in 0 .. top : Contents(f[k], r) = Old(k) \cup {pairs[j] : j \in 1 .. k}}
  <1>6. 0 \in T
    <2>1. 1 .. 0 = {} /\ 0 \in 0 .. top
      BY <1>1
    <2> QED
      BY <1>2, <2>1
  <1>7. ASSUME NEW k \in 0 .. top - 1, k \in T PROVE k + 1 \in T
    <2>1. PICK m \in 1 .. top : m = k + 1
      BY <1>1
    <2>2. m - 1 = k /\ m \in 0 .. top /\ 1 .. m = (1 .. k) \cup {m} /\ m \notin 1 .. k
      BY <1>1, <2>1
    <2>3. Contents(f[m], r) = {p \in Contents(f[k], r) : p[1] # pairs[m][1]} \cup {pairs[m]}
      BY <1>4, <2>2
    <2>4. Contents(f[k], r) = Old(k) \cup {pairs[j] : j \in 1 .. k}
      BY <1>7
    <2>5. \A j \in 1 .. k : pairs[j][1] # pairs[m][1]
      <3>1. \A j \in 1 .. k : j \in DOMAIN pairs /\ j # m
        BY <1>1, <2>2
      <3>2. m \in DOMAIN pairs
        BY <1>1, <2>1
      <3> QED
        BY <3>1, <3>2 DEF OneEach
    <2>6. {p \in Old(k) : p[1] # pairs[m][1]} = Old(m)
      BY <2>2
    <2>7. {p \in {pairs[j] : j \in 1 .. k} : p[1] # pairs[m][1]} = {pairs[j] : j \in 1 .. k}
      BY <2>5
    <2>8. {pairs[j] : j \in 1 .. m} = {pairs[j] : j \in 1 .. k} \cup {pairs[m]}
      BY <2>2
    <2> HIDE DEF Old
    <2>9. Contents(f[m], r) = Old(m) \cup {pairs[j] : j \in 1 .. m}
      BY <2>3, <2>4, <2>6, <2>7, <2>8
    <2> QED
      BY <2>1, <2>2, <2>9
  <1> HIDE DEF T
  <1>8. top \in T
    <2>1. \A k \in 0 .. top - 1 : k \in T => k + 1 \in T
      BY <1>7
    <2>2. \A k \in 0 .. top : k \in T
      BY <1>1, <1>6, <2>1, UpTo
    <2> QED
      BY <1>1, <2>2
  <1>9. Contents(u, r) = {pairs[k] : k \in 1 .. top}
    <2>1. Contents(u, r) = Old(top) \cup {pairs[j] : j \in 1 .. top}
      BY <1>2, <1>8 DEF T
    <2>2. Old(top) = {}
      BY <1>1 DEF Kept
    <2> QED
      BY <2>1, <2>2
  <1>10. u \in Tables
    BY <1>1, <1>2
  <1> QED
    BY <1>1, <1>5, <1>9, <1>10

\* Sequences with one pair for a name are as long as the pairs are many.
LEMMA SameLength ==
  ASSUME NEW S, NEW s \in Seq(S), NEW w \in Seq(S), OneEach(s), OneEach(w),
         {s[k] : k \in DOMAIN s} = {w[k] : k \in DOMAIN w}
  PROVE  Len(s) = Len(w)
  <1>1. ASSUME NEW x \in Seq(S), OneEach(x)
        PROVE  Len(x) \in Nat /\ ExistsBijection(1 .. Len(x), {x[k] : k \in DOMAIN x})
    <2> DEFINE m == Len(x)
               E == {x[k] : k \in DOMAIN x}
    <2>1. m \in Nat /\ DOMAIN x = 1 .. m /\ x = [k \in 1 .. m |-> x[k]]
      BY LenProperties
    <2>2. \A a, b \in 1 .. m : x[a] = x[b] => a = b
      BY <1>1, <2>1 DEF OneEach
    <2>3. x \in [1 .. m -> E] /\ \A e \in E : \E k \in 1 .. m : x[k] = e
      BY <2>1
    <2> HIDE DEF m, E
    <2>4. x \in Bijection(1 .. m, E)
      BY <2>2, <2>3, Fun_IsBij
    <2>5. ExistsBijection(1 .. m, E)
      BY <2>4, Fun_ExistsBij
    <2> QED
      BY <2>1, <2>5 DEF m, E
  <1> DEFINE E == {s[k] : k \in DOMAIN s}
  <1>2. /\ Len(s) \in Nat /\ ExistsBijection(1 .. Len(s), E)
        /\ Len(w) \in Nat /\ ExistsBijection(1 .. Len(w), E)
    BY <1>1
  <1> HIDE DEF E
  <1> QED
    BY <1>2, Fun_NatBijSame

\* A snapshot restored: what is listed then are its pairs, and nothing changes
\* for other runtimes.
LEMMA Restored ==
  ASSUME NothingIsApart, NEW t \in Tables, NEW r \in Runtimes, NEW pairs \in Seq(Names \X Values),
         OneEach(pairs), NEW u, u = SetAll(RemoveOthers(t, r, pairs), r, pairs)
  PROVE  /\ u \in Tables /\ \A q \in Runtimes \ {r} : Alike(t, u, q)
         /\ Contents(u, r) = {pairs[k] : k \in DOMAIN pairs}
         /\ Len(BindingsOf(u, r)) = Len(pairs)
  <1> DEFINE less == RemoveOthers(t, r, pairs)
             b == BindingsOf(u, r)
             S == Names \X (Values \cup {Nothing})
  <1>1. /\ less \in Tables /\ \A q \in Runtimes \ {r} : Alike(t, less, q)
        /\ \A p \in Contents(less, r) : Kept(pairs, p[1])
    BY Removed DEF Kept
  <1>2. u = SetAll(less, r, pairs)
    OBVIOUS
  <1> HIDE DEF less
  <1>3. /\ u \in Tables /\ \A q \in Runtimes \ {r} : Alike(less, u, q)
        /\ Contents(u, r) = {pairs[k] : k \in DOMAIN pairs}
    BY <1>1, <1>2, AllSet
  <1>4. \A q \in Runtimes \ {r} : Alike(t, u, q)
    BY <1>1, <1>3, AlikeFurther
  <1>5. b \in Seq(S) /\ {b[k] : k \in DOMAIN b} = Contents(u, r) /\ OneEach(b)
    BY <1>3, Listed DEF OneEach
  <1>6. pairs \in Seq(S)
    BY SeqMonotonic
  <1> HIDE DEF b, S
  <1>7. Len(b) = Len(pairs)
    BY <1>3, <1>5, <1>6, SameLength
  <1> QED
    BY <1>3, <1>4, <1>7 DEF b

\* A runtime destroyed: its slots keep their names.
LEMMA Destroying ==
  ASSUME NothingIsApart, NEW t \in Tables, NEW r \in Runtimes, NEW u,
         u = [i \in DOMAIN t |-> IF t[i].runtime = r THEN Slot(r, t[i].name, Nothing) ELSE t[i]]
  PROVE  u \in Tables /\ \A q \in Runtimes \ {r} : Alike(t, u, q)
  <1>1. /\ t \in Seq(Row) /\ Len(t) \in Nat /\ DOMAIN t = 1 .. Len(t)
        /\ \A i \in DOMAIN t : t[i] \in Row
        /\ \A q \in Runtimes : Active(t, q) = {j \in DOMAIN t : t[j].runtime = q}
    BY TableFacts
  <1>2. ASSUME NEW i \in DOMAIN t
        PROVE  /\ u[i] \in Row /\ u[i].runtime = t[i].runtime /\ u[i].name = t[i].name
               /\ t[i].runtime # r => u[i] = t[i]
    <2>1. t[i].name \in Names \cup {Nothing}
      BY <1>1 DEF Row
    <2> QED
      BY <1>1, <2>1 DEF Slot, Row
  <1>3. DOMAIN u = DOMAIN t /\ u \in Seq(Row)
    <2>1. u \in [1 .. Len(t) -> Row]
      BY <1>1, <1>2
    <2> QED
      BY <1>1, <2>1, SeqDef
  <1>4. u \in Tables
    <2>1. Distinct(u)
      BY <1>2, <1>3 DEF Tables, Distinct
    <2>2. \A i \in DOMAIN u : u[i].runtime \in Runtimes => u[i].name \in Names
      BY <1>2, <1>3 DEF Tables
    <2> QED
      BY <1>3, <2>1, <2>2 DEF Tables
  <1>5. ASSUME NEW q \in Runtimes \ {r} PROVE Alike(t, u, q)
    <2>1. Active(u, q) = {j \in DOMAIN u : u[j].runtime = q}
      BY <1>4, TableFacts
    <2>2. Active(t, q) = {j \in DOMAIN t : t[j].runtime = q}
      BY <1>1
    <2>3. Active(u, q) = Active(t, q)
      BY <1>2, <1>3, <2>1, <2>2
    <2> QED
      BY <1>1, <1>2, <2>3 DEF Alike, Pair
  <1> QED
    BY <1>4, <1>5

(***************************************************************************)
(* The invariant.                                                          *)
(***************************************************************************)
\* The slots are a table in which the names of a runtime that is alive have
\* values; a snapshot has one pair for a name.
Inv ==
  /\ slots \in Tables /\ alive \subseteq Runtimes
  /\ \A r \in alive : Contents(slots, r) \subseteq Names \X Values
  /\ snapshot \in [Runtimes -> Seq(Names \X Values)]
  /\ \A r \in Runtimes : OneEach(snapshot[r])

\* What an operation on the slots of one runtime must keep.
LEMMA Changing ==
  ASSUME NothingIsApart, Inv, NEW r \in Runtimes, slots' \in Tables, alive' \subseteq alive,
         \A q \in Runtimes \ {r} : Alike(slots, slots', q),
         r \in alive' => Contents(slots', r) \subseteq Names \X Values,
         UNCHANGED snapshot
  PROVE  Inv'
  <1>1. ASSUME NEW q \in alive' PROVE Contents(slots', q) \subseteq Names \X Values
    <2>1. CASE q = r
      BY <1>1, <2>1
    <2>2. CASE q # r
      <3>1. q \in Runtimes \ {r} /\ q \in alive
        BY <1>1, <2>2 DEF Inv
      <3>2. Contents(slots', q) = Contents(slots, q)
        BY <3>1 DEF Alike, Contents
      <3> QED
        BY <3>1, <3>2 DEF Inv
    <2> QED
      BY <2>1, <2>2
  <1> QED
    BY <1>1 DEF Inv

\* What the dictionaries show of it: those of other runtimes stay.
LEMMA Showing ==
  ASSUME NothingIsApart, Inv, Inv', NEW r \in Runtimes, alive' \ {r} = alive \ {r},
         \A q \in Runtimes \ {r} : Alike(slots, slots', q)
  PROVE  /\ Bindings' = [Bindings EXCEPT ![r] = Bindings'[r]]
         /\ \A q \in Runtimes \ {r} : Bindings'[q] = Bindings[q]
         /\ Bindings[r] = IF r \in alive THEN BindingsOf(slots, r) ELSE <<>>
         /\ Bindings'[r] = IF r \in alive' THEN BindingsOf(slots', r) ELSE <<>>
  <1>1. ASSUME NEW q \in Runtimes \ {r} PROVE Bindings'[q] = Bindings[q]
    <2>1. BindingsOf(slots', q) = BindingsOf(slots, q)
      BY AlikeBindings DEF Inv
    <2> QED
      BY <2>1 DEF Bindings
  <1>2. DOMAIN Bindings = Runtimes /\ DOMAIN Bindings' = Runtimes
        /\ Bindings = [q \in Runtimes |-> Bindings[q]]
        /\ Bindings' = [q \in Runtimes |-> Bindings'[q]]
    BY DEF Bindings
  <1>3. Bindings' = [Bindings EXCEPT ![r] = Bindings'[r]]
    BY <1>1, <1>2
  <1>4. /\ Bindings[r] = IF r \in alive THEN BindingsOf(slots, r) ELSE <<>>
        /\ Bindings'[r] = IF r \in alive' THEN BindingsOf(slots', r) ELSE <<>>
    BY DEF Bindings
  <1> QED
    BY <1>1, <1>3, <1>4

LEMMA InitInv ==
  ASSUME Init
  PROVE  Inv
  <1>1. <<>> \in Seq(Row) /\ <<>> \in Seq(Names \X Values) /\ DOMAIN <<>> = {}
    BY EmptySeq
  <1>2. <<>> \in Tables
    BY <1>1 DEF Tables, Distinct
  <1>3. \A r \in Runtimes : Contents(<<>>, r) = {}
    BY <1>1 DEF Contents, Active
  <1> QED
    BY <1>1, <1>2, <1>3 DEF Init, Inv, OneEach

(***************************************************************************)
(* Every operation keeps the invariant and is one of the dictionary.       *)
(***************************************************************************)
LEMMA BindStep ==
  ASSUME NothingIsApart, Inv, NEW r \in Runtimes, NEW n \in Names, NEW v \in Values, Bind(r, n, v)
  PROVE  Inv' /\ Dictionary!Bind(r, n, v)
  <1>1. r \in alive /\ slots' = BindIn(slots, r, n, v) /\ UNCHANGED <<alive, snapshot>>
    BY DEF Bind
  <1>2. slots \in Tables
    BY DEF Inv
  <1>3. /\ slots' \in Tables /\ \A q \in Runtimes \ {r} : Alike(slots, slots', q)
        /\ Contents(slots', r) = {p \in Contents(slots, r) : p[1] # n} \cup {<<n, v>>}
    BY <1>1, <1>2, BoundContents
  <1>4. Contents(slots', r) \subseteq Names \X Values
    BY <1>1, <1>3 DEF Inv
  <1>5. Inv'
    BY <1>1, <1>3, <1>4, Changing
  <1>6. BindingsOf(slots', r) = Dictionary!Put(BindingsOf(slots, r), n, v)
    BY <1>1, <1>2, Puts
  <1>7. Bindings' = [Bindings EXCEPT ![r] = Dictionary!Put(Bindings[r], n, v)]
    <2>1. /\ Bindings' = [Bindings EXCEPT ![r] = Bindings'[r]]
          /\ Bindings[r] = IF r \in alive THEN BindingsOf(slots, r) ELSE <<>>
          /\ Bindings'[r] = IF r \in alive' THEN BindingsOf(slots', r) ELSE <<>>
      BY <1>1, <1>3, <1>5, Showing
    <2> QED
      BY <1>1, <1>6, <2>1
  <1> QED
    BY <1>1, <1>5, <1>7 DEF Dictionary!Bind

LEMMA DeleteStep ==
  ASSUME NothingIsApart, Inv, NEW r \in Runtimes, NEW n \in Names, Delete(r, n)
  PROVE  Inv' /\ Dictionary!Delete(r, n)
  <1>1. r \in alive /\ slots' = DeleteIn(slots, r, n) /\ Find(slots, r, n) # 0
        /\ UNCHANGED <<alive, snapshot>>
    BY DEF Delete
  <1>2. slots \in Tables
    BY DEF Inv
  <1>3. /\ slots' \in Tables /\ \A q \in Runtimes \ {r} : Alike(slots, slots', q)
        /\ Contents(slots', r) = {p \in Contents(slots, r) : p[1] # n}
    BY <1>1, <1>2, DeletedContents
  <1>4. Contents(slots', r) \subseteq Names \X Values
    BY <1>1, <1>3 DEF Inv
  <1>5. Inv'
    BY <1>1, <1>3, <1>4, Changing
  <1>6. BindingsOf(slots', r) = Dictionary!Without(BindingsOf(slots, r), n)
    BY <1>1, <1>2, Takes
  <1>7. Bindings' = [Bindings EXCEPT ![r] = Dictionary!Without(Bindings[r], n)]
    <2>1. /\ Bindings' = [Bindings EXCEPT ![r] = Bindings'[r]]
          /\ Bindings[r] = IF r \in alive THEN BindingsOf(slots, r) ELSE <<>>
          /\ Bindings'[r] = IF r \in alive' THEN BindingsOf(slots', r) ELSE <<>>
      BY <1>1, <1>3, <1>5, Showing
    <2> QED
      BY <1>1, <1>6, <2>1
  <1> QED
    BY <1>1, <1>5, <1>7 DEF Dictionary!Delete

LEMMA DestroyStep ==
  ASSUME NothingIsApart, Inv, NEW r \in Runtimes, Destroy(r)
  PROVE  Inv' /\ Dictionary!Destroy(r)
  <1>1. /\ r \in alive /\ alive' = alive \ {r} /\ UNCHANGED snapshot
        /\ slots' = [i \in DOMAIN slots |->
                       IF slots[i].runtime = r THEN Slot(r, slots[i].name, Nothing) ELSE slots[i]]
    BY DEF Destroy
  <1>2. slots' \in Tables /\ \A q \in Runtimes \ {r} : Alike(slots, slots', q)
    <2>1. slots \in Tables
      BY DEF Inv
    <2> QED
      BY <1>1, <2>1, Destroying
  <1>3. Inv'
    BY <1>1, <1>2, Changing
  <1>4. Bindings' = [Bindings EXCEPT ![r] = <<>>]
    <2>1. /\ Bindings' = [Bindings EXCEPT ![r] = Bindings'[r]]
          /\ Bindings'[r] = IF r \in alive' THEN BindingsOf(slots', r) ELSE <<>>
      BY <1>1, <1>2, <1>3, Showing
    <2> QED
      BY <1>1, <2>1
  <1> QED
    BY <1>1, <1>3, <1>4 DEF Dictionary!Destroy

LEMMA SnapshotStep ==
  ASSUME NothingIsApart, Inv, NEW r \in Runtimes, Snapshot(r)
  PROVE  Inv' /\ Dictionary!Snapshot(r)
  <1> DEFINE b == BindingsOf(slots, r)
  <1>1. /\ r \in alive /\ snapshot' = [snapshot EXCEPT ![r] = b]
        /\ slots' = slots /\ alive' = alive
    BY DEF Snapshot
  <1>2. /\ b \in Seq(Names \X (Values \cup {Nothing}))
        /\ {b[k] : k \in DOMAIN b} = Contents(slots, r) /\ OneEach(b)
    BY Listed DEF Inv, OneEach
  <1> HIDE DEF b
  <1>3. b \in Seq(Names \X Values)
    <2>1. Len(b) \in Nat /\ DOMAIN b = 1 .. Len(b) /\ b = [k \in 1 .. Len(b) |-> b[k]]
      BY <1>2, LenProperties
    <2>2. \A k \in 1 .. Len(b) : b[k] \in Names \X Values
      BY <1>1, <1>2, <2>1 DEF Inv
    <2>3. b \in [1 .. Len(b) -> Names \X Values]
      BY <2>1, <2>2
    <2> QED
      BY <2>1, <2>3, SeqDef
  <1>4. Inv'
    <2>1. \A q \in Runtimes : snapshot'[q] = IF q = r THEN b ELSE snapshot[q]
      BY <1>1 DEF Inv
    <2>2. snapshot' \in [Runtimes -> Seq(Names \X Values)]
      BY <1>1, <1>3 DEF Inv
    <2>3. \A q \in Runtimes : OneEach(snapshot'[q])
      BY <1>2, <2>1 DEF Inv
    <2> QED
      BY <1>1, <2>2, <2>3 DEF Inv
  <1>5. Bindings' = Bindings /\ Bindings[r] = b
    BY <1>1 DEF Bindings, b
  <1> QED
    BY <1>1, <1>4, <1>5 DEF Dictionary!Snapshot

LEMMA RestoreStep ==
  ASSUME NothingIsApart, Inv, NEW r \in Runtimes, Restore(r)
  PROVE  Inv' /\ Dictionary!Restore(r)
  <1> DEFINE pairs == snapshot[r]
  <1>1. /\ r \in alive /\ UNCHANGED <<alive, snapshot>>
        /\ slots' = SetAll(RemoveOthers(slots, r, pairs), r, pairs)
    BY DEF Restore
  <1>2. slots \in Tables /\ pairs \in Seq(Names \X Values) /\ OneEach(pairs)
    BY DEF Inv
  <1> HIDE DEF pairs
  <1>3. /\ slots' \in Tables /\ \A q \in Runtimes \ {r} : Alike(slots, slots', q)
        /\ Contents(slots', r) = {pairs[k] : k \in DOMAIN pairs}
        /\ Len(BindingsOf(slots', r)) = Len(pairs)
    BY <1>1, <1>2, Restored
  <1>4. Contents(slots', r) \subseteq Names \X Values
    BY <1>2, <1>3, ElementOfSeq
  <1>5. Inv'
    BY <1>1, <1>3, <1>4, Changing
  <1> DEFINE b == BindingsOf(slots', r)
  <1>6. {b[k] : k \in DOMAIN b} = Contents(slots', r)
    BY <1>3, Listed
  <1>7. Bindings'[r] = b /\ \A q \in Runtimes \ {r} : Bindings'[q] = Bindings[q]
    <2>1. /\ \A q \in Runtimes \ {r} : Bindings'[q] = Bindings[q]
          /\ Bindings'[r] = IF r \in alive' THEN b ELSE <<>>
      BY <1>1, <1>3, <1>5, Showing
    <2> QED
      BY <1>1, <2>1
  <1> HIDE DEF b
  <1>8. Dictionary!Pairs(Bindings'[r]) = Dictionary!Pairs(snapshot[r])
        /\ Len(Bindings'[r]) = Len(snapshot[r])
    BY <1>3, <1>6, <1>7 DEF Dictionary!Pairs, pairs, b
  <1> QED
    BY <1>1, <1>5, <1>7, <1>8 DEF Dictionary!Restore

\* Every step keeps the invariant and is one of the dictionary, or changes
\* nothing.
LEMMA NextStep ==
  ASSUME NothingIsApart, Inv, [Next]_vars
  PROVE  Inv' /\ [Dictionary!Next]_Dictionary!vars
  <1>1. CASE UNCHANGED vars
    <2>1. Inv' /\ UNCHANGED Bindings /\ UNCHANGED snapshot
      BY <1>1 DEF vars, Inv, Bindings
    <2> QED
      BY <2>1 DEF Dictionary!vars
  <1>2. ASSUME NEW r \in Runtimes, NEW n \in Names, Delete(r, n)
        PROVE  Inv' /\ Dictionary!Next
    BY <1>2, DeleteStep DEF Dictionary!Next
  <1>3. ASSUME NEW r \in Runtimes, NEW n \in Names, NEW v \in Values, Bind(r, n, v)
        PROVE  Inv' /\ Dictionary!Next
    BY <1>3, BindStep DEF Dictionary!Next
  <1>4. ASSUME NEW r \in Runtimes, Destroy(r)
        PROVE  Inv' /\ Dictionary!Next
    BY <1>4, DestroyStep DEF Dictionary!Next
  <1>5. ASSUME NEW r \in Runtimes, Snapshot(r)
        PROVE  Inv' /\ Dictionary!Next
    BY <1>5, SnapshotStep DEF Dictionary!Next
  <1>6. ASSUME NEW r \in Runtimes, Restore(r)
        PROVE  Inv' /\ Dictionary!Next
    BY <1>6, RestoreStep DEF Dictionary!Next
  <1> QED
    BY <1>1, <1>2, <1>3, <1>4, <1>5, <1>6 DEF Next, DeleteUnbound, CallDestroyed

LEMMA InvHolds ==
  ASSUME NothingIsApart
  PROVE  Spec => []Inv
  <1>1. Init => Inv
    BY InitInv
  <1>2. Inv /\ [Next]_vars => Inv'
    BY NextStep
  <1> QED
    BY <1>1, <1>2, PTL DEF Spec

\* A runtime has one slot at most for a name, however often the name was
\* deleted and bound again, and lookup finds that slot (native_api.py and
\* native_api_environment.py).
THEOREM NamesHaveOneSlot ==
  ASSUME NothingIsApart
  PROVE  Spec => []OneSlotPerName
  <1>1. Inv => OneSlotPerName
    BY FindFacts DEF Inv, OneSlotPerName, TableFacts
  <1> QED
    BY <1>1, InvHolds, PTL

\* The slot list is an ordered dictionary for each runtime: binding, deleting,
\* enumerating and restoring do what they promise, and nothing to another
\* runtime (native_api.py, native_api_environment.py and native_binary.py).
THEOREM SlotsAreDictionaries ==
  ASSUME NothingIsApart
  PROVE  Spec => ImplementsNamespace
  <1>1. Init => Dictionary!Init
    <2> SUFFICES ASSUME Init PROVE Dictionary!Init
      OBVIOUS
    <2>1. slots = <<>> /\ alive = Runtimes /\ snapshot = [r \in Runtimes |-> <<>>]
      BY DEF Init
    <2>2. ASSUME NEW r \in Runtimes PROVE BindingsOf(slots, r) = <<>>
      <3>1. slots \in Tables /\ Contents(slots, r) = {}
        BY <2>1, InitInv DEF Inv, Contents, Active
      <3> DEFINE b == BindingsOf(slots, r)
      <3>2. b \in Seq(Names \X (Values \cup {Nothing})) /\ {b[k] : k \in DOMAIN b} = {}
        BY <3>1, Listed
      <3> HIDE DEF b
      <3>3. DOMAIN b = {}
        BY <3>2
      <3>4. Len(b) = 0
        BY <3>2, <3>3, LenProperties
      <3>5. b = <<>>
        BY <3>2, <3>4, EmptySeq
      <3> QED
        BY <3>5 DEF b
    <2> QED
      BY <2>1, <2>2 DEF Bindings, Dictionary!Init
  <1>2. Inv /\ [Next]_vars => [Dictionary!Next]_Dictionary!vars
    BY NextStep
  <1> QED
    BY <1>1, <1>2, InvHolds, PTL DEF Spec, ImplementsNamespace, Dictionary!Spec
=============================================================================
