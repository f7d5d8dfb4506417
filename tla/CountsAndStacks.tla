-------------------------- MODULE CountsAndStacks --------------------------
(***************************************************************************)
(* How the size of a finite set moves with one change, for the proofs that *)
(* reference counts are exact; the top and the rest of a sequence used as  *)
(* a stack, for the proofs about calls in progress; induction on a set of  *)
(* numbers and the runs of a loop, for the proofs about functions defined  *)
(* by recursion; and the numbers of a finite set counted in order, for the *)
(* proofs about lists whose elements stand for some places of another.     *)
(***************************************************************************)
EXTENDS Integers, FiniteSetTheorems, FunctionTheorems, SequencesExt, SequenceTheorems,
        WellFoundedInduction, TLAPS

\* Adding or removing one element moves the size of a finite set by at most
\* one.
LEMMA CountUpdate ==
  ASSUME NEW F, IsFiniteSet(F), NEW c
  PROVE  /\ Cardinality(F) \in Nat
         /\ Cardinality(F \cup {c}) =
              IF c \in F THEN Cardinality(F) ELSE Cardinality(F) + 1
         /\ Cardinality(F \ {c}) =
              IF c \in F THEN Cardinality(F) - 1 ELSE Cardinality(F)
         /\ c \in F => Cardinality(F) > 0
  <1>1. Cardinality(F) \in Nat
    BY FS_CardinalityType
  <1>2. c \in F => Cardinality(F) > 0
    BY <1>1, FS_EmptySet
  <1> QED
    BY <1>1, <1>2, FS_AddElement, FS_RemoveElement

\* Two finite sets that agree but for one element differ in size by that element.
LEMMA SameButOne ==
  ASSUME NEW F, NEW G, IsFiniteSet(F), IsFiniteSet(G), NEW c, F \ {c} = G \ {c}
  PROVE  Cardinality(F) + (IF c \in G THEN 1 ELSE 0) =
           Cardinality(G) + (IF c \in F THEN 1 ELSE 0)
  <1>1. /\ Cardinality(F) \in Nat
        /\ Cardinality(F \ {c}) = IF c \in F THEN Cardinality(F) - 1 ELSE Cardinality(F)
    BY CountUpdate
  <1>2. /\ Cardinality(G) \in Nat
        /\ Cardinality(G \ {c}) = IF c \in G THEN Cardinality(G) - 1 ELSE Cardinality(G)
    BY CountUpdate
  <1>3. Cardinality(F \ {c}) = Cardinality(G \ {c})
    OBVIOUS
  <1> QED
    BY ONLY <1>1, <1>2, <1>3

\* The cells of a table that hold a value.
Holders(C, f, h) == {b \in C : f[b] = h}

\* One write to a table moves the number of cells that hold a value.
LEMMA CellWrite ==
  ASSUME NEW C, IsFiniteSet(C), NEW f, NEW g, NEW c \in C, NEW h,
         \A b \in C \ {c} : g[b] = f[b]
  PROVE  /\ Cardinality(Holders(C, f, h)) \in Nat
         /\ Cardinality(Holders(C, g, h)) \in Nat
         /\ Cardinality(Holders(C, f, h)) + (IF g[c] = h THEN 1 ELSE 0) =
              Cardinality(Holders(C, g, h)) + (IF f[c] = h THEN 1 ELSE 0)
  <1> DEFINE F == Holders(C, f, h)
             G == Holders(C, g, h)
  <1>1. IsFiniteSet(F) /\ (c \in F <=> f[c] = h)
    BY FS_Subset DEF Holders
  <1>2. g[c] = h => G = F \cup {c}
    BY DEF Holders
  <1>3. g[c] # h => G = F \ {c}
    BY DEF Holders
  <1> HIDE DEF F, G
  <1>4. /\ Cardinality(F) \in Nat
        /\ Cardinality(F \cup {c}) =
             IF c \in F THEN Cardinality(F) ELSE Cardinality(F) + 1
        /\ Cardinality(F \ {c}) =
             IF c \in F THEN Cardinality(F) - 1 ELSE Cardinality(F)
        /\ c \in F => Cardinality(F) > 0
    BY <1>1, CountUpdate
  <1>5. /\ Cardinality(F) \in Nat
        /\ Cardinality(G) \in Nat
        /\ Cardinality(F) + (IF g[c] = h THEN 1 ELSE 0) =
             Cardinality(G) + (IF f[c] = h THEN 1 ELSE 0)
    <2>1. CASE g[c] = h
      <3>1. Cardinality(G) = Cardinality(F \cup {c})
        BY <1>2, <2>1
      <3> QED
        BY <1>1, <1>4, <2>1, <3>1
    <2>2. CASE g[c] # h
      <3>1. Cardinality(G) = Cardinality(F \ {c})
        BY <1>3, <2>2
      <3> QED
        BY <1>1, <1>4, <2>2, <3>1
    <2> QED
      BY <2>1, <2>2
  <1> QED
    BY <1>5 DEF F, G

\* A table none of whose cells holds a value counts none of it.
LEMMA NoCell ==
  ASSUME NEW C, NEW f, NEW h, \A b \in C : f[b] # h
  PROVE  Cardinality(Holders(C, f, h)) = 0
  <1> DEFINE F == Holders(C, f, h)
  <1>1. F = {}
    BY DEF Holders
  <1> HIDE DEF F
  <1>2. Cardinality(F) = 0
    BY <1>1, FS_EmptySet
  <1> QED
    BY <1>2 DEF F

(***************************************************************************)
(* The places in a table of rows, each a function of its own domain, where *)
(* a value stands.                                                         *)
(***************************************************************************)
InRow(row, h) == Cardinality({k \in DOMAIN row : row[k] = h})
Spots(rows, h) ==
  UNION {{i} \X {k \in DOMAIN rows[i] : rows[i][k] = h} : i \in DOMAIN rows}

\* A table of finitely many rows over finitely many columns has finitely many
\* places.
LEMMA SpotsFinite ==
  ASSUME NEW rows, IsFiniteSet(DOMAIN rows), NEW K, IsFiniteSet(K),
         \A i \in DOMAIN rows : DOMAIN rows[i] \subseteq K, NEW h
  PROVE  IsFiniteSet(Spots(rows, h)) /\ Cardinality(Spots(rows, h)) \in Nat
  <1>1. IsFiniteSet((DOMAIN rows) \X K)
    BY FS_Product
  <1>2. Spots(rows, h) \subseteq (DOMAIN rows) \X K
    BY DEF Spots
  <1>3. IsFiniteSet(Spots(rows, h))
    BY <1>1, <1>2, FS_Subset
  <1> QED
    BY <1>3, FS_CardinalityType

\* A table with one row more has the places of that row more.
LEMMA SpotsAdd ==
  ASSUME NEW less, NEW more, NEW c \in DOMAIN more,
         DOMAIN less = DOMAIN more \ {c},
         \A i \in DOMAIN less : less[i] = more[i],
         NEW h, IsFiniteSet(Spots(more, h))
  PROVE  /\ InRow(more[c], h) \in Nat
         /\ Cardinality(Spots(less, h)) \in Nat
         /\ Cardinality(Spots(more, h)) = Cardinality(Spots(less, h)) + InRow(more[c], h)
  <1> DEFINE R == {k \in DOMAIN more[c] : more[c][k] = h}
             L == Spots(less, h)
             row == {c} \X R
  <1>1. Spots(more, h) = L \cup row
    BY DEF Spots
  <1>2. L \cap row = {}
    BY DEF Spots
  <1>3. IsFiniteSet(L) /\ IsFiniteSet(row)
    BY <1>1, FS_Subset
  <1>4. IsFiniteSet(R) /\ Cardinality(row) = Cardinality(R)
    <2> DEFINE pair == [k \in R |-> <<c, k>>]
    <2>1. pair \in Bijection(R, row)
      <3>1. pair \in [R -> row]
        OBVIOUS
      <3>2. \A a, b \in R : pair[a] = pair[b] => a = b
        OBVIOUS
      <3>3. \A t \in row : \E k \in R : pair[k] = t
        <4> SUFFICES ASSUME NEW k \in R PROVE pair[k] = <<c, k>>
          OBVIOUS
        <4> QED
          OBVIOUS
      <3> QED
        BY <3>1, <3>2, <3>3, Fun_IsBij
    <2>2. ExistsBijection(R, row)
      BY <2>1 DEF ExistsBijection
    <2>3. ExistsBijection(row, R)
      BY <2>2, Fun_ExistsBijSymmetric
    <2> QED
      BY <1>3, <2>3, FS_Bijection
  <1> HIDE DEF R, L, row
  <1>5. Cardinality(L \cup row) = Cardinality(L) + Cardinality(row) - Cardinality(L \cap row)
    BY <1>3, FS_Union
  <1>6. Cardinality(L \cap row) = 0
    BY <1>2, FS_EmptySet
  <1>7. Cardinality(L) \in Nat /\ Cardinality(R) \in Nat
    BY <1>3, <1>4, FS_CardinalityType
  <1>8. Cardinality(Spots(more, h)) = Cardinality(L) + Cardinality(R)
    BY <1>1, <1>4, <1>5, <1>6, <1>7
  <1> QED
    BY <1>7, <1>8 DEF L, R, InRow

(***************************************************************************)
(* Stacks.                                                                 *)
(***************************************************************************)
\* The newest element of a stack, and the stack without it.
LEMMA TopFacts ==
  ASSUME NEW T, NEW s \in Seq(T), s # <<>>
  PROVE  /\ Len(s) \in Nat /\ Len(s) > 0 /\ Len(s) \in DOMAIN s
         /\ Last(s) = s[Len(s)] /\ Last(s) \in T
         /\ Front(s) \in Seq(T) /\ Len(Front(s)) = Len(s) - 1
         /\ \A i \in 1 .. Len(s) - 1 : Front(s)[i] = s[i]
  <1>1. Len(s) \in Nat /\ Len(s) > 0 /\ DOMAIN s = 1 .. Len(s)
    BY EmptySeq, LenProperties
  <1>2. Last(s) = s[Len(s)] /\ Last(s) \in T
    BY <1>1, ElementOfSeq DEF Last
  <1> DEFINE last == Len(s) - 1
             front == SubSeq(s, 1, last)
  <1>3. last \in Int /\ 1 \in Int /\ \A i \in 1 .. last : s[i] \in T
    BY <1>1, ElementOfSeq
  <1>4. /\ front \in Seq(T)
        /\ Len(front) = IF 1 <= last THEN last - 1 + 1 ELSE 0
        /\ \A i \in 1 .. last - 1 + 1 : front[i] = s[1 + i - 1]
    <2> HIDE DEF last
    <2> QED
      BY <1>3, SubSeqProperties DEF front
  <1>5. Front(s) = front
    BY DEF Front
  <1> HIDE DEF front
  <1>6. Len(front) = last
    <2>1. last \in Int /\ last >= 0
      BY <1>1
    <2> HIDE DEF last
    <2>2. CASE 1 <= last
      BY <1>4, <2>1, <2>2
    <2>3. CASE ~(1 <= last)
      BY <1>4, <2>1, <2>3
    <2> QED
      BY <2>2, <2>3
  <1>7. ASSUME NEW i \in 1 .. Len(s) - 1 PROVE front[i] = s[i]
    <2>1. i \in 1 .. last - 1 + 1 /\ 1 + i - 1 = i
      BY <1>1
    <2> QED
      BY <1>4, <2>1
  <1>8. front \in Seq(T) /\ Len(front) = Len(s) - 1
    BY <1>4, <1>6
  <1> QED
    BY <1>1, <1>2, <1>5, <1>7, <1>8

\* A stack with one more element.
LEMMA PushFacts ==
  ASSUME NEW T, NEW s \in Seq(T), NEW e \in T
  PROVE  /\ Append(s, e) \in Seq(T) /\ Len(Append(s, e)) = Len(s) + 1
         /\ \A i \in 1 .. Len(s) : Append(s, e)[i] = s[i]
         /\ Append(s, e)[Len(s) + 1] = e
  BY AppendProperties

(***************************************************************************)
(* Induction, stated of a set of numbers.                                  *)
(***************************************************************************)
Below == {p \in Nat \X Nat : p[1] < p[2]}

\* A set of numbers that has an element has a least one.
LEMMA Least ==
  ASSUME NEW T \in SUBSET Nat, NEW k \in T
  PROVE  \E m \in T : \A n \in T : m <= n
  <1>1. IsWellFoundedOn(Below, Nat)
    BY NatLessThanWellFounded DEF OpToRel, Below
  <1>2. PICK m \in T : \A n \in T : ~ (<<n, m>> \in Below)
    BY <1>1, WFMin
  <1>3. ASSUME NEW n \in T PROVE m <= n
    <2>1. n \in Nat /\ m \in Nat /\ ~ (<<n, m>> \in Below)
      BY <1>2
    <2>2. n < m => <<n, m>> \in Below
      BY ONLY <2>1 DEF Below
    <2> QED
      BY ONLY <2>1, <2>2
  <1> QED
    BY <1>2, <1>3

\* What holds of 0 and, with a number, of the next one up to a bound holds up to it.
LEMMA UpTo ==
  ASSUME NEW k \in Nat, NEW S, 0 \in S, \A n \in 0 .. k - 1 : n \in S => n + 1 \in S
  PROVE  \A n \in 0 .. k : n \in S
  <1> SUFFICES ASSUME NEW c \in 0 .. k, c \notin S PROVE FALSE
    OBVIOUS
  <1> DEFINE T == {n \in 0 .. k : n \notin S}
  <1>1. T \in SUBSET Nat /\ c \in T
    OBVIOUS
  <1> HIDE DEF T
  <1>2. PICK m \in T : \A n \in T : m <= n
    BY <1>1, Least
  <1>3. m \in 0 .. k /\ m \notin S
    BY <1>2 DEF T
  <1>4. m # 0 /\ m - 1 \in 0 .. k - 1 /\ m - 1 + 1 = m
    BY <1>3
  <1>5. m - 1 \in S
    <2>1. m - 1 \in 0 .. k /\ ~(m <= m - 1)
      BY <1>4
    <2>2. m - 1 \notin T
      BY <1>2, <2>1
    <2> QED
      BY <2>1, <2>2 DEF T
  <1> QED
    BY <1>3, <1>4, <1>5

\* A loop: each pass makes a value from the last.
Repeats(f, top, S, start, pass) ==
  f \in [0 .. top -> S] /\ f[0] = start /\ \A k \in 1 .. top : f[k] = pass[k][f[k - 1]]

LEMMA Repetition ==
  ASSUME NEW top \in Nat, NEW S, NEW start \in S, NEW pass \in [1 .. top -> [S -> S]]
  PROVE  \E f : Repeats(f, top, S, start, pass)
  <1> DEFINE Run(n, f) == f[0] = start /\ \A k \in 1 .. n : f[k] = pass[k][f[k - 1]]
             T == {n \in 0 .. top : \E f \in [0 .. n -> S] : Run(n, f)}
  <1>1. 0 \in T
    <2> DEFINE f == [k \in 0 .. 0 |-> start]
    <2>1. f \in [0 .. 0 -> S] /\ f[0] = start
      OBVIOUS
    <2>2. 1 .. 0 = {} /\ 0 \in 0 .. top
      OBVIOUS
    <2>3. Run(0, f)
      BY <2>1, <2>2
    <2> HIDE DEF f, Run
    <2> QED
      BY <2>1, <2>2, <2>3
  <1>2. ASSUME NEW n \in 0 .. top - 1, n \in T PROVE n + 1 \in T
    <2>1. PICK f \in [0 .. n -> S] : Run(n, f)
      BY <1>2
    <2> DEFINE next == pass[n + 1][f[n]]
               g == [k \in 0 .. n + 1 |-> IF k = n + 1 THEN next ELSE f[k]]
    <2>2. next \in S
      <3>1. n + 1 \in 1 .. top /\ f[n] \in S
        OBVIOUS
      <3> QED
        BY <3>1
    <2> HIDE DEF next
    <2>3. g \in [0 .. n + 1 -> S]
      BY <2>2
    <2>4. g[0] = start
      BY <2>1
    <2>5. ASSUME NEW k \in 1 .. n + 1 PROVE g[k] = pass[k][g[k - 1]]
      <3>1. k - 1 \in 0 .. n /\ g[k - 1] = f[k - 1]
        OBVIOUS
      <3>2. CASE k = n + 1
        <4>1. g[k] = next /\ k - 1 = n
          BY <3>2
        <4> QED
          BY <3>1, <3>2, <4>1 DEF next
      <3>3. CASE k # n + 1
        <4>1. k \in 1 .. n /\ g[k] = f[k]
          BY <3>3
        <4> QED
          BY <2>1, <3>1, <4>1
      <3> QED
        BY <3>2, <3>3
    <2>6. Run(n + 1, g)
      BY <2>4, <2>5
    <2>7. n + 1 \in 0 .. top
      OBVIOUS
    <2> HIDE DEF g, Run
    <2> QED
      BY <2>3, <2>6, <2>7
  <1> HIDE DEF T
  <1>3. top \in T
    <2>1. \A n \in 0 .. top - 1 : n \in T => n + 1 \in T
      BY <1>2
    <2>2. \A n \in 0 .. top : n \in T
      BY <1>1, <2>1, UpTo
    <2> QED
      BY <2>2
  <1> QED
    BY <1>3 DEF T, Repeats

(***************************************************************************)
(* The elements of a finite set of numbers, counted in order.              *)
(***************************************************************************)
Rank(A, i) == Cardinality(A \cap (1 .. i))
Nth(A, k) == CHOOSE i \in A : Rank(A, i) = k

\* A number more is one more in the count when it is in the set.
LEMMA RankFacts ==
  ASSUME NEW N \in Nat, NEW A \in SUBSET (1 .. N)
  PROVE  /\ IsFiniteSet(A) /\ Cardinality(A) \in Nat
         /\ \A i \in Int : Rank(A, i) \in Nat
         /\ Rank(A, 0) = 0 /\ Rank(A, N) = Cardinality(A)
         /\ \A i \in Nat : Rank(A, i + 1) = Rank(A, i) + (IF i + 1 \in A THEN 1 ELSE 0)
         /\ \A i, j \in Int : i <= j => Rank(A, i) <= Rank(A, j)
  <1>1. IsFiniteSet(A) /\ Cardinality(A) \in Nat
    <2>1. IsFiniteSet(1 .. N)
      BY FS_Interval
    <2> QED
      BY <2>1, FS_Subset, FS_CardinalityType
  <1>2. ASSUME NEW i \in Int PROVE IsFiniteSet(A \cap (1 .. i)) /\ Rank(A, i) \in Nat
    BY <1>1, FS_Subset, FS_CardinalityType DEF Rank
  <1>3. Rank(A, 0) = 0
    <2>1. A \cap (1 .. 0) = {}
      OBVIOUS
    <2> QED
      BY <2>1, FS_EmptySet DEF Rank
  <1>4. Rank(A, N) = Cardinality(A)
    <2>1. A \cap (1 .. N) = A
      OBVIOUS
    <2> QED
      BY <2>1 DEF Rank
  <1>5. ASSUME NEW i \in Nat
        PROVE  Rank(A, i + 1) = Rank(A, i) + (IF i + 1 \in A THEN 1 ELSE 0)
    <2> DEFINE F == A \cap (1 .. i)
               c == i + 1
    <2>1. IsFiniteSet(F) /\ Rank(A, i) = Cardinality(F)
      BY <1>2 DEF Rank
    <2>2. c \notin F /\ A \cap (1 .. c) = IF c \in A THEN F \cup {c} ELSE F
      OBVIOUS
    <2>3. Rank(A, c) = Cardinality(IF c \in A THEN F \cup {c} ELSE F)
      BY <2>2 DEF Rank
    <2> HIDE DEF F, c
    <2>4. Cardinality(F) \in Nat /\ Cardinality(F \cup {c}) = Cardinality(F) + 1
      BY <2>1, <2>2, CountUpdate
    <2>5. Rank(A, c) = Rank(A, i) + (IF c \in A THEN 1 ELSE 0)
      BY <2>1, <2>3, <2>4
    <2> QED
      BY <2>5 DEF c
  <1>6. ASSUME NEW i \in Int, NEW j \in Int, i <= j PROVE Rank(A, i) <= Rank(A, j)
    <2>1. A \cap (1 .. i) \subseteq A \cap (1 .. j)
      BY <1>6
    <2> QED
      BY <2>1, <1>2, FS_Subset DEF Rank
  <1> QED
    BY <1>1, <1>2, <1>3, <1>4, <1>5, <1>6

\* Elements are counted each with a number of its own, and every number up to
\* the size of the set is that of one.
LEMMA NthFacts ==
  ASSUME NEW N \in Nat, NEW A \in SUBSET (1 .. N)
  PROVE  /\ \A i, j \in A : i < j => Rank(A, i) < Rank(A, j)
         /\ \A i \in A : Rank(A, i) \in 1 .. Cardinality(A) /\ Nth(A, Rank(A, i)) = i
         /\ \A k \in 1 .. Cardinality(A) : Nth(A, k) \in A /\ Rank(A, Nth(A, k)) = k
  <1>1. /\ Cardinality(A) \in Nat /\ Rank(A, 0) = 0 /\ Rank(A, N) = Cardinality(A)
        /\ \A i \in Int : Rank(A, i) \in Nat
    <2>1. Cardinality(A) \in Nat /\ Rank(A, 0) = 0 /\ Rank(A, N) = Cardinality(A)
      BY RankFacts
    <2>2. \A i \in Int : Rank(A, i) \in Nat
      BY RankFacts
    <2> QED
      BY <2>1, <2>2
  <1>2. \A i \in Nat : Rank(A, i + 1) = Rank(A, i) + (IF i + 1 \in A THEN 1 ELSE 0)
    BY RankFacts, SMTT(20)
  <1>3. \A i, j \in Int : i <= j => Rank(A, i) <= Rank(A, j)
    BY RankFacts
  <1>4. ASSUME NEW j \in A PROVE j - 1 \in Nat /\ Rank(A, j) = Rank(A, j - 1) + 1
    <2> DEFINE i == j - 1
    <2>1. i \in Nat /\ i + 1 = j /\ i + 1 \in A
      OBVIOUS
    <2> HIDE DEF i
    <2>2. Rank(A, i + 1) = Rank(A, i) + (IF i + 1 \in A THEN 1 ELSE 0)
      BY <2>1, <1>2
    <2>3. i \in Nat /\ Rank(A, j) = Rank(A, i) + 1
      BY <2>1, <2>2
    <2> QED
      BY <2>3 DEF i
  <1>5. ASSUME NEW i \in A, NEW j \in A, i < j PROVE Rank(A, i) < Rank(A, j)
    <2>1. i \in Int /\ j - 1 \in Int /\ i <= j - 1
      BY <1>5
    <2>2. /\ Rank(A, i) \in Nat /\ Rank(A, j - 1) \in Nat /\ Rank(A, j) \in Nat
          /\ Rank(A, i) <= Rank(A, j - 1)
      BY <2>1, <1>1, <1>3
    <2> QED
      BY <1>4, <2>2
  <1>6. ASSUME NEW i \in A
        PROVE  Rank(A, i) \in 1 .. Cardinality(A) /\ Nth(A, Rank(A, i)) = i
    <2>1. i \in Int /\ i <= N /\ i - 1 \in Int
      OBVIOUS
    <2>2. Rank(A, i) \in Nat /\ Rank(A, i) <= Cardinality(A) /\ Rank(A, i - 1) \in Nat
          /\ Cardinality(A) \in Nat
      BY <2>1, <1>1, <1>3
    <2>3. Rank(A, i) \in 1 .. Cardinality(A)
      BY <1>4, <2>2
    <2> DEFINE k == Rank(A, i)
    <2>4. Nth(A, k) \in A /\ Rank(A, Nth(A, k)) = k
      <3>1. \E j \in A : Rank(A, j) = k
        OBVIOUS
      <3> HIDE DEF k
      <3> QED
        BY <3>1 DEF Nth
    <2>5. Nth(A, k) \in Int /\ ~(Nth(A, k) < i) /\ ~(i < Nth(A, k))
      <3> DEFINE n == Nth(A, k)
      <3>1. n \in A /\ Rank(A, n) = Rank(A, i) /\ Rank(A, i) \in Nat
        BY <2>2, <2>4
      <3> HIDE DEF n
      <3>2. n < i => Rank(A, n) < Rank(A, i)
        BY <1>5, <3>1
      <3>3. i < n => Rank(A, i) < Rank(A, n)
        BY <1>5, <3>1
      <3>4. n \in Int /\ ~(n < i) /\ ~(i < n)
        BY <3>1, <3>2, <3>3
      <3> QED
        BY <3>4 DEF n
    <2> QED
      BY <2>1, <2>3, <2>5
  <1>7. ASSUME NEW k \in 1 .. Cardinality(A)
        PROVE  Nth(A, k) \in A /\ Rank(A, Nth(A, k)) = k
    <2> DEFINE T == {i \in 0 .. N : Rank(A, i) >= k}
    <2>1. T \in SUBSET Nat /\ N \in T
      BY RankFacts
    <2> HIDE DEF T
    <2>2. PICK m \in T : \A n \in T : m <= n
      BY <2>1, Least
    <2>3. m \in 0 .. N /\ Rank(A, m) >= k
      BY <2>2 DEF T
    <2>4. m # 0
      BY <2>3, <1>1
    <2>5. m - 1 \in Nat /\ m - 1 + 1 = m /\ m - 1 \in 0 .. N /\ ~(m <= m - 1)
      BY <2>3, <2>4
    <2>6. m - 1 \notin T
      BY <2>2, <2>5
    <2>7. ~(Rank(A, m - 1) >= k)
      BY <2>5, <2>6 DEF T
    <2>8. /\ Rank(A, m - 1) \in Nat /\ Cardinality(A) \in Nat
          /\ Rank(A, m) = Rank(A, m - 1) + (IF m \in A THEN 1 ELSE 0)
      <3> DEFINE i == m - 1
      <3>1. i \in Nat /\ i \in Int /\ i + 1 = m
        BY <2>5
      <3> HIDE DEF i
      <3>2. Rank(A, i) \in Nat /\ Rank(A, m) = Rank(A, i) + (IF m \in A THEN 1 ELSE 0)
        BY <3>1, <1>1, <1>2
      <3> QED
        BY <3>2, <1>1 DEF i
    <2>9. m \in A /\ Rank(A, m) = k
      BY <2>3, <2>7, <2>8
    <2> QED
      BY <2>9 DEF Nth
  <1> QED
    BY <1>5, <1>6, <1>7

\* Sets of numbers with some upper bound.
Numbers(A) == \E N \in Nat : A \in SUBSET (1 .. N)

LEMMA NthOfRank ==
  ASSUME NEW A, Numbers(A)
  PROVE  \A i \in A : Nth(A, Rank(A, i)) = i
  <1>1. PICK N \in Nat : A \in SUBSET (1 .. N)
    BY DEF Numbers
  <1> QED
    BY <1>1, NthFacts
=============================================================================
