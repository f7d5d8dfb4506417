--------------------------- MODULE HostCallsProofs ---------------------------
(***************************************************************************)
(* Proofs about HostCalls, for any names, numbers of values and arguments, *)
(* and depth of calls: references stay accounted for through every nesting *)
(* of evaluations and callbacks, and until a nested call fails the pending *)
(* frames are those of the running callbacks.                              *)
(***************************************************************************)
EXTENDS HostCalls, CountsAndStacks

\* Values that do not exist yet have no references.
Unborn == \A h \in Handles : h > size => refs[h] = 0

\* What a result on its way looks like.
ReturnedFits ==
  /\ returned.status = "NONE" => returned = NoReturn
  /\ returned.status = "OK" => returned.value # NULL
  /\ returned.status = "FAILED" => returned.value = NULL

\* The k-th activation is an evaluation that takes another argument.
Collecting(k) ==
  k \in DOMAIN stack /\ stack[k].kind = "evaluation" /\ Len(stack[k].args) < MaxArgs

\* Whatever is evaluated for an argument has the evaluation below that takes it.
NestFits ==
  /\ \A i \in DOMAIN stack : stack[i].use = "argument" => Collecting(i - 1)
  /\ returned # NoReturn /\ returned.use = "argument" => Collecting(Len(stack))

\* The pending frames are those of the running callbacks.
Mirror ==
  /\ Len(pending) = Cardinality(Callbacks)
  /\ \A i \in Callbacks : pending[CallbacksUpTo(i)] = stack[i].args

InStep == ~crossed => Mirror /\ \A h \in Handles : leaked[h] = 0

\* The inductive invariant.
Inv == TypeOK /\ OwnershipExact /\ Unborn /\ ReturnedFits /\ NestFits /\ InStep

USE DEF NULL

(***************************************************************************)
(* Argument lists, and how the places of a value move with a list.         *)
(***************************************************************************)
\* Arguments are the sequences of handles of a bounded length.
LEMMA ArgumentFacts ==
  /\ \A args \in Arguments :
       /\ args \in Seq(Handles) /\ Len(args) \in 0 .. MaxArgs
       /\ DOMAIN args = 1 .. Len(args)
       /\ \A k \in DOMAIN args : args[k] \in Handles
  /\ \A args \in Seq(Handles) : Len(args) <= MaxArgs => args \in Arguments
  /\ <<>> \in Arguments
  <1>1. MaxArgs \in Nat
    BY HostCallsAssumption
  <1>2. ASSUME NEW args \in Arguments
        PROVE  /\ args \in Seq(Handles) /\ Len(args) \in 0 .. MaxArgs
               /\ DOMAIN args = 1 .. Len(args)
               /\ \A k \in DOMAIN args : args[k] \in Handles
    <2>1. PICK m \in 0 .. MaxArgs : args \in [1 .. m -> Handles]
      BY <1>1 DEF Arguments, SeqOf
    <2>2. m \in Nat
      BY <1>1
    <2>3. args \in Seq(Handles)
      BY <2>1, <2>2, SeqDef
    <2>4. Len(args) = m
      <3>1. DOMAIN args = 1 .. m /\ DOMAIN args = 1 .. Len(args) /\ Len(args) \in Nat
        BY <2>1, <2>3, LenProperties
      <3> QED
        BY <2>2, <3>1
    <2> QED
      BY <2>1, <2>3, <2>4
  <1>3. ASSUME NEW args \in Seq(Handles), Len(args) <= MaxArgs
        PROVE  args \in Arguments
    <2>1. Len(args) \in Nat /\ args \in [1 .. Len(args) -> Handles]
      BY <1>3, LenProperties
    <2>2. Len(args) \in 0 .. MaxArgs
      BY <1>1, <1>3, <2>1
    <2> QED
      BY <2>1, <2>2 DEF Arguments, SeqOf
  <1>4. <<>> \in Arguments
    <2>1. <<>> \in Seq(Handles) /\ Len(<<>>) = 0
      BY EmptySeq
    <2>2. Len(<<>>) <= MaxArgs
      BY <1>1, <2>1
    <2> QED
      BY ONLY <1>3, <2>1, <2>2
  <1> QED
    BY <1>2, <1>3, <1>4

\* What one more argument adds.
LEMMA OccurrencesFacts ==
  ASSUME NEW args \in Arguments, NEW h
  PROVE  /\ Occurrences(args, h) \in Nat
         /\ Occurrences(<<>>, h) = 0
         /\ \A v \in Handles :
              Occurrences(Append(args, v), h) = Occurrences(args, h) + (IF v = h THEN 1 ELSE 0)
         /\ \A k \in DOMAIN args : args[k] = h => Occurrences(args, h) > 0
  <1> DEFINE at == {i \in DOMAIN args : args[i] = h}
  <1>1. IsFiniteSet(at)
    <2>1. DOMAIN args = 1 .. Len(args) /\ Len(args) \in Int /\ 1 \in Int
      BY ArgumentFacts
    <2> QED
      BY <2>1, FS_Interval, FS_Subset
  <1>2. Cardinality(at) \in Nat
    BY <1>1, FS_CardinalityType
  <1>3. Occurrences(<<>>, h) = 0
    <2>1. {i \in DOMAIN <<>> : <<>>[i] = h} = {}
      BY EmptySeq
    <2> QED
      BY <2>1, FS_EmptySet DEF Occurrences
  <1>4. ASSUME NEW v \in Handles
        PROVE  Occurrences(Append(args, v), h) = Occurrences(args, h) + (IF v = h THEN 1 ELSE 0)
    <2> DEFINE more == Append(args, v)
               c == Len(args) + 1
    <2>1. /\ args \in Seq(Handles) /\ DOMAIN args = 1 .. Len(args) /\ Len(args) \in Nat
      BY ArgumentFacts
    <2>2. /\ more \in Seq(Handles) /\ Len(more) = c /\ more[c] = v
          /\ \A i \in 1 .. Len(args) : more[i] = args[i]
      BY <2>1, AppendProperties
    <2>3. DOMAIN more = 1 .. c
      BY <2>2, LenProperties
    <2> HIDE DEF more
    <2>4. {i \in DOMAIN more : more[i] = h} = IF v = h THEN at \cup {c} ELSE at
      BY <2>1, <2>2, <2>3
    <2>5. c \notin at
      BY <2>1
    <2> HIDE DEF at, c
    <2>6. Cardinality(at \cup {c}) = Cardinality(at) + 1
      BY <1>1, <2>5, FS_AddElement
    <2>7. Occurrences(more, h) = Cardinality(at) + (IF v = h THEN 1 ELSE 0)
      BY <1>2, <2>4, <2>6 DEF Occurrences
    <2> QED
      BY <2>7 DEF more, Occurrences, at
  <1>5. ASSUME NEW k \in DOMAIN args, args[k] = h
        PROVE  Cardinality(at) > 0
    <2>1. at # {}
      BY <1>5
    <2> HIDE DEF at
    <2> QED
      BY <1>1, <1>2, <2>1, FS_EmptySet
  <1> QED
    BY <1>2, <1>3, <1>4, <1>5 DEF Occurrences

\* How the places of a value move with the newest frame.
LEMMA FramesCount ==
  ASSUME NEW frames \in Seq(Arguments), NEW h
  PROVE  /\ InSequence(frames, h) \in Nat
         /\ \A args \in Arguments :
              InSequence(Append(frames, args), h) = InSequence(frames, h) + Occurrences(args, h)
         /\ frames # <<>> =>
              /\ Occurrences(Last(frames), h) \in Nat
              /\ InSequence(frames, h) = InSequence(Front(frames), h) + Occurrences(Last(frames), h)
         /\ \A i \in DOMAIN frames : \A k \in DOMAIN frames[i] :
              frames[i][k] = h => InSequence(frames, h) > 0
  <1>1. IsFiniteSet(1 .. MaxArgs)
    BY HostCallsAssumption, FS_Interval
  <1>2. ASSUME NEW s \in Seq(Arguments)
        PROVE  /\ DOMAIN s = 1 .. Len(s) /\ Len(s) \in Nat
               /\ IsFiniteSet(Spots(s, h)) /\ Cardinality(Spots(s, h)) \in Nat
    <2>1. DOMAIN s = 1 .. Len(s) /\ Len(s) \in Nat
      BY LenProperties
    <2>2. IsFiniteSet(DOMAIN s)
      <3>1. 1 \in Int /\ Len(s) \in Int
        BY <2>1
      <3> QED
        BY <2>1, <3>1, FS_Interval
    <2>3. \A i \in DOMAIN s : DOMAIN s[i] \subseteq 1 .. MaxArgs
      <3> SUFFICES ASSUME NEW i \in DOMAIN s PROVE DOMAIN s[i] \subseteq 1 .. MaxArgs
        OBVIOUS
      <3>1. s[i] \in Arguments
        BY <2>1, ElementOfSeq
      <3>2. DOMAIN s[i] = 1 .. Len(s[i]) /\ Len(s[i]) \in 0 .. MaxArgs
        BY <3>1, ArgumentFacts
      <3>3. MaxArgs \in Nat
        BY HostCallsAssumption
      <3> QED
        BY ONLY <3>2, <3>3
    <2> QED
      BY <1>1, <2>1, <2>2, <2>3, SpotsFinite
  <1>3. \A s : InSequence(s, h) = Cardinality(Spots(s, h))
    BY DEF InSequence, Places, Spots
  <1>4. \A row : Occurrences(row, h) = InRow(row, h)
    BY DEF Occurrences, InRow
  <1>5. ASSUME NEW args \in Arguments
        PROVE  InSequence(Append(frames, args), h) = InSequence(frames, h) + Occurrences(args, h)
    <2> DEFINE more == Append(frames, args)
               c == Len(frames) + 1
    <2>1. /\ more \in Seq(Arguments) /\ Len(more) = c /\ more[c] = args
          /\ \A i \in 1 .. Len(frames) : more[i] = frames[i]
      BY PushFacts
    <2>2. DOMAIN more = 1 .. c /\ DOMAIN frames = 1 .. Len(frames) /\ Len(frames) \in Nat
      BY <1>2, <2>1
    <2>3. IsFiniteSet(Spots(more, h))
      BY <1>2, <2>1
    <2> HIDE DEF more
    <2>4. c \in DOMAIN more /\ DOMAIN frames = DOMAIN more \ {c}
      BY <2>2
    <2>5. \A i \in DOMAIN frames : frames[i] = more[i]
      BY <2>1, <2>2
    <2>6. Cardinality(Spots(more, h)) = Cardinality(Spots(frames, h)) + InRow(more[c], h)
      BY <2>3, <2>4, <2>5, SpotsAdd
    <2>7. InSequence(more, h) = InSequence(frames, h) + Occurrences(args, h)
      BY <1>3, <1>4, <2>1, <2>6
    <2> QED
      BY <2>7 DEF more
  <1>6. ASSUME frames # <<>>
        PROVE  /\ Occurrences(Last(frames), h) \in Nat
               /\ InSequence(frames, h) = InSequence(Front(frames), h) + Occurrences(Last(frames), h)
    <2> DEFINE less == Front(frames)
               c == Len(frames)
    <2>1. /\ c \in Nat /\ c > 0 /\ c \in DOMAIN frames /\ Last(frames) = frames[c]
          /\ less \in Seq(Arguments) /\ Len(less) = c - 1
          /\ \A i \in 1 .. c - 1 : less[i] = frames[i]
      BY <1>6, TopFacts
    <2>2. DOMAIN frames = 1 .. c /\ DOMAIN less = 1 .. c - 1
      BY <1>2, <2>1
    <2>3. IsFiniteSet(Spots(frames, h))
      BY <1>2
    <2> HIDE DEF less, c
    <2>4. DOMAIN less = DOMAIN frames \ {c}
      BY <2>1, <2>2
    <2>5. \A i \in DOMAIN less : less[i] = frames[i]
      BY <2>1, <2>2
    <2>6. /\ InRow(frames[c], h) \in Nat
          /\ Cardinality(Spots(frames, h)) = Cardinality(Spots(less, h)) + InRow(frames[c], h)
      BY <2>1, <2>3, <2>4, <2>5, SpotsAdd
    <2>7. /\ Occurrences(Last(frames), h) \in Nat
          /\ InSequence(frames, h) = InSequence(less, h) + Occurrences(Last(frames), h)
      BY <1>3, <1>4, <2>1, <2>6
    <2> QED
      BY <2>7 DEF less
  <1>7. ASSUME NEW i \in DOMAIN frames, NEW k \in DOMAIN frames[i], frames[i][k] = h
        PROVE  InSequence(frames, h) > 0
    <2>1. <<i, k>> \in Spots(frames, h)
      BY <1>7 DEF Spots
    <2>2. IsFiniteSet(Spots(frames, h)) /\ Cardinality(Spots(frames, h)) \in Nat
      BY <1>2
    <2>3. Cardinality(Spots(frames, h)) # 0
      BY <2>1, <2>2, FS_EmptySet
    <2> QED
      BY <1>3, <2>2, <2>3
  <1>8. InSequence(frames, h) \in Nat
    BY <1>2, <1>3
  <1> QED
    BY <1>5, <1>6, <1>7, <1>8

\* What an activation has collected and nobody else holds.
Own(a) == IF a.kind = "evaluation" THEN a.args ELSE <<>>

LEMMA ActivationFacts ==
  ASSUME NEW a \in Activations
  PROVE  /\ a.kind \in {"evaluation", "callback"} /\ a.use \in Uses /\ a.args \in Arguments
         /\ Own(a) \in Arguments
         /\ a.kind = "callback" => Own(a) = <<>>
         /\ a.kind = "evaluation" => Own(a) = a.args
  BY ArgumentFacts DEF Activations, Own

LEMMA NewActivation ==
  ASSUME NEW use \in Uses, NEW args \in Arguments
  PROVE  /\ Evaluation(use, args) \in Activations /\ Evaluation(use, args).kind = "evaluation"
         /\ Evaluation(use, args).use = use /\ Evaluation(use, args).args = args
         /\ Own(Evaluation(use, args)) = args
         /\ Callback(use, args) \in Activations /\ Callback(use, args).kind = "callback"
         /\ Callback(use, args).use = use /\ Callback(use, args).args = args
         /\ Own(Callback(use, args)) = <<>>
  BY DEF Activations, Own, Evaluation, Callback

\* How the places of a value move with the newest activation.
LEMMA CollectedCount ==
  ASSUME NEW s \in Seq(Activations), NEW h
  PROVE  /\ InSequence(Collected(s), h) \in Nat
         /\ \A a \in Activations :
              InSequence(Collected(Append(s, a)), h) =
                InSequence(Collected(s), h) + Occurrences(Own(a), h)
         /\ s # <<>> =>
              /\ Occurrences(Own(Last(s)), h) \in Nat
              /\ InSequence(Collected(s), h) =
                   InSequence(Collected(Front(s)), h) + Occurrences(Own(Last(s)), h)
  <1>1. ASSUME NEW t \in Seq(Activations)
        PROVE  Collected(t) \in Seq(Arguments) /\ Len(Collected(t)) = Len(t)
               /\ DOMAIN Collected(t) = 1 .. Len(t) /\ Len(t) \in Nat
               /\ \A i \in 1 .. Len(t) : Collected(t)[i] = Own(t[i])
    <2>1. DOMAIN t = 1 .. Len(t) /\ Len(t) \in Nat
      BY <1>1, LenProperties
    <2>2. Collected(t) = [i \in 1 .. Len(t) |-> Own(t[i])]
      BY <2>1 DEF Collected, Own
    <2>3. \A i \in 1 .. Len(t) : Own(t[i]) \in Arguments
      BY <1>1, ElementOfSeq, ActivationFacts
    <2>4. Collected(t) \in [1 .. Len(t) -> Arguments]
      BY ONLY <2>2, <2>3
    <2>5. Collected(t) \in Seq(Arguments)
      BY <2>1, <2>4, SeqDef
    <2>6. DOMAIN Collected(t) = 1 .. Len(t)
      BY ONLY <2>2
    <2>7. Len(Collected(t)) = Len(t)
      <3>1. DOMAIN Collected(t) = 1 .. Len(Collected(t)) /\ Len(Collected(t)) \in Nat
        BY <2>5, LenProperties
      <3> QED
        BY ONLY <2>1, <2>6, <3>1
    <2>8. \A i \in 1 .. Len(t) : Collected(t)[i] = Own(t[i])
      BY ONLY <2>2
    <2> QED
      BY ONLY <2>1, <2>5, <2>6, <2>7, <2>8
  <1>2. ASSUME NEW t \in Seq(Activations)
        PROVE  InSequence(Collected(t), h) \in Nat
               /\ IsFiniteSet(Spots(Collected(t), h))
               /\ InSequence(Collected(t), h) = Cardinality(Spots(Collected(t), h))
    <2>1. Collected(t) \in Seq(Arguments) /\ DOMAIN Collected(t) = 1 .. Len(t) /\ Len(t) \in Nat
      BY <1>1, <1>2
    <2>2. InSequence(Collected(t), h) \in Nat
      BY <2>1, FramesCount
    <2>3. IsFiniteSet(1 .. MaxArgs)
      BY HostCallsAssumption, FS_Interval
    <2>4. IsFiniteSet(DOMAIN Collected(t))
      <3>1. 1 \in Int /\ Len(t) \in Int
        BY <2>1
      <3> QED
        BY <2>1, <3>1, FS_Interval
    <2>5. \A i \in DOMAIN Collected(t) : DOMAIN Collected(t)[i] \subseteq 1 .. MaxArgs
      <3> SUFFICES ASSUME NEW i \in DOMAIN Collected(t)
                   PROVE DOMAIN Collected(t)[i] \subseteq 1 .. MaxArgs
        OBVIOUS
      <3>1. i \in 1 .. Len(Collected(t))
        BY <1>1, <1>2
      <3>2. Collected(t)[i] \in Arguments
        BY <2>1, <3>1, ElementOfSeq
      <3>3. DOMAIN Collected(t)[i] = 1 .. Len(Collected(t)[i]) /\ Len(Collected(t)[i]) \in 0 .. MaxArgs
        BY <3>2, ArgumentFacts
      <3>4. MaxArgs \in Nat
        BY HostCallsAssumption
      <3> QED
        BY ONLY <3>3, <3>4
    <2>6. IsFiniteSet(Spots(Collected(t), h))
      BY <2>3, <2>4, <2>5, SpotsFinite
    <2> QED
      BY <2>2, <2>6 DEF InSequence, Places, Spots
  <1>3. \A row : Occurrences(row, h) = InRow(row, h)
    BY DEF Occurrences, InRow
  <1>4. ASSUME NEW less \in Seq(Activations), NEW more \in Seq(Activations),
               Len(more) = Len(less) + 1, \A i \in 1 .. Len(less) : more[i] = less[i]
        PROVE  /\ Occurrences(Own(more[Len(more)]), h) \in Nat
               /\ InSequence(Collected(more), h) =
                    InSequence(Collected(less), h) + Occurrences(Own(more[Len(more)]), h)
    <2> DEFINE L == Collected(less)
               M == Collected(more)
               c == Len(more)
    <2>1. /\ DOMAIN L = 1 .. Len(less) /\ Len(less) \in Nat
          /\ \A i \in 1 .. Len(less) : L[i] = Own(less[i])
      BY <1>1
    <2>2. DOMAIN M = 1 .. c /\ \A i \in 1 .. c : M[i] = Own(more[i])
      BY <1>1
    <2>3. /\ IsFiniteSet(Spots(M, h))
          /\ InSequence(M, h) = Cardinality(Spots(M, h))
          /\ InSequence(L, h) = Cardinality(Spots(L, h))
      BY <1>2
    <2> HIDE DEF L, M, c
    <2>4. c = Len(less) + 1
      BY <1>4 DEF c
    <2>5. c \in DOMAIN M /\ DOMAIN L = DOMAIN M \ {c}
      BY <2>1, <2>2, <2>4
    <2>6. \A i \in DOMAIN L : L[i] = M[i]
      BY <1>4, <2>1, <2>2, <2>4
    <2>7. /\ InRow(M[c], h) \in Nat
          /\ Cardinality(Spots(M, h)) = Cardinality(Spots(L, h)) + InRow(M[c], h)
      BY <2>3, <2>5, <2>6, SpotsAdd
    <2>8. M[c] = Own(more[c])
      BY <2>2, <2>5
    <2>9. /\ Occurrences(Own(more[c]), h) \in Nat
          /\ InSequence(M, h) = InSequence(L, h) + Occurrences(Own(more[c]), h)
      BY <1>3, <2>3, <2>7, <2>8
    <2> QED
      BY <2>9 DEF L, M, c
  <1>5. ASSUME NEW a \in Activations
        PROVE  InSequence(Collected(Append(s, a)), h) =
                 InSequence(Collected(s), h) + Occurrences(Own(a), h)
    <2>1. /\ Append(s, a) \in Seq(Activations) /\ Len(Append(s, a)) = Len(s) + 1
          /\ \A i \in 1 .. Len(s) : Append(s, a)[i] = s[i]
          /\ Append(s, a)[Len(s) + 1] = a
      BY PushFacts
    <2> DEFINE more == Append(s, a)
    <2> HIDE DEF more
    <2>2. /\ more \in Seq(Activations) /\ Len(more) = Len(s) + 1
          /\ \A i \in 1 .. Len(s) : more[i] = s[i]
          /\ more[Len(more)] = a
      BY <2>1 DEF more
    <2>3. InSequence(Collected(more), h) = InSequence(Collected(s), h) + Occurrences(Own(a), h)
      BY <1>4, <2>2
    <2> QED
      BY <2>3 DEF more
  <1>6. ASSUME s # <<>>
        PROVE  /\ Occurrences(Own(Last(s)), h) \in Nat
               /\ InSequence(Collected(s), h) =
                    InSequence(Collected(Front(s)), h) + Occurrences(Own(Last(s)), h)
    <2>1. /\ Len(s) \in Nat /\ Last(s) = s[Len(s)]
          /\ Front(s) \in Seq(Activations) /\ Len(Front(s)) = Len(s) - 1
          /\ \A i \in 1 .. Len(s) - 1 : Front(s)[i] = s[i]
      BY <1>6, TopFacts
    <2> DEFINE less == Front(s)
    <2> HIDE DEF less
    <2>2. /\ less \in Seq(Activations) /\ Len(s) = Len(less) + 1
          /\ \A i \in 1 .. Len(less) : s[i] = less[i]
      BY <2>1 DEF less
    <2>3. /\ Occurrences(Own(s[Len(s)]), h) \in Nat
          /\ InSequence(Collected(s), h) =
               InSequence(Collected(less), h) + Occurrences(Own(s[Len(s)]), h)
      BY <1>4, <2>2
    <2> QED
      BY <2>1, <2>3 DEF less
  <1>7. InSequence(Collected(s), h) \in Nat
    BY <1>2
  <1> QED
    BY <1>5, <1>6, <1>7

\* A sequence without its newest element and with another.
LEMMA ReplaceFacts ==
  ASSUME NEW T, NEW s \in Seq(T), s # <<>>, NEW e \in T, NEW g, g = Append(Front(s), e)
  PROVE  /\ g \in Seq(T)
         /\ Len(g) = Len(s)
         /\ g[Len(s)] = e
         /\ \A i \in 1 .. Len(s) - 1 : g[i] = s[i]
  <1>1. /\ Front(s) \in Seq(T) /\ Len(Front(s)) = Len(s) - 1 /\ Len(s) \in Nat
        /\ \A i \in 1 .. Len(s) - 1 : Front(s)[i] = s[i]
    BY TopFacts
  <1> DEFINE f == Front(s)
             a == Append(f, e)
  <1>2. /\ a \in Seq(T) /\ Len(a) = Len(f) + 1 /\ a[Len(f) + 1] = e
        /\ \A i \in 1 .. Len(f) : a[i] = f[i]
    BY <1>1, PushFacts
  <1>3. g = a
    OBVIOUS
  <1> HIDE DEF f, a
  <1>4. f \in Seq(T) /\ Len(f) = Len(s) - 1 /\ \A i \in 1 .. Len(s) - 1 : f[i] = s[i]
    BY <1>1 DEF f
  <1> QED
    BY <1>1, <1>2, <1>3, <1>4

(***************************************************************************)
(* Releasing references.                                                   *)
(***************************************************************************)
LEMMA DropFacts ==
  ASSUME NEW f \in [Handles -> Nat], NEW h \in Handles \cup {NULL}
  PROVE  /\ Drop(f, h) \in [Handles -> Nat]
         /\ alive /\ (h # NULL => f[h] > 0) =>
              \A k \in Handles : Drop(f, h)[k] = f[k] - (IF k = h THEN 1 ELSE 0)
         /\ ~alive => Drop(f, h) = f
  BY DEF Drop, Valid, Handles

LEMMA KeepFacts ==
  ASSUME NEW f \in [Handles -> Nat], NEW h \in Handles
  PROVE  /\ Keep(f, h) \in [Handles -> Nat]
         /\ \A k \in Handles : Keep(f, h)[k] = f[k] + (IF k = h THEN 1 ELSE 0)
  BY DEF Keep

LEMMA DropAllFacts ==
  ASSUME NEW f \in [Handles -> Nat], NEW args \in Arguments
  PROVE  /\ DropAll(f, args) \in [Handles -> Nat]
         /\ ~alive => DropAll(f, args) = f
         /\ \A h \in Handles :
              alive /\ f[h] >= Occurrences(args, h) => DropAll(f, args)[h] = f[h] - Occurrences(args, h)
  <1>1. \A h \in Handles : Occurrences(args, h) \in Nat
    BY OccurrencesFacts
  <1>2. DropAll(f, args) =
          [h \in Handles |->
             LET n == IF alive THEN Occurrences(args, h) ELSE 0 IN
             IF f[h] > n THEN f[h] - n ELSE IF n = 0 THEN f[h] ELSE 0]
    BY DEF DropAll
  <1> DEFINE d == DropAll(f, args)
  <1>3. ASSUME alive, NEW h \in Handles
        PROVE  d[h] = IF f[h] > Occurrences(args, h) THEN f[h] - Occurrences(args, h)
                      ELSE IF Occurrences(args, h) = 0 THEN f[h] ELSE 0
    BY <1>2, <1>3
  <1>4. ASSUME ~alive, NEW h \in Handles
        PROVE  d[h] = f[h]
    <2>1. d[h] = IF f[h] > 0 THEN f[h] - 0 ELSE f[h]
      BY <1>2, <1>4
    <2> QED
      BY <2>1
  <1>5. DOMAIN d = Handles /\ d = [h \in Handles |-> d[h]]
    BY <1>2
  <1> HIDE DEF d
  <1>6. \A h \in Handles : d[h] \in Nat
    <2> TAKE h \in Handles
    <2>1. f[h] \in Nat /\ Occurrences(args, h) \in Nat
      BY <1>1
    <2> QED
      BY <1>3, <1>4, <2>1
  <1>7. d \in [Handles -> Nat]
    BY <1>5, <1>6
  <1>8. ~alive => d = f
    BY <1>4, <1>5
  <1>9. ASSUME NEW h \in Handles, alive, f[h] >= Occurrences(args, h)
        PROVE  d[h] = f[h] - Occurrences(args, h)
    <2>1. f[h] \in Nat /\ Occurrences(args, h) \in Nat
      BY <1>1
    <2> QED
      BY <1>3, <1>9, <2>1
  <1> QED
    BY <1>7, <1>8, <1>9 DEF d

\* Clearing the newest frame releases the references its arguments hold.
LEMMA ClearFacts ==
  ASSUME NEW f \in [Handles -> Nat], NEW frames \in Seq(Arguments)
  PROVE  /\ ClearNewest(f, frames).refs \in [Handles -> Nat]
         /\ ClearNewest(f, frames).frames \in Seq(Arguments)
         /\ ~alive => ClearNewest(f, frames).refs = f
         /\ alive /\ (\A h \in Handles : f[h] >= InSequence(frames, h)) =>
              \A h \in Handles :
                ClearNewest(f, frames).refs[h] =
                  f[h] - InSequence(frames, h) + InSequence(ClearNewest(f, frames).frames, h)
         /\ frames = <<>> => ClearNewest(f, frames).refs = f /\ ClearNewest(f, frames).frames = <<>>
         /\ frames # <<>> => ClearNewest(f, frames).frames = Front(frames)
  <1>1. CASE frames = <<>>
    <2>1. ClearNewest(f, frames).refs = f /\ ClearNewest(f, frames).frames = frames
      BY <1>1 DEF ClearNewest
    <2>2. \A h \in Handles : InSequence(frames, h) \in Nat /\ f[h] \in Nat
      BY FramesCount
    <2>3. ASSUME NEW h \in Handles
          PROVE  f[h] = f[h] - InSequence(frames, h) + InSequence(frames, h)
      <3>1. f[h] \in Nat /\ InSequence(frames, h) \in Nat
        BY <2>2
      <3> QED
        BY <3>1
    <2>4. ASSUME NEW h \in Handles
          PROVE  ClearNewest(f, frames).refs[h] =
                   f[h] - InSequence(frames, h) + InSequence(ClearNewest(f, frames).frames, h)
      BY <2>1, <2>3
    <2> QED
      BY <1>1, <2>1, <2>4
  <1>2. CASE frames # <<>>
    <2>1. /\ ClearNewest(f, frames).refs = DropAll(f, Last(frames))
          /\ ClearNewest(f, frames).frames = Front(frames)
      BY <1>2 DEF ClearNewest
    <2>2. Last(frames) \in Arguments /\ Front(frames) \in Seq(Arguments)
      BY <1>2, TopFacts
    <2>3. DropAll(f, Last(frames)) \in [Handles -> Nat] /\ (~alive => DropAll(f, Last(frames)) = f)
      BY <2>2, DropAllFacts
    <2>4. ASSUME alive, NEW h \in Handles, f[h] >= InSequence(frames, h)
          PROVE  DropAll(f, Last(frames))[h] =
                   f[h] - InSequence(frames, h) + InSequence(Front(frames), h)
      <3>1. InSequence(frames, h) \in Nat /\ InSequence(Front(frames), h) \in Nat
        BY <2>2, FramesCount
      <3>2. /\ Occurrences(Last(frames), h) \in Nat
            /\ InSequence(frames, h) = InSequence(Front(frames), h) + Occurrences(Last(frames), h)
        BY <1>2, FramesCount
      <3>3. f[h] \in Nat
        OBVIOUS
      <3>4. f[h] >= Occurrences(Last(frames), h)
        BY <2>4, <3>1, <3>2, <3>3
      <3>5. DropAll(f, Last(frames))[h] = f[h] - Occurrences(Last(frames), h)
        BY <2>2, <2>4, <3>4, DropAllFacts
      <3> QED
        BY <3>1, <3>2, <3>3, <3>5
    <2>5. ASSUME alive, \A h \in Handles : f[h] >= InSequence(frames, h), NEW h \in Handles
          PROVE  ClearNewest(f, frames).refs[h] =
                   f[h] - InSequence(frames, h) + InSequence(ClearNewest(f, frames).frames, h)
      BY <2>1, <2>4, <2>5
    <2> QED
      BY <1>2, <2>1, <2>2, <2>3, <2>5
  <1> QED
    BY <1>1, <1>2

(***************************************************************************)
(* The shape of a step.                                                    *)
(***************************************************************************)
\* What the type invariant says of the stack.
LEMMA StackFacts ==
  ASSUME TypeOK
  PROVE  /\ pending \in Seq(Arguments)
         /\ stack \in Seq(Activations) /\ DOMAIN stack = 1 .. Len(stack) /\ Len(stack) \in Nat
         /\ \A i \in DOMAIN stack : stack[i] \in Activations
         /\ stack # <<>> =>
              /\ Len(stack) > 0 /\ Len(stack) \in DOMAIN stack
              /\ Last(stack) = stack[Len(stack)] /\ Last(stack) \in Activations
              /\ Front(stack) \in Seq(Activations) /\ Len(Front(stack)) = Len(stack) - 1
              /\ DOMAIN Front(stack) = 1 .. Len(stack) - 1
              /\ \A i \in 1 .. Len(stack) - 1 : Front(stack)[i] = stack[i]
  <1>1. pending \in Seq(Arguments) /\ stack \in Seq(Activations)
    BY DEF TypeOK
  <1>2. DOMAIN stack = 1 .. Len(stack) /\ Len(stack) \in Nat
    BY <1>1, LenProperties
  <1>3. \A i \in DOMAIN stack : stack[i] \in Activations
    BY <1>1, <1>2, ElementOfSeq
  <1>4. ASSUME stack # <<>>
        PROVE  /\ Len(stack) > 0 /\ Len(stack) \in DOMAIN stack
               /\ Last(stack) = stack[Len(stack)] /\ Last(stack) \in Activations
               /\ Front(stack) \in Seq(Activations) /\ Len(Front(stack)) = Len(stack) - 1
               /\ \A i \in 1 .. Len(stack) - 1 : Front(stack)[i] = stack[i]
    BY <1>1, <1>4, TopFacts
  <1>5. stack # <<>> => DOMAIN Front(stack) = 1 .. Len(stack) - 1
    BY <1>4, LenProperties
  <1> QED
    BY <1>1, <1>2, <1>3, <1>4, <1>5

\* The activations with their frames and the result on its way stay as they are.
LEMMA QuietStep ==
  ASSUME Inv, UNCHANGED <<pending, stack, returned, crossed>>,
         \A h \in Handles : leaked'[h] \in {leaked[h], 0}
  PROVE  ReturnedFits' /\ NestFits' /\ InStep'
  <1>1. ReturnedFits'
    BY DEF Inv, ReturnedFits, NoReturn
  <1>2. NestFits'
    BY DEF Inv, NestFits, Collecting
  <1>3. Mirror' = Mirror
    BY DEF Mirror, Callbacks, CallbacksUpTo
  <1>4. InStep'
    BY <1>3 DEF Inv, InStep
  <1> QED
    BY <1>1, <1>2, <1>4

\* The activations stay, and there is another result, or none.
LEMMA ResultStep ==
  ASSUME Inv, UNCHANGED <<pending, stack, leaked, crossed>>,
         \/ returned' = NoReturn
         \/ \E use \in Uses :
              /\ use = "argument" => Collecting(Len(stack))
              /\ \/ \E v \in Handles : returned' = Returned("OK", v, use)
                 \/ returned' = Returned("FAILED", NULL, use)
  PROVE  ReturnedFits' /\ NestFits' /\ InStep'
  <1>1. ReturnedFits'
    BY DEF ReturnedFits, NoReturn, Returned, Handles
  <1>2. NestFits'
    <2>1. \A k : Collecting(k)' = Collecting(k)
      BY DEF Collecting
    <2>2. returned' # NoReturn => \E use \in Uses : returned'.use = use /\ (use = "argument" => Collecting(Len(stack)))
      BY DEF Returned
    <2> QED
      BY <2>1, <2>2 DEF Inv, NestFits
  <1>3. Mirror' = Mirror
    BY DEF Mirror, Callbacks, CallbacksUpTo
  <1>4. InStep'
    BY <1>3 DEF Inv, InStep
  <1> QED
    BY <1>1, <1>2, <1>4

\* Activations stay on the stack, and with them the evaluations that take what
\* those above them yield.
LEMMA CollectingBelow ==
  ASSUME TypeOK, NEW n \in Nat, n <= Len(stack), Len(stack') >= n, Len(stack') \in Nat,
         DOMAIN stack' = 1 .. Len(stack'), \A i \in 1 .. n : stack'[i] = stack[i]
  PROVE  \A k \in 1 .. n : Collecting(k)' = Collecting(k)
  <1>1. DOMAIN stack = 1 .. Len(stack) /\ Len(stack) \in Nat
    BY StackFacts
  <1> QED
    BY <1>1 DEF Collecting

LEMMA CollectingRange ==
  ASSUME TypeOK, NEW k, Collecting(k)
  PROVE  k \in 1 .. Len(stack)
  BY StackFacts DEF Collecting

\* The newest activation is gone, and what it was for is decided.
LEMMA PoppedStep ==
  ASSUME Inv, stack # <<>>, stack' = Front(stack),
         \/ \E v \in Handles : returned' = Returned("OK", v, Last(stack).use)
         \/ returned' = Returned("FAILED", NULL, Last(stack).use)
  PROVE  ReturnedFits' /\ NestFits'
  <1>1. ReturnedFits'
    BY DEF ReturnedFits, NoReturn, Returned, Handles
  <1>2. returned'.use = Last(stack).use
    BY DEF Returned
  <1>3. NestFits'
    <2>1. /\ DOMAIN stack = 1 .. Len(stack) /\ Len(stack) \in Nat /\ Len(stack) > 0
          /\ Last(stack) = stack[Len(stack)]
          /\ Len(stack') = Len(stack) - 1 /\ DOMAIN stack' = 1 .. Len(stack) - 1
          /\ \A i \in 1 .. Len(stack) - 1 : stack'[i] = stack[i]
      BY StackFacts DEF Inv
    <2>2. \A k \in 1 .. Len(stack) - 1 : Collecting(k)' = Collecting(k)
      <3> DEFINE n == Len(stack) - 1
      <3>1. n \in Nat /\ n <= Len(stack) /\ Len(stack') = n
        BY <2>1
      <3>2. \A k \in 1 .. n : Collecting(k)' = Collecting(k)
        <4>1. \A i \in 1 .. n : stack'[i] = stack[i]
          BY <2>1
        <4>2. DOMAIN stack' = 1 .. Len(stack')
          BY <2>1
        <4>3. Len(stack') >= n /\ Len(stack') \in Nat
          BY <3>1
        <4> HIDE DEF n
        <4> QED
          BY <3>1, <4>1, <4>2, <4>3, CollectingBelow DEF Inv
      <3> QED
        BY <3>2
    <2>3. \A i \in DOMAIN stack : stack[i].use = "argument" => Collecting(i - 1)
      BY DEF Inv, NestFits
    <2>4. ASSUME NEW i \in DOMAIN stack', stack'[i].use = "argument"
          PROVE  Collecting(i - 1)'
      <3>1. i \in DOMAIN stack /\ stack[i].use = "argument" /\ i \in Nat
        BY <2>1, <2>4
      <3>2. Collecting(i - 1)
        BY <2>3, <3>1
      <3>3. i - 1 \in 1 .. Len(stack)
        BY <3>2, CollectingRange DEF Inv
      <3>4. i - 1 \in 1 .. Len(stack) - 1
        BY <2>1, <2>4, <3>1, <3>3
      <3> QED
        BY <2>2, <3>2, <3>4
    <2>5. ASSUME returned'.use = "argument"
          PROVE  Collecting(Len(stack))'
      <3>1. Collecting(Len(stack) - 1)
        BY <1>2, <2>1, <2>3, <2>5
      <3>2. Len(stack) - 1 \in 1 .. Len(stack)
        BY <3>1, CollectingRange DEF Inv
      <3>3. Len(stack) - 1 \in 1 .. Len(stack) - 1
        BY <2>1, <3>2
      <3>4. \A k \in Nat : k = Len(stack) - 1 => Collecting(k)'
        BY <2>2, <3>1, <3>3
      <3>5. Len(stack') \in Nat /\ Len(stack') = Len(stack) - 1
        BY <2>1
      <3> QED
        BY <3>4, <3>5 DEF Collecting
    <2> QED
      BY <2>4, <2>5 DEF NestFits
  <1> QED
    BY <1>1, <1>3

\* The newest activation is another now, for the same use.
LEMMA ReplacedStep ==
  ASSUME Inv, stack # <<>>, NEW e \in Activations, e.use = Last(stack).use,
         stack' = Append(Front(stack), e), returned' = NoReturn
  PROVE  ReturnedFits' /\ NestFits'
  <1>1. ReturnedFits'
    BY DEF ReturnedFits, NoReturn
  <1>2. /\ DOMAIN stack = 1 .. Len(stack) /\ Len(stack) \in Nat /\ Len(stack) > 0
        /\ Last(stack) = stack[Len(stack)] /\ stack \in Seq(Activations)
    BY StackFacts DEF Inv
  <1>3. /\ stack' \in Seq(Activations) /\ Len(stack') = Len(stack) /\ stack'[Len(stack)] = e
        /\ \A i \in 1 .. Len(stack) - 1 : stack'[i] = stack[i]
    <2>1. stack \in Seq(Activations)
      BY <1>2
    <2>2. ASSUME NEW g, g = Append(Front(stack), e)
          PROVE  /\ g \in Seq(Activations) /\ Len(g) = Len(stack) /\ g[Len(stack)] = e
                 /\ \A i \in 1 .. Len(stack) - 1 : g[i] = stack[i]
      <3>1. g \in Seq(Activations)
        BY ONLY <2>1, <2>2, stack # <<>>, e \in Activations, ReplaceFacts
      <3>2. Len(g) = Len(stack)
        BY ONLY <2>1, <2>2, stack # <<>>, e \in Activations, ReplaceFacts
      <3>3. g[Len(stack)] = e
        BY ONLY <2>1, <2>2, stack # <<>>, e \in Activations, ReplaceFacts
      <3>4. \A i \in 1 .. Len(stack) - 1 : g[i] = stack[i]
        BY ONLY <2>1, <2>2, stack # <<>>, e \in Activations, ReplaceFacts
      <3> QED
        BY ONLY <3>1, <3>2, <3>3, <3>4
    <2> QED
      BY <2>2
  <1>4. DOMAIN stack' = 1 .. Len(stack)
    BY <1>3, LenProperties
  <1>5. \A k \in 1 .. Len(stack) - 1 : Collecting(k)' = Collecting(k)
    <2> DEFINE n == Len(stack) - 1
    <2>1. n \in Nat /\ n <= Len(stack) /\ Len(stack') >= n /\ Len(stack') \in Nat
      BY <1>2, <1>3
    <2>2. \A i \in 1 .. n : stack'[i] = stack[i]
      BY <1>3
    <2>3. DOMAIN stack' = 1 .. Len(stack')
      BY <1>3, <1>4
    <2>4. \A k \in 1 .. n : Collecting(k)' = Collecting(k)
      <3> HIDE DEF n
      <3> QED
        BY <2>1, <2>2, <2>3, CollectingBelow DEF Inv
    <2> QED
      BY <2>4
  <1>6. ASSUME NEW i \in DOMAIN stack', stack'[i].use = "argument"
        PROVE  Collecting(i - 1)'
    <2>1. i \in DOMAIN stack /\ stack[i].use = "argument" /\ i \in Nat /\ i <= Len(stack)
      <3>1. i \in DOMAIN stack /\ i \in Nat /\ i <= Len(stack)
        BY ONLY <1>2, <1>4, i \in DOMAIN stack'
      <3>2. CASE i = Len(stack)
        BY <1>2, <1>3, <1>6, <3>1, <3>2
      <3>3. CASE i # Len(stack)
        <4>1. stack'[i] = stack[i]
          BY <1>2, <1>3, <3>1, <3>3
        <4> QED
          BY <1>6, <3>1, <4>1
      <3> QED
        BY <3>2, <3>3
    <2>2. Collecting(i - 1)
      BY <2>1 DEF Inv, NestFits
    <2>3. i - 1 \in 1 .. Len(stack)
      BY <2>2, CollectingRange DEF Inv
    <2>4. i - 1 \in 1 .. Len(stack) - 1
      BY <1>2, <2>1, <2>3
    <2> QED
      BY <1>5, <2>2, <2>4
  <1>7. NestFits'
    BY <1>6 DEF NestFits
  <1> QED
    BY <1>1, <1>7

\* A call begins.
LEMMA PushedStep ==
  ASSUME Inv, NEW e \in Activations, e.use = "argument" => Collecting(Len(stack)),
         stack' = Append(stack, e), UNCHANGED returned, returned = NoReturn
  PROVE  ReturnedFits' /\ NestFits'
  <1>1. ReturnedFits'
    BY DEF ReturnedFits, NoReturn
  <1>2. DOMAIN stack = 1 .. Len(stack) /\ Len(stack) \in Nat /\ stack \in Seq(Activations)
    BY StackFacts DEF Inv
  <1>3. /\ stack' \in Seq(Activations) /\ Len(stack') = Len(stack) + 1 /\ stack'[Len(stack) + 1] = e
        /\ \A i \in 1 .. Len(stack) : stack'[i] = stack[i]
    BY <1>2, PushFacts
  <1>4. DOMAIN stack' = 1 .. Len(stack) + 1
    BY <1>3, LenProperties
  <1>5. \A k \in 1 .. Len(stack) : Collecting(k)' = Collecting(k)
    <2>1. Len(stack) <= Len(stack) /\ Len(stack') >= Len(stack) /\ Len(stack') \in Nat
      BY <1>2, <1>3
    <2>2. DOMAIN stack' = 1 .. Len(stack')
      BY <1>3, <1>4
    <2> QED
      BY <1>2, <1>3, <2>1, <2>2, CollectingBelow DEF Inv
  <1>6. ASSUME NEW i \in DOMAIN stack', stack'[i].use = "argument"
        PROVE  Collecting(i - 1)'
    <2>1. Collecting(i - 1)
      <3>1. CASE i \in DOMAIN stack
        <4>1. stack[i].use = "argument"
          BY <1>2, <1>3, <1>6, <3>1
        <4> QED
          BY <3>1, <4>1 DEF Inv, NestFits
      <3>2. CASE i \notin DOMAIN stack
        <4>1. i = Len(stack) + 1
          BY <1>2, <1>4, <3>2
        <4>2. e.use = "argument" /\ i - 1 = Len(stack)
          BY <1>2, <1>3, <1>6, <4>1
        <4> QED
          BY <4>2
      <3> QED
        BY <3>1, <3>2
    <2>2. i - 1 \in 1 .. Len(stack)
      BY <2>1, CollectingRange DEF Inv
    <2> QED
      BY <1>5, <2>1, <2>2
  <1>7. NestFits'
    BY <1>6 DEF NestFits
  <1> QED
    BY <1>1, <1>7

(***************************************************************************)
(* The pending frames and the callbacks.                                   *)
(***************************************************************************)
LEMMA CallbackFacts ==
  ASSUME TypeOK
  PROVE  /\ Callbacks \subseteq 1 .. Len(stack) /\ IsFiniteSet(Callbacks)
         /\ \A i : IsFiniteSet({j \in Callbacks : j <= i})
         /\ \A i : CallbacksUpTo(i) \in Nat /\ CallbacksUpTo(i) <= Cardinality(Callbacks)
         /\ Cardinality(Callbacks) \in Nat
         /\ \A i \in Callbacks : CallbacksUpTo(i) > 0
  <1>1. Callbacks \subseteq 1 .. Len(stack) /\ Len(stack) \in Nat
    BY StackFacts DEF Callbacks
  <1>2. IsFiniteSet(Callbacks)
    <2>1. 1 \in Int /\ Len(stack) \in Int
      BY <1>1
    <2> QED
      BY <1>1, <2>1, FS_Interval, FS_Subset
  <1>3. ASSUME NEW i
        PROVE  /\ IsFiniteSet({j \in Callbacks : j <= i})
               /\ CallbacksUpTo(i) \in Nat /\ CallbacksUpTo(i) <= Cardinality(Callbacks)
    <2> DEFINE U == {j \in Callbacks : j <= i}
    <2>1. U \in SUBSET Callbacks
      OBVIOUS
    <2> HIDE DEF U
    <2>2. IsFiniteSet(U) /\ Cardinality(U) <= Cardinality(Callbacks)
      BY <1>2, <2>1, FS_Subset
    <2>3. Cardinality(U) \in Nat
      BY <2>2, FS_CardinalityType
    <2> QED
      BY <2>2, <2>3 DEF U, CallbacksUpTo
  <1>4. ASSUME NEW i \in Callbacks
        PROVE  CallbacksUpTo(i) > 0
    <2> DEFINE U == {j \in Callbacks : j <= i}
    <2>1. i \in U
      BY <1>1
    <2>2. IsFiniteSet(U) /\ CallbacksUpTo(i) = Cardinality(U) /\ CallbacksUpTo(i) \in Nat
      BY <1>3 DEF CallbacksUpTo
    <2> HIDE DEF U
    <2>3. Cardinality(U) # 0
      BY <2>1, <2>2, FS_EmptySet
    <2> QED
      BY <2>2, <2>3
  <1>5. Cardinality(Callbacks) \in Nat
    BY <1>2, FS_CardinalityType
  <1> QED
    BY <1>1, <1>2, <1>3, <1>4, <1>5

\* The callbacks and their frames stay.
LEMMA MirrorKeep ==
  ASSUME Mirror, Callbacks' = Callbacks, pending' = pending,
         \A i \in Callbacks : stack'[i] = stack[i]
  PROVE  Mirror'
  <1>1. \A i : CallbacksUpTo(i)' = CallbacksUpTo(i)
    BY DEF CallbacksUpTo
  <1> QED
    BY <1>1 DEF Mirror

\* The newest callback has returned, and its frame is gone.
LEMMA MirrorPop ==
  ASSUME TypeOK, Mirror, NEW c \in Callbacks, \A i \in Callbacks : i <= c,
         Callbacks' = Callbacks \ {c}, \A i \in Callbacks' : stack'[i] = stack[i],
         pending' = Front(pending)
  PROVE  Mirror'
  <1>1. /\ Callbacks \subseteq 1 .. Len(stack) /\ IsFiniteSet(Callbacks) /\ Len(stack) \in Nat
        /\ \A i : CallbacksUpTo(i) \in Nat
        /\ Cardinality(Callbacks) \in Nat
        /\ \A i \in Callbacks : CallbacksUpTo(i) > 0
    BY CallbackFacts, StackFacts
  <1>2. Cardinality(Callbacks') = Cardinality(Callbacks) - 1
    BY <1>1, FS_RemoveElement
  <1>3. Cardinality(Callbacks) > 0 /\ Len(pending) = Cardinality(Callbacks)
    <2>1. Cardinality(Callbacks) # 0
      BY <1>1, FS_EmptySet
    <2> QED
      BY <1>1, <2>1 DEF Mirror
  <1>4. /\ pending \in Seq(Arguments) /\ pending # <<>>
        /\ Len(pending') = Len(pending) - 1
        /\ \A i \in 1 .. Len(pending) - 1 : pending'[i] = pending[i]
    <2>1. pending \in Seq(Arguments)
      BY StackFacts
    <2>2. pending # <<>>
      BY <1>3, <2>1, EmptySeq
    <2> QED
      BY <2>1, <2>2, TopFacts
  <1>5. Len(pending') = Cardinality(Callbacks)'
    BY <1>2, <1>3, <1>4
  <1>6. ASSUME NEW i \in Callbacks'
        PROVE  pending'[CallbacksUpTo(i)'] = stack'[i].args
    <2>1. i \in Callbacks /\ i # c /\ i <= c /\ stack'[i] = stack[i] /\ i \in Nat /\ c \in Nat
      BY <1>1
    <2>2. {j \in Callbacks' : j <= i} = {j \in Callbacks : j <= i}
      BY <1>1, <2>1
    <2>3. CallbacksUpTo(i)' = CallbacksUpTo(i)
      BY <2>2 DEF CallbacksUpTo
    <2>4. CallbacksUpTo(i) <= Cardinality(Callbacks')
      <3>1. {j \in Callbacks : j <= i} \in SUBSET Callbacks'
        BY <1>1, <2>1
      <3>2. IsFiniteSet(Callbacks')
        BY <1>1, FS_RemoveElement
      <3> QED
        BY <3>1, <3>2, FS_Subset DEF CallbacksUpTo
    <2>5. CallbacksUpTo(i) \in 1 .. Len(pending) - 1
      BY <1>1, <1>2, <1>3, <2>1, <2>4
    <2>6. pending'[CallbacksUpTo(i)] = pending[CallbacksUpTo(i)]
      BY <1>4, <2>5
    <2>7. pending[CallbacksUpTo(i)] = stack[i].args
      BY <2>1 DEF Mirror
    <2> QED
      BY <2>1, <2>3, <2>6, <2>7
  <1> QED
    BY <1>5, <1>6 DEF Mirror

\* A callback starts, with a new frame.
LEMMA MirrorPush ==
  ASSUME TypeOK, Mirror, NEW c \in Nat, c \notin Callbacks, \A i \in Callbacks : i <= c,
         Callbacks' = Callbacks \cup {c}, \A i \in Callbacks : stack'[i] = stack[i],
         stack'[c].args \in Arguments,
         pending' = Append(pending, stack'[c].args)
  PROVE  Mirror'
  <1>1. /\ Callbacks \subseteq 1 .. Len(stack) /\ IsFiniteSet(Callbacks) /\ Len(stack) \in Nat
        /\ \A i : CallbacksUpTo(i) \in Nat /\ CallbacksUpTo(i) <= Cardinality(Callbacks)
        /\ Cardinality(Callbacks) \in Nat
        /\ \A i \in Callbacks : CallbacksUpTo(i) > 0
    BY CallbackFacts, StackFacts
  <1>2. Cardinality(Callbacks') = Cardinality(Callbacks) + 1
    BY <1>1, FS_AddElement
  <1>3. Len(pending) = Cardinality(Callbacks)
    BY DEF Mirror
  <1>4. /\ Len(pending') = Len(pending) + 1
        /\ \A i \in 1 .. Len(pending) : pending'[i] = pending[i]
        /\ pending'[Len(pending) + 1] = stack'[c].args
    <2>1. pending \in Seq(Arguments)
      BY StackFacts
    <2> QED
      BY <2>1, PushFacts
  <1>5. Len(pending') = Cardinality(Callbacks)'
    BY <1>2, <1>3, <1>4
  <1>6. ASSUME NEW i \in Callbacks'
        PROVE  pending'[CallbacksUpTo(i)'] = stack'[i].args
    <2>1. CASE i = c
      <3>1. {j \in Callbacks' : j <= i} = Callbacks'
        <4>1. \A j \in Callbacks' : j <= i
          BY <2>1
        <4> QED
          BY <4>1
      <3>2. CallbacksUpTo(i)' = Len(pending) + 1
        BY <1>2, <1>3, <3>1 DEF CallbacksUpTo
      <3> QED
        BY <1>4, <2>1, <3>2
    <2>2. CASE i # c
      <3>1. i \in Callbacks /\ i <= c /\ stack'[i] = stack[i] /\ i \in Nat
        BY <1>1, <2>2
      <3>2. {j \in Callbacks' : j <= i} = {j \in Callbacks : j <= i}
        BY <1>1, <2>2, <3>1
      <3>3. CallbacksUpTo(i)' = CallbacksUpTo(i)
        BY <3>2 DEF CallbacksUpTo
      <3>4. CallbacksUpTo(i) \in 1 .. Len(pending)
        BY <1>1, <1>3, <3>1
      <3>5. pending'[CallbacksUpTo(i)] = pending[CallbacksUpTo(i)]
        BY <1>4, <3>4
      <3>6. pending[CallbacksUpTo(i)] = stack[i].args
        BY <3>1 DEF Mirror
      <3> QED
        BY <3>1, <3>3, <3>5, <3>6
    <2> QED
      BY <2>1, <2>2
  <1> QED
    BY <1>5, <1>6 DEF Mirror

\* A mirror without callbacks has no frames.
LEMMA MirrorEmpty ==
  ASSUME TypeOK, Mirror
  PROVE  pending = <<>> <=> Callbacks = {}
  <1>1. pending \in Seq(Arguments) /\ IsFiniteSet(Callbacks)
    BY StackFacts, CallbackFacts
  <1>2. pending = <<>> <=> Len(pending) = 0
    BY <1>1, EmptySeq
  <1>3. Callbacks = {} <=> Cardinality(Callbacks) = 0
    BY <1>1, FS_EmptySet
  <1> QED
    BY <1>2, <1>3 DEF Mirror

(***************************************************************************)
(* Ownership.                                                              *)
(***************************************************************************)
InGlobals(h) == Cardinality({n \in Names : globals[n] = h})
OnWay(h) == IF returned.value = h THEN 1 ELSE 0

Owned(h) ==
  held[h] + leaked[h] + InGlobals(h) + InSequence(pending, h)
  + InSequence(Collected(stack), h) + OnWay(h)

\* The owners of a value, and what the counts say of them.
LEMMA OwnerFacts ==
  ASSUME TypeOK, NEW h \in Handles
  PROVE  /\ refs[h] \in Nat /\ held[h] \in Nat /\ leaked[h] \in Nat
         /\ InGlobals(h) \in Nat /\ InSequence(pending, h) \in Nat
         /\ InSequence(Collected(stack), h) \in Nat /\ OnWay(h) \in {0, 1}
         /\ Owned(h) \in Nat
         /\ OwnershipExact => refs[h] = IF alive THEN Owned(h) ELSE 0
         /\ \A n \in Names : globals[n] = h => InGlobals(h) > 0
  <1>1. refs[h] \in Nat /\ held[h] \in Nat /\ leaked[h] \in Nat
    BY DEF TypeOK
  <1>2. IsFiniteSet({n \in Names : globals[n] = h})
    BY HostCallsAssumption, FS_Subset
  <1>3. InGlobals(h) \in Nat
    BY <1>2, FS_CardinalityType DEF InGlobals
  <1>4. InSequence(pending, h) \in Nat
    BY StackFacts, FramesCount
  <1>5. InSequence(Collected(stack), h) \in Nat
    BY StackFacts, CollectedCount
  <1>6. OnWay(h) \in {0, 1}
    BY DEF OnWay
  <1>7. Owned(h) \in Nat
    <2>1. OnWay(h) \in Nat
      BY <1>6
    <2> QED
      BY <1>1, <1>3, <1>4, <1>5, <2>1 DEF Owned
  <1>8. OwnershipExact => refs[h] = IF alive THEN Owned(h) ELSE 0
    BY DEF OwnershipExact, Owned, InGlobals, OnWay
  <1>9. ASSUME NEW n \in Names, globals[n] = h PROVE InGlobals(h) > 0
    <2> DEFINE at == {m \in Names : globals[m] = h}
    <2>1. n \in at
      BY <1>9
    <2>2. IsFiniteSet(at) /\ InGlobals(h) = Cardinality(at)
      BY <1>2 DEF InGlobals
    <2> HIDE DEF at
    <2>3. Cardinality(at) # 0
      BY <2>1, <2>2, FS_EmptySet
    <2> QED
      BY <1>3, <2>2, <2>3
  <1> QED
    BY <1>1, <1>3, <1>4, <1>5, <1>6, <1>7, <1>8, <1>9

\* What remains to be shown of a step: it changes the count of a value by as
\* much as it changes its owners.
LEMMA Balance ==
  ASSUME Inv, UNCHANGED alive, TypeOK',
         \A h \in Handles :
           IF alive THEN refs[h] = Owned(h) => refs'[h] = Owned(h)' ELSE refs'[h] = refs[h]
  PROVE  OwnershipExact'
  <1> SUFFICES ASSUME NEW h \in Handles
               PROVE  refs'[h] = IF alive' THEN Owned(h)' ELSE 0
    BY DEF OwnershipExact, Owned, InGlobals, OnWay
  <1>1. refs[h] = IF alive THEN Owned(h) ELSE 0
    BY OwnerFacts DEF Inv
  <1> QED
    BY <1>1

\* The names bound to one value are counted.
LEMMA GlobalCount ==
  ASSUME NEW h \in Handles
  PROVE  InGlobals(h) \in Nat /\ InGlobals(h)' \in Nat
  <1>1. IsFiniteSet({n \in Names : globals[n] = h})
    BY HostCallsAssumption, FS_Subset
  <1>2. IsFiniteSet({n \in Names : globals'[n] = h})
    BY HostCallsAssumption, FS_Subset
  <1> QED
    BY <1>1, <1>2, FS_CardinalityType DEF InGlobals

\* A name is bound to another value, or to none: a write moves its owner's count from the
\* old value to the new.
LEMMA GlobalWrite ==
  ASSUME NEW n \in Names, \A m \in Names \ {n} : globals'[m] = globals[m], NEW h \in Handles
  PROVE  InGlobals(h)' + (IF globals[n] = h THEN 1 ELSE 0) =
           InGlobals(h) + (IF globals'[n] = h THEN 1 ELSE 0)
  <1> DEFINE before == {m \in Names : globals[m] = h}
             after == {m \in Names : globals'[m] = h}
  <1>1. IsFiniteSet(before) /\ IsFiniteSet(after)
    BY HostCallsAssumption, FS_Subset
  <1>2. before \ {n} = after \ {n}
    OBVIOUS
  <1>3. (n \in before <=> globals[n] = h) /\ (n \in after <=> globals'[n] = h)
    OBVIOUS
  <1>4. InGlobals(h) = Cardinality(before) /\ InGlobals(h)' = Cardinality(after)
    BY DEF InGlobals
  <1> HIDE DEF before, after
  <1>5. Cardinality(before) + (IF n \in after THEN 1 ELSE 0) =
          Cardinality(after) + (IF n \in before THEN 1 ELSE 0)
    BY ONLY <1>1, <1>2, SameButOne
  <1>6. Cardinality(before) \in Nat /\ Cardinality(after) \in Nat
    BY <1>1, FS_CardinalityType
  <1> QED
    BY ONLY <1>3, <1>4, <1>5, <1>6

\* The count of what a name was bound to goes down with the binding.
LEMMA DropGlobal ==
  ASSUME Inv, NEW n \in Names, NEW f \in [Handles -> Nat], \A h \in Handles : f[h] >= refs[h],
         ~alive => f = refs
  PROVE  /\ Drop(f, globals[n]) \in [Handles -> Nat]
         /\ alive => \A h \in Handles :
              Drop(f, globals[n])[h] = f[h] - (IF globals[n] = h THEN 1 ELSE 0)
         /\ ~alive => Drop(f, globals[n]) = refs
  <1>1. globals[n] \in Handles \cup {NULL}
    BY DEF Inv, TypeOK
  <1>2. ASSUME alive, globals[n] # NULL PROVE f[globals[n]] > 0
    <2> DEFINE g == globals[n]
    <2>1. g \in Handles
      BY <1>1, <1>2
    <2>2. InGlobals(g) > 0 /\ Owned(g) \in Nat /\ refs[g] = Owned(g)
      BY <1>2, <2>1, OwnerFacts DEF Inv
    <2>3. refs[g] > 0
      BY <2>1, <2>2, OwnerFacts DEF Owned, Inv
    <2> QED
      BY <2>1, <2>3, OwnerFacts DEF Inv
  <1> QED
    BY <1>1, <1>2, DropFacts

(***************************************************************************)
(* What the host does.                                                     *)
(***************************************************************************)
\* The host acts: neither the activations nor the result on its way change.
LEMMA HostStep ==
  ASSUME Inv, UNCHANGED <<alive, pending, stack, returned, leaked, crossed>>, TypeOK', Unborn',
         \A h \in Handles :
           IF alive THEN refs[h] = Owned(h) =>
                           refs'[h] + held[h] + InGlobals(h) = refs[h] + held'[h] + InGlobals(h)'
                    ELSE refs'[h] = refs[h]
  PROVE  Inv'
  <1>1. ASSUME NEW h \in Handles
        PROVE  IF alive THEN refs[h] = Owned(h) => refs'[h] = Owned(h)' ELSE refs'[h] = refs[h]
    <2>1. /\ refs[h] \in Nat /\ held[h] \in Nat /\ leaked[h] \in Nat
          /\ InGlobals(h) \in Nat /\ InSequence(pending, h) \in Nat
          /\ InSequence(Collected(stack), h) \in Nat /\ OnWay(h) \in {0, 1}
      BY OwnerFacts DEF Inv
    <2>2. refs'[h] \in Nat /\ held'[h] \in Nat
      BY DEF TypeOK
    <2>3. InGlobals(h)' \in Nat
      <3>1. IsFiniteSet({n \in Names : globals'[n] = h})
        BY HostCallsAssumption, FS_Subset
      <3> QED
        BY <3>1, FS_CardinalityType DEF InGlobals
    <2>4. Owned(h)' = held'[h] + leaked[h] + InGlobals(h)' + InSequence(pending, h)
                      + InSequence(Collected(stack), h) + OnWay(h)
      BY DEF Owned, OnWay
    <2>5. Owned(h) = held[h] + leaked[h] + InGlobals(h) + InSequence(pending, h)
                     + InSequence(Collected(stack), h) + OnWay(h)
      BY DEF Owned
    <2>6. OnWay(h) \in Nat
      BY <2>1
    <2>7. CASE alive
      <3> SUFFICES ASSUME refs[h] = Owned(h) PROVE refs'[h] = Owned(h)'
        BY <2>7
      <3>1. refs'[h] + held[h] + InGlobals(h) = refs[h] + held'[h] + InGlobals(h)'
        BY <2>7
      <3> QED
        <4> DEFINE rest == leaked[h] + InSequence(pending, h) + InSequence(Collected(stack), h) + OnWay(h)
        <4>1. rest \in Nat
          BY <2>1, <2>6
        <4>2. Owned(h) = held[h] + InGlobals(h) + rest
          BY <2>1, <2>5, <2>6
        <4>3. Owned(h)' = held'[h] + InGlobals(h)' + rest
          BY <2>1, <2>2, <2>3, <2>4, <2>6
        <4> HIDE DEF rest
        <4> QED
          <5>1. \A r, k, g, r1, k1, g1, l \in Nat :
                  r = k + g + l /\ r1 + k + g = r + k1 + g1 => r1 = k1 + g1 + l
            OBVIOUS
          <5>2. refs[h] = held[h] + InGlobals(h) + rest
            BY <4>2
          <5>3. refs[h] \in Nat /\ held[h] \in Nat /\ InGlobals(h) \in Nat
            BY <2>1
          <5>4. refs'[h] = held'[h] + InGlobals(h)' + rest
            BY ONLY <2>2, <2>3, <3>1, <4>1, <5>1, <5>2, <5>3
          <5> QED
            BY <4>3, <5>4
    <2> QED
      BY <2>7
  <1>2. OwnershipExact'
    BY <1>1, Balance
  <1>3. ReturnedFits' /\ NestFits' /\ InStep'
    BY QuietStep
  <1> QED
    BY <1>2, <1>3 DEF Inv

LEMMA ValueFromHostCallableStep ==
  ASSUME Inv, ValueFromHostCallable
  PROVE  Inv'
  <1> DEFINE new == size + 1
  <1>1. size \in 0 .. MaxValues /\ size < MaxValues /\ MaxValues \in Nat
    BY HostCallsAssumption DEF Inv, TypeOK, ValueFromHostCallable, Append1
  <1>2. new \in Handles /\ size' = new /\ alive
    BY <1>1 DEF Handles, ValueFromHostCallable, Append1
  <1>3. /\ refs' = [refs EXCEPT ![new] = 1] /\ held' = [held EXCEPT ![new] = 1]
        /\ callables' = callables \cup {new}
        /\ UNCHANGED <<alive, globals, handler, pending, stack, returned, leaked, crossed>>
    BY DEF ValueFromHostCallable, Append1
  <1>4. TypeOK'
    <2>1. callables' \subseteq 1 .. size' /\ size' \in 0 .. MaxValues
      BY <1>1, <1>2, <1>3 DEF Inv, TypeOK
    <2> HIDE DEF new
    <2> QED
      BY <1>2, <1>3, <2>1 DEF Inv, TypeOK
  <1>5. \A h \in Handles : h > size => refs[h] = 0
    BY DEF Inv, Unborn
  <1>6. Unborn'
    BY <1>1, <1>2, <1>3, <1>5 DEF Unborn, Inv, TypeOK, Handles
  <1>7. ASSUME NEW h \in Handles, refs[h] = Owned(h)
        PROVE  refs'[h] + held[h] + InGlobals(h) = refs[h] + held'[h] + InGlobals(h)'
    <2>1. InGlobals(h)' = InGlobals(h) /\ InGlobals(h) \in Nat
      BY <1>3, OwnerFacts DEF InGlobals, Inv
    <2>2. CASE h = new
      <3>1. refs[h] = 0
        BY <1>1, <1>5, <2>2
      <3>2. held[h] = 0
        <4>1. /\ held[h] \in Nat /\ leaked[h] \in Nat /\ InGlobals(h) \in Nat
              /\ InSequence(pending, h) \in Nat /\ InSequence(Collected(stack), h) \in Nat
              /\ OnWay(h) \in {0, 1}
          BY OwnerFacts DEF Inv
        <4>2. held[h] + leaked[h] + InGlobals(h) + InSequence(pending, h)
              + InSequence(Collected(stack), h) + OnWay(h) = 0
          BY <1>7, <3>1 DEF Owned
        <4>3. OnWay(h) \in Nat
          BY <4>1
        <4>4. \A k, l, g, p, e, w \in Nat : k + l + g + p + e + w = 0 => k = 0
          OBVIOUS
        <4> QED
          BY ONLY <4>1, <4>2, <4>3, <4>4
      <3>3. refs'[h] = 1 /\ held'[h] = 1
        BY <1>3, <2>2 DEF Inv, TypeOK
      <3> QED
        BY <2>1, <3>1, <3>2, <3>3
    <2>3. CASE h # new
      <3>1. refs'[h] = refs[h] /\ held'[h] = held[h] /\ refs[h] \in Nat /\ held[h] \in Nat
        BY <1>3, <2>3 DEF Inv, TypeOK
      <3> QED
        BY <2>1, <3>1
    <2> QED
      BY <2>2, <2>3
  <1> QED
    BY <1>2, <1>3, <1>4, <1>6, <1>7, HostStep

LEMMA RetainStep ==
  ASSUME Inv, NEW x \in Handles, Retain(x)
  PROVE  Inv'
  <1>1. /\ alive /\ refs[x] > 0 /\ refs' = Keep(refs, x) /\ held' = Keep(held, x)
        /\ UNCHANGED <<alive, values, globals, handler, pending, stack, returned, leaked, crossed>>
    BY DEF Retain, Valid
  <1>2. /\ refs \in [Handles -> Nat] /\ held \in [Handles -> Nat]
        /\ refs' \in [Handles -> Nat] /\ held' \in [Handles -> Nat]
        /\ \A h \in Handles : refs'[h] = refs[h] + (IF h = x THEN 1 ELSE 0)
        /\ \A h \in Handles : held'[h] = held[h] + (IF h = x THEN 1 ELSE 0)
    BY <1>1, KeepFacts DEF Inv, TypeOK
  <1>3. TypeOK'
    BY <1>1, <1>2 DEF Inv, TypeOK, values
  <1>4. Unborn'
    BY <1>1, <1>2 DEF Inv, Unborn, values
  <1>5. ASSUME NEW h \in Handles
        PROVE  refs'[h] + held[h] + InGlobals(h) = refs[h] + held'[h] + InGlobals(h)'
    <2>1. InGlobals(h)' = InGlobals(h) /\ InGlobals(h) \in Nat /\ refs[h] \in Nat /\ held[h] \in Nat
      BY <1>1, OwnerFacts DEF InGlobals, Inv
    <2> QED
      BY <1>2, <2>1
  <1> QED
    BY <1>1, <1>3, <1>4, <1>5, HostStep

LEMMA ReleaseStep ==
  ASSUME Inv, NEW x \in Handles, Release(x)
  PROVE  Inv'
  <1>1. /\ alive /\ refs[x] > 0 /\ held[x] > 0
        /\ refs' = Drop(refs, x) /\ held' = [held EXCEPT ![x] = @ - 1]
        /\ UNCHANGED <<alive, values, globals, handler, pending, stack, returned, leaked, crossed>>
    BY DEF Release, Valid
  <1>2. refs \in [Handles -> Nat] /\ held \in [Handles -> Nat]
    BY DEF Inv, TypeOK
  <1>3. /\ refs' \in [Handles -> Nat]
        /\ \A h \in Handles : refs'[h] = refs[h] - (IF h = x THEN 1 ELSE 0)
    BY <1>1, <1>2, DropFacts
  <1>4. /\ held' \in [Handles -> Nat]
        /\ \A h \in Handles : held'[h] = held[h] - (IF h = x THEN 1 ELSE 0)
    BY <1>1, <1>2
  <1>5. TypeOK'
    BY <1>1, <1>3, <1>4 DEF Inv, TypeOK, values
  <1>6. Unborn'
    <2> SUFFICES ASSUME NEW h \in Handles, h > size PROVE refs'[h] = 0
      BY <1>1 DEF Unborn, values
    <2>1. refs[h] = 0
      BY DEF Inv, Unborn
    <2>2. h # x
      BY <1>1, <2>1
    <2> QED
      BY <1>3, <2>1, <2>2
  <1>7. ASSUME NEW h \in Handles
        PROVE  refs'[h] + held[h] + InGlobals(h) = refs[h] + held'[h] + InGlobals(h)'
    <2>1. InGlobals(h)' = InGlobals(h) /\ InGlobals(h) \in Nat /\ refs[h] \in Nat /\ held[h] \in Nat
      BY <1>1, OwnerFacts DEF InGlobals, Inv
    <2> QED
      BY <1>3, <1>4, <2>1
  <1> QED
    BY <1>1, <1>5, <1>6, <1>7, HostStep

LEMMA SetGlobalStep ==
  ASSUME Inv, NEW n \in Names, NEW x \in Handles, SetGlobal(n, x)
  PROVE  Inv'
  <1>1. /\ alive /\ refs[x] > 0
        /\ refs' = Drop(Keep(refs, x), globals[n])
        /\ globals' = [globals EXCEPT ![n] = x]
        /\ UNCHANGED <<alive, values, handler, pending, stack, returned, history>>
    BY DEF SetGlobal, Valid
  <1> DEFINE f == Keep(refs, x)
  <1>2. refs \in [Handles -> Nat] /\ globals \in [Names -> Handles \cup {NULL}]
    BY DEF Inv, TypeOK
  <1>3. f \in [Handles -> Nat] /\ \A h \in Handles : f[h] = refs[h] + (IF h = x THEN 1 ELSE 0)
    BY <1>2, KeepFacts
  <1> HIDE DEF f
  <1>4. \A h \in Handles : f[h] >= refs[h]
    BY <1>2, <1>3
  <1>5. /\ refs' \in [Handles -> Nat]
        /\ \A h \in Handles : refs'[h] = f[h] - (IF globals[n] = h THEN 1 ELSE 0)
    <2>1. refs' = Drop(f, globals[n])
      BY <1>1 DEF f
    <2>2. /\ Drop(f, globals[n]) \in [Handles -> Nat]
          /\ \A h \in Handles : Drop(f, globals[n])[h] = f[h] - (IF globals[n] = h THEN 1 ELSE 0)
      BY <1>1, <1>3, <1>4, DropGlobal
    <2> QED
      BY <2>1, <2>2
  <1>6. TypeOK'
    BY <1>1, <1>2, <1>5 DEF Inv, TypeOK, values, history
  <1>7. ASSUME NEW h \in Handles
        PROVE  /\ InGlobals(h)' \in Nat /\ InGlobals(h) \in Nat /\ refs[h] \in Nat
               /\ InGlobals(h)' + (IF globals[n] = h THEN 1 ELSE 0) =
                    InGlobals(h) + (IF x = h THEN 1 ELSE 0)
    <2>1. TypeOK /\ x \in Handles \cup {NULL} /\ globals' = [globals EXCEPT ![n] = x]
      BY <1>1 DEF Inv
    <2>2. InGlobals(h)' \in Nat
      BY GlobalCount
    <2>3. InGlobals(h)' + (IF globals[n] = h THEN 1 ELSE 0) =
            InGlobals(h) + (IF x = h THEN 1 ELSE 0)
      <3>1. globals'[n] = x /\ \A m \in Names \ {n} : globals'[m] = globals[m]
        BY ONLY <2>1, n \in Names DEF TypeOK
      <3>2. InGlobals(h)' + (IF globals[n] = h THEN 1 ELSE 0) =
              InGlobals(h) + (IF globals'[n] = h THEN 1 ELSE 0)
        BY ONLY <3>1, n \in Names, h \in Handles, GlobalWrite
      <3> QED
        BY ONLY <3>1, <3>2
    <2>4. InGlobals(h) \in Nat /\ refs[h] \in Nat
      BY <2>1, OwnerFacts
    <2> QED
      BY ONLY <2>2, <2>3, <2>4
  <1>8. Unborn'
    <2> SUFFICES ASSUME NEW h \in Handles, h > size PROVE refs'[h] = 0
      BY <1>1 DEF Unborn, values
    <2>1. refs[h] = 0 /\ h # x
      BY <1>1 DEF Inv, Unborn
    <2>2. refs'[h] \in Nat
      BY <1>3, <1>5, <2>1
    <2>3. CASE globals[n] = h
      <3>1. refs'[h] = 0 - 1
        BY <1>3, <1>5, <2>1, <2>3
      <3> QED
        BY <2>2, <3>1
    <2>4. CASE globals[n] # h
      BY <1>3, <1>5, <2>1, <2>4
    <2> QED
      BY <2>3, <2>4
  <1>9. ASSUME NEW h \in Handles
        PROVE  refs'[h] + held[h] + InGlobals(h) = refs[h] + held'[h] + InGlobals(h)'
    <2>1. held'[h] = held[h] /\ held[h] \in Nat
      BY <1>1, OwnerFacts DEF Inv, history
    <2> QED
      BY <1>3, <1>5, <1>7, <2>1
  <1> QED
    BY <1>1, <1>6, <1>8, <1>9, HostStep DEF history

LEMMA DeleteGlobalStep ==
  ASSUME Inv, NEW n \in Names, DeleteGlobal(n)
  PROVE  Inv'
  <1>1. /\ alive
        /\ refs' = Drop(refs, globals[n])
        /\ globals' = [globals EXCEPT ![n] = NULL]
        /\ UNCHANGED <<alive, values, handler, pending, stack, returned, history>>
    BY DEF DeleteGlobal
  <1>2. refs \in [Handles -> Nat] /\ globals \in [Names -> Handles \cup {NULL}]
    BY DEF Inv, TypeOK
  <1>3. /\ refs' \in [Handles -> Nat]
        /\ \A h \in Handles : refs'[h] = refs[h] - (IF globals[n] = h THEN 1 ELSE 0)
    <2>1. \A h \in Handles : refs[h] >= refs[h]
      BY <1>2
    <2>2. /\ Drop(refs, globals[n]) \in [Handles -> Nat]
          /\ \A h \in Handles : Drop(refs, globals[n])[h] = refs[h] - (IF globals[n] = h THEN 1 ELSE 0)
      BY <1>1, <1>2, <2>1, DropGlobal
    <2> QED
      BY <1>1, <2>2
  <1>4. TypeOK'
    BY <1>1, <1>2, <1>3 DEF Inv, TypeOK, values, history
  <1>5. ASSUME NEW h \in Handles
        PROVE  /\ InGlobals(h)' \in Nat /\ InGlobals(h) \in Nat /\ refs[h] \in Nat
               /\ InGlobals(h)' + (IF globals[n] = h THEN 1 ELSE 0) = InGlobals(h)
    <2>1. NULL # h
      BY DEF Handles
    <2>2. /\ InGlobals(h)' \in Nat /\ InGlobals(h) \in Nat /\ refs[h] \in Nat
          /\ InGlobals(h)' + (IF globals[n] = h THEN 1 ELSE 0) =
               InGlobals(h) + (IF NULL = h THEN 1 ELSE 0)
      <3>1. TypeOK /\ NULL \in Handles \cup {NULL} /\ globals' = [globals EXCEPT ![n] = NULL]
        BY <1>1 DEF Inv
      <3>2. InGlobals(h)' \in Nat
        BY GlobalCount
      <3>3. InGlobals(h)' + (IF globals[n] = h THEN 1 ELSE 0) =
              InGlobals(h) + (IF NULL = h THEN 1 ELSE 0)
        <4>1. globals'[n] = NULL /\ \A m \in Names \ {n} : globals'[m] = globals[m]
          BY ONLY <3>1, n \in Names DEF TypeOK
        <4>2. InGlobals(h)' + (IF globals[n] = h THEN 1 ELSE 0) =
                InGlobals(h) + (IF globals'[n] = h THEN 1 ELSE 0)
          BY ONLY <4>1, n \in Names, h \in Handles, GlobalWrite
        <4> QED
          BY ONLY <4>1, <4>2
      <3>4. InGlobals(h) \in Nat /\ refs[h] \in Nat
        BY <3>1, OwnerFacts
      <3> QED
        BY ONLY <3>2, <3>3, <3>4
    <2> QED
      BY <2>1, <2>2
  <1>6. Unborn'
    <2> SUFFICES ASSUME NEW h \in Handles, h > size PROVE refs'[h] = 0
      BY <1>1 DEF Unborn, values
    <2>1. refs[h] = 0
      BY DEF Inv, Unborn
    <2>2. refs'[h] \in Nat
      BY <1>3, <2>1
    <2>3. CASE globals[n] = h
      <3>1. refs'[h] = 0 - 1
        BY <1>3, <2>1, <2>3
      <3> QED
        BY <2>2, <3>1
    <2>4. CASE globals[n] # h
      BY <1>3, <2>1, <2>4
    <2> QED
      BY <2>3, <2>4
  <1>7. ASSUME NEW h \in Handles
        PROVE  refs'[h] + held[h] + InGlobals(h) = refs[h] + held'[h] + InGlobals(h)'
    <2>1. held'[h] = held[h] /\ held[h] \in Nat
      BY <1>1, OwnerFacts DEF Inv, history
    <2> QED
      BY <1>3, <1>5, <2>1
  <1> QED
    BY <1>1, <1>4, <1>6, <1>7, HostStep DEF history

LEMMA SetHandlerStep ==
  ASSUME Inv, NEW installed \in BOOLEAN, SetHandler(installed)
  PROVE  Inv'
  <1>1. /\ handler' \in BOOLEAN
        /\ UNCHANGED <<alive, values, refs, globals, pending, stack, returned, history>>
    BY DEF SetHandler
  <1>2. TypeOK' /\ Unborn'
    BY <1>1 DEF Inv, TypeOK, Unborn, values, history
  <1>3. ASSUME NEW h \in Handles
        PROVE  refs'[h] + held[h] + InGlobals(h) = refs[h] + held'[h] + InGlobals(h)'
    BY <1>1 DEF InGlobals, history
  <1> QED
    BY <1>1, <1>2, <1>3, HostStep DEF history

\* Nothing owns anything in a dead runtime.
LEMMA RuntimeDestroyStep ==
  ASSUME Inv, RuntimeDestroy
  PROVE  Inv'
  <1>1. /\ alive' = FALSE /\ refs' = [h \in Handles |-> 0] /\ globals' = [n \in Names |-> NULL]
        /\ held' = refs' /\ leaked' = refs'
        /\ UNCHANGED <<values, handler, pending, stack, returned, crossed>>
    BY DEF RuntimeDestroy
  <1>2. TypeOK'
    BY <1>1 DEF Inv, TypeOK, values
  <1>3. Unborn' /\ OwnershipExact'
    BY <1>1 DEF Unborn, OwnershipExact
  <1>4. ReturnedFits' /\ NestFits' /\ InStep'
    BY <1>1, QuietStep
  <1> QED
    BY <1>2, <1>3, <1>4 DEF Inv

(***************************************************************************)
(* Expressions, and what becomes of their results.                         *)
(***************************************************************************)
\* Only the result on its way, the globals and what the host holds change.
LEMMA EvaluateStep ==
  ASSUME Inv, UNCHANGED <<alive, pending, stack, leaked, crossed>>, TypeOK', Unborn',
         \/ returned' = NoReturn
         \/ \E use \in Uses :
              /\ use = "argument" => Collecting(Len(stack))
              /\ \/ \E v \in Handles : returned' = Returned("OK", v, use)
                 \/ returned' = Returned("FAILED", NULL, use),
         ~alive => refs' = refs,
         alive => \A h \in Handles : refs[h] = Owned(h) =>
                    refs'[h] + held[h] + InGlobals(h) + OnWay(h) =
                      refs[h] + held'[h] + InGlobals(h)' + OnWay(h)'
  PROVE  Inv'
  <1>1. ASSUME NEW h \in Handles
        PROVE  IF alive THEN refs[h] = Owned(h) => refs'[h] = Owned(h)' ELSE refs'[h] = refs[h]
    <2>1. /\ refs[h] \in Nat /\ held[h] \in Nat /\ leaked[h] \in Nat
          /\ InGlobals(h) \in Nat /\ InSequence(pending, h) \in Nat
          /\ InSequence(Collected(stack), h) \in Nat /\ OnWay(h) \in {0, 1}
      BY OwnerFacts DEF Inv
    <2>2. refs'[h] \in Nat /\ held'[h] \in Nat
      BY DEF TypeOK
    <2>3. InGlobals(h)' \in Nat
      <3>1. IsFiniteSet({n \in Names : globals'[n] = h})
        BY HostCallsAssumption, FS_Subset
      <3> QED
        BY <3>1, FS_CardinalityType DEF InGlobals
    <2>4. Owned(h)' = held'[h] + leaked[h] + InGlobals(h)' + InSequence(pending, h)
                      + InSequence(Collected(stack), h) + OnWay(h)'
      BY DEF Owned, OnWay
    <2>5. Owned(h) = held[h] + leaked[h] + InGlobals(h) + InSequence(pending, h)
                     + InSequence(Collected(stack), h) + OnWay(h)
      BY DEF Owned
    <2>6. OnWay(h) \in Nat /\ OnWay(h)' \in Nat
      BY DEF OnWay
    <2>7. CASE alive
      <3> SUFFICES ASSUME refs[h] = Owned(h) PROVE refs'[h] = Owned(h)'
        BY <2>7
      <3>1. refs'[h] + held[h] + InGlobals(h) + OnWay(h) =
              refs[h] + held'[h] + InGlobals(h)' + OnWay(h)'
        BY <2>7
      <3> DEFINE rest == leaked[h] + InSequence(pending, h) + InSequence(Collected(stack), h)
      <3>2. /\ rest \in Nat
            /\ leaked[h] \in Nat /\ InSequence(pending, h) \in Nat
            /\ InSequence(Collected(stack), h) \in Nat
        BY <2>1
      <3> DEFINE way == OnWay(h)
                 way1 == OnWay(h)'
                 bound == InGlobals(h)
                 bound1 == InGlobals(h)'
                 waiting == InSequence(pending, h)
                 kept == InSequence(Collected(stack), h)
      <3>3. refs[h] = held[h] + InGlobals(h) + OnWay(h) + rest
        <4>1. /\ refs[h] = held[h] + leaked[h] + bound + waiting + kept + way
              /\ rest = leaked[h] + waiting + kept
          BY <2>5
        <4>2. /\ held[h] \in Nat /\ leaked[h] \in Nat /\ bound \in Nat /\ waiting \in Nat
              /\ kept \in Nat /\ way \in Nat
          BY <2>1, <2>6, <3>2
        <4> HIDE DEF rest, way, bound, waiting, kept
        <4>3. refs[h] = held[h] + bound + way + rest
          BY ONLY <4>1, <4>2
        <4> QED
          BY ONLY <4>3 DEF way, bound
      <3>4. Owned(h)' = held'[h] + InGlobals(h)' + OnWay(h)' + rest
        <4>1. /\ Owned(h)' = held'[h] + leaked[h] + bound1 + waiting + kept + way1
              /\ rest = leaked[h] + waiting + kept
          BY <2>4
        <4>2. /\ held'[h] \in Nat /\ leaked[h] \in Nat /\ bound1 \in Nat /\ waiting \in Nat
              /\ kept \in Nat /\ way1 \in Nat
          BY <2>2, <2>3, <2>6, <3>2
        <4> HIDE DEF rest, way1, bound1, waiting, kept
        <4>3. Owned(h)' = held'[h] + bound1 + way1 + rest
          BY ONLY <4>1, <4>2
        <4> QED
          BY ONLY <4>3 DEF way1, bound1
      <3>5. refs[h] \in Nat /\ held[h] \in Nat /\ InGlobals(h) \in Nat
        BY <2>1
      <3> HIDE DEF rest
      <3> DEFINE before == held[h] + InGlobals(h) + OnWay(h)
                 after == held'[h] + InGlobals(h)' + OnWay(h)'
      <3>6. refs'[h] + before = refs[h] + after /\ before \in Nat /\ after \in Nat
        BY ONLY <2>2, <2>3, <2>6, <3>1, <3>5
      <3>7. refs'[h] = after + rest
        <4> HIDE DEF before, after
        <4>1. refs[h] = before + rest
          BY <3>3 DEF before
        <4> QED
          BY ONLY <2>2, <3>2, <3>5, <3>6, <4>1
      <3> QED
        BY <3>4, <3>7
    <2> QED
      BY <2>7
  <1>2. OwnershipExact'
    BY <1>1, Balance
  <1>3. ReturnedFits' /\ NestFits' /\ InStep'
    BY ResultStep
  <1> QED
    BY <1>2, <1>3 DEF Inv

LEMMA ResultTypes ==
  /\ NoReturn \in Results
  /\ \A use \in Uses : Returned("FAILED", NULL, use) \in Results
  /\ \A use \in Uses, v \in Handles : Returned("OK", v, use) \in Results
  BY DEF NoReturn, Results, Returned, Uses

LEMMA NoneOnWay ==
  ASSUME returned = NoReturn, NEW h \in Handles
  PROVE  OnWay(h) = 0
  BY DEF OnWay, NoReturn, Handles

LEMMA ArgumentNameStep ==
  ASSUME Inv, NEW n \in Names, ArgumentName(n)
  PROVE  Inv'
  <1>1. /\ returned = NoReturn /\ stack # <<>> /\ Last(stack).kind = "evaluation"
        /\ Len(Last(stack).args) < MaxArgs
        /\ UNCHANGED <<alive, values, globals, handler, pending, stack, history>>
    BY DEF ArgumentName, Interpreting
  <1>2. Collecting(Len(stack)) /\ "argument" \in Uses
    BY <1>1, StackFacts DEF Inv, Collecting, Uses
  <1>3. refs \in [Handles -> Nat] /\ globals[n] \in Handles \cup {NULL}
    BY DEF Inv, TypeOK
  <1>4. CASE Valid(refs, globals[n])
    <2> DEFINE g == globals[n]
    <2>1. /\ alive /\ g \in Handles /\ refs[g] > 0 /\ refs' = Keep(refs, g)
          /\ returned' = Returned("OK", g, "argument")
      BY <1>3, <1>4 DEF ArgumentName, Valid
    <2> HIDE DEF g
    <2>2. /\ refs' \in [Handles -> Nat]
          /\ \A h \in Handles : refs'[h] = refs[h] + (IF h = g THEN 1 ELSE 0)
      BY <1>3, <2>1, KeepFacts
    <2>3. TypeOK'
      BY <1>1, <1>2, <2>1, <2>2, ResultTypes DEF Inv, TypeOK, values, history
    <2>4. Unborn'
      BY <1>1, <2>1, <2>2 DEF Inv, Unborn, values
    <2>5. ASSUME NEW h \in Handles
          PROVE  refs'[h] + held[h] + InGlobals(h) + OnWay(h) =
                   refs[h] + held'[h] + InGlobals(h)' + OnWay(h)'
      <3>1. /\ refs[h] \in Nat /\ held[h] \in Nat /\ InGlobals(h) \in Nat
            /\ held'[h] = held[h] /\ InGlobals(h)' = InGlobals(h)
        BY <1>1, OwnerFacts DEF Inv, InGlobals, history
      <3>2. OnWay(h) = 0
        BY <1>1, NoneOnWay
      <3>3. OnWay(h)' = IF h = g THEN 1 ELSE 0
        BY <2>1 DEF OnWay, Returned
      <3> QED
        BY <2>2, <3>1, <3>2, <3>3
    <2> QED
      BY <1>1, <1>2, <2>1, <2>3, <2>4, <2>5, EvaluateStep DEF history
  <1>5. CASE ~Valid(refs, globals[n])
    <2>1. refs' = refs /\ returned' = Returned("FAILED", NULL, "argument")
      BY <1>5 DEF ArgumentName
    <2>2. TypeOK' /\ Unborn'
      BY <1>1, <1>2, <2>1, ResultTypes DEF Inv, TypeOK, Unborn, values, history
    <2>3. ASSUME NEW h \in Handles
          PROVE  refs'[h] + held[h] + InGlobals(h) + OnWay(h) =
                   refs[h] + held'[h] + InGlobals(h)' + OnWay(h)'
      <3>1. OnWay(h) = 0 /\ OnWay(h)' = 0
        BY <1>1, <2>1, NoneOnWay DEF OnWay, Returned, Handles
      <3> QED
        BY <1>1, <2>1, <3>1 DEF InGlobals, history
    <2> QED
      BY <1>1, <1>2, <2>1, <2>2, <2>3, EvaluateStep DEF history
  <1> QED
    BY <1>4, <1>5

LEMMA ArgumentLiteralStep ==
  ASSUME Inv, ArgumentLiteral
  PROVE  Inv'
  <1> DEFINE new == size + 1
  <1>1. /\ returned = NoReturn /\ stack # <<>> /\ Last(stack).kind = "evaluation"
        /\ Len(Last(stack).args) < MaxArgs /\ alive
        /\ size \in 0 .. MaxValues /\ size < MaxValues /\ MaxValues \in Nat /\ size' = new
        /\ refs' = [refs EXCEPT ![new] = 1]
        /\ returned' = Returned("OK", new, "argument")
        /\ UNCHANGED <<alive, callables, globals, handler, pending, stack, history>>
    BY HostCallsAssumption DEF ArgumentLiteral, Interpreting, Append1, Inv, TypeOK
  <1>2. Collecting(Len(stack)) /\ "argument" \in Uses
    BY <1>1, StackFacts DEF Inv, Collecting, Uses
  <1>3. new \in Handles /\ new \in 0 .. MaxValues /\ callables \subseteq 1 .. new
    BY <1>1 DEF Handles, Inv, TypeOK
  <1>4. \A h \in Handles : h > size => refs[h] = 0
    BY DEF Inv, Unborn
  <1>5. Unborn'
    BY <1>1, <1>3, <1>4 DEF Unborn, Inv, TypeOK, Handles
  <1>6. refs[new] = 0
    BY <1>1, <1>3, <1>4
  <1> HIDE DEF new
  <1>7. TypeOK'
    BY <1>1, <1>2, <1>3, ResultTypes DEF Inv, TypeOK, history
  <1>8. ASSUME NEW h \in Handles
        PROVE  refs'[h] + held[h] + InGlobals(h) + OnWay(h) =
                 refs[h] + held'[h] + InGlobals(h)' + OnWay(h)'
    <2>1. /\ refs[h] \in Nat /\ held[h] \in Nat /\ InGlobals(h) \in Nat
          /\ held'[h] = held[h] /\ InGlobals(h)' = InGlobals(h)
      BY <1>1, OwnerFacts DEF Inv, InGlobals, history
    <2>2. OnWay(h) = 0
      BY <1>1, NoneOnWay
    <2>3. OnWay(h)' = IF h = new THEN 1 ELSE 0
      BY <1>1 DEF OnWay, Returned
    <2>4. refs'[h] = IF h = new THEN 1 ELSE refs[h]
      BY <1>1 DEF Inv, TypeOK
    <2> QED
      BY <1>6, <2>1, <2>2, <2>3, <2>4
  <1> QED
    BY <1>1, <1>2, <1>3, <1>5, <1>7, <1>8, EvaluateStep DEF history

LEMMA HostReceivesStep ==
  ASSUME Inv, HostReceives
  PROVE  Inv'
  <1> DEFINE v == returned.value
  <1>1. /\ returned # NoReturn /\ returned' = NoReturn
        /\ UNCHANGED <<alive, values, handler, pending, stack, leaked, crossed>>
    BY DEF HostReceives
  <1>2. /\ refs \in [Handles -> Nat] /\ held \in [Handles -> Nat] /\ v \in Handles \cup {NULL}
        /\ globals \in [Names -> Handles \cup {NULL}]
    BY DEF Inv, TypeOK, Results
  <1>3. returned.status = "OK" => v \in Handles
    BY <1>2 DEF Inv, ReturnedFits
  <1>4. \A h \in Handles : OnWay(h)' = 0
    BY <1>1 DEF OnWay, NoReturn, Handles
  <1>5. ASSUME alive, returned.status = "OK" PROVE refs[v] > 0
    <2>1. v \in Handles /\ OnWay(v) = 1
      BY <1>3, <1>5 DEF OnWay
    <2>2. /\ held[v] \in Nat /\ leaked[v] \in Nat /\ InGlobals(v) \in Nat
          /\ InSequence(pending, v) \in Nat /\ InSequence(Collected(stack), v) \in Nat
          /\ refs[v] = Owned(v)
      BY <1>5, <2>1, OwnerFacts DEF Inv
    <2> HIDE DEF v
    <2> QED
      BY <2>1, <2>2 DEF Owned
  <1>6. ASSUME refs' \in [Handles -> Nat], held' \in [Handles -> Nat],
               globals' \in [Names -> Handles \cup {NULL}], \A h \in Handles : refs'[h] <= refs[h]
        PROVE  TypeOK' /\ Unborn'
    <2>1. TypeOK'
      BY <1>1, <1>6, ResultTypes DEF Inv, TypeOK, values
    <2>2. Unborn'
      <3> SUFFICES ASSUME NEW h \in Handles, h > size PROVE refs'[h] = 0
        BY <1>1 DEF Unborn, values
      <3>1. refs[h] = 0 /\ refs'[h] <= refs[h] /\ refs'[h] \in Nat
        BY <1>6 DEF Inv, Unborn
      <3> QED
        BY <3>1
    <2> QED
      BY <2>1, <2>2
  <1>7. ASSUME NEW h \in Handles
        PROVE  refs[h] \in Nat /\ held[h] \in Nat /\ InGlobals(h) \in Nat
    BY OwnerFacts DEF Inv
  <1>8. CASE returned.status = "FAILED" /\ UNCHANGED <<refs, globals, held>>
    <2>1. \A h \in Handles : OnWay(h) = 0
      BY <1>8 DEF OnWay, Inv, ReturnedFits, Handles
    <2>2. TypeOK' /\ Unborn'
      BY <1>2, <1>6, <1>7, <1>8
    <2>3. ASSUME NEW h \in Handles
          PROVE  refs'[h] + held[h] + InGlobals(h) + OnWay(h) =
                   refs[h] + held'[h] + InGlobals(h)' + OnWay(h)'
      BY <1>4, <1>8, <2>1 DEF InGlobals
    <2> QED
      BY <1>1, <1>8, <2>2, <2>3, EvaluateStep
  <1>9. CASE returned.status = "OK" /\ held' = Keep(held, v) /\ UNCHANGED <<refs, globals>>
    <2> HIDE DEF v
    <2>1. v \in Handles
      BY <1>3, <1>9
    <2>2. /\ held' \in [Handles -> Nat]
          /\ \A h \in Handles : held'[h] = held[h] + (IF h = v THEN 1 ELSE 0)
      BY <1>2, <1>9, <2>1, KeepFacts
    <2>3. TypeOK' /\ Unborn'
      BY <1>2, <1>6, <1>7, <1>9, <2>2
    <2>4. ASSUME NEW h \in Handles
          PROVE  refs'[h] + held[h] + InGlobals(h) + OnWay(h) =
                   refs[h] + held'[h] + InGlobals(h)' + OnWay(h)'
      <3>1. OnWay(h) = (IF h = v THEN 1 ELSE 0) /\ InGlobals(h)' = InGlobals(h)
        BY <1>9 DEF OnWay, InGlobals, v
      <3>2. refs[h] \in Nat /\ held[h] \in Nat /\ InGlobals(h) \in Nat
        BY <1>7
      <3> QED
        BY <1>4, <1>9, <2>2, <3>1, <3>2
    <2> QED
      BY <1>1, <1>9, <2>3, <2>4, EvaluateStep
  <1>10. CASE returned.status = "OK" /\ refs' = Drop(refs, v) /\ UNCHANGED <<globals, held>>
    <2> HIDE DEF v
    <2>1. v \in Handles
      BY <1>3, <1>10
    <2>2. /\ refs' \in [Handles -> Nat] /\ (~alive => refs' = refs)
          /\ alive => \A h \in Handles : refs'[h] = refs[h] - (IF h = v THEN 1 ELSE 0)
      BY <1>2, <1>5, <1>10, <2>1, DropFacts
    <2>3. \A h \in Handles : refs'[h] <= refs[h]
      BY <1>7, <2>2
    <2>4. TypeOK' /\ Unborn'
      BY <1>2, <1>6, <1>10, <2>2, <2>3
    <2>5. ASSUME alive, NEW h \in Handles
          PROVE  refs'[h] + held[h] + InGlobals(h) + OnWay(h) =
                   refs[h] + held'[h] + InGlobals(h)' + OnWay(h)'
      <3>1. OnWay(h) = (IF h = v THEN 1 ELSE 0) /\ InGlobals(h)' = InGlobals(h)
        BY <1>10 DEF OnWay, InGlobals, v
      <3>2. refs[h] \in Nat /\ held[h] \in Nat /\ InGlobals(h) \in Nat
        BY <1>7
      <3>3. refs'[h] = refs[h] - (IF h = v THEN 1 ELSE 0)
        BY <2>2, <2>5
      <3> QED
        BY <1>4, <1>10, <3>1, <3>2, <3>3
    <2> QED
      BY <1>1, <1>10, <2>2, <2>4, <2>5, EvaluateStep
  <1>11. ASSUME returned.status = "OK", held' = held, NEW x \in Names,
                refs' = Drop(refs, globals[x]), globals' = [globals EXCEPT ![x] = v]
         PROVE  Inv'
    <2> HIDE DEF v
    <2>1. v \in Handles
      BY <1>3, <1>11
    <2>2. /\ refs' \in [Handles -> Nat] /\ (~alive => refs' = refs)
          /\ alive => \A h \in Handles : refs'[h] = refs[h] - (IF globals[x] = h THEN 1 ELSE 0)
      <3>1. \A h \in Handles : refs[h] >= refs[h]
        BY <1>7
      <3> QED
        BY <1>2, <1>11, <3>1, DropGlobal
    <2>3. \A h \in Handles : refs'[h] <= refs[h]
      BY <1>7, <2>2
    <2>4. TypeOK' /\ Unborn'
      <3>1. globals' \in [Names -> Handles \cup {NULL}]
        BY <1>2, <1>11, <2>1
      <3> QED
        BY <1>2, <1>6, <1>11, <2>2, <2>3, <3>1
    <2>5. ASSUME alive, NEW h \in Handles
          PROVE  refs'[h] + held[h] + InGlobals(h) + OnWay(h) =
                   refs[h] + held'[h] + InGlobals(h)' + OnWay(h)'
      <3>1. OnWay(h) = (IF v = h THEN 1 ELSE 0)
        BY <1>11 DEF OnWay, v
      <3>2. refs[h] \in Nat /\ held[h] \in Nat /\ InGlobals(h) \in Nat
        BY <1>7
      <3>3. refs'[h] = refs[h] - (IF globals[x] = h THEN 1 ELSE 0)
        BY <2>2, <2>5
      <3>4. TypeOK /\ v \in Handles \cup {NULL} /\ globals' = [globals EXCEPT ![x] = v]
        BY <1>11, <2>1 DEF Inv
      <3>5. InGlobals(h)' \in Nat
        BY GlobalCount
      <3>6. InGlobals(h)' + (IF globals[x] = h THEN 1 ELSE 0) =
              InGlobals(h) + (IF v = h THEN 1 ELSE 0)
        <4> HIDE DEF v
        <4>1. globals'[x] = v /\ \A m \in Names \ {x} : globals'[m] = globals[m]
          BY ONLY <3>4, x \in Names DEF TypeOK
        <4>2. InGlobals(h)' + (IF globals[x] = h THEN 1 ELSE 0) =
                InGlobals(h) + (IF globals'[x] = h THEN 1 ELSE 0)
          BY ONLY <4>1, x \in Names, h \in Handles, GlobalWrite
        <4> QED
          BY ONLY <4>1, <4>2
      <3> QED
        BY <1>4, <1>11, <3>1, <3>2, <3>3, <3>5, <3>6
    <2> QED
      BY <1>1, <1>11, <2>2, <2>4, <2>5, EvaluateStep
  <1>12. CASE /\ returned.status = "OK"
              /\ UNCHANGED held
              /\ \E x \in Names :
                   /\ refs' = Drop(refs, globals[x])
                   /\ globals' = [globals EXCEPT ![x] = v]
    <2>1. PICK x \in Names : /\ refs' = Drop(refs, globals[x])
                             /\ globals' = [globals EXCEPT ![x] = v]
      BY <1>12
    <2> QED
      BY <1>11, <1>12, <2>1
  <1> QED
    BY <1>8, <1>9, <1>10, <1>12 DEF HostReceives

(***************************************************************************)
(* Calls.                                                                  *)
(***************************************************************************)
\* Everything but the globals may change.
LEMMA ActivationStep ==
  ASSUME Inv, UNCHANGED <<alive, globals>>, TypeOK', ~alive => refs' = refs,
         alive => \A h \in Handles :
           refs'[h] + (held[h] + leaked[h] + InSequence(pending, h)
                       + InSequence(Collected(stack), h) + OnWay(h)) =
             refs[h] + (held'[h] + leaked'[h] + InSequence(pending, h)'
                        + InSequence(Collected(stack), h)' + OnWay(h)')
  PROVE  OwnershipExact'
  <1> SUFFICES ASSUME NEW h \in Handles, alive, refs[h] = Owned(h)
               PROVE  refs'[h] = Owned(h)'
    BY Balance
  <1>1. /\ refs[h] \in Nat /\ held[h] \in Nat /\ leaked[h] \in Nat
        /\ InGlobals(h) \in Nat /\ InSequence(pending, h) \in Nat
        /\ InSequence(Collected(stack), h) \in Nat
    BY OwnerFacts DEF Inv
  <1>2. refs'[h] \in Nat /\ held'[h] \in Nat /\ leaked'[h] \in Nat
    BY DEF TypeOK
  <1>3. InSequence(pending, h)' \in Nat /\ InSequence(Collected(stack), h)' \in Nat
    <2>1. pending' \in Seq(Arguments) /\ stack' \in Seq(Activations)
      BY DEF TypeOK
    <2>2. InSequence(pending', h) \in Nat
      BY <2>1, FramesCount
    <2>3. InSequence(Collected(stack'), h) \in Nat
      BY <2>1, CollectedCount
    <2> QED
      BY <2>2, <2>3
  <1>4. OnWay(h) \in Nat /\ OnWay(h)' \in Nat
    BY DEF OnWay
  <1> DEFINE before == held[h] + leaked[h] + InSequence(pending, h)
                       + InSequence(Collected(stack), h) + OnWay(h)
             after == held'[h] + leaked'[h] + InSequence(pending, h)'
                      + InSequence(Collected(stack), h)' + OnWay(h)'
  <1>5. before \in Nat /\ after \in Nat
    BY <1>1, <1>2, <1>3, <1>4
  <1>6. refs'[h] + before = refs[h] + after
    OBVIOUS
  <1>7. refs[h] = InGlobals(h) + before
    BY <1>1, <1>4 DEF Owned
  <1>8. Owned(h)' = InGlobals(h) + after
    <2>1. InGlobals(h)' = InGlobals(h)
      BY DEF InGlobals
    <2> QED
      BY <1>1, <1>2, <1>3, <1>4, <2>1 DEF Owned
  <1> HIDE DEF before, after
  <1> QED
    BY ONLY <1>1, <1>2, <1>5, <1>6, <1>7, <1>8

\* How the callbacks on the stack change with its newest activation.
LEMMA CallbacksPushed ==
  ASSUME TypeOK, NEW e \in Activations, e.kind = "evaluation", stack' = Append(stack, e)
  PROVE  /\ stack' \in Seq(Activations)
         /\ Callbacks' = Callbacks
         /\ \A i \in Callbacks : stack'[i] = stack[i]
  <1>1. stack \in Seq(Activations) /\ DOMAIN stack = 1 .. Len(stack) /\ Len(stack) \in Nat
    BY StackFacts
  <1>2. /\ stack' \in Seq(Activations) /\ Len(stack') = Len(stack) + 1 /\ stack'[Len(stack) + 1] = e
        /\ \A i \in 1 .. Len(stack) : stack'[i] = stack[i]
    BY <1>1, PushFacts
  <1>3. DOMAIN stack' = 1 .. Len(stack) + 1
    BY <1>2, LenProperties
  <1>4. Callbacks' = Callbacks
    BY <1>1, <1>2, <1>3 DEF Callbacks
  <1> QED
    BY <1>1, <1>2, <1>4 DEF Callbacks

LEMMA CallbacksPopped ==
  ASSUME TypeOK, stack # <<>>, stack' = Front(stack)
  PROVE  /\ stack' \in Seq(Activations)
         /\ Callbacks' = Callbacks \ {Len(stack)}
         /\ \A i \in Callbacks' : stack'[i] = stack[i]
         /\ \A i \in Callbacks : i <= Len(stack)
         /\ Len(stack) \in Callbacks <=> Last(stack).kind = "callback"
  BY StackFacts DEF Callbacks

LEMMA CallbacksReplaced ==
  ASSUME TypeOK, stack # <<>>, Last(stack).kind = "evaluation", NEW e \in Activations,
         stack' = Append(Front(stack), e)
  PROVE  /\ stack' \in Seq(Activations)
         /\ Callbacks' = IF e.kind = "callback" THEN Callbacks \cup {Len(stack)} ELSE Callbacks
         /\ \A i \in Callbacks : stack'[i] = stack[i]
         /\ stack'[Len(stack)] = e
         /\ Len(stack) \in Nat /\ Len(stack) \notin Callbacks
         /\ \A i \in Callbacks : i <= Len(stack)
  <1>1. /\ DOMAIN stack = 1 .. Len(stack) /\ Len(stack) \in Nat /\ Len(stack) > 0
        /\ Last(stack) = stack[Len(stack)] /\ stack \in Seq(Activations)
    BY StackFacts
  <1>2. /\ stack' \in Seq(Activations) /\ Len(stack') = Len(stack) /\ stack'[Len(stack)] = e
        /\ \A i \in 1 .. Len(stack) - 1 : stack'[i] = stack[i]
    <2>1. stack \in Seq(Activations)
      BY <1>1
    <2>2. ASSUME NEW g, g = Append(Front(stack), e)
          PROVE  /\ g \in Seq(Activations) /\ Len(g) = Len(stack) /\ g[Len(stack)] = e
                 /\ \A i \in 1 .. Len(stack) - 1 : g[i] = stack[i]
      <3>1. g \in Seq(Activations)
        BY ONLY <2>1, <2>2, stack # <<>>, e \in Activations, ReplaceFacts
      <3>2. Len(g) = Len(stack)
        BY ONLY <2>1, <2>2, stack # <<>>, e \in Activations, ReplaceFacts
      <3>3. g[Len(stack)] = e
        BY ONLY <2>1, <2>2, stack # <<>>, e \in Activations, ReplaceFacts
      <3>4. \A i \in 1 .. Len(stack) - 1 : g[i] = stack[i]
        BY ONLY <2>1, <2>2, stack # <<>>, e \in Activations, ReplaceFacts
      <3> QED
        BY ONLY <3>1, <3>2, <3>3, <3>4
    <2> QED
      BY <2>2
  <1>3. DOMAIN stack' = 1 .. Len(stack)
    BY <1>2, LenProperties
  <1>4. Len(stack) \notin Callbacks
    BY <1>1 DEF Callbacks
  <1>5. \A i \in Callbacks : i \in 1 .. Len(stack) - 1
    BY <1>1, <1>4 DEF Callbacks
  <1>6. \A i \in Callbacks : stack'[i] = stack[i] /\ i <= Len(stack)
    BY <1>1, <1>2, <1>5
  <1>7. ASSUME NEW i \in 1 .. Len(stack)
        PROVE  i \in Callbacks' <=> (i \in Callbacks \/ (i = Len(stack) /\ e.kind = "callback"))
    <2>1. CASE i = Len(stack)
      BY <1>2, <1>3, <1>4, <2>1 DEF Callbacks
    <2>2. CASE i # Len(stack)
      <3>1. stack'[i] = stack[i]
        BY <1>1, <1>2, <2>2
      <3> QED
        BY <1>1, <1>3, <2>2, <3>1 DEF Callbacks
    <2> QED
      BY <2>1, <2>2
  <1>8. Callbacks \subseteq 1 .. Len(stack) /\ Callbacks' \subseteq 1 .. Len(stack)
    BY <1>1, <1>3 DEF Callbacks
  <1>9. Len(stack) \in 1 .. Len(stack)
    BY <1>1
  <1>10. Callbacks' = IF e.kind = "callback" THEN Callbacks \cup {Len(stack)} ELSE Callbacks
    BY ONLY <1>7, <1>8, <1>9
  <1> QED
    BY <1>1, <1>2, <1>4, <1>6, <1>10

\* A call starts to collect arguments, or fails because its callee is no callable.
LEMMA BeginCallStep ==
  ASSUME Inv, NEW n \in Names, NEW use \in Uses, use = "argument" => Collecting(Len(stack)),
         returned = NoReturn, BeginCall(n, use),
         UNCHANGED <<alive, values, refs, globals, handler, pending, history>>
  PROVE  Inv'
  <1>1. CASE UNCHANGED returned /\ stack' = Append(stack, Evaluation(use, <<>>))
    <2> DEFINE e == Evaluation(use, <<>>)
    <2>1. /\ e \in Activations /\ e.kind = "evaluation" /\ e.use = use /\ Own(e) = <<>>
      BY ArgumentFacts, NewActivation
    <2> HIDE DEF e
    <2>2. stack' = Append(stack, e)
      BY <1>1 DEF e
    <2>3. /\ stack' \in Seq(Activations) /\ Callbacks' = Callbacks
          /\ \A i \in Callbacks : stack'[i] = stack[i]
      BY <2>1, <2>2, CallbacksPushed DEF Inv
    <2>4. TypeOK'
      BY <1>1, <2>3 DEF Inv, TypeOK, values, history
    <2>5. ReturnedFits' /\ NestFits'
      BY <1>1, <2>1, <2>2, PushedStep
    <2>6. InStep'
      BY <2>3, MirrorKeep DEF Inv, InStep, history
    <2>7. Unborn'
      BY DEF Inv, Unborn, values
    <2>8. ASSUME NEW h \in Handles
          PROVE  refs'[h] + (held[h] + leaked[h] + InSequence(pending, h)
                             + InSequence(Collected(stack), h) + OnWay(h)) =
                   refs[h] + (held'[h] + leaked'[h] + InSequence(pending, h)'
                              + InSequence(Collected(stack), h)' + OnWay(h)')
      <3>1. InSequence(Collected(stack), h)' = InSequence(Collected(stack), h)
        <4>1. InSequence(Collected(Append(stack, e)), h) =
                InSequence(Collected(stack), h) + Occurrences(Own(e), h)
          BY <2>1, StackFacts, CollectedCount DEF Inv
        <4>2. Occurrences(Own(e), h) = 0
          BY <2>1, ArgumentFacts, OccurrencesFacts
        <4>3. InSequence(Collected(stack), h) \in Nat
          BY OwnerFacts DEF Inv
        <4>4. InSequence(Collected(Append(stack, e)), h) = InSequence(Collected(stack), h)
          BY ONLY <4>1, <4>2, <4>3
        <4> QED
          BY <2>2, <4>4
      <3>2. InSequence(pending, h)' = InSequence(pending, h) /\ OnWay(h)' = OnWay(h)
        BY <1>1 DEF OnWay
      <3> QED
        BY <3>1, <3>2 DEF history
    <2>9. OwnershipExact'
      BY <2>4, <2>8, ActivationStep
    <2> QED
      BY <2>4, <2>5, <2>6, <2>7, <2>9 DEF Inv
  <1>2. CASE returned' = Returned("FAILED", NULL, use) /\ UNCHANGED stack
    <2>1. TypeOK' /\ Unborn'
      BY <1>2, ResultTypes DEF Inv, TypeOK, Unborn, values, history
    <2>2. ASSUME NEW h \in Handles
          PROVE  refs'[h] + held[h] + InGlobals(h) + OnWay(h) =
                   refs[h] + held'[h] + InGlobals(h)' + OnWay(h)'
      <3>1. OnWay(h) = 0 /\ OnWay(h)' = 0
        BY <1>2, NoneOnWay DEF OnWay, Returned, Handles
      <3> QED
        BY <3>1 DEF InGlobals, history
    <2> QED
      BY <1>2, <2>1, <2>2, EvaluateStep DEF history
  <1> QED
    BY <1>1, <1>2 DEF BeginCall

LEMMA HostEvaluatesStep ==
  ASSUME Inv, NEW n \in Names, HostEvaluates(n)
  PROVE  Inv'
  <1>1. "host" \in Uses /\ "host" # "argument"
    BY DEF Uses
  <1>2. /\ returned = NoReturn /\ BeginCall(n, "host")
        /\ UNCHANGED <<alive, values, refs, globals, handler, pending, history>>
    BY DEF HostEvaluates, HostRuns
  <1> QED
    BY <1>1, <1>2, BeginCallStep

LEMMA ArgumentCallStep ==
  ASSUME Inv, NEW n \in Names, ArgumentCall(n)
  PROVE  Inv'
  <1>1. /\ returned = NoReturn /\ BeginCall(n, "argument")
        /\ stack # <<>> /\ Last(stack).kind = "evaluation" /\ Len(Last(stack).args) < MaxArgs
        /\ UNCHANGED <<alive, values, refs, globals, handler, pending, history>>
    BY DEF ArgumentCall, Interpreting
  <1>2. "argument" \in Uses
    BY DEF Uses
  <1>3. Collecting(Len(stack))
    BY <1>1, StackFacts DEF Inv, Collecting
  <1> QED
    BY <1>1, <1>2, <1>3, BeginCallStep

\* What the evaluations have collected, without or with another newest one.
LEMMA PoppedCount ==
  ASSUME TypeOK, stack # <<>>, stack' = Front(stack), NEW h
  PROVE  /\ Occurrences(Own(Last(stack)), h) \in Nat
         /\ InSequence(Collected(stack), h)' \in Nat
         /\ InSequence(Collected(stack), h) =
              InSequence(Collected(stack), h)' + Occurrences(Own(Last(stack)), h)
  <1>1. stack \in Seq(Activations) /\ Front(stack) \in Seq(Activations)
    BY StackFacts
  <1>2. InSequence(Collected(Front(stack)), h) \in Nat
    BY <1>1, CollectedCount
  <1>3. /\ Occurrences(Own(Last(stack)), h) \in Nat
        /\ InSequence(Collected(stack), h) =
             InSequence(Collected(Front(stack)), h) + Occurrences(Own(Last(stack)), h)
    BY <1>1, CollectedCount
  <1> QED
    BY <1>2, <1>3

LEMMA ReplacedCount ==
  ASSUME TypeOK, stack # <<>>, NEW e \in Activations, stack' = Append(Front(stack), e), NEW h
  PROVE  /\ Occurrences(Own(Last(stack)), h) \in Nat /\ Occurrences(Own(e), h) \in Nat
         /\ InSequence(Collected(stack), h)' \in Nat
         /\ InSequence(Collected(stack), h)' + Occurrences(Own(Last(stack)), h) =
              InSequence(Collected(stack), h) + Occurrences(Own(e), h)
  <1>1. stack \in Seq(Activations) /\ Front(stack) \in Seq(Activations)
    BY StackFacts
  <1>2. InSequence(Collected(Front(stack)), h) \in Nat
    BY <1>1, CollectedCount
  <1>3. /\ Occurrences(Own(Last(stack)), h) \in Nat
        /\ InSequence(Collected(stack), h) =
             InSequence(Collected(Front(stack)), h) + Occurrences(Own(Last(stack)), h)
    BY <1>1, CollectedCount
  <1>4. InSequence(Collected(Append(Front(stack), e)), h) =
          InSequence(Collected(Front(stack)), h) + Occurrences(Own(e), h)
    BY <1>1, CollectedCount
  <1>5. Occurrences(Own(e), h) \in Nat
    BY ActivationFacts, OccurrencesFacts
  <1>6. InSequence(Collected(stack), h)' =
          InSequence(Collected(Front(stack)), h) + Occurrences(Own(e), h)
    BY <1>4
  <1> QED
    BY ONLY <1>2, <1>3, <1>5, <1>6

\* The result for an argument finds the evaluation that takes it on top.
LEMMA ArgumentTaker ==
  ASSUME Inv, returned # NoReturn, returned.use = "argument"
  PROVE  /\ stack # <<>> /\ Last(stack).kind = "evaluation" /\ Len(Last(stack).args) < MaxArgs
         /\ Last(stack).args \in Arguments /\ Last(stack).use \in Uses
         /\ Own(Last(stack)) = Last(stack).args
  <1>1. Collecting(Len(stack))
    BY DEF Inv, NestFits
  <1>2. stack # <<>>
    <2>1. Len(stack) \in 1 .. Len(stack) /\ Len(stack) \in Nat
      BY <1>1, StackFacts DEF Collecting, Inv
    <2>2. Len(stack) # 0
      BY <2>1
    <2> QED
      BY <2>2, EmptySeq
  <1>3. Last(stack) = stack[Len(stack)] /\ Last(stack) \in Activations
    BY <1>2, StackFacts DEF Inv
  <1> QED
    BY <1>1, <1>2, <1>3, ActivationFacts DEF Collecting

LEMMA DeliverArgumentStep ==
  ASSUME Inv, DeliverArgument
  PROVE  Inv'
  <1> DEFINE v == returned.value
             args == Last(stack).args
             e == Evaluation(Last(stack).use, Append(args, v))
  <1>1. /\ returned.status = "OK" /\ returned.use = "argument" /\ returned' = NoReturn
        /\ stack' = Append(Front(stack), e)
        /\ UNCHANGED <<alive, values, refs, globals, handler, pending, history>>
    BY DEF DeliverArgument
  <1>2. returned # NoReturn
    BY <1>1 DEF NoReturn
  <1>3. /\ stack # <<>> /\ Last(stack).kind = "evaluation" /\ Len(args) < MaxArgs
        /\ args \in Arguments /\ Last(stack).use \in Uses /\ Own(Last(stack)) = args
    BY <1>1, <1>2, ArgumentTaker
  <1>4. v \in Handles
    BY <1>1 DEF Inv, TypeOK, Results, ReturnedFits
  <1>5. Append(args, v) \in Arguments
    <2>1. args \in Seq(Handles) /\ Len(args) \in Nat /\ MaxArgs \in Nat
      BY <1>3, ArgumentFacts, HostCallsAssumption
    <2> HIDE DEF args, v
    <2>2. Append(args, v) \in Seq(Handles) /\ Len(Append(args, v)) = Len(args) + 1
      BY <1>4, <2>1, AppendProperties
    <2>3. Len(Append(args, v)) <= MaxArgs
      BY <1>3, <2>1, <2>2
    <2> QED
      BY <2>2, <2>3, ArgumentFacts
  <1>6. /\ e \in Activations /\ e.kind = "evaluation" /\ e.use = Last(stack).use
        /\ Own(e) = Append(args, v)
    <2> DEFINE use == Last(stack).use
               more == Append(args, v)
    <2>1. use \in Uses /\ more \in Arguments /\ e = Evaluation(use, more)
      BY <1>3, <1>5
    <2> HIDE DEF use, more, e
    <2>2. e \in Activations /\ e.kind = "evaluation" /\ e.use = use /\ Own(e) = more
      BY <2>1, NewActivation
    <2> QED
      BY <2>2 DEF use, more
  <1>7. \A h : OnWay(h) = IF v = h THEN 1 ELSE 0
    BY DEF OnWay
  <1> HIDE DEF e, v, args
  <1>8. /\ stack' \in Seq(Activations) /\ Callbacks' = Callbacks
        /\ \A i \in Callbacks : stack'[i] = stack[i]
    <2>1. TypeOK /\ stack # <<>> /\ Last(stack).kind = "evaluation" /\ e \in Activations
          /\ stack' = Append(Front(stack), e) /\ e.kind # "callback"
      BY <1>1, <1>3, <1>6 DEF Inv
    <2>2. stack' \in Seq(Activations)
      BY ONLY <2>1, CallbacksReplaced
    <2>3. Callbacks' = IF e.kind = "callback" THEN Callbacks \cup {Len(stack)} ELSE Callbacks
      BY ONLY <2>1, CallbacksReplaced
    <2>4. \A i \in Callbacks : stack'[i] = stack[i]
      BY ONLY <2>1, CallbacksReplaced
    <2> QED
      BY ONLY <2>1, <2>2, <2>3, <2>4
  <1>9. TypeOK'
    BY <1>1, <1>8, ResultTypes DEF Inv, TypeOK, values, history
  <1>10. ReturnedFits' /\ NestFits'
    BY <1>1, <1>3, <1>6, ReplacedStep
  <1>11. InStep'
    BY <1>1, <1>8, MirrorKeep DEF Inv, InStep, history
  <1>12. Unborn'
    BY <1>1 DEF Inv, Unborn, values
  <1>13. ASSUME NEW h \in Handles
         PROVE  refs'[h] + (held[h] + leaked[h] + InSequence(pending, h)
                            + InSequence(Collected(stack), h) + OnWay(h)) =
                  refs[h] + (held'[h] + leaked'[h] + InSequence(pending, h)'
                             + InSequence(Collected(stack), h)' + OnWay(h)')
    <2>1. /\ Occurrences(args, h) \in Nat
          /\ InSequence(Collected(stack), h)' \in Nat
          /\ InSequence(Collected(stack), h)' + Occurrences(args, h) =
               InSequence(Collected(stack), h) + Occurrences(Append(args, v), h)
      <3>1. TypeOK /\ stack # <<>> /\ e \in Activations /\ stack' = Append(Front(stack), e)
        BY <1>1, <1>3, <1>6 DEF Inv
      <3>2. /\ Occurrences(Own(Last(stack)), h) \in Nat
            /\ InSequence(Collected(stack), h)' \in Nat
            /\ InSequence(Collected(stack), h)' + Occurrences(Own(Last(stack)), h) =
                 InSequence(Collected(stack), h) + Occurrences(Own(e), h)
        BY ONLY <3>1, ReplacedCount
      <3> QED
        BY <1>3, <1>6, <3>2
    <2>2. Occurrences(Append(args, v), h) = Occurrences(args, h) + (IF v = h THEN 1 ELSE 0)
      BY <1>3, <1>4, OccurrencesFacts
    <2>3. OnWay(h)' = 0 /\ OnWay(h) = IF v = h THEN 1 ELSE 0
      BY <1>1, <1>7 DEF OnWay, NoReturn, Handles
    <2>4. InSequence(Collected(stack), h) \in Nat
      BY OwnerFacts DEF Inv
    <2>5. InSequence(Collected(stack), h)' + OnWay(h)' = InSequence(Collected(stack), h) + OnWay(h)
      BY ONLY <2>1, <2>2, <2>3, <2>4
    <2>6. /\ refs'[h] = refs[h] /\ held'[h] = held[h] /\ leaked'[h] = leaked[h]
          /\ InSequence(pending, h)' = InSequence(pending, h)
          /\ held[h] \in Nat /\ leaked[h] \in Nat /\ InSequence(pending, h) \in Nat
          /\ OnWay(h) \in Nat /\ OnWay(h)' \in Nat
      BY <1>1, OwnerFacts DEF Inv, history, OnWay
    <2>7. held[h] + leaked[h] + InSequence(pending, h) + InSequence(Collected(stack), h) + OnWay(h) =
            held[h] + leaked[h] + InSequence(pending, h) + InSequence(Collected(stack), h)' + OnWay(h)'
      BY ONLY <2>1, <2>4, <2>5, <2>6
    <2> QED
      BY <2>6, <2>7
  <1>14. OwnershipExact'
    BY <1>1, <1>9, <1>13, ActivationStep
  <1> QED
    BY <1>9, <1>10, <1>11, <1>12, <1>14 DEF Inv

\* No reference to a value that does not exist yet comes about by itself.
LEMMA UnbornKept ==
  ASSUME Inv, UNCHANGED size, TypeOK', \A h \in Handles : refs'[h] <= refs[h]
  PROVE  Unborn'
  <1> SUFFICES ASSUME NEW h \in Handles, h > size PROVE refs'[h] = 0
    BY DEF Unborn
  <1>1. refs[h] = 0 /\ refs'[h] <= refs[h] /\ refs'[h] \in Nat
    BY DEF Inv, Unborn, TypeOK
  <1> QED
    BY <1>1

LEMMA FailArgumentStep ==
  ASSUME Inv, FailArgument
  PROVE  Inv'
  <1> DEFINE args == Last(stack).args
             use == Last(stack).use
  <1>1. /\ returned.status = "FAILED" /\ returned.use = "argument"
        /\ refs' = DropAll(refs, args) /\ stack' = Front(stack)
        /\ returned' = Returned("FAILED", NULL, use)
        /\ UNCHANGED <<alive, values, globals, handler, pending, history>>
    BY DEF FailArgument
  <1>2. returned # NoReturn
    BY <1>1 DEF NoReturn
  <1>3. /\ stack # <<>> /\ Last(stack).kind = "evaluation"
        /\ args \in Arguments /\ use \in Uses /\ Own(Last(stack)) = args
    BY <1>1, <1>2, ArgumentTaker
  <1>4. ReturnedFits' /\ NestFits'
    BY <1>1, <1>3, PoppedStep DEF Inv
  <1> HIDE DEF args, use
  <1>5. /\ stack' \in Seq(Activations) /\ Callbacks' = Callbacks
        /\ \A i \in Callbacks : stack'[i] = stack[i]
    <2>1. /\ stack' \in Seq(Activations)
          /\ Callbacks' = Callbacks \ {Len(stack)}
          /\ \A i \in Callbacks' : stack'[i] = stack[i]
          /\ Len(stack) \in Callbacks <=> Last(stack).kind = "callback"
      BY <1>1, <1>3, CallbacksPopped DEF Inv
    <2>2. Len(stack) \notin Callbacks
      BY <1>3, <2>1
    <2> QED
      BY <2>1, <2>2
  <1>6. refs \in [Handles -> Nat]
    BY DEF Inv, TypeOK
  <1>7. refs' \in [Handles -> Nat] /\ (~alive => refs' = refs)
    BY <1>1, <1>3, <1>6, DropAllFacts
  <1>8. TypeOK'
    BY <1>1, <1>3, <1>5, <1>7, ResultTypes DEF Inv, TypeOK, values, history
  <1>9. InStep'
    BY <1>1, <1>5, MirrorKeep DEF Inv, InStep, history
  <1>10. ASSUME alive, NEW h \in Handles
         PROVE  /\ refs'[h] = refs[h] - Occurrences(args, h) /\ Occurrences(args, h) \in Nat
                /\ InSequence(Collected(stack), h)' \in Nat
                /\ InSequence(Collected(stack), h) =
                     InSequence(Collected(stack), h)' + Occurrences(args, h)
    <2>1. /\ Occurrences(args, h) \in Nat
          /\ InSequence(Collected(stack), h)' \in Nat
          /\ InSequence(Collected(stack), h) =
               InSequence(Collected(stack), h)' + Occurrences(args, h)
      BY <1>1, <1>3, PoppedCount DEF Inv
    <2>2. /\ held[h] \in Nat /\ leaked[h] \in Nat /\ InGlobals(h) \in Nat
          /\ InSequence(pending, h) \in Nat /\ InSequence(Collected(stack), h) \in Nat
          /\ OnWay(h) \in Nat /\ refs[h] = Owned(h)
      BY <1>10, OwnerFacts DEF Inv, OnWay
    <2>3. refs[h] >= InSequence(Collected(stack), h)
      BY <2>2 DEF Owned
    <2>4. refs[h] >= Occurrences(args, h) /\ refs[h] \in Nat
      BY ONLY <1>6, <2>1, <2>2, <2>3, h \in Handles
    <2> QED
      BY <1>1, <1>3, <1>6, <1>10, <2>1, <2>4, DropAllFacts
  <1>11. Unborn'
    <2>1. ASSUME NEW h \in Handles PROVE refs'[h] <= refs[h]
      <3>1. refs[h] \in Nat
        BY <1>6
      <3> QED
        BY <1>7, <1>10, <3>1
    <2> QED
      BY <1>1, <1>8, <2>1, UnbornKept DEF values
  <1>12. ASSUME alive, NEW h \in Handles
         PROVE  refs'[h] + (held[h] + leaked[h] + InSequence(pending, h)
                            + InSequence(Collected(stack), h) + OnWay(h)) =
                  refs[h] + (held'[h] + leaked'[h] + InSequence(pending, h)'
                             + InSequence(Collected(stack), h)' + OnWay(h)')
    <2>1. OnWay(h) = 0 /\ OnWay(h)' = 0
      BY <1>1 DEF OnWay, Returned, Handles, Inv, ReturnedFits
    <2>2. /\ held'[h] = held[h] /\ leaked'[h] = leaked[h]
          /\ InSequence(pending, h)' = InSequence(pending, h)
          /\ held[h] \in Nat /\ leaked[h] \in Nat /\ InSequence(pending, h) \in Nat
          /\ refs[h] \in Nat
      BY <1>1, OwnerFacts DEF Inv, history
    <2>3. /\ refs'[h] = refs[h] - Occurrences(args, h) /\ Occurrences(args, h) \in Nat
          /\ InSequence(Collected(stack), h)' \in Nat
          /\ InSequence(Collected(stack), h) =
               InSequence(Collected(stack), h)' + Occurrences(args, h)
      BY <1>10, <1>12
    <2> QED
      BY ONLY <2>1, <2>2, <2>3
  <1>13. OwnershipExact'
    BY <1>1, <1>7, <1>8, <1>12, ActivationStep
  <1> QED
    BY <1>4, <1>8, <1>9, <1>11, <1>13 DEF Inv

\* Clearing a frame takes references away and adds none.
LEMMA ClearShrinks ==
  ASSUME NEW f \in [Handles -> Nat], NEW frames \in Seq(Arguments), NEW h \in Handles
  PROVE  ClearNewest(f, frames).refs[h] <= f[h]
  <1>1. f[h] \in Nat
    OBVIOUS
  <1>2. CASE frames = <<>>
    BY <1>1, <1>2 DEF ClearNewest
  <1>3. CASE frames # <<>>
    <2> DEFINE args == Last(frames)
               n == IF alive THEN Occurrences(args, h) ELSE 0
    <2>1. args \in Arguments
      BY <1>3, TopFacts
    <2>2. n \in Nat
      BY <2>1, OccurrencesFacts
    <2>3. ClearNewest(f, frames).refs[h] =
            IF f[h] > n THEN f[h] - n ELSE IF n = 0 THEN f[h] ELSE 0
      BY <1>3 DEF ClearNewest, DropAll
    <2> HIDE DEF n
    <2> QED
      BY <1>1, <2>2, <2>3
  <1> QED
    BY <1>2, <1>3

\* What completing a call does to the frames and the references.
LEMMA CompleteFacts ==
  ASSUME TypeOK, NEW frames \in Seq(Arguments), NEW ok \in BOOLEAN,
         NEW v \in Handles \cup {NULL}, NEW use \in Uses, Complete(frames, ok, v, use),
         alive => \A h \in Handles : refs[h] >= InSequence(frames, h)
  PROVE  /\ refs' \in [Handles -> Nat] /\ pending' \in Seq(Arguments)
         /\ leaked' \in [Handles -> Nat] /\ crossed' \in BOOLEAN
         /\ ~alive => refs' = refs
         /\ alive => \A h \in Handles :
              /\ refs'[h] = refs[h] - InSequence(frames, h) + InSequence(pending', h)
              /\ refs'[h] <= refs[h]
         /\ IF frames # <<>> /\ ok /\ Valid(refs, v)
            THEN v \in Handles /\ returned' = Returned("OK", v, use)
            ELSE returned' = Returned("FAILED", NULL, use)
         /\ IF frames = <<>> /\ Valid(refs, v)
            THEN v \in Handles /\ leaked' = Keep(leaked, v)
            ELSE leaked' = leaked
         /\ ~crossed' => ~crossed /\ (frames # <<>> => pending' = Front(frames))
  <1> DEFINE once == ClearNewest(refs, frames)
             twice == ClearNewest(once.refs, once.frames)
             delivered == frames # <<>> /\ ok /\ Valid(refs, v)
  <1>1. /\ returned' = IF delivered THEN Returned("OK", v, use) ELSE Returned("FAILED", NULL, use)
        /\ refs' = IF delivered THEN once.refs ELSE twice.refs
        /\ pending' = IF delivered THEN once.frames ELSE twice.frames
        /\ leaked' = IF frames = <<>> /\ Valid(refs, v) THEN Keep(leaked, v) ELSE leaked
        /\ crossed' = (crossed \/ (~delivered /\ once.frames # <<>>))
    BY DEF Complete
  <1>2. refs \in [Handles -> Nat] /\ leaked \in [Handles -> Nat] /\ crossed \in BOOLEAN
    BY DEF TypeOK
  <1>3. /\ once.refs \in [Handles -> Nat] /\ once.frames \in Seq(Arguments)
        /\ ~alive => once.refs = refs
        /\ alive => \A h \in Handles :
             once.refs[h] = refs[h] - InSequence(frames, h) + InSequence(once.frames, h)
        /\ frames # <<>> => once.frames = Front(frames)
    BY <1>2, ClearFacts
  <1>4. \A h : InSequence(frames, h) \in Nat /\ InSequence(once.frames, h) \in Nat
    <2>1. once.frames \in Seq(Arguments)
      BY <1>3
    <2> HIDE DEF once
    <2> QED
      BY <2>1, FramesCount
  <1>5. alive => \A h \in Handles : once.refs[h] >= InSequence(once.frames, h)
    <2> SUFFICES ASSUME alive, NEW h \in Handles PROVE once.refs[h] >= InSequence(once.frames, h)
      OBVIOUS
    <2>1. refs[h] >= InSequence(frames, h) /\ refs[h] \in Nat
      BY <1>2
    <2>2. once.refs[h] = refs[h] - InSequence(frames, h) + InSequence(once.frames, h)
      BY <1>3
    <2> HIDE DEF once
    <2> QED
      BY <1>4, <2>1, <2>2
  <1>6. /\ twice.refs \in [Handles -> Nat] /\ twice.frames \in Seq(Arguments)
        /\ ~alive => twice.refs = once.refs
        /\ alive => \A h \in Handles :
             twice.refs[h] = once.refs[h] - InSequence(once.frames, h) + InSequence(twice.frames, h)
        /\ once.frames = <<>> => twice.frames = <<>>
    <2> HIDE DEF once
    <2> QED
      BY <1>3, <1>5, ClearFacts
  <1> HIDE DEF once, twice
  <1>7. \A h : InSequence(twice.frames, h) \in Nat
    BY <1>6, FramesCount
  <1>8. refs' \in [Handles -> Nat] /\ pending' \in Seq(Arguments) /\ (~alive => refs' = refs)
    BY <1>1, <1>3, <1>6
  <1>9. ASSUME alive, NEW h \in Handles
        PROVE  refs'[h] = refs[h] - InSequence(frames, h) + InSequence(pending', h)
    <2>1. /\ refs[h] \in Nat /\ InSequence(frames, h) \in Nat
          /\ InSequence(once.frames, h) \in Nat /\ InSequence(twice.frames, h) \in Nat
          /\ once.refs[h] = refs[h] - InSequence(frames, h) + InSequence(once.frames, h)
          /\ twice.refs[h] = once.refs[h] - InSequence(once.frames, h) + InSequence(twice.frames, h)
      BY <1>2, <1>3, <1>4, <1>6, <1>7, <1>9
    <2>2. twice.refs[h] = refs[h] - InSequence(frames, h) + InSequence(twice.frames, h)
      BY ONLY <2>1
    <2>3. CASE delivered
      <3>1. refs' = once.refs /\ pending' = once.frames
        BY <1>1, <2>3
      <3> QED
        BY <2>1, <3>1
    <2>4. CASE ~delivered
      <3>1. refs' = twice.refs /\ pending' = twice.frames
        BY <1>1, <2>4
      <3> QED
        BY <2>2, <3>1
    <2> QED
      BY <2>3, <2>4
  <1>10. \A h : InSequence(pending', h) \in Nat
    BY <1>8, FramesCount
  <1>11. ASSUME alive, NEW h \in Handles PROVE refs'[h] <= refs[h]
    <2>1. once.refs[h] <= refs[h] /\ twice.refs[h] <= once.refs[h]
          /\ once.refs[h] \in Nat /\ twice.refs[h] \in Nat /\ refs[h] \in Nat
      <3>1. once.refs[h] \in Nat /\ twice.refs[h] \in Nat /\ refs[h] \in Nat
        BY <1>2, <1>3, <1>6
      <3>2. once.refs[h] <= refs[h]
        BY <1>2, <1>11, ClearShrinks DEF once
      <3>3. twice.refs[h] <= once.refs[h]
        BY <1>3, <1>11, ClearShrinks DEF twice
      <3> QED
        BY <3>1, <3>2, <3>3
    <2> QED
      BY <1>1, <2>1
  <1>12. Valid(refs, v) => v \in Handles
    BY DEF Valid
  <1>13. leaked' \in [Handles -> Nat]
    BY <1>1, <1>2, <1>12, KeepFacts
  <1>14. crossed' \in BOOLEAN
    BY <1>1, <1>2
  <1>15. ~crossed' => ~crossed /\ (frames # <<>> => pending' = Front(frames))
    <2>1. ~crossed' => ~crossed /\ (delivered \/ once.frames = <<>>)
      BY <1>1
    <2>2. once.frames = <<>> => pending' = once.frames
      BY <1>1, <1>6
    <2>3. delivered => pending' = once.frames
      BY <1>1
    <2> QED
      BY <1>3, <2>1, <2>2, <2>3
  <1> QED
    BY <1>1, <1>8, <1>9, <1>11, <1>12, <1>13, <1>14, <1>15

\* The arguments of a call move to a new frame, for the callback that starts.
LEMMA DispatchHandledStep ==
  ASSUME Inv, NEW args, NEW use, args = Last(stack).args, use = Last(stack).use,
         stack # <<>>, Last(stack).kind = "evaluation",
         pending' = Append(pending, args),
         stack' = Append(Front(stack), Callback(use, args)),
         returned = NoReturn,
         UNCHANGED <<alive, values, globals, handler, held, refs, returned, leaked, crossed>>
  PROVE  Inv'
  <1> DEFINE e == Callback(use, args)
  <1>1. args \in Arguments /\ use \in Uses /\ Own(Last(stack)) = args
    <2>1. Last(stack) \in Activations
      BY StackFacts DEF Inv
    <2> QED
      BY <2>1, ActivationFacts
  <1>2. /\ e \in Activations /\ e.kind = "callback" /\ e.use = use /\ e.args = args
        /\ Own(e) = <<>> /\ stack' = Append(Front(stack), e)
    BY <1>1, NewActivation
  <1> HIDE DEF e
  <1>3. TypeOK /\ pending \in Seq(Arguments)
    BY DEF Inv, TypeOK
  <1>4. /\ stack' \in Seq(Activations) /\ Callbacks' = Callbacks \cup {Len(stack)}
        /\ \A i \in Callbacks : stack'[i] = stack[i]
        /\ stack'[Len(stack)] = e /\ Len(stack) \in Nat /\ Len(stack) \notin Callbacks
        /\ \A i \in Callbacks : i <= Len(stack)
    BY <1>2, <1>3, CallbacksReplaced
  <1>5. pending' \in Seq(Arguments)
    BY <1>1, <1>3, PushFacts
  <1>6. TypeOK'
    BY <1>4, <1>5 DEF Inv, TypeOK, values
  <1>7. ReturnedFits' /\ NestFits'
    BY <1>2, ReplacedStep
  <1>8. ASSUME ~crossed PROVE Mirror'
    <2>1. Mirror
      BY <1>8 DEF Inv, InStep
    <2> DEFINE c == Len(stack)
    <2>2. /\ c \in Nat /\ c \notin Callbacks /\ \A i \in Callbacks : i <= c
          /\ Callbacks' = Callbacks \cup {c} /\ \A i \in Callbacks : stack'[i] = stack[i]
      BY <1>4
    <2>3. stack'[c].args \in Arguments /\ pending' = Append(pending, stack'[c].args)
      BY <1>1, <1>2, <1>4
    <2> HIDE DEF c
    <2> QED
      BY ONLY <1>3, <2>1, <2>2, <2>3, MirrorPush
  <1>9. InStep'
    BY <1>8 DEF Inv, InStep
  <1>10. Unborn'
    BY DEF Inv, Unborn, values
  <1>11. ASSUME NEW h \in Handles
         PROVE  refs'[h] + (held[h] + leaked[h] + InSequence(pending, h)
                            + InSequence(Collected(stack), h) + OnWay(h)) =
                  refs[h] + (held'[h] + leaked'[h] + InSequence(pending, h)'
                             + InSequence(Collected(stack), h)' + OnWay(h)')
    <2>1. /\ Occurrences(args, h) \in Nat
          /\ InSequence(Collected(stack), h)' \in Nat
          /\ InSequence(Collected(stack), h)' + Occurrences(args, h) =
               InSequence(Collected(stack), h) + Occurrences(<<>>, h)
      <3>1. /\ Occurrences(Own(Last(stack)), h) \in Nat
            /\ InSequence(Collected(stack), h)' \in Nat
            /\ InSequence(Collected(stack), h)' + Occurrences(Own(Last(stack)), h) =
                 InSequence(Collected(stack), h) + Occurrences(Own(e), h)
        BY <1>2, <1>3, ReplacedCount
      <3> QED
        BY <1>1, <1>2, <3>1
    <2>2. Occurrences(<<>>, h) = 0
      BY ArgumentFacts, OccurrencesFacts
    <2>3. InSequence(pending, h)' = InSequence(pending, h) + Occurrences(args, h)
      <3>1. InSequence(Append(pending, args), h) = InSequence(pending, h) + Occurrences(args, h)
        BY <1>1, <1>3, FramesCount
      <3> QED
        BY <3>1
    <2>4. /\ refs[h] \in Nat /\ held[h] \in Nat /\ leaked[h] \in Nat
          /\ InSequence(pending, h) \in Nat /\ InSequence(Collected(stack), h) \in Nat
          /\ OnWay(h) \in Nat
      BY <1>3, OwnerFacts DEF OnWay
    <2>5. OnWay(h)' = OnWay(h) /\ refs'[h] = refs[h] /\ held'[h] = held[h] /\ leaked'[h] = leaked[h]
      BY DEF OnWay
    <2> DEFINE P == InSequence(pending, h)
               E == InSequence(Collected(stack), h)
               O == Occurrences(args, h)
               E1 == InSequence(Collected(stack), h)'
    <2>6. /\ O \in Nat /\ E1 \in Nat /\ P \in Nat /\ E \in Nat /\ E1 + O = E
          /\ InSequence(pending, h)' = P + O
      BY <2>1, <2>2, <2>3, <2>4
    <2> HIDE DEF P, E, O, E1
    <2>7. refs[h] + (held[h] + leaked[h] + P + E + OnWay(h)) =
            refs[h] + (held[h] + leaked[h] + (P + O) + E1 + OnWay(h))
      BY ONLY <2>4, <2>6
    <2> QED
      BY <2>5, <2>6, <2>7 DEF P, E, E1
  <1>12. OwnershipExact'
    BY <1>6, <1>11, ActivationStep
  <1> QED
    BY <1>6, <1>7, <1>9, <1>10, <1>12 DEF Inv

\* Without a handler the call fails, and its frame is cleared.
LEMMA DispatchFailedStep ==
  ASSUME Inv, NEW args, NEW use, args = Last(stack).args, use = Last(stack).use,
         stack # <<>>, Last(stack).kind = "evaluation", stack' = Front(stack),
         returned = NoReturn,
         Complete(Append(pending, args), FALSE, NULL, use),
         UNCHANGED <<alive, values, globals, handler, held>>
  PROVE  Inv'
  <1> DEFINE frames == Append(pending, args)
  <1>1. args \in Arguments /\ use \in Uses /\ Own(Last(stack)) = args
    <2>1. Last(stack) \in Activations
      BY StackFacts DEF Inv
    <2> QED
      BY <2>1, ActivationFacts
  <1>2. TypeOK /\ pending \in Seq(Arguments)
    BY DEF Inv, TypeOK
  <1>3. /\ frames \in Seq(Arguments) /\ frames # <<>>
        /\ \A h : InSequence(frames, h) = InSequence(pending, h) + Occurrences(args, h)
    <2>1. \A h : InSequence(frames, h) = InSequence(pending, h) + Occurrences(args, h)
      BY <1>1, <1>2, FramesCount
    <2>2. frames \in Seq(Arguments) /\ Len(frames) = Len(pending) + 1 /\ Len(pending) \in Nat
      BY <1>1, <1>2, PushFacts, LenProperties
    <2>3. frames # <<>>
      <3> HIDE DEF frames
      <3> QED
        BY <2>2, EmptySeq
    <2> QED
      BY <2>1, <2>2, <2>3
  <1>4. Front(frames) = pending
    <2>1. /\ frames \in Seq(Arguments) /\ Len(frames) = Len(pending) + 1 /\ Len(pending) \in Nat
          /\ \A i \in 1 .. Len(pending) : frames[i] = pending[i]
      BY <1>1, <1>2, PushFacts, LenProperties
    <2> HIDE DEF frames
    <2>2. /\ Front(frames) \in Seq(Arguments) /\ Len(Front(frames)) = Len(frames) - 1
          /\ \A i \in 1 .. Len(frames) - 1 : Front(frames)[i] = frames[i]
      BY <1>3, TopFacts
    <2>3. Len(Front(frames)) = Len(pending) /\ Len(frames) - 1 = Len(pending)
      BY <2>1, <2>2
    <2>4. \A i \in 1 .. Len(Front(frames)) : Front(frames)[i] = pending[i]
      BY <2>1, <2>2, <2>3
    <2> QED
      BY <1>2, <2>2, <2>3, <2>4, SeqEqual
  <1>5. Complete(frames, FALSE, NULL, use)
    OBVIOUS
  <1> HIDE DEF frames
  <1>6. ASSUME NEW h \in Handles
        PROVE  /\ Occurrences(args, h) \in Nat
               /\ InSequence(Collected(stack), h)' \in Nat
               /\ InSequence(Collected(stack), h) =
                    InSequence(Collected(stack), h)' + Occurrences(args, h)
               /\ refs[h] \in Nat /\ held[h] \in Nat /\ leaked[h] \in Nat
               /\ InSequence(pending, h) \in Nat /\ InSequence(Collected(stack), h) \in Nat
               /\ OnWay(h) = 0 /\ InGlobals(h) \in Nat
    <2>1. /\ Occurrences(args, h) \in Nat
          /\ InSequence(Collected(stack), h)' \in Nat
          /\ InSequence(Collected(stack), h) =
               InSequence(Collected(stack), h)' + Occurrences(args, h)
      BY <1>1, <1>2, PoppedCount
    <2>2. OnWay(h) = 0
      BY NoneOnWay
    <2> QED
      BY <1>2, <2>1, <2>2, OwnerFacts
  <1>7. ASSUME alive, NEW h \in Handles PROVE refs[h] >= InSequence(frames, h)
    <2>1. refs[h] = Owned(h)
      BY <1>7, OwnerFacts DEF Inv
    <2>2. InSequence(frames, h) = InSequence(pending, h) + Occurrences(args, h)
      BY <1>3
    <2>3. refs[h] = held[h] + leaked[h] + InGlobals(h) + InSequence(pending, h)
                    + InSequence(Collected(stack), h) + OnWay(h)
      BY <2>1 DEF Owned
    <2> QED
      BY ONLY <1>6, <2>2, <2>3, h \in Handles
  <1>8. /\ refs' \in [Handles -> Nat] /\ pending' \in Seq(Arguments)
        /\ leaked' = leaked /\ crossed' \in BOOLEAN
        /\ ~alive => refs' = refs
        /\ alive => \A h \in Handles :
             /\ refs'[h] = refs[h] - InSequence(frames, h) + InSequence(pending', h)
             /\ refs'[h] <= refs[h]
        /\ returned' = Returned("FAILED", NULL, use)
        /\ ~crossed' => ~crossed /\ pending' = Front(frames)
    <2>1. FALSE \in BOOLEAN /\ NULL \in Handles \cup {NULL} /\ ~Valid(refs, NULL)
      BY DEF Valid
    <2>2. alive => \A h \in Handles : refs[h] >= InSequence(frames, h)
      BY <1>7
    <2> QED
      BY ONLY <1>1, <1>2, <1>3, <1>5, <2>1, <2>2, CompleteFacts
  <1>9. ReturnedFits' /\ NestFits'
    BY <1>8, PoppedStep
  <1>10. /\ stack' \in Seq(Activations) /\ Callbacks' = Callbacks
         /\ \A i \in Callbacks : stack'[i] = stack[i]
    <2>1. /\ stack' \in Seq(Activations)
          /\ Callbacks' = Callbacks \ {Len(stack)}
          /\ \A i \in Callbacks' : stack'[i] = stack[i]
          /\ Len(stack) \in Callbacks <=> Last(stack).kind = "callback"
      BY <1>2, CallbacksPopped
    <2>2. Len(stack) \notin Callbacks
      BY <2>1
    <2> QED
      BY <2>1, <2>2
  <1>11. TypeOK'
    BY <1>1, <1>8, <1>10, ResultTypes DEF Inv, TypeOK, values
  <1>12. InStep'
    BY <1>4, <1>8, <1>10, MirrorKeep DEF Inv, InStep
  <1>13. Unborn'
    <2>1. ASSUME NEW h \in Handles PROVE refs'[h] <= refs[h]
      BY <1>6, <1>8
    <2> QED
      BY <1>11, <2>1, UnbornKept DEF values
  <1>14. ASSUME alive, NEW h \in Handles
         PROVE  refs'[h] + (held[h] + leaked[h] + InSequence(pending, h)
                            + InSequence(Collected(stack), h) + OnWay(h)) =
                  refs[h] + (held'[h] + leaked'[h] + InSequence(pending, h)'
                             + InSequence(Collected(stack), h)' + OnWay(h)')
    <2> DEFINE P == InSequence(pending, h)
               E == InSequence(Collected(stack), h)
               O == Occurrences(args, h)
               E1 == InSequence(Collected(stack), h)'
               P1 == InSequence(pending, h)'
    <2>1. P1 \in Nat
      <3>1. InSequence(pending', h) \in Nat
        BY <1>8, FramesCount
      <3> QED
        BY <3>1
    <2>2. refs'[h] = refs[h] - (P + O) + P1
      BY <1>3, <1>8, <1>14
    <2>3. /\ O \in Nat /\ E1 \in Nat /\ P \in Nat /\ E \in Nat /\ E = E1 + O
          /\ refs[h] \in Nat /\ held[h] \in Nat /\ leaked[h] \in Nat /\ OnWay(h) = 0
      BY <1>6
    <2>4. OnWay(h)' = 0 /\ held'[h] = held[h] /\ leaked'[h] = leaked[h]
      BY <1>8 DEF OnWay, Returned, Handles
    <2> HIDE DEF P, E, O, E1, P1
    <2>5. refs'[h] + (held[h] + leaked[h] + P + E + OnWay(h)) =
            refs[h] + (held'[h] + leaked'[h] + P1 + E1 + OnWay(h)')
      BY ONLY <2>1, <2>2, <2>3, <2>4
    <2> QED
      BY <2>5 DEF P, E, P1, E1
  <1>15. OwnershipExact'
    BY <1>8, <1>11, <1>14, ActivationStep
  <1> QED
    BY <1>9, <1>11, <1>12, <1>13, <1>15 DEF Inv

LEMMA DispatchStep ==
  ASSUME Inv, Dispatch
  PROVE  Inv'
  <1>1. /\ returned = NoReturn /\ stack # <<>> /\ Last(stack).kind = "evaluation"
        /\ UNCHANGED <<alive, values, globals, handler, held>>
    BY DEF Dispatch, Interpreting
  <1>2. CASE /\ pending' = Append(pending, Last(stack).args)
             /\ stack' = Append(Front(stack), Callback(Last(stack).use, Last(stack).args))
             /\ UNCHANGED <<refs, returned, leaked, crossed>>
    BY <1>1, <1>2, DispatchHandledStep
  <1>3. CASE /\ stack' = Front(stack)
             /\ Complete(Append(pending, Last(stack).args), FALSE, NULL, Last(stack).use)
    BY <1>1, <1>3, DispatchFailedStep
  <1> QED
    BY <1>2, <1>3 DEF Dispatch

\* The callback returns: its frame is cleared, and its result is on its way.
LEMMA CallbackReturnsStep ==
  ASSUME Inv, NEW ok \in BOOLEAN, NEW v \in Handles \cup {NULL}, CallbackReturns(ok, v)
  PROVE  Inv'
  <1> DEFINE use == Last(stack).use
  <1>1. /\ returned = NoReturn /\ stack # <<>> /\ Last(stack).kind = "callback"
        /\ v # NULL => ok /\ held[v] > 0
        /\ stack' = Front(stack)
        /\ held' = IF v = NULL THEN held ELSE [held EXCEPT ![v] = @ - 1]
        /\ Complete(pending, ok, v, use)
        /\ UNCHANGED <<alive, values, globals, handler>>
    BY DEF CallbackReturns, HostRuns
  <1>2. Last(stack) \in Activations /\ use \in Uses /\ Own(Last(stack)) = <<>>
    <2>1. Last(stack) \in Activations
      BY <1>1, StackFacts DEF Inv
    <2> QED
      BY <1>1, <2>1, ActivationFacts
  <1>3. TypeOK /\ pending \in Seq(Arguments) /\ refs \in [Handles -> Nat]
        /\ held \in [Handles -> Nat] /\ leaked \in [Handles -> Nat]
    BY DEF Inv, TypeOK
  <1>4. ASSUME NEW h \in Handles
        PROVE  /\ refs[h] \in Nat /\ held[h] \in Nat /\ leaked[h] \in Nat /\ InGlobals(h) \in Nat
               /\ InSequence(pending, h) \in Nat /\ InSequence(Collected(stack), h) \in Nat
               /\ OnWay(h) = 0
               /\ InSequence(Collected(stack), h)' = InSequence(Collected(stack), h)
    <2>1. /\ InSequence(Collected(stack), h)' \in Nat
          /\ InSequence(Collected(stack), h) =
               InSequence(Collected(stack), h)' + Occurrences(<<>>, h)
      BY <1>1, <1>2, <1>3, PoppedCount
    <2>2. Occurrences(<<>>, h) = 0
      BY ArgumentFacts, OccurrencesFacts
    <2>3. InSequence(Collected(stack), h)' = InSequence(Collected(stack), h)
      BY ONLY <2>1, <2>2
    <2>4. OnWay(h) = 0
      BY <1>1, NoneOnWay
    <2> QED
      BY <1>3, <2>3, <2>4, OwnerFacts
  <1>5. ASSUME alive, NEW h \in Handles
        PROVE  refs[h] >= InSequence(pending, h) /\ (held[h] > 0 => refs[h] > 0)
    <2>1. refs[h] = Owned(h)
      BY <1>3, <1>5, OwnerFacts DEF Inv
    <2>2. refs[h] = held[h] + leaked[h] + InGlobals(h) + InSequence(pending, h)
                    + InSequence(Collected(stack), h) + OnWay(h)
      BY <2>1 DEF Owned
    <2> QED
      BY ONLY <1>4, <2>2, h \in Handles
  <1> HIDE DEF use
  <1>6. alive /\ v # NULL => v \in Handles /\ ok /\ Valid(refs, v)
    BY <1>1, <1>5 DEF Valid
  <1>7. /\ refs' \in [Handles -> Nat] /\ pending' \in Seq(Arguments)
        /\ leaked' \in [Handles -> Nat] /\ crossed' \in BOOLEAN
        /\ ~alive => refs' = refs
        /\ alive => \A h \in Handles :
             /\ refs'[h] = refs[h] - InSequence(pending, h) + InSequence(pending', h)
             /\ refs'[h] <= refs[h]
        /\ IF pending # <<>> /\ ok /\ Valid(refs, v)
           THEN v \in Handles /\ returned' = Returned("OK", v, use)
           ELSE returned' = Returned("FAILED", NULL, use)
        /\ IF pending = <<>> /\ Valid(refs, v)
           THEN v \in Handles /\ leaked' = Keep(leaked, v)
           ELSE leaked' = leaked
        /\ ~crossed' => ~crossed /\ (pending # <<>> => pending' = Front(pending))
    <2>1. alive => \A h \in Handles : refs[h] >= InSequence(pending, h)
      BY <1>5
    <2>2. ok \in BOOLEAN /\ v \in Handles \cup {NULL} /\ Complete(pending, ok, v, use)
      BY <1>1
    <2> QED
      BY ONLY <1>2, <1>3, <2>1, <2>2, CompleteFacts
  <1>8. ReturnedFits' /\ NestFits'
    <2>1. \/ \E w \in Handles : returned' = Returned("OK", w, Last(stack).use)
          \/ returned' = Returned("FAILED", NULL, Last(stack).use)
      BY <1>7 DEF use
    <2> QED
      BY <1>1, <2>1, PoppedStep
  <1>9. /\ stack' \in Seq(Activations) /\ Len(stack) \in Callbacks
        /\ Callbacks' = Callbacks \ {Len(stack)}
        /\ \A i \in Callbacks' : stack'[i] = stack[i]
        /\ \A i \in Callbacks : i <= Len(stack)
    BY <1>1, <1>3, CallbacksPopped
  <1>10. /\ held' \in [Handles -> Nat]
         /\ \A h \in Handles : held'[h] = held[h] - (IF v = h THEN 1 ELSE 0)
    <2>1. CASE v = NULL
      BY <1>1, <1>3, <2>1 DEF Handles
    <2>2. CASE v # NULL
      <3>1. v \in Handles /\ held[v] > 0 /\ held' = [held EXCEPT ![v] = @ - 1]
        BY <1>1, <2>2
      <3> QED
        BY <1>3, <3>1
    <2> QED
      BY <2>1, <2>2
  <1>11. TypeOK'
    <2>1. returned' \in Results
      BY <1>2, <1>7, ResultTypes
    <2> QED
      BY <1>1, <1>3, <1>7, <1>9, <1>10, <2>1 DEF TypeOK, values
  <1>12. ASSUME ~crossed' PROVE Mirror' /\ \A h \in Handles : leaked'[h] = 0
    <2>1. ~crossed /\ Mirror /\ (\A h \in Handles : leaked[h] = 0)
      BY <1>7, <1>12 DEF Inv, InStep
    <2>2. pending # <<>>
      BY <1>3, <1>9, <2>1, MirrorEmpty
    <2>3. leaked' = leaked /\ pending' = Front(pending)
      BY <1>7, <1>12, <2>2
    <2> DEFINE c == Len(stack)
    <2>4. /\ c \in Callbacks /\ Callbacks' = Callbacks \ {c}
          /\ \A i \in Callbacks' : stack'[i] = stack[i]
          /\ \A i \in Callbacks : i <= c
      BY <1>9
    <2> HIDE DEF c
    <2>5. Mirror'
      BY ONLY <1>3, <2>1, <2>3, <2>4, MirrorPop
    <2> QED
      BY <2>1, <2>3, <2>5
  <1>13. InStep'
    BY <1>12 DEF InStep
  <1>14. Unborn'
    <2>1. ASSUME NEW h \in Handles PROVE refs'[h] <= refs[h]
      BY <1>4, <1>7
    <2> QED
      BY <1>1, <1>11, <2>1, UnbornKept DEF values
  <1>15. ASSUME alive, NEW h \in Handles
         PROVE  leaked'[h] + OnWay(h)' = leaked[h] + (IF v = h THEN 1 ELSE 0)
    <2>1. leaked[h] \in Nat
      BY <1>4
    <2>2. CASE v = NULL
      <3>1. ~Valid(refs, v) /\ v # h
        BY <2>2 DEF Valid, Handles
      <3>2. leaked' = leaked /\ returned' = Returned("FAILED", NULL, use)
        BY <1>7, <3>1
      <3>3. OnWay(h)' = 0
        BY <3>2 DEF OnWay, Returned, Handles
      <3> QED
        BY <2>1, <3>1, <3>2, <3>3
    <2>3. CASE v # NULL /\ pending = <<>>
      <3>1. v \in Handles /\ leaked' = Keep(leaked, v) /\ returned' = Returned("FAILED", NULL, use)
        BY <1>6, <1>7, <1>15, <2>3
      <3>2. OnWay(h)' = 0
        BY <3>1 DEF OnWay, Returned, Handles
      <3>3. leaked'[h] = leaked[h] + (IF h = v THEN 1 ELSE 0)
        BY <1>3, <3>1, KeepFacts
      <3> QED
        BY <2>1, <3>2, <3>3
    <2>4. CASE v # NULL /\ pending # <<>>
      <3>1. leaked' = leaked /\ returned' = Returned("OK", v, use)
        BY <1>6, <1>7, <1>15, <2>4
      <3>2. OnWay(h)' = IF v = h THEN 1 ELSE 0
        BY <3>1 DEF OnWay, Returned
      <3> QED
        BY <2>1, <3>1, <3>2
    <2> QED
      BY <2>2, <2>3, <2>4
  <1>16. ASSUME alive, NEW h \in Handles
         PROVE  refs'[h] + (held[h] + leaked[h] + InSequence(pending, h)
                            + InSequence(Collected(stack), h) + OnWay(h)) =
                  refs[h] + (held'[h] + leaked'[h] + InSequence(pending, h)'
                             + InSequence(Collected(stack), h)' + OnWay(h)')
    <2> DEFINE P == InSequence(pending, h)
               E == InSequence(Collected(stack), h)
               P1 == InSequence(pending, h)'
               E1 == InSequence(Collected(stack), h)'
               one == IF v = h THEN 1 ELSE 0
    <2>1. P1 \in Nat
      <3>1. InSequence(pending', h) \in Nat
        BY <1>7, FramesCount
      <3> QED
        BY <3>1
    <2>2. refs'[h] = refs[h] - P + P1
      BY <1>7, <1>16
    <2>3. /\ P \in Nat /\ E \in Nat /\ E1 = E
          /\ refs[h] \in Nat /\ held[h] \in Nat /\ leaked[h] \in Nat /\ OnWay(h) = 0
      BY <1>4
    <2>4. held'[h] = held[h] - one /\ leaked'[h] + OnWay(h)' = leaked[h] + one
      BY <1>10, <1>15, <1>16
    <2>5. one \in Nat /\ leaked'[h] \in Nat /\ OnWay(h)' \in Nat
      BY <1>7 DEF OnWay
    <2> HIDE DEF P, E, P1, E1, one
    <2>6. refs'[h] + (held[h] + leaked[h] + P + E + OnWay(h)) =
            refs[h] + (held'[h] + leaked'[h] + P1 + E1 + OnWay(h)')
      BY ONLY <2>1, <2>2, <2>3, <2>4, <2>5
    <2> QED
      BY <2>6 DEF P, E, P1, E1
  <1>17. OwnershipExact'
    BY <1>1, <1>7, <1>11, <1>16, ActivationStep
  <1> QED
    BY <1>8, <1>11, <1>13, <1>14, <1>17 DEF Inv

(***************************************************************************)
(* The theorems.                                                           *)
(***************************************************************************)
LEMMA InvInit ==
  ASSUME Init
  PROVE  Inv
  <1>1. /\ alive = TRUE /\ size = 0 /\ callables = {} /\ refs = [h \in Handles |-> 0]
        /\ globals = [n \in Names |-> NULL] /\ handler = FALSE /\ pending = <<>> /\ stack = <<>>
        /\ returned = NoReturn /\ held = [h \in Handles |-> 0]
        /\ leaked = [h \in Handles |-> 0] /\ crossed = FALSE
    BY DEF Init
  <1>2. MaxValues \in Nat
    BY HostCallsAssumption
  <1>3. <<>> \in Seq(Arguments) /\ <<>> \in Seq(Activations) /\ Len(<<>>) = 0
    BY EmptySeq
  <1>4. TypeOK
    <2>1. size \in 0 .. MaxValues /\ callables \subseteq 1 .. size
      BY <1>1, <1>2
    <2> QED
      BY <1>1, <1>3, <2>1, ResultTypes DEF TypeOK
  <1>5. DOMAIN stack = {} /\ Callbacks = {}
    BY <1>1, <1>3, <1>4, StackFacts DEF Callbacks
  <1>6. OwnershipExact
    <2> SUFFICES ASSUME NEW h \in Handles PROVE refs[h] = IF alive THEN Owned(h) ELSE 0
      BY DEF OwnershipExact, Owned, InGlobals, OnWay
    <2>1. refs[h] = 0 /\ held[h] = 0 /\ leaked[h] = 0 /\ OnWay(h) = 0
      BY <1>1, NoneOnWay
    <2>2. InGlobals(h) = 0
      <3>1. {n \in Names : globals[n] = h} = {}
        BY <1>1 DEF Handles
      <3> QED
        BY <3>1, FS_EmptySet DEF InGlobals
    <2>3. InSequence(pending, h) = 0
      <3>1. DOMAIN <<>> = {}
        OBVIOUS
      <3>2. Places(<<>>, h) = {}
        BY <3>1 DEF Places
      <3> QED
        BY <1>1, <3>2, FS_EmptySet DEF InSequence
    <2>4. InSequence(Collected(stack), h) = 0
      <3>1. DOMAIN Collected(stack) = {}
        BY <1>5 DEF Collected
      <3>2. Places(Collected(stack), h) = {}
        BY <3>1 DEF Places
      <3> QED
        BY <3>2, FS_EmptySet DEF InSequence
    <2> QED
      BY <1>1, <2>1, <2>2, <2>3, <2>4 DEF Owned
  <1>7. Unborn /\ ReturnedFits
    BY <1>1 DEF Unborn, ReturnedFits, NoReturn
  <1>8. NestFits
    BY <1>1, <1>5 DEF NestFits
  <1>9. InStep
    <2>1. Len(pending) = 0 /\ Cardinality(Callbacks) = 0
      BY <1>1, <1>3, <1>5, FS_EmptySet
    <2> QED
      BY <1>1, <1>5, <2>1 DEF InStep, Mirror
  <1> QED
    BY <1>4, <1>6, <1>7, <1>8, <1>9 DEF Inv

LEMMA NextStep ==
  ASSUME Inv, [Next]_vars
  PROVE  Inv'
  <1>1. CASE Next
    <2>1. CASE ValueFromHostCallable
      BY <2>1, ValueFromHostCallableStep
    <2>2. CASE \E h \in Handles : Retain(h) \/ Release(h)
      BY <2>2, RetainStep, ReleaseStep
    <2>3. CASE \E n \in Names, h \in Handles : SetGlobal(n, h)
      BY <2>3, SetGlobalStep
    <2>4. CASE \E n \in Names : DeleteGlobal(n)
      BY <2>4, DeleteGlobalStep
    <2>5. CASE \E installed \in BOOLEAN : SetHandler(installed)
      BY <2>5, SetHandlerStep
    <2>6. CASE RuntimeDestroy
      BY <2>6, RuntimeDestroyStep
    <2>7. CASE \E n \in Names : HostEvaluates(n) \/ ArgumentCall(n) \/ ArgumentName(n)
      BY <2>7, HostEvaluatesStep, ArgumentCallStep, ArgumentNameStep
    <2>8. CASE ArgumentLiteral
      BY <2>8, ArgumentLiteralStep
    <2>9. CASE Dispatch
      BY <2>9, DispatchStep
    <2>10. CASE \E ok \in BOOLEAN, h \in Handles \cup {NULL} : CallbackReturns(ok, h)
      BY <2>10, CallbackReturnsStep
    <2>11. CASE DeliverArgument
      BY <2>11, DeliverArgumentStep
    <2>12. CASE FailArgument
      BY <2>12, FailArgumentStep
    <2>13. CASE HostReceives
      BY <2>13, HostReceivesStep
    <2> QED
      BY <1>1, <2>1, <2>2, <2>3, <2>4, <2>5, <2>6, <2>7, <2>8, <2>9, <2>10, <2>11, <2>12, <2>13
         DEF Next
  <1>2. CASE UNCHANGED vars
    <2>1. UNCHANGED <<alive, size, callables, refs, globals, handler, pending, stack, returned,
                      held, leaked, crossed>>
      BY <1>2 DEF vars, values, history
    <2>2. TypeOK' /\ Unborn'
      BY <2>1 DEF Inv, TypeOK, Unborn
    <2>3. \A h \in Handles : refs'[h] + held[h] + InGlobals(h) = refs[h] + held'[h] + InGlobals(h)'
      BY <2>1 DEF InGlobals
    <2> QED
      BY <2>1, <2>2, <2>3, HostStep
  <1> QED
    BY <1>1, <1>2

LEMMA Invariance == Spec => []Inv
  BY InvInit, NextStep, PTL DEF Spec

\* Every state is well typed: no call, however nested or failing, takes a
\* reference count, the host's share of it or a frame out of its range.
THEOREM HostTypes == Spec => []TypeOK
  <1>1. Inv => TypeOK
    BY DEF Inv
  <1> QED
    BY <1>1, Invariance, PTL

\* Each reference to a value has exactly one owner, through any nesting of
\* evaluations and callbacks and any failure among them: native_api_host_calls.py
\* neither loses an argument nor releases one twice.
THEOREM HostOwnership == Spec => []OwnershipExact
  <1>1. Inv => OwnershipExact
    BY DEF Inv
  <1> QED
    BY <1>1, Invariance, PTL

\* What a callback was lent has a reference in its pending frame.
LEMMA BorrowedFacts ==
  ASSUME Inv, Mirror
  PROVE  BorrowedArgumentsValid
  <1> SUFFICES ASSUME alive, NEW i \in Callbacks, NEW h \in Range(stack[i].args)
               PROVE  Valid(refs, h)
    BY DEF BorrowedArgumentsValid
  <1> DEFINE k == CallbacksUpTo(i)
             args == stack[i].args
  <1>1. TypeOK /\ pending \in Seq(Arguments)
    BY DEF Inv, TypeOK
  <1>2. args \in Arguments
    BY <1>1, StackFacts, ActivationFacts DEF Callbacks
  <1>3. k \in DOMAIN pending /\ pending[k] = args
    <2>1. k \in Nat /\ k <= Cardinality(Callbacks) /\ k > 0 /\ Cardinality(Callbacks) \in Nat
      BY <1>1, CallbackFacts
    <2>2. Len(pending) = Cardinality(Callbacks) /\ pending[k] = args
      BY DEF Mirror
    <2>3. DOMAIN pending = 1 .. Len(pending)
      BY <1>1, LenProperties
    <2> HIDE DEF k
    <2> QED
      BY <2>1, <2>2, <2>3
  <1>4. PICK j \in DOMAIN args : args[j] = h
    BY DEF Range
  <1>5. h \in Handles
    BY <1>2, <1>4, ArgumentFacts
  <1>6. InSequence(pending, h) > 0
    <2> HIDE DEF k, args
    <2> QED
      BY <1>1, <1>3, <1>4, FramesCount
  <1>7. refs[h] = Owned(h) /\ held[h] \in Nat /\ leaked[h] \in Nat /\ InGlobals(h) \in Nat
        /\ InSequence(pending, h) \in Nat /\ InSequence(Collected(stack), h) \in Nat
        /\ OnWay(h) \in Nat
    BY <1>1, <1>5, OwnerFacts DEF Inv, OnWay
  <1>8. refs[h] > 0
    BY ONLY <1>6, <1>7 DEF Owned
  <1> QED
    BY <1>5, <1>8 DEF Valid, Handles

\* Until a call fails while another callback runs, the pending frames are those
\* of the running callbacks, in order, what they were lent stays valid, and no
\* result is lost: portapy_host_dispatch_complete always finds the right frame.
THEOREM HostFrames == Spec => []FramesInStep
  <1>1. Inv => FramesInStep
    BY BorrowedFacts DEF Inv, InStep, Mirror, FramesInStep
  <1> QED
    BY <1>1, Invariance, PTL
=============================================================================
