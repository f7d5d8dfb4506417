------------------------------ MODULE VmProofs ------------------------------
(***************************************************************************)
(* The virtual machine.  Of a frame: that every __exit__ it calls is that  *)
(* of the newest manager it has entered, and that a RETURN leaves no       *)
(* manager open, for any bytecode, any foreign code and any order of       *)
(* suspensions, throws and failures; and that its lists of handlers and    *)
(* managers agree, for any protected bytecode.  Of a call: that it loses   *)
(* no argument and leaves no parameter unbound, and that where the names   *)
(* are as Python has them it binds and refuses what Python does, for any   *)
(* definitions and any calls.                                              *)
(***************************************************************************)
EXTENDS ProtectedCode, VmCalls, CountsAndStacks

(***************************************************************************)
(* Sequences of anything.                                                  *)
(***************************************************************************)
IsSequence(s) == s \in Seq({s[i] : i \in DOMAIN s})

LEMMA SequenceFacts ==
  ASSUME NEW S, NEW s \in Seq(S)
  PROVE  IsSequence(s) /\ Len(s) \in Nat /\ DOMAIN s = 1 .. Len(s)
  <1>1. Len(s) \in Nat /\ DOMAIN s = 1 .. Len(s) /\ s \in [1 .. Len(s) -> S]
    BY LenProperties
  <1> QED
    BY <1>1 DEF IsSequence

LEMMA LengthFacts ==
  ASSUME NEW s, IsSequence(s)
  PROVE  Len(s) \in Nat /\ DOMAIN s = 1 .. Len(s) /\ (s # <<>> => Len(s) > 0)
  <1>1. Len(s) \in Nat /\ DOMAIN s = 1 .. Len(s)
    BY LenProperties DEF IsSequence
  <1>2. s # <<>> => Len(s) > 0
    BY EmptySeq DEF IsSequence
  <1> QED
    BY <1>1, <1>2

LEMMA Appended ==
  ASSUME NEW s, IsSequence(s), NEW e
  PROVE  /\ IsSequence(Append(s, e)) /\ Len(Append(s, e)) = Len(s) + 1
         /\ \A i \in 1 .. Len(s) : Append(s, e)[i] = s[i]
         /\ Append(s, e)[Len(s) + 1] = e
  <1> DEFINE S == {s[i] : i \in DOMAIN s} \cup {e}
  <1>1. s \in Seq(S) /\ e \in S
    BY SeqMonotonic DEF IsSequence
  <1> HIDE DEF S
  <1>2. /\ Append(s, e) \in Seq(S) /\ Len(Append(s, e)) = Len(s) + 1
        /\ \A i \in 1 .. Len(s) : Append(s, e)[i] = s[i]
        /\ Append(s, e)[Len(s) + 1] = e
    BY <1>1, AppendProperties
  <1> QED
    BY <1>2, SequenceFacts

LEMMA Shortened ==
  ASSUME NEW s, IsSequence(s), s # <<>>
  PROVE  /\ IsSequence(Popped(s)) /\ Len(Popped(s)) = Len(s) - 1
         /\ \A i \in 1 .. Len(s) - 1 : Popped(s)[i] = s[i]
  <1> DEFINE S == {s[i] : i \in DOMAIN s}
  <1>1. s \in Seq(S)
    BY DEF IsSequence
  <1>2. Popped(s) = Front(s)
    BY DEF Popped, Front
  <1> HIDE DEF S
  <1>3. /\ Front(s) \in Seq(S) /\ Len(Front(s)) = Len(s) - 1
        /\ \A i \in 1 .. Len(s) - 1 : Front(s)[i] = s[i]
    BY <1>1, TopFacts
  <1> QED
    BY <1>2, <1>3, SequenceFacts

(***************************************************************************)
(* The managers open after each event of a trace.                          *)
(***************************************************************************)
History(f, t) ==
  f = [n \in 0 .. Len(t) |-> IF n = 0 THEN NoneOpen ELSE Following(f[n - 1], t[n])]

\* A trace has one history at most.
LEMMA OneHistory ==
  ASSUME NEW t, Len(t) \in Nat, NEW f, NEW g, History(f, t), History(g, t)
  PROVE  f = g
  <1> DEFINE same == {n \in 0 .. Len(t) : f[n] = g[n]}
  <1>1. f[0] = NoneOpen /\ g[0] = NoneOpen
    BY DEF History
  <1>2. 0 \in same
    BY <1>1
  <1>3. \A n \in 0 .. Len(t) - 1 : n \in same => n + 1 \in same
    <2> SUFFICES ASSUME NEW n \in 0 .. Len(t) - 1, f[n] = g[n] PROVE f[n + 1] = g[n + 1]
      OBVIOUS
    <2>1. n + 1 \in 0 .. Len(t) /\ n + 1 # 0 /\ n + 1 - 1 = n
      OBVIOUS
    <2>2. f[n + 1] = Following(f[n], t[n + 1])
      BY <2>1 DEF History
    <2>3. g[n + 1] = Following(g[n], t[n + 1])
      BY <2>1 DEF History
    <2> QED
      BY <2>2, <2>3
  <1>4. \A n \in 0 .. Len(t) : n \in same
    <2> HIDE DEF same
    <2> QED
      BY <1>2, <1>3, UpTo
  <1>5. \A n \in 0 .. Len(t) : f[n] = g[n]
    BY <1>4
  <1>6. DOMAIN f = 0 .. Len(t) /\ DOMAIN g = 0 .. Len(t)
    BY DEF History
  <1>7. f = [n \in DOMAIN f |-> f[n]] /\ g = [n \in DOMAIN g |-> g[n]]
    BY DEF History
  <1> QED
    BY <1>5, <1>6, <1>7

\* The history of a longer trace goes on where that of the shorter one ends.
LEMMA Continued ==
  ASSUME NEW t, IsSequence(t), NEW e, NEW f, History(f, t)
  PROVE  \E g : History(g, Append(t, e)) /\ g[Len(t) + 1] = Following(f[Len(t)], e)
  <1> DEFINE k == Len(t)
             more == Append(t, e)
             g == [n \in 0 .. k + 1 |-> IF n <= k THEN f[n] ELSE Following(f[k], e)]
  <1>1. /\ k \in Nat /\ Len(more) = k + 1 /\ more[k + 1] = e
        /\ \A i \in 1 .. k : more[i] = t[i]
    BY Appended, LengthFacts
  <1>2. f[0] = NoneOpen /\ \A n \in 1 .. k : f[n] = Following(f[n - 1], t[n])
    BY <1>1 DEF History
  <1> HIDE DEF k, more
  <1>3. g[0] = NoneOpen
    BY <1>1, <1>2
  <1>4. ASSUME NEW n \in 1 .. k + 1 PROVE g[n] = Following(g[n - 1], more[n])
    <2>1. CASE n <= k
      <3>1. n \in 1 .. k /\ n - 1 \in 0 .. k + 1 /\ n - 1 <= k
        BY <1>1, <2>1
      <3>2. g[n] = f[n] /\ g[n - 1] = f[n - 1] /\ more[n] = t[n]
        BY <1>1, <2>1, <3>1
      <3> QED
        BY <1>2, <3>1, <3>2
    <2>2. CASE n = k + 1
      <3>1. n - 1 = k /\ k \in 0 .. k + 1 /\ k + 1 \in 0 .. k + 1 /\ ~(k + 1 <= k)
        BY <1>1, <2>2
      <3>2. g[k] = f[k] /\ g[k + 1] = Following(f[k], e)
        BY <3>1
      <3> QED
        BY <1>1, <2>2, <3>1, <3>2
    <2> QED
      BY <1>1, <2>1, <2>2
  <1>5. g = [n \in 0 .. Len(more) |-> IF n = 0 THEN NoneOpen ELSE Following(g[n - 1], more[n])]
    <2>1. \A n \in 0 .. k + 1 : n # 0 => n \in 1 .. k + 1
      BY ONLY <1>1
    <2>2. g = [n \in 0 .. k + 1 |-> g[n]]
      OBVIOUS
    <2> HIDE DEF g
    <2> QED
      BY <1>1, <1>3, <1>4, <2>1, <2>2
  <1>6. History(g, more)
    BY <1>5 DEF History
  <1>7. g[k + 1] = Following(f[k], e)
    BY <1>1
  <1> QED
    BY <1>6, <1>7 DEF k, more

\* What a history ends with is what is open after the trace.
LEMMA OpenIs ==
  ASSUME Len(trace) \in Nat, NEW f, History(f, trace)
  PROVE  OpenAfter = f[Len(trace)]
  <1> DEFINE chosen == CHOOSE g : History(g, trace)
  <1>1. History(chosen, trace)
    OBVIOUS
  <1>2. OpenAfter = chosen[Len(trace)]
    BY DEF OpenAfter, History
  <1> HIDE DEF chosen
  <1>3. chosen = f
    BY <1>1, OneHistory
  <1> QED
    BY <1>2, <1>3

LEMMA SameSequence ==
  ASSUME NEW s, NEW t, IsSequence(s), IsSequence(t), Len(s) = Len(t),
         \A i \in 1 .. Len(s) : s[i] = t[i]
  PROVE  s = t
  <1> DEFINE S == {s[i] : i \in DOMAIN s}
  <1>1. s \in Seq(S)
    BY DEF IsSequence
  <1>2. {t[i] : i \in DOMAIN t} = S
    BY LengthFacts
  <1>3. t \in Seq(S)
    BY <1>2 DEF IsSequence
  <1> HIDE DEF S
  <1> QED
    BY <1>1, <1>3, SeqEqual

(***************************************************************************)
(* The managers a frame has to exit, by name.                              *)
(***************************************************************************)
Named(contexts) == [i \in 1 .. Len(contexts) |-> contexts[i].of]

LEMMA NamedFacts ==
  ASSUME NEW c, IsSequence(c)
  PROVE  /\ IsSequence(Named(c)) /\ Len(Named(c)) = Len(c)
         /\ \A i \in 1 .. Len(c) : Named(c)[i] = c[i].of
  <1> DEFINE k == Len(c)
             S == {c[i].of : i \in 1 .. k}
             n == Named(c)
  <1>1. k \in Nat
    BY LengthFacts
  <1>2. n \in [1 .. k -> S] /\ \A i \in 1 .. k : n[i] = c[i].of
    BY DEF Named
  <1> HIDE DEF k, S, n
  <1>3. n \in Seq(S) /\ Len(n) = k
    BY <1>1, <1>2
  <1>4. IsSequence(n)
    BY <1>3, SequenceFacts
  <1> QED
    BY <1>2, <1>3, <1>4 DEF k, n

LEMMA NamedEntered ==
  ASSUME NEW c, IsSequence(c), NEW name, NEW manager
  PROVE  Named(Append(c, Manager(name, manager))) = Append(Named(c), name)
  <1> DEFINE more == Append(c, Manager(name, manager))
             k == Len(c)
             old == Named(c)
             new == Named(more)
             grown == Append(old, name)
  <1>1. /\ IsSequence(more) /\ Len(more) = k + 1 /\ k \in Nat
        /\ \A i \in 1 .. k : more[i] = c[i]
        /\ more[k + 1] = Manager(name, manager)
    BY Appended, LengthFacts
  <1>2. /\ IsSequence(old) /\ Len(old) = k
        /\ \A i \in 1 .. k : old[i] = c[i].of
    BY NamedFacts
  <1> HIDE DEF more, k, old
  <1>3. /\ IsSequence(new) /\ Len(new) = k + 1
        /\ \A i \in 1 .. k + 1 : new[i] = more[i].of
    BY <1>1, NamedFacts
  <1>4. /\ IsSequence(grown) /\ Len(grown) = k + 1
        /\ \A i \in 1 .. k : grown[i] = old[i]
        /\ grown[k + 1] = name
    BY <1>2, Appended
  <1>5. more[k + 1].of = name
    BY <1>1 DEF Manager
  <1> HIDE DEF new, grown
  <1>6. ASSUME NEW i \in 1 .. k + 1 PROVE new[i] = grown[i]
    <2>1. CASE i = k + 1
      BY <1>3, <1>4, <1>5, <2>1
    <2>2. CASE i # k + 1
      <3>1. i \in 1 .. k
        BY <1>1, <2>2
      <3> QED
        BY <1>1, <1>2, <1>3, <1>4, <3>1
    <2> QED
      BY <2>1, <2>2
  <1>7. new = grown
    BY <1>3, <1>4, <1>6, SameSequence
  <1> QED
    BY <1>7 DEF new, grown, more, old

LEMMA NamedExited ==
  ASSUME NEW c, IsSequence(c), c # <<>>
  PROVE  /\ Named(c) # <<>> /\ Top(Named(c)) = Top(c).of
         /\ Named(Popped(c)) = Popped(Named(c))
  <1> DEFINE less == Popped(c)
             k == Len(c)
             old == Named(c)
             new == Named(less)
             shrunk == Popped(old)
  <1>1. /\ IsSequence(less) /\ Len(less) = k - 1 /\ k \in Nat /\ k > 0
        /\ \A i \in 1 .. k - 1 : less[i] = c[i]
    BY Shortened, LengthFacts
  <1>2. /\ IsSequence(old) /\ Len(old) = k
        /\ \A i \in 1 .. k : old[i] = c[i].of
    BY NamedFacts
  <1>3. Top(old) = Top(c).of
    BY <1>1, <1>2 DEF Top
  <1> HIDE DEF less, k, old
  <1>4. old # <<>>
    BY <1>1, <1>2, EmptySeq
  <1>5. /\ IsSequence(new) /\ Len(new) = k - 1
        /\ \A i \in 1 .. k - 1 : new[i] = less[i].of
    BY <1>1, NamedFacts
  <1>6. /\ IsSequence(shrunk) /\ Len(shrunk) = k - 1
        /\ \A i \in 1 .. k - 1 : shrunk[i] = old[i]
    BY <1>2, <1>4, Shortened
  <1> HIDE DEF new, shrunk
  <1>7. ASSUME NEW i \in 1 .. k - 1 PROVE new[i] = shrunk[i]
    BY <1>1, <1>2, <1>5, <1>6
  <1>8. new = shrunk
    BY <1>5, <1>6, <1>7, SameSequence
  <1> QED
    BY <1>3, <1>4, <1>8 DEF old, new, less, shrunk

(***************************************************************************)
(* The inductive invariant.                                                *)
(***************************************************************************)
\* The events of the trace leave open what the frame still has to exit.
Agree ==
  /\ IsSequence(trace) /\ IsSequence(with_contexts)
  /\ \E f : History(f, trace) /\ f[Len(trace)] = [proper |-> TRUE, managers |-> Named(with_contexts)]

\* A call that has returned by a RETURN has nothing left to exit.
Drained == outcome.how = "returns" /\ returning # NoValue => with_contexts = <<>>

Inv == Agree /\ Drained

LEMMA AgreeOpen ==
  ASSUME Agree
  PROVE  OpenAfter = [proper |-> TRUE, managers |-> Named(with_contexts)]
  <1>1. PICK f : History(f, trace)
                 /\ f[Len(trace)] = [proper |-> TRUE, managers |-> Named(with_contexts)]
    BY DEF Agree
  <1>2. Len(trace) \in Nat
    BY LengthFacts DEF Agree
  <1> QED
    BY <1>1, <1>2, OpenIs

LEMMA AgreeInit == Init => Inv
  <1> SUFFICES ASSUME Init PROVE Inv
    OBVIOUS
  <1>1. trace = <<>> /\ with_contexts = <<>> /\ outcome.how # "returns"
    BY DEF Init, Running
  <1>2. IsSequence(<<>>) /\ Len(<<>>) = 0
    BY EmptySeq, SequenceFacts
  <1> DEFINE f == [n \in 0 .. 0 |-> NoneOpen]
  <1>3. History(f, <<>>) /\ f[0] = NoneOpen
    BY <1>2 DEF History
  <1>4. Named(<<>>) = <<>>
    BY <1>2, NamedFacts, EmptySeq DEF IsSequence
  <1>5. f[0] = [proper |-> TRUE, managers |-> Named(<<>>)]
    BY <1>3, <1>4 DEF NoneOpen
  <1> HIDE DEF f
  <1> QED
    BY <1>1, <1>2, <1>3, <1>5 DEF Inv, Agree, Drained

\* Neither the trace nor the contexts change.
LEMMA NothingHappens ==
  ASSUME Agree, UNCHANGED <<trace, with_contexts>>
  PROVE  Agree'
  BY DEF Agree

\* One more event.
LEMMA OneMore ==
  ASSUME Agree, NEW e, trace' = Append(trace, e), IsSequence(with_contexts'),
         Following([proper |-> TRUE, managers |-> Named(with_contexts)], e) =
           [proper |-> TRUE, managers |-> Named(with_contexts')]
  PROVE  Agree'
  <1> DEFINE k == Len(trace)
             before == [proper |-> TRUE, managers |-> Named(with_contexts)]
             after == [proper |-> TRUE, managers |-> Named(with_contexts')]
  <1>1. PICK f : History(f, trace) /\ f[k] = before
    BY DEF Agree
  <1>2. IsSequence(trace') /\ Len(trace') = k + 1 /\ IsSequence(trace)
    BY Appended DEF Agree
  <1>3. Following(before, e) = after
    OBVIOUS
  <1> HIDE DEF before, after
  <1>4. PICK g : History(g, Append(trace, e)) /\ g[Len(trace) + 1] = Following(f[Len(trace)], e)
    BY <1>1, <1>2, Continued
  <1>5. History(g, trace') /\ g[Len(trace')] = after
    BY <1>1, <1>2, <1>3, <1>4
  <1> QED
    BY <1>2, <1>5 DEF Agree, after

\* An event that is no __enter__ and no __exit__.
LEMMA SomethingHappens ==
  ASSUME Agree, UNCHANGED with_contexts, NEW what, NEW of, NEW with, NEW result,
         what \notin {"enter", "exit"}, Recorded(what, of, with, result)
  PROVE  Agree'
  <1> DEFINE e == Event(what, of, with, result)
  <1>1. trace' = Append(trace, e)
    BY DEF Recorded
  <1>2. e.what # "enter" /\ e.what # "exit"
    BY DEF Event
  <1> HIDE DEF e
  <1>3. Following([proper |-> TRUE, managers |-> Named(with_contexts)], e) =
          [proper |-> TRUE, managers |-> Named(with_contexts')]
    BY <1>2 DEF Following
  <1>4. IsSequence(with_contexts')
    BY DEF Agree
  <1> QED
    BY <1>1, <1>3, <1>4, OneMore

\* A manager is entered, or fails to be: it has to be exited.
LEMMA ManagerEnters ==
  ASSUME Agree, NEW name, NEW manager, NEW result,
         with_contexts' = Append(with_contexts, Manager(name, manager)),
         Recorded("enter", name, NoError, result)
  PROVE  Agree'
  <1> DEFINE e == Event("enter", name, NoError, result)
             open == Named(with_contexts)
  <1>1. trace' = Append(trace, e)
    BY DEF Recorded
  <1>2. e.what = "enter" /\ e.of = name
    BY DEF Event
  <1>3. IsSequence(with_contexts) /\ IsSequence(with_contexts')
    BY Appended DEF Agree
  <1>4. Named(with_contexts') = Append(open, name)
    BY <1>3, NamedEntered
  <1> HIDE DEF e, open
  <1>5. Following([proper |-> TRUE, managers |-> open], e) =
          [proper |-> TRUE, managers |-> Named(with_contexts')]
    BY <1>2, <1>4 DEF Following
  <1> QED
    BY <1>1, <1>3, <1>5, OneMore DEF open

\* The newest manager is exited.
LEMMA ManagerExits ==
  ASSUME Agree, with_contexts # <<>>, NEW with, NEW result,
         with_contexts' = Popped(with_contexts),
         Recorded("exit", Top(with_contexts).of, with, result)
  PROVE  Agree'
  <1> DEFINE name == Top(with_contexts).of
             e == Event("exit", name, with, result)
             open == Named(with_contexts)
  <1>1. trace' = Append(trace, e)
    BY DEF Recorded
  <1>2. e.what = "exit" /\ e.of = name
    BY DEF Event
  <1>3. IsSequence(with_contexts) /\ IsSequence(with_contexts')
    BY Shortened DEF Agree
  <1>4. open # <<>> /\ Top(open) = name /\ Named(with_contexts') = Popped(open)
    BY <1>3, NamedExited
  <1> HIDE DEF name, e, open
  <1>5. Following([proper |-> TRUE, managers |-> open], e) =
          [proper |-> TRUE, managers |-> Named(with_contexts')]
    BY <1>2, <1>4 DEF Following
  <1> QED
    BY <1>1, <1>3, <1>5, OneMore DEF open

LEMMA AgreeStep == Agree /\ [Next]_vars => Agree'
  <1> SUFFICES ASSUME Agree, [Next]_vars PROVE Agree'
    OBVIOUS
  <1> USE DEF protection
  <1>1. CASE ExecuteDo
    <2>1. PICK result \in Errors \cup {"ok"} : Recorded("do", here.of, NoError, result)
      BY <1>1 DEF ExecuteDo
    <2>2. UNCHANGED with_contexts
      BY <1>1 DEF ExecuteDo
    <2> QED
      BY <2>1, <2>2, SomethingHappens
  <1>2. CASE ExecuteTest
    <2>1. PICK result \in Errors \cup {"go", "stop"} : Recorded("test", here.of, NoError, result)
      BY <1>2 DEF ExecuteTest
    <2>2. UNCHANGED with_contexts
      BY <1>2 DEF ExecuteTest
    <2> QED
      BY <2>1, <2>2, SomethingHappens
  <1>3. CASE ExecuteLoadConst \/ ExecutePopTop \/ ExecuteJump \/ ExecuteRaise
             \/ ExecuteMatch \/ ExecuteReturn \/ ExecuteYield
    BY <1>3, NothingHappens
    DEF ExecuteLoadConst, ExecutePopTop, ExecuteJump, ExecuteRaise,
        ExecuteMatch, ExecuteReturn, ExecuteYield
  <1>4. CASE ExecuteGetIter
    <2>1. UNCHANGED with_contexts
      BY <1>4 DEF ExecuteGetIter
    <2>2. UNCHANGED trace \/ \E error \in Errors : Recorded("next", here.of, NoError, error)
      BY <1>4 DEF ExecuteGetIter
    <2> QED
      BY <2>1, <2>2, NothingHappens, SomethingHappens
  <1>5. CASE ExecuteForIter
    <2>1. UNCHANGED with_contexts
      BY <1>5 DEF ExecuteForIter
    <2>2. CASE UNCHANGED trace
      BY <2>1, <2>2, NothingHappens
    <2>3. CASE \E result \in Errors \cup {"item", "stop"} :
                 Recorded("next", Top(stack).of, NoError, result)
      <3>1. PICK result : Recorded("next", Top(stack).of, NoError, result)
        BY <2>3
      <3> QED
        BY <2>1, <3>1, SomethingHappens
    <2> QED
      BY <1>5, <2>2, <2>3 DEF ExecuteForIter
  <1>6. CASE ExecuteWithEnter
    <2>1. with_contexts' = Append(with_contexts, Manager(here.of, here.spec))
      BY <1>6 DEF ExecuteWithEnter
    <2>2. PICK result : Recorded("enter", here.of, NoError, result)
      BY <1>6 DEF ExecuteWithEnter
    <2> QED
      BY <2>1, <2>2, ManagerEnters
  <1>7. CASE ExecuteWithExit
    <2>1. CASE with_contexts = <<>>
      BY <1>7, <2>1, NothingHappens DEF ExecuteWithExit
    <2>2. CASE with_contexts # <<>>
      <3>1. with_contexts' = Popped(with_contexts)
        BY <1>7, <2>2 DEF ExecuteWithExit, ContextPopped
      <3>2. PICK result : Recorded("exit", Top(with_contexts).of, NoError, result)
        BY <1>7, <2>2 DEF ExecuteWithExit
      <3> QED
        BY <2>2, <3>1, <3>2, ManagerExits
    <2> QED
      BY <2>1, <2>2
  <1>8. CASE ExecuteTryBegin
    BY <1>8, NothingHappens DEF ExecuteTryBegin
  <1>9. CASE ExecuteTryEnd
    BY <1>9, NothingHappens DEF ExecuteTryEnd
  <1>10. CASE DrainContext
    <2>1. with_contexts # <<>> /\ with_contexts' = Popped(with_contexts)
      BY <1>10 DEF DrainContext, ContextPopped
    <2>2. PICK result : Recorded("exit", Top(with_contexts).of, NoError, result)
      BY <1>10 DEF DrainContext
    <2> QED
      BY <2>1, <2>2, ManagerExits
  <1>11. CASE Leave
    BY <1>11, NothingHappens DEF Leave
  <1>12. CASE ExecuteAwait \/ ResumeAwait
    <2>1. PICK of, result : Recorded("await", of, NoError, result)
      BY <1>12 DEF ExecuteAwait, ResumeAwait, Drive, FailsToStart
    <2>2. UNCHANGED with_contexts
      BY <1>12 DEF ExecuteAwait, ResumeAwait
    <2> QED
      BY <2>1, <2>2, SomethingHappens
  <1>13. CASE Resume
    <2>1. Recorded("yield", resumes, NoError, "go") /\ UNCHANGED with_contexts
      BY <1>13 DEF Resume
    <2> QED
      BY <2>1, SomethingHappens
  <1>14. CASE Throw
    <2>1. UNCHANGED with_contexts
      BY <1>14 DEF Throw
    <2>2. PICK error \in Errors : IF awaiting = NoAwait THEN Recorded("yield", resumes, NoError, error)
                                  ELSE Recorded("await", awaiting, NoError, error)
      BY <1>14 DEF Throw
    <2> QED
      BY <2>1, <2>2, SomethingHappens
  <1>15. CASE Uncaught \/ Catch
    BY <1>15, NothingHappens DEF Uncaught, Catch
  <1>16. CASE UnwindContext
    <2>1. CASE with_contexts = <<>>
      BY <1>16, <2>1, NothingHappens DEF UnwindContext
    <2>2. CASE with_contexts # <<>>
      <3>1. with_contexts' = Popped(with_contexts)
        BY <1>16, <2>2 DEF UnwindContext
      <3>2. PICK result : Recorded("exit", Top(with_contexts).of, raised, result)
        BY <1>16, <2>2 DEF UnwindContext
      <3> QED
        BY <2>2, <3>1, <3>2, ManagerExits
    <2> QED
      BY <2>1, <2>2
  <1>17. CASE UNCHANGED vars
    BY <1>17, NothingHappens DEF vars
  <1> QED
    BY <1>1, <1>2, <1>3, <1>4, <1>5, <1>6, <1>7, <1>8, <1>9, <1>10, <1>11, <1>12, <1>13, <1>14,
       <1>15, <1>16, <1>17 DEF Next

\* Only a call that is running goes on.
LEMMA DrainedStep == Drained /\ [Next]_vars => Drained'
  <1> SUFFICES ASSUME Drained, [Next]_vars PROVE Drained'
    OBVIOUS
  <1> USE DEF protection
  <1>1. Running.how # "returns"
    BY DEF Running
  <1>2. CASE outcome' = Running
    BY <1>1, <1>2 DEF Drained
  <1>3. CASE \E error : outcome' = Raises(error)
    BY <1>3 DEF Drained, Raises
  <1>4. CASE UNCHANGED vars
    BY <1>4 DEF Drained, vars
  <1>5. CASE Leave
    BY <1>5 DEF Leave, Drained
  <1>6. CASE Next /\ ~Leave
    <2> USE DEF Executes, Runs, Raise, Proceed, Dispatching, Escape
    <2>1. CASE ExecuteDo \/ ExecuteTest \/ ExecuteLoadConst \/ ExecutePopTop \/ ExecuteJump
      <3>1. outcome' = Running
        BY <2>1 DEF ExecuteDo, ExecuteTest, ExecuteLoadConst, ExecutePopTop, ExecuteJump
      <3> QED
        BY <1>2, <3>1
    <2>2. CASE ExecuteGetIter \/ ExecuteForIter
      <3>1. outcome' = Running
        BY <2>2 DEF ExecuteGetIter, ExecuteForIter
      <3> QED
        BY <1>2, <3>1
    <2>3. CASE ExecuteWithEnter \/ ExecuteWithExit \/ ExecuteTryBegin \/ ExecuteTryEnd
      <3>1. outcome' = Running
        BY <2>3 DEF ExecuteWithEnter, ExecuteWithExit, ExecuteTryBegin, ExecuteTryEnd
      <3> QED
        BY <1>2, <3>1
    <2>4. CASE ExecuteRaise \/ ExecuteMatch \/ ExecuteReturn \/ ExecuteYield \/ ExecuteAwait
      <3>1. outcome' = Running
        BY <2>4 DEF ExecuteRaise, ExecuteMatch, ExecuteReturn, ExecuteYield, ExecuteAwait
      <3> QED
        BY <1>2, <3>1
    <2>5. CASE DrainContext \/ Resume \/ ResumeAwait \/ Throw
      <3>1. outcome' = Running
        BY <2>5 DEF DrainContext, Resume, ResumeAwait, Throw
      <3> QED
        BY <1>2, <3>1
    <2>6. CASE Uncaught \/ Catch
      <3>1. outcome' = Running \/ \E error : outcome' = Raises(error)
        BY <2>6 DEF Uncaught, Catch
      <3> QED
        BY <1>2, <1>3, <3>1
    <2>7. CASE UnwindContext
      <3>1. outcome' = Running \/ \E error : outcome' = Raises(error)
        BY <2>7 DEF UnwindContext
      <3> QED
        BY <1>2, <1>3, <3>1
    <2> QED
      BY <1>6, <2>1, <2>2, <2>3, <2>4, <2>5, <2>6, <2>7 DEF Next
  <1> QED
    BY <1>4, <1>5, <1>6

LEMMA InvHolds == Spec => []Inv
  <1>1. Init => Inv
    BY AgreeInit
  <1>2. Inv /\ [Next]_vars => Inv'
    BY AgreeStep, DrainedStep DEF Inv
  <1> QED
    BY <1>1, <1>2, PTL DEF Spec

\* Whatever a function compiles to, whatever its foreign code does and however
\* its frame is suspended, resumed and thrown into, the machine exits each
\* manager it entered at most once, and inner ones before outer ones.
THEOREM ExitsAreNewestFirst == Spec => []ExitsNewestFirst
  <1>1. Inv => ExitsNewestFirst
    BY AgreeOpen DEF Inv, ExitsNewestFirst
  <1> QED
    BY InvHolds, <1>1, PTL

\* A call that ends at a RETURN has exited every manager it entered, those of
\* with statements it jumped out of included.
THEOREM ReturnsExitAll == Spec => []ReturnExitsAll
  <1>1. ASSUME Inv, outcome.how = "returns", returning # NoValue PROVE OpenAfter.managers = <<>>
    <2>1. with_contexts = <<>> /\ OpenAfter.managers = Named(with_contexts)
      BY <1>1, AgreeOpen DEF Inv, Drained
    <2>2. IsSequence(<<>>) /\ Len(<<>>) = 0
      BY EmptySeq, SequenceFacts
    <2>3. Named(<<>>) = <<>>
      BY <2>2, NamedFacts, EmptySeq DEF IsSequence
    <2> QED
      BY <2>1, <2>3
  <1>2. Inv => ReturnExitsAll
    BY <1>1 DEF ReturnExitsAll
  <1> QED
    BY InvHolds, <1>2, PTL

(***************************************************************************)
(* Protected code keeps its lists in step.                                 *)
(***************************************************************************)
\* The places of the tries, or of the managers, in a list of what is open; and
\* that the three lists of the frame say what open says.
Of(open, kind) == {i \in 1 .. Len(open) : open[i].kind = kind}
HeldBy(open, order, tries, managers) ==
  /\ IsSequence(order) /\ Len(order) = Len(open)
  /\ \A i \in 1 .. Len(open) : order[i] = open[i].kind
  /\ IsSequence(tries) /\ Len(tries) = Cardinality(Of(open, "try"))
  /\ \A i \in Of(open, "try") : tries[Rank(Of(open, "try"), i)] = open[i].handler
  /\ IsSequence(managers) /\ Len(managers) = Cardinality(Of(open, "with"))
  /\ \A i \in Of(open, "with") : managers[Rank(Of(open, "with"), i)].manager = open[i].manager

\* A list whose elements belong to the places in A, with one more or one less.
Within(A, N) == N \in Nat /\ A \in SUBSET (1 .. N)
Listed(s, A, N) == Within(A, N) /\ IsSequence(s) /\ Len(s) = Cardinality(A)
Lengthened(t, s, A, N, e) ==
  /\ IsSequence(t) /\ Len(t) = Cardinality(A \cup {N + 1})
  /\ \A i \in A : t[Rank(A \cup {N + 1}, i)] = s[Rank(A, i)]
  /\ t[Rank(A \cup {N + 1}, N + 1)] = e
Lessened(t, s, A, N) ==
  /\ s # <<>> /\ Top(s) = s[Rank(A, N)]
  /\ IsSequence(t) /\ Len(t) = Cardinality(A \ {N})
  /\ \A i \in A \ {N} : t[Rank(A \ {N}, i)] = s[Rank(A, i)]

LEMMA PlaceAdded ==
  ASSUME NEW N, NEW A, NEW s, Listed(s, A, N), NEW e
  PROVE  Lengthened(Append(s, e), s, A, N, e)
  <1> DEFINE B == A \cup {N + 1}
  <1> USE DEF Within, Listed
  <1>1. IsFiniteSet(A) /\ Cardinality(A) \in Nat
    BY RankFacts
  <1>2. Cardinality(B) = Cardinality(A) + 1
    <2>1. N + 1 \notin A
      OBVIOUS
    <2> QED
      BY <1>1, <2>1, CountUpdate
  <1>3. ASSUME NEW i \in A PROVE Rank(B, i) = Rank(A, i) /\ Rank(A, i) \in 1 .. Len(s)
    <2>1. B \cap (1 .. i) = A \cap (1 .. i)
      OBVIOUS
    <2>2. Rank(A, i) \in 1 .. Cardinality(A)
      BY NthFacts
    <2> QED
      BY <2>1, <2>2 DEF Rank
  <1>4. Rank(B, N + 1) = Len(s) + 1
    <2>1. \A i \in B : i \in 1 .. N + 1
      OBVIOUS
    <2> HIDE DEF B
    <2>2. B \cap (1 .. N + 1) = B
      BY <2>1
    <2> QED
      BY <1>2, <2>2 DEF Rank
  <1> HIDE DEF B
  <1>5. /\ IsSequence(Append(s, e)) /\ Len(Append(s, e)) = Len(s) + 1
        /\ \A i \in 1 .. Len(s) : Append(s, e)[i] = s[i]
        /\ Append(s, e)[Len(s) + 1] = e
    BY Appended
  <1>6. \A i \in A : Append(s, e)[Rank(B, i)] = s[Rank(A, i)]
    BY <1>3, <1>5
  <1> QED
    BY <1>2, <1>4, <1>5, <1>6 DEF B, Lengthened

LEMMA PlaceDropped ==
  ASSUME NEW N, NEW A, NEW s, Listed(s, A, N), N \in A
  PROVE  Lessened(Popped(s), s, A, N)
  <1> DEFINE B == A \ {N}
  <1> USE DEF Within, Listed
  <1>1. /\ IsFiniteSet(A) /\ Cardinality(A) \in Nat /\ Rank(A, N) = Cardinality(A)
    BY RankFacts
  <1>2. Cardinality(B) = Cardinality(A) - 1 /\ Cardinality(A) > 0
    BY <1>1, CountUpdate
  <1>3. ASSUME NEW i \in B PROVE Rank(B, i) = Rank(A, i) /\ Rank(A, i) \in 1 .. Len(s) - 1
    <2>1. B \cap (1 .. i) = A \cap (1 .. i)
      OBVIOUS
    <2>2. i \in A /\ i < N
      OBVIOUS
    <2>3. /\ \A j \in A : Rank(A, j) \in 1 .. Cardinality(A)
          /\ \A j \in A : j < N => Rank(A, j) < Rank(A, N)
      BY NthFacts
    <2>4. Rank(B, i) = Rank(A, i)
      BY <2>1 DEF Rank
    <2> QED
      BY <1>1, <2>2, <2>3, <2>4
  <1> HIDE DEF B
  <1>4. s # <<>>
    BY <1>2, EmptySeq
  <1>5. /\ IsSequence(Popped(s)) /\ Len(Popped(s)) = Len(s) - 1
        /\ \A i \in 1 .. Len(s) - 1 : Popped(s)[i] = s[i]
    BY <1>4, Shortened
  <1>6. \A i \in B : Popped(s)[Rank(B, i)] = s[Rank(A, i)]
    BY <1>3, <1>5
  <1> QED
    BY <1>1, <1>2, <1>4, <1>5, <1>6 DEF B, Top, Lessened

\* How the places change with the list of what is open.
LEMMA PlacesFacts ==
  ASSUME NEW open, IsSequence(open)
  PROVE  /\ \A kind : Of(open, kind) \in SUBSET (1 .. Len(open)) /\ Within(Of(open, kind), Len(open))
         /\ Len(open) \in Nat
  BY LengthFacts DEF Of, Within

LEMMA PlacesOpened ==
  ASSUME NEW open, IsSequence(open), NEW e
  PROVE  /\ IsSequence(Append(open, e)) /\ Len(Append(open, e)) = Len(open) + 1
         /\ Append(open, e)[Len(open) + 1] = e
         /\ \A i \in 1 .. Len(open) : Append(open, e)[i] = open[i]
         /\ Of(Append(open, e), e.kind) = Of(open, e.kind) \cup {Len(open) + 1}
         /\ \A kind : kind # e.kind => Of(Append(open, e), kind) = Of(open, kind)
  <1> DEFINE longer == Append(open, e)
  <1>1. /\ IsSequence(longer) /\ Len(longer) = Len(open) + 1 /\ Len(open) \in Nat
        /\ longer[Len(open) + 1] = e
        /\ \A i \in 1 .. Len(open) : longer[i] = open[i]
    BY Appended, LengthFacts
  <1> HIDE DEF longer
  <1>2. /\ Of(longer, e.kind) = Of(open, e.kind) \cup {Len(open) + 1}
        /\ \A kind : kind # e.kind => Of(longer, kind) = Of(open, kind)
    BY <1>1 DEF Of
  <1> QED
    BY <1>1, <1>2 DEF longer

LEMMA PlacesLeft ==
  ASSUME NEW open, IsSequence(open), open # <<>>
  PROVE  /\ IsSequence(Popped(open)) /\ Len(Popped(open)) = Len(open) - 1
         /\ Len(open) \in Of(open, Top(open).kind)
         /\ \A i \in 1 .. Len(open) - 1 : Popped(open)[i] = open[i]
         /\ Of(Popped(open), Top(open).kind) = Of(open, Top(open).kind) \ {Len(open)}
         /\ \A kind : kind # Top(open).kind => Of(Popped(open), kind) = Of(open, kind)
  <1> DEFINE shorter == Popped(open)
  <1>1. /\ IsSequence(shorter) /\ Len(shorter) = Len(open) - 1 /\ Len(open) \in Nat
        /\ Len(open) > 0
        /\ \A i \in 1 .. Len(open) - 1 : shorter[i] = open[i]
    BY Shortened, LengthFacts
  <1> HIDE DEF shorter
  <1>2. /\ Len(open) \in Of(open, Top(open).kind)
        /\ Of(shorter, Top(open).kind) = Of(open, Top(open).kind) \ {Len(open)}
        /\ \A kind : kind # Top(open).kind => Of(shorter, kind) = Of(open, kind)
    BY <1>1 DEF Of, Top
  <1> QED
    BY <1>1, <1>2 DEF shorter

\* What a frame holds when a try or a manager is opened, and when the newest of
\* them is left.
LEMMA TryHeld ==
  ASSUME NEW open, IsSequence(open), NEW order, NEW tries, NEW managers,
         HeldBy(open, order, tries, managers), NEW handler
  PROVE  HeldBy(Append(open, OpenTry(handler)), Append(order, "try"),
                Append(tries, handler), managers)
  <1> DEFINE e == OpenTry(handler)
             x == handler
             longer == Append(open, e)
             A == Of(open, "try")
             N == Len(open)
             s == Append(tries, x)
             B == A \cup {N + 1}
  <1>1. e.kind = "try" /\ x = e.handler
    BY DEF OpenTry
  <1> HIDE DEF e, x
  <1>2. /\ IsSequence(longer) /\ Len(longer) = N + 1 /\ longer[N + 1] = e
        /\ \A i \in 1 .. N : longer[i] = open[i]
        /\ Of(longer, e.kind) = Of(open, e.kind) \cup {N + 1}
        /\ \A kind : kind # e.kind => Of(longer, kind) = Of(open, kind)
    BY PlacesOpened
  <1>3. N \in Nat /\ A \in SUBSET (1 .. N) /\ Within(A, N) /\ Of(open, "with") \in SUBSET (1 .. N)
    BY PlacesFacts
  <1>4. IsSequence(tries) /\ Len(tries) = Cardinality(A)
    BY DEF HeldBy
  <1>5. \A i \in A : tries[Rank(A, i)] = open[i].handler
    BY DEF HeldBy
  <1> HIDE DEF longer
  <1>6. Of(longer, "try") = B /\ Of(longer, "with") = Of(open, "with")
    BY <1>1, <1>2
  <1>7. /\ IsSequence(Append(order, "try")) /\ Len(Append(order, "try")) = Len(longer)
        /\ \A i \in 1 .. Len(longer) : Append(order, "try")[i] = longer[i].kind
    <2>1. IsSequence(order) /\ Len(order) = N /\ \A i \in 1 .. N : order[i] = open[i].kind
      BY DEF HeldBy
    <2> QED
      BY <1>1, <1>2, <1>3, <2>1, Appended
  <1> HIDE DEF A, N
  <1>8. /\ IsSequence(s) /\ Len(s) = Cardinality(B)
        /\ \A i \in A : s[Rank(B, i)] = tries[Rank(A, i)]
        /\ s[Rank(B, N + 1)] = x
    <2>1. Listed(tries, A, N)
      BY <1>3, <1>4 DEF Listed
    <2> HIDE DEF s, B
    <2>2. Lengthened(Append(tries, x), tries, A, N, x)
      BY ONLY <2>1, PlaceAdded
    <2> QED
      BY <2>2 DEF Lengthened, s, B
  <1>9. \A i \in B : s[Rank(B, i)] = longer[i].handler
    <2> HIDE DEF s
    <2>1. \A i \in A : longer[i] = open[i]
      BY <1>2, <1>3
    <2> QED
      BY <1>1, <1>2, <1>5, <1>8, <2>1
  <1>10. \A i \in Of(open, "with") : longer[i] = open[i]
    BY <1>2, <1>3
  <1> HIDE DEF B, s
  <1>11. HeldBy(longer, Append(order, "try"), s, managers)
    <2>1. \A i \in Of(longer, "with") : longer[i] = open[i]
      BY <1>6, <1>10
    <2> QED
      BY <1>6, <1>7, <1>8, <1>9, <2>1 DEF HeldBy
  <1> QED
    BY <1>11 DEF longer, s, e, x

LEMMA ManagerHeld ==
  ASSUME NEW open, IsSequence(open), NEW order, NEW tries, NEW managers,
         HeldBy(open, order, tries, managers), NEW of, NEW manager
  PROVE  HeldBy(Append(open, OpenWith(manager)), Append(order, "with"),
                tries, Append(managers, Manager(of, manager)))
  <1> DEFINE e == OpenWith(manager)
             x == Manager(of, manager)
             longer == Append(open, e)
             A == Of(open, "with")
             N == Len(open)
             s == Append(managers, x)
             B == A \cup {N + 1}
  <1>1. e.kind = "with" /\ x.manager = e.manager
    BY DEF OpenWith, Manager
  <1> HIDE DEF e, x
  <1>2. /\ IsSequence(longer) /\ Len(longer) = N + 1 /\ longer[N + 1] = e
        /\ \A i \in 1 .. N : longer[i] = open[i]
        /\ Of(longer, e.kind) = Of(open, e.kind) \cup {N + 1}
        /\ \A kind : kind # e.kind => Of(longer, kind) = Of(open, kind)
    BY PlacesOpened
  <1>3. N \in Nat /\ A \in SUBSET (1 .. N) /\ Within(A, N) /\ Of(open, "try") \in SUBSET (1 .. N)
    BY PlacesFacts
  <1>4. IsSequence(managers) /\ Len(managers) = Cardinality(A)
    BY DEF HeldBy
  <1>5. \A i \in A : managers[Rank(A, i)].manager = open[i].manager
    BY DEF HeldBy
  <1> HIDE DEF longer
  <1>6. Of(longer, "with") = B /\ Of(longer, "try") = Of(open, "try")
    BY <1>1, <1>2
  <1>7. /\ IsSequence(Append(order, "with")) /\ Len(Append(order, "with")) = Len(longer)
        /\ \A i \in 1 .. Len(longer) : Append(order, "with")[i] = longer[i].kind
    <2>1. IsSequence(order) /\ Len(order) = N /\ \A i \in 1 .. N : order[i] = open[i].kind
      BY DEF HeldBy
    <2> QED
      BY <1>1, <1>2, <1>3, <2>1, Appended
  <1> HIDE DEF A, N
  <1>8. /\ IsSequence(s) /\ Len(s) = Cardinality(B)
        /\ \A i \in A : s[Rank(B, i)] = managers[Rank(A, i)]
        /\ s[Rank(B, N + 1)] = x
    <2>1. Listed(managers, A, N)
      BY <1>3, <1>4 DEF Listed
    <2> HIDE DEF s, B
    <2>2. Lengthened(Append(managers, x), managers, A, N, x)
      BY ONLY <2>1, PlaceAdded
    <2> QED
      BY <2>2 DEF Lengthened, s, B
  <1>9. \A i \in B : s[Rank(B, i)].manager = longer[i].manager
    <2> HIDE DEF s
    <2>1. \A i \in A : longer[i] = open[i]
      BY <1>2, <1>3
    <2> QED
      BY <1>1, <1>2, <1>5, <1>8, <2>1
  <1>10. \A i \in Of(open, "try") : longer[i] = open[i]
    BY <1>2, <1>3
  <1> HIDE DEF B, s
  <1>11. HeldBy(longer, Append(order, "with"), tries, s)
    <2>1. \A i \in Of(longer, "try") : longer[i] = open[i]
      BY <1>6, <1>10
    <2> QED
      BY <1>6, <1>7, <1>8, <1>9, <2>1 DEF HeldBy
  <1> QED
    BY <1>11 DEF longer, s, e, x

LEMMA NewestHeld ==
  ASSUME NEW open, IsSequence(open), NEW order, NEW tries, NEW managers,
         HeldBy(open, order, tries, managers)
  PROVE  /\ order = <<>> <=> open = <<>>
         /\ open # <<>> => Top(order) = Top(open).kind
  <1>1. Len(open) \in Nat /\ (open # <<>> => Len(open) > 0)
    BY LengthFacts
  <1>2. Len(order) = Len(open) /\ (order # <<>> => Len(order) > 0)
    BY LengthFacts DEF HeldBy
  <1>3. /\ open = <<>> => Len(open) = 0
        /\ order = <<>> => Len(order) = 0
    BY EmptySeq
  <1>4. open # <<>> => order[Len(open)] = open[Len(open)].kind
    BY <1>1 DEF HeldBy
  <1> QED
    BY <1>1, <1>2, <1>3, <1>4 DEF Top

LEMMA OrderLeft ==
  ASSUME NEW open, IsSequence(open), open # <<>>, NEW order, NEW tries, NEW managers,
         HeldBy(open, order, tries, managers)
  PROVE  /\ IsSequence(Popped(order)) /\ Len(Popped(order)) = Len(Popped(open))
         /\ \A i \in 1 .. Len(Popped(open)) : Popped(order)[i] = Popped(open)[i].kind
  <1>1. /\ Len(open) \in Nat /\ Len(Popped(open)) = Len(open) - 1
        /\ \A i \in 1 .. Len(open) - 1 : Popped(open)[i] = open[i]
    BY LengthFacts, PlacesLeft
  <1>2. order # <<>> /\ IsSequence(order) /\ Len(order) = Len(open)
        /\ \A i \in 1 .. Len(open) : order[i] = open[i].kind
    BY NewestHeld DEF HeldBy
  <1>3. /\ IsSequence(Popped(order)) /\ Len(Popped(order)) = Len(order) - 1
        /\ \A i \in 1 .. Len(order) - 1 : Popped(order)[i] = order[i]
    BY <1>2, Shortened
  <1> QED
    BY <1>1, <1>2, <1>3

LEMMA TryLeft ==
  ASSUME NEW open, IsSequence(open), open # <<>>, Top(open).kind = "try",
         NEW order, NEW tries, NEW managers, HeldBy(open, order, tries, managers)
  PROVE  /\ tries # <<>> /\ Top(tries) = Top(open).handler
         /\ HeldBy(Popped(open), Popped(order), Popped(tries), managers)
  <1> DEFINE shorter == Popped(open)
             A == Of(open, "try")
             N == Len(open)
             s == Popped(tries)
             B == A \ {N}
  <1>1. /\ IsSequence(shorter) /\ Len(shorter) = N - 1 /\ N \in A
        /\ \A i \in 1 .. N - 1 : shorter[i] = open[i]
        /\ Of(shorter, Top(open).kind) = Of(open, Top(open).kind) \ {N}
        /\ \A kind : kind # Top(open).kind => Of(shorter, kind) = Of(open, kind)
    BY PlacesLeft
  <1>2. Of(shorter, "try") = B /\ Of(shorter, "with") = Of(open, "with")
    BY <1>1
  <1>3. N \in Nat /\ A \in SUBSET (1 .. N) /\ Within(A, N)
    BY PlacesFacts
  <1>4. Of(open, "with") \in SUBSET (1 .. N - 1)
    BY LengthFacts DEF Of, Top
  <1>5. IsSequence(tries) /\ Len(tries) = Cardinality(A)
    BY DEF HeldBy
  <1>6. \A i \in A : tries[Rank(A, i)] = open[i].handler
    BY DEF HeldBy
  <1>7. /\ IsSequence(Popped(order)) /\ Len(Popped(order)) = Len(shorter)
        /\ \A i \in 1 .. Len(shorter) : Popped(order)[i] = shorter[i].kind
    BY OrderLeft
  <1> HIDE DEF shorter, A, N
  <1>8. /\ tries # <<>> /\ Top(tries) = tries[Rank(A, N)]
        /\ IsSequence(s) /\ Len(s) = Cardinality(B)
        /\ \A i \in B : s[Rank(B, i)] = tries[Rank(A, i)]
    <2>1. Listed(tries, A, N) /\ N \in A
      BY <1>1, <1>3, <1>5 DEF Listed
    <2> HIDE DEF s, B
    <2>2. Lessened(Popped(tries), tries, A, N)
      BY ONLY <2>1, PlaceDropped
    <2> QED
      BY <2>2 DEF Lessened, s, B
  <1> HIDE DEF s
  <1>9. \A i \in B : i \in A /\ shorter[i] = open[i]
    BY <1>1, <1>3
  <1>10. \A i \in B : s[Rank(B, i)] = shorter[i].handler
    BY <1>6, <1>8, <1>9
  <1>11. \A i \in Of(shorter, "with") : shorter[i] = open[i]
    BY <1>1, <1>2, <1>4
  <1> HIDE DEF B
  <1>12. HeldBy(shorter, Popped(order), s, managers)
    BY <1>2, <1>7, <1>8, <1>10, <1>11 DEF HeldBy
  <1>13. Top(tries) = Top(open).handler
    BY <1>1, <1>6, <1>8 DEF Top, N
  <1> QED
    BY <1>8, <1>12, <1>13 DEF shorter, s

LEMMA ManagerLeft ==
  ASSUME NEW open, IsSequence(open), open # <<>>, Top(open).kind = "with",
         NEW order, NEW tries, NEW managers, HeldBy(open, order, tries, managers)
  PROVE  /\ managers # <<>> /\ Top(managers).manager = Top(open).manager
         /\ HeldBy(Popped(open), Popped(order), tries, Popped(managers))
  <1> DEFINE shorter == Popped(open)
             A == Of(open, "with")
             N == Len(open)
             s == Popped(managers)
             B == A \ {N}
  <1>1. /\ IsSequence(shorter) /\ Len(shorter) = N - 1 /\ N \in A
        /\ \A i \in 1 .. N - 1 : shorter[i] = open[i]
        /\ Of(shorter, Top(open).kind) = Of(open, Top(open).kind) \ {N}
        /\ \A kind : kind # Top(open).kind => Of(shorter, kind) = Of(open, kind)
    BY PlacesLeft
  <1>2. Of(shorter, "with") = B /\ Of(shorter, "try") = Of(open, "try")
    BY <1>1
  <1>3. N \in Nat /\ A \in SUBSET (1 .. N) /\ Within(A, N)
    BY PlacesFacts
  <1>4. Of(open, "try") \in SUBSET (1 .. N - 1)
    BY LengthFacts DEF Of, Top
  <1>5. IsSequence(managers) /\ Len(managers) = Cardinality(A)
    BY DEF HeldBy
  <1>6. \A i \in A : managers[Rank(A, i)].manager = open[i].manager
    BY DEF HeldBy
  <1>7. /\ IsSequence(Popped(order)) /\ Len(Popped(order)) = Len(shorter)
        /\ \A i \in 1 .. Len(shorter) : Popped(order)[i] = shorter[i].kind
    BY OrderLeft
  <1> HIDE DEF shorter, A, N
  <1>8. /\ managers # <<>> /\ Top(managers) = managers[Rank(A, N)]
        /\ IsSequence(s) /\ Len(s) = Cardinality(B)
        /\ \A i \in B : s[Rank(B, i)] = managers[Rank(A, i)]
    <2>1. Listed(managers, A, N) /\ N \in A
      BY <1>1, <1>3, <1>5 DEF Listed
    <2> HIDE DEF s, B
    <2>2. Lessened(Popped(managers), managers, A, N)
      BY ONLY <2>1, PlaceDropped
    <2> QED
      BY <2>2 DEF Lessened, s, B
  <1> HIDE DEF s
  <1>9. \A i \in B : i \in A /\ shorter[i] = open[i]
    BY <1>1, <1>3
  <1>10. \A i \in B : s[Rank(B, i)].manager = shorter[i].manager
    BY <1>6, <1>8, <1>9
  <1>11. \A i \in Of(shorter, "try") : shorter[i] = open[i]
    BY <1>1, <1>2, <1>4
  <1> HIDE DEF B
  <1>12. HeldBy(shorter, Popped(order), tries, s)
    BY <1>2, <1>7, <1>8, <1>10, <1>11 DEF HeldBy
  <1>13. Top(managers).manager = Top(open).manager
    BY <1>1, <1>6, <1>8 DEF Top, N
  <1> QED
    BY <1>8, <1>12, <1>13 DEF shorter, s

\* What is open outside of one that is not the newest is what was open outside of
\* it before the newest was left.
LEMMA OutsideFacts ==
  ASSUME NEW open, IsSequence(open), NEW k \in 1 .. Len(open)
  PROVE  /\ IsSequence(Outside(open, k)) /\ Len(Outside(open, k)) = k - 1
         /\ \A i \in 1 .. k - 1 : Outside(open, k)[i] = open[i]
  <1> DEFINE S == {open[i] : i \in DOMAIN open}
             t == SubSeq(open, 1, k - 1)
  <1>1. Len(open) \in Nat /\ DOMAIN open = 1 .. Len(open)
    BY LengthFacts
  <1>2. 1 \in Int /\ k - 1 \in Int /\ k - 1 >= 0 /\ \A i \in 1 .. k - 1 : open[i] \in S
    BY <1>1
  <1> HIDE DEF S
  <1>3. /\ t \in Seq(S) /\ Len(t) = IF 1 <= k - 1 THEN k - 1 - 1 + 1 ELSE 0
        /\ \A i \in 1 .. k - 1 - 1 + 1 : t[i] = open[1 + i - 1]
    BY <1>2, SubSeqProperties
  <1> HIDE DEF t
  <1>4. Len(t) = k - 1
    BY <1>2, <1>3
  <1>5. \A i \in 1 .. k - 1 : t[i] = open[i]
    BY <1>2, <1>3
  <1>6. IsSequence(t)
    BY <1>3, SequenceFacts
  <1> QED
    BY <1>4, <1>5, <1>6 DEF t, Outside

LEMMA OutsidePopped ==
  ASSUME NEW open, IsSequence(open), open # <<>>
  PROVE  /\ Outside(open, Len(open)) = Popped(open)
         /\ \A k \in 1 .. Len(open) - 1 : Outside(Popped(open), k) = Outside(open, k)
  <1>1. Len(open) \in Nat /\ Len(open) > 0
    BY LengthFacts
  <1>2. /\ IsSequence(Popped(open)) /\ Len(Popped(open)) = Len(open) - 1
        /\ \A i \in 1 .. Len(open) - 1 : Popped(open)[i] = open[i]
    BY PlacesLeft
  <1>3. ASSUME NEW k \in 1 .. Len(open) - 1
        PROVE  Outside(Popped(open), k) = Outside(open, k)
    <2> DEFINE p == Popped(open)
               s == Outside(p, k)
               t == Outside(open, k)
    <2>1. IsSequence(p) /\ k \in 1 .. Len(p) /\ k \in 1 .. Len(open) /\ Len(open) \in Nat
      BY <1>1, <1>2
    <2>2. \A i \in 1 .. k - 1 : p[i] = open[i]
      BY <1>1, <1>2
    <2> HIDE DEF p
    <2>3. IsSequence(s) /\ Len(s) = k - 1 /\ \A i \in 1 .. k - 1 : s[i] = p[i]
      BY <2>1, OutsideFacts
    <2>4. IsSequence(t) /\ Len(t) = k - 1 /\ \A i \in 1 .. k - 1 : t[i] = open[i]
      BY <2>1, OutsideFacts
    <2> HIDE DEF s, t
    <2>5. s = t
      BY <2>2, <2>3, <2>4, SameSequence
    <2> QED
      BY <2>5 DEF s, t, p
  <1> QED
    BY <1>3 DEF Outside, Popped

\* When the newest that is open is a manager, those after another one are
\* managers if they are with it gone.
LEMMA ManagersPopped ==
  ASSUME NEW open, IsSequence(open), open # <<>>, Top(open).kind = "with",
         NEW k \in 1 .. Len(open) - 1
  PROVE  ManagersAfter(open, k) <=> ManagersAfter(Popped(open), k)
  <1>1. Len(open) \in Nat
    BY LengthFacts
  <1>2. /\ Len(Popped(open)) = Len(open) - 1
        /\ \A i \in 1 .. Len(open) - 1 : Popped(open)[i] = open[i]
    BY PlacesLeft
  <1> QED
    BY <1>1, <1>2 DEF ManagersAfter, Top

\* Every target is one of these two.
LEMMA UnwoundFacts ==
  ASSUME NEW c, NEW from, NEW n, NEW open
  PROVE  /\ \A k \in 1 .. Len(open) : open[k].kind = "try" /\ ManagersAfter(open, k) =>
              <<open[k].handler, Outside(open, k)>> \in Unwound(c, from, n, open)
         /\ \A k \in 1 .. Len(open) :
              open[k].kind = "with" /\ Suppresses \in open[k].manager /\ ManagersAfter(open, k) =>
                <<After(c, from, n + 1 + Len(open) - k), Outside(open, k)>> \in
                    Unwound(c, from, n, open)
         /\ \A to \in Unwound(c, from, n, open) :
              \E k \in 1 .. Len(open) :
                \/ open[k].kind = "try" /\ ManagersAfter(open, k)
                   /\ to = <<open[k].handler, Outside(open, k)>>
                \/ open[k].kind = "with" /\ Suppresses \in open[k].manager
                   /\ ManagersAfter(open, k)
                   /\ to = <<After(c, from, n + 1 + Len(open) - k), Outside(open, k)>>
  BY DEF Unwound

LEMMA UnwoundNothing ==
  ASSUME NEW c, NEW from, NEW n, NEW open,
         \A k \in 1 .. Len(open) : open[k].kind = "with" /\ Suppresses \notin open[k].manager
  PROVE  Unwound(c, from, n, open) = {}
  BY UnwoundFacts, "with" # "try"

\* With one manager more exited, an exception goes on where it could go.
LEMMA UnwoundFurther ==
  ASSUME NEW c, NEW from, NEW n \in Nat,
         NEW open, IsSequence(open), open # <<>>, Top(open).kind = "with"
  PROVE  Unwound(c, from, n + 1, Popped(open)) \subseteq Unwound(c, from, n, open)
  <1> DEFINE shorter == Popped(open)
  <1>1. /\ Len(open) \in Nat /\ Len(shorter) = Len(open) - 1
        /\ \A i \in 1 .. Len(open) - 1 : shorter[i] = open[i]
    BY LengthFacts, PlacesLeft
  <1>2. \A k \in 1 .. Len(open) - 1 : Outside(shorter, k) = Outside(open, k)
    BY OutsidePopped
  <1>3. \A k \in 1 .. Len(open) - 1 : ManagersAfter(shorter, k) <=> ManagersAfter(open, k)
    BY ManagersPopped
  <1> HIDE DEF shorter
  <1> SUFFICES ASSUME NEW to \in Unwound(c, from, n + 1, shorter)
               PROVE  to \in Unwound(c, from, n, open)
    BY DEF shorter
  <1>4. PICK k \in 1 .. Len(shorter) :
          \/ shorter[k].kind = "try" /\ ManagersAfter(shorter, k)
             /\ to = <<shorter[k].handler, Outside(shorter, k)>>
          \/ shorter[k].kind = "with" /\ Suppresses \in shorter[k].manager
             /\ ManagersAfter(shorter, k)
             /\ to = <<After(c, from, n + 1 + 1 + Len(shorter) - k), Outside(shorter, k)>>
    BY DEF Unwound
  <1>5. /\ k \in 1 .. Len(open) /\ k \in 1 .. Len(open) - 1
        /\ n + 1 + 1 + Len(shorter) - k = n + 1 + Len(open) - k
    BY <1>1
  <1>6. /\ shorter[k] = open[k] /\ Outside(shorter, k) = Outside(open, k)
        /\ ManagersAfter(open, k) <=> ManagersAfter(shorter, k)
    BY <1>1, <1>2, <1>3, <1>5
  <1>7. CASE shorter[k].kind = "try" /\ ManagersAfter(shorter, k)
             /\ to = <<shorter[k].handler, Outside(shorter, k)>>
    BY <1>5, <1>6, <1>7, UnwoundFacts
  <1>8. CASE shorter[k].kind = "with" /\ Suppresses \in shorter[k].manager
             /\ ManagersAfter(shorter, k)
             /\ to = <<After(c, from, n + 1 + 1 + Len(shorter) - k), Outside(shorter, k)>>
    <2>1. open[k].kind = "with" /\ Suppresses \in open[k].manager /\ ManagersAfter(open, k)
      BY <1>6, <1>8
    <2>2. <<After(c, from, n + 1 + Len(open) - k), Outside(open, k)>> \in Unwound(c, from, n, open)
      BY <1>5, <2>1, UnwoundFacts
    <2> QED
      BY <1>5, <1>6, <1>8, <2>2
  <1> QED
    BY <1>4, <1>7, <1>8

\* Where an exception goes first: the newest handler; or past the newest manager.
LEMMA UnwoundFirst ==
  ASSUME NEW c, NEW from, NEW n \in Nat, NEW open, IsSequence(open), open # <<>>
  PROVE  /\ Top(open).kind = "try" =>
              <<Top(open).handler, Popped(open)>> \in Unwound(c, from, n, open)
         /\ Top(open).kind = "with" /\ Suppresses \in Top(open).manager =>
              <<After(c, from, n + 1), Popped(open)>> \in Unwound(c, from, n, open)
  <1> DEFINE k == Len(open)
  <1>1. k \in Nat /\ k \in 1 .. Len(open) /\ n + 1 + Len(open) - k = n + 1
    BY LengthFacts
  <1>2. Outside(open, k) = Popped(open) /\ open[k] = Top(open)
    BY OutsidePopped DEF Top
  <1>3. ManagersAfter(open, k)
    BY <1>1 DEF ManagersAfter
  <1> HIDE DEF k
  <1> QED
    BY <1>1, <1>2, <1>3, UnwoundFacts

\* Where an instruction leads, when the record reaches all of its targets.
Onward(record, targets) == \A to \in targets : Reaches(record, to)
Plain == {"DO", "TEST", "LOAD_CONST", "POP_TOP", "STORE_NAME", "GET_ITER", "FOR_ITER",
          "MATCH_EXCEPTION_CHECK", "YIELD_VALUE", "AWAIT"}

LEMMA Targets ==
  ASSUME NEW c, NEW a, NEW open, NEW record, Onward(record, GoesTo(c, a, open))
  PROVE  /\ c[a].op \in Plain => Reaches(record, <<a + 1, open>>)
         /\ c[a].op \in {"TEST", "JUMP", "FOR_ITER", "MATCH_EXCEPTION_CHECK"} =>
              Reaches(record, <<c[a].arg, open>>)
         /\ c[a].op \in {"DO", "TEST", "POP_TOP", "STORE_NAME", "GET_ITER", "FOR_ITER", "RAISE"} =>
              Onward(record, Unwound(c, a + 1, 0, open))
         /\ c[a].op = "WITH_ENTER" =>
              Reaches(record, <<a + 1, Append(open, OpenWith(c[a].spec))>>)
         /\ c[a].op = "WITH_ENTER" /\ FailsToEnter \in c[a].spec =>
              Onward(record, Unwound(c, a + 1, 0, Append(open, OpenWith(c[a].spec))))
         /\ c[a].op = "TRY_BEGIN" =>
              Reaches(record, <<a + 1, Append(open, OpenTry(c[a].arg))>>)
         /\ c[a].op \in {"WITH_EXIT", "TRY_END"} => Reaches(record, <<a + 1, Popped(open)>>)
         /\ c[a].op = "WITH_EXIT" /\ Len(open) \in Failing(open) =>
              Onward(record, Unwound(c, a + 1, 0, Popped(open)))
         /\ c[a].op = "RETURN" =>
              \A k \in Failing(open) : Onward(record, Unwound(c, a + 1, 0, Outside(open, k)))
         /\ c[a].op = "YIELD_VALUE" => Onward(record, Unwound(c, a + 2, 0, open))
  <1> DEFINE targets == GoesTo(c, a, open)
             op == c[a].op
             entered == Append(open, OpenWith(c[a].spec))
  <1>1. ASSUME NEW T, T \subseteq targets PROVE Onward(record, T)
    BY <1>1 DEF Onward
  <1>2. ASSUME NEW x, x \in targets PROVE Reaches(record, x)
    BY <1>2 DEF Onward
  <1>3. /\ op \in Plain => <<a + 1, open>> \in targets
        /\ op \in {"TEST", "JUMP", "FOR_ITER", "MATCH_EXCEPTION_CHECK"} =>
             <<c[a].arg, open>> \in targets
    BY DEF GoesTo, Plain
  <1>4. op \in {"DO", "TEST", "POP_TOP", "STORE_NAME", "GET_ITER", "FOR_ITER", "RAISE"} =>
          Unwound(c, a + 1, 0, open) \subseteq targets
    BY DEF GoesTo
  <1>5. /\ op = "WITH_ENTER" => <<a + 1, entered>> \in targets
        /\ op = "WITH_ENTER" /\ FailsToEnter \in c[a].spec =>
             Unwound(c, a + 1, 0, entered) \subseteq targets
    BY DEF GoesTo
  <1>6. op = "TRY_BEGIN" => <<a + 1, Append(open, OpenTry(c[a].arg))>> \in targets
    BY DEF GoesTo
  <1>7. /\ op \in {"WITH_EXIT", "TRY_END"} => <<a + 1, Popped(open)>> \in targets
        /\ op = "WITH_EXIT" /\ Len(open) \in Failing(open) =>
             Unwound(c, a + 1, 0, Popped(open)) \subseteq targets
    BY DEF GoesTo
  <1>8. op = "RETURN" =>
          \A k \in Failing(open) : Unwound(c, a + 1, 0, Outside(open, k)) \subseteq targets
    BY DEF GoesTo
  <1>9. op = "YIELD_VALUE" => Unwound(c, a + 2, 0, open) \subseteq targets
    BY DEF GoesTo
  <1> HIDE DEF targets, entered
  <1>10. op = "RETURN" =>
           \A k \in Failing(open) : Onward(record, Unwound(c, a + 1, 0, Outside(open, k)))
    BY <1>1, <1>8
  <1>11. op = "WITH_ENTER" /\ FailsToEnter \in c[a].spec =>
           Onward(record, Unwound(c, a + 1, 0, entered))
    BY <1>1, <1>5
  <1>12. op = "WITH_ENTER" => Reaches(record, <<a + 1, entered>>)
    BY <1>2, <1>5
  <1> QED
    BY <1>1, <1>2, <1>3, <1>4, <1>6, <1>7, <1>9, <1>10, <1>11, <1>12 DEF entered

\* What is on a value stack, whatever was done to it.
Shape(s) ==
  /\ IsSequence(s)
  /\ \A i \in 1 .. Len(s) :
       /\ s[i].kind \in {"iterator", "context", "exception", "value"}
       /\ s[i].kind = "exception" => s[i].of # NoError
Fit(e) ==
  /\ e.kind \in {"iterator", "context", "exception", "value"}
  /\ e.kind = "exception" => e.of # NoError

LEMMA ShapeEmpty == Shape(<<>>)
  <1>1. <<>> \in Seq({})
    BY EmptySeq
  <1>2. IsSequence(<<>>) /\ Len(<<>>) = 0
    BY <1>1, SequenceFacts
  <1> QED
    BY <1>2 DEF Shape

LEMMA ShapeTop ==
  ASSUME NEW s, Shape(s), s # <<>>
  PROVE  Fit(Top(s))
  <1>1. Len(s) \in Nat /\ Len(s) > 0
    BY LengthFacts DEF Shape
  <1> QED
    BY <1>1 DEF Shape, Fit, Top

LEMMA ShapeAdded ==
  ASSUME NEW s, Shape(s), NEW e, Fit(e)
  PROVE  Shape(Append(s, e))
  <1> DEFINE t == Append(s, e)
  <1>1. /\ IsSequence(t) /\ Len(t) = Len(s) + 1 /\ Len(s) \in Nat
        /\ \A i \in 1 .. Len(s) : t[i] = s[i]
        /\ t[Len(s) + 1] = e
    BY Appended, LengthFacts DEF Shape
  <1> HIDE DEF t
  <1>2. Shape(t)
    BY <1>1 DEF Shape, Fit
  <1> QED
    BY <1>2 DEF t

LEMMA ShapeDropped ==
  ASSUME NEW s, Shape(s), s # <<>>
  PROVE  Shape(Popped(s))
  <1> DEFINE t == Popped(s)
  <1>1. /\ IsSequence(t) /\ Len(t) = Len(s) - 1 /\ Len(s) \in Nat
        /\ \A i \in 1 .. Len(s) - 1 : t[i] = s[i]
    BY Shortened, LengthFacts DEF Shape
  <1> HIDE DEF t
  <1>2. Shape(t)
    BY <1>1 DEF Shape
  <1> QED
    BY <1>2 DEF t

LEMMA ShapePopped ==
  ASSUME NEW s, Shape(s)
  PROVE  Shape(Popped(s))
  <1>1. CASE s # <<>>
    BY <1>1, ShapeDropped
  <1>2. CASE s = <<>>
    <2> DEFINE t == SubSeq(<<>>, 1, 0 - 1)
    <2>1. Len(<<>>) = 0
      BY EmptySeq
    <2>2. t = <<>>
      BY SubSeqEmpty
    <2> QED
      BY <1>2, <2>1, <2>2 DEF Popped
  <1> QED
    BY <1>1, <1>2

LEMMA ShapeReplaced ==
  ASSUME NEW s, Shape(s), s # <<>>, NEW e, Fit(e)
  PROVE  Shape([s EXCEPT ![Len(s)] = e])
  <1> DEFINE S == {s[i] : i \in DOMAIN s} \cup {e}
             n == Len(s)
             t == [s EXCEPT ![n] = e]
  <1>1. s \in Seq(S) /\ e \in S
    BY SeqMonotonic DEF IsSequence, Shape
  <1>2. n \in Nat /\ n \in 1 .. Len(s)
    BY LengthFacts DEF Shape
  <1> HIDE DEF S, n
  <1>3. /\ t \in Seq(S) /\ Len(t) = Len(s)
        /\ \A j \in 1 .. Len(s) : t[j] = IF j = n THEN e ELSE s[j]
    BY <1>1, <1>2, ExceptSeq
  <1> HIDE DEF t
  <1>4. IsSequence(t)
    BY <1>3, SequenceFacts
  <1>5. Shape(t)
    BY <1>3, <1>4 DEF Shape, Fit
  <1> QED
    BY <1>5 DEF t, n

LEMMA ShapeStep == Shape(stack) /\ [Next]_vars => Shape(stack')
  <1> SUFFICES ASSUME Shape(stack), [Next]_vars PROVE Shape(stack')
    OBVIOUS
  <1>1. Fit(Value) /\ (\A of : Fit(Context(of))) /\ (\A of, left : Fit(Iterator(of, left)))
    BY DEF Fit, Value, Context, Iterator
  <1>2. CASE UNCHANGED stack
    BY <1>2
  <1>3. CASE stack' = <<>>
    BY <1>3, ShapeEmpty
  <1>4. CASE stack' = Popped(stack)
    BY <1>4, ShapePopped
  <1>5. CASE \E e : Fit(e) /\ stack' = Append(stack, e)
    BY <1>5, ShapeAdded
  <1>6. CASE ExecuteDo \/ ExecuteTest \/ ExecutePopTop \/ ExecuteJump \/ ExecuteWithExit
             \/ ExecuteTryBegin \/ ExecuteTryEnd \/ ExecuteRaise \/ ExecuteMatch \/ ExecuteReturn
             \/ DrainContext \/ Leave \/ ExecuteYield \/ Throw \/ Uncaught
    BY <1>2, <1>4, <1>6
    DEF ExecuteDo, ExecuteTest, ExecutePopTop, ExecuteJump, ExecuteWithExit, ExecuteTryBegin,
        ExecuteTryEnd, ExecuteRaise, ExecuteMatch, ExecuteReturn, DrainContext, Leave,
        ExecuteYield, Throw, Uncaught, Escape
  <1>7. CASE ExecuteLoadConst
    BY <1>1, <1>5, <1>7 DEF ExecuteLoadConst
  <1>8. CASE ExecuteGetIter
    BY <1>1, <1>2, <1>5, <1>8 DEF ExecuteGetIter
  <1>9. CASE ExecuteWithEnter
    BY <1>1, <1>5, <1>9 DEF ExecuteWithEnter
  <1>10. CASE ExecuteForIter
    <2>1. CASE stack # <<>> /\ stack' = [stack EXCEPT ![Len(stack)] = Iterator(Top(stack).of, Top(stack).left - 1)]
      <3> DEFINE e == Iterator(Top(stack).of, Top(stack).left - 1)
      <3>1. Fit(e)
        BY <1>1
      <3> HIDE DEF e
      <3>2. Shape([stack EXCEPT ![Len(stack)] = e])
        BY <2>1, <3>1, ShapeReplaced
      <3> QED
        BY <2>1, <3>2 DEF e
    <2> QED
      BY <1>2, <1>4, <1>10, <2>1 DEF ExecuteForIter
  <1>11. CASE ExecuteAwait \/ ResumeAwait
    <2>1. UNCHANGED stack \/ stack' = Append(stack, Value)
      BY <1>11 DEF ExecuteAwait, ResumeAwait, Drive, FailsToStart
    <2> QED
      BY <1>1, <1>2, <1>5, <2>1
  <1>12. CASE Resume
    <2>1. stack \o <<>> = stack /\ stack \o <<Value>> = Append(stack, Value)
      <3> DEFINE S == {stack[i] : i \in DOMAIN stack} \cup {Value}
      <3>1. stack \in Seq(S) /\ Value \in S
        BY SeqMonotonic DEF IsSequence, Shape
      <3> HIDE DEF S
      <3> QED
        BY <3>1, ConcatEmptySeq, AppendIsConcat
    <2>2. stack' = stack \o <<>> \/ stack' = stack \o <<Value>>
      BY <1>12 DEF Resume, Sent
    <2> QED
      BY <1>1, <1>2, <1>5, <2>1, <2>2
  <1>13. CASE Catch
    <2>1. UNCHANGED stack \/ stack' = <<Exception(raised)>>
      BY <1>13 DEF Catch, Escape
    <2>2. raised # NoError
      BY <1>13 DEF Catch, Dispatching
    <2>3. Shape(<<Exception(raised)>>)
      <3>1. Fit(Exception(raised))
        BY <2>2 DEF Fit, Exception
      <3>2. Shape(Append(<<>>, Exception(raised)))
        BY <3>1, ShapeEmpty, ShapeAdded
      <3>3. Append(<<>>, Exception(raised)) = <<Exception(raised)>>
        OBVIOUS
      <3> QED
        BY <3>2, <3>3
    <2> QED
      BY <1>2, <2>1, <2>3
  <1>14. CASE UnwindContext
    <2>1. UNCHANGED stack \/ stack' = <<>>
      BY <1>14 DEF UnwindContext, Escape
    <2> QED
      BY <1>2, <1>3, <2>1
  <1>15. CASE UNCHANGED vars
    BY <1>2, <1>15 DEF vars
  <1> QED
    BY <1>6, <1>7, <1>8, <1>9, <1>10, <1>11, <1>12, <1>13, <1>14, <1>15 DEF Next

\* What is under way at the same time, and what is not.
Modes ==
  /\ program \in DOMAIN Functions
  /\ unwound_with \in Nat
  /\ raised # NoError => returning = NoValue /\ ~suspended
  /\ suspended \/ awaiting # NoAwait => returning = NoValue

LEMMA ErrorsFacts ==
  ASSUME NEW result \in Errors
  PROVE  result \notin {NoError, "ok", "go", "stop", "item", "suspend", "done", "suppress"}
  BY ErrorsAssumption

LEMMA ModesStep == Modes /\ [Next]_vars => Modes'
  <1> SUFFICES ASSUME Modes, [Next]_vars PROVE Modes'
    OBVIOUS
  <1> USE DEF Modes
  <1>1. CASE ExecuteDo \/ ExecuteTest \/ ExecuteLoadConst \/ ExecutePopTop \/ ExecuteJump
             \/ ExecuteGetIter \/ ExecuteForIter
    BY <1>1 DEF ExecuteDo, ExecuteTest, ExecuteLoadConst, ExecutePopTop, ExecuteJump,
       ExecuteGetIter, ExecuteForIter, Executes, Runs, Raise, Proceed, GoesOn
  <1>2. CASE ExecuteWithEnter \/ ExecuteWithExit \/ ExecuteTryBegin \/ ExecuteTryEnd \/ ExecuteRaise
             \/ ExecuteMatch \/ ExecuteReturn \/ ExecuteYield
    BY <1>2 DEF ExecuteWithEnter, ExecuteWithExit, ExecuteTryBegin, ExecuteTryEnd, ExecuteRaise,
       ExecuteMatch, ExecuteReturn, ExecuteYield, Executes, Runs, Raise, Proceed, GoesOn
  <1>3. CASE DrainContext
    BY <1>3 DEF DrainContext, Runs
  <1>4. CASE Leave \/ Resume
    BY <1>4 DEF Leave, Resume, Runs
  <1>5. CASE Throw
    BY <1>5 DEF Throw
  <1>6. CASE ExecuteAwait \/ ResumeAwait
    <2>1. UNCHANGED <<program, returning>> /\ returning = NoValue
      BY <1>6 DEF ExecuteAwait, ResumeAwait, Executes, Runs
    <2>2. CASE ExecuteAwait /\ FailsToStart(here.of)
      <3>1. /\ suspended' = suspended /\ unwound_with' = 0
        BY <2>2 DEF FailsToStart, Raise, GoesOn
      <3>2. ~suspended
        BY <2>2 DEF ExecuteAwait, Executes, Runs
      <3> QED
        BY <2>1, <3>1, <3>2
    <2>3. ASSUME NEW of, Drive(of)
          PROVE  (raised' # NoError => ~suspended') /\ unwound_with' \in Nat
      <3>1. PICK result \in Errors \cup {"suspend", "done"} :
              /\ suspended' = (result = "suspend")
              /\ raised' = IF result \in Errors THEN result ELSE NoError
              /\ unwound_with' = IF result \in Errors THEN 0 ELSE unwound_with
        BY <2>3 DEF Drive
      <3>2. result \in Errors => result # "suspend"
        BY ErrorsFacts
      <3>3. raised' # NoError => ~suspended'
        BY <3>1, <3>2
      <3> QED
        BY <3>1, <3>3
    <2> QED
      BY <1>6, <2>1, <2>2, <2>3 DEF ExecuteAwait, ResumeAwait
  <1>7. CASE Uncaught \/ Catch \/ UnwindContext
    BY <1>7 DEF Uncaught, Catch, UnwindContext, Dispatching, Escape
  <1>8. CASE UNCHANGED vars
    BY <1>8 DEF vars
  <1> QED
    BY <1>1, <1>2, <1>3, <1>4, <1>5, <1>6, <1>7, <1>8 DEF Next

\* The frame holds what the list says.
opened == Functions[program].opened
Held(open) ==
  IsSequence(open) /\ HeldBy(open, protection_order, handlers, with_contexts)

\* No handler takes an exception here, and no manager suppresses it.
Escaping(open) ==
  \A k \in 1 .. Len(open) : open[k].kind = "with" /\ Suppresses \notin open[k].manager

\* An instruction is next, and the list of its address is held.
Executing ==
  /\ ip \in DOMAIN opened /\ Held(opened[ip])
  /\ awaiting # NoAwait => Escaping(opened[ip])
  /\ suspended => Onward(opened, Unwound(code, ip + 1, 0, opened[ip]))

\* An exception is dispatched: where it can go on, the record has what is left.
Dispatched(open) ==
  /\ Held(open) /\ Onward(opened, Unwound(code, ip, unwound_with, open))
  /\ awaiting # NoAwait => Escaping(open)

\* A RETURN exits the managers: one that fails has managers after it only; or a
\* try was met, which the drain leaves where it is, and no manager fails.
Draining(open) ==
  /\ Held(open)
  /\ \A k \in Failing(open) :
       ManagersAfter(open, k) /\ Onward(opened, Unwound(code, ip, 0, Outside(open, k)))
Quiet ==
  /\ IsSequence(with_contexts)
  /\ \A k \in 1 .. Len(with_contexts) : FailsToExit \notin with_contexts[k].manager

Books ==
  Functions[program].protected /\ outcome = Running =>
    /\ raised = NoError /\ returning = NoValue => Executing
    /\ raised # NoError => \E open : Dispatched(open)
    /\ returning # NoValue => Quiet \/ \E open : Draining(open)

\* The inductive invariant.
Kept == Shape(stack) /\ Modes /\ Books

LEMMA Escapes ==
  ASSUME NEW c, NEW from, NEW n, NEW open, Escaping(open), NEW record
  PROVE  Onward(record, Unwound(c, from, n, open))
  BY UnwoundNothing DEF Escaping, Onward

\* What the record says of the instruction that is executed.
LEMMA RecordFacts ==
  ASSUME program \in DOMAIN Functions, Functions[program].protected
  PROVE  /\ DOMAIN opened \subseteq 1 .. Len(code) + 1
         /\ \A a \in DOMAIN opened : IsSequence(opened[a])
         /\ Reaches(opened, <<1, <<>>>>)
         /\ \A a \in DOMAIN opened : a <= Len(code) =>
              Fits(code, a, opened[a]) /\ Onward(opened, GoesTo(code, a, opened[a]))
  <1>1. IsProtected(code, opened)
    BY ProtectionAssumption DEF code, opened
  <1>2. \A a \in DOMAIN opened : IsSequence(opened[a])
    BY <1>1, SequenceFacts DEF IsProtected
  <1> QED
    BY <1>1, <1>2 DEF IsProtected, Onward

LEMMA Here ==
  ASSUME Modes, Books, Functions[program].protected, NEW op, Executes(op)
  PROVE  /\ Held(opened[ip]) /\ code[ip].op = op /\ here = code[ip] /\ ip \in Int
         /\ Fits(code, ip, opened[ip]) /\ Onward(opened, GoesTo(code, ip, opened[ip]))
  <1>1. ip \in DOMAIN opened /\ Held(opened[ip]) /\ ip <= Len(code) /\ here.op = op
    BY DEF Books, Executes, Runs, Executing
  <1>2. ip \in Int
    BY <1>1, RecordFacts DEF Modes
  <1>3. Fits(code, ip, opened[ip]) /\ Onward(opened, GoesTo(code, ip, opened[ip]))
    BY <1>1, RecordFacts DEF Modes
  <1> QED
    BY <1>1, <1>2, <1>3 DEF here

\* How a step leaves the frame: at an address, or dispatching.
LEMMA Onto ==
  ASSUME program' = program, raised' = NoError, returning' = NoValue,
         NEW list, IsSequence(list), Reaches(opened, <<ip', list>>),
         HeldBy(list, protection_order', handlers', with_contexts'),
         awaiting' # NoAwait => Escaping(list),
         suspended' => Onward(opened, Unwound(code, ip' + 1, 0, list))
  PROVE  Books'
  <1>1. opened' = opened /\ code' = code
    BY DEF opened, code
  <1>2. ip' \in DOMAIN opened /\ opened[ip'] = list
    BY DEF Reaches
  <1>3. Executing'
    BY <1>1, <1>2 DEF Executing, Held
  <1> QED
    BY <1>3 DEF Books

LEMMA Into ==
  ASSUME program' = program, raised' # NoError, returning' = NoValue,
         NEW list, IsSequence(list),
         HeldBy(list, protection_order', handlers', with_contexts'),
         Onward(opened, Unwound(code, ip', unwound_with', list)),
         awaiting' # NoAwait => Escaping(list)
  PROVE  Books'
  <1>1. opened' = opened /\ code' = code
    BY DEF opened, code
  <1>2. Dispatched(list)'
    BY <1>1 DEF Dispatched, Held
  <1> QED
    BY <1>2 DEF Books

\* An instruction that leaves what is open alone.
LEMMA Plainly ==
  ASSUME Modes, Books, Functions[program].protected, NEW op, Executes(op), GoesOn,
         UNCHANGED <<protection, returning>>,
         \/ Proceed(ip + 1) /\ op \in Plain
         \/ Proceed(here.arg) /\ op \in {"TEST", "JUMP", "FOR_ITER", "MATCH_EXCEPTION_CHECK"}
         \/ /\ \E error : error # NoError /\ Raise(error)
            /\ op \in {"DO", "TEST", "POP_TOP", "STORE_NAME", "GET_ITER", "FOR_ITER", "RAISE"}
  PROVE  Books'
  <1> DEFINE open == opened[ip]
  <1>1. /\ IsSequence(open) /\ HeldBy(open, protection_order, handlers, with_contexts)
        /\ code[ip].op = op /\ here = code[ip] /\ Onward(opened, GoesTo(code, ip, open))
    BY Here DEF Held
  <1>2. /\ program' = program /\ raised = NoError /\ returning = NoValue /\ awaiting = NoAwait
        /\ ~suspended /\ returning' = NoValue /\ awaiting' = NoAwait /\ ~suspended'
    BY DEF Executes, Runs, GoesOn
  <1> HIDE DEF open
  <1>3. HeldBy(open, protection_order', handlers', with_contexts')
    BY <1>1 DEF protection
  <1>4. CASE \/ Proceed(ip + 1) /\ op \in Plain
             \/ Proceed(here.arg) /\ op \in {"TEST", "JUMP", "FOR_ITER", "MATCH_EXCEPTION_CHECK"}
    <2>1. Reaches(opened, <<ip', open>>)
      BY <1>1, <1>4, Targets DEF Proceed
    <2>2. raised' = NoError
      BY <1>2, <1>4 DEF Proceed
    <2> QED
      BY <1>1, <1>2, <1>3, <2>1, <2>2, Onto
  <1>5. CASE /\ \E error : error # NoError /\ Raise(error)
             /\ op \in {"DO", "TEST", "POP_TOP", "STORE_NAME", "GET_ITER", "FOR_ITER", "RAISE"}
    <2>1. Onward(opened, Unwound(code, ip + 1, 0, open))
      BY <1>1, <1>5, Targets
    <2>2. raised' # NoError /\ ip' = ip + 1 /\ unwound_with' = 0
      BY <1>5 DEF Raise
    <2>3. Onward(opened, Unwound(code, ip', unwound_with', open))
      BY <2>1, <2>2
    <2> QED
      BY <1>1, <1>2, <1>3, <2>2, <2>3, Into
  <1> QED
    BY <1>4, <1>5

\* The instructions that leave what is open alone.
LEMMA PlainSteps ==
  ASSUME Shape(stack), Modes, Books, Functions[program].protected,
         \/ ExecuteDo \/ ExecuteTest \/ ExecuteLoadConst \/ ExecutePopTop \/ ExecuteJump
         \/ ExecuteGetIter \/ ExecuteForIter \/ ExecuteRaise \/ ExecuteMatch
  PROVE  Books'
  <1> USE DEF Plain
  <1>1. \A error \in Errors : error # NoError
    BY ErrorsFacts
  <1>2. NoError \notin {"TypeError", "IndexError", "RuntimeError"}
    BY DEF NoError
  <1>3. CASE ExecuteDo
    <2>1. PICK result \in Errors \cup {"ok"} : IF result \in Errors THEN Raise(result) ELSE Proceed(ip + 1)
      BY <1>3 DEF ExecuteDo
    <2>2. Executes("DO") /\ GoesOn /\ UNCHANGED <<protection, returning>>
      BY <1>3 DEF ExecuteDo
    <2>3. Proceed(ip + 1) \/ \E error : error # NoError /\ Raise(error)
      BY <1>1, <2>1
    <2> QED
      BY <2>2, <2>3, Plainly
  <1>4. CASE ExecuteTest
    <2>1. Executes("TEST") /\ GoesOn /\ UNCHANGED <<protection, returning>>
      BY <1>4 DEF ExecuteTest
    <2>2. Proceed(ip + 1) \/ Proceed(here.arg) \/ \E error : error # NoError /\ Raise(error)
      BY <1>1, <1>4 DEF ExecuteTest
    <2> QED
      BY <2>1, <2>2, Plainly
  <1>5. CASE ExecuteLoadConst
    <2>1. /\ Executes("LOAD_CONST") /\ GoesOn /\ UNCHANGED <<protection, returning>>
          /\ Proceed(ip + 1)
      BY <1>5 DEF ExecuteLoadConst
    <2> QED
      BY <2>1, Plainly
  <1>6. CASE ExecutePopTop
    <2>1. PICK op \in {"POP_TOP", "STORE_NAME"} : Executes(op)
      BY <1>6 DEF ExecutePopTop
    <2>2. GoesOn /\ UNCHANGED <<protection, returning>>
      BY <1>6 DEF ExecutePopTop
    <2>3. Proceed(ip + 1) \/ \E error : error # NoError /\ Raise(error)
      BY <1>2, <1>6 DEF ExecutePopTop
    <2> QED
      BY <2>1, <2>2, <2>3, Plainly
  <1>7. CASE ExecuteJump
    <2>1. /\ Executes("JUMP") /\ GoesOn /\ UNCHANGED <<protection, returning>>
          /\ Proceed(here.arg)
      BY <1>7 DEF ExecuteJump
    <2> QED
      BY <2>1, Plainly
  <1>8. CASE ExecuteGetIter
    <2>1. /\ Executes("GET_ITER") /\ GoesOn /\ UNCHANGED <<protection, returning>>
          /\ Proceed(ip + 1) \/ \E error : error # NoError /\ Raise(error)
      BY <1>1, <1>8 DEF ExecuteGetIter
    <2> QED
      BY <2>1, Plainly
  <1>9. CASE ExecuteForIter
    <2>1. Executes("FOR_ITER") /\ GoesOn /\ UNCHANGED <<protection, returning>>
      BY <1>9 DEF ExecuteForIter
    <2>2. Proceed(ip + 1) \/ Proceed(here.arg) \/ \E error : error # NoError /\ Raise(error)
      BY <1>1, <1>2, <1>9 DEF ExecuteForIter
    <2> QED
      BY <2>1, <2>2, Plainly
  <1>10. CASE ExecuteRaise
    <2>1. Executes("RAISE") /\ GoesOn /\ UNCHANGED <<protection, returning>>
      BY <1>10 DEF ExecuteRaise
    <2>2. stack # <<>> /\ Top(stack).kind = "exception" => Top(stack).of # NoError
      BY ShapeTop DEF Fit
    <2>3. \E error : error # NoError /\ Raise(error)
      BY <1>2, <1>10, <2>2 DEF ExecuteRaise
    <2> QED
      BY <2>1, <2>3, Plainly
  <1>11. CASE ExecuteMatch
    <2>1. Executes("MATCH_EXCEPTION_CHECK") /\ GoesOn /\ UNCHANGED <<protection, returning>>
      BY <1>11 DEF ExecuteMatch
    <2>2. Proceed(ip + 1) \/ Proceed(here.arg)
      BY <1>11 DEF ExecuteMatch
    <2> QED
      BY <2>1, <2>2, Plainly
  <1> QED
    BY <1>3, <1>4, <1>5, <1>6, <1>7, <1>8, <1>9, <1>10, <1>11

\* A manager is registered, and may fail to enter.
LEMMA EnterStep ==
  ASSUME Modes, Books, Functions[program].protected, ExecuteWithEnter
  PROVE  Books'
  <1> DEFINE open == opened[ip]
             manager == here.spec
             list == Append(open, OpenWith(manager))
  <1>1. /\ Executes("WITH_ENTER") /\ GoesOn
        /\ with_contexts' = Append(with_contexts, Manager(here.of, manager))
        /\ protection_order' = Append(protection_order, "with")
        /\ UNCHANGED <<handlers, returning>>
    BY DEF ExecuteWithEnter
  <1>2. /\ IsSequence(open) /\ HeldBy(open, protection_order, handlers, with_contexts)
        /\ code[ip].op = "WITH_ENTER" /\ code[ip].spec = manager
        /\ Onward(opened, GoesTo(code, ip, open))
    BY <1>1, Here DEF Held
  <1>3. /\ program' = program /\ raised = NoError /\ returning' = NoValue
        /\ awaiting' = NoAwait /\ ~suspended'
    BY <1>1 DEF Executes, Runs, GoesOn
  <1>4. PICK result \in Results(manager, FailsToEnter) :
          IF result \in Errors THEN Raise(result) ELSE Proceed(ip + 1)
    BY DEF ExecuteWithEnter
  <1> HIDE DEF open, manager
  <1>5. /\ IsSequence(list)
        /\ HeldBy(list, protection_order', handlers', with_contexts')
    BY <1>1, <1>2, PlacesOpened, ManagerHeld
  <1>6. CASE result \notin Errors
    <2>1. Reaches(opened, <<ip + 1, list>>)
      BY <1>2, Targets
    <2>2. ip' = ip + 1 /\ raised' = NoError
      BY <1>3, <1>4, <1>6 DEF Proceed
    <2> HIDE DEF list
    <2> QED
      BY <1>3, <1>5, <2>1, <2>2, Onto
  <1>7. CASE result \in Errors
    <2>1. FailsToEnter \in manager
      BY <1>4, <1>7, ErrorsFacts DEF Results
    <2>2. Onward(opened, Unwound(code, ip + 1, 0, list))
      BY <1>2, <2>1, Targets
    <2>3. ip' = ip + 1 /\ raised' # NoError /\ unwound_with' = 0
      BY <1>4, <1>7, ErrorsFacts DEF Raise
    <2> HIDE DEF list
    <2>4. Onward(opened, Unwound(code, ip', unwound_with', list))
      BY <2>2, <2>3
    <2> QED
      BY <1>3, <1>5, <2>3, <2>4, Into
  <1> QED
    BY <1>6, <1>7

\* A manager leaves the lists before its __exit__ runs.
LEMMA ExitStep ==
  ASSUME Modes, Books, Functions[program].protected, ExecuteWithExit
  PROVE  Books'
  <1> DEFINE open == opened[ip]
             list == Popped(open)
  <1>1. Executes("WITH_EXIT") /\ GoesOn /\ UNCHANGED returning
    BY DEF ExecuteWithExit
  <1>2. /\ IsSequence(open) /\ HeldBy(open, protection_order, handlers, with_contexts)
        /\ code[ip].op = "WITH_EXIT" /\ Fits(code, ip, open)
        /\ Onward(opened, GoesTo(code, ip, open))
    BY <1>1, Here DEF Held
  <1>3. /\ program' = program /\ raised = NoError /\ returning' = NoValue
        /\ awaiting' = NoAwait /\ ~suspended'
    BY <1>1 DEF Executes, Runs, GoesOn
  <1> HIDE DEF open
  <1>4. open # <<>> /\ Top(open).kind = "with"
    BY <1>2 DEF Fits
  <1>5. /\ with_contexts # <<>> /\ Top(with_contexts).manager = Top(open).manager
        /\ HeldBy(list, Popped(protection_order), handlers, Popped(with_contexts))
    BY <1>2, <1>4, ManagerLeft
  <1>6. /\ protection_order # <<>> /\ Top(protection_order) = "with" /\ IsSequence(list)
    BY <1>2, <1>4, NewestHeld, PlacesLeft
  <1>7. ContextPopped
    BY <1>5 DEF ExecuteWithExit
  <1>8. HeldBy(list, protection_order', handlers', with_contexts')
    BY <1>5, <1>6, <1>7 DEF ContextPopped
  <1>9. PICK result \in Results(Top(with_contexts).manager, FailsToExit) :
          IF result \in Errors THEN Raise(result) ELSE Proceed(ip + 1)
    BY <1>5 DEF ExecuteWithExit
  <1>10. CASE result \notin Errors
    <2>1. Reaches(opened, <<ip + 1, list>>)
      BY <1>2, Targets
    <2>2. ip' = ip + 1 /\ raised' = NoError
      BY <1>3, <1>9, <1>10 DEF Proceed
    <2> HIDE DEF list
    <2> QED
      BY <1>3, <1>6, <1>8, <2>1, <2>2, Onto
  <1>11. CASE result \in Errors
    <2>1. FailsToExit \in Top(open).manager
      BY <1>5, <1>9, <1>11, ErrorsFacts DEF Results
    <2>2. Len(open) \in Failing(open)
      <3>1. Len(open) \in Nat /\ Len(open) > 0
        BY <1>2, <1>4, LengthFacts
      <3> QED
        BY <1>4, <2>1, <3>1 DEF Failing, Top
    <2>3. Onward(opened, Unwound(code, ip + 1, 0, list))
      BY <1>2, <2>2, Targets
    <2>4. ip' = ip + 1 /\ raised' # NoError /\ unwound_with' = 0
      BY <1>9, <1>11, ErrorsFacts DEF Raise
    <2> HIDE DEF list
    <2>5. Onward(opened, Unwound(code, ip', unwound_with', list))
      BY <2>3, <2>4
    <2> QED
      BY <1>3, <1>6, <1>8, <2>4, <2>5, Into
  <1> QED
    BY <1>10, <1>11

LEMMA TryBeginStep ==
  ASSUME Modes, Books, Functions[program].protected, ExecuteTryBegin
  PROVE  Books'
  <1> DEFINE open == opened[ip]
             list == Append(open, OpenTry(here.arg))
  <1>1. /\ Executes("TRY_BEGIN") /\ GoesOn /\ Proceed(ip + 1)
        /\ handlers' = Append(handlers, here.arg)
        /\ protection_order' = Append(protection_order, "try")
        /\ UNCHANGED <<with_contexts, returning>>
    BY DEF ExecuteTryBegin
  <1>2. /\ IsSequence(open) /\ HeldBy(open, protection_order, handlers, with_contexts)
        /\ code[ip].op = "TRY_BEGIN" /\ here = code[ip]
        /\ Onward(opened, GoesTo(code, ip, open))
    BY <1>1, Here DEF Held
  <1>3. /\ program' = program /\ raised' = NoError /\ returning' = NoValue
        /\ awaiting' = NoAwait /\ ~suspended' /\ ip' = ip + 1
    BY <1>1 DEF Executes, Runs, GoesOn, Proceed
  <1> HIDE DEF open
  <1>4. IsSequence(list) /\ HeldBy(list, protection_order', handlers', with_contexts')
    BY <1>1, <1>2, PlacesOpened, TryHeld
  <1>5. Reaches(opened, <<ip + 1, list>>)
    BY <1>2, Targets
  <1> HIDE DEF list
  <1> QED
    BY <1>3, <1>4, <1>5, Onto

LEMMA TryEndStep ==
  ASSUME Modes, Books, Functions[program].protected, ExecuteTryEnd
  PROVE  Books'
  <1> DEFINE open == opened[ip]
             list == Popped(open)
  <1>1. Executes("TRY_END") /\ GoesOn /\ UNCHANGED returning
    BY DEF ExecuteTryEnd
  <1>2. /\ IsSequence(open) /\ HeldBy(open, protection_order, handlers, with_contexts)
        /\ code[ip].op = "TRY_END" /\ Fits(code, ip, open)
        /\ Onward(opened, GoesTo(code, ip, open))
    BY <1>1, Here DEF Held
  <1> HIDE DEF open
  <1>3. open # <<>> /\ Top(open).kind = "try"
    BY <1>2 DEF Fits
  <1>4. /\ handlers # <<>>
        /\ HeldBy(list, Popped(protection_order), Popped(handlers), with_contexts)
    BY <1>2, <1>3, TryLeft
  <1>5. protection_order # <<>> /\ Top(protection_order) = "try" /\ IsSequence(list)
    BY <1>2, <1>3, NewestHeld, PlacesLeft
  <1>6. /\ Proceed(ip + 1) /\ handlers' = Popped(handlers) /\ UNCHANGED with_contexts
        /\ protection_order' = Popped(protection_order)
    BY <1>4, <1>5 DEF ExecuteTryEnd
  <1>7. HeldBy(list, protection_order', handlers', with_contexts')
    BY <1>4, <1>6
  <1>8. /\ program' = program /\ raised' = NoError /\ returning' = NoValue
        /\ awaiting' = NoAwait /\ ~suspended' /\ ip' = ip + 1
    BY <1>1, <1>6 DEF Executes, Runs, GoesOn, Proceed
  <1>9. Reaches(opened, <<ip + 1, list>>)
    BY <1>2, Targets
  <1> HIDE DEF list
  <1> QED
    BY <1>5, <1>7, <1>8, <1>9, Onto

\* A RETURN, and the managers it exits one by one.
LEMMA ReturnStep ==
  ASSUME Shape(stack), Modes, Books, Functions[program].protected, ExecuteReturn
  PROVE  Books'
  <1>0. PICK open : open = opened[ip]
    OBVIOUS
  <1>1. /\ Executes("RETURN") /\ GoesOn /\ Proceed(ip + 1) /\ UNCHANGED protection
        /\ returning' = IF stack = <<>> THEN "none" ELSE Top(stack).kind
    BY DEF ExecuteReturn
  <1>2. /\ IsSequence(open) /\ HeldBy(open, protection_order, handlers, with_contexts)
        /\ code[ip].op = "RETURN" /\ Fits(code, ip, open)
        /\ Onward(opened, GoesTo(code, ip, open))
    BY <1>0, <1>1, Here DEF Held
  <1>3. program' = program /\ raised' = NoError /\ ip' = ip + 1
    BY <1>1 DEF Executes, Runs, Proceed
  <1>4. returning' # NoValue
    <2>1. stack # <<>> => Top(stack).kind \in {"iterator", "context", "exception", "value"}
      BY ShapeTop DEF Fit
    <2>2. NoValue \notin {"none", "iterator", "context", "exception", "value"}
      BY DEF NoValue
    <2> QED
      BY <1>1, <2>1, <2>2
  <1>5. opened' = opened /\ code' = code
    BY <1>3 DEF opened, code
  <1>6. \A k \in Failing(open) :
          ManagersAfter(open, k) /\ Onward(opened, Unwound(code, ip + 1, 0, Outside(open, k)))
    BY <1>2, Targets DEF Fits
  <1>7. Held(open)'
    BY <1>1, <1>2 DEF Held, protection
  <1>8. Draining(open)'
    <2>1. \A k \in Failing(open) :
            /\ ManagersAfter(open, k)
            /\ Onward(opened', Unwound(code', ip', 0, Outside(open, k)))
      BY <1>3, <1>5, <1>6
    <2> HIDE DEF opened, code
    <2> QED
      BY <1>7, <2>1 DEF Draining
  <1> QED
    BY <1>3, <1>4, <1>8 DEF Books

\* Every number up to the size of the set is that of a place.
LEMMA PlaceOf ==
  ASSUME NEW N, NEW A, Within(A, N), NEW k \in 1 .. Cardinality(A)
  PROVE  \E i \in A : Rank(A, i) = k
  <1>1. Nth(A, k) \in A /\ Rank(A, Nth(A, k)) = k
    BY NthFacts DEF Within
  <1> QED
    BY <1>1

LEMMA QuietFrom ==
  ASSUME NEW open, Held(open), Failing(open) = {}
  PROVE  Quiet
  <1> DEFINE A == Of(open, "with")
  <1>1. /\ IsSequence(with_contexts) /\ Len(with_contexts) = Cardinality(A)
        /\ \A i \in A : with_contexts[Rank(A, i)].manager = open[i].manager
    BY DEF Held, HeldBy
  <1>2. Within(A, Len(open))
    BY PlacesFacts DEF Held
  <1>3. \A i \in A : FailsToExit \notin open[i].manager
    BY DEF Failing, Of
  <1> HIDE DEF A
  <1>4. ASSUME NEW k \in 1 .. Len(with_contexts)
        PROVE  FailsToExit \notin with_contexts[k].manager
    <2>1. k \in 1 .. Cardinality(A)
      BY <1>1
    <2>2. PICK i \in A : Rank(A, i) = k
      BY ONLY <1>2, <2>1, PlaceOf
    <2> QED
      BY <1>1, <1>3, <2>2
  <1> QED
    BY <1>1, <1>4 DEF Quiet

LEMMA DrainStep ==
  ASSUME Modes, Books, Functions[program].protected, DrainContext
  PROVE  Books'
  <1>1. /\ Runs /\ returning # NoValue /\ with_contexts # <<>> /\ ContextPopped
        /\ UNCHANGED <<program, ip, awaiting, suspended>>
    BY DEF DrainContext
  <1>2. PICK result \in Results(Top(with_contexts).manager, FailsToExit) :
          IF result \in Errors
          THEN raised' = result /\ unwound_with' = 0 /\ returning' = NoValue
          ELSE UNCHANGED <<raised, unwound_with, returning>>
    BY DEF DrainContext
  <1>3. result \in Errors => FailsToExit \in Top(with_contexts).manager /\ result # NoError
    BY <1>2, ErrorsFacts DEF Results
  <1>4. opened' = opened /\ code' = code
    BY <1>1 DEF opened, code
  <1>5. raised = NoError /\ awaiting' = NoAwait /\ with_contexts' = Popped(with_contexts)
    BY <1>1 DEF Runs, Modes, ContextPopped
  <1>6. ASSUME Quiet PROVE Books'
    <2>1. Len(with_contexts) \in Nat /\ Len(with_contexts) > 0
      BY <1>1, <1>6, LengthFacts DEF Quiet
    <2>2. result \notin Errors
      BY <1>3, <1>6, <2>1 DEF Quiet, Top
    <2>3. Quiet'
      <3>1. /\ IsSequence(Popped(with_contexts))
            /\ Len(Popped(with_contexts)) = Len(with_contexts) - 1
            /\ \A i \in 1 .. Len(with_contexts) - 1 :
                 Popped(with_contexts)[i] = with_contexts[i]
        BY <1>1, <1>6, Shortened DEF Quiet
      <3>2. \A k \in 1 .. Len(with_contexts) : FailsToExit \notin with_contexts[k].manager
        BY <1>6 DEF Quiet
      <3> QED
        BY <1>5, <2>1, <3>1, <3>2 DEF Quiet
    <2>4. raised' = NoError /\ returning' # NoValue
      BY <1>1, <1>2, <1>5, <2>2
    <2> QED
      BY <2>3, <2>4 DEF Books
  <1>7. ASSUME NEW open, Draining(open) PROVE Books'
    <2> DEFINE list == Popped(open)
    <2>1. /\ IsSequence(open) /\ HeldBy(open, protection_order, handlers, with_contexts)
          /\ Held(open)
          /\ \A k \in Failing(open) : /\ ManagersAfter(open, k)
                                      /\ Onward(opened, Unwound(code, ip, 0, Outside(open, k)))
      BY <1>7 DEF Draining, Held
    <2>2. CASE Failing(open) = {}
      BY <1>6, <2>1, <2>2, QuietFrom
    <2>3. CASE Failing(open) # {}
      <3>1. PICK k \in Failing(open) : TRUE
        BY <2>3
      <3>2. k \in 1 .. Len(open) /\ open[k].kind = "with" /\ Len(open) \in Nat
        BY <2>1, LengthFacts DEF Failing
      <3>3. open # <<>> /\ Top(open).kind = "with"
        <4>1. k # Len(open) => Len(open) \in k + 1 .. Len(open)
          BY <3>2
        <4>2. Len(<<>>) = 0
          BY EmptySeq
        <4> QED
          BY <2>1, <3>1, <3>2, <4>1, <4>2 DEF ManagersAfter, Top
      <3>4. /\ with_contexts # <<>> /\ Top(with_contexts).manager = Top(open).manager
            /\ HeldBy(list, Popped(protection_order), handlers, Popped(with_contexts))
        BY <2>1, <3>3, ManagerLeft
      <3>5. protection_order # <<>> /\ Top(protection_order) = "with" /\ IsSequence(list)
        BY <2>1, <3>3, NewestHeld, PlacesLeft
      <3>6. HeldBy(list, protection_order', handlers', with_contexts')
        BY <1>1, <3>4, <3>5 DEF ContextPopped
      <3>7. CASE result \notin Errors
        <4>1. /\ Len(list) = Len(open) - 1
              /\ \A i \in 1 .. Len(open) - 1 : list[i] = open[i]
          BY <2>1, <3>3, PlacesLeft
        <4>2. \A i \in 1 .. Len(open) - 1 : /\ Outside(list, i) = Outside(open, i)
                                            /\ ManagersAfter(open, i) <=> ManagersAfter(list, i)
          BY <2>1, <3>3, OutsidePopped, ManagersPopped
        <4> HIDE DEF list
        <4>3. \A i \in Failing(list) : i \in Failing(open) /\ i \in 1 .. Len(open) - 1
          BY <3>2, <4>1 DEF Failing
        <4>4. ASSUME NEW i \in Failing(list)
              PROVE  /\ ManagersAfter(list, i)
                     /\ Onward(opened, Unwound(code, ip, 0, Outside(list, i)))
          BY <2>1, <4>2, <4>3
        <4>5. Draining(list)'
          BY <1>1, <1>4, <3>5, <3>6, <4>4 DEF Draining, Held
        <4>6. raised' = NoError /\ returning' # NoValue
          BY <1>1, <1>2, <1>5, <3>7
        <4> QED
          BY <4>5, <4>6 DEF Books
      <3>8. CASE result \in Errors
        <4>1. Len(open) \in Failing(open)
          BY <1>3, <3>2, <3>3, <3>4, <3>8 DEF Failing, Top
        <4>2. Outside(open, Len(open)) = list
          BY <2>1, <3>3, OutsidePopped
        <4>3. Onward(opened, Unwound(code, ip, 0, list))
          BY <2>1, <4>1, <4>2
        <4>4. /\ raised' # NoError /\ unwound_with' = 0 /\ returning' = NoValue
              /\ program' = program /\ ip' = ip
          BY <1>1, <1>2, <1>3, <3>8
        <4> HIDE DEF list
        <4>5. Onward(opened, Unwound(code, ip', unwound_with', list))
          BY <4>3, <4>4
        <4> QED
          BY <1>5, <3>5, <3>6, <4>4, <4>5, Into
      <3> QED
        BY <3>7, <3>8
    <2> QED
      BY <2>2, <2>3
  <1>8. Quiet \/ \E open : Draining(open)
    BY <1>1 DEF Books, Runs
  <1> QED
    BY <1>6, <1>7, <1>8

\* A frame that waits, and what it is resumed with.
LEMMA YieldStep ==
  ASSUME Modes, Books, Functions[program].protected, ExecuteYield
  PROVE  Books'
  <1> DEFINE open == opened[ip]
  <1>1. /\ Executes("YIELD_VALUE") /\ Proceed(ip + 1)
        /\ UNCHANGED <<protection, awaiting, returning>>
    BY DEF ExecuteYield
  <1>2. /\ IsSequence(open) /\ HeldBy(open, protection_order, handlers, with_contexts)
        /\ code[ip].op = "YIELD_VALUE" /\ ip \in Int /\ Onward(opened, GoesTo(code, ip, open))
    BY <1>1, Here DEF Held
  <1>3. /\ program' = program /\ raised' = NoError /\ returning' = NoValue
        /\ awaiting' = NoAwait /\ ip' = ip + 1
    BY <1>1 DEF Executes, Runs, Proceed
  <1> HIDE DEF open
  <1>4. Reaches(opened, <<ip + 1, open>>) /\ Onward(opened, Unwound(code, ip + 2, 0, open))
    BY <1>2, Targets DEF Plain
  <1>5. ip' + 1 = ip + 2
    BY <1>2, <1>3
  <1>6. HeldBy(open, protection_order', handlers', with_contexts')
    BY <1>1, <1>2 DEF protection
  <1>7. Reaches(opened, <<ip', open>>) /\ Onward(opened, Unwound(code, ip' + 1, 0, open))
    BY <1>3, <1>4, <1>5
  <1> QED
    BY <1>2, <1>3, <1>6, <1>7, Onto

LEMMA ResumeStep ==
  ASSUME Modes, Books, Functions[program].protected, Resume \/ Throw
  PROVE  Books'
  <1> DEFINE open == opened[ip]
  <1>1. /\ suspended /\ ~suspended' /\ outcome = Running
        /\ UNCHANGED <<program, protection, returning, awaiting>>
    BY DEF Resume, Throw
  <1>2. raised = NoError /\ returning = NoValue
    BY <1>1 DEF Modes
  <1>3. Executing
    BY <1>1, <1>2 DEF Books
  <1>4. opened' = opened /\ code' = code
    BY <1>1 DEF opened, code
  <1>5. CASE Resume
    <2>1. UNCHANGED <<ip, raised, returning>>
      BY <1>5 DEF Resume
    <2>2. Executing'
      BY <1>1, <1>3, <1>4, <2>1 DEF Executing, Held, protection
    <2> QED
      BY <1>2, <2>1, <2>2 DEF Books
  <1>6. CASE Throw
    <2>1. /\ IsSequence(open) /\ HeldBy(open, protection_order, handlers, with_contexts)
          /\ awaiting # NoAwait => Escaping(open)
          /\ Onward(opened, Unwound(code, ip + 1, 0, open))
      BY <1>1, <1>3 DEF Executing, Held
    <2> HIDE DEF open
    <2>2. unwound_with' = 0 /\ ip' = IF awaiting = NoAwait THEN ip + 1 ELSE ip
      BY <1>6 DEF Throw
    <2>3. raised' # NoError
      BY <1>6, ErrorsFacts DEF Throw
    <2>4. Onward(opened, Unwound(code, ip', unwound_with', open))
      BY <2>1, <2>2, Escapes
    <2>5. HeldBy(open, protection_order', handlers', with_contexts')
      BY <1>1, <2>1 DEF protection
    <2> QED
      BY <1>1, <1>2, <2>1, <2>3, <2>4, <2>5, Into
  <1> QED
    BY <1>5, <1>6

LEMMA AwaitStep ==
  ASSUME Modes, Books, Functions[program].protected, ExecuteAwait \/ ResumeAwait
  PROVE  Books'
  <1>2. /\ UNCHANGED <<program, protection, returning>>
        /\ raised = NoError /\ returning = NoValue
    BY DEF ExecuteAwait, ResumeAwait, Executes, Runs, Modes
  <1>3. PICK open : /\ IsSequence(open) /\ Escaping(open) /\ Reaches(opened, <<ip', open>>)
                    /\ HeldBy(open, protection_order, handlers, with_contexts)
    <2> DEFINE list == opened[ip]
    <2>1. CASE ExecuteAwait
      <3>1. Executes("AWAIT") /\ ip' = ip + 1
        BY <2>1 DEF ExecuteAwait
      <3>2. /\ IsSequence(list) /\ HeldBy(list, protection_order, handlers, with_contexts)
            /\ code[ip].op = "AWAIT" /\ Fits(code, ip, list)
            /\ Onward(opened, GoesTo(code, ip, list))
        BY <3>1, Here DEF Held
      <3> HIDE DEF list
      <3>3. Reaches(opened, <<ip + 1, list>>) /\ Escaping(list)
        BY <3>2, Targets DEF Plain, Fits, Escaping
      <3> QED
        BY <3>1, <3>2, <3>3
    <2>2. CASE ResumeAwait
      <3>1. awaiting # NoAwait /\ outcome = Running /\ UNCHANGED ip
        BY <2>2 DEF ResumeAwait
      <3>2. Executing
        BY <1>2, <3>1 DEF Books
      <3>3. Reaches(opened, <<ip', list>>)
        BY <3>1, <3>2 DEF Executing, Reaches
      <3> QED
        BY <3>1, <3>2, <3>3 DEF Executing, Held
    <2> QED
      BY <2>1, <2>2
  <1>4. HeldBy(open, protection_order', handlers', with_contexts')
    BY <1>2, <1>3 DEF protection
  <1>5. \A from, n : Onward(opened, Unwound(code, from, n, open))
    BY <1>3, Escapes
  <1>6. CASE raised' = NoError
    BY <1>2, <1>3, <1>4, <1>5, <1>6, Onto
  <1>7. CASE raised' # NoError
    BY <1>2, <1>3, <1>4, <1>5, <1>7, Into
  <1> QED
    BY <1>6, <1>7

\* The dispatch undoes the newest that is open.
LEMMA CatchStep ==
  ASSUME Modes, Books, Functions[program].protected, Catch
  PROVE  Books'
  <1>1. /\ outcome = Running /\ raised # NoError /\ UNCHANGED <<program, returning, awaiting, suspended>>
        /\ protection_order # <<>> /\ Top(protection_order) = "try"
        /\ protection_order' = Popped(protection_order) /\ UNCHANGED with_contexts
    BY DEF Catch, Dispatching
  <1>2. PICK open : Dispatched(open)
    BY <1>1 DEF Books
  <1>3. /\ IsSequence(open) /\ HeldBy(open, protection_order, handlers, with_contexts)
        /\ Onward(opened, Unwound(code, ip, unwound_with, open))
        /\ awaiting # NoAwait => Escaping(open)
    BY <1>2 DEF Dispatched, Held
  <1> DEFINE list == Popped(open)
  <1>4. open # <<>> /\ Top(open).kind = "try"
    BY <1>1, <1>3, NewestHeld
  <1>5. /\ handlers # <<>> /\ Top(handlers) = Top(open).handler /\ IsSequence(list)
        /\ HeldBy(list, Popped(protection_order), Popped(handlers), with_contexts)
    BY <1>3, <1>4, TryLeft, PlacesLeft
  <1>6. ip' = Top(handlers) /\ raised' = NoError /\ handlers' = Popped(handlers)
    BY <1>5 DEF Catch
  <1>7. returning' = NoValue /\ ~suspended' /\ unwound_with \in Nat
    BY <1>1 DEF Modes
  <1>8. awaiting' = NoAwait
    <2>1. Len(open) \in Nat /\ Len(open) > 0
      BY <1>3, <1>4, LengthFacts
    <2>2. ~Escaping(open)
      BY <1>4, <2>1 DEF Escaping, Top
    <2> QED
      BY <1>1, <1>3, <2>2
  <1>9. Reaches(opened, <<Top(open).handler, list>>)
    BY <1>3, <1>4, <1>7, UnwoundFirst DEF Onward
  <1> HIDE DEF list
  <1>10. Reaches(opened, <<ip', list>>)
    BY <1>5, <1>6, <1>9
  <1>11. HeldBy(list, protection_order', handlers', with_contexts')
    BY <1>1, <1>5, <1>6
  <1> QED
    BY <1>1, <1>5, <1>6, <1>7, <1>8, <1>10, <1>11, Onto

LEMMA UnwindStep ==
  ASSUME Modes, Books, Functions[program].protected, UnwindContext
  PROVE  Books'
  <1>1. /\ outcome = Running /\ raised # NoError /\ UNCHANGED <<program, returning, awaiting, suspended>>
        /\ protection_order # <<>> /\ Top(protection_order) = "with"
        /\ protection_order' = Popped(protection_order) /\ UNCHANGED handlers
    BY DEF UnwindContext, Dispatching
  <1>2. PICK open : Dispatched(open)
    BY <1>1 DEF Books
  <1>3. /\ IsSequence(open) /\ HeldBy(open, protection_order, handlers, with_contexts)
        /\ Onward(opened, Unwound(code, ip, unwound_with, open))
        /\ awaiting # NoAwait => Escaping(open)
    BY <1>2 DEF Dispatched, Held
  <1> DEFINE list == Popped(open)
  <1>4. open # <<>> /\ Top(open).kind = "with"
    BY <1>1, <1>3, NewestHeld
  <1>5. /\ with_contexts # <<>> /\ Top(with_contexts).manager = Top(open).manager
        /\ IsSequence(list)
        /\ HeldBy(list, Popped(protection_order), handlers, Popped(with_contexts))
    BY <1>3, <1>4, ManagerLeft, PlacesLeft
  <1>6. with_contexts' = Popped(with_contexts)
    BY <1>5 DEF UnwindContext
  <1>7. PICK result \in Results(Top(with_contexts).manager, FailsToExit)
                        \cup (IF Suppresses \in Top(with_contexts).manager THEN {"suppress"} ELSE {}) :
          CASE result \in Errors -> Escape(result)
            [] result = "ok" ->
                 /\ unwound_with' = unwound_with + 1
                 /\ UNCHANGED <<ip, stack, active_exception, raised, outcome>>
            [] OTHER ->
                 /\ stack' = <<>>
                 /\ ip' = After(code, ip, unwound_with + 1)
                 /\ raised' = NoError
                 /\ UNCHANGED <<active_exception, unwound_with, outcome>>
    BY <1>5 DEF UnwindContext
  <1>8. returning' = NoValue /\ ~suspended' /\ unwound_with \in Nat
    BY <1>1 DEF Modes
  <1>9. HeldBy(list, protection_order', handlers', with_contexts')
    BY <1>1, <1>5, <1>6
  <1>10. CASE result \in Errors
    <2>1. outcome' # Running
      <3>1. outcome' = Raises(result)
        <4>1. result # "ok"
          BY <1>10, ErrorsFacts
        <4> QED
          BY <1>7, <1>10, <4>1 DEF Escape
      <3>2. Raises(result).how # Running.how
        BY DEF Raises, Running
      <3> QED
        BY <3>1, <3>2
    <2> QED
      BY <2>1 DEF Books
  <1>11. CASE result = "ok"
    <2>1. /\ unwound_with' = unwound_with + 1 /\ UNCHANGED <<ip, raised>>
      <3>1. "ok" \notin Errors
        BY ErrorsFacts
      <3> QED
        BY <1>7, <1>11, <3>1
    <2>2. Unwound(code, ip, unwound_with + 1, list) \subseteq Unwound(code, ip, unwound_with, open)
      BY <1>3, <1>4, <1>8, UnwoundFurther
    <2>3. awaiting # NoAwait => Escaping(list)
      <3>1. /\ Len(open) \in Nat /\ Len(list) = Len(open) - 1
            /\ \A i \in 1 .. Len(open) - 1 : list[i] = open[i]
        BY <1>3, <1>4, LengthFacts, PlacesLeft
      <3> HIDE DEF list
      <3> QED
        BY <1>3, <3>1 DEF Escaping
    <2> HIDE DEF list
    <2>4. Onward(opened, Unwound(code, ip, unwound_with + 1, list))
      BY <1>3, <2>2 DEF Onward
    <2>5. Onward(opened, Unwound(code, ip', unwound_with', list))
      BY <2>1, <2>4
    <2> QED
      BY <1>1, <1>5, <1>8, <1>9, <2>1, <2>3, <2>5, Into
  <1>12. CASE result \notin Errors /\ result # "ok"
    <2>1. Suppresses \in Top(open).manager
      BY <1>5, <1>7, <1>12 DEF Results
    <2>2. ip' = After(code, ip, unwound_with + 1) /\ raised' = NoError
      BY <1>7, <1>12
    <2>3. Reaches(opened, <<After(code, ip, unwound_with + 1), list>>)
      BY <1>3, <1>4, <1>8, <2>1, UnwoundFirst DEF Onward
    <2>4. awaiting' = NoAwait
      <3>1. Len(open) \in Nat /\ Len(open) > 0
        BY <1>3, <1>4, LengthFacts
      <3>2. ~Escaping(open)
        BY <2>1, <3>1 DEF Escaping, Top
      <3> QED
        BY <1>1, <1>3, <3>2
    <2> HIDE DEF list
    <2>5. Reaches(opened, <<ip', list>>)
      BY <2>2, <2>3
    <2> QED
      BY <1>1, <1>5, <1>8, <1>9, <2>2, <2>4, <2>5, Onto
  <1> QED
    BY <1>10, <1>11, <1>12

LEMMA KeptInit == Init => Kept
  <1> SUFFICES ASSUME Init PROVE Kept
    OBVIOUS
  <1>1. Shape(stack)
    BY ShapeEmpty DEF Init
  <1>2. Modes
    BY DEF Init, Modes
  <1>3. ASSUME Functions[program].protected PROVE Books
    <2>1. Reaches(opened, <<1, <<>>>>)
      BY <1>2, <1>3, RecordFacts DEF Modes
    <2>2. 1 \in DOMAIN opened /\ opened[1] = <<>>
      BY <2>1 DEF Reaches
    <2>3. IsSequence(<<>>) /\ Len(<<>>) = 0
      BY ShapeEmpty, EmptySeq DEF Shape
    <2>4. HeldBy(<<>>, <<>>, <<>>, <<>>)
      <3>1. PICK none : none = <<>>
        OBVIOUS
      <3>2. IsSequence(none) /\ Len(none) = 0
        BY <2>3, <3>1
      <3>3. \A kind : Of(none, kind) = {}
        BY <3>2 DEF Of
      <3>4. Cardinality(Of(none, "try")) = 0 /\ Cardinality(Of(none, "with")) = 0
        BY <3>3, FS_EmptySet
      <3>5. HeldBy(none, none, none, none)
        BY <3>2, <3>3, <3>4 DEF HeldBy
      <3> QED
        BY <3>1, <3>5
    <2>5. Escaping(<<>>)
      BY <2>3 DEF Escaping
    <2>6. Onward(opened, Unwound(code, 1 + 1, 0, <<>>))
      BY <2>5, Escapes
    <2>7. Executing
      BY <2>2, <2>3, <2>4, <2>5, <2>6 DEF Executing, Held, Init
    <2> QED
      BY <2>7 DEF Books, Init
  <1> QED
    BY <1>1, <1>2, <1>3 DEF Kept, Books

LEMMA BooksStep == Shape(stack) /\ Modes /\ Books /\ [Next]_vars => Books'
  <1> SUFFICES ASSUME Shape(stack), Modes, Books, [Next]_vars PROVE Books'
    OBVIOUS
  <1>1. CASE UNCHANGED vars
    <2>1. Executing => Executing'
      BY <1>1 DEF Executing, Held, opened, code, vars, protection
    <2>2. \A open : Dispatched(open) => Dispatched(open)'
      BY <1>1 DEF Dispatched, Held, opened, code, vars, protection
    <2>3. \A open : Draining(open) => Draining(open)'
      BY <1>1 DEF Draining, Held, opened, code, vars, protection
    <2>4. Quiet => Quiet'
      BY <1>1 DEF Quiet, vars, protection
    <2> QED
      BY <1>1, <2>1, <2>2, <2>3, <2>4 DEF Books, vars
  <1>2. CASE ~Functions[program].protected
    <2>1. UNCHANGED program
      BY DEF Next, vars, ExecuteDo, ExecuteTest, ExecuteLoadConst, ExecutePopTop, ExecuteJump,
         ExecuteGetIter, ExecuteForIter, ExecuteWithEnter, ExecuteWithExit, ExecuteTryBegin,
         ExecuteTryEnd, ExecuteRaise, ExecuteMatch, ExecuteReturn, DrainContext, Leave,
         ExecuteYield, ExecuteAwait, Resume, ResumeAwait, Throw, Uncaught, Catch, UnwindContext,
         Executes, Dispatching
    <2> QED
      BY <1>2, <2>1 DEF Books
  <1>3. CASE Functions[program].protected /\ Next
    <2>1. CASE Leave \/ Uncaught
      <3>1. outcome' # Running
        BY <2>1 DEF Leave, Uncaught, Escape, Returns, Raises, Running
      <3> QED
        BY <3>1 DEF Books
    <2> QED
      BY <1>3, <2>1, PlainSteps, EnterStep, ExitStep, TryBeginStep, TryEndStep, ReturnStep,
         DrainStep, YieldStep, ResumeStep, AwaitStep, CatchStep, UnwindStep DEF Next
  <1> QED
    BY <1>1, <1>2, <1>3

LEMMA KeptHolds == Spec => []Kept
  <1>1. Kept /\ [Next]_vars => Kept'
    BY ShapeStep, ModesStep, BooksStep DEF Kept
  <1> QED
    BY KeptInit, <1>1, PTL DEF Spec

\* What is held says how many handlers and managers there are.
LEMMA Counted ==
  ASSUME NEW open, Held(open)
  PROVE  /\ Count(protection_order, "try") = Len(handlers)
         /\ Count(protection_order, "with") = Len(with_contexts)
  <1>1. /\ IsSequence(protection_order) /\ Len(protection_order) = Len(open)
        /\ \A i \in 1 .. Len(open) : protection_order[i] = open[i].kind
        /\ Len(handlers) = Cardinality(Of(open, "try"))
        /\ Len(with_contexts) = Cardinality(Of(open, "with"))
    BY DEF Held, HeldBy
  <1>2. DOMAIN protection_order = 1 .. Len(open)
    BY <1>1, LengthFacts
  <1>3. \A kind : {i \in DOMAIN protection_order : protection_order[i] = kind} = Of(open, kind)
    BY <1>1, <1>2 DEF Of
  <1> QED
    BY <1>1, <1>3 DEF Count

\* Whatever protected code the machine runs, whatever foreign code does and
\* however the frame is suspended and resumed, protection_order holds one entry
\* for each open handler and each entered manager (_run_frame).
THEOREM ListsStayInStep == Spec => []ProtectionInStep
  <1>1. Kept => ProtectionInStep
    <2> SUFFICES ASSUME Kept, Functions[program].protected, outcome = Running, returning = NoValue
                 PROVE  /\ Count(protection_order, "try") = Len(handlers)
                        /\ Count(protection_order, "with") = Len(with_contexts)
      BY DEF ProtectionInStep
    <2>1. PICK open : Held(open)
      <3>1. CASE raised = NoError
        BY <3>1 DEF Kept, Books, Executing
      <3>2. CASE raised # NoError
        BY <3>2 DEF Kept, Books, Dispatched
      <3> QED
        BY <3>1, <3>2
    <2> QED
      BY <2>1, Counted
  <1> QED
    BY KeptHolds, <1>1, PTL

(***************************************************************************)
(* Calls.                                                                  *)
(***************************************************************************)

USE DEF ToSet

\* Every value by position is that of its parameter, or in *args.
PositionsHeld ==
  /\ Len(positional) > Len(definition.args) => definition.vararg # None
  /\ \A i \in DOMAIN positional :
       i <= Len(definition.args) =>
         /\ definition.args[i] \in DOMAIN locals
         /\ locals[definition.args[i]] = positional[i]
  /\ definition.vararg # None =>
       /\ definition.vararg \in DOMAIN locals
       /\ locals[definition.vararg] =
            SubSeq(positional, Len(definition.args) + 1, Len(positional))

\* A keyword is still to be considered, or is the value of its parameter, or is
\* one that **kwargs will collect.
KeywordsHeld ==
  \A n \in DOMAIN kwargs :
    \/ n \in pending
    \/ n \in Takers(definition) /\ n \in DOMAIN locals /\ locals[n] = kwargs[n]
    \/ definition.kwarg # None /\ n \in Collected

\* The inductive invariant.
CallInv ==
  /\ TypeOK
  /\ positional \in Seq(Given(call))
  /\ phase = "bind" => pending = DOMAIN kwargs
  /\ phase \in {"match", "collect", "bound"} => PositionsHeld /\ KeywordsHeld
  /\ phase \in {"collect", "bound"} =>
       pending = {} /\ Takers(definition) \subseteq DOMAIN locals
  /\ phase = "bound" /\ definition.kwarg # None =>
       /\ definition.kwarg \in DOMAIN locals
       /\ locals[definition.kwarg] = [n \in Collected |-> kwargs[n]]

\* What the assumption says of the definition and the call at hand.
LEMMA WellNamed ==
  ASSUME TypeOK
  PROVE  /\ definition.args \in Seq(Takers(definition))
         /\ Len(definition.args) \in Nat
         /\ DOMAIN definition.args = 1 .. Len(definition.args)
         /\ \A i, j \in DOMAIN definition.args :
              definition.args[i] = definition.args[j] => i = j
         /\ definition.vararg \notin Takers(definition)
         /\ definition.kwarg \notin Takers(definition)
         /\ definition.vararg = definition.kwarg => definition.vararg = None
         /\ call.positional \in Seq(Seq(Given(call)))
  <1>1. IsWritten(definition) /\ call.positional \in Seq(Seq(Given(call)))
    BY VmCallsAssumption DEF TypeOK
  <1>2. Len(definition.args) \in Nat /\ DOMAIN definition.args = 1 .. Len(definition.args)
    BY <1>1, LenProperties DEF IsWritten
  <1> QED
    BY <1>1, <1>2 DEF IsWritten

LEMMA CallInvInit == CallInit => CallInv
  <1> SUFFICES ASSUME CallInit PROVE CallInv
    OBVIOUS
  <1>1. TypeOK
    BY DEF CallInit, TypeOK, NoLocals
  <1>2. positional \in Seq(Given(call))
    BY DEF CallInit
  <1> QED
    BY <1>1, <1>2 DEF CallInit, CallInv

LEMMA GatherStep ==
  ASSUME CallInv, GatherPositional \/ GatherKeywords \/ GatherKeyword \/ Enter
  PROVE  CallInv'
  <1>1. CASE GatherPositional
    <2>1. call.positional[read + 1] \in Seq(Given(call))
      <3>1. Len(call.positional) \in Nat /\ read + 1 \in 1 .. Len(call.positional)
        BY <1>1, WellNamed DEF CallInv, TypeOK, GatherPositional
      <3> QED
        BY <3>1, WellNamed, ElementOfSeq DEF CallInv
    <2>2. positional' \in Seq(Given(call'))
      BY <1>1, <2>1, ConcatProperties DEF CallInv, GatherPositional
    <2>3. TypeOK'
      BY <1>1 DEF CallInv, TypeOK, GatherPositional
    <2> QED
      BY <1>1, <2>2, <2>3 DEF CallInv, GatherPositional
  <1>2. CASE GatherKeywords
    <2>1. TypeOK'
      BY <1>2 DEF CallInv, TypeOK, GatherKeywords
    <2> QED
      BY <1>2, <2>1 DEF CallInv, GatherKeywords
  <1>3. CASE GatherKeyword
    <2>1. DOMAIN kwargs \subseteq DOMAIN kwargs'
      BY <1>3 DEF GatherKeyword, Updated
    <2>2. TypeOK'
      BY <1>3, <2>1 DEF CallInv, TypeOK, GatherKeyword
    <2> QED
      BY <1>3, <2>2 DEF CallInv, GatherKeyword
  <1>4. CASE Enter
    <2>1. TypeOK'
      BY <1>4 DEF CallInv, TypeOK, Enter
    <2> QED
      BY <1>4, <2>1 DEF CallInv, Enter
  <1> QED
    BY <1>1, <1>2, <1>3, <1>4

\* A refusal ends the call; nothing is said of it.
LEMMA RefusalStep ==
  ASSUME CallInv, Refuses PROVE CallInv'
  <1>1. TypeOK'
    BY DEF CallInv, TypeOK, Refuses, Goes
  <1> QED
    BY <1>1 DEF CallInv, Refuses, Goes

LEMMA BindStep ==
  ASSUME CallInv, BindPositions PROVE CallInv'
  <1>1. CASE Len(positional) > Len(definition.args) /\ definition.vararg = None
    BY <1>1, RefusalStep DEF BindPositions
  <1>2. CASE ~(Len(positional) > Len(definition.args) /\ definition.vararg = None)
    <2>1. /\ phase = "bind" /\ phase' = "match" /\ pending' = pending
          /\ locals' = BindByPosition
          /\ UNCHANGED <<definition, call, read, positional, kwargs>>
      BY <1>2 DEF BindPositions, Goes
    <2>2. Len(positional) \in Nat /\ DOMAIN positional = 1 .. Len(positional)
      BY DEF CallInv
    <2>3. \A i \in DOMAIN positional :
            i <= Len(definition.args) =>
              /\ definition.args[i] \in DOMAIN locals'
              /\ locals'[definition.args[i]] = positional[i]
      <3> SUFFICES ASSUME NEW i \in DOMAIN positional, i <= Len(definition.args)
                   PROVE  /\ definition.args[i] \in DOMAIN locals'
                          /\ locals'[definition.args[i]] = positional[i]
        OBVIOUS
      <3>1. i \in DOMAIN definition.args
        BY <2>2, WellNamed DEF CallInv
      <3>2. definition.args[i] \in Takers(definition)
        BY <3>1 DEF Takers
      <3>3. definition.args[i] # definition.vararg
        BY <3>2, WellNamed DEF CallInv
      <3>4. (CHOOSE j \in DOMAIN definition.args : definition.args[j] = definition.args[i]) = i
        BY <3>1, WellNamed DEF CallInv
      <3> QED
        BY <2>1, <3>3, <3>4 DEF BindByPosition
    <2>4. definition.vararg # None =>
            /\ definition.vararg \in DOMAIN locals'
            /\ locals'[definition.vararg] =
                 SubSeq(positional, Len(definition.args) + 1, Len(positional))
      BY <2>1 DEF BindByPosition
    <2>5. PositionsHeld'
      BY <1>2, <2>1, <2>3, <2>4 DEF PositionsHeld
    <2>6. KeywordsHeld'
      BY <2>1 DEF CallInv, KeywordsHeld
    <2>7. TypeOK'
      <3>1. \A i \in DOMAIN positional : i <= Len(definition.args) => i \in DOMAIN definition.args
        BY <2>2, WellNamed DEF CallInv
      <3>2. DOMAIN locals' \subseteq Parameters(definition)
        BY <2>1, <3>1 DEF BindByPosition, Parameters, Takers
      <3> QED
        BY <2>1, <3>2 DEF CallInv, TypeOK
    <2> QED
      BY <2>1, <2>5, <2>6, <2>7 DEF CallInv
  <1> QED
    BY <1>1, <1>2

\* A dictionary keeps what an update of other names leaves alone.
LEMMA UpdatedFacts ==
  ASSUME NEW old, NEW new
  PROVE  /\ DOMAIN Updated(old, new) = DOMAIN old \cup DOMAIN new
         /\ \A n \in DOMAIN new : Updated(old, new)[n] = new[n]
         /\ \A n \in DOMAIN old \ DOMAIN new : Updated(old, new)[n] = old[n]
  BY DEF Updated

\* What is held stays held while names of other parameters are bound.
LEMMA HeldStays ==
  ASSUME CallInv, phase \in {"match", "collect"}, NEW new,
         DOMAIN new \cap DOMAIN locals = {} \/ DOMAIN new = {definition.kwarg},
         definition.kwarg # None \/ DOMAIN new \cap DOMAIN locals = {},
         locals' = Updated(locals, new),
         UNCHANGED <<definition, call, positional, kwargs>>,
         pending' \subseteq pending
  PROVE  /\ PositionsHeld'
         /\ \A n \in DOMAIN kwargs \ pending :
              \/ n \in Takers(definition) /\ n \in DOMAIN locals' /\ locals'[n] = kwargs[n]
              \/ definition.kwarg # None /\ n \in Collected'
  <1>1. /\ DOMAIN locals' = DOMAIN locals \cup DOMAIN new
        /\ \A n \in DOMAIN locals \ DOMAIN new : locals'[n] = locals[n]
    BY DEF Updated
  <1>2. Collected' = Collected
    BY DEF Collected, IsPositionOnly
  <1>3. PositionsHeld /\ KeywordsHeld
    BY DEF CallInv
  <1>4. \A n \in Takers(definition) \cap DOMAIN locals : n \notin DOMAIN new
    BY WellNamed DEF CallInv
  <1>5. definition.vararg # None /\ definition.vararg \in DOMAIN locals =>
          definition.vararg \notin DOMAIN new
    BY WellNamed DEF CallInv
  <1>6. \A i \in DOMAIN positional :
          i <= Len(definition.args) => definition.args[i] \in Takers(definition)
    BY WellNamed DEF CallInv, Takers
  <1>7. PositionsHeld'
    BY <1>1, <1>3, <1>4, <1>5, <1>6 DEF PositionsHeld
  <1>8. \A n \in DOMAIN kwargs \ pending :
          \/ n \in Takers(definition) /\ n \in DOMAIN locals' /\ locals'[n] = kwargs[n]
          \/ definition.kwarg # None /\ n \in Collected'
    BY <1>1, <1>2, <1>3, <1>4 DEF KeywordsHeld
  <1> QED
    BY <1>7, <1>8

LEMMA MatchStep ==
  ASSUME CallInv, NEW n \in pending, MatchKeyword(n) PROVE CallInv'
  <1>1. CASE Refuses
    BY <1>1, RefusalStep
  <1>2. CASE /\ IsPositionOnly(n) /\ definition.kwarg # None
             /\ locals' = locals /\ pending' = pending \ {n} /\ Goes("match")
    <2>1. TypeOK'
      BY <1>2 DEF CallInv, TypeOK, Goes
    <2>2. /\ phase = "match" /\ n \in DOMAIN kwargs
          /\ UNCHANGED <<definition, call, read, positional, kwargs, locals>>
      BY <1>2 DEF Goes, MatchKeyword, CallInv, TypeOK
    <2>3. PositionsHeld'
      BY <2>2 DEF CallInv, PositionsHeld
    <2>4. KeywordsHeld'
      <3>1. Collected' = Collected /\ n \in Collected
        BY <1>2, <2>2 DEF Collected, IsPositionOnly
      <3> QED
        BY <1>2, <2>2, <3>1 DEF CallInv, KeywordsHeld
    <2> QED
      BY <1>2, <2>1, <2>3, <2>4 DEF CallInv, Goes
  <1>3. CASE /\ ~IsPositionOnly(n) /\ n \notin DOMAIN locals
             /\ n \in Takers(definition) \/ definition.kwarg # None
             /\ locals' = Updated(locals, [m \in {n} |-> kwargs[m]])
             /\ pending' = pending \ {n} /\ Goes("match")
    <2>1. /\ phase = "match" /\ phase' = "match"
          /\ UNCHANGED <<definition, call, read, positional, kwargs>>
      BY <1>3 DEF Goes, MatchKeyword
    <2>2. /\ PositionsHeld'
          /\ \A m \in DOMAIN kwargs \ pending :
               \/ m \in Takers(definition) /\ m \in DOMAIN locals' /\ locals'[m] = kwargs[m]
               \/ definition.kwarg # None /\ m \in Collected'
      <3> DEFINE new == [m \in {n} |-> kwargs[m]]
      <3>1. DOMAIN new \cap DOMAIN locals = {}
        BY <1>3
      <3>2. locals' = Updated(locals, new) /\ pending' \subseteq pending
        BY <1>3
      <3> HIDE DEF new
      <3> QED
        BY <2>1, <3>1, <3>2, HeldStays
    <2>3. n \in DOMAIN kwargs
      BY DEF CallInv, TypeOK
    <2>4. /\ DOMAIN locals' = DOMAIN locals \cup {n}
          /\ locals'[n] = kwargs[n]
      BY <1>3 DEF Updated
    <2>5. n \notin Takers(definition) => n \in Collected'
      BY <2>1, <2>3 DEF Collected
    <2>6. KeywordsHeld'
      BY <1>3, <2>1, <2>2, <2>4, <2>5 DEF KeywordsHeld
    <2>7. TypeOK'
      BY <1>3, <2>1, <2>3, <2>4 DEF CallInv, TypeOK
    <2> QED
      BY <2>1, <2>2, <2>6, <2>7 DEF CallInv
  <1> QED
    BY <1>1, <1>2, <1>3 DEF MatchKeyword

LEMMA DefaultsStep ==
  ASSUME CallInv, TakeDefaults PROVE CallInv'
  <1> DEFINE missing == Takers(definition) \ DOMAIN locals
             defaults == Updated(KwDefaults, [n \in Defaulted |-> Default(n)])
             new == [n \in missing |-> defaults[n]]
  <1>1. CASE Refuses
    BY <1>1, RefusalStep
  <1>2. CASE locals' = Updated(locals, new) /\ Goes("collect") /\ UNCHANGED pending
    <2>1. /\ phase = "match" /\ phase' = "collect" /\ pending = {} /\ pending' = {}
          /\ UNCHANGED <<definition, call, read, positional, kwargs>>
      BY <1>2 DEF Goes, TakeDefaults
    <2>2. DOMAIN new = missing
      OBVIOUS
    <2>3. DOMAIN locals' = DOMAIN locals \cup missing
      <3> HIDE DEF new, missing
      <3> QED
        BY <1>2, <2>2, UpdatedFacts
    <2>4. /\ PositionsHeld'
          /\ \A m \in DOMAIN kwargs \ pending :
               \/ m \in Takers(definition) /\ m \in DOMAIN locals' /\ locals'[m] = kwargs[m]
               \/ definition.kwarg # None /\ m \in Collected'
      <3>1. DOMAIN new \cap DOMAIN locals = {}
        BY <2>2
      <3> HIDE DEF new
      <3> QED
        BY <1>2, <2>1, <3>1, HeldStays
    <2>5. KeywordsHeld'
      BY <2>1, <2>4 DEF KeywordsHeld
    <2>6. Takers(definition) \subseteq DOMAIN locals'
      BY <2>3
    <2>7. TypeOK'
      BY <2>1, <2>3 DEF CallInv, TypeOK, Parameters
    <2> QED
      BY <2>1, <2>4, <2>5, <2>6, <2>7 DEF CallInv, Takers
  <1> QED
    BY <1>1, <1>2 DEF TakeDefaults

LEMMA CollectStep ==
  ASSUME CallInv, Collect PROVE CallInv'
  <1>1. /\ phase = "collect" /\ phase' = "bound" /\ pending' = pending /\ pending = {}
        /\ UNCHANGED <<definition, call, read, positional, kwargs>>
    BY DEF Collect, Goes, CallInv
  <1>2. Collected' = Collected /\ Takers(definition') = Takers(definition)
    BY <1>1 DEF Collected, IsPositionOnly
  <1>3. CASE definition.kwarg = None
    <2>1. locals' = locals
      BY <1>3 DEF Collect
    <2>2. TypeOK'
      BY <1>1, <2>1 DEF CallInv, TypeOK
    <2>3. PositionsHeld' /\ KeywordsHeld'
      BY <1>1, <1>2, <2>1 DEF CallInv, PositionsHeld, KeywordsHeld
    <2> QED
      BY <1>1, <1>2, <1>3, <2>1, <2>2, <2>3 DEF CallInv
  <1>4. CASE definition.kwarg # None
    <2> DEFINE collection == [m \in Collected |-> kwargs[m]]
               new == [n \in {definition.kwarg} |-> collection]
    <2>1. locals' = Updated(locals, new)
      BY <1>4 DEF Collect
    <2>2. DOMAIN new = {definition.kwarg} /\ new[definition.kwarg] = collection
      OBVIOUS
    <2> HIDE DEF new
    <2>3. /\ DOMAIN locals' = DOMAIN locals \cup {definition.kwarg}
          /\ locals'[definition.kwarg] = collection
      <3>1. /\ DOMAIN Updated(locals, new) = DOMAIN locals \cup DOMAIN new
            /\ \A n \in DOMAIN new : Updated(locals, new)[n] = new[n]
        BY UpdatedFacts
      <3> HIDE DEF collection
      <3> QED
        BY <2>1, <2>2, <3>1
    <2>4. /\ PositionsHeld'
          /\ \A m \in DOMAIN kwargs \ pending :
               \/ m \in Takers(definition) /\ m \in DOMAIN locals' /\ locals'[m] = kwargs[m]
               \/ definition.kwarg # None /\ m \in Collected'
      BY <1>1, <1>4, <2>1, <2>2, HeldStays
    <2>5. KeywordsHeld'
      BY <1>1, <2>4 DEF KeywordsHeld
    <2>6. TypeOK'
      BY <1>1, <1>4, <2>3 DEF CallInv, TypeOK, Parameters
    <2>7. collection = [m \in Collected' |-> kwargs'[m]]
      BY <1>1, <1>2
    <2> HIDE DEF collection
    <2>8. Takers(definition') \subseteq DOMAIN locals'
      BY <1>1, <1>2, <2>3 DEF CallInv
    <2> QED
      BY <1>1, <2>3, <2>4, <2>5, <2>6, <2>7, <2>8 DEF CallInv
  <1> QED
    BY <1>3, <1>4

LEMMA CallInvStep == CallInv /\ [CallNext]_callVars => CallInv'
  <1> SUFFICES ASSUME CallInv, [CallNext]_callVars PROVE CallInv'
    OBVIOUS
  <1>1. CASE GatherPositional \/ GatherKeywords \/ GatherKeyword \/ Enter
    BY <1>1, GatherStep
  <1>2. CASE BindPositions
    BY <1>2, BindStep
  <1>3. ASSUME NEW n \in pending, MatchKeyword(n) PROVE CallInv'
    BY <1>3, MatchStep
  <1>4. CASE TakeDefaults
    BY <1>4, DefaultsStep
  <1>5. CASE Collect
    BY <1>5, CollectStep
  <1>6. CASE UNCHANGED callVars
    <2>1. UNCHANGED <<definition, call, phase, read, positional, kwargs, pending, locals>>
      BY <1>6 DEF callVars
    <2>2. Collected' = Collected
      BY <2>1 DEF Collected, IsPositionOnly
    <2>3. TypeOK'
      BY <2>1 DEF CallInv, TypeOK
    <2>4. (PositionsHeld => PositionsHeld') /\ (KeywordsHeld => KeywordsHeld')
      BY <2>1, <2>2 DEF PositionsHeld, KeywordsHeld
    <2> QED
      BY <2>1, <2>2, <2>3, <2>4 DEF CallInv
  <1> QED
    BY <1>1, <1>2, <1>3, <1>4, <1>5, <1>6 DEF CallNext

LEMMA CallInvHolds == CallSpec => []CallInv
  BY CallInvInit, CallInvStep, PTL DEF CallSpec

\* However a function is defined and called: once the machine has bound the
\* call, every parameter has a value and every argument is in one (_call).
THEOREM ArgumentsArriveHolds == CallSpec => []ArgumentsArrive
  <1>1. CallInv => ArgumentsArrive
    <2> SUFFICES ASSUME CallInv, phase = "bound" PROVE
          /\ Parameters(definition) \subseteq DOMAIN locals
          /\ \A i \in DOMAIN positional :
               \/ i <= Len(definition.args) /\ locals[definition.args[i]] = positional[i]
               \/ /\ definition.vararg # None /\ i > Len(definition.args)
                  /\ i - Len(definition.args) \in DOMAIN locals[definition.vararg]
                  /\ locals[definition.vararg][i - Len(definition.args)] = positional[i]
          /\ \A n \in DOMAIN kwargs :
               \/ n \in Takers(definition) /\ locals[n] = kwargs[n]
               \/ /\ definition.kwarg # None /\ n \in Collected
                  /\ locals[definition.kwarg][n] = kwargs[n]
      BY DEF ArgumentsArrive
    <2>1. PositionsHeld /\ KeywordsHeld /\ pending = {}
      BY DEF CallInv
    <2>2. Parameters(definition) \subseteq DOMAIN locals
      BY <2>1 DEF CallInv, PositionsHeld, Parameters
    <2>3. ASSUME NEW i \in DOMAIN positional, i > Len(definition.args)
          PROVE  /\ definition.vararg # None
                 /\ i - Len(definition.args) \in DOMAIN locals[definition.vararg]
                 /\ locals[definition.vararg][i - Len(definition.args)] = positional[i]
      <3> DEFINE first == Len(definition.args) + 1
                 last == Len(positional)
      <3>1. /\ last \in Nat /\ DOMAIN positional = 1 .. last
            /\ positional \in Seq(Given(call))
        BY DEF CallInv
      <3>2. Len(definition.args) \in Nat
        BY WellNamed DEF CallInv
      <3>3. first \in Nat /\ first >= 1
        BY <3>2
      <3>4. i \in Nat /\ i >= first /\ i <= last
        BY <2>3, <3>1, <3>2
      <3>5. definition.vararg # None /\ locals[definition.vararg] = SubSeq(positional, first, last)
        <4>1. Len(positional) > Len(definition.args)
          BY <2>3, <3>1, <3>2
        <4> QED
          BY <2>1, <4>1 DEF PositionsHeld
      <3>6. i - Len(definition.args) \in 1 .. (last - first + 1)
            /\ first + (i - Len(definition.args)) - 1 = i
        <4> DEFINE k == Len(definition.args)
        <4>1. k \in Nat /\ last \in Nat /\ i \in Nat /\ i > k /\ i <= last /\ first = k + 1
          BY <2>3, <3>1, <3>2, <3>4
        <4> HIDE DEF k, last, first
        <4>2. i - k \in 1 .. (last - first + 1) /\ first + (i - k) - 1 = i
          BY ONLY <4>1
        <4> QED
          BY <4>2 DEF k
      <3> HIDE DEF first, last
      <3>7. \A j \in first .. last : positional[j] \in Given(call)
        BY <3>1, <3>3, ElementOfSeq
      <3>8. /\ DOMAIN SubSeq(positional, first, last) = 1 .. (last - first + 1)
            /\ \A j \in 1 .. (last - first + 1) :
                 SubSeq(positional, first, last)[j] = positional[first + j - 1]
        BY <3>1, <3>3, <3>4, <3>7, SubSeqProperties
      <3> QED
        BY <3>5, <3>6, <3>8
    <2>4. \A i \in DOMAIN positional :
            i <= Len(definition.args) => locals[definition.args[i]] = positional[i]
      BY <2>1 DEF PositionsHeld
    <2>5. \A n \in DOMAIN kwargs :
            \/ n \in Takers(definition) /\ locals[n] = kwargs[n]
            \/ /\ definition.kwarg # None /\ n \in Collected
               /\ locals[definition.kwarg][n] = kwargs[n]
      BY <2>1 DEF KeywordsHeld, CallInv
    <2>6. \A i \in DOMAIN positional : i <= Len(definition.args) \/ i > Len(definition.args)
      BY WellNamed DEF CallInv
    <2> QED
      BY <2>2, <2>3, <2>4, <2>5, <2>6
  <1> QED
    BY CallInvHolds, <1>1, PTL

(***************************************************************************)
(* That a call binds what Python binds.                                    *)
(***************************************************************************)
\* What the first k values of a call's positional arguments come to.
PrefixesOf(s) ==
  CHOOSE f : f = [i \in 1 .. Len(s) |-> IF i = 1 THEN s[i] ELSE f[i - 1] \o s[i]]
FlatTo(s, k) == IF k = 0 THEN <<>> ELSE PrefixesOf(s)[k]

\* Flattening, one argument at a time.
LEMMA Flattening ==
  ASSUME NEW S, NEW s \in Seq(Seq(S))
  PROVE  /\ FlattenSeq(s) = FlatTo(s, Len(s))
         /\ \A k \in 0 .. Len(s) - 1 : FlatTo(s, k + 1) = FlatTo(s, k) \o s[k + 1]
  <1> DEFINE last == Len(s)
             Flat(f, k) == f = [i \in 1 .. k |-> IF i = 1 THEN s[i] ELSE f[i - 1] \o s[i]]
             some == {k \in 0 .. last : \E f : Flat(f, k)}
  <1>1. last \in Nat /\ \A i \in 1 .. last : s[i] \in Seq(S)
    BY LenProperties, ElementOfSeq
  <1>2. 0 \in some
    <2> DEFINE f == [i \in 1 .. 0 |-> s[i]]
    <2>1. Flat(f, 0)
      OBVIOUS
    <2>2. 0 \in 0 .. last
      BY <1>1
    <2> HIDE DEF f, Flat, last
    <2> QED
      BY <2>1, <2>2
  <1>3. ASSUME NEW k \in 0 .. last - 1, k \in some PROVE k + 1 \in some
    <2>1. PICK f : Flat(f, k)
      BY <1>3
    <2> DEFINE g == [i \in 1 .. k + 1 |->
                       IF i <= k THEN f[i] ELSE IF i = 1 THEN s[i] ELSE f[i - 1] \o s[i]]
    <2>2. ASSUME NEW i \in 1 .. k + 1
          PROVE  g[i] = IF i = 1 THEN s[i] ELSE g[i - 1] \o s[i]
      <3>1. i # 1 => i - 1 \in 1 .. k /\ i - 1 \in 1 .. k + 1 /\ i - 1 <= k
        OBVIOUS
      <3>2. i # 1 => g[i - 1] = f[i - 1]
        BY <3>1
      <3>3. CASE i <= k
        <4>1. i \in 1 .. k /\ g[i] = f[i]
          BY <3>3
        <4>2. f[i] = IF i = 1 THEN s[i] ELSE f[i - 1] \o s[i]
          BY <2>1, <4>1
        <4> HIDE DEF g
        <4> QED
          BY <3>2, <4>1, <4>2
      <3>4. CASE ~(i <= k)
        <4>1. g[i] = IF i = 1 THEN s[i] ELSE f[i - 1] \o s[i]
          BY <3>4
        <4> HIDE DEF g
        <4> QED
          BY <3>2, <4>1
      <3> QED
        BY <3>3, <3>4
    <2>3. g = [i \in 1 .. k + 1 |-> g[i]]
      OBVIOUS
    <2>4. Flat(g, k + 1)
      <3> HIDE DEF g
      <3> QED
        BY <2>2, <2>3
    <2>5. k + 1 \in 0 .. last
      BY <1>1
    <2> HIDE DEF g, Flat
    <2> QED
      BY <2>4, <2>5
  <1>4. last \in some
    <2>1. \A k \in 0 .. last - 1 : k \in some => k + 1 \in some
      BY <1>3
    <2>2. last \in 0 .. last
      BY <1>1
    <2> HIDE DEF some, last
    <2> QED
      BY <1>1, <1>2, <2>1, <2>2, UpTo
  <1> DEFINE p == PrefixesOf(s)
  <1>5. Flat(p, last)
    <2>1. \E f : Flat(f, last)
      BY <1>4
    <2> QED
      BY <2>1 DEF PrefixesOf
  <1>6. \A i \in 1 .. last : p[i] = IF i = 1 THEN s[i] ELSE p[i - 1] \o s[i]
    <2> HIDE DEF p, last
    <2> QED
      BY <1>5
  <1>7. FlattenSeq(s) = FlatTo(s, last)
    <2>1. CASE last = 0
      <3>1. s = <<>>
        BY <2>1, EmptySeq
      <3> QED
        BY <2>1, <3>1 DEF FlattenSeq, FlatTo
    <2>2. CASE last # 0
      BY <2>2 DEF FlattenSeq, FlatTo, PrefixesOf
    <2> QED
      BY <2>1, <2>2
  <1>8. ASSUME NEW k \in 0 .. last - 1 PROVE FlatTo(s, k + 1) = FlatTo(s, k) \o s[k + 1]
    <2>1. k + 1 \in 1 .. last /\ k + 1 # 0 /\ k + 1 - 1 = k
      BY <1>1
    <2>2. FlatTo(s, k + 1) = p[k + 1]
      BY <2>1 DEF FlatTo
    <2>3. CASE k = 0
      <3>1. p[k + 1] = s[1] /\ s[1] \in Seq(S)
        BY <1>1, <1>6, <2>1, <2>3
      <3>2. <<>> \o s[1] = s[1]
        BY <3>1, ConcatEmptySeq
      <3> QED
        BY <2>2, <2>3, <3>1, <3>2 DEF FlatTo
    <2>4. CASE k # 0
      <3>1. p[k + 1] = p[k] \o s[k + 1]
        <4>1. k + 1 \in 1 .. last /\ k + 1 # 1 /\ k + 1 - 1 = k
          BY <2>1, <2>4
        <4>2. PICK m \in 1 .. last : m = k + 1
          BY <4>1
        <4>3. m # 1 /\ m - 1 = k
          BY <4>1, <4>2
        <4> HIDE DEF p, last
        <4>4. p[m] = p[m - 1] \o s[m]
          BY ONLY <1>6, <4>3, m \in 1 .. last
        <4> QED
          BY ONLY <4>2, <4>3, <4>4
      <3>2. FlatTo(s, k) = p[k]
        BY <2>4 DEF FlatTo
      <3> QED
        BY <2>2, <3>1, <3>2
    <2> QED
      BY <2>3, <2>4
  <1> QED
    BY <1>7, <1>8

\* The names in a part of a sequence.
LEMMA Slice ==
  ASSUME NEW S, NEW s \in Seq(S), NEW a \in Nat, a >= 1, NEW b \in Nat, b <= Len(s)
  PROVE  ToSet(SubSeq(s, a, b)) = {s[i] : i \in a .. b}
  <1> DEFINE t == SubSeq(s, a, b)
  <1>1. \A i \in a .. b : s[i] \in S
    BY LenProperties, ElementOfSeq
  <1>2. /\ t \in Seq(S) /\ Len(t) = IF a <= b THEN b - a + 1 ELSE 0
        /\ \A i \in 1 .. b - a + 1 : t[i] = s[a + i - 1]
    BY <1>1, SubSeqProperties
  <1>3. DOMAIN t = 1 .. b - a + 1
    <2>1. DOMAIN t = 1 .. Len(t)
      BY <1>2, LenProperties
    <2> HIDE DEF t
    <2> QED
      BY <1>2, <2>1
  <1> HIDE DEF t
  <1>4. ASSUME NEW i \in DOMAIN t PROVE \E j \in a .. b : t[i] = s[j]
    <2>1. i \in 1 .. b - a + 1 /\ a + i - 1 \in a .. b
      BY <1>3
    <2> QED
      BY <1>2, <2>1
  <1>5. ASSUME NEW j \in a .. b PROVE \E i \in DOMAIN t : t[i] = s[j]
    <2>1. j - a + 1 \in 1 .. b - a + 1 /\ a + (j - a + 1) - 1 = j
      OBVIOUS
    <2> QED
      BY <1>2, <1>3, <2>1
  <1>6. {t[i] : i \in DOMAIN t} = {s[i] : i \in a .. b}
    BY <1>4, <1>5
  <1> QED
    BY <1>6 DEF t

LEMMA Written ==
  ASSUME TypeOK
  PROVE  /\ IsWritten(definition)
         /\ call.positional \in Seq(Seq(Given(call)))
         /\ call.keywords \in Seq(ToSet(call.keywords))
  BY VmCallsAssumption DEF TypeOK

\* Where keyword-only names with a default are the last, each of them has its
\* own default.
LEMMA KeywordDefaults ==
  ASSUME TypeOK, IsSupported(definition, call)
  PROVE  /\ DOMAIN KwDefaults = definition.kwdefaults
         /\ \A n \in definition.kwdefaults : KwDefaults[n] = Default(n)
  <1> DEFINE names == definition.kwonly
             last == Len(names)
             D == KwDefaulted
             skipped == last - Cardinality(D)
  <1>1. /\ last \in Nat /\ DOMAIN names = 1 .. last
        /\ \A i, j \in 1 .. last : names[i] = names[j] => i = j
        /\ definition.kwdefaults \subseteq {names[i] : i \in 1 .. last}
        /\ names \in Seq(Takers(definition))
    BY Written, LenProperties DEF IsWritten
  <1>2. /\ D = {j \in 1 .. last : names[j] \in definition.kwdefaults}
        /\ D \in SUBSET Nat
    BY <1>1 DEF KwDefaulted
  <1>3. \A i \in D : \A j \in 1 .. last : i < j => j \in D
    BY <1>1, <1>2 DEF IsSupported
  <1>4. ASSUME NEW i \in 1 .. last, NEW j \in D, names[i] = names[j] PROVE i = j
    BY <1>1, <1>2, <1>4
  <1> HIDE DEF D, last
  <1>5. \E m \in 0 .. last : D = m + 1 .. last
    <2>1. CASE D = {}
      <3>1. last \in 0 .. last /\ D = last + 1 .. last
        BY <1>1, <2>1
      <3> QED
        BY <3>1
    <2>2. CASE D # {}
      <3>1. PICK a \in D : \A i \in D : a <= i
        BY <1>2, <2>2, Least
      <3>2. a \in 1 .. last /\ a - 1 \in 0 .. last /\ a - 1 + 1 = a
        BY <1>1, <1>2
      <3>3. ASSUME NEW i \in a .. last PROVE i \in D
        BY <1>1, <1>3, <3>2
      <3>4. D = a .. last
        BY <1>1, <1>2, <3>1, <3>2, <3>3
      <3> QED
        BY <3>2, <3>4
    <2> QED
      BY <2>1, <2>2
  <1>6. PICK m \in 0 .. last : D = m + 1 .. last
    BY <1>5
  <1>7. skipped = m
    <2>1. Cardinality(m + 1 .. last) = IF m + 1 > last THEN 0 ELSE last - (m + 1) + 1
      BY <1>1, FS_Interval
    <2> QED
      BY <1>1, <1>6, <2>1
  <1>8. ASSUME NEW j \in D PROVE Cardinality(D \cap (1 .. j)) = j - m
    <2>1. j \in m + 1 .. last /\ j \in Int /\ m + 1 \in Int
      BY <1>1, <1>6
    <2>2. D \cap (1 .. j) = m + 1 .. j
      BY <1>1, <1>6, <2>1
    <2>3. Cardinality(m + 1 .. j) = IF m + 1 > j THEN 0 ELSE j - (m + 1) + 1
      BY <2>1, FS_Interval
    <2>4. Cardinality(D \cap (1 .. j)) = Cardinality(m + 1 .. j)
      BY ONLY <2>2
    <2>5. j \in Int /\ m \in Int /\ ~(m + 1 > j)
      BY <1>1, <2>1
    <2>6. Cardinality(m + 1 .. j) = j - m
      BY ONLY <2>3, <2>5
    <2> QED
      BY ONLY <2>4, <2>6
  <1>9. ASSUME NEW j \in D PROVE WithDefault(j - m) = names[j]
    <2>1. ASSUME NEW i \in D, Cardinality(D \cap (1 .. i)) = j - m PROVE i = j
      BY <1>1, <1>2, <1>6, <1>8, <2>1
    <2>2. Cardinality(D \cap (1 .. j)) = j - m
      BY <1>8
    <2>3. (CHOOSE i \in D : Cardinality(D \cap (1 .. i)) = j - m) = j
      BY ONLY <2>1, <2>2, j \in D
    <2>4. WithDefault(j - m) = names[CHOOSE i \in D : Cardinality(D \cap (1 .. i)) = j - m]
      BY DEF WithDefault, D
    <2> HIDE DEF names
    <2> QED
      BY ONLY <2>3, <2>4
  <1>10. {names[i] : i \in D} = definition.kwdefaults
    BY <1>1, <1>2
  <1>11. DOMAIN KwDefaults = definition.kwdefaults
    <2>1. ToSet(SubSeq(names, m + 1, Len(names))) = {names[i] : i \in m + 1 .. Len(names)}
      <3> HIDE DEF names
      <3>1. m + 1 \in Nat /\ m + 1 >= 1
        OBVIOUS
      <3> DEFINE first == m + 1
                 end == Len(names)
      <3>2. /\ first \in Nat /\ first >= 1 /\ names \in Seq(Takers(definition))
            /\ end \in Nat /\ end <= Len(names)
        BY <1>1, <3>1 DEF last
      <3> HIDE DEF first, end, ToSet
      <3>3. ToSet(SubSeq(names, first, end)) = {names[i] : i \in first .. end}
        BY ONLY <3>2, Slice
      <3> QED
        BY <3>3 DEF first, end
    <2>2. DOMAIN KwDefaults = ToSet(SubSeq(names, skipped + 1, Len(names)))
      BY DEF KwDefaults, D, last
    <2> QED
      BY <1>6, <1>7, <1>10, <2>1, <2>2 DEF last
  <1>12. ASSUME NEW n \in definition.kwdefaults PROVE KwDefaults[n] = Default(n)
    <2>1. PICK j \in D : names[j] = n
      BY <1>10
    <2>2. j \in 1 .. last
      BY <1>2
    <2>3. (CHOOSE i \in DOMAIN names : names[i] = n) = j
      BY <1>1, <1>4, <2>1, <2>2
    <2>4. KwDefaults[n] = Default(WithDefault((CHOOSE i \in DOMAIN names : names[i] = n) - skipped))
      <3>1. n \in DOMAIN KwDefaults
        BY <1>11
      <3> QED
        BY <3>1 DEF KwDefaults, D, last
    <2>5. WithDefault(j - m) = n
      BY <1>9, <2>1
    <2> QED
      BY <1>7, <2>3, <2>4, <2>5
  <1> QED
    BY <1>11, <1>12

\* The names that take positions only are the first, and a keyword fills the
\* others.
LEMMA Fills ==
  ASSUME TypeOK
  PROVE  Fillable(definition) = {n \in Takers(definition) : ~IsPositionOnly(n)}
  <1> DEFINE names == definition.args
             k == definition.posonly
             next == k + 1
             last == Len(names)
             others == {definition.kwonly[i] : i \in DOMAIN definition.kwonly}
  <1>1. /\ last \in Nat /\ DOMAIN names = 1 .. last
        /\ \A i, j \in 1 .. last : names[i] = names[j] => i = j
        /\ names \in Seq(Takers(definition))
        /\ k \in 0 .. last
    BY Written, LenProperties DEF IsWritten
  <1>2. ASSUME NEW i \in 1 .. last PROVE names[i] \notin others
    BY <1>1, Written DEF IsWritten
  <1>3. Takers(definition) = {names[i] : i \in 1 .. last} \cup others
    BY <1>1 DEF Takers
  <1>4. Fillable(definition) = ToSet(SubSeq(names, next, last)) \cup others
    BY DEF Fillable
  <1>5. \A n : IsPositionOnly(n) <=> n \in ToSet(SubSeq(names, 1, k))
    BY DEF IsPositionOnly
  <1> HIDE DEF ToSet
  <1>6. /\ next \in Nat /\ next >= 1 /\ last <= Len(names) /\ k \in Nat /\ k <= Len(names)
        /\ 1 \in Nat /\ 1 >= 1
    BY <1>1
  <1> HIDE DEF next, last, k, names, others
  <1>7. ToSet(SubSeq(names, next, last)) = {names[i] : i \in next .. last}
    BY ONLY <1>1, <1>6, Slice
  <1>8. ToSet(SubSeq(names, 1, k)) = {names[i] : i \in 1 .. k}
    BY ONLY <1>1, <1>6, Slice
  <1>9. \A i \in 1 .. last : i \in 1 .. k <=> i \notin next .. last
    BY <1>1 DEF next
  <1>10. \A i \in 1 .. k : i \in 1 .. last
    BY <1>1
  <1>11. \A i \in next .. last : i \in 1 .. last
    BY <1>1 DEF next
  <1>12. ASSUME NEW n \in Fillable(definition)
         PROVE  n \in Takers(definition) /\ ~IsPositionOnly(n)
    BY <1>1, <1>2, <1>3, <1>4, <1>5, <1>7, <1>8, <1>9, <1>10, <1>11
  <1>13. ASSUME NEW n \in Takers(definition), ~IsPositionOnly(n)
         PROVE  n \in Fillable(definition)
    BY <1>1, <1>3, <1>4, <1>5, <1>7, <1>8, <1>9, <1>13
  <1> QED
    BY <1>12, <1>13

\* The parameters that the values by position reach.
Placed == {definition.args[i] : i \in {j \in DOMAIN positional : j <= Len(definition.args)}}

\* What Python passes by position, of the values gathered.
LEMMA Positions ==
  ASSUME TypeOK, positional \in Seq(Given(call))
  PROVE  /\ Placed \subseteq Takers(definition)
         /\ \A n : n \notin Placed <=> ByPosition(definition, positional, n) = {}
         /\ \A i \in DOMAIN positional :
              i <= Len(definition.args) =>
                /\ definition.args[i] \in Placed
                /\ ByPosition(definition, positional, definition.args[i]) = {positional[i]}
  <1>1. /\ Len(positional) \in Nat /\ DOMAIN positional = 1 .. Len(positional)
        /\ Len(definition.args) \in Nat
        /\ DOMAIN definition.args = 1 .. Len(definition.args)
    BY WellNamed, LenProperties
  <1>2. \A i \in DOMAIN positional : i <= Len(definition.args) => i \in DOMAIN definition.args
    BY <1>1
  <1>3. Placed \subseteq Takers(definition)
    BY <1>2 DEF Placed, Takers
  <1>4. ASSUME NEW n PROVE n \notin Placed <=> ByPosition(definition, positional, n) = {}
    BY DEF Placed, ByPosition
  <1>5. ASSUME NEW i \in DOMAIN positional, i <= Len(definition.args)
        PROVE  /\ definition.args[i] \in Placed
               /\ ByPosition(definition, positional, definition.args[i]) = {positional[i]}
    <2>1. \A j \in DOMAIN positional :
            j <= Len(definition.args) /\ definition.args[j] = definition.args[i] => j = i
      BY <1>2, <1>5, WellNamed
    <2> QED
      BY <1>5, <2>1 DEF Placed, ByPosition
  <1> QED
    BY <1>3, <1>4, <1>5

(***************************************************************************)
(* The invariant: how far the call is, and what is bound by then.          *)
(***************************************************************************)
\* The keywords of the call that kwargs has.
KeywordCount ==
  CASE phase = "positional" -> 0
    [] phase = "keywords" -> read
    [] OTHER -> Len(call.keywords)

\* What has been read of the call is what is gathered.
Gathered ==
  /\ phase = "positional" =>
       read <= Len(call.positional) /\ positional = FlatTo(call.positional, read)
  /\ phase # "positional" => positional = FlattenSeq(call.positional)
  /\ phase = "keywords" => read <= Len(call.keywords)
  /\ DOMAIN kwargs = UNION {DOMAIN call.keywords[i] : i \in 1 .. KeywordCount}
  /\ \A i \in 1 .. KeywordCount :
       \A n \in DOMAIN call.keywords[i] : kwargs[n] = call.keywords[i][n]

\* Until the defaults are taken, the locals are what positions and keywords bound.
BoundSoFar ==
  phase = "match" =>
    DOMAIN locals = Placed \cup ({definition.vararg} \ {None})
                      \cup {n \in DOMAIN kwargs \ pending : ~IsPositionOnly(n)}

\* A keyword that was considered belongs to the parameter of its name, which no
\* position reached, or to **kwargs.
Considered ==
  phase \in {"match", "collect", "bound"} =>
    \A n \in DOMAIN kwargs \ pending :
      IF IsPositionOnly(n) THEN definition.kwarg # None
      ELSE /\ n \notin Placed
           /\ n \in Takers(definition) \/ definition.kwarg # None
           /\ n \in Takers(definition) => n \in DOMAIN locals /\ locals[n] = kwargs[n]

\* A parameter that nothing reached has its default.
DefaultsTaken ==
  phase \in {"collect", "bound"} =>
    \A n \in Takers(definition) \ Placed :
      n \notin DOMAIN kwargs \/ IsPositionOnly(n) =>
        /\ HasDefault(definition, n)
        /\ n \in DOMAIN locals /\ locals[n] = Default(n)

Follow ==
  IsSupported(definition, call) =>
    /\ Gathered /\ BoundSoFar /\ Considered /\ DefaultsTaken
    /\ phase = "refused" => ~Accepts(definition, call)

\* Once they are gathered, the keywords are those Python has.
LEMMA GatheredKeywords ==
  ASSUME TypeOK, IsSupported(definition, call), Gathered, phase \notin {"positional", "keywords"}
  PROVE  /\ DOMAIN AllKeywords(call.keywords) = DOMAIN kwargs
         /\ \A n \in DOMAIN kwargs : AllKeywords(call.keywords)[n] = kwargs[n]
  <1> DEFINE kw == call.keywords
             last == Len(kw)
  <1>1. last \in Nat /\ DOMAIN kw = 1 .. last
    BY Written, LenProperties
  <1>2. KeywordCount = last
    BY DEF KeywordCount
  <1> HIDE DEF last
  <1>3. /\ DOMAIN kwargs = UNION {DOMAIN kw[i] : i \in DOMAIN kw}
        /\ \A i \in DOMAIN kw : \A n \in DOMAIN kw[i] : kwargs[n] = kw[i][n]
    BY <1>1, <1>2 DEF Gathered
  <1>4. DOMAIN AllKeywords(kw) = UNION {DOMAIN kw[i] : i \in DOMAIN kw}
    BY DEF AllKeywords
  <1>5. ASSUME NEW n \in DOMAIN kwargs PROVE AllKeywords(kw)[n] = kwargs[n]
    <2> DEFINE first == CHOOSE i \in DOMAIN kw : n \in DOMAIN kw[i]
    <2>1. first \in DOMAIN kw /\ n \in DOMAIN kw[first]
      BY <1>3
    <2>2. AllKeywords(kw)[n] = kw[first][n]
      BY <1>3, <1>4 DEF AllKeywords
    <2> HIDE DEF first
    <2> QED
      BY <1>3, <2>1, <2>2
  <1> QED
    BY <1>3, <1>4, <1>5

\* Python's judgement of the call, in terms of what is gathered.
LEMMA Accepted ==
  ASSUME TypeOK, positional \in Seq(Given(call)), IsSupported(definition, call), Gathered,
         phase \notin {"positional", "keywords"}
  PROVE  Accepts(definition, call) <=>
           /\ Len(positional) <= Len(definition.args) \/ definition.vararg # None
           /\ \A n \in DOMAIN kwargs :
                (n \in Takers(definition) /\ ~IsPositionOnly(n)) \/ definition.kwarg # None
           /\ \A n \in Takers(definition) :
                /\ n \notin Placed \/ n \notin DOMAIN kwargs \/ IsPositionOnly(n)
                /\ n \notin Placed /\ (n \notin DOMAIN kwargs \/ IsPositionOnly(n)) =>
                     HasDefault(definition, n)
  <1> DEFINE keywords == AllKeywords(call.keywords)
  <1>1. FlattenSeq(call.positional) = positional
    BY DEF Gathered
  <1>2. DOMAIN keywords = DOMAIN kwargs
    BY GatheredKeywords
  <1>3. ASSUME NEW n \in Takers(definition)
        PROVE  ByKeyword(definition, keywords, n) = {} <=>
                 n \notin DOMAIN kwargs \/ IsPositionOnly(n)
    BY <1>2, Fills DEF ByKeyword
  <1>4. ~IsRepeated(call.keywords)
    BY DEF IsSupported
  <1>5. DOMAIN keywords \subseteq Fillable(definition) <=>
          \A n \in DOMAIN kwargs : n \in Takers(definition) /\ ~IsPositionOnly(n)
    BY <1>2, Fills
  <1>6. \A n : n \notin Placed <=> ByPosition(definition, positional, n) = {}
    BY Positions
  <1> DEFINE P(n) == ByPosition(definition, positional, n)
             K(n) == ByKeyword(definition, keywords, n)
  <1>7. Accepts(definition, call) <=>
          /\ Len(positional) <= Len(definition.args) \/ definition.vararg # None
          /\ DOMAIN keywords \subseteq Fillable(definition) \/ definition.kwarg # None
          /\ \A n \in Takers(definition) :
               /\ P(n) = {} \/ K(n) = {}
               /\ P(n) \cup K(n) = {} => HasDefault(definition, n)
    BY <1>1, <1>4 DEF Accepts
  <1>8. \A n : P(n) \cup K(n) = {} <=> P(n) = {} /\ K(n) = {}
    OBVIOUS
  <1>9. \A n \in Takers(definition) :
          /\ n \notin Placed <=> P(n) = {}
          /\ n \notin DOMAIN kwargs \/ IsPositionOnly(n) <=> K(n) = {}
    BY <1>3, <1>6
  <1> HIDE DEF P, K, keywords
  <1> QED
    BY ONLY <1>5, <1>7, <1>8, <1>9

\* What Python passes to a parameter, in terms of what is gathered.
LEMMA Passed ==
  ASSUME TypeOK, positional \in Seq(Given(call)), IsSupported(definition, call), Gathered,
         phase \notin {"positional", "keywords"}
  PROVE  /\ \A i \in DOMAIN positional :
              /\ i <= Len(definition.args)
              /\ definition.args[i] \notin DOMAIN kwargs \/ IsPositionOnly(definition.args[i])
              => Passes(definition, call)[definition.args[i]] = positional[i]
         /\ \A n \in Takers(definition) \ Placed :
              Passes(definition, call)[n] =
                IF n \in DOMAIN kwargs /\ ~IsPositionOnly(n) THEN kwargs[n] ELSE Default(n)
         /\ definition.vararg # None =>
              Passes(definition, call)[definition.vararg] =
                SubSeq(positional, Len(definition.args) + 1, Len(positional))
         /\ definition.kwarg # None =>
              Passes(definition, call)[definition.kwarg] = [n \in Collected |-> kwargs[n]]
  <1> DEFINE keywords == AllKeywords(call.keywords)
             values(n) == ByPosition(definition, positional, n) \cup ByKeyword(definition, keywords, n)
             rest == SubSeq(positional, Len(definition.args) + 1, Len(positional))
             left == [k \in DOMAIN keywords \ Fillable(definition) |-> keywords[k]]
  <1>1. FlattenSeq(call.positional) = positional
    BY DEF Gathered
  <1>2. DOMAIN keywords = DOMAIN kwargs /\ \A n \in DOMAIN kwargs : keywords[n] = kwargs[n]
    BY GatheredKeywords
  <1>3. Passes(definition, call) =
          [n \in Parameters(definition) |->
             CASE n = definition.vararg -> rest
               [] n = definition.kwarg -> left
               [] OTHER -> IF values(n) = {} THEN Default(n) ELSE CHOOSE v \in values(n) : TRUE]
    BY <1>1 DEF Passes
  <1>4. /\ Takers(definition) \subseteq Parameters(definition)
        /\ definition.vararg # None => definition.vararg \in Parameters(definition)
        /\ definition.kwarg # None => definition.kwarg \in Parameters(definition)
    BY DEF Parameters
  <1>5. /\ definition.vararg \notin Takers(definition)
        /\ definition.kwarg \notin Takers(definition)
        /\ definition.vararg = definition.kwarg => definition.vararg = None
    BY WellNamed
  <1>6. \A n \in Takers(definition) :
          IF n \in DOMAIN kwargs /\ ~IsPositionOnly(n)
          THEN ByKeyword(definition, keywords, n) = {kwargs[n]}
          ELSE ByKeyword(definition, keywords, n) = {}
    BY <1>2, Fills DEF ByKeyword
  <1>7. left = [n \in Collected |-> kwargs[n]]
    <2>1. DOMAIN keywords \ Fillable(definition) = Collected
      BY <1>2, Fills DEF Collected
    <2>2. Collected \subseteq DOMAIN kwargs
      BY DEF Collected
    <2> HIDE DEF keywords
    <2> QED
      BY <1>2, <2>1, <2>2
  <1>8. /\ Placed \subseteq Takers(definition)
        /\ \A n : n \notin Placed <=> ByPosition(definition, positional, n) = {}
        /\ \A i \in DOMAIN positional :
             i <= Len(definition.args) =>
               /\ definition.args[i] \in Placed
               /\ ByPosition(definition, positional, definition.args[i]) = {positional[i]}
    BY Positions
  <1>9. \A v, S : S = {v} => S # {} /\ (CHOOSE w \in S : TRUE) = v
    OBVIOUS
  <1> HIDE DEF rest, left, keywords
  <1>10. \A n \in Takers(definition) :
           Passes(definition, call)[n] =
             IF values(n) = {} THEN Default(n) ELSE CHOOSE v \in values(n) : TRUE
    BY <1>3, <1>4, <1>5
  <1>11. ASSUME NEW i \in DOMAIN positional, i <= Len(definition.args),
                definition.args[i] \notin DOMAIN kwargs \/ IsPositionOnly(definition.args[i])
         PROVE  Passes(definition, call)[definition.args[i]] = positional[i]
    <2>1. definition.args[i] \in Takers(definition)
      BY <1>8, <1>11
    <2>2. values(definition.args[i]) = {positional[i]}
      BY <1>6, <1>8, <1>11, <2>1
    <2> HIDE DEF values
    <2> QED
      BY <1>9, <1>10, <2>1, <2>2
  <1>12. ASSUME NEW n \in Takers(definition) \ Placed
         PROVE  Passes(definition, call)[n] =
                  IF n \in DOMAIN kwargs /\ ~IsPositionOnly(n) THEN kwargs[n] ELSE Default(n)
    <2>1. IF n \in DOMAIN kwargs /\ ~IsPositionOnly(n)
          THEN values(n) = {kwargs[n]} ELSE values(n) = {}
      BY <1>6, <1>8
    <2> HIDE DEF values
    <2> QED
      BY <1>9, <1>10, <2>1
  <1>13. definition.vararg # None => Passes(definition, call)[definition.vararg] = rest
    BY <1>3, <1>4, <1>5
  <1>14. definition.kwarg # None => Passes(definition, call)[definition.kwarg] = left
    BY <1>3, <1>4, <1>5
  <1> QED
    BY <1>7, <1>11, <1>12, <1>13, <1>14 DEF rest

LEMMA FollowInit == CallInit => Follow
  <1> SUFFICES ASSUME CallInit PROVE Gathered /\ BoundSoFar /\ Considered /\ DefaultsTaken
    BY DEF CallInit, Follow
  <1>1. /\ phase = "positional" /\ read = 0 /\ positional = <<>> /\ kwargs = NoLocals
        /\ call \in Calls
    BY DEF CallInit
  <1>2. Len(call.positional) \in Nat
    BY <1>1, VmCallsAssumption, LenProperties
  <1>3. KeywordCount = 0
    BY <1>1 DEF KeywordCount
  <1>4. DOMAIN kwargs = {} /\ 1 .. KeywordCount = {}
    BY <1>1, <1>3 DEF NoLocals
  <1>5. positional = FlatTo(call.positional, read) /\ read <= Len(call.positional)
    BY <1>1, <1>2 DEF FlatTo
  <1>6. Gathered
    BY <1>1, <1>4, <1>5 DEF Gathered
  <1> QED
    BY <1>1, <1>6 DEF BoundSoFar, Considered, DefaultsTaken

LEMMA GatherFollows ==
  ASSUME CallInv, Follow, GatherPositional \/ GatherKeywords \/ GatherKeyword \/ Enter
  PROVE  Follow'
  <1> SUFFICES ASSUME IsSupported(definition, call)
               PROVE  Gathered' /\ BoundSoFar' /\ Considered' /\ DefaultsTaken' /\ phase' # "refused"
    <2>1. definition' = definition /\ call' = call
      BY DEF GatherPositional, GatherKeywords, GatherKeyword, Enter
    <2> QED
      BY <2>1 DEF Follow
  <1>1. Gathered
    BY DEF Follow
  <1>2. /\ call.positional \in Seq(Seq(Given(call))) /\ Len(call.positional) \in Nat
        /\ Len(call.keywords) \in Nat /\ DOMAIN call.keywords = 1 .. Len(call.keywords)
        /\ read \in Nat
    BY Written, LenProperties DEF CallInv, TypeOK
  <1>3. phase' \in {"positional", "keywords", "bind"}
    BY DEF GatherPositional, GatherKeywords, GatherKeyword, Enter
  <1>4. BoundSoFar' /\ Considered' /\ DefaultsTaken' /\ phase' # "refused"
    BY <1>3 DEF BoundSoFar, Considered, DefaultsTaken
  <1>5. CASE GatherPositional
    <2>1. /\ phase = "positional" /\ read < Len(call.positional) /\ read' = read + 1
          /\ positional' = positional \o call.positional[read + 1]
          /\ phase' = phase /\ kwargs' = kwargs /\ call' = call
      BY <1>5 DEF GatherPositional
    <2>2. KeywordCount = 0 /\ KeywordCount' = 0
      BY <2>1 DEF KeywordCount
    <2>3. /\ FlattenSeq(call.positional) = FlatTo(call.positional, Len(call.positional))
          /\ \A k \in 0 .. Len(call.positional) - 1 :
               FlatTo(call.positional, k + 1) = FlatTo(call.positional, k) \o call.positional[k + 1]
      BY <1>2, Flattening
    <2>4. read \in 0 .. Len(call.positional) - 1 /\ read + 1 <= Len(call.positional)
      BY <1>2, <2>1
    <2>5. positional' = FlatTo(call'.positional, read') /\ read' <= Len(call'.positional)
      BY <1>1, <2>1, <2>3, <2>4 DEF Gathered
    <2>6. /\ DOMAIN kwargs' = UNION {DOMAIN call'.keywords[i] : i \in 1 .. KeywordCount'}
          /\ \A i \in 1 .. KeywordCount' :
               \A n \in DOMAIN call'.keywords[i] : kwargs'[n] = call'.keywords[i][n]
      BY <1>1, <2>1, <2>2 DEF Gathered
    <2>7. Gathered'
      BY <2>1, <2>5, <2>6 DEF Gathered
    <2> QED
      BY <1>4, <2>7
  <1>6. CASE GatherKeywords
    <2>1. /\ phase = "positional" /\ read = Len(call.positional) /\ read' = 0
          /\ positional' = positional
          /\ phase' = "keywords" /\ kwargs' = kwargs /\ call' = call
      BY <1>6 DEF GatherKeywords
    <2>2. KeywordCount = 0 /\ KeywordCount' = 0
      BY <2>1 DEF KeywordCount
    <2>3. FlattenSeq(call.positional) = FlatTo(call.positional, Len(call.positional))
      BY <1>2, Flattening
    <2>4. positional' = FlattenSeq(call'.positional) /\ read' <= Len(call'.keywords)
      BY <1>1, <1>2, <2>1, <2>3 DEF Gathered
    <2>5. /\ DOMAIN kwargs' = UNION {DOMAIN call'.keywords[i] : i \in 1 .. KeywordCount'}
          /\ \A i \in 1 .. KeywordCount' :
               \A n \in DOMAIN call'.keywords[i] : kwargs'[n] = call'.keywords[i][n]
      BY <1>1, <2>1, <2>2 DEF Gathered
    <2>6. Gathered'
      BY <2>1, <2>4, <2>5 DEF Gathered
    <2> QED
      BY <1>4, <2>6
  <1>7. CASE GatherKeyword
    <2>1. /\ phase = "keywords" /\ read < Len(call.keywords) /\ read' = read + 1
          /\ kwargs' = Updated(kwargs, call.keywords[read + 1])
          /\ positional' = positional /\ phase' = phase /\ call' = call
      BY <1>7 DEF GatherKeyword
    <2>2. KeywordCount = read /\ KeywordCount' = read + 1
      BY <2>1 DEF KeywordCount
    <2>3. read + 1 \in 1 .. Len(call.keywords) /\ read + 1 <= Len(call.keywords)
      BY <1>2, <2>1
    <2>4. PICK next \in 1 .. Len(call.keywords) : next = read + 1
      BY <2>3
    <2>5. \A i \in 1 .. read + 1 : i = next \/ i \in 1 .. read
      BY <1>2, <2>4
    <2>6. \A i \in 1 .. read : i \in 1 .. read + 1 /\ i # next /\ i \in DOMAIN call.keywords
      BY <1>2, <2>1, <2>4
    <2>7. next \in 1 .. read + 1 /\ next \in DOMAIN call.keywords
      BY <1>2, <2>4
    <2>8. /\ DOMAIN kwargs = UNION {DOMAIN call.keywords[i] : i \in 1 .. read}
          /\ \A i \in 1 .. read : \A n \in DOMAIN call.keywords[i] : kwargs[n] = call.keywords[i][n]
      BY <1>1, <2>2 DEF Gathered
    <2> DEFINE kw == call.keywords[next]
    <2>9. kwargs' = Updated(kwargs, kw)
      BY <2>1, <2>4
    <2>10. \A i \in 1 .. read : DOMAIN call.keywords[i] \cap DOMAIN kw = {}
      BY <2>6, <2>7 DEF IsSupported, IsRepeated
    <2> HIDE DEF kw
    <2>11. /\ DOMAIN kwargs' = DOMAIN kwargs \cup DOMAIN kw
           /\ \A n \in DOMAIN kw : kwargs'[n] = kw[n]
           /\ \A n \in DOMAIN kwargs \ DOMAIN kw : kwargs'[n] = kwargs[n]
      BY <2>9 DEF Updated
    <2>12. DOMAIN kwargs' = UNION {DOMAIN call.keywords[i] : i \in 1 .. read + 1}
      <3> DEFINE D(i) == DOMAIN call.keywords[i]
      <3>1. /\ DOMAIN kwargs' = (UNION {D(i) : i \in 1 .. read}) \cup D(next)
            /\ \A i \in 1 .. read + 1 : i = next \/ i \in 1 .. read
            /\ \A i \in 1 .. read : i \in 1 .. read + 1
            /\ next \in 1 .. read + 1
        BY <2>5, <2>6, <2>7, <2>8, <2>11 DEF kw
      <3> HIDE DEF D
      <3>2. UNION {D(i) : i \in 1 .. read + 1} = (UNION {D(i) : i \in 1 .. read}) \cup D(next)
        BY ONLY <3>1
      <3> QED
        BY <3>1, <3>2 DEF D
    <2>13. ASSUME NEW i \in 1 .. read + 1, NEW n \in DOMAIN call.keywords[i]
           PROVE  kwargs'[n] = call.keywords[i][n]
      <3>1. CASE i = next
        BY <2>11, <3>1 DEF kw
      <3>2. CASE i # next
        <4>1. i \in 1 .. read
          BY <2>5, <3>2
        <4>2. n \in DOMAIN kwargs /\ n \notin DOMAIN kw /\ kwargs[n] = call.keywords[i][n]
          BY <2>8, <2>10, <4>1
        <4> QED
          BY <2>11, <4>2
      <3> QED
        BY <3>1, <3>2
    <2>14. Gathered'
      BY <1>1, <2>1, <2>2, <2>3, <2>12, <2>13 DEF Gathered
    <2> QED
      BY <1>4, <2>14
  <1>8. CASE Enter
    <2>1. /\ phase = "keywords" /\ read = Len(call.keywords)
          /\ kwargs' = kwargs /\ positional' = positional /\ phase' = "bind" /\ call' = call
      BY <1>8 DEF Enter
    <2>2. KeywordCount = Len(call.keywords) /\ KeywordCount' = Len(call.keywords)
      BY <2>1 DEF KeywordCount
    <2>3. Gathered'
      BY <1>1, <2>1, <2>2 DEF Gathered
    <2> QED
      BY <1>4, <2>3
  <1> QED
    BY <1>5, <1>6, <1>7, <1>8

\* Nothing is gathered once the call is entered.
LEMMA StaysGathered ==
  ASSUME Gathered, phase \notin {"positional", "keywords"}, phase' \notin {"positional", "keywords"},
         UNCHANGED <<call, positional, kwargs>>
  PROVE  Gathered'
  <1>1. KeywordCount' = KeywordCount
    BY DEF KeywordCount
  <1> QED
    BY <1>1 DEF Gathered

\* A call that Python rejects may be refused.
LEMMA RefusalFollows ==
  ASSUME Follow, Refuses, phase \notin {"positional", "keywords"}, ~Accepts(definition, call)
  PROVE  Follow'
  <1>1. /\ phase' = "refused" /\ ~Accepts(definition', call')
        /\ UNCHANGED <<definition, call, positional, kwargs>>
    BY DEF Refuses, Goes
  <1>2. Gathered => Gathered'
    BY <1>1, StaysGathered
  <1> QED
    BY <1>1, <1>2 DEF Follow, BoundSoFar, Considered, DefaultsTaken

LEMMA BindFollows ==
  ASSUME CallInv, Follow, BindPositions PROVE Follow'
  <1> SUFFICES ASSUME IsSupported(definition, call) PROVE Follow'
    BY DEF BindPositions, Refuses, Goes, Follow
  <1>1. TypeOK /\ positional \in Seq(Given(call)) /\ phase = "bind" /\ pending = DOMAIN kwargs
    BY DEF CallInv, BindPositions
  <1>2. Gathered
    BY DEF Follow
  <1>3. CASE Len(positional) > Len(definition.args) /\ definition.vararg = None
    <2>1. ~(Len(positional) <= Len(definition.args))
      BY <1>1, <1>3, WellNamed, LenProperties
    <2>2. ~Accepts(definition, call)
      BY <1>1, <1>2, <1>3, <2>1, Accepted
    <2> QED
      BY <1>1, <1>3, <2>2, RefusalFollows DEF BindPositions
  <1>4. CASE ~(Len(positional) > Len(definition.args) /\ definition.vararg = None)
    <2>1. /\ phase' = "match" /\ pending' = pending /\ locals' = BindByPosition
          /\ UNCHANGED <<definition, call, positional, kwargs>>
      BY <1>4 DEF BindPositions, Goes
    <2>2. Gathered'
      BY <1>1, <1>2, <2>1, StaysGathered
    <2>3. Placed' = Placed
      BY <2>1 DEF Placed
    <2>4. DOMAIN locals' = Placed \cup ({definition.vararg} \ {None})
      BY <2>1 DEF BindByPosition, Placed
    <2>5. DOMAIN kwargs' \ pending' = {}
      BY <1>1, <2>1
    <2>6. BoundSoFar' /\ Considered' /\ DefaultsTaken' /\ phase' # "refused"
      BY <2>1, <2>3, <2>4, <2>5 DEF BoundSoFar, Considered, DefaultsTaken
    <2> QED
      BY <2>2, <2>6 DEF Follow
  <1> QED
    BY <1>3, <1>4

LEMMA MatchFollows ==
  ASSUME CallInv, Follow, NEW n \in pending, MatchKeyword(n) PROVE Follow'
  <1> SUFFICES ASSUME IsSupported(definition, call) PROVE Follow'
    BY DEF MatchKeyword, Refuses, Goes, Follow
  <1>1. TypeOK /\ positional \in Seq(Given(call)) /\ phase = "match" /\ n \in DOMAIN kwargs
    BY DEF CallInv, TypeOK, MatchKeyword
  <1>2. Gathered /\ BoundSoFar /\ Considered /\ DefaultsTaken
    BY DEF Follow
  <1>3. Placed \subseteq Takers(definition)
    BY <1>1, Positions
  <1>4. DOMAIN locals = Placed \cup ({definition.vararg} \ {None})
                          \cup {m \in DOMAIN kwargs \ pending : ~IsPositionOnly(m)}
    BY <1>1, <1>2 DEF BoundSoFar
  <1>5. ASSUME Refuses, ~Accepts(definition, call) PROVE Follow'
    BY <1>1, <1>5, RefusalFollows
  <1>6. ASSUME definition.kwarg = None, n \notin Takers(definition) \/ IsPositionOnly(n)
        PROVE  ~Accepts(definition, call)
    BY <1>1, <1>2, <1>6, Accepted
  <1>7. CASE Refuses /\ IsPositionOnly(n) /\ definition.kwarg = None
    BY <1>5, <1>6, <1>7
  <1>8. CASE Refuses /\ ~IsPositionOnly(n) /\ n \in DOMAIN locals
    <2>1. n \in Placed \/ (n = definition.vararg /\ definition.vararg # None)
      BY <1>4, <1>8
    <2>2. CASE n \in Placed
      <3>1. n \in Takers(definition)
        BY <1>3, <2>2
      <3>2. ~Accepts(definition, call)
        BY <1>1, <1>2, <1>8, <2>2, <3>1, Accepted
      <3> QED
        BY <1>5, <1>8, <3>2
    <2>3. CASE n = definition.vararg /\ definition.vararg # None
      <3>1. n \notin Takers(definition)
        BY <1>1, <2>3, WellNamed
      <3>2. \E i \in DOMAIN call.keywords : n \in DOMAIN call.keywords[i]
        <4>1. n \in DOMAIN AllKeywords(call.keywords)
          BY <1>1, <1>2, GatheredKeywords
        <4> QED
          BY <4>1 DEF AllKeywords
      <3>3. definition.kwarg = None
        BY <2>3, <3>2 DEF IsSupported
      <3> QED
        BY <1>5, <1>6, <1>8, <3>1, <3>3
    <2> QED
      BY <2>1, <2>2, <2>3
  <1>9. CASE Refuses /\ n \notin Takers(definition) /\ definition.kwarg = None
    BY <1>5, <1>6, <1>9
  <1>10. CASE /\ IsPositionOnly(n) /\ definition.kwarg # None
              /\ locals' = locals /\ pending' = pending \ {n} /\ Goes("match")
    <2>1. /\ phase' = "match" /\ UNCHANGED <<definition, call, positional, kwargs, locals>>
          /\ DOMAIN kwargs \ pending' = (DOMAIN kwargs \ pending) \cup {n}
      BY <1>1, <1>10 DEF Goes
    <2>2. Gathered' /\ Placed' = Placed
      BY <1>1, <1>2, <2>1, StaysGathered DEF Placed
    <2>3. \A m : IsPositionOnly(m)' <=> IsPositionOnly(m)
      BY <2>1 DEF IsPositionOnly
    <2>4. BoundSoFar'
      BY <1>4, <1>10, <2>1, <2>2, <2>3 DEF BoundSoFar
    <2>5. Considered'
      BY <1>1, <1>2, <1>10, <2>1, <2>2, <2>3 DEF Considered
    <2>6. DefaultsTaken'
      BY <2>1 DEF DefaultsTaken
    <2> QED
      BY <2>1, <2>2, <2>4, <2>5, <2>6 DEF Follow
  <1>11. CASE /\ ~IsPositionOnly(n) /\ n \notin DOMAIN locals
              /\ n \in Takers(definition) \/ definition.kwarg # None
              /\ locals' = Updated(locals, [m \in {n} |-> kwargs[m]])
              /\ pending' = pending \ {n} /\ Goes("match")
    <2>1. /\ phase' = "match" /\ UNCHANGED <<definition, call, positional, kwargs>>
          /\ DOMAIN kwargs \ pending' = (DOMAIN kwargs \ pending) \cup {n}
      BY <1>1, <1>11 DEF Goes
    <2>2. Gathered' /\ Placed' = Placed
      BY <1>1, <1>2, <2>1, StaysGathered DEF Placed
    <2>3. \A m : IsPositionOnly(m)' <=> IsPositionOnly(m)
      BY <2>1 DEF IsPositionOnly
    <2>4. /\ DOMAIN locals' = DOMAIN locals \cup {n} /\ locals'[n] = kwargs[n]
          /\ \A m \in DOMAIN locals : locals'[m] = locals[m]
      BY <1>11 DEF Updated
    <2>5. BoundSoFar'
      BY <1>4, <1>11, <2>1, <2>2, <2>3, <2>4 DEF BoundSoFar
    <2>6. n \notin Placed
      BY <1>4, <1>11
    <2>7. Considered'
      BY <1>1, <1>2, <1>11, <2>1, <2>2, <2>3, <2>4, <2>6 DEF Considered
    <2>8. DefaultsTaken'
      BY <2>1 DEF DefaultsTaken
    <2> QED
      BY <2>1, <2>2, <2>5, <2>7, <2>8 DEF Follow
  <1> QED
    BY <1>7, <1>8, <1>9, <1>10, <1>11 DEF MatchKeyword

LEMMA DefaultsFollow ==
  ASSUME CallInv, Follow, TakeDefaults PROVE Follow'
  <1> SUFFICES ASSUME IsSupported(definition, call) PROVE Follow'
    BY DEF TakeDefaults, Refuses, Goes, Follow
  <1> DEFINE missing == Takers(definition) \ DOMAIN locals
             tail == [n \in Defaulted |-> Default(n)]
             defaults == Updated(KwDefaults, tail)
             new == [n \in missing |-> defaults[n]]
  <1>1. TypeOK /\ positional \in Seq(Given(call)) /\ phase = "match" /\ pending = {}
    BY DEF CallInv, TakeDefaults
  <1>2. Gathered /\ BoundSoFar /\ Considered
    BY DEF Follow
  <1>3. \A n : HasDefault(definition, n) <=> n \in Defaulted \cup definition.kwdefaults
    BY DEF HasDefault, Defaulted
  <1>4. /\ DOMAIN defaults = definition.kwdefaults \cup Defaulted
        /\ \A n \in DOMAIN defaults : defaults[n] = Default(n)
    <2>1. /\ DOMAIN KwDefaults = definition.kwdefaults
          /\ \A n \in definition.kwdefaults : KwDefaults[n] = Default(n)
      BY <1>1, KeywordDefaults
    <2>2. DOMAIN tail = Defaulted /\ \A n \in Defaulted : tail[n] = Default(n)
      OBVIOUS
    <2> HIDE DEF tail
    <2> QED
      BY <2>1, <2>2 DEF Updated
  <1>5. \A n \in Takers(definition) :
          n \in missing <=> n \notin Placed /\ (n \notin DOMAIN kwargs \/ IsPositionOnly(n))
    <2>1. definition.vararg \notin Takers(definition)
      BY <1>1, WellNamed
    <2>2. DOMAIN locals = Placed \cup ({definition.vararg} \ {None})
                            \cup {n \in DOMAIN kwargs : ~IsPositionOnly(n)}
      BY <1>1, <1>2 DEF BoundSoFar
    <2> QED
      BY <2>1, <2>2
  <1> HIDE DEF defaults, missing
  <1>6. CASE ~(missing \subseteq DOMAIN defaults)
    <2>1. PICK n \in missing : n \notin DOMAIN defaults
      BY <1>6
    <2>2. n \in Takers(definition)
      BY DEF missing
    <2>3. ~HasDefault(definition, n)
      BY <1>3, <1>4, <2>1
    <2>4. ~Accepts(definition, call)
      BY <1>1, <1>2, <1>5, <2>2, <2>3, Accepted
    <2> QED
      BY <1>1, <1>6, <2>4, RefusalFollows DEF TakeDefaults, missing, defaults
  <1>7. CASE missing \subseteq DOMAIN defaults
    <2>1. /\ phase' = "collect" /\ pending' = pending /\ locals' = Updated(locals, new)
          /\ UNCHANGED <<definition, call, positional, kwargs>>
      BY <1>7 DEF TakeDefaults, missing, defaults, Goes
    <2>2. Gathered' /\ Placed' = Placed
      BY <1>1, <1>2, <2>1, StaysGathered DEF Placed
    <2>3. \A m : /\ IsPositionOnly(m)' <=> IsPositionOnly(m)
                 /\ HasDefault(definition', m) <=> HasDefault(definition, m)
      BY <2>1 DEF IsPositionOnly
    <2>4. DOMAIN new = missing /\ \A n \in missing : new[n] = Default(n)
      BY <1>4, <1>7
    <2> HIDE DEF new
    <2>5. /\ DOMAIN locals' = DOMAIN locals \cup missing
          /\ \A n \in missing : locals'[n] = Default(n)
          /\ \A n \in DOMAIN locals : locals'[n] = locals[n]
      <3>1. \A n \in DOMAIN locals : n \notin missing
        BY DEF missing
      <3> QED
        BY <2>1, <2>4, <3>1 DEF Updated
    <2>6. Considered'
      BY <1>1, <1>2, <2>1, <2>2, <2>3, <2>5 DEF Considered
    <2>7. ASSUME NEW n \in Takers(definition) \ Placed, n \notin DOMAIN kwargs \/ IsPositionOnly(n)
          PROVE  HasDefault(definition, n) /\ n \in DOMAIN locals' /\ locals'[n] = Default(n)
      <3>1. n \in missing
        BY <1>5, <2>7
      <3> QED
        BY <1>3, <1>4, <1>7, <2>5, <3>1
    <2>8. DefaultsTaken'
      BY <2>1, <2>2, <2>3, <2>7 DEF DefaultsTaken
    <2>9. BoundSoFar'
      BY <2>1 DEF BoundSoFar
    <2> QED
      BY <2>1, <2>2, <2>6, <2>8, <2>9 DEF Follow
  <1> QED
    BY <1>6, <1>7

LEMMA CollectFollows ==
  ASSUME CallInv, Follow, Collect PROVE Follow'
  <1> SUFFICES ASSUME IsSupported(definition, call) PROVE Follow'
    BY DEF Collect, Goes, Follow
  <1>1. /\ TypeOK /\ phase = "collect" /\ phase' = "bound" /\ pending' = pending
        /\ UNCHANGED <<definition, call, positional, kwargs>>
    BY DEF CallInv, Collect, Goes
  <1>2. Gathered /\ Considered /\ DefaultsTaken
    BY DEF Follow
  <1>3. \A m \in Takers(definition) :
          m \in DOMAIN locals => m \in DOMAIN locals' /\ locals'[m] = locals[m]
    <2>1. definition.kwarg \notin Takers(definition)
      BY <1>1, WellNamed
    <2>2. CASE definition.kwarg = None
      BY <2>2 DEF Collect
    <2>3. CASE definition.kwarg # None
      <3> DEFINE new == [n \in {definition.kwarg} |-> [m \in Collected |-> kwargs[m]]]
      <3>1. locals' = Updated(locals, new) /\ DOMAIN new = {definition.kwarg}
        BY <2>3 DEF Collect
      <3> HIDE DEF new
      <3> QED
        BY <2>1, <3>1 DEF Updated
    <2> QED
      BY <2>2, <2>3
  <1>4. Gathered' /\ Placed' = Placed
    BY <1>1, <1>2, StaysGathered DEF Placed
  <1>5. \A m : /\ IsPositionOnly(m)' <=> IsPositionOnly(m)
               /\ HasDefault(definition', m) <=> HasDefault(definition, m)
    BY <1>1 DEF IsPositionOnly
  <1>6. Considered'
    BY <1>1, <1>2, <1>3, <1>4, <1>5 DEF Considered
  <1>7. DefaultsTaken'
    BY <1>1, <1>2, <1>3, <1>4, <1>5 DEF DefaultsTaken
  <1>8. BoundSoFar'
    BY <1>1 DEF BoundSoFar
  <1> QED
    BY <1>1, <1>4, <1>6, <1>7, <1>8 DEF Follow

LEMMA FollowStep == CallInv /\ Follow /\ [CallNext]_callVars => Follow'
  <1> SUFFICES ASSUME CallInv, Follow, [CallNext]_callVars PROVE Follow'
    OBVIOUS
  <1>1. CASE GatherPositional \/ GatherKeywords \/ GatherKeyword \/ Enter
    BY <1>1, GatherFollows
  <1>2. CASE BindPositions
    BY <1>2, BindFollows
  <1>3. ASSUME NEW n \in pending, MatchKeyword(n) PROVE Follow'
    BY <1>3, MatchFollows
  <1>4. CASE TakeDefaults
    BY <1>4, DefaultsFollow
  <1>5. CASE Collect
    BY <1>5, CollectFollows
  <1>6. CASE UNCHANGED callVars
    <2>1. UNCHANGED <<definition, call, phase, read, positional, kwargs, pending, locals>>
      BY <1>6 DEF callVars
    <2>2. /\ Placed' = Placed /\ KeywordCount' = KeywordCount
          /\ \A m : IsPositionOnly(m)' <=> IsPositionOnly(m)
      BY <2>1 DEF Placed, KeywordCount, IsPositionOnly
    <2>3. Gathered => Gathered'
      BY <2>1, <2>2 DEF Gathered
    <2>4. (BoundSoFar => BoundSoFar') /\ (DefaultsTaken => DefaultsTaken')
      BY <2>1, <2>2 DEF BoundSoFar, DefaultsTaken
    <2>5. Considered => Considered'
      BY <2>1, <2>2 DEF Considered
    <2> QED
      BY <2>1, <2>3, <2>4, <2>5 DEF Follow
  <1> QED
    BY <1>1, <1>2, <1>3, <1>4, <1>5, <1>6 DEF CallNext

LEMMA FollowHolds == CallSpec => []Follow
  <1>1. CallInv /\ Follow /\ [CallNext]_callVars => Follow'
    BY FollowStep
  <1> QED
    BY FollowInit, CallInvHolds, <1>1, PTL DEF CallSpec

\* However a function is defined and called, where the names are as Python has
\* them: the machine refuses what Python refuses, and gives every parameter of a
\* call it accepts the value that Python gives it (CALL_KW, _call).
THEOREM CallsAsInPython == CallSpec => []CallsFollowPython
  <1>1. CallInv /\ Follow => CallsFollowPython
    <2> SUFFICES ASSUME CallInv, Follow, IsSupported(definition, call), phase = "bound"
                 PROVE  /\ Accepts(definition, call)
                        /\ \A n \in Parameters(definition) :
                             locals[n] = Passes(definition, call)[n]
      BY DEF CallsFollowPython, Follow
    <2>1. /\ TypeOK /\ positional \in Seq(Given(call)) /\ pending = {} /\ PositionsHeld
          /\ definition.kwarg # None => locals[definition.kwarg] = [n \in Collected |-> kwargs[n]]
      BY DEF CallInv
    <2>2. Gathered /\ Considered /\ DefaultsTaken
      BY DEF Follow
    <2>3. /\ Len(positional) \in Nat /\ Len(definition.args) \in Nat
          /\ Placed \subseteq Takers(definition)
      BY <2>1, WellNamed, LenProperties, Positions
    <2>4. ASSUME NEW n \in DOMAIN kwargs
          PROVE  IF IsPositionOnly(n) THEN definition.kwarg # None
                 ELSE /\ n \notin Placed
                      /\ n \in Takers(definition) \/ definition.kwarg # None
                      /\ n \in Takers(definition) => locals[n] = kwargs[n]
      BY <2>1, <2>2 DEF Considered
    <2>5. \A n \in Takers(definition) \ Placed :
            n \notin DOMAIN kwargs \/ IsPositionOnly(n) =>
              HasDefault(definition, n) /\ locals[n] = Default(n)
      BY <2>2 DEF DefaultsTaken
    <2>6. Accepts(definition, call)
      <3>1. Len(positional) <= Len(definition.args) \/ definition.vararg # None
        BY <2>1, <2>3 DEF PositionsHeld
      <3>2. \A n \in DOMAIN kwargs :
              (n \in Takers(definition) /\ ~IsPositionOnly(n)) \/ definition.kwarg # None
        BY <2>4
      <3>3. \A n \in Takers(definition) :
              /\ n \notin Placed \/ n \notin DOMAIN kwargs \/ IsPositionOnly(n)
              /\ n \notin Placed /\ (n \notin DOMAIN kwargs \/ IsPositionOnly(n)) =>
                   HasDefault(definition, n)
        BY <2>4, <2>5
      <3> QED
        BY <2>1, <2>2, <3>1, <3>2, <3>3, Accepted
    <2>7. /\ \A i \in DOMAIN positional :
               /\ i <= Len(definition.args)
               /\ definition.args[i] \notin DOMAIN kwargs \/ IsPositionOnly(definition.args[i])
               => Passes(definition, call)[definition.args[i]] = positional[i]
          /\ \A n \in Takers(definition) \ Placed :
               Passes(definition, call)[n] =
                 IF n \in DOMAIN kwargs /\ ~IsPositionOnly(n) THEN kwargs[n] ELSE Default(n)
          /\ definition.vararg # None =>
               Passes(definition, call)[definition.vararg] =
                 SubSeq(positional, Len(definition.args) + 1, Len(positional))
          /\ definition.kwarg # None =>
               Passes(definition, call)[definition.kwarg] = [n \in Collected |-> kwargs[n]]
      BY <2>1, <2>2, Passed
    <2>8. ASSUME NEW n \in Placed PROVE locals[n] = Passes(definition, call)[n]
      <3>1. PICK i \in DOMAIN positional : i <= Len(definition.args) /\ definition.args[i] = n
        BY DEF Placed
      <3>2. n \notin DOMAIN kwargs \/ IsPositionOnly(n)
        BY <2>4
      <3>3. Passes(definition, call)[n] = positional[i]
        BY <2>7, <3>1, <3>2
      <3> QED
        BY <2>1, <3>1, <3>3 DEF PositionsHeld
    <2>9. ASSUME NEW n \in Takers(definition) \ Placed
          PROVE  locals[n] = Passes(definition, call)[n]
      BY <2>4, <2>5, <2>7
    <2>10. definition.vararg # None =>
             locals[definition.vararg] = Passes(definition, call)[definition.vararg]
      BY <2>1, <2>7 DEF PositionsHeld
    <2>11. definition.kwarg # None =>
             locals[definition.kwarg] = Passes(definition, call)[definition.kwarg]
      BY <2>1, <2>7
    <2> QED
      BY <2>6, <2>8, <2>9, <2>10, <2>11 DEF Parameters
  <1> QED
    BY CallInvHolds, FollowHolds, <1>1, PTL
=============================================================================
