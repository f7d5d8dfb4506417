---------------------------- MODULE PythonClasses ----------------------------
(***************************************************************************)
(* Class hierarchies as Python orders them.  Classes are numbered as they  *)
(* are made, so that bases[c], the bases named in the class statement, are *)
(* smaller numbers or types of the host.                                   *)
(***************************************************************************)
EXTENDS Naturals, FiniteSets, SequencesExt

CONSTANT HostTypes  \* types of the host that may be bases, such as dict

Unordered == <<0>>

\* What can come next: the head of a list that is in the tail of no other.
Candidates(lists) ==
  {i \in DOMAIN lists :
     lists[i] # <<>> /\ \A j \in DOMAIN lists :
       lists[j] # <<>> => Head(lists[i]) \notin ToSet(Tail(lists[j]))}

RECURSIVE Merge(_)
Merge(lists) ==
  LET next == Head(lists[Min(Candidates(lists))])
      rest == Merge([j \in DOMAIN lists |-> SelectSeq(lists[j], LAMBDA c : c # next)])
  IN  IF \A j \in DOMAIN lists : lists[j] = <<>> THEN <<>>
      ELSE IF Candidates(lists) = {} THEN Unordered
      ELSE IF rest = Unordered THEN rest ELSE <<next>> \o rest

\* The C3 order of class c, or Unordered where Python refuses the class.
RECURSIVE C3(_, _)
C3(bases, c) ==
  LET above == [i \in DOMAIN bases[c] |->
                  IF bases[c][i] \in HostTypes THEN <<bases[c][i]>>
                  ELSE C3(bases, bases[c][i])]
      merged == Merge(Append(above, bases[c]))
  IN  IF Unordered \in ToSet(above) \/ merged = Unordered THEN Unordered
      ELSE <<c>> \o merged

\* The class itself and everything it inherits from.
RECURSIVE Ancestors(_, _)
Ancestors(bases, c) ==
  {c} \cup UNION {IF b \in HostTypes THEN {b} ELSE Ancestors(bases, b) :
                    b \in ToSet(bases[c])}
=============================================================================
