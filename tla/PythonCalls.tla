----------------------------- MODULE PythonCalls -----------------------------
(***************************************************************************)
(* What Python passes to the parameters of a function.                     *)
(*                                                                         *)
(* A definition is [args, posonly, defaults, vararg, kwonly, kwdefaults,   *)
(* kwarg]: the names that take positions, how many of them take nothing    *)
(* else, how many of the last have a default; the names of the *args and   *)
(* **kwargs parameters, or None; the names that are keywords only, and the *)
(* set of those that have a default.  The default of a name is the value   *)
(* Default(name).                                                          *)
(*                                                                         *)
(* A call is [positional, keywords]: for each positional argument the      *)
(* values it stands for (one, or those of a starred sequence), for each    *)
(* keyword argument the names and values (one, or those of a mapping).     *)
(***************************************************************************)
EXTENDS Naturals, SequencesExt

None == "none"
Default(name) == <<"default", name>>

\* The parameters of a definition.
Takers(d) == ToSet(d.args) \cup ToSet(d.kwonly)
Parameters(d) == Takers(d) \cup ({d.vararg, d.kwarg} \ {None})

\* The values a call has by position.
Given(call) == UNION {ToSet(call.positional[i]) : i \in DOMAIN call.positional}

\* What Python calls "multiple values for keyword argument".
IsRepeated(keywords) ==
  \E i, j \in DOMAIN keywords : i # j /\ DOMAIN keywords[i] \cap DOMAIN keywords[j] # {}
AllKeywords(keywords) ==
  [n \in UNION {DOMAIN keywords[i] : i \in DOMAIN keywords} |->
     keywords[CHOOSE i \in DOMAIN keywords : n \in DOMAIN keywords[i]][n]]

\* Names that a keyword argument can fill.
Fillable(d) == ToSet(SubSeq(d.args, d.posonly + 1, Len(d.args))) \cup ToSet(d.kwonly)
HasDefault(d, n) ==
  \/ n \in ToSet(SubSeq(d.args, Len(d.args) - d.defaults + 1, Len(d.args)))
  \/ n \in d.kwdefaults

\* The values for parameter n, from the positions and from the keywords.
ByPosition(d, given, n) == {given[i] : i \in {j \in DOMAIN given : j <= Len(d.args) /\ d.args[j] = n}}
ByKeyword(d, keywords, n) == {keywords[k] : k \in DOMAIN keywords \cap Fillable(d) \cap {n}}

\* Whether Python accepts the call, and the value of each parameter if so.
Accepts(d, call) ==
  LET given == FlattenSeq(call.positional)
      keywords == AllKeywords(call.keywords)
  IN  /\ ~IsRepeated(call.keywords)
      /\ Len(given) <= Len(d.args) \/ d.vararg # None
      /\ DOMAIN keywords \subseteq Fillable(d) \/ d.kwarg # None
      /\ \A n \in Takers(d) :
           /\ ByPosition(d, given, n) = {} \/ ByKeyword(d, keywords, n) = {}
           /\ ByPosition(d, given, n) \cup ByKeyword(d, keywords, n) = {} => HasDefault(d, n)

Passes(d, call) ==
  LET given == FlattenSeq(call.positional)
      keywords == AllKeywords(call.keywords)
      values(n) == ByPosition(d, given, n) \cup ByKeyword(d, keywords, n)
  IN  [n \in Parameters(d) |->
         CASE n = d.vararg -> SubSeq(given, Len(d.args) + 1, Len(given))
           [] n = d.kwarg -> [k \in DOMAIN keywords \ Fillable(d) |-> keywords[k]]
           [] OTHER -> IF values(n) = {} THEN Default(n) ELSE CHOOSE v \in values(n) : TRUE]
=============================================================================
