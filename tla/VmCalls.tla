------------------------------- MODULE VmCalls -------------------------------
(***************************************************************************)
(* Calls of functions in the virtual machine: how CALL_KW gathers the      *)
(* arguments (core/vm.py) and _call distributes them to the parameters,    *)
(* with the defaults that MAKE_FUNCTION stored.                            *)
(***************************************************************************)
EXTENDS PythonCalls

CONSTANTS Definitions, Calls  \* what is called, and with what

\* The functions that can be written: no two parameters of one name, no more
\* names that take positions only and no more defaults than there are names,
\* keyword defaults for names there are.
IsWritten(d) ==
  /\ d.args \in Seq(Takers(d)) /\ d.kwonly \in Seq(Takers(d))
  /\ \A i, j \in DOMAIN d.args : d.args[i] = d.args[j] => i = j
  /\ \A i, j \in DOMAIN d.kwonly : d.kwonly[i] = d.kwonly[j] => i = j
  /\ ToSet(d.args) \cap ToSet(d.kwonly) = {}
  /\ d.posonly \in 0 .. Len(d.args) /\ d.defaults \in 0 .. Len(d.args)
  /\ d.kwdefaults \subseteq ToSet(d.kwonly)
  /\ {d.vararg, d.kwarg} \cap Takers(d) = {}
  /\ d.vararg = d.kwarg => d.vararg = None

\* What a call unpacks by position are sequences.
ASSUME VmCallsAssumption ==
  /\ \A d \in Definitions : IsWritten(d)
  /\ \A c \in Calls : /\ c.positional \in Seq(Seq(Given(c)))
                      /\ c.keywords \in Seq(ToSet(c.keywords))

VARIABLES
  definition, call,  \* the call made
  phase,             \* how far it is
  read,              \* arguments of the call read so far
  positional,        \* args of _call: the values by position
  kwargs,            \* kwargs of _call: values by name
  pending,           \* keywords not yet considered
  locals             \* locals_ of _call: the first variables of the frame

callVars == <<definition, call, phase, read, positional, kwargs, pending, locals>>

\* dict.update: what new says, and what old says of other names.
Updated(old, new) ==
  [n \in DOMAIN old \cup DOMAIN new |-> IF n \in DOMAIN new THEN new[n] ELSE old[n]]

NoLocals == [n \in {} |-> None]

TypeOK ==
  /\ definition \in Definitions /\ call \in Calls
  /\ phase \in {"positional", "keywords", "bind", "match", "collect", "bound", "refused"}
  /\ read \in Nat
  /\ pending \subseteq DOMAIN kwargs
  /\ DOMAIN locals \subseteq Parameters(definition) \cup DOMAIN kwargs

CallInit ==
  /\ definition \in Definitions /\ call \in Calls
  /\ phase = "positional" /\ read = 0
  /\ positional = <<>> /\ kwargs = NoLocals
  /\ pending = {} /\ locals = NoLocals

(***************************************************************************)
(* CALL_KW: the arguments in order; a later mapping replaces the keywords  *)
(* of an earlier one.                                                      *)
(***************************************************************************)
GatherPositional ==
  /\ phase = "positional" /\ read < Len(call.positional)
  /\ positional' = positional \o call.positional[read + 1]
  /\ read' = read + 1
  /\ UNCHANGED <<definition, call, phase, kwargs, pending, locals>>

GatherKeywords ==
  /\ phase = "positional" /\ read = Len(call.positional)
  /\ phase' = "keywords" /\ read' = 0
  /\ UNCHANGED <<definition, call, positional, kwargs, pending, locals>>

GatherKeyword ==
  /\ phase = "keywords" /\ read < Len(call.keywords)
  /\ kwargs' = Updated(kwargs, call.keywords[read + 1])
  /\ read' = read + 1
  /\ UNCHANGED <<definition, call, phase, positional, pending, locals>>

Enter ==
  /\ phase = "keywords" /\ read = Len(call.keywords)
  /\ phase' = "bind" /\ pending' = DOMAIN kwargs
  /\ UNCHANGED <<definition, call, read, positional, kwargs, locals>>

(***************************************************************************)
(* _call.                                                                  *)
(***************************************************************************)
Goes(next) == phase' = next /\ UNCHANGED <<definition, call, read, positional, kwargs>>
Refuses == Goes("refused") /\ UNCHANGED <<pending, locals>>

IsPositionOnly(n) == n \in ToSet(SubSeq(definition.args, 1, definition.posonly))

\* Mutant: the values past the last name are lost.
BindOnlyNamed ==
  [n \in {definition.args[i] : i \in {j \in DOMAIN positional : j <= Len(definition.args)}}
           \cup ({definition.vararg} \ {None}) |->
     IF n = definition.vararg THEN <<>>
     ELSE positional[CHOOSE i \in DOMAIN definition.args : definition.args[i] = n]]

\* dict(zip(arg_names, positional)), and the rest for *args.
BindByPosition ==
  [n \in {definition.args[i] : i \in {j \in DOMAIN positional : j <= Len(definition.args)}}
           \cup ({definition.vararg} \ {None}) |->
     IF n = definition.vararg
     THEN SubSeq(positional, Len(definition.args) + 1, Len(positional))
     ELSE positional[CHOOSE i \in DOMAIN definition.args : definition.args[i] = n]]

BindPositions ==
  /\ phase = "bind"
  /\ IF Len(positional) > Len(definition.args) /\ definition.vararg = None
     THEN Refuses
     ELSE /\ locals' = BindByPosition
          /\ Goes("match") /\ UNCHANGED pending

\* One keyword.  What **kwargs will collect is a local variable as well.
MatchKeyword(n) ==
  /\ phase = "match" /\ n \in pending
  /\ CASE IsPositionOnly(n) /\ definition.kwarg # None ->
            locals' = locals /\ pending' = pending \ {n} /\ Goes("match")
       [] IsPositionOnly(n) /\ definition.kwarg = None -> Refuses
       [] ~IsPositionOnly(n) /\ n \in DOMAIN locals -> Refuses
       [] ~IsPositionOnly(n) /\ n \notin DOMAIN locals ->
            IF n \in Takers(definition) \/ definition.kwarg # None
            THEN /\ locals' = Updated(locals, [m \in {n} |-> kwargs[m]])
                 /\ pending' = pending \ {n} /\ Goes("match")
            ELSE Refuses

\* The keyword-only names that have a default, by their place; the i-th of them.
KwDefaulted == {j \in DOMAIN definition.kwonly : definition.kwonly[j] \in definition.kwdefaults}
WithDefault(i) ==
  definition.kwonly[CHOOSE j \in KwDefaulted : Cardinality(KwDefaulted \cap (1 .. j)) = i]

\* zip(kwonly_names[-count:], values): the defaults of keyword-only names are
\* given to the last of them.
KwDefaults ==
  LET skipped == Len(definition.kwonly) - Cardinality(KwDefaulted)
  IN  [n \in ToSet(SubSeq(definition.kwonly, skipped + 1, Len(definition.kwonly))) |->
         Default(WithDefault((CHOOSE j \in DOMAIN definition.kwonly :
                                definition.kwonly[j] = n) - skipped))]

\* Mutant: the first of the defaults is forgotten.
OneDefaultFewer ==
  ToSet(SubSeq(definition.args, Len(definition.args) - definition.defaults + 2,
               Len(definition.args)))

Defaulted ==
  ToSet(SubSeq(definition.args, Len(definition.args) - definition.defaults + 1,
               Len(definition.args)))

\* The names still missing take their defaults, or there are none for them.
TakeDefaults ==
  LET missing == Takers(definition) \ DOMAIN locals
      defaults == Updated(KwDefaults, [n \in Defaulted |-> Default(n)])
  IN
  /\ phase = "match" /\ pending = {}
  /\ IF missing \subseteq DOMAIN defaults
     THEN /\ locals' = Updated(locals, [n \in missing |-> defaults[n]])
          /\ Goes("collect") /\ UNCHANGED pending
     ELSE Refuses

\* Mutant: names taken by position only are left out as well.
CollectsNoPositionOnly == {n \in DOMAIN kwargs : n \notin Takers(definition)}

Collected == {n \in DOMAIN kwargs : IsPositionOnly(n) \/ n \notin Takers(definition)}

\* **kwargs, whatever was bound under its name.
Collect ==
  /\ phase = "collect"
  /\ locals' = IF definition.kwarg = None THEN locals
               ELSE Updated(locals, [n \in {definition.kwarg} |->
                                      [m \in Collected |-> kwargs[m]]])
  /\ Goes("bound") /\ UNCHANGED pending

CallNext ==
  \/ GatherPositional \/ GatherKeywords \/ GatherKeyword \/ Enter
  \/ BindPositions
  \/ \E n \in pending : MatchKeyword(n)
  \/ TakeDefaults
  \/ Collect

CallSpec == CallInit /\ [][CallNext]_callVars

(***************************************************************************)
(* Properties.                                                             *)
(***************************************************************************)
\* Where names of the call are as Python has them: no keyword given twice, none
\* with the name of *args beside a **kwargs, and no keyword-only parameter with
\* a default before one without.
IsSupported(d, c) ==
  /\ ~IsRepeated(c.keywords)
  /\ d.kwarg = None \/ \A i \in DOMAIN c.keywords : d.vararg \notin DOMAIN c.keywords[i]
  /\ \A i, j \in DOMAIN d.kwonly : i < j /\ d.kwonly[i] \in d.kwdefaults =>
                                     d.kwonly[j] \in d.kwdefaults

\* However a definition mixes positional, positional-only, keyword-only and
\* starred parameters and however a call fills them, the call is accepted when
\* Python accepts it and every parameter gets Python's value.
CallsFollowPython ==
  IsSupported(definition, call) =>
    /\ phase = "bound" =>
         /\ Accepts(definition, call)
         /\ \A n \in Parameters(definition) :
              locals[n] = Passes(definition, call)[n]
    /\ phase = "refused" => ~Accepts(definition, call)

\* A call that is accepted leaves no parameter without a value, in the fragment
\* or outside it, and drops no argument: each is the value of a parameter or in
\* one of the collections.
ArgumentsArrive ==
  phase = "bound" =>
    /\ Parameters(definition) \subseteq DOMAIN locals
    /\ \A i \in DOMAIN positional :
         \/ i <= Len(definition.args) /\ locals[definition.args[i]] = positional[i]
         \/ /\ definition.vararg # None /\ i > Len(definition.args)
            /\ i - Len(definition.args) \in DOMAIN locals[definition.vararg]
            /\ locals[definition.vararg][i - Len(definition.args)] = positional[i]
    /\ \A n \in DOMAIN kwargs :
         \/ n \in Takers(definition) /\ locals[n] = kwargs[n]
         \/ definition.kwarg # None /\ n \in Collected /\ locals[definition.kwarg][n] = kwargs[n]
=============================================================================
