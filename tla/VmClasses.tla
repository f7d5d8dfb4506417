------------------------------ MODULE VmClasses ------------------------------
(***************************************************************************)
(* Classes of the virtual machine (core/vm.py): class statements, the      *)
(* order in which a class and its ancestors are searched, which handlers   *)
(* and patterns an instance matches, and super() without arguments.        *)
(*                                                                         *)
(* One method, f, is followed.  A class statement that is executed again   *)
(* makes another class with the same code: f's code is identified by the   *)
(* statement.                                                              *)
(***************************************************************************)
EXTENDS PythonClasses

CONSTANTS
  Statements,  \* the class statements that may be executed as the i-th: a
               \* sequence of sets of [name, defines, self, scope]: whether
               \* there is an f, whether its first parameter is named self,
               \* and "global" or "local"
  MaxBases,    \* bound: bases of a class
  MaxDeleted,  \* bound: names deleted
  MaxChain     \* bound: calls of f inside each other

VARIABLES
  classes,   \* the classes made: their statement and bases
  globals,   \* frame.globals as far as it holds classes, in insertion order
  receiver,  \* the class of the instance f was called on, or 0
  chain      \* where each f in progress was found, the newest last

vars == <<classes, globals, receiver, chain>>

Made == DOMAIN classes
Bases == [c \in Made |-> classes[c].bases]
Defines(c) == c \in Made /\ classes[c].statement.defines

Init == classes = <<>> /\ globals = <<>> /\ receiver = 0 /\ chain = <<>>

(***************************************************************************)
(* Orders and searches.                                                    *)
(***************************************************************************)
\* The first of each of the elements that occur more than once.
FirstSeen(s) == SelectSeq([i \in DOMAIN s |-> <<i, s[i]>>],
                          LAMBDA p : \A j \in 1 .. p[1] - 1 : s[j] # p[2])
Distinct(s) == LET kept == FirstSeen(s) IN [i \in DOMAIN kept |-> kept[i][2]]


\* PyClass.__mro__: the class, then the orders of its bases one after the
\* other without repetition, the types of the host at the end.
Mro(c) ==
  LET mro[d \in Made] ==
        LET all == Distinct(FlattenSeq([i \in DOMAIN Bases[d] |->
                     IF Bases[d][i] \in HostTypes THEN <<Bases[d][i]>>
                     ELSE mro[Bases[d][i]]]))
        IN  <<d>> \o SelectSeq(all, LAMBDA a : a \in Made)
              \o SelectSeq(all, LAMBDA a : a \in HostTypes)
  IN  mro[c]

\* PyClass.lookup, and the search of SuperProxy in the order after the class.
FoundIn(order) == SelectSeq(order, Defines)
Lookup(c) == FoundIn(Mro(c))

\* _exception_matches follows the first base only, _pattern_isinstance asks
\* whether the class is in the order.
ExceptionMatches(e, c) ==
  LET matches[d \in Made] ==
        d = c \/ (Bases[d] # <<>> /\ Head(Bases[d]) \in Made /\ matches[Head(Bases[d])])
  IN  matches[e]
PatternMatches(e, c) == c \in ToSet(Mro(e))

\* Mutant: the class of the instance, whichever method is running.
InstanceClass(running) == receiver

\* object, which is searched for what is after no class.
Object == 0

\* _lexical_super_class: the first class among the globals that has the code
\* running, or else the class of the instance; object when no local variable
\* named self holds an instance.
LexicalClass(running) ==
  LET i == SelectInSeq(globals, LAMBDA b :
             classes[b.class].statement = classes[running].statement)
  IN  IF ~classes[running].statement.self THEN Object
      ELSE IF i = 0 THEN receiver ELSE globals[i].class

(***************************************************************************)
(* Statements of a program.                                                *)
(***************************************************************************)
Bound(name, c) ==
  LET i == SelectInSeq(globals, LAMBDA b : b.name = name)
      binding == [name |-> name, class |-> c]
  IN  IF i = 0 THEN Append(globals, binding) ELSE [globals EXCEPT ![i] = binding]

\* MAKE_CLASS, then the STORE_NAME of the module or of a function.
DefineClass(s, bs) ==
  LET c == Len(classes) + 1 IN
  /\ receiver = 0
  /\ classes' = Append(classes, [statement |-> s, bases |-> bs])
  /\ globals' = IF s.scope = "global" THEN Bound(s.name, c) ELSE globals
  /\ UNCHANGED <<receiver, chain>>

NamesBound == {classes[c].statement.name :
                 c \in {d \in Made : classes[d].statement.scope = "global"}}

\* del at module level; the class may live on in its subclasses.
DeleteName(i) ==
  /\ receiver = 0 /\ Len(classes) = Len(Statements)
  /\ Cardinality(NamesBound) - Len(globals) < MaxDeleted
  /\ globals' = RemoveAt(globals, i)
  /\ UNCHANGED <<classes, receiver, chain>>

\* f is called on a new instance of c.
Call(c) ==
  /\ receiver = 0 /\ Lookup(c) # <<>>
  /\ receiver' = c
  /\ chain' = <<Head(Lookup(c))>>
  /\ UNCHANGED <<classes, globals>>

\* The f running calls super().f().  When no class after the lexical one has
\* an f, the call fails, and the chain is at its end.
SuperSearch ==
  LET c == LexicalClass(Last(chain))
  IN  IF c = Object THEN <<>> ELSE FoundIn(Tail(Mro(c)))
CallSuper ==
  /\ receiver # 0 /\ Len(chain) < MaxChain /\ SuperSearch # <<>>
  /\ chain' = Append(chain, Head(SuperSearch))
  /\ UNCHANGED <<classes, globals, receiver>>

\* The first f returns, or fails.
Return ==
  /\ receiver # 0
  /\ receiver' = 0 /\ chain' = <<>>
  /\ UNCHANGED <<classes, globals>>

Next ==
  \/ /\ Len(classes) < Len(Statements)
     /\ \E s \in Statements[Len(classes) + 1],
           bs \in BoundedSeq(Made \cup HostTypes, MaxBases) :
          IsInjective(bs) /\ DefineClass(s, bs)
  \/ \E i \in DOMAIN globals : DeleteName(i)
  \/ \E c \in Made : Call(c)
  \/ CallSuper
  \/ Return

Spec == Init /\ [][Next]_vars

(***************************************************************************)
(* Properties.                                                             *)
(***************************************************************************)
\* Walking up from c, base by base in order, meets no class twice; and walking up
\* from c or any class met, if it meets types of the host at all, ends at one,
\* whether or not it met some before other classes.
IsTree(c) ==
  LET walk[d \in Made] ==
        <<d>> \o FlattenSeq([i \in DOMAIN Bases[d] |->
          IF Bases[d][i] \in HostTypes THEN <<Bases[d][i]>> ELSE walk[Bases[d][i]]])
      met == SelectSeq(walk[c], LAMBDA a : a \in Made)
  IN  /\ IsInjective(met)
      /\ \A d \in ToSet(met) :
           ToSet(walk[d]) \cap HostTypes # {} => Last(walk[d]) \in HostTypes
IsLine(c) == \A d \in ToSet(Mro(c)) \cap Made : Len(Bases[d]) <= 1


\* The f of this class can be traced to it: it calls its instance self, and the
\* class is bound to a global name, and no class bound before it was made by the
\* same statement.
IsFindable(c) ==
  \E i \in DOMAIN globals :
    /\ classes[c].statement.self
    /\ globals[i].class = c
    /\ \A j \in 1 .. i - 1 :
         classes[globals[j].class].statement # classes[c].statement

\* A method that calls super() reaches, in a line of classes bound at module
\* level, each overridden method once, nearest first, and then no other,
\* whatever class the instance is of.
SuperFollowsPython ==
  receiver # 0 /\ IsLine(receiver) /\ (\A c \in ToSet(chain) : IsFindable(c)) =>
    LET python == FoundIn(C3(Bases, receiver)) IN
    /\ IsPrefix(chain, python)
    /\ SuperSearch = <<>> => chain = python

\* A base class's own call of super() "never revisits the class it's defined
\* in" (the comment of _lexical_super_class): no method runs twice in a chain.
SuperNeverRevisits == IsInjective(chain)
=============================================================================
