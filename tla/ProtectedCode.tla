---------------------------- MODULE ProtectedCode ----------------------------
(***************************************************************************)
(* Bytecode in which every address has one list of open try blocks and     *)
(* context managers, however control gets there: by the next instruction,  *)
(* a jump, a handler, or past a WITH_EXIT whose manager suppressed an      *)
(* exception.  The machine (core/vm.py, _run_frame) keeps three lists and  *)
(* no such record; code of this kind is what its bookkeeping is made for,  *)
(* and what the front end emits for the statements it gets right and for   *)
(* most others.                                                            *)
(***************************************************************************)
EXTENDS VmFrame

OpenTry(handler) == [kind |-> "try", handler |-> handler, manager |-> {}]
OpenWith(manager) == [kind |-> "with", handler |-> 0, manager |-> manager]

\* What the instructions of c can open.
Openings(c) ==
    {OpenTry(c[a].arg) : a \in {b \in DOMAIN c : c[b].op = "TRY_BEGIN"}} \cup
    {OpenWith(c[a].spec) : a \in {b \in DOMAIN c : c[b].op = "WITH_ENTER"}}

\* The first k - 1 of a list, which are open once the k-th is left; and whether
\* all after the k-th are managers, as a dispatch or a RETURN reaches it then.
Outside(open, k) == SubSeq(open, 1, k - 1)
ManagersAfter(open, k) == \A i \in k + 1 .. Len(open) : open[i].kind = "with"

\* Where an exception may go on, raised with from as the next address and, since
\* then, n managers exited: to the newest handler, or past a manager before it.
Unwound(c, from, n, open) ==
    {<<open[k].handler, Outside(open, k)>> :
        k \in {j \in 1 .. Len(open) : open[j].kind = "try" /\ ManagersAfter(open, j)}} \cup
    {<<After(c, from, n + 1 + Len(open) - k), Outside(open, k)>> :
        k \in {j \in 1 .. Len(open) : /\ open[j].kind = "with" /\ Suppresses \in open[j].manager
                                      /\ ManagersAfter(open, j)}}

\* The managers a RETURN calls one after the other, the k-th with the others
\* after it gone.
Failing(open) == {k \in 1 .. Len(open) : open[k].kind = "with" /\ FailsToExit \in open[k].manager}

\* A frame may go on from address a, with open as the list there, ...
GoesTo(c, a, open) ==
    LET op == c[a].op
        Raised(list) == Unwound(c, a + 1, 0, list)
        entered == Append(open, OpenWith(c[a].spec))
        Only(condition, targets) == IF condition THEN targets ELSE {}
    IN Only(op \in {"DO", "TEST", "LOAD_CONST", "POP_TOP", "STORE_NAME", "GET_ITER", "FOR_ITER",
                    "MATCH_EXCEPTION_CHECK", "YIELD_VALUE", "AWAIT"}, {<<a + 1, open>>})
       \cup Only(op \in {"TEST", "JUMP", "FOR_ITER", "MATCH_EXCEPTION_CHECK"}, {<<c[a].arg, open>>})
       \cup Only(op \in {"DO", "TEST", "POP_TOP", "STORE_NAME", "GET_ITER", "FOR_ITER", "RAISE"},
                 Raised(open))
       \cup Only(op = "WITH_ENTER", {<<a + 1, entered>>})
       \cup Only(op = "WITH_ENTER" /\ FailsToEnter \in c[a].spec, Raised(entered))
       \cup Only(op = "TRY_BEGIN", {<<a + 1, Append(open, OpenTry(c[a].arg))>>})
       \cup Only(op \in {"WITH_EXIT", "TRY_END"}, {<<a + 1, Popped(open)>>})
       \cup Only(op = "WITH_EXIT" /\ Len(open) \in Failing(open), Raised(Popped(open)))
       \cup Only(op = "RETURN", UNION {Raised(Outside(open, k)) : k \in Failing(open)})
       \cup Only(op = "YIELD_VALUE", Unwound(c, a + 2, 0, open))

\* ... and can be there: what it leaves is the newest that is open; an exit that
\* fails in a RETURN has no try between it and the RETURN; what waits is not
\* resumed after it failed.
Fits(c, a, open) ==
    LET op == c[a].op
    IN /\ op = "WITH_EXIT" => open # <<>> /\ Top(open).kind = "with"
       /\ op = "TRY_END" => open # <<>> /\ Top(open).kind = "try"
       /\ op = "RETURN" => \A k \in Failing(open) : ManagersAfter(open, k)
       /\ op = "AWAIT" => \A k \in 1 .. Len(open) : /\ open[k].kind = "with"
                                                    /\ Suppresses \notin open[k].manager

\* opened is such a record of the addresses that are reached.
Reaches(opened, to) == to[1] \in DOMAIN opened /\ opened[to[1]] = to[2]
IsProtected(c, opened) ==
    /\ DOMAIN opened \subseteq 1 .. Len(c) + 1
    /\ \A a \in DOMAIN opened : opened[a] \in Seq(Openings(c))
    /\ Reaches(opened, <<1, <<>>>>)
    /\ \A a \in DOMAIN opened :
         a <= Len(c) => /\ Fits(c, a, opened[a])
                        /\ \A to \in GoesTo(c, a, opened[a]) : Reaches(opened, to)

\* Functions that are said to be protected come with their record.
ASSUME ProtectionAssumption ==
    \A i \in DOMAIN Functions :
        Functions[i].protected => IsProtected(Functions[i].code, Functions[i].opened)

\* While protected code runs, protection_order holds one entry for each open
\* handler and each entered context, so that undoing it (_run_frame) never pops
\* an empty list and never leaves a stale handler behind.
Count(s, x) == Cardinality({i \in DOMAIN s : s[i] = x})
ProtectionInStep ==
    Functions[program].protected /\ outcome = Running /\ returning = NoValue =>
        /\ Count(protection_order, "try") = Len(handlers)
        /\ Count(protection_order, "with") = Len(with_contexts)
=============================================================================
