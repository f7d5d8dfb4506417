------------------------------ MODULE Lowering ------------------------------
(***************************************************************************)
(* The part of core/frontend.py that turns the statements of PythonBlocks  *)
(* into bytecode (_Lowerer.stmt).  Addresses start at 1.  Forward jumps    *)
(* are emitted with a placeholder and patched, as the source does.         *)
(*                                                                         *)
(* Expressions are one instruction each: DO stands for a statement that    *)
(* computes something and may raise, TEST for a condition and its          *)
(* JUMP_IF_FALSE, LOAD_CONST for a returned expression.  What they compute *)
(* on the value stack is balanced and left out.                            *)
(***************************************************************************)
EXTENDS PythonBlocks

\* arg is a target address, of the statement, spec an exception type or what
\* a context manager may do.
Instruction(op, arg, of, spec) == [op |-> op, arg |-> arg, of |-> of, spec |-> spec]
Plain(op) == Instruction(op, 0, <<>>, NoError)
Named(op, of) == Instruction(op, 0, of, NoError)
Jump(target) == Instruction("JUMP", target, <<>>, NoError)

\* The placeholders: a break waiting for the end of its loop, a clause
\* waiting for the end of its try statement.  No address is 0, and no code
\* here is a thousand instructions long.
LoopExit == 0
TryEnd == 1000

Patched(code, placeholder, target) ==
    [i \in DOMAIN code |-> IF code[i] = Jump(placeholder) THEN Jump(target) ELSE code[i]]

\* What the lowerer knows of the innermost loop it is inside the body of:
\* the address of its test (loop_starts) and whether an iterator is on the
\* stack (loop_needs_pop).
NoLoop == [start |-> 0, pop |-> FALSE]
InLoop(start, pop) == [start |-> start, pop |-> pop]

RECURSIVE LowerBlock(_, _, _, _), LowerHandlers(_, _, _, _, _)

\* break drops the iterator of its loop, then leaves.
LowerBreak(loop) ==
    (IF loop.pop THEN <<Plain("POP_TOP")>> ELSE <<>>) \o <<Jump(LoopExit)>>

LowerIf(s, p, at, loop) ==
    LET body == LowerBlock(s.body, BodyOf(p), at + 1, loop)
        skip == IF s.orelse = <<>> THEN 0 ELSE 1
        otherwise == at + 1 + Len(body) + skip
        orelse == LowerBlock(s.orelse, OrelseOf(p), otherwise, loop)
    IN <<Instruction("TEST", otherwise, p, NoError)>> \o body
           \o (IF skip = 0 THEN <<>> ELSE <<Jump(otherwise + Len(orelse))>>) \o orelse

\* The else clause of a loop is lowered after the loop's start and iterator
\* are forgotten but while its exits are still being collected: a break in
\* it ends at the end of this loop.
LowerWhile(s, p, at, loop) ==
    LET body == LowerBlock(s.body, BodyOf(p), at + 1, InLoop(at, FALSE))
        else_start == at + 2 + Len(body)
        orelse == LowerBlock(s.orelse, OrelseOf(p), else_start, loop)
    IN Patched(<<Instruction("TEST", else_start, p, NoError)>> \o body
                   \o <<Jump(at)>> \o orelse,
               LoopExit, else_start + Len(orelse))

LowerFor(s, p, at, loop) ==
    LET body == LowerBlock(s.body, BodyOf(p), at + 2, InLoop(at + 1, TRUE))
        else_start == at + 3 + Len(body)
        orelse == LowerBlock(s.orelse, OrelseOf(p), else_start, loop)
    IN Patched(<<Named("GET_ITER", p), Instruction("FOR_ITER", else_start, p, NoError)>>
                   \o body \o <<Jump(at + 1)>> \o orelse,
               LoopExit, else_start + Len(orelse))

\* With no target, the result of __enter__ is dropped by a POP_TOP that
\* follows WITH_ENTER; the pair is one instruction here.
LowerWith(s, p, at, loop) ==
    <<Instruction("WITH_ENTER", 0, p, s.manager)>> \o LowerBlock(s.body, BodyOf(p), at + 1, loop)
        \o <<Named("WITH_EXIT", p)>>

\* Mutant: the body of try/finally runs without protection.
LowerTryFinallyPlain(s, p, at, loop) ==
    LET body == LowerBlock(s.body, BodyOf(p), at, loop)
    IN body \o LowerBlock(s.finalbody, FinalOf(p), at + Len(body), loop)

\* try/finally without except: the clause is lowered twice.
LowerTryFinally(s, p, at, loop) ==
    LET body == LowerBlock(s.body, BodyOf(p), at + 1, loop)
        after == at + 2 + Len(body)
        normal == LowerBlock(s.finalbody, FinalOf(p), after, loop)
        handler == after + Len(normal) + 1
        failing == LowerBlock(s.finalbody, FinalOf(p), handler, loop)
    IN <<Instruction("TRY_BEGIN", handler, <<>>, NoError)>> \o body
           \o <<Plain("TRY_END")>> \o normal
           \o <<Jump(handler + Len(failing) + 1)>> \o failing \o <<Plain("RAISE")>>

\* The except clauses from the j-th on, each followed by the finally clause.
LowerHandlers(s, j, p, at, loop) ==
    IF j > Len(s.handlers) THEN <<>>
    ELSE LET handler == s.handlers[j]
             test == IF handler.type = Anything THEN 0 ELSE 1
             body == LowerBlock(handler.body, HandlerOf(p, j), at + test + 1, loop)
             final == LowerBlock(s.finalbody, FinalOf(p), at + test + 1 + Len(body), loop)
             next == at + test + 2 + Len(body) + Len(final)
         IN (IF test = 0 THEN <<>>
             ELSE <<Instruction("MATCH_EXCEPTION_CHECK", next, <<>>, handler.type)>>)
                \o <<Plain("POP_TOP")>> \o body \o final \o <<Jump(TryEnd)>>
                \o LowerHandlers(s, j + 1, p, next, loop)

LowerTryExcept(s, p, at, loop) ==
    LET body == LowerBlock(s.body, BodyOf(p), at + 1, loop)
        after == at + 2 + Len(body)
        orelse == LowerBlock(s.orelse, OrelseOf(p), after, loop)
        final == LowerBlock(s.finalbody, FinalOf(p), after + Len(orelse), loop)
        handler == after + Len(orelse) + Len(final) + 1
        clauses == LowerHandlers(s, 1, p, handler, loop)
    IN Patched(<<Instruction("TRY_BEGIN", handler, <<>>, NoError)>> \o body
                   \o <<Plain("TRY_END")>> \o orelse \o final \o <<Jump(TryEnd)>>
                   \o clauses \o <<Plain("RAISE")>>,
               TryEnd, handler + Len(clauses) + 1)

\* As a statement of its own, a yield is not followed by a POP_TOP.
LowerYield(p) == <<Plain("LOAD_CONST"), Named("YIELD_VALUE", p)>>

LowerStatement(s, p, at, loop) ==
    CASE s.kind = "do" -> <<Named("DO", p)>>
      [] s.kind = "yield" -> LowerYield(p)
      [] s.kind = "ask" -> LowerYield(p) \o <<Plain("STORE_NAME")>>
      [] s.kind = "await" -> <<Named("AWAIT", p), Plain("POP_TOP")>>
      [] s.kind = "break" -> LowerBreak(loop)
      [] s.kind = "continue" -> <<Jump(loop.start)>>
      [] s.kind = "raise" -> <<Plain("RAISE")>>
      [] s.kind = "return" /\ s.value = "none" -> <<Plain("RETURN")>>
      [] s.kind = "return" /\ s.value # "none" -> <<Plain("LOAD_CONST"), Plain("RETURN")>>
      [] s.kind = "if" -> LowerIf(s, p, at, loop)
      [] s.kind = "while" -> LowerWhile(s, p, at, loop)
      [] s.kind = "for" -> LowerFor(s, p, at, loop)
      [] s.kind = "with" -> LowerWith(s, p, at, loop)
      [] s.kind = "try" /\ s.handlers = <<>> -> LowerTryFinally(s, p, at, loop)
      [] s.kind = "try" /\ s.handlers # <<>> -> LowerTryExcept(s, p, at, loop)

\* The statements of a block, one after the other.
LowerBlock(b, p, at, loop) ==
    IF b = <<>> THEN <<>>
    ELSE LET init == LowerBlock(SubSeq(b, 1, Len(b) - 1), p, at, loop)
         IN init \o LowerStatement(b[Len(b)], Append(p, Len(b)), at + Len(init), loop)

\* A function body is followed by a RETURN.
LowerFunction(body) ==
    LowerBlock(body, <<>>, 1, NoLoop) \o <<Plain("RETURN")>>
=============================================================================
