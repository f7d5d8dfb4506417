------------------------------ MODULE VmFrame ------------------------------
(***************************************************************************)
(* One frame of the bytecode machine of core/vm.py (Frame and              *)
(* VirtualMachine._run_frame): the value stack, the handlers and context   *)
(* managers a frame is protected by, the order they were entered in, and   *)
(* the dispatch of exceptions.  A step executes one instruction; a drained *)
(* or unwound __exit__ is a step of its own, because it runs foreign code. *)
(*                                                                         *)
(* The stack keeps what steers control: iterators, context managers and    *)
(* exceptions.  What foreign code does (a plain statement, a test, next(), *)
(* __enter__, __exit__) is nondeterministic and recorded in the trace.     *)
(*                                                                         *)
(* The frame of a generator, an async generator or a coroutine is held by  *)
(* an object (GeneratorObject and its like) that runs it until it yields,  *)
(* and resumes it with nothing, with a value or with an exception.         *)
(***************************************************************************)
EXTENDS Naturals, Sequences, FiniteSets, BlockEvents

CONSTANTS
    Functions,      \* a sequence of records: code, the bytecode of the
                    \* function; resumable, whether a call makes a frame that
                    \* waits to be resumed; sends, whether its host resumes it
                    \* with values (send, asend, a coroutine) or by next()
    MaxItems,       \* bound: items an iterator has at most
    MaxTrace        \* bound: events of one call

ASSUME BoundsAssumption == MaxItems \in Nat /\ MaxTrace \in Nat

VARIABLES
    program,                \* the function that was called
    ip,                     \* the address of the next instruction
    stack,                  \* the value stack
    handlers,               \* the except addresses of the open try blocks
    with_contexts,          \* the context managers to exit
    protection_order,       \* "try" or "with", for each of the two above
    active_exception,       \* what a bare raise raises again
    raised,                 \* the exception being dispatched, or NoError
    unwound_with,           \* contexts exited by the dispatch so far
    returning,              \* the value of a RETURN draining its contexts
    suspended,              \* the frame waits to be resumed
    awaiting,               \* the await under way, or NoAwait
    outcome,                \* how the call ended, or Running
    trace                   \* what foreign code was asked and did

protection == <<handlers, with_contexts, protection_order>>
vars == <<program, ip, stack, protection, active_exception, raised,
          unwound_with, returning, suspended, awaiting, outcome, trace>>

NoAwait == <<>>
NoValue == "no value"
Running == [how |-> "running", what |-> NoError]

\* What the machine itself may raise: a malformed operand, a pop from an
\* empty list, nothing to raise again.
MachineErrors == {"TypeError", "IndexError", "RuntimeError"}

\* What can be on the value stack, and in with_contexts.
Iterator(of, left) == [kind |-> "iterator", of |-> of, left |-> left]
Context(of) == [kind |-> "context", of |-> of, left |-> 0]
Exception(error) == [kind |-> "exception", of |-> error, left |-> 0]
Value == [kind |-> "value", of |-> <<>>, left |-> 0]

Manager(of, manager) == [of |-> of, manager |-> manager]

Top(s) == s[Len(s)]
Popped(s) == SubSeq(s, 1, Len(s) - 1)

code == Functions[program].code
here == code[ip]

----------------------------------------------------------------------------
(***************************************************************************)
(* Events and the two ways an instruction ends.                            *)
(***************************************************************************)
Recorded(what, of, with, result) ==
    /\ Len(trace) < MaxTrace
    /\ trace' = Append(trace, Event(what, of, with, result))

\* What __enter__ and __exit__ may come to.
Results(manager, failure) ==
    {"ok"} \cup (IF failure \in manager THEN Errors ELSE {})

\* The instruction's address was left behind before it ran.
Raise(error) ==
    /\ raised' = error
    /\ unwound_with' = 0
    /\ ip' = ip + 1
    /\ UNCHANGED <<active_exception, outcome>>

Proceed(address) ==
    /\ ip' = address
    /\ UNCHANGED <<active_exception, raised, unwound_with, outcome>>

Runs == ~suspended /\ outcome = Running /\ raised = NoError

Executes(op) ==
    /\ Runs /\ returning = NoValue /\ awaiting = NoAwait
    /\ ip <= Len(code)
    /\ here.op = op
    /\ UNCHANGED program

\* ... and goes on running.
GoesOn == UNCHANGED <<suspended, awaiting>>

----------------------------------------------------------------------------
(***************************************************************************)
(* A call.  What can be resumed is not started by it.                      *)
(***************************************************************************)
Init ==
    /\ program \in DOMAIN Functions
    /\ ip = 1
    /\ stack = <<>>
    /\ handlers = <<>> /\ with_contexts = <<>> /\ protection_order = <<>>
    /\ active_exception = NoError
    /\ raised = NoError /\ unwound_with = 0
    /\ returning = NoValue
    /\ suspended = Functions[program].resumable /\ awaiting = NoAwait
    /\ outcome = Running
    /\ trace = <<>>

\* A statement that computes something, and may raise.
ExecuteDo ==
    /\ Executes("DO")
    /\ \E result \in Errors \cup {"ok"} :
         /\ Recorded("do", here.of, NoError, result)
         /\ IF result \in Errors THEN Raise(result) ELSE Proceed(ip + 1)
    /\ UNCHANGED <<stack, protection, returning>> /\ GoesOn

\* JUMP_IF_FALSE on a computed condition, which may raise when computed or
\* when asked for its truth.
ExecuteTest ==
    /\ Executes("TEST")
    /\ \E result \in Errors \cup {"go", "stop"} :
         /\ Recorded("test", here.of, NoError, result)
         /\ IF result \in Errors THEN Raise(result)
            ELSE Proceed(IF result = "go" THEN ip + 1 ELSE here.arg)
    /\ UNCHANGED <<stack, protection, returning>> /\ GoesOn

ExecuteLoadConst ==
    /\ Executes("LOAD_CONST")
    /\ stack' = Append(stack, Value)
    /\ Proceed(ip + 1)
    /\ UNCHANGED <<protection, returning, trace>> /\ GoesOn

\* POP_TOP, and STORE_NAME, which drops the value into a variable.
ExecutePopTop ==
    /\ Executes("POP_TOP") \/ Executes("STORE_NAME")
    /\ IF stack = <<>>
       THEN Raise("IndexError") /\ UNCHANGED stack
       ELSE Proceed(ip + 1) /\ stack' = Popped(stack)
    /\ UNCHANGED <<protection, returning, trace>> /\ GoesOn

ExecuteJump ==
    /\ Executes("JUMP")
    /\ Proceed(here.arg)
    /\ UNCHANGED <<stack, protection, returning, trace>> /\ GoesOn

\* iter() of what the loop goes through; when it fails, nothing is pushed.
ExecuteGetIter ==
    /\ Executes("GET_ITER")
    /\ \/ /\ \E n \in 0..MaxItems : stack' = Append(stack, Iterator(here.of, n))
          /\ Proceed(ip + 1)
          /\ UNCHANGED trace
       \/ /\ \E error \in Errors :
               Recorded("next", here.of, NoError, error) /\ Raise(error)
          /\ UNCHANGED stack
    /\ UNCHANGED <<protection, returning>> /\ GoesOn

\* next() of whatever is on top of the stack.  Without anything there the
\* loop is taken to have ended.  The item is stored in the loop's target.
ExecuteForIter ==
    /\ Executes("FOR_ITER")
    /\ \/ /\ stack = <<>>
          /\ Proceed(here.arg)
          /\ UNCHANGED <<stack, trace>>
       \/ /\ stack # <<>> /\ Top(stack).kind # "iterator"
          /\ Raise("TypeError")
          /\ UNCHANGED <<stack, trace>>
       \/ /\ stack # <<>> /\ Top(stack).kind = "iterator"
          /\ LET iterator == Top(stack)
             IN \/ /\ iterator.left > 0
                   /\ Recorded("next", iterator.of, NoError, "item")
                   /\ stack' = [stack EXCEPT ![Len(stack)] = Iterator(iterator.of, iterator.left - 1)]
                   /\ Proceed(ip + 1)
                \/ /\ iterator.left = 0
                   /\ Recorded("next", iterator.of, NoError, "stop")
                   /\ stack' = Popped(stack)
                   /\ Proceed(here.arg)
                \/ \E error \in Errors :
                     /\ Recorded("next", iterator.of, NoError, error)
                     /\ Raise(error)
                     /\ UNCHANGED stack
    /\ UNCHANGED <<protection, returning>> /\ GoesOn

\* The context is registered before its __enter__ runs.
ExecuteWithEnter ==
    /\ Executes("WITH_ENTER")
    /\ with_contexts' = Append(with_contexts, Manager(here.of, here.spec))
    /\ protection_order' = Append(protection_order, "with")
    /\ stack' = Append(stack, Context(here.of))
    /\ \E result \in Results(here.spec, FailsToEnter) :
         /\ Recorded("enter", here.of, NoError, result)
         /\ IF result \in Errors THEN Raise(result) ELSE Proceed(ip + 1)
    /\ UNCHANGED <<handlers, returning>> /\ GoesOn

\* Mutants: the order is left alone; the context stays where it is.
ContextPoppedAlone ==
    /\ with_contexts' = Popped(with_contexts)
    /\ UNCHANGED <<handlers, protection_order>>
ContextKept == UNCHANGED protection

\* The newest context leaves the frame; the order follows if it agrees.
ContextPopped ==
    /\ with_contexts' = Popped(with_contexts)
    /\ protection_order' = IF protection_order # <<>> /\ Top(protection_order) = "with"
                           THEN Popped(protection_order) ELSE protection_order
    /\ UNCHANGED handlers

ExecuteWithExit ==
    /\ Executes("WITH_EXIT")
    /\ IF with_contexts = <<>>
       THEN Proceed(ip + 1) /\ UNCHANGED <<stack, protection, trace>>
       ELSE /\ ContextPopped
            /\ stack' = IF stack = <<>> THEN stack ELSE Popped(stack)
            /\ \E result \in Results(Top(with_contexts).manager, FailsToExit) :
                 /\ Recorded("exit", Top(with_contexts).of, NoError, result)
                 /\ IF result \in Errors THEN Raise(result) ELSE Proceed(ip + 1)
    /\ UNCHANGED returning /\ GoesOn

ExecuteTryBegin ==
    /\ Executes("TRY_BEGIN")
    /\ handlers' = Append(handlers, here.arg)
    /\ protection_order' = Append(protection_order, "try")
    /\ Proceed(ip + 1)
    /\ UNCHANGED <<with_contexts, stack, returning, trace>> /\ GoesOn

ExecuteTryEnd ==
    /\ Executes("TRY_END")
    /\ IF handlers = <<>>
       THEN Raise("RuntimeError") /\ UNCHANGED protection
       ELSE /\ handlers' = Popped(handlers)
            /\ protection_order' =
                   IF protection_order # <<>> /\ Top(protection_order) = "try"
                   THEN Popped(protection_order) ELSE protection_order
            /\ Proceed(ip + 1)
            /\ UNCHANGED with_contexts
    /\ UNCHANGED <<stack, returning, trace>> /\ GoesOn

\* A bare raise, or the end of a finally clause or of the except clauses:
\* what is on top of the stack, else the exception last caught.
ExecuteRaise ==
    /\ Executes("RAISE")
    /\ stack' = IF stack = <<>> THEN stack ELSE Popped(stack)
    /\ Raise(IF stack = <<>>
             THEN IF active_exception = NoError THEN "RuntimeError" ELSE active_exception
             ELSE IF Top(stack).kind = "exception" THEN Top(stack).of ELSE "TypeError")
    /\ UNCHANGED <<protection, returning, trace>> /\ GoesOn

\* MATCH_EXCEPTION_CHECK and the JUMP_IF_FALSE after it: the exception stays
\* on the stack either way.
ExecuteMatch ==
    /\ Executes("MATCH_EXCEPTION_CHECK")
    /\ Proceed(IF Top(stack) = Exception(here.spec) THEN ip + 1 ELSE here.arg)
    /\ UNCHANGED <<stack, protection, returning, trace>> /\ GoesOn

----------------------------------------------------------------------------
(***************************************************************************)
(* RETURN: the contexts are drained, then the call ends.                   *)
(***************************************************************************)
ExecuteReturn ==
    /\ Executes("RETURN")
    /\ returning' = IF stack = <<>> THEN "none" ELSE Top(stack).kind
    /\ stack' = IF stack = <<>> THEN stack ELSE Popped(stack)
    /\ Proceed(ip + 1)
    /\ UNCHANGED <<protection, trace>> /\ GoesOn

DrainContext ==
    /\ Runs
    /\ returning # NoValue /\ with_contexts # <<>>
    /\ ContextPopped
    /\ \E result \in Results(Top(with_contexts).manager, FailsToExit) :
         /\ Recorded("exit", Top(with_contexts).of, NoError, result)
         /\ IF result \in Errors
            THEN raised' = result /\ unwound_with' = 0 /\ returning' = NoValue
            ELSE UNCHANGED <<raised, unwound_with, returning>>
    /\ UNCHANGED <<program, ip, stack, suspended, awaiting, active_exception, outcome>>

\* Mutant: a call returns without draining its contexts.
LeaveEarly ==
    /\ Runs /\ awaiting = NoAwait
    /\ \/ returning # NoValue /\ outcome' = Returns(returning)
       \/ returning = NoValue /\ ip > Len(code) /\ outcome' = Returns("none")
    /\ UNCHANGED <<program, ip, stack, protection, active_exception, raised,
                   unwound_with, returning, suspended, awaiting, trace>>

Leave ==
    /\ Runs /\ awaiting = NoAwait
    /\ \/ returning # NoValue /\ with_contexts = <<>> /\ outcome' = Returns(returning)
       \/ returning = NoValue /\ ip > Len(code) /\ outcome' = Returns("none")
    /\ UNCHANGED <<program, ip, stack, protection, active_exception, raised,
                   unwound_with, returning, suspended, awaiting, trace>>

----------------------------------------------------------------------------
(***************************************************************************)
(* Generators and coroutines.                                              *)
(***************************************************************************)
ExecuteYield ==
    /\ Executes("YIELD_VALUE")
    /\ stack' = Popped(stack)
    /\ suspended' = TRUE
    /\ Proceed(ip + 1)
    /\ UNCHANGED <<protection, awaiting, returning, trace>>

\* Where a suspended frame stopped: at a yield, or before its first statement.
resumes == IF ip = 1 THEN <<>> ELSE code[ip - 1].of

\* next() pushes nothing; send() and asend() push what is sent, unless the
\* frame has not started.
Sent == IF Functions[program].sends /\ ip # 1 THEN <<Value>> ELSE <<>>

Resume ==
    /\ suspended /\ outcome = Running /\ awaiting = NoAwait
    /\ suspended' = FALSE
    /\ Recorded("yield", resumes, NoError, "go")
    /\ stack' = stack \o Sent
    /\ UNCHANGED <<program, ip, protection, active_exception, raised, unwound_with,
                   returning, awaiting, outcome>>

\* throw(), athrow() and aclose(), and close() of a generator: the exception is
\* raised in place of the instruction the frame would go on with.  An await under
\* way stays under way.  (What athrow() pushes before is cleared by whoever takes
\* the exception.)  close() of a coroutine only marks it: its frame stays where
\* it is for good, and no step of it follows.
Throw ==
    /\ suspended /\ outcome = Running
    /\ suspended' = FALSE
    /\ \E error \in Errors :
         /\ IF awaiting = NoAwait THEN Recorded("yield", resumes, NoError, error)
            ELSE Recorded("await", awaiting, NoError, error)
         /\ raised' = error /\ unwound_with' = 0
    /\ ip' = IF awaiting = NoAwait THEN ip + 1 ELSE ip
    /\ UNCHANGED <<program, stack, protection, active_exception, returning, awaiting, outcome>>

\* One step of the awaited object (_drive_awaiting).  When it fails, it is
\* still what the frame awaits; not so when its __await__ fails
\* (_start_awaiting), before the frame awaits anything.
Drive(of) ==
    \E result \in Errors \cup {"suspend", "done"} :
        /\ Recorded("await", of, NoError, result)
        /\ awaiting' = IF result = "done" THEN NoAwait ELSE of
        /\ suspended' = (result = "suspend")
        /\ stack' = IF result = "done" THEN Append(stack, Value) ELSE stack
        /\ raised' = IF result \in Errors THEN result ELSE NoError
        /\ unwound_with' = IF result \in Errors THEN 0 ELSE unwound_with

FailsToStart(of) ==
    /\ \E error \in Errors : Recorded("await", of, NoError, error) /\ Raise(error)
    /\ UNCHANGED stack /\ GoesOn

ExecuteAwait ==
    /\ Executes("AWAIT")
    /\ Drive(here.of) \/ FailsToStart(here.of)
    /\ ip' = ip + 1
    /\ UNCHANGED <<protection, active_exception, returning, outcome>>

ResumeAwait ==
    /\ awaiting # NoAwait /\ raised = NoError /\ outcome = Running
    /\ Drive(awaiting)
    /\ UNCHANGED <<program, ip, protection, active_exception, returning, outcome>>

----------------------------------------------------------------------------
(***************************************************************************)
(* The dispatch of an exception: the protections are undone innermost      *)
(* first, until a handler takes it or an __exit__ suppresses it.           *)
(***************************************************************************)
Dispatching ==
    /\ outcome = Running /\ raised # NoError
    /\ UNCHANGED <<program, returning, suspended, awaiting>>

\* What the dispatch itself raises is not dispatched again.
Escape(error) ==
    /\ outcome' = Raises(error)
    /\ UNCHANGED <<ip, stack, active_exception, raised, unwound_with>>

Uncaught ==
    /\ Dispatching
    /\ protection_order = <<>>
    /\ Escape(raised)
    /\ UNCHANGED <<protection, trace>>

Catch ==
    /\ Dispatching
    /\ protection_order # <<>> /\ Top(protection_order) = "try"
    /\ protection_order' = Popped(protection_order)
    /\ IF handlers = <<>>
       THEN Escape("IndexError") /\ UNCHANGED handlers
       ELSE /\ handlers' = Popped(handlers)
            /\ ip' = Top(handlers)
            /\ stack' = <<Exception(raised)>>
            /\ active_exception' = raised
            /\ raised' = NoError
            /\ UNCHANGED <<unwound_with, outcome>>
    /\ UNCHANGED <<with_contexts, trace>>

\* Past the n-th WITH_EXIT from an address on, or past the end.
After(c, from, n) ==
    LET Exits(last) == {i \in from..last : c[i].op = "WITH_EXIT"}
        ends == {i \in from..Len(c) : Cardinality(Exits(i)) = n}
    IN IF ends = {} THEN Len(c) + 1
       ELSE 1 + CHOOSE i \in ends : \A j \in ends : i <= j

UnwindContext ==
    /\ Dispatching
    /\ protection_order # <<>> /\ Top(protection_order) = "with"
    /\ protection_order' = Popped(protection_order)
    /\ UNCHANGED handlers
    /\ IF with_contexts = <<>>
       THEN Escape("IndexError") /\ UNCHANGED <<with_contexts, trace>>
       ELSE /\ with_contexts' = Popped(with_contexts)
            /\ \E result \in Results(Top(with_contexts).manager, FailsToExit)
                            \cup (IF Suppresses \in Top(with_contexts).manager
                                  THEN {"suppress"} ELSE {}) :
                 /\ Recorded("exit", Top(with_contexts).of, raised, result)
                 /\ CASE result \in Errors -> Escape(result)
                      [] result = "ok" ->
                           /\ unwound_with' = unwound_with + 1
                           /\ UNCHANGED <<ip, stack, active_exception, raised, outcome>>
                      [] OTHER ->
                           /\ stack' = <<>>
                           /\ ip' = After(code, ip, unwound_with + 1)
                           /\ raised' = NoError
                           /\ UNCHANGED <<active_exception, unwound_with, outcome>>

Next ==
    \/ ExecuteDo \/ ExecuteTest \/ ExecuteLoadConst \/ ExecutePopTop \/ ExecuteJump
    \/ ExecuteGetIter \/ ExecuteForIter
    \/ ExecuteWithEnter \/ ExecuteWithExit
    \/ ExecuteTryBegin \/ ExecuteTryEnd \/ ExecuteRaise \/ ExecuteMatch
    \/ ExecuteReturn \/ DrainContext \/ Leave
    \/ ExecuteYield \/ ExecuteAwait \/ Resume \/ ResumeAwait \/ Throw
    \/ Uncaught \/ Catch \/ UnwindContext

Spec == Init /\ [][Next]_vars

----------------------------------------------------------------------------
(***************************************************************************)
(* Properties of a frame, whatever its bytecode.                           *)
(***************************************************************************)
\* The context managers entered and not yet exited, by the events of the trace;
\* and whether each __exit__ so far was that of the newest of them.
NoneOpen == [proper |-> TRUE, managers |-> <<>>]
Following(open, event) ==
    CASE event.what = "enter" ->
            [proper |-> open.proper, managers |-> Append(open.managers, event.of)]
      [] event.what = "exit" /\ open.managers # <<>> /\ Top(open.managers) = event.of ->
            [proper |-> open.proper, managers |-> Popped(open.managers)]
      [] event.what = "exit" /\ ~(open.managers # <<>> /\ Top(open.managers) = event.of) ->
            [proper |-> FALSE, managers |-> open.managers]
      [] OTHER -> open
OpenAfter ==
    LET open[n \in 0..Len(trace)] ==
            IF n = 0 THEN NoneOpen ELSE Following(open[n - 1], trace[n])
    IN open[Len(trace)]

\* Jumps and failures included, no __exit__ runs twice or for a manager whose
\* __enter__ was never called, and inner managers exit before outer ones.
ExitsNewestFirst == OpenAfter.proper

\* A call that ends at a RETURN has exited every manager it entered: RETURN
\* drains what the jumps left behind.  (A call that runs off the end of its
\* code, which a suppressed exception can make it do, drains nothing.)
ReturnExitsAll ==
    outcome.how = "returns" /\ returning # NoValue => OpenAfter.managers = <<>>
=============================================================================
