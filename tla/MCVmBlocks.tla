----------------------------- MODULE MCVmBlocks -----------------------------
EXTENDS VmBlocks

LOCAL INSTANCE SequencesExt

do == <<Do>>
Innermost == <<do, <<Return>>, <<BareReturn>>, <<Reraise>>,
               <<If(<<Break>>, <<>>), Do>>, <<If(<<Continue>>, do), Do>>>>

\* The statements around a block, one for each way to stand in one.
Around(b, managers) ==
    [i \in DOMAIN managers |-> <<With(managers[i], b)>>] \o
    <<<<If(b, do)>>, <<For(b, <<>>)>>, <<While(b, do)>>, <<For(do, b)>>,
      <<Try(b, <<Except(Anything, do)>>, <<>>, <<>>)>>,
      <<Try(b, <<Except("ValueError", do), Except("KeyError", do)>>, do, <<>>)>>,
      <<Try(b, <<Except("KeyError", <<>>), Except(Anything, <<>>)>>, <<>>, do)>>,
      <<Try(b, <<>>, <<>>, do)>>,
      <<Try(do, <<Except(Anything, b)>>, <<>>, <<>>)>>,
      <<Try(do, <<>>, <<>>, b)>>>>

Quiet == <<{}, {FailsToExit}, {Suppresses}>>
Faulty == Append(Quiet, {FailsToEnter})

AroundEach(blocks, managers) ==
    FlattenSeq([i \in DOMAIN blocks |-> Around(blocks[i], managers)])
Then(blocks, next) == [i \in DOMAIN blocks |-> blocks[i] \o next]
One(managers) == AroundEach(Innermost, managers)
Two(managers) == AroundEach(One(managers) \o Then(One(managers), do), managers)
Pairs(blocks, nexts) == FlattenSeq([i \in DOMAIN nexts |-> Then(blocks, nexts[i])])

IsLegal(p) == Legal(p, FALSE)
IsSupported(p) == IsLegal(p) /\ Supported(p, FunctionLevel("never"))

\* Two statements deep, with one more after each, or two in a row.
Programs ==
    SelectSeq(Then(One(Faulty) \o Two(Faulty), do), IsLegal)
        \o Pairs(SelectSeq(One(Quiet), IsSupported),
                 SelectSeq(AroundEach(<<do>>, Quiet), IsSupported))

\* Yields and awaits at the bottom of the same statements.
Suspending == <<<<Yield>>, <<Do, Yield, Do>>, <<Yield, Return>>, <<If(<<Yield>>, <<>>)>>>>
Asking == <<<<Ask>>, <<Ask, Do, Ask>>, <<Do, Await>>, <<Await, Ask>>>>
Resumed(innermost) ==
    LET one == AroundEach(innermost, Quiet)
    IN Then(one \o AroundEach(one, Quiet), do)

\* Computed once.
CompiledPrograms ==
    Compiled(Programs, "never") \o Compiled(Resumed(Suspending), "next")
        \o Compiled(Resumed(Asking), "send")
MCPrograms == CompiledPrograms

\* for: for: with: break
BreaksPrograms ==
    <<<<For(<<For(<<With({}, <<Break>>)>>, <<>>), Do>>, <<>>)>>>>
MCBreaks == Compiled(BreaksPrograms, "never")
=============================================================================
