---------------------------- MODULE Instructions ----------------------------
(***************************************************************************)
(* Effects as data: the instructions of internal/runtime/node.go and the   *)
(* combinators of package effect that build them.                          *)
(*                                                                         *)
(* A callback is a record whose kind says what the typed code behind it    *)
(* does when the interpreter calls it; any callback may panic instead.     *)
(* A value is the sequence of the marks that its producers left on it, so  *)
(* that it tells what it was made of and in which order.                   *)
(***************************************************************************)
EXTENDS Outcome

Panic == [kind |-> "panic"]
Go(next) == [kind |-> "go", next |-> next]
To(target) == [kind |-> "to", target |-> target]

\* The defect of a panic, named after the instruction whose callback panicked.
Site ==
    [Eval |-> 1, Transform |-> 2, Bind |-> 3, TransformCause |-> 4, Recover |-> 5, OnExit |-> 6,
     WithEnvironment |-> 7, WithContext |-> 8, WithState |-> 9, Suspend |-> 10]

Died(n) == <<Die(Site[n.op])>>
-----------------------------------------------------------------------------
(* Instructions *)

Succeed(value) == [op |-> "Succeed", value |-> value]
FailWithCause(cause) == [op |-> "Fail", cause |-> cause]

\* A leaf returns the environment it finds, or a typed failure, or it
\* panics.
Eval(run) == [op |-> "Eval", run |-> run]

Suspend(create) == [op |-> "Suspend", create |-> create]
Transform(source, apply) == [op |-> "Transform", source |-> source, apply |-> apply]
Bind(source, continue) == [op |-> "Bind", source |-> source, continue |-> continue]
TransformCause(source, apply) == [op |-> "TransformCause", source |-> source, apply |-> apply]
Recover(source, handle) == [op |-> "Recover", source |-> source, handle |-> handle]
WithEnvironment(source, adapt) == [op |-> "WithEnvironment", source |-> source, adapt |-> adapt]
WithState(source, derive) == [op |-> "WithState", source |-> source, derive |-> derive]
WithContext(source, derive) == [op |-> "WithContext", source |-> source, derive |-> derive]
OnExit(source, observe) == [op |-> "OnExit", source |-> source, observe |-> observe]
-----------------------------------------------------------------------------
(* What callbacks do that return *)

Mark(mark) == [kind |-> "mark", mark |-> mark]
Constantly(value) == [kind |-> "constant", value |-> value]
After(first) == [kind |-> "after", first |-> first]

Applied(apply, value) ==
    CASE apply.kind = "mark" -> Append(value, apply.mark)
      [] apply.kind = "constant" -> apply.value
      [] apply.kind = "after" -> apply.first \o value

\* The continuation of FlatMap may close over the value it is given, as those of
\* Zip and Tap do.
Continued(continue, value) ==
    CASE continue.kind = "go" -> continue.next
      [] continue.kind = "pair" -> Transform(continue.next, After(value))
      [] continue.kind = "tap" -> Transform(continue.next, Constantly(value))

\* MapError touches the typed failures only, OrDie turns them into defects.
Rewritten(apply, cause) ==
    [i \in DOMAIN cause |->
        IF cause[i].kind # "fail" THEN cause[i]
        ELSE IF apply.kind = "MapError" THEN Fail(cause[i].from + 100)
        ELSE Die(cause[i].from)]

\* CatchAll handles one typed failure, and raises again whatever else there is.
Handled(handle, cause) ==
    IF handle.kind = "failure" /\ ~(Len(cause) = 1 /\ cause[1].kind = "fail")
    THEN FailWithCause(cause)
    ELSE handle.next

\* ExitOf makes a value of an exit.
Reified(exit) ==
    Success(IF exit.ok THEN <<"Success">> \o exit.value
            ELSE <<"Failure">> \o [i \in DOMAIN exit.cause |-> exit.cause[i].kind])
-----------------------------------------------------------------------------
(* Combinators *)

Map(fx, mark) == Transform(fx, Mark(mark))
As(fx, value) == Transform(fx, Constantly(value))
AndThen(fx, that) == Bind(fx, Go(that))
Zipped(fx, that) == Bind(fx, [kind |-> "pair", next |-> that])
Tap(fx, inspect) == Bind(fx, [kind |-> "tap", next |-> inspect])
MapError(fx) == TransformCause(fx, [kind |-> "MapError"])
OrDie(fx) == TransformCause(fx, [kind |-> "OrDie"])
CatchCause(fx, handler) == Recover(fx, [kind |-> "cause", next |-> handler])
CatchAll(fx, handler) == Recover(fx, [kind |-> "failure", next |-> handler])
ContramapEnv(fx, environment) == WithEnvironment(fx, To(environment))
WithName(fx, name) == WithState(fx, To(name))
ExitOf(fx) == OnExit(fx, [kind |-> "reify"])
Fold(fx, mark) == Map(ExitOf(fx), mark)
Ensuring(fx, finalize) == OnExit(fx, [kind |-> "finalize", finalizer |-> finalize])

\* With an observer installed: the span's end is reported from inside its state.
WithSpan(fx, span) == Suspend(Go(WithState(OnExit(fx, [kind |-> "return"]), To(span))))

\* The scope is closed by a hook inside the scope's own context and state, and
\* the body is described inside the hook.
Scoped(use, context, state, release) ==
    Suspend(Go(WithContext(WithState(Ensuring(Suspend(use), release), To(state)), To(context))))

\* Effects with different channels: each reads its part of the environment and
\* marks its failures.
ZipChannels(fx, that, first, second) ==
    Zipped(ContramapEnv(MapError(fx), first), ContramapEnv(MapError(that), second))
=============================================================================
