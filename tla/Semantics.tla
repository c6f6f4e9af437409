----------------------------- MODULE Semantics ------------------------------
(***************************************************************************)
(* What effects mean, without frames: the exit of each instruction from    *)
(* the exits of its parts, by recursion on the tree.  An ambient is passed *)
(* down and never comes back up, so here nothing has to be restored.       *)
(*                                                                         *)
(* When the context was cancelled is not part of a program: it is given as  *)
(* `moment', the number of things performed before.  From there on every    *)
(* leaf that is evaluated under that context is an interruption.           *)
(***************************************************************************)
EXTENDS Interpreter

\* An exit, with everything that was performed up to it.
Reaches(x, log) == [exit |-> x, log |-> log]

Performed(log, n, at, interrupted) ==
    Append(log, [what |-> What(n), at |-> at, interrupted |-> interrupted])

RECURSIVE Meaning(_, _, _, _)

MeaningOfLeaf(n, at, log, moment) ==
    LET interrupted == Len(log) >= moment /\ Run \in ToSet(at.context)
    IN  Reaches(IF interrupted THEN Failure(<<Interrupted(Run)>>) ELSE Leaf(n, at.environment),
                Performed(log, n, at, interrupted))

\* A callback that changes the ambient of the source, or panics before it runs.
MeaningUnder(n, callback, at, log, moment) ==
    IF callback.kind = "panic" THEN Reaches(Failure(Died(n)), log)
    ELSE Meaning(n.source, at, log, moment)

MeaningOfHook(n, at, done, moment) ==
    LET log == Performed(done.log, n, at, FALSE)
    IN  CASE n.observe.kind = "return" -> Reaches(done.exit, log)
          [] n.observe.kind = "reify" -> Reaches(Reified(done.exit), log)
          [] n.observe.kind = "panic" ->
                Reaches(Failure(Compose(done.exit.cause, Died(n))), log)
          [] n.observe.kind = "finalize" ->
                LET cleanup == Meaning(n.observe.finalizer, [at EXCEPT !.context = Detached], log, moment)
                IN  Reaches(ComposeCleanup(done.exit, cleanup.exit.cause), cleanup.log)

\* A continuation of a source that has come to an end.
MeaningAfter(n, at, done, moment) ==
    LET callback == CASE n.op = "Bind" -> n.continue
                      [] n.op = "Recover" -> n.handle
                      [] OTHER -> n.apply
        wanted == n.op \in {"Transform", "Bind"}
    IN  IF done.exit.ok # wanted THEN done
        ELSE IF callback.kind = "panic"
        THEN Reaches(Failure(IF n.op = "Recover" THEN Compose(done.exit.cause, Died(n)) ELSE Died(n)),
                     done.log)
        ELSE CASE n.op = "Transform" -> Reaches(Success(Applied(callback, done.exit.value)), done.log)
               [] n.op = "TransformCause" ->
                     Reaches(Failure(Rewritten(callback, done.exit.cause)), done.log)
               [] n.op = "Bind" -> Meaning(Continued(callback, done.exit.value), at, done.log, moment)
               [] n.op = "Recover" -> Meaning(Handled(callback, done.exit.cause), at, done.log, moment)

Meaning(n, at, log, moment) ==
    CASE n.op \in {"Succeed", "Fail", "Eval"} -> MeaningOfLeaf(n, at, log, moment)
      [] n.op = "Suspend" ->
            IF n.create.kind = "panic" THEN Reaches(Failure(Died(n)), log)
            ELSE Meaning(n.create.next, at, log, moment)
      [] n.op = "WithEnvironment" ->
            MeaningUnder(n, n.adapt,
                IF n.adapt.kind = "panic" THEN at ELSE [at EXCEPT !.environment = n.adapt.target], log, moment)
      [] n.op = "WithContext" ->
            MeaningUnder(n, n.derive,
                IF n.derive.kind = "panic" THEN at ELSE [at EXCEPT !.context = Append(@, n.derive.target)], log, moment)
      [] n.op = "WithState" ->
            MeaningUnder(n, n.derive,
                IF n.derive.kind = "panic" THEN at ELSE [at EXCEPT !.state = n.derive.target], log, moment)
      [] n.op = "OnExit" -> MeaningOfHook(n, at, Meaning(n.source, at, log, moment), moment)
      [] OTHER -> MeaningAfter(n, at, Meaning(n.source, at, log, moment), moment)
-----------------------------------------------------------------------------
\* Without a cancellation, the machine's exit, and what it performed and in which
\* ambient, are those of the program's meaning, whatever panicked.  With one,
\* they are those of the meaning that is cancelled at some one moment: what was
\* performed before is as it was, and what comes later is an interruption, except
\* under a context that the cancellation does not reach (interpret.go 122-128,
\* settle).  What CatchAll does not handle it raises again by an instruction like
\* any other, so that a cancellation at that moment takes its place: "composite
\* causes, defects, and interruption are propagated unchanged" (effect_recovery.go
\* 20) holds at every other moment, and not at this one.
Initially == [context |-> Given, environment |-> Unread, state |-> Unread]

MeansTheSame ==
    phase = "done" =>
        \E moment \in IF cancelled THEN 0..Len(trace) ELSE {Len(trace)} :
            Reaches(exit, trace) = Meaning(program, Initially, <<>>, moment)
=============================================================================
