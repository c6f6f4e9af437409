---------------------------- MODULE Interpreter -----------------------------
(***************************************************************************)
(* The interpreter: effect/internal/runtime/interpret.go, and the guards   *)
(* around every callback in interpret_guard.go.                            *)
(*                                                                         *)
(* One machine evaluates an instruction tree with a stack of frames in     *)
(* place of Go's, on one goroutine; its context is cancelled from outside  *)
(* at any time.  A finalizer is interpreted by a machine of its own, called   *)
(* from a hook: a callFrame stands for the Go frame of that call, and the  *)
(* frames above it are the inner machine's.                                *)
(***************************************************************************)
EXTENDS Instructions

CONSTANTS Programs,      \* the programs a machine may be given
          Run,           \* the context that the machine is given
          Unread         \* what the machine is given as environment and state

\* A context is the sequence of those that a cancellation reaches it from, itself
\* last: one derived from another is cancelled with it, and context.WithoutCancel
\* has none.
Given == <<Run>>
Detached == <<>>

VARIABLES ctx, environment, state,   \* the ambient part of the interpreter
          frames,                    \* its continuations, the youngest last
          phase,                     \* evaluate, resume or done
          node,                      \* what is evaluated next
          exit,                      \* what the continuations are applied to
          cancelled,                 \* whether Run is
          program, trace,            \* history: what was given, what was performed where
          hooks, ran                 \* history: exit hooks entered, and those run

ambient == <<ctx, environment, state>>
history == <<program, trace, hooks, ran>>
vars == <<ambient, frames, phase, node, exit, cancelled, history>>

Init ==
    /\ ctx = Given /\ environment = Unread /\ state = Unread
    /\ frames = <<>>
    /\ phase = "evaluate" /\ program \in Programs /\ node = program
    /\ exit = Success(<<>>)
    /\ cancelled = FALSE
    /\ trace = <<>> /\ hooks = 0 /\ ran = {}

\* Whoever gave the machine its context cancels it.  That of a scope is not
\* cancelled on its own while the scope's body runs.
Cancel ==
    /\ phase # "done" /\ ~cancelled
    /\ cancelled' = TRUE
    /\ UNCHANGED <<ambient, frames, phase, node, exit, history>>

interpretation == [context |-> ctx, environment |-> environment, state |-> state]

What(n) == IF n.op = "Eval" THEN n.run ELSE n.op

Perform(n, interrupted) ==
    trace' = Append(trace, [what |-> What(n), at |-> interpretation, interrupted |-> interrupted])

EvaluateNext(n) == phase' = "evaluate" /\ node' = n /\ UNCHANGED exit
ResumeWith(x) == phase' = "resume" /\ exit' = x /\ UNCHANGED node
-----------------------------------------------------------------------------
(* evaluate: one frame per level of composition *)

Evaluating(ops) == phase = "evaluate" /\ node.op \in ops

push(frame) == frames' = Append(frames, frame)

EvaluateComposition ==
    /\ Evaluating({"Transform", "Bind", "TransformCause", "Recover"})
    /\ push([op |-> node.op, node |-> node])
    /\ EvaluateNext(node.source)
    /\ UNCHANGED <<ambient, cancelled, history>>

EvaluateOnExit ==
    /\ Evaluating({"OnExit"})
    /\ push([op |-> "OnExit", node |-> node, hook |-> hooks + 1])
    /\ hooks' = hooks + 1
    /\ EvaluateNext(node.source)
    /\ UNCHANGED <<ambient, cancelled, program, trace, ran>>

\* Faults, each a plausible slip in the definition that follows it; no action
\* of the specification uses them.  Here: the frame saves what has just been put
\* in place.
EvaluateWithEnvironmentLate ==
    /\ Evaluating({"WithEnvironment"})
    /\ IF node.adapt.kind = "panic"
       THEN ResumeWith(Failure(Died(node))) /\ UNCHANGED <<environment, frames>>
       ELSE /\ environment' = node.adapt.target
            /\ push([op |-> "environmentFrame", environment |-> environment'])
            /\ EvaluateNext(node.source)
    /\ UNCHANGED <<ctx, state, cancelled, history>>

\* The frame that restores is pushed before the callback that may panic, so it
\* is there to be popped in either case.
EvaluateWithEnvironment ==
    /\ Evaluating({"WithEnvironment"})
    /\ push([op |-> "environmentFrame", environment |-> environment])
    /\ IF node.adapt.kind = "panic"
       THEN ResumeWith(Failure(Died(node))) /\ UNCHANGED environment
       ELSE environment' = node.adapt.target /\ EvaluateNext(node.source)
    /\ UNCHANGED <<ctx, state, cancelled, history>>

EvaluateWithContext ==
    /\ Evaluating({"WithContext"})
    /\ push([op |-> "contextFrame", ctx |-> ctx])
    /\ IF node.derive.kind = "panic"
       THEN ResumeWith(Failure(Died(node))) /\ UNCHANGED ctx
       ELSE ctx' = Append(ctx, node.derive.target) /\ EvaluateNext(node.source)
    /\ UNCHANGED <<environment, state, cancelled, history>>

EvaluateWithState ==
    /\ Evaluating({"WithState"})
    /\ push([op |-> "stateFrame", state |-> state])
    /\ IF node.derive.kind = "panic"
       THEN ResumeWith(Failure(Died(node))) /\ UNCHANGED state
       ELSE state' = node.derive.target /\ EvaluateNext(node.source)
    /\ UNCHANGED <<ctx, environment, cancelled, history>>

EvaluateSuspend ==
    /\ Evaluating({"Suspend"})
    /\ IF node.create.kind = "panic"
       THEN ResumeWith(Failure(Died(node)))
       ELSE EvaluateNext(node.create.next)
    /\ UNCHANGED <<ambient, frames, cancelled, history>>

\* evalLeaf: an Eval leaf performs its work where it is.
EvalLeaf(n, given) ==
    CASE n.run = "environment" -> Success(<<given>>)
      [] n.run = "failure" -> Failure(<<Fail(Site["Eval"])>>)
      [] n.run = "panic" -> Failure(Died(n))

Leaf(n, given) ==
    CASE n.op = "Succeed" -> Success(n.value)
      [] n.op = "Fail" -> Failure(n.cause)
      [] n.op = "Eval" -> EvalLeaf(n, given)

\* settle: the checkpoint comes first, whatever the leaf.
Settle ==
    /\ Evaluating({"Succeed", "Fail", "Eval"})
    /\ LET interrupted == cancelled /\ Run \in ToSet(ctx)
       IN  /\ Perform(node, interrupted)
           /\ ResumeWith(IF interrupted THEN Failure(<<Interrupted(Run)>>) ELSE Leaf(node, environment))
    /\ UNCHANGED <<ambient, frames, cancelled, program, hooks, ran>>
-----------------------------------------------------------------------------
(* resume: the continuations, youngest first *)

top == frames[Len(frames)]

Resuming(ops) == phase = "resume" /\ frames # <<>> /\ top.op \in ops

pop == frames' = SubSeq(frames, 1, Len(frames) - 1)

ResumeRestoring ==
    /\ Resuming({"environmentFrame", "contextFrame", "stateFrame"})
    /\ pop
    /\ environment' = IF top.op = "environmentFrame" THEN top.environment ELSE environment
    /\ ctx' = IF top.op = "contextFrame" THEN top.ctx ELSE ctx
    /\ state' = IF top.op = "stateFrame" THEN top.state ELSE state
    /\ UNCHANGED <<phase, node, exit, cancelled, history>>

ResumeTransform ==
    /\ Resuming({"Transform"})
    /\ pop
    /\ ResumeWith(IF ~exit.ok THEN exit
                  ELSE IF top.node.apply.kind = "panic" THEN Failure(Died(top.node))
                  ELSE Success(Applied(top.node.apply, exit.value)))
    /\ UNCHANGED <<ambient, cancelled, history>>

ResumeTransformCause ==
    /\ Resuming({"TransformCause"})
    /\ pop
    /\ ResumeWith(IF exit.ok THEN exit
                  ELSE IF top.node.apply.kind = "panic" THEN Failure(Died(top.node))
                  ELSE Failure(Rewritten(top.node.apply, exit.cause)))
    /\ UNCHANGED <<ambient, cancelled, history>>

ResumeBind ==
    /\ Resuming({"Bind"})
    /\ pop
    /\ IF ~exit.ok THEN ResumeWith(exit)
       ELSE IF top.node.continue.kind = "panic" THEN ResumeWith(Failure(Died(top.node)))
       ELSE EvaluateNext(Continued(top.node.continue, exit.value))
    /\ UNCHANGED <<ambient, cancelled, history>>

\* Fault: the handler's defect takes the place of what it was to handle.
ResumeRecoverForgets ==
    /\ Resuming({"Recover"})
    /\ pop
    /\ IF exit.ok THEN ResumeWith(exit)
       ELSE IF top.node.handle.kind = "panic" THEN ResumeWith(Failure(Died(top.node)))
       ELSE EvaluateNext(Handled(top.node.handle, exit.cause))
    /\ UNCHANGED <<ambient, cancelled, history>>

ResumeRecover ==
    /\ Resuming({"Recover"})
    /\ pop
    /\ IF exit.ok THEN ResumeWith(exit)
       ELSE IF top.node.handle.kind = "panic"
            THEN ResumeWith(Failure(Compose(exit.cause, Died(top.node))))
       ELSE EvaluateNext(Handled(top.node.handle, exit.cause))
    /\ UNCHANGED <<ambient, cancelled, history>>

\* An exit hook: it returns the exit, makes a value of it, panics, or runs a
\* finalizer on a machine of its own, detached from cancellation.
Observed(observe) ==
    CASE observe.kind = "panic" -> Failure(Compose(exit.cause, Died(top.node)))
      [] observe.kind = "return" -> exit
      [] observe.kind = "reify" -> Reified(exit)

RunHook ==
    /\ ran' = ran \cup {top.hook}
    /\ Perform(top.node, FALSE)
    /\ IF top.node.observe.kind = "finalize"
       THEN /\ frames' = [frames EXCEPT ![Len(frames)] =
                             [op |-> "callFrame", exit |-> exit, ctx |-> ctx,
                              environment |-> environment, state |-> state]]
            /\ ctx' = Detached
            /\ EvaluateNext(top.node.observe.finalizer)
       ELSE /\ pop
            /\ ResumeWith(Observed(top.node.observe))
            /\ UNCHANGED ctx

\* Fault: a failure skips the hook.
ResumeHookOnSuccess ==
    /\ Resuming({"OnExit"})
    /\ IF exit.ok THEN RunHook ELSE pop /\ UNCHANGED <<ctx, phase, node, exit, trace, ran>>
    /\ UNCHANGED <<environment, state, cancelled, program, hooks>>

ResumeHook ==
    /\ Resuming({"OnExit"})
    /\ RunHook
    /\ UNCHANGED <<environment, state, cancelled, program, hooks>>

\* The finalizer's machine has finished: what it failed with goes behind what
\* there already was.
ResumeCall ==
    /\ Resuming({"callFrame"})
    /\ pop
    /\ ctx' = top.ctx /\ environment' = top.environment /\ state' = top.state
    /\ ResumeWith(ComposeCleanup(top.exit, exit.cause))
    /\ UNCHANGED <<cancelled, history>>

Finish ==
    /\ phase = "resume" /\ frames = <<>>
    /\ phase' = "done"
    /\ UNCHANGED <<ambient, frames, node, exit, cancelled, history>>

Evaluate ==
    \/ EvaluateComposition \/ EvaluateOnExit
    \/ EvaluateWithEnvironment \/ EvaluateWithContext \/ EvaluateWithState
    \/ EvaluateSuspend \/ Settle

Resume ==
    \/ ResumeRestoring \/ ResumeTransform \/ ResumeTransformCause
    \/ ResumeBind \/ ResumeRecover \/ ResumeHook \/ ResumeCall \/ Finish

Next == Evaluate \/ Resume \/ Cancel

Spec == Init /\ [][Next]_vars
-----------------------------------------------------------------------------
(* Properties *)

\* Whatever a program did to its ambient, and wherever it failed or panicked,
\* the interpreter ends with the context, environment and state it began with
\* (interpret.go 85-108: the restoring frame is pushed before the callback).
AmbientRestored ==
    phase = "done" => ctx = Given /\ environment = Unread /\ state = Unread

\* Every exit hook that was entered has run by the end, on success, failure,
\* defect and interruption (finalization.go 10-12, node.go 99-102),
\* and none of them runs twice.
HooksRun ==
    /\ phase = "done" => ran = 1..hooks
    /\ \A i \in DOMAIN frames : frames[i].op = "OnExit" => frames[i].hook \notin ran
=============================================================================
