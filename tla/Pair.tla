-------------------------------- MODULE Pair --------------------------------
(***************************************************************************)
(* Two branches at once: RunPair of effect/internal/runtime/parallel.go,   *)
(* and ZipPar, Race, RaceFirst and the timeouts that effect/concurrency.go *)
(* and timeout.go build on it.                                             *)
(*                                                                         *)
(* One composition is modelled, inside a caller whose context may be       *)
(* cancelled at any time.  A branch is a fiber: it runs its body, closes   *)
(* its own scope, which may report a defect, and completes.  Cancelling a  *)
(* context reaches its children one after the other, and a context keeps   *)
(* the first reason it was cancelled with.                                 *)
(***************************************************************************)
EXTENDS Outcome, FiniteSets

CONSTANTS
    Ops,            \* the compositions in use
    CallerReasons   \* the reasons the caller's context may be cancelled with

Operations == {"ZipPar", "Race", "RaceFirst", "Timeout", "TimeoutFail"}

ASSUME PairConstants == Ops \subseteq Operations /\ CallerReasons \subseteq STRING

Left == 1
Right == 2
Sides == {Left, Right}
Other(s) == 3 - s

None == "none"   \* a context that is not done

VARIABLES
    op,        \* the composition
    caller,    \* the reason the private scope's context is done, or None
    reason,    \* [Sides -> the reason the branch's context is done, or None]
    branch,    \* [Sides -> "body", "finalizing", "completed"]
    exit,      \* [Sides -> the branch's exit so far]
    pending,   \* the sides whose done channel is not nil
    first,     \* PairOutcome.First
    discarded, \* the side the runner has interrupted and waits for, or Nobody
    abandoned, \* history: the sides the composition has interrupted
    result     \* <<>>, and then <<the exit of the composition>>

vars == <<op, caller, reason, branch, exit, pending, first, discarded, abandoned, result>>

Init ==
    /\ op \in Ops
    /\ caller = None
    /\ reason = [s \in Sides |-> None]
    /\ branch = [s \in Sides |-> "body"]
    /\ exit = [s \in Sides |-> Failure(<<>>)]
    /\ pending = Sides
    /\ first = Nobody /\ discarded = Nobody
    /\ abandoned = {} /\ result = <<>>

IsTimeout == op \in {"Timeout", "TimeoutFail"}

\* The second branch of a timeout is Sleep: it cannot fail and owns nothing.
IsSleep(s) == IsTimeout /\ s = Right

\* Why this composition cancels a branch.
CancelReason ==
    CASE op = "ZipPar" -> "ErrSiblingFailed"
      [] op \in {"Race", "RaceFirst"} -> "ErrRaceLost"
      [] IsTimeout -> "ErrTimedOut"
-----------------------------------------------------------------------------
(* The branches *)

\* The body ends.  Once its context is done it may be interrupted, but it may
\* as well have come to its own end before it noticed.
BodySettles(s) ==
    /\ branch[s] = "body"
    /\ \E x \in {Success(<<s>>)}
              \cup (IF IsSleep(s) THEN {} ELSE {Failure(<<Fail(s)>>), Failure(<<Die(s)>>)})
              \cup (IF reason[s] = None THEN {} ELSE {Failure(<<Interrupted(reason[s])>>)}) :
          exit' = [exit EXCEPT ![s] = x]
    /\ branch' = [branch EXCEPT ![s] = "finalizing"]
    /\ UNCHANGED <<op, caller, reason, pending, first, discarded, abandoned, result>>

\* The fiber closes its scope and completes with what that reported composed in.
Finalize(s) ==
    /\ branch[s] = "finalizing"
    /\ \E cleanup \in IF IsSleep(s) THEN {<<>>} ELSE {<<>>, <<Die(s)>>} :
          exit' = [exit EXCEPT ![s] = ComposeCleanup(@, cleanup)]
    /\ branch' = [branch EXCEPT ![s] = "completed"]
    /\ UNCHANGED <<op, caller, reason, pending, first, discarded, abandoned, result>>

\* The caller is cancelled; the context of the private scope first, and then
\* those of the branches, unless they are done already.
CancelCaller ==
    /\ caller = None /\ result = <<>>
    /\ caller' \in CallerReasons
    /\ UNCHANGED <<op, reason, branch, exit, pending, first, discarded, abandoned, result>>

\* Faults, each a plausible slip in the definition that follows it; no action
\* of the specification uses them.  Here: the private scope does not hang below
\* the caller's context.
PropagateNever(s) == FALSE /\ UNCHANGED vars

Propagate(s) ==
    /\ caller # None /\ reason[s] = None
    /\ reason' = [reason EXCEPT ![s] = caller]
    /\ UNCHANGED <<op, caller, branch, exit, pending, first, discarded, abandoned, result>>
-----------------------------------------------------------------------------
(* The runner *)

Settles(x) ==
    CASE op = "ZipPar" -> ~x.ok
      [] op = "Race" -> x.ok
      [] OTHER -> TRUE

\* Fault: the loser is interrupted and not waited for.
CollectAndForget(s) ==
    /\ discarded = Nobody /\ s \in pending /\ branch[s] = "completed"
    /\ first' = IF first = Nobody THEN s ELSE first
    /\ IF Settles(exit[s]) /\ Other(s) \in pending
       THEN /\ abandoned' = abandoned \cup {Other(s)}
            /\ reason' = [reason EXCEPT ![Other(s)] = IF @ = None THEN CancelReason ELSE @]
            /\ pending' = {}
       ELSE /\ pending' = pending \ {s}
            /\ UNCHANGED <<abandoned, reason>>
    /\ UNCHANGED <<op, caller, branch, exit, discarded, result>>

\* One turn of wait: a completed branch is collected, in either order if both
\* are; if it settles the composition, the other one is interrupted.
Collect(s) ==
    /\ discarded = Nobody /\ s \in pending /\ branch[s] = "completed"
    /\ first' = IF first = Nobody THEN s ELSE first
    /\ pending' = pending \ {s}
    /\ IF Settles(exit[s]) /\ Other(s) \in pending
       THEN /\ discarded' = Other(s)
            /\ abandoned' = abandoned \cup {Other(s)}
            /\ reason' = [reason EXCEPT ![Other(s)] = IF @ = None THEN CancelReason ELSE @]
       ELSE UNCHANGED <<discarded, abandoned, reason>>
    /\ UNCHANGED <<op, caller, branch, exit, result>>

\* Fiber.Interrupt returns with the loser's exit, whatever that is.
Discard ==
    /\ discarded # Nobody /\ branch[discarded] = "completed"
    /\ pending' = pending \ {discarded}
    /\ discarded' = Nobody
    /\ UNCHANGED <<op, caller, reason, branch, exit, first, abandoned, result>>

pairFailure == Failure(CombineParallelCauses(exit[Left].cause, exit[Right].cause, CancelReason))

bothResults ==
    IF exit[Left].ok /\ exit[Right].ok THEN Success(<<Left, Right>>) ELSE pairFailure

\* Fault: Race takes the first completion for the winner.
firstSuccessIsFirst == IF exit[first].ok THEN exit[first] ELSE pairFailure

firstSuccess ==
    IF exit[first].ok THEN exit[first]
    ELSE IF exit[Other(first)].ok THEN exit[Other(first)]
    ELSE pairFailure

firstCompletion == exit[first]

\* What the work reported beside the induced interruption survives a timeout.
timeoutResolver ==
    LET onTimeout == IF op = "Timeout" THEN Success(<<Nobody>>) ELSE Failure(<<Fail(Nobody)>>)
        work == exit[Left].cause
    IN  IF ~(first = Right /\ exit[Right].ok) THEN exit[Left]
        ELSE IF work = <<>> \/ IsInduced(work, CancelReason) THEN onTimeout
        ELSE Failure(Compose(onTimeout.cause, work))

Resolved ==
    CASE op = "ZipPar" -> bothResults
      [] op = "Race" -> firstSuccess
      [] op = "RaceFirst" -> firstCompletion
      [] IsTimeout -> timeoutResolver

\* The private scope has nothing left but to close, and the composition returns.
Return ==
    /\ pending = {} /\ discarded = Nobody /\ result = <<>>
    /\ result' = <<Resolved>>
    /\ UNCHANGED <<op, caller, reason, branch, exit, pending, first, discarded, abandoned>>
-----------------------------------------------------------------------------
Runner == (\E s \in Sides : Collect(s)) \/ Discard \/ Return

Next ==
    \/ Runner \/ CancelCaller
    \/ \E s \in Sides : BodySettles(s) \/ Finalize(s) \/ Propagate(s)

\* The runner and finalizers run, a cancellation reaches its children, and a
\* body that was told to stop stops; one that was not need not.
Fairness ==
    /\ WF_vars(Runner)
    /\ \A s \in Sides : /\ WF_vars(Finalize(s)) /\ WF_vars(Propagate(s))
                        /\ WF_vars(reason[s] # None /\ BodySettles(s))

Spec == Init /\ [][Next]_vars /\ Fairness
-----------------------------------------------------------------------------
(* Properties *)

Reasons == CallerReasons \cup {"ErrSiblingFailed", "ErrRaceLost", "ErrTimedOut"}
Leaves == {Fail(n) : n \in 0..2} \cup {Die(s) : s \in Sides} \cup {Interrupted(r) : r \in Reasons}
Exits == [ok : BOOLEAN, value : Seq(0..2), cause : Seq(Leaves)]

TypeOK ==
    /\ op \in Ops /\ caller \in Reasons \cup {None}
    /\ reason \in [Sides -> Reasons \cup {None}]
    /\ branch \in [Sides -> {"body", "finalizing", "completed"}]
    /\ exit \in [Sides -> Exits]
    /\ pending \subseteq Sides /\ abandoned \subseteq Sides
    /\ first \in {Nobody, Left, Right} /\ discarded \in {Nobody, Left, Right}
    /\ result \in Seq(Exits) /\ Len(result) <= 1

Returned == result # <<>>
Answer == result[1]

\* The composition returns only when both branches have completed, finalizers
\* included, although it may know its result long before (parallel.go 17-19).
NoRunaway == Returned => \A s \in Sides : branch[s] = "completed"

\* The composition succeeds exactly when its contract says: ZipPar if both
\* branches did, Race if either did, RaceFirst if the one that was collected
\* first did; a timeout only if the work did or the clock had run out.  It
\* holds whichever branch the runner's select happens to see first.
SuccessJustified ==
    Returned =>
        CASE op = "ZipPar" -> Answer.ok <=> exit[Left].ok /\ exit[Right].ok
          [] op = "Race" -> Answer.ok <=> exit[Left].ok \/ exit[Right].ok
          [] op = "RaceFirst" -> Answer.ok <=> exit[first].ok
          [] IsTimeout -> Answer.ok => exit[Left].ok \/ exit[Right].ok

\* What a cause tells beside interruptions.
Reported(cause) == {leaf \in ToSet(cause) : leaf.kind # "interrupt"}

IsRace == op \in {"Race", "RaceFirst"}

TimedOut == IsTimeout /\ first = Right /\ exit[Right].ok

\* The branches a result has to answer for.  A race answers for those it has
\* collected and not for the loser it has interrupted, and a race that somebody
\* has won answers for nobody else.
Accountable ==
    IF IsRace /\ Answer.ok THEN {} ELSE IF IsRace THEN Sides \ abandoned ELSE Sides

\* A result tells the failures and the defects of the branches it answers for,
\* with their finalizers' and whenever they came, and no others; a timeout adds
\* its own.  ZipPar and the timeouts never lose what an abandoned branch reported.
\* The races always do, although "anything else the abandoned branch reported, such
\* as a finalizer defect, is still composed into the result" (interruption.md 37-40)
\* is said of Race as well (firstSuccess, firstCompletion, timeoutResolver,
\* CombineParallelCauses).
FailuresExact ==
    Returned =>
        Reported(Answer.cause) =
            (UNION {Reported(exit[s].cause) : s \in Accountable})
              \cup (IF op = "TimeoutFail" /\ TimedOut THEN {Fail(Nobody)} ELSE {})

\* Only the clock of a timeout has stopped, before its time: its cancelled caller
\* has reached it ahead of the work, and the runner has cancelled the work.
ClockStopped == IsTimeout /\ Left \in abandoned /\ ~exit[Right].ok

\* Nothing but interruptions is in the result only if the caller was cancelled:
\* without that the composition's own cancellation of a branch is never its
\* outcome.  The reason is the caller's, with two exceptions, each against the
\* documentation.  A timeout may report ErrTimedOut without a timeout having
\* elapsed, which is what that reason means (interruption.md 28).  And a ZipPar that
\* another one cancels takes the reason for its own and drops the interruption
\* of its branch: if its other branch has succeeded, it fails without any cause,
\* where "a canceled effect's Exit is a failure whose cause is Interrupt"
\* (interruption.md 44-45; IsInduced and its callers, timeoutResolver).
InterruptionExplained ==
    Returned /\ ~Answer.ok /\ Reported(Answer.cause) = {} =>
        /\ caller # None
        /\ ToSet(Answer.cause) \subseteq
              {Interrupted(caller)} \cup (IF ClockStopped THEN {Interrupted(CancelReason)} ELSE {})
        /\ Answer.cause = <<>> <=>
              op = "ZipPar" /\ caller = CancelReason /\ (exit[Left].ok \/ exit[Right].ok)

\* What a result says of failures, defects and interruptions is what its
\* branches, its caller and its clock account for, for every composition.
FailureExplained == FailuresExact /\ InterruptionExplained

\* Once the composition is settled or its caller cancelled, it returns.
SettledReturns ==
    (caller # None \/ \E s \in Sides : branch[s] = "completed" /\ Settles(exit[s])) ~> Returned
=============================================================================
