------------------------------ MODULE Traverse ------------------------------
(***************************************************************************)
(* Many branches at once: RunAll of effect/internal/runtime/               *)
(* parallel_all.go, and ForEachPar, ForEachParN, AllPar and AllParN of     *)
(* effect/collections.go.                                                  *)
(*                                                                         *)
(* A branch is a fiber.  It waits for a permit, runs its body, gives the   *)
(* permit back, reports its exit to the group, closes its own scope, which *)
(* may add a defect, and completes.  The group watches the reports and     *)
(* cancels the private scope at the first failure.  Cancelling a context   *)
(* reaches its children one after the other; a context keeps the first     *)
(* reason it was cancelled with.                                           *)
(***************************************************************************)
EXTENDS Outcome, FiniteSets

CONSTANTS
    Total,          \* how many branches there are
    Limits,         \* the limits ForEachParN is called with
    CallerReasons   \* the reasons the caller's context may be cancelled with

ASSUME TraverseConstants ==
    /\ Total \in Nat \ {0}
    /\ Limits \subseteq Nat
    /\ CallerReasons \subseteq STRING

Branches == 1..Total
None == "none"                        \* a context that is not done
CancelReason == "ErrSiblingFailed"

VARIABLES
    limit,     \* the permits there are, 0 if none are needed
    permits,   \* the branches that hold one
    scope,     \* the reason the private scope's context is done, or None
    reason,    \* [Branches -> the reason the branch's context is done, or None]
    branch,    \* [Branches -> where the branch is]
    exit,      \* [Branches -> its exit so far]
    reports,   \* the completions channel: whether each body succeeded, in order
    heard,     \* how many reports the group has read
    failed,    \* awaitFirstFailure's abandoned: it has cancelled the scope
    caller,    \* history: the caller's context was cancelled
    result     \* <<>>, and then <<the exit of the traversal>>

vars == <<limit, permits, scope, reason, branch, exit, reports, heard, failed, caller, result>>

\* permitsFor: no semaphore if it could not make anybody wait.
PermitsFor(n) == IF n = 0 \/ n >= Total THEN 0 ELSE n

Init ==
    /\ \E n \in Limits : limit = PermitsFor(n)
    /\ permits = {} /\ scope = None
    /\ reason = [b \in Branches |-> None]
    /\ branch = [b \in Branches |-> "queued"]
    /\ exit = [b \in Branches |-> Failure(<<>>)]
    /\ reports = <<>> /\ heard = 0 /\ failed = FALSE
    /\ caller = FALSE /\ result = <<>>
-----------------------------------------------------------------------------
(* A branch *)

\* Faults, each a plausible slip in the definition that follows it; no action
\* of the specification uses them.  Here: one permit too many.
StartOverLimit(b) ==
    /\ branch[b] = "queued"
    /\ limit > 0 => Cardinality(permits) <= limit
    /\ permits' = IF limit > 0 THEN permits \cup {b} ELSE permits
    /\ branch' = [branch EXCEPT ![b] = IF reason[b] = None THEN "running" ELSE "doomed"]
    /\ UNCHANGED <<limit, scope, reason, exit, reports, heard, failed, caller, result>>

\* A permit is free, or none is needed.  The select may prefer the permit to a
\* context that is done; the body then finds out at its first checkpoint.
Start(b) ==
    /\ branch[b] = "queued"
    /\ limit > 0 => Cardinality(permits) < limit
    /\ permits' = IF limit > 0 THEN permits \cup {b} ELSE permits
    /\ branch' = [branch EXCEPT ![b] = IF reason[b] = None THEN "running" ELSE "doomed"]
    /\ UNCHANGED <<limit, scope, reason, exit, reports, heard, failed, caller, result>>

\* A branch that waits for a permit is told to stop.
GiveUp(b) ==
    /\ branch[b] = "queued" /\ limit > 0 /\ reason[b] # None
    /\ exit' = [exit EXCEPT ![b] = Failure(<<Interrupted(reason[b])>>)]
    /\ branch' = [branch EXCEPT ![b] = "reporting"]
    /\ UNCHANGED <<limit, permits, scope, reason, reports, heard, failed, caller, result>>

\* The body ends and the permit goes back.
BodySettles(b) ==
    /\ branch[b] \in {"running", "doomed"}
    /\ \E x \in {Failure(<<Die(b)>>)}
              \cup (IF branch[b] = "running" THEN {Success(<<b>>), Failure(<<Fail(b)>>)} ELSE {})
              \cup (IF reason[b] = None THEN {} ELSE {Failure(<<Interrupted(reason[b])>>)}) :
          exit' = [exit EXCEPT ![b] = x]
    /\ permits' = permits \ {b}
    /\ branch' = [branch EXCEPT ![b] = "reporting"]
    /\ UNCHANGED <<limit, scope, reason, reports, heard, failed, caller, result>>

\* Fault: the exit is reported by the body and again on the way out.
ReportTwice(b) ==
    /\ branch[b] = "reporting"
    /\ reports' = reports \o <<exit[b].ok, exit[b].ok>>
    /\ branch' = [branch EXCEPT ![b] = "finalizing"]
    /\ UNCHANGED <<limit, permits, scope, reason, exit, heard, failed, caller, result>>

Report(b) ==
    /\ branch[b] = "reporting"
    /\ reports' = Append(reports, exit[b].ok)
    /\ branch' = [branch EXCEPT ![b] = "finalizing"]
    /\ UNCHANGED <<limit, permits, scope, reason, exit, heard, failed, caller, result>>

Finalize(b) ==
    /\ branch[b] = "finalizing"
    /\ \E cleanup \in {<<>>, <<Die(b)>>} :
          exit' = [exit EXCEPT ![b] = ComposeCleanup(@, cleanup)]
    /\ branch' = [branch EXCEPT ![b] = "completed"]
    /\ UNCHANGED <<limit, permits, scope, reason, reports, heard, failed, caller, result>>

CancelCaller ==
    /\ ~caller /\ result = <<>>
    /\ caller' = TRUE
    /\ \/ scope = None /\ scope' \in CallerReasons
       \/ scope # None /\ UNCHANGED scope
    /\ UNCHANGED <<limit, permits, reason, branch, exit, reports, heard, failed, result>>

Propagate(b) ==
    /\ scope # None /\ reason[b] = None
    /\ reason' = [reason EXCEPT ![b] = scope]
    /\ UNCHANGED <<limit, permits, scope, branch, exit, reports, heard, failed, caller, result>>
-----------------------------------------------------------------------------
(* The group *)

\* Fault: the group only counts.
HearAndIgnore ==
    /\ heard < Len(reports)
    /\ heard' = heard + 1
    /\ UNCHANGED <<limit, permits, scope, reason, branch, exit, reports, failed, caller, result>>

\* One turn of awaitFirstFailure.  It sees how the body ended; what the scope
\* of the branch reports comes later and cancels nobody.
Hear ==
    /\ heard < Len(reports)
    /\ heard' = heard + 1
    /\ IF reports[heard + 1] \/ failed
       THEN UNCHANGED <<failed, scope>>
       ELSE /\ failed' = TRUE
            /\ scope' = IF scope = None THEN CancelReason ELSE scope
    /\ UNCHANGED <<limit, permits, reason, branch, exit, reports, caller, result>>

\* Fault: success is what the reports say, before the scopes are closed.
collectResultsAsReported ==
    IF ~failed THEN Success([b \in Branches |-> b])
    ELSE Failure(CombineBranchCauses([b \in Branches |-> exit[b].cause], CancelReason))

collectResults ==
    IF \A b \in Branches : exit[b].ok THEN Success([b \in Branches |-> b])
    ELSE Failure(CombineBranchCauses([b \in Branches |-> exit[b].cause], CancelReason))

\* Fault: the exits are taken as they are once every body has reported.
ReturnEarly ==
    /\ heard = Total /\ result = <<>>
    /\ result' = <<collectResults>>
    /\ UNCHANGED <<limit, permits, scope, reason, branch, exit, reports, heard, failed, caller>>

\* collect waits for every fiber; the private scope has nothing left to do.
Return ==
    /\ heard = Total /\ result = <<>>
    /\ \A b \in Branches : branch[b] = "completed"
    /\ result' = <<collectResults>>
    /\ UNCHANGED <<limit, permits, scope, reason, branch, exit, reports, heard, failed, caller>>
-----------------------------------------------------------------------------
Step(b) ==
    \/ Start(b) \/ GiveUp(b) \/ BodySettles(b) \/ Report(b) \/ Finalize(b) \/ Propagate(b)

Next == Hear \/ Return \/ CancelCaller \/ \E b \in Branches : Step(b)

\* The group runs, and so does a branch, except that a body which nobody has
\* cancelled may take for ever.  Permits are not handed out fairly.
Fairness ==
    /\ WF_vars(Hear) /\ WF_vars(Return)
    /\ \A b \in Branches :
          /\ WF_vars(Start(b) \/ GiveUp(b)) /\ WF_vars(Report(b))
          /\ WF_vars(Finalize(b)) /\ WF_vars(Propagate(b))
          /\ WF_vars(reason[b] # None /\ BodySettles(b))

Spec == Init /\ [][Next]_vars /\ Fairness
-----------------------------------------------------------------------------
(* Properties *)

Reasons == CallerReasons \cup {CancelReason}
Leaves == {Fail(b) : b \in Branches} \cup {Die(b) : b \in Branches}
            \cup {Interrupted(r) : r \in Reasons}
Exits == [ok : BOOLEAN, value : Seq(Branches), cause : Seq(Leaves)]
Phases == {"queued", "running", "doomed", "reporting", "finalizing", "completed"}

TypeOK ==
    /\ limit \in Nat /\ permits \subseteq Branches
    /\ scope \in Reasons \cup {None} /\ reason \in [Branches -> Reasons \cup {None}]
    /\ branch \in [Branches -> Phases] /\ exit \in [Branches -> Exits]
    /\ reports \in Seq(BOOLEAN) /\ heard \in 0..Total
    /\ failed \in BOOLEAN /\ caller \in BOOLEAN
    /\ result \in Seq(Exits) /\ Len(result) <= 1

Returned == result # <<>>
Answer == result[1]

Working == {b \in Branches : branch[b] \in {"running", "doomed"}}

\* Never more bodies at work than the caller allows (parallel_all.go 16-19).
WithinLimit == limit > 0 => Working = permits /\ Cardinality(permits) <= limit

\* The traversal returns only when every branch has completed, finalizers
\* included, and nobody is left holding or waiting for a permit.
NoRunaway == Returned => permits = {} /\ \A b \in Branches : branch[b] = "completed"

\* At no time more branches than allowed, and after it none at all, each having
\* reported once (RunAll, withPermit, recordOutcome).
BranchesContained == TypeOK /\ WithinLimit /\ NoRunaway

\* It succeeds exactly if every branch did, and then with the values in input
\* order, however the branches interleaved.
AllOrNothing ==
    Returned => /\ Answer.ok <=> \A b \in Branches : exit[b].ok
                /\ Answer.ok => Answer.value = [b \in Branches |-> b]

\* No failure or defect of a branch is lost on the way into the result, be it
\* of a branch that was cancelled, and they are reported in input order.
EveryFailureReported ==
    Returned =>
        /\ \A b \in Branches : \A i \in DOMAIN exit[b].cause :
              exit[b].cause[i].kind # "interrupt" => exit[b].cause[i] \in ToSet(Answer.cause)
        /\ \A i, j \in DOMAIN Answer.cause :
              i < j /\ Answer.cause[j].from # Nobody => Answer.cause[i].from <= Answer.cause[j].from

\* The result says everything the branches did, in input order: the two parts
\* above (collectResults, CombineBranchCauses).
ResultComplete == AllOrNothing /\ EveryFailureReported

\* The first failure ends the traversal, also if some branches are still
\* waiting for a permit; and so does a cancellation of the caller.
FailureReturns == (caller \/ \E i \in DOMAIN reports : ~reports[i]) ~> Returned
=============================================================================
