------------------------------ MODULE Outcome ------------------------------
(***************************************************************************)
(* Exits and causes, as effect/internal/outcome has them, and how the      *)
(* parallel compositions put together the causes of their branches.        *)
(*                                                                         *)
(* A cause is the sequence of its leaves from left to right: Then and Both *)
(* keep everything on both sides in that order, and the empty cause is     *)
(* their identity.  Which of the two composed the leaves is not kept.      *)
(***************************************************************************)
EXTENDS Naturals, Sequences, SequencesExt

\* The leaves: a typed failure or a defect, with the branch it arose in, and an
\* interruption with its reason.
Nobody == 0
Fail(from) == [kind |-> "fail", from |-> from, reason |-> "none"]
Die(from) == [kind |-> "die", from |-> from, reason |-> "none"]
Interrupted(reason) == [kind |-> "interrupt", from |-> Nobody, reason |-> reason]

Compose(left, right) == left \o right

\* A success carries the branches whose values it is made of.
Success(value) == [ok |-> TRUE, value |-> value, cause |-> <<>>]
Failure(cause) == [ok |-> FALSE, value |-> <<>>, cause |-> cause]

\* Cleanup that reported something turns an exit into a failure, with what the
\* exit already had in front.
ComposeCleanup(exit, cleanup) ==
    IF cleanup = <<>> THEN exit ELSE Failure(Compose(exit.cause, cleanup))

\* Faults, each a plausible slip in the definition that follows it; nothing
\* uses them.  Here: one interruption of ours is enough.
IsInducedPartly(cause, reason) ==
    \E i \in DOMAIN cause : cause[i] = Interrupted(reason)

\* Fault: every interruption is taken for ours.
IsInducedAnyReason(cause, reason) ==
    cause # <<>> /\ \A i \in DOMAIN cause : cause[i].kind = "interrupt"

\* Nothing but interruptions that this composition has asked for.
IsInduced(cause, reason) ==
    /\ cause # <<>>
    /\ \A i \in DOMAIN cause : cause[i] = Interrupted(reason)

\* Fault: the wrong one is dropped.
CombineParallelCausesInverted(left, right, reason) ==
    IF IsInduced(right, reason) THEN right
    ELSE IF IsInduced(left, reason) THEN left
    ELSE Compose(left, right)

\* A branch that stopped only because it was told to has not failed.
CombineParallelCauses(left, right, reason) ==
    IF IsInduced(right, reason) THEN left
    ELSE IF IsInduced(left, reason) THEN right
    ELSE Compose(left, right)

\* The same over a collection of branches, in input order.
CombineBranchCauses(causes, reason) ==
    FlattenSeq([b \in DOMAIN causes |->
                   IF IsInduced(causes[b], reason) THEN <<>> ELSE causes[b]])
============================================================================
