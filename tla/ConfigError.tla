----------------------------- MODULE ConfigError -----------------------------
(***************************************************************************)
(* Why a description could not be read: effect/config/error.go.  A tree    *)
(* whose leaves are single failures; messages are left out.                *)
(***************************************************************************)
EXTENDS Sequences

Empty == [kind |-> "empty"]
Missing(path) == [kind |-> "missing", path |-> path]
Invalid(path) == [kind |-> "invalid", path |-> path]
Unavailable(path) == [kind |-> "unavailable", path |-> path]

IsEmpty(failure) == failure.kind = "empty"

compose(kind, left, right) ==
    IF IsEmpty(left) THEN right
    ELSE IF IsEmpty(right) THEN left
    ELSE [kind |-> kind, left |-> left, right |-> right]

\* FAULT: only the first of two failures is kept.
FirstOf(left, right) == IF IsEmpty(left) THEN right ELSE left

And(left, right) == compose("and", left, right)
Or(left, right) == compose("or", left, right)

\* The leaves, left to right.
RECURSIVE Failures(_)
Failures(failure) ==
    CASE failure.kind = "empty" -> <<>>
      [] failure.kind \in {"and", "or"} -> Failures(failure.left) \o Failures(failure.right)
      [] OTHER -> <<failure>>

\* FAULT: one missing leaf is enough.
IsMissingSomewhere(failure) ==
    \E i \in DOMAIN Failures(failure) : Failures(failure)[i].kind = "missing"

\* What a default may stand in for: every leaf is a path nobody supplied, and
\* there is one.
IsMissingOnly(failure) ==
    /\ Failures(failure) # <<>>
    /\ \A i \in DOMAIN Failures(failure) : Failures(failure)[i].kind = "missing"

\* Every leaf's path, put beneath another.
RECURSIVE Prefixed(_, _)
Prefixed(failure, path) ==
    CASE failure.kind = "empty" -> failure
      [] failure.kind \in {"and", "or"} ->
            [failure EXCEPT !.left = Prefixed(@, path), !.right = Prefixed(@, path)]
      [] OTHER -> [failure EXCEPT !.path = path \o @]
=============================================================================
