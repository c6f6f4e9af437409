------------------------------- MODULE Limiter -------------------------------
(***************************************************************************)
(* Turns under an allowance, by the generic cell rate algorithm:           *)
(* effect/rate/rate.go and memory.go.  stored is the moment kept under the *)
(* allowance's name; Turn is the whole of the locked section.              *)
(***************************************************************************)
EXTENDS Integers, FiniteSetsExt

Allowance(name, most, every) == [name |-> name, most |-> most, every |-> every]

IsStated(a) == a.name # "" /\ a.most > 0 /\ a.every > 0

Spacing(a) == IF IsStated(a) THEN a.every \div a.most ELSE 0

Granted(wait, arrival) == [err |-> "none", wait |-> wait, stored |-> arrival]
Refused(err, wait, stored) == [err |-> err, wait |-> wait, stored |-> stored]

\* FAULT: the moment is moved along before the ceiling is checked.
TurnThenCheck(stored, a, longest, time) ==
    LET nextArrival == Max({stored, time})
        wait == Max({0, nextArrival - (a.most - 1) * Spacing(a) - time})
        err == IF longest > 0 /\ wait > longest THEN "LimitExceeded" ELSE "none"
    IN  IF ~IsStated(a) THEN Refused("Unstated", 0, stored)
        ELSE [err |-> err, wait |-> wait, stored |-> nextArrival + Spacing(a)]

Turn(stored, a, longest, time) ==
    LET nextArrival == Max({stored, time})
        tolerance == (a.most - 1) * Spacing(a)
        wait == Max({0, nextArrival - tolerance - time})
    IN  IF ~IsStated(a) THEN Refused("Unstated", 0, stored)
        ELSE IF longest > 0 /\ wait > longest THEN Refused("LimitExceeded", wait, stored)
        ELSE Granted(wait, nextArrival + Spacing(a))
=============================================================================
