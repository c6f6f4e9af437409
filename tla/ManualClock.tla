---------------------------- MODULE ManualClock ----------------------------
(***************************************************************************)
(* The clock that advances only when it is told to: effecttest/clock.go.   *)
(*                                                                         *)
(* Every method holds the mutex for the action that models it.  A sleeper  *)
(* is known by the fiber that sleeps; due and ready are its deadline and   *)
(* whether its channel was closed.  One goroutine of the test drives the   *)
(* clock and may wait until enough sleepers have registered.               *)
(***************************************************************************)
EXTENDS Integers, Sequences, FiniteSets, SequencesExt, Selection

CONSTANTS
    Fibers,
    MaxTime     \* bound: no advance goes past it

VARIABLES
    now,        \* the clock's time
    sleepers,   \* the fibers that are registered, in order of registration
    due,        \* the deadline of each fiber's latest sleep
    ready,      \* the fibers whose latest sleep was told to end
    wanted,     \* how many sleepers the driver waits for; 0: it does not
    signalled   \* whether the channel it captured was closed since

clockVars == <<now, sleepers, due, ready, wanted, signalled>>

ClockInit ==
    /\ now = 0
    /\ sleepers = <<>>
    /\ due = [f \in Fibers |-> 0]
    /\ ready = {}
    /\ wanted = 0
    /\ signalled = FALSE

\* Nobody is told who has not captured the channel.
signalChange == signalled' = (wanted > 0)

\* FAULT: whoever waits for sleepers is not told of a new one.
RegisterQuietly(f, duration) ==
    /\ due' = [due EXCEPT ![f] = now + duration]
    /\ sleepers' = Append(sleepers, f)
    /\ UNCHANGED <<now, ready, wanted, signalled>>

\* The locked part of Sleep, for a positive duration.
Register(f, duration) ==
    /\ due' = [due EXCEPT ![f] = now + duration]
    /\ sleepers' = Append(sleepers, f)
    /\ signalChange
    /\ UNCHANGED <<now, ready, wanted>>

IsRegistered(f) == Contains(sleepers, f)

\* remove found the sleeper.
Unregister(f) ==
    /\ IsRegistered(f)
    /\ sleepers' = Only(sleepers, Fibers \ {f})
    /\ due' = [due EXCEPT ![f] = 0]
    /\ signalChange
    /\ UNCHANGED <<now, ready, wanted>>

\* The sleeper's channel is closed; the sleeper is garbage.
TakeReady(f) ==
    /\ f \in ready
    /\ ready' = ready \ {f}
    /\ due' = [due EXCEPT ![f] = 0]
    /\ UNCHANGED <<now, sleepers, wanted, signalled>>

\* FAULT: a sleeper whose deadline is now goes on waiting.
IsPast(f, time) == due[f] < time

IsDue(f, time) == due[f] <= time

Advance(duration) ==
    LET then == now + duration
    IN  /\ wanted = 0 /\ then <= MaxTime
        /\ now' = then
        /\ sleepers' = Only(sleepers, {f \in Fibers : ~IsDue(f, then)})
        /\ ready' = ready \cup {f \in ToSet(sleepers) : IsDue(f, then)}
        /\ signalChange
        /\ UNCHANGED <<due, wanted>>

\* The locked part of WaitForPending: enough, or the channel to wait on.
CheckPending(count) ==
    /\ wanted' = IF Len(sleepers) >= count THEN 0 ELSE count
    /\ signalled' = FALSE
    /\ UNCHANGED <<now, sleepers, due, ready>>

WaitForPending(count) == wanted = 0 /\ CheckPending(count)

Recheck == wanted > 0 /\ signalled /\ CheckPending(wanted)

\* The driver's own context ends first.
GiveUp ==
    /\ wanted > 0
    /\ wanted' = 0
    /\ UNCHANGED <<now, sleepers, due, ready, signalled>>
=============================================================================
