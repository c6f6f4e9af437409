------------------------------ MODULE Clocked ------------------------------
(***************************************************************************)
(* What runs on a clock: retries and repetitions (effect/retry.go,         *)
(* retry_driver.go, schedule_events.go), sleeping (effect/clock.go),       *)
(* waiting for a turn (effect/rate/turn.go), and a cache that dates its    *)
(* entries (effect/cache/operations.go).  The fibers share the clock, the  *)
(* policy value, the limiter and the store.                                *)
(*                                                                         *)
(* An attempt is an effect of the program: it ends as it likes.            *)
(***************************************************************************)
EXTENDS ManualClock, Durations, Limiter, LRU

CONSTANTS
    DriverStep(_, _, _, _),             \* a driver's step: see Schedule
    DriverAfter(_, _, _),               \* a policy's driver after so many steps from a time on
    PolicyDecision(_, _, _, _, _, _),   \* what a policy means: see Schedule
    Plans,          \* what the fibers may be doing: see the constructors below
    Keys, Subjects, Lifetimes,
    Most,           \* the cache's bound
    MaxAttempts,    \* bound on the attempts of a fiber
    MaxTurns,       \* bound on the turns asked for
    MaxUses         \* bound on the operations on the cache

\* What the fibers by do, and how many sleepers a test may wait for meanwhile.
Recurring(loop, policy, by) == [loop |-> loop, policy |-> policy, by |-> by, counts |-> {}]
Limited(allowance, longest, by) ==
    [loop |-> "turns", allowance |-> allowance, longest |-> longest, by |-> by, counts |-> {}]
Delayed(duration, by) ==
    [loop |-> "delay", duration |-> duration, by |-> by, counts |-> 1..Cardinality(by)]
Cached == [loop |-> "cache", by |-> {}, counts |-> {}]

Retries == {"retry", "retryCause", "retryOrElse"}
Recurrences == Retries \cup {"repeat"}

\* What an attempt may end with.
Inputs == {"value", "last", "transient", "fatal", "both", "defect"}
NoDriver == [op |-> "none"]
NoEntry == Entry(NoName, NoName, 0, -1)
NoAnswer == [key |-> NoName, found |-> FALSE, value |-> 0, at |-> 0]

ASSUME BoundAssumption ==
    /\ MaxTime \in Nat /\ MaxAttempts \in Nat /\ MaxTurns \in Nat /\ MaxUses \in Nat
    /\ Most \in Int /\ Lifetimes \subseteq Int

ASSUME PlanAssumption ==
    \A p \in Plans :
        /\ p.loop \in Recurrences \cup {"turns", "delay", "cache"}
        /\ p.by \subseteq Fibers /\ p.counts \subseteq Nat
        /\ p.loop = "delay" => p.duration \in Int
        /\ p.loop = "turns" =>
              p.longest \in Int /\ p.allowance.most \in Int /\ p.allowance.every \in Int

\* The questions a driver of a plan's policy may be asked.
Policies == {p.policy : p \in {q \in Plans : q.loop \in Recurrences}}
Questions ==
    {q \in [policy : Policies, nth : 0..MaxAttempts - 1, first : 0..MaxTime, time : 0..MaxTime,
            input : Inputs, fraction : Fractions] :
        q.first <= q.time /\ (q.nth = 0 => q.first = q.time)}
Answer(q) == DriverStep(DriverAfter(q.policy, q.nth, q.first), q.time, q.input, q.fraction)

\* A driver keeps no more than how often it was asked, and since when; a
\* decision says whether to go on, and after which delay.
ASSUME DriverAssumption ==
    /\ \A p \in Policies, first \in 0..MaxTime : DriverAfter(p, 0, first) = p
    /\ \A q \in Questions :
          /\ Answer(q).driver = DriverAfter(q.policy, q.nth + 1, q.first)
          /\ Answer(q).decision.continues \in BOOLEAN /\ Answer(q).decision.delay \in Nat

VARIABLES
    plan,       \* chosen at the start
    pc,         \* where each fiber is
    cancelled,  \* the fibers whose context is
    driver,     \* the schedule driver of each interpretation
    number,     \* attemptProgress.number
    repeated,   \* attemptProgress.repeated
    pause,      \* the delay of the sleep to come
    exit,       \* how each fiber's effect ended
    ran,        \* history: each fiber's attempts, or turns, with their times
    asked,      \* history: what each driver was asked, and what it decided
    told,       \* history: the events each fiber emitted
    stored,     \* the limiter's moment
    asks,       \* history: the turns asked for
    cache,      \* the store
    uses,       \* operations on the store so far
    answer,     \* what the last operation found
    kept,       \* history: the last entry written per key, unless invalidated
    used        \* history: the operation that last used a key

fiberVars == <<pc, cancelled, driver, number, repeated, pause, exit, ran, asked, told>>
turnVars == <<stored, asks>>
cacheVars == <<cache, uses, answer, kept, used>>
vars == <<plan, clockVars, fiberVars, turnVars, cacheVars>>

Init ==
    /\ plan \in Plans
    /\ ClockInit
    /\ pc = [f \in Fibers |-> "idle"]
    /\ cancelled = {}
    /\ driver = [f \in Fibers |-> NoDriver]
    /\ number = [f \in Fibers |-> 0]
    /\ repeated = [f \in Fibers |-> FALSE]
    /\ pause = [f \in Fibers |-> 0]
    /\ exit = [f \in Fibers |-> "none"]
    /\ ran = [f \in Fibers |-> <<>>]
    /\ asked = [f \in Fibers |-> <<>>]
    /\ told = [f \in Fibers |-> <<>>]
    /\ stored = 0
    /\ asks = <<>>
    /\ cache = NewLRU(Most)
    /\ uses = 0
    /\ answer = NoAnswer
    /\ kept = [k \in Keys |-> NoEntry]
    /\ used = [k \in Keys |-> 0]
-----------------------------------------------------------------------------
(* Fibers *)

GoTo(f, where) == pc' = [pc EXCEPT ![f] = where]
Settle(f, how) == GoTo(f, "done") /\ exit' = [exit EXCEPT ![f] = how]
Emit(f, kind, delay) ==
    told' = [told EXCEPT ![f] = Append(@, [kind |-> kind, number |-> number[f], delay |-> delay])]

\* FAULT: whoever started before has the driver.
SharedDriver(f) ==
    IF \E g \in Fibers : driver[g] # NoDriver
    THEN driver[CHOOSE g \in Fibers : driver[g] # NoDriver] ELSE plan.policy

\* Schedule.Start.
FreshDriver(f) == plan.policy

Start(f) ==
    /\ pc[f] = "idle" /\ f \in plan.by
    /\ \/ /\ plan.loop \in Recurrences
          /\ GoTo(f, "attempt")
          /\ driver' = [driver EXCEPT ![f] = FreshDriver(f)]
          /\ number' = [number EXCEPT ![f] = 1]
          /\ UNCHANGED <<pause, exit>>
       \/ /\ plan.loop = "turns"
          /\ IF IsStated(plan.allowance) THEN GoTo(f, "turn") /\ UNCHANGED exit
             ELSE Settle(f, "Unstated")
          /\ UNCHANGED <<driver, number, pause>>
       \/ /\ plan.loop = "delay"
          /\ GoTo(f, "sleep")
          /\ pause' = [pause EXCEPT ![f] = plan.duration]
          /\ UNCHANGED <<driver, number, exit>>
    /\ UNCHANGED <<plan, clockVars, cancelled, repeated, ran, asked, told, turnVars, cacheVars>>

Successes == {"value", "last"}

\* What a cause must be for the policy to be asked: a single failure, or for
\* RetryCause a tree of failures only.
Eligible(cause) == cause \in {"transient", "fatal"} \cup IF plan.loop = "retryCause" THEN {"both"} ELSE {}

\* Only WhileInput tells failures, or values, apart.
Outcomes ==
    LET distinct == IF plan.loop # "delay" /\ plan.policy.op = "whileInput" THEN {"fatal", "last"} ELSE {}
    IN  IF plan.loop = "repeat" THEN {"value", "transient"} \cup (distinct \ {"fatal"})
        ELSE {"value", "transient", "both", "defect"} \cup (distinct \ {"last"})

\* One interpretation of the effect, and who its exit goes to.
Attempt(f) ==
    /\ pc[f] = "attempt" /\ Len(ran[f]) < MaxAttempts
    /\ \E o \in Outcomes :
        /\ ran' = [ran EXCEPT ![f] = Append(@, [at |-> now, outcome |-> o])]
        /\ IF (plan.loop = "repeat" /\ o \in Successes) \/ (plan.loop \in Retries /\ o \notin Successes)
           THEN GoTo(f, "decide") /\ UNCHANGED <<exit, told>>
           ELSE /\ Settle(f, o)
                /\ IF o \in Successes /\ repeated[f] THEN Emit(f, "succeeded", 0) ELSE UNCHANGED told
    /\ UNCHANGED <<plan, clockVars, cancelled, driver, number, repeated, pause, asked, turnVars, cacheVars>>

\* driver.Next and what follows from its decision.
Ask(f, input, exhausted) ==
    \E fraction \in IF plan.policy.op = "jitter" THEN Fractions ELSE {0} :
        LET step == DriverStep(driver[f], now, input, fraction)
            decision == step.decision
        IN  /\ driver' = [driver EXCEPT ![f] = step.driver]
            /\ asked' = [asked EXCEPT ![f] = Append(@,
                   [time |-> now, input |-> input, fraction |-> fraction, decision |-> decision])]
            /\ \/ /\ ~decision.continues
                  /\ Emit(f, IF plan.loop = "repeat" THEN "completed" ELSE "exhausted", 0)
                  /\ IF plan.loop = "retryOrElse" THEN GoTo(f, "fallback") /\ UNCHANGED exit
                     ELSE Settle(f, exhausted)
                  /\ UNCHANGED <<number, repeated, pause>>
               \/ /\ decision.continues
                  /\ Emit(f, "scheduled", decision.delay)
                  /\ number' = [number EXCEPT ![f] = nextCount(@)]
                  /\ repeated' = [repeated EXCEPT ![f] = plan.loop \in Retries]
                  /\ pause' = [pause EXCEPT ![f] = decision.delay]
                  /\ GoTo(f, "sleep")
                  /\ UNCHANGED exit

\* FAULT: the policy is asked about every cause.
DecideAnyCause(f) ==
    LET outcome == Last(ran[f]).outcome
    IN  /\ pc[f] = "decide" /\ f \notin cancelled
        /\ Ask(f, outcome, outcome)
        /\ UNCHANGED <<plan, clockVars, cancelled, ran, turnVars, cacheVars>>

\* The handler of one outcome.
Decide(f) ==
    LET outcome == Last(ran[f]).outcome
    IN  /\ pc[f] = "decide"
        /\ \/ /\ plan.loop \in Retries /\ ~Eligible(outcome)
              /\ Settle(f, outcome)
              /\ UNCHANGED <<driver, number, repeated, pause, asked, told>>
           \/ /\ plan.loop \in Retries /\ Eligible(outcome) /\ f \in cancelled
              /\ Settle(f, "interrupt")
              /\ UNCHANGED <<driver, number, repeated, pause, asked, told>>
           \/ /\ plan.loop = "repeat" \/ (Eligible(outcome) /\ f \notin cancelled)
              /\ Ask(f, outcome, IF plan.loop = "repeat" THEN "output" ELSE outcome)
        /\ UNCHANGED <<plan, clockVars, cancelled, ran, turnVars, cacheVars>>

\* The program's own answer to an exhausted policy; the observer of the whole
\* loop sees its exit.
Fallback(f) ==
    /\ pc[f] = "fallback"
    /\ \/ /\ Settle(f, "fallback")
          /\ IF repeated[f] THEN Emit(f, "succeeded", 0) ELSE UNCHANGED told
       \/ Settle(f, "fallbackFailed") /\ UNCHANGED told
    /\ UNCHANGED <<plan, clockVars, cancelled, driver, number, repeated, pause, ran, asked, turnVars, cacheVars>>

\* AwaitTurn: the turn is reserved, or refused, in one locked section.
AskTurn(f) ==
    LET turn == Turn(stored, plan.allowance, plan.longest, now)
    IN  /\ pc[f] = "turn" /\ Len(asks) < MaxTurns
        /\ stored' = turn.stored
        /\ asks' = Append(asks, [time |-> now, err |-> turn.err, moment |-> now + turn.wait])
        /\ \/ turn.err # "none" /\ Settle(f, turn.err) /\ UNCHANGED <<pause, ran>>
           \/ /\ turn.err = "none" /\ turn.wait <= 0
              /\ Settle(f, "turn")
              /\ ran' = [ran EXCEPT ![f] = Append(@, [at |-> now, outcome |-> now])]
              /\ UNCHANGED pause
           \/ /\ turn.err = "none" /\ turn.wait > 0
              /\ pause' = [pause EXCEPT ![f] = turn.wait]
              /\ ran' = [ran EXCEPT ![f] = Append(@, [at |-> -1, outcome |-> now + turn.wait])]
              /\ GoTo(f, "sleep") /\ UNCHANGED exit
        /\ UNCHANGED <<plan, clockVars, cancelled, driver, number, repeated, asked, told, cacheVars>>

\* A caller of AwaitTurn asks for the next one.
AskAgain(f) ==
    /\ pc[f] = "done" /\ exit[f] \in {"turn", "LimitExceeded"} /\ f \notin cancelled
    /\ Len(asks) < MaxTurns
    /\ GoTo(f, "turn") /\ exit' = [exit EXCEPT ![f] = "none"]
    /\ UNCHANGED <<plan, clockVars, cancelled, driver, number, repeated, pause, ran, asked, told, turnVars, cacheVars>>
-----------------------------------------------------------------------------
(* Sleeping *)

\* Clock.Sleep: nothing to wait for, or a sleeper is registered.
Sleep(f) ==
    /\ pc[f] = "sleep"
    /\ \/ pause[f] <= 0 /\ GoTo(f, "woken") /\ UNCHANGED clockVars
       \/ pause[f] > 0 /\ Register(f, pause[f]) /\ GoTo(f, "asleep")
    /\ pause' = [pause EXCEPT ![f] = 0]
    /\ UNCHANGED <<plan, cancelled, driver, number, repeated, exit, ran, asked, told, turnVars, cacheVars>>

\* FAULT: the wait ends only with the clock.
WakeInTime(f) ==
    /\ pc[f] = "asleep" /\ TakeReady(f) /\ GoTo(f, "woken")
    /\ UNCHANGED <<plan, cancelled, driver, number, repeated, pause, exit, ran, asked, told, turnVars, cacheVars>>

\* Its select, and after a cancellation the attempt to take the sleeper back.
Wake(f) ==
    /\ \/ pc[f] = "asleep" /\ TakeReady(f) /\ GoTo(f, "woken")
       \/ pc[f] = "asleep" /\ f \in cancelled /\ GoTo(f, "removing") /\ UNCHANGED clockVars
       \/ pc[f] = "removing" /\ Unregister(f) /\ GoTo(f, "woken")
       \/ pc[f] = "removing" /\ ~IsRegistered(f) /\ TakeReady(f) /\ GoTo(f, "woken")
    /\ UNCHANGED <<plan, cancelled, driver, number, repeated, pause, exit, ran, asked, told, turnVars, cacheVars>>

\* The end of the Sleep effect, and what comes after it.
Resume(f) ==
    /\ pc[f] = "woken"
    /\ \/ f \in cancelled /\ Settle(f, "interrupt") /\ UNCHANGED ran
       \/ /\ f \notin cancelled /\ plan.loop # "turns"
          /\ GoTo(f, "attempt") /\ UNCHANGED <<exit, ran>>
       \/ /\ f \notin cancelled /\ plan.loop = "turns"
          /\ Settle(f, "turn")
          /\ ran' = [ran EXCEPT ![f][Len(ran[f])].at = now]
    /\ UNCHANGED <<plan, clockVars, cancelled, driver, number, repeated, pause, asked, told, turnVars, cacheVars>>

Cancel(f) ==
    /\ pc[f] \notin {"idle", "done"} /\ f \notin cancelled
    /\ cancelled' = cancelled \cup {f}
    /\ UNCHANGED <<plan, clockVars, pc, driver, number, repeated, pause, exit, ran, asked, told, turnVars, cacheVars>>

\* The interpreter notices between two instructions.
Interrupted(f) ==
    /\ f \in cancelled /\ pc[f] \in {"attempt", "decide", "fallback", "turn", "sleep"}
    /\ Settle(f, "interrupt")
    /\ UNCHANGED <<plan, clockVars, cancelled, driver, number, repeated, pause, ran, asked, told, turnVars, cacheVars>>
-----------------------------------------------------------------------------
(* The store *)

Using == plan.loop = "cache" /\ uses < MaxUses /\ uses' = uses + 1

Read(k) ==
    LET got == Get(cache, k, now)
    IN  /\ Using
        /\ cache' = got.cache
        /\ answer' = [key |-> k, found |-> got.found, value |-> got.value, at |-> now]
        /\ used' = [used EXCEPT ![k] = IF got.found THEN uses' ELSE @]
        /\ UNCHANGED <<plan, clockVars, fiberVars, turnVars, kept>>

\* An entry without a key or a lifetime is refused, not stored.
Write(k, about, fresh) ==
    /\ Using
    /\ cache' = Put(cache, k, about, uses', fresh, now)
    /\ answer' = NoAnswer
    /\ IF IsStorable(k, fresh)
       THEN /\ kept' = [kept EXCEPT ![k] = Entry(k, about, uses', now + fresh)]
            /\ used' = [used EXCEPT ![k] = uses']
       ELSE UNCHANGED <<kept, used>>
    /\ UNCHANGED <<plan, clockVars, fiberVars, turnVars>>

Drop(subject) ==
    /\ Using
    /\ cache' = Invalidate(cache, subject)
    /\ answer' = NoAnswer
    /\ kept' = [k \in Keys |-> IF subject # NoName /\ kept[k].about = subject THEN NoEntry ELSE kept[k]]
    /\ UNCHANGED <<plan, clockVars, fiberVars, turnVars, used>>
-----------------------------------------------------------------------------
(* The test that drives the clock *)

Drive ==
    /\ \/ \E d \in 1..MaxTime : Advance(d)
       \/ \E n \in plan.counts : WaitForPending(n)
       \/ Recheck
       \/ GiveUp
    /\ UNCHANGED <<plan, fiberVars, turnVars, cacheVars>>

Step(f) ==
    \/ Start(f) \/ Attempt(f) \/ Decide(f) \/ Fallback(f) \/ AskTurn(f)
    \/ Sleep(f) \/ Wake(f) \/ Resume(f) \/ Interrupted(f)

Next ==
    \/ \E f \in Fibers : Step(f) \/ AskAgain(f) \/ Cancel(f)
    \/ \E k \in Keys : Read(k)
    \/ \E k \in Keys, about \in Subjects \cup {NoName}, fresh \in Lifetimes : Write(k, about, fresh)
    \/ \E subject \in Subjects \cup {NoName} : Drop(subject)
    \/ Drive

\* A fiber is a goroutine; nothing is assumed of the clock, which may stand still.
Fairness == \A f \in Fibers : WF_vars(Step(f))

Spec == Init /\ [][Next]_vars /\ Fairness
-----------------------------------------------------------------------------
(* Properties *)

\* The clock knows exactly the sleepers that have to wait: a fiber in Sleep is
\* either registered once, with its deadline ahead, or was told to go on at or
\* after its deadline; and nobody else is registered.  A cancellation that races
\* with Advance leaves neither an entry behind nor a fiber waiting for a channel
\* nobody will close (ManualClock.Sleep, remove and Advance).
PendingExact ==
    /\ IsInjective(sleepers)
    /\ \A f \in Fibers :
        /\ IsRegistered(f) => pc[f] \in {"asleep", "removing"} /\ due[f] > now
        /\ pc[f] \in {"asleep", "removing"} =>
              (f \in ready) = ~IsRegistered(f) /\ (f \in ready => due[f] <= now)

\* Who waits for sleepers is never left waiting for a signal that came before it
\* looked: while its channel is open there are too few (WaitForPending captures
\* the channel in the section in which it counts).
WatcherNotForgotten == wanted > 0 /\ ~signalled => Len(sleepers) < wanted

\* The clock keeps track of its sleepers and of who waits for them.
ClockKeepsTrack == PendingExact /\ WatcherNotForgotten

\* A driver decides what its policy means for that recurrence, whatever it is
\* asked and however close its delays come to the width of a duration (the steps of
\* Schedule against their closed forms).
DriverMeansItsPolicy ==
    \A q \in Questions :
        Answer(q).decision = PolicyDecision(q.policy, q.nth, q.first, q.time, q.input, q.fraction)

\* The policies a fiber may be started with mean what they say: no state plays a
\* part in that, so it is looked at where a plan is chosen (Schedule.Start).
PoliciesMeanWhatTheySay == Init => DriverMeansItsPolicy

\* Every decision a fiber is given is what the policy means for its recurrence,
\* whatever another interpretation of the same policy value does meanwhile; and
\* no attempt is made before the delay decided for it has passed (Schedule,
\* Retry, Repeat, Sleep).
OnPolicy ==
    \A f \in Fibers : \A i \in DOMAIN asked[f] :
        LET a == asked[f][i]
        IN  /\ a.decision = PolicyDecision(plan.policy, i - 1, asked[f][1].time, a.time, a.input, a.fraction)
            /\ i + 1 \in DOMAIN ran[f] => ran[f][i + 1].at >= a.time + a.decision.delay

\* A fiber that retried or repeated tells what happened: it went on only after
\* outcomes that allow it, its exit is that of its last attempt unless it was
\* interrupted or the policy ended, and its events count its attempts
\* (retryAttempt, repeatRun, reportRetryOutcome).
ExitTellsTheLastAttempt ==
    \A f \in {g \in Fibers : plan.loop \in Recurrences /\ ran[g] # <<>>} :
        LET GoesOn(o) == IF plan.loop = "repeat" THEN o \in Successes ELSE Eligible(o)
            last == Last(ran[f]).outcome
            policyEnded == asked[f] # <<>> /\ ~Last(asked[f]).decision.continues
            events == [i \in DOMAIN told[f] |-> told[f][i].kind]
        IN  /\ \A i \in 1..Len(ran[f]) - 1 : GoesOn(ran[f][i].outcome)
            /\ \A i \in DOMAIN told[f] : told[f][i].number = Min({i, Len(ran[f]), MaxCount})
            /\ policyEnded = (Contains(events, "exhausted") \/ Contains(events, "completed"))
            /\ pc[f] = "done" =>
                 /\ Contains(events, "succeeded") =
                       (plan.loop # "repeat" /\ exit[f] \in Successes \cup {"fallback"} /\ Len(ran[f]) > 1)
                 /\ CASE exit[f] = "interrupt" -> f \in cancelled
                      [] exit[f] \in {"fallback", "fallbackFailed"} ->
                            plan.loop = "retryOrElse" /\ GoesOn(last) /\ policyEnded
                      [] exit[f] = "output" -> plan.loop = "repeat" /\ GoesOn(last) /\ policyEnded
                      [] OTHER -> /\ exit[f] = last
                                  /\ GoesOn(last) => policyEnded /\ plan.loop # "retryOrElse"

\* A turn that comes after more than Most others keeps the rate of the allowance
\* from the one before the burst, Most in Every, short of it by less than one unit
\* of the clock for each turn too many.  So at most Most turns share a moment where
\* a period has a unit of the clock for each of them.  Where it has not, the spacing
\* is cut down to zero and any number share one, although "the first Most requests
\* in a period go at once and everything after them is spaced" (memory.go 43-44)
\* makes no such exception.  The moment is the earliest that the spacing allows; a caller is refused exactly
\* when it is further off than it will wait, and costs the others nothing; and
\* nobody goes ahead of its moment (MemoryLimiter.Turn, AwaitTurn).
TurnsKeepTheirDistance ==
    /\ \A j \in DOMAIN asks :
        LET given == {i \in 1..j - 1 : asks[i].err = "none"}
            Excess(i) == Cardinality({h \in given : h >= i}) - plan.allowance.most + 1
            earliest == Max({asks[j].time}
                                \cup {asks[i].moment + Excess(i) * Spacing(plan.allowance) : i \in given})
        IN  /\ \A i \in given : Excess(i) > 0 =>
                  (asks[j].moment - asks[i].moment + Excess(i)) * plan.allowance.most
                      > Excess(i) * plan.allowance.every
            /\ asks[j].moment = earliest
            /\ (asks[j].err = "none") = (plan.longest <= 0 \/ earliest - asks[j].time <= plan.longest)
    /\ \A f \in Fibers : plan.loop = "turns" =>
          \A i \in DOMAIN ran[f] : ran[f][i].at # -1 => ran[f][i].at >= ran[f][i].outcome

\* What is found under a key is what was last written there, is not past its
\* date, and was not invalidated since (LRU.Get, Invalidate and the index).
NoStaleAnswer ==
    answer.found => /\ kept[answer.key].value = answer.value
                    /\ kept[answer.key] # NoEntry
                    /\ answer.at <= kept[answer.key].until

\* An entry leaves the cache only because its subject was invalidated, because a
\* reader found it past its date, or because the cache is full of entries that
\* were all used after it (LRU.Put evicts the least recently used).
EvictsLeastRecentlyUsed ==
    [][/\ Len(cache'.order) <= NewLRU(Most).most
       /\ \A k \in KeysOf(cache) \ KeysOf(cache') :
             \/ kept'[k] = NoEntry
             \/ answer'.key = k /\ now > kept[k].until
             \/ /\ Len(cache'.order) = NewLRU(Most).most
                /\ \A h \in KeysOf(cache') : used'[h] > used[k]]_vars

\* A cancelled fiber comes to its end even if the clock never moves again
\* (Sleep selects on the context; remove or the ready channel ends its wait).
CancelledSleepReturns == \A f \in Fibers : f \in cancelled ~> pc[f] = "done"
=============================================================================
