--------------------------- MODULE ClockedProofs ---------------------------
(***************************************************************************)
(* Proofs about Clocked, for every clock bound, plan, policy and cache.    *)
(***************************************************************************)
EXTENDS Clocked, SequenceLemmas, TLAPS

Places == {"idle", "attempt", "decide", "fallback", "turn", "sleep", "asleep", "removing",
           "woken", "done"}
InSleep == {"sleep", "asleep", "removing", "woken"}
Exits == {"none", "interrupt", "Unstated", "LimitExceeded", "turn", "output", "fallback",
          "fallbackFailed"} \cup Inputs
Attempts == [at : Int, outcome : Inputs \cup Int]
Decisions == {Answer(q).decision : q \in Questions}
Askings == [time : 0..MaxTime, input : Inputs, fraction : Fractions, decision : Decisions]
Events == [kind : {"scheduled", "exhausted", "completed", "succeeded"}, number : Nat, delay : Nat]
Reservations == [time : 0..MaxTime, err : {"none", "LimitExceeded", "Unstated"}, moment : Int]

ClockTypes ==
    /\ now \in 0..MaxTime /\ sleepers \in Seq(Fibers) /\ due \in [Fibers -> Int]
    /\ ready \subseteq Fibers /\ wanted \in Nat /\ signalled \in BOOLEAN

\* What is kept per fiber is kept for every fiber.
Shaped ==
    /\ pc = [f \in Fibers |-> pc[f]] /\ driver = [f \in Fibers |-> driver[f]]
    /\ number = [f \in Fibers |-> number[f]] /\ repeated = [f \in Fibers |-> repeated[f]]
    /\ pause = [f \in Fibers |-> pause[f]] /\ exit = [f \in Fibers |-> exit[f]]
    /\ ran = [f \in Fibers |-> ran[f]] /\ asked = [f \in Fibers |-> asked[f]]
    /\ told = [f \in Fibers |-> told[f]]

Typed(f) ==
    /\ pc[f] \in Places /\ number[f] \in Nat /\ repeated[f] \in BOOLEAN
    /\ pause[f] \in Int /\ exit[f] \in Exits
    /\ ran[f] \in Seq(Attempts) /\ asked[f] \in Seq(Askings) /\ told[f] \in Seq(Events)

TurnTypes == stored \in Nat /\ asks \in Seq(Reservations)

\* Where a fiber can be depends on what it does.
InPlan(f) ==
    /\ pc[f] = "attempt" => plan.loop \in Recurrences \cup {"delay"}
    /\ pc[f] = "decide" => plan.loop \in Recurrences
    /\ pc[f] = "fallback" => plan.loop = "retryOrElse"
    /\ pc[f] \in InSleep => plan.loop \in Recurrences \cup {"delay", "turns"}
    /\ pc[f] = "turn" \/ exit[f] \in {"turn", "LimitExceeded"} => plan.loop = "turns"
    /\ plan.loop = "turns" /\ (pc[f] \in InSleep \cup {"turn"} \/ exit[f] \in {"turn", "LimitExceeded"}) =>
          IsStated(plan.allowance)

\* What a fiber's driver was asked as the i-th question.
Question(f, i) ==
    [policy |-> plan.policy, nth |-> i - 1, first |-> asked[f][1].time, time |-> asked[f][i].time,
     input |-> asked[f][i].input, fraction |-> asked[f][i].fraction]

\* A recurring fiber has asked its driver once after every attempt but the one it
\* is deciding on, was answered what a driver of its own answers, and its driver is
\* where so many questions bring it.
InStep(f) ==
    IF plan.loop \in Recurrences
    THEN /\ pc[f] = "idle" => ran[f] = <<>> /\ asked[f] = <<>>
         /\ pc[f] \in {"attempt", "fallback"} \cup InSleep => Len(ran[f]) = Len(asked[f])
         /\ pc[f] = "decide" => Len(ran[f]) = Len(asked[f]) + 1
         /\ Len(ran[f]) <= MaxAttempts
         /\ \A i \in 1..Len(ran[f]) : ran[f][i].outcome \in Inputs
         /\ pc[f] # "idle" =>
               driver[f] = IF Len(asked[f]) = 0 THEN plan.policy
                           ELSE DriverAfter(plan.policy, Len(asked[f]), asked[f][1].time)
         /\ \A i \in 1..Len(asked[f]) :
               /\ asked[f][i].time <= now
               /\ Question(f, i) \in Questions
               /\ asked[f][i].decision = Answer(Question(f, i)).decision
    ELSE asked[f] = <<>> /\ told[f] = <<>> /\ ~repeated[f]

BaseInv ==
    /\ Shaped /\ ClockTypes /\ TurnTypes /\ plan \in Plans /\ cancelled \subseteq Fibers
    /\ \A f \in Fibers : Typed(f) /\ InPlan(f) /\ InStep(f)

-----------------------------------------------------------------------------
(* Who changes what *)

\* Every step belongs to a fiber, to the store, or to the test.
FiberStep(f) == Step(f) \/ AskAgain(f) \/ Cancel(f)
CacheStep ==
    \/ \E k \in Keys : Read(k)
    \/ \E k \in Keys, about \in Subjects \cup {NoName}, fresh \in Lifetimes : Write(k, about, fresh)
    \/ \E subject \in Subjects \cup {NoName} : Drop(subject)

LEMMA Steps ==
  ASSUME [Next]_vars
  PROVE  \/ \E f \in Fibers : FiberStep(f)
         \/ CacheStep
         \/ Drive
         \/ UNCHANGED vars
BY DEF Next, FiberStep, CacheStep

LEMMA CacheFrame ==
  ASSUME CacheStep
  PROVE  UNCHANGED <<plan, clockVars, fiberVars, turnVars>>
<1>1. CASE \E k \in Keys : Read(k)
  BY <1>1 DEF Read
<1>2. CASE \E k \in Keys, about \in Subjects \cup {NoName}, fresh \in Lifetimes : Write(k, about, fresh)
  BY <1>2 DEF Write
<1>3. CASE \E subject \in Subjects \cup {NoName} : Drop(subject)
  BY <1>3 DEF Drop
<1> QED BY <1>1, <1>2, <1>3 DEF CacheStep

LEMMA DriveFrame ==
  ASSUME Drive
  PROVE  UNCHANGED <<plan, fiberVars, turnVars, cacheVars>>
BY DEF Drive

LEMMA FiberFrame ==
  ASSUME NEW f \in Fibers, FiberStep(f)
  PROVE  /\ UNCHANGED <<plan, cacheVars>>
         /\ Sleep(f) \/ Wake(f) \/ UNCHANGED clockVars
         /\ AskTurn(f) \/ UNCHANGED turnVars
<1>1. CASE Start(f)
  BY <1>1 DEF Start
<1>2. CASE Attempt(f)
  BY <1>2 DEF Attempt
<1>3. CASE Decide(f)
  BY <1>3 DEF Decide
<1>4. CASE Fallback(f)
  BY <1>4 DEF Fallback
<1>5. CASE AskTurn(f)
  BY <1>5 DEF AskTurn
<1>6. CASE Sleep(f)
  BY <1>6 DEF Sleep
<1>7. CASE Wake(f)
  BY <1>7 DEF Wake
<1>8. CASE Resume(f)
  BY <1>8 DEF Resume
<1>9. CASE Interrupted(f)
  BY <1>9 DEF Interrupted
<1>10. CASE AskAgain(f)
  BY <1>10 DEF AskAgain
<1>11. CASE Cancel(f)
  BY <1>11 DEF Cancel
<1> QED BY <1>1, <1>2, <1>3, <1>4, <1>5, <1>6, <1>7, <1>8, <1>9, <1>10, <1>11 DEF FiberStep, Step

LEMMA PlanKept ==
  ASSUME [Next]_vars
  PROVE  plan' = plan
BY Steps, CacheFrame, DriveFrame, FiberFrame DEF vars
-----------------------------------------------------------------------------
(* What a step does to the fiber that takes it, and to the others *)

Here(f) == <<pc[f], driver[f], number[f], repeated[f], pause[f], exit[f], ran[f], asked[f], told[f]>>

LEMMA StartDoes ==
  ASSUME Shaped, NEW f \in Fibers, Start(f)
  PROVE  /\ Shaped' /\ \A g \in Fibers \ {f} : UNCHANGED Here(g)
         /\ pc[f] = "idle" /\ f \in plan.by
         /\ UNCHANGED <<plan, cancelled, repeated[f], ran[f], asked[f], told[f]>>
         /\ \/ /\ plan.loop \in Recurrences /\ pc'[f] = "attempt" /\ driver'[f] = plan.policy
               /\ number'[f] = 1 /\ UNCHANGED <<pause[f], exit[f]>>
            \/ /\ plan.loop = "turns" /\ UNCHANGED <<driver[f], number[f], pause[f]>>
               /\ \/ pc'[f] = "turn" /\ IsStated(plan.allowance) /\ UNCHANGED exit[f]
                  \/ pc'[f] = "done" /\ exit'[f] = "Unstated"
            \/ /\ plan.loop = "delay" /\ pc'[f] = "sleep" /\ pause'[f] = plan.duration
               /\ UNCHANGED <<driver[f], number[f], exit[f]>>
BY DEF Shaped, Start, Here, GoTo, Settle, FreshDriver

LEMMA AttemptDoes ==
  ASSUME Shaped, NEW f \in Fibers, Attempt(f)
  PROVE  /\ Shaped' /\ \A g \in Fibers \ {f} : UNCHANGED Here(g)
         /\ pc[f] = "attempt" /\ Len(ran[f]) < MaxAttempts
         /\ UNCHANGED <<plan, cancelled, driver[f], number[f], repeated[f], pause[f], asked[f]>>
         /\ \E o \in Outcomes :
              /\ ran'[f] = Append(ran[f], [at |-> now, outcome |-> o])
              /\ \/ /\ (plan.loop = "repeat" /\ o \in Successes) \/ (plan.loop \in Retries /\ o \notin Successes)
                    /\ pc'[f] = "decide" /\ UNCHANGED <<exit[f], told[f]>>
                 \/ /\ ~((plan.loop = "repeat" /\ o \in Successes) \/ (plan.loop \in Retries /\ o \notin Successes))
                    /\ pc'[f] = "done" /\ exit'[f] = o
                    /\ \/ /\ o \in Successes /\ repeated[f]
                          /\ told'[f] = Append(told[f], [kind |-> "succeeded", number |-> number[f], delay |-> 0])
                       \/ ~(o \in Successes /\ repeated[f]) /\ UNCHANGED told[f]
<1>1. PICK o \in Outcomes :
        /\ ran' = [ran EXCEPT ![f] = Append(@, [at |-> now, outcome |-> o])]
        /\ IF (plan.loop = "repeat" /\ o \in Successes) \/ (plan.loop \in Retries /\ o \notin Successes)
           THEN GoTo(f, "decide") /\ UNCHANGED <<exit, told>>
           ELSE /\ Settle(f, o)
                /\ IF o \in Successes /\ repeated[f] THEN Emit(f, "succeeded", 0) ELSE UNCHANGED told
  BY DEF Attempt
<1>2. UNCHANGED <<plan, clockVars, cancelled, driver, number, repeated, pause, asked, turnVars, cacheVars>>
      /\ pc[f] = "attempt" /\ Len(ran[f]) < MaxAttempts
  BY DEF Attempt
<1>3. Shaped'
  BY <1>1, <1>2 DEF Shaped, GoTo, Settle, Emit
<1>4. \A g \in Fibers \ {f} : UNCHANGED Here(g)
  BY <1>1, <1>2 DEF Shaped, GoTo, Settle, Emit, Here
<1>5. CASE (plan.loop = "repeat" /\ o \in Successes) \/ (plan.loop \in Retries /\ o \notin Successes)
  BY <1>1, <1>2, <1>3, <1>4, <1>5 DEF Shaped, GoTo
<1>6. CASE ~((plan.loop = "repeat" /\ o \in Successes) \/ (plan.loop \in Retries /\ o \notin Successes))
  <2>1. /\ ran'[f] = Append(ran[f], [at |-> now, outcome |-> o])
        /\ pc'[f] = "done" /\ exit'[f] = o
    BY <1>1, <1>6 DEF Shaped, Settle, GoTo
  <2>2. \/ /\ o \in Successes /\ repeated[f]
           /\ told'[f] = Append(told[f], [kind |-> "succeeded", number |-> number[f], delay |-> 0])
        \/ ~(o \in Successes /\ repeated[f]) /\ UNCHANGED told[f]
    BY <1>1, <1>6 DEF Shaped, Emit
  <2> QED BY <1>2, <1>3, <1>4, <1>6, <2>1, <2>2
<1> QED BY <1>5, <1>6

\* What a driver is asked and what follows, wherever it is asked from.
AskDoes(f, input, exhausted) ==
    \E fraction \in Fractions :
        LET step == DriverStep(driver[f], now, input, fraction)
        IN  /\ driver'[f] = step.driver
            /\ asked'[f] = Append(asked[f],
                   [time |-> now, input |-> input, fraction |-> fraction, decision |-> step.decision])
            /\ \/ /\ ~step.decision.continues
                  /\ told'[f] = Append(told[f], [kind |-> IF plan.loop = "repeat" THEN "completed" ELSE "exhausted",
                                                 number |-> number[f], delay |-> 0])
                  /\ \/ plan.loop = "retryOrElse" /\ pc'[f] = "fallback" /\ UNCHANGED exit[f]
                     \/ plan.loop # "retryOrElse" /\ pc'[f] = "done" /\ exit'[f] = exhausted
                  /\ UNCHANGED <<number[f], repeated[f], pause[f]>>
               \/ /\ step.decision.continues
                  /\ told'[f] = Append(told[f], [kind |-> "scheduled", number |-> number[f],
                                                 delay |-> step.decision.delay])
                  /\ number'[f] = nextCount(number[f])
                  /\ repeated'[f] = (plan.loop \in Retries)
                  /\ pause'[f] = step.decision.delay
                  /\ pc'[f] = "sleep" /\ UNCHANGED exit[f]

LEMMA AskShapes ==
  ASSUME Shaped, NEW f \in Fibers, NEW input, NEW exhausted, Ask(f, input, exhausted), UNCHANGED ran
  PROVE  /\ Shaped' /\ \A g \in Fibers \ {f} : UNCHANGED Here(g)
         /\ AskDoes(f, input, exhausted)
<1>1. PICK fraction \in IF plan.policy.op = "jitter" THEN Fractions ELSE {0} :
        LET step == DriverStep(driver[f], now, input, fraction)
            decision == step.decision
        IN  /\ driver' = [driver EXCEPT ![f] = step.driver]
            /\ asked' = [asked EXCEPT ![f] = Append(@,
                   [time |-> now, input |-> input, fraction |-> fraction, decision |-> decision])]
            /\ \/ /\ ~decision.continues
                  /\ Emit(f, IF plan.loop = "repeat" THEN "completed" ELSE "exhausted", 0)
                  /\ IF plan.loop = "retryOrElse" THEN GoTo(f, "fallback") /\ UNCHANGED exit
                     ELSE Settle(f, exhausted)
                  /\ UNCHANGED <<number, repeated, pause>>
               \/ /\ decision.continues
                  /\ Emit(f, "scheduled", decision.delay)
                  /\ number' = [number EXCEPT ![f] = nextCount(@)]
                  /\ repeated' = [repeated EXCEPT ![f] = plan.loop \in Retries]
                  /\ pause' = [pause EXCEPT ![f] = decision.delay]
                  /\ GoTo(f, "sleep")
                  /\ UNCHANGED exit
  BY DEF Ask
<1> DEFINE step == DriverStep(driver[f], now, input, fraction)
           kind == IF plan.loop = "repeat" THEN "completed" ELSE "exhausted"
<1>2. /\ driver' = [driver EXCEPT ![f] = step.driver]
      /\ asked' = [asked EXCEPT ![f] = Append(asked[f],
                   [time |-> now, input |-> input, fraction |-> fraction, decision |-> step.decision])]
  BY <1>1
<1>3. \/ /\ ~step.decision.continues
         /\ Emit(f, kind, 0)
         /\ IF plan.loop = "retryOrElse" THEN GoTo(f, "fallback") /\ UNCHANGED exit
            ELSE Settle(f, exhausted)
         /\ UNCHANGED <<number, repeated, pause>>
      \/ /\ step.decision.continues
         /\ Emit(f, "scheduled", step.decision.delay)
         /\ number' = [number EXCEPT ![f] = nextCount(@)]
         /\ repeated' = [repeated EXCEPT ![f] = plan.loop \in Retries]
         /\ pause' = [pause EXCEPT ![f] = step.decision.delay]
         /\ GoTo(f, "sleep")
         /\ UNCHANGED exit
  BY <1>1
<1>4. fraction \in Fractions
  BY <1>1 DEF Fractions
<1> HIDE DEF step, kind
<1>5. Shaped'
  BY <1>2, <1>3 DEF Shaped, GoTo, Settle, Emit
<1>6. \A g \in Fibers \ {f} : UNCHANGED Here(g)
  BY <1>2, <1>3 DEF Shaped, GoTo, Settle, Emit, Here
<1>7. /\ driver'[f] = step.driver
      /\ asked'[f] = Append(asked[f],
             [time |-> now, input |-> input, fraction |-> fraction, decision |-> step.decision])
  BY <1>2 DEF Shaped
<1>8. \/ /\ ~step.decision.continues
         /\ told'[f] = Append(told[f], [kind |-> kind, number |-> number[f], delay |-> 0])
         /\ \/ plan.loop = "retryOrElse" /\ pc'[f] = "fallback" /\ UNCHANGED exit[f]
            \/ plan.loop # "retryOrElse" /\ pc'[f] = "done" /\ exit'[f] = exhausted
         /\ UNCHANGED <<number[f], repeated[f], pause[f]>>
      \/ /\ step.decision.continues
         /\ told'[f] = Append(told[f], [kind |-> "scheduled", number |-> number[f],
                                        delay |-> step.decision.delay])
         /\ number'[f] = nextCount(number[f])
         /\ repeated'[f] = (plan.loop \in Retries)
         /\ pause'[f] = step.decision.delay
         /\ pc'[f] = "sleep" /\ UNCHANGED exit[f]
  BY <1>3 DEF Shaped, GoTo, Settle, Emit
<1> QED BY <1>4, <1>5, <1>6, <1>7, <1>8 DEF AskDoes, step, kind

LEMMA DecideDoes ==
  ASSUME Shaped, NEW f \in Fibers, Decide(f)
  PROVE  LET outcome == Last(ran[f]).outcome
         IN  /\ Shaped' /\ \A g \in Fibers \ {f} : UNCHANGED Here(g)
             /\ pc[f] = "decide" /\ UNCHANGED <<plan, cancelled, ran[f]>>
             /\ \/ /\ plan.loop \in Retries /\ pc'[f] = "done"
                   /\ \/ ~Eligible(outcome) /\ exit'[f] = outcome
                      \/ Eligible(outcome) /\ f \in cancelled /\ exit'[f] = "interrupt"
                   /\ UNCHANGED <<driver[f], number[f], repeated[f], pause[f], asked[f], told[f]>>
                \/ /\ plan.loop = "repeat" \/ (Eligible(outcome) /\ f \notin cancelled)
                   /\ AskDoes(f, outcome, IF plan.loop = "repeat" THEN "output" ELSE outcome)
<1> DEFINE outcome == Last(ran[f]).outcome
<1>1. pc[f] = "decide" /\ UNCHANGED <<plan, clockVars, cancelled, ran, turnVars, cacheVars>>
  BY DEF Decide
<1>2. \/ /\ plan.loop \in Retries /\ ~Eligible(outcome)
         /\ Settle(f, outcome)
         /\ UNCHANGED <<driver, number, repeated, pause, asked, told>>
      \/ /\ plan.loop \in Retries /\ Eligible(outcome) /\ f \in cancelled
         /\ Settle(f, "interrupt")
         /\ UNCHANGED <<driver, number, repeated, pause, asked, told>>
      \/ /\ plan.loop = "repeat" \/ (Eligible(outcome) /\ f \notin cancelled)
         /\ Ask(f, outcome, IF plan.loop = "repeat" THEN "output" ELSE outcome)
  BY DEF Decide
<1> HIDE DEF outcome
<1>3. CASE /\ plan.loop \in Retries /\ ~Eligible(outcome)
           /\ Settle(f, outcome)
           /\ UNCHANGED <<driver, number, repeated, pause, asked, told>>
  <2>1. Shaped'
    BY <1>1, <1>3 DEF Shaped, GoTo, Settle
  <2>2. \A g \in Fibers \ {f} : UNCHANGED Here(g)
    BY <1>1, <1>3 DEF Shaped, GoTo, Settle, Here
  <2>3. pc'[f] = "done" /\ exit'[f] = outcome
    BY <1>3 DEF Shaped, GoTo, Settle
  <2> QED BY <1>1, <1>3, <2>1, <2>2, <2>3 DEF outcome
<1>4. CASE /\ plan.loop \in Retries /\ Eligible(outcome) /\ f \in cancelled
           /\ Settle(f, "interrupt")
           /\ UNCHANGED <<driver, number, repeated, pause, asked, told>>
  <2>1. Shaped'
    BY <1>1, <1>4 DEF Shaped, GoTo, Settle
  <2>2. \A g \in Fibers \ {f} : UNCHANGED Here(g)
    BY <1>1, <1>4 DEF Shaped, GoTo, Settle, Here
  <2>3. pc'[f] = "done" /\ exit'[f] = "interrupt"
    BY <1>4 DEF Shaped, GoTo, Settle
  <2> QED BY <1>1, <1>4, <2>1, <2>2, <2>3 DEF outcome
<1>5. CASE /\ plan.loop = "repeat" \/ (Eligible(outcome) /\ f \notin cancelled)
           /\ Ask(f, outcome, IF plan.loop = "repeat" THEN "output" ELSE outcome)
  <2>1. /\ Shaped' /\ \A g \in Fibers \ {f} : UNCHANGED Here(g)
        /\ AskDoes(f, outcome, IF plan.loop = "repeat" THEN "output" ELSE outcome)
    BY <1>1, <1>5, AskShapes
  <2> QED BY <1>1, <1>5, <2>1 DEF outcome
<1> QED BY <1>2, <1>3, <1>4, <1>5

LEMMA FallbackDoes ==
  ASSUME Shaped, NEW f \in Fibers, Fallback(f)
  PROVE  /\ Shaped' /\ \A g \in Fibers \ {f} : UNCHANGED Here(g)
         /\ pc[f] = "fallback" /\ pc'[f] = "done"
         /\ UNCHANGED <<plan, cancelled, driver[f], number[f], repeated[f], pause[f], ran[f], asked[f]>>
         /\ \/ /\ exit'[f] = "fallback" /\ repeated[f]
               /\ told'[f] = Append(told[f], [kind |-> "succeeded", number |-> number[f], delay |-> 0])
            \/ exit'[f] = "fallback" /\ ~repeated[f] /\ UNCHANGED told[f]
            \/ exit'[f] = "fallbackFailed" /\ UNCHANGED told[f]
BY DEF Shaped, Fallback, Here, GoTo, Settle, Emit

LEMMA AskTurnDoes ==
  ASSUME Shaped, NEW f \in Fibers, AskTurn(f)
  PROVE  LET turn == Turn(stored, plan.allowance, plan.longest, now)
         IN  /\ Shaped' /\ \A g \in Fibers \ {f} : UNCHANGED Here(g)
             /\ pc[f] = "turn" /\ Len(asks) < MaxTurns /\ stored' = turn.stored
             /\ asks' = Append(asks, [time |-> now, err |-> turn.err, moment |-> now + turn.wait])
             /\ UNCHANGED <<plan, cancelled, driver[f], number[f], repeated[f], asked[f], told[f]>>
             /\ \/ /\ turn.err # "none" /\ pc'[f] = "done" /\ exit'[f] = turn.err
                   /\ UNCHANGED <<pause[f], ran[f]>>
                \/ /\ turn.err = "none" /\ turn.wait <= 0 /\ pc'[f] = "done" /\ exit'[f] = "turn"
                   /\ ran'[f] = Append(ran[f], [at |-> now, outcome |-> now]) /\ UNCHANGED pause[f]
                \/ /\ turn.err = "none" /\ turn.wait > 0 /\ pc'[f] = "sleep" /\ pause'[f] = turn.wait
                   /\ ran'[f] = Append(ran[f], [at |-> -1, outcome |-> now + turn.wait]) /\ UNCHANGED exit[f]
BY DEF Shaped, AskTurn, Here, GoTo, Settle

LEMMA AskAgainDoes ==
  ASSUME Shaped, NEW f \in Fibers, AskAgain(f)
  PROVE  /\ Shaped' /\ \A g \in Fibers \ {f} : UNCHANGED Here(g)
         /\ pc[f] = "done" /\ exit[f] \in {"turn", "LimitExceeded"} /\ f \notin cancelled
         /\ pc'[f] = "turn" /\ exit'[f] = "none"
         /\ UNCHANGED <<plan, cancelled, driver[f], number[f], repeated[f], pause[f], ran[f], asked[f], told[f]>>
BY DEF Shaped, AskAgain, Here, GoTo

LEMMA SleepDoes ==
  ASSUME Shaped, NEW f \in Fibers, Sleep(f)
  PROVE  /\ Shaped' /\ \A g \in Fibers \ {f} : UNCHANGED Here(g)
         /\ pc[f] = "sleep" /\ pause'[f] = 0
         /\ \/ pause[f] <= 0 /\ pc'[f] = "woken" /\ UNCHANGED clockVars
            \/ pause[f] > 0 /\ pc'[f] = "asleep" /\ Register(f, pause[f])
         /\ UNCHANGED <<plan, cancelled, driver[f], number[f], repeated[f], exit[f], ran[f], asked[f], told[f]>>
BY DEF Shaped, Sleep, Here, GoTo

LEMMA WakeDoes ==
  ASSUME Shaped, NEW f \in Fibers, Wake(f)
  PROVE  /\ Shaped' /\ \A g \in Fibers \ {f} : UNCHANGED Here(g)
         /\ \/ pc[f] = "asleep" /\ TakeReady(f) /\ pc'[f] = "woken"
            \/ pc[f] = "asleep" /\ f \in cancelled /\ pc'[f] = "removing" /\ UNCHANGED clockVars
            \/ pc[f] = "removing" /\ Unregister(f) /\ pc'[f] = "woken"
            \/ pc[f] = "removing" /\ ~IsRegistered(f) /\ TakeReady(f) /\ pc'[f] = "woken"
         /\ UNCHANGED <<plan, cancelled, driver[f], number[f], repeated[f], pause[f], exit[f], ran[f],
                        asked[f], told[f]>>
BY DEF Shaped, Wake, Here, GoTo

LEMMA ResumeDoes ==
  ASSUME Shaped, NEW f \in Fibers, Resume(f)
  PROVE  /\ Shaped' /\ \A g \in Fibers \ {f} : UNCHANGED Here(g)
         /\ pc[f] = "woken"
         /\ \/ f \in cancelled /\ pc'[f] = "done" /\ exit'[f] = "interrupt" /\ UNCHANGED ran[f]
            \/ /\ f \notin cancelled /\ plan.loop # "turns" /\ pc'[f] = "attempt"
               /\ UNCHANGED <<exit[f], ran[f]>>
            \/ /\ f \notin cancelled /\ plan.loop = "turns" /\ pc'[f] = "done" /\ exit'[f] = "turn"
               /\ ran'[f] = [ran[f] EXCEPT ![Len(ran[f])].at = now]
         /\ UNCHANGED <<plan, cancelled, driver[f], number[f], repeated[f], pause[f], asked[f], told[f]>>
BY DEF Shaped, Resume, Here, GoTo, Settle

LEMMA CancelDoes ==
  ASSUME Shaped, NEW f \in Fibers, Cancel(f)
  PROVE  /\ Shaped' /\ \A g \in Fibers : UNCHANGED Here(g)
         /\ pc[f] \notin {"idle", "done"} /\ f \notin cancelled
         /\ UNCHANGED plan /\ cancelled' = cancelled \cup {f}
BY DEF Shaped, Cancel, Here

LEMMA InterruptedDoes ==
  ASSUME Shaped, NEW f \in Fibers, Interrupted(f)
  PROVE  /\ Shaped' /\ \A g \in Fibers \ {f} : UNCHANGED Here(g)
         /\ f \in cancelled /\ pc[f] \in {"attempt", "decide", "fallback", "turn", "sleep"}
         /\ pc'[f] = "done" /\ exit'[f] = "interrupt"
         /\ UNCHANGED <<plan, cancelled, driver[f], number[f], repeated[f], pause[f], ran[f], asked[f], told[f]>>
BY DEF Shaped, Interrupted, Here, GoTo, Settle
-----------------------------------------------------------------------------
(* Types *)

LEMMA MaxOfTwo ==
  ASSUME NEW a \in Int, NEW b \in Int
  PROVE  Max({a, b}) = IF a >= b THEN a ELSE b
BY DEF Max

LEMMA QuotientType ==
  ASSUME NEW a \in Nat, NEW b \in Nat, b > 0
  PROVE  a \div b \in Nat
OBVIOUS

LEMMA SpacingType ==
  ASSUME NEW p \in Plans, p.loop = "turns"
  PROVE  /\ p.longest \in Int /\ p.allowance.most \in Int /\ p.allowance.every \in Int
         /\ Spacing(p.allowance) \in Nat
         /\ IsStated(p.allowance) => p.allowance.most - 1 \in Nat
<1>1. p.longest \in Int /\ p.allowance.most \in Int /\ p.allowance.every \in Int
  BY PlanAssumption
<1> DEFINE most == p.allowance.most
           every == p.allowance.every
<1>2. most \in Int /\ every \in Int
  BY <1>1
<1>3. IsStated(p.allowance) => most > 0 /\ every > 0
  BY DEF IsStated
<1>4. Spacing(p.allowance) = IF IsStated(p.allowance) THEN every \div most ELSE 0
  BY DEF Spacing
<1> HIDE DEF most, every
<1>5. most > 0 /\ every > 0 => every \in Nat /\ most \in Nat /\ most - 1 \in Nat
  BY <1>2
<1>6. most > 0 /\ every > 0 => every \div most \in Nat
  BY <1>5, QuotientType
<1>7. Spacing(p.allowance) \in Nat
  BY <1>3, <1>4, <1>6
<1> QED BY <1>1, <1>3, <1>5, <1>7 DEF most

\* A turn in plain numbers: the moment it is for is the time, or what the kept
\* moment allows.
LEMMA TurnValue ==
  ASSUME BaseInv, plan.loop = "turns", IsStated(plan.allowance)
  PROVE  LET turn == Turn(stored, plan.allowance, plan.longest, now)
             spacing == Spacing(plan.allowance)
             ahead == stored - (plan.allowance.most - 1) * spacing
         IN  /\ turn.wait \in Nat
             /\ now + turn.wait = IF ahead >= now THEN ahead ELSE now
             /\ (turn.err = "none") = (plan.longest <= 0 \/ turn.wait <= plan.longest)
             /\ turn.err = "none" => turn.stored = (IF stored >= now THEN stored ELSE now) + spacing
             /\ turn.err # "none" => turn.err = "LimitExceeded" /\ turn.stored = stored
<1> DEFINE a == plan.allowance
           spacing == Spacing(a)
           nextArrival == IF stored >= now THEN stored ELSE now
           tolerance == (a.most - 1) * spacing
           wait == IF 0 >= nextArrival - tolerance - now THEN 0 ELSE nextArrival - tolerance - now
<1>1. /\ spacing \in Nat /\ a.most - 1 \in Nat /\ plan.longest \in Int /\ stored \in Nat /\ now \in Nat
  BY SpacingType DEF BaseInv, ClockTypes, TurnTypes
<1> HIDE DEF spacing
<1>2. tolerance \in Nat
  BY <1>1
<1> HIDE DEF tolerance
<1>3. Max({stored, now}) = nextArrival /\ nextArrival \in Nat
  BY <1>1, MaxOfTwo
<1>4. Max({0, nextArrival - tolerance - now}) = wait /\ wait \in Nat
  BY <1>1, <1>2, <1>3, MaxOfTwo
<1>5. Turn(stored, a, plan.longest, now) =
        IF plan.longest > 0 /\ wait > plan.longest THEN Refused("LimitExceeded", wait, stored)
        ELSE Granted(wait, nextArrival + spacing)
  BY <1>3, <1>4 DEF Turn, tolerance, spacing
<1> DEFINE turn == Turn(stored, a, plan.longest, now)
<1>6. /\ turn.wait = wait
      /\ (turn.err = "none") = (plan.longest <= 0 \/ wait <= plan.longest)
      /\ turn.err = "none" => turn.stored = nextArrival + spacing
      /\ turn.err # "none" => turn.err = "LimitExceeded" /\ turn.stored = stored
  <2> HIDE DEF wait, nextArrival, turn
  <2>1. CASE plan.longest > 0 /\ wait > plan.longest
    BY <1>1, <1>4, <1>5, <2>1 DEF Refused, turn
  <2>2. CASE ~(plan.longest > 0 /\ wait > plan.longest)
    BY <1>1, <1>4, <1>5, <2>2 DEF Granted, turn
  <2> QED BY <2>1, <2>2
<1>7. now + wait = IF stored - tolerance >= now THEN stored - tolerance ELSE now
  BY <1>1, <1>2
<1> QED BY <1>4, <1>6, <1>7 DEF tolerance, spacing

\* The clock goes forward, and only the test moves it.
LEMMA ClockSteps ==
  ASSUME BaseInv, [Next]_vars
  PROVE  /\ ClockTypes' /\ now <= now'
         /\ now' = now \/ (\E d \in 1..MaxTime : Advance(d))
<1> USE BoundAssumption DEF ClockTypes
<1>1. ClockTypes /\ Shaped /\ plan \in Plans /\ \A f \in Fibers : Typed(f)
  BY DEF BaseInv
<1>2. CASE UNCHANGED clockVars
  BY <1>1, <1>2 DEF clockVars
<1>3. ASSUME NEW f \in Fibers, NEW d \in Int, Register(f, d)
      PROVE  ClockTypes' /\ now' = now
  BY <1>1, <1>3 DEF Register, signalChange
<1>4. ASSUME NEW f \in Fibers, Unregister(f) PROVE ClockTypes' /\ now' = now
  <2>1. Only(sleepers, Fibers \ {f}) \in Seq(Fibers)
    BY <1>1, OnlyFacts
  <2> QED BY <1>1, <1>4, <2>1 DEF Unregister, signalChange
<1>5. ASSUME NEW f \in Fibers, TakeReady(f) PROVE ClockTypes' /\ now' = now
  BY <1>1, <1>5 DEF TakeReady
<1>6. ASSUME NEW d \in 1..MaxTime, Advance(d) PROVE ClockTypes' /\ now <= now'
  <2>1. \A S : Only(sleepers, S) \in Seq(Fibers)
    BY <1>1, OnlyFacts
  <2>2. now' = now + d /\ now + d <= MaxTime /\ now' \in 0..MaxTime
    BY <1>1, <1>6 DEF Advance
  <2>3. sleepers' \in Seq(Fibers) /\ due' = due /\ wanted' = wanted /\ signalled' \in BOOLEAN
    BY <1>6, <2>1 DEF Advance, signalChange
  <2>4. ToSet(sleepers) \subseteq Fibers
    BY <1>1, ToSetFacts
  <2>5. ready' \subseteq Fibers
    BY <1>1, <1>6, <2>4 DEF Advance
  <2> QED BY <1>1, <2>2, <2>3, <2>5
<1>7. ASSUME NEW n \in Nat, CheckPending(n) PROVE ClockTypes' /\ now' = now
  BY <1>1, <1>7 DEF CheckPending
<1>8. CASE \E f \in Fibers : FiberStep(f)
  <2>1. PICK f \in Fibers : FiberStep(f)
    BY <1>8
  <2>2. pause[f] \in Int
    BY <1>1 DEF Typed
  <2>3. \/ UNCHANGED clockVars \/ Register(f, pause[f]) \/ TakeReady(f) \/ Unregister(f)
    BY <1>1, <2>1, FiberFrame, SleepDoes, WakeDoes
  <2> QED BY <1>1, <1>2, <1>3, <1>4, <1>5, <2>2, <2>3 DEF clockVars
<1>9. CASE Drive
  <2>1. \A n \in plan.counts : n \in Nat
    BY <1>1, PlanAssumption
  <2>2. GiveUp => ClockTypes' /\ now' = now
    BY <1>1 DEF GiveUp
  <2>3. \/ \E d \in 1..MaxTime : Advance(d)
        \/ \E n \in Nat : CheckPending(n)
        \/ GiveUp
    BY <1>1, <1>9, <2>1 DEF Drive, WaitForPending, Recheck
  <2> QED BY <1>1, <1>6, <1>7, <2>2, <2>3
<1>10. UNCHANGED vars \/ CacheStep => UNCHANGED clockVars
  BY CacheFrame DEF vars
<1> QED BY <1>1, <1>2, <1>8, <1>9, <1>10, Steps DEF clockVars

LEMMA AppendFacts ==
  ASSUME NEW S, NEW s \in Seq(S), NEW e \in S
  PROVE  /\ Append(s, e) \in Seq(S) /\ Len(Append(s, e)) = Len(s) + 1 /\ Len(s) \in Nat
         /\ \A i \in 1..Len(s) : Append(s, e)[i] = s[i]
         /\ Append(s, e)[Len(s) + 1] = e
         /\ Append(s, e) # <<>> /\ Last(Append(s, e)) = e
BY DEF Last

LEMMA OutcomeTypes == Outcomes \subseteq Inputs
BY DEF Outcomes, Inputs

\* Whoever is left alone by a step stays in order.
LEMMA Elsewhere ==
  ASSUME BaseInv, NEW g \in Fibers, UNCHANGED <<plan, Here(g)>>, now <= now', now' \in Int
  PROVE  Typed(g)' /\ InPlan(g)' /\ InStep(g)'
<1>1. /\ plan' = plan /\ pc'[g] = pc[g] /\ driver'[g] = driver[g] /\ number'[g] = number[g]
      /\ repeated'[g] = repeated[g] /\ pause'[g] = pause[g] /\ exit'[g] = exit[g]
      /\ ran'[g] = ran[g] /\ asked'[g] = asked[g] /\ told'[g] = told[g]
  BY DEF Here
<1>2. Typed(g) /\ InPlan(g) /\ InStep(g) /\ now \in Int
  BY DEF BaseInv, ClockTypes
<1>3. Typed(g)'
  BY <1>1, <1>2 DEF Typed
<1>4. InPlan(g)'
  BY <1>1, <1>2 DEF InPlan
<1>5. \A i : Question(g, i)' = Question(g, i)
  BY <1>1 DEF Question
<1>6. \A i \in 1..Len(asked[g]) : asked[g][i].time <= now => asked[g][i].time <= now'
  <2>1. \A i \in 1..Len(asked[g]) : asked[g][i].time \in Int
    <3>1. ASSUME NEW i \in 1..Len(asked[g]) PROVE asked[g][i].time \in Int
      <4>1. asked[g][i] \in Askings
        BY <1>2 DEF Typed
      <4> QED BY <4>1, BoundAssumption DEF Askings
    <3> QED BY <3>1
  <2> QED BY <1>2, <2>1
<1>7. InStep(g)'
  BY <1>1, <1>2, <1>5, <1>6 DEF InStep
<1> QED BY <1>3, <1>4, <1>7

\* A driver is asked what a driver of its policy may be asked, and answers it.
LEMMA NextQuestion ==
  ASSUME BaseInv, NEW f \in Fibers, pc[f] = "decide", NEW fraction \in Fractions
  PROVE  LET input == Last(ran[f]).outcome
             first == IF Len(asked[f]) = 0 THEN now ELSE asked[f][1].time
             q == [policy |-> plan.policy, nth |-> Len(asked[f]), first |-> first, time |-> now,
                   input |-> input, fraction |-> fraction]
             step == DriverStep(driver[f], now, input, fraction)
         IN  /\ input \in Inputs /\ first \in 0..MaxTime
             /\ q \in Questions /\ step = Answer(q)
             /\ step.driver = DriverAfter(plan.policy, Len(asked[f]) + 1, first)
             /\ step.decision \in Decisions
             /\ step.decision.continues \in BOOLEAN /\ step.decision.delay \in Nat
<1> DEFINE input == Last(ran[f]).outcome
           first == IF Len(asked[f]) = 0 THEN now ELSE asked[f][1].time
           n == Len(asked[f])
           q == [policy |-> plan.policy, nth |-> n, first |-> first, time |-> now,
                 input |-> input, fraction |-> fraction]
<1>1. /\ plan \in Plans /\ plan.loop \in Recurrences /\ now \in 0..MaxTime
      /\ Len(ran[f]) = n + 1 /\ n + 1 <= MaxAttempts /\ n \in Nat
      /\ ran[f] \in Seq(Attempts) /\ asked[f] \in Seq(Askings)
      /\ \A i \in 1..Len(ran[f]) : ran[f][i].outcome \in Inputs
      /\ driver[f] = IF n = 0 THEN plan.policy ELSE DriverAfter(plan.policy, n, asked[f][1].time)
      /\ \A i \in 1..n : asked[f][i].time <= now
  <2>1. Typed(f) /\ InPlan(f) /\ InStep(f) /\ plan \in Plans /\ now \in 0..MaxTime
    BY DEF BaseInv, ClockTypes
  <2>2. ran[f] \in Seq(Attempts) /\ asked[f] \in Seq(Askings) /\ n \in Nat
    BY <2>1 DEF Typed
  <2>3. plan.loop \in Recurrences
    BY <2>1 DEF InPlan
  <2>4. /\ Len(ran[f]) = n + 1 /\ Len(ran[f]) <= MaxAttempts
        /\ \A i \in 1..Len(ran[f]) : ran[f][i].outcome \in Inputs
        /\ \A i \in 1..n : asked[f][i].time <= now
    BY <2>1, <2>3 DEF InStep
  <2>5. driver[f] = IF n = 0 THEN plan.policy ELSE DriverAfter(plan.policy, n, asked[f][1].time)
    BY <2>1, <2>3 DEF InStep
  <2> QED BY <2>1, <2>2, <2>3, <2>4, <2>5
<1>2. plan.policy \in Policies
  BY <1>1 DEF Policies
<1>3. input \in Inputs
  <2>1. Last(ran[f]) = ran[f][n + 1]
    BY <1>1 DEF Last
  <2> QED BY <1>1, <2>1
<1>4. first \in 0..MaxTime /\ first <= now /\ (n = 0 => first = now)
  <2>1. CASE n = 0
    BY <1>1, <2>1
  <2>2. CASE n # 0
    <3>1. 1 \in 1..n /\ asked[f][1] \in Askings
      BY <1>1, <2>2
    <3> QED BY <1>1, <2>2, <3>1 DEF Askings
  <2> QED BY <2>1, <2>2
<1> HIDE DEF input, first, n
<1>5. q \in [policy : Policies, nth : 0..MaxAttempts - 1, first : 0..MaxTime, time : 0..MaxTime,
             input : Inputs, fraction : Fractions]
  BY <1>1, <1>2, <1>3, <1>4, BoundAssumption
<1>6. q \in Questions
  BY <1>4, <1>5 DEF Questions
<1>7. driver[f] = DriverAfter(plan.policy, n, first)
  <2>1. CASE n = 0
    BY <1>1, <1>2, <1>4, <2>1, DriverAssumption
  <2>2. CASE n # 0
    BY <1>1, <2>2 DEF first, n
  <2> QED BY <2>1, <2>2
<1>8. DriverStep(driver[f], now, input, fraction) = Answer(q)
  BY <1>7 DEF Answer
<1>9. /\ Answer(q).driver = DriverAfter(q.policy, q.nth + 1, q.first)
      /\ Answer(q).decision.continues \in BOOLEAN /\ Answer(q).decision.delay \in Nat
  BY <1>6, DriverAssumption
<1>10. Answer(q).decision \in Decisions
  BY <1>6 DEF Decisions
<1>11. q.policy = plan.policy /\ q.nth = n /\ q.first = first
  OBVIOUS
<1> HIDE DEF q
<1>12. /\ input \in Inputs /\ first \in 0..MaxTime
       /\ q \in Questions /\ DriverStep(driver[f], now, input, fraction) = Answer(q)
       /\ Answer(q).driver = DriverAfter(plan.policy, n + 1, first)
       /\ Answer(q).decision \in Decisions
       /\ Answer(q).decision.continues \in BOOLEAN /\ Answer(q).decision.delay \in Nat
  BY <1>3, <1>4, <1>6, <1>8, <1>9, <1>10, <1>11
<1> QED BY <1>12 DEF input, first, n, q

Recurred == {"attempt", "fallback"} \cup InSleep

LEMMA QuestionKept ==
  ASSUME NEW f, UNCHANGED <<plan, asked[f]>>
  PROVE  \A i : Question(f, i)' = Question(f, i)
BY DEF Question

\* A step that neither attempts nor asks leaves the count of both as it was.
LEMMA QuietInStep ==
  ASSUME BaseInv, NEW f \in Fibers, UNCHANGED <<plan, driver[f], ran[f], asked[f]>>, now' = now,
         UNCHANGED <<told[f], repeated[f]>> \/ plan.loop \in Recurrences,
         pc[f] # "idle" \/ plan.loop \notin Recurrences,
         pc'[f] # "idle", pc'[f] # "decide", pc'[f] \in Recurred => pc[f] \in Recurred
  PROVE  InStep(f)'
<1>1. InStep(f)
  BY DEF BaseInv
<1>2. CASE plan.loop \in Recurrences
  BY <1>1, <1>2, QuestionKept DEF InStep, Recurred
<1>3. CASE plan.loop \notin Recurrences
  BY <1>1, <1>3 DEF InStep
<1> QED BY <1>2, <1>3

\* Nobody but a recurring fiber asks or tells anything.
LEMMA OtherInStep ==
  ASSUME BaseInv, NEW f \in Fibers, UNCHANGED <<plan, asked[f], told[f], repeated[f]>>,
         plan.loop \notin Recurrences
  PROVE  InStep(f)'
BY DEF BaseInv, InStep

OnTrack(f) == Typed(f) /\ InPlan(f) /\ InStep(f)

LEMMA StartOnTrack ==
  ASSUME BaseInv, NEW f \in Fibers, Start(f)
  PROVE  OnTrack(f)'
<1>1. /\ pc[f] = "idle" /\ UNCHANGED <<plan, cancelled, repeated[f], ran[f], asked[f], told[f]>>
      /\ \/ /\ plan.loop \in Recurrences /\ pc'[f] = "attempt" /\ driver'[f] = plan.policy
            /\ number'[f] = 1 /\ UNCHANGED <<pause[f], exit[f]>>
         \/ /\ plan.loop = "turns" /\ UNCHANGED <<driver[f], number[f], pause[f]>>
            /\ \/ pc'[f] = "turn" /\ IsStated(plan.allowance) /\ UNCHANGED exit[f]
               \/ pc'[f] = "done" /\ exit'[f] = "Unstated"
         \/ /\ plan.loop = "delay" /\ pc'[f] = "sleep" /\ pause'[f] = plan.duration
            /\ UNCHANGED <<driver[f], number[f], exit[f]>>
  BY StartDoes DEF BaseInv
<1>2. Typed(f) /\ InPlan(f) /\ InStep(f) /\ plan \in Plans
  BY DEF BaseInv
<1>3. plan.loop = "delay" => plan.duration \in Int
  BY <1>2, PlanAssumption
<1>4. Typed(f)'
  <2>0. number[f] \in Nat /\ pause[f] \in Int /\ exit[f] \in Exits
    BY <1>2 DEF Typed
  <2>1. /\ pc'[f] \in Places /\ number'[f] \in Nat /\ pause'[f] \in Int /\ exit'[f] \in Exits
    <3>1. pc'[f] \in Places
      BY <1>1 DEF Places
    <3>2. number'[f] \in Nat
      BY <1>1, <2>0
    <3>3. pause'[f] \in Int
      BY <1>1, <1>3, <2>0
    <3>4. exit'[f] \in Exits
      BY <1>1, <2>0 DEF Exits
    <3> QED BY <3>1, <3>2, <3>3, <3>4
  <2> QED BY <1>1, <1>2, <2>1 DEF Typed
<1>5. InPlan(f)'
  BY <1>1, <1>2 DEF InPlan, InSleep, Recurrences, Retries
<1>6. InStep(f)'
  <2>1. CASE plan.loop \in Recurrences
    <3>1. ran'[f] = <<>> /\ asked'[f] = <<>> /\ pc'[f] = "attempt" /\ driver'[f] = plan.policy
      BY <1>1, <1>2, <2>1 DEF InStep, Recurrences, Retries
    <3>2. plan'.loop \in Recurrences /\ plan' = plan
      BY <1>1, <2>1
    <3> QED BY <3>1, <3>2, BoundAssumption DEF InStep, InSleep
  <2>2. CASE plan.loop \notin Recurrences
    BY <1>1, <2>2, OtherInStep
  <2> QED BY <2>1, <2>2
<1> QED BY <1>4, <1>5, <1>6 DEF OnTrack

LEMMA AttemptOnTrack ==
  ASSUME BaseInv, NEW f \in Fibers, Attempt(f), now' = now
  PROVE  OnTrack(f)'
<1>1. PICK o \in Outcomes :
        /\ ran'[f] = Append(ran[f], [at |-> now, outcome |-> o])
        /\ \/ /\ plan.loop \in Recurrences
              /\ pc'[f] = "decide" /\ UNCHANGED <<exit[f], told[f]>>
           \/ /\ pc'[f] = "done" /\ exit'[f] = o
              /\ \/ /\ o \in Successes /\ repeated[f]
                    /\ told'[f] = Append(told[f], [kind |-> "succeeded", number |-> number[f], delay |-> 0])
                 \/ UNCHANGED told[f]
  BY AttemptDoes DEF BaseInv, Recurrences
<1>2. /\ pc[f] = "attempt" /\ Len(ran[f]) < MaxAttempts
      /\ UNCHANGED <<plan, cancelled, driver[f], number[f], repeated[f], pause[f], asked[f]>>
  BY AttemptDoes DEF BaseInv
<1>3. Typed(f) /\ InPlan(f) /\ InStep(f) /\ plan \in Plans /\ now \in Int /\ o \in Inputs
  BY OutcomeTypes DEF BaseInv, ClockTypes
<1>4. Typed(f)'
  <2>1. [at |-> now, outcome |-> o] \in Attempts
    BY <1>3 DEF Attempts
  <2>2. ran'[f] \in Seq(Attempts)
    BY <1>1, <1>3, <2>1, AppendFacts DEF Typed
  <2>3. [kind |-> "succeeded", number |-> number[f], delay |-> 0] \in Events
    BY <1>3 DEF Typed, Events
  <2>4. told'[f] \in Seq(Events)
    <3>1. told[f] \in Seq(Events)
      BY <1>3 DEF Typed
    <3>2. Append(told[f], [kind |-> "succeeded", number |-> number[f], delay |-> 0]) \in Seq(Events)
      BY <2>3, <3>1, AppendFacts
    <3> QED BY <1>1, <3>1, <3>2
  <2>5. pc'[f] \in Places /\ exit'[f] \in Exits
    BY <1>1, <1>3 DEF Typed, Places, Exits
  <2> QED BY <1>2, <1>3, <2>2, <2>4, <2>5 DEF Typed
<1>5. InPlan(f)'
  BY <1>1, <1>2, <1>3 DEF InPlan, InSleep, Inputs
<1>6. InStep(f)'
  <2>1. CASE plan.loop \in Recurrences
    <3>1. /\ Len(ran[f]) = Len(asked[f]) /\ ran[f] \in Seq(Attempts)
          /\ Len(ran'[f]) = Len(ran[f]) + 1
          /\ \A i \in 1..Len(ran[f]) : ran'[f][i] = ran[f][i] /\ ran[f][i].outcome \in Inputs
          /\ ran'[f][Len(ran[f]) + 1] = [at |-> now, outcome |-> o]
      <4>1. ran[f] \in Seq(Attempts) /\ [at |-> now, outcome |-> o] \in Attempts
        BY <1>3 DEF Typed, Attempts
      <4>2. Len(ran[f]) = Len(asked[f]) /\ \A i \in 1..Len(ran[f]) : ran[f][i].outcome \in Inputs
        BY <1>2, <1>3, <2>1 DEF InStep
      <4> QED BY <1>1, <4>1, <4>2, AppendFacts
    <3>2. Len(ran'[f]) <= MaxAttempts
      BY <1>2, <3>1, BoundAssumption
    <3>3. \A i \in 1..Len(ran'[f]) : ran'[f][i].outcome \in Inputs
      BY <1>3, <3>1
    <3> QED BY <1>1, <1>2, <1>3, <2>1, <3>1, <3>2, <3>3, QuestionKept DEF InStep, InSleep
  <2>2. CASE plan.loop \notin Recurrences
    <3>1. ~repeated[f]
      BY <1>3, <2>2 DEF InStep
    <3> QED BY <1>1, <1>2, <2>2, <3>1, OtherInStep
  <2> QED BY <2>1, <2>2
<1> QED BY <1>4, <1>5, <1>6 DEF OnTrack

\* What an answered question leaves behind, whatever was decided.
LEMMA AskOnTrack ==
  ASSUME BaseInv, NEW f \in Fibers, pc[f] = "decide", UNCHANGED <<plan, ran[f]>>, now' = now,
         NEW exhausted \in Exits \ {"turn", "LimitExceeded"},
         AskDoes(f, Last(ran[f]).outcome, exhausted)
  PROVE  OnTrack(f)'
<1>0. PICK n \in Nat : n = Len(asked[f])
  BY DEF BaseInv, Typed
<1> DEFINE input == Last(ran[f]).outcome
           first == IF n = 0 THEN now ELSE asked[f][1].time
<1>1. PICK fraction \in Fractions :
        LET step == DriverStep(driver[f], now, input, fraction)
        IN  /\ driver'[f] = step.driver
            /\ asked'[f] = Append(asked[f],
                   [time |-> now, input |-> input, fraction |-> fraction, decision |-> step.decision])
            /\ \/ /\ ~step.decision.continues
                  /\ told'[f] = Append(told[f], [kind |-> IF plan.loop = "repeat" THEN "completed" ELSE "exhausted",
                                                 number |-> number[f], delay |-> 0])
                  /\ \/ plan.loop = "retryOrElse" /\ pc'[f] = "fallback" /\ UNCHANGED exit[f]
                     \/ plan.loop # "retryOrElse" /\ pc'[f] = "done" /\ exit'[f] = exhausted
                  /\ UNCHANGED <<number[f], repeated[f], pause[f]>>
               \/ /\ step.decision.continues
                  /\ told'[f] = Append(told[f], [kind |-> "scheduled", number |-> number[f],
                                                 delay |-> step.decision.delay])
                  /\ number'[f] = nextCount(number[f])
                  /\ repeated'[f] = (plan.loop \in Retries)
                  /\ pause'[f] = step.decision.delay
                  /\ pc'[f] = "sleep" /\ UNCHANGED exit[f]
  BY DEF AskDoes
<1> DEFINE step == DriverStep(driver[f], now, input, fraction)
           decision == step.decision
           asking == [time |-> now, input |-> input, fraction |-> fraction, decision |-> decision]
           q == [policy |-> plan.policy, nth |-> n, first |-> first, time |-> now,
                 input |-> input, fraction |-> fraction]
           ended == [kind |-> IF plan.loop = "repeat" THEN "completed" ELSE "exhausted",
                     number |-> number[f], delay |-> 0]
           scheduled == [kind |-> "scheduled", number |-> number[f], delay |-> decision.delay]
<1>2. /\ input \in Inputs /\ first \in 0..MaxTime
      /\ q \in Questions /\ step = Answer(q)
      /\ step.driver = DriverAfter(plan.policy, n + 1, first)
      /\ decision \in Decisions
      /\ decision.continues \in BOOLEAN /\ decision.delay \in Nat
  BY <1>0, NextQuestion
<1>3. driver'[f] = step.driver /\ asked'[f] = Append(asked[f], asking)
  BY <1>1
<1>4. \/ /\ ~decision.continues
         /\ told'[f] = Append(told[f], ended)
         /\ \/ plan.loop = "retryOrElse" /\ pc'[f] = "fallback" /\ UNCHANGED exit[f]
            \/ plan.loop # "retryOrElse" /\ pc'[f] = "done" /\ exit'[f] = exhausted
         /\ UNCHANGED <<number[f], repeated[f], pause[f]>>
      \/ /\ decision.continues
         /\ told'[f] = Append(told[f], scheduled)
         /\ number'[f] = nextCount(number[f])
         /\ repeated'[f] = (plan.loop \in Retries)
         /\ pause'[f] = decision.delay
         /\ pc'[f] = "sleep" /\ UNCHANGED exit[f]
  BY <1>1
<1>5. Typed(f) /\ InPlan(f) /\ InStep(f) /\ now \in 0..MaxTime /\ plan.loop \in Recurrences
  BY DEF BaseInv, ClockTypes, InPlan
<1>6. /\ number[f] \in Nat /\ repeated[f] \in BOOLEAN /\ pause[f] \in Int /\ exit[f] \in Exits
      /\ ran[f] \in Seq(Attempts) /\ asked[f] \in Seq(Askings) /\ told[f] \in Seq(Events)
  BY <1>5 DEF Typed
<1>7. /\ Len(ran[f]) = n + 1 /\ Len(ran[f]) <= MaxAttempts
      /\ \A i \in 1..Len(ran[f]) : ran[f][i].outcome \in Inputs
      /\ \A i \in 1..n : asked[f][i].time <= now /\ Question(f, i) \in Questions
                           /\ asked[f][i].decision = Answer(Question(f, i)).decision
  BY <1>0, <1>5 DEF InStep
<1> DEFINE kind == IF plan.loop = "repeat" THEN "completed" ELSE "exhausted"
<1>8. asking \in Askings /\ ended \in Events /\ scheduled \in Events
  <2> HIDE DEF decision, input
  <2>1. asking \in Askings
    BY <1>2, <1>5 DEF Askings
  <2>2. kind \in {"exhausted", "completed"}
    OBVIOUS
  <2> HIDE DEF kind
  <2>3. [kind |-> kind, number |-> number[f], delay |-> 0] \in Events
    BY <1>6, <2>2 DEF Events
  <2>4. scheduled \in Events
    BY <1>2, <1>6 DEF Events
  <2> QED BY <2>1, <2>3, <2>4 DEF kind
<1> HIDE DEF step, decision, input, asking, ended, scheduled, q, first
<1>9. /\ asked'[f] \in Seq(Askings) /\ Len(asked'[f]) = n + 1 /\ n \in Nat
      /\ \A i \in 1..n : asked'[f][i] = asked[f][i]
      /\ asked'[f][n + 1] = asking
  BY <1>0, <1>3, <1>6, <1>8, AppendFacts
<1>10. Typed(f)'
  <2>1. told'[f] \in Seq(Events)
    <3>1. Append(told[f], ended) \in Seq(Events) /\ Append(told[f], scheduled) \in Seq(Events)
      BY <1>6, <1>8, AppendFacts
    <3>2. told'[f] = Append(told[f], ended) \/ told'[f] = Append(told[f], scheduled)
      BY <1>4
    <3> QED BY <3>1, <3>2
  <2>2. number'[f] \in Nat
    BY <1>4, <1>6, WidthAssumption DEF nextCount
  <2>3. repeated'[f] \in BOOLEAN
    <3>1. repeated'[f] = repeated[f] \/ repeated'[f] = (plan.loop \in Retries)
      BY <1>4
    <3>2. (plan.loop \in Retries) \in BOOLEAN
      OBVIOUS
    <3> QED BY <1>6, <3>1, <3>2
  <2>4. pause'[f] \in Int
    BY <1>2, <1>4, <1>6
  <2>5. exit'[f] \in Exits
    BY <1>4, <1>6
  <2>6. pc'[f] \in Places
    BY <1>4 DEF Places
  <2>7. ran'[f] \in Seq(Attempts)
    BY <1>6
  <2> QED BY <1>9, <2>1, <2>2, <2>3, <2>4, <2>5, <2>6, <2>7 DEF Typed
<1>11. InPlan(f)'
  <2>1. exit[f] \notin {"turn", "LimitExceeded"} /\ plan.loop # "turns"
    BY <1>5 DEF InPlan, Recurrences, Retries
  <2>2. exit'[f] \notin {"turn", "LimitExceeded"}
    BY <1>4, <2>1
  <2>3. /\ pc'[f] \in {"fallback", "done", "sleep"}
        /\ pc'[f] = "fallback" => plan.loop = "retryOrElse"
    BY <1>4
  <2> QED BY <1>5, <2>1, <2>2, <2>3 DEF InPlan, InSleep
<1>12. asked'[f][1].time = first
  <2>1. CASE n = 0
    BY <1>9, <2>1 DEF first, asking
  <2>2. CASE n # 0
    BY <1>9, <2>2 DEF first
  <2> QED BY <2>1, <2>2
<1>13. \A i \in 1..n + 1 : /\ asked'[f][i].time <= now'
                           /\ Question(f, i)' \in Questions
                           /\ asked'[f][i].decision = (Answer(Question(f, i)).decision)'
  <2>1. ASSUME NEW i \in 1..n
        PROVE  /\ asked'[f][i].time <= now'
               /\ Question(f, i)' \in Questions
               /\ asked'[f][i].decision = (Answer(Question(f, i)).decision)'
    <3>0. \A j \in 1..n : asked'[f][j] = asked[f][j]
      BY <1>9
    <3>1. asked'[f][i] = asked[f][i] /\ asked'[f][1] = asked[f][1]
      <4>1. i \in 1..n /\ 1 \in 1..n
        OBVIOUS
      <4> QED BY ONLY <3>0, <4>1
    <3>2. Question(f, i)' = Question(f, i)
      BY <3>1 DEF Question
    <3>3. (Answer(Question(f, i)).decision)' = Answer(Question(f, i)).decision
      BY <3>2 DEF Answer
    <3> QED BY <1>7, <3>1, <3>2, <3>3
  <2>2. Question(f, n + 1)' = q
    <3>1. asked'[f][n + 1].time = now /\ asked'[f][n + 1].input = input /\ asked'[f][n + 1].fraction = fraction
      BY <1>9 DEF asking
    <3>2. n + 1 - 1 = n
      BY <1>9
    <3> QED BY <1>12, <3>1, <3>2 DEF Question, q
  <2>3. asked'[f][n + 1].time = now /\ asked'[f][n + 1].decision = decision
    BY <1>9 DEF asking
  <2>4. (Answer(Question(f, n + 1)).decision)' = decision
    BY <1>2, <2>2 DEF Answer, decision
  <2>5. \A i \in 1..n + 1 : i \in 1..n \/ i = n + 1
    BY <1>9
  <2>6. now <= now
    BY <1>5
  <2> QED BY <1>2, <2>1, <2>2, <2>3, <2>4, <2>5, <2>6
<1>14. InStep(f)'
  <2>1. pc'[f] \in {"fallback", "done", "sleep"}
    BY <1>4
  <2>2. driver'[f] = DriverAfter(plan.policy, Len(asked'[f]), asked'[f][1].time)
    BY <1>2, <1>3, <1>9, <1>12
  <2>3. Len(asked'[f]) # 0
    BY <1>9
  <2>4. Len(ran'[f]) = Len(asked'[f]) /\ Len(ran'[f]) <= MaxAttempts
        /\ \A i \in 1..Len(ran'[f]) : ran'[f][i].outcome \in Inputs
    BY <1>7, <1>9
  <2>5. plan' = plan
    OBVIOUS
  <2> QED BY <1>5, <1>9, <1>13, <2>1, <2>2, <2>3, <2>4, <2>5 DEF InStep
<1> QED BY <1>10, <1>11, <1>14 DEF OnTrack

LEMMA DecideOnTrack ==
  ASSUME BaseInv, NEW f \in Fibers, Decide(f), now' = now
  PROVE  OnTrack(f)'
<1> DEFINE outcome == Last(ran[f]).outcome
<1>1. /\ pc[f] = "decide" /\ UNCHANGED <<plan, cancelled, ran[f]>>
      /\ \/ /\ plan.loop \in Retries /\ pc'[f] = "done"
            /\ exit'[f] = outcome \/ exit'[f] = "interrupt"
            /\ UNCHANGED <<driver[f], number[f], repeated[f], pause[f], asked[f], told[f]>>
         \/ AskDoes(f, outcome, IF plan.loop = "repeat" THEN "output" ELSE outcome)
  BY DecideDoes DEF BaseInv
<1>2. Typed(f) /\ InPlan(f) /\ InStep(f) /\ 0 \in Fractions
  BY DEF BaseInv, Fractions
<1>3. outcome \in Inputs
  BY <1>1, <1>2, NextQuestion
<1> HIDE DEF outcome
<1>4. CASE /\ plan.loop \in Retries /\ pc'[f] = "done"
           /\ exit'[f] = outcome \/ exit'[f] = "interrupt"
           /\ UNCHANGED <<driver[f], number[f], repeated[f], pause[f], asked[f], told[f]>>
  <2>1. Typed(f)'
    <3>1. exit'[f] \in Exits
      BY <1>3, <1>4 DEF Exits
    <3> QED BY <1>1, <1>2, <1>4, <3>1 DEF Typed, Places
  <2>2. InPlan(f)'
    BY <1>1, <1>2, <1>3, <1>4 DEF InPlan, InSleep, Inputs
  <2>3. InStep(f)'
    BY <1>1, <1>4, QuietInStep DEF Recurred, InSleep
  <2> QED BY <2>1, <2>2, <2>3 DEF OnTrack
<1>5. CASE AskDoes(f, outcome, IF plan.loop = "repeat" THEN "output" ELSE outcome)
  <2>1. (IF plan.loop = "repeat" THEN "output" ELSE outcome) \in Exits \ {"turn", "LimitExceeded"}
    BY <1>3 DEF Exits, Inputs
  <2> QED BY <1>1, <1>5, <2>1, AskOnTrack DEF outcome
<1> QED BY <1>1, <1>4, <1>5

LEMMA FallbackOnTrack ==
  ASSUME BaseInv, NEW f \in Fibers, Fallback(f), now' = now
  PROVE  OnTrack(f)'
<1> DEFINE event == [kind |-> "succeeded", number |-> number[f], delay |-> 0]
<1>1. /\ pc[f] = "fallback" /\ pc'[f] = "done"
      /\ UNCHANGED <<plan, cancelled, driver[f], number[f], repeated[f], pause[f], ran[f], asked[f]>>
      /\ exit'[f] \in {"fallback", "fallbackFailed"}
      /\ told'[f] = Append(told[f], event) \/ told'[f] = told[f]
  BY FallbackDoes DEF BaseInv
<1>2. Typed(f) /\ InPlan(f)
  BY DEF BaseInv
<1>3. told[f] \in Seq(Events) /\ event \in Events
  BY <1>2 DEF Typed, Events
<1> HIDE DEF event
<1>4. told'[f] \in Seq(Events)
  BY <1>1, <1>3, AppendFacts
<1>5. pc'[f] \in Places /\ exit'[f] \in Exits
  BY <1>1 DEF Places, Exits
<1>6. Typed(f)'
  BY <1>1, <1>2, <1>4, <1>5 DEF Typed
<1>7. InPlan(f)'
  BY <1>1, <1>2 DEF InPlan, InSleep
<1>8. plan.loop \in Recurrences
  BY <1>1, <1>2 DEF InPlan, Recurrences, Retries
<1>9. InStep(f)'
  BY <1>1, <1>8, QuietInStep DEF Recurred, InSleep
<1> QED BY <1>6, <1>7, <1>9 DEF OnTrack

LEMMA AskTurnOnTrack ==
  ASSUME BaseInv, NEW f \in Fibers, AskTurn(f), now' = now
  PROVE  OnTrack(f)' /\ TurnTypes'
<1> DEFINE turn == Turn(stored, plan.allowance, plan.longest, now)
           reservation == [time |-> now, err |-> turn.err, moment |-> now + turn.wait]
<1>1. /\ pc[f] = "turn" /\ stored' = turn.stored /\ asks' = Append(asks, reservation)
      /\ UNCHANGED <<plan, cancelled, driver[f], number[f], repeated[f], asked[f], told[f]>>
      /\ \/ /\ turn.err # "none" /\ pc'[f] = "done" /\ exit'[f] = turn.err
            /\ UNCHANGED <<pause[f], ran[f]>>
         \/ /\ turn.err = "none" /\ pc'[f] = "done" /\ exit'[f] = "turn"
            /\ ran'[f] = Append(ran[f], [at |-> now, outcome |-> now]) /\ UNCHANGED pause[f]
         \/ /\ turn.err = "none" /\ pc'[f] = "sleep" /\ pause'[f] = turn.wait
            /\ ran'[f] = Append(ran[f], [at |-> -1, outcome |-> now + turn.wait]) /\ UNCHANGED exit[f]
  BY AskTurnDoes DEF BaseInv
<1>2. /\ Typed(f) /\ InPlan(f) /\ plan \in Plans /\ now \in 0..MaxTime /\ now \in Int /\ stored \in Nat
      /\ asks \in Seq(Reservations)
  BY BoundAssumption DEF BaseInv, ClockTypes, TurnTypes
<1>3. plan.loop = "turns" /\ IsStated(plan.allowance)
  BY <1>1, <1>2 DEF InPlan
<1>4. /\ turn.wait \in Nat
      /\ turn.err = "none" => turn.stored = (IF stored >= now THEN stored ELSE now) + Spacing(plan.allowance)
      /\ turn.err # "none" => turn.err = "LimitExceeded" /\ turn.stored = stored
  BY <1>3, TurnValue
<1>5. Spacing(plan.allowance) \in Nat
  BY <1>2, <1>3, SpacingType
<1> HIDE DEF turn
<1>6. TurnTypes'
  <2>1. reservation \in Reservations
    BY <1>2, <1>4 DEF Reservations
  <2>2. asks' \in Seq(Reservations)
    BY <1>1, <1>2, <2>1, AppendFacts
  <2>3. stored' \in Nat
    BY <1>1, <1>2, <1>4, <1>5
  <2> QED BY <2>2, <2>3 DEF TurnTypes
<1>7. Typed(f)'
  <2>1. [at |-> now, outcome |-> now] \in Attempts /\ [at |-> -1, outcome |-> now + turn.wait] \in Attempts
    BY <1>2, <1>4 DEF Attempts
  <2>2. ran[f] \in Seq(Attempts) /\ pause[f] \in Int /\ exit[f] \in Exits
    BY <1>2 DEF Typed
  <2>3. ran'[f] \in Seq(Attempts)
    BY <1>1, <2>1, <2>2, AppendFacts
  <2>4. pause'[f] \in Int
    BY <1>1, <1>4, <2>2
  <2>5. pc'[f] \in Places
    BY <1>1 DEF Places
  <2>6. exit'[f] \in Exits
    BY <1>1, <1>4, <2>2 DEF Exits
  <2> QED BY <1>1, <1>2, <2>3, <2>4, <2>5, <2>6 DEF Typed
<1>8. InPlan(f)'
  <2>1. pc'[f] \in {"done", "sleep"}
    BY <1>1
  <2> QED BY <1>1, <1>3, <2>1 DEF InPlan, InSleep
<1>9. InStep(f)'
  BY <1>1, <1>3, OtherInStep DEF Recurrences, Retries
<1> QED BY <1>6, <1>7, <1>8, <1>9 DEF OnTrack

\* The last turn is dated, the others are left alone.
LEMMA DatedFacts ==
  ASSUME NEW s \in Seq(Attempts), NEW t \in Int
  PROVE  LET r == [s EXCEPT ![Len(s)].at = t]
         IN  /\ r \in Seq(Attempts) /\ Len(r) = Len(s)
             /\ \A i \in 1..Len(s) : /\ r[i].outcome = s[i].outcome
                                     /\ r[i].at = IF i = Len(s) THEN t ELSE s[i].at
<1> DEFINE r == [s EXCEPT ![Len(s)].at = t]
           n == Len(s)
<1>1. n \in Nat /\ s = [i \in 1..n |-> s[i]] /\ \A i \in 1..n : s[i] \in Attempts
  OBVIOUS
<1>2. r = [i \in 1..n |-> IF i = n THEN [s[n] EXCEPT !.at = t] ELSE s[i]]
  BY <1>1
<1>3. \A i \in 1..n : /\ r[i] \in Attempts /\ r[i].outcome = s[i].outcome
                      /\ r[i].at = IF i = n THEN t ELSE s[i].at
  <2>1. ASSUME NEW e \in Attempts
        PROVE  /\ [e EXCEPT !.at = t] \in Attempts /\ [e EXCEPT !.at = t].outcome = e.outcome
               /\ [e EXCEPT !.at = t].at = t
    BY DEF Attempts
  <2> QED BY <1>1, <1>2, <2>1
<1>4. r \in Seq(Attempts) /\ Len(r) = n
  <2>1. DOMAIN r = 1..n /\ r \in [1..n -> Attempts]
    BY <1>2, <1>3
  <2> HIDE DEF r, n
  <2> QED BY <1>1, <2>1
<1> QED BY <1>3, <1>4

LEMMA ResumeOnTrack ==
  ASSUME BaseInv, NEW f \in Fibers, Resume(f), now' = now
  PROVE  OnTrack(f)'
<1>1. /\ pc[f] = "woken"
      /\ UNCHANGED <<plan, cancelled, driver[f], number[f], repeated[f], pause[f], asked[f], told[f]>>
      /\ \/ f \in cancelled /\ pc'[f] = "done" /\ exit'[f] = "interrupt" /\ UNCHANGED ran[f]
         \/ plan.loop # "turns" /\ pc'[f] = "attempt" /\ UNCHANGED <<exit[f], ran[f]>>
         \/ /\ plan.loop = "turns" /\ pc'[f] = "done" /\ exit'[f] = "turn"
            /\ ran'[f] = [ran[f] EXCEPT ![Len(ran[f])].at = now]
  BY ResumeDoes DEF BaseInv
<1>2. Typed(f) /\ InPlan(f) /\ now \in Int
  BY DEF BaseInv, ClockTypes
<1>3. ran[f] \in Seq(Attempts) /\ exit[f] \in Exits
  BY <1>2 DEF Typed
<1>4. [ran[f] EXCEPT ![Len(ran[f])].at = now] \in Seq(Attempts)
  BY <1>2, <1>3, DatedFacts
<1>5. ran'[f] \in Seq(Attempts)
  BY <1>1, <1>3, <1>4
<1>6. pc'[f] \in Places /\ exit'[f] \in Exits
  BY <1>1, <1>3 DEF Places, Exits
<1>7. Typed(f)'
  BY <1>1, <1>2, <1>5, <1>6 DEF Typed
<1>8. InPlan(f)'
  BY <1>1, <1>2 DEF InPlan, InSleep
<1>9. InStep(f)'
  <2>1. CASE plan.loop = "turns"
    BY <1>1, <2>1, OtherInStep DEF Recurrences, Retries
  <2>2. CASE plan.loop # "turns"
    BY <1>1, <2>2, QuietInStep DEF Recurred, InSleep
  <2> QED BY <2>1, <2>2
<1> QED BY <1>7, <1>8, <1>9 DEF OnTrack

\* The steps that go on without an attempt, a question or a turn.
LEMMA GoingOnOnTrack ==
  ASSUME BaseInv, NEW f \in Fibers, now' = now,
         Sleep(f) \/ Wake(f) \/ Interrupted(f) \/ AskAgain(f)
  PROVE  OnTrack(f)'
<1>1. Shaped /\ Typed(f) /\ InPlan(f)
  BY DEF BaseInv
<1>2. UNCHANGED <<plan, driver[f], number[f], repeated[f], ran[f], asked[f], told[f]>>
  BY <1>1, SleepDoes, WakeDoes, InterruptedDoes, AskAgainDoes
<1>3. /\ pause'[f] = 0 \/ pause'[f] = pause[f]
      /\ exit'[f] = exit[f] \/ exit'[f] = "interrupt" \/ exit'[f] = "none"
  BY <1>1, SleepDoes, WakeDoes, InterruptedDoes, AskAgainDoes
<1>4. \/ pc[f] \in InSleep /\ pc'[f] \in InSleep /\ exit'[f] = exit[f]
      \/ pc[f] # "idle" /\ pc'[f] = "done" /\ exit'[f] = "interrupt"
      \/ pc[f] = "done" /\ pc'[f] = "turn" /\ exit[f] \in {"turn", "LimitExceeded"} /\ exit'[f] = "none"
  <2>1. CASE Sleep(f)
    BY <1>1, <2>1, SleepDoes DEF InSleep
  <2>2. CASE Wake(f)
    BY <1>1, <2>2, WakeDoes DEF InSleep
  <2>3. CASE Interrupted(f)
    BY <1>1, <2>3, InterruptedDoes
  <2>4. CASE AskAgain(f)
    BY <1>1, <2>4, AskAgainDoes
  <2> QED BY <2>1, <2>2, <2>3, <2>4
<1>5. pc'[f] \in Places
  BY <1>4 DEF Places, InSleep
<1>6. pause'[f] \in Int /\ exit'[f] \in Exits
  <2>1. pause[f] \in Int /\ exit[f] \in Exits
    BY <1>1 DEF Typed
  <2>2. "interrupt" \in Exits /\ "none" \in Exits
    BY DEF Exits
  <2> QED BY <1>3, <2>1, <2>2
<1>7. Typed(f)'
  BY <1>1, <1>2, <1>5, <1>6 DEF Typed
<1>8. InPlan(f)'
  BY <1>1, <1>2, <1>4 DEF InPlan, InSleep
<1>9. InStep(f)'
  <2>1. pc'[f] # "idle" /\ pc'[f] # "decide" /\ pc[f] # "idle"
    BY <1>4 DEF InSleep
  <2>2. pc'[f] \in Recurred => pc[f] \in Recurred
    BY <1>4 DEF Recurred, InSleep
  <2> QED BY <1>2, <2>1, <2>2, QuietInStep
<1> QED BY <1>7, <1>8, <1>9 DEF OnTrack

\* A fiber's step is about that fiber.
LEMMA FiberStepDoes ==
  ASSUME BaseInv, NEW f \in Fibers, FiberStep(f)
  PROVE  /\ Shaped' /\ \A g \in Fibers \ {f} : UNCHANGED Here(g)
         /\ UNCHANGED <<plan, now>>
         /\ cancelled' = cancelled \/ (Cancel(f) /\ cancelled' = cancelled \cup {f})
<1>1. Shaped
  BY DEF BaseInv
<1>2. UNCHANGED <<plan, now>>
  <2>1. UNCHANGED plan /\ (Sleep(f) \/ Wake(f) \/ UNCHANGED clockVars)
    BY FiberFrame
  <2>2. Sleep(f) => now' = now
    BY <1>1, SleepDoes DEF Register, clockVars
  <2>3. Wake(f) => now' = now
    BY <1>1, WakeDoes DEF TakeReady, Unregister, clockVars
  <2> QED BY <2>1, <2>2, <2>3 DEF clockVars
<1>3. CASE Start(f)
  BY <1>1, <1>2, <1>3, StartDoes
<1>4. CASE Attempt(f)
  BY <1>1, <1>2, <1>4, AttemptDoes
<1>5. CASE Decide(f)
  BY <1>1, <1>2, <1>5, DecideDoes
<1>6. CASE Fallback(f)
  BY <1>1, <1>2, <1>6, FallbackDoes
<1>7. CASE AskTurn(f)
  BY <1>1, <1>2, <1>7, AskTurnDoes
<1>8. CASE Sleep(f)
  BY <1>1, <1>2, <1>8, SleepDoes
<1>9. CASE Wake(f)
  BY <1>1, <1>2, <1>9, WakeDoes
<1>10. CASE Resume(f)
  BY <1>1, <1>2, <1>10, ResumeDoes
<1>11. CASE Interrupted(f)
  BY <1>1, <1>2, <1>11, InterruptedDoes
<1>12. CASE AskAgain(f)
  BY <1>1, <1>2, <1>12, AskAgainDoes
<1>13. CASE Cancel(f)
  BY <1>1, <1>2, <1>13, CancelDoes
<1> QED BY <1>3, <1>4, <1>5, <1>6, <1>7, <1>8, <1>9, <1>10, <1>11, <1>12, <1>13 DEF FiberStep, Step

LEMMA BaseInit ==
  ASSUME Init
  PROVE  BaseInv
<1>1. Shaped
  <2>1. /\ pc = [f \in Fibers |-> pc[f]] /\ driver = [f \in Fibers |-> driver[f]]
        /\ number = [f \in Fibers |-> number[f]] /\ repeated = [f \in Fibers |-> repeated[f]]
    BY DEF Init
  <2>2. /\ pause = [f \in Fibers |-> pause[f]] /\ exit = [f \in Fibers |-> exit[f]]
        /\ ran = [f \in Fibers |-> ran[f]] /\ asked = [f \in Fibers |-> asked[f]]
        /\ told = [f \in Fibers |-> told[f]]
    BY DEF Init
  <2> QED BY <2>1, <2>2 DEF Shaped
<1>2. ClockTypes /\ TurnTypes /\ plan \in Plans /\ cancelled \subseteq Fibers
  <2>1. \A S : <<>> \in Seq(S)
    OBVIOUS
  <2>2. /\ now = 0 /\ sleepers = <<>> /\ due = [f \in Fibers |-> 0] /\ ready = {} /\ wanted = 0
        /\ signalled = FALSE /\ stored = 0 /\ asks = <<>> /\ plan \in Plans /\ cancelled = {}
    BY DEF Init, ClockInit
  <2>3. ClockTypes
    <3>1. now \in 0..MaxTime
      BY <2>2, BoundAssumption
    <3>2. due \in [Fibers -> Int]
      BY <2>2
    <3>3. ready \subseteq Fibers /\ wanted \in Nat /\ signalled \in BOOLEAN
      BY <2>2
    <3> QED BY <2>1, <2>2, <3>1, <3>2, <3>3 DEF ClockTypes
  <2> QED BY <2>1, <2>2, <2>3 DEF TurnTypes
<1>3. ASSUME NEW f \in Fibers PROVE OnTrack(f)
  <2>1. /\ pc[f] = "idle" /\ number[f] = 0 /\ repeated[f] = FALSE /\ pause[f] = 0 /\ exit[f] = "none"
        /\ ran[f] = <<>> /\ asked[f] = <<>> /\ told[f] = <<>>
    BY DEF Init
  <2>2. Typed(f)
    <3>1. \A S : <<>> \in Seq(S)
      OBVIOUS
    <3>2. pc[f] \in Places /\ exit[f] \in Exits /\ repeated[f] \in BOOLEAN
      BY <2>1 DEF Places, Exits
    <3> QED BY <2>1, <3>1, <3>2 DEF Typed
  <2>3. InPlan(f)
    BY <2>1 DEF InPlan, InSleep
  <2>4. InStep(f)
    BY <2>1, BoundAssumption DEF InStep, InSleep
  <2> QED BY <2>2, <2>3, <2>4 DEF OnTrack
<1> QED BY <1>1, <1>2, <1>3 DEF BaseInv, OnTrack

LEMMA BaseStep ==
  ASSUME BaseInv, [Next]_vars
  PROVE  BaseInv'
<1>1. ClockTypes' /\ now <= now' /\ now' \in Int
  BY ClockSteps DEF ClockTypes
<1>2. plan' = plan /\ plan \in Plans /\ cancelled \subseteq Fibers /\ TurnTypes
  BY PlanKept DEF BaseInv
<1>3. CASE UNCHANGED <<fiberVars, turnVars>>
  <2>1. Shaped' /\ TurnTypes' /\ cancelled' \subseteq Fibers
    BY <1>3 DEF BaseInv, Shaped, fiberVars, turnVars, TurnTypes
  <2>2. \A g \in Fibers : UNCHANGED Here(g)
    BY <1>3 DEF fiberVars, Here
  <2>3. \A g \in Fibers : OnTrack(g)'
    BY <1>1, <1>2, <2>2, Elsewhere DEF OnTrack
  <2> QED BY <1>1, <1>2, <2>1, <2>3 DEF BaseInv, OnTrack
<1>4. ASSUME NEW f \in Fibers, FiberStep(f)
      PROVE  BaseInv'
  <2>1. /\ Shaped' /\ \A g \in Fibers \ {f} : UNCHANGED Here(g)
        /\ UNCHANGED <<plan, now>>
        /\ cancelled' = cancelled \/ cancelled' = cancelled \cup {f}
    BY <1>4, FiberStepDoes
  <2>2. \A g \in Fibers \ {f} : OnTrack(g)'
    BY <1>1, <2>1, Elsewhere DEF OnTrack
  <2>3. Cancel(f) => OnTrack(f)'
    <3>1. Cancel(f) => UNCHANGED Here(f)
      BY CancelDoes DEF BaseInv
    <3> QED BY <1>1, <2>1, <3>1, Elsewhere DEF OnTrack
  <2>4. OnTrack(f)'
    BY <1>4, <2>1, <2>3, StartOnTrack, AttemptOnTrack, DecideOnTrack, FallbackOnTrack, AskTurnOnTrack,
       GoingOnOnTrack, ResumeOnTrack DEF FiberStep, Step
  <2>5. TurnTypes'
    BY <1>2, <1>4, <2>1, FiberFrame, AskTurnOnTrack DEF TurnTypes, turnVars
  <2> QED BY <1>1, <1>2, <2>1, <2>2, <2>4, <2>5 DEF BaseInv, OnTrack
<1>5. CacheStep \/ Drive \/ UNCHANGED vars => UNCHANGED <<fiberVars, turnVars>>
  BY CacheFrame, DriveFrame DEF vars
<1> QED BY <1>3, <1>4, <1>5, Steps

LEMMA ClockedBase == Spec => []BaseInv
<1>1. Init => BaseInv
  BY BaseInit
<1>2. BaseInv /\ [Next]_vars => BaseInv'
  BY BaseStep
<1> QED BY <1>1, <1>2, PTL DEF Spec
-----------------------------------------------------------------------------
(* The clock and its sleepers *)

Asleep == {"asleep", "removing"}

\* A fiber that sleeps is registered or was told to go on, and not both; nobody
\* else is either.
SleeperKnown(f) ==
    /\ f \in ToSet(sleepers) => pc[f] \in Asleep /\ due[f] > now
    /\ f \in ready => pc[f] \in Asleep /\ due[f] <= now
    /\ pc[f] \in Asleep => (f \in ready <=> f \notin ToSet(sleepers))

ClockInv == NoRepeats(sleepers) /\ (\A f \in Fibers : SleeperKnown(f)) /\ WatcherNotForgotten

LEMMA Registered ==
  ASSUME BaseInv, NEW f
  PROVE  IsRegistered(f) <=> f \in ToSet(sleepers)
<1>1. sleepers \in Seq(Fibers)
  BY DEF BaseInv, ClockTypes
<1>2. ToSet(sleepers) = {sleepers[i] : i \in 1..Len(sleepers)}
  BY <1>1, ToSetFacts
<1> QED BY <1>2 DEF IsRegistered, Contains

\* Only the clock's own operations put a fiber to sleep or wake it.
LEMMA AwakeSteps ==
  ASSUME BaseInv, NEW f \in Fibers, FiberStep(f), ~Sleep(f), ~Wake(f)
  PROVE  UNCHANGED pc[f] \/ (pc[f] \notin Asleep /\ pc'[f] \notin Asleep)
<1>1. Shaped
  BY DEF BaseInv
<1>2. CASE Start(f)
  BY <1>1, <1>2, StartDoes DEF Asleep
<1>3. CASE Attempt(f)
  BY <1>1, <1>3, AttemptDoes DEF Asleep
<1>4. CASE Decide(f)
  <2>1. pc[f] = "decide" /\ pc'[f] \in {"done", "fallback", "sleep"}
    BY <1>1, <1>4, DecideDoes DEF AskDoes
  <2> QED BY <2>1 DEF Asleep
<1>5. CASE Fallback(f)
  BY <1>1, <1>5, FallbackDoes DEF Asleep
<1>6. CASE AskTurn(f)
  <2>1. pc[f] = "turn" /\ pc'[f] \in {"done", "sleep"}
    BY <1>1, <1>6, AskTurnDoes
  <2> QED BY <2>1 DEF Asleep
<1>7. CASE Resume(f)
  BY <1>1, <1>7, ResumeDoes DEF Asleep
<1>8. CASE Interrupted(f)
  BY <1>1, <1>8, InterruptedDoes DEF Asleep
<1>9. CASE AskAgain(f)
  BY <1>1, <1>9, AskAgainDoes DEF Asleep
<1>10. CASE Cancel(f)
  BY <1>1, <1>10, CancelDoes DEF Here
<1> QED BY <1>2, <1>3, <1>4, <1>5, <1>6, <1>7, <1>8, <1>9, <1>10 DEF FiberStep, Step

LEMMA ClockInit0 ==
  ASSUME Init
  PROVE  ClockInv
<1>1. /\ sleepers = <<>> /\ ready = {} /\ wanted = 0 /\ pc = [f \in Fibers |-> "idle"]
  BY DEF Init, ClockInit
<1>2. ToSet(sleepers) = {}
  BY <1>1 DEF ToSet
<1> QED BY <1>1, <1>2 DEF ClockInv, NoRepeats, SleeperKnown, WatcherNotForgotten, Asleep

\* A sleeper is registered once, with its deadline ahead, and whoever waits for
\* sleepers is told.
LEMMA RegisterKnown ==
  ASSUME BaseInv, ClockInv, NEW f \in Fibers, pc[f] = "sleep", NEW d \in Int, d > 0, Register(f, d),
         pc'[f] = "asleep", \A g \in Fibers \ {f} : pc'[g] = pc[g]
  PROVE  ClockInv'
<1>1. /\ sleepers \in Seq(Fibers) /\ due \in [Fibers -> Int] /\ now \in Int /\ wanted \in Nat
      /\ NoRepeats(sleepers) /\ \A g \in Fibers : SleeperKnown(g)
  BY DEF BaseInv, ClockTypes, ClockInv
<1>2. /\ sleepers' = Append(sleepers, f) /\ due' = [due EXCEPT ![f] = now + d] /\ now' = now
      /\ ready' = ready /\ wanted' = wanted /\ signalled' = (wanted > 0)
  BY DEF Register, signalChange
<1>3. f \notin ToSet(sleepers) /\ f \notin ready
  BY <1>1 DEF SleeperKnown, Asleep
<1>4. NoRepeats(sleepers')
  <2>0. ToSet(sleepers) = {sleepers[i] : i \in 1..Len(sleepers)}
    BY <1>1, ToSetFacts
  <2>1. \A i \in 1..Len(sleepers) : sleepers[i] # f
    BY <1>3, <2>0
  <2> QED BY <1>1, <1>2, <2>1, NoRepeatsAppend
<1>5. ToSet(sleepers') = ToSet(sleepers) \cup {f}
  BY <1>1, <1>2, ToSetAppend
<1>6. \A g \in Fibers \ {f} : SleeperKnown(g)'
  BY <1>1, <1>2, <1>5 DEF SleeperKnown
<1>7. SleeperKnown(f)'
  <2>1. due'[f] = now + d /\ now + d > now
    BY <1>1, <1>2
  <2> QED BY <1>2, <1>3, <1>5, <2>1 DEF SleeperKnown, Asleep
<1>8. WatcherNotForgotten'
  BY <1>1, <1>2 DEF WatcherNotForgotten
<1> QED BY <1>4, <1>6, <1>7, <1>8 DEF ClockInv

LEMMA UnregisterKnown ==
  ASSUME BaseInv, ClockInv, NEW f \in Fibers, pc[f] = "removing", Unregister(f),
         pc'[f] = "woken", \A g \in Fibers \ {f} : pc'[g] = pc[g]
  PROVE  ClockInv'
<1>1. /\ sleepers \in Seq(Fibers) /\ due \in [Fibers -> Int] /\ now \in Int /\ wanted \in Nat
      /\ NoRepeats(sleepers) /\ \A g \in Fibers : SleeperKnown(g)
  BY DEF BaseInv, ClockTypes, ClockInv
<1>2. /\ sleepers' = Only(sleepers, Fibers \ {f}) /\ due' = [due EXCEPT ![f] = 0] /\ now' = now
      /\ ready' = ready /\ wanted' = wanted /\ signalled' = (wanted > 0) /\ f \in ToSet(sleepers)
  BY Registered DEF Unregister, signalChange
<1>3. f \notin ready
  BY <1>1, <1>2 DEF SleeperKnown, Asleep
<1>4. NoRepeats(sleepers') /\ ToSet(sleepers') = ToSet(sleepers) \cap (Fibers \ {f})
  BY <1>1, <1>2, OnlyFacts
<1>5. \A g \in Fibers \ {f} : SleeperKnown(g)'
  BY <1>1, <1>2, <1>4 DEF SleeperKnown
<1>6. SleeperKnown(f)'
  BY <1>2, <1>3, <1>4 DEF SleeperKnown, Asleep
<1>7. WatcherNotForgotten'
  BY <1>1, <1>2 DEF WatcherNotForgotten
<1> QED BY <1>4, <1>5, <1>6, <1>7 DEF ClockInv

LEMMA TakeReadyKnown ==
  ASSUME BaseInv, ClockInv, NEW f \in Fibers, TakeReady(f),
         pc'[f] = "woken", \A g \in Fibers \ {f} : pc'[g] = pc[g]
  PROVE  ClockInv'
<1>1. /\ due \in [Fibers -> Int] /\ now \in Int /\ wanted \in Nat
      /\ NoRepeats(sleepers) /\ \A g \in Fibers : SleeperKnown(g)
  BY DEF BaseInv, ClockTypes, ClockInv
<1>2. /\ sleepers' = sleepers /\ due' = [due EXCEPT ![f] = 0] /\ now' = now
      /\ ready' = ready \ {f} /\ wanted' = wanted /\ signalled' = signalled /\ f \in ready
  BY DEF TakeReady
<1>3. f \notin ToSet(sleepers)
  BY <1>1, <1>2 DEF SleeperKnown
<1>4. \A g \in Fibers \ {f} : SleeperKnown(g)'
  BY <1>1, <1>2 DEF SleeperKnown
<1>5. SleeperKnown(f)'
  BY <1>2, <1>3 DEF SleeperKnown, Asleep
<1>6. WatcherNotForgotten'
  BY <1>2 DEF WatcherNotForgotten, ClockInv
<1> QED BY <1>1, <1>2, <1>4, <1>5, <1>6 DEF ClockInv

\* Whoever is due goes from the list to the ready, at its deadline at the earliest.
LEMMA AdvanceKnown ==
  ASSUME BaseInv, ClockInv, NEW d \in 1..MaxTime, Advance(d), UNCHANGED pc
  PROVE  ClockInv'
<1>1. /\ sleepers \in Seq(Fibers) /\ due \in [Fibers -> Int] /\ now \in Int /\ wanted \in Nat /\ d \in Nat
      /\ NoRepeats(sleepers) /\ \A g \in Fibers : SleeperKnown(g)
  BY BoundAssumption DEF BaseInv, ClockTypes, ClockInv
<1>2. /\ wanted = 0 /\ now' = now + d /\ due' = due /\ wanted' = wanted
      /\ sleepers' = Only(sleepers, {f \in Fibers : ~(due[f] <= now + d)})
      /\ ready' = ready \cup {f \in ToSet(sleepers) : due[f] <= now + d}
  BY DEF Advance, IsDue
<1>3. /\ NoRepeats(sleepers')
      /\ ToSet(sleepers') = ToSet(sleepers) \cap {f \in Fibers : ~(due[f] <= now + d)}
  BY <1>1, <1>2, OnlyFacts
<1>4. ASSUME NEW g \in Fibers PROVE SleeperKnown(g)'
  <2>1. SleeperKnown(g) /\ due[g] \in Int /\ due'[g] = due[g] /\ pc'[g] = pc[g]
    BY <1>1, <1>2
  <2>2. g \in ToSet(sleepers') <=> g \in ToSet(sleepers) /\ ~(due[g] <= now + d)
    BY <1>3
  <2>3. g \in ready' <=> g \in ready \/ (g \in ToSet(sleepers) /\ due[g] <= now + d)
    BY <1>2
  <2>4. ~(due[g] <= now + d) => due[g] > now'
    BY <1>1, <1>2, <2>1
  <2>5. due[g] <= now => due[g] <= now'
    BY <1>1, <1>2, <2>1
  <2> QED BY <1>2, <2>1, <2>2, <2>3, <2>4, <2>5 DEF SleeperKnown
<1>5. WatcherNotForgotten'
  BY <1>2 DEF WatcherNotForgotten
<1> QED BY <1>3, <1>4, <1>5 DEF ClockInv

LEMMA WaitingKnown ==
  ASSUME BaseInv, ClockInv, UNCHANGED pc, GiveUp \/ \E n \in Nat : CheckPending(n)
  PROVE  ClockInv'
<1>1. UNCHANGED <<now, sleepers, due, ready>>
  BY DEF GiveUp, CheckPending
<1>2. sleepers \in Seq(Fibers) /\ Len(sleepers) \in Nat
  BY DEF BaseInv, ClockTypes
<1>3. \A f \in Fibers : SleeperKnown(f)'
  BY <1>1 DEF ClockInv, SleeperKnown
<1>4. WatcherNotForgotten'
  <2>1. CASE GiveUp
    BY <2>1 DEF GiveUp, WatcherNotForgotten
  <2>2. ASSUME NEW n \in Nat, CheckPending(n) PROVE WatcherNotForgotten'
    BY <1>2, <2>2 DEF CheckPending, WatcherNotForgotten
  <2> QED BY <2>1, <2>2
<1> QED BY <1>1, <1>3, <1>4 DEF ClockInv

LEMMA ClockStep ==
  ASSUME BaseInv, ClockInv, [Next]_vars
  PROVE  ClockInv'
<1>1. CASE UNCHANGED <<clockVars, pc>>
  BY <1>1 DEF clockVars, ClockInv, SleeperKnown, WatcherNotForgotten
<1>2. ASSUME NEW f \in Fibers, FiberStep(f) PROVE ClockInv'
  <2>1. Shaped /\ (\A g \in Fibers \ {f} : UNCHANGED Here(g)) /\ pause[f] \in Int
    BY <1>2, FiberStepDoes DEF BaseInv, Typed
  <2>2. \A g \in Fibers \ {f} : pc'[g] = pc[g]
    BY <2>1 DEF Here
  <2>3. CASE UNCHANGED clockVars /\ (UNCHANGED pc[f] \/ (pc[f] \notin Asleep /\ pc'[f] \notin Asleep)
                                       \/ (pc[f] \in Asleep /\ pc'[f] \in Asleep))
    <3>1. ASSUME NEW g \in Fibers PROVE SleeperKnown(g)'
      <4>1. SleeperKnown(g)
        BY DEF ClockInv
      <4>2. pc'[g] \in Asleep <=> pc[g] \in Asleep
        BY <2>2, <2>3
      <4> QED BY <2>3, <4>1, <4>2 DEF SleeperKnown, clockVars
    <3> QED BY <2>3, <3>1 DEF ClockInv, WatcherNotForgotten, clockVars
  <2>4. CASE Sleep(f)
    <3>1. /\ pc[f] = "sleep"
          /\ \/ pc'[f] = "woken" /\ UNCHANGED clockVars
             \/ pause[f] > 0 /\ pc'[f] = "asleep" /\ Register(f, pause[f])
      BY <2>1, <2>4, SleepDoes
    <3>2. CASE pc'[f] = "woken" /\ UNCHANGED clockVars
      BY <2>3, <3>1, <3>2 DEF Asleep
    <3>3. CASE pause[f] > 0 /\ pc'[f] = "asleep" /\ Register(f, pause[f])
      <4>1. PICK d \in Int : d = pause[f]
        BY <2>1
      <4> QED BY <2>2, <3>1, <3>3, <4>1, RegisterKnown
    <3> QED BY <3>1, <3>2, <3>3
  <2>5. CASE Wake(f)
    <3>1. \/ pc[f] = "asleep" /\ pc'[f] = "removing" /\ UNCHANGED clockVars
          \/ pc[f] = "removing" /\ Unregister(f) /\ pc'[f] = "woken"
          \/ TakeReady(f) /\ pc'[f] = "woken"
      BY <2>1, <2>5, WakeDoes
    <3>2. CASE pc[f] = "asleep" /\ pc'[f] = "removing" /\ UNCHANGED clockVars
      BY <2>3, <3>2 DEF Asleep
    <3> QED BY <2>2, <3>1, <3>2, UnregisterKnown, TakeReadyKnown
  <2>6. CASE ~Sleep(f) /\ ~Wake(f)
    BY <1>2, <2>3, <2>6, AwakeSteps, FiberFrame
  <2> QED BY <2>4, <2>5, <2>6
<1>3. CASE Drive
  <2>1. UNCHANGED pc /\ \A n \in plan.counts : n \in Nat
    BY <1>3, DriveFrame, PlanAssumption DEF fiberVars, BaseInv
  <2>2. wanted \in Nat
    BY DEF BaseInv, ClockTypes
  <2>3. \/ \E d \in 1..MaxTime : Advance(d)
        \/ GiveUp \/ \E n \in Nat : CheckPending(n)
    BY <1>3, <2>1, <2>2 DEF Drive, WaitForPending, Recheck
  <2> QED BY <2>1, <2>3, AdvanceKnown, WaitingKnown
<1>4. CacheStep \/ UNCHANGED vars => UNCHANGED <<clockVars, pc>>
  BY CacheFrame DEF vars, fiberVars
<1> QED BY <1>1, <1>2, <1>3, <1>4, Steps

\* The manual clock registers exactly the sleepers that have to wait, and never
\* leaves whoever waits for sleepers behind, whatever the order of sleeping,
\* cancelling and advancing (ManualClock.Sleep, remove, Advance, WaitForPending).
THEOREM ClockedKeepsTrack == Spec => []ClockKeepsTrack
<1>1. Init => ClockInv
  BY ClockInit0
<1>2. BaseInv /\ ClockInv /\ [Next]_vars => ClockInv'
  BY ClockStep
<1>3. BaseInv /\ ClockInv => ClockKeepsTrack
  <2>1. SUFFICES ASSUME BaseInv, ClockInv PROVE PendingExact /\ WatcherNotForgotten
    BY DEF ClockKeepsTrack
  <2>2. sleepers \in Seq(Fibers) /\ DOMAIN sleepers = 1..Len(sleepers)
    BY <2>1 DEF BaseInv, ClockTypes
  <2>3. IsInjective(sleepers)
    BY <2>1, <2>2 DEF ClockInv, NoRepeats, IsInjective
  <2>4. ASSUME NEW f \in Fibers
        PROVE  /\ IsRegistered(f) => pc[f] \in {"asleep", "removing"} /\ due[f] > now
               /\ pc[f] \in {"asleep", "removing"} =>
                     (f \in ready) = ~IsRegistered(f) /\ (f \in ready => due[f] <= now)
    <3>1. SleeperKnown(f) /\ (IsRegistered(f) <=> f \in ToSet(sleepers))
      BY <2>1, Registered DEF ClockInv
    <3> QED BY <3>1 DEF SleeperKnown, Asleep
  <2> QED BY <2>1, <2>3, <2>4 DEF PendingExact, ClockInv
<1> QED BY <1>1, <1>2, <1>3, ClockedBase, PTL DEF Spec
-----------------------------------------------------------------------------
(* Nobody goes on before its time *)

\* The moment a fiber sleeps for: that of its turn, or of its next attempt.
Moment(f) ==
    IF plan.loop = "turns" THEN Last(ran[f]).outcome
    ELSE Last(asked[f]).time + Last(asked[f]).decision.delay

SleepsUntil(f, t) ==
    /\ pc[f] = "sleep" => now + pause[f] >= t
    /\ pc[f] \in Asleep => due[f] >= t
    /\ pc[f] = "woken" => f \in cancelled \/ now >= t

\* Whoever sleeps sleeps for its moment, whoever attempts again does so after it,
\* and what was done was done in time.
Timely(f) ==
    /\ pc[f] = "removing" => f \in cancelled
    /\ plan.loop \in Recurrences =>
          /\ pc[f] \in InSleep => asked[f] # <<>>
          /\ pc[f] = "attempt" /\ asked[f] # <<>> => now >= Moment(f)
          /\ \A i \in 1..Len(asked[f]) :
                i + 1 <= Len(ran[f]) => ran[f][i + 1].at >= asked[f][i].time + asked[f][i].decision.delay
    /\ plan.loop = "turns" =>
          /\ pc[f] \in InSleep => ran[f] # <<>>
          /\ \A i \in 1..Len(ran[f]) :
                ran[f][i].outcome \in Int /\ (ran[f][i].at # -1 => ran[f][i].at >= ran[f][i].outcome)
    /\ pc[f] \in InSleep /\ plan.loop # "delay" => SleepsUntil(f, Moment(f))

TimeInv == \A f \in Fibers : Timely(f)

LEMMA AskingTypes ==
  ASSUME NEW a \in Askings
  PROVE  a.time \in Nat /\ a.decision.delay \in Nat /\ a.decision.continues \in BOOLEAN
<1>1. a.time \in 0..MaxTime /\ a.decision \in Decisions
  BY DEF Askings
<1>2. PICK q \in Questions : a.decision = Answer(q).decision
  BY <1>1 DEF Decisions
<1>3. Answer(q).decision.delay \in Nat /\ Answer(q).decision.continues \in BOOLEAN
  BY DriverAssumption
<1> QED BY <1>1, <1>2, <1>3, BoundAssumption

LEMMA LastFacts ==
  ASSUME NEW S, NEW s \in Seq(S), s # <<>>
  PROVE  Len(s) \in Nat /\ Len(s) \in 1..Len(s) /\ Last(s) = s[Len(s)] /\ Last(s) \in S
BY DEF Last

LEMMA MomentType ==
  ASSUME BaseInv, NEW f \in Fibers, Timely(f),
         \/ plan.loop \in Recurrences /\ asked[f] # <<>>
         \/ plan.loop = "turns" /\ ran[f] # <<>>
  PROVE  Moment(f) \in Int
<1>1. ran[f] \in Seq(Attempts) /\ asked[f] \in Seq(Askings)
  BY DEF BaseInv, Typed
<1>2. CASE plan.loop = "turns"
  <2>1. plan.loop \notin Recurrences
    BY <1>2 DEF Recurrences, Retries
  <2>2. ran[f] # <<>> /\ Last(ran[f]) = ran[f][Len(ran[f])] /\ Len(ran[f]) \in 1..Len(ran[f])
    BY <1>1, <2>1, LastFacts
  <2> QED BY <1>2, <2>2 DEF Timely, Moment
<1>3. CASE plan.loop # "turns"
  <2>1. Last(asked[f]) \in Askings
    BY <1>1, <1>3, LastFacts
  <2>2. Last(asked[f]).time \in Nat /\ Last(asked[f]).decision.delay \in Nat
    BY <2>1, AskingTypes
  <2> QED BY <1>3, <2>2 DEF Moment
<1> QED BY <1>2, <1>3

LEMMA MomentKept ==
  ASSUME NEW f, UNCHANGED <<plan, ran[f], asked[f]>>
  PROVE  Moment(f)' = Moment(f)
BY DEF Moment

\* Time passing changes nothing for whoever is not told of it.
LEMMA TimelyElsewhere ==
  ASSUME BaseInv, NEW g \in Fibers, Timely(g), UNCHANGED <<plan, Here(g)>>, UNCHANGED due[g],
         now <= now', now' \in Int, cancelled \subseteq cancelled'
  PROVE  Timely(g)'
<1>1. /\ plan' = plan /\ pc'[g] = pc[g] /\ pause'[g] = pause[g] /\ ran'[g] = ran[g] /\ asked'[g] = asked[g]
  BY DEF Here
<1>2. now \in Int /\ pause[g] \in Int
  BY DEF BaseInv, ClockTypes, Typed
<1>3. Moment(g)' = Moment(g)
  BY <1>1, MomentKept
<1>4. /\ plan.loop \in Recurrences /\ asked[g] # <<>> => Moment(g) \in Int
      /\ plan.loop = "turns" /\ ran[g] # <<>> => Moment(g) \in Int
  BY MomentType
<1>5. plan.loop \in Recurrences /\ pc[g] = "attempt" /\ asked[g] # <<>> => now' >= Moment(g)
  BY <1>2, <1>4 DEF Timely
<1>6. pc[g] \in InSleep /\ plan.loop # "delay" => SleepsUntil(g, Moment(g))'
  <2>1. SUFFICES ASSUME pc[g] \in InSleep, plan.loop # "delay" PROVE SleepsUntil(g, Moment(g))'
    OBVIOUS
  <2>2. Moment(g) \in Int
    BY <1>4, <2>1 DEF BaseInv, InPlan, Timely
  <2>3. SleepsUntil(g, Moment(g))
    BY <2>1 DEF Timely
  <2>4. PICK t \in Int : t = Moment(g)
    BY <2>2
  <2>5. pc[g] = "sleep" => now' + pause[g] >= t
    BY <1>2, <2>3, <2>4 DEF SleepsUntil
  <2>6. pc[g] = "woken" => g \in cancelled' \/ now' >= t
    BY <1>2, <2>3, <2>4 DEF SleepsUntil
  <2>7. pc[g] \in Asleep => due[g] >= t
    BY <2>3, <2>4 DEF SleepsUntil
  <2> QED BY <1>1, <1>3, <2>4, <2>5, <2>6, <2>7 DEF SleepsUntil
<1>7. /\ pc[g] = "removing" => g \in cancelled'
      /\ plan.loop \in Recurrences =>
            /\ pc[g] \in InSleep => asked[g] # <<>>
            /\ \A i \in 1..Len(asked[g]) :
                  i + 1 <= Len(ran[g]) => ran[g][i + 1].at >= asked[g][i].time + asked[g][i].decision.delay
      /\ plan.loop = "turns" =>
            /\ pc[g] \in InSleep => ran[g] # <<>>
            /\ \A i \in 1..Len(ran[g]) :
                  ran[g][i].outcome \in Int /\ (ran[g][i].at # -1 => ran[g][i].at >= ran[g][i].outcome)
  BY DEF Timely
<1> QED BY <1>1, <1>3, <1>5, <1>6, <1>7 DEF Timely

\* A step that ends nowhere near a sleep, and attempts nothing.
LEMMA QuietTimely ==
  ASSUME BaseInv, NEW f \in Fibers, Timely(f), UNCHANGED <<plan, ran[f], asked[f]>>,
         pc'[f] \notin InSleep \cup {"attempt"}
  PROVE  Timely(f)'
<1>1. pc'[f] # "removing" /\ pc'[f] # "attempt" /\ pc'[f] \notin InSleep
  BY DEF InSleep
<1> QED BY <1>1 DEF Timely

LEMMA StartTimely ==
  ASSUME BaseInv, NEW f \in Fibers, Timely(f), Start(f)
  PROVE  Timely(f)'
<1>1. /\ pc[f] = "idle" /\ UNCHANGED <<plan, ran[f], asked[f]>>
      /\ \/ plan.loop \in Recurrences /\ pc'[f] = "attempt"
         \/ plan.loop = "turns" /\ pc'[f] \in {"turn", "done"}
         \/ plan.loop = "delay" /\ pc'[f] = "sleep"
  BY StartDoes DEF BaseInv
<1>2. CASE plan.loop \in Recurrences /\ pc'[f] = "attempt"
  <2>1. asked[f] = <<>> /\ plan.loop # "turns"
    BY <1>1, <1>2 DEF BaseInv, InStep, Recurrences, Retries
  <2> QED BY <1>1, <1>2, <2>1 DEF Timely, InSleep
<1>3. CASE plan.loop = "turns" /\ pc'[f] \in {"turn", "done"}
  BY <1>1, <1>3, QuietTimely DEF InSleep
<1>4. CASE plan.loop = "delay" /\ pc'[f] = "sleep"
  BY <1>1, <1>4 DEF Timely, Recurrences, Retries
<1> QED BY <1>1, <1>2, <1>3, <1>4

\* The next attempt comes after the delay decided for it.
LEMMA AttemptTimely ==
  ASSUME BaseInv, NEW f \in Fibers, Timely(f), Attempt(f), now' = now
  PROVE  Timely(f)'
<1>1. PICK o \in Outcomes : ran'[f] = Append(ran[f], [at |-> now, outcome |-> o])
  BY AttemptDoes DEF BaseInv
<1>2. pc[f] = "attempt" /\ pc'[f] \in {"decide", "done"} /\ UNCHANGED <<plan, asked[f]>>
  BY AttemptDoes DEF BaseInv
<1>3. /\ plan.loop \in Recurrences \cup {"delay"} /\ plan.loop # "turns" /\ now \in Int
      /\ ran[f] \in Seq(Attempts) /\ asked[f] \in Seq(Askings) /\ o \in Inputs
  BY <1>2, OutcomeTypes DEF BaseInv, ClockTypes, InPlan, Typed, Recurrences, Retries
<1>4. [at |-> now, outcome |-> o] \in Attempts
  BY <1>3 DEF Attempts
<1>5. pc'[f] # "removing" /\ pc'[f] # "attempt" /\ pc'[f] \notin InSleep
  BY <1>2 DEF InSleep
<1>6. ASSUME plan.loop \in Recurrences, NEW i \in 1..Len(asked[f]), i + 1 <= Len(ran'[f])
      PROVE  ran'[f][i + 1].at >= asked[f][i].time + asked[f][i].decision.delay
  <2>1. Len(ran[f]) = Len(asked[f])
    BY <1>2, <1>6 DEF BaseInv, InStep
  <2>2. /\ Len(ran'[f]) = Len(ran[f]) + 1 /\ Len(ran[f]) \in Nat
        /\ \A j \in 1..Len(ran[f]) : ran'[f][j] = ran[f][j]
        /\ ran'[f][Len(ran[f]) + 1].at = now
    BY <1>1, <1>3, <1>4, AppendFacts
  <2>3. CASE i = Len(asked[f])
    <3>1. asked[f] # <<>> /\ Last(asked[f]) = asked[f][i]
      BY <1>3, <2>3 DEF Last
    <3>2. now >= Moment(f) /\ Moment(f) = asked[f][i].time + asked[f][i].decision.delay
      BY <1>2, <1>3, <1>6, <3>1 DEF Timely, Moment
    <3> QED BY <2>1, <2>2, <2>3, <3>2
  <2>4. CASE i # Len(asked[f])
    <3>1. i + 1 \in 1..Len(ran[f])
      BY <2>1, <2>2, <2>4
    <3>2. ran'[f][i + 1] = ran[f][i + 1] /\ i + 1 <= Len(ran[f])
      BY <2>2, <3>1
    <3> QED BY <1>6, <3>2 DEF Timely
  <2> QED BY <2>3, <2>4
<1> QED BY <1>2, <1>3, <1>5, <1>6 DEF Timely

LEMMA DecideTimely ==
  ASSUME BaseInv, NEW f \in Fibers, Timely(f), Decide(f), now' = now
  PROVE  Timely(f)'
<1> DEFINE input == Last(ran[f]).outcome
<1>1. /\ pc[f] = "decide" /\ UNCHANGED <<plan, ran[f]>>
      /\ \/ pc'[f] = "done" /\ UNCHANGED asked[f]
         \/ AskDoes(f, input, IF plan.loop = "repeat" THEN "output" ELSE input)
  BY DecideDoes DEF BaseInv
<1>2. CASE pc'[f] = "done" /\ UNCHANGED asked[f]
  BY <1>1, <1>2, QuietTimely DEF InSleep
<1>3. CASE AskDoes(f, input, IF plan.loop = "repeat" THEN "output" ELSE input)
  <2>1. PICK fraction \in Fractions :
          LET step == DriverStep(driver[f], now, input, fraction)
          IN  /\ asked'[f] = Append(asked[f],
                     [time |-> now, input |-> input, fraction |-> fraction, decision |-> step.decision])
              /\ \/ pc'[f] \in {"fallback", "done"}
                 \/ pause'[f] = step.decision.delay /\ pc'[f] = "sleep"
    BY <1>3 DEF AskDoes
  <2> DEFINE decision == DriverStep(driver[f], now, input, fraction).decision
             asking == [time |-> now, input |-> input, fraction |-> fraction, decision |-> decision]
  <2>2. /\ asked'[f] = Append(asked[f], asking)
        /\ pc'[f] \in {"fallback", "done"} \/ (pause'[f] = decision.delay /\ pc'[f] = "sleep")
    BY <2>1
  <2>3. /\ plan.loop \in Recurrences /\ plan.loop # "turns" /\ now \in 0..MaxTime /\ now \in Nat
        /\ ran[f] \in Seq(Attempts) /\ asked[f] \in Seq(Askings) /\ Len(ran[f]) = Len(asked[f]) + 1
    BY <1>1, BoundAssumption DEF BaseInv, ClockTypes, InPlan, InStep, Typed, Recurrences, Retries
  <2>4. input \in Inputs /\ decision \in Decisions /\ decision.delay \in Nat
    BY <1>1, NextQuestion
  <2> HIDE DEF decision, input
  <2>5. asking \in Askings
    BY <2>3, <2>4 DEF Askings
  <2>6. asking.time = now /\ asking.decision = decision
    OBVIOUS
  <2> HIDE DEF asking
  <2>7. /\ Len(asked'[f]) = Len(asked[f]) + 1 /\ Len(asked[f]) \in Nat
        /\ \A j \in 1..Len(asked[f]) : asked'[f][j] = asked[f][j]
        /\ asked'[f] # <<>> /\ Last(asked'[f]) = asking
    BY <2>2, <2>3, <2>5, AppendFacts
  <2>8. ASSUME NEW i \in 1..Len(asked'[f]), i + 1 <= Len(ran[f])
        PROVE  ran[f][i + 1].at >= asked'[f][i].time + asked'[f][i].decision.delay
    <3>1. i \in 1..Len(asked[f])
      BY <2>3, <2>7, <2>8
    <3>2. asked'[f][i] = asked[f][i]
      BY <2>7, <3>1
    <3> QED BY <2>3, <2>8, <3>1, <3>2 DEF Timely
  <2>9. Moment(f)' = now + decision.delay
    BY <1>1, <2>3, <2>6, <2>7 DEF Moment
  <2>10. pc'[f] \in InSleep => SleepsUntil(f, Moment(f))'
    <3>1. SUFFICES ASSUME pc'[f] \in InSleep PROVE SleepsUntil(f, Moment(f))'
      OBVIOUS
    <3>2. pc'[f] = "sleep" /\ pause'[f] = decision.delay
      BY <2>2, <3>1 DEF InSleep
    <3>3. now + decision.delay >= now + decision.delay
      BY <2>3, <2>4
    <3> QED BY <2>9, <3>2, <3>3 DEF SleepsUntil, Asleep
  <2>11. pc'[f] # "removing" /\ pc'[f] # "attempt"
    BY <2>2
  <2> QED BY <1>1, <2>3, <2>7, <2>8, <2>10, <2>11 DEF Timely
<1> QED BY <1>1, <1>2, <1>3

LEMMA AskTurnTimely ==
  ASSUME BaseInv, NEW f \in Fibers, Timely(f), AskTurn(f), now' = now
  PROVE  Timely(f)'
<1> DEFINE turn == Turn(stored, plan.allowance, plan.longest, now)
<1>1. /\ pc[f] = "turn" /\ UNCHANGED <<plan, asked[f]>>
      /\ \/ pc'[f] = "done" /\ UNCHANGED ran[f]
         \/ pc'[f] = "done" /\ ran'[f] = Append(ran[f], [at |-> now, outcome |-> now])
         \/ /\ pc'[f] = "sleep" /\ pause'[f] = turn.wait
            /\ ran'[f] = Append(ran[f], [at |-> -1, outcome |-> now + turn.wait])
  BY AskTurnDoes DEF BaseInv
<1>2. plan.loop = "turns" /\ IsStated(plan.allowance) /\ now \in Nat /\ ran[f] \in Seq(Attempts)
  BY <1>1 DEF BaseInv, InPlan, ClockTypes, Typed
<1>3. turn.wait \in Nat
  BY <1>2, TurnValue
<1>4. plan.loop \notin Recurrences /\ plan.loop # "delay"
  BY <1>2 DEF Recurrences, Retries
<1> HIDE DEF turn
<1>5. ASSUME NEW e \in Attempts, e.outcome \in Int, e.at = -1 \/ e.at >= e.outcome,
             ran'[f] = Append(ran[f], e)
      PROVE  /\ ran'[f] # <<>> /\ Last(ran'[f]) = e
             /\ \A i \in 1..Len(ran'[f]) : /\ ran'[f][i].outcome \in Int
                                           /\ ran'[f][i].at # -1 => ran'[f][i].at >= ran'[f][i].outcome
  <2>1. /\ Len(ran'[f]) = Len(ran[f]) + 1 /\ Len(ran[f]) \in Nat
        /\ \A j \in 1..Len(ran[f]) : ran'[f][j] = ran[f][j]
        /\ ran'[f][Len(ran[f]) + 1] = e /\ ran'[f] # <<>> /\ Last(ran'[f]) = e
    BY <1>2, <1>5, AppendFacts
  <2>2. \A j \in 1..Len(ran[f]) : /\ ran[f][j].outcome \in Int
                                  /\ ran[f][j].at # -1 => ran[f][j].at >= ran[f][j].outcome
    BY <1>2 DEF Timely
  <2>3. \A i \in 1..Len(ran'[f]) : i \in 1..Len(ran[f]) \/ i = Len(ran[f]) + 1
    BY <2>1
  <2> QED BY <1>5, <2>1, <2>2, <2>3
<1>6. CASE pc'[f] = "done" /\ UNCHANGED ran[f]
  BY <1>1, <1>6, QuietTimely DEF InSleep
<1>7. CASE pc'[f] = "done" /\ ran'[f] = Append(ran[f], [at |-> now, outcome |-> now])
  <2> DEFINE e == [at |-> now, outcome |-> now]
  <2>1. e \in Attempts /\ e.outcome \in Int /\ e.at >= e.outcome
    BY <1>2 DEF Attempts
  <2> HIDE DEF e
  <2>2. ran'[f] = Append(ran[f], e)
    BY <1>7 DEF e
  <2> QED BY <1>1, <1>2, <1>4, <1>5, <1>7, <2>1, <2>2 DEF Timely, InSleep
<1>8. CASE /\ pc'[f] = "sleep" /\ pause'[f] = turn.wait
           /\ ran'[f] = Append(ran[f], [at |-> -1, outcome |-> now + turn.wait])
  <2> DEFINE e == [at |-> -1, outcome |-> now + turn.wait]
  <2>1. e \in Attempts /\ e.outcome \in Int /\ e.at = -1 /\ e.outcome = now + turn.wait
    BY <1>2, <1>3 DEF Attempts
  <2> HIDE DEF e
  <2>2. ran'[f] = Append(ran[f], e)
    BY <1>8 DEF e
  <2>3. Last(ran'[f]) = e /\ ran'[f] # <<>>
    BY <1>5, <2>1, <2>2
  <2>4. Moment(f)' = now + turn.wait
    BY <1>1, <1>2, <2>1, <2>3 DEF Moment
  <2>5. SleepsUntil(f, Moment(f))'
    <3>1. now + turn.wait >= now + turn.wait
      BY <1>2, <1>3
    <3> QED BY <1>8, <2>4, <3>1 DEF SleepsUntil, Asleep
  <2> QED BY <1>1, <1>2, <1>4, <1>5, <1>8, <2>1, <2>2, <2>3, <2>5 DEF Timely
<1> QED BY <1>1, <1>6, <1>7, <1>8

LEMMA SleepTimely ==
  ASSUME BaseInv, NEW f \in Fibers, Timely(f), Sleep(f), now' = now
  PROVE  Timely(f)'
<1>1. /\ pc[f] = "sleep" /\ UNCHANGED <<plan, cancelled, ran[f], asked[f]>>
      /\ \/ pause[f] <= 0 /\ pc'[f] = "woken"
         \/ pause[f] > 0 /\ pc'[f] = "asleep" /\ Register(f, pause[f])
  BY SleepDoes DEF BaseInv
<1>2. pc[f] \in InSleep /\ pc'[f] \in InSleep /\ pc'[f] # "removing" /\ pc'[f] # "attempt" /\ pc'[f] # "sleep"
  BY <1>1 DEF InSleep
<1>3. Register(f, pause[f]) => due'[f] = now + pause[f]
  BY DEF Register, BaseInv, ClockTypes
<1>4. plan.loop # "delay" => SleepsUntil(f, Moment(f))'
  <2>1. SUFFICES ASSUME plan.loop # "delay" PROVE SleepsUntil(f, Moment(f))'
    OBVIOUS
  <2>2. PICK t \in Int : t = Moment(f)
    BY <1>2, <2>1, MomentType DEF BaseInv, InPlan, Timely
  <2>3. now + pause[f] >= t /\ now \in Int /\ pause[f] \in Int
    BY <1>1, <1>2, <2>1, <2>2 DEF Timely, SleepsUntil, BaseInv, ClockTypes, Typed
  <2>4. pc'[f] = "woken" => now >= t
    BY <1>1, <2>3
  <2>5. pc'[f] \in Asleep => due'[f] >= t
    BY <1>1, <1>3, <2>3 DEF Asleep
  <2>6. Moment(f)' = t
    BY <1>1, <2>2, MomentKept
  <2> QED BY <1>2, <2>4, <2>5, <2>6 DEF SleepsUntil
<1> QED BY <1>1, <1>2, <1>4 DEF Timely

LEMMA WakeTimely ==
  ASSUME BaseInv, ClockInv, NEW f \in Fibers, Timely(f), Wake(f), now' = now
  PROVE  Timely(f)'
<1>1. /\ pc[f] \in Asleep /\ pc'[f] \in {"woken", "removing"} /\ UNCHANGED <<plan, cancelled, ran[f], asked[f]>>
      /\ pc'[f] = "removing" => f \in cancelled /\ UNCHANGED clockVars
      /\ pc'[f] = "woken" => TakeReady(f) \/ pc[f] = "removing"
  BY WakeDoes DEF BaseInv, Asleep
<1>2. pc[f] \in InSleep /\ pc'[f] \in InSleep /\ pc'[f] # "attempt" /\ pc'[f] # "sleep"
  BY <1>1 DEF InSleep, Asleep
<1>3. pc'[f] = "woken" => f \in cancelled \/ due[f] <= now
  <2>1. TakeReady(f) => due[f] <= now
    BY DEF ClockInv, SleeperKnown, TakeReady
  <2> QED BY <1>1, <2>1 DEF Timely
<1>4. plan.loop # "delay" => SleepsUntil(f, Moment(f))'
  <2>1. SUFFICES ASSUME plan.loop # "delay" PROVE SleepsUntil(f, Moment(f))'
    OBVIOUS
  <2>2. PICK t \in Int : t = Moment(f)
    BY <1>2, <2>1, MomentType DEF BaseInv, InPlan, Timely
  <2>3. due[f] >= t /\ now \in Int /\ due[f] \in Int
    BY <1>1, <1>2, <2>1, <2>2 DEF Timely, SleepsUntil, BaseInv, ClockTypes
  <2>4. pc'[f] = "woken" => f \in cancelled \/ now >= t
    BY <1>3, <2>3
  <2>5. pc'[f] \in Asleep => due'[f] >= t
    BY <1>1, <2>3 DEF Asleep, clockVars
  <2>6. Moment(f)' = t
    BY <1>1, <2>2, MomentKept
  <2> QED BY <1>1, <1>2, <2>4, <2>5, <2>6 DEF SleepsUntil
<1> QED BY <1>1, <1>2, <1>4 DEF Timely

LEMMA ResumeTimely ==
  ASSUME BaseInv, NEW f \in Fibers, Timely(f), Resume(f), now' = now
  PROVE  Timely(f)'
<1>1. /\ pc[f] = "woken" /\ UNCHANGED <<plan, cancelled, asked[f]>>
      /\ \/ pc'[f] = "done" /\ UNCHANGED ran[f]
         \/ f \notin cancelled /\ plan.loop # "turns" /\ pc'[f] = "attempt" /\ UNCHANGED ran[f]
         \/ /\ f \notin cancelled /\ plan.loop = "turns" /\ pc'[f] = "done"
            /\ ran'[f] = [ran[f] EXCEPT ![Len(ran[f])].at = now]
  BY ResumeDoes DEF BaseInv
<1>2. pc[f] \in InSleep /\ now \in Int /\ ran[f] \in Seq(Attempts)
  BY <1>1 DEF InSleep, BaseInv, ClockTypes, Typed
<1>3. f \notin cancelled /\ plan.loop # "delay" => now >= Moment(f)
  BY <1>1, <1>2 DEF Timely, SleepsUntil
<1>4. CASE pc'[f] = "done" /\ UNCHANGED ran[f]
  BY <1>1, <1>4, QuietTimely DEF InSleep
<1>5. CASE f \notin cancelled /\ plan.loop # "turns" /\ pc'[f] = "attempt" /\ UNCHANGED ran[f]
  <2>1. Moment(f)' = Moment(f)
    BY <1>1, <1>5, MomentKept
  <2>2. plan.loop \in Recurrences => plan.loop # "delay"
    BY DEF Recurrences, Retries
  <2> QED BY <1>1, <1>3, <1>5, <2>1, <2>2 DEF Timely, InSleep
<1>6. CASE /\ f \notin cancelled /\ plan.loop = "turns" /\ pc'[f] = "done"
           /\ ran'[f] = [ran[f] EXCEPT ![Len(ran[f])].at = now]
  <2> DEFINE n == Len(ran[f])
  <2>1. /\ Len(ran'[f]) = n /\ n \in Nat
        /\ \A i \in 1..n : ran'[f][i].outcome = ran[f][i].outcome
        /\ \A i \in 1..n : ran'[f][i].at = IF i = n THEN now ELSE ran[f][i].at
    BY <1>2, <1>6, DatedFacts
  <2>2. \A i \in 1..n : ran[f][i].outcome \in Int /\ (ran[f][i].at # -1 => ran[f][i].at >= ran[f][i].outcome)
    BY <1>6 DEF Timely
  <2>3. n \in 1..n => now >= ran[f][n].outcome
    BY <1>3, <1>6 DEF Moment, Last
  <2> HIDE DEF n
  <2>4. \A i \in 1..Len(ran'[f]) :
           ran'[f][i].outcome \in Int /\ (ran'[f][i].at # -1 => ran'[f][i].at >= ran'[f][i].outcome)
    BY <2>1, <2>2, <2>3
  <2>5. plan.loop \notin Recurrences
    BY <1>6 DEF Recurrences, Retries
  <2> QED BY <1>1, <1>6, <2>4, <2>5 DEF Timely, InSleep
<1> QED BY <1>1, <1>4, <1>5, <1>6

LEMMA DueKept ==
  ASSUME BaseInv, NEW f \in Fibers, FiberStep(f), NEW g \in Fibers \ {f}
  PROVE  due'[g] = due[g]
<1>1. Shaped /\ due \in [Fibers -> Int]
  BY DEF BaseInv, ClockTypes
<1>2. CASE Sleep(f)
  BY <1>1, <1>2, SleepDoes DEF Register, clockVars
<1>3. CASE Wake(f)
  BY <1>1, <1>3, WakeDoes DEF TakeReady, Unregister, clockVars
<1> QED BY <1>2, <1>3, FiberFrame DEF clockVars

LEMMA TimeStep ==
  ASSUME BaseInv, ClockInv, TimeInv, [Next]_vars
  PROVE  TimeInv'
<1>1. now <= now' /\ now' \in Int /\ plan' = plan
  BY ClockSteps, PlanKept DEF ClockTypes
<1>2. ASSUME NEW f \in Fibers, FiberStep(f) PROVE TimeInv'
  <2>1. /\ Shaped /\ \A g \in Fibers \ {f} : UNCHANGED Here(g)
        /\ UNCHANGED <<plan, now>>
        /\ cancelled \subseteq cancelled'
    BY <1>2, FiberStepDoes DEF BaseInv
  <2>2. \A g \in Fibers \ {f} : Timely(g)'
    BY <1>1, <1>2, <2>1, DueKept, TimelyElsewhere DEF TimeInv
  <2>3. Timely(f)
    BY DEF TimeInv
  <2>4. ASSUME Fallback(f) PROVE Timely(f)'
    <3>1. UNCHANGED <<plan, ran[f], asked[f]>> /\ pc'[f] = "done"
      BY <2>1, <2>4, FallbackDoes
    <3>2. pc'[f] \notin InSleep \cup {"attempt"}
      BY <3>1 DEF InSleep
    <3> QED BY <2>3, <3>1, <3>2, QuietTimely
  <2>5. ASSUME Interrupted(f) PROVE Timely(f)'
    <3>1. UNCHANGED <<plan, ran[f], asked[f]>> /\ pc'[f] = "done"
      BY <2>1, <2>5, InterruptedDoes
    <3>2. pc'[f] \notin InSleep \cup {"attempt"}
      BY <3>1 DEF InSleep
    <3> QED BY <2>3, <3>1, <3>2, QuietTimely
  <2>6. ASSUME AskAgain(f) PROVE Timely(f)'
    <3>1. UNCHANGED <<plan, ran[f], asked[f]>> /\ pc'[f] = "turn"
      BY <2>1, <2>6, AskAgainDoes
    <3>2. pc'[f] \notin InSleep \cup {"attempt"}
      BY <3>1 DEF InSleep
    <3> QED BY <2>3, <3>1, <3>2, QuietTimely
  <2>7. ASSUME Cancel(f) PROVE Timely(f)'
    <3>1. UNCHANGED Here(f) /\ due'[f] = due[f]
      BY <2>1, <2>7, CancelDoes DEF Cancel, clockVars
    <3> QED BY <1>1, <2>1, <2>3, <3>1, TimelyElsewhere
  <2>8. Timely(f)'
    BY <1>2, <2>1, <2>3, <2>4, <2>5, <2>6, <2>7, StartTimely, AttemptTimely, DecideTimely, AskTurnTimely,
       SleepTimely, WakeTimely, ResumeTimely DEF FiberStep, Step
  <2> QED BY <2>2, <2>8 DEF TimeInv
<1>3. ASSUME CacheStep \/ Drive \/ UNCHANGED vars PROVE TimeInv'
  <2>1. UNCHANGED fiberVars
    BY <1>3, CacheFrame, DriveFrame DEF vars
  <2>2. due' = due
    BY <1>3, CacheFrame DEF vars, clockVars, Drive, Advance, WaitForPending, Recheck, CheckPending, GiveUp
  <2>3. cancelled' = cancelled /\ \A g \in Fibers : UNCHANGED Here(g)
    BY <2>1 DEF fiberVars, Here
  <2> QED BY <1>1, <2>2, <2>3, TimelyElsewhere DEF TimeInv
<1> QED BY <1>2, <1>3, Steps

LEMMA TimeInit ==
  ASSUME Init
  PROVE  TimeInv
<1>1. ASSUME NEW f \in Fibers PROVE Timely(f)
  <2>1. pc[f] = "idle" /\ ran[f] = <<>> /\ asked[f] = <<>>
    BY DEF Init
  <2> QED BY <2>1 DEF Timely, InSleep
<1> QED BY <1>1 DEF TimeInv

LEMMA ClockedTimely == Spec => [](BaseInv /\ ClockInv /\ TimeInv)
<1>1. Init => ClockInv /\ TimeInv
  BY ClockInit0, TimeInit
<1>2. BaseInv /\ ClockInv /\ TimeInv /\ [Next]_vars => ClockInv' /\ TimeInv'
  BY ClockStep, TimeStep
<1> QED BY <1>1, <1>2, ClockedBase, PTL DEF Spec

\* If drivers mean their policies, every decision a fiber is given is what its
\* policy means for that recurrence, whoever else interprets the same policy, and
\* no attempt is made before its delay has passed (Schedule.Start, driver.Next,
\* Retry, Repeat, Sleep).
THEOREM ClockedOnPolicy ==
  ASSUME DriverMeansItsPolicy
  PROVE  Spec => []OnPolicy
<1>1. BaseInv /\ TimeInv => OnPolicy
  <2>1. SUFFICES ASSUME BaseInv, TimeInv, NEW f \in Fibers, NEW i \in DOMAIN asked[f]
                 PROVE  LET a == asked[f][i]
                        IN  /\ a.decision = PolicyDecision(plan.policy, i - 1, asked[f][1].time, a.time,
                                                           a.input, a.fraction)
                            /\ i + 1 \in DOMAIN ran[f] => ran[f][i + 1].at >= a.time + a.decision.delay
    BY DEF OnPolicy
  <2>2. /\ ran[f] \in Seq(Attempts) /\ asked[f] \in Seq(Askings)
        /\ DOMAIN asked[f] = 1..Len(asked[f]) /\ DOMAIN ran[f] = 1..Len(ran[f])
    BY <2>1 DEF BaseInv, Typed
  <2>3. plan.loop \in Recurrences
    BY <2>1, <2>2 DEF BaseInv, InStep
  <2>4. Question(f, i) \in Questions /\ asked[f][i].decision = Answer(Question(f, i)).decision
    BY <2>1, <2>2, <2>3 DEF BaseInv, InStep
  <2>5. PICK q \in Questions : q = Question(f, i)
    BY <2>4
  <2>6. Answer(q).decision = PolicyDecision(q.policy, q.nth, q.first, q.time, q.input, q.fraction)
    BY DEF DriverMeansItsPolicy
  <2>7. /\ q.policy = plan.policy /\ q.nth = i - 1 /\ q.first = asked[f][1].time
        /\ q.time = asked[f][i].time /\ q.input = asked[f][i].input /\ q.fraction = asked[f][i].fraction
    BY <2>5 DEF Question
  <2>8. asked[f][i].decision = PolicyDecision(plan.policy, i - 1, asked[f][1].time, asked[f][i].time,
                                              asked[f][i].input, asked[f][i].fraction)
    BY <2>4, <2>5, <2>6, <2>7
  <2>9. i + 1 \in DOMAIN ran[f] => ran[f][i + 1].at >= asked[f][i].time + asked[f][i].decision.delay
    BY <2>1, <2>2, <2>3 DEF TimeInv, Timely
  <2> QED BY <2>8, <2>9
<1> QED BY <1>1, ClockedTimely, PTL
-----------------------------------------------------------------------------
(* Turns *)

\* The turns given among the first n reservations of s, how many of them are not
\* before the i-th, and what the i-th lets the next one have at the earliest.
GivenIn(s, n) == {i \in 1..n : s[i].err = "none"}
SinceIn(s, n, i) == Cardinality({h \in GivenIn(s, n) : h >= i})
AfterIn(s, n, i, most, spacing) == s[i].moment + (SinceIn(s, n, i) - most + 1) * spacing
EarliestIn(s, n, time, most, spacing) ==
    Max({time} \cup {AfterIn(s, n, i, most, spacing) : i \in GivenIn(s, n)})

\* The kept moment is one spacing per turn after some turn given, and no less after
\* any other: the one number the limiter keeps stands for all of them.
Arrival(s, spacing, moment) ==
    LET n == Len(s)
    IN  /\ GivenIn(s, n) = {} => moment = 0
        /\ GivenIn(s, n) # {} =>
              \E b \in GivenIn(s, n) : moment = s[b].moment + SinceIn(s, n, b) * spacing
        /\ \A i \in GivenIn(s, n) : moment >= s[i].moment + SinceIn(s, n, i) * spacing

KeepsDistance(s, j, most, spacing, longest) ==
    LET earliest == EarliestIn(s, j - 1, s[j].time, most, spacing)
    IN  /\ s[j].moment = earliest
        /\ \A i \in GivenIn(s, j - 1) : s[j].moment >= AfterIn(s, j - 1, i, most, spacing)
        /\ (s[j].err = "none") = (longest <= 0 \/ earliest - s[j].time <= longest)

LEMMA MaxIs ==
  ASSUME NEW S \in SUBSET Int, NEW m \in S, \A y \in S : m >= y
  PROVE  Max(S) = m
<1>1. \A x \in S : (\A y \in S : x >= y) => x = m
  OBVIOUS
<1> QED BY <1>1 DEF Max

LEMMA Products ==
  ASSUME NEW n \in Int, NEW most \in Int, NEW spacing \in Int
  PROVE  /\ n * spacing \in Int /\ (most - 1) * spacing \in Int
         /\ (n + 1) * spacing = n * spacing + spacing
         /\ (n - most + 1) * spacing = n * spacing - (most - 1) * spacing
<1>1. n * spacing \in Int /\ most * spacing \in Int
  OBVIOUS
<1>2. (most - 1) * spacing = most * spacing - spacing
  OBVIOUS
<1>3. (n + 1) * spacing = n * spacing + spacing
  OBVIOUS
<1>4. (n - most + 1) * spacing = n * spacing - most * spacing + spacing
  OBVIOUS
<1> QED BY <1>1, <1>2, <1>3, <1>4

LEMMA GivenTypes ==
  ASSUME NEW s \in Seq(Reservations), NEW n \in 0..Len(s), NEW i \in Int
  PROVE  /\ GivenIn(s, n) \subseteq 1..n /\ IsFiniteSet(GivenIn(s, n))
         /\ IsFiniteSet({h \in GivenIn(s, n) : h >= i}) /\ SinceIn(s, n, i) \in Nat
         /\ \A h \in GivenIn(s, n) : h \in 1..Len(s) /\ s[h].moment \in Int
<1>1. GivenIn(s, n) \subseteq 1..n /\ n \in Nat /\ Len(s) \in Nat
  BY DEF GivenIn
<1>2. IsFiniteSet(1..n)
  BY <1>1, FS_Interval
<1>3. IsFiniteSet(GivenIn(s, n))
  BY <1>1, <1>2, FS_Subset
<1>4. {h \in GivenIn(s, n) : h >= i} \subseteq GivenIn(s, n)
  OBVIOUS
<1>5. IsFiniteSet({h \in GivenIn(s, n) : h >= i})
  BY <1>3, <1>4, FS_Subset
<1>6. SinceIn(s, n, i) \in Nat
  BY <1>5, FS_CardinalityType DEF SinceIn
<1>7. ASSUME NEW h \in GivenIn(s, n) PROVE h \in 1..Len(s) /\ s[h].moment \in Int
  <2>1. h \in 1..Len(s)
    BY <1>1
  <2>2. s[h] \in Reservations
    BY <2>1
  <2> QED BY <2>1, <2>2 DEF Reservations
<1> QED BY <1>1, <1>3, <1>5, <1>6, <1>7

\* What a sequence of reservations says of its first n is not changed by a further one.
LEMMA GivenKept ==
  ASSUME NEW s \in Seq(Reservations), NEW e \in Reservations, NEW n \in 0..Len(s)
  PROVE  /\ GivenIn(Append(s, e), n) = GivenIn(s, n)
         /\ \A i : SinceIn(Append(s, e), n, i) = SinceIn(s, n, i)
         /\ \A time, most, spacing :
               /\ EarliestIn(Append(s, e), n, time, most, spacing) = EarliestIn(s, n, time, most, spacing)
               /\ \A i \in GivenIn(s, n) :
                     AfterIn(Append(s, e), n, i, most, spacing) = AfterIn(s, n, i, most, spacing)
<1> DEFINE t == Append(s, e)
<1>1. \A i \in 1..Len(s) : t[i] = s[i]
  BY AppendFacts
<1>2. \A i \in 1..n : i \in 1..Len(s)
  OBVIOUS
<1> HIDE DEF t
<1>3. GivenIn(t, n) = GivenIn(s, n)
  BY <1>1, <1>2 DEF GivenIn
<1>4. \A i : SinceIn(t, n, i) = SinceIn(s, n, i)
  BY <1>3 DEF SinceIn
<1>5. \A i \in GivenIn(s, n) : t[i] = s[i]
  BY <1>1, <1>2 DEF GivenIn
<1>6. ASSUME NEW time, NEW most, NEW spacing
      PROVE  /\ EarliestIn(t, n, time, most, spacing) = EarliestIn(s, n, time, most, spacing)
             /\ \A i \in GivenIn(s, n) : AfterIn(t, n, i, most, spacing) = AfterIn(s, n, i, most, spacing)
  <2>1. \A i \in GivenIn(s, n) : AfterIn(t, n, i, most, spacing) = AfterIn(s, n, i, most, spacing)
    BY <1>4, <1>5 DEF AfterIn
  <2>2. {AfterIn(t, n, i, most, spacing) : i \in GivenIn(t, n)}
          = {AfterIn(s, n, i, most, spacing) : i \in GivenIn(s, n)}
    BY <1>3, <2>1
  <2> QED BY <2>1, <2>2 DEF EarliestIn
<1> QED BY <1>3, <1>4, <1>6 DEF t

\* The moment computed from the one number kept is the earliest that all the turns
\* given before allow.
LEMMA TurnFits ==
  ASSUME NEW s \in Seq(Reservations), NEW most \in Int, NEW spacing \in Nat, NEW stored0 \in Nat,
         NEW time \in Nat, Arrival(s, spacing, stored0), (most - 1) * spacing \in Nat
  PROVE  LET ahead == stored0 - (most - 1) * spacing
             m == IF ahead >= time THEN ahead ELSE time
         IN  /\ EarliestIn(s, Len(s), time, most, spacing) = m
             /\ \A i \in GivenIn(s, Len(s)) : m >= AfterIn(s, Len(s), i, most, spacing)
<1> DEFINE n == Len(s)
           G == GivenIn(s, n)
           tolerance == (most - 1) * spacing
           ahead == stored0 - tolerance
           m == IF ahead >= time THEN ahead ELSE time
           S == {time} \cup {AfterIn(s, n, i, most, spacing) : i \in G}
           Following(i) == s[i].moment + SinceIn(s, n, i) * spacing
<1>1. n \in Nat /\ n \in 0..Len(s)
  OBVIOUS
<1>2. ASSUME NEW i \in G
      PROVE  /\ AfterIn(s, n, i, most, spacing) = Following(i) - tolerance
             /\ Following(i) \in Int
  <2>0. i \in Int
    BY <1>2 DEF GivenIn
  <2>1. s[i].moment \in Int /\ SinceIn(s, n, i) \in Nat
    BY <1>1, <1>2, <2>0, GivenTypes
  <2>2. SinceIn(s, n, i) \in Int
    BY <2>1
  <2>3. /\ (SinceIn(s, n, i) - most + 1) * spacing = SinceIn(s, n, i) * spacing - tolerance
        /\ SinceIn(s, n, i) * spacing \in Int
    BY <2>2, Products
  <2>4. AfterIn(s, n, i, most, spacing) = s[i].moment + (SinceIn(s, n, i) - most + 1) * spacing
    BY DEF AfterIn
  <2>5. tolerance \in Int
    OBVIOUS
  <2>6. PICK x \in Int : x = SinceIn(s, n, i) * spacing
    BY <2>3
  <2>7. Following(i) = s[i].moment + x /\ AfterIn(s, n, i, most, spacing) = s[i].moment + (x - tolerance)
    BY <2>3, <2>4, <2>6
  <2>8. PICK moment \in Int : moment = s[i].moment
    BY <2>1
  <2>9. PICK late \in Int : late = tolerance
    BY <2>5
  <2> HIDE DEF tolerance, Following
  <2>10. moment + (x - late) = moment + x - late /\ moment + x \in Int
    OBVIOUS
  <2>11. Following(i) = moment + x /\ AfterIn(s, n, i, most, spacing) = moment + (x - late)
    BY <2>7, <2>8, <2>9
  <2> QED BY <2>9, <2>10, <2>11
<1>3. tolerance \in Nat
  OBVIOUS
<1> HIDE DEF tolerance
<1>11. /\ G = {} => stored0 = 0
       /\ G # {} => \E b \in G : stored0 = Following(b)
       /\ \A i \in G : stored0 >= Following(i)
  BY DEF Arrival
<1> HIDE DEF Following
<1>12. \A i \in G : Following(i) \in Int /\ AfterIn(s, n, i, most, spacing) = Following(i) - tolerance
  BY <1>2
<1> HIDE DEF G, n, Following
<1>4. \A i \in G : AfterIn(s, n, i, most, spacing) \in Int /\ AfterIn(s, n, i, most, spacing) <= ahead
  BY <1>3, <1>11, <1>12
<1>5. G # {} => \E b \in G : AfterIn(s, n, b, most, spacing) = ahead
  BY <1>11, <1>12
<1>6. G = {} => ahead <= time
  BY <1>3, <1>11
<1>7. S \subseteq Int /\ m \in Int
  BY <1>3, <1>4
<1>8. m \in S
  <2>1. CASE ahead >= time /\ G # {}
    BY <1>5, <2>1
  <2>2. CASE ahead >= time /\ G = {}
    BY <1>3, <1>6, <2>2
  <2>3. CASE ~(ahead >= time)
    BY <2>3
  <2> QED BY <2>1, <2>2, <2>3
<1>9. \A y \in S : m >= y
  BY <1>3, <1>4
<1>10. Max(S) = m
  BY <1>7, <1>8, <1>9, MaxIs
<1> QED BY <1>9, <1>10 DEF EarliestIn, G, n, tolerance

\* One more turn given: one more spacing, counted for every turn before it.
LEMMA OneMoreGiven ==
  ASSUME NEW s \in Seq(Reservations), NEW e \in Reservations, e.err = "none"
  PROVE  LET n == Len(s)
             t == Append(s, e)
         IN  /\ Len(t) = n + 1 /\ n + 1 \notin GivenIn(s, n)
             /\ GivenIn(t, n + 1) = GivenIn(s, n) \cup {n + 1}
             /\ \A i \in GivenIn(s, n) : SinceIn(t, n + 1, i) = SinceIn(s, n, i) + 1
             /\ SinceIn(t, n + 1, n + 1) = 1
<1> DEFINE n == Len(s)
           t == Append(s, e)
<1>1. /\ Len(t) = n + 1 /\ n \in Nat /\ n \in 0..n
      /\ \A i \in 1..n : t[i] = s[i]
      /\ t[n + 1] = e
  BY AppendFacts
<1> HIDE DEF n, t
<1>2. GivenIn(s, n) \subseteq 1..n /\ IsFiniteSet(GivenIn(s, n))
  <2>1. n \in 0..Len(s) /\ 0 \in Int
    BY <1>1 DEF n
  <2> QED BY <2>1, GivenTypes
<1>3. n + 1 \notin GivenIn(s, n)
  BY <1>1, <1>2
<1>4. GivenIn(t, n + 1) = GivenIn(s, n) \cup {n + 1}
  <2>1. \A i : i \in 1..n + 1 <=> i \in 1..n \/ i = n + 1
    BY <1>1
  <2> QED BY <1>1, <2>1 DEF GivenIn
<1>5. ASSUME NEW i \in GivenIn(s, n) PROVE SinceIn(t, n + 1, i) = SinceIn(s, n, i) + 1
  <2> DEFINE H == {h \in GivenIn(s, n) : h >= i}
  <2>1. i \in Int /\ i <= n + 1
    BY <1>1, <1>2
  <2>2. IsFiniteSet(H)
    BY <1>1, <2>1, GivenTypes DEF n
  <2>3. {h \in GivenIn(t, n + 1) : h >= i} = H \cup {n + 1}
    BY <1>1, <1>4, <2>1
  <2>4. n + 1 \notin H
    BY <1>3
  <2>5. Cardinality(H \cup {n + 1}) = Cardinality(H) + 1
    BY <2>2, <2>4, FS_AddElement
  <2> QED BY <2>3, <2>5 DEF SinceIn
<1>6. SinceIn(t, n + 1, n + 1) = 1
  <2>1. {h \in GivenIn(t, n + 1) : h >= n + 1} = {n + 1}
    BY <1>1, <1>2, <1>4
  <2> QED BY <2>1, FS_Singleton DEF SinceIn
<1> QED BY <1>1, <1>3, <1>4, <1>5, <1>6 DEF n, t

\* Giving a turn moves the kept moment along by one spacing.
LEMMA ArrivalMoves ==
  ASSUME NEW s \in Seq(Reservations), NEW spacing \in Nat, NEW tolerance \in Nat, NEW stored0 \in Nat,
         NEW time \in Nat, Arrival(s, spacing, stored0),
         NEW e \in Reservations, e.err = "none",
         e.moment = IF stored0 - tolerance >= time THEN stored0 - tolerance ELSE time
  PROVE  Arrival(Append(s, e), spacing, (IF stored0 >= time THEN stored0 ELSE time) + spacing)
<1> DEFINE n == Len(s)
           t == Append(s, e)
           moved == (IF stored0 >= time THEN stored0 ELSE time) + spacing
           G == GivenIn(s, n)
           Before(i) == s[i].moment + SinceIn(s, n, i) * spacing
           Now(i) == t[i].moment + SinceIn(t, n + 1, i) * spacing
<1>1. /\ Len(t) = n + 1 /\ n \in Nat /\ n \in 0..n
      /\ \A i \in 1..n : t[i] = s[i]
      /\ t[n + 1] = e
  BY AppendFacts
<1>2. /\ GivenIn(t, n + 1) = G \cup {n + 1}
      /\ \A i \in G : SinceIn(t, n + 1, i) = SinceIn(s, n, i) + 1
      /\ SinceIn(t, n + 1, n + 1) = 1
  BY OneMoreGiven
<1>3. /\ G = {} => stored0 = 0
      /\ G # {} => \E b \in G : stored0 = Before(b)
      /\ \A i \in G : stored0 >= Before(i)
  BY DEF Arrival
<1>4. moved \in Int /\ moved >= stored0 + spacing /\ moved >= time + spacing /\ moved >= e.moment + spacing
  OBVIOUS
<1>5. stored0 > time => moved = stored0 + spacing
  OBVIOUS
<1>6. ~(stored0 > time) => moved = e.moment + spacing
  OBVIOUS
<1>7. ASSUME NEW i \in G PROVE Before(i) \in Int /\ Now(i) = Before(i) + spacing
  <2>1. i \in 1..n /\ i \in Int
    BY <1>7 DEF GivenIn
  <2>2. SinceIn(s, n, i) \in Int /\ s[i].moment \in Int
    <3>1. n \in 0..Len(s)
      BY <1>1
    <3>2. SinceIn(s, n, i) \in Nat /\ s[i].moment \in Int
      BY <1>7, <2>1, <3>1, GivenTypes
    <3> QED BY <3>2
  <2>3. SinceIn(t, n + 1, i) = SinceIn(s, n, i) + 1 /\ t[i] = s[i]
    BY <1>1, <1>2, <1>7, <2>1
  <2>4. PICK k \in Int : k = SinceIn(s, n, i)
    BY <2>2
  <2>5. k * spacing \in Int /\ (k + 1) * spacing = k * spacing + spacing
    BY <2>4
  <2>6. Before(i) = s[i].moment + k * spacing /\ Now(i) = s[i].moment + (k + 1) * spacing
    BY <2>3, <2>4
  <2>7. PICK x \in Int : x = k * spacing
    BY <2>5
  <2>8. Before(i) = s[i].moment + x /\ Now(i) = s[i].moment + (x + spacing)
    BY <2>5, <2>6, <2>7
  <2> HIDE DEF Before, Now
  <2> QED BY <2>2, <2>7, <2>8
<1>8. Now(n + 1) = e.moment + spacing
  <2>1. 1 * spacing = spacing
    OBVIOUS
  <2> QED BY <1>1, <1>2, <2>1
<1> HIDE DEF n, t, G, moved, Before, Now
<1>9. \A i \in G \cup {n + 1} : moved >= Now(i)
  <2>1. ASSUME NEW i \in G PROVE moved >= Now(i)
    <3>1. Before(i) \in Int /\ Now(i) = Before(i) + spacing /\ stored0 >= Before(i)
      BY <1>3, <1>7, <2>1
    <3> QED BY <1>4, <3>1
  <2> QED BY <1>4, <1>8, <2>1
<1>10. \E b \in G \cup {n + 1} : moved = Now(b)
  <2>1. CASE stored0 > time
    <3>1. G # {}
      BY <1>3, <2>1
    <3>2. PICK b \in G : stored0 = Before(b)
      BY <1>3, <3>1
    <3> QED BY <1>5, <1>7, <2>1, <3>2
  <2>2. CASE ~(stored0 > time)
    BY <1>6, <1>8, <2>2
  <2> QED BY <2>1, <2>2
<1>11. /\ GivenIn(t, Len(t)) # {}
       /\ \E b \in GivenIn(t, Len(t)) : moved = t[b].moment + SinceIn(t, Len(t), b) * spacing
       /\ \A i \in GivenIn(t, Len(t)) : moved >= t[i].moment + SinceIn(t, Len(t), i) * spacing
  BY <1>1, <1>2, <1>9, <1>10 DEF Now
<1>12. Arrival(t, spacing, moved)
  BY <1>11 DEF Arrival
<1> QED BY <1>12 DEF t, moved

\* A turn refused is none of the turns given.
LEMMA ArrivalStays ==
  ASSUME NEW s \in Seq(Reservations), NEW e \in Reservations, e.err # "none", NEW spacing, NEW stored0,
         Arrival(s, spacing, stored0)
  PROVE  Arrival(Append(s, e), spacing, stored0)
<1> DEFINE n == Len(s)
           t == Append(s, e)
<1>1. /\ Len(t) = n + 1 /\ n \in Nat /\ n \in 0..n
      /\ \A i \in 1..n : t[i] = s[i]
      /\ t[n + 1] = e
  BY AppendFacts
<1> HIDE DEF n, t
<1>2. GivenIn(t, n + 1) = GivenIn(s, n)
  <2>1. \A i : i \in 1..n + 1 <=> i \in 1..n \/ i = n + 1
    BY <1>1
  <2> QED BY <1>1, <2>1 DEF GivenIn
<1>3. \A i : SinceIn(t, n + 1, i) = SinceIn(s, n, i)
  BY <1>2 DEF SinceIn
<1>4. \A i \in GivenIn(s, n) : t[i] = s[i]
  BY <1>1 DEF GivenIn
<1> DEFINE G == GivenIn(s, n)
<1>5. /\ G = {} => stored0 = 0
      /\ G # {} => \E b \in G : stored0 = s[b].moment + SinceIn(s, n, b) * spacing
      /\ \A i \in G : stored0 >= s[i].moment + SinceIn(s, n, i) * spacing
  BY DEF Arrival, n
<1> HIDE DEF G
<1>6. GivenIn(t, Len(t)) = G
  BY <1>1, <1>2 DEF G
<1>7. \A i \in G : t[i].moment + SinceIn(t, Len(t), i) * spacing = s[i].moment + SinceIn(s, n, i) * spacing
  BY <1>1, <1>3, <1>4 DEF G
<1>8. /\ GivenIn(t, Len(t)) = {} => stored0 = 0
      /\ GivenIn(t, Len(t)) # {} =>
            \E b \in GivenIn(t, Len(t)) : stored0 = t[b].moment + SinceIn(t, Len(t), b) * spacing
      /\ \A i \in GivenIn(t, Len(t)) : stored0 >= t[i].moment + SinceIn(t, Len(t), i) * spacing
  BY <1>5, <1>6, <1>7
<1>9. Arrival(t, spacing, stored0)
  BY <1>8 DEF Arrival
<1> QED BY <1>9 DEF t

TurnInv ==
    plan.loop = "turns" =>
        /\ Arrival(asks, Spacing(plan.allowance), stored)
        /\ \A j \in 1..Len(asks) :
              KeepsDistance(asks, j, plan.allowance.most, Spacing(plan.allowance), plan.longest)

\* Nobody asks for a turn but under an allowance.
NoTurns == asks # <<>> => plan.loop = "turns" /\ IsStated(plan.allowance)

LEMMA TurnStep ==
  ASSUME BaseInv, TurnInv, NoTurns, [Next]_vars
  PROVE  TurnInv' /\ NoTurns'
<1>1. CASE UNCHANGED <<plan, turnVars>>
  BY <1>1 DEF turnVars, TurnInv, NoTurns
<1>2. ASSUME NEW f \in Fibers, AskTurn(f) PROVE TurnInv' /\ NoTurns'
  <2> DEFINE turn == Turn(stored, plan.allowance, plan.longest, now)
             e == [time |-> now, err |-> turn.err, moment |-> now + turn.wait]
             n == Len(asks)
  <2>1. pc[f] = "turn" /\ stored' = turn.stored /\ asks' = Append(asks, e) /\ plan' = plan
    BY <1>2, AskTurnDoes DEF BaseInv
  <2>2. /\ plan.loop = "turns" /\ IsStated(plan.allowance) /\ plan \in Plans /\ now \in Nat /\ stored \in Nat
        /\ now \in 0..MaxTime /\ asks \in Seq(Reservations)
    BY <2>1, BoundAssumption DEF BaseInv, InPlan, ClockTypes, TurnTypes
  <2>3. PICK most \in Int, spacing \in Nat, longest \in Int :
          most = plan.allowance.most /\ spacing = Spacing(plan.allowance) /\ longest = plan.longest
    BY <2>2, SpacingType
  <2>4. PICK tolerance \in Nat : tolerance = (most - 1) * spacing
    <3>1. most - 1 \in Nat
      BY <2>2, <2>3, SpacingType
    <3>2. (most - 1) * spacing \in Nat
      BY <3>1
    <3> QED BY <3>2
  <2> DEFINE moment == IF stored - tolerance >= now THEN stored - tolerance ELSE now
  <2>5. /\ turn.wait \in Nat
        /\ now + turn.wait = moment
        /\ (turn.err = "none") = (longest <= 0 \/ turn.wait <= longest)
        /\ turn.err = "none" => turn.stored = (IF stored >= now THEN stored ELSE now) + spacing
        /\ turn.err # "none" => turn.err = "LimitExceeded" /\ turn.stored = stored
    BY <2>2, <2>3, <2>4, TurnValue
  <2> HIDE DEF turn, moment
  <2>6. e \in Reservations /\ e.time = now /\ e.err = turn.err /\ e.moment = moment
    BY <2>2, <2>5 DEF Reservations
  <2> HIDE DEF e
  <2>7. Arrival(asks, spacing, stored) /\ \A j \in 1..n : KeepsDistance(asks, j, most, spacing, longest)
    BY <2>2, <2>3 DEF TurnInv
  <2>8. Arrival(asks', spacing, stored')
    <3>1. CASE turn.err = "none"
      <4>1. PICK before \in Nat, time \in Nat : before = stored /\ time = now
        BY <2>2
      <4>2. e.moment = (IF before - tolerance >= time THEN before - tolerance ELSE time) /\ e.err = "none"
        BY <2>6, <3>1, <4>1 DEF moment
      <4>3. Arrival(Append(asks, e), spacing, (IF before >= time THEN before ELSE time) + spacing)
        BY <2>2, <2>6, <2>7, <4>1, <4>2, ArrivalMoves
      <4> QED BY <2>1, <2>5, <3>1, <4>1, <4>3
    <3>2. CASE turn.err # "none"
      BY <2>1, <2>2, <2>5, <2>6, <2>7, <3>2, ArrivalStays
    <3> QED BY <3>1, <3>2
  <2>9. /\ Len(asks') = n + 1 /\ n \in Nat
        /\ \A i \in 1..n : asks'[i] = asks[i]
        /\ asks'[n + 1] = e
    BY <2>1, <2>2, <2>6, AppendFacts
  <2>10. ASSUME NEW j \in 1..n PROVE KeepsDistance(asks', j, most, spacing, longest)
    <3>1. j - 1 \in 0..Len(asks)
      BY <2>9
    <3>2. EarliestIn(asks', j - 1, asks[j].time, most, spacing) = EarliestIn(asks, j - 1, asks[j].time, most, spacing)
      BY <2>1, <2>2, <2>6, <3>1, GivenKept
    <3>3. asks'[j] = asks[j] /\ KeepsDistance(asks, j, most, spacing, longest)
      BY <2>7, <2>9
    <3>4. /\ GivenIn(asks', j - 1) = GivenIn(asks, j - 1)
          /\ \A i \in GivenIn(asks, j - 1) :
                AfterIn(asks', j - 1, i, most, spacing) = AfterIn(asks, j - 1, i, most, spacing)
      BY <2>1, <2>2, <2>6, <3>1, GivenKept
    <3> QED BY <3>2, <3>3, <3>4 DEF KeepsDistance
  <2>11. KeepsDistance(asks', n + 1, most, spacing, longest)
    <3>1. n \in 0..Len(asks) /\ n + 1 - 1 = n
      BY <2>9
    <3>2. EarliestIn(asks', n, now, most, spacing) = EarliestIn(asks, n, now, most, spacing)
      BY <2>1, <2>2, <2>6, <3>1, GivenKept
    <3>3. EarliestIn(asks, n, now, most, spacing) = moment
      BY <2>2, <2>4, <2>7, TurnFits DEF moment
    <3>4. moment - now = turn.wait
      BY <2>2, <2>5
    <3>5. \A i \in GivenIn(asks, n) : moment >= AfterIn(asks, n, i, most, spacing)
      BY <2>2, <2>4, <2>7, TurnFits DEF moment
    <3>6. /\ GivenIn(asks', n) = GivenIn(asks, n)
          /\ \A i \in GivenIn(asks, n) : AfterIn(asks', n, i, most, spacing) = AfterIn(asks, n, i, most, spacing)
      BY <2>1, <2>2, <2>6, <3>1, GivenKept
    <3> QED BY <2>5, <2>6, <2>9, <3>1, <3>2, <3>3, <3>4, <3>5, <3>6 DEF KeepsDistance
  <2>12. \A j \in 1..Len(asks') : j \in 1..n \/ j = n + 1
    BY <2>9
  <2>13. \A j \in 1..Len(asks') : KeepsDistance(asks', j, most, spacing, longest)
    BY <2>10, <2>11, <2>12
  <2> QED BY <2>1, <2>2, <2>3, <2>8, <2>13 DEF TurnInv, NoTurns
<1>3. ASSUME NEW f \in Fibers, FiberStep(f) PROVE TurnInv' /\ NoTurns'
  BY <1>1, <1>2, <1>3, FiberFrame
<1>4. CacheStep \/ Drive \/ UNCHANGED vars => UNCHANGED <<plan, turnVars>>
  BY CacheFrame, DriveFrame DEF vars
<1> QED BY <1>1, <1>3, <1>4, Steps

\* Spacings that are rounded down fall short of the exact ones by less than one
\* each.
LEMMA RoundedSpacing ==
  ASSUME NEW most \in Nat, NEW every \in Nat, most > 0, NEW excess \in Nat, excess > 0,
         NEW gap \in Int, gap >= excess * (every \div most)
  PROVE  (gap + excess) * most > excess * every
<1> DEFINE q == every \div most
<1>1. q \in Nat
  BY QuotientType
<1>2. every < q * most + most
  OBVIOUS
<1> HIDE DEF q
<1>3. PICK next \in Nat : next = q + 1
  BY <1>1
<1>4. every < next * most
  <2>1. next * most = q * most + most
    BY <1>1, <1>3
  <2> QED BY <1>2, <2>1
<1>5. excess * next = excess * q + excess
  BY <1>1, <1>3
<1>6. gap + excess >= excess * next
  <2>1. PICK x \in Nat : x = excess * q
    BY <1>1
  <2>2. gap >= x
    BY <2>1 DEF q
  <2> QED BY <1>5, <2>1, <2>2
<1>7. (gap + excess) * most >= (excess * next) * most
  <2>1. PICK y \in Int, z \in Int : y = gap + excess /\ z = excess * next
    OBVIOUS
  <2>2. y >= z
    BY <1>6, <2>1
  <2>3. y * most >= z * most
    BY <2>2
  <2> QED BY <2>1, <2>3
<1>8. (excess * next) * most = excess * (next * most)
  OBVIOUS
<1>9. excess * (next * most) > excess * every
  <2>1. PICK w \in Nat : w = next * most
    OBVIOUS
  <2>2. excess * w > excess * every
    BY <1>4, <2>1
  <2> QED BY <2>1, <2>2
<1>10. (gap + excess) * most \in Int /\ (excess * next) * most \in Int /\ excess * every \in Int
  OBVIOUS
<1> QED BY <1>7, <1>8, <1>9, <1>10

LEMMA TurnInit ==
  ASSUME Init
  PROVE  TurnInv /\ NoTurns
<1>1. asks = <<>> /\ stored = 0 /\ Len(asks) = 0
  BY DEF Init
<1>2. GivenIn(asks, Len(asks)) = {}
  BY <1>1 DEF GivenIn
<1> QED BY <1>1, <1>2 DEF TurnInv, NoTurns, Arrival

\* The moment of a turn against one given before it, in the terms of the allowance.
LEMMA RateKept ==
  ASSUME BaseInv, plan.loop = "turns", IsStated(plan.allowance), NEW j \in 1..Len(asks),
         KeepsDistance(asks, j, plan.allowance.most, Spacing(plan.allowance), plan.longest),
         NEW i \in GivenIn(asks, j - 1), SinceIn(asks, j - 1, i) - plan.allowance.most + 1 > 0
  PROVE  LET excess == SinceIn(asks, j - 1, i) - plan.allowance.most + 1
         IN  (asks[j].moment - asks[i].moment + excess) * plan.allowance.most > excess * plan.allowance.every
<1>1. /\ plan \in Plans /\ asks \in Seq(Reservations) /\ j - 1 \in 0..Len(asks)
      /\ asks[j] \in Reservations /\ i \in Int
  BY DEF BaseInv, TurnTypes, GivenIn
<1>2. PICK most \in Nat, every \in Nat :
         /\ most = plan.allowance.most /\ every = plan.allowance.every /\ most > 0
         /\ Spacing(plan.allowance) = every \div most
  <2>1. plan.allowance.most \in Int /\ plan.allowance.every \in Int
    BY <1>1, SpacingType
  <2>2. plan.allowance.most > 0 /\ plan.allowance.every > 0
    BY DEF IsStated
  <2>3. plan.allowance.most \in Nat /\ plan.allowance.every \in Nat
    BY <2>1, <2>2
  <2> QED BY <2>2, <2>3 DEF Spacing
<1>3. PICK spacing \in Nat : spacing = every \div most
  BY <1>2, QuotientType
<1>4. SinceIn(asks, j - 1, i) \in Nat /\ asks[i].moment \in Int /\ asks[j].moment \in Int
  <2>1. i \in 1..Len(asks)
    BY <1>1, GivenTypes
  <2>2. SinceIn(asks, j - 1, i) \in Nat /\ asks[i].moment \in Int
    BY <1>1, GivenTypes
  <2>3. asks[j].moment \in Int
    BY <1>1 DEF Reservations
  <2> QED BY <2>2, <2>3
<1>5. PICK excess \in Nat, from \in Int, to \in Int :
         /\ excess = SinceIn(asks, j - 1, i) - most + 1 /\ excess > 0
         /\ from = asks[i].moment /\ to = asks[j].moment
  <2>1. PICK since \in Nat : since = SinceIn(asks, j - 1, i)
    BY <1>4
  <2>2. since - most + 1 \in Nat /\ since - most + 1 > 0
    BY <1>2, <2>1
  <2> QED BY <1>4, <2>1, <2>2
<1>6. to >= from + excess * spacing
  BY <1>2, <1>3, <1>5 DEF KeepsDistance, AfterIn
<1>7. to - from >= excess * (every \div most)
  <2>1. excess * spacing \in Nat
    OBVIOUS
  <2>2. PICK x \in Nat : x = excess * spacing
    BY <2>1
  <2>3. to - from >= x
    BY <1>6, <2>2
  <2> QED BY <1>3, <2>2, <2>3
<1>8. (to - from + excess) * most > excess * every
  <2>1. PICK gap \in Int : gap = to - from
    OBVIOUS
  <2>2. gap >= excess * (every \div most)
    BY <1>7, <2>1
  <2>3. (gap + excess) * most > excess * every
    BY <1>2, <1>5, <2>2, RoundedSpacing
  <2> QED BY <2>1, <2>3
<1> QED BY <1>2, <1>5, <1>8

\* A turn keeps the rate of its allowance from every turn given before it, but for
\* less than one unit of the clock for each; it is given for the earliest moment
\* that does, is refused exactly when that is too far off, and is taken no earlier
\* (MemoryLimiter.Turn, AwaitTurn).
THEOREM ClockedTurns == Spec => []TurnsKeepTheirDistance
<1>1. BaseInv /\ TimeInv /\ TurnInv /\ NoTurns => TurnsKeepTheirDistance
  <2>1. SUFFICES ASSUME BaseInv, TimeInv, TurnInv, NoTurns PROVE TurnsKeepTheirDistance
    OBVIOUS
  <2>2. asks \in Seq(Reservations) /\ DOMAIN asks = 1..Len(asks)
    BY <2>1 DEF BaseInv, TurnTypes
  <2>3. ASSUME NEW j \in DOMAIN asks
        PROVE  LET given == {i \in 1..j - 1 : asks[i].err = "none"}
                   Excess(i) == Cardinality({h \in given : h >= i}) - plan.allowance.most + 1
                   earliest == Max({asks[j].time}
                                       \cup {asks[i].moment + Excess(i) * Spacing(plan.allowance) : i \in given})
               IN  /\ \A i \in given : Excess(i) > 0 =>
                         (asks[j].moment - asks[i].moment + Excess(i)) * plan.allowance.most
                             > Excess(i) * plan.allowance.every
                   /\ asks[j].moment = earliest
                   /\ (asks[j].err = "none") = (plan.longest <= 0 \/ earliest - asks[j].time <= plan.longest)
    <3>1. plan.loop = "turns" /\ IsStated(plan.allowance) /\ plan \in Plans
      BY <2>1, <2>2, <2>3 DEF NoTurns, BaseInv
    <3>2. KeepsDistance(asks, j, plan.allowance.most, Spacing(plan.allowance), plan.longest)
      BY <2>1, <2>2, <2>3, <3>1 DEF TurnInv
    <3>3. ASSUME NEW i \in GivenIn(asks, j - 1), SinceIn(asks, j - 1, i) - plan.allowance.most + 1 > 0
          PROVE  LET excess == SinceIn(asks, j - 1, i) - plan.allowance.most + 1
                 IN  (asks[j].moment - asks[i].moment + excess) * plan.allowance.most > excess * plan.allowance.every
      BY <2>1, <2>2, <2>3, <3>1, <3>2, <3>3, RateKept
    <3> QED BY <3>2, <3>3 DEF KeepsDistance, EarliestIn, AfterIn, SinceIn, GivenIn
  <2>4. ASSUME NEW f \in Fibers, plan.loop = "turns", NEW i \in DOMAIN ran[f], ran[f][i].at # -1
        PROVE  ran[f][i].at >= ran[f][i].outcome
    <3>1. DOMAIN ran[f] = 1..Len(ran[f])
      BY <2>1 DEF BaseInv, Typed
    <3> QED BY <2>1, <2>4, <3>1 DEF TimeInv, Timely
  <2> QED BY <2>3, <2>4 DEF TurnsKeepTheirDistance
<1>2. Init => TurnInv /\ NoTurns
  BY TurnInit
<1>3. BaseInv /\ TurnInv /\ NoTurns /\ [Next]_vars => (TurnInv /\ NoTurns)'
  BY TurnStep
<1> QED BY <1>1, <1>2, <1>3, ClockedTimely, PTL DEF Spec
-----------------------------------------------------------------------------
(* The order of a cache *)

Entries == [key : Keys, about : Subjects \cup {NoName}, value : Nat, until : Int]
KeysIn(o) == {e.key : e \in ToSet(o)}

\* Every entry was used after those behind it.
Recent(o, u) == \A i, j \in 1..Len(o) : i < j => u[o[i].key] > u[o[j].key]

LEMMA OrderTypes ==
  ASSUME NEW o \in Seq(Entries)
  PROVE  /\ Len(o) \in Nat /\ DOMAIN o = 1..Len(o)
         /\ \A i \in 1..Len(o) : o[i] \in Entries /\ o[i].key \in Keys /\ o[i] \in ToSet(o)
         /\ \A e \in ToSet(o) : e \in Entries /\ e.key \in Keys /\ \E i \in 1..Len(o) : e = o[i]
         /\ KeysIn(o) \subseteq Keys
<1>1. Len(o) \in Nat /\ DOMAIN o = 1..Len(o) /\ \A i \in 1..Len(o) : o[i] \in Entries
  OBVIOUS
<1>2. ToSet(o) = {o[i] : i \in 1..Len(o)}
  BY ToSetFacts
<1>3. \A e \in Entries : e.key \in Keys
  BY DEF Entries
<1> QED BY <1>1, <1>2, <1>3 DEF KeysIn

\* A key has one place, and its entry is the one with the key.
LEMMA RecentUnique ==
  ASSUME NEW o \in Seq(Entries), NEW u \in [Keys -> Nat], Recent(o, u)
  PROVE  /\ \A i, j \in 1..Len(o) : o[i].key = o[j].key => i = j
         /\ NoRepeats(o)
<1>1. \A i \in 1..Len(o) : u[o[i].key] \in Nat
  BY OrderTypes
<1>2. ASSUME NEW i \in 1..Len(o), NEW j \in 1..Len(o), o[i].key = o[j].key PROVE i = j
  <2>1. ~(i < j) /\ ~(j < i)
    BY <1>1, <1>2 DEF Recent
  <2> QED BY <2>1
<1> QED BY <1>2 DEF NoRepeats

LEMMA ThinnedRecent ==
  ASSUME NEW o \in Seq(Entries), NEW u, Recent(o, u), NEW r \in Seq(Entries),
         NEW at \in [1..Len(r) -> 1..Len(o)], \A k \in 1..Len(r) : r[k] = o[at[k]],
         \A k, l \in 1..Len(r) : k < l => at[k] < at[l]
  PROVE  Recent(r, u)
<1>1. ASSUME NEW k \in 1..Len(r), NEW l \in 1..Len(r), k < l PROVE u[r[k].key] > u[r[l].key]
  <2>1. at[k] \in 1..Len(o) /\ at[l] \in 1..Len(o) /\ at[k] < at[l]
    BY <1>1
  <2>2. u[o[at[k]].key] > u[o[at[l]].key]
    BY <2>1 DEF Recent
  <2> QED BY <2>2
<1> QED BY <1>1 DEF Recent

\* Taking an entry out.
LEMMA RemovedRecent ==
  ASSUME NEW o \in Seq(Entries), NEW u \in [Keys -> Nat], Recent(o, u), NEW p \in 1..Len(o)
  PROVE  LET r == RemoveAt(o, p)
         IN  /\ r \in Seq(Entries) /\ Len(r) = Len(o) - 1 /\ Recent(r, u)
             /\ ToSet(r) = ToSet(o) \ {o[p]} /\ KeysIn(r) = KeysIn(o) \ {o[p].key}
             /\ \A e \in ToSet(r) : e.key # o[p].key
<1> DEFINE r == RemoveAt(o, p)
           n == Len(o)
           at == [k \in 1..n - 1 |-> IF k < p THEN k ELSE k + 1]
<1>1. /\ r \in Seq(Entries) /\ Len(r) = n - 1 /\ n \in Nat
      /\ \A j \in 1..n - 1 : r[j] = IF j < p THEN o[j] ELSE o[j + 1]
  BY RemoveAtFacts, OrderTypes
<1>2. NoRepeats(o) /\ \A i, j \in 1..n : o[i].key = o[j].key => i = j
  BY RecentUnique
<1>3. /\ \A j \in 1..Len(r) : r[j] # o[p] /\ \E k \in 1..n : o[k] = r[j]
      /\ \A k \in 1..n : o[k] # o[p] => \E j \in 1..Len(r) : r[j] = o[k]
  BY <1>2, NoRepeatsRemove
<1> HIDE DEF r, n
<1>4. Recent(r, u)
  <2>1. at \in [1..Len(r) -> 1..Len(o)]
    BY <1>1 DEF n
  <2>2. \A k \in 1..Len(r) : r[k] = o[at[k]]
    BY <1>1
  <2>3. \A k, l \in 1..Len(r) : k < l => at[k] < at[l]
    BY <1>1
  <2> HIDE DEF at
  <2> QED BY <1>1, <2>1, <2>2, <2>3, ThinnedRecent
<1>5. ToSet(r) = {r[j] : j \in 1..Len(r)} /\ ToSet(o) = {o[k] : k \in 1..n}
  BY <1>1, ToSetFacts DEF n
<1>6. ToSet(r) = ToSet(o) \ {o[p]}
  <2>1. ASSUME NEW x \in ToSet(r) PROVE x \in ToSet(o) /\ x # o[p]
    <3>1. PICK j \in 1..Len(r) : x = r[j]
      BY <1>5
    <3> QED BY <1>3, <1>5, <3>1
  <2>2. ASSUME NEW x \in ToSet(o), x # o[p] PROVE x \in ToSet(r)
    <3>1. PICK k \in 1..n : x = o[k]
      BY <1>5
    <3> QED BY <1>3, <1>5, <2>2, <3>1
  <2> QED BY <2>1, <2>2
<1>7. ASSUME NEW e \in ToSet(o), e.key = o[p].key PROVE e = o[p]
  <2>1. PICK k \in 1..n : e = o[k]
    BY <1>5
  <2>2. p \in 1..n /\ o[k].key = o[p].key
    BY <1>7, <2>1 DEF n
  <2>3. k = p
    BY <1>2, <2>2
  <2> QED BY <2>1, <2>3
<1>8. KeysIn(r) = KeysIn(o) \ {o[p].key} /\ \A e \in ToSet(r) : e.key # o[p].key
  <2>1. \A e \in ToSet(r) : e \in ToSet(o) /\ e.key # o[p].key
    BY <1>6, <1>7
  <2>2. \A e \in ToSet(o) : e.key # o[p].key => e \in ToSet(r)
    BY <1>6
  <2> QED BY <2>1, <2>2 DEF KeysIn
<1> QED BY <1>1, <1>4, <1>6, <1>8 DEF r, n

\* A key is used, after all others.
UsedBefore(u, m) == u \in [Keys -> Nat] /\ m \in Nat /\ \A x \in Keys : u[x] < m
UsedUpTo(u, m) == u \in [Keys -> Nat] /\ m \in Nat /\ \A x \in Keys : u[x] <= m
UsedLast(v, u, k, m) == UsedBefore(u, m) /\ v = [u EXCEPT ![k] = m]

Ahead(e, r) == <<e>> \o r

\* Putting an entry in front, as the last used.
LEMMA PrependedRecent ==
  ASSUME NEW r, NEW u, NEW e, NEW m, NEW v,
         r \in Seq(Entries), e \in Entries, Recent(r, u),
         e.key \notin KeysIn(r), UsedLast(v, u, e.key, m)
  PROVE  LET o == Ahead(e, r)
         IN  /\ o \in Seq(Entries) /\ Len(o) = Len(r) + 1 /\ Recent(o, v) /\ UsedUpTo(v, m)
             /\ ToSet(o) = ToSet(r) \cup {e} /\ KeysIn(o) = KeysIn(r) \cup {e.key}
<1> DEFINE o == Ahead(e, r)
<1>1. /\ o \in Seq(Entries) /\ Len(o) = Len(r) + 1 /\ Len(r) \in Nat /\ o[1] = e
      /\ \A i \in 1..Len(r) : o[i + 1] = r[i]
  BY DEF Ahead
<1>2. e.key \in Keys
  BY DEF Entries
<1>u. u \in [Keys -> Nat] /\ m \in Nat /\ (\A x \in Keys : u[x] < m) /\ v = [u EXCEPT ![e.key] = m]
  BY DEF UsedLast, UsedBefore
<1>3. /\ v \in [Keys -> Nat] /\ v[e.key] = m
      /\ \A k \in Keys \ {e.key} : v[k] = u[k] /\ u[k] < m
  BY <1>2, <1>u
<1>4. UsedUpTo(v, m)
  <2>1. \A k \in Keys : v[k] <= m
    BY <1>3, <1>u
  <2> QED BY <1>3, <1>u, <2>1 DEF UsedUpTo
<1>5. <<e>> \in Seq(Entries) /\ ToSet(<<e>>) = {e}
  BY ToSetOne
<1>6. ToSet(o) = ToSet(r) \cup {e}
  <2>1. PICK one : one = <<e>>
    OBVIOUS
  <2>2. one \in Seq(Entries)
    BY <1>5, <2>1
  <2>3. ToSet(one \o r) = ToSet(one) \cup ToSet(r)
    BY <2>2, ToSetConcat
  <2> QED BY <1>5, <2>1, <2>3 DEF Ahead
<1>7. KeysIn(o) = KeysIn(r) \cup {e.key}
  BY <1>6 DEF KeysIn
<1>8. ASSUME NEW i \in 1..Len(r)
      PROVE  r[i].key \in Keys \ {e.key} /\ v[r[i].key] = u[r[i].key] /\ u[r[i].key] < m
  <2>1. r[i].key \in Keys /\ r[i] \in ToSet(r)
    BY OrderTypes
  <2>2. r[i].key \in KeysIn(r)
    BY <2>1 DEF KeysIn
  <2>3. r[i].key \in Keys \ {e.key}
    BY <2>1, <2>2
  <2> QED BY <1>3, <2>3
<1> HIDE DEF o
<1>9. ASSUME NEW i \in 1..Len(o), NEW j \in 1..Len(o), i < j PROVE v[o[i].key] > v[o[j].key]
  <2>1. j - 1 \in 1..Len(r) /\ o[j] = r[j - 1]
    <3>1. j - 1 \in 1..Len(r) /\ j = (j - 1) + 1
      BY <1>1, <1>9
    <3> QED BY <1>1, <3>1
  <2>2. CASE i = 1
    <3>1. v[o[i].key] = m /\ v[o[j].key] = u[r[j - 1].key] /\ u[r[j - 1].key] < m
      BY <1>1, <1>3, <1>8, <2>1, <2>2
    <3>2. u[r[j - 1].key] \in Nat
      BY <1>8, <1>u, <2>1
    <3> QED BY <1>u, <3>1, <3>2
  <2>3. CASE i # 1
    <3>1. i - 1 \in 1..Len(r) /\ i = (i - 1) + 1 /\ i - 1 < j - 1
      BY <1>1, <1>9, <2>3
    <3>2. o[i] = r[i - 1]
      BY <1>1, <3>1
    <3>3. u[r[i - 1].key] > u[r[j - 1].key]
      BY <2>1, <3>1 DEF Recent
    <3> QED BY <1>8, <2>1, <3>1, <3>2, <3>3
  <2> QED BY <2>2, <2>3
<1>10. Recent(o, v)
  BY <1>9 DEF Recent
<1> QED BY <1>1, <1>3, <1>4, <1>6, <1>7, <1>10 DEF o
-----------------------------------------------------------------------------
(* The index of a cache *)

Abouts(E) == {e.about : e \in E} \ {NoName}
KeysAbout(E, s) == {e.key : e \in {x \in E : x.about = s}}

\* The index knows the subjects of the entries, each with the keys of its own.
IsIndex(a, E) == DOMAIN a = Abouts(E) /\ \A s \in Abouts(E) : a[s] = KeysAbout(E, s)

LEMMA UnlistedIndex ==
  ASSUME NEW a, NEW E, IsIndex(a, E), NEW e \in E, \A x \in E : x.key = e.key => x = e
  PROVE  IsIndex(Unlisted(a, e.about, e.key), E \ {e})
<1> DEFINE F == E \ {e}
           b == Unlisted(a, e.about, e.key)
           rest == a[e.about] \ {e.key}
<1>1. \A s : s # e.about => KeysAbout(F, s) = KeysAbout(E, s) /\ (s \in Abouts(F) <=> s \in Abouts(E))
  BY DEF KeysAbout, Abouts
<1>2. CASE e.about = NoName
  <2>1. e.about \notin DOMAIN a /\ e.about \notin Abouts(F)
    BY <1>2 DEF IsIndex, Abouts
  <2>2. b = a
    BY <2>1 DEF Unlisted
  <2>3. Abouts(F) = Abouts(E)
    BY <1>1, <1>2 DEF Abouts
  <2> QED BY <1>1, <2>1, <2>2, <2>3 DEF IsIndex
<1>3. CASE e.about # NoName
  <2>1. e.about \in Abouts(E) /\ e.about \in DOMAIN a /\ a[e.about] = KeysAbout(E, e.about)
    BY <1>3 DEF IsIndex, Abouts
  <2>2. rest = KeysAbout(F, e.about)
    <3>1. KeysAbout(F, e.about) = KeysAbout(E, e.about) \ {e.key}
      <4>1. ASSUME NEW k \in KeysAbout(F, e.about) PROVE k \in KeysAbout(E, e.about) \ {e.key}
        BY DEF KeysAbout
      <4>2. ASSUME NEW k \in KeysAbout(E, e.about), k # e.key PROVE k \in KeysAbout(F, e.about)
        BY <4>2 DEF KeysAbout
      <4> QED BY <4>1, <4>2
    <3> QED BY <2>1, <3>1
  <2>3. e.about \in Abouts(F) <=> KeysAbout(F, e.about) # {}
    BY <1>3 DEF KeysAbout, Abouts
  <2>4. CASE rest = {}
    <3>1. b = Restrict(a, DOMAIN a \ {e.about})
      BY <2>1, <2>4 DEF Unlisted
    <3>2. DOMAIN b = DOMAIN a \ {e.about} /\ \A s \in DOMAIN b : b[s] = a[s]
      BY <3>1 DEF Restrict
    <3>3. Abouts(F) = Abouts(E) \ {e.about}
      BY <1>1, <2>2, <2>3, <2>4
    <3> HIDE DEF b, F
    <3>5. IsIndex(b, F)
      BY <1>1, <3>2, <3>3 DEF IsIndex
    <3> QED BY <3>5 DEF b, F
  <2>5. CASE rest # {}
    <3>1. b = [a EXCEPT ![e.about] = rest]
      BY <2>1, <2>5 DEF Unlisted
    <3>2. DOMAIN b = DOMAIN a /\ b[e.about] = rest /\ \A s \in DOMAIN a : s # e.about => b[s] = a[s]
      BY <2>1, <3>1
    <3>3. Abouts(F) = Abouts(E)
      BY <1>1, <2>1, <2>2, <2>3, <2>5
    <3> HIDE DEF b, F, rest
    <3>5. IsIndex(b, F)
      BY <1>1, <2>2, <3>2, <3>3 DEF IsIndex
    <3> QED BY <3>5 DEF b, F
  <2> QED BY <2>4, <2>5
<1> QED BY <1>2, <1>3

LEMMA ListedIndex ==
  ASSUME NEW a, NEW E, IsIndex(a, E), NEW e
  PROVE  IsIndex(Listed(a, e.about, e.key), E \cup {e})
<1> DEFINE F == E \cup {e}
           b == Listed(a, e.about, e.key)
<1>1. \A s : s # e.about => KeysAbout(F, s) = KeysAbout(E, s) /\ (s \in Abouts(F) <=> s \in Abouts(E))
  BY DEF KeysAbout, Abouts
<1>2. CASE e.about = NoName
  <2>1. b = a
    BY <1>2 DEF Listed
  <2>2. e.about \notin Abouts(F) /\ e.about \notin Abouts(E)
    BY <1>2 DEF Abouts
  <2>3. Abouts(F) = Abouts(E)
    BY <1>1, <2>2
  <2> QED BY <1>1, <2>1, <2>2, <2>3 DEF IsIndex
<1>3. CASE e.about # NoName
  <2>1. Abouts(F) = Abouts(E) \cup {e.about}
    BY <1>3 DEF Abouts
  <2>2. KeysAbout(F, e.about) = KeysAbout(E, e.about) \cup {e.key}
    BY DEF KeysAbout
  <2>3. CASE e.about \in DOMAIN a
    <3>1. b = [a EXCEPT ![e.about] = a[e.about] \cup {e.key}]
      BY <1>3, <2>3 DEF Listed
    <3>2. DOMAIN b = DOMAIN a /\ b[e.about] = a[e.about] \cup {e.key}
          /\ \A s \in DOMAIN a : s # e.about => b[s] = a[s]
      BY <2>3, <3>1
    <3>3. Abouts(F) = Abouts(E) /\ a[e.about] = KeysAbout(E, e.about)
      BY <2>1, <2>3 DEF IsIndex
    <3> HIDE DEF b, F
    <3>5. IsIndex(b, F)
      BY <1>1, <2>2, <3>2, <3>3 DEF IsIndex
    <3> QED BY <3>5 DEF b, F
  <2>4. CASE e.about \notin DOMAIN a
    <3>1. b = [s \in DOMAIN a \cup {e.about} |-> IF s = e.about THEN {e.key} ELSE a[s]]
      BY <1>3, <2>4 DEF Listed
    <3>2. DOMAIN b = DOMAIN a \cup {e.about} /\ b[e.about] = {e.key}
          /\ \A s \in DOMAIN a : s # e.about => b[s] = a[s]
      BY <3>1
    <3>3. e.about \notin Abouts(E) /\ DOMAIN a = Abouts(E)
      BY <2>4 DEF IsIndex
    <3>4. KeysAbout(E, e.about) = {}
      BY <1>3, <3>3 DEF KeysAbout, Abouts
    <3> HIDE DEF b, F
    <3>5. IsIndex(b, F)
      BY <1>1, <2>1, <2>2, <3>2, <3>3, <3>4 DEF IsIndex
    <3> QED BY <3>5 DEF b, F
  <2> QED BY <2>3, <2>4
<1> QED BY <1>2, <1>3
-----------------------------------------------------------------------------
(* What a cache keeps *)

\* A cache is in the order of use, knows its subjects, and keeps of each key what
\* was last written there.
Sound(c, u, kp) ==
    /\ c = [most |-> c.most, order |-> c.order, about |-> c.about]
    /\ c.most = NewLRU(Most).most
    /\ c.order \in Seq(Entries) /\ Recent(c.order, u)
    /\ IsIndex(c.about, ToSet(c.order))
    /\ \A e \in ToSet(c.order) : e.key # NoName /\ e = kp[e.key]

CacheInv ==
    /\ uses \in Nat /\ UsedUpTo(used, uses) /\ kept \in [Keys -> Entries \cup {NoEntry}]
    /\ Sound(cache, used, kept) /\ Len(cache.order) <= cache.most

LEMMA KeysOfOrder ==
  ASSUME NEW c, c.order \in Seq(Entries)
  PROVE  KeysOf(c) = KeysIn(c.order)
<1> DEFINE o == c.order
<1>1. DOMAIN o = 1..Len(o) /\ ToSet(o) = {o[i] : i \in 1..Len(o)}
  BY OrderTypes, ToSetFacts
<1>2. KeysOf(c) = {o[i].key : i \in 1..Len(o)}
  BY <1>1 DEF KeysOf
<1> HIDE DEF o
<1>3. KeysIn(o) = {o[i].key : i \in 1..Len(o)}
  BY <1>1 DEF KeysIn
<1> QED BY <1>2, <1>3 DEF o

\* The place and the entry of a key.
LEMMA EntryOfKey ==
  ASSUME NEW c, NEW u, NEW kp, u \in [Keys -> Nat], Sound(c, u, kp), NEW k, k \in KeysIn(c.order)
  PROVE  /\ PlaceOf(c, k) \in 1..Len(c.order)
         /\ EntryOf(c, k) = c.order[PlaceOf(c, k)] /\ EntryOf(c, k) \in ToSet(c.order)
         /\ EntryOf(c, k) \in Entries /\ EntryOf(c, k).key = k /\ k # NoName /\ k \in Keys
         /\ EntryOf(c, k) = kp[k]
         /\ \A x \in ToSet(c.order) : x.key = k => x = EntryOf(c, k)
<1> DEFINE o == c.order
           p == PlaceOf(c, k)
<1>1. /\ o \in Seq(Entries) /\ Recent(o, u)
      /\ \A e \in ToSet(o) : e.key # NoName /\ e = kp[e.key]
  BY DEF Sound
<1>2. DOMAIN o = 1..Len(o) /\ ToSet(o) = {o[i] : i \in 1..Len(o)}
  BY <1>1, OrderTypes, ToSetFacts
<1>3. \E i \in DOMAIN o : o[i].key = k
  <2> HIDE DEF o
  <2> QED BY <1>2 DEF KeysIn, o
<1>4. p \in DOMAIN o /\ o[p].key = k
  BY <1>3 DEF PlaceOf
<1>5. EntryOf(c, k) = o[p]
  BY DEF EntryOf
<1> HIDE DEF o, p
<1>6. p \in 1..Len(o) /\ o[p] \in ToSet(o) /\ o[p] \in Entries /\ k \in Keys
  BY <1>1, <1>2, <1>4, OrderTypes
<1>7. \A i \in 1..Len(o) : o[i].key = k => i = p
  BY <1>1, <1>4, <1>6, RecentUnique
<1>8. \A x \in ToSet(o) : x.key = k => x = o[p]
  BY <1>2, <1>7
<1>9. o[p].key # NoName /\ o[p] = kp[k]
  BY <1>1, <1>4, <1>6
<1> QED BY <1>4, <1>5, <1>6, <1>8, <1>9 DEF o, p

LEMMA DropSound ==
  ASSUME NEW c, NEW u, NEW kp, u \in [Keys -> Nat], Sound(c, u, kp), NEW k, k \in KeysIn(c.order)
  PROVE  LET d == drop(c, k)
         IN  /\ Sound(d, u, kp) /\ d.most = c.most /\ d.order = Others(c, k)
             /\ Len(d.order) = Len(c.order) - 1
             /\ ToSet(d.order) = ToSet(c.order) \ {EntryOf(c, k)}
             /\ KeysIn(d.order) = KeysIn(c.order) \ {k}
<1> DEFINE d == drop(c, k)
           o == c.order
           p == PlaceOf(c, k)
           e == EntryOf(c, k)
           r == RemoveAt(o, p)
           b == Unlisted(c.about, e.about, k)
<1>1. /\ c = [most |-> c.most, order |-> o, about |-> c.about]
      /\ c.most = NewLRU(Most).most
      /\ o \in Seq(Entries) /\ Recent(o, u) /\ IsIndex(c.about, ToSet(o))
      /\ \A x \in ToSet(o) : x.key # NoName /\ x = kp[x.key]
  BY DEF Sound
<1>2. /\ p \in 1..Len(o) /\ e = o[p] /\ e \in ToSet(o) /\ e.key = k
      /\ \A x \in ToSet(o) : x.key = k => x = e
  BY EntryOfKey
<1>3. d = [c EXCEPT !.order = r, !.about = b]
  BY DEF drop, Others
<1> HIDE DEF d, o, p, e, r
<1>4. d = [most |-> c.most, order |-> r, about |-> b]
  <2> HIDE DEF b
  <2> QED BY <1>1, <1>3
<1>5. /\ r \in Seq(Entries) /\ Len(r) = Len(o) - 1 /\ Recent(r, u)
      /\ ToSet(r) = ToSet(o) \ {e} /\ KeysIn(r) = KeysIn(o) \ {k}
  BY <1>1, <1>2, RemovedRecent DEF r
<1>6. IsIndex(b, ToSet(r))
  <2>1. \A x \in ToSet(o) : x.key = e.key => x = e
    BY <1>2
  <2>2. IsIndex(Unlisted(c.about, e.about, e.key), ToSet(o) \ {e})
    BY <1>1, <1>2, <2>1, UnlistedIndex
  <2> QED BY <1>2, <1>5, <2>2
<1> HIDE DEF b
<1>7. d.most = c.most /\ d.order = r /\ d.about = b
      /\ d = [most |-> d.most, order |-> d.order, about |-> d.about]
  BY <1>4
<1>8. \A x \in ToSet(r) : x.key # NoName /\ x = kp[x.key]
  BY <1>1, <1>5
<1>9. Sound(d, u, kp)
  BY <1>1, <1>5, <1>6, <1>7, <1>8 DEF Sound
<1>10. Others(c, k) = r
  BY DEF Others, r, o, p
<1> QED BY <1>5, <1>7, <1>9, <1>10 DEF d, o, e

\* What Get does to the order, and what it finds.
Reading(c, u, kp, k, t, m, v) ==
    /\ Sound(c, u, kp) /\ k \in Keys /\ t \in Int /\ UsedBefore(u, m)
    /\ v = [u EXCEPT ![k] = IF Get(c, k, t).found THEN m ELSE u[k]]
ReadDone(got, c, kp, k, t, m, v) ==
    /\ Sound(got.cache, v, kp) /\ v \in [Keys -> Nat] /\ \A x \in Keys : v[x] <= m
    /\ Len(got.cache.order) <= Len(c.order)
    /\ got.found =>
          /\ kp[k] \in Entries /\ k # NoName /\ kp[k].key = k
          /\ got.value = kp[k].value /\ t <= kp[k].until
    /\ \A x \in KeysIn(c.order) \ KeysIn(got.cache.order) : x = k /\ t > kp[k].until

LEMMA GetSound ==
  ASSUME NEW c, NEW u, NEW kp, NEW k, NEW t, NEW m, NEW v, Reading(c, u, kp, k, t, m, v)
  PROVE  ReadDone(Get(c, k, t), c, kp, k, t, m, v)
<1> DEFINE got == Get(c, k, t)
           e == EntryOf(c, k)
           moved == [c EXCEPT !.order = <<e>> \o Others(c, k)]
<1>0. /\ Sound(c, u, kp) /\ k \in Keys /\ t \in Int /\ UsedBefore(u, m)
      /\ v = [u EXCEPT ![k] = IF got.found THEN m ELSE u[k]]
  BY DEF Reading
<1>1. /\ c.order \in Seq(Entries) /\ Recent(c.order, u) /\ IsIndex(c.about, ToSet(c.order))
      /\ c.most = NewLRU(Most).most
      /\ c = [most |-> c.most, order |-> c.order, about |-> c.about]
      /\ \A x \in ToSet(c.order) : x.key # NoName /\ x = kp[x.key]
  BY <1>0 DEF Sound
<1>2. Len(c.order) \in Nat
  BY <1>1
<1>3. KeysOf(c) = KeysIn(c.order)
  BY <1>1, KeysOfOrder
<1>4. /\ v \in [Keys -> Nat] /\ \A x \in Keys : v[x] <= m
      /\ ~got.found => v = u
  BY <1>0 DEF UsedBefore
<1>u. u \in [Keys -> Nat]
  BY <1>0 DEF UsedBefore
<1>5. CASE k \notin KeysIn(c.order)
  <2>1. got = [cache |-> c, found |-> FALSE, value |-> 0]
    BY <1>3, <1>5 DEF Get
  <2>2. got.cache = c /\ got.found = FALSE
    BY <2>1
  <2> HIDE DEF got
  <2>3. v = u
    BY <1>4, <2>2
  <2>4. /\ Sound(got.cache, v, kp) /\ Len(got.cache.order) <= Len(c.order)
        /\ KeysIn(c.order) \ KeysIn(got.cache.order) = {}
    BY <1>0, <1>2, <2>2, <2>3
  <2> QED BY <1>4, <2>2, <2>4 DEF got, ReadDone
<1>6. CASE k \in KeysIn(c.order) /\ IsStale(e, t)
  <2>1. got = [cache |-> drop(c, k), found |-> FALSE, value |-> 0]
    BY <1>3, <1>6 DEF Get
  <2>2. got.cache = drop(c, k) /\ got.found = FALSE
    BY <2>1
  <2>3. /\ Sound(drop(c, k), u, kp) /\ Len(drop(c, k).order) = Len(c.order) - 1
        /\ KeysIn(drop(c, k).order) = KeysIn(c.order) \ {k}
    BY <1>6, <1>0, <1>u, DropSound
  <2>4. t > kp[k].until
    <3>1. k \in KeysIn(c.order)
      BY <1>6
    <3>2. e = kp[k]
      BY <1>u, <1>0, <3>1, EntryOfKey
    <3> QED BY <1>6, <3>2 DEF IsStale
  <2> HIDE DEF got
  <2>5. /\ Sound(got.cache, v, kp) /\ Len(got.cache.order) <= Len(c.order)
        /\ \A x \in KeysIn(c.order) \ KeysIn(got.cache.order) : x = k /\ t > kp[k].until
    BY <1>2, <1>4, <2>2, <2>3, <2>4
  <2> QED BY <1>4, <2>2, <2>5 DEF got, ReadDone
<1>7. CASE k \in KeysIn(c.order) /\ ~IsStale(e, t)
  <2>1. got = [cache |-> moved, found |-> TRUE, value |-> e.value]
    BY <1>3, <1>7 DEF Get
  <2>2. got.cache = moved /\ got.found = TRUE /\ got.value = e.value
    BY <2>1
  <2>3. /\ e \in Entries /\ e.key = k /\ k # NoName /\ e = kp[k] /\ e \in ToSet(c.order)
    <3>1. k \in KeysIn(c.order)
      BY <1>7
    <3> HIDE DEF got, moved
    <3> QED BY <1>u, <1>0, <3>1, EntryOfKey
  <2>4. t <= kp[k].until
    <3>1. e.until \in Int
      BY <2>3 DEF Entries
    <3> QED BY <1>0, <1>7, <2>3, <3>1 DEF IsStale
  <2> DEFINE r == Others(c, k)
             o == <<e>> \o r
  <2>5. /\ r = drop(c, k).order /\ Sound(drop(c, k), u, kp) /\ Len(r) = Len(c.order) - 1
        /\ ToSet(r) = ToSet(c.order) \ {e} /\ KeysIn(r) = KeysIn(c.order) \ {k}
    BY <1>7, <1>0, <1>u, DropSound
  <2>6. r \in Seq(Entries) /\ Recent(r, u)
    BY <2>5 DEF Sound
  <2>7. v = [u EXCEPT ![e.key] = m]
    BY <1>0, <2>2, <2>3
  <2> HIDE DEF r, e
  <2>8. e.key \notin KeysIn(r)
    BY <2>3, <2>5
  <2>9. /\ o \in Seq(Entries) /\ Len(o) = Len(r) + 1 /\ Recent(o, v)
        /\ ToSet(o) = ToSet(r) \cup {e} /\ KeysIn(o) = KeysIn(r) \cup {e.key}
    <3>1. o = Ahead(e, r) /\ UsedLast(v, u, e.key, m)
      BY <1>0, <2>7 DEF UsedLast, Ahead
    <3> HIDE DEF o
    <3>2. e \in Entries /\ r \in Seq(Entries) /\ Recent(r, u) /\ e.key \notin KeysIn(r)
      BY <2>3, <2>6, <2>8
    <3>3. o \in Seq(Entries) /\ Recent(o, v)
      BY <3>1, <3>2, PrependedRecent
    <3>4. Len(o) = Len(r) + 1
      BY <3>1, <3>2, PrependedRecent
    <3>5. ToSet(o) = ToSet(r) \cup {e}
      BY <3>1, <3>2, PrependedRecent
    <3>6. KeysIn(o) = KeysIn(r) \cup {e.key}
      BY <3>1, <3>2, PrependedRecent
    <3> QED BY <3>3, <3>4, <3>5, <3>6
  <2> HIDE DEF o
  <2>10. ToSet(o) = ToSet(c.order) /\ KeysIn(o) = KeysIn(c.order) /\ Len(o) = Len(c.order)
    BY <1>2, <1>7, <2>3, <2>5, <2>9
  <2>11. moved = [most |-> c.most, order |-> o, about |-> c.about]
    <3>1. moved = [c EXCEPT !.order = o]
      BY DEF o, r
    <3> HIDE DEF moved
    <3> QED BY <1>1, <3>1
  <2> HIDE DEF moved
  <2>12. moved.most = c.most /\ moved.order = o /\ moved.about = c.about
         /\ moved = [most |-> moved.most, order |-> moved.order, about |-> moved.about]
    BY <2>11
  <2>13. Sound(moved, v, kp)
    BY <1>1, <2>9, <2>10, <2>12 DEF Sound
  <2> HIDE DEF got
  <2>14. /\ Sound(got.cache, v, kp) /\ Len(got.cache.order) <= Len(c.order)
         /\ KeysIn(got.cache.order) = KeysIn(c.order)
    BY <1>2, <2>2, <2>10, <2>12, <2>13
  <2>15. got.value = kp[k].value /\ kp[k] \in Entries /\ kp[k].key = k
    BY <2>2, <2>3
  <2> QED BY <1>4, <1>7, <2>2, <2>3, <2>4, <2>14, <2>15 DEF got, ReadDone
<1> QED BY <1>5, <1>6, <1>7

\* What is kept under the key of an entry is the entry.
Written(kq, kp, e) == kq[e.key] = e /\ \A x \in Keys : x # e.key => kq[x] = kp[x]

\* A new entry comes first, and is listed.
Fronted(c, e) ==
    [most |-> c.most, order |-> Ahead(e, c.order), about |-> Listed(c.about, e.about, e.key)]

IsNew(e, c, u, kp, m, v, kq) ==
    /\ Sound(c, u, kp) /\ e \in Entries /\ e.key \notin KeysIn(c.order) /\ e.key # NoName
    /\ UsedLast(v, u, e.key, m) /\ Written(kq, kp, e)

LEMMA FrontSound ==
  ASSUME NEW c, NEW u, NEW kp, NEW e, NEW m, NEW v, NEW kq,
         IsNew(e, c, u, kp, m, v, kq)
  PROVE  LET d == Fronted(c, e)
         IN  /\ Sound(d, v, kq) /\ d.most = c.most /\ Len(d.order) = Len(c.order) + 1
             /\ KeysIn(d.order) = KeysIn(c.order) \cup {e.key} /\ UsedUpTo(v, m)
<1>0. /\ Sound(c, u, kp) /\ e \in Entries /\ e.key \notin KeysIn(c.order) /\ e.key # NoName
      /\ UsedLast(v, u, e.key, m) /\ kq[e.key] = e /\ \A x \in Keys : x # e.key => kq[x] = kp[x]
  BY DEF IsNew, Written
<1> DEFINE d == Fronted(c, e)
           o == Ahead(e, c.order)
           b == Listed(c.about, e.about, e.key)
<1>1. /\ c.order \in Seq(Entries) /\ Recent(c.order, u) /\ IsIndex(c.about, ToSet(c.order))
      /\ c.most = NewLRU(Most).most
      /\ c = [most |-> c.most, order |-> c.order, about |-> c.about]
      /\ \A x \in ToSet(c.order) : x.key # NoName /\ x = kp[x.key]
  BY <1>0 DEF Sound
<1>2. d = [most |-> c.most, order |-> o, about |-> b]
  BY DEF Fronted
<1>3. /\ o \in Seq(Entries) /\ Len(o) = Len(c.order) + 1 /\ Recent(o, v) /\ UsedUpTo(v, m)
      /\ ToSet(o) = ToSet(c.order) \cup {e} /\ KeysIn(o) = KeysIn(c.order) \cup {e.key}
  <2>1. PICK r : r = c.order
    OBVIOUS
  <2>2. r \in Seq(Entries) /\ Recent(r, u) /\ e.key \notin KeysIn(r)
    BY <1>0, <1>1, <2>1
  <2>3. /\ Ahead(e, r) \in Seq(Entries) /\ Len(Ahead(e, r)) = Len(r) + 1
        /\ Recent(Ahead(e, r), v) /\ UsedUpTo(v, m)
    BY <1>0, <2>2, PrependedRecent
  <2>4. ToSet(Ahead(e, r)) = ToSet(r) \cup {e}
    BY <1>0, <2>2, PrependedRecent
  <2>5. KeysIn(Ahead(e, r)) = KeysIn(r) \cup {e.key}
    BY <1>0, <2>2, PrependedRecent
  <2> QED BY <2>1, <2>3, <2>4, <2>5
<1>4. IsIndex(b, ToSet(c.order) \cup {e})
  BY <1>1, ListedIndex
<1> HIDE DEF d, o, b
<1>5. /\ d.most = c.most /\ d.order = o /\ d.about = b
      /\ d = [most |-> d.most, order |-> d.order, about |-> d.about]
  BY <1>2
<1>6. ASSUME NEW x \in ToSet(o) PROVE x.key # NoName /\ x = kq[x.key]
  <2>1. CASE x = e
    BY <1>0, <2>1
  <2>2. CASE x # e
    <3>1. x \in ToSet(c.order)
      BY <1>3, <2>2
    <3>2. x.key \in Keys /\ x.key \in KeysIn(c.order)
      BY <1>1, <3>1, OrderTypes DEF KeysIn
    <3>3. x.key # e.key
      BY <1>0, <3>2
    <3>4. kq[x.key] = kp[x.key]
      BY <1>0, <3>2, <3>3
    <3> QED BY <1>1, <3>1, <3>4
  <2> QED BY <2>1, <2>2
<1>7. Sound(d, v, kq)
  BY <1>1, <1>3, <1>4, <1>5, <1>6 DEF Sound
<1> QED BY <1>3, <1>5, <1>7 DEF d

\* What is evicted was used before all that stays.
LEMMA EvictedSound ==
  ASSUME NEW c, NEW u, NEW kp, Sound(c, u, kp), u \in [Keys -> Nat], Len(c.order) <= c.most + 1
  PROVE  LET d == Evicted(c)
         IN  /\ Sound(d, u, kp) /\ d.most = c.most /\ Len(d.order) <= c.most
             /\ \A x \in KeysIn(c.order) \ KeysIn(d.order) :
                   Len(d.order) = c.most /\ \A h \in KeysIn(d.order) : u[h] > u[x]
<1> DEFINE d == Evicted(c)
           o == c.order
           n == Len(o)
           k == Last(o).key
<1>1. o \in Seq(Entries) /\ Recent(o, u) /\ c.most = NewLRU(Most).most
  BY DEF Sound
<1>2. n \in Nat /\ c.most \in Nat \ {0}
  BY <1>1, BoundAssumption DEF NewLRU
<1>3. CASE ~(n > c.most)
  <2>1. d = c
    BY <1>3 DEF Evicted
  <2> HIDE DEF d
  <2>2. KeysIn(c.order) \ KeysIn(d.order) = {}
    BY <2>1
  <2> QED BY <1>2, <1>3, <2>1, <2>2 DEF d
<1>4. CASE n > c.most
  <2>1. d = drop(c, k)
    BY <1>4 DEF Evicted
  <2>2. n \in 1..n /\ k = o[n].key
    BY <1>1, <1>2, <1>4 DEF Last
  <2>3. o[n] \in ToSet(o)
    BY <1>1, <2>2, OrderTypes
  <2>4. k \in KeysIn(c.order)
    <3> HIDE DEF k, n
    <3> QED BY <2>2, <2>3 DEF KeysIn
  <2> HIDE DEF d, k
  <2>5. /\ Sound(d, u, kp) /\ d.most = c.most /\ Len(d.order) = Len(c.order) - 1
        /\ KeysIn(d.order) = KeysIn(c.order) \ {k}
    BY <2>1, <2>4, DropSound
  <2>6. Len(d.order) = c.most
    BY <1>2, <1>4, <2>5
  <2>7. ASSUME NEW h \in KeysIn(d.order) PROVE u[h] > u[k]
    <3>1. PICK e \in ToSet(o) : h = e.key
      BY <2>5 DEF KeysIn
    <3>2. PICK i \in 1..n : e = o[i]
      BY <1>1, OrderTypes
    <3>3. i # n
      BY <2>2, <2>5, <3>1, <3>2
    <3>4. i < n
      BY <1>2, <3>3
    <3> QED BY <1>1, <2>2, <3>1, <3>2, <3>4 DEF Recent
  <2>8. \A x \in KeysIn(c.order) \ KeysIn(d.order) : x = k
    BY <2>5
  <2>9. \A x \in KeysIn(c.order) \ KeysIn(d.order) :
           Len(d.order) = c.most /\ \A h \in KeysIn(d.order) : u[h] > u[x]
    BY <2>6, <2>7, <2>8
  <2>10. Len(d.order) <= c.most
    BY <1>2, <2>6
  <2> QED BY <2>5, <2>9, <2>10 DEF d
<1> QED BY <1>3, <1>4

Writing(c, u, kp, k, fresh, e, m, v, kq) ==
    /\ Sound(c, u, kp) /\ Len(c.order) <= c.most /\ IsStorable(k, fresh)
    /\ e \in Entries /\ e.key = k /\ UsedLast(v, u, k, m) /\ Written(kq, kp, e)
WriteDone(d, c, u, m, v, kq) ==
    /\ Sound(d, v, kq) /\ d.most = c.most /\ Len(d.order) <= c.most /\ UsedUpTo(v, m)
    /\ \A x \in KeysIn(c.order) \ KeysIn(d.order) :
          Len(d.order) = c.most /\ \A h \in KeysIn(d.order) : v[h] > u[x]

LEMMA PutSound ==
  ASSUME NEW c, NEW u, NEW kp, NEW k, NEW about, NEW value, NEW fresh, NEW time, NEW m,
         NEW v, NEW kq, NEW e, e = Entry(k, about, value, time + fresh),
         Writing(c, u, kp, k, fresh, e, m, v, kq)
  PROVE  WriteDone(Put(c, k, about, value, fresh, time), c, u, m, v, kq)
<1> DEFINE free == IF k \in KeysOf(c) THEN drop(c, k) ELSE c
           b == Fronted(free, e)
           d == Put(c, k, about, value, fresh, time)
<1>0. /\ Sound(c, u, kp) /\ Len(c.order) <= c.most /\ IsStorable(k, fresh)
      /\ e \in Entries /\ UsedLast(v, u, k, m) /\ Written(kq, kp, e)
  BY DEF Writing
<1>1. /\ c.order \in Seq(Entries) /\ c.most = NewLRU(Most).most
      /\ u \in [Keys -> Nat] /\ m \in Nat /\ (\A x \in Keys : u[x] < m) /\ v = [u EXCEPT ![k] = m]
  BY <1>0 DEF Sound, UsedLast, UsedBefore
<1>2. Len(c.order) \in Nat /\ c.most \in Nat \ {0} /\ KeysOf(c) = KeysIn(c.order)
  BY <1>1, KeysOfOrder, BoundAssumption DEF NewLRU
<1>3. e.key = k /\ k # NoName /\ e.about = about /\ k \in Keys
  <2>1. e.key \in Keys
    BY <1>0 DEF Entries
  <2> QED BY <1>0, <2>1 DEF Entry, IsStorable
<1>4. /\ Sound(free, u, kp) /\ free.most = c.most /\ Len(free.order) <= Len(c.order)
      /\ KeysIn(free.order) = KeysIn(c.order) \ {k}
  <2>1. CASE k \in KeysIn(c.order)
    <3>1. free = drop(c, k)
      BY <1>2, <2>1
    <3>2. /\ Sound(drop(c, k), u, kp) /\ drop(c, k).most = c.most
          /\ Len(drop(c, k).order) = Len(c.order) - 1
          /\ KeysIn(drop(c, k).order) = KeysIn(c.order) \ {k}
      BY <1>0, <1>1, <2>1, DropSound
    <3> HIDE DEF free
    <3> QED BY <1>2, <3>1, <3>2
  <2>2. CASE k \notin KeysIn(c.order)
    <3>1. free = c
      BY <1>2, <2>2
    <3> HIDE DEF free
    <3> QED BY <1>0, <1>2, <2>2, <3>1
  <2> QED BY <2>1, <2>2
<1>5. d = Evicted(b)
  <2>1. free = [most |-> free.most, order |-> free.order, about |-> free.about]
    BY <1>4 DEF Sound
  <2>2. d = Evicted([free EXCEPT !.order = <<e>> \o @, !.about = Listed(@, about, k)])
    BY <1>0 DEF Put
  <2> HIDE DEF free, d
  <2> DEFINE p == Ahead(e, free.order)
             q == Listed(free.about, e.about, e.key)
  <2>3. PICK g : g = [free EXCEPT !.order = p, !.about = q] /\ d = Evicted(g)
    BY <1>3, <2>2 DEF Ahead
  <2>4. b = [most |-> free.most, order |-> p, about |-> q]
    BY DEF Fronted
  <2> HIDE DEF p, q, b
  <2>5. g = [most |-> free.most, order |-> p, about |-> q]
    BY <2>1, <2>3
  <2> QED BY <2>3, <2>4, <2>5
<1> HIDE DEF free, d
<1>6. /\ Sound(b, v, kq) /\ b.most = free.most /\ Len(b.order) = Len(free.order) + 1
      /\ KeysIn(b.order) = KeysIn(free.order) \cup {k} /\ UsedUpTo(v, m)
  <2>1. IsNew(e, free, u, kp, m, v, kq)
    <3>1. UsedLast(v, u, e.key, m) /\ e.key \notin KeysIn(free.order) /\ e.key # NoName
      BY <1>0, <1>3, <1>4
    <3> QED BY <1>0, <1>4, <3>1 DEF IsNew
  <2>3. /\ Sound(b, v, kq) /\ b.most = free.most /\ Len(b.order) = Len(free.order) + 1
        /\ UsedUpTo(v, m)
    BY <2>1, FrontSound
  <2>4. KeysIn(b.order) = KeysIn(free.order) \cup {e.key}
    BY <2>1, FrontSound
  <2> HIDE DEF b
  <2> QED BY <1>3, <2>3, <2>4
<1> HIDE DEF b
<1>7. v \in [Keys -> Nat] /\ v[k] = m /\ \A x \in Keys : x # k => v[x] = u[x]
  BY <1>1, <1>3
<1>8. Len(b.order) <= b.most + 1
  <2>1. Len(free.order) \in Nat
    BY <1>4 DEF Sound
  <2> QED BY <1>0, <1>2, <1>4, <1>6, <2>1
<1>9. /\ Sound(d, v, kq) /\ d.most = c.most /\ Len(d.order) <= c.most
      /\ \A x \in KeysIn(b.order) \ KeysIn(d.order) :
            Len(d.order) = c.most /\ \A h \in KeysIn(d.order) : v[h] > v[x]
  <2>1. LET g == Evicted(b)
        IN  /\ Sound(g, v, kq) /\ g.most = b.most /\ Len(g.order) <= b.most
            /\ \A x \in KeysIn(b.order) \ KeysIn(g.order) :
                  Len(g.order) = b.most /\ \A h \in KeysIn(g.order) : v[h] > v[x]
    BY <1>6, <1>7, <1>8, EvictedSound
  <2> QED BY <1>4, <1>5, <1>6, <2>1
<1>10. ASSUME NEW x \in KeysIn(c.order) \ KeysIn(d.order)
       PROVE  Len(d.order) = c.most /\ \A h \in KeysIn(d.order) : v[h] > u[x]
  <2>1. x \in KeysIn(b.order)
    BY <1>4, <1>6
  <2>2. Len(d.order) = c.most /\ \A h \in KeysIn(d.order) : v[h] > v[x]
    BY <1>9, <2>1
  <2>3. x \in Keys /\ KeysIn(d.order) \subseteq Keys
    <3>1. d.order \in Seq(Entries)
      BY <1>9 DEF Sound
    <3> QED BY <1>1, <3>1, OrderTypes
  <2>4. v[x] \in Nat /\ u[x] \in Nat /\ v[x] >= u[x]
    BY <1>1, <1>7, <2>3
  <2>5. \A h \in KeysIn(d.order) : v[h] \in Nat
    BY <1>7, <2>3
  <2> QED BY <2>2, <2>4, <2>5
<1> QED BY <1>6, <1>9, <1>10 DEF d, WriteDone

\* The entries about a subject leave, and the index forgets it.
Dropping(c, u, kp, subject, kq) ==
    /\ Sound(c, u, kp) /\ u \in [Keys -> Nat]
    /\ \A k \in Keys : kq[k] = IF subject # NoName /\ kp[k].about = subject THEN NoEntry ELSE kp[k]
DropDone(d, c, u, kq) ==
    /\ Sound(d, u, kq) /\ d.most = c.most /\ Len(d.order) <= Len(c.order)
    /\ \A x \in KeysIn(c.order) \ KeysIn(d.order) : kq[x] = NoEntry

LEMMA InvalidateSound ==
  ASSUME NEW c, NEW u, NEW kp, NEW subject, NEW kq, Dropping(c, u, kp, subject, kq)
  PROVE  DropDone(Invalidate(c, subject), c, u, kq)
<1>0. /\ Sound(c, u, kp) /\ u \in [Keys -> Nat]
      /\ \A k \in Keys : kq[k] = IF subject # NoName /\ kp[k].about = subject THEN NoEntry ELSE kp[k]
  BY DEF Dropping
<1> DEFINE a == c.about
           o == c.order
           E == ToSet(o)
           gone == {e \in E : subject # NoName /\ e.about = subject}
           listed == IF subject \in DOMAIN a THEN a[subject] ELSE {}
           dropped == listed \cap KeysOf(c)
           Left(s) == a[s] \ {k \in dropped : EntryOf(c, k).about = s}
           subjects == {s \in DOMAIN a \ {subject} : Left(s) # {}}
           stay == {e \in E : e.key \notin dropped}
           r == Only(o, stay)
           b == [s \in subjects |-> Left(s)]
           d == Invalidate(c, subject)
<1>1. /\ o \in Seq(Entries) /\ Recent(o, u) /\ DOMAIN a = Abouts(E)
      /\ (\A s \in Abouts(E) : a[s] = KeysAbout(E, s)) /\ c.most = NewLRU(Most).most
      /\ c = [most |-> c.most, order |-> o, about |-> a]
      /\ \A x \in E : x.key # NoName /\ x = kp[x.key]
  BY <1>0 DEF Sound, IsIndex
<1>2. d = [c EXCEPT !.order = r, !.about = b]
  BY DEF Invalidate
<1>3. d = [most |-> c.most, order |-> r, about |-> b]
  <2> HIDE DEF a, o, r, b, d
  <2> QED BY <1>1, <1>2
<1>4. KeysOf(c) = KeysIn(o) /\ \A e \in E : e.key \in Keys
  BY <1>1, KeysOfOrder, OrderTypes
<1>5. listed = IF subject = NoName THEN {} ELSE KeysAbout(E, subject)
  <2>1. CASE subject = NoName
    BY <1>1, <2>1 DEF Abouts
  <2>2. CASE subject # NoName /\ subject \in Abouts(E)
    BY <1>1, <2>2
  <2>3. CASE subject # NoName /\ subject \notin Abouts(E)
    <3>1. KeysAbout(E, subject) = {}
      BY <2>3 DEF Abouts, KeysAbout
    <3> QED BY <1>1, <2>3, <3>1
  <2> QED BY <2>1, <2>2, <2>3
<1> HIDE DEF a, o, E, listed, d, r, stay
<1>6. dropped = {e.key : e \in gone}
  <2>1. listed = {e.key : e \in gone}
    BY <1>5 DEF KeysAbout
  <2>2. listed \subseteq KeysIn(o)
    BY <2>1 DEF KeysIn, E
  <2> QED BY <1>4, <2>1, <2>2
<1>7. \A x, y \in E : x.key = y.key => x = y
  BY <1>1
<1> HIDE DEF dropped
<1>8. stay = E \ gone
  BY <1>6, <1>7 DEF stay
<1>9. /\ r \in Seq(Entries) /\ Len(r) <= Len(o) /\ ToSet(r) = E \ gone
  <2>1. r \in Seq(Entries) /\ Len(r) <= Len(o) /\ ToSet(r) = ToSet(o) \cap stay
    BY <1>1, OnlyFacts DEF r
  <2> HIDE DEF gone
  <2> QED BY <1>8, <2>1 DEF E
<1>10. Recent(r, u)
  <2>1. PICK at : KeptFrom(r, at, o, Len(o), stay)
    BY <1>1, OnlyKept DEF r
  <2>2. /\ at \in [1..Len(r) -> 1..Len(o)] /\ \A k \in 1..Len(r) : r[k] = o[at[k]]
        /\ \A k, l \in 1..Len(r) : k < l => at[k] < at[l]
    BY <2>1 DEF KeptFrom
  <2> QED BY <1>1, <1>9, <2>2, ThinnedRecent
<1>11. \A s \in Abouts(E) \ {subject} : Left(s) = KeysAbout(E, s) /\ KeysAbout(E, s) # {}
  <2>1. ASSUME NEW k \in dropped PROVE EntryOf(c, k).about = subject
    <3>1. PICK e \in gone : k = e.key
      BY <1>6
    <3>2. e \in ToSet(c.order) /\ e.about = subject /\ k \in KeysIn(c.order)
      BY <3>1 DEF E, o, KeysIn
    <3>3. \A x \in ToSet(c.order) : x.key = k => x = EntryOf(c, k)
      BY <1>0, <3>2, EntryOfKey
    <3> QED BY <3>1, <3>2, <3>3
  <2>2. \A s \in Abouts(E) : KeysAbout(E, s) # {}
    BY DEF Abouts, KeysAbout
  <2> QED BY <1>1, <2>1, <2>2
<1>12. subjects = Abouts(E) \ {subject}
  BY <1>1, <1>11
<1>13. DOMAIN b = Abouts(E) \ {subject} /\ \A s \in DOMAIN b : b[s] = KeysAbout(E, s)
  <2> HIDE DEF subjects
  <2>1. DOMAIN b = subjects /\ \A s \in subjects : b[s] = Left(s)
    OBVIOUS
  <2> HIDE DEF b, Left
  <2> QED BY <1>11, <1>12, <2>1
<1> HIDE DEF b, subjects, Left
<1>14. Abouts(E \ gone) = Abouts(E) \ {subject}
  BY DEF Abouts
<1>15. \A s \in Abouts(E) \ {subject} : KeysAbout(E \ gone, s) = KeysAbout(E, s)
  BY DEF KeysAbout
<1>16. IsIndex(b, ToSet(r))
  <2> HIDE DEF gone
  <2> QED BY <1>9, <1>13, <1>14, <1>15 DEF IsIndex
<1>17. ASSUME NEW e \in E PROVE e.key \in Keys /\ kp[e.key] = e /\ kq[e.key] = IF e \in gone THEN NoEntry ELSE e
  BY <1>0, <1>1, <1>4
<1>18. \A e \in ToSet(r) : e.key # NoName /\ e = kq[e.key]
  BY <1>1, <1>9, <1>17
<1>19. /\ d.most = c.most /\ d.order = r /\ d.about = b
       /\ d = [most |-> d.most, order |-> d.order, about |-> d.about]
  BY <1>3
<1>20. Sound(d, u, kq)
  BY <1>1, <1>9, <1>10, <1>16, <1>18, <1>19 DEF Sound
<1>21. ASSUME NEW x \in KeysIn(o) \ KeysIn(r) PROVE kq[x] = NoEntry
  <2>1. PICK e \in E : x = e.key
    BY DEF KeysIn, E
  <2>2. e \in gone
    BY <1>9, <2>1 DEF KeysIn
  <2> QED BY <1>17, <2>1, <2>2
<1> QED BY <1>9, <1>19, <1>20, <1>21 DEF d, o, DropDone
-----------------------------------------------------------------------------
(* The store *)

\* What leaves the cache, and when.
LeavesForAReason ==
    /\ Len(cache'.order) <= NewLRU(Most).most
    /\ \A k \in KeysOf(cache) \ KeysOf(cache') :
          \/ kept'[k] = NoEntry
          \/ answer'.key = k /\ now > kept[k].until
          \/ /\ Len(cache'.order) = NewLRU(Most).most
             /\ \A h \in KeysOf(cache') : used'[h] > used[k]

LEMMA NextUse ==
  ASSUME CacheInv, Using
  PROVE  uses' = uses + 1 /\ uses' \in Nat /\ UsedBefore(used, uses') /\ used \in [Keys -> Nat]
<1>1. uses \in Nat /\ uses' = uses + 1 /\ used \in [Keys -> Nat] /\ \A x \in Keys : used[x] <= uses
  BY DEF CacheInv, Using, UsedUpTo
<1>2. \A x \in Keys : used[x] < uses + 1
  BY <1>1
<1> QED BY <1>1, <1>2 DEF UsedBefore

LEMMA CacheBounds ==
  ASSUME CacheInv
  PROVE  /\ Len(cache.order) \in Nat /\ cache.most = NewLRU(Most).most /\ cache.most \in Nat
         /\ cache.order \in Seq(Entries) /\ KeysOf(cache) = KeysIn(cache.order)
         /\ used \in [Keys -> Nat]
<1>1. Sound(cache, used, kept) /\ UsedUpTo(used, uses)
  BY DEF CacheInv
<1>2. cache.order \in Seq(Entries) /\ cache.most = NewLRU(Most).most /\ used \in [Keys -> Nat]
  BY <1>1 DEF Sound, UsedUpTo
<1>3. cache.most \in Nat
  BY <1>2, BoundAssumption DEF NewLRU
<1> QED BY <1>2, <1>3, KeysOfOrder

\* A sound cache within its bound stays what the invariant says of it.
LEMMA CacheInvNext ==
  ASSUME uses' \in Nat, UsedUpTo(used', uses'), kept' \in [Keys -> Entries \cup {NoEntry}],
         Sound(cache', used', kept'), Len(cache'.order) <= cache'.most
  PROVE  /\ CacheInv' /\ KeysOf(cache') = KeysIn(cache'.order)
         /\ Len(cache'.order) <= NewLRU(Most).most /\ cache'.most = NewLRU(Most).most
<1>1. CacheInv'
  BY DEF CacheInv
<1>2. cache'.order \in Seq(Entries) /\ cache'.most = NewLRU(Most).most
  BY DEF Sound
<1> QED BY <1>1, <1>2, KeysOfOrder

LEMMA ReadKeeps ==
  ASSUME BaseInv, CacheInv, NEW k \in Keys, Read(k)
  PROVE  CacheInv' /\ NoStaleAnswer' /\ LeavesForAReason
<1> DEFINE got == Get(cache, k, now)
<1>1. /\ uses' \in Nat /\ UsedBefore(used, uses') /\ used \in [Keys -> Nat]
  BY NextUse DEF Read
<1>2. /\ cache' = got.cache /\ kept' = kept
      /\ answer' = [key |-> k, found |-> got.found, value |-> got.value, at |-> now]
      /\ used' = [used EXCEPT ![k] = IF got.found THEN uses' ELSE used[k]]
  BY DEF Read
<1>3. Sound(cache, used, kept) /\ now \in Int /\ Len(cache.order) <= cache.most
  BY DEF CacheInv, BaseInv, ClockTypes
<1>4. /\ Len(cache.order) \in Nat /\ cache.most = NewLRU(Most).most /\ cache.most \in Nat
      /\ KeysOf(cache) = KeysIn(cache.order)
  BY CacheBounds
<1> DEFINE v == [used EXCEPT ![k] = IF got.found THEN uses' ELSE used[k]]
<1>5. /\ Sound(got.cache, v, kept) /\ v \in [Keys -> Nat] /\ \A x \in Keys : v[x] <= uses'
      /\ Len(got.cache.order) <= Len(cache.order)
      /\ got.found =>
            /\ kept[k] \in Entries /\ k # NoName /\ kept[k].key = k
            /\ got.value = kept[k].value /\ now <= kept[k].until
      /\ \A x \in KeysIn(cache.order) \ KeysIn(got.cache.order) : x = k /\ now > kept[k].until
  <2>1. Reading(cache, used, kept, k, now, uses', v)
    BY <1>1, <1>3 DEF Reading
  <2> HIDE DEF v
  <2>2. ReadDone(Get(cache, k, now), cache, kept, k, now, uses', v)
    BY <2>1, GetSound
  <2> QED BY <2>2 DEF ReadDone
<1> HIDE DEF got, v
<1>6. v = used'
  BY <1>2 DEF v
<1>7. UsedUpTo(used', uses')
  BY <1>1, <1>5, <1>6 DEF UsedUpTo
<1>8. /\ Sound(cache', used', kept') /\ cache'.most = NewLRU(Most).most
      /\ Len(cache'.order) \in Nat /\ Len(cache'.order) <= Len(cache.order)
  <2>1. Sound(cache', used', kept') /\ Len(cache'.order) <= Len(cache.order)
    BY <1>2, <1>5, <1>6
  <2>2. cache'.order \in Seq(Entries) /\ cache'.most = NewLRU(Most).most
    BY <2>1 DEF Sound
  <2> QED BY <2>1, <2>2
<1>9. /\ CacheInv' /\ KeysOf(cache') = KeysIn(cache'.order)
      /\ Len(cache'.order) <= NewLRU(Most).most
  <2>1. Len(cache'.order) <= cache'.most
    BY <1>3, <1>4, <1>8
  <2>2. kept' \in [Keys -> Entries \cup {NoEntry}]
    BY <1>2 DEF CacheInv
  <2> QED BY <1>1, <1>7, <1>8, <2>1, <2>2, CacheInvNext
<1>10. answer'.key = k /\ answer'.found = got.found /\ answer'.value = got.value /\ answer'.at = now
  BY <1>2
<1>11. ASSUME got.found PROVE kept[k] # NoEntry
  BY <1>5, <1>11 DEF NoEntry, Entry
<1>12. NoStaleAnswer'
  BY <1>2, <1>5, <1>10, <1>11 DEF NoStaleAnswer
<1>13. LeavesForAReason
  BY <1>2, <1>4, <1>5, <1>9, <1>10 DEF LeavesForAReason
<1> QED BY <1>9, <1>12, <1>13

LEMMA WriteKeeps ==
  ASSUME BaseInv, CacheInv, NEW k \in Keys, NEW about \in Subjects \cup {NoName},
         NEW fresh \in Lifetimes, Write(k, about, fresh)
  PROVE  CacheInv' /\ NoStaleAnswer' /\ LeavesForAReason
<1> DEFINE e == Entry(k, about, uses', now + fresh)
<1>1. /\ uses' = uses + 1 /\ uses' \in Nat /\ UsedBefore(used, uses') /\ used \in [Keys -> Nat]
  BY NextUse DEF Write
<1>2. /\ cache' = Put(cache, k, about, uses', fresh, now) /\ answer' = NoAnswer
  BY DEF Write
<1>3. Sound(cache, used, kept) /\ now \in Int /\ Len(cache.order) <= cache.most
      /\ kept \in [Keys -> Entries \cup {NoEntry}] /\ uses \in Nat /\ UsedUpTo(used, uses)
  BY DEF CacheInv, BaseInv, ClockTypes
<1>4. /\ Len(cache.order) \in Nat /\ cache.most = NewLRU(Most).most /\ cache.most \in Nat
      /\ KeysOf(cache) = KeysIn(cache.order)
  BY CacheBounds
<1>5. NoStaleAnswer'
  BY <1>2 DEF NoStaleAnswer, NoAnswer
<1>6. CASE ~IsStorable(k, fresh)
  <2>1. cache' = cache /\ kept' = kept /\ used' = used
    BY <1>2, <1>6 DEF Write, Put
  <2>2. UsedUpTo(used', uses')
    BY <1>1, <1>3, <2>1 DEF UsedUpTo
  <2>3. /\ CacheInv' /\ Len(cache'.order) <= NewLRU(Most).most
    BY <1>1, <1>3, <2>1, <2>2, CacheInvNext
  <2>4. LeavesForAReason
    BY <2>1, <2>3 DEF LeavesForAReason
  <2> QED BY <1>5, <2>3, <2>4
<1>7. CASE IsStorable(k, fresh)
  <2>1. kept' = [kept EXCEPT ![k] = e] /\ used' = [used EXCEPT ![k] = uses']
    BY <1>7 DEF Write
  <2>2. e \in Entries /\ e.key = k
    BY <1>1, <1>3, BoundAssumption DEF Entries, Entry
  <2>3. UsedLast(used', used, k, uses')
    BY <1>1, <2>1 DEF UsedLast
  <2>4. PICK g : g = e
    OBVIOUS
  <2> HIDE DEF e
  <2>5. Written(kept', kept, g) /\ kept' \in [Keys -> Entries \cup {NoEntry}]
    <3>1. kept'[k] = e /\ \A x \in Keys : x # k => kept'[x] = kept[x]
      BY <1>3, <2>1
    <3>2. kept' \in [Keys -> Entries \cup {NoEntry}]
      BY <1>3, <2>1, <2>2
    <3> QED BY <2>2, <2>4, <3>1, <3>2 DEF Written
  <2>6. g \in Entries /\ g = Entry(k, about, uses', now + fresh)
    BY <2>2, <2>4 DEF e
  <2>7. LET d == Put(cache, k, about, uses', fresh, now)
        IN  /\ Sound(d, used', kept') /\ d.most = cache.most /\ Len(d.order) <= cache.most
            /\ UsedUpTo(used', uses')
            /\ \A x \in KeysIn(cache.order) \ KeysIn(d.order) :
                  Len(d.order) = cache.most /\ \A h \in KeysIn(d.order) : used'[h] > used[x]
    <3>1. Writing(cache, used, kept, k, fresh, g, uses', used', kept')
      BY <1>3, <1>7, <2>2, <2>3, <2>4, <2>5, <2>6 DEF Writing
    <3>2. WriteDone(Put(cache, k, about, uses', fresh, now), cache, used, uses', used', kept')
      BY <2>6, <3>1, PutSound
    <3> QED BY <3>2 DEF WriteDone
  <2>8. /\ Sound(cache', used', kept') /\ cache'.most = cache.most /\ Len(cache'.order) <= cache.most
        /\ UsedUpTo(used', uses')
        /\ \A x \in KeysIn(cache.order) \ KeysIn(cache'.order) :
              Len(cache'.order) = cache.most /\ \A h \in KeysIn(cache'.order) : used'[h] > used[x]
    BY <1>2, <2>7
  <2>9. /\ CacheInv' /\ KeysOf(cache') = KeysIn(cache'.order)
        /\ Len(cache'.order) <= NewLRU(Most).most
    BY <1>1, <2>5, <2>8, CacheInvNext
  <2>10. LeavesForAReason
    BY <1>4, <2>8, <2>9 DEF LeavesForAReason
  <2> QED BY <1>5, <2>9, <2>10
<1> QED BY <1>6, <1>7

LEMMA DropKeeps ==
  ASSUME CacheInv, NEW subject, Drop(subject)
  PROVE  CacheInv' /\ NoStaleAnswer' /\ LeavesForAReason
<1>1. /\ uses' = uses + 1 /\ uses' \in Nat /\ UsedBefore(used, uses') /\ used \in [Keys -> Nat]
  BY NextUse DEF Drop
<1>2. /\ cache' = Invalidate(cache, subject) /\ answer' = NoAnswer /\ used' = used
      /\ kept' = [k \in Keys |-> IF subject # NoName /\ kept[k].about = subject THEN NoEntry ELSE kept[k]]
  BY DEF Drop
<1>3. Sound(cache, used, kept) /\ Len(cache.order) <= cache.most
      /\ kept \in [Keys -> Entries \cup {NoEntry}] /\ uses \in Nat /\ UsedUpTo(used, uses)
  BY DEF CacheInv
<1>4. /\ Len(cache.order) \in Nat /\ cache.most = NewLRU(Most).most /\ cache.most \in Nat
      /\ KeysOf(cache) = KeysIn(cache.order)
  BY CacheBounds
<1>5. NoStaleAnswer'
  BY <1>2 DEF NoStaleAnswer, NoAnswer
<1>6. \A k \in Keys : kept'[k] = IF subject # NoName /\ kept[k].about = subject THEN NoEntry ELSE kept[k]
  BY <1>2
<1>7. kept' \in [Keys -> Entries \cup {NoEntry}]
  BY <1>2, <1>3
<1>8. LET d == Invalidate(cache, subject)
      IN  /\ Sound(d, used, kept') /\ d.most = cache.most /\ Len(d.order) <= Len(cache.order)
          /\ \A x \in KeysIn(cache.order) \ KeysIn(d.order) : kept'[x] = NoEntry
  <2>1. Dropping(cache, used, kept, subject, kept')
    BY <1>1, <1>3, <1>6 DEF Dropping
  <2>2. DropDone(Invalidate(cache, subject), cache, used, kept')
    BY <2>1, InvalidateSound
  <2> QED BY <2>2 DEF DropDone
<1>9. /\ Sound(cache', used', kept') /\ cache'.most = cache.most
      /\ Len(cache'.order) <= Len(cache.order)
      /\ \A x \in KeysIn(cache.order) \ KeysIn(cache'.order) : kept'[x] = NoEntry
  BY <1>2, <1>8
<1>10. Len(cache'.order) \in Nat
  BY <1>9 DEF Sound
<1>11. UsedUpTo(used', uses')
  BY <1>1, <1>2, <1>3 DEF UsedUpTo
<1>12. /\ CacheInv' /\ KeysOf(cache') = KeysIn(cache'.order)
       /\ Len(cache'.order) <= NewLRU(Most).most
  <2>1. Len(cache'.order) <= cache'.most
    BY <1>3, <1>4, <1>9, <1>10
  <2> QED BY <1>1, <1>7, <1>9, <1>11, <2>1, CacheInvNext
<1>13. LeavesForAReason
  BY <1>4, <1>9, <1>12 DEF LeavesForAReason
<1> QED BY <1>5, <1>12, <1>13

\* Steps of the fibers and of the test leave the store alone.
LEMMA StoreStep ==
  ASSUME BaseInv, CacheInv, NoStaleAnswer, [Next]_vars
  PROVE  CacheInv' /\ NoStaleAnswer' /\ (LeavesForAReason \/ UNCHANGED vars)
<1>1. ASSUME UNCHANGED cacheVars PROVE CacheInv' /\ NoStaleAnswer' /\ LeavesForAReason
  <2>1. cache' = cache /\ uses' = uses /\ answer' = answer /\ kept' = kept /\ used' = used
    BY <1>1 DEF cacheVars
  <2>2. Len(cache.order) <= NewLRU(Most).most
    BY CacheBounds DEF CacheInv
  <2>3. LeavesForAReason
    BY <2>1, <2>2 DEF LeavesForAReason
  <2> QED BY <2>1, <2>3 DEF CacheInv, NoStaleAnswer
<1>2. CASE \E f \in Fibers : FiberStep(f)
  <2>1. UNCHANGED cacheVars
    BY <1>2, FiberFrame
  <2> QED BY <1>1, <2>1
<1>3. CASE CacheStep
  <2>1. CASE \E k \in Keys : Read(k)
    BY <2>1, ReadKeeps
  <2>2. CASE \E k \in Keys, about \in Subjects \cup {NoName}, fresh \in Lifetimes : Write(k, about, fresh)
    BY <2>2, WriteKeeps
  <2>3. CASE \E subject \in Subjects \cup {NoName} : Drop(subject)
    BY <2>3, DropKeeps
  <2> QED BY <1>3, <2>1, <2>2, <2>3 DEF CacheStep
<1>4. CASE Drive
  <2>1. UNCHANGED cacheVars
    BY <1>4, DriveFrame
  <2> QED BY <1>1, <2>1
<1>5. CASE UNCHANGED vars
  <2>1. UNCHANGED cacheVars
    BY <1>5 DEF vars
  <2> QED BY <1>1, <2>1
<1> QED BY <1>2, <1>3, <1>4, <1>5, Steps

LEMMA StoreInit ==
  ASSUME Init
  PROVE  CacheInv /\ NoStaleAnswer
<1>1. /\ cache = NewLRU(Most) /\ uses = 0 /\ answer = NoAnswer
      /\ kept = [k \in Keys |-> NoEntry] /\ used = [k \in Keys |-> 0]
  BY DEF Init
<1>2. /\ cache.order = <<>> /\ cache.about = <<>> /\ cache.most \in Nat
      /\ cache = [most |-> cache.most, order |-> cache.order, about |-> cache.about]
  BY <1>1, BoundAssumption DEF NewLRU
<1>3. cache.order \in Seq(Entries) /\ ToSet(cache.order) = {} /\ Len(cache.order) = 0
  <2>1. <<>> \in Seq(Entries) /\ Len(<<>>) = 0
    OBVIOUS
  <2>2. ToSet(<<>>) = {}
    BY <2>1, ToSetFacts
  <2> QED BY <1>2, <2>1, <2>2
<1>4. IsIndex(cache.about, {})
  <2>1. DOMAIN <<>> = {}
    OBVIOUS
  <2> QED BY <1>2, <2>1 DEF IsIndex, Abouts
<1>5. Recent(cache.order, used)
  BY <1>3 DEF Recent
<1>6. Sound(cache, used, kept)
  BY <1>1, <1>2, <1>3, <1>4, <1>5 DEF Sound
<1>7. UsedUpTo(used, uses) /\ kept \in [Keys -> Entries \cup {NoEntry}]
  BY <1>1 DEF UsedUpTo
<1>8. CacheInv
  BY <1>1, <1>2, <1>3, <1>6, <1>7 DEF CacheInv
<1> QED BY <1>1, <1>8 DEF NoStaleAnswer, NoAnswer

LEMMA ClockedStore == Spec => [](BaseInv /\ CacheInv /\ NoStaleAnswer)
<1>1. Init => CacheInv /\ NoStaleAnswer
  BY StoreInit
<1>2. BaseInv /\ (CacheInv /\ NoStaleAnswer) /\ [Next]_vars => (CacheInv /\ NoStaleAnswer)'
  BY StoreStep
<1> QED BY <1>1, <1>2, ClockedBase, PTL DEF Spec

\* What LRU.Get finds was last written under its key, is not past its date, and
\* was not invalidated since, whatever was read, written, evicted and invalidated
\* before, for every bound, lifetime and set of keys and subjects.
THEOREM ClockedNoStaleAnswer == Spec => []NoStaleAnswer
BY ClockedStore, PTL

\* After every operation the index of the cache has exactly the subjects of its
\* entries, and under each of them exactly the keys of the entries about it
\* (LRU.Put, Get, drop and Invalidate keep byKey, order and about together).
THEOREM ClockedIndexExact == Spec => []IsIndex(cache.about, ToSet(cache.order))
<1>1. CacheInv => IsIndex(cache.about, ToSet(cache.order))
  BY DEF CacheInv, Sound
<1> QED BY <1>1, ClockedStore, PTL

\* An entry leaves the cache only when its subject is invalidated, when a reader
\* finds it past its date, or when LRU.Put makes room and it is the one used
\* longest ago; and the cache never holds more than its bound.
THEOREM ClockedEvicts == Spec => EvictsLeastRecentlyUsed
<1>1. BaseInv /\ CacheInv /\ NoStaleAnswer /\ [Next]_vars => [LeavesForAReason]_vars
  BY StoreStep
<1>2. Spec => [][LeavesForAReason]_vars
  BY <1>1, ClockedStore, PTL DEF Spec
<1> QED BY <1>2 DEF EvictsLeastRecentlyUsed, LeavesForAReason
-----------------------------------------------------------------------------
(* What a recurring fiber tells *)

Least(n) == IF n < MaxCount THEN n ELSE MaxCount
MayGoOn(loop, o) ==
    IF loop = "repeat" THEN o \in Successes
    ELSE o \in {"transient", "fatal"} \/ (loop = "retryCause" /\ o = "both")
EventOf(loop, decision) ==
    IF decision.continues THEN "scheduled" ELSE IF loop = "repeat" THEN "completed" ELSE "exhausted"

\* A driver was asked about outcomes that allow it, once per attempt, and only its
\* last answer may be to stop; there is an event for each answer, with the number
\* of its attempt, and at most one more, for the success.
Story(loop, r, a, t) ==
    /\ Len(a) <= Len(r) /\ Len(r) <= Len(a) + 1
    /\ \A i \in 1..Len(a) :
          /\ MayGoOn(loop, r[i].outcome)
          /\ t[i].kind = EventOf(loop, a[i].decision) /\ t[i].number = Least(i)
          /\ i < Len(a) => a[i].decision.continues
    /\ \/ Len(t) = Len(a)
       \/ /\ Len(t) = Len(a) + 1
          /\ t[Len(t)].kind = "succeeded" /\ t[Len(t)].number = Least(Len(r))

Stopped(a) == Len(a) > 0 /\ ~a[Len(a)].decision.continues

\* While it goes on, every answer was to go on, and the next event is that of the
\* attempt at hand.
Underway(loop, a, t, n, again) ==
    /\ ~Stopped(a) /\ Len(t) = Len(a)
    /\ n = Least(Len(a) + 1) /\ (again <=> loop \in Retries /\ Len(a) > 0)

\* Why it ended.
Over(loop, r, a, t, how) ==
    /\ Len(t) > Len(a) <=> (loop # "repeat" /\ how \in Successes \cup {"fallback"} /\ Len(r) > 1)
    /\ \/ how = "interrupt"
       \/ how \in {"fallback", "fallbackFailed"} /\ loop = "retryOrElse" /\ Len(r) = Len(a) /\ Stopped(a)
       \/ how = "output" /\ loop = "repeat" /\ Len(r) = Len(a) /\ Stopped(a)
       \/ /\ how \in Inputs /\ Len(r) > 0 /\ how = r[Len(r)].outcome
          /\ MayGoOn(loop, how) => Stopped(a) /\ loop # "retryOrElse"

Tells(f) ==
    plan.loop \in Recurrences =>
        /\ Story(plan.loop, ran[f], asked[f], told[f])
        /\ pc[f] = "idle" => asked[f] = <<>> /\ told[f] = <<>> /\ ~repeated[f]
        /\ pc[f] \in {"attempt", "decide"} \cup InSleep =>
              Underway(plan.loop, asked[f], told[f], number[f], repeated[f])
        /\ pc[f] = "decide" => (Last(ran[f]).outcome \in Successes <=> plan.loop = "repeat")
        /\ pc[f] = "fallback" =>
              /\ Stopped(asked[f]) /\ Len(told[f]) = Len(asked[f])
              /\ number[f] = Least(Len(asked[f])) /\ (repeated[f] <=> Len(asked[f]) > 1)
        /\ pc[f] = "done" =>
              /\ Over(plan.loop, ran[f], asked[f], told[f], exit[f])
              /\ exit[f] = "interrupt" => f \in cancelled

TellInv == \A f \in Fibers : Tells(f)

\* One sequence is another with an element more.
Grown(s, r, x) ==
    /\ Len(r) \in Nat /\ Len(s) = Len(r) + 1
    /\ (\A i \in 1..Len(r) : s[i] = r[i]) /\ s[Len(s)] = x

LEMMA AppendGrows ==
  ASSUME NEW S, NEW r \in Seq(S), NEW x
  PROVE  Grown(Append(r, x), r, x)
<1> DEFINE T == S \cup {x}
<1>1. r \in Seq(T) /\ x \in T
  OBVIOUS
<1> HIDE DEF T
<1>2. /\ Len(Append(r, x)) = Len(r) + 1 /\ Len(r) \in Nat
      /\ (\A i \in 1..Len(r) : Append(r, x)[i] = r[i]) /\ Append(r, x)[Len(r) + 1] = x
  BY <1>1, AppendFacts
<1> QED BY <1>2 DEF Grown

LEMMA StoryAttempted ==
  ASSUME NEW loop, NEW r, NEW a, NEW t, NEW s, NEW x, Grown(s, r, x), Len(a) \in Nat,
         Story(loop, r, a, t), Len(r) = Len(a), Len(t) = Len(a)
  PROVE  Story(loop, s, a, t)
<1>1. Len(s) = Len(a) + 1 /\ \A i \in 1..Len(a) : s[i] = r[i]
  BY DEF Grown
<1>2. Len(a) <= Len(s) /\ Len(s) <= Len(a) + 1
  BY <1>1
<1>3. ASSUME NEW i \in 1..Len(a)
      PROVE  /\ MayGoOn(loop, s[i].outcome)
             /\ t[i].kind = EventOf(loop, a[i].decision) /\ t[i].number = Least(i)
             /\ i < Len(a) => a[i].decision.continues
  BY <1>1 DEF Story
<1> QED BY <1>2, <1>3 DEF Story

LEMMA StorySucceeded ==
  ASSUME NEW loop, NEW r, NEW a, NEW t, NEW u, NEW e, Grown(u, t, e), Len(a) \in Nat,
         Story(loop, r, a, t), Len(t) = Len(a), e.kind = "succeeded", e.number = Least(Len(r))
  PROVE  Story(loop, r, a, u)
<1>1. Len(u) = Len(a) + 1 /\ u[Len(u)] = e /\ \A i \in 1..Len(a) : u[i] = t[i]
  BY DEF Grown
<1>2. ASSUME NEW i \in 1..Len(a)
      PROVE  /\ MayGoOn(loop, r[i].outcome)
             /\ u[i].kind = EventOf(loop, a[i].decision) /\ u[i].number = Least(i)
             /\ i < Len(a) => a[i].decision.continues
  BY <1>1 DEF Story
<1>3. Len(a) <= Len(r) /\ Len(r) <= Len(a) + 1
  BY DEF Story
<1> QED BY <1>1, <1>2, <1>3 DEF Story

LEMMA StoryAnswered ==
  ASSUME NEW loop, NEW r, NEW a, NEW t, NEW b, NEW x, NEW u, NEW e, Grown(b, a, x), Grown(u, t, e),
         Story(loop, r, a, t), ~Stopped(a), Len(t) = Len(a), Len(r) = Len(a) + 1,
         MayGoOn(loop, r[Len(r)].outcome),
         e.kind = EventOf(loop, x.decision), e.number = Least(Len(a) + 1)
  PROVE  Story(loop, r, b, u) /\ Len(u) = Len(b) /\ Len(b) = Len(r)
         /\ (Stopped(b) <=> ~x.decision.continues)
<1>1. /\ Len(a) \in Nat /\ Len(b) = Len(a) + 1 /\ Len(u) = Len(a) + 1
      /\ b[Len(b)] = x /\ u[Len(u)] = e
      /\ \A i \in 1..Len(a) : b[i] = a[i] /\ u[i] = t[i]
  BY DEF Grown
<1>2. Len(b) <= Len(r) /\ Len(r) <= Len(b) + 1 /\ Len(b) > 0
  BY <1>1
<1>3. ASSUME NEW i \in 1..Len(b)
      PROVE  /\ MayGoOn(loop, r[i].outcome)
             /\ u[i].kind = EventOf(loop, b[i].decision) /\ u[i].number = Least(i)
             /\ i < Len(b) => b[i].decision.continues
  <2>1. CASE i = Len(b)
    BY <1>1, <2>1
  <2>2. CASE i # Len(b)
    <3>1. i \in 1..Len(a) /\ b[i] = a[i] /\ u[i] = t[i]
      BY <1>1, <2>2
    <3>2. /\ MayGoOn(loop, r[i].outcome)
          /\ t[i].kind = EventOf(loop, a[i].decision) /\ t[i].number = Least(i)
          /\ i < Len(a) => a[i].decision.continues
      BY <3>1 DEF Story
    <3>3. i < Len(a) \/ i = Len(a)
      BY <1>1, <3>1
    <3>4. a[i].decision.continues
      BY <1>1, <3>1, <3>2, <3>3 DEF Stopped
    <3> QED BY <3>1, <3>2, <3>4
  <2> QED BY <2>1, <2>2
<1>4. Story(loop, r, b, u)
  BY <1>1, <1>2, <1>3 DEF Story
<1> QED BY <1>1, <1>2, <1>4 DEF Stopped

LEMMA EligibleMayGoOn ==
  ASSUME plan.loop \in Recurrences, NEW o
  PROVE  MayGoOn(plan.loop, o) = IF plan.loop = "repeat" THEN o \in Successes ELSE Eligible(o)
BY DEF MayGoOn, Eligible

\* Who is left alone has the same to tell; a cancellation only adds to it.
LEMMA TellsElsewhere ==
  ASSUME NEW g \in Fibers, Tells(g), UNCHANGED <<plan, Here(g)>>, cancelled \subseteq cancelled'
  PROVE  Tells(g)'
<1>1. /\ plan' = plan /\ pc'[g] = pc[g] /\ number'[g] = number[g]
      /\ repeated'[g] = repeated[g] /\ exit'[g] = exit[g]
      /\ ran'[g] = ran[g] /\ asked'[g] = asked[g] /\ told'[g] = told[g]
  BY DEF Here
<1>2. g \in cancelled => g \in cancelled'
  OBVIOUS
<1> QED BY <1>1, <1>2 DEF Tells

LEMMA OtherTells ==
  ASSUME NEW f, plan' = plan, plan.loop \notin Recurrences
  PROVE  Tells(f)'
BY DEF Tells

\* Sleeping and waking tell nothing.
LEMMA QuietTells ==
  ASSUME NEW f \in Fibers, Tells(f), pc[f] \in InSleep, pc'[f] \in {"attempt"} \cup InSleep,
         UNCHANGED <<plan, number[f], repeated[f], ran[f], asked[f], told[f]>>
  PROVE  Tells(f)'
<1>1. CASE plan.loop \in Recurrences
  <2>1. /\ Story(plan.loop, ran[f], asked[f], told[f])
        /\ Underway(plan.loop, asked[f], told[f], number[f], repeated[f])
    BY <1>1 DEF Tells
  <2>2. pc'[f] \notin {"idle", "decide", "fallback", "done"}
    BY DEF InSleep
  <2> QED BY <2>1, <2>2 DEF Tells
<1> QED BY <1>1, OtherTells

\* Nor does an interruption, wherever it finds the fiber.
LEMMA InterruptionTells ==
  ASSUME NEW f \in Fibers, Tells(f), pc[f] \in {"attempt", "decide", "fallback"} \cup InSleep,
         pc'[f] = "done", exit'[f] = "interrupt", f \in cancelled',
         UNCHANGED <<plan, ran[f], asked[f], told[f]>>
  PROVE  Tells(f)'
<1>1. CASE plan.loop \in Recurrences
  <2>1. Story(plan.loop, ran[f], asked[f], told[f])
    BY <1>1 DEF Tells
  <2>2. Len(told[f]) = Len(asked[f])
    BY <1>1 DEF Tells, Underway
  <2>3. ~(Len(asked[f]) > Len(asked[f]))
    <3>1. PICK n : n = Len(asked[f])
      OBVIOUS
    <3> QED OBVIOUS
  <2>4. Over(plan.loop, ran[f], asked[f], told[f], "interrupt")
    BY <2>2, <2>3 DEF Over, Successes
  <2>5. pc'[f] \notin {"idle", "attempt", "decide", "fallback"} \cup InSleep
    BY DEF InSleep
  <2> QED BY <2>1, <2>4, <2>5 DEF Tells
<1> QED BY <1>1, OtherTells

LEMMA StartTells ==
  ASSUME BaseInv, NEW f \in Fibers, Tells(f), Start(f)
  PROVE  Tells(f)'
<1>1. pc[f] = "idle" /\ UNCHANGED <<plan, repeated[f], ran[f], asked[f], told[f]>>
      /\ (plan.loop \in Recurrences => pc'[f] = "attempt" /\ number'[f] = 1)
  BY StartDoes DEF BaseInv, Recurrences, Retries
<1>2. CASE plan.loop \in Recurrences
  <2>1. /\ Story(plan.loop, ran[f], asked[f], told[f]) /\ asked[f] = <<>> /\ told[f] = <<>>
        /\ repeated[f] = FALSE
    BY <1>1, <1>2 DEF Tells, BaseInv, Typed
  <2>2. Least(0 + 1) = 1
    BY WidthAssumption DEF Least
  <2>3. Len(asked[f]) = 0 /\ Len(told[f]) = 0
    BY <2>1
  <2>4. Underway(plan.loop, asked[f], told[f], 1, repeated[f])
    BY <2>1, <2>2, <2>3 DEF Underway, Stopped
  <2>5. pc'[f] \notin {"idle", "decide", "fallback", "done"}
    BY <1>1, <1>2
  <2> QED BY <1>1, <1>2, <2>1, <2>4, <2>5 DEF Tells
<1> QED BY <1>1, <1>2, OtherTells

LEMMA AttemptTells ==
  ASSUME BaseInv, NEW f \in Fibers, Tells(f), Attempt(f)
  PROVE  Tells(f)'
<1>1. plan' = plan /\ pc[f] = "attempt" /\ UNCHANGED <<number[f], repeated[f], asked[f]>>
  BY AttemptDoes DEF BaseInv
<1>2. SUFFICES ASSUME plan.loop \in Recurrences PROVE Tells(f)'
  BY <1>1, OtherTells
<1> DEFINE loop == plan.loop
           r == ran[f]
           a == asked[f]
           t == told[f]
<1>3. PICK o \in Outcomes :
        /\ ran'[f] = Append(r, [at |-> now, outcome |-> o])
        /\ \/ /\ (loop = "repeat" /\ o \in Successes) \/ (loop \in Retries /\ o \notin Successes)
              /\ pc'[f] = "decide" /\ UNCHANGED <<exit[f], told[f]>>
           \/ /\ ~((loop = "repeat" /\ o \in Successes) \/ (loop \in Retries /\ o \notin Successes))
              /\ pc'[f] = "done" /\ exit'[f] = o
              /\ \/ /\ o \in Successes /\ repeated[f]
                    /\ told'[f] = Append(t, [kind |-> "succeeded", number |-> number[f], delay |-> 0])
                 \/ ~(o \in Successes /\ repeated[f]) /\ UNCHANGED told[f]
  BY AttemptDoes DEF BaseInv
<1>4. /\ Story(loop, r, a, t) /\ Underway(loop, a, t, number[f], repeated[f])
      /\ Len(r) = Len(a) /\ Len(a) \in Nat /\ r \in Seq(Attempts) /\ t \in Seq(Events)
  BY <1>1, <1>2 DEF BaseInv, Typed, InStep, Tells
<1>5. /\ ~Stopped(a) /\ Len(t) = Len(a) /\ number[f] = Least(Len(a) + 1)
      /\ (repeated[f] <=> loop \in Retries /\ Len(a) > 0)
  BY <1>4 DEF Underway
<1>6. PICK s : s = ran'[f]
  OBVIOUS
<1>7. PICK x : x = [at |-> now, outcome |-> o]
  OBVIOUS
<1>8. Grown(s, r, x) /\ x.outcome = o
  <2>1. Grown(Append(r, x), r, x)
    BY <1>4, AppendGrows
  <2> QED BY <1>3, <1>6, <1>7, <2>1
<1>9. Len(s) = Len(a) + 1 /\ s[Len(s)].outcome = o
  BY <1>4, <1>8 DEF Grown
<1> HIDE DEF loop, r, a, t
<1>10. Story(loop, s, a, t)
  BY <1>4, <1>5, <1>8, StoryAttempted
<1>11. o \in Inputs
  BY OutcomeTypes
<1>12. ASSUME loop = "repeat" <=> o \in Successes, pc'[f] = "decide", UNCHANGED told[f]
       PROVE  Tells(f)'
  <2>1. s # <<>> /\ Last(s).outcome = o
    BY <1>4, <1>9 DEF Last
  <2>2. Underway(loop, a, t, number'[f], repeated'[f])
    BY <1>1, <1>4
  <2> QED BY <1>1, <1>6, <1>10, <1>12, <2>1, <2>2 DEF Tells, InSleep, loop, a, t
<1>13. ASSUME loop # "repeat" <=> o \in Successes, pc'[f] = "done", exit'[f] = o,
              NEW u, u = told'[f], Story(loop, s, a, u),
              Len(u) > Len(a) <=> o \in Successes /\ repeated[f]
       PROVE  Tells(f)'
  <2>1. ~MayGoOn(loop, o)
    BY <1>13 DEF MayGoOn, Successes
  <2>2. loop # "repeat" <=> loop \in Retries
    BY <1>2 DEF Recurrences, Retries, loop
  <2>3. (o \in Successes /\ repeated[f]) <=>
           (loop # "repeat" /\ o \in Successes \cup {"fallback"} /\ Len(s) > 1)
    <3>1. o # "fallback"
      BY <1>11 DEF Inputs
    <3>2. Len(a) > 0 <=> Len(s) > 1
      BY <1>4, <1>9
    <3> QED BY <1>5, <2>2, <3>1, <3>2
  <2>4. Len(s) > 0
    BY <1>4, <1>9
  <2>5. Len(u) > Len(a) <=> (loop # "repeat" /\ o \in Successes \cup {"fallback"} /\ Len(s) > 1)
    BY <1>13, <2>3
  <2>6. o \in Inputs /\ Len(s) > 0 /\ o = s[Len(s)].outcome
    BY <1>9, <1>11, <2>4
  <2>7. Over(loop, s, a, u, o)
    BY <2>1, <2>5, <2>6, Zenon DEF Over
  <2>8. o # "interrupt"
    BY <1>11 DEF Inputs
  <2> QED BY <1>1, <1>6, <1>13, <2>7, <2>8 DEF Tells, InSleep, loop, a
<1>14. CASE /\ (loop = "repeat" /\ o \in Successes) \/ (loop \in Retries /\ o \notin Successes)
            /\ pc'[f] = "decide" /\ UNCHANGED <<exit[f], told[f]>>
  <2>1. loop = "repeat" <=> o \in Successes
    BY <1>14 DEF Retries
  <2> QED BY <1>12, <1>14, <2>1
<1>15. CASE /\ ~((loop = "repeat" /\ o \in Successes) \/ (loop \in Retries /\ o \notin Successes))
            /\ pc'[f] = "done" /\ exit'[f] = o
  <2>1. loop # "repeat" <=> o \in Successes
    BY <1>2, <1>15 DEF Recurrences, loop
  <2>2. CASE /\ o \in Successes /\ repeated[f]
             /\ told'[f] = Append(t, [kind |-> "succeeded", number |-> number[f], delay |-> 0])
    <3>1. PICK u : u = told'[f]
      OBVIOUS
    <3>2. PICK e : e = [kind |-> "succeeded", number |-> number[f], delay |-> 0]
      OBVIOUS
    <3>3. Grown(u, t, e)
      BY <1>4, <2>2, <3>1, <3>2, AppendGrows
    <3>4. e.kind = "succeeded" /\ e.number = Least(Len(s))
      BY <1>5, <1>9, <3>2
    <3>5. Story(loop, s, a, u)
      BY <1>4, <1>5, <1>10, <3>3, <3>4, StorySucceeded
    <3>6. Len(u) > Len(a)
      BY <1>4, <1>5, <3>3 DEF Grown
    <3> QED BY <1>13, <1>15, <2>1, <2>2, <3>1, <3>5, <3>6
  <2>3. CASE ~(o \in Successes /\ repeated[f]) /\ UNCHANGED told[f]
    <3>1. ~(Len(t) > Len(a)) /\ t = told'[f]
      BY <1>4, <1>5, <2>3 DEF t
    <3> QED BY <1>10, <1>13, <1>15, <2>1, <2>3, <3>1
  <2> QED BY <1>3, <1>15, <2>2, <2>3
<1> QED BY <1>3, <1>14, <1>15

LEMMA LeastNext ==
  ASSUME NEW n \in Nat
  PROVE  nextCount(Least(n)) = Least(n + 1)
BY WidthAssumption DEF nextCount, Least

LEMMA AnswerTells ==
  ASSUME BaseInv, NEW f \in Fibers, Tells(f), pc[f] = "decide", UNCHANGED <<plan, ran[f]>>,
         plan.loop = "repeat" \/ Eligible(Last(ran[f]).outcome),
         AskDoes(f, Last(ran[f]).outcome, IF plan.loop = "repeat" THEN "output" ELSE Last(ran[f]).outcome)
  PROVE  Tells(f)'
<1> DEFINE loop == plan.loop
           r == ran[f]
           a == asked[f]
           t == told[f]
           o == Last(r).outcome
<1>1. PICK fraction, decision :
        /\ asked'[f] = Append(a,
               [time |-> now, input |-> o, fraction |-> fraction, decision |-> decision])
        /\ \/ /\ ~decision.continues
              /\ told'[f] = Append(t, [kind |-> IF loop = "repeat" THEN "completed" ELSE "exhausted",
                                       number |-> number[f], delay |-> 0])
              /\ \/ loop = "retryOrElse" /\ pc'[f] = "fallback"
                 \/ loop # "retryOrElse" /\ pc'[f] = "done"
                    /\ exit'[f] = IF loop = "repeat" THEN "output" ELSE o
              /\ UNCHANGED <<number[f], repeated[f]>>
           \/ /\ decision.continues
              /\ told'[f] = Append(t, [kind |-> "scheduled", number |-> number[f],
                                       delay |-> decision.delay])
              /\ number'[f] = nextCount(number[f])
              /\ repeated'[f] = (loop \in Retries)
              /\ pc'[f] = "sleep"
  BY DEF AskDoes
<1>2. plan.loop \in Recurrences /\ plan \in Plans
  BY DEF BaseInv, InPlan
<1>3. /\ Story(loop, r, a, t) /\ Underway(loop, a, t, number[f], repeated[f])
      /\ (o \in Successes <=> loop = "repeat")
      /\ Len(r) = Len(a) + 1 /\ Len(a) \in Nat
      /\ r \in Seq(Attempts) /\ a \in Seq(Askings) /\ t \in Seq(Events)
  BY <1>2 DEF BaseInv, Typed, InStep, Tells
<1>4. /\ ~Stopped(a) /\ Len(t) = Len(a) /\ number[f] = Least(Len(a) + 1)
      /\ (repeated[f] <=> loop \in Retries /\ Len(a) > 0)
  BY <1>3 DEF Underway
<1>5. r # <<>> /\ Len(r) > 0 /\ o = r[Len(r)].outcome /\ o \in Inputs
  <2>1. r # <<>> /\ Len(r) \in 1..Len(r)
    BY <1>3
  <2>2. Last(r) = r[Len(r)]
    BY <1>3, <2>1, LastFacts
  <2>3. r[Len(r)].outcome \in Inputs
    BY <1>2, <2>1 DEF BaseInv, InStep
  <2> QED BY <1>3, <2>1, <2>2, <2>3
<1>6. MayGoOn(loop, o)
  BY <1>2, <1>3, EligibleMayGoOn
<1>7. PICK x : x = [time |-> now, input |-> o, fraction |-> fraction, decision |-> decision]
  OBVIOUS
<1>8. PICK e : /\ told'[f] = Append(t, e) /\ e.kind = EventOf(loop, decision)
               /\ e.number = Least(Len(a) + 1)
  <2>1. CASE decision.continues
    <3>1. PICK e : e = [kind |-> "scheduled", number |-> number[f], delay |-> decision.delay]
      OBVIOUS
    <3>2. told'[f] = Append(t, e)
      BY <1>1, <2>1, <3>1
    <3>3. e.kind = EventOf(loop, decision) /\ e.number = number[f]
      BY <2>1, <3>1 DEF EventOf
    <3> QED BY <1>4, <3>2, <3>3
  <2>2. CASE ~decision.continues
    <3>1. PICK e : e = [kind |-> IF loop = "repeat" THEN "completed" ELSE "exhausted",
                        number |-> number[f], delay |-> 0]
      OBVIOUS
    <3>2. told'[f] = Append(t, e)
      BY <1>1, <2>2, <3>1
    <3>3. e.kind = EventOf(loop, decision) /\ e.number = number[f]
      BY <2>2, <3>1 DEF EventOf
    <3> QED BY <1>4, <3>2, <3>3
  <2> QED BY <2>1, <2>2
<1>9. PICK b : b = asked'[f]
  OBVIOUS
<1>10. PICK u : u = told'[f]
  OBVIOUS
<1>11. Grown(b, a, x) /\ Grown(u, t, e) /\ x.decision = decision
  <2>1. Grown(Append(a, x), a, x)
    BY <1>3, AppendGrows
  <2>2. Grown(Append(t, e), t, e)
    BY <1>3, AppendGrows
  <2>3. b = Append(a, x) /\ u = Append(t, e)
    BY <1>1, <1>7, <1>8, <1>9, <1>10
  <2> QED BY <1>7, <2>1, <2>2, <2>3
<1> HIDE DEF loop, r, a, t, o
<1>12. /\ Story(loop, r, b, u) /\ Len(u) = Len(b) /\ Len(b) = Len(r)
       /\ (Stopped(b) <=> ~decision.continues)
  <2>1. e.kind = EventOf(loop, x.decision) /\ e.number = Least(Len(a) + 1)
    BY <1>8, <1>11
  <2>2. MayGoOn(loop, r[Len(r)].outcome)
    BY <1>5, <1>6
  <2>3. Story(loop, r, b, u) /\ Len(u) = Len(b) /\ Len(b) = Len(r)
        /\ (Stopped(b) <=> ~x.decision.continues)
    <3>1. Story(loop, r, a, t) /\ Len(r) = Len(a) + 1
      BY <1>3
    <3>2. Len(t) = Len(a)
      BY <1>4
    <3>3. ~Stopped(a)
      BY <1>4
    <3>4. Grown(b, a, x) /\ Grown(u, t, e)
      BY <1>11
    <3> QED BY <2>1, <2>2, <3>1, <3>2, <3>3, <3>4, StoryAnswered
  <2>4. x.decision = decision
    BY <1>11
  <2> QED BY <2>3, <2>4
<1>13. plan'.loop = loop /\ ran'[f] = r
  BY DEF loop, r
<1>14. CASE decision.continues
  <2>1. /\ number'[f] = nextCount(number[f]) /\ pc'[f] = "sleep"
        /\ (repeated'[f] <=> loop \in Retries)
    BY <1>1, <1>14 DEF loop
  <2>2. number'[f] = Least(Len(b) + 1)
    <3>1. Len(a) + 1 \in Nat /\ Len(b) = Len(a) + 1
      BY <1>3, <1>12
    <3> QED BY <1>4, <2>1, <3>1, LeastNext
  <2>3. Len(b) > 0
    BY <1>5, <1>12
  <2>4. Underway(loop, b, u, number'[f], repeated'[f])
    BY <1>12, <1>14, <2>1, <2>2, <2>3 DEF Underway
  <2>5. pc'[f] \notin {"idle", "decide", "fallback", "done"}
    BY <2>1
  <2> QED BY <1>9, <1>10, <1>12, <1>13, <2>4, <2>5 DEF Tells
<1>15. CASE ~decision.continues /\ loop = "retryOrElse"
  <2>1. pc'[f] = "fallback" /\ number'[f] = number[f] /\ repeated'[f] = repeated[f]
    BY <1>1, <1>15 DEF loop
  <2>2. number'[f] = Least(Len(b)) /\ (repeated'[f] <=> Len(b) > 1)
    <3>1. Len(b) = Len(a) + 1 /\ (Len(a) > 0 <=> Len(a) + 1 > 1)
      BY <1>3, <1>12
    <3>2. loop \in Retries
      BY <1>15 DEF Retries
    <3> QED BY <1>4, <2>1, <3>1, <3>2
  <2>3. pc'[f] \notin {"idle", "attempt", "decide", "done"} \cup InSleep
    BY <2>1 DEF InSleep
  <2> QED BY <1>9, <1>10, <1>12, <1>13, <1>15, <2>1, <2>2, <2>3 DEF Tells
<1>16. CASE ~decision.continues /\ loop # "retryOrElse"
  <2>1. pc'[f] = "done" /\ exit'[f] = IF loop = "repeat" THEN "output" ELSE o
    BY <1>1, <1>16 DEF loop, o, r
  <2>2. ~(Len(u) > Len(b))
    BY <1>3, <1>12
  <2>3. Stopped(b)
    BY <1>12, <1>16
  <2>4. Over(loop, r, b, u, exit'[f]) /\ exit'[f] # "interrupt"
    <3>1. CASE loop = "repeat"
      <4>1. exit'[f] = "output"
        BY <2>1, <3>1
      <4>2. Over(loop, r, b, u, "output")
        BY <1>12, <2>2, <2>3, <3>1 DEF Over
      <4> QED BY <4>1, <4>2
    <3>2. CASE loop # "repeat"
      <4>1. exit'[f] = o /\ o \notin Successes \cup {"fallback"} /\ o # "interrupt"
        BY <1>3, <1>5, <2>1, <3>2 DEF Inputs
      <4>2. Over(loop, r, b, u, o)
        BY <1>5, <1>16, <2>2, <2>3, <4>1, Zenon DEF Over
      <4> QED BY <4>1, <4>2
    <3> QED BY <3>1, <3>2
  <2>5. pc'[f] \notin {"idle", "attempt", "decide", "fallback"} \cup InSleep
    BY <2>1 DEF InSleep
  <2> QED BY <1>9, <1>10, <1>12, <1>13, <2>1, <2>4, <2>5 DEF Tells
<1> QED BY <1>14, <1>15, <1>16

LEMMA DecideTells ==
  ASSUME BaseInv, NEW f \in Fibers, Tells(f), Decide(f)
  PROVE  Tells(f)'
<1> DEFINE o == Last(ran[f]).outcome
<1>1. /\ pc[f] = "decide" /\ UNCHANGED <<plan, cancelled, ran[f]>>
      /\ \/ /\ plan.loop \in Retries /\ pc'[f] = "done"
            /\ \/ ~Eligible(o) /\ exit'[f] = o
               \/ Eligible(o) /\ f \in cancelled /\ exit'[f] = "interrupt"
            /\ UNCHANGED <<asked[f], told[f]>>
         \/ /\ plan.loop = "repeat" \/ (Eligible(o) /\ f \notin cancelled)
            /\ AskDoes(f, o, IF plan.loop = "repeat" THEN "output" ELSE o)
  BY DecideDoes DEF BaseInv
<1>2. CASE /\ plan.loop = "repeat" \/ (Eligible(o) /\ f \notin cancelled)
           /\ AskDoes(f, o, IF plan.loop = "repeat" THEN "output" ELSE o)
  BY <1>1, <1>2, AnswerTells
<1>3. CASE /\ pc'[f] = "done" /\ exit'[f] = "interrupt" /\ f \in cancelled
           /\ UNCHANGED <<asked[f], told[f]>>
  BY <1>1, <1>3, InterruptionTells
<1>4. CASE /\ plan.loop \in Retries /\ pc'[f] = "done" /\ ~Eligible(o) /\ exit'[f] = o
           /\ UNCHANGED <<asked[f], told[f]>>
  <2>1. plan.loop \in Recurrences /\ plan.loop # "repeat"
    BY <1>4 DEF Recurrences, Retries
  <2>2. /\ Story(plan.loop, ran[f], asked[f], told[f]) /\ Len(told[f]) = Len(asked[f])
        /\ o \notin Successes /\ Len(asked[f]) \in Nat /\ Len(ran[f]) = Len(asked[f]) + 1
        /\ ran[f] \in Seq(Attempts)
    BY <1>1, <2>1 DEF Tells, Underway, BaseInv, InStep, Typed
  <2>3. Len(ran[f]) > 0 /\ o = ran[f][Len(ran[f])].outcome /\ o \in Inputs
    <3>1. ran[f] # <<>> /\ Len(ran[f]) \in 1..Len(ran[f])
      BY <2>2
    <3>2. Last(ran[f]) = ran[f][Len(ran[f])]
      BY <2>2, <3>1, LastFacts
    <3>3. ran[f][Len(ran[f])].outcome \in Inputs
      BY <2>1, <3>1 DEF BaseInv, InStep
    <3> QED BY <2>2, <3>2, <3>3
  <2>4. ~MayGoOn(plan.loop, o)
    BY <1>4, <2>1, EligibleMayGoOn
  <2>5. ~(Len(told[f]) > Len(asked[f])) /\ o \notin Successes \cup {"fallback"} /\ o # "interrupt"
    BY <2>2, <2>3 DEF Inputs
  <2> HIDE DEF o
  <2>6. Over(plan.loop, ran[f], asked[f], told[f], o)
    BY <2>3, <2>4, <2>5, Zenon DEF Over
  <2>7. pc'[f] \notin {"idle", "attempt", "decide", "fallback"} \cup InSleep
    BY <1>4 DEF InSleep
  <2> QED BY <1>1, <1>4, <2>2, <2>5, <2>6, <2>7 DEF Tells
<1> QED BY <1>1, <1>2, <1>3, <1>4

LEMMA FallbackTells ==
  ASSUME BaseInv, NEW f \in Fibers, Tells(f), Fallback(f)
  PROVE  Tells(f)'
<1>1. /\ pc[f] = "fallback" /\ pc'[f] = "done"
      /\ UNCHANGED <<plan, number[f], repeated[f], ran[f], asked[f]>>
      /\ \/ /\ exit'[f] = "fallback" /\ repeated[f]
            /\ told'[f] = Append(told[f], [kind |-> "succeeded", number |-> number[f], delay |-> 0])
         \/ exit'[f] = "fallback" /\ ~repeated[f] /\ UNCHANGED told[f]
         \/ exit'[f] = "fallbackFailed" /\ UNCHANGED told[f]
  BY FallbackDoes DEF BaseInv
<1> DEFINE loop == plan.loop
           r == ran[f]
           a == asked[f]
           t == told[f]
<1>2. loop = "retryOrElse" /\ loop \in Recurrences
  BY <1>1 DEF BaseInv, InPlan, Recurrences, Retries
<1>3. Story(loop, r, a, t) /\ Stopped(a) /\ Len(t) = Len(a) /\ number[f] = Least(Len(a))
  BY <1>1, <1>2 DEF Tells
<1>4. repeated[f] <=> Len(a) > 1
  BY <1>1, <1>2 DEF Tells
<1>5. Len(r) = Len(a) /\ Len(a) \in Nat /\ t \in Seq(Events)
  BY <1>1, <1>2 DEF BaseInv, InStep, Typed
<1>6. PICK u : u = told'[f]
  OBVIOUS
<1>7. PICK how : how = exit'[f]
  OBVIOUS
<1> HIDE DEF loop, r, a, t
<1>8. ASSUME how \in {"fallback", "fallbackFailed"}, Story(loop, r, a, u),
             (Len(u) > Len(a) <=> (how = "fallback" /\ Len(a) > 1))
      PROVE  Tells(f)'
  <2>1. how \in Successes \cup {"fallback"} <=> how = "fallback"
    BY <1>8 DEF Successes
  <2>2. Len(u) > Len(a) <=> (loop # "repeat" /\ how \in Successes \cup {"fallback"} /\ Len(r) > 1)
    BY <1>2, <1>5, <1>8, <2>1
  <2>3. how \in {"fallback", "fallbackFailed"} /\ loop = "retryOrElse" /\ Len(r) = Len(a)
    BY <1>2, <1>5, <1>8
  <2>4. Stopped(a)
    BY <1>3
  <2>5. Over(loop, r, a, u, how)
    BY <2>2, <2>3, <2>4, Zenon DEF Over
  <2>6. pc'[f] \notin {"idle", "attempt", "decide", "fallback"} \cup InSleep
    BY <1>1 DEF InSleep
  <2>7. how # "interrupt"
    BY <1>8
  <2>8. plan'.loop = loop /\ ran'[f] = r /\ asked'[f] = a
    BY <1>1 DEF loop, r, a
  <2>9. Story(plan'.loop, ran'[f], asked'[f], told'[f]) /\ Over(plan'.loop, ran'[f], asked'[f], told'[f], exit'[f])
    BY <1>6, <1>7, <1>8, <2>5, <2>8
  <2> QED BY <1>7, <2>6, <2>7, <2>9 DEF Tells
<1>9. CASE /\ exit'[f] = "fallback" /\ repeated[f]
           /\ told'[f] = Append(told[f], [kind |-> "succeeded", number |-> number[f], delay |-> 0])
  <2>1. PICK e : e = [kind |-> "succeeded", number |-> number[f], delay |-> 0]
    OBVIOUS
  <2>2. u = Append(t, e)
    BY <1>6, <1>9, <2>1 DEF t
  <2>3. Grown(Append(t, e), t, e)
    BY <1>5, AppendGrows
  <2>4. Grown(u, t, e)
    BY <2>2, <2>3
  <2>5. e.kind = "succeeded" /\ e.number = number[f]
    BY <2>1
  <2>6. e.number = Least(Len(r)) /\ Len(t) = Len(a)
    BY <1>3, <1>5, <2>5
  <2>7. Story(loop, r, a, t)
    BY <1>3
  <2>8. Story(loop, r, a, u)
    BY <1>5, <2>4, <2>5, <2>6, <2>7, StorySucceeded
  <2>9. Len(u) > Len(a)
    BY <1>5, <2>4, <2>6 DEF Grown
  <2>10. how = "fallback" /\ Len(a) > 1
    BY <1>4, <1>7, <1>9
  <2>11. Len(u) > Len(a) <=> (how = "fallback" /\ Len(a) > 1)
    BY <2>9, <2>10
  <2>12. how \in {"fallback", "fallbackFailed"}
    BY <2>10
  <2> QED BY <1>8, <2>8, <2>11, <2>12
<1>10. CASE ~(exit'[f] = "fallback" /\ repeated[f]) /\ UNCHANGED told[f]
  <2>1. u = t
    BY <1>6, <1>10 DEF t
  <2>2. ~(Len(u) > Len(a)) /\ Story(loop, r, a, u)
    BY <1>3, <1>5, <2>1
  <2>3. ~(how = "fallback" /\ Len(a) > 1)
    BY <1>4, <1>7, <1>10
  <2>4. how \in {"fallback", "fallbackFailed"}
    BY <1>1, <1>7
  <2> QED BY <1>8, <2>2, <2>3, <2>4
<1> QED BY <1>1, <1>9, <1>10

LEMMA RestTells ==
  ASSUME BaseInv, NEW f \in Fibers, Tells(f), Sleep(f) \/ Wake(f) \/ Resume(f) \/ Interrupted(f)
  PROVE  Tells(f)'
<1>1. Shaped /\ InPlan(f)
  BY DEF BaseInv
<1>2. CASE Sleep(f)
  <2>1. /\ pc[f] \in InSleep /\ pc'[f] \in InSleep
        /\ UNCHANGED <<plan, number[f], repeated[f], ran[f], asked[f], told[f]>>
    BY <1>1, <1>2, SleepDoes DEF InSleep
  <2> QED BY <2>1, QuietTells
<1>3. CASE Wake(f)
  <2>1. /\ pc[f] \in InSleep /\ pc'[f] \in InSleep
        /\ UNCHANGED <<plan, number[f], repeated[f], ran[f], asked[f], told[f]>>
    BY <1>1, <1>3, WakeDoes DEF InSleep
  <2> QED BY <2>1, QuietTells
<1>4. CASE Resume(f)
  <2>1. /\ pc[f] \in InSleep
        /\ \/ f \in cancelled /\ pc'[f] = "done" /\ exit'[f] = "interrupt" /\ UNCHANGED ran[f]
           \/ pc'[f] = "attempt" /\ UNCHANGED ran[f]
           \/ plan.loop = "turns"
        /\ UNCHANGED <<plan, cancelled, number[f], repeated[f], asked[f], told[f]>>
    BY <1>1, <1>4, ResumeDoes DEF InSleep
  <2>2. CASE f \in cancelled /\ pc'[f] = "done" /\ exit'[f] = "interrupt" /\ UNCHANGED ran[f]
    BY <2>1, <2>2, InterruptionTells
  <2>3. CASE pc'[f] = "attempt" /\ UNCHANGED ran[f]
    BY <2>1, <2>3, QuietTells
  <2>4. CASE plan.loop = "turns"
    <3>1. plan.loop \notin Recurrences
      BY <2>4 DEF Recurrences, Retries
    <3> QED BY <2>1, <3>1, OtherTells
  <2> QED BY <2>1, <2>2, <2>3, <2>4
<1>5. CASE Interrupted(f)
  <2>1. /\ f \in cancelled /\ pc[f] \in {"attempt", "decide", "fallback", "turn", "sleep"}
        /\ pc'[f] = "done" /\ exit'[f] = "interrupt"
        /\ UNCHANGED <<plan, cancelled, ran[f], asked[f], told[f]>>
    BY <1>1, <1>5, InterruptedDoes
  <2>2. CASE pc[f] = "turn"
    <3>1. plan.loop \notin Recurrences
      BY <1>1, <2>2 DEF InPlan, Recurrences, Retries
    <3> QED BY <2>1, <3>1, OtherTells
  <2>3. CASE pc[f] # "turn"
    <3>1. pc[f] \in {"attempt", "decide", "fallback"} \cup InSleep
      BY <2>1, <2>3 DEF InSleep
    <3> QED BY <2>1, <3>1, InterruptionTells
  <2> QED BY <2>2, <2>3
<1> QED BY <1>2, <1>3, <1>4, <1>5

LEMMA TurnTells ==
  ASSUME BaseInv, NEW f \in Fibers, Tells(f), AskTurn(f) \/ AskAgain(f)
  PROVE  Tells(f)'
<1>1. Shaped /\ InPlan(f)
  BY DEF BaseInv
<1>2. plan' = plan /\ (pc[f] = "turn" \/ exit[f] \in {"turn", "LimitExceeded"})
  BY DEF AskTurn, AskAgain
<1>3. plan.loop \notin Recurrences
  BY <1>1, <1>2 DEF InPlan, Recurrences, Retries
<1> QED BY <1>2, <1>3, OtherTells

LEMMA TellStep ==
  ASSUME BaseInv, TellInv, [Next]_vars
  PROVE  TellInv'
<1>1. plan' = plan
  BY PlanKept
<1>2. ASSUME NEW f \in Fibers, FiberStep(f) PROVE TellInv'
  <2>1. /\ Shaped /\ \A g \in Fibers \ {f} : UNCHANGED Here(g)
        /\ cancelled \subseteq cancelled'
    BY <1>2, FiberStepDoes DEF BaseInv
  <2>2. \A g \in Fibers \ {f} : Tells(g)'
    BY <1>1, <2>1, TellsElsewhere DEF TellInv
  <2>3. Tells(f)
    BY DEF TellInv
  <2>4. ASSUME Cancel(f) PROVE Tells(f)'
    <3>1. UNCHANGED Here(f)
      BY <2>1, <2>4, CancelDoes
    <3> QED BY <1>1, <2>1, <2>3, <3>1, TellsElsewhere
  <2>5. Tells(f)'
    BY <1>2, <2>3, <2>4, StartTells, AttemptTells, DecideTells, FallbackTells, RestTells, TurnTells
       DEF FiberStep, Step
  <2> QED BY <2>2, <2>5 DEF TellInv
<1>3. ASSUME CacheStep \/ Drive \/ UNCHANGED vars PROVE TellInv'
  <2>1. UNCHANGED fiberVars
    BY <1>3, CacheFrame, DriveFrame DEF vars
  <2>2. cancelled \subseteq cancelled' /\ \A g \in Fibers : UNCHANGED Here(g)
    BY <2>1 DEF fiberVars, Here
  <2> QED BY <1>1, <2>2, TellsElsewhere DEF TellInv
<1> QED BY <1>2, <1>3, Steps

LEMMA TellInit ==
  ASSUME Init
  PROVE  TellInv
<1>1. ASSUME NEW f \in Fibers PROVE Tells(f)
  <2>1. pc[f] = "idle" /\ ran[f] = <<>> /\ asked[f] = <<>> /\ told[f] = <<>> /\ ~repeated[f]
    BY DEF Init
  <2>2. Story(plan.loop, <<>>, <<>>, <<>>)
    BY DEF Story
  <2> QED BY <2>1, <2>2 DEF Tells, InSleep
<1> QED BY <1>1 DEF TellInv

LEMMA ClockedTells == Spec => [](BaseInv /\ TellInv)
<1>1. Init => TellInv
  BY TellInit
<1>2. BaseInv /\ TellInv /\ [Next]_vars => TellInv'
  BY TellStep
<1> QED BY <1>1, <1>2, ClockedBase, PTL DEF Spec

LEMMA MinOfThree ==
  ASSUME NEW a \in Int, NEW b \in Int, NEW c \in Int, NEW m \in {a, b, c}, m <= a, m <= b, m <= c
  PROVE  Min({a, b, c}) = m
BY DEF Min

\* What the events of a story say of it.
LEMMA StoryNumbers ==
  ASSUME NEW loop, NEW r, NEW a, NEW t, Story(loop, r, a, t), Len(a) \in Nat, Len(r) \in Nat,
         NEW i \in 1..Len(t)
  PROVE  t[i].number = Min({i, Len(r), MaxCount})
<1>1. MaxCount \in Nat /\ i \in Nat
  BY WidthAssumption
<1>2. CASE i \in 1..Len(a)
  <2>1. t[i].number = Least(i) /\ i <= Len(r)
    BY <1>1, <1>2 DEF Story
  <2>2. Min({i, Len(r), MaxCount}) = Least(i)
    <3>1. Least(i) \in {i, Len(r), MaxCount} /\ Least(i) <= i /\ Least(i) <= Len(r) /\ Least(i) <= MaxCount
      BY <1>1, <2>1 DEF Least
    <3> QED BY <1>1, <3>1, MinOfThree
  <2> QED BY <2>1, <2>2
<1>3. CASE i \notin 1..Len(a)
  <2>1. Len(t) = Len(a) + 1 /\ t[Len(t)].number = Least(Len(r)) /\ Len(r) <= Len(a) + 1
    BY <1>3 DEF Story
  <2>2. i = Len(a) + 1
    BY <1>3, <2>1
  <2>3. Min({i, Len(r), MaxCount}) = Least(Len(r))
    <3>1. /\ Least(Len(r)) \in {i, Len(r), MaxCount} /\ Least(Len(r)) <= i
          /\ Least(Len(r)) <= Len(r) /\ Least(Len(r)) <= MaxCount
      BY <1>1, <2>1, <2>2 DEF Least
    <3> QED BY <1>1, <3>1, MinOfThree
  <2> QED BY <2>1, <2>2, <2>3
<1> QED BY <1>2, <1>3

LEMMA StoryKinds ==
  ASSUME NEW loop, NEW r, NEW a, NEW t, Story(loop, r, a, t), Len(a) \in Nat, Len(t) \in Nat
  PROVE  /\ Stopped(a) <=> \E i \in 1..Len(t) : t[i].kind \in {"exhausted", "completed"}
         /\ Len(t) > Len(a) <=> \E i \in 1..Len(t) : t[i].kind = "succeeded"
<1>1. ASSUME NEW i \in 1..Len(a)
      PROVE  /\ t[i].kind = EventOf(loop, a[i].decision) /\ t[i].kind # "succeeded"
             /\ (t[i].kind \in {"exhausted", "completed"} <=> ~a[i].decision.continues)
  <2>1. t[i].kind = EventOf(loop, a[i].decision)
    BY DEF Story
  <2> QED BY <2>1 DEF EventOf
<1>2. \A i \in 1..Len(a) : i < Len(a) => a[i].decision.continues
  BY DEF Story
<1>3. Len(t) = Len(a) \/ (Len(t) = Len(a) + 1 /\ t[Len(t)].kind = "succeeded")
  BY DEF Story
<1>4. ASSUME Stopped(a) PROVE \E i \in 1..Len(t) : t[i].kind \in {"exhausted", "completed"}
  <2>1. Len(a) \in 1..Len(a) /\ Len(a) \in 1..Len(t) /\ ~a[Len(a)].decision.continues
    BY <1>3, <1>4 DEF Stopped
  <2> QED BY <1>1, <2>1
<1>5. ASSUME NEW i \in 1..Len(t), t[i].kind \in {"exhausted", "completed"} PROVE Stopped(a)
  <2>1. i \in 1..Len(a)
    BY <1>3, <1>5
  <2>2. ~a[i].decision.continues
    BY <1>1, <1>5, <2>1
  <2>3. i = Len(a) /\ Len(a) > 0
    BY <1>2, <2>1, <2>2
  <2> QED BY <2>2, <2>3 DEF Stopped
<1>6. ASSUME Len(t) > Len(a) PROVE \E i \in 1..Len(t) : t[i].kind = "succeeded"
  <2>1. Len(t) \in 1..Len(t) /\ t[Len(t)].kind = "succeeded"
    BY <1>3, <1>6
  <2> QED BY <2>1
<1>7. ASSUME NEW i \in 1..Len(t), t[i].kind = "succeeded" PROVE Len(t) > Len(a)
  <2>1. i \notin 1..Len(a)
    BY <1>1, <1>7
  <2> QED BY <1>3, <2>1
<1>8. Stopped(a) <=> \E i \in 1..Len(t) : t[i].kind \in {"exhausted", "completed"}
  BY <1>4, <1>5, Zenon
<1>9. Len(t) > Len(a) <=> \E i \in 1..Len(t) : t[i].kind = "succeeded"
  BY <1>6, <1>7, Zenon
<1> QED BY <1>8, <1>9

LEMMA EventsContain ==
  ASSUME NEW t \in Seq(Events), NEW kind
  PROVE  Contains([i \in DOMAIN t |-> t[i].kind], kind) <=> \E i \in 1..Len(t) : t[i].kind = kind
<1> DEFINE Kinds == {"scheduled", "exhausted", "completed", "succeeded"}
           events == [i \in DOMAIN t |-> t[i].kind]
<1>1. Len(t) \in Nat /\ DOMAIN t = 1..Len(t)
  OBVIOUS
<1>2. DOMAIN events = 1..Len(t) /\ \A i \in 1..Len(t) : events[i] = t[i].kind
  BY <1>1
<1>3. ASSUME NEW i \in 1..Len(t) PROVE t[i].kind \in Kinds
  <2>1. t[i] \in Events
    OBVIOUS
  <2>2. PICK e \in Events : e = t[i]
    BY <2>1
  <2>3. e.kind \in Kinds
    BY DEF Events
  <2> QED BY <2>2, <2>3
<1>4. events \in [1..Len(t) -> Kinds]
  BY <1>1, <1>3
<1> HIDE DEF events, Kinds
<1>5. events \in Seq(Kinds)
  BY <1>1, <1>4
<1>6. Len(events) = Len(t)
  BY <1>1, <1>2, <1>5
<1>7. Contains(events, kind) <=> \E i \in 1..Len(t) : t[i].kind = kind
  BY <1>2, <1>6 DEF Contains
<1> QED BY <1>7 DEF events

\* What the invariant says of a fiber that ran, in the terms of the property.
LEMMA StoryTold ==
  ASSUME BaseInv, TellInv, NEW f \in Fibers, plan.loop \in Recurrences, ran[f] # <<>>
  PROVE  LET GoesOn(o) == IF plan.loop = "repeat" THEN o \in Successes ELSE Eligible(o)
             last == Last(ran[f]).outcome
             policyEnded == asked[f] # <<>> /\ ~Last(asked[f]).decision.continues
             events == [i \in DOMAIN told[f] |-> told[f][i].kind]
         IN  /\ \A i \in 1..Len(ran[f]) - 1 : GoesOn(ran[f][i].outcome)
             /\ \A i \in DOMAIN told[f] : told[f][i].number = Min({i, Len(ran[f]), MaxCount})
             /\ policyEnded = (Contains(events, "exhausted") \/ Contains(events, "completed"))
             /\ pc[f] = "done" =>
                 /\ Contains(events, "succeeded") =
                       (plan.loop # "repeat" /\ exit[f] \in Successes \cup {"fallback"} /\ Len(ran[f]) > 1)
                 /\ CASE exit[f] = "interrupt" -> f \in cancelled
                      [] exit[f] \in {"fallback", "fallbackFailed"} ->
                            plan.loop = "retryOrElse" /\ GoesOn(last) /\ policyEnded
                      [] exit[f] = "output" -> plan.loop = "repeat" /\ GoesOn(last) /\ policyEnded
                      [] OTHER -> /\ exit[f] = last
                                  /\ GoesOn(last) => policyEnded /\ plan.loop # "retryOrElse"
<1> DEFINE r == ran[f]
           a == asked[f]
           t == told[f]
           how == exit[f]
           GoesOn(o) == IF plan.loop = "repeat" THEN o \in Successes ELSE Eligible(o)
           last == Last(r).outcome
           policyEnded == a # <<>> /\ ~Last(a).decision.continues
           events == [i \in DOMAIN t |-> t[i].kind]
<1>1. /\ r \in Seq(Attempts) /\ a \in Seq(Askings) /\ t \in Seq(Events)
      /\ Len(r) \in Nat /\ Len(a) \in Nat /\ Len(t) \in Nat /\ DOMAIN t = 1..Len(t)
  BY DEF BaseInv, Typed
<1>2. Story(plan.loop, r, a, t)
  BY DEF TellInv, Tells
<1>3. \A o : MayGoOn(plan.loop, o) <=> GoesOn(o)
  BY EligibleMayGoOn
<1>4. last = r[Len(r)].outcome
  BY DEF Last
<1>5. policyEnded <=> Stopped(a)
  <2>1. a # <<>> <=> Len(a) > 0
    BY <1>1
  <2> QED BY <2>1 DEF Stopped, Last
<1>6. \A i \in 1..Len(a) : MayGoOn(plan.loop, r[i].outcome)
  BY <1>2 DEF Story
<1>7. Len(a) <= Len(r) /\ Len(r) <= Len(a) + 1
  BY <1>2 DEF Story
<1>8. pc[f] = "done" => Over(plan.loop, r, a, t, how) /\ (how = "interrupt" => f \in cancelled)
  BY DEF TellInv, Tells
<1> HIDE DEF r, a, t, how, GoesOn, last, policyEnded, events
<1>9. ASSUME NEW i \in 1..Len(r) - 1 PROVE GoesOn(r[i].outcome)
  <2>1. i \in 1..Len(a)
    BY <1>1, <1>7
  <2> QED BY <1>3, <1>6, <2>1
<1>10. ASSUME NEW i \in DOMAIN t PROVE t[i].number = Min({i, Len(r), MaxCount})
  BY <1>1, <1>2, StoryNumbers
<1>11. /\ Contains(events, "exhausted") <=> \E i \in 1..Len(t) : t[i].kind = "exhausted"
       /\ Contains(events, "completed") <=> \E i \in 1..Len(t) : t[i].kind = "completed"
       /\ Contains(events, "succeeded") <=> \E i \in 1..Len(t) : t[i].kind = "succeeded"
  BY <1>1, EventsContain DEF events
<1>12. /\ Stopped(a) <=> \E i \in 1..Len(t) : t[i].kind \in {"exhausted", "completed"}
       /\ Len(t) > Len(a) <=> \E i \in 1..Len(t) : t[i].kind = "succeeded"
  BY <1>1, <1>2, StoryKinds
<1>13. policyEnded <=> (Contains(events, "exhausted") \/ Contains(events, "completed"))
  BY <1>5, <1>11, <1>12
<1>14. ASSUME pc[f] = "done"
       PROVE  Contains(events, "succeeded") <=>
                 (plan.loop # "repeat" /\ how \in Successes \cup {"fallback"} /\ Len(r) > 1)
  <2>1. Len(t) > Len(a) <=> (plan.loop # "repeat" /\ how \in Successes \cup {"fallback"} /\ Len(r) > 1)
    BY <1>8, <1>14 DEF Over
  <2> QED BY <1>11, <1>12, <2>1
<1>15. ASSUME Len(r) = Len(a), Stopped(a) PROVE GoesOn(last) /\ policyEnded
  <2>1. Len(a) \in 1..Len(a)
    BY <1>1, <1>15 DEF Stopped
  <2> QED BY <1>3, <1>4, <1>5, <1>6, <1>15, <2>1
<1>16. ASSUME pc[f] = "done"
       PROVE  CASE how = "interrupt" -> f \in cancelled
                [] how \in {"fallback", "fallbackFailed"} ->
                      plan.loop = "retryOrElse" /\ GoesOn(last) /\ policyEnded
                [] how = "output" -> plan.loop = "repeat" /\ GoesOn(last) /\ policyEnded
                [] OTHER -> /\ how = last
                            /\ GoesOn(last) => policyEnded /\ plan.loop # "retryOrElse"
  <2>1. \/ how = "interrupt"
        \/ how \in {"fallback", "fallbackFailed"} /\ plan.loop = "retryOrElse" /\ Len(r) = Len(a) /\ Stopped(a)
        \/ how = "output" /\ plan.loop = "repeat" /\ Len(r) = Len(a) /\ Stopped(a)
        \/ /\ how \in Inputs /\ Len(r) > 0 /\ how = r[Len(r)].outcome
           /\ MayGoOn(plan.loop, how) => Stopped(a) /\ plan.loop # "retryOrElse"
    BY <1>8, <1>16 DEF Over
  <2>2. CASE how = "interrupt"
    BY <1>8, <1>16, <2>2
  <2>3. CASE how \in {"fallback", "fallbackFailed"} /\ plan.loop = "retryOrElse" /\ Len(r) = Len(a) /\ Stopped(a)
    BY <1>15, <2>3
  <2>4. CASE how = "output" /\ plan.loop = "repeat" /\ Len(r) = Len(a) /\ Stopped(a)
    BY <1>15, <2>4
  <2>5. CASE /\ how \in Inputs /\ Len(r) > 0 /\ how = r[Len(r)].outcome
             /\ MayGoOn(plan.loop, how) => Stopped(a) /\ plan.loop # "retryOrElse"
    <3>1. how = last /\ how \notin {"interrupt", "fallback", "fallbackFailed", "output"}
      BY <1>4, <2>5 DEF Inputs
    <3>2. GoesOn(last) => policyEnded /\ plan.loop # "retryOrElse"
      BY <1>3, <1>5, <2>5, <3>1
    <3> QED BY <3>1, <3>2
  <2> QED BY <2>1, <2>2, <2>3, <2>4, <2>5
<1>17. policyEnded = (Contains(events, "exhausted") \/ Contains(events, "completed"))
  BY <1>13 DEF policyEnded, Contains
<1>18. pc[f] = "done" =>
         Contains(events, "succeeded") =
            (plan.loop # "repeat" /\ how \in Successes \cup {"fallback"} /\ Len(r) > 1)
  BY <1>14 DEF Contains
<1>19. /\ \A i \in 1..Len(r) - 1 : GoesOn(r[i].outcome)
       /\ \A i \in DOMAIN t : t[i].number = Min({i, Len(r), MaxCount})
  BY <1>9, <1>10
<1> QED BY <1>16, <1>17, <1>18, <1>19 DEF r, a, t, how, GoesOn, last, policyEnded, events

\* A recurring fiber goes on only after outcomes that allow it, ends as its last
\* attempt did unless it was interrupted or its policy ended, and its events count
\* its attempts (retryAttempt, repeatRun, reportRetryOutcome).
THEOREM ClockedExit == Spec => []ExitTellsTheLastAttempt
<1>1. BaseInv /\ TellInv => ExitTellsTheLastAttempt
  BY StoryTold DEF ExitTellsTheLastAttempt
<1> QED BY <1>1, ClockedTells, PTL
=============================================================================
