# A TLA+ model of effect-golang

`effect-golang` is a library of composable effects for Go: an effect is a
description of work that a `Runtime` interprets, and the library promises
structured concurrency, resource safety and typed failure for it. This directory
models the parts of the library in which those promises are hard to keep, checks
them with TLC on small instances and proves the central ones with TLAPS for
every instance. `PROJECT.json` ties every definition to the lines it translates.

## 1. The system

| component | source | state | operations | what makes it correct |
|---|---|---|---|---|
| queue | `internal/lifetime/queue*.go`, `queue.go` | items, capacity, policy, parked takers and offerers, closed | Offer, Take, TakeUpTo, TakeAvailable, Shutdown | no value lost, doubled or overtaken; offers answered truthfully; nobody parked for ever |
| hub | `internal/lifetime/hub.go`, `hub.go` | inboxes by token, closed | Subscribe, Unsubscribe, Publish, Shutdown | an accepted value reaches the whole snapshot; no inbox forgotten |
| scopes, fibers, runtime | `internal/lifetime/{scope,fiber,completion}.go`, `internal/runtime/{spawn,state}.go`, `scope.go`, `fork.go`, `fiber.go`, `runtime.go` | a tree of scopes with status, finalizers, wait group and context; fibers with a one-shot exit | Scoped, AcquireRelease, Fork, Scope.Fork, ForkDaemon, Interrupt, Close | no orphans; each resource released once, youngest first, after everything below has ended |
| ledger | `internal/lifetime/ledger.go` | four atomic counters | record, snapshot | the snapshot shows what is alive |
| pair operators | `concurrency.go`, `timeout.go`, `internal/runtime/parallel.go` | two branches, which is pending, which was first, which is discarded | ZipPar, Race, RaceFirst, Timeout, TimeoutFail | no return before both have completed; the outcome each contract promises |
| traversals | `collections.go`, `internal/runtime/parallel_all.go` | branches, permits, reports | ForEachPar(N), AllPar(N) | never over the limit; all or nothing; every failure reported |
| causes and exits | `internal/outcome/*.go`, `cause*.go`, `exit.go` | none, values | Then, Both, IsInduced, Combine... | nothing of a failure is lost in composition |
| interpreter | `internal/runtime/interpret*.go`, `node.go`, `effect*.go` | frames, context, state, environment | evaluate, settle, resume | frames are restored whatever panics; one checkpoint per value |
| schedules, retries | `schedule*.go`, `retry*.go` | a driver's step; attempt number; pending delay | Next, Retry(Cause, N, OrElse), Repeat | delays as the policy says and never past the largest; the last failure is the one reported; interruption ends the loop |
| deferred, ref, channels | `deferred.go`, `ref.go`, `channels.go` | one-shot cell; atomic reference | complete, await, update | first completion wins |
| cache | `cache/*.go` | list in order of use, index from subjects to keys | Read, Write, Drop | nothing past its date or invalidated is served; only the least recently used is evicted |
| rate limiter | `rate/*.go` | the next arrival per allowance | Turn, AwaitTurn | turns keep their distance; a refusal costs nobody a turn |
| direct style | `gen*.go`, `tools/effectgo` | body goroutine and interpreter in turn | Do | the same result as the composed effect |
| streams | `stream*.go`, `chunk.go` | per run: what each stage has counted, the resources its scope holds | open, pull, RunFold, RunForEach, RunIntoQueue, RunIntoHub | a run is what its description says, pulls no further than its end and releases before it reports |
| configuration | `config/*.go` | none, values: descriptions, sources, errors | combinators, Read, Document | a default covers absence only; one read tells all that is wrong; the document agrees with the reader |
| layers, environment | `layer.go`, `env/*.go` | resolved services | build, resolve | release on a failure half way |
| test clock | `effecttest/clock.go` | now, sleepers, the channel that tells of changes | Sleep, Advance, WaitForPending | no sleeper lost to a cancellation, no watcher to a registration |

How they interact. The interpreter runs an effect on the goroutine of its caller;
`Fork`, the pair operators and the traversals start fibers through `StartFiber`,
which joins the wait group of an owning scope, derives a context from the caller's
and gives the fiber a scope of its own. Closing a scope bars registration, cancels
its context, waits for its children and runs its finalizers in reverse. Queues,
hubs and fibers wait in a `select` on a channel and the caller's context. Retries and
the limiter sleep on the clock capability, streams run in a scope and may feed a
queue.
Cancellation is Go's `context`: it spreads down a tree, a context keeps the first
reason it gets, and siblings hear of it one after the other.

The hard behaviours are therefore: two actors in one lock's critical sections with
something left to do after the unlock; a cancellation racing a hand-off, a
completion or a registration; the order of cleanup and completion; reasons that
look alike; and waiting that must end. `PROJECT.json` lists them at their lines.

## 2. Modules

| module | models | run by | proofs |
|---|---|---|---|
| `FifoChannel` | abstract: what a queue promises (values leave in the order they came, none after shutdown) | `MCQueue` | |
| `Instructions` | the instructions of `node.go`, and the combinators that build them | `MCInterpreter` | |
| `Interpreter` | the frame machine of `interpret.go` and its guards | `MCInterpreter` | `InterpreterProofs` |
| `Semantics` | reference: what a program means, by recursion on it | `MCInterpreter` | |
| `Queue` | `lifetime.Queue` with its callers | `MCQueue` | `QueueProofs` |
| `Hub` | `lifetime.Hub` over queues | `MCHub` | `HubProofs` |
| `Lifetime` | scopes, fibers, `Run`, `Runtime.Close` | `MCLifetime` | `LifetimeProofs` |
| `Outcome` | causes and exits | `Pair`, `Traverse`, `Interpreter` | |
| `Pair` | the pair runner and its operators | `MCPair` | `PairProofs` |
| `Traverse` | the branch group and its operators | `MCTraverse` | `TraverseProofs` |
| `ConfigError` | failures of a read and their composition | `MCConfig` | |
| `ConfigSource` | sources and their compositions | `MCConfig` | |
| `Config` | descriptions, reading them, and what they print | `MCConfig` | |
| `StreamSteps` | constructors, transforms and what one pull does | `MCStream` | |
| `Stream` | running streams: scopes, sinks, cancellation | `MCStream` | |
| `Selection` | keeping some elements of a list, in their order | `MCClocked` | `SequenceLemmas` |
| `ManualClock` | `effecttest.ManualClock` | `MCClocked` | `ClockedProofs` |
| `Durations` | durations and counts at their limits | `MCClocked` | |
| `Schedule` | policies as step functions, and what they mean in closed form | `MCClocked` | |
| `Limiter` | the generic cell rate algorithm | `MCClocked` | `ClockedProofs` |
| `LRU` | the bounded, dated cache and its index | `MCClocked` | `ClockedProofs` |
| `Clocked` | composes them: retry, repeat, delay, turns and a cache on one clock | `MCClocked` | `ClockedProofs` |

Every module keeps, before some definitions, *faults*: variants of the definition
with a plausible slip in it, which no action uses. The mutants of `PROJECT.json`
substitute them to show that each checked property can fail.

### Instructions, Interpreter, Semantics

`Instructions` has one constructor per struct of `node.go` and one operator per
combinator of `effect*.go`, `finalization.go` and `scope.go` that builds them. A
callback is a record that says what the typed code behind it does, panicking
included: `interpret_guard.go` guards every callback, also those of the derivations
that no combinator of today lets panic. A value is the sequence of marks its
producers left on it.

`Interpreter` has one action per case of `evaluate` and of `resume`. A finalizer is
run by a machine of its own inside a hook (`finalizeExit` calls `run`); since that
happens on the same goroutine and returns before anything else goes on, the model
keeps both on one stack, with a `callFrame` where the Go call is. The context of
the run is cancelled once, at any step. A context is the sequence of contexts a
cancellation reaches it from: a scope's extends its parent's, and a finalizer's is
empty, as `context.WithoutCancel` makes it. Closing a scope is a finalizer here; what
closing does is the subject of `Lifetime`. The origin that `settle` stamps on a
failure is left out.

`Semantics` gives the same instructions a meaning without frames: the ambient is
passed down and never comes back up, so there is nothing to restore and no
stack to keep straight. `MeansTheSame` compares exits, and everything that was
performed, in which ambient. A cancellation is one moment, the number of things
performed before it: the meaning decides which leaves are interruptions from that
and from the context each is evaluated under, and the machine has to agree for some
one moment. What `CatchAll` does not handle is raised again by a leaf like any
other in the meaning, as it is in the code, and so may be replaced by an interruption,
contrary to the documentation.

### Queue

A critical section under `Queue.mutex` is one step. What happens outside the lock
has steps of its own: a parked caller's `select` (`ReceiveRoom`, `ReceiveValue`,
`ObserveCancel`), the attempt to withdraw after the context won (`AbandonOfferer`,
`AbandonTaker`), the second half of `TakeUpTo` (`DrainUpTo`), and the closing, one
by one, of the channels that `Shutdown` detached (`CloseWaiters`). A value is the
number of the `Offer` that brought it, so that order can be read off. The history
variables record what left the queue, what was evicted, what each caller got and
how offers were answered. `ImplementsChannel` maps the queue to `FifoChannel`.

### Hub

The offers of one `Publish` to the inboxes of its snapshot are separate steps, and
so are the shutdowns of detached inboxes, because the hub does both without its
lock. An inbox is a queue reduced to what the queue's own checks establish: offer,
take, admission and shutdown are one step each. Takers do not park in this model;
a take happens when there is a value.

### Lifetime

An actor is a goroutine that interprets a program: a `Run` or a fiber. What
programs do is arbitrary: at any time an actor may open a scope, acquire into any
scope, fork in any of the ways in `Selectors`, interrupt a fiber it forked, or
settle. `scopeClosing` is split into the phases of `Close` (cancelling, waiting,
releasing), because other actors act in between. `above[s]` is the chain of
contexts over `s`; ownership (`owner`) is kept apart from it, since `Scope.Fork`
and `ForkDaemon` take them from different places. `Structured(f)` says that the two
agree, as `Fork` arranges; `ReleaseIsLast`, `CloseReturns` and
`InterruptReturnsInTheEnd` are about structured fibers.

### Outcome, Pair, Traverse

A cause is the sequence of its leaves in order of composition: the tree shape, the
origins and the stacks play no part in how the parallel operators compose causes.
A branch runs its body, closes its scope (which may add a defect) and completes.
The caller's cancellation reaches the branches one after the other (`Propagate`),
as Go's context does. `Pair` has the runner's `select` in `Collect` (whichever
completion it happens to see), the interruption of the other side and the wait for
it (`Discard`), and the resolver of each operator. `FailureExplained` says exactly
what a result tells: the failures and defects of the branches it answers for, which
are both but for the loser of a race, and nothing but interruptions only if the
caller was cancelled, with the caller's reason unless the clock of a timeout was
stopped first (`ClockStopped`), and without any exactly when a nested `ZipPar` takes
the cancellation for its own. The documentation promises more of races, of timeouts
and of nested operators. `Traverse` has the permits, the
report a branch makes before it closes its scope, the collector that hears the
reports in channel order, and the collection of the exits in input order.

### ConfigError, ConfigSource, Config

A description is a record per constructor that carries, as in the code, the
expectations it prints next to the reader it is. The two are computed apart in the
code, one when the description is built and one when it is read, and
`DocumentExact` is about their agreement. An action applies one combinator to the
descriptions that are ready, so that all ways to compose them are reached.
`Readings` is what reading a description may look up, with what may stand in for it:
`DocumentExact` compares that with what is printed: required exactly what has nothing
to stand in for it, or a default that renders as nothing. `InNewEntry` is read off it
as well: where a description names a setting beneath a table of its own, supplying
what a read reported makes a new entry of that table, and `OneRound` says that the next
read may miss settings of such an entry and nothing else. A source
is a record too; `Value` and `Children` follow the Go methods case by case,
the spelling of environment keys included (`environmentKey`, `lowerCase`: a name is
the sequence of its words, in lower or upper case). A failure is a tree of leaves
with paths. What is left out is the layout of the document and of messages, and the
parsers beyond which texts they accept.

### StreamSteps, Stream

`Pull(node, world)` is what interpreting one pull does: a step, the stages' new
state, and what became of the source. `Stream` runs it: a run acquires the resources
of its description one by one in a scope of its own, gets a fresh copy of the
stages' state, pulls, hands values to its sink, closes the scope and, for
`RunIntoQueue`, shuts the queue down. Interruption may come between any two of
these. The queue between two runs is the back-pressure queue of module `Queue`
reduced to its content. There are two references without pulls. `Meaning` is what a
description means as a sequence of values; `InChunks` is what it means as a sequence
of chunks, which is how an effectful transform works on it. A success
has to be what both say, a failure what `InChunks` says, with exactly the values
before it. The two differ where a transform fails for a value that nobody asked for.

### ManualClock, Durations, Schedule, Limiter, LRU, Clocked

A method of the clock holds its mutex for one action; the `select` of `Sleep` and its
`remove` after a cancellation are separate steps (`Wake`), because `Advance` may come
between. `signalled` is whether the channel a waiting test has captured was closed.
`Schedule` has the drivers as step functions. In `Durations`, durations are whole numbers up to
`MaxDuration`, which stands for the largest `time.Duration`, and an addition beyond it
wraps to a negative number, as an `int64` does: only the order of comparison and
addition in `addWithin` and `doubleWithin` keeps it from happening. Counts
saturate at `MaxCount` the same way. Jitter factors are whole numbers, with not-a-number
as a value of its own. `Limiter` and `LRU` are pure operators on the limiter's moment
and on a cache; their Go counterparts hold a mutex from beginning to end. `Clocked`
runs fibers over them: an attempt ends as it likes, and what a driver is asked and
what events are emitted is recorded.

`Clocked` takes the policies as parameters: `DriverStep` is one step of a driver,
`DriverAfter` the driver after so many steps, `PolicyDecision` what a policy means.
`MCClocked` gives them the recursive `StepOf`, `Started` and `Meaning` of `Schedule`.
`DriverAssumption`, which TLC evaluates, is all that is assumed of them: a driver keeps no
more than how often it was asked and since when, and its decisions have their types.
`DriverMeansItsPolicy` compares the two over every question a driver may be asked
(`Questions`); it is a constant, so the run evaluates it in the initial states
(`PoliciesMeanWhatTheySay`). `OnPolicy` says that each fiber gets those decisions for its
own recurrence, whoever interprets the same policy meanwhile, and waits for their delays;
the proof takes it from `DriverMeansItsPolicy`.

## 3. Runs

| run | result | what it shows |
|---|---|---|
| `queue_safety` | holds | waiters are justified; values accounted for (none lost, doubled, overtaken or misreported); the refinement of `FifoChannel` |
| `queue_liveness` | holds | a cancelled call returns; shutdown releases everyone parked |
| `hub` | holds | nobody forgotten, nobody stranded, accepted values reach the whole snapshot in order |
| `lifetime` | holds | no orphans; release is last, once, youngest first and never left out, and completion is final, for every way of forking |
| `lifetime_structured` | holds | closing and interrupting come to an end, with lexical scopes |
| `pair` | holds | contracts of the five operators, nested ones included, exactly which failures and defects their results tell, and that they return |
| `traverse` | holds | limit, all or nothing, every failure reported, and that the traversal returns |
| `interpreter` | holds | the frame machine computes what programs mean, restores its ambient and runs every hook once, whatever panics |
| `config` | holds | defaults cover absence only, one read tells everything (but for a table entry it has itself asked for), the document agrees with the reader, descriptions can be mounted anywhere |
| `stream` | holds | a run is what its description means chunk by chunk, asks for no more, releases before it tells of its end, and ends when it is cancelled |
| `clocked` | holds | clock, policies, retries, turns and cache, with two fibers, cancellations and a clock that moves at any time |
| `daemon_outlives_run` | **violated** | the end of a `Run` cancels the daemons forked in it |

A property such as `ValuesAccountedFor`, `ReleaseDiscipline`, `FailureExplained`,
`BranchesContained`, `ResultComplete`, `DeliveryKeepsItsWord`,
`ClockKeepsTrack` or `ParkedCallsReturn` is a conjunction of
named parts, each with its own comment; several mutants are listed for such a property,
one for each way the code could break it.

### Disagreements with the documentation

The first is a run whose one property states what the documentation says, and is
violated. The others are pinned down by properties that hold: each says exactly when
the code departs from the documentation, and what it does then, so that a departure
anywhere else, and the disappearance of this one, would be reported. Their comments
quote what they contradict.

- `fork.go` 54: a daemon's context derives from that of the `Run` that forked it, and
  ends with it; `fork.go` 34-36 says a daemon "outlives the Run that created it".
- `concurrency.go` 99, 124: `Race` and `RaceFirst` return the exit of the winner alone;
  `interruption.md` 37-40 counts `Race` among those that still compose "a finalizer
  defect" of the abandoned branch into the result (`FailureExplained`, by `Accountable`).
- `timeout.go` 59: when the caller of a `Timeout` is cancelled, the cancellation may
  reach the clock before the work; the runner then cancels the work with `ErrTimedOut`,
  which is reported although no timeout has elapsed. `docs/reference/interruption.md`
  31-32 says a caller's own reason "is preserved unchanged" (`FailureExplained`, by
  `ClockStopped`).
- `parallel_causes.go` 36: reasons are compared by value, so that a `ZipPar` cancelled
  by a `ZipPar` around it takes the interruption for its own doing and may fail with an
  empty cause, where `interruption.md` 44-45 promises an `Interrupt`
  (`FailureExplained`, the last conjunct of `InterruptionExplained`). A traversal
  cancelled with `ErrSiblingFailed` from outside does the same.
- `interpret.go` 126: `CatchAll` raises a defect again through the interruption
  checkpoint, which may replace it; `effect_recovery.go` 20 says defects "are
  propagated unchanged" (`MeansTheSame`, whose meaning has that checkpoint too).
- `collections.go` 39: in `ZipWith(Table(a, Of(b)), Nested(a, Of(b)))`, supplying the
  missing `a.b` makes `b` an entry of table `a`, and the next read misses `a.b.b`;
  `document.go` 113-115 says "a deployment is told the whole of what to set at once"
  (`OneRound`, by `InNewEntry`).
- `composition.go` 115: a default that renders as nothing leaves its setting printed as
  "required"; `document.go` 77-78 says the column tells "what happens when nobody
  supplies the value" (`DocumentExact`, by the silent defaults of `Readings`).
- `stream_transform.go` 45: `MapStreamEffect` transforms a whole chunk or nothing, before
  `TakeStream` cuts it, so a stream may fail for a value nobody asked for;
  `stream.md` 129-132 says "taking three from an effect must not evaluate it a fourth time"
  (`MeansItsDescription`, by `InChunks`).
- `rate.go` 46: the spacing is truncated, and is zero, no limit at all, for a count above
  the period in nanoseconds; `memory.go` 43-44 says what comes after the burst "is spaced"
  (`TurnsKeepTheirDistance`, which allows each turn one unit short of the exact rate).

Smaller things met on the way. Lifetimes: `Scope.Close` returns at once to a second
caller; a resource acquired into a closing scope is recorded as released and not as
acquired; closing the runtime waits for a daemon whose context it does not cancel, if
the `Run` that forked it goes on; `Ledger.Live` loads starts before completions, so that
a fiber in between makes `LiveFibers` negative (`spawn.go` 28-29 says it cannot). Queues:
under `DropOldest` a value is evicted whose `Offer` was answered with true; `TakeUpTo(0)`
answers with the empty batch that stands for a finished queue, and so a stream
from a queue with a chunk size below one ends at once. Streams: `RunIntoQueue` ignores what `Offer` answers,
so a queue shut down from outside does not stop it, and a reader that takes only a
prefix leaves it waiting. Retries: a `RetryOrElse` whose fallback succeeds emits both
`retry_exhausted` and `retry_succeeded`. Rates: a burst and its refill may put up to
2·Most−1 turns into one period; a cancelled waiter's turn is not given back. Cache: an
entry is still served at the very moment of its date. Configuration: `Table("", ...)` at the root
of a map is empty, because the empty path renders as "the root"; a transform over `OrElse` blames the path of the first
alternative.

### Bounds

- `MCQueue`: three callers, because the races take two and a third to hand off or
  to shut down; capacities 0 (clamped to 1), 2 and unbounded; four offers, enough to
  fill a queue of two with both kinds of parked offerer behind it. Callers are
  interchangeable. `MCQueueLive` has no symmetry and two offers into a queue of one.
- `MCHub`: two publishers, two subscriptions, inboxes of one, three values: two
  publishers in one line, and one parked while its subscriber leaves.
- `MCLifetime`: one run, two fibers (nested, or siblings), two resources, one
  `Runtime.Close`; `MCLifetimeLive` adds a lexical scope and leaves `Close` out,
  because the end of structured work is what it is about.
- `MCPair`: one composition; nesting is the choice of the reason the caller is
  cancelled with. `MCTraverse`: three branches with no limit and with two permits.
- `MCInterpreter`: all programs of two levels of combinators over four leaves (a
  value, the environment, a failure, a panic), each callback panicking in turn,
  10,854 in all. Two levels put every kind of frame on top of every other, which is
  what restoring and skipping depend on; the proofs need no bound.
- `MCConfig`: all descriptions of up to four constructors over two names, read from maps
  and environments that say anything or nothing of `a` and `a.b`, chains of them with a
  source that is down in front, in the middle or alone, subtrees and renamings. Four
  constructors put a stand-in above and below every other combinator with a leaf on either side.
  Those of five constructors, the fewest at which a table and a setting beneath it meet,
  are read from a few of these sources (`FewDeployments`).
- `MCStream`: every source under up to two transforms, alone; one description run twice;
  and a queue of one between a producer and a reader. The third evaluation fails and the
  value 3 is refused, so that ends, failures and budgets meet in every order.
- `MCClocked`: two fibers; a largest duration of 3 and a largest count of 3, so that
  doubling, adding and counting reach their limits; three attempts, four turns; a cache of
  two with three keys and one subject, and four operations, enough for two writes, a
  read and an eviction, or for two entries of one subject, its invalidation and a read. The clock moves by any amount up to 4.

`CHECK_DEADLOCK FALSE` appears where programs end: a run, a composition or a hub
that has finished has nothing left to do.

### Fairness

Weak fairness for what the library does once it can: a goroutine that can run does
run, finalizers return, and a cancellation reaches every context below it. A body
that is not cancelled owes nothing: user code may take for ever. A body that is
cancelled settles, since the interpreter checks the context before every leaf and
every blocking operation selects on it. In `Lifetime` this is strong fairness,
because a cancelled body may get through the leaf it is at, again and again from
the model's point of view, before the checkpoint stops it. Permits and locks are not
handed out fairly. In `Stream` and `Clocked` the steps of each run or fiber are weakly fair and
nothing is assumed of the clock, of the test that drives it, or of whoever cancels.

## 4. Proofs

For every value of the constants, from the assumptions named in the modules:

| theorem | argument |
|---|---|
| `InterpreterAmbientRestored`, `InterpreterHooksRun` | `MachineInv`. For each part of the ambient, the oldest frame that saves it holds what the machine was given, and without such a frame the part itself is that; younger frames may hold anything. The hooks entered are those that have run and those on the stack, each once. Lemmas say what pushing, popping and replacing a frame do to both. Nothing is assumed of the program. |
| `QueueTypes`, `QueueWaiters` | `QueueInv == TypeOK /\ WaitersJustified` is inductive. Takers wait only at an empty queue and offerers only at a full one, and a bounded queue keeps to its capacity; the proof goes action by action, with the drain of a batch (`BatchStep`) as the lemma the three ways of taking share. |
| `QueueAccounts` | `AccountInv`. `Line`, the values that left, those in the queue and those of the parked offerers, in that order, is increasing: every way to take, admit or evict moves the border within it, and only a withdrawal or a shutdown takes values out. Beside it, the state of each call is tied to its waiter's channel (`RoomState`, `ValueState`): an offerer in the middle of withdrawing is either still in line, or was admitted, or found the queue shut down. That is what the honesty of `Offer` and the fate of a value handed to a cancelled taker rest on. |
| `QueueImplementsChannel` | From `AccountInv`, step by step: `left` and `left \o items` only grow at their ends, and after shutdown only `left` does. |
| `LifetimeTypes`, `LifetimeNoOrphan` | `LifetimeInv` adds `StackInv` to them: an actor inside its program has a scope open, so that what it opens has a parent. |
| `LifetimeReleaseDiscipline` | `DisciplineInv`. `TreeInv`: contexts form a forest, and between a scope and anything deeper there is one that hangs directly below it. `StacksInv`: a scope is open or closing exactly while one actor has it on its stack, and only the innermost is closing. So when a scope starts to release, a lexical scope directly below it would be on the stack above it, and a structured fiber among its children; `ReleaseIsLast` for what hangs below those does the rest (`NothingBelow`, `LastAwait`). `PendingInv` and `HeldInv`: of what was registered with a scope, a first part is pending and the rest released; everything else acquired is held by one actor or was refused and released. |
| `PairNoRunaway`, `PairSuccessJustified` | `RunnerInv` relates the pending sides to the completed branches, `AnswerInv` the result to the exits it was computed from; the resolvers are unfolded one by one. |
| `PairFailureExplained` | `CausesInv` adds which interruptions a branch's cause may name, given whom the runner and the caller have cancelled, and `AbandonedInv` which sides were. From these, one lemma per operator: `RaceExplained`, `ZipParExplained`, `TimeoutExplained`, over what `CombineParallelCauses` keeps of two causes (`CombineFacts`). |
| `TraverseContained`, `TraverseComplete` | `TraverseInv`: reports are as many as the branches that have reported, the permits are held by those at work, and an exit's leaves are the branch's own. What the collection of the exits contains follows by induction over the branches. |
| `HubNoInboxForgotten` | `InboxInv`: each inbox is with the hub, detached or shut down, and a closed hub has none. The last conjunct is what a subscription after the shutdown would break. |
| `ClockedKeepsTrack` | `ClockInv`, over `BaseInv` (types, where a fiber can be given what it does, and `InStep`: a recurring fiber has asked once per attempt and its driver is where so many questions bring it). The sleepers are those in `Sleep` that were not told to go on; filtering the list keeps its order and nobody else. The number a watcher waits for is above the sleepers there are until its channel is closed. |
| `ClockedOnPolicy` | From the hypothesis `DriverMeansItsPolicy`. `BaseInv` has each decision as the answer to a question of `Questions`, hence one the hypothesis is about; `TimeInv` ties the moment a fiber may go on to its pause, its deadline and its place in `Sleep`. |
| `ClockedExit` | `TellInv`. `Story` relates attempts, answers and events: one answer per attempt that allows going on, an event with its number for each, only the last answer a stop, and at most one event more. `Underway` says that no answer was a stop while the fiber goes on, `Over` why it ended. Nothing is assumed of what policies decide. |
| `ClockedTurns` | `TurnInv`. `Arrival`: the stored moment less the tolerance is the latest of what the turns given so far allow, where each turn counts those given since; one more turn moves all of these by one spacing (`TurnFits`), so the one number says what the whole history would. Rounded spacings fall short of the exact rate by less than one unit each (`RoundedSpacing`, `RateKept`). |
| `ClockedNoStaleAnswer`, `ClockedIndexExact`, `ClockedEvicts` | `CacheInv`. `Sound`: each entry is the one last written under its key, a key occurs once, the index is exactly the keys by subject (`IsIndex`), and the order is that of last use (`Recent`), so that the last entry is the one to evict. One lemma each for dropping, reading, writing, evicting and invalidating; the action property is read off the same steps. |
| `HubNobodyStranded`, `HubDelivery` | `DeliveryInv`. For every value and every inbox of its snapshot, either the publisher still owes it (`Owed`: the inbox is to come, or the publisher stands in its line) or the matter is settled (`Settled`). The inboxes to come are in order and later than those reached, each line holds a publisher once, and a publisher stands in one line at most. |

`SequenceLemmas` has what these proofs share about sequences: slices, concatenation,
removal, lists without repetitions, the enumeration of a finite set. Where a fact about
all sequences needs induction, it goes through `SetInduction`, which takes the induction
hypothesis as a set of numbers and is itself proved from the cardinality of finite sets.
Some definitions have the form they have for the sake of these proofs:
`CombineBranchCauses` flattens a function, the hub's `Ordered` chooses an ascending
enumeration, its `Abandon` removes the position at which the publisher stands, `Only`
is a recursive function, and the policies of `Clocked` are parameters.

Only model-checked: liveness, which is out of reach of the prover, all of configuration
and streams, `MeansTheSame`, and `PoliciesMeanWhatTheySay`. The `Meaning` of `Semantics` and of
`Schedule`, `Read`, `Pull` and `StepOf` are recursive on descriptions; what they compute for
every description would need induction over them.

## 5. Not modelled

Left out for good: logging, observers, file system and process access (input and output
without state of their own), formatting of causes, reports and documents, the ledger
(counters for diagnostics that nothing depends on), channel operations (one select
each on channels of the program's own), the source rewriter (it has to preserve the
meaning of Go, which a model would have to define first) and the examples. Not yet
modelled: the direct style, deferred values and references, layers, cause trees. Within the
modelled parts: `Goexit` inside a fiber's body (it would leave the fiber's scope open:
`spawn.go` 33 defers only the completion), fibers that interrupt each other
through handles they have exchanged, nested interpretation through
`WithInterpreter`, `Secret`, and the layer of `configuration.go`.

## 6. Plan

1. `Stream` with `Pull` as a parameter, as `Clocked` has its policies, so that
   `EndMeansReleased`, which does not depend on what is pulled, can be proved.
2. `Gen`: the body goroutine and its interpreter; cause trees, with the leaf sequences of
   `Outcome` as their abstraction.
