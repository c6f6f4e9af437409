------------------------------- MODULE Queue -------------------------------
(***************************************************************************)
(* effect.Queue: the work queue of effect/internal/lifetime/queue.go, its  *)
(* waiters (queue_waiter.go), its full-queue policies (queue_policy.go)    *)
(* and the effects of effect/queue.go that call it.                        *)
(*                                                                         *)
(* Every critical section under Queue.mutex is one step.  What happens     *)
(* outside the lock has steps of its own: a parked caller's select on its  *)
(* channel or its context, the attempt to withdraw after the context won,  *)
(* the two halves of a batch take, and the closing, one by one, of the     *)
(* waiters' channels that Shutdown detached.                               *)
(*                                                                         *)
(* A value is the arrival number of the Offer that brought it, so that the *)
(* values are distinct and their order of arrival can be read off.         *)
(***************************************************************************)
EXTENDS Naturals, Sequences, SequencesExt

CONSTANTS
    Callers,      \* goroutines that use the queue, one call at a time each
    Capacities,   \* the capacities NewQueue is called with
    Limits,       \* the limits of TakeUpTo and TakeAvailable
    MaxOffers     \* bound: how many Offer calls are made altogether

ASSUME QueueConstants ==
    /\ Capacities \subseteq Nat
    /\ Limits \subseteq Nat
    /\ MaxOffers \in Nat

VARIABLES
    \* the fields of lifetime.Queue
    items, capacity, policy, takers, offerers, closed,
    \* the callers: where each is in its call, the value it offers, the limit
    \* of its TakeUpTo (0 in a plain Take), the batch it has begun, the
    \* message in its waiter's channel, and whether its context is done
    pc, value, limit, batch, channel, cancelled,
    \* the waiters Shutdown has detached and not yet closed
    detached,
    \* history: the number of offers made, the values that left the queue, in
    \* order, those evicted, what each caller has taken, how offers were
    \* answered, and whether any caller that asked for at least one value was
    \* told that the queue is finished
    offered, left, dropped, got, accepted, rejected, finished

fields  == <<items, capacity, policy, takers, offerers, closed>>
calls   == <<pc, value, limit, batch, channel, cancelled, detached>>
history == <<offered, left, dropped, got, accepted, rejected, finished>>
vars    == <<fields, calls, history>>

Policies == {"BackPressure", "DropNewest", "DropOldest"}

\* The message of a closed channel: receiving from it yields the zero value.
Closed == 0

Waits == {"awaitRoom", "abandonOfferer", "lateRoom",
          "awaitValue", "abandonTaker", "lateValue"}
----------------------------------------------------------------------------
\* Faults, each a plausible slip in the definition that follows it; no action
\* of the specification uses them.
NewCapacityOffByOne(n) == n - 1

\* NewQueue clamps a capacity below one; NewUnboundedQueue has capacity 0.
NewCapacity(n) == IF n < 1 THEN 1 ELSE n

Init ==
    /\ items = <<>> /\ takers = <<>> /\ offerers = <<>> /\ closed = FALSE
    /\ \/ \E n \in Capacities : capacity = NewCapacity(n) /\ policy \in Policies
       \/ capacity = 0 /\ policy = "BackPressure"
    /\ pc = [c \in Callers |-> "idle"]
    /\ value = [c \in Callers |-> 0]
    /\ limit = [c \in Callers |-> 0]
    /\ batch = [c \in Callers |-> <<>>]
    /\ channel = [c \in Callers |-> <<>>]
    /\ cancelled = [c \in Callers |-> FALSE]
    /\ detached = <<>>
    /\ offered = 0 /\ left = <<>> /\ dropped = {}
    /\ got = [c \in Callers |-> <<>>]
    /\ accepted = {} /\ rejected = {} /\ finished = FALSE

\* The call of c returns: its waiter, if it had one, is garbage.
Return(c) ==
    /\ pc' = [pc EXCEPT ![c] = "idle"]
    /\ value' = [value EXCEPT ![c] = 0]
    /\ limit' = [limit EXCEPT ![c] = 0]
    /\ batch' = [batch EXCEPT ![c] = <<>>]
    /\ cancelled' = [cancelled EXCEPT ![c] = FALSE]
----------------------------------------------------------------------------
(* Offer *)

HasRoom == capacity = 0 \/ Len(items) < capacity

\* Offer on a shut-down queue is declined before anything is looked at.
OfferClosed(c, v) ==
    /\ closed
    /\ rejected' = rejected \cup {v}
    /\ UNCHANGED <<fields, calls, left, dropped, got, accepted, finished>>

HandOffKeepsTaker(c, v) ==
    /\ ~closed /\ takers # <<>>
    /\ channel' = [channel EXCEPT ![Head(takers)] = Append(@, v)]
    /\ left' = Append(left, v)
    /\ accepted' = accepted \cup {v}
    /\ UNCHANGED <<fields, pc, value, limit, batch, cancelled, detached,
                   dropped, got, rejected, finished>>

\* handOff: the value goes straight to the longest-waiting taker's channel.
HandOff(c, v) ==
    /\ ~closed /\ takers # <<>>
    /\ takers' = Tail(takers)
    /\ channel' = [channel EXCEPT ![Head(takers)] = Append(@, v)]
    /\ left' = Append(left, v)
    /\ accepted' = accepted \cup {v}
    /\ UNCHANGED <<items, capacity, policy, offerers, closed, pc, value, limit,
                   batch, cancelled, detached, dropped, got, rejected, finished>>

EnqueueBeforeHandOff(c, v) ==
    /\ ~closed /\ HasRoom
    /\ items' = Append(items, v)
    /\ accepted' = accepted \cup {v}
    /\ UNCHANGED <<capacity, policy, takers, offerers, closed, calls,
                   left, dropped, got, rejected, finished>>

EnqueueClosed(c, v) ==
    /\ takers = <<>> /\ HasRoom
    /\ items' = Append(items, v)
    /\ accepted' = accepted \cup {v}
    /\ UNCHANGED <<capacity, policy, takers, offerers, closed, calls,
                   left, dropped, got, rejected, finished>>

Enqueue(c, v) ==
    /\ ~closed /\ takers = <<>> /\ HasRoom
    /\ items' = Append(items, v)
    /\ accepted' = accepted \cup {v}
    /\ UNCHANGED <<capacity, policy, takers, offerers, closed, calls,
                   left, dropped, got, rejected, finished>>

\* A full queue asks its policy.  backPressure parks the caller.
AdmitBackPressure(c, v) ==
    /\ ~closed /\ takers = <<>> /\ ~HasRoom /\ policy = "BackPressure"
    /\ offerers' = Append(offerers, c)
    /\ pc' = [pc EXCEPT ![c] = "awaitRoom"]
    /\ value' = [value EXCEPT ![c] = v]
    /\ UNCHANGED <<items, capacity, policy, takers, closed, limit, batch, channel,
                   cancelled, detached, left, dropped, got, accepted, rejected, finished>>

AdmitDropNewest(c, v) ==
    /\ ~closed /\ takers = <<>> /\ ~HasRoom /\ policy = "DropNewest"
    /\ rejected' = rejected \cup {v}
    /\ UNCHANGED <<fields, calls, left, dropped, got, accepted, finished>>

AdmitDropOldest(c, v) ==
    /\ ~closed /\ takers = <<>> /\ ~HasRoom /\ policy = "DropOldest"
    /\ items' = Append(Tail(items), v)
    /\ left' = Append(left, Head(items))
    /\ dropped' = dropped \cup {Head(items)}
    /\ accepted' = accepted \cup {v}
    /\ UNCHANGED <<capacity, policy, takers, offerers, closed, calls,
                   got, rejected, finished>>

Offer(c) ==
    /\ pc[c] = "idle" /\ offered < MaxOffers
    /\ offered' = offered + 1
    /\ \/ OfferClosed(c, offered + 1)
       \/ HandOff(c, offered + 1)
       \/ Enqueue(c, offered + 1)
       \/ AdmitBackPressure(c, offered + 1)
       \/ AdmitDropNewest(c, offered + 1)
       \/ AdmitDropOldest(c, offered + 1)

\* The parked offerer's channel has its message: admitted, or closed.
ReceiveRoom(c) ==
    /\ pc[c] \in {"awaitRoom", "lateRoom"} /\ channel[c] # <<>>
    /\ IF Head(channel[c]) = Closed
       THEN rejected' = rejected \cup {value[c]} /\ UNCHANGED accepted
       ELSE accepted' = accepted \cup {value[c]} /\ UNCHANGED rejected
    /\ Return(c)
    /\ channel' = [channel EXCEPT ![c] = <<>>]
    /\ UNCHANGED <<fields, detached, offered, left, dropped, got, finished>>

AbandonOffererUnchecked(c) ==
    /\ pc[c] = "abandonOfferer"
    /\ offerers' = SelectSeq(offerers, LAMBDA d : d # c)
    /\ rejected' = rejected \cup {value[c]}
    /\ Return(c)
    /\ channel' = [channel EXCEPT ![c] = <<>>]
    /\ UNCHANGED <<items, capacity, policy, takers, closed, detached,
                   offered, left, dropped, got, accepted, finished>>

\* abandonOfferer: withdraw, unless the waiter is already gone from the list.
AbandonOfferer(c) ==
    /\ pc[c] = "abandonOfferer"
    /\ \/ \E i \in DOMAIN offerers :
            /\ offerers[i] = c
            /\ offerers' = RemoveAt(offerers, i)
            /\ rejected' = rejected \cup {value[c]}
            /\ Return(c)
       \/ /\ \A i \in DOMAIN offerers : offerers[i] # c
          /\ pc' = [pc EXCEPT ![c] = "lateRoom"]
          /\ UNCHANGED <<offerers, rejected, value, limit, batch, cancelled>>
    /\ UNCHANGED <<items, capacity, policy, takers, closed, channel, detached,
                   offered, left, dropped, got, accepted, finished>>
----------------------------------------------------------------------------
(* Take, TakeUpTo and TakeAvailable *)

\* The values of the parked offerers, longest-waiting first; and behind those
\* already queued, the order in which they will be taken.
Parked == [i \in DOMAIN offerers |-> value[offerers[i]]]

Backlog == items \o Parked

AtMost(m, n) == IF m <= n THEN m ELSE n

\* How many values drainUpTo adds to a batch of `have', up to lim: every
\* dequeue lets one parked offerer into the freed slot, so only an empty queue
\* stops it before the limit.
Available(lim, have) ==
    IF items = <<>> \/ have >= lim THEN 0 ELSE AtMost(lim - have, Len(Backlog))

\* n calls of dequeue under one lock: n values leave, and as many of the
\* longest-parked offerers as there are freed slots enter and are told so.
Dequeue(n) ==
    LET entering == AtMost(n, Len(offerers))
    IN  /\ items' = SubSeq(Backlog, n + 1, Len(items) + entering)
        /\ offerers' = SubSeq(offerers, entering + 1, Len(offerers))
        /\ channel' = [c \in Callers |->
                          IF \E i \in 1..entering : offerers[i] = c
                          THEN Append(channel[c], value[c]) ELSE channel[c]]
        /\ left' = left \o SubSeq(Backlog, 1, n)

\* Take has its value v.  A plain Take returns it; a TakeUpTo has yet to lock
\* the queue again for the rest of its batch.
Obtain(c, v, lim) ==
    IF lim = 0
    THEN got' = [got EXCEPT ![c] = Append(@, v)] /\ Return(c)
    ELSE /\ pc' = [pc EXCEPT ![c] = "drain"]
         /\ batch' = [batch EXCEPT ![c] = <<v>>]
         /\ limit' = [limit EXCEPT ![c] = lim]
         /\ UNCHANGED <<got, value, cancelled>>

TakeQueued(c, lim) ==
    /\ items # <<>>
    /\ Dequeue(1)
    /\ Obtain(c, Head(items), lim)
    /\ UNCHANGED <<capacity, policy, takers, closed, detached, offered, dropped,
                   accepted, rejected, finished>>

TakeFinishedEarly(c, lim) ==
    /\ closed
    /\ finished' = TRUE
    /\ UNCHANGED <<fields, calls, offered, left, dropped, got, accepted, rejected>>

TakeFinished(c, lim) ==
    /\ items = <<>> /\ closed
    /\ finished' = TRUE
    /\ UNCHANGED <<fields, calls, offered, left, dropped, got, accepted, rejected>>

TakePark(c, lim) ==
    /\ items = <<>> /\ ~closed
    /\ takers' = Append(takers, c)
    /\ pc' = [pc EXCEPT ![c] = "awaitValue"]
    /\ limit' = [limit EXCEPT ![c] = lim]
    /\ UNCHANGED <<items, capacity, policy, offerers, closed, value, batch, channel,
                   cancelled, detached, history>>

TakeOrPark(c, lim) ==
    TakeQueued(c, lim) \/ TakeFinished(c, lim) \/ TakePark(c, lim)

Take(c) == pc[c] = "idle" /\ TakeOrPark(c, 0)

\* A limit below one returns an empty batch at once, whatever the queue holds.
TakeUpTo(c, lim) ==
    /\ pc[c] = "idle"
    /\ \/ lim >= 1 /\ TakeOrPark(c, lim)
       \/ lim < 1 /\ UNCHANGED vars

DrainUpToMisplacesFirst(c) ==
    /\ pc[c] = "drain"
    /\ LET n == Available(limit[c], Len(batch[c]))
       IN  /\ Dequeue(n)
           /\ got' = [got EXCEPT ![c] = @ \o SubSeq(Backlog, 1, n) \o batch[c]]
    /\ Return(c)
    /\ UNCHANGED <<capacity, policy, takers, closed, detached, offered, dropped,
                   accepted, rejected, finished>>

\* The second critical section of TakeUpTo.
DrainUpTo(c) ==
    /\ pc[c] = "drain"
    /\ LET n == Available(limit[c], Len(batch[c]))
       IN  /\ Dequeue(n)
           /\ got' = [got EXCEPT ![c] = @ \o batch[c] \o SubSeq(Backlog, 1, n)]
    /\ Return(c)
    /\ UNCHANGED <<capacity, policy, takers, closed, detached, offered, dropped,
                   accepted, rejected, finished>>

TakeAvailable(c, lim) ==
    /\ pc[c] = "idle" /\ Available(lim, 0) > 0
    /\ LET n == Available(lim, 0)
       IN  /\ Dequeue(n)
           /\ got' = [got EXCEPT ![c] = @ \o SubSeq(Backlog, 1, n)]
    /\ UNCHANGED <<capacity, policy, takers, closed, pc, value, limit, batch, cancelled,
                   detached, offered, dropped, accepted, rejected, finished>>

ReceiveValue(c) ==
    /\ pc[c] \in {"awaitValue", "lateValue"} /\ channel[c] # <<>>
    /\ IF Head(channel[c]) = Closed
       THEN finished' = TRUE /\ Return(c) /\ UNCHANGED got
       ELSE Obtain(c, Head(channel[c]), limit[c]) /\ UNCHANGED finished
    /\ channel' = [channel EXCEPT ![c] = <<>>]
    /\ UNCHANGED <<fields, detached, offered, left, dropped, accepted, rejected>>

AbandonTakerUnchecked(c) ==
    /\ pc[c] = "abandonTaker"
    /\ takers' = SelectSeq(takers, LAMBDA d : d # c)
    /\ Return(c)
    /\ channel' = [channel EXCEPT ![c] = <<>>]
    /\ UNCHANGED <<items, capacity, policy, offerers, closed, detached, history>>

AbandonTaker(c) ==
    /\ pc[c] = "abandonTaker"
    /\ \/ \E i \in DOMAIN takers :
            /\ takers[i] = c
            /\ takers' = RemoveAt(takers, i)
            /\ Return(c)
       \/ /\ \A i \in DOMAIN takers : takers[i] # c
          /\ pc' = [pc EXCEPT ![c] = "lateValue"]
          /\ UNCHANGED <<takers, value, limit, batch, cancelled>>
    /\ UNCHANGED <<items, capacity, policy, offerers, closed, channel, detached, history>>
----------------------------------------------------------------------------
(* Cancellation of a parked call, and shutdown *)

\* The environment: the context of a call that is waiting becomes done.
Cancel(c) ==
    /\ pc[c] \in Waits /\ ~cancelled[c]
    /\ cancelled' = [cancelled EXCEPT ![c] = TRUE]
    /\ UNCHANGED <<fields, pc, value, limit, batch, channel, detached, history>>

ObserveCancelTakersOnly(c) ==
    /\ cancelled[c]
    /\ pc[c] = "awaitValue" /\ pc' = [pc EXCEPT ![c] = "abandonTaker"]
    /\ UNCHANGED <<fields, value, limit, batch, channel, cancelled, detached, history>>

\* The select of awaitRoom or awaitValue takes its context case.  It may do so
\* although the channel has its message as well.
ObserveCancel(c) ==
    /\ cancelled[c]
    /\ \/ pc[c] = "awaitRoom" /\ pc' = [pc EXCEPT ![c] = "abandonOfferer"]
       \/ pc[c] = "awaitValue" /\ pc' = [pc EXCEPT ![c] = "abandonTaker"]
    /\ UNCHANGED <<fields, value, limit, batch, channel, cancelled, detached, history>>

ShutdownForgetsOfferers(c) ==
    /\ pc[c] = "idle" /\ ~closed
    /\ closed' = TRUE
    /\ detached' = takers
    /\ takers' = <<>> /\ offerers' = <<>>
    /\ pc' = [pc EXCEPT ![c] = "shutdown"]
    /\ UNCHANGED <<items, capacity, policy, value, limit, batch, channel, cancelled, history>>

\* Shutdown marks the queue and detaches its waiters under the lock; a second
\* Shutdown returns at once.
Shutdown(c) ==
    /\ pc[c] = "idle" /\ ~closed
    /\ closed' = TRUE
    /\ detached' = takers \o offerers
    /\ takers' = <<>> /\ offerers' = <<>>
    /\ pc' = [pc EXCEPT ![c] = "shutdown"]
    /\ UNCHANGED <<items, capacity, policy, value, limit, batch, channel, cancelled, history>>

\* After the unlock it closes their channels, one after the other.
CloseWaiters(c) ==
    /\ pc[c] = "shutdown"
    /\ IF detached = <<>>
       THEN pc' = [pc EXCEPT ![c] = "idle"] /\ UNCHANGED <<detached, channel>>
       ELSE /\ channel' = [channel EXCEPT ![Head(detached)] = Append(@, Closed)]
            /\ detached' = Tail(detached)
            /\ UNCHANGED pc
    /\ UNCHANGED <<fields, value, limit, batch, cancelled, history>>
----------------------------------------------------------------------------
\* What a goroutine inside a call does next, once it can go on.
Proceed(c) ==
    \/ ReceiveRoom(c) \/ AbandonOfferer(c)
    \/ ReceiveValue(c) \/ AbandonTaker(c) \/ DrainUpTo(c)
    \/ ObserveCancel(c) \/ CloseWaiters(c)

\* The calls a program may make, and the cancellations it may suffer.
Call(c) ==
    \/ Offer(c) \/ Take(c) \/ Shutdown(c) \/ Cancel(c)
    \/ \E lim \in Limits : TakeUpTo(c, lim) \/ TakeAvailable(c, lim)

Next == \E c \in Callers : Proceed(c) \/ Call(c)

\* The Go scheduler runs every goroutine that can run; programs need not call.
Fairness == \A c \in Callers : WF_vars(Proceed(c))

Spec == Init /\ [][Next]_vars /\ Fairness
----------------------------------------------------------------------------
(* Properties *)

Values == 1..offered

TypeOK ==
    /\ items \in Seq(Nat) /\ capacity \in Nat /\ policy \in Policies
    /\ takers \in Seq(Callers) /\ offerers \in Seq(Callers) /\ closed \in BOOLEAN
    /\ pc \in [Callers -> Waits \cup {"idle", "drain", "shutdown"}]
    /\ value \in [Callers -> Nat] /\ limit \in [Callers -> Nat]
    /\ batch \in [Callers -> Seq(Nat)] /\ channel \in [Callers -> Seq(Nat)]
    /\ cancelled \in [Callers -> BOOLEAN] /\ detached \in Seq(Callers)
    /\ offered \in Nat /\ left \in Seq(Nat) /\ dropped \subseteq Nat
    /\ got \in [Callers -> Seq(Nat)]
    /\ accepted \subseteq Nat /\ rejected \subseteq Nat /\ finished \in BOOLEAN

\* A waiter's channel never gets a second message: it has room for one, and a
\* second send would block its sender while it holds the lock, or panic on a
\* closed channel (queue_waiter.go 7-10, queue.go 74-82).
RoomForOne == \A c \in Callers : Len(channel[c]) <= 1

\* Somebody waits only while the queue really cannot serve him: takers on an
\* empty queue, offerers on a full one under back pressure, nobody on a queue
\* that is shut down, and a bounded queue never holds more than its capacity.
\* It is what makes handOff's and enqueue's shortcuts sound (queue.go 62-82).
WaitersJustified ==
    /\ takers # <<>> => items = <<>>
    /\ offerers # <<>> => /\ capacity > 0 /\ Len(items) = capacity
                         /\ policy = "BackPressure"
    /\ closed => takers = <<>> /\ offerers = <<>>
    /\ capacity > 0 => Len(items) <= capacity

Increasing(s) == \A i, j \in DOMAIN s : i < j => s[i] < s[j]

Entered == ToSet(left) \cup ToSet(items)

\* The answer of Offer is the truth: an accepted value entered the queue, and
\* one that was declined or whose caller was told of an interruption never
\* did and never will, although a withdrawing offerer may meet an admission.
OfferHonest == accepted \subseteq Entered /\ rejected \cap Entered = {}

\* Everything c has received or is about to: the batches it was given, the one
\* it is assembling, and the value in its waiter's channel.
Held(c) ==
    got[c] \o batch[c]
      \o (IF pc[c] \in {"awaitValue", "abandonTaker", "lateValue"} /\ channel[c] # <<Closed>>
          THEN channel[c] ELSE <<>>)

\* No value is lost or given twice: what left the queue and was not evicted by
\* DropOldest is in the hands of exactly one taker, even if that taker was
\* cancelled at the moment of the hand-off (queue_waiter.go 50-55).
NothingLost ==
    /\ ToSet(left) \ dropped = UNION {ToSet(Held(c)) : c \in Callers}
    /\ \A c, d \in Callers : c # d => ToSet(Held(c)) \cap ToSet(Held(d)) = {}

\* Each consumer sees its values in arrival order, across Take, TakeUpTo and
\* TakeAvailable, although a TakeUpTo gives up the lock within its batch.
ConsumerOrder == \A c \in Callers : Increasing(Held(c))

\* Whoever is told that the queue is finished can rely on it: it is shut down
\* and nothing is left in it (queue.go 94-96, 151-153).
FinishedMeansDrained == finished => closed /\ Backlog = <<>>

\* What goes through a queue is accounted for, and callers are told the truth
\* about it: the five parts above, whoever is cancelled or shuts down when.
ValuesAccountedFor ==
    RoomForOne /\ OfferHonest /\ NothingLost /\ ConsumerOrder /\ FinishedMeansDrained

\* The queue implements the abstract channel.
Channel == INSTANCE FifoChannel
              WITH sent <- left \o items, gone <- left, shutDown <- closed
ImplementsChannel == Channel!ChannelSpec

\* A cancelled call returns, with a value or with an interruption.
CancelReturns == \A c \in Callers : cancelled[c] ~> pc[c] = "idle"

\* Shutdown releases everybody who waits, on either side.
ShutdownReleases == \A c \in Callers : closed /\ pc[c] # "idle" ~> pc[c] = "idle"

\* Nobody stays parked who was cancelled, or whose queue was shut down, although
\* the channels are closed one by one after the unlock.
ParkedCallsReturn == CancelReturns /\ ShutdownReleases
============================================================================
