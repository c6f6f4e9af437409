-------------------------------- MODULE Hub ---------------------------------
(***************************************************************************)
(* effect.Hub: effect/internal/lifetime/hub.go and effect/hub.go.          *)
(*                                                                         *)
(* A hub hands every published value to the inbox of every subscriber.  An *)
(* inbox is a queue; what module Queue shows of queues is taken as given   *)
(* here, so that an offer, a take, an admission and the shutdown of an     *)
(* inbox are one step each.  What is left apart is what the hub does       *)
(* without its lock: the offers of a Publish, one after the other, to the  *)
(* inboxes of its snapshot, and the shutdown of detached inboxes.          *)
(*                                                                         *)
(* A value is the number of the Publish call that brought it, and a token  *)
(* stands for the inbox it was given out with.                             *)
(***************************************************************************)
EXTENDS Naturals, Sequences, SequencesExt

CONSTANTS
    Publishers,        \* goroutines that publish, one call at a time each
    Capacity,          \* the capacity of an inbox
    Policies,          \* what the hubs in use do when an inbox is full
    MaxSubscriptions,  \* bound: how many subscriptions are made altogether
    MaxPublishes       \* bound: how many Publish calls are made altogether

ASSUME HubConstants ==
    /\ Capacity \in Nat \ {0}
    /\ Policies \subseteq {"BackPressure", "DropNewest", "DropOldest"}
    /\ MaxSubscriptions \in Nat /\ MaxPublishes \in Nat

Tokens == 1..MaxSubscriptions

VARIABLES
    \* the fields of lifetime.Hub
    policy, closed, subscribed, nextID,
    \* the inboxes: what each holds, the publishers parked on it, and whether
    \* it is shut down
    items, offerers, shut,
    \* the inboxes taken out of the hub and not yet shut down
    detached,
    \* the publishers: where each is in its call, its value, the part of its
    \* snapshot it has yet to serve, and whether its context is done
    pc, value, todo, cancelled,
    \* history: the number of Publish calls, the subscribers each value is
    \* for, in order, and its answer, what reached and what left each inbox,
    \* and the number of Publish calls when the subscription was made
    published, targets, answer, reached, received, since

hubVars   == <<policy, closed, subscribed, nextID, detached>>
inboxVars == <<items, offerers, shut>>
callVars  == <<pc, value, todo, cancelled>>
vars == <<hubVars, inboxVars, callVars, published, targets, answer, reached, received, since>>

Init ==
    /\ policy \in Policies /\ closed = FALSE /\ subscribed = {} /\ nextID = 0
    /\ detached = {}
    /\ items = [t \in Tokens |-> <<>>] /\ offerers = [t \in Tokens |-> <<>>]
    /\ shut = [t \in Tokens |-> FALSE]
    /\ pc = [p \in Publishers |-> "idle"] /\ value = [p \in Publishers |-> 0]
    /\ todo = [p \in Publishers |-> <<>>] /\ cancelled = [p \in Publishers |-> FALSE]
    /\ published = 0 /\ targets = <<>> /\ answer = <<>>
    /\ reached = [t \in Tokens |-> <<>>] /\ received = [t \in Tokens |-> <<>>]
    /\ since = [t \in Tokens |-> 0]
-----------------------------------------------------------------------------
(* Subscriptions *)

\* Faults, each a plausible slip in the definition that follows it; no action
\* of the specification uses them.  Here: a shut-down hub takes subscribers.

SubscribeAnyway ==
    /\ nextID < MaxSubscriptions
    /\ nextID' = nextID + 1
    /\ subscribed' = subscribed \cup {nextID'}
    /\ since' = [since EXCEPT ![nextID'] = published]
    /\ UNCHANGED <<policy, closed, detached, inboxVars, callVars, published, targets, answer,
                   reached, received>>

Subscribe ==
    /\ ~closed /\ nextID < MaxSubscriptions
    /\ nextID' = nextID + 1
    /\ subscribed' = subscribed \cup {nextID'}
    /\ since' = [since EXCEPT ![nextID'] = published]
    /\ UNCHANGED <<policy, closed, detached, inboxVars, callVars, published, targets, answer,
                   reached, received>>

\* The subscriber's scope closes: the hub forgets the inbox under its lock and
\* shuts it down afterwards.  After Shutdown there is nothing to do.
Unsubscribe(t) ==
    /\ t \in subscribed
    /\ subscribed' = subscribed \ {t}
    /\ detached' = detached \cup {t}
    /\ UNCHANGED <<policy, closed, nextID, inboxVars, callVars, published, targets, answer,
                   reached, received, since>>

Shutdown ==
    /\ ~closed /\ closed' = TRUE
    /\ subscribed' = {}
    /\ detached' = detached \cup subscribed
    /\ UNCHANGED <<policy, nextID, inboxVars, callVars, published, targets, answer, reached,
                   received, since>>

\* Queue.Shutdown of one detached inbox.  The publishers parked on it are
\* declined and go on to the next inbox; what it holds stays to be taken.
ShutInbox(t) ==
    /\ t \in detached
    /\ detached' = detached \ {t}
    /\ shut' = [shut EXCEPT ![t] = TRUE]
    /\ offerers' = [offerers EXCEPT ![t] = <<>>]
    /\ pc' = [p \in Publishers |-> IF p \in ToSet(offerers[t]) THEN "deliver" ELSE pc[p]]
    /\ UNCHANGED <<policy, closed, subscribed, nextID, items, value, todo, cancelled,
                   published, targets, answer, reached, received, since>>
-----------------------------------------------------------------------------
(* Publishing *)

OrderedYoungestFirst(S) == SetToSortSeq(S, >)

Ordered(S) ==
    CHOOSE s \in [1..Cardinality(S) -> S] : \A i, j \in DOMAIN s : i < j => s[i] < s[j]

\* currentInboxes: the snapshot, in the order of subscription, under the lock.
\* A hub that is shut down refuses at once.
Publish(p) ==
    /\ pc[p] = "idle" /\ published < MaxPublishes
    /\ \/ /\ ~closed
          /\ published' = published + 1
          /\ targets' = Append(targets, Ordered(subscribed))
          /\ answer' = Append(answer, "pending")
          /\ pc' = [pc EXCEPT ![p] = "deliver"]
          /\ value' = [value EXCEPT ![p] = published']
          /\ todo' = [todo EXCEPT ![p] = Ordered(subscribed)]
       \/ closed /\ UNCHANGED <<published, targets, answer, pc, value, todo>>
    /\ UNCHANGED <<hubVars, inboxVars, cancelled, reached, received, since>>

Arrive(t, v) == reached' = [reached EXCEPT ![t] = Append(@, v)]
Onward(p) == todo' = [todo EXCEPT ![p] = Tail(@)]

\* The next inbox of the snapshot is offered the value: Queue.Offer.  Whether
\* it was accepted is of no interest to the hub.
OfferRoom(p, t) ==
    /\ ~shut[t] /\ Len(items[t]) < Capacity
    /\ items' = [items EXCEPT ![t] = Append(@, value[p])]
    /\ Arrive(t, value[p]) /\ Onward(p)
    /\ UNCHANGED <<offerers, pc>>

\* An inbox unsubscribed since the snapshot, or one full of older values.
OfferDeclined(p, t) ==
    /\ shut[t] \/ (policy = "DropNewest" /\ Len(items[t]) >= Capacity)
    /\ Onward(p)
    /\ UNCHANGED <<items, offerers, reached, pc>>

OfferEvicts(p, t) ==
    /\ ~shut[t] /\ policy = "DropOldest" /\ Len(items[t]) >= Capacity
    /\ items' = [items EXCEPT ![t] = Append(Tail(@), value[p])]
    /\ Arrive(t, value[p]) /\ Onward(p)
    /\ UNCHANGED <<offerers, pc>>

\* Faults: a suspending inbox is passed over, or the publisher comes back to
\* it when it is let in.
OfferSkips(p, t) ==
    /\ ~shut[t] /\ policy = "BackPressure" /\ Len(items[t]) >= Capacity
    /\ Onward(p)
    /\ UNCHANGED <<items, offerers, reached, pc>>

OfferParksInPlace(p, t) ==
    /\ ~shut[t] /\ policy = "BackPressure" /\ Len(items[t]) >= Capacity
    /\ offerers' = [offerers EXCEPT ![t] = Append(@, p)]
    /\ pc' = [pc EXCEPT ![p] = "parked"]
    /\ UNCHANGED <<items, reached, todo>>

\* The publisher waits in line; once it is let in or declined, it is through
\* with this inbox.
OfferParks(p, t) ==
    /\ ~shut[t] /\ policy = "BackPressure" /\ Len(items[t]) >= Capacity
    /\ offerers' = [offerers EXCEPT ![t] = Append(@, p)]
    /\ pc' = [pc EXCEPT ![p] = "parked"] /\ Onward(p)
    /\ UNCHANGED <<items, reached>>

Deliver(p) ==
    /\ pc[p] = "deliver" /\ todo[p] # <<>>
    /\ LET t == Head(todo[p])
       IN  OfferRoom(p, t) \/ OfferDeclined(p, t) \/ OfferEvicts(p, t) \/ OfferParks(p, t)
    /\ UNCHANGED <<hubVars, shut, value, cancelled, published, targets, answer, received, since>>

Return(p, reply) ==
    /\ pc' = [pc EXCEPT ![p] = "idle"]
    /\ value' = [value EXCEPT ![p] = 0]
    /\ todo' = [todo EXCEPT ![p] = <<>>]
    /\ cancelled' = [cancelled EXCEPT ![p] = FALSE]
    /\ answer' = [answer EXCEPT ![value[p]] = reply]

PublishReturns(p) ==
    /\ pc[p] = "deliver" /\ todo[p] = <<>>
    /\ Return(p, "accepted")
    /\ UNCHANGED <<hubVars, inboxVars, published, targets, reached, received, since>>

\* The context of a Publish call is done.  Only a parked publisher looks, so
\* that a context done earlier shows when the publisher parks.
Cancel(p) ==
    /\ pc[p] = "parked" /\ ~cancelled[p]
    /\ cancelled' = [cancelled EXCEPT ![p] = TRUE]
    /\ UNCHANGED <<hubVars, inboxVars, pc, value, todo, published, targets, answer, reached,
                   received, since>>

\* Fault: the publisher leaves without giving up its place in the line.
AbandonInLine(p) ==
    /\ pc[p] = "parked" /\ cancelled[p]
    /\ Return(p, "interrupted")
    /\ UNCHANGED <<hubVars, inboxVars, published, targets, reached, received, since>>

\* A parked publisher withdraws and gives up on the rest of its snapshot.
Abandon(p) ==
    /\ pc[p] = "parked" /\ cancelled[p]
    /\ Return(p, "interrupted")
    /\ \E t \in Tokens : \E i \in DOMAIN offerers[t] :
          offerers[t][i] = p /\ offerers' = [offerers EXCEPT ![t] = RemoveAt(@, i)]
    /\ UNCHANGED <<hubVars, items, shut, published, targets, reached, received, since>>

\* Subscription.Take of a value that is there; the longest parked publisher
\* takes the place it leaves.
Take(t) ==
    /\ items[t] # <<>>
    /\ received' = [received EXCEPT ![t] = Append(@, Head(items[t]))]
    /\ IF offerers[t] = <<>>
       THEN /\ items' = [items EXCEPT ![t] = Tail(@)]
            /\ UNCHANGED <<offerers, pc, reached>>
       ELSE LET p == Head(offerers[t])
            IN  /\ items' = [items EXCEPT ![t] = Append(Tail(@), value[p])]
                /\ offerers' = [offerers EXCEPT ![t] = Tail(@)]
                /\ pc' = [pc EXCEPT ![p] = "deliver"]
                /\ Arrive(t, value[p])
    /\ UNCHANGED <<hubVars, shut, value, todo, cancelled, published, targets, answer, since>>
-----------------------------------------------------------------------------
Next ==
    \/ Subscribe \/ Shutdown
    \/ \E t \in Tokens : Unsubscribe(t) \/ ShutInbox(t) \/ Take(t)
    \/ \E p \in Publishers : \/ Publish(p) \/ Deliver(p) \/ PublishReturns(p)
                            \/ Cancel(p) \/ Abandon(p)

Spec == Init /\ [][Next]_vars
-----------------------------------------------------------------------------
(* Properties *)

TypeOK ==
    /\ policy \in Policies /\ closed \in BOOLEAN /\ nextID \in 0..MaxSubscriptions
    /\ subscribed \subseteq 1..nextID /\ detached \subseteq 1..nextID
    /\ items \in [Tokens -> Seq(Nat)] /\ offerers \in [Tokens -> Seq(Publishers)]
    /\ shut \in [Tokens -> BOOLEAN]
    /\ pc \in [Publishers -> {"idle", "deliver", "parked"}] /\ value \in [Publishers -> Nat]
    /\ todo \in [Publishers -> Seq(Tokens)] /\ cancelled \in [Publishers -> BOOLEAN]
    /\ published \in Nat /\ targets \in Seq(Seq(Tokens))
    /\ answer \in Seq({"pending", "accepted", "interrupted"})
    /\ reached \in [Tokens -> Seq(Nat)] /\ received \in [Tokens -> Seq(Nat)]
    /\ since \in [Tokens -> Nat]

\* No inbox outlives its hub: once the hub is shut down and the shutdowns it
\* owes are done, every inbox it ever gave out is shut down, so that nobody
\* waits on a hub nobody will publish to (hub.go 111-113, and 52-53).
NoInboxForgotten ==
    /\ \A t \in 1..nextID : t \in subscribed \/ t \in detached \/ shut[t]
    /\ closed /\ detached = {} => \A t \in 1..nextID : shut[t]

\* No replay: a subscriber sees only what was published after it subscribed,
\* each value at most once, and takes them in the order they arrived in.
NoReplay ==
    \A t \in Tokens : /\ \A i \in DOMAIN reached[t] : reached[t][i] > since[t]
                      /\ \A i, j \in DOMAIN reached[t] : reached[t][i] = reached[t][j] => i = j
                      /\ received[t] \o items[t] = reached[t]
                            \/ policy = "DropOldest"

\* When Publish has said that the hub accepted the value, the value has
\* reached every subscriber of the snapshot, but for the inboxes that were
\* shut down meanwhile; a hub that drops its newest values does not promise it.
AcceptedReachesAll ==
    policy # "DropNewest" => \A v \in DOMAIN answer : answer[v] = "accepted" =>
        \A t \in ToSet(targets[v]) : shut[t] \/ v \in ToSet(reached[t])

\* A value reaches the subscribers of its snapshot in the order they have
\* subscribed in, so that an interrupted Publish has reached the longest
\* subscribed ones and no others (hub.go 70-72).
InSubscriptionOrder ==
    policy = "BackPressure" =>
        \A v \in DOMAIN targets : \A early, late \in ToSet(targets[v]) :
            early < late /\ v \in ToSet(reached[late]) =>
                shut[early] \/ v \in ToSet(reached[early])

\* Who gets what, and in which order: the three parts above (hub.go 65-86).
DeliveryKeepsItsWord == NoReplay /\ AcceptedReachesAll /\ InSubscriptionOrder

\* A publisher waits exactly if it stands in the line of one inbox that is
\* full and not shut down.  So there is always somebody who can let it in or
\* release it, and nobody is let in who has left.
NobodyStranded ==
    /\ \A p \in Publishers : pc[p] = "parked" => \E t \in Tokens : p \in ToSet(offerers[t])
    /\ \A t \in Tokens : \A i \in DOMAIN offerers[t] :
          pc[offerers[t][i]] = "parked" /\ ~shut[t] /\ Len(items[t]) >= Capacity
=============================================================================
