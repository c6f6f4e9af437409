----------------------------- MODULE HubProofs ------------------------------
(***************************************************************************)
(* No inbox outlives its hub, for any number of publishers, subscriptions  *)
(* and values.                                                             *)
(***************************************************************************)
EXTENDS Hub, SequenceLemmas, SequenceTheorems, TLAPS

(***************************************************************************)
(* The inductive invariant: every inbox given out is with the hub, on its  *)
(* way to be shut down, or shut down, and a hub that is shut down has none *)
(* left.  The last part is what makes the property inductive: without it a *)
(* subscription could follow the shutdown.                                 *)
(***************************************************************************)
InboxTypes ==
    /\ nextID \in 0..MaxSubscriptions /\ closed \in BOOLEAN
    /\ shut \in [Tokens -> BOOLEAN]

Accounted == \A t \in 1..nextID : t \in subscribed \/ t \in detached \/ shut[t]

ClosedHasNone == closed => subscribed = {}

InboxInv == InboxTypes /\ Accounted /\ ClosedHasNone

\* What the invariant is about, which publishing and taking leave alone.
inboxState == <<closed, subscribed, nextID, detached, shut>>

LEMMA InboxInit == Init => InboxInv
<1> SUFFICES ASSUME Init PROVE InboxInv
  OBVIOUS
<1> USE HubConstants
<1>1. InboxTypes
  <2>1. nextID = 0 /\ closed = FALSE /\ shut = [t \in Tokens |-> FALSE]
    BY DEF Init
  <2>2. shut \in [Tokens -> BOOLEAN]
    BY <2>1
  <2>3. nextID \in 0..MaxSubscriptions
    BY <2>1
  <2> QED BY <2>1, <2>2, <2>3 DEF InboxTypes
<1>2. Accounted
  <2>1. nextID = 0
    BY DEF Init
  <2> QED BY <2>1 DEF Accounted
<1>3. ClosedHasNone
  BY DEF Init, ClosedHasNone
<1> QED BY <1>1, <1>2, <1>3 DEF InboxInv

LEMMA InboxUntouched ==
  ASSUME InboxInv, UNCHANGED inboxState
  PROVE  InboxInv'
BY DEF InboxInv, InboxTypes, Accounted, ClosedHasNone, inboxState

LEMMA InboxNext ==
  ASSUME InboxInv, [Next]_vars
  PROVE  InboxInv'
<1> USE HubConstants
<1>1. CASE Subscribe
  <2>1. nextID' = nextID + 1 /\ nextID < MaxSubscriptions /\ nextID \in Nat
    BY <1>1 DEF Subscribe, InboxInv, InboxTypes
  <2>2. subscribed' = subscribed \cup {nextID'} /\ UNCHANGED <<closed, detached, shut>> /\ ~closed
    BY <1>1 DEF Subscribe, inboxVars
  <2>3. InboxTypes' /\ ClosedHasNone'
    BY <2>1, <2>2 DEF InboxInv, InboxTypes, ClosedHasNone
  <2>4. ASSUME NEW t \in 1..nextID' PROVE t \in subscribed' \/ t \in detached' \/ shut'[t]
    <3>1. t = nextID' \/ t \in 1..nextID
      BY <2>1
    <3> QED BY <3>1, <2>2 DEF InboxInv, Accounted
  <2> QED BY <2>3, <2>4 DEF InboxInv, Accounted
<1>2. CASE Shutdown
  BY <1>2 DEF Shutdown, inboxVars, InboxInv, InboxTypes, Accounted, ClosedHasNone
<1>3. ASSUME NEW t \in Tokens, Unsubscribe(t) PROVE InboxInv'
  BY <1>3 DEF Unsubscribe, inboxVars, InboxInv, InboxTypes, Accounted, ClosedHasNone
<1>4. ASSUME NEW t \in Tokens, ShutInbox(t) PROVE InboxInv'
  BY <1>4 DEF ShutInbox, InboxInv, InboxTypes, Accounted, ClosedHasNone, Tokens
<1>5. ASSUME NEW t \in Tokens, Take(t) PROVE InboxInv'
  BY <1>5, InboxUntouched DEF Take, hubVars, inboxState
<1>6. ASSUME NEW p \in Publishers, Publish(p) PROVE InboxInv'
  BY <1>6, InboxUntouched DEF Publish, hubVars, inboxVars, inboxState
<1>7. ASSUME NEW p \in Publishers, Deliver(p) PROVE InboxInv'
  BY <1>7, InboxUntouched DEF Deliver, hubVars, inboxState
<1>8. ASSUME NEW p \in Publishers, PublishReturns(p) PROVE InboxInv'
  BY <1>8, InboxUntouched DEF PublishReturns, hubVars, inboxVars, inboxState
<1>9. ASSUME NEW p \in Publishers, Cancel(p) PROVE InboxInv'
  BY <1>9, InboxUntouched DEF Cancel, hubVars, inboxVars, inboxState
<1>10. ASSUME NEW p \in Publishers, Abandon(p) PROVE InboxInv'
  BY <1>10, InboxUntouched DEF Abandon, hubVars, inboxState
<1>11. CASE UNCHANGED vars
  BY <1>11, InboxUntouched DEF vars, hubVars, inboxVars, inboxState
<1> QED
  BY <1>1, <1>2, <1>3, <1>4, <1>5, <1>6, <1>7, <1>8, <1>9, <1>10, <1>11 DEF Next

(***************************************************************************)
(* Hub.Shutdown and Unsubscribe reach every inbox Subscribe ever gave out, *)
(* however they interleave with it (hub.go 38-63 and 114-131).             *)
(***************************************************************************)
THEOREM HubNoInboxForgotten == Spec => []NoInboxForgotten
<1>1. InboxInv => NoInboxForgotten
  BY DEF InboxInv, Accounted, ClosedHasNone, NoInboxForgotten
<1> QED
  BY InboxInit, InboxNext, <1>1, PTL DEF Spec

(***************************************************************************)
(* Publishing.  A publisher still owes its value to the inboxes it has yet *)
(* to come to and to the one it stands in line for.  The invariant says of *)
(* every call under way that whatever it does not owe any more is settled, *)
(* that the inboxes its value has reached were subscribed before those it  *)
(* is still owed to, and that the one it waits for comes before the rest.  *)
(***************************************************************************)
InLine(p, t) == p \in ToSet(offerers[t])
ToCome(p, t) == t \in ToSet(todo[p])
Has(t, v) == v \in ToSet(reached[t])
For(v, t) == t \in ToSet(targets[v])

Owed(p, t) == ToCome(p, t) \/ InLine(p, t)

Settled(v, t) == shut[t] \/ Has(t, v) \/ policy = "DropNewest"

\* The lines: a publisher waits exactly if it stands in one, once.
LinesInv ==
    /\ \A t \in Tokens : NoRepeats(offerers[t])
    /\ \A p \in Publishers : pc[p] = "parked" <=> \E t \in Tokens : InLine(p, t)
    /\ \A p \in Publishers : \A t, u \in Tokens : InLine(p, t) /\ InLine(p, u) => t = u
    /\ \A t \in Tokens : offerers[t] # <<>> => ~shut[t] /\ Len(items[t]) >= Capacity

\* The numbers of the values, and the subscriptions they are for.
NumbersInv ==
    /\ Len(targets) = published /\ Len(answer) = published
    /\ \A t \in Tokens : since[t] <= published
    /\ \A v \in 1..published, t \in Tokens : For(v, t) => t <= nextID /\ since[t] < v
    /\ \A p, q \in Publishers : pc[p] # "idle" /\ pc[q] # "idle" /\ value[p] = value[q] => p = q

\* What reached an inbox was for it and reached it once.
ReachedInv ==
    \A t \in Tokens : /\ NoRepeats(reached[t])
                      /\ \A v \in Nat : Has(t, v) => v \in 1..published /\ For(v, t)

\* Unless values are evicted, what reached an inbox was taken or is there.
ContentsInv ==
    \A t \in Tokens : received[t] \o items[t] = reached[t] \/ policy = "DropOldest"

\* A call under way.
CallInv(p) ==
    pc[p] # "idle" =>
        /\ value[p] \in 1..published /\ answer[value[p]] = "pending"
        /\ InOrder(todo[p])
        /\ \A t \in Tokens : Owed(p, t) => For(value[p], t)
        /\ \A t \in Tokens : For(value[p], t) => Owed(p, t) \/ Settled(value[p], t)
        /\ \A t, u \in Tokens : Has(t, value[p]) /\ Owed(p, u) => t < u
        /\ \A t, u \in Tokens : InLine(p, t) /\ ToCome(p, u) => t < u

CallsInv == \A p \in Publishers : CallInv(p)

\* The two promises about who gets a value, by the names above.
AllReached ==
    \A v \in 1..published : answer[v] = "accepted" =>
        \A t \in Tokens : For(v, t) => Settled(v, t)

EarlierFirst ==
    policy = "BackPressure" =>
        \A v \in 1..published : \A t, u \in Tokens :
            For(v, t) /\ For(v, u) /\ t < u /\ Has(u, v) => shut[t] \/ Has(t, v)

DeliveryInv ==
    /\ TypeOK /\ LinesInv /\ NumbersInv /\ ReachedInv /\ ContentsInv /\ CallsInv
    /\ AllReached /\ EarlierFirst

LEMMA Primed ==
  /\ \A p, t : InLine(p, t)' <=> p \in ToSet(offerers'[t])
  /\ \A p, t : ToCome(p, t)' <=> t \in ToSet(todo'[p])
  /\ \A v, t : Has(t, v)' <=> v \in ToSet(reached'[t])
  /\ \A v, t : For(v, t)' <=> t \in ToSet(targets'[v])
  /\ \A p, t : Owed(p, t)' <=> ToCome(p, t)' \/ InLine(p, t)'
  /\ \A v, t : Settled(v, t)' <=> shut'[t] \/ Has(t, v)' \/ policy' = "DropNewest"
  BY DEF InLine, ToCome, Has, For, Owed, Settled, ToSet

LEMMA PrimedOrder ==
  /\ \A t : NoRepeats(offerers[t])' <=> NoRepeats(offerers'[t])
  /\ \A t : NoRepeats(reached[t])' <=> NoRepeats(reached'[t])
  /\ \A p : InOrder(todo[p])' <=> InOrder(todo'[p])
  BY DEF NoRepeats, InOrder

LEMMA TokenFacts == Tokens \subseteq Nat /\ \A t \in Tokens : t \in Nat
  BY HubConstants DEF Tokens

\* The snapshot lists the subscriptions in their order, each once.
LEMMA OrderedFacts ==
  ASSUME NEW n \in Nat, NEW S \in SUBSET (1..n)
  PROVE  Ordered(S) \in Seq(S) /\ InOrder(Ordered(S)) /\ ToSet(Ordered(S)) = S
<1> DEFINE c == Cardinality(S)
           Asc(s) == \A i, j \in DOMAIN s : i < j => s[i] < s[j]
<1>1. IsFiniteSet(S) /\ \E s \in [1..c -> S] : \A i, j \in 1..c : i < j => s[i] < s[j]
  BY EnumerationExists
<1>2. \E s \in [1..c -> S] : Asc(s)
  BY <1>1
<1>3. Ordered(S) \in [1..c -> S] /\ Asc(Ordered(S))
  BY <1>2 DEF Ordered
<1>4. \A i, j \in 1..c : i < j => Ordered(S)[i] < Ordered(S)[j]
  BY <1>3
<1>5. S \in SUBSET Nat
  OBVIOUS
<1> QED BY <1>1, <1>3, <1>4, <1>5, EnumerationComplete

\* A call no step touches keeps its standing while inboxes fill and are shut.
LEMMA CallKept ==
  ASSUME NEW p \in Publishers, CallInv(p), published \in Nat, published' \in Nat,
         published <= published', policy' = policy,
         pc'[p] # "idle" => pc[p] # "idle", value'[p] = value[p], todo'[p] = todo[p],
         pc[p] # "idle" => /\ answer'[value[p]] = answer[value[p]]
                           /\ targets'[value[p]] = targets[value[p]],
         \A t \in Tokens : (InLine(p, t)' <=> InLine(p, t)) /\ (shut[t] => shut'[t]),
         \A t \in Tokens : Has(t, value[p])' <=> Has(t, value[p])
  PROVE  CallInv(p)'
<1> SUFFICES ASSUME pc'[p] # "idle" PROVE CallInv(p)'
  BY DEF CallInv
<1> DEFINE v == value[p]
<1>1. /\ v \in 1..published /\ answer[v] = "pending"
      /\ InOrder(todo[p])
      /\ \A t \in Tokens : Owed(p, t) => For(v, t)
      /\ \A t \in Tokens : For(v, t) => Owed(p, t) \/ Settled(v, t)
      /\ \A t, u \in Tokens : Has(t, v) /\ Owed(p, u) => t < u
      /\ \A t, u \in Tokens : InLine(p, t) /\ ToCome(p, u) => t < u
  BY DEF CallInv
<1>2. v \in 1..published'
  BY <1>1
<1>3. /\ \A t \in Tokens : ToCome(p, t)' <=> ToCome(p, t)
      /\ \A t \in Tokens : For(v, t)' <=> For(v, t)
  BY Primed DEF ToCome, For
<1>4. \A t \in Tokens : Owed(p, t)' <=> Owed(p, t)
  BY <1>3, Primed DEF Owed
<1>5. \A t \in Tokens : Settled(v, t) => Settled(v, t)'
  BY Primed DEF Settled
<1>6. InOrder(todo[p])'
  BY <1>1, PrimedOrder
<1> HIDE DEF v
<1>7. \A t, u \in Tokens : Has(t, v)' /\ Owed(p, u)' => t < u
  BY <1>1, <1>4 DEF v
<1>8. v' = v /\ answer'[v] = "pending"
  BY <1>1 DEF v
<1> QED BY <1>1, <1>2, <1>3, <1>4, <1>5, <1>6, <1>7, <1>8 DEF CallInv, v

\* Promises once kept stay kept: what an answered value has reached, or what was
\* shut meanwhile, remains, and a value under way reaches the inboxes in order.
LEMMA PromisesKept ==
  ASSUME DeliveryInv, TypeOK', CallsInv', policy' = policy, published' = published,
         targets' = targets,
         \A v \in 1..published : answer'[v] = "accepted" =>
             answer[v] = "accepted" \/ \A t \in Tokens : For(v, t) => Settled(v, t)',
         \A t \in Tokens : shut[t] => shut'[t],
         \A t \in Tokens, v \in 1..published : Has(t, v) => Has(t, v)',
         \A t \in Tokens, v \in 1..published :
             Has(t, v)' => \/ Has(t, v)
                           \/ \E p \in Publishers : pc'[p] # "idle" /\ value'[p] = v
  PROVE  AllReached' /\ EarlierFirst'
<1>1. \A v, t : For(v, t)' <=> For(v, t)
  BY DEF For, ToSet
<1>2. AllReached'
  <2> SUFFICES ASSUME NEW v \in 1..published, answer'[v] = "accepted", NEW t \in Tokens, For(v, t)
               PROVE  Settled(v, t)'
    BY <1>1 DEF AllReached
  <2>1. CASE answer[v] = "accepted"
    <3>1. Settled(v, t)
      BY <2>1 DEF DeliveryInv, AllReached
    <3> QED BY <3>1, Primed DEF Settled
  <2> QED BY <2>1
<1>3. EarlierFirst'
  <2> SUFFICES ASSUME policy = "BackPressure", NEW v \in 1..published, NEW t \in Tokens,
                      NEW u \in Tokens, For(v, t), For(v, u), t < u, Has(u, v)'
               PROVE  shut'[t] \/ Has(t, v)'
    BY <1>1 DEF EarlierFirst
  <2>1. CASE Has(u, v)
    BY <2>1 DEF DeliveryInv, EarlierFirst
  <2>2. ASSUME NEW p \in Publishers, pc'[p] # "idle", value'[p] = v
        PROVE  shut'[t] \/ Has(t, v)'
    <3>0. CallInv(p)'
      BY DEF CallsInv
    <3>1. /\ For(v, t)' => Owed(p, t)' \/ Settled(v, t)'
          /\ Has(u, v)' /\ Owed(p, t)' => u < t
      BY <2>2, <3>0 DEF CallInv
    <3>2. ~(u < t)
      <4>1. t \in Nat /\ u \in Nat /\ t < u
        BY TokenFacts
      <4> QED BY ONLY <4>1
    <3>3. Settled(v, t)'
      BY <1>1, <3>1, <3>2
    <3> QED BY <3>3, Primed
  <2> QED BY <2>1, <2>2
<1> QED BY <1>2, <1>3

\* The numbers are settled when a call begins.
LEMMA NumbersKept ==
  ASSUME NumbersInv, nextID' = nextID, published' = published, targets' = targets,
         since' = since, Len(answer') = Len(answer),
         \A p \in Publishers : pc'[p] # "idle" => pc[p] # "idle" /\ value'[p] = value[p]
  PROVE  NumbersInv'
<1>1. \A v, t : For(v, t)' <=> For(v, t)
  BY DEF For, ToSet
<1>2. \A v \in 1..published, t \in Tokens : For(v, t)' => t <= nextID' /\ since'[t] < v
  BY <1>1 DEF NumbersInv
<1>3. \A p, q \in Publishers :
         pc'[p] # "idle" /\ pc'[q] # "idle" /\ value'[p] = value'[q] => p = q
  BY DEF NumbersInv
<1> QED BY <1>2, <1>3 DEF NumbersInv

\* The publisher p is through with the inbox t, the first of those it owes.
LEMMA OneServed ==
  ASSUME DeliveryInv, TypeOK', NEW p \in Publishers, NEW t \in Tokens, pc[p] # "idle",
         policy' = policy, nextID' = nextID, shut' = shut, value' = value,
         published' = published, targets' = targets, answer' = answer, since' = since,
         \A q \in Publishers : pc'[q] # "idle" <=> pc[q] # "idle",
         \A q \in Publishers \ {p} : /\ todo'[q] = todo[q]
                                     /\ \A u \in Tokens : InLine(q, u)' <=> InLine(q, u),
         InOrder(todo'[p]),
         Owed(p, t), \A u \in Tokens : Owed(p, u) /\ u # t => t < u,
         \A u \in Tokens : /\ Owed(p, u)' <=> Owed(p, u) /\ u # t
                           /\ InLine(p, u)' => InLine(p, u)
                           /\ ToCome(p, u)' => ToCome(p, u),
         \A u \in Tokens \ {t} : reached'[u] = reached[u],
         \/ reached'[t] = Append(reached[t], value[p])
         \/ reached'[t] = reached[t] /\ Settled(value[p], t)
  PROVE  NumbersInv' /\ ReachedInv' /\ CallsInv' /\ AllReached' /\ EarlierFirst'
<1>1. /\ TypeOK /\ NumbersInv /\ ReachedInv /\ CallsInv
      /\ \A q \in Publishers : CallInv(q)
  BY DEF DeliveryInv, CallsInv
<1>2. /\ published \in Nat /\ \A u \in Tokens : reached[u] \in Seq(Nat)
      /\ \A q \in Publishers : value[q] \in Nat
  BY <1>1 DEF TypeOK
<1>3. PICK v \in Nat : v = value[p]
  BY <1>2
<1>4. /\ v \in 1..published /\ answer[v] = "pending"
      /\ \A u \in Tokens : Owed(p, u) => For(v, u)
      /\ \A u \in Tokens : For(v, u) => Owed(p, u) \/ Settled(v, u)
      /\ \A u, w \in Tokens : Has(u, v) /\ Owed(p, w) => u < w
      /\ \A u, w \in Tokens : InLine(p, u) /\ ToCome(p, w) => u < w
  BY <1>1, <1>3 DEF CallInv
<1>5. ~Has(t, v) /\ ~(t < t)
  BY <1>4, TokenFacts
<1>6. /\ \A u \in Tokens, x \in Nat : Has(u, x)' <=> Has(u, x) \/ (u = t /\ x = v /\ Has(t, v)')
      /\ Has(t, v)' \/ Settled(v, t)
      /\ \A u \in Tokens : NoRepeats(reached'[u])
  <2>1. \A u \in Tokens : NoRepeats(reached[u])
    BY <1>1 DEF ReachedInv
  <2>2. \A u \in Tokens \ {t}, x \in Nat : Has(u, x)' <=> Has(u, x)
    BY Primed DEF Has
  <2>3. CASE reached'[t] = Append(reached[t], value[p])
    <3>1. NoRepeats(reached'[t]) /\ ToSet(reached'[t]) = ToSet(reached[t]) \cup {v}
      BY <1>2, <1>3, <1>5, <2>1, <2>3, LineAppend DEF Has
    <3>2. \A x : Has(t, x)' <=> Has(t, x) \/ x = v
      BY <3>1, Primed DEF Has
    <3>3. \A u \in Tokens : NoRepeats(reached'[u])
      BY <2>1, <3>1
    <3> QED BY <2>2, <3>2, <3>3
  <2>4. CASE reached'[t] = reached[t] /\ Settled(value[p], t)
    <3>1. \A x : Has(t, x)' <=> Has(t, x)
      BY <2>4, Primed DEF Has
    <3>2. \A u \in Tokens : NoRepeats(reached'[u])
      BY <2>1, <2>4
    <3> QED BY <1>3, <2>2, <2>4, <3>1, <3>2
  <2> QED BY <2>3, <2>4
<1>7. \A x, u : For(x, u)' <=> For(x, u)
  BY DEF For, ToSet
<1>8. ReachedInv'
  <2> SUFFICES ASSUME NEW u \in Tokens
               PROVE  /\ NoRepeats(reached[u])'
                      /\ \A x \in Nat : Has(u, x)' => x \in 1..published' /\ For(x, u)'
    BY DEF ReachedInv
  <2>1. \A x \in Nat : Has(u, x)' => x \in 1..published /\ For(x, u)
    BY <1>1, <1>4, <1>6 DEF ReachedInv
  <2> QED BY <1>6, <1>7, <2>1, PrimedOrder
<1>9. NumbersInv'
  BY <1>1, NumbersKept
<1>10. CallInv(p)'
  <2>1. value'[p] = v /\ v \in 1..published' /\ answer'[v] = "pending" /\ InOrder(todo[p])'
    BY <1>3, <1>4, PrimedOrder
  <2>2. \A u \in Tokens : Owed(p, u)' => For(v, u)'
    BY <1>4, <1>7
  <2>3. \A u \in Tokens : For(v, u)' => Owed(p, u)' \/ Settled(v, u)'
    <3> SUFFICES ASSUME NEW u \in Tokens, For(v, u), ~Owed(p, u)' PROVE Settled(v, u)'
      BY <1>7
    <3>1. CASE u = t
      BY <1>5, <1>6, <3>1, Primed DEF Settled
    <3>2. CASE u # t
      <4>1. Settled(v, u)
        BY <1>4, <3>2
      <4> QED BY <1>6, <4>1, Primed DEF Settled
    <3> QED BY <3>1, <3>2
  <2>4. \A u, w \in Tokens : Has(u, v)' /\ Owed(p, w)' => u < w
    BY <1>4, <1>6
  <2>5. \A u, w \in Tokens : InLine(p, u)' /\ ToCome(p, w)' => u < w
    BY <1>4
  <2> QED BY <2>1, <2>2, <2>3, <2>4, <2>5 DEF CallInv
<1>11. ASSUME NEW q \in Publishers \ {p} PROVE CallInv(q)'
  <2>1. CASE pc[q] = "idle"
    BY <2>1 DEF CallInv
  <2>2. CASE pc[q] # "idle"
    <3>1. value[q] # v /\ value[q] \in Nat
      BY <1>1, <1>2, <1>3, <2>2 DEF NumbersInv
    <3>2. \A u \in Tokens : Has(u, value[q])' <=> Has(u, value[q])
      <4>1. PICK x \in Nat : x = value[q]
        BY <3>1
      <4>2. \A u \in Tokens : Has(u, x)' <=> Has(u, x)
        BY <1>6, <3>1, <4>1
      <4> QED BY <4>1, <4>2 DEF Has
    <3> QED BY <1>1, <1>2, <3>2, CallKept
  <2> QED BY <2>1, <2>2
<1>12. CallsInv'
  BY <1>10, <1>11 DEF CallsInv
<1>13. AllReached' /\ EarlierFirst'
  <2>1. \A u \in Tokens, x \in 1..published : Has(u, x) => Has(u, x)'
    BY <1>2, <1>6
  <2>2. \A u \in Tokens, x \in 1..published :
           Has(u, x)' => \/ Has(u, x)
                         \/ \E q \in Publishers : pc'[q] # "idle" /\ value'[q] = x
    BY <1>2, <1>3, <1>6
  <2> QED BY <1>12, <2>1, <2>2, PromisesKept
<1> QED BY <1>8, <1>9, <1>12, <1>13

(* The types *)

Answers == {"pending", "accepted", "interrupted"}

LEMMA TypesInit == Init => TypeOK
<1> SUFFICES ASSUME Init PROVE TypeOK
  OBVIOUS
<1>1. \A S : <<>> \in Seq(S)
  BY EmptySeq
<1>2. 0 \in 0..MaxSubscriptions /\ {} \subseteq 1..0
  BY HubConstants
<1>3. /\ items \in [Tokens -> Seq(Nat)] /\ offerers \in [Tokens -> Seq(Publishers)]
      /\ reached \in [Tokens -> Seq(Nat)] /\ received \in [Tokens -> Seq(Nat)]
      /\ since \in [Tokens -> Nat] /\ todo \in [Publishers -> Seq(Tokens)]
      /\ value \in [Publishers -> Nat]
  BY <1>1 DEF Init
<1>4. /\ shut \in [Tokens -> BOOLEAN] /\ cancelled \in [Publishers -> BOOLEAN]
      /\ pc \in [Publishers -> {"idle", "deliver", "parked"}]
  BY DEF Init
<1>5. targets \in Seq(Seq(Tokens)) /\ answer \in Seq(Answers) /\ published \in Nat
  BY <1>1 DEF Init
<1> QED BY <1>2, <1>3, <1>4, <1>5 DEF Init, TypeOK, Answers

LEMMA TypesSubscriptions ==
  ASSUME TypeOK, Subscribe \/ Shutdown \/ \E t \in Tokens : Unsubscribe(t)
  PROVE  TypeOK'
<1>0. MaxSubscriptions \in Nat /\ nextID \in Nat /\ nextID <= MaxSubscriptions
  BY HubConstants DEF TypeOK
<1>1. CASE Subscribe
  <2>1. /\ nextID' = nextID + 1 /\ nextID' \in 0..MaxSubscriptions /\ nextID' \in 1..nextID'
        /\ 1..nextID \subseteq 1..nextID' /\ nextID' \in Tokens
    BY <1>0, <1>1 DEF Subscribe, Tokens
  <2>2. subscribed' \subseteq 1..nextID' /\ detached' \subseteq 1..nextID'
    BY <1>1, <2>1 DEF Subscribe, TypeOK
  <2>3. since' \in [Tokens -> Nat]
    BY <1>1 DEF Subscribe, TypeOK
  <2> QED BY <1>1, <2>1, <2>2, <2>3 DEF Subscribe, TypeOK, inboxVars, callVars
<1>2. CASE Shutdown
  BY <1>2 DEF Shutdown, TypeOK, inboxVars, callVars
<1>3. ASSUME NEW t \in Tokens, Unsubscribe(t) PROVE TypeOK'
  BY <1>3 DEF Unsubscribe, TypeOK, inboxVars, callVars
<1> QED BY <1>1, <1>2, <1>3

LEMMA TypesShut ==
  ASSUME TypeOK, NEW t \in Tokens, ShutInbox(t)
  PROVE  TypeOK'
<1>1. offerers' \in [Tokens -> Seq(Publishers)]
  <2>1. <<>> \in Seq(Publishers)
    BY EmptySeq
  <2> QED BY <2>1 DEF ShutInbox, TypeOK
<1>2. pc' \in [Publishers -> {"idle", "deliver", "parked"}]
  BY DEF ShutInbox, TypeOK
<1>3. shut' \in [Tokens -> BOOLEAN]
  BY DEF ShutInbox, TypeOK
<1> QED BY <1>1, <1>2, <1>3 DEF ShutInbox, TypeOK

LEMMA TypesPublish ==
  ASSUME TypeOK, NEW p \in Publishers, Publish(p)
  PROVE  TypeOK'
<1>1. CASE closed
  BY <1>1 DEF Publish, TypeOK, hubVars, inboxVars
<1>2. CASE ~closed
  <2>1. /\ published' = published + 1 /\ targets' = Append(targets, Ordered(subscribed))
        /\ answer' = Append(answer, "pending") /\ pc' = [pc EXCEPT ![p] = "deliver"]
        /\ value' = [value EXCEPT ![p] = published']
        /\ todo' = [todo EXCEPT ![p] = Ordered(subscribed)]
        /\ UNCHANGED <<hubVars, inboxVars, cancelled, reached, received, since>>
    BY <1>2 DEF Publish
  <2>2. Ordered(subscribed) \in Seq(Tokens)
    <3>1. nextID \in Nat /\ subscribed \in SUBSET (1..nextID) /\ 1..nextID \subseteq Tokens
      BY HubConstants DEF TypeOK, Tokens
    <3>2. Ordered(subscribed) \in Seq(subscribed) /\ subscribed \subseteq Tokens
      BY <3>1, OrderedFacts
    <3> DEFINE s == Ordered(subscribed)
    <3>3. s \in Seq(subscribed) /\ subscribed \subseteq Tokens
      BY <3>2
    <3> HIDE DEF s
    <3>4. DOMAIN s = 1..Len(s) /\ Len(s) \in Nat /\ s \in [1..Len(s) -> subscribed]
      BY <3>3, LenProperties
    <3>5. s \in [1..Len(s) -> Tokens]
      BY <3>3, <3>4
    <3>6. s \in Seq(Tokens)
      BY <3>4, <3>5, SeqDef
    <3> QED BY <3>6 DEF s
  <2>3. published' \in Nat /\ value' \in [Publishers -> Nat]
    BY <2>1 DEF TypeOK
  <2>4. targets' \in Seq(Seq(Tokens)) /\ answer' \in Seq(Answers)
    <3>1. targets \in Seq(Seq(Tokens)) /\ answer \in Seq(Answers) /\ "pending" \in Answers
      BY DEF TypeOK, Answers
    <3> QED BY <2>1, <2>2, <3>1, AppendProperties
  <2>5. todo' \in [Publishers -> Seq(Tokens)] /\ pc' \in [Publishers -> {"idle", "deliver", "parked"}]
    BY <2>1, <2>2 DEF TypeOK
  <2> QED BY <2>1, <2>3, <2>4, <2>5 DEF TypeOK, Answers, hubVars, inboxVars
<1> QED BY <1>1, <1>2

LEMMA TypesDeliver ==
  ASSUME TypeOK, NEW p \in Publishers, Deliver(p)
  PROVE  TypeOK'
<1>1. /\ todo[p] \in Seq(Tokens) /\ todo[p] # <<>> /\ value[p] \in Nat
      /\ UNCHANGED <<hubVars, shut, value, cancelled, published, targets, answer, received, since>>
  BY DEF Deliver, TypeOK
<1>2. PICK t \in Tokens : t = Head(todo[p]) /\ Tail(todo[p]) \in Seq(Tokens)
  BY <1>1, HeadTail
<1>3. OfferRoom(p, t) \/ OfferDeclined(p, t) \/ OfferEvicts(p, t) \/ OfferParks(p, t)
  BY <1>2 DEF Deliver
<1>4. todo' \in [Publishers -> Seq(Tokens)]
  <2>1. todo' = [todo EXCEPT ![p] = Tail(todo[p])]
    BY <1>3 DEF OfferRoom, OfferDeclined, OfferEvicts, OfferParks, Onward
  <2> QED BY <1>2, <2>1 DEF TypeOK
<1>5. items[t] \in Seq(Nat) /\ reached[t] \in Seq(Nat) /\ offerers[t] \in Seq(Publishers)
  BY DEF TypeOK
<1>6. /\ Append(items[t], value[p]) \in Seq(Nat) /\ Append(reached[t], value[p]) \in Seq(Nat)
      /\ Append(offerers[t], p) \in Seq(Publishers)
  BY <1>1, <1>5, AppendProperties
<1>7. items' \in [Tokens -> Seq(Nat)]
  <2>1. CASE OfferRoom(p, t)
    BY <1>6, <2>1 DEF OfferRoom, TypeOK
  <2>2. CASE OfferEvicts(p, t)
    <3>1. items[t] # <<>>
      <4>1. Len(items[t]) >= Capacity /\ Capacity \in Nat \ {0} /\ Len(items[t]) \in Nat
        BY <1>5, <2>2, HubConstants, LenProperties DEF OfferEvicts
      <4>2. Len(items[t]) # 0
        BY <4>1
      <4> QED BY <4>2, EmptySeq
    <3>2. Append(Tail(items[t]), value[p]) \in Seq(Nat)
      <4>1. Tail(items[t]) \in Seq(Nat)
        BY <1>5, <3>1, HeadTail
      <4> QED BY <1>1, <4>1, AppendProperties
    <3> QED BY <2>2, <3>2 DEF OfferEvicts, TypeOK
  <2> QED BY <1>3, <2>1, <2>2 DEF OfferDeclined, OfferParks, TypeOK
<1>8. reached' \in [Tokens -> Seq(Nat)]
  BY <1>3, <1>6 DEF OfferRoom, OfferDeclined, OfferEvicts, OfferParks, Arrive, TypeOK
<1>9. offerers' \in [Tokens -> Seq(Publishers)]
  BY <1>3, <1>6 DEF OfferRoom, OfferDeclined, OfferEvicts, OfferParks, TypeOK
<1>10. pc' \in [Publishers -> {"idle", "deliver", "parked"}]
  BY <1>3 DEF OfferRoom, OfferDeclined, OfferEvicts, OfferParks, TypeOK
<1> QED BY <1>1, <1>4, <1>7, <1>8, <1>9, <1>10 DEF TypeOK, hubVars

\* An answer is written over the entry its call has made.
LEMMA AnswerTypes ==
  ASSUME NEW a \in Seq(Answers), NEW v, NEW r \in Answers
  PROVE  [a EXCEPT ![v] = r] \in Seq(Answers) /\ Len([a EXCEPT ![v] = r]) = Len(a)
<1> DEFINE b == [a EXCEPT ![v] = r]
<1>1. a \in [1..Len(a) -> Answers] /\ Len(a) \in Nat
  BY LenProperties
<1>2. b \in [1..Len(a) -> Answers]
  BY <1>1
<1> HIDE DEF b
<1>3. b \in Seq(Answers) /\ Len(b) = Len(a)
  BY <1>1, <1>2
<1> QED BY <1>3 DEF b

LEMMA TypesReturn ==
  ASSUME TypeOK, NEW p \in Publishers, NEW r \in Answers, Return(p, r)
  PROVE  /\ pc' \in [Publishers -> {"idle", "deliver", "parked"}]
         /\ value' \in [Publishers -> Nat] /\ todo' \in [Publishers -> Seq(Tokens)]
         /\ cancelled' \in [Publishers -> BOOLEAN]
         /\ answer' \in Seq(Answers) /\ Len(answer') = Len(answer)
<1>1. /\ pc' = [pc EXCEPT ![p] = "idle"] /\ value' = [value EXCEPT ![p] = 0]
      /\ todo' = [todo EXCEPT ![p] = <<>>] /\ cancelled' = [cancelled EXCEPT ![p] = FALSE]
      /\ answer' = [answer EXCEPT ![value[p]] = r]
  BY DEF Return
<1>2. <<>> \in Seq(Tokens)
  BY EmptySeq
<1>3. todo' \in [Publishers -> Seq(Tokens)]
  BY <1>1, <1>2 DEF TypeOK
<1>4. answer' \in Seq(Answers) /\ Len(answer') = Len(answer)
  <2>1. answer \in Seq(Answers)
    BY DEF TypeOK, Answers
  <2> QED BY <1>1, <2>1, AnswerTypes
<1>5. pc' \in [Publishers -> {"idle", "deliver", "parked"}] /\ value' \in [Publishers -> Nat]
      /\ cancelled' \in [Publishers -> BOOLEAN]
  BY <1>1 DEF TypeOK
<1> QED BY <1>3, <1>4, <1>5

LEMMA TypesCalls ==
  ASSUME TypeOK, NEW p \in Publishers, PublishReturns(p) \/ Cancel(p) \/ Abandon(p)
  PROVE  TypeOK'
<1>0. "accepted" \in Answers /\ "interrupted" \in Answers
  BY DEF Answers
<1>1. CASE PublishReturns(p)
  <2>1. /\ Return(p, "accepted")
        /\ UNCHANGED <<hubVars, inboxVars, published, targets, reached, received, since>>
    BY <1>1 DEF PublishReturns
  <2>2. /\ pc' \in [Publishers -> {"idle", "deliver", "parked"}]
        /\ value' \in [Publishers -> Nat] /\ todo' \in [Publishers -> Seq(Tokens)]
        /\ cancelled' \in [Publishers -> BOOLEAN] /\ answer' \in Seq(Answers)
    BY <1>0, <2>1, TypesReturn
  <2> QED BY <2>1, <2>2 DEF TypeOK, Answers, hubVars, inboxVars
<1>2. CASE Cancel(p)
  BY <1>2 DEF Cancel, TypeOK, hubVars, inboxVars
<1>3. CASE Abandon(p)
  <2>1. /\ Return(p, "interrupted")
        /\ UNCHANGED <<hubVars, items, shut, published, targets, reached, received, since>>
    BY <1>3 DEF Abandon
  <2>2. /\ pc' \in [Publishers -> {"idle", "deliver", "parked"}]
        /\ value' \in [Publishers -> Nat] /\ todo' \in [Publishers -> Seq(Tokens)]
        /\ cancelled' \in [Publishers -> BOOLEAN] /\ answer' \in Seq(Answers)
    BY <1>0, <2>1, TypesReturn
  <2>t. PICK t \in Tokens : \E i \in DOMAIN offerers[t] :
               offerers' = [offerers EXCEPT ![t] = RemoveAt(offerers[t], i)]
    BY <1>3 DEF Abandon
  <2>3. PICK i \in DOMAIN offerers[t] :
               offerers' = [offerers EXCEPT ![t] = RemoveAt(offerers[t], i)]
    BY <2>t
  <2>4. RemoveAt(offerers[t], i) \in Seq(Publishers)
    <3>1. offerers[t] \in Seq(Publishers)
      BY DEF TypeOK
    <3> QED BY <3>1, RemoveAtType
  <2>5. offerers' \in [Tokens -> Seq(Publishers)]
    BY <2>3, <2>4 DEF TypeOK
  <2> QED BY <2>1, <2>2, <2>5 DEF TypeOK, Answers, hubVars
<1> QED BY <1>1, <1>2, <1>3

LEMMA TypesTake ==
  ASSUME TypeOK, NEW t \in Tokens, Take(t)
  PROVE  TypeOK'
<1>1. /\ items[t] \in Seq(Nat) /\ items[t] # <<>> /\ offerers[t] \in Seq(Publishers)
      /\ reached[t] \in Seq(Nat) /\ received[t] \in Seq(Nat)
      /\ UNCHANGED <<hubVars, shut, value, todo, cancelled, published, targets, answer, since>>
      /\ received' = [received EXCEPT ![t] = Append(received[t], Head(items[t]))]
  BY DEF TypeOK, Take
<1>2. Head(items[t]) \in Nat /\ Tail(items[t]) \in Seq(Nat)
  BY <1>1, HeadTail
<1>3. received' \in [Tokens -> Seq(Nat)]
  <2>1. Append(received[t], Head(items[t])) \in Seq(Nat)
    BY <1>1, <1>2, AppendProperties
  <2> QED BY <1>1, <2>1 DEF TypeOK
<1>4. CASE offerers[t] = <<>>
  <2>1. items' = [items EXCEPT ![t] = Tail(items[t])] /\ UNCHANGED <<offerers, pc, reached>>
    BY <1>4 DEF Take
  <2>2. items' \in [Tokens -> Seq(Nat)]
    BY <1>2, <2>1 DEF TypeOK
  <2> QED BY <1>1, <1>3, <2>1, <2>2 DEF TypeOK, hubVars
<1>5. CASE offerers[t] # <<>>
  <2>1. PICK p \in Publishers : p = Head(offerers[t]) /\ Tail(offerers[t]) \in Seq(Publishers)
    BY <1>1, <1>5, HeadTail
  <2>2. /\ items' = [items EXCEPT ![t] = Append(Tail(items[t]), value[p])]
        /\ offerers' = [offerers EXCEPT ![t] = Tail(offerers[t])]
        /\ pc' = [pc EXCEPT ![p] = "deliver"]
        /\ reached' = [reached EXCEPT ![t] = Append(reached[t], value[p])]
    BY <1>5, <2>1 DEF Take, Arrive
  <2>3. value[p] \in Nat
    BY DEF TypeOK
  <2>4. Append(Tail(items[t]), value[p]) \in Seq(Nat) /\ Append(reached[t], value[p]) \in Seq(Nat)
    BY <1>1, <1>2, <2>3, AppendProperties
  <2>5. items' \in [Tokens -> Seq(Nat)] /\ reached' \in [Tokens -> Seq(Nat)]
    BY <2>2, <2>4 DEF TypeOK
  <2>6. offerers' \in [Tokens -> Seq(Publishers)]
        /\ pc' \in [Publishers -> {"idle", "deliver", "parked"}]
    BY <2>1, <2>2 DEF TypeOK
  <2> QED BY <1>1, <1>3, <2>5, <2>6 DEF TypeOK, hubVars
<1> QED BY <1>4, <1>5

(* The steps *)

LEMMA SetsKept ==
  /\ offerers' = offerers => \A p, t : InLine(p, t)' <=> InLine(p, t)
  /\ todo' = todo => \A p, t : ToCome(p, t)' <=> ToCome(p, t)
  /\ reached' = reached => \A v, t : Has(t, v)' <=> Has(t, v)
  /\ targets' = targets => \A v, t : For(v, t)' <=> For(v, t)
  BY DEF InLine, ToCome, Has, For, ToSet

LEMMA LinesKept ==
  ASSUME LinesInv, offerers' = offerers, shut' = shut,
         \A p \in Publishers : pc'[p] = "parked" <=> pc[p] = "parked",
         \A t \in Tokens : offerers[t] # <<>> /\ Len(items[t]) >= Capacity =>
                              Len(items'[t]) >= Capacity
  PROVE  LinesInv'
<1>1. \A p, t : InLine(p, t)' <=> InLine(p, t)
  BY SetsKept
<1>2. \A t \in Tokens : NoRepeats(offerers[t])'
  BY PrimedOrder DEF LinesInv
<1>3. \A p \in Publishers : pc'[p] = "parked" <=> \E t \in Tokens : InLine(p, t)'
  BY <1>1 DEF LinesInv
<1>4. \A p \in Publishers : \A t, u \in Tokens : InLine(p, t)' /\ InLine(p, u)' => t = u
  BY <1>1 DEF LinesInv
<1>5. \A t \in Tokens : offerers'[t] # <<>> => ~shut'[t] /\ Len(items'[t]) >= Capacity
  BY DEF LinesInv
<1> QED BY <1>2, <1>3, <1>4, <1>5 DEF LinesInv

LEMMA ReachedKept ==
  ASSUME ReachedInv, reached' = reached, targets' = targets, published' = published
  PROVE  ReachedInv'
<1>1. \A v, t : (Has(t, v)' <=> Has(t, v)) /\ (For(v, t)' <=> For(v, t))
  BY SetsKept
<1>2. \A t \in Tokens : NoRepeats(reached[t])'
  BY PrimedOrder DEF ReachedInv
<1> QED BY <1>1, <1>2 DEF ReachedInv

LEMMA ContentsKept ==
  ASSUME ContentsInv, policy' = policy, reached' = reached, received' = received, items' = items
  PROVE  ContentsInv'
  BY DEF ContentsInv

\* Steps that leave inboxes, lines and calls alone.
LEMMA QuietDelivery ==
  ASSUME DeliveryInv, TypeOK', policy' = policy, nextID' = nextID, UNCHANGED inboxVars,
         UNCHANGED <<pc, value, todo, published, targets, answer, reached, received, since>>
  PROVE  DeliveryInv'
<1>1. /\ TypeOK /\ LinesInv /\ NumbersInv /\ ReachedInv /\ ContentsInv /\ CallsInv
      /\ \A p \in Publishers : CallInv(p)
  BY DEF DeliveryInv, CallsInv
<1>2. /\ items' = items /\ offerers' = offerers /\ shut' = shut /\ pc' = pc /\ value' = value
      /\ todo' = todo /\ published' = published /\ targets' = targets /\ answer' = answer
      /\ reached' = reached /\ received' = received /\ since' = since
  BY DEF inboxVars
<1>3. \A v, t : Has(t, v)' <=> Has(t, v)
  BY <1>2, SetsKept
<1>4. \A p, t : InLine(p, t)' <=> InLine(p, t)
  BY <1>2, SetsKept
<1>5. published \in Nat
  BY <1>1 DEF TypeOK
<1>6. CallsInv'
  <2> SUFFICES ASSUME NEW p \in Publishers PROVE CallInv(p)'
    BY DEF CallsInv
  <2>1. \A t \in Tokens : Has(t, value[p])' <=> Has(t, value[p])
    BY <1>2 DEF Has, ToSet
  <2>2. published <= published' /\ CallInv(p)
    BY <1>1, <1>2, <1>5
  <2> QED BY <1>2, <1>4, <1>5, <2>1, <2>2, CallKept
<1>7. LinesInv' /\ NumbersInv' /\ ReachedInv' /\ ContentsInv'
  BY <1>1, <1>2, LinesKept, NumbersKept, ReachedKept, ContentsKept
<1>8. AllReached' /\ EarlierFirst'
  BY <1>2, <1>3, <1>6, PromisesKept
<1> QED BY <1>6, <1>7, <1>8 DEF DeliveryInv

LEMMA SubscribeDelivery ==
  ASSUME DeliveryInv, TypeOK', Subscribe
  PROVE  DeliveryInv'
<1>1. /\ TypeOK /\ LinesInv /\ NumbersInv /\ ReachedInv /\ ContentsInv /\ CallsInv
      /\ \A p \in Publishers : CallInv(p)
  BY DEF DeliveryInv, CallsInv
<1>2. /\ items' = items /\ offerers' = offerers /\ shut' = shut /\ pc' = pc /\ value' = value
      /\ todo' = todo /\ published' = published /\ targets' = targets /\ answer' = answer
      /\ reached' = reached /\ received' = received /\ policy' = policy
      /\ nextID' = nextID + 1 /\ since' = [since EXCEPT ![nextID'] = published]
  BY DEF Subscribe, inboxVars, callVars
<1>3. \A v, t : Has(t, v)' <=> Has(t, v)
  BY <1>2, SetsKept
<1>4. \A p, t : InLine(p, t)' <=> InLine(p, t)
  BY <1>2, SetsKept
<1>5. published \in Nat /\ nextID \in Nat /\ since \in [Tokens -> Nat]
  BY <1>1, HubConstants DEF TypeOK
<1>6. CallsInv'
  <2> SUFFICES ASSUME NEW p \in Publishers PROVE CallInv(p)'
    BY DEF CallsInv
  <2>1. \A t \in Tokens : Has(t, value[p])' <=> Has(t, value[p])
    BY <1>2 DEF Has, ToSet
  <2>2. published <= published' /\ CallInv(p)
    BY <1>1, <1>2, <1>5
  <2> QED BY <1>2, <1>4, <1>5, <2>1, <2>2, CallKept
<1>7. LinesInv' /\ ReachedInv' /\ ContentsInv'
  BY <1>1, <1>2, LinesKept, ReachedKept, ContentsKept
<1>8. NumbersInv'
  <2>1. \A v, t : For(v, t)' <=> For(v, t)
    BY <1>2, SetsKept
  <2>2. \A t \in Tokens : since'[t] = since[t] \/ since'[t] = published
    BY <1>2, <1>5
  <2>3. \A t \in Tokens : since'[t] <= published
    BY <1>1, <1>5, <2>2 DEF NumbersInv
  <2>4. ASSUME NEW v \in 1..published, NEW t \in Tokens, For(v, t)
        PROVE  t <= nextID' /\ since'[t] < v
    <3>1. t <= nextID /\ since[t] < v
      BY <1>1, <2>4 DEF NumbersInv
    <3>2. t # nextID' /\ t <= nextID'
      BY <1>2, <1>5, <3>1, TokenFacts
    <3> QED BY <1>2, <1>5, <3>1, <3>2
  <2> QED BY <1>1, <1>2, <2>1, <2>3, <2>4 DEF NumbersInv
<1>9. AllReached' /\ EarlierFirst'
  BY <1>2, <1>3, <1>6, PromisesKept
<1> QED BY <1>6, <1>7, <1>8, <1>9 DEF DeliveryInv

\* Shutting an inbox settles what was owed to it.
LEMMA ShutDelivery ==
  ASSUME DeliveryInv, TypeOK', NEW t \in Tokens, ShutInbox(t)
  PROVE  DeliveryInv'
<1>1. /\ TypeOK /\ LinesInv /\ NumbersInv /\ ReachedInv /\ ContentsInv /\ CallsInv
      /\ \A p \in Publishers : CallInv(p)
  BY DEF DeliveryInv, CallsInv
<1>2. /\ items' = items /\ value' = value /\ nextID' = nextID /\ since' = since
      /\ todo' = todo /\ published' = published /\ targets' = targets /\ answer' = answer
      /\ reached' = reached /\ received' = received /\ policy' = policy
      /\ shut' = [shut EXCEPT ![t] = TRUE] /\ offerers' = [offerers EXCEPT ![t] = <<>>]
      /\ pc' = [p \in Publishers |-> IF p \in ToSet(offerers[t]) THEN "deliver" ELSE pc[p]]
  BY DEF ShutInbox
<1>3. /\ \A v, u : Has(u, v)' <=> Has(u, v)
      /\ \A v, u : For(v, u)' <=> For(v, u)
      /\ \A p, u : ToCome(p, u)' <=> ToCome(p, u)
  BY <1>2, SetsKept
<1>4. /\ published \in Nat /\ shut \in [Tokens -> BOOLEAN]
      /\ offerers \in [Tokens -> Seq(Publishers)]
  BY <1>1 DEF TypeOK
<1>5. \A p \in Publishers, u \in Tokens : InLine(p, u)' <=> InLine(p, u) /\ u # t
  <2>1. ToSet(offerers'[t]) = {}
    <3>1. <<>> \in Seq(Publishers) /\ offerers'[t] = <<>>
      BY <1>2, <1>4, EmptySeq
    <3> QED BY <3>1, ToSetFacts
  <2>2. \A u \in Tokens \ {t} : offerers'[u] = offerers[u]
    BY <1>2, <1>4
  <2> QED BY <2>1, <2>2, Primed DEF InLine
<1>6. /\ \A u \in Tokens : shut[u] => shut'[u]
      /\ shut'[t] /\ \A u \in Tokens \ {t} : shut'[u] = shut[u]
  BY <1>2, <1>4
<1>7. \A p \in Publishers : /\ InLine(p, t) => pc'[p] = "deliver" /\ pc[p] = "parked"
                            /\ ~InLine(p, t) => pc'[p] = pc[p]
  BY <1>1, <1>2 DEF InLine, LinesInv
<1>8. \A p \in Publishers : pc'[p] # "idle" <=> pc[p] # "idle"
  BY <1>7
<1>9. CallsInv'
  <2> SUFFICES ASSUME NEW p \in Publishers, pc'[p] # "idle" PROVE CallInv(p)'
    BY DEF CallsInv, CallInv
  <2>0. PICK v : v = value[p]
    OBVIOUS
  <2>1. /\ v \in 1..published /\ answer[v] = "pending" /\ InOrder(todo[p])
        /\ \A u \in Tokens : Owed(p, u) => For(v, u)
        /\ \A u \in Tokens : For(v, u) => Owed(p, u) \/ Settled(v, u)
        /\ \A u, w \in Tokens : Has(u, v) /\ Owed(p, w) => u < w
        /\ \A u, w \in Tokens : InLine(p, u) /\ ToCome(p, w) => u < w
    BY <1>1, <1>8, <2>0 DEF CallInv
  <2>2. \A u \in Tokens : /\ Owed(p, u)' => Owed(p, u)
                          /\ Owed(p, u) => Owed(p, u)' \/ u = t
    BY <1>3, <1>5, Primed DEF Owed
  <2>3. \A u \in Tokens : Settled(v, u) \/ u = t => Settled(v, u)'
    BY <1>2, <1>3, <1>6, Primed DEF Settled
  <2>4. \A u \in Tokens : Owed(p, u)' => For(v, u)'
    BY <1>3, <2>1, <2>2
  <2>5. \A u \in Tokens : For(v, u)' => Owed(p, u)' \/ Settled(v, u)'
    BY <1>3, <2>1, <2>2, <2>3
  <2>6. \A u, w \in Tokens : Has(u, v)' /\ Owed(p, w)' => u < w
    BY <1>3, <2>1, <2>2
  <2>7. \A u, w \in Tokens : InLine(p, u)' /\ ToCome(p, w)' => u < w
    BY <1>3, <1>5, <2>1
  <2>8. value'[p] = v /\ v \in 1..published' /\ answer'[v] = "pending" /\ InOrder(todo[p])'
    BY <1>2, <2>0, <2>1, PrimedOrder
  <2> QED BY <2>4, <2>5, <2>6, <2>7, <2>8 DEF CallInv
<1>10. LinesInv'
  <2>1. ASSUME NEW u \in Tokens
        PROVE  /\ NoRepeats(offerers[u])'
               /\ offerers'[u] # <<>> => ~shut'[u] /\ Len(items'[u]) >= Capacity
    <3>1. CASE u = t
      <4>1. offerers'[u] = <<>> /\ Len(offerers'[u]) = 0
        BY <1>2, <1>4, <3>1, EmptySeq
      <4>2. NoRepeats(offerers'[u])
        BY <4>1 DEF NoRepeats
      <4> QED BY <4>1, <4>2, PrimedOrder
    <3>2. CASE u # t
      <4>1. offerers'[u] = offerers[u] /\ shut'[u] = shut[u] /\ items'[u] = items[u]
        BY <1>2, <1>4, <1>6, <3>2
      <4> QED BY <1>1, <4>1, PrimedOrder DEF LinesInv
    <3> QED BY <3>1, <3>2
  <2>2. ASSUME NEW p \in Publishers
        PROVE  pc'[p] = "parked" <=> \E u \in Tokens : InLine(p, u)'
    <3>1. pc[p] = "parked" <=> \E u \in Tokens : InLine(p, u)
      BY <1>1 DEF LinesInv
    <3>2. \A u \in Tokens : InLine(p, t) /\ InLine(p, u) => u = t
      BY <1>1 DEF LinesInv
    <3> QED BY <1>5, <1>7, <3>1, <3>2
  <2>3. \A p \in Publishers : \A u, w \in Tokens : InLine(p, u)' /\ InLine(p, w)' => u = w
    BY <1>1, <1>5 DEF LinesInv
  <2> QED BY <2>1, <2>2, <2>3 DEF LinesInv
<1>11. NumbersInv' /\ ReachedInv' /\ ContentsInv'
  BY <1>1, <1>2, <1>8, NumbersKept, ReachedKept, ContentsKept
<1>12. AllReached' /\ EarlierFirst'
  BY <1>2, <1>3, <1>6, <1>9, PromisesKept
<1> QED BY <1>9, <1>10, <1>11, <1>12 DEF DeliveryInv

\* A new call owes its value to every subscription of its snapshot.
LEMMA PublishDelivery ==
  ASSUME DeliveryInv, TypeOK', NEW p \in Publishers, Publish(p)
  PROVE  DeliveryInv'
<1>1. /\ TypeOK /\ LinesInv /\ NumbersInv /\ ReachedInv /\ ContentsInv /\ CallsInv
      /\ \A q \in Publishers : CallInv(q)
      /\ AllReached /\ EarlierFirst
  BY DEF DeliveryInv, CallsInv
<1>2. CASE closed
  BY <1>2, QuietDelivery DEF Publish, hubVars
<1>3. CASE ~closed
  <2> DEFINE o == Ordered(subscribed)
  <2>1. /\ published' = published + 1 /\ targets' = Append(targets, o)
        /\ answer' = Append(answer, "pending") /\ pc' = [pc EXCEPT ![p] = "deliver"]
        /\ value' = [value EXCEPT ![p] = published + 1] /\ todo' = [todo EXCEPT ![p] = o]
        /\ pc[p] = "idle"
    BY <1>3 DEF Publish
  <2>2. /\ items' = items /\ offerers' = offerers /\ shut' = shut /\ nextID' = nextID
        /\ reached' = reached /\ received' = received /\ policy' = policy /\ since' = since
    BY DEF Publish, hubVars, inboxVars
  <2>3. /\ published \in Nat /\ nextID \in Nat /\ subscribed \in SUBSET (1..nextID)
        /\ targets \in Seq(Seq(Tokens)) /\ answer \in Seq(Answers) /\ "pending" \in Answers
        /\ value \in [Publishers -> Nat] /\ todo \in [Publishers -> Seq(Tokens)]
        /\ pc \in [Publishers -> {"idle", "deliver", "parked"}] /\ since \in [Tokens -> Nat]
    BY <1>1, HubConstants DEF TypeOK, Answers
  <2>4. InOrder(o) /\ ToSet(o) = subscribed
    BY <2>3, OrderedFacts
  <2>5. o \in Seq(Tokens)
    <3>1. todo'[p] = o
      BY <2>1, <2>3
    <3> QED BY <3>1 DEF TypeOK
  <2> HIDE DEF o
  <2>6. PICK v \in Nat : v = published + 1 /\ v \in 1..published' /\ v \notin 1..published
                         /\ \A x \in 1..published' : x \in 1..published \/ x = v
    BY <2>1, <2>3
  <2>7. /\ Len(targets') = v /\ targets'[v] = o
        /\ \A x \in 1..published : targets'[x] = targets[x]
    <3>1. Len(targets) = published
      BY <1>1 DEF NumbersInv
    <3> DEFINE S == Seq(Tokens)
    <3>2. targets \in Seq(S) /\ o \in S
      BY <2>3, <2>5
    <3> HIDE DEF S
    <3>3. /\ Len(Append(targets, o)) = Len(targets) + 1
          /\ \A x \in 1..Len(targets) : Append(targets, o)[x] = targets[x]
          /\ Append(targets, o)[Len(targets) + 1] = o
      BY <3>2, AppendProperties
    <3> QED BY <2>1, <2>6, <3>1, <3>3
  <2>8. /\ Len(answer') = v /\ answer'[v] = "pending"
        /\ \A x \in 1..published : answer'[x] = answer[x]
    <3>1. Len(answer) = published
      BY <1>1 DEF NumbersInv
    <3> QED BY <2>1, <2>3, <2>6, <3>1, AppendProperties
  <2>9. /\ pc'[p] = "deliver" /\ value'[p] = v /\ todo'[p] = o
        /\ \A q \in Publishers \ {p} : /\ pc'[q] = pc[q] /\ value'[q] = value[q]
                                       /\ todo'[q] = todo[q]
    BY <2>1, <2>3, <2>6
  <2>10. \A q \in Publishers : pc'[q] = "parked" <=> pc[q] = "parked"
    BY <2>1, <2>9
  <2>11. /\ \A x, t : Has(t, x)' <=> Has(t, x)
         /\ \A q, t : InLine(q, t)' <=> InLine(q, t)
    BY <2>2, SetsKept
  <2>12. /\ \A x \in 1..published, t \in Tokens : For(x, t)' <=> For(x, t)
         /\ \A t \in Tokens : For(v, t)' <=> t \in subscribed
    BY <2>4, <2>7, Primed DEF For
  <2>13. \A t \in Tokens : ~Has(t, v) /\ ~InLine(p, t)
    BY <1>1, <2>1, <2>6 DEF ReachedInv, LinesInv
  <2>14. CallInv(p)'
    <3>1. \A t \in Tokens : /\ ToCome(p, t)' <=> t \in subscribed
                            /\ Owed(p, t)' <=> t \in subscribed
      BY <2>4, <2>9, <2>11, <2>13, Primed
    <3>2. InOrder(todo[p])'
      BY <2>4, <2>9, PrimedOrder
    <3>3. \A t \in Tokens : Owed(p, t)' <=> For(v, t)'
      BY <2>12, <3>1
    <3>4. \A t \in Tokens : ~Has(t, v)' /\ ~InLine(p, t)'
      BY <2>11, <2>13
    <3> QED BY <2>6, <2>8, <2>9, <3>2, <3>3, <3>4 DEF CallInv
  <2>15. ASSUME NEW q \in Publishers \ {p} PROVE CallInv(q)'
    <3>1. CASE pc[q] = "idle"
      BY <2>9, <3>1 DEF CallInv
    <3>2. CASE pc[q] # "idle"
      <4>1. CallInv(q) /\ value[q] \in 1..published
        BY <1>1, <3>2 DEF CallInv
      <4>2. answer'[value[q]] = answer[value[q]] /\ targets'[value[q]] = targets[value[q]]
        BY <2>7, <2>8, <4>1
      <4>3. \A t \in Tokens : Has(t, value[q])' <=> Has(t, value[q])
        BY <2>2, <2>9 DEF Has, ToSet
      <4>4. published' \in Nat /\ published <= published'
        BY <2>1, <2>3
      <4> QED BY <2>2, <2>3, <2>9, <2>11, <4>1, <4>2, <4>3, <4>4, CallKept
    <3> QED BY <3>1, <3>2
  <2>16. CallsInv'
    BY <2>14, <2>15 DEF CallsInv
  <2>17. LinesInv' /\ ContentsInv'
    BY <1>1, <2>2, <2>10, LinesKept, ContentsKept
  <2>18. NumbersInv'
    <3>1. \A t \in Tokens : since'[t] <= published'
      BY <1>1, <2>1, <2>2, <2>3 DEF NumbersInv
    <3>2. ASSUME NEW x \in 1..published', NEW t \in Tokens, For(x, t)'
          PROVE  t <= nextID' /\ since'[t] < x
      <4>1. CASE x \in 1..published
        BY <1>1, <2>2, <2>12, <3>2, <4>1 DEF NumbersInv
      <4>2. CASE x = v
        <5>1. t \in 1..nextID /\ since[t] <= published /\ since[t] \in Nat
          BY <1>1, <2>3, <2>12, <3>2, <4>2 DEF NumbersInv
        <5> QED BY <2>2, <2>3, <2>6, <4>2, <5>1
      <4> QED BY <2>6, <4>1, <4>2
    <3>3. ASSUME NEW q \in Publishers, NEW r \in Publishers, pc'[q] # "idle", pc'[r] # "idle",
                 value'[q] = value'[r]
          PROVE  q = r
      <4>1. \A s \in Publishers \ {p} : pc'[s] # "idle" =>
                 pc[s] # "idle" /\ value'[s] = value[s] /\ value[s] \in 1..published
        BY <1>1, <2>9 DEF CallInv
      <4>2. CASE q # p /\ r # p
        BY <1>1, <3>3, <4>1, <4>2 DEF NumbersInv
      <4>3. CASE q = p \/ r = p
        BY <2>6, <2>9, <3>3, <4>1, <4>3
      <4> QED BY <4>2, <4>3
    <3> QED BY <2>1, <2>6, <2>7, <2>8, <3>1, <3>2, <3>3 DEF NumbersInv
  <2>19. ReachedInv'
    <3>1. \A t \in Tokens : NoRepeats(reached[t])'
      BY <1>1, <2>2, PrimedOrder DEF ReachedInv
    <3>2. ASSUME NEW t \in Tokens, NEW x \in Nat, Has(t, x)' PROVE x \in 1..published' /\ For(x, t)'
      <4>1. x \in 1..published /\ For(x, t)
        BY <1>1, <2>11, <3>2 DEF ReachedInv
      <4> QED BY <2>1, <2>3, <2>12, <4>1
    <3> QED BY <3>1, <3>2 DEF ReachedInv
  <2>20. AllReached'
    <3> SUFFICES ASSUME NEW x \in 1..published', answer'[x] = "accepted", NEW t \in Tokens, For(x, t)'
                 PROVE  Settled(x, t)'
      BY DEF AllReached
    <3>1. x \in 1..published /\ answer[x] = "accepted" /\ For(x, t)
      BY <2>6, <2>8, <2>12
    <3>2. Settled(x, t)
      BY <1>1, <3>1 DEF AllReached
    <3> QED BY <2>2, <2>11, <3>2, Primed DEF Settled
  <2>21. EarlierFirst'
    <3> SUFFICES ASSUME policy = "BackPressure", NEW x \in 1..published', NEW t \in Tokens,
                        NEW u \in Tokens, For(x, t)', For(x, u)', t < u, Has(u, x)'
                 PROVE  shut'[t] \/ Has(t, x)'
      BY <2>2 DEF EarlierFirst
    <3>1. x \in 1..published
      BY <2>6, <2>11, <2>13
    <3> QED BY <1>1, <2>2, <2>11, <2>12, <3>1 DEF EarlierFirst
  <2> QED BY <2>16, <2>17, <2>18, <2>19, <2>20, <2>21 DEF DeliveryInv
<1> QED BY <1>2, <1>3

\* A call that returns, having left the lines or never having stood in one.
LEMMA ReturnDelivery ==
  ASSUME DeliveryInv, TypeOK', NEW p \in Publishers, NEW r \in Answers, Return(p, r),
         pc[p] # "idle", LinesInv',
         policy' = policy, nextID' = nextID, shut' = shut, items' = items,
         UNCHANGED <<published, targets, reached, received, since>>,
         \A q \in Publishers \ {p} : \A t \in Tokens : InLine(q, t)' <=> InLine(q, t),
         r = "accepted" => \A t \in Tokens : ~Owed(p, t)
  PROVE  DeliveryInv'
<1>1. /\ TypeOK /\ LinesInv /\ NumbersInv /\ ReachedInv /\ ContentsInv /\ CallsInv
      /\ \A q \in Publishers : CallInv(q)
  BY DEF DeliveryInv, CallsInv
<1>2. /\ pc' = [pc EXCEPT ![p] = "idle"] /\ value' = [value EXCEPT ![p] = 0]
      /\ todo' = [todo EXCEPT ![p] = <<>>] /\ answer' = [answer EXCEPT ![value[p]] = r]
      /\ Len(answer') = Len(answer)
  BY <1>1, TypesReturn DEF Return
<1>3. /\ published \in Nat /\ answer \in Seq(Answers)
      /\ value \in [Publishers -> Nat] /\ todo \in [Publishers -> Seq(Tokens)]
      /\ pc \in [Publishers -> {"idle", "deliver", "parked"}]
  BY <1>1 DEF TypeOK, Answers
<1>4. PICK v \in Nat : v = value[p] /\ v \in 1..published
  BY <1>1, <1>3 DEF CallInv
<1>5. /\ answer'[v] = r /\ \A x \in 1..published : x # v => answer'[x] = answer[x]
  <2>1. DOMAIN answer = 1..published
    BY <1>1, <1>3, LenProperties DEF NumbersInv
  <2> QED BY <1>2, <1>4, <2>1
<1>6. /\ pc'[p] = "idle"
      /\ \A q \in Publishers \ {p} : pc'[q] = pc[q] /\ value'[q] = value[q] /\ todo'[q] = todo[q]
  BY <1>2, <1>3
<1>7. /\ \A x, t : Has(t, x)' <=> Has(t, x)
      /\ \A x, t : For(x, t)' <=> For(x, t)
  BY SetsKept
<1>8. CallsInv'
  <2> SUFFICES ASSUME NEW q \in Publishers, pc'[q] # "idle" PROVE CallInv(q)'
    BY DEF CallsInv, CallInv
  <2>1. q # p /\ pc[q] # "idle"
    BY <1>6
  <2>2. CallInv(q) /\ value[q] \in 1..published /\ value[q] # v
    BY <1>1, <1>4, <2>1 DEF CallInv, NumbersInv
  <2>3. answer'[value[q]] = answer[value[q]]
    BY <1>5, <2>2
  <2>4. \A t \in Tokens : Has(t, value[q])' <=> Has(t, value[q])
    BY <1>6, <2>1 DEF Has, ToSet
  <2>5. published <= published' /\ published' \in Nat
    BY <1>3
  <2> QED BY <1>3, <1>6, <2>1, <2>2, <2>3, <2>4, <2>5, CallKept
<1>9. NumbersInv' /\ ReachedInv' /\ ContentsInv'
  <2>1. \A q \in Publishers : pc'[q] # "idle" => pc[q] # "idle" /\ value'[q] = value[q]
    BY <1>6
  <2> QED BY <1>1, <1>2, <2>1, NumbersKept, ReachedKept, ContentsKept
<1>10. AllReached' /\ EarlierFirst'
  <2>1. ASSUME NEW x \in 1..published, answer'[x] = "accepted", answer[x] # "accepted"
        PROVE  \A t \in Tokens : For(x, t) => Settled(x, t)'
    <3>1. x = v /\ r = "accepted"
      BY <1>5, <2>1
    <3>2. \A t \in Tokens : For(v, t) => Settled(v, t)
      BY <1>1, <1>4, <3>1 DEF CallInv
    <3> QED BY <1>7, <3>1, <3>2, Primed DEF Settled
  <2> QED BY <1>7, <1>8, <2>1, PromisesKept
<1> QED BY <1>8, <1>9, <1>10 DEF DeliveryInv

LEMMA PublishReturnsDelivery ==
  ASSUME DeliveryInv, TypeOK', NEW p \in Publishers, PublishReturns(p)
  PROVE  DeliveryInv'
<1>1. /\ TypeOK /\ LinesInv
  BY DEF DeliveryInv
<1>2. /\ pc[p] = "deliver" /\ todo[p] = <<>> /\ Return(p, "accepted") /\ "accepted" \in Answers
      /\ items' = items /\ offerers' = offerers /\ shut' = shut /\ policy' = policy
      /\ nextID' = nextID /\ UNCHANGED <<published, targets, reached, received, since>>
  BY DEF PublishReturns, hubVars, inboxVars, Answers
<1>3. \A t \in Tokens : ~Owed(p, t)
  <2>1. ToSet(todo[p]) = {}
    <3>1. <<>> \in Seq(Tokens)
      BY EmptySeq
    <3> QED BY <1>2, <3>1, ToSetFacts
  <2> QED BY <1>1, <1>2, <2>1 DEF Owed, ToCome, LinesInv
<1>4. LinesInv'
  <2>1. \A q \in Publishers : pc'[q] = "parked" <=> pc[q] = "parked"
    BY <1>1, <1>2 DEF Return, TypeOK
  <2> QED BY <1>1, <1>2, <2>1, LinesKept
<1>5. \A q, t : InLine(q, t)' <=> InLine(q, t)
  BY <1>2, SetsKept
<1> QED BY <1>2, <1>3, <1>4, <1>5, ReturnDelivery

LEMMA AbandonDelivery ==
  ASSUME DeliveryInv, TypeOK', NEW p \in Publishers, Abandon(p)
  PROVE  DeliveryInv'
<1>1. /\ TypeOK /\ LinesInv
  BY DEF DeliveryInv
<1>2. /\ pc[p] = "parked" /\ Return(p, "interrupted") /\ "interrupted" \in Answers
      /\ items' = items /\ shut' = shut /\ policy' = policy
      /\ nextID' = nextID /\ UNCHANGED <<published, targets, reached, received, since>>
  BY DEF Abandon, hubVars, Answers
<1>3. PICK t \in Tokens : \E i \in DOMAIN offerers[t] :
         offerers[t][i] = p /\ offerers' = [offerers EXCEPT ![t] = RemoveAt(offerers[t], i)]
  BY DEF Abandon
<1>4. PICK i \in DOMAIN offerers[t] :
         offerers[t][i] = p /\ offerers' = [offerers EXCEPT ![t] = RemoveAt(offerers[t], i)]
  BY <1>3
<1>5. /\ offerers \in [Tokens -> Seq(Publishers)] /\ offerers[t] \in Seq(Publishers)
      /\ pc \in [Publishers -> {"idle", "deliver", "parked"}]
  BY <1>1 DEF TypeOK
<1>6. /\ NoRepeats(RemoveAt(offerers[t], i))
      /\ ToSet(RemoveAt(offerers[t], i)) = ToSet(offerers[t]) \ {p}
      /\ p \in ToSet(offerers[t])
  <2>1. NoRepeats(offerers[t])
    BY <1>1 DEF LinesInv
  <2> QED BY <1>4, <1>5, <2>1, LineRemove
<1>7. /\ offerers'[t] = RemoveAt(offerers[t], i)
      /\ \A u \in Tokens \ {t} : offerers'[u] = offerers[u]
  BY <1>4, <1>5
<1>8. \A q \in Publishers, u \in Tokens : InLine(q, u)' <=> InLine(q, u) /\ ~(q = p /\ u = t)
  BY <1>6, <1>7, Primed DEF InLine
<1>9. \A u \in Tokens : ~InLine(p, u)'
  <2>1. \A u \in Tokens : InLine(p, u) => u = t
    BY <1>1, <1>6 DEF LinesInv, InLine
  <2> QED BY <1>8, <2>1
<1>10. pc'[p] = "idle" /\ \A q \in Publishers \ {p} : pc'[q] = pc[q]
  BY <1>2, <1>5 DEF Return
<1>11. LinesInv'
  <2>1. ASSUME NEW u \in Tokens
        PROVE  /\ NoRepeats(offerers[u])'
               /\ offerers'[u] # <<>> => ~shut'[u] /\ Len(items'[u]) >= Capacity
    <3>1. NoRepeats(offerers'[u])
      BY <1>1, <1>6, <1>7 DEF LinesInv
    <3>2. offerers[u] # <<>> => ~shut[u] /\ Len(items[u]) >= Capacity
      BY <1>1 DEF LinesInv
    <3>3. offerers'[u] # <<>> => offerers[u] # <<>>
      <4>1. CASE u = t
        <5>1. offerers[t] # <<>>
          BY <1>5, <1>6, ToSetFacts
        <5> QED BY <4>1, <5>1
      <4> QED BY <1>7, <4>1
    <3> QED BY <1>2, <3>1, <3>2, <3>3, PrimedOrder
  <2>2. ASSUME NEW q \in Publishers
        PROVE  pc'[q] = "parked" <=> \E u \in Tokens : InLine(q, u)'
    <3>1. CASE q = p
      BY <1>9, <1>10, <3>1
    <3>2. CASE q # p
      BY <1>1, <1>8, <1>10, <3>2 DEF LinesInv
    <3> QED BY <3>1, <3>2
  <2>3. \A q \in Publishers : \A u, w \in Tokens : InLine(q, u)' /\ InLine(q, w)' => u = w
    BY <1>1, <1>8 DEF LinesInv
  <2> QED BY <2>1, <2>2, <2>3 DEF LinesInv
<1> QED BY <1>2, <1>8, <1>11, ReturnDelivery

\* What p takes off the head of its snapshot is the first it owes.
LEMMA NextOwed ==
  ASSUME DeliveryInv, NEW p \in Publishers, NEW t \in Tokens, pc[p] = "deliver",
         todo[p] # <<>>, t = Head(todo[p])
  PROVE  /\ Tail(todo[p]) \in Seq(Tokens) /\ InOrder(Tail(todo[p]))
         /\ \A u \in Tokens : ~InLine(p, u)
         /\ \A u \in Tokens : u \in ToSet(Tail(todo[p])) <=> ToCome(p, u) /\ u # t
         /\ ToCome(p, t) /\ Owed(p, t)
         /\ \A u \in Tokens : Owed(p, u) /\ u # t => t < u
<1>1. TypeOK /\ LinesInv /\ CallInv(p) /\ todo[p] \in Seq(Tokens) /\ Tokens \in SUBSET Nat
  BY TokenFacts DEF DeliveryInv, CallsInv, TypeOK
<1>2. InOrder(todo[p])
  BY <1>1 DEF CallInv
<1>3. /\ InOrder(Tail(todo[p])) /\ Tail(todo[p]) \in Seq(Tokens)
      /\ ToSet(todo[p]) = {t} \cup ToSet(Tail(todo[p]))
      /\ \A x \in ToSet(Tail(todo[p])) : t < x
  BY <1>1, <1>2, InOrderTail
<1>4. \A u \in Tokens : ~InLine(p, u)
  BY <1>1 DEF LinesInv
<1>5. t \notin ToSet(Tail(todo[p]))
  <2>1. t \in Nat
    BY TokenFacts
  <2>2. ~(t < t)
    BY <2>1
  <2> QED BY <1>3, <2>2
<1> QED BY <1>3, <1>4, <1>5 DEF Owed, ToCome

LEMMA DeliverDelivery ==
  ASSUME DeliveryInv, TypeOK', NEW p \in Publishers, Deliver(p)
  PROVE  DeliveryInv'
<1>1. /\ TypeOK /\ LinesInv /\ NumbersInv /\ ReachedInv /\ ContentsInv /\ CallsInv
      /\ \A q \in Publishers : CallInv(q)
  BY DEF DeliveryInv, CallsInv
<1>2. /\ pc[p] = "deliver" /\ todo[p] # <<>>
      /\ nextID' = nextID /\ policy' = policy /\ shut' = shut /\ value' = value
      /\ published' = published /\ targets' = targets /\ answer' = answer
      /\ received' = received /\ since' = since
  BY DEF Deliver, hubVars
<1>3. /\ items \in [Tokens -> Seq(Nat)] /\ reached \in [Tokens -> Seq(Nat)]
      /\ received \in [Tokens -> Seq(Nat)] /\ todo \in [Publishers -> Seq(Tokens)]
      /\ value[p] \in Nat /\ published \in Nat /\ offerers \in [Tokens -> Seq(Publishers)]
      /\ pc \in [Publishers -> {"idle", "deliver", "parked"}] /\ Capacity \in Nat \ {0}
  BY <1>1, HubConstants DEF TypeOK
<1>4. PICK t \in Tokens : t = Head(todo[p])
  BY <1>2, <1>3, HeadTail
<1>5. OfferRoom(p, t) \/ OfferDeclined(p, t) \/ OfferEvicts(p, t) \/ OfferParks(p, t)
  BY <1>4 DEF Deliver
<1>6. todo'[p] = Tail(todo[p]) /\ \A q \in Publishers \ {p} : todo'[q] = todo[q]
  <2>1. todo' = [todo EXCEPT ![p] = Tail(todo[p])]
    BY <1>5 DEF OfferRoom, OfferDeclined, OfferEvicts, OfferParks, Onward
  <2> QED BY <1>3, <2>1
<1>7. /\ Tail(todo[p]) \in Seq(Tokens) /\ InOrder(Tail(todo[p]))
      /\ \A u \in Tokens : ~InLine(p, u)
      /\ \A u \in Tokens : u \in ToSet(Tail(todo[p])) <=> ToCome(p, u) /\ u # t
      /\ ToCome(p, t) /\ Owed(p, t)
      /\ \A u \in Tokens : Owed(p, u) /\ u # t => t < u
  BY <1>2, <1>4, NextOwed
<1>8. \A u \in Tokens : ToCome(p, u)' <=> ToCome(p, u) /\ u # t
  BY <1>6, <1>7, Primed
<1>9. InOrder(todo'[p])
  BY <1>6, <1>7
<1>a. ASSUME pc' = pc, offerers' = offerers,
             \A u \in Tokens \ {t} : reached'[u] = reached[u] /\ items'[u] = items[u],
             \/ reached'[t] = Append(reached[t], value[p])
             \/ reached'[t] = reached[t] /\ Settled(value[p], t),
             Len(items[t]) >= Capacity => Len(items'[t]) >= Capacity,
             received[t] \o items'[t] = reached'[t] \/ policy = "DropOldest"
      PROVE  DeliveryInv'
  <2>1. \A q, u : InLine(q, u)' <=> InLine(q, u)
    BY <1>a, SetsKept
  <2>2. \A u \in Tokens : /\ Owed(p, u)' <=> Owed(p, u) /\ u # t
                          /\ InLine(p, u)' => InLine(p, u)
                          /\ ToCome(p, u)' => ToCome(p, u)
    BY <1>7, <1>8, <2>1, Primed DEF Owed
  <2>3. NumbersInv' /\ ReachedInv' /\ CallsInv' /\ AllReached' /\ EarlierFirst'
    BY <1>2, <1>6, <1>7, <1>9, <1>a, <2>1, <2>2, OneServed
  <2>4. LinesInv'
    <3>1. \A u \in Tokens : offerers[u] # <<>> /\ Len(items[u]) >= Capacity =>
                               Len(items'[u]) >= Capacity
      BY <1>a
    <3> QED BY <1>1, <1>2, <1>a, <3>1, LinesKept
  <2>5. ContentsInv'
    BY <1>1, <1>2, <1>a DEF ContentsInv
  <2> QED BY <2>3, <2>4, <2>5 DEF DeliveryInv
<1>10. CASE OfferRoom(p, t)
  <2>1. /\ items'[t] = Append(items[t], value[p]) /\ reached'[t] = Append(reached[t], value[p])
        /\ \A u \in Tokens \ {t} : reached'[u] = reached[u] /\ items'[u] = items[u]
        /\ pc' = pc /\ offerers' = offerers
    BY <1>3, <1>10 DEF OfferRoom, Arrive
  <2>2. /\ items[t] \in Seq(Nat) /\ reached[t] \in Seq(Nat) /\ received[t] \in Seq(Nat)
        /\ Len(items[t]) \in Nat
    BY <1>3, LenProperties
  <2>3. Len(items'[t]) = Len(items[t]) + 1
    BY <1>3, <2>1, <2>2, AppendProperties
  <2>4. received[t] \o items'[t] = reached'[t] \/ policy = "DropOldest"
    <3>1. received[t] \o Append(items[t], value[p]) = Append(received[t] \o items[t], value[p])
      BY <1>3, <2>2, AppendBehind
    <3> QED BY <1>1, <2>1, <3>1 DEF ContentsInv
  <2>5. Len(items[t]) >= Capacity => Len(items'[t]) >= Capacity
    BY <1>3, <2>2, <2>3
  <2> QED BY <1>a, <2>1, <2>4, <2>5
<1>11. CASE OfferDeclined(p, t)
  <2>1. items' = items /\ reached' = reached /\ pc' = pc /\ offerers' = offerers
        /\ (shut[t] \/ policy = "DropNewest")
    BY <1>11 DEF OfferDeclined
  <2>2. Settled(value[p], t)
    BY <2>1 DEF Settled
  <2>3. received[t] \o items'[t] = reached'[t] \/ policy = "DropOldest"
    BY <1>1, <2>1 DEF ContentsInv
  <2> QED BY <1>a, <2>1, <2>2, <2>3
<1>12. CASE OfferEvicts(p, t)
  <2>1. /\ items'[t] = Append(Tail(items[t]), value[p])
        /\ reached'[t] = Append(reached[t], value[p])
        /\ \A u \in Tokens \ {t} : reached'[u] = reached[u] /\ items'[u] = items[u]
        /\ pc' = pc /\ offerers' = offerers /\ policy = "DropOldest"
        /\ Len(items[t]) >= Capacity
    BY <1>3, <1>12 DEF OfferEvicts, Arrive
  <2>2. items[t] \in Seq(Nat) /\ Len(items[t]) \in Nat /\ Len(items[t]) # 0
    BY <1>3, <2>1, LenProperties
  <2>3. Tail(items[t]) \in Seq(Nat) /\ Len(Tail(items[t])) = Len(items[t]) - 1
    BY <2>2, TailFacts, EmptySeq
  <2>4. Len(items'[t]) = (Len(items[t]) - 1) + 1
    BY <1>3, <2>1, <2>3, AppendProperties
  <2>5. Len(items'[t]) >= Capacity
    BY <1>3, <2>1, <2>2, <2>4
  <2> QED BY <1>a, <2>1, <2>5
<1>13. CASE OfferParks(p, t)
  <2>1. /\ ~shut[t] /\ Len(items[t]) >= Capacity /\ items' = items /\ reached' = reached
        /\ offerers'[t] = Append(offerers[t], p)
        /\ \A u \in Tokens \ {t} : offerers'[u] = offerers[u]
        /\ pc'[p] = "parked" /\ \A q \in Publishers \ {p} : pc'[q] = pc[q]
    BY <1>3, <1>13 DEF OfferParks
  <2>2. NoRepeats(offerers'[t]) /\ ToSet(offerers'[t]) = ToSet(offerers[t]) \cup {p}
    <3>1. offerers[t] \in Seq(Publishers) /\ NoRepeats(offerers[t]) /\ p \notin ToSet(offerers[t])
      BY <1>1, <1>3, <1>7 DEF LinesInv, InLine
    <3> QED BY <2>1, <3>1, LineAppend
  <2>3. \A q \in Publishers, u \in Tokens : InLine(q, u)' <=> InLine(q, u) \/ (q = p /\ u = t)
    BY <2>1, <2>2, Primed DEF InLine
  <2>4. /\ \A v, u : Has(u, v)' <=> Has(u, v)
        /\ \A v, u : For(v, u)' <=> For(v, u)
    BY <1>2, <2>1, SetsKept
  <2>5. CallInv(p)'
    <3>0. PICK v : v = value[p]
      OBVIOUS
    <3>1. /\ v \in 1..published /\ answer[v] = "pending"
          /\ \A u \in Tokens : Owed(p, u) => For(v, u)
          /\ \A u \in Tokens : For(v, u) => Owed(p, u) \/ Settled(v, u)
          /\ \A u, w \in Tokens : Has(u, v) /\ Owed(p, w) => u < w
      BY <1>1, <1>2, <3>0 DEF CallInv
    <3>2. \A u \in Tokens : Owed(p, u)' <=> Owed(p, u)
      BY <1>7, <1>8, <2>3, Primed DEF Owed
    <3>3. \A u \in Tokens : Settled(v, u)' <=> Settled(v, u)
      BY <1>2, <2>4, Primed DEF Settled
    <3>4. \A u, w \in Tokens : InLine(p, u)' /\ ToCome(p, w)' => u < w
      BY <1>7, <1>8, <2>3 DEF Owed
    <3>5. value'[p] = v /\ v \in 1..published' /\ answer'[v] = "pending" /\ InOrder(todo[p])'
      BY <1>2, <1>9, <3>0, <3>1, PrimedOrder
    <3>6. \A u \in Tokens : Owed(p, u)' => For(v, u)'
      BY <2>4, <3>1, <3>2
    <3>7. \A u \in Tokens : For(v, u)' => Owed(p, u)' \/ Settled(v, u)'
      BY <2>4, <3>1, <3>2, <3>3
    <3>8. \A u, w \in Tokens : Has(u, v)' /\ Owed(p, w)' => u < w
      BY <2>4, <3>1, <3>2
    <3> QED BY <3>4, <3>5, <3>6, <3>7, <3>8 DEF CallInv
  <2>6. ASSUME NEW q \in Publishers \ {p} PROVE CallInv(q)'
    <3>1. \A u \in Tokens : Has(u, value[q])' <=> Has(u, value[q])
      BY <1>2, <2>1 DEF Has, ToSet
    <3>2. published <= published' /\ published' \in Nat /\ CallInv(q)
      BY <1>1, <1>2, <1>3
    <3>3. \A u \in Tokens : (InLine(q, u)' <=> InLine(q, u)) /\ (shut[u] => shut'[u])
      BY <1>2, <2>3
    <3> QED BY <1>2, <1>3, <1>6, <2>1, <3>1, <3>2, <3>3, CallKept
  <2>7. CallsInv'
    BY <2>5, <2>6 DEF CallsInv
  <2>8. LinesInv'
    <3>1. ASSUME NEW u \in Tokens
          PROVE  /\ NoRepeats(offerers[u])'
                 /\ offerers'[u] # <<>> => ~shut'[u] /\ Len(items'[u]) >= Capacity
      <4>1. CASE u = t
        BY <1>2, <2>1, <2>2, <4>1, PrimedOrder
      <4>2. CASE u # t
        BY <1>1, <1>2, <2>1, <4>2, PrimedOrder DEF LinesInv
      <4> QED BY <4>1, <4>2
    <3>2. ASSUME NEW q \in Publishers
          PROVE  pc'[q] = "parked" <=> \E u \in Tokens : InLine(q, u)'
      BY <1>1, <2>1, <2>3 DEF LinesInv
    <3>3. \A q \in Publishers : \A u, w \in Tokens : InLine(q, u)' /\ InLine(q, w)' => u = w
      BY <1>1, <1>7, <2>3 DEF LinesInv
    <3> QED BY <3>1, <3>2, <3>3 DEF LinesInv
  <2>9. NumbersInv' /\ ReachedInv' /\ ContentsInv'
    <3>1. \A q \in Publishers : pc'[q] # "idle" => pc[q] # "idle" /\ value'[q] = value[q]
      BY <1>2, <2>1
    <3> QED BY <1>1, <1>2, <2>1, <3>1, NumbersKept, ReachedKept, ContentsKept
  <2>10. AllReached' /\ EarlierFirst'
    BY <1>2, <2>4, <2>7, PromisesKept
  <2> QED BY <2>7, <2>8, <2>9, <2>10 DEF DeliveryInv
<1> QED BY <1>5, <1>10, <1>11, <1>12, <1>13

LEMMA TakeDelivery ==
  ASSUME DeliveryInv, TypeOK', NEW t \in Tokens, Take(t)
  PROVE  DeliveryInv'
<1>1. /\ TypeOK /\ LinesInv /\ NumbersInv /\ ReachedInv /\ ContentsInv /\ CallsInv
      /\ \A q \in Publishers : CallInv(q)
  BY DEF DeliveryInv, CallsInv
<1>2. /\ nextID' = nextID /\ policy' = policy /\ shut' = shut /\ value' = value /\ todo' = todo
      /\ published' = published /\ targets' = targets /\ answer' = answer /\ since' = since
      /\ items[t] # <<>>
      /\ received' = [received EXCEPT ![t] = Append(received[t], Head(items[t]))]
  BY DEF Take, hubVars
<1>3. /\ items \in [Tokens -> Seq(Nat)] /\ reached \in [Tokens -> Seq(Nat)]
      /\ received \in [Tokens -> Seq(Nat)] /\ published \in Nat
      /\ value \in [Publishers -> Nat] /\ offerers \in [Tokens -> Seq(Publishers)]
      /\ pc \in [Publishers -> {"idle", "deliver", "parked"}] /\ Capacity \in Nat \ {0}
  BY <1>1, HubConstants DEF TypeOK
<1>4. PICK h \in Nat : h = Head(items[t])
  BY <1>2, <1>3, HeadTail
<1> DEFINE r == Tail(items[t])
<1>5. /\ r \in Seq(Nat) /\ <<h>> \in Seq(Nat) /\ items[t] = <<h>> \o r
      /\ Len(r) = Len(items[t]) - 1 /\ Len(items[t]) \in Nat /\ received[t] \in Seq(Nat)
  <2>1. items[t] \in Seq(Nat)
    BY <1>3
  <2> QED BY <1>2, <1>3, <1>4, <2>1, HeadTail, TailFacts
<1>6. /\ received'[t] = Append(received[t], h)
      /\ \A u \in Tokens \ {t} : received'[u] = received[u]
  BY <1>2, <1>3, <1>4
<1> HIDE DEF r
<1>7. received'[t] \o r = received[t] \o items[t] /\ received'[t] \in Seq(Nat)
  <2>1. received'[t] = received[t] \o <<h>>
    BY <1>3, <1>5, <1>6, AppendIsConcat
  <2>2. (received[t] \o <<h>>) \o r = received[t] \o (<<h>> \o r)
    <3> DEFINE a == received[t]
               b == <<h>>
    <3>1. a \in Seq(Nat) /\ b \in Seq(Nat) /\ r \in Seq(Nat)
      BY <1>5
    <3> HIDE DEF a, b
    <3>2. (a \o b) \o r = a \o (b \o r)
      BY <3>1, ConcatAssociative
    <3> QED BY <3>2 DEF a, b
  <2>3. received'[t] \in Seq(Nat)
    BY DEF TypeOK
  <2> QED BY <1>5, <2>1, <2>2, <2>3
<1>8. CASE offerers[t] = <<>>
  <2>1. /\ items'[t] = r /\ \A u \in Tokens \ {t} : items'[u] = items[u]
        /\ offerers' = offerers /\ pc' = pc /\ reached' = reached
    BY <1>3, <1>8 DEF Take, r
  <2>2. /\ \A v, u : Has(u, v)' <=> Has(u, v)
        /\ \A q, u : InLine(q, u)' <=> InLine(q, u)
    BY <2>1, SetsKept
  <2>3. CallsInv'
    <3> SUFFICES ASSUME NEW q \in Publishers PROVE CallInv(q)'
      BY DEF CallsInv
    <3>1. \A u \in Tokens : Has(u, value[q])' <=> Has(u, value[q])
      BY <1>2, <2>1 DEF Has, ToSet
    <3>2. published <= published' /\ published' \in Nat /\ CallInv(q)
      BY <1>1, <1>2, <1>3
    <3> QED BY <1>2, <1>3, <2>1, <2>2, <3>1, <3>2, CallKept
  <2>4. LinesInv'
    <3>1. \A u \in Tokens : offerers[u] # <<>> => Len(items[u]) = Len(items'[u])
      BY <1>8, <2>1
    <3> QED BY <1>1, <1>2, <2>1, <3>1, LinesKept
  <2>5. NumbersInv' /\ ReachedInv'
    BY <1>1, <1>2, <2>1, NumbersKept, ReachedKept
  <2>6. ContentsInv'
    BY <1>1, <1>2, <1>6, <1>7, <2>1 DEF ContentsInv
  <2>7. AllReached' /\ EarlierFirst'
    BY <1>2, <2>2, <2>3, PromisesKept
  <2> QED BY <2>3, <2>4, <2>5, <2>6, <2>7 DEF DeliveryInv
<1>9. CASE offerers[t] # <<>>
  <2>0. offerers[t] \in Seq(Publishers) /\ NoRepeats(offerers[t])
    BY <1>1, <1>3 DEF LinesInv
  <2>1. PICK p \in Publishers : p = Head(offerers[t])
    BY <1>9, <2>0, HeadTail
  <2>2. /\ items'[t] = Append(r, value[p]) /\ \A u \in Tokens \ {t} : items'[u] = items[u]
        /\ offerers'[t] = Tail(offerers[t]) /\ \A u \in Tokens \ {t} : offerers'[u] = offerers[u]
        /\ pc'[p] = "deliver" /\ \A q \in Publishers \ {p} : pc'[q] = pc[q]
        /\ reached'[t] = Append(reached[t], value[p])
        /\ \A u \in Tokens \ {t} : reached'[u] = reached[u]
    BY <1>3, <1>9, <2>1 DEF Take, Arrive, r
  <2>3. /\ NoRepeats(offerers'[t]) /\ ToSet(offerers'[t]) = ToSet(offerers[t]) \ {p}
        /\ p \in ToSet(offerers[t])
    BY <1>9, <2>0, <2>1, <2>2, LineTail
  <2>4. \A q \in Publishers, u \in Tokens : InLine(q, u)' <=> InLine(q, u) /\ ~(q = p /\ u = t)
    BY <2>2, <2>3, Primed DEF InLine
  <2>5. /\ InLine(p, t) /\ pc[p] = "parked" /\ \A u \in Tokens : InLine(p, u) => u = t
    BY <1>1, <2>3 DEF LinesInv, InLine
  <2>6. /\ InOrder(todo[p]) /\ \A u \in Tokens : ToCome(p, u) => t < u
    BY <1>1, <2>5 DEF CallInv
  <2>7. ~ToCome(p, t)
    <3>1. t \in Nat
      BY TokenFacts
    <3>2. ~(t < t)
      BY <3>1
    <3> QED BY <2>6, <3>2
  <2>8. Owed(p, t) /\ \A u \in Tokens : Owed(p, u) /\ u # t => t < u
    BY <2>5, <2>6 DEF Owed
  <2>9. \A q, u : ToCome(q, u)' <=> ToCome(q, u)
    BY <1>2, SetsKept
  <2>10. \A u \in Tokens : /\ Owed(p, u)' <=> Owed(p, u) /\ u # t
                           /\ InLine(p, u)' => InLine(p, u)
                           /\ ToCome(p, u)' => ToCome(p, u)
    BY <2>4, <2>5, <2>7, <2>9, Primed DEF Owed
  <2>11. /\ \A q \in Publishers : pc'[q] # "idle" <=> pc[q] # "idle"
         /\ \A q \in Publishers \ {p} : /\ todo'[q] = todo[q]
                                        /\ \A u \in Tokens : InLine(q, u)' <=> InLine(q, u)
         /\ InOrder(todo'[p]) /\ pc[p] # "idle"
    BY <1>2, <2>2, <2>4, <2>5, <2>6
  <2>12. NumbersInv' /\ ReachedInv' /\ CallsInv' /\ AllReached' /\ EarlierFirst'
    BY <1>2, <2>2, <2>8, <2>10, <2>11, OneServed
  <2>13. value[p] \in Nat /\ reached[t] \in Seq(Nat)
    BY <1>3
  <2>14. LinesInv'
    <3>1. ASSUME NEW u \in Tokens
          PROVE  /\ NoRepeats(offerers[u])'
                 /\ offerers'[u] # <<>> => ~shut'[u] /\ Len(items'[u]) >= Capacity
      <4>1. CASE u = t
        <5>1. Len(items'[t]) = Len(r) + 1
          BY <1>5, <2>2, <2>13, AppendProperties
        <5>2. Len(items'[t]) = Len(items[t])
          BY <1>5, <5>1
        <5>3. ~shut[t] /\ Len(items[t]) >= Capacity
          BY <1>1, <1>9 DEF LinesInv
        <5> QED BY <1>2, <2>3, <4>1, <5>2, <5>3, PrimedOrder
      <4>2. CASE u # t
        BY <1>1, <1>2, <2>2, <4>2, PrimedOrder DEF LinesInv
      <4> QED BY <4>1, <4>2
    <3>2. ASSUME NEW q \in Publishers
          PROVE  pc'[q] = "parked" <=> \E u \in Tokens : InLine(q, u)'
      <4>1. CASE q = p
        BY <2>2, <2>4, <2>5, <4>1
      <4>2. CASE q # p
        BY <1>1, <2>2, <2>4, <4>2 DEF LinesInv
      <4> QED BY <4>1, <4>2
    <3>3. \A q \in Publishers : \A u, w \in Tokens : InLine(q, u)' /\ InLine(q, w)' => u = w
      BY <1>1, <2>4 DEF LinesInv
    <3> QED BY <3>1, <3>2, <3>3 DEF LinesInv
  <2>15. ContentsInv'
    <3>1. received'[t] \o Append(r, value[p]) = Append(received'[t] \o r, value[p])
      <4> DEFINE a == received'[t]
                 x == value[p]
      <4>1. a \in Seq(Nat) /\ r \in Seq(Nat) /\ x \in Nat
        BY <1>5, <1>7, <2>13
      <4> HIDE DEF a, x
      <4>2. a \o Append(r, x) = Append(a \o r, x)
        BY <4>1, AppendBehind
      <4> QED BY <4>2 DEF a, x
    <3>2. received'[t] \o items'[t] = reached'[t] \/ policy = "DropOldest"
      BY <1>1, <1>7, <2>2, <3>1 DEF ContentsInv
    <3>3. \A u \in Tokens \ {t} : received'[u] \o items'[u] = reached'[u] \/ policy = "DropOldest"
      BY <1>1, <1>6, <2>2 DEF ContentsInv
    <3>4. \A u \in Tokens : received'[u] \o items'[u] = reached'[u] \/ policy' = "DropOldest"
      <4> SUFFICES ASSUME NEW u \in Tokens, policy' # "DropOldest"
                   PROVE  received'[u] \o items'[u] = reached'[u]
        OBVIOUS
      <4>1. CASE u = t
        BY <1>2, <3>2, <4>1
      <4>2. CASE u # t
        BY <1>2, <3>3, <4>2
      <4> QED BY <4>1, <4>2
    <3> QED BY <3>4 DEF ContentsInv
  <2> QED BY <2>12, <2>14, <2>15 DEF DeliveryInv
<1> QED BY <1>8, <1>9

LEMMA DeliveryInit == Init => DeliveryInv
<1> SUFFICES ASSUME Init PROVE DeliveryInv
  OBVIOUS
<1>0. TypeOK
  BY TypesInit
<1>1. /\ published = 0 /\ targets = <<>> /\ answer = <<>>
      /\ \A t \in Tokens : /\ items[t] = <<>> /\ offerers[t] = <<>> /\ since[t] = 0
                           /\ reached[t] = <<>> /\ received[t] = <<>>
      /\ \A p \in Publishers : pc[p] = "idle"
  BY DEF Init
<1>2. Len(<<>>) = 0 /\ ToSet(<<>>) = {} /\ <<>> \o <<>> = <<>> /\ 1..0 = {}
  <2>1. <<>> \in Seq(Nat) /\ Len(<<>>) = 0
    BY EmptySeq
  <2>2. ToSet(<<>>) = {}
    BY <2>1, ToSetFacts
  <2>3. <<>> \o <<>> = <<>>
    BY <2>1, ConcatEmptySeq
  <2>4. 1..0 = {}
    OBVIOUS
  <2> QED BY <2>1, <2>2, <2>3, <2>4
<1>3. NoRepeats(<<>>)
  BY <1>2 DEF NoRepeats
<1>4. LinesInv /\ ReachedInv /\ ContentsInv
  <2>1. \A p, t : t \in Tokens => ~InLine(p, t) /\ ~Has(t, p)
    BY <1>1, <1>2 DEF InLine, Has
  <2> QED BY <1>1, <1>2, <1>3, <2>1 DEF LinesInv, ReachedInv, ContentsInv
<1>5. NumbersInv
  <2>1. Len(targets) = published /\ Len(answer) = published /\ 1..published = {}
    BY <1>1, <1>2
  <2>2. \A t \in Tokens : since[t] <= published
    BY <1>1
  <2> QED BY <1>1, <2>1, <2>2 DEF NumbersInv
<1>6. CallsInv /\ AllReached /\ EarlierFirst
  BY <1>1, <1>2 DEF CallsInv, CallInv, AllReached, EarlierFirst
<1> QED BY <1>0, <1>4, <1>5, <1>6 DEF DeliveryInv

LEMMA DeliveryNext == DeliveryInv /\ [Next]_vars => DeliveryInv'
<1> SUFFICES ASSUME DeliveryInv, [Next]_vars PROVE DeliveryInv'
  OBVIOUS
<1>0. TypeOK
  BY DEF DeliveryInv
<1>1. CASE Subscribe
  BY <1>0, <1>1, TypesSubscriptions, SubscribeDelivery
<1>2. CASE Shutdown
  <2>1. TypeOK'
    BY <1>0, <1>2, TypesSubscriptions
  <2> QED BY <1>2, <2>1, QuietDelivery DEF Shutdown, callVars
<1>3. ASSUME NEW t \in Tokens, Unsubscribe(t) PROVE DeliveryInv'
  <2>1. TypeOK'
    BY <1>0, <1>3, TypesSubscriptions
  <2> QED BY <1>3, <2>1, QuietDelivery DEF Unsubscribe, callVars
<1>4. ASSUME NEW t \in Tokens, ShutInbox(t) PROVE DeliveryInv'
  BY <1>0, <1>4, TypesShut, ShutDelivery
<1>5. ASSUME NEW t \in Tokens, Take(t) PROVE DeliveryInv'
  BY <1>0, <1>5, TypesTake, TakeDelivery
<1>6. ASSUME NEW p \in Publishers, Publish(p) PROVE DeliveryInv'
  BY <1>0, <1>6, TypesPublish, PublishDelivery
<1>7. ASSUME NEW p \in Publishers, Deliver(p) PROVE DeliveryInv'
  BY <1>0, <1>7, TypesDeliver, DeliverDelivery
<1>8. ASSUME NEW p \in Publishers, PublishReturns(p) PROVE DeliveryInv'
  BY <1>0, <1>8, TypesCalls, PublishReturnsDelivery
<1>9. ASSUME NEW p \in Publishers, Cancel(p) PROVE DeliveryInv'
  <2>1. TypeOK'
    BY <1>0, <1>9, TypesCalls
  <2> QED BY <1>9, <2>1, QuietDelivery DEF Cancel, hubVars
<1>10. ASSUME NEW p \in Publishers, Abandon(p) PROVE DeliveryInv'
  BY <1>0, <1>10, TypesCalls, AbandonDelivery
<1>11. CASE UNCHANGED vars
  <2>1. TypeOK'
    BY <1>0, <1>11 DEF vars, hubVars, inboxVars, callVars, TypeOK
  <2> QED BY <1>11, <2>1, QuietDelivery DEF vars, hubVars, callVars
<1> QED
  BY <1>1, <1>2, <1>3, <1>4, <1>5, <1>6, <1>7, <1>8, <1>9, <1>10, <1>11 DEF Next

LEMMA DeliveryImplies == DeliveryInv => NobodyStranded /\ DeliveryKeepsItsWord
<1> SUFFICES ASSUME DeliveryInv PROVE NobodyStranded /\ DeliveryKeepsItsWord
  OBVIOUS
<1>1. /\ TypeOK /\ LinesInv /\ NumbersInv /\ ReachedInv /\ ContentsInv
      /\ AllReached /\ EarlierFirst
  BY DEF DeliveryInv
<1>2. /\ \A t \in Tokens : offerers[t] \in Seq(Publishers) /\ reached[t] \in Seq(Nat)
      /\ targets \in Seq(Seq(Tokens)) /\ answer \in Seq(Answers) /\ published \in Nat
      /\ since \in [Tokens -> Nat]
  BY <1>1 DEF TypeOK, Answers
<1>3. NobodyStranded
  <2>1. ASSUME NEW t \in Tokens, NEW i \in DOMAIN offerers[t]
        PROVE  pc[offerers[t][i]] = "parked" /\ ~shut[t] /\ Len(items[t]) >= Capacity
    <3>1. offerers[t][i] \in ToSet(offerers[t])
      BY DEF ToSet
    <3>2. offerers[t][i] \in Publishers /\ offerers[t] # <<>>
      BY <1>2, <3>1, ToSetFacts
    <3> QED BY <1>1, <3>1, <3>2 DEF LinesInv, InLine
  <2>2. \A p \in Publishers : pc[p] = "parked" => \E t \in Tokens : p \in ToSet(offerers[t])
    BY <1>1 DEF LinesInv, InLine
  <2> QED BY <2>1, <2>2 DEF NobodyStranded
<1>4. DOMAIN targets = 1..published /\ DOMAIN answer = 1..published
  BY <1>1, <1>2, LenProperties DEF NumbersInv
<1>5. \A v \in 1..published : ToSet(targets[v]) \subseteq Tokens
  <2> SUFFICES ASSUME NEW v \in 1..published PROVE ToSet(targets[v]) \subseteq Tokens
    OBVIOUS
  <2>1. targets[v] \in Seq(Tokens)
    BY <1>2, <1>4
  <2> QED BY <2>1, ToSetFacts
<1>6. NoReplay
  <2> SUFFICES ASSUME NEW t \in Tokens
               PROVE  /\ \A i \in DOMAIN reached[t] : reached[t][i] > since[t]
                      /\ \A i, j \in DOMAIN reached[t] : reached[t][i] = reached[t][j] => i = j
                      /\ received[t] \o items[t] = reached[t] \/ policy = "DropOldest"
    BY DEF NoReplay
  <2>1. DOMAIN reached[t] = 1..Len(reached[t]) /\ ToSet(reached[t]) \subseteq Nat
    BY <1>2, LenProperties, ToSetFacts
  <2>2. ASSUME NEW i \in DOMAIN reached[t] PROVE reached[t][i] > since[t]
    <3>1. PICK v \in Nat : v = reached[t][i] /\ v \in ToSet(reached[t])
      BY <2>1 DEF ToSet
    <3>2. v \in 1..published /\ For(v, t)
      BY <1>1, <3>1 DEF ReachedInv, Has
    <3>3. since[t] < v /\ since[t] \in Nat
      BY <1>1, <1>2, <3>2 DEF NumbersInv
    <3> QED BY <3>1, <3>3
  <2>3. \A i, j \in DOMAIN reached[t] : reached[t][i] = reached[t][j] => i = j
    BY <1>1, <2>1 DEF ReachedInv, NoRepeats
  <2> QED BY <1>1, <2>2, <2>3 DEF ContentsInv
<1>7. AcceptedReachesAll
  BY <1>1, <1>4, <1>5 DEF AcceptedReachesAll, AllReached, For, Settled, Has
<1>8. InSubscriptionOrder
  BY <1>1, <1>4, <1>5 DEF InSubscriptionOrder, EarlierFirst, For, Has
<1> QED BY <1>3, <1>6, <1>7, <1>8 DEF DeliveryKeepsItsWord

\* A publisher waits exactly if it stands in the line of an inbox that is full
\* and open, for any number of publishers, inboxes and values, whoever takes,
\* unsubscribes, shuts down or is interrupted meanwhile (hub.go 65-86).
THEOREM HubNobodyStranded == Spec => []NobodyStranded
  BY DeliveryInit, DeliveryNext, DeliveryImplies, PTL DEF Spec

\* Nothing is replayed or delivered twice, an accepted value has reached every
\* inbox of its snapshot that is still open, and a value reaches the subscribers
\* in the order of their subscriptions (hub.go 65-112).
THEOREM HubDelivery == Spec => []DeliveryKeepsItsWord
  BY DeliveryInit, DeliveryNext, DeliveryImplies, PTL DEF Spec
=============================================================================
