---------------------------- MODULE QueueProofs ----------------------------
(***************************************************************************)
(* Proofs about Queue, for any callers, capacities, limits and any number  *)
(* of offers.                                                              *)
(***************************************************************************)
EXTENDS Queue, SequenceLemmas, SequenceTheorems, TLAPS

\* The values of the parked offerers form a sequence, as long as the list.
LEMMA ParkedType ==
  ASSUME TypeOK
  PROVE  Parked \in Seq(Nat) /\ Len(Parked) = Len(offerers)
<1> DEFINE parked == [i \in 1..Len(offerers) |-> value[offerers[i]]]
<1>1. /\ Len(offerers) \in Nat /\ DOMAIN offerers = 1..Len(offerers)
      /\ \A i \in 1..Len(offerers) : value[offerers[i]] \in Nat
  <2>1. offerers \in Seq(Callers)
    BY DEF TypeOK
  <2>2. value \in [Callers -> Nat]
    BY DEF TypeOK
  <2>3. Len(offerers) \in Nat /\ DOMAIN offerers = 1..Len(offerers)
    BY ONLY <2>1, LenProperties
  <2>4. \A i \in 1..Len(offerers) : offerers[i] \in Callers
    BY ONLY <2>1, ElementOfSeq
  <2> QED BY ONLY <2>2, <2>3, <2>4
<1>2. parked \in [1..Len(offerers) -> Nat]
  BY <1>1
<1>3. parked \in Seq(Nat)
  BY <1>1, <1>2, SeqDef
<1>4. Len(parked) = Len(offerers)
  BY <1>1, <1>2, <1>3, LenProperties
<1> QED BY <1>1, <1>3, <1>4 DEF Parked

LEMMA BacklogType ==
  ASSUME TypeOK
  PROVE  /\ Backlog \in Seq(Nat)
         /\ Len(Backlog) = Len(items) + Len(offerers)
         /\ \A i \in 1..Len(items) : Backlog[i] = items[i]
<1>1. items \in Seq(Nat) /\ Parked \in Seq(Nat) /\ Len(Parked) = Len(offerers)
  BY ParkedType DEF TypeOK
<1>2. /\ items \o Parked \in Seq(Nat) /\ Len(items \o Parked) = Len(items) + Len(Parked)
      /\ \A i \in 1..Len(items) : (items \o Parked)[i] = items[i]
  BY ONLY <1>1, ConcatType
<1>3. Backlog = items \o Parked
  BY DEF Backlog
<1> HIDE DEF Backlog
<1> QED BY <1>1, <1>2, <1>3

\* What n dequeues under one lock leave behind: they never shorten a full
\* queue that still has offerers waiting.
LEMMA DequeueEffect ==
  ASSUME TypeOK, NEW n \in Nat, n <= Len(Backlog), items = <<>> => n = 0, Dequeue(n)
  PROVE  /\ items' \in Seq(Nat) /\ offerers' \in Seq(Callers)
         /\ channel' \in [Callers -> Seq(Nat)] /\ left' \in Seq(Nat)
         /\ Len(items') <= Len(items)
         /\ offerers' # <<>> => Len(items') = Len(items) /\ offerers # <<>>
<1>1. /\ Backlog \in Seq(Nat) /\ offerers \in Seq(Callers) /\ left \in Seq(Nat)
      /\ value \in [Callers -> Nat] /\ channel \in [Callers -> Seq(Nat)]
  BY BacklogType DEF TypeOK
<1>a. /\ Len(items) \in Nat /\ Len(offerers) \in Nat
      /\ Len(Backlog) = Len(items) + Len(offerers)
  <2>1. items \in Seq(Nat) /\ offerers \in Seq(Callers)
    BY DEF TypeOK
  <2> QED BY <2>1, BacklogType, LenProperties
<1>2. PICK k \in Nat :
           /\ k <= n /\ k <= Len(offerers) /\ (k = n \/ k = Len(offerers))
           /\ k = AtMost(n, Len(offerers))
  <2>1. AtMost(n, Len(offerers)) \in {n, Len(offerers)}
        /\ AtMost(n, Len(offerers)) <= n /\ AtMost(n, Len(offerers)) <= Len(offerers)
    BY <1>a DEF AtMost
  <2> QED BY <1>a, <2>1
<1>3. /\ items' = SubSeq(Backlog, n + 1, Len(items) + k)
      /\ offerers' = SubSeq(offerers, k + 1, Len(offerers))
      /\ channel' = [c \in Callers |->
                        IF \E i \in 1..k : offerers[i] = c
                        THEN Append(channel[c], value[c]) ELSE channel[c]]
      /\ left' = left \o SubSeq(Backlog, 1, n)
  BY <1>2 DEF Dequeue
<1>4. items' \in Seq(Nat) /\ Len(items') = Len(items) + k - n
  <2>1. /\ n + 1 \in Nat \ {0} /\ Len(items) + k \in Nat
        /\ Len(items) + k <= Len(Backlog) /\ n <= Len(items) + k
    BY <1>a, <1>2
  <2>2. /\ items' \in Seq(Nat)
        /\ Len(items') = IF n + 1 <= Len(items) + k
                         THEN Len(items) + k - (n + 1) + 1 ELSE 0
    <3> DEFINE e == Len(items) + k
               m == n + 1
    <3>1. Backlog \in Seq(Nat) /\ m \in Nat \ {0} /\ e \in Nat /\ e <= Len(Backlog)
          /\ items' = SubSeq(Backlog, m, e)
      BY <1>1, <1>3, <2>1
    <3> HIDE DEF e, m
    <3>2. items' \in Seq(Nat) /\ Len(items') = IF m <= e THEN e - m + 1 ELSE 0
      BY ONLY <3>1, SubSeqFacts
    <3> QED BY <3>2 DEF e, m
  <2>3. CASE n + 1 <= Len(items) + k
    BY <1>a, <2>2, <2>3
  <2>4. CASE ~(n + 1 <= Len(items) + k)
    <3>1. Len(items) + k = n
      BY <1>a, <2>1, <2>4
    <3> QED BY <1>a, <2>2, <2>4, <3>1
  <2> QED BY <2>3, <2>4
<1>5. offerers' \in Seq(Callers) /\ Len(offerers') = Len(offerers) - k
  <2>1. k + 1 \in Nat \ {0}
    BY <1>2
  <2>2. /\ offerers' \in Seq(Callers)
        /\ Len(offerers') = IF k + 1 <= Len(offerers)
                            THEN Len(offerers) - (k + 1) + 1 ELSE 0
    BY <1>1, <1>3, <2>1, SubSeqFacts
  <2> QED BY <1>a, <1>2, <2>2
<1>6. left' \in Seq(Nat)
  <2>1. SubSeq(Backlog, 1, n) \in Seq(Nat)
    BY <1>1, SubSeqFacts
  <2> QED BY <1>1, <1>3, <2>1, ConcatType
<1>7. channel' \in [Callers -> Seq(Nat)]
  <2>1. \A c \in Callers : Append(channel[c], value[c]) \in Seq(Nat) /\ channel[c] \in Seq(Nat)
    BY <1>1, AppendProperties
  <2> QED BY <1>3, <2>1
<1>8. offerers' # <<>> => k = n /\ offerers # <<>>
  BY <1>1, <1>a, <1>2, <1>5, EmptySeq
<1>9. Len(items') <= Len(items) /\ (k = n => Len(items') = Len(items))
  <2>1. Len(items') = Len(items) + k - n
    BY <1>4
  <2>2. \A x \in Nat : x + k - n <= x /\ (k = n => x + k - n = x)
    BY <1>2
  <2> QED BY <1>a, <2>1, <2>2
<1> QED BY <1>4, <1>5, <1>6, <1>7, <1>8, <1>9

\* n is what drainUpTo may take, so that DequeueEffect applies.
LEMMA AvailableBounds ==
  ASSUME TypeOK, NEW lim \in Nat, NEW have \in Nat
  PROVE  /\ Available(lim, have) \in Nat /\ Available(lim, have) <= Len(Backlog)
         /\ items = <<>> => Available(lim, have) = 0
<1>1. Len(Backlog) \in Nat
  BY BacklogType, LenProperties
<1>2. have < lim => lim - have \in Nat
  OBVIOUS
<1> QED BY <1>1, <1>2 DEF Available, AtMost
----------------------------------------------------------------------------
(* The invariant: types, and that whoever waits has a reason to.  Together  *)
(* they are inductive.                                                      *)

QueueInv == TypeOK /\ WaitersJustified

LEMMA InitInv == Init => QueueInv
<1> SUFFICES ASSUME Init PROVE QueueInv
  OBVIOUS
<1>1. capacity \in Nat /\ policy \in Policies
  BY QueueConstants DEF Init, NewCapacity, Policies
<1>2. TypeOK
  <2>1. <<>> \in Seq(Nat) /\ <<>> \in Seq(Callers)
    BY EmptySeq
  <2> QED BY <1>1, <2>1 DEF Init, TypeOK, Waits
<1>3. WaitersJustified
  BY <1>1, EmptySeq DEF Init, WaitersJustified
<1> QED BY <1>2, <1>3 DEF QueueInv

LEMMA OfferInv ==
  ASSUME QueueInv, NEW c \in Callers, Offer(c)
  PROVE  QueueInv'
<1> DEFINE v == offered + 1
<1>0. TypeOK /\ WaitersJustified /\ v \in Nat /\ offered' = v
  <2>1. TypeOK /\ WaitersJustified
    BY DEF QueueInv
  <2>2. offered \in Nat
    BY <2>1 DEF TypeOK
  <2>3. offered' = offered + 1
    BY DEF Offer
  <2> QED BY <2>1, <2>2, <2>3
<1> HIDE DEF v
<1>1. CASE OfferClosed(c, v)
  BY <1>0, <1>1 DEF OfferClosed, QueueInv, TypeOK, WaitersJustified, fields, calls
<1>2. CASE HandOff(c, v)
  <2>1. takers' \in Seq(Callers) /\ Head(takers) \in Callers /\ left' \in Seq(Nat)
    BY <1>0, <1>2, HeadTailProperties, AppendProperties DEF HandOff, TypeOK
  <2>2. channel' \in [Callers -> Seq(Nat)]
    <3>1. Append(channel[Head(takers)], v) \in Seq(Nat)
      BY <1>0, <2>1, AppendProperties DEF TypeOK
    <3> QED BY <1>0, <1>2, <3>1 DEF HandOff, TypeOK
  <2> QED BY <1>0, <1>2, <2>1, <2>2 DEF HandOff, QueueInv, TypeOK, WaitersJustified
<1>3. CASE Enqueue(c, v)
  <2>1. items' \in Seq(Nat) /\ Len(items') = Len(items) + 1
    BY <1>0, <1>3, AppendProperties DEF Enqueue, TypeOK
  <2>2. TypeOK'
    BY <1>0, <1>3, <2>1 DEF Enqueue, TypeOK, calls
  <2>3. WaitersJustified'
    <3>1. Len(items) \in Nat /\ capacity \in Nat /\ Len(items') = Len(items) + 1
      BY <1>0, <2>1, LenProperties DEF TypeOK
    <3>2. capacity > 0 => Len(items) < capacity
      BY <3>1, <1>3 DEF Enqueue, HasRoom
    <3>3. takers' = <<>> /\ offerers' = offerers /\ closed' = FALSE
          /\ capacity' = capacity /\ policy' = policy
      BY <1>0, <1>3 DEF Enqueue, TypeOK
    <3>4. offerers = <<>>
      BY <1>0, <3>1, <3>2 DEF WaitersJustified
    <3> QED BY <3>1, <3>2, <3>3, <3>4 DEF WaitersJustified
  <2> QED BY <2>2, <2>3 DEF QueueInv
<1>4. CASE AdmitBackPressure(c, v)
  <2>1. offerers' \in Seq(Callers)
    BY <1>0, <1>4, AppendProperties DEF AdmitBackPressure, TypeOK
  <2>2. TypeOK'
    BY <1>0, <1>4, <2>1 DEF AdmitBackPressure, TypeOK, Waits
  <2>3. WaitersJustified'
    <3>1. Len(items) \in Nat /\ capacity \in Nat
      BY <1>0, LenProperties DEF TypeOK
    <3>2. capacity > 0 /\ ~(Len(items) < capacity)
      BY <3>1, <1>4 DEF AdmitBackPressure, HasRoom
    <3>3. Len(items) = capacity
      BY <1>0, <3>1, <3>2 DEF WaitersJustified
    <3>4. takers' = <<>> /\ closed' = FALSE /\ items' = items
          /\ capacity' = capacity /\ policy' = "BackPressure"
      BY <1>0, <1>4 DEF AdmitBackPressure, TypeOK
    <3> QED BY <3>1, <3>2, <3>3, <3>4 DEF WaitersJustified
  <2> QED BY <2>2, <2>3 DEF QueueInv
<1>5. CASE AdmitDropNewest(c, v)
  BY <1>0, <1>5 DEF AdmitDropNewest, QueueInv, TypeOK, WaitersJustified, fields, calls
<1>6. CASE AdmitDropOldest(c, v)
  <2>1. /\ Len(items) \in Nat /\ capacity \in Nat /\ capacity > 0
        /\ ~(Len(items) < capacity) /\ items \in Seq(Nat)
    BY <1>0, <1>6, LenProperties DEF AdmitDropOldest, HasRoom, TypeOK
  <2>2. items # <<>> /\ Len(items) = capacity
    BY <1>0, <2>1, EmptySeq DEF WaitersJustified
  <2>3. /\ Head(items) \in Nat /\ Tail(items) \in Seq(Nat)
        /\ Len(Tail(items)) = Len(items) - 1
    BY <2>1, <2>2, HeadTailProperties
  <2>4. items' \in Seq(Nat) /\ Len(items') = Len(Tail(items)) + 1 /\ left' \in Seq(Nat)
    BY <1>0, <1>6, <2>3, AppendProperties DEF AdmitDropOldest, TypeOK
  <2>5. Len(items') = capacity
    <3>1. Len(items') = Len(items) - 1 + 1
      BY <2>3, <2>4
    <3> QED BY <2>1, <2>2, <3>1
  <2>6. TypeOK'
    BY <1>0, <1>6, <2>3, <2>4 DEF AdmitDropOldest, TypeOK, calls
  <2>7. WaitersJustified'
    <3>1. takers' = <<>> /\ offerers' = offerers /\ closed' = FALSE
          /\ capacity' = capacity /\ policy' = "DropOldest" /\ policy = "DropOldest"
      BY <1>0, <1>6 DEF AdmitDropOldest, TypeOK
    <3>2. offerers = <<>>
      BY <1>0, <3>1 DEF WaitersJustified
    <3> QED BY <2>1, <2>5, <3>1, <3>2 DEF WaitersJustified
  <2> QED BY <2>6, <2>7 DEF QueueInv
<1> QED BY <1>1, <1>2, <1>3, <1>4, <1>5, <1>6 DEF Offer, v
\* The part of the invariant a dequeue disturbs, whatever else the step does.
LEMMA DequeueInv ==
  ASSUME QueueInv, NEW n \in Nat, n <= Len(Backlog), items = <<>> => n = 0, Dequeue(n),
         capacity' = capacity, policy' = policy, takers' = takers, closed' = closed
  PROVE  /\ WaitersJustified'
         /\ items' \in Seq(Nat) /\ offerers' \in Seq(Callers)
         /\ channel' \in [Callers -> Seq(Nat)] /\ left' \in Seq(Nat)
<1>1. /\ items' \in Seq(Nat) /\ offerers' \in Seq(Callers)
      /\ channel' \in [Callers -> Seq(Nat)] /\ left' \in Seq(Nat)
      /\ Len(items') <= Len(items)
      /\ offerers' # <<>> => Len(items') = Len(items) /\ offerers # <<>>
  BY DequeueEffect DEF QueueInv
<1>2. Len(items) \in Nat /\ Len(items') \in Nat /\ capacity \in Nat
      /\ Len(items') <= Len(items)
  BY <1>1, LenProperties DEF QueueInv, TypeOK
<1>3. takers' # <<>> => items' = <<>>
  <2>1. SUFFICES ASSUME takers # <<>> PROVE items' = <<>>
    OBVIOUS
  <2>2. Len(items) = 0
    BY <2>1, EmptySeq DEF QueueInv, WaitersJustified
  <2>3. Len(items') = 0
    BY <1>2, <2>2
  <2> QED BY <1>1, <2>3, EmptySeq
<1>4. offerers' # <<>> => capacity' > 0 /\ Len(items') = capacity' /\ policy' = "BackPressure"
  BY <1>1 DEF QueueInv, WaitersJustified
<1>5. closed' => takers' = <<>> /\ offerers' = <<>>
  BY <1>1 DEF QueueInv, WaitersJustified
<1>6. capacity' > 0 => Len(items') <= capacity'
  <2>1. capacity > 0 => Len(items) <= capacity
    BY DEF QueueInv, WaitersJustified
  <2> QED BY <1>2, <2>1
<1> QED BY <1>1, <1>3, <1>4, <1>5, <1>6 DEF WaitersJustified

LEMMA ReturnType ==
  ASSUME TypeOK, NEW c \in Callers, Return(c)
  PROVE  /\ pc' \in [Callers -> Waits \cup {"idle", "drain", "shutdown"}]
         /\ value' \in [Callers -> Nat] /\ limit' \in [Callers -> Nat]
         /\ batch' \in [Callers -> Seq(Nat)] /\ cancelled' \in [Callers -> BOOLEAN]
<1>1. <<>> \in Seq(Nat)
  BY EmptySeq
<1> QED BY <1>1 DEF TypeOK, Return

LEMMA ObtainType ==
  ASSUME TypeOK, NEW c \in Callers, NEW v \in Nat, NEW lim \in Nat, Obtain(c, v, lim)
  PROVE  /\ pc' \in [Callers -> Waits \cup {"idle", "drain", "shutdown"}]
         /\ value' \in [Callers -> Nat] /\ limit' \in [Callers -> Nat]
         /\ batch' \in [Callers -> Seq(Nat)] /\ cancelled' \in [Callers -> BOOLEAN]
         /\ got' \in [Callers -> Seq(Nat)]
<1>1. <<v>> \in Seq(Nat) /\ Append(got[c], v) \in Seq(Nat)
  BY AppendProperties DEF TypeOK
<1>2. CASE lim = 0
  BY <1>1, <1>2, ReturnType DEF Obtain, TypeOK
<1>3. CASE lim # 0
  BY <1>1, <1>3 DEF Obtain, TypeOK
<1> QED BY <1>2, <1>3

LEMMA TakeInv ==
  ASSUME QueueInv, NEW c \in Callers, NEW lim \in Nat, TakeOrPark(c, lim)
  PROVE  QueueInv'
<1>0. TypeOK /\ WaitersJustified
  BY DEF QueueInv
<1>1. CASE TakeQueued(c, lim)
  <2>1. items # <<>> /\ Dequeue(1) /\ Obtain(c, Head(items), lim)
    BY <1>1 DEF TakeQueued
  <2>2. items \in Seq(Nat) /\ Len(items) \in Nat \ {0} /\ Head(items) \in Nat
    BY <1>0, <2>1, EmptySeq, HeadTailProperties DEF TypeOK
  <2>3. 1 <= Len(Backlog)
    <3>1. Len(offerers) \in Nat /\ Len(Backlog) = Len(items) + Len(offerers)
      BY <1>0, BacklogType, LenProperties DEF TypeOK
    <3> QED BY <2>2, <3>1
  <2>4. capacity' = capacity /\ policy' = policy /\ takers' = takers /\ closed' = closed
    BY <1>1 DEF TakeQueued
  <2>5. /\ WaitersJustified'
        /\ items' \in Seq(Nat) /\ offerers' \in Seq(Callers)
        /\ channel' \in [Callers -> Seq(Nat)] /\ left' \in Seq(Nat)
    BY <2>1, <2>3, <2>4, DequeueInv
  <2>6. TypeOK'
    BY <1>0, <1>1, <2>1, <2>2, <2>5, ObtainType DEF TakeQueued, TypeOK
  <2> QED BY <2>5, <2>6 DEF QueueInv
<1>2. CASE TakeFinished(c, lim)
  BY <1>0, <1>2 DEF TakeFinished, QueueInv, TypeOK, WaitersJustified, fields, calls
<1>3. CASE TakePark(c, lim)
  <2>1. takers' \in Seq(Callers)
    BY <1>0, <1>3, AppendProperties DEF TakePark, TypeOK
  <2>2. TypeOK'
    BY <1>0, <1>3, <2>1 DEF TakePark, TypeOK, Waits, history
  <2>3. WaitersJustified'
    BY <1>0, <1>3 DEF TakePark, WaitersJustified, history
  <2> QED BY <2>2, <2>3 DEF QueueInv
<1> QED BY <1>1, <1>2, <1>3 DEF TakeOrPark
\* A step that moves n values into the hands of c in one critical section.
LEMMA BatchStep ==
  ASSUME QueueInv, NEW c \in Callers, NEW n \in Nat, n <= Len(Backlog),
         items = <<>> => n = 0, Dequeue(n),
         NEW b \in Seq(Nat), got' = [got EXCEPT ![c] = @ \o b \o SubSeq(Backlog, 1, n)],
         pc' \in [Callers -> Waits \cup {"idle", "drain", "shutdown"}],
         value' \in [Callers -> Nat], limit' \in [Callers -> Nat],
         batch' \in [Callers -> Seq(Nat)], cancelled' \in [Callers -> BOOLEAN],
         UNCHANGED <<capacity, policy, takers, closed, detached, offered, dropped,
                     accepted, rejected, finished>>
  PROVE  QueueInv'
<1>0. TypeOK /\ WaitersJustified
  BY DEF QueueInv
<1>1. SubSeq(Backlog, 1, n) \in Seq(Nat)
  BY <1>0, BacklogType, SubSeqFacts
<1>2. got[c] \o b \o SubSeq(Backlog, 1, n) \in Seq(Nat)
  <2>1. got[c] \in Seq(Nat)
    BY <1>0 DEF TypeOK
  <2>2. got[c] \o b \in Seq(Nat)
    BY <2>1, ConcatType
  <2> QED BY <1>1, <2>2, ConcatType
<1>3. got' \in [Callers -> Seq(Nat)]
  BY <1>0, <1>2 DEF TypeOK
<1>4. /\ WaitersJustified'
      /\ items' \in Seq(Nat) /\ offerers' \in Seq(Callers)
      /\ channel' \in [Callers -> Seq(Nat)] /\ left' \in Seq(Nat)
  BY DequeueInv
<1>5. TypeOK'
  BY <1>0, <1>3, <1>4 DEF TypeOK
<1> QED BY <1>4, <1>5 DEF QueueInv

LEMMA DrainInv ==
  ASSUME QueueInv, NEW c \in Callers, DrainUpTo(c)
  PROVE  QueueInv'
<1> DEFINE n == Available(limit[c], Len(batch[c]))
<1>1. TypeOK /\ batch[c] \in Seq(Nat) /\ limit[c] \in Nat /\ Len(batch[c]) \in Nat
  BY LenProperties DEF QueueInv, TypeOK
<1>2. n \in Nat /\ n <= Len(Backlog) /\ (items = <<>> => n = 0)
  BY <1>1, AvailableBounds
<1>3. /\ Dequeue(n) /\ got' = [got EXCEPT ![c] = @ \o batch[c] \o SubSeq(Backlog, 1, n)]
      /\ UNCHANGED <<capacity, policy, takers, closed, detached, offered, dropped,
                     accepted, rejected, finished>>
      /\ Return(c)
  BY DEF DrainUpTo
<1> HIDE DEF n
<1>4. /\ pc' \in [Callers -> Waits \cup {"idle", "drain", "shutdown"}]
      /\ value' \in [Callers -> Nat] /\ limit' \in [Callers -> Nat]
      /\ batch' \in [Callers -> Seq(Nat)] /\ cancelled' \in [Callers -> BOOLEAN]
  BY <1>1, <1>3, ReturnType
<1> QED BY <1>1, <1>2, <1>3, <1>4, BatchStep

LEMMA TakeAvailableInv ==
  ASSUME QueueInv, NEW c \in Callers, NEW lim \in Nat, TakeAvailable(c, lim)
  PROVE  QueueInv'
<1> DEFINE n == Available(lim, 0)
<1>1. TypeOK /\ got[c] \in Seq(Nat) /\ <<>> \in Seq(Nat)
  BY EmptySeq DEF QueueInv, TypeOK
<1>2. n \in Nat /\ n <= Len(Backlog) /\ (items = <<>> => n = 0)
  BY <1>1, AvailableBounds
<1>3. /\ Dequeue(n) /\ got' = [got EXCEPT ![c] = @ \o SubSeq(Backlog, 1, n)]
      /\ UNCHANGED <<capacity, policy, takers, closed, pc, value, limit, batch, cancelled,
                     detached, offered, dropped, accepted, rejected, finished>>
  BY DEF TakeAvailable
<1>4. got[c] \o <<>> = got[c]
  BY <1>1, ConcatEmptySeq
<1>5. got' = [got EXCEPT ![c] = @ \o <<>> \o SubSeq(Backlog, 1, n)]
  BY <1>3, <1>4
<1> HIDE DEF n
<1>6. /\ pc' \in [Callers -> Waits \cup {"idle", "drain", "shutdown"}]
      /\ value' \in [Callers -> Nat] /\ limit' \in [Callers -> Nat]
      /\ batch' \in [Callers -> Seq(Nat)] /\ cancelled' \in [Callers -> BOOLEAN]
  BY <1>1, <1>3 DEF TypeOK
<1> QED BY <1>1, <1>2, <1>3, <1>5, <1>6, BatchStep

LEMMA TakeUpToInv ==
  ASSUME QueueInv, NEW c \in Callers, NEW lim \in Nat, TakeUpTo(c, lim)
  PROVE  QueueInv'
<1>1. CASE lim >= 1
  BY <1>1, TakeInv DEF TakeUpTo
<1>2. CASE ~(lim >= 1)
  <2>1. UNCHANGED vars
    BY <1>2 DEF TakeUpTo
  <2>2. TypeOK'
    BY <2>1 DEF QueueInv, TypeOK, vars, fields, calls, history
  <2>3. WaitersJustified'
    BY <2>1 DEF QueueInv, WaitersJustified, vars, fields
  <2> QED BY <2>2, <2>3 DEF QueueInv
<1> QED BY <1>1, <1>2

LEMMA ReceiveRoomInv ==
  ASSUME QueueInv, NEW c \in Callers, ReceiveRoom(c)
  PROVE  QueueInv'
<1>1. /\ pc' \in [Callers -> Waits \cup {"idle", "drain", "shutdown"}]
      /\ value' \in [Callers -> Nat] /\ limit' \in [Callers -> Nat]
      /\ batch' \in [Callers -> Seq(Nat)] /\ cancelled' \in [Callers -> BOOLEAN]
  BY ReturnType DEF QueueInv, ReceiveRoom
<1>2. TypeOK'
  <2>1. channel' \in [Callers -> Seq(Nat)]
    <3>1. <<>> \in Seq(Nat) /\ channel \in [Callers -> Seq(Nat)]
      BY EmptySeq DEF QueueInv, TypeOK
    <3> QED BY <3>1 DEF ReceiveRoom
  <2>2. accepted' \subseteq Nat /\ rejected' \subseteq Nat
    <3>1. value[c] \in Nat /\ accepted \subseteq Nat /\ rejected \subseteq Nat
      BY DEF QueueInv, TypeOK
    <3>2. /\ accepted' = accepted \/ accepted' = accepted \cup {value[c]}
          /\ rejected' = rejected \/ rejected' = rejected \cup {value[c]}
      BY DEF ReceiveRoom
    <3> QED BY <3>1, <3>2
  <2> QED BY <1>1, <2>1, <2>2 DEF QueueInv, ReceiveRoom, TypeOK, fields
<1>3. WaitersJustified'
  BY DEF QueueInv, ReceiveRoom, WaitersJustified, fields
<1> QED BY <1>2, <1>3 DEF QueueInv

LEMMA AbandonOffererInv ==
  ASSUME QueueInv, NEW c \in Callers, AbandonOfferer(c)
  PROVE  QueueInv'
<1>0. TypeOK /\ WaitersJustified
  BY DEF QueueInv
<1>1. ASSUME NEW i \in DOMAIN offerers, offerers' = RemoveAt(offerers, i), Return(c),
             rejected' = rejected \cup {value[c]}
      PROVE  QueueInv'
  <2>1. offerers' \in Seq(Callers) /\ offerers # <<>>
    BY <1>0, <1>1, RemoveAtType, EmptySeq DEF TypeOK
  <2>2. TypeOK'
    BY <1>0, <1>1, <2>1, ReturnType DEF AbandonOfferer, TypeOK
  <2>3. WaitersJustified'
    BY <1>0, <2>1 DEF AbandonOfferer, WaitersJustified
  <2> QED BY <2>2, <2>3 DEF QueueInv
<1>2. ASSUME pc' = [pc EXCEPT ![c] = "lateRoom"],
             UNCHANGED <<offerers, rejected, value, limit, batch, cancelled>>
      PROVE  QueueInv'
  <2>1. TypeOK'
    BY <1>0, <1>2 DEF AbandonOfferer, TypeOK, Waits
  <2>2. WaitersJustified'
    BY <1>0, <1>2 DEF AbandonOfferer, WaitersJustified
  <2> QED BY <2>1, <2>2 DEF QueueInv
<1> QED BY <1>1, <1>2 DEF AbandonOfferer

LEMMA ReceiveValueInv ==
  ASSUME QueueInv, NEW c \in Callers, ReceiveValue(c)
  PROVE  QueueInv'
<1>0. TypeOK /\ WaitersJustified
  BY DEF QueueInv
<1>1. /\ <<>> \in Seq(Nat) /\ channel[c] \in Seq(Nat) /\ limit[c] \in Nat
      /\ channel[c] # <<>>
  BY <1>0, EmptySeq DEF TypeOK, ReceiveValue
<1>2. Head(channel[c]) \in Nat
  BY <1>1, HeadTailProperties
<1>3. channel' \in [Callers -> Seq(Nat)]
  BY <1>0, <1>1 DEF ReceiveValue, TypeOK
<1>4. TypeOK'
  <2>1. CASE Head(channel[c]) = Closed
    BY <1>0, <1>3, <2>1, ReturnType DEF ReceiveValue, TypeOK, fields
  <2>2. CASE Head(channel[c]) # Closed
    BY <1>0, <1>1, <1>2, <1>3, <2>2, ObtainType DEF ReceiveValue, TypeOK, fields
  <2> QED BY <2>1, <2>2
<1>5. WaitersJustified'
  BY <1>0 DEF ReceiveValue, WaitersJustified, fields
<1> QED BY <1>4, <1>5 DEF QueueInv

LEMMA AbandonTakerInv ==
  ASSUME QueueInv, NEW c \in Callers, AbandonTaker(c)
  PROVE  QueueInv'
<1>0. TypeOK /\ WaitersJustified
  BY DEF QueueInv
<1>1. ASSUME NEW i \in DOMAIN takers, takers' = RemoveAt(takers, i), Return(c)
      PROVE  QueueInv'
  <2>1. takers' \in Seq(Callers) /\ takers # <<>>
    BY <1>0, <1>1, RemoveAtType, EmptySeq DEF TypeOK
  <2>2. TypeOK'
    BY <1>0, <1>1, <2>1, ReturnType DEF AbandonTaker, TypeOK, history
  <2>3. WaitersJustified'
    BY <1>0, <2>1 DEF AbandonTaker, WaitersJustified
  <2> QED BY <2>2, <2>3 DEF QueueInv
<1>2. ASSUME pc' = [pc EXCEPT ![c] = "lateValue"],
             UNCHANGED <<takers, value, limit, batch, cancelled>>
      PROVE  QueueInv'
  <2>1. TypeOK'
    BY <1>0, <1>2 DEF AbandonTaker, TypeOK, Waits, history
  <2>2. WaitersJustified'
    BY <1>0, <1>2 DEF AbandonTaker, WaitersJustified
  <2> QED BY <2>1, <2>2 DEF QueueInv
<1> QED BY <1>1, <1>2 DEF AbandonTaker

LEMMA ControlInv ==
  ASSUME QueueInv, NEW c \in Callers,
         Cancel(c) \/ ObserveCancel(c) \/ Shutdown(c) \/ CloseWaiters(c)
  PROVE  QueueInv'
<1>0. TypeOK /\ WaitersJustified
  BY DEF QueueInv
<1>1. CASE Cancel(c)
  BY <1>0, <1>1 DEF Cancel, QueueInv, TypeOK, WaitersJustified, fields, history
<1>2. CASE ObserveCancel(c)
  BY <1>0, <1>2 DEF ObserveCancel, QueueInv, TypeOK, WaitersJustified, Waits, fields, history
<1>3. CASE Shutdown(c)
  <2>1. detached' \in Seq(Callers) /\ takers' \in Seq(Callers) /\ offerers' \in Seq(Callers)
    BY <1>0, <1>3, ConcatType, EmptySeq DEF Shutdown, TypeOK
  <2>2. TypeOK'
    BY <1>0, <1>3, <2>1 DEF Shutdown, TypeOK, history
  <2>3. WaitersJustified'
    BY <1>0, <1>3 DEF Shutdown, WaitersJustified
  <2> QED BY <2>2, <2>3 DEF QueueInv
<1>4. CASE CloseWaiters(c)
  <2>1. detached' \in Seq(Callers) /\ channel' \in [Callers -> Seq(Nat)]
        /\ pc' \in [Callers -> Waits \cup {"idle", "drain", "shutdown"}]
    <3>1. CASE detached = <<>>
      BY <1>0, <1>4, <3>1 DEF CloseWaiters, TypeOK
    <3>2. CASE detached # <<>>
      <4>1. Head(detached) \in Callers /\ Tail(detached) \in Seq(Callers)
        BY <1>0, <3>2, HeadTailProperties DEF TypeOK
      <4>2. Append(channel[Head(detached)], Closed) \in Seq(Nat)
        BY <1>0, <4>1, AppendProperties DEF Closed, TypeOK
      <4> QED BY <1>0, <1>4, <3>2, <4>1, <4>2 DEF CloseWaiters, TypeOK
    <3> QED BY <3>1, <3>2
  <2>2. TypeOK'
    BY <1>0, <1>4, <2>1 DEF CloseWaiters, TypeOK, fields, history
  <2>3. WaitersJustified'
    BY <1>0, <1>4 DEF CloseWaiters, WaitersJustified, fields
  <2> QED BY <2>2, <2>3 DEF QueueInv
<1> QED BY <1>1, <1>2, <1>3, <1>4

LEMMA StutterInv == QueueInv /\ UNCHANGED vars => QueueInv'
  BY DEF QueueInv, TypeOK, WaitersJustified, vars, fields, calls, history

LEMMA NextInv == QueueInv /\ [Next]_vars => QueueInv'
<1> SUFFICES ASSUME QueueInv, [Next]_vars PROVE QueueInv'
  OBVIOUS
<1>1. CASE UNCHANGED vars
  BY <1>1, StutterInv
<1>2. ASSUME NEW c \in Callers, Proceed(c) PROVE QueueInv'
  BY <1>2, ReceiveRoomInv, AbandonOffererInv, ReceiveValueInv, AbandonTakerInv, DrainInv,
     ControlInv DEF Proceed
<1>3. ASSUME NEW c \in Callers, Call(c) PROVE QueueInv'
  <2>1. \A lim \in Limits : lim \in Nat
    BY QueueConstants
  <2> QED BY <1>3, <2>1, OfferInv, TakeInv, TakeUpToInv, TakeAvailableInv, ControlInv
          DEF Call, Take
<1> QED BY <1>1, <1>2, <1>3 DEF Next

\* The record types of every variable are preserved by every operation, and
\* whoever waits on the queue has a reason to.
THEOREM QueueTypes == Spec => []TypeOK
<1>1. QueueInv => TypeOK
  BY DEF QueueInv
<1> QED BY <1>1, InitInv, NextInv, PTL DEF Spec

\* For any number of callers, any capacities and any number of offers: a taker
\* waits only on an empty queue, an offerer only on a full one under back
\* pressure, nobody on a queue that is shut down, and a bounded queue never
\* exceeds its capacity.
THEOREM QueueWaiters == Spec => []WaitersJustified
<1>1. QueueInv => WaitersJustified
  BY DEF QueueInv
<1> QED BY <1>1, InitInv, NextInv, PTL DEF Spec
----------------------------------------------------------------------------
(* The accounting.  Line is every value that entered or may still enter, in  *)
(* the order of arrival: only an offer lengthens it, and only an offerer's   *)
(* withdrawal or a shutdown takes something out.                             *)

RoomWaits  == {"awaitRoom", "abandonOfferer", "lateRoom"}
ValueWaits == {"awaitValue", "abandonTaker", "lateValue"}

Line == left \o Backlog

LineInv == Increasing(Line) /\ ToSet(Line) \subseteq 1..offered

\* Who is on a list waits, on the side the list is for, and has no message yet.
ListsInv ==
  /\ NoRepeats(takers) /\ NoRepeats(detached)
  /\ \A i \in 1..Len(takers) : pc[takers[i]] \in ValueWaits /\ channel[takers[i]] = <<>>
  /\ \A i \in 1..Len(offerers) : pc[offerers[i]] \in RoomWaits /\ channel[offerers[i]] = <<>>
  /\ \A i \in 1..Len(detached) :
        /\ pc[detached[i]] \in Waits /\ channel[detached[i]] = <<>>
        /\ closed
        /\ pc[detached[i]] \in ValueWaits => items = <<>>

RoomState(c) ==
  \/ /\ channel[c] = <<>>
     /\ \/ \E i \in 1..Len(offerers) : offerers[i] = c
        \/ closed /\ value[c] \notin ToSet(Line)
  \/ channel[c] = <<value[c]>> /\ value[c] \in Entered
  \/ channel[c] = <<Closed>> /\ closed /\ value[c] \notin ToSet(Line)

ValueState(c) ==
  \/ channel[c] = <<>>
  \/ channel[c] = <<Closed>> /\ closed /\ items = <<>>
  \/ \E v \in 1..offered : channel[c] = <<v>>

\* What a caller's channel and batch can hold, by where it is in its call.
CallInv(c) ==
  /\ pc[c] \notin Waits => channel[c] = <<>>
  /\ pc[c] # "drain" => batch[c] = <<>>
  /\ pc[c] \in RoomWaits => value[c] \in 1..offered /\ RoomState(c)
  /\ pc[c] \in ValueWaits => ValueState(c)

CallsInv == \A c \in Callers : CallInv(c)

AnswersInv ==
  /\ accepted \subseteq Entered
  /\ rejected \subseteq 1..offered /\ rejected \cap ToSet(Line) = {}

HeldInv == NothingLost /\ ConsumerOrder /\ dropped \subseteq ToSet(left)

AccountInv ==
  /\ QueueInv
  /\ LineInv /\ ListsInv /\ CallsInv /\ AnswersInv /\ HeldInv /\ FinishedMeansDrained
----------------------------------------------------------------------------
(* Increasing sequences of naturals *)

LEMMA IncreasingDef ==
  ASSUME NEW s \in Seq(Nat)
  PROVE  Increasing(s) <=> \A i, j \in 1..Len(s) : i < j => s[i] < s[j]
<1>1. DOMAIN s = 1..Len(s)
  BY LenProperties
<1> QED BY <1>1 DEF Increasing

\* A concatenation increases when its parts do and the second lies above the first.
LEMMA IncreasingConcat ==
  ASSUME NEW s \in Seq(Nat), NEW t \in Seq(Nat)
  PROVE  Increasing(s \o t) <=> /\ Increasing(s) /\ Increasing(t)
                                /\ \A x \in ToSet(s), y \in ToSet(t) : x < y
<1> DEFINE u == s \o t
<1>1. /\ u \in Seq(Nat) /\ Len(u) = Len(s) + Len(t) /\ Len(s) \in Nat /\ Len(t) \in Nat
      /\ \A i \in 1..Len(s) + Len(t) : u[i] = IF i <= Len(s) THEN s[i] ELSE t[i - Len(s)]
  BY ConcatProperties, LenProperties
<1> HIDE DEF u
<1>2. ToSet(s) = {s[i] : i \in 1..Len(s)} /\ ToSet(t) = {t[i] : i \in 1..Len(t)}
  BY ToSetFacts
<1>3. \A i \in 1..Len(s) : i \in 1..Len(u) /\ u[i] = s[i]
  BY <1>1
<1>4. \A i \in 1..Len(t) : Len(s) + i \in 1..Len(u) /\ u[Len(s) + i] = t[i]
  <2> SUFFICES ASSUME NEW i \in 1..Len(t)
               PROVE  Len(s) + i \in 1..Len(u) /\ u[Len(s) + i] = t[i]
    OBVIOUS
  <2> DEFINE k == Len(s) + i
  <2>1. k \in 1..Len(u) /\ ~(k <= Len(s)) /\ k - Len(s) = i
    BY <1>1
  <2> HIDE DEF k
  <2>2. u[k] = t[i]
    BY <1>1, <2>1
  <2> QED BY <2>1, <2>2 DEF k
<1>5. ASSUME Increasing(u)
      PROVE  Increasing(s) /\ Increasing(t) /\ \A x \in ToSet(s), y \in ToSet(t) : x < y
  <2>1. \A i, j \in 1..Len(u) : i < j => u[i] < u[j]
    BY <1>1, <1>5, IncreasingDef
  <2>2. \A i, j \in 1..Len(s) : i < j => s[i] < s[j]
    BY <1>3, <2>1
  <2>3. ASSUME NEW i \in 1..Len(t), NEW j \in 1..Len(t), i < j PROVE t[i] < t[j]
    <3>1. Len(s) + i < Len(s) + j
      BY <1>1, <2>3
    <3> QED BY <1>4, <2>1, <3>1
  <2>4. ASSUME NEW i \in 1..Len(s), NEW j \in 1..Len(t) PROVE s[i] < t[j]
    <3>1. i < Len(s) + j
      BY <1>1
    <3> QED BY <1>3, <1>4, <2>1, <3>1
  <2>5. Increasing(s) /\ Increasing(t)
    BY <2>2, <2>3, IncreasingDef
  <2> QED BY <1>2, <2>4, <2>5
<1>6. ASSUME Increasing(s), Increasing(t), \A x \in ToSet(s), y \in ToSet(t) : x < y
      PROVE  Increasing(u)
  <2>1. \A i, j \in 1..Len(s) : i < j => s[i] < s[j]
    BY <1>6, IncreasingDef
  <2>2. \A i, j \in 1..Len(t) : i < j => t[i] < t[j]
    BY <1>6, IncreasingDef
  <2>3. \A i \in 1..Len(s), j \in 1..Len(t) : s[i] < t[j]
    BY <1>2, <1>6
  <2>4. ASSUME NEW i \in 1..Len(u), NEW j \in 1..Len(u), i < j PROVE u[i] < u[j]
    <3>1. CASE j <= Len(s)
      <4>1. i \in 1..Len(s) /\ j \in 1..Len(s) /\ u[i] = s[i] /\ u[j] = s[j]
        BY <1>1, <2>4, <3>1
      <4> QED BY <2>1, <2>4, <4>1
    <3>2. CASE ~(j <= Len(s)) /\ i <= Len(s)
      <4>1. i \in 1..Len(s) /\ j - Len(s) \in 1..Len(t) /\ u[i] = s[i] /\ u[j] = t[j - Len(s)]
        BY <1>1, <2>4, <3>2
      <4> QED BY <2>3, <4>1
    <3>3. CASE ~(j <= Len(s)) /\ ~(i <= Len(s))
      <4>1. /\ i - Len(s) \in 1..Len(t) /\ j - Len(s) \in 1..Len(t)
            /\ i - Len(s) < j - Len(s)
        BY <1>1, <2>4, <3>3
      <4>2. u[i] = t[i - Len(s)]
        BY <1>1, <3>3
      <4>3. u[j] = t[j - Len(s)]
        BY <1>1, <3>3
      <4> QED BY <2>2, <4>1, <4>2, <4>3
    <3> QED BY <3>1, <3>2, <3>3
  <2> QED BY <1>1, <2>4, IncreasingDef
<1>7. Increasing(u) <=> /\ Increasing(s) /\ Increasing(t)
                        /\ \A x \in ToSet(s), y \in ToSet(t) : x < y
  BY <1>5, <1>6
<1> QED BY <1>7 DEF u

LEMMA IncreasingOne ==
  ASSUME NEW v \in Nat
  PROVE  <<v>> \in Seq(Nat) /\ Increasing(<<v>>) /\ ToSet(<<v>>) = {v}
<1>1. <<v>> \in Seq(Nat) /\ ToSet(<<v>>) = {v} /\ Len(<<v>>) = 1
  BY ToSetOne
<1> DEFINE s == <<v>>
<1>2. s \in Seq(Nat) /\ Len(s) = 1
  BY <1>1
<1> HIDE DEF s
<1>3. \A i, j \in 1..Len(s) : ~(i < j)
  BY <1>2
<1>4. Increasing(s)
  BY <1>2, <1>3, IncreasingDef
<1> QED BY <1>1, <1>4 DEF s

LEMMA IncreasingAppend ==
  ASSUME NEW s \in Seq(Nat), NEW v \in Nat, Increasing(s), \A x \in ToSet(s) : x < v
  PROVE  Increasing(Append(s, v)) /\ Append(s, v) \in Seq(Nat)
         /\ ToSet(Append(s, v)) = ToSet(s) \cup {v}
<1> DEFINE t == <<v>>
<1>1. t \in Seq(Nat) /\ Increasing(t) /\ ToSet(t) = {v}
  BY IncreasingOne
<1>2. Append(s, v) = s \o t
  BY AppendIsConcat
<1> HIDE DEF t
<1>3. Increasing(s \o t)
  BY <1>1, IncreasingConcat
<1>4. s \o t \in Seq(Nat) /\ ToSet(s \o t) = ToSet(s) \cup ToSet(t)
  BY <1>1, ConcatType, ToSetConcat
<1> QED BY <1>1, <1>2, <1>3, <1>4

\* Each value stands in one place only, so that removing the place removes it.
LEMMA IncreasingRemove ==
  ASSUME NEW s \in Seq(Nat), NEW i \in 1..Len(s), Increasing(s)
  PROVE  Increasing(RemoveAt(s, i)) /\ ToSet(RemoveAt(s, i)) = ToSet(s) \ {s[i]}
<1> DEFINE r == RemoveAt(s, i)
<1>1. /\ r \in Seq(Nat) /\ Len(r) = Len(s) - 1
      /\ \A j \in 1..Len(s) - 1 : r[j] = IF j < i THEN s[j] ELSE s[j + 1]
  BY RemoveAtFacts
<1> HIDE DEF r
<1>2. Len(s) \in Nat /\ i \in Nat /\ (\A j \in 1..Len(s) : s[j] \in Nat)
  BY LenProperties, ElementOfSeq
<1>3. \A j, k \in 1..Len(s) : j < k => s[j] < s[k]
  BY IncreasingDef
<1>4. ASSUME NEW j \in 1..Len(r)
      PROVE  \E p \in 1..Len(s) : p # i /\ r[j] = s[p] /\ (p = IF j < i THEN j ELSE j + 1)
  <2>1. CASE j < i
    BY <1>1, <1>2, <2>1
  <2>2. CASE ~(j < i)
    <3>1. j + 1 \in 1..Len(s) /\ j + 1 # i /\ r[j] = s[j + 1]
      BY <1>1, <1>2, <2>2
    <3> QED BY <2>2, <3>1
  <2> QED BY <2>1, <2>2
<1>5. ASSUME NEW j \in 1..Len(r), NEW k \in 1..Len(r), j < k PROVE r[j] < r[k]
  <2>1. PICK p \in 1..Len(s) : r[j] = s[p] /\ (p = IF j < i THEN j ELSE j + 1)
    BY <1>4
  <2>2. PICK q \in 1..Len(s) : r[k] = s[q] /\ (q = IF k < i THEN k ELSE k + 1)
    BY <1>4
  <2>3. p < q
    <3>1. j \in Nat /\ k \in Nat /\ i \in Nat
      BY <1>1, <1>2
    <3>2. (p = IF j < i THEN j ELSE j + 1) /\ (q = IF k < i THEN k ELSE k + 1)
      BY <2>1, <2>2
    <3>3. p = j \/ p = j + 1
      BY <3>2
    <3> QED BY <1>5, <3>1, <3>2, <3>3
  <2> QED BY <1>3, <2>1, <2>2, <2>3
<1>6. ToSet(r) = {r[j] : j \in 1..Len(r)} /\ ToSet(s) = {s[j] : j \in 1..Len(s)}
  BY <1>1, ToSetFacts
<1>7. \A p \in 1..Len(s) : p # i => s[p] # s[i]
  BY <1>2, <1>3
<1>8. \A j \in 1..Len(r) : r[j] \in ToSet(s) \ {s[i]}
  BY <1>4, <1>6, <1>7
<1>9. ASSUME NEW p \in 1..Len(s), s[p] # s[i] PROVE s[p] \in ToSet(r)
  <2>1. CASE p < i
    <3>1. p \in 1..Len(r) /\ p \in 1..Len(s) - 1
      BY <1>1, <1>2, <2>1
    <3>2. r[p] = s[p]
      BY <1>1, <2>1, <3>1
    <3> QED BY <1>6, <3>1, <3>2
  <2>2. CASE ~(p < i)
    <3> DEFINE j == p - 1
    <3>1. j \in 1..Len(r) /\ j \in 1..Len(s) - 1 /\ ~(j < i) /\ j + 1 = p
      BY <1>1, <1>2, <1>9, <2>2
    <3> HIDE DEF j
    <3>2. r[j] = s[p]
      BY <1>1, <3>1
    <3> QED BY <1>6, <3>1, <3>2
  <2> QED BY <2>1, <2>2
<1>10. ToSet(r) = ToSet(s) \ {s[i]}
  BY <1>6, <1>8, <1>9
<1>11. Increasing(r)
  BY <1>1, <1>5, IncreasingDef
<1> QED BY <1>10, <1>11 DEF r

\* Concatenation, for lines of values.
LEMMA LineConcat ==
  ASSUME NEW s \in Seq(Nat), NEW t \in Seq(Nat), NEW u \in Seq(Nat)
  PROVE  (s \o t) \o u = s \o (t \o u)
  BY ConcatAssociative

LEMMA LineAppendBehind ==
  ASSUME NEW s \in Seq(Nat), NEW t \in Seq(Nat), NEW x \in Nat
  PROVE  s \o Append(t, x) = Append(s \o t, x)
  BY AppendBehind

\* Removal behind a prefix is removal from the whole.
LEMMA RemoveBehind ==
  ASSUME NEW S, NEW s \in Seq(S), NEW t \in Seq(S), NEW i \in 1..Len(t)
  PROVE  /\ s \o RemoveAt(t, i) = RemoveAt(s \o t, Len(s) + i)
         /\ Len(s) + i \in 1..Len(s \o t) /\ (s \o t)[Len(s) + i] = t[i]
<1> DEFINE u == s \o t
           k == Len(s) + i
           r == RemoveAt(t, i)
           w == s \o r
           x == RemoveAt(u, k)
<1>1. /\ u \in Seq(S) /\ Len(u) = Len(s) + Len(t) /\ Len(s) \in Nat /\ Len(t) \in Nat
      /\ \A j \in 1..Len(s) + Len(t) : u[j] = IF j <= Len(s) THEN s[j] ELSE t[j - Len(s)]
  BY ConcatProperties, LenProperties
<1>2. k \in 1..Len(u) /\ k - Len(s) = i /\ ~(k <= Len(s)) /\ k \in Nat /\ k = Len(s) + i
  <2> HIDE DEF u
  <2> QED BY <1>1
<1>3. /\ r \in Seq(S) /\ Len(r) = Len(t) - 1
      /\ \A j \in 1..Len(t) - 1 : r[j] = IF j < i THEN t[j] ELSE t[j + 1]
  BY RemoveAtFacts
<1> HIDE DEF u, k, r
<1>4. u[k] = t[i]
  BY <1>1, <1>2
<1>5. /\ x \in Seq(S) /\ Len(x) = Len(u) - 1
      /\ \A j \in 1..Len(u) - 1 : x[j] = IF j < k THEN u[j] ELSE u[j + 1]
  BY <1>1, <1>2, RemoveAtFacts
<1>6. /\ w \in Seq(S) /\ Len(w) = Len(s) + Len(r)
      /\ \A j \in 1..Len(s) + Len(r) : w[j] = IF j <= Len(s) THEN s[j] ELSE r[j - Len(s)]
  BY <1>3, ConcatProperties
<1> HIDE DEF w, x
<1>7. Len(w) = Len(x)
  BY <1>1, <1>3, <1>5, <1>6
<1>8. ASSUME NEW j \in 1..Len(w) PROVE w[j] = x[j]
  <2>0. j \in 1..Len(u) - 1 /\ j \in 1..Len(s) + Len(r) /\ j \in Nat /\ j \in 1..Len(s) + Len(t)
    BY <1>1, <1>3, <1>5, <1>6
  <2>1. CASE j <= Len(s)
    <3>1. w[j] = s[j] /\ u[j] = s[j]
      BY <1>1, <1>6, <2>0, <2>1
    <3>2. j < k
      BY <1>1, <1>2, <2>0, <2>1
    <3> QED BY <1>5, <2>0, <3>1, <3>2
  <2>2. CASE ~(j <= Len(s)) /\ j < k
    <3> DEFINE m == j - Len(s)
    <3>1. m \in 1..Len(t) - 1 /\ m < i
      BY <1>1, <1>2, <1>3, <2>0, <2>2
    <3>2. w[j] = r[m] /\ u[j] = t[m]
      BY <1>1, <1>6, <2>0, <2>2
    <3> HIDE DEF m
    <3>3. r[m] = t[m]
      BY <1>3, <3>1
    <3> QED BY <1>5, <2>0, <2>2, <3>2, <3>3
  <2>3. CASE ~(j <= Len(s)) /\ ~(j < k)
    <3> DEFINE m == j - Len(s)
    <3>1. m \in 1..Len(t) - 1 /\ ~(m < i) /\ j + 1 \in 1..Len(s) + Len(t)
          /\ (j + 1) - Len(s) = m + 1 /\ ~(j + 1 <= Len(s))
      BY <1>1, <1>2, <1>3, <2>0, <2>3
    <3>2. w[j] = r[m]
      BY <1>6, <2>0, <2>3
    <3> HIDE DEF m
    <3>3. r[m] = t[m + 1]
      BY <1>3, <3>1
    <3>4. u[j + 1] = t[m + 1]
      BY <1>1, <3>1
    <3>5. x[j] = u[j + 1]
      BY <1>5, <2>0, <2>3
    <3> QED BY <3>2, <3>3, <3>4, <3>5
  <2> QED BY <2>1, <2>2, <2>3
<1>9. w = x
  BY <1>5, <1>6, <1>7, <1>8, SeqEqual
<1>10. k \in 1..Len(u) /\ u[k] = t[i]
  BY <1>2, <1>4
<1> QED BY <1>9, <1>10 DEF w, x, u, k, r
----------------------------------------------------------------------------
(* The line, and what a step that leaves it alone preserves *)

LEMMA LineRemoveBehind ==
  ASSUME NEW s \in Seq(Nat), NEW t \in Seq(Nat), NEW i \in 1..Len(t)
  PROVE  /\ s \o RemoveAt(t, i) = RemoveAt(s \o t, Len(s) + i)
         /\ Len(s) + i \in 1..Len(s \o t) /\ (s \o t)[Len(s) + i] = t[i]
  BY RemoveBehind

LEMMA ParkedFacts ==
  ASSUME TypeOK
  PROVE  /\ Parked \in Seq(Nat) /\ Len(Parked) = Len(offerers)
         /\ \A i \in 1..Len(offerers) : Parked[i] = value[offerers[i]]
         /\ ToSet(Parked) = {value[offerers[i]] : i \in 1..Len(offerers)}
<1>1. Parked \in Seq(Nat) /\ Len(Parked) = Len(offerers)
  BY ParkedType
<1>2. DOMAIN offerers = 1..Len(offerers)
  <2>1. offerers \in Seq(Callers)
    BY DEF TypeOK
  <2> QED BY <2>1, LenProperties
<1>3. \A i \in 1..Len(offerers) : Parked[i] = value[offerers[i]]
  BY <1>2 DEF Parked
<1>4. ToSet(Parked) = {Parked[i] : i \in 1..Len(Parked)}
  BY <1>1, ToSetFacts
<1>5. ToSet(Parked) = {value[offerers[i]] : i \in 1..Len(offerers)}
  BY <1>1, <1>3, <1>4
<1> QED BY <1>1, <1>3, <1>5

LEMMA ParkedFactsNext ==
  ASSUME TypeOK'
  PROVE  /\ Parked' \in Seq(Nat) /\ Len(Parked') = Len(offerers')
         /\ \A i \in 1..Len(offerers') : Parked'[i] = value'[offerers'[i]]
<1>1. /\ offerers' \in Seq(Callers) /\ value' \in [Callers -> Nat]
  BY DEF TypeOK
<1>2. /\ Len(offerers') \in Nat /\ DOMAIN offerers' = 1..Len(offerers')
      /\ \A i \in 1..Len(offerers') : offerers'[i] \in Callers
  BY <1>1, LenProperties, ElementOfSeq
<1> DEFINE o == offerers'
           w == value'
           q == [i \in 1..Len(o) |-> w[o[i]]]
<1>3. Parked' = q
  BY <1>2 DEF Parked
<1>4. /\ Len(o) \in Nat /\ \A i \in 1..Len(o) : w[o[i]] \in Nat
  BY <1>1, <1>2
<1> HIDE DEF o, w
<1>5. q \in [1..Len(o) -> Nat]
  BY <1>4
<1>6. q \in Seq(Nat)
  BY <1>4, <1>5, SeqDef
<1>7. Len(q) = Len(o)
  BY <1>4, <1>5, <1>6, LenProperties
<1>8. \A i \in 1..Len(o) : q[i] = w[o[i]]
  OBVIOUS
<1> HIDE DEF q
<1> QED BY <1>3, <1>6, <1>7, <1>8 DEF o, w

LEMMA LineFacts ==
  ASSUME TypeOK
  PROVE  /\ Line \in Seq(Nat) /\ Backlog \in Seq(Nat) /\ left \in Seq(Nat) /\ items \in Seq(Nat)
         /\ ToSet(Line) = ToSet(left) \cup ToSet(Backlog)
         /\ ToSet(Backlog) = ToSet(items) \cup ToSet(Parked)
         /\ ToSet(Line) = Entered \cup ToSet(Parked)
<1>1. left \in Seq(Nat) /\ items \in Seq(Nat)
  BY DEF TypeOK
<1>2. Parked \in Seq(Nat) /\ Backlog \in Seq(Nat)
  BY ParkedType, BacklogType
<1>3. Line \in Seq(Nat) /\ ToSet(Line) = ToSet(left) \cup ToSet(Backlog)
  BY <1>1, <1>2, ConcatType, ToSetConcat DEF Line
<1>4. ToSet(Backlog) = ToSet(items) \cup ToSet(Parked)
  BY <1>1, <1>2, ToSetConcat DEF Backlog
<1> QED BY <1>1, <1>2, <1>3, <1>4 DEF Entered

\* What an increasing line says of its parts; in particular nobody is parked twice.
LEMMA LineOrder ==
  ASSUME TypeOK, Increasing(Line)
  PROVE  /\ Increasing(left) /\ Increasing(Backlog) /\ Increasing(items) /\ Increasing(Parked)
         /\ \A x \in ToSet(left), y \in ToSet(Backlog) : x < y
         /\ \A x \in ToSet(items), y \in ToSet(Parked) : x < y
         /\ NoRepeats(offerers)
<1>1. left \in Seq(Nat) /\ items \in Seq(Nat) /\ Parked \in Seq(Nat) /\ Backlog \in Seq(Nat)
  BY LineFacts, ParkedType
<1>2. /\ Increasing(left) /\ Increasing(Backlog)
      /\ \A x \in ToSet(left), y \in ToSet(Backlog) : x < y
  BY <1>1, IncreasingConcat DEF Line
<1>3. /\ Increasing(items) /\ Increasing(Parked)
      /\ \A x \in ToSet(items), y \in ToSet(Parked) : x < y
  BY <1>1, <1>2, IncreasingConcat DEF Backlog
<1>4. NoRepeats(offerers)
  <2>1. \A i, j \in 1..Len(Parked) : i < j => Parked[i] < Parked[j]
    BY <1>1, <1>3, IncreasingDef
  <2>2. /\ Len(Parked) = Len(offerers) /\ Len(offerers) \in Nat
        /\ \A i \in 1..Len(offerers) : Parked[i] = value[offerers[i]] /\ Parked[i] \in Nat
    <3>1. offerers \in Seq(Callers)
      BY DEF TypeOK
    <3> QED BY <1>1, <3>1, ParkedFacts, LenProperties, ElementOfSeq
  <2> SUFFICES ASSUME NEW i \in 1..Len(offerers), NEW j \in 1..Len(offerers),
                      offerers[i] = offerers[j]
               PROVE  i = j
    BY DEF NoRepeats
  <2>3. Parked[i] = Parked[j]
    BY <2>2
  <2>4. ~(i < j) /\ ~(j < i)
    BY <2>1, <2>2, <2>3
  <2> QED BY <2>2, <2>4
<1> QED BY <1>2, <1>3, <1>4

LEMMA LineKept ==
  ASSUME TypeOK, left' = left, items' = items, offerers' = offerers,
         \A i \in 1..Len(offerers) : value'[offerers[i]] = value[offerers[i]]
  PROVE  Parked' = Parked /\ Backlog' = Backlog /\ Line' = Line /\ Entered' = Entered
<1>1. DOMAIN offerers = 1..Len(offerers)
  <2>1. offerers \in Seq(Callers)
    BY DEF TypeOK
  <2> QED BY <2>1, LenProperties
<1>2. Parked' = Parked
  BY <1>1 DEF Parked
<1>3. Backlog' = Backlog
  BY <1>2 DEF Backlog
<1> QED BY <1>2, <1>3 DEF Line, Entered

LEMMA CallKept ==
  ASSUME NEW d \in Callers, CallInv(d), offered \in Nat, offered' \in Nat, offered <= offered',
         pc'[d] = pc[d], value'[d] = value[d], batch'[d] = batch[d], channel'[d] = channel[d],
         closed => /\ closed' /\ (items = <<>> => items' = <<>>)
                   /\ ToSet(Line)' \subseteq ToSet(Line),
         Entered \subseteq Entered',
         (\E i \in 1..Len(offerers) : offerers[i] = d)
            => (\E i \in 1..Len(offerers') : offerers'[i] = d)
  PROVE  CallInv(d)'
<1>1. 1..offered \subseteq 1..offered'
  OBVIOUS
<1>2. ASSUME pc[d] \in RoomWaits PROVE value'[d] \in 1..offered' /\ RoomState(d)'
  <2>1. value[d] \in 1..offered /\ RoomState(d)
    BY <1>2 DEF CallInv
  <2>2. RoomState(d)'
    BY <2>1 DEF RoomState
  <2> QED BY <1>1, <2>1, <2>2
<1>3. ASSUME pc[d] \in ValueWaits PROVE ValueState(d)'
  <2>1. ValueState(d)
    BY <1>3 DEF CallInv
  <2> QED BY <1>1, <2>1 DEF ValueState
<1> QED BY <1>2, <1>3 DEF CallInv
----------------------------------------------------------------------------
(* What the callers hold *)

HeldOf(g, b, p, m) ==
  g \o b \o (IF p \in ValueWaits /\ m # <<Closed>> THEN m ELSE <<>>)

LEMMA HeldIs ==
  ASSUME NEW c \in Callers
  PROVE  /\ Held(c) = HeldOf(got[c], batch[c], pc[c], channel[c])
         /\ Held(c)' = HeldOf(got'[c], batch'[c], pc'[c], channel'[c])
  BY DEF Held, HeldOf, ValueWaits

LEMMA HeldOfFacts ==
  ASSUME NEW g \in Seq(Nat), NEW b \in Seq(Nat), NEW p, NEW m \in Seq(Nat)
  PROVE  /\ HeldOf(g, b, p, m) \in Seq(Nat)
         /\ p \notin ValueWaits \/ m = <<>> \/ m = <<Closed>> => HeldOf(g, b, p, m) = g \o b
         /\ p \in ValueWaits /\ m # <<Closed>> => HeldOf(g, b, p, m) = g \o b \o m
         /\ b = <<>> => g \o b = g
<1>1. g \o b \in Seq(Nat) /\ (b = <<>> => g \o b = g) /\ (g \o b) \o <<>> = g \o b
  BY ConcatType, ConcatEmptySeq
<1>2. <<>> \in Seq(Nat) /\ (g \o b) \o m \in Seq(Nat)
  BY <1>1, ConcatType
<1> QED BY <1>1, <1>2 DEF HeldOf

LEMMA HeldType ==
  ASSUME TypeOK, NEW c \in Callers
  PROVE  Held(c) \in Seq(Nat)
<1>1. got[c] \in Seq(Nat) /\ batch[c] \in Seq(Nat) /\ channel[c] \in Seq(Nat)
  BY DEF TypeOK
<1> QED BY <1>1, HeldIs, HeldOfFacts

\* By where a caller is in its call, before a step and after it.
LEMMA HeldNow ==
  ASSUME TypeOK, NEW c \in Callers
  PROVE  /\ pc[c] \notin ValueWaits \/ channel[c] = <<>> \/ channel[c] = <<Closed>>
            => Held(c) = got[c] \o batch[c]
         /\ pc[c] \in ValueWaits /\ channel[c] # <<Closed>>
            => Held(c) = got[c] \o batch[c] \o channel[c]
         /\ batch[c] = <<>> => got[c] \o batch[c] = got[c]
<1> DEFINE g == got[c]
           b == batch[c]
           p == pc[c]
           m == channel[c]
<1>1. g \in Seq(Nat) /\ b \in Seq(Nat) /\ m \in Seq(Nat)
  BY DEF TypeOK
<1>2. Held(c) = HeldOf(g, b, p, m)
  BY HeldIs
<1> HIDE DEF g, b, p, m
<1>3. /\ p \notin ValueWaits \/ m = <<>> \/ m = <<Closed>> => HeldOf(g, b, p, m) = g \o b
      /\ p \in ValueWaits /\ m # <<Closed>> => HeldOf(g, b, p, m) = g \o b \o m
      /\ b = <<>> => g \o b = g
  <2>1. p \notin ValueWaits \/ m = <<>> \/ m = <<Closed>> => HeldOf(g, b, p, m) = g \o b
    BY <1>1, HeldOfFacts
  <2>2. p \in ValueWaits /\ m # <<Closed>> => HeldOf(g, b, p, m) = g \o b \o m
    BY <1>1, HeldOfFacts
  <2>3. b = <<>> => g \o b = g
    BY <1>1, ConcatEmptySeq
  <2> QED BY <2>1, <2>2, <2>3
<1>4. /\ p \notin ValueWaits \/ m = <<>> \/ m = <<Closed>> => Held(c) = g \o b
      /\ p \in ValueWaits /\ m # <<Closed>> => Held(c) = g \o b \o m
      /\ b = <<>> => g \o b = g
  BY <1>2, <1>3
<1> QED BY <1>4 DEF g, b, p, m

LEMMA HeldNext ==
  ASSUME TypeOK', NEW c \in Callers
  PROVE  /\ pc'[c] \notin ValueWaits \/ channel'[c] = <<>> \/ channel'[c] = <<Closed>>
            => Held(c)' = got'[c] \o batch'[c]
         /\ pc'[c] \in ValueWaits /\ channel'[c] # <<Closed>>
            => Held(c)' = got'[c] \o batch'[c] \o channel'[c]
         /\ batch'[c] = <<>> => got'[c] \o batch'[c] = got'[c]
<1> DEFINE g == got'[c]
           b == batch'[c]
           p == pc'[c]
           m == channel'[c]
<1>1. g \in Seq(Nat) /\ b \in Seq(Nat) /\ m \in Seq(Nat)
  BY DEF TypeOK
<1>2. Held(c)' = HeldOf(g, b, p, m)
  BY HeldIs
<1> HIDE DEF g, b, p, m
<1>3. /\ p \notin ValueWaits \/ m = <<>> \/ m = <<Closed>> => HeldOf(g, b, p, m) = g \o b
      /\ p \in ValueWaits /\ m # <<Closed>> => HeldOf(g, b, p, m) = g \o b \o m
      /\ b = <<>> => g \o b = g
  <2>1. p \notin ValueWaits \/ m = <<>> \/ m = <<Closed>> => HeldOf(g, b, p, m) = g \o b
    BY <1>1, HeldOfFacts
  <2>2. p \in ValueWaits /\ m # <<Closed>> => HeldOf(g, b, p, m) = g \o b \o m
    BY <1>1, HeldOfFacts
  <2>3. b = <<>> => g \o b = g
    BY <1>1, ConcatEmptySeq
  <2> QED BY <2>1, <2>2, <2>3
<1>4. /\ p \notin ValueWaits \/ m = <<>> \/ m = <<Closed>> => Held(c)' = g \o b
      /\ p \in ValueWaits /\ m # <<Closed>> => Held(c)' = g \o b \o m
      /\ b = <<>> => g \o b = g
  BY <1>2, <1>3
<1> QED BY <1>4 DEF g, b, p, m

LEMMA HeldKept ==
  ASSUME HeldInv, left' = left, dropped' = dropped,
         \A c \in Callers : Held(c)' = Held(c)
  PROVE  HeldInv'
<1>1. \A c \in Callers : ToSet(Held(c))' = ToSet(Held(c))
  BY DEF ToSet
<1>2. UNION {ToSet(Held(c))' : c \in Callers} = UNION {ToSet(Held(c)) : c \in Callers}
  BY <1>1
<1>3. NothingLost'
  BY <1>1, <1>2 DEF HeldInv, NothingLost
<1>4. ConsumerOrder'
  BY DEF HeldInv, ConsumerOrder, Increasing
<1> QED BY <1>3, <1>4 DEF HeldInv

\* The values y leave the queue together, into the hands of c.
LEMMA HeldGiven ==
  ASSUME TypeOK, HeldInv, NEW c \in Callers, NEW y \in Seq(Nat), Increasing(left \o y),
         left' = left \o y, dropped' = dropped, Held(c)' = Held(c) \o y,
         \A d \in Callers \ {c} : Held(d)' = Held(d)
  PROVE  HeldInv'
<1>1. left \in Seq(Nat) /\ (\A d \in Callers : Held(d) \in Seq(Nat))
  BY HeldType DEF TypeOK
<1>2. /\ Increasing(y) /\ \A a \in ToSet(left), b \in ToSet(y) : a < b
  BY <1>1, IncreasingConcat
<1>3. ToSet(left)' = ToSet(left) \cup ToSet(y)
  BY <1>1, ToSetConcat
<1>4. ToSet(Held(c))' = ToSet(Held(c)) \cup ToSet(y)
  BY <1>1, ToSetConcat
<1>5. \A d \in Callers \ {c} : ToSet(Held(d))' = ToSet(Held(d))
  BY DEF ToSet
<1>6. \A d \in Callers : ToSet(Held(d)) \subseteq ToSet(left)
  BY DEF HeldInv, NothingLost
<1>7. ToSet(y) \cap ToSet(left) = {}
  <2>1. ToSet(y) \subseteq Nat
    BY ToSetFacts
  <2>2. \A b \in Nat : ~(b < b)
    OBVIOUS
  <2> QED BY <1>2, <2>1, <2>2
<1>8. dropped \subseteq ToSet(left) /\ NothingLost
  BY DEF HeldInv
<1>9. NothingLost'
  <2>1. ToSet(left)' \ dropped' = (ToSet(left) \ dropped) \cup ToSet(y)
    BY <1>3, <1>7, <1>8
  <2>2. UNION {ToSet(Held(d))' : d \in Callers} = (UNION {ToSet(Held(d)) : d \in Callers}) \cup ToSet(y)
    BY <1>4, <1>5
  <2>3. ToSet(left)' \ dropped' = UNION {ToSet(Held(d))' : d \in Callers}
    BY <1>8, <2>1, <2>2 DEF NothingLost
  <2>4. \A d, e \in Callers : d # e => ToSet(Held(d))' \cap ToSet(Held(e))' = {}
    BY <1>4, <1>5, <1>6, <1>7, <1>8 DEF NothingLost
  <2> QED BY <2>3, <2>4 DEF NothingLost
<1>10. ConsumerOrder'
  <2>1. ConsumerOrder
    BY DEF HeldInv
  <2>2. Increasing(Held(c) \o y)
    BY <1>1, <1>2, <1>6, <2>1, IncreasingConcat DEF ConsumerOrder
  <2>3. ASSUME NEW d \in Callers PROVE Increasing(Held(d))'
    <3>1. CASE d = c
      <4>1. Increasing(Held(c)')
        BY <2>2
      <4> QED BY <3>1, <4>1 DEF Increasing
    <3>2. CASE d # c
      <4>1. Increasing(Held(d)) /\ Held(d)' = Held(d)
        BY <2>1, <3>2 DEF ConsumerOrder
      <4> QED BY <4>1 DEF Increasing
    <3> QED BY <3>1, <3>2
  <2> QED BY <2>3 DEF ConsumerOrder
<1>11. dropped' \subseteq ToSet(left)'
  BY <1>3, <1>8
<1> QED BY <1>9, <1>10, <1>11 DEF HeldInv
LEMMA HeldSame ==
  ASSUME NEW d \in Callers,
         got'[d] = got[d], batch'[d] = batch[d], pc'[d] = pc[d], channel'[d] = channel[d]
  PROVE  Held(d)' = Held(d)
  BY HeldIs
----------------------------------------------------------------------------
(* Steps of one caller that leave the queue and its lists alone *)

\* Whoever has a message, or waits for nothing, is on no list.
LEMMA OffLists ==
  ASSUME ListsInv, NEW c \in Callers, pc[c] \notin Waits \/ channel[c] # <<>>
  PROVE  /\ \A i \in 1..Len(takers) : takers[i] # c
         /\ \A i \in 1..Len(offerers) : offerers[i] # c
         /\ \A i \in 1..Len(detached) : detached[i] # c
  BY DEF ListsInv, Waits, RoomWaits, ValueWaits

LEMMA ListsKept ==
  ASSUME TypeOK, ListsInv, NEW c \in Callers, UNCHANGED <<fields, detached>>,
         \A d \in Callers \ {c} : pc'[d] = pc[d] /\ channel'[d] = channel[d],
         \/ pc[c] \notin Waits \/ channel[c] # <<>>
         \/ /\ channel'[c] = channel[c]
            /\ (pc[c] \in RoomWaits => pc'[c] \in RoomWaits)
            /\ (pc[c] \in ValueWaits <=> pc'[c] \in ValueWaits)
  PROVE  ListsInv'
<1>0. /\ \A i \in 1..Len(takers) : takers[i] \in Callers
      /\ \A i \in 1..Len(offerers) : offerers[i] \in Callers
      /\ \A i \in 1..Len(detached) : detached[i] \in Callers
  BY ElementOfSeq DEF TypeOK
<1>1. takers' = takers /\ offerers' = offerers /\ detached' = detached /\ closed' = closed
      /\ items' = items
  BY DEF fields
<1>2. CASE pc[c] \notin Waits \/ channel[c] # <<>>
  BY <1>0, <1>1, <1>2, OffLists DEF ListsInv, NoRepeats
<1>3. CASE /\ channel'[c] = channel[c]
           /\ (pc[c] \in RoomWaits => pc'[c] \in RoomWaits)
           /\ (pc[c] \in ValueWaits <=> pc'[c] \in ValueWaits)
  <2>1. \A i \in 1..Len(takers) : pc'[takers[i]] \in ValueWaits /\ channel'[takers[i]] = <<>>
    BY <1>0, <1>3 DEF ListsInv
  <2>2. \A i \in 1..Len(offerers) :
           pc'[offerers[i]] \in RoomWaits /\ channel'[offerers[i]] = <<>>
    BY <1>0, <1>3 DEF ListsInv
  <2>3. \A i \in 1..Len(detached) :
           /\ pc'[detached[i]] \in Waits /\ channel'[detached[i]] = <<>> /\ closed
           /\ pc'[detached[i]] \in ValueWaits => items = <<>>
    <3>1. Waits = RoomWaits \cup ValueWaits
      BY DEF Waits, RoomWaits, ValueWaits
    <3> QED BY <1>0, <1>3, <3>1 DEF ListsInv
  <2> QED BY <1>1, <2>1, <2>2, <2>3 DEF ListsInv, NoRepeats
<1> QED BY <1>2, <1>3

LEMMA OwnStep ==
  ASSUME AccountInv, QueueInv', NEW c \in Callers, UNCHANGED <<fields, detached, left, dropped>>,
         offered <= offered',
         \A d \in Callers \ {c} : /\ pc'[d] = pc[d] /\ value'[d] = value[d] /\ got'[d] = got[d]
                                  /\ batch'[d] = batch[d] /\ channel'[d] = channel[d],
         \/ pc[c] \notin Waits \/ channel[c] # <<>>
         \/ /\ channel'[c] = channel[c] /\ value'[c] = value[c]
            /\ (pc[c] \in RoomWaits => pc'[c] \in RoomWaits)
            /\ (pc[c] \in ValueWaits <=> pc'[c] \in ValueWaits),
         Line' = Line /\ Entered' = Entered => CallInv(c)',
         Held(c)' = Held(c),
         accepted' \subseteq Entered,
         rejected' \subseteq 1..offered', rejected' \cap ToSet(Line) = {},
         finished' => closed /\ (finished \/ items = <<>>)
  PROVE  AccountInv'
<1>1. TypeOK /\ TypeOK' /\ LineInv /\ ListsInv /\ CallsInv /\ AnswersInv /\ HeldInv
      /\ FinishedMeansDrained /\ WaitersJustified
  BY DEF AccountInv, QueueInv
<1>2. left' = left /\ items' = items /\ offerers' = offerers /\ closed' = closed
      /\ dropped' = dropped
  BY DEF fields
<1>3. \A i \in 1..Len(offerers) : value'[offerers[i]] = value[offerers[i]]
  <2>1. \A i \in 1..Len(offerers) : offerers[i] \in Callers
    BY <1>1, ElementOfSeq DEF TypeOK
  <2> QED BY <1>1, <2>1, OffLists
<1>4. Parked' = Parked /\ Backlog' = Backlog /\ Line' = Line /\ Entered' = Entered
  BY <1>1, <1>2, <1>3, LineKept
<1>5. offered \in Nat /\ offered' \in Nat /\ 1..offered \subseteq 1..offered'
  BY <1>1 DEF TypeOK
<1>6. LineInv'
  BY <1>1, <1>4, <1>5 DEF LineInv, Increasing, ToSet
<1>7. ListsInv'
  <2>1. \/ pc[c] \notin Waits \/ channel[c] # <<>>
        \/ /\ channel'[c] = channel[c]
           /\ (pc[c] \in RoomWaits => pc'[c] \in RoomWaits)
           /\ (pc[c] \in ValueWaits <=> pc'[c] \in ValueWaits)
    OBVIOUS
  <2>2. UNCHANGED <<fields, detached>>
    OBVIOUS
  <2> QED BY <1>1, <2>1, <2>2, ListsKept
<1>8. CallsInv'
  <2>1. ASSUME NEW d \in Callers \ {c} PROVE CallInv(d)'
    <3>1. CallInv(d)
      BY <1>1 DEF CallsInv
    <3>2. ToSet(Line)' \subseteq ToSet(Line)
      BY <1>4 DEF ToSet
    <3> QED BY <1>2, <1>4, <1>5, <3>1, <3>2, CallKept
  <2> QED BY <1>4, <2>1 DEF CallsInv
<1>9. AnswersInv'
  BY <1>4 DEF AnswersInv, ToSet
<1>10. HeldInv'
  <2>1. \A d \in Callers \ {c} : Held(d)' = Held(d)
    BY HeldSame
  <2> QED BY <1>1, <1>2, <2>1, HeldKept
<1>11. FinishedMeansDrained'
  <2>1. closed /\ items = <<>> => Backlog = <<>>
    <3>1. SUFFICES ASSUME closed, items = <<>> PROVE Backlog = <<>>
      OBVIOUS
    <3>2. Len(offerers) = 0 /\ Len(items) = 0
      BY <1>1, <3>1, EmptySeq DEF WaitersJustified
    <3>3. Backlog \in Seq(Nat) /\ Len(Backlog) = 0 + 0
      BY <1>1, <3>2, BacklogType
    <3> QED BY <3>3, EmptySeq
  <2> QED BY <1>1, <1>2, <1>4, <2>1 DEF FinishedMeansDrained
<1> QED BY <1>6, <1>7, <1>8, <1>9, <1>10, <1>11 DEF AccountInv

LEMMA ReturnFacts ==
  ASSUME TypeOK, NEW c \in Callers, Return(c)
  PROVE  /\ pc'[c] = "idle" /\ batch'[c] = <<>> /\ value'[c] = 0
         /\ \A d \in Callers \ {c} : pc'[d] = pc[d] /\ value'[d] = value[d] /\ batch'[d] = batch[d]
  BY DEF Return, TypeOK

\* A caller that is back from its call holds what it was given, no more.
LEMMA IdleCall ==
  ASSUME NEW c \in Callers, pc'[c] = "idle", batch'[c] = <<>>, channel'[c] = <<>>
  PROVE  CallInv(c)'
  BY DEF CallInv, Waits, RoomWaits, ValueWaits

LEMMA ReceiveRoomAccount ==
  ASSUME AccountInv, NEW c \in Callers, ReceiveRoom(c)
  PROVE  AccountInv'
<1>1. QueueInv' /\ TypeOK
  BY ReceiveRoomInv DEF AccountInv, QueueInv
<1>2. /\ pc[c] \in RoomWaits /\ channel[c] # <<>> /\ Return(c)
      /\ channel' = [channel EXCEPT ![c] = <<>>]
      /\ UNCHANGED <<fields, detached, offered, left, dropped, got, finished>>
  BY DEF ReceiveRoom, RoomWaits
<1>3. /\ pc'[c] = "idle" /\ batch'[c] = <<>> /\ channel'[c] = <<>>
      /\ \A d \in Callers \ {c} : /\ pc'[d] = pc[d] /\ value'[d] = value[d] /\ got'[d] = got[d]
                                  /\ batch'[d] = batch[d] /\ channel'[d] = channel[d]
  BY <1>1, <1>2, ReturnFacts DEF TypeOK
<1>4. /\ value[c] \in 1..offered /\ batch[c] = <<>>
      /\ \/ channel[c] = <<value[c]>> /\ value[c] \in Entered
         \/ channel[c] = <<Closed>> /\ value[c] \notin ToSet(Line)
  <2>1. CallInv(c)
    BY DEF AccountInv, CallsInv
  <2>2. value[c] \in 1..offered /\ RoomState(c) /\ batch[c] = <<>>
    BY <1>2, <2>1 DEF CallInv, RoomWaits
  <2> QED BY <1>2, <2>2 DEF RoomState
<1>5. Held(c)' = Held(c)
  <2>1. /\ got[c] \in Seq(Nat) /\ channel[c] \in Seq(Nat) /\ <<>> \in Seq(Nat)
        /\ pc[c] \notin ValueWaits /\ pc'[c] \notin ValueWaits /\ got'[c] = got[c]
    BY <1>1, <1>2, <1>3, EmptySeq DEF TypeOK, RoomWaits, ValueWaits
  <2>2. TypeOK'
    BY <1>1 DEF QueueInv
  <2> QED BY <1>1, <1>3, <1>4, <2>1, <2>2, HeldNow, HeldNext
<1>6. offered \in Nat /\ offered' = offered
  BY <1>1, <1>2 DEF TypeOK
<1>7. AnswersInv
  BY DEF AccountInv
<1>8. accepted' \subseteq Entered /\ rejected' \subseteq 1..offered'
      /\ rejected' \cap ToSet(Line) = {}
  <2>1. CASE channel[c] = <<Closed>> /\ value[c] \notin ToSet(Line)
    <3>1. Head(channel[c]) = Closed
      BY <2>1
    <3>2. rejected' = rejected \cup {value[c]} /\ accepted' = accepted
      BY <3>1 DEF ReceiveRoom
    <3> QED BY <1>4, <1>6, <1>7, <2>1, <3>2 DEF AnswersInv
  <2>2. CASE channel[c] = <<value[c]>> /\ value[c] \in Entered
    <3>1. Head(channel[c]) # Closed
      BY <1>4, <1>6, <2>2 DEF Closed
    <3>2. accepted' = accepted \cup {value[c]} /\ rejected' = rejected
      BY <3>1 DEF ReceiveRoom
    <3> QED BY <1>6, <1>7, <2>2, <3>2 DEF AnswersInv
  <2> QED BY <1>4, <2>1, <2>2
<1>9. finished' => closed /\ (finished \/ items = <<>>)
  BY <1>2 DEF AccountInv, FinishedMeansDrained
<1>10. CallInv(c)' /\ offered <= offered' /\ UNCHANGED <<fields, detached, left, dropped>>
  BY <1>2, <1>3, <1>6, IdleCall
<1> QED BY <1>1, <1>2, <1>3, <1>5, <1>8, <1>9, <1>10, OwnStep

LEMMA ObtainFacts ==
  ASSUME TypeOK, NEW c \in Callers, NEW v \in Nat, NEW lim \in Nat, Obtain(c, v, lim),
         pc[c] # "drain", batch[c] = <<>>
  PROVE  /\ pc'[c] \in {"idle", "drain"} /\ (pc'[c] # "drain" => batch'[c] = <<>>)
         /\ got'[c] \o batch'[c] = got[c] \o <<v>>
         /\ got'[c] \in Seq(Nat) /\ batch'[c] \in Seq(Nat)
         /\ \A d \in Callers \ {c} : /\ pc'[d] = pc[d] /\ value'[d] = value[d]
                                     /\ batch'[d] = batch[d] /\ got'[d] = got[d]
<1>1. got[c] \in Seq(Nat) /\ <<v>> \in Seq(Nat) /\ <<>> \in Seq(Nat)
      /\ Append(got[c], v) = got[c] \o <<v>> /\ got[c] \o <<v>> \in Seq(Nat)
      /\ (got[c] \o <<v>>) \o <<>> = got[c] \o <<v>>
  <2>1. got[c] \in Seq(Nat)
    BY DEF TypeOK
  <2> QED BY <2>1, AppendIsConcat, ConcatType, ConcatEmptySeq
<1>2. CASE lim = 0
  <2>1. got' = [got EXCEPT ![c] = Append(got[c], v)] /\ Return(c)
    BY <1>2 DEF Obtain
  <2>2. got'[c] = got[c] \o <<v>> /\ (\A d \in Callers \ {c} : got'[d] = got[d])
    BY <1>1, <2>1 DEF TypeOK
  <2> QED BY <1>1, <2>1, <2>2, ReturnFacts
<1>3. CASE lim # 0
  <2>1. /\ pc' = [pc EXCEPT ![c] = "drain"] /\ batch' = [batch EXCEPT ![c] = <<v>>]
        /\ got' = got /\ value' = value
    BY <1>3 DEF Obtain
  <2> QED BY <1>1, <2>1 DEF TypeOK
<1> QED BY <1>2, <1>3

LEMMA ReceiveValueAccount ==
  ASSUME AccountInv, NEW c \in Callers, ReceiveValue(c)
  PROVE  AccountInv'
<1>1. QueueInv' /\ TypeOK /\ CallInv(c) /\ AnswersInv
  BY ReceiveValueInv DEF AccountInv, QueueInv, CallsInv
<1>2. /\ pc[c] \in ValueWaits /\ pc[c] # "drain" /\ channel[c] # <<>>
      /\ channel' = [channel EXCEPT ![c] = <<>>]
      /\ UNCHANGED <<fields, detached, offered, left, dropped, accepted, rejected>>
  BY DEF ReceiveValue, ValueWaits
<1>3. /\ channel'[c] = <<>> /\ (\A d \in Callers \ {c} : channel'[d] = channel[d])
      /\ channel[c] \in Seq(Nat) /\ got[c] \in Seq(Nat) /\ limit[c] \in Nat /\ <<>> \in Seq(Nat)
      /\ batch[c] = <<>>
  BY <1>1, <1>2, EmptySeq DEF TypeOK, CallInv
<1>4. /\ offered \in Nat /\ offered' = offered /\ accepted' \subseteq Entered
      /\ rejected' \subseteq 1..offered' /\ rejected' \cap ToSet(Line) = {}
      /\ offered <= offered' /\ UNCHANGED <<fields, detached, left, dropped>>
  BY <1>1, <1>2 DEF TypeOK, AnswersInv
<1>5. CASE channel[c] = <<Closed>> /\ closed /\ items = <<>>
  <2>1. Head(channel[c]) = Closed
    BY <1>5
  <2>2. Return(c) /\ got' = got
    BY <2>1 DEF ReceiveValue
  <2>3. /\ pc'[c] = "idle" /\ batch'[c] = <<>>
        /\ \A d \in Callers \ {c} : /\ pc'[d] = pc[d] /\ value'[d] = value[d] /\ got'[d] = got[d]
                                    /\ batch'[d] = batch[d]
    BY <1>1, <2>2, ReturnFacts
  <2>4. Held(c)' = Held(c)
    <3>1. TypeOK'
      BY <1>1 DEF QueueInv
    <3>2. Held(c) = got[c] \o batch[c]
      BY <1>1, <1>5, HeldNow
    <3>3. Held(c)' = got'[c] \o batch'[c]
      BY <1>3, <3>1, HeldNext
    <3> QED BY <1>3, <2>2, <2>3, <3>2, <3>3
  <2>5. CallInv(c)'
    BY <1>3, <2>3, IdleCall
  <2> QED BY <1>1, <1>2, <1>3, <1>4, <1>5, <2>3, <2>4, <2>5, OwnStep
<1>6. ASSUME NEW v \in 1..offered, channel[c] = <<v>> PROVE AccountInv'
  <2>1. Head(channel[c]) = v /\ v \in Nat /\ v # Closed
    BY <1>4, <1>6 DEF Closed
  <2>2. Obtain(c, v, limit[c]) /\ finished' = finished
    BY <2>1 DEF ReceiveValue
  <2>3. /\ pc'[c] \in {"idle", "drain"} /\ (pc'[c] # "drain" => batch'[c] = <<>>)
        /\ got'[c] \o batch'[c] = got[c] \o <<v>>
        /\ got'[c] \in Seq(Nat) /\ batch'[c] \in Seq(Nat)
        /\ \A d \in Callers \ {c} : /\ pc'[d] = pc[d] /\ value'[d] = value[d]
                                    /\ batch'[d] = batch[d] /\ got'[d] = got[d]
    BY <1>1, <1>2, <1>3, <2>1, <2>2, ObtainFacts
  <2>4. Held(c)' = Held(c)
    <3>1. Held(c)' = got'[c] \o batch'[c]
      <4>1. TypeOK'
        BY <1>1 DEF QueueInv
      <4> QED BY <1>3, <4>1, HeldNext
    <3>2. Held(c) = got[c] \o batch[c] \o channel[c]
      <4>1. channel[c] # <<Closed>>
        BY <1>6, <2>1
      <4> QED BY <1>1, <1>2, <4>1, HeldNow
    <3>3. got[c] \o batch[c] = got[c]
      BY <1>3, ConcatEmptySeq
    <3> QED BY <1>6, <2>3, <3>1, <3>2, <3>3
  <2>5. CallInv(c)'
    BY <1>3, <2>3 DEF CallInv, Waits, RoomWaits, ValueWaits
  <2>6. finished' => closed /\ (finished \/ items = <<>>)
    BY <2>2 DEF AccountInv, FinishedMeansDrained
  <2> QED BY <1>1, <1>2, <1>3, <1>4, <2>3, <2>4, <2>5, <2>6, OwnStep
<1>7. ValueState(c)
  BY <1>1, <1>2 DEF CallInv
<1> QED BY <1>2, <1>5, <1>6, <1>7 DEF ValueState

\* Steps that change neither lists nor channels: c goes on within its wait, or
\* is answered at once.
LEMMA QuietAccount ==
  ASSUME AccountInv, QueueInv', NEW c \in Callers,
         UNCHANGED <<fields, detached, left, dropped, value, batch, channel, got, accepted>>,
         offered <= offered', rejected' \subseteq 1..offered', rejected' \cap ToSet(Line) = {},
         finished' => closed /\ (finished \/ items = <<>>),
         \A d \in Callers \ {c} : pc'[d] = pc[d],
         pc'[c] # "drain" \/ pc[c] = "drain",
         pc[c] \in Waits <=> pc'[c] \in Waits,
         pc[c] \in RoomWaits <=> pc'[c] \in RoomWaits,
         pc[c] \in ValueWaits <=> pc'[c] \in ValueWaits,
         pc[c] = "drain" => pc'[c] = "drain"
  PROVE  AccountInv'
<1>1. /\ TypeOK /\ TypeOK' /\ CallInv(c) /\ accepted \subseteq Entered
      /\ offered \in Nat /\ offered' \in Nat
  BY DEF AccountInv, AnswersInv, CallsInv, QueueInv, TypeOK
<1>2. Held(c)' = Held(c)
  BY HeldIs DEF HeldOf
<1>3. 1..offered \subseteq 1..offered'
  BY <1>1
<1>4. ASSUME Line' = Line, Entered' = Entered PROVE CallInv(c)'
  <2>1. RoomState(c)' <=> RoomState(c)
    BY <1>4 DEF RoomState, fields, ToSet
  <2>2. ValueState(c) => ValueState(c)'
    BY <1>3 DEF ValueState, fields
  <2> QED BY <1>1, <1>3, <2>1, <2>2 DEF CallInv
<1> QED BY <1>1, <1>2, <1>4, OwnStep

\* Finished callers stay right as long as a shut-down queue stays empty.
LEMMA FinishedKept ==
  ASSUME FinishedMeansDrained, finished' => finished,
         finished => closed' /\ Backlog' = Backlog
  PROVE  FinishedMeansDrained'
  BY DEF FinishedMeansDrained

LEMMA QuietSteps ==
  ASSUME AccountInv, NEW c \in Callers, NEW lim \in Nat,
         \/ pc[c] = "idle" /\ TakeFinished(c, lim)
         \/ Cancel(c) \/ ObserveCancel(c)
         \/ AbandonOfferer(c) /\ (\A i \in DOMAIN offerers : offerers[i] # c)
         \/ AbandonTaker(c) /\ (\A i \in DOMAIN takers : takers[i] # c)
         \/ CloseWaiters(c) /\ detached = <<>>
  PROVE  AccountInv'
<1>1. QueueInv /\ TypeOK /\ AnswersInv /\ FinishedMeansDrained /\ offered \in Nat
  BY DEF AccountInv, QueueInv, TypeOK
<1>2. QueueInv'
  BY <1>1, TakeInv, ControlInv, AbandonOffererInv, AbandonTakerInv DEF TakeOrPark
<1>3. /\ UNCHANGED <<fields, detached, left, dropped, value, batch, channel, got, accepted>>
      /\ offered' = offered /\ rejected' = rejected
      /\ finished' => closed /\ (finished \/ items = <<>>)
      /\ \A d \in Callers \ {c} : pc'[d] = pc[d]
      /\ pc'[c] # "drain" \/ pc[c] = "drain"
      /\ pc[c] \in Waits <=> pc'[c] \in Waits
      /\ pc[c] \in RoomWaits <=> pc'[c] \in RoomWaits
      /\ pc[c] \in ValueWaits <=> pc'[c] \in ValueWaits
      /\ pc[c] = "drain" => pc'[c] = "drain"
  <2>1. CASE pc[c] = "idle" /\ TakeFinished(c, lim)
    BY <2>1 DEF TakeFinished, fields, calls
  <2>2. CASE Cancel(c)
    BY <1>1, <2>2 DEF Cancel, fields, history, FinishedMeansDrained
  <2>3. CASE ObserveCancel(c)
    BY <1>1, <2>3 DEF ObserveCancel, fields, history, FinishedMeansDrained, TypeOK,
       Waits, RoomWaits, ValueWaits
  <2>4. CASE AbandonOfferer(c) /\ (\A i \in DOMAIN offerers : offerers[i] # c)
    BY <1>1, <2>4 DEF AbandonOfferer, fields, FinishedMeansDrained, TypeOK,
       Waits, RoomWaits, ValueWaits
  <2>5. CASE AbandonTaker(c) /\ (\A i \in DOMAIN takers : takers[i] # c)
    BY <1>1, <2>5 DEF AbandonTaker, fields, history, FinishedMeansDrained, TypeOK,
       Waits, RoomWaits, ValueWaits
  <2>6. CASE CloseWaiters(c) /\ detached = <<>>
    BY <1>1, <2>6 DEF CloseWaiters, fields, history, FinishedMeansDrained, TypeOK,
       Waits, RoomWaits, ValueWaits
  <2> QED BY <2>1, <2>2, <2>3, <2>4, <2>5, <2>6
<1>4. offered <= offered' /\ rejected' \subseteq 1..offered' /\ rejected' \cap ToSet(Line) = {}
  BY <1>1, <1>3 DEF AnswersInv
<1> QED BY <1>2, <1>3, <1>4, QuietAccount

\* Offers that are declined at once.
LEMMA DeclinedOffer ==
  ASSUME AccountInv, QueueInv', NEW c \in Callers, offered' = offered + 1,
         rejected' = rejected \cup {offered + 1},
         UNCHANGED <<fields, calls, left, dropped, got, accepted, finished>>
  PROVE  AccountInv'
<1>1. TypeOK /\ AnswersInv /\ LineInv /\ FinishedMeansDrained /\ offered \in Nat
  BY DEF AccountInv, QueueInv, TypeOK
<1>2. offered + 1 \notin ToSet(Line) /\ 1..offered \subseteq 1..offered'
      /\ offered + 1 \in 1..offered' /\ offered <= offered'
  BY <1>1 DEF LineInv
<1>3. rejected' \subseteq 1..offered' /\ rejected' \cap ToSet(Line) = {}
  BY <1>1, <1>2 DEF AnswersInv
<1>4. finished' => closed /\ (finished \/ items = <<>>)
  BY <1>1 DEF FinishedMeansDrained
<1>5. pc' = pc /\ UNCHANGED <<fields, detached, left, dropped, value, batch, channel, got, accepted>>
  BY DEF calls
<1> QED BY <1>2, <1>3, <1>4, <1>5, QuietAccount
----------------------------------------------------------------------------
(* Offers that enter the line *)

\* With nobody parked the line is what has left and what is queued.
LEMMA LineShort ==
  ASSUME TypeOK, offerers = <<>>
  PROVE  Parked = <<>> /\ Backlog = items /\ Line = left \o items
<1>1. Parked = <<>>
  <2>1. Len(offerers) = 0
    BY EmptySeq
  <2> QED BY <2>1, ParkedType, EmptySeq
<1>2. Backlog = items
  BY <1>1, ConcatEmptySeq DEF Backlog, TypeOK
<1> QED BY <1>1, <1>2 DEF Line

LEMMA LineShortNext ==
  ASSUME TypeOK', offerers' = <<>>
  PROVE  Parked' = <<>> /\ Backlog' = items' /\ Line' = left' \o items'
<1>1. Parked' = <<>>
  BY DEF Parked
<1>2. Backlog' = items'
  BY <1>1, ConcatEmptySeq DEF Backlog, TypeOK
<1> QED BY <1>1, <1>2 DEF Line

LEMMA LineGrows ==
  ASSUME TypeOK, LineInv, offered' = offered + 1, Line' = Append(Line, offered + 1)
  PROVE  /\ LineInv' /\ ToSet(Line)' = ToSet(Line) \cup {offered + 1}
         /\ 1..offered \subseteq 1..offered' /\ offered + 1 \in 1..offered'
         /\ offered \in Nat /\ offered' \in Nat /\ offered <= offered'
         /\ offered + 1 \notin ToSet(Line)
<1>1. offered \in Nat /\ Line \in Seq(Nat)
  BY LineFacts DEF TypeOK
<1>2. 1..offered \subseteq 1..offered' /\ offered + 1 \in 1..offered' /\ offered + 1 \in Nat
      /\ offered <= offered' /\ (\A x \in 1..offered : x < offered + 1)
  BY <1>1
<1>3. \A x \in ToSet(Line) : x < offered + 1
  BY <1>2 DEF LineInv
<1> DEFINE v == offered + 1
<1>4. v \in Nat /\ \A x \in ToSet(Line) : x < v
  BY <1>2, <1>3
<1> HIDE DEF v
<1>5. Increasing(Append(Line, v)) /\ ToSet(Append(Line, v)) = ToSet(Line) \cup {v}
  BY <1>1, <1>4, IncreasingAppend DEF LineInv
<1>6. Increasing(Line') /\ ToSet(Line') = ToSet(Line) \cup {v}
  BY <1>5 DEF v
<1>7. Increasing(Line)' /\ ToSet(Line)' = ToSet(Line) \cup {offered + 1}
  BY <1>6 DEF Increasing, ToSet, v
<1>8. v \notin ToSet(Line)
  <2>1. ~(v < v)
    BY <1>4
  <2> QED BY <1>4, <2>1
<1> QED BY <1>1, <1>2, <1>7, <1>8 DEF LineInv, v

\* Who has been answered is not touched by a longer line.
LEMMA AnswersGrow ==
  ASSUME AnswersInv, offered \in Nat, offered' = offered + 1, rejected' = rejected,
         ToSet(Line)' = ToSet(Line) \cup {offered + 1}, Entered \subseteq Entered',
         \/ accepted' = accepted
         \/ accepted' = accepted \cup {offered + 1} /\ offered + 1 \in Entered'
  PROVE  AnswersInv'
<1>1. 1..offered \subseteq 1..offered' /\ offered + 1 \notin 1..offered
  OBVIOUS
<1> QED BY <1>1 DEF AnswersInv

\* Before the shutdown nobody is detached and nobody has been told it is over.
LEMMA OpenFacts ==
  ASSUME AccountInv, ~closed
  PROVE  detached = <<>> /\ ~finished /\ Len(detached) = 0
<1>1. detached \in Seq(Callers) /\ ListsInv /\ FinishedMeansDrained
  BY DEF AccountInv, QueueInv, TypeOK
<1>2. Len(detached) \in Nat /\ (Len(detached) = 0 <=> detached = <<>>)
  BY <1>1, LenProperties, EmptySeq
<1>3. ~(1 \in 1..Len(detached))
  BY <1>1 DEF ListsInv
<1>4. Len(detached) = 0
  BY <1>2, <1>3
<1> QED BY <1>1, <1>2, <1>4 DEF FinishedMeansDrained

LEMMA HandOffAccount ==
  ASSUME AccountInv, QueueInv', NEW c \in Callers, offered' = offered + 1,
         HandOff(c, offered + 1)
  PROVE  AccountInv'
<1> DEFINE v == offered + 1
<1>1. /\ TypeOK /\ TypeOK' /\ WaitersJustified /\ LineInv /\ ListsInv /\ CallsInv /\ AnswersInv
      /\ HeldInv /\ offered \in Nat /\ left \in Seq(Nat) /\ takers \in Seq(Callers)
      /\ items \in Seq(Nat) /\ offerers \in Seq(Callers) /\ capacity \in Nat
  BY DEF AccountInv, QueueInv, TypeOK
<1>2. /\ ~closed /\ takers # <<>> /\ takers' = Tail(takers)
      /\ channel' = [channel EXCEPT ![Head(takers)] = Append(channel[Head(takers)], v)]
      /\ left' = Append(left, v) /\ accepted' = accepted \cup {v}
      /\ UNCHANGED <<items, capacity, policy, offerers, closed, pc, value, limit,
                     batch, cancelled, detached, dropped, got, rejected, finished>>
  BY DEF HandOff
<1>3. items = <<>> /\ offerers = <<>>
  <2>1. items = <<>> /\ Len(items) = 0
    BY <1>1, <1>2, EmptySeq DEF WaitersJustified
  <2>2. offerers # <<>> => capacity > 0 /\ 0 = capacity
    BY <1>1, <2>1 DEF WaitersJustified
  <2> QED BY <1>1, <2>1, <2>2
<1>4. detached = <<>> /\ ~finished /\ Len(detached) = 0
  BY <1>2, OpenFacts
<1>h. PICK h \in Callers : h = Head(takers) /\ h = takers[1] /\ 1 \in 1..Len(takers)
  BY <1>1, <1>2, HeadTail
<1>5. h \in Callers /\ pc[h] \in ValueWaits /\ channel[h] = <<>>
  BY <1>1, <1>h DEF ListsInv
<1>6. channel'[h] = <<v>> /\ (\A d \in Callers \ {h} : channel'[d] = channel[d])
  <2>1. channel \in [Callers -> Seq(Nat)]
    BY <1>1 DEF TypeOK
  <2>2. channel'[h] = Append(channel[h], v) /\ (\A d \in Callers \ {h} : channel'[d] = channel[d])
    BY <1>2, <1>h, <2>1
  <2> HIDE DEF v
  <2> QED BY <1>5, <2>2
<1>7. Line = left /\ Line' = left' /\ Line' = Append(Line, v)
  <2>1. Line = left \o <<>> /\ Line' = left' \o <<>> /\ left' \in Seq(Nat)
    BY <1>1, <1>2, <1>3, LineShort, LineShortNext DEF TypeOK
  <2>2. Line = left /\ Line' = left'
    BY <1>1, <2>1, ConcatEmptySeq
  <2> QED BY <1>2, <2>2
<1>8. /\ LineInv' /\ ToSet(Line)' = ToSet(Line) \cup {v}
      /\ 1..offered \subseteq 1..offered' /\ v \in 1..offered'
      /\ offered' \in Nat /\ offered <= offered' /\ v \in Nat
  <2>1. v \in Nat
    BY <1>1
  <2> QED BY <1>1, <1>7, <2>1, LineGrows
<1>9. Entered \subseteq Entered' /\ v \in Entered'
  <2>1. ToSet(left)' = ToSet(Line)' /\ ToSet(left) = ToSet(Line) /\ ToSet(items)' = ToSet(items)
    BY <1>2, <1>7 DEF ToSet
  <2> QED BY <1>8, <2>1 DEF Entered
<1> HIDE DEF v
<1>10. AnswersInv'
  BY <1>1, <1>2, <1>8, <1>9, AnswersGrow DEF v
<1>11. ListsInv'
  <2>1. /\ NoRepeats(Tail(takers)) /\ \A i \in 1..Len(Tail(takers)) : Tail(takers)[i] # h
    BY <1>1, <1>2, <1>h, NoRepeatsTail DEF ListsInv
  <2>2. \A i \in 1..Len(Tail(takers)) :
           /\ pc[Tail(takers)[i]] \in ValueWaits /\ channel[Tail(takers)[i]] = <<>>
           /\ Tail(takers)[i] \in Callers
    <3>1. /\ Len(Tail(takers)) = Len(takers) - 1 /\ Len(takers) \in Nat \ {0}
          /\ \A i \in 1..Len(takers) - 1 : Tail(takers)[i] = takers[i + 1]
      BY <1>1, <1>2, TailFacts
    <3>2. \A i \in 1..Len(Tail(takers)) : i + 1 \in 1..Len(takers) /\ Tail(takers)[i] = takers[i + 1]
      BY <3>1
    <3>3. \A i \in 1..Len(takers) : takers[i] \in Callers
      BY <1>1, ElementOfSeq
    <3> QED BY <1>1, <3>2, <3>3 DEF ListsInv
  <2>3. Len(offerers) = 0
    BY <1>3, EmptySeq
  <2> QED BY <1>1, <1>2, <1>4, <1>6, <2>1, <2>2, <2>3 DEF ListsInv
<1>12. CallsInv'
  <2>1. ASSUME NEW d \in Callers \ {h} PROVE CallInv(d)'
    <3>1. CallInv(d)
      BY <1>1 DEF CallsInv
    <3> QED BY <1>1, <1>2, <1>6, <1>8, <1>9, <2>1, <3>1, CallKept
  <2>2. CallInv(h)'
    <3>1. CallInv(h)
      BY <1>1, <1>5 DEF CallsInv
    <3> QED BY <1>2, <1>5, <1>6, <1>8, <3>1 DEF CallInv, ValueState, ValueWaits, RoomWaits, Waits
  <2> QED BY <2>1, <2>2 DEF CallsInv
<1>13. HeldInv'
  <2>1. <<v>> \in Seq(Nat) /\ left' = left \o <<v>> /\ Increasing(left \o <<v>>)
    <3>1. <<v>> \in Seq(Nat) /\ left' = left \o <<v>>
      BY <1>1, <1>2, <1>8, AppendIsConcat DEF v
    <3>2. Increasing(left')
      BY <1>7, <1>8 DEF LineInv, Increasing
    <3> QED BY <3>1, <3>2
  <2>2. Held(h)' = Held(h) \o <<v>>
    <3>1. Held(h) = got[h] \o batch[h]
      BY <1>1, <1>5, HeldNow
    <3>2. channel'[h] # <<Closed>>
      <4>1. v # Closed
        BY <1>1 DEF v, Closed
      <4> QED BY <1>6, <4>1
    <3>3. Held(h)' = got'[h] \o batch'[h] \o channel'[h]
      BY <1>1, <1>2, <1>5, <3>2, HeldNext
    <3> QED BY <1>2, <1>6, <3>1, <3>3
  <2>3. \A d \in Callers \ {h} : Held(d)' = Held(d)
    BY <1>2, <1>6, HeldSame
  <2> QED BY <1>1, <1>2, <1>5, <2>1, <2>2, <2>3, HeldGiven
<1>14. FinishedMeansDrained'
  BY <1>2, <1>4 DEF FinishedMeansDrained
<1> QED BY <1>8, <1>10, <1>11, <1>12, <1>13, <1>14 DEF AccountInv

\* Lists and offers are untouched, the queue itself takes the value in.
LEMMA QueuedOffer ==
  ASSUME AccountInv, QueueInv', NEW c \in Callers, offered' = offered + 1,
         ~closed, takers = <<>>, offerers = <<>>, Line' = Append(Line, offered + 1),
         accepted' = accepted \cup {offered + 1},
         Entered \subseteq Entered', offered + 1 \in Entered',
         UNCHANGED <<takers, offerers, closed, calls, got, rejected, finished>>,
         HeldInv'
  PROVE  AccountInv'
<1>1. TypeOK /\ LineInv /\ ListsInv /\ CallsInv /\ AnswersInv
  BY DEF AccountInv, QueueInv
<1>2. /\ LineInv' /\ ToSet(Line)' = ToSet(Line) \cup {offered + 1}
      /\ offered \in Nat /\ offered' \in Nat /\ offered <= offered'
  BY <1>1, LineGrows
<1>3. AnswersInv'
  BY <1>1, <1>2, AnswersGrow
<1>4. Len(detached) = 0 /\ ~finished
  BY OpenFacts
<1>5. ListsInv'
  <2>1. Len(takers) = 0 /\ Len(offerers) = 0
    BY EmptySeq
  <2>2. takers' = takers /\ offerers' = offerers /\ detached' = detached
    BY DEF calls
  <2> QED BY <1>1, <1>4, <2>1, <2>2 DEF ListsInv
<1>6. ASSUME NEW d \in Callers PROVE CallInv(d)'
  <2>1. CallInv(d) /\ pc' = pc /\ value' = value /\ batch' = batch /\ channel' = channel
    BY <1>1 DEF CallsInv, calls
  <2> QED BY <1>2, <2>1, CallKept
<1>7. FinishedMeansDrained'
  BY <1>4 DEF FinishedMeansDrained
<1> QED BY <1>2, <1>3, <1>5, <1>6, <1>7 DEF AccountInv, CallsInv

LEMMA EnqueueAccount ==
  ASSUME AccountInv, QueueInv', NEW c \in Callers, offered' = offered + 1,
         Enqueue(c, offered + 1)
  PROVE  AccountInv'
<1> DEFINE v == offered + 1
<1>1. /\ TypeOK /\ TypeOK' /\ WaitersJustified /\ HeldInv
      /\ v \in Nat /\ left \in Seq(Nat) /\ items \in Seq(Nat) /\ capacity \in Nat
  BY DEF AccountInv, QueueInv, TypeOK
<1>2. /\ ~closed /\ takers = <<>> /\ HasRoom /\ items' = Append(items, v)
      /\ accepted' = accepted \cup {v}
      /\ UNCHANGED <<capacity, policy, takers, offerers, closed, calls,
                     left, dropped, got, rejected, finished>>
  BY DEF Enqueue
<1>3. offerers = <<>>
  <2>1. Len(items) \in Nat
    BY <1>1, LenProperties
  <2> QED BY <1>1, <1>2, <2>1 DEF HasRoom, WaitersJustified
<1>4. Line' = Append(Line, v)
  <2>1. Line = left \o items /\ Line' = left' \o items'
    BY <1>1, <1>2, <1>3, LineShort, LineShortNext
  <2> HIDE DEF v
  <2>2. left \o Append(items, v) = Append(left \o items, v)
    BY <1>1, AppendBehind
  <2> QED BY <1>2, <2>1, <2>2
<1>5. Entered \subseteq Entered' /\ v \in Entered'
  <2> HIDE DEF v
  <2>1. ToSet(Append(items, v)) = ToSet(items) \cup {v}
    BY <1>1, ToSetAppend
  <2>2. ToSet(items)' = ToSet(items) \cup {v} /\ ToSet(left)' = ToSet(left)
    BY <1>2, <2>1 DEF ToSet
  <2> QED BY <2>2 DEF Entered
<1>6. HeldInv'
  <2>1. \A d \in Callers : Held(d)' = Held(d)
    BY <1>2, HeldSame DEF calls
  <2> QED BY <1>1, <1>2, <2>1, HeldKept
<1> QED BY <1>2, <1>3, <1>4, <1>5, <1>6, QueuedOffer

LEMMA DropOldestAccount ==
  ASSUME AccountInv, QueueInv', NEW c \in Callers, offered' = offered + 1,
         AdmitDropOldest(c, offered + 1)
  PROVE  AccountInv'
<1> DEFINE v == offered + 1
           r == Tail(items)
<1>1. /\ TypeOK /\ TypeOK' /\ WaitersJustified /\ HeldInv /\ LineInv
      /\ v \in Nat /\ left \in Seq(Nat) /\ items \in Seq(Nat) /\ capacity \in Nat
  BY DEF AccountInv, QueueInv, TypeOK
<1>2. /\ ~closed /\ takers = <<>> /\ ~HasRoom /\ policy = "DropOldest"
      /\ items' = Append(r, v) /\ left' = Append(left, Head(items))
      /\ dropped' = dropped \cup {Head(items)} /\ accepted' = accepted \cup {v}
      /\ UNCHANGED <<capacity, policy, takers, offerers, closed, calls,
                     got, rejected, finished>>
  BY DEF AdmitDropOldest
<1>3. offerers = <<>> /\ items # <<>>
  <2>1. offerers = <<>>
    BY <1>1, <1>2 DEF WaitersJustified
  <2>2. Len(items) \in Nat /\ ~(Len(items) < capacity) /\ capacity # 0
    BY <1>1, <1>2, LenProperties DEF HasRoom
  <2>3. Len(items) # 0
    BY <1>1, <2>2
  <2> QED BY <1>1, <2>1, <2>3, EmptySeq
<1>4. PICK h \in Nat : h = Head(items)
  BY <1>1, <1>3, HeadTail
<1>5. /\ r \in Seq(Nat) /\ <<h>> \in Seq(Nat) /\ items = <<h>> \o r
      /\ ToSet(items) = {h} \cup ToSet(r)
  BY <1>1, <1>3, <1>4, HeadTail
<1> HIDE DEF v, r
<1>6. Line = left \o items /\ Line' = left' \o items'
  BY <1>1, <1>2, <1>3, LineShort, LineShortNext
<1>7. Line' = Append(Line, v)
  <2>1. left' = left \o <<h>> /\ left \o <<h>> \in Seq(Nat)
    BY <1>1, <1>2, <1>4, <1>5, AppendIsConcat, ConcatType
  <2>2. left' \o Append(r, v) = Append(left' \o r, v)
    <3>1. left' \in Seq(Nat) /\ r \in Seq(Nat) /\ v \in Nat
      BY <1>1, <1>5, <2>1
    <3> QED BY ONLY <3>1, AppendBehind
  <2>3. (left \o <<h>>) \o r = left \o (<<h>> \o r)
    BY <1>1, <1>5, ConcatAssociative
  <2>4. left' \o r = left \o items
    BY <1>5, <2>1, <2>3
  <2> QED BY <1>2, <1>6, <2>2, <2>4
<1>8. ToSet(left)' = ToSet(left) \cup {h} /\ ToSet(items)' = ToSet(r) \cup {v}
  <2>1. ToSet(Append(left, h)) = ToSet(left) \cup {h}
    BY <1>1, ToSetAppend
  <2>2. ToSet(Append(r, v)) = ToSet(r) \cup {v}
    BY <1>1, <1>5, ToSetAppend
  <2> QED BY <1>2, <1>4, <2>1, <2>2 DEF ToSet
<1>9. Entered \subseteq Entered' /\ v \in Entered'
  BY <1>5, <1>8 DEF Entered
<1>10. h \notin ToSet(left)
  <2>1. Backlog = items /\ \A x \in ToSet(left), y \in ToSet(Backlog) : x < y
    BY <1>1, <1>3, LineShort, LineOrder DEF LineInv
  <2>2. ~(h < h)
    OBVIOUS
  <2> QED BY <1>5, <2>1, <2>2
<1>11. HeldInv'
  <2>1. \A d \in Callers : Held(d)' = Held(d)
    BY <1>2, HeldSame DEF calls
  <2>2. \A d \in Callers : ToSet(Held(d))' = ToSet(Held(d))
    BY <2>1 DEF ToSet
  <2>3. ToSet(left)' \ dropped' = ToSet(left) \ dropped
    BY <1>2, <1>4, <1>8, <1>10
  <2>4. UNION {ToSet(Held(d))' : d \in Callers} = UNION {ToSet(Held(d)) : d \in Callers}
    BY <2>2
  <2>5. NothingLost'
    BY <1>1, <2>2, <2>3, <2>4 DEF HeldInv, NothingLost
  <2>6. ConsumerOrder'
    BY <1>1, <2>1 DEF HeldInv, ConsumerOrder, Increasing
  <2>7. dropped' \subseteq ToSet(left)'
    BY <1>1, <1>2, <1>4, <1>8 DEF HeldInv
  <2> QED BY <2>5, <2>6, <2>7 DEF HeldInv
<1> QED BY <1>2, <1>3, <1>7, <1>9, <1>11, QueuedOffer DEF v

LEMMA BackPressureAccount ==
  ASSUME AccountInv, QueueInv', NEW c \in Callers, offered' = offered + 1, pc[c] = "idle",
         AdmitBackPressure(c, offered + 1)
  PROVE  AccountInv'
<1> DEFINE v == offered + 1
<1>1. /\ TypeOK /\ TypeOK' /\ LineInv /\ ListsInv /\ CallsInv /\ AnswersInv /\ HeldInv
      /\ v \in Nat /\ left \in Seq(Nat) /\ items \in Seq(Nat) /\ offerers \in Seq(Callers)
      /\ offered \in Nat
  BY DEF AccountInv, QueueInv, TypeOK
<1>2. /\ ~closed /\ takers = <<>> /\ offerers' = Append(offerers, c)
      /\ pc' = [pc EXCEPT ![c] = "awaitRoom"] /\ value' = [value EXCEPT ![c] = v]
      /\ UNCHANGED <<items, capacity, policy, takers, closed, limit, batch, channel,
                   cancelled, detached, left, dropped, got, accepted, rejected, finished>>
  BY DEF AdmitBackPressure
<1> HIDE DEF v
<1>3. /\ pc'[c] = "awaitRoom" /\ value'[c] = v
      /\ \A d \in Callers \ {c} : pc'[d] = pc[d] /\ value'[d] = value[d]
  BY <1>1, <1>2 DEF TypeOK
<1>4. /\ \A i \in 1..Len(takers) : takers[i] # c
      /\ \A i \in 1..Len(offerers) : offerers[i] # c /\ offerers[i] \in Callers
      /\ \A i \in 1..Len(detached) : detached[i] # c
  <2>1. pc[c] \notin Waits
    BY DEF Waits
  <2> QED BY <1>1, <2>1, OffLists, ElementOfSeq
<1>5. /\ NoRepeats(offerers') /\ Len(offerers') = Len(offerers) + 1 /\ Len(offerers) \in Nat
      /\ \A i \in 1..Len(offerers) : offerers'[i] = offerers[i]
      /\ offerers'[Len(offerers) + 1] = c
  <2>1. NoRepeats(offerers)
    BY <1>1, LineOrder DEF LineInv
  <2>2. /\ offerers \in Seq(Callers) /\ c \in Callers /\ offerers' = Append(offerers, c)
        /\ \A i \in 1..Len(offerers) : offerers[i] # c
    BY <1>1, <1>2, <1>4
  <2> QED BY ONLY <2>1, <2>2, NoRepeatsAppend
<1>6. Parked' = Append(Parked, v)
  <2>1. /\ Parked \in Seq(Nat) /\ Len(Parked) = Len(offerers)
        /\ \A i \in 1..Len(offerers) : Parked[i] = value[offerers[i]]
    BY <1>1, ParkedFacts
  <2>2. /\ Parked' \in Seq(Nat) /\ Len(Parked') = Len(offerers')
        /\ \A i \in 1..Len(offerers') : Parked'[i] = value'[offerers'[i]]
    BY <1>1, ParkedFactsNext
  <2> DEFINE a == Append(Parked, v)
  <2>3. /\ a \in Seq(Nat) /\ Len(a) = Len(Parked) + 1 /\ a[Len(Parked) + 1] = v
        /\ \A i \in 1..Len(Parked) : a[i] = Parked[i]
    BY <1>1, <2>1, AppendProperties
  <2> HIDE DEF a
  <2>4. Len(a) = Len(Parked')
    BY <1>5, <2>1, <2>2, <2>3
  <2>5. ASSUME NEW i \in 1..Len(a) PROVE a[i] = Parked'[i]
    <3>1. Parked'[i] = value'[offerers'[i]]
      BY <2>2, <2>4
    <3>2. i \in 1..Len(offerers) \/ i = Len(offerers) + 1
      BY <1>5, <2>1, <2>3
    <3>3. CASE i \in 1..Len(offerers)
      <4>1. offerers'[i] = offerers[i] /\ a[i] = Parked[i] /\ Parked[i] = value[offerers[i]]
        BY <1>5, <2>1, <2>3, <3>3
      <4>2. value'[offerers[i]] = value[offerers[i]]
        BY <1>3, <1>4, <3>3
      <4> QED BY <3>1, <4>1, <4>2
    <3>4. CASE i = Len(offerers) + 1
      BY <1>3, <1>5, <2>1, <2>3, <3>1, <3>4
    <3> QED BY <3>2, <3>3, <3>4
  <2>6. a = Parked'
    BY <2>2, <2>3, <2>4, <2>5, SeqEqual
  <2> QED BY <2>6 DEF a
<1>7. Line' = Append(Line, v)
  <2>1. Parked \in Seq(Nat) /\ Backlog \in Seq(Nat)
    BY <1>1, ParkedType, LineFacts
  <2>2. items \o Append(Parked, v) = Append(items \o Parked, v)
    <3>1. items \in Seq(Nat) /\ Parked \in Seq(Nat) /\ v \in Nat
      BY <1>1, <2>1
    <3> QED BY ONLY <3>1, LineAppendBehind, Zenon
  <2>3. Backlog' = Append(Backlog, v)
    BY <1>2, <1>6, <2>2 DEF Backlog
  <2>4. left \o Append(Backlog, v) = Append(left \o Backlog, v)
    <3>1. left \in Seq(Nat) /\ Backlog \in Seq(Nat) /\ v \in Nat
      BY <1>1, <2>1
    <3> QED BY ONLY <3>1, AppendBehind
  <2> QED BY <1>2, <2>3, <2>4 DEF Line
<1>8. /\ LineInv' /\ ToSet(Line)' = ToSet(Line) \cup {v}
      /\ offered' \in Nat /\ offered <= offered' /\ v \in 1..offered'
  BY <1>1, <1>7, LineGrows DEF v
<1>9. Entered' = Entered
  BY <1>2 DEF Entered
<1>10. AnswersInv'
  BY <1>1, <1>2, <1>8, <1>9, AnswersGrow DEF v
<1>11. Len(detached) = 0 /\ ~finished
  BY <1>2, OpenFacts
<1>12. ListsInv'
  <2>1. Len(takers) = 0
    BY <1>2, EmptySeq
  <2>2. channel[c] = <<>>
    <3>1. CallInv(c)
      BY <1>1 DEF CallsInv
    <3> QED BY <3>1 DEF CallInv, Waits
  <2>3. ASSUME NEW i \in 1..Len(offerers')
        PROVE  pc'[offerers'[i]] \in RoomWaits /\ channel'[offerers'[i]] = <<>>
    <3>1. i \in 1..Len(offerers) \/ i = Len(offerers) + 1
      BY <1>5
    <3>2. CASE i \in 1..Len(offerers)
      BY <1>1, <1>2, <1>3, <1>4, <1>5, <3>2 DEF ListsInv
    <3>3. CASE i = Len(offerers) + 1
      BY <1>2, <1>3, <1>5, <2>2, <3>3 DEF RoomWaits
    <3> QED BY <3>1, <3>2, <3>3
  <2> QED BY <1>1, <1>2, <1>11, <2>1, <2>3 DEF ListsInv
<1>13. CallsInv'
  <2>1. ASSUME NEW d \in Callers \ {c} PROVE CallInv(d)'
    <3>1. CallInv(d)
      BY <1>1 DEF CallsInv
    <3>2. (\E i \in 1..Len(offerers) : offerers[i] = d)
             => (\E i \in 1..Len(offerers') : offerers'[i] = d)
      <4>1. \A i \in 1..Len(offerers) : i \in 1..Len(offerers')
        BY <1>5
      <4> QED BY <1>5, <4>1
    <3> QED BY <1>1, <1>2, <1>3, <1>8, <1>9, <3>1, <3>2, CallKept
  <2>2. CallInv(c)'
    <3>1. CallInv(c)
      BY <1>1 DEF CallsInv
    <3>2. channel'[c] = <<>> /\ batch'[c] = <<>>
      BY <1>2, <3>1 DEF CallInv, Waits
    <3>3. \E i \in 1..Len(offerers') : offerers'[i] = c
      <4>1. Len(offerers) + 1 \in 1..Len(offerers')
        BY <1>5
      <4> QED BY <1>5, <4>1
    <3>4. RoomState(c)'
      BY <3>2, <3>3 DEF RoomState
    <3> QED BY <1>3, <1>8, <3>2, <3>4 DEF CallInv, ValueWaits
  <2> QED BY <2>1, <2>2 DEF CallsInv
<1>14. HeldInv'
  <2>1. ASSUME NEW d \in Callers PROVE Held(d)' = Held(d)
    <3>1. CASE d # c
      BY <1>2, <1>3, <3>1, HeldSame
    <3>2. CASE d = c
      <4>1. pc[c] \notin ValueWaits /\ pc'[c] \notin ValueWaits
        BY <1>3 DEF ValueWaits
      <4>2. Held(c) = got[c] \o batch[c] /\ Held(c)' = got'[c] \o batch'[c]
        BY <1>1, <4>1, HeldNow, HeldNext
      <4> QED BY <1>2, <3>2, <4>2
    <3> QED BY <3>1, <3>2
  <2> QED BY <1>1, <1>2, <2>1, HeldKept
<1>15. FinishedMeansDrained'
  BY <1>2, <1>11 DEF FinishedMeansDrained
<1> QED BY <1>8, <1>10, <1>12, <1>13, <1>14, <1>15 DEF AccountInv

LEMMA OfferAccount ==
  ASSUME AccountInv, NEW c \in Callers, Offer(c)
  PROVE  AccountInv'
<1>1. QueueInv' /\ offered' = offered + 1 /\ pc[c] = "idle"
  BY OfferInv DEF AccountInv, Offer
<1>2. CASE OfferClosed(c, offered + 1) \/ AdmitDropNewest(c, offered + 1)
  BY <1>1, <1>2, DeclinedOffer DEF OfferClosed, AdmitDropNewest
<1> QED BY <1>1, <1>2, HandOffAccount, EnqueueAccount, DropOldestAccount, BackPressureAccount
        DEF Offer
----------------------------------------------------------------------------
(* Waiters that come and go *)

LEMMA TakeParkAccount ==
  ASSUME AccountInv, NEW c \in Callers, NEW lim \in Nat, pc[c] = "idle", TakePark(c, lim)
  PROVE  AccountInv'
<1>1. /\ QueueInv /\ TypeOK /\ LineInv /\ ListsInv /\ CallsInv /\ AnswersInv /\ HeldInv
      /\ takers \in Seq(Callers) /\ offerers \in Seq(Callers) /\ offered \in Nat
  BY DEF AccountInv, QueueInv, TypeOK
<1>2. QueueInv' /\ TypeOK'
  <2>1. QueueInv'
    BY <1>1, TakeInv DEF TakeOrPark
  <2> QED BY <2>1 DEF QueueInv
<1>3. /\ ~closed /\ takers' = Append(takers, c) /\ pc' = [pc EXCEPT ![c] = "awaitValue"]
      /\ UNCHANGED <<items, capacity, policy, offerers, closed, value, batch, channel,
                     cancelled, detached, history>>
  BY DEF TakePark
<1>4. pc'[c] = "awaitValue" /\ (\A d \in Callers \ {c} : pc'[d] = pc[d])
  BY <1>1, <1>3 DEF TypeOK
<1>5. /\ \A i \in 1..Len(takers) : takers[i] # c /\ takers[i] \in Callers
      /\ \A i \in 1..Len(offerers) : offerers[i] # c /\ offerers[i] \in Callers
  <2>1. pc[c] \notin Waits
    BY DEF Waits
  <2> QED BY <1>1, <2>1, OffLists, ElementOfSeq
<1>6. UNCHANGED <<offered, left, dropped, got, accepted, rejected, finished>>
  BY <1>3 DEF history
<1>7. Backlog' = Backlog /\ Line' = Line /\ Entered' = Entered
  BY <1>1, <1>3, <1>6, LineKept
<1>8. CallInv(c) /\ channel[c] = <<>> /\ batch[c] = <<>>
  BY <1>1 DEF CallsInv, CallInv, Waits
<1>9. LineInv' /\ AnswersInv'
  BY <1>1, <1>6, <1>7 DEF LineInv, AnswersInv, Increasing, ToSet
<1>10. Len(detached) = 0 /\ ~finished
  BY <1>3, OpenFacts
<1>11. ListsInv'
  <2>1. /\ NoRepeats(takers') /\ Len(takers') = Len(takers) + 1 /\ Len(takers) \in Nat
        /\ \A i \in 1..Len(takers) : takers'[i] = takers[i]
        /\ takers'[Len(takers) + 1] = c
    <3>1. takers \in Seq(Callers) /\ NoRepeats(takers) /\ \A i \in 1..Len(takers) : takers[i] # c
      BY <1>1, <1>5 DEF ListsInv
    <3>2. takers' = Append(takers, c)
      BY <1>3
    <3> QED BY <3>1, <3>2, NoRepeatsAppend
  <2>2. ASSUME NEW i \in 1..Len(takers')
        PROVE  pc'[takers'[i]] \in ValueWaits /\ channel'[takers'[i]] = <<>>
    <3>1. i \in 1..Len(takers) \/ i = Len(takers) + 1
      BY <2>1
    <3>2. CASE i \in 1..Len(takers)
      BY <1>1, <1>3, <1>4, <1>5, <2>1, <3>2 DEF ListsInv
    <3>3. CASE i = Len(takers) + 1
      BY <1>3, <1>4, <1>8, <2>1, <3>3 DEF ValueWaits
    <3> QED BY <3>1, <3>2, <3>3
  <2>3. \A i \in 1..Len(offerers) :
           pc'[offerers[i]] \in RoomWaits /\ channel'[offerers[i]] = <<>>
    BY <1>1, <1>3, <1>4, <1>5 DEF ListsInv
  <2> QED BY <1>1, <1>3, <1>10, <2>1, <2>2, <2>3 DEF ListsInv
<1>12. CallsInv'
  <2>1. ASSUME NEW d \in Callers \ {c} PROVE CallInv(d)'
    <3>1. CallInv(d)
      BY <1>1 DEF CallsInv
    <3> QED BY <1>1, <1>3, <1>4, <1>6, <1>7, <3>1, CallKept
  <2>2. CallInv(c)'
    BY <1>3, <1>4, <1>8 DEF CallInv, ValueState, RoomWaits
  <2> QED BY <2>1, <2>2 DEF CallsInv
<1>13. HeldInv'
  <2>1. ASSUME NEW d \in Callers PROVE Held(d)' = Held(d)
    <3>1. CASE d # c
      BY <1>3, <1>4, <1>6, <3>1, HeldSame
    <3>2. CASE d = c
      <4>1. Held(c) = got[c] \o batch[c] /\ Held(c)' = got'[c] \o batch'[c]
        BY <1>1, <1>2, <1>3, <1>8, HeldNow, HeldNext
      <4> QED BY <1>3, <1>6, <3>2, <4>1
    <3> QED BY <3>1, <3>2
  <2> QED BY <1>1, <1>6, <2>1, HeldKept
<1>14. FinishedMeansDrained'
  BY <1>6, <1>10 DEF FinishedMeansDrained
<1> QED BY <1>2, <1>9, <1>11, <1>12, <1>13, <1>14 DEF AccountInv

LEMMA AbandonTakerAccount ==
  ASSUME AccountInv, NEW c \in Callers, AbandonTaker(c)
  PROVE  AccountInv'
<1>1. /\ QueueInv /\ TypeOK /\ WaitersJustified /\ LineInv /\ ListsInv /\ CallsInv /\ AnswersInv
      /\ HeldInv /\ takers \in Seq(Callers) /\ offerers \in Seq(Callers) /\ offered \in Nat
      /\ DOMAIN takers = 1..Len(takers)
  <2>1. takers \in Seq(Callers)
    BY DEF AccountInv, QueueInv, TypeOK
  <2> QED BY <2>1, LenProperties DEF AccountInv, QueueInv, TypeOK
<1>2. QueueInv' /\ TypeOK'
  <2>1. QueueInv'
    BY <1>1, AbandonTakerInv
  <2> QED BY <2>1 DEF QueueInv
<1>3. CASE \A i \in DOMAIN takers : takers[i] # c
  BY <1>3, QuietSteps
<1>4. ASSUME NEW i \in DOMAIN takers, takers[i] = c, takers' = RemoveAt(takers, i), Return(c)
      PROVE  AccountInv'
  <2>1. /\ UNCHANGED <<items, capacity, policy, offerers, closed, channel, detached>>
        /\ UNCHANGED <<offered, left, dropped, got, accepted, rejected, finished>>
    BY DEF AbandonTaker, history
  <2>2. /\ pc'[c] = "idle" /\ batch'[c] = <<>>
        /\ \A d \in Callers \ {c} : pc'[d] = pc[d] /\ value'[d] = value[d] /\ batch'[d] = batch[d]
    BY <1>1, <1>4, ReturnFacts
  <2>3. i \in 1..Len(takers) /\ channel[c] = <<>> /\ pc[c] \in ValueWaits
    BY <1>1, <1>4 DEF ListsInv
  <2>4. ~closed
    BY <1>1, <2>3, EmptySeq DEF WaitersJustified
  <2>5. Len(detached) = 0 /\ ~finished
    BY <2>4, OpenFacts
  <2>6. \A j \in 1..Len(offerers) : offerers[j] # c /\ offerers[j] \in Callers
    <3>1. \A j \in 1..Len(offerers) : offerers[j] # c
      BY <1>1, <2>3 DEF ListsInv, ValueWaits, RoomWaits
    <3> QED BY <1>1, <3>1, ElementOfSeq
  <2>7. Backlog' = Backlog /\ Line' = Line /\ Entered' = Entered
    BY <1>1, <2>1, <2>2, <2>6, LineKept
  <2>8. LineInv' /\ AnswersInv'
    BY <1>1, <2>1, <2>7 DEF LineInv, AnswersInv, Increasing, ToSet
  <2>9. ListsInv'
    <3>1. /\ NoRepeats(takers')
          /\ \A j \in 1..Len(takers') :
                takers'[j] # c /\ \E k \in 1..Len(takers) : takers[k] = takers'[j]
      BY <1>1, <1>4, <2>3, NoRepeatsRemove DEF ListsInv
    <3>2. \A k \in 1..Len(takers) : takers[k] \in Callers
      BY <1>1, ElementOfSeq
    <3>3. \A j \in 1..Len(takers') : pc'[takers'[j]] \in ValueWaits /\ channel'[takers'[j]] = <<>>
      BY <1>1, <2>1, <2>2, <3>1, <3>2 DEF ListsInv
    <3>4. \A j \in 1..Len(offerers) : pc'[offerers[j]] \in RoomWaits /\ channel'[offerers[j]] = <<>>
      BY <1>1, <2>1, <2>2, <2>6 DEF ListsInv
    <3> QED BY <1>1, <2>1, <2>5, <3>1, <3>3, <3>4 DEF ListsInv
  <2>10. CallsInv'
    <3>1. ASSUME NEW d \in Callers \ {c} PROVE CallInv(d)'
      <4>1. CallInv(d)
        BY <1>1 DEF CallsInv
      <4> QED BY <1>1, <2>1, <2>2, <2>4, <2>7, <4>1, CallKept
    <3>2. CallInv(c)'
      BY <2>1, <2>2, <2>3, IdleCall
    <3> QED BY <3>1, <3>2 DEF CallsInv
  <2>11. HeldInv'
    <3>1. ASSUME NEW d \in Callers PROVE Held(d)' = Held(d)
      <4>1. CASE d # c
        BY <2>1, <2>2, <4>1, HeldSame
      <4>2. CASE d = c
        <5>1. Held(c) = got[c] \o batch[c] /\ Held(c)' = got'[c] \o batch'[c]
          BY <1>1, <1>2, <2>1, <2>3, HeldNow, HeldNext
        <5>2. batch[c] = <<>>
          BY <1>1, <2>3 DEF CallsInv, CallInv, ValueWaits
        <5> QED BY <2>1, <2>2, <4>2, <5>1, <5>2
      <4> QED BY <4>1, <4>2
    <3> QED BY <1>1, <2>1, <3>1, HeldKept
  <2>12. FinishedMeansDrained'
    BY <2>1, <2>5 DEF FinishedMeansDrained
  <2> QED BY <1>2, <2>8, <2>9, <2>10, <2>11, <2>12 DEF AccountInv
<1> QED BY <1>3, <1>4 DEF AbandonTaker

\* The withdrawn value leaves the line; it had not entered the queue.
LEMMA AbandonOffererAccount ==
  ASSUME AccountInv, NEW c \in Callers, AbandonOfferer(c)
  PROVE  AccountInv'
<1>1. /\ QueueInv /\ TypeOK /\ WaitersJustified /\ LineInv /\ ListsInv /\ CallsInv /\ AnswersInv
      /\ HeldInv /\ takers \in Seq(Callers) /\ offerers \in Seq(Callers) /\ offered \in Nat
      /\ items \in Seq(Nat) /\ left \in Seq(Nat)
      /\ DOMAIN offerers = 1..Len(offerers)
  <2>1. offerers \in Seq(Callers)
    BY DEF AccountInv, QueueInv, TypeOK
  <2> QED BY <2>1, LenProperties DEF AccountInv, QueueInv, TypeOK
<1>2. QueueInv' /\ TypeOK'
  <2>1. QueueInv'
    BY <1>1, AbandonOffererInv
  <2> QED BY <2>1 DEF QueueInv
<1>3. CASE \A i \in DOMAIN offerers : offerers[i] # c
  BY <1>3, QuietSteps
<1>4. ASSUME NEW i \in DOMAIN offerers, offerers[i] = c, offerers' = RemoveAt(offerers, i),
             rejected' = rejected \cup {value[c]}, Return(c)
      PROVE  AccountInv'
  <2>1. UNCHANGED <<items, capacity, policy, takers, closed, channel, detached,
                    offered, left, dropped, got, accepted, finished>>
    BY DEF AbandonOfferer
  <2>2. /\ pc'[c] = "idle" /\ batch'[c] = <<>>
        /\ \A d \in Callers \ {c} : pc'[d] = pc[d] /\ value'[d] = value[d] /\ batch'[d] = batch[d]
    BY <1>1, <1>4, ReturnFacts
  <2>3. i \in 1..Len(offerers) /\ channel[c] = <<>> /\ pc[c] \in RoomWaits
        /\ value[c] \in 1..offered
    <3>1. i \in 1..Len(offerers) /\ channel[c] = <<>> /\ pc[c] \in RoomWaits
      BY <1>1, <1>4 DEF ListsInv
    <3> QED BY <1>1, <3>1 DEF CallsInv, CallInv
  <2>4. ~closed
    BY <1>1, <2>3, EmptySeq DEF WaitersJustified
  <2>5. Len(detached) = 0 /\ ~finished
    BY <2>4, OpenFacts
  <2>6. NoRepeats(offerers) /\ Increasing(Line)
    BY <1>1, LineOrder DEF LineInv
  <2>7. /\ offerers' \in Seq(Callers) /\ Len(offerers') = Len(offerers) - 1
        /\ \A j \in 1..Len(offerers) - 1 :
              offerers'[j] = IF j < i THEN offerers[j] ELSE offerers[j + 1]
        /\ \A j \in 1..Len(offerers') :
              offerers'[j] # c /\ \E k \in 1..Len(offerers) : offerers[k] = offerers'[j]
        /\ \A k \in 1..Len(offerers) :
              offerers[k] # c => \E j \in 1..Len(offerers') : offerers'[j] = offerers[k]
    <3> DEFINE r == RemoveAt(offerers, i)
    <3>0. offerers \in Seq(Callers) /\ i \in 1..Len(offerers) /\ NoRepeats(offerers)
      BY <1>1, <2>3, <2>6
    <3>1. /\ r \in Seq(Callers) /\ Len(r) = Len(offerers) - 1
          /\ \A j \in 1..Len(offerers) - 1 :
                r[j] = IF j < i THEN offerers[j] ELSE offerers[j + 1]
      BY <3>0, RemoveAtFacts
    <3>2. /\ \A j \in 1..Len(r) :
                r[j] # offerers[i] /\ \E k \in 1..Len(offerers) : offerers[k] = r[j]
          /\ \A k \in 1..Len(offerers) :
                offerers[k] # offerers[i] => \E j \in 1..Len(r) : r[j] = offerers[k]
      BY <3>0, NoRepeatsRemove
    <3>3. offerers' = r /\ offerers[i] = c
      BY <1>4
    <3> HIDE DEF r
    <3> QED BY <3>1, <3>2, <3>3
  <2>8. /\ Parked \in Seq(Nat) /\ Len(Parked) = Len(offerers)
        /\ \A j \in 1..Len(offerers) : Parked[j] = value[offerers[j]]
    BY <1>1, ParkedFacts
  <2>9. Parked' = RemoveAt(Parked, i)
    <3> DEFINE r == RemoveAt(Parked, i)
    <3>1. /\ r \in Seq(Nat) /\ Len(r) = Len(Parked) - 1
          /\ \A j \in 1..Len(Parked) - 1 : r[j] = IF j < i THEN Parked[j] ELSE Parked[j + 1]
      <4>1. Parked \in Seq(Nat) /\ i \in 1..Len(Parked)
        BY <2>3, <2>8
      <4> QED BY <4>1, RemoveAtFacts
    <3> HIDE DEF r
    <3>2. /\ Parked' \in Seq(Nat) /\ Len(Parked') = Len(offerers')
          /\ \A j \in 1..Len(offerers') : Parked'[j] = value'[offerers'[j]]
      BY <1>2, ParkedFactsNext
    <3>3. Len(r) = Len(Parked') /\ Len(offerers) \in Nat
      BY <1>1, <2>7, <2>8, <3>1, <3>2, LenProperties
    <3>4. ASSUME NEW j \in 1..Len(r) PROVE r[j] = Parked'[j]
      <4>1. offerers'[j] # c /\ offerers'[j] \in Callers /\ j \in 1..Len(offerers') /\ j \in 1..Len(offerers) - 1
        BY <2>7, <3>2, <3>3, ElementOfSeq
      <4>2. Parked'[j] = value[offerers'[j]]
        BY <2>2, <3>2, <4>1
      <4>3. CASE j < i
        <5>0. j \in 1..Len(offerers) /\ j \in 1..Len(Parked) - 1
          BY <2>8, <3>3, <4>1
        <5>1. offerers'[j] = offerers[j] /\ j \in 1..Len(offerers) /\ r[j] = Parked[j]
          BY <2>7, <3>1, <4>1, <4>3, <5>0
        <5> QED BY <2>8, <4>2, <5>1
      <4>4. CASE ~(j < i)
        <5>0. j + 1 \in 1..Len(offerers) /\ j \in 1..Len(Parked) - 1
          BY <2>8, <3>3, <4>1
        <5>1. offerers'[j] = offerers[j + 1]
          BY <2>7, <4>1, <4>4
        <5>2. r[j] = Parked[j + 1]
          BY <3>1, <4>4, <5>0
        <5> QED BY <2>8, <4>2, <5>0, <5>1, <5>2
      <4> QED BY <4>3, <4>4
    <3>5. r = Parked'
      BY <3>1, <3>2, <3>3, <3>4, SeqEqual
    <3> QED BY <3>5 DEF r
  <2>10. /\ LineInv' /\ ToSet(Line)' = ToSet(Line) \ {value[c]}
    <3>0. i \in 1..Len(Parked) /\ Parked[i] = value[c] /\ Backlog \in Seq(Nat) /\ Line \in Seq(Nat)
      BY <1>1, <1>4, <2>3, <2>8, LineFacts
    <3> DEFINE k == Len(items) + i
    <3>1. /\ items \o RemoveAt(Parked, i) = RemoveAt(items \o Parked, k)
          /\ k \in 1..Len(items \o Parked) /\ (items \o Parked)[k] = Parked[i]
      <4>1. items \in Seq(Nat) /\ Parked \in Seq(Nat) /\ i \in 1..Len(Parked)
        BY <1>1, <2>8, <3>0
      <4> QED BY ONLY <4>1, LineRemoveBehind
    <3>2. Backlog' = RemoveAt(Backlog, k) /\ k \in 1..Len(Backlog) /\ Backlog[k] = value[c]
      BY <2>1, <2>9, <3>0, <3>1 DEF Backlog
    <3> HIDE DEF k
    <3> DEFINE m == Len(left) + k
    <3>3. /\ left \o RemoveAt(Backlog, k) = RemoveAt(left \o Backlog, m)
          /\ m \in 1..Len(left \o Backlog) /\ (left \o Backlog)[m] = Backlog[k]
      <4>1. left \in Seq(Nat) /\ Backlog \in Seq(Nat) /\ k \in 1..Len(Backlog)
        BY <1>1, <3>0, <3>2
      <4> QED BY ONLY <4>1, LineRemoveBehind
    <3>4. Line' = RemoveAt(Line, m) /\ m \in 1..Len(Line) /\ Line[m] = value[c]
      BY <2>1, <3>2, <3>3 DEF Line
    <3> HIDE DEF m
    <3>5. Increasing(RemoveAt(Line, m)) /\ ToSet(RemoveAt(Line, m)) = ToSet(Line) \ {Line[m]}
      BY <2>6, <3>0, <3>4, IncreasingRemove
    <3>6. Increasing(Line') /\ ToSet(Line') = ToSet(Line) \ {value[c]}
      BY <3>4, <3>5
    <3>7. Increasing(Line)' /\ ToSet(Line)' = ToSet(Line) \ {value[c]}
      BY <3>6 DEF Increasing, ToSet
    <3> QED BY <1>1, <2>1, <3>7 DEF LineInv
  <2>11. Entered' = Entered
    BY <2>1 DEF Entered
  <2>12. AnswersInv'
    BY <1>1, <1>4, <2>1, <2>3, <2>10, <2>11 DEF AnswersInv
  <2>13. ListsInv'
    <3>1. \A k \in 1..Len(takers) : takers[k] \in Callers /\ takers[k] # c
      <4>1. \A k \in 1..Len(takers) : takers[k] # c
        BY <1>1, <2>3 DEF ListsInv, ValueWaits, RoomWaits
      <4> QED BY <1>1, <4>1, ElementOfSeq
    <3>2. \A k \in 1..Len(offerers) : offerers[k] \in Callers
      BY <1>1, ElementOfSeq
    <3>3. \A j \in 1..Len(takers) : pc'[takers[j]] \in ValueWaits /\ channel'[takers[j]] = <<>>
      BY <1>1, <2>1, <2>2, <3>1 DEF ListsInv
    <3>4. \A j \in 1..Len(offerers') :
             pc'[offerers'[j]] \in RoomWaits /\ channel'[offerers'[j]] = <<>>
      <4> SUFFICES ASSUME NEW j \in 1..Len(offerers')
                   PROVE  pc'[offerers'[j]] \in RoomWaits /\ channel'[offerers'[j]] = <<>>
        OBVIOUS
      <4>1. PICK k \in 1..Len(offerers) : offerers[k] = offerers'[j]
        BY <2>7
      <4>2. pc[offerers[k]] \in RoomWaits /\ channel[offerers[k]] = <<>>
            /\ offerers[k] \in Callers \ {c}
        BY <1>1, <2>7, <3>2, <4>1 DEF ListsInv
      <4> QED BY <2>1, <2>2, <4>1, <4>2
    <3> QED BY <1>1, <2>1, <2>5, <3>3, <3>4 DEF ListsInv
  <2>14. CallsInv'
    <3>1. ASSUME NEW d \in Callers \ {c} PROVE CallInv(d)'
      <4>1. CallInv(d)
        BY <1>1 DEF CallsInv
      <4>2. (\E k \in 1..Len(offerers) : offerers[k] = d)
               => (\E j \in 1..Len(offerers') : offerers'[j] = d)
        BY <2>7, <3>1
      <4> QED BY <1>1, <2>1, <2>2, <2>4, <2>11, <4>1, <4>2, CallKept
    <3>2. CallInv(c)'
      BY <2>1, <2>2, <2>3, IdleCall
    <3> QED BY <3>1, <3>2 DEF CallsInv
  <2>15. HeldInv'
    <3>1. ASSUME NEW d \in Callers PROVE Held(d)' = Held(d)
      <4>1. CASE d # c
        BY <2>1, <2>2, <4>1, HeldSame
      <4>2. CASE d = c
        <5>1. Held(c) = got[c] \o batch[c] /\ Held(c)' = got'[c] \o batch'[c]
          BY <1>1, <1>2, <2>1, <2>3, HeldNow, HeldNext
        <5>2. batch[c] = <<>>
          BY <1>1, <2>3 DEF CallsInv, CallInv, RoomWaits
        <5> QED BY <2>1, <2>2, <4>2, <5>1, <5>2
      <4> QED BY <4>1, <4>2
    <3> QED BY <1>1, <2>1, <3>1, HeldKept
  <2>16. FinishedMeansDrained'
    BY <2>1, <2>5 DEF FinishedMeansDrained
  <2> QED BY <1>2, <2>10, <2>12, <2>13, <2>14, <2>15, <2>16 DEF AccountInv
<1> QED BY <1>3, <1>4 DEF AbandonOfferer
LEMMA ShutdownAccount ==
  ASSUME AccountInv, NEW c \in Callers, Shutdown(c)
  PROVE  AccountInv'
<1>1. /\ QueueInv /\ TypeOK /\ WaitersJustified /\ LineInv /\ ListsInv /\ CallsInv /\ AnswersInv
      /\ HeldInv /\ takers \in Seq(Callers) /\ offerers \in Seq(Callers) /\ offered \in Nat
      /\ items \in Seq(Nat) /\ left \in Seq(Nat)
  BY DEF AccountInv, QueueInv, TypeOK
<1>2. QueueInv' /\ TypeOK'
  <2>1. QueueInv'
    BY <1>1, ControlInv
  <2> QED BY <2>1 DEF QueueInv
<1>3. /\ pc[c] = "idle" /\ ~closed /\ closed' = TRUE /\ detached' = takers \o offerers
      /\ takers' = <<>> /\ offerers' = <<>> /\ pc' = [pc EXCEPT ![c] = "shutdown"]
      /\ UNCHANGED <<items, capacity, policy, value, limit, batch, channel, cancelled>>
      /\ UNCHANGED <<offered, left, dropped, got, accepted, rejected, finished>>
  BY DEF Shutdown, history
<1>4. pc'[c] = "shutdown" /\ (\A d \in Callers \ {c} : pc'[d] = pc[d])
  BY <1>1, <1>3 DEF TypeOK
<1>5. /\ \A i \in 1..Len(takers) : takers[i] # c /\ takers[i] \in Callers
      /\ \A i \in 1..Len(offerers) : offerers[i] # c /\ offerers[i] \in Callers
  <2>1. pc[c] \notin Waits
    BY <1>3 DEF Waits
  <2> QED BY <1>1, <2>1, OffLists, ElementOfSeq
<1>6. ~finished
  BY <1>3, OpenFacts
<1>7. /\ LineInv' /\ ToSet(Line)' = Entered /\ Entered' = Entered
      /\ ToSet(Line)' \subseteq ToSet(Line)
  <2>1. Parked \in Seq(Nat) /\ left \o items \in Seq(Nat)
    BY <1>1, ParkedType, ConcatType
  <2>2. Line = (left \o items) \o Parked
    <3>1. left \in Seq(Nat) /\ items \in Seq(Nat) /\ Parked \in Seq(Nat)
      BY <1>1, <2>1
    <3>2. (left \o items) \o Parked = left \o (items \o Parked)
      BY ONLY <3>1, LineConcat, Zenon
    <3> QED BY <3>2, Zenon DEF Line, Backlog
  <2>3. Increasing(left \o items) /\ ToSet(Line) = ToSet(left \o items) \cup ToSet(Parked)
    <3> DEFINE u == left \o items
    <3>1. u \in Seq(Nat) /\ Line = u \o Parked /\ Increasing(Line)
      BY <1>1, <2>1, <2>2 DEF LineInv
    <3> HIDE DEF u
    <3>2. Increasing(u) /\ ToSet(Line) = ToSet(u) \cup ToSet(Parked)
      BY <2>1, <3>1, IncreasingConcat, ToSetConcat
    <3> QED BY <3>2 DEF u
  <2>4. Line' = left \o items
    BY <1>2, <1>3, LineShortNext
  <2>5. Increasing(Line)' /\ ToSet(Line)' = ToSet(left \o items)
    BY <2>3, <2>4 DEF Increasing, ToSet
  <2>6. ToSet(left \o items) = Entered
    BY <1>1, ToSetConcat DEF Entered
  <2>7. Entered' = Entered
    BY <1>3 DEF Entered
  <2> QED BY <1>1, <1>3, <2>3, <2>5, <2>6, <2>7 DEF LineInv
<1>8. AnswersInv'
  BY <1>1, <1>3, <1>7 DEF AnswersInv
<1>9. ListsInv'
  <2>1. NoRepeats(takers) /\ NoRepeats(offerers)
    BY <1>1, LineOrder DEF LineInv, ListsInv
  <2>2. \A i \in 1..Len(takers), j \in 1..Len(offerers) : takers[i] # offerers[j]
    BY <1>1 DEF ListsInv, RoomWaits, ValueWaits
  <2>3. /\ NoRepeats(takers \o offerers)
        /\ \A k \in 1..Len(takers \o offerers) :
              \/ \E i \in 1..Len(takers) : (takers \o offerers)[k] = takers[i]
              \/ \E j \in 1..Len(offerers) : (takers \o offerers)[k] = offerers[j]
    <3>1. takers \in Seq(Callers) /\ offerers \in Seq(Callers)
      BY <1>1
    <3> QED BY <2>1, <2>2, <3>1, NoRepeatsConcat
  <2>4. /\ NoRepeats(detached')
        /\ \A k \in 1..Len(detached') : \/ \E i \in 1..Len(takers) : detached'[k] = takers[i]
                                        \/ \E j \in 1..Len(offerers) : detached'[k] = offerers[j]
    BY <1>3, <2>3
  <2>5. takers # <<>> => items = <<>>
    BY <1>1 DEF WaitersJustified
  <2>6. \A i \in 1..Len(takers) : takers # <<>>
    BY <1>1, EmptySeq
  <2>7. ASSUME NEW k \in 1..Len(detached')
        PROVE  /\ pc'[detached'[k]] \in Waits /\ channel'[detached'[k]] = <<>>
               /\ pc'[detached'[k]] \in ValueWaits => items' = <<>>
    <3>1. ASSUME NEW i \in 1..Len(takers), detached'[k] = takers[i]
          PROVE  /\ pc'[detached'[k]] \in Waits /\ channel'[detached'[k]] = <<>>
                 /\ items' = <<>>
      <4>1. pc[takers[i]] \in ValueWaits /\ channel[takers[i]] = <<>> /\ items = <<>>
        BY <1>1, <2>5, <2>6 DEF ListsInv
      <4>2. pc'[takers[i]] = pc[takers[i]]
        BY <1>4, <1>5
      <4> QED BY <1>3, <3>1, <4>1, <4>2 DEF ValueWaits, Waits
    <3>2. ASSUME NEW j \in 1..Len(offerers), detached'[k] = offerers[j]
          PROVE  /\ pc'[detached'[k]] \in RoomWaits /\ channel'[detached'[k]] = <<>>
      <4>1. pc[offerers[j]] \in RoomWaits /\ channel[offerers[j]] = <<>>
        BY <1>1 DEF ListsInv
      <4>2. pc'[offerers[j]] = pc[offerers[j]]
        BY <1>4, <1>5
      <4> QED BY <1>3, <3>2, <4>1, <4>2
    <3> QED BY <2>4, <3>1, <3>2 DEF RoomWaits, ValueWaits, Waits
  <2>8. Len(takers') = 0 /\ Len(offerers') = 0
    BY <1>3, EmptySeq
  <2>9. NoRepeats(takers)'
    BY <2>8 DEF NoRepeats
  <2> QED BY <1>3, <2>4, <2>7, <2>8, <2>9 DEF ListsInv, NoRepeats
<1>10. CallsInv'
  <2>1. ASSUME NEW d \in Callers \ {c} PROVE CallInv(d)'
    <3>1. CallInv(d)
      BY <1>1 DEF CallsInv
    <3>2. ASSUME pc[d] \in RoomWaits PROVE value'[d] \in 1..offered' /\ RoomState(d)'
      <4>1. value[d] \in 1..offered /\ RoomState(d)
        BY <3>1, <3>2 DEF CallInv
      <4>2. ASSUME NEW i \in 1..Len(offerers), offerers[i] = d PROVE value[d] \notin Entered
        <5>1. value[d] \in ToSet(Parked)
          BY <1>1, <4>2, ParkedFacts
        <5>2. /\ \A x \in ToSet(left), y \in ToSet(Backlog) : x < y
              /\ \A x \in ToSet(items), y \in ToSet(Parked) : x < y
              /\ ToSet(Parked) \subseteq ToSet(Backlog)
          BY <1>1, LineOrder, LineFacts DEF LineInv
        <5>3. ~(value[d] < value[d])
          BY <4>1
        <5> QED BY <5>1, <5>2, <5>3 DEF Entered
      <4>3. RoomState(d)'
        BY <1>3, <1>7, <4>1, <4>2 DEF RoomState
      <4> QED BY <1>3, <4>1, <4>3
    <3>3. ASSUME pc[d] \in ValueWaits PROVE ValueState(d)'
      BY <1>3, <3>1, <3>3 DEF CallInv, ValueState
    <3> QED BY <1>3, <1>4, <3>1, <3>2, <3>3 DEF CallInv
  <2>2. CallInv(c)'
    <3>1. channel[c] = <<>> /\ batch[c] = <<>>
      BY <1>1, <1>3 DEF CallsInv, CallInv, Waits
    <3> QED BY <1>3, <1>4, <3>1 DEF CallInv, RoomWaits, ValueWaits
  <2> QED BY <2>1, <2>2 DEF CallsInv
<1>11. HeldInv'
  <2>1. ASSUME NEW d \in Callers PROVE Held(d)' = Held(d)
    <3>1. CASE d # c
      BY <1>3, <1>4, <3>1, HeldSame
    <3>2. CASE d = c
      <4>1. pc[c] \notin ValueWaits /\ pc'[c] \notin ValueWaits
        BY <1>3, <1>4 DEF ValueWaits
      <4>2. Held(c) = got[c] \o batch[c] /\ Held(c)' = got'[c] \o batch'[c]
        BY <1>1, <1>2, <4>1, HeldNow, HeldNext
      <4> QED BY <1>3, <3>2, <4>2
    <3> QED BY <3>1, <3>2
  <2> QED BY <1>1, <1>3, <2>1, HeldKept
<1>12. FinishedMeansDrained'
  BY <1>3, <1>6 DEF FinishedMeansDrained
<1> QED BY <1>2, <1>7, <1>8, <1>9, <1>10, <1>11, <1>12 DEF AccountInv

LEMMA CloseWaitersAccount ==
  ASSUME AccountInv, NEW c \in Callers, CloseWaiters(c)
  PROVE  AccountInv'
<1>1. /\ QueueInv /\ TypeOK /\ WaitersJustified /\ LineInv /\ ListsInv /\ CallsInv /\ AnswersInv
      /\ HeldInv /\ FinishedMeansDrained /\ detached \in Seq(Callers) /\ offered \in Nat
      /\ takers \in Seq(Callers) /\ offerers \in Seq(Callers)
  BY DEF AccountInv, QueueInv, TypeOK
<1>2. QueueInv' /\ TypeOK'
  <2>1. QueueInv'
    BY <1>1, ControlInv
  <2> QED BY <2>1 DEF QueueInv
<1>3. CASE detached = <<>>
  BY <1>3, QuietSteps
<1>4. CASE detached # <<>>
  <2>1. PICK h \in Callers : h = Head(detached) /\ h = detached[1] /\ 1 \in 1..Len(detached)
    BY <1>1, <1>4, HeadTail
  <2>2. /\ channel' = [channel EXCEPT ![h] = Append(channel[h], Closed)]
        /\ detached' = Tail(detached) /\ pc' = pc
        /\ items' = items /\ takers' = takers /\ offerers' = offerers /\ closed' = closed
        /\ UNCHANGED <<value, batch, offered, left, dropped, got, accepted, rejected, finished>>
    BY <1>4, <2>1 DEF CloseWaiters, fields, history
  <2>3. /\ pc[h] \in Waits /\ channel[h] = <<>> /\ closed /\ (pc[h] \in ValueWaits => items = <<>>)
    BY <1>1, <2>1 DEF ListsInv
  <2>4. channel'[h] = <<Closed>> /\ (\A d \in Callers \ {h} : channel'[d] = channel[d])
    <3>1. channel \in [Callers -> Seq(Nat)]
      BY <1>1 DEF TypeOK
    <3>2. channel'[h] = Append(channel[h], Closed) /\ (\A d \in Callers \ {h} : channel'[d] = channel[d])
      BY <2>2, <3>1
    <3> QED BY <2>3, <3>2
  <2>5. takers = <<>> /\ offerers = <<>> /\ Len(takers) = 0 /\ Len(offerers) = 0
    BY <1>1, <2>3, EmptySeq DEF WaitersJustified
  <2>6. Backlog' = Backlog /\ Line' = Line /\ Entered' = Entered
    BY <1>1, <2>2, LineKept
  <2>7. LineInv' /\ AnswersInv' /\ ToSet(Line)' = ToSet(Line)
    BY <1>1, <2>2, <2>6 DEF LineInv, AnswersInv, Increasing, ToSet
  <2>8. ListsInv'
    <3>1. /\ NoRepeats(Tail(detached)) /\ \A i \in 1..Len(Tail(detached)) : Tail(detached)[i] # h
      BY <1>1, <1>4, <2>1, NoRepeatsTail DEF ListsInv
    <3>2. \A i \in 1..Len(Tail(detached)) :
             /\ pc[Tail(detached)[i]] \in Waits /\ channel[Tail(detached)[i]] = <<>>
             /\ Tail(detached)[i] \in Callers
             /\ pc[Tail(detached)[i]] \in ValueWaits => items = <<>>
      <4>1. /\ Len(Tail(detached)) = Len(detached) - 1 /\ Len(detached) \in Nat \ {0}
            /\ \A i \in 1..Len(detached) - 1 : Tail(detached)[i] = detached[i + 1]
        BY <1>1, <1>4, TailFacts
      <4>2. \A i \in 1..Len(Tail(detached)) :
               i + 1 \in 1..Len(detached) /\ Tail(detached)[i] = detached[i + 1]
        BY <4>1
      <4>3. \A i \in 1..Len(detached) : detached[i] \in Callers
        BY <1>1, ElementOfSeq
      <4> QED BY <1>1, <4>2, <4>3 DEF ListsInv
    <3> QED BY <1>1, <2>2, <2>3, <2>4, <2>5, <3>1, <3>2 DEF ListsInv
  <2>9. CallsInv'
    <3>1. ASSUME NEW d \in Callers \ {h} PROVE CallInv(d)'
      <4>1. CallInv(d)
        BY <1>1 DEF CallsInv
      <4> QED BY <1>1, <2>2, <2>4, <2>6, <2>7, <4>1, CallKept
    <3>2. CallInv(h)'
      <4>1. CallInv(h)
        BY <1>1 DEF CallsInv
      <4>2. ASSUME pc[h] \in RoomWaits PROVE value'[h] \in 1..offered' /\ RoomState(h)'
        <5>1. value[h] \in 1..offered /\ RoomState(h)
          BY <4>1, <4>2 DEF CallInv
        <5>2. value[h] \notin ToSet(Line)
          BY <2>3, <2>5, <5>1 DEF RoomState
        <5> QED BY <2>2, <2>3, <2>4, <2>7, <5>1, <5>2 DEF RoomState
      <4>3. ASSUME pc[h] \in ValueWaits PROVE ValueState(h)'
        BY <2>2, <2>3, <2>4, <4>3 DEF ValueState
      <4>4. pc'[h] = pc[h] /\ batch'[h] = batch[h]
        BY <2>2
      <4> QED BY <2>3, <4>1, <4>2, <4>3, <4>4 DEF CallInv
    <3> QED BY <3>1, <3>2 DEF CallsInv
  <2>10. HeldInv'
    <3>1. ASSUME NEW d \in Callers PROVE Held(d)' = Held(d)
      <4>1. CASE d # h
        BY <2>2, <2>4, <4>1, HeldSame
      <4>2. CASE d = h
        <5>1. Held(h) = got[h] \o batch[h] /\ Held(h)' = got'[h] \o batch'[h]
          BY <1>1, <1>2, <2>3, <2>4, HeldNow, HeldNext
        <5> QED BY <2>2, <4>2, <5>1
      <4> QED BY <4>1, <4>2
    <3> QED BY <1>1, <2>2, <3>1, HeldKept
  <2>11. FinishedMeansDrained'
    BY <1>1, <2>2, <2>6 DEF FinishedMeansDrained
  <2> QED BY <1>2, <2>7, <2>8, <2>9, <2>10, <2>11 DEF AccountInv
<1> QED BY <1>3, <1>4
----------------------------------------------------------------------------
(* Values that leave: n dequeues under one lock *)

\* What k entering offerers bring is what stood next in the backlog.
LEMMA DequeueSent ==
  ASSUME TypeOK, NEW n \in Nat, n <= Len(Backlog), items = <<>> => n = 0, Dequeue(n)
  PROVE  \E k \in Nat :
           /\ k <= n /\ k <= Len(offerers) /\ (k = n \/ k = Len(offerers))
           /\ offerers' = SubSeq(offerers, k + 1, Len(offerers))
           /\ channel' = [c \in Callers |->
                             IF \E i \in 1..k : offerers[i] = c
                             THEN Append(channel[c], value[c]) ELSE channel[c]]
           /\ left' = left \o SubSeq(Backlog, 1, n)
           /\ items' = SubSeq(Backlog, n + 1, Len(items) + k)
           /\ n <= Len(items) + k
           /\ left' \o items' = (left \o items) \o SubSeq(Parked, 1, k)
           /\ SubSeq(Parked, 1, k) \in Seq(Nat)
<1>1. /\ Backlog \in Seq(Nat) /\ left \in Seq(Nat) /\ items \in Seq(Nat)
      /\ Parked \in Seq(Nat) /\ Len(Parked) = Len(offerers)
      /\ Len(Backlog) = Len(items) + Len(offerers)
  BY BacklogType, ParkedType DEF TypeOK
<1>2. Len(items) \in Nat /\ Len(offerers) \in Nat
  <2>1. offerers \in Seq(Callers)
    BY DEF TypeOK
  <2> QED BY <1>1, <2>1, LenProperties
<1>t. Backlog \in Seq(Nat) /\ left \in Seq(Nat) /\ items \in Seq(Nat) /\ Parked \in Seq(Nat)
  BY <1>1
<1>l. /\ Len(Parked) = Len(offerers) /\ Len(Backlog) = Len(items) + Len(offerers)
      /\ Len(items) \in Nat /\ Len(offerers) \in Nat
  BY <1>1, <1>2
<1>3. PICK k \in Nat :
           /\ k <= n /\ k <= Len(offerers) /\ (k = n \/ k = Len(offerers))
           /\ k = AtMost(n, Len(offerers))
  <2>1. AtMost(n, Len(offerers)) \in {n, Len(offerers)}
        /\ AtMost(n, Len(offerers)) <= n /\ AtMost(n, Len(offerers)) <= Len(offerers)
    BY <1>2 DEF AtMost
  <2> QED BY <1>2, <2>1
<1>4. /\ items' = SubSeq(Backlog, n + 1, Len(items) + k)
      /\ offerers' = SubSeq(offerers, k + 1, Len(offerers))
      /\ channel' = [c \in Callers |->
                        IF \E i \in 1..k : offerers[i] = c
                        THEN Append(channel[c], value[c]) ELSE channel[c]]
      /\ left' = left \o SubSeq(Backlog, 1, n)
  BY <1>3 DEF Dequeue
<1> DEFINE e == Len(items) + k
<1>5. /\ e \in Nat /\ e <= Len(Backlog) /\ n <= e
  <2>1. k <= n /\ k <= Len(offerers) /\ (k = n \/ k = Len(offerers))
    BY <1>3
  <2>2. n <= Len(items) + Len(offerers)
    BY <1>l
  <2>3. e \in Nat /\ e <= Len(items) + Len(offerers) /\ n <= e
    BY <1>l, <2>1, <2>2
  <2> QED BY <1>l, <2>3
<1>6. SubSeq(Backlog, 1, n) \o SubSeq(Backlog, n + 1, e) = SubSeq(Backlog, 1, e)
  <2>1. 1 \in 1..Len(Backlog) + 1 /\ n \in 1 - 1..Len(Backlog) /\ e \in n..Len(Backlog)
    BY <1>1, <1>2, <1>5
  <2> HIDE DEF e
  <2> QED BY <1>1, <2>1, ConcatAdjacentSubSeq
<1>7. SubSeq(Backlog, 1, e) = items \o SubSeq(Parked, 1, k)
  <2> DEFINE a == SubSeq(Backlog, 1, e)
             q == SubSeq(Parked, 1, k)
             b == items \o q
  <2>1. /\ a \in Seq(Nat) /\ Len(a) = IF 1 <= e THEN e - 1 + 1 ELSE 0
        /\ \A i \in 1..Len(a) : a[i] = Backlog[1 + i - 1]
    <3>1. 1 \in Nat \ {0} /\ e \in Nat /\ e <= Len(Backlog) /\ Backlog \in Seq(Nat)
      BY <1>1, <1>5
    <3> HIDE DEF e
    <3> QED BY <3>1, SubSeqFacts
  <2>2. /\ q \in Seq(Nat) /\ Len(q) = IF 1 <= k THEN k - 1 + 1 ELSE 0
        /\ \A i \in 1..Len(q) : q[i] = Parked[1 + i - 1]
    <3>1. k <= Len(Parked) /\ Parked \in Seq(Nat)
      BY <1>1, <1>3
    <3> QED BY <3>1, SubSeqFacts
  <2> HIDE DEF a, q
  <2>3. /\ b \in Seq(Nat) /\ Len(b) = Len(items) + Len(q)
        /\ \A i \in 1..Len(items) + Len(q) : b[i] = IF i <= Len(items) THEN items[i] ELSE q[i - Len(items)]
    <3>1. items \in Seq(Nat) /\ q \in Seq(Nat)
      BY <1>t, <2>2
    <3> QED BY <3>1, ConcatProperties
  <2>4. \A i \in 1..Len(items) + Len(Parked) :
           Backlog[i] = IF i <= Len(items) THEN items[i] ELSE Parked[i - Len(items)]
    BY <1>1, ConcatProperties DEF Backlog
  <2> HIDE DEF b
  <2>5. Len(a) = e /\ Len(q) = k /\ Len(a) = Len(b)
    <3>1. Len(q) = k
      BY <2>2
    <3>2. Len(b) = e
      BY <2>3, <3>1
    <3> HIDE DEF e
    <3>3. Len(a) = e
      BY <1>5, <2>1
    <3> QED BY <3>1, <3>2, <3>3
  <2>6. ASSUME NEW i \in 1..Len(a) PROVE a[i] = b[i]
    <3>0. /\ i \in 1..Len(items) + Len(Parked) /\ i \in 1..Len(items) + Len(q) /\ 1 + i - 1 = i
          /\ i \in Nat /\ i <= Len(items) + k
      BY <1>1, <1>2, <1>3, <2>5
    <3>1. a[i] = Backlog[i]
      BY <2>1, <3>0
    <3>2. CASE i <= Len(items)
      BY <2>3, <2>4, <3>0, <3>1, <3>2
    <3>3. CASE ~(i <= Len(items))
      <4> DEFINE j == i - Len(items)
      <4>1. j \in 1..Len(q) /\ 1 + j - 1 = j
        BY <1>2, <2>5, <3>0, <3>3
      <4>2. Backlog[i] = Parked[j] /\ b[i] = q[j]
        BY <2>3, <2>4, <3>0, <3>3
      <4> HIDE DEF j
      <4>3. q[j] = Parked[j]
        BY <2>2, <4>1
      <4> QED BY <3>1, <4>2, <4>3
    <3> QED BY <3>2, <3>3
  <2>7. a = b
    BY <2>1, <2>3, <2>5, <2>6, SeqEqual
  <2> QED BY <2>7 DEF a, b, q
<1>8. /\ SubSeq(Backlog, 1, n) \in Seq(Nat) /\ SubSeq(Backlog, n + 1, e) \in Seq(Nat)
      /\ SubSeq(Parked, 1, k) \in Seq(Nat)
  <2>1. SubSeq(Backlog, 1, n) \in Seq(Nat)
    BY <1>1, SubSeqFacts
  <2>2. SubSeq(Backlog, n + 1, e) \in Seq(Nat)
    <3>1. n + 1 \in Nat \ {0} /\ e \in Nat /\ e <= Len(Backlog)
      BY <1>5
    <3> HIDE DEF e
    <3> QED BY <1>1, <3>1, SubSeqFacts
  <2>3. SubSeq(Parked, 1, k) \in Seq(Nat)
    <3>1. k <= Len(Parked) /\ Parked \in Seq(Nat)
      BY <1>t, <1>l, <1>3
    <3> QED BY <3>1, SubSeqFacts
  <2> QED BY <2>1, <2>2, <2>3
<1>9. left' \o items' = (left \o items) \o SubSeq(Parked, 1, k)
  <2> DEFINE x == SubSeq(Backlog, 1, n)
             y == SubSeq(Backlog, n + 1, e)
             q == SubSeq(Parked, 1, k)
  <2>1. x \in Seq(Nat) /\ y \in Seq(Nat) /\ q \in Seq(Nat) /\ x \o y = items \o q
        /\ left' = left \o x /\ items' = y
    BY <1>4, <1>6, <1>7, <1>8
  <2> HIDE DEF x, y, q
  <2>2. (left \o x) \o y = left \o (x \o y)
    <3>1. left \in Seq(Nat) /\ x \in Seq(Nat) /\ y \in Seq(Nat)
      BY <1>t, <2>1
    <3> QED BY ONLY <3>1, ConcatAssociative
  <2>3. (left \o items) \o q = left \o (items \o q)
    <3>1. left \in Seq(Nat) /\ items \in Seq(Nat) /\ q \in Seq(Nat)
      BY <1>t, <2>1
    <3> QED BY ONLY <3>1, ConcatAssociative
  <2>4. left' \o items' = (left \o items) \o q
    BY <2>1, <2>2, <2>3
  <2> QED BY <2>4 DEF q
<1> QED BY <1>3, <1>4, <1>5, <1>8, <1>9

\* Dequeueing moves the head of the line over without disturbing its order.
LEMMA DequeueLine ==
  ASSUME TypeOK, TypeOK', NEW n \in Nat, n <= Len(Backlog),
         NEW k \in Nat, k <= Len(offerers), n <= Len(items) + k,
         offerers' = SubSeq(offerers, k + 1, Len(offerers)),
         left' = left \o SubSeq(Backlog, 1, n),
         items' = SubSeq(Backlog, n + 1, Len(items) + k),
         \A i \in 1..Len(offerers) : value'[offerers[i]] = value[offerers[i]]
  PROVE  /\ Backlog' = SubSeq(Backlog, n + 1, Len(Backlog)) /\ Line' = Line
         /\ Len(offerers') = Len(offerers) - k
         /\ \A j \in 1..Len(offerers') : k + j \in 1..Len(offerers) /\ offerers'[j] = offerers[k + j]
<1>1. /\ Backlog \in Seq(Nat) /\ left \in Seq(Nat) /\ items \in Seq(Nat)
      /\ Parked \in Seq(Nat) /\ Len(Parked) = Len(offerers)
      /\ Len(Backlog) = Len(items) + Len(offerers)
      /\ \A i \in 1..Len(offerers) : Parked[i] = value[offerers[i]]
  BY BacklogType, ParkedFacts DEF TypeOK
<1>2. Len(items) \in Nat /\ Len(offerers) \in Nat /\ offerers \in Seq(Callers)
  <2>1. offerers \in Seq(Callers)
    BY DEF TypeOK
  <2> QED BY <1>1, <2>1, LenProperties
<1>t. Backlog \in Seq(Nat) /\ left \in Seq(Nat) /\ items \in Seq(Nat) /\ Parked \in Seq(Nat)
  BY <1>1
<1>l. /\ Len(Parked) = Len(offerers) /\ Len(Backlog) = Len(items) + Len(offerers)
      /\ Len(items) \in Nat /\ Len(offerers) \in Nat
  BY <1>1, <1>2
<1>3. /\ Len(offerers') = Len(offerers) - k
      /\ \A j \in 1..Len(offerers') : k + j \in 1..Len(offerers) /\ offerers'[j] = offerers[k + j]
  <2> DEFINE o == SubSeq(offerers, k + 1, Len(offerers))
  <2>1. /\ Len(o) = IF k + 1 <= Len(offerers) THEN Len(offerers) - (k + 1) + 1 ELSE 0
        /\ \A j \in 1..Len(o) : o[j] = offerers[(k + 1) + j - 1]
    <3>1. k + 1 \in Nat \ {0}
      OBVIOUS
    <3> QED BY <1>2, <3>1, SubSeqFacts
  <2>2. offerers' = o
    OBVIOUS
  <2> HIDE DEF o
  <2>3. Len(o) = Len(offerers) - k
    BY <1>2, <2>1
  <2>4. \A j \in 1..Len(o) : k + j \in 1..Len(offerers) /\ (k + 1) + j - 1 = k + j
    BY <1>2, <2>3
  <2> QED BY <2>1, <2>2, <2>3, <2>4
<1> DEFINE e == Len(items) + k
           z == SubSeq(Backlog, e + 1, Len(Backlog))
<1>4. e \in Nat /\ e <= Len(Backlog) /\ n <= e /\ e = Len(items) + k
  BY <1>1, <1>2
<1> HIDE DEF e
<1>5. Parked' = z
  <2>1. /\ z \in Seq(Nat) /\ Len(z) = IF e + 1 <= Len(Backlog) THEN Len(Backlog) - (e + 1) + 1 ELSE 0
        /\ \A j \in 1..Len(z) : z[j] = Backlog[(e + 1) + j - 1]
    <3>1. e + 1 \in Nat \ {0} /\ Len(Backlog) \in Nat /\ Len(Backlog) <= Len(Backlog)
          /\ Backlog \in Seq(Nat)
      BY <1>t, <1>l, <1>4
    <3> QED BY ONLY <3>1, SubSeqFacts
  <2>2. /\ Parked' \in Seq(Nat) /\ Len(Parked') = Len(offerers')
        /\ \A j \in 1..Len(offerers') : Parked'[j] = value'[offerers'[j]]
    BY ParkedFactsNext
  <2> HIDE DEF z
  <2>3. Len(z) = Len(Parked')
    BY <1>1, <1>2, <1>3, <1>4, <2>1, <2>2
  <2>4. \A i \in 1..Len(items) + Len(Parked) :
           Backlog[i] = IF i <= Len(items) THEN items[i] ELSE Parked[i - Len(items)]
    BY <1>1, ConcatProperties DEF Backlog
  <2>5. ASSUME NEW j \in 1..Len(z) PROVE z[j] = Parked'[j]
    <3>1. /\ j \in 1..Len(offerers') /\ k + j \in 1..Len(offerers)
          /\ offerers'[j] = offerers[k + j]
      BY <1>3, <2>2, <2>3
    <3>2. Parked'[j] = Parked[k + j]
      <4>1. Parked'[j] = value'[offerers[k + j]]
        BY <2>2, <3>1
      <4>2. value'[offerers[k + j]] = value[offerers[k + j]]
        BY <3>1
      <4>3. Parked[k + j] = value[offerers[k + j]]
        BY <1>1, <3>1
      <4> QED BY <4>1, <4>2, <4>3
    <3> DEFINE i == (e + 1) + j - 1
    <3>3. i \in 1..Len(items) + Len(Parked) /\ ~(i <= Len(items)) /\ i - Len(items) = k + j
      <4>1. j \in Nat \ {0} /\ k + j \in 1..Len(offerers) /\ e = Len(items) + k
        <5>1. j \in Nat \ {0}
          OBVIOUS
        <5> QED BY <1>4, <3>1, <5>1
      <4> QED BY <1>l, <4>1
    <3>4. z[j] = Backlog[i]
      BY <2>1
    <3> HIDE DEF i
    <3>5. Backlog[i] = Parked[k + j]
      BY <2>4, <3>3
    <3> QED BY <3>2, <3>4, <3>5
  <2>6. z = Parked'
    BY <2>1, <2>2, <2>3, <2>5, SeqEqual
  <2> QED BY <2>6
<1>6. Backlog' = SubSeq(Backlog, n + 1, Len(Backlog))
  <2>1. n + 1 \in 1..Len(Backlog) + 1 /\ e \in (n + 1) - 1..Len(Backlog) /\ Len(Backlog) \in e..Len(Backlog)
    BY <1>1, <1>2, <1>4
  <2>2. SubSeq(Backlog, n + 1, e) \o SubSeq(Backlog, e + 1, Len(Backlog))
          = SubSeq(Backlog, n + 1, Len(Backlog))
    BY <1>1, <2>1, ConcatAdjacentSubSeq
  <2>3. Backlog' = items' \o Parked'
    BY DEF Backlog
  <2> QED BY <1>4, <1>5, <2>2, <2>3
<1>7. Line' = Line
  <2> DEFINE x == SubSeq(Backlog, 1, n)
             y == SubSeq(Backlog, n + 1, Len(Backlog))
  <2>1. x \in Seq(Nat) /\ y \in Seq(Nat) /\ Backlog = x \o y
    <3>1. n \in 0..Len(Backlog)
      BY <1>1, <1>2
    <3> QED BY <1>1, <3>1, SplitAt
  <2>2. left' = left \o x /\ Backlog' = y
    BY <1>6
  <2> HIDE DEF x, y
  <2>3. (left \o x) \o y = left \o (x \o y)
    <3>1. left \in Seq(Nat) /\ x \in Seq(Nat) /\ y \in Seq(Nat)
      BY <1>t, <2>1
    <3> QED BY ONLY <3>1, ConcatAssociative
  <2> QED BY <2>1, <2>2, <2>3 DEF Line
<1> QED BY <1>3, <1>6, <1>7

LEMMA DequeueAccount ==
  ASSUME AccountInv, QueueInv', NEW c \in Callers, NEW n \in Nat, n <= Len(Backlog),
         items = <<>> => n = 0, Dequeue(n), pc[c] \notin Waits,
         UNCHANGED <<takers, closed, detached, offered, dropped, accepted, rejected, finished>>,
         \A d \in Callers \ {c} : /\ pc'[d] = pc[d] /\ value'[d] = value[d]
                                  /\ batch'[d] = batch[d] /\ got'[d] = got[d],
         pc'[c] \in {"idle", "drain"}, pc'[c] # "drain" => batch'[c] = <<>>,
         got'[c] \o batch'[c] = (got[c] \o batch[c]) \o SubSeq(Backlog, 1, n)
  PROVE  AccountInv'
<1>1. /\ TypeOK /\ TypeOK' /\ WaitersJustified /\ LineInv /\ ListsInv /\ CallsInv /\ AnswersInv
      /\ HeldInv /\ FinishedMeansDrained
  BY DEF AccountInv, QueueInv
<1>2. /\ offered \in Nat /\ offered' = offered /\ offerers \in Seq(Callers)
      /\ takers \in Seq(Callers) /\ detached \in Seq(Callers)
      /\ left \in Seq(Nat) /\ items \in Seq(Nat) /\ items' \in Seq(Nat)
  BY <1>1 DEF TypeOK
<1>3. PICK k \in Nat :
           /\ k <= n /\ k <= Len(offerers) /\ (k = n \/ k = Len(offerers))
           /\ offerers' = SubSeq(offerers, k + 1, Len(offerers))
           /\ channel' = [d \in Callers |->
                             IF \E i \in 1..k : offerers[i] = d
                             THEN Append(channel[d], value[d]) ELSE channel[d]]
           /\ left' = left \o SubSeq(Backlog, 1, n)
           /\ items' = SubSeq(Backlog, n + 1, Len(items) + k)
           /\ n <= Len(items) + k
           /\ left' \o items' = (left \o items) \o SubSeq(Parked, 1, k)
           /\ SubSeq(Parked, 1, k) \in Seq(Nat)
  BY <1>1, DequeueSent
<1>4. /\ \A i \in 1..Len(takers) : takers[i] # c /\ takers[i] \in Callers
      /\ \A i \in 1..Len(offerers) : offerers[i] # c /\ offerers[i] \in Callers
      /\ \A i \in 1..Len(detached) : detached[i] # c /\ detached[i] \in Callers
  BY <1>1, <1>2, OffLists, ElementOfSeq
<1>5. /\ Backlog' = SubSeq(Backlog, n + 1, Len(Backlog)) /\ Line' = Line
      /\ Len(offerers') = Len(offerers) - k
      /\ \A j \in 1..Len(offerers') : k + j \in 1..Len(offerers) /\ offerers'[j] = offerers[k + j]
  <2>1. \A i \in 1..Len(offerers) : value'[offerers[i]] = value[offerers[i]]
    BY <1>4
  <2>2. /\ k <= Len(offerers) /\ n <= Len(items) + k
        /\ offerers' = SubSeq(offerers, k + 1, Len(offerers))
        /\ left' = left \o SubSeq(Backlog, 1, n)
        /\ items' = SubSeq(Backlog, n + 1, Len(items) + k)
    BY <1>3
  <2> QED BY <1>1, <2>1, <2>2, DequeueLine
<1>6. Len(offerers) \in Nat /\ NoRepeats(offerers) /\ Increasing(Line)
  BY <1>1, <1>2, LenProperties, LineOrder DEF LineInv
<1>7. /\ \A i \in 1..k : i \in 1..Len(offerers)
      /\ \A j \in 1..Len(offerers') : ~(k + j \in 1..k)
  <2>1. k <= Len(offerers)
    BY <1>3
  <2>2. \A i \in 1..k : i \in 1..Len(offerers)
    BY <1>6, <2>1
  <2>3. \A j \in Nat \ {0} : ~(k + j \in 1..k)
    OBVIOUS
  <2> QED BY <2>2, <2>3
<1>8. /\ \A i \in 1..k : channel'[offerers[i]] = <<value[offerers[i]]>>
      /\ \A d \in Callers : (\A i \in 1..k : offerers[i] # d) => channel'[d] = channel[d]
  <2>1. ASSUME NEW i \in 1..k PROVE channel'[offerers[i]] = <<value[offerers[i]]>>
    <3>1. offerers[i] \in Callers /\ channel[offerers[i]] = <<>>
      BY <1>1, <1>4, <1>7 DEF ListsInv
    <3>2. channel'[offerers[i]] = Append(channel[offerers[i]], value[offerers[i]])
      BY <1>3, <3>1
    <3> QED BY <3>1, <3>2
  <2>2. \A d \in Callers : (\A i \in 1..k : offerers[i] # d) => channel'[d] = channel[d]
    BY <1>3
  <2> QED BY <2>1, <2>2
<1>9. /\ Entered \subseteq Entered'
      /\ \A i \in 1..k : value[offerers[i]] \in Entered'
  <2> DEFINE q == SubSeq(Parked, 1, k)
             u == left \o items
  <2>1. q \in Seq(Nat) /\ u \in Seq(Nat) /\ ToSet(u) = Entered
    BY <1>2, <1>3, ConcatType, ToSetConcat DEF Entered
  <2>2. Entered' = ToSet(left' \o items')
    <3>1. left' \in Seq(Nat) /\ items' \in Seq(Nat)
      BY <1>1 DEF TypeOK
    <3>2. ToSet(left' \o items') = ToSet(left') \cup ToSet(items')
      BY ONLY <3>1, ToSetConcat
    <3> QED BY <3>2 DEF Entered
  <2>3. left' \o items' = u \o q
    BY <1>3
  <2>4. \A i \in 1..k : value[offerers[i]] \in ToSet(q)
    <3>1. /\ Parked \in Seq(Nat) /\ Len(Parked) = Len(offerers)
          /\ \A i \in 1..Len(offerers) : Parked[i] = value[offerers[i]]
      BY <1>1, ParkedFacts
    <3>2. k <= Len(Parked) /\ Parked \in Seq(Nat)
      BY <1>3, <3>1
    <3>3. /\ Len(q) = IF 1 <= k THEN k - 1 + 1 ELSE 0
          /\ \A i \in 1..Len(q) : q[i] = Parked[1 + i - 1]
      BY ONLY <3>2, SubSeqFacts
    <3> HIDE DEF q
    <3>4. ToSet(q) = {q[i] : i \in 1..Len(q)}
      BY <2>1, ToSetFacts
    <3>5. \A i \in 1..k : i \in 1..Len(q) /\ 1 + i - 1 = i
      BY <3>3
    <3> QED BY <1>7, <3>1, <3>3, <3>4, <3>5
  <2> HIDE DEF q, u
  <2>5. ToSet(u \o q) = ToSet(u) \cup ToSet(q)
    BY ONLY <2>1, ToSetConcat
  <2> QED BY <2>1, <2>2, <2>3, <2>4, <2>5
<1>10. items = <<>> => items' = <<>>
  <2>1. Len(items') <= Len(items)
    BY <1>1, DequeueEffect
  <2>2. Len(items') \in Nat
    BY <1>2, LenProperties
  <2>3. SUFFICES ASSUME items = <<>> PROVE Len(items') = 0
    BY <1>2, EmptySeq
  <2>4. Len(items) = 0
    BY <2>3, EmptySeq
  <2> QED BY <2>1, <2>2, <2>4
<1>11. LineInv' /\ AnswersInv' /\ ToSet(Line)' = ToSet(Line)
  BY <1>1, <1>2, <1>5, <1>9 DEF LineInv, AnswersInv, Increasing, ToSet
<1>12. ListsInv'
  <2>1. \A i \in 1..Len(takers) : pc'[takers[i]] \in ValueWaits /\ channel'[takers[i]] = <<>>
    <3>1. \A i \in 1..Len(takers), j \in 1..k : offerers[j] # takers[i]
      BY <1>1, <1>7 DEF ListsInv, RoomWaits, ValueWaits
    <3> QED BY <1>1, <1>4, <1>8, <3>1 DEF ListsInv
  <2>2. \A j \in 1..Len(offerers') :
           pc'[offerers'[j]] \in RoomWaits /\ channel'[offerers'[j]] = <<>>
    <3> SUFFICES ASSUME NEW j \in 1..Len(offerers')
                 PROVE  pc'[offerers'[j]] \in RoomWaits /\ channel'[offerers'[j]] = <<>>
      OBVIOUS
    <3>1. k + j \in 1..Len(offerers) /\ offerers'[j] = offerers[k + j]
      BY <1>5
    <3>2. \A i \in 1..k : offerers[i] # offerers[k + j]
      BY <1>6, <1>7, <3>1 DEF NoRepeats
    <3>3. /\ offerers[k + j] \in Callers \ {c} /\ pc[offerers[k + j]] \in RoomWaits
          /\ channel[offerers[k + j]] = <<>>
      BY <1>1, <1>4, <3>1 DEF ListsInv
    <3> QED BY <1>8, <3>1, <3>2, <3>3
  <2>3. ASSUME NEW i \in 1..Len(detached)
        PROVE  /\ pc'[detached[i]] \in Waits /\ channel'[detached[i]] = <<>> /\ closed
               /\ pc'[detached[i]] \in ValueWaits => items' = <<>>
    <3>1. /\ pc[detached[i]] \in Waits /\ channel[detached[i]] = <<>> /\ closed
          /\ pc[detached[i]] \in ValueWaits => items = <<>>
      BY <1>1 DEF ListsInv
    <3>2. Len(offerers) = 0
      BY <1>1, <3>1, EmptySeq DEF WaitersJustified
    <3>3. \A j \in 1..k : FALSE
      BY <1>7, <3>2
    <3> QED BY <1>4, <1>8, <1>10, <3>1, <3>3
  <2> QED BY <1>1, <2>1, <2>2, <2>3 DEF ListsInv
<1>13. CallsInv'
  <2>1. CallInv(c)'
    <3>1. channel[c] = <<>>
      BY <1>1 DEF CallsInv, CallInv
    <3>2. channel'[c] = <<>>
      BY <1>4, <1>7, <1>8, <3>1
    <3> QED BY <3>2 DEF CallInv, Waits, RoomWaits, ValueWaits
  <2>2. ASSUME NEW d \in Callers \ {c}, NEW i \in 1..k, offerers[i] = d PROVE CallInv(d)'
    <3>1. CallInv(d) /\ pc[d] \in RoomWaits
      BY <1>1, <1>7, <2>2 DEF CallsInv, ListsInv
    <3>2. value[d] \in 1..offered /\ batch[d] = <<>>
      BY <3>1 DEF CallInv, RoomWaits
    <3>3. channel'[d] = <<value'[d]>> /\ value'[d] \in Entered' /\ value'[d] \in 1..offered'
      BY <1>2, <1>8, <1>9, <2>2, <3>2
    <3>4. RoomState(d)'
      BY <3>3 DEF RoomState
    <3>5. pc'[d] \in RoomWaits /\ batch'[d] = <<>>
      BY <2>2, <3>1, <3>2
    <3> QED BY <3>3, <3>4, <3>5 DEF CallInv, RoomWaits, ValueWaits, Waits
  <2>3. ASSUME NEW d \in Callers \ {c}, \A i \in 1..k : offerers[i] # d PROVE CallInv(d)'
    <3>1. CallInv(d) /\ channel'[d] = channel[d]
      BY <1>1, <1>8, <2>3 DEF CallsInv
    <3>2. (\E i \in 1..Len(offerers) : offerers[i] = d)
             => (\E j \in 1..Len(offerers') : offerers'[j] = d)
      <4> SUFFICES ASSUME NEW i \in 1..Len(offerers), offerers[i] = d
                   PROVE  \E j \in 1..Len(offerers') : offerers'[j] = d
        OBVIOUS
      <4>1. ~(i \in 1..k)
        BY <2>3
      <4> DEFINE j == i - k
      <4>2. j \in 1..Len(offerers') /\ k + j = i
        BY <1>5, <1>6, <4>1
      <4> HIDE DEF j
      <4> QED BY <1>5, <4>2
    <3>3. closed => /\ closed' /\ (items = <<>> => items' = <<>>)
                    /\ ToSet(Line)' \subseteq ToSet(Line)
      BY <1>10, <1>11
    <3>4. offered <= offered' /\ offered' \in Nat
      BY <1>2
    <3> QED BY <1>2, <1>9, <2>3, <3>1, <3>2, <3>3, <3>4, CallKept
  <2> QED BY <2>1, <2>2, <2>3 DEF CallsInv
<1>14. HeldInv'
  <2> DEFINE y == SubSeq(Backlog, 1, n)
             z == SubSeq(Backlog, n + 1, Len(Backlog))
  <2>1. /\ y \in Seq(Nat) /\ z \in Seq(Nat) /\ Backlog = y \o z
    <3>1. Backlog \in Seq(Nat) /\ n \in 0..Len(Backlog)
      <4>1. Backlog \in Seq(Nat)
        BY <1>1, BacklogType
      <4> QED BY <4>1, LenProperties
    <3> QED BY ONLY <3>1, SplitAt
  <2>2. got'[c] \o batch'[c] = (got[c] \o batch[c]) \o y /\ left' = left \o y
    BY <1>3
  <2> HIDE DEF y, z
  <2>3. Increasing(left \o y)
    <3>1. (left \o y) \o z = left \o (y \o z) /\ left \o y \in Seq(Nat)
      <4>1. left \in Seq(Nat) /\ y \in Seq(Nat) /\ z \in Seq(Nat)
        BY <1>2, <2>1
      <4> QED BY ONLY <4>1, ConcatAssociative, ConcatType
    <3> DEFINE u == left \o y
    <3>2. u \in Seq(Nat) /\ Line = u \o z
      BY <2>1, <3>1 DEF Line
    <3> HIDE DEF u
    <3>3. Increasing(u)
      BY <1>6, <2>1, <3>2, IncreasingConcat
    <3> QED BY <3>3 DEF u
  <2>4. Held(c)' = Held(c) \o y
    <3>1. pc[c] \notin ValueWaits /\ pc'[c] \notin ValueWaits
      BY DEF Waits, ValueWaits
    <3>2. Held(c) = got[c] \o batch[c] /\ Held(c)' = got'[c] \o batch'[c]
      BY <1>1, <3>1, HeldNow, HeldNext
    <3> QED BY <2>2, <3>2
  <2>5. ASSUME NEW d \in Callers \ {c} PROVE Held(d)' = Held(d)
    <3>1. CASE \A i \in 1..k : offerers[i] # d
      <4>1. channel'[d] = channel[d]
        BY <1>8, <3>1
      <4> QED BY <4>1, HeldSame
    <3>2. CASE \E i \in 1..k : offerers[i] = d
      <4>1. pc[d] \in RoomWaits
        BY <1>1, <1>7, <3>2 DEF ListsInv
      <4>2. pc[d] \notin ValueWaits /\ pc'[d] \notin ValueWaits
        BY <4>1 DEF RoomWaits, ValueWaits
      <4>3. Held(d) = got[d] \o batch[d] /\ Held(d)' = got'[d] \o batch'[d]
        BY <1>1, <4>2, HeldNow, HeldNext
      <4> QED BY <4>3
    <3> QED BY <3>1, <3>2
  <2>6. dropped' = dropped
    OBVIOUS
  <2> QED BY <1>1, <2>1, <2>2, <2>3, <2>4, <2>5, <2>6, HeldGiven
<1>15. FinishedMeansDrained'
  <2> SUFFICES ASSUME finished PROVE closed' /\ Backlog' = <<>>
    BY DEF FinishedMeansDrained
  <2>1. closed /\ Backlog = <<>>
    BY <1>1 DEF FinishedMeansDrained
  <2>2. Len(Backlog) = 0
    BY <2>1, EmptySeq
  <2>3. Backlog' = <<>>
    BY <1>5, <2>2, SubSeqEmpty
  <2> QED BY <2>1, <2>3
<1> QED BY <1>11, <1>12, <1>13, <1>14, <1>15 DEF AccountInv

LEMMA TakeAccount ==
  ASSUME AccountInv, NEW c \in Callers, NEW lim \in Nat, pc[c] = "idle", TakeOrPark(c, lim)
  PROVE  AccountInv'
<1>1. QueueInv /\ TypeOK /\ CallInv(c) /\ items \in Seq(Nat)
  BY DEF AccountInv, QueueInv, TypeOK, CallsInv
<1>2. QueueInv'
  BY <1>1, TakeInv
<1>3. CASE TakeQueued(c, lim)
  <2>1. /\ items # <<>> /\ Dequeue(1) /\ Obtain(c, Head(items), lim)
        /\ UNCHANGED <<capacity, policy, takers, closed, detached, offered, dropped,
                       accepted, rejected, finished>>
    BY <1>3 DEF TakeQueued
  <2>2. PICK v \in Nat : v = Head(items) /\ v = items[1] /\ 1 \in 1..Len(items)
    BY <1>1, <2>1, HeadTail
  <2>3. batch[c] = <<>> /\ pc[c] # "drain" /\ pc[c] \notin Waits
    BY <1>1 DEF CallInv, Waits
  <2>4. /\ pc'[c] \in {"idle", "drain"} /\ (pc'[c] # "drain" => batch'[c] = <<>>)
        /\ got'[c] \o batch'[c] = got[c] \o <<v>>
        /\ \A d \in Callers \ {c} : /\ pc'[d] = pc[d] /\ value'[d] = value[d]
                                    /\ batch'[d] = batch[d] /\ got'[d] = got[d]
    BY <1>1, <2>1, <2>2, <2>3, ObtainFacts
  <2>5. Backlog \in Seq(Nat) /\ 1 \in 1..Len(Backlog) /\ Backlog[1] = v /\ 1 <= Len(Backlog)
    <3>1. /\ Backlog \in Seq(Nat) /\ Len(Backlog) = Len(items) + Len(offerers)
          /\ Backlog[1] = items[1]
      BY <1>1, <2>2, BacklogType
    <3>2. Len(items) \in Nat /\ Len(offerers) \in Nat
      BY <1>1, LenProperties DEF TypeOK
    <3> QED BY <2>2, <3>1, <3>2
  <2>6. SubSeq(Backlog, 1, 1) = <<v>>
    <3> DEFINE a == SubSeq(Backlog, 1, 1)
               b == <<v>>
    <3>1. /\ a \in Seq(Nat) /\ Len(a) = IF 1 <= 1 THEN 1 - 1 + 1 ELSE 0
          /\ \A i \in 1..Len(a) : a[i] = Backlog[1 + i - 1]
      BY <2>5, SubSeqFacts
    <3>2. b \in Seq(Nat) /\ Len(b) = 1 /\ b[1] = v
      BY ToSetOne
    <3> HIDE DEF a, b
    <3>3. Len(a) = 1 /\ Len(a) = Len(b)
      BY <3>1, <3>2
    <3>4. 1 \in 1..Len(a) /\ 1 + 1 - 1 = 1
      BY <3>3
    <3>5. a[1] = Backlog[1]
      BY <3>1, <3>4
    <3>6. \A i \in 1..Len(a) : i = 1
      BY <3>3
    <3>7. a = b
      BY <2>5, <3>1, <3>2, <3>3, <3>5, <3>6, SeqEqual
    <3> QED BY <3>7 DEF a, b
  <2>7. got[c] \o batch[c] = got[c]
    BY <1>1, <2>3, HeldNow
  <2>8. got'[c] \o batch'[c] = (got[c] \o batch[c]) \o SubSeq(Backlog, 1, 1)
    BY <2>4, <2>6, <2>7
  <2>9. UNCHANGED <<takers, closed, detached, offered, dropped, accepted, rejected, finished>>
    BY <2>1
  <2> QED BY <1>2, <2>1, <2>3, <2>4, <2>5, <2>8, <2>9, DequeueAccount
<1>4. CASE TakeFinished(c, lim)
  BY <1>4, QuietSteps
<1>5. CASE TakePark(c, lim)
  BY <1>5, TakeParkAccount
<1> QED BY <1>3, <1>4, <1>5 DEF TakeOrPark

LEMMA DrainAccount ==
  ASSUME AccountInv, NEW c \in Callers, DrainUpTo(c)
  PROVE  AccountInv'
<1>1. QueueInv /\ TypeOK /\ batch[c] \in Seq(Nat) /\ limit[c] \in Nat /\ Len(batch[c]) \in Nat
      /\ got \in [Callers -> Seq(Nat)]
  BY LenProperties DEF AccountInv, QueueInv, TypeOK
<1>2. QueueInv' /\ TypeOK'
  <2>1. QueueInv'
    BY <1>1, DrainInv
  <2> QED BY <2>1 DEF QueueInv
<1>3. PICK n \in Nat : /\ n = Available(limit[c], Len(batch[c]))
                       /\ n <= Len(Backlog) /\ (items = <<>> => n = 0)
  BY <1>1, AvailableBounds
<1>4. /\ pc[c] = "drain" /\ Dequeue(n) /\ Return(c)
      /\ got' = [got EXCEPT ![c] = got[c] \o batch[c] \o SubSeq(Backlog, 1, n)]
      /\ UNCHANGED <<takers, closed, detached, offered, dropped, accepted, rejected, finished>>
  BY <1>3 DEF DrainUpTo
<1>5. /\ pc'[c] = "idle" /\ batch'[c] = <<>>
      /\ \A d \in Callers \ {c} : pc'[d] = pc[d] /\ value'[d] = value[d] /\ batch'[d] = batch[d]
  BY <1>1, <1>4, ReturnFacts
<1>6. /\ got'[c] = (got[c] \o batch[c]) \o SubSeq(Backlog, 1, n)
      /\ \A d \in Callers \ {c} : got'[d] = got[d]
  BY <1>1, <1>4
<1>7. got'[c] \o batch'[c] = (got[c] \o batch[c]) \o SubSeq(Backlog, 1, n)
  <2>1. got'[c] \o batch'[c] = got'[c]
    BY <1>2, <1>5, HeldNext
  <2> QED BY <1>6, <2>1
<1>8. pc[c] \notin Waits
  BY <1>4 DEF Waits
<1> QED BY <1>2, <1>3, <1>4, <1>5, <1>6, <1>7, <1>8, DequeueAccount

LEMMA TakeAvailableAccount ==
  ASSUME AccountInv, NEW c \in Callers, NEW lim \in Nat, TakeAvailable(c, lim)
  PROVE  AccountInv'
<1>1. /\ QueueInv /\ TypeOK /\ CallInv(c) /\ got \in [Callers -> Seq(Nat)]
      /\ pc[c] = "idle"
  BY DEF AccountInv, QueueInv, TypeOK, CallsInv, TakeAvailable
<1>2. QueueInv' /\ TypeOK'
  <2>1. QueueInv'
    BY <1>1, TakeAvailableInv
  <2> QED BY <2>1 DEF QueueInv
<1>3. PICK n \in Nat : n = Available(lim, 0) /\ n <= Len(Backlog) /\ (items = <<>> => n = 0)
  BY <1>1, AvailableBounds
<1>4. /\ Dequeue(n) /\ got' = [got EXCEPT ![c] = got[c] \o SubSeq(Backlog, 1, n)]
      /\ UNCHANGED <<takers, closed, detached, offered, dropped, accepted, rejected, finished>>
      /\ pc' = pc /\ value' = value /\ batch' = batch
  BY <1>3 DEF TakeAvailable
<1>5. batch[c] = <<>> /\ batch'[c] = <<>> /\ pc[c] \notin Waits /\ pc'[c] \in {"idle", "drain"}
  BY <1>1, <1>4 DEF CallInv, Waits
<1>6. got'[c] = got[c] \o SubSeq(Backlog, 1, n) /\ (\A d \in Callers \ {c} : got'[d] = got[d])
  BY <1>1, <1>4
<1>7. got'[c] \o batch'[c] = (got[c] \o batch[c]) \o SubSeq(Backlog, 1, n)
  <2>1. got'[c] \o batch'[c] = got'[c] /\ got[c] \o batch[c] = got[c]
    BY <1>1, <1>2, <1>5, HeldNow, HeldNext
  <2> QED BY <1>6, <2>1
<1> QED BY <1>2, <1>3, <1>4, <1>5, <1>6, <1>7, DequeueAccount

LEMMA InitAccount == Init => AccountInv
<1> SUFFICES ASSUME Init PROVE AccountInv
  OBVIOUS
<1>1. QueueInv /\ TypeOK
  BY InitInv DEF QueueInv
<1>2. /\ items = <<>> /\ takers = <<>> /\ offerers = <<>> /\ detached = <<>> /\ left = <<>>
      /\ offered = 0 /\ dropped = {} /\ accepted = {} /\ rejected = {} /\ finished = FALSE
      /\ \A c \in Callers : /\ pc[c] = "idle" /\ batch[c] = <<>> /\ channel[c] = <<>>
                            /\ got[c] = <<>>
  BY DEF Init
<1>3. Line = <<>> /\ Backlog = <<>>
  <2>1. Backlog = items /\ Line = left \o items
    BY <1>1, <1>2, LineShort
  <2>2. Line = <<>> \o <<>>
    BY <1>2, <2>1
  <2>3. <<>> \o <<>> = <<>>
    <3>1. <<>> \in Seq(Nat)
      BY EmptySeq
    <3> QED BY <3>1, ConcatEmptySeq
  <2> QED BY <1>2, <2>1, <2>2, <2>3
<1>4. ToSet(<<>>) = {} /\ Increasing(<<>>) /\ <<>> \in Seq(Nat) /\ Len(<<>>) = 0
  <2>1. <<>> \in Seq(Nat) /\ Len(<<>>) = 0
    BY EmptySeq
  <2>2. ToSet(<<>>) = {}
    BY <2>1, ToSetFacts
  <2> DEFINE s == <<>>
  <2>3. s \in Seq(Nat) /\ Len(s) = 0
    BY <2>1
  <2> HIDE DEF s
  <2>4. \A i, j \in 1..Len(s) : ~(i < j)
    BY <2>3
  <2>5. Increasing(s)
    BY <2>3, <2>4, IncreasingDef
  <2> QED BY <2>1, <2>2, <2>5 DEF s
<1>5. LineInv
  BY <1>2, <1>3, <1>4 DEF LineInv
<1>6. ListsInv
  BY <1>2, <1>4 DEF ListsInv, NoRepeats
<1>7. CallsInv
  BY <1>2 DEF CallsInv, CallInv, RoomWaits, ValueWaits
<1>8. AnswersInv
  BY <1>2, <1>3, <1>4 DEF AnswersInv
<1>9. HeldInv
  <2>1. ASSUME NEW c \in Callers PROVE Held(c) = <<>>
    <3>1. pc[c] \notin ValueWaits
      BY <1>2 DEF ValueWaits
    <3>2. Held(c) = got[c] \o batch[c] /\ got[c] \o batch[c] = got[c]
      BY <1>1, <1>2, <3>1, HeldNow
    <3> QED BY <1>2, <3>2
  <2>2. \A c \in Callers : ToSet(Held(c)) = {} /\ Increasing(Held(c))
    BY <1>4, <2>1
  <2> QED BY <1>2, <1>4, <2>2 DEF HeldInv, NothingLost, ConsumerOrder
<1>10. FinishedMeansDrained
  BY <1>2 DEF FinishedMeansDrained
<1> QED BY <1>1, <1>5, <1>6, <1>7, <1>8, <1>9, <1>10 DEF AccountInv

LEMMA StutterAccount == AccountInv /\ UNCHANGED vars => AccountInv'
<1> SUFFICES ASSUME AccountInv, UNCHANGED vars PROVE AccountInv'
  OBVIOUS
<1>1. TypeOK /\ AnswersInv /\ HeldInv /\ QueueInv' /\ ListsInv /\ CallsInv /\ LineInv
      /\ FinishedMeansDrained
  BY StutterInv DEF AccountInv, QueueInv
<1>2. /\ items' = items /\ takers' = takers /\ offerers' = offerers /\ closed' = closed
      /\ pc' = pc /\ value' = value /\ batch' = batch /\ channel' = channel
      /\ detached' = detached /\ offered' = offered /\ left' = left /\ dropped' = dropped
      /\ got' = got /\ accepted' = accepted /\ rejected' = rejected /\ finished' = finished
  BY DEF vars, fields, calls, history
<1>3. Backlog' = Backlog /\ Line' = Line /\ Entered' = Entered
  BY <1>1, <1>2, LineKept
<1>4. LineInv' /\ AnswersInv' /\ FinishedMeansDrained' /\ ToSet(Line)' = ToSet(Line)
  BY <1>1, <1>2, <1>3 DEF LineInv, AnswersInv, FinishedMeansDrained, Increasing, ToSet
<1>5. ListsInv'
  BY <1>1, <1>2 DEF ListsInv
<1>6. ASSUME NEW c \in Callers PROVE CallInv(c)' /\ Held(c)' = Held(c)
  <2>1. CallInv(c) /\ offered \in Nat /\ offered' \in Nat /\ offered <= offered'
    BY <1>1, <1>2 DEF CallsInv, TypeOK
  <2>2. CallInv(c)'
    BY <1>2, <1>3, <1>4, <2>1, CallKept
  <2> QED BY <1>2, <2>2, HeldSame
<1>7. HeldInv'
  BY <1>1, <1>2, <1>6, HeldKept
<1> QED BY <1>1, <1>4, <1>5, <1>6, <1>7 DEF AccountInv, CallsInv

LEMMA NextAccount == AccountInv /\ [Next]_vars => AccountInv'
<1> SUFFICES ASSUME AccountInv, [Next]_vars PROVE AccountInv'
  OBVIOUS
<1>0. 0 \in Nat /\ \A lim \in Limits : lim \in Nat
  BY QueueConstants
<1>1. CASE UNCHANGED vars
  BY <1>1, StutterAccount
<1>2. ASSUME NEW c \in Callers, Proceed(c) PROVE AccountInv'
  <2>1. CASE ObserveCancel(c)
    BY <1>0, <2>1, QuietSteps
  <2> QED BY <1>2, <2>1, ReceiveRoomAccount, AbandonOffererAccount, ReceiveValueAccount,
             AbandonTakerAccount, DrainAccount, CloseWaitersAccount DEF Proceed
<1>3. ASSUME NEW c \in Callers, Call(c) PROVE AccountInv'
  <2>1. CASE Offer(c)
    BY <2>1, OfferAccount
  <2>2. CASE Take(c)
    BY <1>0, <2>2, TakeAccount DEF Take
  <2>3. CASE Shutdown(c)
    BY <2>3, ShutdownAccount
  <2>4. CASE Cancel(c)
    BY <1>0, <2>4, QuietSteps
  <2>5. ASSUME NEW lim \in Limits, TakeUpTo(c, lim) PROVE AccountInv'
    <3>1. CASE lim >= 1 /\ TakeOrPark(c, lim)
      BY <1>0, <2>5, <3>1, TakeAccount DEF TakeUpTo
    <3>2. CASE UNCHANGED vars
      BY <3>2, StutterAccount
    <3> QED BY <2>5, <3>1, <3>2 DEF TakeUpTo
  <2>6. ASSUME NEW lim \in Limits, TakeAvailable(c, lim) PROVE AccountInv'
    BY <1>0, <2>6, TakeAvailableAccount
  <2> QED BY <1>3, <2>1, <2>2, <2>3, <2>4, <2>5, <2>6 DEF Call
<1> QED BY <1>1, <1>2, <1>3 DEF Next

LEMMA AccountImplies == AccountInv => ValuesAccountedFor
<1> SUFFICES ASSUME AccountInv PROVE ValuesAccountedFor
  OBVIOUS
<1>1. TypeOK /\ AnswersInv /\ HeldInv /\ CallsInv /\ FinishedMeansDrained
  BY DEF AccountInv, QueueInv
<1>2. RoomForOne
  <2> SUFFICES ASSUME NEW c \in Callers PROVE Len(channel[c]) <= 1
    BY DEF RoomForOne
  <2>0. channel[c] = <<>> \/ \E v \in Nat : channel[c] = <<v>>
    <3>1. CallInv(c) /\ value[c] \in Nat /\ Closed \in Nat /\ offered \in Nat
      BY <1>1 DEF CallsInv, TypeOK, Closed
    <3>2. 1..offered \subseteq Nat
      BY <3>1
    <3> QED BY <3>1, <3>2 DEF CallInv, RoomState, ValueState, Waits, RoomWaits, ValueWaits
  <2>1. CASE channel[c] = <<>>
    <3>1. Len(channel[c]) = 0
      BY <2>1, EmptySeq
    <3> QED BY <3>1
  <2>2. ASSUME NEW v \in Nat, channel[c] = <<v>> PROVE Len(channel[c]) <= 1
    <3>1. Len(<<v>>) = 1
      OBVIOUS
    <3> QED BY <2>2, <3>1
  <2> QED BY <2>0, <2>1, <2>2
<1>3. OfferHonest
  <2>1. Entered \subseteq ToSet(Line)
    BY <1>1, LineFacts
  <2> QED BY <1>1, <2>1 DEF OfferHonest, AnswersInv
<1> QED BY <1>1, <1>2, <1>3 DEF ValuesAccountedFor, HeldInv

\* Whoever is cancelled or shuts down when, whatever the policy and capacity:
\* no waiter's channel gets a second message, every Offer is answered with the
\* truth, every value that left the queue and was not evicted is in the hands of
\* exactly one taker, each taker sees its values in the order of arrival, and
\* who is told that the queue is finished can rely on it.
THEOREM QueueAccounts == Spec => []ValuesAccountedFor
  BY InitAccount, NextAccount, AccountImplies, PTL DEF Spec
----------------------------------------------------------------------------
(* The refinement of the abstract channel *)

\* What leaves goes behind what left, and what enters behind what entered.
LEMMA ChannelStep ==
  ASSUME TypeOK, TypeOK', NEW x \in Seq(Nat), NEW y \in Seq(Nat),
         left' = left \o x, left' \o items' = (left \o items) \o y,
         closed => closed' /\ y = <<>>
  PROVE  Channel!ChannelNext
<1>1. /\ left \in Seq(Nat) /\ items \in Seq(Nat) /\ left \o items \in Seq(Nat)
      /\ left' \in Seq(Nat) /\ items' \in Seq(Nat)
  BY ConcatType DEF TypeOK
<1>2. IsPrefix(left, left') /\ IsPrefix(left', left' \o items')
  BY <1>1, PrefixOfConcat
<1>3. IsPrefix(left \o items, left' \o items')
  <2> DEFINE s == left \o items
  <2>1. s \in Seq(Nat) /\ left' \o items' = s \o y
    BY <1>1
  <2> HIDE DEF s
  <2>2. IsPrefix(s, s \o y)
    BY <2>1, PrefixOfConcat
  <2> QED BY <2>1, <2>2 DEF s
<1>4. closed => closed' /\ left' \o items' = left \o items
  <2> DEFINE s == left \o items
  <2>1. s \in Seq(Nat)
    BY <1>1
  <2> HIDE DEF s
  <2>2. s \o <<>> = s
    BY <2>1, ConcatEmptySeq
  <2> QED BY <2>2 DEF s
<1> QED BY <1>2, <1>3, <1>4 DEF Channel!ChannelNext, Channel!IsPrefix, IsPrefix

LEMMA ChannelQuiet ==
  ASSUME TypeOK, TypeOK', left' = left, items' = items, closed => closed'
  PROVE  Channel!ChannelNext
<1>1. left \in Seq(Nat) /\ items \in Seq(Nat) /\ left \o items \in Seq(Nat) /\ <<>> \in Seq(Nat)
  BY ConcatType, EmptySeq DEF TypeOK
<1>2. left' = left \o <<>>
  BY <1>1, ConcatEmptySeq
<1>3. left' \o items' = (left \o items) \o <<>>
  <2> DEFINE s == left \o items
  <2>1. s \in Seq(Nat) /\ left' \o items' = s
    BY <1>1
  <2> HIDE DEF s
  <2>2. s \o <<>> = s
    BY <2>1, ConcatEmptySeq
  <2> QED BY <2>1, <2>2 DEF s
<1> QED BY <1>1, <1>2, <1>3, ChannelStep

LEMMA DequeueChannel ==
  ASSUME QueueInv, TypeOK', NEW n \in Nat, n <= Len(Backlog), items = <<>> => n = 0,
         Dequeue(n), closed' = closed
  PROVE  Channel!ChannelNext
<1>1. TypeOK /\ WaitersJustified
  BY DEF QueueInv
<1>2. PICK k \in Nat : /\ k <= Len(offerers) /\ left' = left \o SubSeq(Backlog, 1, n)
                       /\ left' \o items' = (left \o items) \o SubSeq(Parked, 1, k)
                       /\ SubSeq(Parked, 1, k) \in Seq(Nat)
  BY <1>1, DequeueSent
<1>3. SubSeq(Backlog, 1, n) \in Seq(Nat)
  <2>1. Backlog \in Seq(Nat) /\ 1 \in Nat /\ n \in Nat /\ n <= Len(Backlog)
    BY <1>1, BacklogType
  <2> QED BY <2>1, SubSeqFacts
<1>4. closed => SubSeq(Parked, 1, k) = <<>>
  <2> SUFFICES ASSUME closed PROVE SubSeq(Parked, 1, k) = <<>>
    OBVIOUS
  <2>1. Len(offerers) = 0
    BY <1>1, EmptySeq DEF WaitersJustified
  <2>2. k = 0
    BY <1>2, <2>1
  <2>3. Parked \in Seq(Nat)
    BY <1>1, ParkedType
  <2>4. SubSeq(Parked, 1, 0) = <<>>
    BY <2>3, SubSeqEmpty
  <2> QED BY <2>2, <2>4
<1> QED BY <1>1, <1>2, <1>3, <1>4, ChannelStep

LEMMA OfferChannel ==
  ASSUME QueueInv, TypeOK', NEW c \in Callers, Offer(c)
  PROVE  Channel!ChannelNext
<1> DEFINE v == offered + 1
<1>1. /\ TypeOK /\ WaitersJustified /\ left \in Seq(Nat) /\ items \in Seq(Nat)
      /\ v \in Nat /\ capacity \in Nat /\ <<v>> \in Seq(Nat) /\ left \o items \in Seq(Nat)
  <2>1. /\ TypeOK /\ WaitersJustified /\ left \in Seq(Nat) /\ items \in Seq(Nat)
        /\ v \in Nat /\ capacity \in Nat
    <3>1. TypeOK /\ WaitersJustified
      BY DEF QueueInv
    <3>2. left \in Seq(Nat) /\ items \in Seq(Nat) /\ offered \in Nat /\ capacity \in Nat
      BY <3>1 DEF TypeOK
    <3> QED BY <3>1, <3>2
  <2> HIDE DEF v
  <2>2. <<v>> \in Seq(Nat) /\ left \o items \in Seq(Nat)
    BY <2>1, ConcatType, ToSetOne
  <2> QED BY <2>1, <2>2
<1>2. CASE OfferClosed(c, v) \/ AdmitBackPressure(c, v) \/ AdmitDropNewest(c, v)
  BY <1>1, <1>2, ChannelQuiet DEF OfferClosed, AdmitBackPressure, AdmitDropNewest, fields
<1>o. Append(left \o items, v) = (left \o items) \o <<v>>
  <2> DEFINE s == left \o items
  <2>1. s \in Seq(Nat) /\ v \in Nat
    BY <1>1
  <2> HIDE DEF s, v
  <2>2. Append(s, v) = s \o <<v>>
    BY <2>1, AppendIsConcat
  <2> QED BY <2>2 DEF s
<1>3. CASE HandOff(c, v)
  <2>1. ~closed /\ takers # <<>> /\ left' = Append(left, v) /\ items' = items
    BY <1>3 DEF HandOff
  <2>2. items = <<>>
    BY <1>1, <2>1 DEF WaitersJustified
  <2> HIDE DEF v
  <2>3. left' = left \o <<v>>
    BY <1>1, <2>1, AppendIsConcat
  <2>4. left' \in Seq(Nat) /\ left' \o <<>> = left' /\ left \o <<>> = left
    BY <1>1, <2>3, ConcatEmptySeq DEF TypeOK
  <2>5. left' \o items' = (left \o items) \o <<v>>
    BY <2>1, <2>2, <2>3, <2>4
  <2> QED BY <1>1, <2>1, <2>3, <2>5, ChannelStep
<1>4. CASE Enqueue(c, v)
  <2>1. ~closed /\ left' = left /\ items' = Append(items, v)
    BY <1>4 DEF Enqueue
  <2> HIDE DEF v
  <2>2. left' = left \o <<>> /\ <<>> \in Seq(Nat)
    BY <1>1, <2>1, ConcatEmptySeq, EmptySeq
  <2>3. left \o Append(items, v) = Append(left \o items, v)
    BY <1>1, AppendBehind
  <2>4. left' \o items' = (left \o items) \o <<v>>
    BY <1>o, <2>1, <2>3
  <2> QED BY <1>1, <2>1, <2>2, <2>4, ChannelStep
<1>5. CASE AdmitDropOldest(c, v)
  <2> DEFINE r == Tail(items)
  <2>1. /\ ~closed /\ ~HasRoom /\ items' = Append(r, v) /\ left' = Append(left, Head(items))
    BY <1>5 DEF AdmitDropOldest
  <2>2. items # <<>>
    <3>1. Len(items) \in Nat /\ ~(Len(items) < capacity) /\ capacity # 0
      BY <1>1, <2>1, LenProperties DEF HasRoom
    <3>2. Len(items) # 0
      BY <1>1, <3>1
    <3> QED BY <1>1, <3>2, EmptySeq
  <2>3. PICK h \in Nat : h = Head(items)
    BY <1>1, <2>2, HeadTail
  <2>4. r \in Seq(Nat) /\ <<h>> \in Seq(Nat) /\ items = <<h>> \o r
    BY <1>1, <2>2, <2>3, HeadTail
  <2> HIDE DEF v, r
  <2>5. left' = left \o <<h>> /\ left \o <<h>> \in Seq(Nat)
    BY <1>1, <2>1, <2>3, <2>4, AppendIsConcat, ConcatType
  <2>6. left' \o Append(r, v) = Append(left' \o r, v)
    BY <1>1, <2>4, <2>5, AppendBehind
  <2>7. (left \o <<h>>) \o r = left \o (<<h>> \o r)
    BY <1>1, <2>4, ConcatAssociative
  <2>8. left' \o r = left \o items
    BY <2>4, <2>5, <2>7
  <2>9. left' \o items' = (left \o items) \o <<v>>
    BY <1>o, <2>1, <2>6, <2>8
  <2> QED BY <1>1, <2>1, <2>4, <2>5, <2>9, ChannelStep
<1> QED BY <1>2, <1>3, <1>4, <1>5 DEF Offer

LEMMA TakeChannel ==
  ASSUME QueueInv, TypeOK', NEW c \in Callers, NEW lim \in Nat, TakeOrPark(c, lim)
  PROVE  Channel!ChannelNext
<1>1. TypeOK /\ items \in Seq(Nat) /\ offerers \in Seq(Callers)
  BY DEF QueueInv, TypeOK
<1>2. CASE TakeQueued(c, lim)
  <2>1. items # <<>> /\ Dequeue(1) /\ closed' = closed
    BY <1>2 DEF TakeQueued
  <2>2. 1 <= Len(Backlog)
    <3>1. Len(Backlog) = Len(items) + Len(offerers)
      BY <1>1, BacklogType
    <3>2. Len(items) \in Nat /\ Len(items) # 0 /\ Len(offerers) \in Nat
      BY <1>1, <2>1, LenProperties, EmptySeq
    <3> QED BY <3>1, <3>2
  <2> QED BY <2>1, <2>2, DequeueChannel
<1>3. CASE TakeFinished(c, lim) \/ TakePark(c, lim)
  BY <1>1, <1>3, ChannelQuiet DEF TakeFinished, TakePark, fields, history
<1> QED BY <1>2, <1>3 DEF TakeOrPark

LEMMA BatchChannel ==
  ASSUME QueueInv, TypeOK', NEW c \in Callers, NEW lim \in Nat,
         DrainUpTo(c) \/ TakeAvailable(c, lim)
  PROVE  Channel!ChannelNext
<1>1. TypeOK /\ limit[c] \in Nat /\ Len(batch[c]) \in Nat
  BY LenProperties DEF QueueInv, TypeOK
<1>2. CASE DrainUpTo(c)
  <2>1. PICK n \in Nat : /\ n = Available(limit[c], Len(batch[c]))
                         /\ n <= Len(Backlog) /\ (items = <<>> => n = 0)
    BY <1>1, AvailableBounds
  <2>2. Dequeue(n) /\ closed' = closed
    BY <1>2, <2>1 DEF DrainUpTo
  <2> QED BY <2>1, <2>2, DequeueChannel
<1>3. CASE TakeAvailable(c, lim)
  <2>1. PICK n \in Nat : n = Available(lim, 0) /\ n <= Len(Backlog) /\ (items = <<>> => n = 0)
    BY <1>1, AvailableBounds
  <2>2. Dequeue(n) /\ closed' = closed
    BY <1>3, <2>1 DEF TakeAvailable
  <2> QED BY <2>1, <2>2, DequeueChannel
<1> QED BY <1>2, <1>3

\* Every step of the queue is a step of the channel.
LEMMA NextChannel == QueueInv /\ QueueInv' /\ [Next]_vars => Channel!ChannelNext
<1> SUFFICES ASSUME QueueInv, QueueInv', [Next]_vars PROVE Channel!ChannelNext
  OBVIOUS
<1>0. TypeOK /\ TypeOK' /\ 0 \in Nat /\ \A lim \in Limits : lim \in Nat
  BY QueueConstants DEF QueueInv
<1>1. CASE UNCHANGED vars
  BY <1>0, <1>1, ChannelQuiet DEF vars, fields, history
<1>2. ASSUME NEW c \in Callers, Proceed(c) PROVE Channel!ChannelNext
  <2>1. CASE DrainUpTo(c)
    BY <1>0, <2>1, BatchChannel
  <2>2. CASE ReceiveRoom(c) \/ AbandonOfferer(c) \/ ReceiveValue(c)
    BY <1>0, <2>2, ChannelQuiet DEF ReceiveRoom, AbandonOfferer, ReceiveValue, fields
  <2>3. CASE AbandonTaker(c) \/ ObserveCancel(c) \/ CloseWaiters(c)
    BY <1>0, <2>3, ChannelQuiet DEF AbandonTaker, ObserveCancel, CloseWaiters, fields, history
  <2> QED BY <1>2, <2>1, <2>2, <2>3 DEF Proceed
<1>3. ASSUME NEW c \in Callers, Call(c) PROVE Channel!ChannelNext
  <2>1. CASE Offer(c)
    BY <1>0, <2>1, OfferChannel
  <2>2. CASE Take(c)
    BY <1>0, <2>2, TakeChannel DEF Take
  <2>3. CASE Shutdown(c) \/ Cancel(c)
    BY <1>0, <2>3, ChannelQuiet DEF Shutdown, Cancel, fields, history
  <2>4. ASSUME NEW lim \in Limits, TakeUpTo(c, lim) \/ TakeAvailable(c, lim)
        PROVE  Channel!ChannelNext
    <3>1. CASE TakeAvailable(c, lim)
      BY <1>0, <3>1, BatchChannel
    <3>2. CASE TakeUpTo(c, lim)
      <4>1. CASE UNCHANGED vars
        BY <1>0, <4>1, ChannelQuiet DEF vars, fields, history
      <4> QED BY <1>0, <3>2, <4>1, TakeChannel DEF TakeUpTo
    <3> QED BY <2>4, <3>1, <3>2
  <2> QED BY <1>3, <2>1, <2>2, <2>3, <2>4 DEF Call
<1> QED BY <1>1, <1>2, <1>3 DEF Next

LEMMA InitChannel == Init => Channel!ChannelInit
<1> SUFFICES ASSUME Init PROVE Channel!ChannelInit
  OBVIOUS
<1>1. left = <<>> /\ items = <<>> /\ closed = FALSE
  BY DEF Init
<1>2. <<>> \o <<>> = <<>>
  <2>1. <<>> \in Seq(Nat)
    BY EmptySeq
  <2> QED BY <2>1, ConcatEmptySeq
<1> QED BY <1>1, <1>2 DEF Channel!ChannelInit

\* The queue, with its waiters, policies, cancellations and two-part batches, is
\* the channel its doc comment promises: under the mapping that takes what
\* entered to left \o items, values come out in the order they went in, none is
\* invented, and after shutdown nothing goes in any more.
THEOREM QueueImplementsChannel == Spec => ImplementsChannel
<1>1. Init /\ [][Next]_vars => []QueueInv
  BY InitInv, NextInv, PTL
<1>2. QueueInv /\ QueueInv' /\ [Next]_vars
        => [Channel!ChannelNext]_<<left \o items, left, closed>>
  BY NextChannel
<1>3. Spec => Channel!ChannelSpec
  BY <1>1, <1>2, InitChannel, PTL DEF Spec, Channel!ChannelSpec
<1> QED BY <1>3 DEF ImplementsChannel
============================================================================
