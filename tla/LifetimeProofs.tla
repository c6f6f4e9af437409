--------------------------- MODULE LifetimeProofs ---------------------------
(***************************************************************************)
(* Proofs about Lifetime, for any runs, fibers, scopes and resources, and  *)
(* for every way to start a fiber.                                         *)
(***************************************************************************)
EXTENDS Lifetime, SequenceTheorems, TLAPS

\* An actor inside its program has a scope open; without it, Current(a), the
\* parent of whatever the actor opens, would not be a scope.
StackInv ==
    \A a \in Actors :
        pc[a] \in {"running", "registering", "releasingNow", "closing", "interrupting"}
            => stack[a] # <<>>

LifetimeInv == TypeOK /\ StackInv /\ NoOrphan

LEMMA LastInSet ==
  ASSUME NEW S, NEW s \in Seq(S), s # <<>>
  PROVE  Last(s) \in S
<1>1. Len(s) \in Nat \ {0} /\ s \in [1..Len(s) -> S]
  BY EmptySeq, LenProperties
<1> QED BY <1>1 DEF Last

LEMMA FrontType ==
  ASSUME NEW S, NEW s \in Seq(S), s # <<>>
  PROVE  Front(s) \in Seq(S) /\ Len(Front(s)) = Len(s) - 1
<1>1. Len(s) \in Nat \ {0} /\ s \in [1..Len(s) -> S]
  BY EmptySeq, LenProperties
<1>2. \A i \in 1..(Len(s) - 1) : s[i] \in S
  BY <1>1
<1> QED BY <1>1, <1>2, SubSeqProperties DEF Front

LEMMA CurrentIsScope ==
  ASSUME TypeOK, StackInv, NEW a \in Actors,
         pc[a] \in {"running", "registering", "releasingNow", "closing", "interrupting"}
  PROVE  Current(a) \in Scopes \ {Root}
<1>1. stack[a] \in Seq(Scopes \ {Root}) /\ stack[a] # <<>>
  BY DEF TypeOK, StackInv
<1> QED BY <1>1, LastInSet DEF Current

LEMMA NewScopeType ==
  ASSUME TypeOK, NEW s \in Scopes, NEW P \in SUBSET Scopes, NewScope(s, P)
  PROVE  /\ status' \in [Scopes -> Status] /\ above' \in [Scopes -> SUBSET Scopes]
         /\ cancelled' \subseteq Scopes
<1>1. UNION {above[p] : p \in P} \subseteq Scopes
  BY DEF TypeOK
<1> QED BY <1>1 DEF NewScope, TypeOK, Status

LEMMA InitInv == Init => LifetimeInv
<1> SUFFICES ASSUME Init PROVE LifetimeInv
  OBVIOUS
<1>1. <<>> \in Seq(Resources) /\ <<>> \in Seq(Scopes \ {Root})
  BY EmptySeq
<1>2. TypeOK
  BY <1>1 DEF Init, TypeOK, Status
<1>3. StackInv
  BY DEF Init, StackInv
<1>4. NoOrphan
  BY DEF Init, NoOrphan, Live, Actors
<1> QED BY <1>2, <1>3, <1>4 DEF LifetimeInv

LEMMA StartRunInv ==
  ASSUME LifetimeInv, NEW a \in Actors, StartRun(a)
  PROVE  LifetimeInv'
<1>0. TypeOK /\ StackInv /\ NoOrphan /\ a \in Scopes /\ a # Root
  BY LifetimeConstants DEF LifetimeInv, Scopes, Actors
<1>1. /\ status' \in [Scopes -> Status] /\ above' \in [Scopes -> SUBSET Scopes]
      /\ cancelled' \subseteq Scopes
  BY <1>0, NewScopeType DEF StartRun
<1>2. <<a>> \in Seq(Scopes \ {Root}) /\ <<a>> # <<>>
  BY <1>0
<1>3. TypeOK'
  BY <1>0, <1>1, <1>2 DEF StartRun, TypeOK
<1>4. StackInv'
  BY <1>0, <1>2 DEF StartRun, StackInv, TypeOK
<1>5. NoOrphan'
  <2> SUFFICES ASSUME NEW f \in Fibers, Live(f)'
               PROVE  /\ owner'[f] \in Scopes /\ f \in children'[owner'[f]]
                      /\ status'[owner'[f]] \in {"open", "cancelling", "waiting"}
    BY DEF NoOrphan
  <2>1. f # a
    BY LifetimeConstants DEF StartRun
  <2>2. Live(f)
    BY <1>0, <2>1 DEF StartRun, Live, TypeOK, Actors
  <2> QED BY <1>0, <2>2 DEF StartRun, NoOrphan, NewScope, TypeOK
<1> QED BY <1>3, <1>4, <1>5 DEF LifetimeInv

LEMMA OpenScopedInv ==
  ASSUME LifetimeInv, NEW a \in Actors, NEW s \in Lexical, OpenScoped(a, s)
  PROVE  LifetimeInv'
<1>0. TypeOK /\ StackInv /\ NoOrphan /\ s \in Scopes /\ s # Root /\ Current(a) \in Scopes
  BY LifetimeConstants, CurrentIsScope DEF LifetimeInv, Scopes, Actors, OpenScoped
<1>1. /\ status' \in [Scopes -> Status] /\ above' \in [Scopes -> SUBSET Scopes]
      /\ cancelled' \subseteq Scopes
  BY <1>0, NewScopeType DEF OpenScoped
<1>2. stack[a] \in Seq(Scopes \ {Root})
  BY <1>0 DEF TypeOK
<1>3. Append(stack[a], s) \in Seq(Scopes \ {Root}) /\ Append(stack[a], s) # <<>>
  BY <1>0, <1>2, AppendProperties
<1>4. TypeOK'
  BY <1>0, <1>1, <1>3 DEF OpenScoped, TypeOK
<1>5. StackInv'
  BY <1>0, <1>3 DEF OpenScoped, StackInv, TypeOK
<1>6. NoOrphan'
  BY <1>0 DEF OpenScoped, NoOrphan, NewScope, Live, TypeOK
<1> QED BY <1>4, <1>5, <1>6 DEF LifetimeInv

LEMMA ForkInv ==
  ASSUME LifetimeInv, NEW a \in Actors, NEW f \in Fibers, NEW o \in Scopes, Fork(a, f, o)
  PROVE  LifetimeInv'
<1>0. /\ TypeOK /\ StackInv /\ NoOrphan /\ f \in Scopes /\ f # Root /\ f \in Actors
      /\ Current(a) \in Scopes
  BY LifetimeConstants, CurrentIsScope DEF LifetimeInv, Scopes, Actors, Fork
<1>1. /\ status' \in [Scopes -> Status] /\ above' \in [Scopes -> SUBSET Scopes]
      /\ cancelled' \subseteq Scopes
  BY <1>0, NewScopeType DEF Fork
<1>2. <<f>> \in Seq(Scopes \ {Root}) /\ <<f>> # <<>>
  BY <1>0
<1>3. TypeOK'
  BY <1>0, <1>1, <1>2 DEF Fork, TypeOK
<1>4. StackInv'
  BY <1>0, <1>2 DEF Fork, StackInv, TypeOK
<1>5. NoOrphan'
  <2> SUFFICES ASSUME NEW g \in Fibers, Live(g)'
               PROVE  /\ owner'[g] \in Scopes /\ g \in children'[owner'[g]]
                      /\ status'[owner'[g]] \in {"open", "cancelling", "waiting"}
    BY DEF NoOrphan
  <2>1. CASE g = f
    BY <1>0, <2>1 DEF Fork, NewScope, TypeOK
  <2>2. CASE g # f
    <3>1. Live(g) /\ owner'[g] = owner[g]
      BY <1>0, <2>2 DEF Fork, Live, TypeOK, Actors
    <3>2. /\ owner[g] \in Scopes /\ g \in children[owner[g]]
          /\ status[owner[g]] \in {"open", "cancelling", "waiting"}
      BY <1>0, <3>1 DEF NoOrphan
    <3> QED BY <1>0, <3>1, <3>2 DEF Fork, NewScope, TypeOK
  <2> QED BY <2>1, <2>2
<1> QED BY <1>3, <1>4, <1>5 DEF LifetimeInv

\* Steps that leave the scopes and their children alone and neither start nor
\* end an actor keep NoOrphan.
LEMMA QuietNoOrphan ==
  ASSUME NoOrphan, UNCHANGED <<status, children, owner>>,
         \A f \in Fibers : Live(f)' => Live(f)
  PROVE  NoOrphan'
  BY DEF NoOrphan

LEMMA ResourceInv ==
  ASSUME LifetimeInv, NEW a \in Actors,
         \/ \E r \in Resources, s \in Scopes : Acquire(a, r, s)
         \/ AddFinalizer(a) \/ ReleaseNow(a)
  PROVE  LifetimeInv'
<1>0. TypeOK /\ StackInv /\ NoOrphan
  BY DEF LifetimeInv
<1>1. ASSUME NEW r \in Resources, NEW s \in Scopes, Acquire(a, r, s)
      PROVE  LifetimeInv'
  <2>1. TypeOK'
    BY <1>0, <1>1 DEF Acquire, TypeOK, scopeVars
  <2>2. StackInv'
    BY <1>0, <1>1 DEF Acquire, StackInv, TypeOK
  <2>3. NoOrphan'
    BY <1>0, <1>1, QuietNoOrphan DEF Acquire, Live, TypeOK, Actors, scopeVars
  <2> QED BY <2>1, <2>2, <2>3 DEF LifetimeInv
<1>2. CASE AddFinalizer(a)
  <2>1. busy[a] \in Resources
    BY <1>0, <1>2 DEF AddFinalizer, TypeOK
  <2>2. finalizers' \in [Scopes -> Seq(Resources)] /\ order' \in [Scopes -> Seq(Resources)]
    <3>1. \A s \in Scopes : /\ Append(finalizers[s], busy[a]) \in Seq(Resources)
                            /\ Append(order[s], busy[a]) \in Seq(Resources)
      BY <1>0, <2>1, AppendProperties DEF TypeOK
    <3>2. \/ UNCHANGED <<finalizers, order>>
          \/ /\ finalizers' = [finalizers EXCEPT ![into[busy[a]]] = Append(@, busy[a])]
             /\ order' = [order EXCEPT ![into[busy[a]]] = Append(@, busy[a])]
      BY <1>2 DEF AddFinalizer
    <3>3. finalizers \in [Scopes -> Seq(Resources)] /\ order \in [Scopes -> Seq(Resources)]
      BY <1>0 DEF TypeOK
    <3>4. \A s : /\ [finalizers EXCEPT ![s] = Append(@, busy[a])] \in [Scopes -> Seq(Resources)]
                 /\ [order EXCEPT ![s] = Append(@, busy[a])] \in [Scopes -> Seq(Resources)]
      BY <3>1, <3>3
    <3>5. CASE UNCHANGED <<finalizers, order>>
      BY <3>3, <3>5
    <3>6. CASE /\ finalizers' = [finalizers EXCEPT ![into[busy[a]]] = Append(@, busy[a])]
               /\ order' = [order EXCEPT ![into[busy[a]]] = Append(@, busy[a])]
      BY <3>4, <3>6
    <3> QED BY <3>2, <3>5, <3>6
  <2>3. \/ pc' = [pc EXCEPT ![a] = "running"] /\ busy' = [busy EXCEPT ![a] = Unset]
        \/ pc' = [pc EXCEPT ![a] = "releasingNow"] /\ UNCHANGED busy
    BY <1>2 DEF AddFinalizer
  <2>4. TypeOK'
    BY <1>0, <1>2, <2>1, <2>2, <2>3 DEF AddFinalizer, TypeOK
  <2>5. StackInv'
    BY <1>0, <1>2, <2>3 DEF AddFinalizer, StackInv, TypeOK
  <2>6. NoOrphan'
    BY <1>0, <1>2, <2>3, QuietNoOrphan DEF AddFinalizer, Live, TypeOK, Actors
  <2> QED BY <2>4, <2>5, <2>6 DEF LifetimeInv
<1>3. CASE ReleaseNow(a)
  <2>1. TypeOK'
    BY <1>0, <1>3 DEF ReleaseNow, TypeOK, scopeVars
  <2>2. StackInv'
    BY <1>0, <1>3 DEF ReleaseNow, StackInv, TypeOK
  <2>3. NoOrphan'
    BY <1>0, <1>3, QuietNoOrphan DEF ReleaseNow, Live, TypeOK, Actors, scopeVars
  <2> QED BY <2>1, <2>2, <2>3 DEF LifetimeInv
<1> QED BY <1>1, <1>2, <1>3

\* A scope that begins to close keeps its children; whoever is live stays so.
LEMMA BeginCloseFacts ==
  ASSUME TypeOK, NoOrphan, NEW s \in Scopes, BeginClose(s), UNCHANGED <<children, owner>>,
         \A f \in Fibers : Live(f)' => Live(f)
  PROVE  /\ NoOrphan'
         /\ status' \in [Scopes -> Status]
         /\ finalizers' \in [Scopes -> Seq(Resources)]
         /\ releasing' \in [Scopes -> Seq(Resources)]
<1>1. <<>> \in Seq(Resources)
  BY EmptySeq
<1>2. NoOrphan'
  BY DEF NoOrphan, BeginClose, TypeOK
<1> QED BY <1>1, <1>2 DEF BeginClose, TypeOK, Status

LEMMA SettleInv ==
  ASSUME LifetimeInv, NEW a \in Actors, Settle(a)
  PROVE  LifetimeInv'
<1>0. TypeOK /\ StackInv /\ NoOrphan /\ Current(a) \in Scopes
  BY CurrentIsScope DEF LifetimeInv, Settle
<1>1. \A f \in Fibers : Live(f)' => Live(f)
  BY <1>0 DEF Settle, Live, TypeOK, Actors
<1>2. /\ NoOrphan' /\ status' \in [Scopes -> Status]
      /\ finalizers' \in [Scopes -> Seq(Resources)] /\ releasing' \in [Scopes -> Seq(Resources)]
  BY <1>0, <1>1, BeginCloseFacts DEF Settle
<1>3. TypeOK'
  BY <1>0, <1>2 DEF Settle, TypeOK
<1>4. StackInv'
  BY <1>0 DEF Settle, StackInv, TypeOK
<1> QED BY <1>2, <1>3, <1>4 DEF LifetimeInv

LEMMA CloseRuntimeInv ==
  ASSUME LifetimeInv, NEW k \in Closers, CloseRuntime(k)
  PROVE  LifetimeInv'
<1>0. TypeOK /\ StackInv /\ NoOrphan /\ Root \in Scopes
  BY DEF LifetimeInv, Scopes
<1>1. \A f \in Fibers : Live(f)' => Live(f)
  BY DEF CloseRuntime, Live
<1>2. StackInv'
  BY <1>0 DEF CloseRuntime, StackInv
<1>3. closeCall' \in [Closers -> {"idle", "closing", "returned"}]
  BY <1>0 DEF CloseRuntime, TypeOK
<1>4. CASE BeginClose(Root)
  <2>1. /\ NoOrphan' /\ status' \in [Scopes -> Status]
        /\ finalizers' \in [Scopes -> Seq(Resources)] /\ releasing' \in [Scopes -> Seq(Resources)]
    BY <1>0, <1>1, <1>4, BeginCloseFacts DEF CloseRuntime
  <2>2. TypeOK'
    BY <1>0, <1>3, <2>1 DEF CloseRuntime, TypeOK
  <2> QED BY <1>2, <2>1, <2>2 DEF LifetimeInv
<1>5. CASE UNCHANGED <<status, releasing, finalizers>>
  <2>1. NoOrphan'
    BY <1>0, <1>1, <1>5, QuietNoOrphan DEF CloseRuntime
  <2>2. TypeOK'
    BY <1>0, <1>3, <1>5 DEF CloseRuntime, TypeOK
  <2> QED BY <1>2, <2>1, <2>2 DEF LifetimeInv
<1> QED BY <1>4, <1>5 DEF CloseRuntime

LEMMA CloseInv ==
  ASSUME LifetimeInv, NEW s \in Scopes, CancelOwned(s) \/ AwaitChildren(s) \/ RunFinalizer(s)
  PROVE  LifetimeInv'
<1>0. TypeOK /\ StackInv /\ NoOrphan
  BY DEF LifetimeInv
<1>1. UNCHANGED <<pc, stack, children, owner>>
  BY DEF CancelOwned, AwaitChildren, RunFinalizer
<1>2. StackInv'
  BY <1>0, <1>1 DEF StackInv
<1>3. CASE CancelOwned(s)
  <2>1. Under(s) \subseteq Scopes
    BY DEF Under
  <2>2. TypeOK'
    BY <1>0, <1>3, <2>1 DEF CancelOwned, TypeOK, Status
  <2>3. NoOrphan'
    BY <1>0, <1>3 DEF CancelOwned, NoOrphan, Live, TypeOK
  <2> QED BY <1>2, <2>2, <2>3 DEF LifetimeInv
<1>4. CASE AwaitChildren(s)
  <2>1. TypeOK'
    BY <1>0, <1>4 DEF AwaitChildren, TypeOK, Status
  <2>2. NoOrphan'
    <3> SUFFICES ASSUME NEW f \in Fibers, Live(f)'
                 PROVE  /\ owner'[f] \in Scopes /\ f \in children'[owner'[f]]
                        /\ status'[owner'[f]] \in {"open", "cancelling", "waiting"}
      BY DEF NoOrphan
    <3>1. Live(f)
      BY <1>1 DEF Live
    <3>2. /\ owner[f] \in Scopes /\ f \in children[owner[f]]
          /\ status[owner[f]] \in {"open", "cancelling", "waiting"}
      BY <1>0, <3>1 DEF NoOrphan
    <3>3. owner[f] # s
      BY <1>4, <3>2 DEF AwaitChildren
    <3> QED BY <1>0, <1>1, <1>4, <3>2, <3>3 DEF AwaitChildren, TypeOK
  <2> QED BY <1>2, <2>1, <2>2 DEF LifetimeInv
<1>5. CASE RunFinalizer(s)
  <2>1. releasing[s] \in Seq(Resources) /\ releasing[s] # <<>>
    BY <1>0, <1>5 DEF RunFinalizer, TypeOK
  <2>2. Front(releasing[s]) \in Seq(Resources) /\ Last(releasing[s]) \in Resources
    BY <2>1, FrontType, LastInSet
  <2>3. releasing' \in [Scopes -> Seq(Resources)]
    BY <1>0, <1>5, <2>2 DEF RunFinalizer, TypeOK
  <2>4. releases' \in [Resources -> Nat]
    BY <1>0, <1>5, <2>2 DEF RunFinalizer, TypeOK
  <2>5. TypeOK'
    BY <1>0, <1>5, <2>3, <2>4 DEF RunFinalizer, TypeOK
  <2>6. NoOrphan'
    BY <1>0, <1>1, <1>5, QuietNoOrphan DEF RunFinalizer, Live
  <2> QED BY <1>2, <2>5, <2>6 DEF LifetimeInv
<1> QED BY <1>3, <1>4, <1>5

LEMMA FinishCloseInv ==
  ASSUME LifetimeInv, NEW s \in Scopes, FinishClose(s)
  PROVE  LifetimeInv'
<1>0. TypeOK /\ StackInv /\ NoOrphan
  BY DEF LifetimeInv
<1>1. status' \in [Scopes -> Status]
  BY <1>0 DEF FinishClose, TypeOK, Status
<1>2. ASSUME \A f \in Fibers : Live(f)' => Live(f)
      PROVE  NoOrphan'
  <2> SUFFICES ASSUME NEW f \in Fibers, Live(f)'
               PROVE  /\ owner'[f] \in Scopes /\ f \in children'[owner'[f]]
                      /\ status'[owner'[f]] \in {"open", "cancelling", "waiting"}
    BY DEF NoOrphan
  <2>1. /\ owner[f] \in Scopes /\ f \in children[owner[f]]
        /\ status[owner[f]] \in {"open", "cancelling", "waiting"}
    BY <1>0, <1>2 DEF NoOrphan
  <2>2. owner[f] # s
    BY <2>1 DEF FinishClose
  <2> QED BY <1>0, <2>1, <2>2 DEF FinishClose, TypeOK
<1>3. CASE s = Root
  <2>1. closeCall' \in [Closers -> {"idle", "closing", "returned"}] /\ UNCHANGED <<pc, stack>>
    BY <1>0, <1>3 DEF FinishClose, TypeOK
  <2>2. TypeOK'
    BY <1>0, <1>1, <2>1 DEF FinishClose, TypeOK
  <2>3. StackInv' /\ NoOrphan'
    BY <1>0, <1>2, <2>1 DEF StackInv, Live
  <2> QED BY <2>2, <2>3 DEF LifetimeInv
<1>4. CASE s # Root
  <2>1. PICK a \in Actors :
           /\ pc[a] = "closing" /\ Current(a) = s
           /\ stack' = [stack EXCEPT ![a] = Front(@)]
           /\ pc' = [pc EXCEPT ![a] = IF Len(stack[a]) > 1 THEN "running"
                                      ELSE IF a \in Runs THEN "ended" ELSE "completing"]
    BY <1>4 DEF FinishClose
  <2>2. stack[a] \in Seq(Scopes \ {Root}) /\ stack[a] # <<>> /\ busy[a] = Unset
    BY <1>0, <2>1 DEF TypeOK, StackInv
  <2>3. Front(stack[a]) \in Seq(Scopes \ {Root}) /\ Len(Front(stack[a])) = Len(stack[a]) - 1
    BY <2>2, FrontType
  <2>4. Len(stack[a]) > 1 => Front(stack[a]) # <<>>
    <3>1. Len(stack[a]) \in Nat
      BY <2>2, LenProperties
    <3>2. Front(stack[a]) = <<>> => Len(Front(stack[a])) = 0
      BY EmptySeq
    <3> QED BY <2>3, <3>1, <3>2
  <2>5. \/ pc' = [pc EXCEPT ![a] = "running"] /\ Front(stack[a]) # <<>>
        \/ pc' = [pc EXCEPT ![a] = "ended"]
        \/ pc' = [pc EXCEPT ![a] = "completing"]
    BY <2>1, <2>4
  <2>6. stack' \in [Actors -> Seq(Scopes \ {Root})]
    BY <1>0, <2>1, <2>3 DEF TypeOK
  <2>7. UNCHANGED closeCall
    BY <1>4 DEF FinishClose
  <2>8. TypeOK'
    <3>1. /\ UNCHANGED <<finalizers, releasing, children, cancelled, above, busy, owner, forker,
                         into, releases, order, interrupted>>
          /\ status' \in [Scopes -> Status]
      BY <1>0, <1>1 DEF FinishClose, TypeOK
    <3>2. /\ pc' \in [Actors -> {"unborn", "running", "registering", "releasingNow", "closing",
                                  "interrupting", "completing", "completed", "ended"}]
          /\ \A b \in Actors : b # a => pc'[b] = pc[b]
          /\ pc'[a] \in {"running", "ended", "completing"}
      BY <1>0, <2>5 DEF TypeOK
    <3>3. \A b \in Actors :
             /\ pc'[b] \in {"registering", "releasingNow"} => busy[b] \in Resources
             /\ pc'[b] = "interrupting" => busy[b] \in Fibers
             /\ pc'[b] \in {"unborn", "running", "closing"} => busy[b] = Unset
      BY <1>0, <2>2, <3>2 DEF TypeOK
    <3> QED BY <1>0, <2>6, <2>7, <3>1, <3>2, <3>3 DEF TypeOK
  <2>9. StackInv'
    BY <1>0, <2>1, <2>5 DEF StackInv, TypeOK
  <2>10. NoOrphan'
    BY <1>0, <1>2, <2>1, <2>5 DEF Live, TypeOK, Actors
  <2> QED BY <2>8, <2>9, <2>10 DEF LifetimeInv
<1> QED BY <1>3, <1>4

LEMMA CompleteInv ==
  ASSUME LifetimeInv, NEW f \in Fibers, Complete(f) \/ EndGoroutine(f)
  PROVE  LifetimeInv'
<1>0. TypeOK /\ StackInv /\ NoOrphan /\ f \in Actors
  BY DEF LifetimeInv, Actors
<1>1. CASE Complete(f)
  <2>1. TypeOK'
    BY <1>0, <1>1 DEF Complete, TypeOK, scopeVars
  <2>2. StackInv'
    BY <1>0, <1>1 DEF Complete, StackInv, TypeOK
  <2>3. NoOrphan'
    BY <1>0, <1>1, QuietNoOrphan DEF Complete, Live, TypeOK, Actors, scopeVars
  <2> QED BY <2>1, <2>2, <2>3 DEF LifetimeInv
<1>2. CASE EndGoroutine(f)
  <2>1. Under(f) \subseteq Scopes
    BY DEF Under
  <2>2. TypeOK'
    BY <1>0, <1>2, <2>1 DEF EndGoroutine, TypeOK
  <2>3. StackInv'
    BY <1>0, <1>2 DEF EndGoroutine, StackInv, TypeOK
  <2>4. NoOrphan'
    <3> SUFFICES ASSUME NEW g \in Fibers, Live(g)'
                 PROVE  /\ owner'[g] \in Scopes /\ g \in children'[owner'[g]]
                        /\ status'[owner'[g]] \in {"open", "cancelling", "waiting"}
      BY DEF NoOrphan
    <3>1. g # f /\ Live(g)
      BY <1>0, <1>2 DEF EndGoroutine, Live, TypeOK, Actors
    <3>2. /\ owner[g] \in Scopes /\ g \in children[owner[g]]
          /\ status[owner[g]] \in {"open", "cancelling", "waiting"}
      BY <1>0, <3>1 DEF NoOrphan
    <3> QED BY <1>0, <1>2, <3>1, <3>2 DEF EndGoroutine, TypeOK
  <2> QED BY <2>2, <2>3, <2>4 DEF LifetimeInv
<1> QED BY <1>1, <1>2

LEMMA InterruptInv ==
  ASSUME LifetimeInv, NEW a \in Actors,
         \/ \E f \in Fibers : Interrupt(a, f)
         \/ InterruptReturns(a) \/ CancelRun(a)
  PROVE  LifetimeInv'
<1>0. TypeOK /\ StackInv /\ NoOrphan
  BY DEF LifetimeInv
<1>1. ASSUME NEW f \in Fibers, Interrupt(a, f)
      PROVE  LifetimeInv'
  <2>1. Under(f) \subseteq Scopes /\ f \in Actors
    BY DEF Under, Actors
  <2>2. TypeOK'
    BY <1>0, <1>1, <2>1 DEF Interrupt, TypeOK
  <2>3. StackInv'
    BY <1>0, <1>1 DEF Interrupt, StackInv, TypeOK
  <2>4. NoOrphan'
    BY <1>0, <1>1, QuietNoOrphan DEF Interrupt, Live, TypeOK, Actors
  <2> QED BY <2>2, <2>3, <2>4 DEF LifetimeInv
<1>2. CASE InterruptReturns(a)
  <2>1. TypeOK'
    BY <1>0, <1>2 DEF InterruptReturns, TypeOK, scopeVars
  <2>2. StackInv'
    BY <1>0, <1>2 DEF InterruptReturns, StackInv, TypeOK
  <2>3. NoOrphan'
    BY <1>0, <1>2, QuietNoOrphan DEF InterruptReturns, Live, TypeOK, Actors, scopeVars
  <2> QED BY <2>1, <2>2, <2>3 DEF LifetimeInv
<1>3. CASE CancelRun(a)
  <2>1. Under(a) \subseteq Scopes
    BY DEF Under
  <2>2. TypeOK'
    BY <1>0, <1>3, <2>1 DEF CancelRun, TypeOK
  <2>3. StackInv'
    BY <1>0, <1>3 DEF CancelRun, StackInv
  <2>4. NoOrphan'
    BY <1>0, <1>3, QuietNoOrphan DEF CancelRun, Live
  <2> QED BY <2>2, <2>3, <2>4 DEF LifetimeInv
<1> QED BY <1>1, <1>2, <1>3

LEMMA NextInv == LifetimeInv /\ [Next]_vars => LifetimeInv'
<1> SUFFICES ASSUME LifetimeInv, [Next]_vars PROVE LifetimeInv'
  OBVIOUS
<1>1. ASSUME NEW a \in Actors, Choose(a) PROVE LifetimeInv'
  BY <1>1, StartRunInv, InterruptInv, SettleInv, OpenScopedInv, ForkInv, ResourceInv DEF Choose
<1>2. ASSUME NEW a \in Actors, Proceed(a) PROVE LifetimeInv'
  BY <1>2, ResourceInv, InterruptInv, CompleteInv DEF Proceed
<1>3. ASSUME NEW s \in Scopes, Close(s) PROVE LifetimeInv'
  BY <1>3, CloseInv, FinishCloseInv DEF Close
<1>4. ASSUME NEW k \in Closers, CloseRuntime(k) PROVE LifetimeInv'
  BY <1>4, CloseRuntimeInv
<1>5. CASE UNCHANGED vars
  BY <1>5 DEF vars, LifetimeInv, TypeOK, StackInv, NoOrphan, Live
<1> QED BY <1>1, <1>2, <1>3, <1>4, <1>5 DEF Next

LEMMA LifetimeAlways == Spec => []LifetimeInv
<1> QED BY InitInv, NextInv, PTL DEF Spec

\* Every behaviour of the scope tree keeps the types of its state, which is
\* where the model's partial operators (the innermost scope, the resource being
\* registered, the fiber being waited for) are shown to be defined.
THEOREM LifetimeTypes == Spec => []TypeOK
<1>1. LifetimeInv => TypeOK
  BY DEF LifetimeInv
<1> QED BY <1>1, LifetimeAlways, PTL

\* No fiber is ever an orphan: from Scope.Fork to the end of its goroutine its
\* owner counts it and releases nothing, whatever the programs fork, close and
\* interrupt at the same time.
THEOREM LifetimeNoOrphan == Spec => []NoOrphan
<1>1. LifetimeInv => NoOrphan
  BY DEF LifetimeInv
<1> QED BY <1>1, LifetimeAlways, PTL
-----------------------------------------------------------------------------
(* Release discipline.  The three invariants below say where a scope is in *)
(* the tree of contexts, which actor has it open, and where a resource is  *)
(* on its way from acquisition to release.                                 *)

\* A scope's context hangs directly below another's.
HangsBelow(c, s) == c # s /\ above[c] = {c} \cup above[s]

\* The contexts form a forest, rooted in the runtime and the Runs, and scopes
\* are opened below what is there already.
TreeInv ==
    /\ \A s \in Scopes : s \in above[s]
    /\ \A s, t \in Scopes : s \in above[t] => above[s] \subseteq above[t]
    /\ \A s, t \in Scopes : s \in above[t] /\ t \in above[s] => s = t
    /\ \A s, t \in Scopes : s \in above[t] /\ s # t => \E c \in above[t] : HangsBelow(c, s)
    /\ \A s, t \in Scopes : s \in above[t] /\ status[s] = "unborn" => s = t
    /\ \A s \in Runs \cup {Root} : above[s] = {s}

\* A fiber and the scope that awaits it have both been opened, the owner first.
OwnerInv ==
    \A f \in Fibers : owner[f] # Unset =>
        owner[f] # f /\ status[owner[f]] # "unborn" /\ status[f] # "unborn"

Closing == {"cancelling", "waiting", "releasing"}

\* A scope is open or closing exactly while one actor has it on its stack.  The
\* actor's own scope is at the bottom, each lexical scope hangs below the one
\* it was opened in, and only the innermost one can be closing.
OwnAtBottom == \A a \in Actors : stack[a] # <<>> => stack[a][1] = a
LexicalOnTop ==
    \A a \in Actors : \A i \in 2..Len(stack[a]) :
        stack[a][i] \in Lexical /\ HangsBelow(stack[a][i], stack[a][i - 1])
OnOneStack ==
    \A a, b \in Actors : \A i \in 1..Len(stack[a]), j \in 1..Len(stack[b]) :
        stack[a][i] = stack[b][j] => a = b /\ i = j
InnermostCloses ==
    \A a \in Actors : \A i \in 1..Len(stack[a]) :
        IF i = Len(stack[a]) /\ pc[a] = "closing"
        THEN status[stack[a][i]] \in Closing
        ELSE status[stack[a][i]] = "open"
OnSomeStack ==
    \A s \in Scopes \ {Root} : status[s] \notin {"unborn", "closed"} =>
        \E a \in Actors : \E i \in 1..Len(stack[a]) : stack[a][i] = s
OutsideProgram ==
    \A a \in Actors :
        /\ pc[a] = "unborn" => stack[a] = <<>> /\ status[a] = "unborn"
        /\ pc[a] \in {"completing", "completed", "ended"} =>
              stack[a] = <<>> /\ status[a] = "closed"
StacksInv ==
    /\ OwnAtBottom /\ LexicalOnTop /\ OnOneStack
    /\ InnermostCloses /\ OnSomeStack /\ OutsideProgram

\* From the moment a scope releases, nothing it owned is left.
ChildrenInv == \A s \in Scopes : status[s] \in {"releasing", "closed"} => children[s] = {}

\* What a scope has yet to release.
Pending(s) == IF status[s] = "open" THEN finalizers[s] ELSE releasing[s]

\* The actor that has acquired r and has yet to hand it over or release it.
Holds(a, r) == pc[a] \in {"registering", "releasingNow"} /\ busy[a] = r

\* Of what was registered with a scope, in order, a first part is pending and
\* the rest has been released: nothing is gone before the scope releases, and
\* all of it afterwards.
PendingAt(s) ==
    /\ Len(Pending(s)) <= Len(order[s])
    /\ \A i \in 1..Len(Pending(s)) : Pending(s)[i] = order[s][i]
    /\ \A i \in 1..Len(order[s]) :
          releases[order[s][i]] = IF i <= Len(Pending(s)) THEN 0 ELSE 1
    /\ status[s] \notin {"releasing", "closed"} => Len(Pending(s)) = Len(order[s])
    /\ status[s] = "closed" => Len(Pending(s)) = 0
    /\ status[s] = "unborn" => order[s] = <<>> /\ finalizers[s] = <<>>
PendingInv == \A s \in Scopes : PendingAt(s)

\* A resource is registered at most once, with the scope it was acquired into;
\* until then the one actor that acquired it holds it, and nobody released it.
RegisteredInto == \A s \in Scopes : \A i \in 1..Len(order[s]) : into[order[s][i]] = s
RegisteredOnce ==
    \A s \in Scopes : \A i, j \in 1..Len(order[s]) : order[s][i] = order[s][j] => i = j
HeldByOne ==
    \A a \in Actors, r \in Resources : Holds(a, r) =>
        /\ into[r] \in Scopes /\ releases[r] = 0
        /\ \A s \in Scopes : \A i \in 1..Len(order[s]) : order[s][i] # r
        /\ \A b \in Actors : Holds(b, r) => a = b
NotAcquired == \A r \in Resources : into[r] = Unset => releases[r] = 0
Accounted ==
    \A r \in Resources : into[r] # Unset =>
        \/ releases[r] = 1
        \/ \E a \in Actors : Holds(a, r)
        \/ \E i \in 1..Len(order[into[r]]) : order[into[r]][i] = r
HeldInv ==
    RegisteredInto /\ RegisteredOnce /\ HeldByOne /\ ReleasedOnce /\ NotAcquired /\ Accounted

DisciplineInv ==
    /\ LifetimeInv /\ TreeInv /\ OwnerInv /\ StacksInv /\ ChildrenInv /\ PendingInv /\ HeldInv
    /\ ReleaseIsLast

Alive(t) == status[t] \notin {"unborn", "closed"} \/ (t \in Actors /\ Live(t))

LEMMA LastRestated ==
  ReleaseIsLast <=>
    \A s \in Scopes, t \in Scopes :
        /\ status[s] \in {"releasing", "closed"} /\ s \in above[t] /\ t # s
        /\ \A f \in Fibers \cap above[t] : f # s /\ s \in above[f] => Structured(f)
        => ~Alive(t)
  BY DEF ReleaseIsLast, Alive

LEMMA TreeQuiet ==
  ASSUME TreeInv, UNCHANGED above,
         \A s \in Scopes : status'[s] = "unborn" => status[s] = "unborn"
  PROVE  TreeInv'
  BY DEF TreeInv, HangsBelow

LEMMA OwnerQuiet ==
  ASSUME TypeOK, OwnerInv, UNCHANGED owner,
         \A s \in Scopes : status'[s] = "unborn" => status[s] = "unborn"
  PROVE  OwnerInv'
  BY DEF OwnerInv, TypeOK, Scopes, Actors

\* A step in which nobody comes alive and no scope starts to release.
LEMMA LastQuiet ==
  ASSUME ReleaseIsLast, UNCHANGED <<above, owner>>,
         \A t \in Scopes : Alive(t)' => Alive(t),
         \A s \in Scopes : status'[s] \in {"releasing", "closed"}
                             => status[s] \in {"releasing", "closed"}
  PROVE  ReleaseIsLast'
<1> SUFFICES ASSUME NEW s \in Scopes, NEW t \in Scopes,
                    status'[s] \in {"releasing", "closed"}, s \in above'[t], t # s,
                    \A f \in Fibers \cap above'[t] : f # s /\ s \in above'[f] => Structured(f)'
             PROVE  ~Alive(t)'
  BY DEF ReleaseIsLast, Alive
<1>1. \A f \in Fibers \cap above[t] : f # s /\ s \in above[f] => Structured(f)
  BY DEF Structured
<1> QED BY <1>1, LastRestated

\* The scope a context hangs below is the only one it hangs below.
LEMMA OneParent ==
  ASSUME TypeOK, TreeInv, NEW c \in Scopes, NEW p \in Scopes, NEW q \in Scopes,
         HangsBelow(c, p), HangsBelow(c, q)
  PROVE  p = q
<1>1. p \in above[p] /\ q \in above[q]
  BY DEF TreeInv
<1>2. p \in above[q] /\ q \in above[p]
  BY <1>1 DEF HangsBelow
<1> QED BY <1>2 DEF TreeInv

\* A new context, below an open one or below none.
LEMMA TreeNew ==
  ASSUME TypeOK, TreeInv, NEW s \in Scopes, NEW U,
         status[s] = "unborn", status' = [status EXCEPT ![s] = "open"],
         above' = [above EXCEPT ![s] = {s} \cup U],
         U = {} \/ (s \notin Runs \cup {Root} /\ \E p \in Scopes : status[p] # "unborn" /\ U = above[p])
  PROVE  TreeInv'
<1>0. \A t \in Scopes \ {s} : above'[t] = above[t] /\ s \notin above[t] /\ above[t] \subseteq Scopes
  BY DEF TypeOK, TreeInv
<1>1. above'[s] = {s} \cup U /\ s \notin U /\ U \subseteq Scopes
  BY <1>0 DEF TypeOK
<1>2. \A t \in Scopes : status'[t] = "unborn" => status[t] = "unborn" /\ t # s
  BY DEF TypeOK
<1>3. \A u \in U : above[u] \subseteq U /\ \A t \in Scopes : t \in U /\ t \in above[u] /\ u \in above[t] => t = u
  <2> SUFFICES ASSUME NEW u \in U PROVE above[u] \subseteq U /\ \A t \in Scopes : t \in U /\ t \in above[u] /\ u \in above[t] => t = u
    OBVIOUS
  <2>1. PICK p \in Scopes : U = above[p]
    OBVIOUS
  <2>2. u \in Scopes
    BY <1>1
  <2> QED BY <2>1, <2>2 DEF TreeInv
<1>4. (\A t \in Scopes : t \in above[t])'
  BY <1>0, <1>1 DEF TreeInv
<1>5. (\A t, u \in Scopes : t \in above[u] => above[t] \subseteq above[u])'
  <2> SUFFICES ASSUME NEW t \in Scopes, NEW u \in Scopes, t \in above'[u]
               PROVE  above'[t] \subseteq above'[u]
    OBVIOUS
  <2>1. CASE u = s
    <3>1. CASE t = s
      BY <2>1, <3>1
    <3>2. CASE t # s
      BY <1>0, <1>1, <1>3, <2>1, <3>2
    <3> QED BY <3>1, <3>2
  <2>2. CASE u # s
    BY <1>0, <2>2 DEF TreeInv
  <2> QED BY <2>1, <2>2
<1>6. (\A t, u \in Scopes : t \in above[u] /\ u \in above[t] => t = u)'
  BY <1>0, <1>1 DEF TreeInv
<1>7. (\A t, u \in Scopes : t \in above[u] /\ t # u => \E c \in above[u] : HangsBelow(c, t))'
  <2> SUFFICES ASSUME NEW t \in Scopes, NEW u \in Scopes, t \in above'[u], t # u
               PROVE  \E c \in above'[u] : c # t /\ above'[c] = {c} \cup above'[t]
    BY DEF HangsBelow
  <2>1. CASE u = s
    <3>1. t \in U /\ t # s /\ above'[t] = above[t]
      BY <1>0, <1>1, <2>1
    <3>2. PICK p \in Scopes : U = above[p] /\ status[p] # "unborn"
      BY <3>1
    <3>3. CASE t = p
      BY <1>1, <2>1, <3>1, <3>2, <3>3
    <3>4. CASE t # p
      <4>1. PICK c \in above[p] : c # t /\ above[c] = {c} \cup above[t]
        BY <3>1, <3>2, <3>4 DEF TreeInv, HangsBelow
      <4>2. c \in Scopes \ {s}
        BY <1>1, <3>2, <4>1
      <4> QED BY <1>0, <1>1, <2>1, <3>1, <3>2, <4>1, <4>2
    <3> QED BY <3>3, <3>4
  <2>2. CASE u # s
    <3>1. t \in above[u] /\ t # s
      BY <1>0, <2>2
    <3>2. PICK c \in above[u] : c # t /\ above[c] = {c} \cup above[t]
      BY <2>2, <3>1 DEF TreeInv, HangsBelow
    <3>3. c \in Scopes \ {s}
      BY <1>0, <2>2, <3>2
    <3> QED BY <1>0, <2>2, <3>1, <3>2, <3>3
  <2> QED BY <2>1, <2>2
<1>8. (\A t, u \in Scopes : t \in above[u] /\ status[t] = "unborn" => t = u)'
  <2> SUFFICES ASSUME NEW t \in Scopes, NEW u \in Scopes, t \in above'[u], status'[t] = "unborn"
               PROVE  t = u
    OBVIOUS
  <2>1. status[t] = "unborn" /\ t # s
    BY <1>2
  <2>2. CASE u = s
    <3>1. PICK p \in Scopes : U = above[p] /\ status[p] # "unborn"
      BY <1>1, <2>1, <2>2
    <3>2. t \in above[p]
      BY <1>1, <2>1, <2>2, <3>1
    <3> QED BY <2>1, <3>1, <3>2 DEF TreeInv
  <2>3. CASE u # s
    BY <1>0, <2>1, <2>3 DEF TreeInv
  <2> QED BY <2>2, <2>3
<1>9. (\A t \in Runs \cup {Root} : above[t] = {t})'
  <2> SUFFICES ASSUME NEW t \in Runs \cup {Root} PROVE above'[t] = {t}
    OBVIOUS
  <2>1. t \in Scopes
    BY DEF Scopes, Actors
  <2>2. CASE t = s
    BY <1>1, <2>2
  <2>3. CASE t # s
    BY <1>0, <2>1, <2>3 DEF TreeInv
  <2> QED BY <2>2, <2>3
<1> QED BY <1>4, <1>5, <1>6, <1>7, <1>8, <1>9 DEF TreeInv

\* What is new hangs below an open scope.
LEMMA LastNew ==
  ASSUME TypeOK, TreeInv, OwnerInv, ReleaseIsLast, NEW s \in Scopes, NEW U,
         status[s] = "unborn", status' = [status EXCEPT ![s] = "open"],
         above' = [above EXCEPT ![s] = {s} \cup U],
         U = {} \/ \E p \in Scopes : status[p] = "open" /\ U = above[p],
         \A t \in Scopes \ {s} : Alive(t)' => Alive(t),
         \A f \in Fibers \ {s} : owner'[f] = owner[f]
  PROVE  ReleaseIsLast'
<1>0. \A t \in Scopes \ {s} : above'[t] = above[t] /\ s \notin above[t] /\ above[t] \subseteq Scopes
  BY DEF TypeOK, TreeInv
<1>1. above'[s] = {s} \cup U /\ s \notin U /\ U \subseteq Scopes
  BY <1>0 DEF TypeOK
<1> SUFFICES ASSUME NEW q \in Scopes, NEW t \in Scopes,
                    status'[q] \in {"releasing", "closed"}, q \in above'[t], t # q,
                    \A f \in Fibers \cap above'[t] : f # q /\ q \in above'[f] => Structured(f)'
             PROVE  ~Alive(t)'
  BY DEF ReleaseIsLast, Alive
<1>2. q # s /\ status[q] \in {"releasing", "closed"}
  BY DEF TypeOK
<1>3. \A f \in Fibers \ {s} : Structured(f)' => Structured(f)
  <2> SUFFICES ASSUME NEW f \in Fibers \ {s}, Structured(f)', owner[f] # Unset
               PROVE  above[f] = {f} \cup above[owner[f]]
    BY DEF Structured
  <2>1. f \in Scopes /\ owner[f] \in Scopes \ {s} /\ owner'[f] = owner[f]
    BY DEF OwnerInv, TypeOK, Scopes, Actors
  <2> QED BY <1>0, <2>1 DEF Structured
<1>4. CASE t = s
  <2>1. PICK p \in Scopes : status[p] = "open" /\ U = above[p]
    BY <1>1, <1>4
  <2>2. q \in above[p] /\ q # p
    BY <1>1, <1>2, <1>4, <2>1
  <2>3. \A f \in Fibers \cap above[p] : f # q /\ q \in above[f] => Structured(f)
    <3> SUFFICES ASSUME NEW f \in Fibers \cap above[p], f # q, q \in above[f]
                 PROVE  Structured(f)
      OBVIOUS
    <3>1. f \in Scopes \ {s} /\ f \in above'[t]
      BY <1>1, <1>4, <2>1
    <3> QED BY <1>0, <1>3, <3>1
  <2>4. ~Alive(p)
    BY <1>2, <2>2, <2>3, LastRestated
  <2> QED BY <2>1, <2>4 DEF Alive
<1>5. CASE t # s
  <2>1. \A f \in Fibers \cap above[t] : f # q /\ q \in above[f] => Structured(f)
    <3> SUFFICES ASSUME NEW f \in Fibers \cap above[t], f # q, q \in above[f]
                 PROVE  Structured(f)
      OBVIOUS
    <3>1. f \in Scopes \ {s} /\ f \in above'[t]
      BY <1>0, <1>5
    <3> QED BY <1>0, <1>3, <3>1
  <2>2. ~Alive(t)
    BY <1>0, <1>2, <1>5, <2>1, LastRestated
  <2> QED BY <1>5, <2>2
<1> QED BY <1>4, <1>5

\* When a scope starts to release, nothing that is alive hangs directly below
\* it: a lexical scope would be on the stack above it, a fiber among its
\* children.
LEMMA NothingBelow ==
  ASSUME LifetimeInv, TreeInv, OwnerInv, StacksInv, NEW s \in Scopes, NEW c \in Scopes,
         status[s] = "waiting", children[s] = {}, HangsBelow(c, s),
         c \in Fibers => Structured(c)
  PROVE  ~Alive(c)
<1>0. TypeOK /\ NoOrphan /\ s \in above[c] /\ c # s
  BY DEF LifetimeInv, TreeInv, HangsBelow
<1>1. c \notin Runs \cup {Root}
  BY <1>0 DEF TreeInv
<1>2. CASE c \in Fibers
  <2>1. SUFFICES ASSUME Alive(c) PROVE FALSE
    OBVIOUS
  <2>2. Live(c)
    BY <1>2, <2>1 DEF Alive, StacksInv, OutsideProgram, Actors, Live
  <2>3. owner[c] \in Scopes /\ c \in children[owner[c]]
    BY <1>0, <1>2, <2>2 DEF NoOrphan
  <2>4. owner[c] # Unset /\ owner[c] # c
    BY <1>2, <2>3, LifetimeConstants DEF OwnerInv
  <2>5. HangsBelow(c, owner[c])
    BY <1>2, <2>4 DEF Structured, HangsBelow
  <2>6. owner[c] = s
    BY <1>0, <2>3, <2>5, OneParent
  <2> QED BY <2>3, <2>6
<1>3. CASE c \in Lexical
  <2>1. SUFFICES ASSUME Alive(c) PROVE FALSE
    OBVIOUS
  <2>2. status[c] \notin {"unborn", "closed"}
    BY <1>3, <2>1, LifetimeConstants DEF Alive
  <2>3. PICK a \in Actors : \E i \in 1..Len(stack[a]) : stack[a][i] = c
    BY <1>1, <2>2 DEF StacksInv, OwnAtBottom, LexicalOnTop, InnermostCloses, OnSomeStack
  <2>3a. PICK i \in 1..Len(stack[a]) : stack[a][i] = c
    BY <2>3
  <2>4. stack[a] \in Seq(Scopes \ {Root}) /\ Len(stack[a]) \in Nat
    BY <1>0, LenProperties DEF TypeOK
  <2>5. stack[a] # <<>>
    BY <2>3a, <2>4, EmptySeq
  <2>6. i # 1
    <3>1. c \notin Actors
      BY <1>3, LifetimeConstants
    <3> QED BY <2>3a, <2>5, <3>1 DEF StacksInv, OwnAtBottom, LexicalOnTop, InnermostCloses, OnSomeStack
  <2>7. i \in 2..Len(stack[a]) /\ i - 1 \in 1..Len(stack[a]) /\ i - 1 # Len(stack[a])
    BY <2>4, <2>6
  <2>8. HangsBelow(c, stack[a][i - 1])
    BY <2>3a, <2>7 DEF StacksInv, OwnAtBottom, LexicalOnTop, InnermostCloses, OnSomeStack
  <2>9. stack[a][i - 1] \in Scopes
    BY <2>4, <2>7, ElementOfSeq
  <2>10. stack[a][i - 1] = s
    BY <1>0, <2>8, <2>9, OneParent
  <2>11. status[stack[a][i - 1]] = "open"
    BY <2>7 DEF StacksInv, OwnAtBottom, LexicalOnTop, InnermostCloses, OnSomeStack
  <2> QED BY <2>10, <2>11
<1> QED BY <1>1, <1>2, <1>3 DEF Scopes, Actors

LEMMA LastAwait ==
  ASSUME DisciplineInv, NEW s \in Scopes, AwaitChildren(s)
  PROVE  ReleaseIsLast'
<1>0. /\ LifetimeInv /\ TypeOK /\ TreeInv /\ OwnerInv /\ StacksInv /\ ReleaseIsLast
      /\ UNCHANGED <<above, owner, pc>>
      /\ status[s] = "waiting" /\ children[s] = {} /\ status' = [status EXCEPT ![s] = "releasing"]
  BY DEF DisciplineInv, LifetimeInv, AwaitChildren
<1> SUFFICES ASSUME NEW q \in Scopes, NEW t \in Scopes,
                    status'[q] \in {"releasing", "closed"}, q \in above[t], t # q,
                    \A f \in Fibers \cap above[t] : f # q /\ q \in above[f] => Structured(f)
             PROVE  ~Alive(t)'
  BY <1>0 DEF ReleaseIsLast, Alive, Structured
<1>1. SUFFICES ~Alive(t)
  BY <1>0 DEF Alive, Live, TypeOK
<1>2. CASE q # s
  <2>1. status[q] \in {"releasing", "closed"}
    BY <1>0, <1>2 DEF TypeOK
  <2> QED BY <1>0, <2>1, LastRestated
<1>3. CASE q = s
  <2>1. PICK c \in above[t] : HangsBelow(c, s)
    BY <1>0, <1>3 DEF TreeInv
  <2>2. c \in Scopes /\ s \in above[c] /\ c # s
    BY <1>0, <2>1 DEF TypeOK, TreeInv, HangsBelow
  <2>3. c \in Fibers => Structured(c)
    BY <1>3, <2>1, <2>2
  <2>4. ~Alive(c)
    BY <1>0, <2>1, <2>2, <2>3, NothingBelow
  <2>5. CASE c = t
    BY <2>4, <2>5
  <2>6. CASE c # t
    <3>1. status[c] \in {"releasing", "closed"}
      BY <1>0, <2>1, <2>2, <2>4, <2>6 DEF Alive, TreeInv, TypeOK, Status
    <3>2. ASSUME NEW f \in Fibers \cap above[t], f # c, c \in above[f]
          PROVE  Structured(f)
      <4>1. f \in Scopes /\ s \in above[f]
        BY <1>0, <2>2, <3>2 DEF TreeInv, TypeOK
      <4>2. f # s
        BY <1>0, <2>2, <3>2 DEF TreeInv
      <4> QED BY <1>3, <4>1, <4>2
    <3> QED BY <1>0, <2>1, <2>2, <2>6, <3>1, <3>2, LastRestated
  <2> QED BY <2>5, <2>6
<1> QED BY <1>2, <1>3

LEMMA StackElement ==
  ASSUME TypeOK, NEW a \in Actors
  PROVE  /\ stack[a] \in Seq(Scopes \ {Root}) /\ Len(stack[a]) \in Nat
         /\ \A i \in 1..Len(stack[a]) : stack[a][i] \in Scopes \ {Root}
         /\ stack[a] = <<>> <=> Len(stack[a]) = 0
<1>1. stack[a] \in Seq(Scopes \ {Root})
  BY DEF TypeOK
<1> QED BY <1>1, LenProperties, ElementOfSeq, EmptySeq

LEMMA FrontFacts ==
  ASSUME NEW S, NEW s \in Seq(S), s # <<>>
  PROVE  /\ Front(s) \in Seq(S) /\ Len(Front(s)) = Len(s) - 1
         /\ \A i \in 1..(Len(s) - 1) : Front(s)[i] = s[i]
         /\ Last(s) = s[Len(s)] /\ Len(s) \in Nat \ {0}
<1>1. Len(s) \in Nat \ {0} /\ s \in [1..Len(s) -> S]
  BY EmptySeq, LenProperties
<1>2. \A i \in 1..(Len(s) - 1) : s[i] \in S
  BY <1>1
<1> QED BY <1>1, <1>2, SubSeqProperties DEF Front, Last

\* Steps that open and close nothing.
LEMMA StacksQuiet ==
  ASSUME StacksInv, UNCHANGED <<stack, above, status>>,
         \A a \in Actors :
            /\ pc'[a] = "closing" <=> pc[a] = "closing"
            /\ pc'[a] = "unborn" => pc[a] = "unborn"
            /\ pc'[a] \in {"completing", "completed", "ended"} =>
                  pc[a] \in {"completing", "completed", "ended"}
  PROVE  StacksInv'
<1>1. OwnAtBottom' /\ LexicalOnTop' /\ OnOneStack'
  BY DEF StacksInv, OwnAtBottom, LexicalOnTop, OnOneStack, HangsBelow
<1>2. InnermostCloses'
  BY DEF StacksInv, InnermostCloses
<1>3. OnSomeStack'
  BY DEF StacksInv, OnSomeStack
<1>4. OutsideProgram'
  BY DEF StacksInv, OutsideProgram
<1> QED BY <1>1, <1>2, <1>3, <1>4 DEF StacksInv

\* The root changes its status, or a scope goes on closing.
LEMMA StacksMove ==
  ASSUME TypeOK, StacksInv, UNCHANGED <<stack, above, pc>>, NEW s \in Scopes, NEW x,
         status' = [status EXCEPT ![s] = x],
         s = Root \/ (status[s] \in Closing /\ x \in Closing)
  PROVE  StacksInv'
<1>0. \A t \in Scopes : status'[t] = IF t = s THEN x ELSE status[t]
  BY DEF TypeOK
<1>1. OwnAtBottom' /\ LexicalOnTop' /\ OnOneStack'
  BY DEF StacksInv, OwnAtBottom, LexicalOnTop, OnOneStack, HangsBelow
<1>2. InnermostCloses'
  <2> SUFFICES ASSUME NEW a \in Actors, NEW i \in 1..Len(stack[a])
               PROVE  IF i = Len(stack[a]) /\ pc[a] = "closing"
                      THEN status'[stack[a][i]] \in Closing
                      ELSE status'[stack[a][i]] = "open"
    BY DEF InnermostCloses
  <2>1. stack[a][i] \in Scopes \ {Root}
    BY StackElement
  <2>2. IF i = Len(stack[a]) /\ pc[a] = "closing"
        THEN status[stack[a][i]] \in Closing
        ELSE status[stack[a][i]] = "open"
    BY DEF StacksInv, InnermostCloses
  <2> QED BY <1>0, <2>1, <2>2 DEF Closing
<1>3. OnSomeStack'
  BY <1>0 DEF StacksInv, OnSomeStack, Closing
<1>4. OutsideProgram'
  <2>1. \A a \in Actors : a \in Scopes /\ a # Root
    BY LifetimeConstants DEF Scopes
  <2> QED BY <1>0, <2>1 DEF StacksInv, OutsideProgram, Closing
<1> QED BY <1>1, <1>2, <1>3, <1>4 DEF StacksInv

LEMMA StacksSettle ==
  ASSUME LifetimeInv, StacksInv, NEW a \in Actors, Settle(a)
  PROVE  StacksInv'
<1>0. /\ TypeOK /\ pc[a] = "running" /\ pc' = [pc EXCEPT ![a] = "closing"]
      /\ UNCHANGED <<stack, above>>
      /\ status' = [status EXCEPT ![Current(a)] = "cancelling"]
  BY DEF LifetimeInv, Settle, BeginClose
<1>1. /\ stack[a] \in Seq(Scopes \ {Root}) /\ stack[a] # <<>>
      /\ Len(stack[a]) \in 1..Len(stack[a]) /\ Current(a) = stack[a][Len(stack[a])]
      /\ Current(a) \in Scopes \ {Root}
  <2>1. stack[a] \in Seq(Scopes \ {Root}) /\ stack[a] # <<>>
    BY <1>0, StackElement DEF LifetimeInv, StackInv
  <2>2. Len(stack[a]) \in Nat \ {0} /\ Last(stack[a]) = stack[a][Len(stack[a])]
    BY <2>1, FrontFacts
  <2>3. Len(stack[a]) \in 1..Len(stack[a])
    BY <2>2
  <2> QED BY <1>0, <2>1, <2>2, <2>3, StackElement DEF Current
<1>2. /\ \A t \in Scopes : status'[t] = IF t = Current(a) THEN "cancelling" ELSE status[t]
      /\ \A b \in Actors : pc'[b] = IF b = a THEN "closing" ELSE pc[b]
  BY <1>0 DEF TypeOK
<1>3. OwnAtBottom' /\ LexicalOnTop' /\ OnOneStack'
  BY <1>0 DEF StacksInv, OwnAtBottom, LexicalOnTop, OnOneStack, HangsBelow
<1>4. InnermostCloses'
  <2> SUFFICES ASSUME NEW b \in Actors, NEW i \in 1..Len(stack[b])
               PROVE  IF i = Len(stack[b]) /\ pc'[b] = "closing"
                      THEN status'[stack[b][i]] \in Closing
                      ELSE status'[stack[b][i]] = "open"
    BY <1>0 DEF InnermostCloses
  <2>1. stack[b][i] \in Scopes
    BY <1>0, StackElement
  <2>2. IF i = Len(stack[b]) /\ pc[b] = "closing"
        THEN status[stack[b][i]] \in Closing
        ELSE status[stack[b][i]] = "open"
    BY DEF StacksInv, InnermostCloses
  <2>3. stack[b][i] = Current(a) => b = a /\ i = Len(stack[a])
    BY <1>1 DEF StacksInv, OnOneStack
  <2>4. b = a /\ i = Len(stack[a]) => stack[b][i] = Current(a)
    BY <1>1
  <2> QED BY <1>0, <1>2, <2>1, <2>2, <2>3, <2>4 DEF Closing
<1>5. OnSomeStack'
  BY <1>0, <1>1, <1>2 DEF StacksInv, OnSomeStack
<1>6. OutsideProgram'
  <2> SUFFICES ASSUME NEW b \in Actors
               PROVE  /\ pc'[b] = "unborn" => stack[b] = <<>> /\ status'[b] = "unborn"
                      /\ pc'[b] \in {"completing", "completed", "ended"} =>
                            stack[b] = <<>> /\ status'[b] = "closed"
    BY <1>0 DEF OutsideProgram
  <2>1. status[Current(a)] = "open"
    BY <1>0, <1>1 DEF StacksInv, InnermostCloses
  <2>2. b \in Scopes
    BY DEF Scopes
  <2> QED BY <1>2, <2>1, <2>2 DEF StacksInv, OutsideProgram
<1> QED BY <1>3, <1>4, <1>5, <1>6 DEF StacksInv

\* An actor leaves the innermost of its scopes, which is closed.
LEMMA StacksFinish ==
  ASSUME LifetimeInv, StacksInv, NEW a \in Actors, NEW s \in Scopes \ {Root}, NEW x,
         pc[a] = "closing", Current(a) = s, UNCHANGED above,
         status' = [status EXCEPT ![s] = "closed"],
         stack' = [stack EXCEPT ![a] = Front(@)], pc' = [pc EXCEPT ![a] = x],
         IF Len(stack[a]) > 1 THEN x = "running" ELSE x \in {"completing", "ended"}
  PROVE  StacksInv'
<1>0. TypeOK /\ stack[a] \in Seq(Scopes \ {Root}) /\ stack[a] # <<>>
  BY StackElement DEF LifetimeInv, StackInv
<1> DEFINE n == Len(stack[a])
<1>1. /\ n \in Nat \ {0} /\ n \in 1..n /\ s = stack[a][n]
      /\ Len(stack'[a]) = n - 1 /\ \A i \in 1..(n - 1) : stack'[a][i] = stack[a][i]
      /\ stack'[a] = <<>> <=> n = 1
  <2>1. /\ n \in Nat \ {0} /\ s = stack[a][n] /\ Front(stack[a]) \in Seq(Scopes \ {Root})
        /\ Len(Front(stack[a])) = n - 1 /\ \A i \in 1..(n - 1) : Front(stack[a])[i] = stack[a][i]
    BY <1>0, FrontFacts DEF Current
  <2>2. stack'[a] = Front(stack[a])
    BY <1>0 DEF TypeOK
  <2>3. Front(stack[a]) = <<>> <=> Len(Front(stack[a])) = 0
    BY <2>1, EmptySeq
  <2> QED BY <2>1, <2>2, <2>3
<1>2. /\ \A t \in Scopes : status'[t] = IF t = s THEN "closed" ELSE status[t]
      /\ \A b \in Actors : pc'[b] = IF b = a THEN x ELSE pc[b]
      /\ \A b \in Actors \ {a} : stack'[b] = stack[b]
  BY <1>0 DEF TypeOK
<1>3. \A b \in Actors : /\ Len(stack'[b]) = IF b = a THEN n - 1 ELSE Len(stack[b])
                        /\ \A i \in 1..Len(stack'[b]) : i \in 1..Len(stack[b]) /\ stack'[b][i] = stack[b][i]
  <2> SUFFICES ASSUME NEW b \in Actors
               PROVE  /\ Len(stack'[b]) = IF b = a THEN n - 1 ELSE Len(stack[b])
                      /\ \A i \in 1..Len(stack'[b]) : i \in 1..Len(stack[b]) /\ stack'[b][i] = stack[b][i]
    OBVIOUS
  <2>1. CASE b = a
    BY <1>1, <2>1
  <2>2. CASE b # a
    BY <1>2, <2>2
  <2> QED BY <2>1, <2>2
<1> HIDE DEF n
<1>4. OwnAtBottom'
  <2> SUFFICES ASSUME NEW b \in Actors, stack'[b] # <<>> PROVE stack'[b][1] = b
    BY DEF OwnAtBottom
  <2>1. CASE b = a
    <3>1. n > 1 /\ 1 \in 1..(n - 1)
      BY <1>1, <2>1
    <3>2. stack[a][1] = a
      BY <1>0 DEF StacksInv, OwnAtBottom
    <3> QED BY <1>1, <2>1, <3>1, <3>2
  <2>2. CASE b # a
    BY <1>2, <2>2 DEF StacksInv, OwnAtBottom
  <2> QED BY <2>1, <2>2
<1>5. LexicalOnTop'
  <2> SUFFICES ASSUME NEW b \in Actors, NEW i \in 2..Len(stack'[b])
               PROVE  stack'[b][i] \in Lexical /\ HangsBelow(stack[b][i], stack[b][i - 1])'
    BY DEF LexicalOnTop
  <2>1. Len(stack[b]) \in Nat
    BY <1>0, StackElement
  <2>2. Len(stack'[b]) \in Nat
    <3>1. CASE b = a
      BY <1>1, <1>3, <3>1
    <3>2. CASE b # a
      BY <1>3, <2>1, <3>2
    <3> QED BY <3>1, <3>2
  <2>3. i \in 1..Len(stack'[b]) /\ i - 1 \in 1..Len(stack'[b])
    BY <2>2
  <2>4. stack'[b][i] = stack[b][i] /\ stack'[b][i - 1] = stack[b][i - 1] /\ i \in 1..Len(stack[b])
    BY <1>3, <2>3
  <2>5. i \in 2..Len(stack[b])
    BY <2>1, <2>4
  <2>6. stack[b][i] \in Lexical /\ HangsBelow(stack[b][i], stack[b][i - 1])
    BY <2>5 DEF StacksInv, LexicalOnTop
  <2> QED BY <2>4, <2>6 DEF HangsBelow
<1>6. OnOneStack'
  <2> SUFFICES ASSUME NEW b \in Actors, NEW c \in Actors, NEW i \in 1..Len(stack'[b]),
                      NEW j \in 1..Len(stack'[c]), stack'[b][i] = stack'[c][j]
               PROVE  b = c /\ i = j
    BY DEF OnOneStack
  <2>1. i \in 1..Len(stack[b]) /\ j \in 1..Len(stack[c]) /\ stack[b][i] = stack[c][j]
    BY <1>3
  <2> QED BY <2>1 DEF StacksInv, OnOneStack
<1>7. \A b \in Actors : \A i \in 1..Len(stack'[b]) : stack[b][i] # s
  <2> SUFFICES ASSUME NEW b \in Actors, NEW i \in 1..Len(stack'[b]), stack[b][i] = s PROVE FALSE
    OBVIOUS
  <2>1. i \in 1..Len(stack[b])
    BY <1>3
  <2>2. b = a /\ i = n
    BY <1>1, <2>1 DEF StacksInv, OnOneStack, n
  <2> QED BY <1>1, <2>2
<1>8. InnermostCloses'
  <2> SUFFICES ASSUME NEW b \in Actors, NEW i \in 1..Len(stack'[b])
               PROVE  IF i = Len(stack'[b]) /\ pc'[b] = "closing"
                      THEN status'[stack'[b][i]] \in Closing
                      ELSE status'[stack'[b][i]] = "open"
    BY DEF InnermostCloses
  <2>1. i \in 1..Len(stack[b]) /\ stack'[b][i] = stack[b][i] /\ stack[b][i] # s
    BY <1>3, <1>7
  <2>2. stack[b][i] \in Scopes
    BY <1>0, <2>1, StackElement
  <2>3. IF i = Len(stack[b]) /\ pc[b] = "closing"
        THEN status[stack[b][i]] \in Closing
        ELSE status[stack[b][i]] = "open"
    BY <2>1 DEF StacksInv, InnermostCloses
  <2>4. CASE b = a
    <3>1. i # Len(stack[b]) /\ pc'[b] # "closing"
      BY <1>1, <1>2, <1>3, <2>4 DEF n
    <3> QED BY <1>2, <2>1, <2>2, <2>3, <3>1
  <2>5. CASE b # a
    BY <1>2, <2>1, <2>2, <2>3, <2>5
  <2> QED BY <2>4, <2>5
<1>9. OnSomeStack'
  <2> SUFFICES ASSUME NEW t \in Scopes \ {Root}, status'[t] \notin {"unborn", "closed"}
               PROVE  \E b \in Actors : \E i \in 1..Len(stack'[b]) : stack'[b][i] = t
    BY DEF OnSomeStack
  <2>1. t # s /\ status[t] \notin {"unborn", "closed"}
    BY <1>2
  <2>2. PICK b \in Actors : \E i \in 1..Len(stack[b]) : stack[b][i] = t
    BY <2>1 DEF StacksInv, OnSomeStack
  <2>3. PICK i \in 1..Len(stack[b]) : stack[b][i] = t
    BY <2>2
  <2>4. i \in 1..Len(stack'[b])
    <3>1. CASE b = a
      <4>1. i # n /\ i \in 1..n
        BY <1>1, <2>1, <2>3, <3>1 DEF n
      <4> QED BY <1>1, <3>1, <4>1
    <3>2. CASE b # a
      BY <1>2, <3>2
    <3> QED BY <3>1, <3>2
  <2> QED BY <1>3, <2>3, <2>4
<1>10. OutsideProgram'
  <2> SUFFICES ASSUME NEW b \in Actors
               PROVE  /\ pc'[b] = "unborn" => stack'[b] = <<>> /\ status'[b] = "unborn"
                      /\ pc'[b] \in {"completing", "completed", "ended"} =>
                            stack'[b] = <<>> /\ status'[b] = "closed"
    BY DEF OutsideProgram
  <2>1. b \in Scopes
    BY DEF Scopes
  <2>2. CASE b = a
    <3>1. pc'[b] # "unborn"
      BY <1>2, <2>2
    <3>2. ASSUME pc'[b] \in {"completing", "completed", "ended"}
          PROVE  stack'[b] = <<>> /\ status'[b] = "closed"
      <4>1. n = 1
        BY <1>1, <1>2, <2>2, <3>2 DEF n
      <4>2. s = a
        BY <1>0, <1>1, <4>1 DEF StacksInv, OwnAtBottom
      <4> QED BY <1>1, <1>2, <2>1, <2>2, <4>1, <4>2
    <3> QED BY <3>1, <3>2
  <2>3. CASE b # a
    <3>1. s # b \/ pc[b] \notin {"unborn", "completing", "completed", "ended"}
      <4>1. status[s] \in Closing
        BY <1>1 DEF StacksInv, InnermostCloses, n
      <4> QED BY <4>1 DEF StacksInv, OutsideProgram, Closing
    <3> QED BY <1>2, <2>1, <2>3, <3>1 DEF StacksInv, OutsideProgram
  <2> QED BY <2>2, <2>3
<1> QED BY <1>4, <1>5, <1>6, <1>8, <1>9, <1>10 DEF StacksInv

\* An actor starts, in a scope of its own.
LEMMA StacksStart ==
  ASSUME LifetimeInv, StacksInv, NEW a \in Actors, NEW U, pc[a] = "unborn",
         status' = [status EXCEPT ![a] = "open"], above' = [above EXCEPT ![a] = U],
         stack' = [stack EXCEPT ![a] = <<a>>], pc' = [pc EXCEPT ![a] = "running"]
  PROVE  StacksInv'
<1>0. /\ TypeOK /\ a \in Scopes \ {Root} /\ stack[a] = <<>> /\ status[a] = "unborn"
  BY LifetimeConstants DEF LifetimeInv, Scopes, StacksInv, OutsideProgram
<1>1. /\ \A t \in Scopes : status'[t] = IF t = a THEN "open" ELSE status[t]
      /\ \A t \in Scopes \ {a} : above'[t] = above[t]
      /\ \A b \in Actors : pc'[b] = IF b = a THEN "running" ELSE pc[b]
      /\ \A b \in Actors \ {a} : stack'[b] = stack[b]
  BY <1>0 DEF TypeOK
<1>2. stack'[a] = <<a>> /\ Len(stack'[a]) = 1 /\ stack'[a][1] = a /\ stack'[a] # <<>>
  BY <1>0 DEF TypeOK
<1>3. \A b \in Actors \ {a} : \A i \in 1..Len(stack[b]) :
         stack[b][i] \in Scopes \ {a, Root}
  <2> SUFFICES ASSUME NEW b \in Actors \ {a}, NEW i \in 1..Len(stack[b])
               PROVE  stack[b][i] \in Scopes \ {a, Root}
    OBVIOUS
  <2>1. status[stack[b][i]] # "unborn"
    BY DEF StacksInv, InnermostCloses, Closing
  <2> QED BY <1>0, <2>1, StackElement
<1>4. OwnAtBottom'
  BY <1>1, <1>2 DEF StacksInv, OwnAtBottom
<1>5. LexicalOnTop'
  <2> SUFFICES ASSUME NEW b \in Actors, NEW i \in 2..Len(stack'[b])
               PROVE  stack'[b][i] \in Lexical /\ HangsBelow(stack[b][i], stack[b][i - 1])'
    BY DEF LexicalOnTop
  <2>1. b # a
    <3>1. SUFFICES ASSUME b = a PROVE FALSE
      OBVIOUS
    <3>2. Len(stack'[b]) = 1
      BY <1>2, <3>1
    <3>3. i \in 2..1
      BY <3>2
    <3> QED BY <3>3
  <2>2. stack'[b] = stack[b] /\ Len(stack[b]) \in Nat
    BY <1>0, <1>1, <2>1, StackElement
  <2>3. i \in 2..Len(stack[b]) /\ i \in 1..Len(stack[b]) /\ i - 1 \in 1..Len(stack[b])
    BY <2>2
  <2>4. stack[b][i] \in Lexical /\ HangsBelow(stack[b][i], stack[b][i - 1])
    BY <2>3 DEF StacksInv, LexicalOnTop
  <2>5. stack[b][i] \in Scopes \ {a} /\ stack[b][i - 1] \in Scopes \ {a}
    BY <1>3, <2>1, <2>3
  <2> QED BY <1>1, <2>2, <2>4, <2>5 DEF HangsBelow
<1>6. OnOneStack'
  <2> SUFFICES ASSUME NEW b \in Actors, NEW c \in Actors, NEW i \in 1..Len(stack'[b]),
                      NEW j \in 1..Len(stack'[c]), stack'[b][i] = stack'[c][j]
               PROVE  b = c /\ i = j
    BY DEF OnOneStack
  <2>1. CASE b = a /\ c = a
    BY <1>2, <2>1
  <2>2. CASE b = a /\ c # a
    BY <1>1, <1>2, <1>3, <2>2
  <2>3. CASE b # a /\ c = a
    BY <1>1, <1>2, <1>3, <2>3
  <2>4. CASE b # a /\ c # a
    BY <1>1, <2>4 DEF StacksInv, OnOneStack
  <2> QED BY <2>1, <2>2, <2>3, <2>4
<1>7. InnermostCloses'
  <2> SUFFICES ASSUME NEW b \in Actors, NEW i \in 1..Len(stack'[b])
               PROVE  IF i = Len(stack'[b]) /\ pc'[b] = "closing"
                      THEN status'[stack'[b][i]] \in Closing
                      ELSE status'[stack'[b][i]] = "open"
    BY DEF InnermostCloses
  <2>1. CASE b = a
    BY <1>0, <1>1, <1>2, <2>1
  <2>2. CASE b # a
    <3>1. stack'[b] = stack[b] /\ pc'[b] = pc[b] /\ i \in 1..Len(stack[b])
      BY <1>1, <2>2
    <3>2. status'[stack[b][i]] = status[stack[b][i]]
      BY <1>1, <1>3, <2>2, <3>1
    <3>3. IF i = Len(stack[b]) /\ pc[b] = "closing"
          THEN status[stack[b][i]] \in Closing
          ELSE status[stack[b][i]] = "open"
      BY <3>1 DEF StacksInv, InnermostCloses
    <3> QED BY <3>1, <3>2, <3>3
  <2> QED BY <2>1, <2>2
<1>8. OnSomeStack'
  <2> SUFFICES ASSUME NEW t \in Scopes \ {Root}, status'[t] \notin {"unborn", "closed"}
               PROVE  \E b \in Actors : \E i \in 1..Len(stack'[b]) : stack'[b][i] = t
    BY DEF OnSomeStack
  <2>1. CASE t = a
    <3>1. 1 \in 1..Len(stack'[a]) /\ stack'[a][1] = t
      BY <1>2, <2>1
    <3> QED BY <3>1
  <2>2. CASE t # a
    <3>1. PICK b \in Actors : \E i \in 1..Len(stack[b]) : stack[b][i] = t
      BY <1>1, <2>2 DEF StacksInv, OnSomeStack
    <3>2. PICK i \in 1..Len(stack[b]) : stack[b][i] = t
      BY <3>1
    <3>3. b # a
      <4>1. Len(stack[a]) = 0
        BY <1>0, EmptySeq
      <4> QED BY <3>2, <4>1
    <3> QED BY <1>1, <3>2, <3>3
  <2> QED BY <2>1, <2>2
<1>9. OutsideProgram'
  <2>1. \A b \in Actors : b \in Scopes
    BY DEF Scopes
  <2> QED BY <1>1, <2>1 DEF StacksInv, OutsideProgram
<1> QED BY <1>4, <1>5, <1>6, <1>7, <1>8, <1>9 DEF StacksInv

\* An actor opens a lexical scope inside its innermost one.
LEMMA StacksOpen ==
  ASSUME LifetimeInv, StacksInv, NEW a \in Actors, NEW s \in Lexical,
         pc[a] = "running", status[s] = "unborn", UNCHANGED pc,
         status' = [status EXCEPT ![s] = "open"],
         above' = [above EXCEPT ![s] = {s} \cup above[Current(a)]],
         stack' = [stack EXCEPT ![a] = Append(@, s)]
  PROVE  StacksInv'
<1>0. /\ TypeOK /\ s \in Scopes \ {Root} /\ s \notin Actors
      /\ stack[a] \in Seq(Scopes \ {Root}) /\ stack[a] # <<>>
  <2>1. TypeOK /\ StackInv
    BY DEF LifetimeInv
  <2>2. stack[a] \in Seq(Scopes \ {Root}) /\ stack[a] # <<>>
    BY <2>1, StackElement DEF StackInv
  <2> QED BY <2>1, <2>2, LifetimeConstants DEF Scopes
<1> DEFINE n == Len(stack[a])
<1>1. /\ n \in Nat \ {0} /\ n \in 1..n /\ Current(a) = stack[a][n]
      /\ Len(stack'[a]) = n + 1 /\ stack'[a][n + 1] = s
      /\ \A i \in 1..n : stack'[a][i] = stack[a][i]
  <2>1. n \in Nat \ {0} /\ Current(a) = stack[a][n]
    BY <1>0, FrontFacts DEF Current
  <2>2. stack'[a] = Append(stack[a], s)
    BY <1>0 DEF TypeOK
  <2>3. /\ Len(Append(stack[a], s)) = n + 1 /\ Append(stack[a], s)[n + 1] = s
        /\ \A i \in 1..n : Append(stack[a], s)[i] = stack[a][i]
    BY <1>0, AppendProperties
  <2> QED BY <2>1, <2>2, <2>3
<1>2. /\ \A t \in Scopes : status'[t] = IF t = s THEN "open" ELSE status[t]
      /\ \A t \in Scopes \ {s} : above'[t] = above[t]
      /\ above'[s] = {s} \cup above[Current(a)]
      /\ \A b \in Actors \ {a} : stack'[b] = stack[b]
  BY <1>0 DEF TypeOK
<1>3. \A b \in Actors : \A i \in 1..Len(stack[b]) : stack[b][i] \in Scopes \ {s, Root}
  <2> SUFFICES ASSUME NEW b \in Actors, NEW i \in 1..Len(stack[b])
               PROVE  stack[b][i] \in Scopes \ {s, Root}
    OBVIOUS
  <2>1. status[stack[b][i]] # "unborn"
    BY DEF StacksInv, InnermostCloses, Closing
  <2> QED BY <1>0, <2>1, StackElement
<1>4. \A b \in Actors : \A i \in 1..Len(stack'[b]) :
         \/ i \in 1..Len(stack[b]) /\ stack'[b][i] = stack[b][i]
         \/ b = a /\ i = n + 1 /\ stack'[b][i] = s
  <2> SUFFICES ASSUME NEW b \in Actors, NEW i \in 1..Len(stack'[b])
               PROVE  \/ i \in 1..Len(stack[b]) /\ stack'[b][i] = stack[b][i]
                      \/ b = a /\ i = n + 1 /\ stack'[b][i] = s
    OBVIOUS
  <2>1. CASE b = a
    <3>1. i \in 1..n \/ i = n + 1
      BY <1>1, <2>1
    <3> QED BY <1>1, <2>1, <3>1
  <2>2. CASE b # a
    BY <1>2, <2>2
  <2> QED BY <2>1, <2>2
<1> HIDE DEF n
<1>5. OwnAtBottom'
  <2> SUFFICES ASSUME NEW b \in Actors, stack'[b] # <<>> PROVE stack'[b][1] = b
    BY DEF OwnAtBottom
  <2>1. CASE b = a
    <3>1. stack[a][1] = a /\ 1 \in 1..n
      BY <1>0, <1>1 DEF StacksInv, OwnAtBottom
    <3> QED BY <1>1, <2>1, <3>1
  <2>2. CASE b # a
    BY <1>2, <2>2 DEF StacksInv, OwnAtBottom
  <2> QED BY <2>1, <2>2
<1>6. LexicalOnTop'
  <2> SUFFICES ASSUME NEW b \in Actors, NEW i \in 2..Len(stack'[b])
               PROVE  stack'[b][i] \in Lexical /\ HangsBelow(stack[b][i], stack[b][i - 1])'
    BY DEF LexicalOnTop
  <2>0. Len(stack[b]) \in Nat /\ Len(stack'[b]) \in Nat
    <3>1. Len(stack[b]) \in Nat
      BY <1>0, StackElement
    <3>2. CASE b = a
      BY <1>1, <3>1, <3>2
    <3>3. CASE b # a
      BY <1>2, <3>1, <3>3
    <3> QED BY <3>1, <3>2, <3>3
  <2>1. i \in 1..Len(stack'[b])
    BY <2>0
  <2>2. CASE i \in 1..Len(stack[b]) /\ stack'[b][i] = stack[b][i]
    <3>1. i \in 2..Len(stack[b]) /\ i - 1 \in 1..Len(stack[b]) /\ i - 1 \in 1..Len(stack'[b])
      BY <2>0, <2>2
    <3>2. stack'[b][i - 1] = stack[b][i - 1]
      <4>1. CASE b = a
        BY <1>1, <3>1, <4>1 DEF n
      <4>2. CASE b # a
        BY <1>2, <4>2
      <4> QED BY <4>1, <4>2
    <3>3. stack[b][i] \in Lexical /\ HangsBelow(stack[b][i], stack[b][i - 1])
      BY <3>1 DEF StacksInv, LexicalOnTop
    <3>4. stack[b][i] \in Scopes \ {s} /\ stack[b][i - 1] \in Scopes \ {s}
      BY <1>3, <2>2, <3>1
    <3> QED BY <1>2, <2>2, <3>2, <3>3, <3>4 DEF HangsBelow
  <2>3. CASE b = a /\ i = n + 1 /\ stack'[b][i] = s
    <3>1. i - 1 = n /\ stack'[b][i - 1] = Current(a)
      BY <1>1, <2>3
    <3>2. Current(a) \in Scopes \ {s}
      BY <1>1, <1>3 DEF n
    <3>3. above'[s] = {s} \cup above'[Current(a)] /\ s # Current(a)
      BY <1>2, <3>2
    <3> QED BY <2>3, <3>1, <3>3 DEF HangsBelow
  <2> QED BY <1>4, <2>1, <2>2, <2>3
<1>7. OnOneStack'
  <2> SUFFICES ASSUME NEW b \in Actors, NEW c \in Actors, NEW i \in 1..Len(stack'[b]),
                      NEW j \in 1..Len(stack'[c]), stack'[b][i] = stack'[c][j]
               PROVE  b = c /\ i = j
    BY DEF OnOneStack
  <2>1. \/ i \in 1..Len(stack[b]) /\ stack'[b][i] = stack[b][i]
        \/ b = a /\ i = n + 1 /\ stack'[b][i] = s
    BY <1>4
  <2>2. \/ j \in 1..Len(stack[c]) /\ stack'[c][j] = stack[c][j]
        \/ c = a /\ j = n + 1 /\ stack'[c][j] = s
    BY <1>4
  <2> QED BY <1>3, <2>1, <2>2 DEF StacksInv, OnOneStack
<1>8. InnermostCloses'
  <2> SUFFICES ASSUME NEW b \in Actors, NEW i \in 1..Len(stack'[b])
               PROVE  IF i = Len(stack'[b]) /\ pc[b] = "closing"
                      THEN status'[stack'[b][i]] \in Closing
                      ELSE status'[stack'[b][i]] = "open"
    BY DEF InnermostCloses
  <2>1. CASE i \in 1..Len(stack[b]) /\ stack'[b][i] = stack[b][i]
    <3>1. IF i = Len(stack[b]) /\ pc[b] = "closing"
          THEN status[stack[b][i]] \in Closing
          ELSE status[stack[b][i]] = "open"
      BY <2>1 DEF StacksInv, InnermostCloses
    <3>2. status'[stack'[b][i]] = status[stack[b][i]]
      BY <1>2, <1>3, <2>1
    <3>3. b # a => Len(stack'[b]) = Len(stack[b])
      BY <1>2
    <3> QED BY <3>1, <3>2, <3>3
  <2>2. CASE b = a /\ i = n + 1 /\ stack'[b][i] = s
    BY <1>0, <1>2, <2>2
  <2> QED BY <1>4, <2>1, <2>2
<1>9. OnSomeStack'
  <2> SUFFICES ASSUME NEW t \in Scopes \ {Root}, status'[t] \notin {"unborn", "closed"}
               PROVE  \E b \in Actors : \E i \in 1..Len(stack'[b]) : stack'[b][i] = t
    BY DEF OnSomeStack
  <2>1. CASE t = s
    <3>1. n + 1 \in 1..Len(stack'[a]) /\ stack'[a][n + 1] = t
      BY <1>1, <2>1
    <3> QED BY <3>1
  <2>2. CASE t # s
    <3>1. PICK b \in Actors : \E i \in 1..Len(stack[b]) : stack[b][i] = t
      BY <1>2, <2>2 DEF StacksInv, OnSomeStack
    <3>2. PICK i \in 1..Len(stack[b]) : stack[b][i] = t
      BY <3>1
    <3>3. i \in 1..Len(stack'[b]) /\ stack'[b][i] = stack[b][i]
      <4>1. CASE b = a
        <5>1. i \in 1..n /\ i \in 1..(n + 1)
          BY <1>1, <3>2, <4>1 DEF n
        <5> QED BY <1>1, <4>1, <5>1
      <4>2. CASE b # a
        BY <1>2, <4>2
      <4> QED BY <4>1, <4>2
    <3> QED BY <3>2, <3>3
  <2> QED BY <2>1, <2>2
<1>10. OutsideProgram'
  <2>1. \A b \in Actors : b \in Scopes /\ b # s
    BY <1>0 DEF Scopes
  <2> QED BY <1>2, <2>1 DEF StacksInv, OutsideProgram
<1> QED BY <1>5, <1>6, <1>7, <1>8, <1>9, <1>10 DEF StacksInv

LEMMA ChildrenStep ==
  ASSUME ChildrenInv,
         \A s \in Scopes : status'[s] \in {"releasing", "closed"} =>
            /\ status[s] \in {"releasing", "closed"} \/ children[s] = {}
            /\ children'[s] \subseteq children[s]
  PROVE  ChildrenInv'
  BY DEF ChildrenInv

LEMMA OrderElement ==
  ASSUME TypeOK, NEW s \in Scopes
  PROVE  /\ order[s] \in Seq(Resources) /\ Len(order[s]) \in Nat
         /\ \A i \in 1..Len(order[s]) : order[s][i] \in Resources
         /\ finalizers[s] \in Seq(Resources) /\ releasing[s] \in Seq(Resources)
         /\ Pending(s) \in Seq(Resources) /\ Len(Pending(s)) \in Nat
<1>1. order[s] \in Seq(Resources) /\ finalizers[s] \in Seq(Resources) /\ releasing[s] \in Seq(Resources)
  BY DEF TypeOK
<1>2. Pending(s) \in Seq(Resources)
  BY <1>1 DEF Pending
<1> QED BY <1>1, <1>2, LenProperties, ElementOfSeq

\* Steps that register and release nothing.
LEMMA PendingQuiet ==
  ASSUME PendingInv, UNCHANGED <<order, releases>>,
         \A s \in Scopes :
            /\ Pending(s)' = Pending(s)
            /\ status'[s] \notin {"releasing", "closed"} => status[s] \notin {"releasing", "closed"}
            /\ status'[s] = "closed" => status[s] = "closed" \/ Len(Pending(s)) = 0
            /\ status'[s] = "unborn" => status[s] = "unborn" /\ finalizers'[s] = finalizers[s]
  PROVE  PendingInv'
<1> SUFFICES ASSUME NEW s \in Scopes
             PROVE  PendingAt(s)'
  BY DEF PendingInv
<1> QED BY DEF PendingInv, PendingAt

\* A new scope has nothing pending.
LEMMA PendingNew ==
  ASSUME TypeOK, PendingInv, NEW s \in Scopes, status[s] = "unborn",
         status' = [status EXCEPT ![s] = "open"],
         UNCHANGED <<finalizers, releasing, order, releases>>
  PROVE  PendingInv'
<1>1. \A t \in Scopes : status'[t] = IF t = s THEN "open" ELSE status[t]
  BY DEF TypeOK
<1>2. Pending(s) = finalizers[s]
  <2>1. Pending(s) = releasing[s] /\ order[s] = <<>> /\ finalizers[s] = <<>>
    BY DEF Pending, PendingInv, PendingAt
  <2>2. Len(Pending(s)) <= Len(order[s])
    BY DEF PendingInv, PendingAt
  <2>3. Len(order[s]) = 0
    BY <2>1, EmptySeq
  <2>4. Len(Pending(s)) = 0
    BY <2>2, <2>3, OrderElement
  <2> QED BY <2>1, <2>4, OrderElement, EmptySeq
<1>3. \A t \in Scopes : Pending(t)' = Pending(t)
  BY <1>1, <1>2 DEF Pending
<1> QED BY <1>1, <1>3, PendingQuiet

LEMMA PendingBeginClose ==
  ASSUME TypeOK, PendingInv, NEW s \in Scopes, BeginClose(s), UNCHANGED <<order, releases>>
  PROVE  PendingInv'
<1>1. \A t \in Scopes : /\ status'[t] = IF t = s THEN "cancelling" ELSE status[t]
                        /\ releasing'[t] = IF t = s THEN finalizers[s] ELSE releasing[t]
                        /\ finalizers'[t] = IF t = s THEN <<>> ELSE finalizers[t]
  BY DEF TypeOK, BeginClose
<1>2. \A t \in Scopes : Pending(t)' = Pending(t)
  BY <1>1 DEF Pending, BeginClose
<1> QED BY <1>1, <1>2, PendingQuiet DEF BeginClose

\* What is released elsewhere was registered nowhere.
LEMMA PendingReleaseNow ==
  ASSUME TypeOK, PendingInv, HeldInv, NEW a \in Actors, ReleaseNow(a)
  PROVE  PendingInv'
<1>0. /\ busy[a] \in Resources /\ Holds(a, busy[a])
      /\ \A r \in Resources : releases'[r] = IF r = busy[a] THEN releases[r] + 1 ELSE releases[r]
      /\ UNCHANGED <<status, finalizers, releasing, order>>
  BY DEF TypeOK, ReleaseNow, Holds, scopeVars
<1>1. \A s \in Scopes : \A i \in 1..Len(order[s]) : releases'[order[s][i]] = releases[order[s][i]]
  <2> SUFFICES ASSUME NEW s \in Scopes, NEW i \in 1..Len(order[s])
               PROVE  releases'[order[s][i]] = releases[order[s][i]]
    OBVIOUS
  <2>1. order[s][i] # busy[a]
    BY <1>0 DEF HeldInv, HeldByOne
  <2> QED BY <1>0, <2>1, OrderElement
<1>2. \A s \in Scopes : Pending(s)' = Pending(s)
  BY <1>0 DEF Pending
<1> SUFFICES ASSUME NEW s \in Scopes
             PROVE  PendingAt(s)'
  BY DEF PendingInv
<1> QED BY <1>0, <1>1, <1>2 DEF PendingInv, PendingAt

\* The youngest of what is pending is released.
LEMMA PendingRunFinalizer ==
  ASSUME TypeOK, PendingInv, HeldInv, NEW s \in Scopes, RunFinalizer(s)
  PROVE  PendingInv'
<1> DEFINE k == Len(Pending(s))
<1> DEFINE r == Last(releasing[s])
<1>1. Pending(s) = releasing[s] /\ releasing[s] # <<>> /\ releasing[s] \in Seq(Resources)
  BY OrderElement DEF RunFinalizer, Pending
<1>2. /\ k \in Nat \ {0} /\ Len(Front(releasing[s])) = k - 1
      /\ \A i \in 1..(k - 1) : Front(releasing[s])[i] = Pending(s)[i]
      /\ r = Pending(s)[k] /\ r \in Resources
  BY <1>1, FrontFacts, LastInSet
<1>3. k <= Len(order[s]) /\ Len(order[s]) \in Nat /\ k \in 1..Len(order[s]) /\ r = order[s][k]
  <2>1. k <= Len(order[s]) /\ Len(order[s]) \in Nat
    BY OrderElement DEF PendingInv, PendingAt
  <2>2. k \in 1..k /\ k \in 1..Len(order[s])
    BY <1>2, <2>1
  <2>3. Pending(s)[k] = order[s][k]
    BY <2>2 DEF PendingInv, PendingAt
  <2> QED BY <1>2, <2>1, <2>2, <2>3
<1>4. releases[r] = 0
  BY <1>2, <1>3 DEF PendingInv, PendingAt
<1>5. /\ \A t \in Scopes : status'[t] = status[t] /\ finalizers'[t] = finalizers[t] /\ order'[t] = order[t]
      /\ \A t \in Scopes \ {s} : releasing'[t] = releasing[t]
      /\ releasing'[s] = Front(releasing[s])
      /\ \A q \in Resources : releases'[q] = IF q = r THEN 1 ELSE releases[q]
  BY <1>2, <1>4 DEF RunFinalizer, TypeOK
<1>6. /\ \A t \in Scopes \ {s} : Pending(t)' = Pending(t)
      /\ Pending(s)' = Front(releasing[s])
  BY <1>5 DEF Pending, RunFinalizer
<1> HIDE DEF k, r
<1>7. ASSUME NEW t \in Scopes \ {s}, NEW i \in 1..Len(order[t])
      PROVE  releases'[order[t][i]] = releases[order[t][i]]
  <2>1. into[order[t][i]] = t /\ into[order[s][k]] = s
    BY <1>3 DEF HeldInv, RegisteredInto
  <2>2. order[t][i] # r /\ order[t][i] \in Resources
    BY <1>3, <2>1, OrderElement
  <2> QED BY <1>5, <2>2
<1>8. ASSUME NEW i \in 1..Len(order[s])
      PROVE  releases'[order[s][i]] = IF i <= k - 1 THEN 0 ELSE 1
  <2>1. order[s][i] = r <=> i = k
    BY <1>3 DEF HeldInv, RegisteredOnce
  <2>2. releases[order[s][i]] = IF i <= k THEN 0 ELSE 1
    BY DEF PendingInv, PendingAt, k
  <2>3. order[s][i] \in Resources
    BY OrderElement
  <2>4. i \in Nat /\ k \in Nat /\ (i <= k - 1 <=> i <= k /\ i # k)
    BY <1>2
  <2> QED BY <1>5, <2>1, <2>2, <2>3, <2>4
<1> SUFFICES ASSUME NEW t \in Scopes
             PROVE  PendingAt(t)'
  BY DEF PendingInv
<1>9. CASE t # s
  BY <1>5, <1>6, <1>7, <1>9 DEF PendingInv, PendingAt
<1>10. CASE t = s
  <2>1. Len(Pending(t)') = k - 1 /\ order'[t] = order[s] /\ status'[t] = "releasing"
    BY <1>2, <1>5, <1>6, <1>10 DEF RunFinalizer
  <2>2. k - 1 <= Len(order[s])
    BY <1>2, <1>3
  <2>3. ASSUME NEW i \in 1..(k - 1) PROVE Pending(t)'[i] = order[s][i]
    <3>1. i \in 1..k
      BY <1>2
    <3>2. Pending(s)[i] = order[s][i]
      BY <3>1 DEF PendingInv, PendingAt, k
    <3> QED BY <1>2, <1>6, <1>10, <3>2
  <2> QED BY <1>8, <1>10, <2>1, <2>2, <2>3 DEF PendingAt
<1> QED BY <1>9, <1>10

\* A scope that is open takes a resource in, behind all it has.
LEMMA OrderGrows ==
  ASSUME TypeOK, NEW s \in Scopes, NEW r \in Resources,
         order' = [order EXCEPT ![s] = Append(@, r)]
  PROVE  /\ \A t \in Scopes \ {s} : order'[t] = order[t]
         /\ order'[s] = Append(order[s], r)
         /\ Len(order'[s]) = Len(order[s]) + 1 /\ order'[s][Len(order[s]) + 1] = r
         /\ \A t \in Scopes : \A i \in 1..Len(order[t]) :
               i \in 1..Len(order'[t]) /\ order'[t][i] = order[t][i]
         /\ \A t \in Scopes : \A i \in 1..Len(order'[t]) :
               \/ i \in 1..Len(order[t]) /\ order'[t][i] = order[t][i]
               \/ t = s /\ i = Len(order[s]) + 1 /\ order'[t][i] = r
<1> DEFINE n == Len(order[s])
<1>1. order[s] \in Seq(Resources) /\ n \in Nat
  BY OrderElement
<1>2. \A t \in Scopes : order'[t] = IF t = s THEN Append(order[s], r) ELSE order[t]
  BY DEF TypeOK
<1>3. /\ Len(Append(order[s], r)) = n + 1 /\ Append(order[s], r)[n + 1] = r
      /\ \A i \in 1..n : Append(order[s], r)[i] = order[s][i]
  BY <1>1, AppendProperties
<1>4. \A i \in 1..n : i \in 1..(n + 1)
  BY <1>1
<1>5. \A i \in 1..(n + 1) : i \in 1..n \/ i = n + 1
  BY <1>1
<1> QED BY <1>2, <1>3, <1>4, <1>5

LEMMA PendingAdd ==
  ASSUME TypeOK, PendingInv, NEW s \in Scopes, NEW r \in Resources,
         status[s] = "open", releases[r] = 0, UNCHANGED <<status, releasing, releases>>,
         finalizers' = [finalizers EXCEPT ![s] = Append(@, r)],
         order' = [order EXCEPT ![s] = Append(@, r)]
  PROVE  PendingInv'
<1> DEFINE n == Len(order[s])
<1>1. /\ \A t \in Scopes \ {s} : order'[t] = order[t] /\ finalizers'[t] = finalizers[t]
      /\ finalizers'[s] = Append(finalizers[s], r)
      /\ Len(order'[s]) = n + 1 /\ order'[s][n + 1] = r
      /\ \A i \in 1..n : order'[s][i] = order[s][i]
  BY OrderGrows DEF TypeOK
<1>2. Pending(s) = finalizers[s] /\ Pending(s)' = Append(finalizers[s], r)
  BY <1>1 DEF Pending
<1>3. Len(finalizers[s]) = n /\ n \in Nat /\ \A i \in 1..n : finalizers[s][i] = order[s][i] /\ releases[order[s][i]] = 0
  <2>1. Len(finalizers[s]) = n /\ n \in Nat
    BY <1>2, OrderElement DEF PendingInv, PendingAt
  <2> QED BY <1>2, <2>1 DEF PendingInv, PendingAt
<1>4. /\ Len(Append(finalizers[s], r)) = n + 1 /\ Append(finalizers[s], r)[n + 1] = r
      /\ \A i \in 1..n : Append(finalizers[s], r)[i] = finalizers[s][i]
  BY <1>3, OrderElement, AppendProperties
<1>5. \A i \in 1..(n + 1) : i <= n + 1 /\ (i \in 1..n \/ i = n + 1)
  BY <1>3
<1>6. \A t \in Scopes \ {s} : Pending(t)' = Pending(t)
  BY <1>1 DEF Pending
<1> HIDE DEF n
<1> SUFFICES ASSUME NEW t \in Scopes PROVE PendingAt(t)'
  BY DEF PendingInv
<1>7. CASE t # s
  BY <1>1, <1>6, <1>7 DEF PendingInv, PendingAt
<1>8. CASE t = s
  <2>1. Len(Pending(t)') = n + 1 /\ Len(order'[t]) = n + 1 /\ n + 1 <= n + 1
    BY <1>1, <1>2, <1>3, <1>4, <1>8
  <2>2. \A i \in 1..(n + 1) : Pending(t)'[i] = order'[t][i] /\ releases'[order'[t][i]] = 0
    <3> SUFFICES ASSUME NEW i \in 1..(n + 1)
                 PROVE  Pending(s)'[i] = order'[s][i] /\ releases'[order'[s][i]] = 0
      BY <1>8
    <3>1. CASE i \in 1..n
      BY <1>1, <1>2, <1>3, <1>4, <3>1
    <3>2. CASE i = n + 1
      BY <1>1, <1>2, <1>4, <3>2
    <3> QED BY <1>5, <3>1, <3>2
  <2> QED BY <1>5, <1>8, <2>1, <2>2 DEF PendingAt
<1> QED BY <1>7, <1>8

\* Steps that acquire, register and release nothing.
LEMMA HeldQuiet ==
  ASSUME HeldInv, UNCHANGED <<into, order, releases>>,
         \A a \in Actors, r \in Resources : Holds(a, r)' <=> Holds(a, r)
  PROVE  HeldInv'
<1>1. RegisteredInto' /\ RegisteredOnce' /\ ReleasedOnce' /\ NotAcquired'
  BY DEF HeldInv, RegisteredInto, RegisteredOnce, ReleasedOnce, NotAcquired
<1>2. HeldByOne'
  BY DEF HeldInv, HeldByOne
<1>3. Accounted'
  BY DEF HeldInv, Accounted
<1> QED BY <1>1, <1>2, <1>3 DEF HeldInv

LEMMA HeldAcquire ==
  ASSUME TypeOK, HeldInv, NEW a \in Actors, NEW r \in Resources, NEW s \in Scopes, Acquire(a, r, s)
  PROVE  HeldInv'
<1>0. /\ into[r] = Unset /\ pc[a] = "running" /\ UNCHANGED <<order, releases>>
      /\ \A q \in Resources : into'[q] = IF q = r THEN s ELSE into[q]
      /\ \A b \in Actors, q \in Resources : Holds(b, q)' <=> (b = a /\ q = r) \/ Holds(b, q)
      /\ \A q \in Resources : ~Holds(a, q)
  <2>1. /\ into[r] = Unset /\ pc[a] = "running" /\ UNCHANGED <<order, releases>>
        /\ \A q \in Resources : into'[q] = IF q = r THEN s ELSE into[q]
        /\ \A b \in Actors : pc'[b] = IF b = a THEN "registering" ELSE pc[b]
        /\ \A b \in Actors : busy'[b] = IF b = a THEN r ELSE busy[b]
    BY DEF Acquire, TypeOK
  <2> QED BY <2>1 DEF Holds
<1>1. Unset \notin Scopes
  BY LifetimeConstants
<1>2. \A t \in Scopes : \A i \in 1..Len(order[t]) : order[t][i] \in Resources \ {r}
  BY <1>0, <1>1, OrderElement DEF HeldInv, RegisteredInto
<1>3. \A b \in Actors : ~Holds(b, r)
  BY <1>0, <1>1 DEF HeldInv, HeldByOne
<1>4. RegisteredInto' /\ RegisteredOnce' /\ ReleasedOnce'
  BY <1>0, <1>2 DEF HeldInv, RegisteredInto, RegisteredOnce, ReleasedOnce
<1>5. NotAcquired'
  BY <1>0, <1>1 DEF HeldInv, NotAcquired
<1>6. HeldByOne'
  <2> SUFFICES ASSUME NEW b \in Actors, NEW q \in Resources, Holds(b, q)'
               PROVE  /\ into'[q] \in Scopes /\ releases[q] = 0
                      /\ \A t \in Scopes : \A i \in 1..Len(order[t]) : order[t][i] # q
                      /\ \A c \in Actors : Holds(c, q)' => b = c
    BY <1>0 DEF HeldByOne
  <2>1. CASE q = r
    BY <1>0, <1>2, <1>3, <2>1 DEF HeldInv, NotAcquired
  <2>2. CASE q # r
    BY <1>0, <2>2 DEF HeldInv, HeldByOne
  <2> QED BY <2>1, <2>2
<1>7. Accounted'
  <2> SUFFICES ASSUME NEW q \in Resources, into'[q] # Unset
               PROVE  \/ releases[q] = 1
                      \/ \E b \in Actors : Holds(b, q)'
                      \/ \E i \in 1..Len(order[into'[q]]) : order[into'[q]][i] = q
    BY <1>0 DEF Accounted
  <2>1. CASE q = r
    BY <1>0, <2>1
  <2>2. CASE q # r
    BY <1>0, <2>2 DEF HeldInv, Accounted
  <2> QED BY <2>1, <2>2
<1> QED BY <1>4, <1>5, <1>6, <1>7 DEF HeldInv

LEMMA HeldAdd ==
  ASSUME TypeOK, HeldInv, NEW a \in Actors, NEW s \in Scopes, NEW r \in Resources,
         Holds(a, r), into[r] = s, UNCHANGED <<into, releases>>,
         order' = [order EXCEPT ![s] = Append(@, r)],
         \A b \in Actors, q \in Resources : Holds(b, q)' <=> b # a /\ Holds(b, q)
  PROVE  HeldInv'
<1>1. /\ \A t \in Scopes : \A i \in 1..Len(order[t]) :
            i \in 1..Len(order'[t]) /\ order'[t][i] = order[t][i]
      /\ \A t \in Scopes : \A i \in 1..Len(order'[t]) :
            \/ i \in 1..Len(order[t]) /\ order'[t][i] = order[t][i]
            \/ t = s /\ i = Len(order[s]) + 1 /\ order'[t][i] = r
      /\ Len(order'[s]) = Len(order[s]) + 1 /\ order'[s][Len(order[s]) + 1] = r
  <2>1. TypeOK /\ s \in Scopes /\ r \in Resources /\ order' = [order EXCEPT ![s] = Append(@, r)]
    OBVIOUS
  <2> QED BY ONLY <2>1, OrderGrows
<1>2. \A t \in Scopes : \A i \in 1..Len(order[t]) : order[t][i] # r
  BY DEF HeldInv, HeldByOne
<1>3. RegisteredInto'
  BY <1>1 DEF HeldInv, RegisteredInto
<1>4. RegisteredOnce'
  <2> SUFFICES ASSUME NEW t \in Scopes, NEW i \in 1..Len(order'[t]), NEW j \in 1..Len(order'[t]),
                      order'[t][i] = order'[t][j]
               PROVE  i = j
    BY DEF RegisteredOnce
  <2>1. \/ i \in 1..Len(order[t]) /\ order'[t][i] = order[t][i]
        \/ t = s /\ i = Len(order[s]) + 1 /\ order'[t][i] = r
    BY <1>1
  <2>2. \/ j \in 1..Len(order[t]) /\ order'[t][j] = order[t][j]
        \/ t = s /\ j = Len(order[s]) + 1 /\ order'[t][j] = r
    BY <1>1
  <2> QED BY <1>2, <2>1, <2>2 DEF HeldInv, RegisteredOnce
<1>5. ReleasedOnce' /\ NotAcquired'
  BY DEF HeldInv, ReleasedOnce, NotAcquired
<1>6. HeldByOne'
  <2> SUFFICES ASSUME NEW b \in Actors, NEW q \in Resources, Holds(b, q)'
               PROVE  /\ into[q] \in Scopes /\ releases[q] = 0
                      /\ \A t \in Scopes : \A i \in 1..Len(order'[t]) : order'[t][i] # q
                      /\ \A c \in Actors : Holds(c, q)' => b = c
    BY DEF HeldByOne
  <2>1. b # a /\ Holds(b, q) /\ q # r
    BY DEF HeldInv, HeldByOne
  <2> QED BY <1>1, <2>1 DEF HeldInv, HeldByOne
<1>7. Accounted'
  <2> SUFFICES ASSUME NEW q \in Resources, into[q] # Unset
               PROVE  \/ releases[q] = 1
                      \/ \E b \in Actors : Holds(b, q)'
                      \/ \E i \in 1..Len(order'[into[q]]) : order'[into[q]][i] = q
    BY DEF Accounted
  <2>1. CASE q = r
    <3>1. Len(order[s]) + 1 \in 1..Len(order'[s])
      BY <1>1, OrderElement
    <3> QED BY <1>1, <2>1, <3>1
  <2>2. CASE q # r
    <3>1. into[q] \in Scopes /\ (\A b \in Actors : Holds(b, q) => b # a)
      BY <2>2 DEF TypeOK, Holds
    <3> QED BY <1>1, <3>1 DEF HeldInv, Accounted
  <2> QED BY <2>1, <2>2
<1> QED BY <1>3, <1>4, <1>5, <1>6, <1>7 DEF HeldInv

\* A resource that was not released is, by its scope or by its holder.
LEMMA HeldRelease ==
  ASSUME TypeOK, HeldInv, NEW r \in Resources, releases[r] = 0, into[r] # Unset,
         UNCHANGED <<into, order>>, releases' = [releases EXCEPT ![r] = @ + 1],
         \A b \in Actors, q \in Resources : Holds(b, q)' <=> Holds(b, q) /\ q # r
  PROVE  HeldInv'
<1>0. \A q \in Resources : releases'[q] = IF q = r THEN 1 ELSE releases[q]
  BY DEF TypeOK
<1>1. RegisteredInto' /\ RegisteredOnce'
  BY DEF HeldInv, RegisteredInto, RegisteredOnce
<1>2. ReleasedOnce' /\ NotAcquired'
  BY <1>0 DEF HeldInv, ReleasedOnce, NotAcquired
<1>3. HeldByOne'
  BY <1>0 DEF HeldInv, HeldByOne
<1>4. Accounted'
  BY <1>0 DEF HeldInv, Accounted
<1> QED BY <1>1, <1>2, <1>3, <1>4 DEF HeldInv

\* Steps of actors inside their programs, and of fibers on their way out.
LEMMA ScopesStill ==
  ASSUME DisciplineInv, UNCHANGED <<status, above, owner, stack>>,
         \A s \in Scopes : children'[s] \subseteq children[s],
         \A a \in Actors :
            /\ pc'[a] = "closing" <=> pc[a] = "closing"
            /\ pc'[a] = "unborn" => pc[a] = "unborn"
            /\ pc'[a] \in {"completing", "completed", "ended"} =>
                  pc[a] \in {"completing", "completed", "ended"}
            /\ pc[a] \in {"unborn", "ended"} => pc'[a] = pc[a]
  PROVE  TreeInv' /\ OwnerInv' /\ StacksInv' /\ ChildrenInv' /\ ReleaseIsLast'
<1>0. TypeOK /\ TreeInv /\ OwnerInv /\ StacksInv /\ ChildrenInv /\ ReleaseIsLast
  BY DEF DisciplineInv, LifetimeInv
<1>1. TreeInv' /\ OwnerInv' /\ StacksInv' /\ ChildrenInv'
  BY <1>0, TreeQuiet, OwnerQuiet, StacksQuiet, ChildrenStep
<1>2. \A t \in Scopes : Alive(t)' => Alive(t)
  BY DEF Alive, Live
<1> QED BY <1>0, <1>1, <1>2, LastQuiet

LEMMA DisciplineActors ==
  ASSUME DisciplineInv, LifetimeInv', NEW a \in Actors,
         \/ \E f \in Fibers : Interrupt(a, f)
         \/ InterruptReturns(a) \/ CancelRun(a)
         \/ a \in Fibers /\ (Complete(a) \/ EndGoroutine(a))
  PROVE  DisciplineInv'
<1>0. TypeOK /\ PendingInv /\ HeldInv
  BY DEF DisciplineInv, LifetimeInv
<1>1. /\ UNCHANGED <<status, above, owner, stack, finalizers, releasing, into, releases, order>>
      /\ \A s \in Scopes : children'[s] \subseteq children[s]
  BY <1>0 DEF Interrupt, InterruptReturns, CancelRun, Complete, EndGoroutine, scopeVars, TypeOK
<1>2. \A b \in Actors : \/ pc'[b] = pc[b] /\ busy'[b] = busy[b]
                        \/ pc[b] = "running" /\ pc'[b] = "interrupting"
                        \/ pc[b] = "interrupting" /\ pc'[b] = "running"
                        \/ pc[b] = "completing" /\ pc'[b] = "completed"
                        \/ pc[b] = "completed" /\ pc'[b] = "ended"
  BY <1>0 DEF Interrupt, InterruptReturns, CancelRun, Complete, EndGoroutine, scopeVars, TypeOK
<1>3. TreeInv' /\ OwnerInv' /\ StacksInv' /\ ChildrenInv' /\ ReleaseIsLast'
  BY <1>1, <1>2, ScopesStill
<1>4. PendingInv'
  BY <1>0, <1>1, PendingQuiet DEF Pending
<1>5. HeldInv'
  BY <1>0, <1>1, <1>2, HeldQuiet DEF Holds
<1> QED BY <1>3, <1>4, <1>5 DEF DisciplineInv

LEMMA DisciplineAcquire ==
  ASSUME DisciplineInv, LifetimeInv', NEW a \in Actors, NEW r \in Resources, NEW s \in Scopes,
         Acquire(a, r, s)
  PROVE  DisciplineInv'
<1>0. TypeOK /\ PendingInv /\ HeldInv
  BY DEF DisciplineInv, LifetimeInv
<1>1. /\ UNCHANGED <<status, above, owner, stack, children, finalizers, releasing, releases, order>>
      /\ \A b \in Actors : pc'[b] = pc[b] \/ (pc[b] = "running" /\ pc'[b] = "registering")
  BY <1>0 DEF Acquire, scopeVars, TypeOK
<1>2. TreeInv' /\ OwnerInv' /\ StacksInv' /\ ChildrenInv' /\ ReleaseIsLast'
  BY <1>1, ScopesStill
<1>3. PendingInv'
  BY <1>0, <1>1, PendingQuiet DEF Pending
<1>4. HeldInv'
  BY <1>0, HeldAcquire
<1> QED BY <1>2, <1>3, <1>4 DEF DisciplineInv

LEMMA DisciplineAdd ==
  ASSUME DisciplineInv, LifetimeInv', NEW a \in Actors, AddFinalizer(a)
  PROVE  DisciplineInv'
<1> DEFINE r == busy[a]
<1> DEFINE s == into[r]
<1>0. /\ TypeOK /\ PendingInv /\ HeldInv /\ r \in Resources /\ Holds(a, r)
      /\ pc[a] = "registering"
  BY DEF DisciplineInv, LifetimeInv, TypeOK, AddFinalizer, Holds
<1>1. s \in Scopes /\ releases[r] = 0
  BY <1>0 DEF HeldInv, HeldByOne
<1>2. /\ UNCHANGED <<status, above, owner, stack, children, releasing, into, releases>>
      /\ \A b \in Actors : pc'[b] = pc[b] \/ (b = a /\ pc'[b] \in {"running", "releasingNow"})
  BY <1>0 DEF AddFinalizer, TypeOK
<1>3. TreeInv' /\ OwnerInv' /\ StacksInv' /\ ChildrenInv' /\ ReleaseIsLast'
  BY <1>0, <1>2, ScopesStill
<1>4. PendingInv' /\ HeldInv'
  <2>1. CASE status[s] = "open"
    <3>1. /\ finalizers' = [finalizers EXCEPT ![s] = Append(@, r)]
          /\ order' = [order EXCEPT ![s] = Append(@, r)]
          /\ pc' = [pc EXCEPT ![a] = "running"] /\ busy' = [busy EXCEPT ![a] = Unset]
      BY <2>1 DEF AddFinalizer
    <3>2. \A b \in Actors, q \in Resources : Holds(b, q)' <=> b # a /\ Holds(b, q)
      BY <1>0, <3>1 DEF Holds, TypeOK
    <3> HIDE DEF r, s
    <3>3. PendingInv'
      BY <1>0, <1>1, <1>2, <2>1, <3>1, PendingAdd
    <3>4. HeldInv'
      BY <1>0, <1>1, <1>2, <3>1, <3>2, HeldAdd DEF s
    <3> QED BY <3>3, <3>4
  <2>2. CASE status[s] # "open"
    <3>1. UNCHANGED <<finalizers, order, busy>> /\ pc' = [pc EXCEPT ![a] = "releasingNow"]
      BY <2>2 DEF AddFinalizer
    <3>2. PendingInv'
      BY <1>0, <1>2, <3>1, PendingQuiet DEF Pending
    <3>3. \A b \in Actors, q \in Resources : Holds(b, q)' <=> Holds(b, q)
      BY <1>0, <3>1 DEF Holds, TypeOK
    <3> QED BY <1>0, <1>2, <3>1, <3>2, <3>3, HeldQuiet
  <2> QED BY <2>1, <2>2
<1> QED BY <1>3, <1>4 DEF DisciplineInv

LEMMA DisciplineReleaseNow ==
  ASSUME DisciplineInv, LifetimeInv', NEW a \in Actors, ReleaseNow(a)
  PROVE  DisciplineInv'
<1>0. /\ TypeOK /\ PendingInv /\ HeldInv /\ busy[a] \in Resources /\ Holds(a, busy[a])
  BY DEF DisciplineInv, LifetimeInv, TypeOK, ReleaseNow, Holds
<1>1. /\ UNCHANGED <<status, above, owner, stack, children, into, order>>
      /\ \A b \in Actors : pc'[b] = pc[b] \/ (pc[b] = "releasingNow" /\ pc'[b] = "running")
  BY <1>0 DEF ReleaseNow, scopeVars, TypeOK
<1>2. TreeInv' /\ OwnerInv' /\ StacksInv' /\ ChildrenInv' /\ ReleaseIsLast'
  BY <1>1, ScopesStill
<1>3. PendingInv'
  BY <1>0, PendingReleaseNow
<1>4. into[busy[a]] # Unset /\ releases[busy[a]] = 0 /\ \A b \in Actors : Holds(b, busy[a]) => b = a
  BY <1>0, LifetimeConstants DEF HeldInv, HeldByOne
<1>5. \A b \in Actors, q \in Resources : Holds(b, q)' <=> Holds(b, q) /\ b # a
  BY <1>0 DEF ReleaseNow, Holds, TypeOK
<1>6. \A q \in Resources : Holds(a, q) => q = busy[a]
  BY DEF Holds
<1>7. \A b \in Actors, q \in Resources : Holds(b, q)' <=> Holds(b, q) /\ q # busy[a]
  BY <1>4, <1>5, <1>6
<1>8. releases' = [releases EXCEPT ![busy[a]] = @ + 1]
  BY DEF ReleaseNow
<1>9. HeldInv'
  BY <1>0, <1>1, <1>4, <1>7, <1>8, HeldRelease
<1> QED BY <1>2, <1>3, <1>9 DEF DisciplineInv

LEMMA DisciplineRunFinalizer ==
  ASSUME DisciplineInv, LifetimeInv', NEW s \in Scopes, RunFinalizer(s)
  PROVE  DisciplineInv'
<1>0. TypeOK /\ PendingInv /\ HeldInv
  BY DEF DisciplineInv, LifetimeInv
<1>1. UNCHANGED <<status, above, owner, stack, children, into, order, pc, busy>>
  BY DEF RunFinalizer
<1>2. TreeInv' /\ OwnerInv' /\ StacksInv' /\ ChildrenInv' /\ ReleaseIsLast'
  BY <1>1, ScopesStill
<1>3. PendingInv'
  BY <1>0, PendingRunFinalizer
<1> DEFINE r == Last(releasing[s])
<1>4. PICK k \in 1..Len(order[s]) : r = order[s][k] /\ releases[r] = 0
  <2>1. Pending(s) = releasing[s] /\ releasing[s] # <<>> /\ releasing[s] \in Seq(Resources)
    BY <1>0, OrderElement DEF RunFinalizer, Pending
  <2>2. Len(Pending(s)) \in Nat \ {0} /\ r = Pending(s)[Len(Pending(s))]
    BY <2>1, FrontFacts
  <2>3. Len(Pending(s)) <= Len(order[s]) /\ Len(order[s]) \in Nat
    BY <1>0, OrderElement DEF PendingInv, PendingAt
  <2>4. Len(Pending(s)) \in 1..Len(Pending(s)) /\ Len(Pending(s)) \in 1..Len(order[s])
    BY <2>2, <2>3
  <2>5. r = order[s][Len(Pending(s))] /\ releases[r] = 0
    BY <1>0, <2>2, <2>4 DEF PendingInv, PendingAt
  <2> QED BY <2>4, <2>5
<1>5. r \in Resources /\ into[r] = s /\ s # Unset /\ \A b \in Actors : ~Holds(b, r)
  BY <1>0, <1>4, OrderElement, LifetimeConstants DEF HeldInv, RegisteredInto, HeldByOne
<1>6. releases' = [releases EXCEPT ![r] = @ + 1]
  BY DEF RunFinalizer
<1>7. \A b \in Actors, q \in Resources : Holds(b, q)' <=> Holds(b, q)
  BY <1>1 DEF Holds
<1> HIDE DEF r
<1>8. \A b \in Actors, q \in Resources : Holds(b, q)' <=> Holds(b, q) /\ q # r
  BY <1>5, <1>7
<1>9. into[r] # Unset /\ releases[r] = 0
  BY <1>4, <1>5
<1>10. HeldInv'
  BY <1>0, <1>1, <1>5, <1>6, <1>8, <1>9, HeldRelease
<1> QED BY <1>2, <1>3, <1>10 DEF DisciplineInv

LEMMA NewScopeAlone ==
  ASSUME NEW s, NewScope(s, {})
  PROVE  /\ status' = [status EXCEPT ![s] = "open"]
         /\ above' = [above EXCEPT ![s] = {s} \cup {}]
<1>1. UNION {above[p] : p \in {}} = {}
  OBVIOUS
<1> QED BY <1>1 DEF NewScope

LEMMA NewScopeBelow ==
  ASSUME NEW s, NEW q, NewScope(s, {q})
  PROVE  /\ status' = [status EXCEPT ![s] = "open"]
         /\ above' = [above EXCEPT ![s] = {s} \cup above[q]]
<1>1. UNION {above[p] : p \in {q}} = above[q]
  OBVIOUS
<1> QED BY <1>1 DEF NewScope

\* The scope an actor is in, while it runs, is open.
LEMMA CurrentOpen ==
  ASSUME LifetimeInv, StacksInv, NEW a \in Actors, pc[a] = "running"
  PROVE  Current(a) \in Scopes \ {Root} /\ status[Current(a)] = "open"
<1>1. TypeOK /\ stack[a] \in Seq(Scopes \ {Root}) /\ stack[a] # <<>>
  BY StackElement DEF LifetimeInv, StackInv
<1>2. Len(stack[a]) \in Nat \ {0} /\ Current(a) = stack[a][Len(stack[a])]
  BY <1>1, FrontFacts DEF Current
<1>3. Len(stack[a]) \in 1..Len(stack[a])
  BY <1>2
<1> QED BY <1>1, <1>2, <1>3, StackElement DEF StacksInv, InnermostCloses

LEMMA DisciplineStartRun ==
  ASSUME DisciplineInv, LifetimeInv', NEW a \in Actors, StartRun(a)
  PROVE  DisciplineInv'
<1>0. /\ LifetimeInv /\ TypeOK /\ TreeInv /\ OwnerInv /\ StacksInv /\ ChildrenInv /\ PendingInv
      /\ HeldInv /\ ReleaseIsLast /\ a \in Scopes
  BY DEF DisciplineInv, LifetimeInv, Scopes
<1>1. /\ status[a] = "unborn" /\ status' = [status EXCEPT ![a] = "open"]
      /\ above' = [above EXCEPT ![a] = {a} \cup {}]
  BY <1>0, NewScopeAlone DEF StartRun, StacksInv, OutsideProgram
<1>2. \A t \in Scopes : status'[t] = IF t = a THEN "open" ELSE status[t]
  BY <1>0, <1>1 DEF TypeOK
<1>3. TreeInv'
  BY <1>0, <1>1, TreeNew
<1>4. OwnerInv'
  BY <1>0, <1>2, OwnerQuiet DEF StartRun
<1>5. StacksInv'
  BY <1>0, <1>1, StacksStart DEF StartRun
<1>6. ChildrenInv'
  BY <1>0, <1>2, ChildrenStep DEF StartRun
<1>7. PendingInv'
  BY <1>0, <1>1, PendingNew DEF StartRun
<1>8. HeldInv'
  BY <1>0, HeldQuiet DEF StartRun, Holds, TypeOK
<1>9. \A t \in Scopes \ {a} : Alive(t)' => Alive(t)
  BY <1>0, <1>2 DEF StartRun, Alive, Live, TypeOK
<1>10. ReleaseIsLast'
  BY <1>0, <1>1, <1>9, LastNew DEF StartRun
<1> QED BY <1>3, <1>4, <1>5, <1>6, <1>7, <1>8, <1>10 DEF DisciplineInv

LEMMA DisciplineOpenScoped ==
  ASSUME DisciplineInv, LifetimeInv', NEW a \in Actors, NEW s \in Lexical, OpenScoped(a, s)
  PROVE  DisciplineInv'
<1>0. /\ LifetimeInv /\ TypeOK /\ TreeInv /\ OwnerInv /\ StacksInv /\ ChildrenInv /\ PendingInv
      /\ HeldInv /\ ReleaseIsLast /\ s \in Scopes
  BY DEF DisciplineInv, LifetimeInv, Scopes
<1> DEFINE U == above[Current(a)]
<1>1. /\ status[s] = "unborn" /\ status' = [status EXCEPT ![s] = "open"]
      /\ above' = [above EXCEPT ![s] = {s} \cup U]
  BY NewScopeBelow DEF OpenScoped
<1>2. \A t \in Scopes : status'[t] = IF t = s THEN "open" ELSE status[t]
  BY <1>0, <1>1 DEF TypeOK
<1>3. Current(a) \in Scopes /\ status[Current(a)] = "open" /\ s \notin Runs \cup {Root}
  BY <1>0, CurrentOpen, LifetimeConstants DEF OpenScoped, Actors
<1>4. StacksInv'
  BY <1>0, <1>1, StacksOpen DEF OpenScoped
<1>5. OwnerInv'
  BY <1>0, <1>2, OwnerQuiet DEF OpenScoped
<1>6. ChildrenInv'
  BY <1>0, <1>2, ChildrenStep DEF OpenScoped
<1>7. PendingInv'
  BY <1>0, <1>1, PendingNew DEF OpenScoped
<1>8. HeldInv'
  BY <1>0, HeldQuiet DEF OpenScoped, Holds
<1>9. \A t \in Scopes \ {s} : Alive(t)' => Alive(t)
  BY <1>0, <1>2 DEF OpenScoped, Alive, Live
<1>10. \E p \in Scopes : status[p] = "open" /\ status[p] # "unborn" /\ U = above[p]
  BY <1>3
<1> HIDE DEF U
<1>11. TreeInv'
  BY <1>0, <1>1, <1>3, <1>10, TreeNew
<1>12. ReleaseIsLast'
  BY <1>0, <1>1, <1>9, <1>10, LastNew DEF OpenScoped
<1> QED BY <1>4, <1>5, <1>6, <1>7, <1>8, <1>11, <1>12 DEF DisciplineInv

LEMMA DisciplineFork ==
  ASSUME DisciplineInv, LifetimeInv', NEW a \in Actors, NEW f \in Fibers, NEW o \in Scopes,
         Fork(a, f, o)
  PROVE  DisciplineInv'
<1>0. /\ LifetimeInv /\ TypeOK /\ TreeInv /\ OwnerInv /\ StacksInv /\ ChildrenInv /\ PendingInv
      /\ HeldInv /\ ReleaseIsLast /\ f \in Scopes /\ f \in Actors
  BY DEF DisciplineInv, LifetimeInv, Scopes, Actors
<1> DEFINE U == above[Current(a)]
<1>1. /\ status[f] = "unborn" /\ status' = [status EXCEPT ![f] = "open"]
      /\ above' = [above EXCEPT ![f] = {f} \cup U] /\ status[o] = "open"
  <2>1. pc[f] = "unborn" /\ NewScope(f, {Current(a)}) /\ status[o] = "open"
    BY DEF Fork
  <2>2. status[f] = "unborn"
    BY <1>0, <2>1 DEF StacksInv, OutsideProgram
  <2> QED BY <2>1, <2>2, NewScopeBelow
<1>2. \A t \in Scopes : status'[t] = IF t = f THEN "open" ELSE status[t]
  BY <1>0, <1>1 DEF TypeOK
<1>3. Current(a) \in Scopes /\ status[Current(a)] = "open" /\ f \notin Runs \cup {Root}
  BY <1>0, CurrentOpen, LifetimeConstants DEF Fork, Actors
<1>4. StacksInv'
  BY <1>0, <1>1, StacksStart DEF Fork
<1>5. OwnerInv'
  <2> SUFFICES ASSUME NEW g \in Fibers, owner'[g] # Unset
               PROVE  owner'[g] # g /\ status'[owner'[g]] # "unborn" /\ status'[g] # "unborn"
    BY DEF OwnerInv
  <2>1. CASE g = f
    BY <1>0, <1>1, <1>2, <2>1 DEF Fork, TypeOK
  <2>2. CASE g # f
    <3>1. owner'[g] = owner[g] /\ owner[g] \in Scopes /\ g \in Scopes
      BY <1>0, <2>2 DEF Fork, TypeOK, Scopes, Actors
    <3> QED BY <1>0, <1>2, <3>1 DEF OwnerInv
  <2> QED BY <2>1, <2>2
<1>6. ChildrenInv'
  <2>1. \A t \in Scopes : status'[t] \in {"releasing", "closed"} =>
           status[t] \in {"releasing", "closed"} /\ children'[t] = children[t]
    BY <1>0, <1>1, <1>2 DEF Fork, TypeOK
  <2> QED BY <1>0, <2>1, ChildrenStep
<1>7. PendingInv'
  BY <1>0, <1>1, PendingNew DEF Fork
<1>8. HeldInv'
  BY <1>0, HeldQuiet DEF Fork, Holds, TypeOK
<1>9. \A t \in Scopes \ {f} : Alive(t)' => Alive(t)
  BY <1>0, <1>2 DEF Fork, Alive, Live, TypeOK
<1>10. \E p \in Scopes : status[p] = "open" /\ status[p] # "unborn" /\ U = above[p]
  BY <1>3
<1>11. \A g \in Fibers \ {f} : owner'[g] = owner[g]
  BY <1>0 DEF Fork, TypeOK
<1> HIDE DEF U
<1>12. TreeInv'
  BY <1>0, <1>1, <1>3, <1>10, TreeNew
<1>13. ReleaseIsLast'
  BY <1>0, <1>1, <1>9, <1>10, <1>11, LastNew
<1> QED BY <1>4, <1>5, <1>6, <1>7, <1>8, <1>12, <1>13 DEF DisciplineInv

LEMMA DisciplineSettle ==
  ASSUME DisciplineInv, LifetimeInv', NEW a \in Actors, Settle(a)
  PROVE  DisciplineInv'
<1>0. /\ LifetimeInv /\ TypeOK /\ TreeInv /\ OwnerInv /\ StacksInv /\ ChildrenInv /\ PendingInv
      /\ HeldInv /\ ReleaseIsLast
  BY DEF DisciplineInv, LifetimeInv
<1>1. Current(a) \in Scopes /\ status[Current(a)] = "open"
  BY <1>0, CurrentOpen DEF Settle
<1>2. \A t \in Scopes : status'[t] = IF t = Current(a) THEN "cancelling" ELSE status[t]
  BY <1>0 DEF TypeOK, Settle, BeginClose
<1>3. TreeInv'
  BY <1>0, <1>2, TreeQuiet DEF Settle
<1>4. OwnerInv'
  BY <1>0, <1>2, OwnerQuiet DEF Settle
<1>5. StacksInv'
  BY <1>0, StacksSettle
<1>6. ChildrenInv'
  BY <1>0, <1>2, ChildrenStep DEF Settle
<1>7. PendingInv'
  BY <1>0, <1>1, PendingBeginClose DEF Settle
<1>8. HeldInv'
  BY <1>0, HeldQuiet DEF Settle, Holds, TypeOK
<1>9. \A t \in Scopes : Alive(t)' => Alive(t)
  BY <1>0, <1>1, <1>2 DEF Settle, Alive, Live, TypeOK
<1>10. ReleaseIsLast'
  BY <1>0, <1>2, <1>9, LastQuiet DEF Settle
<1> QED BY <1>3, <1>4, <1>5, <1>6, <1>7, <1>8, <1>10 DEF DisciplineInv

LEMMA DisciplineCloseRuntime ==
  ASSUME DisciplineInv, LifetimeInv', NEW k \in Closers, CloseRuntime(k)
  PROVE  DisciplineInv'
<1>0. /\ LifetimeInv /\ TypeOK /\ TreeInv /\ OwnerInv /\ StacksInv /\ ChildrenInv /\ PendingInv
      /\ HeldInv /\ ReleaseIsLast /\ Root \in Scopes
  BY DEF DisciplineInv, LifetimeInv, Scopes
<1>1. UNCHANGED <<above, owner, stack, pc, busy, children, into, order, releases>>
  BY DEF CloseRuntime
<1>2. HeldInv'
  BY <1>0, <1>1, HeldQuiet DEF Holds
<1>3. CASE BeginClose(Root)
  <2>1. status' = [status EXCEPT ![Root] = "cancelling"] /\ status[Root] = "open"
    BY <1>3 DEF BeginClose
  <2>2. \A t \in Scopes : status'[t] = IF t = Root THEN "cancelling" ELSE status[t]
    BY <1>0, <2>1 DEF TypeOK
  <2>3. TreeInv' /\ OwnerInv' /\ ChildrenInv'
    BY <1>0, <1>1, <2>2, TreeQuiet, OwnerQuiet, ChildrenStep
  <2>4. StacksInv'
    BY <1>0, <1>1, <2>1, StacksMove
  <2>5. PendingInv'
    BY <1>0, <1>1, <1>3, PendingBeginClose
  <2>6. \A t \in Scopes : Alive(t)' => Alive(t)
    BY <1>1, <2>1, <2>2 DEF Alive, Live
  <2>7. ReleaseIsLast'
    BY <1>0, <1>1, <2>2, <2>6, LastQuiet
  <2> QED BY <1>2, <2>3, <2>4, <2>5, <2>7 DEF DisciplineInv
<1>4. CASE UNCHANGED <<status, releasing, finalizers>>
  <2>1. TreeInv' /\ OwnerInv' /\ StacksInv' /\ ChildrenInv' /\ ReleaseIsLast'
    BY <1>1, <1>4, ScopesStill
  <2>2. PendingInv'
    BY <1>0, <1>1, <1>4, PendingQuiet DEF Pending
  <2> QED BY <1>2, <2>1, <2>2 DEF DisciplineInv
<1> QED BY <1>3, <1>4 DEF CloseRuntime

LEMMA DisciplineClosing ==
  ASSUME DisciplineInv, LifetimeInv', NEW s \in Scopes, CancelOwned(s) \/ AwaitChildren(s)
  PROVE  DisciplineInv'
<1>0. /\ LifetimeInv /\ TypeOK /\ TreeInv /\ OwnerInv /\ StacksInv /\ ChildrenInv /\ PendingInv
      /\ HeldInv /\ ReleaseIsLast
  BY DEF DisciplineInv, LifetimeInv
<1>1. /\ UNCHANGED <<above, owner, stack, pc, busy, children, finalizers, releasing, into, order, releases>>
      /\ status[s] \in {"cancelling", "waiting"}
  BY DEF CancelOwned, AwaitChildren
<1>2. PICK x \in {"waiting", "releasing"} :
         /\ status' = [status EXCEPT ![s] = x]
         /\ x = "releasing" => AwaitChildren(s)
  BY DEF CancelOwned, AwaitChildren
<1>3. \A t \in Scopes : status'[t] = IF t = s THEN x ELSE status[t]
  BY <1>0, <1>2 DEF TypeOK
<1>4. TreeInv' /\ OwnerInv'
  BY <1>0, <1>1, <1>3, TreeQuiet, OwnerQuiet
<1>5. StacksInv'
  BY <1>0, <1>1, <1>2, StacksMove DEF Closing
<1>6. ChildrenInv'
  BY <1>0, <1>1, <1>2, <1>3, ChildrenStep DEF AwaitChildren
<1>7. \A t \in Scopes : Pending(t)' = Pending(t)
  BY <1>1, <1>3 DEF Pending
<1>8. PendingInv'
  BY <1>0, <1>1, <1>3, <1>7, PendingQuiet
<1>9. HeldInv'
  BY <1>0, <1>1, HeldQuiet DEF Holds
<1>10. ReleaseIsLast'
  <2>1. CASE AwaitChildren(s)
    BY <2>1, LastAwait
  <2>2. CASE x = "waiting"
    <3>1. \A t \in Scopes : Alive(t)' => Alive(t)
      BY <1>1, <1>3 DEF Alive, Live
    <3> QED BY <1>0, <1>1, <1>3, <2>2, <3>1, LastQuiet
  <2> QED BY <1>2, <2>1, <2>2
<1> QED BY <1>4, <1>5, <1>6, <1>8, <1>9, <1>10 DEF DisciplineInv

LEMMA DisciplineFinish ==
  ASSUME DisciplineInv, LifetimeInv', NEW s \in Scopes, FinishClose(s)
  PROVE  DisciplineInv'
<1>0. /\ LifetimeInv /\ TypeOK /\ TreeInv /\ OwnerInv /\ StacksInv /\ ChildrenInv /\ PendingInv
      /\ HeldInv /\ ReleaseIsLast
  BY DEF DisciplineInv, LifetimeInv
<1>1. /\ UNCHANGED <<above, owner, busy, children, finalizers, releasing, into, order, releases>>
      /\ status[s] = "releasing" /\ status' = [status EXCEPT ![s] = "closed"]
  BY DEF FinishClose
<1>2. \A t \in Scopes : status'[t] = IF t = s THEN "closed" ELSE status[t]
  BY <1>0, <1>1 DEF TypeOK
<1>3. TreeInv' /\ OwnerInv' /\ ChildrenInv'
  BY <1>0, <1>1, <1>2, TreeQuiet, OwnerQuiet, ChildrenStep
<1>4. PendingInv'
  <2>1. \A t \in Scopes : Pending(t)' = Pending(t)
    BY <1>1, <1>2 DEF Pending
  <2>2. Len(Pending(s)) = 0
    BY <1>1, EmptySeq DEF Pending, FinishClose
  <2> QED BY <1>0, <1>1, <1>2, <2>1, <2>2, PendingQuiet
<1>5. CASE s = Root
  <2>1. UNCHANGED <<pc, stack>>
    BY <1>5 DEF FinishClose
  <2>2. StacksInv'
    BY <1>0, <1>1, <1>5, <2>1, StacksMove
  <2>3. HeldInv'
    BY <1>0, <1>1, <2>1, HeldQuiet DEF Holds
  <2>4. \A t \in Scopes : Alive(t)' => Alive(t)
    BY <1>2, <2>1 DEF Alive, Live
  <2>5. ReleaseIsLast'
    BY <1>0, <1>1, <1>2, <2>4, LastQuiet
  <2> QED BY <1>3, <1>4, <2>2, <2>3, <2>5 DEF DisciplineInv
<1>6. CASE s # Root
  <2>1. PICK a \in Actors :
           /\ pc[a] = "closing" /\ Current(a) = s
           /\ stack' = [stack EXCEPT ![a] = Front(@)]
           /\ pc' = [pc EXCEPT ![a] = IF Len(stack[a]) > 1 THEN "running"
                                      ELSE IF a \in Runs THEN "ended" ELSE "completing"]
    BY <1>6 DEF FinishClose
  <2>2. PICK x \in {"running", "ended", "completing"} :
           /\ pc' = [pc EXCEPT ![a] = x]
           /\ IF Len(stack[a]) > 1 THEN x = "running" ELSE x \in {"completing", "ended"}
    BY <2>1
  <2>3. \A b \in Actors : pc'[b] = IF b = a THEN x ELSE pc[b]
    BY <1>0, <2>2 DEF TypeOK
  <2>4. StacksInv'
    BY <1>0, <1>1, <1>6, <2>1, <2>2, StacksFinish
  <2>5. HeldInv'
    BY <1>0, <1>1, <2>1, <2>3, HeldQuiet DEF Holds
  <2>6. \A t \in Scopes : Alive(t)' => Alive(t)
    BY <1>2, <2>1, <2>3 DEF Alive, Live
  <2>7. ReleaseIsLast'
    BY <1>0, <1>1, <1>2, <2>6, LastQuiet
  <2> QED BY <1>3, <1>4, <2>4, <2>5, <2>7 DEF DisciplineInv
<1> QED BY <1>5, <1>6

LEMMA DisciplineInit == Init => DisciplineInv
<1> SUFFICES ASSUME Init PROVE DisciplineInv
  OBVIOUS
<1>1. LifetimeInv
  BY InitInv
<1>2. /\ \A s \in Scopes : status[s] = IF s = Root THEN "open" ELSE "unborn"
      /\ \A s \in Scopes : above[s] = {s} /\ children[s] = {}
      /\ \A s \in Scopes : order[s] = <<>> /\ finalizers[s] = <<>> /\ releasing[s] = <<>>
      /\ \A a \in Actors : pc[a] = "unborn" /\ stack[a] = <<>>
      /\ \A f \in Fibers : owner[f] = Unset
      /\ \A r \in Resources : into[r] = Unset /\ releases[r] = 0
  BY DEF Init
<1>3. Len(<<>>) = 0
  BY EmptySeq
<1>4. \A a \in Actors : a \in Scopes /\ a # Root
  BY LifetimeConstants DEF Scopes
<1>5. TreeInv
  <2>1. \A s \in Runs \cup {Root} : s \in Scopes
    BY DEF Scopes, Actors
  <2> QED BY <1>2, <2>1 DEF TreeInv
<1>6. OwnerInv /\ ChildrenInv
  BY <1>2 DEF OwnerInv, ChildrenInv
<1>7. StacksInv
  BY <1>2, <1>3, <1>4 DEF StacksInv, OwnAtBottom, LexicalOnTop, OnOneStack, InnermostCloses,
     OnSomeStack, OutsideProgram
<1>8. PendingInv
  <2> SUFFICES ASSUME NEW s \in Scopes PROVE PendingAt(s)
    BY DEF PendingInv
  <2>1. Pending(s) = <<>>
    BY <1>2 DEF Pending
  <2> QED BY <1>2, <1>3, <2>1 DEF PendingAt
<1>9. HeldInv
  BY <1>2, <1>3 DEF HeldInv, RegisteredInto, RegisteredOnce, HeldByOne, ReleasedOnce,
     NotAcquired, Accounted, Holds
<1>10. ReleaseIsLast
  BY <1>2 DEF ReleaseIsLast
<1> QED BY <1>1, <1>5, <1>6, <1>7, <1>8, <1>9, <1>10 DEF DisciplineInv

LEMMA DisciplineNext == DisciplineInv /\ [Next]_vars => DisciplineInv'
<1> SUFFICES ASSUME DisciplineInv, [Next]_vars PROVE DisciplineInv'
  OBVIOUS
<1>0. LifetimeInv'
  BY NextInv DEF DisciplineInv
<1>1. ASSUME NEW a \in Actors, Choose(a) PROVE DisciplineInv'
  BY <1>0, <1>1, DisciplineStartRun, DisciplineActors, DisciplineSettle, DisciplineOpenScoped,
     DisciplineFork, DisciplineAcquire DEF Choose
<1>2. ASSUME NEW a \in Actors, Proceed(a) PROVE DisciplineInv'
  BY <1>0, <1>2, DisciplineAdd, DisciplineReleaseNow, DisciplineActors DEF Proceed
<1>3. ASSUME NEW s \in Scopes, Close(s) PROVE DisciplineInv'
  BY <1>0, <1>3, DisciplineClosing, DisciplineRunFinalizer, DisciplineFinish DEF Close
<1>4. ASSUME NEW k \in Closers, CloseRuntime(k) PROVE DisciplineInv'
  BY <1>0, <1>4, DisciplineCloseRuntime
<1>5. CASE UNCHANGED vars
  <2>1. /\ UNCHANGED <<status, above, owner, stack, children, pc, busy>>
        /\ UNCHANGED <<finalizers, releasing, into, order, releases>>
    BY <1>5 DEF vars
  <2>2. TreeInv' /\ OwnerInv' /\ StacksInv' /\ ChildrenInv' /\ ReleaseIsLast'
    BY <2>1, ScopesStill
  <2>3. PendingInv'
    BY <2>1, PendingQuiet DEF DisciplineInv, Pending
  <2>4. HeldInv'
    BY <2>1, HeldQuiet DEF DisciplineInv, Holds
  <2> QED BY <1>0, <2>2, <2>3, <2>4 DEF DisciplineInv
<1> QED BY <1>1, <1>2, <1>3, <1>4, <1>5 DEF Next

\* What the invariant says about resources: nothing is lost, and what is still
\* pending is older than what has been released.
LEMMA DisciplineImplies == DisciplineInv => ReleaseDiscipline
<1> SUFFICES ASSUME DisciplineInv PROVE ReleaseDiscipline
  OBVIOUS
<1>0. TypeOK /\ StacksInv /\ ChildrenInv /\ PendingInv /\ HeldInv /\ ReleaseIsLast /\ ReleasedOnce
  BY DEF DisciplineInv, LifetimeInv, HeldInv
<1>1. \A s \in Scopes : DOMAIN order[s] = 1..Len(order[s])
  BY <1>0, OrderElement, LenProperties
<1>2. NoLeak
  <2> SUFFICES ASSUME NEW r \in Resources, into[r] # Unset PROVE Duty(r)
    BY DEF NoLeak
  <2>1. CASE releases[r] = 1
    BY <2>1 DEF Duty
  <2>2. CASE \E a \in Actors : Holds(a, r)
    BY <2>2 DEF Duty, Holds
  <2>3. CASE \E i \in 1..Len(order[into[r]]) : order[into[r]][i] = r
    <3> DEFINE s == into[r]
    <3>1. s \in Scopes
      BY <1>0 DEF TypeOK
    <3> HIDE DEF s
    <3>2. PICK i \in 1..Len(order[s]) : order[s][i] = r
      BY <2>3 DEF s
    <3>3. CASE i <= Len(Pending(s))
      <4>1. Len(Pending(s)) \in Nat /\ Pending(s) \in Seq(Resources)
        BY <1>0, <3>1, OrderElement
      <4>2. i \in 1..Len(Pending(s))
        BY <3>3, <4>1
      <4>3. Pending(s)[i] = r
        BY <1>0, <3>1, <3>2, <4>2 DEF PendingInv, PendingAt
      <4>4. r \in ToSet(Pending(s))
        <5>1. i \in DOMAIN Pending(s)
          BY <4>1, <4>2, LenProperties
        <5> QED BY <4>3, <5>1 DEF ToSet
      <4>5. status[s] # "closed"
        BY <1>0, <3>1, <4>2 DEF PendingInv, PendingAt
      <4>6. status[s] # "unborn"
        <5>1. status[s] = "unborn" => Len(order[s]) = 0
          BY <1>0, <3>1, EmptySeq DEF PendingInv, PendingAt
        <5> QED BY <3>2, <5>1
      <4>7. status[s] \in Status
        BY <1>0, <3>1 DEF TypeOK
      <4> QED BY <3>1, <4>4, <4>5, <4>6, <4>7 DEF Duty, Pending, Status
    <3>4. CASE ~(i <= Len(Pending(s)))
      BY <1>0, <3>1, <3>2, <3>4 DEF PendingInv, PendingAt, Duty
    <3> QED BY <3>3, <3>4
  <2> QED BY <1>0, <2>1, <2>2, <2>3 DEF HeldInv, Accounted
<1>3. ReleaseOrder
  <2> SUFFICES ASSUME NEW s \in Scopes, NEW i \in 1..Len(order[s]), NEW j \in 1..Len(order[s]),
                      i < j, releases[order[s][i]] > 0
               PROVE  releases[order[s][j]] > 0
    BY <1>1 DEF ReleaseOrder
  <2>1. /\ releases[order[s][i]] = IF i <= Len(Pending(s)) THEN 0 ELSE 1
        /\ releases[order[s][j]] = IF j <= Len(Pending(s)) THEN 0 ELSE 1
    BY <1>0 DEF PendingInv, PendingAt
  <2>2. Len(Pending(s)) \in Nat
    BY <1>0, OrderElement
  <2> QED BY <2>1, <2>2
<1>4. CompletionIsFinal
  <2> SUFFICES ASSUME NEW f \in Fibers, pc[f] \in {"completed", "ended"}
               PROVE  /\ status[f] = "closed" /\ stack[f] = <<>> /\ children[f] = {}
                      /\ \A i \in DOMAIN order[f] : releases[order[f][i]] = 1
    BY DEF CompletionIsFinal
  <2>1. f \in Actors /\ f \in Scopes
    BY DEF Actors, Scopes
  <2>2. status[f] = "closed" /\ stack[f] = <<>>
    BY <1>0, <2>1 DEF StacksInv, OutsideProgram
  <2>3. children[f] = {}
    BY <1>0, <2>1, <2>2 DEF ChildrenInv
  <2>4. Len(Pending(f)) = 0
    BY <1>0, <2>1, <2>2 DEF PendingInv, PendingAt
  <2>5. \A i \in 1..Len(order[f]) : releases[order[f][i]] = 1
    <3> SUFFICES ASSUME NEW i \in 1..Len(order[f]) PROVE releases[order[f][i]] = 1
      OBVIOUS
    <3>1. ~(i <= Len(Pending(f)))
      BY <2>4
    <3> QED BY <1>0, <2>1, <3>1 DEF PendingInv, PendingAt
  <2> QED BY <1>1, <2>1, <2>2, <2>3, <2>5
<1> QED BY <1>0, <1>2, <1>3, <1>4 DEF ReleaseDiscipline

\* Whatever the programs do and however the goroutines interleave, a scope
\* releases only when everything below it has ended, every resource acquired is
\* released exactly once or is somebody's duty, the youngest of a scope first,
\* and a fiber that can be seen to have completed has nothing left (scope.go
\* 30-60, spawn.go, fiber.go 80-83).
THEOREM LifetimeReleaseDiscipline == Spec => []ReleaseDiscipline
<1> QED BY DisciplineInit, DisciplineNext, DisciplineImplies, PTL DEF Spec
=============================================================================
