------------------------------ MODULE Lifetime ------------------------------
(***************************************************************************)
(* Structured lifetimes: scopes, the fibers and resources they own, and    *)
(* the contexts through which closing a scope cancels its work.            *)
(* effect/internal/lifetime/scope.go and fiber.go,                         *)
(* effect/internal/runtime/spawn.go, and the operations of                 *)
(* effect/scope.go, fork.go, fiber.go and runtime.go built on them.        *)
(*                                                                         *)
(* An actor is a goroutine that interprets a program: a call of            *)
(* Runtime.Run, or a fiber.  Each has a scope of its own, which bears its  *)
(* name, and opens further ones with Scoped; stack[a] lists the scopes a   *)
(* has open, innermost last.  What programs do is arbitrary: an actor may  *)
(* acquire, fork, interrupt, open a scope or settle at any time.           *)
(***************************************************************************)
EXTENDS Naturals, Sequences, SequencesExt

CONSTANTS
    Runs,        \* calls of Runtime.Run
    Fibers,      \* fibers that may be forked
    Lexical,     \* scopes that Scoped may open
    Resources,   \* resources that AcquireRelease may acquire
    Closers,     \* calls of Runtime.Close
    Root,        \* the Runtime's root scope
    Selectors,   \* the fork operations in use: "current", "root", "handle"
    Unset        \* no actor, no scope

Actors == Runs \cup Fibers
Scopes == {Root} \cup Actors \cup Lexical

ASSUME LifetimeConstants ==
    /\ Selectors \subseteq {"current", "root", "handle"}
    /\ Root \notin Actors \cup Lexical
    /\ Runs \cap Fibers = {} /\ Actors \cap Lexical = {}
    /\ Unset \notin Scopes \cup Resources

VARIABLES
    status,      \* [Scopes -> Status], scopeClosing split into its phases
    finalizers,  \* [Scopes -> Seq(Resources)], registered and not detached
    releasing,   \* [Scopes -> Seq(Resources)], detached by beginClose
    children,    \* [Scopes -> SUBSET Fibers], the goroutines the scope awaits
    cancelled,   \* the scopes whose context is done
    above,       \* [Scopes -> SUBSET Scopes], a context and its ancestors
    pc,          \* [Actors -> what the actor is doing]
    stack,       \* [Actors -> Seq(Scopes)]
    busy,        \* [Actors -> the resource being registered or fiber awaited]
    owner,       \* [Fibers -> the scope that awaits the fiber]
    forker,      \* [Fibers -> the actor that holds the fiber's handle]
    into,        \* [Resources -> the scope the resource is acquired into]
    releases,    \* [Resources -> how often its finalizer has run]
    order,       \* history: [Scopes -> resources in order of registration]
    closeCall,   \* [Closers -> the progress of a call of Runtime.Close]
    interrupted  \* history: runs and fibers cancelled from outside

vars == <<status, finalizers, releasing, children, cancelled, above, pc, stack, busy,
          owner, forker, into, releases, order, closeCall, interrupted>>
scopeVars == <<status, finalizers, releasing, children, cancelled, above>>

Status == {"unborn", "open", "cancelling", "waiting", "releasing", "closed"}

\* Cancelling a context cancels every context derived from it.
Under(s) == {t \in Scopes : s \in above[t]}

Current(a) == Last(stack[a])

Init ==
    /\ status = [s \in Scopes |-> IF s = Root THEN "open" ELSE "unborn"]
    /\ finalizers = [s \in Scopes |-> <<>>]
    /\ releasing = [s \in Scopes |-> <<>>]
    /\ children = [s \in Scopes |-> {}]
    /\ cancelled = {}
    /\ above = [s \in Scopes |-> {s}]
    /\ pc = [a \in Actors |-> "unborn"]
    /\ stack = [a \in Actors |-> <<>>]
    /\ busy = [a \in Actors |-> Unset]
    /\ owner = [f \in Fibers |-> Unset]
    /\ forker = [f \in Fibers |-> Unset]
    /\ into = [r \in Resources |-> Unset]
    /\ releases = [r \in Resources |-> 0]
    /\ order = [s \in Scopes |-> <<>>]
    /\ closeCall = [k \in Closers |-> "idle"]
    /\ interrupted = {}
-----------------------------------------------------------------------------
(* Opening scopes and starting work *)

\* NewScope(parent): a context below parent's, done already if that one is.
NewScope(s, parents) ==
    /\ status' = [status EXCEPT ![s] = "open"]
    /\ above' = [above EXCEPT ![s] = {s} \cup UNION {above[p] : p \in parents}]
    /\ cancelled' = IF parents \cap cancelled # {} THEN cancelled \cup {s} ELSE cancelled

\* Runtime.Run: the Run's scope hangs below the caller's context, not the root's.
StartRun(a) ==
    /\ a \in Runs /\ pc[a] = "unborn"
    /\ NewScope(a, {})
    /\ pc' = [pc EXCEPT ![a] = "running"]
    /\ stack' = [stack EXCEPT ![a] = <<a>>]
    /\ UNCHANGED <<finalizers, releasing, children, busy, owner, forker, into, releases,
                   order, closeCall, interrupted>>

\* Scoped: a lexical scope below the current context.
OpenScoped(a, s) ==
    /\ pc[a] = "running" /\ s \in Lexical /\ status[s] = "unborn"
    /\ NewScope(s, {Current(a)})
    /\ stack' = [stack EXCEPT ![a] = Append(@, s)]
    /\ UNCHANGED <<finalizers, releasing, children, pc, busy, owner, forker, into, releases,
                   order, closeCall, interrupted>>

\* scopeSelector: Fork uses the current scope, ForkDaemon the root, and
\* Scope.Fork whatever scope the program holds a handle of.
MayOwn(a, o) ==
    \/ "current" \in Selectors /\ o = Current(a)
    \/ "root" \in Selectors /\ o = Root
    \/ "handle" \in Selectors /\ o # Root /\ status[o] # "unborn"

\* Faults, each a plausible slip in the definition that follows it; no action
\* of the specification uses them.  First: a fork that does not look whether
\* the owner is open.
ForkUnchecked(a, f, o) ==
    /\ pc[a] = "running" /\ f \in Fibers /\ pc[f] = "unborn"
    /\ MayOwn(a, o)
    /\ NewScope(f, {Current(a)})
    /\ children' = [children EXCEPT ![o] = @ \cup {f}]
    /\ pc' = [pc EXCEPT ![f] = "running"]
    /\ stack' = [stack EXCEPT ![f] = <<f>>]
    /\ owner' = [owner EXCEPT ![f] = o]
    /\ forker' = [forker EXCEPT ![f] = a]
    /\ UNCHANGED <<finalizers, releasing, busy, into, releases, order, closeCall, interrupted>>

\* StartFiber: Scope.Fork starts the goroutine only if the owner is open.  The
\* child's context hangs below the caller's, whoever the owner is.  A rejected
\* fork leaves nothing behind and is a failure of the caller's effect.
Fork(a, f, o) ==
    /\ pc[a] = "running" /\ f \in Fibers /\ pc[f] = "unborn"
    /\ MayOwn(a, o) /\ status[o] = "open"
    /\ NewScope(f, {Current(a)})
    /\ children' = [children EXCEPT ![o] = @ \cup {f}]
    /\ pc' = [pc EXCEPT ![f] = "running"]
    /\ stack' = [stack EXCEPT ![f] = <<f>>]
    /\ owner' = [owner EXCEPT ![f] = o]
    /\ forker' = [forker EXCEPT ![f] = a]
    /\ UNCHANGED <<finalizers, releasing, busy, into, releases, order, closeCall, interrupted>>
-----------------------------------------------------------------------------
(* Resources *)

\* acquire has succeeded with r.  There is no interruption checkpoint before
\* registerRelease runs, so the actor goes on even if it is cancelled now.
Acquire(a, r, s) ==
    /\ pc[a] = "running" /\ into[r] = Unset /\ s # Root /\ status[s] # "unborn"
    /\ into' = [into EXCEPT ![r] = s]
    /\ pc' = [pc EXCEPT ![a] = "registering"]
    /\ busy' = [busy EXCEPT ![a] = r]
    /\ UNCHANGED <<scopeVars, stack, owner, forker, releases, order, closeCall, interrupted>>

\* Fault: registration is refused only once the scope is closed.
AddFinalizerLate(a) ==
    /\ pc[a] = "registering"
    /\ LET r == busy[a]
           s == into[r]
       IN  IF status[s] # "closed"
           THEN /\ finalizers' = [finalizers EXCEPT ![s] = Append(@, r)]
                /\ order' = [order EXCEPT ![s] = Append(@, r)]
                /\ pc' = [pc EXCEPT ![a] = "running"]
                /\ busy' = [busy EXCEPT ![a] = Unset]
           ELSE /\ pc' = [pc EXCEPT ![a] = "releasingNow"]
                /\ UNCHANGED <<finalizers, order, busy>>
    /\ UNCHANGED <<status, releasing, children, cancelled, above, stack, owner, forker,
                   into, releases, closeCall, interrupted>>

\* Fault: a caller that is cancelled releases what the scope has accepted.
AddFinalizerTwice(a) ==
    /\ pc[a] = "registering"
    /\ LET r == busy[a]
           s == into[r]
       IN  /\ IF status[s] = "open"
              THEN /\ finalizers' = [finalizers EXCEPT ![s] = Append(@, r)]
                   /\ order' = [order EXCEPT ![s] = Append(@, r)]
              ELSE UNCHANGED <<finalizers, order>>
           /\ IF status[s] = "open" /\ Current(a) \notin cancelled
              THEN pc' = [pc EXCEPT ![a] = "running"] /\ busy' = [busy EXCEPT ![a] = Unset]
              ELSE pc' = [pc EXCEPT ![a] = "releasingNow"] /\ UNCHANGED busy
    /\ UNCHANGED <<status, releasing, children, cancelled, above, stack, owner, forker,
                   into, releases, closeCall, interrupted>>

\* Scope.AddFinalizer: registered under the lock, or refused because closing
\* has begun.
AddFinalizer(a) ==
    /\ pc[a] = "registering"
    /\ LET r == busy[a]
           s == into[r]
       IN  IF status[s] = "open"
           THEN /\ finalizers' = [finalizers EXCEPT ![s] = Append(@, r)]
                /\ order' = [order EXCEPT ![s] = Append(@, r)]
                /\ pc' = [pc EXCEPT ![a] = "running"]
                /\ busy' = [busy EXCEPT ![a] = Unset]
           ELSE /\ pc' = [pc EXCEPT ![a] = "releasingNow"]
                /\ UNCHANGED <<finalizers, order, busy>>
    /\ UNCHANGED <<status, releasing, children, cancelled, above, stack, owner, forker,
                   into, releases, closeCall, interrupted>>

\* A refused resource is released at once, on the goroutine that acquired it.
ReleaseNow(a) ==
    /\ pc[a] = "releasingNow"
    /\ releases' = [releases EXCEPT ![busy[a]] = @ + 1]
    /\ pc' = [pc EXCEPT ![a] = "running"]
    /\ busy' = [busy EXCEPT ![a] = Unset]
    /\ UNCHANGED <<scopeVars, stack, owner, forker, into, order, closeCall, interrupted>>
-----------------------------------------------------------------------------
(* Closing *)

\* beginClose takes the finalizers and bars the door, in one critical section.
BeginClose(s) ==
    /\ status[s] = "open"
    /\ status' = [status EXCEPT ![s] = "cancelling"]
    /\ releasing' = [releasing EXCEPT ![s] = finalizers[s]]
    /\ finalizers' = [finalizers EXCEPT ![s] = <<>>]

\* The body an actor runs inside its innermost scope has settled: Scoped's
\* observer, Run or StartFiber closes that scope.
Settle(a) ==
    /\ pc[a] = "running"
    /\ BeginClose(Current(a))
    /\ pc' = [pc EXCEPT ![a] = "closing"]
    /\ UNCHANGED <<children, cancelled, above, stack, busy, owner, forker, into, releases,
                   order, closeCall, interrupted>>

\* Runtime.Close closes the root.  Only the first call does the work; another
\* returns at once, whatever state that work is in.
CloseRuntime(k) ==
    /\ closeCall[k] = "idle"
    /\ \/ /\ BeginClose(Root)
          /\ closeCall' = [closeCall EXCEPT ![k] = "closing"]
       \/ /\ status[Root] # "open"
          /\ closeCall' = [closeCall EXCEPT ![k] = "returned"]
          /\ UNCHANGED <<status, releasing, finalizers>>
    /\ UNCHANGED <<children, cancelled, above, pc, stack, busy, owner, forker, into,
                   releases, order, interrupted>>

\* Fault: closing waits without having cancelled.
CancelOwnedForgotten(s) ==
    /\ status[s] = "cancelling"
    /\ status' = [status EXCEPT ![s] = "waiting"]
    /\ UNCHANGED <<finalizers, releasing, children, cancelled, above, pc, stack, busy, owner,
                   forker, into, releases, order, closeCall, interrupted>>

CancelOwned(s) ==
    /\ status[s] = "cancelling"
    /\ status' = [status EXCEPT ![s] = "waiting"]
    /\ cancelled' = cancelled \cup Under(s)
    /\ UNCHANGED <<finalizers, releasing, children, above, pc, stack, busy, owner, forker,
                   into, releases, order, closeCall, interrupted>>

\* Fault: closing does not wait for its children.
AwaitChildrenNot(s) ==
    /\ status[s] = "waiting"
    /\ status' = [status EXCEPT ![s] = "releasing"]
    /\ UNCHANGED <<finalizers, releasing, children, cancelled, above, pc, stack, busy, owner,
                   forker, into, releases, order, closeCall, interrupted>>

AwaitChildren(s) ==
    /\ status[s] = "waiting" /\ children[s] = {}
    /\ status' = [status EXCEPT ![s] = "releasing"]
    /\ UNCHANGED <<finalizers, releasing, children, cancelled, above, pc, stack, busy, owner,
                   forker, into, releases, order, closeCall, interrupted>>

\* Fault: finalizers run in the order of registration.
RunFinalizerOldestFirst(s) ==
    /\ status[s] = "releasing" /\ releasing[s] # <<>>
    /\ releases' = [releases EXCEPT ![Head(releasing[s])] = @ + 1]
    /\ releasing' = [releasing EXCEPT ![s] = Tail(@)]
    /\ UNCHANGED <<status, finalizers, children, cancelled, above, pc, stack, busy, owner,
                   forker, into, order, closeCall, interrupted>>

\* One finalizer, the youngest left.  runFinalizer turns its panic into a
\* cause, so that the next one runs in any case.
RunFinalizer(s) ==
    /\ status[s] = "releasing" /\ releasing[s] # <<>>
    /\ releases' = [releases EXCEPT ![Last(releasing[s])] = @ + 1]
    /\ releasing' = [releasing EXCEPT ![s] = Front(@)]
    /\ UNCHANGED <<status, finalizers, children, cancelled, above, pc, stack, busy, owner,
                   forker, into, order, closeCall, interrupted>>

\* finishClose, and what its caller does next: Scoped goes on in the scope
\* around it, a Run returns, a fiber completes, Runtime.Close returns.
FinishClose(s) ==
    /\ status[s] = "releasing" /\ releasing[s] = <<>>
    /\ status' = [status EXCEPT ![s] = "closed"]
    /\ IF s = Root
       THEN /\ closeCall' = [k \in Closers |->
                               IF closeCall[k] = "closing" THEN "returned" ELSE closeCall[k]]
            /\ UNCHANGED <<pc, stack>>
       ELSE /\ \E a \in Actors :
                  /\ pc[a] = "closing" /\ Current(a) = s
                  /\ stack' = [stack EXCEPT ![a] = Front(@)]
                  /\ pc' = [pc EXCEPT ![a] = IF Len(stack[a]) > 1 THEN "running"
                                             ELSE IF a \in Runs THEN "ended" ELSE "completing"]
            /\ UNCHANGED closeCall
    /\ UNCHANGED <<finalizers, releasing, children, cancelled, above, busy, owner, forker,
                   into, releases, order, interrupted>>

\* Fiber.Complete publishes the exit; then the deferred calls run and the
\* goroutine ends, which is what the owner waits for.
Complete(f) ==
    /\ pc[f] = "completing"
    /\ pc' = [pc EXCEPT ![f] = "completed"]
    /\ UNCHANGED <<scopeVars, stack, busy, owner, forker, into, releases, order, closeCall,
                   interrupted>>

EndGoroutine(f) ==
    /\ pc[f] = "completed"
    /\ pc' = [pc EXCEPT ![f] = "ended"]
    /\ children' = [children EXCEPT ![owner[f]] = @ \ {f}]
    /\ cancelled' = cancelled \cup Under(f)
    /\ UNCHANGED <<status, finalizers, releasing, above, stack, busy, owner, forker, into,
                   releases, order, closeCall, interrupted>>
-----------------------------------------------------------------------------
(* Cancellation from outside *)

\* Fault: an interruption that only waits.
InterruptWithoutCancel(a, f) ==
    /\ pc[a] = "running" /\ forker[f] = a
    /\ pc' = [pc EXCEPT ![a] = "interrupting"]
    /\ busy' = [busy EXCEPT ![a] = f]
    /\ interrupted' = interrupted \cup {f}
    /\ UNCHANGED <<scopeVars, stack, owner, forker, into, releases, order, closeCall>>

\* Fiber.Interrupt cancels and then waits, uninterruptibly, for completion.
Interrupt(a, f) ==
    /\ pc[a] = "running" /\ forker[f] = a
    /\ cancelled' = cancelled \cup Under(f)
    /\ pc' = [pc EXCEPT ![a] = "interrupting"]
    /\ busy' = [busy EXCEPT ![a] = f]
    /\ interrupted' = interrupted \cup {f}
    /\ UNCHANGED <<status, finalizers, releasing, children, above, stack, owner, forker, into,
                   releases, order, closeCall>>

\* Fault: the waiting actor forgets that it no longer waits.
InterruptReturnsBusy(a) ==
    /\ pc[a] = "interrupting" /\ pc[busy[a]] \in {"completed", "ended"}
    /\ pc' = [pc EXCEPT ![a] = "running"]
    /\ UNCHANGED <<scopeVars, stack, busy, owner, forker, into, releases, order, closeCall,
                   interrupted>>

InterruptReturns(a) ==
    /\ pc[a] = "interrupting" /\ pc[busy[a]] \in {"completed", "ended"}
    /\ pc' = [pc EXCEPT ![a] = "running"]
    /\ busy' = [busy EXCEPT ![a] = Unset]
    /\ UNCHANGED <<scopeVars, stack, owner, forker, into, releases, order, closeCall,
                   interrupted>>

\* The caller of Run cancels the context it passed.
CancelRun(a) ==
    /\ a \in Runs /\ status[a] # "unborn" /\ a \notin interrupted
    /\ cancelled' = cancelled \cup Under(a)
    /\ interrupted' = interrupted \cup {a}
    /\ UNCHANGED <<status, finalizers, releasing, children, above, pc, stack, busy, owner,
                   forker, into, releases, order, closeCall>>
-----------------------------------------------------------------------------
\* What programs choose to do.
Choose(a) ==
    \/ StartRun(a) \/ CancelRun(a) \/ Settle(a)
    \/ \E s \in Lexical : OpenScoped(a, s)
    \/ \E f \in Fibers, o \in Scopes : Fork(a, f, o)
    \/ \E r \in Resources, s \in Scopes : Acquire(a, r, s)
    \/ \E f \in Fibers : Interrupt(a, f)

\* What the library does once it can.
Close(s) == CancelOwned(s) \/ AwaitChildren(s) \/ RunFinalizer(s) \/ FinishClose(s)
Proceed(a) ==
    \/ AddFinalizer(a) \/ ReleaseNow(a) \/ InterruptReturns(a)
    \/ a \in Fibers /\ (Complete(a) \/ EndGoroutine(a))

Next ==
    \/ \E a \in Actors : Choose(a) \/ Proceed(a)
    \/ \E s \in Scopes : Close(s)
    \/ \E k \in Closers : CloseRuntime(k)

\* Goroutines that can run do run, and finalizers return.  A body whose context
\* is done settles in the end, whatever it does before: the interpreter checks
\* the context before every leaf and every blocking operation selects on it, so
\* it gets no further than the leaf it is at.  Hence strong fairness.  A body
\* that is not cancelled owes nothing.
Fairness ==
    /\ \A a \in Actors : WF_vars(Proceed(a))
    /\ \A s \in Scopes : WF_vars(Close(s))
    /\ \A a \in Actors : SF_vars(stack[a] # <<>> /\ Current(a) \in cancelled /\ Settle(a))

Spec == Init /\ [][Next]_vars /\ Fairness
-----------------------------------------------------------------------------
(* Properties *)

Live(a) == pc[a] \notin {"unborn", "ended"}

TypeOK ==
    /\ status \in [Scopes -> Status]
    /\ finalizers \in [Scopes -> Seq(Resources)] /\ releasing \in [Scopes -> Seq(Resources)]
    /\ order \in [Scopes -> Seq(Resources)]
    /\ children \in [Scopes -> SUBSET Fibers] /\ cancelled \subseteq Scopes
    /\ above \in [Scopes -> SUBSET Scopes] /\ stack \in [Actors -> Seq(Scopes \ {Root})]
    /\ pc \in [Actors -> {"unborn", "running", "registering", "releasingNow", "closing",
                          "interrupting", "completing", "completed", "ended"}]
    /\ busy \in [Actors -> Resources \cup Fibers \cup {Unset}]
    /\ \A a \in Actors :
          /\ pc[a] \in {"registering", "releasingNow"} => busy[a] \in Resources
          /\ pc[a] = "interrupting" => busy[a] \in Fibers
          /\ pc[a] \in {"unborn", "running", "closing"} => busy[a] = Unset
    /\ owner \in [Fibers -> Scopes \cup {Unset}] /\ forker \in [Fibers -> Actors \cup {Unset}]
    /\ into \in [Resources -> Scopes \cup {Unset}] /\ releases \in [Resources -> Nat]
    /\ closeCall \in [Closers -> {"idle", "closing", "returned"}]
    /\ interrupted \subseteq Actors

\* No fiber is an orphan: as long as its goroutine lives, its owner counts it
\* and has not begun to release anything (fork.go 14-18, scope.go 30-33).
NoOrphan ==
    \A f \in Fibers : Live(f) =>
        /\ owner[f] \in Scopes /\ f \in children[owner[f]]
        /\ status[owner[f]] \in {"open", "cancelling", "waiting"}

\* The fiber hangs directly below the scope that awaits it, as Fork arranges.
\* With ForkDaemon, and with Scope.Fork on another scope than the current one,
\* a fiber is awaited by one scope and cancelled through another.
Structured(f) == owner[f] # Unset => above[f] = {f} \cup above[owner[f]]

\* What a scope may still use or own when its resources are being released:
\* nothing.  Every scope and every fiber opened below it, at any depth, has
\* ended (scope.go 30-33), if the fibers in between are structured.
ReleaseIsLast ==
    \A s \in Scopes, t \in Scopes :
        /\ status[s] \in {"releasing", "closed"} /\ s \in above[t] /\ t # s
        /\ \A f \in Fibers \cap above[t] : f # s /\ s \in above[f] => Structured(f)
        => /\ status[t] \in {"unborn", "closed"}
           /\ t \in Actors => ~Live(t)

\* A resource that was acquired is released exactly once: never twice, and it
\* is always somebody's duty, be it a scope that has yet to run its finalizer
\* or the actor that found the scope closing (scope.go 56-60).
ReleasedOnce == \A r \in Resources : releases[r] <= 1
Duty(r) ==
    \/ releases[r] > 0
    \/ \E s \in Scopes : status[s] = "open" /\ r \in ToSet(finalizers[s])
    \/ \E s \in Scopes : /\ status[s] \in {"cancelling", "waiting", "releasing"}
                         /\ r \in ToSet(releasing[s])
    \/ \E a \in Actors : pc[a] \in {"registering", "releasingNow"} /\ busy[a] = r
NoLeak == \A r \in Resources : into[r] # Unset => Duty(r)

\* A scope's resources are released youngest first, although finalizers are
\* registered by several actors and some are refused and run elsewhere.
ReleaseOrder ==
    \A s \in Scopes : \A i, j \in DOMAIN order[s] :
        i < j /\ releases[order[s][i]] > 0 => releases[order[s][j]] > 0

\* A fiber whose exit can be observed has nothing left: its scope is closed,
\* the resources registered there are released and the fibers it owned are
\* gone.  It is what Fiber.Interrupt and Join rely on (fiber.go 80-83).
CompletionIsFinal ==
    \A f \in Fibers : pc[f] \in {"completed", "ended"} =>
        /\ status[f] = "closed" /\ stack[f] = <<>> /\ children[f] = {}
        /\ \A i \in DOMAIN order[f] : releases[order[f][i]] = 1

\* Resources are released last, once, all of them and youngest first, and a fiber
\* that has completed has nothing left: the parts above (scope.go, spawn.go).
ReleaseDiscipline ==
    ReleaseIsLast /\ ReleasedOnce /\ NoLeak /\ ReleaseOrder /\ CompletionIsFinal

\* A daemon is not cancelled while the runtime is open, unless somebody asked
\* for a cancellation.
DaemonOutlivesRun ==
    \A f \in Fibers :
        owner[f] = Root /\ Live(f) /\ f \in cancelled => status[Root] # "open" \/ interrupted # {}

\* As long as all fibers are structured, whoever closes a scope gets to the
\* end of it, and so does whoever interrupts a fiber: cancellation reaches
\* everything that is waited for (scope.go 93-95, fiber.go 59-63).
CloseReturns ==
    \A s \in Scopes :
        status[s] = "cancelling" ~> status[s] = "closed" \/ \E f \in Fibers : ~Structured(f)
InterruptReturnsInTheEnd ==
    \A a \in Actors :
        pc[a] = "interrupting" ~> pc[a] = "running" \/ \E f \in Fibers : ~Structured(f)
=============================================================================
