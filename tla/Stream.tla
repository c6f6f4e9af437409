------------------------------- MODULE Stream -------------------------------
(***************************************************************************)
(* Running streams: effect/stream_run.go.  A run opens a description in a  *)
(* scope of its own, pulls it to its end, and closes the scope; it may be  *)
(* cancelled between any two steps.  Two runs may share a description, or  *)
(* the queue that one of them fills and the other one reads.               *)
(*                                                                         *)
(* The queue is the bounded back-pressure queue of module Queue, reduced   *)
(* to its content and to whether it is shut down.                          *)
(***************************************************************************)
EXTENDS StreamSteps

CONSTANTS
    Plans,          \* what the two runs may be: a description and a sink each
    Broken,         \* resources whose acquisition fails
    Capacity,       \* of the queue
    MaxEvals        \* bound on the evaluations of a source's effect in a run

ASSUME CapacityAssumption == Capacity \in Nat \ {0} /\ MaxEvals \in Nat

Runs == {"first", "second"}
Sinks == {"fold", "forEach", "queue"}
NoRun == [of |-> EmptyStream, sink |-> "none"]

VARIABLES
    plan,       \* the two runs, chosen at the start
    pc,         \* where each run is
    node,       \* the opened description of each run, with its state
    todo,       \* the values of the chunk the sink is working on
    out,        \* the values the sink is done with
    held,       \* the resources the run's scope holds, in order of acquisition
    evals,      \* evaluations of the source's effect
    exit,       \* how the run's effect ended
    cancelled,  \* whether the run's context is
    inbox,      \* the content of the queue
    closed      \* whether it is shut down

vars == <<plan, pc, node, todo, out, held, evals, exit, cancelled, inbox, closed>>

Running == [kind |-> "running", failure |-> <<>>]
Succeeded == [kind |-> "success", failure |-> <<>>]
FailedWith(failure) == [kind |-> "failure", failure |-> failure]
WasInterrupted == [kind |-> "interrupt", failure |-> <<>>]

World(r) == [evals |-> evals[r], inbox |-> inbox, closed |-> closed]

\* The resources of a description, in the order in which it is opened.
RECURSIVE ResourcesOf(_)
ResourcesOf(d) ==
    CASE d.op = "resource" -> <<d.id>> \o ResourcesOf(d.of)
      [] d.op = "concat" -> ResourcesOf(d.first) \o ResourcesOf(d.second)
      [] d.op \in {"chunks", "empty", "fail", "effect", "repeat", "queue"} -> <<>>
      [] OTHER -> ResourcesOf(d.of)

\* FAULT: only what a pull fails with is mapped, not what opening fails with.
PlainOpenFailure(d, id) == <<"acquire">>

\* What the failed acquisition of a resource has become on its way out.
RECURSIVE OpenFailure(_, _)
OpenFailure(d, id) ==
    CASE d.op = "mapError" -> Append(OpenFailure(d.of, id), "mapped")
      [] d.op = "resource" /\ d.id = id -> <<"acquire">>
      [] d.op = "concat" ->
            IF Contains(ResourcesOf(d.first), id) THEN OpenFailure(d.first, id)
            ELSE OpenFailure(d.second, id)
      [] OTHER -> OpenFailure(d.of, id)
-----------------------------------------------------------------------------
Init ==
    /\ plan \in Plans
    /\ pc = [r \in Runs |-> "idle"]
    /\ node = [r \in Runs |-> EmptyStream]
    /\ todo = [r \in Runs |-> <<>>]
    /\ out = [r \in Runs |-> <<>>]
    /\ held = [r \in Runs |-> <<>>]
    /\ evals = [r \in Runs |-> 0]
    /\ exit = [r \in Runs |-> Running]
    /\ cancelled = [r \in Runs |-> FALSE]
    /\ inbox = <<>>
    /\ closed = FALSE

\* The effect of the run is over; its scope is closed next.
Settle(r, how) ==
    /\ pc' = [pc EXCEPT ![r] = "closing"]
    /\ exit' = [exit EXCEPT ![r] = how]

Start(r) ==
    /\ pc[r] = "idle" /\ plan[r] # NoRun
    /\ pc' = [pc EXCEPT ![r] = "opening"]
    /\ UNCHANGED <<plan, node, todo, out, held, evals, exit, cancelled, inbox, closed>>

\* Opening acquires the sources one after the other.
Acquire(r) ==
    LET ids == ResourcesOf(plan[r].of)
        id == ids[Len(held[r]) + 1]
    IN  /\ pc[r] = "opening" /\ Len(held[r]) < Len(ids)
        /\ \/ /\ id \notin Broken
              /\ held' = [held EXCEPT ![r] = Append(@, id)]
              /\ UNCHANGED <<pc, exit>>
           \/ /\ id \in Broken
              /\ Settle(r, FailedWith(OpenFailure(plan[r].of, id)))
              /\ UNCHANGED held
        /\ UNCHANGED <<plan, node, todo, out, evals, cancelled, inbox, closed>>

\* FAULT: the state of a stage belongs to the description, not to the run.
SharedCopy(r) ==
    IF \E q \in Runs \ {r} : plan[q] = plan[r] /\ pc[q] \notin {"idle", "opening"}
    THEN node[CHOOSE q \in Runs : q # r]
    ELSE plan[r].of

\* What a run pulls: created per run.
OpenedCopy(r) == plan[r].of

Opened(r) ==
    /\ pc[r] = "opening" /\ Len(held[r]) = Len(ResourcesOf(plan[r].of))
    /\ node' = [node EXCEPT ![r] = OpenedCopy(r)]
    /\ pc' = [pc EXCEPT ![r] = "pulling"]
    /\ UNCHANGED <<plan, todo, out, held, evals, exit, cancelled, inbox, closed>>

\* One step of foldSteps or visitSteps.  A pull that has to wait is not taken.
Advance(r, step) ==
    CASE step.kind = "end" ->
            Settle(r, Succeeded) /\ UNCHANGED <<todo, out>>
      [] step.kind = "fail" ->
            Settle(r, FailedWith(step.chunk)) /\ UNCHANGED <<todo, out>>
      [] plan[r].sink = "fold" ->
            out' = [out EXCEPT ![r] = @ \o step.chunk] /\ UNCHANGED <<pc, todo, exit>>
      [] OTHER ->
            /\ todo' = [todo EXCEPT ![r] = step.chunk]
            /\ pc' = [pc EXCEPT ![r] = "visiting"]
            /\ UNCHANGED <<out, exit>>

PullNext(r) ==
    LET step == Pull(node[r], World(r))
    IN  /\ pc[r] = "pulling" /\ step.kind # "wait" /\ step.world.evals <= MaxEvals
        /\ node' = [node EXCEPT ![r] = step.node]
        /\ evals' = [evals EXCEPT ![r] = step.world.evals]
        /\ inbox' = step.world.inbox
        /\ Advance(r, step)
        /\ UNCHANGED <<plan, held, cancelled, closed>>

\* The values of the chunk in order: an effect of the program that refuses one
\* value, or an offer, which waits for room.
Visit(r) ==
    /\ pc[r] = "visiting" /\ todo[r] # <<>>
    /\ \/ /\ plan[r].sink = "forEach" /\ Head(todo[r]) = RefusedValue
          /\ Settle(r, FailedWith(<<"visit">>))
          /\ UNCHANGED <<todo, out, inbox>>
       \/ /\ plan[r].sink = "forEach" /\ Head(todo[r]) # RefusedValue
          /\ out' = [out EXCEPT ![r] = Append(@, Head(todo[r]))]
          /\ todo' = [todo EXCEPT ![r] = Tail(@)]
          /\ UNCHANGED <<pc, exit, inbox>>
       \/ /\ plan[r].sink = "queue" /\ Len(inbox) < Capacity
          /\ inbox' = Append(inbox, Head(todo[r]))
          /\ out' = [out EXCEPT ![r] = Append(@, Head(todo[r]))]
          /\ todo' = [todo EXCEPT ![r] = Tail(@)]
          /\ UNCHANGED <<pc, exit>>
    /\ UNCHANGED <<plan, node, held, evals, cancelled, closed>>

Visited(r) ==
    /\ pc[r] = "visiting" /\ todo[r] = <<>>
    /\ pc' = [pc EXCEPT ![r] = "pulling"]
    /\ UNCHANGED <<plan, node, todo, out, held, evals, exit, cancelled, inbox, closed>>

Cancel(r) ==
    /\ plan[r] # NoRun /\ pc[r] # "done" /\ ~cancelled[r]
    /\ cancelled' = [cancelled EXCEPT ![r] = TRUE]
    /\ UNCHANGED <<plan, pc, node, todo, out, held, evals, exit, inbox, closed>>

\* FAULT: an offer that waits for room does not look at its context.
NotWhileOffering(r) ==
    /\ cancelled[r] /\ pc[r] \in {"opening", "pulling"}
    /\ Settle(r, WasInterrupted)
    /\ UNCHANGED <<plan, node, todo, out, held, evals, cancelled, inbox, closed>>

\* The interpreter, and whatever the run waits for, notice the cancellation.
Interrupted(r) ==
    /\ cancelled[r] /\ pc[r] \in {"opening", "pulling", "visiting"}
    /\ Settle(r, WasInterrupted)
    /\ UNCHANGED <<plan, node, todo, out, held, evals, cancelled, inbox, closed>>

\* Closing the scope releases in the reverse order.
Release(r) ==
    /\ pc[r] = "closing" /\ held[r] # <<>>
    /\ held' = [held EXCEPT ![r] = Front(@)]
    /\ UNCHANGED <<plan, pc, node, todo, out, evals, exit, cancelled, inbox, closed>>

\* FAULT: the queue is shut down as soon as the stream has ended.
ShutdownFirst(r) ==
    /\ pc[r] = "closing" /\ (closed \/ held[r] = <<>> \/ plan[r].sink = "queue")
    /\ closed' = (closed \/ plan[r].sink = "queue")
    /\ pc' = [pc EXCEPT ![r] = IF held[r] = <<>> THEN "done" ELSE "closing"]
    /\ UNCHANGED <<plan, node, todo, out, held, evals, exit, cancelled, inbox>>

\* FAULT: the queue is shut down when the stream went well.
ShutdownOnSuccess(r) ==
    /\ pc[r] = "closing" /\ held[r] = <<>>
    /\ closed' = (closed \/ (plan[r].sink = "queue" /\ exit[r] = Succeeded))
    /\ pc' = [pc EXCEPT ![r] = "done"]
    /\ UNCHANGED <<plan, node, todo, out, held, evals, exit, cancelled, inbox>>

\* Ensuring around the whole run: the queue is shut down however it ended.
Finish(r) ==
    /\ pc[r] = "closing" /\ held[r] = <<>>
    /\ closed' = (closed \/ plan[r].sink = "queue")
    /\ pc' = [pc EXCEPT ![r] = "done"]
    /\ UNCHANGED <<plan, node, todo, out, held, evals, exit, cancelled, inbox>>

Step(r) ==
    \/ Start(r) \/ Acquire(r) \/ Opened(r) \/ PullNext(r) \/ Visit(r) \/ Visited(r)
    \/ Interrupted(r) \/ Release(r) \/ Finish(r)

Next == \E r \in Runs : Step(r) \/ Cancel(r)

\* A run is a goroutine: it goes on unless it waits for the queue.
Fairness == \A r \in Runs : WF_vars(Step(r))

Spec == Init /\ [][Next]_vars /\ Fairness
-----------------------------------------------------------------------------
(* Properties *)

Run(r) == plan[r] # NoRun

\* What a description means, value by value, once its effects were evaluated and
\* the queue was read as far as they were; chunks do not occur in it.  An end is
\* the stream's own, a failure, or not known yet.
Taken == SubSeq(out["first"], 1, Len(out["first"]) - Len(inbox))

Meant(vals, end) == [vals |-> vals, end |-> end]

Evaluated(n) ==
    IF FailingEval # 0 /\ FailingEval <= n THEN Meant([i \in 1..FailingEval - 1 |-> i], "failure")
    ELSE Meant([i \in 1..n |-> i], "open")

\* The values up to the first that is not wanted, and what ends them there.
CutAt(meant, at, end) ==
    IF at = 0 THEN meant ELSE Meant(SubSeq(meant.vals, 1, at - 1), end)

RECURSIVE Meaning(_, _)
Meaning(d, n) ==
    CASE d.op = "chunks" -> Meant(FlattenSeq(d.rest), "end")
      [] d.op = "empty" -> Meant(<<>>, "end")
      [] d.op = "fail" -> Meant(<<>>, "failure")
      [] d.op = "effect" ->
            IF Evaluated(n).end = "failure" THEN Evaluated(n)
            ELSE Meant(Evaluated(n).vals, IF n = 0 THEN "open" ELSE "end")
      [] d.op = "repeat" -> Evaluated(n)
      [] d.op = "queue" -> Meant(Taken, IF closed /\ inbox = <<>> THEN "end" ELSE "open")
      [] d.op = "concat" ->
            LET first == Meaning(d.first, n)
                second == Meaning(d.second, n)
            IN  IF first.end = "end" THEN Meant(first.vals \o second.vals, second.end) ELSE first
      [] OTHER ->
            LET m == Meaning(d.of, n)
            IN  CASE d.op \in {"resource", "mapError"} -> m
                  [] d.op = "map" -> Meant(MapChunk(m.vals), m.end)
                  [] d.op = "filter" -> Meant(SelectSeq(m.vals, Keep), m.end)
                  [] d.op = "mapEffect" ->
                        LET sound == CutAt(m, SelectInSeq(m.vals, LAMBDA v : v = RefusedValue), "failure")
                        IN  Meant(MapChunk(sound.vals), sound.end)
                  [] d.op = "collectEffect" ->
                        Meant(FlattenSeq([i \in DOMAIN m.vals |-> Expand(m.vals[i])]), m.end)
                  [] d.op = "take" ->
                        IF Len(m.vals) < d.budget THEN m
                        ELSE Meant(SubSeq(m.vals, 1, d.budget), "end")
                  [] d.op = "drop" -> Meant(SubSeq(m.vals, d.budget + 1, Len(m.vals)), m.end)
                  [] d.op = "takeWhile" ->
                        CutAt(m, SelectInSeq(m.vals, LAMBDA v : ~Keep(v)), "end")

MeaningOf(r) == Meaning(plan[r].of, evals[r])

\* Once what was produced settles what the stream is, no pull asks its source
\* for more: a taken prefix evaluates no effect again and waits for no queue.
AsksForNoMore ==
    \A r \in Runs : pc[r] = "pulling" /\ MeaningOf(r).end = "end" =>
        LET step == Pull(node[r], World(r))
        IN  step.kind # "wait" /\ step.world.evals = evals[r]

\* What a description means chunk by chunk, which is how its values are worked on:
\* an effectful transform that refuses one value of a chunk yields none of that
\* chunk, also if only the values before it are wanted further up.  What is read from
\* a queue may be cut anywhere, into chunks no longer than was asked for.
Chunked(chunks, end, failure) == [chunks |-> chunks, end |-> end, failure |-> failure]
Closed(chunks) == Chunked(chunks, "end", <<>>)
Broke(chunks, failure) == Chunked(chunks, "failure", failure)

Values(chunks) == FlattenSeq(chunks)
Before(chunks, i) == Values(SubSeq(chunks, 1, i - 1))
EachChunk(m, Op(_)) == [m EXCEPT !.chunks = [i \in DOMAIN @ |-> Op(@[i])]]

\* The ways to cut values into chunks of at most so many.
RECURSIVE Chunkings(_, _)
Chunkings(vals, most) ==
    IF vals = <<>> THEN {<<>>}
    ELSE UNION {{<<SubSeq(vals, 1, k)>> \o rest : rest \in Chunkings(SubSeq(vals, k + 1, Len(vals)), most)} :
                   k \in {j \in 1..most : j <= Len(vals)}}

\* The first chunk for which something holds, or the number of no chunk.
FirstChunk(m, Test(_)) == SelectInSeq([i \in DOMAIN m.chunks |-> i], Test)

StagedChunks(d, m) ==
    LET refused == FirstChunk(m, LAMBDA i : RefusedValue \in ToSet(m.chunks[i]))
        full == FirstChunk(m, LAMBDA i : Len(Before(m.chunks, i + 1)) >= d.budget)
        odd == FirstChunk(m, LAMBDA i : \E v \in ToSet(m.chunks[i]) : ~Keep(v))
        Kept(chunk) == SubSeq(chunk, 1, SelectInSeq(chunk, LAMBDA v : ~Keep(v)) - 1)
    IN  CASE d.op = "resource" -> m
          [] d.op = "mapError" -> IF m.end = "failure" THEN [m EXCEPT !.failure = Append(@, "mapped")] ELSE m
          [] d.op = "map" -> EachChunk(m, MapChunk)
          [] d.op = "filter" -> EachChunk(m, Filter)
          [] d.op = "mapEffect" ->
                IF refused = 0 THEN EachChunk(m, MapChunk)
                ELSE EachChunk(Broke(SubSeq(m.chunks, 1, refused - 1), <<"transform">>), MapChunk)
          [] d.op = "collectEffect" ->
                EachChunk(m, LAMBDA chunk : FlattenSeq([i \in DOMAIN chunk |-> Expand(chunk[i])]))
          [] d.op = "take" ->
                IF d.budget = 0 THEN Closed(<<>>)
                ELSE IF full = 0 THEN m
                ELSE Closed(<<SubSeq(Values(m.chunks), 1, d.budget)>>)
          [] d.op = "drop" ->
                [m EXCEPT !.chunks =
                    [i \in DOMAIN @ |-> DropFirst(@[i], d.budget - Len(Before(@, i)))]]
          [] d.op = "takeWhile" ->
                IF odd = 0 THEN m
                ELSE Closed(Append(SubSeq(m.chunks, 1, odd - 1), Kept(m.chunks[odd])))

RECURSIVE InChunks(_, _)
InChunks(d, n) ==
    CASE d.op = "chunks" -> {Closed(d.rest)}
      [] d.op = "empty" -> {Closed(<<>>)}
      [] d.op = "fail" -> {Broke(<<>>, d.failure)}
      [] d.op \in {"effect", "repeat"} ->
            LET m == Meaning(d, n)
            IN  {Chunked([i \in DOMAIN m.vals |-> <<m.vals[i]>>], m.end,
                         IF m.end = "failure" THEN <<"effect">> ELSE <<>>)}
      [] d.op = "queue" ->
            {Chunked(chunks, Meaning(d, n).end, <<>>) : chunks \in Chunkings(Taken, d.chunkSize)}
      [] d.op = "concat" ->
            {IF first.end = "end" THEN [second EXCEPT !.chunks = first.chunks \o @] ELSE first :
                first \in InChunks(d.first, n), second \in InChunks(d.second, n)}
      [] OTHER -> {StagedChunks(d, m) : m \in InChunks(d.of, n)}

\* What opening a description fails with, mapped by every MapStreamError above it;
\* nothing if every resource can be had.
RECURSIVE Unopened(_)
Unopened(d) ==
    CASE d.op = "resource" -> IF d.id \in Broken THEN <<"acquire">> ELSE Unopened(d.of)
      [] d.op = "concat" -> IF Unopened(d.first) # <<>> THEN Unopened(d.first) ELSE Unopened(d.second)
      [] d.op = "mapError" -> IF Unopened(d.of) = <<>> THEN <<>> ELSE Append(Unopened(d.of), "mapped")
      [] d.op \in {"chunks", "empty", "fail", "effect", "repeat", "queue"} -> <<>>
      [] OTHER -> Unopened(d.of)

\* A run is what its description says chunk by chunk, whoever runs the same
\* description meanwhile.  The sink only ever gets the values of the description, in
\* order.  A run that succeeds got all of them, the same however they were
\* chunked.  A run that fails has got all that came before the failure, and fails
\* as the description does there, or with the first value the sink refuses, or
\* got nothing because a source could not be opened.  The description fails there as
\* it is read in chunks: an effectful transform fails with the first value of a
\* chunk that it cannot transform, and what came before it in the chunk is lost.
\* Where TakeStream cuts that chunk, a value that nobody asked for decides, although
\* "taking three from an effect must not evaluate it a fourth time"
\* (docs/reference/stream.md 129-132, stream_transform.go 211-213).  (foldSteps,
\* visitSteps, the transforms and MapStreamError.)
MeansItsDescription ==
    \A r \in Runs : Run(r) =>
        /\ IsPrefix(out[r], MeaningOf(r).vals)
        /\ exit[r].kind = "success" =>
              /\ Unopened(plan[r].of) = <<>>
              /\ out[r] = MeaningOf(r).vals /\ MeaningOf(r).end = "end"
        /\ IF Unopened(plan[r].of) # <<>>
           THEN /\ out[r] = <<>>
                /\ exit[r].kind = "failure" => exit[r].failure = Unopened(plan[r].of)
           ELSE \E m \in InChunks(plan[r].of, evals[r]) :
                LET vals == Values(m.chunks)
                IN  /\ IsPrefix(out[r], vals)
                    /\ CASE exit[r].kind = "success" -> m.end = "end" /\ out[r] = vals
                         [] exit[r].kind = "failure" ->
                               \/ m.end = "failure" /\ out[r] = vals /\ exit[r] = FailedWith(m.failure)
                               \/ /\ plan[r].sink = "forEach" /\ exit[r] = FailedWith(<<"visit">>)
                                  /\ Len(out[r]) < Len(vals) /\ vals[Len(out[r]) + 1] = RefusedValue
                                  /\ RefusedValue \notin ToSet(out[r])
                         [] OTHER -> TRUE

\* Whoever reads the end from the queue may rely on it: the stream that fed it is
\* over and has released its sources, and what it offered is all there was.
EndMeansReleased ==
    closed => /\ held["first"] = <<>> /\ exit["first"] # Running
              /\ \A r \in Runs : pc[r] = "done" => held[r] = <<>>

\* A cancelled run ends, even if it waits for a value or for room.
CancelledRunEnds ==
    \A r \in Runs : (cancelled[r] /\ pc[r] # "idle") ~> (pc[r] = "done")

\* The reader of a queue learns that the stream which fed it has ended, however
\* it ended, and ends as well.
EndIsTold ==
    (plan["first"].sink = "queue" /\ pc["first"] = "done") ~> (pc["second"] = "done")
=============================================================================
