---------------------------- MODULE StreamSteps ----------------------------
(***************************************************************************)
(* Streams as data and one pull of an opened stream: effect/stream.go,     *)
(* stream_transform.go, chunk.go.                                          *)
(*                                                                         *)
(* A description is a tree of sources and transforms.  Opening it copies   *)
(* the tree: the copy carries the state of one run, and a pull yields a    *)
(* step and the copy as it is afterwards.  Callbacks are fixed: Transform, *)
(* Keep, Expand, and an effect that refuses one value.                     *)
(***************************************************************************)
EXTENDS Integers, Sequences, FiniteSets, SequencesExt

CONSTANTS
    RefusedValue,   \* the value an effectful transform fails for
    FailingEval     \* the evaluation of a source's effect that fails; 0 is none

Transform(v) == v + 10
Keep(v) == v % 2 = 1
Expand(v) == IF Keep(v) THEN <<v, v>> ELSE <<>>
-----------------------------------------------------------------------------
(* Chunks *)

MapChunk(chunk) == [i \in DOMAIN chunk |-> Transform(chunk[i])]

Filter(chunk) == SelectSeq(chunk, Keep)

TakeFirst(chunk, count) ==
    IF count >= Len(chunk) THEN chunk
    ELSE IF count < 1 THEN <<>>
    ELSE SubSeq(chunk, 1, count)

DropFirst(chunk, count) ==
    IF count >= Len(chunk) THEN <<>>
    ELSE IF count < 1 THEN chunk
    ELSE SubSeq(chunk, count + 1, Len(chunk))

\* The leading values that are kept, and whether one was rejected.
TakeWhile(chunk) ==
    LET stop == SelectInSeq(chunk, LAMBDA v : ~Keep(v))
    IN  IF stop = 0 THEN [prefix |-> chunk, rejected |-> FALSE]
        ELSE [prefix |-> SubSeq(chunk, 1, stop - 1), rejected |-> TRUE]
-----------------------------------------------------------------------------
(* Descriptions *)

StreamFromChunks(chunks) == [op |-> "chunks", rest |-> chunks]
StreamOf(values) == StreamFromChunks(<<values>>)
EmptyStream == [op |-> "empty"]
StreamFail(failure) == [op |-> "fail", failure |-> failure]
StreamFromEffect == [op |-> "effect", spent |-> FALSE]
StreamRepeatEffect == [op |-> "repeat"]
StreamFromQueue(chunkSize) == [op |-> "queue", chunkSize |-> chunkSize]
StreamFromResource(id, read) == [op |-> "resource", id |-> id, of |-> read]

MapStream(of) == [op |-> "map", of |-> of]
FilterStream(of) == [op |-> "filter", of |-> of]
MapStreamEffect(of) == [op |-> "mapEffect", of |-> of]
CollectStreamEffect(of) == [op |-> "collectEffect", of |-> of]
MapStreamError(of) == [op |-> "mapError", of |-> of]
TakeStream(count, of) == [op |-> "take", budget |-> count, of |-> of]
DropStream(count, of) == [op |-> "drop", budget |-> count, of |-> of]
TakeStreamWhile(of) == [op |-> "takeWhile", ended |-> FALSE, of |-> of]
ConcatStreams(first, second) ==
    [op |-> "concat", drained |-> FALSE, first |-> first, second |-> second]
-----------------------------------------------------------------------------
(* A pull.  The world is what a run shares with its surroundings: how often   *)
(* its effects were evaluated, and the queue.                              *)

Emit(chunk, node, world) == [kind |-> "emit", chunk |-> chunk, node |-> node, world |-> world]
EndOfStream(node, world) == [kind |-> "end", chunk |-> <<>>, node |-> node, world |-> world]
FailStep(failure, node, world) == [kind |-> "fail", chunk |-> failure, node |-> node, world |-> world]
Wait(node, world) == [kind |-> "wait", chunk |-> <<>>, node |-> node, world |-> world]

PullChunks(node, world) ==
    IF node.rest = <<>> THEN EndOfStream(node, world)
    ELSE Emit(Head(node.rest), [node EXCEPT !.rest = Tail(@)], world)

\* The evaluations of a source's effect yield 1, 2, 3, ... until one fails.
Evaluate(node, world) ==
    LET now == [world EXCEPT !.evals = @ + 1]
    IN  IF now.evals = FailingEval THEN FailStep(<<"effect">>, node, now)
        ELSE Emit(<<now.evals>>, node, now)

PullEffect(node, world) ==
    IF node.spent THEN EndOfStream(node, world)
    ELSE Evaluate([node EXCEPT !.spent = TRUE], world)

\* TakeUpTo waits for a value; nothing comes back when the queue is shut down
\* and drained, or when no value was asked for.
PullQueue(node, world) ==
    LET batch == TakeFirst(world.inbox, node.chunkSize)
    IN  IF node.chunkSize < 1 \/ (world.inbox = <<>> /\ world.closed)
        THEN EndOfStream(node, world)
        ELSE IF world.inbox = <<>> THEN Wait(node, world)
        ELSE Emit(batch, node, [world EXCEPT !.inbox = DropFirst(@, node.chunkSize)])

\* The step of a transform is the step it pulled, in its own name.
Onward(node, step) == [step EXCEPT !.node = [node EXCEPT !.of = step.node]]

\* mapSteps: the end stays the end, and a chunk that became empty is not one.
Rewrite(node, step, chunk) ==
    IF step.kind = "emit" THEN [Onward(node, step) EXCEPT !.chunk = chunk]
    ELSE Onward(node, step)

\* ForEach over the chunk: one failure, and no value of the chunk goes on.
MapEffectStep(node, step) ==
    IF step.kind = "emit" /\ Contains(step.chunk, RefusedValue)
    THEN [Onward(node, step) EXCEPT !.kind = "fail", !.chunk = <<"transform">>]
    ELSE Rewrite(node, step, MapChunk(step.chunk))

CollectEffectStep(node, step) ==
    IF step.kind = "emit"
    THEN Rewrite(node, step, FlattenSeq([i \in DOMAIN step.chunk |-> Expand(step.chunk[i])]))
    ELSE Onward(node, step)

MapErrorStep(node, step) ==
    IF step.kind = "fail" THEN [Onward(node, step) EXCEPT !.chunk = Append(@, "mapped")]
    ELSE Onward(node, step)

\* FAULT: a stage that has ended pulls once more.
NeverEnded(node) == FALSE

\* Consulted before pulling.
HasEnded(node) ==
    \/ node.op = "take" /\ node.budget < 1
    \/ node.op = "takeWhile" /\ node.ended

TakeStep(node, step) ==
    LET head == TakeFirst(step.chunk, node.budget)
    IN  IF step.kind # "emit" THEN Onward(node, step)
        ELSE IF node.budget < 1 THEN [Onward(node, step) EXCEPT !.kind = "end", !.chunk = <<>>]
        ELSE Rewrite([node EXCEPT !.budget = @ - Len(head)], step, head)

DropStep(node, step) ==
    LET rest == DropFirst(step.chunk, node.budget)
    IN  IF step.kind # "emit" \/ node.budget < 1 THEN Onward(node, step)
        ELSE Rewrite([node EXCEPT !.budget = @ - (Len(step.chunk) - Len(rest))], step, rest)

TakeWhileStep(node, step) ==
    LET taken == TakeWhile(step.chunk)
    IN  IF step.kind # "emit" THEN Onward(node, step)
        ELSE IF node.ended THEN [Onward(node, step) EXCEPT !.kind = "end", !.chunk = <<>>]
        ELSE Rewrite([node EXCEPT !.ended = taken.rejected], step, taken.prefix)

RECURSIVE Pull(_, _)

PullSecond(node, world) ==
    LET step == Pull(node.second, world)
    IN  [step EXCEPT !.node = [node EXCEPT !.drained = TRUE, !.second = step.node]]

\* concatPulls: when the first stream ends, the second is pulled at once.
PullConcat(node, world) ==
    LET step == Pull(node.first, world)
    IN  IF node.drained THEN PullSecond(node, world)
        ELSE IF step.kind = "end" THEN PullSecond([node EXCEPT !.first = step.node], step.world)
        ELSE [step EXCEPT !.node = [node EXCEPT !.first = step.node]]

Pull(node, world) ==
    CASE node.op = "chunks" -> PullChunks(node, world)
      [] node.op = "empty" -> EndOfStream(node, world)
      [] node.op = "fail" -> FailStep(node.failure, node, world)
      [] node.op = "effect" -> PullEffect(node, world)
      [] node.op = "repeat" -> Evaluate(node, world)
      [] node.op = "queue" -> PullQueue(node, world)
      [] node.op = "concat" -> PullConcat(node, world)
      [] OTHER ->
            IF HasEnded(node) THEN EndOfStream(node, world)
            ELSE LET step == Pull(node.of, world)
                 IN  CASE node.op = "resource" -> Onward(node, step)
                       [] node.op = "map" -> Rewrite(node, step, MapChunk(step.chunk))
                       [] node.op = "filter" -> Rewrite(node, step, Filter(step.chunk))
                       [] node.op = "mapEffect" -> MapEffectStep(node, step)
                       [] node.op = "collectEffect" -> CollectEffectStep(node, step)
                       [] node.op = "mapError" -> MapErrorStep(node, step)
                       [] node.op = "take" -> TakeStep(node, step)
                       [] node.op = "drop" -> DropStep(node, step)
                       [] node.op = "takeWhile" -> TakeWhileStep(node, step)
=============================================================================
