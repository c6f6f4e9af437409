------------------------------ MODULE MCStream ------------------------------
(***************************************************************************)
(* Stream with every source under up to two transforms, alone, run twice,  *)
(* or feeding the queue that a second stream reads.                        *)
(***************************************************************************)
EXTENDS Stream

Pieces == StreamFromChunks(<<<<1, 2>>, <<>>, <<3>>>>)

Plain == {EmptyStream, StreamOf(<<1, 3>>), Pieces, StreamFail(<<"own">>), StreamFromEffect,
          StreamRepeatEffect, StreamFromResource("r1", Pieces)}

Transforms(S) ==
    {MapStream(s) : s \in S} \cup {FilterStream(s) : s \in S} \cup {MapStreamEffect(s) : s \in S}
      \cup {CollectStreamEffect(s) : s \in S} \cup {MapStreamError(s) : s \in S}
      \cup {TakeStream(n, s) : n \in 0..2, s \in S} \cup {DropStream(n, s) : n \in {0, 2}, s \in S}
      \cup {TakeStreamWhile(s) : s \in S}

Joined ==
    {ConcatStreams(StreamFromResource("r1", StreamOf(<<1>>)), s) :
        s \in {Pieces, StreamRepeatEffect, StreamFromResource("r2", StreamOf(<<3, 2>>))}}
      \cup {ConcatStreams(s, StreamFromResource("bad", StreamOf(<<1>>))) :
        s \in {StreamOf(<<1>>), StreamFromResource("r1", Pieces)}}
      \cup {ConcatStreams(TakeStream(1, StreamRepeatEffect), Pieces)}

Once == Plain \cup Transforms(Plain) \cup Joined \cup Transforms(Joined)
Twice == Transforms(Transforms(Plain))

Alone(d, sink) == [first |-> [of |-> d, sink |-> sink], second |-> NoRun]
Shared(d) == [r \in Runs |-> [of |-> d, sink |-> "fold"]]
Piped(d, e) == [first |-> [of |-> d, sink |-> "queue"], second |-> [of |-> e, sink |-> "fold"]]

FromQueue == {StreamFromQueue(2)}

MCPlans ==
    {Alone(d, sink) : d \in Once, sink \in {"fold", "forEach"}}
      \cup {Alone(d, "fold") : d \in Twice}
      \cup {Shared(d) : d \in Transforms({Pieces}) \cup {StreamFromEffect}}
      \cup {Piped(d, e) : d \in Plain, e \in FromQueue \cup Transforms(FromQueue)}
=============================================================================
