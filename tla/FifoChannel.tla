---------------------------- MODULE FifoChannel ----------------------------
(***************************************************************************)
(* What effect.Queue promises to whoever holds it, in the words of its     *)
(* doc comment: it is "channel-shaped".  Values come out in the order they *)
(* went in, none is invented or repeated, and after shutdown nothing goes  *)
(* in any more while the backlog can still be consumed.                    *)
(*                                                                         *)
(* `sent' is everything that ever entered, `gone' everything that ever     *)
(* left, both in order.  One step may move several values, because a batch *)
(* take is one critical section of the implementation.                     *)
(***************************************************************************)
EXTENDS Sequences, SequencesExt

VARIABLES sent, gone, shutDown

ChannelInit == sent = <<>> /\ gone = <<>> /\ shutDown = FALSE

ChannelNext ==
    /\ IsPrefix(sent, sent')
    /\ IsPrefix(gone, gone')
    /\ IsPrefix(gone', sent')
    /\ shutDown => shutDown' /\ sent' = sent

ChannelSpec == ChannelInit /\ [][ChannelNext]_<<sent, gone, shutDown>>
============================================================================
