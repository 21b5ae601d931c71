---------------------------- MODULE FrameChannel ----------------------------
(***************************************************************************)
(* What the framed protocol promises: one direction of a connection is a   *)
(* channel that hands the payloads it has accepted to the reader whole, in *)
(* order and once each.  It may stop at any point (a connection can break) *)
(* but what has been handed over is always a prefix of what was accepted.  *)
(***************************************************************************)
EXTENDS Naturals, Sequences

CONSTANT Payloads

VARIABLES accepted, received

channelVars == <<accepted, received>>

ChannelInit == accepted = <<>> /\ received = <<>>

Accept(p) == accepted' = Append(accepted, p) /\ UNCHANGED received

HandOver ==
    /\ Len(received) < Len(accepted)
    /\ received' = Append(received, accepted[Len(received) + 1])
    /\ UNCHANGED accepted

ChannelSpec ==
    ChannelInit /\ [][(\E p \in Payloads : Accept(p)) \/ HandOver]_channelVars
=============================================================================
