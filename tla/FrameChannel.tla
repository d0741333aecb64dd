---------------------------- MODULE FrameChannel ----------------------------
(***************************************************************************)
(* What the video path promises of encoded frames, whatever the buffer     *)
(* holds: a bounded FIFO that may refuse a frame when full, whose single   *)
(* consumer delivers the oldest frame or discards it, never discards or    *)
(* skips a frame while it delivers one, never delivers one twice, and      *)
(* leaves none in the channel for ever.                                    *)
(***************************************************************************)
EXTENDS Naturals, Sequences

CONSTANTS Frame, Depth, NoFrame

VARIABLES
  chan,  \* frames accepted and not yet delivered or discarded
  out    \* the frame being delivered, or NoFrame

ChanInit == chan = <<>> /\ out = NoFrame

Accept ==
  /\ Len(chan) < Depth
  /\ \E f \in Frame : chan' = Append(chan, f)
  /\ UNCHANGED out

StartDelivery ==
  /\ out = NoFrame
  /\ chan # <<>>
  /\ out' = Head(chan)
  /\ UNCHANGED chan

EndDelivery ==
  /\ out # NoFrame
  /\ out = Head(chan)
  /\ chan' = Tail(chan)
  /\ out' = NoFrame

Discard ==
  /\ out = NoFrame
  /\ chan # <<>>
  /\ chan' = Tail(chan)
  /\ UNCHANGED out

ChanNext == Accept \/ StartDelivery \/ EndDelivery \/ Discard

ChanVars == <<chan, out>>

ChanSafeSpec == ChanInit /\ [][ChanNext]_ChanVars

ChanSpec ==
  /\ ChanSafeSpec
  /\ WF_ChanVars(StartDelivery \/ Discard)
  /\ WF_ChanVars(EndDelivery)
=============================================================================
