----------------------------- MODULE MCRtpSender -----------------------------
(***************************************************************************)
(* RtpSender for TLC with payloads of five bytes, fragments of three:      *)
(* parameter sets queued as a frame of their own, whose PPS has four       *)
(* bytes; a frame of a short unit and one of two whole fragments; one with *)
(* SEI and a unit with a short last fragment; one that ends in a short     *)
(* unit behind a unit of exactly the payload size.                         *)
(***************************************************************************)
EXTENDS RtpSender

Data(n)    == [size |-> n, special |-> FALSE]
Special(n) == [size |-> n, special |-> TRUE]

MCFrames == {<<Special(6), Special(4)>>, <<Data(2), Data(6)>>,
             <<Special(3), Data(7)>>, <<Data(5), Data(3)>>, <<Special(5)>>}
=============================================================================
