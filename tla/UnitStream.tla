----------------------------- MODULE UnitStream -----------------------------
(***************************************************************************)
(* What an H.264 receiver may count on: a frame is a sequence of NAL       *)
(* units, units arrive whole and in the order in which they were encoded,  *)
(* and any of them may be missing.                                         *)
(***************************************************************************)
EXTENDS Naturals, Sequences

CONSTANT Frames                 \* the frames that can be offered

VARIABLES
    frames,                     \* the frames offered so far
    got                         \* <<frame, unit>> of the units received

(* a comes before b in the encoded stream. *)
Before(a, b) == a[1] < b[1] \/ (a[1] = b[1] /\ a[2] < b[2])

Init == frames = << >> /\ got = << >>

(* The encoder hands over one more frame. *)
Offer == /\ \E f \in Frames : frames' = Append(frames, f)
         /\ UNCHANGED got

(* A unit arrives; it belongs to a frame that was offered and lies behind  *)
(* every unit that has arrived.                                            *)
Deliver == /\ \E k \in 1..Len(frames) : \E u \in 1..Len(frames[k]) :
                 /\ \A i \in 1..Len(got) : Before(got[i], <<k, u>>)
                 /\ got' = Append(got, <<k, u>>)
           /\ UNCHANGED frames

Next == Offer \/ Deliver

Spec == Init /\ [][Next]_<<frames, got>>
=============================================================================
