------------------------------ MODULE RtpSender ------------------------------
(***************************************************************************)
(* The RTP sender of the stream task: w6x_rtp_sender.c as the stream loop  *)
(* of rtp_stream_app.c uses it. One sender, one session, the RTCP receive  *)
(* task, a network that refuses or loses packets, and a receiver.          *)
(*                                                                         *)
(* A frame is a sequence of NAL units, of which the size in bytes and the  *)
(* class matter: SEI, SPS and PPS are "special". Start codes never occur   *)
(* inside a unit (the encoder's emulation prevention), so that the scan    *)
(* for them finds every border between units. A packet carries the bytes   *)
(* [from, to) of one unit; the NAL header byte, which the sender moves     *)
(* into the FU header, counts as carried by the first fragment.            *)
(***************************************************************************)
EXTENDS Naturals, Sequences

CONSTANTS
    MaxPayload,                 \* rtp_payload_max_size
    Frames,                     \* the frames the stream task may send
    SeqMod,                     \* the size of the sequence number space
    Interval,                   \* RTCP_INTERVAL, in ticks
    MaxFrames,                  \* bound: frames sent
    MaxFaults,                  \* bound: refused RTP packets
    MaxLosses                   \* bound: packets lost on the way

Unit == [size : Nat \ {0}, special : BOOLEAN]

ASSUME RtpAssumption ==
    /\ MaxPayload \in Nat /\ MaxPayload >= 4
    /\ Frames \subseteq Seq(Unit) \ {<< >>}
    /\ SeqMod \in Nat /\ Interval \in Nat
    /\ MaxFrames \in Nat /\ MaxFaults \in Nat /\ MaxLosses \in Nat
    /\ MaxLosses < SeqMod

VARIABLES
    pc,                         \* where the stream task is
    id,                         \* sender->id is RTP_SENDER_ID
    session,                    \* the session exists and names its sender
    rtcp,                       \* the RTCP receive task
    events,                     \* bits of rtcp_event
    frames,                     \* the frames passed to send_h264 so far
    unit,                       \* the unit of the last frame being sent
    idx, off,                   \* next fragment, bytes of the unit passed
    seq, packets,               \* sequence_number, packet_count
    elapsed,                    \* ticks since the last report, at most Interval
    report,                     \* packet_count of the last sender report
    faults, lost,               \* packets refused, packets lost
    next, missing,              \* receiver: sequence number expected, gaps seen
    buf,                        \* receiver: the unit being put together
    delivered,                  \* receiver: the units handed to the decoder
    marked,                     \* receiver: the last frame ended by a marker
    received,                   \* receiver: packets received
    spoiled                     \* a packet of this frame was refused or lost

setUp  == <<id, session, rtcp, events>>
place  == <<pc, frames, unit, idx, off>>
count  == <<seq, packets>>
rtcpTx == <<elapsed, report>>
world  == <<faults, lost>>
player == <<next, missing, buf, delivered, marked, received>>
vars   == <<setUp, place, count, rtcpTx, world, player, spoiled>>

-----------------------------------------------------------------------------
(* Arithmetic of send_h264 and of the fragmentation units.                 *)

(* The frame and the unit being sent, and the unit's size. *)
frame   == frames[Len(frames)]
nalSize == frame[unit].size

(* while (head < tail - 4): with at least a byte in every unit and three   *)
(* in every start code, four bytes or fewer can only be left at the last   *)
(* unit.                                                                   *)
InLoop(f, u) == u < Len(f) \/ (u = Len(f) /\ f[u].size > 4)

(* Mutant: SEI, SPS and PPS keep the marker. *)
MutMarker(f, u) == u = Len(f)

(* The marker: on the unit that reaches the end, unless it is special. *)
Marker(f, u) == u = Len(f) /\ ~f[u].special

FuMax == MaxPayload - 2

Fragmented(n)  == n >= MaxPayload
FuPackets(n)   == IF Fragmented(n) THEN (n - 1) \div FuMax + 1 ELSE 1
FuLast(n)      == IF n % FuMax # 0 THEN n % FuMax ELSE FuMax

(* Bytes of the unit in its fragment i. The first fragment skips the NAL   *)
(* header byte, takes one byte less and is counted with that byte.         *)
FuBytes(n, i) == IF ~Fragmented(n) THEN n
                 ELSE IF i = 0 THEN (FuMax - 1) + 1
                 ELSE IF i = FuPackets(n) - 1 THEN FuLast(n) ELSE FuMax

Last(n, i) == i = FuPackets(n) - 1

(* Size of the packet's payload, FU indicator and header included. *)
PayloadSize(n, i) == IF ~Fragmented(n) THEN n
                     ELSE (IF i = 0 THEN FuMax - 1 ELSE FuBytes(n, i)) + 2

(* uint16_t arithmetic on sequence numbers. *)
Inc(s) == IF s + 1 = SeqMod THEN 0 ELSE s + 1

(* How far b is ahead of a. *)
Gap(a, b) == IF b >= a THEN b - a ELSE b + SeqMod - a

(* The packet that is sent next. *)
packet ==
    [seq |-> seq, unit |-> <<Len(frames), unit>>,
     from |-> off, to |-> off + FuBytes(nalSize, idx),
     start |-> idx = 0, end |-> Last(nalSize, idx),
     marker |-> Last(nalSize, idx) /\ Marker(frame, unit)]

-----------------------------------------------------------------------------
(* The receiver, RFC 6184: not code of this repository.                    *)

Empty   == [unit |-> <<0, 0>>, upto |-> 0]
Garbage == [unit |-> <<0, 0>>, upto |-> 1]

(* Appends a fragment to what is there, without knowing where it is from. *)
Join(b, p) == IF b.unit = p.unit /\ b.upto = p.from
              THEN [unit |-> p.unit, upto |-> p.to] ELSE Garbage

(* A gap in the sequence numbers drops the unit that is being put          *)
(* together; a start drops it as well; a fragment with nothing before it   *)
(* is ignored.                                                             *)
Receive(p) ==
    LET held  == IF p.seq = next THEN buf ELSE Empty
        whole == IF p.start THEN [unit |-> p.unit, upto |-> p.to]
                 ELSE IF held = Empty THEN Empty ELSE Join(held, p)
    IN  /\ next' = Inc(p.seq)
        /\ missing' = missing + Gap(next, p.seq)
        /\ received' = received + 1
        /\ marked' = IF p.marker THEN p.unit[1] ELSE marked
        /\ buf' = IF p.end THEN Empty ELSE whole
        /\ delivered' = IF p.end /\ whole # Empty
                        THEN Append(delivered, whole) ELSE delivered

-----------------------------------------------------------------------------
(* Setting the sender up.                                                  *)

(* w6x_rtp_sender_create up to the RTCP task. Without event group, mutex   *)
(* or task the clean-up has no task to wait for, and the stream task goes  *)
(* on to create its session.                                               *)
CreateTask ==
    /\ pc = "create"
    /\ \/ pc' = "sockets" /\ rtcp' = "wait"
       \/ pc' = "session" /\ UNCHANGED rtcp
    /\ UNCHANGED <<id, session, events, frames, unit, idx, off, count, rtcpTx,
                   world, player, spoiled>>

(* The two sockets; the start event, or the abort of the clean-up. *)
CreateSockets ==
    /\ pc = "sockets"
    /\ \/ pc' = "session" /\ id' = TRUE /\ events' = events \union {"START"}
       \/ pc' = "cleanup" /\ events' = events \union {"ABORT"} /\ UNCHANGED id
    /\ UNCHANGED <<session, rtcp, frames, unit, idx, off, count, rtcpTx,
                   world, player, spoiled>>

(* The clean-up waits for the RTCP task without a time limit. *)
Cleanup ==
    /\ pc = "cleanup"
    /\ "COMPLETED" \in events
    /\ pc' = "session"
    /\ UNCHANGED <<setUp, frames, unit, idx, off, count, rtcpTx, world, player,
                   spoiled>>

(* w6x_rtp_sender_session_create refuses a sender that was not created;    *)
(* the sequence number starts anywhere.                                    *)
CreateSession ==
    /\ pc = "session"
    /\ pc' = "idle"
    /\ session' = id
    /\ \/ id /\ \E s \in 0..SeqMod - 1 : seq' = s /\ next' = s
       \/ ~id /\ UNCHANGED <<seq, next>>
    /\ UNCHANGED <<id, rtcp, events, frames, unit, idx, off, packets, rtcpTx,
                   world, missing, buf, delivered, marked, received, spoiled>>

(* Mutant: the RTCP task waits for START alone. *)
MutRtcpStart ==
    /\ rtcp = "wait"
    /\ "START" \in events
    /\ rtcp' = IF id THEN "receive" ELSE "gone"
    /\ UNCHANGED <<id, session, events, place, count, rtcpTx, world, player, spoiled>>

(* The RTCP task waits for START or ABORT. With START it receives as long  *)
(* as the sender exists; the application registers no callback for what it *)
(* receives.                                                               *)
RtcpStart ==
    /\ rtcp = "wait"
    /\ events \intersect {"START", "ABORT"} # {}
    /\ \/ "ABORT" \notin events /\ id /\ rtcp' = "receive" /\ UNCHANGED events
       \/ ("ABORT" \in events \/ ~id) /\ rtcp' = "gone"
          /\ events' = events \union {"COMPLETED"}
    /\ UNCHANGED <<id, session, place, count, rtcpTx, world, player, spoiled>>

-----------------------------------------------------------------------------
(* Sending a frame.                                                        *)

(* Mutant: the loop ends before the last unit. *)
MutGoTo(f, u) ==
    /\ idx' = 0 /\ off' = 0
    /\ \/ u < Len(f) /\ pc' = "unit" /\ unit' = u
       \/ u >= Len(f) /\ pc' = "idle" /\ UNCHANGED unit

(* Goes to unit u of frame f if the loop of send_h264 enters it. *)
GoTo(f, u) ==
    /\ idx' = 0 /\ off' = 0
    /\ \/ InLoop(f, u) /\ pc' = "unit" /\ unit' = u
       \/ ~InLoop(f, u) /\ pc' = "idle" /\ UNCHANGED unit

(* The stream task passes a frame on; without a session send_h264 returns  *)
(* RTP_ERROR_PTR, which the stream task ignores.                           *)
SendFrame ==
    /\ pc = "idle"
    /\ Len(frames) < MaxFrames
    /\ \E f \in Frames :
          /\ frames' = Append(frames, f)
          /\ \/ session /\ GoTo(f, 1)
             \/ ~session /\ UNCHANGED <<pc, unit, idx, off>>
    /\ spoiled' = FALSE
    /\ UNCHANGED <<setUp, count, rtcpTx, world, player>>

(* _w6x_rtcp_send_packet: a sender report before the packet, if one is     *)
(* due; a report that cannot be sent is tried again with the next packet.  *)
SendReport ==
    \/ elapsed = Interval /\ elapsed' = 0 /\ report' = packets
    \/ UNCHANGED rtcpTx

(* After a packet: the next fragment, or the next unit. *)
Advance ==
    \/ /\ ~Last(nalSize, idx)
       /\ idx' = idx + 1 /\ off' = off + FuBytes(nalSize, idx)
       /\ UNCHANGED <<pc, unit>>
    \/ Last(nalSize, idx) /\ GoTo(frame, unit + 1)

(* The socket accepts the packet: it is counted, and it arrives or not. *)
SendPacket ==
    /\ pc = "unit"
    /\ SendReport
    /\ Advance
    /\ seq' = Inc(seq) /\ packets' = packets + 1
    /\ \/ Receive(packet) /\ UNCHANGED <<lost, spoiled>>
       \/ /\ lost < MaxLosses /\ lost' = lost + 1
          /\ spoiled' = TRUE /\ UNCHANGED player
    /\ UNCHANGED <<setUp, frames, faults>>

(* Mutant: the result of send_packet is ignored. *)
MutGoOn ==
    /\ pc = "unit"
    /\ SendReport
    /\ faults < MaxFaults /\ faults' = faults + 1
    /\ Advance
    /\ spoiled' = TRUE
    /\ UNCHANGED <<setUp, frames, count, lost, player>>

(* Mutant: a refused packet takes a sequence number. *)
MutCountFirst ==
    /\ pc = "unit"
    /\ SendReport
    /\ faults < MaxFaults /\ faults' = faults + 1
    /\ pc' = "idle" /\ spoiled' = TRUE
    /\ seq' = Inc(seq) /\ packets' = packets + 1
    /\ UNCHANGED <<setUp, frames, unit, idx, off, lost, player>>

(* Mutant: the frame is sent again from its first unit. *)
MutRetry ==
    /\ pc = "unit"
    /\ SendReport
    /\ faults < MaxFaults /\ faults' = faults + 1
    /\ GoTo(frame, 1) /\ spoiled' = TRUE
    /\ UNCHANGED <<setUp, frames, count, lost, player>>

(* The socket refuses the packet: send_h264 returns at once, the rest of   *)
(* the frame is not sent and nothing is counted.                           *)
SendFails ==
    /\ pc = "unit"
    /\ SendReport
    /\ faults < MaxFaults /\ faults' = faults + 1
    /\ pc' = "idle" /\ spoiled' = TRUE
    /\ UNCHANGED <<setUp, frames, unit, idx, off, count, lost, player>>

(* A tick of the clock, as far as the reports can tell. *)
Tick ==
    /\ session /\ elapsed < Interval
    /\ elapsed' = elapsed + 1
    /\ UNCHANGED <<setUp, place, count, report, world, player, spoiled>>

-----------------------------------------------------------------------------
Init ==
    /\ pc = "create" /\ id = FALSE /\ session = FALSE
    /\ rtcp = "none" /\ events = {}
    /\ frames = << >> /\ unit = 1 /\ idx = 0 /\ off = 0
    /\ seq = 0 /\ packets = 0 /\ elapsed = Interval /\ report = 0
    /\ faults = 0 /\ lost = 0
    /\ next = 0 /\ missing = 0 /\ buf = Empty /\ delivered = << >>
    /\ marked = 0 /\ received = 0 /\ spoiled = FALSE

StreamTask == \/ CreateTask \/ CreateSockets \/ Cleanup \/ CreateSession
              \/ SendFrame \/ SendPacket \/ SendFails

Next == StreamTask \/ RtcpStart \/ Tick

Spec == Init /\ [][Next]_vars

(* Tasks run and the calls of the stream task return: a socket sends within *)
(* SO_SNDTIMEO (100 ms) or fails.                                          *)
FairSpec == Spec /\ WF_vars(StreamTask) /\ WF_vars(RtcpStart)

-----------------------------------------------------------------------------
TypeOK ==
    /\ pc \in {"create", "sockets", "cleanup", "session", "idle", "unit"}
    /\ id \in BOOLEAN /\ session \in BOOLEAN
    /\ rtcp \in {"none", "wait", "receive", "gone"}
    /\ events \subseteq {"START", "ABORT", "COMPLETED"}
    /\ frames \in Seq(Frames) /\ unit \in Nat \ {0}
    /\ idx \in Nat /\ off \in Nat
    /\ seq \in 0..SeqMod - 1 /\ packets \in Nat
    /\ elapsed \in 0..Interval /\ report \in Nat
    /\ faults \in 0..MaxFaults /\ lost \in 0..MaxLosses
    /\ next \in 0..SeqMod - 1 /\ missing \in Nat /\ received \in Nat
    /\ buf \in [unit : Nat \X Nat, upto : Nat]
    /\ delivered \in Seq([unit : Nat \X Nat, upto : Nat])
    /\ marked \in Nat /\ spoiled \in BOOLEAN

(* What the decoder gets is always one whole unit of one frame: a frame    *)
(* that a refused packet cuts short leaves an open fragment sequence and   *)
(* no gap in the sequence numbers, and is never completed by a later one.  *)
WholeUnits ==
    \A i \in 1..Len(delivered) :
        \E k \in 1..Len(frames) : \E u \in 1..Len(frames[k]) :
            delivered[i] = [unit |-> <<k, u>>, upto |-> frames[k][u].size]

(* Refused packets take no sequence number and are not counted: the gaps a *)
(* receiver sees are exactly what the network lost, and the packet_count   *)
(* of a sender report never claims more than was sent.                     *)
GapsAreLosses ==
    session => /\ missing + Gap(next, seq) = lost
               /\ packets = received + lost
               /\ report <= packets

(* A frame of which no packet was refused or lost arrives with all its     *)
(* units, except a last unit of four bytes or fewer.                       *)
CompleteFrames ==
    pc = "idle" /\ session /\ frames # << >> /\ ~spoiled =>
        \A u \in 1..Len(frame) :
            u < Len(frame) \/ frame[u].size > 4 =>
                \E i \in 1..Len(delivered) : delivered[i] =
                    [unit |-> <<Len(frames), u>>, upto |-> frame[u].size]

(* The marker comes with the last packet of a frame; and it comes, when    *)
(* nothing is refused or lost, with every frame that ends in a data unit   *)
(* of more than four bytes, and with no other.                             *)
MarkerEndsFrame ==
    /\ pc = "unit" => marked < Len(frames)
    /\ pc = "idle" /\ session /\ frames # << >> /\ ~spoiled =>
          LET tail == frame[Len(frame)]
          IN  marked = Len(frames) <=> tail.size > 4 /\ ~tail.special

(* Whatever the size of a unit, each of its packets fits rtp_packet and    *)
(* fu_payload and carries data, so that the loop of send_packet makes one  *)
(* packet of it, and the fragments end where the unit ends.                *)
FragmentsFit ==
    pc = "unit" => /\ PayloadSize(nalSize, idx) \in 1..MaxPayload
                   /\ off + FuBytes(nalSize, idx) <= nalSize
                   /\ Last(nalSize, idx) <=> off + FuBytes(nalSize, idx) = nalSize

(* No refused packet, failed set-up or RTCP task that never ran keeps the  *)
(* stream task from taking the next frame.                                 *)
StreamKeepsGoing == []<>(pc = "idle")

(* What of the fairness it needs: the stream task goes on, save while it   *)
(* waits for the RTCP task; the RTCP task goes on once it is told to; and  *)
(* the loop of send_h264 over the units of a frame ends.                   *)
Told == events \intersect {"START", "ABORT"} # {}
StreamGoesOn == \/ []<>(pc = "idle" \/ (pc = "cleanup" /\ "COMPLETED" \notin events))
                \/ []<><<StreamTask>>_vars
RtcpGoesOn   == []<>~(rtcp = "wait" /\ Told) \/ []<><<RtcpStart>>_vars
FramesEnd    == []<>(pc # "unit")

(* The receiver gets the unit stream of UnitStream. *)
Units == INSTANCE UnitStream
         WITH got <- [i \in 1..Len(delivered) |-> delivered[i].unit]
ImplementsUnitStream == Units!Init /\ [][Units!Next]_<<frames, delivered>>
=============================================================================
