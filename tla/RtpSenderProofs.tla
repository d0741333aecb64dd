--------------------------- MODULE RtpSenderProofs ---------------------------
(***************************************************************************)
(* What the RTP sender of RtpSender.tla guarantees for every payload size, *)
(* every set of frames and any number of refused and lost packets, as long *)
(* as fewer packets are lost than there are sequence numbers.              *)
(***************************************************************************)
EXTENDS RtpSender, SequenceTheorems, TLAPS

(***************************************************************************)
(* The arithmetic of the fragments.                                        *)
(***************************************************************************)

(* Division by the fragment size, as the two quotients of send_h264 use it. *)
LEMMA Quotients ==
    ASSUME NEW F \in Nat, F >= 2, NEW n \in Nat, n >= F + 2
    PROVE  LET k == (n - 1) \div F IN
           /\ k \in Nat /\ k >= 1
           /\ n % F \in 0..F - 1
           /\ n % F # 0 => k * F + (n % F) = n
           /\ n % F = 0 => k * F + F = n
<1> DEFINE q == n \div F
           r == n % F
           k == (n - 1) \div F
           s == (n - 1) % F
<1>1. q \in Int /\ k \in Int /\ r \in 0..F - 1 /\ s \in 0..F - 1
  OBVIOUS
<1>2. n = F * q + r /\ n - 1 = F * k + s
  OBVIOUS
<1> HIDE DEF q, r, k, s
<1>3. F * (q - k) = 1 + s - r
  BY <1>1, <1>2
<1>4. \A d \in Int : (d >= 1 => F * d >= F) /\ (d >= 2 => F * d >= 2 * F)
                     /\ (d <= -1 => F * d <= -F)
  OBVIOUS
<1>5. q - k \in Int
  BY <1>1
<1>6. r # 0 => q = k
  <2> SUFFICES ASSUME r # 0 PROVE q = k
    OBVIOUS
  <2>1. 1 + s - r < F /\ 1 + s - r > -F
    BY <1>1
  <2>2. ~(q - k >= 1) /\ ~(q - k <= -1)
    BY <2>1, <1>1, <1>3, <1>4, <1>5
  <2> QED BY <2>2, <1>1
<1>7. r = 0 => q = k + 1
  <2> SUFFICES ASSUME r = 0 PROVE q = k + 1
    OBVIOUS
  <2>1. 1 + s - r <= F /\ 1 + s - r >= 1
    BY <1>1
  <2>2. ~(q - k >= 2) /\ ~(q - k <= -1)
    BY <2>1, <1>1, <1>3, <1>4, <1>5
  <2>3. q - k # 0
    <3>1. F * 0 = 0
      OBVIOUS
    <3> QED BY <2>1, <1>3, <3>1
  <2> QED BY <2>2, <2>3, <1>1
<1>8. k >= 1
  <2> SUFFICES ASSUME k <= 0 PROVE FALSE
    BY <1>1
  <2>1. F * k <= 0
    BY <1>1
  <2> QED BY <2>1, <1>1, <1>2
<1>9. /\ k \in Nat
      /\ r # 0 => k * F + r = n
      /\ r = 0 => k * F + F = n
  <2>1. F * k = k * F /\ F * (k + 1) = k * F + F
    BY <1>1
  <2> QED BY <1>1, <1>2, <1>6, <1>7, <1>8, <2>1
<1> QED BY <1>1, <1>8, <1>9 DEF k, r

(* The place in a unit of n bytes before its fragment i. *)
PlaceInUnit(n, i, o) ==
    /\ i \in 0..FuPackets(n) - 1
    /\ o = IF Fragmented(n) THEN i * FuMax ELSE 0

(* Each fragment fits its packet, the fragments follow each other, and the *)
(* last one ends where the unit ends.                                      *)
LEMMA FragmentsCover ==
    ASSUME NEW n \in Nat \ {0}, NEW i \in Nat, NEW o \in Nat, PlaceInUnit(n, i, o)
    PROVE  /\ FuBytes(n, i) \in Nat
           /\ PayloadSize(n, i) \in 1..MaxPayload
           /\ o + FuBytes(n, i) <= n
           /\ Last(n, i) <=> o + FuBytes(n, i) = n
           /\ ~Last(n, i) => PlaceInUnit(n, i + 1, o + FuBytes(n, i))
<1>1. MaxPayload \in Nat /\ MaxPayload >= 4
  BY RtpAssumption
<1>2. CASE ~Fragmented(n)
  <2>1. i = 0 /\ o = 0 /\ FuPackets(n) = 1 /\ FuBytes(n, i) = n /\ PayloadSize(n, i) = n
    BY <1>2 DEF PlaceInUnit, FuPackets, FuBytes, PayloadSize
  <2>2. n <= MaxPayload
    BY <1>1, <1>2 DEF Fragmented
  <2> QED BY <1>1, <2>1, <2>2 DEF Last
<1>3. CASE Fragmented(n)
  <2> DEFINE F == FuMax
             k == (n - 1) \div F
  <2>1. F \in Nat /\ F >= 2 /\ n >= F + 2 /\ F = MaxPayload - 2
    BY <1>1, <1>3 DEF FuMax, Fragmented
  <2>2. /\ k \in Nat /\ k >= 1
        /\ n % F \in 0..F - 1
        /\ n % F # 0 => k * F + (n % F) = n
        /\ n % F = 0 => k * F + F = n
    BY <2>1, Quotients
  <2>3. FuPackets(n) = k + 1 /\ FuLast(n) \in 1..F /\ k * F + FuLast(n) = n
    BY <2>1, <2>2, <1>3 DEF FuPackets, FuLast
  <2>4. i \in 0..k /\ o = i * F
    BY <2>2, <2>3, <1>3 DEF PlaceInUnit
  <2>5. FuBytes(n, i) = (IF i = k THEN FuLast(n) ELSE F)
    <3>1. FuPackets(n) - 1 = k
      BY <2>2, <2>3
    <3>2. (F - 1) + 1 = F
      BY <2>1
    <3>3. FuBytes(n, i) = (IF i = 0 THEN F ELSE IF i = k THEN FuLast(n) ELSE F)
      BY <3>1, <3>2, <1>3 DEF FuBytes
    <3> QED BY <3>3, <2>2
  <2>6. Last(n, i) <=> i = k
    BY <2>2, <2>3, <2>4 DEF Last
  <2>7. PayloadSize(n, i) \in 1..MaxPayload
    <3>1. CASE i = 0
      <4>1. PayloadSize(n, i) = F - 1 + 2
        BY <3>1, <1>3 DEF PayloadSize
      <4> QED BY <4>1, <2>1, <1>1
    <3>2. CASE i # 0
      <4>1. PayloadSize(n, i) = FuBytes(n, i) + 2
        BY <3>2, <1>3 DEF PayloadSize
      <4>2. FuBytes(n, i) \in 1..F
        BY <2>5, <2>1, <2>3
      <4> QED BY <4>1, <4>2, <2>1, <1>1
    <3> QED BY <3>1, <3>2
  <2> HIDE DEF F, k
  <2>8. (i + 1) * F = i * F + F
    BY <2>1
  <2>9. CASE i = k
    <3>1. o + FuBytes(n, i) = n
      BY <2>9, <2>3, <2>4, <2>5
    <3>2. FuBytes(n, i) \in Nat /\ Last(n, i)
      BY <2>1, <2>9, <2>3, <2>5, <2>6
    <3> QED BY <3>1, <3>2, <2>7
  <2>10. CASE i < k
    <3>1. (i + 1) * F <= k * F
      <4>1. i + 1 <= k
        BY <2>10, <2>4, <2>2
      <4>2. \E d \in Nat : k = i + 1 + d
        <5>1. k - (i + 1) \in Nat
          BY <4>1, <2>2
        <5> QED BY <5>1, <2>2
      <4>3. PICK d \in Nat : k = i + 1 + d
        BY <4>2
      <4>4. k * F = (i + 1) * F + d * F
        BY <4>3, <2>1
      <4>5. d * F \in Nat /\ (i + 1) * F \in Nat /\ k * F \in Nat
        BY <2>1, <2>2
      <4> QED BY <4>4, <4>5
    <3>2. i * F + F < n
      <4>1. i * F \in Nat /\ k * F \in Nat
        BY <2>1, <2>2
      <4> QED BY <4>1, <3>1, <2>8, <2>1, <2>3
    <3>3. PlaceInUnit(n, i + 1, o + FuBytes(n, i))
      <4>1. i + 1 \in 0..FuPackets(n) - 1
        BY <2>10, <2>2, <2>3
      <4>2. o + FuBytes(n, i) = (i + 1) * F
        BY <2>10, <2>4, <2>5, <2>8
      <4> QED BY <4>1, <4>2, <1>3 DEF PlaceInUnit, F
    <3> QED BY <3>2, <3>3, <2>1, <2>4, <2>5, <2>6, <2>7, <2>10
  <2> QED BY <2>9, <2>10, <2>2, <2>4
<1> QED BY <1>2, <1>3

(* The first fragment is at the beginning of its unit. *)
LEMMA FirstPlace ==
    ASSUME NEW n \in Nat \ {0}
    PROVE  PlaceInUnit(n, 0, 0)
<1>1. MaxPayload \in Nat /\ MaxPayload >= 4
  BY RtpAssumption
<1>2. FuPackets(n) \in Nat /\ FuPackets(n) >= 1
  <2>1. CASE ~Fragmented(n)
    BY <2>1 DEF FuPackets
  <2>2. CASE Fragmented(n)
    <3>1. FuMax \in Nat /\ FuMax >= 2 /\ n >= FuMax + 2
      BY <1>1, <2>2 DEF FuMax, Fragmented
    <3>2. (n - 1) \div FuMax \in Nat
      BY <3>1, Quotients
    <3> QED BY <3>2, <2>2 DEF FuPackets
  <2> QED BY <2>1, <2>2
<1>3. 0 * FuMax = 0
  BY <1>1 DEF FuMax
<1> QED BY <1>2, <1>3 DEF PlaceInUnit

(***************************************************************************)
(* Types and control.                                                      *)
(***************************************************************************)

(* In the loop of send_h264 there is a session and a frame, and the sender *)
(* is at a fragment of one of its units; before the session exists nothing *)
(* has been sent.                                                          *)
Control ==
    /\ pc = "unit" => /\ session /\ frames # << >>
                      /\ unit \in 1..Len(frame) /\ InLoop(frame, unit)
                      /\ PlaceInUnit(nalSize, idx, off)
    /\ pc \notin {"idle", "unit"} =>
          /\ ~session /\ frames = << >>
          /\ lost = 0 /\ received = 0 /\ packets = 0 /\ report = 0 /\ missing = 0

LEMMA Constants ==
    /\ MaxPayload \in Nat /\ SeqMod \in Nat /\ SeqMod > MaxLosses
    /\ Interval \in Nat /\ MaxLosses \in Nat /\ MaxFaults \in Nat
    /\ \A f \in Frames : f \in Seq(Unit) /\ Len(f) \in Nat \ {0}
<1>1. \A f \in Frames : f \in Seq(Unit) /\ f # << >>
  BY RtpAssumption
<1>2. \A f \in Frames : Len(f) \in Nat \ {0}
  BY <1>1, EmptySeq, LenProperties
<1> QED BY <1>1, <1>2, RtpAssumption

(* The last frame and its units. *)
LEMMA TheFrame ==
    ASSUME TypeOK, frames # << >>
    PROVE  /\ Len(frames) \in Nat \ {0} /\ frame \in Frames
           /\ frame \in Seq(Unit) /\ Len(frame) \in Nat \ {0}
           /\ \A u \in 1..Len(frame) : /\ frame[u] \in Unit
                                       /\ frame[u].size \in Nat \ {0}
                                       /\ frame[u].special \in BOOLEAN
<1>1. frames \in Seq(Frames) /\ Len(frames) \in Nat \ {0}
  BY EmptySeq, LenProperties DEF TypeOK
<1>2. frame \in Frames
  BY <1>1, ElementOfSeq DEF frame
<1>3. frame \in Seq(Unit) /\ Len(frame) \in Nat \ {0}
  BY <1>2, Constants
<1>4. \A u \in 1..Len(frame) : frame[u] \in Unit
  BY <1>3, ElementOfSeq
<1> QED BY <1>1, <1>2, <1>3, <1>4 DEF Unit

(* The packet that is sent next. *)
LEMMA ThePacket ==
    ASSUME TypeOK, Control, pc = "unit"
    PROVE  /\ nalSize \in Nat \ {0}
           /\ FuBytes(nalSize, idx) \in Nat
           /\ PayloadSize(nalSize, idx) \in 1..MaxPayload
           /\ packet.seq = seq /\ packet.unit = <<Len(frames), unit>>
           /\ packet.from = off /\ packet.to = off + FuBytes(nalSize, idx)
           /\ packet.to \in Nat /\ packet.to <= nalSize
           /\ packet.start <=> idx = 0
           /\ packet.end <=> Last(nalSize, idx)
           /\ packet.end <=> packet.to = nalSize
           /\ packet.marker <=> Last(nalSize, idx) /\ Marker(frame, unit)
           /\ ~packet.end => PlaceInUnit(nalSize, idx + 1, packet.to)
           /\ idx = 0 => off = 0
<1>1. frames # << >> /\ unit \in 1..Len(frame) /\ PlaceInUnit(nalSize, idx, off)
  BY DEF Control
<1>2. nalSize \in Nat \ {0}
  BY <1>1, TheFrame DEF nalSize
<1>3. idx \in Nat /\ off \in Nat
  BY DEF TypeOK
<1>4. /\ FuBytes(nalSize, idx) \in Nat
      /\ PayloadSize(nalSize, idx) \in 1..MaxPayload
      /\ off + FuBytes(nalSize, idx) <= nalSize
      /\ Last(nalSize, idx) <=> off + FuBytes(nalSize, idx) = nalSize
      /\ ~Last(nalSize, idx) => PlaceInUnit(nalSize, idx + 1, off + FuBytes(nalSize, idx))
  BY <1>1, <1>2, <1>3, FragmentsCover
<1>5. /\ packet.seq = seq /\ packet.unit = <<Len(frames), unit>>
      /\ packet.from = off /\ packet.to = off + FuBytes(nalSize, idx)
      /\ packet.start <=> idx = 0
      /\ packet.end <=> Last(nalSize, idx)
      /\ packet.marker <=> Last(nalSize, idx) /\ Marker(frame, unit)
  BY DEF packet
<1>6. idx = 0 => off = 0
  <2>1. 0 * FuMax = 0
    BY Constants DEF FuMax
  <2> QED BY <1>1, <2>1 DEF PlaceInUnit
<1> QED BY <1>2, <1>3, <1>4, <1>5, <1>6

LEMMA Numbers ==
    ASSUME NEW a \in 0..SeqMod - 1, NEW b \in 0..SeqMod - 1
    PROVE  /\ Inc(a) \in 0..SeqMod - 1
           /\ Gap(a, b) \in 0..SeqMod - 1
           /\ Gap(a, b) = 0 <=> a = b
           /\ Gap(a, b) + 1 < SeqMod => Gap(a, Inc(b)) = Gap(a, b) + 1
BY Constants DEF Inc, Gap

(* Where GoTo goes. *)
LEMMA WhereTo ==
    ASSUME NEW f \in Seq(Unit), NEW u \in Nat \ {0}, GoTo(f, u), unit \in Nat \ {0}
    PROVE  /\ idx' = 0 /\ off' = 0 /\ pc' \in {"idle", "unit"} /\ unit' \in Nat \ {0}
           /\ pc' = "unit" => unit' = u /\ u \in 1..Len(f) /\ InLoop(f, u)
           /\ pc' = "idle" => ~InLoop(f, u)
<1>1. Len(f) \in Nat
  BY LenProperties
<1>2. InLoop(f, u) => u \in 1..Len(f)
  BY <1>1 DEF InLoop
<1> QED BY <1>2 DEF GoTo

LEMMA Receiving ==
    ASSUME TypeOK, Control, pc = "unit", Receive(packet)
    PROVE  /\ next' \in 0..SeqMod - 1 /\ missing' \in Nat /\ received' \in Nat
           /\ buf' \in [unit : Nat \X Nat, upto : Nat]
           /\ delivered' \in Seq([unit : Nat \X Nat, upto : Nat])
           /\ marked' \in Nat
<1> DEFINE B == [unit : Nat \X Nat, upto : Nat]
           p == packet
           held  == IF p.seq = next THEN buf ELSE Empty
           whole == IF p.start THEN [unit |-> p.unit, upto |-> p.to]
                    ELSE IF held = Empty THEN Empty ELSE Join(held, p)
<1>1. p.seq \in 0..SeqMod - 1 /\ p.to \in Nat /\ p.unit \in Nat \X Nat /\ p.unit[1] \in Nat
  <2>1. Len(frames) \in Nat /\ unit \in Nat /\ seq \in 0..SeqMod - 1
    BY LenProperties DEF TypeOK
  <2>2. packet.seq = seq /\ packet.unit = <<Len(frames), unit>> /\ packet.to \in Nat
    BY ThePacket
  <2>3. packet.unit \in Nat \X Nat /\ packet.unit[1] \in Nat
    BY <2>1, <2>2
  <2> QED BY <2>1, <2>2, <2>3
<1>2. Empty \in B /\ Garbage \in B /\ buf \in B /\ delivered \in Seq(B)
      /\ next \in 0..SeqMod - 1 /\ missing \in Nat /\ received \in Nat /\ marked \in Nat
  BY DEF Empty, Garbage, TypeOK
<1>3. held \in B
  BY <1>2
<1>4. whole \in B
  <2>1. [unit |-> p.unit, upto |-> p.to] \in B
    BY <1>1
  <2>2. Join(held, p) \in B
    BY <1>2, <2>1 DEF Join
  <2> QED BY <1>2, <2>1, <2>2
<1>5. /\ next' = Inc(p.seq) /\ missing' = missing + Gap(next, p.seq)
      /\ received' = received + 1
      /\ marked' = IF p.marker THEN p.unit[1] ELSE marked
      /\ buf' = IF p.end THEN Empty ELSE whole
      /\ delivered' = IF p.end /\ whole # Empty THEN Append(delivered, whole) ELSE delivered
  BY DEF Receive
<1>6. Append(delivered, whole) \in Seq(B)
  BY <1>2, <1>4, AppendProperties
<1> HIDE DEF whole, held, p
<1>7. Inc(p.seq) \in 0..SeqMod - 1 /\ Gap(next, p.seq) \in Nat
  <2>1. Gap(next, p.seq) \in 0..SeqMod - 1
    BY <1>1, <1>2, Numbers
  <2> QED BY <1>1, <2>1, Numbers
<1>8. buf' \in B
  BY <1>2, <1>4, <1>5
<1>9. delivered' \in Seq(B)
  BY <1>2, <1>5, <1>6
<1>10. next' \in 0..SeqMod - 1
  BY <1>5, <1>7
<1>11. missing' \in Nat /\ received' \in Nat
  <2>1. received' \in Nat
    BY <1>2, <1>5
  <2>2. missing \in Nat /\ Gap(next, p.seq) \in Nat /\ missing' = missing + Gap(next, p.seq)
    BY <1>2, <1>5, <1>7
  <2>3. \A a, b \in Nat : a + b \in Nat
    OBVIOUS
  <2> HIDE <1>1, <1>5
  <2> QED BY <2>1, <2>2, <2>3
<1>12. marked' \in Nat
  BY <1>1, <1>2, <1>5
<1> QED BY <1>8, <1>9, <1>10, <1>11, <1>12

(* After a packet: the next fragment of the unit, or the unit behind it. *)
LEMMA Advancing ==
    ASSUME TypeOK, Control, pc = "unit", Advance
    PROVE  /\ pc' \in {"idle", "unit"} /\ unit' \in Nat \ {0}
           /\ idx' \in Nat /\ off' \in Nat
           /\ ~packet.end => /\ pc' = "unit" /\ unit' = unit
                             /\ idx' = idx + 1 /\ off' = packet.to
           /\ packet.end => /\ idx' = 0 /\ off' = 0
                            /\ pc' = "unit" => /\ unit' = unit + 1
                                               /\ unit + 1 \in 1..Len(frame)
                                               /\ InLoop(frame, unit + 1)
                            /\ pc' = "idle" => ~InLoop(frame, unit + 1)
<1>1. idx \in Nat /\ unit \in Nat \ {0}
  BY DEF TypeOK
<1>2. /\ packet.to = off + FuBytes(nalSize, idx) /\ packet.to \in Nat
      /\ packet.end <=> Last(nalSize, idx)
  BY ThePacket
<1>3. CASE ~packet.end
  BY <1>1, <1>2, <1>3 DEF Advance
<1>4. CASE packet.end
  <2>1. GoTo(frame, unit + 1)
    BY <1>2, <1>4 DEF Advance
  <2>2. frame \in Seq(Unit)
    BY TheFrame DEF Control
  <2>3. unit + 1 \in Nat \ {0}
    BY <1>1
  <2> QED BY <1>1, <1>4, <2>1, <2>2, <2>3, WhereTo
<1> QED BY <1>3, <1>4

LEMMA TypeStep == TypeOK /\ Control /\ [Next]_vars => TypeOK'
<1> SUFFICES ASSUME TypeOK, Control, [Next]_vars PROVE TypeOK'
  OBVIOUS
<1> USE Constants
<1>1. CASE CreateTask
  BY <1>1 DEF CreateTask, TypeOK, count, rtcpTx, world, player
<1>2. CASE CreateSockets
  BY <1>2 DEF CreateSockets, TypeOK, count, rtcpTx, world, player
<1>3. CASE Cleanup
  BY <1>3 DEF Cleanup, TypeOK, setUp, count, rtcpTx, world, player
<1>4. CASE CreateSession
  BY <1>4 DEF CreateSession, TypeOK, rtcpTx, world
<1>5. CASE SendFrame
  <2>1. PICK f \in Frames : /\ frames' = Append(frames, f)
                           /\ \/ session /\ GoTo(f, 1)
                              \/ ~session /\ UNCHANGED <<pc, unit, idx, off>>
    BY <1>5 DEF SendFrame
  <2>2. frames' \in Seq(Frames)
    BY <2>1, AppendProperties DEF TypeOK
  <2>3. /\ pc' \in {"create", "sockets", "cleanup", "session", "idle", "unit"}
        /\ unit' \in Nat \ {0} /\ idx' \in Nat /\ off' \in Nat
    <3>1. CASE session /\ GoTo(f, 1)
      <4>1. f \in Seq(Unit) /\ unit \in Nat \ {0}
        BY DEF TypeOK
      <4> QED BY <3>1, <4>1, WhereTo
    <3>2. CASE ~session /\ UNCHANGED <<pc, unit, idx, off>>
      BY <3>2 DEF TypeOK
    <3> QED BY <2>1, <3>1, <3>2
  <2>4. UNCHANGED <<setUp, count, rtcpTx, world, player>> /\ spoiled' = FALSE
    BY <1>5 DEF SendFrame
  <2> QED BY <2>2, <2>3, <2>4 DEF TypeOK, setUp, count, rtcpTx, world, player
<1>6. CASE SendPacket
  <2>1. pc = "unit" /\ SendReport /\ Advance /\ UNCHANGED <<setUp, frames, faults>>
        /\ seq' = Inc(seq) /\ packets' = packets + 1
    BY <1>6 DEF SendPacket
  <2>2. /\ pc' \in {"idle", "unit"} /\ unit' \in Nat \ {0}
        /\ idx' \in Nat /\ off' \in Nat
    BY <2>1, Advancing
  <2>3. elapsed' \in 0..Interval /\ report' \in Nat
    BY <2>1 DEF SendReport, TypeOK, rtcpTx
  <2>4. seq' \in 0..SeqMod - 1 /\ packets' \in Nat
    BY <2>1, Numbers DEF TypeOK
  <2>5. /\ next' \in 0..SeqMod - 1 /\ missing' \in Nat /\ received' \in Nat
        /\ buf' \in [unit : Nat \X Nat, upto : Nat]
        /\ delivered' \in Seq([unit : Nat \X Nat, upto : Nat])
        /\ marked' \in Nat /\ spoiled' \in BOOLEAN /\ lost' \in 0..MaxLosses
    <3>1. CASE Receive(packet) /\ UNCHANGED <<lost, spoiled>>
      BY <2>1, <3>1, Receiving DEF TypeOK
    <3>2. CASE lost < MaxLosses /\ lost' = lost + 1 /\ spoiled' = TRUE /\ UNCHANGED player
      BY <3>2 DEF TypeOK, player
    <3> QED BY <1>6, <3>1, <3>2 DEF SendPacket
  <2> QED BY <2>1, <2>2, <2>3, <2>4, <2>5 DEF TypeOK, setUp
<1>7. CASE SendFails
  <2>1. elapsed' \in 0..Interval /\ report' \in Nat
    BY <1>7 DEF SendFails, SendReport, TypeOK, rtcpTx
  <2>2. faults' \in 0..MaxFaults
    BY <1>7 DEF SendFails, TypeOK
  <2>3. pc' = "idle" /\ spoiled' = TRUE
        /\ UNCHANGED <<setUp, frames, unit, idx, off, count, lost, player>>
    BY <1>7 DEF SendFails
  <2> QED BY <2>1, <2>2, <2>3 DEF TypeOK, setUp, count, player
<1>8. CASE RtcpStart
  BY <1>8 DEF RtcpStart, TypeOK, place, count, rtcpTx, world, player
<1>9. CASE Tick
  BY <1>9 DEF Tick, TypeOK, setUp, place, count, world, player
<1>10. CASE UNCHANGED vars
  BY <1>10 DEF TypeOK, vars, setUp, place, count, rtcpTx, world, player
<1> QED BY <1>1, <1>2, <1>3, <1>4, <1>5, <1>6, <1>7, <1>8, <1>9, <1>10
        DEF Next, StreamTask

(* The frame on its way stays what it is, except when a new one is sent. *)
LEMMA SameFrame == UNCHANGED frames => frame' = frame
  BY DEF frame

LEMMA NewFrame ==
    ASSUME TypeOK, NEW f \in Frames, frames' = Append(frames, f)
    PROVE  /\ frame' = f /\ frames' # << >> /\ Len(frames') = Len(frames) + 1
           /\ Len(frames) \in Nat
           /\ \A k \in 1..Len(frames) : frames'[k] = frames[k]
<1>1. frames \in Seq(Frames)
  BY DEF TypeOK
<1>2. /\ Len(frames') = Len(frames) + 1 /\ Len(frames) \in Nat
      /\ frames'[Len(frames) + 1] = f
      /\ \A k \in 1..Len(frames) : frames'[k] = frames[k]
  BY <1>1, AppendProperties, LenProperties
<1>3. frames' # << >>
  BY <1>1, AppendProperties
<1>4. frame' = f
  BY <1>2 DEF frame
<1> QED BY <1>2, <1>3, <1>4

LEMMA ControlStep == TypeOK /\ Control /\ [Next]_vars => Control'
<1> SUFFICES ASSUME TypeOK, Control, [Next]_vars PROVE Control'
  OBVIOUS
<1>1. CASE CreateTask
  BY <1>1 DEF CreateTask, Control, count, rtcpTx, world, player
<1>2. CASE CreateSockets
  BY <1>2 DEF CreateSockets, Control, count, rtcpTx, world, player
<1>3. CASE Cleanup
  BY <1>3 DEF Cleanup, Control, setUp, count, rtcpTx, world, player
<1>4. CASE CreateSession
  BY <1>4 DEF CreateSession, Control
<1>5. CASE SendFrame
  <2>1. PICK f \in Frames : /\ frames' = Append(frames, f)
                           /\ \/ session /\ GoTo(f, 1)
                              \/ ~session /\ UNCHANGED <<pc, unit, idx, off>>
    BY <1>5 DEF SendFrame
  <2>2. pc = "idle" /\ session' = session
    BY <1>5 DEF SendFrame, setUp
  <2>3. frame' = f /\ frames' # << >>
    BY <2>1, NewFrame
  <2>4. CASE session /\ GoTo(f, 1)
    <3>1. f \in Seq(Unit) /\ unit \in Nat \ {0}
      BY Constants DEF TypeOK
    <3>2. /\ idx' = 0 /\ off' = 0 /\ pc' \in {"idle", "unit"}
          /\ pc' = "unit" => unit' = 1 /\ 1 \in 1..Len(f) /\ InLoop(f, 1)
      BY <2>4, <3>1, WhereTo
    <3>3. pc' = "unit" => PlaceInUnit(nalSize', idx', off')
      <4> SUFFICES ASSUME pc' = "unit" PROVE PlaceInUnit(nalSize', 0, 0)
        BY <3>2
      <4>1. nalSize' = f[1].size
        BY <2>3, <3>2 DEF nalSize
      <4>2. f[1] \in Unit
        BY <3>1, <3>2, ElementOfSeq
      <4>3. nalSize' \in Nat \ {0}
        BY <4>1, <4>2 DEF Unit
      <4> QED BY <4>3, FirstPlace
    <3> QED BY <2>2, <2>3, <2>4, <3>2, <3>3 DEF Control
  <2>5. CASE ~session /\ UNCHANGED <<pc, unit, idx, off>>
    BY <2>2, <2>5 DEF Control
  <2> QED BY <2>1, <2>4, <2>5
<1>6. CASE SendPacket
  <2>1. pc = "unit" /\ Advance /\ UNCHANGED <<session, frames>>
    BY <1>6 DEF SendPacket, setUp
  <2>2. frame' = frame
    BY <2>1, SameFrame
  <2>3. /\ pc' \in {"idle", "unit"}
        /\ ~packet.end => /\ pc' = "unit" /\ unit' = unit
                          /\ idx' = idx + 1 /\ off' = packet.to
        /\ packet.end => /\ idx' = 0 /\ off' = 0
                         /\ pc' = "unit" => /\ unit' = unit + 1
                                            /\ unit + 1 \in 1..Len(frame)
                                            /\ InLoop(frame, unit + 1)
    BY <2>1, Advancing
  <2>4. CASE ~packet.end
    <3>1. nalSize' = nalSize
      BY <2>2, <2>3, <2>4 DEF nalSize
    <3>2. PlaceInUnit(nalSize, idx + 1, packet.to)
      BY <2>1, <2>4, ThePacket
    <3> QED BY <2>1, <2>2, <2>3, <2>4, <3>1, <3>2 DEF Control
  <2>5. CASE packet.end
    <3>1. pc' = "unit" => PlaceInUnit(nalSize', 0, 0)
      <4> SUFFICES ASSUME pc' = "unit" PROVE PlaceInUnit(nalSize', 0, 0)
        OBVIOUS
      <4>1. nalSize' = frame[unit + 1].size /\ unit + 1 \in 1..Len(frame)
        BY <2>2, <2>3, <2>5 DEF nalSize
      <4>2. nalSize' \in Nat \ {0}
        BY <2>1, <4>1, TheFrame DEF Control
      <4> QED BY <4>2, FirstPlace
    <3> QED BY <2>1, <2>2, <2>3, <2>5, <3>1 DEF Control
  <2> QED BY <2>4, <2>5
<1>7. CASE SendFails
  BY <1>7 DEF SendFails, Control, setUp
<1>8. CASE RtcpStart
  BY <1>8, SameFrame DEF RtcpStart, Control, place, count, rtcpTx, world, player, nalSize
<1>9. CASE Tick
  BY <1>9, SameFrame DEF Tick, Control, setUp, place, count, world, player, nalSize
<1>10. CASE UNCHANGED vars
  BY <1>10, SameFrame DEF Control, vars, setUp, place, count, rtcpTx, world, player, nalSize
<1> QED BY <1>1, <1>2, <1>3, <1>4, <1>5, <1>6, <1>7, <1>8, <1>9, <1>10
        DEF Next, StreamTask

(* The types and the bounds of every variable of the sender, of the        *)
(* network and of the receiver: sequence numbers wrap at SeqMod.           *)
THEOREM TypeCorrect == Spec => [](TypeOK /\ Control)
<1>1. Init => TypeOK /\ Control
  <2>1. ASSUME Init PROVE TypeOK
    <3>1. frames \in Seq(Frames) /\ delivered \in Seq([unit : Nat \X Nat, upto : Nat])
      BY <2>1, EmptySeq DEF Init
    <3>2. buf \in [unit : Nat \X Nat, upto : Nat]
      BY <2>1 DEF Init, Empty
    <3>3. /\ 0 \in 0..SeqMod - 1 /\ Interval \in 0..Interval
          /\ 0 \in 0..MaxFaults /\ 0 \in 0..MaxLosses
      BY Constants
    <3>4. /\ pc = "create" /\ id \in BOOLEAN /\ session \in BOOLEAN /\ rtcp = "none"
          /\ events = {} /\ spoiled \in BOOLEAN /\ unit = 1
          /\ idx = 0 /\ off = 0 /\ seq = 0 /\ packets = 0 /\ elapsed = Interval
          /\ report = 0 /\ faults = 0 /\ lost = 0 /\ next = 0 /\ missing = 0
          /\ received = 0 /\ marked = 0
      BY <2>1 DEF Init
    <3> QED BY <3>1, <3>2, <3>3, <3>4 DEF TypeOK
  <2> QED BY <2>1 DEF Init, Control
<1>2. TypeOK /\ Control /\ [Next]_vars => (TypeOK /\ Control)'
  BY TypeStep, ControlStep
<1> QED BY <1>1, <1>2, PTL DEF Spec

(* Whatever the size of a unit and of the payload, the fragments of the    *)
(* code fit their packets and make up the unit.                            *)
THEOREM Fragments == Spec => []FragmentsFit
<1>1. TypeOK /\ Control => FragmentsFit
  <2> SUFFICES ASSUME TypeOK, Control, pc = "unit"
               PROVE  /\ PayloadSize(nalSize, idx) \in 1..MaxPayload
                      /\ off + FuBytes(nalSize, idx) <= nalSize
                      /\ Last(nalSize, idx) <=> off + FuBytes(nalSize, idx) = nalSize
    BY DEF FragmentsFit
  <2> QED BY ThePacket
<1> QED BY <1>1, TypeCorrect, PTL

(* The steps that send nothing and offer nothing. *)
Still ==
    /\ UNCHANGED <<frames, unit, idx, off, session, count, report, lost, player, spoiled>>
    /\ pc' = pc \/ (pc \notin {"idle", "unit"} /\ pc' \notin {"idle", "unit"})

LEMMA Steps ==
    [Next]_vars => SendFrame \/ SendPacket \/ SendFails \/ CreateSession \/ Still
<1> SUFFICES ASSUME [Next]_vars, ~SendFrame, ~SendPacket, ~SendFails, ~CreateSession
             PROVE  Still
  OBVIOUS
<1>1. CASE CreateTask
  BY <1>1 DEF CreateTask, Still, rtcpTx, world
<1>2. CASE CreateSockets
  BY <1>2 DEF CreateSockets, Still, rtcpTx, world
<1>3. CASE Cleanup
  BY <1>3 DEF Cleanup, Still, setUp, rtcpTx, world
<1>4. CASE RtcpStart
  BY <1>4 DEF RtcpStart, Still, place, rtcpTx, world
<1>5. CASE Tick
  BY <1>5 DEF Tick, Still, setUp, place, world
<1>6. CASE UNCHANGED vars
  BY <1>6 DEF vars, Still, setUp, place, rtcpTx, world
<1> QED BY <1>1, <1>2, <1>3, <1>4, <1>5, <1>6 DEF Next, StreamTask

LEMMA GapStep == TypeOK /\ Control /\ GapsAreLosses /\ [Next]_vars => GapsAreLosses'
<1> SUFFICES ASSUME TypeOK, Control, GapsAreLosses, [Next]_vars, session'
             PROVE  /\ missing' + Gap(next', seq') = lost'
                    /\ packets' = received' + lost'
                    /\ report' <= packets'
  BY DEF GapsAreLosses
<1>0. /\ seq \in 0..SeqMod - 1 /\ next \in 0..SeqMod - 1
      /\ missing \in Nat /\ lost \in Nat /\ received \in Nat /\ packets \in Nat /\ report \in Nat
      /\ lost <= MaxLosses
  BY Constants DEF TypeOK
<1>1. CASE SendFrame
  <2>1. session /\ UNCHANGED <<seq, packets, report, lost, next, missing, received>>
    BY <1>1 DEF SendFrame, setUp, count, rtcpTx, world, player
  <2> QED BY <2>1 DEF GapsAreLosses, Gap
<1>2. CASE SendPacket
  <2>1. /\ pc = "unit" /\ session /\ seq' = Inc(seq) /\ packets' = packets + 1
        /\ report' = report \/ report' = packets
    BY <1>2 DEF SendPacket, SendReport, rtcpTx, setUp
  <2>2. /\ missing + Gap(next, seq) = lost
        /\ packets = received + lost
        /\ report <= packets
    BY <2>1 DEF GapsAreLosses
  <2>3. CASE Receive(packet) /\ UNCHANGED <<lost, spoiled>>
    <3>1. packet.seq = seq
      BY <2>1, ThePacket
    <3>2. next' = Inc(seq) /\ missing' = missing + Gap(next, seq) /\ received' = received + 1
      BY <2>3, <3>1 DEF Receive
    <3>3. Inc(seq) \in 0..SeqMod - 1
      BY <1>0, Numbers
    <3>4. Gap(Inc(seq), Inc(seq)) = 0
      BY <3>3, Numbers
    <3>5. Gap(next', seq') = 0
      BY <3>2, <3>4, <2>1
    <3>6. missing' + 0 = lost'
      BY <3>2, <2>2, <2>3, <1>0
    <3>7. packets' = received' + lost' /\ report' <= packets'
      BY <3>2, <2>1, <2>2, <2>3, <1>0
    <3> QED BY <3>5, <3>6, <3>7
  <2>4. CASE lost < MaxLosses /\ lost' = lost + 1 /\ UNCHANGED player
    <3>1. next' = next /\ missing' = missing /\ received' = received
      BY <2>4 DEF player
    <3>2. Gap(next, seq) \in 0..SeqMod - 1
      BY <1>0, Numbers
    <3>3. Gap(next, seq) + 1 < SeqMod
      BY <3>2, <2>2, <2>4, <1>0, Constants
    <3>4. Gap(next, Inc(seq)) = Gap(next, seq) + 1
      BY <3>3, <1>0, Numbers
    <3>5. Gap(next', seq') = Gap(next, seq) + 1
      BY <3>1, <3>4, <2>1
    <3>6. missing' + Gap(next', seq') = lost'
      BY <3>1, <3>2, <3>5, <2>2, <2>4, <1>0
    <3>7. packets' = received' + lost' /\ report' <= packets'
      BY <3>1, <2>1, <2>2, <2>4, <1>0
    <3> QED BY <3>6, <3>7
  <2> QED BY <1>2, <2>3, <2>4 DEF SendPacket
<1>3. CASE SendFails
  <2>1. session /\ UNCHANGED <<seq, packets, lost, next, missing, received>>
        /\ (report' = report \/ report' = packets)
    BY <1>3 DEF SendFails, SendReport, setUp, count, rtcpTx, player
  <2> QED BY <2>1, <1>0 DEF GapsAreLosses, Gap
<1>4. CASE CreateSession
  <2>1. lost = 0 /\ received = 0 /\ packets = 0 /\ report = 0 /\ missing = 0
    BY <1>4 DEF CreateSession, Control
  <2>2. UNCHANGED <<packets, report, lost, missing, received>>
        /\ \E n \in 0..SeqMod - 1 : seq' = n /\ next' = n
    BY <1>4 DEF CreateSession, rtcpTx, world
  <2>3. Gap(next', seq') = 0
    BY <2>2, Numbers
  <2> QED BY <2>1, <2>2, <2>3
<1>5. CASE Still
  <2>1. session /\ UNCHANGED <<seq, packets, report, lost, next, missing, received>>
    BY <1>5 DEF Still, count, player
  <2> QED BY <2>1 DEF GapsAreLosses, Gap
<1> QED BY <1>1, <1>2, <1>3, <1>4, <1>5, Steps

(* Refused packets leave no trace in the numbering: the gaps a receiver    *)
(* sees are the packets the network lost, and a sender report never claims *)
(* more packets than were sent.                                            *)
THEOREM Numbering == Spec => []GapsAreLosses
<1>1. Init => GapsAreLosses
  BY DEF Init, GapsAreLosses
<1>2. TypeOK /\ Control /\ GapsAreLosses /\ [Next]_vars => GapsAreLosses'
  BY GapStep
<1> QED BY <1>1, <1>2, TypeCorrect, PTL DEF Spec

(***************************************************************************)
(* What the receiver puts together.                                        *)
(***************************************************************************)

(* The fragments the receiver holds are those of the unit being sent, up   *)
(* to the next fragment, unless the next packet will show it a gap.        *)
Held == pc = "unit" /\ idx > 0 /\ next = seq /\ buf # Empty =>
            buf = [unit |-> <<Len(frames), unit>>, upto |-> off]

(* Everything delivered lies behind the unit being sent. *)
Ordered == \A i \in 1..Len(delivered) :
    LET d == delivered[i].unit
    IN  /\ d[1] \in 1..Len(frames)
        /\ d[1] = Len(frames) /\ pc = "unit" => d[2] < unit

(* What a received packet makes of the receiver's state. *)
Reassembled(p) == IF p.start THEN [unit |-> p.unit, upto |-> p.to]
                  ELSE IF (IF p.seq = next THEN buf ELSE Empty) = Empty THEN Empty
                  ELSE Join(buf, p)

LEMMA Received ==
    ASSUME TypeOK, Control, Held, pc = "unit", Receive(packet)
    PROVE  /\ buf' = IF packet.end THEN Empty ELSE Reassembled(packet)
           /\ delivered' = IF packet.end /\ Reassembled(packet) # Empty
                           THEN Append(delivered, Reassembled(packet)) ELSE delivered
           /\ Reassembled(packet) # Empty =>
                 Reassembled(packet) = [unit |-> <<Len(frames), unit>>, upto |-> packet.to]
           /\ next' = Inc(seq)
<1>1. /\ packet.seq = seq /\ packet.unit = <<Len(frames), unit>>
      /\ packet.from = off /\ (packet.start <=> idx = 0)
  BY ThePacket
<1>2. next' = Inc(seq)
  BY <1>1 DEF Receive
<1>3. /\ buf' = IF packet.end THEN Empty ELSE Reassembled(packet)
      /\ delivered' = IF packet.end /\ Reassembled(packet) # Empty
                      THEN Append(delivered, Reassembled(packet)) ELSE delivered
  BY DEF Receive, Reassembled
<1>4. Reassembled(packet) # Empty =>
         Reassembled(packet) = [unit |-> <<Len(frames), unit>>, upto |-> packet.to]
  <2>1. CASE packet.start
    BY <1>1, <2>1 DEF Reassembled
  <2>2. CASE ~packet.start /\ (packet.seq # next \/ buf = Empty)
    BY <2>2 DEF Reassembled
  <2>3. CASE ~packet.start /\ packet.seq = next /\ buf # Empty
    <3>1. idx > 0
      BY <1>1, <2>3 DEF TypeOK
    <3>2. buf = [unit |-> <<Len(frames), unit>>, upto |-> off]
      BY <1>1, <2>3, <3>1 DEF Held
    <3>3. Join(buf, packet) = [unit |-> <<Len(frames), unit>>, upto |-> packet.to]
      BY <1>1, <3>2 DEF Join
    <3> QED BY <2>3, <3>3 DEF Reassembled
  <2> QED BY <2>1, <2>2, <2>3
<1> QED BY <1>2, <1>3, <1>4

(* A lost packet leaves a gap before the next one. *)
LEMMA LostIsSeen ==
    ASSUME TypeOK, Control, GapsAreLosses, pc = "unit", lost < MaxLosses
    PROVE  next # Inc(seq)
<1>1. /\ seq \in 0..SeqMod - 1 /\ next \in 0..SeqMod - 1
      /\ missing \in Nat /\ lost \in Nat
  BY Constants DEF TypeOK
<1>2. missing + Gap(next, seq) = lost
  BY DEF GapsAreLosses, Control
<1>3. Gap(next, seq) \in 0..SeqMod - 1 /\ Inc(seq) \in 0..SeqMod - 1
  BY <1>1, Numbers
<1>4. Gap(next, seq) + 1 < SeqMod
  BY <1>1, <1>2, <1>3, Constants
<1>5. Gap(next, Inc(seq)) = Gap(next, seq) + 1
  BY <1>1, <1>4, Numbers
<1>6. Gap(next, Inc(seq)) # 0
  BY <1>3, <1>5
<1> QED BY <1>1, <1>3, <1>6, Numbers

LEMMA HeldStep ==
    TypeOK /\ Control /\ GapsAreLosses /\ Held /\ [Next]_vars => Held'
<1> SUFFICES ASSUME TypeOK, Control, GapsAreLosses, Held, [Next]_vars,
                    pc' = "unit", idx' > 0, next' = seq', buf' # Empty
             PROVE  buf' = [unit |-> <<Len(frames'), unit'>>, upto |-> off']
  BY DEF Held, Empty
<1>1. CASE SendFrame
  <2>1. PICK f \in Frames : (session /\ GoTo(f, 1))
                           \/ (~session /\ UNCHANGED <<pc, unit, idx, off>>)
    BY <1>1 DEF SendFrame
  <2>2. pc = "idle"
    BY <1>1 DEF SendFrame
  <2>3. GoTo(f, 1)
    BY <2>1, <2>2
  <2>4. idx' = 0
    BY <2>3 DEF GoTo
  <2> QED BY <2>4
<1>2. CASE SendPacket
  <2>1. /\ pc = "unit" /\ Advance /\ seq' = Inc(seq) /\ UNCHANGED frames
    BY <1>2 DEF SendPacket
  <2>2. /\ ~packet.end => unit' = unit /\ off' = packet.to
        /\ packet.end => idx' = 0
    BY <2>1, Advancing
  <2>3. ~packet.end
    BY <2>2
  <2>4. CASE Receive(packet)
    <3>1. buf' = Reassembled(packet)
      BY <2>1, <2>3, <2>4, Received
    <3>2. buf' = [unit |-> <<Len(frames), unit>>, upto |-> packet.to]
      BY <2>1, <2>4, <3>1, Received
    <3> QED BY <2>1, <2>2, <2>3, <3>2
  <2>5. CASE lost < MaxLosses /\ UNCHANGED player
    <3>1. next' = next
      BY <2>5 DEF player
    <3> QED BY <2>1, <2>5, <3>1, LostIsSeen
  <2> QED BY <1>2, <2>4, <2>5 DEF SendPacket
<1>3. CASE SendFails
  BY <1>3 DEF SendFails
<1>4. CASE CreateSession
  BY <1>4 DEF CreateSession
<1>5. CASE Still
  BY <1>5 DEF Still, Held, count, player
<1> QED BY <1>1, <1>2, <1>3, <1>4, <1>5, Steps

(* What SendPacket adds to the units delivered. *)
LEMMA Deliveries ==
    ASSUME TypeOK, Control, Held, SendPacket
    PROVE  \/ delivered' = delivered
           \/ packet.end /\ delivered' =
                 Append(delivered, [unit |-> <<Len(frames), unit>>, upto |-> nalSize])
<1>1. CASE Receive(packet)
  <2>1. pc = "unit"
    BY DEF SendPacket
  <2>2. /\ delivered' = IF packet.end /\ Reassembled(packet) # Empty
                        THEN Append(delivered, Reassembled(packet)) ELSE delivered
        /\ Reassembled(packet) # Empty =>
              Reassembled(packet) = [unit |-> <<Len(frames), unit>>, upto |-> packet.to]
    BY <1>1, <2>1, Received
  <2>3. packet.end => packet.to = nalSize
    BY <2>1, ThePacket
  <2> QED BY <2>2, <2>3
<1>2. CASE UNCHANGED player
  BY <1>2 DEF player
<1> QED BY <1>1, <1>2 DEF SendPacket

(* The unit that is delivered is one of the last frame. *)
LEMMA TheUnit ==
    ASSUME TypeOK, Control, pc = "unit"
    PROVE  /\ Len(frames) \in Nat \ {0} /\ unit \in 1..Len(frames[Len(frames)])
           /\ nalSize = frames[Len(frames)][unit].size
           /\ unit \in Nat /\ delivered \in Seq([unit : Nat \X Nat, upto : Nat])
<1>1. frames # << >> /\ unit \in 1..Len(frame)
  BY DEF Control
<1> QED BY <1>1, TheFrame DEF TypeOK, frame, nalSize

LEMMA WholeStep ==
    TypeOK /\ Control /\ Held /\ WholeUnits /\ [Next]_vars => WholeUnits'
<1> SUFFICES ASSUME TypeOK, Control, Held, WholeUnits, [Next]_vars PROVE WholeUnits'
  OBVIOUS
<1>1. CASE SendFrame
  <2>1. PICK f \in Frames : frames' = Append(frames, f)
    BY <1>1 DEF SendFrame
  <2>2. /\ Len(frames') = Len(frames) + 1 /\ Len(frames) \in Nat
        /\ \A k \in 1..Len(frames) : frames'[k] = frames[k]
    BY <2>1, NewFrame
  <2>3. delivered' = delivered
    BY <1>1 DEF SendFrame, player
  <2> SUFFICES ASSUME NEW i \in 1..Len(delivered)
               PROVE  \E k \in 1..Len(frames') : \E u \in 1..Len(frames'[k]) :
                        delivered[i] = [unit |-> <<k, u>>, upto |-> frames'[k][u].size]
    BY <2>3 DEF WholeUnits
  <2>4. PICK k \in 1..Len(frames) : \E u \in 1..Len(frames[k]) :
            delivered[i] = [unit |-> <<k, u>>, upto |-> frames[k][u].size]
    BY DEF WholeUnits
  <2>5. k \in 1..Len(frames') /\ frames'[k] = frames[k]
    BY <2>2
  <2> QED BY <2>4, <2>5
<1>2. CASE SendPacket
  <2>1. pc = "unit" /\ frames' = frames
    BY <1>2 DEF SendPacket
  <2>2. CASE delivered' = delivered
    BY <2>1, <2>2 DEF WholeUnits
  <2>3. CASE delivered' =
               Append(delivered, [unit |-> <<Len(frames), unit>>, upto |-> nalSize])
    <3> DEFINE d == [unit |-> <<Len(frames), unit>>, upto |-> nalSize]
    <3>1. /\ Len(delivered') = Len(delivered) + 1 /\ Len(delivered) \in Nat
          /\ delivered'[Len(delivered) + 1] = d
          /\ \A i \in 1..Len(delivered) : delivered'[i] = delivered[i]
      <4>1. d \in [unit : Nat \X Nat, upto : Nat]
        BY <2>1, TheUnit, ThePacket
      <4> QED BY <2>1, <2>3, <4>1, TheUnit, AppendProperties, LenProperties
    <3>2. \E k \in 1..Len(frames) : \E u \in 1..Len(frames[k]) :
             d = [unit |-> <<k, u>>, upto |-> frames[k][u].size]
      <4>1. /\ Len(frames) \in 1..Len(frames) /\ unit \in 1..Len(frames[Len(frames)])
            /\ nalSize = frames[Len(frames)][unit].size
        BY <2>1, TheUnit
      <4>2. d = [unit |-> <<Len(frames), unit>>, upto |-> frames[Len(frames)][unit].size]
        BY <4>1
      <4> HIDE DEF d
      <4> QED BY <4>1, <4>2
    <3> HIDE DEF d
    <3>3. ASSUME NEW i \in 1..Len(delivered')
          PROVE  \E k \in 1..Len(frames) : \E u \in 1..Len(frames[k]) :
                    delivered'[i] = [unit |-> <<k, u>>, upto |-> frames[k][u].size]
      <4>1. CASE i = Len(delivered) + 1
        BY <3>1, <3>2, <4>1
      <4>2. CASE i \in 1..Len(delivered)
        BY <3>1, <4>2 DEF WholeUnits
      <4> QED BY <3>1, <4>1, <4>2
    <3> QED BY <2>1, <3>3 DEF WholeUnits
  <2> QED BY <1>2, <2>2, <2>3, Deliveries
<1>3. CASE SendFails
  BY <1>3 DEF SendFails, WholeUnits, player
<1>4. CASE CreateSession
  BY <1>4 DEF CreateSession, WholeUnits
<1>5. CASE Still
  BY <1>5 DEF Still, WholeUnits, player
<1> QED BY <1>1, <1>2, <1>3, <1>4, <1>5, Steps

LEMMA OrderStep ==
    TypeOK /\ Control /\ Held /\ Ordered /\ [Next]_vars => Ordered'
<1> SUFFICES ASSUME TypeOK, Control, Held, Ordered, [Next]_vars PROVE Ordered'
  OBVIOUS
<1>1. CASE SendFrame
  <2>1. PICK f \in Frames : frames' = Append(frames, f)
    BY <1>1 DEF SendFrame
  <2>2. Len(frames') = Len(frames) + 1 /\ Len(frames) \in Nat
    BY <2>1, NewFrame
  <2>3. delivered' = delivered
    BY <1>1 DEF SendFrame, player
  <2> QED BY <2>2, <2>3 DEF Ordered
<1>2. CASE SendPacket
  <2>1. pc = "unit" /\ frames' = frames /\ Advance
    BY <1>2 DEF SendPacket
  <2>2. /\ ~packet.end => unit' = unit
        /\ packet.end /\ pc' = "unit" => unit' = unit + 1
    BY <2>1, Advancing
  <2>3. unit \in Nat
    BY <2>1, TheUnit
  <2>4. CASE delivered' = delivered
    <3> SUFFICES ASSUME NEW i \in 1..Len(delivered)
                 PROVE  LET d == delivered[i].unit
                        IN  /\ d[1] \in 1..Len(frames)
                            /\ d[1] = Len(frames) /\ pc' = "unit" => d[2] < unit'
      BY <2>1, <2>4 DEF Ordered
    <3> DEFINE d == delivered[i].unit
    <3>1. d[1] \in 1..Len(frames) /\ (d[1] = Len(frames) => d[2] < unit)
      BY <2>1 DEF Ordered
    <3>2. d[2] \in Nat
      <4>1. delivered[i] \in [unit : Nat \X Nat, upto : Nat]
        BY <2>1, TheUnit, ElementOfSeq
      <4> QED BY <4>1
    <3>3. pc' = "unit" => unit' = unit \/ unit' = unit + 1
      BY <2>2
    <3> HIDE DEF d
    <3>4. d[1] = Len(frames) /\ pc' = "unit" => d[2] < unit'
      BY <2>3, <3>1, <3>2, <3>3
    <3> QED BY <3>1, <3>4 DEF d
  <2>5. CASE packet.end /\ delivered' =
               Append(delivered, [unit |-> <<Len(frames), unit>>, upto |-> nalSize])
    <3> DEFINE e == [unit |-> <<Len(frames), unit>>, upto |-> nalSize]
    <3>1. /\ Len(delivered') = Len(delivered) + 1 /\ Len(delivered) \in Nat
          /\ delivered'[Len(delivered) + 1] = e
          /\ \A i \in 1..Len(delivered) : delivered'[i] = delivered[i]
      <4>1. e \in [unit : Nat \X Nat, upto : Nat]
        BY <2>1, TheUnit, ThePacket
      <4> QED BY <2>1, <2>5, <4>1, TheUnit, AppendProperties, LenProperties
    <3> SUFFICES ASSUME NEW i \in 1..Len(delivered) + 1
                 PROVE  LET d == delivered'[i].unit
                        IN  /\ d[1] \in 1..Len(frames)
                            /\ d[1] = Len(frames) /\ pc' = "unit" => d[2] < unit'
      BY <2>1, <3>1 DEF Ordered
    <3>2. CASE i = Len(delivered) + 1
      <4>1. delivered'[i].unit = <<Len(frames), unit>>
        BY <3>1, <3>2
      <4>2. Len(frames) \in 1..Len(frames)
        BY <2>1, TheUnit
      <4>3. pc' = "unit" => unit < unit'
        BY <2>2, <2>3, <2>5
      <4> QED BY <4>1, <4>2, <4>3
    <3>3. CASE i \in 1..Len(delivered)
      <4> DEFINE d == delivered[i].unit
      <4>1. d[1] \in 1..Len(frames) /\ (d[1] = Len(frames) => d[2] < unit)
        BY <2>1, <3>3 DEF Ordered
      <4>2. d[2] \in Nat
        <5>1. delivered[i] \in [unit : Nat \X Nat, upto : Nat]
          BY <2>1, <3>3, TheUnit, ElementOfSeq
        <5> QED BY <5>1
      <4>3. pc' = "unit" => unit' = unit + 1
        BY <2>2, <2>5
      <4>4. delivered'[i].unit = d
        BY <3>1, <3>3
      <4> HIDE DEF d
      <4>5. d[1] = Len(frames) /\ pc' = "unit" => d[2] < unit'
        BY <2>3, <4>1, <4>2, <4>3
      <4> QED BY <4>1, <4>4, <4>5
    <3> QED BY <3>1, <3>2, <3>3
  <2> QED BY <1>2, <2>4, <2>5, Deliveries
<1>3. CASE SendFails
  BY <1>3 DEF SendFails, Ordered, player
<1>4. CASE CreateSession
  BY <1>4 DEF CreateSession, Ordered
<1>5. CASE Still
  BY <1>5 DEF Still, Ordered, player
<1> QED BY <1>1, <1>2, <1>3, <1>4, <1>5, Steps

(* A unit of the last frame has been delivered. *)
Arrived(v) == \E i \in 1..Len(delivered) :
                 delivered[i] = [unit |-> <<Len(frames), v>>, upto |-> frame[v].size]

(* While no packet of the frame is refused or lost, every unit before the  *)
(* one being sent has arrived, and the receiver holds all of that one.     *)
Complete ==
    pc = "unit" /\ ~spoiled =>
        /\ \A v \in 1..unit - 1 : Arrived(v)
        /\ idx > 0 => next = seq /\ buf = [unit |-> <<Len(frames), unit>>, upto |-> off]

LEMMA ArrivedStays ==
    ASSUME TypeOK, NEW d \in [unit : Nat \X Nat, upto : Nat], UNCHANGED frames,
           delivered' = delivered \/ delivered' = Append(delivered, d)
    PROVE  /\ \A v : Arrived(v) => Arrived(v)'
           /\ delivered' = Append(delivered, d) =>
                 \A v : d = [unit |-> <<Len(frames), v>>, upto |-> frame[v].size]
                           => Arrived(v)'
<1>1. frame' = frame
  BY SameFrame
<1>2. delivered \in Seq([unit : Nat \X Nat, upto : Nat])
  BY DEF TypeOK
<1>3. CASE delivered' = delivered
  <2>1. \A v : Arrived(v) => Arrived(v)'
    BY <1>1, <1>3 DEF Arrived
  <2>2. delivered' # Append(delivered, d)
    BY <1>2, <1>3, AppendProperties, LenProperties
  <2> QED BY <2>1, <2>2
<1>4. CASE delivered' = Append(delivered, d)
  <2>1. /\ Len(delivered') = Len(delivered) + 1 /\ Len(delivered) \in Nat
        /\ delivered'[Len(delivered) + 1] = d
        /\ \A i \in 1..Len(delivered) : delivered'[i] = delivered[i]
    BY <1>2, <1>4, AppendProperties, LenProperties
  <2>2. \A i \in 1..Len(delivered) : i \in 1..Len(delivered')
        /\ Len(delivered) + 1 \in 1..Len(delivered')
    BY <2>1
  <2>3. Len(delivered) + 1 \in 1..Len(delivered')
    BY <2>1
  <2>4. \A v : Arrived(v) => Arrived(v)'
    BY <1>1, <2>1, <2>2 DEF Arrived
  <2>5. \A v : d = [unit |-> <<Len(frames), v>>, upto |-> frame[v].size] => Arrived(v)'
    BY <1>1, <2>1, <2>3 DEF Arrived
  <2> QED BY <2>4, <2>5
<1> QED BY <1>3, <1>4

(* A packet that arrives while nothing has gone wrong. *)
LEMMA InOrder ==
    ASSUME TypeOK, Control, Held, Complete, pc = "unit", ~spoiled, Receive(packet),
           UNCHANGED frames, seq' = Inc(seq)
    PROVE  /\ \A v \in 1..unit - 1 : Arrived(v)'
           /\ packet.end => \A v \in 1..unit : Arrived(v)'
           /\ ~packet.end => /\ next' = seq'
                             /\ buf' = [unit |-> <<Len(frames), unit>>, upto |-> packet.to]
<1> DEFINE d == [unit |-> <<Len(frames), unit>>, upto |-> packet.to]
<1>1. /\ packet.seq = seq /\ packet.unit = <<Len(frames), unit>> /\ packet.from = off
      /\ (packet.start <=> idx = 0) /\ packet.to \in Nat /\ (packet.end => packet.to = nalSize)
  BY ThePacket
<1>2. Len(frames) \in Nat \ {0} /\ unit \in Nat /\ nalSize = frame[unit].size
  BY TheUnit DEF frame
<1>3. d # Empty /\ d \in [unit : Nat \X Nat, upto : Nat]
  BY <1>1, <1>2 DEF Empty
<1>4. Reassembled(packet) # Empty
  <2>1. CASE packet.start
    <3>1. Reassembled(packet) = d
      BY <1>1, <2>1 DEF Reassembled
    <3> QED BY <3>1, <1>3
  <2>2. CASE ~packet.start
    <3>1. idx > 0
      BY <1>1, <2>2 DEF TypeOK
    <3>2. next = seq /\ buf = [unit |-> <<Len(frames), unit>>, upto |-> off]
      BY <3>1 DEF Complete
    <3>3. buf # Empty
      BY <1>2, <3>2 DEF Empty
    <3>4. Reassembled(packet) = Join(buf, packet)
      BY <1>1, <2>2, <3>2, <3>3 DEF Reassembled
    <3>5. Join(buf, packet) = d
      BY <1>1, <3>2 DEF Join
    <3> QED BY <3>4, <3>5, <1>3
  <2> QED BY <2>1, <2>2
<1>5. /\ Reassembled(packet) = d
      /\ buf' = IF packet.end THEN Empty ELSE Reassembled(packet)
      /\ delivered' = IF packet.end /\ Reassembled(packet) # Empty
                      THEN Append(delivered, Reassembled(packet)) ELSE delivered
      /\ next' = Inc(seq)
  BY <1>4, Received
<1>6. delivered' = IF packet.end THEN Append(delivered, d) ELSE delivered
  BY <1>4, <1>5
<1>7. /\ \A v : Arrived(v) => Arrived(v)'
      /\ packet.end => \A v : d = [unit |-> <<Len(frames), v>>, upto |-> frame[v].size]
                                => Arrived(v)'
  <2> HIDE DEF d
  <2> QED BY <1>3, <1>6, ArrivedStays
<1>8. ASSUME packet.end, NEW v, v = unit PROVE Arrived(v)'
  <2>1. d = [unit |-> <<Len(frames), v>>, upto |-> frame[v].size]
    BY <1>1, <1>2, <1>8
  <2> HIDE DEF d
  <2> QED BY <1>7, <1>8, <2>1
<1>9. ASSUME NEW v \in 1..unit - 1 PROVE Arrived(v)'
  <2>1. Arrived(v)
    BY DEF Complete
  <2> QED BY <1>7, <2>1
<1>10. ASSUME packet.end, NEW v \in 1..unit PROVE Arrived(v)'
  <2>1. v = unit \/ v \in 1..unit - 1
    BY <1>2
  <2> QED BY <1>8, <1>9, <1>10, <2>1
<1> QED BY <1>5, <1>9, <1>10

LEMMA CompleteStep ==
    TypeOK /\ Control /\ Held /\ Complete /\ CompleteFrames /\ [Next]_vars
        => (Complete /\ CompleteFrames)'
<1> SUFFICES ASSUME TypeOK, Control, Held, Complete, CompleteFrames, [Next]_vars
             PROVE  Complete' /\ CompleteFrames'
  OBVIOUS
<1>1. CASE SendFrame
  <2>1. PICK f \in Frames : /\ frames' = Append(frames, f)
                           /\ \/ session /\ GoTo(f, 1)
                              \/ ~session /\ UNCHANGED <<pc, unit, idx, off>>
    BY <1>1 DEF SendFrame
  <2>2. pc = "idle" /\ session' = session
    BY <1>1 DEF SendFrame, setUp
  <2>3. frame' = f /\ f \in Seq(Unit) /\ Len(f) \in Nat \ {0}
    <3>1. frame' = f
      BY <2>1, NewFrame
    <3>2. f \in Seq(Unit) /\ f # << >>
      BY Constants
    <3> QED BY <3>1, <3>2, LenProperties, EmptySeq
  <2>4. CASE session /\ GoTo(f, 1)
    <3>0. unit \in Nat \ {0}
      BY DEF TypeOK
    <3>1. /\ idx' = 0 /\ (pc' = "unit" => unit' = 1) /\ (pc' = "idle" => ~InLoop(f, 1))
      BY <2>3, <2>4, <3>0, WhereTo
    <3>2. Complete'
      BY <3>1 DEF Complete
    <3>3. ASSUME pc' = "idle", NEW u \in 1..Len(f), u < Len(f) \/ f[u].size > 4
          PROVE  FALSE
      <4>1. ~(1 < Len(f)) /\ ~(1 = Len(f) /\ f[1].size > 4)
        BY <3>1, <3>3 DEF InLoop
      <4>2. Len(f) = 1
        BY <2>3, <4>1
      <4>3. u = 1
        BY <4>2
      <4> QED BY <3>3, <4>1, <4>2, <4>3
    <3>4. CompleteFrames'
      BY <2>3, <3>3 DEF CompleteFrames
    <3> QED BY <3>2, <3>4
  <2>5. CASE ~session /\ UNCHANGED <<pc, unit, idx, off>>
    BY <2>2, <2>5 DEF Complete, CompleteFrames
  <2> QED BY <2>1, <2>4, <2>5
<1>2. CASE SendPacket
  <2>1. /\ pc = "unit" /\ Advance /\ seq' = Inc(seq) /\ frames' = frames
    BY <1>2 DEF SendPacket
  <2>2. frame' = frame
    BY <2>1, SameFrame
  <2>3. CASE spoiled' = TRUE
    BY <2>3 DEF Complete, CompleteFrames
  <2>4. CASE Receive(packet) /\ UNCHANGED spoiled /\ ~spoiled
    <3>1. /\ \A v \in 1..unit - 1 : Arrived(v)'
          /\ packet.end => \A v \in 1..unit : Arrived(v)'
          /\ ~packet.end => /\ next' = seq'
                            /\ buf' = [unit |-> <<Len(frames), unit>>, upto |-> packet.to]
      BY <2>1, <2>4, InOrder
    <3>2. /\ pc' \in {"idle", "unit"}
          /\ ~packet.end => pc' = "unit" /\ unit' = unit /\ off' = packet.to
          /\ packet.end => /\ idx' = 0
                           /\ pc' = "unit" => unit' = unit + 1
                           /\ pc' = "idle" => ~InLoop(frame, unit + 1)
      BY <2>1, Advancing
    <3>3. unit \in Nat \ {0} /\ unit \in 1..Len(frame) /\ Len(frame) \in Nat
      BY <2>1, TheFrame DEF TypeOK, Control
    <3>4. CASE ~packet.end
      BY <2>1, <3>1, <3>2, <3>4 DEF Complete, CompleteFrames
    <3>5. CASE packet.end
      <4>1. \A v \in 1..unit : Arrived(v)'
        BY <3>1, <3>5
      <4>2. Complete'
        <5> SUFFICES ASSUME pc' = "unit" PROVE (\A v \in 1..unit' - 1 : Arrived(v)') /\ idx' = 0
          BY <3>2, <3>5 DEF Complete
        <5>1. unit' - 1 = unit /\ idx' = 0
          BY <3>2, <3>3, <3>5
        <5> QED BY <4>1, <5>1
      <4>3. CompleteFrames'
        <5> SUFFICES ASSUME pc' = "idle", NEW u \in 1..Len(frame),
                            u < Len(frame) \/ frame[u].size > 4
                     PROVE  Arrived(u)'
          BY <2>1, <2>2 DEF CompleteFrames, Arrived
        <5>1. ~(unit + 1 < Len(frame))
              /\ ~(unit + 1 = Len(frame) /\ frame[unit + 1].size > 4)
          BY <3>2, <3>5 DEF InLoop
        <5>2. u \in 1..unit
          BY <3>3, <5>1
        <5> QED BY <4>1, <5>2
      <4> QED BY <4>2, <4>3
    <3> QED BY <3>4, <3>5
  <2>5. CASE spoiled /\ spoiled'
    BY <2>5 DEF Complete, CompleteFrames
  <2> QED BY <1>2, <2>3, <2>4, <2>5 DEF SendPacket, TypeOK
<1>3. CASE SendFails
  BY <1>3 DEF SendFails, Complete, CompleteFrames
<1>4. CASE CreateSession
  BY <1>4 DEF CreateSession, Control, Complete, CompleteFrames
<1>5. CASE Still
  <2>1. frame' = frame
    BY <1>5, SameFrame DEF Still
  <2>2. Complete'
    BY <1>5, <2>1 DEF Still, Complete, Arrived, player, count
  <2>3. CompleteFrames'
    BY <1>5, <2>1 DEF Still, CompleteFrames, player, Control
  <2> QED BY <2>2, <2>3
<1> QED BY <1>1, <1>2, <1>3, <1>4, <1>5, Steps

(* The marker names no frame that has not been offered; it names the frame *)
(* being sent only when its last packet has been sent.                     *)
Marked == /\ marked <= Len(frames)
          /\ pc = "unit" => marked < Len(frames)

LEMMA MarkedStep ==
    TypeOK /\ Control /\ Marked /\ MarkerEndsFrame /\ [Next]_vars
        => (Marked /\ MarkerEndsFrame)'
<1> SUFFICES ASSUME TypeOK, Control, Marked, MarkerEndsFrame, [Next]_vars
             PROVE  Marked' /\ MarkerEndsFrame'
  OBVIOUS
<1>0. marked \in Nat /\ Len(frames) \in Nat
  BY LenProperties DEF TypeOK
<1>1. CASE SendFrame
  <2>1. PICK f \in Frames : /\ frames' = Append(frames, f)
                           /\ \/ session /\ GoTo(f, 1)
                              \/ ~session /\ UNCHANGED <<pc, unit, idx, off>>
    BY <1>1 DEF SendFrame
  <2>2. pc = "idle" /\ session' = session /\ marked' = marked
    BY <1>1 DEF SendFrame, setUp, player
  <2>3. frame' = f /\ f \in Seq(Unit) /\ Len(f) \in Nat \ {0} /\ unit \in Nat \ {0}
        /\ Len(frames') = Len(frames) + 1
    <3>1. frame' = f /\ Len(frames') = Len(frames) + 1
      BY <2>1, NewFrame
    <3>2. f \in Seq(Unit) /\ Len(f) \in Nat \ {0}
      BY Constants
    <3> QED BY <3>1, <3>2 DEF TypeOK
  <2>4. marked' < Len(frames')
    BY <1>0, <2>2, <2>3 DEF Marked
  <2>5. Marked'
    BY <1>0, <2>2, <2>3, <2>4 DEF Marked
  <2>6. CASE session /\ GoTo(f, 1)
    <3>1. pc' = "idle" => ~InLoop(f, 1)
      BY <2>3, <2>6, WhereTo
    <3>2. ASSUME pc' = "idle" PROVE ~(f[Len(f)].size > 4)
      <4>1. ~(1 < Len(f)) /\ ~(1 = Len(f) /\ f[1].size > 4)
        BY <3>1, <3>2 DEF InLoop
      <4>2. Len(f) \in Nat \ {0}
        BY <2>3
      <4>3. Len(f) = 1
        BY <4>1, <4>2
      <4> QED BY <4>1, <4>3
    <3>3. marked' # Len(frames')
      BY <1>0, <2>2, <2>3, <2>4
    <3> QED BY <2>3, <2>4, <2>5, <3>2, <3>3 DEF MarkerEndsFrame
  <2>7. CASE ~session /\ UNCHANGED <<pc, unit, idx, off>>
    BY <2>2, <2>4, <2>5, <2>7 DEF MarkerEndsFrame
  <2> QED BY <2>1, <2>6, <2>7
<1>2. CASE SendPacket
  <2>1. pc = "unit" /\ Advance /\ frames' = frames
    BY <1>2 DEF SendPacket
  <2>2. frame' = frame
    BY <2>1, SameFrame
  <2>3. /\ pc' \in {"idle", "unit"}
        /\ ~packet.end => pc' = "unit" /\ unit' = unit
        /\ packet.end => /\ pc' = "unit" => unit' = unit + 1 /\ InLoop(frame, unit + 1)
                         /\ pc' = "idle" => ~InLoop(frame, unit + 1)
    BY <2>1, Advancing
  <2>4. unit \in Nat \ {0} /\ unit \in 1..Len(frame) /\ Len(frame) \in Nat
        /\ frame[Len(frame)].size \in Nat /\ frame[Len(frame)].special \in BOOLEAN
        /\ InLoop(frame, unit)
    <3>1. frames # << >> /\ unit \in 1..Len(frame) /\ InLoop(frame, unit)
      BY <2>1 DEF Control
    <3> QED BY <3>1, TheFrame DEF TypeOK
  <2>5. /\ packet.marker <=> packet.end /\ unit = Len(frame) /\ ~frame[unit].special
        /\ packet.unit = <<Len(frames), unit>>
    BY <2>1, ThePacket DEF Marker
  <2>6. marked' = marked \/ (marked' = Len(frames) /\ packet.marker)
    <3>1. CASE Receive(packet)
      BY <2>5, <3>1 DEF Receive
    <3>2. CASE UNCHANGED player
      BY <3>2 DEF player
    <3> QED BY <1>2, <3>1, <3>2 DEF SendPacket
  <2>7. packet.marker => pc' = "idle"
    BY <2>3, <2>4, <2>5 DEF InLoop
  <2>8. marked < Len(frames)
    BY <2>1 DEF Marked
  <2>9. Marked'
    BY <1>0, <2>1, <2>6, <2>7, <2>8 DEF Marked
  <2>10. ASSUME pc' = "idle", ~spoiled'
         PROVE  marked' = Len(frames) <=>
                   frame[Len(frame)].size > 4 /\ ~frame[Len(frame)].special
    <3>1. Receive(packet)
      BY <1>2, <2>10 DEF SendPacket
    <3>2. packet.end
      BY <2>3, <2>10
    <3>3. marked' = (IF packet.marker THEN Len(frames) ELSE marked)
      BY <2>5, <3>1 DEF Receive
    <3>4. marked' = Len(frames) <=> packet.marker
      BY <1>0, <2>8, <3>3
    <3>5. ~InLoop(frame, unit + 1)
      BY <2>3, <2>10, <3>2
    <3>6. CASE unit = Len(frame)
      BY <2>4, <2>5, <3>2, <3>4, <3>6 DEF InLoop
    <3>7. CASE unit < Len(frame)
      <4>1. unit + 1 = Len(frame) /\ ~(frame[Len(frame)].size > 4)
        BY <2>4, <3>5, <3>7 DEF InLoop
      <4>2. ~packet.marker
        BY <2>4, <2>5, <3>7
      <4> QED BY <3>4, <4>1, <4>2
    <3> QED BY <2>4, <3>6, <3>7
  <2>11. MarkerEndsFrame'
    BY <2>1, <2>2, <2>9, <2>10 DEF MarkerEndsFrame, Marked
  <2> QED BY <2>9, <2>11
<1>3. CASE SendFails
  <2>1. pc = "unit" /\ pc' = "idle" /\ spoiled' /\ frames' = frames /\ marked' = marked
    BY <1>3 DEF SendFails, player
  <2> QED BY <2>1 DEF Marked, MarkerEndsFrame
<1>4. CASE CreateSession
  <2>1. frames = << >> /\ frames' = frames /\ marked' = marked /\ pc' = "idle"
    BY <1>4 DEF CreateSession, Control
  <2> QED BY <2>1 DEF Marked, MarkerEndsFrame
<1>5. CASE Still
  <2>1. frame' = frame
    BY <1>5, SameFrame DEF Still
  <2>2. Marked'
    BY <1>5 DEF Still, Marked, player
  <2>3. MarkerEndsFrame'
    BY <1>5, <2>1 DEF Still, MarkerEndsFrame, player, Control
  <2> QED BY <2>2, <2>3
<1> QED BY <1>1, <1>2, <1>3, <1>4, <1>5, Steps

(***************************************************************************)
(* What the receiver may count on.                                         *)
(***************************************************************************)

(* The receiver's fragments belong to one unit, as long as the numbering   *)
(* betrays every loss.                                                     *)
LEMMA Holding == Spec => []Held
<1>1. Init => Held
  BY DEF Init, Held
<1> QED BY <1>1, HeldStep, TypeCorrect, Numbering, PTL DEF Spec

(* The decoder only ever gets whole units: a unit cut short by a refused   *)
(* packet or by a loss is never completed by fragments of a later one.     *)
THEOREM Whole == Spec => []WholeUnits
<1>1. Init => WholeUnits
  <2>1. Init => Len(delivered) = 0
    BY DEF Init
  <2> QED BY <2>1 DEF WholeUnits
<1> QED BY <1>1, WholeStep, Holding, TypeCorrect, PTL DEF Spec

(* A frame of which no packet was refused or lost arrives completely, but  *)
(* for a last unit of four bytes or fewer.                                 *)
THEOREM Frame == Spec => []CompleteFrames
<1>1. Init => Complete /\ CompleteFrames
  BY DEF Init, Complete, CompleteFrames
<1> QED BY <1>1, CompleteStep, Holding, TypeCorrect, PTL DEF Spec

(* The marker bit is set on the last packet of a frame and on no other,    *)
(* and is missing exactly when the frame ends in a special or short unit.  *)
THEOREM Marking == Spec => []MarkerEndsFrame
<1>1. Init => Marked /\ MarkerEndsFrame
  <2>1. Init => marked = 0 /\ Len(frames) = 0 /\ pc = "create"
    BY DEF Init
  <2> QED BY <2>1 DEF Marked, MarkerEndsFrame
<1> QED BY <1>1, MarkedStep, TypeCorrect, PTL DEF Spec

(* Every unit lies behind those delivered before it. *)
LEMMA Ordering == Spec => []Ordered
<1>1. Init => Ordered
  <2>1. Init => Len(delivered) = 0
    BY DEF Init
  <2> QED BY <2>1 DEF Ordered
<1> QED BY <1>1, OrderStep, Holding, TypeCorrect, PTL DEF Spec

(* The units of the receiver, as the abstract specification sees them. *)
gotUnits == [i \in 1..Len(delivered) |-> delivered[i].unit]

LEMMA Unchanging ==
    ASSUME UNCHANGED delivered
    PROVE  gotUnits' = gotUnits
BY DEF gotUnits

LEMMA Growing ==
    ASSUME TypeOK, NEW d \in [unit : Nat \X Nat, upto : Nat],
           delivered' = Append(delivered, d)
    PROVE  gotUnits' = Append(gotUnits, d.unit)
<1>1. delivered \in Seq([unit : Nat \X Nat, upto : Nat])
  BY DEF TypeOK
<1>2. /\ Len(delivered') = Len(delivered) + 1 /\ Len(delivered) \in Nat
      /\ delivered'[Len(delivered) + 1] = d
      /\ \A i \in 1..Len(delivered) : delivered'[i] = delivered[i]
  BY <1>1, AppendProperties, LenProperties
<1>3. gotUnits \in Seq(Nat \X Nat) /\ Len(gotUnits) = Len(delivered)
  <2>1. \A i \in 1..Len(delivered) : delivered[i].unit \in Nat \X Nat
    BY <1>1, ElementOfSeq
  <2> QED BY <1>2, <2>1 DEF gotUnits
<1>4. d.unit \in Nat \X Nat
  OBVIOUS
<1>5. /\ Append(gotUnits, d.unit) \in Seq(Nat \X Nat)
      /\ Len(Append(gotUnits, d.unit)) = Len(delivered) + 1
      /\ \A i \in 1..Len(delivered) : Append(gotUnits, d.unit)[i] = gotUnits[i]
      /\ Append(gotUnits, d.unit)[Len(delivered) + 1] = d.unit
  BY <1>3, <1>4, AppendProperties
<1>6. \A i \in 1..Len(delivered) : gotUnits[i] = delivered[i].unit
  BY DEF gotUnits
<1>7. gotUnits' = [i \in 1..Len(delivered) + 1 |-> delivered'[i].unit]
  BY <1>2 DEF gotUnits
<1>8. Append(gotUnits, d.unit) = [i \in 1..Len(delivered) + 1 |-> Append(gotUnits, d.unit)[i]]
  BY <1>5
<1>9. \A i \in 1..Len(delivered) + 1 : delivered'[i].unit = Append(gotUnits, d.unit)[i]
  <2> SUFFICES ASSUME NEW i \in 1..Len(delivered) + 1
               PROVE  delivered'[i].unit = Append(gotUnits, d.unit)[i]
    OBVIOUS
  <2>1. CASE i = Len(delivered) + 1
    BY <1>2, <1>5, <2>1
  <2>2. CASE i \in 1..Len(delivered)
    BY <1>2, <1>5, <1>6, <2>2
  <2>3. i = Len(delivered) + 1 \/ i \in 1..Len(delivered)
    BY <1>2
  <2> QED BY <2>1, <2>2, <2>3
<1> QED BY <1>7, <1>8, <1>9

LEMMA UnitStep ==
    TypeOK /\ Control /\ Held /\ Ordered /\ [Next]_vars
        => [Units!Next]_<<frames, delivered>>
<1> SUFFICES ASSUME TypeOK, Control, Held, Ordered, [Next]_vars
             PROVE  Units!Next \/ UNCHANGED <<frames, delivered>>
  OBVIOUS
<1>1. CASE SendFrame
  <2>1. \E f \in Frames : frames' = Append(frames, f)
    BY <1>1 DEF SendFrame
  <2>2. UNCHANGED delivered
    BY <1>1 DEF SendFrame, player
  <2>3. Units!Offer
    BY <2>1, <2>2, Unchanging DEF Units!Offer, gotUnits
  <2> QED BY <2>3 DEF Units!Next
<1>2. CASE SendPacket
  <2>1. pc = "unit" /\ frames' = frames
    BY <1>2 DEF SendPacket
  <2>2. CASE delivered' =
               Append(delivered, [unit |-> <<Len(frames), unit>>, upto |-> nalSize])
    <3> DEFINE d == [unit |-> <<Len(frames), unit>>, upto |-> nalSize]
    <3>1. d \in [unit : Nat \X Nat, upto : Nat]
      BY <2>1, TheUnit, ThePacket
    <3>2. d.unit = <<Len(frames), unit>>
      OBVIOUS
    <3>3. gotUnits' = Append(gotUnits, d.unit)
      <4> HIDE DEF d
      <4>1. delivered' = Append(delivered, d)
        BY <2>2 DEF d
      <4> QED BY <3>1, <4>1, Growing
    <3>4. Len(frames) \in 1..Len(frames) /\ unit \in 1..Len(frames[Len(frames)])
      BY <2>1, TheUnit
    <3>5. \A i \in 1..Len(gotUnits) : Units!Before(gotUnits[i], <<Len(frames), unit>>)
      <4>1. Len(delivered) \in Nat /\ Len(gotUnits) = Len(delivered)
        BY LenProperties DEF TypeOK, gotUnits
      <4> SUFFICES ASSUME NEW i \in 1..Len(delivered)
                   PROVE  Units!Before(gotUnits[i], <<Len(frames), unit>>)
        BY <4>1
      <4> DEFINE e == delivered[i].unit
      <4>2. gotUnits[i] = e
        BY DEF gotUnits
      <4>3. e[1] \in 1..Len(frames) /\ (e[1] = Len(frames) => e[2] < unit)
        BY <2>1 DEF Ordered
      <4> HIDE DEF e
      <4>4. e[1] < Len(frames) \/ (e[1] = Len(frames) /\ e[2] < unit)
        BY <2>1, TheUnit, <4>3
      <4> QED BY <4>2, <4>4 DEF Units!Before
    <3>6. Units!Deliver
      BY <2>1, <3>2, <3>3, <3>4, <3>5 DEF Units!Deliver, gotUnits
    <3> QED BY <3>6 DEF Units!Next
  <2>3. CASE delivered' = delivered
    BY <2>1, <2>3
  <2> QED BY <1>2, <2>2, <2>3, Deliveries
<1>3. CASE SendFails
  BY <1>3 DEF SendFails, player
<1>4. CASE CreateSession
  BY <1>4 DEF CreateSession
<1>5. CASE Still
  BY <1>5 DEF Still, player
<1> QED BY <1>1, <1>2, <1>3, <1>4, <1>5, Steps

(* The sender, the network and the receiver together are the unit stream   *)
(* of UnitStream: units arrive whole, in order and at most once.           *)
THEOREM Refinement == Spec => ImplementsUnitStream
<1>1. Init => Units!Init
  <2>1. Init => gotUnits = << >> /\ frames = << >>
    BY DEF Init, gotUnits
  <2> QED BY <2>1 DEF Units!Init, gotUnits
<1> QED BY <1>1, UnitStep, Holding, Ordering, TypeCorrect, PTL DEF Spec, ImplementsUnitStream

(***************************************************************************)
(* The stream task gets to its frames.                                     *)
(***************************************************************************)

(* The RTCP task that the clean-up waits for has completed, or waits for   *)
(* the abort it has been sent.                                             *)
CleansUp ==
    /\ pc = "create" => rtcp = "none" /\ events = {}
    /\ pc = "sockets" => rtcp = "wait" /\ events = {}
    /\ pc = "cleanup" => /\ "ABORT" \in events
                         /\ "COMPLETED" \notin events => rtcp = "wait"

LEMMA SetUpMoves ==
    ASSUME TypeOK, CleansUp, [Next]_vars
    PROVE  /\ CleansUp'
           /\ pc = "create" => pc' = "create" \/ pc' \in {"sockets", "session"}
           /\ pc = "sockets" => pc' = "sockets" \/ pc' \in {"cleanup", "session"}
           /\ pc = "cleanup" => /\ pc' \in {"cleanup", "session"}
                                /\ "COMPLETED" \in events => "COMPLETED" \in events'
                                /\ RtcpStart => "COMPLETED" \in events'
           /\ pc = "session" => pc' \in {"session", "idle"}
           /\ pc \in {"idle", "unit"} => pc' \in {"idle", "unit"}
           /\ StreamTask /\ pc \in {"create", "sockets", "cleanup", "session"} => pc' # pc
<1> USE DEF CleansUp, place, setUp
<1>1. CASE CreateTask
  BY <1>1 DEF CreateTask
<1>2. CASE CreateSockets
  BY <1>2 DEF CreateSockets
<1>3. CASE Cleanup
  BY <1>3 DEF Cleanup
<1>4. CASE CreateSession
  BY <1>4 DEF CreateSession
<1>5. CASE SendFrame
  BY <1>5 DEF SendFrame, GoTo
<1>6. CASE SendPacket
  BY <1>6 DEF SendPacket, Advance, GoTo
<1>7. CASE SendFails
  BY <1>7 DEF SendFails
<1>8. CASE RtcpStart /\ ~StreamTask
  BY <1>8 DEF RtcpStart
<1>9. CASE (Tick \/ UNCHANGED vars) /\ ~StreamTask /\ ~RtcpStart
  BY <1>9 DEF Tick, vars
<1> QED BY <1>1, <1>2, <1>3, <1>4, <1>5, <1>6, <1>7, <1>8, <1>9 DEF Next, StreamTask

(* The stream task comes back for the next frame, as long as the two tasks *)
(* go on and each frame ends: whatever part of the set-up fails, it waits  *)
(* for the RTCP task only when that one is there to answer, and goes on to *)
(* its loop (w6x_rtp_sender_create, w6x_rtp_sender_session_create).        *)
THEOREM StreamIsNotStuck ==
    Spec /\ StreamGoesOn /\ RtcpGoesOn /\ FramesEnd => StreamKeepsGoing
<1> DEFINE Cr == pc = "create"
           So == pc = "sockets"
           Cl == pc = "cleanup"
           Se == pc = "session"
           Id == pc = "idle"
           Un == pc = "unit"
           Elsewhere == pc # "unit"
           Completed == "COMPLETED" \in events
           Stays == pc = "idle" \/ (pc = "cleanup" /\ "COMPLETED" \notin events)
           NotAsked == ~(rtcp = "wait" /\ Told)
           Stream == StreamTask
           Rtcp == RtcpStart
           All == TypeOK /\ CleansUp
<1>1. All => Cr \/ So \/ Cl \/ Se \/ Id \/ Un
  BY DEF TypeOK
<1>2. All /\ [Next]_vars =>
        /\ Cr => (Cr' \/ So' \/ Se') /\ (<<Stream>>_vars => ~Cr')
        /\ So => (So' \/ Cl' \/ Se') /\ (<<Stream>>_vars => ~So')
        /\ Cl => (Cl' \/ Se') /\ (<<Stream>>_vars => ~Cl')
        /\ Cl => (Completed => Completed') /\ (<<Rtcp>>_vars => Completed')
        /\ Se => (Se' \/ Id') /\ (<<Stream>>_vars => ~Se')
        /\ (Id \/ Un => Id' \/ Un')
  BY SetUpMoves
<1>3. All => /\ Stays => Id \/ (Cl /\ ~Completed)
             /\ Cl /\ ~Completed => ~NotAsked
             /\ Un => ~Elsewhere
             /\ Id => ~Un /\ ~Cl /\ ~So /\ ~Cr /\ ~Se
             /\ Cr => ~Cl /\ ~So /\ ~Se
             /\ So => ~Cl /\ ~Se
             /\ Se => ~Cl
  BY DEF CleansUp, Told
<1>4. Spec => []All
  <2>1. Init => CleansUp
    BY DEF Init, CleansUp
  <2>2. TypeOK /\ CleansUp /\ [Next]_vars => CleansUp'
    BY SetUpMoves
  <2> QED BY <2>1, <2>2, TypeCorrect, PTL DEF Spec
<1>5. /\ StreamGoesOn => []<>Stays \/ []<><<Stream>>_vars
      /\ RtcpGoesOn => []<>NotAsked \/ []<><<Rtcp>>_vars
      /\ FramesEnd => []<>Elsewhere
  BY DEF StreamGoesOn, RtcpGoesOn, FramesEnd
<1> HIDE DEF Cr, So, Cl, Se, Id, Un, Elsewhere, Completed, Stays, NotAsked, Stream, Rtcp, All
<1>6. Spec /\ StreamGoesOn /\ RtcpGoesOn /\ FramesEnd => []<>Id
  BY <1>1, <1>2, <1>3, <1>4, <1>5, PTL DEF Spec
<1> QED BY <1>6 DEF StreamKeepsGoing, Id
=============================================================================
