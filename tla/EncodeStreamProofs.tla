------------------------- MODULE EncodeStreamProofs -------------------------
(***************************************************************************)
(* Proofs about EncodeStream, for every queue length, buffer size,         *)
(* alignment, set of frame sizes and number of presses.                    *)
(***************************************************************************)
EXTENDS EncodeStream, SequenceTheorems, TLAPS

-----------------------------------------------------------------------------
(* Rounding up to the boundary: the result is a natural number, and a      *)
(* position inside the buffer stays inside it, because the buffer's size   *)
(* is a multiple of the boundary (_encoder_queue_frame).                   *)
LEMMA AlignUpInBuffer ==
  ASSUME SharedAssumption, NEW x \in Nat
  PROVE  /\ AlignUp(x) \in Nat
         /\ x <= BufSize => AlignUp(x) <= BufSize
<1> DEFINE q == (x + Align - 1) \div Align
           k == BufSize \div Align
<1>1. Align \in Nat \ {0} /\ BufSize \in Nat /\ BufSize = k * Align /\ k \in Nat
  BY Z3 DEF SharedAssumption
<1>2. q \in Nat /\ q * Align <= x + Align - 1
  BY <1>1, Z3
<1>3. q * Align \in Nat
  BY <1>1, <1>2
<1>4. ASSUME x <= BufSize PROVE q * Align <= BufSize
  <2>1. q * Align < (k + 1) * Align
    BY <1>1, <1>2, <1>3, <1>4, Z3
  <2>2. q < k + 1
    BY <2>1, <1>1, <1>2, Z3
  <2>3. q <= k
    BY <2>2, <1>1, <1>2
  <2> QED
    BY <2>3, <1>1, <1>2, Z3
<1> QED
  BY <1>3, <1>4 DEF AlignUp

-----------------------------------------------------------------------------
(* Type correctness.                                                       *)

LEMMA NoFrameType == NoFrame \in Frames
BY DEF NoFrame, Frames, Kinds

LEMMA HeadTailTypes ==
  ASSUME NEW q \in Seq(Frames), q # <<>>
  PROVE  /\ Head(q) \in Frames /\ Tail(q) \in Seq(Frames)
         /\ Len(q) >= 1 /\ Len(Tail(q)) = Len(q) - 1
         /\ \A i \in 1..Len(Tail(q)) : Tail(q)[i] = q[i + 1]
BY HeadTailProperties

(* The locals of the camera task keep their types in each of its steps. *)
LEMMA CheckPauseType ==
  ASSUME TypeOK, NEW here, NEW paused \in CameraPCs, NEW next \in CameraPCs,
         CheckPause(here, paused, next)
  PROVE  TypeOK'
BY DEF TypeOK, CheckPause, CameraDoPause, stream, Events

LEMMA CheckResumeType ==
  ASSUME TypeOK, NEW here, NEW next \in CameraPCs, CheckResume(here, next)
  PROVE  TypeOK'
BY DEF TypeOK, CheckResume, CameraDoResume, stream, Events

LEMMA CameraStepType ==
  ASSUME SharedAssumption, TypeOK, CameraStep
  PROVE  TypeOK'
<1> USE DEF shared, control, camera, stream, history
<1>1. CASE \/ CheckPause("pause1", "resume1", "resume1")
           \/ CheckPause("pause2", "resume2", "resume2")
           \/ CheckPause("pause3", "pause1", "resume3")
  <2>1. {"pause1", "resume1", "resume2", "resume3"} \subseteq CameraPCs
    BY DEF CameraPCs
  <2> QED
    BY <1>1, <2>1, CheckPauseType
<1>2. CASE \/ CheckResume("resume1", "wait")
           \/ CheckResume("resume2", "run")
           \/ CheckResume("resume3", "decide")
  <2>1. {"wait", "run", "decide"} \subseteq CameraPCs
    BY DEF CameraPCs
  <2> QED
    BY <1>2, <2>1, CheckResumeType
<1>3. CASE WaitCameraFrame
  BY <1>3 DEF TypeOK, WaitCameraFrame, CameraPCs
<1>12. CASE PollEncodeRequest \/ DecideEncode
  <2>1. cpc' \in CameraPCs
    BY <1>12 DEF PollEncodeRequest, DecideEncode, CameraPCs
  <2>3. reqSeen' \in BOOLEAN
    <3>1. ASSUME DecideEncode \/ (PollEncodeRequest /\ camPaused)
          PROVE  reqSeen' \in BOOLEAN
      BY <3>1 DEF TypeOK, PollEncodeRequest, DecideEncode
    <3>2. ASSUME PollEncodeRequest, ~camPaused
          PROVE  reqSeen' \in BOOLEAN
      BY <3>2 DEF PollEncodeRequest
    <3> QED
      BY <1>12, <3>1, <3>2
  <2> QED
    BY <1>12, <2>1, <2>3 DEF TypeOK, PollEncodeRequest, DecideEncode, OnlyLocals
<1>4. CASE GetRoom
  BY <1>4 DEF TypeOK, GetRoom, OnlyLocals, CameraPCs, SharedAssumption
<1>5. CASE PlaceFrame
  BY <1>5 DEF TypeOK, PlaceFrame, OnlyLocals, CameraPCs, Frames, Kinds
<1>6. CASE EncodeReady
  BY <1>6 DEF TypeOK, EncodeReady, CameraPCs, Frames, SharedAssumption
<1>7. CASE EncodeError \/ EncodeFuseError
  <2>1. CASE EncodeError
    BY <2>1, NoFrameType
       DEF TypeOK, EncodeError, EncodeReturns, OnlyLocals, CameraPCs
  <2>2. CASE EncodeFuseError
    <3>1. enc' \in Frames /\ cpc' \in CameraPCs /\ room' \in Nat /\ aligned' \in Nat
      BY <2>2, NoFrameType DEF EncodeFuseError, EncodeReturns, CameraPCs
    <3>2. frameMod' \in 0..Fps - 1
      BY <2>2 DEF TypeOK, EncodeFuseError, SharedAssumption
    <3> QED
      BY <2>2, <3>1, <3>2 DEF TypeOK, EncodeFuseError
  <2> QED
    BY <1>7, <2>1, <2>2
<1>8. CASE QueueFrame
  <2>1. CASE Len(queue) < QSize
    <3>1. queue' \in Seq(Frames) /\ Len(queue') = Len(queue) + 1
      BY <1>8, <2>1, AppendProperties DEF TypeOK, QueueFrame
    <3>2. Len(queue') <= QSize
      BY <2>1, <3>1, LenProperties DEF TypeOK, SharedAssumption
    <3> QED
      BY <1>8, <2>1, <3>1, <3>2 DEF TypeOK, QueueFrame, CameraPCs
  <2>2. CASE ~(Len(queue) < QSize)
    <3>1. enc' \in Frames /\ cpc' \in CameraPCs /\ room' \in Nat /\ aligned' \in Nat
      BY <1>8, <2>2, NoFrameType DEF QueueFrame, EncodeReturns, CameraPCs
    <3>2. queue' = queue /\ fresh' = FALSE
      BY <1>8, <2>2 DEF QueueFrame
    <3> QED
      BY <1>8, <3>1, <3>2 DEF TypeOK, QueueFrame
  <2> QED
    BY <2>1, <2>2
<1>9. CASE AdvanceOffset
  BY <1>9 DEF TypeOK, AdvanceOffset, CameraPCs, Frames
<1>10. CASE ReadOffset
  BY <1>10, AlignUpInBuffer DEF TypeOK, ReadOffset, OnlyLocals, CameraPCs
<1>11. CASE WriteOffset
  BY <1>11, NoFrameType
     DEF TypeOK, WriteOffset, EncodeReturns, CameraPCs, SharedAssumption
<1> QED
  BY <1>1, <1>2, <1>3, <1>4, <1>5, <1>6, <1>7, <1>8, <1>9, <1>10,
     <1>11, <1>12 DEF CameraStep

LEMMA StreamStepType ==
  ASSUME SharedAssumption, TypeOK, StreamStep
  PROVE  TypeOK'
<1> USE DEF shared, control, camera, stream, history
<1>1. CASE StreamInit \/ Rearm
  BY <1>1 DEF TypeOK, StreamInit, Rearm, SetEncodeRequest, StreamPCs, Events
<1>2. CASE TestPaused
  BY <1>2, NoFrameType DEF TypeOK, TestPaused, StreamLocals, StreamPCs
<1>3. CASE WaitFrame
  BY <1>3, HeadTailTypes DEF TypeOK, WaitFrame, StreamLocals, StreamPCs
<1>4. CASE RetestPaused \/ TestRearm \/ TestFlush
  <2>1. spc' \in StreamPCs
    BY <1>4 DEF RetestPaused, TestRearm, TestFlush, StreamPCs
  <2> QED
    BY <1>4, <2>1 DEF TypeOK, RetestPaused, TestRearm, TestFlush, StreamLocals
<1>7. CASE SendFrame
  <2>1. lateFrames' \in Nat
    <3>1. CASE rtpPaused
      BY <1>7, <3>1 DEF TypeOK, SendFrame
    <3>2. CASE ~rtpPaused
      BY <1>7, <3>2 DEF TypeOK, SendFrame
    <3> QED
      BY <3>1, <3>2
  <2> QED
    BY <1>7, <2>1 DEF TypeOK, SendFrame, StreamLocals, StreamPCs
<1>5. CASE FreeReceive("free", "reset") \/ FreeReceive("flushFree", "flushReset")
  <2>1. queue' \in Seq(Frames) /\ Len(queue') <= QSize
    <3>1. queue' = IF queue = <<>> THEN queue ELSE Tail(queue)
      BY <1>5 DEF FreeReceive
    <3>2. queue \in Seq(Frames) /\ Len(queue) \in Nat /\ Len(queue) <= QSize /\ QSize \in Nat
      BY LenProperties DEF TypeOK, SharedAssumption
    <3>3. CASE queue # <<>>
      <4>1. Tail(queue) \in Seq(Frames) /\ Len(Tail(queue)) = Len(queue) - 1
        BY <3>2, <3>3, HeadTailTypes
      <4> QED
        BY <3>1, <3>2, <3>3, <4>1
    <3> QED
      BY <3>1, <3>2, <3>3
  <2> QED
    BY <1>5, <2>1 DEF TypeOK, FreeReceive, StreamPCs
<1>6. CASE FreeReset("reset", "rearm") \/ FreeReset("flushReset", "flush")
  BY <1>6 DEF TypeOK, FreeReset, StreamPCs
<1> QED
  BY <1>1, <1>2, <1>3, <1>4, <1>5, <1>6, <1>7 DEF StreamStep

LEMMA TypeStep ==
  ASSUME SharedAssumption, TypeOK, [Next]_vars
  PROVE  TypeOK'
<1> USE DEF shared, control, camera, stream, history
<1>1. CASE CameraStep
  BY <1>1, CameraStepType
<1>2. CASE StreamStep
  BY <1>2, StreamStepType
<1>3. CASE FrameEvent
  BY <1>3 DEF TypeOK, FrameEvent, Events
<1>4. CASE TogglePause
  <2>1. toggles' \in 0..MaxToggles
    BY <1>4 DEF TypeOK, TogglePause, SharedAssumption
  <2>2. CASE rtpPaused
    BY <1>4, <2>1, <2>2 DEF TypeOK, TogglePause
  <2>3. CASE ~rtpPaused
    BY <1>4, <2>1, <2>3 DEF TypeOK, TogglePause
  <2> QED
    BY <2>2, <2>3
<1>5. CASE UNCHANGED vars
  BY <1>5 DEF TypeOK, vars
<1> QED
  BY <1>1, <1>2, <1>3, <1>4, <1>5 DEF Next

LEMMA TypeInit ==
  ASSUME SharedAssumption, Init
  PROVE  TypeOK
<1>1. queue \in Seq(Frames) /\ Len(queue) = 0
  BY EmptySeq DEF Init
<1>2. enc \in Frames /\ held \in Frames
  BY NoFrameType DEF Init
<1>3. frameMod \in 0..Fps - 1 /\ toggles \in 0..MaxToggles /\ Len(queue) <= QSize
  BY <1>1 DEF Init, SharedAssumption
<1> QED
  BY <1>1, <1>2, <1>3 DEF Init, TypeOK, CameraPCs, StreamPCs

(* Every variable keeps its type in every behaviour; in particular the     *)
(* queue never holds more than ENCODER_FRAME_QUEUE_SIZE descriptors.       *)
THEOREM TypeCorrect == Spec => []TypeOK
<1>1. SharedAssumption
  BY SharedAssumption
<1> QED
  BY <1>1, TypeInit, TypeStep, PTL DEF Spec

-----------------------------------------------------------------------------
(* What a task cannot change.                                              *)

LEMMA CameraFootprint ==
  ASSUME CameraStep
  PROVE  /\ UNCHANGED <<rtpPaused, toggles, stream, lateFrames>>
         /\ queue' = queue \/ (cpc = "push" /\ queue' = Append(queue, enc) /\ Len(queue) < QSize)
BY DEF CameraStep, CheckPause, CheckResume, WaitCameraFrame, PollEncodeRequest,
       DecideEncode, GetRoom, PlaceFrame, EncodeReady, EncodeError, EncodeFuseError,
       QueueFrame, AdvanceOffset, ReadOffset, WriteOffset, OnlyLocals,
       shared, control, camera, stream, history

LEMMA StreamFootprint ==
  ASSUME StreamStep
  PROVE  UNCHANGED <<control, camera, fresh>>
BY DEF StreamStep, StreamInit, TestPaused, WaitFrame, RetestPaused, SendFrame,
       FreeReceive, FreeReset, TestRearm, Rearm, TestFlush, StreamLocals,
       shared, control, camera, stream, history

-----------------------------------------------------------------------------
(* Every position stays inside the buffer.                                 *)

LEMMA BoundsCamera ==
  ASSUME SharedAssumption, TypeOK, BoundsInv, CameraStep
  PROVE  BoundsInv'
<1> USE DEF shared, control, camera, stream, history
<1>1. CASE \/ CheckPause("pause1", "resume1", "resume1")
           \/ CheckPause("pause2", "resume2", "resume2")
           \/ CheckPause("pause3", "pause1", "resume3")
           \/ CheckResume("resume1", "wait")
           \/ CheckResume("resume2", "run")
           \/ CheckResume("resume3", "decide")
           \/ WaitCameraFrame \/ PollEncodeRequest \/ DecideEncode
  <2>1. /\ cpc' \in {"pause1", "resume1", "resume2", "resume3", "wait", "run", "decide",
                     "pause2", "pause3", "space"}
        /\ UNCHANGED <<offset, queue, spc, held>>
    BY <1>1 DEF CheckPause, CheckResume, WaitCameraFrame, PollEncodeRequest,
                DecideEncode, OnlyLocals
  <2> QED
    BY <2>1 DEF BoundsInv, Fits
<1>2. CASE GetRoom
  <2>1. offset \in Nat /\ BufSize \in Nat /\ offset <= BufSize
    BY DEF TypeOK, BoundsInv, SharedAssumption
  <2>2. cpc' = "place" /\ room' = BufSize - offset
    BY <1>2, <2>1 DEF GetRoom
  <2>3. UNCHANGED <<offset, queue, spc, held>>
    BY <1>2 DEF GetRoom, OnlyLocals
  <2> QED
    BY <2>1, <2>2, <2>3 DEF BoundsInv, Fits
<1>3. CASE PlaceFrame
  BY <1>3 DEF TypeOK, BoundsInv, Fits, PlaceFrame, OnlyLocals, SharedAssumption
<1>4. CASE EncodeReady
  <2>1. PICK n \in FrameSizes : n <= room /\ enc' = [enc EXCEPT !.size = n]
    BY <1>4 DEF EncodeReady
  <2>2. n \in Nat /\ enc'.data = enc.data /\ enc'.size = n
    BY <2>1 DEF TypeOK, Frames, SharedAssumption
  <2>3. offset <= enc'.data /\ enc'.data + enc'.size <= BufSize
    <3>1. offset <= enc.data /\ enc.data + room <= BufSize
      BY <1>4 DEF BoundsInv, EncodeReady
    <3>2. enc.data \in Nat /\ room \in Nat /\ BufSize \in Nat
      BY DEF TypeOK, Frames, SharedAssumption
    <3>3. room - n \in Nat
      BY <2>1, <2>2, <3>2
    <3> QED
      BY <2>1, <2>2, <3>1, <3>2, <3>3
  <2> QED
    BY <1>4, <2>3 DEF BoundsInv, Fits, EncodeReady
<1>5. CASE EncodeError \/ EncodeFuseError
  BY <1>5 DEF BoundsInv, Fits, EncodeError, EncodeFuseError, EncodeReturns, OnlyLocals
<1>6. CASE QueueFrame
  <2>1. CASE Len(queue) < QSize
    <3>1. /\ queue' = Append(queue, enc) /\ cpc' = "bump" /\ cpc = "push"
          /\ UNCHANGED <<offset, enc, spc, held>>
      BY <1>6, <2>1 DEF QueueFrame
    <3>2. \A i \in 1..Len(queue') : queue'[i] = enc \/ \E j \in 1..Len(queue) : queue'[i] = queue[j]
      BY <3>1, AppendProperties DEF TypeOK
    <3> QED
      BY <3>1, <3>2 DEF BoundsInv, Fits
  <2>2. CASE ~(Len(queue) < QSize)
    BY <1>6, <2>2 DEF BoundsInv, Fits, QueueFrame, EncodeReturns
  <2> QED
    BY <2>1, <2>2
<1>7. CASE AdvanceOffset
  BY <1>7 DEF TypeOK, Frames, BoundsInv, Fits, AdvanceOffset, SharedAssumption
<1>8. CASE ReadOffset
  <2>1. aligned' <= BufSize
    BY <1>8, AlignUpInBuffer DEF TypeOK, BoundsInv, ReadOffset
  <2> QED
    BY <1>8, <2>1 DEF BoundsInv, Fits, ReadOffset, OnlyLocals
<1>9. CASE WriteOffset
  BY <1>9 DEF BoundsInv, Fits, WriteOffset, EncodeReturns
<1> QED
  BY <1>1, <1>2, <1>3, <1>4, <1>5, <1>6, <1>7, <1>8, <1>9 DEF CameraStep

LEMMA BoundsStream ==
  ASSUME SharedAssumption, TypeOK, BoundsInv, StreamStep
  PROVE  BoundsInv'
<1> USE DEF shared, control, camera, stream, history
<1>1. CASE StreamInit \/ TestPaused \/ SendFrame \/ TestRearm \/ Rearm \/ TestFlush
  <2>1. /\ spc' \notin {"check", "send"}
        /\ UNCHANGED <<offset, queue, cpc, room, enc, aligned>>
    BY <1>1 DEF StreamInit, TestPaused, SendFrame, TestRearm, Rearm, TestFlush, StreamLocals
  <2> QED
    BY <2>1 DEF BoundsInv, Fits
<1>2. CASE WaitFrame
  <2>1. CASE queue # <<>>
    <3>1. held' = queue[1] /\ 1 \in 1..Len(queue)
      BY <1>2, <2>1, HeadTailTypes DEF TypeOK, WaitFrame
    <3> QED
      BY <1>2, <3>1 DEF BoundsInv, Fits, WaitFrame, StreamLocals
  <2>2. CASE queue = <<>>
    BY <1>2, <2>2 DEF BoundsInv, Fits, WaitFrame, StreamLocals
  <2> QED
    BY <2>1, <2>2
<1>3. CASE RetestPaused
  BY <1>3 DEF BoundsInv, Fits, RetestPaused, StreamLocals
<1>4. CASE FreeReceive("free", "reset") \/ FreeReceive("flushFree", "flushReset")
  <2>1. /\ spc' \notin {"check", "send"}
        /\ queue' = IF queue = <<>> THEN queue ELSE Tail(queue)
        /\ UNCHANGED <<offset, cpc, room, enc, aligned>>
    BY <1>4 DEF FreeReceive
  <2>2. \A i \in 1..Len(queue') : \E j \in 1..Len(queue) : queue'[i] = queue[j]
    <3>1. CASE queue = <<>>
      BY <2>1, <3>1
    <3>2. CASE queue # <<>>
      <4>1. /\ queue' = Tail(queue)
            /\ Len(queue) \in Nat /\ Len(Tail(queue)) = Len(queue) - 1
            /\ \A i \in 1..Len(Tail(queue)) : Tail(queue)[i] = queue[i + 1]
        BY <2>1, <3>2, HeadTailTypes, LenProperties DEF TypeOK
      <4>2. \A i \in 1..Len(queue') : i + 1 \in 1..Len(queue) /\ queue'[i] = queue[i + 1]
        BY <4>1
      <4> QED
        BY <4>2
    <3> QED
      BY <3>1, <3>2
  <2> QED
    BY <2>1, <2>2 DEF BoundsInv, Fits
<1>5. CASE FreeReset("reset", "rearm") \/ FreeReset("flushReset", "flush")
  <2>1. /\ spc' \notin {"check", "send"}
        /\ offset' = 0 \/ offset' = offset
        /\ UNCHANGED <<queue, cpc, room, enc, aligned>>
    BY <1>5 DEF FreeReset
  <2>2. enc.data \in Nat /\ room \in Nat /\ offset \in Nat /\ BufSize \in Nat
    BY DEF TypeOK, Frames, SharedAssumption
  <2> QED
    BY <2>1, <2>2 DEF BoundsInv, Fits
<1> QED
  BY <1>1, <1>2, <1>3, <1>4, <1>5 DEF StreamStep

LEMMA BoundsStep ==
  ASSUME SharedAssumption, TypeOK, BoundsInv, [Next]_vars
  PROVE  BoundsInv'
<1> USE DEF shared, control, camera, stream, history
<1>1. CASE FrameEvent \/ TogglePause \/ UNCHANGED vars
  <2>1. UNCHANGED <<offset, queue, cpc, room, enc, aligned, spc, held>>
    BY <1>1 DEF FrameEvent, TogglePause, vars
  <2> QED
    BY <2>1 DEF BoundsInv, Fits
<1> QED
  BY <1>1, BoundsCamera, BoundsStream DEF Next

(* The encoder writes and the stream task reads inside _encoder_stream,    *)
(* however the tasks race on _encoder_stream_offset.                       *)
THEOREM BoundsHold == Spec => []BufferBounds
<1>1. SharedAssumption
  BY SharedAssumption
<1>2. Init => BoundsInv
  BY <1>1, EmptySeq DEF Init, BoundsInv, SharedAssumption
<1>3. BoundsInv => BufferBounds
  BY DEF BoundsInv, Fits, BufferBounds
<1> QED
  BY <1>1, <1>2, <1>3, TypeCorrect, BoundsStep, PTL DEF Spec

-----------------------------------------------------------------------------
(* The consumer frees the frame it sent.                                   *)

LEMMA HeldStep ==
  ASSUME TypeOK, HeldInv, [Next]_vars
  PROVE  HeldInv'
<1> USE DEF shared, control, camera, stream, history
<1>1. CASE CameraStep
  <2>1. UNCHANGED <<spc, held>>
    BY <1>1, CameraFootprint
  <2>2. queue' = queue \/ queue' = Append(queue, enc)
    BY <1>1, CameraFootprint
  <2>3. queue # <<>> => queue' # <<>> /\ Head(queue') = Head(queue)
    BY <2>2, AppendProperties, LenProperties DEF TypeOK
  <2> QED
    BY <2>1, <2>3 DEF HeldInv, FreesWhatItSent
<1>2. CASE StreamStep
  <2>1. CASE StreamInit \/ TestPaused \/ TestRearm \/ Rearm \/ TestFlush
    <3>1. spc' \notin {"check", "send", "free"}
      BY <2>1 DEF StreamInit, TestPaused, TestRearm, Rearm, TestFlush
    <3> QED
      BY <3>1 DEF HeldInv, FreesWhatItSent
  <2>2. CASE WaitFrame \/ RetestPaused \/ SendFrame
    BY <2>2 DEF HeldInv, FreesWhatItSent, WaitFrame, RetestPaused, SendFrame, StreamLocals
  <2>3. CASE \/ FreeReceive("free", "reset") \/ FreeReceive("flushFree", "flushReset")
             \/ FreeReset("reset", "rearm") \/ FreeReset("flushReset", "flush")
    <3>1. spc' \notin {"check", "send", "free"}
      BY <2>3 DEF FreeReceive, FreeReset
    <3> QED
      BY <3>1 DEF HeldInv, FreesWhatItSent
  <2> QED
    BY <1>2, <2>1, <2>2, <2>3 DEF StreamStep
<1>3. CASE FrameEvent \/ TogglePause \/ UNCHANGED vars
  <2>1. UNCHANGED <<queue, spc, held>>
    BY <1>3 DEF FrameEvent, TogglePause, vars
  <2> QED
    BY <2>1 DEF HeldInv, FreesWhatItSent
<1> QED
  BY <1>1, <1>2, <1>3 DEF Next

(* camera_encode_free removes the frame that camera_encode_wait returned   *)
(* and the stream task has sent, although the producer keeps queueing.     *)
THEOREM FreesSentFrame == Spec => []FreesWhatItSent
<1>1. SharedAssumption
  BY SharedAssumption
<1>2. Init => HeldInv
  BY DEF Init, HeldInv, FreesWhatItSent
<1>3. HeldInv => FreesWhatItSent
  BY DEF HeldInv
<1> QED
  BY <1>1, <1>2, <1>3, TypeCorrect, HeldStep, PTL DEF Spec

-----------------------------------------------------------------------------
(* The request bit is never lost.                                          *)

LEMMA RequestStep ==
  ASSUME TypeOK, NoLostRequest, [Next]_vars
  PROVE  NoLostRequest'
<1> USE DEF shared, control, camera, stream, history
<1>1. CASE \/ CheckPause("pause1", "resume1", "resume1")
           \/ CheckPause("pause2", "resume2", "resume2")
           \/ CheckPause("pause3", "pause1", "resume3")
  BY <1>1 DEF NoLostRequest, CheckPause, CameraDoPause
<1>2. CASE \/ CheckResume("resume1", "wait")
           \/ CheckResume("resume2", "run")
           \/ CheckResume("resume3", "decide")
  BY <1>2 DEF NoLostRequest, CheckResume, CameraDoResume
<1>3. CASE WaitCameraFrame
  BY <1>3 DEF NoLostRequest, WaitCameraFrame
<1>4. CASE \/ PollEncodeRequest \/ DecideEncode \/ GetRoom \/ PlaceFrame \/ EncodeReady
           \/ EncodeError \/ EncodeFuseError \/ QueueFrame \/ AdvanceOffset
           \/ ReadOffset \/ WriteOffset
  <2>1. UNCHANGED <<events, camPaused, spc>>
    BY <1>4 DEF PollEncodeRequest, DecideEncode, GetRoom, PlaceFrame, EncodeReady,
                EncodeError, EncodeFuseError, QueueFrame, AdvanceOffset, ReadOffset,
                WriteOffset, OnlyLocals
  <2> QED
    BY <2>1 DEF NoLostRequest
<1>5. CASE StreamStep
  <2>1. CASE StreamInit \/ Rearm
    BY <2>1 DEF NoLostRequest, StreamInit, Rearm, SetEncodeRequest
  <2>2. CASE ~(StreamInit \/ Rearm)
    <3>1. UNCHANGED <<events, camPaused>> /\ spc # "init"
      BY <1>5, <2>2
         DEF StreamStep, TestPaused, WaitFrame, RetestPaused, SendFrame, FreeReceive,
             FreeReset, TestRearm, TestFlush, StreamLocals
    <3> QED
      BY <3>1 DEF NoLostRequest
  <2> QED
    BY <2>1, <2>2
<1>6. CASE FrameEvent
  BY <1>6 DEF NoLostRequest, FrameEvent
<1>7. CASE TogglePause \/ UNCHANGED vars
  BY <1>7 DEF NoLostRequest, TogglePause, vars
<1> QED
  BY <1>1, <1>2, <1>3, <1>4, <1>5, <1>6, <1>7 DEF Next, CameraStep

(* Once the stream task has asked for frames, an unpaused camera task      *)
(* always finds the request bit set.                                       *)
THEOREM RequestNeverLost == Spec => []NoLostRequest
<1>1. SharedAssumption
  BY SharedAssumption
<1>2. Init => NoLostRequest
  BY DEF Init, NoLostRequest
<1> QED
  BY <1>1, <1>2, TypeCorrect, RequestStep, PTL DEF Spec

-----------------------------------------------------------------------------
(* Nothing is queued while the camera task is paused.                      *)

LEMMA PausedStep ==
  ASSUME TypeOK, PausedInv, [Next]_vars
  PROVE  PausedInv'
<1> USE DEF shared, control, camera, stream, history
<1>1. CASE CameraStep
  <2>1. CASE \/ CheckPause("pause1", "resume1", "resume1")
             \/ CheckPause("pause2", "resume2", "resume2")
             \/ CheckPause("pause3", "pause1", "resume3")
             \/ CheckResume("resume1", "wait")
             \/ CheckResume("resume2", "run")
             \/ CheckResume("resume3", "decide")
             \/ WaitCameraFrame \/ PollEncodeRequest
    <3>1. cpc' \notin EncodePCs
      BY <2>1 DEF CheckPause, CheckResume, WaitCameraFrame, PollEncodeRequest, EncodePCs
    <3> QED
      BY <3>1 DEF PausedInv
  <2>2. CASE DecideEncode
    BY <2>2 DEF PausedInv, DecideEncode, OnlyLocals, EncodePCs
  <2>3. CASE \/ GetRoom \/ PlaceFrame \/ EncodeReady \/ EncodeError \/ EncodeFuseError
             \/ QueueFrame \/ AdvanceOffset \/ ReadOffset \/ WriteOffset
    <3>1. cpc \in EncodePCs /\ UNCHANGED camPaused
      BY <2>3 DEF GetRoom, PlaceFrame, EncodeReady, EncodeError, EncodeFuseError,
                  QueueFrame, AdvanceOffset, ReadOffset, WriteOffset, OnlyLocals, EncodePCs
    <3> QED
      BY <3>1 DEF PausedInv
  <2> QED
    BY <1>1, <2>1, <2>2, <2>3 DEF CameraStep
<1>2. CASE StreamStep
  BY <1>2, StreamFootprint DEF PausedInv
<1>3. CASE FrameEvent \/ TogglePause \/ UNCHANGED vars
  BY <1>3 DEF PausedInv, FrameEvent, TogglePause, vars
<1> QED
  BY <1>1, <1>2, <1>3 DEF Next

LEMMA PausedQueue ==
  ASSUME TypeOK, PausedInv, [Next]_vars, camPaused
  PROVE  Len(queue') <= Len(queue)
<1> USE DEF shared, control, camera, stream, history
<1>1. Len(queue) \in Nat
  BY LenProperties DEF TypeOK
<1>2. CASE CameraStep
  <2>1. cpc # "push"
    BY DEF PausedInv, EncodePCs
  <2> QED
    BY <1>1, <1>2, <2>1, CameraFootprint
<1>3. CASE StreamStep
  <2>1. queue' = queue \/ (queue # <<>> /\ queue' = Tail(queue))
    BY <1>3
       DEF StreamStep, StreamInit, TestPaused, WaitFrame, RetestPaused, SendFrame,
           FreeReceive, FreeReset, TestRearm, Rearm, TestFlush, StreamLocals
  <2> QED
    BY <1>1, <2>1, HeadTailTypes DEF TypeOK
<1>4. CASE FrameEvent \/ TogglePause \/ UNCHANGED vars
  <2>1. queue' = queue
    BY <1>4 DEF FrameEvent, TogglePause, vars
  <2> QED
    BY <1>1, <2>1
<1> QED
  BY <1>2, <1>3, <1>4 DEF Next

(* From an applied pause to an applied resume no frame enters the queue,   *)
(* although the request bit is polled before the last pause check.         *)
THEOREM NothingQueued == Spec => NothingQueuedWhilePaused
<1>1. SharedAssumption
  BY SharedAssumption
<1>2. Init => PausedInv
  BY DEF Init, PausedInv, EncodePCs
<1>3. TypeOK /\ PausedInv /\ [Next]_vars => [camPaused => Len(queue') <= Len(queue)]_vars
  BY PausedQueue
<1> QED
  BY <1>1, <1>2, <1>3, TypeCorrect, PausedStep, PTL DEF Spec, NothingQueuedWhilePaused

-----------------------------------------------------------------------------
(* The forced intra frame.                                                 *)

LEMMA IntraStep ==
  ASSUME TypeOK, IntraInv, [Next]_vars
  PROVE  IntraInv'
<1> USE DEF IntraInv, shared, control, camera, stream, history
<1>1. CASE CameraStep
  <2>1. CASE \/ CheckPause("pause1", "resume1", "resume1")
             \/ CheckPause("pause2", "resume2", "resume2")
             \/ CheckPause("pause3", "pause1", "resume3")
    <3>1. cpc \notin {"encode", "push"} /\ cpc' \notin {"encode", "push"}
      BY <2>1 DEF CheckPause
    <3>2. UNCHANGED <<fresh, forced>>
      BY <2>1 DEF CheckPause, CameraDoPause
    <3> QED
      BY <3>1, <3>2
  <2>2. CASE \/ CheckResume("resume1", "wait")
             \/ CheckResume("resume2", "run")
             \/ CheckResume("resume3", "decide")
    <3>1. cpc \notin {"encode", "push"} /\ cpc' \notin {"encode", "push"}
      BY <2>2 DEF CheckResume
    <3>2. forced' = TRUE \/ UNCHANGED <<fresh, forced>>
      BY <2>2 DEF CheckResume, CameraDoResume
    <3> QED
      BY <3>1, <3>2
  <2>3. CASE \/ WaitCameraFrame \/ PollEncodeRequest \/ DecideEncode \/ GetRoom
             \/ AdvanceOffset \/ ReadOffset \/ WriteOffset
    <3>1. cpc \notin {"encode", "push"} /\ cpc' \notin {"encode", "push"}
      BY <2>3 DEF WaitCameraFrame, PollEncodeRequest, DecideEncode, GetRoom, AdvanceOffset,
                  ReadOffset, WriteOffset, EncodeReturns
    <3>2. UNCHANGED <<fresh, forced>>
      BY <2>3 DEF WaitCameraFrame, PollEncodeRequest, DecideEncode, GetRoom, AdvanceOffset,
                  ReadOffset, WriteOffset, OnlyLocals
    <3> QED
      BY <3>1, <3>2
  <2>4. CASE PlaceFrame
    <3>1. fresh' => forced
      BY <2>4 DEF PlaceFrame, OnlyLocals
    <3>2. fresh' => enc'.kind # "pred"
      BY <2>4, <3>1 DEF PlaceFrame
    <3>3. fresh' => forced' \/ encStarted'
      BY <2>4, <3>1 DEF PlaceFrame, OnlyLocals
    <3> QED
      BY <2>4, <3>2, <3>3 DEF PlaceFrame
  <2>5. CASE EncodeReady
    <3>1. enc'.kind = enc.kind /\ encStarted' /\ cpc = "encode" /\ cpc' = "push"
      BY <2>5 DEF EncodeReady, TypeOK, Frames
    <3> QED
      BY <2>5, <3>1 DEF EncodeReady
  <2>6. CASE EncodeError
    <3>1. cpc = "encode" /\ cpc' = "pause1"
      BY <2>6 DEF EncodeError, EncodeReturns
    <3>2. fresh' = fresh /\ (forced' <=> forced \/ encStarted)
      BY <2>6 DEF EncodeError, OnlyLocals
    <3> QED
      BY <3>1, <3>2
  <2>7. CASE EncodeFuseError \/ QueueFrame
    <3>1. fresh' = FALSE
      BY <2>7 DEF EncodeFuseError, QueueFrame
    <3> QED
      BY <3>1
  <2> QED
    BY <1>1, <2>1, <2>2, <2>3, <2>4, <2>5, <2>6, <2>7 DEF CameraStep
<1>2. CASE StreamStep
  <2>1. UNCHANGED <<cpc, enc, fresh, forced, encStarted>>
    BY <1>2, StreamFootprint
  <2> QED
    BY <2>1
<1>3. CASE FrameEvent \/ TogglePause \/ UNCHANGED vars
  <2>1. UNCHANGED <<cpc, enc, fresh, forced, encStarted>>
    BY <1>3 DEF FrameEvent, TogglePause, vars
  <2> QED
    BY <2>1
<1> QED
  BY <1>1, <1>2, <1>3 DEF Next

LEMMA IntraQueued ==
  ASSUME TypeOK, IntraInv, [Next]_vars, fresh, Len(queue') > Len(queue)
  PROVE  enc.kind # "pred"
<1> USE DEF shared, control, camera, stream, history
<1>1. Len(queue) \in Nat
  BY LenProperties DEF TypeOK
<1>2. CASE CameraStep
  BY <1>1, <1>2, CameraFootprint DEF IntraInv
<1>3. CASE StreamStep
  <2>1. queue' = queue \/ (queue # <<>> /\ queue' = Tail(queue))
    BY <1>3
       DEF StreamStep, StreamInit, TestPaused, WaitFrame, RetestPaused, SendFrame,
           FreeReceive, FreeReset, TestRearm, Rearm, TestFlush, StreamLocals
  <2> QED
    BY <1>1, <2>1, HeadTailTypes DEF TypeOK
<1>4. CASE FrameEvent \/ TogglePause \/ UNCHANGED vars
  <2>1. queue' = queue
    BY <1>4 DEF FrameEvent, TogglePause, vars
  <2> QED
    BY <1>1, <2>1
<1> QED
  BY <1>2, <1>3, <1>4 DEF Next

(* After a resume no encoder error makes the camera task queue a predicted *)
(* frame first.                                                            *)
THEOREM FirstIsIntra == Spec => FirstQueuedIsIntra
<1>1. SharedAssumption
  BY SharedAssumption
<1>2. Init => IntraInv
  BY DEF Init, IntraInv
<1>3. TypeOK /\ IntraInv /\ [Next]_vars
        => [fresh /\ Len(queue') > Len(queue) => enc.kind # "pred"]_vars
  BY IntraQueued
<1> QED
  BY <1>1, <1>2, <1>3, TypeCorrect, IntraStep, PTL DEF Spec, FirstQueuedIsIntra

-----------------------------------------------------------------------------
(* At most one live frame is late.                                         *)

LEMMA LateStep ==
  ASSUME TypeOK, LateInv, [Next]_vars
  PROVE  LateInv'
<1> USE DEF shared, control, camera, stream, history
<1>1. CASE CameraStep
  BY <1>1, CameraFootprint DEF LateInv, AtMostOneLateFrame
<1>2. CASE StreamStep
  <2>1. CASE TestPaused
    BY <2>1 DEF LateInv, AtMostOneLateFrame, TestPaused, StreamLocals, StreamPaused
  <2>2. CASE WaitFrame \/ RetestPaused
    BY <2>2
       DEF LateInv, AtMostOneLateFrame, WaitFrame, RetestPaused, StreamLocals, StreamPaused
  <2>3. CASE SendFrame
    <3>1. spc = "send" /\ spc' = "free" /\ rtpPaused' = rtpPaused
      BY <2>3 DEF SendFrame, StreamLocals
    <3>2. CASE rtpPaused
      <4>1. lateFrames = 0 /\ lateFrames' = lateFrames + 1
        BY <2>3, <3>1, <3>2 DEF LateInv, SendFrame
      <4> QED
        BY <3>1, <4>1 DEF LateInv, AtMostOneLateFrame
    <3>3. CASE ~rtpPaused
      BY <2>3, <3>1, <3>3 DEF LateInv, AtMostOneLateFrame, SendFrame
    <3> QED
      BY <3>2, <3>3
  <2>4. CASE ~(TestPaused \/ WaitFrame \/ RetestPaused \/ SendFrame)
    <3>1. UNCHANGED <<rtpPaused, lateFrames>> /\ spc' \notin {"wait", "check", "send"}
      BY <1>2, <2>4
         DEF StreamStep, StreamInit, FreeReceive, FreeReset, TestRearm, Rearm, TestFlush,
             StreamLocals
    <3> QED
      BY <3>1 DEF LateInv, AtMostOneLateFrame
  <2> QED
    BY <2>1, <2>2, <2>3, <2>4
<1>3. CASE TogglePause
  <2>1. CASE rtpPaused
    BY <1>3, <2>1 DEF LateInv, AtMostOneLateFrame, TogglePause
  <2>2. CASE ~rtpPaused
    BY <1>3, <2>2 DEF LateInv, AtMostOneLateFrame, TogglePause
  <2> QED
    BY <2>1, <2>2
<1>4. CASE FrameEvent \/ UNCHANGED vars
  BY <1>4 DEF LateInv, AtMostOneLateFrame, FrameEvent, vars
<1> QED
  BY <1>1, <1>2, <1>3, <1>4 DEF Next

(* After a press that pauses, at most one more live frame is sent.         *)
THEOREM OneLateFrame == Spec => []AtMostOneLateFrame
<1>1. SharedAssumption
  BY SharedAssumption
<1>2. Init => LateInv
  BY DEF Init, LateInv, AtMostOneLateFrame
<1>3. LateInv => AtMostOneLateFrame
  BY DEF LateInv
<1> QED
  BY <1>1, <1>2, <1>3, TypeCorrect, LateStep, PTL DEF Spec

-----------------------------------------------------------------------------
(* A patient user finds the two paused flags in agreement.                 *)

LEMMA PatientStep ==
  ASSUME SharedAssumption, TypeOK, PatientInv, [PatientNext]_vars
  PROVE  PatientInv'
<1> USE DEF shared, control, camera, stream, history
<1>1. CASE \/ CheckPause("pause1", "resume1", "resume1")
           \/ CheckPause("pause2", "resume2", "resume2")
           \/ CheckPause("pause3", "pause1", "resume3")
  <2>1. /\ UNCHANGED <<resumeReq, rtpPaused>>
        /\ \/ pauseReq /\ pauseReq' = FALSE /\ camPaused' = TRUE
           \/ UNCHANGED <<pauseReq, camPaused>>
    BY <1>1 DEF CheckPause, CameraDoPause
  <2>2. ASSUME pauseReq, pauseReq' = FALSE, camPaused' = TRUE
        PROVE  PatientInv'
    BY <2>1, <2>2 DEF PatientInv, PausedFlagsAgree
  <2>3. ASSUME UNCHANGED <<pauseReq, camPaused>>
        PROVE  PatientInv'
    BY <2>1, <2>3 DEF PatientInv, PausedFlagsAgree
  <2> QED
    BY <2>1, <2>2, <2>3
<1>2. CASE \/ CheckResume("resume1", "wait")
           \/ CheckResume("resume2", "run")
           \/ CheckResume("resume3", "decide")
  <2>1. /\ UNCHANGED <<pauseReq, rtpPaused>>
        /\ \/ resumeReq /\ resumeReq' = FALSE /\ camPaused' = FALSE
           \/ UNCHANGED <<resumeReq, camPaused>>
    BY <1>2 DEF CheckResume, CameraDoResume
  <2>2. ASSUME resumeReq, resumeReq' = FALSE, camPaused' = FALSE
        PROVE  PatientInv'
    BY <2>1, <2>2 DEF PatientInv, PausedFlagsAgree
  <2>3. ASSUME UNCHANGED <<resumeReq, camPaused>>
        PROVE  PatientInv'
    BY <2>1, <2>3 DEF PatientInv, PausedFlagsAgree
  <2> QED
    BY <2>1, <2>2, <2>3
<1>3. CASE \/ WaitCameraFrame
           \/ PollEncodeRequest \/ DecideEncode \/ GetRoom \/ PlaceFrame \/ EncodeReady
           \/ EncodeError \/ EncodeFuseError \/ QueueFrame \/ AdvanceOffset
           \/ ReadOffset \/ WriteOffset
  <2>1. UNCHANGED <<pauseReq, resumeReq, rtpPaused, camPaused>>
    BY <1>3 DEF WaitCameraFrame, PollEncodeRequest, DecideEncode, GetRoom, PlaceFrame,
                EncodeReady, EncodeError, EncodeFuseError, QueueFrame, AdvanceOffset,
                ReadOffset, WriteOffset, OnlyLocals
  <2> QED
    BY <2>1 DEF PatientInv, PausedFlagsAgree
<1>4. CASE StreamStep
  BY <1>4, StreamFootprint DEF PatientInv, PausedFlagsAgree
<1>5. CASE FrameEvent \/ UNCHANGED vars
  BY <1>5 DEF PatientInv, PausedFlagsAgree, FrameEvent, vars
<1>6. CASE TogglePause /\ (toggles' # toggles => ~pauseReq /\ ~resumeReq)
  <2>1. toggles' # toggles
    BY <1>6 DEF TogglePause, TypeOK, SharedAssumption
  <2> QED
    BY <1>6, <2>1 DEF PatientInv, PausedFlagsAgree, TogglePause
<1> QED
  BY <1>1, <1>2, <1>3, <1>4, <1>5, <1>6 DEF PatientNext, Next, CameraStep

(* If every press is applied before the next one is handled, the camera    *)
(* task is paused exactly when the stream is, once no request is pending.  *)
THEOREM PatientAgreement == PatientSpec => []PausedFlagsAgree
<1>1. SharedAssumption
  BY SharedAssumption
<1>2. Init => PatientInv
  BY DEF Init, PatientInv, PausedFlagsAgree
<1>3. PatientInv => PausedFlagsAgree
  BY DEF PatientInv
<1>4. [PatientNext]_vars => [Next]_vars
  BY DEF PatientNext
<1> QED
  BY <1>1, <1>2, <1>3, <1>4, TypeInit, TypeStep, PatientStep, PTL DEF PatientSpec

-----------------------------------------------------------------------------
(* The two tasks implement the abstract channel.                           *)

Out == IF spc \in {"send", "free"} THEN held ELSE NoFrame

LEMMA ChannelCamera ==
  ASSUME SharedAssumption, TypeOK, BoundsInv, CameraStep
  PROVE  Channel!ChanNext \/ UNCHANGED Channel!ChanVars
<1>1. UNCHANGED <<spc, held>>
  BY CameraFootprint DEF stream
<1>2. Out' = Out
  BY <1>1 DEF Out
<1>3. CASE queue' = queue
  BY <1>2, <1>3 DEF Out, Channel!ChanVars
<1>4. CASE cpc = "push" /\ queue' = Append(queue, enc) /\ Len(queue) < QSize
  <2>1. enc \in [data : 0..BufSize, size : 0..BufSize, kind : Kinds]
    <3>1. enc \in Frames /\ enc.data + enc.size <= BufSize /\ BufSize \in Nat
      BY <1>4 DEF TypeOK, BoundsInv, Fits, SharedAssumption
    <3>2. enc.data \in 0..BufSize /\ enc.size \in 0..BufSize
      BY <3>1 DEF Frames
    <3> QED
      BY <3>1, <3>2 DEF Frames
  <2>2. Channel!Accept
    BY <1>2, <1>4, <2>1 DEF Out, Channel!Accept
  <2> QED
    BY <2>2 DEF Channel!ChanNext
<1> QED
  BY <1>3, <1>4, CameraFootprint

LEMMA ChannelStream ==
  ASSUME TypeOK, HeldInv, StreamStep
  PROVE  Channel!ChanNext \/ UNCHANGED Channel!ChanVars
<1> USE DEF shared, control, camera, stream, history
<1>1. ASSUME UNCHANGED queue, spc \notin {"send", "free"}, spc' \notin {"send", "free"}
      PROVE  UNCHANGED Channel!ChanVars
  BY <1>1 DEF Channel!ChanVars
<1>2. CASE StreamInit \/ TestPaused \/ WaitFrame \/ TestRearm \/ Rearm \/ TestFlush
  BY <1>1, <1>2 DEF StreamInit, TestPaused, WaitFrame, TestRearm, Rearm, TestFlush, StreamLocals
<1>3. CASE RetestPaused
  <2>1. CASE spc' = "send"
    <3>1. spc = "check" /\ UNCHANGED <<queue, held>>
      BY <1>3 DEF RetestPaused, StreamLocals
    <3>2. queue # <<>> /\ Head(queue) = held
      BY <3>1 DEF HeldInv, FreesWhatItSent
    <3>3. Out = NoFrame /\ Out' = held
      BY <2>1, <3>1 DEF Out
    <3>4. Channel!StartDelivery
      BY <3>1, <3>2, <3>3 DEF Out, Channel!StartDelivery
    <3> QED
      BY <3>4 DEF Channel!ChanNext
  <2>2. CASE spc' # "send"
    BY <1>1, <1>3, <2>2 DEF RetestPaused, StreamLocals
  <2> QED
    BY <2>1, <2>2
<1>4. CASE SendFrame
  BY <1>4 DEF SendFrame, StreamLocals, Channel!ChanVars
<1>5. CASE FreeReceive("free", "reset")
  <2>1. spc = "free" /\ spc' = "reset" /\ queue # <<>> /\ Head(queue) = held
    BY <1>5 DEF FreeReceive, HeldInv, FreesWhatItSent
  <2>2. queue' = Tail(queue)
    BY <1>5, <2>1 DEF FreeReceive
  <2>3. held # NoFrame
    BY <2>1 DEF HeldInv, NoFrame
  <2>4. Out = held /\ Out' = NoFrame
    BY <2>1 DEF Out
  <2>5. Channel!EndDelivery
    BY <2>1, <2>2, <2>3, <2>4 DEF Out, Channel!EndDelivery
  <2> QED
    BY <2>5 DEF Channel!ChanNext
<1>6. CASE FreeReceive("flushFree", "flushReset")
  <2>1. spc = "flushFree" /\ spc' = "flushReset"
    BY <1>6 DEF FreeReceive
  <2>2. Out = NoFrame /\ Out' = NoFrame
    BY <2>1 DEF Out
  <2>3. CASE queue = <<>>
    <3>1. UNCHANGED queue
      BY <1>6, <2>3 DEF FreeReceive
    <3> QED
      BY <1>1, <2>1, <3>1
  <2>4. CASE queue # <<>>
    <3>1. queue' = Tail(queue)
      BY <1>6, <2>4 DEF FreeReceive
    <3>2. Channel!Discard
      BY <2>2, <2>4, <3>1 DEF Out, Channel!Discard
    <3> QED
      BY <3>2 DEF Channel!ChanNext
  <2> QED
    BY <2>3, <2>4
<1>7. CASE FreeReset("reset", "rearm") \/ FreeReset("flushReset", "flush")
  BY <1>1, <1>7 DEF FreeReset
<1> QED
  BY <1>2, <1>3, <1>4, <1>5, <1>6, <1>7 DEF StreamStep

LEMMA ChannelStep ==
  ASSUME SharedAssumption, TypeOK, BoundsInv, HeldInv, [Next]_vars
  PROVE  [Channel!ChanNext]_(Channel!ChanVars)
<1>1. CASE FrameEvent \/ TogglePause \/ UNCHANGED vars
  <2>1. UNCHANGED <<queue, spc, held>>
    BY <1>1 DEF FrameEvent, TogglePause, vars, shared, stream, control, camera, history
  <2> QED
    BY <2>1 DEF Channel!ChanVars
<1> QED
  BY <1>1, ChannelCamera, ChannelStream DEF Next

(* Every step of the video path is a step of the abstract channel or       *)
(* leaves it alone: frames leave the queue in order, each once, and none   *)
(* is discarded or overtaken while it is being sent.                       *)
THEOREM ChannelRefinement == Spec => Channel!ChanSafeSpec
<1>1. SharedAssumption
  BY SharedAssumption
<1>2. Init => BoundsInv /\ HeldInv
  BY <1>1, EmptySeq DEF Init, BoundsInv, HeldInv, FreesWhatItSent, SharedAssumption
<1>3. Init => Channel!ChanInit
  BY DEF Init, Channel!ChanInit
<1> QED
  BY <1>1, <1>2, <1>3, TypeCorrect, BoundsStep, HeldStep, ChannelStep, PTL
     DEF Spec, Channel!ChanSafeSpec
-----------------------------------------------------------------------------
(* Without a rewind between the choice of a position and the queueing of   *)
(* its frame the frames queued are never written over.                     *)

(* Rounding up to the boundary goes up, and leaves 0 where it is.          *)
LEMMA AlignUpIsUp ==
  ASSUME SharedAssumption, NEW x \in Nat
  PROVE  AlignUp(x) >= x /\ AlignUp(0) = 0
<1> DEFINE q == (x + Align - 1) \div Align
<1>1. Align \in Nat \ {0}
  BY DEF SharedAssumption
<1>2. q \in Nat /\ x + Align - 1 < (q + 1) * Align
  BY <1>1, Z3
<1>3. (q + 1) * Align = q * Align + Align /\ q * Align \in Nat
  BY <1>1, <1>2, Z3
<1>4. AlignUp(x) >= x
  BY <1>1, <1>2, <1>3 DEF AlignUp
<1>5. (0 + Align - 1) \div Align = 0
  BY <1>1, Z3
<1> QED
  BY <1>1, <1>4, <1>5 DEF AlignUp

(* What FreeReceive leaves in the queue was in it. *)
LEMMA Remaining ==
  ASSUME TypeOK, queue' = IF queue = <<>> THEN queue ELSE Tail(queue)
  PROVE  \A i \in 1..Len(queue') : \E j \in 1..Len(queue) : queue'[i] = queue[j]
<1>1. CASE queue = <<>>
  BY <1>1
<1>2. CASE queue # <<>>
  <2>1. /\ queue' = Tail(queue)
        /\ Len(queue) \in Nat /\ Len(Tail(queue)) = Len(queue) - 1
        /\ \A i \in 1..Len(Tail(queue)) : Tail(queue)[i] = queue[i + 1]
    BY <1>2, HeadTailTypes, LenProperties DEF TypeOK
  <2>2. \A i \in 1..Len(queue') : i + 1 \in 1..Len(queue) /\ queue'[i] = queue[i + 1]
    BY <2>1
  <2> QED
    BY <2>2
<1> QED
  BY <1>1, <1>2

(* A frame queued is a frame, and so its end a number. *)
LEMMA QueuedType ==
  ASSUME TypeOK, NEW i \in 1..Len(queue)
  PROVE  queue[i] \in Frames /\ queue[i].data + queue[i].size \in Nat
<1>1. queue[i] \in Frames
  BY ElementOfSeq DEF TypeOK
<1> QED
  BY <1>1 DEF Frames

(* Nothing is in front of a higher position than before. *)
LEMMA TopRises ==
  ASSUME TypeOK, LaidOutInv, Top \in Nat, Top' \in Nat, Top <= Top',
         \A i \in 1..Len(queue') : \E j \in 1..Len(queue) : queue'[i] = queue[j],
         cpc' \in {"encode", "push"} => enc'.data = offset'
  PROVE  LaidOutInv'
<1>1. ASSUME NEW i \in 1..Len(queue')
      PROVE  queue'[i].data + queue'[i].size <= Top'
  <2>1. PICK j \in 1..Len(queue) : queue'[i] = queue[j]
    OBVIOUS
  <2>2. queue[j].data + queue[j].size <= Top /\ queue[j].data + queue[j].size \in Nat
    BY QueuedType DEF LaidOutInv
  <2> QED
    BY <2>1, <2>2
<1> QED
  BY <1>1 DEF LaidOutInv

LEMMA TopType ==
  ASSUME TypeOK
  PROVE  Top \in Nat
BY DEF Top, TypeOK, Frames

LEMMA LaidOutCamera ==
  ASSUME SharedAssumption, TypeOK, LaidOutInv, CameraStep
  PROVE  LaidOutInv'
<1> USE DEF shared, control, camera, stream, history
<1>0. TypeOK' /\ Top \in Nat
  BY TypeStep, TopType DEF Next
<1>1. CASE \/ CheckPause("pause1", "resume1", "resume1")
           \/ CheckPause("pause2", "resume2", "resume2")
           \/ CheckPause("pause3", "pause1", "resume3")
           \/ CheckResume("resume1", "wait")
           \/ CheckResume("resume2", "run")
           \/ CheckResume("resume3", "decide")
           \/ WaitCameraFrame \/ PollEncodeRequest \/ DecideEncode \/ GetRoom
           \/ EncodeError \/ EncodeFuseError
  <2>1. /\ cpc \notin {"bump", "realign"} /\ cpc' \notin {"encode", "push", "bump", "realign"}
        /\ UNCHANGED <<offset, queue>>
    BY <1>1 DEF CheckPause, CheckResume, WaitCameraFrame, PollEncodeRequest, DecideEncode,
                GetRoom, EncodeError, EncodeFuseError, EncodeReturns, OnlyLocals
  <2>2. Top' = Top
    BY <2>1 DEF Top
  <2> QED
    BY <1>0, <2>1, <2>2, TopRises
<1>2. CASE PlaceFrame
  <2>1. /\ cpc = "place" /\ cpc' = "encode" /\ enc'.data = offset
        /\ UNCHANGED <<offset, queue>>
    BY <1>2 DEF PlaceFrame, OnlyLocals
  <2>2. Top' = Top
    BY <2>1 DEF Top
  <2> QED
    BY <1>0, <2>1, <2>2, TopRises
<1>3. CASE EncodeReady
  <2>1. /\ cpc = "encode" /\ cpc' = "push" /\ enc'.data = enc.data
        /\ UNCHANGED <<offset, queue>>
    BY <1>3 DEF EncodeReady, TypeOK, Frames
  <2>2. Top' = Top
    BY <2>1 DEF Top
  <2>3. enc'.data = offset'
    BY <2>1 DEF LaidOutInv
  <2> QED
    BY <1>0, <2>1, <2>2, <2>3, TopRises
<1>4. CASE QueueFrame
  <2>1. CASE Len(queue) < QSize
    <3>1. /\ cpc = "push" /\ cpc' = "bump" /\ queue' = Append(queue, enc)
          /\ UNCHANGED <<offset, enc>>
      BY <1>4, <2>1 DEF QueueFrame
    <3>2. enc.data = offset /\ offset \in Nat /\ enc.size \in Nat
      BY <3>1 DEF LaidOutInv, TypeOK, Frames
    <3>3. Top = offset /\ Top' = offset + enc.size
      BY <3>1 DEF Top
    <3>4. ASSUME NEW i \in 1..Len(queue')
          PROVE  queue'[i].data + queue'[i].size <= Top'
      <4>1. CASE queue'[i] = enc
        BY <4>1, <3>2, <3>3
      <4>2. CASE \E j \in 1..Len(queue) : queue'[i] = queue[j]
        <5>1. PICK j \in 1..Len(queue) : queue'[i] = queue[j]
          BY <4>2
        <5>2. queue[j].data + queue[j].size <= Top /\ queue[j].data + queue[j].size \in Nat
          BY QueuedType DEF LaidOutInv
        <5> QED
          BY <3>2, <3>3, <5>1, <5>2
      <4> QED
        BY <3>1, <4>1, <4>2, AppendProperties DEF TypeOK
    <3> QED
      BY <3>1, <3>4 DEF LaidOutInv
  <2>2. CASE ~(Len(queue) < QSize)
    <3>1. cpc = "push" /\ cpc' = "pause1" /\ UNCHANGED <<offset, queue>>
      BY <1>4, <2>2 DEF QueueFrame, EncodeReturns
    <3>2. Top' = Top
      BY <3>1 DEF Top
    <3> QED
      BY <1>0, <3>1, <3>2, TopRises
  <2> QED
    BY <2>1, <2>2
<1>5. CASE AdvanceOffset
  <2>1. /\ cpc = "bump" /\ cpc' = "align" /\ offset' = offset + enc.size
        /\ UNCHANGED queue
    BY <1>5 DEF AdvanceOffset
  <2>2. Top' = Top
    BY <2>1 DEF Top
  <2> QED
    BY <1>0, <2>1, <2>2, TopRises
<1>6. CASE ReadOffset
  <2>1. /\ cpc = "align" /\ cpc' = "realign" /\ aligned' = AlignUp(offset)
        /\ UNCHANGED <<queue, offset>>
    BY <1>6 DEF ReadOffset, OnlyLocals
  <2>2. Top' = AlignUp(offset) /\ Top = offset /\ offset \in Nat
    BY <2>1 DEF Top, TypeOK
  <2>3. Top <= Top' /\ Top' \in Nat
    BY <2>2, AlignUpIsUp, AlignUpInBuffer
  <2> QED
    BY <1>0, <2>1, <2>3, TopRises
<1>7. CASE WriteOffset
  <2>1. /\ cpc = "realign" /\ cpc' = "pause1" /\ offset' = aligned
        /\ UNCHANGED queue
    BY <1>7 DEF WriteOffset, EncodeReturns
  <2>2. Top' = Top
    BY <2>1 DEF Top
  <2> QED
    BY <1>0, <2>1, <2>2, TopRises
<1> QED
  BY <1>1, <1>2, <1>3, <1>4, <1>5, <1>6, <1>7 DEF CameraStep

LEMMA LaidOutStream ==
  ASSUME SharedAssumption, TypeOK, LaidOutInv, StreamStep, ~RewindsAt({"encode", "push"})
  PROVE  LaidOutInv'
<1> USE DEF shared, control, camera, stream, history
<1>0. UNCHANGED <<cpc, enc, aligned>> /\ TypeOK' /\ Top \in Nat
  BY StreamFootprint, TypeStep, TopType DEF Next
<1>1. CASE \/ StreamInit \/ TestPaused \/ WaitFrame \/ RetestPaused \/ SendFrame
           \/ TestRearm \/ Rearm \/ TestFlush
  <2>1. UNCHANGED <<offset, queue>>
    BY <1>1 DEF StreamInit, TestPaused, WaitFrame, RetestPaused, SendFrame, TestRearm,
                Rearm, TestFlush, StreamLocals
  <2> QED
    BY <1>0, <2>1 DEF LaidOutInv, Top
<1>2. CASE FreeReceive("free", "reset") \/ FreeReceive("flushFree", "flushReset")
  <2>1. UNCHANGED offset /\ queue' = IF queue = <<>> THEN queue ELSE Tail(queue)
    BY <1>2 DEF FreeReceive
  <2>2. Top' = Top
    BY <1>0, <2>1 DEF Top
  <2>3. cpc' \in {"encode", "push"} => enc'.data = offset'
    BY <1>0, <2>1 DEF LaidOutInv
  <2> QED
    BY <1>0, <2>1, <2>2, <2>3, Remaining, TopRises
<1>3. CASE FreeReset("reset", "rearm") \/ FreeReset("flushReset", "flush")
  <2>1. CASE queue = <<>>
    <3>1. cpc \notin {"encode", "push"} /\ queue' = <<>>
      BY <1>3, <2>1 DEF FreeReset, RewindsAt
    <3> QED
      BY <1>0, <3>1 DEF LaidOutInv
  <2>2. CASE queue # <<>>
    <3>1. UNCHANGED <<offset, queue>>
      BY <1>3, <2>2 DEF FreeReset
    <3> QED
      BY <1>0, <3>1 DEF LaidOutInv, Top
  <2> QED
    BY <2>1, <2>2
<1> QED
  BY <1>1, <1>2, <1>3 DEF StreamStep

LEMMA LaidOutStep ==
  ASSUME SharedAssumption, TypeOK, LaidOutInv, [Next /\ ~RewindsAt({"encode", "push"})]_vars
  PROVE  LaidOutInv'
<1>1. CASE FrameEvent \/ TogglePause \/ UNCHANGED vars
  <2>1. UNCHANGED <<offset, queue, cpc, enc, aligned>>
    BY <1>1 DEF FrameEvent, TogglePause, vars, shared, control, camera, stream, history
  <2> QED
    BY <2>1 DEF LaidOutInv, Top
<1> QED
  BY <1>1, LaidOutCamera, LaidOutStream DEF Next

LEMMA LaidOut == PlacedSpec => []LaidOutInv
<1>1. SharedAssumption
  BY SharedAssumption
<1>2. Init => LaidOutInv
  BY EmptySeq DEF Init, LaidOutInv
<1>3. [Next /\ ~RewindsAt({"encode", "push"})]_vars => [Next]_vars
  OBVIOUS
<1> QED
  BY <1>1, <1>2, <1>3, TypeInit, TypeStep, LaidOutStep, PTL DEF PlacedSpec

(* The comment of _get_next_frame_buffer is right but for one race: if     *)
(* camera_encode_free never rewinds while a frame is encoded or about to   *)
(* be queued, the position handed to the encoder is free.                  *)
THEOREM PositionIsFree == PlacedSpec => []NextPositionIsFree
<1>1. TypeOK /\ LaidOutInv => NextPositionIsFree
  <2>1. SUFFICES ASSUME TypeOK, LaidOutInv, cpc = "encode", NEW i \in 1..Len(queue)
                 PROVE  ~(enc.data < queue[i].data + queue[i].size)
    BY DEF NextPositionIsFree
  <2>2. queue[i].data + queue[i].size <= enc.data /\ enc.data \in Nat
    BY <2>1 DEF LaidOutInv, Top, TypeOK, Frames
  <2> QED
    BY <2>1, <2>2, QueuedType
<1>2. SharedAssumption
  BY SharedAssumption
<1>3. [Next /\ ~RewindsAt({"encode", "push"})]_vars => [Next]_vars
  OBVIOUS
<1> QED
  BY <1>1, <1>2, <1>3, TypeInit, TypeStep, LaidOut, PTL DEF PlacedSpec

(* And no byte of a frame that is queued, or being sent, is written over.  *)
THEOREM FramesKept == PlacedSpec => []NothingOverwritten
<1>1. LaidOutInv => NothingOverwritten
  BY DEF LaidOutInv, Top, NothingOverwritten
<1> QED
  BY <1>1, LaidOut, PTL

-----------------------------------------------------------------------------
(* Without a rewind in front of the write of an older offset no rewind is  *)
(* undone.                                                                 *)

LEMMA RewoundCamera ==
  ASSUME SharedAssumption, TypeOK, RewoundInv, CameraStep
  PROVE  RewoundInv'
<1> USE DEF shared, control, camera, stream, history
<1>0. UNCHANGED spc
  BY CameraFootprint
<1>1. CASE \/ CheckPause("pause1", "resume1", "resume1")
           \/ CheckPause("pause2", "resume2", "resume2")
           \/ CheckPause("pause3", "pause1", "resume3")
           \/ CheckResume("resume1", "wait")
           \/ CheckResume("resume2", "run")
           \/ CheckResume("resume3", "decide")
           \/ WaitCameraFrame \/ PollEncodeRequest \/ DecideEncode \/ GetRoom
           \/ PlaceFrame \/ EncodeReady \/ EncodeError \/ EncodeFuseError
  <2>1. cpc' \notin {"bump", "realign"} /\ UNCHANGED <<offset, queue>>
    BY <1>1 DEF CheckPause, CheckResume, WaitCameraFrame, PollEncodeRequest, DecideEncode,
                GetRoom, PlaceFrame, EncodeReady, EncodeError, EncodeFuseError, EncodeReturns,
                OnlyLocals
  <2> QED
    BY <1>0, <2>1 DEF RewoundInv
<1>2. CASE QueueFrame
  <2>1. queue' # <<>>
    <3>1. CASE Len(queue) < QSize
      BY <1>2, <3>1, AppendProperties, EmptySeq DEF QueueFrame, TypeOK
    <3>2. CASE ~(Len(queue) < QSize)
      BY <1>2, <3>2, EmptySeq DEF QueueFrame, SharedAssumption
    <3> QED
      BY <3>1, <3>2
  <2> QED
    BY <2>1 DEF RewoundInv
<1>3. CASE AdvanceOffset
  BY <1>0, <1>3 DEF RewoundInv, AdvanceOffset
<1>4. CASE ReadOffset
  <2>1. offset = 0 => aligned' = 0
    BY <1>4, AlignUpIsUp DEF ReadOffset, TypeOK
  <2> QED
    BY <1>0, <1>4, <2>1 DEF RewoundInv, ReadOffset, OnlyLocals
<1>5. CASE WriteOffset
  BY <1>0, <1>5 DEF RewoundInv, WriteOffset, EncodeReturns
<1> QED
  BY <1>1, <1>2, <1>3, <1>4, <1>5 DEF CameraStep

LEMMA RewoundStream ==
  ASSUME TypeOK, RewoundInv, StreamStep, ~RewindsAt({"bump", "realign"})
  PROVE  RewoundInv'
<1> USE DEF shared, control, camera, stream, history
<1>0. UNCHANGED <<cpc, aligned>>
  BY StreamFootprint
<1>1. CASE \/ StreamInit \/ TestPaused \/ WaitFrame \/ RetestPaused \/ SendFrame
           \/ TestRearm \/ Rearm \/ TestFlush
  <2>1. UNCHANGED <<offset, queue>> /\ spc \notin {"reset", "flushReset"}
    BY <1>1 DEF StreamInit, TestPaused, WaitFrame, RetestPaused, SendFrame, TestRearm,
                Rearm, TestFlush, StreamLocals
  <2> QED
    BY <1>0, <2>1 DEF RewoundInv
<1>2. CASE FreeReceive("free", "reset") \/ FreeReceive("flushFree", "flushReset")
  BY <1>2 DEF RewoundInv, FreeReceive
<1>3. CASE FreeReset("reset", "rearm") \/ FreeReset("flushReset", "flush")
  <2>1. UNCHANGED queue /\ (queue = <<>> => offset' = 0 /\ cpc \notin {"bump", "realign"})
    BY <1>3 DEF FreeReset, RewindsAt
  <2> QED
    BY <1>0, <2>1 DEF RewoundInv
<1> QED
  BY <1>1, <1>2, <1>3 DEF StreamStep

LEMMA Rewound == RewoundSpec => []RewoundInv
<1>1. SharedAssumption
  BY SharedAssumption
<1>2. Init => RewoundInv
  BY DEF Init, RewoundInv
<1>3. [Next /\ ~RewindsAt({"bump", "realign"})]_vars => [Next]_vars
  OBVIOUS
<1>4. ASSUME TypeOK, RewoundInv, [Next /\ ~RewindsAt({"bump", "realign"})]_vars
      PROVE  RewoundInv'
  <2>1. CASE FrameEvent \/ TogglePause \/ UNCHANGED vars
    <3>1. UNCHANGED <<offset, queue, cpc, aligned, spc>>
      BY <2>1 DEF FrameEvent, TogglePause, vars, shared, control, camera, stream, history
    <3> QED
      BY <1>4, <3>1 DEF RewoundInv
  <2> QED
    BY <1>1, <1>4, <2>1, RewoundCamera, RewoundStream DEF Next
<1> QED
  BY <1>1, <1>2, <1>3, <1>4, TypeInit, TypeStep, PTL DEF RewoundSpec

(* The note on camera_encode_free is right but for the other race: if no   *)
(* rewind comes in front of a write that puts an older offset back, the    *)
(* buffer of an empty queue is empty, too, once camera_encode_free is done.*)
THEOREM EmptyIsRewound == RewoundSpec => []EmptyQueueRewound
<1>1. RewoundInv => EmptyQueueRewound
  BY DEF RewoundInv, EmptyQueueRewound
<1> QED
  BY <1>1, Rewound, PTL

(* Then a full buffer is used again, as the note says, as long as the      *)
(* stream task goes on and there is a frame that fits the buffer.          *)
THEOREM FullBufferIsReused ==
  ASSUME \E n \in FrameSizes : n <= BufSize
  PROVE  RewoundSpec /\ []<><<StreamStep>>_vars => FullBufferReused
<1> DEFINE Stuck == queue = <<>> /\ BufferFull
           Freeing == spc \in {"reset", "flushReset"}
<1>1. RewoundInv /\ Stuck => Freeing
  <2>1. PICK n \in FrameSizes : n <= BufSize
    OBVIOUS
  <2>2. n \in Nat /\ BufSize \in Nat
    BY SharedAssumption DEF SharedAssumption
  <2> SUFFICES ASSUME RewoundInv, Stuck, ~Freeing
               PROVE  FALSE
    OBVIOUS
  <2>3. offset = 0 /\ offset + n > BufSize
    BY DEF RewoundInv, BufferFull
  <2> QED
    BY <2>1, <2>2, <2>3
<1>2. Freeing /\ <<StreamStep>>_vars => ~Freeing'
  BY DEF StreamStep, StreamInit, TestPaused, WaitFrame, RetestPaused, SendFrame,
         FreeReceive, FreeReset, TestRearm, Rearm, TestFlush
<1> HIDE DEF Stuck, Freeing
<1>3. RewoundSpec /\ []<><<StreamStep>>_vars => []<>~Stuck
  BY <1>1, <1>2, Rewound, PTL
<1> QED
  BY <1>3, PTL DEF FullBufferReused, Stuck
-----------------------------------------------------------------------------
(* A resume is applied as long as the camera task goes on.                 *)

(* A request to a paused camera task stays pending until it is applied,    *)
(* and only the camera task moves on in its loop.                          *)
LEMMA RequestPending ==
  ASSUME resumeReq, camPaused, [Next]_vars, ~CameraStep
  PROVE  resumeReq' /\ camPaused' /\ cpc' = cpc
<1> USE DEF shared, control, camera, stream, history
<1>1. CASE StreamStep
  BY <1>1, StreamFootprint
<1>2. CASE FrameEvent \/ TogglePause \/ UNCHANGED vars
  BY <1>2 DEF FrameEvent, TogglePause, vars
<1> QED
  BY <1>1, <1>2 DEF Next

(* One step of a paused camera task towards the next place that looks for  *)
(* a resume, and there it finds it.                                        *)
LEMMA TowardsResume ==
  ASSUME resumeReq, camPaused, CameraStep, PausedInv, TypeOK
  PROVE  /\ cpc \in {"resume1", "resume2", "resume3"} => ~camPaused'
         /\ cpc \in {"pause1", "pause2"} =>
              resumeReq' /\ camPaused' /\ cpc' \in {"resume1", "resume2", "resume3"}
         /\ cpc \in {"wait", "run", "pause3", "decide"} =>
              /\ resumeReq' /\ camPaused'
              /\ cpc' \in {"resume1", "resume2", "resume3", "pause1", "pause2"}
<1> USE DEF shared, control, camera, stream, history
<1>1. CASE \/ CheckPause("pause1", "resume1", "resume1")
           \/ CheckPause("pause2", "resume2", "resume2")
           \/ CheckPause("pause3", "pause1", "resume3")
  BY <1>1 DEF CheckPause, CameraDoPause
<1>2. CASE \/ CheckResume("resume1", "wait")
           \/ CheckResume("resume2", "run")
           \/ CheckResume("resume3", "decide")
  BY <1>2 DEF CheckResume, CameraDoResume
<1>3. CASE WaitCameraFrame \/ PollEncodeRequest \/ DecideEncode
  BY <1>3 DEF WaitCameraFrame, PollEncodeRequest, DecideEncode, OnlyLocals
<1>4. CASE \/ GetRoom \/ PlaceFrame \/ EncodeReady \/ EncodeError \/ EncodeFuseError
           \/ QueueFrame \/ AdvanceOffset \/ ReadOffset \/ WriteOffset
  <2>1. cpc \in EncodePCs
    BY <1>4 DEF GetRoom, PlaceFrame, EncodeReady, EncodeError, EncodeFuseError, QueueFrame,
                AdvanceOffset, ReadOffset, WriteOffset, EncodePCs
  <2> QED
    BY <2>1 DEF PausedInv
<1> QED
  BY <1>1, <1>2, <1>3, <1>4 DEF CameraStep

(* A press that resumes is applied, whatever else is pressed and encoded,  *)
(* as long as the camera task goes on: it looks for a request in every     *)
(* turn of its loop, and a pause that comes first does not undo it.        *)
THEOREM ResumeIsHonoured == Spec /\ []<><<CameraStep>>_vars => ResumeHonoured
<1> DEFINE At1 == resumeReq /\ camPaused /\ cpc \in {"resume1", "resume2", "resume3"}
           At2 == resumeReq /\ camPaused /\ cpc \in {"pause1", "pause2"}
           At3 == resumeReq /\ camPaused /\ cpc \in {"wait", "run", "pause3", "decide"}
<1>1. SharedAssumption
  BY SharedAssumption
<1>2. Init => PausedInv
  BY DEF Init, PausedInv, EncodePCs
<1>3. TypeOK /\ PausedInv /\ resumeReq => At1 \/ At2 \/ At3 \/ ~camPaused
  BY DEF TypeOK, CameraPCs, PausedInv, EncodePCs
<1>4. At1 /\ [Next]_vars => At1' \/ CameraStep
  BY RequestPending
<1>5. At1 /\ CameraStep /\ TypeOK /\ PausedInv => ~camPaused'
  BY TowardsResume
<1>6. At2 /\ [Next]_vars => At2' \/ CameraStep
  BY RequestPending
<1>7. At2 /\ CameraStep /\ TypeOK /\ PausedInv => At1'
  BY TowardsResume
<1>8. At3 /\ [Next]_vars => At3' \/ CameraStep
  BY RequestPending
<1>9. At3 /\ CameraStep /\ TypeOK /\ PausedInv => At1' \/ At2'
  BY TowardsResume
<1> HIDE DEF At1, At2, At3
<1> QED
  BY <1>1, <1>2, <1>3, <1>4, <1>5, <1>6, <1>7, <1>8, <1>9,
     TypeInit, TypeStep, PausedStep, PTL DEF Spec, ResumeHonoured
-----------------------------------------------------------------------------
(* A frame queued leaves as long as the stream task goes on.               *)

LEMMA SizesCamera ==
  ASSUME SharedAssumption, TypeOK, SizesInv, CameraStep
  PROVE  SizesInv'
<1> USE DEF shared, control, camera, stream, history
<1>0. UNCHANGED <<spc, held>>
  BY CameraFootprint
<1>1. CASE QueueFrame
  <2>1. cpc = "push" /\ cpc' # "push" /\ (queue' = queue \/ queue' = Append(queue, enc))
    BY <1>1 DEF QueueFrame, EncodeReturns
  <2>2. ASSUME NEW i \in 1..Len(queue')
        PROVE  queue'[i].size # 0
    <3>1. queue'[i] = enc \/ \E j \in 1..Len(queue) : queue'[i] = queue[j]
      BY <2>1, AppendProperties DEF TypeOK
    <3> QED
      BY <2>1, <3>1 DEF SizesInv
  <2> QED
    BY <1>0, <2>1, <2>2 DEF SizesInv
<1>2. CASE EncodeReady
  <2>1. PICK n \in FrameSizes : enc' = [enc EXCEPT !.size = n]
    BY <1>2 DEF EncodeReady
  <2>2. enc'.size # 0
    BY <2>1 DEF TypeOK, Frames, SharedAssumption
  <2> QED
    BY <1>0, <1>2, <2>2 DEF SizesInv, EncodeReady
<1>3. CASE ~QueueFrame /\ ~EncodeReady
  <2>1. cpc' # "push" /\ UNCHANGED queue
    BY <1>3 DEF CameraStep, CheckPause, CheckResume, WaitCameraFrame, PollEncodeRequest,
                DecideEncode, GetRoom, PlaceFrame, EncodeError, EncodeFuseError,
                AdvanceOffset, ReadOffset, WriteOffset, EncodeReturns, OnlyLocals
  <2> QED
    BY <1>0, <2>1 DEF SizesInv
<1> QED
  BY <1>1, <1>2, <1>3

LEMMA SizesStream ==
  ASSUME TypeOK, SizesInv, StreamStep
  PROVE  SizesInv'
<1> USE DEF shared, control, camera, stream, history
<1>0. UNCHANGED <<cpc, enc>>
  BY StreamFootprint
<1>1. CASE WaitFrame
  <2>1. UNCHANGED queue
    BY <1>1 DEF WaitFrame, StreamLocals
  <2>2. spc' = "check" => held' = queue[1] /\ 1 \in 1..Len(queue)
    BY <1>1, HeadTailTypes DEF TypeOK, WaitFrame
  <2> QED
    BY <1>0, <2>1, <2>2 DEF SizesInv
<1>2. CASE FreeReceive("free", "reset") \/ FreeReceive("flushFree", "flushReset")
  <2>1. spc' # "check" /\ queue' = IF queue = <<>> THEN queue ELSE Tail(queue)
    BY <1>2 DEF FreeReceive
  <2> QED
    BY <1>0, <2>1, Remaining DEF SizesInv
<1>3. CASE ~WaitFrame /\ ~(FreeReceive("free", "reset") \/ FreeReceive("flushFree", "flushReset"))
  <2>1. spc' # "check" /\ UNCHANGED queue
    BY <1>3 DEF StreamStep, StreamInit, TestPaused, RetestPaused, SendFrame, FreeReset,
                TestRearm, Rearm, TestFlush, StreamLocals
  <2> QED
    BY <1>0, <2>1 DEF SizesInv
<1> QED
  BY <1>1, <1>2, <1>3

LEMMA SizesStep ==
  ASSUME SharedAssumption, TypeOK, SizesInv, [Next]_vars
  PROVE  SizesInv'
<1>1. CASE FrameEvent \/ TogglePause \/ UNCHANGED vars
  <2>1. UNCHANGED <<queue, cpc, enc, spc, held>>
    BY <1>1 DEF FrameEvent, TogglePause, vars, shared, control, camera, stream, history
  <2> QED
    BY <2>1 DEF SizesInv
<1> QED
  BY <1>1, SizesCamera, SizesStream DEF Next

(* The others only add to the queue, and leave the stream task where it is. *)
LEMMA StaysQueued ==
  ASSUME TypeOK, queue # <<>>, [Next]_vars, ~StreamStep
  PROVE  queue' # <<>> /\ spc' = spc
<1>1. CASE CameraStep
  <2>1. Append(queue, enc) # <<>>
    BY AppendProperties DEF TypeOK
  <2> QED
    BY <1>1, <2>1, CameraFootprint DEF stream
<1>2. CASE FrameEvent \/ TogglePause \/ UNCHANGED vars
  BY <1>2 DEF FrameEvent, TogglePause, vars, shared, control, camera, stream, history
<1> QED
  BY <1>1, <1>2 DEF Next

(* One step of the stream task towards the removal of the oldest frame.    *)
LEMMA TowardsFree ==
  ASSUME TypeOK, SizesInv, queue # <<>>, StreamStep
  PROVE  /\ spc = "rearm" => queue' # <<>> /\ spc' \in {"request", "top"}
         /\ spc \in {"init", "request"} => queue' # <<>> /\ spc' = "top"
         /\ spc = "top" => queue' # <<>> /\ spc' \in {"wait", "flush"}
         /\ spc = "wait" => queue' # <<>> /\ spc' = "check"
         /\ spc = "check" => queue' # <<>> /\ spc' \in {"send", "flush"}
         /\ spc \in {"send", "flush"} => queue' # <<>> /\ spc' \in {"free", "flushFree"}
         /\ spc \in {"free", "flushFree"} => spc' \in {"reset", "flushReset"}
<1> USE DEF shared, control, camera, stream, history
<1>1. CASE \/ FreeReceive("free", "reset") \/ FreeReceive("flushFree", "flushReset")
           \/ FreeReset("reset", "rearm") \/ FreeReset("flushReset", "flush")
  BY <1>1 DEF FreeReceive, FreeReset
<1>2. CASE StreamInit \/ TestPaused \/ WaitFrame \/ TestRearm \/ Rearm \/ TestFlush \/ SendFrame
  BY <1>2 DEF StreamInit, TestPaused, WaitFrame, TestRearm, Rearm, TestFlush, SendFrame,
              StreamLocals
<1>3. CASE RetestPaused
  BY <1>3 DEF RetestPaused, StreamLocals, SizesInv
<1> QED
  BY <1>1, <1>2, <1>3 DEF StreamStep

(* As long as the stream task goes on no frame stays in the queue, paused  *)
(* or not, and whatever the camera task does.                              *)
THEOREM QueueMoves == Spec /\ []<><<StreamStep>>_vars => OldestLeaves
<1> DEFINE Freed == spc \in {"reset", "flushReset"}
           At1 == queue # <<>> /\ spc \in {"free", "flushFree"}
           At2 == queue # <<>> /\ spc \in {"send", "flush"}
           At3 == queue # <<>> /\ spc = "check"
           At4 == queue # <<>> /\ spc = "wait"
           At5 == queue # <<>> /\ spc = "top"
           At6 == queue # <<>> /\ spc \in {"init", "request"}
           At7 == queue # <<>> /\ spc = "rearm"
           Facts == TypeOK /\ SizesInv
           Some == queue # <<>>
<1>1. Spec => []Facts
  <2>1. SharedAssumption
    BY SharedAssumption
  <2>2. Init => SizesInv
    BY EmptySeq DEF Init, SizesInv
  <2> QED
    BY <2>1, <2>2, TypeInit, TypeStep, SizesStep, PTL DEF Spec
<1>2. Facts /\ Some => Freed \/ At1 \/ At2 \/ At3 \/ At4 \/ At5 \/ At6 \/ At7
  BY DEF TypeOK, StreamPCs
<1>3. Facts /\ [Next]_vars /\ ~StreamStep =>
        /\ At1 => At1'
        /\ At2 => At2'
        /\ At3 => At3'
        /\ At4 => At4'
        /\ At5 => At5'
        /\ At6 => At6'
        /\ At7 => At7'
  BY StaysQueued
<1>4. Facts /\ StreamStep =>
        /\ At1 => Freed'
        /\ At2 => At1'
        /\ At3 => At2'
        /\ At4 => At3'
        /\ At5 => At4' \/ At2'
        /\ At6 => At5'
        /\ At7 => At6' \/ At5'
  BY TowardsFree
<1>5. (Some ~> Freed) => OldestLeaves
  BY PTL DEF OldestLeaves
<1> HIDE DEF Freed, At1, At2, At3, At4, At5, At6, At7, Facts, Some
<1> QED
  BY <1>1, <1>2, <1>3, <1>4, <1>5, PTL DEF Spec
=============================================================================
