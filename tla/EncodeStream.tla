---------------------------- MODULE EncodeStream ----------------------------
(***************************************************************************)
(* The live video path: the camera task produces encoded frames, the RTP   *)
(* stream task sends them, main_app toggles pause and resume, and the      *)
(* camera interrupt announces captured frames.                             *)
(***************************************************************************)
EXTENDS CameraTask, StreamTask

(* CMW_CAMERA_PIPE_FrameEventCallback on the stream pipe. *)
FrameEvent ==
  /\ events' = events \cup {"FRAME"}
  /\ UNCHANGED <<queue, offset, control, camera, stream, history>>

(* Mutant of TogglePause: main_app applies the pause itself. *)
MutTogglePause ==
  /\ toggles < MaxToggles
  /\ toggles' = toggles + 1
  /\ rtpPaused' = ~rtpPaused
  /\ camPaused' = ~rtpPaused
  /\ lateFrames' = IF rtpPaused THEN lateFrames ELSE 0
  /\ UNCHANGED <<shared, pauseReq, resumeReq, cpc, reqSeen, encStarted, forced, frameMod,
                 room, enc, aligned, stream, fresh>>

(* APP_RTP_Stream_TogglePause, called by main_app for a button press. *)
TogglePause ==
  /\ toggles < MaxToggles
  /\ toggles' = toggles + 1
  /\ IF rtpPaused
       THEN resumeReq' = TRUE /\ rtpPaused' = FALSE /\ UNCHANGED <<pauseReq, lateFrames>>
       ELSE rtpPaused' = TRUE /\ pauseReq' = TRUE /\ lateFrames' = 0 /\ UNCHANGED resumeReq
  /\ UNCHANGED <<shared, camera, stream, fresh>>

Next == CameraStep \/ StreamStep \/ FrameEvent \/ TogglePause

(***************************************************************************)
(* Fairness: the camera never stops delivering frames, and the two tasks   *)
(* share the processor in time slices, their blocking calls returning.     *)
(* Nothing is assumed of the user, nor of the result of an encode.         *)
(***************************************************************************)
Fairness == WF_vars(CameraStep) /\ WF_vars(StreamStep) /\ WF_vars(FrameEvent)

Spec == Init /\ [][Next]_vars
FairSpec == Spec /\ Fairness

(* The same system under a patient user: a press is handled only once the  *)
(* camera task has applied the press before it.                            *)
PatientNext == Next /\ (toggles' # toggles => ~pauseReq /\ ~resumeReq)
PatientSpec == Init /\ [][PatientNext]_vars

(* The same system without the rewinds of camera_encode_free that hit the  *)
(* camera task at one of the places given: what is left of each finding    *)
(* about the offset when only its race is taken out.                       *)
RewindsAt(places) ==
  /\ spc \in {"reset", "flushReset"} /\ spc' # spc
  /\ queue = <<>>
  /\ cpc \in places

(* No rewind between the choice of a position and the queueing of its frame. *)
PlacedSpec == Init /\ [][Next /\ ~RewindsAt({"encode", "push"})]_vars

(* No rewind in front of a write that puts an older offset back. *)
RewoundSpec == Init /\ [][Next /\ ~RewindsAt({"bump", "realign"})]_vars

(* The abstract channel this system implements: the queue is the channel,  *)
(* and a frame is being delivered from the second paused test until its    *)
(* descriptor is received from the queue.                                  *)
Channel == INSTANCE FrameChannel WITH
  Frame <- [data : 0..BufSize, size : 0..BufSize, kind : Kinds],
  Depth <- QSize,
  chan  <- queue,
  out   <- IF spc \in {"send", "free"} THEN held ELSE NoFrame

(***************************************************************************)
(* Safety.                                                                 *)
(***************************************************************************)

(* _get_next_frame_buffer, _encoder_queue_frame and camera_encode_free     *)
(* race on the offset, yet every byte the encoder may write and every byte *)
(* the stream task may read lies inside _encoder_stream, and the `offset > *)
(* ENCODER_H264_SIZE` branch is never taken.                               *)
BufferBounds ==
  /\ offset <= BufSize
  /\ cpc = "encode" => enc.data + room <= BufSize
  /\ \A i \in 1..Len(queue) : queue[i].data + queue[i].size <= BufSize
  /\ spc = "send" => held.data + held.size <= BufSize

(* camera_encode_free removes whatever is at the head of the queue: it is  *)
(* the frame camera_encode_wait returned and the stream task has sent.     *)
FreesWhatItSent ==
  spc \in {"check", "send", "free"} => queue # <<>> /\ Head(queue) = held

(* The request bit is cleared only by a pause and polled without clearing, *)
(* so once the stream task has asked for frames an unpaused camera task    *)
(* finds the bit set: no order of pause, resume and camera_encode_request  *)
(* loses the request and leaves the stream waiting for ever.               *)
NoLostRequest ==
  spc # "init" /\ ~camPaused => "ENCODE_REQUEST" \in events

(* After the press that pauses, at most one more live frame goes out: the  *)
(* one the stream task was about to send or was sending.                   *)
AtMostOneLateFrame == lateFrames <= 1

(* From the moment the camera task has applied a pause until it applies a  *)
(* resume, no frame enters the queue, however stale the request bit it has *)
(* polled before.                                                          *)
NothingQueuedWhilePaused ==
  [][camPaused => Len(queue') <= Len(queue)]_vars

(* The frame a resume forces to intra is forced again when its encode      *)
(* fails, so the first frame queued after the resume is no predicted one:  *)
(* only a fuse error and a full queue lose it.                             *)
FirstQueuedIsIntra ==
  [][fresh /\ Len(queue') > Len(queue) => enc.kind # "pred"]_vars

(* Once every press is applied before the next, the two paused flags agree *)
(* as soon as no request is pending: the stream task never waits for a     *)
(* camera task that stays paused, nor does the camera task encode for a    *)
(* paused stream.                                                          *)
PausedFlagsAgree == ~pauseReq /\ ~resumeReq => (camPaused <=> rtpPaused)

(***************************************************************************)
(* What makes the invariants above inductive: the state of a task between  *)
(* two steps that touch the same data.                                     *)
(***************************************************************************)
Fits(f) == f.data + f.size <= BufSize

(* Only the camera task raises the offset, so while a frame is in the      *)
(* making the offset is at most the frame's own position.                  *)
BoundsInv ==
  /\ offset <= BufSize
  /\ cpc = "place" => offset + room <= BufSize
  /\ cpc = "encode" => offset <= enc.data /\ enc.data + room <= BufSize
  /\ cpc \in {"push", "bump"} => offset <= enc.data /\ Fits(enc)
  /\ cpc = "realign" => aligned <= BufSize
  /\ \A i \in 1..Len(queue) : Fits(queue[i])
  /\ spc \in {"check", "send"} => Fits(held)

(* Only the stream task removes frames, so the frame it peeked at stays at *)
(* the head; a frame being sent is not empty.                              *)
HeldInv ==
  /\ FreesWhatItSent
  /\ spc \in {"send", "free"} => held.size # 0

(* After its one late frame the stream task finds the stream paused.       *)
LateInv ==
  /\ AtMostOneLateFrame
  /\ rtpPaused /\ lateFrames # 0 => spc \notin {"wait", "check", "send"}

(* The camera task starts to encode only when not paused, and applies a    *)
(* pause only between two frames.                                          *)
EncodePCs == {"space", "place", "encode", "push", "bump", "align", "realign"}
PausedInv == cpc \in EncodePCs => ~camPaused

(* A resume forces the next frame, and the frame in the making takes the   *)
(* flag with it: until it is queued, an error gives the flag back.         *)
IntraInv ==
  /\ fresh /\ cpc \in {"encode", "push"} => enc.kind # "pred" /\ (forced \/ encStarted)
  /\ fresh /\ cpc \notin {"encode", "push"} => forced

(* The frames queued lie in front of what the offset will be once the      *)
(* camera task has written it, and that is where the next frame goes.      *)
Top ==
  CASE cpc = "bump" -> offset + enc.size
    [] cpc = "realign" -> aligned
    [] OTHER -> offset

LaidOutInv ==
  /\ cpc \in {"encode", "push"} => enc.data = offset
  /\ \A i \in 1..Len(queue) : queue[i].data + queue[i].size <= Top

(* A rewind that has been done is not undone.                              *)
RewoundInv ==
  queue = <<>> /\ spc \notin {"reset", "flushReset"} =>
    /\ offset = 0
    /\ cpc # "bump"
    /\ cpc = "realign" => aligned = 0

(* No frame is empty, which camera_encode_wait would report for ever.      *)
SizesInv ==
  /\ cpc = "push" => enc.size # 0
  /\ \A i \in 1..Len(queue) : queue[i].size # 0
  /\ spc = "check" => held.size # 0

(* At most one request is pending under a patient user, and it is the one  *)
(* that brings the two flags together.                                     *)
PatientInv ==
  /\ ~(pauseReq /\ resumeReq)
  /\ pauseReq => rtpPaused /\ ~camPaused
  /\ resumeReq => ~rtpPaused /\ camPaused
  /\ PausedFlagsAgree

(***************************************************************************)
(* Liveness, under Fairness.                                               *)
(***************************************************************************)

(* The video path implements the abstract channel: every frame queued is   *)
(* delivered or discarded in the end, in order and at most once.           *)
ImplementsChannel == Channel!ChanSpec

(* The oldest frame queued is received from the queue in the end, to be    *)
(* rid of it or after it was sent: what ImplementsChannel says of the      *)
(* queue besides safety.                                                   *)
OldestLeaves == queue # <<>> ~> spc \in {"reset", "flushReset"}

(* A resume request is applied, also when a pause is pending with it. *)
ResumeHonoured == resumeReq ~> ~camPaused

(***************************************************************************)
(* What comments and the readme say and the code does not do.              *)
(***************************************************************************)

(* "Returns the next free position in the encoded bitstream buffer": the   *)
(* position handed to the encoder is not inside a frame still queued.      *)
NextPositionIsFree ==
  cpc = "encode" =>
    \A i \in 1..Len(queue) :
      ~(queue[i].data <= enc.data /\ enc.data < queue[i].data + queue[i].size)

(* What it is for, and more: nothing of a frame still queued lies where    *)
(* the encoder writes.                                                     *)
NothingOverwritten ==
  cpc = "encode" =>
    \A i \in 1..Len(queue) : queue[i].data + queue[i].size <= enc.data

(* "If the queue becomes empty after removal, the encoded stream buffer    *)
(* offset is reset to allow reuse from the beginning": while both tasks    *)
(* run, an empty queue does not stay in front of a full buffer for ever.   *)
BufferFull == \A n \in FrameSizes : offset + n > BufSize
FullBufferReused ==
  <>[](~rtpPaused /\ ~camPaused) => []<>~(queue = <<>> /\ BufferFull)

(* The same as a state says it: an empty queue has an empty buffer, but    *)
(* for the moment between the removal and the rewind that follows it.      *)
EmptyQueueRewound ==
  queue = <<>> /\ spc \notin {"reset", "flushReset"} => offset = 0
=============================================================================
