---------------------------- MODULE EncodeShared ----------------------------
(***************************************************************************)
(* What the camera task (camera_app.c) and the RTP stream task             *)
(* (rtp_stream_app.c) share: the event group, the queue of encoded frames, *)
(* the write position in the linear bitstream buffer and the flags by      *)
(* which main_app pauses and resumes the stream, together with the locals  *)
(* of the two tasks.                                                       *)
(*                                                                         *)
(* Both tasks run at priority 24 on one core and are time-sliced, so each  *)
(* access to shared data is a step of its own and the steps interleave     *)
(* freely.  main_app runs at priority 40 and never blocks inside           *)
(* APP_RTP_Stream_TogglePause before its last write, so a toggle is one    *)
(* step.  Sizes are in bytes of a scaled-down buffer.                      *)
(***************************************************************************)
EXTENDS Integers, Sequences

CONSTANTS
  QSize,        \* ENCODER_FRAME_QUEUE_SIZE (5 in the code)
  BufSize,      \* ENCODER_H264_SIZE (512 KiB in the code)
  Align,        \* the 32-byte boundary of _encoder_queue_frame
  Fps,          \* camera.sensor.fps: an intra frame is forced every Fps frames
  FrameSizes,   \* sizes in bytes a frame may be encoded to
  Outcomes,     \* what H264EncStrmEncode may return, a subset of AllOutcomes
  MaxToggles    \* bound on the pause/resume presses of one behaviour

AllOutcomes == {"ready", "error", "fuse"}

ASSUME SharedAssumption ==
  /\ QSize \in Nat \ {0}
  /\ Align \in Nat \ {0}
  /\ BufSize \in Nat \ {0} /\ BufSize % Align = 0
  /\ Fps \in Nat \ {0}
  /\ FrameSizes \subseteq Nat \ {0}
  /\ Outcomes \subseteq AllOutcomes
  /\ MaxToggles \in Nat

VARIABLES
  events,      \* bits of _event the two tasks wait for or poll
  queue,       \* busy_buffer_queue
  offset,      \* _encoder_stream_offset
  pauseReq,    \* _pause_request
  resumeReq,   \* _resume_request
  rtpPaused,   \* ctx->rtp_stream_paused
  toggles,     \* number of APP_RTP_Stream_TogglePause so far (model bound)
  \* camera task
  cpc,         \* where the task is in its loop
  camPaused,   \* _camera_stream_paused
  reqSeen,     \* the local `status`: ENCODE_REQUEST as read, not as it is now
  encStarted,  \* _encoder.state = ENCODER_STARTED
  forced,      \* _encoder.forced
  frameMod,    \* _encoder.frame % fps
  room,        \* max_size of the frame being encoded
  enc,         \* the local `frame` of _encoder_process_frame
  aligned,     \* value of the aligned offset not yet written back
  \* stream task
  spc,         \* where the task is in its loop
  held,        \* the static `frame` of camera_encode_wait
  \* history, read by properties only
  fresh,       \* camera resumed, and neither queued a frame nor lost one to a
               \* fuse error or a full queue since
  lateFrames   \* live frames sent since the latest press that paused

shared  == <<events, queue, offset>>
control == <<pauseReq, resumeReq, rtpPaused, toggles>>
camera  == <<cpc, camPaused, reqSeen, encStarted, forced, frameMod, room, enc, aligned>>
stream  == <<spc, held>>
history == <<fresh, lateFrames>>
vars    == <<shared, control, camera, stream, history>>

Events == {"FRAME", "ENCODE_REQUEST"}
Kinds  == {"header", "intra", "pred"}
Frames == [data : Nat, size : Nat, kind : Kinds]
NoFrame == [data |-> 0, size |-> 0, kind |-> "header"]

CameraPCs == {"pause1", "resume1", "wait", "pause2", "resume2", "run",
              "pause3", "resume3", "decide", "space", "place", "encode",
              "push", "bump", "align", "realign"}
StreamPCs == {"init", "top", "wait", "check", "send", "free", "reset",
              "rearm", "request", "flush", "flushFree", "flushReset"}

(* Mutant of AlignUp: advances past a boundary that is already reached. *)
MutAlignUp(x) == (x \div Align + 1) * Align

(* (x + 31U) & ~31U, written for any boundary. *)
AlignUp(x) == ((x + Align - 1) \div Align) * Align

Init ==
  /\ events = {} /\ queue = <<>> /\ offset = 0
  /\ pauseReq = FALSE /\ resumeReq = FALSE /\ rtpPaused = FALSE /\ toggles = 0
  /\ cpc = "pause1" /\ camPaused = FALSE /\ reqSeen = FALSE
  /\ encStarted = FALSE /\ forced = FALSE /\ frameMod = 0
  /\ room = 0 /\ enc = NoFrame /\ aligned = 0
  /\ spc = "init" /\ held = NoFrame
  /\ fresh = FALSE /\ lateFrames = 0

(***************************************************************************)
(* The variables have their types; in particular the queue never holds     *)
(* more than ENCODER_FRAME_QUEUE_SIZE descriptors.                         *)
(***************************************************************************)
TypeOK ==
  /\ events \subseteq Events
  /\ queue \in Seq(Frames) /\ Len(queue) <= QSize
  /\ offset \in Nat
  /\ pauseReq \in BOOLEAN /\ resumeReq \in BOOLEAN /\ rtpPaused \in BOOLEAN
  /\ toggles \in 0..MaxToggles
  /\ cpc \in CameraPCs /\ camPaused \in BOOLEAN /\ reqSeen \in BOOLEAN
  /\ encStarted \in BOOLEAN /\ forced \in BOOLEAN /\ frameMod \in 0..Fps - 1
  /\ room \in Nat /\ enc \in Frames /\ aligned \in Nat
  /\ spc \in StreamPCs /\ held \in Frames
  /\ fresh \in BOOLEAN /\ lateFrames \in Nat
=============================================================================
