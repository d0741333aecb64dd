----------------------------- MODULE CameraTask -----------------------------
(***************************************************************************)
(* The loop of camera_app(): it applies pause and resume requests at three *)
(* places, runs the camera pipeline on every frame and, while not paused   *)
(* and once an encode was requested, encodes the frame into the bitstream  *)
(* buffer and queues its descriptor.                                       *)
(***************************************************************************)
EXTENDS EncodeShared

(* _camera_do_pause: only the camera task reads _camera_stream_paused, so   *)
(* its assignments are one step.                                           *)
CameraDoPause ==
  /\ events' = events \ {"ENCODE_REQUEST"}
  /\ camPaused' = TRUE
  /\ UNCHANGED <<forced, fresh>>

(* Mutant of CameraDoResume: sets the request bit, then clears it. *)
MutResumeOrder ==
  /\ forced' = TRUE
  /\ camPaused' = FALSE
  /\ events' = events \ {"ENCODE_REQUEST"}
  /\ fresh' = TRUE

(* Mutant of CameraDoResume: forgets _camera_stream_paused = false. *)
MutResumeFlag ==
  /\ forced' = TRUE
  /\ events' = events \cup {"ENCODE_REQUEST"}
  /\ fresh' = TRUE
  /\ UNCHANGED camPaused

(* _camera_do_resume: the request bit is cleared and set again, and only   *)
(* this task reads it.                                                     *)
CameraDoResume ==
  /\ forced' = TRUE
  /\ camPaused' = FALSE
  /\ events' = events \cup {"ENCODE_REQUEST"}
  /\ fresh' = TRUE

(* if (_pause_request) { _pause_request = false; _camera_do_pause(); }     *)
CheckPause(here, paused, next) ==
  /\ cpc = here
  /\ \/ /\ pauseReq
        /\ pauseReq' = FALSE
        /\ CameraDoPause
        /\ cpc' = paused
     \/ /\ ~pauseReq
        /\ cpc' = next
        /\ UNCHANGED <<pauseReq, events, camPaused, forced, fresh>>
  /\ UNCHANGED <<queue, offset, resumeReq, rtpPaused, toggles, reqSeen, encStarted,
                 frameMod, room, enc, aligned, stream, lateFrames>>

(* if (_resume_request) { _resume_request = false; _camera_do_resume(); }  *)
CheckResume(here, next) ==
  /\ cpc = here
  /\ \/ /\ resumeReq
        /\ resumeReq' = FALSE
        /\ CameraDoResume
     \/ /\ ~resumeReq
        /\ UNCHANGED <<resumeReq, events, camPaused, forced, fresh>>
  /\ cpc' = next
  /\ UNCHANGED <<queue, offset, pauseReq, rtpPaused, toggles, reqSeen, encStarted,
                 frameMod, room, enc, aligned, stream, lateFrames>>

(* A step that changes only the camera task's own locals. *)
OnlyLocals == UNCHANGED <<shared, control, camPaused, encStarted, stream, history>>

(* _encoder_process_frame returns: its locals are gone. *)
EncodeReturns == cpc' = "pause1" /\ enc' = NoFrame /\ room' = 0 /\ aligned' = 0

(* The task blocks on EVT_CAMERA_FRAME and clears it on exit. *)
WaitCameraFrame ==
  /\ cpc = "wait"
  /\ "FRAME" \in events
  /\ events' = events \ {"FRAME"}
  /\ cpc' = "pause2"
  /\ UNCHANGED <<queue, offset, control, camPaused, reqSeen, encStarted, forced,
                 frameMod, room, enc, aligned, stream, history>>

(* CMW_CAMERA_Run, the first paused test, and the poll of the request bit,  *)
(* which is not cleared and whose value is used only after two more checks. *)
PollEncodeRequest ==
  /\ cpc = "run"
  /\ IF camPaused
       THEN cpc' = "pause1" /\ UNCHANGED reqSeen
       ELSE cpc' = "pause3" /\ reqSeen' = ("ENCODE_REQUEST" \in events)
  /\ OnlyLocals
  /\ UNCHANGED <<forced, frameMod, room, enc, aligned>>

(* The second paused test and the decision to encode; `status` is reused.  *)
DecideEncode ==
  /\ cpc = "decide"
  /\ cpc' = IF ~camPaused /\ reqSeen THEN "space" ELSE "pause1"
  /\ reqSeen' = FALSE
  /\ OnlyLocals
  /\ UNCHANGED <<forced, frameMod, room, enc, aligned>>

(* _get_next_frame_buffer reads the offset twice: for the room left ...    *)
GetRoom ==
  /\ cpc = "space"
  /\ IF offset > BufSize
       THEN cpc' = "pause1" /\ UNCHANGED room
       ELSE cpc' = "place" /\ room' = BufSize - offset
  /\ OnlyLocals
  /\ UNCHANGED <<reqSeen, forced, frameMod, enc, aligned>>

(* ... and for the address. The frame type is chosen next; the first call  *)
(* goes to _encoder_start, which writes a stream header instead.           *)
PlaceFrame ==
  /\ cpc = "place"
  /\ enc' = [data |-> offset, size |-> 0,
             kind |-> IF ~encStarted THEN "header"
                      ELSE IF forced \/ frameMod = 0 THEN "intra" ELSE "pred"]
  /\ forced' = (forced /\ ~encStarted)
  /\ cpc' = "encode"
  /\ OnlyLocals
  /\ UNCHANGED <<reqSeen, frameMod, room, aligned>>

(* H264EncStrmStart or H264EncStrmEncode produced data that fits. *)
EncodeReady ==
  /\ cpc = "encode"
  /\ "ready" \in Outcomes
  /\ \E n \in FrameSizes :
       /\ n <= room
       /\ enc' = [enc EXCEPT !.size = n]
  /\ encStarted' = TRUE
  /\ cpc' = "push"
  /\ UNCHANGED <<shared, control, camPaused, reqSeen, forced, frameMod, room,
                 aligned, stream, history>>

(* Mutant of EncodeError: an error does not force the next frame. *)
MutEncodeError ==
  /\ cpc = "encode"
  /\ "error" \in Outcomes \/ \A n \in FrameSizes : n > room
  /\ EncodeReturns
  /\ OnlyLocals
  /\ UNCHANGED <<reqSeen, frameMod, forced>>

(* No data or any error but the one below, a full buffer among them: the   *)
(* next frame is forced to intra (not when the stream header failed).      *)
EncodeError ==
  /\ cpc = "encode"
  /\ "error" \in Outcomes \/ \A n \in FrameSizes : n > room
  /\ forced' = (forced \/ encStarted)
  /\ EncodeReturns
  /\ OnlyLocals
  /\ UNCHANGED <<reqSeen, frameMod>>

(* H264ENC_FUSE_ERROR: the hardware is reset and the frame counted. *)
EncodeFuseError ==
  /\ cpc = "encode"
  /\ encStarted
  /\ "fuse" \in Outcomes
  /\ frameMod' = (frameMod + 1) % Fps
  /\ fresh' = FALSE
  /\ EncodeReturns
  /\ UNCHANGED <<shared, control, camPaused, reqSeen, encStarted, forced, stream, lateFrames>>

(* Mutant of QueueFrame: a full queue drops its oldest frame. *)
MutQueueDropOldest ==
  /\ cpc = "push"
  /\ queue' = Append(IF Len(queue) < QSize THEN queue ELSE Tail(queue), enc)
  /\ fresh' = FALSE
  /\ cpc' = "bump"
  /\ UNCHANGED <<events, offset, control, camPaused, reqSeen, encStarted, forced,
                 frameMod, room, enc, aligned, stream, lateFrames>>

(* _encoder_queue_frame: xQueueSend without waiting; a full queue drops    *)
(* the frame and _encoder_process_frame returns BSP_ERROR_BUSY.            *)
QueueFrame ==
  /\ cpc = "push"
  /\ IF Len(queue) < QSize
       THEN /\ queue' = Append(queue, enc)
            /\ cpc' = "bump"
            /\ UNCHANGED <<enc, room, aligned>>
       ELSE /\ EncodeReturns
            /\ UNCHANGED queue
  /\ fresh' = FALSE
  /\ UNCHANGED <<events, offset, control, camPaused, reqSeen, encStarted, forced,
                 frameMod, stream, lateFrames>>

(* The critical section that advances the offset. *)
AdvanceOffset ==
  /\ cpc = "bump"
  /\ offset' = offset + enc.size
  /\ cpc' = "align"
  /\ UNCHANGED <<events, queue, control, camPaused, reqSeen, encStarted, forced,
                 frameMod, room, enc, aligned, stream, history>>

(* The alignment is a read ... *)
ReadOffset ==
  /\ cpc = "align"
  /\ aligned' = AlignUp(offset)
  /\ cpc' = "realign"
  /\ OnlyLocals
  /\ UNCHANGED <<reqSeen, forced, frameMod, room, enc>>

(* ... and a write outside the critical section. A frame that was queued   *)
(* is counted, a stream header is not.                                     *)
WriteOffset ==
  /\ cpc = "realign"
  /\ offset' = aligned
  /\ frameMod' = IF enc.kind = "header" THEN frameMod ELSE (frameMod + 1) % Fps
  /\ EncodeReturns
  /\ UNCHANGED <<events, queue, control, camPaused, reqSeen, encStarted, forced,
                 stream, history>>

CameraStep ==
  \/ CheckPause("pause1", "resume1", "resume1") \/ CheckResume("resume1", "wait")
  \/ WaitCameraFrame
  \/ CheckPause("pause2", "resume2", "resume2") \/ CheckResume("resume2", "run")
  \/ PollEncodeRequest
  \/ CheckPause("pause3", "pause1", "resume3") \/ CheckResume("resume3", "decide")
  \/ DecideEncode
  \/ GetRoom \/ PlaceFrame
  \/ EncodeReady \/ EncodeError \/ EncodeFuseError
  \/ QueueFrame \/ AdvanceOffset \/ ReadOffset \/ WriteOffset
=============================================================================
