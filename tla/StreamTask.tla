----------------------------- MODULE StreamTask -----------------------------
(***************************************************************************)
(* The loop of w6x_h264_rtp_stream(): it peeks at the oldest encoded       *)
(* frame, sends it and frees it, or, while the stream is paused, flushes   *)
(* the queue and sends a splash frame instead.                             *)
(***************************************************************************)
EXTENDS EncodeShared

(* camera_encode_request *)
SetEncodeRequest == events' = events \cup {"ENCODE_REQUEST"}

StreamLocals == UNCHANGED <<shared, control, camera, fresh>>

(* Mutant of StreamPaused: asks camera_stream_is_paused() instead. *)
MutStreamPaused == camPaused

(* ctx->rtp_stream_paused, as the stream task reads it. *)
StreamPaused == rtpPaused

(* The session is set up and the first encode requested. *)
StreamInit ==
  /\ spc = "init"
  /\ SetEncodeRequest
  /\ spc' = "top"
  /\ UNCHANGED <<queue, offset, control, camera, held, history>>

(* if (ctx->rtp_stream_paused) at the top of the loop; no frame is in hand. *)
TestPaused ==
  /\ spc = "top"
  /\ spc' = IF StreamPaused THEN "flush" ELSE "wait"
  /\ held' = NoFrame
  /\ StreamLocals
  /\ UNCHANGED lateFrames

(* camera_encode_wait: a copy of the head, or nothing after 50 ms, which   *)
(* is followed by a 5 ms delay.                                            *)
WaitFrame ==
  /\ spc = "wait"
  /\ IF queue # <<>>
       THEN held' = Head(queue) /\ spc' = "check"
       ELSE spc' = "top" /\ UNCHANGED held
  /\ StreamLocals
  /\ UNCHANGED lateFrames

(* The pause flag is tested again, once a frame is in hand. An empty frame *)
(* is treated as no frame.                                                 *)
RetestPaused ==
  /\ spc = "check"
  /\ spc' = IF held.size = 0 THEN "top" ELSE IF StreamPaused THEN "flush" ELSE "send"
  /\ StreamLocals
  /\ UNCHANGED <<held, lateFrames>>

(* w6x_rtp_sender_session_send_h264; its result is ignored. *)
SendFrame ==
  /\ spc = "send"
  /\ spc' = "free"
  /\ lateFrames' = IF rtpPaused THEN lateFrames + 1 ELSE lateFrames
  /\ StreamLocals
  /\ UNCHANGED held

(* camera_encode_free: the receive ... *)
FreeReceive(here, next) ==
  /\ spc = here
  /\ queue' = IF queue = <<>> THEN queue ELSE Tail(queue)
  /\ spc' = next
  /\ UNCHANGED <<events, offset, control, camera, held, history>>

(* ... and the critical section that rewinds the buffer of an empty queue. *)
FreeReset(here, next) ==
  /\ spc = here
  /\ offset' = IF queue = <<>> THEN 0 ELSE offset
  /\ spc' = next
  /\ UNCHANGED <<events, queue, control, camera, held, history>>

(* if (!ctx->rtp_stream_paused) camera_encode_request(); *)
TestRearm ==
  /\ spc = "rearm"
  /\ spc' = IF StreamPaused THEN "top" ELSE "request"
  /\ StreamLocals
  /\ UNCHANGED <<held, lateFrames>>

Rearm ==
  /\ spc = "request"
  /\ SetEncodeRequest
  /\ spc' = "top"
  /\ UNCHANGED <<queue, offset, control, camera, held, history>>

(* The loop condition of camera_encode_flush. When it ends the task sends  *)
(* a splash frame if one is due and delays.                                *)
TestFlush ==
  /\ spc = "flush"
  /\ spc' = IF queue = <<>> THEN "top" ELSE "flushFree"
  /\ StreamLocals
  /\ UNCHANGED <<held, lateFrames>>

StreamStep ==
  \/ StreamInit \/ TestPaused \/ WaitFrame \/ RetestPaused \/ SendFrame
  \/ FreeReceive("free", "reset") \/ FreeReset("reset", "rearm")
  \/ TestRearm \/ Rearm
  \/ TestFlush
  \/ FreeReceive("flushFree", "flushReset") \/ FreeReset("flushReset", "flush")
=============================================================================
