----------------------------- MODULE MainEvents -----------------------------
(***************************************************************************)
(* The application task (main_app.c): its loop over the event bits, the    *)
(* user button, the Wi-Fi events and the start of the stream task          *)
(* (rtp_stream_app.c), composed with the commissioning over BLE and the    *)
(* Wi-Fi station.                                                          *)
(***************************************************************************)
EXTENDS BleCommissioning

(* APP_ProcessPendingButton: a press toggles the pause of the stream, which *)
(* camera and encoder act on, or it goes to BLE_COMM_APP_ProcessButton.    *)
AfterButton(todo) ==
  IF ~pending \/ (stream # "none" /\ staApp = "on") THEN Part(todo)
  ELSE IF peer THEN "drop" ELSE "list"

(* xEventGroupWaitBits takes all bits; its timeout of 50 ms matters only   *)
(* for a press of the button, which is processed first.                    *)
WaitEvents ==
  /\ pc = "wait"
  /\ bits # {} \/ pending
  /\ taken' = bits
  /\ bits' = {}
  /\ pending' = FALSE
  /\ pc' = AfterButton(bits)
  /\ UNCHANGED <<staApp, stream, inbox, parser, driver, commission, ncp, bounds, hist>>

(* `continue`: the bits still to be handled are gone. *)
Continue ==
  /\ taken' = {}
  /\ pc' = "wait"
  /\ Note("skipped", hist.skipped \cup taken)

(* Mutant: the state of the application is not refreshed. *)
MutGetState ==
  /\ pc = "wifi"
  /\ IF sta = "on"
       THEN pc' = "info" /\ UNCHANGED <<taken, hist>>
       ELSE Continue
  /\ UNCHANGED <<bits, app, inbox, parser, driver, commission, ncp, bounds>>

(* W6X_WiFi_Station_GetState, first part: the state of the driver. *)
GetState ==
  /\ pc = "wifi"
  /\ staApp' = sta
  /\ IF sta = "on"
       THEN pc' = "info" /\ UNCHANGED <<taken, hist>>
       ELSE Continue
  /\ UNCHANGED <<bits, pending, stream, inbox, parser, driver, commission, ncp, bounds>>

(* Second part: a query, which the NCP may refuse without a connection. *)
GetConnectInfo ==
  /\ pc = "info"
  /\ Answered
  /\ \/ NoFailure /\ pc' = "tell" /\ UNCHANGED <<taken, hist>>
     \/ air # "on" /\ NoFailure /\ Continue
     \/ Failure /\ Continue
  /\ UNCHANGED <<bits, app, inbox, parser, driver, commission, ncp>>

(* BLE_COMM_APP_NotifyWifiConnected. *)
NotifyConnected ==
  /\ pc = "tell"
  /\ Notify
  /\ pc' = "start"
  /\ UNCHANGED <<bits, taken, app, inbox, parser, driver, commission, ncp>>

(* Mutant: `continue` once the stream task has been started. *)
MutStreamStart ==
  /\ pc = "start"
  /\ stream \in {"none", "running"}
  /\ stream' = IF stream = "none" THEN "created" ELSE stream
  /\ taken' = {}
  /\ pc' = "wait"
  /\ Note("skipped", hist.skipped \ {"wifi"})
  /\ UNCHANGED <<bits, pending, staApp, inbox, parser, driver, commission, ncp, bounds>>

(* APP_RTP_Stream_Start after 500 ms, in which a stream task that had been *)
(* created has run.                                                        *)
StreamStart ==
  /\ pc = "start"
  /\ stream \in {"none", "running"}
  /\ \/ stream = "none" /\ NoFailure /\ stream' = "created"
     \/ stream = "none" /\ Failure /\ UNCHANGED stream
     \/ stream = "running" /\ NoFailure /\ UNCHANGED stream
  /\ Done("wifi")
  /\ Note("skipped", hist.skipped \ {"wifi"})
  /\ UNCHANGED <<bits, pending, staApp, inbox, parser, driver, commission, ncp>>

(* APP_RTP_Stream_Task: it streams for ever, or leaves if the station is   *)
(* not connected when it begins.                                           *)
StreamRuns ==
  /\ stream = "created"
  /\ stream' = IF staApp = "on" THEN "running" ELSE "leaving"
  /\ UNCHANGED <<loop, pending, staApp, inbox, parser, driver, commission, ncp,
                 bounds, hist>>

StreamLeaves ==
  /\ stream = "leaving"
  /\ stream' = "none"
  /\ UNCHANGED <<loop, pending, staApp, inbox, parser, driver, commission, ncp,
                 bounds, hist>>

(* Advertising again after a disconnection of the phone. *)
AdvStart ==
  /\ pc = "bledisc"
  /\ Answered
  /\ \/ /\ NoFailure
        /\ link' = IF link = "silent" THEN "advertising" ELSE link
        /\ UNCHANGED hist
     \/ /\ Failure
        /\ Note("silent", TRUE)
        /\ UNCHANGED link
  /\ Done("bledisc")
  /\ UNCHANGED <<bits, app, inbox, parser, driver, commission, air, scans, bonds>>

(* The interrupt of the button latches a press. *)
Press ==
  /\ Happens
  /\ pending' = TRUE
  /\ UNCHANGED <<loop, staApp, stream, inbox, parser, driver, commission, ncp,
                 faults, hist>>

(* The parser task preempts the other tasks while it has an event to       *)
(* handle and is not blocked.                                              *)
ParserRuns == inbox # <<>> /\ parser = "idle"

MainStep ==
  /\ ~ParserRuns
  /\ \/ WaitEvents
     \/ GetState \/ GetConnectInfo \/ NotifyConnected \/ StreamStart
     \/ AdvStart
     \/ CommissionStep

StreamStep == ~ParserRuns /\ (StreamRuns \/ StreamLeaves)

ParserStep == StationParser \/ BleParser

Quiet ==
  /\ pc = "wait" /\ bits = {} /\ ~pending
  /\ inbox = <<>> /\ parser = "idle"
  /\ stream \in {"none", "running"}

(* Nobody has anything left to do. *)
Settled ==
  /\ Quiet
  /\ air # "joining" /\ scans = 0
  /\ UNCHANGED vars

Next ==
  \/ MainStep \/ StreamStep \/ ParserStep
  \/ Air \/ PhoneStep \/ NcpScanned \/ Press
  \/ Settled

Spec == Init /\ [][Next]_vars

(***************************************************************************)
(* Fairness: the tasks run when they can and a wait with a timeout ends.   *)
(* Nothing is asked of the NCP, of the radio or of the phone.              *)
(***************************************************************************)
Fairness == WF_vars(MainStep) /\ WF_vars(StreamStep) /\ WF_vars(ParserStep)

FairSpec == Spec /\ Fairness

(***************************************************************************)
(* Safety.                                                                 *)
(***************************************************************************)

(* W6X_WiFi_Connect returns success only if a connection was reported      *)
(* since its AT+CWJAP: the flag of an earlier attempt that was given up    *)
(* answers a later one only if it was set between the end of the earlier   *)
(* wait and the statement that ends the expectation.                       *)
SuccessIsFresh == pc = "joinwait" /\ "CONNECT" \in granted => hist.joined \/ hist.late

(* Once every event is handled the driver and the NCP agree about the      *)
(* connection, save one reported while W6X_WiFi_Connect was about to give  *)
(* it up: that one is forgotten.                                           *)
StationAgrees ==
  inbox = <<>> /\ parser = "idle" =>
    ((sta = "on") <=> (air = "on" /\ ~hist.erased))

(* When all is quiet a connected station has its application state and its *)
(* stream task, unless the turn of its event was cut short by a `continue` *)
(* or a failure.                                                           *)
ConnectedIsServed ==
  Quiet /\ sta = "on" /\ "wifi" \notin hist.skipped /\ faults = 0 =>
    staApp = "on" /\ stream = "running"

(* The scan callback touches a deleted event group only if some scan had   *)
(* been given up before: results that come in time find the group live.    *)
ScanGroupLive == hist.corrupt => hist.scanFailed

(***************************************************************************)
(* Liveness, under FairSpec.                                               *)
(***************************************************************************)

(* A phone that asked for a connection is told how it ended, unless a      *)
(* later write replaced the request or a turn of the loop was cut short.   *)
ConnectAnswered ==
  hist.asked ~>
    ~hist.asked \/ hist.lost \/ hist.skipped # {} \/ faults > 0

(* The device advertises again after the phone has gone, unless the bit    *)
(* was thrown away by a `continue` or the command failed.                  *)
AdvertisingReturns ==
  link = "silent" ~>
    link # "silent" \/ "bledisc" \in hist.skipped \/ hist.silent

(* The same without exceptions: main_app.c, line 330, says "Re-launch      *)
(* advertising after disconnection".                                       *)
AdvertisingRestarts == link = "silent" ~> link # "silent"

(* The device comes to rest: what the phone, the radio and the button set  *)
(* off ends, in the parser task, in the turns of the loop with their waits *)
(* and commands, and in the stream task.                                   *)
ComesToRest == []<>Quiet

(* A press is served: no wait, no unpairing and no event keeps the         *)
(* application task from its button.                                       *)
ButtonServed == pending ~> ~pending

(* What of the fairness it needs: the application task goes on while there *)
(* is something for it to do, and some time no unpairing fails any more.   *)
MainGoesOn == []<>(pc = "wait" /\ bits = {} /\ ~pending) \/ []<><<MainStep>>_vars
UnpairingWorks == <>[][Unpair => faults' = faults]_vars
=============================================================================
