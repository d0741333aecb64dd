---------------------------- MODULE WifiStation ----------------------------
(***************************************************************************)
(* The Wi-Fi station of the driver (w6x_wifi.c): W6X_WiFi_Connect and      *)
(* W6X_WiFi_Disconnect, called by the application task, W6X_WiFi_Station_cb*)
(* called by the parser task, with the part of APP_wifi_cb (main_app.c) it *)
(* calls; and the NCP with its access point, external.                     *)
(***************************************************************************)
EXTENDS AppShared

(* The flags the application task waits for. *)
Awaited ==
  CASE pc = "joinwait" -> {"CONNECT", "REASON"}
    [] pc = "leavewait" -> {"DISCONNECT"}
    [] OTHER -> {}

(* xEventGroupSetBits: the flag ends a wait for it and is then cleared,    *)
(* or it stays.                                                            *)
SetFlag(flag) ==
  IF flag \in Awaited /\ granted = {}
    THEN granted' = {flag} /\ UNCHANGED flags
    ELSE flags' = flags \cup {flag} /\ UNCHANGED granted

(* xEventGroupWaitBits: a flag that is set already ends the wait. *)
StartWait(mask, at) ==
  /\ granted' = flags \cap mask
  /\ flags' = flags \ mask
  /\ pc' = at

WriteDone == Done("write") /\ granted' = {}

(* The request failed: main_app will tell the phone. *)
ConnectFails == bits' = bits \cup {"timeout"}

(* W61_WiFi_Connect: refused without an SSID, or AT+CWJAP. *)
Join ==
  /\ pc = "join"
  /\ Answered
  /\ \/ /\ ~ssid
        /\ ConnectFails
        /\ Done("write")
        /\ UNCHANGED <<air, inbox, hist>>
        /\ NoFailure
     \/ /\ ssid
        /\ air' = "joining"
        /\ IF air = "on" THEN Emit("disconnected") ELSE UNCHANGED inbox
        /\ Note("joined", FALSE)
        /\ \/ NoFailure /\ pc' = "expect" /\ UNCHANGED <<bits, taken>>
           \/ Failure /\ ConnectFails /\ Done("write")
     \/ /\ ssid
        /\ Failure
        /\ ConnectFails
        /\ Done("write")
        /\ UNCHANGED <<air, inbox, hist>>
  /\ UNCHANGED <<app, parser, driver, commission, scans, link, bonds>>

ExpectConnect ==
  /\ pc = "expect"
  /\ expect' = expect \cup {"CONNECT"}
  /\ StartWait({"CONNECT", "REASON"}, "joinwait")
  /\ UNCHANGED <<bits, taken, app, inbox, parser, sta, commission, ncp, bounds, hist>>

(* W6X_WiFi_Connect once its wait has ended: nothing is expected any more. *)
ConnectEnds(ok) ==
  /\ expect' = expect \ {"CONNECT"}
  /\ WriteDone
  /\ IF ok
       THEN UNCHANGED <<sta, bits>> /\ Note("late", FALSE)
       ELSE sta' = "off" /\ ConnectFails /\ Note("erased", hist.erased \/ sta = "on")
  /\ UNCHANGED <<app, inbox, parser, flags, commission, ncp, bounds>>

ConnectAnswer == pc = "joinwait" /\ granted # {} /\ ConnectEnds("CONNECT" \in granted)

(* Mutant: wait without a time limit. *)
MutConnectTimeout == FALSE /\ UNCHANGED vars

(* The wait has ended without a flag, and the connection is still expected *)
(* until the next statement: a flag set in between stays for a later call. *)
ConnectTimeout ==
  /\ pc = "joinwait" /\ granted = {}
  /\ pc' = "joinend"
  /\ UNCHANGED <<bits, taken, app, inbox, parser, driver, commission, ncp, bounds, hist>>

(* Mutant: the timeout is not reported. *)
MutGiveUp ==
  /\ pc = "joinend"
  /\ expect' = expect \ {"CONNECT"}
  /\ WriteDone
  /\ sta' = "off" /\ Note("erased", hist.erased \/ sta = "on")
  /\ UNCHANGED <<bits, app, inbox, parser, flags, commission, ncp, bounds>>

GiveUp == pc = "joinend" /\ ConnectEnds(FALSE)

(* W6X_WiFi_Disconnect: refused unless connected. *)
Leave ==
  /\ pc = "leave"
  /\ IF sta = "on"
       THEN expect' = expect \cup {"DISCONNECT"} /\ pc' = "cwqap" /\ UNCHANGED taken
       ELSE Done("write") /\ UNCHANGED expect
  /\ UNCHANGED <<bits, app, inbox, parser, sta, flags, granted, commission, ncp, bounds, hist>>

(* AT+CWQAP. *)
Quit ==
  /\ pc = "cwqap"
  /\ Answered
  /\ \/ /\ air' = "off"
        /\ IF air = "on" THEN Emit("disconnected") ELSE UNCHANGED inbox
        /\ NoFailure
        /\ StartWait({"DISCONNECT"}, "leavewait")
        /\ UNCHANGED <<taken, expect>>
     \/ /\ Failure
        /\ expect' = expect \ {"DISCONNECT"}
        /\ Done("write")
        /\ UNCHANGED <<air, inbox, flags, granted>>
  /\ UNCHANGED <<bits, app, parser, sta, commission, scans, link, bonds, hist>>

(* The wait has ended without the disconnection, which is still expected. *)
DisconnectTimeout ==
  /\ pc = "leavewait" /\ granted = {}
  /\ pc' = "leaveend"
  /\ UNCHANGED <<bits, taken, app, inbox, parser, driver, commission, ncp, bounds, hist>>

DisconnectEnds ==
  /\ pc = "leaveend" \/ (pc = "leavewait" /\ granted # {})
  /\ expect' = expect \ {"DISCONNECT"}
  /\ WriteDone
  /\ UNCHANGED <<bits, app, inbox, parser, sta, flags, commission, ncp, bounds, hist>>

(***************************************************************************)
(* The parser task.                                                        *)
(***************************************************************************)
Take(event) ==
  /\ parser = "idle"
  /\ inbox # <<>>
  /\ Head(inbox) = event
  /\ inbox' = Tail(inbox)

Connected ==
  /\ Take("connected")
  /\ sta' = "on"
  /\ parser' = "delay"
  /\ hist' = [hist EXCEPT !.joined = TRUE, !.erased = FALSE]
  /\ UNCHANGED <<loop, app, expect, flags, granted, commission, ncp, bounds>>

(* The application task waits: for events, for a flag, for the answer to a *)
(* command, or in a delay of its own. Or its wait for the connection has   *)
(* just ended.                                                             *)
Waiting ==
  \/ pc = "wait" /\ bits = {} /\ ~pending
  \/ Awaited # {} /\ granted = {}
  \/ pc = "joinend"
  \/ pc = "scanwait" /\ ~scanDone
  \/ pc \in {"drop", "list", "unpair", "scan", "join", "cwqap", "info", "tell", "start",
             "timeout", "pairing", "bledisc"}

(* Mutant: the wait is released whether or not a connection is expected. *)
MutDelayEnds ==
  /\ parser = "delay"
  /\ Waiting
  /\ SetFlag("CONNECT")
  /\ Note("late", hist.late \/ pc = "joinend")
  /\ parser' = "linkup"
  /\ UNCHANGED <<loop, app, inbox, sta, expect, commission, ncp, bounds>>

(* The end of the delay of 100 ms, in which the application task has run   *)
(* until it had to wait.                                                   *)
DelayEnds ==
  /\ parser = "delay"
  /\ Waiting
  /\ IF "CONNECT" \in expect
       THEN SetFlag("CONNECT") /\ Note("late", hist.late \/ pc = "joinend")
       ELSE UNCHANGED <<flags, granted, hist>>
  /\ parser' = "linkup"
  /\ UNCHANGED <<loop, app, inbox, sta, expect, commission, ncp, bounds>>

(* link_sta_up_fn, which may block, and APP_wifi_cb. *)
LinkUp ==
  /\ parser = "linkup"
  /\ bits' = bits \cup {"wifi"}
  /\ parser' = "idle"
  /\ UNCHANGED <<pc, taken, app, inbox, driver, commission, ncp, bounds, hist>>

(* Mutant: the state is changed only if the disconnection was expected. *)
MutDisconnected ==
  /\ Take("disconnected")
  /\ IF "DISCONNECT" \in expect
       THEN sta' = "off" /\ SetFlag("DISCONNECT") /\ expect' = expect \ {"DISCONNECT"}
       ELSE UNCHANGED <<sta, expect, flags, granted>>
  /\ ssid' = FALSE
  /\ Note("erased", FALSE)
  /\ UNCHANGED <<loop, app, parser, peer, written, listed, group, scanDone, ncp, bounds>>

Disconnected ==
  /\ Take("disconnected")
  /\ sta' = "off"
  /\ IF "DISCONNECT" \in expect
       THEN SetFlag("DISCONNECT") /\ expect' = expect \ {"DISCONNECT"}
       ELSE UNCHANGED <<expect, flags, granted>>
  /\ ssid' = FALSE
  /\ Note("erased", FALSE)
  /\ UNCHANGED <<loop, app, parser, peer, written, listed, group, scanDone, ncp, bounds>>

Reason ==
  /\ Take("reason")
  /\ IF "CONNECT" \in expect THEN SetFlag("REASON") ELSE UNCHANGED <<flags, granted>>
  /\ ssid' = FALSE
  /\ UNCHANGED <<loop, app, parser, sta, expect, peer, written, listed, group, scanDone,
                 ncp, bounds, hist>>

StationParser == Connected \/ DelayEnds \/ LinkUp \/ Disconnected \/ Reason

(***************************************************************************)
(* The NCP and the access point: a join succeeds, fails with a reason, or  *)
(* is given up without a word; a reason may come although the join goes    *)
(* on; a connection is lost.                                               *)
(***************************************************************************)
Radio(to) ==
  air' = to /\ UNCHANGED <<loop, app, parser, driver, commission, scans, link, bonds,
                           faults, hist>>

AirJoins == air = "joining" /\ Radio("on") /\ Emit("connected") /\ UNCHANGED events
AirRefuses == air = "joining" /\ Radio("off") /\ Emit("reason") /\ UNCHANGED events
AirGivesUp == air = "joining" /\ Radio("off") /\ Happens /\ UNCHANGED inbox
AirComplains == air = "joining" /\ Radio("joining") /\ Emit("reason") /\ Happens
AirLost == air = "on" /\ Radio("off") /\ Emit("disconnected") /\ Happens

Air == AirJoins \/ AirRefuses \/ AirGivesUp \/ AirComplains \/ AirLost
=============================================================================
