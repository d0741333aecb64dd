----------------------------- MODULE AppShared -----------------------------
(***************************************************************************)
(* State shared by the application task (main_app.c), the commissioning    *)
(* over BLE (ble_comm_app.c), the Wi-Fi station of the driver (w6x_wifi.c) *)
(* and, external to the repository, the network co-processor (NCP), the    *)
(* access point and the phone.                                             *)
(*                                                                         *)
(* Every callback runs in the parser task of the driver, whose priority is *)
(* above that of the application task. Events and answers of the NCP come  *)
(* through one FIFO, so whatever the NCP reported before an answer has     *)
(* been handled by the time the application task sees the answer.          *)
(***************************************************************************)
EXTENDS Naturals, Sequences

CONSTANTS
  MaxEvents,  \* bound: what the phone, the radio and the button do, and failures
  MaxFaults   \* bound: failed or unanswered commands, failed allocations

ASSUME AppAssumption == MaxEvents \in Nat /\ MaxFaults \in Nat

VARIABLES
  pc,       \* where the application task is
  bits,     \* app_evt_current
  taken,    \* eventBits still to be handled in this turn of the loop
  pending,  \* g_user_button_pending
  staApp,   \* g_app_ctx.sta_state
  stream,   \* the stream task, as the application sees it
  inbox,    \* events of the NCP the parser task has not handled yet
  parser,   \* where the parser task is
  sta,      \* p_wifi_ctx->StaState
  expect,   \* Expected_event_connect, Expected_event_disconnect
  flags,    \* Wifi_event
  granted,  \* the flags that ended the wait the application task is in
  ssid,     \* wifi_connect_opts.SSID is set
  peer,     \* app_ble_params.remote_ble_device.IsConnected
  written,  \* the last BLE write: app_ble_params, ble_available_data
  listed,   \* app_ble_BondedDeviceList.Count
  group,    \* scan_event_flags: "none", "live", or "freed" but not yet NULL
  scanDone, \* EVENT_FLAG_WIFI_SCAN_DONE in it
  air,      \* NCP: the station is "off", "joining" or "on"
  scans,    \* NCP: scans under way
  link,     \* NCP: "advertising", "up" with the phone, or "silent"
  bonds,    \* NCP: bonded devices
  events,   \* what happened so far, bounded by MaxEvents
  faults,   \* failed commands and allocations so far
  hist      \* history, read by properties only

loop == <<pc, bits, taken>>
app == <<pending, staApp, stream>>
driver == <<sta, expect, flags, granted>>
commission == <<ssid, peer, written, listed, group, scanDone>>
ncp == <<air, scans, link, bonds>>
bounds == <<events, faults>>
vars == <<loop, app, inbox, parser, driver, commission, ncp, bounds, hist>>

(* The parts of a turn of the loop, in its order, each named after the bit *)
(* that starts it.                                                         *)
Parts == <<"write", "wifi", "timeout", "pairing", "bledisc">>
Bits == {Parts[i] : i \in DOMAIN Parts}

WriteOps == {"ssid", "scan", "join", "leave"}
Events == WriteOps \cup {"connected", "disconnected", "reason", "scanned",
                         "blecon", "bledisc", "pairing"}

Init ==
  /\ pc = "wait" /\ bits = {} /\ taken = {}
  /\ pending = FALSE /\ staApp = "off" /\ stream = "none"
  /\ inbox = <<>> /\ parser = "idle"
  /\ sta = "off" /\ expect = {} /\ flags = {} /\ granted = {}
  /\ ssid = FALSE /\ peer = FALSE /\ written = "ssid" /\ listed = 0
  /\ group = "none" /\ scanDone = FALSE
  /\ air = "off" /\ scans = 0 /\ link = "advertising" /\ bonds = 0
  /\ events = 0 /\ faults = 0
  /\ hist = [asked |-> FALSE,    \* a connect request of the phone is open
             lost |-> FALSE,     \* an open connect request was overwritten
             skipped |-> {},     \* bits a `continue` threw away
             silent |-> FALSE,   \* W6X_Ble_AdvStart failed
             joined |-> FALSE,   \* connected since the last join command
             late |-> FALSE,     \* the flag CONNECT was set when its wait had ended
             erased |-> FALSE,   \* a connected station was reset
             scanFailed |-> FALSE, \* a scan failed or took too long
             corrupt |-> FALSE]  \* bits were set in a deleted event group

TypeOK ==
  /\ pc \in Bits \cup {"wait", "button", "drop", "list", "unpair", "scan", "scanwait",
                       "delete", "forget", "join", "expect", "joinwait", "joinend", "leave",
                       "cwqap", "leavewait", "leaveend", "info", "tell", "start"}
  /\ bits \subseteq Bits /\ taken \subseteq Bits
  /\ pending \in BOOLEAN
  /\ staApp \in {"on", "off"} /\ sta \in {"on", "off"}
  /\ stream \in {"none", "created", "running", "leaving"}
  /\ inbox \in Seq(Events)
  /\ parser \in {"idle", "delay", "linkup", "scan"}
  /\ expect \subseteq {"CONNECT", "DISCONNECT"}
  /\ flags \subseteq {"CONNECT", "DISCONNECT", "REASON"}
  /\ granted \subseteq {"CONNECT", "DISCONNECT", "REASON"}
  /\ ssid \in BOOLEAN /\ peer \in BOOLEAN
  /\ written \in WriteOps
  /\ listed \in 0..1 /\ bonds \in 0..1
  /\ group \in {"none", "live", "freed"} /\ scanDone \in BOOLEAN
  /\ air \in {"off", "joining", "on"}
  /\ scans \in Nat
  /\ link \in {"advertising", "up", "silent"}
  /\ events \in 0..MaxEvents /\ faults \in 0..MaxFaults
  /\ hist \in [asked : BOOLEAN, lost : BOOLEAN, skipped : SUBSET Bits, silent : BOOLEAN,
               joined : BOOLEAN, late : BOOLEAN, erased : BOOLEAN, scanFailed : BOOLEAN,
               corrupt : BOOLEAN]

(* The first part of the turn that has a bit to handle, or the next wait.  *)
Part(todo) ==
  IF todo = {} THEN "wait"
  ELSE LET first == CHOOSE i \in DOMAIN Parts :
             Parts[i] \in todo /\ \A j \in 1..(i - 1) : Parts[j] \notin todo
       IN  Parts[first]

(* A part of the turn is over. *)
Done(part) == taken' = taken \ {part} /\ pc' = Part(taken')

(* The NCP answers a command: the parser task has handled all that came    *)
(* before the answer.                                                      *)
Answered == inbox = <<>> /\ parser = "idle"

Happens == events < MaxEvents /\ events' = events + 1
Failure == faults < MaxFaults /\ faults' = faults + 1 /\ Happens
NoFailure == UNCHANGED bounds

Emit(event) == inbox' = Append(inbox, event)

Note(field, value) == hist' = [hist EXCEPT ![field] = value]

(* No connect request is open any more: the phone was told, or has gone.   *)
NoRequest == hist' = [hist EXCEPT !.asked = FALSE, !.lost = FALSE]
=============================================================================
