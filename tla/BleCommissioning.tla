-------------------------- MODULE BleCommissioning --------------------------
(***************************************************************************)
(* Wi-Fi commissioning over BLE (ble_comm_app.c): its callbacks in the     *)
(* parser task, the requests of the phone as the application task handles  *)
(* them, and the button while nothing is streamed; and the BLE side of the *)
(* NCP with the phone, external.                                           *)
(***************************************************************************)
EXTENDS WifiStation

(***************************************************************************)
(* Callbacks, in the parser task.                                          *)
(***************************************************************************)
Raise(bit) == bits' = bits \cup {bit}

BleConnected ==
  /\ Take("blecon")
  /\ peer' = TRUE
  /\ UNCHANGED <<loop, app, parser, driver, ssid, written, listed, group, scanDone, ncp,
                 bounds, hist>>

BleDisconnected ==
  /\ Take("bledisc")
  /\ peer' = FALSE
  /\ Raise("bledisc")
  /\ UNCHANGED <<pc, taken, app, parser, driver, ssid, written, listed, group, scanDone,
                 ncp, bounds, hist>>

(* A write replaces the one before, handled or not. *)
BleWrite(op) ==
  /\ Take(op)
  /\ written' = op
  /\ ssid' = (ssid \/ op = "ssid")
  /\ Raise("write")
  /\ Note("lost", hist.lost \/ (hist.asked /\ written = "join" /\ "write" \in bits \cup taken))
  /\ UNCHANGED <<pc, taken, app, parser, driver, peer, listed, group, scanDone, ncp, bounds>>

PairingAsked ==
  /\ Take("pairing")
  /\ Raise("pairing")
  /\ UNCHANGED <<pc, taken, app, parser, driver, commission, ncp, bounds, hist>>

(* BLE_COMM_APP_WifiScanCb prints the results, with a delay for each.      *)
ScanPrints ==
  /\ Take("scanned")
  /\ parser' = "scan"
  /\ UNCHANGED <<loop, app, driver, commission, ncp, bounds, hist>>

(* It stores them and sets the flag in the event group, unless that is     *)
(* NULL: the application task cannot run between the test and the call.    *)
ScanStored ==
  /\ parser = "scan"
  /\ parser' = "idle"
  /\ scanDone' = (scanDone \/ group = "live")
  /\ Note("corrupt", hist.corrupt \/ group = "freed")
  /\ UNCHANGED <<loop, app, inbox, driver, ssid, peer, written, listed, group, ncp, bounds>>

BleParser ==
  \/ BleConnected \/ BleDisconnected \/ PairingAsked
  \/ \E op \in WriteOps : BleWrite(op)
  \/ ScanPrints \/ ScanStored

(***************************************************************************)
(* BLE_COMM_APP_ProcessWrite, in the application task.                     *)
(***************************************************************************)
ProcessWrite ==
  /\ pc = "write"
  /\ \/ /\ written = "scan"
        /\ \/ NoFailure /\ group' = "live" /\ pc' = "scan" /\ UNCHANGED taken
           \/ Failure /\ group' = "none" /\ Done("write")
        /\ scanDone' = FALSE
     \/ /\ written \in {"join", "leave"}
        /\ pc' = written
        /\ UNCHANGED <<taken, group, scanDone, bounds>>
     \/ /\ written = "ssid"
        /\ Done("write")
        /\ UNCHANGED <<group, scanDone, bounds>>
  /\ UNCHANGED <<bits, app, inbox, parser, driver, ssid, peer, written, listed, ncp, hist>>

(* Mutant: the event group is deleted without waiting for the results. *)
MutScan ==
  /\ pc = "scan"
  /\ Answered
  /\ scans' = scans + 1
  /\ pc' = "delete"
  /\ NoFailure
  /\ UNCHANGED <<bits, taken, app, inbox, parser, driver, commission, air, link, bonds, hist>>

(* W6X_WiFi_Scan; on an error the NCP may be scanning all the same. *)
Scan ==
  /\ pc = "scan"
  /\ Answered
  /\ \/ NoFailure /\ scans' = scans + 1 /\ pc' = "scanwait" /\ UNCHANGED hist
     \/ /\ Failure
        /\ scans' \in {scans, scans + 1}
        /\ pc' = "delete"
        /\ Note("scanFailed", TRUE)
  /\ UNCHANGED <<bits, taken, app, inbox, parser, driver, commission, air, link, bonds>>

(* The wait ends with the flag, or after 10 s. *)
ScanEnds ==
  /\ pc = "scanwait"
  /\ pc' = "delete"
  /\ Note("scanFailed", hist.scanFailed \/ ~scanDone)
  /\ UNCHANGED <<bits, taken, app, inbox, parser, driver, commission, ncp, bounds>>

(* vEventGroupDelete, then the pointer is set to NULL. *)
DeleteGroup ==
  /\ pc = "delete"
  /\ group' = "freed" /\ scanDone' = FALSE
  /\ pc' = "forget"
  /\ UNCHANGED <<bits, taken, app, inbox, parser, driver, ssid, peer, written, listed,
                 ncp, bounds, hist>>

ForgetGroup ==
  /\ pc = "forget"
  /\ group' = "none"
  /\ Done("write")
  /\ UNCHANGED <<bits, app, inbox, parser, driver, ssid, peer, written, listed,
                 scanDone, ncp, bounds, hist>>

(***************************************************************************)
(* BLE_COMM_APP_ProcessButton: disconnect the phone, or unpair devices as  *)
(* long as the list of them is not empty.                                  *)
(***************************************************************************)
DropPeer ==
  /\ pc = "drop"
  /\ Answered
  /\ \/ /\ link = "up" /\ NoFailure
        /\ link' = "silent" /\ Emit("bledisc")
        /\ NoRequest
     \/ /\ (link # "up" /\ NoFailure) \/ Failure
        /\ UNCHANGED <<link, inbox, hist>>
  /\ pc' = Part(taken)
  /\ UNCHANGED <<bits, taken, app, parser, driver, commission, air, scans, bonds>>

ListBonds ==
  /\ pc = "list"
  /\ Answered
  /\ \/ NoFailure /\ listed' = bonds
     \/ Failure /\ listed' \in {0, bonds}
  /\ pc' = IF listed' = 0 THEN Part(taken) ELSE "unpair"
  /\ UNCHANGED <<bits, taken, app, inbox, parser, driver, ssid, peer, written, group,
                 scanDone, ncp, hist>>

Unpair ==
  /\ pc = "unpair"
  /\ Answered
  /\ \/ NoFailure /\ bonds' = 0
     \/ Failure /\ UNCHANGED bonds
  /\ pc' = "list"
  /\ UNCHANGED <<bits, taken, app, inbox, parser, driver, commission, air, scans, link, hist>>

(* The pairing and passkey requests, confirmed if the phone is there. *)
ConfirmPairing ==
  /\ pc = "pairing"
  /\ Answered
  /\ \/ NoFailure /\ bonds' = IF peer /\ link = "up" THEN 1 ELSE bonds
     \/ Failure /\ UNCHANGED bonds
  /\ Done("pairing")
  /\ UNCHANGED <<bits, app, inbox, parser, driver, commission, air, scans, link, hist>>

(* A monitoring notification, which the phone gets if it is there. *)
Notify ==
  /\ Answered
  /\ \/ NoFailure /\ NoRequest
     \/ Failure /\ UNCHANGED hist

NotifyTimeout ==
  /\ pc = "timeout"
  /\ Notify
  /\ Done("timeout")
  /\ UNCHANGED <<bits, app, inbox, parser, driver, commission, ncp>>

CommissionStep ==
  \/ ProcessWrite \/ Scan \/ ScanEnds \/ DeleteGroup \/ ForgetGroup
  \/ Join \/ ExpectConnect \/ ConnectAnswer \/ ConnectTimeout \/ GiveUp
  \/ Leave \/ Quit \/ DisconnectTimeout \/ DisconnectEnds
  \/ DropPeer \/ ListBonds \/ Unpair \/ ConfirmPairing \/ NotifyTimeout

(***************************************************************************)
(* The phone and the BLE side of the NCP.                                  *)
(***************************************************************************)
Phone(event, to) ==
  /\ Happens
  /\ link' = to
  /\ Emit(event)
  /\ UNCHANGED <<loop, app, parser, driver, commission, air, scans, bonds, faults>>

PhoneConnects == link = "advertising" /\ Phone("blecon", "up") /\ UNCHANGED hist
PhoneLeaves == link = "up" /\ Phone("bledisc", "silent") /\ NoRequest
PhonePairs == link = "up" /\ bonds = 0 /\ Phone("pairing", "up") /\ UNCHANGED hist
PhoneWrites(op) ==
  /\ link = "up"
  /\ Phone(op, "up")
  /\ Note("asked", hist.asked \/ op = "join")

(* The scan is over. *)
NcpScanned ==
  /\ scans > 0
  /\ scans' = scans - 1
  /\ Emit("scanned")
  /\ UNCHANGED <<loop, app, parser, driver, commission, air, link, bonds, bounds, hist>>

PhoneStep ==
  PhoneConnects \/ PhoneLeaves \/ PhonePairs \/ \E op \in WriteOps : PhoneWrites(op)
=============================================================================
