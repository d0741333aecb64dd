--------------------------- MODULE MainAnswerProofs ---------------------------
(***************************************************************************)
(* Proofs about MainEvents, for any number of events and failures: what    *)
(* keeps a request of the phone and the departure of the phone from being  *)
(* forgotten.                                                              *)
(***************************************************************************)
EXTENDS MainEventsProofs

(* An event the parser task has not handled yet. *)
Expects(e) == \E i \in 1..Len(inbox) : inbox[i] = e

(* That the phone has gone is under way to the application task, or it is  *)
(* noted how it got lost.                                                  *)
GoneNoted ==
  link = "silent" =>
    Expects("bledisc") \/ "bledisc" \in bits \cup taken
    \/ hist.silent \/ "bledisc" \in hist.skipped

(* Where the part of the turn that joins has not ended, nor begun.         *)
BeforeJoin == {"drop", "list", "unpair", "write"}
Joining == {"join", "expect", "joinwait", "joinend"}

(* A join command connects once: the parser task hears of it once, with no *)
(* other join under way.                                                   *)
Once == \A i, j \in 1..Len(inbox) : inbox[i] = "connected" /\ inbox[j] = "connected" => i = j
OneJoin ==
  /\ air = "joining" => ~Expects("connected") /\ parser # "delay"
  /\ parser = "delay" => ~Expects("connected")
  /\ Once

(* The connection of a late flag is down, and none takes its place, until  *)
(* the flag answers the next request: the application finds no connection  *)
(* to tell the phone of.                                                   *)
NoneToCome == air # "joining" /\ ~Expects("connected") /\ parser # "delay"
LateIsDown ==
  hist.late /\ faults = 0 =>
    /\ pc \notin {"info", "tell", "start"}
    /\ pc \notin {"expect", "joinwait"} => NoneToCome
    /\ pc \notin {"joinend", "expect", "joinwait"} => sta = "off"

(* A connection that W6X_WiFi_Connect may report will be announced; that   *)
(* of a late flag, unless a `continue` threw it away.                      *)
JoinAnnounced == pc \in {"expect", "joinwait"} /\ hist.joined => Coming
LateAnnounced == hist.late /\ faults = 0 => Coming \/ hist.skipped # {}

(* Where the connect request of the phone is: still to be heard, to be     *)
(* carried out or under way, to be answered with the timeout or with the   *)
(* connection. At "start" the connection has been told already.            *)
ToBeDone ==
  /\ written = "join"
  /\ "write" \in bits \/ ("write" \in taken /\ pc \in BeforeJoin \cup Joining)
ToBeTold ==
  \/ "timeout" \in bits \cup taken
  \/ parser \in {"delay", "linkup"}
  \/ "wifi" \in bits
  \/ "wifi" \in taken /\ pc # "start"
CutShort == IF pc = "start" THEN hist.skipped \ {"wifi"} ELSE hist.skipped
RequestNoted ==
  hist.asked /\ ~hist.lost /\ faults = 0 /\ CutShort = {} =>
    Expects("join") \/ ToBeDone \/ ToBeTold

(***************************************************************************)
(* Which steps change what.                                                *)
(***************************************************************************)

(* The connection with the phone.                                          *)
LEMMA LinkSteps ==
  ASSUME [Next]_vars
  PROVE  \/ link' = link
         \/ AdvStart \/ DropPeer \/ PhoneConnects \/ PhoneLeaves \/ PhonePairs \/ (\E op \in WriteOps : PhoneWrites(op))
<1> USE DEF loop, app, driver, commission, ncp, bounds, Answered, Failure,
            Happens, NoFailure, Emit, Note, NoRequest, Done
<1>1. CASE MainStep
  BY <1>1 DEF MainStep, CommissionStep, WaitEvents, AfterButton, GetState, Continue,
         GetConnectInfo, NotifyConnected, Notify, StreamStart, ProcessWrite, Scan,
         ScanEnds, DeleteGroup, ForgetGroup, Join, ConnectFails, ExpectConnect,
         StartWait, ConnectAnswer, ConnectEnds, WriteDone, ConnectTimeout, GiveUp,
         Leave, Quit, DisconnectEnds, DisconnectTimeout, ListBonds, Unpair,
         ConfirmPairing, NotifyTimeout
<1>2. CASE StreamStep
  BY <1>2 DEF StreamStep, StreamRuns, StreamLeaves
<1>3. CASE ParserStep
  BY <1>3 DEF ParserStep, StationParser, BleParser, Connected, Take, DelayEnds, SetFlag,
         Awaited, Waiting, LinkUp, Disconnected, Reason, BleConnected, BleDisconnected,
         Raise, PairingAsked, BleWrite, ScanPrints, ScanStored
<1>4. CASE Air \/ PhoneStep \/ NcpScanned \/ Press
  BY <1>4 DEF Air, PhoneStep, AirJoins, Radio, AirRefuses, AirGivesUp, AirComplains,
         AirLost, Phone, NcpScanned, Press
<1>5. CASE UNCHANGED vars
  BY <1>5 DEF vars
<1> QED BY <1>1, <1>2, <1>3, <1>4, <1>5 DEF Next, Settled

(* The last write of the phone.                                            *)
LEMMA WrittenSteps ==
  ASSUME [Next]_vars
  PROVE  \/ written' = written
         \/ (\E op \in WriteOps : BleWrite(op))
<1> USE DEF loop, app, driver, commission, ncp, bounds, Answered, Failure,
            Happens, NoFailure, Emit, Note, NoRequest, Done
<1>1. CASE MainStep
  BY <1>1 DEF MainStep, CommissionStep, WaitEvents, AfterButton, GetState, Continue,
         GetConnectInfo, NotifyConnected, Notify, StreamStart, AdvStart,
         ProcessWrite, Scan, ScanEnds, DeleteGroup, ForgetGroup, Join, ConnectFails,
         ExpectConnect, StartWait, ConnectAnswer, ConnectEnds, WriteDone,
         ConnectTimeout, GiveUp, Leave, Quit, DisconnectEnds, DisconnectTimeout,
         DropPeer, ListBonds, Unpair, ConfirmPairing, NotifyTimeout
<1>2. CASE StreamStep
  BY <1>2 DEF StreamStep, StreamRuns, StreamLeaves
<1>3. CASE ParserStep
  BY <1>3 DEF ParserStep, StationParser, BleParser, Connected, Take, DelayEnds, SetFlag,
         Awaited, Waiting, LinkUp, Disconnected, Reason, BleConnected, BleDisconnected,
         Raise, PairingAsked, ScanPrints, ScanStored
<1>4. CASE Air \/ PhoneStep \/ NcpScanned \/ Press
  BY <1>4 DEF Air, PhoneStep, AirJoins, Radio, AirRefuses, AirGivesUp, AirComplains,
         AirLost, PhoneConnects, Phone, PhoneLeaves, PhonePairs, PhoneWrites,
         NcpScanned, Press
<1>5. CASE UNCHANGED vars
  BY <1>5 DEF vars
<1> QED BY <1>1, <1>2, <1>3, <1>4, <1>5 DEF Next, Settled

(* What is remembered of requests: only a write makes one.                 *)
LEMMA AskedHistory ==
  ASSUME hist \in Histories, [Next]_vars
  PROVE  \/ hist'.asked => hist.asked
         \/ (\E op \in WriteOps : PhoneWrites(op))
<1> USE DEF Histories, Continue, loop, app, driver, commission, ncp, bounds, Answered, Failure,
            Happens, NoFailure, Emit, Note, NoRequest, Done
<1>1. CASE MainStep
  BY <1>1 DEF MainStep, CommissionStep, WaitEvents, AfterButton, GetState, Continue,
         GetConnectInfo, NotifyConnected, Notify, StreamStart, AdvStart,
         ProcessWrite, Scan, ScanEnds, DeleteGroup, ForgetGroup, Join, ConnectFails,
         ExpectConnect, StartWait, ConnectAnswer, ConnectEnds, WriteDone,
         ConnectTimeout, GiveUp, Leave, Quit, DisconnectEnds, DisconnectTimeout,
         DropPeer, ListBonds, Unpair, ConfirmPairing, NotifyTimeout
<1>2. CASE StreamStep
  BY <1>2 DEF StreamStep, StreamRuns, StreamLeaves
<1>3. CASE ParserStep
  BY <1>3 DEF ParserStep, StationParser, BleParser, Connected, Take, DelayEnds, SetFlag,
         Awaited, Waiting, LinkUp, Disconnected, Reason, BleConnected, BleDisconnected,
         Raise, PairingAsked, BleWrite, ScanPrints, ScanStored
<1>4. CASE Air \/ PhoneStep \/ NcpScanned \/ Press
  BY <1>4 DEF Air, PhoneStep, AirJoins, Radio, AirRefuses, AirGivesUp, AirComplains,
         AirLost, PhoneConnects, Phone, PhoneLeaves, PhonePairs, NcpScanned, Press
<1>5. CASE UNCHANGED vars
  BY <1>5 DEF vars
<1> QED BY <1>1, <1>2, <1>3, <1>4, <1>5 DEF Next, Settled

(* What is remembered of an open request that was overwritten.             *)
LEMMA LostHistory ==
  ASSUME hist \in Histories, [Next]_vars
  PROVE  \/ hist'.lost = hist.lost
         \/ ~hist'.asked
         \/ (\E op \in WriteOps : BleWrite(op))
<1> USE DEF Histories, Continue, loop, app, driver, commission, ncp, bounds, Answered, Failure,
            Happens, NoFailure, Emit, Note, NoRequest, Done
<1>1. CASE MainStep
  BY <1>1 DEF MainStep, CommissionStep, WaitEvents, AfterButton, GetState, Continue,
         GetConnectInfo, NotifyConnected, Notify, StreamStart, AdvStart,
         ProcessWrite, Scan, ScanEnds, DeleteGroup, ForgetGroup, Join, ConnectFails,
         ExpectConnect, StartWait, ConnectAnswer, ConnectEnds, WriteDone,
         ConnectTimeout, GiveUp, Leave, Quit, DisconnectEnds, DisconnectTimeout,
         DropPeer, ListBonds, Unpair, ConfirmPairing, NotifyTimeout
<1>2. CASE StreamStep
  BY <1>2 DEF StreamStep, StreamRuns, StreamLeaves
<1>3. CASE ParserStep
  BY <1>3 DEF ParserStep, StationParser, BleParser, Connected, Take, DelayEnds, SetFlag,
         Awaited, Waiting, LinkUp, Disconnected, Reason, BleConnected, BleDisconnected,
         Raise, PairingAsked, ScanPrints, ScanStored
<1>4. CASE Air \/ PhoneStep \/ NcpScanned \/ Press
  BY <1>4 DEF Air, PhoneStep, AirJoins, Radio, AirRefuses, AirGivesUp, AirComplains,
         AirLost, PhoneConnects, Phone, PhoneLeaves, PhonePairs, PhoneWrites,
         NcpScanned, Press
<1>5. CASE UNCHANGED vars
  BY <1>5 DEF vars
<1> QED BY <1>1, <1>2, <1>3, <1>4, <1>5 DEF Next, Settled

(* What is remembered of advertising that failed.                          *)
LEMMA SilentHistory ==
  ASSUME hist \in Histories, [Next]_vars
  PROVE  \/ hist'.silent = hist.silent
         \/ AdvStart
<1> USE DEF Histories, Continue, loop, app, driver, commission, ncp, bounds, Answered, Failure,
            Happens, NoFailure, Emit, Note, NoRequest, Done
<1>1. CASE MainStep
  BY <1>1 DEF MainStep, CommissionStep, WaitEvents, AfterButton, GetState, Continue,
         GetConnectInfo, NotifyConnected, Notify, StreamStart, ProcessWrite, Scan,
         ScanEnds, DeleteGroup, ForgetGroup, Join, ConnectFails, ExpectConnect,
         StartWait, ConnectAnswer, ConnectEnds, WriteDone, ConnectTimeout, GiveUp,
         Leave, Quit, DisconnectEnds, DisconnectTimeout, DropPeer, ListBonds,
         Unpair, ConfirmPairing, NotifyTimeout
<1>2. CASE StreamStep
  BY <1>2 DEF StreamStep, StreamRuns, StreamLeaves
<1>3. CASE ParserStep
  BY <1>3 DEF ParserStep, StationParser, BleParser, Connected, Take, DelayEnds, SetFlag,
         Awaited, Waiting, LinkUp, Disconnected, Reason, BleConnected, BleDisconnected,
         Raise, PairingAsked, BleWrite, ScanPrints, ScanStored
<1>4. CASE Air \/ PhoneStep \/ NcpScanned \/ Press
  BY <1>4 DEF Air, PhoneStep, AirJoins, Radio, AirRefuses, AirGivesUp, AirComplains,
         AirLost, PhoneConnects, Phone, PhoneLeaves, PhonePairs, PhoneWrites,
         NcpScanned, Press
<1>5. CASE UNCHANGED vars
  BY <1>5 DEF vars
<1> QED BY <1>1, <1>2, <1>3, <1>4, <1>5 DEF Next, Settled

(* A bit is kept until its part of the turn ends it, or a `continue`.      *)
LEMMA KeptBits ==
  ASSUME TypeOK, Turn, [Next]_vars, NEW bit \in {"wifi", "timeout", "bledisc"},
         bit \in bits \cup taken
  PROVE  \/ bit \in bits' \cup taken'
         \/ (GetState \/ GetConnectInfo) /\ Continue
         \/ bit = "wifi" /\ StreamStart
         \/ bit = "timeout" /\ NotifyTimeout
         \/ bit = "bledisc" /\ AdvStart
<1> USE DEF loop, app, driver, commission, ncp, bounds, Answered, Failure,
            Happens, NoFailure, Emit, Note, NoRequest, Done
<1>1. CASE MainStep
  <2>1. CASE WaitEvents
    BY <2>1 DEF WaitEvents, Turn
  <2>2. CASE AdvStart \/ NotifyConnected \/ NotifyTimeout \/ ConfirmPairing \/ StreamStart
    BY <2>2 DEF AdvStart, NotifyConnected, Notify, NotifyTimeout, ConfirmPairing, StreamStart
  <2>3. CASE ProcessWrite \/ Scan \/ ScanEnds \/ DeleteGroup \/ ForgetGroup
    BY <2>3 DEF ProcessWrite, Scan, ScanEnds, DeleteGroup, ForgetGroup
  <2>4. CASE Join \/ ExpectConnect
    BY <2>4 DEF Join, ConnectFails, ExpectConnect
  <2>5. CASE ConnectAnswer \/ ConnectTimeout \/ GiveUp
    BY <2>5 DEF ConnectAnswer, ConnectTimeout, GiveUp, ConnectEnds, ConnectFails,
         WriteDone
  <2>6. CASE Leave \/ Quit \/ DisconnectTimeout \/ DisconnectEnds
    BY <2>6 DEF Leave, Quit, DisconnectEnds, DisconnectTimeout, WriteDone
  <2>7. CASE DropPeer \/ ListBonds \/ Unpair
    BY <2>7 DEF DropPeer, ListBonds, Unpair
  <2>8. CASE (GetState \/ GetConnectInfo) /\ ~Continue
    BY <2>8 DEF GetState, GetConnectInfo
  <2> QED BY <1>1, <2>1, <2>2, <2>3, <2>4, <2>5, <2>6, <2>7, <2>8
          DEF MainStep, CommissionStep
<1>2. CASE StreamStep
  BY <1>2 DEF StreamStep, StreamRuns, StreamLeaves
<1>3. CASE ParserStep
  BY <1>3 DEF ParserStep, StationParser, BleParser, Connected, Take, DelayEnds,
         SetFlag, Awaited, Waiting, LinkUp, Disconnected, Reason, BleConnected,
         BleDisconnected, Raise, PairingAsked, BleWrite, ScanPrints,
         ScanStored
<1>4. CASE Air \/ PhoneStep \/ NcpScanned \/ Press
  BY <1>4 DEF Air, PhoneStep, AirJoins, Radio, AirRefuses, AirGivesUp, AirComplains,
         AirLost, PhoneConnects, Phone, PhoneLeaves, PhonePairs, PhoneWrites,
         NcpScanned, Press
<1>5. CASE UNCHANGED vars
  BY <1>5 DEF vars
<1> QED BY <1>1, <1>2, <1>3, <1>4, <1>5 DEF Next, Settled

(* What a `continue` leaves. *)
LEMMA ContinueNotes ==
  ASSUME hist \in Histories, Continue
  PROVE  hist'.skipped = hist.skipped \cup taken /\ pc' = "wait"
BY DEF Continue, Note, Histories

(* An event that was sent is expected until it is heard. *)
LEMMA EmitExpects ==
  ASSUME TypeOK, NEW e \in Events, Emit(e)
  PROVE  Expects(e)' /\ \A d : Expects(d) => Expects(d)'
<1>1. /\ Len(inbox) \in Nat /\ Len(inbox') = Len(inbox) + 1
      /\ inbox'[Len(inbox) + 1] = e
      /\ \A i \in 1..Len(inbox) : i \in 1..Len(inbox') /\ inbox'[i] = inbox[i]
  BY Emitted
<1>2. Len(inbox) + 1 \in 1..Len(inbox')
  BY <1>1
<1> QED BY <1>1, <1>2 DEF Expects

LEMMA TakeExpects ==
  ASSUME TypeOK, NEW e, Take(e), NEW d, d # e, Expects(d) PROVE Expects(d)'
<1>1. /\ Len(inbox) \in Nat \ {0} /\ Len(inbox') = Len(inbox) - 1 /\ inbox[1] = e
      /\ \A i \in 1..Len(inbox') : i + 1 \in 1..Len(inbox) /\ inbox'[i] = inbox[i + 1]
  BY Taken
<1>2. PICK k \in 1..Len(inbox) : inbox[k] = d
  BY DEF Expects
<1>3. k - 1 \in 1..Len(inbox') /\ (k - 1) + 1 = k
  BY <1>1, <1>2
<1>4. inbox'[k - 1] = d
  BY <1>1, <1>2, <1>3
<1> QED BY <1>3, <1>4 DEF Expects

(* Nothing but a join is heard to connect. *)
LEMMA OneMore ==
  ASSUME TypeOK, NEW e \in Events, Emit(e)
  PROVE  /\ e # "connected" => (Expects("connected")' => Expects("connected"))
         /\ Once /\ (e = "connected" => ~Expects("connected")) => Once'
<1>1. /\ Len(inbox) \in Nat /\ Len(inbox') = Len(inbox) + 1
      /\ inbox'[Len(inbox) + 1] = e
      /\ \A i \in 1..Len(inbox) : i \in 1..Len(inbox') /\ inbox'[i] = inbox[i]
  BY Emitted
<1>2. \A i \in 1..Len(inbox') : i \in 1..Len(inbox) \/ i = Len(inbox) + 1
  BY <1>1
<1> QED BY <1>1, <1>2 DEF Expects, Once

LEMMA OneLess ==
  ASSUME TypeOK, NEW e, Take(e)
  PROVE  /\ Expects("connected")' => Expects("connected")
         /\ Once => Once'
         /\ Once /\ e = "connected" => Expects("connected") /\ ~Expects("connected")'
<1>1. /\ Len(inbox) \in Nat \ {0} /\ Len(inbox') = Len(inbox) - 1 /\ inbox[1] = e
      /\ \A i \in 1..Len(inbox') : i + 1 \in 1..Len(inbox) /\ inbox'[i] = inbox[i + 1]
  BY Taken
<1>2. Expects("connected")' => Expects("connected")
  BY <1>1 DEF Expects
<1>3. ASSUME Once PROVE Once'
  <2> SUFFICES ASSUME NEW i \in 1..Len(inbox'), NEW j \in 1..Len(inbox'),
                      inbox'[i] = "connected", inbox'[j] = "connected"
               PROVE  i = j
    BY DEF Once
  <2>1. i + 1 = j + 1
    BY <1>1, <1>3 DEF Once
  <2> QED BY <2>1
<1>4. ASSUME Once, e = "connected" PROVE Expects("connected") /\ ~Expects("connected")'
  <2>1. 1 \in 1..Len(inbox) /\ inbox[1] = "connected"
    BY <1>1, <1>4
  <2>2. ASSUME NEW i \in 1..Len(inbox'), inbox'[i] = "connected" PROVE FALSE
    <3>1. i + 1 = 1
      BY <1>1, <1>4, <2>1, <2>2 DEF Once
    <3> QED BY <3>1
  <2> QED BY <2>1, <2>2 DEF Expects
<1> QED BY <1>2, <1>3, <1>4

LEMMA ConnectedMoves ==
  ASSUME TypeOK, [Next]_vars, ~AirJoins
  PROVE  /\ Expects("connected")' => Expects("connected")
         /\ Once => Once'
<1>1. \/ inbox' = inbox
      \/ \E d \in Events \ {"connected"} : Emit(d)
      \/ \E d \in Events : Take(d)
  BY InboxSteps
     DEF Join, Quit, DropPeer, Connected, Disconnected, Reason, BleConnected, BleDisconnected,
         PairingAsked, BleWrite, ScanPrints, AirRefuses, AirComplains, AirLost,
         PhoneConnects, PhoneLeaves, PhonePairs, PhoneWrites, Phone, NcpScanned, Events,
         WriteOps
<1>2. CASE inbox' = inbox
  BY <1>2 DEF Expects, Once
<1>3. CASE \E d \in Events \ {"connected"} : Emit(d)
  BY <1>3, OneMore
<1>4. CASE \E d \in Events : Take(d)
  BY <1>4, OneLess
<1> QED BY <1>1, <1>2, <1>3, <1>4

LEMMA KeptEvents ==
  ASSUME TypeOK, [Next]_vars, NEW e \in {"bledisc", "join"}, Expects(e)
  PROVE  \/ Expects(e)'
         \/ e = "bledisc" /\ BleDisconnected
         \/ e = "join" /\ BleWrite("join")
<1>1. \/ inbox' = inbox
      \/ \E d \in Events : Emit(d)
      \/ \E d \in Events \ {e} : Take(d)
      \/ e = "bledisc" /\ BleDisconnected
      \/ e = "join" /\ BleWrite("join")
  <2> DEFINE Emits == inbox' = inbox \/ \E d \in Events : Emit(d)
  <2>1. Join \/ Quit \/ DropPeer => Emits
    BY DEF Join, Quit, DropPeer, Events
  <2>2. AirJoins \/ AirRefuses \/ AirComplains \/ AirLost \/ NcpScanned => Emits
    BY DEF AirJoins, AirRefuses, AirComplains, AirLost, NcpScanned, Events
  <2>3. PhoneConnects \/ PhoneLeaves \/ PhonePairs => Emits
    BY DEF PhoneConnects, PhoneLeaves, PhonePairs, Phone, Events
  <2>4. ASSUME NEW op \in WriteOps, PhoneWrites(op) PROVE Emits
    BY <2>4 DEF PhoneWrites, Phone, Events
  <2>5. ASSUME NEW op \in WriteOps, BleWrite(op)
        PROVE  (e = "join" /\ BleWrite("join")) \/ \E d \in Events \ {e} : Take(d)
    BY <2>5 DEF BleWrite, Events, WriteOps
  <2>6. Connected \/ Disconnected \/ Reason \/ BleConnected \/ PairingAsked \/ ScanPrints =>
          \E d \in Events \ {e} : Take(d)
    BY DEF Connected, Disconnected, Reason, BleConnected, PairingAsked, ScanPrints, Events
  <2>7. BleDisconnected => e = "bledisc" \/ \E d \in Events \ {e} : Take(d)
    BY DEF BleDisconnected, Events
  <2> QED BY <2>1, <2>2, <2>3, <2>4, <2>5, <2>6, <2>7, InboxSteps
<1>2. CASE inbox' = inbox
  BY <1>2 DEF Expects
<1>3. CASE \E d \in Events : Emit(d)
  BY <1>3, EmitExpects
<1>4. CASE \E d \in Events \ {e} : Take(d)
  BY <1>4, TakeExpects
<1> QED BY <1>1, <1>2, <1>3, <1>4

(***************************************************************************)
(* The departure of the phone.                                             *)
(***************************************************************************)

LEMMA GoneStep ==
  ASSUME TypeOK, Turn, GoneNoted, [Next]_vars PROVE GoneNoted'
<1> SUFFICES ASSUME link' = "silent"
             PROVE  \/ Expects("bledisc")' \/ "bledisc" \in bits' \cup taken'
                    \/ hist'.silent \/ "bledisc" \in hist'.skipped
  BY DEF GoneNoted
<1>0. hist \in Histories
  BY DEF TypeOK, Histories
<1>1. CASE DropPeer \/ PhoneLeaves
  <2>1. CASE Emit("bledisc")
    BY <2>1, EmitExpects DEF Events
  <2>2. CASE ~Emit("bledisc")
    <3>1. UNCHANGED <<link, inbox, hist, bits, taken>>
      BY <1>1, <2>2 DEF DropPeer, PhoneLeaves, Phone
    <3> QED BY <3>1 DEF GoneNoted, Expects
  <2> QED BY <2>1, <2>2
<1>2. CASE AdvStart
  BY <1>0, <1>2 DEF AdvStart, Note, Histories
<1>3. CASE link' = link /\ ~AdvStart
  <2>1. hist.silent => hist'.silent
    BY <1>0, <1>3, SilentHistory
  <2>2. "bledisc" \in hist.skipped => "bledisc" \in hist'.skipped
    <3>1. CASE (GetState \/ GetConnectInfo) /\ Continue
      BY <1>0, <3>1, ContinueNotes
    <3>2. CASE (GetState \/ GetConnectInfo) /\ ~Continue
      BY <3>2 DEF GetState, GetConnectInfo
    <3>3. CASE StreamStart
      BY <1>0, <3>3 DEF StreamStart, Note, Histories
    <3>4. CASE UNCHANGED hist.skipped
      BY <3>4
    <3> QED BY <1>0, <3>1, <3>2, <3>3, <3>4, SkipHistory
  <2>3. CASE Expects("bledisc")
    <3>1. BleDisconnected => "bledisc" \in bits'
      BY DEF BleDisconnected, Raise
    <3> QED BY <2>3, <3>1, KeptEvents
  <2>4. CASE "bledisc" \in bits \cup taken
    <3>1. CASE Continue
      <4>1. "bledisc" \in taken \/ "bledisc" \in bits
        BY <2>4
      <4>2. CASE "bledisc" \in taken
        BY <1>0, <3>1, <4>2, ContinueNotes
      <4>3. CASE "bledisc" \in bits
        BY <1>3, <2>4, <3>1, <4>3, KeptBits DEF GetState, GetConnectInfo
      <4> QED BY <4>1, <4>2, <4>3
    <3> QED BY <1>3, <2>4, <3>1, KeptBits
  <2> QED BY <1>3, <2>1, <2>2, <2>3, <2>4 DEF GoneNoted
<1>4. CASE PhoneConnects \/ PhonePairs \/ \E op \in WriteOps : PhoneWrites(op)
  BY <1>4 DEF PhoneConnects, PhonePairs, PhoneWrites, Phone
<1> QED BY <1>1, <1>2, <1>3, <1>4, LinkSteps

LEMMA GoneInvariant == Spec => [](Inv /\ GoneNoted)
<1>1. Init => GoneNoted
  BY DEF Init, GoneNoted
<1>2. Inv /\ GoneNoted /\ [Next]_vars => GoneNoted'
  BY GoneStep DEF Inv
<1> QED BY <1>1, <1>2, Inductive, PTL DEF Spec

LEMMA RestForgets == Inv /\ Quiet => ~Expects("bledisc") /\ ~Expects("join") /\ bits \cup taken = {}
<1> SUFFICES ASSUME Inv, Quiet
             PROVE  ~Expects("bledisc") /\ ~Expects("join") /\ bits \cup taken = {}
  OBVIOUS
<1>1. Len(inbox) = 0
  BY EmptySeq DEF Quiet
<1>2. bits = {} /\ taken = {}
  BY DEF Quiet, Inv, Turn
<1> QED BY <1>1, <1>2 DEF Expects

(* The device advertises again after the phone has gone, as long as it     *)
(* comes to rest again and again: only the `continue` of the loop and a    *)
(* failed command make it forget (main_app.c).                             *)
THEOREM AdvertisingComesBack == Spec /\ ComesToRest => AdvertisingReturns
<1> DEFINE Answer == link # "silent" \/ "bledisc" \in hist.skipped \/ hist.silent
           Gone == link = "silent"
<1>1. Inv /\ GoneNoted /\ Quiet => Answer
  BY RestForgets DEF GoneNoted
<1> HIDE DEF Answer, Gone
<1>2. Spec /\ ComesToRest => (Gone ~> Answer)
  BY <1>1, GoneInvariant, PTL DEF ComesToRest
<1> QED BY <1>2 DEF AdvertisingReturns, Answer, Gone

(* And so it always does while no command fails, if no turn of the loop    *)
(* throws the bit away: this is all that stands between the code and       *)
(* "Re-launch advertising after disconnection" (main_app.c, line 330).     *)
THEOREM AdvertisingNeedsItsBit ==
  Spec /\ ComesToRest /\ []("bledisc" \notin hist.skipped /\ ~hist.silent)
    => AdvertisingRestarts
<1> DEFINE Gone == link = "silent"
           Kept == "bledisc" \notin hist.skipped /\ ~hist.silent
           Back == link # "silent"
<1>1. Inv /\ GoneNoted /\ Quiet /\ Kept => Back
  BY RestForgets DEF GoneNoted
<1> HIDE DEF Gone, Kept, Back
<1>2. Spec /\ ComesToRest /\ []Kept => (Gone ~> Back)
  BY <1>1, GoneInvariant, PTL DEF ComesToRest
<1> QED BY <1>2 DEF AdvertisingRestarts, Gone, Kept, Back

(***************************************************************************)
(* The requests of the phone.                                              *)
(***************************************************************************)

(* While the application task does not move, bits are only raised. *)
LEMMA OthersRaise ==
  ASSUME [Next]_vars, ~MainStep PROVE UNCHANGED <<pc, taken>> /\ bits \subseteq bits'
<1> USE DEF loop, app, driver, commission, ncp, bounds
<1>1. UNCHANGED <<pc, taken>>
  BY TurnSteps
<1>2. CASE StreamStep
  BY <1>2 DEF StreamStep, StreamRuns, StreamLeaves
<1>3. CASE ParserStep
  BY <1>3 DEF ParserStep, StationParser, BleParser, Connected, Take, DelayEnds,
         SetFlag, Awaited, Waiting, LinkUp, Disconnected, Reason, BleConnected,
         BleDisconnected, Raise, PairingAsked, BleWrite, ScanPrints, ScanStored
<1>4. CASE Air \/ PhoneStep \/ NcpScanned \/ Press
  BY <1>4 DEF Air, PhoneStep, AirJoins, Radio, AirRefuses, AirGivesUp, AirComplains,
         AirLost, PhoneConnects, Phone, PhoneLeaves, PhonePairs, PhoneWrites,
         NcpScanned, Press
<1>5. CASE UNCHANGED vars
  BY <1>5 DEF vars
<1> QED BY <1>1, <1>2, <1>3, <1>4, <1>5 DEF Next, Settled

(* How the application task gets to the places that matter here. *)
LEMMA Places ==
  ASSUME TypeOK, MainStep
  PROVE  /\ pc' = "info" => GetState
         /\ pc' = "tell" => GetConnectInfo
         /\ pc' = "start" => NotifyConnected
         /\ pc = "start" => StreamStart
         /\ pc = "expect" => ExpectConnect
         /\ pc' = "expect" => Join
         /\ pc' = "joinwait" => ExpectConnect
         /\ bits \subseteq bits' \/ WaitEvents
<1> DEFINE Elsewhere == {"info", "tell", "start", "expect", "joinwait"}
<1>1. /\ \A todo \in SUBSET Bits : Part(todo) \notin Elsewhere
      /\ \A part \in Bits : Done(part) => pc' \notin Elsewhere
  BY PartType, DoneMoves, Stages
<1>2. bits \in SUBSET Bits /\ taken \in SUBSET Bits
  BY DEF TypeOK
<1> HIDE DEF Done
<1>3. CASE WaitEvents
  BY <1>1, <1>2, <1>3 DEF WaitEvents, AfterButton
<1>4. CASE DropPeer \/ ListBonds \/ Unpair
  BY <1>1, <1>2, <1>4 DEF DropPeer, ListBonds, Unpair
<1>5. CASE GetState \/ GetConnectInfo \/ NotifyConnected
  BY <1>5 DEF GetState, GetConnectInfo, NotifyConnected, Continue
<1>6. CASE StreamStart \/ AdvStart \/ ConfirmPairing \/ NotifyTimeout
  BY <1>1, <1>6, Stages DEF StreamStart, AdvStart, ConfirmPairing, NotifyTimeout
<1>7. CASE ProcessWrite \/ Scan \/ ScanEnds \/ DeleteGroup \/ ForgetGroup
  BY <1>1, <1>7, Stages DEF ProcessWrite, Scan, ScanEnds, DeleteGroup, ForgetGroup, WriteOps
<1>8. CASE Join \/ ExpectConnect
  BY <1>1, <1>8, Stages DEF Join, ExpectConnect, StartWait, ConnectFails
<1>9. CASE ConnectAnswer \/ ConnectTimeout \/ GiveUp
  BY <1>1, <1>9, Stages DEF ConnectAnswer, ConnectTimeout, GiveUp, ConnectEnds,
         WriteDone, ConnectFails
<1>10. CASE Leave \/ Quit \/ DisconnectTimeout \/ DisconnectEnds
  BY <1>1, <1>10, Stages DEF Leave, Quit, StartWait, DisconnectEnds,
         DisconnectTimeout, WriteDone
<1> QED BY <1>3, <1>4, <1>5, <1>6, <1>7, <1>8, <1>9, <1>10 DEF MainStep, CommissionStep

(* A write is handled first. *)
LEMMA WriteFirst == ASSUME NEW todo \in SUBSET Bits, "write" \in todo PROVE Part(todo) = "write"
<1> DEFINE first == CHOOSE i \in DOMAIN Parts :
                      Parts[i] \in todo /\ \A j \in 1..(i - 1) : Parts[j] \notin todo
<1>1. DOMAIN Parts = 1..5 /\ Parts[1] = "write"
  BY DEF Parts
<1>2. 1 \in DOMAIN Parts /\ Parts[1] \in todo /\ \A j \in 1..(1 - 1) : Parts[j] \notin todo
  BY <1>1
<1>3. /\ first \in DOMAIN Parts
      /\ \A j \in 1..(first - 1) : Parts[j] \notin todo
  BY <1>2
<1>4. first = 1
  <2> SUFFICES ASSUME first # 1 PROVE FALSE
    OBVIOUS
  <2>1. 1 \in 1..(first - 1)
    BY <1>1, <1>3
  <2> QED BY <1>2, <1>3, <2>1
<1> QED BY <1>1, <1>4 DEF Part

LEMMA AnnouncedStep ==
  ASSUME TypeOK, Turn, JoinAnnounced, [Next]_vars PROVE JoinAnnounced'
<1> SUFFICES ASSUME pc' \in {"expect", "joinwait"}, hist'.joined PROVE Coming'
  BY DEF JoinAnnounced
<1>0. hist \in Histories
  BY DEF TypeOK, Histories
<1>1. CASE Connected
  BY <1>1 DEF Connected, Coming
<1>2. CASE Join
  <2>1. \A part \in Bits : Done(part) => pc' \notin {"expect", "joinwait"}
    BY DoneMoves, Stages
  <2>2. ~Done("write")
    BY <2>1, Stages
  <2>3. Note("joined", FALSE)
    BY <1>2, <2>2 DEF Join
  <2> QED BY <1>0, <2>3 DEF Note, Histories
<1>3. CASE ~Connected /\ ~Join
  <2>1. pc \in {"expect", "joinwait"}
    <3>1. CASE MainStep
      BY <1>3, <3>1, Places DEF ExpectConnect
    <3>2. CASE ~MainStep
      BY <3>2, OthersRaise
    <3> QED BY <3>1, <3>2
  <2>2. hist.joined
    <3>1. ~ConnectAnswer /\ ~GiveUp
      <4>1. ConnectAnswer \/ GiveUp => Done("write")
        BY DEF ConnectAnswer, GiveUp, ConnectEnds, WriteDone
      <4>2. Done("write") => pc' \notin {"expect", "joinwait"}
        BY DoneMoves, Stages
      <4> QED BY <4>1, <4>2
    <3>2. Disconnected \/ DelayEnds => hist'.joined = hist.joined
      BY <1>0 DEF Disconnected, DelayEnds, Note, Histories
    <3> QED BY <1>0, <1>3, <3>1, <3>2, JoinHistory
  <2>3. Coming
    BY <2>1, <2>2 DEF JoinAnnounced
  <2>4. CASE parser \in {"delay", "linkup"}
    <3>1. parser' = parser \/ DelayEnds \/ LinkUp
      BY <2>4, ParserSteps DEF Connected, ScanPrints, ScanStored, Take
    <3> QED BY <2>4, <3>1 DEF DelayEnds, LinkUp, Coming
  <2>5. CASE "wifi" \in bits \cup taken
    <3>1. ~GetState /\ ~GetConnectInfo /\ ~StreamStart
      BY <2>1 DEF GetState, GetConnectInfo, StreamStart
    <3> QED BY <2>5, <3>1, KeptBits DEF Coming
  <2> QED BY <2>3, <2>4, <2>5 DEF Coming
<1> QED BY <1>1, <1>2, <1>3

LEMMA OneJoinStep ==
  ASSUME TypeOK, OneJoin, [Next]_vars PROVE OneJoin'
<1> USE DEF OneJoin
<1>1. CASE Join
  <2>1. Len(inbox) = 0 /\ parser = "idle" /\ parser' = parser
    BY <1>1, EmptySeq DEF Join, Answered
  <2>2. ~Expects("connected")
    BY <2>1 DEF Expects
  <2>3. air' = "joining" \/ air' = air
    BY <1>1 DEF Join
  <2>4. ~AirJoins
    BY <2>3 DEF AirJoins, Radio
  <2> QED BY <2>1, <2>2, <2>4, ConnectedMoves
<1>2. CASE AirJoins
  <2>1. air = "joining" /\ air' = "on" /\ parser' = parser /\ Emit("connected")
    BY <1>2 DEF AirJoins, Radio
  <2> QED BY <2>1, OneMore DEF Events
<1>3. CASE Connected
  <2>1. Take("connected") /\ air' = air
    BY <1>3 DEF Connected, ncp
  <2> QED BY <2>1, OneLess
<1>4. CASE ~Join /\ ~AirJoins /\ ~Connected
  <2>1. air' = "joining" => air = "joining"
    BY <1>4, AirSteps DEF Quit, AirRefuses, AirGivesUp, AirComplains, AirLost, Radio
  <2>2. parser' = "delay" => parser = "delay"
    BY <1>4, ParserSteps DEF DelayEnds, LinkUp, ScanPrints, ScanStored
  <2> QED BY <1>4, <2>1, <2>2, ConnectedMoves
<1> QED BY <1>1, <1>2, <1>3, <1>4

(* No late flag is left by an answer, and none comes before a timeout. *)
LEMMA LateEnds ==
  ASSUME TypeOK, Expected, [Next]_vars
  PROVE  (ConnectAnswer => ~hist'.late) /\ (ConnectTimeout => ~hist.late)
<1>1. ASSUME ConnectAnswer PROVE ~hist'.late
  <2>1. Expected'
    BY ExpectedStep
  <2>2. "CONNECT" \notin flags /\ flags' = flags /\ granted' = {}
    BY <1>1 DEF ConnectAnswer, ConnectEnds, WriteDone, Expected
  <2> QED BY <2>1, <2>2 DEF Expected
<1>2. ASSUME ConnectTimeout PROVE ~hist.late
  BY <1>2 DEF ConnectTimeout, Expected
<1> QED BY <1>1, <1>2

(* A flag is late only by the end of the delay. *)
LEMMA LateComes ==
  ASSUME TypeOK, [Next]_vars, hist'.late PROVE hist.late \/ DelayEnds
<1>1. hist \in Histories
  BY DEF TypeOK, Histories
<1> QED BY <1>1, JoinHistory
        DEF Join, ConnectAnswer, GiveUp, ConnectEnds, Connected, Disconnected, Note, Histories

LEMMA LateIsDownStep ==
  ASSUME TypeOK, Expected, OneJoin, LateIsDown, [Next]_vars PROVE LateIsDown'
<1> SUFFICES ASSUME hist'.late, faults' = 0
             PROVE  /\ pc' \notin {"info", "tell", "start"}
                    /\ pc' \notin {"expect", "joinwait"} => NoneToCome'
                    /\ pc' \notin {"joinend", "expect", "joinwait"} => sta' = "off"
  BY DEF LateIsDown
<1>0. faults = 0 /\ ~Failure /\ ~ConnectAnswer
  <2>1. faults = 0
    BY BoundsType
  <2> QED BY <2>1, LateEnds DEF Failure
<1>d. Done("write") => pc' \in Bits \cup {"wait"}
  BY DoneMoves, Stages
<1>1. CASE DelayEnds
  <2>1. UNCHANGED <<pc, sta, air, inbox>> /\ parser = "delay" /\ parser' = "linkup"
    BY <1>1 DEF DelayEnds, loop, ncp
  <2>2. NoneToCome'
    BY <2>1 DEF NoneToCome, OneJoin, Expects
  <2>3. CASE "CONNECT" \in expect
    BY <2>1, <2>2, <2>3 DEF Expected
  <2>4. CASE "CONNECT" \notin expect
    <3>1. hist.late
      BY <1>1, <2>4 DEF DelayEnds
    <3> QED BY <1>0, <2>1, <2>2, <3>1 DEF LateIsDown
  <2> QED BY <2>3, <2>4
<1>2. CASE ~DelayEnds
  <2>0. /\ pc \notin {"info", "tell", "start"}
        /\ pc \notin {"expect", "joinwait"} => NoneToCome
        /\ pc \notin {"joinend", "expect", "joinwait"} => sta = "off"
        /\ ~ConnectTimeout
    BY <1>0, <1>2, LateComes, LateEnds DEF LateIsDown
  <2>1. CASE GiveUp
    <3>1. pc = "joinend" /\ UNCHANGED <<air, inbox, parser>> /\ sta' = "off" /\ Done("write")
      BY <2>1 DEF GiveUp, ConnectEnds, WriteDone, ncp
    <3> QED BY <1>d, <2>0, <3>1, Stages DEF NoneToCome, Expects
  <2>2. CASE Join
    <3>1. pc = "join" /\ UNCHANGED <<sta, parser>>
      BY <2>2 DEF Join, driver
    <3>2. pc' = "expect" \/ (Done("write") /\ UNCHANGED <<air, inbox>>)
      BY <1>0, <2>2 DEF Join
    <3> QED BY <1>d, <2>0, <3>1, <3>2, Stages DEF NoneToCome, Expects
  <2>3. CASE Connected
    <3>1. Take("connected") /\ pc' = pc
      BY <2>3 DEF Connected, loop
    <3>2. Expects("connected")
      BY <3>1, OneLess DEF OneJoin
    <3> QED BY <2>0, <3>1, <3>2 DEF NoneToCome
  <2>4. CASE AirJoins
    BY <2>0, <2>4 DEF AirJoins, Radio, loop, NoneToCome
  <2>5. CASE ~GiveUp /\ ~Join /\ ~Connected /\ ~AirJoins
    <3>1. sta' = sta \/ sta' = "off"
      BY <1>0, <2>5, StationSteps DEF Disconnected
    <3>2. NoneToCome => NoneToCome'
      <4>1. air' = "joining" => air = "joining"
        BY <2>5, AirSteps DEF Quit, AirRefuses, AirGivesUp, AirComplains, AirLost, Radio
      <4>2. parser' = "delay" => parser = "delay"
        BY <2>5, ParserSteps DEF DelayEnds, LinkUp, ScanPrints, ScanStored
      <4> QED BY <2>5, <4>1, <4>2, ConnectedMoves DEF NoneToCome
    <3>3. CASE ~MainStep
      <4>1. pc' = pc
        BY <3>3, OthersRaise
      <4> QED BY <2>0, <3>1, <3>2, <4>1
    <3>4. CASE MainStep
      <4>1. pc' \notin {"info", "tell", "start"}
        <5>1. ~(GetState /\ pc' = "info")
          BY <2>0 DEF GetState, Continue
        <5>2. ~GetConnectInfo /\ ~NotifyConnected
          BY <2>0 DEF GetConnectInfo, NotifyConnected
        <5> QED BY <3>4, <5>1, <5>2, Places
      <4>2. pc \in {"expect", "joinwait"} => pc' = "joinwait"
        <5>1. pc = "expect" => pc' = "joinwait"
          BY <3>4, Places DEF ExpectConnect, StartWait
        <5>2. pc = "joinwait" => pc' = "joinwait"
          BY <1>0, <2>0, <2>5, WaitSteps DEF DisconnectTimeout, DisconnectEnds
        <5> QED BY <5>1, <5>2
      <4>3. pc = "joinend" => pc' = "joinend"
        BY <1>0, <2>0, <2>5, WaitSteps DEF DisconnectTimeout, DisconnectEnds
      <4> QED BY <2>0, <3>1, <3>2, <4>1, <4>2, <4>3
    <3> QED BY <3>3, <3>4
  <2> QED BY <2>1, <2>2, <2>3, <2>4, <2>5
<1> QED BY <1>1, <1>2

LEMMA LateAnnouncedStep ==
  ASSUME TypeOK, Turn, LateIsDown, LateAnnounced, [Next]_vars PROVE LateAnnounced'
<1> SUFFICES ASSUME hist'.late, faults' = 0 PROVE Coming' \/ hist'.skipped # {}
  BY DEF LateAnnounced
<1>0. hist \in Histories /\ faults = 0
  BY BoundsType DEF TypeOK, Histories
<1>1. CASE DelayEnds \/ Connected
  BY <1>1 DEF DelayEnds, Connected, Coming
<1>2. CASE ~DelayEnds /\ ~Connected
  <2>1. hist.late /\ ~StreamStart
    BY <1>0, <1>2, LateComes DEF LateIsDown, StreamStart
  <2>2. CASE (GetState \/ GetConnectInfo) /\ Continue
    <3>1. "wifi" \in taken
      BY <2>2, Stages DEF GetState, GetConnectInfo, Turn, ServesWifi
    <3> QED BY <1>0, <2>2, <3>1, ContinueNotes
  <2>3. CASE ~((GetState \/ GetConnectInfo) /\ Continue)
    <3>1. hist'.skipped = hist.skipped
      BY <1>0, <2>1, <2>3, SkipHistory DEF GetState, GetConnectInfo
    <3>2. CASE parser \in {"delay", "linkup"}
      <4>1. parser' = parser \/ LinkUp
        BY <1>2, <3>2, ParserSteps DEF ScanPrints, ScanStored, Take
      <4> QED BY <3>2, <4>1 DEF LinkUp, Coming
    <3>3. CASE "wifi" \in bits \cup taken
      BY <2>1, <2>3, <3>3, KeptBits DEF Coming
    <3> QED BY <1>0, <2>1, <3>1, <3>2, <3>3 DEF LateAnnounced, Coming
  <2> QED BY <2>2, <2>3
<1> QED BY <1>1, <1>2

(* A request to be carried out stays one, or its outcome is to be told.    *)
LEMMA ToBeDoneStep ==
  ASSUME TypeOK, Turn, Expected, JoinAnnounced, LateAnnounced, ToBeDone, [Next]_vars,
         hist.asked, ~hist'.lost, faults' = 0, CutShort' = {}
  PROVE  ToBeDone' \/ ToBeTold'
<1>0. hist \in Histories /\ faults = 0 /\ bits \in SUBSET Bits /\ taken \in SUBSET Bits
  BY BoundsType DEF TypeOK, Histories
<1>1. written' = "join"
  <2>1. ASSUME NEW op \in WriteOps, BleWrite(op) PROVE hist'.lost
    <3>1. hist'.lost = (hist.lost \/ (/\ hist.asked /\ written = "join"
                                     /\ "write" \in bits \cup taken))
      BY <1>0, <2>1 DEF BleWrite, Note, Histories
    <3> QED BY <3>1 DEF ToBeDone
  <2> QED BY <2>1, WrittenSteps DEF ToBeDone
<1>2. ~Failure
  BY <1>0 DEF Failure
<1>3. CASE ~MainStep
  BY <1>1, <1>3, OthersRaise DEF ToBeDone
<1>4. CASE WaitEvents
  <2>1. "write" \in bits /\ taken' = bits
    BY <1>4 DEF WaitEvents, ToBeDone, Turn
  <2>2. pc' \in {Part(bits), "drop", "list"}
    BY <1>4 DEF WaitEvents, AfterButton
  <2>3. Part(bits) = "write"
    BY <1>0, <2>1, WriteFirst
  <2> QED BY <1>1, <2>1, <2>2, <2>3 DEF ToBeDone, BeforeJoin
<1>5. CASE MainStep /\ ~WaitEvents /\ "write" \in bits
  BY <1>1, <1>5, Places DEF ToBeDone
<1>6. CASE MainStep /\ ~WaitEvents /\ "write" \notin bits
  <2>1. "write" \in taken /\ pc \in BeforeJoin \cup Joining /\ written = "join"
    BY <1>6 DEF ToBeDone
  <2>2. Part(taken) = "write"
    BY <1>0, <2>1, WriteFirst
  <2>3. CASE DropPeer \/ ListBonds \/ Unpair
    <3>1. taken' = taken /\ pc' \in {Part(taken), "unpair", "list"}
      BY <2>3 DEF DropPeer, ListBonds, Unpair
    <3> QED BY <1>1, <2>1, <2>2, <3>1 DEF ToBeDone, BeforeJoin
  <2>4. CASE ProcessWrite
    <3>1. taken' = taken /\ pc' = "join"
      BY <2>1, <2>4 DEF ProcessWrite
    <3> QED BY <1>1, <2>1, <3>1 DEF ToBeDone, Joining
  <2>5. CASE Join
    <3>1. "timeout" \in bits' \/ (taken' = taken /\ pc' = "expect")
      BY <1>2, <2>5 DEF Join, ConnectFails
    <3> QED BY <1>1, <2>1, <3>1 DEF ToBeDone, Joining, ToBeTold
  <2>6. CASE ExpectConnect
    <3>1. taken' = taken /\ pc' = "joinwait"
      BY <2>6 DEF ExpectConnect, StartWait
    <3> QED BY <1>1, <2>1, <3>1 DEF ToBeDone, Joining
  <2>t. CASE ConnectTimeout
    <3>1. taken' = taken /\ pc' = "joinend"
      BY <2>t DEF ConnectTimeout
    <3> QED BY <1>1, <2>1, <3>1 DEF ToBeDone, Joining
  <2>7. CASE GiveUp \/ (ConnectAnswer /\ "CONNECT" \notin granted)
    BY <2>7 DEF GiveUp, ConnectAnswer, ConnectEnds, ConnectFails, ToBeTold
  <2>8. CASE ConnectAnswer /\ "CONNECT" \in granted
    <3>1. (hist.joined \/ hist.late) /\ pc = "joinwait"
      BY <2>8 DEF Expected
    <3>2. parser' = parser /\ bits' = bits /\ Done("write")
      BY <2>8 DEF ConnectAnswer, ConnectEnds, WriteDone
    <3>3. taken' = taken \ {"write"} /\ pc' # "start"
      BY <3>2, DoneMoves, Stages
    <3>4. hist.skipped = {}
      <4>1. hist'.skipped = hist.skipped
        BY <1>0, <2>8 DEF ConnectAnswer, ConnectEnds, Note, Histories
      <4> QED BY <3>3, <4>1 DEF CutShort
    <3>5. Coming
      BY <1>0, <3>1, <3>4 DEF JoinAnnounced, LateAnnounced
    <3> QED BY <3>2, <3>3, <3>5 DEF Coming, ToBeTold
  <2>9. ~(GetState \/ GetConnectInfo \/ NotifyConnected \/ StreamStart \/ AdvStart \/ Scan
          \/ ScanEnds \/ DeleteGroup \/ ForgetGroup \/ Leave \/ Quit \/ DisconnectTimeout
          \/ DisconnectEnds \/ ConfirmPairing \/ NotifyTimeout)
    BY <2>1 DEF BeforeJoin, Joining, GetState, GetConnectInfo, NotifyConnected,
         StreamStart, AdvStart, Scan, ScanEnds, DeleteGroup, ForgetGroup, Leave,
         Quit, DisconnectEnds, DisconnectTimeout, ConfirmPairing, NotifyTimeout
  <2> QED BY <1>6, <2>3, <2>4, <2>5, <2>6, <2>t, <2>7, <2>8, <2>9 DEF MainStep, CommissionStep
<1> QED BY <1>3, <1>4, <1>5, <1>6

(* An outcome to be told stays so until it is told or cut short. *)
LEMMA ToBeToldStep ==
  ASSUME TypeOK, Turn, ToBeTold, [Next]_vars, faults' = 0, hist'.asked, CutShort' = {}
  PROVE  ToBeTold'
<1>0. hist \in Histories /\ faults = 0
  BY BoundsType DEF TypeOK, Histories
<1>1. ~Failure
  BY <1>0 DEF Failure
<1>2. ~NotifyTimeout /\ ~NotifyConnected
  <2>1. Notify => hist'.asked = FALSE
    BY <1>0, <1>1 DEF Notify, NoRequest, Histories
  <2> QED BY <2>1 DEF NotifyTimeout, NotifyConnected
<1>3. ~((GetState \/ GetConnectInfo) /\ Continue)
  <2> SUFFICES ASSUME GetState \/ GetConnectInfo, Continue PROVE FALSE
    OBVIOUS
  <2>1. "wifi" \in taken
    BY Stages DEF GetState, GetConnectInfo, Turn, ServesWifi
  <2>2. hist'.skipped = hist.skipped \cup taken /\ pc' = "wait"
    BY <1>0, ContinueNotes
  <2> QED BY <2>1, <2>2 DEF CutShort
<1>4. CASE "timeout" \in bits \cup taken
  BY <1>2, <1>3, <1>4, KeptBits DEF ToBeTold
<1>5. CASE parser \in {"delay", "linkup"}
  <2>1. parser' = parser \/ DelayEnds \/ LinkUp
    BY <1>5, ParserSteps DEF Connected, ScanPrints, ScanStored, Take
  <2> QED BY <1>5, <2>1 DEF DelayEnds, LinkUp, ToBeTold
<1>6. CASE "wifi" \in bits \/ ("wifi" \in taken /\ pc # "start")
  <2>1. CASE pc' = "start" \/ pc = "start"
    <3>1. CASE MainStep
      <4>1. pc = "start" /\ StreamStart
        BY <1>2, <2>1, <3>1, Places
      <4> QED BY <1>6, <4>1 DEF StreamStart, ToBeTold
    <3>2. CASE ~MainStep
      BY <1>6, <2>1, <3>2, OthersRaise DEF ToBeTold
    <3> QED BY <3>1, <3>2
  <2>2. CASE pc' # "start" /\ pc # "start"
    <3>1. ~StreamStart
      BY <2>2 DEF StreamStart
    <3>2. "wifi" \in bits' \cup taken'
      BY <1>3, <1>6, <3>1, KeptBits
    <3> QED BY <2>2, <3>2 DEF ToBeTold
  <2> QED BY <2>1, <2>2
<1> QED BY <1>4, <1>5, <1>6 DEF ToBeTold

(* What is noted of turns cut short is only taken back with the telling.   *)
LEMMA CutShortStep ==
  ASSUME TypeOK, Turn, [Next]_vars, faults' = 0, hist'.asked, CutShort' = {}
  PROVE  CutShort = {}
<1>0. hist \in Histories /\ faults = 0
  BY BoundsType DEF TypeOK, Histories
<1>1. ~NotifyConnected
  <2>1. ~Failure
    BY <1>0 DEF Failure
  <2>2. Notify => hist'.asked = FALSE
    BY <1>0, <2>1 DEF Notify, NoRequest, Histories
  <2> QED BY <2>2 DEF NotifyConnected
<1>2. CASE StreamStart
  <2>1. hist'.skipped = hist.skipped \ {"wifi"} /\ pc = "start"
    BY <1>0, <1>2 DEF StreamStart, Note, Histories
  <2>2. pc' # "start"
    BY <1>2, DoneMoves, Stages DEF StreamStart
  <2> QED BY <2>1, <2>2 DEF CutShort
<1>3. CASE (GetState \/ GetConnectInfo) /\ Continue
  <2>1. hist'.skipped = hist.skipped \cup taken /\ pc' = "wait" /\ pc # "start"
    BY <1>0, <1>3, ContinueNotes DEF GetState, GetConnectInfo
  <2> QED BY <2>1 DEF CutShort
<1>4. CASE UNCHANGED hist.skipped /\ ~StreamStart
  <2>1. pc' = "start" <=> pc = "start"
    <3>1. CASE MainStep
      BY <1>1, <1>4, <3>1, Places
    <3>2. CASE ~MainStep
      BY <3>2, OthersRaise
    <3> QED BY <3>1, <3>2
  <2> QED BY <1>4, <2>1 DEF CutShort
<1>5. (GetState \/ GetConnectInfo) /\ ~Continue => UNCHANGED hist.skipped
  BY DEF GetState, GetConnectInfo
<1>6. GetState \/ GetConnectInfo => ~StreamStart
  BY DEF GetState, GetConnectInfo, StreamStart
<1> QED BY <1>0, <1>2, <1>3, <1>4, <1>5, <1>6, SkipHistory

LEMMA RequestStep ==
  ASSUME TypeOK, Turn, Expected, JoinAnnounced, LateAnnounced, RequestNoted, [Next]_vars
  PROVE  RequestNoted'
<1> SUFFICES ASSUME hist'.asked, ~hist'.lost, faults' = 0, CutShort' = {}
             PROVE  Expects("join")' \/ ToBeDone' \/ ToBeTold'
  BY DEF RequestNoted
<1>0. hist \in Histories /\ faults = 0
  BY BoundsType DEF TypeOK, Histories
<1>1. CASE PhoneWrites("join")
  BY <1>1, EmitExpects DEF PhoneWrites, Phone, Events, WriteOps
<1>2. CASE ~PhoneWrites("join")
  <2>1. hist.asked
    <3>1. ASSUME NEW op \in WriteOps, PhoneWrites(op) PROVE hist.asked
      <4>1. op # "join"
        BY <1>2, <3>1
      <4>2. hist'.asked = (hist.asked \/ op = "join")
        BY <1>0, <3>1 DEF PhoneWrites, Note, Histories
      <4> QED BY <4>1, <4>2
    <3> QED BY <1>0, <3>1, AskedHistory
  <2>2. ~hist.lost
    <3>1. ASSUME NEW op \in WriteOps, BleWrite(op) PROVE ~hist.lost
      BY <1>0, <3>1 DEF BleWrite, Note, Histories
    <3> QED BY <1>0, <3>1, LostHistory
  <2>3. Expects("join") \/ ToBeDone \/ ToBeTold
    BY <1>0, <2>1, <2>2, CutShortStep DEF RequestNoted
  <2>4. BleWrite("join") => ToBeDone'
    BY DEF BleWrite, Raise, ToBeDone
  <2>5. CASE Expects("join")
    BY <2>4, <2>5, KeptEvents
  <2> QED BY <2>1, <2>3, <2>5, ToBeDoneStep, ToBeToldStep
<1> QED BY <1>1, <1>2

LEMMA RequestInvariant == Spec => [](Inv /\ RequestNoted)
<1> DEFINE Late == OneJoin /\ LateIsDown /\ LateAnnounced
<1>1. Init => JoinAnnounced /\ RequestNoted /\ Late
  <2> SUFFICES ASSUME Init PROVE JoinAnnounced /\ RequestNoted /\ Late
    OBVIOUS
  <2>1. Len(inbox) = 0
    BY EmptySeq DEF Init
  <2> QED BY <2>1 DEF Init, JoinAnnounced, RequestNoted, OneJoin, Once, Expects, LateIsDown,
                      LateAnnounced
<1>2. Inv /\ Late /\ [Next]_vars => Late'
  BY OneJoinStep, LateIsDownStep, LateAnnouncedStep DEF Inv
<1>3. Inv /\ Late /\ JoinAnnounced /\ RequestNoted /\ [Next]_vars
        => JoinAnnounced' /\ RequestNoted'
  BY AnnouncedStep, RequestStep DEF Inv
<1> HIDE DEF Late
<1> QED BY <1>1, <1>2, <1>3, Inductive, PTL DEF Spec

(* A phone that asked for a connection is told how it ended, as long as    *)
(* the device comes to rest again and again: a request is only forgotten   *)
(* when a later write replaces it, a `continue` cuts the turn short or     *)
(* something fails (ble_comm_app.c, main_app.c).                           *)
THEOREM RequestsAreAnswered == Spec /\ ComesToRest => ConnectAnswered
<1> DEFINE Asked == hist.asked
           Answer == ~hist.asked \/ hist.lost \/ hist.skipped # {} \/ faults > 0
<1>1. Inv /\ RequestNoted /\ Quiet => Answer
  <2> SUFFICES ASSUME Inv, RequestNoted, Quiet, hist.asked, ~hist.lost, hist.skipped = {},
                      ~(faults > 0)
               PROVE  FALSE
    OBVIOUS
  <2>1. faults = 0
    BY Stages DEF Inv, TypeOK
  <2>2. CutShort = {}
    BY DEF CutShort
  <2>3. ~Expects("join") /\ ~ToBeDone /\ ~ToBeTold
    BY RestForgets DEF ToBeDone, ToBeTold, Quiet
  <2> QED BY <2>1, <2>2, <2>3 DEF RequestNoted
<1> HIDE DEF Asked, Answer
<1>2. Spec /\ ComesToRest => (Asked ~> Answer)
  BY <1>1, RequestInvariant, PTL DEF ComesToRest
<1> QED BY <1>2 DEF ConnectAnswered, Asked, Answer

(***************************************************************************)
(* A turn of the loop ends: each statement leaves fewer before the next    *)
(* wait for events.                                                        *)
(***************************************************************************)

(* The parts to be done, in statements, and those passed in the present    *)
(* one; then what processing the button takes.                             *)
Weight(part, n) == IF part \in taken THEN n ELSE 0
Due ==
  Weight("write", 5) + Weight("wifi", 4) + Weight("timeout", 1) + Weight("pairing", 1)
    + Weight("bledisc", 1)
Passed ==
  CASE pc \in {"scan", "join", "leave", "info"} -> 1
    [] pc \in {"scanwait", "expect", "cwqap", "tell"} -> 2
    [] pc \in {"delete", "joinwait", "leavewait", "start"} -> 3
    [] pc \in {"forget", "joinend", "leaveend"} -> 4
    [] OTHER -> 0
Unpairs ==
  CASE pc = "drop" -> 1
    [] pc = "unpair" -> 2
    [] pc = "list" -> IF bonds = 0 THEN 1 ELSE 3
    [] OTHER -> 0
ToGo == (Due + Unpairs) - Passed

(* The part a write starts keeps its bit. *)
ServesWrite == {"write", "scan", "scanwait", "delete", "forget", "join", "expect", "joinwait",
                "joinend", "leave", "cwqap", "leavewait", "leaveend"}
WriteTurn == pc \in ServesWrite => "write" \in taken

LEMMA DoneLeads ==
  ASSUME TypeOK, NEW part, Done(part)
  PROVE  /\ taken' = taken \ {part} /\ taken' \in SUBSET Bits
         /\ taken' = {} => pc' = "wait"
         /\ taken' # {} => pc' \in taken'
<1>1. taken' = taken \ {part} /\ pc' = Part(taken') /\ taken' \in SUBSET Bits
  BY DEF Done, TypeOK
<1> QED BY <1>1, PartIn

LEMMA DoneWrites ==
  ASSUME TypeOK, \E part : Done(part) PROVE WriteTurn'
<1>1. PICK part : Done(part)
  OBVIOUS
<1>2. pc' \in Bits \cup {"wait"} /\ (pc' # "wait" => pc' \in taken')
  BY <1>1, DoneLeads
<1> QED BY <1>2, Stages DEF WriteTurn, ServesWrite

LEMMA WriteTurnStep == TypeOK /\ WriteTurn /\ [Next]_vars => WriteTurn'
<1> SUFFICES ASSUME TypeOK, WriteTurn, [Next]_vars PROVE WriteTurn'
  OBVIOUS
<1>1. CASE ~MainStep
  BY <1>1, TurnSteps DEF WriteTurn
<1>2. CASE WaitEvents
  <2>1. taken' = bits /\ pc' \in {Part(bits), "drop", "list"} /\ bits \in SUBSET Bits
    BY <1>2 DEF WaitEvents, AfterButton, TypeOK
  <2> QED BY <2>1, PartIn, Stages DEF WriteTurn, ServesWrite
<1>3. CASE DropPeer \/ ListBonds
  <2>1. taken' = taken /\ pc' \in {Part(taken), "unpair"} /\ taken \in SUBSET Bits
    BY <1>3 DEF DropPeer, ListBonds, TypeOK
  <2> QED BY <2>1, PartIn, Stages DEF WriteTurn, ServesWrite
<1>4. CASE GetState \/ GetConnectInfo \/ NotifyConnected \/ Unpair
  BY <1>4 DEF GetState, GetConnectInfo, NotifyConnected, Continue, Unpair, WriteTurn, ServesWrite
<1>5. CASE \E part : Done(part)
  BY <1>5, DoneWrites
<1>6. StreamStart \/ AdvStart \/ ForgetGroup \/ ConnectAnswer \/ GiveUp
      \/ DisconnectEnds \/ ConfirmPairing \/ NotifyTimeout => \E part : Done(part)
  BY DEF StreamStart, AdvStart, ForgetGroup, ConnectAnswer, ConnectTimeout, GiveUp,
         ConnectEnds, WriteDone, DisconnectEnds, DisconnectTimeout, ConfirmPairing,
         NotifyTimeout
<1>7. ProcessWrite \/ Scan \/ ScanEnds \/ DeleteGroup \/ Join \/ ExpectConnect
      \/ ConnectTimeout \/ Leave \/ Quit \/ DisconnectTimeout =>
        \/ \E part : Done(part)
        \/ pc \in ServesWrite /\ taken' = taken
  BY DEF ProcessWrite, Scan, ScanEnds, DeleteGroup, Join, ExpectConnect, ConnectTimeout,
         Leave, Quit, DisconnectTimeout, StartWait, ServesWrite
<1>8. CASE pc \in ServesWrite /\ taken' = taken
  BY <1>8 DEF WriteTurn
<1> QED BY <1>1, <1>2, <1>3, <1>4, <1>5, <1>6, <1>7, <1>8 DEF MainStep, CommissionStep

LEMMA Weights ==
  ASSUME NEW n \in Nat, NEW part PROVE Weight(part, n) \in {0, n}
BY DEF Weight

LEMMA ToGoRange == TypeOK /\ Turn /\ WriteTurn => ToGo \in 0..15
<1> SUFFICES ASSUME TypeOK, Turn, WriteTurn PROVE ToGo \in 0..15
  OBVIOUS
<1>1. /\ Weight("write", 5) \in {0, 5} /\ Weight("wifi", 4) \in {0, 4}
      /\ Weight("timeout", 1) \in {0, 1} /\ Weight("pairing", 1) \in {0, 1}
      /\ Weight("bledisc", 1) \in {0, 1}
  BY Weights
<1>2. Unpairs \in {0, 1, 2, 3} /\ Passed \in {0, 1, 2, 3, 4}
      /\ (Passed # 0 => Unpairs = 0)
  BY DEF Unpairs, Passed
<1>3. /\ Passed # 0 /\ Passed # 4 => Weight("write", 5) = 5 \/ Weight("wifi", 4) = 4
      /\ Passed = 4 => Weight("write", 5) = 5
  BY DEF Passed, Weight, Turn, WriteTurn, ServesWrite, ServesWifi
<1> HIDE DEF Weight, Unpairs, Passed
<1> QED BY <1>1, <1>2, <1>3 DEF ToGo, Due

LEMMA ToGoRangeNext == (TypeOK /\ Turn /\ WriteTurn => ToGo \in 0..15)'
BY ToGoRange, PTL

(* The end of a part, whatever was left of it. *)
LEMMA DoneAdvances ==
  ASSUME TypeOK, Turn, WriteTurn,
         NEW part \in {"write", "wifi", "timeout", "pairing", "bledisc"}, Done(part),
         \/ part = "write" /\ pc \in ServesWrite
         \/ part = "wifi" /\ pc \in ServesWifi
         \/ part \notin {"write", "wifi"} /\ pc = part
  PROVE  ToGo' <= ToGo - 1
<1>1. taken' = taken \ {part} /\ pc' \in Bits \cup {"wait"} /\ part \in taken
  <2>1. taken' = taken \ {part} /\ pc' \in Bits \cup {"wait"}
    BY DoneLeads
  <2>2. part \in taken
    BY Stages DEF Turn, WriteTurn
  <2> QED BY <2>1, <2>2
<1>2. Unpairs' = 0 /\ Passed' = 0 /\ Unpairs = 0
  BY <1>1, Stages DEF Unpairs, Passed, ServesWrite, ServesWifi
<1>3. /\ Passed \in {0, 1, 2, 3, 4}
      /\ part = "wifi" => Passed \in {0, 1, 2, 3}
      /\ part \notin {"write", "wifi"} => Passed = 0
  BY DEF Passed, ServesWifi
<1>4. /\ Weight("write", 5) \in {0, 5} /\ Weight("wifi", 4) \in {0, 4}
      /\ Weight("timeout", 1) \in {0, 1} /\ Weight("pairing", 1) \in {0, 1}
      /\ Weight("bledisc", 1) \in {0, 1}
  BY Weights
<1>5. \A n \in Nat : Weight(part, n) = n /\ Weight(part, n)' = 0
  BY <1>1 DEF Weight
<1>6. \A n \in Nat : \A b : b # part => Weight(b, n)' = Weight(b, n)
  BY <1>1 DEF Weight
<1>7. Due' = Due - (IF part = "write" THEN 5 ELSE IF part = "wifi" THEN 4 ELSE 1)
      /\ Due \in Nat
  <2>1. CASE part = "write"
    BY <1>4, <1>5, <1>6, <2>1 DEF Due
  <2>2. CASE part = "wifi"
    BY <1>4, <1>5, <1>6, <2>2 DEF Due
  <2>3. CASE part = "timeout"
    BY <1>4, <1>5, <1>6, <2>3 DEF Due
  <2>4. CASE part = "pairing"
    BY <1>4, <1>5, <1>6, <2>4 DEF Due
  <2>5. CASE part = "bledisc"
    BY <1>4, <1>5, <1>6, <2>5 DEF Due
  <2> QED BY <2>1, <2>2, <2>3, <2>4, <2>5
<1> HIDE DEF Due, Unpairs, Passed
<1> QED BY <1>2, <1>3, <1>7 DEF ToGo

(* A statement within a part, or of the button. *)
LEMMA SameParts ==
  ASSUME taken' = taken PROVE Due' = Due /\ Due \in Nat
<1>1. /\ Weight("write", 5) \in {0, 5} /\ Weight("wifi", 4) \in {0, 4}
      /\ Weight("timeout", 1) \in {0, 1} /\ Weight("pairing", 1) \in {0, 1}
      /\ Weight("bledisc", 1) \in {0, 1}
  BY Weights
<1>2. \A n, b : Weight(b, n)' = Weight(b, n)
  BY DEF Weight
<1> QED BY <1>1, <1>2 DEF Due

LEMMA TurnAdvances ==
  ASSUME TypeOK, TypeOK', Turn, WriteTurn, MainStep, pc # "wait", Unpair => faults' = faults
  PROVE  ToGo' <= ToGo - 1
<1>1. CASE taken' = taken /\ Unpairs = 0 /\ Unpairs' = 0 /\ Passed' = Passed + 1
           /\ Passed \in Nat
  BY <1>1, SameParts DEF ToGo
<1>2. CASE (GetState \/ GetConnectInfo) /\ Continue
  <2>1. taken' = {} /\ pc' = "wait" /\ pc \in {"wifi", "info"} /\ "wifi" \in taken
    BY <1>2 DEF GetState, GetConnectInfo, Continue, Turn, ServesWifi
  <2>2. Due' = 0 /\ Unpairs' = 0 /\ Passed' = 0 /\ Unpairs = 0 /\ Passed \in {0, 1}
    BY <2>1 DEF Due, Weight, Unpairs, Passed
  <2>3. Due >= 4 /\ Due \in Nat
    BY <2>1, Weights DEF Due, Weight
  <2> QED BY <2>2, <2>3 DEF ToGo
<1>3. CASE (GetState /\ ~Continue) \/ (GetConnectInfo /\ ~Continue) \/ NotifyConnected
  <2>1. taken' = taken
        /\ <<pc, pc'>> \in {<<"wifi", "info">>, <<"info", "tell">>, <<"tell", "start">>}
    BY <1>3 DEF GetState, GetConnectInfo, NotifyConnected
  <2>2. Unpairs = 0 /\ Unpairs' = 0 /\ Passed' = Passed + 1 /\ Passed \in Nat
    BY <2>1 DEF Unpairs, Passed
  <2> QED BY <1>1, <2>1, <2>2
<1>4. CASE ProcessWrite \/ Scan \/ ScanEnds \/ DeleteGroup \/ Join \/ ExpectConnect
           \/ ConnectTimeout \/ Leave \/ Quit \/ DisconnectTimeout
  <2>1. \/ Done("write") /\ pc \in ServesWrite
        \/ taken' = taken
           /\ <<pc, pc'>> \in {<<"write", "scan">>, <<"write", "join">>, <<"write", "leave">>,
                               <<"scan", "scanwait">>, <<"scanwait", "delete">>,
                               <<"delete", "forget">>, <<"join", "expect">>,
                               <<"expect", "joinwait">>, <<"leave", "cwqap">>,
                               <<"cwqap", "leavewait">>, <<"scan", "delete">>,
                               <<"joinwait", "joinend">>, <<"leavewait", "leaveend">>}
    BY <1>4 DEF ProcessWrite, Scan, ScanEnds, DeleteGroup, Join, ExpectConnect, ConnectTimeout,
       Leave, Quit, DisconnectTimeout, StartWait, ServesWrite
  <2>2. CASE Done("write") /\ pc \in ServesWrite
    BY <2>2, DoneAdvances
  <2>3. CASE taken' = taken /\ ~(Done("write") /\ pc \in ServesWrite)
    <3>1. Unpairs = 0 /\ Unpairs' = 0 /\ Passed' \in {Passed + 1, Passed + 2}
          /\ Passed \in Nat
      BY <2>1, <2>3 DEF Unpairs, Passed
    <3> QED BY <2>3, <3>1, SameParts DEF ToGo
  <2> QED BY <2>1, <2>2, <2>3
<1>5. CASE ForgetGroup \/ ConnectAnswer \/ GiveUp \/ DisconnectEnds
  <2>1. Done("write") /\ pc \in ServesWrite
    BY <1>5 DEF ForgetGroup, ConnectAnswer, ConnectTimeout, GiveUp, ConnectEnds,
         WriteDone, DisconnectEnds, DisconnectTimeout, ServesWrite
  <2> QED BY <2>1, DoneAdvances
<1>6. CASE StreamStart
  <2>1. Done("wifi") /\ pc \in ServesWifi
    BY <1>6 DEF StreamStart, ServesWifi
  <2> QED BY <2>1, DoneAdvances
<1>7. CASE NotifyTimeout
  BY <1>7, DoneAdvances DEF NotifyTimeout
<1>8. CASE ConfirmPairing
  BY <1>8, DoneAdvances DEF ConfirmPairing
<1>9. CASE AdvStart
  BY <1>9, DoneAdvances DEF AdvStart
<1>10. CASE DropPeer \/ ListBonds
  <2>1. taken' = taken /\ taken \in SUBSET Bits
    BY <1>10 DEF DropPeer, ListBonds, TypeOK
  <2>2. Part(taken) \in Bits \cup {"wait"}
    BY <2>1, PartIn
  <2>3. Passed = 0 /\ Passed' = 0
    BY <1>10, <2>2, Stages DEF DropPeer, ListBonds, Passed
  <2>4. Unpairs' <= Unpairs - 1 /\ Unpairs \in Nat /\ Unpairs' \in Nat
    <3>1. CASE pc' = Part(taken)
      <4>1. Unpairs' = 0
        BY <2>2, <3>1, Stages DEF Unpairs
      <4>2. Unpairs \in {1, 3}
        BY <1>10 DEF DropPeer, ListBonds, Unpairs
      <4> QED BY <4>1, <4>2
    <3>2. CASE pc' = "unpair" /\ ListBonds
      <4>1. bonds # 0 /\ pc = "list"
        <5>1. listed' # 0 /\ pc = "list"
          BY <2>2, <3>2, Stages DEF ListBonds
        <5>2. listed' \in {0, bonds}
          BY <3>2 DEF ListBonds
        <5> QED BY <5>1, <5>2
      <4> QED BY <3>2, <4>1 DEF Unpairs
    <3> QED BY <1>10, <3>1, <3>2 DEF DropPeer, ListBonds
  <2> QED BY <2>1, <2>3, <2>4, SameParts DEF ToGo
<1>11. CASE Unpair
  <2>1. ~Failure
    BY <1>11, Stages DEF Failure, TypeOK
  <2>2. taken' = taken /\ pc = "unpair" /\ pc' = "list" /\ bonds' = 0
    BY <1>11, <2>1 DEF Unpair
  <2>3. Passed = 0 /\ Passed' = 0 /\ Unpairs = 2 /\ Unpairs' = 1
    BY <2>2 DEF Passed, Unpairs
  <2> QED BY <2>2, <2>3, SameParts DEF ToGo
<1>12. ~WaitEvents
  BY DEF WaitEvents
<1> QED BY <1>2, <1>3, <1>4, <1>5, <1>6, <1>7, <1>8, <1>9, <1>10, <1>11, <1>12
        DEF MainStep, CommissionStep

(* The others leave the turn, the bonded devices and a press alone. *)
LEMMA OthersWait ==
  ASSUME [Next]_vars, ~MainStep
  PROVE  UNCHANGED <<pc, taken, bonds>> /\ (pending' = pending \/ Press)
<1> USE DEF loop, app, driver, commission, ncp, bounds
<1>1. UNCHANGED <<pc, taken>>
  BY TurnSteps
<1>2. CASE StreamStep
  BY <1>1, <1>2 DEF StreamStep, StreamRuns, StreamLeaves
<1>3. CASE StationParser
  <2>1. UNCHANGED <<bonds, pending>>
    BY <1>3 DEF StationParser, Connected, DelayEnds, LinkUp, Disconnected, Reason
  <2> QED BY <1>1, <2>1
<1>4. CASE BleParser
  <2>1. UNCHANGED <<bonds, pending>>
    BY <1>4 DEF BleParser, BleConnected, BleDisconnected, PairingAsked, BleWrite, ScanPrints,
       ScanStored
  <2> QED BY <1>1, <2>1
<1>5. CASE Air
  <2>1. UNCHANGED <<bonds, pending>>
    BY <1>5 DEF Air, AirJoins, Radio, AirRefuses, AirGivesUp, AirComplains, AirLost
  <2> QED BY <1>1, <2>1
<1>6. CASE PhoneStep \/ NcpScanned
  <2>1. UNCHANGED <<bonds, pending>>
    BY <1>6 DEF PhoneStep, PhoneConnects, Phone, PhoneLeaves, PhonePairs, PhoneWrites, NcpScanned
  <2> QED BY <1>1, <2>1
<1>7. CASE Press
  BY <1>1, <1>7 DEF Press
<1>8. CASE UNCHANGED vars
  BY <1>1, <1>8 DEF vars
<1> QED BY <1>2, <1>3, <1>4, <1>5, <1>6, <1>7, <1>8 DEF Next, ParserStep, Settled

LEMMA MainLeavesPress ==
  ASSUME MainStep, ~WaitEvents PROVE pending' = pending
BY DEF MainStep, GetState, GetConnectInfo, NotifyConnected, StreamStart, AdvStart,
         CommissionStep, ProcessWrite, Scan, ScanEnds, DeleteGroup, ForgetGroup,
         Join, ExpectConnect, ConnectAnswer, ConnectTimeout, GiveUp, ConnectEnds,
         Leave, Quit, DisconnectEnds, DisconnectTimeout, DropPeer, ListBonds,
         Unpair, ConfirmPairing, NotifyTimeout, app, Notify

Pressed(n) == pending /\ ToGo <= n

LEMMA PressedSooner ==
  ASSUME TypeOK, TypeOK', Turn, Turn', WriteTurn, WriteTurn', [Next]_vars, NEW n \in Nat, Pressed(n),
         Unpair => faults' = faults
  PROVE  /\ Pressed(n)' \/ ~pending'
         /\ MainStep => Pressed(n - 1)' \/ ~pending'
<1>1. ToGo \in Nat /\ ToGo' \in Nat
  BY ToGoRange, ToGoRangeNext
<1>2. CASE WaitEvents
  BY <1>2 DEF WaitEvents
<1>3. CASE MainStep /\ ~WaitEvents
  <2>1. pc # "wait"
    BY <1>3 DEF MainStep, WaitEvents, GetState, GetConnectInfo, NotifyConnected,
         StreamStart, AdvStart, CommissionStep, ProcessWrite, Scan, ScanEnds,
         DeleteGroup, ForgetGroup, Join, ExpectConnect, ConnectAnswer,
         ConnectTimeout, GiveUp, Leave, Quit, DisconnectEnds, DisconnectTimeout,
         DropPeer, ListBonds, Unpair, ConfirmPairing, NotifyTimeout
  <2>2. ToGo' <= ToGo - 1 /\ pending'
    BY <1>3, <2>1, TurnAdvances, MainLeavesPress DEF Pressed
  <2> QED BY <1>1, <2>2 DEF Pressed
<1>4. CASE ~MainStep
  <2>1. UNCHANGED <<pc, taken, bonds>> /\ pending'
    BY <1>4, OthersWait DEF Pressed, Press
  <2>2. ToGo' = ToGo
    BY <2>1 DEF ToGo, Due, Weight, Unpairs, Passed
  <2> QED BY <1>1, <1>4, <2>1, <2>2 DEF Pressed
<1>5. WaitEvents => MainStep \/ ~MainStep
  OBVIOUS
<1> QED BY <1>2, <1>3, <1>4

(* A press of the button is served as long as the application task goes on *)
(* and unpairing does not fail for ever, which alone could keep it in the  *)
(* loop of BLE_COMM_APP_ProcessButton: every turn of main_app ends.        *)
THEOREM PressIsServed == Spec /\ MainGoesOn /\ UnpairingWorks => ButtonServed
<1> DEFINE Press1 == pending
           Rests == pc = "wait" /\ bits = {} /\ ~pending
           Main == MainStep
           Works == Unpair => faults' = faults
           All == TypeOK /\ Turn /\ WriteTurn
           P0 == Pressed(0)
           P1 == Pressed(1)
           P2 == Pressed(2)
           P3 == Pressed(3)
           P4 == Pressed(4)
           P5 == Pressed(5)
           P6 == Pressed(6)
           P7 == Pressed(7)
           P8 == Pressed(8)
           P9 == Pressed(9)
           P10 == Pressed(10)
           P11 == Pressed(11)
           P12 == Pressed(12)
           P13 == Pressed(13)
           P14 == Pressed(14)
           P15 == Pressed(15)
<1>1. Press1 /\ All => P15
  BY ToGoRange DEF Pressed
<1>2. All /\ All' /\ [Next]_vars /\ [Works]_vars /\ P0 => P0' \/ ~Press1'
  BY PressedSooner DEF vars, bounds
<1>3. All /\ All' /\ [Next]_vars /\ [Works]_vars /\ P0 /\ <<Main>>_vars => ~Press1'
  <2> SUFFICES ASSUME All, All', [Next]_vars, [Works]_vars, P0, Main PROVE ~pending'
    OBVIOUS
  <2>1. Works
    BY DEF vars, bounds
  <2>2. Pressed(0 - 1)' \/ ~pending'
    BY <2>1, PressedSooner
  <2>3. ToGo' \in Nat
    BY ToGoRangeNext
  <2> QED BY <2>2, <2>3 DEF Pressed
<1>4. All /\ All' /\ [Next]_vars /\ [Works]_vars /\ P1 =>
        (P1' \/ ~Press1') /\ (<<Main>>_vars => P0' \/ ~Press1')
  BY PressedSooner DEF vars, bounds
<1>5. All /\ All' /\ [Next]_vars /\ [Works]_vars /\ P2 =>
        (P2' \/ ~Press1') /\ (<<Main>>_vars => P1' \/ ~Press1')
  BY PressedSooner DEF vars, bounds
<1>6. All /\ All' /\ [Next]_vars /\ [Works]_vars /\ P3 =>
        (P3' \/ ~Press1') /\ (<<Main>>_vars => P2' \/ ~Press1')
  BY PressedSooner DEF vars, bounds
<1>7. All /\ All' /\ [Next]_vars /\ [Works]_vars /\ P4 =>
        (P4' \/ ~Press1') /\ (<<Main>>_vars => P3' \/ ~Press1')
  BY PressedSooner DEF vars, bounds
<1>8. All /\ All' /\ [Next]_vars /\ [Works]_vars /\ P5 =>
        (P5' \/ ~Press1') /\ (<<Main>>_vars => P4' \/ ~Press1')
  BY PressedSooner DEF vars, bounds
<1>9. All /\ All' /\ [Next]_vars /\ [Works]_vars /\ P6 =>
        (P6' \/ ~Press1') /\ (<<Main>>_vars => P5' \/ ~Press1')
  BY PressedSooner DEF vars, bounds
<1>10. All /\ All' /\ [Next]_vars /\ [Works]_vars /\ P7 =>
        (P7' \/ ~Press1') /\ (<<Main>>_vars => P6' \/ ~Press1')
  BY PressedSooner DEF vars, bounds
<1>11. All /\ All' /\ [Next]_vars /\ [Works]_vars /\ P8 =>
        (P8' \/ ~Press1') /\ (<<Main>>_vars => P7' \/ ~Press1')
  BY PressedSooner DEF vars, bounds
<1>12. All /\ All' /\ [Next]_vars /\ [Works]_vars /\ P9 =>
        (P9' \/ ~Press1') /\ (<<Main>>_vars => P8' \/ ~Press1')
  BY PressedSooner DEF vars, bounds
<1>13. All /\ All' /\ [Next]_vars /\ [Works]_vars /\ P10 =>
        (P10' \/ ~Press1') /\ (<<Main>>_vars => P9' \/ ~Press1')
  BY PressedSooner DEF vars, bounds
<1>14. All /\ All' /\ [Next]_vars /\ [Works]_vars /\ P11 =>
        (P11' \/ ~Press1') /\ (<<Main>>_vars => P10' \/ ~Press1')
  BY PressedSooner DEF vars, bounds
<1>15. All /\ All' /\ [Next]_vars /\ [Works]_vars /\ P12 =>
        (P12' \/ ~Press1') /\ (<<Main>>_vars => P11' \/ ~Press1')
  BY PressedSooner DEF vars, bounds
<1>16. All /\ All' /\ [Next]_vars /\ [Works]_vars /\ P13 =>
        (P13' \/ ~Press1') /\ (<<Main>>_vars => P12' \/ ~Press1')
  BY PressedSooner DEF vars, bounds
<1>17. All /\ All' /\ [Next]_vars /\ [Works]_vars /\ P14 =>
        (P14' \/ ~Press1') /\ (<<Main>>_vars => P13' \/ ~Press1')
  BY PressedSooner DEF vars, bounds
<1>18. All /\ All' /\ [Next]_vars /\ [Works]_vars /\ P15 =>
        (P15' \/ ~Press1') /\ (<<Main>>_vars => P14' \/ ~Press1')
  BY PressedSooner DEF vars, bounds
<1>19. /\ Init => WriteTurn
       /\ Inv => TypeOK /\ Turn
  BY DEF Init, WriteTurn, ServesWrite, Inv
<1>20. Spec => []All
  BY <1>19, WriteTurnStep, Inductive, PTL DEF Spec
<1>21. Rests => ~Press1
  OBVIOUS
<1>22. MainGoesOn => []<>Rests \/ []<><<Main>>_vars
  BY DEF MainGoesOn
<1>23. UnpairingWorks => <>[][Works]_vars
  BY DEF UnpairingWorks
<1> HIDE DEF Press1, Rests, Main, Works, All, P0, P1, P2, P3, P4, P5, P6, P7, P8, P9, P10, P11, P12, P13, P14, P15
<1>24. Spec /\ MainGoesOn /\ UnpairingWorks => (Press1 ~> ~Press1)
  BY <1>1, <1>2, <1>3, <1>4, <1>5, <1>6, <1>7, <1>8, <1>9, <1>10, <1>11, <1>12, <1>13, <1>14, <1>15, <1>16, <1>17, <1>18, <1>20, <1>21, <1>22, <1>23, PTL DEF Spec
<1> QED BY <1>24 DEF ButtonServed, Press1
=============================================================================
