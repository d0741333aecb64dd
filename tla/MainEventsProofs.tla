--------------------------- MODULE MainEventsProofs ---------------------------
(***************************************************************************)
(* Proofs about MainEvents, for any number of events and failures.         *)
(***************************************************************************)
EXTENDS MainEvents, SequenceTheorems, TLAPS

(***************************************************************************)
(* The inductive invariants.                                               *)
(***************************************************************************)

(* A part of the turn runs because its bit was taken. *)
ServesWifi == {"wifi", "info", "tell", "start"}
Turn ==
  /\ pc = "wait" => taken = {}
  /\ pc \in Bits => pc \in taken
  /\ pc \in ServesWifi => "wifi" \in taken
  /\ pc \in {"info", "tell", "start"} => staApp = "on"

(* A connection is expected only in the wait for it and until the next     *)
(* statement; what ends a wait is taken at once, so that only a late flag  *)
(* is left, until the next wait takes it.                                  *)
Expected ==
  /\ "CONNECT" \in expect => pc \in {"joinwait", "joinend"}
  /\ "CONNECT" \in flags => hist.late /\ pc # "joinwait"
  /\ granted # {} => pc \in {"joinwait", "leavewait"}
  /\ "CONNECT" \in granted => (hist.joined \/ hist.late) /\ pc = "joinwait"
  /\ hist.late => "CONNECT" \in flags \cup granted
  /\ parser = "delay" => hist.joined

(* The last word the parser task will have heard of the connection. *)
Word == {"connected", "disconnected"}
Silent(i) == \A j \in 1..Len(inbox) : j > i => inbox[j] \notin Word
LastWord ==
  /\ \A i \in 1..Len(inbox) :
       inbox[i] \in Word /\ Silent(i) => (inbox[i] = "connected" <=> air = "on")
  /\ Silent(0) => (sta = "on" <=> air = "on" /\ ~hist.erased)

(* A connection is served, or the event that will see to it is under way.  *)
Served == staApp = "on" /\ stream \in {"created", "running"}
Coming == parser \in {"delay", "linkup"} \/ "wifi" \in bits \cup taken
Serving ==
  faults = 0 /\ sta = "on" /\ "wifi" \notin hist.skipped => Served \/ Coming

(* As long as no scan was given up, its results come while it is waited    *)
(* for, and once.                                                          *)
None == \A i \in 1..Len(inbox) : inbox[i] # "scanned"
One ==
  /\ \E i \in 1..Len(inbox) : inbox[i] = "scanned"
  /\ \A i, j \in 1..Len(inbox) : inbox[i] = "scanned" /\ inbox[j] = "scanned" => i = j
NoResult == scans = 0 /\ parser # "scan" /\ None
OneResult ==
  \/ scans = 1 /\ parser # "scan" /\ None
  \/ scans = 0 /\ parser # "scan" /\ One
  \/ scans = 0 /\ parser = "scan" /\ None
Results == ~hist.scanFailed =>
  /\ ~hist.corrupt
  /\ pc \in {"scan", "scanwait"} => group = "live"
  /\ pc = "scan" => ~scanDone
  /\ NoResult \/ (pc = "scanwait" /\ ~scanDone /\ OneResult)


Inv == TypeOK /\ Turn /\ Expected /\ LastWord /\ Serving /\ Results

(***************************************************************************)
(* Type correctness.                                                       *)
(***************************************************************************)

LEMMA PartIn ==
  ASSUME NEW todo \in SUBSET Bits
  PROVE  /\ todo = {} => Part(todo) = "wait"
         /\ todo # {} => Part(todo) \in todo
<1>1. ASSUME todo # {} PROVE Part(todo) \in todo
  <2>0. DOMAIN Parts = 1..5 /\ 1 \in 1..5 /\ 2 \in 1..5 /\ 3 \in 1..5 /\ 4 \in 1..5 /\ 5 \in 1..5
    BY DEF Parts
  <2>1. \E k \in 1..5 : Parts[k] \in todo
    BY <1>1, <2>0 DEF Bits
  <2>2. /\ \A j \in 1..(1 - 1) : FALSE
        /\ \A j \in 1..(2 - 1) : j = 1
        /\ \A j \in 1..(3 - 1) : j = 1 \/ j = 2
        /\ \A j \in 1..(4 - 1) : j = 1 \/ j = 2 \/ j = 3
        /\ \A j \in 1..(5 - 1) : j = 1 \/ j = 2 \/ j = 3 \/ j = 4
        /\ \A k \in 1..5 : k = 1 \/ k = 2 \/ k = 3 \/ k = 4 \/ k = 5
    OBVIOUS
  <2>3. \E i \in 1..5 : Parts[i] \in todo /\ \A j \in 1..(i - 1) : Parts[j] \notin todo
    BY <2>0, <2>1, <2>2
  <2> DEFINE first == CHOOSE i \in DOMAIN Parts :
                        Parts[i] \in todo /\ \A j \in 1..(i - 1) : Parts[j] \notin todo
  <2>4. Parts[first] \in todo
    BY <2>0, <2>3
  <2> QED BY <1>1, <2>4 DEF Part
<1> QED BY <1>1 DEF Part

LEMMA PartType ==
  ASSUME NEW todo \in SUBSET Bits PROVE Part(todo) \in Bits \cup {"wait"}
BY PartIn

LEMMA Stages ==
  /\ Bits = {"write", "wifi", "timeout", "pairing", "bledisc"}
  /\ MaxEvents \in Nat /\ MaxFaults \in Nat
<1>1. DOMAIN Parts = {1, 2, 3, 4, 5}
  BY DEF Parts
<1> QED BY <1>1, AppAssumption DEF Bits, Parts

Flags == {"asked", "lost", "silent", "joined", "late", "erased", "scanFailed", "corrupt"}
Histories == [asked : BOOLEAN, lost : BOOLEAN, skipped : SUBSET Bits, silent : BOOLEAN,
              joined : BOOLEAN, late : BOOLEAN, erased : BOOLEAN, scanFailed : BOOLEAN,
              corrupt : BOOLEAN]

(***************************************************************************)
(* Which steps change what.                                                *)
(***************************************************************************)

(* The state of the station in the driver. *)
LEMMA StationSteps ==
  ASSUME [Next]_vars
  PROVE  \/ sta' = sta
         \/ ConnectAnswer \/ GiveUp \/ Connected \/ Disconnected
<1> USE DEF loop, app, driver, commission, ncp, bounds, Answered, Failure,
            Happens, NoFailure, Emit, Note, NoRequest, Done
<1>1. CASE MainStep
  BY <1>1 DEF MainStep, CommissionStep, WaitEvents, AfterButton, GetState, Continue,
         GetConnectInfo, NotifyConnected, Notify, StreamStart, AdvStart,
         ProcessWrite, Scan, ScanEnds, DeleteGroup, ForgetGroup, Join, ConnectFails,
         ExpectConnect, StartWait, ConnectTimeout, Leave, Quit, DisconnectEnds, DisconnectTimeout,
         WriteDone, DropPeer, ListBonds, Unpair, ConfirmPairing, NotifyTimeout
<1>2. CASE StreamStep
  BY <1>2 DEF StreamStep, StreamRuns, StreamLeaves
<1>3. CASE ParserStep
  BY <1>3 DEF ParserStep, StationParser, BleParser, DelayEnds, SetFlag, Awaited,
         Waiting, LinkUp, Reason, Take, BleConnected, BleDisconnected, Raise,
         PairingAsked, BleWrite, ScanPrints, ScanStored
<1>4. CASE Air \/ PhoneStep \/ NcpScanned \/ Press
  BY <1>4 DEF Air, PhoneStep, AirJoins, Radio, AirRefuses, AirGivesUp, AirComplains,
         AirLost, PhoneConnects, Phone, PhoneLeaves, PhonePairs, PhoneWrites,
         NcpScanned, Press
<1>5. CASE UNCHANGED vars
  BY <1>5 DEF vars
<1> QED BY <1>1, <1>2, <1>3, <1>4, <1>5 DEF Next, Settled

(* The state of the station in the NCP. *)
LEMMA AirSteps ==
  ASSUME [Next]_vars
  PROVE  \/ air' = air
         \/ Join \/ Quit \/ AirJoins \/ AirRefuses \/ AirGivesUp \/ AirComplains
            \/ AirLost
<1> USE DEF loop, app, driver, commission, ncp, bounds, Answered, Failure,
            Happens, NoFailure, Emit, Note, NoRequest, Done
<1>1. CASE MainStep
  BY <1>1 DEF MainStep, CommissionStep, WaitEvents, AfterButton, GetState, Continue,
         GetConnectInfo, NotifyConnected, Notify, StreamStart, AdvStart,
         ProcessWrite, Scan, ScanEnds, DeleteGroup, ForgetGroup, ExpectConnect,
         StartWait, ConnectAnswer, ConnectEnds, WriteDone, ConnectFails,
         ConnectTimeout, GiveUp, Leave, DisconnectEnds, DisconnectTimeout, DropPeer,
         ListBonds, Unpair, ConfirmPairing, NotifyTimeout
<1>2. CASE StreamStep
  BY <1>2 DEF StreamStep, StreamRuns, StreamLeaves
<1>3. CASE ParserStep
  BY <1>3 DEF ParserStep, StationParser, BleParser, Connected, Take, DelayEnds,
         SetFlag, Awaited, Waiting, LinkUp, Disconnected, Reason, BleConnected,
         BleDisconnected, Raise, PairingAsked, BleWrite, ScanPrints,
         ScanStored
<1>4. CASE Air \/ PhoneStep \/ NcpScanned \/ Press
  BY <1>4 DEF Air, PhoneStep, PhoneConnects, Phone, PhoneLeaves, PhonePairs,
         PhoneWrites, NcpScanned, Press
<1>5. CASE UNCHANGED vars
  BY <1>5 DEF vars
<1> QED BY <1>1, <1>2, <1>3, <1>4, <1>5 DEF Next, Settled

(* The events on their way. *)
LEMMA InboxSteps ==
  ASSUME [Next]_vars
  PROVE  \/ inbox' = inbox
         \/ Join \/ Quit \/ DropPeer \/ Connected \/ Disconnected \/ Reason
            \/ BleConnected \/ BleDisconnected \/ PairingAsked
            \/ (\E op \in WriteOps : BleWrite(op)) \/ ScanPrints \/ AirJoins
            \/ AirRefuses \/ AirComplains \/ AirLost \/ PhoneConnects
            \/ PhoneLeaves \/ PhonePairs
            \/ (\E op \in WriteOps : PhoneWrites(op)) \/ NcpScanned
<1> USE DEF loop, app, driver, commission, ncp, bounds, Answered, Failure,
            Happens, NoFailure, Emit, Note, NoRequest, Done
<1>1. CASE MainStep
  BY <1>1 DEF MainStep, CommissionStep, WaitEvents, AfterButton, GetState, Continue,
         GetConnectInfo, NotifyConnected, Notify, StreamStart, AdvStart,
         ProcessWrite, Scan, ScanEnds, DeleteGroup, ForgetGroup, ExpectConnect,
         StartWait, ConnectAnswer, ConnectEnds, WriteDone, ConnectFails,
         ConnectTimeout, GiveUp, Leave, DisconnectEnds, DisconnectTimeout,
         ListBonds, Unpair, ConfirmPairing, NotifyTimeout
<1>2. CASE StreamStep
  BY <1>2 DEF StreamStep, StreamRuns, StreamLeaves
<1>3. CASE ParserStep
  BY <1>3 DEF ParserStep, StationParser, BleParser, DelayEnds, SetFlag, Awaited,
         Waiting, LinkUp, ScanStored
<1>4. CASE Air \/ PhoneStep \/ NcpScanned \/ Press
  BY <1>4 DEF Air, PhoneStep, AirGivesUp, Radio, Press
<1>5. CASE UNCHANGED vars
  BY <1>5 DEF vars
<1> QED BY <1>1, <1>2, <1>3, <1>4, <1>5 DEF Next, Settled

(* What the driver expects and has been told. *)
LEMMA FlagSteps ==
  ASSUME [Next]_vars
  PROVE  \/ UNCHANGED <<expect, flags, granted>>
         \/ ExpectConnect \/ ConnectAnswer \/ GiveUp \/ Leave \/ Quit
            \/ DisconnectEnds \/ DelayEnds \/ Disconnected \/ Reason
<1> USE DEF loop, app, driver, commission, ncp, bounds, Answered, Failure,
            Happens, NoFailure, Emit, Note, NoRequest, Done
<1>1. CASE MainStep
  BY <1>1 DEF MainStep, CommissionStep, WaitEvents, AfterButton, GetState, Continue,
         GetConnectInfo, NotifyConnected, Notify, StreamStart, AdvStart,
         ProcessWrite, Scan, ScanEnds, DeleteGroup, ForgetGroup, Join,
         ConnectFails, ConnectTimeout, DisconnectTimeout, DropPeer, ListBonds, Unpair, ConfirmPairing,
         NotifyTimeout
<1>2. CASE StreamStep
  BY <1>2 DEF StreamStep, StreamRuns, StreamLeaves
<1>3. CASE ParserStep
  BY <1>3 DEF ParserStep, StationParser, BleParser, Connected, Take, LinkUp,
         BleConnected, BleDisconnected, Raise, PairingAsked, BleWrite,
         ScanPrints, ScanStored
<1>4. CASE Air \/ PhoneStep \/ NcpScanned \/ Press
  BY <1>4 DEF Air, PhoneStep, AirJoins, Radio, AirRefuses, AirGivesUp, AirComplains,
         AirLost, PhoneConnects, Phone, PhoneLeaves, PhonePairs, PhoneWrites,
         NcpScanned, Press
<1>5. CASE UNCHANGED vars
  BY <1>5 DEF vars
<1> QED BY <1>1, <1>2, <1>3, <1>4, <1>5 DEF Next, Settled

(* Where the parser task is. *)
LEMMA ParserSteps ==
  ASSUME [Next]_vars
  PROVE  \/ parser' = parser
         \/ Connected \/ DelayEnds \/ LinkUp \/ ScanPrints \/ ScanStored
<1> USE DEF loop, app, driver, commission, ncp, bounds, Answered, Failure,
            Happens, NoFailure, Emit, Note, NoRequest, Done
<1>1. CASE MainStep
  BY <1>1 DEF MainStep, CommissionStep, WaitEvents, AfterButton, GetState, Continue,
         GetConnectInfo, NotifyConnected, Notify, StreamStart, AdvStart,
         ProcessWrite, Scan, ScanEnds, DeleteGroup, ForgetGroup, Join, ConnectFails,
         ExpectConnect, StartWait, ConnectAnswer, ConnectEnds, WriteDone,
         ConnectTimeout, GiveUp, Leave, Quit, DisconnectEnds, DisconnectTimeout,
         DropPeer, ListBonds, Unpair, ConfirmPairing, NotifyTimeout
<1>2. CASE StreamStep
  BY <1>2 DEF StreamStep, StreamRuns, StreamLeaves
<1>3. CASE ParserStep
  BY <1>3 DEF ParserStep, StationParser, BleParser, Disconnected, SetFlag, Awaited,
         Take, Reason, BleConnected, BleDisconnected, Raise, PairingAsked,
         BleWrite
<1>4. CASE Air \/ PhoneStep \/ NcpScanned \/ Press
  BY <1>4 DEF Air, PhoneStep, AirJoins, Radio, AirRefuses, AirGivesUp, AirComplains,
         AirLost, PhoneConnects, Phone, PhoneLeaves, PhonePairs, PhoneWrites,
         NcpScanned, Press
<1>5. CASE UNCHANGED vars
  BY <1>5 DEF vars
<1> QED BY <1>1, <1>2, <1>3, <1>4, <1>5 DEF Next, Settled

(* What the application knows of the station and of its stream task. *)
LEMMA StreamTaskSteps ==
  ASSUME [Next]_vars
  PROVE  \/ UNCHANGED <<staApp, stream>>
         \/ GetState \/ StreamStart \/ StreamRuns \/ StreamLeaves
<1> USE DEF loop, app, driver, commission, ncp, bounds, Answered, Failure,
            Happens, NoFailure, Emit, Note, NoRequest, Done
<1>1. CASE MainStep
  BY <1>1 DEF MainStep, CommissionStep, WaitEvents, AfterButton, GetConnectInfo,
         Continue, NotifyConnected, Notify, AdvStart, ProcessWrite, Scan, ScanEnds,
         DeleteGroup, ForgetGroup, Join, ConnectFails, ExpectConnect, StartWait,
         ConnectAnswer, ConnectEnds, WriteDone, ConnectTimeout, GiveUp, Leave, Quit,
         DisconnectEnds, DisconnectTimeout, DropPeer, ListBonds, Unpair,
         ConfirmPairing, NotifyTimeout
<1>2. CASE StreamStep
  BY <1>2 DEF StreamStep
<1>3. CASE ParserStep
  BY <1>3 DEF ParserStep, StationParser, BleParser, Connected, Take, DelayEnds,
         SetFlag, Awaited, Waiting, LinkUp, Disconnected, Reason, BleConnected,
         BleDisconnected, Raise, PairingAsked, BleWrite, ScanPrints,
         ScanStored
<1>4. CASE Air \/ PhoneStep \/ NcpScanned \/ Press
  BY <1>4 DEF Air, PhoneStep, AirJoins, Radio, AirRefuses, AirGivesUp, AirComplains,
         AirLost, PhoneConnects, Phone, PhoneLeaves, PhonePairs, PhoneWrites,
         NcpScanned, Press
<1>5. CASE UNCHANGED vars
  BY <1>5 DEF vars
<1> QED BY <1>1, <1>2, <1>3, <1>4, <1>5 DEF Next, Settled

(* The scans of the NCP and the event group for their results. *)
LEMMA ScanSteps ==
  ASSUME [Next]_vars
  PROVE  \/ UNCHANGED <<scans, group, scanDone>>
         \/ ProcessWrite \/ Scan \/ DeleteGroup \/ ForgetGroup \/ ScanStored
            \/ NcpScanned
<1> USE DEF loop, app, driver, commission, ncp, bounds, Answered, Failure,
            Happens, NoFailure, Emit, Note, NoRequest, Done
<1>1. CASE MainStep
  BY <1>1 DEF MainStep, CommissionStep, WaitEvents, AfterButton, GetState, Continue,
         GetConnectInfo, NotifyConnected, Notify, StreamStart, AdvStart, ScanEnds,
         Join, ConnectFails, ExpectConnect, StartWait, ConnectAnswer, ConnectEnds,
         WriteDone, ConnectTimeout, GiveUp, Leave, Quit, DisconnectEnds,
         DisconnectTimeout, DropPeer, ListBonds, Unpair, ConfirmPairing,
         NotifyTimeout
<1>2. CASE StreamStep
  BY <1>2 DEF StreamStep, StreamRuns, StreamLeaves
<1>3. CASE ParserStep
  BY <1>3 DEF ParserStep, StationParser, BleParser, Connected, Take, DelayEnds,
         SetFlag, Awaited, Waiting, LinkUp, Disconnected, Reason, BleConnected,
         BleDisconnected, Raise, PairingAsked, BleWrite, ScanPrints
<1>4. CASE Air \/ PhoneStep \/ NcpScanned \/ Press
  BY <1>4 DEF Air, PhoneStep, AirJoins, Radio, AirRefuses, AirGivesUp, AirComplains,
         AirLost, PhoneConnects, Phone, PhoneLeaves, PhonePairs, PhoneWrites,
         Press
<1>5. CASE UNCHANGED vars
  BY <1>5 DEF vars
<1> QED BY <1>1, <1>2, <1>3, <1>4, <1>5 DEF Next, Settled

(* What is remembered of joins. *)
LEMMA JoinHistory ==
  ASSUME hist \in Histories, [Next]_vars
  PROVE  \/ UNCHANGED <<hist.joined, hist.late, hist.erased>>
         \/ Join \/ ConnectAnswer \/ GiveUp \/ Connected \/ Disconnected \/ DelayEnds
<1> USE DEF Histories, Continue, loop, app, driver, commission, ncp, bounds, Answered, Failure,
            Happens, NoFailure, Emit, Note, NoRequest, Done
<1>1. CASE MainStep
  BY <1>1 DEF MainStep, CommissionStep, WaitEvents, AfterButton, GetState, Continue,
         GetConnectInfo, NotifyConnected, Notify, StreamStart, AdvStart,
         ProcessWrite, Scan, ScanEnds, DeleteGroup, ForgetGroup, ExpectConnect,
         StartWait, ConnectTimeout, Leave, Quit, DisconnectEnds, DisconnectTimeout, WriteDone,
         DropPeer, ListBonds, Unpair, ConfirmPairing, NotifyTimeout
<1>2. CASE StreamStep
  BY <1>2 DEF StreamStep, StreamRuns, StreamLeaves
<1>3. CASE ParserStep
  BY <1>3 DEF ParserStep, StationParser, BleParser, LinkUp, Reason, Take, BleConnected, BleDisconnected, Raise,
         PairingAsked, BleWrite, ScanPrints, ScanStored
<1>4. CASE Air \/ PhoneStep \/ NcpScanned \/ Press
  BY <1>4 DEF Air, PhoneStep, AirJoins, Radio, AirRefuses, AirGivesUp, AirComplains,
         AirLost, PhoneConnects, Phone, PhoneLeaves, PhonePairs, PhoneWrites,
         NcpScanned, Press
<1>5. CASE UNCHANGED vars
  BY <1>5 DEF vars
<1> QED BY <1>1, <1>2, <1>3, <1>4, <1>5 DEF Next, Settled

(* What is remembered of turns cut short. *)
LEMMA SkipHistory ==
  ASSUME hist \in Histories, [Next]_vars
  PROVE  \/ UNCHANGED <<hist.skipped>>
         \/ GetState \/ GetConnectInfo \/ StreamStart
<1> USE DEF Histories, Continue, loop, app, driver, commission, ncp, bounds, Answered, Failure,
            Happens, NoFailure, Emit, Note, NoRequest, Done
<1>1. CASE MainStep
  BY <1>1 DEF MainStep, CommissionStep, WaitEvents, AfterButton, NotifyConnected,
         Notify, AdvStart, ProcessWrite, Scan, ScanEnds, DeleteGroup, ForgetGroup,
         Join, ConnectFails, ExpectConnect, StartWait, ConnectAnswer, ConnectEnds,
         WriteDone, ConnectTimeout, GiveUp, Leave, Quit, DisconnectEnds,
         DisconnectTimeout, DropPeer, ListBonds, Unpair, ConfirmPairing,
         NotifyTimeout
<1>2. CASE StreamStep
  BY <1>2 DEF StreamStep, StreamRuns, StreamLeaves
<1>3. CASE ParserStep
  BY <1>3 DEF ParserStep, StationParser, BleParser, Connected, Take, DelayEnds,
         SetFlag, Awaited, Waiting, LinkUp, Disconnected, Reason, BleConnected,
         BleDisconnected, Raise, PairingAsked, BleWrite, ScanPrints,
         ScanStored
<1>4. CASE Air \/ PhoneStep \/ NcpScanned \/ Press
  BY <1>4 DEF Air, PhoneStep, AirJoins, Radio, AirRefuses, AirGivesUp, AirComplains,
         AirLost, PhoneConnects, Phone, PhoneLeaves, PhonePairs, PhoneWrites,
         NcpScanned, Press
<1>5. CASE UNCHANGED vars
  BY <1>5 DEF vars
<1> QED BY <1>1, <1>2, <1>3, <1>4, <1>5 DEF Next, Settled

(* What is remembered of scans. *)
LEMMA ScanHistory ==
  ASSUME hist \in Histories, [Next]_vars
  PROVE  \/ UNCHANGED <<hist.scanFailed, hist.corrupt>>
         \/ Scan \/ ScanEnds \/ ScanStored
<1> USE DEF Histories, Continue, loop, app, driver, commission, ncp, bounds, Answered, Failure,
            Happens, NoFailure, Emit, Note, NoRequest, Done
<1>1. CASE MainStep
  BY <1>1 DEF MainStep, CommissionStep, WaitEvents, AfterButton, GetState, Continue,
         GetConnectInfo, NotifyConnected, Notify, StreamStart, AdvStart,
         ProcessWrite, DeleteGroup, ForgetGroup, Join, ConnectFails, ExpectConnect,
         StartWait, ConnectAnswer, ConnectEnds, WriteDone, ConnectTimeout, GiveUp,
         Leave, Quit, DisconnectEnds, DisconnectTimeout, DropPeer, ListBonds,
         Unpair, ConfirmPairing, NotifyTimeout
<1>2. CASE StreamStep
  BY <1>2 DEF StreamStep, StreamRuns, StreamLeaves
<1>3. CASE ParserStep
  BY <1>3 DEF ParserStep, StationParser, BleParser, Connected, Take, DelayEnds,
         SetFlag, Awaited, Waiting, LinkUp, Disconnected, Reason, BleConnected,
         BleDisconnected, Raise, PairingAsked, BleWrite, ScanPrints
<1>4. CASE Air \/ PhoneStep \/ NcpScanned \/ Press
  BY <1>4 DEF Air, PhoneStep, AirJoins, Radio, AirRefuses, AirGivesUp, AirComplains,
         AirLost, PhoneConnects, Phone, PhoneLeaves, PhonePairs, PhoneWrites,
         NcpScanned, Press
<1>5. CASE UNCHANGED vars
  BY <1>5 DEF vars
<1> QED BY <1>1, <1>2, <1>3, <1>4, <1>5 DEF Next, Settled

(* Only the application task moves itself. *)
LEMMA TurnSteps ==
  ASSUME [Next]_vars
  PROVE  \/ UNCHANGED <<pc, taken>>
         \/ MainStep
<1> USE DEF loop, app, driver, commission, ncp, bounds, Answered, Failure,
            Happens, NoFailure, Emit, Note, NoRequest, Done
<1>2. CASE StreamStep
  BY <1>2 DEF StreamStep, StreamRuns, StreamLeaves
<1>3. CASE ParserStep
  BY <1>3 DEF ParserStep, StationParser, BleParser, Connected, Take, DelayEnds,
         SetFlag, Awaited, Waiting, LinkUp, Disconnected, Reason, BleConnected,
         BleDisconnected, Raise, PairingAsked, BleWrite, ScanPrints,
         ScanStored
<1>4. CASE Air \/ PhoneStep \/ NcpScanned \/ Press
  BY <1>4 DEF Air, PhoneStep, AirJoins, Radio, AirRefuses, AirGivesUp, AirComplains,
         AirLost, PhoneConnects, Phone, PhoneLeaves, PhonePairs, PhoneWrites,
         NcpScanned, Press
<1>5. CASE UNCHANGED vars
  BY <1>5 DEF vars
<1> QED BY <1>2, <1>3, <1>4, <1>5 DEF Next, Settled

(* A wait for a flag ends in one of its ends. *)
LEMMA WaitSteps ==
  ASSUME [Next]_vars
  PROVE  \/ pc \in {"joinwait", "joinend", "leavewait"} => pc' = pc
         \/ ConnectAnswer \/ ConnectTimeout \/ GiveUp \/ DisconnectTimeout \/ DisconnectEnds
<1> USE DEF loop, app, driver, commission, ncp, bounds, Answered, Failure,
            Happens, NoFailure, Emit, Note, NoRequest, Done
<1>1. CASE MainStep
  BY <1>1 DEF MainStep, CommissionStep, WaitEvents, AfterButton, GetState, Continue,
         GetConnectInfo, NotifyConnected, Notify, StreamStart, AdvStart,
         ProcessWrite, Scan, ScanEnds, DeleteGroup, ForgetGroup, Join,
         ConnectFails, ExpectConnect, StartWait, Leave, Quit, DropPeer,
         ListBonds, Unpair, ConfirmPairing, NotifyTimeout
<1>2. CASE StreamStep
  BY <1>2 DEF StreamStep, StreamRuns, StreamLeaves
<1>3. CASE ParserStep
  BY <1>3 DEF ParserStep, StationParser, BleParser, Connected, Take, DelayEnds,
         SetFlag, Awaited, Waiting, LinkUp, Disconnected, Reason, BleConnected,
         BleDisconnected, Raise, PairingAsked, BleWrite, ScanPrints,
         ScanStored
<1>4. CASE Air \/ PhoneStep \/ NcpScanned \/ Press
  BY <1>4 DEF Air, PhoneStep, AirJoins, Radio, AirRefuses, AirGivesUp, AirComplains,
         AirLost, PhoneConnects, Phone, PhoneLeaves, PhonePairs, PhoneWrites,
         NcpScanned, Press
<1>5. CASE UNCHANGED vars
  BY <1>5 DEF vars
<1> QED BY <1>1, <1>2, <1>3, <1>4, <1>5 DEF Next, Settled

(* The end of a part of the turn. *)
LEMMA DoneMoves ==
  ASSUME TypeOK, NEW part \in Bits, Done(part)
  PROVE  /\ taken' = taken \ {part}
         /\ pc' \in Bits \cup {"wait"}
<1>1. taken' = taken \ {part} /\ pc' = Part(taken')
  BY DEF Done
<1>2. taken' \in SUBSET Bits
  BY <1>1 DEF TypeOK
<1> QED BY <1>1, <1>2, PartType

(* Only ExpectConnect waits for a connection. *)
LEMMA WaitStarts ==
  ASSUME TypeOK, [Next]_vars
  PROVE  pc' = "joinwait" => pc = "joinwait" \/ ExpectConnect
<1> DEFINE Elsewhere == {"joinwait"}
<1>0. /\ \A todo \in SUBSET Bits : Part(todo) \notin Elsewhere
      /\ \A part \in Bits : Done(part) => pc' \notin Elsewhere
      /\ bits \in SUBSET Bits /\ taken \in SUBSET Bits
  BY PartType, DoneMoves, Stages DEF TypeOK
<1> HIDE DEF Done
<1>1. CASE ~MainStep
  BY <1>1, TurnSteps
<1>2. CASE WaitEvents
  BY <1>0, <1>2 DEF WaitEvents, AfterButton
<1>3. CASE DropPeer \/ ListBonds \/ Unpair
  BY <1>0, <1>3 DEF DropPeer, ListBonds, Unpair
<1>4. CASE GetState \/ GetConnectInfo \/ NotifyConnected
  BY <1>4 DEF GetState, GetConnectInfo, NotifyConnected, Continue
<1>5. CASE StreamStart \/ AdvStart \/ ConfirmPairing \/ NotifyTimeout
  BY <1>0, <1>5, Stages DEF StreamStart, AdvStart, ConfirmPairing, NotifyTimeout
<1>6. CASE ProcessWrite \/ Scan \/ ScanEnds \/ DeleteGroup \/ ForgetGroup
  BY <1>0, <1>6, Stages DEF ProcessWrite, Scan, ScanEnds, DeleteGroup, ForgetGroup
<1>7. CASE Join \/ ConnectAnswer \/ ConnectTimeout \/ GiveUp
  BY <1>0, <1>7, Stages DEF Join, ConnectAnswer, ConnectTimeout, GiveUp, ConnectEnds, WriteDone
<1>8. CASE Leave \/ Quit \/ DisconnectTimeout \/ DisconnectEnds
  BY <1>0, <1>8, Stages DEF Leave, Quit, StartWait, DisconnectTimeout, DisconnectEnds, WriteDone
<1> QED BY <1>1, <1>2, <1>3, <1>4, <1>5, <1>6, <1>7, <1>8 DEF MainStep, CommissionStep

(* The bit of a Wi-Fi event is kept until it is handled. *)
LEMMA BitSteps ==
  ASSUME TypeOK, Turn, [Next]_vars
  PROVE  \/ "wifi" \in bits \cup taken => "wifi" \in bits' \cup taken'
         \/ GetState \/ GetConnectInfo \/ StreamStart
<1> USE DEF loop, app, driver, commission, ncp, bounds, Answered, Failure,
            Happens, NoFailure, Emit, Note, NoRequest, Done
<1>1. CASE MainStep
  <2> SUFFICES ASSUME ~(GetState \/ GetConnectInfo \/ StreamStart)
               PROVE  "wifi" \in bits \cup taken => "wifi" \in bits' \cup taken'
    OBVIOUS
  <2>1. CASE WaitEvents
    BY <2>1 DEF WaitEvents, Turn
  <2>2. CASE AdvStart \/ NotifyConnected \/ NotifyTimeout \/ ConfirmPairing
    BY <2>2 DEF AdvStart, NotifyConnected, Notify, NotifyTimeout, ConfirmPairing
  <2>3. CASE ProcessWrite \/ Scan \/ ScanEnds \/ DeleteGroup \/ ForgetGroup
    BY <2>3 DEF ProcessWrite, Scan, ScanEnds, DeleteGroup, ForgetGroup
  <2>4. CASE Join \/ ExpectConnect
    BY <2>4 DEF Join, ConnectFails, ExpectConnect
  <2>5. CASE ConnectAnswer \/ ConnectTimeout \/ GiveUp
    BY <2>5 DEF ConnectAnswer, ConnectTimeout, GiveUp, ConnectEnds, ConnectFails,
         WriteDone
  <2>6. CASE Leave \/ Quit \/ DisconnectTimeout \/ DisconnectEnds
    BY <2>6 DEF Leave, Quit, DisconnectEnds, DisconnectTimeout, WriteDone
  <2>7. CASE DropPeer \/ ListBonds \/ Unpair
    BY <2>7 DEF DropPeer, ListBonds, Unpair
  <2> QED BY <1>1, <2>1, <2>2, <2>3, <2>4, <2>5, <2>6, <2>7
          DEF MainStep, CommissionStep
<1>2. CASE StreamStep
  BY <1>2, Stages DEF StreamStep, StreamRuns, StreamLeaves
<1>3. CASE ParserStep
  BY <1>3, Stages DEF ParserStep, StationParser, BleParser, Connected, Take, DelayEnds,
         SetFlag, Awaited, Waiting, LinkUp, Disconnected, Reason, BleConnected,
         BleDisconnected, Raise, PairingAsked, BleWrite, ScanPrints,
         ScanStored
<1>4. CASE Air \/ PhoneStep \/ NcpScanned \/ Press
  BY <1>4, Stages DEF Air, PhoneStep, AirJoins, Radio, AirRefuses, AirGivesUp, AirComplains,
         AirLost, PhoneConnects, Phone, PhoneLeaves, PhonePairs, PhoneWrites,
         NcpScanned, Press
<1>5. CASE UNCHANGED vars
  BY <1>5 DEF vars
<1> QED BY <1>1, <1>2, <1>3, <1>4, <1>5 DEF Next, Settled

(* The way of a request for a scan. *)
LEMMA ScanPlaces ==
  ASSUME TypeOK, [Next]_vars
  PROVE  \/ pc' = pc \/ (pc \notin {"scan", "scanwait"} /\ pc' \notin {"scan", "scanwait"})
         \/ Scan \/ ScanEnds \/ ProcessWrite
<1> USE DEF loop, app, driver, commission, ncp, bounds, Answered, Failure,
            Happens, NoFailure, Emit, Note, NoRequest, Done
<1>1. CASE MainStep
  <2> DEFINE Elsewhere == {"scan", "scanwait"}
  <2>0. \A todo \in SUBSET Bits : Part(todo) \notin Elsewhere
    BY PartType, Stages
  <2>d. \A part \in Bits : Done(part) => pc' \notin Elsewhere
    BY DoneMoves, Stages
  <2>t. bits \in SUBSET Bits /\ taken \in SUBSET Bits
    BY DEF TypeOK
  <2> HIDE DEF Done
  <2>1. CASE WaitEvents
    BY <2>0, <2>1, <2>t DEF WaitEvents, AfterButton
  <2>2. CASE DropPeer \/ ListBonds \/ Unpair
    BY <2>0, <2>2, <2>t DEF DropPeer, ListBonds, Unpair
  <2>3. CASE GetState \/ GetConnectInfo \/ NotifyConnected
    BY <2>3 DEF GetState, GetConnectInfo, NotifyConnected, Continue
  <2>4. CASE StreamStart \/ AdvStart \/ ConfirmPairing \/ NotifyTimeout
    BY <2>4, <2>d, Stages DEF StreamStart, AdvStart, ConfirmPairing, NotifyTimeout
  <2>5. CASE DeleteGroup \/ ForgetGroup
    BY <2>5, <2>d, Stages DEF DeleteGroup, ForgetGroup
  <2>6. CASE Join \/ ExpectConnect
    BY <2>6, <2>d, Stages DEF Join, ExpectConnect, StartWait
  <2>7. CASE ConnectAnswer \/ ConnectTimeout \/ GiveUp
    BY <2>7, <2>d, Stages DEF ConnectAnswer, ConnectTimeout, GiveUp, ConnectEnds,
         WriteDone
  <2>8. CASE Leave \/ Quit \/ DisconnectTimeout \/ DisconnectEnds
    BY <2>8, <2>d, Stages DEF Leave, Quit, StartWait, DisconnectEnds,
         DisconnectTimeout, WriteDone
  <2> QED BY <1>1, <2>1, <2>2, <2>3, <2>4, <2>5, <2>6, <2>7, <2>8
          DEF MainStep, CommissionStep
<1>2. CASE StreamStep
  BY <1>2, Stages, PartType DEF StreamStep, StreamRuns, StreamLeaves
<1>3. CASE ParserStep
  BY <1>3, Stages, PartType DEF ParserStep, StationParser, BleParser, Connected, Take, DelayEnds,
         SetFlag, Awaited, Waiting, LinkUp, Disconnected, Reason, BleConnected,
         BleDisconnected, Raise, PairingAsked, BleWrite, ScanPrints,
         ScanStored
<1>4. CASE Air \/ PhoneStep \/ NcpScanned \/ Press
  BY <1>4, Stages, PartType DEF Air, PhoneStep, AirJoins, Radio, AirRefuses, AirGivesUp, AirComplains,
         AirLost, PhoneConnects, Phone, PhoneLeaves, PhonePairs, PhoneWrites,
         NcpScanned, Press
<1>5. CASE UNCHANGED vars
  BY <1>5 DEF vars
<1> QED BY <1>1, <1>2, <1>3, <1>4, <1>5 DEF Next, Settled

(***************************************************************************)
(* Type correctness.                                                       *)
(***************************************************************************)

LEMMA InitType == Init => TypeOK
<1> SUFFICES ASSUME Init PROVE TypeOK
  OBVIOUS
<1>1. inbox \in Seq(Events)
  BY EmptySeq DEF Init
<1>2. events \in 0..MaxEvents /\ faults \in 0..MaxFaults
  BY Stages DEF Init
<1>3. hist \in Histories
  BY DEF Init, Histories
<1>4. pc = "wait" /\ bits \subseteq Bits /\ taken \subseteq Bits
  BY DEF Init
<1>5. listed \in 0..1 /\ bonds \in 0..1 /\ scans \in Nat
  BY DEF Init
<1>6. expect = {} /\ flags = {} /\ granted = {}
  BY DEF Init
<1>7. /\ pending \in BOOLEAN /\ ssid \in BOOLEAN /\ peer \in BOOLEAN /\ scanDone \in BOOLEAN
      /\ staApp = "off" /\ sta = "off" /\ stream = "none" /\ parser = "idle"
      /\ written = "ssid" /\ group = "none" /\ air = "off" /\ link = "advertising"
  BY DEF Init
<1> QED BY <1>1, <1>2, <1>3, <1>4, <1>5, <1>6, <1>7 DEF TypeOK, WriteOps, Histories

(* The inbox is a queue. *)
LEMMA InboxMoves ==
  ASSUME TypeOK, [Next]_vars
  PROVE  inbox' = inbox \/ (\E e \in Events : Emit(e) \/ Take(e))
<1> USE DEF TypeOK, Events, WriteOps, loop, app, driver, commission, ncp,
            bounds, Answered, Failure, Happens, NoFailure, Emit, Note, NoRequest, Done
<1>1. CASE MainStep
  BY <1>1 DEF MainStep, CommissionStep, WaitEvents, AfterButton, GetState, Continue,
         GetConnectInfo, NotifyConnected, Notify, StreamStart, AdvStart,
         ProcessWrite, Scan, ScanEnds, DeleteGroup, ForgetGroup, Join, ConnectFails,
         ExpectConnect, StartWait, ConnectAnswer, ConnectEnds, WriteDone,
         ConnectTimeout, GiveUp, Leave, Quit, DisconnectEnds, DisconnectTimeout,
         DropPeer, ListBonds, Unpair, ConfirmPairing, NotifyTimeout
<1>2. CASE StreamStep
  BY <1>2 DEF StreamStep, StreamRuns, StreamLeaves
<1>3. CASE ParserStep
  BY <1>3 DEF ParserStep, StationParser, BleParser, Connected, Take, DelayEnds,
         SetFlag, Awaited, Waiting, LinkUp, Disconnected, Reason, BleConnected,
         BleDisconnected, Raise, PairingAsked, BleWrite, ScanPrints,
         ScanStored
<1>4. CASE Air \/ PhoneStep \/ NcpScanned \/ Press
  BY <1>4 DEF Air, PhoneStep, AirJoins, Radio, AirRefuses, AirGivesUp, AirComplains,
         AirLost, PhoneConnects, Phone, PhoneLeaves, PhonePairs, PhoneWrites,
         NcpScanned, Press
<1>5. CASE UNCHANGED vars
  BY <1>5 DEF vars
<1> QED BY <1>1, <1>2, <1>3, <1>4, <1>5 DEF Next, Settled

LEMMA InboxType == TypeOK /\ [Next]_vars => inbox' \in Seq(Events)
<1> SUFFICES ASSUME TypeOK, [Next]_vars PROVE inbox' \in Seq(Events)
  OBVIOUS
<1>1. CASE inbox' = inbox
  BY <1>1 DEF TypeOK
<1>2. ASSUME NEW e \in Events, Emit(e) PROVE inbox' \in Seq(Events)
  BY <1>2, AppendProperties DEF TypeOK, Emit
<1>3. ASSUME NEW e \in Events, Take(e) PROVE inbox' \in Seq(Events)
  BY <1>3, HeadTailProperties DEF TypeOK, Take
<1> QED BY <1>1, <1>2, <1>3, InboxMoves

(* The bounds, and the number of failures, which only grows. *)
LEMMA BoundsType ==
  ASSUME TypeOK, [Next]_vars
  PROVE  /\ events' \in 0..MaxEvents /\ faults' \in 0..MaxFaults
         /\ faults' = 0 => faults = 0
<1> USE DEF TypeOK, loop, app, driver, commission, ncp, bounds, Answered,
            Failure, Happens, NoFailure, Emit, Note, NoRequest, Done
<1>1. CASE MainStep
  BY <1>1, Stages DEF MainStep, CommissionStep, WaitEvents, AfterButton, GetState,
         Continue, GetConnectInfo, NotifyConnected, Notify, StreamStart, AdvStart,
         ProcessWrite, Scan, ScanEnds, DeleteGroup, ForgetGroup, Join, ConnectFails,
         ExpectConnect, StartWait, ConnectAnswer, ConnectEnds, WriteDone,
         ConnectTimeout, GiveUp, Leave, Quit, DisconnectEnds, DisconnectTimeout,
         DropPeer, ListBonds, Unpair, ConfirmPairing, NotifyTimeout
<1>2. CASE StreamStep
  BY <1>2, Stages DEF StreamStep, StreamRuns, StreamLeaves
<1>3. CASE ParserStep
  BY <1>3, Stages DEF ParserStep, StationParser, BleParser, Connected, Take, DelayEnds,
         SetFlag, Awaited, Waiting, LinkUp, Disconnected, Reason, BleConnected,
         BleDisconnected, Raise, PairingAsked, BleWrite, ScanPrints,
         ScanStored
<1>4. CASE Air \/ PhoneStep \/ NcpScanned \/ Press
  BY <1>4, Stages DEF Air, PhoneStep, AirJoins, Radio, AirRefuses, AirGivesUp, AirComplains,
         AirLost, PhoneConnects, Phone, PhoneLeaves, PhonePairs, PhoneWrites,
         NcpScanned, Press
<1>5. CASE UNCHANGED vars
  BY <1>5 DEF vars
<1> QED BY <1>1, <1>2, <1>3, <1>4, <1>5 DEF Next, Settled

Flagged == \E f \in Flags, v \in BOOLEAN : Note(f, v)
Skipped == \E v \in SUBSET Bits : Note("skipped", v)

LEMMA NoteType ==
  ASSUME hist \in Histories, Flagged \/ Skipped \/ NoRequest \/ hist' = hist
  PROVE  hist' \in Histories
BY DEF Flagged, Skipped, NoRequest, Flags, Note, Histories

(* The history. *)
LEMMA HistoryMoves ==
  ASSUME TypeOK, [Next]_vars
  PROVE  Flagged \/ Skipped \/ NoRequest \/ hist' = hist \/ Connected
<1> USE DEF TypeOK, Histories, Continue, Flags, Flagged, Skipped, loop, app,
            driver, commission, ncp, bounds, Answered, Failure, Happens,
            NoFailure, Emit, Done
<1>1. CASE MainStep
  BY <1>1 DEF MainStep, CommissionStep, WaitEvents, AfterButton, GetState, Continue,
         GetConnectInfo, NotifyConnected, Notify, StreamStart, AdvStart,
         ProcessWrite, Scan, ScanEnds, DeleteGroup, ForgetGroup, Join, ConnectFails,
         ExpectConnect, StartWait, ConnectAnswer, ConnectEnds, WriteDone,
         ConnectTimeout, GiveUp, Leave, Quit, DisconnectEnds, DisconnectTimeout,
         DropPeer, ListBonds, Unpair, ConfirmPairing, NotifyTimeout
<1>2. CASE StreamStep
  BY <1>2 DEF StreamStep, StreamRuns, StreamLeaves
<1>3. CASE ParserStep
  BY <1>3 DEF ParserStep, StationParser, BleParser, Take, DelayEnds,
         SetFlag, Awaited, Waiting, LinkUp, Disconnected, Reason, BleConnected,
         BleDisconnected, Raise, PairingAsked, BleWrite, ScanPrints,
         ScanStored
<1>4. CASE Air \/ PhoneStep \/ NcpScanned \/ Press
  BY <1>4 DEF Air, PhoneStep, AirJoins, Radio, AirRefuses, AirGivesUp, AirComplains,
         AirLost, PhoneConnects, Phone, PhoneLeaves, PhonePairs, PhoneWrites,
         NcpScanned, Press
<1>5. CASE UNCHANGED vars
  BY <1>5 DEF vars
<1> QED BY <1>1, <1>2, <1>3, <1>4, <1>5 DEF Next, Settled

LEMMA HistoryType == TypeOK /\ [Next]_vars => hist' \in Histories
<1> SUFFICES ASSUME TypeOK, [Next]_vars PROVE hist' \in Histories
  OBVIOUS
<1>1. hist \in Histories
  BY DEF TypeOK, Histories
<1>2. CASE Connected
  BY <1>1, <1>2 DEF Connected, Histories
<1> QED BY <1>1, <1>2, HistoryMoves, NoteType

(* Where the application task is. *)
LEMMA TurnType ==
  ASSUME TypeOK, [Next]_vars
  PROVE  /\ bits' \subseteq Bits /\ taken' \subseteq Bits
         /\ pc' \in Bits \cup {"wait", "button", "drop", "list", "unpair", "scan", "scanwait",
                          "delete", "forget", "join", "expect", "joinwait", "joinend", "leave",
                          "cwqap", "leavewait", "leaveend", "info", "tell", "start"}
<1> USE DEF TypeOK, loop, app, driver, commission, ncp, bounds, Answered,
            Failure, Happens, NoFailure, Emit, Note, NoRequest, Done
<1>1. CASE MainStep
  BY <1>1, Stages, PartType DEF MainStep, CommissionStep, WaitEvents, AfterButton,
         GetState, Continue, GetConnectInfo, NotifyConnected, Notify, StreamStart,
         AdvStart, ProcessWrite, Scan, ScanEnds, DeleteGroup, ForgetGroup, Join,
         ConnectFails, ExpectConnect, StartWait, ConnectAnswer, ConnectEnds,
         WriteDone, ConnectTimeout, GiveUp, Leave, Quit, DisconnectEnds,
         DisconnectTimeout, DropPeer, ListBonds, Unpair, ConfirmPairing,
         NotifyTimeout
<1>2. CASE StreamStep
  BY <1>2, Stages, PartType DEF StreamStep, StreamRuns, StreamLeaves
<1>3. CASE ParserStep
  BY <1>3, Stages, PartType DEF ParserStep, StationParser, BleParser, Connected, Take, DelayEnds,
         SetFlag, Awaited, Waiting, LinkUp, Disconnected, Reason, BleConnected,
         BleDisconnected, Raise, PairingAsked, BleWrite, ScanPrints,
         ScanStored
<1>4. CASE Air \/ PhoneStep \/ NcpScanned \/ Press
  BY <1>4, Stages, PartType DEF Air, PhoneStep, AirJoins, Radio, AirRefuses, AirGivesUp, AirComplains,
         AirLost, PhoneConnects, Phone, PhoneLeaves, PhonePairs, PhoneWrites,
         NcpScanned, Press
<1>5. CASE UNCHANGED vars
  BY <1>5 DEF vars
<1> QED BY <1>1, <1>2, <1>3, <1>4, <1>5 DEF Next, Settled

LEMMA ZeroOne == 0..1 = {0, 1}
OBVIOUS

(* The phone, the bonded devices and the button. *)
LEMMA PhoneType ==
  ASSUME TypeOK, [Next]_vars
  PROVE  /\ pending' \in BOOLEAN /\ ssid' \in BOOLEAN /\ peer' \in BOOLEAN
         /\ listed' \in {0, 1} /\ bonds' \in {0, 1}
         /\ written' \in WriteOps /\ link' \in {"advertising", "up", "silent"}
<1> USE DEF TypeOK, loop, app, driver, commission, ncp, bounds, Answered,
            Failure, Happens, NoFailure, Emit, Note, NoRequest, Done
<1>1. CASE MainStep
  BY <1>1, ZeroOne DEF MainStep, CommissionStep, WaitEvents, AfterButton, GetState,
         Continue, GetConnectInfo, NotifyConnected, Notify, StreamStart, AdvStart,
         ProcessWrite, Scan, ScanEnds, DeleteGroup, ForgetGroup, Join, ConnectFails,
         ExpectConnect, StartWait, ConnectAnswer, ConnectEnds, WriteDone,
         ConnectTimeout, GiveUp, Leave, Quit, DisconnectEnds, DisconnectTimeout,
         DropPeer, ListBonds, Unpair, ConfirmPairing, NotifyTimeout
<1>2. CASE StreamStep
  BY <1>2, ZeroOne DEF StreamStep, StreamRuns, StreamLeaves
<1>3. CASE ParserStep
  BY <1>3, ZeroOne DEF ParserStep, StationParser, BleParser, Connected, Take, DelayEnds,
         SetFlag, Awaited, Waiting, LinkUp, Disconnected, Reason, BleConnected,
         BleDisconnected, Raise, PairingAsked, BleWrite, ScanPrints,
         ScanStored
<1>4. CASE Air \/ PhoneStep \/ NcpScanned \/ Press
  BY <1>4, ZeroOne DEF Air, PhoneStep, AirJoins, Radio, AirRefuses, AirGivesUp, AirComplains,
         AirLost, PhoneConnects, Phone, PhoneLeaves, PhonePairs, PhoneWrites,
         NcpScanned, Press
<1>5. CASE UNCHANGED vars
  BY <1>5 DEF vars
<1> QED BY <1>1, <1>2, <1>3, <1>4, <1>5 DEF Next, Settled

(* The scans. *)
LEMMA ScanType ==
  ASSUME TypeOK, [Next]_vars
  PROVE  scans' \in Nat /\ scanDone' \in BOOLEAN /\ group' \in {"none", "live", "freed"}
<1> USE DEF TypeOK
<1>1. CASE Scan
  <2>1. scans' \in {scans, scans + 1} /\ UNCHANGED <<scanDone, group>>
    BY <1>1 DEF Scan, commission
  <2>2. scans \in Nat /\ scans + 1 \in Nat
    OBVIOUS
  <2> QED BY <2>1, <2>2
<1>2. CASE NcpScanned
  BY <1>2 DEF NcpScanned, commission
<1>3. CASE ProcessWrite \/ DeleteGroup \/ ForgetGroup \/ ScanStored
  BY <1>3 DEF ProcessWrite, DeleteGroup, ForgetGroup, ScanStored, ncp
<1> QED BY <1>1, <1>2, <1>3, ScanSteps

(* The station, in the driver, in the NCP and in the application. *)
LEMMA StationType ==
  ASSUME TypeOK, [Next]_vars
  PROVE  /\ sta' \in {"on", "off"} /\ air' \in {"off", "joining", "on"}
         /\ staApp' \in {"on", "off"} /\ stream' \in {"none", "created", "running", "leaving"}
         /\ parser' \in {"idle", "delay", "linkup", "scan"}
<1> USE DEF TypeOK
<1>1. sta' \in {"on", "off"}
  BY StationSteps DEF ConnectAnswer, ConnectTimeout, GiveUp, ConnectEnds, Connected,
         Disconnected
<1>2. air' \in {"off", "joining", "on"}
  BY AirSteps DEF Join, Quit, AirJoins, AirRefuses, AirGivesUp, AirComplains, AirLost, Radio
<1>3. staApp' \in {"on", "off"} /\ stream' \in {"none", "created", "running", "leaving"}
  BY StreamTaskSteps DEF GetState, StreamStart, StreamRuns, StreamLeaves
<1>4. parser' \in {"idle", "delay", "linkup", "scan"}
  BY ParserSteps DEF Connected, DelayEnds, LinkUp, ScanPrints, ScanStored
<1> QED BY <1>1, <1>2, <1>3, <1>4

(* The flags. *)
LEMMA FlagType ==
  ASSUME TypeOK, [Next]_vars
  PROVE  /\ expect' \subseteq {"CONNECT", "DISCONNECT"}
         /\ flags' \subseteq {"CONNECT", "DISCONNECT", "REASON"}
         /\ granted' \subseteq {"CONNECT", "DISCONNECT", "REASON"}
<1> USE DEF TypeOK
<1>1. CASE ExpectConnect \/ ConnectAnswer \/ GiveUp \/ Leave \/ Quit \/ DisconnectEnds
  BY <1>1 DEF ExpectConnect, ConnectAnswer, ConnectTimeout, GiveUp, ConnectEnds,
         Leave, Quit, DisconnectEnds, DisconnectTimeout, StartWait, WriteDone
<1>2. CASE DelayEnds \/ Disconnected \/ Reason
  BY <1>2 DEF DelayEnds, Disconnected, Reason, SetFlag
<1> QED BY <1>1, <1>2, FlagSteps

LEMMA NextType == TypeOK /\ [Next]_vars => TypeOK'
<1> SUFFICES ASSUME TypeOK, [Next]_vars PROVE TypeOK'
  OBVIOUS
<1>1. hist' \in [asked : BOOLEAN, lost : BOOLEAN, skipped : SUBSET Bits, silent : BOOLEAN,
                 joined : BOOLEAN, late : BOOLEAN, erased : BOOLEAN, scanFailed : BOOLEAN,
              corrupt : BOOLEAN]
  BY HistoryType DEF Histories
<1> QED BY <1>1, TurnType, BoundsType, InboxType, StationType, FlagType, ScanType, PhoneType,
           ZeroOne DEF TypeOK

(***************************************************************************)
(* The turn of the loop, and the flags of a connection.                    *)
(***************************************************************************)

LEMMA PartTurn ==
  ASSUME TypeOK, \E part : Done(part) PROVE Turn'
<1>1. taken' \in SUBSET Bits /\ pc' = Part(taken')
  BY DEF Done, TypeOK
<1>2. taken' = {} => pc' = "wait"
  BY <1>1, PartIn
<1>3. taken' # {} => pc' \in taken'
  BY <1>1, PartIn
<1> QED BY <1>1, <1>2, <1>3, Stages DEF Turn, ServesWifi

LEMMA TurnStep == TypeOK /\ Turn /\ [Next]_vars => Turn'
<1> SUFFICES ASSUME TypeOK, Turn, [Next]_vars PROVE Turn'
  OBVIOUS
<1>1. CASE MainStep
  <2>1. CASE WaitEvents
    <3>1. taken' = bits /\ pc' \in {Part(bits), "drop", "list"} /\ bits \in SUBSET Bits
      BY <2>1 DEF WaitEvents, AfterButton, TypeOK
    <3>2. /\ taken' = {} => pc' \in {"wait", "drop", "list"}
          /\ taken' # {} => pc' \in taken' \cup {"drop", "list"}
      BY <3>1, PartIn
    <3> QED BY <3>1, <3>2, Stages DEF Turn, ServesWifi, TypeOK
  <2>2. CASE DropPeer \/ ListBonds
    <3>1. taken' = taken /\ pc' \in {Part(taken), "unpair"} /\ taken \in SUBSET Bits
      BY <2>2 DEF DropPeer, ListBonds, TypeOK
    <3>2. /\ taken' = {} => pc' \in {"wait", "unpair"}
          /\ taken' # {} => pc' \in taken' \cup {"unpair"}
      BY <3>1, PartIn
    <3> QED BY <3>1, <3>2, Stages DEF Turn, ServesWifi, TypeOK
  <2>3. CASE GetState
    BY <2>3, Stages DEF GetState, Continue, Turn, ServesWifi, TypeOK
  <2>4. CASE GetConnectInfo \/ NotifyConnected
    BY <2>4, Stages DEF GetConnectInfo, NotifyConnected, Continue, app, Turn, ServesWifi, TypeOK
  <2>5. CASE \E part : Done(part)
    BY <2>5, PartTurn
  <2>6. CASE pc' \in {"scan", "scanwait", "delete", "forget", "join", "leave", "expect",
                      "joinwait", "joinend", "cwqap", "leavewait", "leaveend", "list"}
    BY <2>6, Stages DEF Turn, ServesWifi
  <2>7. StreamStart \/ AdvStart \/ ForgetGroup \/ ConnectAnswer \/ GiveUp
        \/ DisconnectEnds \/ ConfirmPairing \/ NotifyTimeout => \E part : Done(part)
    BY DEF StreamStart, AdvStart, ForgetGroup, ConnectAnswer, ConnectTimeout,
         GiveUp, ConnectEnds, WriteDone, DisconnectEnds, DisconnectTimeout,
         ConfirmPairing, NotifyTimeout
  <2>8. ProcessWrite \/ Scan \/ ScanEnds \/ DeleteGroup \/ Join \/ ExpectConnect
        \/ ConnectTimeout \/ Leave \/ Quit \/ DisconnectTimeout \/ Unpair =>
          \/ \E part : Done(part)
          \/ pc' \in {"scan", "scanwait", "delete", "forget", "join", "leave", "expect",
                      "joinwait", "joinend", "cwqap", "leavewait", "leaveend", "list"}
    BY DEF ProcessWrite, Scan, ScanEnds, DeleteGroup, Join, ExpectConnect, ConnectTimeout, Leave,
           Quit, DisconnectTimeout, Unpair, StartWait
  <2> QED BY <1>1, <2>1, <2>2, <2>3, <2>4, <2>5, <2>6, <2>7, <2>8 DEF MainStep, CommissionStep
<1>2. CASE ~MainStep
  <2>1. UNCHANGED <<pc, taken>>
    BY <1>2, TurnSteps
  <2>2. staApp' = staApp \/ GetState
    BY StreamTaskSteps DEF StreamStart, StreamRuns, StreamLeaves
  <2>3. ~GetState
    BY <2>1 DEF GetState, Continue
  <2> QED BY <2>1, <2>2, <2>3 DEF Turn
<1> QED BY <1>1, <1>2

LEMMA ExpectedStep == TypeOK /\ Expected /\ [Next]_vars => Expected'
<1> SUFFICES ASSUME TypeOK, Expected, [Next]_vars PROVE Expected'
  OBVIOUS
<1> USE DEF TypeOK, Expected
<1>0. hist \in Histories
  BY DEF Histories
<1>d. Done("write") => pc' \notin {"joinwait", "joinend", "leavewait"}
  BY DoneMoves, Stages
<1>1. CASE Join
  <2>1. parser = "idle" /\ granted = {} /\ UNCHANGED <<expect, flags, granted, parser>>
    BY <1>1 DEF Join, Answered, driver
  <2>2. "CONNECT" \notin expect
    BY <1>1 DEF Join
  <2>3. hist'.late = hist.late
    BY <1>0, <1>1 DEF Join, Note, Histories
  <2>4. pc' # "joinwait"
    BY <1>1, <1>d DEF Join
  <2> QED BY <2>1, <2>2, <2>3, <2>4
<1>2. CASE ExpectConnect
  BY <1>2 DEF ExpectConnect, StartWait
<1>3. CASE ConnectAnswer
  <2>1. granted' = {} /\ "CONNECT" \notin expect' /\ UNCHANGED <<flags, parser>>
    BY <1>3 DEF ConnectAnswer, ConnectEnds, WriteDone
  <2>2. "CONNECT" \notin flags /\ hist'.joined = hist.joined
    BY <1>0, <1>3 DEF ConnectAnswer, ConnectEnds, Note, Histories
  <2>3. ~hist'.late
    <3>1. CASE "CONNECT" \in granted
      BY <1>0, <1>3, <3>1 DEF ConnectAnswer, ConnectEnds, Note, Histories
    <3>2. CASE "CONNECT" \notin granted
      <4>1. ~hist.late
        BY <2>2, <3>2
      <4> QED BY <1>0, <1>3, <3>2, <4>1 DEF ConnectAnswer, ConnectEnds, Note, Histories
    <3> QED BY <3>1, <3>2
  <2> QED BY <2>1, <2>2, <2>3
<1>4. CASE GiveUp
  <2>1. granted = {} /\ granted' = {} /\ "CONNECT" \notin expect' /\ UNCHANGED <<flags, parser>>
    BY <1>4 DEF GiveUp, ConnectEnds, WriteDone
  <2>2. hist'.joined = hist.joined /\ hist'.late = hist.late
    BY <1>0, <1>4 DEF GiveUp, ConnectEnds, Note, Histories
  <2>3. pc' # "joinwait"
    BY <1>4, <1>d DEF GiveUp, ConnectEnds, WriteDone
  <2> QED BY <2>1, <2>2, <2>3
<1>5. CASE ConnectTimeout
  BY <1>5 DEF ConnectTimeout, driver
<1>6. CASE Leave \/ Quit \/ DisconnectTimeout \/ DisconnectEnds
  <2>1. pc \notin {"joinwait", "joinend"} /\ UNCHANGED <<hist, parser>>
    BY <1>6 DEF Leave, Quit, DisconnectEnds, DisconnectTimeout
  <2>2. /\ "CONNECT" \notin expect' /\ "CONNECT" \notin granted
        /\ "CONNECT" \in flags' <=> "CONNECT" \in flags
    BY <1>6, <2>1 DEF Leave, Quit, DisconnectEnds, DisconnectTimeout, StartWait, driver
  <2>3. /\ "CONNECT" \notin granted' /\ pc' # "joinwait"
        /\ granted' # {} => pc' = "leavewait"
    BY <1>6, <1>d, <2>1, <2>2
       DEF Leave, Quit, DisconnectEnds, DisconnectTimeout, StartWait, WriteDone, driver
  <2> QED BY <2>1, <2>2, <2>3
<1>7. CASE Connected
  <2>1. hist'.joined /\ hist'.late = hist.late
    BY <1>0, <1>7 DEF Connected, Histories
  <2>2. UNCHANGED <<pc, expect, flags, granted>>
    BY <1>7 DEF Connected, loop
  <2> QED BY <2>1, <2>2
<1>8. CASE DelayEnds
  <2>1. UNCHANGED <<pc, expect>> /\ parser' = "linkup" /\ hist.joined
    BY <1>8 DEF DelayEnds, loop
  <2>2. CASE "CONNECT" \in expect /\ pc = "joinwait"
    <3>1. granted = {}
      BY <1>8, <2>2 DEF DelayEnds, Waiting, Awaited
    <3>2. granted' = {"CONNECT"} /\ flags' = flags
      BY <1>8, <2>2, <3>1 DEF DelayEnds, SetFlag, Awaited
    <3>3. hist'.joined = hist.joined /\ hist'.late = hist.late
      BY <1>0, <1>8, <2>2 DEF DelayEnds, Note, Histories
    <3> QED BY <2>1, <2>2, <3>1, <3>2, <3>3
  <2>3. CASE "CONNECT" \in expect /\ pc = "joinend"
    <3>1. granted' = granted /\ flags' = flags \cup {"CONNECT"}
      BY <1>8, <2>3 DEF DelayEnds, SetFlag, Awaited
    <3>2. hist'.joined = hist.joined /\ hist'.late
      BY <1>0, <1>8, <2>3 DEF DelayEnds, Note, Histories
    <3> QED BY <2>1, <2>3, <3>1, <3>2
  <2>4. CASE "CONNECT" \notin expect
    BY <1>8, <2>1, <2>4 DEF DelayEnds
  <2> QED BY <2>2, <2>3, <2>4
<1>9. CASE Disconnected \/ Reason
  <2>1. UNCHANGED <<pc, parser>> /\ hist'.joined = hist.joined /\ hist'.late = hist.late
    BY <1>0, <1>9 DEF Disconnected, Reason, loop, Note, Histories
  <2>2. expect' \subseteq expect
    BY <1>9 DEF Disconnected, Reason
  <2>3. UNCHANGED <<flags, granted>> \/ SetFlag("DISCONNECT") \/ SetFlag("REASON")
    BY <1>9 DEF Disconnected, Reason
  <2>4. CASE UNCHANGED <<flags, granted>>
    BY <2>1, <2>2, <2>4
  <2>5. CASE SetFlag("DISCONNECT") \/ SetFlag("REASON")
    <3>1. "CONNECT" \in flags' <=> "CONNECT" \in flags
      BY <2>5 DEF SetFlag
    <3>2. \/ granted' = granted
          \/ granted = {} /\ "CONNECT" \notin granted' /\ pc \in {"joinwait", "leavewait"}
      BY <2>5 DEF SetFlag, Awaited
    <3> QED BY <2>1, <2>2, <3>1, <3>2
  <2> QED BY <2>3, <2>4, <2>5
<1>10. CASE UNCHANGED <<expect, flags, granted>> /\ ~Join /\ ~Connected /\ ~ConnectAnswer
           /\ ~ConnectTimeout /\ ~GiveUp /\ ~Disconnected /\ ~DelayEnds
           /\ ~DisconnectTimeout /\ ~DisconnectEnds /\ ~ExpectConnect
  <2>1. UNCHANGED <<hist.joined, hist.late>>
    BY <1>0, <1>10, JoinHistory
  <2>2. parser' = "delay" => parser = "delay"
    BY <1>10, ParserSteps DEF LinkUp, ScanPrints, ScanStored
  <2>3. pc \in {"joinwait", "joinend", "leavewait"} => pc' = pc
    BY <1>10, WaitSteps
  <2>4. pc' = "joinwait" => pc = "joinwait"
    BY <1>10, WaitStarts
  <2> QED BY <1>10, <2>1, <2>2, <2>3, <2>4
<1> QED BY <1>1, <1>2, <1>3, <1>4, <1>5, <1>6, <1>7, <1>8, <1>9, <1>10, FlagSteps

(***************************************************************************)
(* The last word about the connection.                                     *)
(***************************************************************************)

LEMMA Taken ==
  ASSUME TypeOK, NEW e, Take(e)
  PROVE  /\ Len(inbox) \in Nat \ {0} /\ Len(inbox') = Len(inbox) - 1 /\ inbox[1] = e
         /\ \A i \in 1..Len(inbox') : i + 1 \in 1..Len(inbox) /\ inbox'[i] = inbox[i + 1]
<1>1. Len(inbox) \in Nat \ {0} /\ inbox[1] = e
  BY EmptySeq, LenProperties DEF TypeOK, Take
<1>2. inbox' = Tail(inbox) /\ Len(inbox') = Len(inbox) - 1
  BY HeadTailProperties DEF TypeOK, Take
<1>3. ASSUME NEW i \in 1..Len(inbox')
      PROVE  i + 1 \in 1..Len(inbox) /\ inbox'[i] = inbox[i + 1]
  <2>1. i + 1 \in 1..Len(inbox)
    BY <1>1, <1>2
  <2>2. i \in 1..Len(Tail(inbox))
    BY <1>2
  <2>3. Tail(inbox)[i] = inbox[i + 1]
    BY <1>1, <2>2, HeadTailProperties, EmptySeq DEF TypeOK, Take
  <2> QED BY <1>2, <2>1, <2>3
<1> QED BY <1>1, <1>2, <1>3

LEMMA Emitted ==
  ASSUME TypeOK, NEW e \in Events, Emit(e)
  PROVE  /\ Len(inbox) \in Nat /\ Len(inbox') = Len(inbox) + 1
         /\ inbox'[Len(inbox) + 1] = e
         /\ \A i \in 1..Len(inbox) : i \in 1..Len(inbox') /\ inbox'[i] = inbox[i]
<1>1. Len(inbox) \in Nat
  BY LenProperties DEF TypeOK
<1>2. /\ inbox' = Append(inbox, e) /\ Len(inbox') = Len(inbox) + 1
      /\ inbox'[Len(inbox) + 1] = e
      /\ \A i \in 1..Len(inbox) : inbox'[i] = inbox[i]
  BY AppendProperties DEF TypeOK, Emit
<1>3. \A i \in 1..Len(inbox) : i \in 1..(Len(inbox) + 1)
  BY <1>1
<1> QED BY <1>1, <1>2, <1>3

(* An event about something else. *)
LEMMA EmitOther ==
  ASSUME TypeOK, LastWord, NEW e \in Events \ Word, Emit(e),
         UNCHANGED <<sta, hist.erased>>, air' = "on" <=> air = "on"
  PROVE  LastWord'
<1>1. /\ Len(inbox) \in Nat /\ Len(inbox') = Len(inbox) + 1
      /\ inbox'[Len(inbox) + 1] = e
      /\ \A i \in 1..Len(inbox) : i \in 1..Len(inbox') /\ inbox'[i] = inbox[i]
  BY Emitted
<1>2. ASSUME NEW i \in 0..Len(inbox), Silent(i)' PROVE Silent(i)
  BY <1>1, <1>2 DEF Silent
<1>3. ASSUME NEW i \in 1..Len(inbox'), inbox'[i] \in Word, Silent(i)'
      PROVE  inbox'[i] = "connected" <=> air' = "on"
  <2>1. i \in 1..Len(inbox)
    BY <1>1, <1>3
  <2>2. inbox[i] \in Word /\ Silent(i) /\ inbox'[i] = inbox[i]
    BY <1>1, <1>2, <1>3, <2>1
  <2> QED BY <2>1, <2>2 DEF LastWord
<1>4. Silent(0)' => (sta' = "on" <=> air' = "on" /\ ~hist.erased')
  BY <1>1, <1>2 DEF LastWord
<1> QED BY <1>3, <1>4 DEF LastWord

LEMMA EmitWord ==
  ASSUME TypeOK, NEW e \in Word, Emit(e), e = "connected" <=> air' = "on"
  PROVE  LastWord'
<1>1. /\ Len(inbox) \in Nat /\ Len(inbox') = Len(inbox) + 1
      /\ inbox'[Len(inbox) + 1] = e
  BY Emitted DEF Word, Events
<1>2. ASSUME NEW i \in 0..Len(inbox) PROVE ~Silent(i)'
  <2>1. Len(inbox) + 1 \in 1..Len(inbox') /\ Len(inbox) + 1 > i
    BY <1>1
  <2> QED BY <1>1, <2>1 DEF Silent
<1>3. ASSUME NEW i \in 1..Len(inbox'), inbox'[i] \in Word, Silent(i)'
      PROVE  inbox'[i] = "connected" <=> air' = "on"
  <2>1. i = Len(inbox) + 1
    BY <1>1, <1>2, <1>3
  <2> QED BY <1>1, <2>1
<1> QED BY <1>1, <1>2, <1>3 DEF LastWord

(* The parser task hears an event; of the connection it takes the word.    *)
LEMMA TakeAny ==
  ASSUME TypeOK, LastWord, NEW e, Take(e), air' = air,
         IF e \in Word THEN (sta' = "on" <=> e = "connected") /\ ~hist.erased'
                       ELSE UNCHANGED <<sta, hist.erased>>
  PROVE  LastWord'
<1>1. /\ Len(inbox) \in Nat \ {0} /\ Len(inbox') = Len(inbox) - 1 /\ inbox[1] = e
      /\ \A i \in 1..Len(inbox') : i + 1 \in 1..Len(inbox) /\ inbox'[i] = inbox[i + 1]
  BY Taken
<1>2. ASSUME NEW i \in 0..Len(inbox'), Silent(i)' PROVE Silent(i + 1)
  <2> SUFFICES ASSUME NEW j \in 1..Len(inbox), j > i + 1 PROVE inbox[j] \notin Word
    BY DEF Silent
  <2>1. j - 1 \in 1..Len(inbox') /\ j - 1 > i
    BY <1>1
  <2>2. (j - 1) + 1 = j
    OBVIOUS
  <2>3. inbox'[j - 1] = inbox[j]
    BY <1>1, <2>1, <2>2
  <2> QED BY <1>2, <2>1, <2>3 DEF Silent
<1>3. ASSUME NEW i \in 1..Len(inbox'), inbox'[i] \in Word, Silent(i)'
      PROVE  inbox'[i] = "connected" <=> air' = "on"
  <2>1. i + 1 \in 1..Len(inbox) /\ inbox'[i] = inbox[i + 1] /\ Silent(i + 1)
    BY <1>1, <1>2, <1>3
  <2> QED BY <1>3, <2>1 DEF LastWord
<1>4. ASSUME Silent(0)' PROVE sta' = "on" <=> air' = "on" /\ ~hist.erased'
  <2>0. Len(inbox') \in Nat /\ 0 \in 0..Len(inbox') /\ 0 + 1 = 1
    BY <1>1
  <2>1. Silent(1)
    BY <1>2, <1>4, <2>0
  <2>2. CASE e \in Word
    <3>1. e = "connected" <=> air = "on"
      BY <1>1, <2>1, <2>2 DEF LastWord
    <3> QED BY <2>2, <3>1
  <2>3. CASE e \notin Word
    <3>1. Silent(0)
      <4> SUFFICES ASSUME NEW j \in 1..Len(inbox) PROVE inbox[j] \notin Word
        BY DEF Silent
      <4>1. CASE j = 1
        BY <1>1, <2>3, <4>1
      <4>2. CASE j # 1
        BY <1>1, <2>1, <4>2 DEF Silent
      <4> QED BY <4>1, <4>2
    <3> QED BY <2>3, <3>1 DEF LastWord
  <2> QED BY <2>2, <2>3
<1> QED BY <1>3, <1>4 DEF LastWord

LEMMA LastWordStep == TypeOK /\ LastWord /\ [Next]_vars => LastWord'
<1> SUFFICES ASSUME TypeOK, LastWord, [Next]_vars PROVE LastWord'
  OBVIOUS
<1>0. hist \in Histories
  BY DEF TypeOK, Histories
<1>1. CASE Join
  <2>1. CASE air = "on" /\ air' = "joining" /\ Emit("disconnected")
    BY <2>1, EmitWord DEF Word
  <2>2. CASE inbox' = inbox /\ (air' = "on" <=> air = "on")
    <3>1. sta' = sta /\ hist'.erased = hist.erased
      BY <1>0, <1>1 DEF Join, driver, Note, Histories
    <3> QED BY <2>2, <3>1 DEF LastWord, Silent
  <2>3. \/ air = "on" /\ air' = "joining" /\ Emit("disconnected")
        \/ inbox' = inbox /\ (air' = "on" <=> air = "on")
    BY <1>1 DEF Join
  <2> QED BY <2>1, <2>2, <2>3
<1>2. CASE Quit
  <2>1. sta' = sta /\ hist' = hist
    BY <1>2 DEF Quit
  <2>2. CASE air = "on" /\ air' = "off" /\ Emit("disconnected")
    BY <2>2, EmitWord DEF Word
  <2>3. CASE inbox' = inbox /\ (air' = "on" <=> air = "on")
    BY <2>1, <2>3 DEF LastWord, Silent
  <2>4. \/ air = "on" /\ air' = "off" /\ Emit("disconnected")
        \/ inbox' = inbox /\ (air' = "on" <=> air = "on")
    BY <1>2 DEF Quit
  <2> QED BY <2>2, <2>3, <2>4
<1>3. CASE ConnectAnswer \/ GiveUp
  <2>1. UNCHANGED <<inbox, air>>
    BY <1>3 DEF ConnectAnswer, GiveUp, ConnectEnds, ncp
  <2>2. \/ UNCHANGED <<sta, hist.erased>>
        \/ sta' = "off" /\ hist'.erased = (hist.erased \/ sta = "on")
    BY <1>0, <1>3 DEF ConnectAnswer, GiveUp, ConnectEnds, Note,
         Histories
  <2> QED BY <2>1, <2>2 DEF LastWord, Silent
<1>4. CASE Connected \/ Disconnected
  <2>1. air' = air
    BY <1>4 DEF Connected, Disconnected, ncp
  <2>2. \/ Take("connected") /\ sta' = "on" /\ ~hist'.erased
        \/ Take("disconnected") /\ sta' = "off" /\ ~hist'.erased
    BY <1>0, <1>4 DEF Connected, Disconnected, Note, Histories
  <2> QED BY <2>1, <2>2, TakeAny DEF Word
<1>5. CASE AirJoins \/ AirRefuses \/ AirGivesUp \/ AirComplains \/ AirLost
  <2>1. UNCHANGED <<sta, hist>>
    BY <1>5 DEF AirJoins, AirRefuses, AirGivesUp, AirComplains, AirLost, Radio, driver
  <2>2. \/ air' = "on" /\ Emit("connected")
        \/ air' # "on" /\ Emit("disconnected")
        \/ (air' = "on" <=> air = "on") /\ (inbox' = inbox \/ Emit("reason"))
    BY <1>5 DEF AirJoins, AirRefuses, AirGivesUp, AirComplains, AirLost, Radio
  <2>3. CASE \/ air' = "on" /\ Emit("connected")
             \/ air' # "on" /\ Emit("disconnected")
    BY <2>3, EmitWord DEF Word
  <2>4. CASE (air' = "on" <=> air = "on") /\ inbox' = inbox
    BY <2>1, <2>4 DEF LastWord, Silent
  <2>5. CASE (air' = "on" <=> air = "on") /\ Emit("reason")
    <3>1. "reason" \in Events \ Word
      BY DEF Events, Word
    <3> QED BY <2>1, <2>5, <3>1, EmitOther
  <2> QED BY <2>2, <2>3, <2>4, <2>5
<1>6. CASE /\ UNCHANGED <<sta, air, hist.erased>>
           /\ ~Join /\ ~Quit /\ ~Connected /\ ~Disconnected
           /\ ~(AirJoins \/ AirRefuses \/ AirGivesUp \/ AirComplains \/ AirLost)
  <2>1. \/ inbox' = inbox
        \/ \E e \in Events \ Word : Emit(e) \/ Take(e)
    BY <1>6, InboxSteps
       DEF DropPeer, Reason, BleConnected, BleDisconnected, PairingAsked, BleWrite, ScanPrints,
           PhoneConnects, PhoneLeaves, PhonePairs, PhoneWrites, Phone, NcpScanned, Events,
           WriteOps, Word
  <2>2. CASE inbox' = inbox
    BY <1>6, <2>2 DEF LastWord, Silent
  <2>3. CASE \E e \in Events \ Word : Emit(e) \/ Take(e)
    BY <1>6, <2>3, EmitOther, TakeAny
  <2> QED BY <2>1, <2>2, <2>3
<1>7. DelayEnds => UNCHANGED hist.erased
  BY <1>0 DEF DelayEnds, Note, Histories
<1> QED BY <1>0, <1>1, <1>2, <1>3, <1>4, <1>5, <1>6, <1>7, StationSteps, AirSteps, JoinHistory

(***************************************************************************)
(* A connection is served.                                                 *)
(***************************************************************************)

LEMMA ServingStep == TypeOK /\ Turn /\ Serving /\ [Next]_vars => Serving'
<1> SUFFICES ASSUME TypeOK, Turn, Serving, [Next]_vars,
                    faults' = 0, sta' = "on", "wifi" \notin hist'.skipped
             PROVE  Served' \/ Coming'
  BY DEF Serving
<1>0. hist \in Histories /\ faults = 0
  BY BoundsType DEF TypeOK, Histories
<1>1. CASE Connected
  BY <1>1 DEF Connected, Coming
<1>2. CASE GetState
  <2>1. sta = "on"
    <3>1. CASE Continue
      <4>1. hist'.skipped = hist.skipped \cup taken
        BY <1>0, <3>1 DEF Continue, Note, Histories
      <4>2. "wifi" \in taken
        BY <1>2, Stages DEF GetState, Turn
      <4> QED BY <4>1, <4>2
    <3> QED BY <1>2, <3>1 DEF GetState
  <2>2. taken' = taken /\ "wifi" \in taken
    BY <1>2, <2>1, Stages DEF GetState, Turn
  <2> QED BY <2>2 DEF Coming
<1>3. CASE GetConnectInfo
  <2>1. ~Continue
    <3>1. Continue => hist'.skipped = hist.skipped \cup taken
      BY <1>0 DEF Continue, Note, Histories
    <3>2. "wifi" \in taken
      BY <1>3 DEF GetConnectInfo, Turn, ServesWifi
    <3> QED BY <3>1, <3>2
  <2>2. taken' = taken /\ "wifi" \in taken
    BY <1>3, <2>1 DEF GetConnectInfo, Turn, ServesWifi
  <2> QED BY <2>2 DEF Coming
<1>4. CASE StreamStart
  <2>1. stream' \in {"created", "running"} /\ staApp' = staApp
    BY <1>0, <1>4 DEF StreamStart, Failure, TypeOK
  <2>2. staApp = "on"
    BY <1>4 DEF StreamStart, Turn
  <2> QED BY <2>1, <2>2 DEF Served
<1>5. CASE ~(Connected \/ GetState \/ GetConnectInfo \/ StreamStart)
  <2>1. sta = "on" /\ "wifi" \notin hist.skipped
    <3>1. sta = "on"
      BY <1>5, StationSteps DEF ConnectAnswer, ConnectTimeout, GiveUp, ConnectEnds,
         Disconnected
    <3>2. UNCHANGED hist.skipped
      BY <1>0, <1>5, SkipHistory
    <3> QED BY <3>1, <3>2
  <2>2. CASE Served
    <3>1. UNCHANGED <<staApp, stream>> \/ StreamRuns \/ StreamLeaves
      BY <1>5, StreamTaskSteps
    <3> QED BY <2>2, <3>1 DEF Served, StreamRuns, StreamLeaves
  <2>3. CASE parser \in {"delay", "linkup"}
    <3>1. parser' = parser \/ DelayEnds \/ LinkUp
      BY <1>5, <2>3, ParserSteps DEF ScanPrints, ScanStored, Take
    <3> QED BY <2>3, <3>1 DEF DelayEnds, LinkUp, Coming
  <2>4. CASE "wifi" \in bits \cup taken
    <3>1. \/ "wifi" \in bits' \cup taken'
          \/ GetState \/ GetConnectInfo \/ StreamStart
      BY <2>4, BitSteps
    <3> QED BY <1>5, <3>1 DEF Coming
  <2> QED BY <1>0, <2>1, <2>2, <2>3, <2>4 DEF Serving, Coming
<1> QED BY <1>1, <1>2, <1>3, <1>4, <1>5

(***************************************************************************)
(* The results of a scan.                                                  *)
(***************************************************************************)

LEMMA EmitUnrelated ==
  ASSUME TypeOK, NEW e \in Events, e # "scanned", Emit(e)
  PROVE  (None => None') /\ (One => One')
<1>1. /\ Len(inbox) \in Nat /\ Len(inbox') = Len(inbox) + 1
      /\ inbox'[Len(inbox) + 1] = e
      /\ \A i \in 1..Len(inbox) : i \in 1..Len(inbox') /\ inbox'[i] = inbox[i]
  BY Emitted
<1>2. \A i \in 1..Len(inbox') : i \in 1..Len(inbox) \/ i = Len(inbox) + 1
  BY <1>1
<1> QED BY <1>1, <1>2 DEF None, One

LEMMA EmitScanned ==
  ASSUME TypeOK, None, Emit("scanned") PROVE One'
<1>1. /\ Len(inbox) \in Nat /\ Len(inbox') = Len(inbox) + 1
      /\ inbox'[Len(inbox) + 1] = "scanned"
      /\ \A i \in 1..Len(inbox) : i \in 1..Len(inbox') /\ inbox'[i] = inbox[i]
  BY Emitted DEF Events
<1>2. /\ Len(inbox) + 1 \in 1..Len(inbox')
      /\ \A i \in 1..Len(inbox') : i \in 1..Len(inbox) \/ i = Len(inbox) + 1
  BY <1>1
<1> QED BY <1>1, <1>2 DEF None, One

LEMMA TakeUnrelated ==
  ASSUME TypeOK, NEW e, e # "scanned", Take(e)
  PROVE  (None => None') /\ (One => One')
<1>1. /\ Len(inbox) \in Nat \ {0} /\ Len(inbox') = Len(inbox) - 1 /\ inbox[1] = e
      /\ \A i \in 1..Len(inbox') : i + 1 \in 1..Len(inbox) /\ inbox'[i] = inbox[i + 1]
  BY Taken
<1>2. None => None'
  BY <1>1 DEF None
<1>3. ASSUME One PROVE One'
  <2>1. PICK k \in 1..Len(inbox) : inbox[k] = "scanned"
    BY <1>3 DEF One
  <2>2. k - 1 \in 1..Len(inbox') /\ (k - 1) + 1 = k
    BY <1>1, <2>1
  <2>3. inbox'[k - 1] = "scanned"
    BY <1>1, <2>1, <2>2
  <2>4. ASSUME NEW i \in 1..Len(inbox'), NEW j \in 1..Len(inbox'),
               inbox'[i] = "scanned", inbox'[j] = "scanned"
        PROVE  i = j
    <3>1. i + 1 = j + 1
      BY <1>1, <1>3, <2>4 DEF One
    <3> QED BY <3>1
  <2> QED BY <2>2, <2>3, <2>4 DEF One
<1> QED BY <1>2, <1>3

LEMMA TakeScanned ==
  ASSUME TypeOK, One, Take("scanned") PROVE None'
<1>1. /\ Len(inbox) \in Nat \ {0} /\ inbox[1] = "scanned"
      /\ \A i \in 1..Len(inbox') : i + 1 \in 1..Len(inbox) /\ inbox'[i] = inbox[i + 1]
  BY Taken
<1>2. ASSUME NEW i \in 1..Len(inbox'), inbox'[i] = "scanned" PROVE FALSE
  <2>1. i + 1 = 1
    BY <1>1, <1>2 DEF One
  <2> QED BY <2>1
<1> QED BY <1>2 DEF None

(* Steps that have nothing to do with scans. *)
LEMMA UnrelatedMoves ==
  ASSUME TypeOK, [Next]_vars, ~NcpScanned, ~ScanPrints
  PROVE  (None => None') /\ (One => One')
<1>1. \/ inbox' = inbox
      \/ \E e \in Events \ {"scanned"} : Emit(e) \/ Take(e)
  BY InboxSteps
     DEF Join, Quit, DropPeer, Connected, Disconnected, Reason, BleConnected, BleDisconnected,
         PairingAsked, BleWrite, AirJoins, AirRefuses, AirComplains, AirLost,
         PhoneConnects, PhoneLeaves, PhonePairs, PhoneWrites, Phone, Events, WriteOps
<1> QED BY <1>1, EmitUnrelated, TakeUnrelated DEF None, One

LEMMA ResultsStep == TypeOK /\ Results /\ [Next]_vars => Results'
<1> SUFFICES ASSUME TypeOK, Results, [Next]_vars, ~hist'.scanFailed
             PROVE  /\ ~hist'.corrupt
                    /\ pc' \in {"scan", "scanwait"} => group' = "live"
                    /\ pc' = "scan" => ~scanDone'
                    /\ NoResult' \/ (pc' = "scanwait" /\ ~scanDone' /\ OneResult')
  BY DEF Results
<1> USE DEF TypeOK
<1>0. hist \in Histories
  BY DEF Histories
<1>1. ~hist.scanFailed
  BY <1>0, ScanHistory DEF Scan, ScanEnds, ScanStored, Note, Histories
<1>2. /\ ~hist.corrupt
      /\ pc \in {"scan", "scanwait"} => group = "live"
      /\ pc = "scan" => ~scanDone
      /\ NoResult \/ (pc = "scanwait" /\ ~scanDone /\ OneResult)
  BY <1>1 DEF Results
<1>3. CASE NcpScanned
  <2>1. UNCHANGED <<pc, parser, group, scanDone, hist>> /\ scans' = scans - 1 /\ Emit("scanned")
    BY <1>3 DEF NcpScanned, loop, commission
  <2>2. pc = "scanwait" /\ ~scanDone /\ scans = 1 /\ parser # "scan" /\ None
    BY <1>2, <1>3 DEF NcpScanned, NoResult, OneResult
  <2>3. One'
    BY <2>1, <2>2, EmitScanned
  <2> QED BY <1>2, <2>1, <2>2, <2>3 DEF OneResult
<1>4. CASE ScanPrints
  <2>1. UNCHANGED <<pc, group, scanDone, hist, scans>> /\ parser' = "scan" /\ Take("scanned")
    BY <1>4 DEF ScanPrints, loop, commission, ncp
  <2>2. ~None
    <3>1. inbox[1] = "scanned" /\ 1 \in 1..Len(inbox)
      BY <2>1, Taken
    <3> QED BY <3>1 DEF None
  <2>3. pc = "scanwait" /\ ~scanDone /\ scans = 0 /\ One
    BY <1>2, <2>2 DEF NoResult, OneResult
  <2>4. None'
    BY <2>1, <2>3, TakeScanned
  <2> QED BY <1>2, <2>1, <2>3, <2>4 DEF OneResult
<1>5. CASE ScanStored
  <2>1. pc = "scanwait" /\ scans = 0 /\ None /\ group = "live"
    BY <1>2, <1>5 DEF ScanStored, NoResult, OneResult
  <2>2. UNCHANGED <<pc, group, scans, inbox>> /\ parser' = "idle"
    BY <1>5 DEF ScanStored, loop, ncp
  <2>3. ~hist'.corrupt
    BY <1>0, <1>2, <1>5, <2>1 DEF ScanStored, Note, Histories
  <2> QED BY <1>2, <2>1, <2>2, <2>3 DEF NoResult, None
<1>6. CASE ~NcpScanned /\ ~ScanPrints /\ ~ScanStored
  <2>1. (None => None') /\ (One => One')
    BY <1>6, UnrelatedMoves
  <2>2. parser' = "scan" <=> parser = "scan"
    BY <1>6, ParserSteps DEF Connected, DelayEnds, LinkUp, Take
  <2>3. ~hist'.corrupt
    <3>1. CASE Scan \/ ScanEnds
      BY <1>0, <1>2, <3>1 DEF Scan, ScanEnds, Note, Histories
    <3>2. CASE UNCHANGED hist.corrupt
      BY <1>2, <3>2
    <3> QED BY <1>0, <1>6, <3>1, <3>2, ScanHistory
  <2>4. CASE Scan
    <3>1. NoFailure /\ pc' = "scanwait" /\ scans' = scans + 1 /\ UNCHANGED <<group, scanDone>>
      BY <1>0, <2>4 DEF Scan, commission, Note, Histories
    <3>2. pc = "scan" /\ NoResult /\ group = "live" /\ ~scanDone
      BY <1>2, <2>4 DEF Scan
    <3> QED BY <2>1, <2>2, <2>3, <3>1, <3>2 DEF NoResult, OneResult
  <2>5. CASE ScanEnds
    <3>1. pc' = "delete" /\ scans' = scans /\ scanDone
      BY <1>0, <2>5 DEF ScanEnds, ncp, Note, Histories
    <3>2. NoResult
      BY <1>2, <3>1
    <3> QED BY <2>1, <2>2, <2>3, <3>1, <3>2 DEF NoResult
  <2>6. CASE ProcessWrite
    <3>1. NoResult /\ scans' = scans
      BY <1>2, <2>6 DEF ProcessWrite, ncp
    <3>2. pc' \in {"scan", "scanwait"} => group' = "live" /\ ~scanDone'
      BY <2>6, PartType, Stages DEF ProcessWrite, Done, WriteOps
    <3> QED BY <2>1, <2>2, <2>3, <3>1, <3>2 DEF NoResult
  <2>7. CASE DeleteGroup \/ ForgetGroup
    <3>1. NoResult /\ scans' = scans /\ pc' \notin {"scan", "scanwait"}
      BY <1>2, <2>7, PartType, Stages DEF DeleteGroup, ForgetGroup, Done, ncp
    <3> QED BY <2>1, <2>2, <2>3, <3>1 DEF NoResult
  <2>8. CASE /\ UNCHANGED <<scans, group, scanDone>>
             /\ ~Scan /\ ~ScanEnds /\ ~ProcessWrite
    <3>1. pc' = pc \/ (pc \notin {"scan", "scanwait"} /\ pc' \notin {"scan", "scanwait"})
      BY <2>8, ScanPlaces
    <3> QED BY <1>2, <2>1, <2>2, <2>3, <2>8, <3>1 DEF NoResult, OneResult
  <2> QED BY <1>6, <2>4, <2>5, <2>6, <2>7, <2>8, ScanSteps
<1> QED BY <1>3, <1>4, <1>5, <1>6

(***************************************************************************)
(* The theorems.                                                           *)
(***************************************************************************)

LEMMA InitInv == Init => Inv
<1> SUFFICES ASSUME Init PROVE Inv
  OBVIOUS
<1>1. Len(inbox) = 0
  BY EmptySeq DEF Init
<1>2. \A i \in 1..Len(inbox) : FALSE
  BY <1>1
<1>3. LastWord /\ None
  BY <1>2 DEF Init, LastWord, None
<1>4. Turn /\ Expected /\ Serving
  BY Stages DEF Init, Turn, Expected, Serving, ServesWifi
<1>5. Results
  BY <1>3 DEF Init, Results, NoResult
<1> QED BY <1>3, <1>4, <1>5, InitType DEF Inv

LEMMA Inductive == Spec => []Inv
<1>1. Inv /\ [Next]_vars => Inv'
  BY NextType, TurnStep, ExpectedStep, LastWordStep, ServingStep, ResultsStep DEF Inv
<1> QED BY <1>1, InitInv, PTL DEF Spec

(* Every variable keeps its type, for any number of events and failures.   *)
THEOREM TypeCorrect == Spec => []TypeOK
<1>1. Inv => TypeOK
  BY DEF Inv
<1> QED BY <1>1, Inductive, PTL

(* W6X_WiFi_Connect answers with the connection of an earlier attempt only *)
(* by a flag set between the end of that attempt's wait and the statement  *)
(* that ends its expectation (w6x_wifi.c, 455 to 458).                     *)
THEOREM FreshSuccess == Spec => []SuccessIsFresh
<1>1. Inv => SuccessIsFresh
  BY DEF Inv, Expected, SuccessIsFresh
<1> QED BY <1>1, Inductive, PTL

(* Driver and NCP agree about the connection once all events are handled,  *)
(* but for one the driver has given up (w6x_wifi.c).                       *)
THEOREM StationsAgree == Spec => []StationAgrees
<1>1. Inv => StationAgrees
  <2> SUFFICES ASSUME Inv, inbox = << >>
               PROVE  sta = "on" <=> (air = "on" /\ ~hist.erased)
    BY DEF StationAgrees
  <2>1. Len(inbox) = 0
    BY EmptySeq
  <2>2. Silent(0)
    BY <2>1 DEF Silent
  <2> QED BY <2>2 DEF Inv, LastWord
<1> QED BY <1>1, Inductive, PTL

(* Once all is quiet a connected station is served, unless a turn of the   *)
(* loop was cut short or something failed (main_app.c).                    *)
THEOREM ConnectionsServed == Spec => []ConnectedIsServed
<1>1. Inv => ConnectedIsServed
  <2> SUFFICES ASSUME Inv, Quiet, sta = "on", "wifi" \notin hist.skipped, faults = 0
               PROVE  staApp = "on" /\ stream = "running"
    BY DEF ConnectedIsServed
  <2>1. ~Coming
    BY DEF Quiet, Coming, Inv, Turn
  <2> QED BY <2>1 DEF Quiet, Inv, Serving, Served
<1> QED BY <1>1, Inductive, PTL

(* Results that come in time find their event group (ble_comm_app.c).      *)
THEOREM ScanGroupsLive == Spec => []ScanGroupLive
<1>1. Inv => ScanGroupLive
  BY DEF Inv, Results, ScanGroupLive
<1> QED BY <1>1, Inductive, PTL
=============================================================================
