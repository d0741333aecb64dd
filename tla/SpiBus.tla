------------------------------- MODULE SpiBus -------------------------------
(***************************************************************************)
(* The SPI bus: the transfer engine and the NCP, and the threads that      *)
(* write to and read from its queues.                                      *)
(***************************************************************************)
EXTENDS SpiEngine, SpiUsers

(* Every bounded source has run dry and everything is done, save a packet  *)
(* the netif task has left behind after a failed allocation.               *)
Quiet ==
  /\ calls = MaxCalls /\ given = MaxUp /\ stalls = MaxStalls
  /\ \A p \in Threads : tpc[p] = "idle"
  /\ epc = "idle" /\ event \cap {"TXN_PENDING", "TXN_RDY"} = {}
  /\ txq = <<>> /\ outbox = <<>>
  /\ faults = 0 => \A t \in Bound : rxq[t] = <<>>
  /\ rdy = "low" /\ ~full
  /\ UNCHANGED vars

UserStep ==
  \/ \E p \in Threads : Call(p) \/ LockCore(p) \/ Write(p)
  \/ NetifStep \/ ParserStep

Next ==
  \/ EngineStep \/ EngineFault
  \/ NcpStep \/ NcpSends \/ NcpFull
  \/ UserStep \/ UserFault
  \/ Quiet

(***************************************************************************)
(* Fairness: the engine and the threads run when they can, a mutex that    *)
(* stays free is taken, a wait with a timeout ends, and the NCP answers,   *)
(* raises and lowers RDY and makes room. Nothing makes a thread send, the  *)
(* NCP send, nor anything fail.                                            *)
(***************************************************************************)
Fairness ==
  /\ WF_vars(EngineStep)
  /\ WF_vars(RdyRises) /\ WF_vars(RdyFalls) /\ WF_vars(NcpHasRoom)
  /\ \A p \in Threads : WF_vars(Write(p)) /\ WF_vars(LockCore(p))
  /\ WF_vars(NetifStep) /\ WF_vars(ParserStep)

Spec == Init /\ [][Next]_vars
FairSpec == Spec /\ Fairness

(* The abstract channel: a message is on its way to the NCP until the NCP  *)
(* has taken it, and on its way from the NCP from the exchange on.         *)
Channel == INSTANCE BusChannel WITH
  Kinds     <- Bound,
  Messages  <- Msg,
  DownDepth <- TxqLen + 1,
  UpDepth   <- [t \in Bound |-> RxqLen[t] + 1],
  down      <- IF txbuf > accepted THEN <<txbuf>> \o txq ELSE txq,
  sent      <- queued,
  got       <- accepted,
  count     <- takes,
  up        <- [t \in Bound |-> IF rxbuf.type = t
                                  THEN Append(rxq[t], rxbuf) ELSE rxq[t]]

(***************************************************************************)
(* Safety.                                                                 *)
(***************************************************************************)

(* The engine clocks the bus only while the NCP waits for it: an event of  *)
(* TXN_RDY is consumed once per rise of RDY, and neither the skipped first *)
(* wait, nor an abandoned transfer, nor a stale event breaks this.         *)
ExchangeWhenReady == epc = "first" => rdy = "high"

(* When the engine sleeps it has nothing in hand, and whatever is queued   *)
(* or offered by the NCP has an event that wakes it, set or about to be.   *)
NoLostWakeup ==
  epc = "idle" =>
    /\ txbuf = 0
    /\ txq # <<>> =>
         \/ event \cap {"TXN_PENDING", "TXN_RDY"} # {}
         \/ \E p \in Threads : tpc[p] = "signal"
    /\ rdy = "high" /\ ~aborted => "TXN_RDY" \in event

(* The NCP never misses a message nor sees an older one again, whatever    *)
(* stalls, timeouts and failed transactions come between: a message kept   *)
(* back at the beginning or the end of a stall is neither dropped nor      *)
(* overtaken.                                                              *)
TakenInOrder == [][accepted' \in {accepted, accepted + 1}]_vars

(* A message is repeated only when a transaction has failed after the NCP  *)
(* had taken it: once per failure at most.                                 *)
RepeatsNeedFaults == takes <= accepted + faults

(* What is read of a type is read once and in the order the NCP sent it.   *)
ReadOnceInOrder ==
  \A t \in Bound : \A i \in 1..Len(rxq[t]) :
    /\ rxq[t][i].id > lastRead[t]
    /\ \A j \in 1..(i - 1) : rxq[t][j].id < rxq[t][i].id

(* As long as no allocation fails, no packet stays in the queue of a       *)
(* network interface without the netif task being at it, notified, or      *)
(* about to be.                                                            *)
NoForgottenPacket ==
  faults = 0 =>
    \A t \in NetTypes : rxq[t] # <<>> => t \in notified \cup netEvent

(* Without failures the bus is two lossless FIFOs. *)
ImplementsBusChannel == Channel!ChannelSpec

(***************************************************************************)
(* Liveness, under FairSpec.                                               *)
(***************************************************************************)

(* Whatever entered the transmit queue is taken by the NCP in the end:     *)
(* behind the last one it has taken the next one does not stay for ever.   *)
EverythingIsTaken == \A n \in 0..MaxCalls : accepted = n /\ queued > n ~> accepted # n

(* Every received message is read. The engine waits without limit for room *)
(* in a receive queue; the netif task and the parser task, which make this *)
(* room, may wait for the core lock or for room in the transmit queue; and *)
(* only the engine makes room there. The time limit of spi_write breaks    *)
(* the circle.                                                             *)
EverythingIsRead == \A t \in Bound : []<>(rxq[t] = <<>>)

(* What of the fairness the two need, and what of the bounds. The engine   *)
(* goes on unless it blocks, the pin RDY and the threads in spi_write do;  *)
(* and in the end nothing fails any more and the NCP has room.             *)
HasRoom == rxbuf.type \in Bound => Len(rxq[rxbuf.type]) < RxqLen[rxbuf.type]

EngineStuck == epc = "deliver" /\ ~HasRoom
EngineWaits ==
  \/ epc = "idle" /\ event \cap {"TXN_PENDING", "TXN_RDY"} = {}
  \/ epc = "wait" /\ "TXN_RDY" \notin event
  \/ EngineStuck

RdyIsDue   == rdy = "low" /\ selected
RdyIsOver  == rdy = "taken" \/ (rdy = "high" /\ aborted)
Signals    == \E p \in Threads : tpc[p] = "signal"
SignalStep == \E p \in Threads : Signal(p)
Unfailing  == faults' = faults

EngineGoesOn == []<>EngineWaits \/ []<><<EngineStep>>_vars
RdyGoesOn    == /\ []<>~RdyIsDue \/ []<><<RdyRises>>_vars
                /\ []<>~RdyIsOver \/ []<><<RdyFalls>>_vars
SignalsGoOn  == []<>~Signals \/ []<><<SignalStep>>_vars
FailuresEnd  == <>[][Unfailing]_vars /\ <>[]~full

(* The netif task and the parser task go on unless they have nothing to do *)
(* or wait for the core lock; so does the holder of this lock, which is    *)
(* fair to the two.                                                        *)
NetifTurn   == NetifStep \/ Write(Netif)
NetifRests  == tpc[Netif] = "lock" \/ (tpc[Netif] = "idle" /\ notified = {})
ParserTurn  == ParserStep \/ Write(Parser)
ParserRests == tpc[Parser] = "lock" \/ (tpc[Parser] = "idle" /\ rxq[AtType] = <<>>)
HolderTurn  == coreLock # NoOne /\ (StackRuns(coreLock) \/ Write(coreLock))

NetifGoesOn  == []<>NetifRests \/ []<><<NetifTurn>>_vars
ParserGoesOn == []<>ParserRests \/ []<><<ParserTurn>>_vars
HolderGoesOn == []<>(coreLock = NoOne) \/ []<><<HolderTurn>>_vars
CoreIsFair(p) ==
  []<>(tpc[p] = "lock" /\ coreLock = NoOne) => []<><<LockCore(p)>>_vars
ReadersGoOn ==
  NetifGoesOn /\ ParserGoesOn /\ HolderGoesOn /\ CoreIsFair(Netif) /\ CoreIsFair(Parser)

(* What the netif task has to read, to drop, or to strike off its list as  *)
(* empty, has an end while the engine adds nothing; and all there is to    *)
(* read has an end when the NCP stops sending.                             *)
NetifWork   == \E t \in NetTypes : NetifRead(t) \/ NetifDrops(t) \/ NetifEmpty(t)
PacketsEnd  == []<>~EngineStuck \/ <>[][~NetifWork]_vars
MessagesEnd == <>[][~ReadAnswer /\ ~NetifWork]_vars

RoomComes == []<>~EngineStuck
BusGoesOn == EngineGoesOn /\ RdyGoesOn /\ SignalsGoOn /\ ReadersGoOn /\ PacketsEnd
=============================================================================
