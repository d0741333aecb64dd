---------------------------- MODULE SpiBusProofs ----------------------------
(***************************************************************************)
(* Proofs about SpiBus, for any threads, traffic types, queue depths and   *)
(* bounds.                                                                 *)
(***************************************************************************)
EXTENDS SpiBus, SequenceTheorems, TLAPS

(***************************************************************************)
(* The inductive invariant.                                                *)
(***************************************************************************)

(* Messages to the NCP: the queue holds the last ones entered, consecutive *)
(* numbers; the one in hand comes just before them; the NCP has taken all  *)
(* before it and perhaps it; and what is about to be freed has been taken. *)
Down ==
  /\ Len(txq) <= queued
  /\ \A i \in 1..Len(txq) : txq[i] = (queued - Len(txq)) + i
  /\ txbuf # 0 => txbuf = queued - Len(txq)
  /\ txbuf = 0 => accepted = queued - Len(txq)
  /\ txbuf # 0 => accepted \in {txbuf - 1, txbuf}
  /\ epc = "second" /\ ~rxStall /\ ~rxRestore /\ txbuf # 0 => accepted = txbuf

(* A message in hand that the NCP has taken already, and that the current  *)
(* transfer is not about to free, has a failure to its account that no     *)
(* repeat has used up.                                                     *)
Credit ==
  /\ takes <= accepted + faults
  /\ txbuf # 0 /\ accepted = txbuf /\ ~(epc = "second" /\ ~rxStall /\ ~rxRestore)
       => takes < accepted + faults

(* An event of TXN_RDY stands for a rise of RDY not answered yet: it is    *)
(* pending, or held by the engine between its wait and the exchange.       *)
EngineHolds == epc \in {"setup", "first"} \/ skipWait

Pins ==
  /\ "TXN_RDY" \in event => rdy = "high" /\ ~aborted /\ ~EngineHolds
  /\ EngineHolds => rdy = "high" /\ ~aborted
  /\ rdy = "high" /\ ~aborted /\ "TXN_RDY" \notin event => EngineHolds
  /\ skipWait => epc = "loop"
  /\ aborted => rdy = "high"

IInv == TypeOK /\ Down /\ Credit /\ Pins /\ NoLostWakeup

(***************************************************************************)
(* Facts about the operators.                                              *)
(***************************************************************************)

LEMMA NoMsgFacts == NoMsg \notin Msg /\ NoMsg.type \notin Types
BY SpiAssumption DEF NoMsg, Msg, Types

LEMMA Counters ==
  ASSUME TypeOK PROVE accepted \in Nat /\ takes \in Nat /\ faults \in Nat
BY SpiAssumption DEF TypeOK

LEMMA InitIInv == Init => IInv
<1> SUFFICES ASSUME Init PROVE IInv
  OBVIOUS
<1>1. TypeOK
  <2>1. txq \in Seq(Nat \ {0}) /\ outbox \in Seq(Msg)
    BY EmptySeq DEF Init
  <2>2. rxq \in [Bound -> Seq(Msg)]
    BY EmptySeq DEF Init
  <2>3. /\ stalls \in 0..MaxStalls /\ given \in 0..MaxUp
        /\ calls \in 0..MaxCalls /\ faults \in 0..MaxFaults
    BY SpiAssumption DEF Init
  <2> QED BY <2>1, <2>2, <2>3 DEF Init, TypeOK
<1>2. Down /\ Credit
  <2>1. Len(txq) = 0 /\ queued = 0 /\ txbuf = 0 /\ accepted = 0
        /\ takes = 0 /\ faults = 0 /\ epc = "idle"
    BY EmptySeq DEF Init
  <2>2. Credit
    BY <2>1 DEF Credit
  <2>3. Down
    BY <2>1 DEF Down
  <2> QED BY <2>2, <2>3
<1>3. Pins /\ NoLostWakeup
  BY DEF Init, Pins, EngineHolds, NoLostWakeup
<1> QED BY <1>1, <1>2, <1>3 DEF IInv

(* spi_get_txbuf takes the head of the queue if nothing is in hand. *)
LEMMA GetTxbufFacts ==
  ASSUME TypeOK, Down, GetTxbuf
  PROVE  /\ txbuf' \in Nat
         /\ txq' \in Seq(Nat \ {0})
         /\ txbuf' = 0 => txq' = <<>> /\ txbuf = 0
         /\ Len(txq') <= queued
         /\ \A i \in 1..Len(txq') : txq'[i] = (queued - Len(txq')) + i
         /\ txbuf' # 0 => txbuf' = queued - Len(txq')
         /\ txbuf' # 0 => accepted \in {txbuf' - 1, txbuf'}
         /\ txbuf' # 0 /\ accepted = txbuf' => txbuf' = txbuf
         /\ txbuf' = 0 => accepted = queued - Len(txq')
<1>1. CASE txbuf = 0 /\ txq # <<>>
  <2>1. txbuf' = Head(txq) /\ txq' = Tail(txq)
    BY <1>1 DEF GetTxbuf
  <2>2. /\ Len(txq) \in Nat \ {0}
        /\ Head(txq) = txq[1] /\ Head(txq) \in Nat \ {0}
        /\ Len(Tail(txq)) = Len(txq) - 1 /\ Tail(txq) \in Seq(Nat \ {0})
        /\ \A i \in 1..(Len(txq) - 1) : Tail(txq)[i] = txq[i + 1]
    BY <1>1, HeadTailProperties, EmptySeq, LenProperties DEF TypeOK
  <2>3. txq[1] = (queued - Len(txq)) + 1
    BY <2>2 DEF Down
  <2>4. \A i \in 1..Len(txq') : txq'[i] = (queued - Len(txq')) + i
    BY <2>1, <2>2 DEF Down, TypeOK
  <2>5. accepted = queued - Len(txq)
    BY <1>1 DEF Down
  <2> QED BY <2>1, <2>2, <2>3, <2>4, <2>5 DEF Down, TypeOK
<1>2. CASE ~(txbuf = 0 /\ txq # <<>>)
  BY <1>2 DEF GetTxbuf, Down, TypeOK
<1> QED BY <1>1, <1>2

(***************************************************************************)
(* Type correctness.                                                       *)
(***************************************************************************)

LEMMA EngineType ==
  ASSUME TypeOK, EngineStep PROVE TypeOK'
<1> USE DEF queues, pins, store, peer, users
<1>1. CASE EngineWake
  BY <1>1 DEF TypeOK, EngineWake
<1>2. ASSUME StartTransfer \/ NothingToDo PROVE TypeOK'
  <2>1. txbuf' \in Nat /\ txq' \in Seq(Nat \ {0})
    <3>1. GetTxbuf
      BY <1>2 DEF StartTransfer, NothingToDo
    <3>2. CASE txbuf = 0 /\ txq # <<>>
      <4>1. Head(txq) \in Nat \ {0} /\ Tail(txq) \in Seq(Nat \ {0})
        BY <3>2, HeadTailProperties DEF TypeOK
      <4> QED BY <3>1, <3>2, <4>1 DEF GetTxbuf
    <3>3. CASE ~(txbuf = 0 /\ txq # <<>>)
      BY <3>1, <3>3 DEF GetTxbuf, TypeOK
    <3> QED BY <3>2, <3>3
  <2>2. epc' \in {"setup", "wait", "idle"} /\ skipWait' = FALSE /\ rxRestore' \in BOOLEAN
        /\ selected' \in BOOLEAN
    BY <1>2 DEF StartTransfer, NothingToDo, TypeOK
  <2> QED BY <1>2, <2>1, <2>2 DEF TypeOK, StartTransfer, NothingToDo
<1>3. CASE TxnReady
  BY <1>3 DEF TypeOK, TxnReady
<1>4. CASE SetUp
  BY <1>4 DEF TypeOK, SetUp
<1>5. CASE FirstPart
  <2>1. outbox' \in Seq(Msg) /\ rxbuf' \in Msg \cup {NoMsg}
    <3>1. CASE outbox = <<>>
      BY <1>5, <3>1 DEF FirstPart, Exchange, TypeOK
    <3>2. CASE outbox # <<>>
      <4>1. Head(outbox) \in Msg /\ Tail(outbox) \in Seq(Msg)
        BY <3>2, HeadTailProperties DEF TypeOK
      <4> QED BY <1>5, <3>2, <4>1 DEF FirstPart, Exchange
    <3> QED BY <3>1, <3>2
  <2>2. accepted' \in Nat /\ takes' \in Nat
    BY <1>5 DEF FirstPart, Exchange, TypeOK
  <2>3. rxStall' \in BOOLEAN /\ rxRestore' \in BOOLEAN
    <3>1. rxRestore' = (rxStall /\ ~full) /\ rxStall' = full
      BY <1>5 DEF FirstPart
    <3> QED BY <3>1 DEF TypeOK
  <2>4. txbuf' \in Nat /\ epc' \in {"ack", "deliver", "second"}
    BY <1>5 DEF FirstPart, Received, TypeOK
  <2>5. rdy' = "taken" /\ selected' = FALSE
    BY <1>5 DEF FirstPart, Exchange
  <2> QED BY <1>5, <2>1, <2>2, <2>3, <2>4, <2>5 DEF TypeOK, FirstPart
<1>6. CASE SecondPart
  BY <1>6 DEF TypeOK, SecondPart, Received
<1>7. CASE Deliver
  <2>1. rxbuf \in Msg
    <3>1. rxbuf.type \in Types
      BY <1>7 DEF Deliver, Types
    <3> QED BY <3>1, NoMsgFacts DEF TypeOK
  <2>2. rxq' \in [Bound -> Seq(Msg)]
    <3>1. Append(rxq[rxbuf.type], rxbuf) \in Seq(Msg)
      BY <1>7, <2>1, AppendProperties DEF Deliver, TypeOK
    <3> QED BY <1>7, <3>1 DEF Deliver, TypeOK
  <2>3. notified' \subseteq NetTypes
    BY <1>7 DEF Deliver, TypeOK
  <2> QED BY <1>7, <2>2, <2>3 DEF TypeOK, Deliver
<1>8. CASE Discard
  BY <1>8 DEF TypeOK, Discard
<1>9. CASE HeaderAcked \/ AckTimeout \/ PollReady
  <2>1. CASE HeaderAcked
    BY <2>1 DEF TypeOK, HeaderAcked
  <2>2. CASE AckTimeout \/ PollReady
    BY <2>2 DEF TypeOK, AckTimeout, PollReady
  <2> QED BY <1>9, <2>1, <2>2
<1> QED BY <1>1, <1>2, <1>3, <1>4, <1>5, <1>6, <1>7, <1>8, <1>9 DEF EngineStep

LEMMA FaultType ==
  ASSUME TypeOK, EngineFault PROVE TypeOK'
<1> USE DEF queues, pins, store, peer, users
<1>1. /\ selected' = FALSE /\ rxbuf' = NoMsg /\ epc' = "loop"
      /\ faults < MaxFaults /\ faults' = faults + 1
      /\ UNCHANGED <<txbuf, skipWait, rxRestore>>
  BY DEF EngineFault, TxnTimeout, SetUpFails, FirstPartFails, SecondPartFails, GiveUp, Fault
<1>2. faults' \in 0..MaxFaults
  BY <1>1, SpiAssumption DEF TypeOK
<1>3. CASE TxnTimeout
  <2>1. aborted' \in BOOLEAN
    BY <1>3 DEF TxnTimeout
  <2> QED BY <1>1, <1>2, <1>3, <2>1 DEF TypeOK, TxnTimeout
<1>4. CASE SetUpFails
  <2>1. aborted' \in BOOLEAN
    BY <1>4 DEF SetUpFails
  <2> QED BY <1>1, <1>2, <1>4, <2>1 DEF TypeOK, SetUpFails
<1>5. CASE FirstPartFails
  <2>1. outbox' \in Seq(Msg)
    <3>1. CASE outbox = <<>>
      BY <1>5, <3>1 DEF FirstPartFails, Exchange, TypeOK
    <3>2. CASE outbox # <<>>
      <4>1. Tail(outbox) \in Seq(Msg)
        BY <3>2, HeadTailProperties DEF TypeOK
      <4> QED BY <1>5, <3>2, <4>1 DEF FirstPartFails, Exchange, TypeOK
    <3> QED BY <3>1, <3>2
  <2>2. accepted' \in Nat /\ takes' \in Nat
    BY <1>5 DEF FirstPartFails, Exchange, TypeOK
  <2>3. rdy' \in {"low", "high", "taken"} /\ aborted' \in BOOLEAN
    BY <1>5 DEF FirstPartFails, Exchange, TypeOK
  <2> QED BY <1>1, <1>2, <1>5, <2>1, <2>2, <2>3 DEF TypeOK, FirstPartFails
<1>6. CASE SecondPartFails
  BY <1>1, <1>2, <1>6 DEF TypeOK, SecondPartFails
<1> QED BY <1>3, <1>4, <1>5, <1>6 DEF EngineFault

LEMMA PeerType ==
  ASSUME TypeOK, NcpStep \/ NcpSends \/ NcpFull PROVE TypeOK'
<1> USE DEF queues, engine, pins, peer, users
<1>1. CASE RdyRises \/ RdyFalls
  <2>1. event' \subseteq Events /\ rdy' \in {"low", "high"} /\ aborted' \in BOOLEAN
    BY <1>1 DEF TypeOK, RdyRises, RdyFalls, Events
  <2>2. UNCHANGED <<txq, rxq, txbuf, rxStall, epc, skipWait, rxRestore, rxbuf, selected,
                    outbox, full, stalls, given, accepted, takes, tpc, coreLock, notified,
                    netEvent, linkCalls, calls, queued, lastRead, faults>>
    BY <1>1 DEF RdyRises, RdyFalls, store
  <2> QED BY <2>1, <2>2 DEF TypeOK
<1>2. CASE NcpHasRoom \/ NcpFull
  <2>1. full' \in BOOLEAN
    BY <1>2 DEF NcpHasRoom, NcpFull
  <2>4. stalls' \in 0..MaxStalls
    <3>1. CASE NcpHasRoom
      BY <3>1 DEF TypeOK, NcpHasRoom
    <3>2. CASE NcpFull
      BY <3>2, SpiAssumption DEF TypeOK, NcpFull
    <3> QED BY <1>2, <3>1, <3>2
  <2>2. UNCHANGED <<event, txq, rxq, txbuf, rxStall, epc, skipWait, rxRestore, rxbuf, rdy,
                    selected, aborted, outbox, given, accepted, takes, tpc, coreLock,
                    notified, netEvent, linkCalls, calls, queued, lastRead, faults>>
    BY <1>2 DEF NcpHasRoom, NcpFull
  <2> QED BY <2>1, <2>2, <2>4 DEF TypeOK
<1>3. CASE NcpSends
  <2>1. given' \in 0..MaxUp /\ given + 1 \in 1..MaxUp
    BY <1>3, SpiAssumption DEF TypeOK, NcpSends
  <2>2. outbox' \in Seq(Msg)
    BY <1>3, <2>1, AppendProperties DEF TypeOK, NcpSends, Msg
  <2> QED BY <1>3, <2>1, <2>2 DEF TypeOK, NcpSends
<1> QED BY <1>1, <1>2, <1>3 DEF NcpStep

(* The program counter of one thread moves. *)
LEMMA GotoType ==
  ASSUME TypeOK, NEW p, NEW pc \in {"idle", "lock", "input", "report", "send", "signal", "read"},
         Goto(p, pc)
  PROVE  tpc' \in [Threads -> {"idle", "lock", "input", "report", "send", "signal", "read"}]
BY DEF TypeOK, Goto

LEMMA ReturnType ==
  ASSUME TypeOK, NEW p, Return(p)
  PROVE  /\ tpc' \in [Threads -> {"idle", "lock", "input", "report", "send", "signal", "read"}]
         /\ coreLock' \in Threads \cup {NoOne}
BY GotoType DEF TypeOK, Return, Onward

LEMMA UserType ==
  ASSUME TypeOK, UserStep \/ UserFault PROVE TypeOK'
<1> USE DEF queues, bus
<1> USE DEF engine, pins, store, peer
<1>1. ASSUME NEW p \in Threads, Call(p) PROVE TypeOK'
  <2>1. calls' \in 0..MaxCalls
    BY <1>1, SpiAssumption DEF TypeOK, Call
  <2>2. tpc' \in [Threads -> {"idle", "lock", "input", "report", "send", "signal", "read"}]
    BY <1>1, GotoType DEF Call
  <2> QED BY <1>1, <2>1, <2>2 DEF TypeOK, Call
<1>2. ASSUME NEW p \in Threads, LockCore(p) PROVE TypeOK'
  <2>2. tpc' \in [Threads -> {"idle", "lock", "input", "report", "send", "signal", "read"}]
    BY <1>2, GotoType DEF LockCore
  <2>3. linkCalls' \subseteq {"release", "start"} /\ coreLock' = p
    BY <1>2 DEF LockCore, TypeOK
  <2> QED BY <1>2, <2>2, <2>3 DEF TypeOK, LockCore
<1>3. ASSUME NEW p \in Threads, QueueMessage(p) PROVE TypeOK'
  <2>1. txq' \in Seq(Nat \ {0}) /\ queued' \in Nat
    BY <1>3, AppendProperties DEF TypeOK, QueueMessage
  <2>2. tpc' \in [Threads -> {"idle", "lock", "input", "report", "send", "signal", "read"}]
    BY <1>3, GotoType DEF QueueMessage
  <2> QED BY <1>3, <2>1, <2>2 DEF TypeOK, QueueMessage
<1>4. ASSUME NEW p \in Threads, SendTimeout(p) \/ Signal(p) PROVE TypeOK'
  <2>1. /\ tpc' \in [Threads -> {"idle", "lock", "input", "report", "send", "signal", "read"}]
        /\ coreLock' \in Threads \cup {NoOne}
    BY <1>4, ReturnType DEF SendTimeout, Signal
  <2>2. event' \subseteq Events
    BY <1>4 DEF TypeOK, SendTimeout, Signal, Events
  <2>3. UNCHANGED <<txq, rxq, txbuf, rxStall, epc, skipWait, rxRestore, rxbuf, rdy,
                    selected, aborted, outbox, full, stalls, given, accepted, takes,
                    notified, netEvent, linkCalls, calls, queued, lastRead, faults>>
    BY <1>4 DEF SendTimeout, Signal
  <2> QED BY <2>1, <2>2, <2>3 DEF TypeOK
<1>5. ASSUME NEW p \in Threads, SendNoMemory(p) PROVE TypeOK'
  <2>1. Return(p) /\ faults' \in 0..MaxFaults
    BY <1>5, SpiAssumption DEF SendNoMemory, Failure, TypeOK
  <2> QED BY <1>5, <2>1, ReturnType DEF TypeOK, SendNoMemory
<1>6. CASE NetifWake
  <2>2. tpc' \in [Threads -> {"idle", "lock", "input", "report", "send", "signal", "read"}]
    BY <1>6, GotoType DEF NetifWake
  <2> QED BY <1>6, <2>2 DEF TypeOK, NetifWake
<1>7. ASSUME NEW p, StackRuns(p) PROVE TypeOK'
  <2>1. calls' \in 0..MaxCalls
    BY <1>7, SpiAssumption DEF TypeOK, StackRuns
  <2>2. /\ tpc' \in [Threads -> {"idle", "lock", "input", "report", "send", "signal", "read"}]
        /\ coreLock' \in Threads \cup {NoOne}
    BY <1>7, GotoType, ReturnType DEF StackRuns, TypeOK
  <2> QED BY <1>7, <2>1, <2>2 DEF TypeOK, StackRuns
<1>8. ASSUME NEW t \in Bound, rxq[t] # <<>>, rxq' = [rxq EXCEPT ![t] = Tail(@)],
             lastRead' = [lastRead EXCEPT ![t] = Head(rxq[t]).id]
      PROVE  rxq' \in [Bound -> Seq(Msg)] /\ lastRead' \in [Bound -> Nat]
  <2>1. Head(rxq[t]) \in Msg /\ Tail(rxq[t]) \in Seq(Msg)
    BY <1>8, HeadTailProperties DEF TypeOK
  <2>2. Head(rxq[t]).id \in Nat
    BY <2>1, SpiAssumption DEF Msg
  <2> QED BY <1>8, <2>1, <2>2 DEF TypeOK
<1>9. ASSUME NEW t \in NetTypes, NetifRead(t) PROVE TypeOK'
  <2>1. rxq' \in [Bound -> Seq(Msg)] /\ lastRead' \in [Bound -> Nat]
    BY <1>8, <1>9 DEF NetifRead, Bound
  <2>2. tpc' \in [Threads -> {"idle", "lock", "input", "report", "send", "signal", "read"}]
    BY <1>9, GotoType DEF NetifRead
  <2> QED BY <1>9, <2>1, <2>2 DEF TypeOK, NetifRead
<1>10. ASSUME NEW t, LinkDone(t)
       PROVE  /\ tpc' \in [Threads -> {"idle", "lock", "input", "report", "send", "signal", "read"}]
              /\ netEvent' \subseteq NetTypes
  BY <1>10, GotoType DEF LinkDone, TypeOK
<1>11. ASSUME NEW t \in NetTypes, NetifDrops(t) PROVE TypeOK'
  <2>1. rxq' \in [Bound -> Seq(Msg)] /\ lastRead' \in [Bound -> Nat]
    BY <1>8, <1>11 DEF NetifDrops, Bound
  <2>2. faults' \in 0..MaxFaults
    BY <1>11, SpiAssumption DEF NetifDrops, Failure, TypeOK
  <2>3. LinkDone(t)
    BY <1>11 DEF NetifDrops
  <2> QED BY <1>10, <1>11, <2>1, <2>2, <2>3 DEF TypeOK, NetifDrops
<1>12. ASSUME NEW t \in NetTypes, NetifEmpty(t) PROVE TypeOK'
  <2>3. LinkDone(t)
    BY <1>12 DEF NetifEmpty
  <2> QED BY <1>10, <1>12, <2>3 DEF TypeOK, NetifEmpty
<1>13. CASE ReadAnswer
  <2>1. rxq' \in [Bound -> Seq(Msg)] /\ lastRead' \in [Bound -> Nat]
    BY <1>8, <1>13 DEF ReadAnswer, Bound
  <2>2. tpc' \in [Threads -> {"idle", "lock", "input", "report", "send", "signal", "read"}]
    BY <1>13, GotoType DEF ReadAnswer, TypeOK
  <2>3. linkCalls' \subseteq {"release", "start"}
    BY <1>13 DEF ReadAnswer, TypeOK
  <2> QED BY <1>13, <2>1, <2>2, <2>3 DEF TypeOK, ReadAnswer
<1> QED
  BY <1>1, <1>2, <1>3, <1>4, <1>5, <1>6, <1>7, <1>9, <1>11, <1>12, <1>13
     DEF UserStep, UserFault, Write, NetifStep, ParserStep

LEMMA TypeStep ==
  ASSUME TypeOK, [Next]_vars PROVE TypeOK'
<1>1. CASE UNCHANGED vars
  BY <1>1 DEF vars, queues, engine, pins, store, peer, users, TypeOK
<1> QED
  BY <1>1, EngineType, FaultType, PeerType, UserType DEF Next, Quiet

(***************************************************************************)
(* Messages to the NCP, and the account of repeats.                        *)
(***************************************************************************)

(* The actions that neither move a message nor fail. *)
LEMMA DownSame ==
  ASSUME Down, Credit, TypeOK,
         UNCHANGED <<txq, queued, txbuf, accepted, takes, rxStall, rxRestore>>,
         faults' \in {faults, faults + 1},
         \/ UNCHANGED epc
         \/ epc' # "second" /\ epc # "second"
         \/ epc' # "second" /\ faults' = faults + 1
  PROVE  Down' /\ Credit'
<1>1. Down'
  BY DEF Down
<1>2. Credit'
  <2>1. takes' <= accepted' + faults'
    <3>1. takes <= accepted + faults
      BY DEF Credit
    <3> QED BY <3>1, Counters
  <2>2. CASE UNCHANGED <<faults, epc>>
    BY <2>2 DEF Credit
  <2>3. CASE UNCHANGED faults /\ epc' # "second" /\ epc # "second"
    BY <2>3 DEF Credit
  <2>4. CASE faults' = faults + 1
    <3>1. takes' < accepted' + faults'
      <4>1. takes <= accepted + faults
        BY DEF Credit
      <4> QED BY <2>4, <4>1, Counters
    <3> QED BY <2>1, <3>1 DEF Credit
  <2> QED BY <2>2, <2>3, <2>4
<1> QED BY <1>1, <1>2

(* A thread enters a message. *)
LEMMA DownQueue ==
  ASSUME TypeOK, Down, Credit, NEW p, QueueMessage(p) PROVE Down' /\ Credit'
<1>1. /\ txq' = Append(txq, queued + 1) /\ queued' = queued + 1
      /\ UNCHANGED <<txbuf, accepted, takes, rxStall, rxRestore, epc, faults>>
  BY DEF QueueMessage, engine, peer
<1>2. /\ Len(txq) \in Nat /\ Len(txq') = Len(txq) + 1
      /\ \A i \in 1..Len(txq) : txq'[i] = txq[i]
      /\ txq'[Len(txq) + 1] = queued + 1
  <2>1. txq \in Seq(Nat \ {0}) /\ queued + 1 \in Nat \ {0}
    BY DEF TypeOK
  <2> QED BY <1>1, <2>1, AppendProperties, LenProperties
<1>3. queued' - Len(txq') = queued - Len(txq)
  BY <1>1, <1>2 DEF TypeOK
<1>4. \A i \in 1..Len(txq') : txq'[i] = (queued' - Len(txq')) + i
  <2> TAKE i \in 1..Len(txq')
  <2>1. CASE i \in 1..Len(txq)
    BY <1>2, <1>3, <2>1 DEF Down
  <2>2. CASE i = Len(txq) + 1
    BY <1>2, <1>3, <2>2 DEF TypeOK
  <2> QED BY <1>2, <2>1, <2>2
<1>5. Len(txq') <= queued'
  BY <1>1, <1>2 DEF Down, TypeOK
<1>6. Down'
  BY <1>1, <1>3, <1>4, <1>5 DEF Down
<1>7. Credit'
  BY <1>1 DEF Credit
<1> QED BY <1>6, <1>7

(* The engine takes the next message in hand, or finds none. *)
LEMMA DownStart ==
  ASSUME TypeOK, Down, Credit, StartTransfer \/ NothingToDo
  PROVE  Down' /\ Credit'
<1>1. /\ GetTxbuf /\ epc = "loop" /\ epc' # "second"
      /\ UNCHANGED <<queued, accepted, takes, faults>>
  BY DEF StartTransfer, NothingToDo, peer, users
<1>2. Down'
  BY <1>1, GetTxbufFacts DEF Down
<1>3. Credit'
  BY <1>1, GetTxbufFacts DEF Credit
<1> QED BY <1>2, <1>3

(* The exchange: the message in hand is taken unless a stall keeps it. *)
LEMMA ExchangeFacts ==
  ASSUME TypeOK, Down, Credit, Exchange, epc = "first"
  PROVE  /\ takes' <= accepted' + faults
         /\ accepted' \in {accepted, accepted + 1}
         /\ txbuf = 0 => UNCHANGED accepted
         /\ txbuf # 0 => accepted' \in {txbuf - 1, txbuf}
         /\ txbuf # 0 /\ ~rxStall /\ ~full => accepted' = txbuf
         /\ ~(txbuf # 0 /\ ~rxStall /\ ~full) => UNCHANGED <<accepted, takes>>
<1>1. CASE txbuf # 0 /\ ~rxStall /\ ~full
  <2>1. accepted' = txbuf /\ takes' = takes + 1
    BY <1>1 DEF Exchange
  <2>2. accepted \in {txbuf - 1, txbuf}
    BY <1>1 DEF Down
  <2>3. accepted = txbuf => takes < accepted + faults
    BY <1>1 DEF Credit
  <2>4. takes <= accepted + faults
    BY DEF Credit
  <2> QED BY <1>1, <2>1, <2>2, <2>3, <2>4 DEF TypeOK
<1>2. CASE ~(txbuf # 0 /\ ~rxStall /\ ~full)
  <2>1. UNCHANGED <<accepted, takes>>
    BY <1>2 DEF Exchange
  <2> QED BY <1>2, <2>1 DEF Down, Credit, TypeOK
<1> QED BY <1>1, <1>2

LEMMA DownFirst ==
  ASSUME TypeOK, Down, Credit, FirstPart PROVE Down' /\ Credit'
<1>1. /\ Exchange /\ epc = "first"
      /\ rxStall' = full /\ rxRestore' = (rxStall /\ ~full)
      /\ UNCHANGED <<txq, queued, faults>>
  BY DEF FirstPart, queues, users
<1>2. CASE txbuf # 0 /\ ~rxStall /\ ~full
  <2>1. accepted' = txbuf /\ takes' <= accepted' + faults' /\ ~rxStall' /\ ~rxRestore'
    BY <1>1, <1>2, ExchangeFacts
  <2>2. (txbuf' = 0 /\ epc' # "second") \/ (txbuf' = txbuf /\ epc' = "second")
    BY <1>2, <2>1 DEF FirstPart, Received
  <2>3. Down'
    BY <1>1, <1>2, <2>1, <2>2 DEF Down
  <2>4. Credit'
    BY <2>1, <2>2 DEF Credit
  <2> QED BY <2>3, <2>4
<1>3. CASE ~(txbuf # 0 /\ ~rxStall /\ ~full)
  <2>1. UNCHANGED <<accepted, takes>>
    BY <1>1, <1>3, ExchangeFacts
  <2>2. txbuf' = txbuf
    <3>1. CASE txbuf = 0
      BY <3>1 DEF FirstPart, Received
    <3>2. CASE txbuf # 0
      <4>1. rxStall' \/ rxRestore'
        BY <1>1, <1>3, <3>2
      <4> QED BY <4>1 DEF FirstPart, Received
    <3> QED BY <3>1, <3>2
  <2>3. txbuf # 0 => rxStall' \/ rxRestore'
    BY <1>1, <1>3
  <2>4. Down'
    BY <1>1, <2>1, <2>2, <2>3 DEF Down
  <2>5. Credit'
    BY <1>1, <2>1, <2>2, <2>3 DEF Credit
  <2> QED BY <2>4, <2>5
<1> QED BY <1>2, <1>3

LEMMA DownSecond ==
  ASSUME TypeOK, Down, Credit, SecondPart PROVE Down' /\ Credit'
<1>1. /\ epc = "second" /\ epc' # "second"
      /\ txbuf' = IF ~rxStall /\ ~rxRestore THEN 0 ELSE txbuf
      /\ UNCHANGED <<txq, queued, accepted, takes, rxStall, rxRestore, faults>>
  BY DEF SecondPart, Received, queues, peer, users
<1>2. CASE ~rxStall /\ ~rxRestore
  <2>1. Down'
    BY <1>1, <1>2 DEF Down
  <2>2. Credit'
    BY <1>1, <1>2 DEF Credit
  <2> QED BY <2>1, <2>2
<1>3. CASE rxStall \/ rxRestore
  <2>1. Down'
    BY <1>1, <1>3 DEF Down
  <2>2. Credit'
    BY <1>1, <1>3 DEF Credit
  <2> QED BY <2>1, <2>2
<1> QED BY <1>2, <1>3

LEMMA DownFirstFails ==
  ASSUME TypeOK, Down, Credit, FirstPartFails PROVE Down' /\ Credit'
<1>1. /\ epc = "first" /\ epc' = "loop" /\ faults' = faults + 1
      /\ UNCHANGED <<txq, queued, txbuf, rxStall, rxRestore>>
  BY DEF FirstPartFails, GiveUp, Fault, queues, users
<1>2. /\ takes' <= accepted' + faults
      /\ txbuf = 0 => UNCHANGED accepted
      /\ txbuf # 0 => accepted' \in {txbuf - 1, txbuf}
  <2>1. CASE Exchange
    BY <1>1, <2>1, ExchangeFacts
  <2>2. CASE UNCHANGED peer
    BY <2>2 DEF peer, Down, Credit
  <2> QED BY <2>1, <2>2 DEF FirstPartFails
<1>3. takes' < accepted' + faults'
  <2>1. accepted' \in Nat /\ takes' \in Nat
    BY DEF FirstPartFails, Exchange, peer, TypeOK
  <2> QED BY <1>1, <1>2, <2>1, Counters
<1>4. Down'
  BY <1>1, <1>2 DEF Down
<1>5. Credit'
  <2>1. takes' <= accepted' + faults'
    <3>1. accepted' \in Nat /\ takes' \in Nat
      BY DEF FirstPartFails, Exchange, peer, TypeOK
    <3> QED BY <1>1, <1>2, <3>1, Counters
  <2> QED BY <1>3, <2>1 DEF Credit
<1> QED BY <1>4, <1>5

LEMMA DownStep ==
  ASSUME TypeOK, Down, Credit, [Next]_vars PROVE Down' /\ Credit'
<1> DEFINE moved == <<txq, queued, txbuf, accepted, takes, rxStall, rxRestore>>
<1>1. CASE UNCHANGED vars
  BY <1>1, DownSame DEF vars, queues, engine, peer, users
<1>2. CASE EngineStep
  <2>1. CASE \/ EngineWake \/ TxnReady \/ SetUp \/ Deliver \/ Discard
             \/ HeaderAcked \/ AckTimeout \/ PollReady
    <3>1. UNCHANGED moved /\ UNCHANGED faults
      BY <2>1 DEF EngineWake, TxnReady, SetUp, Deliver, Discard, HeaderAcked, AckTimeout,
                  PollReady, queues, peer, users
    <3>2. epc # "second" /\ epc' # "second"
      BY <2>1 DEF EngineWake, TxnReady, SetUp, Deliver, Discard, HeaderAcked, AckTimeout,
                  PollReady
    <3> QED BY <3>1, <3>2, DownSame
  <2> QED BY <1>2, <2>1, DownStart, DownFirst, DownSecond DEF EngineStep
<1>3. CASE EngineFault
  <2>1. CASE TxnTimeout \/ SetUpFails \/ SecondPartFails
    <3>1. UNCHANGED moved /\ faults' = faults + 1 /\ epc' = "loop"
      BY <2>1 DEF TxnTimeout, SetUpFails, SecondPartFails, GiveUp, Fault, queues, peer, users
    <3> QED BY <3>1, DownSame
  <2> QED BY <1>3, <2>1, DownFirstFails DEF EngineFault
<1>4. CASE NcpStep \/ NcpSends \/ NcpFull
  <2>1. UNCHANGED moved /\ UNCHANGED <<faults, epc>>
    BY <1>4 DEF NcpStep, RdyRises, RdyFalls, NcpHasRoom, NcpSends, NcpFull, queues, engine,
                peer, users
  <2> QED BY <2>1, DownSame
<1>5. CASE UserStep
  <2>1. CASE \E p \in Threads : QueueMessage(p)
    BY <2>1, DownQueue
  <2>2. CASE \E p \in Threads : Call(p) \/ LockCore(p) \/ SendTimeout(p) \/ Signal(p)
    <3>1. UNCHANGED moved /\ UNCHANGED <<faults, epc>>
      BY <2>2 DEF Call, LockCore, SendTimeout, Signal, bus, queues, engine, peer
    <3> QED BY <3>1, DownSame
  <2>3. CASE NetifStep \/ ParserStep
    <3>1. UNCHANGED moved /\ UNCHANGED <<faults, epc>>
      BY <2>3 DEF NetifStep, ParserStep, NetifWake, StackRuns, NetifRead, NetifEmpty,
                  ReadAnswer, Return, bus,
                  queues, engine, peer
    <3> QED BY <3>1, DownSame
  <2> QED BY <1>5, <2>1, <2>2, <2>3 DEF UserStep, Write
<1>6. CASE UserFault
  <2>1. UNCHANGED moved /\ UNCHANGED epc /\ faults' = faults + 1
    BY <1>6 DEF UserFault, SendNoMemory, NetifDrops, Failure, bus, queues, engine, peer
  <2> QED BY <2>1, DownSame
<1>7. CASE Quiet
  BY <1>1, <1>7 DEF Quiet
<1> QED BY <1>1, <1>2, <1>3, <1>4, <1>5, <1>6, <1>7 DEF Next

(***************************************************************************)
(* The pins and the events of their interrupts.                            *)
(***************************************************************************)

LEMMA PinsEngine ==
  ASSUME TypeOK, Pins, EngineStep PROVE Pins'
<1> USE DEF Pins, EngineHolds
<1>1. CASE EngineWake
  BY <1>1 DEF EngineWake, pins
<1>2. CASE StartTransfer
  BY <1>2 DEF StartTransfer
<1>3. CASE NothingToDo
  BY <1>3 DEF NothingToDo, pins
<1>4. CASE TxnReady
  BY <1>4 DEF TxnReady, pins
<1>5. CASE SetUp
  BY <1>5 DEF SetUp, pins
<1>6. CASE FirstPart
  <2>1. /\ rdy' = "taken" /\ epc = "first" /\ epc' \in {"second", "ack", "deliver"}
        /\ UNCHANGED <<event, skipWait, aborted>>
    BY <1>6 DEF FirstPart, Exchange, Received
  <2> QED BY <2>1
<1>7. CASE \/ SecondPart \/ Deliver \/ Discard \/ HeaderAcked \/ AckTimeout \/ PollReady
  <2>1. /\ UNCHANGED <<rdy, aborted, skipWait>>
        /\ "TXN_RDY" \in event' <=> "TXN_RDY" \in event
        /\ epc \in {"second", "deliver", "ack", "poll"}
        /\ epc' \in {"deliver", "ack", "poll", "loop"}
    BY <1>7 DEF SecondPart, Received, Deliver, Discard, HeaderAcked, AckTimeout, PollReady,
                pins
  <2> QED BY <2>1
<1> QED BY <1>1, <1>2, <1>3, <1>4, <1>5, <1>6, <1>7 DEF EngineStep

LEMMA PinsFault ==
  ASSUME TypeOK, Pins, EngineFault PROVE Pins'
<1> USE DEF Pins, EngineHolds
<1>1. epc' = "loop" /\ UNCHANGED skipWait
  BY DEF EngineFault, TxnTimeout, SetUpFails, FirstPartFails, SecondPartFails, GiveUp
<1>2. CASE TxnTimeout
  BY <1>1, <1>2 DEF TxnTimeout
<1>3. CASE SetUpFails
  BY <1>1, <1>3 DEF SetUpFails
<1>4. CASE FirstPartFails
  <2>1. /\ epc = "first" /\ UNCHANGED event
        /\ \/ rdy' = "taken" /\ UNCHANGED aborted
           \/ aborted' = TRUE /\ UNCHANGED rdy
    BY <1>4 DEF FirstPartFails, Exchange
  <2> QED BY <1>1, <2>1
<1>5. CASE SecondPartFails
  BY <1>1, <1>5 DEF SecondPartFails
<1> QED BY <1>2, <1>3, <1>4, <1>5 DEF EngineFault

LEMMA PinsSame ==
  ASSUME Pins, UNCHANGED <<rdy, aborted, epc, skipWait>>,
         "TXN_RDY" \in event' <=> "TXN_RDY" \in event
  PROVE  Pins'
BY DEF Pins, EngineHolds

LEMMA PinsStep ==
  ASSUME TypeOK, Pins, [Next]_vars PROVE Pins'
<1>1. CASE UNCHANGED vars
  BY <1>1, PinsSame DEF vars, engine, pins
<1>2. CASE RdyRises
  BY <1>2 DEF RdyRises, engine, Pins, EngineHolds
<1>3. CASE RdyFalls
  BY <1>3 DEF RdyFalls, engine, Pins, EngineHolds
<1>4. CASE NcpHasRoom \/ NcpSends \/ NcpFull
  BY <1>4, PinsSame DEF NcpHasRoom, NcpSends, NcpFull, engine, pins
<1>5. CASE UserStep
  <2>1. ASSUME NEW p \in Threads, Signal(p) PROVE Pins'
    BY <2>1, PinsSame DEF Signal, engine, pins
  <2>2. CASE \E p \in Threads : Call(p) \/ LockCore(p) \/ QueueMessage(p) \/ SendTimeout(p)
    BY <2>2, PinsSame DEF Call, LockCore, QueueMessage, SendTimeout, bus, engine, pins
  <2>3. CASE NetifStep \/ ParserStep
    <3>1. UNCHANGED <<event, rdy, aborted, epc, skipWait>>
      BY <2>3 DEF NetifStep, ParserStep, NetifWake, StackRuns, NetifRead, NetifEmpty,
                  ReadAnswer, Return, bus,
                  engine, pins
    <3> QED BY <3>1, PinsSame
  <2> QED BY <1>5, <2>1, <2>2, <2>3 DEF UserStep, Write
<1>6. CASE UserFault
  <2>1. UNCHANGED <<event, rdy, aborted, epc, skipWait>>
    BY <1>6 DEF UserFault, SendNoMemory, NetifDrops, bus, engine, pins
  <2> QED BY <2>1, PinsSame
<1> QED
  BY <1>1, <1>2, <1>3, <1>4, <1>5, <1>6, PinsEngine, PinsFault
     DEF Next, NcpStep, Quiet

(***************************************************************************)
(* The sleep of the engine.                                                *)
(***************************************************************************)

(* A step of another task that adds nothing to the queue and does not end  *)
(* the signalling of any thread.                                           *)
LEMMA SleepSame ==
  ASSUME NoLostWakeup, epc' = "idle" => epc = "idle",
         UNCHANGED <<txbuf, txq, rdy, aborted>>, event \subseteq event',
         \A q \in Threads : tpc[q] = "signal" => tpc'[q] = "signal"
  PROVE  NoLostWakeup'
BY DEF NoLostWakeup

(* Only the thread that moves changes its program counter.                 *)
LEMMA OthersStay ==
  ASSUME TypeOK, NEW p, NEW pc, Goto(p, pc)
  PROVE  /\ \A q \in Threads : q # p => tpc'[q] = tpc[q]
         /\ p \in Threads => tpc'[p] = pc
BY DEF TypeOK, Goto

LEMMA SleepUser ==
  ASSUME TypeOK, NoLostWakeup, UserStep \/ UserFault PROVE NoLostWakeup'
<1>1. ASSUME NEW p \in Threads, Signal(p) PROVE NoLostWakeup'
  <2>1. /\ "TXN_PENDING" \in event' /\ event \subseteq event'
        /\ UNCHANGED <<txbuf, txq, rdy, aborted, epc>>
    BY <1>1 DEF Signal, queues, engine, pins
  <2> QED BY <2>1 DEF NoLostWakeup
<1>2. ASSUME NEW p \in Threads, QueueMessage(p) PROVE NoLostWakeup'
  <2>1. tpc'[p] = "signal" /\ UNCHANGED <<txbuf, rdy, aborted, event, epc>>
    BY <1>2, OthersStay DEF QueueMessage, engine, pins
  <2> QED BY <2>1 DEF NoLostWakeup
<1>3. ASSUME NEW p \in Threads, tpc[p] # "signal", NEW pc, Goto(p, pc),
             UNCHANGED <<txbuf, txq, rdy, aborted, epc, event>>
      PROVE  NoLostWakeup'
  BY <1>3, OthersStay, SleepSame
<1>4. ASSUME NEW p \in Threads,
             Call(p) \/ LockCore(p) \/ SendTimeout(p) \/ SendNoMemory(p)
      PROVE  NoLostWakeup'
  <2>1. tpc[p] # "signal" /\ UNCHANGED <<txbuf, txq, rdy, aborted, epc, event>>
    BY <1>4 DEF Call, LockCore, SendTimeout, SendNoMemory, bus, queues, engine, pins
  <2>2. \E pc : Goto(p, pc)
    BY <1>4 DEF Call, LockCore, SendTimeout, SendNoMemory, Return
  <2> QED BY <1>3, <2>1, <2>2
<1>5. CASE NetifStep \/ \E t \in NetTypes : NetifDrops(t)
  <2>1. tpc[Netif] # "signal" /\ UNCHANGED <<txbuf, txq, rdy, aborted, epc, event>>
    BY <1>5 DEF NetifStep, NetifWake, StackRuns, NetifRead, NetifEmpty, NetifDrops, bus,
                queues, engine, pins
  <2>2. \E pc : Goto(Netif, pc)
    BY <1>5 DEF NetifStep, NetifWake, StackRuns, NetifRead, NetifEmpty, NetifDrops,
                LinkDone, Return
  <2>3. Netif \in Threads
    BY DEF Threads
  <2> QED BY <1>3, <2>1, <2>2, <2>3
<1>6. CASE ParserStep
  <2>1. tpc[Parser] # "signal" /\ UNCHANGED <<txbuf, txq, rdy, aborted, epc, event>>
    BY <1>6 DEF ParserStep, ReadAnswer, StackRuns, bus, queues, engine, pins
  <2>2. UNCHANGED tpc \/ \E pc : Goto(Parser, pc)
    BY <1>6 DEF ParserStep, ReadAnswer, StackRuns, Return
  <2>3. Parser \in Threads
    BY DEF Threads
  <2> QED BY <1>3, <2>1, <2>2, <2>3, SleepSame
<1>7. CASE UserStep
  BY <1>1, <1>2, <1>4, <1>5, <1>6, <1>7 DEF UserStep, Write
<1>8. CASE UserFault
  BY <1>4, <1>5, <1>8 DEF UserFault
<1> QED BY <1>7, <1>8

LEMMA SleepStep ==
  ASSUME TypeOK, Down, NoLostWakeup, [Next]_vars PROVE NoLostWakeup'
<1>1. CASE UNCHANGED vars
  BY <1>1 DEF vars, queues, engine, pins, users, NoLostWakeup
<1>2. CASE EngineStep \/ EngineFault
  <2>1. CASE NothingToDo
    <3>1. GetTxbuf /\ txbuf' = 0 /\ UNCHANGED rdy /\ rdy = "low"
      BY <2>1 DEF NothingToDo, pins
    <3>2. txq' = <<>>
      BY <3>1, GetTxbufFacts
    <3> QED BY <3>1, <3>2 DEF NoLostWakeup
  <2>2. CASE ~NothingToDo
    <3>1. epc' # "idle"
      BY <1>2, <2>2
         DEF EngineStep, EngineFault, EngineWake, StartTransfer, TxnReady, SetUp, FirstPart,
             SecondPart, Received, Deliver, Discard, HeaderAcked, AckTimeout, PollReady,
             TxnTimeout, SetUpFails, FirstPartFails, SecondPartFails, GiveUp
    <3> QED BY <3>1 DEF NoLostWakeup
  <2> QED BY <2>1, <2>2
<1>3. CASE RdyRises
  <2>1. /\ "TXN_RDY" \in event' /\ event \subseteq event'
        /\ UNCHANGED <<txbuf, txq, epc, tpc>>
    BY <1>3 DEF RdyRises, queues, engine, users
  <2> QED BY <2>1 DEF NoLostWakeup
<1>4. CASE RdyFalls
  <2>1. rdy' = "low" /\ event \subseteq event' /\ UNCHANGED <<txbuf, txq, epc, tpc>>
    BY <1>4 DEF RdyFalls, queues, engine, users
  <2> QED BY <2>1 DEF NoLostWakeup
<1>5. CASE NcpHasRoom \/ NcpSends \/ NcpFull
  <2>1. UNCHANGED <<event, txbuf, txq, rdy, aborted, epc, tpc>>
    BY <1>5 DEF NcpHasRoom, NcpSends, NcpFull, queues, engine, pins, users
  <2> QED BY <2>1 DEF NoLostWakeup
<1> QED BY <1>1, <1>2, <1>3, <1>4, <1>5, SleepUser DEF Next, NcpStep, Quiet

(***************************************************************************)
(* The theorems.                                                           *)
(***************************************************************************)

LEMMA InductiveInvariant == Spec => []IInv
<1>1. IInv /\ [Next]_vars => IInv'
  BY TypeStep, DownStep, PinsStep, SleepStep DEF IInv
<1> QED BY <1>1, InitIInv, PTL DEF Spec

(* Every variable keeps its type: no reachable program counter, event or   *)
(* message is outside those the code has.                                  *)
THEOREM SpiTypeCorrect == Spec => []TypeOK
BY InductiveInvariant, PTL DEF IInv

(* spi_xfer_one clocks the bus only while the NCP waits for it.            *)
THEOREM ClocksOnlyWhenReady == Spec => []ExchangeWhenReady
<1>1. IInv => ExchangeWhenReady
  BY DEF IInv, Pins, EngineHolds, ExchangeWhenReady
<1> QED BY <1>1, InductiveInvariant, PTL

(* The engine never sleeps on a queued message or on a raised RDY.         *)
THEOREM WakeupNeverLost == Spec => []NoLostWakeup
BY InductiveInvariant, PTL DEF IInv

(* The NCP takes a message again at most once per failed transaction.      *)
THEOREM RepeatsBounded == Spec => []RepeatsNeedFaults
<1>1. IInv => RepeatsNeedFaults
  BY DEF IInv, Credit, RepeatsNeedFaults
<1> QED BY <1>1, InductiveInvariant, PTL

(* The NCP takes the messages in order, without a gap.                     *)
THEOREM NoGap == Spec => TakenInOrder
<1>1. IInv /\ [Next]_vars => [accepted' \in {accepted, accepted + 1}]_vars
  <2> SUFFICES ASSUME IInv, Next PROVE accepted' \in {accepted, accepted + 1}
    OBVIOUS
  <2>1. CASE FirstPart \/ FirstPartFails
    <3>1. epc = "first" /\ (Exchange \/ UNCHANGED accepted)
      BY <2>1 DEF FirstPart, FirstPartFails, peer
    <3> QED BY <3>1, ExchangeFacts DEF IInv
  <2>2. CASE EngineStep /\ ~FirstPart
    BY <2>2 DEF EngineStep, EngineWake, StartTransfer, NothingToDo, TxnReady, SetUp,
                SecondPart, Deliver, Discard, HeaderAcked, AckTimeout, PollReady, peer
  <2>3. CASE EngineFault /\ ~FirstPartFails
    BY <2>3 DEF EngineFault, TxnTimeout, SetUpFails, SecondPartFails, peer
  <2>4. CASE NcpStep \/ NcpSends \/ NcpFull
    BY <2>4 DEF NcpStep, RdyRises, RdyFalls, NcpHasRoom, NcpSends, NcpFull, peer
  <2>5. CASE UserStep
    BY <2>5 DEF UserStep, Write, Call, LockCore, QueueMessage, SendTimeout, Signal,
                NetifStep, ParserStep, NetifWake, StackRuns, NetifRead, NetifEmpty,
                  ReadAnswer, Return, bus, peer
  <2>6. CASE UserFault \/ Quiet
    BY <2>6 DEF UserFault, SendNoMemory, NetifDrops, Quiet, bus, vars, peer
  <2> QED BY <2>1, <2>2, <2>3, <2>4, <2>5, <2>6 DEF Next
<1> QED BY <1>1, InductiveInvariant, PTL DEF Spec, TakenInOrder

(***************************************************************************)
(* The receive side: the netif task rests only when it has no link left to *)
(* process.                                                                *)
(***************************************************************************)

Rested == tpc[Netif] = "idle" => netEvent = {}

Attended == TypeOK /\ Rested /\ NoForgottenPacket

(* A step that leaves the receive queues and the netif task alone.         *)
LEMMA AttendedSame ==
  ASSUME Attended, UNCHANGED <<rxq, notified, netEvent>>, tpc'[Netif] = tpc[Netif],
         faults' = 0 => faults = 0
  PROVE  Rested' /\ NoForgottenPacket'
BY DEF Attended, Rested, NoForgottenPacket

(* A thread other than the netif task, or the netif task in a call of the  *)
(* stack, moves.                                                           *)
LEMMA AttendedThread ==
  ASSUME Attended, NEW p \in Threads, NEW pc, Goto(p, pc), pc # "idle" \/ p # Netif,
         UNCHANGED <<rxq, notified, netEvent>>, faults' = 0 => faults = 0
  PROVE  Rested' /\ NoForgottenPacket'
<1>1. CASE p = Netif
  <2>1. tpc'[Netif] # "idle"
    BY <1>1, OthersStay DEF Attended
  <2> QED BY <2>1 DEF Attended, Rested, NoForgottenPacket
<1>2. CASE p # Netif
  <2>1. tpc'[Netif] = tpc[Netif]
    BY <1>2, OthersStay DEF Attended, Threads
  <2> QED BY <2>1, AttendedSame
<1> QED BY <1>1, <1>2

LEMMA AttendedUser ==
  ASSUME Attended, UserStep \/ UserFault PROVE Rested' /\ NoForgottenPacket'
<1>0. {Netif, Parser} \subseteq Threads /\ TypeOK /\ (faults' = faults + 1 => faults' # 0)
  BY Counters DEF Threads, Attended
<1>1. ASSUME NEW p \in Threads,
             \/ Call(p) \/ LockCore(p) \/ QueueMessage(p) \/ SendTimeout(p) \/ Signal(p)
             \/ SendNoMemory(p)
      PROVE  Rested' /\ NoForgottenPacket'
  <2>1. \E pc : Goto(p, pc) /\ (pc # "idle" \/ p # Netif)
    BY <1>1, SpiAssumption
       DEF Call, LockCore, QueueMessage, SendTimeout, Signal, SendNoMemory, Return, Onward
  <2>2. UNCHANGED <<rxq, notified, netEvent>>
    BY <1>1 DEF Call, LockCore, QueueMessage, SendTimeout, Signal, SendNoMemory, bus, queues
  <2>3. faults' = 0 => faults = 0
    BY <1>0, <1>1
       DEF Call, LockCore, QueueMessage, SendTimeout, Signal, SendNoMemory, Failure
  <2> QED BY <2>1, <2>2, <2>3, AttendedThread
<1>2. ASSUME NEW p \in {Netif, Parser}, StackRuns(p) PROVE Rested' /\ NoForgottenPacket'
  <2>1. \E pc : Goto(p, pc) /\ (pc # "idle" \/ p # Netif)
    BY <1>2 DEF StackRuns, Return, Onward
  <2>2. UNCHANGED <<rxq, notified, netEvent, faults>>
    BY <1>2 DEF StackRuns, bus, queues
  <2> QED BY <1>0, <2>1, <2>2, AttendedThread
<1>3. CASE NetifWake
  <2>1. /\ tpc[Netif] = "idle" /\ netEvent' = notified /\ UNCHANGED <<rxq, faults>>
        /\ Goto(Netif, "read")
    BY <1>3 DEF NetifWake, bus, queues
  <2>2. tpc'[Netif] = "read"
    BY <1>0, <2>1, OthersStay
  <2>3. netEvent = {}
    BY <2>1 DEF Attended, Rested
  <2>4. NoForgottenPacket'
    BY <2>1, <2>3 DEF Attended, NoForgottenPacket
  <2> QED BY <2>2, <2>4 DEF Rested
<1>4. ASSUME NEW t \in NetTypes, NetifRead(t) PROVE Rested' /\ NoForgottenPacket'
  <2>1. /\ Goto(Netif, "lock") /\ t \in netEvent /\ UNCHANGED <<notified, netEvent, faults>>
        /\ rxq' = [rxq EXCEPT ![t] = Tail(@)]
    BY <1>4 DEF NetifRead
  <2>2. tpc'[Netif] = "lock"
    BY <1>0, <2>1, OthersStay
  <2>3. \A u \in NetTypes : u # t => rxq'[u] = rxq[u]
    BY <1>0, <2>1 DEF TypeOK, Bound
  <2>4. NoForgottenPacket'
    BY <2>1, <2>3 DEF Attended, NoForgottenPacket
  <2> QED BY <2>2, <2>4 DEF Rested
<1>5. ASSUME NEW t, LinkDone(t) PROVE Rested'
  <2>1. /\ netEvent' = netEvent \ {t}
        /\ Goto(Netif, IF netEvent' = {} THEN "idle" ELSE "read")
    BY <1>5 DEF LinkDone
  <2>2. tpc'[Netif] = IF netEvent' = {} THEN "idle" ELSE "read"
    BY <1>0, <2>1, OthersStay
  <2> QED BY <2>2 DEF Rested
<1>6. ASSUME NEW t \in NetTypes, NetifEmpty(t) PROVE Rested' /\ NoForgottenPacket'
  <2>1. /\ LinkDone(t) /\ netEvent' = netEvent \ {t} /\ rxq[t] = <<>>
        /\ UNCHANGED <<rxq, notified, faults>>
    BY <1>6 DEF NetifEmpty, LinkDone, bus, queues
  <2>2. NoForgottenPacket'
    BY <2>1 DEF Attended, NoForgottenPacket
  <2> QED BY <1>5, <2>1, <2>2
<1>7. ASSUME NEW t \in NetTypes, NetifDrops(t) PROVE Rested' /\ NoForgottenPacket'
  <2>1. LinkDone(t) /\ faults' = faults + 1
    BY <1>7 DEF NetifDrops, Failure
  <2>2. NoForgottenPacket'
    BY <1>0, <2>1 DEF NoForgottenPacket
  <2> QED BY <1>5, <2>1, <2>2
<1>8. CASE ReadAnswer
  <2>1. /\ rxq' = [rxq EXCEPT ![AtType] = Tail(@)]
        /\ UNCHANGED <<notified, netEvent, faults>>
        /\ UNCHANGED tpc \/ \E pc : Goto(Parser, pc)
    BY <1>8 DEF ReadAnswer
  <2>2. \A u \in NetTypes : rxq'[u] = rxq[u]
    BY <1>0, <2>1, SpiAssumption DEF TypeOK, Bound
  <2>3. tpc'[Netif] = tpc[Netif]
    BY <1>0, <2>1, OthersStay, SpiAssumption
  <2> QED BY <2>1, <2>2, <2>3 DEF Attended, Rested, NoForgottenPacket
<1>9. CASE UserStep
  BY <1>1, <1>2, <1>3, <1>4, <1>6, <1>8, <1>9 DEF UserStep, Write, NetifStep, ParserStep
<1>10. CASE UserFault
  BY <1>1, <1>7, <1>10 DEF UserFault
<1> QED BY <1>9, <1>10

LEMMA AttendedStep ==
  ASSUME Attended, [Next]_vars PROVE Attended'
<1>1. TypeOK'
  BY TypeStep DEF Attended
<1>2. CASE UNCHANGED vars
  <2>1. UNCHANGED <<rxq, notified, netEvent, tpc, faults>>
    BY <1>2 DEF vars, queues, users
  <2> QED BY <1>1, <2>1, AttendedSame DEF Attended
<1>3. CASE Deliver
  <2>1. /\ rxbuf.type \in Bound
        /\ rxq' = [rxq EXCEPT ![rxbuf.type] = Append(@, rxbuf)]
        /\ notified' = notified \cup ({rxbuf.type} \cap NetTypes)
        /\ UNCHANGED <<tpc, netEvent, faults>>
    BY <1>3 DEF Deliver
  <2>2. \A u \in NetTypes : u # rxbuf.type => rxq'[u] = rxq[u]
    BY <2>1 DEF Attended, TypeOK, Bound
  <2>3. NoForgottenPacket'
    BY <2>1, <2>2 DEF Attended, NoForgottenPacket
  <2> QED BY <1>1, <2>1, <2>3 DEF Attended, Rested
<1>4. CASE EngineStep /\ ~Deliver
  <2>1. UNCHANGED <<rxq, notified, netEvent, tpc, faults>>
    BY <1>4 DEF EngineStep, EngineWake, StartTransfer, NothingToDo, TxnReady, SetUp, FirstPart,
                SecondPart, Discard, HeaderAcked, AckTimeout, PollReady, queues, users
  <2> QED BY <1>1, <2>1, AttendedSame DEF Attended
<1>5. CASE EngineFault
  <2>1. UNCHANGED <<rxq, notified, netEvent, tpc>> /\ faults' = faults + 1
    BY <1>5 DEF EngineFault, TxnTimeout, SetUpFails, FirstPartFails, SecondPartFails, GiveUp,
                Fault, queues, users
  <2>2. faults' = 0 => faults = 0
    BY <2>1, Counters DEF Attended
  <2> QED BY <1>1, <2>1, <2>2, AttendedSame DEF Attended
<1>6. CASE NcpStep \/ NcpSends \/ NcpFull
  <2>1. UNCHANGED <<rxq, notified, netEvent, tpc, faults>>
    BY <1>6 DEF NcpStep, RdyRises, RdyFalls, NcpHasRoom, NcpSends, NcpFull, queues, users
  <2> QED BY <1>1, <2>1, AttendedSame DEF Attended
<1>7. CASE UserStep \/ UserFault
  BY <1>1, <1>7, AttendedUser DEF Attended
<1> QED BY <1>1, <1>2, <1>3, <1>4, <1>5, <1>6, <1>7 DEF Next, Quiet

(* As long as no allocation fails no packet is left behind in the queue of *)
(* a network interface.                                                    *)
THEOREM PacketsAttended == Spec => []NoForgottenPacket
<1>1. Init => Attended
  <2> SUFFICES ASSUME Init PROVE Attended
    OBVIOUS
  <2>1. TypeOK
    BY InitIInv DEF IInv
  <2>2. \A t \in NetTypes : rxq[t] = <<>>
    BY DEF Init, Bound
  <2> QED BY <2>1, <2>2 DEF Init, Attended, Rested, NoForgottenPacket
<1>2. Attended => NoForgottenPacket
  BY DEF Attended
<1> QED BY <1>1, <1>2, AttendedStep, PTL DEF Spec

(***************************************************************************)
(* The order of what is read. Numbers ascend in every queue, and some      *)
(* number m separates what has left the outbox of the NCP from what has    *)
(* not: the receive queues hold at most m, and less than what is between   *)
(* the bus and its queue.                                                  *)
(***************************************************************************)

Ascends(s) == \A i, j \in 1..Len(s) : i < j => s[i].id < s[j].id
Above(s, n) == \A i \in 1..Len(s) : n < s[i].id
AtMost(s, n) == \A i \in 1..Len(s) : s[i].id <= n
Under(s, n) == \A i \in 1..Len(s) : s[i].id < n

Ordered(t) == Ascends(rxq[t]) /\ Above(rxq[t], lastRead[t])

Passed(t, m) == AtMost(rxq[t], m) /\ lastRead[t] <= m

InHand(t) == rxbuf # NoMsg => Under(rxq[t], rxbuf.id) /\ lastRead[t] < rxbuf.id

Line(m) ==
  /\ m <= given
  /\ Above(outbox, m)
  /\ rxbuf # NoMsg => rxbuf.id <= m
  /\ \A t \in Bound : Passed(t, m) /\ InHand(t)

Up ==
  /\ Ascends(outbox) /\ AtMost(outbox, given)
  /\ \A t \in Bound : Ordered(t)
  /\ \E m \in Nat : Line(m)

LEMMA MsgId == \A m \in Msg : m.id \in Nat /\ m # NoMsg
BY NoMsgFacts, SpiAssumption DEF Msg

LEMMA TailFacts ==
  ASSUME NEW s \in Seq(Msg), s # <<>>, Ascends(s)
  PROVE  /\ Tail(s) \in Seq(Msg) /\ Head(s) \in Msg
         /\ Ascends(Tail(s)) /\ Above(Tail(s), Head(s).id)
         /\ \A n \in Nat : /\ Above(s, n) => Above(Tail(s), n) /\ n < Head(s).id
                           /\ AtMost(s, n) => AtMost(Tail(s), n) /\ Head(s).id <= n
                           /\ Under(s, n) => Under(Tail(s), n) /\ Head(s).id < n
<1>1. /\ Len(s) \in Nat \ {0} /\ Head(s) = s[1] /\ Head(s) \in Msg
      /\ Len(Tail(s)) = Len(s) - 1 /\ Tail(s) \in Seq(Msg)
      /\ \A i \in 1..(Len(s) - 1) : Tail(s)[i] = s[i + 1]
  BY HeadTailProperties, EmptySeq, LenProperties
<1>2. \A i \in 1..Len(Tail(s)) : i + 1 \in 1..Len(s) /\ 1 < i + 1 /\ Tail(s)[i] = s[i + 1]
  BY <1>1
<1>3. 1 \in 1..Len(s)
  BY <1>1
<1>4. Ascends(Tail(s))
  BY <1>1, <1>2 DEF Ascends
<1>5. Above(Tail(s), Head(s).id)
  BY <1>1, <1>2, <1>3 DEF Ascends, Above
<1>6. \A n \in Nat : Above(s, n) => Above(Tail(s), n) /\ n < Head(s).id
  BY <1>1, <1>2, <1>3 DEF Above
<1>7. \A n \in Nat : AtMost(s, n) => AtMost(Tail(s), n) /\ Head(s).id <= n
  BY <1>1, <1>2, <1>3 DEF AtMost
<1>8. \A n \in Nat : Under(s, n) => Under(Tail(s), n) /\ Head(s).id < n
  BY <1>1, <1>2, <1>3 DEF Under
<1> QED BY <1>1, <1>4, <1>5, <1>6, <1>7, <1>8

LEMMA AppendFacts ==
  ASSUME NEW s \in Seq(Msg), NEW m \in Msg
  PROVE  /\ Append(s, m) \in Seq(Msg)
         /\ Ascends(s) /\ Under(s, m.id) => Ascends(Append(s, m))
         /\ \A n \in Nat : /\ Above(s, n) /\ n < m.id => Above(Append(s, m), n)
                           /\ AtMost(s, n) /\ m.id <= n => AtMost(Append(s, m), n)
<1>1. /\ Len(s) \in Nat /\ Append(s, m) \in Seq(Msg) /\ Len(Append(s, m)) = Len(s) + 1
      /\ \A i \in 1..Len(s) : Append(s, m)[i] = s[i]
      /\ Append(s, m)[Len(s) + 1] = m
  BY AppendProperties, LenProperties
<1>2. \A i \in 1..Len(Append(s, m)) :
        \/ i \in 1..Len(s) /\ Append(s, m)[i] = s[i]
        \/ i = Len(s) + 1 /\ Append(s, m)[i] = m
  BY <1>1
<1>3. ASSUME Ascends(s), Under(s, m.id) PROVE Ascends(Append(s, m))
  <2> SUFFICES ASSUME NEW i \in 1..Len(Append(s, m)), NEW j \in 1..Len(Append(s, m)), i < j
               PROVE  Append(s, m)[i].id < Append(s, m)[j].id
    BY DEF Ascends
  <2>1. i \in 1..Len(s) /\ Append(s, m)[i] = s[i]
    BY <1>1, <1>2
  <2>2. CASE j \in 1..Len(s) /\ Append(s, m)[j] = s[j]
    BY <1>3, <2>1, <2>2 DEF Ascends
  <2>3. CASE j = Len(s) + 1 /\ Append(s, m)[j] = m
    BY <1>3, <2>1, <2>3 DEF Under
  <2> QED BY <1>2, <2>2, <2>3
<1>4. \A n \in Nat : Above(s, n) /\ n < m.id => Above(Append(s, m), n)
  BY <1>2 DEF Above
<1>5. \A n \in Nat : AtMost(s, n) /\ m.id <= n => AtMost(Append(s, m), n)
  BY <1>2 DEF AtMost
<1> QED BY <1>1, <1>3, <1>4, <1>5

LEMMA OrderFacts ==
  ASSUME NEW s \in Seq(Msg), NEW m \in Nat, NEW n \in Nat
  PROVE  /\ AtMost(s, m) /\ m <= n => AtMost(s, n)
         /\ AtMost(s, m) /\ m < n => Under(s, n)
<1>1. \A i \in 1..Len(s) : s[i].id \in Nat
  BY MsgId, ElementOfSeq
<1> QED BY <1>1 DEF AtMost, Under

(* Steps that leave the receive side alone, or only forget what is between *)
(* the bus and its queue.                                                  *)
LEMMA UpSame ==
  ASSUME Up, UNCHANGED <<outbox, given, rxq, lastRead>>, rxbuf' \in {rxbuf, NoMsg}
  PROVE  Up'
<1>1. PICK m \in Nat : Line(m)
  BY DEF Up
<1>2. Line(m)'
  BY <1>1 DEF Line, Passed, InHand
<1> QED BY <1>2 DEF Up, Ordered

(* The exchange takes a message out of the outbox, into rxbuf or, if the   *)
(* transaction fails, into nothing.                                        *)
LEMMA UpExchange ==
  ASSUME TypeOK, Up, outbox # <<>>, outbox' = Tail(outbox),
         rxbuf' \in {Head(outbox), NoMsg}, UNCHANGED <<given, rxq, lastRead>>
  PROVE  Up'
<1>1. PICK m \in Nat : Line(m)
  BY DEF Up
<1> DEFINE h == Head(outbox)
<1>2. /\ h \in Msg /\ Ascends(Tail(outbox)) /\ Above(Tail(outbox), h.id)
      /\ h.id <= given /\ AtMost(Tail(outbox), given) /\ m < h.id
  <2>1. outbox \in Seq(Msg) /\ given \in Nat
    BY SpiAssumption DEF TypeOK
  <2> QED BY <1>1, <2>1, TailFacts DEF Up, Line
<1>3. h.id \in Nat /\ h # NoMsg
  BY <1>2, MsgId
<1> PICK k \in Nat : k = h.id
  BY <1>3
<1>4. ASSUME NEW t \in Bound PROVE Passed(t, k)' /\ InHand(t)'
  <2>1. rxq[t] \in Seq(Msg) /\ lastRead[t] \in Nat /\ AtMost(rxq[t], m) /\ lastRead[t] <= m
    BY <1>1, <1>4 DEF TypeOK, Line, Passed
  <2>2. AtMost(rxq[t], k) /\ Under(rxq[t], k) /\ lastRead[t] <= k /\ lastRead[t] < k
    BY <1>2, <2>1, OrderFacts
  <2> QED BY <1>3, <2>2 DEF Passed, InHand
<1>5. Line(k)'
  BY <1>2, <1>3, <1>4 DEF Line
<1>6. Ascends(outbox)' /\ AtMost(outbox, given)' /\ \A t \in Bound : Ordered(t)'
  BY <1>2 DEF Up, Ordered
<1> QED BY <1>5, <1>6 DEF Up

LEMMA UpDeliver ==
  ASSUME TypeOK, Up, Deliver PROVE Up'
<1>1. PICK m \in Nat : Line(m)
  BY DEF Up
<1> PICK u \in Bound : u = rxbuf.type
  BY DEF Deliver
<1>2. /\ rxq' = [rxq EXCEPT ![u] = Append(@, rxbuf)] /\ rxbuf' = NoMsg
      /\ UNCHANGED <<outbox, given, lastRead>>
  BY DEF Deliver, store
<1>3. rxbuf \in Msg /\ rxbuf # NoMsg /\ rxbuf.id \in Nat
  BY <1>2, NoMsgFacts, MsgId DEF TypeOK, Types
<1>4. rxq'[u] = Append(rxq[u], rxbuf) /\ \A t \in Bound : t # u => rxq'[t] = rxq[t]
  BY <1>2 DEF TypeOK
<1>5. Ordered(u)' /\ Passed(u, m)'
  <2>1. rxq[u] \in Seq(Msg) /\ lastRead[u] \in Nat
    BY <1>2 DEF TypeOK
  <2>2. /\ Ascends(rxq[u]) /\ Above(rxq[u], lastRead[u]) /\ AtMost(rxq[u], m)
        /\ lastRead[u] <= m /\ Under(rxq[u], rxbuf.id) /\ lastRead[u] < rxbuf.id
        /\ rxbuf.id <= m
    BY <1>1, <1>2, <1>3 DEF Up, Ordered, Line, Passed, InHand
  <2>3. /\ Ascends(Append(rxq[u], rxbuf)) /\ Above(Append(rxq[u], rxbuf), lastRead[u])
        /\ AtMost(Append(rxq[u], rxbuf), m)
    BY <1>3, <2>1, <2>2, AppendFacts
  <2> QED BY <1>2, <1>4, <2>2, <2>3 DEF Ordered, Passed
<1>6. ASSUME NEW t \in Bound, t # u PROVE Ordered(t)' /\ Passed(t, m)'
  BY <1>1, <1>2, <1>4, <1>6 DEF Up, Ordered, Line, Passed
<1>7. Line(m)'
  BY <1>1, <1>2, <1>5, <1>6 DEF Line, InHand
<1> QED BY <1>2, <1>5, <1>6, <1>7 DEF Up

(* A reader takes the head of its queue. *)
LEMMA UpRead ==
  ASSUME TypeOK, Up, NEW u \in Bound, rxq[u] # <<>>,
         rxq' = [rxq EXCEPT ![u] = Tail(@)],
         lastRead' = [lastRead EXCEPT ![u] = Head(rxq[u]).id],
         UNCHANGED <<outbox, given, rxbuf>>
  PROVE  Up'
<1>1. PICK m \in Nat : Line(m)
  BY DEF Up
<1>2. /\ rxq'[u] = Tail(rxq[u]) /\ lastRead'[u] = Head(rxq[u]).id
      /\ \A t \in Bound : t # u => rxq'[t] = rxq[t] /\ lastRead'[t] = lastRead[t]
  BY DEF TypeOK
<1>3. rxq[u] \in Seq(Msg) /\ Ascends(rxq[u])
  BY DEF TypeOK, Up, Ordered
<1>4. Ordered(u)'
  BY <1>2, <1>3, TailFacts DEF Ordered
<1>5. Passed(u, m)'
  <2>1. AtMost(rxq[u], m)
    BY <1>1 DEF Line, Passed
  <2> QED BY <1>2, <1>3, <2>1, TailFacts DEF Passed
<1>6. InHand(u)'
  <2>1. CASE rxbuf = NoMsg
    BY <2>1 DEF InHand
  <2>2. CASE rxbuf # NoMsg
    <3>1. rxbuf.id \in Nat /\ Under(rxq[u], rxbuf.id)
      BY <1>1, <2>2, MsgId DEF TypeOK, Line, InHand
    <3> QED BY <1>2, <1>3, <3>1, TailFacts DEF InHand
  <2> QED BY <2>1, <2>2
<1>7. ASSUME NEW t \in Bound, t # u PROVE Ordered(t)' /\ Passed(t, m)' /\ InHand(t)'
  BY <1>1, <1>2, <1>7 DEF Up, Ordered, Line, Passed, InHand
<1>8. Line(m)'
  BY <1>1, <1>5, <1>6, <1>7 DEF Line
<1> QED BY <1>4, <1>7, <1>8 DEF Up

LEMMA UpSends ==
  ASSUME TypeOK, Up, NcpSends PROVE Up'
<1>1. PICK m \in Nat : Line(m)
  BY DEF Up
<1>2. PICK t \in Types : outbox' = Append(outbox, [type |-> t, id |-> given + 1])
  BY DEF NcpSends
<1> DEFINE n == [type |-> t, id |-> given + 1]
<1>3. /\ given \in Nat /\ given' = given + 1 /\ given + 1 \in 1..MaxUp
      /\ UNCHANGED <<rxq, lastRead, rxbuf>>
  BY SpiAssumption DEF TypeOK, NcpSends, queues, engine, users
<1>4. n \in Msg /\ n.id = given + 1
  BY <1>3 DEF Msg
<1>5. outbox \in Seq(Msg) /\ Ascends(outbox) /\ AtMost(outbox, given) /\ Above(outbox, m)
  BY <1>1 DEF TypeOK, Up, Line
<1>6. Under(outbox, given + 1) /\ AtMost(outbox, given + 1)
  <2>1. given + 1 \in Nat /\ given <= given + 1 /\ given < given + 1
    BY <1>3
  <2> QED BY <1>3, <1>5, <2>1, OrderFacts
<1>7. m <= given /\ m < given + 1 /\ m <= given + 1
  BY <1>1, <1>3 DEF Line
<1>8. Ascends(Append(outbox, n)) /\ AtMost(Append(outbox, n), given + 1)
      /\ Above(Append(outbox, n), m)
  <2>1. given + 1 \in Nat /\ n.id <= given + 1
    BY <1>3, <1>4
  <2> QED BY <1>4, <1>5, <1>6, <1>7, <2>1, AppendFacts
<1>9. Line(m)'
  BY <1>1, <1>2, <1>3, <1>7, <1>8 DEF Line, Passed, InHand
<1> QED BY <1>2, <1>3, <1>8, <1>9 DEF Up, Ordered

LEMMA UpStep ==
  ASSUME TypeOK, Up, [Next]_vars PROVE Up'
<1> DEFINE still == <<outbox, given, rxq, lastRead>>
<1>1. CASE FirstPart \/ FirstPartFails
  <2>1. UNCHANGED <<given, rxq, lastRead>>
    BY <1>1 DEF FirstPart, FirstPartFails, queues, users
  <2>2. CASE UNCHANGED outbox
    <3>1. rxbuf' \in {rxbuf, NoMsg}
      <4>1. CASE FirstPart
        <5>1. outbox = <<>>
          <6>1. outbox' = IF outbox = <<>> THEN outbox ELSE Tail(outbox)
            BY <4>1 DEF FirstPart, Exchange
          <6>2. outbox # <<>> => Len(Tail(outbox)) = Len(outbox) - 1 /\ Len(outbox) \in Nat
            BY HeadTailProperties, LenProperties DEF TypeOK
          <6> QED BY <2>2, <6>1, <6>2
        <5> QED BY <4>1, <5>1 DEF FirstPart
      <4>2. CASE FirstPartFails
        BY <4>2 DEF FirstPartFails, GiveUp
      <4> QED BY <1>1, <4>1, <4>2
    <3> QED BY <2>1, <2>2, <3>1, UpSame
  <2>3. CASE ~UNCHANGED outbox
    <3>1. outbox # <<>> /\ outbox' = Tail(outbox)
      BY <1>1, <2>3 DEF FirstPart, FirstPartFails, Exchange
    <3>2. rxbuf' \in {Head(outbox), NoMsg}
      BY <1>1, <3>1 DEF FirstPart, FirstPartFails, GiveUp
    <3> QED BY <2>1, <3>1, <3>2, UpExchange
  <2> QED BY <2>2, <2>3
<1>2. CASE EngineStep /\ ~FirstPart /\ ~Deliver
  <2>1. UNCHANGED still /\ rxbuf' \in {rxbuf, NoMsg}
    BY <1>2 DEF EngineStep, EngineWake, StartTransfer, NothingToDo, TxnReady, SetUp,
                SecondPart, Discard, HeaderAcked, AckTimeout, PollReady, queues, store, users
  <2> QED BY <2>1, UpSame
<1>3. CASE EngineFault /\ ~FirstPartFails
  <2>1. UNCHANGED still /\ rxbuf' \in {rxbuf, NoMsg}
    BY <1>3 DEF EngineFault, TxnTimeout, SetUpFails, SecondPartFails, GiveUp, queues, store,
                users
  <2> QED BY <2>1, UpSame
<1>4. CASE NcpStep \/ NcpFull
  <2>1. UNCHANGED still /\ rxbuf' \in {rxbuf, NoMsg}
    BY <1>4 DEF NcpStep, RdyRises, RdyFalls, NcpHasRoom, NcpFull, queues, engine, store, users
  <2> QED BY <2>1, UpSame
<1>5. ASSUME NEW t \in NetTypes, NetifRead(t) \/ NetifDrops(t) PROVE Up'
  <2>1. /\ t \in Bound /\ rxq[t] # <<>> /\ rxq' = [rxq EXCEPT ![t] = Tail(@)]
        /\ lastRead' = [lastRead EXCEPT ![t] = Head(rxq[t]).id]
        /\ UNCHANGED <<outbox, given, rxbuf>>
    BY <1>5 DEF NetifRead, NetifDrops, Bound, engine, store
  <2> QED BY <2>1, UpRead
<1>6. CASE ReadAnswer
  <2>1. /\ AtType \in Bound /\ rxq[AtType] # <<>> /\ rxq' = [rxq EXCEPT ![AtType] = Tail(@)]
        /\ lastRead' = [lastRead EXCEPT ![AtType] = Head(rxq[AtType]).id]
        /\ UNCHANGED <<outbox, given, rxbuf>>
    BY <1>6 DEF ReadAnswer, Bound, engine, store
  <2> QED BY <2>1, UpRead
<1>7. CASE UserStep \/ UserFault
  <2>1. CASE \E t \in NetTypes : NetifRead(t) \/ NetifDrops(t)
    BY <1>5, <2>1
  <2>2. CASE ~(\E t \in NetTypes : NetifRead(t) \/ NetifDrops(t)) /\ ~ReadAnswer
    <3>1. UNCHANGED still /\ rxbuf' \in {rxbuf, NoMsg}
      BY <1>7, <2>2
         DEF UserStep, UserFault, Write, Call, LockCore, QueueMessage, SendTimeout, Signal,
             SendNoMemory, NetifStep, ParserStep, NetifWake, StackRuns, NetifEmpty, bus,
             queues, engine, store
    <3> QED BY <3>1, UpSame
  <2> QED BY <1>6, <2>1, <2>2
<1>8. CASE UNCHANGED vars
  <2>1. UNCHANGED still /\ rxbuf' \in {rxbuf, NoMsg}
    BY <1>8 DEF vars, queues, engine, store, users
  <2> QED BY <2>1, UpSame
<1> QED
  BY <1>1, <1>2, <1>3, <1>4, <1>7, <1>8, UpDeliver, UpSends
     DEF Next, EngineStep, EngineFault, Quiet

(* What is read of a traffic type is read once and in the order the NCP    *)
(* sent it, whatever fails, is dropped or has to wait.                     *)
THEOREM ReadsInOrder == Spec => []ReadOnceInOrder
<1>1. Init => Up
  <2> SUFFICES ASSUME Init PROVE Up
    OBVIOUS
  <2>1. given = 0 /\ rxbuf = NoMsg /\ Len(outbox) = 0
    BY EmptySeq DEF Init
  <2>2. \A t \in Bound : Len(rxq[t]) = 0 /\ lastRead[t] = 0
    BY EmptySeq DEF Init
  <2>3. Line(0)
    BY <2>1, <2>2 DEF Line, Passed, InHand, Above, AtMost
  <2> QED BY <2>1, <2>2, <2>3 DEF Up, Ordered, Ascends, Above, AtMost
<1>2. TypeOK /\ Up => ReadOnceInOrder
  <2> SUFFICES ASSUME TypeOK, Up, NEW t \in Bound, NEW i \in 1..Len(rxq[t])
               PROVE  /\ rxq[t][i].id > lastRead[t]
                      /\ \A j \in 1..(i - 1) : rxq[t][j].id < rxq[t][i].id
    BY DEF ReadOnceInOrder
  <2>1. Len(rxq[t]) \in Nat /\ rxq[t][i].id \in Nat /\ lastRead[t] \in Nat
    BY LenProperties, ElementOfSeq, MsgId DEF TypeOK
  <2>2. lastRead[t] < rxq[t][i].id
    BY DEF Up, Ordered, Above
  <2>3. \A j \in 1..(i - 1) : j \in 1..Len(rxq[t]) /\ j < i
    BY <2>1
  <2> QED BY <2>1, <2>2, <2>3 DEF Up, Ordered, Ascends
<1> QED BY <1>1, <1>2, UpStep, SpiTypeCorrect, PTL DEF Spec

(***************************************************************************)
(* Nothing keeps the next message from the NCP for ever.                   *)
(***************************************************************************)

(* The NCP is selected until the exchange, and after it the engine waits   *)
(* for a fall of RDY that has come or is due.                              *)
Handshake ==
  /\ epc \in {"wait", "setup", "first"} => selected
  /\ epc \in {"second", "deliver", "ack", "poll"} => rdy = "taken" \/ "HDR_ACKED" \in event

LEMMA HandshakeStep ==
  ASSUME Handshake, [Next]_vars PROVE Handshake'
<1>1. CASE UNCHANGED <<epc, selected, rdy>> /\ event \subseteq event'
  BY <1>1 DEF Handshake
<1>2. CASE EngineStep
  <2>1. CASE EngineWake \/ NothingToDo
    BY <2>1 DEF EngineWake, NothingToDo, Handshake
  <2>2. CASE StartTransfer \/ TxnReady \/ SetUp
    BY <2>2 DEF StartTransfer, TxnReady, SetUp, Handshake, pins
  <2>3. CASE FirstPart
    BY <2>3 DEF FirstPart, Exchange, Received, Handshake
  <2>4. CASE SecondPart \/ Deliver \/ Discard
    BY <2>4 DEF SecondPart, Received, Deliver, Discard, Handshake, pins
  <2>5. CASE HeaderAcked \/ AckTimeout \/ PollReady
    BY <2>5 DEF HeaderAcked, AckTimeout, PollReady, Handshake, pins
  <2> QED BY <1>2, <2>1, <2>2, <2>3, <2>4, <2>5 DEF EngineStep
<1>3. CASE EngineFault
  <2>1. epc' = "loop"
    BY <1>3 DEF EngineFault, TxnTimeout, SetUpFails, FirstPartFails, SecondPartFails, GiveUp
  <2> QED BY <2>1 DEF Handshake
<1>4. CASE RdyRises \/ RdyFalls
  <2>1. UNCHANGED <<epc, selected>> /\ event \subseteq event'
    BY <1>4 DEF RdyRises, RdyFalls, engine
  <2>2. rdy = "taken" => rdy' = "taken" \/ "HDR_ACKED" \in event'
    BY <1>4 DEF RdyRises, RdyFalls
  <2> QED BY <2>1, <2>2 DEF Handshake
<1>5. CASE NcpHasRoom \/ NcpSends \/ NcpFull \/ UNCHANGED vars
  BY <1>1, <1>5 DEF NcpHasRoom, NcpSends, NcpFull, engine, pins, vars
<1>6. CASE UserStep \/ UserFault
  <2>1. UNCHANGED <<engine, pins>> /\ event \subseteq event'
    BY <1>6 DEF UserStep, UserFault, Write, Call, LockCore, QueueMessage, SendTimeout, Signal,
       SendNoMemory, NetifStep, ParserStep, NetifWake, StackRuns, NetifRead, NetifEmpty,
       NetifDrops, ReadAnswer, bus
  <2> QED BY <1>1, <2>1 DEF engine, pins
<1> QED BY <1>2, <1>3, <1>4, <1>5, <1>6 DEF Next, NcpStep, Quiet

(* Reading a receive queue leaves room in it. *)
LEMMA RoomStays ==
  ASSUME TypeOK, HasRoom, UNCHANGED rxbuf,
         \/ UNCHANGED rxq
         \/ \E t \in Bound : rxq[t] # <<>> /\ rxq' = [rxq EXCEPT ![t] = Tail(@)]
  PROVE  HasRoom'
<1> SUFFICES ASSUME rxbuf.type \in Bound
             PROVE  Len(rxq'[rxbuf.type]) < RxqLen[rxbuf.type]
  BY DEF HasRoom
<1>1. Len(rxq[rxbuf.type]) < RxqLen[rxbuf.type]
  BY DEF HasRoom
<1>2. RxqLen[rxbuf.type] \in Nat
  BY SpiAssumption
<1>3. CASE UNCHANGED rxq
  BY <1>1, <1>3
<1>4. ASSUME NEW t \in Bound, rxq[t] # <<>>, rxq' = [rxq EXCEPT ![t] = Tail(@)]
      PROVE  Len(rxq'[rxbuf.type]) < RxqLen[rxbuf.type]
  <2>1. Len(Tail(rxq[t])) = Len(rxq[t]) - 1 /\ Len(rxq[t]) \in Nat
    BY <1>4, HeadTailProperties, LenProperties DEF TypeOK
  <2>2. CASE t = rxbuf.type
    <3>1. rxq'[t] = Tail(rxq[t])
      BY <1>4 DEF TypeOK
    <3> QED BY <1>1, <1>2, <2>1, <2>2, <3>1
  <2>3. CASE t # rxbuf.type
    BY <1>1, <1>4, <2>3 DEF TypeOK
  <2> QED BY <2>2, <2>3
<1> QED BY <1>3, <1>4

LEMMA QueuedGrows ==
  ASSUME TypeOK, [Next]_vars PROVE queued' \in Nat /\ queued' >= queued
<1>1. queued' \in {queued, queued + 1}
  BY DEF Next, Quiet, EngineStep, EngineWake, StartTransfer, NothingToDo, TxnReady, SetUp,
     FirstPart, SecondPart, Deliver, Discard, HeaderAcked, AckTimeout, PollReady,
     EngineFault, TxnTimeout, SetUpFails, FirstPartFails, SecondPartFails,
     NcpStep, RdyRises, RdyFalls, NcpHasRoom, NcpSends, NcpFull, UserStep, UserFault, Write,
     Call, LockCore, QueueMessage, SendTimeout, Signal, SendNoMemory, NetifStep, ParserStep,
     NetifWake, StackRuns, NetifRead, NetifEmpty, NetifDrops, ReadAnswer, users, vars
<1> QED BY <1>1 DEF TypeOK

(* Without the engine, and unless something fails, nothing of the transfer *)
(* changes, and what the engine may wait for stays.                        *)
LEMMA OthersLeave ==
  ASSUME TypeOK, [Next]_vars, ~EngineStep, faults' = faults
  PROVE  /\ UNCHANGED <<epc, txbuf, rxStall, rxRestore, rxbuf, selected, accepted>>
         /\ queued' >= queued /\ event \subseteq event'
         /\ HasRoom => HasRoom'
<1>1. UNCHANGED <<epc, txbuf, rxStall, rxRestore, rxbuf, selected, accepted>>
      /\ event \subseteq event'
  <2>1. ~EngineFault
    <3>1. EngineFault => faults' = faults + 1
      BY DEF EngineFault, TxnTimeout, SetUpFails, FirstPartFails, SecondPartFails, GiveUp, Fault
    <3>2. faults + 1 # faults
      BY Counters
    <3> QED BY <3>1, <3>2
  <2>2. CASE NcpStep \/ NcpSends \/ NcpFull \/ UNCHANGED vars
    BY <2>2 DEF NcpStep, RdyRises, RdyFalls, NcpHasRoom, NcpSends, NcpFull, engine, pins, peer,
       vars
  <2>3. CASE UserStep \/ UserFault
    <3>1. UNCHANGED <<engine, pins, peer>> /\ event \subseteq event'
      BY <2>3 DEF UserStep, UserFault, Write, Call, LockCore, QueueMessage, SendTimeout, Signal,
         SendNoMemory, NetifStep, ParserStep, NetifWake, StackRuns, NetifRead, NetifEmpty,
         NetifDrops, ReadAnswer, bus
    <3> QED BY <3>1 DEF engine, pins, peer
  <2> QED BY <2>1, <2>2, <2>3 DEF Next, Quiet
<1>2. queued' >= queued
  BY QueuedGrows
<1>3. \/ UNCHANGED rxq
      \/ \E t \in Bound : rxq[t] # <<>> /\ rxq' = [rxq EXCEPT ![t] = Tail(@)]
  <2>1. CASE \E t \in NetTypes : NetifRead(t) \/ NetifDrops(t)
    BY <2>1 DEF NetifRead, NetifDrops, Bound
  <2>2. CASE ReadAnswer
    BY <2>2 DEF ReadAnswer, Bound
  <2>3. CASE ~ReadAnswer /\ ~\E t \in NetTypes : NetifRead(t) \/ NetifDrops(t)
    BY <2>3 DEF Next, Quiet, EngineFault, TxnTimeout, SetUpFails, FirstPartFails,
       SecondPartFails, NcpStep, RdyRises, RdyFalls, NcpHasRoom, NcpSends, NcpFull, UserStep,
       UserFault, Write, Call, LockCore, QueueMessage, SendTimeout, Signal, SendNoMemory,
       NetifStep, ParserStep, NetifWake, StackRuns, NetifEmpty, queues, bus, vars
  <2> QED BY <2>1, <2>2, <2>3
<1> QED BY <1>1, <1>2, <1>3, RoomStays

(* What the engine waits for it gets by a step of the others, and keeps;   *)
(* RDY stays due to rise, or to fall, until it does.                       *)
LEMMA OthersWake ==
  ASSUME TypeOK, Pins, [Next]_vars, ~EngineStep, faults' = faults
  PROVE  /\ ~EngineWaits => ~EngineWaits'
         /\ epc = "wait" /\ RdyIsDue => RdyIsDue' \/ ~EngineWaits'
         /\ epc = "idle" /\ SignalStep => ~EngineWaits'
         /\ epc = "wait" /\ RdyRises => ~EngineWaits'
         /\ epc = "wait" /\ RdyFalls => RdyIsDue' \/ ~selected
         /\ RdyFalls => "HDR_ACKED" \in event'
<1>1. /\ UNCHANGED <<epc, rxbuf, selected>> /\ event \subseteq event' /\ (HasRoom => HasRoom')
  BY OthersLeave
<1>2. ~EngineWaits => ~EngineWaits'
  BY <1>1 DEF EngineWaits, EngineStuck
<1>3. epc = "idle" /\ SignalStep => ~EngineWaits'
  <2> SUFFICES ASSUME epc = "idle", SignalStep PROVE ~EngineWaits'
    OBVIOUS
  <2>1. "TXN_PENDING" \in event'
    BY DEF SignalStep, Signal
  <2> QED BY <1>1, <2>1 DEF EngineWaits, EngineStuck
<1>4. epc = "wait" /\ RdyRises => ~EngineWaits'
  <2> SUFFICES ASSUME epc = "wait", RdyRises PROVE ~EngineWaits'
    OBVIOUS
  <2>1. "TXN_RDY" \in event'
    BY DEF RdyRises
  <2> QED BY <1>1, <2>1 DEF EngineWaits, EngineStuck
<1>5. RdyFalls => rdy' = "low" /\ "HDR_ACKED" \in event'
  BY DEF RdyFalls
<1>6. CASE RdyRises
  <2>1. ~RdyFalls
    BY <1>6 DEF RdyRises, RdyFalls
  <2> QED BY <1>2, <1>3, <1>4, <1>6, <2>1
<1>7. CASE ~RdyRises
  <2>1. rdy = "low" => rdy' = "low"
    <3>1. CASE EngineFault
      <4>1. faults' = faults + 1
        BY <3>1 DEF EngineFault, TxnTimeout, SetUpFails, FirstPartFails, SecondPartFails,
           GiveUp, Fault
      <4> QED BY <4>1, Counters
    <3>2. CASE NcpStep \/ NcpSends \/ NcpFull \/ UNCHANGED vars
      BY <1>7, <3>2 DEF NcpStep, RdyFalls, NcpHasRoom, NcpSends, NcpFull, pins, vars
    <3>3. CASE UserStep \/ UserFault
      <4>1. UNCHANGED pins
        BY <3>3 DEF UserStep, UserFault, Write, Call, LockCore, QueueMessage, SendTimeout,
           Signal, SendNoMemory, NetifStep, ParserStep, NetifWake, StackRuns, NetifRead,
           NetifEmpty, NetifDrops, ReadAnswer, bus
      <4> QED BY <4>1 DEF pins
    <3> QED BY <3>1, <3>2, <3>3 DEF Next, Quiet
  <2> QED BY <1>1, <1>2, <1>3, <1>5, <1>7, <2>1 DEF RdyIsDue
<1> QED BY <1>6, <1>7

(* A sleeping engine with a message to send has been told, or a thread is  *)
(* about to tell it; one that waits for RDY waits for a rise that is due,  *)
(* perhaps after a fall.                                                   *)
LEMMA WaitsEnd ==
  ASSUME IInv, Handshake, accepted < queued
  PROVE  /\ epc = "idle" /\ EngineWaits => Signals
         /\ epc = "wait" /\ EngineWaits => RdyIsDue \/ RdyIsOver
         /\ epc = "wait" => selected
         /\ epc \in {"ack", "poll"} => "HDR_ACKED" \in event \/ RdyIsOver
         /\ epc = "deliver" /\ EngineWaits => ~HasRoom
         /\ epc \in {"loop", "setup", "first", "second", "ack", "poll"} => ~EngineWaits
<1>1. epc = "idle" => txbuf = 0 /\ txq # <<>>
  <2> SUFFICES ASSUME epc = "idle" PROVE txbuf = 0 /\ txq # <<>>
    OBVIOUS
  <2>1. txbuf = 0 /\ accepted = queued - Len(txq)
    BY DEF IInv, NoLostWakeup, Down
  <2>2. Len(txq) # 0
    BY <2>1 DEF IInv, TypeOK
  <2> QED BY <2>1, <2>2, EmptySeq
<1>2. epc = "idle" /\ EngineWaits => Signals
  BY <1>1 DEF IInv, NoLostWakeup, EngineWaits, Signals, EngineStuck
<1>3. epc = "wait" => selected
  BY DEF Handshake
<1>4. epc = "wait" /\ EngineWaits => RdyIsDue \/ RdyIsOver
  <2> SUFFICES ASSUME epc = "wait", "TXN_RDY" \notin event PROVE RdyIsDue \/ RdyIsOver
    BY DEF EngineWaits, EngineStuck
  <2>1. ~EngineHolds
    BY DEF IInv, Pins, EngineHolds
  <2>2. ~(rdy = "high" /\ ~aborted)
    BY <2>1 DEF IInv, Pins
  <2> QED BY <1>3, <2>2 DEF IInv, TypeOK, RdyIsDue, RdyIsOver
<1>5. epc \in {"ack", "poll"} => "HDR_ACKED" \in event \/ RdyIsOver
  BY DEF Handshake, RdyIsOver
<1> QED BY <1>2, <1>3, <1>4, <1>5 DEF EngineWaits, EngineStuck

(* How a transfer goes on while a message waits to be sent.                *)
LEMMA TransferMoves ==
  ASSUME IInv, EngineStep, accepted < queued
  PROVE  /\ queued' = queued
         /\ epc # "first" => accepted' = accepted /\ UNCHANGED rxStall
         /\ epc = "idle" => epc' = "loop"
         /\ epc = "loop" => epc' \in {"wait", "setup"}
         /\ epc = "wait" => epc' = "setup"
         /\ epc = "setup" => epc' = "first"
         /\ epc = "first" => epc' \in {"second", "deliver", "ack"}
         /\ epc = "second" => epc' \in {"deliver", "ack"}
         /\ epc = "deliver" => epc' = "ack"
         /\ epc = "ack" => epc' = "loop" \/ (epc' = "poll" /\ "HDR_ACKED" \notin event)
         /\ epc = "poll" => epc' = "loop" \/ (epc' = "ack" /\ event' = event)
<1>1. CASE StartTransfer \/ NothingToDo
  <2>1. GetTxbuf
    BY <1>1 DEF StartTransfer, NothingToDo
  <2>2. txbuf' # 0
    <3> SUFFICES ASSUME txbuf' = 0 PROVE FALSE
      OBVIOUS
    <3>1. txq' = <<>> /\ accepted = queued - Len(txq')
      BY <2>1, GetTxbufFacts DEF IInv
    <3>2. Len(txq') = 0
      BY <3>1, EmptySeq
    <3> QED BY <3>1, <3>2 DEF IInv, TypeOK
  <2> QED BY <1>1, <2>2 DEF StartTransfer, NothingToDo, users, peer
<1>2. CASE EngineWake \/ TxnReady \/ SetUp
  BY <1>2 DEF EngineWake, TxnReady, SetUp, users, peer
<1>3. CASE FirstPart
  BY <1>3 DEF FirstPart, Received, users
<1>4. CASE SecondPart
  BY <1>4 DEF SecondPart, Received, users, peer
<1>5. CASE Deliver \/ Discard
  BY <1>5 DEF Deliver, Discard, users, peer
<1>6. CASE HeaderAcked \/ AckTimeout \/ PollReady
  BY <1>6 DEF HeaderAcked, AckTimeout, PollReady, users, peer
<1> QED BY <1>1, <1>2, <1>3, <1>4, <1>5, <1>6 DEF EngineStep

(* Nothing is in hand, or will be once the second part of the transfer is  *)
(* over; and: the next message is on its way to the exchange.              *)
Freed ==
  /\ ~rxStall
  /\ \/ epc \in {"loop", "idle"} /\ txbuf = 0
     \/ epc \in {"second", "deliver", "ack", "poll"} /\ txbuf = 0
     \/ epc = "second" /\ ~rxRestore

Loaded(n) == ~rxStall /\ epc \in {"wait", "setup", "first"} /\ txbuf = n + 1

(* A message taken from the queue is the next one to be sent.              *)
LEMMA NextInHand ==
  ASSUME TypeOK, Down, GetTxbuf, txbuf = 0, txbuf' # 0
  PROVE  txbuf' = accepted + 1
<1>1. accepted \in Nat /\ txbuf' \in Nat
  BY GetTxbufFacts DEF TypeOK
<1>2. accepted = txbuf' - 1
  BY GetTxbufFacts
<1>3. \A i, j \in Nat : i = j - 1 => j = i + 1
  OBVIOUS
<1> QED BY <1>1, <1>2, <1>3

(* An exchange with an NCP that has room ends a stall; the next one is rid *)
(* of a message taken before; and then the next message is taken.          *)
LEMMA StageMoves ==
  ASSUME IInv, EngineStep, ~full, NEW n \in Nat, accepted = n, n < queued
  PROVE  /\ ~rxStall => ~rxStall'
         /\ epc = "first" => ~rxStall'
         /\ epc = "first" /\ ~rxStall => accepted' # n \/ Freed'
         /\ Freed => Freed' \/ Loaded(n)'
         /\ Loaded(n) => Loaded(n)' \/ accepted' # n
         /\ Loaded(n) /\ epc = "first" => accepted' # n
<1> USE DEF Freed, Loaded
<1>1. CASE StartTransfer
  <2>1. GetTxbuf /\ epc = "loop" /\ epc' \in {"wait", "setup"} /\ UNCHANGED rxStall
    BY <1>1 DEF StartTransfer
  <2>2. txbuf' # 0
    <3> SUFFICES ASSUME txbuf' = 0 PROVE FALSE
      OBVIOUS
    <3>1. txq' = <<>> /\ accepted = queued - Len(txq')
      BY <2>1, GetTxbufFacts DEF IInv
    <3>2. Len(txq') = 0
      BY <3>1, EmptySeq
    <3> QED BY <3>1, <3>2 DEF IInv, TypeOK
  <2>3. txbuf = 0 => txbuf' = n + 1
    BY <2>1, <2>2, NextInHand DEF IInv
  <2> QED BY <2>1, <2>3
<1>2. CASE NothingToDo
  BY <1>2 DEF NothingToDo
<1>3. CASE EngineWake \/ TxnReady \/ SetUp
  BY <1>3 DEF EngineWake, TxnReady, SetUp
<1>4. CASE FirstPart
  <2>1. epc = "first" /\ ~rxStall' /\ rxRestore' = rxStall
    BY <1>4 DEF FirstPart, IInv, TypeOK
  <2>2. CASE ~rxStall
    <3>1. accepted' = IF txbuf # 0 THEN txbuf ELSE accepted
      BY <1>4, <2>2 DEF FirstPart, Exchange
    <3>2. txbuf = n + 1 => accepted' # n
      BY <3>1
    <3>3. Freed'
      <4>1. \/ txbuf' = 0 /\ epc' \in {"deliver", "ack"}
            \/ epc' = "second"
        BY <1>4, <2>1, <2>2 DEF FirstPart, Received
      <4> QED BY <2>1, <2>2, <4>1
    <3> QED BY <2>1, <3>2, <3>3
  <2>3. CASE rxStall
    BY <2>1, <2>3
  <2> QED BY <2>2, <2>3
<1>5. CASE SecondPart
  BY <1>5 DEF SecondPart, Received
<1>6. CASE Deliver \/ Discard
  BY <1>6 DEF Deliver, Discard
<1>7. CASE HeaderAcked \/ AckTimeout \/ PollReady
  BY <1>7 DEF HeaderAcked, AckTimeout, PollReady
<1> QED BY <1>1, <1>2, <1>3, <1>4, <1>5, <1>6, <1>7 DEF EngineStep

(***************************************************************************)
(* From the queue to the NCP, with room in the receive queues again and    *)
(* again.                                                                  *)
(***************************************************************************)

(* The last message taken does not stay the last when another is queued,   *)
(* however often the engine had to wait for room.                          *)
LEMMA TakenWithRoom ==
  Spec /\ EngineGoesOn /\ RdyGoesOn /\ SignalsGoOn /\ RoomComes /\ FailuresEnd => EverythingIsTaken
<1>1. ASSUME NEW n \in 0..MaxCalls
      PROVE  Spec /\ EngineGoesOn /\ RdyGoesOn /\ SignalsGoOn /\ RoomComes /\ FailuresEnd
               => (accepted = n /\ queued > n ~> accepted # n)
  <2>0. n \in Nat
    BY SpiAssumption
  <2> DEFINE All == IInv /\ Handshake
             Left == accepted = n /\ queued > n
             Gone == accepted # n
             Room == ~EngineStuck
             Idle == epc = "idle"
             Loop == epc = "loop"
             Wait == epc = "wait"
             Setup == epc = "setup"
             First == epc = "first"
             Second == epc = "second"
             Delivers == epc = "deliver"
             Ack == epc = "ack"
             Poll == epc = "poll"
             Acked == "HDR_ACKED" \in event
             Stall == rxStall
             Full == full
             Ready == Loaded(n)
             Waits == EngineWaits
             Turn == EngineStep
             Rise == RdyRises
             Fall == RdyFalls
             Tell == SignalStep
             Calm == Unfailing
  <2>1. All => /\ Idle \/ Loop \/ Wait \/ Setup \/ First \/ Second \/ Delivers \/ Ack \/ Poll
               /\ (Freed \/ Loop => ~First) /\ (Gone => ~Left)
    BY DEF IInv, TypeOK, Freed
  <2>2. All /\ Left /\ [Next]_vars /\ [Calm]_vars /\ ~Turn =>
          /\ Left'
          /\ (Idle => Idle') /\ (Loop => Loop') /\ (Wait => Wait') /\ (Setup => Setup')
          /\ (First => First') /\ (Second => Second') /\ (Delivers => Delivers')
          /\ (Ack => Ack') /\ (Poll => Poll') /\ (Acked => Acked')
          /\ (~Stall => ~Stall') /\ (Freed => Freed') /\ (Ready => Ready')
    <3> SUFFICES ASSUME All, Left, [Next]_vars, [Calm]_vars, ~Turn
                 PROVE  /\ Left'
                        /\ UNCHANGED <<epc, txbuf, rxStall, rxRestore>> /\ event \subseteq event'
      BY DEF Freed, Loaded
    <3>1. faults' = faults
      BY DEF Unfailing, vars
    <3>2. /\ UNCHANGED <<epc, txbuf, rxStall, rxRestore, accepted>>
          /\ queued' >= queued /\ event \subseteq event'
      BY <3>1, OthersLeave DEF IInv
    <3>3. queued \in Nat /\ queued' \in Nat
      BY TypeStep DEF IInv, TypeOK
    <3> QED BY <2>0, <3>2, <3>3
  <2>3. All /\ Left /\ Turn =>
          /\ Left' \/ Gone'
          /\ (Idle => Loop') /\ (Loop => Wait' \/ Setup') /\ (Wait => Setup') /\ (Setup => First')
          /\ (First => Second' \/ Delivers' \/ Ack') /\ (Second => Delivers' \/ Ack')
          /\ (Delivers => Ack')
          /\ (Ack => Loop' \/ (Poll' /\ ~Acked)) /\ (Poll => Loop' \/ (Ack' /\ (Acked => Acked')))
    BY <2>0, TransferMoves DEF IInv, TypeOK
  <2>4. All /\ Left /\ Turn /\ ~Full =>
          /\ (~Stall => ~Stall') /\ (First => ~Stall')
          /\ (First /\ ~Stall => Gone' \/ Freed')
          /\ (Freed => Freed' \/ Ready')
          /\ (Ready => Ready' \/ Gone') /\ (Ready /\ First => Gone')
    BY <2>0, StageMoves DEF IInv, TypeOK
  <2>5. All /\ Left /\ [Next]_vars /\ [Calm]_vars /\ ~Turn =>
          /\ ~Waits => ~Waits'
          /\ Wait /\ RdyIsDue => RdyIsDue' \/ ~Waits'
          /\ Idle /\ Tell => ~Waits'
          /\ Wait /\ Rise => ~Waits'
          /\ Wait /\ Fall => RdyIsDue'
    <3>1. [Calm]_vars => faults' = faults
      BY DEF Unfailing, vars
    <3>2. All /\ Wait => selected
      BY DEF Handshake
    <3> QED BY <3>1, <3>2, OthersWake DEF IInv
  <2>6. All /\ Left =>
          /\ (Idle /\ Waits => Signals) /\ (Wait /\ Waits => RdyIsDue \/ RdyIsOver)
          /\ (Ack \/ Poll => Acked \/ RdyIsOver) /\ (Delivers /\ Waits => ~Room)
          /\ (Loop \/ Setup \/ First \/ Second \/ Ack \/ Poll => ~Waits)
    BY <2>0, WaitsEnd DEF IInv, TypeOK, EngineStuck
  <2>7. EngineGoesOn => []<>Waits \/ []<><<Turn>>_vars
    BY DEF EngineGoesOn
  <2>8. RdyGoesOn => /\ []<>~RdyIsDue \/ []<><<Rise>>_vars
                     /\ []<>~RdyIsOver \/ []<><<Fall>>_vars
    BY DEF RdyGoesOn
  <2>9. SignalsGoOn => []<>~Signals \/ []<><<Tell>>_vars
    BY DEF SignalsGoOn
  <2>10. RoomComes => []<>Room
    BY DEF RoomComes
  <2>11. FailuresEnd => <>[][Calm]_vars /\ <>[]~Full
    BY DEF FailuresEnd
  <2>12. Spec => []All
    <3>1. Init => Handshake
      BY DEF Init, Handshake
    <3> QED BY <3>1, HandshakeStep, InductiveInvariant, PTL DEF Spec
  <2>13. All /\ [Next]_vars => (Fall => Acked') /\ (Left => Left' \/ Gone')
    <3>1. Fall => Acked'
      BY DEF RdyFalls
    <3>2. ASSUME All, [Next]_vars, Left PROVE Left' \/ Gone'
      <4>1. queued \in Nat /\ queued' \in Nat /\ queued' >= queued
        BY <3>2, QueuedGrows DEF IInv, TypeOK
      <4> QED BY <2>0, <3>2, <4>1
    <3> QED BY <3>1, <3>2
  <2> HIDE DEF All, Left, Gone, Room, Idle, Loop, Wait, Setup, First, Second, Delivers, Ack,
               Poll, Acked, Stall, Full, Ready, Waits, Turn, Rise, Fall, Tell, Calm
  <2> DEFINE Goes == []<>Waits \/ []<><<Turn>>_vars
             Rises == []<>~RdyIsDue \/ []<><<Rise>>_vars
             Falls == []<>~RdyIsOver \/ []<><<Fall>>_vars
             Tells == []<>~Signals \/ []<><<Tell>>_vars
             Rest == /\ []All /\ [][Next]_vars /\ [][Calm]_vars /\ []~Full /\ []Left
                     /\ Goes /\ Rises /\ Falls /\ Tells /\ []<>Room
  <2>20. Rest => (Idle ~> Loop) /\ (Loop ~> Wait \/ Setup) /\ (Setup ~> First)
    BY <2>2, <2>3, <2>5, <2>6, PTL
  <2>21. Rest => (Wait ~> Setup)
    BY <2>2, <2>3, <2>5, <2>6, PTL
  <2>22. Rest => (First ~> Second \/ Delivers \/ Ack) /\ (Second ~> Delivers \/ Ack)
    BY <2>2, <2>3, <2>5, <2>6, PTL
  <2>23. Rest => (Delivers ~> Ack)
    BY <2>2, <2>3, <2>5, <2>6, PTL
  <2>24. Rest => (Ack \/ Poll ~> Loop)
    BY <2>2, <2>3, <2>5, <2>6, <2>13, PTL
  <2>25. Rest => []<>First /\ []<>Loop
    BY <2>1, <2>20, <2>21, <2>22, <2>23, <2>24, PTL
  <2>26. Rest => FALSE
    BY <2>1, <2>2, <2>3, <2>4, <2>25, PTL
  <2>27. Spec /\ Goes /\ Rises /\ Falls /\ Tells /\ []<>Room /\ <>[][Calm]_vars /\ <>[]~Full
           => (Left ~> Gone)
    BY <2>12, <2>13, <2>26, PTL DEF Spec
  <2>28. EngineGoesOn /\ RdyGoesOn /\ SignalsGoOn /\ RoomComes /\ FailuresEnd =>
           Goes /\ Rises /\ Falls /\ Tells /\ []<>Room /\ <>[][Calm]_vars /\ <>[]~Full
    BY <2>7, <2>8, <2>9, <2>10, <2>11
  <2> QED BY <2>27, <2>28 DEF Left, Gone
<1> QED BY <1>1 DEF EverythingIsTaken

(***************************************************************************)
(* The readers: who holds the core lock gives it back, the netif task and  *)
(* the parser task come back to their queues, and so the engine gets room. *)
(***************************************************************************)

(* Where the threads stand to the core lock and to the link callback.      *)
Standing(p) ==
  /\ coreLock = p => tpc[p] \in {"input", "send", "signal"}
  /\ tpc[p] = "input" => p \in {Netif, Parser}
  /\ tpc[p] = "read" => p = Netif
  /\ tpc[p] = "report" => p = Parser
  /\ tpc[p] = "lock" /\ p = Parser => linkCalls # {}

Users == \A p \in Threads : Standing(p)

(* A thread moves: it takes up something, gets the core lock, goes on from *)
(* place to place in the stack and in spi_write, or returns.               *)
Moves(p) ==
  /\ \A q \in Threads \ {p} : tpc'[q] = tpc[q]
  /\ \/ /\ tpc[p] = "idle" /\ coreLock' = coreLock
        /\ tpc'[p] \in {"idle", "lock", "send", "read", "report"}
        /\ p = Netif <=> tpc'[p] = "read"
        /\ tpc'[p] = "report" => p = Parser
        /\ p = Parser => ReadAnswer
        /\ tpc'[p] = "lock" /\ p = Parser => linkCalls' # {}
        /\ p = Parser \/ linkCalls' = linkCalls
     \/ /\ tpc[p] = "read" /\ p = Netif /\ NetifWork
        /\ tpc'[p] \in {"idle", "lock", "read"} /\ UNCHANGED <<coreLock, linkCalls>>
     \/ /\ tpc[p] = "lock" /\ coreLock = NoOne /\ coreLock' = p
        /\ tpc'[p] = (IF p \in Senders THEN "send" ELSE "input")
        /\ linkCalls' = IF p = Parser THEN linkCalls \ {FirstCall} ELSE linkCalls
     \/ /\ tpc[p] \in {"input", "report"} /\ tpc'[p] = "send"
        /\ UNCHANGED <<coreLock, linkCalls>>
     \/ /\ tpc[p] = "send" /\ tpc'[p] = "signal"
        /\ UNCHANGED <<coreLock, linkCalls>>
     \/ /\ tpc[p] \in {"input", "report", "send", "signal"} /\ tpc'[p] = Onward(p)
        /\ coreLock' = (IF coreLock = p THEN NoOne ELSE coreLock)
        /\ linkCalls' = linkCalls

LEMMA OneMoves ==
  ASSUME TypeOK, [Next]_vars
  PROVE  UNCHANGED <<tpc, coreLock, linkCalls>> \/ \E p \in Threads : Moves(p)
<1>1. Netif \in Threads /\ Parser \in Threads
  BY DEF Threads
<1>2. ASSUME NEW p \in Threads, NEW pc, Goto(p, pc)
      PROVE  tpc'[p] = pc /\ \A q \in Threads \ {p} : tpc'[q] = tpc[q]
  BY <1>2, OthersStay
<1>3. ASSUME NEW p \in Threads, Call(p) PROVE Moves(p)
  <2>1. /\ tpc[p] = "idle" /\ UNCHANGED <<coreLock, linkCalls>> /\ p \in Senders
        /\ Goto(p, IF p \in LwipSenders THEN "lock" ELSE "send")
    BY <1>3 DEF Call
  <2>2. p # Netif /\ p # Parser
    BY <2>1, SpiAssumption
  <2> QED BY <1>2, <2>1, <2>2 DEF Moves
<1>4. ASSUME NEW p \in Threads, LockCore(p) PROVE Moves(p)
  <2>1. /\ tpc[p] = "lock" /\ coreLock = NoOne /\ coreLock' = p
        /\ Goto(p, IF p \in Senders THEN "send" ELSE "input")
        /\ linkCalls' = IF p = Parser THEN linkCalls \ {FirstCall} ELSE linkCalls
    BY <1>4 DEF LockCore
  <2> QED BY <1>2, <2>1 DEF Moves
<1>5. ASSUME NEW p \in Threads, QueueMessage(p) PROVE Moves(p)
  <2>1. tpc[p] = "send" /\ Goto(p, "signal") /\ UNCHANGED <<coreLock, linkCalls>>
    BY <1>5 DEF QueueMessage
  <2> QED BY <1>2, <2>1 DEF Moves
<1>6. ASSUME NEW p \in Threads, tpc[p] \in {"input", "report", "send", "signal"}, Return(p),
             linkCalls' = linkCalls
      PROVE  Moves(p)
  <2>1. Goto(p, Onward(p)) /\ coreLock' = (IF coreLock = p THEN NoOne ELSE coreLock)
    BY <1>6 DEF Return
  <2> QED BY <1>2, <1>6, <2>1 DEF Moves
<1>7. ASSUME NEW p \in Threads, SendTimeout(p) \/ SendNoMemory(p) \/ Signal(p) PROVE Moves(p)
  BY <1>6, <1>7 DEF SendTimeout, SendNoMemory, Signal
<1>8. ASSUME NEW p \in Threads, StackRuns(p) PROVE Moves(p)
  <2>1. CASE Goto(p, "send") /\ UNCHANGED coreLock
    <3>1. tpc[p] \in {"input", "report"} /\ linkCalls' = linkCalls
      BY <1>8 DEF StackRuns
    <3> QED BY <1>2, <2>1, <3>1 DEF Moves
  <2>2. CASE Return(p)
    BY <1>6, <1>8, <2>2 DEF StackRuns
  <2> QED BY <1>8, <2>1, <2>2 DEF StackRuns
<1>9. CASE NetifWake
  <2>1. tpc[Netif] = "idle" /\ Goto(Netif, "read") /\ UNCHANGED <<coreLock, linkCalls>>
    BY <1>9 DEF NetifWake
  <2> QED BY <1>1, <1>2, <2>1, SpiAssumption DEF Moves
<1>10. ASSUME NEW t \in NetTypes, NetifRead(t) \/ NetifEmpty(t) \/ NetifDrops(t)
       PROVE  Moves(Netif)
  <2>0. NetifWork
    BY <1>10 DEF NetifWork
  <2>1. /\ tpc[Netif] = "read" /\ UNCHANGED <<coreLock, linkCalls>>
        /\ \E pc \in {"idle", "lock", "read"} : Goto(Netif, pc)
    BY <1>10 DEF NetifRead, NetifEmpty, NetifDrops, LinkDone
  <2> QED BY <1>1, <1>2, <2>0, <2>1 DEF Moves
<1>11. CASE ReadAnswer
  <2>1. tpc[Parser] = "idle" /\ coreLock' = coreLock
    BY <1>11 DEF ReadAnswer
  <2>2. \/ UNCHANGED <<tpc, linkCalls>>
        \/ Goto(Parser, "report")
        \/ Goto(Parser, "lock") /\ linkCalls' # {}
    BY <1>11 DEF ReadAnswer
  <2>3. Parser # Netif
    BY SpiAssumption
  <2> QED BY <1>1, <1>2, <1>11, <2>1, <2>2, <2>3 DEF Moves
<1>12. CASE UserStep \/ UserFault
  BY <1>1, <1>3, <1>4, <1>5, <1>7, <1>8, <1>9, <1>10, <1>11, <1>12
     DEF UserStep, UserFault, Write, NetifStep, ParserStep
<1>13. CASE EngineStep \/ EngineFault
  BY <1>13 DEF EngineStep, EngineWake, StartTransfer, NothingToDo, TxnReady, SetUp, FirstPart,
     SecondPart, Deliver, Discard, HeaderAcked, AckTimeout, PollReady, EngineFault, TxnTimeout,
     SetUpFails, FirstPartFails, SecondPartFails, GiveUp, users
<1>14. CASE NcpStep \/ NcpSends \/ NcpFull \/ UNCHANGED vars
  BY <1>14 DEF NcpStep, RdyRises, RdyFalls, NcpHasRoom, NcpSends, NcpFull, users, vars
<1> QED BY <1>12, <1>13, <1>14 DEF Next, Quiet

LEMMA UsersStep ==
  ASSUME TypeOK, Users, [Next]_vars PROVE Users'
<1>1. CASE UNCHANGED <<tpc, coreLock, linkCalls>>
  BY <1>1 DEF Users, Standing
<1>2. ASSUME NEW p \in Threads, Moves(p) PROVE Users'
  <2>0. p # NoOne /\ Netif # Parser /\ NoOne \notin Threads /\ Netif \notin Senders
        /\ Parser \notin Senders
    BY SpiAssumption
  <2>1. Standing(p)
    BY DEF Users
  <2>2. Standing(p)'
    <3>1. CASE tpc'[p] = Onward(p) /\ coreLock' = (IF coreLock = p THEN NoOne ELSE coreLock)
               /\ linkCalls' = linkCalls
      <4>1. coreLock' # p /\ tpc'[p] \in {"read", "lock", "idle"}
        BY <2>0, <3>1 DEF Onward
      <4>2. tpc'[p] = "read" => p = Netif
        BY <3>1 DEF Onward
      <4>3. tpc'[p] = "lock" => linkCalls' # {}
        BY <3>1 DEF Onward
      <4> QED BY <4>1, <4>2, <4>3 DEF Standing
    <3>2. CASE ~(tpc'[p] = Onward(p) /\ coreLock' = (IF coreLock = p THEN NoOne ELSE coreLock)
               /\ linkCalls' = linkCalls)
      <4>1. CASE tpc[p] = "lock" /\ coreLock' = p
                 /\ tpc'[p] = (IF p \in Senders THEN "send" ELSE "input")
        BY <2>0, <4>1 DEF Standing, Threads
      <4>2. CASE tpc[p] # "lock" /\ coreLock' = coreLock
        BY <1>2, <2>0, <2>1, <3>2, <4>2 DEF Moves, Standing
      <4> QED BY <1>2, <3>2, <4>1, <4>2 DEF Moves
    <3> QED BY <3>1, <3>2
  <2>3. ASSUME NEW q \in Threads \ {p} PROVE Standing(q)'
    <3>1. tpc'[q] = tpc[q] /\ Standing(q) /\ q # NoOne
      BY <1>2, <2>0 DEF Moves, Users
    <3>2. coreLock' = q => coreLock = q
      BY <1>2, <2>0, <3>1 DEF Moves
    <3>3. q = Parser => linkCalls' = linkCalls
      BY <1>2, <2>0 DEF Moves
    <3> QED BY <3>1, <3>2, <3>3 DEF Standing
  <2> QED BY <2>2, <2>3 DEF Users
<1> QED BY <1>1, <1>2, OneMoves

LEMMA UsersHold == Spec => []Users
<1>1. Init => Users
  <2> SUFFICES ASSUME Init PROVE \A p \in Threads : Standing(p)
    BY DEF Users
  <2>1. \A p \in Threads : tpc[p] = "idle" /\ coreLock # p
    BY SpiAssumption DEF Init
  <2> QED BY <2>1 DEF Standing
<1> QED BY <1>1, UsersStep, SpiTypeCorrect, PTL DEF Spec

(* The core lock comes back: whoever has it is in the stack or in          *)
(* spi_write, and waits nowhere without a limit.                           *)
LEMMA CoreComesBack == Spec /\ HolderGoesOn => (coreLock # NoOne ~> coreLock = NoOne)
<1> DEFINE Free == coreLock = NoOne
           Taken == coreLock # NoOne
           Input == ~Free /\ tpc[coreLock] = "input"
           Sending == ~Free /\ tpc[coreLock] = "send"
           Telling == ~Free /\ tpc[coreLock] = "signal"
           Turn == HolderTurn
           All == TypeOK /\ Users
<1>1. (Taken <=> ~Free) /\ (All => Free \/ Input \/ Sending \/ Telling)
  BY DEF Users, Standing, TypeOK
<1>2. ASSUME All, [Next]_vars, ~Free
      PROVE  \/ coreLock' = coreLock /\ tpc'[coreLock] = tpc[coreLock]
             \/ Free'
             \/ Input /\ Sending'
             \/ Sending /\ Telling'
  <2>1. coreLock \in Threads /\ Standing(coreLock)
    BY <1>2 DEF TypeOK, Users
  <2>2. CASE UNCHANGED <<tpc, coreLock, linkCalls>>
    BY <2>2
  <2>3. ASSUME NEW p \in Threads, Moves(p), p # coreLock
        PROVE  coreLock' = coreLock /\ tpc'[coreLock] = tpc[coreLock]
    BY <1>2, <2>1, <2>3 DEF Moves
  <2>4. CASE Moves(coreLock)
    BY <1>2, <2>1, <2>4 DEF Moves, Standing
  <2> QED BY <1>2, <2>1, <2>2, <2>3, <2>4, OneMoves
<1>3. ASSUME All, Turn
      PROVE  /\ ~Free
             /\ ~(tpc'[coreLock] = tpc[coreLock] /\ coreLock' = coreLock)
  <2>1. coreLock \in Threads
    BY <1>3 DEF HolderTurn, TypeOK
  <2>2. \A pc : Goto(coreLock, pc) => tpc'[coreLock] = pc
    BY <1>3, <2>1, OthersStay
  <2>3. Return(coreLock) => coreLock' # coreLock
    BY <2>1, SpiAssumption DEF Return
  <2> QED BY <1>3, <2>2, <2>3
          DEF HolderTurn, StackRuns, Write, QueueMessage, SendTimeout, Signal
<1>4. All /\ [Next]_vars =>
        /\ Input => Input' \/ Sending' \/ Free'
        /\ Sending => Sending' \/ Telling' \/ Free'
        /\ Telling => Telling' \/ Free'
  BY <1>2
<1>5. All /\ [Next]_vars /\ Turn =>
        (Input => ~Input') /\ (Sending => ~Sending') /\ (Telling => ~Telling')
  BY <1>2, <1>3
<1>6. Spec => []All
  BY SpiTypeCorrect, UsersHold, PTL
<1>7. (Input => ~Sending /\ ~Telling) /\ (Sending => ~Telling)
  OBVIOUS
<1>8. HolderGoesOn => []<>Free \/ []<><<Turn>>_vars
  BY DEF HolderGoesOn
<1> HIDE DEF Free, Taken, Input, Sending, Telling, Turn, All
<1>9. Spec /\ ([]<>Free \/ []<><<Turn>>_vars) => (Taken ~> Free)
  BY <1>1, <1>4, <1>5, <1>6, <1>7, PTL DEF Spec
<1> QED BY <1>8, <1>9 DEF Free, Taken

(* The netif task comes back from the stack, whatever it sends from there. *)
LEMMA NetifComesBack ==
  Spec /\ HolderGoesOn /\ NetifGoesOn /\ CoreIsFair(Netif)
    => (tpc[Netif] \notin {"idle", "read"} ~> tpc[Netif] = "read")
<1> DEFINE Free == coreLock = NoOne
           Taken == coreLock # NoOne
           Idle == tpc[Netif] = "idle"
           Read == tpc[Netif] = "read"
           Away == tpc[Netif] \notin {"idle", "read"}
           Locking == tpc[Netif] = "lock"
           LockFree == tpc[Netif] = "lock" /\ coreLock = NoOne
           Input == tpc[Netif] = "input"
           Sending == tpc[Netif] = "send"
           Telling == tpc[Netif] = "signal"
           Rests == NetifRests
           Turn == NetifTurn
           Lock == LockCore(Netif)
           All == TypeOK /\ Users
<1>0. Netif \in Threads /\ Netif # Parser /\ Netif \notin Senders
  BY SpiAssumption DEF Threads
<1>1. All => /\ Idle \/ Read \/ Locking \/ Input \/ Sending \/ Telling
             /\ (Away <=> ~Idle /\ ~Read) /\ (LockFree <=> Locking /\ Free) /\ (Taken <=> ~Free)
             /\ (Rests => Locking \/ Idle)
  BY <1>0 DEF Users, Standing, TypeOK, NetifRests
<1>2. All /\ [Next]_vars =>
        /\ Locking => Locking' \/ Input'
        /\ Input => Input' \/ Sending' \/ Read'
        /\ Sending => Sending' \/ Telling' \/ Read'
        /\ Telling => Telling' \/ Read'
  <2> SUFFICES ASSUME All, [Next]_vars
               PROVE  /\ Locking => Locking' \/ Input'
                      /\ Input => Input' \/ Sending' \/ Read'
                      /\ Sending => Sending' \/ Telling' \/ Read'
                      /\ Telling => Telling' \/ Read'
    OBVIOUS
  <2>1. CASE tpc'[Netif] = tpc[Netif]
    BY <2>1
  <2>2. CASE Moves(Netif)
    BY <1>0, <2>2 DEF Moves, Onward
  <2>3. ASSUME NEW p \in Threads, Moves(p), p # Netif PROVE tpc'[Netif] = tpc[Netif]
    BY <1>0, <2>3 DEF Moves
  <2> QED BY <2>1, <2>2, <2>3, OneMoves
<1>3. All /\ Turn => (Input => ~Input') /\ (Sending => ~Sending') /\ (Telling => ~Telling')
  <2> SUFFICES ASSUME All, Turn, Input \/ Sending \/ Telling
               PROVE  tpc'[Netif] # tpc[Netif]
    OBVIOUS
  <2>1. \A pc : Goto(Netif, pc) => tpc'[Netif] = pc
    BY <1>0, OthersStay
  <2>2. StackRuns(Netif) \/ Write(Netif)
    BY DEF NetifTurn, NetifStep, NetifWake, NetifRead, NetifEmpty
  <2>3. Return(Netif) => tpc'[Netif] = "read"
    BY <1>0, <2>1 DEF Return, Onward
  <2> QED BY <2>1, <2>2, <2>3 DEF StackRuns, Write, QueueMessage, SendTimeout, Signal
<1>4. All /\ Lock => Input'
  BY <1>0, OthersStay DEF LockCore
<1>5. Spec => []All
  BY SpiTypeCorrect, UsersHold, PTL
<1>6. /\ Idle => ~Read /\ ~Locking /\ ~Input /\ ~Sending /\ ~Telling
      /\ Read => ~Locking /\ ~Input /\ ~Sending /\ ~Telling
      /\ Locking => ~Input /\ ~Sending /\ ~Telling
      /\ Input => ~Sending /\ ~Telling
      /\ Sending => ~Telling
  OBVIOUS
<1>7. NetifGoesOn => []<>Rests \/ []<><<Turn>>_vars
  BY DEF NetifGoesOn
<1>8. CoreIsFair(Netif) => ([]<>LockFree => []<><<Lock>>_vars)
  BY DEF CoreIsFair
<1>9. Spec /\ HolderGoesOn => (Taken ~> Free)
  BY CoreComesBack
<1> HIDE DEF Free, Taken, Idle, Read, Away, Locking, LockFree, Input, Sending, Telling, Rests,
             Turn, Lock, All
<1> DEFINE Goes == []<>Rests \/ []<><<Turn>>_vars
           Fair == []<>LockFree => []<><<Lock>>_vars
           Rest == []All /\ [][Next]_vars /\ Goes /\ Fair /\ (Taken ~> Free)
<1>10. Rest => (Telling ~> Read)
  BY <1>1, <1>2, <1>3, <1>6, PTL
<1>11. Rest => (Sending ~> Telling \/ Read)
  BY <1>1, <1>2, <1>3, <1>6, PTL
<1>12. Rest => (Input ~> Sending \/ Read)
  BY <1>1, <1>2, <1>3, <1>6, PTL
<1>13. Rest => (Locking ~> Input)
  BY <1>1, <1>2, <1>4, <1>6, PTL
<1>14. Rest => (Away ~> Read)
  BY <1>1, <1>10, <1>11, <1>12, <1>13, PTL
<1>15. Spec /\ HolderGoesOn /\ Goes /\ Fair => (Away ~> Read)
  BY <1>5, <1>9, <1>14, PTL DEF Spec
<1> QED BY <1>7, <1>8, <1>15 DEF Away, Read

(* The parser task comes back to its queue, whatever calls of the stack a  *)
(* link callback has left to make.                                         *)
LEMMA ParserComesBack ==
  Spec /\ HolderGoesOn /\ ParserGoesOn /\ CoreIsFair(Parser)
    => (tpc[Parser] # "idle" ~> tpc[Parser] = "idle")
<1> DEFINE Free == coreLock = NoOne
           Taken == coreLock # NoOne
           Idle == tpc[Parser] = "idle"
           Away == tpc[Parser] # "idle"
           Locking == tpc[Parser] = "lock"
           LockFree == tpc[Parser] = "lock" /\ coreLock = NoOne
           Stack == tpc[Parser] \in {"input", "report"}
           Sending == tpc[Parser] = "send"
           Telling == tpc[Parser] = "signal"
           Two == linkCalls = {"release", "start"}
           One == linkCalls \in {{"release"}, {"start"}}
           None == linkCalls = {}
           Rests == ParserRests
           Turn == ParserTurn
           Lock == LockCore(Parser)
           All == TypeOK /\ Users
<1>0. Parser \in Threads /\ Netif # Parser /\ Parser \notin Senders
  BY SpiAssumption DEF Threads
<1>1. All => /\ Idle \/ Locking \/ Stack \/ Sending \/ Telling
             /\ Two \/ One \/ None
             /\ (Away <=> ~Idle) /\ (LockFree <=> Locking /\ Free) /\ (Taken <=> ~Free)
             /\ (Rests => Locking \/ Idle) /\ (Locking => ~None)
  <2> SUFFICES ASSUME All
               PROVE  /\ Idle \/ Locking \/ Stack \/ Sending \/ Telling
                      /\ Two \/ One \/ None
                      /\ Locking => ~None
    BY DEF ParserRests
  <2>1. Two \/ One \/ None
    BY DEF TypeOK
  <2> QED BY <1>0, <2>1 DEF Users, Standing, TypeOK
<1>2. All /\ [Next]_vars =>
        /\ Stack => Stack' \/ Sending' \/ Locking' \/ Idle'
        /\ Sending => Sending' \/ Telling' \/ Locking' \/ Idle'
        /\ Telling => Telling' \/ Locking' \/ Idle'
        /\ Locking => \/ Locking' /\ (Two => Two') /\ (One => One')
                      \/ Stack' /\ (Two => One') /\ (One => None')
        /\ ~Idle /\ ~Locking => (Two => Two') /\ (One => One') /\ (None => None')
  <2> SUFFICES ASSUME All, [Next]_vars
               PROVE  /\ Stack => Stack' \/ Sending' \/ Locking' \/ Idle'
                      /\ Sending => Sending' \/ Telling' \/ Locking' \/ Idle'
                      /\ Telling => Telling' \/ Locking' \/ Idle'
                      /\ Locking => \/ Locking' /\ linkCalls' = linkCalls
                                    \/ Stack' /\ linkCalls' = linkCalls \ {FirstCall}
                      /\ ~Idle /\ ~Locking => linkCalls' = linkCalls
    <3>1. Two => linkCalls \ {FirstCall} = {"start"}
      BY DEF FirstCall
    <3>2. One => linkCalls \ {FirstCall} = {}
      BY DEF FirstCall
    <3> QED BY <3>1, <3>2
  <2>1. CASE tpc'[Parser] = tpc[Parser] /\ linkCalls' = linkCalls
    BY <2>1
  <2>2. CASE Moves(Parser)
    BY <1>0, <2>2 DEF Moves, Onward
  <2>3. ASSUME NEW p \in Threads, Moves(p), p # Parser
        PROVE  tpc'[Parser] = tpc[Parser] /\ linkCalls' = linkCalls
    BY <1>0, <2>3 DEF Moves
  <2> QED BY <2>1, <2>2, <2>3, OneMoves
<1>3. All /\ Turn => (Stack => ~Stack') /\ (Sending => ~Sending') /\ (Telling => ~Telling')
  <2> SUFFICES ASSUME All, Turn, Stack \/ Sending \/ Telling
               PROVE  (Stack => ~Stack') /\ (Sending => ~Sending') /\ (Telling => ~Telling')
    OBVIOUS
  <2>1. \A pc : Goto(Parser, pc) => tpc'[Parser] = pc
    BY <1>0, OthersStay
  <2>2. StackRuns(Parser) \/ Write(Parser)
    BY DEF ParserTurn, ParserStep, ReadAnswer
  <2>3. Return(Parser) => tpc'[Parser] \in {"lock", "idle"}
    BY <1>0, <2>1 DEF Return, Onward
  <2> QED BY <2>1, <2>2, <2>3 DEF StackRuns, Write, QueueMessage, SendTimeout, Signal
<1>4. All /\ Lock => Stack'
  BY <1>0, OthersStay DEF LockCore
<1>5. Spec => []All
  BY SpiTypeCorrect, UsersHold, PTL
<1>6. /\ Idle => ~Locking /\ ~Stack /\ ~Sending /\ ~Telling
      /\ Locking => ~Stack /\ ~Sending /\ ~Telling
      /\ Stack => ~Sending /\ ~Telling
      /\ Sending => ~Telling
      /\ Two => ~One /\ ~None
      /\ One => ~None
  OBVIOUS
<1>7. ParserGoesOn => []<>Rests \/ []<><<Turn>>_vars
  BY DEF ParserGoesOn
<1>8. CoreIsFair(Parser) => ([]<>LockFree => []<><<Lock>>_vars)
  BY DEF CoreIsFair
<1>9. Spec /\ HolderGoesOn => (Taken ~> Free)
  BY CoreComesBack
<1> HIDE DEF Free, Taken, Idle, Away, Locking, LockFree, Stack, Sending, Telling, Two, One, None,
             Rests, Turn, Lock, All
<1> DEFINE Goes == []<>Rests \/ []<><<Turn>>_vars
           Fair == []<>LockFree => []<><<Lock>>_vars
           Rest == []All /\ [][Next]_vars /\ Goes /\ Fair /\ (Taken ~> Free)
           Out == Stack \/ Sending \/ Telling
<1>10. Rest => (Out ~> Locking \/ Idle)
  BY <1>1, <1>2, <1>3, <1>6, PTL
<1>11. Rest => /\ (Out /\ Two ~> (Locking /\ Two) \/ Idle)
               /\ (Out /\ One ~> (Locking /\ One) \/ Idle)
               /\ (Out /\ None ~> Idle)
  BY <1>1, <1>2, <1>6, <1>10, PTL
<1>12. Rest => (Locking ~> Out)
  BY <1>1, <1>2, <1>4, <1>6, PTL
<1>13. Rest => (Locking /\ Two ~> Out /\ One) /\ (Locking /\ One ~> Out /\ None)
  BY <1>1, <1>2, <1>6, <1>12, PTL
<1>14. Rest => (Away ~> Idle)
  BY <1>1, <1>11, <1>13, PTL
<1>15. Spec /\ HolderGoesOn /\ Goes /\ Fair => (Away ~> Idle)
  BY <1>5, <1>9, <1>14, PTL DEF Spec
<1> QED BY <1>7, <1>8, <1>15 DEF Away, Idle

(* No receive queue overflows, and the netif task has a full queue on its  *)
(* list, or on the next one, even after failures.                          *)
Filled ==
  /\ Rested
  /\ \A t \in Bound : Len(rxq[t]) <= RxqLen[t]
  /\ \A t \in NetTypes : Len(rxq[t]) = RxqLen[t] => t \in notified \cup netEvent

LEMMA FilledSame ==
  ASSUME Filled, UNCHANGED <<rxq, notified, netEvent>>, tpc'[Netif] # "idle" \/ tpc'[Netif] = tpc[Netif]
  PROVE  Filled'
BY DEF Filled, Rested

(* The netif task, or the parser task, takes a message, or strikes off an  *)
(* empty queue.                                                            *)
LEMMA FilledRead ==
  ASSUME TypeOK, Filled, NEW t \in Bound, Rested', UNCHANGED notified,
         \/ rxq[t] # <<>> /\ rxq' = [rxq EXCEPT ![t] = Tail(@)]
         \/ rxq[t] = <<>> /\ rxq' = rxq,
         \A u \in netEvent : u \in netEvent' \/ u = t
  PROVE  Filled' /\ (Len(rxq[t]) = RxqLen[t] => rxq[t] # <<>>) /\ Len(rxq'[t]) < RxqLen[t]
<1>1. rxq[t] \in Seq(Msg) /\ RxqLen[t] \in Nat \ {0} /\ NetTypes \subseteq Bound
  BY SpiAssumption DEF TypeOK, Bound
<1>2. \A u \in Bound : u # t => rxq'[u] = rxq[u]
  BY DEF TypeOK
<1>3. Len(rxq'[t]) < RxqLen[t]
  <2>1. CASE rxq[t] # <<>> /\ rxq' = [rxq EXCEPT ![t] = Tail(@)]
    <3>1. rxq'[t] = Tail(rxq[t])
      BY <2>1 DEF TypeOK
    <3>2. Len(Tail(rxq[t])) = Len(rxq[t]) - 1 /\ Len(rxq[t]) \in Nat
      BY <1>1, <2>1
    <3>3. Len(rxq[t]) <= RxqLen[t]
      BY DEF Filled
    <3> QED BY <1>1, <3>1, <3>2, <3>3
  <2>2. CASE rxq[t] = <<>> /\ rxq' = rxq
    BY <1>1, <2>2
  <2> QED BY <2>1, <2>2
<1>4. Len(rxq[t]) = RxqLen[t] => rxq[t] # <<>>
  BY <1>1
<1>5. \A u \in Bound : Len(rxq'[u]) <= RxqLen[u]
  <2>1. Len(rxq'[t]) \in Nat
    <3>1. rxq'[t] = rxq[t] \/ (rxq[t] # <<>> /\ rxq'[t] = Tail(rxq[t]))
      BY DEF TypeOK
    <3>2. \A q \in Seq(Msg) : Len(q) \in Nat /\ (q # <<>> => Tail(q) \in Seq(Msg))
      OBVIOUS
    <3> HIDE DEF Msg
    <3> QED BY <1>1, <3>1, <3>2
  <2> QED BY <1>1, <1>2, <1>3, <2>1 DEF Filled
<1>6. ASSUME NEW u \in NetTypes, Len(rxq'[u]) = RxqLen[u] PROVE u \in notified' \cup netEvent'
  <2>1. u # t
    BY <1>1, <1>3, <1>6
  <2> QED BY <1>1, <1>2, <1>6, <2>1 DEF Filled
<1> QED BY <1>3, <1>4, <1>5, <1>6 DEF Filled

LEMMA FilledStep ==
  ASSUME TypeOK, Filled, [Next]_vars PROVE Filled'
<1>0. Netif \in Threads /\ Netif # Parser /\ NetTypes \subseteq Bound /\ AtType \in Bound
      /\ AtType \notin NetTypes
  BY SpiAssumption DEF Threads, Bound
<1>1. ASSUME NEW p, NEW pc, Goto(p, pc), p # Netif \/ pc # "idle"
      PROVE  tpc'[Netif] # "idle" \/ tpc'[Netif] = tpc[Netif]
  BY <1>0, <1>1, OthersStay
<1>2. ASSUME NEW p \in Threads,
             \/ Call(p) \/ LockCore(p) \/ QueueMessage(p) \/ SendTimeout(p) \/ Signal(p)
             \/ SendNoMemory(p) \/ StackRuns(p)
      PROVE  Filled'
  <2>1. \E pc : Goto(p, pc) /\ (p # Netif \/ pc # "idle")
    BY <1>2, SpiAssumption
       DEF Call, LockCore, QueueMessage, SendTimeout, Signal, SendNoMemory, StackRuns, Return,
           Onward
  <2>2. UNCHANGED <<rxq, notified, netEvent>>
    BY <1>2 DEF Call, LockCore, QueueMessage, SendTimeout, Signal, SendNoMemory, StackRuns, bus,
       queues
  <2> QED BY <1>1, <2>1, <2>2, FilledSame
<1>3. CASE NetifWake
  <2>1. /\ netEvent' = notified /\ UNCHANGED rxq /\ netEvent = {}
        /\ Goto(Netif, "read")
    BY <1>3 DEF NetifWake, bus, queues, Filled, Rested
  <2>2. Rested'
    BY <1>0, <2>1, OthersStay DEF Rested
  <2> QED BY <2>1, <2>2 DEF Filled
<1>4. ASSUME NEW t \in NetTypes, NetifRead(t) \/ NetifEmpty(t) \/ NetifDrops(t) PROVE Filled'
  <2>1. /\ notified' = notified /\ \A u \in netEvent : u \in netEvent' \/ u = t
        /\ \/ rxq[t] # <<>> /\ rxq' = [rxq EXCEPT ![t] = Tail(@)]
           \/ rxq[t] = <<>> /\ rxq' = rxq
    BY <1>4 DEF NetifRead, NetifEmpty, NetifDrops, LinkDone, bus, queues
  <2>2. \E pc : Goto(Netif, pc) /\ (pc = "idle" => netEvent' = {})
    BY <1>4 DEF NetifRead, NetifEmpty, NetifDrops, LinkDone
  <2>3. Rested'
    BY <1>0, <2>2, OthersStay DEF Rested
  <2> QED BY <1>0, <2>1, <2>3, FilledRead
<1>5. CASE ReadAnswer
  <2>1. /\ rxq[AtType] # <<>> /\ rxq' = [rxq EXCEPT ![AtType] = Tail(@)]
        /\ UNCHANGED <<notified, netEvent>>
        /\ UNCHANGED tpc \/ \E pc : Goto(Parser, pc)
    BY <1>5 DEF ReadAnswer
  <2>2. tpc'[Netif] = tpc[Netif]
    BY <1>0, <2>1, OthersStay
  <2>3. Rested'
    BY <2>1, <2>2 DEF Filled, Rested
  <2> QED BY <1>0, <2>1, <2>3, FilledRead
<1>6. CASE Deliver
  <2>1. /\ rxbuf.type \in Bound /\ Len(rxq[rxbuf.type]) < RxqLen[rxbuf.type]
        /\ rxq' = [rxq EXCEPT ![rxbuf.type] = Append(@, rxbuf)]
        /\ notified' = notified \cup ({rxbuf.type} \cap NetTypes)
        /\ UNCHANGED <<tpc, netEvent>>
    BY <1>6 DEF Deliver
  <2>2. \A u \in Bound : u # rxbuf.type => rxq'[u] = rxq[u]
    BY <2>1 DEF TypeOK
  <2>3. Len(rxq'[rxbuf.type]) <= RxqLen[rxbuf.type]
    <3>1. rxq[rxbuf.type] \in Seq(Msg) /\ RxqLen[rxbuf.type] \in Nat
      BY <2>1, SpiAssumption DEF TypeOK
    <3>2. rxq'[rxbuf.type] = Append(rxq[rxbuf.type], rxbuf)
      BY <2>1 DEF TypeOK
    <3>3. Len(Append(rxq[rxbuf.type], rxbuf)) = Len(rxq[rxbuf.type]) + 1
      BY <3>1
    <3>4. Len(rxq[rxbuf.type]) \in Nat
      BY <3>1
    <3> QED BY <2>1, <3>1, <3>2, <3>3, <3>4
  <2> QED BY <1>0, <2>1, <2>2, <2>3 DEF Filled, Rested
<1>7. CASE EngineStep /\ ~Deliver
  BY <1>7, FilledSame
     DEF EngineStep, EngineWake, StartTransfer, NothingToDo, TxnReady, SetUp, FirstPart,
         SecondPart, Discard, HeaderAcked, AckTimeout, PollReady, queues, users
<1>8. CASE EngineFault
  BY <1>8, FilledSame
     DEF EngineFault, TxnTimeout, SetUpFails, FirstPartFails, SecondPartFails, GiveUp, queues,
         users
<1>9. CASE NcpStep \/ NcpSends \/ NcpFull \/ UNCHANGED vars
  BY <1>9, FilledSame
     DEF NcpStep, RdyRises, RdyFalls, NcpHasRoom, NcpSends, NcpFull, queues, users, vars
<1>10. CASE UserStep
  BY <1>2, <1>3, <1>4, <1>5, <1>10, SpiAssumption
     DEF UserStep, Write, NetifStep, ParserStep, Threads
<1>11. CASE UserFault
  BY <1>2, <1>4, <1>11 DEF UserFault
<1> QED BY <1>6, <1>7, <1>8, <1>9, <1>10, <1>11 DEF Next, Quiet

LEMMA FilledHolds == Spec => []Filled
<1>1. Init => Filled
  <2> SUFFICES ASSUME Init PROVE Filled
    OBVIOUS
  <2>1. \A t \in Bound : Len(rxq[t]) = 0 /\ RxqLen[t] \in Nat \ {0}
    BY SpiAssumption DEF Init
  <2> QED BY <2>1 DEF Init, Filled, Rested, Bound
<1> QED BY <1>1, FilledStep, SpiTypeCorrect, PTL DEF Spec

(* The engine waits for one queue, which is full; only a reader makes room *)
(* in it.                                                                  *)
LEMMA StuckFacts ==
  ASSUME TypeOK, Filled, EngineStuck
  PROVE  /\ rxbuf.type = AtType \/ rxbuf.type \in NetTypes
         /\ rxq[rxbuf.type] # <<>>
         /\ rxbuf.type \in NetTypes => rxbuf.type \in notified \cup netEvent
         /\ [Next]_vars => rxbuf' = rxbuf
         /\ rxbuf.type = AtType /\ ReadAnswer => ~EngineStuck'
<1>1. /\ rxbuf.type \in Bound /\ epc = "deliver" /\ ~(Len(rxq[rxbuf.type]) < RxqLen[rxbuf.type])
      /\ Len(rxq[rxbuf.type]) <= RxqLen[rxbuf.type]
  BY DEF EngineStuck, HasRoom, Filled
<1>2. RxqLen[rxbuf.type] \in Nat \ {0} /\ rxq[rxbuf.type] \in Seq(Msg)
  BY <1>1, SpiAssumption DEF TypeOK
<1>3. Len(rxq[rxbuf.type]) = RxqLen[rxbuf.type]
  <2>1. \A q \in Seq(Msg) : Len(q) \in Nat
    OBVIOUS
  <2>2. \A i, j \in Nat : ~(i < j) /\ i <= j => i = j
    OBVIOUS
  <2> QED BY <1>1, <1>2, <2>1, <2>2
<1>4. rxq[rxbuf.type] # <<>>
  BY <1>2, <1>3
<1>5. [Next]_vars => rxbuf' = rxbuf
  <2>1. CASE EngineStep \/ EngineFault
    <3>1. FALSE
      BY <1>1, <2>1
         DEF EngineStep, EngineWake, StartTransfer, NothingToDo, TxnReady, SetUp, FirstPart,
             SecondPart, Deliver, Discard, HeaderAcked, AckTimeout, PollReady, EngineFault,
             TxnTimeout, SetUpFails, FirstPartFails, SecondPartFails
    <3> QED BY <3>1
  <2>2. CASE NcpStep \/ NcpSends \/ NcpFull \/ UNCHANGED vars
    BY <2>2 DEF NcpStep, RdyRises, RdyFalls, NcpHasRoom, NcpSends, NcpFull, engine, vars
  <2>3. CASE UserStep \/ UserFault
    BY <2>3
       DEF UserStep, UserFault, Write, Call, LockCore, QueueMessage, SendTimeout, Signal,
           SendNoMemory, NetifStep, ParserStep, NetifWake, StackRuns, NetifRead, NetifEmpty,
           NetifDrops, ReadAnswer, bus, engine
  <2> QED BY <2>1, <2>2, <2>3 DEF Next, Quiet
<1>6. ASSUME rxbuf.type = AtType, ReadAnswer PROVE ~EngineStuck'
  <2>1. rxbuf' = rxbuf /\ rxq' = [rxq EXCEPT ![AtType] = Tail(@)]
    BY <1>6 DEF ReadAnswer, engine
  <2>2. rxq'[AtType] = Tail(rxq[AtType])
    BY <1>1, <1>6, <2>1 DEF TypeOK
  <2>3. Len(Tail(rxq[AtType])) = Len(rxq[AtType]) - 1 /\ Len(rxq[AtType]) \in Nat
    BY <1>2, <1>4, <1>6
  <2>4. Len(rxq'[AtType]) < RxqLen[AtType]
    BY <1>1, <1>2, <1>6, <2>2, <2>3
  <2> QED BY <1>6, <2>1, <2>4 DEF EngineStuck, HasRoom
<1> QED BY <1>1, <1>3, <1>4, <1>5, <1>6 DEF Bound, Filled

(* The netif task at its queues, and the parser task at its own.           *)
LEMMA AtTheQueues ==
  ASSUME TypeOK, Users, [Next]_vars
  PROVE  /\ tpc[Netif] = "idle" => tpc'[Netif] \in {"idle", "read"}
         /\ tpc[Netif] = "idle" /\ NetifTurn => tpc'[Netif] = "read"
         /\ tpc[Netif] = "read" /\ NetifTurn => NetifWork
         /\ tpc[Netif] = "read" /\ ~NetifWork => tpc'[Netif] = "read"
         /\ tpc[Parser] = "idle" /\ ParserTurn => ReadAnswer
         /\ tpc[Parser] = "idle" /\ ~ReadAnswer => tpc'[Parser] = "idle"
<1>0. Netif \in Threads /\ Netif # Parser /\ Netif \notin Senders /\ Parser \in Threads
      /\ Parser \notin Senders
  BY SpiAssumption DEF Threads
<1>1. ASSUME NEW p \in Threads, Moves(p)
      PROVE  /\ tpc[Netif] = "idle" => tpc'[Netif] \in {"idle", "read"}
             /\ tpc[Netif] = "read" /\ ~NetifWork => tpc'[Netif] = "read"
             /\ tpc[Parser] = "idle" /\ ~ReadAnswer => tpc'[Parser] = "idle"
  <2>1. p # Netif => tpc'[Netif] = tpc[Netif]
    BY <1>0, <1>1 DEF Moves
  <2>2. p # Parser => tpc'[Parser] = tpc[Parser]
    BY <1>0, <1>1 DEF Moves
  <2> QED BY <1>0, <1>1, <2>1, <2>2 DEF Moves
<1>2. tpc[Netif] = "idle" /\ NetifTurn => tpc'[Netif] = "read"
  BY <1>0, OthersStay
     DEF NetifTurn, NetifStep, NetifWake, StackRuns, NetifRead, NetifEmpty, Write, QueueMessage,
         SendTimeout, Signal
<1>3. tpc[Netif] = "read" /\ NetifTurn => NetifWork
  BY DEF NetifTurn, NetifStep, NetifWake, StackRuns, Write, QueueMessage, SendTimeout, Signal,
         NetifWork
<1>4. tpc[Parser] = "idle" /\ ParserTurn => ReadAnswer
  BY DEF ParserTurn, ParserStep, StackRuns, Write, QueueMessage, SendTimeout, Signal
<1> QED BY <1>1, <1>2, <1>3, <1>4, OneMoves

(* The engine does not wait for ever for room in a receive queue: its      *)
(* reader, and whatever this one waits for in turn, gets on without it.    *)
(* First the queue of AT messages, then those of the network interfaces.   *)
LEMMA AnswersMakeRoom ==
  Spec /\ ReadersGoOn => []<>~(EngineStuck /\ rxbuf.type = AtType)
<1> DEFINE Stuck == EngineStuck /\ rxbuf.type = AtType
           Idle == tpc[Parser] = "idle"
           Away == tpc[Parser] # "idle"
           Answer == ReadAnswer
           Rests == ParserRests
           Turn == ParserTurn
           All == TypeOK /\ Users /\ Filled
<1>1. (Away <=> ~Idle) /\ (All /\ Stuck /\ Idle => ~Rests)
  BY StuckFacts DEF ParserRests
<1>2. All /\ [Next]_vars =>
        /\ Idle /\ Turn => Answer
        /\ Idle /\ ~Answer => Idle'
        /\ Stuck /\ Answer => ~Stuck'
  BY AtTheQueues, StuckFacts
<1>3. Spec => []All
  BY SpiTypeCorrect, UsersHold, FilledHolds, PTL
<1>4. ReadersGoOn => ([]<>Rests \/ []<><<Turn>>_vars)
  BY DEF ReadersGoOn, ParserGoesOn
<1>5. Spec /\ ReadersGoOn => (Away ~> Idle)
  BY ParserComesBack DEF ReadersGoOn
<1> HIDE DEF Stuck, Idle, Away, Answer, Rests, Turn, All
<1> DEFINE Goes == []<>Rests \/ []<><<Turn>>_vars
<1>6. Spec /\ Goes /\ (Away ~> Idle) => []<>~Stuck
  BY <1>1, <1>2, <1>3, PTL DEF Spec
<1> QED BY <1>4, <1>5, <1>6 DEF Stuck

LEMMA PacketsMakeRoom ==
  Spec /\ ReadersGoOn /\ PacketsEnd => []<>~(EngineStuck /\ rxbuf.type \in NetTypes)
<1> DEFINE Stuck == EngineStuck /\ rxbuf.type \in NetTypes
           Engine == EngineStuck
           Idle == tpc[Netif] = "idle"
           Read == tpc[Netif] = "read"
           Away == tpc[Netif] \notin {"idle", "read"}
           Work == NetifWork
           Rests == NetifRests
           Turn == NetifTurn
           All == TypeOK /\ Users /\ Filled
<1>1. /\ Away <=> ~Idle /\ ~Read
      /\ Idle => ~Read
      /\ Stuck => Engine
      /\ Read => ~Rests
      /\ All /\ Stuck /\ Idle => ~Rests
  <2>1. ASSUME All, Stuck, Idle PROVE notified # {}
    BY <2>1, StuckFacts DEF Filled, Rested
  <2> QED BY <2>1 DEF NetifRests
<1>2. All /\ [Next]_vars =>
        /\ Idle => Idle' \/ Read'
        /\ Idle /\ Turn => Read'
        /\ Read /\ Turn => Work
        /\ Read /\ [~Work]_vars => Read'
  BY AtTheQueues DEF vars, users
<1>3. Spec => []All
  BY SpiTypeCorrect, UsersHold, FilledHolds, PTL
<1>4. ReadersGoOn => ([]<>Rests \/ []<><<Turn>>_vars)
  BY DEF ReadersGoOn, NetifGoesOn
<1>5. Spec /\ ReadersGoOn => (Away ~> Read)
  BY NetifComesBack DEF ReadersGoOn
<1>6. PacketsEnd => ([]<>~Engine \/ <>[][~Work]_vars)
  BY DEF PacketsEnd
<1> HIDE DEF Stuck, Engine, Idle, Read, Away, Work, Rests, Turn, All
<1> DEFINE Goes == []<>Rests \/ []<><<Turn>>_vars
           End == []<>~Engine \/ <>[][~Work]_vars
<1>7. Spec /\ Goes /\ (Away ~> Read) /\ End => []<>~Stuck
  BY <1>1, <1>2, <1>3, PTL DEF Spec
<1> QED BY <1>4, <1>5, <1>6, <1>7 DEF Stuck

(* The engine, which holds the NCP while it waits for room in a receive    *)
(* queue, does not wait for ever: the reader of this queue comes to read,  *)
(* from the core lock, from the stack or from a message of its own that    *)
(* only this engine could take, as long as readers and lock holders go on. *)
THEOREM RoomIsMade == Spec /\ ReadersGoOn /\ PacketsEnd => RoomComes
<1> DEFINE Stuck == EngineStuck
           OnAnswers == EngineStuck /\ rxbuf.type = AtType
           OnPackets == EngineStuck /\ rxbuf.type \in NetTypes
           All == TypeOK /\ Filled
<1>1. All /\ Stuck => OnAnswers \/ OnPackets
  BY StuckFacts
<1>2. All /\ [Next]_vars /\ Stuck' => (OnAnswers => OnAnswers') /\ (OnPackets => OnPackets')
  BY StuckFacts
<1>3. Spec => []All
  BY SpiTypeCorrect, FilledHolds, PTL
<1>4. Spec /\ ReadersGoOn => []<>~OnAnswers
  BY AnswersMakeRoom
<1>5. Spec /\ ReadersGoOn /\ PacketsEnd => []<>~OnPackets
  BY PacketsMakeRoom
<1> HIDE DEF Stuck, OnAnswers, OnPackets, All
<1>6. Spec /\ []<>~OnAnswers /\ []<>~OnPackets => []<>~Stuck
  BY <1>1, <1>2, <1>3, PTL DEF Spec
<1> QED BY <1>4, <1>5, <1>6 DEF Stuck, RoomComes

(* When the NCP stops sending and nothing fails, everything is read: no    *)
(* reader is left behind in the stack, or asleep over a packet.            *)
THEOREM AllIsRead ==
  ASSUME MaxFaults = 0
  PROVE  Spec /\ ReadersGoOn /\ MessagesEnd => EverythingIsRead
<1> DEFINE Idle == tpc[Netif] = "idle"
           Read == tpc[Netif] = "read"
           Away == tpc[Netif] \notin {"idle", "read"}
           Work == NetifWork
           Rests == NetifRests
           Turn == NetifTurn
           PIdle == tpc[Parser] = "idle"
           PAway == tpc[Parser] # "idle"
           Answer == ReadAnswer
           PRests == ParserRests
           PTurn == ParserTurn
           NoRead == ~ReadAnswer /\ ~NetifWork
           All == TypeOK /\ Users /\ Filled /\ NoForgottenPacket
<1>1. /\ Away <=> ~Idle /\ ~Read
      /\ Read => ~Rests /\ ~Idle
      /\ Rests /\ ~Away => Idle
      /\ PAway <=> ~PIdle
      /\ NoRead <=> ~Answer /\ ~Work
  BY DEF NetifRests
<1>2. All /\ [Next]_vars =>
        /\ Idle => Idle' \/ Read'
        /\ Idle /\ Turn => Read'
        /\ Read /\ Turn => Work
        /\ Read /\ [NoRead]_vars => Read'
        /\ PIdle /\ PTurn => Answer
        /\ PIdle /\ [NoRead]_vars => PIdle'
  BY AtTheQueues DEF vars, users
<1>3. Spec => []All
  BY SpiTypeCorrect, UsersHold, FilledHolds, PacketsAttended, PTL
<1>4. ReadersGoOn =>
        /\ []<>Rests \/ []<><<Turn>>_vars
        /\ []<>PRests \/ []<><<PTurn>>_vars
  BY DEF ReadersGoOn, NetifGoesOn, ParserGoesOn
<1>5. Spec /\ ReadersGoOn => (Away ~> Read) /\ (PAway ~> PIdle)
  BY NetifComesBack, ParserComesBack DEF ReadersGoOn
<1>6. MessagesEnd => <>[][NoRead]_vars
  BY DEF MessagesEnd
<1>7. ASSUME NEW t \in NetTypes, All, Idle, Rests PROVE rxq[t] = <<>>
  <2>1. faults = 0
    BY <1>7 DEF TypeOK
  <2> QED BY <1>7, <2>1 DEF NetifRests, NoForgottenPacket, Filled, Rested
<1>8. ASSUME PIdle, PRests PROVE rxq[AtType] = <<>>
  BY <1>8 DEF ParserRests
<1> HIDE DEF Idle, Read, Away, Work, Rests, Turn, PIdle, PAway, Answer, PRests, PTurn, NoRead, All
<1> DEFINE Goes == []<>Rests \/ []<><<Turn>>_vars
           PGoes == []<>PRests \/ []<><<PTurn>>_vars
<1>9. Spec /\ Goes /\ (Away ~> Read) /\ <>[][NoRead]_vars => []<>(All /\ Idle /\ Rests)
  BY <1>1, <1>2, <1>3, PTL DEF Spec
<1>10. Spec /\ PGoes /\ (PAway ~> PIdle) /\ <>[][NoRead]_vars => []<>(PIdle /\ PRests)
  BY <1>1, <1>2, <1>3, PTL DEF Spec
<1>11. ASSUME NEW t \in Bound
       PROVE  Spec /\ ReadersGoOn /\ MessagesEnd => []<>(rxq[t] = <<>>)
  <2> DEFINE Empty == rxq[t] = <<>>
  <2>1. CASE t = AtType
    <3>1. PIdle /\ PRests => Empty
      BY <1>8, <2>1
    <3> HIDE DEF Empty
    <3>2. []<>(PIdle /\ PRests) => []<>Empty
      BY <3>1, PTL
    <3> QED BY <1>4, <1>5, <1>6, <1>10, <3>2 DEF Empty
  <2>2. CASE t \in NetTypes
    <3>1. All /\ Idle /\ Rests => Empty
      BY <1>7, <2>2
    <3> HIDE DEF Empty
    <3>2. []<>(All /\ Idle /\ Rests) => []<>Empty
      BY <3>1, PTL
    <3> QED BY <1>4, <1>5, <1>6, <1>9, <3>2 DEF Empty
  <2> QED BY <2>1, <2>2 DEF Bound
<1> QED BY <1>11 DEF EverythingIsRead

(* The next message is taken by the NCP in the end, through stalls,        *)
(* timeouts and failures, as long as the engine, RDY and the threads that  *)
(* use the bus go on, what there is to read has an end while the engine    *)
(* waits, and some time nothing fails any more and the NCP has room: no    *)
(* order of events leaves the engine asleep, waiting for RDY or for room,  *)
(* or going round with a message it does not send.                         *)
THEOREM NextIsTaken == Spec /\ BusGoesOn /\ FailuresEnd => EverythingIsTaken
BY TakenWithRoom, RoomIsMade DEF BusGoesOn
=============================================================================
