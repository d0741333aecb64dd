----------------------------- MODULE SpiEngine -----------------------------
(***************************************************************************)
(* The transfer engine task of spi_iface.c and the NCP as the engine sees  *)
(* it (external): it raises RDY when it has a message or is selected,      *)
(* exchanges one message each way with the engine, and lowers RDY to       *)
(* acknowledge the header.                                                 *)
(*                                                                         *)
(* An action goes from one point where the engine blocks, or reads what an *)
(* interrupt writes, to the next. Of the tasks that use the bus only the   *)
(* parser task can preempt it, and no action touches two things that one   *)
(* may change in between.                                                  *)
(***************************************************************************)
EXTENDS SpiShared

Fault == faults < MaxFaults /\ faults' = faults + 1

(* Mutant: only an NCP that is ready starts a transfer. *)
MutEngineWake ==
  /\ epc = "idle"
  /\ event \cap {"TXN_PENDING", "TXN_RDY"} # {}
  /\ event' = event \ {"TXN_PENDING", "TXN_RDY"}
  /\ skipWait' = ("TXN_RDY" \in event)
  /\ epc' = IF "TXN_RDY" \in event THEN "loop" ELSE "idle"
  /\ UNCHANGED <<queues, txbuf, rxStall, rxRestore, rxbuf, pins, store, peer, users, faults>>

(* spi_xfer_engine_task: wait for work, clearing both bits. *)
EngineWake ==
  /\ epc = "idle"
  /\ event \cap {"TXN_PENDING", "TXN_RDY"} # {}
  /\ event' = event \ {"TXN_PENDING", "TXN_RDY"}
  /\ skipWait' = ("TXN_RDY" \in event)
  /\ epc' = "loop"
  /\ UNCHANGED <<queues, txbuf, rxStall, rxRestore, rxbuf, pins, store, peer, users, faults>>

(* spi_get_txbuf: the message of an unfinished transfer comes first. *)
GetTxbuf ==
  IF txbuf = 0 /\ txq # <<>>
    THEN txbuf' = Head(txq) /\ txq' = Tail(txq)
    ELSE UNCHANGED <<txbuf, txq>>

(* Mutant: the flag is kept for the next transfer of the loop. *)
MutStartTransfer ==
  /\ epc = "loop"
  /\ GetTxbuf
  /\ txbuf' # 0 \/ rdy # "low"
  /\ selected' = TRUE
  /\ rxRestore' = FALSE
  /\ epc' = IF skipWait THEN "setup" ELSE "wait"
  /\ UNCHANGED <<event, rxq, rxStall, skipWait, rxbuf, rdy, aborted, store, peer, users, faults>>

(* spi_do_xfer: select the NCP when there is something to send or RDY is   *)
(* high, and skip the wait for RDY if its event woke the task.             *)
StartTransfer ==
  /\ epc = "loop"
  /\ GetTxbuf
  /\ txbuf' # 0 \/ rdy # "low"
  /\ selected' = TRUE
  /\ skipWait' = FALSE
  /\ rxRestore' = FALSE
  /\ epc' = IF skipWait THEN "setup" ELSE "wait"
  /\ UNCHANGED <<event, rxq, rxStall, rxbuf, rdy, aborted, store, peer, users, faults>>

(* spi_do_xfer: nothing to do, back to the wait of the task. *)
NothingToDo ==
  /\ epc = "loop"
  /\ GetTxbuf
  /\ txbuf' = 0 /\ rdy = "low"
  /\ epc' = "idle"
  /\ skipWait' = FALSE
  /\ UNCHANGED <<event, rxq, rxStall, rxRestore, rxbuf, pins, store, peer, users, faults>>

(* spi_xfer_one: the wait for TXN_RDY. *)
TxnReady ==
  /\ epc = "wait"
  /\ "TXN_RDY" \in event
  /\ event' = event \ {"TXN_RDY"}
  /\ epc' = "setup"
  /\ UNCHANGED <<queues, txbuf, rxStall, skipWait, rxRestore, rxbuf, pins, store, peer, users, faults>>

(* An early return of spi_xfer_one: the NCP is deselected, txbuf is kept   *)
(* and the loop of spi_do_xfer goes round.                                 *)
GiveUp ==
  /\ Fault
  /\ selected' = FALSE
  /\ rxbuf' = NoMsg
  /\ epc' = "loop"
  /\ UNCHANGED <<txbuf, skipWait, rxRestore>>

TxnTimeout ==
  /\ epc = "wait"
  /\ "TXN_RDY" \notin event
  /\ GiveUp
  /\ aborted' = (rdy = "high")
  /\ UNCHANGED <<event, queues, rxStall, rdy, store, peer, users>>

(* spi_xfer_one: forget acknowledgements of the past, allocate rxbuf. *)
SetUp ==
  /\ epc = "setup"
  /\ event' = event \ {"HDR_ACKED"}
  /\ epc' = "first"
  /\ UNCHANGED <<queues, txbuf, rxStall, skipWait, rxRestore, rxbuf, pins, store, peer, users, faults>>

SetUpFails ==
  /\ epc = "setup"
  /\ event' = event \ {"HDR_ACKED"}
  /\ GiveUp
  /\ aborted' = (rdy = "high")
  /\ UNCHANGED <<queues, rxStall, rdy, store, peer, users>>

(* Headers cross. The message goes with the header unless the NCP has said *)
(* it is stalled; the NCP keeps it unless its own header says so.          *)
Exchange ==
  /\ rdy' = "taken"
  /\ selected' = FALSE
  /\ outbox' = IF outbox = <<>> THEN outbox ELSE Tail(outbox)
  /\ IF txbuf # 0 /\ ~rxStall /\ ~full
       THEN accepted' = txbuf /\ takes' = takes + 1
       ELSE UNCHANGED <<accepted, takes>>

(* Mutant: the message is freed only if one was received. *)
MutReceivedKeep(stall, restore, m) ==
  /\ txbuf' = IF ~stall /\ ~restore /\ m # NoMsg THEN 0 ELSE txbuf
  /\ epc' = IF m = NoMsg THEN "ack" ELSE "deliver"

(* Both parts done: free the message sent, unless the NCP is stalled or    *)
(* was, and go on with the message received, if any.                       *)
Received(stall, restore, m) ==
  /\ txbuf' = IF ~stall /\ ~restore THEN 0 ELSE txbuf
  /\ epc' = IF m = NoMsg THEN "ack" ELSE "deliver"

(* First transaction: as much data as the shorter side holds goes with the *)
(* headers; a second transaction follows when the NCP has more.            *)
FirstPart ==
  /\ epc = "first"
  /\ Exchange
  /\ rxStall' = full
  /\ rxRestore' = (rxStall /\ ~full)
  /\ rxbuf' = IF outbox = <<>> THEN NoMsg ELSE Head(outbox)
  /\ \/ Received(rxStall', rxRestore', rxbuf')
     \/ outbox # <<>> /\ epc' = "second" /\ UNCHANGED txbuf
  /\ UNCHANGED <<event, queues, skipWait, aborted, full, stalls, given, users, faults>>

(* A bus error or an invalid header, before or after the NCP has taken its *)
(* part of the exchange.                                                   *)
FirstPartFails ==
  /\ epc = "first"
  /\ GiveUp
  /\ \/ Exchange /\ UNCHANGED aborted
     \/ aborted' = TRUE /\ UNCHANGED <<rdy, outbox, peer>>
  /\ UNCHANGED <<event, queues, rxStall, full, stalls, given, users>>

SecondPart ==
  /\ epc = "second"
  /\ Received(rxStall, rxRestore, rxbuf)
  /\ UNCHANGED <<event, queues, rxStall, skipWait, rxRestore, rxbuf, pins, store, peer, users, faults>>

SecondPartFails ==
  /\ epc = "second"
  /\ GiveUp
  /\ UNCHANGED <<event, queues, rxStall, rdy, aborted, store, peer, users>>

(* Mutant: the received buffer stays with the transfer. *)
MutDeliverTwice ==
  /\ epc = "deliver"
  /\ rxbuf.type \in Bound
  /\ Len(rxq[rxbuf.type]) < RxqLen[rxbuf.type]
  /\ rxq' = [rxq EXCEPT ![rxbuf.type] = Append(@, rxbuf)]
  /\ notified' = notified \cup ({rxbuf.type} \cap NetTypes)
  /\ IF Len(rxq'[rxbuf.type]) = 1
       THEN UNCHANGED <<rxbuf, epc>>
       ELSE rxbuf' = NoMsg /\ epc' = "ack"
  /\ UNCHANGED <<event, txq, txbuf, rxStall, skipWait, rxRestore, pins, store, peer,
                 tpc, coreLock, netEvent, linkCalls, calls, queued, lastRead, faults>>

(* xQueueSend(rxq, portMAX_DELAY), which blocks with the NCP selected, and *)
(* the callback registered by w6x_netif.c, which notifies the netif task.  *)
Deliver ==
  /\ epc = "deliver"
  /\ rxbuf.type \in Bound
  /\ Len(rxq[rxbuf.type]) < RxqLen[rxbuf.type]
  /\ rxq' = [rxq EXCEPT ![rxbuf.type] = Append(@, rxbuf)]
  /\ notified' = notified \cup ({rxbuf.type} \cap NetTypes)
  /\ rxbuf' = NoMsg
  /\ epc' = "ack"
  /\ UNCHANGED <<event, txq, txbuf, rxStall, skipWait, rxRestore, pins, store, peer,
                 tpc, coreLock, netEvent, linkCalls, calls, queued, lastRead, faults>>

(* No queue is bound to the type: the message is dropped. *)
Discard ==
  /\ epc = "deliver"
  /\ rxbuf.type \notin Bound
  /\ rxbuf' = NoMsg
  /\ epc' = "ack"
  /\ UNCHANGED <<event, queues, txbuf, rxStall, skipWait, rxRestore, pins, store, peer, users, faults>>

(* Mutant: one transfer per wake-up. *)
MutHeaderAcked ==
  /\ epc = "ack"
  /\ "HDR_ACKED" \in event
  /\ event' = event \ {"HDR_ACKED"}
  /\ epc' = "idle"
  /\ UNCHANGED <<queues, txbuf, rxStall, skipWait, rxRestore, rxbuf, pins, store, peer, users, faults>>

(* The wait for HDR_ACKED ends with its event, or after 100 ms if RDY is   *)
(* found low. The loop of spi_do_xfer goes round.                          *)
HeaderAcked ==
  /\ epc = "ack"
  /\ "HDR_ACKED" \in event
  /\ event' = event \ {"HDR_ACKED"}
  /\ epc' = "loop"
  /\ UNCHANGED <<queues, txbuf, rxStall, skipWait, rxRestore, rxbuf, pins, store, peer, users, faults>>

AckTimeout ==
  /\ epc = "ack"
  /\ "HDR_ACKED" \notin event
  /\ epc' = "poll"
  /\ UNCHANGED <<event, queues, txbuf, rxStall, skipWait, rxRestore, rxbuf, pins, store, peer, users, faults>>

PollReady ==
  /\ epc = "poll"
  /\ epc' = IF rdy = "low" THEN "loop" ELSE "ack"
  /\ UNCHANGED <<event, queues, txbuf, rxStall, skipWait, rxRestore, rxbuf, pins, store, peer, users, faults>>

EngineStep ==
  \/ EngineWake \/ StartTransfer \/ NothingToDo
  \/ TxnReady \/ SetUp \/ FirstPart \/ SecondPart
  \/ Deliver \/ Discard
  \/ HeaderAcked \/ AckTimeout \/ PollReady

EngineFault == TxnTimeout \/ SetUpFails \/ FirstPartFails \/ SecondPartFails

(***************************************************************************)
(* The NCP and the pin interrupts.                                         *)
(***************************************************************************)

(* RDY rises: spi_on_txn_data_ready. *)
RdyRises ==
  /\ rdy = "low"
  /\ selected \/ outbox # <<>>
  /\ rdy' = "high"
  /\ event' = event \cup {"TXN_RDY"}
  /\ UNCHANGED <<queues, engine, selected, aborted, store, peer, users, faults>>

(* RDY falls, after the exchange or after chip select fell without one:    *)
(* spi_on_header_ack.                                                      *)
RdyFalls ==
  /\ rdy = "taken" \/ (rdy = "high" /\ aborted)
  /\ rdy' = "low"
  /\ aborted' = FALSE
  /\ event' = event \cup {"HDR_ACKED"}
  /\ UNCHANGED <<queues, engine, selected, store, peer, users, faults>>

NcpSends ==
  /\ given < MaxUp
  /\ given' = given + 1
  /\ \E t \in Types : outbox' = Append(outbox, [type |-> t, id |-> given + 1])
  /\ UNCHANGED <<event, queues, engine, pins, full, stalls, peer, users, faults>>

NcpFull ==
  /\ ~full
  /\ stalls < MaxStalls
  /\ full' = TRUE
  /\ stalls' = stalls + 1
  /\ UNCHANGED <<event, queues, engine, pins, outbox, given, peer, users, faults>>

NcpHasRoom ==
  /\ full
  /\ full' = FALSE
  /\ UNCHANGED <<event, queues, engine, pins, outbox, stalls, given, peer, users, faults>>

NcpStep == RdyRises \/ RdyFalls \/ NcpHasRoom
=============================================================================
