------------------------------ MODULE SpiUsers ------------------------------
(***************************************************************************)
(* The users of the SPI bus: threads in spi_write, some of them holding    *)
(* the LwIP core lock (LWIP_TCPIP_CORE_LOCKING); the netif task of         *)
(* lwip_netif.c, which takes that lock for every packet it passes to       *)
(* tcpip_input and may answer the packet from there; and the parser task,  *)
(* which reads the AT answers and may send from the link callbacks of      *)
(* lwip.c: within netif_set_link_up, which it calls without the core lock, *)
(* and within the calls of netifapi that follow, which take it.            *)
(***************************************************************************)
EXTENDS SpiShared

Failure == faults < MaxFaults /\ faults' = faults + 1

bus == <<event, queues, engine, pins, store, peer>>

Goto(p, pc) == tpc' = [tpc EXCEPT ![p] = pc]

(* Where a thread goes on when a call of the stack, or of spi_write alone, *)
(* is over.                                                                *)
Onward(p) ==
  CASE p = Netif -> "read"
    [] p = Parser /\ linkCalls # {} -> "lock"
    [] OTHER -> "idle"

(* Back from spi_write or from the stack: the core lock is released. *)
Return(p) ==
  /\ coreLock' = IF coreLock = p THEN NoOne ELSE coreLock
  /\ Goto(p, Onward(p))

(* A thread has a command or a packet to send. *)
Call(p) ==
  /\ p \in Senders
  /\ tpc[p] = "idle"
  /\ calls < MaxCalls
  /\ calls' = calls + 1
  /\ Goto(p, IF p \in LwipSenders THEN "lock" ELSE "send")
  /\ UNCHANGED <<bus, coreLock, notified, netEvent, linkCalls, queued, lastRead, faults>>

(* netifapi_dhcp_release comes before netifapi_dhcp_start. *)
FirstCall == IF "release" \in linkCalls THEN "release" ELSE "start"

LockCore(p) ==
  /\ tpc[p] = "lock"
  /\ coreLock = NoOne
  /\ coreLock' = p
  /\ Goto(p, IF p \in Senders THEN "send" ELSE "input")
  /\ linkCalls' = IF p = Parser THEN linkCalls \ {FirstCall} ELSE linkCalls
  /\ UNCHANGED <<bus, notified, netEvent, calls, queued, lastRead, faults>>

(* spi_write: xQueueSend finds or gets room. *)
QueueMessage(p) ==
  /\ tpc[p] = "send"
  /\ Len(txq) < TxqLen
  /\ txq' = Append(txq, queued + 1)
  /\ queued' = queued + 1
  /\ Goto(p, "signal")
  /\ UNCHANGED <<event, rxq, engine, pins, store, peer, coreLock, notified, netEvent,
                 linkCalls, calls, lastRead, faults>>

(* Mutant: wait for room without limit. *)
MutSendTimeout(p) ==
  /\ FALSE
  /\ UNCHANGED vars

(* spi_write: no room within the timeout (10 s for a packet). *)
SendTimeout(p) ==
  /\ tpc[p] = "send"
  /\ Len(txq) = TxqLen
  /\ Return(p)
  /\ UNCHANGED <<bus, notified, netEvent, linkCalls, calls, queued, lastRead, faults>>

(* spi_write: no memory for the buffer. *)
SendNoMemory(p) ==
  /\ tpc[p] = "send"
  /\ Failure
  /\ Return(p)
  /\ UNCHANGED <<bus, notified, netEvent, linkCalls, calls, queued, lastRead>>

(* spi_write: tell the engine. *)
Signal(p) ==
  /\ tpc[p] = "signal"
  /\ event' = event \cup {"TXN_PENDING"}
  /\ Return(p)
  /\ UNCHANGED <<queues, engine, pins, store, peer, notified, netEvent,
                 linkCalls, calls, queued, lastRead, faults>>

(* netif_task: xTaskNotifyWait, which clears the bits. *)
NetifWake ==
  /\ tpc[Netif] = "idle"
  /\ notified # {}
  /\ netEvent' = notified
  /\ notified' = {}
  /\ Goto(Netif, "read")
  /\ UNCHANGED <<bus, coreLock, linkCalls, calls, queued, lastRead, faults>>

(* netif_rx_process has returned 0 or less: the link is done with. *)
LinkDone(t) ==
  /\ netEvent' = netEvent \ {t}
  /\ Goto(Netif, IF netEvent' = {} THEN "idle" ELSE "read")

(* Mutant: one packet per notification, handled at once. *)
MutNetifRead(t) ==
  /\ tpc[Netif] = "read"
  /\ t \in netEvent
  /\ rxq[t] # <<>>
  /\ rxq' = [rxq EXCEPT ![t] = Tail(@)]
  /\ lastRead' = [lastRead EXCEPT ![t] = Head(rxq[t]).id]
  /\ LinkDone(t)
  /\ UNCHANGED <<event, txq, engine, pins, store, peer, coreLock, notified, linkCalls, calls, queued, faults>>

(* netif_rx_process: the packet is passed to the stack. *)
NetifRead(t) ==
  /\ tpc[Netif] = "read"
  /\ t \in netEvent
  /\ rxq[t] # <<>>
  /\ rxq' = [rxq EXCEPT ![t] = Tail(@)]
  /\ lastRead' = [lastRead EXCEPT ![t] = Head(rxq[t]).id]
  /\ Goto(Netif, "lock")
  /\ UNCHANGED <<event, txq, engine, pins, store, peer, coreLock, notified, netEvent,
                 linkCalls, calls, queued, faults>>

(* netif_rx_process: no memory for its pbuf, the packet is dropped. *)
NetifDrops(t) ==
  /\ tpc[Netif] = "read"
  /\ t \in netEvent
  /\ rxq[t] # <<>>
  /\ Failure
  /\ rxq' = [rxq EXCEPT ![t] = Tail(@)]
  /\ lastRead' = [lastRead EXCEPT ![t] = Head(rxq[t]).id]
  /\ LinkDone(t)
  /\ UNCHANGED <<event, txq, engine, pins, store, peer, coreLock, notified, linkCalls, calls, queued>>

NetifEmpty(t) ==
  /\ tpc[Netif] = "read"
  /\ t \in netEvent
  /\ rxq[t] = <<>>
  /\ LinkDone(t)
  /\ UNCHANGED <<bus, coreLock, notified, linkCalls, calls, queued, lastRead, faults>>

(* The stack has done its work, or sends a packet: in tcpip_input, in a    *)
(* call of netifapi, in netif_set_link_up.                                 *)
StackRuns(p) ==
  /\ tpc[p] \in {"input", "report"}
  /\ \/ /\ calls < MaxCalls
        /\ calls' = calls + 1
        /\ Goto(p, "send")
        /\ UNCHANGED coreLock
     \/ /\ Return(p)
        /\ UNCHANGED calls
  /\ UNCHANGED <<bus, notified, netEvent, linkCalls, queued, lastRead, faults>>

(* The parser task, in spi_read without a time limit, gets an answer or an *)
(* event that does not concern the link; or the link is up, when DHCP is   *)
(* started unless its timer exists, or down, when the lease is released.   *)
ReadAnswer ==
  /\ tpc[Parser] = "idle"
  /\ rxq[AtType] # <<>>
  /\ rxq' = [rxq EXCEPT ![AtType] = Tail(@)]
  /\ lastRead' = [lastRead EXCEPT ![AtType] = Head(rxq[AtType]).id]
  /\ \/ UNCHANGED <<tpc, linkCalls>>
     \/ Goto(Parser, "report") /\ linkCalls' \in {{}, {"release", "start"}}
     \/ Goto(Parser, "lock") /\ linkCalls' = {"release"}
  /\ UNCHANGED <<event, txq, engine, pins, store, peer, coreLock, notified, netEvent,
                 calls, queued, faults>>

Write(p) == QueueMessage(p) \/ SendTimeout(p) \/ Signal(p)

NetifStep ==
  NetifWake \/ StackRuns(Netif) \/ \E t \in NetTypes : NetifRead(t) \/ NetifEmpty(t)

ParserStep == ReadAnswer \/ StackRuns(Parser)

UserFault == (\E p \in Threads : SendNoMemory(p)) \/ (\E t \in NetTypes : NetifDrops(t))
=============================================================================
