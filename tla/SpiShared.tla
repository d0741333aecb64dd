----------------------------- MODULE SpiShared -----------------------------
(***************************************************************************)
(* State of the host side of the SPI bus (struct spi_xfer_engine of        *)
(* spi_iface.c), of its users (threads that send, the netif task of        *)
(* lwip_netif.c, the parser task) and, external to the repository, of the  *)
(* network co-processor (NCP) at the other end.                            *)
(*                                                                         *)
(* A message is a number: those to the NCP are numbered as they enter the  *)
(* transmit queue, those from the NCP carry their traffic type too.        *)
(***************************************************************************)
EXTENDS Naturals, Sequences

CONSTANTS
  Senders,      \* threads that call spi_write
  LwipSenders,  \* those of them that do so holding the LwIP core lock
  Netif,        \* the netif task
  Parser,       \* the parser task, which reads AT answers and events
  AtType,       \* the traffic type of AT commands and answers
  NetTypes,     \* the traffic types of the network interfaces
  OtherTypes,   \* the traffic types no queue is bound to
  TxqLen,       \* SPI_TXQ_LEN
  RxqLen,       \* the depth given to spi_bind, by type
  MaxCalls,     \* bound: calls of spi_write
  MaxUp,        \* bound: messages the NCP sends
  MaxStalls,    \* bound: times the NCP runs out of receive buffers
  MaxFaults,    \* bound: bus errors, timeouts and failed allocations
  NoOne         \* the holder of a free lock

Bound == {AtType} \cup NetTypes
Types == Bound \cup OtherTypes
Threads == Senders \cup {Netif, Parser}

(* "TXN_PENDING" a message is queued, "TXN_RDY" the pin RDY rose,          *)
(* "HDR_ACKED" it fell.                                                    *)
Events == {"TXN_PENDING", "TXN_RDY", "HDR_ACKED"}

NoMsg == [type |-> "none", id |-> 0]
Msg == [type : Types, id : 1..MaxUp]

ASSUME SpiAssumption ==
  /\ LwipSenders \subseteq Senders
  /\ Netif \notin Senders /\ Parser \notin Senders /\ Netif # Parser
  /\ NoOne \notin Threads
  /\ AtType \notin NetTypes
  /\ "none" \notin Types
  /\ Bound \cap OtherTypes = {}
  /\ TxqLen \in Nat \ {0}
  /\ RxqLen \in [Bound -> Nat \ {0}]
  /\ MaxCalls \in Nat
  /\ MaxUp \in Nat
  /\ MaxStalls \in Nat
  /\ MaxFaults \in Nat

VARIABLES
  event,     \* engine.event: pending event bits
  txq,       \* engine.txq
  rxq,       \* engine.rxq, by bound type
  txbuf,     \* engine.txbuf: the message being sent, or 0
  rxStall,   \* engine.rx_stall: what the NCP last announced
  epc,       \* where the engine task is
  skipWait,  \* SPI_XFER_F_SKIP_FIRST_TXN_WAIT
  rxRestore, \* rx_restore of this transfer
  rxbuf,     \* the message received by this transfer, or NoMsg
  rdy,       \* NCP: RDY is "low", "high", or "taken": high, header exchanged
  selected,  \* NCP: chip select rose and no exchange has followed
  aborted,   \* NCP: chip select fell before the exchange
  outbox,    \* NCP: messages it has for the host
  full,      \* NCP: it has no room for a message of the host
  stalls,    \* NCP: times it ran out of room
  given,     \* NCP: messages it has put in its outbox
  accepted,  \* NCP: the last message it has taken
  takes,     \* NCP: how many messages it has taken, repeats included
  tpc,       \* where each thread is in a call of spi_write or in its loop
  coreLock,  \* the thread holding the LwIP core lock, or NoOne
  notified,  \* notification bits of the netif task, by type
  netEvent,  \* netif_event of the netif task
  linkCalls, \* netifapi calls left in a link callback of the parser task
  calls,     \* calls of spi_write so far
  queued,    \* history: the last message entered in the transmit queue
  lastRead,  \* history: the last message read, by bound type
  faults     \* bus errors, timeouts and failed allocations so far

queues == <<txq, rxq>>
engine == <<txbuf, rxStall, epc, skipWait, rxRestore, rxbuf>>
pins == <<rdy, selected, aborted>>
store == <<outbox, full, stalls, given>>
peer == <<accepted, takes>>
users == <<tpc, coreLock, notified, netEvent, linkCalls, calls, queued, lastRead>>
vars == <<event, queues, engine, pins, store, peer, users, faults>>

(* The state spi_transaction_init and net_if_init leave, with the NCP      *)
(* silent.                                                                 *)
Init ==
  /\ event = {}
  /\ txq = <<>>
  /\ rxq = [t \in Bound |-> <<>>]
  /\ txbuf = 0
  /\ rxStall = FALSE
  /\ epc = "idle"
  /\ skipWait = FALSE
  /\ rxRestore = FALSE
  /\ rxbuf = NoMsg
  /\ rdy = "low"
  /\ selected = FALSE
  /\ aborted = FALSE
  /\ outbox = <<>>
  /\ full = FALSE
  /\ stalls = 0
  /\ given = 0
  /\ accepted = 0
  /\ takes = 0
  /\ tpc = [p \in Threads |-> "idle"]
  /\ coreLock = NoOne
  /\ notified = {}
  /\ netEvent = {}
  /\ linkCalls = {}
  /\ calls = 0
  /\ queued = 0
  /\ lastRead = [t \in Bound |-> 0]
  /\ faults = 0

TypeOK ==
  /\ event \subseteq Events
  /\ txq \in Seq(Nat \ {0})
  /\ rxq \in [Bound -> Seq(Msg)]
  /\ txbuf \in Nat
  /\ rxStall \in BOOLEAN
  /\ epc \in {"idle", "loop", "wait", "setup", "first", "second", "deliver", "ack", "poll"}
  /\ skipWait \in BOOLEAN
  /\ rxRestore \in BOOLEAN
  /\ rxbuf \in Msg \cup {NoMsg}
  /\ rdy \in {"low", "high", "taken"}
  /\ selected \in BOOLEAN
  /\ aborted \in BOOLEAN
  /\ outbox \in Seq(Msg)
  /\ full \in BOOLEAN
  /\ stalls \in 0..MaxStalls
  /\ given \in 0..MaxUp
  /\ accepted \in Nat
  /\ takes \in Nat
  /\ tpc \in [Threads -> {"idle", "lock", "input", "report", "send", "signal", "read"}]
  /\ coreLock \in Threads \cup {NoOne}
  /\ notified \subseteq NetTypes
  /\ netEvent \subseteq NetTypes
  /\ linkCalls \subseteq {"release", "start"}
  /\ calls \in 0..MaxCalls
  /\ queued \in Nat
  /\ lastRead \in [Bound -> Nat]
  /\ faults \in 0..MaxFaults
=============================================================================
