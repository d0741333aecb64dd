------------------------------ MODULE MqttApp ------------------------------
(***************************************************************************)
(* The life cycle of the MQTT application (mqtt_app.c): main_app starts a  *)
(* task per attempt, the task resolves the broker, connects, creates the   *)
(* refresher and the subscription task, publishes until something fails,   *)
(* and takes everything down again. The DNS callback runs in the TCP/IP    *)
(* thread, the publish callback inside the refresher's mqtt_sync.          *)
(*                                                                         *)
(* External: the broker and the network, DNS, and the FreeRTOS scheduler,  *)
(* of which the priorities are kept: main_app (40), the TCP/IP thread (28) *)
(* and the subscription task (26) run at any moment, the MQTT tasks (18)   *)
(* share the processor in time slices, and the refresher (14) runs only    *)
(* while every MQTT task is blocked.                                       *)
(***************************************************************************)
EXTENDS Naturals, Sequences, FiniteSets

CONSTANTS
  MaxAttempts,  \* bound: calls of APP_MQTT_Start that get as far as a task
  QueueLen      \* the depth of sub_msg_queue

ASSUME MqttAssumption ==
  /\ MaxAttempts \in Nat \ {0}
  /\ QueueLen \in Nat \ {0}

Attempts == 1..MaxAttempts
Handles == 0..MaxAttempts  \* 0 is NULL; an object bears the number of its attempt
Messages == {"data", "reboot"}

(* Where an MQTT task may wait, and where it runs to its next wait.        *)
Blocked == {"mac", "wait", "connect", "loop", "publish", "close"}
Running == {"dns", "session", "refresher", "sub", "subscribe", "disconnect", "exit", "queue", "group",
            "gone"}

VARIABLES
  started,     \* ctx->mqtt_started
  sctx,        \* s_ctx is not NULL
  dnsFlags,    \* ctx->dns_event_flags
  dnsDone,     \* EVENT_FLAG_DNS_DONE of that event group
  queue,       \* ctx->sub_msg_queue
  msgs,        \* the messages in that queue
  refTask,     \* ctx->mqtt_refresher_task_handle
  subTask,     \* ctx->sub_task_handle
  syncing,     \* the refresher is in mqtt_sync
  inHand,      \* the subscription task is in the delay before a reboot
  mutex,       \* ctx->mqtt_client_mutex: 0 or the refresher that has taken it
  pc,          \* where the task of each attempt is
  stack,       \* which stack the task of each attempt has: 0, or who first had it
  res,         \* dns_res of each task: 0 (res = -1), or whose lookup gave the address
  lookups,     \* attempts whose DNS callback is still to come
  link,        \* the connection to the broker still works
  error,       \* s_client.error is not MQTT_OK
  heap,        \* message buffers allocated
  busy,        \* EVENT_FLAG_STREAM_TX_BUSY
  halted       \* a configASSERT has failed

context == <<started, sctx, dnsFlags, dnsDone, queue, msgs>>
aux == <<refTask, subTask, syncing, inHand, mutex>>
dns == <<stack, res, lookups>>
session == <<link, error>>
world == <<busy, halted>>
vars == <<context, aux, pc, dns, session, heap, world>>

Init ==
  /\ started = FALSE
  /\ sctx = FALSE
  /\ dnsFlags = 0
  /\ dnsDone = FALSE
  /\ queue = 0
  /\ msgs = <<>>
  /\ refTask = 0
  /\ subTask = 0
  /\ syncing = FALSE
  /\ inHand = FALSE
  /\ mutex = 0
  /\ pc = [a \in Attempts |-> "none"]
  /\ stack = [a \in Attempts |-> 0]
  /\ res = [a \in Attempts |-> 0]
  /\ lookups = {}
  /\ link = FALSE
  /\ error = FALSE
  /\ heap = 0
  /\ busy = FALSE
  /\ halted = FALSE

TypeOK ==
  /\ started \in BOOLEAN
  /\ sctx \in BOOLEAN
  /\ dnsFlags \in Handles
  /\ dnsDone \in BOOLEAN
  /\ queue \in Handles
  /\ msgs \in Seq(Messages)
  /\ refTask \in Handles
  /\ subTask \in Handles
  /\ syncing \in BOOLEAN
  /\ inHand \in BOOLEAN
  /\ mutex \in Handles
  /\ pc \in [Attempts -> Blocked \cup Running \cup {"none", "done"}]
  /\ stack \in [Attempts -> Handles]
  /\ res \in [Attempts -> Handles]
  /\ lookups \subseteq Attempts
  /\ link \in BOOLEAN
  /\ error \in BOOLEAN
  /\ heap \in Nat
  /\ busy \in BOOLEAN
  /\ halted \in BOOLEAN

Goto(a, l) == pc' = [pc EXCEPT ![a] = l]

Ended(a) == pc[a] \in {"none", "done"}

(* No MQTT task runs, so that the refresher may. *)
MqttTasksBlocked == \A a \in Attempts : pc[a] \notin Running

(* Mutant: a refresher of the priority of the MQTT task. *)
MutRefresherMayRun == TRUE

RefresherMayRun == MqttTasksBlocked

(* The task of attempt a is at l. *)
At(a, l) == ~halted /\ pc[a] = l

(* A new task gets memory of its own for its stack, or the stack of a task *)
(* that is gone.                                                           *)
FreeStacks(a) ==
  ({a} \cup {stack[b] : b \in {t \in Attempts : pc[t] = "done"}})
    \ {stack[b] : b \in {t \in Attempts : ~Ended(t)}}

-----------------------------------------------------------------------------
(* main_app: APP_MQTT_Start, once per Wi-Fi connection. *)

MayStart == ~halted /\ ~started

(* A new event group, queue and task; the handles are overwritten. *)
Start(a) ==
  /\ MayStart
  /\ pc[a] = "none"
  /\ \A b \in 1..(a - 1) : pc[b] # "none"
  /\ sctx' = TRUE
  /\ dnsFlags' = a
  /\ dnsDone' = FALSE
  /\ queue' = a
  /\ msgs' = <<>>
  /\ Goto(a, "mac")
  /\ \E m \in FreeStacks(a) : stack' = [stack EXCEPT ![a] = m]
  /\ started' = TRUE
  /\ UNCHANGED <<aux, res, lookups, session, heap, world>>

(* Mutant: the queue is left behind when the task cannot be created. *)
MutStartFails ==
  /\ MayStart
  /\ sctx' = TRUE
  /\ dnsFlags' = 0
  /\ queue' \in {queue, 1}
  /\ msgs' = <<>>
  /\ UNCHANGED <<started, dnsDone, aux, pc, dns, session, heap, world>>

(* The event group, the queue or the task cannot be created: those that    *)
(* could are deleted, and a handle that was overwritten is lost.           *)
StartFails ==
  /\ MayStart
  /\ sctx' = TRUE
  /\ dnsFlags' = 0
  /\ \/ UNCHANGED <<queue, msgs>>
     \/ queue' = 0 /\ msgs' = <<>>
  /\ UNCHANGED <<started, dnsDone, aux, pc, dns, session, heap, world>>

-----------------------------------------------------------------------------
(* APP_MQTT_Task: up to the session. *)

GetMac(a) ==
  /\ At(a, "mac")
  /\ \E l \in {"dns", "exit"} : Goto(a, l)
  /\ UNCHANGED <<context, aux, dns, session, heap, world>>

(* dns_gethostbyname has the address, or refuses. *)
Lookup(a) ==
  /\ At(a, "dns")
  /\ \E l \in {"connect", "exit"} : Goto(a, l)
  /\ res' = [res EXCEPT ![a] = IF pc'[a] = "connect" THEN a ELSE 0]
  /\ UNCHANGED <<context, aux, stack, lookups, session, heap, world>>

(* The lookup is in progress: the task waits on the event group it finds   *)
(* in the context, with dns_res.res = -1; xEventGroupWaitBits asserts that *)
(* the group is not NULL.                                                  *)
LookupPending(a) ==
  /\ At(a, "dns")
  /\ lookups' = lookups \cup {a}
  /\ res' = [res EXCEPT ![a] = 0]
  /\ IF dnsFlags = 0
       THEN halted' = TRUE /\ UNCHANGED pc
       ELSE Goto(a, "wait") /\ UNCHANGED halted
  /\ UNCHANGED <<context, aux, stack, session, heap, busy>>

(* dns_lookup_callback, in the TCP/IP thread: it stores the answer through *)
(* its pointer into the stack of the task that asked, and sets the bit of  *)
(* whatever event group the context has now. APP_MQTT_Task keeps dns_res   *)
(* at one place of its stack: when the task that asked is gone and another *)
(* one has its stack, the answer goes to the dns_res of that one, if it    *)
(* waits; before its wait dns_res is overwritten, and after it not used.   *)
DnsCallback(a) ==
  /\ ~halted
  /\ a \in lookups
  /\ lookups' = lookups \ {a}
  /\ \E r \in {0, a} :
       res' = [t \in Attempts |->
                 IF pc[t] = "wait" /\ stack[t] = stack[a] THEN r ELSE res[t]]
  /\ dnsDone' = (dnsDone \/ (sctx /\ dnsFlags # 0))
  /\ UNCHANGED <<started, sctx, dnsFlags, queue, msgs, aux, pc, stack, session, heap, world>>

(* Mutant: the result of the lookup is not looked at. *)
MutDnsWoken(a) ==
  /\ At(a, "wait")
  /\ dnsDone
  /\ dnsDone' = FALSE
  /\ Goto(a, "connect")
  /\ UNCHANGED <<started, sctx, dnsFlags, queue, msgs, aux, dns, session, heap, world>>

DnsWoken(a) ==
  /\ At(a, "wait")
  /\ dnsDone
  /\ dnsDone' = FALSE
  /\ Goto(a, IF res[a] # 0 THEN "connect" ELSE "exit")
  /\ UNCHANGED <<started, sctx, dnsFlags, queue, msgs, aux, dns, session, heap, world>>

(* Mutant: wait for the answer without limit. *)
MutDnsTimeout(a) ==
  /\ FALSE
  /\ UNCHANGED vars

DnsTimeout(a) ==
  /\ At(a, "wait")
  /\ ~dnsDone
  /\ Goto(a, "exit")
  /\ UNCHANGED <<context, aux, dns, session, heap, world>>

(* tcp_client_connect, ssl_configure, ssl_secure_connection. A connection  *)
(* takes several answers of the network, and whenever the task waits for   *)
(* one, an attempt that is ending, ready and of the same priority, has the *)
(* processor: it has come to its end by then.                              *)
Connect(a) ==
  /\ At(a, "connect")
  /\ \/ Goto(a, "exit") /\ UNCHANGED session          \* no connection
     \/ /\ MqttTasksBlocked
        /\ \/ Goto(a, "close") /\ UNCHANGED session   \* ssl_configure fails
           \/ /\ \E l \in {"session", "close"} : Goto(a, l) \* with or without a handshake
              /\ link' = TRUE
              /\ UNCHANGED error
  /\ UNCHANGED <<context, aux, dns, heap, world>>

(* mqtt_init, and mqtt_connect under the mutex. *)
OpenSession(a) ==
  /\ At(a, "session")
  /\ error' = FALSE
  /\ \E l \in IF mutex = 0 THEN {"refresher", "close"} ELSE {"close"} : Goto(a, l)
  /\ UNCHANGED <<context, aux, dns, link, heap, world>>

CreateRefresher(a) ==
  /\ At(a, "refresher")
  /\ \/ refTask' = a /\ Goto(a, "sub")
     \/ UNCHANGED refTask /\ Goto(a, "disconnect")
  /\ UNCHANGED <<context, subTask, syncing, inHand, mutex, dns, session, heap, world>>

(* The subscription task preempts its creator and asserts that it has a    *)
(* queue.                                                                  *)
CreateSub(a) ==
  /\ At(a, "sub")
  /\ \/ /\ subTask' = a
        /\ Goto(a, "subscribe")
        /\ halted' = (queue = 0)
     \/ Goto(a, "disconnect") /\ UNCHANGED <<subTask, halted>>
  /\ UNCHANGED <<context, refTask, syncing, inHand, mutex, dns, session, heap, busy>>

(* mqtt_subscribe under the mutex, which the refresher has not run to take *)
(* yet, or 500 ms without it: on to the loop.                              *)
Subscribe(a) ==
  /\ At(a, "subscribe")
  /\ Goto(a, "loop")
  /\ UNCHANGED <<context, aux, dns, session, heap, world>>

-----------------------------------------------------------------------------
(* APP_MQTT_Task: the publish loop. *)

(* The stream is not sending: on to the postponement and the mutex. *)
ReadyToPublish(a) ==
  /\ At(a, "loop")
  /\ ~busy
  /\ Goto(a, "publish")
  /\ UNCHANGED <<context, aux, dns, session, heap, world>>

(* Mutant: the result of mqtt_publish is ignored. *)
MutPublish(a) ==
  /\ At(a, "publish")
  /\ mutex = 0
  /\ Goto(a, "loop")
  /\ UNCHANGED <<context, aux, dns, session, heap, world>>

(* mqtt_publish under the mutex: the message is queued unless the client   *)
(* is in error. *)
Publish(a) ==
  /\ At(a, "publish")
  /\ mutex = 0
  /\ Goto(a, IF error THEN "disconnect" ELSE "loop")
  /\ UNCHANGED <<context, aux, dns, session, heap, world>>

(* The mutex is busy for 100 ms. *)
SkipPublish(a) ==
  /\ At(a, "publish")
  /\ mutex # 0
  /\ Goto(a, "loop")
  /\ UNCHANGED <<context, aux, dns, session, heap, world>>

-----------------------------------------------------------------------------
(* APP_MQTT_Task: the way out. *)

(* APP_MQTT_StopAuxTasks: what a deleted task has taken stays taken. *)
StopAuxTasks ==
  /\ subTask' = 0
  /\ inHand' = FALSE
  /\ refTask' = 0
  /\ syncing' = FALSE
  /\ UNCHANGED mutex

(* Mutant: a task that stops says so before it closes its session. *)
MutDisconnect(a) ==
  /\ At(a, "disconnect")
  /\ StopAuxTasks
  /\ started' = FALSE
  /\ Goto(a, "close")
  /\ UNCHANGED <<sctx, dnsFlags, dnsDone, queue, msgs, dns, session, heap, world>>

(* mqtt_disconnect, under the mutex, queues a packet nobody sends.         *)
Disconnect(a) ==
  /\ At(a, "disconnect")
  /\ StopAuxTasks
  /\ Goto(a, "close")
  /\ UNCHANGED <<context, dns, session, heap, world>>

CloseSocket(a) ==
  /\ At(a, "close")
  /\ link' = FALSE
  /\ Goto(a, "exit")
  /\ UNCHANGED <<context, aux, dns, error, heap, world>>

ClearStarted(a) ==
  /\ At(a, "exit")
  /\ started' = FALSE
  /\ Goto(a, "queue")
  /\ UNCHANGED <<sctx, dnsFlags, dnsDone, queue, msgs, aux, dns, session, heap, world>>

(* The messages still queued are not freed. *)
DeleteQueue(a) ==
  /\ At(a, "queue")
  /\ StopAuxTasks
  /\ queue' = 0
  /\ msgs' = <<>>
  /\ Goto(a, "group")
  /\ UNCHANGED <<started, sctx, dnsFlags, dnsDone, dns, session, heap, world>>

DeleteGroup(a) ==
  /\ At(a, "group")
  /\ dnsFlags' = 0
  /\ dnsDone' = FALSE
  /\ Goto(a, "gone")
  /\ UNCHANGED <<started, sctx, queue, msgs, aux, dns, session, heap, world>>

DeleteTask(a) ==
  /\ At(a, "gone")
  /\ sctx' = FALSE
  /\ Goto(a, "done")
  /\ UNCHANGED <<started, dnsFlags, dnsDone, queue, msgs, aux, dns, session, heap, world>>

-----------------------------------------------------------------------------
(* client_refresher. *)

TakeMutex ==
  /\ ~halted
  /\ refTask # 0 /\ ~syncing
  /\ RefresherMayRun
  /\ mutex = 0
  /\ mutex' = refTask
  /\ syncing' = TRUE
  /\ UNCHANGED <<context, refTask, subTask, inHand, pc, dns, session, heap, world>>

(* Mutant: the buffers of a message that finds the queue full are kept. *)
MutPublishCallback(m) ==
  /\ link
  /\ IF sctx
       THEN /\ heap' = heap + 1
            /\ msgs' = IF queue # 0 /\ Len(msgs) < QueueLen THEN Append(msgs, m) ELSE msgs
       ELSE UNCHANGED <<heap, msgs>>

(* publish_callback: a message of the broker goes to the queue, or its     *)
(* buffers are freed again.                                                *)
PublishCallback(m) ==
  /\ link
  /\ IF sctx /\ queue # 0 /\ Len(msgs) < QueueLen
       THEN /\ heap' = heap + 1
            /\ msgs' = Append(msgs, m)
       ELSE UNCHANGED <<heap, msgs>>

(* mqtt_sync receives a message. *)
SyncReceives ==
  /\ ~halted
  /\ syncing
  /\ RefresherMayRun
  /\ \E m \in Messages : PublishCallback(m)
  /\ UNCHANGED <<started, sctx, dnsFlags, dnsDone, queue, aux, pc, dns, session, world>>

(* mqtt_sync ends, having met a broken connection or not, and the mutex is *)
(* given. *)
SyncEnds ==
  /\ ~halted
  /\ syncing
  /\ RefresherMayRun
  /\ error' = (error \/ ~link)
  /\ syncing' = FALSE
  /\ mutex' = 0
  /\ UNCHANGED <<context, refTask, subTask, inHand, pc, dns, link, heap, world>>

-----------------------------------------------------------------------------
(* Subscription_process_task, above the MQTT task in priority. *)

Receive ==
  /\ ~halted
  /\ subTask # 0 /\ ~inHand
  /\ msgs # <<>>
  /\ msgs' = Tail(msgs)
  /\ IF Head(msgs) = "reboot"
       THEN inHand' = TRUE /\ UNCHANGED heap
       ELSE heap' = heap - 1 /\ UNCHANGED inHand
  /\ UNCHANGED <<started, sctx, dnsFlags, dnsDone, queue, refTask, subTask, syncing, mutex,
                 pc, dns, session, world>>

(* HAL_NVIC_SystemReset, after a delay of 1 s. *)
Reboot ==
  /\ ~halted
  /\ inHand
  /\ started' = FALSE /\ sctx' = FALSE
  /\ dnsFlags' = 0 /\ dnsDone' = FALSE
  /\ queue' = 0 /\ msgs' = <<>>
  /\ refTask' = 0 /\ subTask' = 0 /\ syncing' = FALSE /\ inHand' = FALSE
  /\ mutex' = 0
  /\ pc' = [a \in Attempts |-> "none"]
  /\ stack' = [a \in Attempts |-> 0]
  /\ res' = [a \in Attempts |-> 0]
  /\ lookups' = {}
  /\ link' = FALSE /\ error' = FALSE
  /\ heap' = 0
  /\ busy' = FALSE /\ halted' = FALSE

-----------------------------------------------------------------------------
(* The environment. *)

LinkBreaks ==
  /\ ~halted
  /\ link
  /\ link' = FALSE
  /\ UNCHANGED <<context, aux, pc, dns, error, heap, world>>

(* The stream task begins to send a frame, and has sent it. *)
StreamSends ==
  /\ ~halted /\ ~busy
  /\ busy' = TRUE
  /\ UNCHANGED <<context, aux, pc, dns, session, heap, halted>>

StreamHasSent ==
  /\ ~halted /\ busy
  /\ busy' = FALSE
  /\ UNCHANGED <<context, aux, pc, dns, session, heap, halted>>

Halt ==
  /\ halted
  /\ UNCHANGED vars

TaskStep(a) ==
  \/ GetMac(a) \/ Lookup(a) \/ LookupPending(a) \/ DnsWoken(a) \/ DnsTimeout(a)
  \/ Connect(a) \/ OpenSession(a) \/ CreateRefresher(a) \/ CreateSub(a) \/ Subscribe(a)
  \/ ReadyToPublish(a) \/ Publish(a) \/ SkipPublish(a)
  \/ Disconnect(a) \/ CloseSocket(a) \/ ClearStarted(a) \/ DeleteQueue(a)
  \/ DeleteGroup(a) \/ DeleteTask(a)

Next ==
  \/ \E a \in Attempts : Start(a) \/ TaskStep(a) \/ DnsCallback(a)
  \/ StartFails
  \/ TakeMutex \/ SyncReceives \/ SyncEnds
  \/ Receive \/ Reboot
  \/ LinkBreaks \/ StreamSends \/ StreamHasSent \/ Halt

(***************************************************************************)
(* Fairness: the tasks run, every wait of theirs has a time limit or an    *)
(* answer, the stream ends a frame it has begun, and the refresher gets    *)
(* its turn in the 5 s between two publications. Publications are not      *)
(* skipped for ever: a frame lasts milliseconds and knows nothing of the   *)
(* 5 s of the loop, and a turn of the refresher that is not always longer  *)
(* than 100 ms ends while the MQTT task waits for the mutex. Nothing makes *)
(* the link break, a message come or a DNS server answer.                  *)
(***************************************************************************)
Fairness ==
  /\ \A a \in Attempts :
       /\ WF_vars(TaskStep(a))
       /\ SF_vars(ReadyToPublish(a))
       /\ SF_vars(Publish(a))
       /\ SF_vars(SyncEnds /\ pc[a] = "publish")
  /\ SF_vars(TakeMutex)
  /\ SF_vars(SyncEnds)
  /\ WF_vars(StreamHasSent)

Spec == Init /\ [][Next]_vars
FairSpec == Spec /\ Fairness
-----------------------------------------------------------------------------
InSession(a) ==
  pc[a] \in {"session", "refresher", "sub", "subscribe", "loop", "publish", "disconnect",
             "close"}

InSetUp(a) ==
  pc[a] \in {"mac", "dns", "wait", "connect", "session", "refresher", "sub", "subscribe"}

(***************************************************************************)
(* Safety.                                                                 *)
(***************************************************************************)

(* The client mutex is held by a living refresher, inside mqtt_sync:       *)
(* StopAuxTasks deletes the refresher without looking at the mutex, and    *)
(* what keeps it from deleting the holder is that the MQTT task does not   *)
(* block between giving the mutex and the deletion.                        *)
MutexHolderAlive == mutex # 0 => syncing /\ refTask = mutex

(* s_client, its buffers and its socket are shared by all attempts:        *)
(* two of them are never in a session at once, although a new one may      *)
(* start before the old one has ended.                                     *)
OneSession == \A a, b \in Attempts : InSession(a) /\ InSession(b) => a = b

(* A task connects only to an address a lookup gave: the late answer to an *)
(* earlier attempt may wake it through the event group, but gives it an    *)
(* address only when that attempt is gone and this one has its stack.      *)
AnsweredOnItsStack ==
  \A a \in Attempts :
    pc[a] = "connect" \/ InSession(a) =>
      /\ res[a] # 0
      /\ res[a] # a => pc[res[a]] = "done" /\ stack[res[a]] = stack[a]

(* Every message buffer is in the queue, in the hands of the subscription  *)
(* task, or lost with one of the attempts that ended: no attempt loses     *)
(* more than a full queue and the message in hand.                         *)
BuffersAccounted ==
  heap <= Len(msgs) + (IF inHand THEN 1 ELSE 0)
            + (QueueLen + 1) * Cardinality({a \in Attempts :
                 pc[a] \in {"close", "exit", "queue", "group", "gone", "done"}})

(* Once every attempt has ended, nothing of the context is left for the    *)
(* next Start to overwrite, whatever attempts overlapped or failed.        *)
StoppedIsClean ==
  (\A a \in Attempts : Ended(a)) =>
    ~started /\ queue = 0 /\ dnsFlags = 0 /\ refTask = 0 /\ subTask = 0

(***************************************************************************)
(* Liveness, under FairSpec.                                               *)
(***************************************************************************)

(* A started attempt reaches the publish loop, or ends: none of the waits  *)
(* of the set-up is for ever, unless a configASSERT stops everything.      *)
NoAttemptHangs ==
  \A a \in Attempts : pc[a] = "mac" ~> pc[a] \in {"loop", "done", "none"} \/ halted

(* A session whose connection broke is given up, so that MQTT can be       *)
(* started again: the refresher meets the error and a publication fails.   *)
BrokenLinkEndsSession ==
  \A a \in Attempts :
    pc[a] = "loop" /\ ~link ~> pc[a] \in {"done", "none"} \/ halted

(* What of the fairness the two need: the task of an attempt goes on until *)
(* it has ended, and an attempt that stays in its loop has its turns of    *)
(* the refresher and of the mutex.                                         *)
TaskGoesOn(a) == []<>(Ended(a) \/ halted) \/ []<><<TaskStep(a)>>_vars

LoopGoesOn(a) ==
  \/ []<>(pc[a] \notin {"loop", "publish"} \/ halted)
  \/ []<><<SyncEnds>>_vars /\ []<><<Publish(a)>>_vars

AttemptsGoOn == \A a \in Attempts : TaskGoesOn(a) /\ LoopGoesOn(a)

(***************************************************************************)
(* What the comments of mqtt_app.c say and the code does not do.           *)
(***************************************************************************)

(* APP_MQTT_Start "initializes the MQTT runtime resources, including the   *)
(* DNS event group and subscription queue": the task it started has them   *)
(* until it deletes them.                                                  *)
AttemptKeepsItsObjects ==
  \A a \in Attempts : InSetUp(a) => dnsFlags = a /\ queue = a

(* The behaviours in which main_app starts an attempt only once the task   *)
(* of the last one is deleted; mqtt_started is cleared before that.        *)
PatientStep == ~started /\ started' => \A b \in Attempts : Ended(b)
PatientSpec == Init /\ [][Next /\ PatientStep]_vars

(* No configASSERT of mqtt_app.c fails: neither the wait for the DNS       *)
(* answer nor the subscription task finds its object deleted.              *)
NoAssertFails == ~halted
=============================================================================
