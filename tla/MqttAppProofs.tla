---------------------------- MODULE MqttAppProofs ----------------------------
(***************************************************************************)
(* Proofs about MqttApp, for any number of attempts and any queue depth.   *)
(***************************************************************************)
EXTENDS MqttApp, SequenceTheorems, FiniteSetTheorems, TLAPS

(***************************************************************************)
(* The inductive invariant.                                                *)
(***************************************************************************)

(* An attempt is active until it clears mqtt_started, and then ending      *)
(* until its task is gone.                                                 *)
Active(a) == InSetUp(a) \/ InSession(a) \/ pc[a] = "exit"
Ending(a) == pc[a] \in {"queue", "group", "gone"}

(* Where an attempt with a refresher is, and where it is while the         *)
(* refresher holds the mutex.                                              *)
HasRefresher == {"sub", "subscribe", "loop", "publish", "disconnect"}
WhileSyncing == {"loop", "publish"}

(* At most one attempt is active, and mqtt_started says so.                *)
OneActive ==
  /\ \A a, b \in Attempts : Active(a) /\ Active(b) => a = b
  /\ \A a \in Attempts : Active(a) => started

(* While one attempt is ending, the next is not in a session yet: the end  *)
(* has no wait, and both tasks have the same priority.                     *)
Overlap ==
  \A a, b \in Attempts : Ending(a) /\ Active(b) => ~InSession(b)

(* The refresher belongs to a session, and holds the mutex just while it   *)
(* is in mqtt_sync and the MQTT task waits in its loop.                    *)
Refresher ==
  /\ refTask # 0 => pc[refTask] \in HasRefresher
  /\ mutex # 0 <=> syncing
  /\ syncing => refTask = mutex /\ pc[refTask] \in WhileSyncing

(* The messages in the queue have their buffers. *)
Buffers == heap >= Len(msgs)

IInv == TypeOK /\ OneActive /\ Overlap /\ Refresher /\ Buffers

(***************************************************************************)
(* Type correctness.                                                       *)
(***************************************************************************)

LEMMA Numbers == Attempts \subseteq Handles /\ 0 \in Handles /\ 0 \notin Attempts
BY MqttAssumption DEF Attempts, Handles

LEMMA InitIInv == Init => IInv
<1> SUFFICES ASSUME Init PROVE IInv
  OBVIOUS
<1>1. TypeOK
  <2>1. msgs \in Seq(Messages)
    BY EmptySeq DEF Init
  <2> QED BY <2>1, Numbers DEF Init, TypeOK
<1>2. \A a \in Attempts : ~Active(a) /\ ~Ending(a)
  BY DEF Init, Active, Ending, InSetUp, InSession
<1>3. Refresher /\ Buffers
  BY EmptySeq DEF Init, Refresher, Buffers
<1> QED BY <1>1, <1>2, <1>3 DEF IInv, OneActive, Overlap

LEMMA TaskType ==
  ASSUME TypeOK, NEW a \in Attempts, TaskStep(a) PROVE TypeOK'
<1> USE Numbers DEF TypeOK, At, Goto, Blocked, Running, context, aux, dns, session, world
<1>1. CASE GetMac(a)
  BY <1>1 DEF GetMac
<1>2. CASE Lookup(a)
  BY <1>2 DEF Lookup
<1>3. CASE LookupPending(a)
  BY <1>3 DEF LookupPending
<1>4. CASE DnsWoken(a)
  BY <1>4 DEF DnsWoken
<1>5. CASE DnsTimeout(a)
  BY <1>5 DEF DnsTimeout
<1>6. CASE Connect(a)
  <2>1. link' \in BOOLEAN
    BY <1>6 DEF Connect
  <2>2. \E l \in {"exit", "close", "session"} : Goto(a, l)
    BY <1>6 DEF Connect
  <2>3. pc' \in [Attempts -> Blocked \cup Running \cup {"none", "done"}]
    BY <2>2
  <2> QED BY <1>6, <2>1, <2>3 DEF Connect
<1>7. CASE OpenSession(a)
  BY <1>7 DEF OpenSession
<1>8. CASE CreateRefresher(a)
  BY <1>8 DEF CreateRefresher
<1>9. CASE CreateSub(a)
  BY <1>9 DEF CreateSub
<1>10. CASE Subscribe(a)
  BY <1>10 DEF Subscribe
<1>11. CASE ReadyToPublish(a)
  BY <1>11 DEF ReadyToPublish
<1>12. CASE Publish(a)
  BY <1>12 DEF Publish
<1>13. CASE SkipPublish(a)
  BY <1>13 DEF SkipPublish
<1>14. CASE Disconnect(a)
  BY <1>14 DEF Disconnect, StopAuxTasks
<1>15. CASE CloseSocket(a)
  BY <1>15 DEF CloseSocket
<1>16. CASE ClearStarted(a)
  BY <1>16 DEF ClearStarted
<1>17. CASE DeleteQueue(a)
  <2>1. msgs' \in Seq(Messages)
    BY <1>17, EmptySeq DEF DeleteQueue
  <2> QED BY <1>17, <2>1 DEF DeleteQueue, StopAuxTasks
<1>18. CASE DeleteGroup(a)
  BY <1>18 DEF DeleteGroup
<1>19. CASE DeleteTask(a)
  BY <1>19 DEF DeleteTask
<1> QED
  BY <1>1, <1>2, <1>3, <1>4, <1>5, <1>6, <1>7, <1>8, <1>9, <1>10,
     <1>11, <1>12, <1>13, <1>14, <1>15, <1>16, <1>17, <1>18, <1>19 DEF TaskStep

LEMMA OtherType ==
  ASSUME TypeOK, Buffers, Next, ~ \E a \in Attempts : TaskStep(a) PROVE TypeOK'
<1> USE Numbers DEF TypeOK, Goto, Blocked, Running, context, aux, dns, session, world
<1>1. ASSUME NEW a \in Attempts, Start(a) PROVE TypeOK'
  <2>1. msgs' \in Seq(Messages)
    BY <1>1, EmptySeq DEF Start
  <2>2. stack' \in [Attempts -> Handles]
    <3>1. PICK m \in FreeStacks(a) : stack' = [stack EXCEPT ![a] = m]
      BY <1>1 DEF Start
    <3>2. m \in Handles
      BY DEF FreeStacks
    <3> QED BY <3>1, <3>2
  <2> QED BY <1>1, <2>1, <2>2 DEF Start
<1>2. ASSUME NEW a \in Attempts, DnsCallback(a) PROVE TypeOK'
  BY <1>2 DEF DnsCallback
<1>3. CASE StartFails
  <2>1. queue' \in Handles
    BY <1>3 DEF StartFails
  <2>2. msgs' \in Seq(Messages)
    BY <1>3, EmptySeq DEF StartFails
  <2> QED BY <1>3, <2>1, <2>2 DEF StartFails
<1>4. CASE TakeMutex
  BY <1>4 DEF TakeMutex
<1>5. CASE SyncReceives
  <2>1. PICK m \in Messages : PublishCallback(m)
    BY <1>5 DEF SyncReceives
  <2>2. heap' \in Nat
    BY <2>1 DEF PublishCallback
  <2>3. msgs' \in Seq(Messages)
    <3>1. msgs' = msgs \/ msgs' = Append(msgs, m)
      BY <2>1 DEF PublishCallback
    <3> QED BY <3>1, AppendProperties
  <2> QED BY <1>5, <2>2, <2>3 DEF SyncReceives
<1>6. CASE SyncEnds
  BY <1>6 DEF SyncEnds
<1>7. CASE Receive
  <2>1. msgs \in Seq(Messages) /\ msgs # <<>>
    BY <1>7 DEF Receive
  <2>2. msgs' \in Seq(Messages) /\ Len(msgs) >= 1
    BY <1>7, <2>1, HeadTailProperties, EmptySeq, LenProperties DEF Receive
  <2>3. heap >= 1
    BY <2>2 DEF Buffers
  <2>4. heap' = heap \/ heap' = heap - 1
    BY <1>7 DEF Receive
  <2>5. inHand' = TRUE \/ inHand' = inHand
    BY <1>7 DEF Receive
  <2>6. heap' \in Nat
    BY <2>3, <2>4
  <2> QED BY <1>7, <2>2, <2>5, <2>6 DEF Receive
<1>8. CASE Reboot
  <2>1. msgs' \in Seq(Messages)
    BY <1>8, EmptySeq DEF Reboot
  <2> QED BY <1>8, <2>1 DEF Reboot
<1>9. CASE LinkBreaks \/ StreamSends \/ StreamHasSent
  BY <1>9 DEF LinkBreaks, StreamSends, StreamHasSent
<1>10. CASE Halt
  BY <1>10 DEF Halt, vars
<1> QED
  BY <1>1, <1>2, <1>3, <1>4, <1>5, <1>6, <1>7, <1>8, <1>9, <1>10 DEF Next

(***************************************************************************)
(* Every buffer queued is allocated.                                       *)
(***************************************************************************)

LEMMA BuffersStep == ASSUME TypeOK, Buffers, [Next]_vars PROVE Buffers'
<1> USE DEF TypeOK, Buffers, context, world
<1>1. CASE UNCHANGED <<msgs, heap>>
  BY <1>1
<1>2. CASE msgs' = <<>> /\ heap' \in Nat
  BY <1>2, EmptySeq
<1>3. CASE SyncReceives
  <2>1. PICK m \in Messages : PublishCallback(m)
    BY <1>3 DEF SyncReceives
  <2>2. CASE UNCHANGED <<heap, msgs>>
    BY <2>2
  <2>3. CASE heap' = heap + 1 /\ msgs' = Append(msgs, m)
    BY <2>3, AppendProperties, LenProperties
  <2> QED BY <2>1, <2>2, <2>3 DEF PublishCallback
<1>4. CASE Receive
  <2>1. msgs \in Seq(Messages) /\ msgs # <<>>
    BY <1>4 DEF Receive
  <2>2. Len(msgs') = Len(msgs) - 1 /\ Len(msgs) \in Nat
    BY <1>4, <2>1, HeadTailProperties, LenProperties DEF Receive
  <2>3. heap' = heap \/ heap' = heap - 1
    BY <1>4 DEF Receive
  <2> QED BY <2>2, <2>3
<1>5. CASE \E a \in Attempts : TaskStep(a)
  <2> PICK a \in Attempts : TaskStep(a)
    BY <1>5
  <2>1. CASE DeleteQueue(a)
    BY <1>2, <2>1 DEF DeleteQueue
  <2>2. CASE ~DeleteQueue(a)
    BY <1>1, <2>2 DEF TaskStep, GetMac, Lookup, LookupPending, DnsWoken, DnsTimeout, Connect,
         OpenSession, CreateRefresher, CreateSub, Subscribe, ReadyToPublish, Publish, SkipPublish,
         Disconnect, CloseSocket, ClearStarted, DeleteGroup, DeleteTask
  <2> QED BY <2>1, <2>2
<1>6. ASSUME NEW a \in Attempts, Start(a) \/ DnsCallback(a) PROVE Buffers'
  BY <1>1, <1>2, <1>6 DEF Start, DnsCallback
<1>7. CASE StartFails \/ Reboot
  BY <1>1, <1>2, <1>7 DEF StartFails, Reboot
<1>8. CASE TakeMutex \/ SyncEnds \/ LinkBreaks \/ StreamSends \/ StreamHasSent
  BY <1>1, <1>8 DEF TakeMutex, SyncEnds, LinkBreaks, StreamSends, StreamHasSent
<1>9. CASE Halt \/ UNCHANGED vars
  BY <1>1, <1>9 DEF Halt, vars
<1> QED
  BY <1>3, <1>4, <1>5, <1>6, <1>7, <1>8, <1>9 DEF Next

(***************************************************************************)
(* Who is active, and where the refresher is.                              *)
(***************************************************************************)

Control == OneActive /\ Overlap /\ Refresher

(* A step of an active attempt that stays active, and enters its session   *)
(* only when no attempt is ending.                                         *)
LEMMA StayActive ==
  ASSUME TypeOK, OneActive, Overlap, NEW a \in Attempts, NEW l, Goto(a, l), Active(a),
         Active(a)', started' = started, InSession(a)' => InSession(a) \/ MqttTasksBlocked
  PROVE  OneActive' /\ Overlap'
<1> USE DEF TypeOK, Goto
<1>1. \A b \in Attempts : b # a => pc'[b] = pc[b]
  OBVIOUS
<1>2. \A b \in Attempts : b # a => (Active(b)' <=> Active(b)) /\ (Ending(b)' <=> Ending(b))
  BY <1>1 DEF Active, Ending, InSetUp, InSession
<1>3. InSession(a)' => \A b \in Attempts : ~Ending(b)
  BY DEF Overlap, Ending, MqttTasksBlocked, Running
<1>4. ~Ending(a)'
  BY DEF Active, Ending, InSetUp, InSession
<1>5. \A b \in Attempts : Active(b)' => b = a
  BY <1>2 DEF OneActive
<1>6. OneActive'
  BY <1>2, <1>5 DEF OneActive
<1>7. Overlap'
  BY <1>2, <1>3, <1>4, <1>5 DEF Overlap
<1> QED BY <1>6, <1>7

(* A step of attempt a that leaves the refresher and the mutex alone.      *)
LEMMA RefresherKept ==
  ASSUME TypeOK, Refresher, NEW a \in Attempts,
         UNCHANGED <<refTask, mutex, syncing>>,
         \A b \in Attempts : b # a => pc'[b] = pc[b],
         pc[a] \in HasRefresher => pc'[a] \in HasRefresher,
         pc[a] \in WhileSyncing /\ mutex # 0 => pc'[a] \in WhileSyncing
  PROVE  Refresher'
<1>1. refTask # 0 => refTask \in Attempts
  BY MqttAssumption DEF TypeOK, Handles, Attempts
<1> QED BY <1>1 DEF Refresher

(* Only the attempt in its loop meets a taken mutex. *)
LEMMA MutexFree ==
  ASSUME TypeOK, Control, NEW a \in Attempts, Active(a) \/ Ending(a), pc[a] \notin WhileSyncing
  PROVE  mutex = 0 /\ ~syncing
<1> SUFFICES ASSUME syncing PROVE FALSE
  BY DEF Control, Refresher
<1>1. refTask \in Attempts /\ pc[refTask] \in WhileSyncing
  BY MqttAssumption DEF Control, Refresher, TypeOK, Handles, Attempts
<1>2. Active(refTask) /\ InSession(refTask)
  BY <1>1 DEF WhileSyncing, Active, InSession
<1> QED BY <1>1, <1>2 DEF Control, OneActive, Overlap

LEMMA TaskControl ==
  ASSUME TypeOK, Control, NEW a \in Attempts, TaskStep(a) PROVE Control'
<1> USE DEF TypeOK
<1>1. CASE UNCHANGED <<pc, started, refTask, mutex, syncing>>
  BY <1>1 DEF Control, OneActive, Overlap, Refresher, Active, Ending, InSetUp, InSession
<1>2. pc' = pc \/ \E l : Goto(a, l)
  BY DEF TaskStep, GetMac, Lookup, LookupPending, DnsWoken, DnsTimeout, Connect,
     OpenSession, CreateRefresher, CreateSub, Subscribe, ReadyToPublish, Publish, SkipPublish,
     Disconnect, CloseSocket, ClearStarted, DeleteQueue, DeleteGroup, DeleteTask
<1>3. \A b \in Attempts : b # a => pc'[b] = pc[b]
  BY <1>2 DEF Goto
<1>4. ASSUME GetMac(a) \/ Lookup(a) \/ LookupPending(a) \/ DnsWoken(a) \/ DnsTimeout(a) \/ Connect(a),
             pc' # pc
      PROVE  Control'
  <2>1. /\ pc[a] \in {"mac", "dns", "wait", "connect"}
        /\ pc'[a] \in {"dns", "exit", "connect", "wait", "close", "session"}
        /\ started' = started
        /\ pc'[a] \in {"close", "session"} => MqttTasksBlocked
        /\ UNCHANGED <<refTask, mutex, syncing>>
    BY <1>4 DEF GetMac, Lookup, LookupPending, DnsWoken, DnsTimeout, Connect, Goto, At,
         context, aux
  <2>2. Active(a) /\ Active(a)'
    BY <2>1 DEF Active, InSetUp, InSession
  <2>3. OneActive' /\ Overlap'
    <3>1. InSession(a)' => MqttTasksBlocked
      BY <2>1 DEF InSession
    <3> QED BY <1>2, <1>4, <2>1, <2>2, <3>1, StayActive DEF Control
  <2>4. pc[a] \notin HasRefresher /\ pc[a] \notin WhileSyncing
    BY <2>1 DEF HasRefresher, WhileSyncing
  <2>5. Refresher'
    BY <1>3, <2>1, <2>4, RefresherKept DEF Control
  <2> QED BY <2>3, <2>5 DEF Control
<1>5. CASE OpenSession(a) \/ CreateSub(a) \/ Subscribe(a) \/ ReadyToPublish(a) \/ Publish(a)
           \/ SkipPublish(a) \/ CloseSocket(a)
  <2>1. /\ pc[a] \in {"session", "sub", "subscribe", "loop", "publish", "close"}
        /\ pc'[a] \in {"refresher", "close", "subscribe", "disconnect", "loop", "publish", "exit"}
        /\ started' = started
        /\ UNCHANGED <<refTask, mutex, syncing>>
        /\ \E l : Goto(a, l)
    BY <1>5 DEF OpenSession, CreateSub, Subscribe, ReadyToPublish, Publish, SkipPublish,
         CloseSocket, Goto, At, context, aux
  <2>2. Active(a) /\ Active(a)' /\ InSession(a)
    BY <2>1 DEF Active, InSetUp, InSession
  <2>3. OneActive' /\ Overlap'
    BY <2>1, <2>2, StayActive DEF Control
  <2>4. pc[a] \in HasRefresher => pc'[a] \in HasRefresher
    BY <1>5 DEF OpenSession, CreateSub, Subscribe, ReadyToPublish, Publish, SkipPublish,
         CloseSocket, Goto, At, HasRefresher
  <2>5. pc[a] \in WhileSyncing /\ mutex # 0 => pc'[a] \in WhileSyncing
    BY <1>5 DEF OpenSession, CreateSub, Subscribe, ReadyToPublish, Publish, SkipPublish,
         CloseSocket, Goto, At, WhileSyncing
  <2>6. Refresher'
    BY <1>3, <2>1, <2>4, <2>5, RefresherKept DEF Control
  <2> QED BY <2>3, <2>6 DEF Control
<1>6. CASE CreateRefresher(a)
  <2>1. /\ pc[a] = "refresher"
        /\ pc'[a] \in {"sub", "disconnect"}
        /\ started' = started
        /\ UNCHANGED <<mutex, syncing>>
        /\ (refTask' = a /\ pc'[a] = "sub") \/ refTask' = refTask
        /\ \E l : Goto(a, l)
    BY <1>6 DEF CreateRefresher, Goto, At, context, aux
  <2>2. Active(a) /\ Active(a)' /\ InSession(a)
    BY <2>1 DEF Active, InSetUp, InSession
  <2>3. OneActive' /\ Overlap'
    BY <2>1, <2>2, StayActive DEF Control
  <2>4. mutex = 0 /\ ~syncing
    BY <2>1, <2>2, MutexFree DEF WhileSyncing
  <2>5. CASE refTask' = refTask
    <3>1. pc[a] \notin HasRefresher /\ pc[a] \notin WhileSyncing
      BY <2>1 DEF HasRefresher, WhileSyncing
    <3>2. UNCHANGED <<refTask, mutex, syncing>>
      BY <2>1, <2>5
    <3> QED BY <1>3, <2>3, <3>1, <3>2, RefresherKept DEF Control
  <2>6. CASE refTask' = a /\ pc'[a] = "sub"
    <3>1. mutex' = 0 /\ ~syncing'
      BY <2>1, <2>4
    <3> QED BY <2>3, <2>6, <3>1 DEF Control, Refresher, HasRefresher
  <2> QED BY <2>1, <2>5, <2>6
<1>7. CASE Disconnect(a)
  <2>1. /\ pc[a] = "disconnect" /\ pc'[a] = "close" /\ started' = started
        /\ refTask' = 0 /\ syncing' = FALSE /\ mutex' = mutex
        /\ \E l : Goto(a, l)
    BY <1>7 DEF Disconnect, StopAuxTasks, Goto, At, context
  <2>2. Active(a) /\ Active(a)' /\ InSession(a)
    BY <2>1 DEF Active, InSetUp, InSession
  <2>3. OneActive' /\ Overlap'
    BY <2>1, <2>2, StayActive DEF Control
  <2>4. mutex = 0 /\ ~syncing
    BY <2>1, <2>2, MutexFree DEF WhileSyncing
  <2> QED BY <2>1, <2>3, <2>4 DEF Control, Refresher
<1>8. CASE ClearStarted(a)
  <2>1. /\ pc[a] = "exit" /\ pc'[a] = "queue"
        /\ UNCHANGED <<refTask, mutex, syncing>>
    BY <1>8 DEF ClearStarted, Goto, At, aux
  <2>2. Active(a) /\ ~Active(a)' /\ Ending(a)'
    BY <2>1 DEF Active, Ending, InSetUp, InSession
  <2>3. \A b \in Attempts : b # a => (Active(b)' <=> Active(b)) /\ (Ending(b)' <=> Ending(b))
    BY <1>3 DEF Active, Ending, InSetUp, InSession
  <2>4. \A b \in Attempts : ~Active(b)'
    BY <2>2, <2>3 DEF Control, OneActive
  <2>5. Refresher'
    BY <1>3, <2>1, RefresherKept DEF Control, HasRefresher, WhileSyncing
  <2> QED BY <2>4, <2>5 DEF Control, OneActive, Overlap
<1>9. CASE DeleteQueue(a) \/ DeleteGroup(a) \/ DeleteTask(a)
  <2>1. /\ pc[a] \in {"queue", "group", "gone"} /\ pc'[a] \in {"group", "gone", "done"}
        /\ started' = started
        /\ \/ UNCHANGED <<refTask, mutex, syncing>>
           \/ refTask' = 0 /\ syncing' = FALSE /\ mutex' = mutex
    BY <1>9 DEF DeleteQueue, DeleteGroup, DeleteTask, StopAuxTasks, Goto, At, aux
  <2>2. Ending(a) /\ ~Active(a) /\ ~Active(a)'
    BY <2>1 DEF Active, Ending, InSetUp, InSession
  <2>3. \A b \in Attempts : b # a => (Active(b)' <=> Active(b)) /\ (Ending(b)' <=> Ending(b))
    BY <1>3 DEF Active, Ending, InSetUp, InSession
  <2>4. \A b \in Attempts : Active(b)' => b # a /\ Active(b) /\ pc'[b] = pc[b]
    BY <1>3, <2>2, <2>3
  <2>5. OneActive'
    BY <2>1, <2>4 DEF Control, OneActive
  <2>6. Overlap'
    <3>1. \A b \in Attempts : Active(b)' => ~InSession(b)
      BY <2>2, <2>4 DEF Control, Overlap
    <3>2. \A b \in Attempts : Active(b)' => ~InSession(b)'
      BY <2>4, <3>1 DEF InSession
    <3> QED BY <3>2 DEF Overlap
  <2>7. mutex = 0 /\ ~syncing
    BY <2>1, <2>2, MutexFree DEF WhileSyncing
  <2>8. CASE UNCHANGED <<refTask, mutex, syncing>>
    <3>1. pc[a] \notin HasRefresher /\ pc[a] \notin WhileSyncing
      BY <2>1 DEF HasRefresher, WhileSyncing
    <3> QED BY <1>3, <2>5, <2>6, <2>8, <3>1, RefresherKept DEF Control
  <2>9. CASE refTask' = 0 /\ syncing' = FALSE /\ mutex' = mutex
    <3>1. mutex' = 0 /\ ~syncing'
      BY <2>7, <2>9
    <3> QED BY <2>5, <2>6, <2>9, <3>1 DEF Control, Refresher
  <2> QED BY <2>1, <2>8, <2>9
<1>10. CASE pc' = pc /\ LookupPending(a)
  BY <1>1, <1>10 DEF LookupPending, context, aux
<1>11. ASSUME pc' = pc
       PROVE  ~(GetMac(a) \/ Lookup(a) \/ DnsWoken(a) \/ DnsTimeout(a) \/ Connect(a))
  BY <1>11 DEF GetMac, Lookup, DnsWoken, DnsTimeout, Connect, At, Goto
<1> QED
  BY <1>4, <1>5, <1>6, <1>7, <1>8, <1>9, <1>10, <1>11 DEF TaskStep

LEMMA OtherControl ==
  ASSUME TypeOK, Control, [Next]_vars, ~ \E a \in Attempts : TaskStep(a) PROVE Control'
<1> USE DEF TypeOK
<1>1. CASE UNCHANGED <<pc, started, refTask, mutex, syncing>>
  BY <1>1 DEF Control, OneActive, Overlap, Refresher, Active, Ending, InSetUp, InSession
<1>2. ASSUME NEW a \in Attempts, Start(a) PROVE Control'
  <2>1. /\ ~started /\ started' /\ pc[a] = "none" /\ pc'[a] = "mac"
        /\ UNCHANGED <<refTask, mutex, syncing>>
        /\ \A b \in Attempts : b # a => pc'[b] = pc[b]
    BY <1>2 DEF Start, MayStart, Goto, aux
  <2>2. \A b \in Attempts : ~Active(b)
    BY <2>1 DEF Control, OneActive
  <2>3. \A b \in Attempts : Active(b)' => b = a
    BY <2>1, <2>2 DEF Active, InSetUp, InSession
  <2>4. OneActive' /\ Overlap'
    <3>1. ~InSession(a)'
      BY <2>1 DEF InSession
    <3> QED BY <2>1, <2>3, <3>1 DEF OneActive, Overlap
  <2>5. Refresher'
    BY <2>1, RefresherKept DEF Control, HasRefresher, WhileSyncing
  <2> QED BY <2>4, <2>5 DEF Control
<1>3. CASE TakeMutex
  <2>1. /\ refTask # 0 /\ mutex' = refTask /\ syncing' = TRUE
        /\ UNCHANGED <<pc, started, refTask>>
        /\ MqttTasksBlocked
    BY <1>3 DEF TakeMutex, RefresherMayRun, context
  <2>2. refTask \in Attempts /\ pc[refTask] \in HasRefresher
    BY <2>1, MqttAssumption DEF Control, Refresher, Handles, Attempts
  <2>3. pc[refTask] \in WhileSyncing
    BY <2>1, <2>2 DEF MqttTasksBlocked, Running, HasRefresher, WhileSyncing
  <2>4. Refresher'
    BY <2>1, <2>2, <2>3 DEF Refresher
  <2> QED BY <2>1, <2>4 DEF Control, OneActive, Overlap, Active, Ending, InSetUp, InSession
<1>4. CASE SyncEnds
  <2>1. /\ mutex' = 0 /\ syncing' = FALSE
        /\ UNCHANGED <<pc, started, refTask>>
    BY <1>4 DEF SyncEnds, context
  <2>2. Refresher'
    BY <2>1 DEF Control, Refresher
  <2> QED BY <2>1, <2>2 DEF Control, OneActive, Overlap, Active, Ending, InSetUp, InSession
<1>5. CASE Reboot
  <2>1. /\ \A a \in Attempts : pc'[a] = "none"
        /\ refTask' = 0 /\ mutex' = 0 /\ syncing' = FALSE
    BY <1>5 DEF Reboot
  <2>2. \A a \in Attempts : ~Active(a)' /\ ~Ending(a)'
    BY <2>1 DEF Active, Ending, InSetUp, InSession
  <2> QED BY <2>1, <2>2 DEF Control, OneActive, Overlap, Refresher
<1>6. ASSUME NEW a \in Attempts, DnsCallback(a) PROVE Control'
  BY <1>1, <1>6 DEF DnsCallback, aux
<1>7. CASE StartFails \/ SyncReceives \/ Receive \/ LinkBreaks \/ StreamSends \/ StreamHasSent
  BY <1>1, <1>7 DEF StartFails, SyncReceives, Receive, LinkBreaks, StreamSends, StreamHasSent,
     context, aux
<1>8. CASE Halt \/ UNCHANGED vars
  BY <1>1, <1>8 DEF Halt, vars, context, aux
<1> QED BY <1>2, <1>3, <1>4, <1>5, <1>6, <1>7, <1>8 DEF Next

(***************************************************************************)
(* The theorems.                                                           *)
(***************************************************************************)

LEMMA Inductive == IInv /\ [Next]_vars => IInv'
<1> SUFFICES ASSUME IInv, [Next]_vars PROVE IInv'
  OBVIOUS
<1>1. TypeOK /\ Control /\ Buffers
  BY DEF IInv, Control
<1>2. TypeOK'
  <2>1. CASE UNCHANGED vars
    BY <1>1, <2>1 DEF TypeOK, vars, context, aux, dns, session, world
  <2> QED BY <1>1, <2>1, TaskType, OtherType
<1>3. Control'
  BY <1>1, TaskControl, OtherControl
<1>4. Buffers'
  BY <1>1, BuffersStep
<1> QED BY <1>2, <1>3, <1>4 DEF IInv, Control

LEMMA Invariant == Spec => []IInv
BY InitIInv, Inductive, PTL DEF Spec

(* The variables keep their types, whatever the tasks, the callbacks and   *)
(* the restarts do: in particular a buffer freed was allocated.            *)
THEOREM TypeCorrect == Spec => []TypeOK
<1>1. IInv => TypeOK
  BY DEF IInv
<1> QED BY <1>1, Invariant, PTL

(* Two attempts are never in a session at once, with any number of         *)
(* restarts by main_app, also in the middle of the end of an attempt.      *)
THEOREM SessionsAreSingle == Spec => []OneSession
<1>1. IInv => OneSession
  BY DEF IInv, OneActive, OneSession, Active
<1> QED BY <1>1, Invariant, PTL

(* StopAuxTasks never deletes a refresher that holds the client mutex.     *)
THEOREM MutexIsNotOrphaned == Spec => []MutexHolderAlive
<1>1. IInv => MutexHolderAlive
  BY DEF IInv, Refresher, MutexHolderAlive
<1> QED BY <1>1, Invariant, PTL

(***************************************************************************)
(* Whose answer an attempt uses.                                           *)
(***************************************************************************)

(* Two tasks that exist have different stacks, and an attempt whose        *)
(* callback is still to come was started.                                  *)
StacksApart ==
  \A a, b \in Attempts : ~Ended(a) /\ ~Ended(b) /\ stack[a] = stack[b] => a = b
Asked == \A a \in lookups : pc[a] # "none"

(* The address in dns_res, while the attempt may still use it, is of its   *)
(* own lookup, or of an attempt that is gone and left it its stack.        *)
MayUse(a) == pc[a] = "wait" \/ pc[a] = "connect" \/ InSession(a)
From(a, b) == b = a \/ (pc[b] = "done" /\ stack[b] = stack[a])
Origin ==
  \A a \in Attempts :
    /\ MayUse(a) => res[a] = 0 \/ From(a, res[a])
    /\ MayUse(a) /\ pc[a] # "wait" => res[a] # 0

AnswerInv == StacksApart /\ Asked /\ Origin

LEMMA AnswerInit == Init => AnswerInv
BY DEF Init, AnswerInv, StacksApart, Asked, Origin, MayUse, Ended, InSession

(* An attempt goes on: neither the stacks nor dns_res change.              *)
LEMMA OriginKept ==
  ASSUME TypeOK, AnswerInv, NEW a \in Attempts, NEW l, Goto(a, l), ~Ended(a), l # "none",
         UNCHANGED dns,
         l = "connect" \/ MayUse(a)' => MayUse(a),
         MayUse(a)' /\ l # "wait" => res[a] # 0
  PROVE  AnswerInv'
<1> USE DEF TypeOK, Goto, dns
<1>1. pc'[a] = l /\ \A b \in Attempts : b # a => pc'[b] = pc[b]
  OBVIOUS
<1>2. \A b \in Attempts : ~Ended(b)' => ~Ended(b)
  BY <1>1 DEF Ended
<1>3. StacksApart'
  BY <1>2 DEF AnswerInv, StacksApart
<1>4. Asked'
  BY <1>1 DEF AnswerInv, Asked
<1>5. \A b, c \in Attempts : From(b, c) => From(b, c)'
  BY <1>1 DEF From, Ended
<1>6. \A b \in Attempts : b # a => (MayUse(b)' <=> MayUse(b))
  BY <1>1 DEF MayUse, InSession
<1>7. \A b \in Attempts : res[b] # 0 => res[b] \in Attempts
  BY DEF Attempts, Handles
<1>8. Origin'
  BY <1>1, <1>5, <1>6, <1>7 DEF AnswerInv, Origin
<1> QED BY <1>3, <1>4, <1>8 DEF AnswerInv

LEMMA AnswerTask ==
  ASSUME TypeOK, AnswerInv, NEW a \in Attempts, TaskStep(a) PROVE AnswerInv'
<1> USE DEF TypeOK
<1>1. pc[a] \in Blocked \cup Running /\ ~Ended(a)
  BY DEF TaskStep, GetMac, Lookup, LookupPending, DnsWoken, DnsTimeout, Connect, OpenSession,
     CreateRefresher, CreateSub, Subscribe, ReadyToPublish, Publish, SkipPublish, Disconnect,
     CloseSocket, ClearStarted, DeleteQueue, DeleteGroup, DeleteTask, At, Ended, Blocked, Running
<1>2. CASE Lookup(a) \/ LookupPending(a)
  <2>1. /\ pc[a] = "dns" /\ pc'[a] \in {"dns", "wait", "connect", "exit"}
        /\ \A b \in Attempts : b # a => pc'[b] = pc[b] /\ res'[b] = res[b]
        /\ stack' = stack /\ lookups' \subseteq lookups \cup {a}
    BY <1>2 DEF Lookup, LookupPending, At, Goto
  <2>2. res'[a] \in {0, a} /\ (pc'[a] = "connect" => res'[a] = a)
    BY <1>2 DEF Lookup, LookupPending, At, Goto
  <2>3. StacksApart'
    BY <1>1, <2>1 DEF AnswerInv, StacksApart, Ended
  <2>4. Asked'
    BY <2>1 DEF AnswerInv, Asked
  <2>5. \A b, c \in Attempts : From(b, c) => From(b, c)'
    BY <2>1 DEF From
  <2>6. \A b \in Attempts : b # a => (MayUse(b)' <=> MayUse(b))
    BY <2>1 DEF MayUse, InSession
  <2>7. \A b \in Attempts : res[b] # 0 => res[b] \in Attempts
    BY DEF Attempts, Handles
  <2>8. MayUse(a)' => (res'[a] = 0 \/ From(a, res[a])') /\ (pc'[a] # "wait" => res'[a] # 0)
    BY <2>1, <2>2, Numbers DEF From, MayUse, InSession
  <2>9. ASSUME NEW b \in Attempts, b # a
        PROVE  /\ MayUse(b)' => res'[b] = 0 \/ From(b, res[b])'
               /\ MayUse(b)' /\ pc'[b] # "wait" => res'[b] # 0
    <3>1. res'[b] = res[b] /\ pc'[b] = pc[b] /\ (MayUse(b)' <=> MayUse(b))
      BY <2>1, <2>6, <2>9
    <3>2. MayUse(b) => res[b] = 0 \/ From(b, res[b])'
      BY <2>5, <2>7, <2>9, <3>1 DEF AnswerInv, Origin, From
    <3>3. MayUse(b) /\ pc[b] # "wait" => res[b] # 0
      BY DEF AnswerInv, Origin
    <3> QED BY <3>1, <3>2, <3>3
  <2>10. Origin'
    BY <2>8, <2>9 DEF Origin
  <2> QED BY <2>3, <2>4, <2>10 DEF AnswerInv
<1>3. CASE GetMac(a) \/ DnsWoken(a) \/ DnsTimeout(a)
  <2>1. UNCHANGED dns
    BY <1>3 DEF GetMac, DnsWoken, DnsTimeout
  <2>2. PICK l : /\ Goto(a, l) /\ l \in {"dns", "exit", "connect"}
                 /\ l = "connect" => pc[a] = "wait" /\ res[a] # 0
    BY <1>3 DEF GetMac, DnsWoken, DnsTimeout, At
  <2>3. pc'[a] = l
    BY <2>2 DEF Goto
  <2>4. MayUse(a)' => l = "connect" /\ MayUse(a) /\ res[a] # 0
    BY <2>2, <2>3 DEF MayUse, InSession
  <2> QED BY <1>1, <2>1, <2>2, <2>4, OriginKept DEF MayUse
<1>4. CASE Connect(a) \/ OpenSession(a) \/ CreateRefresher(a) \/ CreateSub(a) \/ Subscribe(a)
           \/ ReadyToPublish(a) \/ Publish(a) \/ SkipPublish(a) \/ Disconnect(a)
           \/ CloseSocket(a)
  <2>1. UNCHANGED dns
    BY <1>4 DEF Connect, OpenSession, CreateRefresher, CreateSub, Subscribe, ReadyToPublish,
       Publish, SkipPublish, Disconnect, CloseSocket
  <2>2. MayUse(a) /\ pc[a] # "wait"
    BY <1>4 DEF Connect, OpenSession, CreateRefresher, CreateSub, Subscribe, ReadyToPublish,
       Publish, SkipPublish, Disconnect, CloseSocket, At, MayUse, InSession
  <2>3. PICK l : Goto(a, l) /\ l # "none"
    BY <1>4 DEF Connect, OpenSession, CreateRefresher, CreateSub, Subscribe, ReadyToPublish,
       Publish, SkipPublish, Disconnect, CloseSocket
  <2>4. res[a] # 0
    BY <2>2 DEF AnswerInv, Origin
  <2> QED BY <1>1, <2>1, <2>2, <2>3, <2>4, OriginKept
<1>5. CASE ClearStarted(a) \/ DeleteQueue(a) \/ DeleteGroup(a) \/ DeleteTask(a)
  <2>1. UNCHANGED dns
    BY <1>5 DEF ClearStarted, DeleteQueue, DeleteGroup, DeleteTask
  <2>2. PICK l : Goto(a, l) /\ l \in {"queue", "group", "gone", "done"}
    BY <1>5 DEF ClearStarted, DeleteQueue, DeleteGroup, DeleteTask
  <2>3. ~MayUse(a)'
    BY <2>2 DEF Goto, MayUse, InSession
  <2> QED BY <1>1, <2>1, <2>2, <2>3, OriginKept
<1> QED BY <1>2, <1>3, <1>4, <1>5 DEF TaskStep

LEMMA AnswerStep == ASSUME TypeOK, AnswerInv, [Next]_vars PROVE AnswerInv'
<1> USE DEF TypeOK
<1>1. CASE UNCHANGED <<pc, dns>>
  BY <1>1 DEF dns, AnswerInv, StacksApart, Asked, Origin, MayUse, From, Ended, InSession
<1>2. ASSUME NEW a \in Attempts, Start(a) PROVE AnswerInv'
  <2>1. /\ pc[a] = "none" /\ pc'[a] = "mac" /\ UNCHANGED <<res, lookups>>
        /\ \A b \in Attempts : b # a => pc'[b] = pc[b] /\ stack'[b] = stack[b]
        /\ stack'[a] \in FreeStacks(a)
    BY <1>2 DEF Start, Goto, FreeStacks
  <2>2. \A b \in Attempts : ~Ended(b) => stack[b] # stack'[a]
    BY <2>1 DEF FreeStacks
  <2>3. \A b \in Attempts : b # a => (Ended(b)' <=> Ended(b))
    BY <2>1 DEF Ended
  <2>4. StacksApart'
    BY <2>1, <2>2, <2>3 DEF AnswerInv, StacksApart
  <2>5. Asked'
    BY <2>1 DEF AnswerInv, Asked
  <2>6. ~MayUse(a)' /\ \A b \in Attempts : b # a => (MayUse(b)' <=> MayUse(b))
    BY <2>1 DEF MayUse, InSession
  <2>7. ASSUME NEW b \in Attempts, MayUse(b)'
        PROVE  (res[b] = 0 \/ From(b, res[b])') /\ (pc'[b] # "wait" => res[b] # 0)
    <3>1. b # a /\ MayUse(b) /\ pc'[b] = pc[b]
      BY <2>1, <2>6, <2>7
    <3>2. res[b] # 0 => res[b] \in Attempts /\ From(b, res[b])
      BY <3>1 DEF AnswerInv, Origin, Attempts, Handles
    <3>3. res[b] # 0 => From(b, res[b])'
      BY <2>1, <3>1, <3>2 DEF From
    <3> QED BY <3>1, <3>3 DEF AnswerInv, Origin
  <2>8. Origin'
    BY <2>1, <2>7 DEF Origin
  <2> QED BY <2>4, <2>5, <2>8 DEF AnswerInv
<1>3. ASSUME NEW a \in Attempts, DnsCallback(a) PROVE AnswerInv'
  <2>1. /\ UNCHANGED <<pc, stack>> /\ a \in lookups /\ lookups' \subseteq lookups
        /\ \A t \in Attempts : \/ res'[t] = res[t]
                               \/ res'[t] \in {0, a} /\ pc[t] = "wait" /\ stack[t] = stack[a]
    BY <1>3 DEF DnsCallback
  <2>2. StacksApart' /\ Asked'
    BY <2>1 DEF AnswerInv, StacksApart, Asked, Ended
  <2>3. ASSUME NEW t \in Attempts, pc[t] = "wait", stack[t] = stack[a] PROVE From(t, a)
    <3>1. ~Ended(t)
      BY <2>3 DEF Ended
    <3>2. Ended(a) => pc[a] = "done"
      BY <2>1 DEF AnswerInv, Asked, Ended
    <3> QED BY <2>3, <3>1, <3>2 DEF AnswerInv, StacksApart, From
  <2>4. \A t \in Attempts : MayUse(t)' <=> MayUse(t)
    BY <2>1 DEF MayUse, InSession
  <2>5. \A b, c \in Attempts : From(b, c)' <=> From(b, c)
    BY <2>1 DEF From
  <2>6. ASSUME NEW t \in Attempts, MayUse(t)'
        PROVE  (res'[t] = 0 \/ From(t, res[t])') /\ (pc'[t] # "wait" => res'[t] # 0)
    <3>1. MayUse(t)
      BY <2>4, <2>6
    <3>2. CASE res'[t] = res[t]
      <4>1. res[t] # 0 => From(t, res[t])
        BY <3>1 DEF AnswerInv, Origin
      <4>2. res[t] # 0 => From(t, res[t])'
        BY <2>1, <3>2, <4>1 DEF From
      <4>3. pc[t] # "wait" => res[t] # 0
        BY <3>1 DEF AnswerInv, Origin
      <4> QED BY <2>1, <3>2, <4>2, <4>3
    <3>3. CASE res'[t] \in {0, a} /\ pc[t] = "wait" /\ stack[t] = stack[a]
      <4>1. From(t, a)'
        BY <2>3, <2>5, <3>3
      <4> QED BY <2>1, <3>3, <4>1 DEF From
    <3> QED BY <2>1, <3>2, <3>3
  <2>7. Origin'
    BY <2>6 DEF Origin
  <2> QED BY <2>2, <2>7 DEF AnswerInv
<1>4. CASE Reboot
  BY <1>4 DEF Reboot, AnswerInv, StacksApart, Asked, Origin, MayUse, Ended, InSession
<1>5. CASE StartFails \/ TakeMutex \/ SyncReceives \/ SyncEnds \/ Receive \/ LinkBreaks
           \/ StreamSends \/ StreamHasSent
  BY <1>1, <1>5 DEF StartFails, TakeMutex, SyncReceives, SyncEnds, Receive, LinkBreaks,
     StreamSends, StreamHasSent
<1>6. CASE Halt \/ UNCHANGED vars
  BY <1>1, <1>6 DEF Halt, vars
<1> QED BY <1>2, <1>3, <1>4, <1>5, <1>6, AnswerTask DEF Next

(* An attempt never connects without an address of a lookup, whatever sets *)
(* the bit of its event group; and the address comes from a lookup of its  *)
(* own, or from one of an attempt that is gone and left it its stack.      *)
THEOREM AnswersReachTheirStack == Spec => []AnsweredOnItsStack
<1>1. TypeOK /\ AnswerInv => AnsweredOnItsStack
  <2> SUFFICES ASSUME TypeOK, AnswerInv, NEW a \in Attempts, pc[a] = "connect" \/ InSession(a)
               PROVE  /\ res[a] # 0
                      /\ res[a] # a => pc[res[a]] = "done" /\ stack[res[a]] = stack[a]
    BY DEF AnsweredOnItsStack
  <2>1. MayUse(a) /\ pc[a] # "wait"
    BY DEF MayUse, InSession
  <2> QED BY <2>1 DEF AnswerInv, Origin, From
<1> QED BY <1>1, AnswerInit, AnswerStep, TypeCorrect, PTL DEF Spec

(***************************************************************************)
(* What an attempt has to release, and the buffers it may leave behind.    *)
(***************************************************************************)

Holds(a) == Active(a) \/ pc[a] = "queue"

(* Whatever is in the context has an attempt that will still release it.   *)
Owned ==
  /\ started => \E a \in Attempts : Active(a)
  /\ queue # 0 \/ subTask # 0 \/ msgs # <<>> => \E a \in Attempts : Holds(a)
  /\ dnsFlags # 0 => \E a \in Attempts : Holds(a) \/ pc[a] = "group"

(* An attempt that closes has lost the message in hand and may yet lose    *)
(* the queue; one that has deleted the queue has lost what it will lose.   *)
Closing == \E a \in Attempts : pc[a] \in {"close", "exit", "queue"}
Past == {a \in Attempts : pc[a] \in {"group", "gone", "done"}}
Hand == IF inHand THEN 1 ELSE 0

Account ==
  /\ Len(msgs) <= QueueLen
  /\ heap <= (QueueLen + 1) * Cardinality(Past)
               + (IF Closing THEN QueueLen + 1 ELSE Len(msgs) + Hand)

(* The task of an attempt moves within its active part, or on its way out. *)
LEMMA TaskMoves ==
  ASSUME TypeOK, NEW a \in Attempts, TaskStep(a)
  PROVE  /\ \A b \in Attempts : b # a => pc'[b] = pc[b]
         /\ \/ ClearStarted(a) \/ DeleteQueue(a) \/ DeleteGroup(a) \/ DeleteTask(a)
            \/ /\ Active(a) /\ Active(a)' /\ pc[a] # "exit"
               /\ pc[a] = "close" => pc'[a] = "exit"
               /\ UNCHANGED <<started, queue, msgs, dnsFlags, heap>>
               /\ inHand' \in {inHand, FALSE}
               /\ inHand' # inHand => pc'[a] = "close"
<1> USE DEF TypeOK, At, Goto, context, aux
<1>1. CASE GetMac(a) \/ Lookup(a) \/ LookupPending(a) \/ DnsWoken(a) \/ DnsTimeout(a) \/ Connect(a)
  <2>1. /\ pc[a] \in {"mac", "dns", "wait", "connect"}
        /\ pc'[a] \in {"mac", "dns", "exit", "connect", "wait", "close", "session"}
    BY <1>1 DEF GetMac, Lookup, LookupPending, DnsWoken, DnsTimeout, Connect
  <2>2. \A b \in Attempts : b # a => pc'[b] = pc[b]
    BY <1>1 DEF GetMac, Lookup, LookupPending, DnsWoken, DnsTimeout, Connect
  <2>3. UNCHANGED <<started, queue, msgs, dnsFlags, heap, inHand>>
    BY <1>1 DEF GetMac, Lookup, LookupPending, DnsWoken, DnsTimeout, Connect
  <2> QED BY <2>1, <2>2, <2>3 DEF Active, InSetUp, InSession
<1>2. CASE OpenSession(a) \/ CreateRefresher(a) \/ CreateSub(a) \/ Subscribe(a)
           \/ ReadyToPublish(a) \/ Publish(a) \/ SkipPublish(a) \/ CloseSocket(a)
  <2>1. /\ pc[a] \in {"session", "refresher", "sub", "subscribe", "loop", "publish", "close"}
        /\ pc'[a] \in {"refresher", "close", "sub", "subscribe", "disconnect", "loop", "publish",
                       "exit"}
        /\ pc[a] = "close" => pc'[a] = "exit"
    BY <1>2 DEF OpenSession, CreateRefresher, CreateSub, Subscribe, ReadyToPublish, Publish,
         SkipPublish, CloseSocket
  <2>2. \A b \in Attempts : b # a => pc'[b] = pc[b]
    BY <1>2 DEF OpenSession, CreateRefresher, CreateSub, Subscribe, ReadyToPublish, Publish,
         SkipPublish, CloseSocket
  <2>3. UNCHANGED <<started, queue, msgs, dnsFlags, heap, inHand>>
    BY <1>2 DEF OpenSession, CreateRefresher, CreateSub, Subscribe, ReadyToPublish, Publish,
         SkipPublish, CloseSocket
  <2> QED BY <2>1, <2>2, <2>3 DEF Active, InSetUp, InSession
<1>3. CASE Disconnect(a)
  <2>1. /\ pc[a] = "disconnect" /\ pc'[a] = "close" /\ inHand' = FALSE
        /\ UNCHANGED <<started, queue, msgs, dnsFlags, heap>>
        /\ \A b \in Attempts : b # a => pc'[b] = pc[b]
    BY <1>3 DEF Disconnect, StopAuxTasks
  <2> QED BY <2>1 DEF Active, InSession
<1>4. CASE ClearStarted(a) \/ DeleteQueue(a) \/ DeleteGroup(a) \/ DeleteTask(a)
  BY <1>4 DEF ClearStarted, DeleteQueue, DeleteGroup, DeleteTask
<1> QED BY <1>1, <1>2, <1>3, <1>4 DEF TaskStep

(* A step of an attempt leaves the others where they are. *)
LEMMA OthersHold ==
  ASSUME NEW a, \A b \in Attempts : b # a => pc'[b] = pc[b]
  PROVE  \A b \in Attempts : b # a => (Active(b)' <=> Active(b)) /\ (Holds(b)' <=> Holds(b))
BY DEF Holds, Active, InSetUp, InSession

LEMMA OwnedTask ==
  ASSUME TypeOK, Owned, NEW a \in Attempts, TaskStep(a) PROVE Owned'
<1>1. /\ \A b \in Attempts : b # a => pc'[b] = pc[b]
      /\ \A b \in Attempts : b # a => (Active(b)' <=> Active(b)) /\ (Holds(b)' <=> Holds(b))
  BY TaskMoves, OthersHold
<1> USE DEF TypeOK, At, Goto
<1>2. CASE Active(a)'
  BY <1>2 DEF Owned, Holds
<1>3. CASE ClearStarted(a)
  <2>1. started' = FALSE /\ pc'[a] = "queue"
    BY <1>3 DEF ClearStarted
  <2> QED BY <2>1 DEF Owned, Holds
<1>4. CASE DeleteQueue(a)
  <2>1. /\ queue' = 0 /\ subTask' = 0 /\ msgs' = <<>> /\ started' = started
        /\ pc[a] = "queue" /\ pc'[a] = "group"
    BY <1>4 DEF DeleteQueue, StopAuxTasks
  <2>2. ~Active(a)
    BY <2>1 DEF Active, InSetUp, InSession
  <2> QED BY <1>1, <2>1, <2>2 DEF Owned
<1>5. CASE DeleteGroup(a) \/ DeleteTask(a)
  <2>1. /\ UNCHANGED <<queue, subTask, msgs, started>>
        /\ \/ pc[a] = "group" /\ dnsFlags' = 0
           \/ pc[a] = "gone" /\ dnsFlags' = dnsFlags
    BY <1>5 DEF DeleteGroup, DeleteTask, aux
  <2>2. ~Active(a) /\ ~Holds(a)
    BY <2>1 DEF Active, Holds, InSetUp, InSession
  <2> QED BY <1>1, <2>1, <2>2 DEF Owned
<1> QED BY <1>2, <1>3, <1>4, <1>5, TaskMoves

LEMMA OwnedStep == ASSUME TypeOK, Owned, [Next]_vars PROVE Owned'
<1> USE DEF TypeOK, context, aux
<1>1. ASSUME UNCHANGED pc,
             started' => started,
             queue' # 0 \/ subTask' # 0 \/ msgs' # <<>> => queue # 0 \/ subTask # 0 \/ msgs # <<>>,
             dnsFlags' # 0 => dnsFlags # 0
      PROVE  Owned'
  <2>1. \A a \in Attempts : (Active(a)' <=> Active(a)) /\ (Holds(a)' <=> Holds(a))
    BY <1>1 DEF Active, Holds, InSetUp, InSession
  <2> QED BY <1>1, <2>1 DEF Owned
<1>2. ASSUME NEW a \in Attempts, Start(a) PROVE Owned'
  <2>1. pc'[a] = "mac"
    BY <1>2 DEF Start, Goto
  <2> QED BY <2>1 DEF Owned, Holds, Active, InSetUp
<1>3. ASSUME NEW a \in Attempts, DnsCallback(a) PROVE Owned'
  BY <1>1, <1>3 DEF DnsCallback
<1>4. CASE StartFails
  BY <1>1, <1>4 DEF StartFails
<1>5. CASE SyncReceives
  <2>1. UNCHANGED <<pc, started, queue, subTask, dnsFlags>>
    BY <1>5 DEF SyncReceives
  <2>2. queue # 0 \/ UNCHANGED msgs
    BY <1>5 DEF SyncReceives, PublishCallback
  <2> QED BY <1>1, <2>1, <2>2
<1>6. CASE Receive
  BY <1>1, <1>6 DEF Receive
<1>7. CASE Reboot
  BY <1>7 DEF Reboot, Owned
<1>8. CASE TakeMutex \/ SyncEnds \/ LinkBreaks \/ StreamSends \/ StreamHasSent
  BY <1>1, <1>8 DEF TakeMutex, SyncEnds, LinkBreaks, StreamSends, StreamHasSent
<1>9. CASE Halt \/ UNCHANGED vars
  BY <1>1, <1>9 DEF Halt, vars
<1> QED BY <1>2, <1>3, <1>4, <1>5, <1>6, <1>7, <1>8, <1>9, OwnedTask DEF Next

(* Nothing of the context is left when every attempt has ended. *)
THEOREM NothingLeft == Spec => []StoppedIsClean
<1>1. Init => Owned
  BY DEF Init, Owned
<1>2. TypeOK /\ Owned /\ [Next]_vars => Owned'
  BY OwnedStep
<1>3. IInv /\ Owned => StoppedIsClean
  <2> SUFFICES ASSUME IInv, Owned, \A a \in Attempts : Ended(a)
               PROVE  ~started /\ queue = 0 /\ dnsFlags = 0 /\ refTask = 0 /\ subTask = 0
    BY DEF StoppedIsClean
  <2>1. \A a \in Attempts : ~Active(a) /\ ~Holds(a) /\ pc[a] # "group"
    BY DEF Ended, Active, Holds, InSetUp, InSession
  <2>2. refTask = 0
    <3>1. refTask # 0 => refTask \in Attempts /\ pc[refTask] \in HasRefresher
      BY MqttAssumption DEF IInv, Refresher, TypeOK, Handles, Attempts
    <3> QED BY <3>1 DEF HasRefresher, Ended
  <2> QED BY <2>1, <2>2 DEF Owned
<1>4. Spec => []Owned
  BY <1>1, <1>2, TypeCorrect, PTL DEF Spec
<1> QED BY <1>3, <1>4, Invariant, PTL
(***************************************************************************)
(* The account of the buffers.                                             *)
(***************************************************************************)

LEMMA PastFacts ==
  ASSUME TypeOK
  PROVE  /\ IsFiniteSet(Past) /\ Cardinality(Past) \in Nat
         /\ QueueLen \in Nat /\ Len(msgs) \in Nat /\ heap \in Nat
<1>1. IsFiniteSet(1..MaxAttempts)
  BY MqttAssumption, FS_Interval
<1>2. Past \subseteq 1..MaxAttempts
  BY DEF Past, Attempts
<1>3. IsFiniteSet(Past)
  BY <1>1, <1>2, FS_Subset
<1> QED BY <1>3, FS_CardinalityType, MqttAssumption, LenProperties DEF TypeOK

LEMMA PastSame ==
  ASSUME \A a \in Attempts : pc'[a] \in {"group", "gone", "done"}
                               <=> pc[a] \in {"group", "gone", "done"}
  PROVE  Past' = Past
BY DEF Past

(* No message comes in while an attempt closes: the refresher is gone. *)
LEMMA ClosingIsQuiet ==
  ASSUME TypeOK, Control, Closing PROVE ~syncing
<1> PICK a \in Attempts : pc[a] \in {"close", "exit", "queue"}
  BY DEF Closing
<1>1. (Active(a) \/ Ending(a)) /\ pc[a] \notin WhileSyncing
  BY DEF Active, Ending, InSession, WhileSyncing
<1> QED BY <1>1, MutexFree

(* The most that is allocated does not depend on what is queued. *)
LEMMA AtMostFull ==
  ASSUME TypeOK, Account
  PROVE  heap <= (QueueLen + 1) * Cardinality(Past) + (QueueLen + 1)
<1> DEFINE lost == (QueueLen + 1) * Cardinality(Past)
<1>1. lost \in Nat /\ QueueLen \in Nat /\ Len(msgs) \in Nat /\ heap \in Nat
  BY PastFacts
<1>2. Hand \in {0, 1}
  BY DEF Hand
<1>3. Len(msgs) <= QueueLen
  BY DEF Account
<1>4. heap <= lost + (IF Closing THEN QueueLen + 1 ELSE Len(msgs) + Hand)
  BY DEF Account
<1> HIDE DEF lost
<1>5. heap <= lost + (QueueLen + 1)
  BY <1>1, <1>2, <1>3, <1>4
<1> QED BY <1>5 DEF lost

LEMMA AccountTask ==
  ASSUME TypeOK, Control, Account, NEW a \in Attempts, TaskStep(a), TypeOK'
  PROVE  Account'
<1>1. \A b \in Attempts : b # a => pc'[b] = pc[b]
  BY TaskMoves
<1> DEFINE lost == (QueueLen + 1) * Cardinality(Past)
<1>2. /\ lost \in Nat /\ QueueLen \in Nat /\ Len(msgs) \in Nat /\ heap \in Nat
      /\ Cardinality(Past) \in Nat /\ IsFiniteSet(Past)
  BY PastFacts
<1>3. CASE DeleteQueue(a)
  <2>1. /\ pc[a] = "queue" /\ pc'[a] = "group" /\ msgs' = <<>> /\ inHand' = FALSE
        /\ heap' = heap
    BY <1>3 DEF DeleteQueue, StopAuxTasks, At, Goto, TypeOK
  <2>2. Past' = Past \cup {a} /\ a \notin Past
    BY <1>1, <2>1 DEF Past
  <2>3. Cardinality(Past') = Cardinality(Past) + 1
    BY <1>2, <2>2, FS_AddElement
  <2>4. (QueueLen + 1) * Cardinality(Past') = lost + (QueueLen + 1)
    <3>1. \A q, n \in Nat : (q + 1) * (n + 1) = (q + 1) * n + (q + 1)
      OBVIOUS
    <3> QED BY <1>2, <2>3, <3>1
  <2>5. heap <= lost + (QueueLen + 1)
    BY AtMostFull
  <2>6. Len(msgs') = 0 /\ Hand' = 0
    BY <2>1, EmptySeq DEF Hand
  <2> HIDE DEF lost
  <2>7. heap' <= lost + (QueueLen + 1)
                   + (IF Closing' THEN QueueLen + 1 ELSE Len(msgs') + Hand')
    BY <1>2, <2>1, <2>5, <2>6
  <2>8. Len(msgs') <= QueueLen
    BY <1>2, <2>6
  <2> QED BY <2>4, <2>7, <2>8 DEF Account
<1>4. ASSUME Past' = Past, UNCHANGED <<msgs, heap>>,
             Closing => Closing', Closing' \/ inHand' = inHand
      PROVE  Account'
  <2>1. CASE Closing'
    <3>1. heap <= lost + (QueueLen + 1)
      BY AtMostFull
    <3> QED BY <1>4, <2>1, <3>1 DEF Account
  <2>2. CASE ~Closing'
    BY <1>4, <2>2 DEF Account, Hand
  <2> QED BY <2>1, <2>2
<1>5. CASE ClearStarted(a)
  <2>1. /\ pc[a] = "exit" /\ pc'[a] = "queue" /\ UNCHANGED <<msgs, heap, inHand>>
    BY <1>5 DEF ClearStarted, At, Goto, TypeOK, aux
  <2>2. Past' = Past
    BY <1>1, <2>1, PastSame
  <2>3. Closing'
    BY <2>1 DEF Closing
  <2> QED BY <1>4, <2>1, <2>2, <2>3
<1>6. CASE DeleteGroup(a) \/ DeleteTask(a)
  <2>1. /\ pc[a] \in {"group", "gone"} /\ pc'[a] \in {"gone", "done"}
        /\ UNCHANGED <<msgs, heap, inHand>>
    BY <1>6 DEF DeleteGroup, DeleteTask, At, Goto, TypeOK, aux
  <2>2. Past' = Past
    BY <1>1, <2>1, PastSame
  <2>3. Closing' <=> Closing
    BY <1>1, <2>1 DEF Closing
  <2> QED BY <1>4, <2>1, <2>2, <2>3
<1>7. ASSUME Active(a), Active(a)', pc[a] # "exit", pc[a] = "close" => pc'[a] = "exit",
             UNCHANGED <<msgs, heap>>, inHand' \in {inHand, FALSE},
             inHand' # inHand => pc'[a] = "close"
      PROVE  Account'
  <2>1. Past' = Past
    <3>1. pc[a] \notin {"group", "gone", "done"} /\ pc'[a] \notin {"group", "gone", "done"}
      BY <1>7 DEF Active, InSetUp, InSession
    <3> QED BY <1>1, <3>1, PastSame
  <2>2. Closing => Closing'
    <3>1. pc[a] \in {"close", "exit", "queue"} => pc'[a] \in {"close", "exit", "queue"}
      BY <1>7 DEF Active, InSetUp, InSession
    <3> QED BY <1>1, <3>1 DEF Closing
  <2>3. Closing' \/ inHand' = inHand
    BY <1>7 DEF Closing
  <2> QED BY <1>4, <1>7, <2>1, <2>2, <2>3
<1> QED BY <1>3, <1>5, <1>6, <1>7, TaskMoves

LEMMA AccountStep ==
  ASSUME TypeOK, Control, Owned, Account, [Next]_vars, TypeOK' PROVE Account'
<1> DEFINE lost == (QueueLen + 1) * Cardinality(Past)
<1>1. /\ lost \in Nat /\ QueueLen \in Nat /\ Len(msgs) \in Nat /\ heap \in Nat
      /\ Hand \in {0, 1}
  BY PastFacts DEF Hand
<1>2. ASSUME UNCHANGED pc PROVE Past' = Past /\ (Closing' <=> Closing)
  BY <1>2 DEF Past, Closing
<1>3. CASE UNCHANGED <<pc, msgs, heap, inHand>>
  BY <1>2, <1>3 DEF Account, Hand
<1>4. ASSUME Past' = Past, Closing' <=> Closing, UNCHANGED <<heap, inHand>>,
             msgs' = <<>>, ~started
      PROVE  Account'
  <2>1. Len(msgs') = 0
    BY <1>4, EmptySeq
  <2>2. ~Closing => msgs' = msgs
    <3> SUFFICES ASSUME ~Closing, msgs # <<>> PROVE FALSE
      BY <1>4
    <3>1. PICK b \in Attempts : Active(b) \/ pc[b] = "queue"
      BY DEF Owned, Holds
    <3>2. ~Active(b)
      BY <1>4 DEF Control, OneActive
    <3> QED BY <3>1, <3>2 DEF Closing
  <2> QED BY <1>1, <1>4, <2>1, <2>2 DEF Account, Hand
<1>5. ASSUME NEW b \in Attempts, Start(b) PROVE Account'
  <2>1. /\ pc[b] = "none" /\ pc'[b] = "mac" /\ msgs' = <<>> /\ UNCHANGED <<heap, inHand>>
        /\ ~started /\ \A c \in Attempts : c # b => pc'[c] = pc[c]
    BY <1>5 DEF Start, MayStart, Goto, aux, TypeOK
  <2>2. Past' = Past /\ (Closing' <=> Closing)
    BY <2>1 DEF Past, Closing
  <2> QED BY <1>4, <2>1, <2>2
<1>6. CASE StartFails
  <2>1. ~started /\ UNCHANGED <<pc, heap, inHand>> /\ (msgs' = <<>> \/ msgs' = msgs)
    BY <1>6 DEF StartFails, MayStart, aux
  <2> QED BY <1>2, <1>3, <1>4, <2>1
<1>7. CASE SyncReceives
  <2>1. syncing /\ UNCHANGED <<pc, inHand>>
    BY <1>7 DEF SyncReceives, aux
  <2>2. ~Closing
    BY <2>1, ClosingIsQuiet
  <2>3. PICK m \in Messages : PublishCallback(m)
    BY <1>7 DEF SyncReceives
  <2>4. CASE UNCHANGED <<heap, msgs>>
    BY <1>3, <2>1, <2>4
  <2>5. CASE heap' = heap + 1 /\ msgs' = Append(msgs, m) /\ Len(msgs) < QueueLen
    <3>1. Len(msgs') = Len(msgs) + 1
      BY <2>5, AppendProperties DEF TypeOK
    <3>2. Past' = Past /\ ~Closing' /\ Hand' = Hand
      BY <1>2, <2>1, <2>2 DEF Hand
    <3>3. heap <= lost + (Len(msgs) + Hand)
      BY <2>2 DEF Account
    <3>4. heap' <= lost + (Len(msgs') + Hand)
      <4> HIDE DEF lost
      <4> QED BY <1>1, <2>5, <3>1, <3>3
    <3> QED BY <1>1, <2>5, <3>1, <3>2, <3>4 DEF Account
  <2> QED BY <2>3, <2>4, <2>5 DEF PublishCallback
<1>8. CASE Receive
  <2>1. /\ ~inHand /\ msgs # <<>> /\ msgs' = Tail(msgs) /\ UNCHANGED pc
        /\ (inHand' = TRUE /\ heap' = heap) \/ (heap' = heap - 1 /\ inHand' = inHand)
    BY <1>8 DEF Receive
  <2>2. Len(msgs') = Len(msgs) - 1 /\ Len(msgs) \in Nat \ {0}
    BY <2>1, HeadTailProperties, EmptySeq, LenProperties DEF TypeOK
  <2>3. Past' = Past /\ (Closing' <=> Closing)
    BY <1>2, <2>1
  <2>4. heap' <= heap /\ (heap' - (Len(msgs') + Hand') = heap - (Len(msgs) + Hand))
    BY <1>1, <2>1, <2>2 DEF Hand
  <2>5. heap <= lost + (IF Closing THEN QueueLen + 1 ELSE Len(msgs) + Hand)
    BY DEF Account
  <2>6. Hand' \in {0, 1} /\ Len(msgs') \in Nat /\ heap' \in Int
    BY <1>1, <2>1, <2>2 DEF Hand
  <2>7. heap' <= lost + (IF Closing THEN QueueLen + 1 ELSE Len(msgs') + Hand')
    <3> HIDE DEF lost
    <3>1. CASE Closing
      BY <1>1, <2>4, <2>5, <2>6, <3>1
    <3>2. CASE ~Closing
      BY <1>1, <2>4, <2>5, <2>6, <3>2
    <3> QED BY <3>1, <3>2
  <2>8. Len(msgs') <= QueueLen
    BY <1>1, <2>2 DEF Account
  <2> QED BY <2>3, <2>7, <2>8 DEF Account
<1>9. CASE Reboot
  <2>1. heap' = 0 /\ Len(msgs') = 0 /\ Hand' = 0
    BY <1>9, EmptySeq DEF Reboot, Hand
  <2>2. (QueueLen + 1) * Cardinality(Past') \in Nat
    <3>1. Past' = {}
      BY <1>9 DEF Reboot, Past
    <3> QED BY <1>1, <3>1, FS_EmptySet
  <2> QED BY <1>1, <2>1, <2>2 DEF Account
<1>10. ASSUME NEW b \in Attempts, DnsCallback(b) PROVE Account'
  BY <1>3, <1>10 DEF DnsCallback, aux
<1>11. CASE TakeMutex \/ SyncEnds \/ LinkBreaks \/ StreamSends \/ StreamHasSent
  BY <1>3, <1>11 DEF TakeMutex, SyncEnds, LinkBreaks, StreamSends, StreamHasSent, context, aux
<1>12. CASE Halt \/ UNCHANGED vars
  BY <1>3, <1>12 DEF Halt, vars, context, aux
<1> QED
  BY <1>5, <1>6, <1>7, <1>8, <1>9, <1>10, <1>11, <1>12, AccountTask DEF Next

(* No attempt loses more buffers than a full queue and the message in      *)
(* hand, and only when it is over.                                         *)
THEOREM BuffersKept == Spec => []BuffersAccounted
<1>1. Init => Owned /\ Account
  <2> SUFFICES ASSUME Init PROVE Owned /\ Account
    OBVIOUS
  <2>1. Past = {} /\ heap = 0 /\ Len(msgs) = 0 /\ Hand = 0
    BY EmptySeq DEF Init, Past, Hand
  <2>2. Cardinality(Past) = 0
    BY <2>1, FS_EmptySet
  <2> QED BY <2>1, <2>2, MqttAssumption DEF Init, Owned, Account
<1>2. IInv /\ IInv' /\ Owned /\ Account /\ [Next]_vars => Owned' /\ Account'
  BY OwnedStep, AccountStep DEF IInv, Control
<1>3. IInv /\ Account => BuffersAccounted
  <2> SUFFICES ASSUME IInv, Account PROVE BuffersAccounted
    OBVIOUS
  <2> DEFINE over == {a \in Attempts :
                        pc[a] \in {"close", "exit", "queue", "group", "gone", "done"}}
  <2>1. TypeOK
    BY DEF IInv
  <2>2. /\ QueueLen \in Nat /\ Len(msgs) \in Nat /\ heap \in Nat /\ IsFiniteSet(Past)
        /\ Cardinality(Past) \in Nat /\ Hand \in {0, 1}
    BY <2>1, PastFacts DEF Hand
  <2>3. IsFiniteSet(over) /\ Cardinality(over) \in Nat
    <3>1. over \subseteq 1..MaxAttempts
      BY DEF Attempts
    <3>2. IsFiniteSet(1..MaxAttempts)
      BY MqttAssumption, FS_Interval
    <3> HIDE DEF over
    <3>3. IsFiniteSet(over)
      BY <3>1, <3>2, FS_Subset
    <3> QED BY <3>3, FS_CardinalityType
  <2>4. Past \subseteq over
    BY DEF Past
  <2>5. Cardinality(Past) <= Cardinality(over)
    BY <2>3, <2>4, FS_Subset
  <2>6. Closing => Cardinality(Past) + 1 <= Cardinality(over)
    <3> SUFFICES ASSUME Closing PROVE Cardinality(Past) + 1 <= Cardinality(over)
      OBVIOUS
    <3>1. PICK a \in Attempts : pc[a] \in {"close", "exit", "queue"}
      BY DEF Closing
    <3>2. a \notin Past /\ Past \cup {a} \subseteq over
      BY <2>4, <3>1 DEF Past
    <3>3. Cardinality(Past \cup {a}) = Cardinality(Past) + 1
      BY <2>2, <3>2, FS_AddElement
    <3>4. Cardinality(Past \cup {a}) <= Cardinality(over)
      BY <2>3, <3>2, FS_Subset
    <3> QED BY <3>3, <3>4
  <2>7. \A q, m, n \in Nat :
          /\ m <= n => (q + 1) * m <= (q + 1) * n
          /\ m + 1 <= n => (q + 1) * m + (q + 1) <= (q + 1) * n
    <3> SUFFICES ASSUME NEW q \in Nat, NEW m \in Nat, NEW n \in Nat
                 PROVE  /\ m <= n => (q + 1) * m <= (q + 1) * n
                        /\ m + 1 <= n => (q + 1) * m + (q + 1) <= (q + 1) * n
      OBVIOUS
    <3>1. \A k \in Nat : (q + 1) * (m + k) = (q + 1) * m + (q + 1) * k /\ (q + 1) * k >= 0
                         /\ (k # 0 => (q + 1) * k >= q + 1)
      OBVIOUS
    <3>2. m <= n => n - m \in Nat /\ n = m + (n - m)
      OBVIOUS
    <3>3. (q + 1) * m \in Nat /\ (q + 1) * n \in Nat
      OBVIOUS
    <3>4. m <= n => (q + 1) * n = (q + 1) * m + (q + 1) * (n - m) /\ (q + 1) * (n - m) >= 0
      BY <3>1, <3>2
    <3>5. m + 1 <= n => m <= n /\ n - m # 0 /\ (q + 1) * (n - m) >= q + 1
      BY <3>1, <3>2
    <3> QED BY <3>3, <3>4, <3>5
  <2>8. /\ (QueueLen + 1) * Cardinality(Past) \in Nat
        /\ (QueueLen + 1) * Cardinality(over) \in Nat
        /\ (QueueLen + 1) * Cardinality(Past) <= (QueueLen + 1) * Cardinality(over)
        /\ Closing => (QueueLen + 1) * Cardinality(Past) + (QueueLen + 1)
                        <= (QueueLen + 1) * Cardinality(over)
    BY <2>2, <2>3, <2>5, <2>6, <2>7
  <2>9. heap <= (QueueLen + 1) * Cardinality(Past)
                  + (IF Closing THEN QueueLen + 1 ELSE Len(msgs) + Hand)
    BY DEF Account
  <2> DEFINE x == (QueueLen + 1) * Cardinality(Past)
             y == (QueueLen + 1) * Cardinality(over)
  <2>10. /\ x \in Nat /\ y \in Nat /\ x <= y /\ (Closing => x + (QueueLen + 1) <= y)
         /\ heap <= x + (IF Closing THEN QueueLen + 1 ELSE Len(msgs) + Hand)
    BY <2>8, <2>9
  <2> HIDE DEF x, y
  <2>11. heap <= Len(msgs) + Hand + y
    BY <2>2, <2>10
  <2> QED BY <2>11 DEF BuffersAccounted, Hand, y
<1>4. Spec => [](Owned /\ Account)
  BY <1>1, <1>2, Invariant, PTL DEF Spec
<1> QED BY <1>3, <1>4, Invariant, PTL

(***************************************************************************)
(* Without a start in the middle of an end.                                *)
(***************************************************************************)

(* Then an attempt is alone with the context, and has its objects for as   *)
(* long as it is active.                                                   *)
Alone == \A a, b \in Attempts : ~Ended(a) /\ ~Ended(b) => a = b
Keeps == \A a \in Attempts : Active(a) => dnsFlags = a /\ queue = a
PatientInv == Alone /\ Keeps /\ NoAssertFails

LEMMA Phases ==
  ASSUME TypeOK, NEW a \in Attempts
  PROVE  /\ ~Ended(a) <=> Active(a) \/ Ending(a)
         /\ ~(Active(a) /\ Ending(a))
<1>1. pc[a] \in Blocked \cup Running \cup {"none", "done"}
  BY DEF TypeOK
<1> QED BY <1>1 DEF Blocked, Running, Ended, Active, Ending, InSetUp, InSession

LEMMA PatientTask ==
  ASSUME TypeOK, PatientInv, NEW a \in Attempts, TaskStep(a) PROVE PatientInv'
<1>1. \A b \in Attempts : b # a => pc'[b] = pc[b]
  BY TaskMoves
<1>2. ~Ended(a)
  <2>1. Active(a) \/ Ending(a)
    BY TaskMoves DEF ClearStarted, DeleteQueue, DeleteGroup, DeleteTask, At, Active, Ending
  <2> QED BY <2>1, Phases
<1>3. \A b \in Attempts : b # a => Ended(b) /\ Ended(b)'
  BY <1>1, <1>2 DEF PatientInv, Alone, Ended
<1>4. Alone'
  BY <1>3 DEF Alone
<1>5. \A b \in Attempts : b # a => ~Active(b)'
  BY <1>3 DEF Ended, Active, InSetUp, InSession
<1>6. Keeps'
  <2>1. CASE ClearStarted(a) \/ DeleteQueue(a) \/ DeleteGroup(a) \/ DeleteTask(a)
    <3>1. pc'[a] \in {"queue", "group", "gone", "done"}
      BY <2>1 DEF ClearStarted, DeleteQueue, DeleteGroup, DeleteTask, Goto, TypeOK
    <3>2. ~Active(a)'
      BY <3>1 DEF Active, InSetUp, InSession
    <3> QED BY <1>5, <3>2 DEF Keeps
  <2>2. CASE Active(a) /\ UNCHANGED <<queue, dnsFlags>>
    BY <1>5, <2>2 DEF PatientInv, Keeps
  <2> QED BY <2>1, <2>2, TaskMoves
<1>7. NoAssertFails'
  <2>1. CASE LookupPending(a)
    <3>1. Active(a)
      BY <2>1 DEF LookupPending, At, Active, InSetUp
    <3>2. dnsFlags # 0
      BY <3>1, Numbers DEF PatientInv, Keeps
    <3> QED BY <2>1, <3>2 DEF LookupPending, PatientInv, NoAssertFails
  <2>2. CASE CreateSub(a)
    <3>1. Active(a)
      BY <2>2 DEF CreateSub, At, Active, InSetUp
    <3>2. queue # 0
      BY <3>1, Numbers DEF PatientInv, Keeps
    <3> QED BY <2>2, <3>2 DEF CreateSub, PatientInv, NoAssertFails
  <2>3. CASE ~LookupPending(a) /\ ~CreateSub(a)
    <3>1. halted' = halted
      BY <2>3 DEF TaskStep, GetMac, Lookup, DnsWoken, DnsTimeout, Connect, OpenSession,
         CreateRefresher, Subscribe, ReadyToPublish, Publish, SkipPublish, Disconnect,
         CloseSocket, ClearStarted, DeleteQueue, DeleteGroup, DeleteTask, world
    <3> QED BY <3>1 DEF PatientInv, NoAssertFails
  <2> QED BY <2>1, <2>2, <2>3
<1> QED BY <1>4, <1>6, <1>7 DEF PatientInv

LEMMA PatientOthers ==
  ASSUME TypeOK, OneActive, PatientInv, [Next /\ PatientStep]_vars,
         ~ \E a \in Attempts : TaskStep(a)
  PROVE  PatientInv'
<1>1. CASE UNCHANGED <<pc, queue, dnsFlags, halted>>
  BY <1>1 DEF PatientInv, Alone, Keeps, NoAssertFails, Ended, Active, InSetUp, InSession
<1>2. ASSUME NEW a \in Attempts, Start(a) PROVE PatientInv'
  <2>1. /\ ~started /\ started' /\ pc' = [pc EXCEPT ![a] = "mac"]
        /\ queue' = a /\ dnsFlags' = a /\ halted' = halted
    BY <1>2 DEF Start, MayStart, Goto, world
  <2>2. \A b \in Attempts : Ended(b)
    <3>1. CASE UNCHANGED vars
      BY <2>1, <3>1 DEF vars, context
    <3> QED BY <2>1, <3>1 DEF PatientStep
  <2>3. \A b \in Attempts : b # a => Ended(b)' /\ ~Active(b)'
    BY <2>1, <2>2 DEF TypeOK, Ended, Active, InSetUp, InSession
  <2> QED BY <2>1, <2>3 DEF PatientInv, Alone, Keeps, NoAssertFails
<1>3. CASE StartFails
  <2>1. ~started /\ UNCHANGED <<pc, halted>>
    BY <1>3 DEF StartFails, MayStart, world
  <2>2. \A b \in Attempts : ~Active(b) /\ ~Active(b)'
    BY <2>1 DEF OneActive, Active, InSetUp, InSession
  <2>3. Alone'
    BY <2>1 DEF PatientInv, Alone, Ended
  <2> QED BY <2>1, <2>2, <2>3 DEF PatientInv, Keeps, NoAssertFails
<1>4. CASE Reboot
  <2>1. pc' = [a \in Attempts |-> "none"] /\ halted' = FALSE
    BY <1>4 DEF Reboot
  <2> QED BY <2>1 DEF PatientInv, Alone, Keeps, NoAssertFails, Ended, Active, InSetUp, InSession
<1>5. ASSUME NEW a \in Attempts, DnsCallback(a) PROVE PatientInv'
  BY <1>1, <1>5 DEF DnsCallback, world
<1>6. CASE TakeMutex \/ SyncReceives \/ SyncEnds \/ Receive \/ LinkBreaks \/ StreamSends
           \/ StreamHasSent
  BY <1>1, <1>6 DEF TakeMutex, SyncReceives, SyncEnds, Receive, LinkBreaks, StreamSends,
     StreamHasSent, context, world
<1>7. CASE Halt \/ UNCHANGED vars
  BY <1>1, <1>7 DEF Halt, vars, context, world
<1> QED BY <1>2, <1>3, <1>4, <1>5, <1>6, <1>7 DEF Next

LEMMA PatientInvariant == PatientSpec => [](IInv /\ PatientInv)
<1>1. Init => PatientInv
  BY DEF Init, PatientInv, Alone, Keeps, NoAssertFails, Ended, Active, InSetUp, InSession
<1>2. [Next /\ PatientStep]_vars => [Next]_vars
  OBVIOUS
<1>3. IInv /\ PatientInv /\ [Next /\ PatientStep]_vars => PatientInv'
  BY PatientTask, PatientOthers DEF IInv
<1> QED BY <1>1, <1>2, <1>3, InitIInv, Inductive, PTL DEF PatientSpec

(* The objects of an attempt go astray only when the attempt is started    *)
(* between the statements that end the one before: otherwise each keeps    *)
(* its event group and queue throughout its set-up.                        *)
THEOREM ObjectsKept == PatientSpec => []AttemptKeepsItsObjects
<1>1. PatientInv => AttemptKeepsItsObjects
  BY DEF PatientInv, Keeps, AttemptKeepsItsObjects, Active
<1> QED BY <1>1, PatientInvariant, PTL

(* And then no configASSERT of an attempt can fail, whatever messages,     *)
(* answers, failures and reboots come.                                     *)
THEOREM AssertsHold == PatientSpec => []NoAssertFails
<1>1. PatientInv => NoAssertFails
  BY DEF PatientInv
<1> QED BY <1>1, PatientInvariant, PTL

(***************************************************************************)
(* Progress of an attempt, as long as its task goes on.                    *)
(***************************************************************************)

Over(a) == Ended(a) \/ halted

(* One step of the task further. *)
LEMMA TaskAdvances ==
  ASSUME TypeOK, NEW a \in Attempts, TaskStep(a)
  PROVE  \/ halted'
         \/ pc[a] = "mac" /\ pc'[a] \in {"dns", "exit"}
         \/ pc[a] = "dns" /\ pc'[a] \in {"wait", "connect", "exit"}
         \/ pc[a] = "wait" /\ pc'[a] \in {"connect", "exit"}
         \/ pc[a] = "connect" /\ pc'[a] \in {"session", "close", "exit"}
         \/ pc[a] = "session" /\ pc'[a] \in {"refresher", "close"}
         \/ pc[a] = "refresher" /\ pc'[a] \in {"sub", "disconnect"}
         \/ pc[a] = "sub" /\ pc'[a] \in {"subscribe", "disconnect"}
         \/ pc[a] = "subscribe" /\ pc'[a] = "loop"
         \/ pc[a] \in WhileSyncing /\ pc'[a] \in WhileSyncing \cup {"disconnect"}
         \/ pc[a] = "disconnect" /\ pc'[a] = "close"
         \/ pc[a] = "close" /\ pc'[a] = "exit"
         \/ pc[a] = "exit" /\ pc'[a] = "queue"
         \/ pc[a] = "queue" /\ pc'[a] = "group"
         \/ pc[a] = "group" /\ pc'[a] = "gone"
         \/ pc[a] = "gone" /\ pc'[a] = "done"
<1> USE DEF TypeOK, At, Goto, WhileSyncing
<1>1. CASE GetMac(a) \/ Lookup(a) \/ LookupPending(a) \/ DnsWoken(a) \/ DnsTimeout(a)
  BY <1>1 DEF GetMac, Lookup, LookupPending, DnsWoken, DnsTimeout
<1>2. CASE Connect(a) \/ OpenSession(a) \/ CreateRefresher(a) \/ CreateSub(a) \/ Subscribe(a)
  BY <1>2 DEF Connect, OpenSession, CreateRefresher, CreateSub, Subscribe
<1>3. CASE ReadyToPublish(a) \/ Publish(a) \/ SkipPublish(a)
  BY <1>3 DEF ReadyToPublish, Publish, SkipPublish
<1>4. CASE Disconnect(a) \/ CloseSocket(a) \/ ClearStarted(a) \/ DeleteQueue(a)
           \/ DeleteGroup(a) \/ DeleteTask(a)
  BY <1>4 DEF Disconnect, CloseSocket, ClearStarted, DeleteQueue, DeleteGroup, DeleteTask
<1> QED BY <1>1, <1>2, <1>3, <1>4 DEF TaskStep

(* The others move an attempt only by a reboot. *)
LEMMA TaskWaits ==
  ASSUME TypeOK, NEW a \in Attempts, [Next]_vars, ~Ended(a), ~TaskStep(a)
  PROVE  pc'[a] = pc[a] \/ Over(a)'
<1>1. CASE UNCHANGED pc
  BY <1>1
<1>2. ASSUME NEW b \in Attempts, TaskStep(b) PROVE pc'[a] = pc[a]
  BY <1>2, TaskMoves
<1>3. ASSUME NEW b \in Attempts, Start(b) PROVE pc'[a] = pc[a]
  BY <1>3 DEF Start, Goto, TypeOK, Ended
<1>4. ASSUME NEW b \in Attempts, DnsCallback(b) PROVE UNCHANGED pc
  BY <1>4 DEF DnsCallback
<1>5. CASE Reboot
  BY <1>5 DEF Reboot, Over, Ended
<1>6. CASE StartFails \/ TakeMutex \/ SyncReceives \/ SyncEnds \/ Receive \/ LinkBreaks
           \/ StreamSends \/ StreamHasSent \/ Halt \/ UNCHANGED vars
  BY <1>1, <1>6 DEF StartFails, TakeMutex, SyncReceives, SyncEnds, Receive, LinkBreaks,
     StreamSends, StreamHasSent, Halt, vars
<1> QED BY <1>1, <1>2, <1>3, <1>4, <1>5, <1>6 DEF Next

(* What an attempt still has before it on its way out, and in its set-up.  *)
WayOut(a) == pc[a] \in {"disconnect", "close", "exit", "queue", "group", "gone"}

LEMMA WayOutEnds ==
  ASSUME NEW a \in Attempts
  PROVE  Spec /\ TaskGoesOn(a) => (WayOut(a) ~> Over(a))
<1> DEFINE O6 == pc[a] = "gone"
           O5 == pc[a] = "group" \/ O6
           O4 == pc[a] = "queue" \/ O5
           O3 == pc[a] = "exit" \/ O4
           O2 == pc[a] = "close" \/ O3
           O1 == pc[a] = "disconnect" \/ O2
           Step == TaskStep(a)
<1>1. TypeOK /\ [Next]_vars /\ ~<<Step>>_vars =>
        /\ O1 => O1' \/ Over(a)'
        /\ O2 => O2' \/ Over(a)'
        /\ O3 => O3' \/ Over(a)'
        /\ O4 => O4' \/ Over(a)'
        /\ O5 => O5' \/ Over(a)'
        /\ O6 => O6' \/ Over(a)'
  <2> SUFFICES ASSUME TypeOK, [Next]_vars, ~<<Step>>_vars, O1
               PROVE  pc'[a] = pc[a] \/ Over(a)'
    OBVIOUS
  <2>1. CASE UNCHANGED vars
    BY <2>1 DEF vars
  <2>2. CASE ~Step
    BY <2>2, TaskWaits DEF Ended
  <2> QED BY <2>1, <2>2
<1>2. TypeOK /\ <<Step>>_vars =>
        /\ O1 => O2' \/ Over(a)'
        /\ O2 => O3' \/ Over(a)'
        /\ O3 => O4' \/ Over(a)'
        /\ O4 => O5' \/ Over(a)'
        /\ O5 => O6' \/ Over(a)'
        /\ O6 => Over(a)'
  BY TaskAdvances DEF Over, Ended, WhileSyncing
<1>3. WayOut(a) => O1
  BY DEF WayOut
<1>4. Ended(a) \/ halted <=> Over(a)
  BY DEF Over
<1> HIDE DEF O1, O2, O3, O4, O5, O6, Step
<1>5. TaskGoesOn(a) => []<>(Ended(a) \/ halted) \/ []<><<Step>>_vars
  BY DEF TaskGoesOn, Step
<1> QED BY <1>1, <1>2, <1>3, <1>4, <1>5, TypeCorrect, PTL DEF Spec

LEMMA SetUpEnds ==
  ASSUME NEW a \in Attempts
  PROVE  Spec /\ TaskGoesOn(a) => (InSetUp(a) ~> pc[a] = "loop" \/ WayOut(a) \/ Over(a))
<1> DEFINE Left == pc[a] = "loop" \/ WayOut(a) \/ Over(a)
           S8 == pc[a] = "subscribe"
           S7 == pc[a] = "sub" \/ S8
           S6 == pc[a] = "refresher" \/ S7
           S5 == pc[a] = "session" \/ S6
           S4 == pc[a] = "connect" \/ S5
           S3 == pc[a] = "wait" \/ S4
           S2 == pc[a] = "dns" \/ S3
           S1 == pc[a] = "mac" \/ S2
           Step == TaskStep(a)
<1>1. TypeOK /\ [Next]_vars /\ ~<<Step>>_vars =>
        /\ S1 => S1' \/ Left'
        /\ S2 => S2' \/ Left'
        /\ S3 => S3' \/ Left'
        /\ S4 => S4' \/ Left'
        /\ S5 => S5' \/ Left'
        /\ S6 => S6' \/ Left'
        /\ S7 => S7' \/ Left'
        /\ S8 => S8' \/ Left'
  <2> SUFFICES ASSUME TypeOK, [Next]_vars, ~<<Step>>_vars, S1
               PROVE  pc'[a] = pc[a] \/ Over(a)'
    OBVIOUS
  <2>1. CASE UNCHANGED vars
    BY <2>1 DEF vars
  <2>2. CASE ~Step
    BY <2>2, TaskWaits DEF Ended
  <2> QED BY <2>1, <2>2
<1>2. TypeOK /\ <<Step>>_vars =>
        /\ S1 => S2' \/ Left'
        /\ S2 => S3' \/ Left'
        /\ S3 => S4' \/ Left'
        /\ S4 => S5' \/ Left'
        /\ S5 => S6' \/ Left'
        /\ S6 => S7' \/ Left'
        /\ S7 => S8' \/ Left'
        /\ S8 => Left'
  BY TaskAdvances DEF Over, Ended, WhileSyncing, WayOut
<1>3. InSetUp(a) => S1
  BY DEF InSetUp
<1>4. Ended(a) \/ halted => Left
  BY DEF Over
<1> HIDE DEF S1, S2, S3, S4, S5, S6, S7, S8, Left, Step
<1>5. TaskGoesOn(a) => []<>(Ended(a) \/ halted) \/ []<><<Step>>_vars
  BY DEF TaskGoesOn, Step
<1>6. Spec /\ TaskGoesOn(a) => (InSetUp(a) ~> Left)
  BY <1>1, <1>2, <1>3, <1>4, <1>5, TypeCorrect, PTL DEF Spec
<1> QED BY <1>6 DEF Left

(* Nothing in the set-up of an attempt, in its failures or in its end      *)
(* makes a loop: as long as its task goes on it reaches the publish loop   *)
(* or ends, whatever the others do.                                        *)
THEOREM AttemptsGetThrough == Spec /\ AttemptsGoOn => NoAttemptHangs
<1>1. ASSUME NEW a \in Attempts
      PROVE  Spec /\ TaskGoesOn(a) =>
               (pc[a] = "mac" ~> pc[a] \in {"loop", "done", "none"} \/ halted)
  <2>1. Spec /\ TaskGoesOn(a) => (InSetUp(a) ~> pc[a] = "loop" \/ WayOut(a) \/ Over(a))
    BY SetUpEnds
  <2>2. Spec /\ TaskGoesOn(a) => (WayOut(a) ~> Over(a))
    BY WayOutEnds
  <2>3. pc[a] = "mac" => InSetUp(a)
    BY DEF InSetUp
  <2>4. pc[a] = "loop" \/ Over(a) => pc[a] \in {"loop", "done", "none"} \/ halted
    BY DEF Over, Ended
  <2> QED BY <2>1, <2>2, <2>3, <2>4, PTL
<1>2. AttemptsGoOn => \A a \in Attempts : TaskGoesOn(a)
  BY DEF AttemptsGoOn
<1> QED BY <1>1, <1>2 DEF NoAttemptHangs

(* In its loop an attempt is the only one that could mend the connection   *)
(* or clear the error.                                                     *)
LEMMA LoopStep ==
  ASSUME IInv, NEW a \in Attempts, pc[a] \in WhileSyncing, ~link, [Next]_vars
  PROVE  \/ Over(a)'
         \/ ~link' /\ (error => error') /\ pc'[a] \in WhileSyncing
         \/ error /\ WayOut(a)'
<1>1. CASE UNCHANGED <<pc, link, error>>
  BY <1>1
<1>2. \A b \in Attempts : Active(b) => b = a
  BY DEF IInv, OneActive, Active, InSession, WhileSyncing
<1>3. \A b \in Attempts : ~Ending(b)
  BY DEF IInv, Overlap, Active, InSession, WhileSyncing
<1>4. ASSUME NEW b \in Attempts, TaskStep(b)
      PROVE  \/ ~link' /\ (error => error') /\ pc'[a] \in WhileSyncing
             \/ error /\ WayOut(a)'
  <2>1. Active(b)
    BY <1>3, <1>4, TaskMoves DEF IInv, ClearStarted, At, Active, DeleteQueue, DeleteGroup,
       DeleteTask, Ending
  <2>2. b = a
    BY <1>2, <2>1
  <2>3. ReadyToPublish(a) \/ Publish(a) \/ SkipPublish(a)
    BY <1>4, <2>2 DEF WhileSyncing, At, TaskStep, GetMac, Lookup, LookupPending, DnsWoken,
       DnsTimeout, Connect, OpenSession, CreateRefresher, CreateSub, Subscribe, Disconnect,
       CloseSocket, ClearStarted, DeleteQueue, DeleteGroup, DeleteTask
  <2> QED BY <2>3 DEF ReadyToPublish, Publish, SkipPublish, Goto, IInv, TypeOK, session,
             WhileSyncing, WayOut
<1>5. ASSUME NEW b \in Attempts, Start(b) PROVE FALSE
  BY <1>5 DEF Start, MayStart, IInv, OneActive, Active, InSession, WhileSyncing
<1>6. ASSUME NEW b \in Attempts, DnsCallback(b) PROVE UNCHANGED <<pc, link, error>>
  BY <1>6 DEF DnsCallback, session
<1>7. CASE Reboot
  BY <1>7 DEF Reboot, Over, Ended
<1>8. CASE SyncEnds
  BY <1>8 DEF SyncEnds
<1>9. CASE LinkBreaks
  BY <1>9 DEF LinkBreaks
<1>10. CASE StartFails \/ TakeMutex \/ SyncReceives \/ Receive \/ StreamSends \/ StreamHasSent
            \/ Halt \/ UNCHANGED vars
  BY <1>1, <1>10 DEF StartFails, TakeMutex, SyncReceives, Receive, StreamSends, StreamHasSent,
     Halt, vars, session
<1> QED BY <1>1, <1>4, <1>5, <1>6, <1>7, <1>8, <1>9, <1>10 DEF Next

(* A session whose connection broke ends, so that MQTT can start again, as *)
(* long as its task goes on and, in the loop, the refresher has its turns  *)
(* and the mutex is sometimes free: the refresher leaves the error in the  *)
(* client, nobody clears it, and the next publication fails on it.         *)
THEOREM BrokenSessionsEnd == Spec /\ AttemptsGoOn => BrokenLinkEndsSession
<1>1. ASSUME NEW a \in Attempts
      PROVE  Spec /\ TaskGoesOn(a) /\ LoopGoesOn(a) =>
               (pc[a] = "loop" /\ ~link ~> pc[a] \in {"done", "none"} \/ halted)
  <2> DEFINE Broken == pc[a] \in WhileSyncing /\ ~link
             Known == Broken /\ error
             Sync == SyncEnds
             Pub == Publish(a)
  <2>1. IInv /\ [Next]_vars =>
          /\ Broken => Broken' \/ WayOut(a)' \/ Over(a)'
          /\ Known => Known' \/ WayOut(a)' \/ Over(a)'
    BY LoopStep
  <2>2. IInv /\ [Next]_vars /\ <<Sync>>_vars => (Broken => Known' \/ Over(a)')
    <3> SUFFICES ASSUME SyncEnds, Broken PROVE Known'
      OBVIOUS
    <3> QED BY DEF SyncEnds
  <2>3. IInv /\ <<Pub>>_vars => (Known => WayOut(a)')
    <3> SUFFICES ASSUME IInv, Publish(a), Known PROVE WayOut(a)'
      OBVIOUS
    <3> QED BY DEF Publish, At, Goto, IInv, TypeOK, WayOut
  <2>4. pc[a] = "loop" /\ ~link => Broken
    BY DEF WhileSyncing
  <2>5. Broken => ~(pc[a] \notin {"loop", "publish"})
    BY DEF WhileSyncing
  <2>6. Over(a) => pc[a] \in {"done", "none"} \/ halted
    BY DEF Over, Ended
  <2>7. halted => Over(a)
    BY DEF Over
  <2>8. Spec /\ TaskGoesOn(a) => (WayOut(a) ~> Over(a))
    BY WayOutEnds
  <2> HIDE DEF Broken, Known, Sync, Pub
  <2>9. LoopGoesOn(a) => \/ []<>(pc[a] \notin {"loop", "publish"} \/ halted)
                         \/ []<><<Sync>>_vars /\ []<><<Pub>>_vars
    BY DEF LoopGoesOn, Sync, Pub
  <2> QED BY <2>1, <2>2, <2>3, <2>4, <2>5, <2>6, <2>7, <2>8, <2>9, Invariant, PTL DEF Spec
<1>2. AttemptsGoOn => \A a \in Attempts : TaskGoesOn(a) /\ LoopGoesOn(a)
  BY DEF AttemptsGoOn
<1> QED BY <1>1, <1>2 DEF BrokenLinkEndsSession
=============================================================================
