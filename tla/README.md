# Verification of the ST67W6X RTP multicast demo

The firmware captures video on an STM32N6570-DK, encodes it to H.264 and sends
it by RTP over an ST67W6X Wi-Fi module; it is commissioned over BLE and reports
by MQTT. It is a FreeRTOS program: fixed-priority tasks with time slicing at
equal priority, a 1 kHz tick, one core. This directory holds TLA+ models of the
parts of it whose difficulty is concurrency, TLC runs on small instances of
them, and TLAPS proofs for every instance.

Paths below are relative to the repository; `App/` stands for
`FSBL/User/App/Src/` and `W6X/` for `Middlewares/ST/ST67W6X_Network_Driver/`.

## 1. Inventory

| Component | State it keeps | Operations | Interacts with |
|---|---|---|---|
| Camera task and encoder, `App/camera_app.c` (prio 24) | event group, queue of 5 frame descriptors, 512 KiB linear bitstream buffer and its write offset, pause and resume requests, encoder state, forced-intra flag | task loop; `camera_encode_request/wait/free/flush`, `camera_stream_pause/resume`; frame interrupt | stream task (queue, offset, request bit), main task (pause flags) |
| RTP stream task, `App/rtp_stream_app.c` (prio 24) | paused flag, timestamp, transmit-busy bit, postpone tick | start, task loop, `TogglePause` | camera, RTP sender, MQTT task |
| Main task, `App/main_app.c` (prio 40) | event bits, button latch, station state | event loop, button, Wi-Fi callback | all of the application |
| MQTT, `App/mqtt_app.c` (prio 18, 14, 26) | started/connected flags, client and its mutex, DNS event group, subscription queue, task handles | start, connect, refresh, publish, subscribe, clean-up, DNS callback | main task, stream task, LwIP |
| BLE commissioning, `App/ble_comm_app.c` | parameters of the last event, payload buffer, scan event group, Wi-Fi options | driver callback, button, write, scan, connect, pairing | driver, main task |
| RTP sender, `FSBL/User/RTP/Src/w6x_rtp_sender.c` | sender, sockets, list of sessions, sequence numbers and counters, mutex, RTCP task | create/delete, `send_packet`, `send_h264`, RTCP send and receive | stream task, LwIP |
| SPI transfer engine, `W6X/Driver/W61_bus/spi_iface.c` (prio 53) | transmit queue, buffer in flight, stall flag, receive queues, events | `spi_read`, `spi_write`, engine task, pin and DMA interrupts | AT layer, network glue, NCP |
| AT command layer, `W6X/Driver/W61_at/modem_cmd_handler.c`, `w61_at_common.c` | transmit lock, response semaphores, handlers of the pending command | send command, process answers and events, timeouts | API layer, SPI engine |
| Network glue, `App/lwip_netif.c` | notification bits, ownership of received buffers | output, receive task | SPI engine, LwIP |
| LwIP integration, DHCP server, TLS, SNTP, HTTP | leases, TLS contexts | protocol code | LwIP |
| API layer, AT command sets, shells, utilities, ports | module contexts | one function per command | AT layer |
| Splash frame; diagnostics and test programs | constant data; none | copy to PSRAM; shell commands | stream task; shell |
| Vendored: FreeRTOS, LwIP, mbedTLS, MQTT-C, cJSON, littlefs, encoder, camera, ISP, HAL, BSP | - | - | - |

What is hard, and what makes each component correct:

- **Video path (camera and stream tasks).** Two tasks of one priority share an
  offset, a queue and flags almost without locking, and requests are polled at
  three places of the camera loop. Correct means: the encoder and the sender
  never leave the buffer, a frame is sent once and the frame freed is the frame
  sent, no request is lost, pausing stops the video and resuming starts it with
  an intra frame, and a full buffer is used again.
- **MQTT.** A task tears down what the task above it in priority may be setting
  up, deletes tasks that may hold a mutex, and a DNS answer may come after its
  timeout. Correct means: every resource belongs to one attempt, is released
  once, and a later attempt can always start and connect.
- **Main task and BLE.** Bits are cleared before they are processed and payloads
  are overwritten by the next callback. Correct means: every event is acted on,
  and a command is processed with its own payload.
- **RTP sender.** Splitting at every boundary size, failures in the middle of a
  frame, sequence numbers modulo 2^16, several sessions under one mutex. Correct
  means: a receiver that gets all packets rebuilds exactly the frame.
- **SPI engine.** A handshake of pin interrupts, timeouts, peer flow control and
  queues on both sides. Correct means: each direction is a FIFO that neither
  loses nor repeats what it accepted, no wake-up is lost, nobody waits for ever.
- **AT layer.** Answers carry no tag. Correct means: an answer completes the
  command it belongs to, whatever timed out before.
- **Network glue.** Each received driver buffer is freed exactly once.

Every hazard is listed with its line in `PROJECT.json` under `hazards`, with the
properties that cover it or the reason none does yet.

## 2. Plan

| Order | Module | Models | Composed with / implements |
|---|---|---|---|
| 1, done | `EncodeShared`, `CameraTask`, `StreamTask` | the two tasks of the video path | composed by `EncodeStream`, which implements `FrameChannel` |
| 2, done | `SpiShared`, `SpiEngine`, `SpiUsers` | engine, NCP, writers, netif task, readers | composed by `SpiBus`, which implements `BusChannel` without failures |
| 3, done | `MqttApp` | attempts of the MQTT task against restarts, DNS answers and deleted tasks | - |
| 4, done | `RtpSender` | set-up, fragmentation, refused and lost packets, sender reports, a receiver | implements `UnitStream` |
| 5, done | `AppShared`, `WifiStation`, `BleCommissioning` | driver's station, commissioning over BLE, event loop, button | composed by `MainEvents` |
| 6, done | `ModemCmd` | command and answer, late answers, timeouts | - |

Theorems: type correctness, bounds, request and ownership invariants and the channel
refinement of the video path; order, repeats, handshake and wake-ups of the SPI bus,
in both directions, and the channel it implements; sessions, mutex, answers, buffers
and clean-up of MQTT; fragmentation, numbering and the refinement of the unit stream;
handlers and answers of a command; the invariants of the application task. All are
proved. None of the modules proved about declares a RECURSIVE operator. Type
invariants are proved for every module, and so no run checks one. Of the findings
that are windows between two statements, theorems say that nothing else breaks the
property: outside the window it holds for every instance.

**Liveness.** `WF_` and `SF_` are defined with ENABLED, about which the prover knows
nothing. The liveness theorems therefore have fairness as a hypothesis in words of
its own, named `...GoesOn` or `...GoOn`: again and again the task is at a place where
it may rest, or it takes steps again and again (`[]<>Rests \/ []<><<Step>>_vars`). That
is what the code's scheduling gives. Each hypothesis was first checked by TLC to follow from
`FairSpec` on the instance of its component's run; that it does so for every value of
the constants is not proved. What takes a count (a frame has finitely many fragments,
failures are bounded) is out of the prover's reach too, and is a hypothesis of its own
where it is needed: `FramesEnd`, `FailuresEnd`, `PacketsEnd`, `MessagesEnd`. The argument from there to the property
is proved: a few places, from each of which a step leads on, combined by temporal logic.

## 3. The video path

### Modules and code

| Module | Code | Content |
|---|---|---|
| `EncodeShared` | file-scope state of `camera_app.c`, `ctx->rtp_stream_paused` | constants, variables, `Init`, `TypeOK` |
| `CameraTask` | `camera_app()`, `_camera_do_pause/resume`, `_encoder_process_frame`, `_get_next_frame_buffer`, `_encoder_queue_frame` | one action per access to shared data |
| `StreamTask` | `w6x_h264_rtp_stream()`, `camera_encode_wait/free/flush/request` | one action per access to shared data |
| `EncodeStream` | `APP_RTP_Stream_TogglePause`, the camera's frame interrupt | composition, specifications, properties |
| `FrameChannel` | - | what the path promises: a lossy bounded FIFO |
| `MCEncodeStream` | - | frame sizes for TLC |
| `EncodeStreamProofs` | - | the proofs |

`cpc` and `spc` say where each task is in its loop. The values of `cpc` from
`pause1` to `decide` follow lines 210 to 274 of `camera_app.c`; `space`, `place`,
`encode`, `push`, `bump`, `align`, `realign` follow one call of
`_encoder_process_frame`; those of `spc` follow the loop of the stream task.

**Grain.** The camera and stream tasks have priority 24, so a tick may switch
between them anywhere; each read or write of shared data is its own step. In
particular `_get_next_frame_buffer` reads the offset twice (once for the room,
once for the address), `_encoder_queue_frame` queues the descriptor, advances
the offset in a critical section and aligns it by a read and a write outside
any, and `camera_encode_free` receives the descriptor and resets the offset in
two steps. `main_app` has priority 40, so the few assignments of a toggle are
not interrupted and are one step. When `_encoder_process_frame` returns its
locals are reset, so that they tell no states apart.

**What the code does that a reader may not expect.** The encode-request bit is
polled and never cleared while unpaused: once the stream task has asked, the
camera task encodes every frame. The first encode writes a stream header, queued
as a frame of its own, and leaves `forced` as it was. An error other than a fuse
error forces the next frame to intra; a fuse error counts the frame and does not.
A full queue drops the encoded frame without forcing an intra frame.

**Abstractions.** Bytes are not modelled: a frame is its position, size and kind.
`Fps` stands for the GOP length of 30, the frame counter is kept modulo it (its
wrap at 2^32 is ignored), and sizes are those of a scaled-down buffer. The
splash frame, timestamps, delays and the result of a send (which the task
ignores) are left out. `fresh` and `lateFrames` are history that only properties
read.

### Runs

| Run | Configuration | What it shows |
|---|---|---|
| `encode_safety` | queue of 2, buffer of three aligned frames, all outcomes, 2 presses, sizes just under and on the alignment | `BufferBounds`, `FreesWhatItSent`, `NoLostRequest`, `AtMostOneLateFrame`, `NothingQueuedWhilePaused`, `FirstQueuedIsIntra` hold |
| `encode_channel` | same buffer, fair tasks, no encoder error | the path implements `FrameChannel`; a resume is applied even if a pause is pending with it |
| `encode_overlap`, `encode_full` | as small as shows it | each finds the counterexample of one finding |

The bounds are enough for what matters to happen: both the buffer and the queue
fill up, the offset is reset in each of the windows of `_encoder_queue_frame`,
frames end on and off an aligned position, a pause and a resume are pending
together, and every outcome of an encode occurs in every state. `MaxToggles` is
the one counter added; `lateFrames` stays bounded by what is checked.

**Fairness.** `FairSpec` assumes weak fairness of each task and of the frame
interrupt: equal priorities are time-sliced, blocking calls end (the wait for a
frame by the interrupt, that for a queue entry by its 50 ms timeout), and the
sensor free-runs. Nothing is assumed of presses or of encode results. Deadlock is
checked in every run.

### Findings

1. `encode_overlap`: "next free position" (`camera_app.c:877`) is not free.
   The stream task frees the last frame and resets the offset to 0 while the
   camera task is encoding at offset N. The frame is queued at N, the offset
   becomes its size, and later frames run into it. No error or press is needed.
2. `encode_full`: the unprotected alignment (`camera_app.c:911`) can undo the
   reset of the offset. If that happens near the end of the buffer there is no
   room, nothing is queued, nothing is freed, and live video stops for good
   although both tasks run.

Seen while modelling, and not checked by a run: the flush of a paused stream
(`rtp_stream_app.c:79`) may discard the forced intra frame, or spare a stale one,
when a pause and a resume are close together; a fuse error consumes the forced
intra frame (`camera_app.c:757-760`) that `readme.md:108` promises, which is why
`FirstQueuedIsIntra` speaks of other errors only; a resume and then a pause that
the camera task finds pending together are applied pause first, so it encodes on
while the stream is paused (`readme.md:101`), until the next pause is requested.

### Proofs

`EncodeStreamProofs` proves, from `SharedAssumption` alone (positive sizes, a
buffer that is a multiple of the alignment), for every queue length, buffer,
set of frame sizes and number of presses:

- `TypeCorrect`; every other proof uses it as a lemma about steps.
- `BoundsHold` by `BoundsInv`. `BufferBounds` is not inductive: it says nothing
  of the steps between choosing a position and advancing the offset. The
  strengthening rests on one fact, that only the camera task raises the offset;
  while a frame is in the making the offset is therefore at most the position
  that was read, whatever resets happen, and adding the frame's size stays in
  the buffer. Alignment stays in it because the size is a multiple of `Align`.
- `FreesSentFrame` by `HeldInv`: only the stream task removes frames.
- `RequestNeverLost`, `NothingQueued` (by `PausedInv`: the camera task
  encodes only while not paused), and `OneLateFrame` (by `LateInv`: after its
  late frame the stream task tests the flag before it sends again).
- `FirstIsIntra` by `IntraInv`: from a resume to the first frame queued the forced
  flag is set, or the frame in the making is not a predicted one.
- `PatientAgreement` by `PatientInv`, for `PatientSpec`: when every press is
  applied before the next is handled, `PausedFlagsAgree`.
- `PositionIsFree` and `FramesKept` by `LaidOutInv`, for `PlacedSpec`, where
  `camera_encode_free` does not rewind while a frame is placed but not queued: then
  the frames lie one behind the other below the offset, the one in the making behind
  them, and no frame in use is written over. Nothing else breaks what
  `encode_overlap` finds broken.
- `EmptyIsRewound` by `RewoundInv` and `FullBufferIsReused`, for `RewoundSpec`, without
  the rewind in front of a write that puts an older offset back: with nothing queued
  and nothing in hand the offset is 0, or about to be, and a full buffer is used again.
- `ResumeIsHonoured`: with a camera task that goes on a resume is applied, from each
  place of the loop at which it may be requested.
- `ChannelRefinement`: every step of the path is a step of `FrameChannel` or a
  stutter under the mapping that `Channel` gives. `QueueMoves` is what the channel's
  fairness asks for, that the oldest frame leaves as long as the stream task goes on.

Only model-checked: that this is the weak fairness `ImplementsChannel` states, since
it is about ENABLED.

## 4. The SPI bus

### Modules and code

| Module | Code | Content |
|---|---|---|
| `SpiShared` | `struct spi_xfer_engine`, `spi_transaction_init` of `spi_iface.c` | constants, variables, `Init`, `TypeOK` |
| `SpiEngine` | `spi_xfer_engine_task`, `spi_do_xfer`, `spi_xfer_one`, `spi_on_txn_data_ready`, `spi_on_header_ack` | the engine task, every early return of a transfer, the two edges of RDY; the NCP |
| `SpiUsers` | `spi_write`, `spi_read`, `netif_task`, `netif_rx_process`, `W6X_Netif_output`, the link callbacks of `App/lwip.c` | threads that send, the netif task, the parser task |
| `SpiBus` | - | composition, fairness, properties |
| `BusChannel` | - | what the bus promises: a FIFO each way, exactly once |
| `MCSpiBus` | - | queue depths for TLC |
| `SpiBusProofs`, `SpiChannelProofs` | - | the proofs |

`epc` is where the engine blocks or reads what an interrupt writes: `idle` (line
869), `loop` (818), `wait` for RDY (600), `setup` (608), the transaction
(`first` 651, `second` 700), `deliver` (757), `ack` (791) and `poll` of the pin
after its timeout (793). A failed transfer goes back to `loop` with `txbuf`
kept. `tpc` is where a thread is in `spi_write` (`send` 1236, `signal` 1248) or
around it: waiting for the LwIP core lock (`lock`) or in the stack with it
(`input`: `tcpip_input` for the netif task, a call of netifapi for the parser task);
the netif task in its loop (`read`); the parser task in `netif_set_link_up`, which
`lwip.c:253` calls without the core lock (`report`). The parser task reads the AT
answers and events, and runs the link callbacks between two of them (`w6x_wifi.c`,
1179 and 1224): `linkCalls` are the calls of netifapi, each a send of a DHCP message
under the core lock, that are left in the callback it is in.

**Grain.** An action of the engine (priority 53) reaches from one blocking point,
or one read of what an interrupt writes, to the next. Of the tasks that use the bus
only the parser task (54) is above it; what that one does meanwhile (take an answer,
queue a packet and set its event) is the same before or after the action, which has
one operation on a queue or on the event bits in it. The interrupts set event bits through the timer daemon
(priority 55), which runs before the engine does. Threads are interleaved at
every queue operation, event and lock.

**The NCP** is external, and modelled by what the engine relies on: RDY rises
when it is selected or has a message, stays high until the exchange and falls
after it; a deselection without an exchange makes it fall too, and rise again as
long as there is cause. The header it sends says whether it has room
(`rx_stall`); without room it does not keep the message of that transfer. The
host holds the data back from the next transfer on, and the transfer that
announces room carries none either, which is why the code keeps `txbuf` then
(`rx_restore`). A bus error is seen either before or after the NCP has taken its
part.

**Abstractions.** A message is a number (and a traffic type on the way up);
lengths enter only as the choice of a second transaction. Memory, statistics
and headers are not modelled, the DMA only by its result. Each buffer of a pbuf
chain is a call of `spi_write` of its own, as in `net_if_output`. Of the two
links the netif task may have notified, the model serves them in any order where
the code alternates, one packet of the station and one of the AP. Bindings, deinit and start-up races are left
out; the station and AP callbacks are registered.

### Runs

| Run | Configuration | What it shows |
|---|---|---|
| `spi_faults` | a sender under the core lock, the netif task and the parser task, transmit queue of 1, receive queues of 1 and 2, a type without queue, 2 calls, 2 messages up, one stall, one failure anywhere | `ExchangeWhenReady`, `NoLostWakeup`, `RepeatsNeedFaults`, `ReadOnceInOrder`, `NoForgottenPacket` |
| `spi_live` | the netif task and the parser task, which send as they read, queues of 1, 2 calls, 3 messages up, fair | `ImplementsBusChannel`: exactly once and in order, both ways; `EverythingIsTaken`, `EverythingIsRead` |

Queues of one or two fill up, so that the engine blocks on a receive queue while
its reader blocks on the transmit queue or on the core lock; one stall is enough for a message to
be kept back at its beginning and its end, and one failure for a repeat, in every
state. Three messages distinguish a skipped, a repeated and an overtaken one.
`MaxCalls`, `MaxUp`, `MaxStalls` and `MaxFaults` bound what is otherwise endless;
`Quiet` is the end of such a bounded history, so that deadlock can be checked (in
`spi_live` the liveness properties take its place). Stalls and failures occur in
`spi_faults` only.

**Fairness.** Weak fairness of the engine, of each thread in `spi_write`, of the
netif task and of the parser task: they are tasks that run when nothing above them
does, and a wait with a timeout ends. Weak fairness of taking the core lock too:
it promises the lock only to a thread that finds it free from some time on, so
nothing is assumed of the order of the waiters; the bounded number of calls makes
it enough. The NCP raises and lowers RDY and makes room again. Calls, messages of
the NCP, stalls and failures are never forced.

`EverythingIsTaken` says that behind the last message the NCP has taken the next one
queued does not stay for ever, `EverythingIsRead` that again and again no message is left to
read; as calls and messages are bounded, that is: everything.

**What the runs say about the design.** The wait of line 757 has no limit, and
closes a circle: engine, netif or parser task, core lock or transmit queue, engine.
`EverythingIsRead` holds only because `W6X_Netif_output` gives up after 10 s; until
then everything on the bus, AT commands included, stands still: a link callback that
sends in the parser task takes part in the circle although it only reports a
connection. That callback enters the stack at `netif_set_link_up` without the core
lock, which nothing asserts in this configuration. `NoForgottenPacket` is stated
for a history without failures since it does not hold with them: a failed
allocation (`lwip_netif.c:281`) ends the processing of a link like an empty
queue, and packets behind it wait for the next notification.

### Proofs

`SpiBusProofs` proves from `SpiAssumption` (non-empty queues, distinct names),
for any number of threads, types, depths and bounds, failures included:

- `InductiveInvariant`: `IInv`, the conjunction of `TypeOK` and of
  - `Down`: the transmit queue holds consecutive numbers ending with the last
    one queued, `txbuf` precedes them, and the NCP has taken everything before
    `txbuf` and perhaps `txbuf` itself. What a transfer is about to free has been
    taken: this is what `rx_restore` is for.
  - `Credit`: whenever a message already taken is still in hand, a failure has
    happened that no repeat has used up.
  - `Pins`: the event of RDY is set, or held by the engine between its wait and
    the exchange, exactly when RDY is high and not about to fall, never both.
    The skip flag is part of it, which is why it must be cleared at once.
  - `NoLostWakeup`, inductive together with `TypeOK` and `Down`.
- `SpiTypeCorrect`, `ClocksOnlyWhenReady` (from `Pins`), `WakeupNeverLost`,
  `RepeatsBounded` (from `Credit`), `NoGap` (from `Down`).
- `PacketsAttended`, by `Attended`: the netif task waits for a notification only
  with no link left to process.

- `ReadsInOrder`, by `Up`: numbers ascend in every queue, and some number separates
  what has left the NCP's outbox from what has not; what the receive queues hold is
  below what is between the bus and them.

`SpiChannelProofs` proves `ChannelImplemented`: with `MaxFaults = 0`, `Spec` implies
`ImplementsBusChannel`, stalls included, which `spi_live` leaves out. `Down`,
`Credit` and `Limits` (what is received is in hand only from the exchange to the
delivery, no receive queue overflows) give that a message in hand has been taken only
when the transfer is about to free it; so each exchange is one `Take`, `Give` or
`Swap`, and what `spi_get_txbuf` and the delivery move stays within the channel.

`NextIsTaken`, in `SpiBusProofs`, is `EverythingIsTaken` for every instance, stalls and
failures included. Its hypotheses are `BusGoesOn` (the engine does not stay at a place
other than an empty wait or a full receive queue, RDY rises and falls when it is due,
a thread that has queued a message sets the event, and `ReadersGoOn` and `PacketsEnd`
of the next paragraph) and `FailuresEnd`. Besides `IInv` it needs `Handshake`, where RDY
and the engine may stand to each other; from there a message goes by way of the wake-up, the
wait, the exchange and the delivery, and a failed transfer starts over with a message
in hand that is not lost.

`RoomIsMade` is the circle described above: the engine does not wait for ever for room in a
receive queue (`RoomComes`). `ReadersGoOn` says that the netif task and the parser task
go on unless they have nothing to do or wait for the core lock, that the holder of this
lock goes on (`spi_write` gives up after its time limit, so it can), and that the lock,
given back again and again, is given to each of the two in the end. While the engine waits it
adds nothing to the queues, so that what the netif task has to read, drop or strike off
comes to an end, which is the count `PacketsEnd`. The lemmas are: `Standing`, where
each task may be and who holds the core lock; `Filled`, that the reader of
a full queue has been notified; `CoreComesBack`, `NetifComesBack` and `ParserComesBack`,
that the lock and the two readers come back from the stack and from `spi_write` whatever the
engine does. `AllIsRead` is `EverythingIsRead` for `MaxFaults = 0`, with the hypothesis
that the NCP stops sending (`MessagesEnd`). TLC finds `PacketsEnd` and `MessagesEnd`
true of the run's instance under `Spec`, without any fairness: they are counts, not scheduling.
With a failed allocation and a second packet in the queue `EverythingIsRead` does not hold, for the
reason `NoForgottenPacket` does not.

## 5. The MQTT application

### Modules and code

`MqttApp` models `App/mqtt_app.c` as attempts: one per call of `APP_MQTT_Start`
that gets as far as creating the task. `pc[a]` is where the task of attempt `a`
is: in a wait (`mac` 736, `wait` for the answer 758, `connect` 781,
`loop` 901, `publish` for the mutex 952, `close` of the socket 997), or on the way
from one to the next (`dns` 748, `session` 833 to `subscribe` 892, `disconnect` 985,
`exit` 1003, `queue` 1006, `group` 1014, `gone` 1020). The context is shared by all
attempts, and the handles in it bear the number of the attempt that made the
object, 0 for NULL; that is how a task is seen to work with, or delete, what
belongs to another. In the same way `res[a]` is 0 or the attempt whose lookup gave
the address in `dns_res`.

**The late DNS callback.** `dns_lookup_callback` writes through a pointer to `dns_res`
on the stack of the task that asked (751), also when that task has timed out and is
gone. FreeRTOS returns the stack of a deleted task to the heap, and a new task may
get it: `stack` says who has which, and `Start` takes memory of its own or that of any
task that is gone. The new task runs the same function, so its `dns_res` lies
where the callback writes. The answer goes there when it waits for its own (before, the
initialisation overwrites it; after, it has been copied). What else the write may
hit, when the memory has become something else or holds another local by then, is not
modelled.

**Grain and scheduling.** `main_app` (40), the TCP/IP thread (28, the DNS
callback) and the subscription task (26) are above the MQTT task (18) and may act
between any two statements of it. Two MQTT tasks have one priority and share the
processor in time slices: their steps interleave freely. The refresher (14) is below them
and takes a step only while each is in a wait (`MqttTasksBlocked`), hence the split of
the labels into `Blocked` and `Running`. Its `mqtt_sync` is several steps (messages
come in through `publish_callback`), since it blocks on the network; the subscription
task processes a message in one.

One step asks more of the scheduler: `Connect`, when it has got a connection, finds no
other MQTT task between two waits. A connection takes several answers of the network.
While the task waits for each of them the attempt that is ending, which has the same
priority and a few statements left and no wait, has the processor. Without this
`BrokenLinkEndsSession` fails (the old task, starved all the while, deletes the
refresher of the new session) and the other properties of the run still hold.

**Abstractions.** Texts, handshakes and keep-alive are left out. A buffer is
counted when it is allocated and when it is freed. `mqtt_connected` and
`red_led_status` are written and never decide anything, and the postponement of a
publication (944) is a delay only: neither is modelled. A configASSERT stops the
program (`halted`).

### Runs

| Run | Configuration | What it shows |
|---|---|---|
| `mqtt_attempts` | two attempts, queue of 2, fair | `MutexHolderAlive`, `OneSession`, `AnsweredOnItsStack`, `BuffersAccounted`, `StoppedIsClean`, `NoAttemptHangs`, `BrokenLinkEndsSession` hold |
| `mqtt_restart` | two attempts | the counterexample of the finding |

Two attempts overlap in every way two can, a late answer of the first meets the
second, and the proofs cover any number; a queue of 2 distinguishes full, empty and
in between. Attempts are the only counter bounded.

**Fairness.** Weak fairness of each task: every wait has a limit or an answer.
Strong fairness, as the comment at `Fairness` argues, of passing the busy test and
of getting the mutex: a frame lasts milliseconds of the 5 s of the loop. Nothing
makes a link break, a message come or a DNS server answer.

### Findings

`mqtt_restart`: `mqtt_started` is cleared (1004) before the queue and the group are
deleted. A start in between gets its own deleted, and stops the board in a
configASSERT: in `xEventGroupWaitBits` or in the subscription task.

Seen while modelling, and not checked by a run of its own: that an attempt connects on
the answer to an earlier lookup, which `AnsweredOnItsStack` admits for an attempt that
inherited the stack (TLC finds it when `res[a] = a` is demanded instead; the name asked
for is the same, so the address is a right one, unlike what the write may do to
memory that is anything else); a reboot accepted is dropped when a
publication fails during its delay; the TLS context is never destroyed; the
transmit-busy bit is tested too early to keep a publication out of a transmission.

### Proofs

`MqttAppProofs` proves from `MqttAssumption`, for any number of attempts and any
queue depth, `TypeCorrect`, `SessionsAreSingle`, `MutexIsNotOrphaned`,
`AnswersReachTheirStack`, `NothingLeft` and `BuffersKept`. Few are inductive. `IInv` adds:

- `OneActive`: up to clearing `mqtt_started` an attempt is the only one, since a
  start needs the flag FALSE;
- `Overlap`: while an attempt is between clearing it and its end, the next one is
  not in a session yet, for the end has no wait and the priorities are equal;
- `Refresher`: the mutex is taken exactly while `mqtt_sync` runs, and then the MQTT
  task is in its loop. Nothing in `APP_MQTT_StopAuxTasks` ensures that the mutex is
  free: the priorities do, through `MqttTasksBlocked`.
- `Buffers`: there is a buffer for each message queued.

`AnswersReachTheirStack` rests on `AnswerInv`: tasks that exist have different stacks
(`StacksApart`), and while an attempt may still use its `dns_res` the address there is
of its own lookup or of one whose attempt is gone and left it the stack (`Origin`).

`NothingLeft` needs `Owned` besides: what is in the context has an attempt that will
still release it. `BuffersKept` needs `Account`: an attempt that closes has its whole
allowance left, since the refresher is gone and no message comes in any more, and one
that is past the deletion of the queue has spent it.

`ObjectsKept` and `AssertsHold`, by `PatientInv`, are for `PatientSpec`, where no attempt is started
between the statements that end the one before: each attempt then keeps the group and
the queue it made, and no configASSERT fails. Nothing else breaks what `mqtt_restart`
finds broken.

`AttemptsGetThrough` is `NoAttemptHangs` and `BrokenSessionsEnd` is
`BrokenLinkEndsSession`, for tasks that go on (`AttemptsGoOn`: the task of an attempt takes
steps until it ends, and in its loop the refresher's turn ends and the publication is
made again and again, which is the strong fairness above).

## 6. The RTP sender

### Modules and code

| Module | Code | Content |
|---|---|---|
| `RtpSender` | `w6x_rtp_sender.c` as `rtp_stream_app.c` uses it | sender, session, RTCP task, a network that refuses and loses, a receiver |
| `UnitStream` | - | what a receiver may count on: whole units, in order, some missing |
| `MCRtpSender` | - | frames for TLC |
| `RtpSenderProofs` | - | the proofs |

`pc` is where the stream task is: in `w6x_rtp_sender_create` up to the RTCP task
(`create`), at its sockets (`sockets`), in its clean-up (`cleanup`), creating the
session (`session`), between two frames (`idle`), or at the fragment `idx` of unit
`unit` in `w6x_rtp_sender_send_h264` (`unit`). A frame is a sequence of units with
a size and a class. The scan for start codes, which leaves out a last unit of four
bytes or fewer, is `InLoop`; fragmentation and its rounding are `FuPackets`,
`FuLast`, `FuBytes`; a packet is the range of bytes it carries. Every packet is one
step: it is the only writer of its session, and blocks in `sendto` only.

The receiver is that of RFC 6184, without knowledge of what was sent: a gap in the
sequence numbers drops the unit in the making, a start drops it too, and it joins
whatever follows. That it never joins fragments of two units is what is checked.

**Left out.** Reordering and duplication by the network; deletion of sessions and
senders, which the application never does; several sessions; the parsing of
received reports (no callback is registered); octet counts; timestamps. Of the
latter it is worth knowing that a live frame bears the timestamp of the frame
before it, and that they jump forward with the splash frames and back on resume
(`rtp_stream_app.c:143`).

### Run

`rtp_sender`: payloads of 5 bytes and fragments of 3, so that single packets, whole
and short last fragments, and units of exactly the payload occur; five frames with
all mixes of special, short and fragmented units; two of them sent; sequence
numbers modulo 3, so that they wrap within a frame; one refused packet, two lost
ones; every way the set-up can fail. `WholeUnits`, `GapsAreLosses`,
`CompleteFrames`, `MarkerEndsFrame`, `StreamKeepsGoing`, `ImplementsUnitStream` hold.

**Fairness.** Weak fairness of the two tasks: `sendto` returns within
`SO_SNDTIMEO`, 100 ms, and the clean-up waits for a task that runs.

**What it says about the design.** A packet that is refused ends its frame without
a gap in the numbers: nothing tells the receiver that units are missing, except
that the open unit is dropped when the next frame starts. A last unit of four
bytes or fewer is not sent and neither is its frame's marker. The stream header is
queued as a frame of its own, of SPS and PPS alone, and so has no marker: the
comment at `w6x_rtp_sender.c:616` speaks of their leading a frame.

### Proofs

`RtpSenderProofs` proves, from `RtpAssumption`, for every payload size, set of frames
and number of refused and lost packets, as long as fewer are lost than there are
sequence numbers (otherwise a loss of exactly that many is invisible to any
receiver): `TypeCorrect`, `Fragments`, `Numbering`, `Whole`, `Frame`, `Marking` and
`Refinement`, which is `ImplementsUnitStream`. The inductive strengthening is
`Control` (the sender is at a fragment of a unit of the last frame), `Held` (what
the receiver holds is a prefix of the unit being sent, unless a gap will be seen),
`Ordered`, `Complete` and `Marked`. `Quotients` and `FragmentsCover` are the
arithmetic. `StreamIsNotStuck` is `StreamKeepsGoing`, by way of every place of the
set-up and the clean-up, which waits for the RTCP task; it assumes that both tasks go on
(`StreamGoesOn`, `RtcpGoesOn`) and that the units of a frame end (`FramesEnd`, a count).

## 7. The application task, the station and the commissioning

### Modules and code

| Module | Code | Content |
|---|---|---|
| `AppShared` | `g_app_ctx`, `app_ble_params`, `p_wifi_ctx` | variables, `Init`, `TypeOK`, the parts of a turn |
| `WifiStation` | `W6X_WiFi_Connect`, `_Disconnect`, `W6X_WiFi_Station_cb` of `w6x_wifi.c`, `APP_wifi_cb` | the driver's station, the access point |
| `BleCommissioning` | `ble_comm_app.c` | callbacks, writes, scans, pairing, button; the phone |
| `MainEvents` | `main_app.c`, start of `rtp_stream_app.c` | the loop, `continue`, the stream task's life, properties |
| `MainEventsProofs`, `MainAnswerProofs` | - | the proofs of the invariants; of what follows in the end |

`pc` is where `main_app` is: waiting (`wait`), in the part of a turn named after its
bit (`write`, `wifi`, `timeout`, `pairing`, `bledisc`), or in a call of the part
(`scan` to `forget` of a scan, `join` to `joinend` of a connection, `leave` to
`leaveend`, `info`, `tell`, `start`, `drop` to `unpair` of the button).

**Grain and scheduling.** The parser task (priority 54) runs every callback and
preempts `main_app` (40); a step of `main_app` needs the parser to have nothing to
do or to be blocked (its 100 ms delay after a connection). Events and answers come
through one FIFO, so a command is one step whose answer finds all earlier events
handled. `StreamStart` comes after 500 ms, in which the stream task has settled.
A wait for a flag that times out and the statement that ends the expectation are
two steps (`joinend`, between `w6x_wifi.c:455` and 458; `leaveend`, between 555 and
564): in between the parser task may set the flag, which then stays in `Wifi_event`
for a later call. `hist.late` notes a CONNECT set so, until it answers one.
`DelayEnds`, the end of the parser task's 100 ms, comes while `main_app` waits or in
that window, since the end of the wait is a matter of time too.

**Left out.** Payload formats, the notification on subscription, DNS servers,
initialisation, the start of MQTT (it has its module); passkey entry, passkey
confirmation and pairing confirmation are one request; the toggle of the pause
itself is part of `EncodeStream`; automatic reconnection is off (`main_app.c` leaves
the options zero).

### Runs

`main_events`: one budget of five for whatever the phone, the radio and the button
do and for failures, at most one failure: a connection of the phone, the SSID, a
join and two more, in any order. `SuccessIsFresh`, `StationAgrees`,
`ConnectedIsServed`, `ScanGroupLive` and, under weak fairness of the three tasks
alone, `ConnectAnswered`, `AdvertisingReturns`, `ButtonServed` hold, and
`ComesToRest`: again and again everything is handled. `Settled` is
the end of a bounded history, so that deadlock is checked.

`SuccessIsFresh` says how a success of `W6X_WiFi_Connect` can be stale: by a CONNECT
set in that window and in no other way. Without this exception TLC finds the history:
an attempt times out, its connection is reported and flagged before line 458, and the
next attempt succeeds at once, on a connection the driver has given up.
`ConnectAnswered` needs no exception for it: the wifi event of the late connection
finds the station off, and its turn is cut short by `continue`.

`main_advert`: without any failure, `AdvertisingRestarts` is violated.

### Findings

`main_advert`: the bits are cleared when they are taken, and a Wi-Fi event that
finds the station not connected, or whose query fails, runs `continue`: the
disconnection of the phone taken in the same turn is forgotten and the device does
not advertise again, against the comment at `main_app.c:330`.

Seen while modelling, and stated as exceptions of the properties: a connection
reported while `W6X_WiFi_Connect` gives up (`w6x_wifi.c:470`) is forgotten by the
driver, which then refuses to disconnect (`hist.erased`); the flag of such a
connection may answer the next attempt (`hist.late`); a second write replaces a
request that waits (`hist.lost`); the results of a scan that had been given up use
its deleted event group (`hist.corrupt`). `sta_state` is not refreshed by a
disconnection, so a press still toggles the stream then (`main_app.c:377`).

### Proofs

`MainEventsProofs` proves from `AppAssumption`, for any number of operations and
failures, `TypeCorrect` and the four invariants of the run. None of them is
inductive; `Inv` adds to the types:

- `Turn`: a part of the turn runs only if its bit was taken, so that `continue` skips
  nothing the history does not name;
- `Expected`: a connection is expected only in the wait for it and until the
  statement after it, the flag that ends a wait is consumed with it, and CONNECT is
  left in the event group only when `hist.late` says so. `FreshSuccess` follows.
- `LastWord`: what the last event of the station still in the FIFO says, or with none
  in it what the driver's state says, is what the NCP's state is. `StationsAgree`
  follows, with the one exception it names.
- `Serving`: while the station is connected it has its stream task, or the event that
  starts it is under way (`ConnectionsServed`);
- `Results`: as long as no scan was given up, its results are under way once, and only
  while the scan waits for them (`ScanGroupsLive`).

The lemmas named after a variable (`StationSteps`, `InboxSteps`, ...) say which
actions change it; the proof of each part of `Inv` looks at those only.

`MainAnswerProofs` proves what follows in the end. `AdvertisingComesBack`
(`AdvertisingReturns`), `RequestsAreAnswered` (`ConnectAnswered`) and `AdvertisingNeedsItsBit` assume
`ComesToRest`; each by an invariant that follows the request, from the callback through
the bits and the parts of the turn to the answer or to one of the exceptions
(`GoneNoted`, `RequestNoted`), so that at rest it has been answered. A request that a
late flag answers needs three more: a join is heard to connect once (`OneJoin`), the
connection of a late flag is down until the flag is used (`LateIsDown`), and so its
wifi event is under way or was cut short (`LateAnnounced`).
`AdvertisingNeedsItsBit` says that advertising always restarts unless a bit was thrown away or a
command failed: the finding has no other cause. `PressIsServed` is `ButtonServed`, for
a task that goes on (`MainGoesOn`) and an unpairing that some time succeeds
(`UnpairingWorks`), since the code repeats it until it does.

Only model-checked: `ComesToRest` itself, which needs the count of what the phone, the
radio and the button may still do.

## 8. The AT command layer

### Module and code

`ModemCmd` models `modem_cmd_handler.c` and the three ways of `w61_at_common.c` to
issue a command: `execute` (`W61_AT_Common_SetExecute`), `query` (`_Query_Parse`),
`send` and `post` (`_RequestSendData` with and without `check_resp`). `pc[c]` is the
next statement of caller `c`: taking the lock, installing its handlers (`setCmds`),
resetting the semaphore, writing, waiting for the answer (`await`), reading the
error, and so on for the prompt, the data and `Recv`, up to removing the handlers
(`unset`) and giving the lock. A timeout may occur in each of the three waits.

The parser task is above all callers: it handles a line in one step, between any
two statements of a caller. A prompt has no line break. It is matched at once by
handlers that take data; otherwise it stays at the beginning of the receive buffer,
where a later command may find it, or the next line may be read as part of it and
be lost (`ParseGlued`).

The NCP is external: it takes any time, accepts or refuses a command, asks for data
by a prompt (after an OK, except for a `post`, for which the code waits for none),
takes whatever comes next for the data, or gives up waiting for them. A bus that
refuses a message is noticed by nobody; refused data end the write loop, since the
negative result, compared as unsigned, exceeds the length. A query whose buffer was
overwritten by a late answer before it was written goes out garbled: command and
answer share the buffer (`w61_at_common.c:493-495`).

**Left out.** Unsolicited events, which only call the API layer; bytes: queries
share one prefix, calls of a kind one length; a receive buffer that fills up
without a line break (`modem_cmd_handler.c:505`), after which the parser spins.
`sem_parse_lock` guards nothing: only the parser takes it.

### Run

`modem_cmd`: two callers, three calls of any kind, one message refused. Three calls
let the late answer of the first meet the second while the third waits. `TableOwned`,
`OwnAnswer` and `CallReturns` hold. `OwnAnswer` is stated for a call that begins on
a quiet link, and says that it leaves it quiet: after a timeout answers may cross, and
go on crossing from call to call, until all of them have come in between two calls.
The run stops when the calls are used up (`CHECK_DEADLOCK FALSE`); `CallReturns`
takes the place of the deadlock check.

**Fairness.** Weak fairness of each caller, timeouts included; nothing is asked of
the NCP or the parser. The lock goes to a caller that finds it free from some time
on, which is enough for a bounded number of calls.

### Proofs

`ModemCmdProofs` proves from `ModemAssumption`, for any set of callers and any number
of calls and refused messages:

- `TypeCorrect`, and `HandlersOwned`, which is `TableOwned`, by `IInv`: a caller has
  the lock exactly between taking and giving it, its call goes the way of its kind, and
  the handlers are those of the holder, if any.
- `AnswersOwned`, which is `OwnAnswer`. A call that begins on a quiet link is followed
  by `Exchange`, one predicate per place of the caller: what can be on its way to the
  NCP and back, in the receive buffer and in the semaphores, until the verdict is in
  (`Unjudged`, `Refused`, `Done`, `Asked` before it is read). `Numbered` adds that calls
  are numbered and that nothing on its way is of a call not made yet.
- `LockIsGivenBack`, for a holder that goes on (`HolderGoesOn`): whatever is refused or
  times out, every way through `execute`, `query`, `send` and `post` ends by giving the
  lock.
- `CallsReturn`, which is `CallReturns`, with a lock that is fair to who waits for it
  (`LockIsFair`): a caller at the lock finds it free again and again by the former.

## 9. Not modelled

Pixels, H.264 content and hardware set-up; formatting and parsing of AT strings and
of JSON; shells, logs and measurement tools; the DHCP server (the application starts
no access point), HTTP and SNTP; vendored libraries, which the models replace by
what the code relies on. The repository has some 906000 lines of implementation,
nearly all of them HAL, CMSIS headers, device drivers, mbedTLS, LwIP, FreeRTOS and
other third-party code: the program's own logic, which is modelled, is about one
per cent of it, so the share of lines the models stand for is small by nature.
The ownership of driver buffers and pbufs (`lwip_netif.c:254-310`) has no module: one
task owns each of them in turn, and the one path that would free a buffer twice, after
`netif->input` has failed, cannot be taken, since `tcpip_input` runs in the caller under
the core lock (`LWIP_TCPIP_CORE_LOCKING_INPUT`) and `ethernet_input` returns ERR_OK.
