# noroshi in TLA+

noroshi is firmware for a hand-held radio. An nRF9160 application (`nrf9160/`,
Zephyr and the nRF Connect SDK) carries LTE, MQTT, the audio path and the user
interface; an ESP32 application (`esp32/`) carries Wi-Fi, an SD card and the
exchange of recordings between friends. This directory holds TLA+ models of its
parts, TLC configurations that check them on small instances, and TLAPS proofs
for every value of their constants. The codec of the nRF application, Opus
1.2.1, is vendored in `nrf9160/src/hw/audio/opus-1.2.1/`; the parts of it that are
control rather than signal processing are modelled too.

Paths below are relative to `src/`. Part of the repository is unfinished and
does not compile (undeclared names, functions that are never called, missing
fields); where its meaning is nevertheless evident, that meaning is modelled.
What a definition stands for is listed with file and lines in `PROJECT.json`
under `map`.

## 1. Inventory

"Properties" are what makes the part correct; the hazards behind them, with
their lines, are in `PROJECT.json` under `hazards`.

### nRF9160

| Part | State | Operations | Interacts with | Hard behaviour | Properties | Module |
|---|---|---|---|---|---|---|
| Modem module, `module/modem.c`, from `module/sdk_modem.c` | state machine (INIT, DISCONNECTED, CONNECTING, CONNECTED, SHUTDOWN), message queue | `event_handler`, `lte_event_handler`, `lwm2m_carrier_event_handler`, thread with one handler per state and `on_all_states` | event manager, LTE link controller, carrier library, application | three contexts submit and handle events; full queue; premature LTE_CONNECTED; a power-off whose failure is ignored | a settled module agrees with the network; a modem switched off stays off; the queue drains or is stuck with its own error event; shutdown is acknowledged unless it is | `ModemModule` |
| Audio path, `hw/audio/audio.c`, `hw/audio/codec-i2s.c` | driver state, double buffers, `msgq_i2s_in`, `msgq_i2s_out`, ring buffer of frames, counters | rx and tx threads, I2S interrupt, start, stop | radio job, encoder buffer, nrfx driver, codec chip | interrupt against threads; overflow; stop and restart around the interrupt | no buffer in use is touched; sound in order, once, all of it or an admitted loss | `AudioSystem` over `AudioStream` |
| Radio thread, `module/motorola.c` | MQTT session, `radio_msg_queue`, `p_opus_outgoing`, the buffer frames are published from | `radio_loop`: configure, connect, poll, event, publish, keep alive, disconnect | encoder (shared buffer and queue), event manager, MQTT client | the shared buffer is overwritten; reconnection; waiting for another module | frames are taken unless it waits for ever; a frame lost is explained by its session or by the encoder | `RadioLoop` |
| Station job, `module/radio.c` | `msgq_station_rx` | `radio_rx_job` | audio path, which it feeds | two consumers of its queue | (within the audio path) | `AudioSystem!StationReceive` |
| Application, `main.c` | message queue | `event_handler`, `main` | every module | a full queue is reported by an event to the listener that refused one | the reports die out or the heap does; the heap runs out only when both queues are full | `Handset` over `ModemModule` |
| User interface, `module/ui.c` | state, screen | `message_handler` | modem, server, radio and button events | acts in the work queue; blocks that overlap; state and screen are set apart | its state moves on from connecting | `Handset` |
| Opus range coder, `entenc.c`, `entdec.c` | buffer written from both ends, registers, counted carries | `ec_enc_*`, `ec_dec_*` | every Opus coder | carries; the ends meet; bits patched later | what was written is read; both sides count the same bits; there is room | `RangeCoder` |
| Opus packets, `opus.c`, `repacketizer.c` | repacketizer: lengths of frames | parse, cat, out, pad, unpad | encoder, decoder | lengths at the boundaries 252 and 255; padding in place | the frames of a packet are found again, inside it; nothing is overwritten before it is moved | `OpusPacket` |
| Opus decoder control, `opus_decoder.c` | last mode, redundancy, frame size; two coders | `opus_decode`, `opus_decode_frame` | SILK, CELT | loss, recovery and changes of mode in any order | no coder goes on from a stale state; calls yield what was asked | `OpusDecoder` |
| Opus signal processing and encoder decisions | | | | | | not modelled |
| Codec2 path, serial port, old station radio, superseded codec, codec chip | | | | | | not modelled (section 5) |

### ESP32

| Part | State | Operations | Interacts with | Hard behaviour | Properties | Module |
|---|---|---|---|---|---|---|
| Hash table, `include/ht.h` | buckets, `count` | `ht_insert`, `ht_search`, `ht_update`, `ht_delete` | its only user is `src/main.c` | tombstones, collisions, `u32` overflow | it is a map; keys are unique and reachable; it returns | `HashTable` over `AbstractMap` |
| ESP-NOW pairing, `src/now.c`, `src/friend.c` | `send_param`, peer list, `espnow_queue` | `espnow_task`, send and receive callbacks | other devices, ESP-NOW driver | lost broadcasts; full queue; equal numbers; an empty receive callback | one side sends and the other can read it; senders finish | `EspNow` |
| Access point and stations, `src/main.c`; file synchronisation, `src/sync.c` | | | | | | not modelled (section 5) |
| Storage, sockets | | initialisation | | | | not modelled |

### How the parts interact

The nRF modules talk through the event manager: `EVENT_SUBMIT` puts an event on
a FIFO bus, a work queue calls each subscribed listener, and a listener copies
the event into its module's queue for the module's thread. Nobody waits for
anybody, except where a thread reads its queue with `K_FOREVER`. Sound takes
another way: interrupt and threads share message queues, a ring buffer and two
half-buffers, and the encoder shares its *output buffer itself* with the radio
thread (`motorola.c:146`). The ESP32 tasks share FreeRTOS queues and event bits;
the two processors are joined by a UART.

## 2. Modules

A definition whose name extends that of the definition after it (such as
`EnqueueFront` before `Enqueue`) is a mutated form of the latter, a plausible
mistake. No specification uses it: it stands there to show that a property of
the module would notice.

### ModemModule

Models `modem.c` and, with `AnnounceEarly = FALSE`, `sdk_modem.c`; they differ
in that `modem.c` announces LTE_CONNECTED on START and on every DATA_GET,
before any answer of the network (lines 481 and 486), and in the events they
hear. `Carrier` chooses the LwM2M carrier library's build.

| Code | Model |
|---|---|
| event manager's FIFO (outside src) | `bus`, `Dispatch` taking its head |
| `event_handler`, the tests for the events it enqueues; EVENT_SUBSCRIBE | `Accepted`, `Subscribed`; `Hears` needs both |
| `module_enqueue_msg` with K_NO_WAIT | `Dispatch`; the refused event becomes an ERROR on the bus |
| `entry_point` before its loop | `EntryPoint`: `module_start` and `setup` may each fail, which is reported and otherwise ignored |
| `on_state_*`, `on_all_states` for one message | one `Handle...` action each; `OnState` is the transition of the state's handler |
| the events a handler submits | `out`, submitted one by one by `SubmitNext`, so callbacks and the work queue run in between |
| `lte_event_handler` | `NwRegStatus`, `ParamUpdate` |
| `lwm2m_carrier_event_handler` | `CarrierModemInit`, `CarrierLteReady`, `CarrierDisconnected` |
| `lte_lc_power_off` on shutdown, whose result is discarded | `HandleShutdown`: the radio is off afterwards, or as it was |
| application, utility and radio modules | `AppRequest`, `AppReport`, `RadioEvent`; `APP_EVENT_START` is on the bus from `Init`, as `main()` submits it first |

The two files hear different events, and `modem.c` next to none. Its
`event_handler` (lines 93-107) enqueues modem, radio and application events, but
not those of the utility module; `sdk_modem.c`'s (lines 121-164) enqueues modem,
application and utility events, and not those of the radio. `sdk_modem.c`
subscribes to what its handler takes (from line 1006); `modem.c` (lines 600-602)
to radio and hardware events only, so of all it accepts it is given radio events,
for which it has no case: APP_EVENT_START never reaches it, and as the file stands
its state machine never starts. The model asks what that machine would do if it were
given everything its handler accepts (`Subscribed = {"modem", "app", "radio"}`); what
`handset` shows of `modem.c` is therefore about the subscription as it would
have to be, not as it is. Either way no shutdown
request reaches `modem.c`, so shutdown is checked for `sdk_modem.c` alone.

LTE_DISCONNECT is acted on only in CONNECTING (line 440) and consumed everywhere
else; `app.h:23` states no such condition. The model keeps the code's behaviour, and no property asks for more.
`modem.c:80` and `motorola.c:63` define queues of the same name; the models
treat them as the two queues they are meant to be.

### AudioStream and AudioSystem

`AudioStream` is the promise in one direction: numbered chunks come out in
order, none twice, and none is missing unless a loss was admitted.
`AudioSystem` models both threads, the driver and the interrupt, and
instantiates it twice: `Mic` (captured to encoder) and `Speaker` (decoder to
line).

| Code | Model |
|---|---|
| nrfx_i2s and the peripheral (outside src, from its use in `codec-i2s.c`) | `drv`, `current`, `next`, `irq`; `HwLatch`, `HwStopped` |
| `i2s_data_handler`, `i2s_sgtl5000_driver_evt_handler` | `Isr`, with `RxReceived` and `TxRequested` |
| `audio_codec_I2S_start` | `StartCall` (state), `StartStream` (buffers and peripheral) |
| `audio_codec_I2S_stop` | `StopStream` (peripheral), `StopState` (state): the interrupt may come in between |
| `audio_rx_process` | `RxGather`, `RxEncode` |
| `audio_tx_process` | `TxDecode`, `TxSpeaker`, `TxStation`, `TxSecond` |
| `radio_rx_job` | `StationReceive` |

The interrupt runs at the highest priority in use and is assumed to run before
the following buffer ends. The mixer's result is overwritten by the
mono-to-stereo copy (line 147), so its arithmetic is left out. Two more effects
of unfinished code are in the model without a property: `msgq_OPUS_DECODE` has
no producer, so the voice part always decodes a concealment frame, and
`p_msgq_radio_decoded` is pointed at no queue and read by nobody, so the tx
thread stops in `TxSecond` once `DecodedLen` is used up.

### RadioLoop

`pc` is the next statement of `radio_loop`; `failures` bounds the calls that
fail. `NextMsg` includes `on_all_states`, which publishes the shared buffer on
PDM_BUFFER_READY. `Encode` is the encoder's write (`audio.c:91-122`): it
overwrites its buffer whatever the thread is doing, so also between `TakeFrame`
(line 360) and `PublishFrame` (line 361). What the thread then publishes is the
encoder's frame, and the frame taken is lost: `held` is the frame taken last,
`published` counts it only if it is still in the buffer, and `overtaken` counts
the frames that came in between.

Nothing in `src/` fills either of the thread's queues: the encoder's `k_msgq_put`
into `p_opus_outgoing` is a comment (`audio.c:121`; the ring that it does fill has
no reader), and `motorola.c` declares `radio_msg_queue` and registers no listener
that would fill it. `Enqueue` and `Event` are what the comments say of them, are
marked external in the map, and no fairness is assumed of them: they may never
happen.

`Poll` yields the number
of readable sockets, and `Live` tests that number as the code does, so
`mqtt_input` and with it `mqtt_event_handler` are unreachable. Delays are left
out, and with them `connect_attempt`, which only chooses one.

### AbstractMap and HashTable

`AbstractMap` is a map whose operations take effect at one moment between call
and return. `HashTable` probes one bucket per step; `Call` and the end of an
operation are steps of their own. `HashA` and `HashB` are arbitrary functions:
the source passes murmur's arguments in the wrong order, and nothing but the
*values it returns for a key being fixed* is used. `Word` is 2^32, so that the
wrapping of the probe sequence is there. A tombstone disables insert, search and
update as in the source, where their loops do not move on from it.

### Handset

The modem module, `main()` and the display on one bus. `Handset` EXTENDS
`ModemModule` and takes the thread's and the callbacks' actions from it; the event
manager's handing of an event to its listeners becomes two steps, because other
contexts publish between them, and the bus becomes finite.
The run takes `modem.c`, given the events its handler accepts; as it subscribes to none
of them, `sdk_modem.c`'s subscription says when the module is told.

| Code | Model |
|---|---|
| the early listeners: the modem module's (`sdk_modem.c:1006`) and the display's | `TellEarly`: `Dispatch` and `MessageHandler`, which touch nothing in common |
| `main()`'s listener, which subscribes normally (`main.c:208`), to modem events among others | `TellApp`, if the event is `due` to it |
| `message_handler` of `ui.c`: the state machine and the screen, with the second BEGIN_AUTH block after the first | `MessageHandler` |
| `event_handler` of `main.c` | `AppListener`; of what it subscribes to only modem events have a case that enqueues, so server, motorola, radio and input events fill no queue |
| `module_enqueue_msg` of `main.c` and APP_EVENT_ERROR | `Report`, which never waits |
| `main()`'s loop | `MainTakes`: its switch has no case, so only the number of messages is kept |
| the event manager's heap (outside src) | `HeapLen`; a submission that finds it full halts the device (`Halt`) |
| callbacks and other modules | `OtherContexts` |
| server and hardware events, for the display alone | `Foreign`, handed over between two events of the bus |
| priorities | `ModemThread` and `MainTakes` only when the work queue has nothing to do |

`main.c:158` reports a full queue with an application event, to which `main()`
does not subscribe but the modem module does; the modem module reports its own
full queue with a modem event, to which all three subscribe. That exchange is
the reason to model the three together. One report costs one event, so either
queue alone can be full for long; two full queues turn each modem event into two,
until the heap is used up.

### EspNow

`espnow_task` on every device, with the callbacks. `Transmit` is the radio and
both callbacks: any subset of those in range hears the frame, and each queue
that is full loses what it should have got. The receive callback that
`init_espnow` registers is empty (`now.c:53-55`, line 62); `friend.c:65-88` has one
that posts what it receives, but nothing registers it, and the queue it posts to is
`friend.c`'s own. `RecvPosts` chooses. With FALSE, the code as it is, `Listeners` is
empty: no device ever hears another, all broadcast for ever, and there is nothing
to check. With TRUE the callback is
like `friend.c`'s and posts to the task's queue, as the task is written for:
the properties of the pairing are about that, and none claims that the pairing as
it is registered ever settles. `esp_now_send`, the first one
included, and the allocation of a peer may fail, after which the code's task
deletes itself (`alive`).
Sequence number, checksum and payload are left out: nothing decides by them,
and a frame is received whole or not at all.

### RangeCoder, OpusPacket, OpusDecoder

`RangeCoder` holds both ends of the entropy coder with all their registers; a
packet of symbols is encoded (`Put`, `Patch`, `Shrink`, `Done`) and then
decoded (`Get`). The widths are parameters, since 32-bit registers are out of
TLC's arithmetic: what the code uses of `EC_CODE_BITS` and `EC_SYM_BITS` is
that the one is four times the other, and the run has 12 and 3. The loops of the
coder (`Times`, `While`) go on for at most `CodeBits \div SymBits` rounds; the
models have no recursion operator, so everything in them can be proved about.

`OpusPacket` keeps a packet's header byte by byte, its length, and the lengths
of its frames. `Parse` is `opus_packet_parse_impl`, `Cat` and `OutRange` are the
repacketizer, `PadTo` and `Unpad` work in place. `Received` packets include
malformed ones, cut at every place. A packet that has padding may be padded again;
`Paddings` are the amounts with which it may, a bound of the run only: the
theorems allow every set, `Nat` among them.

`OpusDecoder` is the control of the decoder: which coder (SILK or CELT) is
called with what size, on which of its states (`fresh`, `current`, `stale`), for
how many samples and into how much room, and what concealment, redundancy and
recovery do to `prev_mode`, `prev_redundancy` and `last_packet_duration`.
What the samples are is left out. Either coder may refuse a frame: SILK before CELT
sees it, CELT when the frame is over and its mode remembered (`FrameRefused`).

### Parts and MCParts

`EspNow` and the three Opus modules share no state with the rest or each other.
`Parts` instantiates them side by side: `subject` says which part a behaviour is
of. Its properties restate those of the instances under that condition.
`MCParts` gives the constants their values.

## 3. What TLC checks

| Run | Distinct states | What it shows |
|---|---|---|
| `modem_sdk` | 1 999 190 | `sdk_modem.c`: types; both directions of agreement with the network; a modem switched off by a shutdown stays off |
| `modem_live` | 697 879 | `sdk_modem.c` under the target's priorities: everything drains or the queue is stuck (`Quiesces`); shutdown is acknowledged unless it is |
| `modem_carrier` | 426 333 | the carrier build connects after CARRIER_INITIALIZED and LTE_READY |
| `handset` | 614 672 | `modem.c`, given all the events it accepts, with `main()` and the display under the target's priorities: the two queues' reports die out or end in a halt; a halt needs both queues full; a registered network finds the settled module CONNECTED in spite of the early announcement, and the display's state past connecting |
| `audio_recorder` | 126 302 | double buffering; each captured chunk accounted for; recording refines `AudioStream` |
| `audio_player` | 51 824 | double buffering with the player's buffers; playing refines `AudioStream` |
| `radio_loop` | 318 618 | a frame lost is explained by its session or by the encoder; every queued frame is taken, or the thread waits for ever |
| `table_map` | 28 940 | unique, reachable keys; count; refinement of `AbstractMap`; termination |
| `parts` | 270 288 | pairing: roles, readable data, one frame of a kind under way, senders finish; range coder: round trip, equal bit counts, enough room; packets: the frames are found, in-place padding is safe; decoder: no stale state, whole calls |
| `audio_restart` | violation | finding 1 |
| `radio_inbound` | violation | finding 2 |
| `radio_order` | violation | finding 3 |

`ConnectedIsRegistered` is not checked for `modem.c`: announcing LTE_CONNECTED
before the network has answered is what that variant does.

`NoStaleState` speaks of a coder that goes on with the frames of a stream. Two uses
are exempt by its statement: the 5 ms of a redundant frame, and the fade-out of
the mode left, which both deliberately use a coder that is not current.

Findings, with the lines they contradict:

1. `StartStarts`: a start soon after a stop returns success although nrfx, still
   stopping, refused it; `codec-i2s.c:478` discards the result. (Nothing in `src/`
   calls `audio_codec_I2S_stop` today.)
2. `InboundHandled`: `poll`'s positive result is tested as an error
   (`motorola.c:368`), so a readable socket ends the session unread, against
   `motorola.c:87`.
3. `InOrder`: the encoder's output buffer is published ahead of older frames
   still in the queue (`motorola.c:405`), against `thoughts.md:117`.

Four more facts came up that need no run, as they are plain from the lines: the
subscription of `modem.c` and the empty receive callback of `now.c` (section 2);
that `radio_loop` waits for an event before each frame (`motorola.c:355`), so frames
may stay in its queue although nothing fails, which `FramesTaken` has as an outcome;
and that on LTE_CONNECTED `ui.c:97-99` sets the state and loads no screen, so the
screen goes on saying that it is connecting until some other event loads one.
`DisplayMovesOn` is about the state.

### Bounds and why they are enough

* Modem: `QueueLen = 2` overflows with three events: START and two requests before
  the thread runs. `MaxEnv`, the events of the other
  contexts, is 3 for `sdk_modem.c` (register, lose, register again) and 4 for the
  carrier build, which spends two on coming up. Where liveness is checked the queue
  has three entries and `MaxEnv = 4`, so that it drains in some behaviours and gets
  stuck in others, before and after a shutdown request.
* Audio: `Ratio = 2` is the least with a frame in pieces. Seven buffers
  (`MaxChunks`) overflow the two-entry input queue while the rx thread stands
  still, and three calls give a start, stop and restart.
* Radio: a two-entry queue and three frames let the encoder overtake the thread
  and the queue refill; two failures are a failed session and a failed retry.
* Handset: three entries for the modem module and one for `main()`, so
  that either queue, or both, can be full. `HeapLen = 4` is the least that the two
  events of the other contexts (`MaxEnv = 2`) do not exhaust by themselves, which
  is what the assumption on it says. Reports are not bounded: the heap is what bounds
  them. One foreign event comes between any two of the others.
* ESP-NOW: two devices, two magic numbers (larger, smaller and equal), two
  frames to send, a queue of two, which one broadcast and one notification fill.
* Range coder: up to four symbols, of any kinds, in packets of three and six bytes fill
  the packet, run both ends into each other, delay a carry over a run of counted
  bytes, and patch the header before and after it has left the registers.
* Packets: three frames of one and 1275 bytes cover all four frame count codes
  and both length encodings; one and 256 bytes of room cover padding of one byte
  and of more than 255, for packets that have none, one byte or 254 bytes already
  (`Paddings`). The frames are of 40 ms, so that three reach the limit of
  120 ms; some in `Received` are of 60 ms.
* Decoder: every mode and frame size, up to two frames in a packet. `Rooms` are
  not all multiples of a frame, so concealment is asked for 2.5 ms remainders.
  The build is the fixed-point one, where SILK writes into the caller's room.
* Table: with three buckets and three keys two keys share a first bucket, one
  wraps around the eight-valued word half-way, and one delete leaves a
  tombstone in another's chain. `MaxProbes = 5` goes once round the table and
  beyond; `MaxMisses = 2` keeps `count` finite.

The bounds on histories (`env`, `captured`, `calls`, `made`, `received`,
`failures`, `misses`) only keep the state space finite. They are guards of the
actions that count, so the system may stop when they are used up: that is why
the runs do not check for deadlock. In the audio path the tx thread can also
block for good, and a table operation can hang.

### Fairness

* `ModemModule!FairSpec`: the next-state relation `ScheduledNext`, in which the
  thread takes a step only when the bus is empty, with weak fairness of the work
  queue (`Dispatch`) and of that. Submitting an event makes the system work queue
  ready; it is cooperative and outranks the module's thread, which has the lowest
  application priority (`K_THREAD_DEFINE` in `modem.c` and `sdk_modem.c`). So
  nothing keeps a full queue from starving the thread that alone could empty it: a
  refused event becomes an error event, which is refused in turn. `Stuck` says that
  this is so, and it is an outcome of `Quiesces` and `ShutdownAcknowledged`, not
  assumed away; what they exclude is every other way of not coming to rest.
  Threads of higher priority are assumed to block now and then. Nothing
  is assumed of the network, the carrier library or other modules. The safety
  properties of `modem_sdk` and `modem_carrier` are checked with every interleaving.
* `Handset!HandsetFairSpec`: the same scheduling, with `main()`'s thread beside the
  modem's. There a stuck queue comes to an end: `main()`'s fills too, and the two
  multiply their reports until the heap is used up, which is an outcome of
  `ReportsDieOut`.
* `RadioLoop!FairSpec`: weak fairness of the thread, and nothing of the two queues' other
  ends. `module_get_next_msg` waits with K_FOREVER (`motorola.c:355`), so
  with no event the thread stands still with frames queued; `FramesTaken` has that as
  an outcome.
* `Parts!FairSpec`: weak fairness of each device's radio and task, and strong
  fairness of `Heard`: *of a frame that is sent again and again, not every copy
  is lost*. Without it a radio out of range settles nothing. `SendersFinish`
  excuses a device whose queue refused a send notification (`deaf`): it is silent for good.
* `HashTable!FairSpec`: weak fairness of `Step`; a called function runs.

Symmetry is not used: keys are told apart by their hashes, and liveness is
checked in the same run.

## 4. What is proved

The `*_proofs` modules hold the theorems. They use the named assumptions on the
constants (`ModemAssumption`, `HandsetAssumption`, `AudioAssumption`,
`RadioAssumption`, `HashAssumption`, `MarkerAssumption`), which TLC evaluates in
the runs. `HandsetAssumption` says that the heap is not exhausted by the events of the
other contexts alone. `EspNowAssumption`, `OpusPacketAssumption` and
`OpusDecoderAssumption` are definitions, because these modules are instantiated;
their theorems name them as hypotheses, and `Parts` assumes them of its instances
(`NowAssumption`, `PacketAssumption`, `DecoderAssumption`, and `CoderAssumption`, which
is `RangeCoderAssumption`), where TLC evaluates them too. `Handset_proofs` holds the theorems about `ModemModule` as well.

**ModemModule** (`TypeCorrect`, `RegisteredCorrect`, `ConnectedCorrect`,
`ShutdownCorrect`). `RegisteredIsConnected` speaks of a settled module and is
not inductive. `IInv` says where the truth is while events are under way: the
last connection event on the bus, or if the bus has none the last one in the
queue, or if that has none either the state itself, agrees with the last report
(`Heading`). Every handler, callback and dispatch preserves that because bus
and queue are FIFO and no handler
submits LTE_DISCONNECTED. `CInv` is the mirror image. `SInv`
says that the one APP_EVENT_START is the first message handled, so it cannot
follow a shutdown; and nothing else switches a modem on without the carrier library.
`ShutdownCorrect` is about a modem that is off: whether `lte_lc_power_off` worked is
left open in every shutdown. `RegisteredCorrect` holds in every build. In the carrier build
the argument is another one (`CarrierInv`): LTE_DISCONNECTED is never published
there, and while the module is in INIT, CARRIER_INITIALIZED is under way and
LTE_CONNECTED behind it, in one queue or the other; once INIT is left,
LTE_CONNECTED is under way or was handled. `ConnectedCorrect` and
`ShutdownCorrect` assume `~Carrier`, because the carrier library's DISCONNECTED
publishes nothing and its MODEM_INIT may follow a shutdown; `ConnectedCorrect`
assumes `~AnnounceEarly` as well.

**Handset** (`HandsetTypeCorrect`, `OnlyBothAreFatalCorrect`). `LoadInv` is why one full
queue alone never exhausts the heap. `Load` is the number of events on the bus and
the report that `main()` is about to make for the event in hand. While not both
queues are full it is at most one more than the other contexts have published:
an event that `main()` refuses leaves the bus and comes back as one report, which the
modem module's queue takes or, if that is the full one, the error event is taken by
`main()`. The threads add nothing, as they run on an empty bus; and they alone
make room, so once both queues are full both stay full until the bus is empty.
Both theorems hold for all lengths of the queues and the heap; the second
assumes `~Carrier`, since a failed assertion of the carrier build is another way to halt.

**EspNow** (`TypeCorrect`, `RolesInvariant`, `NoMutualSendersCorrect`,
`SenderIsKnownCorrect`, `OneAtATimeCorrect`). `RolesInv`: a frame on the air or in
a queue carries its sender's number; a sender has compared its number with that of the device it
sends to, and has learnt that this device has heard somebody. That two devices
send to each other only with equal numbers follows for any number of devices.
That the receiver can read the data follows for a pair: of two devices the one
heard must be the other. With three it is false, as the broadcast heard may have
been the third's; nothing in the code says how many are meant, so that
is stated here and not as a finding.
`OneAtATime` is inductive given those: of frames of a kind and their
notifications at most one is in the two queues, and a device that does not yet send
data has none of data there, since only its own task sets the address. It holds for
every queue length, though a full queue may lose the notification: then less is
under way, not more.

**AudioSystem** (`TypeCorrect`, `DoubleBufferedCorrect`, `CaptureCorrect`,
`MicStreamCorrect`, `SpeakerStreamCorrect`). `DriverInv`: while the peripheral
is on, the driver is RUNNING with no call in progress, so the ISR always hands
over a buffer, and it is not the current one. It is needed because the two
steps of stop have the ISR between them. `MicInv`: queue contents lie between
the last chunk taken and the last one captured, less the pending one, in order,
and without gaps unless there was a loss. `SpeakerInv` is the same for the
player's queue and half-buffers. Both directions are refinement proofs.

**RadioLoop** (`TypeCorrect`, `LossesCorrect`). `LossInv` counts: a frame taken and not
published is the one in hand, or ended its session with it, or found
another in the buffer when it was published, for which the encoder must have made one
since the take: three counts that each step moves together, for every depth and
number of frames. Nothing is assumed of the queue.

**HashTable** (`TypeCorrect`, `UniqueKeysCorrect`, `ReachableCorrect`,
`TableIsMap`, `CountCorrect`). `ProbeInv`: an operation in progress has passed
only occupied buckets or tombstones, none with its key unless it updated it. At a
free bucket it therefore knows that the key is absent, since a stored key is
reachable along the same sequence. `CountInv` counts a delete in progress as
owed. The proofs hold for every pair of hash functions, table size and word.

**OpusPacket** (`PacketInvariant`, `TypeCorrect`, `FramesAreFound`,
`FramesAreInside`, `PaddingInPlace`). `PacketInv` says of the repacketizer that its
frames, of the configuration's duration, are within 120 ms, and of the packet that
it is parsed (`Back`) into the frames of its history, if it has one. Three facts
about the code carry it, each for all lengths, configurations and packets:

* *The parser stays inside* (`ParseOK`). A cursor divides the packet: what is read,
  what is left and the padding add up to its length (`Placed`), and the lengths read
  so far and what the last frame may have add up to what is left.
  Each read keeps both, whatever the bytes are. That a packet has at most 48 frames
  follows from its duration, as a frame has at least 2.5 ms.
* *Writing is inverted by reading* (`TakenOK`). A header is the count, the padding
  bytes, the lengths of all frames but the last, and the last if the packet is
  self-delimited; each part lies where the parser is when it comes to it. The
  induction over lengths goes by the least number outside a set, which the library
  has for `<`; the sums and sequences of the model are functions by recursion on
  0..n, which are first shown to exist.
* *Padding pays for itself* (`HeadFits`). Any header with padding has a byte for
  254 bytes of it or less, and two more and the lengths; the new header needs no
  more, except for padding bytes for which there is at least as much new room. It
  holds for every packet and new length; which packets are padded at all is the
  constant `Paddings`, any set of numbers, so nothing in `Spec` restricts it.

The lengths are at most 1275, as in the format; received packets may have
any bytes and any length.

**OpusDecoder** (`DecoderInvariant`, `TypeCorrect`, `StateIsCurrent`,
`CallsAreWhole`). `DecoderInv` is about the moments between two frames. A coder
is behind the stream only while the last frames were the other's, and CELT not
when the last frame ended in redundancy, which it decoded: it is then that
`prev_redundancy` spares it the reset. Of a call in progress it says that what is
done, what is left and what is to be concealed add up to what was asked for.
The loop that conceals in pieces is again an induction on their number.

**RangeCoder** (`RoomEnoughCorrect`, and its part of `TypeCorrect`, both of
`Parts`). The assumption is what the code's constants and its comments and
assertions say: a register is four bytes of at least two bits, a symbol is asked for
by an interval that is not empty in a whole that the range can be divided into,
raw bits come at most 25 at a time. Nothing is assumed of the number or
order of symbols, of the sizes of packets, or of what the decoder is given to read.
`CoderInv` says of the encoder, between two symbols (`EncOK`):

* the interval lies in the register and its carry bit: its upper end is at most
  `2 * CodeTop`, so a carry is counted once and never lost;
* the raw bits lie in their window, below `2^nend_bits`;
* `nbits_total` is `CodeBits + 1` and the bits of everything written or held back
  for a carry and of the window, as long as no byte was refused; once one was, it is
  beyond the size of the packet for good, so that `ec_tell` says so;
* the ends of the packet have not met (`Apart`);
* while no byte of a reserved header has left the registers its bits are zeros
  (`HeaderOpen`), so `ec_enc_patch_initial_bits` changes them only; and a packet
  without symbols has nothing in its registers (`Fresh`).

Each operation keeps that: normalization by unrolling its four rounds, the writing
of held back bytes by an induction on their number. `ec_enc_done` is where the
room counts: the end of the interval needs `l` bits, of which `ec_tell` counts one
less than is needed at worst, and the last byte from the front may hold
raw bits from the back. `Fits` says of the moment before the bytes are
put out that they and the raw bits have room in the packet, the byte they share
counted once; every byte put out keeps it. Of the decoder, `DecOK` says that
the code lies in the interval, `val < rng`, whatever bytes it reads: it is why
`ec_decode` never divides by a range of zero nor leaves its distribution.

**Parts** (`TypeCorrect`, `RoomEnoughCorrect`, `NoMutualSendersCorrect`,
`SenderIsKnownCorrect`, `OneAtATimeCorrect`, `FramesFoundCorrect`, `InPlaceCorrect`,
`NoStaleStateCorrect`, `WholeCallsCorrect`). A step of `Parts` with a part for
subject is a step of that part, so what is proved of it carries over, for
`SenderIsKnown` to a pair of devices. The lemmas called `Same...` say that the two
instances of a part, the one that `Parts` runs and the one that has the theorems,
have the same definitions; the range coder's proofs are about the instance
that `Parts` runs.

Only model-checked: `DisplayMovesOn`; the liveness properties (`Quiesces`, `ShutdownAcknowledged`,
`ReportsDieOut`, `FramesTaken`, `Returns`, `SendersFinish`), which
rest on fairness and are outside the prover's reach; of the range coder, that
what was written is read (`RoundTrip`, with `SameCount`): an argument about a number
of unbounded size, the code so far, of which the registers hold only the end, so
that it needs an induction over the whole packet for both sides at once; the
violations.

## 5. Not modelled, and why

* Opus signal processing: SILK and CELT themselves (filters, FFT, quantisation,
  bit allocation), the encoder's decisions, which are taken from the signal, and
  the multistream and projection layers. These are numerical: their
  correctness is a matter of the signal, which no finite instance stands for.
  They are most of the lines of the repository.
* Parts that do not compile and whose intent cannot be told from their text:
  the Codec2 path (`hw/audio/codec2.c`: undeclared names, a message
  field that does not exist); `esp32/src/main.c` (undeclared names, initializers
  without a value, an assignment for a comparison in the event handler, a
  connect loop that returns at its first candidate); `esp32/src/sync.c` (two
  cases with one label, missing arguments, a switch over bits that are never set
  alone; nobody calls `sync`).
* Code that nothing runs: `hw/uart.c`'s `uart_cb`, which is registered with no
  driver; `module/old-radio.c`, superseded, whose exchange always ends on the
  buffer it has just wiped; the superseded codec; `ui_input.c`, whose event only
  `main()` subscribes to, without a case for it; `delete_ht`, `publish_info`; `key_exchange` and `add_peers` of the
  ESP-NOW code; `mqtt_event_handler`, which the loop does not reach.
* `murmur3_32`: nothing depends on its values. Sample arithmetic of the mixer,
  message contents, delays: no property tells them apart.
* Register set-up of the codec chip, initialisation of storage and sockets,
  board data, generated files: sequences of driver calls, or no logic.
* How much of a frame a publish in progress has read while the encoder
  overwrites its buffer: that is inside the MQTT library. `RadioLoop` has the
  overwriting by whole frames.

## 6. Plan

Done: all modules above, with proofs for all of them. Left, in order of
importance:

1. `RoundTrip` of `RangeCoder`: the code of the packet as a number, and that each
   symbol's interval, which contains it, is the one the decoder finds.
2. `opus_multistream_packet_pad` over `OpusPacket`'s self-delimited form.
3. The combinatorial coders over `RangeCoder` (`cwrs.c`: every pulse vector has
   one index; `laplace.c`: its intervals tile the range).
4. The control of the encoder (`opus_encoder.c`: mode hysteresis, redundancy)
   against `OpusDecoder`, with the signal as a nondeterministic input.
5. `RadioLoop` composed with the encoder thread of `AudioSystem`, for the shared
   output buffer, once the encoder fills a queue that the loop reads.
