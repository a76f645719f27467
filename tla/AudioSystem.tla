----------------------------- MODULE AudioSystem -----------------------------
(***************************************************************************)
(* The audio path of the nRF9160 firmware: the two threads of              *)
(* hw/audio/audio.c, the I2S driver of hw/audio/codec-i2s.c with its       *)
(* double buffers, and the peripheral below it.                            *)
(*                                                                         *)
(*   mic  --> rxBuf --ISR--> i2s_in --rx thread--> encoder --> ring        *)
(*   line <-- txBuf <--ISR-- i2s_out <--tx thread-- decoder                *)
(*                                                                         *)
(* The ISR preempts the threads and is never preempted by them; the calls  *)
(* that start and stop the driver are made by a thread and take two steps, *)
(* so the ISR may come in between.  nrfx and the peripheral are outside    *)
(* src: their part is what codec-i2s.c relies on.  The ISR has the highest *)
(* priority in use and is assumed to run before the next buffer ends.      *)
(*                                                                         *)
(* Sound is a sequence of numbered chunks, one half-buffer each; 0 is      *)
(* silence.  Ratio chunks make the codec's frame.                          *)
(*                                                                         *)
(* A definition whose name extends that of the definition after it is a    *)
(* mutated form of it, used only to show that a property would notice it.  *)
(***************************************************************************)
EXTENDS Integers, Sequences

CONSTANTS
    Recorder,    \* CONFIG_AUDIO_CODEC_RECORDER: type = recorder, else player
    Ratio,       \* I2S_BUFFER_RATIO
    RingLen,     \* frames the ring buffer of encoded frames has room for
    DecodedLen,  \* room in p_msgq_radio_decoded, which nothing in src reads
    StationLen,  \* depth of msgq_station_rx
    MaxChunks,   \* bound: buffers the peripheral completes
    MaxCalls     \* bound: calls of audio_codec_I2S_start and _stop

ASSUME AudioAssumption ==
    /\ Recorder \in BOOLEAN
    /\ Ratio \in Nat \ {0}
    /\ RingLen \in Nat /\ DecodedLen \in Nat /\ StationLen \in Nat
    /\ MaxChunks \in Nat /\ MaxCalls \in Nat

VARIABLES
    m_state,     \* driver state
    drv,         \* nrfx and the peripheral: OFF, ON or STOPPING
    call,        \* where the caller of start or stop is
    current,     \* nrfx: the buffers the peripheral is using
    next,        \* nrfx: the buffers it has been given for later
    irq,         \* a buffer has ended and the ISR has still to run
    rxBuf,       \* m_i2s_rx_buffer: the chunk in each half
    txBuf,       \* m_i2s_tx_buffer
    i2s_in,      \* msgq_i2s_in
    i2s_out,     \* msgq_i2s_out
    line_in,     \* chunks the rx thread has gathered in i2s_line_in
    ring,        \* frames in the ring buffer of encoded frames
    stats,       \* audio_stats_counter: Opus_enc and I2S_Discared
    txPc,        \* where the tx thread is in audio_tx_process
    txPos,       \* chunks it has put in the loop it is in
    decoded,     \* chunks in p_msgq_radio_decoded
    station,     \* frames in msgq_station_rx
    captured,    \* history: chunks the peripheral has captured
    taken,       \* history: last chunk the rx thread took
    made,        \* history: chunks the tx thread has put into i2s_out
    heard,       \* history: last chunk the peripheral has begun to send
    calls,       \* history: calls of start and stop
    stops        \* history: those that stopped the driver

driver == <<m_state, drv, call, calls, stops>>
buffers == <<current, next, irq, rxBuf, txBuf>>
rxSide == <<i2s_in, line_in, ring, stats, taken>>
txSide == <<i2s_out, txPc, txPos, decoded, made>>
vars == <<driver, buffers, rxSide, txSide, station, captured, heard>>

------------------------------------------------------------------------------
Half == {0, 1}
NoBuf == -1
Silence == 0
RatioOut == 2 * Ratio   \* depth of msgq_i2s_out; that of msgq_i2s_in is Ratio

TypeOK ==
    /\ m_state \in {"UNINITIALIZED", "IDLE", "RUNNING"}
    /\ drv \in {"OFF", "ON", "STOPPING"}
    /\ call \in {"NONE", "STARTING", "STOPPING"}
    /\ current \in Half \cup {NoBuf} /\ next \in Half \cup {NoBuf}
    /\ irq \in BOOLEAN
    /\ rxBuf \in [Half -> Nat]
    /\ txBuf \in [Half -> Nat]
    /\ i2s_in \in Seq(Nat) /\ Len(i2s_in) <= Ratio
    /\ i2s_out \in Seq(Nat) /\ Len(i2s_out) <= RatioOut
    /\ line_in \in Seq(Nat) /\ Len(line_in) <= Ratio
    /\ ring \in 0..RingLen
    /\ stats \in [Opus_enc : Nat, I2S_Discared : Nat]
    /\ txPc \in {"VOICE", "SPEAKER", "STATION", "SECOND"}
    /\ txPos \in 0..(Ratio - 1)
    /\ decoded \in 0..DecodedLen
    /\ station \in 0..StationLen
    /\ captured \in 0..MaxChunks
    /\ taken \in Nat /\ made \in Nat /\ heard \in Nat
    /\ calls \in 0..MaxCalls /\ stops \in 0..MaxCalls

(* audio_system_init has run audio_codec_I2S_init, which returns early and  *)
(* leaves the driver uninitialized when nrfx_i2s_init fails, and has        *)
(* created the threads.                                                     *)
Init ==
    /\ m_state \in {"UNINITIALIZED", "IDLE"}
    /\ drv = "OFF" /\ call = "NONE"
    /\ current = NoBuf /\ next = NoBuf /\ irq = FALSE
    /\ rxBuf = [b \in Half |-> 0]
    /\ txBuf = [b \in Half |-> Silence]
    /\ i2s_in = <<>> /\ i2s_out = <<>> /\ line_in = <<>>
    /\ ring = 0
    /\ stats = [Opus_enc |-> 0, I2S_Discared |-> 0]
    /\ txPc = "VOICE" /\ txPos = 0
    /\ decoded = 0 /\ station = 0
    /\ captured = 0 /\ taken = 0 /\ made = 0 /\ heard = 0
    /\ calls = 0 /\ stops = 0

------------------------------------------------------------------------------
(* The peripheral ends the buffers it is using, if any, and goes on with    *)
(* the next ones, or with the same ones when none were provided in time.    *)
HwLatch ==
    /\ drv = "ON" /\ ~irq /\ captured < MaxChunks
    /\ irq' = TRUE
    /\ LET begun == txBuf[IF next = NoBuf THEN current ELSE next]
       IN  heard' = IF begun = Silence THEN heard ELSE begun
    /\ IF current = NoBuf THEN UNCHANGED <<captured, rxBuf>>
       ELSE /\ captured' = captured + 1
            /\ rxBuf' = [rxBuf EXCEPT ![current] = captured + 1]
    /\ UNCHANGED <<driver, current, next, txBuf, rxSide, txSide, station>>

HwStopped ==
    /\ drv = "STOPPING"
    /\ drv' = "OFF"
    /\ UNCHANGED <<m_state, call, calls, stops, buffers, rxSide, txSide,
                   station, captured, heard>>

HasRoomOffByOne(q, depth) == Len(q) <= depth
HasRoom(q, depth) == Len(q) < depth

(* DRV_SGTL5000_EVT_I2S_RX_BUF_RECEIVED: the recorder queues the chunk, or  *)
(* discards it when the queue is full.                                      *)
RxReceivedDropOldest(c) ==
    /\ i2s_in' = IF ~Recorder THEN i2s_in
                 ELSE IF HasRoom(i2s_in, Ratio) THEN Append(i2s_in, c)
                 ELSE Append(Tail(i2s_in), c)
    /\ UNCHANGED stats

RxReceived(c) ==
    IF ~Recorder THEN UNCHANGED <<i2s_in, stats>>
    ELSE IF HasRoom(i2s_in, Ratio)
    THEN i2s_in' = Append(i2s_in, c) /\ UNCHANGED stats
    ELSE i2s_in' = i2s_in /\ stats' = [stats EXCEPT !.I2S_Discared = @ + 1]

(* DRV_SGTL5000_EVT_I2S_TX_BUF_REQ: the player fills the half-buffer b with *)
(* the next chunk, or with silence; the recorder leaves it alone.  A frame  *)
(* of the station that is there is taken and mixed in, but the loop that    *)
(* copies mono to stereo then writes the chunk over the mixture.            *)
TxRequested(b) ==
    IF Recorder THEN UNCHANGED <<i2s_out, txBuf, station>>
    ELSE IF i2s_out = <<>>
    THEN txBuf' = [txBuf EXCEPT ![b] = Silence] /\ UNCHANGED <<i2s_out, station>>
    ELSE /\ i2s_out' = Tail(i2s_out)
         /\ station' = IF station > 0 THEN station - 1 ELSE 0
         /\ txBuf' = [txBuf EXCEPT ![b] = Head(i2s_out)]

(* i2s_data_handler, as nrfx calls it: without buffers when the last ones   *)
(* had to be used again, with empty ones after the start, and with those    *)
(* released otherwise.  i2s_sgtl5000_driver_evt_handler always returns      *)
(* true, so the EGU interrupt that would stop the stream never comes.       *)
IsrKeepsFirst ==
    /\ irq /\ irq' = FALSE
    /\ IF next = NoBuf \/ current = NoBuf
       THEN /\ TxRequested(0) /\ next' = 0
            /\ current' = IF next = NoBuf THEN current ELSE next
            /\ UNCHANGED <<i2s_in, stats>>
       ELSE /\ current' = next
            /\ IF m_state = "RUNNING"
               THEN /\ RxReceived(rxBuf[current])
                    /\ TxRequested(current) /\ next' = current
               ELSE /\ next' = NoBuf
                    /\ UNCHANGED <<i2s_in, stats, i2s_out, txBuf, station>>
    /\ UNCHANGED <<driver, rxBuf, line_in, ring, taken, txPc, txPos, decoded,
                   made, captured, heard>>

Isr ==
    /\ irq /\ irq' = FALSE
    /\ IF next = NoBuf \/ current = NoBuf
       THEN /\ TxRequested(1) /\ next' = 1
            /\ current' = IF next = NoBuf THEN current ELSE next
            /\ UNCHANGED <<i2s_in, stats>>
       ELSE /\ current' = next
            /\ IF m_state = "RUNNING"
               THEN /\ RxReceived(rxBuf[current])
                    /\ TxRequested(current) /\ next' = current
               ELSE /\ next' = NoBuf
                    /\ UNCHANGED <<i2s_in, stats, i2s_out, txBuf, station>>
    /\ UNCHANGED <<driver, rxBuf, line_in, ring, taken, txPc, txPos, decoded,
                   made, captured, heard>>

------------------------------------------------------------------------------
(* audio_codec_I2S_start: the driver is RUNNING before nrfx_i2s_start,      *)
(* whose error, if the peripheral has not stopped yet, is discarded.        *)
StartCall ==
    /\ call = "NONE" /\ m_state = "IDLE" /\ calls < MaxCalls
    /\ m_state' = "RUNNING"
    /\ call' = "STARTING"
    /\ calls' = calls + 1
    /\ UNCHANGED <<drv, stops, buffers, rxSide, txSide, station, captured,
                   heard>>

StartStreamKeepsBuffer ==
    /\ call = "STARTING" /\ call' = "NONE"
    /\ IF drv = "OFF"
       THEN drv' = "ON" /\ current' = NoBuf /\ next' = 0 /\ irq' = FALSE
       ELSE UNCHANGED <<drv, current, next, irq>>
    /\ UNCHANGED <<m_state, calls, stops, txBuf, rxBuf, rxSide, txSide, station,
                   captured, heard>>

StartStream ==
    /\ call = "STARTING" /\ call' = "NONE"
    /\ txBuf' = [txBuf EXCEPT ![0] = Silence]
    /\ IF drv = "OFF"
       THEN drv' = "ON" /\ current' = NoBuf /\ next' = 0 /\ irq' = FALSE
       ELSE UNCHANGED <<drv, current, next, irq>>
    /\ UNCHANGED <<m_state, calls, stops, rxBuf, rxSide, txSide, station,
                   captured, heard>>

(* audio_codec_I2S_stop: the peripheral is told to stop, and stops later.   *)
StopStreamStateOnly ==
    /\ call = "NONE" /\ m_state = "RUNNING" /\ calls < MaxCalls
    /\ m_state' = "IDLE" /\ call' = "STOPPING"
    /\ calls' = calls + 1 /\ stops' = stops + 1
    /\ UNCHANGED <<drv, buffers, rxSide, txSide, station, captured, heard>>

StopStream ==
    /\ call = "NONE" /\ m_state = "RUNNING" /\ calls < MaxCalls
    /\ call' = "STOPPING"
    /\ drv' = IF drv = "ON" THEN "STOPPING" ELSE drv
    /\ irq' = FALSE
    /\ calls' = calls + 1 /\ stops' = stops + 1
    /\ UNCHANGED <<m_state, current, next, rxBuf, txBuf, rxSide, txSide,
                   station, captured, heard>>

StopState ==
    /\ call = "STOPPING" /\ call' = "NONE"
    /\ m_state' = "IDLE"
    /\ UNCHANGED <<drv, calls, stops, buffers, rxSide, txSide, station,
                   captured, heard>>

Driver == StartCall \/ StartStream \/ StopStream \/ StopState

------------------------------------------------------------------------------
(* audio_rx_process: gather Ratio chunks, waiting for each, encode them and *)
(* put the frame into the ring buffer; the frame is gone when that is full. *)
RxGather ==
    /\ i2s_in # <<>> /\ Len(line_in) < Ratio
    /\ line_in' = Append(line_in, Head(i2s_in))
    /\ taken' = Head(i2s_in)
    /\ i2s_in' = Tail(i2s_in)
    /\ UNCHANGED <<driver, buffers, ring, stats, txSide, station, captured,
                   heard>>

RxEncodeLeavesRest ==
    /\ Len(line_in) >= Ratio
    /\ line_in' = Tail(line_in)
    /\ stats' = [stats EXCEPT !.Opus_enc = @ + 1]
    /\ ring' = IF ring < RingLen THEN ring + 1 ELSE ring
    /\ UNCHANGED <<driver, buffers, i2s_in, taken, txSide, station, captured,
                   heard>>

RxEncode ==
    /\ Len(line_in) = Ratio
    /\ line_in' = <<>>
    /\ stats' = [stats EXCEPT !.Opus_enc = @ + 1]
    /\ ring' = IF ring < RingLen THEN ring + 1 ELSE ring
    /\ UNCHANGED <<driver, buffers, i2s_in, taken, txSide, station, captured,
                   heard>>

(* audio_tx_process.  msgq_OPUS_DECODE has no producer in src, so its first *)
(* part always decodes a concealment frame.                                 *)
TxDecode ==
    /\ txPc = "VOICE"
    /\ txPc' = "SPEAKER"
    /\ UNCHANGED <<driver, buffers, rxSide, i2s_out, txPos, decoded, made,
                   station, captured, heard>>

(* One k_msgq_put, K_FOREVER, of a loop over the chunks of a frame.         *)
PutChunk(pc, after) ==
    /\ txPc = pc
    /\ IF txPos + 1 < Ratio
       THEN txPos' = txPos + 1 /\ txPc' = txPc
       ELSE txPos' = 0 /\ txPc' = after
    /\ UNCHANGED <<driver, buffers, rxSide, station, captured, heard>>

TxSpeaker ==
    /\ PutChunk("SPEAKER", "STATION")
    /\ HasRoom(i2s_out, RatioOut)
    /\ i2s_out' = Append(i2s_out, made + 1)
    /\ made' = made + 1
    /\ UNCHANGED decoded

(* The frame off the air is taken from msgq_station_rx, and frame_OPUS_     *)
(* decode is decoded a second time in its place.                            *)
TxStation ==
    /\ txPc = "STATION"
    /\ txPc' = "SECOND"
    /\ station' = IF station > 0 THEN station - 1 ELSE 0
    /\ UNCHANGED <<driver, buffers, rxSide, i2s_out, txPos, decoded, made,
                   captured, heard>>

TxSecond ==
    /\ PutChunk("SECOND", "VOICE")
    /\ decoded < DecodedLen
    /\ decoded' = decoded + 1
    /\ UNCHANGED <<i2s_out, made>>

RxThread == RxGather \/ RxEncode
TxThread == TxDecode \/ TxSpeaker \/ TxStation \/ TxSecond

(* radio_rx_job: a frame off the air that finds the queue full is dropped.  *)
StationReceive ==
    /\ station < StationLen
    /\ station' = station + 1
    /\ UNCHANGED <<driver, buffers, rxSide, txSide, captured, heard>>

Next ==
    \/ HwLatch \/ HwStopped \/ Isr
    \/ Driver \/ RxThread \/ TxThread \/ StationReceive

Spec == Init /\ [][Next]_vars

------------------------------------------------------------------------------
(* Double buffering: a streaming peripheral that is not waiting for its ISR *)
(* always has its next buffers, and they are not the ones it is using: the  *)
(* ISR never writes what is being sent, nor reads what is being captured,   *)
(* although the driver can be stopped and started around it.                *)
DoubleBuffered == drv = "ON" /\ ~irq => next \in Half /\ next # current

(* Every captured chunk is in exactly one place: in an encoded frame, in    *)
(* the hands of the rx thread, in the queue, counted as discarded, or still *)
(* waiting for the ISR.  A stop loses at most the one that was waiting.     *)
Pending == IF irq /\ current # NoBuf THEN 1 ELSE 0
Accounted == Ratio * stats.Opus_enc + Len(line_in) + Len(i2s_in)
               + stats.I2S_Discared + Pending

CaptureAccounted == Recorder => captured - Accounted \in 0..stops

(* The recorder delivers the captured chunks to the encoder in order, none  *)
(* twice, and all of them unless it counted a discard or was stopped.       *)
Mic == INSTANCE AudioStream WITH
           sent <- captured, delivered <- taken,
           lossy <- (stats.I2S_Discared > 0 \/ stops > 0)
MicStream == Mic!Spec

(* The player sends what the tx thread queued in order, none twice, and all *)
(* of it unless it was stopped; in between it sends silence.                *)
Speaker == INSTANCE AudioStream WITH
               sent <- made, delivered <- heard, lossy <- (stops > 0)
SpeakerStream == Speaker!Spec

(* hw/audio/codec-i2s.c:464 says of audio_codec_I2S_start that it "Starts   *)
(* the I2S peripheral": when it returns success the peripheral streams.     *)
StartStarts == [][call = "STARTING" /\ call' = "NONE" => drv' = "ON"]_vars
=============================================================================
