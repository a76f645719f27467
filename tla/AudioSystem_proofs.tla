-------------------------- MODULE AudioSystem_proofs --------------------------
(***************************************************************************)
(* Proofs about the audio path for every ratio, every queue depth and      *)
(* every number of chunks and of calls, in the recorder and the player.    *)
(***************************************************************************)
EXTENDS AudioSystem, TLAPS

-----------------------------------------------------------------------------
(* Sequences of chunks.                                                     *)
LEMMA AppendChunk ==
    ASSUME NEW s \in Seq(Nat), NEW c \in Nat
    PROVE  /\ Append(s, c) \in Seq(Nat)
           /\ Len(Append(s, c)) = Len(s) + 1
           /\ \A j \in 1..Len(s) : Append(s, c)[j] = s[j]
           /\ Append(s, c)[Len(s) + 1] = c
  OBVIOUS

LEMMA TailChunk ==
    ASSUME NEW s \in Seq(Nat), s # <<>>
    PROVE  /\ Head(s) \in Nat
           /\ Head(s) = s[1]
           /\ Tail(s) \in Seq(Nat)
           /\ Len(s) \in Nat \ {0}
           /\ Len(Tail(s)) = Len(s) - 1
           /\ \A j \in 1..Len(Tail(s)) : Tail(s)[j] = s[j + 1]
  OBVIOUS

LEMMA NoChunk == <<>> \in Seq(Nat) /\ Len(<<>>) = 0
  OBVIOUS

(* The counters of audio_stats_counter.                                     *)
Counters == [Opus_enc : Nat, I2S_Discared : Nat]

LEMMA CountEncoded ==
    ASSUME NEW s \in Counters
    PROVE  /\ [s EXCEPT !.Opus_enc = @ + 1] \in Counters
           /\ [s EXCEPT !.Opus_enc = @ + 1].Opus_enc = s.Opus_enc + 1
           /\ [s EXCEPT !.Opus_enc = @ + 1].I2S_Discared = s.I2S_Discared
           /\ s.Opus_enc \in Nat /\ s.I2S_Discared \in Nat
  BY DEF Counters

LEMMA CountDiscarded ==
    ASSUME NEW s \in Counters
    PROVE  /\ [s EXCEPT !.I2S_Discared = @ + 1] \in Counters
           /\ [s EXCEPT !.I2S_Discared = @ + 1].Opus_enc = s.Opus_enc
           /\ [s EXCEPT !.I2S_Discared = @ + 1].I2S_Discared = s.I2S_Discared + 1
  BY DEF Counters

(* What the two requests of the interrupt leave of the variables' types.    *)
LEMMA RxReceivedType ==
    ASSUME TypeOK, NEW c \in Nat, RxReceived(c)
    PROVE  /\ i2s_in' \in Seq(Nat) /\ Len(i2s_in') <= Ratio
           /\ stats' \in Counters
  <1> USE AudioAssumption
  <1>1. CASE Recorder /\ HasRoom(i2s_in, Ratio)
    <2>1. i2s_in' = Append(i2s_in, c) /\ stats' = stats
      BY <1>1 DEF RxReceived
    <2> QED BY <1>1, <2>1, AppendChunk DEF TypeOK, HasRoom, Counters
  <1>2. CASE Recorder /\ ~HasRoom(i2s_in, Ratio)
    <2>1. i2s_in' = i2s_in /\ stats' = [stats EXCEPT !.I2S_Discared = @ + 1]
      BY <1>2 DEF RxReceived
    <2>2. stats \in Counters
      BY DEF TypeOK, Counters
    <2>3. stats' \in Counters
      BY <2>1, <2>2, CountDiscarded
    <2>4. i2s_in' \in Seq(Nat) /\ Len(i2s_in') <= Ratio
      BY <2>1 DEF TypeOK
    <2> QED BY <2>3, <2>4
  <1>3. CASE ~Recorder
    BY <1>3 DEF RxReceived, TypeOK, Counters
  <1> QED BY <1>1, <1>2, <1>3

LEMMA TxRequestedType ==
    ASSUME TypeOK, NEW b \in Half, TxRequested(b)
    PROVE  /\ i2s_out' \in Seq(Nat) /\ Len(i2s_out') <= RatioOut
           /\ txBuf' \in [Half -> Nat]
           /\ station' \in 0..StationLen
  <1> USE AudioAssumption
  <1>1. CASE Recorder
    BY <1>1 DEF TxRequested, TypeOK
  <1>2. CASE ~Recorder /\ i2s_out = <<>>
    <2>1. /\ txBuf' = [txBuf EXCEPT ![b] = Silence]
          /\ i2s_out' = i2s_out /\ station' = station
      BY <1>2, Zenon DEF TxRequested
    <2> QED BY <2>1 DEF TypeOK, Silence
  <1>3. CASE ~Recorder /\ i2s_out # <<>>
    <2>1. /\ i2s_out' = Tail(i2s_out)
          /\ station' = IF station > 0 THEN station - 1 ELSE 0
          /\ txBuf' = [txBuf EXCEPT ![b] = Head(i2s_out)]
      BY <1>3 DEF TxRequested
    <2> QED BY <1>3, <2>1, TailChunk DEF TypeOK, RatioOut
  <1> QED BY <1>1, <1>2, <1>3

-----------------------------------------------------------------------------
(* The driver, the peripheral and the double buffers: the part of the       *)
(* inductive invariant that TypeOK itself rests on.  A streaming peripheral *)
(* was started by a driver that is still RUNNING, has a next buffer other   *)
(* than the one it is using, and uses none only until its first interrupt.  *)
DriverInv ==
    /\ drv = "ON" =>
         /\ m_state = "RUNNING" /\ call = "NONE"
         /\ next \in Half /\ next # current
         /\ current = NoBuf => next = 0
    /\ irq => drv = "ON"
    /\ call = "STARTING" => m_state = "RUNNING"
    /\ call # "NONE" => drv # "ON"
    /\ stops <= calls

LEMMA DriverStep == TypeOK /\ DriverInv /\ [Next]_vars => DriverInv'
  <1> SUFFICES ASSUME TypeOK, DriverInv, [Next]_vars PROVE DriverInv'
    OBVIOUS
  <1>1. CASE HwLatch
    BY <1>1 DEF HwLatch, DriverInv, driver
  <1>2. CASE HwStopped
    BY <1>2 DEF HwStopped, DriverInv, buffers
  <1>3. CASE Isr
    <2>1. /\ irq /\ irq' = FALSE
          /\ m_state' = m_state /\ drv' = drv /\ call' = call
      BY <1>3 DEF Isr, driver
    <2>0. calls' = calls /\ stops' = stops
      BY <1>3 DEF Isr, driver
    <2>2. drv = "ON" /\ m_state = "RUNNING" /\ next \in Half
      BY <2>1 DEF DriverInv
    <2>3. CASE current = NoBuf
      <3>1. next' = 1 /\ current' = next /\ next = 0
        BY <1>3, <2>2, <2>3 DEF Isr, DriverInv, Half, NoBuf
      <3> QED BY <2>0, <2>1, <2>2, <3>1 DEF DriverInv, Half, NoBuf
    <2>4. CASE current # NoBuf
      <3>1. next' = current /\ current' = next
        BY <1>3, <2>2, <2>4 DEF Isr, Half, NoBuf
      <3>2. current \in Half
        BY <2>4 DEF TypeOK
      <3> QED BY <2>0, <2>1, <2>2, <3>1, <3>2 DEF DriverInv, Half, NoBuf
    <2> QED BY <2>3, <2>4
  <1>4. CASE Driver
    <2>1. CASE StartCall
      BY <2>1 DEF StartCall, DriverInv, buffers, TypeOK
    <2>2. CASE StartStream
      BY <2>2 DEF StartStream, DriverInv, Half, NoBuf
    <2>3. CASE StopStream
      BY <2>3 DEF StopStream, DriverInv, TypeOK
    <2>4. CASE StopState
      BY <2>4 DEF StopState, DriverInv, buffers
    <2> QED BY <1>4, <2>1, <2>2, <2>3, <2>4 DEF Driver
  <1>5. CASE RxThread
    BY <1>5 DEF RxThread, RxGather, RxEncode, DriverInv, driver, buffers
  <1>6. CASE TxThread
    BY <1>6 DEF TxThread, TxDecode, TxSpeaker, TxStation, TxSecond, PutChunk,
                DriverInv, driver, buffers
  <1>7. CASE StationReceive
    BY <1>7 DEF StationReceive, DriverInv, driver, buffers
  <1>8. CASE UNCHANGED vars
    BY <1>8 DEF vars, DriverInv, driver, buffers
  <1> QED BY <1>1, <1>2, <1>3, <1>4, <1>5, <1>6, <1>7, <1>8 DEF Next

-----------------------------------------------------------------------------
(* Every variable keeps its type, and no queue holds more than its depth.   *)
LEMMA TypeStep == TypeOK /\ DriverInv /\ [Next]_vars => TypeOK'
  <1> SUFFICES ASSUME TypeOK, DriverInv, [Next]_vars PROVE TypeOK'
    OBVIOUS
  <1> USE AudioAssumption
  <1>1. CASE HwLatch
    <2>1. captured' \in 0..MaxChunks
      BY <1>1 DEF HwLatch, TypeOK
    <2>2. rxBuf' \in [Half -> Nat]
      <3>1. rxBuf' = rxBuf \/ rxBuf' = [rxBuf EXCEPT ![current] = captured + 1]
        BY <1>1 DEF HwLatch
      <3>2. captured + 1 \in Nat /\ rxBuf \in [Half -> Nat]
        BY DEF TypeOK
      <3> QED BY <3>1, <3>2
    <2>3. heard' \in Nat
      <3>1. next \in Half /\ next # NoBuf
        BY <1>1 DEF HwLatch, DriverInv, Half, NoBuf
      <3>2. heard' = IF txBuf[next] = Silence THEN heard ELSE txBuf[next]
        BY <1>1, <3>1, Zenon DEF HwLatch
      <3> QED BY <3>1, <3>2 DEF TypeOK
    <2> QED BY <1>1, <2>1, <2>2, <2>3
            DEF HwLatch, TypeOK, driver, rxSide, txSide
  <1>2. CASE HwStopped
    BY <1>2 DEF HwStopped, TypeOK, buffers, rxSide, txSide
  <1>3. CASE Isr
    <2>1. irq' = FALSE /\ UNCHANGED <<driver, rxBuf, line_in, ring, taken,
                                      txPc, txPos, decoded, made, captured, heard>>
      BY <1>3 DEF Isr
    <2>2. next \in Half /\ m_state = "RUNNING"
      BY <1>3 DEF Isr, DriverInv
    <2>3. CASE current = NoBuf
      <3>1. /\ TxRequested(1) /\ next' = 1 /\ current' = next
            /\ i2s_in' = i2s_in /\ stats' = stats
        BY <1>3, <2>2, <2>3 DEF Isr, Half, NoBuf
      <3>2. 1 \in Half
        BY DEF Half
      <3> QED BY <2>1, <2>2, <3>1, <3>2, TxRequestedType DEF TypeOK, driver
    <2>4. CASE current # NoBuf
      <3>1. /\ RxReceived(rxBuf[current]) /\ TxRequested(current)
            /\ next' = current /\ current' = next
        BY <1>3, <2>2, <2>4 DEF Isr, Half, NoBuf
      <3>2. current \in Half /\ rxBuf[current] \in Nat
        BY <2>4 DEF TypeOK
      <3> QED BY <2>1, <2>2, <3>1, <3>2, RxReceivedType, TxRequestedType
              DEF TypeOK, driver, Counters
    <2> QED BY <2>3, <2>4
  <1>4. CASE Driver
    <2>1. CASE StartCall
      BY <2>1 DEF StartCall, TypeOK, buffers, rxSide, txSide
    <2>2. CASE StartStream
      BY <2>2 DEF StartStream, TypeOK, rxSide, txSide, Half, NoBuf, Silence
    <2>3. CASE StopStream
      <3>1. stops' \in 0..MaxCalls
        BY <2>3 DEF StopStream, DriverInv, TypeOK
      <3>2. calls' \in 0..MaxCalls
        BY <2>3 DEF StopStream, TypeOK
      <3>3. drv' \in {"OFF", "ON", "STOPPING"} /\ call' = "STOPPING" /\ irq' = FALSE
        BY <2>3 DEF StopStream, TypeOK
      <3>4. UNCHANGED <<m_state, current, next, rxBuf, txBuf, rxSide, txSide,
                        station, captured, heard>>
        BY <2>3 DEF StopStream
      <3> QED BY <3>1, <3>2, <3>3, <3>4 DEF TypeOK, rxSide, txSide
    <2>4. CASE StopState
      BY <2>4 DEF StopState, TypeOK, buffers, rxSide, txSide
    <2> QED BY <1>4, <2>1, <2>2, <2>3, <2>4 DEF Driver
  <1>5. CASE RxThread
    <2>1. CASE RxGather
      <3>1. /\ line_in' = Append(line_in, Head(i2s_in))
            /\ taken' = Head(i2s_in) /\ i2s_in' = Tail(i2s_in)
            /\ i2s_in # <<>> /\ Len(line_in) < Ratio
        BY <2>1 DEF RxGather
      <3>2. /\ i2s_in' \in Seq(Nat) /\ Len(i2s_in') <= Ratio
            /\ line_in' \in Seq(Nat) /\ Len(line_in') <= Ratio /\ taken' \in Nat
        BY <3>1, AppendChunk, TailChunk DEF TypeOK
      <3> QED BY <2>1, <3>2 DEF RxGather, TypeOK, driver, buffers, txSide
    <2>2. CASE RxEncode
      <3>1. line_in' \in Seq(Nat) /\ Len(line_in') <= Ratio
        BY <2>2, NoChunk DEF RxEncode
      <3>2. stats' \in [Opus_enc : Nat, I2S_Discared : Nat]
        <4>1. stats' = [stats EXCEPT !.Opus_enc = @ + 1]
          BY <2>2 DEF RxEncode
        <4> QED BY <4>1, CountEncoded DEF TypeOK, Counters
      <3>3. ring' \in 0..RingLen
        <4>1. ring' = IF ring < RingLen THEN ring + 1 ELSE ring
          BY <2>2 DEF RxEncode
        <4> QED BY <4>1 DEF TypeOK
      <3> QED BY <2>2, <3>1, <3>2, <3>3
              DEF RxEncode, TypeOK, driver, buffers, txSide
    <2> QED BY <1>5, <2>1, <2>2 DEF RxThread
  <1>6. CASE TxThread
    <2>1. CASE TxDecode
      BY <2>1 DEF TxDecode, TypeOK, driver, buffers, rxSide
    <2>2. CASE TxSpeaker
      <3>1. i2s_out' \in Seq(Nat) /\ Len(i2s_out') <= RatioOut /\ made' \in Nat
        <4>1. i2s_out' = Append(i2s_out, made + 1) /\ made' = made + 1
              /\ Len(i2s_out) < RatioOut
          BY <2>2 DEF TxSpeaker, HasRoom
        <4> QED BY <4>1, AppendChunk DEF TypeOK, RatioOut
      <3> QED BY <2>2, <3>1
              DEF TxSpeaker, PutChunk, TypeOK, driver, buffers, rxSide
    <2>3. CASE TxStation
      BY <2>3 DEF TxStation, TypeOK, driver, buffers, rxSide
    <2>4. CASE TxSecond
      BY <2>4 DEF TxSecond, PutChunk, TypeOK, driver, buffers, rxSide
    <2> QED BY <1>6, <2>1, <2>2, <2>3, <2>4 DEF TxThread
  <1>7. CASE StationReceive
    BY <1>7 DEF StationReceive, TypeOK, driver, buffers, rxSide, txSide
  <1>8. CASE UNCHANGED vars
    BY <1>8 DEF vars, TypeOK, driver, buffers, rxSide, txSide
  <1> QED BY <1>1, <1>2, <1>3, <1>4, <1>5, <1>6, <1>7, <1>8 DEF Next

LEMMA DriverInit == Init => TypeOK /\ DriverInv
  <1> SUFFICES ASSUME Init PROVE TypeOK /\ DriverInv
    OBVIOUS
  <1> USE AudioAssumption
  <1>1. DriverInv
    BY DEF Init, DriverInv
  <1>2. /\ i2s_in \in Seq(Nat) /\ Len(i2s_in) = 0
        /\ i2s_out \in Seq(Nat) /\ Len(i2s_out) = 0
        /\ line_in \in Seq(Nat) /\ Len(line_in) = 0
    BY NoChunk DEF Init
  <1>3. txPc = "VOICE" /\ txPos = 0
    BY DEF Init
  <1>5. /\ rxBuf \in [Half -> Nat] /\ txBuf \in [Half -> Nat]
        /\ stats \in [Opus_enc : Nat, I2S_Discared : Nat]
    BY DEF Init, Silence
  <1>6. RatioOut \in Nat /\ 0 \in 0..(Ratio - 1)
    BY DEF RatioOut
  <1>7. /\ m_state \in {"UNINITIALIZED", "IDLE", "RUNNING"}
        /\ drv \in {"OFF", "ON", "STOPPING"}
        /\ call \in {"NONE", "STARTING", "STOPPING"}
        /\ current \in Half \cup {NoBuf} /\ next \in Half \cup {NoBuf}
        /\ irq \in BOOLEAN
    BY Zenon DEF Init
  <1>8. /\ ring = 0 /\ decoded = 0 /\ station = 0 /\ captured = 0 /\ taken = 0
        /\ made = 0 /\ heard = 0 /\ calls = 0 /\ stops = 0
    BY DEF Init
  <1>4. TypeOK
    BY <1>2, <1>3, <1>5, <1>6, <1>7, <1>8 DEF TypeOK
  <1> QED BY <1>1, <1>4

(* Type correctness: every variable keeps its type, and no queue holds more *)
(* than its depth, for every ratio and depth, in both builds.               *)
THEOREM TypeCorrect == Spec => []TypeOK
  <1>1. TypeOK /\ DriverInv /\ [Next]_vars => TypeOK' /\ DriverInv'
    BY TypeStep, DriverStep
  <1> QED BY <1>1, DriverInit, PTL DEF Spec

(* Double buffering: the half-buffer the driver has handed over is never    *)
(* the one that the streaming peripheral is using, whatever start and stop  *)
(* do around the interrupt.                                                 *)
THEOREM DoubleBufferedCorrect == Spec => []DoubleBuffered
  <1>1. TypeOK /\ DriverInv /\ [Next]_vars => TypeOK' /\ DriverInv'
    BY TypeStep, DriverStep
  <1>2. DriverInv => DoubleBuffered
    BY DEF DriverInv, DoubleBuffered
  <1> QED BY <1>1, <1>2, DriverInit, PTL DEF Spec
-----------------------------------------------------------------------------
(* The steps that touch the way from the microphone to the encoder, and     *)
(* what all the others leave alone.                                         *)
micVars == <<i2s_in, line_in, stats, taken, captured, rxBuf, irq, current, stops>>

LEMMA MicCases ==
    ASSUME TypeOK, DriverInv, [Next]_vars
    PROVE  \/ HwLatch \/ Isr \/ StartStream \/ StopStream
           \/ RxGather \/ RxEncode
           \/ UNCHANGED micVars
  <1>1. CASE HwStopped
    BY <1>1 DEF HwStopped, micVars, buffers, rxSide
  <1>2. CASE StartCall
    BY <1>2 DEF StartCall, micVars, buffers, rxSide
  <1>3. CASE StopState
    BY <1>3 DEF StopState, micVars, buffers, rxSide
  <1>4. CASE TxThread
    BY <1>4 DEF TxThread, TxDecode, TxSpeaker, TxStation, TxSecond, PutChunk,
                micVars, driver, buffers, rxSide
  <1>5. CASE StationReceive
    BY <1>5 DEF StationReceive, micVars, driver, buffers, rxSide
  <1>6. CASE UNCHANGED vars
    BY <1>6 DEF vars, micVars, driver, buffers, rxSide
  <1> QED BY <1>1, <1>2, <1>3, <1>4, <1>5, <1>6 DEF Next, Driver, RxThread

(* The interrupt takes over the chunk that was waiting for it, if any.      *)
LEMMA IsrMic ==
    ASSUME TypeOK, DriverInv, Isr
    PROVE  /\ irq /\ ~irq' /\ UNCHANGED <<line_in, taken, captured, rxBuf, stops>>
           /\ \/ current = NoBuf /\ UNCHANGED <<i2s_in, stats>>
              \/ /\ current \in Half /\ current # NoBuf
                 /\ rxBuf[current] \in Nat /\ RxReceived(rxBuf[current])
  <1>1. irq /\ ~irq' /\ UNCHANGED <<line_in, taken, captured, rxBuf, stops>>
    BY DEF Isr, driver
  <1>2. next \in Half /\ m_state = "RUNNING"
    BY <1>1 DEF DriverInv
  <1>3. CASE current = NoBuf
    BY <1>1, <1>2, <1>3 DEF Isr, Half, NoBuf
  <1>4. CASE current # NoBuf
    <2>1. RxReceived(rxBuf[current])
      BY <1>2, <1>4 DEF Isr, Half, NoBuf
    <2>2. current \in Half /\ rxBuf[current] \in Nat
      BY <1>4 DEF TypeOK
    <2> QED BY <1>1, <1>4, <2>1, <2>2
  <1> QED BY <1>3, <1>4

(* A request to queue a chunk appends it, drops it and counts that, or, in  *)
(* the player, does nothing.                                                *)
LEMMA RxReceivedCases ==
    ASSUME TypeOK, NEW c \in Nat, RxReceived(c)
    PROVE  \/ ~Recorder /\ i2s_in' = i2s_in /\ stats' = stats
           \/ /\ Recorder /\ stats' = stats
              /\ i2s_in' = Append(i2s_in, c)
           \/ /\ Recorder /\ i2s_in' = i2s_in
              /\ stats'.Opus_enc = stats.Opus_enc
              /\ stats'.I2S_Discared = stats.I2S_Discared + 1
  <1>1. stats \in Counters
    BY DEF TypeOK, Counters
  <1>2. CASE Recorder /\ HasRoom(i2s_in, Ratio)
    BY <1>2 DEF RxReceived
  <1>3. CASE Recorder /\ ~HasRoom(i2s_in, Ratio)
    <2>1. i2s_in' = i2s_in /\ stats' = [stats EXCEPT !.I2S_Discared = @ + 1]
      BY <1>3 DEF RxReceived
    <2> QED BY <1>1, <1>3, <2>1, CountDiscarded
  <1>4. CASE ~Recorder
    BY <1>4 DEF RxReceived
  <1> QED BY <1>2, <1>3, <1>4

LEMMA PendingType == Pending \in 0..1
  BY DEF Pending

(* While the peripheral is off nothing waits for the interrupt.             *)
LEMMA StartMic ==
    ASSUME TypeOK, DriverInv, StartStream
    PROVE  /\ UNCHANGED <<i2s_in, line_in, stats, taken, captured, rxBuf, stops>>
           /\ Pending' = Pending
           /\ irq' /\ current' # NoBuf => current' = current
  <1>1. UNCHANGED <<i2s_in, line_in, stats, taken, captured, rxBuf, stops>>
    BY DEF StartStream, rxSide
  <1>2. CASE drv = "OFF"
    <2>1. ~irq /\ ~irq'
      BY <1>2 DEF StartStream, DriverInv
    <2> QED BY <1>1, <2>1 DEF Pending
  <1>3. CASE drv # "OFF"
    <2>1. irq' = irq /\ current' = current
      BY <1>3 DEF StartStream
    <2> QED BY <1>1, <2>1 DEF Pending
  <1> QED BY <1>2, <1>3

LEMMA OneFrameMore ==
    ASSUME NEW n \in Nat
    PROVE  Ratio * n \in Nat /\ Ratio * (n + 1) = Ratio * n + Ratio
  BY AudioAssumption

(* The chunks that have been encoded, of which Accounted is a sum.          *)
Encoded == Ratio * stats.Opus_enc

LEMMA EncodedSum ==
    ASSUME TypeOK
    PROVE  /\ Encoded \in Nat
           /\ Accounted = Encoded + Len(line_in) + Len(i2s_in)
                            + stats.I2S_Discared + Pending
           /\ stats.Opus_enc \in Nat /\ stats.I2S_Discared \in Nat
           /\ captured \in Nat /\ stops \in Nat
           /\ Len(line_in) \in Nat /\ Len(i2s_in) \in Nat
  <1>1. stats.Opus_enc \in Nat /\ stats.I2S_Discared \in Nat
    BY CountEncoded DEF TypeOK, Counters
  <1>2. Encoded \in Nat
    BY <1>1, OneFrameMore DEF Encoded
  <1>3. captured \in Nat /\ stops \in Nat
    BY AudioAssumption DEF TypeOK
  <1>4. Len(line_in) \in Nat /\ Len(i2s_in) \in Nat
    BY DEF TypeOK
  <1> QED BY <1>1, <1>2, <1>3, <1>4 DEF Accounted, Encoded

LEMMA CaptureStep ==
    ASSUME TypeOK, DriverInv, CaptureAccounted, [Next]_vars
    PROVE  CaptureAccounted'
  <1> SUFFICES ASSUME Recorder
               PROVE  (captured - Accounted \in 0..stops)'
    BY DEF CaptureAccounted
  <1> USE AudioAssumption
  <1>t. /\ Encoded \in Nat /\ Pending \in 0..1
        /\ stats.Opus_enc \in Nat /\ stats.I2S_Discared \in Nat
        /\ captured \in Nat /\ stops \in Nat
        /\ Len(line_in) \in Nat /\ Len(i2s_in) \in Nat
    BY EncodedSum, PendingType
  <1>i. captured - (Encoded + Len(line_in) + Len(i2s_in)
                     + stats.I2S_Discared + Pending) \in 0..stops
    BY EncodedSum DEF CaptureAccounted
  <1>a. Accounted' = Encoded' + Len(line_in') + Len(i2s_in')
                       + stats'.I2S_Discared + Pending'
    BY DEF Accounted, Encoded
  <1>e. stats'.Opus_enc = stats.Opus_enc => Encoded' = Encoded
    BY DEF Encoded
  <1>1. CASE HwLatch
    <2>1. /\ i2s_in' = i2s_in /\ line_in' = line_in /\ stats' = stats
          /\ stops' = stops /\ current' = current
          /\ Pending = 0 /\ Pending' = IF current = NoBuf THEN 0 ELSE 1
      BY <1>1 DEF HwLatch, rxSide, driver, Pending
    <2>2. captured' = IF current = NoBuf THEN captured ELSE captured + 1
      BY <1>1 DEF HwLatch
    <2> QED BY <1>t, <1>i, <1>a, <1>e, <2>1, <2>2
  <1>2. CASE Isr
    <2>1. irq /\ ~irq' /\ UNCHANGED <<line_in, taken, captured, rxBuf, stops>>
      BY <1>2, IsrMic
    <2>2. CASE current = NoBuf /\ UNCHANGED <<i2s_in, stats>>
      <3>1. Pending = 0 /\ Pending' = 0
        BY <2>1, <2>2 DEF Pending
      <3> QED BY <1>t, <1>i, <1>a, <1>e, <2>1, <2>2, <3>1
    <2>3. CASE /\ current # NoBuf /\ rxBuf[current] \in Nat
               /\ RxReceived(rxBuf[current])
      <3>1. Pending = 1 /\ Pending' = 0
        BY <2>1, <2>3 DEF Pending
      <3>2. CASE stats' = stats /\ i2s_in' = Append(i2s_in, rxBuf[current])
        <4>1. Len(i2s_in') = Len(i2s_in) + 1
          BY <2>3, <3>2, AppendChunk DEF TypeOK
        <4> QED BY <1>t, <1>i, <1>a, <1>e, <2>1, <3>1, <3>2, <4>1
      <3>3. CASE /\ i2s_in' = i2s_in
                 /\ stats'.Opus_enc = stats.Opus_enc
                 /\ stats'.I2S_Discared = stats.I2S_Discared + 1
        BY <1>t, <1>i, <1>a, <1>e, <2>1, <3>1, <3>3
      <3> QED BY <2>3, <3>2, <3>3, RxReceivedCases
    <2> QED BY <1>2, <2>2, <2>3, IsrMic
  <1>3. CASE StartStream
    BY <1>t, <1>i, <1>a, <1>e, <1>3, StartMic
  <1>4. CASE StopStream
    <2>1. /\ UNCHANGED <<i2s_in, line_in, stats, captured>>
          /\ stops' = stops + 1 /\ Pending' = 0
      BY <1>4 DEF StopStream, rxSide, Pending
    <2>2. Encoded' = Encoded
      BY <1>e, <2>1
    <2>3. Accounted' = Encoded + Len(line_in) + Len(i2s_in)
                         + stats.I2S_Discared
      BY <1>t, <1>a, <2>1, <2>2
    <2>4. captured' = captured /\ stops' = stops + 1
      BY <2>1
    <2> QED BY <1>t, <1>i, <2>3, <2>4
  <1>5. CASE RxGather
    <2>1. /\ Len(line_in') = Len(line_in) + 1 /\ Len(i2s_in') = Len(i2s_in) - 1
      <3>1. Head(i2s_in) \in Nat /\ Len(Tail(i2s_in)) = Len(i2s_in) - 1
        BY <1>5, TailChunk DEF RxGather, TypeOK
      <3> QED BY <1>5, <3>1, AppendChunk DEF RxGather, TypeOK
    <2>2. stats' = stats /\ captured' = captured /\ stops' = stops
          /\ Pending' = Pending
      BY <1>5 DEF RxGather, Pending, driver, buffers
    <2> QED BY <1>t, <1>i, <1>a, <1>e, <2>1, <2>2
  <1>6. CASE RxEncode
    <2>1. stats' = [stats EXCEPT !.Opus_enc = @ + 1]
      BY <1>6 DEF RxEncode
    <2>2. /\ stats'.Opus_enc = stats.Opus_enc + 1
          /\ stats'.I2S_Discared = stats.I2S_Discared
      BY <2>1, CountEncoded DEF TypeOK, Counters
    <2>3. Len(line_in) = Ratio /\ Len(line_in') = 0
      BY <1>6, NoChunk DEF RxEncode
    <2>4. UNCHANGED <<i2s_in, captured, stops>> /\ Pending' = Pending
      BY <1>6 DEF RxEncode, Pending, driver, buffers
    <2>5. Encoded' = Encoded + Ratio
      BY <1>t, <2>2, OneFrameMore DEF Encoded
    <2> QED BY <1>t, <1>i, <1>a, <1>e, <2>2, <2>3, <2>4, <2>5
  <1>7. CASE UNCHANGED micVars
    BY <1>t, <1>i, <1>a, <1>e, <1>7 DEF micVars, Accounted, Pending
  <1> QED BY <1>1, <1>2, <1>3, <1>4, <1>5, <1>6, <1>7, MicCases

(* Conservation: in the recorder every captured chunk is encoded, held,     *)
(* queued, counted as discarded or waiting, but for one for each stop.      *)
THEOREM CaptureCorrect == Spec => []CaptureAccounted
  <1>1. Init => CaptureAccounted
    <2> SUFFICES ASSUME Init PROVE CaptureAccounted
      OBVIOUS
    <2>1. /\ stats.Opus_enc = 0 /\ stats.I2S_Discared = 0
          /\ captured = 0 /\ stops = 0 /\ Pending = 0
      BY DEF Init, Pending
    <2>2. Len(line_in) = 0 /\ Len(i2s_in) = 0
      BY NoChunk DEF Init
    <2>3. Ratio * 0 = 0
      BY AudioAssumption
    <2> QED BY <2>1, <2>2, <2>3 DEF CaptureAccounted, Accounted
  <1>2. TypeOK /\ DriverInv /\ [Next]_vars => TypeOK' /\ DriverInv'
    BY TypeStep, DriverStep
  <1>3. TypeOK /\ DriverInv /\ CaptureAccounted /\ [Next]_vars
          => CaptureAccounted'
    BY CaptureStep
  <1> QED BY <1>1, <1>2, <1>3, DriverInit, PTL DEF Spec
-----------------------------------------------------------------------------
(* The recorder's queue is in order, ahead of what the thread has taken and *)
(* behind what still waits for the interrupt; without a loss nothing is     *)
(* missing from it.                                                         *)
MicLossy == stats.I2S_Discared > 0 \/ stops > 0

MicInv ==
    /\ Recorder \/ Len(i2s_in) = 0
    /\ taken <= captured - Pending
    /\ \A j \in 1..Len(i2s_in) :
          taken < i2s_in[j] /\ i2s_in[j] <= captured - Pending
    /\ \A j, k \in 1..Len(i2s_in) : j < k => i2s_in[j] < i2s_in[k]
    /\ irq /\ current # NoBuf => rxBuf[current] = captured
    /\ Recorder /\ ~MicLossy =>
         /\ captured = taken + Len(i2s_in) + Pending
         /\ \A j \in 1..Len(i2s_in) : i2s_in[j] = taken + j

LEMMA MicTypes ==
    ASSUME TypeOK
    PROVE  /\ captured \in Nat /\ taken \in Nat /\ stops \in Nat
           /\ stats.I2S_Discared \in Nat
           /\ Pending \in 0..1
           /\ i2s_in \in Seq(Nat) /\ Len(i2s_in) \in Nat
           /\ \A j \in 1..Len(i2s_in) : i2s_in[j] \in Nat
  <1>1. stats.I2S_Discared \in Nat
    BY CountEncoded DEF TypeOK, Counters
  <1>2. captured \in Nat /\ stops \in Nat /\ taken \in Nat
    BY AudioAssumption DEF TypeOK
  <1>3. i2s_in \in Seq(Nat)
    BY DEF TypeOK
  <1> QED BY <1>1, <1>2, <1>3, PendingType

LEMMA MicStep ==
    ASSUME TypeOK, DriverInv, MicInv, [Next]_vars
    PROVE  MicInv'
  <1>t. /\ captured \in Nat /\ taken \in Nat /\ stops \in Nat
        /\ stats.I2S_Discared \in Nat /\ Pending \in 0..1
        /\ i2s_in \in Seq(Nat) /\ Len(i2s_in) \in Nat
        /\ \A j \in 1..Len(i2s_in) : i2s_in[j] \in Nat
    BY MicTypes
  <1>1. CASE HwLatch
    <2>1. /\ UNCHANGED <<i2s_in, stats, taken, stops, current>>
          /\ Pending = 0 /\ Pending' = IF current = NoBuf THEN 0 ELSE 1
      BY <1>1 DEF HwLatch, rxSide, driver, Pending
    <2>2. CASE current = NoBuf
      <3>1. captured' = captured /\ Pending' = 0
        BY <1>1, <2>1, <2>2 DEF HwLatch
      <3> QED BY <1>t, <2>1, <2>2, <3>1 DEF MicInv, MicLossy
    <2>3. CASE current # NoBuf
      <3>1. captured' = captured + 1 /\ Pending' = 1
            /\ rxBuf' = [rxBuf EXCEPT ![current] = captured + 1]
        BY <1>1, <2>1, <2>3 DEF HwLatch
      <3>2. current \in Half /\ rxBuf \in [Half -> Nat]
        BY <2>3 DEF TypeOK
      <3>3. rxBuf'[current'] = captured'
        BY <2>1, <3>1, <3>2
      <3> QED BY <1>t, <2>1, <3>1, <3>3 DEF MicInv, MicLossy
    <2> QED BY <2>2, <2>3
  <1>2. CASE Isr
    <2>1. irq /\ ~irq' /\ UNCHANGED <<line_in, taken, captured, rxBuf, stops>>
      BY <1>2, IsrMic
    <2>2. CASE current = NoBuf /\ UNCHANGED <<i2s_in, stats>>
      <3>1. Pending = 0 /\ Pending' = 0
        BY <2>1, <2>2 DEF Pending
      <3> QED BY <1>t, <2>1, <2>2, <3>1 DEF MicInv, MicLossy
    <2>3. CASE /\ current # NoBuf /\ rxBuf[current] \in Nat
               /\ RxReceived(rxBuf[current])
      <3>1. Pending = 1 /\ Pending' = 0 /\ rxBuf[current] = captured
        BY <2>1, <2>3 DEF Pending, MicInv
      <3>2. CASE /\ Recorder /\ stats' = stats
                 /\ i2s_in' = Append(i2s_in, rxBuf[current])
        <4>1. /\ i2s_in' \in Seq(Nat) /\ Len(i2s_in') = Len(i2s_in) + 1
              /\ \A j \in 1..Len(i2s_in) : i2s_in'[j] = i2s_in[j]
              /\ i2s_in'[Len(i2s_in) + 1] = captured
          BY <1>t, <3>1, <3>2, AppendChunk
        <4>2. \A j \in 1..Len(i2s_in) : taken < i2s_in[j] /\ i2s_in[j] < captured
          <5> SUFFICES ASSUME NEW j \in 1..Len(i2s_in)
                       PROVE  taken < i2s_in[j] /\ i2s_in[j] < captured
            OBVIOUS
          <5>1. taken < i2s_in[j] /\ i2s_in[j] <= captured - Pending
            BY DEF MicInv
          <5> QED BY <1>t, <3>1, <5>1
        <4>3. \A j \in 1..Len(i2s_in') : j = Len(i2s_in) + 1 \/ j \in 1..Len(i2s_in)
          BY <1>t, <4>1
        <4>4. taken < captured
          BY <1>t, <3>1 DEF MicInv
        <4>5. \A j \in 1..Len(i2s_in') : taken < i2s_in'[j] /\ i2s_in'[j] <= captured
          <5> SUFFICES ASSUME NEW j \in 1..Len(i2s_in')
                       PROVE  taken < i2s_in'[j] /\ i2s_in'[j] <= captured
            OBVIOUS
          <5>1. CASE j = Len(i2s_in) + 1
            BY <1>t, <4>1, <4>4, <5>1
          <5>2. CASE j \in 1..Len(i2s_in)
            BY <1>t, <4>1, <4>2, <5>2
          <5> QED BY <4>3, <5>1, <5>2
        <4>6. \A j, k \in 1..Len(i2s_in') : j < k => i2s_in'[j] < i2s_in'[k]
          <5> SUFFICES ASSUME NEW j \in 1..Len(i2s_in'),
                              NEW k \in 1..Len(i2s_in'), j < k
                       PROVE  i2s_in'[j] < i2s_in'[k]
            OBVIOUS
          <5>1. j \in 1..Len(i2s_in)
            BY <1>t, <4>1
          <5>2. CASE k = Len(i2s_in) + 1
            BY <4>1, <4>2, <5>1, <5>2
          <5>3. CASE k \in 1..Len(i2s_in)
            <6>1. i2s_in[j] < i2s_in[k]
              BY <5>1, <5>3 DEF MicInv
            <6> QED BY <4>1, <5>1, <5>3, <6>1
          <5> QED BY <4>3, <5>2, <5>3
        <4>7. ASSUME ~MicLossy
              PROVE  /\ captured = taken + Len(i2s_in')
                     /\ \A j \in 1..Len(i2s_in') : i2s_in'[j] = taken + j
          <5>1. /\ captured = taken + Len(i2s_in) + Pending
                /\ \A j \in 1..Len(i2s_in) : i2s_in[j] = taken + j
            BY <3>2, <4>7 DEF MicInv
          <5>2. captured = taken + Len(i2s_in')
            BY <1>t, <3>1, <4>1, <5>1
          <5>3. ASSUME NEW j \in 1..Len(i2s_in') PROVE i2s_in'[j] = taken + j
            <6>1. CASE j = Len(i2s_in) + 1
              BY <1>t, <4>1, <5>2, <6>1
            <6>2. CASE j \in 1..Len(i2s_in)
              BY <4>1, <5>1, <6>2
            <6> QED BY <4>3, <6>1, <6>2
          <5> QED BY <5>2, <5>3
        <4>8. MicLossy' = MicLossy
          BY <2>1, <3>2 DEF MicLossy
        <4>9. taken' = taken /\ captured' = captured /\ Pending' = 0 /\ ~irq'
          BY <2>1, <3>1
        <4>10. taken <= captured - 0
          BY <1>t, <4>4
        <4>11. \A n \in Nat : n - 0 = n /\ n + 0 = n
          OBVIOUS
        <4> QED BY <1>t, <3>2, <4>1, <4>4, <4>5, <4>6, <4>7, <4>8, <4>9, <4>10, <4>11 DEF MicInv
      <3>3. CASE /\ Recorder /\ i2s_in' = i2s_in
                 /\ stats'.I2S_Discared = stats.I2S_Discared + 1
        <4>1. MicLossy'
          BY <1>t, <3>3 DEF MicLossy
        <4> QED BY <1>t, <2>1, <3>1, <3>3, <4>1 DEF MicInv
      <3>4. CASE ~Recorder /\ i2s_in' = i2s_in /\ stats' = stats
        BY <1>t, <2>1, <3>1, <3>4 DEF MicInv, MicLossy
      <3> QED BY <2>3, <3>2, <3>3, <3>4, RxReceivedCases
    <2> QED BY <1>2, <2>2, <2>3, IsrMic
  <1>3. CASE StartStream
    <2>1. /\ UNCHANGED <<i2s_in, stats, taken, captured, rxBuf, stops>>
          /\ Pending' = Pending
          /\ irq' /\ current' # NoBuf => irq /\ current # NoBuf /\ current' = current
      <3>1. Pending' = 1 => Pending = 1
        BY <1>3, StartMic
      <3>2. irq' /\ current' # NoBuf => irq /\ current # NoBuf
        <4>1. 1 # 0
          OBVIOUS
        <4> QED BY <3>1, <4>1, Zenon DEF Pending
      <3> QED BY <1>3, <3>2, StartMic
    <2> QED BY <2>1 DEF MicInv, MicLossy
  <1>4. CASE StopStream
    <2>1. /\ UNCHANGED <<i2s_in, taken, captured>>
          /\ stops' = stops + 1 /\ Pending' = 0 /\ ~irq'
      BY <1>4 DEF StopStream, rxSide, Pending
    <2>2. MicLossy'
      BY <1>t, <2>1 DEF MicLossy
    <2> QED BY <1>t, <2>1, <2>2 DEF MicInv
  <1>5. CASE RxGather
    <2>1. /\ i2s_in' = Tail(i2s_in) /\ taken' = i2s_in[1] /\ i2s_in # <<>>
          /\ Len(i2s_in) \in Nat \ {0} /\ Len(i2s_in') = Len(i2s_in) - 1
          /\ \A j \in 1..Len(i2s_in') : i2s_in'[j] = i2s_in[j + 1]
      BY <1>5, TailChunk DEF RxGather, TypeOK
    <2>2. /\ UNCHANGED <<stats, captured, rxBuf, irq, current, stops>>
          /\ Pending' = Pending
      BY <1>5 DEF RxGather, Pending, driver, buffers
    <2>3. taken' <= captured - Pending
      BY <1>t, <2>1 DEF MicInv
    <2>4. \A j \in 1..Len(i2s_in') :
             taken' < i2s_in'[j] /\ i2s_in'[j] <= captured - Pending
      BY <1>t, <2>1 DEF MicInv
    <2>5. \A j, k \in 1..Len(i2s_in') : j < k => i2s_in'[j] < i2s_in'[k]
      BY <1>t, <2>1 DEF MicInv
    <2>6. ASSUME Recorder, ~MicLossy
          PROVE  /\ captured = taken' + Len(i2s_in') + Pending
                 /\ \A j \in 1..Len(i2s_in') : i2s_in'[j] = taken' + j
      <3>1. /\ captured = taken + Len(i2s_in) + Pending
            /\ \A j \in 1..Len(i2s_in) : i2s_in[j] = taken + j
        BY <2>6 DEF MicInv
      <3>2. 1 \in 1..Len(i2s_in)
        BY <2>1
      <3>3. taken' = taken + 1
        BY <2>1, <3>1, <3>2
      <3>4. \A j \in 1..Len(i2s_in') : j + 1 \in 1..Len(i2s_in)
        BY <2>1
      <3> QED BY <1>t, <2>1, <3>1, <3>3, <3>4
    <2> QED BY <1>t, <2>1, <2>2, <2>3, <2>4, <2>5, <2>6 DEF MicInv, MicLossy
  <1>6. CASE RxEncode
    <2>1. stats' = [stats EXCEPT !.Opus_enc = @ + 1]
      BY <1>6 DEF RxEncode
    <2>2. stats'.I2S_Discared = stats.I2S_Discared
      BY <2>1, CountEncoded DEF TypeOK, Counters
    <2>3. /\ UNCHANGED <<i2s_in, taken, captured, rxBuf, irq, current, stops>>
          /\ Pending' = Pending
      BY <1>6 DEF RxEncode, Pending, driver, buffers
    <2> QED BY <2>2, <2>3 DEF MicInv, MicLossy
  <1>7. CASE UNCHANGED micVars
    BY <1>7 DEF micVars, MicInv, MicLossy, Pending
  <1> QED BY <1>1, <1>2, <1>3, <1>4, <1>5, <1>6, <1>7, MicCases

(* A step captures a chunk, hands one over, loses one, or does none of it.  *)
LEMMA MicRefines ==
    ASSUME TypeOK, DriverInv, MicInv, [Next]_vars
    PROVE  [Mic!Next]_<<captured, taken, MicLossy>>
  <1>t. /\ captured \in Nat /\ taken \in Nat /\ stops \in Nat
        /\ stats.I2S_Discared \in Nat /\ Pending \in 0..1
        /\ i2s_in \in Seq(Nat) /\ Len(i2s_in) \in Nat
        /\ \A j \in 1..Len(i2s_in) : i2s_in[j] \in Nat
    BY MicTypes
  <1>s. ASSUME UNCHANGED <<captured, taken, MicLossy>>
        PROVE  [Mic!Next]_<<captured, taken, MicLossy>>
    BY <1>s
  <1>1. CASE HwLatch
    <2>1. taken' = taken /\ MicLossy' = MicLossy
      BY <1>1 DEF HwLatch, rxSide, driver, MicLossy
    <2>2. captured' = captured \/ captured' = captured + 1
      BY <1>1 DEF HwLatch
    <2>3. CASE captured' = captured + 1
      BY <2>1, <2>3 DEF Mic!Next, Mic!Send, MicLossy
    <2> QED BY <1>s, <2>1, <2>2, <2>3
  <1>2. CASE Isr
    <2>1. captured' = captured /\ taken' = taken /\ stops' = stops
      BY <1>2, IsrMic
    <2>2. stats' = stats \/ stats'.I2S_Discared = stats.I2S_Discared + 1
      BY <1>2, IsrMic, RxReceivedCases
    <2>3. CASE stats' = stats
      BY <1>s, <2>1, <2>3 DEF MicLossy
    <2>4. CASE stats'.I2S_Discared = stats.I2S_Discared + 1
      <3>1. MicLossy' = TRUE
        BY <1>t, <2>4 DEF MicLossy
      <3> QED BY <2>1, <3>1 DEF Mic!Next, Mic!Lose, MicLossy
    <2> QED BY <2>2, <2>3, <2>4
  <1>3. CASE StartStream
    BY <1>s, <1>3, StartMic DEF MicLossy
  <1>4. CASE StopStream
    <2>1. captured' = captured /\ taken' = taken /\ stops' = stops + 1
      BY <1>4 DEF StopStream, rxSide
    <2>2. MicLossy' = TRUE
      BY <1>t, <2>1 DEF MicLossy
    <2> QED BY <2>1, <2>2 DEF Mic!Next, Mic!Lose, MicLossy
  <1>5. CASE RxGather
    <2>1. taken' = i2s_in[1] /\ Len(i2s_in) \in Nat \ {0}
      BY <1>5, TailChunk DEF RxGather, TypeOK
    <2>2. captured' = captured /\ MicLossy' = MicLossy
      BY <1>5 DEF RxGather, driver, MicLossy
    <2>3. taken' \in (taken + 1)..captured
      BY <1>t, <2>1 DEF MicInv
    <2>4. MicLossy \/ taken' = taken + 1
      BY <1>t, <2>1 DEF MicInv
    <2> QED BY <2>2, <2>3, <2>4 DEF Mic!Next, Mic!Deliver, MicLossy
  <1>6. CASE RxEncode
    <2>1. stats' = [stats EXCEPT !.Opus_enc = @ + 1]
      BY <1>6 DEF RxEncode
    <2>2. stats'.I2S_Discared = stats.I2S_Discared
      BY <2>1, CountEncoded DEF TypeOK, Counters
    <2>3. captured' = captured /\ taken' = taken /\ stops' = stops
      BY <1>6 DEF RxEncode, driver
    <2> QED BY <1>s, <2>2, <2>3 DEF MicLossy
  <1>7. CASE UNCHANGED micVars
    BY <1>s, <1>7 DEF micVars, MicLossy
  <1> QED BY <1>1, <1>2, <1>3, <1>4, <1>5, <1>6, <1>7, MicCases

(* Refinement: the way from the microphone to the encoder implements the    *)
(* abstract stream, in order, without repetition, and without gaps unless   *)
(* it has counted a discard or been stopped.                                *)
THEOREM MicStreamCorrect == Spec => MicStream
  <1>1. Init => MicInv /\ Mic!Init
    <2> SUFFICES ASSUME Init PROVE MicInv /\ Mic!Init
      OBVIOUS
    <2>1. /\ captured = 0 /\ taken = 0 /\ stops = 0 /\ ~irq
          /\ stats.I2S_Discared = 0 /\ Pending = 0
      BY DEF Init, Pending
    <2>2. Len(i2s_in) = 0
      BY NoChunk DEF Init
    <2>3. MicInv
      BY <2>1, <2>2 DEF MicInv
    <2>4. Mic!Init
      BY <2>1 DEF Mic!Init
    <2> QED BY <2>3, <2>4
  <1>2. TypeOK /\ DriverInv /\ [Next]_vars => TypeOK' /\ DriverInv'
    BY TypeStep, DriverStep
  <1>3. TypeOK /\ DriverInv /\ MicInv /\ [Next]_vars => MicInv'
    BY MicStep
  <1>4. TypeOK /\ DriverInv /\ MicInv /\ [Next]_vars
          => [Mic!Next]_<<captured, taken, MicLossy>>
    BY MicRefines
  <1>5. TypeOK /\ DriverInv /\ MicInv /\ [Next]_vars
          => [Mic!Next]_<<captured, taken, stats.I2S_Discared > 0 \/ stops > 0>>
    BY <1>4 DEF MicLossy
  <1> QED BY <1>1, <1>2, <1>3, <1>5, DriverInit, PTL DEF Spec, MicStream, Mic!Spec
-----------------------------------------------------------------------------
(* The other direction.  A chunk is ready when it stands in the half-buffer *)
(* that the streaming peripheral will send next.                            *)
ChunkReady == drv = "ON" /\ ~irq /\ txBuf[next] # Silence
Ready == IF ChunkReady THEN 1 ELSE 0

SpeakerInv ==
    /\ heard <= made
    /\ \A j \in 1..Len(i2s_out) : heard < i2s_out[j] /\ i2s_out[j] <= made
    /\ \A j, k \in 1..Len(i2s_out) : j < k => i2s_out[j] < i2s_out[k]
    /\ ChunkReady =>
         /\ heard < txBuf[next] /\ txBuf[next] <= made
         /\ \A j \in 1..Len(i2s_out) : txBuf[next] < i2s_out[j]
    /\ stops = 0 =>
         /\ made = heard + Ready + Len(i2s_out)
         /\ \A j \in 1..Len(i2s_out) : i2s_out[j] = heard + Ready + j
         /\ ChunkReady => txBuf[next] = heard + 1
    /\ Recorder => \A b \in Half : txBuf[b] = Silence

speakerVars == <<i2s_out, txBuf, next, irq, drv, heard, made, stops>>

LEMMA SpeakerTypes ==
    ASSUME TypeOK
    PROVE  /\ made \in Nat /\ heard \in Nat /\ stops \in Nat /\ Ready \in 0..1
           /\ i2s_out \in Seq(Nat) /\ Len(i2s_out) \in Nat
           /\ \A j \in 1..Len(i2s_out) : i2s_out[j] \in Nat
           /\ txBuf \in [Half -> Nat]
  <1>1. made \in Nat /\ heard \in Nat /\ stops \in Nat
    BY AudioAssumption DEF TypeOK
  <1>2. Ready \in 0..1
    BY DEF Ready
  <1>3. i2s_out \in Seq(Nat) /\ txBuf \in [Half -> Nat]
    BY DEF TypeOK
  <1> QED BY <1>1, <1>2, <1>3

(* The steps that touch this direction.                                     *)
LEMMA SpeakerCases ==
    ASSUME TypeOK, DriverInv, [Next]_vars
    PROVE  \/ HwLatch \/ HwStopped \/ Isr \/ StartStream \/ StopStream \/ TxSpeaker
           \/ UNCHANGED speakerVars
  <1>1. CASE StartCall
    BY <1>1 DEF StartCall, speakerVars, buffers, txSide
  <1>2. CASE StopState
    BY <1>2 DEF StopState, speakerVars, buffers, txSide
  <1>3. CASE RxThread
    BY <1>3 DEF RxThread, RxGather, RxEncode, speakerVars, driver, buffers, txSide
  <1>4. CASE TxDecode \/ TxStation \/ TxSecond
    BY <1>4 DEF TxDecode, TxStation, TxSecond, PutChunk,
                speakerVars, driver, buffers, txSide
  <1>5. CASE StationReceive
    BY <1>5 DEF StationReceive, speakerVars, driver, buffers, txSide
  <1>6. CASE UNCHANGED vars
    BY <1>6 DEF vars, speakerVars, driver, buffers, txSide
  <1> QED BY <1>1, <1>2, <1>3, <1>4, <1>5, <1>6 DEF Next, Driver, TxThread

(* The interrupt hands over the half-buffer that is free.                   *)
LEMMA IsrSpeaker ==
    ASSUME TypeOK, DriverInv, Isr
    PROVE  /\ drv = "ON" /\ drv' = "ON" /\ irq /\ ~irq'
           /\ heard' = heard /\ made' = made /\ stops' = stops
           /\ next' \in Half /\ TxRequested(next')
  <1>1. /\ irq /\ ~irq' /\ drv' = drv
        /\ heard' = heard /\ made' = made /\ stops' = stops
    BY DEF Isr, driver
  <1>2. drv = "ON" /\ next \in Half /\ m_state = "RUNNING"
    BY <1>1 DEF DriverInv
  <1>3. CASE current = NoBuf
    BY <1>1, <1>2, <1>3 DEF Isr, Half, NoBuf
  <1>4. CASE current # NoBuf
    <2>1. current \in Half
      BY <1>4 DEF TypeOK
    <2>2. next' = current /\ TxRequested(current)
      BY <1>2, <1>4 DEF Isr, Half, NoBuf
    <2> QED BY <1>1, <1>2, <2>1, <2>2
  <1> QED BY <1>3, <1>4

LEMMA SpeakerStep ==
    ASSUME TypeOK, DriverInv, SpeakerInv, [Next]_vars
    PROVE  SpeakerInv'
  <1>t. /\ made \in Nat /\ heard \in Nat /\ stops \in Nat /\ Ready \in 0..1
        /\ i2s_out \in Seq(Nat) /\ Len(i2s_out) \in Nat
        /\ \A j \in 1..Len(i2s_out) : i2s_out[j] \in Nat
        /\ txBuf \in [Half -> Nat]
    BY SpeakerTypes
  <1>1. CASE HwLatch
    <2>1. /\ UNCHANGED <<i2s_out, txBuf, next, drv, made, stops>>
          /\ drv = "ON" /\ ~irq /\ irq'
      BY <1>1 DEF HwLatch, txSide, driver
    <2>2. next \in Half /\ next # NoBuf
      BY <2>1 DEF DriverInv, Half, NoBuf
    <2>3. heard' = IF txBuf[next] = Silence THEN heard ELSE txBuf[next]
      BY <1>1, <2>2, Zenon DEF HwLatch
    <2>4. ~ChunkReady' /\ Ready' = 0
      BY <2>1 DEF ChunkReady, Ready
    <2>5. CASE ChunkReady
      <3>1. heard' = txBuf[next] /\ Ready = 1 /\ txBuf[next] \in Nat
        BY <1>t, <2>2, <2>3, <2>5 DEF ChunkReady, Ready
      <3>2. /\ heard' <= made
            /\ \A j \in 1..Len(i2s_out) : heard' < i2s_out[j] /\ i2s_out[j] <= made
        BY <2>5, <3>1 DEF SpeakerInv
      <3>3. ASSUME stops = 0
            PROVE  /\ made = heard' + 0 + Len(i2s_out)
                   /\ \A j \in 1..Len(i2s_out) : i2s_out[j] = heard' + 0 + j
        <4>1. /\ made = heard + Ready + Len(i2s_out)
              /\ \A j \in 1..Len(i2s_out) : i2s_out[j] = heard + Ready + j
              /\ txBuf[next] = heard + 1
          BY <2>5, <3>3 DEF SpeakerInv
        <4> QED BY <1>t, <3>1, <4>1
      <3> QED BY <2>1, <2>4, <3>2, <3>3 DEF SpeakerInv
    <2>6. CASE ~ChunkReady
      <3>1. heard' = heard /\ Ready = 0
        BY <2>1, <2>3, <2>6 DEF ChunkReady, Ready
      <3> QED BY <1>t, <2>1, <2>4, <2>6, <3>1 DEF SpeakerInv
    <2> QED BY <2>5, <2>6
  <1>2. CASE HwStopped
    <2>1. /\ drv # "ON" /\ drv' # "ON"
          /\ UNCHANGED <<i2s_out, txBuf, heard, made, stops>>
      BY <1>2 DEF HwStopped, buffers, txSide
    <2>2. ~ChunkReady /\ ~ChunkReady' /\ Ready' = Ready
      BY <2>1 DEF ChunkReady, Ready
    <2> QED BY <2>1, <2>2 DEF SpeakerInv
  <1>3. CASE Isr
    <2>1. /\ drv' = "ON" /\ irq /\ ~irq'
          /\ heard' = heard /\ made' = made /\ stops' = stops
          /\ next' \in Half /\ TxRequested(next')
      BY <1>3, IsrSpeaker
    <2>2. ~ChunkReady /\ Ready = 0
      BY <2>1 DEF ChunkReady, Ready
    <2>3. CASE Recorder
      <3>1. i2s_out' = i2s_out /\ txBuf' = txBuf
        BY <2>1, <2>3 DEF TxRequested
      <3>2. txBuf'[next'] = Silence
        BY <2>1, <2>3, <3>1 DEF SpeakerInv
      <3>3. ~ChunkReady' /\ Ready' = 0
        BY <3>2 DEF ChunkReady, Ready
      <3> QED BY <2>1, <2>2, <3>1, <3>3 DEF SpeakerInv
    <2>4. CASE ~Recorder /\ i2s_out = <<>>
      <3>1. i2s_out' = i2s_out /\ txBuf' = [txBuf EXCEPT ![next'] = Silence]
        BY <2>1, <2>4, Zenon DEF TxRequested
      <3>2. txBuf'[next'] = Silence
        BY <1>t, <2>1, <3>1
      <3>3. ~ChunkReady' /\ Ready' = 0
        BY <3>2 DEF ChunkReady, Ready
      <3> QED BY <2>1, <2>2, <2>4, <3>1, <3>3 DEF SpeakerInv
    <2>5. CASE ~Recorder /\ i2s_out # <<>>
      <3>1. i2s_out' = Tail(i2s_out) /\ txBuf' = [txBuf EXCEPT ![next'] = Head(i2s_out)]
        BY <2>1, <2>5 DEF TxRequested
      <3>2. /\ Len(i2s_out) \in Nat \ {0} /\ Len(i2s_out') = Len(i2s_out) - 1
            /\ \A j \in 1..Len(i2s_out') : i2s_out'[j] = i2s_out[j + 1]
            /\ Head(i2s_out) = i2s_out[1]
        BY <1>t, <2>5, <3>1, TailChunk
      <3>3. txBuf'[next'] = i2s_out[1]
        BY <1>t, <2>1, <3>1, <3>2
      <3>4. /\ 1 \in 1..Len(i2s_out)
            /\ \A j \in 1..Len(i2s_out') : j + 1 \in 1..Len(i2s_out) /\ 1 < j + 1
        BY <1>t, <3>2
      <3>5. heard < txBuf'[next'] /\ txBuf'[next'] <= made
        BY <3>3, <3>4 DEF SpeakerInv
      <3>6. ChunkReady' /\ Ready' = 1
        BY <1>t, <2>1, <3>3, <3>4, <3>5 DEF ChunkReady, Ready, Silence
      <3>7. \A j \in 1..Len(i2s_out') : /\ heard < i2s_out'[j] /\ i2s_out'[j] <= made
                                        /\ txBuf'[next'] < i2s_out'[j]
        BY <3>2, <3>3, <3>4 DEF SpeakerInv
      <3>8. \A j, k \in 1..Len(i2s_out') : j < k => i2s_out'[j] < i2s_out'[k]
        <4> SUFFICES ASSUME NEW j \in 1..Len(i2s_out'),
                            NEW k \in 1..Len(i2s_out'), j < k
                     PROVE  i2s_out'[j] < i2s_out'[k]
          OBVIOUS
        <4>1. j + 1 < k + 1 /\ j + 1 \in 1..Len(i2s_out) /\ k + 1 \in 1..Len(i2s_out)
          BY <3>4
        <4> QED BY <3>2, <4>1 DEF SpeakerInv
      <3>9. ASSUME stops = 0
            PROVE  /\ made = heard + 1 + Len(i2s_out')
                   /\ \A j \in 1..Len(i2s_out') : i2s_out'[j] = heard + 1 + j
                   /\ txBuf'[next'] = heard + 1
        <4>1. /\ made = heard + Ready + Len(i2s_out)
              /\ \A j \in 1..Len(i2s_out) : i2s_out[j] = heard + Ready + j
          BY <3>9 DEF SpeakerInv
        <4> QED BY <1>t, <2>2, <3>2, <3>3, <3>4, <4>1
      <3> QED BY <2>1, <2>5, <3>5, <3>6, <3>7, <3>8, <3>9 DEF SpeakerInv
    <2> QED BY <2>3, <2>4, <2>5
  <1>4. CASE StartStream
    <2>1. /\ UNCHANGED <<i2s_out, heard, made, stops>>
          /\ txBuf' = [txBuf EXCEPT ![0] = Silence]
          /\ drv # "ON"
          /\ drv' # "ON" \/ next' = 0
      BY <1>4 DEF StartStream, txSide, DriverInv
    <2>2. txBuf'[0] = Silence
      BY <1>t, <2>1 DEF Half
    <2>3. ~ChunkReady /\ ~ChunkReady' /\ Ready = 0 /\ Ready' = 0
      BY <2>1, <2>2 DEF ChunkReady, Ready
    <2>4. Recorder => \A b \in Half : txBuf'[b] = Silence
      BY <1>t, <2>1 DEF SpeakerInv
    <2> QED BY <2>1, <2>3, <2>4 DEF SpeakerInv
  <1>5. CASE StopStream
    <2>1. /\ UNCHANGED <<i2s_out, txBuf, heard, made>>
          /\ drv' # "ON" /\ stops' = stops + 1
      BY <1>5 DEF StopStream, txSide
    <2>2. ~ChunkReady' /\ stops' # 0
      BY <1>t, <2>1 DEF ChunkReady
    <2> QED BY <2>1, <2>2 DEF SpeakerInv
  <1>6. CASE TxSpeaker
    <2>1. /\ i2s_out' = Append(i2s_out, made + 1) /\ made' = made + 1
          /\ UNCHANGED <<txBuf, next, irq, drv, heard, stops>>
      BY <1>6 DEF TxSpeaker, PutChunk, driver, buffers
    <2>2. /\ Len(i2s_out') = Len(i2s_out) + 1
          /\ \A j \in 1..Len(i2s_out) : i2s_out'[j] = i2s_out[j]
          /\ i2s_out'[Len(i2s_out) + 1] = made + 1
      BY <1>t, <2>1, AppendChunk
    <2>3. /\ \A j \in 1..Len(i2s_out') : j = Len(i2s_out) + 1 \/ j \in 1..Len(i2s_out)
          /\ (ChunkReady' <=> ChunkReady) /\ Ready' = Ready
      BY <1>t, <2>1, <2>2 DEF ChunkReady, Ready
    <2>4. ASSUME NEW j \in 1..Len(i2s_out')
          PROVE  /\ heard < i2s_out'[j] /\ i2s_out'[j] <= made'
                 /\ ChunkReady => txBuf[next] < i2s_out'[j]
                 /\ stops = 0 => i2s_out'[j] = heard + Ready + j
      <3>1. CASE j = Len(i2s_out) + 1
        <4>1. heard <= made /\ (ChunkReady => txBuf[next] <= made)
              /\ (stops = 0 => made = heard + Ready + Len(i2s_out))
          BY DEF SpeakerInv
        <4>2. ChunkReady => txBuf[next] \in Nat
          BY <1>t DEF ChunkReady, DriverInv
        <4> QED BY <1>t, <2>1, <2>2, <3>1, <4>1, <4>2
      <3>2. CASE j \in 1..Len(i2s_out)
        <4>1. /\ heard < i2s_out[j] /\ i2s_out[j] <= made
              /\ ChunkReady => txBuf[next] < i2s_out[j]
              /\ stops = 0 => i2s_out[j] = heard + Ready + j
          BY <3>2 DEF SpeakerInv
        <4> QED BY <1>t, <2>1, <2>2, <3>2, <4>1
      <3> QED BY <2>3, <3>1, <3>2
    <2>5. ASSUME NEW j \in 1..Len(i2s_out'), NEW k \in 1..Len(i2s_out'), j < k
          PROVE  i2s_out'[j] < i2s_out'[k]
      <3>1. j \in 1..Len(i2s_out)
        BY <1>t, <2>2, <2>5
      <3>2. CASE k = Len(i2s_out) + 1
        <4>1. i2s_out[j] <= made /\ i2s_out[j] \in Nat
          BY <1>t, <3>1 DEF SpeakerInv
        <4> QED BY <1>t, <2>2, <3>1, <3>2, <4>1
      <3>3. CASE k \in 1..Len(i2s_out)
        <4>1. i2s_out[j] < i2s_out[k]
          BY <2>5, <3>1, <3>3 DEF SpeakerInv
        <4> QED BY <2>2, <3>1, <3>3, <4>1
      <3> QED BY <2>3, <3>2, <3>3
    <2>6. /\ heard <= made'
          /\ ChunkReady => heard < txBuf[next] /\ txBuf[next] <= made'
          /\ stops = 0 => made' = heard + Ready + Len(i2s_out')
          /\ stops = 0 /\ ChunkReady => txBuf[next] = heard + 1
          /\ Recorder => \A b \in Half : txBuf[b] = Silence
      <3>1. ChunkReady => txBuf[next] \in Nat
        BY <1>t DEF ChunkReady, DriverInv
      <3> QED BY <1>t, <2>1, <2>2, <3>1 DEF SpeakerInv
    <2> QED BY <2>1, <2>3, <2>4, <2>5, <2>6 DEF SpeakerInv
  <1>7. CASE UNCHANGED speakerVars
    BY <1>7 DEF speakerVars, SpeakerInv, ChunkReady, Ready
  <1> QED BY <1>1, <1>2, <1>3, <1>4, <1>5, <1>6, <1>7, SpeakerCases

(* A step queues a chunk, sends one, is a stop, or does none of it.         *)
LEMMA SpeakerRefines ==
    ASSUME TypeOK, DriverInv, SpeakerInv, [Next]_vars
    PROVE  [Speaker!Next]_<<made, heard, stops > 0>>
  <1>t. /\ made \in Nat /\ heard \in Nat /\ stops \in Nat /\ Ready \in 0..1
        /\ i2s_out \in Seq(Nat) /\ Len(i2s_out) \in Nat
        /\ \A j \in 1..Len(i2s_out) : i2s_out[j] \in Nat
        /\ txBuf \in [Half -> Nat]
    BY SpeakerTypes
  <1>s. ASSUME UNCHANGED <<made, heard, stops>>
        PROVE  [Speaker!Next]_<<made, heard, stops > 0>>
    BY <1>s
  <1>1. CASE HwLatch
    <2>1. made' = made /\ stops' = stops /\ drv = "ON" /\ ~irq
      BY <1>1 DEF HwLatch, txSide, driver
    <2>2. next \in Half /\ next # NoBuf
      BY <2>1 DEF DriverInv, Half, NoBuf
    <2>3. heard' = IF txBuf[next] = Silence THEN heard ELSE txBuf[next]
      BY <1>1, <2>2, Zenon DEF HwLatch
    <2>4. CASE txBuf[next] = Silence
      BY <1>s, <2>1, <2>3, <2>4
    <2>5. CASE txBuf[next] # Silence
      <3>1. ChunkReady /\ heard' = txBuf[next] /\ txBuf[next] \in Nat
        BY <1>t, <2>1, <2>2, <2>3, <2>5 DEF ChunkReady
      <3>2. heard' \in (heard + 1)..made
        BY <1>t, <3>1 DEF SpeakerInv
      <3>3. stops > 0 \/ heard' = heard + 1
        BY <1>t, <3>1 DEF SpeakerInv
      <3> QED BY <2>1, <3>2, <3>3 DEF Speaker!Next, Speaker!Deliver
    <2> QED BY <2>4, <2>5
  <1>2. CASE HwStopped
    BY <1>s, <1>2 DEF HwStopped, txSide
  <1>3. CASE Isr
    BY <1>s, <1>3, IsrSpeaker
  <1>4. CASE StartStream
    BY <1>s, <1>4 DEF StartStream, txSide
  <1>5. CASE StopStream
    <2>1. made' = made /\ heard' = heard /\ stops' = stops + 1
      BY <1>5 DEF StopStream, txSide
    <2>2. (stops > 0)' = TRUE
      BY <1>t, <2>1
    <2> QED BY <2>1, <2>2 DEF Speaker!Next, Speaker!Lose
  <1>6. CASE TxSpeaker
    <2>1. made' = made + 1 /\ heard' = heard /\ stops' = stops
      BY <1>6 DEF TxSpeaker, PutChunk, driver
    <2> QED BY <2>1 DEF Speaker!Next, Speaker!Send
  <1>7. CASE UNCHANGED speakerVars
    BY <1>s, <1>7 DEF speakerVars
  <1> QED BY <1>1, <1>2, <1>3, <1>4, <1>5, <1>6, <1>7, SpeakerCases

(* Refinement: the way from the tx thread to the line implements the        *)
(* abstract stream: what is sent is in order, never repeated, and complete  *)
(* unless the driver was stopped.                                           *)
THEOREM SpeakerStreamCorrect == Spec => SpeakerStream
  <1>1. Init => SpeakerInv /\ Speaker!Init
    <2> SUFFICES ASSUME Init PROVE SpeakerInv /\ Speaker!Init
      OBVIOUS
    <2>1. /\ made = 0 /\ heard = 0 /\ stops = 0 /\ drv # "ON"
          /\ txBuf = [b \in Half |-> Silence]
      BY DEF Init
    <2>2. Len(i2s_out) = 0
      BY NoChunk DEF Init
    <2>3. ~ChunkReady /\ Ready = 0
      BY <2>1 DEF ChunkReady, Ready
    <2>4. SpeakerInv
      BY <2>1, <2>2, <2>3 DEF SpeakerInv
    <2>5. Speaker!Init
      BY <2>1 DEF Speaker!Init
    <2> QED BY <2>4, <2>5
  <1>2. TypeOK /\ DriverInv /\ [Next]_vars => TypeOK' /\ DriverInv'
    BY TypeStep, DriverStep
  <1>3. TypeOK /\ DriverInv /\ SpeakerInv /\ [Next]_vars => SpeakerInv'
    BY SpeakerStep
  <1>4. TypeOK /\ DriverInv /\ SpeakerInv /\ [Next]_vars
          => [Speaker!Next]_<<made, heard, stops > 0>>
    BY SpeakerRefines
  <1> QED BY <1>1, <1>2, <1>3, <1>4, DriverInit, PTL
          DEF Spec, SpeakerStream, Speaker!Spec
=============================================================================
