------------------------------ MODULE OpusDecoder ------------------------------
(***************************************************************************)
(* The Opus decoder (opus_decoder.c): which of its two coders, SILK for    *)
(* speech and CELT, decodes or conceals what, in which order, and on which *)
(* state of that coder.  A call of opus_decode is several steps here, one  *)
(* for each frame that it decodes or conceals.                             *)
(*                                                                         *)
(* Durations are in units of 2.5 ms.  Samples are left out, but not how    *)
(* many are written and how many there is room for; so are the bandwidth   *)
(* and the channels, which only the coders look at.                        *)
(***************************************************************************)
EXTENDS Integers

CONSTANTS
    FixedPoint,  \* the build: CELT adds to the output of SILK in place
    Rooms,       \* frame_size that a caller gives
    MaxCount     \* bound: frames in a packet

OpusDecoderAssumption ==
    /\ FixedPoint \in BOOLEAN
    /\ Rooms \subseteq Nat \ {0}
    /\ MaxCount \in Nat

VARIABLES
    st,      \* OpusDecoder
    silk,    \* what the state of the SILK st is worth: "fresh" after a
    celt,    \*   reset, "stale" when the other coder did the last frame
    job,     \* the call of opus_decode in progress
    uses,    \* history: what the last frame asked of the coders
    last     \* history: what the last successful call returned
vars == <<st, silk, celt, job, uses, last>>

Worth == {"fresh", "current", "stale"}
Modes == {"silk", "hybrid", "celt"}
F2_5 == 1
F5 == 2
F10 == 4
F20 == 8
FrameSizes(mode) ==
    CASE mode = "silk" -> {4, 8, 16, 24}
      [] mode = "hybrid" -> {4, 8}
      [] mode = "celt" -> {1, 2, 4, 8}
Shorter(m, n) == IF m < n THEN m ELSE n
Longer(m, n) == IF m < n THEN n ELSE m

------------------------------------------------------------------------------
(* What opus_decode_frame asks of the coders.  d is the decoder with its    *)
(* coders and the uses so far.                                              *)
Decoder == [st |-> st, silk |-> silk, celt |-> celt, uses |-> {}]

SilkReset(d) ==
    [d EXCEPT !.silk = IF d.st.prev_mode = "celt" THEN "fresh" ELSE @]

(* One call of silk_Decode after another until the frame is full; "the SILK *)
(* PLC cannot produce frames of less than 10 ms".                           *)
Silk(d, mode, frame, room) ==
    LET e == SilkReset(d)
        payload == Longer(F10, frame)
        chunk == Shorter(F20, payload)
        use == [coder |-> "silk", size |-> payload, on |-> e.silk,
                writes |-> chunk * ((frame + chunk - 1) \div chunk),
                room |-> IF FixedPoint /\ room >= F10 THEN room ELSE payload]
    IN  IF mode = "celt" THEN d
        ELSE [e EXCEPT !.silk = "current", !.uses = @ \cup {use}]

Celt(d, size, room, kind) ==
    [d EXCEPT !.celt = "current",
              !.uses = @ \cup {[coder |-> kind, size |-> size, on |-> d.celt,
                                writes |-> size, room |-> room]}]

(* "Make sure to discard any previous CELT state".                          *)
CeltDiscard(d, mode) ==
    IF mode # d.st.prev_mode /\ d.st.prev_mode # "none" /\ ~d.st.prev_redundancy
    THEN [d EXCEPT !.celt = "fresh"] ELSE d

(* Hybrid to SILK: CELT fades out over a silence.                           *)
CeltMain(d, mode, frame, room, red) ==
    CASE mode # "silk" ->
           Celt(CeltDiscard(d, mode), Shorter(F20, frame), room, "celt")
      [] mode = "silk" /\ d.st.prev_mode = "hybrid"
           /\ ~(red = "to_silk" /\ d.st.prev_redundancy) ->
           Celt(d, F2_5, room, "fade")
      [] OTHER -> d

RememberSticky(d, mode, red) ==
    [d EXCEPT !.st.prev_mode = mode,
              !.st.prev_redundancy = @ \/ red = "to_celt"]
Remember(d, mode, red) ==
    [d EXCEPT !.st.prev_mode = mode, !.st.prev_redundancy = red = "to_celt"]

(* The coder that had no part in a frame falls behind.                      *)
Behind(d, mode, red) ==
    [d EXCEPT !.silk = IF mode = "celt" THEN "stale" ELSE @,
              !.celt = IF mode = "silk" /\ red # "to_celt" THEN "stale" ELSE @]

------------------------------------------------------------------------------
(* Concealment, of at most 20 ms at a time.                                 *)
ConcealSize(mode, n) ==
    CASE n > F10 /\ n < F20 -> F10
      [] mode # "silk" /\ n > F5 /\ n < F10 -> F5
      [] OTHER -> n

ConcealShort(d, n) ==
    LET mode == d.st.prev_mode
        size == ConcealSize(mode, n)
        e == CeltMain(Silk(d, mode, size, n), mode, size, n, "none")
    IN  [dec |-> Remember(e, mode, "none"), ret |-> size]

(* One call after another until nothing is left of n, in at most n rounds.  *)
ConcealMore(c) ==
    IF c.left <= 0 THEN c
    ELSE LET more == ConcealShort(c.dec, Shorter(c.left, F20))
         IN  [dec |-> more.dec, left |-> c.left - more.ret]
ConcealLong(d, n) ==
    LET after[i \in 0..n] ==
            IF i = 0 THEN [dec |-> d, left |-> n] ELSE ConcealMore(after[i - 1])
    IN  after[n].dec

(* opus_decode_frame without data: "don't conceal more than what the ToC    *)
(* says"; before the first packet there is only silence.                    *)
LimitNone(d, n) == n
Limit(d, n) == Shorter(n, d.st.frame_size)
Conceal(d, room) ==
    LET n == Limit(d, Shorter(room, 48))
        c == IF n > F20 THEN [dec |-> ConcealLong(d, n), ret |-> n]
             ELSE ConcealShort(d, n)
    IN  IF d.st.prev_mode = "none" THEN [dec |-> d, ret |-> n]
        ELSE [c EXCEPT !.dec = Behind(@, d.st.prev_mode, "none")]

(* opus_decode_frame with data.  When CELT begins, what went before goes on *)
(* for 5 ms to fade into it; when it ends too, but after SILK has begun.    *)
Fades(d, mode) ==
    /\ d.st.prev_mode # "none"
    /\ \/ mode = "celt" /\ d.st.prev_mode # "celt" /\ ~d.st.prev_redundancy
       \/ mode # "celt" /\ d.st.prev_mode = "celt"
Fade(d, size) == ConcealShort(d, Shorter(F5, size)).dec

DecodeFrame(d, room, red) ==
    LET mode == d.st.mode
        size == d.st.frame_size
        a == IF Fades(d, mode) /\ mode = "celt" THEN Fade(d, size) ELSE d
        b == Silk(a, mode, size, room)
        c == IF Fades(d, mode) /\ mode # "celt" /\ red = "none"
             THEN Fade(b, size) ELSE b
        e == IF red = "to_silk" THEN Celt(c, F5, F5, "redundant") ELSE c
        f == CeltMain(e, mode, size, room, red)
        g == IF red # "to_celt" THEN f
             ELSE Celt([f EXCEPT !.celt = "fresh"], F5, F5, "redundant")
    IN  [dec |-> Behind(Remember(g, mode, red), mode, red), ret |-> size]

------------------------------------------------------------------------------
(* opus_decode_native.                                                      *)
Packet == [mode : Modes, size : UNION {FrameSizes(m) : m \in Modes},
           count : 1..MaxCount]
Packets ==
    {p \in Packet : p.size \in FrameSizes(p.mode) /\ p.count * p.size <= 48}

Idle == [call |-> "none"]
Begin(call, conceal, p, room, goal) ==
    [call |-> call, conceal |-> conceal, packet |-> p, frames |-> p.count,
     room |-> room, done |-> 0, goal |-> goal]

Becomes(d) == st' = d.st /\ silk' = d.silk /\ celt' = d.celt /\ uses' = d.uses
Returns(n, d) ==
    job' = Idle /\ last' = n /\ Becomes([d EXCEPT !.st.duration = n])

Cleared == [mode |-> "none", prev_mode |-> "none", prev_redundancy |-> FALSE,
            frame_size |-> F2_5, duration |-> 0]
Init ==
    /\ st = Cleared /\ silk = "fresh" /\ celt = "fresh"
    /\ job = Idle /\ uses = {} /\ last = 0

(* OPUS_RESET_STATE.                                                        *)
Reset ==
    /\ job = Idle
    /\ st' = Cleared /\ silk' = "fresh" /\ celt' = "fresh"
    /\ uses' = {} /\ last' = 0
    /\ UNCHANGED job

With(d, p) == [d EXCEPT !.st.mode = p.mode, !.st.frame_size = p.size]
Keep == UNCHANGED <<st, silk, celt, uses, last>>

(* A packet was lost: no data.                                              *)
Lost ==
    /\ job = Idle
    /\ \E room \in Rooms : job' = Begin("conceal", room, [count |-> 0], room, room)
    /\ Keep

(* Too large a packet is refused before anything is changed.                *)
Receive ==
    /\ job = Idle
    /\ \E p \in Packets, room \in Rooms :
         /\ p.count * p.size <= room
         /\ job' = Begin("frames", 0, p, room, p.count * p.size)
         /\ Becomes([With(Decoder, p) EXCEPT !.uses = {}])
    /\ UNCHANGED last

(* The copy of a lost frame that the next packet carries: what precedes it  *)
(* is concealed, or all where there can be no copy.                         *)
Recover ==
    /\ job = Idle
    /\ \E p \in Packets, room \in Rooms :
         job' = IF room < p.size \/ p.mode = "celt" \/ st.mode = "celt"
                THEN Begin("conceal", room, [count |-> 0], room, room)
                ELSE Begin("fec", room - p.size, [p EXCEPT !.count = 1], room, room)
    /\ Keep

ConcealFrame ==
    /\ job # Idle /\ job.call \in {"conceal", "fec"} /\ job.conceal > 0
    /\ LET c == Conceal(Decoder, job.conceal)
           done == job.done + c.ret
           d == IF c.ret # job.conceal THEN c.dec
                ELSE [c.dec EXCEPT !.st.duration = done]
       IN  IF job.call = "conceal" /\ done = job.goal THEN Returns(done, d)
           ELSE /\ job' = [job EXCEPT !.conceal = @ - c.ret, !.done = done]
                /\ Becomes(d) /\ UNCHANGED last

(* A frame of CELT has no redundancy, one of SILK may have it.              *)
Redundancies == IF st.mode = "celt" THEN {"none"} ELSE {"none", "to_silk", "to_celt"}

(* Frames of one byte or none are concealed.                                *)
Frame ==
    /\ job # Idle /\ job.call = "frames" /\ job.frames > 0
    /\ \E c \in {Conceal(Decoder, job.room - job.done)} \cup
                {DecodeFrame(Decoder, job.room - job.done, red) : red \in Redundancies} :
         LET done == job.done + c.ret IN
         IF job.frames = 1 /\ done = job.goal THEN Returns(done, c.dec)
         ELSE /\ job' = [job EXCEPT !.frames = @ - 1, !.done = done]
              /\ Becomes(c.dec) /\ UNCHANGED last

(* SILK refuses a frame before CELT sees it; an error of CELT is returned   *)
(* when the frame is over and its mode remembered.                          *)
SilkRefused ==
    /\ st.mode # "celt"
    /\ Becomes(Silk(Decoder, st.mode, st.frame_size, job.room - job.done))
CeltRefused ==
    /\ st.mode # "silk"
    /\ \E red \in Redundancies :
         Becomes(DecodeFrame(Decoder, job.room - job.done, red).dec)
FrameRefused ==
    /\ job # Idle /\ job.call = "frames"
    /\ SilkRefused \/ CeltRefused
    /\ job' = Idle /\ UNCHANGED last

FecFrame ==
    /\ job # Idle /\ job.call = "fec" /\ job.conceal = 0
    /\ LET d == With(Decoder, job.packet) IN
       \E c \in {Conceal(d, job.packet.size),
                 DecodeFrame(d, job.packet.size, "none")} :
         Returns(job.room, c.dec)

Next ==
    \/ Reset \/ Lost \/ Receive \/ Recover
    \/ ConcealFrame \/ Frame \/ FrameRefused \/ FecFrame
Spec == Init /\ [][Next]_vars

------------------------------------------------------------------------------
TypeOK ==
    /\ st.mode \in Modes \cup {"none"} /\ st.prev_mode \in Modes \cup {"none"}
    /\ st.frame_size \in UNION {FrameSizes(m) : m \in Modes}
    /\ st.duration \in Nat
    /\ silk \in Worth /\ celt \in Worth

(* A coder is only asked for frames of a size it has, and decodes a frame   *)
(* of a stream that it left, to the other coder, only after a reset: an old *)
(* state never colours the frames after a change of mode.  The 5 ms of      *)
(* redundancy and the silence that CELT fades out over are not such frames: *)
(* they may go on from any state.                                           *)
NoStaleState ==
    \A u \in uses :
      /\ u.size \in IF u.coder = "silk" THEN {4, 8, 16, 24} ELSE {1, 2, 4, 8}
      /\ u.coder \in {"silk", "celt"} => u.on # "stale"

(* The assertions of opus_decode_native: concealment yields exactly what    *)
(* was asked for, and a packet what its header says, frame by frame; nobody *)
(* writes beyond the room there is; the duration that can be asked for is   *)
(* that of the last call that succeeded.                                    *)
WholeCalls ==
    /\ \A u \in uses : u.writes <= u.room
    /\ job = Idle => st.duration = last
    /\ job # Idle =>
         IF job.call = "frames"
         THEN job.goal - job.done = job.frames * st.frame_size
         ELSE /\ job.conceal >= 0
              /\ job.done + job.conceal
                   + (IF job.call = "fec" THEN job.packet.size ELSE 0) = job.goal
==============================================================================
