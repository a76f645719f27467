------------------------------ MODULE OpusPacket ------------------------------
(***************************************************************************)
(* The packets of Opus (opus.c, repacketizer.c): the header that gives the *)
(* number and the lengths of the frames, the repacketizer that merges      *)
(* packets, splits them and pads them in place, and the parser.            *)
(*                                                                         *)
(* Of a packet the bytes of the header are kept, and its length: the       *)
(* frames follow the header in order and the padding follows them.  Where  *)
(* the parser looks beyond the header it finds the bytes of a frame, for   *)
(* which 0 stands; a read beyond the length has no value.                  *)
(***************************************************************************)
EXTENDS Integers, SequencesExt

CONSTANTS
    Tocs,       \* the configurations: first bytes with a frame count code of 0
    Lengths,    \* bytes of a frame, of none (DTX) to 1275
    Received,   \* packets that no repacketizer made
    Room,       \* how many more bytes than needed a caller asks for
    Paddings,   \* bound: what padding a packet may have that is padded again
    MaxFrames   \* bound: frames put into a repacketizer

OpusPacketAssumption ==
    /\ \A toc \in Tocs : toc \in 0..255 /\ toc % 4 = 0
    /\ Lengths \subseteq 0..1275
    /\ \A p \in Received : p.head \in Seq(0..255) /\ p.head # <<>> /\ p.len \in Nat \ {0}
    /\ Room \subseteq Nat \ {0} /\ Paddings \subseteq Nat

VARIABLES
    rp,         \* OpusRepacketizer
    packet,     \* the packet last made or received
    made        \* history: the lengths of the frames it was made of
vars == <<rp, packet, made>>

------------------------------------------------------------------------------
Sum(s) ==
    LET upto[i \in 0..Len(s)] == IF i = 0 THEN 0 ELSE upto[i - 1] + s[i]
    IN  upto[Len(s)]

(* The element of a set of one: {F(c) : c \in {e}} computes e once.         *)
Only(S) == CHOOSE x \in S : TRUE

Byte(p, i) == IF i >= Len(p.head) /\ i < p.len THEN 0 ELSE p.head[i + 1]

(* Lengths from 252 on take two bytes.                                      *)
EncodeSizeRounded(n) == IF n < 252 THEN <<n>> ELSE <<252, (n - 252) \div 4>>
EncodeSize(n) ==
    IF n < 252 THEN <<n>> ELSE <<252 + (n % 4), (n - (252 + (n % 4))) \div 4>>

ParseSize(p, at, len) ==
    CASE len < 1 -> [bytes |-> -1, size |-> -1]
      [] len >= 1 /\ Byte(p, at) < 252 -> [bytes |-> 1, size |-> Byte(p, at)]
      [] len = 1 /\ Byte(p, at) >= 252 -> [bytes |-> -1, size |-> -1]
      [] len > 1 /\ Byte(p, at) >= 252 ->
           [bytes |-> 2, size |-> 4 * Byte(p, at + 1) + Byte(p, at)]

SamplesPerFrame(toc, Fs) ==
    LET config == (toc \div 8) % 4 IN
    CASE toc >= 128 -> (Fs * 2^config) \div 400
      [] toc \in 96..127 -> IF config % 2 = 1 THEN Fs \div 50 ELSE Fs \div 100
      [] toc < 96 /\ config = 3 -> (Fs * 60) \div 1000
      [] toc < 96 /\ config # 3 -> (Fs * 2^config) \div 100

NbFrames(p) ==
    CASE p.head[1] % 4 = 0 -> 1
      [] p.head[1] % 4 \in 1..2 -> 2
      [] p.head[1] % 4 = 3 -> IF p.len < 2 THEN -1 ELSE Byte(p, 1) % 64

------------------------------------------------------------------------------
(* opus_packet_parse_impl.  A cursor is where the parser is: the bytes left *)
(* without padding, and for the last frame; lengths read so far.            *)
Bad == [count |-> -1]
Cursor(count, cbr, at, len, last, sizes, pad) ==
    [count |-> count, cbr |-> cbr, at |-> at, len |-> len, last |-> last,
     sizes |-> sizes, pad |-> pad]

(* A padding byte of 255 stands for 254 bytes and another padding byte.     *)
SkipPadding(p, c) ==
    LET Stop(n) == c.len - 255 * n <= 0 \/ Byte(p, c.at + n) # 255
        n == CHOOSE n \in 0..c.len + 1 : Stop(n) /\ \A m \in 0..n - 1 : ~Stop(m)
        left == c.len - 255 * n
    IN  IF left <= 0 THEN Bad
        ELSE [c EXCEPT !.at = @ + n + 1, !.len = left - 1 - Byte(p, c.at + n),
                       !.pad = 254 * n + Byte(p, c.at + n)]

ReadSize(p, c) ==
    LET s == ParseSize(p, c.at, c.len) IN
    IF s.size < 0 \/ s.size > c.len - s.bytes THEN Bad
    ELSE [c EXCEPT !.at = @ + s.bytes, !.len = @ - s.bytes,
                   !.last = @ - s.bytes - s.size, !.sizes = Append(@, s.size)]

ReadSizes(p, c, n) ==
    LET after[i \in 0..n] ==
            IF i = 0 THEN c
            ELSE LET d == after[i - 1] IN IF d = Bad THEN Bad ELSE ReadSize(p, d)
    IN  after[n]

EvenSizes(c, sd) ==
    IF sd THEN c
    ELSE IF c.len % c.count # 0 THEN Bad
    ELSE [c EXCEPT !.last = c.len \div c.count,
                   !.sizes = [i \in 1..c.count - 1 |-> c.len \div c.count]]

ManyFrames(p, sd) ==
    LET count == Byte(p, 1) % 64
        start == Cursor(count, Byte(p, 1) < 128, 2, p.len - 2, p.len - 2, <<>>, 0)
        padded == IF (Byte(p, 1) \div 64) % 2 = 1 THEN SkipPadding(p, start) ELSE start
        c == [padded EXCEPT !.last = padded.len]
    IN  CASE p.len < 2 -> Bad
          [] p.len >= 2 /\ (count = 0 \/ SamplesPerFrame(p.head[1], 48000) * count > 5760)
               -> Bad
          [] OTHER ->
               IF padded = Bad \/ padded.len < 0 THEN Bad
               ELSE IF c.cbr THEN EvenSizes(c, sd)
               ELSE LET d == ReadSizes(p, c, count - 1) IN
                    IF d = Bad \/ d.last < 0 THEN Bad ELSE d

Lead(p, sd) ==
    LET start(n, cbr) == Cursor(n, cbr, 1, p.len - 1, p.len - 1, <<>>, 0) IN
    CASE p.head[1] % 4 = 0 -> start(1, FALSE)
      [] p.head[1] % 4 = 1 -> EvenSizes(start(2, TRUE), sd)
      [] p.head[1] % 4 = 2 -> ReadSize(p, start(2, FALSE))
      [] p.head[1] % 4 = 3 -> ManyFrames(p, sd)

(* The last length is what is left, or, of a self-delimited packet, given.  *)
LastSize(p, c, sd) ==
    LET s == ParseSize(p, c.at, c.len)
        left == c.len - s.bytes
        d == [c EXCEPT !.at = @ + s.bytes, !.len = left,
                       !.sizes = IF c.cbr THEN [i \in 1..c.count |-> s.size]
                                 ELSE Append(@, s.size)] IN
    IF ~sd THEN IF c.last > 1275 THEN Bad
                ELSE [c EXCEPT !.sizes = Append(@, c.last)]
    ELSE IF s.size < 0 \/ s.size > left THEN Bad
    ELSE IF c.cbr THEN IF s.size * c.count > left THEN Bad ELSE d
    ELSE IF s.bytes + s.size > c.last THEN Bad ELSE d

Parse(p, sd) ==
    IF p.len = 0 THEN Bad
    ELSE Only({IF c = Bad THEN Bad ELSE LastSize(p, c, sd) : c \in {Lead(p, sd)}})

------------------------------------------------------------------------------
(* opus_repacketizer_out_range_impl.  What a packet of these lengths is     *)
(* with the shortest header, and with one that counts them.                 *)
IsLong(n) == IF n >= 252 THEN 1 ELSE 0
TailSize(lens, sd) == IF sd THEN 1 + IsLong(lens[Len(lens)]) ELSE 0

Shortest(toc, lens, sd) ==
    CASE Len(lens) = 1 -> [head |-> <<toc>>, len |-> TailSize(lens, sd) + lens[1] + 1]
      [] Len(lens) = 2 /\ lens[1] = lens[2] ->
           [head |-> <<toc + 1>>, len |-> TailSize(lens, sd) + 2 * lens[1] + 1]
      [] Len(lens) = 2 /\ lens[1] # lens[2] ->
           [head |-> <<toc + 2>> \o EncodeSize(lens[1]),
            len |-> TailSize(lens, sd) + lens[1] + lens[2] + 2 + IsLong(lens[1])]

PaddingBytesAlways(n) ==
    LET nb_255s == IF n = 0 THEN 0 ELSE (n - 1) \div 255
    IN  [i \in 1..nb_255s |-> 255] \o <<(n - 255 * nb_255s - 1) % 256>>
PaddingBytes(n) ==
    IF n = 0 THEN <<>>
    ELSE LET nb_255s == (n - 1) \div 255
         IN  [i \in 1..nb_255s |-> 255] \o <<n - 255 * nb_255s - 1>>

Counting(toc, lens, maxlen, sd, pad) ==
    LET n == Len(lens)
        vbr == \E i \in 2..n : lens[i] # lens[1]
        front == SubSeq(lens, 1, n - 1)
        needed == TailSize(lens, sd) + 2 + Sum(lens)
                    + (IF vbr THEN n - 1 + Sum([i \in 1..n - 1 |-> IsLong(lens[i])])
                       ELSE 0)
        extra == IF pad THEN maxlen - needed ELSE 0
    IN  [len |-> needed + extra, needed |-> needed,
         head |-> <<toc + 3, n + (IF vbr THEN 128 ELSE 0) + (IF extra # 0 THEN 64 ELSE 0)>>
                  \o PaddingBytes(extra)
                  \o (IF vbr THEN FlattenSeq([i \in 1..n - 1 |-> EncodeSize(front[i])])
                      ELSE <<>>)]

TooSmall == [head |-> <<>>, len |-> -1]

OutRange(r, begin, end, maxlen, sd, pad) ==
    LET lens == SubSeq(r.lens, begin + 1, end)
        toc == r.toc - (r.toc % 4)
        tail == IF sd THEN EncodeSize(lens[Len(lens)]) ELSE <<>>
        With(o) == [head |-> o.head \o tail, len |-> o.len]
        short == Shortest(toc, lens, sd)
        long == Counting(toc, lens, maxlen, sd, pad)
    IN  IF Len(lens) <= 2 /\ short.len > maxlen THEN TooSmall
        ELSE IF Len(lens) <= 2 /\ ~(pad /\ short.len < maxlen) THEN With(short)
        ELSE IF long.needed > maxlen THEN TooSmall
        ELSE With(long)

------------------------------------------------------------------------------
(* opus_repacketizer_cat_impl.  The configuration is taken from the first   *)
(* packet, even one that is refused later.                                  *)
Empty == [toc |-> 0, framesize |-> 0, lens |-> <<>>]

Cat(r, p, sd) ==
    LET first == r.lens = <<>>
        toc == IF first THEN p.head[1] ELSE r.toc
        framesize == IF first THEN SamplesPerFrame(p.head[1], 8000) ELSE r.framesize
        kept == [r EXCEPT !.toc = toc, !.framesize = framesize] IN
    IF p.len < 1 THEN [rp |-> r, ok |-> FALSE]
    ELSE IF \/ toc \div 4 # p.head[1] \div 4
            \/ NbFrames(p) < 1
            \/ (NbFrames(p) + Len(r.lens)) * framesize > 960
    THEN [rp |-> kept, ok |-> FALSE]
    ELSE Only({IF c = Bad THEN [rp |-> kept, ok |-> FALSE]
               ELSE [rp |-> [kept EXCEPT !.lens = @ \o c.sizes], ok |-> TRUE] :
                 c \in {Parse(p, sd)}})

(* opus_packet_pad and opus_packet_unpad, in place.                         *)
Rewrite(r, len, pad) ==
    IF r.ok THEN OutRange(r.rp, 0, Len(r.rp.lens), len, FALSE, pad) ELSE TooSmall

PadTo(p, len) == Only({Rewrite(r, len, TRUE) : r \in {Cat(Empty, p, FALSE)}})
Unpad(p) == Only({Rewrite(r, p.len, FALSE) : r \in {Cat(Empty, p, FALSE)}})

------------------------------------------------------------------------------
NoPacket == [head |-> <<>>, len |-> 0, sd |-> FALSE]
Made(p, sd) == [head |-> p.head, len |-> p.len, sd |-> sd]

(* The first packet may be one from elsewhere.                              *)
Init ==
    /\ rp = Empty /\ made = <<>>
    /\ packet \in {NoPacket} \cup {Made(p, sd) : p \in Received, sd \in BOOLEAN}

(* A packet of one frame from the encoder.                                  *)
NewFrame ==
    /\ \E toc \in Tocs, n \in Lengths :
         /\ packet' = Made([head |-> <<toc>>, len |-> n + 1], FALSE)
         /\ made' = <<n>>
    /\ UNCHANGED rp

Reset == rp' = Empty /\ UNCHANGED <<packet, made>>

AddPacket ==
    /\ Len(rp.lens) < MaxFrames
    /\ packet # NoPacket
    /\ rp' = Cat(rp, packet, packet.sd).rp
    /\ UNCHANGED <<packet, made>>

(* The encoders pad a packet of all the frames, not a self-delimited one.   *)
MaxRoom == 65536
Out ==
    /\ \E begin \in 0..Len(rp.lens), end \in 1..Len(rp.lens),
          more \in {0} \cup Room, sd \in BOOLEAN :
         /\ begin < end
         /\ more > 0 => begin = 0 /\ end = Len(rp.lens) /\ ~sd
         /\ LET exact == OutRange(rp, begin, end, MaxRoom, sd, FALSE).len
                p == OutRange(rp, begin, end, exact + more, sd, more > 0)
            IN  packet' = Made(p, sd)
         /\ made' = SubSeq(rp.lens, begin + 1, end)
    /\ UNCHANGED rp

(* A packet may be padded that already is.                                  *)
Pad ==
    /\ packet.len >= 1 /\ ~packet.sd
    /\ Parse(packet, FALSE) # Bad => Parse(packet, FALSE).pad \in Paddings
    /\ \E more \in Room : \E p \in {PadTo(packet, packet.len + more)} :
         p # TooSmall /\ packet' = Made(p, FALSE)
    /\ UNCHANGED <<rp, made>>

Strip ==
    /\ packet.len >= 1 /\ ~packet.sd
    /\ \E p \in {Unpad(packet)} : p # TooSmall /\ packet' = Made(p, FALSE)
    /\ UNCHANGED <<rp, made>>

Next == NewFrame \/ Reset \/ AddPacket \/ Out \/ Pad \/ Strip
Spec == Init /\ [][Next]_vars

------------------------------------------------------------------------------
(* A repacketizer never holds more than 120 ms nor more frames than it has  *)
(* room for, however the packets it was given were made.                    *)
TypeOK ==
    /\ rp.toc \in 0..255 /\ rp.framesize \in 0..480
    /\ Len(rp.lens) <= 48 /\ Len(rp.lens) * rp.framesize <= 960
    /\ \A i \in DOMAIN rp.lens : rp.lens[i] \in 0..1275
    /\ packet.len \in Nat /\ packet.sd \in BOOLEAN
    /\ \A i \in DOMAIN packet.head : packet.head[i] \in 0..255

(* A packet that was made of frames is parsed into them: with the same      *)
(* lengths, right after the header, with nothing but padding behind them.   *)
FramesFound ==
    made # <<>> =>
        \A c \in {Parse(packet, packet.sd)} :
        /\ c # Bad /\ c.sizes = made /\ c.at = Len(packet.head)
        /\ c.at + Sum(made) + c.pad = packet.len

(* The frames that the parser finds in any packet lie inside it, and        *)
(* account for all of it unless another packet follows.                     *)
FramesInside ==
    packet.len > 0 =>
        \A c \in {Parse(packet, packet.sd)} :
        c # Bad => /\ Len(c.sizes) = c.count /\ c.count \in 1..48
                   /\ \A i \in 1..c.count : c.sizes[i] \in 0..1275
                   /\ IF packet.sd THEN c.at + Sum(c.sizes) + c.pad <= packet.len
                      ELSE c.at + Sum(c.sizes) + c.pad = packet.len

(* "In-place padding": when a packet is padded or stripped where it lies,   *)
(* moved to the end of its room first if it grows, the new header never     *)
(* reaches a frame that has not been moved yet.                             *)
InPlaceStep ==
    (made' = made /\ packet' # packet /\ ~packet.sd /\ ~packet'.sd) =>
      LET at == Parse(packet, FALSE).at
          grown == packet'.len - packet.len
      IN  Len(packet'.head) <= at + (IF grown > 0 THEN grown ELSE 0)
InPlace == [][InPlaceStep]_vars
==============================================================================
