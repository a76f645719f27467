------------------------------ MODULE RangeCoder ------------------------------
(***************************************************************************)
(* The range coder of Opus (entcode.h, mfrngcod.h, entenc.c, entdec.c): an *)
(* encoder writes symbols into a packet, coded ones from the front and raw *)
(* bits from the back, and a decoder reads the same symbols from it.  The  *)
(* registers have CodeBits bits and the bytes SymBits: 32 and 8 in the     *)
(* code, which uses nothing of them but that CodeBits = 4 * SymBits.       *)
(***************************************************************************)
EXTENDS Integers, Sequences

CONSTANTS
    SymBits, CodeBits,  \* EC_SYM_BITS, EC_CODE_BITS
    UintBits,           \* EC_UINT_BITS
    Sizes,              \* bytes of a packet
    Symbols,            \* what may be encoded: [op, value, and its parameters]
    HeaderBits,         \* bits the encoder may reserve first, and their values
    MaxSymbols

VARIABLES
    enc, dec,   \* the two ec_ctx
    coded,      \* symbols encoded so far
    decoded,    \* values decoded so far
    marks,      \* rng and nbits_total of the encoder after each symbol
    done        \* ec_enc_done has been called
vars == <<enc, dec, coded, decoded, marks, done>>

------------------------------------------------------------------------------
SymMax == 2^SymBits - 1
CodeShift == CodeBits - SymBits - 1
CodeTop == 2^(CodeBits - 1)
CodeBot == CodeTop \div 2^SymBits
CodeExtra == ((CodeBits - 2) % SymBits) + 1

(* What the callers ask for: an interval that is not empty, in a whole that *)
(* the range can be divided into; a value within its bounds.                *)
Rising(cum) ==
    /\ Len(cum) >= 2 /\ cum[1] = 0
    /\ \A i \in 1..Len(cum) - 1 : cum[i] <= cum[i + 1]
Falling(icdf) ==
    /\ Len(icdf) >= 1 /\ icdf[Len(icdf)] = 0
    /\ \A i \in 1..Len(icdf) - 1 : icdf[i] >= icdf[i + 1]

Encodable(s) ==
    CASE s.op = "part" -> /\ s.of \in Seq(Nat) /\ Rising(s.of)
                          /\ s.of[Len(s.of)] <= CodeBot
                          /\ s.value \in 0..Len(s.of) - 2
                          /\ s.of[s.value + 1] < s.of[s.value + 2]
      [] s.op = "logp" -> s.of \in 1..CodeShift /\ s.value \in 0..1
      [] s.op = "icdf" -> /\ s.of \in Seq(0..SymMax) /\ Falling(s.of)
                          /\ s.value \in 0..Len(s.of) - 1
                          /\ s.value > 0 => s.of[s.value] > s.of[s.value + 1]
      [] s.op = "uint" -> /\ s.of \in 2..2^CodeBits - 1
                          /\ s.value \in 0..s.of - 1
      [] s.op = "bits" -> s.of \in 1..CodeBits - SymBits + 1 /\ s.value \in 0..2^s.of - 1
      [] OTHER -> FALSE

RangeCoderAssumption ==
    /\ SymBits \in Nat \ {0, 1} /\ CodeBits = 4 * SymBits
    /\ UintBits \in SymBits..CodeShift
    /\ Sizes \subseteq Nat
    /\ HeaderBits \in 1..SymBits
    /\ MaxSymbols \in Nat
    /\ \A s \in Symbols : Encodable(s)

(* The loops.  None shifts a register more often than it has bytes.         *)
Times(n, Body(_), x) ==
    LET after[i \in 0..n] == IF i = 0 THEN x ELSE Body(after[i - 1])
    IN  after[n]
While(Test(_), Body(_), x) ==
    Times(CodeBits \div SymBits, LAMBDA y : IF Test(y) THEN Body(y) ELSE y, x)

BitOr(a, b) ==
    LET Bit(n, i) == (n \div 2^i) % 2
        low[i \in 0..SymBits] ==
            IF i = 0 THEN 0
            ELSE low[i - 1] + (IF Bit(a, i - 1) + Bit(b, i - 1) > 0 THEN 2^(i - 1) ELSE 0)
    IN  low[SymBits]

EC_ILOG(v) == CHOOSE n \in 0..CodeBits : v < 2^n /\ (n > 0 => v >= 2^(n - 1))

Tell(c) == c.nbits_total - EC_ILOG(c.rng)

EncInit(size) ==
    [buf |-> [i \in 1..size |-> 0], storage |-> size, offs |-> 0,
     end_offs |-> 0, end_window |-> 0, nend_bits |-> 0,
     nbits_total |-> CodeBits + 1, rng |-> CodeTop, val |-> 0, ext |-> 0,
     rem |-> -1, error |-> 0]

------------------------------------------------------------------------------
(* entenc.c.  Writing stops where the two ends meet.                        *)
WriteByteShort(e, v) ==
    IF e.offs + e.end_offs >= e.storage - 1 THEN [e EXCEPT !.error = -1]
    ELSE [e EXCEPT !.buf[e.offs + 1] = v % (SymMax + 1), !.offs = @ + 1]
WriteByte(e, v) ==
    IF e.offs + e.end_offs >= e.storage THEN [e EXCEPT !.error = -1]
    ELSE [e EXCEPT !.buf[e.offs + 1] = v % (SymMax + 1), !.offs = @ + 1]

WriteByteAtEnd(e, v) ==
    IF e.offs + e.end_offs >= e.storage THEN [e EXCEPT !.error = -1]
    ELSE [e EXCEPT !.buf[e.storage - e.end_offs] = v % (SymMax + 1),
                   !.end_offs = @ + 1]

(* A symbol that a carry could still pass through is only counted.          *)
Repeat(e, v, n) == Times(n, LAMBDA x : WriteByte(x, v), e)

CarryOutForgets(e, c) ==
    LET first == IF e.rem >= 0 THEN WriteByte(e, e.rem + c \div (SymMax + 1)) ELSE e
    IN  [Repeat(first, SymMax, e.ext) EXCEPT !.ext = 0, !.rem = c % (SymMax + 1)]
CarryOut(e, c) ==
    IF c = SymMax THEN [e EXCEPT !.ext = @ + 1]
    ELSE LET carry == c \div (SymMax + 1)
             first == IF e.rem >= 0 THEN WriteByte(e, e.rem + carry) ELSE e
             rest == Repeat(first, (SymMax + carry) % (SymMax + 1), e.ext)
         IN  [rest EXCEPT !.ext = 0, !.rem = c % (SymMax + 1)]

EncNormalize(e) ==
    While(LAMBDA x : x.rng <= CodeBot,
          LAMBDA x : [CarryOut(x, x.val \div 2^CodeShift) EXCEPT
                        !.val = (x.val * 2^SymBits) % CodeTop,
                        !.rng = @ * 2^SymBits, !.nbits_total = @ + SymBits],
          e)

(* The symbol takes the part [fl, fh) of ft.                                *)
EncodePart(e, r, fl, fh, ft) ==
    EncNormalize(
      IF fl > 0 THEN [e EXCEPT !.val = @ + e.rng - r * (ft - fl),
                               !.rng = r * (fh - fl)]
      ELSE [e EXCEPT !.rng = @ - r * (ft - fh)])

Encode(e, fl, fh, ft) == EncodePart(e, e.rng \div ft, fl, fh, ft)

EncBitLogp(e, bit, logp) ==
    LET s == e.rng \div 2^logp
        r == e.rng - s IN
    EncNormalize(IF bit = 1 THEN [e EXCEPT !.val = @ + r, !.rng = s]
                 ELSE [e EXCEPT !.rng = r])

EncIcdf(e, s, icdf, ftb) ==
    LET r == e.rng \div 2^ftb IN
    EncNormalize(
      IF s > 0 THEN [e EXCEPT !.val = @ + e.rng - r * icdf[s],
                              !.rng = r * (icdf[s] - icdf[s + 1])]
      ELSE [e EXCEPT !.rng = @ - r * icdf[s + 1]])

(* Raw bits, buffered in a window of CodeBits bits.                         *)
FlushWindow(e) ==
    While(LAMBDA x : x.nend_bits >= SymBits,
          LAMBDA x : [WriteByteAtEnd(x, x.end_window) EXCEPT
                        !.end_window = @ \div 2^SymBits,
                        !.nend_bits = @ - SymBits],
          e)

EncBits(e, v, bits) ==
    LET room == IF e.nend_bits + bits > CodeBits THEN FlushWindow(e) ELSE e
    IN  [room EXCEPT !.end_window = @ + v * 2^room.nend_bits,
                     !.nend_bits = @ + bits, !.nbits_total = @ + bits]

EncUint(e, v, ft) ==
    LET ftb == EC_ILOG(ft - 1)
        low == ftb - UintBits IN
    IF ftb > UintBits
    THEN LET hi == v \div 2^low
         IN  EncBits(Encode(e, hi, hi + 1, (ft - 1) \div 2^low + 1), v % 2^low, low)
    ELSE Encode(e, v, v + 1, ft)

(* The bits reserved at the front get their value once it is known.         *)
PatchInitialBits(e, v, n) ==
    LET shift == SymBits - n
        Masked(b) == (b % 2^shift) + v * 2^shift IN
    IF e.offs > 0 THEN [e EXCEPT !.buf[1] = Masked(@)]
    ELSE IF e.rem >= 0 THEN [e EXCEPT !.rem = Masked(@)]
    ELSE IF e.rng <= CodeTop \div 2^n
    THEN [e EXCEPT !.val = (@ % 2^(CodeShift + shift))
                           + (@ \div 2^(CodeShift + SymBits)) * 2^(CodeShift + SymBits)
                           + v * 2^(CodeShift + shift)]
    ELSE [e EXCEPT !.error = -1]

EncShrink(e, size) ==
    [e EXCEPT !.storage = size,
              !.buf = [i \in 1..size |->
                 IF i > size - e.end_offs THEN e.buf[i + e.storage - size]
                 ELSE e.buf[i]]]

(* The fewest bits that decode the same whatever follows them, the raw bits *)
(* that are left, and zeros between.                                        *)
PutEnd(e, end, l) ==
    While(LAMBDA x : x.l > 0,
          LAMBDA x : [enc |-> CarryOut(x.enc, x.end \div 2^CodeShift),
                      end |-> (x.end * 2^SymBits) % CodeTop, l |-> x.l - SymBits],
          [enc |-> e, end |-> end, l |-> l]).enc

EncDone(e) ==
    LET l0 == CodeBits - EC_ILOG(e.rng)
        Msk(l) == (CodeTop - 1) \div 2^l
        End(l) == ((e.val + Msk(l)) \div (Msk(l) + 1)) * (Msk(l) + 1)
        l == IF End(l0) + Msk(l0) >= e.val + e.rng THEN l0 + 1 ELSE l0
        out == PutEnd(e, End(l), l)
        flushed == FlushWindow(IF out.rem >= 0 \/ out.ext > 0 THEN CarryOut(out, 0)
                               ELSE out)
        cleared == [flushed EXCEPT !.buf = [i \in 1..e.storage |->
                      IF i > flushed.offs /\ i <= e.storage - flushed.end_offs
                      THEN 0 ELSE flushed.buf[i]]]
        spare == (SymBits - (l % SymBits)) % SymBits
        busted == flushed.offs + flushed.end_offs >= e.storage
                  /\ spare < flushed.nend_bits
        last == e.storage - flushed.end_offs
    IN  IF flushed.error # 0 THEN flushed
        ELSE IF flushed.nend_bits = 0 THEN cleared
        ELSE IF flushed.end_offs >= e.storage THEN [cleared EXCEPT !.error = -1]
        ELSE [cleared EXCEPT
                !.error = IF busted THEN -1 ELSE 0,
                !.buf[last] = BitOr(@, IF busted THEN flushed.end_window % 2^spare
                                       ELSE flushed.end_window)]

------------------------------------------------------------------------------
(* entdec.c.  Past the end of the packet a reader finds zeros.              *)
NextByte(d) ==
    LET byte == IF d.offs < d.storage THEN d.buf[d.offs + 1] ELSE 0
        sym == (d.rem * 2^SymBits + byte) \div 2^(SymBits - CodeExtra)
    IN  [d EXCEPT !.nbits_total = @ + SymBits, !.rng = @ * 2^SymBits,
                  !.rem = byte,
                  !.offs = IF @ < d.storage THEN @ + 1 ELSE @,
                  !.val = (@ * 2^SymBits + SymMax - (sym % (SymMax + 1))) % CodeTop]
DecNormalize(d) == While(LAMBDA x : x.rng <= CodeBot, NextByte, d)

DecInit(buf, size) ==
    LET first == IF size > 0 THEN buf[1] ELSE 0 IN
    DecNormalize(
      [buf |-> buf, storage |-> size, offs |-> IF size > 0 THEN 1 ELSE 0,
       end_offs |-> 0, end_window |-> 0, nend_bits |-> 0,
       nbits_total |-> CodeBits + 1 - ((CodeBits - CodeExtra) \div SymBits) * SymBits,
       rng |-> 2^CodeExtra, ext |-> 0, rem |-> first, error |-> 0,
       val |-> 2^CodeExtra - 1 - first \div 2^(SymBits - CodeExtra)])

(* A decoding operator gives the value and the context after it.            *)
Read(d, v) == [dec |-> d, value |-> v]

(* ec_decode, the symbol of the cumulative frequencies cum in whose part    *)
(* the code lies, and ec_dec_update.                                        *)
DecPart(d, cum) ==
    LET ft == cum[Len(cum)]
        ext == d.rng \div ft
        s == d.val \div ext
        f == ft - (IF s + 1 < ft THEN s + 1 ELSE ft)
        k == CHOOSE i \in 1..Len(cum) - 1 : cum[i] <= f /\ f < cum[i + 1]
        above == ext * (ft - cum[k + 1])
    IN  Read(DecNormalize(
               [d EXCEPT !.ext = ext, !.val = @ - above,
                         !.rng = IF cum[k] > 0 THEN ext * (cum[k + 1] - cum[k])
                                 ELSE @ - above]), k - 1)

DecBitLogp(d, logp) ==
    LET s == d.rng \div 2^logp
        bit == IF d.val < s THEN 1 ELSE 0
    IN  Read(DecNormalize(
               [d EXCEPT !.val = IF bit = 1 THEN @ ELSE @ - s,
                         !.rng = IF bit = 1 THEN s ELSE @ - s]), bit)

DecIcdf(d, icdf, ftb) ==
    LET r == d.rng \div 2^ftb
        k == CHOOSE i \in 1..Len(icdf) :
               /\ d.val >= r * icdf[i]
               /\ \A j \in 1..i - 1 : d.val < r * icdf[j]
        top == IF k = 1 THEN d.rng ELSE r * icdf[k - 1]
    IN  Read(DecNormalize([d EXCEPT !.val = @ - r * icdf[k],
                                    !.rng = top - r * icdf[k]]), k - 1)

NextByteAtEnd(d) ==
    LET byte == IF d.end_offs < d.storage THEN d.buf[d.storage - d.end_offs] ELSE 0
    IN  [d EXCEPT !.end_offs = IF @ < d.storage THEN @ + 1 ELSE @,
                  !.end_window = @ + byte * 2^d.nend_bits,
                  !.nend_bits = @ + SymBits]
FillWindow(d) ==
    While(LAMBDA x : x.nend_bits <= CodeBits - SymBits, NextByteAtEnd, d)

TakeBits(d, bits) ==
    [d EXCEPT !.end_window = @ \div 2^bits, !.nend_bits = @ - bits,
              !.nbits_total = @ + bits]

DecBits(d, bits) ==
    LET full == IF d.nend_bits < bits THEN FillWindow(d) ELSE d
    IN  Read(TakeBits(full, bits), full.end_window % 2^bits)

DecUint(d, ft) ==
    LET ftb == EC_ILOG(ft - 1)
        low == ftb - UintBits
        Flat(n) == [i \in 1..n + 1 |-> i - 1] IN
    IF ftb > UintBits
    THEN LET hi == DecPart(d, Flat((ft - 1) \div 2^low + 1))
             lo == DecBits(hi.dec, low)
             t == hi.value * 2^low + lo.value
         IN  IF t <= ft - 1 THEN Read(lo.dec, t)
             ELSE Read([lo.dec EXCEPT !.error = 1], ft - 1)
    ELSE DecPart(d, Flat(ft))

------------------------------------------------------------------------------
(* A packet: what the two sides do with each kind of symbol.  The header of *)
(* SILK reserves bits that are patched in when they are known, and reads    *)
(* them one by one.                                                         *)
EncodeSymbol(e, s) ==
    CASE s.op = "part" -> Encode(e, s.of[s.value + 1], s.of[s.value + 2],
                                 s.of[Len(s.of)])
      [] s.op = "logp" -> EncBitLogp(e, s.value, s.of)
      [] s.op = "icdf" -> EncIcdf(e, s.value, s.of, SymBits)
      [] s.op = "uint" -> EncUint(e, s.value, s.of)
      [] s.op = "bits" -> EncBits(e, s.value, s.of)
      [] s.op = "header" -> EncIcdf(e, 0, <<2^SymBits - 2^(SymBits - s.of), 0>>, SymBits)

DecHeader(d, n) ==
    LET NextBit(x) == LET bit == DecBitLogp(x.dec, 1)
                      IN  Read(bit.dec, 2 * x.value + bit.value)
    IN  Times(n, NextBit, Read(d, 0))

DecodeSymbol(d, s) ==
    CASE s.op = "part" -> DecPart(d, s.of)
      [] s.op = "logp" -> DecBitLogp(d, s.of)
      [] s.op = "icdf" -> DecIcdf(d, s.of, SymBits)
      [] s.op = "uint" -> DecUint(d, s.of)
      [] s.op = "bits" -> DecBits(d, s.of)
      [] s.op = "header" -> DecHeader(d, s.of)

Header == [op |-> "header", value |-> 0, of |-> HeaderBits]

Init ==
    /\ \E size \in Sizes : enc = EncInit(size)
    /\ dec = EncInit(0)
    /\ coded = <<>> /\ decoded = <<>> /\ marks = <<>> /\ done = FALSE

Put(s) ==
    /\ ~done /\ Len(coded) < MaxSymbols
    /\ s.op = "header" => coded = <<>>
    /\ enc' = EncodeSymbol(enc, s)
    /\ coded' = Append(coded, s)
    /\ marks' = Append(marks, [rng |-> enc'.rng, nbits_total |-> enc'.nbits_total])
    /\ UNCHANGED <<dec, decoded, done>>

Patch ==
    /\ ~done /\ coded # <<>> /\ coded[1] = Header
    /\ \E v \in 1..2^HeaderBits - 1 :
         /\ enc' = PatchInitialBits(enc, v, HeaderBits)
         /\ coded' = [coded EXCEPT ![1].value = v]
    /\ UNCHANGED <<dec, decoded, marks, done>>

Shrink ==
    /\ ~done
    /\ \E size \in Sizes :
         /\ enc.offs + enc.end_offs <= size /\ size < enc.storage
         /\ enc' = EncShrink(enc, size)
    /\ UNCHANGED <<dec, coded, decoded, marks, done>>

Done ==
    /\ ~done /\ done' = TRUE
    /\ enc' = EncDone(enc)
    /\ dec' = DecInit(enc'.buf, enc.storage)
    /\ UNCHANGED <<coded, decoded, marks>>

Get ==
    /\ done /\ Len(decoded) < Len(coded)
    /\ LET r == DecodeSymbol(dec, coded[Len(decoded) + 1])
       IN  dec' = r.dec /\ decoded' = Append(decoded, r.value)
    /\ UNCHANGED <<enc, coded, marks, done>>

Next == (\E s \in Symbols \cup {Header} : Put(s)) \/ Patch \/ Shrink \/ Done \/ Get

Spec == Init /\ [][Next]_vars

------------------------------------------------------------------------------
(* The registers stay in their width, and neither end of a packet writes or *)
(* reads past the other end of the buffer.                                  *)
TypeOK ==
    /\ \A c \in {enc, dec} :
         /\ c.rng \in CodeBot + 1..CodeTop /\ c.val \in 0..2 * CodeTop - 1
         /\ c.end_window \in 0..2^CodeBits - 1 /\ c.nend_bits \in 0..CodeBits
         /\ c.offs <= c.storage /\ c.end_offs <= c.storage
         /\ \A i \in 1..c.storage : c.buf[i] \in 0..SymMax
    /\ enc.offs + enc.end_offs <= enc.storage

(* What the encoder wrote without error the decoder reads, carries, raw     *)
(* bits, patched bits and a packet made smaller included.                   *)
RoundTrip ==
    enc.error = 0 => \A i \in 1..Len(decoded) : decoded[i] = coded[i].value

(* "This same number can be computed in either the encoder or the decoder,  *)
(* and is suitable for making coding decisions."                            *)
SameCount ==
    enc.error = 0 /\ decoded # <<>> =>
        LET m == marks[Len(decoded)]
        IN  dec.rng = m.rng /\ Tell(dec) = Tell(m) /\ dec.error = 0

(* An encoder that stops when ec_tell has reached the size of its packet    *)
(* never runs out of room.                                                  *)
RoomEnough == done /\ Tell(enc) <= SymBits * enc.storage => enc.error = 0
==============================================================================
