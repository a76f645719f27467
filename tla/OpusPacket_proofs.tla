--------------------------- MODULE OpusPacket_proofs ---------------------------
(***************************************************************************)
(* Proofs about packets: the parser is total and finds frames only inside  *)
(* a packet, it inverts what the repacketizer writes, and a packet that is *)
(* padded in place keeps its frames.  For every packet that is received,   *)
(* all lengths and all configurations; by induction on numbers where the   *)
(* code has a loop.                                                        *)
(***************************************************************************)
EXTENDS OpusPacket, SequenceTheorems, WellFoundedInduction, TLAPS

-----------------------------------------------------------------------------
(* Recursion on numbers, and sums.                                          *)

(* Induction on a set of numbers.                                           *)
Less == {p \in Nat \X Nat : p[1] < p[2]}
LEMMA LessWF == IsWellFoundedOn(Less, Nat)
  BY NatLessThanWellFounded DEF OpToRel, Less

(* Induction, as the least number outside a set.                            *)
LEMMA SetInduction ==
    ASSUME NEW S, 0 \in S, \A n \in Nat : n \in S => n + 1 \in S
    PROVE  Nat \subseteq S
  <1> SUFFICES ASSUME Nat \ S # {} PROVE FALSE OBVIOUS
  <1>1. PICK n \in Nat \ S : \A m \in Nat \ S : ~(<<m, n>> \in Less)
    BY WFMin, LessWF
  <1>2. n - 1 \in Nat /\ n - 1 \notin S /\ n - 1 < n BY <1>1
  <1>3. <<n - 1, n>> \in Less BY <1>2 DEF Less
  <1> QED BY <1>1, <1>2, <1>3

(* A function defined by recursion on 0..n exists: F is one step of it.     *)
Steps(a, F, n, g) == g = [i \in 0..n |-> IF i = 0 THEN a ELSE F[<<i, g[i - 1]>>]]

LEMMA StepsExist ==
    ASSUME NEW V, NEW a \in V, NEW n \in Nat, NEW F \in [(1..n) \X V -> V]
    PROVE  \E g \in [0..n -> V] : Steps(a, F, n, g)
  <1> DEFINE S == {m \in Nat : m <= n => \E g \in [0..m -> V] : Steps(a, F, m, g)}
  <1>1. 0 \in S
    <2> DEFINE g == [i \in 0..0 |-> a]
    <2>1. g \in [0..0 -> V] OBVIOUS
    <2>2. \A i \in 0..0 : g[i] = IF i = 0 THEN a ELSE F[<<i, g[i - 1]>>] OBVIOUS
    <2>3. Steps(a, F, 0, g) BY <2>2 DEF Steps
    <2> HIDE DEF g
    <2> QED BY <2>1, <2>3
  <1>2. ASSUME NEW m \in Nat, m \in S PROVE m + 1 \in S
    <2> SUFFICES ASSUME m + 1 <= n
                 PROVE  \E h \in [0..m + 1 -> V] : Steps(a, F, m + 1, h)
      OBVIOUS
    <2>1. PICK g \in [0..m -> V] : Steps(a, F, m, g) BY <1>2
    <2>2. \A i \in 0..m : g[i] = IF i = 0 THEN a ELSE F[<<i, g[i - 1]>>]
      BY <2>1 DEF Steps
    <2> DEFINE e == F[<<m + 1, g[m]>>]
               h == [i \in 0..m + 1 |-> IF i <= m THEN g[i] ELSE e]
    <2>3. e \in V
      <3>1. m + 1 \in 1..n /\ g[m] \in V OBVIOUS
      <3> QED BY <3>1
    <2> HIDE DEF e
    <2>4. h \in [0..m + 1 -> V] BY <2>3
    <2>5. \A i \in 0..m + 1 : h[i] = IF i = 0 THEN a ELSE F[<<i, h[i - 1]>>]
      <3> TAKE i \in 0..m + 1
      <3>1. CASE i <= m
        <4>1. h[i] = g[i] /\ (i # 0 => h[i - 1] = g[i - 1]) BY <3>1
        <4>2. i \in 0..m BY <3>1
        <4> HIDE DEF h
        <4>3. g[i] = IF i = 0 THEN a ELSE F[<<i, g[i - 1]>>] BY <2>2, <4>2
        <4>4. CASE i = 0 BY <4>1, <4>3, <4>4
        <4>5. CASE i # 0 BY <4>1, <4>3, <4>5
        <4> QED BY <4>4, <4>5
      <3>2. CASE i = m + 1
        <4>1. h[i] = e /\ h[i - 1] = g[m] BY <3>2
        <4> QED BY <3>2, <4>1, SMTT(30) DEF e
      <3> QED BY <3>1, <3>2
    <2>6. Steps(a, F, m + 1, h) BY <2>5 DEF Steps
    <2> HIDE DEF h
    <2> QED BY <2>4, <2>6
  <1> HIDE DEF S
  <1>3. Nat \subseteq S BY <1>1, <1>2, SetInduction
  <1> QED BY <1>3 DEF S

-----------------------------------------------------------------------------
(* Sums.                                                                    *)
Upto(s, g) == g = [i \in 0..Len(s) |-> IF i = 0 THEN 0 ELSE g[i - 1] + s[i]]

LEMMA UptoExists == ASSUME NEW s \in Seq(Nat) PROVE \E g : Upto(s, g)
  <1> DEFINE F == [x \in (1..Len(s)) \X Nat |-> x[2] + s[x[1]]]
  <1>1. F \in [(1..Len(s)) \X Nat -> Nat]
    <2>1. \A x \in (1..Len(s)) \X Nat : x[2] + s[x[1]] \in Nat OBVIOUS
    <2> QED BY <2>1
  <1>2. \A i \in 1..Len(s), y \in Nat : F[<<i, y>>] = y + s[i] OBVIOUS
  <1>3. Len(s) \in Nat OBVIOUS
  <1> HIDE DEF F
  <1>4. PICK g \in [0..Len(s) -> Nat] : Steps(0, F, Len(s), g)
    BY <1>1, <1>3, StepsExist
  <1>5. \A i \in 0..Len(s) : g[i] = IF i = 0 THEN 0 ELSE F[<<i, g[i - 1]>>]
    BY <1>4 DEF Steps
  <1>6. \A i \in 0..Len(s) : g[i] = IF i = 0 THEN 0 ELSE g[i - 1] + s[i]
    <2> TAKE i \in 0..Len(s)
    <2>1. CASE i # 0
      <3>1. i \in 1..Len(s) /\ g[i - 1] \in Nat BY <1>3, <2>1, SMTT(30)
      <3> QED BY <1>2, <1>5, <2>1, <3>1
    <2> QED BY <1>5, <2>1
  <1>7. Upto(s, g) BY <1>6 DEF Upto
  <1> QED BY <1>7

(* Sum, by its recursion.                                                   *)
LEMMA SumIs ==
    ASSUME NEW s \in Seq(Nat)
    PROVE  \E g \in [0..Len(s) -> Nat] :
             /\ g[0] = 0 /\ \A i \in 1..Len(s) : g[i] = g[i - 1] + s[i]
             /\ Sum(s) = g[Len(s)]
  <1> DEFINE g == CHOOSE f : Upto(s, f)
  <1>1. Upto(s, g) BY UptoExists
  <1>2. Sum(s) = g[Len(s)] BY Zenon DEF Sum, Upto
  <1> HIDE DEF g
  <1>3. Len(s) \in Nat OBVIOUS
  <1>4. g[0] = 0 /\ \A i \in 1..Len(s) : g[i] = g[i - 1] + s[i]
    BY <1>1, <1>3 DEF Upto
  <1> DEFINE S == {m \in Nat : m <= Len(s) => g[m] \in Nat}
  <1>5. 0 \in S BY <1>4
  <1>6. ASSUME NEW m \in Nat, m \in S PROVE m + 1 \in S
    <2> SUFFICES ASSUME m + 1 <= Len(s) PROVE g[m + 1] \in Nat OBVIOUS
    <2>1. m + 1 \in 1..Len(s) /\ g[m] \in Nat BY <1>6, <1>3
    <2>2. g[m + 1] = g[m] + s[m + 1] BY <1>4, <2>1
    <2> QED BY <2>1, <2>2
  <1> HIDE DEF S
  <1>7. Nat \subseteq S BY <1>5, <1>6, SetInduction
  <1>8. g \in [0..Len(s) -> Nat]
    <2>1. \A i \in 0..Len(s) : g[i] \in Nat BY <1>3, <1>7 DEF S
    <2>2. \E e : g = [i \in 0..Len(s) |-> e[i]]
      <3> DEFINE e == [i \in 0..Len(s) |-> IF i = 0 THEN 0 ELSE g[i - 1] + s[i]]
      <3>1. g = [i \in 0..Len(s) |-> e[i]] BY <1>1 DEF Upto
      <3> QED BY <3>1
    <2> QED BY <2>1, <2>2
  <1> QED BY <1>2, <1>4, <1>8

LEMMA SumType == ASSUME NEW s \in Seq(Nat) PROVE Sum(s) \in Nat
  <1>1. Len(s) \in 0..Len(s) OBVIOUS
  <1> QED BY <1>1, SumIs

LEMMA SumEmpty == Sum(<<>>) = 0
  <1>1. <<>> \in Seq(Nat) /\ Len(<<>>) = 0 BY EmptySeq
  <1> QED BY <1>1, SumIs

LEMMA SumAppend ==
    ASSUME NEW s \in Seq(Nat), NEW x \in Nat
    PROVE  Sum(Append(s, x)) = Sum(s) + x
  <1> DEFINE t == Append(s, x)
  <1>1. /\ t \in Seq(Nat) /\ Len(t) = Len(s) + 1 /\ Len(s) \in Nat
        /\ \A i \in 1..Len(s) : t[i] = s[i]
        /\ t[Len(s) + 1] = x
    BY AppendProperties
  <1> HIDE DEF t
  <1>2. PICK f \in [0..Len(s) -> Nat] :
           /\ f[0] = 0 /\ \A i \in 1..Len(s) : f[i] = f[i - 1] + s[i]
           /\ Sum(s) = f[Len(s)]
    BY SumIs
  <1>3. PICK g \in [0..Len(t) -> Nat] :
           /\ g[0] = 0 /\ \A i \in 1..Len(t) : g[i] = g[i - 1] + t[i]
           /\ Sum(t) = g[Len(t)]
    BY <1>1, SumIs
  <1> DEFINE S == {m \in Nat : m <= Len(s) => g[m] = f[m]}
  <1>4. 0 \in S BY <1>2, <1>3
  <1>5. ASSUME NEW m \in Nat, m \in S PROVE m + 1 \in S
    <2> SUFFICES ASSUME m + 1 <= Len(s) PROVE g[m + 1] = f[m + 1] OBVIOUS
    <2>1. m + 1 \in 1..Len(s) /\ m + 1 \in 1..Len(t) /\ g[m] = f[m] BY <1>1, <1>5
    <2>2. t[m + 1] = s[m + 1] BY <1>1, <2>1
    <2>3. g[m + 1] = g[m] + t[m + 1] /\ f[m + 1] = f[m] + s[m + 1]
      BY <1>2, <1>3, <2>1
    <2> QED BY <2>1, <2>2, <2>3
  <1> HIDE DEF S
  <1>6. Len(s) \in S BY <1>1, <1>4, <1>5, SetInduction
  <1>7. g[Len(s)] = f[Len(s)] BY <1>1, <1>6 DEF S
  <1>8. g[Len(t)] = g[Len(s)] + x
    <2>1. Len(t) \in 1..Len(t) /\ Len(t) - 1 = Len(s) BY <1>1
    <2> QED BY <1>1, <1>3, <2>1
  <1>9. Sum(t) = Sum(s) + x BY <1>2, <1>3, <1>7, <1>8
  <1> QED BY <1>9 DEF t

-----------------------------------------------------------------------------
(* Bounds on sums; bytes, packets and what parse_size reads.                *)
(* The sum of equal numbers is a product.                                   *)
LEMMA SumConst ==
    ASSUME NEW x \in Nat, NEW n \in Nat
    PROVE  Sum([i \in 1..n |-> x]) = n * x
  <1> DEFINE S == {m \in Nat : Sum([i \in 1..m |-> x]) = m * x}
  <1>1. 0 \in S
    <2>1. [i \in 1..0 |-> x] = <<>> OBVIOUS
    <2> QED BY <2>1, SumEmpty
  <1>2. ASSUME NEW m \in Nat, m \in S PROVE m + 1 \in S
    <2> DEFINE s == [i \in 1..m |-> x]
    <2>1. s \in Seq(Nat) /\ Len(s) = m OBVIOUS
    <2>2. [i \in 1..m + 1 |-> x] = Append(s, x) OBVIOUS
    <2>3. Sum(s) = m * x BY <1>2
    <2> HIDE DEF s
    <2>4. Sum(Append(s, x)) = m * x + x BY <2>1, <2>3, SumAppend
    <2>5. m * x + x = (m + 1) * x OBVIOUS
    <2>6. Sum([i \in 1..m + 1 |-> x]) = (m + 1) * x BY <2>2, <2>4, <2>5
    <2> QED BY <2>6
  <1> HIDE DEF S
  <1>3. n \in S BY <1>1, <1>2, SetInduction
  <1> QED BY <1>3 DEF S

Lens == 0..1275

LEMMA BoundStep ==
    ASSUME NEW a \in Nat, NEW b \in Lens, NEW m \in Nat, a <= 1275 * m
    PROVE  a + b <= 1275 * (m + 1)
  BY DEF Lens

(* A sum is bounded by its number of frames, and bounds each of them.       *)
LEMMA SumBound == ASSUME NEW s \in Seq(Lens) PROVE Sum(s) <= 1275 * Len(s)
  <1>1. s \in Seq(Nat) /\ Len(s) \in Nat
    <2>1. Lens \subseteq Nat BY DEF Lens
    <2>2. s \in Seq(Nat) BY <2>1, SeqMonotonic
    <2> QED BY <2>2
  <1>2. PICK g \in [0..Len(s) -> Nat] :
           /\ g[0] = 0 /\ \A i \in 1..Len(s) : g[i] = g[i - 1] + s[i]
           /\ Sum(s) = g[Len(s)]
    BY <1>1, SumIs
  <1> DEFINE S == {m \in Nat : m <= Len(s) => g[m] <= 1275 * m}
  <1>3. 0 \in S BY <1>2
  <1>4. ASSUME NEW m \in Nat, m \in S PROVE m + 1 \in S
    <2> SUFFICES ASSUME m + 1 <= Len(s) PROVE g[m + 1] <= 1275 * (m + 1) OBVIOUS
    <2>1. m + 1 \in 1..Len(s) /\ g[m] <= 1275 * m /\ g[m] \in Nat BY <1>1, <1>4
    <2>2. g[m + 1] = g[m] + s[m + 1] BY <1>2, <2>1
    <2>3. s[m + 1] \in Lens BY <2>1
    <2> QED BY <2>1, <2>2, <2>3, BoundStep
  <1> HIDE DEF S
  <1>5. Len(s) \in S BY <1>1, <1>3, <1>4, SetInduction
  <1> QED BY <1>2, <1>5 DEF S

LEMMA SumMember ==
    ASSUME NEW s \in Seq(Nat), NEW k \in 1..Len(s) PROVE s[k] <= Sum(s)
  <1>1. Len(s) \in Nat OBVIOUS
  <1>2. PICK g \in [0..Len(s) -> Nat] :
           /\ g[0] = 0 /\ \A i \in 1..Len(s) : g[i] = g[i - 1] + s[i]
           /\ Sum(s) = g[Len(s)]
    BY SumIs
  <1> DEFINE S == {m \in Nat : m >= k /\ m <= Len(s) => s[k] <= g[m]}
  <1>3. 0 \in S OBVIOUS
  <1>4. ASSUME NEW m \in Nat, m \in S PROVE m + 1 \in S
    <2> SUFFICES ASSUME m + 1 >= k, m + 1 <= Len(s) PROVE s[k] <= g[m + 1] OBVIOUS
    <2>0. m + 1 \in 1..Len(s) /\ m \in 0..Len(s) BY <1>1
    <2>1. m + 1 \in 1..Len(s) /\ g[m] \in Nat /\ s[m + 1] \in Nat BY <2>0
    <2>2. g[m + 1] = g[m] + s[m + 1] BY <1>2, <2>1
    <2>3. CASE k = m + 1 BY <2>1, <2>2, <2>3
    <2>4. CASE k <= m
      <3>1. s[k] <= g[m] BY <1>4, <2>4, <2>1
      <3>2. s[k] \in Nat OBVIOUS
      <3> QED BY <2>1, <2>2, <3>1, <3>2
    <2> QED BY <2>3, <2>4
  <1> HIDE DEF S
  <1>5. Len(s) \in S BY <1>1, <1>3, <1>4, SetInduction
  <1> QED BY <1>1, <1>2, <1>5 DEF S

-----------------------------------------------------------------------------
(* Bytes and lengths.                                                       *)
Bytes == 0..255
PacketOK(p) == p.head \in Seq(Bytes) /\ p.head # <<>> /\ p.len \in Nat \ {0}

LEMMA ByteType ==
    ASSUME NEW p, PacketOK(p), NEW i \in Nat, i < p.len PROVE Byte(p, i) \in Bytes
  <1>1. CASE i >= Len(p.head) BY <1>1 DEF Byte, Bytes
  <1>2. CASE i < Len(p.head)
    <2>1. i + 1 \in 1..Len(p.head) BY <1>2 DEF PacketOK
    <2> QED BY <1>2, <2>1 DEF Byte, PacketOK
  <1> QED BY <1>1, <1>2 DEF PacketOK

LEMMA TwoBytes == ASSUME NEW x \in Bytes, NEW y \in Bytes PROVE 4 * x + y \in Lens
  BY DEF Bytes, Lens

SizeOK(s, len) ==
    s.bytes \in 1..2 /\ s.bytes <= len /\ s.size \in Lens /\ s.bytes = 1 + IsLong(s.size)
NoSize == [bytes |-> -1, size |-> -1]

(* parse_size reads one or two bytes, or none and fails.                    *)
LEMMA ParseSizeOK ==
    ASSUME NEW p, PacketOK(p), NEW at \in Nat, NEW len \in Int, at + len <= p.len
    PROVE  \/ ParseSize(p, at, len) = NoSize
           \/ SizeOK(ParseSize(p, at, len), len)
  <1>1. CASE len < 1 BY <1>1 DEF ParseSize, NoSize
  <1>2. CASE len = 1
    <2>1. Byte(p, at) \in Bytes BY <1>2, ByteType DEF PacketOK
    <2>2. CASE Byte(p, at) < 252
      <3>1. ParseSize(p, at, len) = [bytes |-> 1, size |-> Byte(p, at)]
        BY <1>2, <2>2, <2>1 DEF ParseSize, Bytes
      <3>2. IsLong(Byte(p, at)) = 0 BY <2>1, <2>2 DEF IsLong, Bytes
      <3> QED BY <1>2, <2>1, <3>1, <3>2 DEF SizeOK, Lens, Bytes
    <2>3. CASE Byte(p, at) >= 252
      <3>1. ParseSize(p, at, len) = NoSize
        BY <1>2, <2>3, <2>1 DEF ParseSize, Bytes, NoSize
      <3> QED BY <3>1
    <2> QED BY <2>1, <2>2, <2>3 DEF Bytes
  <1>3. CASE len > 1
    <2>1. Byte(p, at) \in Bytes /\ Byte(p, at + 1) \in Bytes
      BY <1>3, ByteType DEF PacketOK
    <2>2. CASE Byte(p, at) < 252
      <3>1. ParseSize(p, at, len) = [bytes |-> 1, size |-> Byte(p, at)]
        BY <1>3, <2>2, <2>1 DEF ParseSize, Bytes
      <3>2. IsLong(Byte(p, at)) = 0 BY <2>1, <2>2 DEF IsLong, Bytes
      <3> QED BY <1>3, <2>1, <3>1, <3>2 DEF SizeOK, Lens, Bytes
    <2>3. CASE Byte(p, at) >= 252
      <3>1. ParseSize(p, at, len) =
               [bytes |-> 2, size |-> 4 * Byte(p, at + 1) + Byte(p, at)]
        BY <1>3, <2>3, <2>1 DEF ParseSize, Bytes
      <3>3. 4 * Byte(p, at + 1) + Byte(p, at) \in Lens BY <2>1, TwoBytes
      <3>4. IsLong(4 * Byte(p, at + 1) + Byte(p, at)) = 1
        BY <2>1, <2>3 DEF IsLong, Bytes
      <3> QED BY <1>3, <3>1, <3>3, <3>4 DEF SizeOK
    <2> QED BY <2>1, <2>2, <2>3 DEF Bytes
  <1> QED BY <1>1, <1>2, <1>3

-----------------------------------------------------------------------------
(* The parser reads lengths: it stays where the packet is divided right.    *)

(* The parser.  A cursor divides the packet into what is read, what is left *)
(* and the padding.                                                         *)
Cursors == [count : 1..48, cbr : BOOLEAN, at : Nat, len : Nat, last : Int,
            sizes : Seq(Nat), pad : Nat]
Placed(p, c) == c \in Cursors /\ c.at + c.len + c.pad = p.len
Reading(p, c) ==
    /\ Placed(p, c) /\ c.sizes \in Seq(Lens)
    /\ c.last = c.len - Sum(c.sizes)

LEMMA NotBad == ASSUME NEW c \in Cursors PROVE c # Bad
  <1>1. c.count \in 1..48 BY DEF Cursors
  <1>2. Bad.count = -1 BY DEF Bad
  <1> QED BY <1>1, <1>2

LEMMA LensSum == ASSUME NEW s \in Seq(Lens) PROVE s \in Seq(Nat) /\ Sum(s) \in Nat
  <1>1. Lens \subseteq Nat BY DEF Lens
  <1>2. s \in Seq(Nat) BY <1>1, SeqMonotonic
  <1> QED BY <1>2, SumType

LEMMA LensAppend ==
    ASSUME NEW s \in Seq(Lens), NEW x \in Lens
    PROVE  /\ Append(s, x) \in Seq(Lens) /\ Append(s, x) \in Seq(Nat)
           /\ Len(Append(s, x)) = Len(s) + 1 /\ Len(s) \in Nat
           /\ Sum(Append(s, x)) = Sum(s) + x
  <1>1. s \in Seq(Nat) /\ x \in Nat BY LensSum DEF Lens
  <1>2. Append(s, x) \in Seq(Lens) /\ Len(Append(s, x)) = Len(s) + 1 /\ Len(s) \in Nat
    BY AppendProperties
  <1>3. Append(s, x) \in Seq(Nat) BY <1>2, LensSum
  <1>4. Sum(Append(s, x)) = Sum(s) + x BY <1>1, SumAppend
  <1> QED BY <1>2, <1>3, <1>4

Longs(lens, m) == [i \in 1..m |-> IsLong(lens[i])]
LongBytes(s) == Len(s) + Sum(Longs(s, Len(s)))
Advanced(c, d) == d.at - LongBytes(d.sizes) = c.at - LongBytes(c.sizes)

LEMMA LongAppend ==
    ASSUME NEW s \in Seq(Lens), NEW x \in Lens
    PROVE  /\ LongBytes(s) \in Nat
           /\ LongBytes(Append(s, x)) = LongBytes(s) + (1 + IsLong(x))
  <1> DEFINE t == Append(s, x)
             u == Longs(s, Len(s))
  <1>1. /\ Len(s) \in Nat /\ Len(t) = Len(s) + 1
        /\ \A i \in 1..Len(s) : t[i] = s[i]
        /\ t[Len(s) + 1] = x
    BY AppendProperties
  <1>2. \A y : IsLong(y) \in 0..1 BY DEF IsLong
  <1>3. u \in Seq(Nat) /\ Len(u) = Len(s)
    <2>1. \A y : IsLong(y) \in Nat BY <1>2
    <2> QED BY <1>1, <2>1 DEF Longs
  <1>4. Longs(t, Len(t)) = Append(u, IsLong(x))
    <2>1. PICK n \in Nat : n = Len(s) BY <1>1
    <2>2. \A i \in 1..n + 1 : IsLong(t[i]) \in Nat BY <1>2
    <2> HIDE DEF t, u
    <2>3. Longs(t, n + 1) = Append(Longs(t, n), IsLong(t[n + 1])) BY <2>2 DEF Longs
    <2>4. Longs(t, n) = u BY <1>1, <2>1 DEF Longs, u
    <2> QED BY <1>1, <2>1, <2>3, <2>4
  <1> HIDE DEF t, u
  <1>5. Sum(Longs(t, Len(t))) = Sum(u) + IsLong(x) /\ Sum(u) \in Nat
    <2>1. IsLong(x) \in Nat BY <1>2
    <2> QED BY <1>3, <1>4, <2>1, SumAppend, SumType
  <1>6. PICK n \in Nat, m \in Nat, l \in 0..1 : n = Len(s) /\ m = Sum(u) /\ l = IsLong(x)
    BY <1>1, <1>2, <1>5
  <1>7. (n + 1) + (m + l) = (n + m) + (1 + l) /\ n + m \in Nat OBVIOUS
  <1> QED BY <1>1, <1>5, <1>6, <1>7 DEF LongBytes, t, u

(* Reading a length keeps the division of the packet.                       *)
LEMMA ReadSizeOK ==
    ASSUME NEW p, PacketOK(p), NEW c, Reading(p, c), ReadSize(p, c) # Bad
    PROVE  /\ Reading(p, ReadSize(p, c))
           /\ ReadSize(p, c).count = c.count /\ ReadSize(p, c).cbr = c.cbr
           /\ Len(ReadSize(p, c).sizes) = Len(c.sizes) + 1
           /\ ReadSize(p, c).pad = c.pad
           /\ Advanced(c, ReadSize(p, c))
  <1> DEFINE s == ParseSize(p, c.at, c.len)
             r == [c EXCEPT !.at = c.at + s.bytes, !.len = c.len - s.bytes,
                            !.last = c.last - s.bytes - s.size,
                            !.sizes = Append(c.sizes, s.size)]
  <1>1. c \in Cursors /\ c.at \in Nat /\ c.len \in Nat /\ c.pad \in Nat
        /\ c.at + c.len + c.pad = p.len /\ c.sizes \in Seq(Lens) /\ c.last \in Int
        /\ c.last = c.len - Sum(c.sizes) /\ p.len \in Nat
    BY DEF Reading, Placed, Cursors, PacketOK
  <1>2. s = NoSize \/ SizeOK(s, c.len) BY <1>1, ParseSizeOK
  <1>3. ReadSize(p, c) = IF s.size < 0 \/ s.size > c.len - s.bytes THEN Bad ELSE r
    BY DEF ReadSize
  <1> HIDE DEF s
  <1>4. SizeOK(s, c.len) BY <1>2, <1>3 DEF NoSize
  <1>5. s.bytes \in 1..2 /\ s.bytes <= c.len /\ s.size \in Lens BY <1>4 DEF SizeOK
  <1>6. /\ Append(c.sizes, s.size) \in Seq(Lens) /\ Append(c.sizes, s.size) \in Seq(Nat)
        /\ Len(Append(c.sizes, s.size)) = Len(c.sizes) + 1
        /\ Sum(Append(c.sizes, s.size)) = Sum(c.sizes) + s.size
    BY <1>1, <1>5, LensAppend
  <1>7. /\ c.at + s.bytes \in Nat /\ c.len - s.bytes \in Nat /\ s.size \in Int
        /\ (c.at + s.bytes) + (c.len - s.bytes) + c.pad = p.len
        /\ c.last - s.bytes - s.size \in Int
        /\ Sum(c.sizes) \in Nat
        /\ c.last - s.bytes - s.size = (c.len - s.bytes) - (Sum(c.sizes) + s.size)
    <2>1. Sum(c.sizes) \in Nat BY <1>1, LensSum
    <2>2. PICK at \in Nat, len \in Nat, pad \in Nat, last \in Int, bytes \in 1..2,
               size \in Lens, sum \in Nat, n \in Nat :
             /\ at = c.at /\ len = c.len /\ pad = c.pad /\ last = c.last
             /\ bytes = s.bytes /\ size = s.size /\ sum = Sum(c.sizes) /\ n = p.len
      BY <1>1, <1>5, <2>1
    <2>3. bytes <= len /\ at + len + pad = n /\ last = len - sum
      BY <1>1, <1>5, <2>2
    <2>4. /\ at + bytes \in Nat /\ len - bytes \in Nat /\ size \in Int
          /\ (at + bytes) + (len - bytes) + pad = n
          /\ last - bytes - size \in Int
          /\ last - bytes - size = (len - bytes) - (sum + size)
      BY <2>3 DEF Lens
    <2> QED BY <2>1, <2>2, <2>4
  <1>8. /\ r \in Cursors /\ r.at = c.at + s.bytes /\ r.len = c.len - s.bytes
        /\ r.last = c.last - s.bytes - s.size /\ r.sizes = Append(c.sizes, s.size)
        /\ r.count = c.count /\ r.cbr = c.cbr /\ r.pad = c.pad
    BY <1>1, <1>6, <1>7 DEF Cursors
  <1> HIDE DEF r
  <1>9. ReadSize(p, c) = r BY <1>3
  <1>10. Reading(p, r) BY <1>6, <1>7, <1>8 DEF Reading, Placed
  <1>11. Advanced(c, r)
    <2>1. s.bytes = 1 + IsLong(s.size) BY <1>4 DEF SizeOK
    <2>2. /\ LongBytes(c.sizes) \in Nat
          /\ LongBytes(Append(c.sizes, s.size)) = LongBytes(c.sizes) + s.bytes
      BY <1>1, <1>5, <2>1, LongAppend
    <2>3. PICK at \in Nat, b \in 1..2, n \in Nat :
             at = c.at /\ b = s.bytes /\ n = LongBytes(c.sizes)
      BY <1>1, <1>5, <2>2
    <2>4. (at + b) - (n + b) = at - n OBVIOUS
    <2> QED BY <1>8, <2>2, <2>3, <2>4 DEF Advanced
  <1> QED BY <1>6, <1>8, <1>9, <1>10, <1>11

SizesRead(p, c, n, g) ==
    /\ g[0] = c /\ ReadSizes(p, c, n) = g[n]
    /\ \A i \in 1..n : /\ g[i - 1] = Bad => g[i] = Bad
                       /\ g[i - 1] # Bad => g[i] = ReadSize(p, g[i - 1])

LEMMA ReadSizesSteps ==
    ASSUME NEW p, PacketOK(p), NEW c, Reading(p, c), NEW n \in Nat
    PROVE  \E g : SizesRead(p, c, n, g)
  <1> DEFINE V == {d \in Cursors : Reading(p, d)} \cup {Bad}
             Next1(d) == IF d = Bad THEN Bad ELSE ReadSize(p, d)
             F == [x \in (1..n) \X V |-> Next1(x[2])]
             Run(g) == g = [i \in 0..n |->
                IF i = 0 THEN c
                ELSE LET d == g[i - 1] IN IF d = Bad THEN Bad ELSE ReadSize(p, d)]
             g == CHOOSE h : Run(h)
  <1>1. c \in V BY DEF Reading, Placed
  <1>2. \A d \in V : Next1(d) \in V
    <2> TAKE d \in V
    <2>1. CASE d = Bad \/ ReadSize(p, d) = Bad BY <2>1
    <2>2. CASE d # Bad /\ ReadSize(p, d) # Bad
      <3>1. Reading(p, ReadSize(p, d)) BY <2>2, ReadSizeOK
      <3> QED BY <2>2, <3>1 DEF Reading, Placed
    <2> QED BY <2>1, <2>2
  <1>3. F \in [(1..n) \X V -> V] /\ \A i \in 1..n, d \in V : F[<<i, d>>] = Next1(d)
    BY <1>2
  <1> HIDE DEF F, V
  <1>4. PICK h \in [0..n -> V] : Steps(c, F, n, h) BY <1>1, <1>3, StepsExist
  <1>5. \A i \in 0..n : h[i] = IF i = 0 THEN c ELSE F[<<i, h[i - 1]>>]
    BY <1>4 DEF Steps
  <1>6. \A i \in 0..n : h[i] = IF i = 0 THEN c ELSE Next1(h[i - 1])
    <2> TAKE i \in 0..n
    <2>1. CASE i # 0
      <3>1. i \in 1..n /\ i - 1 \in 0..n BY <2>1
      <3>2. h[i - 1] \in V BY <3>1
      <3>3. h[i] = F[<<i, h[i - 1]>>] BY <1>5, <2>1
      <3> QED BY <1>3, <2>1, <3>1, <3>2, <3>3
    <2> QED BY <1>5, <2>1
  <1>7. Run(h) BY <1>6
  <1>8. Run(g) BY <1>7
  <1>9. ReadSizes(p, c, n) = g[n] BY Zenon DEF ReadSizes
  <1> HIDE DEF g
  <1>10. g[0] = c /\ \A i \in 1..n : g[i] = Next1(g[i - 1]) BY <1>8
  <1>11. SizesRead(p, c, n, g) BY <1>9, <1>10 DEF SizesRead
  <1> QED BY <1>11

(* So does reading any number of lengths.                                   *)
LEMMA ReadSizesOK ==
    ASSUME NEW p, PacketOK(p), NEW c, Reading(p, c), NEW n \in Nat, ReadSizes(p, c, n) # Bad
    PROVE  /\ Reading(p, ReadSizes(p, c, n))
           /\ ReadSizes(p, c, n).count = c.count /\ ReadSizes(p, c, n).cbr = c.cbr
           /\ Len(ReadSizes(p, c, n).sizes) = Len(c.sizes) + n
           /\ ReadSizes(p, c, n).pad = c.pad
           /\ Advanced(c, ReadSizes(p, c, n))
  <1>9. PICK g : SizesRead(p, c, n, g) BY ReadSizesSteps
  <1>10. /\ g[0] = c /\ ReadSizes(p, c, n) = g[n]
         /\ \A i \in 1..n : /\ g[i - 1] = Bad => g[i] = Bad
                            /\ g[i - 1] # Bad => g[i] = ReadSize(p, g[i - 1])
    BY <1>9 DEF SizesRead
  <1> DEFINE Good(m, d) == d # Bad =>
                 /\ Reading(p, d) /\ d.count = c.count /\ d.cbr = c.cbr
                 /\ Len(d.sizes) = Len(c.sizes) + m /\ d.pad = c.pad /\ Advanced(c, d)
             S == {m \in Nat : m <= n => Good(m, g[m])}
  <1>11. 0 \in S
    <2>1. Len(c.sizes) \in Nat BY DEF Reading
    <2>2. Advanced(c, c) BY DEF Advanced
    <2> QED BY <1>10, <2>1, <2>2
  <1>12. ASSUME NEW m \in Nat, m \in S PROVE m + 1 \in S
    <2>0. SUFFICES ASSUME m + 1 <= n, g[m + 1] # Bad PROVE Good(m + 1, g[m + 1])
      <3>1. m + 1 \in Nat OBVIOUS
      <3> HIDE DEF Good
      <3>2. CASE m + 1 <= n
        <4>1. CASE g[m + 1] # Bad BY <3>1, <3>2, <4>1
        <4>2. CASE g[m + 1] = Bad
          <5>1. Good(m + 1, g[m + 1]) BY <4>2 DEF Good
          <5> QED BY <3>1, <5>1
        <4> QED BY <4>1, <4>2
      <3> QED BY <3>1, <3>2
    <2>1. m + 1 \in 1..n /\ (m + 1) - 1 = m BY <2>0
    <2>2. g[m] # Bad /\ g[m + 1] = ReadSize(p, g[m])
      <3>1. PICK i \in 1..n : i = m + 1 /\ i - 1 = m BY <2>1
      <3>2. /\ g[i - 1] = Bad => g[i] = Bad
            /\ g[i - 1] # Bad => g[i] = ReadSize(p, g[i - 1])
        BY <1>10
      <3> QED BY <2>0, <3>1, <3>2
    <2>3. Good(m, g[m]) BY <1>12, <2>0
    <2>4. Reading(p, g[m]) /\ Len(g[m].sizes) = Len(c.sizes) + m BY <2>2, <2>3
    <2>5. Len(c.sizes) \in Nat BY DEF Reading
    <2>6. /\ Reading(p, g[m + 1])
          /\ g[m + 1].count = g[m].count /\ g[m + 1].cbr = g[m].cbr
          /\ Len(g[m + 1].sizes) = Len(g[m].sizes) + 1
          /\ g[m + 1].pad = g[m].pad
          /\ Advanced(g[m], g[m + 1])
      <3>1. PICK d : d = g[m] /\ Reading(p, d) /\ ReadSize(p, d) # Bad BY <2>0, <2>2, <2>4
      <3>2. g[m + 1] = ReadSize(p, d) BY <2>2, <3>1
      <3> QED BY <3>1, <3>2, ReadSizeOK
    <2>7. g[m].count = c.count /\ g[m].cbr = c.cbr /\ g[m].pad = c.pad BY <2>2, <2>3
    <2>8. Len(g[m + 1].sizes) = Len(c.sizes) + (m + 1)
      <3>1. Len(g[m + 1].sizes) = (Len(c.sizes) + m) + 1 BY <2>4, <2>6
      <3>2. \A k \in Nat : (k + m) + 1 = k + (m + 1) OBVIOUS
      <3> QED BY <2>5, <3>1, <3>2
    <2>9. Advanced(c, g[m + 1])
      <3>1. Advanced(c, g[m]) BY <2>2, <2>3
      <3> QED BY <2>6, <3>1 DEF Advanced
    <2> QED BY <2>6, <2>7, <2>8, <2>9
  <1> HIDE DEF S, Good
  <1>13. n \in S BY <1>11, <1>12, SetInduction
  <1> QED BY <1>10, <1>13 DEF S, Good

-----------------------------------------------------------------------------
(* Durations, and padding that is skipped.                                  *)

(* The durations of a frame, from 2.5 ms on.                                *)
Rates == {8000, 48000}

LEMMA Powers ==
    ASSUME NEW c \in 0..3
    PROVE  2^c = IF c = 0 THEN 1 ELSE IF c = 1 THEN 2 ELSE IF c = 2 THEN 4 ELSE 8
  <1>1. 2^0 = 1 /\ 2^1 = 2 /\ 2^2 = 4 /\ 2^3 = 8 OBVIOUS
  <1>2. CASE c = 0 BY <1>1, <1>2, Zenon
  <1>3. CASE c = 1
    <2>1. 2^c = 2 /\ c # 0 BY <1>1, <1>3
    <2> QED BY <1>3, <2>1
  <1>4. CASE c = 2
    <2>1. 2^c = 4 BY <1>1, <1>4, Zenon
    <2> QED BY <1>4, <2>1
  <1>5. CASE c = 3
    <2>1. 2^c = 8 BY <1>1, <1>5, Zenon
    <2> QED BY <1>5, <2>1
  <1> QED BY <1>2, <1>3, <1>4, <1>5

(* A frame lasts from 2.5 ms to 60 ms.                                      *)
LEMMA SamplesOK ==
    ASSUME NEW toc \in Bytes, NEW Fs \in Rates
    PROVE  /\ SamplesPerFrame(toc, Fs) \in Fs \div 400..(Fs * 60) \div 1000
  <1> DEFINE config == (toc \div 8) % 4
  <1>1. config \in 0..3 BY DEF Bytes
  <1>2. toc \in 0..255 BY DEF Bytes
  <1> HIDE DEF config
  <1>3. 2^config \in {1, 2, 4, 8} BY <1>1, Powers
  <1>b. config # 3 => 2^config # 8
    <2>1. CASE config = 0
      <3>1. 2^config = 1 BY <1>1, <2>1, Powers
      <3> QED BY <3>1
    <2>2. CASE config = 1
      <3>1. 2^config = 2 BY <1>1, <2>2, Powers
      <3> QED BY <3>1
    <2>3. CASE config = 2
      <3>1. 2^config = 4 BY <1>1, <2>3, Powers
      <3> QED BY <3>1
    <2> QED BY <1>1, <2>1, <2>2, <2>3
  <1>4. /\ (Fs * 2^config) \div 400 \in Fs \div 400..(Fs * 60) \div 1000
        /\ Fs \div 50 \in Fs \div 400..(Fs * 60) \div 1000
        /\ Fs \div 100 \in Fs \div 400..(Fs * 60) \div 1000
        /\ (Fs * 60) \div 1000 \in Fs \div 400..(Fs * 60) \div 1000
        /\ config # 3 => (Fs * 2^config) \div 100 \in Fs \div 400..(Fs * 60) \div 1000
    <2>1. CASE Fs = 8000
      BY <1>3, <1>b, <2>1
    <2>2. CASE Fs = 48000
      BY <1>3, <1>b, <2>2, SMTT(30)
    <2> QED BY <2>1, <2>2 DEF Rates
  <1>5. CASE toc >= 128
    <2>1. SamplesPerFrame(toc, Fs) = (Fs * 2^config) \div 400
      BY <1>2, <1>5 DEF SamplesPerFrame, config
    <2> QED BY <1>4, <2>1
  <1>6. CASE toc \in 96..127
    <2>1. SamplesPerFrame(toc, Fs) = IF config % 2 = 1 THEN Fs \div 50 ELSE Fs \div 100
      BY <1>2, <1>6 DEF SamplesPerFrame, config
    <2> QED BY <1>4, <2>1
  <1>7. CASE toc < 96 /\ config = 3
    <2>1. SamplesPerFrame(toc, Fs) = (Fs * 60) \div 1000
      BY <1>2, <1>7 DEF SamplesPerFrame, config
    <2> QED BY <1>4, <2>1
  <1>8. CASE toc < 96 /\ config # 3
    <2>1. SamplesPerFrame(toc, Fs) = (Fs * 2^config) \div 100
      BY <1>2, <1>8 DEF SamplesPerFrame, config
    <2> QED BY <1>4, <1>8, <2>1
  <1> QED BY <1>2, <1>5, <1>6, <1>7, <1>8

(* A packet that is not too long has at most 48 frames.                     *)
LEMMA CountOK ==
    ASSUME NEW toc \in Bytes, NEW b \in Bytes, b % 64 # 0,
           ~(SamplesPerFrame(toc, 48000) * (b % 64) > 5760)
    PROVE  b % 64 \in 1..48
  <1>1. PICK n \in 0..63 : n = b % 64 BY DEF Bytes
  <1>2. PICK s \in 120..2880 : s = SamplesPerFrame(toc, 48000)
    <2>1. 48000 \div 400 = 120 /\ (48000 * 60) \div 1000 = 2880 OBVIOUS
    <2> QED BY <2>1, SamplesOK DEF Rates
  <1>3. s * n <= 5760 BY <1>1, <1>2
  <1>4. 120 * n <= s * n
    <2>1. \A x, y \in Nat : x * y >= 0 OBVIOUS
    <2>2. (s - 120) * n >= 0
      <3>1. s - 120 \in Nat /\ n \in Nat OBVIOUS
      <3> QED BY <2>1, <3>1
    <2>3. (s - 120) * n = s * n - 120 * n BY <1>1, <1>2
    <2>4. s * n \in Int OBVIOUS
    <2> QED BY <2>2, <2>3, <2>4
  <1> QED BY <1>1, <1>3, <1>4

(* Padding is part of the packet.                                           *)
LEMMA Least ==
    ASSUME NEW S, S \subseteq Nat, S # {}
    PROVE  \E n \in S : \A m \in Nat : m < n => m \notin S
  <1>1. PICK n \in S : \A m \in S : ~(<<m, n>> \in Less) BY WFMin, LessWF
  <1>2. ASSUME NEW m \in Nat, m < n PROVE m \notin S
    <2>1. n \in Nat OBVIOUS
    <2>2. <<m, n>> \in Less BY <1>2, <2>1 DEF Less
    <2> QED BY <1>1, <2>2
  <1> QED BY <1>2

Dense(c, d) == \E k \in Nat : d.at = c.at + k /\ d.pad <= 254 * k

(* The padding leaves the packet divided right.                             *)
LEMMA SkipPaddingOK ==
    ASSUME NEW p, PacketOK(p), NEW c, Placed(p, c), c.sizes = <<>>, c.pad = 0,
           SkipPadding(p, c) # Bad, ~(SkipPadding(p, c).len < 0)
    PROVE  /\ Placed(p, SkipPadding(p, c))
           /\ SkipPadding(p, c).count = c.count /\ SkipPadding(p, c).cbr = c.cbr
           /\ SkipPadding(p, c).sizes = <<>>
           /\ Dense(c, SkipPadding(p, c))
  <1> DEFINE Stop(n) == c.len - 255 * n <= 0 \/ Byte(p, c.at + n) # 255
             Ends(n) == Stop(n) /\ \A m \in 0..n - 1 : ~Stop(m)
             n == CHOOSE n \in 0..c.len + 1 : Ends(n)
             left == c.len - 255 * n
             b == Byte(p, c.at + n)
             r == [c EXCEPT !.at = c.at + n + 1, !.len = left - 1 - b,
                            !.pad = 254 * n + b]
  <1>1. /\ c \in Cursors /\ c.at \in Nat /\ c.len \in Nat /\ p.len \in Nat
        /\ c.at + c.len = p.len
    BY DEF Placed, Cursors, PacketOK
  <1>2. n \in 0..c.len + 1 /\ Ends(n)
    <2> DEFINE S == {m \in Nat : Stop(m)}
    <2>1. c.len \in S BY <1>1
    <2> HIDE DEF Stop
    <2>2. PICK k \in S : \A m \in Nat : m < k => m \notin S BY <2>1, Least
    <2>3. k <= c.len BY <1>1, <2>1, <2>2
    <2>4. k \in 0..c.len + 1 /\ Ends(k) BY <1>1, <2>2, <2>3
    <2> QED BY <2>4
  <1> HIDE DEF n
  <1>3. SkipPadding(p, c) = IF left <= 0 THEN Bad ELSE r
    BY DEF SkipPadding, n
  <1>4. left > 0 BY <1>1, <1>2, <1>3
  <1>5. n \in Nat /\ 255 * n < c.len BY <1>1, <1>2, <1>4
  <1>6. b \in Bytes
    <2>1. c.at + n \in Nat /\ c.at + n < p.len BY <1>1, <1>5
    <2> QED BY <2>1, ByteType
  <1> HIDE DEF b
  <1>7. SkipPadding(p, c) = r BY <1>1, <1>3, <1>4, <1>5
  <1>8. left - 1 - b >= 0
    <2>1. r.len = left - 1 - b BY <1>1 DEF Cursors
    <2>2. ~(left - 1 - b < 0) BY <1>7, <2>1
    <2> QED BY <1>1, <1>5, <1>6, <2>2 DEF Bytes
  <1>a. PICK a \in Nat, l \in Nat, k \in Nat, x \in 0..255 :
           a = c.at /\ l = c.len /\ k = n /\ x = b
    BY <1>1, <1>5, <1>6 DEF Bytes
  <1>9. /\ c.at + n + 1 \in Nat /\ left - 1 - b \in Nat /\ 254 * n + b \in Nat
        /\ (c.at + n + 1) + (left - 1 - b) + (254 * n + b) = p.len
    <2>1. l - 255 * k - 1 - x >= 0 BY <1>8, <1>a
    <2>2. /\ a + k + 1 \in Nat /\ l - 255 * k - 1 - x \in Nat /\ 254 * k + x \in Nat
          /\ (a + k + 1) + (l - 255 * k - 1 - x) + (254 * k + x) = a + l
      BY <2>1
    <2>3. a + l = p.len BY <1>1, <1>a
    <2> QED BY <1>a, <2>2, <2>3
  <1>10. /\ r \in Cursors /\ r.at = c.at + n + 1 /\ r.len = left - 1 - b
         /\ r.pad = 254 * n + b /\ r.sizes = c.sizes /\ r.count = c.count
         /\ r.cbr = c.cbr
    <2> DEFINE at == c.at + n + 1
               len == left - 1 - b
               pad == 254 * n + b
    <2>1. at \in Nat /\ len \in Nat /\ pad \in Nat BY <1>9
    <2>2. r = [c EXCEPT !.at = at, !.len = len, !.pad = pad] OBVIOUS
    <2> HIDE DEF at, len, pad, r
    <2>3. /\ r \in Cursors /\ r.at = at /\ r.len = len
          /\ r.pad = pad /\ r.sizes = c.sizes /\ r.count = c.count
          /\ r.cbr = c.cbr
      BY <1>1, <2>1, <2>2, ZenonT(40) DEF Cursors
    <2> QED BY <2>3 DEF at, len, pad
  <1>11. Dense(c, r)
    <2>1. b # 255 BY <1>1, <1>2, <1>4, <1>5 DEF b
    <2>2. x <= 254 BY <1>a, <2>1
    <2>3. k + 1 \in Nat /\ a + k + 1 = a + (k + 1) /\ 254 * k + x <= 254 * (k + 1)
      BY <2>2
    <2> HIDE DEF r
    <2>4. r.at = c.at + (k + 1) /\ r.pad <= 254 * (k + 1) BY <1>a, <1>10, <2>3
    <2> QED BY <2>3, <2>4 DEF Dense
  <1> HIDE DEF r, left
  <1> QED BY <1>7, <1>9, <1>10, <1>11 DEF Placed

-----------------------------------------------------------------------------
(* What the lengths in a header leave for the last frame.                   *)

(* What the lengths in a header leave for the last frame.                   *)
Even(c) ==
    /\ c.cbr /\ c.last \in Nat /\ c.count * c.last = c.len
    /\ c.sizes = [i \in 1..c.count - 1 |-> c.last]
Led(p, sd, c) ==
    /\ Placed(p, c)
    /\ \/ sd /\ c.cbr /\ c.sizes = <<>>
       \/ ~sd /\ Even(c)
       \/ ~c.cbr /\ Reading(p, c) /\ Len(c.sizes) = c.count - 1 /\ c.last >= 0

(* Padding takes a byte of the header for each 254 of its own; the lengths   *)
(* take one or two.                                                         *)
Laid(c) ==
    \E k \in Nat :
       c.pad <= 254 * k /\ c.at = 2 + k + (IF c.cbr THEN 0 ELSE LongBytes(c.sizes))
LaidOut(c) == c.pad > 0 => Laid(c)

LEMMA DivExact ==
    ASSUME NEW len \in Nat, NEW n \in 1..48, len % n = 0
    PROVE  len \div n \in Nat /\ n * (len \div n) = len
  OBVIOUS

LEMMA EvenSizesOK ==
    ASSUME NEW p, NEW c, Placed(p, c), c.cbr, c.sizes = <<>>, NEW sd \in BOOLEAN,
           EvenSizes(c, sd) # Bad
    PROVE  /\ Led(p, sd, EvenSizes(c, sd)) /\ EvenSizes(c, sd).count = c.count
           /\ EvenSizes(c, sd).at = c.at /\ EvenSizes(c, sd).pad = c.pad
           /\ EvenSizes(c, sd).cbr
  <1>1. CASE sd
    <2>1. EvenSizes(c, sd) = c BY <1>1 DEF EvenSizes
    <2> QED BY <1>1, <2>1 DEF Led
  <1>2. CASE ~sd
    <2> DEFINE k == c.len \div c.count
               s == [i \in 1..c.count - 1 |-> k]
               r == [c EXCEPT !.last = k, !.sizes = s]
    <2>1. /\ c \in Cursors /\ c.at \in Nat /\ c.len \in Nat /\ c.count \in 1..48
          /\ c.at + c.len + c.pad = p.len
      BY DEF Placed, Cursors
    <2>2. c.len % c.count = 0 /\ EvenSizes(c, sd) = r BY <1>2 DEF EvenSizes
    <2>3. k \in Nat /\ c.count * k = c.len BY <2>1, <2>2, DivExact
    <2> HIDE DEF k
    <2>4. s \in Seq(Nat)
      <3>1. \A m \in 1..48 : m - 1 \in Nat OBVIOUS
      <3>2. c.count - 1 \in Nat BY <2>1, <3>1
      <3> QED BY <2>3, <3>2
    <2>5. /\ r \in Cursors /\ r.at = c.at /\ r.len = c.len /\ r.last = k
          /\ r.sizes = s /\ r.count = c.count /\ r.cbr = c.cbr /\ r.pad = c.pad
      <3> HIDE DEF s
      <3>1. c \in Cursors /\ k \in Int BY <2>1, <2>3
      <3> QED BY <2>4, <3>1 DEF Cursors
    <2> HIDE DEF r
    <2>6. Even(r) BY <2>3, <2>5 DEF Even
    <2> QED BY <1>2, <2>1, <2>2, <2>5, <2>6 DEF Led, Placed
  <1> QED BY <1>1, <1>2

LEMMA StartOK ==
    ASSUME NEW p, NEW c \in Cursors, c.at + c.len = p.len, c.last = c.len,
           c.sizes = <<>>, c.pad = 0
    PROVE  Placed(p, c) /\ Reading(p, c)
  <1>1. c.at \in Nat /\ c.len \in Nat BY DEF Cursors
  <1>2. Placed(p, c) BY <1>1 DEF Placed
  <1>3. Sum(c.sizes) = 0 /\ c.sizes \in Seq(Lens)
    <2>1. <<>> \in Seq(Lens) OBVIOUS
    <2> QED BY <2>1, SumEmpty
  <1>4. c.last = c.len - Sum(c.sizes) BY <1>1, <1>3
  <1> QED BY <1>2, <1>3, <1>4 DEF Reading

LEMMA CursorOK ==
    ASSUME NEW n \in 1..48, NEW cbr \in BOOLEAN, NEW at \in Nat, NEW len \in Nat
    PROVE  Cursor(n, cbr, at, len, len, <<>>, 0) \in Cursors
  <1>1. <<>> \in Seq(Nat) OBVIOUS
  <1> QED BY <1>1 DEF Cursor, Cursors

LEMMA ManyFramesOK ==
    ASSUME NEW p, PacketOK(p), NEW sd \in BOOLEAN, ManyFrames(p, sd) # Bad
    PROVE  /\ Led(p, sd, ManyFrames(p, sd))
           /\ ManyFrames(p, sd).count = Byte(p, 1) % 64 /\ p.len >= 2
           /\ Laid(ManyFrames(p, sd))
  <1> DEFINE b == Byte(p, 1)
             count == b % 64
             cbr == b < 128
             start == Cursor(count, cbr, 2, p.len - 2, p.len - 2, <<>>, 0)
             padded == IF (b \div 64) % 2 = 1 THEN SkipPadding(p, start) ELSE start
             c == [padded EXCEPT !.last = padded.len]
             d == ReadSizes(p, c, count - 1)
  <1>1. p.len \in Nat /\ p.head[1] \in Bytes
    <2>1. Len(p.head) >= 1 BY DEF PacketOK
    <2> QED BY <2>1 DEF PacketOK
  <1>2. /\ p.len >= 2 /\ count # 0
        /\ ~(SamplesPerFrame(p.head[1], 48000) * count > 5760)
    BY <1>1 DEF ManyFrames
  <1>3. b \in Bytes BY <1>1, <1>2, ByteType
  <1>4. ManyFrames(p, sd) =
          IF padded = Bad \/ padded.len < 0 THEN Bad
          ELSE IF c.cbr THEN EvenSizes(c, sd)
          ELSE IF d = Bad \/ d.last < 0 THEN Bad ELSE d
    BY <1>1, <1>2 DEF ManyFrames
  <1> HIDE DEF b
  <1>5. count \in 1..48 BY <1>1, <1>2, <1>3, CountOK
  <1>t. count = Byte(p, 1) % 64 /\ p.len >= 2 BY <1>2 DEF b
  <1> HIDE DEF count
  <1>6. cbr \in BOOLEAN /\ p.len - 2 \in Nat /\ 2 + (p.len - 2) = p.len
    BY <1>1, <1>2
  <1> HIDE DEF cbr
  <1>7. /\ Placed(p, start) /\ start.count = count /\ start.pad = 0
        /\ start.sizes = <<>> /\ start.len = p.len - 2 /\ start.at = 2
    <2> DEFINE left == p.len - 2
    <2>1. 2 \in Nat /\ left \in Nat /\ 2 + left = p.len BY <1>6
    <2>2. start = Cursor(count, cbr, 2, left, left, <<>>, 0) OBVIOUS
    <2> HIDE DEF left
    <2>3. start \in Cursors BY <1>5, <1>6, <2>1, <2>2, CursorOK
    <2>4. /\ start.count = count /\ start.at = 2 /\ start.len = left
          /\ start.last = left /\ start.sizes = <<>> /\ start.pad = 0
      BY <2>2 DEF Cursor
    <2> HIDE DEF start
    <2>5. Placed(p, start) BY <2>1, <2>3, <2>4, StartOK
    <2> QED BY <2>4, <2>5 DEF left
  <1> HIDE DEF start
  <1>8. padded # Bad /\ ~(padded.len < 0) BY <1>4
  <1>9. /\ Placed(p, padded) /\ padded.count = count /\ padded.sizes = <<>>
        /\ Dense(start, padded)
    <2>1. CASE (b \div 64) % 2 = 1
      <3>1. padded = SkipPadding(p, start) BY <2>1
      <3>2. ~(SkipPadding(p, start).len < 0) BY <1>8, <3>1
      <3> QED BY <1>7, <1>8, <3>1, <3>2, SkipPaddingOK
    <2>2. CASE (b \div 64) % 2 # 1
      <3>1. start.at = start.at + 0 /\ start.pad <= 254 * 0 /\ 0 \in Nat BY <1>7
      <3>2. padded = start BY <2>2
      <3>3. Dense(start, padded) BY <3>1, <3>2 DEF Dense
      <3> QED BY <1>7, <3>2, <3>3
    <2> QED BY <2>1, <2>2
  <1> HIDE DEF padded
  <1> DEFINE len == padded.len
  <1>10. /\ Placed(p, c) /\ c.count = count /\ c.sizes = <<>> /\ c.last = c.len
         /\ Reading(p, c) /\ c.cbr \in BOOLEAN /\ c.at = padded.at /\ c.pad = padded.pad
    <2>1. /\ padded \in Cursors /\ padded.len \in Nat /\ padded.cbr \in BOOLEAN
      BY <1>9 DEF Placed, Cursors
    <2>0. c = [padded EXCEPT !.last = len] /\ len \in Int BY <2>1
    <2> HIDE DEF len, c
    <2>2. /\ c \in Cursors /\ c.at = padded.at /\ c.len = padded.len /\ c.pad = padded.pad
          /\ c.count = padded.count /\ c.sizes = padded.sizes /\ c.last = len
          /\ c.cbr = padded.cbr
      BY <2>0, <2>1 DEF Cursors
    <2>3. Placed(p, c) BY <1>9, <2>2 DEF Placed
    <2>4. <<>> \in Seq(Lens) OBVIOUS
    <2>5. Reading(p, c) BY <1>9, <2>1, <2>2, <2>3, <2>4, SumEmpty DEF Reading, len
    <2> QED BY <1>9, <2>1, <2>2, <2>3, <2>5 DEF len
  <1> HIDE DEF c
  <1>13. PICK k \in Nat : c.at = 2 + k /\ c.pad <= 254 * k
    <2>1. PICK k \in Nat : padded.at = start.at + k /\ padded.pad <= 254 * k
      BY <1>9 DEF Dense
    <2> QED BY <1>7, <1>10, <2>1
  <1>11. CASE c.cbr
    <2>1. ManyFrames(p, sd) = EvenSizes(c, sd) BY <1>4, <1>8, <1>11
    <2> DEFINE e == EvenSizes(c, sd)
    <2>2. /\ Led(p, sd, e) /\ e.count = c.count /\ e.at = c.at /\ e.pad = c.pad /\ e.cbr
      BY <1>10, <1>11, <2>1, EvenSizesOK
    <2> HIDE DEF e
    <2>3. e.at = 2 + k + 0 BY <1>13, <2>2
    <2>4. Laid(e) BY <1>13, <2>2, <2>3 DEF Laid
    <2> QED BY <1>10, <1>t, <2>1, <2>2, <2>4 DEF e
  <1>12. CASE ~c.cbr
    <2>1. d # Bad /\ ~(d.last < 0) /\ ManyFrames(p, sd) = d BY <1>4, <1>8, <1>12
    <2>2. count - 1 \in Nat BY <1>5
    <2>3. /\ Reading(p, d) /\ d.count = c.count /\ d.cbr = c.cbr
          /\ Len(d.sizes) = Len(c.sizes) + (count - 1) /\ d.pad = c.pad
          /\ Advanced(c, d)
      BY <1>10, <2>1, <2>2, ReadSizesOK
    <2> HIDE DEF d
    <2>4. Len(c.sizes) = 0 BY <1>10
    <2>5. d.last \in Int BY <2>3 DEF Reading, Placed, Cursors
    <2>6. Len(d.sizes) = d.count - 1 /\ d.last >= 0
      BY <1>5, <1>10, <2>1, <2>2, <2>3, <2>4, <2>5
    <2>7. Placed(p, d) BY <2>3 DEF Reading
    <2>8. Led(p, sd, d) BY <1>12, <2>3, <1>t, <2>1, <2>6, <2>7 DEF Led
    <2>9. Laid(d)
      <3>1. LongBytes(c.sizes) = 0
        <4>1. Longs(<<>>, 0) = <<>> BY DEF Longs
        <4> QED BY <1>10, <4>1, SumEmpty DEF LongBytes
      <3>2. /\ d.sizes \in Seq(Lens) /\ d.at \in Nat
        BY <2>3 DEF Reading, Placed, Cursors
      <3>3. LongBytes(d.sizes) \in Nat
        <4>1. 0 \in Lens BY DEF Lens
        <4> QED BY <3>2, <4>1, LongAppend
      <3>4. d.at - LongBytes(d.sizes) = 2 + k - 0 BY <1>13, <2>3, <3>1 DEF Advanced
      <3>5. d.at = 2 + k + LongBytes(d.sizes) BY <3>2, <3>3, <3>4
      <3> QED BY <1>12, <1>13, <2>3, <3>5 DEF Laid
    <2> QED BY <1>10, <1>t, <2>1, <2>3, <2>8, <2>9
  <1> QED BY <1>10, <1>11, <1>12

-----------------------------------------------------------------------------
(* Where opus_packet_parse_impl is when it comes to the last frame.         *)
(* The four codes of a packet.                                              *)
LEMMA LeadOK ==
    ASSUME NEW p, PacketOK(p), NEW sd \in BOOLEAN, Lead(p, sd) # Bad
    PROVE  /\ Led(p, sd, Lead(p, sd)) /\ Lead(p, sd).count = NbFrames(p)
           /\ LaidOut(Lead(p, sd))
  <1> DEFINE left == p.len - 1
             start(n, cbr) == Cursor(n, cbr, 1, left, left, <<>>, 0)
  <1>1. left \in Nat /\ 1 + left = p.len /\ p.head[1] \in Bytes /\ 1 \in Nat
    <2>1. Len(p.head) >= 1 BY DEF PacketOK
    <2> QED BY <2>1 DEF PacketOK
  <1>2. PICK code \in 0..3 : code = p.head[1] % 4
    BY <1>1 DEF Bytes
  <1>3. Lead(p, sd) = CASE code = 0 -> start(1, FALSE)
                        [] code = 1 -> EvenSizes(start(2, TRUE), sd)
                        [] code = 2 -> ReadSize(p, start(2, FALSE))
                        [] code = 3 -> ManyFrames(p, sd)
    BY <1>2, Zenon DEF Lead
  <1>n. NbFrames(p) = CASE code = 0 -> 1
                        [] code \in 1..2 -> 2
                        [] code = 3 -> IF p.len < 2 THEN -1 ELSE Byte(p, 1) % 64
    BY <1>2, Zenon DEF NbFrames
  <1> HIDE DEF left
  <1>4. ASSUME NEW n \in 1..48, NEW cbr \in BOOLEAN
        PROVE  /\ Placed(p, start(n, cbr)) /\ start(n, cbr).count = n
               /\ start(n, cbr).sizes = <<>>
               /\ start(n, cbr).last = left /\ start(n, cbr).pad = 0
               /\ Reading(p, start(n, cbr))
    <2> DEFINE c == start(n, cbr)
    <2>1. c = Cursor(n, cbr, 1, left, left, <<>>, 0) OBVIOUS
    <2>2. c \in Cursors BY <1>1, <2>1, CursorOK
    <2>3. /\ c.count = n /\ c.at = 1 /\ c.len = left
          /\ c.last = left /\ c.sizes = <<>> /\ c.pad = 0
      BY <2>1 DEF Cursor
    <2> HIDE DEF c
    <2>5. Placed(p, c) /\ Reading(p, c) BY <1>1, <2>2, <2>3, StartOK
    <2> QED BY <2>3, <2>5 DEF c
  <1>5. CASE code = 0
    <2>1. Lead(p, sd) = start(1, FALSE) BY <1>3, <1>5
    <2>2. 1 \in 1..48 /\ FALSE \in BOOLEAN /\ Len(<<>>) = 0 OBVIOUS
    <2> QED
      <3> DEFINE c == start(1, FALSE)
      <3>0. ~c.cbr BY DEF Cursor
      <3>1. Placed(p, c) /\ c.count = 1 /\ ~c.cbr /\ c.sizes = <<>> /\ c.last = left
            /\ Reading(p, c) /\ c.pad = 0
        BY <1>4, <2>2, <3>0
      <3> HIDE DEF c
      <3>2. Len(c.sizes) = c.count - 1 /\ c.last >= 0 BY <1>1, <2>2, <3>1
      <3>3. Led(p, sd, c) BY <3>1, <3>2 DEF Led
      <3>4. NbFrames(p) = 1 BY <1>5, <1>n
      <3>5. LaidOut(c) BY <3>1 DEF LaidOut
      <3> QED BY <2>1, <3>1, <3>3, <3>4, <3>5 DEF c
  <1>6. CASE code = 1
    <2> DEFINE c == start(2, TRUE)
    <2>1. Lead(p, sd) = EvenSizes(c, sd) BY <1>3, <1>6
    <2>2. 2 \in 1..48 /\ TRUE \in BOOLEAN OBVIOUS
    <2>a. c.cbr BY DEF Cursor
    <2>3. Placed(p, c) /\ c.cbr /\ c.sizes = <<>> /\ c.count = 2 /\ c.pad = 0
      BY <1>4, <2>2, <2>a
    <2>4. NbFrames(p) = 2 BY <1>6, <1>n
    <2> HIDE DEF c
    <2>5. Led(p, sd, EvenSizes(c, sd)) /\ EvenSizes(c, sd).count = c.count
          /\ EvenSizes(c, sd).pad = c.pad
      BY <2>1, <2>3, EvenSizesOK
    <2>6. LaidOut(EvenSizes(c, sd)) BY <2>3, <2>5 DEF LaidOut
    <2> QED BY <2>1, <2>3, <2>4, <2>5, <2>6
  <1>7. CASE code = 2
    <2> DEFINE c == start(2, FALSE)
    <2>1. Lead(p, sd) = ReadSize(p, c) BY <1>3, <1>7
    <2>2. 2 \in 1..48 /\ FALSE \in BOOLEAN /\ Len(<<>>) = 0 OBVIOUS
    <2>a. ~c.cbr BY DEF Cursor
    <2>3. Placed(p, c) /\ c.count = 2 /\ ~c.cbr /\ c.sizes = <<>> /\ c.last = left
          /\ Reading(p, c) /\ c.pad = 0
      BY <1>4, <2>2, <2>a
    <2> HIDE DEF c
    <2> DEFINE d == ReadSize(p, c)
    <2>4. Reading(p, d) /\ d.count = c.count /\ d.cbr = c.cbr
          /\ Len(d.sizes) = Len(c.sizes) + 1 /\ d.pad = c.pad
      BY <2>1, <2>3, ReadSizeOK
    <2>5. d.last >= 0
      <3> DEFINE s == ParseSize(p, c.at, c.len)
                 x == c.last - s.bytes - s.size
      <3>1. ~(s.size < 0 \/ s.size > c.len - s.bytes) BY <2>1 DEF ReadSize
      <3>2. d = [c EXCEPT !.at = c.at + s.bytes, !.len = c.len - s.bytes,
                          !.last = x, !.sizes = Append(c.sizes, s.size)]
        BY <3>1 DEF ReadSize
      <3>3. c \in Cursors /\ c.at \in Nat /\ c.len \in Nat /\ c.pad \in Nat
            /\ c.at + c.len + c.pad = p.len
        BY <2>3 DEF Placed, Cursors
      <3>4. c.last = c.len
        <4>1. c.last = c.len - Sum(<<>>) BY <2>3 DEF Reading
        <4> QED BY <3>3, <4>1, SumEmpty
      <3>5. s = NoSize \/ SizeOK(s, c.len)
        <4>1. c.len \in Int /\ c.at + c.len <= p.len BY <3>3, <1>1
        <4> QED BY <3>3, <4>1, ParseSizeOK
      <3>6. d.last = x
        <4> HIDE DEF x, s
        <4> QED BY <3>2, <3>3 DEF Cursors
      <3> HIDE DEF s, d
      <3>7. SizeOK(s, c.len) BY <3>1, <3>5 DEF NoSize
      <3>8. s.bytes \in Int /\ s.size \in Int BY <3>7, SMTT(30) DEF SizeOK, Lens
      <3> QED BY <3>1, <3>3, <3>4, <3>6, <3>8
    <2> HIDE DEF d
    <2>6. Len(d.sizes) = d.count - 1 BY <2>2, <2>3, <2>4
    <2>7. Led(p, sd, d) BY <2>3, <2>4, <2>5, <2>6 DEF Led, Reading
    <2>8. NbFrames(p) = 2 BY <1>7, <1>n
    <2>9. LaidOut(d) BY <2>3, <2>4 DEF LaidOut
    <2> QED BY <2>1, <2>3, <2>4, <2>7, <2>8, <2>9 DEF d
  <1>8. CASE code = 3
    <2>1. Lead(p, sd) = ManyFrames(p, sd) BY <1>3, <1>8
    <2>2. p.len >= 2 /\ Led(p, sd, Lead(p, sd)) /\ Lead(p, sd).count = Byte(p, 1) % 64
      BY <2>1, ManyFramesOK
    <2>3. NbFrames(p) = IF p.len < 2 THEN -1 ELSE Byte(p, 1) % 64 BY <1>8, <1>n
    <2>4. ~(p.len < 2) BY <2>2 DEF PacketOK
    <2>5. LaidOut(Lead(p, sd))
      <3>1. Laid(ManyFrames(p, sd)) BY <2>1, ManyFramesOK
      <3> QED BY <2>1, <3>1 DEF LaidOut
    <2> QED BY <2>2, <2>3, <2>4, <2>5
  <1> QED BY <1>5, <1>6, <1>7, <1>8

-----------------------------------------------------------------------------
(* The frames the parser finds lie inside the packet.                       *)
Inside(p, sd, c) ==
    /\ c.count \in 1..48 /\ c.sizes \in Seq(Lens) /\ Len(c.sizes) = c.count
    /\ c.at \in Nat /\ c.pad \in Nat
    /\ IF sd THEN c.at + Sum(c.sizes) + c.pad <= p.len
       ELSE c.at + Sum(c.sizes) + c.pad = p.len

(* A whole number between 0 and 1275 is the size of a frame.                *)
LEMMA IsLens ==
    ASSUME NEW k \in Int, k >= 0, k <= 1275
    PROVE  k \in Lens
  BY DEF Lens

LEMMA NoMore ==
    ASSUME NEW p, NEW c, Led(p, FALSE, c), LastSize(p, c, FALSE) # Bad
    PROVE  Inside(p, FALSE, LastSize(p, c, FALSE)) /\ LastSize(p, c, FALSE).count = c.count
  <1> DEFINE t == Append(c.sizes, c.last)
             d == [c EXCEPT !.sizes = t]
  <1>1. ~(c.last > 1275) /\ LastSize(p, c, FALSE) = d BY DEF LastSize
  <1>2. /\ c \in Cursors /\ c.at \in Nat /\ c.len \in Nat /\ c.pad \in Nat
        /\ c.count \in 1..48 /\ c.last \in Int /\ c.at + c.len + c.pad = p.len
    BY DEF Led, Placed, Cursors
  <1>l. c.last <= 1275
    <2>1. ~(c.last > 1275) BY <1>1, ZenonT(40)
    <2> QED BY <1>2, <2>1
  <1>3. /\ c.last \in Lens /\ c.sizes \in Seq(Lens) /\ Len(c.sizes) = c.count - 1
        /\ Sum(c.sizes) + c.last = c.len
    <2>1. CASE Even(c)
      <3>1. PICK k \in Nat, n \in 1..48 : k = c.last /\ n = c.count
        BY <1>2, <2>1 DEF Even
      <3>2. k \in Lens BY <1>l, <3>1, SMTT(30) DEF Lens
      <3>3. n - 1 \in Nat OBVIOUS
      <3>4. c.sizes = [i \in 1..n - 1 |-> k] BY <2>1, <3>1 DEF Even
      <3>5. c.sizes \in Seq(Lens) /\ Len(c.sizes) = n - 1 BY <3>2, <3>3, <3>4
      <3>6. Sum(c.sizes) = (n - 1) * k BY <3>3, <3>4, SumConst
      <3>7. (n - 1) * k + k = n * k OBVIOUS
      <3>8. n * k = c.len BY <2>1, <3>1 DEF Even
      <3> QED BY <3>1, <3>2, <3>5, <3>6, <3>7, <3>8
    <2>2. CASE Reading(p, c) /\ Len(c.sizes) = c.count - 1 /\ c.last >= 0
      <3>1. c.sizes \in Seq(Lens) /\ c.last = c.len - Sum(c.sizes)
        BY <2>2 DEF Reading
      <3>2. Sum(c.sizes) \in Nat BY <3>1, LensSum
      <3>3. Sum(c.sizes) + c.last = c.len BY <1>2, <3>1, <3>2
      <3>4. c.last \in Lens
        <4>1. c.last >= 0 BY <2>2, Zenon
        <4>2. c.last \in Int BY <1>2, Zenon
        <4> QED BY <1>l, <4>1, <4>2, IsLens, ZenonT(40)
      <3> QED BY <2>2, <3>1, <3>3, <3>4
    <2> QED BY <2>1, <2>2 DEF Led
  <1>4. /\ t \in Seq(Lens) /\ t \in Seq(Nat) /\ Len(t) = Len(c.sizes) + 1
        /\ Sum(t) = Sum(c.sizes) + c.last
    BY <1>3, LensAppend
  <1> HIDE DEF t
  <1>5. /\ d.sizes = t /\ d.count = c.count /\ d.at = c.at /\ d.pad = c.pad
    BY <1>2 DEF Cursors
  <1> HIDE DEF d
  <1>6. Len(t) = c.count
    <2>1. \A n \in 1..48 : (n - 1) + 1 = n OBVIOUS
    <2> QED BY <1>2, <1>3, <1>4, <2>1
  <1>7. c.at + Sum(t) + c.pad = p.len BY <1>2, <1>3, <1>4
  <1>8. Inside(p, FALSE, d) BY <1>2, <1>4, <1>5, <1>6, <1>7 DEF Inside
  <1> QED BY <1>1, <1>5, <1>8, ZenonT(40)

LEMMA OneMore ==
    ASSUME NEW p, PacketOK(p), NEW c, Led(p, TRUE, c), LastSize(p, c, TRUE) # Bad
    PROVE  Inside(p, TRUE, LastSize(p, c, TRUE)) /\ LastSize(p, c, TRUE).count = c.count
  <1> DEFINE s == ParseSize(p, c.at, c.len)
             left == c.len - s.bytes
             t == IF c.cbr THEN [i \in 1..c.count |-> s.size]
                  ELSE Append(c.sizes, s.size)
             d == [c EXCEPT !.at = c.at + s.bytes, !.len = left, !.sizes = t]
  <1>1. /\ c \in Cursors /\ c.at \in Nat /\ c.len \in Nat /\ c.pad \in Nat
        /\ c.count \in 1..48 /\ c.last \in Int /\ c.at + c.len + c.pad = p.len
        /\ p.len \in Nat
    BY DEF Led, Placed, Cursors, PacketOK
  <1>2. s = NoSize \/ SizeOK(s, c.len)
    <2>1. c.len \in Int /\ c.at + c.len <= p.len BY <1>1
    <2> QED BY <1>1, <2>1, ParseSizeOK
  <1>3. /\ ~(s.size < 0 \/ s.size > left) /\ LastSize(p, c, TRUE) = d
        /\ c.cbr => ~(s.size * c.count > left)
        /\ ~c.cbr => ~(s.bytes + s.size > c.last)
    BY Zenon DEF LastSize
  <1> HIDE DEF s
  <1>4. PICK bytes \in 1..2, size \in Lens : bytes = s.bytes /\ size = s.size /\ bytes <= c.len
    <2>1. SizeOK(s, c.len) BY <1>2, <1>3 DEF NoSize
    <2> QED BY <2>1 DEF SizeOK
  <1>5. PICK at \in Nat, len \in Nat, pad \in Nat, n \in 1..48 :
           at = c.at /\ len = c.len /\ pad = c.pad /\ n = c.count
    BY <1>1
  <1>6. /\ t \in Seq(Lens) /\ Len(t) = n /\ Sum(t) \in Nat /\ Sum(t) <= len - bytes
    <2>1. CASE c.cbr
      <3>1. t = [i \in 1..n |-> size] BY <1>4, <1>5, <2>1
      <3>2. n \in Nat /\ size \in Nat BY DEF Lens
      <3>3. t \in Seq(Lens) /\ Len(t) = n
        <4> HIDE DEF t
        <4> QED BY <3>1, <3>2
      <3>4. Sum(t) = n * size
        <4> HIDE DEF t
        <4> QED BY <3>1, <3>2, SumConst
      <3>5. ~(size * n > len - bytes) BY <1>3, <1>4, <1>5, <2>1
      <3>6. n * size = size * n /\ n * size \in Nat BY <3>2
      <3>7. len - bytes \in Int OBVIOUS
      <3> HIDE DEF t
      <3> QED BY <3>3, <3>4, <3>5, <3>6, <3>7
    <2>2. CASE ~c.cbr
      <3>1. Reading(p, c) /\ Len(c.sizes) = c.count - 1 BY <2>2 DEF Led
      <3>2. c.sizes \in Seq(Lens) /\ c.last = c.len - Sum(c.sizes) BY <3>1 DEF Reading
      <3>3. t = Append(c.sizes, size) BY <1>4, <2>2
      <3> HIDE DEF t
      <3>4. /\ t \in Seq(Lens) /\ Len(t) = Len(c.sizes) + 1
            /\ Sum(t) = Sum(c.sizes) + size
        BY <3>2, <3>3, LensAppend
      <3>5. PICK sum \in Nat : sum = Sum(c.sizes) BY <3>2, LensSum
      <3>6. ~(bytes + size > len - sum) BY <1>3, <1>4, <1>5, <2>2, <3>2, <3>5
      <3>7. sum + size \in Nat /\ sum + size <= len - bytes BY <3>6 DEF Lens
      <3>8. Len(t) = n BY <1>5, <3>1, <3>4
      <3> QED BY <3>4, <3>5, <3>7, <3>8
    <2> QED BY <2>1, <2>2
  <1> HIDE DEF t
  <1>7. /\ d.sizes = t /\ d.count = c.count /\ d.at = c.at + s.bytes /\ d.pad = c.pad
    BY <1>1 DEF Cursors
  <1> HIDE DEF d
  <1>8. PICK sum \in Nat : sum = Sum(t) BY <1>6
  <1>9. (at + bytes) + sum + pad <= at + len + pad /\ at + bytes \in Nat
    BY <1>6, <1>8
  <1>10. d.at + Sum(d.sizes) + d.pad <= p.len /\ d.at \in Nat /\ d.pad \in Nat
    BY <1>1, <1>4, <1>5, <1>7, <1>8, <1>9
  <1>11. Inside(p, TRUE, d) BY <1>5, <1>6, <1>7, <1>10 DEF Inside
  <1> QED BY <1>3, <1>7, <1>11

LEMMA OnlyIs == ASSUME NEW x PROVE Only({x}) = x
  BY DEF Only

(* Whatever the bytes of a packet: its frames are inside it.                *)
LEMMA ParseOK ==
    ASSUME NEW p, PacketOK(p), NEW sd \in BOOLEAN, Parse(p, sd) # Bad
    PROVE  Inside(p, sd, Parse(p, sd)) /\ Parse(p, sd).count = NbFrames(p)
  <1> DEFINE c == Lead(p, sd)
             d == IF c = Bad THEN Bad ELSE LastSize(p, c, sd)
  <1>1. Parse(p, sd) = d
    <2>1. p.len # 0 BY DEF PacketOK
    <2>2. {IF e = Bad THEN Bad ELSE LastSize(p, e, sd) : e \in {c}} = {d} OBVIOUS
    <2> HIDE DEF c, d
    <2>3. Only({d}) = d BY OnlyIs
    <2> QED BY <2>1, <2>2, <2>3, Zenon DEF Parse, c
  <1>2. c # Bad /\ d = LastSize(p, c, sd) BY <1>1
  <1>3. Led(p, sd, c) /\ c.count = NbFrames(p) BY <1>2, LeadOK
  <1> HIDE DEF c
  <1>4. CASE sd
    <2>1. sd = TRUE BY <1>4
    <2>2. Led(p, TRUE, c) /\ d = LastSize(p, c, TRUE) BY <1>2, <1>3, <2>1, Zenon
    <2>3. Inside(p, TRUE, d) /\ d.count = c.count BY <1>1, <2>2, OneMore
    <2> QED BY <1>1, <1>3, <2>1, <2>3, Zenon
  <1>5. CASE ~sd
    <2>1. sd = FALSE BY <1>5
    <2>2. Led(p, FALSE, c) /\ d = LastSize(p, c, FALSE) BY <1>2, <1>3, <2>1, Zenon
    <2>3. Inside(p, FALSE, d) /\ d.count = c.count BY <1>1, <2>2, NoMore
    <2> QED BY <1>1, <1>3, <2>1, <2>3, Zenon
  <1> QED BY <1>4, <1>5

-----------------------------------------------------------------------------
(* How lengths and padding are written.                                     *)

(* How lengths and padding are written.                                     *)
LEMMA EncodeOK ==
    ASSUME NEW x \in Lens
    PROVE  /\ EncodeSize(x) \in Seq(Bytes) /\ IsLong(x) \in 0..1
           /\ Len(EncodeSize(x)) = 1 + IsLong(x)
           /\ x < 252 => EncodeSize(x)[1] = x
           /\ x >= 252 => /\ EncodeSize(x)[1] >= 252
                          /\ 4 * EncodeSize(x)[2] + EncodeSize(x)[1] = x
  <1>1. CASE x < 252
    <2>1. EncodeSize(x) = <<x>> /\ IsLong(x) = 0 BY <1>1 DEF EncodeSize, IsLong, Lens
    <2>2. x \in Bytes BY <1>1 DEF Lens, Bytes
    <2> QED BY <1>1, <2>1, <2>2 DEF Lens
  <1>2. CASE x >= 252
    <2> DEFINE a == 252 + (x % 4)
               b == (x - a) \div 4
    <2>1. EncodeSize(x) = <<a, b>> /\ IsLong(x) = 1
      BY <1>2 DEF EncodeSize, IsLong, Lens
    <2>2. a \in 252..255 /\ b \in 0..255 /\ 4 * b + a = x BY <1>2 DEF Lens
    <2> HIDE DEF a, b
    <2>3. a \in Bytes /\ b \in Bytes BY <2>2 DEF Bytes
    <2> QED BY <1>2, <2>1, <2>2, <2>3 DEF Lens
  <1> QED BY <1>1, <1>2 DEF Lens

Padding(e) == IF e = 0 THEN 0 ELSE (e - 1) \div 255 + 1

LEMMA PaddingNumbers ==
    ASSUME NEW e \in Nat \ {0}
    PROVE  LET q == (e - 1) \div 255 IN
           q \in Nat /\ e - 255 * q - 1 \in 0..254 /\ q + 1 <= e
  OBVIOUS

LEMMA PaddingOK ==
    ASSUME NEW e \in Nat
    PROVE  /\ PaddingBytes(e) \in Seq(Bytes) /\ Len(PaddingBytes(e)) = Padding(e)
           /\ Padding(e) \in Nat /\ Padding(e) <= e
           /\ e > 0 => /\ Padding(e) > 0
                       /\ \A i \in 1..Padding(e) - 1 : PaddingBytes(e)[i] = 255
                       /\ PaddingBytes(e)[Padding(e)] = e - 255 * (Padding(e) - 1) - 1
                       /\ e - 255 * (Padding(e) - 1) - 1 \in 0..254
  <1>1. CASE e = 0
    <2>1. PaddingBytes(e) = <<>> /\ Padding(e) = 0 BY <1>1 DEF PaddingBytes, Padding
    <2>2. <<>> \in Seq(Bytes) /\ Len(<<>>) = 0 /\ 0 \in Nat /\ 0 <= e /\ ~(e > 0)
      BY <1>1
    <2> QED BY <2>1, <2>2, Zenon
  <1>2. CASE e # 0
    <2> DEFINE q == (e - 1) \div 255
               b == e - 255 * q - 1
               front == [i \in 1..q |-> 255]
    <2>1. q \in Nat /\ b \in 0..254 /\ q + 1 <= e BY <1>2, PaddingNumbers
    <2>2. PaddingBytes(e) = front \o <<b>> /\ Padding(e) = q + 1
      BY <1>2 DEF PaddingBytes, Padding
    <2> HIDE DEF q, b
    <2>3. /\ front \in Seq(Bytes) /\ Len(front) = q /\ \A i \in 1..q : front[i] = 255
          /\ <<b>> \in Seq(Bytes) /\ Len(<<b>>) = 1 /\ <<b>>[1] = b
      BY <2>1 DEF Bytes
    <2> HIDE DEF front
    <2>4. /\ front \o <<b>> \in Seq(Bytes) /\ Len(front \o <<b>>) = q + 1
          /\ \A i \in 1..q : (front \o <<b>>)[i] = 255
          /\ (front \o <<b>>)[q + 1] = b
      BY <2>1, <2>3
    <2>5. (q + 1) - 1 = q /\ q + 1 \in Nat /\ q + 1 > 0 BY <2>1
    <2>6. e - 255 * q - 1 = b BY DEF b
    <2> QED BY <1>2, <2>1, <2>2, <2>4, <2>5, <2>6
  <1> QED BY <1>1, <1>2

(* The lengths of all frames but the last, one after another.               *)
Codes(lens, m) == [i \in 1..m |-> EncodeSize(lens[i])]
Chain(lens, m, h) ==
    /\ h \in [0..m -> Seq(Bytes)] /\ h[0] = <<>>
    /\ \A i \in 1..m : h[i] = h[i - 1] \o EncodeSize(lens[i])

LEMMA ChainExists ==
    ASSUME NEW lens \in Seq(Lens), NEW m \in 0..Len(lens)
    PROVE  \E h : Chain(lens, m, h)
  <1> DEFINE F == [x \in (1..m) \X Seq(Bytes) |-> x[2] \o EncodeSize(lens[x[1]])]
  <1>1. m \in Nat /\ \A i \in 1..m : lens[i] \in Lens OBVIOUS
  <1>2. \A i \in 1..m, s \in Seq(Bytes) : s \o EncodeSize(lens[i]) \in Seq(Bytes)
    <2> TAKE i \in 1..m, s \in Seq(Bytes)
    <2>1. EncodeSize(lens[i]) \in Seq(Bytes) BY <1>1, EncodeOK
    <2> QED BY <2>1
  <1>3. F \in [(1..m) \X Seq(Bytes) -> Seq(Bytes)]
    <2>1. \A x \in (1..m) \X Seq(Bytes) : x[2] \o EncodeSize(lens[x[1]]) \in Seq(Bytes)
      BY <1>2
    <2> QED BY <2>1
  <1>4. \A i \in 1..m, s \in Seq(Bytes) : F[<<i, s>>] = s \o EncodeSize(lens[i]) OBVIOUS
  <1> HIDE DEF F
  <1>5. <<>> \in Seq(Bytes) OBVIOUS
  <1>6. PICK h \in [0..m -> Seq(Bytes)] : Steps(<<>>, F, m, h)
    BY <1>1, <1>3, <1>5, StepsExist
  <1>7. \A i \in 0..m : h[i] = IF i = 0 THEN <<>> ELSE F[<<i, h[i - 1]>>]
    BY <1>6 DEF Steps
  <1>8. ASSUME NEW i \in 1..m PROVE h[i] = h[i - 1] \o EncodeSize(lens[i])
    <2>1. i \in 0..m /\ i # 0 /\ i - 1 \in 0..m BY <1>1
    <2>2. h[i - 1] \in Seq(Bytes) BY <2>1
    <2>3. h[i] = F[<<i, h[i - 1]>>] BY <1>7, <2>1
    <2> QED BY <1>4, <2>2, <2>3
  <1>9. h[0] = <<>>
    <2>1. 0 \in 0..m BY <1>1
    <2> QED BY <1>7, <2>1, Zenon
  <1> QED BY <1>8, <1>9 DEF Chain

(* FlattenSeq, piece by piece.                                              *)
LEMMA FlattenIs ==
    ASSUME NEW lens \in Seq(Lens), NEW m \in 1..Len(lens)
    PROVE  \E h : Chain(lens, m, h) /\ FlattenSeq(Codes(lens, m)) = h[m]
  <1> DEFINE seqs == Codes(lens, m)
             Run(g) == g = [i \in 1..Len(seqs) |->
                              IF i = 1 THEN seqs[i] ELSE g[i - 1] \o seqs[i]]
             g == CHOOSE f : Run(f)
  <1>1. /\ m \in Nat /\ Len(seqs) = m
        /\ \A i \in 1..m : seqs[i] = EncodeSize(lens[i])
    BY DEF Codes
  <1>2. FlattenSeq(seqs) = g[Len(seqs)]
    <2>1. Len(seqs) # 0 BY <1>1
    <2> HIDE DEF seqs
    <2> QED BY <2>1, Zenon DEF FlattenSeq
  <1> HIDE DEF seqs
  <1>3. PICK h : Chain(lens, m, h)
    <2>1. m \in 0..Len(lens) OBVIOUS
    <2> QED BY <2>1, ChainExists
  <1>4. /\ h \in [0..m -> Seq(Bytes)] /\ h[0] = <<>>
        /\ \A i \in 1..m : h[i] = h[i - 1] \o EncodeSize(lens[i])
    BY <1>3 DEF Chain
  <1> DEFINE f == [i \in 1..m |-> h[i]]
  <1>5. Run(f)
    <2>1. ASSUME NEW i \in 1..m
          PROVE  f[i] = IF i = 1 THEN seqs[i] ELSE f[i - 1] \o seqs[i]
      <3>1. f[i] = h[i - 1] \o seqs[i] BY <1>1, <1>4
      <3>2. CASE i = 1
        <4>1. seqs[i] \in Seq(Bytes)
          <5>1. lens[i] \in Lens OBVIOUS
          <5> QED BY <1>1, <5>1, EncodeOK
        <4>2. h[i - 1] = <<>> BY <1>4, <3>2
        <4>3. <<>> \o seqs[i] = seqs[i] BY <4>1
        <4> QED BY <3>1, <3>2, <4>2, <4>3
      <3>3. CASE i # 1
        <4>1. i - 1 \in 1..m BY <1>1, <3>3
        <4>2. f[i - 1] = h[i - 1] BY <4>1
        <4> QED BY <3>1, <3>3, <4>2
      <3> QED BY <3>2, <3>3
    <2>2. f = [i \in 1..m |-> f[i]] OBVIOUS
    <2> HIDE DEF f
    <2>3. f = [i \in 1..m |-> IF i = 1 THEN seqs[i] ELSE f[i - 1] \o seqs[i]]
      BY <2>1, <2>2
    <2> QED BY <1>1, <2>3
  <1>6. Run(g) BY <1>5
  <1> HIDE DEF g, f
  <1>7. \A i \in 1..m : g[i] = IF i = 1 THEN seqs[i] ELSE g[i - 1] \o seqs[i]
    BY <1>1, <1>6
  <1>8. \A i \in 1..m : f[i] = IF i = 1 THEN seqs[i] ELSE f[i - 1] \o seqs[i]
    BY <1>1, <1>5
  <1> DEFINE S == {k \in Nat : k \in 1..m => g[k] = f[k]}
  <1>9. 0 \in S OBVIOUS
  <1>10. ASSUME NEW k \in Nat, k \in S PROVE k + 1 \in S
    <2> SUFFICES ASSUME k + 1 \in 1..m PROVE g[k + 1] = f[k + 1] OBVIOUS
    <2>1. CASE k = 0
      <3>1. k + 1 = 1 BY <2>1
      <3> QED BY <1>7, <1>8, <3>1
    <2>2. CASE k # 0
      <3>1. k \in 1..m /\ (k + 1) - 1 = k /\ k + 1 # 1 BY <1>1, <2>2
      <3>2. g[k] = f[k] BY <1>10, <3>1
      <3>3. g[k + 1] = g[k] \o seqs[k + 1] /\ f[k + 1] = f[k] \o seqs[k + 1]
        BY <1>7, <1>8, <3>1
      <3> QED BY <3>2, <3>3
    <2> QED BY <2>1, <2>2
  <1> HIDE DEF S
  <1>11. m \in S BY <1>1, <1>9, <1>10, SetInduction
  <1>12. g[m] = f[m] BY <1>1, <1>11 DEF S
  <1>13. f[m] = h[m] BY <1>1 DEF f
  <1> QED BY <1>1, <1>2, <1>3, <1>12, <1>13 DEF seqs

-----------------------------------------------------------------------------
(* The lengths of a header, one after another.                              *)
LEMMA Concat ==
    ASSUME NEW s \in Seq(Bytes), NEW t \in Seq(Bytes)
    PROVE  /\ s \o t \in Seq(Bytes) /\ Len(s) \in Nat /\ Len(t) \in Nat
           /\ Len(s \o t) = Len(s) + Len(t) /\ Len(s) <= Len(s \o t)
           /\ \A i \in 1..Len(s) : (s \o t)[i] = s[i]
           /\ \A i \in 1..Len(t) : (s \o t)[Len(s) + i] = t[i]
  OBVIOUS

LEMMA FrontAppend ==
    ASSUME NEW s \in Seq(Lens), NEW k \in Nat, k < Len(s)
    PROVE  /\ SubSeq(s, 1, k) \in Seq(Lens) /\ Len(SubSeq(s, 1, k)) = k
           /\ SubSeq(s, 1, k + 1) = Append(SubSeq(s, 1, k), s[k + 1])
           /\ s[k + 1] \in Lens
           /\ Sum(SubSeq(s, 1, k + 1)) = Sum(SubSeq(s, 1, k)) + s[k + 1]
  <1>1. /\ SubSeq(s, 1, k) \in Seq(Lens) /\ Len(SubSeq(s, 1, k)) = k
        /\ SubSeq(s, 1, k + 1) = Append(SubSeq(s, 1, k), s[k + 1])
        /\ s[k + 1] \in Lens
    OBVIOUS
  <1>2. Sum(Append(SubSeq(s, 1, k), s[k + 1])) = Sum(SubSeq(s, 1, k)) + s[k + 1]
    BY <1>1, LensAppend
  <1> QED BY <1>1, <1>2

LEMMA FrontGrows ==
    ASSUME NEW s \in Seq(Lens), NEW j \in Nat, NEW k \in Nat, j <= k, k <= Len(s)
    PROVE  /\ Sum(SubSeq(s, 1, j)) <= Sum(SubSeq(s, 1, k))
           /\ Sum(SubSeq(s, 1, j)) \in Nat /\ Sum(SubSeq(s, 1, k)) \in Nat
  <1> DEFINE F(i) == Sum(SubSeq(s, 1, i))
             S == {i \in Nat : j <= i /\ i <= Len(s) => F(j) <= F(i)}
  <1>0. Len(s) \in Nat OBVIOUS
  <1>1. ASSUME NEW i \in Nat, i <= Len(s) PROVE F(i) \in Nat
    <2>1. SubSeq(s, 1, i) \in Seq(Lens) BY <1>1
    <2> QED BY <2>1, LensSum
  <1>2. ASSUME NEW i \in Nat, i < Len(s) PROVE F(i + 1) = F(i) + s[i + 1] /\ s[i + 1] \in Nat
    <2>1. s[i + 1] \in Lens /\ F(i + 1) = F(i) + s[i + 1] BY <1>2, FrontAppend
    <2> HIDE DEF F
    <2>2. Lens \subseteq Nat BY DEF Lens
    <2> QED BY <2>1, <2>2, Zenon
  <1>3. F(j) \in Nat /\ F(k) \in Nat BY <1>0, <1>1
  <1> HIDE DEF F
  <1>4. 0 \in S
    <2>1. j <= 0 => j = 0 OBVIOUS
    <2> QED BY <1>3, <2>1
  <1>5. ASSUME NEW i \in Nat, i \in S PROVE i + 1 \in S
    <2>1. SUFFICES ASSUME j <= i + 1, i + 1 <= Len(s) PROVE F(j) <= F(i + 1) OBVIOUS
    <2>2. CASE j = i + 1 BY <1>3, <2>2
    <2>3. CASE j <= i
      <3>1. i < Len(s) /\ i <= Len(s) BY <1>0, <2>1
      <3>2. F(j) <= F(i) /\ F(i) \in Nat BY <1>1, <1>5, <2>3, <3>1
      <3>3. F(i + 1) = F(i) + s[i + 1] /\ s[i + 1] \in Nat BY <1>2, <3>1
      <3> QED BY <1>3, <3>2, <3>3
    <2> QED BY <2>1, <2>2, <2>3
  <1> HIDE DEF S
  <1>6. k \in S BY <1>4, <1>5, SetInduction
  <1>7. F(j) <= F(k) BY <1>6 DEF S
  <1> QED BY <1>3, <1>7 DEF F


LEMMA LongsAppend ==
    ASSUME NEW lens \in Seq(Lens), NEW k \in Nat, k < Len(lens)
    PROVE  /\ Sum(Longs(lens, k)) \in Nat
           /\ Sum(Longs(lens, k + 1)) = Sum(Longs(lens, k)) + IsLong(lens[k + 1])
  <1>1. \A i \in 1..k + 1 : IsLong(lens[i]) \in Nat
    <2> TAKE i \in 1..k + 1
    <2>1. lens[i] \in Lens OBVIOUS
    <2> QED BY <2>1, EncodeOK
  <1>2. /\ Longs(lens, k) \in Seq(Nat)
        /\ Longs(lens, k + 1) = Append(Longs(lens, k), IsLong(lens[k + 1]))
    BY <1>1 DEF Longs
  <1>3. IsLong(lens[k + 1]) \in Nat BY <1>1
  <1> QED BY <1>2, <1>3, SumAppend, SumType

LEMMA ChainLength ==
    ASSUME NEW lens \in Seq(Lens), NEW m \in 0..Len(lens), NEW h, Chain(lens, m, h)
    PROVE  \A k \in 0..m : Len(h[k]) = k + Sum(Longs(lens, k)) /\ Sum(Longs(lens, k)) \in Nat
  <1> DEFINE S == {k \in Nat : k <= m => /\ Len(h[k]) = k + Sum(Longs(lens, k))
                                         /\ Sum(Longs(lens, k)) \in Nat}
  <1>a. m \in Nat /\ Len(lens) \in Nat OBVIOUS
  <1>b. /\ h \in [0..m -> Seq(Bytes)] /\ h[0] = <<>>
        /\ \A i \in 1..m : h[i] = h[i - 1] \o EncodeSize(lens[i])
    BY Zenon DEF Chain
  <1>0. /\ m \in Nat /\ Len(lens) \in Nat /\ h \in [0..m -> Seq(Bytes)] /\ h[0] = <<>>
        /\ \A i \in 1..m : h[i] = h[i - 1] \o EncodeSize(lens[i])
    BY <1>a, <1>b, Zenon
  <1>1. 0 \in S
    <2>1. Longs(lens, 0) = <<>> BY DEF Longs
    <2>2. Len(<<>>) = 0 OBVIOUS
    <2> QED BY <1>0, <2>1, <2>2, SumEmpty
  <1>2. ASSUME NEW k \in Nat, k \in S PROVE k + 1 \in S
    <2>1. SUFFICES ASSUME k + 1 <= m
                   PROVE  /\ Len(h[k + 1]) = k + 1 + Sum(Longs(lens, k + 1))
                          /\ Sum(Longs(lens, k + 1)) \in Nat
      OBVIOUS
    <2>2. k + 1 \in 1..m /\ k \in 0..m /\ (k + 1) - 1 = k /\ k < Len(lens)
      BY <1>0, <2>1
    <2>3. h[k + 1] = h[k] \o EncodeSize(lens[k + 1]) BY <1>0, <2>2
    <2>4. lens[k + 1] \in Lens BY <2>2
    <2>5. h[k] \in Seq(Bytes) BY <1>0, <2>2
    <2>6. /\ EncodeSize(lens[k + 1]) \in Seq(Bytes)
          /\ IsLong(lens[k + 1]) \in 0..1
          /\ Len(EncodeSize(lens[k + 1])) = 1 + IsLong(lens[k + 1])
      BY <2>4, EncodeOK
    <2>7. Len(h[k + 1]) = Len(h[k]) + Len(EncodeSize(lens[k + 1]))
      BY <2>3, <2>5, <2>6, Concat
    <2>8. Len(h[k]) = k + Sum(Longs(lens, k)) BY <1>2, <2>2
    <2>9. Sum(Longs(lens, k)) \in Nat
          /\ Sum(Longs(lens, k + 1)) = Sum(Longs(lens, k)) + IsLong(lens[k + 1])
      BY <2>2, LongsAppend
    <2> HIDE DEF S
    <2>10. PICK a \in Nat, b \in 0..1 : a = Sum(Longs(lens, k)) /\ b = IsLong(lens[k + 1])
      BY <2>6, <2>9
    <2>11. Len(h[k + 1]) = (k + a) + (1 + b) BY <2>6, <2>7, <2>8, <2>10
    <2>12. Sum(Longs(lens, k + 1)) = a + b BY <2>9, <2>10
    <2> QED BY <2>11, <2>12
  <1> HIDE DEF S
  <1>3. Nat \subseteq S BY <1>1, <1>2, SetInduction
  <1> QED BY <1>0, <1>3 DEF S

(* A piece of a chain is where the pieces before it end.                    *)
LEMMA ChainPrefix ==
    ASSUME NEW lens \in Seq(Lens), NEW m \in 0..Len(lens), NEW h, Chain(lens, m, h),
           NEW j \in 0..m
    PROVE  Len(h[j]) <= Len(h[m]) /\ \A i \in 1..Len(h[j]) : h[m][i] = h[j][i]
  <1> DEFINE Prefix(k) == Len(h[j]) <= Len(h[k]) /\ \A i \in 1..Len(h[j]) : h[k][i] = h[j][i]
             S == {k \in Nat : j <= k /\ k <= m => Prefix(k)}
  <1>a. m \in Nat OBVIOUS
  <1>b. /\ h \in [0..m -> Seq(Bytes)]
        /\ \A i \in 1..m : h[i] = h[i - 1] \o EncodeSize(lens[i])
    BY Zenon DEF Chain
  <1>c. Len(h[j]) \in Nat
    <2>1. h[j] \in Seq(Bytes) BY <1>b
    <2> QED BY <2>1
  <1>0. /\ m \in Nat /\ h \in [0..m -> Seq(Bytes)]
        /\ \A i \in 1..m : h[i] = h[i - 1] \o EncodeSize(lens[i])
        /\ Len(h[j]) \in Nat
    BY <1>a, <1>b, <1>c, Zenon
  <1>1. 0 \in S
    <2>1. Prefix(j) BY <1>0
    <2>2. j <= 0 => j = 0 OBVIOUS
    <2> HIDE DEF Prefix
    <2> QED BY <2>1, <2>2
  <1>2. ASSUME NEW k \in Nat, k \in S PROVE k + 1 \in S
    <2>1. SUFFICES ASSUME j <= k + 1, k + 1 <= m PROVE Prefix(k + 1)
      <3> HIDE DEF Prefix
      <3> QED OBVIOUS
    <2>2. CASE j = k + 1 BY <1>0, <2>2
    <2>3. CASE j <= k
      <3>1. k + 1 \in 1..m /\ k \in 0..m /\ (k + 1) - 1 = k BY <1>0, <2>1
      <3>2. h[k + 1] = h[k] \o EncodeSize(lens[k + 1]) BY <1>0, <3>1
      <3>3. h[k] \in Seq(Bytes) BY <1>0, <3>1
      <3>4. EncodeSize(lens[k + 1]) \in Seq(Bytes)
        <4>1. lens[k + 1] \in Lens BY <3>1
        <4> QED BY <4>1, EncodeOK
      <3>5. /\ Len(h[k]) <= Len(h[k + 1]) /\ Len(h[k]) \in Nat /\ Len(h[k + 1]) \in Nat
            /\ \A i \in 1..Len(h[k]) : h[k + 1][i] = h[k][i]
        <4>1. PICK s \in Seq(Bytes), t \in Seq(Bytes) :
                 s = h[k] /\ t = EncodeSize(lens[k + 1])
          BY <3>3, <3>4
        <4>2. h[k + 1] = s \o t BY <3>2, <4>1
        <4>3. /\ Len(s) <= Len(s \o t) /\ Len(s) \in Nat /\ Len(s \o t) \in Nat
              /\ \A i \in 1..Len(s) : (s \o t)[i] = s[i]
          BY Concat
        <4> QED BY <4>1, <4>2, <4>3
      <3>6. Prefix(k) BY <1>2, <2>3, <3>1
      <3>7. Len(h[j]) <= Len(h[k + 1]) BY <1>0, <3>5, <3>6
      <3>8. ASSUME NEW i \in 1..Len(h[j]) PROVE h[k + 1][i] = h[j][i]
        <4>1. i \in 1..Len(h[k]) BY <1>0, <3>5, <3>6
        <4> QED BY <3>5, <3>6, <4>1
      <3> QED BY <3>7, <3>8
    <2> QED BY <2>1, <2>2, <2>3
  <1> HIDE DEF S
  <1>3. m \in S BY <1>0, <1>1, <1>2, SetInduction
  <1> QED BY <1>0, <1>3 DEF S

-----------------------------------------------------------------------------
(* A length that was written is read back.                                  *)

(* Reading what was written.                                                *)
Holds(p, at, s) ==
    at + Len(s) <= Len(p.head) /\ \A i \in 1..Len(s) : p.head[at + i] = s[i]

LEMMA HoldsByte ==
    ASSUME NEW p, PacketOK(p), NEW at \in Nat, NEW s \in Seq(Bytes), Holds(p, at, s)
    PROVE  \A i \in 1..Len(s) : Byte(p, at + i - 1) = s[i]
  <1> TAKE i \in 1..Len(s)
  <1>1. Len(p.head) \in Nat /\ Len(s) \in Nat BY DEF PacketOK
  <1>2. ~(at + i - 1 >= Len(p.head)) /\ (at + i - 1) + 1 = at + i
    BY <1>1 DEF Holds
  <1>3. Byte(p, at + i - 1) = p.head[(at + i - 1) + 1] BY <1>2, Zenon DEF Byte
  <1> QED BY <1>2, <1>3 DEF Holds

LEMMA ParseSizeBack ==
    ASSUME NEW p, PacketOK(p), NEW at \in Nat, NEW x \in Lens,
           Holds(p, at, EncodeSize(x)), NEW len \in Int, Len(EncodeSize(x)) <= len
    PROVE  ParseSize(p, at, len) = [bytes |-> Len(EncodeSize(x)), size |-> x]
  <1> DEFINE s == EncodeSize(x)
  <1>1. /\ s \in Seq(Bytes) /\ IsLong(x) \in 0..1 /\ Len(s) = 1 + IsLong(x)
        /\ x < 252 => s[1] = x
        /\ x >= 252 => s[1] >= 252 /\ 4 * s[2] + s[1] = x
    BY EncodeOK
  <1>2. \A i \in 1..Len(s) : Byte(p, at + i - 1) = s[i]
    <2>1. Holds(p, at, s) OBVIOUS
    <2> HIDE DEF s
    <2> QED BY <1>1, <2>1, HoldsByte
  <1>n. Len(s) <= len OBVIOUS
  <1>3. CASE x < 252
    <2>0. ~(x >= 252) BY <1>3 DEF Lens
    <2> HIDE DEF s
    <2>a. IsLong(x) = 0 BY <2>0 DEF IsLong
    <2>1. Len(s) = 1 /\ s[1] = x BY <1>1, <1>3, <2>a
    <2>2. 1 \in 1..Len(s) /\ at + 1 - 1 = at /\ len >= 1 BY <1>n, <2>1
    <2>3. Byte(p, at) = x BY <1>2, <2>1, <2>2
    <2>b. ~(len < 1) /\ Byte(p, at) < 252 /\ ~(Byte(p, at) >= 252)
      BY <1>3, <2>0, <2>2, <2>3
    <2>4. ParseSize(p, at, len) = [bytes |-> 1, size |-> x]
      BY <2>2, <2>3, <2>b DEF ParseSize
    <2> QED BY <2>1, <2>4 DEF s
  <1>4. CASE x >= 252
    <2>1. Len(s) = 2 /\ s[1] >= 252 /\ 4 * s[2] + s[1] = x
      BY <1>1, <1>4 DEF IsLong
    <2> HIDE DEF s
    <2>2. /\ 1 \in 1..Len(s) /\ at + 1 - 1 = at /\ 2 \in 1..Len(s) /\ at + 2 - 1 = at + 1
          /\ len > 1
      BY <1>n, <2>1
    <2>3. Byte(p, at) = s[1] /\ Byte(p, at + 1) = s[2] BY <1>2, <2>2
    <2>4. s[1] \in Bytes /\ s[2] \in Bytes BY <1>1, <2>2
    <2>5. ParseSize(p, at, len) = [bytes |-> 2, size |-> 4 * s[2] + s[1]]
      BY <2>1, <2>2, <2>3, <2>4 DEF ParseSize, Bytes
    <2> QED BY <2>1, <2>5 DEF s
  <1> QED BY <1>3, <1>4 DEF Lens

LEMMA ReadSizeBack ==
    ASSUME NEW p, PacketOK(p), NEW c, Reading(p, c), NEW x \in Lens,
           Holds(p, c.at, EncodeSize(x)), Len(EncodeSize(x)) + x <= c.len
    PROVE  /\ ReadSize(p, c) # Bad
           /\ ReadSize(p, c).at = c.at + Len(EncodeSize(x))
           /\ ReadSize(p, c).len = c.len - Len(EncodeSize(x))
           /\ ReadSize(p, c).last = c.last - Len(EncodeSize(x)) - x
           /\ ReadSize(p, c).sizes = Append(c.sizes, x)
  <1> DEFINE n == Len(EncodeSize(x))
             last == c.last - n - x
             sizes == Append(c.sizes, x)
             r == [c EXCEPT !.at = c.at + n, !.len = c.len - n, !.last = last,
                            !.sizes = sizes]
  <1>1. /\ c \in Cursors /\ c.at \in Nat /\ c.len \in Nat /\ c.pad \in Nat
        /\ c.sizes \in Seq(Lens) /\ c.last \in Int
    BY DEF Reading, Placed, Cursors
  <1>2. n \in 1..2
    <2>1. IsLong(x) \in 0..1 /\ n = 1 + IsLong(x) BY EncodeOK
    <2> QED BY <2>1
  <1>3. n + x <= c.len OBVIOUS
  <1>4. ParseSize(p, c.at, c.len) = [bytes |-> n, size |-> x]
    <2> HIDE DEF n
    <2>1. PICK l \in Nat, k \in 1..2 : l = c.len /\ k = n BY <1>1, <1>2
    <2>2. k + x <= l BY <1>3, <2>1
    <2>3. k <= l /\ l \in Int BY <2>2 DEF Lens
    <2>4. Len(EncodeSize(x)) <= l BY <2>1, <2>3 DEF n
    <2>5. ParseSize(p, c.at, l) = [bytes |-> Len(EncodeSize(x)), size |-> x]
      BY <1>1, <2>3, <2>4, ParseSizeBack
    <2> QED BY <2>1, <2>5 DEF n
  <1> HIDE DEF n
  <1>5. ReadSize(p, c) = r
    <2>1. ~(x < 0 \/ x > c.len - n) BY <1>1, <1>2, <1>3 DEF Lens
    <2> QED BY <1>4, <2>1 DEF ReadSize
  <1>6. sizes \in Seq(Nat) /\ last \in Int /\ c.at + n \in Nat /\ c.len - n \in Nat
    <2>1. sizes \in Seq(Nat) BY <1>1, LensAppend
    <2> HIDE DEF sizes
    <2>2. last \in Int
      <3>1. x \in Int BY DEF Lens
      <3> QED BY <1>1, <1>2, <3>1
    <2>3. c.at + n \in Nat BY <1>1, <1>2
    <2>4. c.len - n \in Nat
      <3>1. PICK l \in Nat, k \in 1..2 : l = c.len /\ k = n BY <1>1, <1>2
      <3>2. k + x <= l BY <1>3, <3>1
      <3>3. l - k \in Nat BY <3>2 DEF Lens
      <3> QED BY <3>1, <3>3
    <2> QED BY <2>1, <2>2, <2>3, <2>4
  <1> HIDE DEF sizes, last
  <1>7. /\ r \in Cursors /\ r.at = c.at + n /\ r.len = c.len - n /\ r.sizes = sizes
        /\ r.last = last
    BY <1>1, <1>6 DEF Cursors
  <1> HIDE DEF r
  <1>8. r # Bad BY <1>7, NotBad
  <1> QED BY <1>5, <1>7, <1>8 DEF n, sizes, last

(* The frames of a packet but the last: their lengths are found.            *)
LEMMA PieceHolds ==
    ASSUME NEW lens \in Seq(Lens), NEW m \in 0..Len(lens), NEW h, Chain(lens, m, h),
           NEW p, NEW at \in Nat, Len(p.head) \in Nat, Holds(p, at, h[m]),
           NEW k \in Nat, k < m
    PROVE  /\ Holds(p, at + Len(h[k]), EncodeSize(lens[k + 1]))
           /\ Len(h[k + 1]) = Len(h[k]) + Len(EncodeSize(lens[k + 1]))
           /\ Len(h[k]) \in Nat /\ Len(h[k + 1]) <= Len(h[m])
  <1>1. k \in 0..m /\ k + 1 \in 0..m /\ k + 1 \in 1..m /\ m \in 0..m /\ (k + 1) - 1 = k
    OBVIOUS
  <1>2. lens[k + 1] \in Lens BY <1>1
  <1>3. h \in [0..m -> Seq(Bytes)] /\ h[k + 1] = h[k] \o EncodeSize(lens[k + 1])
    <2>1. /\ h \in [0..m -> Seq(Bytes)]
          /\ \A i \in 1..m : h[i] = h[i - 1] \o EncodeSize(lens[i])
      BY Zenon DEF Chain
    <2> QED BY <1>1, <2>1
  <1>4. PICK s \in Seq(Bytes), t \in Seq(Bytes), u \in Seq(Bytes) :
           s = h[k] /\ t = EncodeSize(lens[k + 1]) /\ u = h[m]
    BY <1>1, <1>2, <1>3, EncodeOK
  <1>5. h[k + 1] = s \o t BY <1>3, <1>4
  <1>6. /\ Len(s) \in Nat /\ Len(t) \in Nat /\ Len(s \o t) = Len(s) + Len(t)
        /\ \A i \in 1..Len(t) : (s \o t)[Len(s) + i] = t[i]
    BY Concat
  <1>7. Len(s \o t) <= Len(u) /\ \A i \in 1..Len(s \o t) : u[i] = (s \o t)[i]
    <2>1. Len(h[k + 1]) <= Len(h[m]) /\ \A i \in 1..Len(h[k + 1]) : h[m][i] = h[k + 1][i]
      BY <1>1, ChainPrefix
    <2> QED BY <1>4, <1>5, <2>1
  <1>8. at + Len(u) <= Len(p.head) /\ \A i \in 1..Len(u) : p.head[at + i] = u[i]
    BY <1>4 DEF Holds
  <1>9. Len(u) \in Nat OBVIOUS
  <1>10. (at + Len(s)) + Len(t) <= Len(p.head) BY <1>6, <1>7, <1>8, <1>9
  <1>11. ASSUME NEW i \in 1..Len(t) PROVE p.head[(at + Len(s)) + i] = t[i]
    <2>1. Len(s) + i \in 1..Len(s \o t) /\ Len(s) + i \in 1..Len(u)
      BY <1>6, <1>7, <1>9
    <2>2. (at + Len(s)) + i = at + (Len(s) + i) BY <1>6
    <2> QED BY <1>6, <1>7, <1>8, <2>1, <2>2
  <1>12. Holds(p, at + Len(s), t) BY <1>10, <1>11 DEF Holds
  <1> QED BY <1>4, <1>5, <1>6, <1>7, <1>12

-----------------------------------------------------------------------------
(* All lengths of a header are read back.                                   *)
(* Reading the lengths of a header gives those that were written.           *)
LEMMA ReadSizesBack ==
    ASSUME NEW lens \in Seq(Lens), NEW m \in 0..Len(lens), NEW h, Chain(lens, m, h),
           NEW p, PacketOK(p), NEW c, Reading(p, c), c.sizes = <<>>,
           Holds(p, c.at, h[m]), Len(h[m]) + Sum(SubSeq(lens, 1, m)) <= c.len
    PROVE  LET d == ReadSizes(p, c, m) IN
           /\ d # Bad /\ d.at = c.at + Len(h[m]) /\ d.len = c.len - Len(h[m])
           /\ d.sizes = SubSeq(lens, 1, m)
  <1> DEFINE Before(k) == SubSeq(lens, 1, k)
  <1>0. PICK g : SizesRead(p, c, m, g)
    <2>1. m \in Nat OBVIOUS
    <2> QED BY <2>1, ReadSizesSteps
  <1>1. /\ g[0] = c /\ ReadSizes(p, c, m) = g[m]
        /\ \A i \in 1..m : /\ g[i - 1] = Bad => g[i] = Bad
                           /\ g[i - 1] # Bad => g[i] = ReadSize(p, g[i - 1])
    BY <1>0 DEF SizesRead
  <1>2. /\ c.at \in Nat /\ c.len \in Nat /\ c \in Cursors
    BY DEF Reading, Placed, Cursors
  <1>3. /\ h[0] = <<>> /\ h \in [0..m -> Seq(Bytes)]
    BY Zenon DEF Chain
  <1>4. /\ m \in Nat /\ Len(lens) \in Nat /\ m <= Len(lens) /\ Len(p.head) \in Nat
    BY DEF PacketOK
  <1> DEFINE Good(k) ==
               /\ g[k] # Bad /\ Reading(p, g[k])
               /\ g[k].at = c.at + Len(h[k]) /\ g[k].len = c.len - Len(h[k])
               /\ g[k].sizes = Before(k)
             S == {k \in Nat : k <= m => Good(k)}
  <1>5. 0 \in S
    <2>1. c # Bad BY <1>2, NotBad
    <2>2. Before(0) = <<>> /\ Len(<<>>) = 0 OBVIOUS
    <2> QED BY <1>1, <1>2, <1>3, <2>1, <2>2
  <1>6. ASSUME NEW k \in Nat, k \in S PROVE k + 1 \in S
    <2>1. SUFFICES ASSUME k + 1 <= m PROVE Good(k + 1)
      <3> HIDE DEF Good
      <3> QED OBVIOUS
    <2>2. /\ k + 1 \in 1..m /\ k < m /\ k < Len(lens) /\ (k + 1) - 1 = k /\ k <= m
          /\ k \in 0..m /\ k + 1 \in 0..m
      BY <1>4, <2>1
    <2>3. Good(k) BY <1>6, <2>2
    <2>4. g[k + 1] = ReadSize(p, g[k]) BY <1>1, <2>2, <2>3
    <2>5. lens[k + 1] \in Lens /\ Before(k + 1) = Append(Before(k), lens[k + 1])
          /\ Sum(Before(k + 1)) = Sum(Before(k)) + lens[k + 1]
      BY <2>2, FrontAppend
    <2> DEFINE e == Len(EncodeSize(lens[k + 1]))
    <2>6. /\ Holds(p, c.at + Len(h[k]), EncodeSize(lens[k + 1]))
          /\ Len(h[k + 1]) = Len(h[k]) + e
          /\ Len(h[k]) \in Nat /\ Len(h[k + 1]) <= Len(h[m])
      BY <1>2, <1>4, <2>2, PieceHolds
    <2>7. Holds(p, g[k].at, EncodeSize(lens[k + 1])) BY <2>3, <2>6
    <2>8. Sum(Before(k + 1)) <= Sum(Before(m)) /\ Sum(Before(k)) \in Nat
          /\ Sum(Before(m)) \in Nat
      <3>1. k + 1 <= m /\ k <= Len(lens) BY <2>1, <2>2
      <3> QED BY <1>4, <2>2, <3>1, FrontGrows
    <2>9. e \in 1..2
      <3>1. IsLong(lens[k + 1]) \in 0..1 /\ e = 1 + IsLong(lens[k + 1])
        BY <2>5, EncodeOK
      <3> QED BY <3>1
    <2>10. Len(h[m]) \in Nat
      <3>1. h[m] \in Seq(Bytes) BY <1>3, <1>4
      <3> QED BY <3>1
    <2> HIDE DEF e, Before
    <2>11. e + lens[k + 1] <= g[k].len
      <3>1. PICK a \in Nat, b \in Nat, f \in Nat, sk \in Nat, sm \in Nat, l \in Nat,
                 x \in Lens :
              /\ a = Len(h[k]) /\ b = Len(h[m]) /\ f = e /\ sk = Sum(Before(k))
              /\ sm = Sum(Before(m)) /\ l = c.len /\ x = lens[k + 1]
        <4>1. e \in Nat BY <2>9
        <4> QED BY <1>2, <2>5, <2>6, <2>8, <4>1, <2>10, Zenon
      <3>2. a + f <= b BY <2>6, <3>1
      <3>3. sk + x <= sm BY <2>5, <2>8, <3>1
      <3>4. b + sm <= l BY <3>1 DEF Before
      <3>5. f + x <= l - a BY <3>2, <3>3, <3>4 DEF Lens
      <3> QED BY <2>3, <3>1, <3>5
    <2>12. Reading(p, g[k]) BY <2>3
    <2>13. /\ g[k + 1] # Bad /\ g[k + 1].at = g[k].at + e /\ g[k + 1].len = g[k].len - e
           /\ g[k + 1].sizes = Append(g[k].sizes, lens[k + 1])
      BY <2>4, <2>5, <2>7, <2>11, <2>12, ReadSizeBack, SMTT(30) DEF e
    <2>14. Reading(p, g[k + 1]) BY <2>4, <2>12, <2>13, ReadSizeOK
    <2>15. g[k + 1].at = c.at + Len(h[k + 1]) /\ g[k + 1].len = c.len - Len(h[k + 1])
      <3>1. PICK a \in Nat, f \in Nat, l \in Nat, o \in Nat :
              a = Len(h[k]) /\ f = e /\ l = c.len /\ o = c.at
        <4>1. e \in Nat BY <2>9
        <4> QED BY <1>2, <2>6, <4>1, Zenon
      <3>2. (o + a) + f = o + (a + f) /\ (l - a) - f = l - (a + f) OBVIOUS
      <3> QED BY <2>3, <2>6, <2>13, <3>1, <3>2
    <2>16. g[k + 1].sizes = Before(k + 1) BY <2>3, <2>5, <2>13
    <2> QED BY <2>13, <2>14, <2>15, <2>16
  <1> HIDE DEF S, Good
  <1>7. m \in S BY <1>4, <1>5, <1>6, SetInduction
  <1>8. Good(m) BY <1>4, <1>7 DEF S
  <1> QED BY <1>1, <1>8 DEF Good

-----------------------------------------------------------------------------
(* Padding is skipped as it was written, and equal lengths are divided.     *)
LEMMA SkipNumbers ==
    ASSUME NEW at \in Nat, NEW len \in Nat, NEW e \in Nat \ {0}, e <= len,
           NEW q \in Nat, NEW b \in 0..254, b = e - 255 * q - 1
    PROVE  /\ \A m \in 0..q : len - 255 * m > 0
           /\ q <= len
           /\ 254 * q + b = e - (q + 1) /\ (len - 255 * q) - 1 - b = len - e
           /\ at + q + 1 \in Nat /\ len - e \in Nat /\ e - (q + 1) \in Nat
           /\ len - 255 * q > 0
  OBVIOUS

(* Skipping the padding of a header gives its amount.                       *)
LEMMA SkipPaddingBack ==
    ASSUME NEW p, PacketOK(p), NEW c, Placed(p, c), NEW e \in Nat \ {0}, e <= c.len,
           Holds(p, c.at, PaddingBytes(e))
    PROVE  /\ SkipPadding(p, c) # Bad
           /\ SkipPadding(p, c).at = c.at + Padding(e)
           /\ SkipPadding(p, c).len = c.len - e
           /\ SkipPadding(p, c).pad = e - Padding(e)
  <1> DEFINE Stop(n) == c.len - 255 * n <= 0 \/ Byte(p, c.at + n) # 255
             Ends(n) == Stop(n) /\ \A m \in 0..n - 1 : ~Stop(m)
             n == CHOOSE n \in 0..c.len + 1 : Ends(n)
             left == c.len - 255 * n
             r == [c EXCEPT !.at = c.at + n + 1, !.len = left - 1 - Byte(p, c.at + n),
                            !.pad = 254 * n + Byte(p, c.at + n)]
  <1>1. /\ c \in Cursors /\ c.at \in Nat /\ c.len \in Nat BY DEF Placed, Cursors
  <1>2. PICK q \in Nat, b \in 0..254 : Padding(e) = q + 1 /\ b = e - 255 * q - 1
    <2>1. e > 0 /\ e \in Nat OBVIOUS
    <2>2. /\ Padding(e) \in Nat /\ Padding(e) > 0
          /\ e - 255 * (Padding(e) - 1) - 1 \in 0..254
      BY <2>1, PaddingOK
    <2>3. Padding(e) - 1 \in Nat /\ Padding(e) = (Padding(e) - 1) + 1 BY <2>2
    <2> QED BY <2>2, <2>3
  <1>3. /\ \A m \in 0..q : c.len - 255 * m > 0
        /\ q <= c.len
        /\ 254 * q + b = e - (q + 1) /\ (c.len - 255 * q) - 1 - b = c.len - e
        /\ c.at + q + 1 \in Nat /\ c.len - e \in Nat /\ e - (q + 1) \in Nat
        /\ c.len - 255 * q > 0
    <2>1. PICK at \in Nat, len \in Nat : at = c.at /\ len = c.len BY <1>1
    <2>2. e <= len BY <2>1
    <2>3. /\ \A m \in 0..q : len - 255 * m > 0
          /\ q <= len
          /\ 254 * q + b = e - (q + 1) /\ (len - 255 * q) - 1 - b = len - e
          /\ at + q + 1 \in Nat /\ len - e \in Nat /\ e - (q + 1) \in Nat
          /\ len - 255 * q > 0
      BY <1>2, <2>2, SkipNumbers
    <2> QED BY <2>1, <2>3, ZenonT(40)
  <1>4. (\A m \in 0..q - 1 : Byte(p, c.at + m) = 255) /\ Byte(p, c.at + q) = b
    <2> DEFINE s == PaddingBytes(e)
    <2>1. /\ s \in Seq(Bytes) /\ Len(s) = q + 1
          /\ \A i \in 1..q : s[i] = 255
          /\ s[q + 1] = b
      <3>1. e > 0 /\ e \in Nat /\ (q + 1) - 1 = q OBVIOUS
      <3>2. /\ s \in Seq(Bytes) /\ Len(s) = Padding(e)
            /\ \A i \in 1..Padding(e) - 1 : s[i] = 255
            /\ s[Padding(e)] = e - 255 * (Padding(e) - 1) - 1
        BY <3>1, PaddingOK
      <3> QED BY <1>2, <3>1, <3>2
    <2>2. Holds(p, c.at, s) OBVIOUS
    <2> HIDE DEF s
    <2>3. \A i \in 1..q + 1 : Byte(p, c.at + i - 1) = s[i]
      BY <1>1, <2>1, <2>2, HoldsByte, SMTT(30)
    <2>4. ASSUME NEW m \in 0..q PROVE Byte(p, c.at + m) = s[m + 1]
      <3>1. m + 1 \in 1..q + 1 /\ c.at + (m + 1) - 1 = c.at + m BY <1>1
      <3> QED BY <2>3, <3>1
    <2>5. ASSUME NEW m \in 0..q - 1 PROVE Byte(p, c.at + m) = 255
      <3>1. m \in 0..q /\ m + 1 \in 1..q OBVIOUS
      <3> QED BY <2>1, <2>4, <3>1
    <2>6. q \in 0..q OBVIOUS
    <2> QED BY <2>1, <2>4, <2>5, <2>6
  <1>5. Ends(q) /\ q \in 0..c.len + 1
    <2>1. b # 255 OBVIOUS
    <2>2. Stop(q) BY <1>4, <2>1
    <2>3. ASSUME NEW m \in 0..q - 1 PROVE ~Stop(m)
      <3>1. c.len - 255 * m > 0 /\ Byte(p, c.at + m) = 255
        <4>1. m \in 0..q OBVIOUS
        <4> QED BY <1>3, <1>4, <4>1
      <3>2. ~(c.len - 255 * m <= 0) BY <1>1, <3>1
      <3> QED BY <3>1, <3>2
    <2>4. q \in 0..c.len + 1 BY <1>1, <1>3
    <2> HIDE DEF Stop
    <2> QED BY <2>2, <2>3, <2>4
  <1>6. n = q
    <2> HIDE DEF Stop
    <2>1. n \in 0..c.len + 1 /\ Ends(n) BY <1>5
    <2> HIDE DEF n
    <2>2. n \in Nat BY <1>1, <2>1
    <2>3. ~(n < q)
      <3>1. ASSUME n < q PROVE FALSE
        <4>1. n \in 0..q - 1 BY <2>2, <3>1
        <4> QED BY <1>5, <2>1, <4>1
      <3> QED BY <3>1
    <2>4. ~(q < n)
      <3>1. ASSUME q < n PROVE FALSE
        <4>1. q \in 0..n - 1 BY <2>2, <3>1
        <4> QED BY <1>5, <2>1, <4>1
      <3> QED BY <3>1
    <2> QED BY <2>2, <2>3, <2>4
  <1> HIDE DEF n, Ends, Stop
  <1>7. SkipPadding(p, c) = IF left <= 0 THEN Bad ELSE r
    BY DEF SkipPadding, n, Ends, Stop
  <1>8. SkipPadding(p, c) = r
    <2>1. ~(left <= 0) BY <1>1, <1>3, <1>6
    <2> QED BY <1>7, <2>1
  <1>9. left - 1 - Byte(p, c.at + n) = c.len - e /\ 254 * n + Byte(p, c.at + n) = e - (q + 1)
    BY <1>3, <1>4, <1>6
  <1>10. r = [c EXCEPT !.at = c.at + q + 1, !.len = c.len - e, !.pad = e - (q + 1)]
    BY <1>6, <1>9
  <1> HIDE DEF r
  <1> DEFINE at == c.at + q + 1
             len == c.len - e
             pad == e - (q + 1)
  <1>11. at \in Nat /\ len \in Nat /\ pad \in Nat BY <1>3
  <1>12. r = [c EXCEPT !.at = at, !.len = len, !.pad = pad] BY <1>10
  <1>13. at = c.at + Padding(e) BY <1>1, <1>2
  <1> HIDE DEF at, len, pad
  <1>14. r \in Cursors /\ r.at = at /\ r.len = len /\ r.pad = pad
    BY <1>1, <1>11, <1>12 DEF Cursors
  <1>15. r # Bad BY <1>14, NotBad
  <1> QED BY <1>2, <1>8, <1>13, <1>14, <1>15 DEF len, pad

LEMMA EvenNumbers ==
    ASSUME NEW n \in 1..48, NEW x \in Nat
    PROVE  (n * x) % n = 0 /\ (n * x) \div n = x
  OBVIOUS

LEMMA EvenSizesBack ==
    ASSUME NEW p, NEW c, Placed(p, c), NEW x \in Nat, c.len = c.count * x
    PROVE  LET d == EvenSizes(c, FALSE) IN
           /\ d # Bad /\ d.last = x /\ d.sizes = [i \in 1..c.count - 1 |-> x]
           /\ d.at = c.at /\ d.len = c.len /\ d.count = c.count /\ d.cbr = c.cbr
           /\ d.pad = c.pad /\ d \in Cursors
  <1>1. c \in Cursors /\ c.count \in 1..48 BY DEF Placed, Cursors
  <1>2. c.len % c.count = 0 /\ c.len \div c.count = x
    <2>1. PICK n \in 1..48 : n = c.count BY <1>1
    <2>2. c.len = n * x BY <2>1
    <2> QED BY <2>1, <2>2, EvenNumbers
  <1> DEFINE s == [i \in 1..c.count - 1 |-> x]
             r == [c EXCEPT !.last = x, !.sizes = s]
  <1>3. EvenSizes(c, FALSE) = r BY <1>2 DEF EvenSizes
  <1>4. s \in Seq(Nat)
    <2>1. PICK n \in 1..48 : n = c.count BY <1>1
    <2>2. n - 1 \in Nat OBVIOUS
    <2>3. [i \in 1..n - 1 |-> x] \in Seq(Nat) BY <2>2
    <2> QED BY <2>1, <2>3
  <1> HIDE DEF s
  <1>5. /\ r \in Cursors /\ r.last = x /\ r.sizes = s /\ r.at = c.at /\ r.len = c.len
        /\ r.count = c.count /\ r.cbr = c.cbr /\ r.pad = c.pad
    <2>1. c \in Cursors /\ x \in Int BY <1>1
    <2> QED BY <1>4, <2>1 DEF Cursors
  <1> HIDE DEF r
  <1>6. r # Bad BY <1>5, NotBad
  <1> QED BY <1>3, <1>5, <1>6 DEF s

-----------------------------------------------------------------------------
(* The last length, given or left, completes the frames that were written.  *)
Trailer(lens, sd) == IF sd THEN EncodeSize(lens[Len(lens)]) ELSE <<>>
AllButLast(lens) == SubSeq(lens, 1, Len(lens) - 1)
AllEqual(lens) == \A i \in 1..Len(lens) : lens[i] = lens[1]

Ready(p, sd, lens, c) ==
    /\ Placed(p, c) /\ lens \in Seq(Lens) /\ Len(lens) = c.count
    /\ Holds(p, c.at, Trailer(lens, sd))
    /\ c.at + Len(Trailer(lens, sd)) = Len(p.head)
    /\ c.len = Len(Trailer(lens, sd)) + Sum(lens)
    /\ \/ sd /\ c.cbr /\ AllEqual(lens)
       \/ ~sd /\ c.sizes = AllButLast(lens) /\ c.last = lens[c.count]
       \/ /\ sd /\ ~c.cbr /\ c.sizes = AllButLast(lens)
          /\ c.last = Len(Trailer(lens, sd)) + lens[c.count]
Back(p, sd, lens, c) ==
    /\ c # Bad /\ c.sizes = lens /\ c.at = Len(p.head)
    /\ c.at + Sum(lens) + c.pad = p.len /\ c.pad \in Nat

LEMMA LensNat == \A x \in Lens : x \in Nat /\ x <= 1275 /\ ~(x > 1275) /\ ~(x < 0)
  BY DEF Lens

LEMMA TailOK ==
    ASSUME NEW lens \in Seq(Lens), Len(lens) > 0, NEW sd \in BOOLEAN
    PROVE  /\ Trailer(lens, sd) \in Seq(Bytes) /\ Len(Trailer(lens, sd)) \in 0..2
           /\ Len(Trailer(lens, sd)) = TailSize(lens, sd)
           /\ lens[Len(lens)] \in Lens
  <1>1. Len(lens) \in 1..Len(lens) OBVIOUS
  <1>2. lens[Len(lens)] \in Lens BY <1>1
  <1>3. CASE sd
    <2>1. Trailer(lens, sd) = EncodeSize(lens[Len(lens)])
          /\ TailSize(lens, sd) = 1 + IsLong(lens[Len(lens)])
      BY <1>3 DEF Trailer, TailSize
    <2>2. /\ EncodeSize(lens[Len(lens)]) \in Seq(Bytes) /\ IsLong(lens[Len(lens)]) \in 0..1
          /\ Len(EncodeSize(lens[Len(lens)])) = 1 + IsLong(lens[Len(lens)])
      BY <1>2, EncodeOK
    <2> QED BY <1>2, <2>1, <2>2
  <1>4. CASE ~sd
    <2>1. Trailer(lens, sd) = <<>> /\ TailSize(lens, sd) = 0 BY <1>4 DEF Trailer, TailSize
    <2> QED BY <1>2, <2>1
  <1> QED BY <1>3, <1>4

LEMMA Joined ==
    ASSUME NEW lens \in Seq(Lens), Len(lens) > 0
    PROVE  /\ AllButLast(lens) \in Seq(Lens) /\ lens[Len(lens)] \in Lens
           /\ Append(AllButLast(lens), lens[Len(lens)]) = lens
           /\ Sum(AllButLast(lens)) \in Nat
           /\ Sum(lens) = Sum(AllButLast(lens)) + lens[Len(lens)]
  <1> DEFINE k == Len(lens) - 1
  <1>1. k \in Nat /\ k < Len(lens) /\ k + 1 = Len(lens) OBVIOUS
  <1> HIDE DEF k
  <1>2. /\ SubSeq(lens, 1, k) \in Seq(Lens)
        /\ SubSeq(lens, 1, k + 1) = Append(SubSeq(lens, 1, k), lens[k + 1])
        /\ lens[k + 1] \in Lens
        /\ Sum(SubSeq(lens, 1, k + 1)) = Sum(SubSeq(lens, 1, k)) + lens[k + 1]
    BY <1>1, FrontAppend
  <1>3. SubSeq(lens, 1, Len(lens)) = lens OBVIOUS
  <1>4. Sum(SubSeq(lens, 1, k)) \in Nat BY <1>2, LensSum
  <1>5. AllButLast(lens) = SubSeq(lens, 1, k) BY DEF AllButLast, k
  <1> QED BY <1>1, <1>2, <1>3, <1>4, <1>5

LEMMA EqualSum ==
    ASSUME NEW lens \in Seq(Lens), Len(lens) > 0, AllEqual(lens)
    PROVE  /\ lens = [i \in 1..Len(lens) |-> lens[1]] /\ lens[1] \in Lens
           /\ lens[Len(lens)] = lens[1]
           /\ AllButLast(lens) = [i \in 1..Len(lens) - 1 |-> lens[1]]
           /\ Sum(lens) = Len(lens) * lens[1]
  <1>1. 1 \in 1..Len(lens) /\ Len(lens) \in 1..Len(lens) /\ Len(lens) \in Nat OBVIOUS
  <1>2. lens[1] \in Lens /\ lens[Len(lens)] = lens[1] BY <1>1 DEF AllEqual
  <1>3. lens = [i \in 1..Len(lens) |-> lens[1]]
    <2>1. lens = [i \in 1..Len(lens) |-> lens[i]] OBVIOUS
    <2> QED BY <2>1 DEF AllEqual
  <1>4. PICK n \in Nat, x \in Nat : n = Len(lens) /\ x = lens[1]
    <2>1. Len(lens) \in Nat /\ lens[1] \in Nat BY <1>1, <1>2, LensNat
    <2> QED BY <2>1, Zenon
  <1>5. lens = [i \in 1..n |-> x] BY <1>3, <1>4
  <1>6. Sum(lens) = n * x BY <1>5, SumConst
  <1>7. AllButLast(lens) = [i \in 1..Len(lens) - 1 |-> lens[1]]
    <2>1. SubSeq(lens, 1, Len(lens) - 1) = [i \in 1..Len(lens) - 1 |-> lens[i]]
      OBVIOUS
    <2>2. ASSUME NEW i \in 1..Len(lens) - 1 PROVE lens[i] = lens[1]
      <3>1. i \in 1..Len(lens) OBVIOUS
      <3> QED BY <3>1 DEF AllEqual
    <2> QED BY <2>1, <2>2 DEF AllButLast
  <1> QED BY <1>2, <1>3, <1>4, <1>6, <1>7

LEMMA LastGiven ==
    ASSUME NEW p, PacketOK(p), NEW lens, NEW c, Ready(p, TRUE, lens, c)
    PROVE  LastSize(p, c, TRUE) # Bad /\ Back(p, TRUE, lens, LastSize(p, c, TRUE))
  <1> DEFINE x == lens[Len(lens)]
             e == Len(EncodeSize(x))
             left == c.len - e
             t == IF c.cbr THEN [i \in 1..c.count |-> x] ELSE Append(c.sizes, x)
             d == [c EXCEPT !.at = c.at + e, !.len = left, !.sizes = t]
  <1>1. /\ c \in Cursors /\ c.at \in Nat /\ c.len \in Nat /\ c.pad \in Nat
        /\ c.count \in 1..48 /\ c.last \in Int /\ c.at + c.len + c.pad = p.len
        /\ p.len \in Nat /\ c.cbr \in BOOLEAN
    BY DEF Ready, Placed, Cursors, PacketOK
  <1>2. lens \in Seq(Lens) /\ Len(lens) = c.count BY DEF Ready
  <1>3. Len(lens) > 0
    <2>1. c.count \in 1..48 /\ Len(lens) = c.count BY <1>1, <1>2
    <2>2. \A k \in 1..48 : k > 0 OBVIOUS
    <2> QED BY <2>1, <2>2
  <1>4. Trailer(lens, TRUE) = EncodeSize(x) BY DEF Trailer
  <1>5. e \in 0..2 /\ x \in Lens
    <2>1. TRUE \in BOOLEAN OBVIOUS
    <2>2. Len(Trailer(lens, TRUE)) \in 0..2 BY <1>2, <1>3, <2>1, TailOK
    <2>3. lens[Len(lens)] \in Lens BY <1>2, <1>3, <2>1, TailOK
    <2>4. e = Len(Trailer(lens, TRUE)) BY <1>4
    <2> QED BY <2>2, <2>3, <2>4
  <1>6. /\ Holds(p, c.at, EncodeSize(x)) /\ c.at + e = Len(p.head)
        /\ c.len = e + Sum(lens)
    BY <1>4 DEF Ready
  <1>7. Sum(lens) = Sum(AllButLast(lens)) + x /\ Sum(AllButLast(lens)) \in Nat
        /\ Append(AllButLast(lens), x) = lens
    BY <1>2, <1>3, Joined
  <1> HIDE DEF x
  <1>8. PICK len \in Nat, n \in 0..2, y \in Lens, sum \in Nat, k \in 1..48 :
           len = c.len /\ n = e /\ y = x /\ sum = Sum(AllButLast(lens)) /\ k = c.count
    <2> HIDE DEF e
    <2> QED BY <1>1, <1>5, <1>7, Zenon
  <1>9. len = n + sum + y /\ n <= len /\ ~(y < 0) /\ ~(y > len - n) /\ len - n = sum + y
        /\ len - n \in Nat
    <2>1. len = n + (sum + y) BY <1>6, <1>7, <1>8
    <2> QED BY <2>1 DEF Lens
  <1>10. ParseSize(p, c.at, c.len) = [bytes |-> e, size |-> x]
    <2>1. Len(EncodeSize(x)) <= c.len BY <1>8, <1>9
    <2>2. c.len \in Int BY <1>1
    <2> QED BY <1>1, <1>5, <1>6, <2>1, <2>2, ParseSizeBack
  <1>11. c.cbr => ~(x * c.count > c.len - e) /\ t = lens
    <2> SUFFICES ASSUME c.cbr PROVE ~(x * c.count > c.len - e) /\ t = lens
      OBVIOUS
    <2>1. AllEqual(lens) BY DEF Ready
    <2>2. /\ lens = [i \in 1..Len(lens) |-> lens[1]] /\ x = lens[1]
          /\ Sum(lens) = Len(lens) * lens[1]
      BY <1>2, <1>3, <2>1, EqualSum DEF x
    <2>3. t = lens BY <1>2, <2>2
    <2>4. k * y = sum + y BY <1>2, <1>7, <1>8, <2>2
    <2>5. ~(y * k > len - n)
      <3>1. y * k = k * y BY DEF Lens
      <3>2. y * k = len - n BY <1>9, <2>4, <3>1
      <3> QED BY <1>9, <3>2
    <2> QED BY <1>8, <2>3, <2>5
  <1>12. ~c.cbr => ~(e + x > c.last) /\ t = lens
    <2> SUFFICES ASSUME ~c.cbr PROVE ~(e + x > c.last) /\ t = lens
      OBVIOUS
    <2>1. c.sizes = AllButLast(lens) /\ c.last = e + lens[c.count]
      BY <1>4 DEF Ready
    <2>2. c.last = e + x BY <1>2, <2>1 DEF x
    <2>3. ~(n + y > n + y) BY DEF Lens
    <2> QED BY <1>7, <1>8, <2>1, <2>2, <2>3
  <1>13. LastSize(p, c, TRUE) = d
    <2> HIDE DEF e
    <2> DEFINE r == ParseSize(p, c.at, c.len)
    <2>1. ~(x < 0) /\ ~(x > c.len - e) BY <1>8, <1>9
    <2>2. r.bytes = e /\ r.size = x BY <1>10
    <2> HIDE DEF r
    <2>3. LastSize(p, c, TRUE) =
            LET d2 == [c EXCEPT !.at = @ + r.bytes, !.len = c.len - r.bytes,
                                !.sizes = IF c.cbr THEN [i \in 1..c.count |-> r.size]
                                          ELSE Append(@, r.size)]
            IN  IF r.size < 0 \/ r.size > c.len - r.bytes THEN Bad
                ELSE IF c.cbr THEN IF r.size * c.count > c.len - r.bytes THEN Bad ELSE d2
                ELSE IF r.bytes + r.size > c.last THEN Bad ELSE d2
      BY DEF LastSize, r
    <2>4. CASE c.cbr
      <3>1. ~(x * c.count > c.len - e) BY <1>11, <2>4
      <3> QED BY <2>1, <2>2, <2>3, <2>4, <3>1
    <2>5. CASE ~c.cbr
      <3>1. ~(e + x > c.last) BY <1>12, <2>5
      <3> QED BY <2>1, <2>2, <2>3, <2>5, <3>1
    <2> QED BY <2>4, <2>5
  <1>14. t = lens BY <1>1, <1>11, <1>12
  <1> HIDE DEF t
  <1>15. c.at + e \in Nat /\ left \in Nat BY <1>1, <1>5, <1>8, <1>9
  <1>16. /\ d \in Cursors /\ d.sizes = t /\ d.at = c.at + e /\ d.pad = c.pad
    <2>1. t \in Seq(Nat) BY <1>2, <1>14, LensSum
    <2> HIDE DEF e, left
    <2> QED BY <1>1, <1>15, <2>1 DEF Cursors
  <1> HIDE DEF d
  <1>17. d # Bad BY <1>16, NotBad
  <1>18. c.at + e + Sum(lens) + c.pad = p.len
    <2>1. PICK a \in Nat, pad \in Nat : a = c.at /\ pad = c.pad BY <1>1
    <2>2. a + (n + (sum + y)) + pad = (a + n) + (sum + y) + pad BY DEF Lens
    <2> QED BY <1>1, <1>7, <1>8, <1>9, <2>1, <2>2
  <1> QED BY <1>1, <1>6, <1>13, <1>14, <1>16, <1>17, <1>18 DEF Back

LEMMA LastLeft ==
    ASSUME NEW p, PacketOK(p), NEW lens, NEW c, Ready(p, FALSE, lens, c)
    PROVE  LastSize(p, c, FALSE) # Bad /\ Back(p, FALSE, lens, LastSize(p, c, FALSE))
  <1> DEFINE t == Append(c.sizes, c.last)
             d == [c EXCEPT !.sizes = t]
  <1>1. /\ c \in Cursors /\ c.at \in Nat /\ c.len \in Nat /\ c.pad \in Nat
        /\ c.count \in 1..48 /\ c.at + c.len + c.pad = p.len
    BY DEF Ready, Placed, Cursors
  <1>2. /\ lens \in Seq(Lens) /\ Len(lens) = c.count
        /\ c.sizes = AllButLast(lens) /\ c.last = lens[c.count]
    BY DEF Ready
  <1>3. Len(lens) > 0
    <2>1. c.count \in 1..48 /\ Len(lens) = c.count BY <1>1, <1>2
    <2>2. \A k \in 1..48 : k > 0 OBVIOUS
    <2> QED BY <2>1, <2>2
  <1>4. t = lens /\ c.last \in Lens BY <1>2, <1>3, Joined
  <1>5. LastSize(p, c, FALSE) = d
    <2>1. ~(c.last > 1275) BY <1>4, LensNat
    <2> QED BY <2>1 DEF LastSize
  <1>6. Trailer(lens, FALSE) = <<>> BY DEF Trailer
  <1>7. c.at = Len(p.head) /\ c.len = Sum(lens)
    <2>1. Sum(lens) \in Nat BY <1>2, LensSum
    <2>2. c.at + 0 = Len(p.head) /\ c.len = 0 + Sum(lens) BY <1>6 DEF Ready
    <2> QED BY <1>1, <2>1, <2>2
  <1> HIDE DEF t
  <1>8. d \in Cursors /\ d.sizes = t /\ d.at = c.at /\ d.pad = c.pad
    <2>1. t \in Seq(Nat) BY <1>2, <1>4, LensSum
    <2> QED BY <1>1, <2>1 DEF Cursors
  <1> HIDE DEF d
  <1>9. d # Bad BY <1>8, NotBad
  <1> QED BY <1>1, <1>4, <1>5, <1>7, <1>8, <1>9 DEF Back

-----------------------------------------------------------------------------
(* The parts of a header lie one behind another.                            *)
LEMMA HoldsLeft ==
    ASSUME NEW p, NEW s \in Seq(Bytes), NEW u \in Seq(Bytes), p.head = s \o u,
           NEW at \in Nat, NEW t \in Seq(Bytes), at + Len(t) <= Len(s),
           \A i \in 1..Len(t) : s[at + i] = t[i]
    PROVE  Holds(p, at, t)
  <1>1. /\ Len(s) \in Nat /\ Len(u) \in Nat /\ Len(t) \in Nat
        /\ Len(p.head) = Len(s) + Len(u) /\ Len(s) <= Len(p.head)
        /\ \A i \in 1..Len(s) : p.head[i] = s[i]
    BY Concat
  <1>2. at + Len(t) <= Len(p.head) BY <1>1
  <1>3. ASSUME NEW i \in 1..Len(t) PROVE p.head[at + i] = t[i]
    <2>1. at + i \in 1..Len(s) BY <1>1
    <2> QED BY <1>1, <2>1
  <1> QED BY <1>2, <1>3 DEF Holds

LEMMA HoldsRight ==
    ASSUME NEW p, NEW s \in Seq(Bytes), NEW u \in Seq(Bytes), p.head = s \o u
    PROVE  Holds(p, Len(s), u) /\ Len(p.head) = Len(s) + Len(u)
  <1>1. /\ Len(s) \in Nat /\ Len(u) \in Nat
        /\ Len(p.head) = Len(s) + Len(u)
        /\ \A i \in 1..Len(u) : p.head[Len(s) + i] = u[i]
    BY Concat
  <1> QED BY <1>1 DEF Holds

Parted(p, a, b, v, u) ==
    /\ p.head \in Seq(Bytes)
    /\ \A i \in 1..Len(a) : p.head[i] = a[i]
    /\ Holds(p, Len(a), b) /\ Holds(p, Len(a) + Len(b), v)
    /\ Holds(p, Len(a) + Len(b) + Len(v), u)
    /\ Len(p.head) = Len(a) + Len(b) + Len(v) + Len(u)

LEMMA FourParts ==
    ASSUME NEW p, NEW a \in Seq(Bytes), NEW b \in Seq(Bytes), NEW v \in Seq(Bytes),
           NEW u \in Seq(Bytes), p.head = ((a \o b) \o v) \o u
    PROVE  Parted(p, a, b, v, u)
  <1>1. PICK s \in Seq(Bytes) : s = a \o b BY Concat
  <1>2. /\ Len(s) \in Nat /\ Len(a) \in Nat /\ Len(b) \in Nat /\ Len(s) = Len(a) + Len(b)
        /\ \A i \in 1..Len(a) : s[i] = a[i]
        /\ \A i \in 1..Len(b) : s[Len(a) + i] = b[i]
    BY <1>1, Concat
  <1>3. PICK t \in Seq(Bytes) : t = s \o v BY Concat
  <1>4. /\ Len(t) \in Nat /\ Len(v) \in Nat /\ Len(t) = Len(s) + Len(v)
        /\ \A i \in 1..Len(s) : t[i] = s[i]
        /\ \A i \in 1..Len(v) : t[Len(s) + i] = v[i]
    <2>1. /\ Len(s) \in Nat /\ Len(v) \in Nat
          /\ Len(s \o v) = Len(s) + Len(v)
          /\ \A i \in 1..Len(s) : (s \o v)[i] = s[i]
          /\ \A i \in 1..Len(v) : (s \o v)[Len(s) + i] = v[i]
      BY Concat
    <2>2. Len(t) \in Nat OBVIOUS
    <2> QED BY <1>3, <2>1, <2>2
  <1>5. p.head = t \o u BY <1>1, <1>3
  <1>6. /\ p.head \in Seq(Bytes) /\ \A i \in 1..Len(t) : p.head[i] = t[i]
    BY <1>5, Concat
  <1>7. Holds(p, Len(t), u) /\ Len(p.head) = Len(t) + Len(u) BY <1>5, HoldsRight
  <1>8. Holds(p, Len(s), v)
    <2>1. Len(s) \in Nat /\ Len(s) + Len(v) <= Len(t) BY <1>4, <1>2
    <2>2. \A i \in 1..Len(v) : t[Len(s) + i] = v[i] BY <1>4
    <2> HIDE <1>4, <1>2
    <2> QED BY <1>5, <2>1, <2>2, HoldsLeft
  <1>9. Holds(p, Len(a), b)
    <2>1. Len(a) + Len(b) <= Len(t) BY <1>2, <1>4
    <2>2. ASSUME NEW i \in 1..Len(b) PROVE t[Len(a) + i] = b[i]
      <3>1. Len(a) + i \in 1..Len(s) BY <1>2
      <3> QED BY <1>2, <1>4, <3>1
    <2> QED BY <1>2, <1>5, <2>1, <2>2, HoldsLeft
  <1>10. ASSUME NEW i \in 1..Len(a) PROVE p.head[i] = a[i]
    <2>1. i \in 1..Len(s) /\ i \in 1..Len(t) BY <1>2, <1>4
    <2> QED BY <1>2, <1>4, <1>6, <2>1
  <1>11. Len(t) = Len(a) + Len(b) + Len(v) /\ Len(s) = Len(a) + Len(b) BY <1>2, <1>4
  <1> QED BY <1>6, <1>7, <1>8, <1>9, <1>10, <1>11 DEF Parted

LEMMA SamplesNat ==
    ASSUME NEW toc \in Bytes
    PROVE  SamplesPerFrame(toc, 48000) \in Nat /\ SamplesPerFrame(toc, 8000) \in 20..480
  <1>1. 48000 \in Rates /\ 8000 \in Rates BY DEF Rates
  <1>2. SamplesPerFrame(toc, 48000) \in 48000 \div 400..(48000 * 60) \div 1000
    BY <1>1, SamplesOK, SMTT(30)
  <1>3. SamplesPerFrame(toc, 8000) \in 8000 \div 400..(8000 * 60) \div 1000
    BY <1>1, SamplesOK
  <1>4. 8000 \div 400 = 20 /\ (8000 * 60) \div 1000 = 480
        /\ 48000 \div 400 = 120 /\ (48000 * 60) \div 1000 = 2880
    OBVIOUS
  <1> DEFINE a == SamplesPerFrame(toc, 48000)
             b == SamplesPerFrame(toc, 8000)
  <1>5. a \in 48000 \div 400..(48000 * 60) \div 1000 BY <1>2
  <1>6. b \in 8000 \div 400..(8000 * 60) \div 1000 BY <1>3
  <1> HIDE DEF a, b
  <1>7. a \in 120..2880 BY <1>4, <1>5
  <1>8. b \in 20..480 BY <1>4, <1>6
  <1>9. a \in Nat BY <1>7
  <1> QED BY <1>8, <1>9 DEF a, b

LEMMA OneFrame ==
    ASSUME NEW lens \in Seq(Lens), Len(lens) = 1
    PROVE  AllButLast(lens) = <<>> /\ Sum(lens) = lens[1] /\ lens[1] \in Lens
  <1>1. AllButLast(lens) = <<>> BY DEF AllButLast
  <1>2. Sum(lens) = Sum(AllButLast(lens)) + lens[1] /\ lens[1] \in Lens BY Joined
  <1> QED BY <1>1, <1>2, SumEmpty, LensNat

LEMMA TwoFrames ==
    ASSUME NEW lens \in Seq(Lens), Len(lens) = 2
    PROVE  /\ AllButLast(lens) = Append(<<>>, lens[1]) /\ Sum(lens) = lens[1] + lens[2]
           /\ lens[1] \in Lens /\ lens[2] \in Lens
  <1>1. lens[1] \in Lens /\ lens[2] \in Lens OBVIOUS
  <1>2. AllButLast(lens) = Append(<<>>, lens[1])
    <2>1. 0 \in Nat /\ 0 < Len(lens) /\ 0 + 1 = 1 /\ Len(lens) - 1 = 1 OBVIOUS
    <2>2. SubSeq(lens, 1, 0 + 1) = Append(SubSeq(lens, 1, 0), lens[0 + 1])
      BY <2>1, FrontAppend
    <2>3. SubSeq(lens, 1, 0) = <<>> OBVIOUS
    <2>4. SubSeq(lens, 1, 1) = Append(<<>>, lens[1]) BY <2>1, <2>2, <2>3
    <2> QED BY <2>1, <2>4 DEF AllButLast
  <1>3. Sum(lens) = Sum(AllButLast(lens)) + lens[2] BY Joined
  <1>4. <<>> \in Seq(Nat) /\ lens[1] \in Nat BY <1>1, LensNat
  <1>5. Sum(Append(<<>>, lens[1])) = Sum(<<>>) + lens[1] BY <1>4, SumAppend
  <1> QED BY <1>1, <1>2, <1>3, <1>4, <1>5, SumEmpty

-----------------------------------------------------------------------------
(* Headers of one frame, and of two of the same length.                     *)
Begins(p, n, at, c) ==
    /\ Placed(p, c) /\ Reading(p, c) /\ c.count = n /\ c.at = at
    /\ c.len = p.len - at /\ c.last = p.len - at /\ c.sizes = <<>> /\ c.pad = 0

LEMMA StartAt ==
    ASSUME NEW p, PacketOK(p), NEW n \in 1..48, NEW at \in 1..2, at <= p.len, NEW c,
           \/ c = Cursor(n, TRUE, at, p.len - at, p.len - at, <<>>, 0)
           \/ c = Cursor(n, FALSE, at, p.len - at, p.len - at, <<>>, 0)
    PROVE  Begins(p, n, at, c)
  <1> DEFINE left == p.len - at
  <1>0. \/ c = Cursor(n, TRUE, at, left, left, <<>>, 0)
        \/ c = Cursor(n, FALSE, at, left, left, <<>>, 0)
    OBVIOUS
  <1>1. at \in Nat /\ left \in Nat /\ at + left = p.len BY DEF PacketOK
  <1> HIDE DEF left
  <1>2. c \in Cursors BY <1>0, <1>1, CursorOK
  <1>3. /\ c.count = n /\ c.at = at /\ c.len = left /\ c.last = left /\ c.sizes = <<>>
        /\ c.pad = 0
    BY <1>0 DEF Cursor
  <1>4. Placed(p, c) /\ Reading(p, c) BY <1>1, <1>2, <1>3, StartOK
  <1> QED BY <1>3, <1>4 DEF Begins, left

LEMMA LeadIs ==
    ASSUME NEW p, PacketOK(p), NEW sd
    PROVE  LET start(n, cbr) == Cursor(n, cbr, 1, p.len - 1, p.len - 1, <<>>, 0) IN
           /\ p.head[1] % 4 = 0 => Lead(p, sd) = start(1, FALSE)
           /\ p.head[1] % 4 = 1 => Lead(p, sd) = EvenSizes(start(2, TRUE), sd)
           /\ p.head[1] % 4 = 2 => Lead(p, sd) = ReadSize(p, start(2, FALSE))
           /\ p.head[1] % 4 = 3 => Lead(p, sd) = ManyFrames(p, sd)
  <1> DEFINE start(n, cbr) == Cursor(n, cbr, 1, p.len - 1, p.len - 1, <<>>, 0)
  <1>1. p.head[1] \in Bytes
    <2>1. Len(p.head) >= 1 BY DEF PacketOK
    <2> QED BY <2>1 DEF PacketOK
  <1>2. PICK code \in 0..3 : code = p.head[1] % 4
    BY <1>1 DEF Bytes
  <1>3. Lead(p, sd) = CASE code = 0 -> start(1, FALSE)
                        [] code = 1 -> EvenSizes(start(2, TRUE), sd)
                        [] code = 2 -> ReadSize(p, start(2, FALSE))
                        [] code = 3 -> ManyFrames(p, sd)
    BY <1>2, Zenon DEF Lead
  <1> DEFINE a == start(1, FALSE)
             b == EvenSizes(start(2, TRUE), sd)
             c == ReadSize(p, start(2, FALSE))
             d == ManyFrames(p, sd)
             l == Lead(p, sd)
  <1>4. l = CASE code = 0 -> a [] code = 1 -> b [] code = 2 -> c [] code = 3 -> d
    BY <1>3, Zenon
  <1> HIDE DEF a, b, c, d, l
  <1>5. /\ code = 0 => l = a
        /\ code = 1 => l = b
        /\ code = 2 => l = c
        /\ code = 3 => l = d
    BY <1>4
  <1> QED BY <1>2, <1>5, Zenon DEF a, b, c, d, l

LEMMA LeadOne ==
    ASSUME NEW p, PacketOK(p), NEW sd \in BOOLEAN, NEW lens \in Seq(Lens),
           p.head[1] % 4 = 0, Len(lens) = 1, Holds(p, 1, Trailer(lens, sd)),
           Len(p.head) = 1 + Len(Trailer(lens, sd)), p.len = Len(p.head) + Sum(lens)
    PROVE  Lead(p, sd) # Bad /\ Ready(p, sd, lens, Lead(p, sd))
  <1> DEFINE c == Cursor(1, FALSE, 1, p.len - 1, p.len - 1, <<>>, 0)
             e == Len(Trailer(lens, sd))
  <1>1. Lead(p, sd) = c BY LeadIs
  <1>2. AllButLast(lens) = <<>> /\ Sum(lens) = lens[1] /\ lens[1] \in Lens
        /\ lens[1] \in Nat
    BY OneFrame, LensNat
  <1>3. e \in 0..2
    <2>1. Len(lens) > 0 OBVIOUS
    <2> QED BY <2>1, TailOK
  <1>4. p.len - 1 = e + lens[1] /\ 1 <= p.len /\ Len(p.head) = 1 + e
    <2>1. p.len = (1 + e) + lens[1] /\ Len(p.head) = 1 + e BY <1>2
    <2> HIDE DEF e
    <2> QED BY <1>2, <1>3, <2>1
  <1> HIDE DEF e
  <1>5. /\ Placed(p, c) /\ c.count = 1 /\ c.at = 1 /\ c.len = p.len - 1
        /\ c.last = p.len - 1 /\ c.sizes = <<>> /\ ~c.cbr
    <2>0. ~c.cbr BY DEF Cursor
    <2>1. 1 \in 1..48 /\ 1 \in 1..2 OBVIOUS
    <2>2. c = Cursor(1, FALSE, 1, p.len - 1, p.len - 1, <<>>, 0) OBVIOUS
    <2> HIDE DEF c
    <2>3. 1 <= p.len BY <1>4
    <2>4. Begins(p, 1, 1, c) BY <2>1, <2>2, <2>3, StartAt
    <2> QED BY <2>0, <2>4 DEF Begins
  <1> HIDE DEF c
  <1>6. c # Bad BY <1>5, NotBad DEF Placed
  <1>7. sd \/ e = 0
    <2> SUFFICES ASSUME ~sd PROVE e = 0 OBVIOUS
    <2>1. Trailer(lens, sd) = <<>> BY DEF Trailer
    <2> QED BY <2>1 DEF e
  <1>8. Ready(p, sd, lens, c)
    <2>1. c.last = e + lens[c.count] /\ c.len = e + Sum(lens) BY <1>2, <1>4, <1>5
    <2>2. ~sd => c.last = lens[c.count] BY <1>2, <1>5, <1>7, <2>1
    <2>3. Holds(p, c.at, Trailer(lens, sd)) /\ c.at + e = Len(p.head) BY <1>4, <1>5
    <2> QED BY <1>2, <1>5, <2>1, <2>2, <2>3 DEF Ready, e
  <1> QED BY <1>1, <1>6, <1>8

LEMMA LeadTwoEqual ==
    ASSUME NEW p, PacketOK(p), NEW sd \in BOOLEAN, NEW lens \in Seq(Lens),
           p.head[1] % 4 = 1, Len(lens) = 2, lens[1] = lens[2],
           Holds(p, 1, Trailer(lens, sd)),
           Len(p.head) = 1 + Len(Trailer(lens, sd)), p.len = Len(p.head) + Sum(lens)
    PROVE  Lead(p, sd) # Bad /\ Ready(p, sd, lens, Lead(p, sd))
  <1> DEFINE c == Cursor(2, TRUE, 1, p.len - 1, p.len - 1, <<>>, 0)
             e == Len(Trailer(lens, sd))
  <1>1. Lead(p, sd) = EvenSizes(c, sd) BY LeadIs
  <1>2. /\ AllButLast(lens) = Append(<<>>, lens[1]) /\ Sum(lens) = lens[1] + lens[2]
        /\ lens[1] \in Nat /\ lens[2] \in Nat
    BY TwoFrames, LensNat
  <1>3. e \in 0..2
    <2>1. Len(lens) > 0 OBVIOUS
    <2> QED BY <2>1, TailOK
  <1>4. p.len - 1 = e + Sum(lens) /\ 1 <= p.len /\ Len(p.head) = 1 + e
        /\ Sum(lens) = 2 * lens[1] /\ Sum(lens) \in Nat
    <2>1. p.len = (1 + e) + Sum(lens) /\ Len(p.head) = 1 + e BY <1>2
    <2> HIDE DEF e
    <2>2. Sum(lens) \in Nat /\ Sum(lens) = 2 * lens[1] BY <1>2
    <2> QED BY <1>3, <2>1, <2>2
  <1> HIDE DEF e
  <1>5. /\ Placed(p, c) /\ c.count = 2 /\ c.at = 1 /\ c.len = p.len - 1
        /\ c.sizes = <<>> /\ c.cbr
    <2>0. c.cbr BY DEF Cursor
    <2>1. 2 \in 1..48 /\ 1 \in 1..2 OBVIOUS
    <2>2. c = Cursor(2, TRUE, 1, p.len - 1, p.len - 1, <<>>, 0) OBVIOUS
    <2> HIDE DEF c
    <2>3. 1 <= p.len BY <1>4
    <2>4. Begins(p, 2, 1, c) BY <2>1, <2>2, <2>3, StartAt
    <2> QED BY <2>0, <2>4 DEF Begins
  <1> HIDE DEF c
  <1>6. AllEqual(lens)
    <2>1. \A i \in 1..Len(lens) : i = 1 \/ i = 2 OBVIOUS
    <2> QED BY <2>1 DEF AllEqual
  <1>7. CASE sd
    <2>1. Lead(p, sd) = c BY <1>1, <1>7 DEF EvenSizes
    <2>2. c # Bad BY <1>5, NotBad DEF Placed
    <2>3. Holds(p, c.at, Trailer(lens, sd)) /\ c.at + e = Len(p.head) BY <1>4, <1>5
    <2>4. Ready(p, sd, lens, c) BY <1>4, <1>5, <1>6, <1>7, <2>3 DEF Ready, e
    <2> QED BY <2>1, <2>2, <2>4
  <1>8. CASE ~sd
    <2>1. Trailer(lens, sd) = <<>> /\ e = 0 BY <1>8 DEF Trailer, e
    <2>2. c.len = c.count * lens[1] BY <1>4, <1>5, <2>1
    <2> DEFINE d == EvenSizes(c, FALSE)
    <2>3. /\ d # Bad /\ d.last = lens[1] /\ d.sizes = [i \in 1..c.count - 1 |-> lens[1]]
          /\ d.at = c.at /\ d.len = c.len /\ d.count = c.count /\ d.pad = c.pad
          /\ d \in Cursors
      BY <1>2, <1>5, <2>2, EvenSizesBack
    <2>4. Lead(p, sd) = d
      <3>1. sd = FALSE BY <1>8
      <3> QED BY <1>1, <3>1
    <2> HIDE DEF d
    <2>5. Placed(p, d) BY <1>5, <2>3 DEF Placed
    <2>6. d.sizes = AllButLast(lens) /\ d.last = lens[d.count]
      <3>1. Append(<<>>, lens[1]) = [i \in 1..1 |-> lens[1]] OBVIOUS
      <3> QED BY <1>2, <1>5, <2>3, <3>1
    <2>7. Holds(p, d.at, Trailer(lens, sd)) /\ d.at + e = Len(p.head)
          /\ d.len = e + Sum(lens) /\ Len(lens) = d.count
      BY <1>4, <1>5, <2>3
    <2>8. Ready(p, sd, lens, d) BY <1>8, <2>5, <2>6, <2>7 DEF Ready, e
    <2> QED BY <2>3, <2>4, <2>8
  <1> QED BY <1>7, <1>8

-----------------------------------------------------------------------------
(* Headers of two frames of different lengths.                              *)
LEMMA ReadyFronts ==
    ASSUME NEW p, NEW sd \in BOOLEAN, NEW lens \in Seq(Lens), NEW d, Reading(p, d),
           ~d.cbr, Len(lens) = d.count, d.sizes = AllButLast(lens),
           Holds(p, d.at, Trailer(lens, sd)), d.at + Len(Trailer(lens, sd)) = Len(p.head),
           d.len = Len(Trailer(lens, sd)) + Sum(lens),
           d.last = d.len - Sum(AllButLast(lens))
    PROVE  d # Bad /\ Ready(p, sd, lens, d)
  <1> DEFINE e == Len(Trailer(lens, sd))
             x == lens[Len(lens)]
  <1>1. d \in Cursors /\ d.count \in 1..48 /\ d.len \in Nat /\ Placed(p, d)
    BY DEF Reading, Placed, Cursors
  <1>2. Len(lens) > 0
    <2>1. \A k \in 1..48 : k > 0 OBVIOUS
    <2> QED BY <1>1, <2>1
  <1>3. e \in 0..2 BY <1>2, TailOK
  <1>4. /\ x \in Lens /\ Sum(AllButLast(lens)) \in Nat
        /\ Sum(lens) = Sum(AllButLast(lens)) + x
    BY <1>2, Joined
  <1>5. d.len = e + Sum(lens) OBVIOUS
  <1>0. Holds(p, d.at, Trailer(lens, sd)) /\ d.at + e = Len(p.head) OBVIOUS
  <1>6. ~sd => e = 0
    <2> SUFFICES ASSUME ~sd PROVE e = 0 OBVIOUS
    <2>1. Trailer(lens, sd) = <<>> BY DEF Trailer
    <2> QED BY <2>1
  <1>7. x = lens[d.count] OBVIOUS
  <1> HIDE DEF e, x
  <1>8. d.last = e + x
    <2>1. PICK n \in 0..2, y \in Nat, s \in Nat :
             n = e /\ y = x /\ s = Sum(AllButLast(lens))
      <3>1. x \in Nat BY <1>4, LensNat
      <3> QED BY <1>3, <1>4, <3>1, Zenon
    <2>2. (n + (s + y)) - s = n + y OBVIOUS
    <2> QED BY <1>4, <1>5, <2>1, <2>2
  <1>9. ~sd => d.last = x
    <2>1. x \in Nat BY <1>4, LensNat
    <2> QED BY <1>6, <1>8, <2>1
  <1>10. d # Bad BY <1>1, NotBad
  <1>11. /\ Placed(p, d) /\ lens \in Seq(Lens) /\ Len(lens) = d.count
         /\ Holds(p, d.at, Trailer(lens, sd)) /\ d.at + Len(Trailer(lens, sd)) = Len(p.head)
         /\ d.len = Len(Trailer(lens, sd)) + Sum(lens)
    BY <1>0, <1>1, <1>5 DEF e
  <1>12. \/ ~sd /\ d.sizes = AllButLast(lens) /\ d.last = lens[d.count]
         \/ /\ sd /\ ~d.cbr /\ d.sizes = AllButLast(lens)
            /\ d.last = Len(Trailer(lens, sd)) + lens[d.count]
    BY <1>7, <1>8, <1>9 DEF e
  <1>13. Ready(p, sd, lens, d) BY <1>11, <1>12 DEF Ready
  <1> QED BY <1>10, <1>13

LEMMA LeadTwoUneven ==
    ASSUME NEW p, PacketOK(p), NEW sd \in BOOLEAN, NEW lens \in Seq(Lens),
           p.head[1] % 4 = 2, Len(lens) = 2,
           Holds(p, 1, EncodeSize(lens[1])),
           Holds(p, 1 + Len(EncodeSize(lens[1])), Trailer(lens, sd)),
           Len(p.head) = 1 + Len(EncodeSize(lens[1])) + Len(Trailer(lens, sd)),
           p.len = Len(p.head) + Sum(lens)
    PROVE  Lead(p, sd) # Bad /\ Ready(p, sd, lens, Lead(p, sd))
  <1> DEFINE c == Cursor(2, FALSE, 1, p.len - 1, p.len - 1, <<>>, 0)
             d == ReadSize(p, c)
             x == lens[1]
             e == Len(EncodeSize(x))
             t == Len(Trailer(lens, sd))
  <1>1. Lead(p, sd) = d BY LeadIs
  <1>2. /\ AllButLast(lens) = Append(<<>>, x) /\ Sum(lens) = x + lens[2]
        /\ x \in Lens /\ lens[2] \in Lens
    BY TwoFrames
  <1>3. t \in 0..2 /\ e \in 1..2
    <2>1. Len(lens) > 0 OBVIOUS
    <2>2. IsLong(x) \in 0..1 /\ e = 1 + IsLong(x) BY <1>2, EncodeOK
    <2>3. t \in 0..2 BY <2>1, TailOK
    <2> HIDE DEF e
    <2> QED BY <2>2, <2>3
  <1>4. PICK i \in 1..2, j \in 0..2, y \in Nat, z \in Nat :
           i = e /\ j = t /\ y = x /\ z = lens[2]
    <2>1. x \in Nat /\ lens[2] \in Nat BY <1>2, LensNat
    <2> HIDE DEF x, e, t
    <2> QED BY <1>3, <2>1, Zenon
  <1>5. p.len = 1 + i + j + (y + z) /\ Len(p.head) = 1 + i + j BY <1>2, <1>4
  <1>6. Holds(p, 1, EncodeSize(x)) /\ Holds(p, 1 + e, Trailer(lens, sd)) OBVIOUS
  <1> HIDE DEF x, e, t
  <1>7. Begins(p, 2, 1, c) /\ ~c.cbr
    <2>0. ~c.cbr BY DEF Cursor
    <2>1. 2 \in 1..48 /\ 1 \in 1..2 OBVIOUS
    <2>2. c = Cursor(2, FALSE, 1, p.len - 1, p.len - 1, <<>>, 0) OBVIOUS
    <2> HIDE DEF c
    <2>3. 1 <= p.len BY <1>5
    <2>4. Begins(p, 2, 1, c) BY <2>1, <2>2, <2>3, StartAt
    <2> QED BY <2>0, <2>4
  <1> HIDE DEF c
  <1>8. /\ Reading(p, c) /\ c.count = 2 /\ c.at = 1 /\ c.len = p.len - 1
        /\ c.last = p.len - 1 /\ c.sizes = <<>>
    BY <1>7 DEF Begins
  <1>9. e + x <= c.len
    <2>1. c.len = i + j + (y + z) BY <1>5, <1>8
    <2>2. i + y <= i + j + (y + z) OBVIOUS
    <2> QED BY <1>4, <2>1, <2>2
  <1>10. /\ d # Bad /\ d.at = c.at + e /\ d.len = c.len - e
         /\ d.last = c.last - e - x /\ d.sizes = Append(c.sizes, x)
    BY <1>2, <1>6, <1>8, <1>9, ReadSizeBack DEF e
  <1>11. Reading(p, d) /\ d.count = 2 /\ ~d.cbr
    <2>1. Reading(p, d) /\ d.count = c.count /\ d.cbr = c.cbr
      BY <1>8, <1>10, ReadSizeOK
    <2> HIDE DEF d
    <2>2. ~d.cbr
      <3>1. d.cbr = c.cbr BY <2>1
      <3> QED BY <1>7, <3>1, Zenon
    <2> QED BY <1>8, <2>1, <2>2
  <1> HIDE DEF d
  <1>12. d.sizes = AllButLast(lens) BY <1>2, <1>8, <1>10
  <1>13. d.at = 1 + e /\ d.at + t = Len(p.head) BY <1>4, <1>5, <1>8, <1>10
  <1>14. d.len = t + Sum(lens)
    <2>1. d.len = (1 + i + j + (y + z)) - 1 - i BY <1>4, <1>5, <1>8, <1>10
    <2>2. (1 + i + j + (y + z)) - 1 - i = j + (y + z) OBVIOUS
    <2> QED BY <1>2, <1>4, <2>1, <2>2
  <1>15. d.last = d.len - Sum(AllButLast(lens))
    <2>1. d.sizes \in Seq(Lens) /\ d.last = d.len - Sum(d.sizes) BY <1>11 DEF Reading
    <2> QED BY <1>12, <2>1
  <1>16. d # Bad /\ Ready(p, sd, lens, d)
    <2>1. Holds(p, d.at, Trailer(lens, sd)) BY <1>6, <1>13
    <2>2. Len(lens) = d.count BY <1>11
    <2> QED BY <1>11, <1>12, <1>13, <1>14, <1>15, <2>1, <2>2, ReadyFronts DEF t
  <1> QED BY <1>1, <1>16

-----------------------------------------------------------------------------
(* Headers that count their frames.                                         *)

(* A header that counts the frames: the count, the padding, and the lengths *)
(* of all frames but the last if they differ.                               *)
Vary(lens) == \E i \in 2..Len(lens) : lens[i] # lens[1]
CountByte(lens, e) ==
    Len(lens) + (IF Vary(lens) THEN 128 ELSE 0) + (IF e # 0 THEN 64 ELSE 0)
Fronts(lens) ==
    IF Vary(lens) THEN FlattenSeq(Codes(lens, Len(lens) - 1)) ELSE <<>>
FrontBytes(lens) ==
    IF Vary(lens) THEN Len(lens) - 1 + Sum(Longs(lens, Len(lens) - 1)) ELSE 0

LEMMA VaryIs ==
    ASSUME NEW lens \in Seq(Lens), Len(lens) > 0
    PROVE  ~Vary(lens) <=> AllEqual(lens)
  <1>1. \A i \in 1..Len(lens) : i = 1 \/ i \in 2..Len(lens) OBVIOUS
  <1>2. \A i \in 2..Len(lens) : i \in 1..Len(lens) OBVIOUS
  <1> QED BY <1>1, <1>2, Zenon DEF Vary, AllEqual

LEMMA CountByteIs ==
    ASSUME NEW lens \in Seq(Lens), Len(lens) \in 1..48, NEW e \in Nat
    PROVE  /\ CountByte(lens, e) \in Bytes
           /\ CountByte(lens, e) % 64 = Len(lens)
           /\ (CountByte(lens, e) < 128) <=> ~Vary(lens)
           /\ ((CountByte(lens, e) \div 64) % 2 = 1) <=> (e # 0)
  <1>1. PICK n \in 1..48 : n = Len(lens) OBVIOUS
  <1>2. CASE Vary(lens) /\ e # 0
    <2>1. CountByte(lens, e) = n + 128 + 64 BY <1>1, <1>2 DEF CountByte
    <2>2. n + 128 + 64 \in Bytes /\ (n + 128 + 64) % 64 = n /\ ~(n + 128 + 64 < 128)
          /\ ((n + 128 + 64) \div 64) % 2 = 1
      BY DEF Bytes
    <2> QED BY <1>1, <1>2, <2>1, <2>2, Zenon
  <1>3. CASE Vary(lens) /\ e = 0
    <2>1. CountByte(lens, e) = n + 128 BY <1>1, <1>3 DEF CountByte
    <2>2. n + 128 \in Bytes /\ (n + 128) % 64 = n /\ ~(n + 128 < 128)
          /\ ~(((n + 128) \div 64) % 2 = 1)
      BY DEF Bytes
    <2> QED BY <1>1, <1>3, <2>1, <2>2, Zenon
  <1>4. CASE ~Vary(lens) /\ e # 0
    <2>1. CountByte(lens, e) = n + 64 BY <1>1, <1>4 DEF CountByte
    <2>2. n + 64 \in Bytes /\ (n + 64) % 64 = n /\ n + 64 < 128
          /\ ((n + 64) \div 64) % 2 = 1
      BY DEF Bytes
    <2> QED BY <1>1, <1>4, <2>1, <2>2, Zenon
  <1>5. CASE ~Vary(lens) /\ e = 0
    <2>1. CountByte(lens, e) = n BY <1>1, <1>5 DEF CountByte
    <2>2. n \in Bytes /\ n % 64 = n /\ n < 128 /\ ~((n \div 64) % 2 = 1)
      BY DEF Bytes
    <2> QED BY <1>1, <1>5, <2>1, <2>2, Zenon
  <1> QED BY <1>2, <1>3, <1>4, <1>5, Zenon

LEMMA FrontsOK ==
    ASSUME NEW lens \in Seq(Lens), Len(lens) \in 1..48
    PROVE  /\ Fronts(lens) \in Seq(Bytes) /\ Len(Fronts(lens)) = FrontBytes(lens)
           /\ FrontBytes(lens) \in Nat /\ FrontBytes(lens) <= 94
           /\ Vary(lens) => \E h : /\ Chain(lens, Len(lens) - 1, h)
                                   /\ Fronts(lens) = h[Len(lens) - 1]
  <1>1. CASE ~Vary(lens)
    <2>1. Fronts(lens) = <<>> /\ FrontBytes(lens) = 0 BY <1>1 DEF Fronts, FrontBytes
    <2> QED BY <1>1, <2>1
  <1>2. CASE Vary(lens)
    <2> DEFINE m == Len(lens) - 1
    <2>1. m \in 1..47 /\ m \in 1..Len(lens) /\ m \in 0..Len(lens) /\ m \in Nat
      <3>1. PICK l \in 1..48 : l = Len(lens) OBVIOUS
      <3>2. PICK i \in 2..l : TRUE BY <1>2, <3>1 DEF Vary
      <3>3. l - 1 \in 1..47 /\ l - 1 \in 1..l /\ l - 1 \in 0..l /\ l - 1 \in Nat
        BY <3>2
      <3> QED BY <3>1, <3>3
    <2>2. Fronts(lens) = FlattenSeq(Codes(lens, m))
          /\ FrontBytes(lens) = m + Sum(Longs(lens, m))
      BY <1>2 DEF Fronts, FrontBytes
    <2>0. \A i \in 1..m : lens[i] \in Lens
      <3>1. \A i \in 1..m : i \in 1..Len(lens) OBVIOUS
      <3> QED BY <3>1
    <2> HIDE DEF m
    <2>3. PICK h : Chain(lens, m, h) /\ FlattenSeq(Codes(lens, m)) = h[m]
      BY <2>1, FlattenIs
    <2>4. h[m] \in Seq(Bytes)
      <3>1. h \in [0..m -> Seq(Bytes)] BY <2>3, Zenon DEF Chain
      <3>2. m \in 0..m BY <2>1
      <3> QED BY <3>1, <3>2
    <2>5. Len(h[m]) = m + Sum(Longs(lens, m)) /\ Sum(Longs(lens, m)) \in Nat
      <3>1. m \in 0..m BY <2>1
      <3> QED BY <2>1, <2>3, <3>1, ChainLength
    <2>6. Sum(Longs(lens, m)) <= m
      <3> DEFINE S == {k \in Nat : k <= m => Sum(Longs(lens, k)) <= k}
      <3>1. 0 \in S
        <4>1. Longs(lens, 0) = <<>> BY DEF Longs
        <4> QED BY <4>1, SumEmpty
      <3>2. ASSUME NEW k \in Nat, k \in S PROVE k + 1 \in S
        <4> SUFFICES ASSUME k + 1 <= m PROVE Sum(Longs(lens, k + 1)) <= k + 1
          OBVIOUS
        <4>1. k < Len(lens) /\ k <= m /\ k + 1 \in 1..m BY <2>1
        <4>2. /\ Sum(Longs(lens, k)) \in Nat
              /\ Sum(Longs(lens, k + 1)) = Sum(Longs(lens, k)) + IsLong(lens[k + 1])
          BY <4>1, LongsAppend
        <4>3. IsLong(lens[k + 1]) \in 0..1 BY <2>0, <4>1, EncodeOK
        <4>4. Sum(Longs(lens, k)) <= k BY <3>2, <4>1
        <4> QED BY <4>2, <4>3, <4>4
      <3> HIDE DEF S
      <3>3. m \in S BY <2>1, <3>1, <3>2, SetInduction
      <3> QED BY <2>1, <3>3 DEF S
    <2>7. FrontBytes(lens) <= 94 /\ FrontBytes(lens) \in Nat BY <2>1, <2>2, <2>5, <2>6
    <2> QED BY <2>2, <2>3, <2>4, <2>5, <2>7 DEF m
  <1> QED BY <1>1, <1>2

-----------------------------------------------------------------------------
(* The parser behind the count and the padding.                             *)
LEMMA Positive == \A n \in 1..48 : n > 0 /\ n \in Nat
  OBVIOUS

Counted(p, sd, lens, e) ==
    /\ p.head[1] % 4 = 3 /\ p.head[2] = CountByte(lens, e)
    /\ SamplesPerFrame(p.head[1], 48000) * Len(lens) <= 5760
    /\ Holds(p, 2, PaddingBytes(e))
    /\ Holds(p, 2 + Padding(e), Fronts(lens))
    /\ Holds(p, 2 + Padding(e) + FrontBytes(lens), Trailer(lens, sd))
    /\ Len(p.head) = 2 + Padding(e) + FrontBytes(lens) + Len(Trailer(lens, sd))
    /\ p.len = Len(p.head) + Sum(lens) + (e - Padding(e))

(* Where the parser is behind the count and the padding.                    *)
Unpadded(p, lens, e, c) ==
    /\ Reading(p, c) /\ c.count = Len(lens) /\ c.sizes = <<>>
    /\ c.at = 2 + Padding(e) /\ c.len = p.len - 2 - e /\ c.pad = e - Padding(e)
    /\ (c.cbr <=> ~Vary(lens))

Skipped(p, lens, e, padded) ==
    /\ padded # Bad /\ ~(padded.len < 0)
    /\ Unpadded(p, lens, e, [padded EXCEPT !.last = padded.len])

LEMMA PaddingSkipped ==
    ASSUME NEW p, PacketOK(p), NEW lens \in Seq(Lens), Len(lens) \in 1..48, NEW e \in Nat,
           NEW start, Begins(p, Len(lens), 2, start), start.cbr <=> ~Vary(lens),
           Holds(p, 2, PaddingBytes(e)), e <= p.len - 2,
           NEW padded, padded = IF e # 0 THEN SkipPadding(p, start) ELSE start
    PROVE  Skipped(p, lens, e, padded)
  <1> DEFINE left == p.len - 2 - e
             c == [padded EXCEPT !.last = padded.len]
  <1>1. /\ Placed(p, start) /\ start.count = Len(lens) /\ start.at = 2
        /\ start.len = p.len - 2 /\ start.sizes = <<>> /\ start.pad = 0
        /\ start \in Cursors /\ start.len \in Nat
    BY DEF Begins, Placed, Cursors
  <1>2. e <= start.len /\ start.len - e = left /\ left \in Nat
    BY <1>1 DEF PacketOK
  <1>3. Padding(e) \in Nat /\ Padding(e) <= e BY PaddingOK
  <1> HIDE DEF left
  <1>4. /\ padded # Bad /\ Placed(p, padded) /\ padded.count = Len(lens)
        /\ padded.sizes = <<>> /\ padded.at = 2 + Padding(e) /\ padded.len = left
        /\ padded.pad = e - Padding(e) /\ padded.cbr = start.cbr
    <2>1. CASE e # 0
      <3>0. padded = SkipPadding(p, start) BY <2>1
      <3>1. e \in Nat \ {0} /\ Holds(p, start.at, PaddingBytes(e)) BY <1>1, <2>1
      <3>2. /\ SkipPadding(p, start) # Bad
            /\ SkipPadding(p, start).at = start.at + Padding(e)
            /\ SkipPadding(p, start).len = start.len - e
            /\ SkipPadding(p, start).pad = e - Padding(e)
        BY <1>1, <1>2, <3>1, SkipPaddingBack
      <3>3. ~(SkipPadding(p, start).len < 0) BY <1>2, <3>2
      <3>4. /\ Placed(p, SkipPadding(p, start))
            /\ SkipPadding(p, start).count = start.count
            /\ SkipPadding(p, start).cbr = start.cbr
            /\ SkipPadding(p, start).sizes = <<>>
        BY <1>1, <3>2, <3>3, SkipPaddingOK
      <3> QED BY <1>1, <1>2, <3>0, <3>2, <3>4
    <2>2. CASE e = 0
      <3>1. padded = start /\ Padding(e) = 0 /\ e - Padding(e) = 0
        BY <2>2 DEF Padding
      <3>2. start.len = left /\ start.at = 2 + Padding(e) BY <1>1, <1>2, <2>2, <3>1
      <3>3. start # Bad BY <1>1, NotBad
      <3> QED BY <1>1, <3>1, <3>2, <3>3
    <2> QED BY <2>1, <2>2
  <1>5. padded.len \in Nat /\ ~(padded.len < 0) BY <1>2, <1>4
  <1>6. /\ Placed(p, c) /\ c.count = padded.count /\ c.sizes = <<>> /\ c.at = padded.at
        /\ c.len = padded.len /\ c.pad = padded.pad /\ c.cbr = padded.cbr
        /\ Reading(p, c)
    <2>1. padded \in Cursors BY <1>4 DEF Placed
    <2>2. PICK k \in Nat : k = padded.len /\ k \in Int BY <1>5
    <2>3. c = [padded EXCEPT !.last = k] BY <2>2
    <2> HIDE DEF c
    <2>4. /\ c \in Cursors /\ c.at = padded.at /\ c.len = padded.len /\ c.pad = padded.pad
          /\ c.count = padded.count /\ c.sizes = padded.sizes /\ c.last = k
          /\ c.cbr = padded.cbr
      BY <2>1, <2>2, <2>3 DEF Cursors
    <2>5. Placed(p, c) BY <1>4, <2>4 DEF Placed
    <2>6. <<>> \in Seq(Lens) /\ k - 0 = k BY <2>2
    <2>7. Reading(p, c) BY <1>4, <2>2, <2>4, <2>5, <2>6, SumEmpty DEF Reading
    <2> QED BY <1>4, <2>4, <2>5, <2>7
  <1> HIDE DEF c
  <1>7. c.cbr <=> ~Vary(lens)
    <2>1. c.cbr = start.cbr BY <1>4, <1>6
    <2> QED BY <2>1, Zenon
  <1>8. Unpadded(p, lens, e, c) BY <1>4, <1>6, <1>7 DEF Unpadded, left
  <1> QED BY <1>4, <1>5, <1>8 DEF Skipped, c

LEMMA UnpaddedLeft ==
    ASSUME NEW p, PacketOK(p), NEW sd \in BOOLEAN, NEW lens \in Seq(Lens),
           Len(lens) \in 1..48, NEW e \in Nat, Counted(p, sd, lens, e),
           NEW c, Unpadded(p, lens, e, c)
    PROVE  /\ c.at + FrontBytes(lens) + Len(Trailer(lens, sd)) = Len(p.head)
           /\ c.len = FrontBytes(lens) + Len(Trailer(lens, sd)) + Sum(lens)
  <1>1. PICK t \in 0..2, f \in Nat, q \in Nat, s \in Nat :
           t = Len(Trailer(lens, sd)) /\ f = FrontBytes(lens) /\ q = Padding(e) /\ s = Sum(lens)
    <2>1. Len(lens) > 0 BY Positive
    <2>2. Len(Trailer(lens, sd)) \in 0..2 BY <2>1, TailOK
    <2>3. FrontBytes(lens) \in Nat BY FrontsOK
    <2> QED BY <2>2, <2>3, PaddingOK, LensSum, Zenon
  <1>2. /\ Len(p.head) = 2 + q + f + t /\ p.len = (2 + q + f + t) + s + (e - q)
        /\ c.at = 2 + q /\ c.len = p.len - 2 - e
    BY <1>1 DEF Counted, Unpadded
  <1>3. ((2 + q + f + t) + s + (e - q)) - 2 - e = f + t + s /\ (2 + q) + f + t = 2 + q + f + t
    OBVIOUS
  <1> QED BY <1>1, <1>2, <1>3

LEMMA CountedEven ==
    ASSUME NEW p, PacketOK(p), NEW sd \in BOOLEAN, NEW lens \in Seq(Lens),
           Len(lens) \in 1..48, NEW e \in Nat, Counted(p, sd, lens, e), ~Vary(lens),
           NEW c, Unpadded(p, lens, e, c)
    PROVE  /\ EvenSizes(c, sd) # Bad /\ Ready(p, sd, lens, EvenSizes(c, sd))
           /\ EvenSizes(c, sd).pad = c.pad
  <1> DEFINE t == Len(Trailer(lens, sd))
  <1>0. Len(lens) > 0 BY Positive
  <1>1. AllEqual(lens) /\ FrontBytes(lens) = 0 BY <1>0, VaryIs DEF FrontBytes
  <1>2. /\ Placed(p, c) /\ c.count = Len(lens) /\ c.cbr /\ c.at \in Nat /\ c.at = 2 + Padding(e)
        /\ c \in Cursors
    BY DEF Unpadded, Reading, Placed, Cursors
  <1>3. t \in 0..2 /\ Sum(lens) \in Nat BY <1>0, TailOK, LensSum
  <1>4. c.at + t = Len(p.head) /\ c.len = t + Sum(lens)
    <2>1. /\ c.at + FrontBytes(lens) + t = Len(p.head)
          /\ c.len = FrontBytes(lens) + t + Sum(lens)
      BY UnpaddedLeft
    <2> HIDE DEF t
    <2> QED BY <1>1, <1>2, <1>3, <2>1
  <1>5. Holds(p, c.at, Trailer(lens, sd))
    <2>1. Holds(p, 2 + Padding(e) + FrontBytes(lens), Trailer(lens, sd)) BY DEF Counted
    <2>2. c.at + 0 = c.at BY <1>2
    <2> QED BY <1>1, <1>2, <2>1, <2>2
  <1> HIDE DEF t
  <1>6. /\ lens[1] \in Lens /\ Sum(lens) = Len(lens) * lens[1]
        /\ AllButLast(lens) = [i \in 1..Len(lens) - 1 |-> lens[1]]
        /\ lens[Len(lens)] = lens[1]
    BY <1>0, <1>1, EqualSum
  <1>7. CASE sd
    <2>1. EvenSizes(c, sd) = c BY <1>7 DEF EvenSizes
    <2>2. c # Bad BY <1>2, NotBad
    <2>3. Ready(p, sd, lens, c) BY <1>1, <1>2, <1>4, <1>5, <1>7 DEF Ready, t
    <2> QED BY <2>1, <2>2, <2>3
  <1>8. CASE ~sd
    <2>1. Trailer(lens, sd) = <<>> /\ t = 0 BY <1>8 DEF Trailer, t
    <2>2. c.len = c.count * lens[1] /\ lens[1] \in Nat
      BY <1>2, <1>3, <1>4, <1>6, <2>1, LensNat
    <2> DEFINE d == EvenSizes(c, FALSE)
    <2>3. /\ d # Bad /\ d.last = lens[1] /\ d.sizes = [i \in 1..c.count - 1 |-> lens[1]]
          /\ d.at = c.at /\ d.len = c.len /\ d.count = c.count /\ d.pad = c.pad
          /\ d \in Cursors
      <3>1. Placed(p, c) BY <1>2
      <3> QED BY <2>2, <3>1, EvenSizesBack, ZenonT(40)
    <2>4. EvenSizes(c, sd) = d
      <3>1. sd = FALSE BY <1>8
      <3> QED BY <3>1
    <2> HIDE DEF d
    <2>5. Placed(p, d) BY <1>2, <2>3 DEF Placed
    <2>6. d.sizes = AllButLast(lens) /\ d.last = lens[d.count] BY <1>2, <1>6, <2>3
    <2>7. Holds(p, d.at, Trailer(lens, sd)) /\ d.at + t = Len(p.head)
          /\ d.len = t + Sum(lens) /\ Len(lens) = d.count
      BY <1>2, <1>4, <1>5, <2>3
    <2>8. Ready(p, sd, lens, d) BY <1>8, <2>5, <2>6, <2>7 DEF Ready, t
    <2> QED BY <2>3, <2>4, <2>8
  <1> QED BY <1>7, <1>8

-----------------------------------------------------------------------------
(* What was counted is found: frames of one length and of many.             *)
LEMMA CountedVary ==
    ASSUME NEW p, PacketOK(p), NEW sd \in BOOLEAN, NEW lens \in Seq(Lens),
           Len(lens) \in 1..48, NEW e \in Nat, Counted(p, sd, lens, e), Vary(lens),
           NEW c, Unpadded(p, lens, e, c)
    PROVE  LET d == ReadSizes(p, c, Len(lens) - 1) IN
           /\ d # Bad /\ ~(d.last < 0) /\ Ready(p, sd, lens, d) /\ d.pad = c.pad
  <1> DEFINE m == Len(lens) - 1
             d == ReadSizes(p, c, m)
             t == Len(Trailer(lens, sd))
             x == lens[Len(lens)]
  <1>0. Len(lens) > 0 /\ m \in Nat /\ m \in 0..Len(lens) /\ Len(lens) = m + 1
    <2>1. PICK n \in 1..48 : n = Len(lens) OBVIOUS
    <2>2. n > 0 /\ n - 1 \in Nat /\ n - 1 \in 0..n /\ n = (n - 1) + 1 OBVIOUS
    <2> QED BY <2>1, <2>2
  <1> HIDE DEF m
  <1>1. /\ Reading(p, c) /\ c.count = Len(lens) /\ c.sizes = <<>> /\ c.at \in Nat
        /\ c.at = 2 + Padding(e) /\ ~c.cbr /\ c.len \in Nat /\ c \in Cursors
    BY DEF Unpadded, Reading, Placed, Cursors
  <1>2. t \in 0..2 BY <1>0, TailOK
  <1>3. /\ AllButLast(lens) \in Seq(Lens) /\ x \in Lens
        /\ Sum(AllButLast(lens)) \in Nat
        /\ Sum(lens) = Sum(AllButLast(lens)) + x
    BY <1>0, Joined
  <1>4. /\ c.at + FrontBytes(lens) + t = Len(p.head)
        /\ c.len = FrontBytes(lens) + t + Sum(lens)
    BY UnpaddedLeft
  <1>5. PICK h : Chain(lens, m, h) /\ Fronts(lens) = h[m]
    BY FrontsOK DEF m
  <1>6. FrontBytes(lens) \in Nat /\ Len(h[m]) = FrontBytes(lens) BY <1>5, FrontsOK
  <1>7. Holds(p, c.at, h[m]) BY <1>1, <1>5 DEF Counted
  <1> HIDE DEF t, x
  <1>8. PICK f \in Nat, k \in 0..2, s \in Nat, y \in Nat, a \in Nat :
           f = FrontBytes(lens) /\ k = t /\ s = Sum(AllButLast(lens)) /\ y = x /\ a = c.at
    <2>1. x \in Nat BY <1>3, LensNat
    <2> QED BY <1>1, <1>2, <1>3, <1>6, <2>1, Zenon
  <1>9. c.len = f + k + (s + y) BY <1>3, <1>4, <1>8
  <1>10. AllButLast(lens) = SubSeq(lens, 1, m) BY DEF AllButLast, m
  <1>11. Len(h[m]) + Sum(SubSeq(lens, 1, m)) <= c.len
    <2>1. f + s <= f + k + (s + y) OBVIOUS
    <2> QED BY <1>6, <1>8, <1>9, <1>10, <2>1
  <1>12. /\ d # Bad /\ d.at = c.at + Len(h[m]) /\ d.len = c.len - Len(h[m])
         /\ d.sizes = SubSeq(lens, 1, m)
    BY <1>0, <1>1, <1>5, <1>7, <1>11, ReadSizesBack
  <1>13. Reading(p, d) /\ d.count = c.count /\ ~d.cbr /\ d.pad = c.pad
    <2>1. Reading(p, d) /\ d.count = c.count /\ d.cbr = c.cbr /\ d.pad = c.pad
      BY <1>0, <1>1, <1>12, ReadSizesOK
    <2> HIDE DEF d
    <2>2. d.cbr = c.cbr BY <2>1
    <2>3. ~d.cbr BY <1>1, <2>2, Zenon
    <2> QED BY <2>1, <2>3
  <1> HIDE DEF d
  <1>14. d.at = a + f /\ d.len = k + (s + y) /\ d.at + t = Len(p.head)
    <2>1. (f + k + (s + y)) - f = k + (s + y) /\ (a + f) + k = a + f + k OBVIOUS
    <2> QED BY <1>4, <1>6, <1>8, <1>9, <1>12, <2>1
  <1>15. d.len = t + Sum(lens) BY <1>3, <1>8, <1>14
  <1>16. d.sizes = AllButLast(lens) BY <1>10, <1>12
  <1>17. d.last = d.len - Sum(AllButLast(lens)) /\ ~(d.last < 0)
    <2>1. d.last = d.len - Sum(d.sizes) BY <1>13 DEF Reading
    <2>2. d.last = (k + (s + y)) - s BY <1>8, <1>14, <1>16, <2>1
    <2>3. ~((k + (s + y)) - s < 0) OBVIOUS
    <2> QED BY <1>16, <2>1, <2>2, <2>3
  <1>18. Holds(p, d.at, Trailer(lens, sd))
    <2>1. Holds(p, 2 + Padding(e) + FrontBytes(lens), Trailer(lens, sd)) BY DEF Counted
    <2>2. d.at = 2 + Padding(e) + FrontBytes(lens) BY <1>1, <1>8, <1>14
    <2> QED BY <2>1, <2>2
  <1>19. Ready(p, sd, lens, d)
    <2>1. Len(lens) = d.count BY <1>1, <1>13
    <2> QED BY <1>13, <1>14, <1>15, <1>16, <1>17, <1>18, <2>1, ReadyFronts DEF t
  <1> QED BY <1>12, <1>13, <1>17, <1>19 DEF d, m

LEMMA HeadNumbers ==
    ASSUME NEW q \in Nat, NEW f \in Nat, NEW t \in 0..2, NEW s \in Nat, NEW e \in Nat, q <= e
    PROVE  /\ 2 <= (2 + q + f + t) + s + (e - q)
           /\ e <= ((2 + q + f + t) + s + (e - q)) - 2
           /\ (2 + q + f + t) + s + (e - q) >= 2 /\ 2 + q + f + t >= 2
  OBVIOUS

LEMMA LeadMany ==
    ASSUME NEW p, PacketOK(p), NEW sd \in BOOLEAN, NEW lens \in Seq(Lens),
           Len(lens) \in 1..48, NEW e \in Nat, Counted(p, sd, lens, e)
    PROVE  /\ Lead(p, sd) # Bad /\ Ready(p, sd, lens, Lead(p, sd))
           /\ Lead(p, sd).pad = e - Padding(e)
  <1> DEFINE b == Byte(p, 1)
             count == b % 64
             start == Cursor(count, b < 128, 2, p.len - 2, p.len - 2, <<>>, 0)
             padded == IF (b \div 64) % 2 = 1 THEN SkipPadding(p, start) ELSE start
             c == [padded EXCEPT !.last = padded.len]
             d == ReadSizes(p, c, count - 1)
             n == Len(lens)
             spf == SamplesPerFrame(p.head[1], 48000)
  <1>1. /\ p.head[1] % 4 = 3 /\ p.head[2] = CountByte(lens, e)
        /\ spf * n <= 5760
        /\ Len(p.head) = 2 + Padding(e) + FrontBytes(lens) + Len(Trailer(lens, sd))
        /\ p.len = Len(p.head) + Sum(lens) + (e - Padding(e))
        /\ Holds(p, 2, PaddingBytes(e))
    BY DEF Counted
  <1>2. n > 0 BY Positive
  <1>3. PICK q \in Nat, f \in Nat, t \in 0..2, s \in Nat :
          /\ q = Padding(e) /\ q <= e /\ f = FrontBytes(lens)
          /\ t = Len(Trailer(lens, sd)) /\ s = Sum(lens)
    <2>1. Len(Trailer(lens, sd)) \in 0..2 BY <1>2, TailOK
    <2>2. FrontBytes(lens) \in Nat BY FrontsOK
    <2>3. Padding(e) \in Nat /\ Padding(e) <= e BY PaddingOK
    <2> QED BY <2>1, <2>2, <2>3, LensSum, Zenon
  <1>4. Len(p.head) = 2 + q + f + t /\ p.len = (2 + q + f + t) + s + (e - q)
    BY <1>1, <1>3
  <1>5. 2 <= p.len /\ e <= p.len - 2 /\ p.len >= 2 /\ Len(p.head) >= 2
    <2>1. q <= e BY <1>3
    <2> QED BY <1>4, <2>1, HeadNumbers
  <1>6. b = CountByte(lens, e)
    <2>1. ~(1 >= Len(p.head)) /\ 1 + 1 = 2 BY <1>3, <1>4
    <2>2. b = p.head[1 + 1] BY <2>1, Zenon DEF Byte
    <2> QED BY <1>1, <2>1, <2>2
  <1>7. /\ count = n /\ (b < 128 <=> ~Vary(lens)) /\ ((b \div 64) % 2 = 1 <=> e # 0)
    <2>1. /\ CountByte(lens, e) % 64 = n
          /\ (CountByte(lens, e) < 128) <=> ~Vary(lens)
          /\ ((CountByte(lens, e) \div 64) % 2 = 1) <=> (e # 0)
      BY CountByteIs
    <2> QED BY <1>6, <2>1, Zenon
  <1>8. spf \in Nat /\ ~(count = 0 \/ spf * count > 5760)
    <2>1. Len(p.head) >= 1 /\ p.head \in Seq(Bytes) BY <1>5 DEF PacketOK
    <2>2. p.head[1] \in Bytes BY <2>1
    <2>5. spf \in Nat BY <2>2, SamplesNat
    <2> HIDE DEF spf, count
    <2>6. n \in Nat /\ n # 0
      <3>1. n \in 1..48 OBVIOUS
      <3> HIDE DEF n
      <3> QED BY <3>1
    <2>7. ~(spf * n > 5760) BY <1>1, <2>5, <2>6
    <2> QED BY <1>7, <2>5, <2>6, <2>7
  <1>9. ManyFrames(p, sd) =
          IF padded = Bad \/ padded.len < 0 THEN Bad
          ELSE IF c.cbr THEN EvenSizes(c, sd)
          ELSE IF d = Bad \/ d.last < 0 THEN Bad ELSE d
    <2>1. ~(p.len < 2) BY <1>5 DEF PacketOK
    <2>2. p.len >= 2 /\ count # 0 /\ ~(spf * count > 5760) BY <1>5, <1>8
    <2> QED BY <2>1, <2>2 DEF ManyFrames
  <1> HIDE DEF spf
  <1>10. Begins(p, n, 2, start) /\ (start.cbr <=> ~Vary(lens))
    <2>1. n \in 1..48 /\ 2 \in 1..2 OBVIOUS
    <2>2. CASE b < 128
      <3>1. start = Cursor(n, TRUE, 2, p.len - 2, p.len - 2, <<>>, 0)
        <4>1. (b < 128) = TRUE BY <2>2
        <4> HIDE DEF b, count
        <4> QED BY <1>7, <4>1
      <3>2. start.cbr BY <3>1 DEF Cursor
      <3> HIDE DEF start
      <3>3. Begins(p, n, 2, start) BY <1>5, <2>1, <3>1, StartAt
      <3> QED BY <1>7, <2>2, <3>2, <3>3
    <2>3. CASE ~(b < 128)
      <3>1. start = Cursor(n, FALSE, 2, p.len - 2, p.len - 2, <<>>, 0)
        <4>1. (b < 128) = FALSE BY <2>3
        <4> HIDE DEF b, count
        <4> QED BY <1>7, <4>1
      <3>2. ~start.cbr BY <3>1 DEF Cursor
      <3> HIDE DEF start
      <3>3. Begins(p, n, 2, start) BY <1>5, <2>1, <3>1, StartAt
      <3> QED BY <1>7, <2>3, <3>2, <3>3
    <2> QED BY <2>2, <2>3
  <1>11. padded = IF e # 0 THEN SkipPadding(p, start) ELSE start
    <2> HIDE DEF start, b, count
    <2> QED BY <1>7
  <1> HIDE DEF start, padded
  <1>12. /\ padded # Bad /\ ~(padded.len < 0) /\ Unpadded(p, lens, e, c)
    <2>1. Holds(p, 2, PaddingBytes(e)) /\ e <= p.len - 2 BY <1>1, <1>5
    <2>2. Skipped(p, lens, e, padded) BY <1>10, <1>11, <2>1, PaddingSkipped
    <2> QED BY <2>2 DEF Skipped
  <1> HIDE DEF c
  <1>13. c.pad = e - Padding(e) /\ (c.cbr <=> ~Vary(lens)) BY <1>12 DEF Unpadded
  <1>14. Lead(p, sd) = ManyFrames(p, sd)
    <2>1. p.head[1] % 4 = 3 BY <1>1
    <2> HIDE DEF d
    <2> QED BY <2>1, LeadIs
  <1>15. CASE Vary(lens)
    <2>1. d = ReadSizes(p, c, Len(lens) - 1) BY <1>7
    <2>2. d # Bad /\ ~(d.last < 0) /\ Ready(p, sd, lens, d) /\ d.pad = c.pad
      BY <1>12, <1>15, <2>1, CountedVary
    <2> HIDE DEF d
    <2>3. ManyFrames(p, sd) = d BY <1>9, <1>12, <1>13, <1>15, <2>2
    <2> QED BY <1>13, <1>14, <2>2, <2>3
  <1>16. CASE ~Vary(lens)
    <2>1. /\ EvenSizes(c, sd) # Bad /\ Ready(p, sd, lens, EvenSizes(c, sd))
          /\ EvenSizes(c, sd).pad = c.pad
      BY <1>12, <1>16, CountedEven
    <2> HIDE DEF d
    <2>2. ManyFrames(p, sd) = EvenSizes(c, sd) BY <1>9, <1>12, <1>13, <1>16
    <2> QED BY <1>13, <1>14, <2>1, <2>2
  <1> QED BY <1>15, <1>16

-----------------------------------------------------------------------------
(* What was written is parsed back.                                         *)
LEMMA ParseIs ==
    ASSUME NEW p, PacketOK(p), NEW sd
    PROVE  Parse(p, sd) = IF Lead(p, sd) = Bad THEN Bad ELSE LastSize(p, Lead(p, sd), sd)
  <1> DEFINE c == Lead(p, sd)
             d == IF c = Bad THEN Bad ELSE LastSize(p, c, sd)
  <1>1. p.len # 0 BY DEF PacketOK
  <1>2. {IF e = Bad THEN Bad ELSE LastSize(p, e, sd) : e \in {c}} = {d} OBVIOUS
  <1> HIDE DEF c, d
  <1>3. Only({d}) = d BY OnlyIs
  <1>4. Parse(p, sd) = d BY <1>1, <1>2, <1>3, Zenon DEF Parse, c
  <1> QED BY <1>4 DEF c, d

(* The whole parser, from where it comes to the last frame.                 *)
LEMMA ParseBack ==
    ASSUME NEW p, PacketOK(p), NEW sd \in BOOLEAN, NEW lens,
           Lead(p, sd) # Bad, Ready(p, sd, lens, Lead(p, sd))
    PROVE  Back(p, sd, lens, Parse(p, sd))
  <1> DEFINE c == Lead(p, sd)
  <1>1. Parse(p, sd) = LastSize(p, c, sd) BY ParseIs
  <1>2. Ready(p, sd, lens, c) OBVIOUS
  <1> HIDE DEF c
  <1>3. CASE sd
    <2>1. sd = TRUE BY <1>3
    <2>2. Ready(p, TRUE, lens, c) BY <1>2, <2>1
    <2>3. Back(p, TRUE, lens, LastSize(p, c, TRUE)) BY <2>2, LastGiven
    <2> QED BY <1>1, <2>1, <2>3
  <1>4. CASE ~sd
    <2>1. sd = FALSE BY <1>4
    <2>2. Ready(p, FALSE, lens, c) BY <1>2, <2>1
    <2>3. Back(p, FALSE, lens, LastSize(p, c, FALSE)) BY <2>2, LastLeft
    <2> QED BY <1>1, <2>1, <2>3
  <1> QED BY <1>3, <1>4

(* The frames of a configuration take as long whatever the count code.      *)
LEMMA SameConfig ==
    ASSUME NEW a \in Bytes, NEW b \in Bytes, a \div 4 = b \div 4
    PROVE  /\ a \div 8 = b \div 8 /\ (a >= 128 <=> b >= 128)
           /\ (a \in 96..127 <=> b \in 96..127) /\ (a < 96 <=> b < 96)
  <1>1. a \div 4 \in Nat /\ a \div 8 = (a \div 4) \div 2 /\ b \div 8 = (b \div 4) \div 2
    BY DEF Bytes
  <1>2. a >= 128 <=> a \div 4 >= 32 BY DEF Bytes
  <1>3. b >= 128 <=> b \div 4 >= 32 BY DEF Bytes
  <1>4. a < 96 <=> a \div 4 < 24 BY DEF Bytes
  <1>5. b < 96 <=> b \div 4 < 24 BY DEF Bytes
  <1>6. a \in 96..127 <=> ~(a >= 128) /\ ~(a < 96) BY DEF Bytes
  <1>7. b \in 96..127 <=> ~(b >= 128) /\ ~(b < 96) BY DEF Bytes
  <1> QED BY <1>1, <1>2, <1>3, <1>4, <1>5, <1>6, <1>7

LEMMA SameSamples ==
    ASSUME NEW a \in Bytes, NEW b \in Bytes, a \div 4 = b \div 4, NEW Fs
    PROVE  SamplesPerFrame(a, Fs) = SamplesPerFrame(b, Fs)
  <1>1. /\ a \div 8 = b \div 8 /\ (a >= 128 <=> b >= 128)
        /\ (a \in 96..127 <=> b \in 96..127) /\ (a < 96 <=> b < 96)
    BY SameConfig
  <1> DEFINE config == (a \div 8) % 4
  <1>2. SamplesPerFrame(a, Fs) =
          CASE a >= 128 -> (Fs * 2^config) \div 400
            [] a \in 96..127 -> IF config % 2 = 1 THEN Fs \div 50 ELSE Fs \div 100
            [] a < 96 /\ config = 3 -> (Fs * 60) \div 1000
            [] a < 96 /\ config # 3 -> (Fs * 2^config) \div 100
    BY Zenon DEF SamplesPerFrame
  <1>3. config = (b \div 8) % 4 BY <1>1
  <1>4. SamplesPerFrame(b, Fs) =
          CASE b >= 128 -> (Fs * 2^config) \div 400
            [] b \in 96..127 -> IF config % 2 = 1 THEN Fs \div 50 ELSE Fs \div 100
            [] b < 96 /\ config = 3 -> (Fs * 60) \div 1000
            [] b < 96 /\ config # 3 -> (Fs * 2^config) \div 100
    BY <1>3, ZenonT(40) DEF SamplesPerFrame
  <1> DEFINE x == (Fs * 2^config) \div 400
             y == IF config % 2 = 1 THEN Fs \div 50 ELSE Fs \div 100
             z == (Fs * 60) \div 1000
             w == (Fs * 2^config) \div 100
  <1> HIDE DEF config, x, y, z, w
  <1>5. SamplesPerFrame(a, Fs) =
          CASE a >= 128 -> x [] a \in 96..127 -> y
            [] a < 96 /\ config = 3 -> z [] a < 96 /\ config # 3 -> w
    BY <1>2, Zenon DEF x, y, z, w
  <1>6. SamplesPerFrame(b, Fs) =
          CASE b >= 128 -> x [] b \in 96..127 -> y
            [] b < 96 /\ config = 3 -> z [] b < 96 /\ config # 3 -> w
    BY <1>4, Zenon DEF x, y, z, w
  <1>7. CASE a >= 128
    <2>1. ~(a < 96) /\ a \notin 96..127 BY <1>7 DEF Bytes
    <2> QED BY <1>1, <1>5, <1>6, <1>7, <2>1
  <1>8. CASE a \in 96..127
    <2>1. ~(a < 96) /\ ~(a >= 128) BY <1>8
    <2> QED BY <1>1, <1>5, <1>6, <1>8, <2>1
  <1>9. CASE a < 96
    <2>1. a \notin 96..127 /\ ~(a >= 128) BY <1>9 DEF Bytes
    <2> QED BY <1>1, <1>5, <1>6, <1>9, <2>1
  <1> QED BY <1>7, <1>8, <1>9 DEF Bytes

-----------------------------------------------------------------------------
(* The length of a header, at most.                                         *)
(* The parser counts at 48 kHz and the repacketizer at 8 kHz.               *)
LEMMA SixTimes ==
    ASSUME NEW toc \in Bytes
    PROVE  SamplesPerFrame(toc, 48000) = 6 * SamplesPerFrame(toc, 8000)
  <1> DEFINE config == (toc \div 8) % 4
             k == 2^config
  <1>1. config \in 0..3 /\ toc \in 0..255 BY DEF Bytes
  <1>2. ASSUME NEW Fs \in {8000, 48000}
        PROVE  /\ toc >= 128 => SamplesPerFrame(toc, Fs) = (Fs * k) \div 400
               /\ toc \in 96..127 => SamplesPerFrame(toc, Fs) =
                    IF config % 2 = 1 THEN Fs \div 50 ELSE Fs \div 100
               /\ toc < 96 /\ config = 3 => SamplesPerFrame(toc, Fs) = (Fs * 60) \div 1000
               /\ toc < 96 /\ config # 3 => SamplesPerFrame(toc, Fs) = (Fs * k) \div 100
    <2> HIDE DEF config
    <2> QED BY <1>1 DEF SamplesPerFrame, config
  <1> HIDE DEF config
  <1>3. k \in {1, 2, 4, 8} BY <1>1, Powers
  <1> HIDE DEF k
  <1>4. 8000 \in {8000, 48000} /\ 48000 \in {8000, 48000} OBVIOUS
  <1>5. /\ (48000 * k) \div 400 = 6 * ((8000 * k) \div 400)
        /\ (48000 * k) \div 100 = 6 * ((8000 * k) \div 100)
        /\ 48000 \div 50 = 6 * (8000 \div 50) /\ 48000 \div 100 = 6 * (8000 \div 100)
        /\ (48000 * 60) \div 1000 = 6 * ((8000 * 60) \div 1000)
    BY <1>3
  <1>6. CASE toc >= 128
    <2>1. SamplesPerFrame(toc, 48000) = (48000 * k) \div 400
          /\ SamplesPerFrame(toc, 8000) = (8000 * k) \div 400
      BY <1>2, <1>4, <1>6
    <2> QED BY <1>5, <2>1
  <1>7. CASE toc \in 96..127
    <2>1. CASE config % 2 = 1
      <3>1. SamplesPerFrame(toc, 48000) = 48000 \div 50
            /\ SamplesPerFrame(toc, 8000) = 8000 \div 50
        BY <1>2, <1>4, <1>7, <2>1
      <3> QED BY <1>5, <3>1
    <2>2. CASE config % 2 # 1
      <3>1. SamplesPerFrame(toc, 48000) = 48000 \div 100
            /\ SamplesPerFrame(toc, 8000) = 8000 \div 100
        BY <1>2, <1>4, <1>7, <2>2
      <3> QED BY <1>5, <3>1
    <2> QED BY <2>1, <2>2
  <1>8. CASE toc < 96 /\ config = 3
    <2>1. SamplesPerFrame(toc, 48000) = (48000 * 60) \div 1000
          /\ SamplesPerFrame(toc, 8000) = (8000 * 60) \div 1000
      BY <1>2, <1>4, <1>8
    <2> QED BY <1>5, <2>1
  <1>9. CASE toc < 96 /\ config # 3
    <2>1. SamplesPerFrame(toc, 48000) = (48000 * k) \div 100
          /\ SamplesPerFrame(toc, 8000) = (8000 * k) \div 100
      BY <1>2, <1>4, <1>9
    <2> QED BY <1>5, <2>1
  <1> QED BY <1>1, <1>6, <1>7, <1>8, <1>9

(* A packet that the repacketizer makes of lens.                            *)
Slim(p, sd, lens) ==
    \E q \in Nat :
       /\ Len(p.head) <= 2 + FrontBytes(lens) + Len(Trailer(lens, sd)) + q
       /\ q > 0 => p.len - Len(p.head) - Sum(lens) >= 254 * (q - 1)
Written(p, sd, lens) ==
    PacketOK(p) /\ Back(p, sd, lens, Parse(p, sd)) /\ Slim(p, sd, lens)
Needed(lens, sd) == TailSize(lens, sd) + 2 + Sum(lens) + FrontBytes(lens)
Base(toc) == toc - (toc % 4)

LEMMA BaseOK ==
    ASSUME NEW toc \in Bytes
    PROVE  /\ Base(toc) \in Bytes
           /\ \A k \in 0..3 : /\ Base(toc) + k \in Bytes /\ (Base(toc) + k) % 4 = k
                              /\ (Base(toc) + k) \div 4 = toc \div 4
  <1>1. PICK n \in 0..63, m \in 0..3 : toc = 4 * n + m
    <2>1. toc \div 4 \in 0..63 /\ toc % 4 \in 0..3 /\ toc = 4 * (toc \div 4) + (toc % 4)
      BY DEF Bytes
    <2> QED BY <2>1
  <1>2. Base(toc) = 4 * n BY <1>1 DEF Base
  <1>3. ASSUME NEW k \in 0..3
        PROVE  /\ 4 * n + k \in Bytes /\ (4 * n + k) % 4 = k
               /\ (4 * n + k) \div 4 = toc \div 4
    <2>1. (4 * n + k) \div 4 = n /\ (4 * n + m) \div 4 = n OBVIOUS
    <2>2. 4 * n + k \in 0..255 /\ (4 * n + k) % 4 = k OBVIOUS
    <2> QED BY <1>1, <2>1, <2>2 DEF Bytes
  <1>4. 4 * n \in Bytes BY DEF Bytes
  <1> QED BY <1>2, <1>3, <1>4

(* A header that counts its frames and its frames fit into MaxRoom.         *)
LEMMA NeededOK ==
    ASSUME NEW lens \in Seq(Lens), Len(lens) \in 1..48, NEW sd \in BOOLEAN
    PROVE  /\ Needed(lens, sd) \in Nat /\ Needed(lens, sd) >= 2
           /\ Needed(lens, sd) <= 65536
           /\ Needed(lens, sd) = Len(Trailer(lens, sd)) + 2 + Sum(lens) + FrontBytes(lens)
  <1>1. Len(lens) > 0 BY Positive
  <1>2. PICK t \in 0..2 : t = TailSize(lens, sd) /\ t = Len(Trailer(lens, sd)) BY <1>1, TailOK
  <1>3. PICK s \in Nat, n \in 1..48 : s = Sum(lens) /\ n = Len(lens) BY LensSum, Zenon
  <1>4. PICK f \in Nat : f = FrontBytes(lens) /\ f <= 94 BY FrontsOK
  <1>5. s <= 1275 * n BY <1>3, SumBound
  <1>6. Needed(lens, sd) = t + 2 + s + f BY <1>2, <1>3, <1>4 DEF Needed
  <1>7. t + 2 + s + f \in Nat /\ t + 2 + s + f >= 2 /\ t + 2 + s + f <= 65536
    BY <1>4, <1>5
  <1> QED BY <1>2, <1>3, <1>4, <1>6, <1>7

-----------------------------------------------------------------------------
(* The shortest headers are parsed back.                                    *)
Same(p, o) == p.head = o.head /\ p.len = o.len
WithTail(o, lens, sd) == [head |-> o.head \o Trailer(lens, sd), len |-> o.len]

LEMMA SlimZero ==
    ASSUME NEW p, NEW sd, NEW lens,
           Len(p.head) <= 2 + FrontBytes(lens) + Len(Trailer(lens, sd)) + 0
    PROVE  Slim(p, sd, lens)
  <1>1. 0 \in Nat /\ ~(0 > 0) OBVIOUS
  <1> QED BY <1>1 DEF Slim

LEMMA ShortestOne ==
    ASSUME NEW toc \in Bytes, NEW lens \in Seq(Lens), Len(lens) = 1, NEW sd \in BOOLEAN,
           NEW p, Same(p, WithTail(Shortest(Base(toc), lens, sd), lens, sd))
    PROVE  Written(p, sd, lens) /\ p.len = Needed(lens, sd) - 1
  <1> DEFINE b == Base(toc)
             u == Trailer(lens, sd)
             s == <<b>>
  <1>1. b \in Bytes /\ b % 4 = 0
    <2>0. \A x \in Bytes : x \in Nat BY DEF Bytes
    <2>1. Base(toc) \in Bytes /\ Base(toc) \in Nat BY <2>0, BaseOK
    <2>2. 0 \in 0..3 /\ Base(toc) + 0 = Base(toc) BY <2>1
    <2>3. (Base(toc) + 0) % 4 = 0 BY <2>2, BaseOK
    <2> QED BY <2>1, <2>2, <2>3
  <1> HIDE DEF b
  <1>0. Len(lens) \in 1..48 /\ Len(lens) > 0 OBVIOUS
  <1>2. u \in Seq(Bytes) /\ Len(u) \in 0..2 /\ Len(u) = TailSize(lens, sd) BY <1>0, TailOK
  <1>3. s \in Seq(Bytes) /\ Len(s) = 1 /\ s[1] = b BY <1>1
  <1>4. Shortest(b, lens, sd) = [head |-> s, len |-> TailSize(lens, sd) + lens[1] + 1]
    BY DEF Shortest
  <1> HIDE DEF u, s
  <1>5. p.head = s \o u /\ p.len = TailSize(lens, sd) + lens[1] + 1
    BY <1>4 DEF WithTail, Same, u, b
  <1>6. Holds(p, 1, u) /\ Len(p.head) = 1 + Len(u)
    <2>1. Holds(p, Len(s), u) /\ Len(p.head) = Len(s) + Len(u)
      BY <1>2, <1>3, <1>5, HoldsRight
    <2> QED BY <1>3, <2>1
  <1>7. p.head \in Seq(Bytes) /\ p.head[1] = b
    <2>1. s \o u \in Seq(Bytes) /\ \A i \in 1..Len(s) : (s \o u)[i] = s[i]
      BY <1>2, <1>3, Concat
    <2>2. 1 \in 1..Len(s) BY <1>3
    <2>3. (s \o u)[1] = s[1] BY <2>1, <2>2
    <2> QED BY <1>3, <1>5, <2>1, <2>3
  <1>8. Sum(lens) = lens[1] /\ lens[1] \in Nat BY OneFrame, LensNat
  <1>9. p.len = Len(p.head) + Sum(lens) /\ p.len \in Nat \ {0} /\ p.head # <<>>
    <2>1. PICK t \in 0..2, x \in Nat : t = Len(u) /\ x = lens[1] BY <1>2, <1>8
    <2>2. t + x + 1 = (1 + t) + x /\ t + x + 1 \in Nat \ {0} OBVIOUS
    <2>3. p.len = t + x + 1 /\ Len(p.head) = 1 + t BY <1>2, <1>5, <1>6, <2>1
    <2>4. p.head # <<>>
      <3>1. Len(p.head) # 0 BY <2>3
      <3> QED BY <3>1
    <2> QED BY <1>8, <2>1, <2>2, <2>3, <2>4
  <1>10. PacketOK(p) BY <1>7, <1>9 DEF PacketOK
  <1>11. Lead(p, sd) # Bad /\ Ready(p, sd, lens, Lead(p, sd))
    BY <1>1, <1>6, <1>7, <1>9, <1>10, LeadOne DEF u
  <1>12. Back(p, sd, lens, Parse(p, sd)) BY <1>10, <1>11, ParseBack
  <1>13. ~Vary(lens) BY DEF Vary
  <1>14. FrontBytes(lens) = 0 BY <1>13 DEF FrontBytes
  <1>15. Slim(p, sd, lens)
    <2>1. Len(p.head) <= 2 + FrontBytes(lens) + Len(u) + 0 BY <1>2, <1>6, <1>14
    <2> QED BY <2>1, SlimZero DEF u
  <1>16. p.len = Needed(lens, sd) - 1
    <2>1. PICK t \in 0..2, x \in Nat : t = TailSize(lens, sd) /\ x = lens[1] BY <1>2, <1>8
    <2>2. t + x + 1 = (t + 2 + x + 0) - 1 OBVIOUS
    <2> QED BY <1>5, <1>8, <1>14, <2>1, <2>2 DEF Needed
  <1> QED BY <1>10, <1>12, <1>15, <1>16 DEF Written

LEMMA ShortestEqual ==
    ASSUME NEW toc \in Bytes, NEW lens \in Seq(Lens), Len(lens) = 2, lens[1] = lens[2],
           NEW sd \in BOOLEAN,
           NEW p, Same(p, WithTail(Shortest(Base(toc), lens, sd), lens, sd))
    PROVE  Written(p, sd, lens) /\ p.len = Needed(lens, sd) - 1
  <1> DEFINE b == Base(toc) + 1
             u == Trailer(lens, sd)
             s == <<b>>
  <1>1. b \in Bytes /\ b % 4 = 1
    <2>1. 1 \in 0..3 OBVIOUS
    <2> QED BY <2>1, BaseOK
  <1>0. Len(lens) \in 1..48 /\ Len(lens) > 0 OBVIOUS
  <1>2. u \in Seq(Bytes) /\ Len(u) \in 0..2 /\ Len(u) = TailSize(lens, sd) BY <1>0, TailOK
  <1>3. s \in Seq(Bytes) /\ Len(s) = 1 /\ s[1] = b
    <2> HIDE DEF b
    <2> QED BY <1>1
  <1>4. Shortest(Base(toc), lens, sd) =
          [head |-> s, len |-> TailSize(lens, sd) + 2 * lens[1] + 1]
    BY DEF Shortest
  <1> HIDE DEF u, s, b
  <1>5. p.head = s \o u /\ p.len = TailSize(lens, sd) + 2 * lens[1] + 1
    BY <1>4 DEF WithTail, Same, u
  <1>6. Holds(p, 1, u) /\ Len(p.head) = 1 + Len(u)
    <2>1. Holds(p, Len(s), u) /\ Len(p.head) = Len(s) + Len(u)
      BY <1>2, <1>3, <1>5, HoldsRight
    <2> QED BY <1>3, <2>1
  <1>7. p.head \in Seq(Bytes) /\ p.head[1] = b
    <2>1. s \o u \in Seq(Bytes) /\ \A i \in 1..Len(s) : (s \o u)[i] = s[i]
      BY <1>2, <1>3, Concat
    <2>2. 1 \in 1..Len(s) BY <1>3
    <2>3. (s \o u)[1] = s[1] BY <2>1, <2>2
    <2> QED BY <1>3, <1>5, <2>1, <2>3
  <1>8. Sum(lens) = lens[1] + lens[2] /\ lens[1] \in Nat /\ lens[2] \in Nat
    BY TwoFrames, LensNat
  <1>a. Sum(lens) = 2 * lens[1] BY <1>8
  <1>9. p.len = Len(p.head) + Sum(lens) /\ p.len \in Nat \ {0} /\ p.head # <<>>
    <2>1. PICK t \in 0..2, x \in Nat : t = Len(u) /\ x = lens[1] BY <1>2, <1>8
    <2>2. t + 2 * x + 1 = (1 + t) + 2 * x /\ t + 2 * x + 1 \in Nat \ {0} OBVIOUS
    <2>3. p.len = t + 2 * x + 1 /\ Len(p.head) = 1 + t BY <1>2, <1>5, <1>6, <2>1
    <2>4. p.head # <<>>
      <3>1. Len(p.head) # 0 BY <2>3
      <3> QED BY <3>1
    <2> QED BY <1>a, <2>1, <2>2, <2>3, <2>4
  <1>10. PacketOK(p) BY <1>7, <1>9 DEF PacketOK
  <1>11. Lead(p, sd) # Bad /\ Ready(p, sd, lens, Lead(p, sd))
    BY <1>1, <1>6, <1>7, <1>9, <1>10, LeadTwoEqual DEF u
  <1>12. Back(p, sd, lens, Parse(p, sd)) BY <1>10, <1>11, ParseBack
  <1>13. ~Vary(lens)
    <2>1. \A i \in 2..Len(lens) : i = 2 OBVIOUS
    <2> QED BY <2>1 DEF Vary
  <1>14. FrontBytes(lens) = 0 BY <1>13 DEF FrontBytes
  <1>15. Slim(p, sd, lens)
    <2>1. Len(p.head) <= 2 + FrontBytes(lens) + Len(u) + 0 BY <1>2, <1>6, <1>14
    <2> QED BY <2>1, SlimZero DEF u
  <1>16. p.len = Needed(lens, sd) - 1
    <2>1. PICK t \in 0..2, x \in Nat : t = TailSize(lens, sd) /\ x = lens[1] BY <1>2, <1>8
    <2>2. t + 2 * x + 1 = (t + 2 + 2 * x + 0) - 1 OBVIOUS
    <2> QED BY <1>5, <1>a, <1>14, <2>1, <2>2 DEF Needed
  <1> QED BY <1>10, <1>12, <1>15, <1>16 DEF Written

LEMMA ShortestUneven ==
    ASSUME NEW toc \in Bytes, NEW lens \in Seq(Lens), Len(lens) = 2, lens[1] # lens[2],
           NEW sd \in BOOLEAN,
           NEW p, Same(p, WithTail(Shortest(Base(toc), lens, sd), lens, sd))
    PROVE  Written(p, sd, lens) /\ p.len = Needed(lens, sd) - 1
  <1> DEFINE b == Base(toc) + 2
             u == Trailer(lens, sd)
             a == <<b>>
             v == EncodeSize(lens[1])
             s == a \o v
  <1>1. b \in Bytes /\ b % 4 = 2
    <2>1. 2 \in 0..3 OBVIOUS
    <2> QED BY <2>1, BaseOK
  <1>0. Len(lens) \in 1..48 /\ Len(lens) > 0 OBVIOUS
  <1>2. u \in Seq(Bytes) /\ Len(u) \in 0..2 /\ Len(u) = TailSize(lens, sd) BY <1>0, TailOK
  <1>8. Sum(lens) = lens[1] + lens[2] /\ lens[1] \in Lens /\ lens[2] \in Lens
        /\ lens[1] \in Nat /\ lens[2] \in Nat
    BY TwoFrames, LensNat
  <1>v. v \in Seq(Bytes) /\ IsLong(lens[1]) \in 0..1 /\ Len(v) = 1 + IsLong(lens[1])
    BY <1>8, EncodeOK
  <1>3. a \in Seq(Bytes) /\ Len(a) = 1 /\ a[1] = b
    <2> HIDE DEF b
    <2> QED BY <1>1
  <1>4. Shortest(Base(toc), lens, sd) =
          [head |-> s, len |-> TailSize(lens, sd) + lens[1] + lens[2] + 2 + IsLong(lens[1])]
    BY DEF Shortest
  <1> HIDE DEF u, a, b, v
  <1>s. /\ s \in Seq(Bytes) /\ Len(s) = 1 + Len(v) /\ s[1] = b
        /\ \A i \in 1..Len(v) : s[1 + i] = v[i]
    <2>1. /\ a \o v \in Seq(Bytes) /\ Len(a \o v) = Len(a) + Len(v)
          /\ \A i \in 1..Len(a) : (a \o v)[i] = a[i]
          /\ \A i \in 1..Len(v) : (a \o v)[Len(a) + i] = v[i]
      BY <1>3, <1>v, Concat
    <2> QED BY <1>3, <2>1
  <1> HIDE DEF s
  <1>5. p.head = s \o u
        /\ p.len = TailSize(lens, sd) + lens[1] + lens[2] + 2 + IsLong(lens[1])
    BY <1>4 DEF WithTail, Same, u
  <1>6. /\ Holds(p, 1 + Len(v), u) /\ Len(p.head) = 1 + Len(v) + Len(u)
        /\ Holds(p, 1, v)
    <2>1. Holds(p, Len(s), u) /\ Len(p.head) = Len(s) + Len(u)
      BY <1>2, <1>s, <1>5, HoldsRight
    <2>2. 1 \in Nat /\ 1 + Len(v) <= Len(s) BY <1>s, <1>v
    <2>3. Holds(p, 1, v) BY <1>2, <1>s, <1>v, <1>5, <2>2, HoldsLeft
    <2> QED BY <1>s, <2>1, <2>3
  <1>7. p.head \in Seq(Bytes) /\ p.head[1] = b
    <2>1. s \o u \in Seq(Bytes) /\ \A i \in 1..Len(s) : (s \o u)[i] = s[i]
      BY <1>2, <1>s, Concat
    <2>2. 1 \in 1..Len(s) BY <1>s, <1>v
    <2> QED BY <1>s, <1>5, <2>1, <2>2
  <1>n. PICK t \in 0..2, x \in Nat, y \in Nat, l \in 0..1 :
           /\ t = Len(u) /\ t = TailSize(lens, sd) /\ x = lens[1] /\ y = lens[2]
           /\ l = IsLong(lens[1])
    BY <1>2, <1>8, <1>v
  <1>9. p.len = Len(p.head) + Sum(lens) /\ p.len \in Nat \ {0} /\ p.head # <<>>
    <2>2. t + x + y + 2 + l = (1 + (1 + l) + t) + (x + y)
          /\ t + x + y + 2 + l \in Nat \ {0}
      OBVIOUS
    <2>3. p.len = t + x + y + 2 + l /\ Len(p.head) = 1 + (1 + l) + t
      BY <1>5, <1>6, <1>n, <1>v
    <2>4. p.head # <<>>
      <3>1. Len(p.head) # 0 BY <2>3
      <3> QED BY <3>1
    <2> QED BY <1>8, <1>n, <2>2, <2>3, <2>4
  <1>10. PacketOK(p) BY <1>7, <1>9 DEF PacketOK
  <1>11. Lead(p, sd) # Bad /\ Ready(p, sd, lens, Lead(p, sd))
    BY <1>1, <1>6, <1>7, <1>9, <1>10, LeadTwoUneven DEF u, v
  <1>12. Back(p, sd, lens, Parse(p, sd)) BY <1>10, <1>11, ParseBack
  <1>13. Vary(lens)
    <2>1. 2 \in 2..Len(lens) OBVIOUS
    <2> QED BY <2>1 DEF Vary
  <1>14. FrontBytes(lens) = 1 + l
    <2>1. FrontBytes(lens) = 1 + Sum(Longs(lens, 1))
      <3>1. Len(lens) - 1 = 1 OBVIOUS
      <3> QED BY <1>13, <3>1 DEF FrontBytes
    <2>2. Longs(lens, 1) = Append(<<>>, l) BY <1>n DEF Longs
    <2>3. <<>> \in Seq(Nat) /\ l \in Nat OBVIOUS
    <2>4. Sum(Append(<<>>, l)) = Sum(<<>>) + l BY <2>3, SumAppend
    <2> QED BY <2>1, <2>2, <2>4, SumEmpty
  <1>15. Slim(p, sd, lens)
    <2>1. Len(p.head) <= 2 + FrontBytes(lens) + Len(u) + 0
      <3>1. 1 + (1 + l) + t <= 2 + (1 + l) + t + 0 OBVIOUS
      <3> QED BY <1>6, <1>14, <1>n, <1>v, <3>1
    <2> QED BY <2>1, SlimZero DEF u
  <1>16. p.len = Needed(lens, sd) - 1
    <2>2. t + x + y + 2 + l = (t + 2 + (x + y) + (1 + l)) - 1 OBVIOUS
    <2> QED BY <1>5, <1>8, <1>14, <1>n, <2>2 DEF Needed
  <1> QED BY <1>10, <1>12, <1>15, <1>16 DEF Written

-----------------------------------------------------------------------------
(* The counting headers are parsed back.                                    *)
Extra(lens, maxlen, sd, pad) == IF pad THEN maxlen - Needed(lens, sd) ELSE 0
CountHead(b, lens, e) ==
    (<<b + 3, CountByte(lens, e)>> \o PaddingBytes(e)) \o Fronts(lens)

LEMMA CountingIs ==
    ASSUME NEW b \in Bytes, NEW lens \in Seq(Lens), Len(lens) \in 1..48, NEW maxlen \in Nat,
           NEW sd \in BOOLEAN, NEW pad \in BOOLEAN
    PROVE  LET o == Counting(b, lens, maxlen, sd, pad)
               e == Extra(lens, maxlen, sd, pad)
           IN  /\ o.needed = Needed(lens, sd) /\ o.len = Needed(lens, sd) + e
               /\ o.head = CountHead(b, lens, e)
  <1> DEFINE n == Len(lens)
             vbr == \E i \in 2..n : lens[i] # lens[1]
             front == SubSeq(lens, 1, n - 1)
             needed == TailSize(lens, sd) + 2 + Sum(lens)
                         + (IF vbr THEN n - 1 + Sum([i \in 1..n - 1 |-> IsLong(lens[i])])
                            ELSE 0)
             extra == IF pad THEN maxlen - needed ELSE 0
             fronts == IF vbr THEN FlattenSeq([i \in 1..n - 1 |-> EncodeSize(front[i])])
                       ELSE <<>>
             count == n + (IF vbr THEN 128 ELSE 0) + (IF extra # 0 THEN 64 ELSE 0)
             o == Counting(b, lens, maxlen, sd, pad)
  <1>1. o = [len |-> needed + extra, needed |-> needed,
             head |-> <<b + 3, count>> \o PaddingBytes(extra) \o fronts]
    BY Zenon DEF Counting
  <1>2. needed = Needed(lens, sd) BY Zenon DEF Needed, FrontBytes, Vary, Longs
  <1>3. extra = Extra(lens, maxlen, sd, pad) BY <1>2, Zenon DEF Extra
  <1>4. count = CountByte(lens, extra) BY Zenon DEF CountByte, Vary
  <1>5. fronts = Fronts(lens)
    <2>1. [i \in 1..n - 1 |-> EncodeSize(front[i])] = Codes(lens, n - 1)
      <3>1. ASSUME NEW i \in 1..n - 1 PROVE front[i] = lens[i]
        <4>1. n - 1 \in Nat /\ n - 1 <= Len(lens)
          <5>1. PICK k \in 1..48 : k = n OBVIOUS
          <5>2. k - 1 \in Nat /\ k - 1 <= k OBVIOUS
          <5> QED BY <5>1, <5>2
        <4> QED BY <4>1
      <3> HIDE DEF front
      <3> QED BY <3>1 DEF Codes
    <2> QED BY <2>1, Zenon DEF Fronts, Vary
  <1> HIDE DEF needed, extra, fronts, count, o
  <1>6. /\ o.needed = needed /\ o.len = needed + extra
        /\ o.head = <<b + 3, count>> \o PaddingBytes(extra) \o fronts
    BY <1>1
  <1>7. o.head = CountHead(b, lens, extra) BY <1>4, <1>5, <1>6 DEF CountHead
  <1> QED BY <1>2, <1>3, <1>6, <1>7 DEF o

Headed(p, b, lens, e, sd) ==
    /\ p.head \in Seq(Bytes) /\ p.head[1] = b + 3 /\ p.head[2] = CountByte(lens, e)
    /\ Holds(p, 2, PaddingBytes(e))
    /\ Holds(p, 2 + Padding(e), Fronts(lens))
    /\ Holds(p, 2 + Padding(e) + FrontBytes(lens), Trailer(lens, sd))
    /\ Len(p.head) = 2 + Padding(e) + FrontBytes(lens) + Len(Trailer(lens, sd))

LEMMA CountHeadOK ==
    ASSUME NEW b \in Bytes, b + 3 \in Bytes, NEW lens \in Seq(Lens), Len(lens) \in 1..48,
           NEW e \in Nat, NEW sd \in BOOLEAN,
           NEW p, p.head = CountHead(b, lens, e) \o Trailer(lens, sd)
    PROVE  Headed(p, b, lens, e, sd)
  <1> DEFINE a == <<b + 3, CountByte(lens, e)>>
  <1>1. CountByte(lens, e) \in Bytes BY CountByteIs
  <1>2. a \in Seq(Bytes) /\ Len(a) = 2 /\ a[1] = b + 3 /\ a[2] = CountByte(lens, e)
    BY <1>1
  <1>3. PaddingBytes(e) \in Seq(Bytes) /\ Len(PaddingBytes(e)) = Padding(e) BY PaddingOK
  <1>4. Fronts(lens) \in Seq(Bytes) /\ Len(Fronts(lens)) = FrontBytes(lens) BY FrontsOK
  <1>5. Trailer(lens, sd) \in Seq(Bytes)
    <2>1. Len(lens) > 0 BY Positive, Zenon
    <2> QED BY <2>1, TailOK
  <1>6. p.head = ((a \o PaddingBytes(e)) \o Fronts(lens)) \o Trailer(lens, sd)
    BY DEF CountHead
  <1> HIDE DEF a
  <1>7. Parted(p, a, PaddingBytes(e), Fronts(lens), Trailer(lens, sd))
    BY <1>2, <1>3, <1>4, <1>5, <1>6, FourParts
  <1>8. 1 \in 1..Len(a) /\ 2 \in 1..Len(a) BY <1>2
  <1> QED BY <1>2, <1>3, <1>4, <1>7, <1>8 DEF Parted, Headed

Within(k, m) == k * m <= 960
Samples(toc) == SamplesPerFrame(toc, 8000)
Fit(toc, lens) == Within(Samples(toc), Len(lens))

LEMMA SixTimesFit ==
    ASSUME NEW k \in 20..480, NEW m \in 1..48, k * m <= 960
    PROVE  (6 * k) * m <= 5760
  <1>1. (6 * k) * m = 6 * (k * m) OBVIOUS
  <1>2. k * m \in Nat OBVIOUS
  <1> QED BY <1>1, <1>2

SixFold(k, m) == (6 * k) * m <= 5760
LEMMA SixFoldFit ==
    ASSUME NEW k \in 20..480, NEW m \in 1..48, Within(k, m)
    PROVE  SixFold(k, m)
  BY SixTimesFit DEF SixFold, Within

LEMMA FitCounted ==
    ASSUME NEW toc \in Bytes, NEW x \in Bytes, x \div 4 = toc \div 4,
           NEW lens, Len(lens) \in 1..48, Fit(toc, lens)
    PROVE  SamplesPerFrame(x, 48000) * Len(lens) <= 5760
  <1>1. SamplesPerFrame(x, 48000) = SamplesPerFrame(toc, 48000) BY SameSamples
  <1>2. SamplesPerFrame(toc, 48000) = 6 * Samples(toc) BY SixTimes DEF Samples
  <1>3. Samples(toc) \in 20..480 BY SamplesNat DEF Samples
  <1>4. Within(Samples(toc), Len(lens)) BY DEF Fit
  <1>5. SixFold(Samples(toc), Len(lens)) BY <1>3, <1>4, SixFoldFit
  <1> QED BY <1>1, <1>2, <1>5 DEF SixFold

LEMMA CountingOK ==
    ASSUME NEW toc \in Bytes, NEW lens \in Seq(Lens), Len(lens) \in 1..48,
           Fit(toc, lens),
           NEW sd \in BOOLEAN, NEW pad \in BOOLEAN, NEW maxlen \in Nat,
           Needed(lens, sd) <= maxlen,
           NEW p, Same(p, WithTail(Counting(Base(toc), lens, maxlen, sd, pad), lens, sd))
    PROVE  /\ Written(p, sd, lens)
           /\ p.len = IF pad THEN maxlen ELSE Needed(lens, sd)
  <1> DEFINE b == Base(toc)
             e == Extra(lens, maxlen, sd, pad)
             o == Counting(b, lens, maxlen, sd, pad)
  <1>1. b \in Bytes /\ b + 3 \in Bytes /\ (b + 3) % 4 = 3 /\ (b + 3) \div 4 = toc \div 4
    <2>1. 3 \in 0..3 OBVIOUS
    <2> QED BY <2>1, BaseOK
  <1> HIDE DEF b
  <1>2. /\ Needed(lens, sd) \in Nat /\ Needed(lens, sd) >= 2
        /\ Needed(lens, sd) = Len(Trailer(lens, sd)) + 2 + Sum(lens) + FrontBytes(lens)
    BY NeededOK
  <1>3. e \in Nat /\ Needed(lens, sd) + e = IF pad THEN maxlen ELSE Needed(lens, sd)
    BY <1>2 DEF Extra
  <1> HIDE DEF e
  <1>4. o.len = Needed(lens, sd) + e /\ o.head = CountHead(b, lens, e)
    BY <1>1, CountingIs DEF e
  <1>5. p.head = CountHead(b, lens, e) \o Trailer(lens, sd) /\ p.len = Needed(lens, sd) + e
    BY <1>4 DEF WithTail, Same, b
  <1>6. /\ p.head \in Seq(Bytes) /\ p.head[1] = b + 3 /\ p.head[2] = CountByte(lens, e)
        /\ Holds(p, 2, PaddingBytes(e))
        /\ Holds(p, 2 + Padding(e), Fronts(lens))
        /\ Holds(p, 2 + Padding(e) + FrontBytes(lens), Trailer(lens, sd))
        /\ Len(p.head) = 2 + Padding(e) + FrontBytes(lens) + Len(Trailer(lens, sd))
    <2>1. Headed(p, b, lens, e, sd) BY <1>1, <1>3, <1>5, CountHeadOK
    <2> QED BY <2>1 DEF Headed
  <1>7. PICK t \in 0..2, s \in Nat, f \in Nat, q \in Nat :
           /\ t = Len(Trailer(lens, sd)) /\ s = Sum(lens) /\ f = FrontBytes(lens)
           /\ q = Padding(e) /\ q <= e
    <2>1. Len(lens) > 0 BY Positive, Zenon
    <2>2. Len(Trailer(lens, sd)) \in 0..2 BY <2>1, TailOK
    <2>3. FrontBytes(lens) \in Nat BY FrontsOK
    <2>4. Padding(e) \in Nat /\ Padding(e) <= e BY <1>3, PaddingOK
    <2>5. Sum(lens) \in Nat BY LensSum
    <2> QED BY <2>2, <2>3, <2>4, <2>5, Zenon
  <1>8. Len(p.head) = 2 + q + f + t /\ p.len = (t + 2 + s + f) + e
    BY <1>2, <1>5, <1>6, <1>7
  <1>9. /\ p.len = Len(p.head) + Sum(lens) + (e - Padding(e))
        /\ p.len \in Nat \ {0} /\ Len(p.head) # 0
    <2>1. e \in Nat /\ q <= e BY <1>3, <1>7
    <2>2. /\ (t + 2 + s + f) + e = (2 + q + f + t) + s + (e - q)
          /\ (t + 2 + s + f) + e \in Nat \ {0} /\ 2 + q + f + t # 0
      BY <2>1
    <2> QED BY <1>7, <1>8, <2>2
  <1>10. PacketOK(p)
    <2>1. p.head # <<>> BY <1>9
    <2> QED BY <1>6, <1>9, <2>1 DEF PacketOK
  <1>11. SamplesPerFrame(p.head[1], 48000) * Len(lens) <= 5760
    <2>1. SamplesPerFrame(b + 3, 48000) * Len(lens) <= 5760 BY <1>1, FitCounted
    <2> QED BY <1>6, <2>1
  <1>12. Counted(p, sd, lens, e) BY <1>1, <1>6, <1>9, <1>11 DEF Counted
  <1>13. Lead(p, sd) # Bad /\ Ready(p, sd, lens, Lead(p, sd))
    BY <1>3, <1>10, <1>12, LeadMany
  <1>14. Back(p, sd, lens, Parse(p, sd)) BY <1>10, <1>13, ParseBack
  <1>15. Slim(p, sd, lens)
    <2>1. Len(p.head) <= 2 + FrontBytes(lens) + Len(Trailer(lens, sd)) + q
      <3>1. 2 + q + f + t <= 2 + f + t + q OBVIOUS
      <3> QED BY <1>7, <1>8, <3>1
    <2>2. ASSUME q > 0 PROVE p.len - Len(p.head) - Sum(lens) >= 254 * (q - 1)
      <3>1. e > 0 /\ e \in Nat BY <1>3, <1>7, <2>2
      <3>2. e - 255 * (Padding(e) - 1) - 1 \in 0..254 BY <3>1, PaddingOK
      <3>3. e - 255 * (q - 1) - 1 >= 0
        <4>1. PICK z \in 0..254 : z = e - 255 * (q - 1) - 1 BY <1>7, <3>2, Zenon
        <4> QED BY <3>1, <4>1
      <3>4. ((t + 2 + s + f) + e) - (2 + q + f + t) - s = e - q BY <3>1
      <3>5. e - q >= 254 * (q - 1) BY <3>1, <3>3
      <3> QED BY <1>7, <1>8, <3>4, <3>5
    <2> QED BY <2>1, <2>2 DEF Slim
  <1>16. p.len = IF pad THEN maxlen ELSE Needed(lens, sd) BY <1>3, <1>5
  <1> QED BY <1>10, <1>14, <1>15, <1>16 DEF Written

-----------------------------------------------------------------------------
(* opus_repacketizer_out_range_impl: either it is refused or parsed back.   *)
Exact(lens, sd) == IF Len(lens) <= 2 THEN Needed(lens, sd) - 1 ELSE Needed(lens, sd)

LEMMA ShortestOK ==
    ASSUME NEW toc \in Bytes, NEW lens \in Seq(Lens), Len(lens) \in 1..2, NEW sd \in BOOLEAN,
           NEW p, Same(p, WithTail(Shortest(Base(toc), lens, sd), lens, sd))
    PROVE  /\ Written(p, sd, lens) /\ p.len = Needed(lens, sd) - 1
           /\ Shortest(Base(toc), lens, sd).len = Needed(lens, sd) - 1
  <1>1. p.len = Shortest(Base(toc), lens, sd).len BY DEF WithTail, Same
  <1>2. Written(p, sd, lens) /\ p.len = Needed(lens, sd) - 1
    <2>1. CASE Len(lens) = 1 BY <2>1, ShortestOne
    <2>2. CASE Len(lens) = 2 /\ lens[1] = lens[2] BY <2>2, ShortestEqual
    <2>3. CASE Len(lens) = 2 /\ lens[1] # lens[2] BY <2>3, ShortestUneven
    <2>4. Len(lens) = 1 \/ Len(lens) = 2 OBVIOUS
    <2> QED BY <2>1, <2>2, <2>3, <2>4
  <1> QED BY <1>1, <1>2

WrittenBy(o, p, lens, maxlen, sd, pad) ==
    /\ Exact(lens, sd) > maxlen => o = TooSmall
    /\ Exact(lens, sd) <= maxlen =>
         Written(p, sd, lens) /\ p.len = IF pad THEN maxlen ELSE Exact(lens, sd)

Taken(b, lens, maxlen, sd, pad) ==
    LET short == Shortest(b, lens, sd)
        long == Counting(b, lens, maxlen, sd, pad)
    IN  IF Len(lens) <= 2 /\ short.len > maxlen THEN TooSmall
        ELSE IF Len(lens) <= 2 /\ ~(pad /\ short.len < maxlen)
        THEN WithTail(short, lens, sd)
        ELSE IF long.needed > maxlen THEN TooSmall
        ELSE WithTail(long, lens, sd)

LEMMA OutRangeIs ==
    ASSUME NEW r, NEW begin, NEW end, NEW maxlen, NEW sd, NEW pad
    PROVE  OutRange(r, begin, end, maxlen, sd, pad)
             = Taken(Base(r.toc), SubSeq(r.lens, begin + 1, end), maxlen, sd, pad)
  BY Zenon DEF OutRange, Taken, Base, WithTail, Trailer

(* What out_range writes, and how long it is.                               *)
LEMMA TakenOK ==
    ASSUME NEW toc \in Bytes, NEW lens \in Seq(Lens), Len(lens) \in 1..48, Fit(toc, lens),
           NEW maxlen \in Nat, NEW sd \in BOOLEAN, NEW pad \in BOOLEAN,
           NEW p, Same(p, Taken(Base(toc), lens, maxlen, sd, pad))
    PROVE  WrittenBy(Taken(Base(toc), lens, maxlen, sd, pad), p, lens, maxlen, sd, pad)
  <1> DEFINE b == Base(toc)
             short == Shortest(b, lens, sd)
             long == Counting(b, lens, maxlen, sd, pad)
             o == Taken(b, lens, maxlen, sd, pad)
             q == WithTail(short, lens, sd)
             s == WithTail(long, lens, sd)
  <1>1. o = IF Len(lens) <= 2 /\ short.len > maxlen THEN TooSmall
            ELSE IF Len(lens) <= 2 /\ ~(pad /\ short.len < maxlen) THEN q
            ELSE IF long.needed > maxlen THEN TooSmall ELSE s
    BY Zenon DEF Taken
  <1>2. b \in Bytes
    BY BaseOK
  <1>3. long.needed = Needed(lens, sd) BY <1>2, CountingIs
  <1>4. ASSUME Len(lens) <= 2
        PROVE  /\ Same(p, q) => Written(p, sd, lens) /\ p.len = Needed(lens, sd) - 1
               /\ short.len = Needed(lens, sd) - 1
    <2>1. PICK m \in 1..48 : m = Len(lens) OBVIOUS
    <2>2. m \in 1..2 BY <1>4, <2>1
    <2>3. PICK z : z = q OBVIOUS
    <2>4. Same(z, q) BY <2>3 DEF Same
    <2>5. short.len = Needed(lens, sd) - 1 BY <2>1, <2>2, <2>4, ShortestOK
    <2> QED BY <2>1, <2>2, <2>5, ShortestOK
  <1>5. ASSUME Needed(lens, sd) <= maxlen, Same(p, s)
        PROVE  Written(p, sd, lens) /\ p.len = IF pad THEN maxlen ELSE Needed(lens, sd)
    BY <1>5, CountingOK
  <1>6. Needed(lens, sd) \in Nat BY NeededOK
  <1>9. Same(p, o) OBVIOUS
  <1> HIDE DEF b, short, long, o, q, s
  <1>7. CASE Len(lens) <= 2
    <2>1. Exact(lens, sd) = Needed(lens, sd) - 1 BY <1>7 DEF Exact
    <2>2. PICK n \in Nat : n = Needed(lens, sd) BY <1>6
    <2>3. CASE n - 1 > maxlen
      <3>1. o = TooSmall BY <1>1, <1>4, <1>7, <2>2, <2>3
      <3>2. ~(Exact(lens, sd) <= maxlen) BY <2>1, <2>2, <2>3
      <3> QED BY <3>1, <3>2 DEF WrittenBy, o, b
    <2>4. CASE n - 1 = maxlen
      <3>1. o = q BY <1>1, <1>4, <1>7, <2>2, <2>4
      <3>2. ~(Exact(lens, sd) > maxlen) /\ Exact(lens, sd) = maxlen BY <2>1, <2>2, <2>4
      <3>3. Written(p, sd, lens) /\ p.len = maxlen BY <1>4, <1>9, <1>7, <2>2, <2>4, <3>1
      <3> QED BY <3>2, <3>3 DEF WrittenBy, o, b
    <2>5. CASE n - 1 < maxlen /\ ~pad
      <3>1. o = q BY <1>1, <1>4, <1>7, <2>2, <2>5
      <3>2. ~(Exact(lens, sd) > maxlen) BY <2>1, <2>2, <2>5
      <3>3. Written(p, sd, lens) /\ p.len = Exact(lens, sd)
        BY <1>4, <1>7, <1>9, <2>1, <3>1
      <3> QED BY <2>5, <3>2, <3>3 DEF WrittenBy, o, b
    <2>6. CASE n - 1 < maxlen /\ pad
      <3>1. ~(n > maxlen) /\ n <= maxlen BY <2>2, <2>6
      <3>2. o = s BY <1>1, <1>3, <1>4, <1>7, <2>2, <2>6, <3>1
      <3>3. ~(Exact(lens, sd) > maxlen) BY <2>1, <2>2, <2>6
      <3>4. Written(p, sd, lens) /\ p.len = maxlen BY <1>5, <1>9, <2>2, <2>6, <3>1, <3>2
      <3> QED BY <2>6, <3>3, <3>4 DEF WrittenBy, o, b
    <2>7. n - 1 > maxlen \/ n - 1 = maxlen \/ n - 1 < maxlen BY <2>2
    <2> QED BY <2>3, <2>4, <2>5, <2>6, <2>7
  <1>8. CASE ~(Len(lens) <= 2)
    <2>1. Exact(lens, sd) = Needed(lens, sd) BY <1>8 DEF Exact
    <2>2. o = IF Needed(lens, sd) > maxlen THEN TooSmall ELSE s BY <1>1, <1>3, <1>8
    <2>3. CASE Needed(lens, sd) > maxlen
      <3>1. ~(Needed(lens, sd) <= maxlen) BY <1>6, <2>3
      <3> QED BY <2>1, <2>2, <2>3, <3>1 DEF WrittenBy, o, b
    <2>4. CASE ~(Needed(lens, sd) > maxlen)
      <3>1. Needed(lens, sd) <= maxlen BY <1>6, <2>4
      <3> QED BY <1>5, <1>9, <2>1, <2>2, <2>4, <3>1 DEF WrittenBy, o, b
    <2> QED BY <2>3, <2>4
  <1> QED BY <1>7, <1>8

-----------------------------------------------------------------------------
(* The repacketizer keeps within 120 ms.                                    *)
LEMMA Times ==
    ASSUME NEW k \in Nat, NEW i \in Nat, NEW j \in Nat, i <= j
    PROVE  k * i <= k * j /\ k * i \in Nat /\ k * j \in Nat
  <1>1. j = i + (j - i) /\ j - i \in Nat OBVIOUS
  <1>2. PICK d \in Nat : j = i + d BY <1>1
  <1>3. k * (i + d) = k * i + k * d OBVIOUS
  <1>4. k * d \in Nat /\ k * i \in Nat OBVIOUS
  <1> QED BY <1>2, <1>3, <1>4

LEMMA FewFrames ==
    ASSUME NEW k \in 20..480, NEW m \in Nat, Within(k, m)
    PROVE  m <= 48
  <1>1. SUFFICES ASSUME m >= 49 PROVE FALSE OBVIOUS
  <1>2. k * 49 <= k * m
    <2>1. k \in Nat OBVIOUS
    <2> QED BY <1>1, <2>1, Times
  <1>3. k * 49 >= 980 OBVIOUS
  <1>4. k * m \in Nat OBVIOUS
  <1>5. PICK x \in Nat : x = k * m BY <1>4
  <1>6. x <= 960 BY <1>5 DEF Within
  <1>7. PICK y \in Nat : y = k * 49 /\ y >= 980 BY <1>3
  <1>8. y <= x BY <1>2, <1>5, <1>7
  <1> QED BY <1>6, <1>7, <1>8

LEMMA FewerFit ==
    ASSUME NEW k \in 20..480, NEW m \in Nat, Within(k, m), NEW j \in Nat, j <= m
    PROVE  Within(k, j)
  <1>1. k \in Nat OBVIOUS
  <1>2. k * j <= k * m /\ k * j \in Nat /\ k * m \in Nat BY <1>1, Times
  <1>3. PICK x \in Nat, y \in Nat : x = k * j /\ y = k * m BY <1>2
  <1>4. y <= 960 BY <1>3 DEF Within
  <1>5. x <= y BY <1>2, <1>3
  <1>6. x <= 960 BY <1>4, <1>5
  <1> QED BY <1>3, <1>6 DEF Within

Over(m, k) == m * k > 960
LEMMA FitIs ==
    ASSUME NEW k \in 20..480, NEW m \in Nat, ~Over(m, k)
    PROVE  Within(k, m)
  <1>1. m * k = k * m /\ m * k \in Nat OBVIOUS
  <1>2. PICK x \in Nat : x = m * k BY <1>1
  <1>3. x <= 960 BY <1>2 DEF Over
  <1> QED BY <1>1, <1>2, <1>3 DEF Within

LEMMA SamplesIn == ASSUME NEW toc \in Bytes PROVE Samples(toc) \in 20..480
  BY SamplesNat DEF Samples

Repacketizers == [toc : Bytes, framesize : 0..480, lens : Seq(Lens)]
RpOK(r) ==
    /\ r \in Repacketizers
    /\ r.lens # <<>> => r.framesize = Samples(r.toc) /\ Fit(r.toc, r.lens)

LEMMA RangeOK ==
    ASSUME NEW r, RpOK(r), NEW begin \in Nat, NEW end \in Nat,
           begin < end, end <= Len(r.lens)
    PROVE  LET lens == SubSeq(r.lens, begin + 1, end)
           IN  /\ lens \in Seq(Lens) /\ Len(lens) \in 1..48 /\ Fit(r.toc, lens)
               /\ Len(lens) = end - begin
  <1> DEFINE lens == SubSeq(r.lens, begin + 1, end)
  <1>1. r.toc \in Bytes /\ r.lens \in Seq(Lens) BY DEF RpOK, Repacketizers
  <1>2. Samples(r.toc) \in 20..480 BY <1>1, SamplesIn
  <1>3. PICK m \in Nat : m = Len(r.lens) BY <1>1
  <1>4. Within(Samples(r.toc), m)
    <2>1. r.lens # <<>> BY <1>3, begin < end, end <= Len(r.lens)
    <2> QED BY <1>3, <2>1 DEF RpOK, Fit
  <1>5. m <= 48 BY <1>2, <1>4, FewFrames
  <1>6. lens \in Seq(Lens) /\ Len(lens) = end - begin
    <2>1. \A i \in begin + 1..end : i \in 1..Len(r.lens) BY <1>3
    <2>2. end <= m BY <1>3
    <2> QED BY <1>1, <1>3, <2>1, <2>2
  <1>7. PICK j \in 1..48 : j = end - begin /\ j <= m
    <2>1. end <= m BY <1>3
    <2>2. end - begin \in 1..48 /\ end - begin <= m BY <1>5, <2>1
    <2> QED BY <2>2
  <1>8. Within(Samples(r.toc), j)
    <2>1. j \in Nat /\ j <= m BY <1>7
    <2> QED BY <1>2, <1>4, <2>1, FewerFit
  <1> QED BY <1>6, <1>7, <1>8 DEF Fit

LEMMA EmptyOK == RpOK(Empty)
  <1>1. 0 \in Bytes /\ 0 \in 0..480 BY DEF Bytes
  <1>2. <<>> \in Seq(Lens) OBVIOUS
  <1> QED BY <1>1, <1>2 DEF RpOK, Repacketizers, Empty

-----------------------------------------------------------------------------
(* opus_repacketizer_cat_impl.                                              *)
LEMMA NbFramesOK ==
    ASSUME NEW p, PacketOK(p) PROVE NbFrames(p) \in Int
  <1>1. p.head[1] \in Bytes /\ p.len \in Nat BY DEF PacketOK
  <1>2. CASE p.head[1] % 4 = 3 /\ p.len >= 2
    <2>1. Byte(p, 1) \in Bytes BY <1>1, <1>2, ByteType
    <2>2. Byte(p, 1) % 64 \in Int BY <2>1 DEF Bytes
    <2> QED BY <1>1, <1>2, <2>2 DEF NbFrames, Bytes
  <1>3. CASE ~(p.head[1] % 4 = 3 /\ p.len >= 2) BY <1>1, <1>3 DEF NbFrames, Bytes
  <1> QED BY <1>2, <1>3

Catted(r, p, sd) ==
    /\ RpOK(Cat(r, p, sd).rp)
    /\ Cat(r, p, sd).ok =>
         /\ Parse(p, sd) # Bad /\ Inside(p, sd, Parse(p, sd))
         /\ r.lens = <<>> => /\ Cat(r, p, sd).rp.toc = p.head[1]
                             /\ Cat(r, p, sd).rp.lens = Parse(p, sd).sizes

WithConfig(r, toc, framesize) == [r EXCEPT !.toc = toc, !.framesize = framesize]
WithFrames(r, lens) == [r EXCEPT !.lens = lens]
HasFields(r, toc, framesize, lens) ==
    r \in Repacketizers /\ r.toc = toc /\ r.framesize = framesize /\ r.lens = lens

LEMMA Kept ==
    ASSUME NEW r \in Repacketizers, NEW t \in Bytes, NEW f \in 0..480
    PROVE  HasFields(WithConfig(r, t, f), t, f, r.lens)
  BY DEF Repacketizers, HasFields, WithConfig

LEMMA Longer ==
    ASSUME NEW k \in Repacketizers, NEW s \in Seq(Lens)
    PROVE  HasFields(WithFrames(k, s), k.toc, k.framesize, s)
  BY DEF Repacketizers, HasFields, WithFrames

LEMMA Joins ==
    ASSUME NEW s \in Seq(Lens), NEW t \in Seq(Lens)
    PROVE  s \o t \in Seq(Lens) /\ Len(s \o t) = Len(s) + Len(t) /\ Len(s) \in Nat
  OBVIOUS

(* cat takes all frames of a packet or none.                                *)
LEMMA CatOK ==
    ASSUME NEW p, PacketOK(p), NEW r, RpOK(r), NEW sd \in BOOLEAN
    PROVE  Catted(r, p, sd)
  <1> DEFINE first == r.lens = <<>>
             toc == IF first THEN p.head[1] ELSE r.toc
             framesize == IF first THEN SamplesPerFrame(p.head[1], 8000) ELSE r.framesize
             kept == WithConfig(r, toc, framesize)
             c == Parse(p, sd)
             new == WithFrames(kept, kept.lens \o c.sizes)
             refused == \/ toc \div 4 # p.head[1] \div 4
                        \/ NbFrames(p) < 1
                        \/ Over(NbFrames(p) + Len(r.lens), framesize)
             q == Cat(r, p, sd)
  <1>1. q = IF p.len < 1 THEN [rp |-> r, ok |-> FALSE]
            ELSE IF refused THEN [rp |-> kept, ok |-> FALSE]
            ELSE IF c = Bad THEN [rp |-> kept, ok |-> FALSE]
            ELSE [rp |-> new, ok |-> TRUE]
    <2>1. q = IF p.len < 1 THEN [rp |-> r, ok |-> FALSE]
              ELSE IF refused THEN [rp |-> kept, ok |-> FALSE]
              ELSE Only({IF d = Bad THEN [rp |-> kept, ok |-> FALSE]
                         ELSE [rp |-> [kept EXCEPT !.lens = @ \o d.sizes], ok |-> TRUE] :
                           d \in {c}})
      BY DEF Cat, Over, WithConfig
    <2>2. {IF d = Bad THEN [rp |-> kept, ok |-> FALSE]
           ELSE [rp |-> [kept EXCEPT !.lens = @ \o d.sizes], ok |-> TRUE] : d \in {c}}
            = {IF c = Bad THEN [rp |-> kept, ok |-> FALSE] ELSE [rp |-> new, ok |-> TRUE]}
      BY DEF WithFrames
    <2> HIDE DEF c, new, kept, refused, q
    <2>4. \A x : Only({x}) = x BY OnlyIs
    <2> DEFINE result ==
                 IF c = Bad THEN [rp |-> kept, ok |-> FALSE] ELSE [rp |-> new, ok |-> TRUE]
    <2> HIDE DEF c, new, kept, refused, q, result
    <2>3. Only({result}) = result BY <2>4, Zenon
    <2> QED BY <2>1, <2>2, <2>3, Zenon DEF result
  <1>2. p.head[1] \in Bytes /\ p.len \in Nat /\ ~(p.len < 1) BY DEF PacketOK
  <1>3. r \in Repacketizers /\ r.toc \in Bytes /\ r.framesize \in 0..480 /\ r.lens \in Seq(Lens)
    BY DEF RpOK, Repacketizers
  <1>4. /\ toc \in Bytes /\ framesize = Samples(toc)
        /\ framesize \in 20..480
    <2>1. CASE first
      <3>1. Samples(p.head[1]) \in 20..480 BY <1>2, SamplesIn
      <3> QED BY <1>2, <2>1, <3>1 DEF Samples
    <2>2. CASE ~first
      <3>1. Samples(r.toc) \in 20..480 BY <1>3, SamplesIn
      <3> QED BY <1>3, <2>2, <3>1, SMTT(30) DEF RpOK
    <2> QED BY <2>1, <2>2, SMTT(30)
  <1>5. framesize \in 0..480 BY <1>4
  <1>6. NbFrames(p) \in Int BY NbFramesOK
  <1>7. c # Bad => Inside(p, sd, c) /\ c.count = NbFrames(p) BY ParseOK
  <1>8. /\ kept \in Repacketizers /\ kept.toc = toc /\ kept.framesize = framesize
        /\ kept.lens = r.lens
    <2>1. toc \in Bytes /\ framesize \in 0..480 BY <1>4, <1>5, SMTT(30)
    <2> HIDE DEF toc, framesize, kept
    <2>2. HasFields(kept, toc, framesize, r.lens) BY <1>3, <2>1, Kept, Zenon DEF kept
    <2> QED BY <2>2 DEF HasFields
  <1>9. ASSUME r.lens \o c.sizes \in Seq(Lens)
        PROVE  /\ new \in Repacketizers /\ new.toc = toc /\ new.framesize = framesize
               /\ new.lens = r.lens \o c.sizes
    <2>1. new = WithFrames(kept, r.lens \o c.sizes) BY <1>8
    <2> HIDE DEF kept, c, new
    <2>2. HasFields(new, kept.toc, kept.framesize, r.lens \o c.sizes)
      BY <1>8, <1>9, <2>1, Longer, ZenonT(40)
    <2> QED BY <1>8, <2>2 DEF HasFields
  <1>10. first => toc = p.head[1] OBVIOUS
  <1> HIDE DEF toc, framesize, kept, new, c, refused, q
  <1>11. RpOK(kept)
    <2>2. ASSUME r.lens # <<>> PROVE Fit(toc, r.lens)
      <3>1. toc = r.toc BY <2>2 DEF toc
      <3> QED BY <2>2, <3>1 DEF RpOK
    <2> QED BY <1>4, <1>8, <2>2 DEF RpOK
  <1>12. ASSUME ~refused, c # Bad
         PROVE  RpOK(new)
    <2>1. c.sizes \in Seq(Lens) /\ Len(c.sizes) = NbFrames(p) /\ NbFrames(p) \in 1..48
      BY <1>7, <1>12 DEF Inside
    <2>2. PICK n \in 1..48, m \in Nat : n = NbFrames(p) /\ m = Len(r.lens)
      <3>1. Len(r.lens) \in Nat BY <1>3
      <3> QED BY <2>1, <3>1
    <2>3. r.lens \o c.sizes \in Seq(Lens) /\ Len(r.lens \o c.sizes) = n + m
      <3>1. /\ r.lens \o c.sizes \in Seq(Lens)
            /\ Len(r.lens \o c.sizes) = Len(r.lens) + Len(c.sizes)
        BY <1>3, <2>1, Joins, Zenon
      <3>2. m + n = n + m OBVIOUS
      <3> QED BY <2>1, <2>2, <3>1, <3>2
    <2>4. ~Over(n + m, framesize) BY <1>12, <2>2 DEF refused
    <2>5. n + m \in Nat OBVIOUS
    <2>6. Within(framesize, n + m) BY <1>4, <2>4, <2>5, FitIs
    <2>7. Fit(toc, r.lens \o c.sizes) BY <1>4, <2>3, <2>6 DEF Fit
    <2> QED BY <1>4, <1>5, <1>9, <2>3, <2>7 DEF RpOK
  <1>13. RpOK(q.rp)
    BY <1>1, <1>2, <1>11, <1>12
  <1>14. q.ok => c # Bad /\ q.rp = new
    BY <1>1, <1>2
  <1>15. ASSUME q.ok, first
         PROVE  q.rp.toc = p.head[1] /\ q.rp.lens = c.sizes
    <2>1. c.sizes \in Seq(Lens) BY <1>7, <1>14, <1>15 DEF Inside
    <2>2. <<>> \o c.sizes = c.sizes /\ r.lens \o c.sizes \in Seq(Lens) BY <1>3, <2>1
    <2> QED BY <1>9, <1>10, <1>14, <1>15, <2>2
  <1> QED BY <1>7, <1>13, <1>14, <1>15 DEF Catted, q, c

-----------------------------------------------------------------------------
(* The invariant, and what the operations on packets make.                  *)
PacketInv ==
    /\ RpOK(rp)
    /\ packet = NoPacket \/ (PacketOK(packet) /\ packet.sd \in BOOLEAN)
    /\ made # <<>> =>
         PacketOK(packet) /\ Back(packet, packet.sd, made, Parse(packet, packet.sd))

LEMMA MadeIs ==
    ASSUME NEW p, NEW sd
    PROVE  Same(Made(p, sd), p) /\ Made(p, sd).sd = sd
  BY DEF Made, Same

LEMMA SameOK ==
    ASSUME NEW p, PacketOK(p), NEW q, Same(q, p) PROVE PacketOK(q)
  BY DEF PacketOK, Same

LEMMA ExactOK ==
    ASSUME NEW lens \in Seq(Lens), Len(lens) \in 1..48, NEW sd \in BOOLEAN
    PROVE  Exact(lens, sd) \in Nat /\ Exact(lens, sd) <= MaxRoom
  <1>1. /\ Needed(lens, sd) \in Nat /\ Needed(lens, sd) >= 2 /\ Needed(lens, sd) <= 65536
    BY NeededOK
  <1> QED BY <1>1 DEF Exact, MaxRoom

LEMMA LargeEnough ==
    ASSUME NEW lens \in Seq(Lens), Len(lens) \in 1..48, NEW sd \in BOOLEAN,
           NEW maxlen \in Nat, NEW pad, NEW o, NEW q,
           WrittenBy(o, q, lens, maxlen, sd, pad), o # TooSmall
    PROVE  Written(q, sd, lens)
  <1>1. Exact(lens, sd) \in Nat BY ExactOK
  <1>2. Exact(lens, sd) <= maxlen \/ Exact(lens, sd) > maxlen BY <1>1
  <1> QED BY <1>2 DEF WrittenBy

LEMMA Positive48 == ASSUME NEW n \in 1..48 PROVE n \in Nat /\ 0 < n
  OBVIOUS

LEMMA RewriteOK ==
    ASSUME NEW p, PacketOK(p), NEW len \in Nat, NEW pad \in BOOLEAN,
           Rewrite(Cat(Empty, p, FALSE), len, pad) # TooSmall,
           NEW q, Same(q, Rewrite(Cat(Empty, p, FALSE), len, pad))
    PROVE  /\ Parse(p, FALSE) # Bad /\ Inside(p, FALSE, Parse(p, FALSE))
           /\ Written(q, FALSE, Parse(p, FALSE).sizes)
  <1> DEFINE r == Cat(Empty, p, FALSE)
             c == Parse(p, FALSE)
             o == Rewrite(r, len, pad)
  <1>1. Catted(Empty, p, FALSE) BY EmptyOK, CatOK
  <1>2. Empty.lens = <<>> BY DEF Empty
  <1>3. r.ok BY DEF Rewrite
  <1>4. /\ RpOK(r.rp) /\ c # Bad /\ Inside(p, FALSE, c) /\ r.rp.lens = c.sizes
    BY <1>1, <1>2, <1>3 DEF Catted
  <1>5. o = OutRange(r.rp, 0, Len(r.rp.lens), len, FALSE, pad) BY <1>3 DEF Rewrite
  <1> HIDE DEF r, c, o
  <1>6. c.sizes \in Seq(Lens) /\ Len(c.sizes) \in 1..48 BY <1>4 DEF Inside
  <1>7. SubSeq(r.rp.lens, 0 + 1, Len(r.rp.lens)) = c.sizes BY <1>4, <1>6
  <1>8. o = Taken(Base(r.rp.toc), c.sizes, len, FALSE, pad) BY <1>5, <1>7, OutRangeIs
  <1>9. Fit(r.rp.toc, c.sizes) /\ r.rp.toc \in Bytes
    <2>1. 0 \in Nat /\ Len(c.sizes) \in Nat /\ 0 < Len(c.sizes)
      BY <1>6, Positive48
    <2>2. Fit(r.rp.toc, SubSeq(r.rp.lens, 0 + 1, Len(r.rp.lens)))
      BY <1>4, <2>1, RangeOK
    <2>3. r.rp.toc \in Bytes BY <1>4 DEF RpOK, Repacketizers
    <2> QED BY <1>7, <2>2, <2>3
  <1>10. Same(q, o) /\ o # TooSmall BY DEF o, r
  <1>11. WrittenBy(o, q, c.sizes, len, FALSE, pad)
    BY <1>6, <1>8, <1>9, <1>10, TakenOK
  <1>12. Written(q, FALSE, c.sizes)
    <2>1. FALSE \in BOOLEAN OBVIOUS
    <2> QED BY <1>6, <1>10, <1>11, <2>1, LargeEnough, Zenon
  <1> QED BY <1>4, <1>12 DEF c

LEMMA FrameWritten ==
    ASSUME NEW toc \in Bytes, toc % 4 = 0, NEW n \in Lens,
           NEW q, Same(q, [head |-> <<toc>>, len |-> n + 1])
    PROVE  Written(q, FALSE, <<n>>)
  <1> DEFINE lens == <<n>>
  <1>1. lens \in Seq(Lens) /\ Len(lens) = 1 /\ lens[1] = n OBVIOUS
  <1>2. toc \in Nat /\ n \in Nat BY DEF Bytes, Lens
  <1>3. Base(toc) = toc BY <1>2 DEF Base
  <1> HIDE DEF lens
  <1>4. Shortest(toc, lens, FALSE) = [head |-> <<toc>>, len |-> n + 1]
    <2>1. TailSize(lens, FALSE) + lens[1] + 1 = n + 1 BY <1>1, <1>2 DEF TailSize
    <2>2. Shortest(toc, lens, FALSE)
            = [head |-> <<toc>>, len |-> TailSize(lens, FALSE) + lens[1] + 1]
      BY <1>1 DEF Shortest
    <2> QED BY <2>1, <2>2
  <1>5. <<toc>> \o Trailer(lens, FALSE) = <<toc>> BY DEF Trailer
  <1>6. Same(q, WithTail(Shortest(Base(toc), lens, FALSE), lens, FALSE))
    BY <1>3, <1>4, <1>5 DEF Same, WithTail
  <1>7. Written(q, FALSE, lens) BY <1>1, <1>6, ShortestOne
  <1> QED BY <1>7 DEF lens

LEMMA OutOK ==
    ASSUME NEW r, RpOK(r), NEW begin \in Nat, NEW end \in Nat,
           begin < end, end <= Len(r.lens), NEW more \in Nat, NEW sd \in BOOLEAN,
           NEW q,
           Same(q, OutRange(r, begin, end,
                            OutRange(r, begin, end, MaxRoom, sd, FALSE).len + more,
                            sd, more > 0))
    PROVE  Written(q, sd, SubSeq(r.lens, begin + 1, end))
  <1> DEFINE lens == SubSeq(r.lens, begin + 1, end)
             z == OutRange(r, begin, end, MaxRoom, sd, FALSE)
             pad == more > 0
             o == OutRange(r, begin, end, z.len + more, sd, pad)
  <1>1. lens \in Seq(Lens) /\ Len(lens) \in 1..48 /\ Fit(r.toc, lens) BY RangeOK
  <1>2. r.toc \in Bytes BY DEF RpOK, Repacketizers
  <1>3. pad \in BOOLEAN /\ FALSE \in BOOLEAN OBVIOUS
  <1>4. z = Taken(Base(r.toc), lens, MaxRoom, sd, FALSE) BY OutRangeIs
  <1>5. o = Taken(Base(r.toc), lens, z.len + more, sd, pad) BY OutRangeIs
  <1>6. Same(q, o) OBVIOUS
  <1> HIDE DEF lens, z, pad, o
  <1>7. Exact(lens, sd) \in Nat /\ Exact(lens, sd) <= MaxRoom BY <1>1, ExactOK
  <1>8. z.len = Exact(lens, sd)
    <2>1. Same(z, z) /\ MaxRoom \in Nat BY DEF Same, MaxRoom
    <2>2. WrittenBy(z, z, lens, MaxRoom, sd, FALSE)
      BY <1>1, <1>2, <1>3, <1>4, <2>1, TakenOK
    <2> QED BY <1>7, <2>2 DEF WrittenBy
  <1>9. z.len + more \in Nat /\ Exact(lens, sd) <= z.len + more BY <1>7, <1>8
  <1>10. WrittenBy(o, q, lens, z.len + more, sd, pad)
    BY <1>1, <1>2, <1>3, <1>5, <1>6, <1>9, TakenOK
  <1>11. Written(q, sd, lens) BY <1>9, <1>10 DEF WrittenBy
  <1> QED BY <1>11 DEF lens

-----------------------------------------------------------------------------
(* Every step keeps the invariant.                                          *)
LEMMA WrittenPacket ==
    ASSUME NEW q, NEW sd \in BOOLEAN, NEW lens, Written(q, sd, lens), q.sd = sd
    PROVE  /\ PacketOK(q) /\ q.sd \in BOOLEAN /\ Back(q, q.sd, lens, Parse(q, q.sd))
  <1>1. PacketOK(q) /\ Back(q, sd, lens, Parse(q, sd)) BY DEF Written
  <1> QED BY <1>1, Zenon

LEMMA PacketInit == ASSUME OpusPacketAssumption, Init PROVE PacketInv
  <1>1. RpOK(rp) BY EmptyOK DEF Init
  <1>2. made = <<>> BY DEF Init
  <1>3. CASE packet = NoPacket BY <1>1, <1>2, <1>3 DEF PacketInv
  <1>4. CASE packet # NoPacket
    <2>1. PICK p \in Received, sd \in BOOLEAN : packet = Made(p, sd) BY <1>4 DEF Init
    <2>2. PacketOK(p) BY DEF OpusPacketAssumption, PacketOK, Bytes
    <2>3. PacketOK(packet) BY <2>1, <2>2, MadeIs, SameOK
    <2>4. packet.sd \in BOOLEAN BY <2>1, MadeIs
    <2> QED BY <1>1, <1>2, <2>3, <2>4 DEF PacketInv
  <1> QED BY <1>3, <1>4

LEMMA PacketNext ==
    ASSUME OpusPacketAssumption, PacketInv, [Next]_vars PROVE PacketInv'
  <1> USE DEF PacketInv
  <1>1. CASE NewFrame
    <2>1. PICK toc \in Tocs, n \in Lengths :
             packet' = Made([head |-> <<toc>>, len |-> n + 1], FALSE) /\ made' = <<n>>
      BY <1>1 DEF NewFrame
    <2> DEFINE o == [head |-> <<toc>>, len |-> n + 1]
    <2>2. toc \in Bytes /\ toc % 4 = 0 /\ n \in Lens
      BY DEF OpusPacketAssumption, Bytes, Lens
    <2>3. Same(packet', o) /\ packet'.sd = FALSE BY <2>1, MadeIs
    <2>4. Written(packet', FALSE, made') BY <2>1, <2>2, <2>3, FrameWritten
    <2>5. FALSE \in BOOLEAN OBVIOUS
    <2>6. /\ PacketOK(packet') /\ packet'.sd \in BOOLEAN
          /\ Back(packet', packet'.sd, made', Parse(packet', packet'.sd))
      BY <2>3, <2>4, <2>5, WrittenPacket, Zenon
    <2> QED BY <1>1, <2>6 DEF NewFrame
  <1>2. CASE Reset BY <1>2, EmptyOK DEF Reset
  <1>3. CASE AddPacket
    <2>1. PacketOK(packet) /\ packet.sd \in BOOLEAN BY <1>3 DEF AddPacket
    <2>2. Catted(rp, packet, packet.sd) BY <2>1, CatOK
    <2>3. RpOK(rp') BY <1>3, <2>2 DEF AddPacket, Catted
    <2> QED BY <1>3, <2>3 DEF AddPacket
  <1>4. CASE Out
    <2>1. PICK begin \in 0..Len(rp.lens), end \in 1..Len(rp.lens), more \in {0} \cup Room,
               sd \in BOOLEAN :
             /\ begin < end
             /\ packet' = Made(OutRange(rp, begin, end,
                                  OutRange(rp, begin, end, MaxRoom, sd, FALSE).len + more,
                                  sd, more > 0), sd)
             /\ made' = SubSeq(rp.lens, begin + 1, end)
      BY <1>4, Zenon DEF Out
    <2> DEFINE o == OutRange(rp, begin, end,
                             OutRange(rp, begin, end, MaxRoom, sd, FALSE).len + more,
                             sd, more > 0)
    <2>2. Len(rp.lens) \in Nat BY DEF RpOK, Repacketizers
    <2>3. begin \in Nat /\ end \in Nat /\ end <= Len(rp.lens) BY <2>2
    <2>4. more \in Nat BY DEF OpusPacketAssumption
    <2>5. Same(packet', o) /\ packet'.sd = sd BY <2>1, MadeIs, Zenon
    <2>6. Written(packet', sd, made') BY <2>1, <2>3, <2>4, <2>5, OutOK, Zenon
    <2>7. /\ PacketOK(packet') /\ packet'.sd \in BOOLEAN
          /\ Back(packet', packet'.sd, made', Parse(packet', packet'.sd))
      BY <2>5, <2>6, WrittenPacket, Zenon
    <2> QED BY <1>4, <2>7 DEF Out
  <1>5. ASSUME NEW len \in Nat, NEW pad \in BOOLEAN, packet.len >= 1, ~packet.sd,
               NEW p, p = Rewrite(Cat(Empty, packet, FALSE), len, pad), p # TooSmall,
               packet' = Made(p, FALSE), UNCHANGED <<rp, made>>
        PROVE  PacketInv'
    <2>1. packet # NoPacket BY <1>5 DEF NoPacket
    <2>2. PacketOK(packet) BY <2>1
    <2>3. Same(packet', p) /\ packet'.sd = FALSE BY <1>5, MadeIs
    <2>4. Written(packet', FALSE, Parse(packet, FALSE).sizes)
      BY <1>5, <2>2, <2>3, RewriteOK
    <2>5. FALSE \in BOOLEAN OBVIOUS
    <2>6. /\ PacketOK(packet') /\ packet'.sd \in BOOLEAN
          /\ Back(packet', packet'.sd, Parse(packet, FALSE).sizes, Parse(packet', packet'.sd))
      BY <2>3, <2>4, <2>5, WrittenPacket, Zenon
    <2>7. made # <<>> => Parse(packet, FALSE).sizes = made
      <3>1. packet.sd = FALSE BY <1>5, <2>1
      <3>2. made # <<>> => Back(packet, FALSE, made, Parse(packet, FALSE)) BY <3>1, Zenon
      <3> QED BY <3>2 DEF Back
    <2> QED BY <1>5, <2>6, <2>7
  <1>6. CASE Pad
    <2>1. PICK more \in Room : \E p \in {PadTo(packet, packet.len + more)} :
             p # TooSmall /\ packet' = Made(p, FALSE)
      BY <1>6 DEF Pad
    <2>4. PICK p : /\ p = PadTo(packet, packet.len + more) /\ p # TooSmall
                   /\ packet' = Made(p, FALSE)
      BY <2>1
    <2>2. p = Rewrite(Cat(Empty, packet, FALSE), packet.len + more, TRUE)
      BY <2>4, OnlyIs DEF PadTo
    <2>3. packet.len + more \in Nat
      <3>1. packet # NoPacket BY <1>6 DEF Pad, NoPacket
      <3> QED BY <3>1 DEF PacketOK, OpusPacketAssumption
    <2> QED BY <1>5, <1>6, <2>2, <2>3, <2>4 DEF Pad
  <1>7. CASE Strip
    <2>1. PICK p \in {Unpad(packet)} : p # TooSmall /\ packet' = Made(p, FALSE)
      BY <1>7 DEF Strip
    <2>2. p = Rewrite(Cat(Empty, packet, FALSE), packet.len, FALSE)
      BY <2>1, OnlyIs DEF Unpad
    <2>3. packet.len \in Nat
      <3>1. packet # NoPacket BY <1>7 DEF Strip, NoPacket
      <3> QED BY <3>1 DEF PacketOK
    <2> QED BY <1>5, <1>7, <2>1, <2>2, <2>3 DEF Strip
  <1>8. CASE UNCHANGED vars BY <1>8 DEF vars
  <1> QED BY <1>1, <1>2, <1>3, <1>4, <1>6, <1>7, <1>8 DEF Next

-----------------------------------------------------------------------------
(* The padding of any packet has its bytes in the header.                   *)
LastFrame(p, c, e) ==
    /\ Led(p, FALSE, e) /\ LaidOut(e)
    /\ c.at = e.at /\ c.pad = e.pad /\ c.sizes = Append(e.sizes, e.last)

LEMMA LastSizeIs ==
    ASSUME NEW p, NEW e, LastSize(p, e, FALSE) # Bad
    PROVE  LastSize(p, e, FALSE) = [e EXCEPT !.sizes = Append(e.sizes, e.last)]
  <1> DEFINE t == Append(e.sizes, e.last)
             d == [e EXCEPT !.sizes = t]
  <1>1. LastSize(p, e, FALSE) = d BY DEF LastSize
  <1> QED BY <1>1

LEMMA ParseLead ==
    ASSUME NEW p, PacketOK(p), Parse(p, FALSE) # Bad
    PROVE  \E e : LastFrame(p, Parse(p, FALSE), e)
  <1> DEFINE c == Parse(p, FALSE)
             e == Lead(p, FALSE)
             d == IF e = Bad THEN Bad ELSE LastSize(p, e, FALSE)
             t == Append(e.sizes, e.last)
  <1>1. c = d BY ParseIs
  <1>2. e # Bad /\ LastSize(p, e, FALSE) # Bad /\ c = LastSize(p, e, FALSE) BY <1>1
  <1>3. FALSE \in BOOLEAN OBVIOUS
  <1>4. Led(p, FALSE, e) /\ LaidOut(e) BY <1>2, <1>3, LeadOK
  <1>5. c = [e EXCEPT !.sizes = t] BY <1>2, LastSizeIs
  <1>6. e \in Cursors BY <1>4 DEF Led, Placed
  <1> HIDE DEF c, e, d, t
  <1>7. c.at = e.at /\ c.pad = e.pad /\ c.sizes = t BY <1>5, <1>6 DEF Cursors
  <1>8. LastFrame(p, c, e) BY <1>4, <1>7 DEF LastFrame, t
  <1> QED BY <1>8 DEF c

LEMMA FrontOfEqual ==
    ASSUME NEW n \in Nat, NEW x, NEW s, s = [i \in 1..n |-> x]
    PROVE  FrontBytes(Append(s, x)) = 0
  <1> DEFINE t == Append(s, x)
  <1>1. s \in Seq({x}) /\ Len(s) = n OBVIOUS
  <1>2. t \in Seq({x}) /\ Len(t) = n + 1
    <2>1. x \in {x} OBVIOUS
    <2> QED BY <1>1, <2>1, AppendProperties
  <1> HIDE DEF t
  <1>3. \A i \in 1..n + 1 : t[i] = x BY <1>2
  <1>4. 1 \in 1..n + 1 /\ \A i \in 2..n + 1 : i \in 1..n + 1 OBVIOUS
  <1>5. ~Vary(t) BY <1>2, <1>3, <1>4 DEF Vary
  <1>6. FrontBytes(t) = 0 BY <1>5 DEF FrontBytes
  <1> QED BY <1>6 DEF t

LEMMA FrontOfAny ==
    ASSUME NEW s \in Seq(Lens), NEW x
    PROVE  LongBytes(s) \in Nat /\ FrontBytes(Append(s, x)) <= LongBytes(s)
  <1> DEFINE t == Append(s, x)
  <1>1. LongBytes(s) \in Nat
    <2>1. 0 \in Lens BY DEF Lens
    <2> QED BY <2>1, LongAppend
  <1>2. Len(s) \in Nat /\ Len(t) = Len(s) + 1 /\ \A i \in 1..Len(s) : t[i] = s[i]
    BY AppendProperties
  <1> HIDE DEF t
  <1>3. Len(t) - 1 = Len(s) BY <1>2
  <1>4. Longs(t, Len(s)) = Longs(s, Len(s)) BY <1>2 DEF Longs
  <1>5. FrontBytes(t) = IF Vary(t) THEN LongBytes(s) ELSE 0
    BY <1>3, <1>4 DEF FrontBytes, LongBytes
  <1>6. FrontBytes(t) <= LongBytes(s) BY <1>1, <1>5
  <1> QED BY <1>1, <1>6 DEF t

PaddedBy(c, k) ==
    k \in Nat /\ c.pad <= 254 * k /\ 2 + k + FrontBytes(c.sizes) <= c.at

(* A padded packet has one byte in the header for 254 of padding or less.   *)
LEMMA Padded ==
    ASSUME NEW p, PacketOK(p), Parse(p, FALSE) # Bad, Parse(p, FALSE).pad > 0
    PROVE  \E k : PaddedBy(Parse(p, FALSE), k)
  <1> DEFINE c == Parse(p, FALSE)
  <1>1. PICK e : LastFrame(p, c, e) BY ParseLead
  <1>2. /\ Led(p, FALSE, e) /\ LaidOut(e)
        /\ c.at = e.at /\ c.pad = e.pad /\ c.sizes = Append(e.sizes, e.last)
    BY <1>1 DEF LastFrame
  <1>3. e.pad > 0 BY <1>2
  <1> HIDE DEF c
  <1>4. PICK k \in Nat :
           e.pad <= 254 * k /\ e.at = 2 + k + (IF e.cbr THEN 0 ELSE LongBytes(e.sizes))
    BY <1>2, <1>3 DEF LaidOut, Laid
  <1>5. e.count \in 1..48 /\ e.at \in Nat /\ e.pad \in Nat BY <1>2 DEF Led, Placed, Cursors
  <1>6. CASE e.cbr
    <2>1. Even(e) BY <1>2, <1>6 DEF Led
    <2>2. PICK n \in Nat : n = e.count - 1 BY <1>5
    <2>3. e.sizes = [i \in 1..n |-> e.last] BY <2>1, <2>2 DEF Even
    <2>4. FrontBytes(c.sizes) = 0 BY <1>2, <2>3, FrontOfEqual
    <2>5. e.at = 2 + k + 0 BY <1>4, <1>6
    <2>6. 2 + k + 0 <= e.at BY <2>5
    <2>7. PaddedBy(c, k) BY <1>2, <1>4, <2>4, <2>6 DEF PaddedBy
    <2> QED BY <2>7 DEF c
  <1>7. CASE ~e.cbr
    <2>1. e.sizes \in Seq(Lens) BY <1>2, <1>7 DEF Led, Reading, Even
    <2>2. LongBytes(e.sizes) \in Nat /\ FrontBytes(c.sizes) <= LongBytes(e.sizes)
      BY <1>2, <2>1, FrontOfAny
    <2>3. e.at = 2 + k + LongBytes(e.sizes) BY <1>4, <1>7
    <2>4. FrontBytes(c.sizes) \in Int
      <3>1. FALSE \in BOOLEAN OBVIOUS
      <3>2. Inside(p, FALSE, c) BY <3>1, ParseOK DEF c
      <3>3. c.sizes \in Seq(Lens) /\ Len(c.sizes) \in 1..48 BY <3>2 DEF Inside
      <3> QED BY <3>3, FrontsOK
    <2>5. 2 + k + FrontBytes(c.sizes) <= e.at BY <2>2, <2>3, <2>4
    <2>6. PaddedBy(c, k) BY <1>2, <1>4, <2>5 DEF PaddedBy
    <2> QED BY <2>6 DEF c
  <1> QED BY <1>6, <1>7

-----------------------------------------------------------------------------
(* A new header fits where the old one and the padding were.                *)
(* A header that grows by padding bytes gains as many bytes of room.        *)
LEMMA PaddingPays ==
    ASSUME NEW a \in Nat, NEW s \in Nat, NEW g \in Nat, NEW l \in Nat, a + s + g = l,
           NEW h \in Nat, NEW m \in Nat, NEW r \in Nat, h + s + r = m,
           NEW f \in Nat, NEW j \in Nat, h <= 2 + f + j, j > 0 => m - h - s >= 254 * (j - 1),
           g > 0 => \E k \in Nat : g <= 254 * k /\ 2 + k + f <= a
    PROVE  h <= a + (IF m - l > 0 THEN m - l ELSE 0)
  <1>1. CASE g = 0
    <2>1. h <= a + (m - l) BY <1>1
    <2> QED BY <2>1
  <1>2. CASE g > 0
    <2>1. PICK k \in Nat : g <= 254 * k /\ 2 + k + f <= a BY <1>2
    <2>2. CASE j <= k
      <3>1. h <= a BY <2>1, <2>2
      <3> QED BY <3>1
    <2>3. CASE j > k
      <3>1. m - h - s >= 254 * k
        <4>1. m - h - s >= 254 * (j - 1) BY <2>3
        <4> QED BY <2>3, <4>1
      <3>2. m - h - s >= g BY <2>1, <3>1
      <3>3. h <= a + (m - l) BY <3>2
      <3> QED BY <3>3
    <2> QED BY <2>2, <2>3
  <1> QED BY <1>1, <1>2

HeadsFit(p, q) ==
    Len(q.head) <= Parse(p, FALSE).at + (IF q.len - p.len > 0 THEN q.len - p.len ELSE 0)

(* The new header of the frames of a packet fits.                           *)
LEMMA HeadFits ==
    ASSUME NEW p, PacketOK(p), Parse(p, FALSE) # Bad,
           NEW q, Written(q, FALSE, Parse(p, FALSE).sizes)
    PROVE  HeadsFit(p, q)
  <1> DEFINE c == Parse(p, FALSE)
             lens == c.sizes
  <1>1. Inside(p, FALSE, c)
    <2>1. FALSE \in BOOLEAN OBVIOUS
    <2> QED BY <2>1, ParseOK
  <1>2. c.pad > 0 => \E k : PaddedBy(c, k) BY Padded
  <1>3. PacketOK(q) /\ Back(q, FALSE, lens, Parse(q, FALSE)) /\ Slim(q, FALSE, lens)
    BY DEF Written
  <1> DEFINE d == Parse(q, FALSE)
  <1> HIDE DEF c, d
  <1>4. /\ c.sizes \in Seq(Lens) /\ Len(c.sizes) \in 1..48 /\ c.at \in Nat /\ c.pad \in Nat
        /\ c.at + Sum(lens) + c.pad = p.len
    BY <1>1 DEF Inside
  <1>5. d.at = Len(q.head) /\ d.at + Sum(lens) + d.pad = q.len /\ d.pad \in Nat
    BY <1>3 DEF Back, d
  <1> HIDE DEF lens
  <1>6. lens \in Seq(Lens) /\ Len(lens) \in 1..48 BY <1>4 DEF lens
  <1>7. Len(Trailer(lens, FALSE)) = 0 BY DEF Trailer
  <1>8. PICK j \in Nat :
           /\ Len(q.head) <= 2 + FrontBytes(lens) + Len(Trailer(lens, FALSE)) + j
           /\ j > 0 => q.len - Len(q.head) - Sum(lens) >= 254 * (j - 1)
    BY <1>3 DEF Slim
  <1>9. FrontBytes(lens) \in Nat /\ Sum(lens) \in Nat BY <1>6, FrontsOK, LensSum
  <1>10. p.len \in Nat /\ q.len \in Nat /\ Len(q.head) \in Nat BY <1>3 DEF PacketOK
  <1>11. PICK a \in Nat, s \in Nat, g \in Nat, l \in Nat :
            a = c.at /\ s = Sum(lens) /\ g = c.pad /\ l = p.len
    BY <1>4, <1>9, <1>10
  <1>12. PICK h \in Nat, m \in Nat, r \in Nat, f \in Nat :
            h = Len(q.head) /\ m = q.len /\ r = d.pad /\ f = FrontBytes(lens)
    BY <1>5, <1>9, <1>10
  <1>13. a + s + g = l /\ h + s + r = m BY <1>4, <1>5, <1>11, <1>12
  <1>14. h <= 2 + f + j /\ (j > 0 => m - h - s >= 254 * (j - 1))
    <2>1. h <= 2 + f + Len(Trailer(lens, FALSE)) + j BY <1>8, <1>12
    <2>2. h <= 2 + f + 0 + j BY <1>7, <2>1
    <2>3. j > 0 => m - h - s >= 254 * (j - 1) BY <1>8, <1>11, <1>12
    <2> QED BY <2>2, <2>3
  <1>15. g > 0 => \E k \in Nat : g <= 254 * k /\ 2 + k + f <= a
    BY <1>2, <1>11, <1>12 DEF PaddedBy, lens
  <1>16. h <= a + (IF m - l > 0 THEN m - l ELSE 0) BY <1>13, <1>14, <1>15, PaddingPays
  <1> QED BY <1>11, <1>12, <1>16 DEF HeadsFit, c

LEMMA NotEmpty == ASSUME NEW s, Len(s) \in 1..48 PROVE s # <<>>
  <1>1. Len(<<>>) = 0 /\ ~(0 \in 1..48) OBVIOUS
  <1>2. s = <<>> => Len(s) = Len(<<>>) OBVIOUS
  <1> QED BY <1>1, <1>2, Zenon

LEMMA InPlaceNext ==
    ASSUME OpusPacketAssumption, PacketInv, Next PROVE InPlaceStep
  <1>1. SUFFICES ASSUME made' = made, packet' # packet, ~packet.sd, ~packet'.sd
                 PROVE  HeadsFit(packet, packet')
    BY DEF InPlaceStep, HeadsFit
  <1>2. ASSUME made # <<>>
        PROVE  /\ PacketOK(packet) /\ Parse(packet, FALSE) # Bad
               /\ Parse(packet, FALSE).sizes = made
    <2>1. PacketOK(packet) /\ packet.sd \in BOOLEAN
          /\ Back(packet, packet.sd, made, Parse(packet, packet.sd))
      BY <1>2 DEF PacketInv, NoPacket, PacketOK
    <2>2. packet.sd = FALSE BY <1>1, <2>1
    <2>3. Back(packet, FALSE, made, Parse(packet, FALSE)) BY <2>1, <2>2, Zenon
    <2> QED BY <2>1, <2>3 DEF Back
  <1>3. ASSUME made # <<>>, NEW sd \in BOOLEAN, packet'.sd = sd, Written(packet', sd, made)
        PROVE  HeadsFit(packet, packet')
    <2>1. sd = FALSE BY <1>1, <1>3
    <2>2. Written(packet', FALSE, Parse(packet, FALSE).sizes)
      BY <1>2, <1>3, <2>1, Zenon
    <2> QED BY <1>2, <1>3, <2>2, HeadFits
  <1>4. CASE NewFrame
    <2>1. PICK toc \in Tocs, n \in Lengths :
             packet' = Made([head |-> <<toc>>, len |-> n + 1], FALSE) /\ made' = <<n>>
      BY <1>4 DEF NewFrame
    <2> DEFINE o == [head |-> <<toc>>, len |-> n + 1]
    <2>2. toc \in Bytes /\ toc % 4 = 0 /\ n \in Lens
      BY DEF OpusPacketAssumption, Bytes, Lens
    <2>3. Same(packet', o) /\ packet'.sd = FALSE BY <2>1, MadeIs
    <2>4. Written(packet', FALSE, made) BY <1>1, <2>1, <2>2, <2>3, FrameWritten
    <2>5. FALSE \in BOOLEAN /\ made # <<>> BY <1>1, <2>1
    <2> QED BY <1>3, <2>3, <2>4, <2>5
  <1>5. CASE Reset \/ AddPacket BY <1>1, <1>5 DEF Reset, AddPacket
  <1>6. CASE Out
    <2>1. PICK begin \in 0..Len(rp.lens), end \in 1..Len(rp.lens), more \in {0} \cup Room,
               sd \in BOOLEAN :
             /\ begin < end
             /\ packet' = Made(OutRange(rp, begin, end,
                                  OutRange(rp, begin, end, MaxRoom, sd, FALSE).len + more,
                                  sd, more > 0), sd)
             /\ made' = SubSeq(rp.lens, begin + 1, end)
      BY <1>6, Zenon DEF Out
    <2> DEFINE o == OutRange(rp, begin, end,
                             OutRange(rp, begin, end, MaxRoom, sd, FALSE).len + more,
                             sd, more > 0)
    <2>0. RpOK(rp) BY DEF PacketInv
    <2>2. Len(rp.lens) \in Nat BY <2>0 DEF RpOK, Repacketizers
    <2>3. begin \in Nat /\ end \in Nat /\ end <= Len(rp.lens) BY <2>2
    <2>4. more \in Nat BY DEF OpusPacketAssumption
    <2>5. Same(packet', o) /\ packet'.sd = sd BY <2>1, MadeIs, Zenon
    <2>6. Written(packet', sd, made) BY <1>1, <2>0, <2>1, <2>3, <2>4, <2>5, OutOK, Zenon
    <2>7. made # <<>>
      <3>1. Len(made') \in 1..48 BY <2>0, <2>1, <2>3, RangeOK
      <3>2. Len(made) \in 1..48 BY <1>1, <3>1, Zenon
      <3> QED BY <3>2, NotEmpty, Zenon
    <2> QED BY <1>3, <2>5, <2>6, <2>7
  <1>7. ASSUME NEW len \in Nat, NEW pad \in BOOLEAN, packet.len >= 1,
               NEW p, p = Rewrite(Cat(Empty, packet, FALSE), len, pad), p # TooSmall,
               packet' = Made(p, FALSE)
        PROVE  HeadsFit(packet, packet')
    <2>1. packet # NoPacket BY <1>7 DEF NoPacket
    <2>2. PacketOK(packet) BY <2>1 DEF PacketInv
    <2>3. Same(packet', p) BY <1>7, MadeIs
    <2>4. Parse(packet, FALSE) # Bad /\ Written(packet', FALSE, Parse(packet, FALSE).sizes)
      BY <1>7, <2>2, <2>3, RewriteOK
    <2> QED BY <2>2, <2>4, HeadFits
  <1>8. CASE Pad
    <2>1. PICK more \in Room : \E p \in {PadTo(packet, packet.len + more)} :
             p # TooSmall /\ packet' = Made(p, FALSE)
      BY <1>8 DEF Pad
    <2>2. PICK p : /\ p = PadTo(packet, packet.len + more) /\ p # TooSmall
                   /\ packet' = Made(p, FALSE)
      BY <2>1
    <2>3. p = Rewrite(Cat(Empty, packet, FALSE), packet.len + more, TRUE)
      BY <2>2, OnlyIs DEF PadTo
    <2>4. packet.len + more \in Nat
      <3>1. packet # NoPacket BY <1>8 DEF Pad, NoPacket
      <3> QED BY <3>1 DEF PacketInv, PacketOK, OpusPacketAssumption
    <2> QED BY <1>7, <1>8, <2>2, <2>3, <2>4 DEF Pad
  <1>9. CASE Strip
    <2>1. PICK p \in {Unpad(packet)} : p # TooSmall /\ packet' = Made(p, FALSE)
      BY <1>9 DEF Strip
    <2>2. p = Rewrite(Cat(Empty, packet, FALSE), packet.len, FALSE)
      BY <2>1, OnlyIs DEF Unpad
    <2>3. packet.len \in Nat
      <3>1. packet # NoPacket BY <1>9 DEF Strip, NoPacket
      <3> QED BY <3>1 DEF PacketInv, PacketOK
    <2> QED BY <1>7, <1>9, <2>1, <2>2, <2>3 DEF Strip
  <1> QED BY <1>4, <1>5, <1>6, <1>8, <1>9 DEF Next

-----------------------------------------------------------------------------
(* The theorems.                                                            *)

(* What holds of the repacketizer and of the packet, for every packet that  *)
(* is received and every configuration.                                     *)
THEOREM PacketInvariant == ASSUME OpusPacketAssumption PROVE Spec => []PacketInv
  <1>1. Init => PacketInv BY PacketInit
  <1>2. PacketInv /\ [Next]_vars => PacketInv' BY PacketNext
  <1> QED BY <1>1, <1>2, PTL DEF Spec

LEMMA Members ==
    ASSUME NEW S, NEW s \in Seq(S) PROVE \A i \in DOMAIN s : s[i] \in S
  <1>1. DOMAIN s = 1..Len(s) OBVIOUS
  <1> QED BY <1>1, ElementOfSeq

LEMMA NoneFit == ASSUME NEW k \in Nat PROVE 0 * k <= 960
  OBVIOUS

RpTyped(r) ==
    /\ r.toc \in 0..255 /\ r.framesize \in 0..480
    /\ Len(r.lens) <= 48 /\ Len(r.lens) * r.framesize <= 960
    /\ \A i \in DOMAIN r.lens : r.lens[i] \in 0..1275

LEMMA RepacketizerType == ASSUME NEW r, RpOK(r) PROVE RpTyped(r)
  <1>1. r.toc \in Bytes /\ r.framesize \in 0..480 /\ r.lens \in Seq(Lens)
    BY DEF RpOK, Repacketizers
  <1>2. r.toc \in 0..255 /\ \A i \in DOMAIN r.lens : r.lens[i] \in 0..1275
    <2>1. \A i \in DOMAIN r.lens : r.lens[i] \in Lens BY <1>1, Members, Zenon
    <2> QED BY <1>1, <2>1, ZenonT(40) DEF Bytes, Lens
  <1>3. CASE r.lens = <<>>
    <2>1. Len(r.lens) = 0 /\ Len(r.lens) <= 48 BY <1>3
    <2>2. 0 * r.framesize <= 960
      <3>1. r.framesize \in 0..480 BY <1>1, Zenon
      <3>2. \A k \in 0..480 : 0 * k <= 960 BY NoneFit
      <3> QED BY <3>1, <3>2, ZenonT(40)
    <2>3. Len(r.lens) * r.framesize <= 960 BY <2>1, <2>2, Zenon
    <2> QED BY <1>1, <1>2, <2>1, <2>3, Zenon DEF RpTyped
  <1>4. CASE r.lens # <<>>
    <2>1. Samples(r.toc) \in 20..480 BY <1>1, SamplesIn
    <2>2. Within(r.framesize, Len(r.lens)) /\ r.framesize \in 20..480
      BY <1>4, <2>1 DEF RpOK, Fit
    <2>3. PICK m \in Nat : m = Len(r.lens) BY <1>1
    <2>4. PICK k \in 20..480 : k = r.framesize BY <2>2
    <2>5. Within(k, m) BY <2>2, <2>3, <2>4
    <2>6. m <= 48 BY <2>5, FewFrames
    <2>7. m * k = k * m OBVIOUS
    <2>8. m * k <= 960 BY <2>5, <2>7 DEF Within
    <2>9. Len(r.lens) * r.framesize <= 960 BY <2>3, <2>4, <2>8, Zenon
    <2>10. Len(r.lens) <= 48 BY <2>3, <2>6
    <2> QED BY <1>1, <1>2, <2>9, <2>10, ZenonT(40) DEF RpTyped
  <1> QED BY <1>3, <1>4

LEMMA InvType == ASSUME PacketInv PROVE TypeOK
  <1>1. packet.len \in Nat /\ packet.sd \in BOOLEAN
        /\ \A i \in DOMAIN packet.head : packet.head[i] \in 0..255
    <2>1. CASE packet = NoPacket
      <3>1. DOMAIN packet.head = {} BY <2>1 DEF NoPacket
      <3> QED BY <2>1, <3>1 DEF NoPacket
    <2>2. CASE PacketOK(packet) /\ packet.sd \in BOOLEAN
      <3>1. packet.head \in Seq(Bytes) /\ packet.len \in Nat BY <2>2 DEF PacketOK
      <3>2. \A i \in DOMAIN packet.head : packet.head[i] \in Bytes
        BY <3>1, Members, Zenon
      <3> QED BY <2>2, <3>1, <3>2, Zenon DEF Bytes
    <2> QED BY <2>1, <2>2 DEF PacketInv
  <1>2. RpOK(rp) BY DEF PacketInv
  <1>3. RpTyped(rp) BY <1>2, RepacketizerType
  <1> QED BY <1>1, <1>3, Zenon DEF TypeOK, RpTyped

LEMMA InvFound == ASSUME PacketInv PROVE FramesFound
  BY DEF PacketInv, FramesFound, Back

LEMMA InvInside == ASSUME PacketInv PROVE FramesInside
  <1> DEFINE Inner(c) ==
               /\ Len(c.sizes) = c.count /\ c.count \in 1..48
               /\ \A i \in 1..c.count : c.sizes[i] \in 0..1275
               /\ IF packet.sd THEN c.at + Sum(c.sizes) + c.pad <= packet.len
                  ELSE c.at + Sum(c.sizes) + c.pad = packet.len
             found == Parse(packet, packet.sd)
  <1>1. ASSUME packet.len > 0, found # Bad PROVE Inner(found)
    <2>1. packet # NoPacket
      <3>1. NoPacket.len = 0 BY DEF NoPacket
      <3> QED BY <1>1, <3>1
    <2>2. PacketOK(packet) /\ packet.sd \in BOOLEAN BY <2>1 DEF PacketInv
    <2>3. Inside(packet, packet.sd, found) BY <1>1, <2>2, ParseOK
    <2> HIDE DEF found
    <2>4. /\ found.count \in 1..48 /\ found.sizes \in Seq(Lens)
          /\ Len(found.sizes) = found.count
          /\ IF packet.sd THEN found.at + Sum(found.sizes) + found.pad <= packet.len
             ELSE found.at + Sum(found.sizes) + found.pad = packet.len
      BY <2>3, Zenon DEF Inside
    <2>5. \A i \in 1..found.count : found.sizes[i] \in Lens BY <2>4
    <2>6. \A i \in 1..found.count : found.sizes[i] \in 0..1275 BY <2>5, Zenon DEF Lens
    <2>7. Len(found.sizes) = found.count /\ found.count \in 1..48 BY <2>4, Zenon
    <2>8. IF packet.sd THEN found.at + Sum(found.sizes) + found.pad <= packet.len
          ELSE found.at + Sum(found.sizes) + found.pad = packet.len
      BY <2>4, Zenon
    <2> QED BY <2>6, <2>7, <2>8, Zenon
  <1> HIDE DEF Inner
  <1>2. \A c \in {found} : c # Bad => (packet.len > 0 => Inner(c)) BY <1>1, Zenon
  <1> HIDE DEF found
  <1>3. packet.len > 0 => \A c \in {found} : c # Bad => Inner(c) BY <1>2, Zenon
  <1> USE DEF found, Inner
  <1> QED BY <1>3, Zenon DEF FramesInside

(* A repacketizer never holds more than 120 ms nor more than 48 frames      *)
(* (opus_repacketizer_cat_impl), and keeps to the bytes of a configuration. *)
THEOREM TypeCorrect == ASSUME OpusPacketAssumption PROVE Spec => []TypeOK
  <1>1. PacketInv => TypeOK BY InvType
  <1> QED BY <1>1, PacketInvariant, PTL

(* opus_packet_parse_impl finds in a packet of the repacketizer just the    *)
(* frames that opus_repacketizer_out_range_impl put there: however often it *)
(* was merged, split, padded and stripped.                                  *)
THEOREM FramesAreFound == ASSUME OpusPacketAssumption PROVE Spec => []FramesFound
  <1>1. PacketInv => FramesFound BY InvFound
  <1> QED BY <1>1, PacketInvariant, PTL

(* In any packet, of whatever bytes, the parser finds only frames that lie  *)
(* inside it, and that account for all of it (opus_packet_parse_impl).      *)
THEOREM FramesAreInside == ASSUME OpusPacketAssumption PROVE Spec => []FramesInside
  <1>1. PacketInv => FramesInside BY InvInside
  <1> QED BY <1>1, PacketInvariant, PTL

(* opus_packet_pad and opus_packet_unpad never write a header over a frame  *)
(* that has not been moved yet, for every packet and every new length, and  *)
(* whatever padding the packet has already (with Nat for Paddings).         *)
THEOREM PaddingInPlace == ASSUME OpusPacketAssumption PROVE Spec => InPlace
  <1>1. PacketInv /\ [Next]_vars => InPlaceStep \/ UNCHANGED vars BY InPlaceNext
  <1>2. PacketInv /\ [Next]_vars => [InPlaceStep]_vars BY <1>1
  <1> QED BY <1>2, PacketInvariant, PTL DEF Spec, InPlace

=============================================================================
