---------------------------- MODULE Parts_proofs ----------------------------
(***************************************************************************)
(* Proofs about the parts side by side: each keeps its invariant while the *)
(* others are the subject.  A behaviour of Parts with one of them for      *)
(* subject takes that part's steps.                                        *)
(*                                                                         *)
(* First comes the range coder, about the instance C itself, from powers   *)
(* of two up to its inductive invariant CoderInv.  The pairing, the        *)
(* packets and the decoder follow, whose invariants have modules of their  *)
(* own; here is what carries them over to the instances N, P and D.        *)
(***************************************************************************)
EXTENDS Parts, FiniteSetTheorems, FunctionTheorems, WellFoundedInduction, TLAPS

-----------------------------------------------------------------------------
(* Induction, as the least number outside a set.                            *)
Less == {p \in Nat \X Nat : p[1] < p[2]}
LEMMA LessWF == IsWellFoundedOn(Less, Nat)
  BY NatLessThanWellFounded DEF OpToRel, Less

LEMMA SetInduction ==
    ASSUME NEW S, 0 \in S, \A n \in Nat : n \in S => n + 1 \in S
    PROVE  Nat \subseteq S
  <1> SUFFICES ASSUME Nat \ S # {} PROVE FALSE OBVIOUS
  <1>1. PICK n \in Nat \ S : \A m \in Nat \ S : ~(<<m, n>> \in Less)
    BY WFMin, LessWF
  <1>2. n - 1 \in Nat /\ n - 1 \notin S /\ n - 1 < n BY <1>1
  <1>3. <<n - 1, n>> \in Less BY <1>2 DEF Less
  <1> QED BY <1>1, <1>2, <1>3

-----------------------------------------------------------------------------
(* Powers of two, as the number of subsets.                                 *)
LEMMA Subsets ==
    ASSUME NEW n \in Nat
    PROVE  IsFiniteSet(SUBSET (1..n)) /\ Cardinality(SUBSET (1..n)) = 2^n
  <1>1. IsFiniteSet(1..n) /\ Cardinality(1..n) = n
    <2>1. \A a, b \in Int : /\ IsFiniteSet(a..b)
                            /\ Cardinality(a..b) = IF a > b THEN 0 ELSE b - a + 1
      BY FS_Interval
    <2> QED BY <2>1
  <1> QED BY <1>1, FS_SUBSET

LEMMA PowNat == ASSUME NEW n \in Nat PROVE 2^n \in Nat
  BY Subsets, FS_CardinalityType

LEMMA PowStep == ASSUME NEW n \in Nat PROVE 2^(n + 1) = 2 * 2^n
  <1> DEFINE A == SUBSET (1..n)
             B == {T \cup {n + 1} : T \in A}
             f == [T \in A |-> T \cup {n + 1}]
  <1>1. IsFiniteSet(A) /\ Cardinality(A) = 2^n /\ 2^n \in Nat
    BY Subsets, PowNat
  <1>2. f \in Bijection(A, B)
    <2>1. f \in [A -> B] /\ \A y \in B : \E T \in A : f[T] = y OBVIOUS
    <2>2. ASSUME NEW T \in A, NEW U \in A, f[T] = f[U] PROVE T = U
      <3>1. n + 1 \notin T /\ n + 1 \notin U OBVIOUS
      <3>2. T \cup {n + 1} = U \cup {n + 1} BY <2>2
      <3> QED BY <3>1, <3>2
    <2> QED BY <2>1, <2>2, Fun_IsBij
  <1>3. IsFiniteSet(B) /\ Cardinality(B) = Cardinality(A)
    BY <1>1, <1>2, FS_Bijection DEF ExistsBijection
  <1>4. A \cap B = {} OBVIOUS
  <1>5. SUBSET (1..n + 1) = A \cup B
    <2>0. 1..n \subseteq 1..n + 1 /\ n + 1 \in 1..n + 1 OBVIOUS
    <2>1. A \cup B \subseteq SUBSET (1..n + 1) BY <2>0, Zenon
    <2>2. ASSUME NEW T \in SUBSET (1..n + 1) PROVE T \in A \cup B
      <3>1. CASE n + 1 \in T
        <4>1. T \ {n + 1} \in A OBVIOUS
        <4>2. T = (T \ {n + 1}) \cup {n + 1} BY <3>1
        <4> QED BY <4>1, <4>2
      <3>2. CASE n + 1 \notin T
        <4>1. T \in A BY <3>2
        <4> QED BY <4>1
      <3> QED BY <3>1, <3>2
    <2> QED BY <2>1, <2>2
  <1> HIDE DEF A, B
  <1>6. Cardinality(A \cup B) = 2^n + 2^n
    <2>1. Cardinality(A \cup B) =
            Cardinality(A) + Cardinality(B) - Cardinality(A \cap B)
      BY <1>1, <1>3, FS_Union
    <2>2. Cardinality({}) = 0 BY FS_EmptySet
    <2>3. /\ Cardinality(A) = 2^n /\ Cardinality(B) = 2^n
          /\ Cardinality(A \cap B) = 0 /\ 2^n \in Nat
      BY <1>1, <1>3, <1>4, <2>2, Zenon
    <2>4. \A p \in Nat : p + p - 0 = p + p OBVIOUS
    <2>5. 2^n + 2^n - 0 = 2^n + 2^n BY <2>3, <2>4, Zenon
    <2> QED BY <2>1, <2>3, <2>5, Zenon
  <1>7. Cardinality(SUBSET (1..n + 1)) = 2^(n + 1) BY Subsets
  <1>8. 2^(n + 1) = 2^n + 2^n BY <1>5, <1>6, <1>7, Zenon
  <1>9. \A p \in Nat : p + p = 2 * p OBVIOUS
  <1> QED BY <1>1, <1>8, <1>9, Zenon

LEMMA PowZero == 2^0 = 1 OBVIOUS

LEMMA PowAdd == ASSUME NEW a \in Nat, NEW b \in Nat PROVE 2^(a + b) = 2^a * 2^b
  <1> DEFINE S == {n \in Nat : 2^(a + n) = 2^a * 2^n}
  <1>1. 0 \in S
    <2>1. a + 0 = a OBVIOUS
    <2>2. 2^a * 1 = 2^a BY PowNat
    <2> QED BY <2>1, <2>2, PowZero
  <1>2. ASSUME NEW n \in Nat, n \in S PROVE n + 1 \in S
    <2>1. 2^(a + n) = 2^a * 2^n BY <1>2
    <2>2. (a + n) + 1 = a + (n + 1) /\ a + n \in Nat OBVIOUS
    <2>3. 2^((a + n) + 1) = 2 * 2^(a + n) BY <2>2, PowStep
    <2>4. 2^(n + 1) = 2 * 2^n BY PowStep
    <2>5. \A x, y \in Nat : 2 * (x * y) = x * (2 * y) OBVIOUS
    <2>6. 2 * (2^a * 2^n) = 2^a * (2 * 2^n) BY <2>5, PowNat
    <2>7. 2^(a + (n + 1)) = 2^a * 2^(n + 1) BY <2>1, <2>2, <2>3, <2>4, <2>6
    <2> QED BY <2>7
  <1> HIDE DEF S
  <1>3. Nat \subseteq S BY <1>1, <1>2, SetInduction
  <1> QED BY <1>3 DEF S

LEMMA PowPositive == ASSUME NEW n \in Nat PROVE 2^n \in Nat \ {0}
  <1> DEFINE S == {m \in Nat : 2^m > 0}
  <1>1. 0 \in S BY PowZero
  <1>2. ASSUME NEW m \in Nat, m \in S PROVE m + 1 \in S
    <2>1. 2^m \in Nat /\ 2^m > 0 /\ 2^(m + 1) = 2 * 2^m BY <1>2, PowNat, PowStep
    <2>2. 2^(m + 1) > 0 BY <2>1
    <2> QED BY <2>2
  <1> HIDE DEF S
  <1>3. Nat \subseteq S BY <1>1, <1>2, SetInduction
  <1>4. 2^n > 0 BY <1>3 DEF S
  <1> QED BY <1>4, PowNat

LEMMA PowMonotone ==
    ASSUME NEW a \in Nat, NEW b \in Nat, a <= b
    PROVE  2^a <= 2^b
  <1>1. b - a \in Nat /\ a + (b - a) = b OBVIOUS
  <1>2. 2^b = 2^a * 2^(b - a) BY <1>1, PowAdd
  <1>3. \A x \in Nat, y \in Nat \ {0} : x <= x * y
    <2> TAKE x \in Nat, y \in Nat \ {0}
    <2>1. x * y = x + x * (y - 1) /\ y - 1 \in Nat OBVIOUS
    <2>2. x * (y - 1) \in Nat BY <2>1
    <2> QED BY <2>1, <2>2
  <1> QED BY <1>1, <1>2, <1>3, PowPositive, PowNat

-----------------------------------------------------------------------------
(* Division.                                                                *)
LEMMA Division ==
    ASSUME NEW a \in Nat, NEW b \in Nat \ {0}
    PROVE  /\ a \div b \in Nat /\ a % b \in 0..b - 1
           /\ a = b * (a \div b) + (a % b)
  OBVIOUS

LEMMA ProductGrows ==
    ASSUME NEW x \in Nat, NEW y \in Nat, NEW k \in Nat, x <= y
    PROVE  k * x <= k * y /\ x * k <= y * k /\ k * x \in Nat /\ x * k = k * x
  <1>1. y - x \in Nat /\ k * (y - x) \in Nat /\ k * y = k * x + k * (y - x) OBVIOUS
  <1> QED BY <1>1

LEMMA Through ==
    ASSUME NEW a \in Nat, NEW b \in Nat, NEW c \in Nat, a <= b, b <= c
    PROVE  a <= c
  OBVIOUS

LEMMA Places ==
    ASSUME NEW n \in Nat, NEW v \in 0..n - 2
    PROVE  v + 1 \in 1..n /\ v + 2 \in 1..n /\ n \in 1..n
  OBVIOUS

LEMMA Moved ==
    ASSUME NEW m \in Nat, NEW n \in Nat, m < n, NEW i \in 1..m
    PROVE  i + n - m \in 1..n /\ i \in 1..n
  OBVIOUS

LEMMA LengthNat == ASSUME NEW q \in Seq(Nat) PROVE Len(q) \in Nat
  OBVIOUS

LEMMA NumberAt ==
    ASSUME NEW q \in Seq(Nat), NEW i \in 1..Len(q)
    PROVE  q[i] \in Nat
  OBVIOUS

(* A quotient is what it is by its remainder.                               *)
LEMMA QuotientIs ==
    ASSUME NEW q \in Nat, NEW b \in Nat \ {0}, NEW r \in 0..b - 1
    PROVE  (b * q + r) \div b = q /\ (b * q + r) % b = r
  OBVIOUS

LEMMA QuotientBelow ==
    ASSUME NEW a \in Nat, NEW b \in Nat \ {0}, NEW k \in Nat, a < b * k
    PROVE  a \div b \in Nat /\ a \div b < k
  <1>1. a \div b \in Nat /\ a = b * (a \div b) + (a % b) /\ a % b >= 0 BY Division
  <1>2. CASE k <= a \div b
    <2>1. b * k <= b * (a \div b) BY <1>1, <1>2, ProductGrows
    <2>2. b * (a \div b) \in Nat /\ b * k \in Nat /\ a % b \in Int BY <1>1, Division
    <2> QED BY <1>1, <2>1, <2>2
  <1> QED BY <1>1, <1>2

LEMMA QuotientAbove ==
    ASSUME NEW a \in Nat, NEW b \in Nat \ {0}, NEW k \in Nat, b * k <= a
    PROVE  k <= a \div b
  <1>1. a \div b \in Nat /\ a = b * (a \div b) + (a % b) /\ a % b \in 0..b - 1 BY Division
  <1>2. CASE a \div b < k
    <2>1. a \div b + 1 <= k BY <1>1, <1>2
    <2>2. b * (a \div b + 1) <= b * k BY <1>1, <2>1, ProductGrows
    <2>3. b * (a \div b + 1) = b * (a \div b) + b BY <1>1
    <2>4. b * (a \div b) \in Nat /\ b * k \in Nat BY <1>1
    <2> QED BY <1>1, <2>2, <2>3, <2>4
  <1> QED BY <1>1, <1>2

-----------------------------------------------------------------------------
(* The sizes of the registers.                                              *)
Base == 2^SymBits
Half == 2^(SymBits - 1)

LEMMA SmallFacts ==
    /\ SymBits \in Nat \ {0, 1} /\ CodeBits = 4 * SymBits
    /\ CodeBits \in Nat /\ C!CodeShift \in Nat /\ C!CodeShift = 3 * SymBits - 1
    /\ CodeBits \div SymBits = 4 /\ C!CodeExtra = SymBits - 1
  <1>1. SymBits \in Nat \ {0, 1} /\ CodeBits = 4 * SymBits
    BY CoderAssumption DEF C!RangeCoderAssumption
  <1>2. CodeBits \div SymBits = 4
    <2>1. CodeBits = SymBits * 4 + 0 BY <1>1
    <2> QED BY <1>1, <2>1, QuotientIs
  <1>3. C!CodeExtra = SymBits - 1
    <2>1. CodeBits - 2 = SymBits * 3 + (SymBits - 2) /\ SymBits - 2 \in 0..SymBits - 1
      BY <1>1
    <2>2. (CodeBits - 2) % SymBits = SymBits - 2 BY <1>1, <2>1, QuotientIs
    <2> QED BY <1>1, <2>2 DEF C!CodeExtra
  <1> QED BY <1>1, <1>2, <1>3 DEF C!CodeShift

LEMMA Widths ==
    /\ Base \in Nat /\ Base >= 4 /\ 2^SymBits = Base /\ C!SymMax = Base - 1
    /\ C!SymMax + 1 = Base
    /\ Half \in Nat /\ Half >= 2 /\ Base = 2 * Half
    /\ C!CodeBot \in Nat /\ 2^C!CodeShift = C!CodeBot /\ C!CodeBot = Base * Base * Half
    /\ C!CodeTop \in Nat /\ C!CodeTop = C!CodeBot * Base
    /\ 2^CodeBits = 2 * C!CodeTop /\ 2^C!CodeExtra = Half
    /\ C!CodeBot >= 32
  <1>1. SymBits - 1 \in Nat /\ SymBits = (SymBits - 1) + 1 /\ SymBits \in Nat
    BY SmallFacts
  <1>2. Half \in Nat /\ Base \in Nat /\ Base = 2 * Half
    BY <1>1, PowNat, PowStep DEF Half, Base
  <1>3. Half >= 2
    <2>1. 2^1 = 2 /\ 1 <= SymBits - 1 BY SmallFacts
    <2> QED BY <1>1, <2>1, PowMonotone DEF Half
  <1>4. C!SymMax = Base - 1 BY DEF C!SymMax, Base
  <1>5. 2^(SymBits + SymBits) = Base * Base BY <1>1, PowAdd DEF Base
  <1>6. 2^C!CodeShift = Base * Base * Half
    <2>1. C!CodeShift = (SymBits + SymBits) + (SymBits - 1) BY SmallFacts
    <2>2. 2^((SymBits + SymBits) + (SymBits - 1)) = 2^(SymBits + SymBits) * 2^(SymBits - 1)
      BY <1>1, PowAdd
    <2> QED BY <1>5, <2>1, <2>2, Zenon DEF Half
  <1>7. C!CodeTop = 2^C!CodeShift * Base
    <2>1. CodeBits - 1 = C!CodeShift + SymBits BY SmallFacts DEF C!CodeShift
    <2>2. 2^(C!CodeShift + SymBits) = 2^C!CodeShift * 2^SymBits
      BY <1>1, SmallFacts, PowAdd
    <2> QED BY <2>1, <2>2, Zenon DEF C!CodeTop, Base
  <1>8. 2^C!CodeShift \in Nat BY SmallFacts, PowNat
  <1> DEFINE b == 2^C!CodeShift
  <1>9. C!CodeBot = b
    <2>1. C!CodeBot = C!CodeTop \div Base BY DEF C!CodeBot, Base
    <2>2. C!CodeTop = Base * b + 0 /\ Base \in Nat \ {0}
      BY <1>2, <1>3, <1>7, <1>8
    <2> HIDE DEF b
    <2>3. b \in Nat BY <1>8 DEF b
    <2> QED BY <1>2, <1>3, <2>1, <2>2, <2>3, QuotientIs
  <1>10. C!CodeTop \in Nat
    <2> HIDE DEF b
    <2> QED BY <1>2, <1>7, <1>8 DEF b
  <1>11. 2^CodeBits = 2 * C!CodeTop
    <2>1. CodeBits - 1 \in Nat /\ CodeBits = (CodeBits - 1) + 1 BY SmallFacts
    <2> QED BY <2>1, PowStep DEF C!CodeTop
  <1>12. 2^C!CodeExtra = Half BY SmallFacts DEF Half
  <1>13. Base * Base * Half >= 32
    <2>1. \A x \in Nat, h \in Nat : x >= 4 /\ h >= 2 => x * x * h >= 32
      <3> TAKE x \in Nat, h \in Nat
      <3> HAVE x >= 4 /\ h >= 2
      <3>1. 4 * 4 <= x * 4 /\ x * 4 <= x * x BY ProductGrows
      <3>2. 16 <= x * x /\ x * x \in Nat BY <3>1
      <3>3. 16 * 2 <= 16 * h /\ 16 * h <= (x * x) * h BY <3>2, ProductGrows
      <3> QED BY <3>2, <3>3
    <2>2. Base >= 4 BY <1>2, <1>3
    <2> QED BY <1>2, <1>3, <2>1, <2>2
  <1>14. 2^SymBits = Base BY DEF Base
  <1> QED BY <1>14, <1>2, <1>3, <1>4, <1>6, <1>7, <1>8, <1>9, <1>10, <1>11, <1>12, <1>13

(* The widths with nothing multiplied, for what only compares them.         *)
LEMMA PlainWidths ==
    /\ Base \in Nat /\ Base >= 4 /\ C!SymMax \in Nat /\ C!SymMax = Base - 1
    /\ C!SymMax + 1 = Base /\ C!CodeBot \in Nat /\ C!CodeBot >= 32
    /\ C!CodeTop \in Nat /\ C!CodeTop > C!CodeBot
  <1>1. /\ Base \in Nat /\ Base >= 4 /\ C!SymMax = Base - 1 /\ C!SymMax + 1 = Base
        /\ C!CodeBot \in Nat /\ C!CodeBot >= 32 /\ C!CodeTop = C!CodeBot * Base
    BY Widths, Zenon
  <1>2. C!CodeBot * 4 <= C!CodeBot * Base /\ C!CodeBot * Base \in Nat BY <1>1
  <1>3. C!SymMax \in Nat BY <1>1
  <1> QED BY <1>1, <1>2, <1>3

-----------------------------------------------------------------------------
(* The contexts of the two sides.                                           *)
Bytes == 0..C!SymMax
Buffers == UNION {[1..n -> Bytes] : n \in Nat}
Contexts ==
    [buf : Buffers, storage : Nat, offs : Nat, end_offs : Nat, end_window : Nat,
     nend_bits : Nat, nbits_total : Int, rng : Nat, val : Nat, ext : Nat,
     rem : -1..C!SymMax, error : -1..1]

LEMMA ByteNat == ASSUME NEW b \in Bytes PROVE b \in Nat
  BY PlainWidths DEF Bytes

LEMMA Fields ==
    ASSUME NEW e \in Contexts
    PROVE  /\ e.buf \in Buffers /\ e.storage \in Nat /\ e.offs \in Nat
           /\ e.end_offs \in Nat /\ e.end_window \in Nat /\ e.nend_bits \in Nat
           /\ e.nbits_total \in Int /\ e.rng \in Nat /\ e.val \in Nat
           /\ e.ext \in Nat /\ e.rem \in -1..C!SymMax /\ e.error \in -1..1
  BY Zenon DEF Contexts

(* The fields in groups: the packet, the bytes held back for a carry, the   *)
(* raw bits, the interval.                                                  *)
SamePacket(e, x) ==
    /\ x.buf = e.buf /\ x.storage = e.storage
    /\ x.offs = e.offs /\ x.end_offs = e.end_offs /\ x.error = e.error
SameHeld(e, x) == x.ext = e.ext /\ x.rem = e.rem
SameRaw(e, x) == x.end_window = e.end_window /\ x.nend_bits = e.nend_bits
SameCode(e, x) ==
    x.rng = e.rng /\ x.val = e.val /\ x.nbits_total = e.nbits_total

-----------------------------------------------------------------------------
(* Writing bytes.  The two ends of the packet have not met, or just so.     *)
Apart(e) ==
    /\ e \in Contexts /\ e.buf \in [1..e.storage -> Bytes]
    /\ e.offs + e.end_offs <= e.storage

(* What the writing of a byte, at either end, leaves alone.                 *)
Writes(e, x) ==
    /\ Apart(x) /\ x.storage = e.storage /\ SameRaw(e, x) /\ SameCode(e, x)
    /\ e.error # 0 => x.error # 0

LEMMA WritesTrans ==
    ASSUME NEW e, NEW x, NEW y, Writes(e, x), Writes(x, y)
    PROVE  Writes(e, y)
  BY DEF Writes, SameRaw, SameCode

LEMMA WritesSame == ASSUME NEW e, Apart(e) PROVE Writes(e, e)
  BY DEF Writes, SameRaw, SameCode

LEMMA ByteIs == ASSUME NEW v \in Nat PROVE v % (C!SymMax + 1) \in Bytes
  <1>1. Base \in Nat \ {0} /\ C!SymMax = Base - 1 /\ C!SymMax + 1 = Base BY PlainWidths
  <1>2. v % Base \in 0..Base - 1 BY <1>1, Division
  <1> QED BY <1>1, <1>2 DEF Bytes

LEMMA BufferIs ==
    ASSUME NEW n \in Nat, NEW buf \in [1..n -> Bytes], NEW i \in 1..n, NEW b \in Bytes
    PROVE  /\ [buf EXCEPT ![i] = b] \in [1..n -> Bytes]
           /\ [buf EXCEPT ![i] = b] \in Buffers
  <1>1. [buf EXCEPT ![i] = b] \in [1..n -> Bytes] OBVIOUS
  <1> QED BY <1>1 DEF Buffers

LEMMA ApartIs ==
    ASSUME NEW e, Apart(e)
    PROVE  /\ e \in Contexts /\ e.buf \in [1..e.storage -> Bytes]
           /\ e.offs + e.end_offs <= e.storage
           /\ e.offs \in Nat /\ e.end_offs \in Nat /\ e.storage \in Nat
  BY Fields DEF Apart

LEMMA Fails ==
    ASSUME NEW e, Apart(e), NEW x, x = [e EXCEPT !.error = -1]
    PROVE  Writes(e, x) /\ SameHeld(e, x) /\ x.offs = e.offs /\ x.end_offs = e.end_offs
           /\ x.error = -1
  <1>1. -1 \in -1..1 OBVIOUS
  <1>2. /\ x \in Contexts /\ x.buf = e.buf /\ x.storage = e.storage
        /\ x.offs = e.offs /\ x.end_offs = e.end_offs /\ x.error = -1
        /\ SameRaw(e, x) /\ SameCode(e, x) /\ SameHeld(e, x)
    BY <1>1, Zenon DEF Apart, Contexts, SameRaw, SameCode, SameHeld
  <1> QED BY <1>2 DEF Writes, Apart

LEMMA WriteByteIs ==
    ASSUME NEW e, Apart(e), NEW v \in Nat, NEW x, x = C!WriteByte(e, v)
    PROVE  /\ Writes(e, x) /\ SameHeld(e, x) /\ x.end_offs = e.end_offs
           /\ x.error = 0 => e.error = 0 /\ x.offs = e.offs + 1
           /\ x.error # 0 /\ e.error = 0 => e.offs + e.end_offs >= e.storage
  <1>1. CASE e.offs + e.end_offs >= e.storage
    <2>1. x = [e EXCEPT !.error = -1] BY <1>1 DEF C!WriteByte
    <2> QED BY <1>1, <2>1, Fails
  <1>2. CASE ~(e.offs + e.end_offs >= e.storage)
    <2> DEFINE c == [e.buf EXCEPT ![e.offs + 1] = v % (C!SymMax + 1)]
    <2>1. x = [e EXCEPT !.buf = c, !.offs = e.offs + 1]
      BY <1>2, Zenon DEF C!WriteByte
    <2>2. e.offs + 1 \in 1..e.storage /\ e.offs + 1 \in Nat
      BY <1>2, ApartIs
    <2>3. c \in [1..e.storage -> Bytes] /\ c \in Buffers
      BY <2>2, ApartIs, ByteIs, BufferIs
    <2> HIDE DEF c
    <2>4. /\ x \in Contexts /\ x.buf = c /\ x.error = e.error
          /\ x.offs = e.offs + 1 /\ x.end_offs = e.end_offs /\ x.storage = e.storage
          /\ SameRaw(e, x) /\ SameCode(e, x) /\ SameHeld(e, x)
      BY <2>1, <2>2, <2>3, Zenon DEF Apart, Contexts, SameRaw, SameCode, SameHeld
    <2> QED BY <1>2, <2>3, <2>4, ApartIs DEF Writes, Apart
  <1> QED BY <1>1, <1>2

LEMMA WriteByteAtEndIs ==
    ASSUME NEW e, Apart(e), NEW v \in Nat, NEW x, x = C!WriteByteAtEnd(e, v)
    PROVE  /\ Writes(e, x) /\ SameHeld(e, x) /\ x.offs = e.offs
           /\ x.error = 0 => e.error = 0 /\ x.end_offs = e.end_offs + 1
           /\ x.error # 0 /\ e.error = 0 => e.offs + e.end_offs >= e.storage
  <1>1. CASE e.offs + e.end_offs >= e.storage
    <2>1. x = [e EXCEPT !.error = -1] BY <1>1 DEF C!WriteByteAtEnd
    <2> QED BY <1>1, <2>1, Fails
  <1>2. CASE ~(e.offs + e.end_offs >= e.storage)
    <2> DEFINE c == [e.buf EXCEPT ![e.storage - e.end_offs] = v % (C!SymMax + 1)]
    <2>1. x = [e EXCEPT !.buf = c, !.end_offs = e.end_offs + 1]
      BY <1>2, Zenon DEF C!WriteByteAtEnd
    <2>2. e.storage - e.end_offs \in 1..e.storage /\ e.end_offs + 1 \in Nat
      BY <1>2, ApartIs
    <2>3. c \in [1..e.storage -> Bytes] /\ c \in Buffers
      BY <2>2, ApartIs, ByteIs, BufferIs
    <2> HIDE DEF c
    <2>4. /\ x \in Contexts /\ x.buf = c /\ x.error = e.error
          /\ x.offs = e.offs /\ x.end_offs = e.end_offs + 1 /\ x.storage = e.storage
          /\ SameRaw(e, x) /\ SameCode(e, x) /\ SameHeld(e, x)
      BY <2>1, <2>2, <2>3, Zenon DEF Apart, Contexts, SameRaw, SameCode, SameHeld
    <2> QED BY <1>2, <2>3, <2>4, ApartIs DEF Writes, Apart
  <1> QED BY <1>1, <1>2

(* The loop of Repeat, written out.                                         *)
Repeated(e, v, n, g) ==
    g = [i \in 0..n |-> IF i = 0 THEN e ELSE C!WriteByte(g[i - 1], v)]

LEMMA RepeatedExists ==
    ASSUME NEW e, NEW v, NEW n \in Nat
    PROVE  \E g : Repeated(e, v, n, g)
  <1> DEFINE S == {m \in Nat : \E g : Repeated(e, v, m, g)}
  <1>1. 0 \in S
    <2> DEFINE g == [i \in 0..0 |-> e]
    <2>1. g = [i \in 0..0 |-> IF i = 0 THEN e ELSE C!WriteByte(g[i - 1], v)] OBVIOUS
    <2> QED BY <2>1 DEF Repeated
  <1>2. ASSUME NEW m \in Nat, m \in S PROVE m + 1 \in S
    <2>1. PICK g : Repeated(e, v, m, g) BY <1>2
    <2> DEFINE h == [i \in 0..m + 1 |-> IF i = m + 1 THEN C!WriteByte(g[m], v) ELSE g[i]]
    <2>2. /\ g = [i \in 0..m |-> IF i = 0 THEN e ELSE C!WriteByte(g[i - 1], v)]
      BY <2>1 DEF Repeated
    <2>3. ASSUME NEW i \in 0..m + 1
          PROVE  h[i] = IF i = 0 THEN e ELSE C!WriteByte(h[i - 1], v)
      <3>1. CASE i = m + 1 BY <3>1
      <3>2. CASE i # m + 1
        <4>1. i \in 0..m /\ h[i] = g[i] BY <3>2
        <4>2. g[i] = IF i = 0 THEN e ELSE C!WriteByte(g[i - 1], v) BY <2>2, <4>1
        <4>3. i # 0 => i - 1 \in 0..m + 1 /\ i - 1 # m + 1 BY <4>1
        <4>4. i # 0 => h[i - 1] = g[i - 1] BY <4>3
        <4> QED BY <4>1, <4>2, <4>4
      <3> QED BY <3>1, <3>2
    <2>4. h = [i \in 0..m + 1 |-> IF i = 0 THEN e ELSE C!WriteByte(h[i - 1], v)]
      BY <2>3
    <2> HIDE DEF h
    <2> QED BY <2>4 DEF Repeated
  <1> HIDE DEF S
  <1>3. Nat \subseteq S BY <1>1, <1>2, SetInduction
  <1> QED BY <1>3 DEF S

LEMMA RepeatIs ==
    ASSUME NEW e, Apart(e), NEW v \in Nat, NEW n \in Nat, NEW x, x = C!Repeat(e, v, n)
    PROVE  /\ Writes(e, x) /\ SameHeld(e, x) /\ x.end_offs = e.end_offs
           /\ x.error = 0 => e.error = 0 /\ x.offs = e.offs + n
           /\ x.error # 0 /\ e.error = 0 => e.offs + e.end_offs + n > e.storage
  <1> DEFINE g == CHOOSE f : Repeated(e, v, n, f)
             Good(i) ==
               /\ Writes(e, g[i]) /\ SameHeld(e, g[i]) /\ g[i].end_offs = e.end_offs
               /\ g[i].error = 0 => e.error = 0 /\ g[i].offs = e.offs + i
               /\ g[i].error # 0 /\ e.error = 0 => e.offs + e.end_offs + i > e.storage
             S == {m \in Nat : m <= n => Good(m)}
  <1>1. Repeated(e, v, n, g) BY RepeatedExists
  <1>2. x = g[n] BY DEF C!Repeat, C!Times, Repeated
  <1> HIDE DEF g
  <1>3. g[0] = e /\ \A i \in 1..n : g[i] = C!WriteByte(g[i - 1], v)
    <2>1. g = [i \in 0..n |-> IF i = 0 THEN e ELSE C!WriteByte(g[i - 1], v)]
      BY <1>1 DEF Repeated
    <2> QED BY <2>1
  <1>4. Good(0)
    <2>1. e.offs \in Nat BY ApartIs
    <2> QED BY <1>3, <2>1, WritesSame DEF SameHeld
  <1>5. ASSUME NEW m \in Nat, m \in S PROVE m + 1 \in S
    <2> SUFFICES ASSUME m + 1 <= n PROVE Good(m + 1) OBVIOUS
    <2>1. Good(m) BY <1>5
    <2>2. g[m + 1] = C!WriteByte(g[m], v) BY <1>3
    <2>3. Apart(g[m]) BY <2>1 DEF Writes
    <2>4. /\ Writes(g[m], g[m + 1]) /\ SameHeld(g[m], g[m + 1])
          /\ g[m + 1].end_offs = g[m].end_offs
          /\ g[m + 1].error = 0 => g[m].error = 0 /\ g[m + 1].offs = g[m].offs + 1
          /\ g[m + 1].error # 0 /\ g[m].error = 0 =>
               g[m].offs + g[m].end_offs >= g[m].storage
      BY <2>2, <2>3, WriteByteIs
    <2>5. Writes(e, g[m + 1]) BY <2>1, <2>4, WritesTrans
    <2>6. e.offs \in Nat /\ e.end_offs \in Nat /\ e.storage \in Nat
          /\ g[m].storage = e.storage
      BY <2>1, ApartIs DEF Writes
    <2> QED BY <2>1, <2>4, <2>5, <2>6 DEF SameHeld
  <1>6. n \in S
    <2>1. 0 \in S BY <1>4
    <2> HIDE DEF S
    <2> QED BY <1>5, <2>1, SetInduction
  <1> QED BY <1>2, <1>6

-----------------------------------------------------------------------------
(* What is written or held back, in bytes.                                  *)
Held(e) == e.ext + (IF e.rem >= 0 THEN 1 ELSE 0)
Used(e) == e.offs + e.end_offs + Held(e)

LEMMA CarryOutIs ==
    ASSUME NEW e, Apart(e), NEW c \in Nat, NEW x, x = C!CarryOut(e, c)
    PROVE  /\ Writes(e, x) /\ x.end_offs = e.end_offs
           /\ e.rem >= 0 \/ c # C!SymMax => x.rem >= 0
           /\ c # C!SymMax => x.ext = 0
           /\ x.error = 0 => e.error = 0 /\ Used(x) = Used(e) + 1
           /\ x.error # 0 /\ e.error = 0 => Used(e) > e.storage
  <1>1. /\ e \in Contexts /\ e.ext \in Nat /\ e.rem \in -1..C!SymMax /\ C!SymMax \in Nat
        /\ e.offs \in Nat /\ e.end_offs \in Nat /\ e.storage \in Nat
        /\ C!SymMax + 1 \in Nat \ {0}
    BY ApartIs, Fields, PlainWidths
  <1>2. CASE c = C!SymMax
    <2>1. x = [e EXCEPT !.ext = e.ext + 1] BY <1>2, Zenon DEF C!CarryOut
    <2>2. e.ext + 1 \in Nat BY <1>1
    <2>3. /\ x \in Contexts /\ x.ext = e.ext + 1 /\ x.rem = e.rem
          /\ SamePacket(e, x) /\ SameRaw(e, x) /\ SameCode(e, x)
      BY <1>1, <2>1, <2>2, Zenon DEF Contexts, SamePacket, SameRaw, SameCode
    <2>4. Writes(e, x) BY <2>3 DEF Writes, Apart, SamePacket
    <2> QED BY <1>1, <1>2, <2>3, <2>4 DEF SamePacket, Used, Held
  <1>3. CASE c # C!SymMax
    <2> DEFINE carry == c \div (C!SymMax + 1)
               first == IF e.rem >= 0 THEN C!WriteByte(e, e.rem + carry) ELSE e
               b == (C!SymMax + carry) % (C!SymMax + 1)
               rest == C!Repeat(first, b, e.ext)
               r == c % (C!SymMax + 1)
    <2>1. x = [rest EXCEPT !.ext = 0, !.rem = r]
      BY <1>3, Zenon DEF C!CarryOut
    <2>2. carry \in Nat BY <1>1, Division
    <2>3. b \in Nat /\ r \in Bytes
      <3>1. C!SymMax + carry \in Nat /\ c \in Nat
        <4> HIDE DEF carry
        <4> QED BY <1>1, <2>2
      <3>2. b \in Bytes /\ r \in Bytes BY <3>1, ByteIs, Zenon
      <3> QED BY <3>2, ByteNat, Zenon
    <2> HIDE DEF carry, b, r
    <2>4. /\ Writes(e, first) /\ SameHeld(e, first) /\ first.end_offs = e.end_offs
          /\ first.error = 0 => e.error = 0 /\ first.offs = e.offs + Held(e) - e.ext
          /\ first.error # 0 /\ e.error = 0 =>
               e.rem >= 0 /\ e.offs + e.end_offs >= e.storage
      <3>1. CASE e.rem >= 0
        <4>1. first = C!WriteByte(e, e.rem + carry) /\ e.rem + carry \in Nat
          BY <1>1, <2>2, <3>1
        <4> HIDE DEF first
        <4>2. Held(e) - e.ext = 1 BY <1>1, <3>1 DEF Held
        <4> QED BY <1>1, <3>1, <4>1, <4>2, WriteByteIs
      <3>2. CASE ~(e.rem >= 0)
        <4>1. first = e BY <3>2
        <4>2. Held(e) - e.ext = 0 BY <1>1, <3>2 DEF Held
        <4> QED BY <1>1, <4>1, <4>2, WritesSame DEF SameHeld
      <3> QED BY <3>1, <3>2
    <2> HIDE DEF first
    <2>5. /\ Writes(first, rest) /\ SameHeld(first, rest)
          /\ rest.end_offs = first.end_offs
          /\ rest.error = 0 => first.error = 0 /\ rest.offs = first.offs + e.ext
          /\ rest.error # 0 /\ first.error = 0 =>
               first.offs + first.end_offs + e.ext > first.storage
      <3>1. Apart(first) BY <2>4 DEF Writes
      <3> QED BY <1>1, <2>3, <3>1, RepeatIs
    <2> HIDE DEF rest
    <2>6. Writes(e, rest) BY <2>4, <2>5, WritesTrans
    <2>7. r \in -1..C!SymMax /\ r >= 0 /\ 0 \in Nat BY <1>1, <2>3 DEF Bytes
    <2>8. /\ x \in Contexts /\ x.ext = 0 /\ x.rem = r
          /\ SamePacket(rest, x) /\ SameRaw(rest, x) /\ SameCode(rest, x)
      <3>1. rest \in Contexts BY <2>6 DEF Writes, Apart
      <3> QED BY <2>1, <2>7, <3>1, Zenon
              DEF Contexts, SamePacket, SameRaw, SameCode
    <2>9. Writes(e, x)
      BY <2>6, <2>8 DEF Writes, Apart, SamePacket, SameRaw, SameCode
    <2>10. /\ first.storage = e.storage /\ rest.error = x.error /\ rest.offs = x.offs
           /\ rest.end_offs = x.end_offs /\ Held(x) = 1
      BY <2>4, <2>7, <2>8 DEF Writes, SamePacket, Held
    <2>11. Held(e) \in Nat /\ e.ext <= Held(e) /\ (e.rem >= 0 => Held(e) >= 1)
      BY <1>1 DEF Held
    <2>12. x.error = 0 => e.error = 0 /\ Used(x) = Used(e) + 1
      BY <1>1, <2>4, <2>5, <2>10, <2>11 DEF Used
    <2>13. x.error # 0 /\ e.error = 0 => Used(e) > e.storage
      BY <1>1, <2>4, <2>5, <2>10, <2>11 DEF Used
    <2> QED BY <1>1, <1>3, <2>4, <2>5, <2>7, <2>8, <2>9, <2>10, <2>12, <2>13
  <1> QED BY <1>2, <1>3

-----------------------------------------------------------------------------
(* The encoder between two symbols, but that its range may want             *)
(* normalization: the interval lies in the register and its carry bit, the  *)
(* raw bits in their window, and nbits_total counts what was written and    *)
(* held back, or more than the packet has once a byte found no room.        *)
Bits(n) == SymBits * n
RoomOK(e) ==
    /\ e.error = 0 =>
         e.nbits_total = CodeBits + 1 + Bits(Used(e)) + e.nend_bits
    /\ e.error # 0 => e.nbits_total > CodeBits + Bits(e.storage)
WindowOK(e) == e.nend_bits <= CodeBits /\ e.end_window < 2^e.nend_bits
EncLoose(e) ==
    /\ Apart(e) /\ e.rng \in 1..C!CodeTop /\ e.val + e.rng <= 2 * C!CodeTop
    /\ WindowOK(e) /\ RoomOK(e)
EncOK(e) == EncLoose(e) /\ e.rng > C!CodeBot

(* While no byte of the header has been put out, the bits that it reserved  *)
(* are zeros and nothing after them has carried into them.                  *)
HeaderOpen(e) == e.rem = -1 => e.val + e.rng <= C!CodeTop \div 2^HeaderBits

LEMMA EncFields ==
    ASSUME NEW e, EncLoose(e)
    PROVE  /\ e \in Contexts /\ e.buf \in [1..e.storage -> Bytes]
           /\ e.offs + e.end_offs <= e.storage /\ e.offs \in Nat /\ e.end_offs \in Nat
           /\ e.storage \in Nat /\ e.ext \in Nat /\ e.rem \in -1..C!SymMax
           /\ e.rng \in Nat /\ e.val \in Nat /\ e.nbits_total \in Int
           /\ e.nend_bits \in Nat /\ e.end_window \in Nat /\ e.error \in -1..1
           /\ Used(e) \in Nat /\ Held(e) \in Nat
  <1>1. Apart(e) BY DEF EncLoose
  <1>2. e \in Contexts BY <1>1 DEF Apart
  <1>3. e.ext \in Nat /\ e.offs \in Nat /\ e.end_offs \in Nat BY <1>2, Fields
  <1>4. Held(e) \in Nat BY <1>3 DEF Held
  <1>5. Used(e) \in Nat BY <1>3, <1>4 DEF Used
  <1>6. e.rem \in -1..C!SymMax /\ e.error \in -1..1 BY <1>2, Fields, Zenon
  <1> QED BY <1>1, <1>2, <1>4, <1>5, <1>6, ApartIs, Fields, Zenon

LEMMA SymTimes ==
    ASSUME NEW a \in Nat, NEW b \in Nat
    PROVE  /\ Bits(a) \in Nat /\ Bits(a + 1) = Bits(a) + SymBits
           /\ a <= b => Bits(a) <= Bits(b)
           /\ a < b => Bits(a) + SymBits <= Bits(b)
  <1>1. SymBits \in Nat BY SmallFacts
  <1>2. SymBits * (a + 1) = SymBits * a + SymBits /\ SymBits * a \in Nat BY <1>1
  <1>3. a <= b => SymBits * a <= SymBits * b BY <1>1, ProductGrows
  <1>4. a < b => SymBits * (a + 1) <= SymBits * b BY <1>1, ProductGrows
  <1> QED BY <1>2, <1>3, <1>4 DEF Bits

(* The room that a byte takes.                                              *)
LEMMA RoomStep ==
    ASSUME NEW e, EncLoose(e), NEW x, NEW more \in Nat, NEW u \in Nat, NEW k \in Nat,
           x.storage = e.storage, x.nend_bits = k,
           e.error # 0 => x.error # 0,
           x.nbits_total = e.nbits_total + more,
           x.error = 0 => Used(x) = u /\ more + e.nend_bits - k = Bits(u) - Bits(Used(e)),
           x.error # 0 /\ e.error = 0 => Bits(Used(e)) + e.nend_bits >= Bits(e.storage)
    PROVE  RoomOK(x)
  <1>1. CodeBits \in Nat BY SmallFacts
  <1>2. e.storage \in Nat /\ e.nbits_total \in Int /\ e.nend_bits \in Nat
        /\ Used(e) \in Nat
    BY EncFields
  <1>3. Bits(Used(e)) \in Nat /\ Bits(u) \in Nat /\ Bits(e.storage) \in Nat
    BY <1>2, SymTimes
  <1>4. RoomOK(e) BY DEF EncLoose
  <1>5. ASSUME x.error = 0
        PROVE  x.nbits_total = CodeBits + 1 + Bits(u) + k
    <2>1. e.nbits_total = CodeBits + 1 + Bits(Used(e)) + e.nend_bits
      BY <1>4, <1>5 DEF RoomOK
    <2> QED BY <1>1, <1>2, <1>3, <1>5, <2>1
  <1>6. ASSUME x.error # 0
        PROVE  x.nbits_total > CodeBits + Bits(e.storage)
    <2>1. CASE e.error # 0
      BY <1>1, <1>2, <1>3, <1>4, <2>1 DEF RoomOK
    <2>2. CASE e.error = 0
      BY <1>1, <1>2, <1>3, <1>4, <1>6, <2>2 DEF RoomOK
    <2> QED BY <2>1, <2>2
  <1> QED BY <1>5, <1>6 DEF RoomOK

(* One turn of the loop of ec_enc_normalize.                                *)
EncShift(e) ==
    IF e.rng <= C!CodeBot
    THEN [C!CarryOut(e, e.val \div 2^C!CodeShift) EXCEPT
            !.val = (e.val * 2^SymBits) % C!CodeTop,
            !.rng = @ * 2^SymBits, !.nbits_total = @ + SymBits]
    ELSE e

LEMMA DivisionBelow ==
    ASSUME NEW a \in Nat, NEW b \in Nat \ {0}
    PROVE  a \div b \in Nat /\ b * (a \div b) <= a /\ a % b \in 0..b - 1
  <1>1. a = b * (a \div b) + (a % b) /\ a % b \in 0..b - 1 /\ a \div b \in Nat
    BY Division
  <1>2. b * (a \div b) \in Nat BY <1>1
  <1> QED BY <1>1, <1>2

LEMMA HeaderCarries ==
    ASSUME NEW v \in Nat, v < C!CodeTop \div 2^HeaderBits
    PROVE  v \div C!CodeBot < C!SymMax
  <1>1. HeaderBits \in Nat /\ HeaderBits >= 1
    BY CoderAssumption, SmallFacts DEF C!RangeCoderAssumption
  <1>2. 2^HeaderBits \in Nat /\ 2^HeaderBits >= 2
    <2>1. 2^1 = 2 OBVIOUS
    <2> QED BY <1>1, <2>1, PowMonotone, PowNat
  <1> DEFINE p == 2^HeaderBits
  <1>3. p \in Nat /\ p >= 2 BY <1>2
  <1> HIDE DEF p
  <1>4. /\ Base \in Nat /\ Base >= 4 /\ Half \in Nat /\ Base = 2 * Half
        /\ C!SymMax = Base - 1
        /\ C!CodeBot \in Nat /\ C!CodeBot >= 32 /\ C!CodeTop = C!CodeBot * Base
        /\ C!CodeTop \in Nat
    BY Widths
  <1>5. C!CodeTop \div p \in Nat /\ p * (C!CodeTop \div p) <= C!CodeTop
    <2>1. p \in Nat \ {0} /\ C!CodeTop \in Nat BY <1>3, <1>4
    <2> QED BY <2>1, DivisionBelow, Zenon
  <1> DEFINE q == C!CodeTop \div p
  <1>6. 2 * q <= p * q /\ q \in Nat BY <1>3, <1>5, ProductGrows
  <1>7. p * q <= C!CodeTop /\ v < q BY <1>5 DEF p
  <1> HIDE DEF q
  <1>8. 2 * q <= C!CodeTop BY <1>3, <1>4, <1>6, <1>7
  <1>9. C!CodeTop = 2 * (C!CodeBot * Half)
    BY <1>4
  <1>10. v < C!CodeBot * Half BY <1>4, <1>6, <1>7, <1>8, <1>9
  <1>11. v \div C!CodeBot < Half BY <1>4, <1>10, QuotientBelow
  <1> QED BY <1>4, <1>11, Division

LEMMA EncShiftIs ==
    ASSUME NEW e, EncLoose(e), NEW x, x = EncShift(e)
    PROVE  /\ EncLoose(x)
           /\ x.rng = IF e.rng <= C!CodeBot THEN e.rng * Base ELSE e.rng
           /\ HeaderOpen(e) => HeaderOpen(x)
  <1>1. CASE ~(e.rng <= C!CodeBot)
    BY <1>1 DEF EncShift
  <1>2. CASE e.rng <= C!CodeBot
    <2> DEFINE c == e.val \div C!CodeBot
               y == C!CarryOut(e, c)
               v == (e.val * Base) % C!CodeTop
    <2>1. /\ Base \in Nat /\ Base >= 4 /\ C!SymMax = Base - 1
          /\ C!CodeBot \in Nat /\ C!CodeBot >= 32 /\ C!CodeTop = C!CodeBot * Base
          /\ C!CodeTop \in Nat
          /\ C!CodeTop > 0 /\ SymBits \in Nat
      BY Widths, SmallFacts
    <2>2. c \in Nat
      <3>1. C!CodeBot \in Nat \ {0} /\ e.val \in Nat BY <2>1, EncFields
      <3> QED BY <3>1, DivisionBelow, Zenon
    <2>3. e.val * Base \in Nat BY <2>1, EncFields
    <2>4. v \in 0..C!CodeTop - 1
      <3>1. C!CodeTop \in Nat \ {0} BY <2>1
      <3> QED BY <2>3, <3>1, DivisionBelow, Zenon
    <2>5. x = [y EXCEPT !.val = v, !.rng = y.rng * Base,
                        !.nbits_total = y.nbits_total + SymBits]
      BY <1>2, Widths, Zenon DEF EncShift
    <2> HIDE DEF c, v
    <2>6. /\ Writes(e, y) /\ y.end_offs = e.end_offs
          /\ e.rem >= 0 \/ c # C!SymMax => y.rem >= 0
          /\ y.error = 0 => e.error = 0 /\ Used(y) = Used(e) + 1
          /\ y.error # 0 /\ e.error = 0 => Used(e) > e.storage
      BY <2>2, CarryOutIs DEF EncLoose
    <2> HIDE DEF y
    <2>7. y.rng * Base \in Nat /\ y.nbits_total + SymBits \in Int
          /\ y.rng * Base <= C!CodeTop
          /\ y.rng * Base >= 1 /\ y.rng = e.rng
      <3>1. y.rng = e.rng /\ y.nbits_total = e.nbits_total
        BY <2>6 DEF Writes, SameCode
      <3>2. e.rng \in Nat /\ e.rng >= 1 BY EncFields DEF EncLoose
      <3>3. e.rng * Base <= C!CodeBot * Base /\ 1 * Base <= e.rng * Base
        BY <1>2, <2>1, <3>2, ProductGrows
      <3> QED BY <2>1, <3>1, <3>2, <3>3, EncFields
    <2>8. v \in Nat BY <2>1, <2>4
    <2>9. /\ x \in Contexts /\ x.val = v /\ x.rng = y.rng * Base
          /\ x.nbits_total = y.nbits_total + SymBits
          /\ SamePacket(y, x) /\ SameHeld(y, x) /\ SameRaw(y, x)
      <3>1. y \in Contexts BY <2>6 DEF Writes, Apart
      <3>2. x \in Contexts BY <2>5, <2>7, <2>8, <3>1, Zenon DEF Contexts
      <3> QED BY <2>5, <3>1, <3>2, Zenon DEF Contexts, SamePacket, SameHeld, SameRaw
    <2>10. Apart(x) BY <2>6, <2>9 DEF Writes, Apart, SamePacket
    <2>11. x.rng \in 1..C!CodeTop /\ x.val + x.rng <= 2 * C!CodeTop
      BY <2>1, <2>4, <2>7, <2>9
    <2>12. WindowOK(x)
      BY <2>6, <2>9 DEF EncLoose, WindowOK, SameRaw, Writes
    <2>13. /\ x.storage = e.storage /\ x.nend_bits = e.nend_bits /\ x.error = y.error
           /\ Used(x) = Used(y) /\ x.nbits_total = e.nbits_total + SymBits
      BY <2>6, <2>9 DEF Writes, SameRaw, SameCode, SamePacket, SameHeld, Used, Held
    <2>14. RoomOK(x)
      <3>1. Used(e) \in Nat /\ e.storage \in Nat /\ e.nend_bits \in Nat
            /\ e.nbits_total \in Int
        BY EncFields
      <3>2. Bits(Used(e) + 1) = Bits(Used(e)) + SymBits
            /\ Bits(Used(e)) \in Nat /\ Bits(e.storage) \in Nat
            /\ (Used(e) > e.storage => Bits(Used(e)) >= Bits(e.storage))
        BY <3>1, SymTimes
      <3>3. e.error # 0 => x.error # 0 BY <2>6, <2>13 DEF Writes
      <3>4. x.error = 0 =>
               /\ Used(x) = Used(e) + 1
               /\ SymBits + e.nend_bits - e.nend_bits = Bits(Used(e) + 1) - Bits(Used(e))
        BY <2>1, <2>6, <2>13, <3>1, <3>2
      <3>5. x.error # 0 /\ e.error = 0 => Bits(Used(e)) + e.nend_bits >= Bits(e.storage)
        BY <2>6, <2>13, <3>1, <3>2
      <3>6. Used(e) + 1 \in Nat /\ SymBits \in Nat
        BY <2>1, <3>1
      <3> QED BY <2>13, <3>1, <3>3, <3>4, <3>5, <3>6, RoomStep
    <2>15. HeaderOpen(e) => HeaderOpen(x)
      <3>1. CASE e.rem # -1
        BY <2>6, <2>9, <3>1, EncFields DEF HeaderOpen, SameHeld
      <3>2. CASE e.rem = -1 /\ HeaderOpen(e)
        <4>1. e.val < C!CodeTop \div 2^HeaderBits
          <5>1. e.val + e.rng <= C!CodeTop \div 2^HeaderBits BY <3>2 DEF HeaderOpen
          <5>2. C!CodeTop \div 2^HeaderBits \in Int
            <6>1. 2^HeaderBits \in Nat \ {0}
              BY CoderAssumption, SmallFacts, PowPositive DEF C!RangeCoderAssumption
            <6>2. C!CodeTop \in Nat BY <2>1
            <6>3. C!CodeTop \div 2^HeaderBits \in Nat BY <6>1, <6>2, DivisionBelow, Zenon
            <6> QED BY <6>3
          <5> QED BY <5>1, <5>2, EncFields DEF EncLoose
        <4>2. c < C!SymMax BY <4>1, EncFields, HeaderCarries DEF c
        <4>3. y.rem >= 0 BY <2>1, <2>2, <2>6, <4>2
        <4> QED BY <2>9, <4>3 DEF HeaderOpen, SameHeld
      <3> QED BY <3>1, <3>2
    <2> QED BY <1>2, <2>7, <2>9, <2>10, <2>11, <2>12, <2>14, <2>15 DEF EncLoose
  <1> QED BY <1>1, <1>2

(* A loop turns four times: what it has after the last turn.                *)
LEMMA EncNormalizeTurns ==
    ASSUME NEW e
    PROVE  C!EncNormalize(e) = EncShift(EncShift(EncShift(EncShift(e))))
  <1> DEFINE n == CodeBits \div SymBits
             g == CHOOSE f : f = [i \in 0..n |-> IF i = 0 THEN e ELSE EncShift(f[i - 1])]
  <1>1. C!EncNormalize(e) = g[n] BY Zenon DEF C!EncNormalize, C!While, C!Times, EncShift
  <1>2. n = 4 BY SmallFacts
  <1> HIDE DEF n
  <1>3. \E f : f = [i \in 0..n |-> IF i = 0 THEN e ELSE EncShift(f[i - 1])]
    <2> DEFINE a == EncShift(e)
               b == EncShift(a)
               c == EncShift(b)
               d == EncShift(c)
               h == [i \in 0..n |-> IF i = 0 THEN e ELSE IF i = 1 THEN a
                                    ELSE IF i = 2 THEN b ELSE IF i = 3 THEN c ELSE d]
    <2>1. ASSUME NEW i \in 0..n PROVE h[i] = IF i = 0 THEN e ELSE EncShift(h[i - 1])
      <3>1. i = 0 \/ i = 1 \/ i = 2 \/ i = 3 \/ i = 4 BY <1>2
      <3> HIDE DEF a, b, c, d
      <3>2. h[0] = e /\ h[1] = a /\ h[2] = b /\ h[3] = c /\ h[4] = d BY <1>2
      <3>3. a = EncShift(e) /\ b = EncShift(a) /\ c = EncShift(b) /\ d = EncShift(c)
        BY DEF a, b, c, d
      <3> QED BY <3>1, <3>2, <3>3
    <2>2. h = [i \in 0..n |-> IF i = 0 THEN e ELSE EncShift(h[i - 1])] BY <2>1
    <2> HIDE DEF h
    <2> QED BY <2>2
  <1>4. g = [i \in 0..n |-> IF i = 0 THEN e ELSE EncShift(g[i - 1])] BY <1>3
  <1> HIDE DEF g
  <1>5. g[0] = e /\ g[1] = EncShift(g[0]) /\ g[2] = EncShift(g[1])
        /\ g[3] = EncShift(g[2]) /\ g[4] = EncShift(g[3])
    BY <1>2, <1>4
  <1> QED BY <1>1, <1>2, <1>5

LEMMA EncNormalizeIs ==
    ASSUME NEW e, EncLoose(e), NEW x, x = C!EncNormalize(e)
    PROVE  EncOK(x) /\ (HeaderOpen(e) => HeaderOpen(x))
  <1> DEFINE a == EncShift(e)
             b == EncShift(a)
             c == EncShift(b)
             d == EncShift(c)
  <1>1. x = d BY EncNormalizeTurns
  <1>2. /\ EncLoose(a) /\ a.rng = IF e.rng <= C!CodeBot THEN e.rng * Base ELSE e.rng
        /\ HeaderOpen(e) => HeaderOpen(a)
    BY EncShiftIs
  <1> HIDE DEF a
  <1>3. /\ EncLoose(b) /\ b.rng = IF a.rng <= C!CodeBot THEN a.rng * Base ELSE a.rng
        /\ HeaderOpen(a) => HeaderOpen(b)
    BY <1>2, EncShiftIs
  <1> HIDE DEF b
  <1>4. /\ EncLoose(c) /\ c.rng = IF b.rng <= C!CodeBot THEN b.rng * Base ELSE b.rng
        /\ HeaderOpen(b) => HeaderOpen(c)
    BY <1>3, EncShiftIs
  <1> HIDE DEF c
  <1>5. /\ EncLoose(d) /\ d.rng = IF c.rng <= C!CodeBot THEN c.rng * Base ELSE c.rng
        /\ HeaderOpen(c) => HeaderOpen(d)
    BY <1>4, EncShiftIs
  <1> HIDE DEF d
  <1>6. /\ Base \in Nat /\ C!CodeBot \in Nat /\ Base >= 4 /\ C!CodeBot < Base * Base * Base
    <2>1. Base \in Nat /\ Base >= 4 /\ Half \in Nat /\ Half >= 2 /\ Base = 2 * Half
          /\ C!CodeBot = Base * Base * Half /\ C!CodeBot \in Nat /\ C!CodeBot >= 32
      BY Widths
    <2>2. Base * Base * Base = 2 * C!CodeBot BY <2>1
    <2> QED BY <2>1, <2>2
  <1>7. /\ e.rng \in Nat /\ a.rng \in Nat /\ b.rng \in Nat /\ c.rng \in Nat /\ d.rng \in Nat
        /\ e.rng >= 1
    <2>1. e.rng \in Nat /\ a.rng \in Nat /\ b.rng \in Nat /\ c.rng \in Nat /\ d.rng \in Nat
      BY <1>2, <1>3, <1>4, <1>5, EncFields
    <2>2. e.rng >= 1 BY <2>1 DEF EncLoose
    <2> QED BY <2>1, <2>2
  <1> DEFINE p == Base * Base
             q == p * Base
  <1>8. p \in Nat /\ q \in Nat /\ C!CodeBot < q BY <1>6
  <1>9. a.rng > C!CodeBot \/ a.rng >= Base
    <2>1. 1 * Base <= e.rng * Base BY <1>6, <1>7, ProductGrows
    <2> QED BY <1>2, <1>6, <1>7, <2>1
  <1>10. b.rng > C!CodeBot \/ b.rng >= p
    <2>1. a.rng >= Base => Base * Base <= a.rng * Base BY <1>6, <1>7, ProductGrows
    <2> QED BY <1>3, <1>6, <1>7, <1>9, <2>1
  <1>11. c.rng > C!CodeBot \/ c.rng >= q
    <2> HIDE DEF p
    <2>1. b.rng >= p => p * Base <= b.rng * Base BY <1>6, <1>7, <1>8, ProductGrows
    <2> QED BY <1>4, <1>6, <1>7, <1>8, <1>10, <2>1
  <1>12. d.rng > C!CodeBot
    <2> HIDE DEF q
    <2>1. c.rng > C!CodeBot BY <1>6, <1>7, <1>8, <1>11
    <2> QED BY <1>5, <1>6, <1>7, <2>1
  <1> QED BY <1>1, <1>2, <1>3, <1>4, <1>5, <1>12 DEF EncOK

(* A part of the interval.                                                  *)
Part(e, x, v, r) ==
    /\ x \in Contexts /\ x.val = v /\ x.rng = r /\ x.nbits_total = e.nbits_total
    /\ SamePacket(e, x) /\ SameHeld(e, x) /\ SameRaw(e, x)

LEMMA Narrowed ==
    ASSUME NEW e, EncLoose(e), NEW v \in Nat, NEW r \in 1..e.rng,
           v + r <= e.val + e.rng, NEW x, Part(e, x, v, r)
    PROVE  EncLoose(x) /\ x.val = v /\ x.rng = r /\ (HeaderOpen(e) => HeaderOpen(x))
           /\ x.rem = e.rem
  <1>1. r \in Nat /\ e \in Contexts /\ e.rng \in Nat /\ e.val \in Nat BY EncFields
  <1>2. /\ x \in Contexts /\ x.val = v /\ x.rng = r /\ x.nbits_total = e.nbits_total
        /\ SamePacket(e, x) /\ SameHeld(e, x) /\ SameRaw(e, x)
    BY DEF Part
  <1>3. Apart(x) BY <1>2 DEF EncLoose, Apart, SamePacket
  <1>4. WindowOK(x) BY <1>2 DEF EncLoose, WindowOK, SameRaw
  <1>5. RoomOK(x)
    BY <1>2 DEF EncLoose, RoomOK, SameRaw, SamePacket, SameHeld, Used, Held
  <1>6. C!CodeTop \in Nat /\ e.rng <= C!CodeTop /\ e.val + e.rng <= 2 * C!CodeTop
    BY PlainWidths DEF EncLoose
  <1>7. x.rng \in 1..C!CodeTop /\ x.val + x.rng <= 2 * C!CodeTop BY <1>1, <1>2, <1>6
  <1>8. HeaderOpen(e) => HeaderOpen(x)
    <2>1. C!CodeTop \div 2^HeaderBits \in Nat
      <3>1. 2^HeaderBits \in Nat \ {0}
        BY CoderAssumption, SmallFacts, PowPositive DEF C!RangeCoderAssumption
      <3> QED BY <1>6, <3>1, DivisionBelow, Zenon
    <2> QED BY <1>1, <1>2, <2>1 DEF HeaderOpen, SameHeld
  <1> QED BY <1>2, <1>3, <1>4, <1>5, <1>7, <1>8 DEF EncLoose, SameHeld

LEMMA EncodePartIs ==
    ASSUME NEW e, EncLoose(e), NEW r \in Nat, r > 0, NEW fl \in Nat, NEW fh \in Nat,
           NEW ft \in Nat, fl < fh, fh <= ft, r * ft <= e.rng,
           NEW x, x = C!EncodePart(e, r, fl, fh, ft)
    PROVE  EncOK(x) /\ (HeaderOpen(e) => HeaderOpen(x))
  <1>1. e \in Contexts /\ e.val \in Nat /\ e.rng \in Nat BY EncFields
  <1>2. CASE fl > 0
    <2> DEFINE v == e.val + e.rng - r * (ft - fl)
               s == r * (fh - fl)
               y == [e EXCEPT !.val = v, !.rng = s]
    <2>1. x = C!EncNormalize(y) BY <1>2, Zenon DEF C!EncodePart
    <2>2. /\ ft - fl \in Nat /\ fh - fl \in Nat /\ ft - fh \in Nat
          /\ fh - fl >= 1 /\ ft - fl <= ft /\ fh - fl <= ft
          /\ (ft - fh) + (fh - fl) = ft - fl
      OBVIOUS
    <2>3. r * (ft - fl) \in Nat /\ r * (ft - fl) <= r * ft /\ s \in Nat /\ s <= r * ft
          /\ r * 1 <= s /\ r * ft \in Nat
      BY <2>2, ProductGrows
    <2>4. r * (ft - fl) = r * (ft - fh) + s /\ r * (ft - fh) \in Nat BY <2>2
    <2> DEFINE o == r * (ft - fl)
               w == r * (ft - fh)
    <2>5. o \in Nat /\ o <= e.rng /\ s \in Nat /\ s <= e.rng /\ s >= 1 /\ o = w + s
          /\ w \in Nat
      <3> DEFINE t == r * ft
      <3>1. t <= e.rng OBVIOUS
      <3>2. o <= t /\ s <= t /\ t \in Nat /\ r <= s BY <2>3
      <3> HIDE DEF t, o, s, w
      <3> QED BY <1>1, <2>3, <2>4, <3>1, <3>2 DEF o, w
    <2>6. v = e.val + e.rng - o OBVIOUS
    <2> HIDE DEF o, s, w, v
    <2>7. v \in Nat /\ s \in Nat /\ s \in 1..e.rng /\ v + s <= e.val + e.rng
      BY <1>1, <2>5, <2>6
    <2>8. EncLoose(y) /\ (HeaderOpen(e) => HeaderOpen(y))
      <3>1. y = [e EXCEPT !.val = v, !.rng = s] OBVIOUS
      <3> HIDE DEF y
      <3>2. Part(e, y, v, s)
        BY <1>1, <2>5, <2>7, <3>1, Zenon
           DEF Part, Contexts, SamePacket, SameHeld, SameRaw
      <3> QED BY <2>7, <3>2, Narrowed
    <2> QED BY <2>1, <2>8, EncNormalizeIs
  <1>3. CASE ~(fl > 0)
    <2> DEFINE w == r * (ft - fh)
               s == e.rng - w
               y == [e EXCEPT !.rng = s]
    <2>1. x = C!EncNormalize(y) BY <1>3, Zenon DEF C!EncodePart
    <2>2. ft - fh \in Nat /\ (ft - fh) + 1 <= ft OBVIOUS
    <2>3. w \in Nat /\ w + r <= r * ft
      <3>1. r * ((ft - fh) + 1) <= r * ft BY <2>2, ProductGrows
      <3>2. r * ((ft - fh) + 1) = r * (ft - fh) + r BY <2>2
      <3> QED BY <2>2, <3>1, <3>2
    <2>4. r * ft \in Nat OBVIOUS
    <2> DEFINE t == r * ft
    <2>5. t \in Nat /\ t <= e.rng /\ w + r <= t BY <2>3, <2>4
    <2> HIDE DEF w, t
    <2>6. s \in 1..e.rng /\ e.val + s <= e.val + e.rng /\ s \in Nat
      BY <1>1, <2>3, <2>5
    <2> HIDE DEF s
    <2>7. EncLoose(y) /\ (HeaderOpen(e) => HeaderOpen(y))
      <3>1. y = [e EXCEPT !.rng = s] OBVIOUS
      <3> HIDE DEF y
      <3>2. Part(e, y, e.val, s)
        BY <1>1, <2>6, <3>1, Zenon
           DEF Part, Contexts, SamePacket, SameHeld, SameRaw
      <3> QED BY <1>1, <2>6, <3>2, Narrowed
    <2> QED BY <2>1, <2>7, EncNormalizeIs
  <1> QED BY <1>2, <1>3

LEMMA ShareIs ==
    ASSUME NEW n \in Nat, NEW k \in Nat \ {0}, k <= n
    PROVE  n \div k \in Nat /\ n \div k >= 1 /\ (n \div k) * k <= n
  <1>1. n \div k \in Nat /\ k * (n \div k) <= n BY DivisionBelow, Zenon
  <1>2. n \div k >= 1
    <2>1. k * 1 <= n OBVIOUS
    <2>2. 1 <= n \div k BY <2>1, QuotientAbove
    <2> QED BY <2>2
  <1>3. \A q \in Nat : q * k = k * q OBVIOUS
  <1>4. (n \div k) * k = k * (n \div k) BY <1>1, <1>3
  <1> QED BY <1>1, <1>2, <1>4

LEMMA EncodeIs ==
    ASSUME NEW e, EncOK(e), NEW fl \in Nat, NEW fh \in Nat, NEW ft \in Nat,
           fl < fh, fh <= ft, ft <= C!CodeBot, NEW x, x = C!Encode(e, fl, fh, ft)
    PROVE  EncOK(x) /\ (HeaderOpen(e) => HeaderOpen(x))
  <1>1. EncLoose(e) /\ e.rng \in Nat /\ C!CodeBot \in Nat /\ e.rng > C!CodeBot
    BY EncFields, PlainWidths DEF EncOK
  <1>2. ft \in Nat \ {0} /\ ft <= e.rng BY <1>1
  <1> DEFINE r == e.rng \div ft
  <1>3. r \in Nat /\ r >= 1 /\ r * ft <= e.rng BY <1>1, <1>2, ShareIs, Zenon
  <1>4. x = C!EncodePart(e, r, fl, fh, ft) BY DEF C!Encode
  <1> HIDE DEF r
  <1>5. r > 0 BY <1>3
  <1> QED BY <1>1, <1>3, <1>4, <1>5, EncodePartIs

(* A power of two divides the range while it is normalized.                 *)
LEMMA RangeShare ==
    ASSUME NEW n \in Nat, n > C!CodeBot, NEW k \in 0..C!CodeShift
    PROVE  /\ n \div 2^k \in Nat /\ n \div 2^k >= 1 /\ (n \div 2^k) * 2^k <= n
           /\ 2^k \in Nat /\ 2^k >= 1
  <1>1. k \in Nat /\ C!CodeShift \in Nat /\ k <= C!CodeShift BY SmallFacts
  <1>2. 2^k \in Nat \ {0} /\ 2^k <= 2^C!CodeShift BY <1>1, PowPositive, PowMonotone
  <1>3. 2^C!CodeShift = C!CodeBot /\ C!CodeBot \in Nat BY Widths
  <1> DEFINE p == 2^k
  <1>4. p \in Nat \ {0} /\ p <= n BY <1>2, <1>3
  <1> HIDE DEF p
  <1>5. n \div p \in Nat /\ n \div p >= 1 /\ (n \div p) * p <= n BY <1>4, ShareIs, Zenon
  <1> QED BY <1>4, <1>5 DEF p

LEMMA EncBitLogpIs ==
    ASSUME NEW e, EncOK(e), NEW bit, NEW logp \in 1..C!CodeShift,
           NEW x, x = C!EncBitLogp(e, bit, logp)
    PROVE  EncOK(x) /\ (HeaderOpen(e) => HeaderOpen(x))
  <1>1. EncLoose(e) /\ e \in Contexts /\ e.rng \in Nat /\ e.val \in Nat /\ e.rng > C!CodeBot
    BY EncFields DEF EncOK
  <1> DEFINE s == e.rng \div 2^logp
             r == e.rng - s
  <1>2. s \in Nat /\ s >= 1 /\ s < e.rng
    <2>1. logp \in Nat /\ 1 <= logp /\ logp \in 0..C!CodeShift BY SmallFacts
    <2>2. s \in Nat /\ s >= 1 /\ s * 2^logp <= e.rng /\ 2^logp \in Nat
      BY <1>1, <2>1, RangeShare
    <2>3. 2 <= 2^logp
      <3>1. 2^1 = 2 OBVIOUS
      <3> QED BY <2>1, <3>1, PowMonotone
    <2> DEFINE p == 2^logp
    <2>4. p \in Nat /\ 2 <= p /\ s * p <= e.rng BY <2>2, <2>3
    <2> HIDE DEF p, s
    <2>5. s * 2 <= s * p BY <2>2, <2>4, ProductGrows
    <2>6. s * 2 = s + s /\ s * p \in Nat BY <2>2, <2>4
    <2> QED BY <1>1, <2>2, <2>4, <2>5, <2>6
  <1> DEFINE y == IF bit = 1 THEN [e EXCEPT !.val = e.val + r, !.rng = s]
                  ELSE [e EXCEPT !.rng = r]
  <1>3. x = C!EncNormalize(y) BY Zenon DEF C!EncBitLogp
  <1> HIDE DEF s
  <1>4. r \in Nat /\ r \in 1..e.rng /\ s \in 1..e.rng /\ e.val + r \in Nat
        /\ (e.val + r) + s <= e.val + e.rng /\ e.val + r <= e.val + e.rng
    BY <1>1, <1>2
  <1> HIDE DEF r
  <1>5. EncLoose(y) /\ (HeaderOpen(e) => HeaderOpen(y))
    <2>1. CASE bit = 1
      <3>1. y = [e EXCEPT !.val = e.val + r, !.rng = s] BY <2>1
      <3> HIDE DEF y
      <3>2. Part(e, y, e.val + r, s)
        BY <1>1, <1>2, <1>4, <3>1, Zenon
           DEF Part, Contexts, SamePacket, SameHeld, SameRaw
      <3> QED BY <1>1, <1>4, <3>2, Narrowed
    <2>2. CASE bit # 1
      <3>1. y = [e EXCEPT !.rng = r] BY <2>2
      <3> HIDE DEF y
      <3>2. Part(e, y, e.val, r)
        BY <1>1, <1>4, <3>1, Zenon
           DEF Part, Contexts, SamePacket, SameHeld, SameRaw
      <3> QED BY <1>1, <1>4, <3>2, Narrowed
    <2> QED BY <2>1, <2>2
  <1> HIDE DEF y
  <1> QED BY <1>3, <1>5, EncNormalizeIs

LEMMA Upper ==
    ASSUME NEW val \in Nat, NEW rng \in Nat, NEW o \in Nat, NEW u \in Nat,
           NEW w \in Nat, o = u + w, 1 <= w, o <= rng, NEW v, v = val + rng - o
    PROVE  v \in Nat /\ w \in 1..rng /\ v + w <= val + rng
  OBVIOUS

LEMMA Lower ==
    ASSUME NEW rng \in Nat, NEW o \in Nat, o + 1 <= rng, NEW w, w = rng - o
    PROVE  w \in 1..rng
  OBVIOUS

LEMMA EncIcdfIs ==
    ASSUME NEW e, EncOK(e), NEW icdf \in Seq(Nat), NEW s \in 0..Len(icdf) - 1,
           s > 0 => icdf[s] < Base /\ icdf[s] > icdf[s + 1],
           s = 0 => icdf[1] < Base,
           NEW x, x = C!EncIcdf(e, s, icdf, SymBits)
    PROVE  /\ EncOK(x) /\ (HeaderOpen(e) => HeaderOpen(x))
           /\ s = 0 /\ e.val + e.rng - (e.rng \div Base) * icdf[1]
                         <= C!CodeTop \div 2^HeaderBits => HeaderOpen(x)
  <1>1. EncLoose(e) /\ e \in Contexts /\ e.rng \in Nat /\ e.val \in Nat /\ e.rng > C!CodeBot
    BY EncFields DEF EncOK
  <1> DEFINE r == e.rng \div Base
  <1>2. r \in Nat /\ r >= 1 /\ r * Base <= e.rng
    <2>1. SymBits \in 0..C!CodeShift BY SmallFacts
    <2> QED BY <1>1, <2>1, RangeShare DEF Base
  <1>3. Base \in Nat BY PlainWidths
  <1>4. e.rng \div 2^SymBits = r BY DEF Base
  <1>5. CASE s > 0
    <2> DEFINE a == icdf[s]
               b == icdf[s + 1]
               v == e.val + e.rng - r * a
               w == r * (a - b)
               y == [e EXCEPT !.val = v, !.rng = w]
    <2>1. x = C!EncNormalize(y) BY <1>4, <1>5, Zenon DEF C!EncIcdf
    <2>2. a \in Nat /\ b \in Nat /\ a < Base /\ b < a
      <3>1. s \in 1..Len(icdf) /\ s + 1 \in 1..Len(icdf) BY <1>5
      <3> QED BY <1>5, <3>1
    <2> HIDE DEF a, b, r
    <2>3. a - b \in Nat /\ a - b >= 1 /\ a - b <= a /\ r * a = r * b + w BY <1>2, <2>2
    <2>4. r * 1 <= w /\ w <= r * a /\ r * a <= r * Base /\ r * a \in Nat /\ w \in Nat
          /\ r * b \in Nat /\ r * Base \in Nat
      BY <1>2, <1>3, <2>2, <2>3, ProductGrows
    <2> DEFINE o == r * a
               t == r * Base
               u == r * b
    <2>5. o \in Nat /\ t \in Nat /\ u \in Nat /\ o = u + w /\ 1 <= w /\ w <= o /\ o <= t
          /\ t <= e.rng /\ w \in Nat /\ v = e.val + e.rng - o
      BY <1>2, <2>3, <2>4
    <2> HIDE DEF o, t, u, w, v
    <2>6. v \in Nat /\ w \in 1..e.rng /\ v + w <= e.val + e.rng
      <3>1. e.rng \in Nat /\ e.val \in Nat BY <1>1
      <3>2. o <= e.rng
        <4>1. o \in Nat /\ t \in Nat /\ o <= t /\ t <= e.rng BY <2>5, Zenon
        <4> QED BY <3>1, <4>1, Through
      <3>3. o \in Nat /\ u \in Nat /\ w \in Nat /\ o = u + w /\ 1 <= w
            /\ v = e.val + e.rng - o
        BY <2>5, Zenon
      <3> QED BY <3>1, <3>2, <3>3, Upper, Zenon
    <2>7. EncLoose(y) /\ (HeaderOpen(e) => HeaderOpen(y))
      <3>1. y = [e EXCEPT !.val = v, !.rng = w] OBVIOUS
      <3> HIDE DEF y
      <3>2. Part(e, y, v, w)
        BY <1>1, <2>5, <2>6, <3>1, Zenon
           DEF Part, Contexts, SamePacket, SameHeld, SameRaw
      <3> QED BY <1>1, <2>6, <3>2, Narrowed
    <2> HIDE DEF y
    <2> QED BY <1>5, <2>1, <2>7, EncNormalizeIs
  <1>6. CASE s = 0
    <2> DEFINE a == icdf[1]
               w == e.rng - r * a
               y == [e EXCEPT !.rng = w]
    <2>1. x = C!EncNormalize(y)
      <3>1. s + 1 = 1 /\ ~(s > 0) BY <1>6
      <3> QED BY <1>4, <3>1, Zenon DEF C!EncIcdf
    <2>2. a \in Nat /\ a + 1 <= Base
      <3>1. 1 \in 1..Len(icdf) BY <1>6
      <3> QED BY <1>3, <1>6, <3>1
    <2> HIDE DEF a, r
    <2>3. r * (a + 1) <= r * Base /\ r * (a + 1) = r * a + r /\ r * a \in Nat
          /\ r * Base \in Nat
      BY <1>2, <1>3, <2>2, ProductGrows
    <2> DEFINE o == r * a
               t == r * Base
    <2>4. o \in Nat /\ t \in Nat /\ o + r <= t /\ t <= e.rng /\ w = e.rng - o
      BY <1>2, <2>3
    <2> HIDE DEF o, t, w
    <2>5. w \in 1..e.rng /\ e.val + w <= e.val + e.rng /\ w \in Nat
      <3>1. e.rng \in Nat /\ e.val \in Nat /\ r \in Nat /\ r >= 1 BY <1>1, <1>2 DEF r
      <3>2. o \in Nat /\ t \in Nat BY <2>4
      <3>3. o + r <= t /\ t <= e.rng BY <2>4
      <3>4. w = e.rng - o BY <2>4
      <3>5. w \in 1..e.rng
        <4> HIDE DEF r
        <4>1. o + 1 <= e.rng BY <3>1, <3>2, <3>3
        <4> QED BY <3>1, <3>2, <3>4, <4>1, Lower, Zenon
      <3> QED BY <3>1, <3>5
    <2>6. EncLoose(y) /\ (HeaderOpen(e) => HeaderOpen(y)) /\ y.val = e.val /\ y.rng = w
      <3>1. y = [e EXCEPT !.rng = w] OBVIOUS
      <3> HIDE DEF y
      <3>2. Part(e, y, e.val, w)
        BY <1>1, <2>5, <3>1, Zenon
           DEF Part, Contexts, SamePacket, SameHeld, SameRaw
      <3> QED BY <1>1, <2>5, <3>2, Narrowed
    <2> HIDE DEF y
    <2>7. e.val + e.rng - o <= C!CodeTop \div 2^HeaderBits => HeaderOpen(y)
      <3>1. e.val + e.rng - o = y.val + y.rng BY <1>1, <2>4, <2>5, <2>6
      <3> QED BY <3>1 DEF HeaderOpen
    <2> QED BY <2>1, <2>6, <2>7, EncNormalizeIs DEF o, a, r
  <1> QED BY <1>5, <1>6

-----------------------------------------------------------------------------
(* The raw bits.  One turn of ec_enc_bits and ec_enc_done that empty the    *)
(* window.                                                                  *)
FlushTurn(e) ==
    IF e.nend_bits >= SymBits
    THEN [C!WriteByteAtEnd(e, e.end_window) EXCEPT
            !.end_window = @ \div 2^SymBits, !.nend_bits = @ - SymBits]
    ELSE e

LEMMA FlushWindowTurns ==
    ASSUME NEW e
    PROVE  C!FlushWindow(e) = FlushTurn(FlushTurn(FlushTurn(FlushTurn(e))))
  <1> DEFINE n == CodeBits \div SymBits
             g == CHOOSE f : f = [i \in 0..n |-> IF i = 0 THEN e ELSE FlushTurn(f[i - 1])]
  <1>1. C!FlushWindow(e) = g[n] BY Zenon DEF C!FlushWindow, C!While, C!Times, FlushTurn
  <1>2. n = 4 BY SmallFacts
  <1> HIDE DEF n
  <1>3. \E f : f = [i \in 0..n |-> IF i = 0 THEN e ELSE FlushTurn(f[i - 1])]
    <2> DEFINE a == FlushTurn(e)
               b == FlushTurn(a)
               c == FlushTurn(b)
               d == FlushTurn(c)
               h == [i \in 0..n |-> IF i = 0 THEN e ELSE IF i = 1 THEN a
                                    ELSE IF i = 2 THEN b ELSE IF i = 3 THEN c ELSE d]
    <2>1. ASSUME NEW i \in 0..n PROVE h[i] = IF i = 0 THEN e ELSE FlushTurn(h[i - 1])
      <3>1. i = 0 \/ i = 1 \/ i = 2 \/ i = 3 \/ i = 4 BY <1>2
      <3> HIDE DEF a, b, c, d
      <3>2. h[0] = e /\ h[1] = a /\ h[2] = b /\ h[3] = c /\ h[4] = d BY <1>2
      <3>3. a = FlushTurn(e) /\ b = FlushTurn(a) /\ c = FlushTurn(b) /\ d = FlushTurn(c)
        BY DEF a, b, c, d
      <3> QED BY <3>1, <3>2, <3>3
    <2>2. h = [i \in 0..n |-> IF i = 0 THEN e ELSE FlushTurn(h[i - 1])] BY <2>1
    <2> HIDE DEF h
    <2> QED BY <2>2
  <1>4. g = [i \in 0..n |-> IF i = 0 THEN e ELSE FlushTurn(g[i - 1])] BY <1>3
  <1> HIDE DEF g
  <1>5. g[0] = e /\ g[1] = FlushTurn(g[0]) /\ g[2] = FlushTurn(g[1])
        /\ g[3] = FlushTurn(g[2]) /\ g[4] = FlushTurn(g[3])
    BY <1>2, <1>4
  <1> QED BY <1>1, <1>2, <1>5

Flushes(e, x) ==
    /\ Apart(x) /\ WindowOK(x) /\ x.storage = e.storage /\ x.offs = e.offs
    /\ SameCode(e, x) /\ SameHeld(e, x) /\ (e.error # 0 => x.error # 0)

(* There is room for the raw bits, spare of them in a byte begun in front.  *)
Fits(e, spare) ==
    e.error = 0 /\ Bits(e.offs + e.end_offs) + e.nend_bits <= Bits(e.storage) + spare

LEMMA WindowShrinks ==
    ASSUME NEW w \in Nat, NEW k \in Nat, NEW n \in Nat, n <= k, w < 2^k
    PROVE  w \div 2^n \in Nat /\ w \div 2^n < 2^(k - n)
  <1>1. k - n \in Nat /\ k = n + (k - n) OBVIOUS
  <1>2. 2^k = 2^n * 2^(k - n) BY <1>1, PowAdd
  <1>3. 2^n \in Nat \ {0} /\ 2^(k - n) \in Nat BY <1>1, PowPositive, PowNat
  <1> QED BY <1>2, <1>3, QuotientBelow

LEMMA FlushTurnIs ==
    ASSUME NEW e, Apart(e), WindowOK(e), NEW x, x = FlushTurn(e)
    PROVE  /\ Flushes(e, x)
           /\ x.nend_bits = IF e.nend_bits >= SymBits THEN e.nend_bits - SymBits
                            ELSE e.nend_bits
           /\ EncLoose(e) => EncLoose(x)
           /\ \A spare \in 0..SymBits - 1 : Fits(e, spare) => Fits(x, spare)
  <1>1. CASE ~(e.nend_bits >= SymBits)
    <2>1. x = e BY <1>1 DEF FlushTurn
    <2> QED BY <1>1, <2>1 DEF Flushes, SameCode, SameHeld
  <1>2. CASE e.nend_bits >= SymBits
    <2> DEFINE y == C!WriteByteAtEnd(e, e.end_window)
    <2>1. /\ e \in Contexts /\ e.end_window \in Nat /\ e.nend_bits \in Nat
          /\ e.storage \in Nat /\ e.offs \in Nat /\ e.end_offs \in Nat /\ SymBits \in Nat
          /\ e.ext \in Nat
      BY ApartIs, Fields, SmallFacts
    <2>2. /\ Writes(e, y) /\ SameHeld(e, y) /\ y.offs = e.offs
          /\ y.error = 0 => e.error = 0 /\ y.end_offs = e.end_offs + 1
          /\ y.error # 0 /\ e.error = 0 => e.offs + e.end_offs >= e.storage
      BY <2>1, WriteByteAtEndIs
    <2>3. x = [y EXCEPT !.end_window = y.end_window \div 2^SymBits,
                        !.nend_bits = y.nend_bits - SymBits]
      BY <1>2, Zenon DEF FlushTurn
    <2> HIDE DEF y
    <2>4. y.end_window = e.end_window /\ y.nend_bits = e.nend_bits /\ y \in Contexts
          /\ y.storage = e.storage
      BY <2>2 DEF Writes, SameRaw, Apart
    <2>5. /\ y.end_window \div 2^SymBits \in Nat
          /\ y.end_window \div 2^SymBits < 2^(y.nend_bits - SymBits)
          /\ y.nend_bits - SymBits \in Nat
      <3>1. /\ y.end_window \in Nat /\ y.nend_bits \in Nat /\ SymBits \in Nat
            /\ SymBits <= y.nend_bits /\ y.end_window < 2^y.nend_bits
        BY <1>2, <2>1, <2>4 DEF WindowOK
      <3>2. y.nend_bits - SymBits \in Nat BY <3>1
      <3> QED BY <3>1, <3>2, WindowShrinks, Zenon
    <2>6. /\ x \in Contexts /\ x.end_window = y.end_window \div 2^SymBits
          /\ x.nend_bits = y.nend_bits - SymBits
          /\ SamePacket(y, x) /\ SameHeld(y, x) /\ SameCode(y, x)
      <3>1. x \in Contexts BY <2>3, <2>4, <2>5, Zenon DEF Contexts
      <3> QED BY <2>3, <2>4, <3>1, Zenon DEF Contexts, SamePacket, SameHeld, SameCode
    <2>7. Apart(x) BY <2>2, <2>6 DEF Writes, Apart, SamePacket
    <2>8. WindowOK(x)
      <3>1. x.end_window < 2^x.nend_bits BY <2>5, <2>6, Zenon
      <3>2. x.nend_bits <= CodeBits
        BY <2>1, <2>4, <2>6, SmallFacts DEF WindowOK
      <3> QED BY <3>1, <3>2 DEF WindowOK
    <2>9. Flushes(e, x)
      BY <2>2, <2>4, <2>6, <2>7, <2>8
         DEF Flushes, Writes, SameCode, SameHeld, SamePacket
    <2>10. x.error = y.error /\ x.offs = e.offs /\ x.end_offs = y.end_offs
           /\ x.storage = e.storage /\ x.nend_bits = e.nend_bits - SymBits
           /\ x.nbits_total = e.nbits_total /\ Held(x) = Held(e)
           /\ x.rng = e.rng /\ x.val = e.val
      BY <2>4, <2>6, <2>9 DEF Flushes, SameCode, SameHeld, SamePacket, Held
    <2>11. ASSUME EncLoose(e) PROVE EncLoose(x)
      <3>1. Used(e) \in Nat /\ Held(e) \in Nat /\ e.nbits_total \in Int
        BY <2>11, EncFields
      <3>2. Bits(Used(e) + 1) = Bits(Used(e)) + SymBits
            /\ Bits(Used(e)) \in Nat /\ Bits(e.storage) \in Nat
            /\ (Used(e) >= e.storage => Bits(Used(e)) >= Bits(e.storage))
        BY <2>1, <3>1, SymTimes
      <3>3. x.error = 0 => Used(x) = Used(e) + 1
        BY <2>1, <2>2, <2>10, <3>1 DEF Used
      <3>4. x.error # 0 /\ e.error = 0 => Used(e) >= e.storage
        BY <2>1, <2>2, <2>10, <3>1 DEF Used
      <3>5. x.nbits_total = e.nbits_total + 0 /\ 0 \in Nat BY <2>10, <3>1
      <3>6. x.error = 0 =>
               Used(x) = Used(e) + 1
               /\ 0 + e.nend_bits - (e.nend_bits - SymBits)
                    = Bits(Used(e) + 1) - Bits(Used(e))
        BY <2>1, <3>1, <3>2, <3>3
      <3>7. x.error # 0 /\ e.error = 0 => Bits(Used(e)) + e.nend_bits >= Bits(e.storage)
        BY <2>1, <3>1, <3>2, <3>4
      <3>8. Used(e) + 1 \in Nat /\ e.nend_bits - SymBits \in Nat BY <1>2, <2>1, <3>1
      <3>9. e.error # 0 => x.error # 0 BY <2>9 DEF Flushes
      <3>10. RoomOK(x)
        BY <2>10, <2>11, <3>5, <3>6, <3>7, <3>8, <3>9, RoomStep
      <3> QED BY <2>7, <2>8, <2>10, <2>11, <3>10 DEF EncLoose
    <2>12. ASSUME NEW spare \in 0..SymBits - 1, Fits(e, spare) PROVE Fits(x, spare)
      <3> DEFINE m == e.offs + e.end_offs
      <3>1. /\ e.error = 0 /\ Bits(m) + e.nend_bits <= Bits(e.storage) + spare /\ m \in Nat
            /\ spare \in Nat /\ spare < SymBits
        BY <2>1, <2>12 DEF Fits
      <3>2. Bits(m + 1) = Bits(m) + SymBits /\ Bits(m) \in Nat /\ Bits(e.storage) \in Nat
            /\ (m >= e.storage => Bits(m) >= Bits(e.storage))
        BY <2>1, <3>1, SymTimes
      <3>3. m < e.storage
        <4> HIDE DEF m
        <4> QED BY <1>2, <2>1, <3>1, <3>2
      <3>4. y.error = 0 BY <2>1, <2>2, <3>1, <3>3
      <3>5. x.error = 0 /\ x.offs + x.end_offs = m + 1 BY <2>1, <2>2, <2>10, <3>4
      <3> HIDE DEF m
      <3>6. Bits(m + 1) + (e.nend_bits - SymBits) <= Bits(e.storage) + spare
        BY <2>1, <3>1, <3>2
      <3> QED BY <2>10, <3>5, <3>6 DEF Fits
    <2> QED BY <1>2, <2>9, <2>10, <2>11, <2>12
  <1> QED BY <1>1, <1>2

LEMMA FlushWindowIs ==
    ASSUME NEW e, Apart(e), WindowOK(e), NEW x, x = C!FlushWindow(e)
    PROVE  /\ Flushes(e, x) /\ x.nend_bits < SymBits
           /\ EncLoose(e) => EncLoose(x)
           /\ \A spare \in 0..SymBits - 1 : Fits(e, spare) => Fits(x, spare)
  <1> DEFINE a == FlushTurn(e)
             b == FlushTurn(a)
             c == FlushTurn(b)
             d == FlushTurn(c)
  <1>1. x = d BY FlushWindowTurns
  <1>2. /\ Flushes(e, a)
        /\ a.nend_bits = IF e.nend_bits >= SymBits THEN e.nend_bits - SymBits
                         ELSE e.nend_bits
        /\ EncLoose(e) => EncLoose(a)
        /\ \A spare \in 0..SymBits - 1 : Fits(e, spare) => Fits(a, spare)
    BY FlushTurnIs
  <1> HIDE DEF a
  <1>3. /\ Flushes(a, b)
        /\ b.nend_bits = IF a.nend_bits >= SymBits THEN a.nend_bits - SymBits
                         ELSE a.nend_bits
        /\ EncLoose(a) => EncLoose(b)
        /\ \A spare \in 0..SymBits - 1 : Fits(a, spare) => Fits(b, spare)
    BY <1>2, FlushTurnIs DEF Flushes
  <1> HIDE DEF b
  <1>4. /\ Flushes(b, c)
        /\ c.nend_bits = IF b.nend_bits >= SymBits THEN b.nend_bits - SymBits
                         ELSE b.nend_bits
        /\ EncLoose(b) => EncLoose(c)
        /\ \A spare \in 0..SymBits - 1 : Fits(b, spare) => Fits(c, spare)
    BY <1>3, FlushTurnIs DEF Flushes
  <1> HIDE DEF c
  <1>5. /\ Flushes(c, d)
        /\ d.nend_bits = IF c.nend_bits >= SymBits THEN c.nend_bits - SymBits
                         ELSE c.nend_bits
        /\ EncLoose(c) => EncLoose(d)
        /\ \A spare \in 0..SymBits - 1 : Fits(c, spare) => Fits(d, spare)
    BY <1>4, FlushTurnIs DEF Flushes
  <1> HIDE DEF d
  <1>6. Flushes(e, d)
    BY <1>2, <1>3, <1>4, <1>5 DEF Flushes, SameCode, SameHeld
  <1>7. d.nend_bits < SymBits
    <2>1. e.nend_bits \in Nat /\ e.nend_bits <= 4 * SymBits /\ SymBits \in Nat \ {0}
      BY ApartIs, Fields, SmallFacts DEF WindowOK
    <2> QED BY <1>2, <1>3, <1>4, <1>5, <2>1
  <1> QED BY <1>1, <1>2, <1>3, <1>4, <1>5, <1>6, <1>7

LEMMA WindowGrows ==
    ASSUME NEW w \in Nat, NEW k \in Nat, w < 2^k, NEW n \in Nat, NEW v \in Nat, v < 2^n
    PROVE  w + v * 2^k \in Nat /\ w + v * 2^k < 2^(k + n)
  <1>1. 2^(k + n) = 2^k * 2^n /\ 2^k \in Nat /\ 2^n \in Nat BY PowAdd, PowNat
  <1> DEFINE p == 2^k
             q == 2^n
             o == v * p
  <1>2. p \in Nat /\ q \in Nat /\ w < p /\ v + 1 <= q BY <1>1
  <1>3. 2^(k + n) = p * q BY <1>1
  <1> HIDE DEF p, q
  <1>4. p * (v + 1) <= p * q /\ p * (v + 1) = o + p /\ o \in Nat /\ p * q \in Nat
    BY <1>2, ProductGrows
  <1> HIDE DEF o
  <1>5. w + o \in Nat /\ w + o < p * q BY <1>2, <1>4
  <1> QED BY <1>3, <1>5 DEF o, p

LEMMA EncBitsIs ==
    ASSUME NEW e, EncOK(e), NEW bits \in 1..CodeBits - SymBits + 1,
           NEW v \in Nat, v < 2^bits, NEW x, x = C!EncBits(e, v, bits)
    PROVE  EncOK(x) /\ (HeaderOpen(e) => HeaderOpen(x))
  <1> DEFINE room == IF e.nend_bits + bits > CodeBits THEN C!FlushWindow(e) ELSE e
  <1>1. EncLoose(e) /\ Apart(e) /\ WindowOK(e) /\ e.nend_bits \in Nat
    BY EncFields DEF EncOK, EncLoose
  <1>2. SymBits \in Nat /\ CodeBits \in Nat /\ SymBits <= CodeBits /\ bits \in Nat
    BY SmallFacts
  <1>3. /\ Flushes(e, room) /\ EncLoose(room) /\ room.nend_bits \in Nat
        /\ room.nend_bits + bits <= CodeBits
    <2>1. CASE e.nend_bits + bits > CodeBits
      <3>1. room = C!FlushWindow(e) BY <2>1
      <3> HIDE DEF room
      <3>2. Flushes(e, room) /\ EncLoose(room) /\ room.nend_bits < SymBits
        BY <1>1, <3>1, FlushWindowIs
      <3> QED BY <1>2, <3>2, EncFields
    <2>2. CASE ~(e.nend_bits + bits > CodeBits)
      <3>1. room = e BY <2>2
      <3> QED BY <1>1, <1>2, <2>2, <3>1 DEF Flushes, SameCode, SameHeld
    <2> QED BY <2>1, <2>2
  <1> DEFINE w == room.end_window + v * 2^room.nend_bits
  <1>4. x = [room EXCEPT !.end_window = w, !.nend_bits = room.nend_bits + bits,
                         !.nbits_total = room.nbits_total + bits]
    BY Zenon DEF C!EncBits
  <1> HIDE DEF room
  <1>5. room \in Contexts /\ room.end_window \in Nat /\ room.nbits_total \in Int
        /\ room.storage \in Nat /\ room.rng \in Nat /\ room.val \in Nat
        /\ Used(room) \in Nat
    BY <1>3, EncFields
  <1>6. w \in Nat /\ w < 2^(room.nend_bits + bits)
    BY <1>2, <1>3, <1>5, WindowGrows DEF EncLoose, WindowOK
  <1>7. room.nend_bits + bits \in Nat /\ room.nbits_total + bits \in Int BY <1>2, <1>3, <1>5
  <1> HIDE DEF w
  <1>8. /\ x \in Contexts /\ x.end_window = w /\ x.nend_bits = room.nend_bits + bits
        /\ x.nbits_total = room.nbits_total + bits /\ x.rng = room.rng
        /\ x.val = room.val /\ SamePacket(room, x) /\ SameHeld(room, x)
    BY <1>4, <1>5, <1>6, <1>7, Zenon DEF Contexts, SamePacket, SameHeld
  <1>9. Apart(x) BY <1>3, <1>8 DEF EncLoose, Apart, SamePacket
  <1>10. WindowOK(x)
    <2>1. x.end_window < 2^x.nend_bits BY <1>6, <1>8, Zenon
    <2> QED BY <1>3, <1>8, <2>1 DEF WindowOK
  <1>11. RoomOK(x)
    <2>1. x.error = room.error /\ Used(x) = Used(room) /\ x.storage = room.storage
      BY <1>8 DEF SamePacket, SameHeld, Used, Held
    <2>2. Bits(Used(room)) \in Nat /\ Bits(room.storage) \in Nat BY <1>5, SymTimes
    <2>3. RoomOK(room) BY <1>3 DEF EncLoose
    <2>4. ASSUME x.error = 0
          PROVE  x.nbits_total = CodeBits + 1 + Bits(Used(x)) + x.nend_bits
      <3>1. room.nbits_total = CodeBits + 1 + Bits(Used(room)) + room.nend_bits
        BY <2>1, <2>3, <2>4 DEF RoomOK
      <3> QED BY <1>2, <1>3, <1>5, <1>8, <2>1, <2>2, <3>1
    <2>5. ASSUME x.error # 0 PROVE x.nbits_total > CodeBits + Bits(x.storage)
      <3>1. room.nbits_total > CodeBits + Bits(room.storage)
        BY <2>1, <2>3, <2>5 DEF RoomOK
      <3> QED BY <1>2, <1>5, <1>8, <2>1, <2>2, <3>1
    <2> QED BY <2>4, <2>5 DEF RoomOK
  <1>12. x.rng = e.rng /\ x.val = e.val /\ x.rem = e.rem
    BY <1>3, <1>8 DEF Flushes, SameCode, SameHeld
  <1> QED BY <1>9, <1>10, <1>11, <1>12 DEF EncOK, EncLoose, HeaderOpen

LEMMA IlogIs ==
    ASSUME NEW v \in Nat, v < 2^CodeBits, NEW n, n = C!EC_ILOG(v)
    PROVE  n \in 0..CodeBits /\ v < 2^n /\ (n > 0 => v >= 2^(n - 1))
  <1> DEFINE Log(m) == v < 2^m /\ (m > 0 => v >= 2^(m - 1))
  <1>1. \E m \in 0..CodeBits : Log(m)
    <2> SUFFICES ASSUME \A m \in 0..CodeBits : ~Log(m) PROVE FALSE OBVIOUS
    <2> DEFINE S == {m \in Nat : m <= CodeBits => v >= 2^m}
    <2>1. CodeBits \in Nat BY SmallFacts
    <2>2. 0 \in S
      <3> HIDE DEF S
      <3> DEFINE p == 2^0
      <3>1. p = 1 BY PowZero
      <3>2. 0 \in 0..CodeBits /\ ~(0 > 0) BY <2>1
      <3>3. ~(v < p /\ (0 > 0 => v >= 2^(0 - 1))) BY <3>2
      <3> HIDE DEF p
      <3>4. v >= p BY <3>1, <3>3
      <3> QED BY <3>4 DEF p, S
    <2>3. ASSUME NEW m \in Nat, m \in S PROVE m + 1 \in S
      <3> SUFFICES ASSUME m + 1 <= CodeBits PROVE v >= 2^(m + 1) OBVIOUS
      <3>1. v >= 2^m BY <2>1, <2>3
      <3>2. m + 1 \in 0..CodeBits /\ (m + 1) - 1 = m BY <2>1
      <3>3. ~(v < 2^(m + 1)) BY <3>1, <3>2
      <3>4. 2^(m + 1) \in Nat BY PowNat
      <3> QED BY <3>3, <3>4
    <2> HIDE DEF S
    <2>4. CodeBits \in S BY <2>1, <2>2, <2>3, SetInduction
    <2>5. v >= 2^CodeBits BY <2>1, <2>4 DEF S
    <2>6. 2^CodeBits \in Nat BY <2>1, PowNat
    <2> QED BY <2>5, <2>6
  <1>2. n \in 0..CodeBits /\ Log(n) BY <1>1, Zenon DEF C!EC_ILOG
  <1> QED BY <1>2

LEMMA QuotientMonotone ==
    ASSUME NEW a \in Nat, NEW b \in Nat, a <= b, NEW k \in Nat \ {0}
    PROVE  a \div k <= b \div k
  <1>1. a \div k \in Nat /\ k * (a \div k) <= a BY DivisionBelow, Zenon
  <1>2. k * (a \div k) \in Nat BY <1>1
  <1>3. k * (a \div k) <= b BY <1>1, <1>2
  <1> QED BY <1>1, <1>3, QuotientAbove

(* What the assumption on the symbols says of the number of a uint.         *)
LEMMA UintParts ==
    ASSUME NEW ft \in 2..2^CodeBits - 1, NEW ftb, ftb = C!EC_ILOG(ft - 1),
           NEW low, low = ftb - UintBits
    PROVE  /\ ftb > UintBits =>
                /\ low \in 1..CodeBits - SymBits /\ 2^low \in Nat \ {0}
                /\ (ft - 1) \div 2^low \in Nat
                /\ (ft - 1) \div 2^low + 1 <= C!CodeBot
           /\ ~(ftb > UintBits) => ft <= C!CodeBot
  <1>1. /\ SymBits \in Nat /\ CodeBits \in Nat /\ C!CodeShift \in Nat
        /\ UintBits \in Nat /\ UintBits >= SymBits /\ UintBits <= C!CodeShift
    BY SmallFacts, CoderAssumption DEF C!RangeCoderAssumption
  <1>2. 2^CodeBits \in Nat /\ C!CodeBot \in Nat /\ 2^C!CodeShift = C!CodeBot
    BY <1>1, PowNat, Widths
  <1>3. ft - 1 \in Nat /\ ft - 1 < 2^CodeBits /\ ft \in Nat BY <1>2
  <1>4. ftb \in 0..CodeBits /\ ft - 1 < 2^ftb BY <1>3, IlogIs
  <1>5. ftb \in Nat BY <1>1, <1>4
  <1>6. ASSUME ftb > UintBits
        PROVE  /\ low \in 1..CodeBits - SymBits /\ 2^low \in Nat \ {0}
               /\ (ft - 1) \div 2^low \in Nat
               /\ (ft - 1) \div 2^low + 1 <= C!CodeBot
    <2>1. low \in Nat /\ low >= 1 /\ low <= CodeBits - SymBits /\ low <= ftb
          /\ ftb - low = UintBits
      BY <1>1, <1>4, <1>5, <1>6
    <2>2. (ft - 1) \div 2^low \in Nat /\ (ft - 1) \div 2^low < 2^UintBits
      BY <1>3, <1>4, <1>5, <2>1, WindowShrinks
    <2>3. 2^UintBits <= C!CodeBot /\ 2^UintBits \in Nat BY <1>1, <1>2, PowMonotone, PowNat
    <2>4. (ft - 1) \div 2^low + 1 <= C!CodeBot
      <3> DEFINE q == (ft - 1) \div 2^low
                 p == 2^UintBits
      <3>1. q \in Nat /\ p \in Nat /\ q < p /\ p <= C!CodeBot BY <2>2, <2>3
      <3> HIDE DEF q, p
      <3>2. q + 1 <= C!CodeBot BY <1>2, <3>1
      <3> QED BY <3>2 DEF q
    <2>5. 2^low \in Nat \ {0} BY <2>1, PowPositive
    <2>6. low \in 1..CodeBits - SymBits BY <1>1, <2>1
    <2> QED BY <2>2, <2>4, <2>5, <2>6
  <1>7. ASSUME ~(ftb > UintBits) PROVE ft <= C!CodeBot
    <2>1. 2^ftb <= C!CodeBot /\ 2^ftb \in Nat
      <3>1. ftb <= C!CodeShift BY <1>1, <1>5, <1>7
      <3> QED BY <1>1, <1>2, <1>5, <3>1, PowMonotone, PowNat
    <2> QED BY <1>2, <1>3, <1>4, <2>1
  <1> QED BY <1>6, <1>7

LEMMA EncUintIs ==
    ASSUME NEW e, EncOK(e), NEW ft \in 2..2^CodeBits - 1, NEW v \in 0..ft - 1,
           NEW x, x = C!EncUint(e, v, ft)
    PROVE  EncOK(x) /\ (HeaderOpen(e) => HeaderOpen(x))
  <1> DEFINE ftb == C!EC_ILOG(ft - 1)
             low == ftb - UintBits
             hi == v \div 2^low
             top == (ft - 1) \div 2^low
             y == C!Encode(e, hi, hi + 1, top + 1)
  <1>1. ft \in Nat /\ v \in Nat /\ v <= ft - 1 /\ ft - 1 \in Nat
    <2>1. 2^CodeBits \in Nat BY SmallFacts, PowNat
    <2> QED BY <2>1
  <1>2. CASE ftb > UintBits
    <2>1. x = C!EncBits(y, v % 2^low, low) BY <1>2, Zenon DEF C!EncUint
    <2>2. /\ low \in 1..CodeBits - SymBits /\ 2^low \in Nat \ {0}
          /\ top \in Nat /\ top + 1 <= C!CodeBot
      BY <1>2, UintParts
    <2> HIDE DEF low
    <2>3. hi \in Nat /\ hi <= top
      <3>1. hi \in Nat BY <1>1, <2>2, DivisionBelow, Zenon
      <3>2. hi <= top BY <1>1, <2>2, QuotientMonotone
      <3> QED BY <3>1, <3>2
    <2>4. v % 2^low \in 0..2^low - 1 BY <1>1, <2>2, DivisionBelow, Zenon
    <2> HIDE DEF hi, top
    <2>5. EncOK(y) /\ (HeaderOpen(e) => HeaderOpen(y))
      <3>1. hi + 1 \in Nat /\ top + 1 \in Nat /\ hi < hi + 1 /\ hi + 1 <= top + 1
        BY <2>2, <2>3
      <3> QED BY <2>2, <2>3, <3>1, EncodeIs
    <2> HIDE DEF y
    <2>6. v % 2^low \in Nat /\ v % 2^low < 2^low BY <2>2, <2>4
    <2>7. low \in 1..CodeBits - SymBits + 1 BY <2>2, SmallFacts
    <2> QED BY <2>1, <2>5, <2>6, <2>7, EncBitsIs
  <1>3. CASE ~(ftb > UintBits)
    <2>1. x = C!Encode(e, v, v + 1, ft) BY <1>3, Zenon DEF C!EncUint
    <2>2. ft <= C!CodeBot BY <1>3, UintParts
    <2>3. v + 1 \in Nat /\ v < v + 1 /\ v + 1 <= ft BY <1>1
    <2> QED BY <1>1, <2>1, <2>2, <2>3, EncodeIs
  <1> QED BY <1>2, <1>3

(* The encoder of e between two symbols stays one where only the bytes, the *)
(* end of the packet or the low end of the interval change.                 *)
Rewrites(e, x) ==
    /\ x \in Contexts /\ x.buf \in [1..x.storage -> Bytes]
    /\ x.offs = e.offs /\ x.end_offs = e.end_offs /\ x.error = e.error
    /\ x.offs + x.end_offs <= x.storage /\ x.storage <= e.storage /\ SameRaw(e, x)
    /\ x.nbits_total = e.nbits_total /\ x.rng = e.rng /\ x.val + x.rng <= 2 * C!CodeTop
    /\ Held(x) = Held(e)

LEMMA Rewritten ==
    ASSUME NEW e, EncOK(e), NEW x, Rewrites(e, x)
    PROVE  EncOK(x)
  <1>1. Apart(x) BY DEF Apart, Rewrites
  <1>2. WindowOK(x) BY DEF EncOK, EncLoose, WindowOK, SameRaw, Rewrites
  <1>3. EncLoose(e) /\ e.storage \in Nat /\ x.storage \in Nat /\ e.nbits_total \in Int
        /\ CodeBits \in Nat
    BY <1>1, EncFields, ApartIs, SmallFacts DEF EncOK
  <1>4. Bits(x.storage) \in Nat /\ Bits(e.storage) \in Nat
        /\ Bits(x.storage) <= Bits(e.storage)
    BY <1>3, SymTimes DEF Rewrites
  <1>5. Used(x) = Used(e) BY DEF Used, Rewrites
  <1>6. RoomOK(e) BY <1>3 DEF EncLoose
  <1>7. RoomOK(x)
    <2>1. x.error = 0 => x.nbits_total = CodeBits + 1 + Bits(Used(x)) + x.nend_bits
      BY <1>5, <1>6 DEF RoomOK, SameRaw, Rewrites
    <2>2. x.error # 0 => x.nbits_total > CodeBits + Bits(x.storage)
      BY <1>3, <1>4, <1>6 DEF RoomOK, Rewrites
    <2> QED BY <2>1, <2>2 DEF RoomOK
  <1> QED BY <1>1, <1>2, <1>7 DEF EncOK, EncLoose, Rewrites

LEMMA HeaderWidths ==
    /\ HeaderBits \in Nat /\ HeaderBits >= 1 /\ HeaderBits <= SymBits
    /\ SymBits - HeaderBits \in Nat
    /\ 2^HeaderBits \in Nat \ {0} /\ 2^(SymBits - HeaderBits) \in Nat \ {0}
    /\ C!CodeTop \div 2^HeaderBits = 2^(C!CodeShift + (SymBits - HeaderBits))
    /\ C!CodeTop \div 2^HeaderBits \in Nat \ {0}
    /\ C!CodeTop = (C!CodeTop \div 2^HeaderBits) * 2^HeaderBits
    /\ C!CodeTop \div 2^HeaderBits = C!CodeBot * 2^(SymBits - HeaderBits)
    /\ 2^(C!CodeShift + SymBits) = C!CodeTop
  <1>1. SymBits \in Nat /\ C!CodeShift \in Nat /\ CodeBits = 4 * SymBits
        /\ C!CodeShift = 3 * SymBits - 1
    BY SmallFacts
  <1>2. HeaderBits \in Nat /\ HeaderBits >= 1 /\ HeaderBits <= SymBits
    BY <1>1, CoderAssumption DEF C!RangeCoderAssumption
  <1> DEFINE shift == SymBits - HeaderBits
  <1>3. shift \in Nat /\ C!CodeShift + shift \in Nat
        /\ (C!CodeShift + shift) + HeaderBits = CodeBits - 1
        /\ C!CodeShift + SymBits = CodeBits - 1
    BY <1>1, <1>2
  <1>4. C!CodeTop = 2^(C!CodeShift + shift) * 2^HeaderBits
    BY <1>2, <1>3, PowAdd DEF C!CodeTop
  <1>5. 2^HeaderBits \in Nat \ {0} /\ 2^(C!CodeShift + shift) \in Nat \ {0}
        /\ 2^shift \in Nat \ {0}
    BY <1>2, <1>3, PowPositive
  <1>6. 2^(C!CodeShift + shift) = C!CodeBot * 2^shift
    <2>1. 2^C!CodeShift = C!CodeBot BY Widths, Zenon
    <2>2. 2^(C!CodeShift + shift) = 2^C!CodeShift * 2^shift BY <1>1, <1>3, PowAdd
    <2> QED BY <2>1, <2>2, Zenon
  <1> DEFINE q == 2^(C!CodeShift + shift)
             p == 2^HeaderBits
  <1>7. C!CodeTop \div p = q
    <2>1. p \in Nat \ {0} /\ q \in Nat /\ C!CodeTop = q * p BY <1>4, <1>5
    <2> HIDE DEF p, q
    <2>2. C!CodeTop = p * q + 0 /\ 0 \in 0..p - 1 BY <2>1
    <2> QED BY <2>1, <2>2, QuotientIs
  <1>8. 2^(C!CodeShift + SymBits) = C!CodeTop BY <1>3 DEF C!CodeTop
  <1> QED BY <1>2, <1>3, <1>4, <1>5, <1>6, <1>7, <1>8

LEMMA SmallQuotient ==
    ASSUME NEW b \in Nat \ {0}, NEW r \in 0..b - 1
    PROVE  r \div b = 0 /\ r % b = r
  OBVIOUS

LEMMA PatchedValue ==
    ASSUME NEW top \in Nat, NEW q \in Nat \ {0}, NEW p \in Nat \ {0}, top = q * p,
           NEW v \in Nat, v < p, NEW val \in Nat, NEW rng \in Nat, rng >= 1,
           val + rng <= q, NEW x, x = (val % q) + (val \div top) * top + v * q
    PROVE  x \in Nat /\ x + rng <= 2 * top
  <1> DEFINE o == v * q
  <1>1. q * (v + 1) <= q * p /\ q * (v + 1) = o + q /\ o \in Nat
    <2>1. v + 1 <= p /\ v + 1 \in Nat OBVIOUS
    <2> QED BY <2>1, ProductGrows
  <1>2. x = (val % q) + (val \div top) * top + o OBVIOUS
  <1> HIDE DEF o
  <1>3. o + q <= top BY <1>1
  <1>4. val \in 0..q - 1 /\ val \in 0..top - 1 /\ top \in Nat \ {0} BY <1>1, <1>3
  <1>5. val % q = val BY <1>4, SmallQuotient
  <1>6. val \div top = 0 BY <1>4, SmallQuotient
  <1>7. 0 * top = 0 OBVIOUS
  <1>8. x = val + o BY <1>1, <1>2, <1>5, <1>6, <1>7
  <1> QED BY <1>1, <1>3, <1>8

(* A held byte is the absent one or a number.                                *)
LEMMA ByteHeld ==
    ASSUME NEW r, NEW m, r \in -1..m, r >= 0
    PROVE  r \in Nat
  OBVIOUS

LEMMA FirstPlace ==
    ASSUME NEW offs \in Nat, NEW end \in Nat, NEW storage \in Nat,
           offs + end <= storage, offs > 0
    PROVE  1 \in 1..storage
  OBVIOUS

(* ec_enc_patch_initial_bits gives the bits of the header their value.      *)
LEMMA PatchIs ==
    ASSUME NEW e, EncOK(e), HeaderOpen(e), NEW v \in 1..2^HeaderBits - 1,
           NEW x, x = C!PatchInitialBits(e, v, HeaderBits)
    PROVE  EncOK(x)
  <1> DEFINE shift == SymBits - HeaderBits
             Masked(b) == (b % 2^shift) + v * 2^shift
             q == C!CodeTop \div 2^HeaderBits
  <1>1. EncLoose(e) BY DEF EncOK
  <1>2. /\ e \in Contexts /\ e.buf \in [1..e.storage -> Bytes] /\ e.offs \in Nat
        /\ e.end_offs \in Nat /\ e.storage \in Nat /\ e.offs + e.end_offs <= e.storage
        /\ e.rem \in -1..C!SymMax /\ e.rng \in Nat /\ e.val \in Nat /\ e.rng >= 1
        /\ e.val + e.rng <= 2 * C!CodeTop
    BY <1>1, EncFields DEF EncLoose
  <1>3. /\ 2^HeaderBits \in Nat \ {0} /\ v \in Nat /\ v < 2^HeaderBits
        /\ shift \in Nat /\ HeaderBits \in Nat /\ shift + HeaderBits = SymBits
        /\ 2^shift \in Nat \ {0} /\ C!SymMax = 2^SymBits - 1 /\ 2^SymBits \in Nat
    BY HeaderWidths, SmallFacts, Widths DEF C!SymMax
  <1>4. ASSUME NEW b \in Nat PROVE Masked(b) \in Bytes
    <2>1. b % 2^shift \in 0..2^shift - 1 BY <1>3, DivisionBelow, Zenon
    <2>2. b % 2^shift \in Nat /\ b % 2^shift < 2^shift BY <1>3, <2>1
    <2>3. Masked(b) \in Nat /\ Masked(b) < 2^(shift + HeaderBits)
      BY <1>3, <2>2, WindowGrows
    <2>4. Masked(b) < 2^SymBits BY <1>3, <2>3, Zenon
    <2> HIDE DEF Masked
    <2> QED BY <1>3, <2>3, <2>4 DEF Bytes
  <1>5. CASE e.offs > 0
    <2> DEFINE b == Masked(e.buf[1])
    <2>1. x = [e EXCEPT !.buf[1] = b] BY <1>5, Zenon DEF C!PatchInitialBits
    <2>2. 1 \in 1..e.storage /\ e.buf[1] \in Bytes
      <3>1. 1 \in 1..e.storage BY <1>2, <1>5, FirstPlace, Zenon
      <3> QED BY <1>2, <3>1, Zenon
    <2>3. b \in Bytes
      <3>1. e.buf[1] \in Nat BY <2>2, PlainWidths DEF Bytes
      <3> QED BY <1>4, <3>1
    <2> HIDE DEF b
    <2> DEFINE buf == [e.buf EXCEPT ![1] = b]
    <2>4. buf \in [1..e.storage -> Bytes] /\ buf \in Buffers BY <1>2, <2>2, <2>3, BufferIs
    <2>5. x = [e EXCEPT !.buf = buf] BY <2>1
    <2> HIDE DEF buf
    <2>6. /\ x \in Contexts /\ x.buf = buf /\ x.storage = e.storage /\ x.offs = e.offs
          /\ x.end_offs = e.end_offs /\ x.error = e.error
          /\ SameHeld(e, x) /\ SameRaw(e, x) /\ SameCode(e, x)
      BY <1>2, <2>4, <2>5, Zenon DEF Contexts, SameHeld, SameRaw, SameCode
    <2>7. Held(x) = Held(e) BY <2>6 DEF SameHeld, Held
    <2>8. e.storage <= e.storage BY <1>2
    <2>9. Rewrites(e, x) BY <1>2, <2>4, <2>6, <2>7, <2>8, Zenon DEF Rewrites, SameCode
    <2> QED BY <2>9, Rewritten
  <1>6. CASE ~(e.offs > 0) /\ e.rem >= 0
    <2> DEFINE b == Masked(e.rem)
    <2>1. x = [e EXCEPT !.rem = b] BY <1>6, Zenon DEF C!PatchInitialBits
    <2>2. b \in Bytes
      <3>1. e.rem \in -1..C!SymMax /\ e.rem >= 0 BY <1>2, <1>6, Zenon
      <3>2. e.rem \in Nat BY <3>1, ByteHeld, Zenon
      <3> QED BY <1>4, <3>2, Zenon
    <2> HIDE DEF b
    <2>3. b \in -1..C!SymMax /\ b >= 0 BY <2>2, PlainWidths DEF Bytes
    <2>4. /\ x \in Contexts /\ SamePacket(e, x) /\ x.rem = b /\ x.ext = e.ext
          /\ SameRaw(e, x) /\ SameCode(e, x)
      BY <1>2, <2>1, <2>3, Zenon DEF Contexts, SamePacket, SameRaw, SameCode
    <2>5. Held(x) = Held(e) BY <1>6, <2>3, <2>4 DEF Held
    <2>6. e.storage <= e.storage BY <1>2
    <2>7. Rewrites(e, x)
      BY <1>2, <2>4, <2>5, <2>6, Zenon DEF Rewrites, SameCode, SamePacket
    <2> QED BY <2>7, Rewritten
  <1>7. CASE ~(e.offs > 0) /\ ~(e.rem >= 0)
    <2>1. e.rem = -1
      <3>1. e.rem \in -1..C!SymMax /\ ~(e.rem >= 0) BY <1>2, <1>7, Zenon
      <3> QED BY <3>1, PlainWidths
    <2>2. q \in Nat \ {0} /\ C!CodeTop = q * 2^HeaderBits /\ C!CodeTop \in Nat
          /\ 2^(C!CodeShift + shift) = q /\ 2^(C!CodeShift + SymBits) = C!CodeTop
      BY HeaderWidths, Widths
    <2>3. e.val + e.rng <= q BY <2>1 DEF HeaderOpen
    <2> DEFINE val == (e.val % q) + (e.val \div C!CodeTop) * C!CodeTop + v * q
    <2>4. x = [e EXCEPT !.val = val]
      <3>1. e.rng <= C!CodeTop \div 2^HeaderBits
        <4> HIDE DEF q
        <4>1. e.rng \in Nat /\ e.val \in Nat /\ q \in Nat BY <1>2, <2>2
        <4>2. e.rng <= q BY <2>3, <4>1
        <4> QED BY <4>2 DEF q
      <3> QED BY <1>7, <2>2, <3>1, Zenon DEF C!PatchInitialBits
    <2>10. val \in Nat /\ val + e.rng <= 2 * C!CodeTop
      <3>1. v \in Nat /\ v < 2^HeaderBits /\ 2^HeaderBits \in Nat \ {0} BY HeaderWidths
      <3>2. e.val \in Nat /\ e.rng \in Nat /\ e.rng >= 1 BY <1>2
      <3> HIDE DEF q
      <3> QED BY <2>2, <2>3, <3>1, <3>2, PatchedValue, Zenon
    <2> HIDE DEF val
    <2>11. /\ x \in Contexts /\ SamePacket(e, x) /\ SameHeld(e, x) /\ SameRaw(e, x)
           /\ x.rng = e.rng /\ x.nbits_total = e.nbits_total /\ x.val = val
      BY <1>2, <2>4, <2>10, Zenon DEF Contexts, SamePacket, SameRaw, SameHeld
    <2>12. Held(x) = Held(e) BY <2>11 DEF Held, SameHeld
    <2>13. e.storage <= e.storage BY <1>2
    <2>14. Rewrites(e, x)
      BY <1>2, <2>10, <2>11, <2>12, <2>13, Zenon DEF Rewrites, SamePacket
    <2> QED BY <2>14, Rewritten
  <1> QED BY <1>5, <1>6, <1>7

(* ec_enc_shrink moves the raw bits to the new end.                         *)
LEMMA ShrinkIs ==
    ASSUME NEW e, EncOK(e), NEW size \in Nat, e.offs + e.end_offs <= size,
           size < e.storage, NEW x, x = C!EncShrink(e, size)
    PROVE  EncOK(x) /\ SameHeld(e, x) /\ SameCode(e, x)
  <1>1. EncLoose(e) BY DEF EncOK
  <1>2. /\ e \in Contexts /\ e.buf \in [1..e.storage -> Bytes] /\ e.offs \in Nat
        /\ e.end_offs \in Nat /\ e.storage \in Nat /\ e.rng \in Nat /\ e.val \in Nat
        /\ e.val + e.rng <= 2 * C!CodeTop
    BY <1>1, EncFields DEF EncLoose
  <1> DEFINE buf == [i \in 1..size |->
                       IF i > size - e.end_offs THEN e.buf[i + e.storage - size]
                       ELSE e.buf[i]]
  <1>3. x = [e EXCEPT !.storage = size, !.buf = buf] BY Zenon DEF C!EncShrink
  <1>4. buf \in [1..size -> Bytes]
    <2>1. ASSUME NEW i \in 1..size PROVE buf[i] \in Bytes
      <3>1. i + e.storage - size \in 1..e.storage /\ i \in 1..e.storage
        BY <1>2, Moved, Zenon
      <3> QED BY <1>2, <3>1
    <2> QED BY <2>1
  <1> HIDE DEF buf
  <1>5. buf \in Buffers BY <1>4 DEF Buffers
  <1>6. /\ x \in Contexts /\ x.buf = buf /\ x.storage = size /\ x.offs = e.offs
        /\ x.end_offs = e.end_offs /\ x.error = e.error
        /\ SameHeld(e, x) /\ SameRaw(e, x) /\ SameCode(e, x)
    BY <1>2, <1>3, <1>5, Zenon DEF Contexts, SameHeld, SameRaw, SameCode
  <1>7. Held(x) = Held(e) BY <1>6 DEF SameHeld, Held
  <1>8. EncOK(x)
    <2>1. x.storage <= e.storage BY <1>2, <1>6
    <2>2. x.val + x.rng <= 2 * C!CodeTop /\ x.rng = e.rng /\ x.nbits_total = e.nbits_total
      BY <1>2, <1>6 DEF SameCode
    <2>3. Rewrites(e, x) BY <1>4, <1>6, <1>7, <2>1, <2>2, Zenon DEF Rewrites
    <2> QED BY <2>3, Rewritten
  <1> QED BY <1>6, <1>8

LEMMA RisingIs ==
    ASSUME NEW cum \in Seq(Nat), C!Rising(cum), NEW i \in 1..Len(cum)
    PROVE  cum[i] \in Nat /\ cum[i] <= cum[Len(cum)]
  <1> DEFINE n == Len(cum)
             S == {m \in Nat : m < n => cum[n - m] <= cum[n]}
  <1>1. n \in Nat /\ \A j \in 1..n : cum[j] \in Nat OBVIOUS
  <1>2. \A j \in 1..n - 1 : cum[j] <= cum[j + 1] BY DEF C!Rising
  <1> HIDE DEF n
  <1>3. 0 \in S
    <2>1. n - 0 = n BY <1>1
    <2>2. 0 < n => cum[n - 0] <= cum[n]
      <3> SUFFICES ASSUME 0 < n PROVE cum[n - 0] <= cum[n] OBVIOUS
      <3>1. n \in 1..n BY <1>1
      <3>2. cum[n] \in Nat BY <1>1, <3>1
      <3>3. cum[n - 0] = cum[n] BY <2>1
      <3> QED BY <3>2, <3>3
    <2> QED BY <2>2
  <1>4. ASSUME NEW m \in Nat, m \in S PROVE m + 1 \in S
    <2> SUFFICES ASSUME m + 1 < n PROVE cum[n - (m + 1)] <= cum[n] OBVIOUS
    <2>1. cum[n - m] <= cum[n] BY <1>1, <1>4
    <2>2. n - (m + 1) \in 1..n - 1 /\ (n - (m + 1)) + 1 = n - m /\ n - m \in 1..n
          /\ n \in 1..n
          /\ n - (m + 1) \in 1..n
      BY <1>1
    <2>3. cum[n - (m + 1)] <= cum[n - m] BY <1>2, <2>2
    <2>4. cum[n - (m + 1)] \in Nat /\ cum[n - m] \in Nat /\ cum[n] \in Nat BY <1>1, <2>2
    <2> QED BY <2>1, <2>3, <2>4, Through, Zenon
  <1> HIDE DEF S
  <1>5. Nat \subseteq S BY <1>3, <1>4, SetInduction
  <1>6. n - i \in Nat /\ n - i < n /\ n - (n - i) = i BY <1>1 DEF n
  <1>7. cum[n - (n - i)] <= cum[n] BY <1>5, <1>6 DEF S
  <1>8. cum[i] <= cum[n] BY <1>6, <1>7
  <1> QED BY <1>1, <1>8 DEF n

(* ec_encode and its kin, whatever the symbol.                              *)
LEMMA EncodeSymbolIs ==
    ASSUME NEW e, EncOK(e), NEW s, C!Encodable(s), NEW x, x = C!EncodeSymbol(e, s)
    PROVE  EncOK(x) /\ (HeaderOpen(e) => HeaderOpen(x))
  <1>1. CASE s.op = "part"
    <2>1. /\ s.of \in Seq(Nat) /\ C!Rising(s.of) /\ s.of[Len(s.of)] <= C!CodeBot
          /\ s.value \in 0..Len(s.of) - 2 /\ s.of[s.value + 1] < s.of[s.value + 2]
      BY <1>1 DEF C!Encodable
    <2>2. x = C!Encode(e, s.of[s.value + 1], s.of[s.value + 2], s.of[Len(s.of)])
      BY <1>1 DEF C!EncodeSymbol
    <2>3. s.value + 1 \in 1..Len(s.of) /\ s.value + 2 \in 1..Len(s.of)
          /\ Len(s.of) \in 1..Len(s.of)
      <3>1. Len(s.of) \in Nat BY <2>1, LengthNat, Zenon
      <3> QED BY <2>1, <3>1, Places, Zenon
    <2>4. /\ s.of[s.value + 1] \in Nat /\ s.of[s.value + 2] \in Nat
          /\ s.of[Len(s.of)] \in Nat
          /\ s.of[s.value + 2] <= s.of[Len(s.of)]
      BY <2>1, <2>3, RisingIs
    <2> DEFINE fl == s.of[s.value + 1]
               fh == s.of[s.value + 2]
               ft == s.of[Len(s.of)]
    <2>5. fl \in Nat /\ fh \in Nat /\ ft \in Nat /\ fl < fh /\ fh <= ft /\ ft <= C!CodeBot
          /\ x = C!Encode(e, fl, fh, ft)
      BY <2>1, <2>2, <2>4
    <2> HIDE DEF fl, fh, ft
    <2> QED BY <2>5, EncodeIs
  <1>2. CASE s.op = "logp"
    <2>1. s.of \in 1..C!CodeShift BY <1>2 DEF C!Encodable
    <2>2. x = C!EncBitLogp(e, s.value, s.of) BY <1>2 DEF C!EncodeSymbol
    <2> QED BY <2>1, <2>2, EncBitLogpIs
  <1>3. CASE s.op = "icdf"
    <2>1. /\ s.of \in Seq(0..C!SymMax) /\ Len(s.of) >= 1
          /\ s.value \in 0..Len(s.of) - 1
          /\ s.value > 0 => s.of[s.value] > s.of[s.value + 1]
      BY <1>3 DEF C!Encodable, C!Falling
    <2>2. x = C!EncIcdf(e, s.value, s.of, SymBits) BY <1>3 DEF C!EncodeSymbol
    <2>3. C!SymMax \in Nat /\ C!SymMax + 1 = Base /\ Base \in Nat BY PlainWidths
    <2>4. \A i \in 1..Len(s.of) : s.of[i] \in Nat /\ s.of[i] < Base BY <2>1, <2>3
    <2>5. s.of \in Seq(Nat) BY <2>1, <2>4
    <2>6. s.value > 0 => s.of[s.value] < Base /\ s.of[s.value] > s.of[s.value + 1]
      <3>1. s.value > 0 => s.value \in 1..Len(s.of) BY <2>1
      <3> QED BY <2>1, <2>4, <3>1
    <2>7. s.value = 0 => s.of[1] < Base BY <2>1, <2>4
    <2> QED BY <2>1, <2>2, <2>5, <2>6, <2>7, EncIcdfIs
  <1>4. CASE s.op = "uint"
    <2>1. s.of \in 2..2^CodeBits - 1 /\ s.value \in 0..s.of - 1 BY <1>4 DEF C!Encodable
    <2>2. x = C!EncUint(e, s.value, s.of) BY <1>4 DEF C!EncodeSymbol
    <2> QED BY <2>1, <2>2, EncUintIs
  <1>5. CASE s.op = "bits"
    <2>1. s.of \in 1..CodeBits - SymBits + 1 /\ s.value \in 0..2^s.of - 1
      BY <1>5 DEF C!Encodable
    <2>2. x = C!EncBits(e, s.value, s.of) BY <1>5 DEF C!EncodeSymbol
    <2>3. s.of \in Nat /\ 2^s.of \in Nat BY <2>1, PowNat
    <2>4. s.value \in Nat /\ s.value < 2^s.of BY <2>1, <2>3
    <2> QED BY <2>1, <2>2, <2>4, EncBitsIs
  <1> QED BY <1>1, <1>2, <1>3, <1>4, <1>5 DEF C!Encodable

(* The bits that SILK reserves in a packet that is still empty.             *)
Fresh(e) == e.val = 0 /\ e.rng = C!CodeTop /\ e.rem = -1

LEMMA HeaderIs ==
    ASSUME NEW e, EncOK(e), Fresh(e), NEW x, x = C!EncodeSymbol(e, C!Header)
    PROVE  EncOK(x) /\ HeaderOpen(x)
  <1> DEFINE shift == SymBits - HeaderBits
             icdf == <<2^SymBits - 2^shift, 0>>
  <1>1. x = C!EncIcdf(e, 0, icdf, SymBits)
    <2>1. C!Header.op = "header" /\ C!Header.of = HeaderBits BY DEF C!Header
    <2> QED BY <2>1 DEF C!EncodeSymbol
  <1>2. /\ 2^shift \in Nat \ {0} /\ 2^SymBits = Base /\ Base \in Nat
        /\ shift \in Nat /\ shift <= SymBits /\ SymBits \in Nat
        /\ C!CodeTop \div 2^HeaderBits = C!CodeBot * 2^shift
        /\ C!CodeTop = C!CodeBot * Base /\ C!CodeBot \in Nat /\ C!CodeBot > 0
        /\ C!CodeTop \in Nat
    BY HeaderWidths, Widths, SmallFacts
  <1>3. 2^shift <= Base BY <1>2, PowMonotone
  <1> DEFINE p == 2^shift
             a == Base - p
  <1>4. p \in Nat /\ a \in Nat /\ a < Base /\ p <= Base /\ a = Base - p BY <1>2, <1>3
  <1>5. icdf = <<a, 0>> BY <1>2
  <1> HIDE DEF icdf, a, p
  <1>6. icdf \in Seq(Nat) /\ Len(icdf) = 2 /\ icdf[1] = a BY <1>4, <1>5
  <1>7. e.rng \div Base = C!CodeBot
    <2>1. C!CodeTop = Base * C!CodeBot + 0 /\ 0 \in 0..Base - 1 /\ Base \in Nat \ {0}
      BY <1>2, Widths
    <2>2. (Base * C!CodeBot + 0) \div Base = C!CodeBot BY <1>2, <2>1, QuotientIs
    <2> QED BY <2>1, <2>2 DEF Fresh
  <1>8. e.val + e.rng - (e.rng \div Base) * icdf[1] <= C!CodeTop \div 2^HeaderBits
    <2>1. C!CodeBot * a = C!CodeBot * Base - C!CodeBot * p BY <1>2, <1>4
    <2>2. C!CodeBot * p \in Nat /\ C!CodeBot * Base \in Nat BY <1>2, <1>4
    <2>3. C!CodeTop \div 2^HeaderBits = C!CodeBot * p BY <1>2 DEF p
    <2>4. e.val + e.rng - C!CodeBot * a = C!CodeBot * p
      <3> DEFINE u == C!CodeBot * p
                 w == C!CodeBot * a
      <3>1. u \in Nat /\ w = C!CodeTop - u BY <1>2, <2>1, <2>2
      <3> HIDE DEF u, w
      <3>2. e.val + e.rng - w = u BY <1>2, <3>1 DEF Fresh
      <3> QED BY <3>2 DEF u, w
    <2>5. (e.rng \div Base) * icdf[1] = C!CodeBot * a BY <1>6, <1>7
    <2>6. e.val + e.rng - (e.rng \div Base) * icdf[1] = C!CodeBot * p BY <2>4, <2>5
    <2> QED BY <2>2, <2>3, <2>6
  <1>9. 0 \in 0..Len(icdf) - 1 BY <1>6
  <1>10. icdf[1] < Base BY <1>4, <1>6
  <1> QED BY <1>1, <1>6, <1>8, <1>9, <1>10, EncIcdfIs

-----------------------------------------------------------------------------
(* ec_enc_done.  The loop that puts the end of the interval out.            *)
PutTurn(y) ==
    IF y.l > 0
    THEN [enc |-> C!CarryOut(y.enc, y.end \div 2^C!CodeShift),
          end |-> (y.end * 2^SymBits) % C!CodeTop, l |-> y.l - SymBits]
    ELSE y

LEMMA PutEndTurns ==
    ASSUME NEW e, NEW end, NEW l, NEW y, y = [enc |-> e, end |-> end, l |-> l]
    PROVE  C!PutEnd(e, end, l) = PutTurn(PutTurn(PutTurn(PutTurn(y)))).enc
  <1> DEFINE n == CodeBits \div SymBits
             g == CHOOSE f : f = [i \in 0..n |-> IF i = 0 THEN y ELSE PutTurn(f[i - 1])]
  <1>1. C!PutEnd(e, end, l) = g[n].enc BY Zenon DEF C!PutEnd, C!While, C!Times, PutTurn
  <1>2. n = 4 BY SmallFacts
  <1> HIDE DEF n
  <1>3. \E f : f = [i \in 0..n |-> IF i = 0 THEN y ELSE PutTurn(f[i - 1])]
    <2> DEFINE a == PutTurn(y)
               b == PutTurn(a)
               c == PutTurn(b)
               d == PutTurn(c)
               h == [i \in 0..n |-> IF i = 0 THEN y ELSE IF i = 1 THEN a
                                    ELSE IF i = 2 THEN b ELSE IF i = 3 THEN c ELSE d]
    <2>1. ASSUME NEW i \in 0..n PROVE h[i] = IF i = 0 THEN y ELSE PutTurn(h[i - 1])
      <3>1. i = 0 \/ i = 1 \/ i = 2 \/ i = 3 \/ i = 4 BY <1>2
      <3> HIDE DEF a, b, c, d
      <3>2. h[0] = y /\ h[1] = a /\ h[2] = b /\ h[3] = c /\ h[4] = d BY <1>2
      <3>3. a = PutTurn(y) /\ b = PutTurn(a) /\ c = PutTurn(b) /\ d = PutTurn(c)
        BY DEF a, b, c, d
      <3> QED BY <3>1, <3>2, <3>3
    <2>2. h = [i \in 0..n |-> IF i = 0 THEN y ELSE PutTurn(h[i - 1])] BY <2>1
    <2> HIDE DEF h
    <2> QED BY <2>2
  <1>4. g = [i \in 0..n |-> IF i = 0 THEN y ELSE PutTurn(g[i - 1])] BY <1>3
  <1> HIDE DEF g
  <1>5. g[0] = y /\ g[1] = PutTurn(g[0]) /\ g[2] = PutTurn(g[1])
        /\ g[3] = PutTurn(g[2]) /\ g[4] = PutTurn(g[3])
    BY <1>2, <1>4
  <1> QED BY <1>1, <1>2, <1>5

LEMMA PutTurnIs ==
    ASSUME NEW y, Apart(y.enc), y.end \in Nat, y.l \in Int, NEW x, x = PutTurn(y)
    PROVE  /\ Writes(y.enc, x.enc) /\ Apart(x.enc) /\ x.enc.end_offs = y.enc.end_offs
           /\ x.end \in Nat /\ x.l \in Int
           /\ y.l > 0 => /\ x.l = y.l - SymBits
                         /\ y.enc.error = 0 /\ Used(y.enc) <= y.enc.storage =>
                              x.enc.error = 0 /\ Used(x.enc) = Used(y.enc) + 1
           /\ ~(y.l > 0) => x = y
  <1>1. /\ 2^C!CodeShift \in Nat \ {0} /\ 2^SymBits \in Nat /\ C!CodeTop \in Nat \ {0}
        /\ SymBits \in Nat
    BY Widths, SmallFacts
  <1>2. CASE y.l > 0
    <2> DEFINE c == y.end \div 2^C!CodeShift
               v == (y.end * 2^SymBits) % C!CodeTop
               z == C!CarryOut(y.enc, c)
    <2>1. c \in Nat BY <1>1, DivisionBelow, Zenon
    <2>2. v \in Nat
      <3>1. y.end * 2^SymBits \in Nat BY <1>1
      <3>2. v \in 0..C!CodeTop - 1 BY <1>1, <3>1, DivisionBelow, Zenon
      <3> QED BY <1>1, <3>2
    <2>3. x = [enc |-> z, end |-> v, l |-> y.l - SymBits] BY <1>2 DEF PutTurn
    <2> HIDE DEF c, v
    <2>4. /\ Writes(y.enc, z) /\ z.end_offs = y.enc.end_offs
          /\ z.error = 0 => Used(z) = Used(y.enc) + 1
          /\ z.error # 0 /\ y.enc.error = 0 => Used(y.enc) > y.enc.storage
      BY <2>1, CarryOutIs
    <2> HIDE DEF z
    <2>5. x.enc = z /\ x.end = v /\ x.l = y.l - SymBits BY <2>3
    <2>6. Apart(y.enc) /\ y.enc.storage \in Nat /\ Used(y.enc) \in Nat
      <3>1. y.enc \in Contexts BY DEF Apart
      <3>2. /\ y.enc.offs \in Nat /\ y.enc.end_offs \in Nat /\ y.enc.ext \in Nat
            /\ y.enc.storage \in Nat
        BY <3>1, Fields
      <3> QED BY <3>2 DEF Used, Held
    <2>7. y.enc.error = 0 /\ Used(y.enc) <= y.enc.storage => x.enc.error = 0
      BY <2>4, <2>5, <2>6
    <2> QED BY <1>1, <1>2, <2>2, <2>4, <2>5, <2>7 DEF Writes
  <1>3. CASE ~(y.l > 0)
    <2>1. x = y BY <1>3 DEF PutTurn
    <2> QED BY <1>3, <2>1, WritesSame
  <1> QED BY <1>2, <1>3

(* The bytes that l bits take.                                              *)
Octets(l) == IF l = 0 THEN 0 ELSE IF l <= SymBits THEN 1 ELSE 2

LEMMA SpareIs ==
    ASSUME NEW l \in 0..SymBits + 1, NEW spare,
           spare = (SymBits - (l % SymBits)) % SymBits
    PROVE  spare \in 0..SymBits - 1 /\ l + spare = Bits(Octets(l))
  <1>1. SymBits \in Nat \ {0, 1} /\ l \in Nat /\ l <= SymBits + 1 BY SmallFacts
  <1>2. CASE l = 0 \/ l = SymBits
    <2>1. l % SymBits = 0
      <3>1. 0 \in 0..SymBits - 1 /\ SymBits \in Nat \ {0} BY <1>1
      <3>2. SymBits * 0 + 0 = 0 /\ SymBits * 1 + 0 = SymBits BY <1>1
      <3>3. (SymBits * 0 + 0) % SymBits = 0 /\ (SymBits * 1 + 0) % SymBits = 0
        BY <3>1, QuotientIs
      <3> QED BY <1>2, <3>2, <3>3
    <2>2. spare = 0
      <3>1. 0 \in 0..SymBits - 1 /\ SymBits \in Nat \ {0} BY <1>1
      <3>2. SymBits * 1 + 0 = SymBits BY <1>1
      <3>3. (SymBits * 1 + 0) % SymBits = 0 BY <3>1, QuotientIs
      <3> QED BY <1>1, <2>1, <3>2, <3>3
    <2>3. Bits(0) = 0 /\ Bits(1) = SymBits BY <1>1 DEF Bits
    <2> QED BY <1>1, <1>2, <2>2, <2>3 DEF Octets
  <1>3. CASE l > 0 /\ l < SymBits
    <2>1. l \in 0..SymBits - 1 /\ SymBits - l \in 0..SymBits - 1 /\ SymBits \in Nat \ {0}
      BY <1>1, <1>3
    <2>2. l % SymBits = l /\ (SymBits - l) % SymBits = SymBits - l
      BY <2>1, SmallQuotient
    <2>3. spare = SymBits - l BY <2>2
    <2>4. Octets(l) = 1 /\ Bits(1) = SymBits BY <1>1, <1>3 DEF Octets, Bits
    <2> QED BY <1>1, <2>1, <2>3, <2>4
  <1>4. CASE l = SymBits + 1
    <2>1. 1 \in 0..SymBits - 1 /\ SymBits - 1 \in 0..SymBits - 1 /\ SymBits \in Nat \ {0}
      BY <1>1
    <2>2. l = SymBits * 1 + 1 BY <1>1, <1>4
    <2>3. (SymBits * 1 + 1) % SymBits = 1 BY <2>1, QuotientIs
    <2>4. (SymBits - 1) % SymBits = SymBits - 1 BY <2>1, SmallQuotient
    <2>5. spare = SymBits - 1 BY <2>2, <2>3, <2>4
    <2>6. Octets(l) = 2 /\ Bits(2) = SymBits + SymBits BY <1>1, <1>4 DEF Octets, Bits
    <2> QED BY <1>1, <1>4, <2>1, <2>5, <2>6
  <1>5. l = 0 \/ l = SymBits \/ (l > 0 /\ l < SymBits) \/ l = SymBits + 1 BY <1>1
  <1> QED BY <1>2, <1>3, <1>4, <1>5

LEMMA PutEndIs ==
    ASSUME NEW e, Apart(e), NEW end \in Nat, NEW l \in 0..SymBits + 1,
           NEW x, x = C!PutEnd(e, end, l)
    PROVE  /\ Writes(e, x) /\ x.end_offs = e.end_offs
           /\ e.error = 0 /\ Used(e) + Octets(l) <= e.storage =>
                x.error = 0 /\ Used(x) = Used(e) + Octets(l)
  <1> DEFINE y == [enc |-> e, end |-> end, l |-> l]
             a == PutTurn(y)
             b == PutTurn(a)
             c == PutTurn(b)
             d == PutTurn(c)
  <1>1. x = d.enc BY PutEndTurns
  <1>2. y.enc = e /\ y.end = end /\ y.l = l /\ l \in Int OBVIOUS
  <1> HIDE DEF y
  <1>3. /\ Writes(y.enc, a.enc) /\ Apart(a.enc) /\ a.enc.end_offs = y.enc.end_offs
        /\ a.end \in Nat /\ a.l \in Int
        /\ y.l > 0 => /\ a.l = y.l - SymBits
                      /\ y.enc.error = 0 /\ Used(y.enc) <= y.enc.storage =>
                           a.enc.error = 0 /\ Used(a.enc) = Used(y.enc) + 1
        /\ ~(y.l > 0) => a = y
    BY <1>2, PutTurnIs
  <1> HIDE DEF a
  <1>4. /\ Writes(a.enc, b.enc) /\ Apart(b.enc) /\ b.enc.end_offs = a.enc.end_offs
        /\ b.end \in Nat /\ b.l \in Int
        /\ a.l > 0 => /\ b.l = a.l - SymBits
                      /\ a.enc.error = 0 /\ Used(a.enc) <= a.enc.storage =>
                           b.enc.error = 0 /\ Used(b.enc) = Used(a.enc) + 1
        /\ ~(a.l > 0) => b = a
    BY <1>3, PutTurnIs
  <1> HIDE DEF b
  <1>5. SymBits \in Nat \ {0, 1} /\ l \in Nat /\ l <= SymBits + 1 BY SmallFacts
  <1>6. ~(b.l > 0) BY <1>2, <1>3, <1>4, <1>5
  <1>7. c = b BY <1>6 DEF PutTurn
  <1>8. d = b BY <1>6, <1>7 DEF PutTurn
  <1>9. x = b.enc BY <1>1, <1>8
  <1>10. Writes(e, x) /\ x.end_offs = e.end_offs
    BY <1>2, <1>3, <1>4, <1>9, WritesTrans
  <1>11. ASSUME e.error = 0, Used(e) + Octets(l) <= e.storage
         PROVE  x.error = 0 /\ Used(x) = Used(e) + Octets(l)
    <2>1. Used(e) \in Nat /\ e.storage \in Nat
      <3>1. e \in Contexts BY DEF Apart
      <3>2. /\ e.offs \in Nat /\ e.end_offs \in Nat /\ e.ext \in Nat /\ e.storage \in Nat
        BY <3>1, Fields
      <3> QED BY <3>2 DEF Used, Held
    <2>2. a.enc.storage = e.storage BY <1>2, <1>3 DEF Writes
    <2>3. CASE l = 0
      <3>1. a = y /\ b = y BY <1>2, <1>3, <1>4, <2>3
      <3> QED BY <1>2, <1>9, <1>11, <2>1, <2>3, <3>1 DEF Octets
    <2>4. CASE l > 0 /\ l <= SymBits
      <3>1. Octets(l) = 1 BY <1>5, <2>4 DEF Octets
      <3>2. a.enc.error = 0 /\ Used(a.enc) = Used(e) + 1 /\ a.l <= 0
        BY <1>2, <1>3, <1>5, <1>11, <2>1, <2>4, <3>1
      <3>3. b = a BY <1>3, <1>4, <3>2
      <3> QED BY <1>9, <3>1, <3>2, <3>3
    <2>5. CASE l = SymBits + 1
      <3>1. Octets(l) = 2 BY <1>5, <2>5 DEF Octets
      <3>2. a.enc.error = 0 /\ Used(a.enc) = Used(e) + 1 /\ a.l = 1
        BY <1>2, <1>3, <1>5, <1>11, <2>1, <2>5, <3>1
      <3>3. b.enc.error = 0 /\ Used(b.enc) = Used(a.enc) + 1
        BY <1>4, <1>11, <2>1, <2>2, <3>1, <3>2
      <3> QED BY <1>9, <2>1, <3>1, <3>2, <3>3
    <2> QED BY <1>5, <2>3, <2>4, <2>5
  <1> QED BY <1>10, <1>11

-----------------------------------------------------------------------------
(* The bits of two numbers together: a byte.                                *)
Joined(a, b, n, g) ==
    g = [i \in 0..n |->
           IF i = 0 THEN 0
           ELSE g[i - 1] + (IF ((a \div 2^(i - 1)) % 2) + ((b \div 2^(i - 1)) % 2) > 0
                            THEN 2^(i - 1) ELSE 0)]

LEMMA JoinedExists ==
    ASSUME NEW a, NEW b, NEW n \in Nat
    PROVE  \E g : Joined(a, b, n, g)
  <1> DEFINE T(i) == IF ((a \div 2^i) % 2) + ((b \div 2^i) % 2) > 0 THEN 2^i ELSE 0
             S == {m \in Nat : \E g : Joined(a, b, m, g)}
  <1>1. 0 \in S
    <2> DEFINE h == [i \in 0..0 |-> 0]
    <2>1. h = [i \in 0..0 |-> IF i = 0 THEN 0 ELSE h[i - 1] + T(i - 1)] OBVIOUS
    <2> HIDE DEF h
    <2>2. Joined(a, b, 0, h) BY <2>1 DEF Joined
    <2> QED BY <2>2
  <1>2. ASSUME NEW m \in Nat, m \in S PROVE m + 1 \in S
    <2>1. PICK g : Joined(a, b, m, g) BY <1>2
    <2> HIDE DEF T
    <2>2. g = [i \in 0..m |-> IF i = 0 THEN 0 ELSE g[i - 1] + T(i - 1)]
      BY <2>1, Zenon DEF Joined, T
    <2> DEFINE h == [i \in 0..m + 1 |-> IF i = m + 1 THEN g[m] + T(m) ELSE g[i]]
    <2>3. \A i \in 0..m : h[i] = g[i] /\ g[i] = IF i = 0 THEN 0 ELSE g[i - 1] + T(i - 1)
      BY <2>2
    <2>4. h[m + 1] = g[m] + T(m) OBVIOUS
    <2>5. ASSUME NEW i \in 0..m + 1
          PROVE  h[i] = IF i = 0 THEN 0 ELSE h[i - 1] + T(i - 1)
      <3>1. CASE i = m + 1
        <4>1. i # 0 /\ i - 1 = m /\ m \in 0..m BY <3>1
        <4> QED BY <2>3, <2>4, <3>1, <4>1
      <3>2. CASE i \in 0..m
        <4>1. i # 0 => i - 1 \in 0..m BY <3>2
        <4> QED BY <2>3, <3>2, <4>1
      <3> QED BY <3>1, <3>2
    <2>6. h = [i \in 0..m + 1 |-> IF i = 0 THEN 0 ELSE h[i - 1] + T(i - 1)]
      BY <2>5
    <2> HIDE DEF h
    <2>7. Joined(a, b, m + 1, h) BY <2>6, Zenon DEF Joined, T
    <2> QED BY <2>7
  <1> HIDE DEF S
  <1>3. Nat \subseteq S BY <1>1, <1>2, SetInduction
  <1> QED BY <1>3 DEF S

LEMMA BitOrIs == ASSUME NEW a, NEW b PROVE C!BitOr(a, b) \in Bytes
  <1> DEFINE g == CHOOSE f : Joined(a, b, SymBits, f)
             S == {m \in Nat : m <= SymBits => g[m] \in 0..2^m - 1}
  <1>1. SymBits \in Nat BY SmallFacts
  <1>2. Joined(a, b, SymBits, g) BY <1>1, JoinedExists
  <1>3. C!BitOr(a, b) = g[SymBits] BY Zenon DEF C!BitOr, Joined
  <1> HIDE DEF g
  <1>4. g[0] = 0 /\ \A i \in 1..SymBits : \E t \in {0, 2^(i - 1)} : g[i] = g[i - 1] + t
    <2> DEFINE T(i) == IF ((a \div 2^i) % 2) + ((b \div 2^i) % 2) > 0 THEN 2^i ELSE 0
    <2>1. \A i : T(i) \in {0, 2^i} OBVIOUS
    <2> HIDE DEF T
    <2>2. g = [i \in 0..SymBits |-> IF i = 0 THEN 0 ELSE g[i - 1] + T(i - 1)]
      BY <1>2, Zenon DEF Joined, T
    <2>3. \A i \in 0..SymBits : g[i] = IF i = 0 THEN 0 ELSE g[i - 1] + T(i - 1)
      BY <2>2
    <2>4. g[0] = 0 BY <1>1, <2>3
    <2>5. ASSUME NEW i \in 1..SymBits
          PROVE  \E t \in {0, 2^(i - 1)} : g[i] = g[i - 1] + t
      <3>1. g[i] = g[i - 1] + T(i - 1) BY <1>1, <2>3
      <3>2. T(i - 1) \in {0, 2^(i - 1)} BY <2>1
      <3> QED BY <3>1, <3>2
    <2> QED BY <2>4, <2>5
  <1>5. 0 \in S
    <2>1. 2^0 = 1 BY PowZero
    <2>2. g[0] \in 0..2^0 - 1 BY <1>4, <2>1
    <2> QED BY <2>2
  <1>6. ASSUME NEW m \in Nat, m \in S PROVE m + 1 \in S
    <2> SUFFICES ASSUME m + 1 <= SymBits PROVE g[m + 1] \in 0..2^(m + 1) - 1 OBVIOUS
    <2>1. m <= SymBits /\ m + 1 \in 1..SymBits /\ (m + 1) - 1 = m BY <1>1
    <2>2. g[m] \in 0..2^m - 1 BY <1>6, <2>1
    <2>3. PICK t \in {0, 2^m} : g[m + 1] = g[m] + t BY <1>4, <2>1
    <2>4. 2^(m + 1) = 2 * 2^m /\ 2^m \in Nat BY PowStep, PowNat
    <2> DEFINE p == 2^m
    <2>5. p \in Nat /\ g[m] \in 0..p - 1 /\ t \in {0, p} /\ g[m + 1] = g[m] + t
          /\ 2^(m + 1) = 2 * p
      BY <2>2, <2>3, <2>4
    <2> HIDE DEF p
    <2>6. g[m + 1] \in 0..2 * p - 1 BY <2>5
    <2> QED BY <2>5, <2>6
  <1> HIDE DEF S
  <1>7. SymBits \in S BY <1>1, <1>5, <1>6, SetInduction
  <1>8. g[SymBits] \in 0..2^SymBits - 1 BY <1>1, <1>7 DEF S
  <1> QED BY <1>3, <1>8 DEF Bytes, C!SymMax

(* How many bits the end of an interval needs.                              *)
LEMMA EndBits ==
    ASSUME NEW rng \in C!CodeBot + 1..C!CodeTop, NEW l0, l0 = CodeBits - C!EC_ILOG(rng)
    PROVE  l0 \in 0..SymBits /\ C!EC_ILOG(rng) \in 0..CodeBits
  <1>1. /\ SymBits \in Nat /\ CodeBits \in Nat /\ CodeBits = 4 * SymBits
        /\ C!CodeShift \in Nat /\ C!CodeShift = 3 * SymBits - 1
        /\ C!CodeBot \in Nat /\ C!CodeTop \in Nat /\ 2^CodeBits = 2 * C!CodeTop
        /\ 2^C!CodeShift = C!CodeBot
    BY SmallFacts, Widths
  <1>2. rng \in Nat /\ rng < 2^CodeBits /\ rng > C!CodeBot BY <1>1
  <1> DEFINE n == C!EC_ILOG(rng)
  <1>3. n \in 0..CodeBits /\ rng < 2^n BY <1>2, IlogIs
  <1> HIDE DEF n
  <1>4. n \in Nat BY <1>1, <1>3
  <1>5. n > C!CodeShift
    <2> SUFFICES ASSUME n <= C!CodeShift PROVE FALSE BY <1>1, <1>4
    <2>1. 2^n <= C!CodeBot /\ 2^n \in Nat BY <1>1, <1>4, PowMonotone, PowNat
    <2> QED BY <1>1, <1>2, <1>3, <2>1
  <1>6. CodeBits - n \in 0..SymBits BY <1>1, <1>3, <1>4, <1>5
  <1> QED BY <1>3, <1>6 DEF n

(* The registers of a context that is left alone from now on.               *)
Closed(e, x) ==
    /\ Apart(x) /\ WindowOK(x) /\ x.storage = e.storage
    /\ x.rng = e.rng /\ x.val = e.val /\ x.nbits_total = e.nbits_total

(* All that ec_enc_done puts out in front has room when ec_tell says so.    *)
LEMMA FlushedIs ==
    ASSUME NEW e, EncOK(e), NEW end \in Nat, NEW l \in 0..SymBits + 1,
           NEW out, out = C!PutEnd(e, end, l),
           NEW y, y = IF out.rem >= 0 \/ out.ext > 0 THEN C!CarryOut(out, 0) ELSE out,
           NEW z, z = C!FlushWindow(y),
           NEW spare, spare = (SymBits - (l % SymBits)) % SymBits
    PROVE  /\ Closed(e, z) /\ spare \in 0..SymBits - 1 /\ z.nend_bits < SymBits
           /\ e.error = 0 /\ l + Bits(Used(e)) + e.nend_bits <= Bits(e.storage) =>
                Fits(z, spare) /\ (z.offs = 0 => spare = 0)
  <1>1. EncLoose(e) /\ Apart(e) BY DEF EncOK, EncLoose
  <1>2. /\ SymBits \in Nat \ {0, 1} /\ e.storage \in Nat /\ Used(e) \in Nat
        /\ e.nend_bits \in Nat /\ e.offs \in Nat /\ e.end_offs \in Nat /\ Held(e) \in Nat
        /\ l \in Nat
    BY <1>1, EncFields, SmallFacts
  <1>3. /\ Writes(e, out) /\ out.end_offs = e.end_offs
        /\ e.error = 0 /\ Used(e) + Octets(l) <= e.storage =>
             out.error = 0 /\ Used(out) = Used(e) + Octets(l)
    BY <1>1, PutEndIs
  <1>4. spare \in 0..SymBits - 1 /\ l + spare = Bits(Octets(l)) /\ Octets(l) \in Nat
    BY <1>2, SpareIs DEF Octets
  <1>5. Apart(out) /\ out.storage = e.storage BY <1>3 DEF Writes
  <1>6. /\ out \in Contexts /\ out.offs \in Nat /\ out.end_offs \in Nat /\ out.ext \in Nat
        /\ out.rem \in -1..C!SymMax /\ Held(out) \in Nat
    <2>1. out \in Contexts BY <1>5 DEF Apart
    <2>2. out.offs \in Nat /\ out.end_offs \in Nat /\ out.ext \in Nat
          /\ out.rem \in -1..C!SymMax
      BY <2>1, Fields
    <2> QED BY <2>1, <2>2 DEF Held
  <1>7. /\ Writes(out, y) /\ y.end_offs = out.end_offs
        /\ out.error = 0 /\ Used(out) <= out.storage =>
             y.error = 0 /\ y.offs = out.offs + Held(out)
    <2>1. CASE out.rem >= 0 \/ out.ext > 0
      <3>1. y = C!CarryOut(out, 0) BY <2>1
      <3>2. 0 \in Nat /\ 0 # C!SymMax BY PlainWidths
      <3>3. /\ Writes(out, y) /\ y.end_offs = out.end_offs /\ y.rem >= 0 /\ y.ext = 0
            /\ y.error = 0 => out.error = 0 /\ Used(y) = Used(out) + 1
            /\ y.error # 0 /\ out.error = 0 => Used(out) > out.storage
        BY <1>5, <3>1, <3>2, CarryOutIs
      <3>4. ASSUME out.error = 0, Used(out) <= out.storage
            PROVE  y.error = 0 /\ y.offs = out.offs + Held(out)
        <4>1. y.error = 0
          <5>1. Used(out) \in Nat /\ out.storage \in Nat BY <1>2, <1>5, <1>6 DEF Used
          <5> QED BY <3>3, <3>4, <5>1
        <4>2. Used(y) = Used(out) + 1 /\ Held(y) = 1 BY <3>3, <4>1 DEF Held
        <4>3. y.offs \in Nat
          <5>1. Apart(y) BY <3>3 DEF Writes
          <5> QED BY <5>1, ApartIs
        <4>4. y.offs + y.end_offs + 1 = out.offs + out.end_offs + Held(out) + 1
          <5>1. Used(y) = y.offs + y.end_offs + Held(y) BY DEF Used
          <5>2. Used(out) = out.offs + out.end_offs + Held(out) BY DEF Used
          <5> QED BY <4>2, <5>1, <5>2
        <4> QED BY <1>6, <3>3, <4>1, <4>3, <4>4
      <3> QED BY <3>3, <3>4
    <2>2. CASE ~(out.rem >= 0 \/ out.ext > 0)
      <3>1. y = out BY <2>2
      <3>2. Held(out) = 0 BY <1>6, <2>2 DEF Held
      <3> QED BY <1>5, <1>6, <3>1, <3>2, WritesSame
    <2> QED BY <2>1, <2>2
  <1>8. Writes(e, y) BY <1>3, <1>7, WritesTrans
  <1>9. Apart(y) /\ WindowOK(y) /\ y.nend_bits = e.nend_bits /\ y.storage = e.storage
    BY <1>1, <1>8 DEF Writes, WindowOK, SameRaw, EncLoose
  <1>10. /\ Flushes(y, z) /\ z.nend_bits < SymBits
         /\ \A s \in 0..SymBits - 1 : Fits(y, s) => Fits(z, s)
    BY <1>9, FlushWindowIs
  <1>11. Closed(e, z)
    BY <1>8, <1>10 DEF Closed, Flushes, Writes, SameCode
  <1>12. ASSUME e.error = 0, l + Bits(Used(e)) + e.nend_bits <= Bits(e.storage)
         PROVE  Fits(z, spare) /\ (z.offs = 0 => spare = 0)
    <2> DEFINE a == Octets(l)
               u == Used(e) + a
    <2>1. a \in Nat /\ u \in Nat BY <1>2, <1>4
    <2>2. Bits(u) = Bits(Used(e)) + Bits(a) /\ Bits(Used(e)) \in Nat /\ Bits(a) \in Nat
          /\ Bits(e.storage) \in Nat /\ Bits(u) \in Nat
      <3> HIDE DEF a
      <3>1. SymBits * (Used(e) + a) = SymBits * Used(e) + SymBits * a BY <1>2, <2>1
      <3> QED BY <1>2, <2>1, <3>1, SymTimes DEF Bits
    <2>3. Bits(u) + e.nend_bits <= Bits(e.storage) + spare /\ spare \in Nat
          /\ spare < SymBits
      <3> HIDE DEF u
      <3>1. Bits(u) = Bits(Used(e)) + l + spare BY <1>2, <1>4, <2>2
      <3> QED BY <1>2, <1>4, <1>12, <2>2, <3>1
    <2>4. u <= e.storage
      <3> HIDE DEF u
      <3> SUFFICES ASSUME e.storage < u PROVE FALSE BY <1>2, <2>1
      <3>1. Bits(e.storage) + SymBits <= Bits(u) BY <1>2, <2>1, SymTimes
      <3> QED BY <1>2, <2>2, <2>3, <3>1
    <2>5. out.error = 0 /\ Used(out) = u BY <1>3, <1>12, <2>4
    <2>6. y.error = 0 /\ y.offs = out.offs + Held(out) BY <1>5, <1>7, <2>4, <2>5
    <2>7. y.offs + y.end_offs = u
      <3>1. Used(out) = out.offs + out.end_offs + Held(out) BY DEF Used
      <3> HIDE DEF u
      <3> QED BY <1>6, <1>7, <2>5, <2>6, <3>1
    <2>8. Fits(y, spare) BY <1>9, <2>3, <2>6, <2>7 DEF Fits
    <2>9. Fits(z, spare) BY <1>4, <1>10, <2>8
    <2>10. z.offs = 0 => spare = 0
      <3> SUFFICES ASSUME z.offs = 0 PROVE spare = 0 OBVIOUS
      <3>1. y.offs = 0 BY <1>10 DEF Flushes
      <3>2. y.end_offs = e.end_offs BY <1>3, <1>7
      <3>3. e.end_offs = Used(e) + Octets(l) BY <1>2, <2>7, <3>1, <3>2
      <3>4. Used(e) = e.offs + e.end_offs + Held(e) BY DEF Used
      <3>5. Octets(l) = 0 BY <1>2, <1>4, <3>3, <3>4
      <3>6. l = 0 BY <3>5 DEF Octets
      <3>7. Bits(Octets(l)) = 0 BY <1>2, <3>5 DEF Bits
      <3> QED BY <1>4, <3>6, <3>7
    <2> QED BY <2>9, <2>10
  <1> QED BY <1>4, <1>10, <1>11, <1>12

(* The bytes between the two ends are cleared.                              *)
LEMMA ClearedIs ==
    ASSUME NEW e, NEW z, Closed(e, z), e.storage \in Nat,
           NEW x, x = [z EXCEPT !.buf = [i \in 1..e.storage |->
                         IF i > z.offs /\ i <= e.storage - z.end_offs THEN 0 ELSE z.buf[i]]]
    PROVE  Closed(e, x) /\ x.error = z.error /\ x.end_offs = z.end_offs
  <1>1. /\ z \in Contexts /\ z.buf \in [1..e.storage -> Bytes] /\ z.storage = e.storage
        /\ z.offs + z.end_offs <= z.storage
    BY ApartIs DEF Closed
  <1> DEFINE buf == [i \in 1..e.storage |->
                       IF i > z.offs /\ i <= e.storage - z.end_offs THEN 0 ELSE z.buf[i]]
  <1>2. 0 \in Bytes BY PlainWidths DEF Bytes
  <1>3. buf \in [1..e.storage -> Bytes] BY <1>1, <1>2
  <1>4. x = [z EXCEPT !.buf = buf] OBVIOUS
  <1> HIDE DEF buf
  <1>5. buf \in Buffers BY <1>3 DEF Buffers
  <1>6. /\ x \in Contexts /\ x.buf = buf /\ x.storage = z.storage /\ x.offs = z.offs
        /\ x.end_offs = z.end_offs /\ x.error = z.error
        /\ SameRaw(z, x) /\ SameCode(z, x)
    BY <1>1, <1>4, <1>5, Zenon DEF Contexts, SameRaw, SameCode
  <1>7. Apart(x) BY <1>1, <1>3, <1>6 DEF Apart
  <1>8. WindowOK(x) BY <1>6 DEF Closed, WindowOK, SameRaw
  <1> QED BY <1>6, <1>7, <1>8 DEF Closed, SameCode

(* The last raw bits join the byte that is there.                           *)
LEMMA LastIs ==
    ASSUME NEW e, NEW z, Closed(e, z), NEW x \in Contexts,
           x.buf \in [1..z.storage -> Bytes], x.storage = z.storage, x.offs = z.offs,
           x.end_offs = z.end_offs, SameRaw(z, x), SameCode(z, x)
    PROVE  Closed(e, x)
  <1>1. Apart(x) BY ApartIs DEF Closed, Apart
  <1>2. WindowOK(x) BY DEF Closed, WindowOK, SameRaw
  <1> QED BY <1>1, <1>2 DEF Closed, SameCode

LEMMA EncDoneIs ==
    ASSUME NEW e, EncOK(e), NEW x, x = C!EncDone(e)
    PROVE  Closed(e, x) /\ (C!Tell(x) <= SymBits * x.storage => x.error = 0)
  <1> DEFINE l0 == CodeBits - C!EC_ILOG(e.rng)
             Msk(m) == (C!CodeTop - 1) \div 2^m
             End(m) == ((e.val + Msk(m)) \div (Msk(m) + 1)) * (Msk(m) + 1)
             l == IF End(l0) + Msk(l0) >= e.val + e.rng THEN l0 + 1 ELSE l0
             out == C!PutEnd(e, End(l), l)
             y == IF out.rem >= 0 \/ out.ext > 0 THEN C!CarryOut(out, 0) ELSE out
             z == C!FlushWindow(y)
             cleared == [z EXCEPT !.buf = [i \in 1..e.storage |->
                           IF i > z.offs /\ i <= e.storage - z.end_offs
                           THEN 0 ELSE z.buf[i]]]
             spare == (SymBits - (l % SymBits)) % SymBits
             busted == z.offs + z.end_offs >= e.storage /\ spare < z.nend_bits
             edge == e.storage - z.end_offs
             err == IF busted THEN -1 ELSE 0
             more == IF busted THEN z.end_window % 2^spare ELSE z.end_window
  <1>1. x = IF z.error # 0 THEN z
            ELSE IF z.nend_bits = 0 THEN cleared
            ELSE IF z.end_offs >= e.storage THEN [cleared EXCEPT !.error = -1]
            ELSE [cleared EXCEPT !.error = err,
                                 !.buf[edge] = C!BitOr(cleared.buf[edge], more)]
    BY Zenon DEF C!EncDone
  <1>2. EncLoose(e) /\ e.rng \in C!CodeBot + 1..C!CodeTop
    BY PlainWidths DEF EncOK, EncLoose
  <1>3. /\ e.storage \in Nat /\ Used(e) \in Nat /\ e.nend_bits \in Nat /\ e.val \in Nat
        /\ e.nbits_total \in Int /\ CodeBits \in Nat /\ SymBits \in Nat \ {0, 1}
        /\ C!CodeTop \in Nat /\ C!CodeTop >= 1
    BY <1>2, EncFields, SmallFacts, Widths
  <1>4. l0 \in 0..SymBits /\ C!EC_ILOG(e.rng) \in 0..CodeBits BY <1>2, EndBits
  <1> HIDE DEF l0
  <1>5. l \in 0..SymBits + 1 /\ l <= l0 + 1 /\ l \in Nat BY <1>3, <1>4
  <1>6. End(l) \in Nat
    <2> HIDE DEF l
    <2>1. 2^l \in Nat \ {0} /\ C!CodeTop - 1 \in Nat BY <1>3, <1>5, PowPositive
    <2>2. Msk(l) \in Nat BY <2>1, DivisionBelow, Zenon
    <2> HIDE DEF Msk
    <2>3. e.val + Msk(l) \in Nat /\ Msk(l) + 1 \in Nat \ {0} BY <1>3, <2>2
    <2>4. (e.val + Msk(l)) \div (Msk(l) + 1) \in Nat BY <2>3, DivisionBelow, Zenon
    <2> QED BY <2>3, <2>4
  <1> DEFINE roomy == e.error = 0 /\ l + Bits(Used(e)) + e.nend_bits <= Bits(e.storage)
  <1> HIDE DEF l, End
  <1>7. /\ Closed(e, z) /\ spare \in 0..SymBits - 1 /\ z.nend_bits < SymBits
        /\ roomy => Fits(z, spare) /\ (z.offs = 0 => spare = 0)
    BY <1>5, <1>6, FlushedIs
  <1> HIDE DEF out, y, z
  <1>8. Closed(e, cleared) /\ cleared.error = z.error /\ cleared.end_offs = z.end_offs
    <2>1. Closed(e, z) /\ e.storage \in Nat BY <1>3, <1>7, Zenon
    <2>2. cleared = [z EXCEPT !.buf = [i \in 1..e.storage |->
                       IF i > z.offs /\ i <= e.storage - z.end_offs THEN 0 ELSE z.buf[i]]]
      BY Zenon
    <2> HIDE DEF cleared
    <2> QED BY <2>1, <2>2, ClearedIs, SMTT(30)
  <1>9. /\ z \in Contexts /\ z.offs \in Nat /\ z.end_offs \in Nat /\ z.nend_bits \in Nat
        /\ z.storage = e.storage /\ z.offs + z.end_offs <= e.storage
    <2>1. Apart(z) /\ z.storage = e.storage BY <1>7 DEF Closed
    <2> QED BY <2>1, ApartIs, Fields
  <1> HIDE DEF cleared, spare
  <1>10. Closed(e, x) /\ (z.error = 0 /\ z.nend_bits = 0 => x.error = 0)
         /\ (z.error = 0 /\ z.nend_bits # 0 /\ ~(z.end_offs >= e.storage) /\ ~busted
               => x.error = 0)
    <2>1. CASE z.error # 0 BY <1>1, <1>7, <2>1
    <2>2. CASE z.error = 0 /\ z.nend_bits = 0 BY <1>1, <1>8, <2>2
    <2>3. CASE z.error = 0 /\ z.nend_bits # 0 /\ z.end_offs >= e.storage
      <3>1. x = [cleared EXCEPT !.error = -1] BY <1>1, <2>3
      <3>2. Apart(cleared) BY <1>8 DEF Closed
      <3>3. Writes(cleared, x) BY <3>1, <3>2, Fails
      <3>4. Closed(e, x)
        BY <1>8, <3>3 DEF Closed, Writes, SameRaw, SameCode, WindowOK
      <3> QED BY <2>3, <3>4
    <2>4. CASE z.error = 0 /\ z.nend_bits # 0 /\ ~(z.end_offs >= e.storage)
      <3> DEFINE b == C!BitOr(cleared.buf[edge], more)
      <3>1. x = [cleared EXCEPT !.error = err, !.buf[edge] = b] BY <1>1, <2>4
      <3>2. b \in Bytes BY BitOrIs
      <3> HIDE DEF b
      <3>3. edge \in 1..cleared.storage BY <1>3, <1>8, <1>9, <2>4 DEF Closed
      <3>4. err \in -1..0 OBVIOUS
      <3> HIDE DEF edge, err
      <3> DEFINE buf == [cleared.buf EXCEPT ![edge] = b]
      <3>5. x = [cleared EXCEPT !.error = err, !.buf = buf] BY <3>1
      <3>6. buf \in [1..cleared.storage -> Bytes]
        <4>1. cleared.buf \in [1..cleared.storage -> Bytes] BY <1>8, ApartIs DEF Closed
        <4> QED BY <3>2, <3>3, <4>1
      <3> HIDE DEF buf
      <3>7. Closed(e, cleared) /\ cleared \in Contexts /\ buf \in Buffers /\ err \in -1..1
        <4>1. Closed(e, cleared) BY <1>8
        <4>2. cleared \in Contexts /\ cleared.storage \in Nat BY <4>1, ApartIs DEF Closed
        <4>3. err \in -1..1 BY <3>4
        <4> QED BY <3>6, <4>1, <4>2, <4>3 DEF Buffers
      <3>8. /\ x \in Contexts /\ x.buf = buf /\ x.storage = cleared.storage
            /\ x.offs = cleared.offs /\ x.end_offs = cleared.end_offs /\ x.error = err
            /\ SameRaw(cleared, x) /\ SameCode(cleared, x)
        BY <3>5, <3>7, Zenon DEF Contexts, SameRaw, SameCode
      <3>9. Closed(e, x) /\ x.error = err BY <3>6, <3>7, <3>8, LastIs
      <3> QED BY <2>4, <3>9 DEF err
    <2> QED BY <2>1, <2>2, <2>3, <2>4
  <1>11. ASSUME roomy PROVE x.error = 0
    <2>1. Fits(z, spare) /\ (z.offs = 0 => spare = 0) /\ spare \in Nat BY <1>7, <1>11, <1>3
    <2> DEFINE m == z.offs + z.end_offs
    <2>2. z.error = 0 /\ Bits(m) + z.nend_bits <= Bits(e.storage) + spare /\ m \in Nat
      BY <1>9, <2>1 DEF Fits
    <2>3. Bits(m) \in Nat /\ Bits(e.storage) \in Nat BY <1>3, <2>2, SymTimes
    <2>4. m = e.storage => z.nend_bits <= spare
      <3> HIDE DEF m
      <3> QED BY <1>9, <2>1, <2>2, <2>3
    <2>5. m >= e.storage => m = e.storage BY <1>3, <1>9
    <2>6. ~busted BY <1>9, <2>1, <2>4, <2>5
    <2>7. z.end_offs >= e.storage => z.nend_bits = 0
      <3> SUFFICES ASSUME z.end_offs >= e.storage PROVE z.nend_bits = 0 OBVIOUS
      <3>1. z.offs = 0 /\ m = e.storage BY <1>3, <1>9
      <3> QED BY <1>9, <2>1, <2>4, <3>1
    <2> QED BY <1>10, <2>2, <2>6, <2>7
  <1>12. ASSUME C!Tell(x) <= SymBits * x.storage PROVE roomy
    <2>1. x.nbits_total = e.nbits_total /\ x.rng = e.rng /\ x.storage = e.storage
      BY <1>10 DEF Closed
    <2> DEFINE n == C!EC_ILOG(e.rng)
    <2>2. e.nbits_total - n <= Bits(e.storage) BY <1>12, <2>1 DEF C!Tell, Bits
    <2>3. n \in 0..CodeBits /\ n \in Nat /\ l0 = CodeBits - n BY <1>3, <1>4 DEF l0
    <2> HIDE DEF n
    <2>4. Bits(e.storage) \in Nat /\ Bits(Used(e)) \in Nat BY <1>3, SymTimes
    <2>5. RoomOK(e) BY <1>2 DEF EncLoose
    <2>6. e.error = 0
      <3> SUFFICES ASSUME e.error # 0 PROVE FALSE OBVIOUS
      <3>1. e.nbits_total > CodeBits + Bits(e.storage) BY <2>5 DEF RoomOK
      <3> QED BY <1>3, <2>2, <2>3, <2>4, <3>1
    <2>7. e.nbits_total = CodeBits + 1 + Bits(Used(e)) + e.nend_bits
      BY <2>5, <2>6 DEF RoomOK
    <2>8. l + Bits(Used(e)) + e.nend_bits <= Bits(e.storage)
      BY <1>3, <1>5, <2>2, <2>3, <2>4, <2>7
    <2> QED BY <2>6, <2>8
  <1> QED BY <1>10, <1>11, <1>12

-----------------------------------------------------------------------------
(* The decoder between two symbols, and before it is normalized: the code   *)
(* lies in the interval.                                                    *)
DecLoose(d) ==
    /\ d \in Contexts /\ d.buf \in [1..d.storage -> Bytes] /\ d.rem >= 0
    /\ d.offs <= d.storage /\ d.end_offs <= d.storage /\ WindowOK(d)
    /\ d.rng \in 1..C!CodeTop /\ d.val < d.rng
DecOK(d) == DecLoose(d) /\ d.rng > C!CodeBot

LEMMA DecFields ==
    ASSUME NEW d, DecLoose(d)
    PROVE  /\ d \in Contexts /\ d.storage \in Nat /\ d.offs \in Nat /\ d.end_offs \in Nat
           /\ d.nbits_total \in Int /\ d.rng \in Nat /\ d.val \in Nat
           /\ d.rem \in Bytes /\ d.rem \in Nat /\ d.nend_bits \in Nat
           /\ d.end_window \in Nat
           /\ d.ext \in Nat
  <1>1. d \in Contexts BY DEF DecLoose
  <1>2. d.rem \in -1..C!SymMax /\ d.rem >= 0 BY <1>1, Fields DEF DecLoose
  <1>3. d.rem \in Bytes /\ d.rem \in Nat BY <1>2, PlainWidths DEF Bytes
  <1> QED BY <1>1, <1>3, Fields, Zenon

LEMMA ShiftedCode ==
    ASSUME NEW val \in Nat, NEW rng \in Nat, val < rng, rng <= C!CodeBot, NEW s \in Bytes,
           NEW v, v = (val * Base + C!SymMax - s) % C!CodeTop
    PROVE  v \in Nat /\ v < rng * Base /\ rng * Base \in 1..C!CodeTop
  <1>1. /\ Base \in Nat /\ Base >= 4 /\ C!SymMax = Base - 1 /\ C!CodeBot \in Nat
        /\ C!CodeTop \in Nat /\ C!CodeTop = C!CodeBot * Base
    BY Widths
  <1>2. (val + 1) * Base <= rng * Base /\ rng * Base <= C!CodeBot * Base
        /\ (val + 1) * Base = val * Base + Base /\ val * Base \in Nat /\ rng * Base \in Nat
    BY <1>1, ProductGrows
  <1> DEFINE o == val * Base
             t == rng * Base
             w == o + C!SymMax - s
  <1>3. o \in Nat /\ t \in Nat /\ o + Base <= t /\ t <= C!CodeTop BY <1>1, <1>2
  <1>4. s \in Nat /\ s <= C!SymMax BY <1>1 DEF Bytes
  <1>5. v = w % C!CodeTop OBVIOUS
  <1> HIDE DEF o, t
  <1>6. w \in Nat /\ w < t /\ t >= 1 BY <1>1, <1>3, <1>4
  <1> HIDE DEF w
  <1>7. w \in 0..C!CodeTop - 1 /\ C!CodeTop \in Nat \ {0} BY <1>1, <1>3, <1>6
  <1>8. v = w BY <1>5, <1>7, SmallQuotient
  <1>9. t \in 1..C!CodeTop BY <1>1, <1>3, <1>6
  <1> QED BY <1>6, <1>8, <1>9 DEF t

LEMMA NextByteIs ==
    ASSUME NEW d, DecLoose(d), d.rng <= C!CodeBot, NEW x, x = C!NextByte(d)
    PROVE  DecLoose(x) /\ x.rng = d.rng * Base
  <1> DEFINE byte == IF d.offs < d.storage THEN d.buf[d.offs + 1] ELSE 0
             sym == (d.rem * Base + byte) \div 2^(SymBits - C!CodeExtra)
             s == sym % (C!SymMax + 1)
             offs == IF d.offs < d.storage THEN d.offs + 1 ELSE d.offs
             v == (d.val * Base + C!SymMax - s) % C!CodeTop
             r == d.rng * Base
             bits == d.nbits_total + SymBits
  <1>1. /\ d \in Contexts /\ d.storage \in Nat /\ d.offs \in Nat /\ d.nbits_total \in Int
        /\ d.rng \in Nat /\ d.val \in Nat /\ d.rem \in Nat
        /\ d.buf \in [1..d.storage -> Bytes] /\ d.offs <= d.storage
        /\ d.end_offs <= d.storage /\ d.val < d.rng
    BY DecFields DEF DecLoose
  <1>2. Base \in Nat /\ SymBits \in Nat /\ C!SymMax \in Nat /\ C!CodeExtra = SymBits - 1
        /\ 2^SymBits = Base
    BY SmallFacts, Widths
  <1>3. byte \in Bytes
    <2>1. 0 \in Bytes BY <1>2 DEF Bytes
    <2>2. d.offs < d.storage => d.offs + 1 \in 1..d.storage BY <1>1
    <2> QED BY <1>1, <2>1, <2>2
  <1>4. x = [d EXCEPT !.nbits_total = bits, !.rng = r, !.rem = byte, !.offs = offs,
                      !.val = v]
    BY <1>2, Zenon DEF C!NextByte
  <1> HIDE DEF byte
  <1>5. s \in Bytes
    <2>1. d.rem * Base + byte \in Nat
      <3>1. byte \in Nat BY <1>3, ByteNat, Zenon
      <3>2. d.rem * Base \in Nat BY <1>1, <1>2
      <3> QED BY <3>1, <3>2
    <2>2. 2^(SymBits - C!CodeExtra) \in Nat \ {0}
      <3>1. SymBits - C!CodeExtra \in Nat BY <1>2
      <3> QED BY <3>1, PowPositive
    <2>3. sym \in Nat BY <2>1, <2>2, DivisionBelow, Zenon
    <2> QED BY <2>3, ByteIs
  <1> HIDE DEF sym, s
  <1>6. v \in Nat /\ v < r /\ r \in 1..C!CodeTop BY <1>1, <1>5, ShiftedCode
  <1>7. r \in Nat /\ bits \in Int /\ offs \in Nat /\ offs <= d.storage
    <2>1. r \in Nat BY <1>1, <1>2
    <2>2. bits \in Int BY <1>1, <1>2
    <2>3. offs \in Nat /\ offs <= d.storage BY <1>1
    <2> QED BY <2>1, <2>2, <2>3
  <1>8. byte \in -1..C!SymMax /\ byte >= 0 BY <1>2, <1>3 DEF Bytes
  <1> HIDE DEF v, r, bits, offs
  <1>9. /\ x \in Contexts /\ x.buf = d.buf /\ x.storage = d.storage /\ x.offs = offs
        /\ x.end_offs = d.end_offs /\ x.rng = r /\ x.val = v /\ x.rem = byte
        /\ SameRaw(d, x)
    <2>1. x \in Contexts BY <1>1, <1>4, <1>6, <1>7, <1>8, ZenonT(40) DEF Contexts
    <2> QED BY <1>1, <1>4, <2>1, Zenon DEF Contexts, SameRaw
  <1>10. WindowOK(x) BY <1>9 DEF DecLoose, WindowOK, SameRaw
  <1>11. DecLoose(x)
    BY <1>1, <1>6, <1>7, <1>8, <1>9, <1>10 DEF DecLoose
  <1> QED BY <1>9, <1>11 DEF r

(* One turn of the loop of ec_dec_normalize.                                *)
ReadTurn(d) == IF d.rng <= C!CodeBot THEN C!NextByte(d) ELSE d

LEMMA DecNormalizeTurns ==
    ASSUME NEW e
    PROVE  C!DecNormalize(e) = ReadTurn(ReadTurn(ReadTurn(ReadTurn(e))))
  <1> DEFINE n == CodeBits \div SymBits
             g == CHOOSE f : f = [i \in 0..n |-> IF i = 0 THEN e ELSE ReadTurn(f[i - 1])]
  <1>1. C!DecNormalize(e) = g[n] BY Zenon DEF C!DecNormalize, C!While, C!Times, ReadTurn
  <1>2. n = 4 BY SmallFacts
  <1> HIDE DEF n
  <1>3. \E f : f = [i \in 0..n |-> IF i = 0 THEN e ELSE ReadTurn(f[i - 1])]
    <2> DEFINE a == ReadTurn(e)
               b == ReadTurn(a)
               c == ReadTurn(b)
               d == ReadTurn(c)
               h == [i \in 0..n |-> IF i = 0 THEN e ELSE IF i = 1 THEN a
                                    ELSE IF i = 2 THEN b ELSE IF i = 3 THEN c ELSE d]
    <2>1. ASSUME NEW i \in 0..n PROVE h[i] = IF i = 0 THEN e ELSE ReadTurn(h[i - 1])
      <3>1. i = 0 \/ i = 1 \/ i = 2 \/ i = 3 \/ i = 4 BY <1>2
      <3> HIDE DEF a, b, c, d
      <3>2. h[0] = e /\ h[1] = a /\ h[2] = b /\ h[3] = c /\ h[4] = d BY <1>2
      <3>3. a = ReadTurn(e) /\ b = ReadTurn(a) /\ c = ReadTurn(b) /\ d = ReadTurn(c)
        BY DEF a, b, c, d
      <3> QED BY <3>1, <3>2, <3>3
    <2>2. h = [i \in 0..n |-> IF i = 0 THEN e ELSE ReadTurn(h[i - 1])] BY <2>1
    <2> HIDE DEF h
    <2> QED BY <2>2
  <1>4. g = [i \in 0..n |-> IF i = 0 THEN e ELSE ReadTurn(g[i - 1])] BY <1>3
  <1> HIDE DEF g
  <1>5. g[0] = e /\ g[1] = ReadTurn(g[0]) /\ g[2] = ReadTurn(g[1])
        /\ g[3] = ReadTurn(g[2]) /\ g[4] = ReadTurn(g[3])
    BY <1>2, <1>4
  <1> QED BY <1>1, <1>2, <1>5

LEMMA ReadTurnIs ==
    ASSUME NEW d, DecLoose(d), NEW x, x = ReadTurn(d)
    PROVE  DecLoose(x) /\ x.rng = IF d.rng <= C!CodeBot THEN d.rng * Base ELSE d.rng
  BY NextByteIs DEF ReadTurn

(* A range that is not 0 is large enough after four shifts.                 *)
LEMMA FourShifts ==
    ASSUME NEW r0 \in Nat \ {0}, NEW r1 \in Nat, NEW r2 \in Nat, NEW r3 \in Nat,
           NEW r4 \in Nat,
           r1 = IF r0 <= C!CodeBot THEN r0 * Base ELSE r0,
           r2 = IF r1 <= C!CodeBot THEN r1 * Base ELSE r1,
           r3 = IF r2 <= C!CodeBot THEN r2 * Base ELSE r2,
           r4 = IF r3 <= C!CodeBot THEN r3 * Base ELSE r3
    PROVE  r4 > C!CodeBot
  <1>1. /\ Base \in Nat /\ C!CodeBot \in Nat /\ Base >= 4 /\ C!CodeBot < Base * Base * Base
    <2>1. Base \in Nat /\ Base >= 4 /\ Half \in Nat /\ Half >= 2 /\ Base = 2 * Half
          /\ C!CodeBot = Base * Base * Half /\ C!CodeBot \in Nat /\ C!CodeBot >= 32
      BY Widths
    <2>2. Base * Base * Base = 2 * C!CodeBot BY <2>1
    <2> QED BY <2>1, <2>2
  <1> DEFINE p == Base * Base
             q == p * Base
  <1>2. p \in Nat /\ q \in Nat /\ C!CodeBot < q BY <1>1
  <1>3. r1 > C!CodeBot \/ r1 >= Base
    <2>1. 1 * Base <= r0 * Base BY <1>1, ProductGrows
    <2> QED BY <1>1, <2>1
  <1>4. r2 > C!CodeBot \/ r2 >= p
    <2>1. r1 >= Base => Base * Base <= r1 * Base BY <1>1, ProductGrows
    <2> QED BY <1>1, <1>3, <2>1
  <1>5. r3 > C!CodeBot \/ r3 >= q
    <2> HIDE DEF p
    <2>1. r2 >= p => p * Base <= r2 * Base BY <1>1, <1>2, ProductGrows
    <2> QED BY <1>1, <1>2, <1>4, <2>1
  <1>6. r3 > C!CodeBot
    <2> HIDE DEF q
    <2> QED BY <1>1, <1>2, <1>5
  <1> QED BY <1>1, <1>6

LEMMA DecNormalizeIs ==
    ASSUME NEW d, DecLoose(d), NEW x, x = C!DecNormalize(d)
    PROVE  DecOK(x)
  <1> DEFINE a == ReadTurn(d)
             b == ReadTurn(a)
             c == ReadTurn(b)
             z == ReadTurn(c)
  <1>1. x = z BY DecNormalizeTurns
  <1>2. DecLoose(a) /\ a.rng = IF d.rng <= C!CodeBot THEN d.rng * Base ELSE d.rng
    BY ReadTurnIs
  <1> HIDE DEF a
  <1>3. DecLoose(b) /\ b.rng = IF a.rng <= C!CodeBot THEN a.rng * Base ELSE a.rng
    BY <1>2, ReadTurnIs
  <1> HIDE DEF b
  <1>4. DecLoose(c) /\ c.rng = IF b.rng <= C!CodeBot THEN b.rng * Base ELSE b.rng
    BY <1>3, ReadTurnIs
  <1> HIDE DEF c
  <1>5. DecLoose(z) /\ z.rng = IF c.rng <= C!CodeBot THEN c.rng * Base ELSE c.rng
    BY <1>4, ReadTurnIs
  <1> HIDE DEF z
  <1>6. d.rng \in Nat \ {0} /\ a.rng \in Nat /\ b.rng \in Nat /\ c.rng \in Nat
        /\ z.rng \in Nat
    <2>1. d.rng \in Nat /\ a.rng \in Nat /\ b.rng \in Nat /\ c.rng \in Nat /\ z.rng \in Nat
      BY <1>2, <1>3, <1>4, <1>5, DecFields
    <2> QED BY <2>1 DEF DecLoose
  <1>7. z.rng > C!CodeBot BY <1>2, <1>3, <1>4, <1>5, <1>6, FourShifts
  <1> QED BY <1>1, <1>5, <1>7 DEF DecOK

LEMMA DecInitIs ==
    ASSUME NEW size \in Nat, NEW buf \in [1..size -> Bytes], NEW x, x = C!DecInit(buf, size)
    PROVE  DecOK(x)
  <1> DEFINE first == IF size > 0 THEN buf[1] ELSE 0
             offs == IF size > 0 THEN 1 ELSE 0
             bits == CodeBits + 1 - ((CodeBits - C!CodeExtra) \div SymBits) * SymBits
             v == Half - 1 - first \div 2^(SymBits - C!CodeExtra)
             d == [buf |-> buf, storage |-> size, offs |-> offs,
                   end_offs |-> 0, end_window |-> 0, nend_bits |-> 0,
                   nbits_total |-> bits,
                   rng |-> Half, ext |-> 0, rem |-> first, error |-> 0, val |-> v]
  <1>1. /\ SymBits \in Nat \ {0, 1} /\ CodeBits \in Nat /\ C!CodeExtra = SymBits - 1
        /\ 2^C!CodeExtra = Half /\ Half \in Nat /\ Half >= 2 /\ Base = 2 * Half
        /\ Base \in Nat
        /\ C!SymMax = Base - 1 /\ CodeBits = 4 * SymBits /\ C!CodeBot \in Nat
        /\ C!CodeTop = C!CodeBot * Base /\ C!CodeBot >= 32 /\ C!CodeTop \in Nat
    BY SmallFacts, Widths
  <1>2. x = C!DecNormalize(d) BY <1>1 DEF C!DecInit
  <1>3. first \in Bytes
    <2>1. 0 \in Bytes BY <1>1 DEF Bytes
    <2>2. size > 0 => 1 \in 1..size OBVIOUS
    <2> QED BY <2>1, <2>2
  <1>4. v \in Nat /\ v < Half
    <2>1. 2^(SymBits - C!CodeExtra) = 2
      <3>1. SymBits - C!CodeExtra = 1 BY <1>1
      <3>2. 2^1 = 2 OBVIOUS
      <3> QED BY <3>1, <3>2
    <2>2. first \in Nat /\ first < 2 * Half BY <1>1, <1>3 DEF Bytes
    <2> HIDE DEF first
    <2>3. first \div 2 \in Nat /\ first \div 2 < Half BY <1>1, <2>2, QuotientBelow
    <2>4. v = Half - 1 - first \div 2 BY <2>1
    <2> HIDE DEF v
    <2> QED BY <1>1, <2>3, <2>4
  <1>5. bits \in Int
    <2>1. (CodeBits - C!CodeExtra) \div SymBits \in Nat
      <3>1. CodeBits - C!CodeExtra \in Nat /\ SymBits \in Nat \ {0} BY <1>1
      <3> QED BY <3>1, DivisionBelow, Zenon
    <2> QED BY <1>1, <2>1
  <1>6. offs \in Nat /\ offs <= size OBVIOUS
  <1>7. first \in -1..C!SymMax /\ first >= 0 BY <1>1, <1>3 DEF Bytes
  <1>8. Half \in 1..C!CodeTop
    <2>1. C!CodeBot * 1 <= C!CodeBot * Base /\ 1 * Half <= C!CodeBot * Half
      BY <1>1, ProductGrows
    <2>2. C!CodeBot * Half \in Nat /\ C!CodeBot * Base = C!CodeBot * Half + C!CodeBot * Half
      BY <1>1
    <2> QED BY <1>1, <2>1, <2>2
  <1> HIDE DEF first, offs, bits, v
  <1>9. buf \in Buffers BY DEF Buffers
  <1>10. d \in Contexts
    <2>1. 0 \in Nat /\ 0 \in -1..1 OBVIOUS
    <2> QED BY <1>1, <1>4, <1>5, <1>6, <1>7, <1>9, <2>1, Zenon DEF Contexts
  <1>11. WindowOK(d)
    <2>1. d.end_window = 0 /\ d.nend_bits = 0 OBVIOUS
    <2>2. 2^0 = 1 BY PowZero
    <2>3. d.end_window < 2^d.nend_bits BY <2>1, <2>2
    <2> QED BY <1>1, <2>1, <2>3 DEF WindowOK
  <1>12. DecLoose(d)
    <2>1. /\ d.buf = buf /\ d.storage = size /\ d.offs = offs /\ d.end_offs = 0
          /\ d.rng = Half /\ d.val = v /\ d.rem = first
      OBVIOUS
    <2> HIDE DEF d
    <2> QED BY <1>1, <1>4, <1>6, <1>7, <1>8, <1>10, <1>11, <2>1 DEF DecLoose
  <1> HIDE DEF d
  <1> QED BY <1>2, <1>12, DecNormalizeIs

(* The decoder takes the part of the interval that the code lies in.        *)
Taken(d, x, v, r) ==
    /\ x \in Contexts /\ x.val = v /\ x.rng = r /\ SameRaw(d, x) /\ x.rem = d.rem
    /\ x.buf = d.buf /\ x.storage = d.storage /\ x.offs = d.offs /\ x.end_offs = d.end_offs

LEMMA TakenIs ==
    ASSUME NEW d, DecLoose(d), NEW r \in 1..d.rng, NEW v \in Nat, v < r,
           NEW x, Taken(d, x, v, r)
    PROVE  DecLoose(x)
  <1>1. d.rng \in Nat /\ C!CodeTop \in Nat /\ d.rng <= C!CodeTop
    <2>1. d.rng \in 1..C!CodeTop BY DEF DecLoose
    <2> QED BY <2>1, PlainWidths
  <1>2. x.rng \in 1..C!CodeTop /\ x.val < x.rng BY <1>1 DEF Taken
  <1>3. WindowOK(x) BY DEF DecLoose, WindowOK, Taken, SameRaw
  <1> QED BY <1>2, <1>3 DEF DecLoose, Taken

(* ec_dec_bit_logp.                                                         *)
LEMMA DecBitLogpIs ==
    ASSUME NEW d, DecOK(d), NEW logp \in 1..C!CodeShift, NEW x, x = C!DecBitLogp(d, logp)
    PROVE  DecOK(x.dec) /\ x.value \in 0..1
  <1>1. /\ DecLoose(d) /\ d \in Contexts /\ d.rng \in Nat /\ d.val \in Nat
        /\ d.rng > C!CodeBot /\ d.val < d.rng
    BY DecFields DEF DecOK, DecLoose
  <1> DEFINE s == d.rng \div 2^logp
             bit == IF d.val < s THEN 1 ELSE 0
             v == IF bit = 1 THEN d.val ELSE d.val - s
             r == IF bit = 1 THEN s ELSE d.rng - s
             y == [d EXCEPT !.val = v, !.rng = r]
  <1>2. s \in Nat /\ s >= 1 /\ s < d.rng
    <2>1. logp \in Nat /\ 1 <= logp /\ logp \in 0..C!CodeShift BY SmallFacts
    <2>2. s \in Nat /\ s >= 1 /\ s * 2^logp <= d.rng /\ 2^logp \in Nat
      BY <1>1, <2>1, RangeShare
    <2>3. 2 <= 2^logp
      <3>1. 2^1 = 2 OBVIOUS
      <3> QED BY <2>1, <3>1, PowMonotone
    <2> DEFINE p == 2^logp
    <2>4. p \in Nat /\ 2 <= p /\ s * p <= d.rng BY <2>2, <2>3
    <2> HIDE DEF p, s
    <2>5. s * 2 <= s * p BY <2>2, <2>4, ProductGrows
    <2>6. s * 2 = s + s /\ s * p \in Nat BY <2>2, <2>4
    <2> QED BY <1>1, <2>2, <2>4, <2>5, <2>6
  <1>3. x = [dec |-> C!DecNormalize(y), value |-> bit] BY Zenon DEF C!DecBitLogp, C!Read
  <1> HIDE DEF s
  <1>4. v \in Nat /\ r \in 1..d.rng /\ v < r /\ r \in Nat BY <1>1, <1>2
  <1>5. bit \in 0..1 OBVIOUS
  <1> HIDE DEF bit, v, r
  <1>6. Taken(d, y, v, r) BY <1>1, <1>4, Zenon DEF Taken, Contexts, SameRaw
  <1> HIDE DEF y
  <1>7. DecLoose(y) BY <1>1, <1>4, <1>6, TakenIs
  <1>8. x.dec = C!DecNormalize(y) /\ x.value = bit BY <1>3
  <1> QED BY <1>5, <1>7, <1>8, DecNormalizeIs

(* The symbol of a cumulative distribution that a number belongs to.        *)
LEMMA SymbolExists ==
    ASSUME NEW cum \in Seq(Nat), C!Rising(cum), NEW f \in Nat, f < cum[Len(cum)]
    PROVE  \E i \in 1..Len(cum) - 1 : cum[i] <= f /\ f < cum[i + 1]
  <1> DEFINE n == Len(cum)
  <1>1. n \in Nat /\ n >= 2 /\ cum[1] = 0 /\ \A i \in 1..n : cum[i] \in Nat BY DEF C!Rising
  <1>2. f < cum[n] OBVIOUS
  <1> HIDE DEF n
  <1> SUFFICES ASSUME ~ \E i \in 1..n - 1 : cum[i] <= f /\ f < cum[i + 1] PROVE FALSE
    BY DEF n
  <1> DEFINE S == {m \in Nat : m + 1 <= n => cum[m + 1] <= f}
  <1>3. 0 \in S
    <2>1. 0 + 1 = 1 OBVIOUS
    <2>2. cum[0 + 1] <= f BY <1>1, <2>1
    <2> QED BY <2>2
  <1>4. ASSUME NEW m \in Nat, m \in S PROVE m + 1 \in S
    <2> SUFFICES ASSUME (m + 1) + 1 <= n PROVE cum[(m + 1) + 1] <= f OBVIOUS
    <2>1. m + 1 \in 1..n - 1 /\ (m + 1) + 1 \in 1..n BY <1>1
    <2>2. cum[m + 1] <= f BY <1>1, <1>4, <2>1
    <2>3. ~(f < cum[(m + 1) + 1]) BY <2>1, <2>2
    <2>4. cum[(m + 1) + 1] \in Nat BY <1>1, <2>1
    <2> QED BY <2>3, <2>4
  <1> HIDE DEF S
  <1>5. Nat \subseteq S BY <1>3, <1>4, SetInduction
  <1>6. n - 1 \in Nat /\ (n - 1) + 1 = n BY <1>1
  <1>7. cum[(n - 1) + 1] <= f
    <2>1. n - 1 \in S BY <1>5, <1>6
    <2>2. (n - 1) + 1 <= n BY <1>1
    <2> QED BY <2>1, <2>2, Zenon DEF S
  <1>8. cum[n] <= f /\ cum[n] \in Nat
    <2>1. n \in 1..n BY <1>1
    <2> QED BY <1>1, <1>6, <1>7, <2>1
  <1> QED BY <1>2, <1>8

LEMMA Distribute ==
    ASSUME NEW k \in Nat, NEW a \in Nat, NEW b \in Nat
    PROVE  k * (a + b) = k * a + k * b /\ k * (a + 1) = k * a + k
           /\ k * a \in Nat /\ k * b \in Nat
  OBVIOUS

(* The arithmetic of ec_decode and ec_dec_update: val lies in the part      *)
(* [low, high) of ft that ext tells it to.                                  *)
Cut(val, rng, ft, ext, s, f, low, high, above, r) ==
    /\ val \in Nat /\ rng \in Nat /\ val < rng /\ ft \in Nat \ {0}
    /\ ext \in Nat /\ ext >= 1 /\ ext * ft <= rng
    /\ s \in Nat /\ ext * s <= val /\ val < ext * (s + 1)
    /\ f \in Nat /\ f = ft - (IF s + 1 < ft THEN s + 1 ELSE ft)
    /\ low \in Nat /\ high \in Nat /\ low <= f /\ f < high /\ high <= ft
    /\ above = ext * (ft - high)
    /\ r = IF low > 0 THEN ext * (high - low) ELSE rng - above

LEMMA PartHolds ==
    ASSUME NEW val, NEW rng, NEW ft, NEW ext, NEW s, NEW f, NEW low, NEW high,
           NEW above, NEW r, Cut(val, rng, ft, ext, s, f, low, high, above, r)
    PROVE  val - above \in Nat /\ r \in 1..rng /\ val - above < r
  <1> USE DEF Cut
  <1>1. ft - high \in Nat /\ ft - high <= s /\ ft - high <= ft OBVIOUS
  <1>2. above \in Nat /\ above <= ext * s /\ ext * s \in Nat BY <1>1, ProductGrows
  <1>3. above <= val
    <2> DEFINE o == ext * s
    <2>1. o \in Nat /\ above <= o /\ o <= val BY <1>2
    <2> HIDE DEF o
    <2> QED BY <1>2, <2>1
  <1>4. CASE ~(low > 0)
    <2>1. r = rng - above BY <1>4
    <2>2. val - above \in Nat BY <1>2, <1>3
    <2> QED BY <1>2, <1>3, <2>1, <2>2
  <1>5. CASE low > 0
    <2> DEFINE a == ft - high
               b == high - low
    <2>1. /\ s + 1 <= a + b /\ a \in Nat /\ b \in Nat /\ b >= 1 /\ b <= ft
          /\ s + 1 \in Nat /\ a + b \in Nat
      BY <1>1, <1>5
    <2>2. above = ext * a /\ r = ext * b BY <1>5
    <2> HIDE DEF a, b
    <2>3. ext * (s + 1) <= ext * (a + b) /\ ext * (s + 1) \in Nat
          /\ ext * 1 <= ext * b /\ ext * b <= ext * ft
      BY <2>1, ProductGrows
    <2>4. ext * (a + b) = above + r /\ r \in Nat BY <2>1, <2>2, Distribute
    <2> DEFINE u == ext * (s + 1)
               w == ext * ft
    <2>5. u <= above + r /\ u \in Nat /\ r >= 1 /\ r <= w /\ w <= rng /\ w \in Nat
          /\ val < u
      BY <2>2, <2>3, <2>4
    <2> HIDE DEF u, w
    <2>6. r \in 1..rng BY <2>4, <2>5
    <2>7. val - above \in Nat /\ val - above < r BY <1>2, <1>3, <2>4, <2>5
    <2> QED BY <2>6, <2>7
  <1> QED BY <1>4, <1>5

LEMMA ShareHolds ==
    ASSUME NEW val \in Nat, NEW k \in Nat \ {0}, NEW s, s = val \div k
    PROVE  s \in Nat /\ k * s <= val /\ val < k * (s + 1)
  <1>1. s \in Nat /\ val = k * s + (val % k) /\ val % k \in 0..k - 1 BY Division
  <1>2. k * (s + 1) = k * s + k /\ k * s \in Nat BY <1>1, Distribute
  <1> DEFINE o == k * s
             m == val % k
  <1>3. o \in Nat /\ m \in 0..k - 1 /\ val = o + m /\ k * (s + 1) = o + k BY <1>1, <1>2
  <1> HIDE DEF o, m
  <1>4. o <= val /\ val < o + k BY <1>3
  <1> QED BY <1>1, <1>3, <1>4 DEF o

LEMMA DecPartIs ==
    ASSUME NEW d, DecOK(d), NEW cum \in Seq(Nat), C!Rising(cum),
           cum[Len(cum)] > 0, cum[Len(cum)] <= C!CodeBot, NEW x, x = C!DecPart(d, cum)
    PROVE  DecOK(x.dec) /\ x.value \in Nat
  <1>1. /\ DecLoose(d) /\ d \in Contexts /\ d.rng \in Nat /\ d.val \in Nat
        /\ d.rng > C!CodeBot /\ d.val < d.rng /\ C!CodeBot \in Nat
    BY DecFields, PlainWidths DEF DecOK, DecLoose
  <1> DEFINE ft == cum[Len(cum)]
             ext == d.rng \div ft
             s == d.val \div ext
             f == ft - (IF s + 1 < ft THEN s + 1 ELSE ft)
             k == CHOOSE i \in 1..Len(cum) - 1 : cum[i] <= f /\ f < cum[i + 1]
             above == ext * (ft - cum[k + 1])
             v == d.val - above
             r == IF cum[k] > 0 THEN ext * (cum[k + 1] - cum[k]) ELSE d.rng - above
             y == [d EXCEPT !.ext = ext, !.val = v, !.rng = r]
  <1>2. x = [dec |-> C!DecNormalize(y), value |-> k - 1] BY Zenon DEF C!DecPart, C!Read
  <1>3. Len(cum) >= 2 /\ Len(cum) \in Nat BY DEF C!Rising
  <1>4. ft \in Nat \ {0} /\ ft <= d.rng
    <2>1. Len(cum) \in 1..Len(cum) BY <1>3
    <2> QED BY <1>1, <2>1
  <1> HIDE DEF ft
  <1>5. f \in Nat /\ f < ft
    <2>1. ext \in Nat /\ ext >= 1 BY <1>1, <1>4, ShareIs, Zenon
    <2>2. ext \in Nat \ {0} BY <2>1
    <2> HIDE DEF ext
    <2>3. s \in Nat BY <1>1, <2>2, DivisionBelow, Zenon
    <2> HIDE DEF s
    <2> QED BY <1>4, <2>3
  <1>14. ext \in Nat /\ ext >= 1 /\ ext * ft <= d.rng BY <1>1, <1>4, ShareIs, Zenon
  <1>15. s \in Nat /\ ext * s <= d.val /\ d.val < ext * (s + 1)
    <2>1. ext \in Nat \ {0} BY <1>14
    <2> HIDE DEF ext
    <2> QED BY <1>1, <2>1, ShareHolds
  <1> HIDE DEF f
  <1>6. \E i \in 1..Len(cum) - 1 : cum[i] <= f /\ f < cum[i + 1]
    BY <1>5, SymbolExists DEF ft
  <1>7. k \in 1..Len(cum) - 1 /\ cum[k] <= f /\ f < cum[k + 1] BY <1>6
  <1> HIDE DEF k
  <1>8. cum[k] \in Nat /\ cum[k + 1] \in Nat /\ cum[k + 1] <= ft /\ k - 1 \in Nat
    <2>1. k \in 1..Len(cum) /\ k + 1 \in 1..Len(cum) BY <1>3, <1>7
    <2>2. k - 1 \in Nat BY <1>3, <1>7
    <2> QED BY <2>1, <2>2, RisingIs DEF ft
  <1> DEFINE low == cum[k]
             high == cum[k + 1]
  <1>9. v \in Nat /\ r \in 1..d.rng /\ v < r /\ ext \in Nat
    <2>1. low \in Nat /\ high \in Nat /\ low <= f /\ f < high /\ high <= ft BY <1>7, <1>8
    <2>2. above = ext * (ft - high)
          /\ r = IF low > 0 THEN ext * (high - low) ELSE d.rng - above
      OBVIOUS
    <2>3. f = ft - (IF s + 1 < ft THEN s + 1 ELSE ft) BY DEF f
    <2> HIDE DEF low, high, ext, s, above, r
    <2>4. Cut(d.val, d.rng, ft, ext, s, f, low, high, above, r)
      BY <1>1, <1>4, <1>5, <1>14, <1>15, <2>1, <2>2, <2>3 DEF Cut
    <2>5. d.val - above \in Nat /\ r \in 1..d.rng /\ d.val - above < r
      BY <2>4, PartHolds
    <2> QED BY <1>14, <2>5
  <1>10. r \in Nat BY <1>1, <1>9
  <1> HIDE DEF ext, v, r
  <1>11. Taken(d, y, v, r) BY <1>1, <1>9, <1>10, Zenon DEF Taken, Contexts, SameRaw
  <1> HIDE DEF y
  <1>12. DecLoose(y) BY <1>1, <1>9, <1>11, TakenIs
  <1>13. x.dec = C!DecNormalize(y) /\ x.value = k - 1 BY <1>2
  <1> QED BY <1>8, <1>12, <1>13, DecNormalizeIs

(* The first place of an inverse distribution that val is not below.        *)
LEMMA FirstExists ==
    ASSUME NEW S, NEW n \in Nat, n \in S, n >= 1
    PROVE  \E i \in 1..n : i \in S /\ \A j \in 1..i - 1 : j \notin S
  <1> DEFINE T == {m \in Nat : (m >= 1 /\ m \in S)}
  <1>1. PICK i \in T : \A m \in T : ~(<<m, i>> \in Less)
    <2>1. T # {} /\ T \subseteq Nat OBVIOUS
    <2> HIDE DEF T
    <2> QED BY <2>1, WFMin, LessWF
  <1>2. i \in Nat /\ i >= 1 /\ i \in S OBVIOUS
  <1>3. ASSUME NEW j \in 1..i - 1 PROVE j \notin S
    <2> SUFFICES ASSUME j \in S PROVE FALSE OBVIOUS
    <2>1. j \in T /\ j \in Nat /\ j < i BY <1>2
    <2>2. <<j, i>> \in Less BY <1>2, <2>1 DEF Less
    <2> QED BY <1>1, <2>1, <2>2
  <1>4. i <= n
    <2> SUFFICES ASSUME n < i PROVE FALSE BY <1>2
    <2>1. n \in 1..i - 1 BY <1>2
    <2> QED BY <1>3, <2>1
  <1> QED BY <1>2, <1>3, <1>4

LEMMA DecIcdfIs ==
    ASSUME NEW d, DecOK(d), NEW icdf \in Seq(Nat), Len(icdf) >= 1, icdf[Len(icdf)] = 0,
           \A i \in 1..Len(icdf) : icdf[i] < Base,
           NEW x, x = C!DecIcdf(d, icdf, SymBits)
    PROVE  DecOK(x.dec) /\ x.value \in Nat
  <1>1. /\ DecLoose(d) /\ d \in Contexts /\ d.rng \in Nat /\ d.val \in Nat
        /\ d.rng > C!CodeBot /\ d.val < d.rng /\ C!CodeBot \in Nat /\ Base \in Nat
    BY DecFields, PlainWidths DEF DecOK, DecLoose
  <1> DEFINE r == d.rng \div 2^SymBits
             k == CHOOSE i \in 1..Len(icdf) :
                    /\ d.val >= r * icdf[i]
                    /\ \A j \in 1..i - 1 : d.val < r * icdf[j]
             top == IF k = 1 THEN d.rng ELSE r * icdf[k - 1]
             o == r * icdf[k]
             v == d.val - o
             w == top - o
             y == [d EXCEPT !.val = v, !.rng = w]
  <1>2. r \in Nat /\ r >= 1 /\ r * Base <= d.rng
    <2>1. SymBits \in 0..C!CodeShift BY SmallFacts
    <2>2. r \in Nat /\ r >= 1 /\ r * 2^SymBits <= d.rng BY <1>1, <2>1, RangeShare
    <2> QED BY <2>2 DEF Base
  <1>4. x = [dec |-> C!DecNormalize(y), value |-> k - 1] BY Zenon DEF C!DecIcdf, C!Read
  <1>5. Len(icdf) \in Nat /\ \A i \in 1..Len(icdf) : icdf[i] \in Nat OBVIOUS
  <1> HIDE DEF r
  <1>6. \E i \in 1..Len(icdf) : /\ d.val >= r * icdf[i]
                                /\ \A j \in 1..i - 1 : d.val < r * icdf[j]
    <2> DEFINE S == {i \in 1..Len(icdf) : d.val >= r * icdf[i]}
    <2>1. Len(icdf) \in S
      <3>1. r * icdf[Len(icdf)] = 0 BY <1>2
      <3>2. Len(icdf) \in 1..Len(icdf) BY <1>5
      <3> QED BY <1>1, <3>1, <3>2
    <2>2. PICK i \in 1..Len(icdf) : i \in S /\ \A j \in 1..i - 1 : j \notin S
      <3> HIDE DEF S
      <3> QED BY <1>5, <2>1, FirstExists
    <2>3. ASSUME NEW j \in 1..i - 1 PROVE d.val < r * icdf[j]
      <3>1. j \in 1..Len(icdf) BY <1>5
      <3>2. ~(d.val >= r * icdf[j]) BY <2>2, <3>1
      <3>3. icdf[j] \in Nat BY <1>5, <3>1
      <3>4. r * icdf[j] \in Nat BY <1>2, <3>3
      <3> QED BY <1>1, <3>2, <3>4
    <2> QED BY <2>2, <2>3
  <1>7. k \in 1..Len(icdf) /\ d.val >= o /\ \A j \in 1..k - 1 : d.val < r * icdf[j]
    BY <1>6
  <1> HIDE DEF k
  <1>8. o \in Nat /\ k - 1 \in Nat
    <2>1. icdf[k] \in Nat BY <1>5, <1>7
    <2> QED BY <1>2, <1>5, <1>7, <2>1
  <1>9. top \in Nat /\ d.val < top /\ top <= d.rng
    <2>1. CASE k = 1 BY <1>1, <2>1
    <2>2. CASE k # 1
      <3>1. k - 1 \in 1..k - 1 /\ k - 1 \in 1..Len(icdf) BY <1>5, <1>7, <2>2
      <3> DEFINE b == icdf[k - 1]
      <3>2. b \in Nat /\ b < Base /\ b <= Base BY <1>1, <1>5, <3>1
      <3>3. d.val < r * b BY <1>7, <3>1
      <3>4. top = r * b BY <2>2
      <3> HIDE DEF b, top
      <3>5. r * b <= r * Base /\ r * b \in Nat /\ r * Base \in Nat
        BY <1>1, <1>2, <3>2, ProductGrows
      <3> QED BY <1>1, <1>2, <3>3, <3>4, <3>5
    <2> QED BY <2>1, <2>2
  <1>10. d.val >= o BY <1>7
  <1> HIDE DEF o, top
  <1>11. v \in Nat /\ w \in 1..d.rng /\ w \in Nat /\ v < w
    <2>1. d.val \in Nat /\ d.rng \in Nat BY <1>1
    <2>2. o \in Nat /\ top \in Nat /\ d.val >= o /\ d.val < top /\ top <= d.rng
      BY <1>8, <1>9, <1>10, Zenon
    <2>3. v \in Nat BY <2>1, <2>2
    <2>4. w \in Nat /\ w \in 1..d.rng BY <2>1, <2>2
    <2>5. v < w BY <2>1, <2>2
    <2> QED BY <2>3, <2>4, <2>5
  <1> HIDE DEF v, w
  <1>12. Taken(d, y, v, w) BY <1>1, <1>11, Zenon DEF Taken, Contexts, SameRaw
  <1> HIDE DEF y
  <1>13. DecLoose(y) BY <1>1, <1>11, <1>12, TakenIs
  <1>14. x.dec = C!DecNormalize(y) /\ x.value = k - 1 BY <1>4
  <1> QED BY <1>8, <1>13, <1>14, DecNormalizeIs

-----------------------------------------------------------------------------
(* Raw bits read.  One turn of the loop of ec_dec_bits.                     *)
FillTurn(d) == IF d.nend_bits <= CodeBits - SymBits THEN C!NextByteAtEnd(d) ELSE d

LEMMA FillWindowTurns ==
    ASSUME NEW e
    PROVE  C!FillWindow(e) = FillTurn(FillTurn(FillTurn(FillTurn(e))))
  <1> DEFINE n == CodeBits \div SymBits
             g == CHOOSE f : f = [i \in 0..n |-> IF i = 0 THEN e ELSE FillTurn(f[i - 1])]
  <1>1. C!FillWindow(e) = g[n] BY Zenon DEF C!FillWindow, C!While, C!Times, FillTurn
  <1>2. n = 4 BY SmallFacts
  <1> HIDE DEF n
  <1>3. \E f : f = [i \in 0..n |-> IF i = 0 THEN e ELSE FillTurn(f[i - 1])]
    <2> DEFINE a == FillTurn(e)
               b == FillTurn(a)
               c == FillTurn(b)
               d == FillTurn(c)
               h == [i \in 0..n |-> IF i = 0 THEN e ELSE IF i = 1 THEN a
                                    ELSE IF i = 2 THEN b ELSE IF i = 3 THEN c ELSE d]
    <2>1. ASSUME NEW i \in 0..n PROVE h[i] = IF i = 0 THEN e ELSE FillTurn(h[i - 1])
      <3>1. i = 0 \/ i = 1 \/ i = 2 \/ i = 3 \/ i = 4 BY <1>2
      <3> HIDE DEF a, b, c, d
      <3>2. h[0] = e /\ h[1] = a /\ h[2] = b /\ h[3] = c /\ h[4] = d BY <1>2
      <3>3. a = FillTurn(e) /\ b = FillTurn(a) /\ c = FillTurn(b) /\ d = FillTurn(c)
        BY DEF a, b, c, d
      <3> QED BY <3>1, <3>2, <3>3
    <2>2. h = [i \in 0..n |-> IF i = 0 THEN e ELSE FillTurn(h[i - 1])] BY <2>1
    <2> HIDE DEF h
    <2> QED BY <2>2
  <1>4. g = [i \in 0..n |-> IF i = 0 THEN e ELSE FillTurn(g[i - 1])] BY <1>3
  <1> HIDE DEF g
  <1>5. g[0] = e /\ g[1] = FillTurn(g[0]) /\ g[2] = FillTurn(g[1])
        /\ g[3] = FillTurn(g[2]) /\ g[4] = FillTurn(g[3])
    BY <1>2, <1>4
  <1> QED BY <1>1, <1>2, <1>5

LEMMA FillTurnIs ==
    ASSUME NEW d, DecOK(d), NEW x, x = FillTurn(d)
    PROVE  /\ DecOK(x)
           /\ x.nend_bits = IF d.nend_bits <= CodeBits - SymBits THEN d.nend_bits + SymBits
                            ELSE d.nend_bits
  <1>1. CASE ~(d.nend_bits <= CodeBits - SymBits) BY <1>1 DEF FillTurn
  <1>2. CASE d.nend_bits <= CodeBits - SymBits
    <2> DEFINE byte == IF d.end_offs < d.storage THEN d.buf[d.storage - d.end_offs] ELSE 0
               offs == IF d.end_offs < d.storage THEN d.end_offs + 1 ELSE d.end_offs
               w == d.end_window + byte * 2^d.nend_bits
               n == d.nend_bits + SymBits
    <2>1. DecLoose(d) BY DEF DecOK
    <2>2. /\ d \in Contexts /\ d.storage \in Nat /\ d.end_offs \in Nat
          /\ d.nend_bits \in Nat
          /\ d.end_window \in Nat /\ d.buf \in [1..d.storage -> Bytes]
          /\ d.end_offs <= d.storage /\ d.end_window < 2^d.nend_bits
          /\ SymBits \in Nat /\ CodeBits \in Nat /\ C!SymMax \in Nat /\ C!SymMax = Base - 1
          /\ Base \in Nat
      BY <2>1, DecFields, SmallFacts, Widths DEF DecLoose, WindowOK
    <2>3. byte \in Bytes
      <3>1. 0 \in Bytes BY <2>2 DEF Bytes
      <3>2. d.end_offs < d.storage => d.storage - d.end_offs \in 1..d.storage BY <2>2
      <3> QED BY <2>2, <3>1, <3>2
    <2>4. x = [d EXCEPT !.end_offs = offs, !.end_window = w, !.nend_bits = n]
      BY <1>2, Zenon DEF FillTurn, C!NextByteAtEnd
    <2> HIDE DEF byte
    <2>5. w \in Nat /\ w < 2^(d.nend_bits + SymBits)
      <3>1. byte \in Nat /\ byte < 2^SymBits BY <2>2, <2>3 DEF Bytes, Base
      <3> QED BY <2>2, <3>1, WindowGrows
    <2>6. w < 2^n BY <2>5
    <2>7. offs \in Nat /\ offs <= d.storage /\ n \in Nat /\ n <= CodeBits
      <3>1. offs \in Nat /\ offs <= d.storage BY <2>2
      <3>2. n \in Nat /\ n <= CodeBits BY <1>2, <2>2
      <3> QED BY <3>1, <3>2
    <2> HIDE DEF w, n, offs
    <2>8. /\ x \in Contexts /\ x.buf = d.buf /\ x.storage = d.storage /\ x.offs = d.offs
          /\ x.end_offs = offs /\ x.rem = d.rem /\ x.rng = d.rng /\ x.val = d.val
          /\ x.end_window = w /\ x.nend_bits = n
      <3>1. x \in Contexts BY <2>2, <2>4, <2>5, <2>7, Zenon DEF Contexts
      <3> QED BY <2>2, <2>4, <3>1, Zenon DEF Contexts
    <2>9. WindowOK(x) BY <2>6, <2>7, <2>8 DEF WindowOK
    <2>10. DecOK(x) BY <2>7, <2>8, <2>9 DEF DecOK, DecLoose
    <2> QED BY <1>2, <2>8, <2>10 DEF n
  <1> QED BY <1>1, <1>2

LEMMA FillWindowIs ==
    ASSUME NEW d, DecOK(d), NEW x, x = C!FillWindow(d)
    PROVE  DecOK(x) /\ x.nend_bits > CodeBits - SymBits
  <1> DEFINE a == FillTurn(d)
             b == FillTurn(a)
             c == FillTurn(b)
             z == FillTurn(c)
  <1>1. x = z BY FillWindowTurns
  <1>2. DecOK(a) /\ a.nend_bits = IF d.nend_bits <= CodeBits - SymBits
                                  THEN d.nend_bits + SymBits ELSE d.nend_bits
    BY FillTurnIs
  <1> HIDE DEF a
  <1>3. DecOK(b) /\ b.nend_bits = IF a.nend_bits <= CodeBits - SymBits
                                  THEN a.nend_bits + SymBits ELSE a.nend_bits
    BY <1>2, FillTurnIs
  <1> HIDE DEF b
  <1>4. DecOK(c) /\ c.nend_bits = IF b.nend_bits <= CodeBits - SymBits
                                  THEN b.nend_bits + SymBits ELSE b.nend_bits
    BY <1>3, FillTurnIs
  <1> HIDE DEF c
  <1>5. DecOK(z) /\ z.nend_bits = IF c.nend_bits <= CodeBits - SymBits
                                  THEN c.nend_bits + SymBits ELSE c.nend_bits
    BY <1>4, FillTurnIs
  <1> HIDE DEF z
  <1>6. d.nend_bits \in Nat /\ SymBits \in Nat \ {0} /\ CodeBits = 4 * SymBits
    BY DecFields, SmallFacts DEF DecOK
  <1> QED BY <1>1, <1>2, <1>3, <1>4, <1>5, <1>6

LEMMA DecBitsIs ==
    ASSUME NEW d, DecOK(d), NEW bits \in 1..CodeBits - SymBits + 1,
           NEW x, x = C!DecBits(d, bits)
    PROVE  DecOK(x.dec) /\ x.value \in Nat
  <1> DEFINE full == IF d.nend_bits < bits THEN C!FillWindow(d) ELSE d
             w == full.end_window \div 2^bits
             n == full.nend_bits - bits
             t == full.nbits_total + bits
             y == [full EXCEPT !.end_window = w, !.nend_bits = n, !.nbits_total = t]
             v == full.end_window % 2^bits
  <1>1. x = [dec |-> y, value |-> v] BY Zenon DEF C!DecBits, C!TakeBits, C!Read
  <1>2. SymBits \in Nat /\ CodeBits \in Nat /\ bits \in Nat /\ SymBits <= CodeBits
        /\ bits <= CodeBits - SymBits + 1
    BY SmallFacts
  <1>3. d.nend_bits \in Nat BY DecFields DEF DecOK
  <1>4. DecOK(full) /\ full.nend_bits >= bits
    <2>1. CASE d.nend_bits < bits
      <3>1. full = C!FillWindow(d) BY <2>1
      <3> HIDE DEF full
      <3>2. DecOK(full) /\ full.nend_bits > CodeBits - SymBits BY <3>1, FillWindowIs
      <3>3. full.nend_bits \in Nat BY <3>2, DecFields DEF DecOK
      <3> QED BY <1>2, <3>2, <3>3
    <2>2. CASE ~(d.nend_bits < bits) BY <1>2, <1>3, <2>2
    <2> QED BY <2>1, <2>2
  <1> HIDE DEF full
  <1>5. DecLoose(full) /\ full \in Contexts /\ full.nend_bits \in Nat
        /\ full.end_window \in Nat /\ full.nbits_total \in Int
        /\ full.end_window < 2^full.nend_bits /\ full.nend_bits <= CodeBits
    BY <1>4, DecFields DEF DecOK, DecLoose, WindowOK
  <1>6. w \in Nat /\ w < 2^(full.nend_bits - bits) BY <1>2, <1>4, <1>5, WindowShrinks
  <1>7. w < 2^n /\ n \in Nat /\ n <= CodeBits /\ t \in Int BY <1>2, <1>4, <1>5, <1>6
  <1>8. v \in Nat
    <2>1. 2^bits \in Nat \ {0} BY <1>2, PowPositive
    <2>2. v \in 0..2^bits - 1 BY <1>5, <2>1, DivisionBelow, Zenon
    <2> QED BY <2>1, <2>2
  <1> HIDE DEF w, n, t, v
  <1>9. /\ y \in Contexts /\ y.buf = full.buf /\ y.storage = full.storage
        /\ y.offs = full.offs /\ y.end_offs = full.end_offs /\ y.rem = full.rem
        /\ y.rng = full.rng /\ y.val = full.val /\ y.end_window = w /\ y.nend_bits = n
    BY <1>5, <1>6, <1>7, Zenon DEF Contexts
  <1>10. x.dec = y /\ x.value = v BY <1>1
  <1> HIDE DEF y
  <1>11. WindowOK(y) BY <1>7, <1>9 DEF WindowOK
  <1>12. DecOK(y) BY <1>4, <1>9, <1>11 DEF DecOK, DecLoose
  <1> QED BY <1>8, <1>10, <1>12

(* The distribution in which all numbers are alike.                         *)
LEMMA FlatIs ==
    ASSUME NEW n \in Nat, n >= 1, NEW cum, cum = [i \in 1..n + 1 |-> i - 1]
    PROVE  cum \in Seq(Nat) /\ C!Rising(cum) /\ Len(cum) = n + 1 /\ cum[Len(cum)] = n
  <1>1. n + 1 \in Nat /\ cum \in [1..n + 1 -> Nat] OBVIOUS
  <1>2. cum \in Seq(Nat) BY <1>1
  <1>3. Len(cum) = n + 1 BY <1>1, <1>2
  <1>4. C!Rising(cum) BY <1>3 DEF C!Rising
  <1> QED BY <1>2, <1>3, <1>4

LEMMA DecUintIs ==
    ASSUME NEW d, DecOK(d), NEW ft \in 2..2^CodeBits - 1, NEW x, x = C!DecUint(d, ft)
    PROVE  DecOK(x.dec) /\ x.value \in Nat
  <1> DEFINE ftb == C!EC_ILOG(ft - 1)
             low == ftb - UintBits
             top == (ft - 1) \div 2^low
             Flat(n) == [i \in 1..n + 1 |-> i - 1]
             hi == C!DecPart(d, Flat(top + 1))
             lo == C!DecBits(hi.dec, low)
             t == hi.value * 2^low + lo.value
  <1>1. ft \in Nat /\ ft - 1 \in Nat /\ ft >= 2
    <2>1. 2^CodeBits \in Nat BY SmallFacts, PowNat
    <2> QED BY <2>1
  <1>2. CASE ftb > UintBits
    <2>1. x = IF t <= ft - 1 THEN [dec |-> lo.dec, value |-> t]
              ELSE [dec |-> [lo.dec EXCEPT !.error = 1], value |-> ft - 1]
      BY <1>2, Zenon DEF C!DecUint, C!Read
    <2>2. /\ low \in 1..CodeBits - SymBits /\ 2^low \in Nat \ {0}
          /\ top \in Nat /\ top + 1 <= C!CodeBot
      BY <1>2, UintParts
    <2> HIDE DEF low, top
    <2>3. DecOK(hi.dec) /\ hi.value \in Nat
      <3> DEFINE n == top + 1
                 cum == Flat(n)
      <3>1. n \in Nat /\ n >= 1 /\ n <= C!CodeBot BY <2>2
      <3>2. hi = C!DecPart(d, cum) OBVIOUS
      <3> HIDE DEF n
      <3>3. cum \in Seq(Nat) /\ C!Rising(cum) /\ cum[Len(cum)] = n BY <3>1, FlatIs
      <3> HIDE DEF cum, hi
      <3>4. cum[Len(cum)] > 0 /\ cum[Len(cum)] <= C!CodeBot BY <3>1, <3>3
      <3> QED BY <3>2, <3>3, <3>4, DecPartIs
    <2> HIDE DEF hi
    <2>4. DecOK(lo.dec) /\ lo.value \in Nat
      <3>1. low \in 1..CodeBits - SymBits + 1 BY <2>2, SmallFacts
      <3> QED BY <2>3, <3>1, DecBitsIs
    <2> HIDE DEF lo
    <2>5. t \in Nat BY <2>2, <2>3, <2>4
    <2> HIDE DEF t
    <2> DEFINE y == [lo.dec EXCEPT !.error = 1]
    <2>6. DecOK(y)
      <3>1. lo.dec \in Contexts BY <2>4 DEF DecOK, DecLoose
      <3>2. 1 \in -1..1 OBVIOUS
      <3>3. /\ y \in Contexts /\ y.buf = lo.dec.buf /\ y.storage = lo.dec.storage
            /\ y.offs = lo.dec.offs /\ y.end_offs = lo.dec.end_offs /\ y.rem = lo.dec.rem
            /\ y.rng = lo.dec.rng /\ y.val = lo.dec.val
            /\ y.end_window = lo.dec.end_window /\ y.nend_bits = lo.dec.nend_bits
        BY <3>1, <3>2, Zenon DEF Contexts
      <3> HIDE DEF y
      <3>4. WindowOK(y) BY <2>4, <3>3 DEF DecOK, DecLoose, WindowOK
      <3> QED BY <2>4, <3>3, <3>4 DEF DecOK, DecLoose
    <2> HIDE DEF y
    <2>7. CASE t <= ft - 1
      <3>1. x.dec = lo.dec /\ x.value = t BY <2>1, <2>7
      <3> QED BY <2>4, <2>5, <3>1
    <2>8. CASE ~(t <= ft - 1)
      <3>1. x = [dec |-> y, value |-> ft - 1] BY <2>1, <2>8 DEF y
      <3>2. x.dec = y /\ x.value = ft - 1 BY <3>1
      <3> QED BY <1>1, <2>6, <3>2
    <2> QED BY <2>7, <2>8
  <1>3. CASE ~(ftb > UintBits)
    <2> DEFINE cum == Flat(ft)
    <2>1. x = C!DecPart(d, cum) BY <1>3, Zenon DEF C!DecUint
    <2>2. ft <= C!CodeBot BY <1>3, UintParts
    <2>3. cum \in Seq(Nat) /\ C!Rising(cum) /\ cum[Len(cum)] = ft BY <1>1, FlatIs
    <2> HIDE DEF cum
    <2>4. cum[Len(cum)] > 0 /\ cum[Len(cum)] <= C!CodeBot BY <1>1, <2>2, <2>3
    <2> QED BY <2>1, <2>3, <2>4, DecPartIs
  <1> QED BY <1>2, <1>3

-----------------------------------------------------------------------------
(* The loop that reads the bits of the header.                              *)
NextBit(y) == C!Read(C!DecBitLogp(y.dec, 1).dec, 2 * y.value + C!DecBitLogp(y.dec, 1).value)
BitByBit(d, n, g) == g = [i \in 0..n |-> IF i = 0 THEN C!Read(d, 0) ELSE NextBit(g[i - 1])]

LEMMA BitByBitExists ==
    ASSUME NEW d, NEW n \in Nat
    PROVE  \E g : BitByBit(d, n, g)
  <1> DEFINE S == {m \in Nat : \E g : BitByBit(d, m, g)}
  <1>1. 0 \in S
    <2> DEFINE h == [i \in 0..0 |-> C!Read(d, 0)]
    <2>1. h = [i \in 0..0 |-> IF i = 0 THEN C!Read(d, 0) ELSE NextBit(h[i - 1])] OBVIOUS
    <2> HIDE DEF h
    <2>2. BitByBit(d, 0, h) BY <2>1 DEF BitByBit
    <2> QED BY <2>2
  <1>2. ASSUME NEW m \in Nat, m \in S PROVE m + 1 \in S
    <2>1. PICK g : BitByBit(d, m, g) BY <1>2
    <2> DEFINE h == [i \in 0..m + 1 |-> IF i = m + 1 THEN NextBit(g[m]) ELSE g[i]]
    <2>2. \A i \in 0..m : g[i] = IF i = 0 THEN C!Read(d, 0) ELSE NextBit(g[i - 1])
      BY <2>1 DEF BitByBit
    <2>3. \A i \in 0..m : h[i] = g[i] OBVIOUS
    <2>4. h[m + 1] = NextBit(g[m]) OBVIOUS
    <2>5. ASSUME NEW i \in 0..m + 1
          PROVE  h[i] = IF i = 0 THEN C!Read(d, 0) ELSE NextBit(h[i - 1])
      <3>1. CASE i = m + 1
        <4>1. i # 0 /\ i - 1 = m /\ m \in 0..m BY <3>1
        <4> HIDE DEF h
        <4> QED BY <2>3, <2>4, <3>1, <4>1
      <3>2. CASE i \in 0..m
        <4>1. i # 0 => i - 1 \in 0..m BY <3>2
        <4> HIDE DEF h
        <4> QED BY <2>2, <2>3, <3>2, <4>1
      <3> QED BY <3>1, <3>2
    <2>6. h = [i \in 0..m + 1 |-> IF i = 0 THEN C!Read(d, 0) ELSE NextBit(h[i - 1])]
      BY <2>5
    <2> HIDE DEF h
    <2>7. BitByBit(d, m + 1, h) BY <2>6 DEF BitByBit
    <2> QED BY <2>7
  <1> HIDE DEF S
  <1>3. Nat \subseteq S BY <1>1, <1>2, SetInduction
  <1> QED BY <1>3 DEF S

LEMMA DecHeaderIs ==
    ASSUME NEW d, DecOK(d), NEW n \in Nat, NEW x, x = C!DecHeader(d, n)
    PROVE  DecOK(x.dec) /\ x.value \in Nat
  <1> DEFINE g == CHOOSE f : BitByBit(d, n, f)
             S == {m \in Nat : m <= n => DecOK(g[m].dec) /\ g[m].value \in Nat}
  <1>1. BitByBit(d, n, g) BY BitByBitExists
  <1>2. x = g[n] BY Zenon DEF C!DecHeader, C!Times, BitByBit, NextBit
  <1> HIDE DEF g
  <1>3. g[0] = C!Read(d, 0) /\ \A i \in 1..n : g[i] = NextBit(g[i - 1])
    <2>1. \A i \in 0..n : g[i] = IF i = 0 THEN C!Read(d, 0) ELSE NextBit(g[i - 1])
      BY <1>1 DEF BitByBit
    <2> QED BY <2>1
  <1>4. 0 \in S
    <2>1. g[0].dec = d /\ g[0].value = 0 BY <1>3 DEF C!Read
    <2> QED BY <2>1
  <1>5. ASSUME NEW m \in Nat, m \in S PROVE m + 1 \in S
    <2> SUFFICES ASSUME m + 1 <= n PROVE DecOK(g[m + 1].dec) /\ g[m + 1].value \in Nat
      OBVIOUS
    <2> DEFINE z == C!DecBitLogp(g[m].dec, 1)
    <2>1. DecOK(g[m].dec) /\ g[m].value \in Nat BY <1>5
    <2>2. m + 1 \in 1..n /\ (m + 1) - 1 = m OBVIOUS
    <2>3. g[m + 1] = NextBit(g[m]) BY <1>3, <2>2
    <2>4. g[m + 1].dec = z.dec /\ g[m + 1].value = 2 * g[m].value + z.value
      BY <2>3 DEF NextBit, C!Read
    <2>5. 1 \in 1..C!CodeShift BY SmallFacts
    <2>6. DecOK(z.dec) /\ z.value \in 0..1 BY <2>1, <2>5, DecBitLogpIs
    <2> HIDE DEF z
    <2>7. 2 * g[m].value + z.value \in Nat BY <2>1, <2>6
    <2> QED BY <2>4, <2>6, <2>7
  <1> HIDE DEF S
  <1>6. n \in S BY <1>4, <1>5, SetInduction
  <1> QED BY <1>2, <1>6 DEF S

(* A header that has its value, or not yet.                                 *)
IsHeader(s) == s.op = "header" /\ s.of = HeaderBits

LEMMA DecodeSymbolIs ==
    ASSUME NEW d, DecOK(d), NEW s, C!Encodable(s) \/ IsHeader(s),
           NEW x, x = C!DecodeSymbol(d, s)
    PROVE  DecOK(x.dec) /\ x.value \in Nat
  <1>1. CASE IsHeader(s)
    <2>1. x = C!DecHeader(d, HeaderBits) BY <1>1 DEF C!DecodeSymbol, IsHeader
    <2> QED BY <2>1, HeaderWidths, DecHeaderIs
  <1>2. CASE C!Encodable(s) /\ s.op = "part"
    <2>1. /\ s.of \in Seq(Nat) /\ C!Rising(s.of) /\ s.of[Len(s.of)] <= C!CodeBot
          /\ s.value \in 0..Len(s.of) - 2 /\ s.of[s.value + 1] < s.of[s.value + 2]
      BY <1>2 DEF C!Encodable
    <2>2. x = C!DecPart(d, s.of) BY <1>2 DEF C!DecodeSymbol
    <2>3. s.of[Len(s.of)] > 0
      <3>0. Len(s.of) \in Nat BY <2>1, LengthNat, Zenon
      <3>1. s.value + 1 \in 1..Len(s.of) /\ s.value + 2 \in 1..Len(s.of)
            /\ Len(s.of) \in 1..Len(s.of)
        BY <2>1, <3>0, Places, Zenon
      <3>2. s.of[s.value + 1] \in Nat /\ s.of[s.value + 2] <= s.of[Len(s.of)]
            /\ s.of[s.value + 2] \in Nat
        BY <2>1, <3>1, RisingIs
      <3>3. s.of[Len(s.of)] \in Nat BY <2>1, <3>1, NumberAt, Zenon
      <3> DEFINE a == s.of[s.value + 1]
                 b == s.of[s.value + 2]
                 c == s.of[Len(s.of)]
      <3>4. a \in Nat /\ b \in Nat /\ c \in Nat /\ a < b /\ b <= c BY <2>1, <3>2, <3>3
      <3> HIDE DEF a, b, c
      <3>5. c > 0 BY <3>4
      <3> QED BY <3>5 DEF c
    <2> DEFINE cum == s.of
    <2>4. cum \in Seq(Nat) /\ C!Rising(cum) /\ cum[Len(cum)] <= C!CodeBot
          /\ cum[Len(cum)] > 0
          /\ x = C!DecPart(d, cum)
      BY <2>1, <2>2, <2>3
    <2> HIDE DEF cum
    <2> QED BY <2>4, DecPartIs
  <1>3. CASE C!Encodable(s) /\ s.op = "logp"
    <2>1. s.of \in 1..C!CodeShift BY <1>3 DEF C!Encodable
    <2>2. x = C!DecBitLogp(d, s.of) BY <1>3 DEF C!DecodeSymbol
    <2>3. DecOK(x.dec) /\ x.value \in 0..1 BY <2>1, <2>2, DecBitLogpIs
    <2> QED BY <2>3
  <1>4. CASE C!Encodable(s) /\ s.op = "icdf"
    <2>1. /\ s.of \in Seq(0..C!SymMax) /\ Len(s.of) >= 1 /\ s.of[Len(s.of)] = 0
      BY <1>4 DEF C!Encodable, C!Falling
    <2>2. x = C!DecIcdf(d, s.of, SymBits) BY <1>4 DEF C!DecodeSymbol
    <2>3. C!SymMax \in Nat /\ C!SymMax + 1 = Base /\ Base \in Nat BY PlainWidths
    <2>4. \A i \in 1..Len(s.of) : s.of[i] \in Nat /\ s.of[i] < Base BY <2>1, <2>3
    <2>5. s.of \in Seq(Nat) BY <2>1, <2>4
    <2> DEFINE icdf == s.of
    <2> HIDE DEF icdf
    <2>6. icdf \in Seq(Nat) /\ Len(icdf) >= 1 /\ icdf[Len(icdf)] = 0
          /\ (\A i \in 1..Len(icdf) : icdf[i] < Base) /\ x = C!DecIcdf(d, icdf, SymBits)
      BY <2>1, <2>2, <2>4, <2>5 DEF icdf
    <2> QED BY <2>6, DecIcdfIs
  <1>5. CASE C!Encodable(s) /\ s.op = "uint"
    <2>1. s.of \in 2..2^CodeBits - 1 BY <1>5 DEF C!Encodable
    <2>2. x = C!DecUint(d, s.of) BY <1>5 DEF C!DecodeSymbol
    <2> QED BY <2>1, <2>2, DecUintIs
  <1>6. CASE C!Encodable(s) /\ s.op = "bits"
    <2>1. s.of \in 1..CodeBits - SymBits + 1 BY <1>6 DEF C!Encodable
    <2>2. x = C!DecBits(d, s.of) BY <1>6 DEF C!DecodeSymbol
    <2> QED BY <2>1, <2>2, DecBitsIs
  <1>7. C!Encodable(s) => s.op = "part" \/ s.op = "logp" \/ s.op = "icdf" \/ s.op = "uint"
                        \/ s.op = "bits"
    BY DEF C!Encodable
  <1> QED BY <1>1, <1>2, <1>3, <1>4, <1>5, <1>6, <1>7

-----------------------------------------------------------------------------
(* The inductive invariant.  While the packet is written, the encoder is    *)
(* between two symbols, an empty packet is fresh, and one that begins with  *)
(* a header not yet patched has its bits open.  Once it is finished, the    *)
(* registers stay, the room was enough, and the code of the decoder lies in *)
(* its interval.                                                            *)
Headers == {[op |-> "header", value |-> v, of |-> HeaderBits] : v \in Nat}
Writing ==
    /\ EncOK(enc) /\ dec = C!EncInit(0)
    /\ coded = <<>> => Fresh(enc)
    /\ coded # <<>> /\ coded[1] = C!Header => HeaderOpen(enc)
Reading ==
    /\ Apart(enc) /\ WindowOK(enc) /\ enc.rng \in C!CodeBot + 1..C!CodeTop
    /\ enc.val + enc.rng <= 2 * C!CodeTop
    /\ C!Tell(enc) <= SymBits * enc.storage => enc.error = 0
    /\ DecOK(dec)
CoderInv ==
    /\ coded \in Seq(Symbols \cup Headers) /\ decoded \in Seq(Nat) /\ done \in BOOLEAN
    /\ ~done => Writing
    /\ done => Reading

LEMMA EncInitIs ==
    ASSUME NEW size \in Nat, NEW x, x = C!EncInit(size)
    PROVE  EncOK(x) /\ Fresh(x)
  <1> DEFINE buf == [i \in 1..size |-> 0]
  <1>1. /\ CodeBits \in Nat /\ C!CodeBot \in Nat /\ C!CodeTop \in Nat
        /\ C!CodeTop = C!CodeBot * Base
        /\ Base \in Nat /\ Base >= 4 /\ C!CodeBot >= 32 /\ C!SymMax \in Nat
        /\ SymBits \in Nat
    BY SmallFacts, Widths
  <1>2. C!CodeTop > C!CodeBot /\ C!CodeTop >= 1
    <2>1. C!CodeBot * 2 <= C!CodeBot * Base BY <1>1, ProductGrows
    <2> QED BY <1>1, <2>1
  <1>3. buf \in [1..size -> Bytes] BY <1>1 DEF Bytes
  <1>4. x = [buf |-> buf, storage |-> size, offs |-> 0,
             end_offs |-> 0, end_window |-> 0, nend_bits |-> 0,
             nbits_total |-> CodeBits + 1, rng |-> C!CodeTop, val |-> 0, ext |-> 0,
             rem |-> -1, error |-> 0]
    BY DEF C!EncInit
  <1> HIDE DEF buf
  <1>5. buf \in Buffers BY <1>3 DEF Buffers
  <1>6. /\ x.buf = buf /\ x.storage = size /\ x.offs = 0 /\ x.end_offs = 0
        /\ x.end_window = 0 /\ x.nend_bits = 0 /\ x.nbits_total = CodeBits + 1
        /\ x.rng = C!CodeTop /\ x.val = 0 /\ x.ext = 0 /\ x.rem = -1 /\ x.error = 0
    BY <1>4
  <1>7. x \in Contexts
    <2> DEFINE m == -1
               o == 0
               b == CodeBits + 1
    <2>1. o \in Nat /\ o \in -1..1 /\ b \in Int /\ m \in -1..C!SymMax /\ C!CodeTop \in Nat
      BY <1>1
    <2>2. x = [buf |-> buf, storage |-> size, offs |-> o, end_offs |-> o, end_window |-> o,
               nend_bits |-> o, nbits_total |-> b, rng |-> C!CodeTop, val |-> o, ext |-> o,
               rem |-> m, error |-> o]
      BY <1>4
    <2> HIDE DEF m, o, b
    <2> DEFINE z == [buf |-> buf, storage |-> size, offs |-> o, end_offs |-> o,
                     end_window |-> o, nend_bits |-> o, nbits_total |-> b,
                     rng |-> C!CodeTop, val |-> o, ext |-> o, rem |-> m, error |-> o]
    <2>3. z \in Contexts BY <1>5, <2>1, Zenon DEF Contexts
    <2>4. x = z BY <2>2
    <2> HIDE DEF z
    <2> QED BY <2>3, <2>4
  <1>8. Apart(x) BY <1>3, <1>6, <1>7 DEF Apart
  <1>9. WindowOK(x)
    <2>1. 2^0 = 1 BY PowZero
    <2>2. x.end_window < 2^x.nend_bits BY <1>6, <2>1
    <2> QED BY <1>1, <1>6, <2>2 DEF WindowOK
  <1>10. RoomOK(x)
    <2>1. Used(x) = 0 BY <1>6 DEF Used, Held
    <2>2. Bits(0) = 0 BY <1>1 DEF Bits
    <2> QED BY <1>1, <1>6, <2>1, <2>2 DEF RoomOK
  <1> QED BY <1>1, <1>2, <1>6, <1>8, <1>9, <1>10 DEF EncOK, EncLoose, Fresh

LEMMA CoderInit == C!Init => CoderInv
  <1> SUFFICES ASSUME C!Init PROVE CoderInv OBVIOUS
  <1>1. PICK size \in Sizes : enc = C!EncInit(size) BY DEF C!Init
  <1>2. size \in Nat BY CoderAssumption DEF C!RangeCoderAssumption
  <1>3. EncOK(enc) /\ Fresh(enc) BY <1>1, <1>2, EncInitIs
  <1>4. dec = C!EncInit(0) /\ coded = <<>> /\ decoded = <<>> /\ done = FALSE BY DEF C!Init
  <1>5. coded \in Seq(Symbols \cup Headers) /\ decoded \in Seq(Nat) BY <1>4
  <1>6. Writing BY <1>3, <1>4 DEF Writing
  <1> QED BY <1>4, <1>5, <1>6 DEF CoderInv

LEMMA PutKeeps ==
    ASSUME CoderInv, NEW s \in Symbols \cup {C!Header}, C!Put(s)
    PROVE  CoderInv'
  <1>1. /\ ~done /\ ~done' /\ done' \in BOOLEAN /\ enc' = C!EncodeSymbol(enc, s)
        /\ coded' = Append(coded, s)
        /\ dec' = dec /\ decoded' = decoded /\ (s.op = "header" => coded = <<>>)
    BY DEF C!Put, CoderInv
  <1>2. Writing /\ coded \in Seq(Symbols \cup Headers) /\ decoded \in Seq(Nat)
    BY <1>1 DEF CoderInv
  <1>3. EncOK(enc) /\ dec = C!EncInit(0) BY <1>2 DEF Writing
  <1>4. C!Header \in Headers BY DEF C!Header, Headers
  <1>5. coded' \in Seq(Symbols \cup Headers) /\ coded' # <<>>
        /\ coded'[1] = IF coded = <<>> THEN s ELSE coded[1]
    BY <1>1, <1>2, <1>4
  <1>6. EncOK(enc') /\ (coded'[1] = C!Header => HeaderOpen(enc'))
    <2>1. CASE s = C!Header
      <3>1. s.op = "header" BY <2>1 DEF C!Header
      <3>2. Fresh(enc) BY <1>1, <1>2, <3>1 DEF Writing
      <3> QED BY <1>1, <1>3, <2>1, <3>2, HeaderIs
    <2>2. CASE s # C!Header
      <3>1. C!Encodable(s) BY <2>2, CoderAssumption DEF C!RangeCoderAssumption
      <3>2. EncOK(enc') /\ (HeaderOpen(enc) => HeaderOpen(enc'))
        BY <1>1, <1>3, <3>1, EncodeSymbolIs
      <3> QED BY <1>2, <1>5, <2>2, <3>2 DEF Writing
    <2> QED BY <2>1, <2>2
  <1> QED BY <1>1, <1>2, <1>3, <1>5, <1>6 DEF CoderInv, Writing

LEMMA PatchKeeps ==
    ASSUME CoderInv, C!Patch
    PROVE  CoderInv'
  <1>1. PICK v \in 1..2^HeaderBits - 1 :
             /\ enc' = C!PatchInitialBits(enc, v, HeaderBits)
             /\ coded' = [coded EXCEPT ![1].value = v]
    BY DEF C!Patch
  <1>2. /\ ~done /\ done' = done /\ dec' = dec /\ decoded' = decoded
        /\ coded # <<>> /\ coded[1] = C!Header
    BY DEF C!Patch
  <1>3. Writing /\ coded \in Seq(Symbols \cup Headers) /\ decoded \in Seq(Nat)
        /\ done \in BOOLEAN
    BY <1>2 DEF CoderInv
  <1>4. EncOK(enc) /\ dec = C!EncInit(0) /\ HeaderOpen(enc) BY <1>2, <1>3 DEF Writing
  <1>5. EncOK(enc') BY <1>1, <1>4, PatchIs
  <1>6. v \in Nat /\ v >= 1 BY HeaderWidths
  <1> DEFINE h == [op |-> "header", value |-> v, of |-> HeaderBits]
  <1>7. coded' = [coded EXCEPT ![1] = h]
    <2>1. [coded[1] EXCEPT !.value = v] = h BY <1>2 DEF C!Header
    <2> HIDE DEF h
    <2> QED BY <1>1, <2>1
  <1>8. h \in Headers /\ h # C!Header
    <2>1. h.value = v /\ C!Header.value = 0 BY DEF C!Header
    <2> QED BY <1>6, <2>1 DEF Headers
  <1> HIDE DEF h
  <1>9. coded' \in Seq(Symbols \cup Headers) /\ coded' # <<>> /\ coded'[1] = h
    <2>1. Len(coded) \in Nat /\ Len(coded) >= 1 BY <1>2, <1>3
    <2> QED BY <1>3, <1>7, <1>8, <2>1
  <1> QED BY <1>2, <1>3, <1>4, <1>5, <1>8, <1>9 DEF CoderInv, Writing

LEMMA ShrinkKeeps ==
    ASSUME CoderInv, C!Shrink
    PROVE  CoderInv'
  <1>1. PICK size \in Sizes : /\ enc.offs + enc.end_offs <= size /\ size < enc.storage
                              /\ enc' = C!EncShrink(enc, size)
    BY DEF C!Shrink
  <1>2. ~done /\ done' = done /\ dec' = dec /\ decoded' = decoded /\ coded' = coded
    BY DEF C!Shrink
  <1>3. Writing BY <1>2 DEF CoderInv
  <1>4. size \in Nat BY CoderAssumption DEF C!RangeCoderAssumption
  <1>5. EncOK(enc) BY <1>3 DEF Writing
  <1>6. EncOK(enc') /\ SameHeld(enc, enc') /\ SameCode(enc, enc')
    BY <1>1, <1>4, <1>5, ShrinkIs
  <1>7. Fresh(enc) => Fresh(enc') BY <1>6 DEF Fresh, SameHeld, SameCode
  <1>8. HeaderOpen(enc) => HeaderOpen(enc') BY <1>6 DEF HeaderOpen, SameHeld, SameCode
  <1> QED BY <1>2, <1>3, <1>6, <1>7, <1>8 DEF CoderInv, Writing

LEMMA DoneKeeps ==
    ASSUME CoderInv, C!Done
    PROVE  CoderInv'
  <1>1. /\ ~done /\ done' = TRUE /\ enc' = C!EncDone(enc)
        /\ dec' = C!DecInit(enc'.buf, enc.storage)
        /\ coded' = coded /\ decoded' = decoded
    BY DEF C!Done
  <1>2. EncOK(enc) BY <1>1 DEF CoderInv, Writing
  <1>3. Closed(enc, enc') /\ (C!Tell(enc') <= SymBits * enc'.storage => enc'.error = 0)
    BY <1>1, <1>2, EncDoneIs
  <1>4. enc.storage \in Nat /\ enc'.buf \in [1..enc.storage -> Bytes]
    BY <1>2, <1>3, EncFields, ApartIs DEF EncOK, Closed
  <1>5. DecOK(dec') BY <1>1, <1>4, DecInitIs
  <1>6. enc'.rng \in C!CodeBot + 1..C!CodeTop /\ enc'.val + enc'.rng <= 2 * C!CodeTop
    <2>1. enc'.rng = enc.rng /\ enc'.val = enc.val BY <1>3 DEF Closed
    <2>2. enc.rng \in 1..C!CodeTop /\ enc.rng > C!CodeBot
          /\ enc.val + enc.rng <= 2 * C!CodeTop
      BY <1>2 DEF EncOK, EncLoose
    <2> QED BY <2>1, <2>2, PlainWidths
  <1> QED BY <1>1, <1>3, <1>5, <1>6 DEF CoderInv, Reading, Closed

LEMMA GetKeeps ==
    ASSUME CoderInv, C!Get
    PROVE  CoderInv'
  <1> DEFINE s == coded[Len(decoded) + 1]
             r == C!DecodeSymbol(dec, s)
  <1>1. /\ done /\ Len(decoded) < Len(coded) /\ dec' = r.dec
        /\ decoded' = Append(decoded, r.value)
        /\ enc' = enc /\ coded' = coded /\ done' = done
    BY DEF C!Get
  <1>2. /\ Reading /\ coded \in Seq(Symbols \cup Headers) /\ decoded \in Seq(Nat)
        /\ done \in BOOLEAN
    BY <1>1 DEF CoderInv
  <1>3. s \in Symbols \cup Headers
    <2>1. Len(decoded) + 1 \in 1..Len(coded) BY <1>1, <1>2
    <2> QED BY <1>2, <2>1
  <1>4. C!Encodable(s) \/ IsHeader(s)
    <2>1. CASE s \in Symbols BY <2>1, CoderAssumption DEF C!RangeCoderAssumption
    <2>2. CASE s \in Headers
      <3>1. PICK v \in Nat : s = [op |-> "header", value |-> v, of |-> HeaderBits]
        BY <2>2 DEF Headers
      <3>2. s.op = "header" /\ s.of = HeaderBits BY <3>1
      <3> QED BY <3>2 DEF IsHeader
    <2> QED BY <1>3, <2>1, <2>2
  <1> HIDE DEF s
  <1>5. DecOK(dec) BY <1>2 DEF Reading
  <1>6. DecOK(r.dec) /\ r.value \in Nat BY <1>4, <1>5, DecodeSymbolIs
  <1> HIDE DEF r
  <1>7. decoded' \in Seq(Nat) BY <1>1, <1>2, <1>6
  <1> QED BY <1>1, <1>2, <1>6, <1>7 DEF CoderInv, Reading

LEMMA CoderStep == CoderInv /\ C!Next => CoderInv'
  BY PutKeeps, PatchKeeps, ShrinkKeeps, DoneKeeps, GetKeeps DEF C!Next

LEMMA CoderSame == CoderInv /\ UNCHANGED C!vars => CoderInv'
  BY DEF CoderInv, Writing, Reading, C!vars

(* What the invariant says of the registers and of the room.                *)
LEMMA RegistersOK ==
    ASSUME NEW c, c \in Contexts, c.buf \in [1..c.storage -> Bytes],
           c.rng \in C!CodeBot + 1..C!CodeTop, c.val + c.rng <= 2 * C!CodeTop, WindowOK(c)
    PROVE  /\ c.rng \in C!CodeBot + 1..C!CodeTop /\ c.val \in 0..2 * C!CodeTop - 1
           /\ c.end_window \in 0..2^CodeBits - 1 /\ c.nend_bits \in 0..CodeBits
           /\ \A i \in 1..c.storage : c.buf[i] \in 0..C!SymMax
  <1>1. c.rng \in Nat /\ c.val \in Nat /\ c.nend_bits \in Nat /\ c.end_window \in Nat
        /\ c.end_window < 2^c.nend_bits /\ c.nend_bits <= CodeBits
    BY Fields DEF WindowOK
  <1>2. CodeBits \in Nat /\ C!CodeTop \in Nat /\ C!CodeBot \in Nat BY SmallFacts, PlainWidths
  <1>3. 2^c.nend_bits <= 2^CodeBits /\ 2^c.nend_bits \in Nat /\ 2^CodeBits \in Nat
    BY <1>1, <1>2, PowMonotone, PowNat
  <1>4. c.end_window \in 0..2^CodeBits - 1
    <2> DEFINE p == 2^c.nend_bits
               q == 2^CodeBits
    <2>1. p \in Nat /\ q \in Nat /\ p <= q /\ c.end_window < p BY <1>1, <1>3
    <2> HIDE DEF p, q
    <2>2. c.end_window \in 0..q - 1 BY <1>1, <2>1
    <2> QED BY <2>2 DEF q
  <1>5. c.val \in 0..2 * C!CodeTop - 1 /\ c.nend_bits \in 0..CodeBits BY <1>1, <1>2
  <1>6. \A i \in 1..c.storage : c.buf[i] \in 0..C!SymMax BY DEF Bytes
  <1> QED BY <1>4, <1>5, <1>6

LEMMA EncRegisters ==
    ASSUME NEW e, Apart(e), WindowOK(e), e.rng \in C!CodeBot + 1..C!CodeTop,
           e.val + e.rng <= 2 * C!CodeTop
    PROVE  /\ e.rng \in C!CodeBot + 1..C!CodeTop /\ e.val \in 0..2 * C!CodeTop - 1
           /\ e.end_window \in 0..2^CodeBits - 1 /\ e.nend_bits \in 0..CodeBits
           /\ e.offs <= e.storage /\ e.end_offs <= e.storage
           /\ \A i \in 1..e.storage : e.buf[i] \in 0..C!SymMax
           /\ e.offs + e.end_offs <= e.storage
  <1>1. /\ e \in Contexts /\ e.buf \in [1..e.storage -> Bytes] /\ e.offs \in Nat
        /\ e.end_offs \in Nat /\ e.storage \in Nat /\ e.offs + e.end_offs <= e.storage
    BY ApartIs
  <1>2. e.offs <= e.storage /\ e.end_offs <= e.storage BY <1>1
  <1>3. /\ e.rng \in C!CodeBot + 1..C!CodeTop /\ e.val \in 0..2 * C!CodeTop - 1
        /\ e.end_window \in 0..2^CodeBits - 1 /\ e.nend_bits \in 0..CodeBits
        /\ \A i \in 1..e.storage : e.buf[i] \in 0..C!SymMax
    BY <1>1, RegistersOK
  <1> QED BY <1>1, <1>2, <1>3

LEMMA EncOKRegisters ==
    ASSUME NEW e, EncOK(e)
    PROVE  Apart(e) /\ WindowOK(e) /\ e.rng \in C!CodeBot + 1..C!CodeTop
           /\ e.val + e.rng <= 2 * C!CodeTop
  BY PlainWidths DEF EncOK, EncLoose

LEMMA DecRegisters ==
    ASSUME NEW d, DecOK(d)
    PROVE  /\ d.rng \in C!CodeBot + 1..C!CodeTop /\ d.val \in 0..2 * C!CodeTop - 1
           /\ d.end_window \in 0..2^CodeBits - 1 /\ d.nend_bits \in 0..CodeBits
           /\ d.offs <= d.storage /\ d.end_offs <= d.storage
           /\ \A i \in 1..d.storage : d.buf[i] \in 0..C!SymMax
  <1>1. /\ d \in Contexts /\ d.buf \in [1..d.storage -> Bytes] /\ WindowOK(d)
        /\ d.offs <= d.storage /\ d.end_offs <= d.storage
        /\ d.rng \in 1..C!CodeTop /\ d.rng > C!CodeBot /\ d.val < d.rng
    BY DEF DecOK, DecLoose
  <1>2. d.rng \in C!CodeBot + 1..C!CodeTop /\ d.val + d.rng <= 2 * C!CodeTop
    <2>1. d.rng \in Nat /\ d.val \in Nat /\ C!CodeTop \in Nat /\ C!CodeBot \in Nat
      BY <1>1, Fields, PlainWidths
    <2> QED BY <1>1, <2>1
  <1>3. /\ d.rng \in C!CodeBot + 1..C!CodeTop /\ d.val \in 0..2 * C!CodeTop - 1
        /\ d.end_window \in 0..2^CodeBits - 1 /\ d.nend_bits \in 0..CodeBits
        /\ \A i \in 1..d.storage : d.buf[i] \in 0..C!SymMax
    BY <1>1, <1>2, RegistersOK
  <1> QED BY <1>1, <1>3

LEMMA CoderTypes == CoderInv => C!TypeOK
  <1> SUFFICES ASSUME CoderInv PROVE C!TypeOK OBVIOUS
  <1>1. CASE ~done
    <2>1. EncOK(enc) /\ dec = C!EncInit(0) BY <1>1 DEF CoderInv, Writing
    <2>2. EncOK(dec) BY <2>1, EncInitIs
    <2>3. Apart(enc) /\ WindowOK(enc) /\ enc.rng \in C!CodeBot + 1..C!CodeTop
          /\ enc.val + enc.rng <= 2 * C!CodeTop
      BY <2>1, EncOKRegisters
    <2>4. Apart(dec) /\ WindowOK(dec) /\ dec.rng \in C!CodeBot + 1..C!CodeTop
          /\ dec.val + dec.rng <= 2 * C!CodeTop
      BY <2>2, EncOKRegisters
    <2> QED BY <2>3, <2>4, EncRegisters, Zenon DEF C!TypeOK
  <1>2. CASE done
    <2>1. /\ Apart(enc) /\ WindowOK(enc) /\ enc.rng \in C!CodeBot + 1..C!CodeTop
          /\ enc.val + enc.rng <= 2 * C!CodeTop /\ DecOK(dec)
      BY <1>2 DEF CoderInv, Reading
    <2> QED BY <2>1, EncRegisters, DecRegisters, Zenon DEF C!TypeOK
  <1> QED BY <1>1, <1>2

LEMMA CoderRoom == CoderInv => C!RoomEnough
  BY DEF CoderInv, Reading, C!RoomEnough

-----------------------------------------------------------------------------
(* The parts as their proofs know them.                                     *)
NP == INSTANCE EspNow_proofs
DP == INSTANCE OpusDecoder_proofs
PP == INSTANCE OpusPacket_proofs

-----------------------------------------------------------------------------
(* The pairing.                                                             *)
LEMMA SameTransmit == ASSUME NEW d PROVE N!Transmit(d) <=> NP!Transmit(d)
  BY DEF N!Transmit, NP!Transmit, N!Listeners, NP!Listeners, N!HasRoom, NP!HasRoom

LEMMA SameSendDone == ASSUME NEW d PROVE N!SendDone(d) <=> NP!SendDone(d)
  BY DEF N!SendDone, NP!SendDone, N!Take, NP!Take, N!Send, NP!Send,
         N!Prepare, NP!Prepare, N!DeleteTask, NP!DeleteTask

LEMMA SameStopped == ASSUME NEW d PROVE N!BroadcastStopped(d) <=> NP!BroadcastStopped(d)
  BY DEF N!BroadcastStopped, NP!BroadcastStopped, N!Take, NP!Take

LEMMA SameReceive ==
    ASSUME NEW d
    PROVE  /\ N!RecvBroadcast(d) <=> NP!RecvBroadcast(d)
           /\ N!RecvNoMemory(d) <=> NP!RecvNoMemory(d)
           /\ N!RecvUnicast(d) <=> NP!RecvUnicast(d)
  BY DEF N!RecvBroadcast, NP!RecvBroadcast, N!RecvNoMemory, NP!RecvNoMemory,
         N!RecvUnicast, NP!RecvUnicast, N!Take, NP!Take, N!Send, NP!Send,
         N!Prepare, NP!Prepare, N!Starts, NP!Starts, N!DeleteTask, NP!DeleteTask

LEMMA SameNowInit == N!EspNowAssumption /\ N!Init => NP!EspNowAssumption /\ NP!Init
  BY DEF N!EspNowAssumption, NP!EspNowAssumption, N!Init, NP!Init, N!Prepare, NP!Prepare

LEMMA SameNowProperties ==
    /\ NP!NoMutualSenders => N!NoMutualSenders
    /\ NP!SenderIsKnown => N!SenderIsKnown
    /\ NP!OneAtATime => N!OneAtATime
  BY DEF N!NoMutualSenders, NP!NoMutualSenders, N!SenderIsKnown, NP!SenderIsKnown,
         N!OneAtATime, NP!OneAtATime, N!UnderWay, NP!UnderWay

NowOK == subject = "now" => NP!EspNowInv

LEMMA NowStep == ASSUME NowOK, [Next]_vars PROVE NowOK'
  <1> SUFFICES ASSUME subject' = "now" PROVE NP!EspNowInv' BY DEF NowOK
  <1>1. subject = "now"
    BY DEF Next, vars, Now, Coder, Packet, Decoder, Of
  <1>2. NP!EspNowInv BY <1>1 DEF NowOK
  <1>3. [NP!Next]_(NP!vars)
    <2>1. CASE UNCHANGED vars BY <2>1 DEF vars, nowVars, NP!vars
    <2>2. CASE \E d \in Devices :
                  N!Transmit(d) \/ N!SendDone(d) \/ N!BroadcastStopped(d)
                  \/ N!RecvBroadcast(d) \/ N!RecvNoMemory(d) \/ N!RecvUnicast(d)
      BY <2>2, SameTransmit, SameSendDone, SameStopped, SameReceive
         DEF NP!Next, NP!Task
    <2>3. CASE Coder \/ Packet \/ Decoder
      BY <1>1, <2>3 DEF Coder, Packet, Decoder, Of
    <2> QED BY <2>1, <2>2, <2>3 DEF Next
  <1>4. NP!EspNowAssumption
    BY NowAssumption, SameNowInit DEF N!EspNowAssumption, NP!EspNowAssumption
  <1> QED BY <1>2, <1>3, <1>4, NP!EspNowStep

LEMMA InitNow == ASSUME Init PROVE NowOK
  <1>1. subject = "now" => N!Init BY DEF Init
  <1> QED BY <1>1, NowAssumption, SameNowInit, NP!InitEspNow DEF NowOK

LEMMA NowInvariant == Spec => []NowOK
  <1>1. Init => NowOK BY InitNow
  <1>2. NowOK /\ [Next]_vars => NowOK' BY NowStep
  <1> QED BY <1>1, <1>2, PTL DEF Spec

(* Two devices never both send data to each other, unless they drew the     *)
(* same number: however many devices there are and whatever is lost         *)
(* (the comparison of the magic numbers in espnow_task).                    *)
THEOREM NoMutualSendersCorrect == Spec => []NoMutualSenders
  <1>1. NowOK => NoMutualSenders
    BY NowAssumption, NP!RolesAreOrdered, SameNowProperties
       DEF NowOK, NoMutualSenders, NP!EspNowInv, N!EspNowAssumption,
           NP!EspNowAssumption
  <1> QED BY <1>1, NowInvariant, PTL

(* Of two devices, the one that receives has made the other a peer before   *)
(* the first data is sent to it (esp_now_add_peer in espnow_task).          *)
THEOREM SenderIsKnownCorrect ==
    ASSUME \A a, b, c \in Devices : a = b \/ b = c \/ a = c
    PROVE  Spec => []SenderIsKnown
  <1>1. NP!Pair BY DEF NP!Pair
  <1>2. NowOK => SenderIsKnown
    BY <1>1, NP!RolesAreKnown, SameNowProperties
       DEF NowOK, SenderIsKnown, NP!EspNowInv
  <1> QED BY <1>2, NowInvariant, PTL

(* A device sends the next frame to an address only when the one before is  *)
(* sent and its notification taken from the queue (espnow_task).            *)
THEOREM OneAtATimeCorrect == Spec => []OneAtATime
  <1>1. NowOK => OneAtATime
    BY SameNowProperties DEF NowOK, OneAtATime, NP!EspNowInv
  <1> QED BY <1>1, NowInvariant, PTL

-----------------------------------------------------------------------------
(* The decoder.                                                             *)
LEMMA SameSilk ==
    ASSUME NEW d, NEW mode, NEW frame, NEW room
    PROVE  D!Silk(d, mode, frame, room) = DP!Silk(d, mode, frame, room)
  BY DEF D!Silk, DP!Silk, D!SilkReset, DP!SilkReset, D!Longer, DP!Longer,
         D!Shorter, DP!Shorter, D!F10, DP!F10, D!F20, DP!F20

LEMMA SameCelt ==
    /\ \A d, size, room, kind : D!Celt(d, size, room, kind) = DP!Celt(d, size, room, kind)
    /\ \A d, mode, size, room, red :
         D!CeltMain(d, mode, size, room, red) = DP!CeltMain(d, mode, size, room, red)
  BY DEF D!Celt, DP!Celt, D!CeltMain, DP!CeltMain, D!CeltDiscard, DP!CeltDiscard,
         D!Shorter, DP!Shorter, D!F20, DP!F20, D!F2_5, DP!F2_5

LEMMA SameRest ==
    /\ \A d, mode, red : D!Remember(d, mode, red) = DP!Remember(d, mode, red)
    /\ \A d, mode, red : D!Behind(d, mode, red) = DP!Behind(d, mode, red)
    /\ \A mode, n : D!ConcealSize(mode, n) = DP!ConcealSize(mode, n)
    /\ \A m, n : D!Shorter(m, n) = DP!Shorter(m, n)
    /\ D!F20 = DP!F20 /\ D!F5 = DP!F5
    /\ \A d, mode : D!Fades(d, mode) <=> DP!Fades(d, mode)
    /\ D!Decoder = DP!Decoder
  BY DEF D!Remember, DP!Remember, D!Behind, DP!Behind, D!ConcealSize, DP!ConcealSize,
         D!Shorter, DP!Shorter, D!F20, DP!F20, D!F5, DP!F5, D!F10, DP!F10,
         D!Fades, DP!Fades, D!Decoder, DP!Decoder

LEMMA SameShort ==
    ASSUME NEW d, NEW n PROVE D!ConcealShort(d, n) = DP!ConcealShort(d, n)
  BY SameSilk, SameCelt, SameRest DEF D!ConcealShort, DP!ConcealShort

LEMMA SameLong ==
    ASSUME NEW d, NEW n PROVE D!ConcealLong(d, n) = DP!ConcealLong(d, n)
  <1>1. \A c : D!ConcealMore(c) = DP!ConcealMore(c)
    BY SameShort, SameRest DEF D!ConcealMore, DP!ConcealMore
  <1> QED BY <1>1 DEF D!ConcealLong, DP!ConcealLong

LEMMA SameConceal ==
    ASSUME NEW d, NEW room PROVE D!Conceal(d, room) = DP!Conceal(d, room)
  BY SameShort, SameLong, SameRest DEF D!Conceal, DP!Conceal, D!Limit, DP!Limit

LEMMA SameDecode ==
    ASSUME NEW d, NEW room, NEW red
    PROVE  D!DecodeFrame(d, room, red) = DP!DecodeFrame(d, room, red)
  BY SameSilk, SameCelt, SameRest, SameShort
     DEF D!DecodeFrame, DP!DecodeFrame, D!Fade, DP!Fade

LEMMA SameCalls ==
    /\ D!Packets = DP!Packets /\ D!Idle = DP!Idle /\ D!Cleared = DP!Cleared
    /\ D!Keep <=> DP!Keep
    /\ \A call, conceal, p, room, goal :
         D!Begin(call, conceal, p, room, goal) = DP!Begin(call, conceal, p, room, goal)
    /\ \A d, p : D!With(d, p) = DP!With(d, p)
  BY DEF D!Packets, DP!Packets, D!Packet, DP!Packet, D!Modes, DP!Modes,
         D!FrameSizes, DP!FrameSizes, D!Idle, DP!Idle, D!Cleared, DP!Cleared,
         D!F2_5, DP!F2_5, D!Keep, DP!Keep, D!Begin, DP!Begin, D!With, DP!With

LEMMA SameReturns ==
    ASSUME NEW n, NEW d
    PROVE  /\ D!Becomes(d) <=> DP!Becomes(d)
           /\ D!Returns(n, d) <=> DP!Returns(n, d)
  BY DEF D!Becomes, DP!Becomes, D!Returns, DP!Returns, D!Idle, DP!Idle

LEMMA SameDecoderNext == D!Next => DP!Next
  <1>1. D!Reset => DP!Reset BY SameCalls DEF D!Reset, DP!Reset
  <1>6. D!Lost => DP!Lost BY SameCalls DEF D!Lost, DP!Lost
  <1>7. D!Receive => DP!Receive
    BY SameCalls, SameRest, SameReturns DEF D!Receive, DP!Receive
  <1>8. D!Recover => DP!Recover BY SameCalls DEF D!Recover, DP!Recover
  <1>2. D!ConcealFrame => DP!ConcealFrame
    <2>1. D!Conceal(D!Decoder, job.conceal) = DP!Conceal(DP!Decoder, job.conceal)
      BY SameRest, SameConceal
    <2>2. D!Idle = DP!Idle BY SameCalls
    <2> QED BY <2>1, <2>2, SameReturns DEF D!ConcealFrame, DP!ConcealFrame
  <1>3. D!Frame => DP!Frame
    <2>1. \A n : D!Conceal(D!Decoder, n) = DP!Conceal(DP!Decoder, n)
      BY SameRest, SameConceal
    <2>2. \A n, red : D!DecodeFrame(D!Decoder, n, red) = DP!DecodeFrame(DP!Decoder, n, red)
      BY SameRest, SameDecode
    <2>3. D!Idle = DP!Idle BY SameCalls
    <2> QED BY <2>1, <2>2, <2>3, SameReturns
         DEF D!Frame, DP!Frame, D!Redundancies, DP!Redundancies
  <1>4. D!FrameRefused => DP!FrameRefused
    <2>1. D!SilkRefused => DP!SilkRefused
      BY SameRest, SameReturns, SameSilk DEF D!SilkRefused, DP!SilkRefused
    <2>2. \A n, red : D!DecodeFrame(D!Decoder, n, red) = DP!DecodeFrame(DP!Decoder, n, red)
      BY SameRest, SameDecode
    <2>3. D!CeltRefused => DP!CeltRefused
      BY <2>2, SameReturns
         DEF D!CeltRefused, DP!CeltRefused, D!Redundancies, DP!Redundancies
    <2> QED BY <2>1, <2>3, SameCalls DEF D!FrameRefused, DP!FrameRefused
  <1>5. D!FecFrame => DP!FecFrame
    BY SameCalls, SameRest, SameReturns, SameConceal, SameDecode
       DEF D!FecFrame, DP!FecFrame
  <1> QED BY <1>1, <1>2, <1>3, <1>4, <1>5, <1>6, <1>7, <1>8 DEF D!Next, DP!Next

LEMMA SameDecoderProperties ==
    /\ D!OpusDecoderAssumption => DP!OpusDecoderAssumption
    /\ D!Init => DP!Init
    /\ DP!NoStaleState => D!NoStaleState
    /\ DP!WholeCalls => D!WholeCalls
  BY SameCalls
     DEF D!OpusDecoderAssumption, DP!OpusDecoderAssumption, D!Init, DP!Init,
         D!NoStaleState, DP!NoStaleState, D!WholeCalls, DP!WholeCalls

DecoderOK == subject = "decoder" => DP!DecoderInv

LEMMA DecoderStep == ASSUME DecoderOK, [Next]_vars PROVE DecoderOK'
  <1> SUFFICES ASSUME subject' = "decoder" PROVE DP!DecoderInv' BY DEF DecoderOK
  <1>1. subject = "decoder"
    BY DEF Next, vars, Now, Coder, Packet, Decoder, Of
  <1>2. DP!DecoderInv BY <1>1 DEF DecoderOK
  <1>3. [DP!Next]_(DP!vars)
    <2>1. CASE UNCHANGED vars BY <2>1 DEF vars, decoderVars, DP!vars
    <2>2. CASE Decoder /\ D!Next BY <2>2, SameDecoderNext
    <2>3. CASE Now \/ Coder \/ Packet
      BY <1>1, <2>3 DEF Now, Coder, Packet, Of
    <2> QED BY <2>1, <2>2, <2>3 DEF Next
  <1>4. DP!OpusDecoderAssumption BY DecoderAssumption, SameDecoderProperties
  <1> QED BY <1>2, <1>3, <1>4, DP!DecoderStep

LEMMA InitDecoder == ASSUME Init PROVE DecoderOK
  <1>1. subject = "decoder" => D!Init BY DEF Init
  <1> QED BY <1>1, SameDecoderProperties, DP!InitDecoder DEF DecoderOK

LEMMA DecoderInvariant == Spec => []DecoderOK
  <1>1. Init => DecoderOK BY InitDecoder
  <1>2. DecoderOK /\ [Next]_vars => DecoderOK' BY DecoderStep
  <1> QED BY <1>1, <1>2, PTL DEF Spec

(* No coder goes on with the state of a stream that it left to the other    *)
(* one, whatever is lost, refused or concealed between the changes, for     *)
(* every room and packet (the resets in opus_decode_frame).                 *)
THEOREM NoStaleStateCorrect == Spec => []NoStaleState
  <1>1. DecoderOK => NoStaleState
    BY DP!InvStale, SameDecoderProperties DEF DecoderOK, NoStaleState
  <1> QED BY <1>1, DecoderInvariant, PTL

(* The assertions of opus_decode_native, for every room and packet: frames  *)
(* add up to what was asked for, and no coder writes beyond its room.       *)
THEOREM WholeCallsCorrect == Spec => []WholeCalls
  <1>1. DecoderOK => WholeCalls
    BY DP!InvCalls, SameDecoderProperties DEF DecoderOK, WholeCalls
  <1> QED BY <1>1, DecoderInvariant, PTL

-----------------------------------------------------------------------------
(* The packets.                                                             *)
LEMMA SameSum ==
    ASSUME NEW s
    PROVE  P!Sum(s) = PP!Sum(s)
  BY DEF P!Sum, PP!Sum

LEMMA SameByte ==
    ASSUME NEW p, NEW i
    PROVE  P!Byte(p, i) = PP!Byte(p, i)
  BY DEF P!Byte, PP!Byte

LEMMA SameParseSize ==
    ASSUME NEW p, NEW i, NEW n
    PROVE  P!ParseSize(p, i, n) = PP!ParseSize(p, i, n)
  BY SameByte DEF P!ParseSize, PP!ParseSize

LEMMA SameReadSizes ==
    ASSUME NEW p, NEW c, NEW n
    PROVE  P!ReadSizes(p, c, n) = PP!ReadSizes(p, c, n)
  BY DEF P!ReadSizes, PP!ReadSizes, P!ReadSize, PP!ReadSize, P!ParseSize, PP!ParseSize,
         P!Byte, PP!Byte, P!Bad, PP!Bad

LEMMA SameSkip ==
    ASSUME NEW p, NEW c
    PROVE  P!SkipPadding(p, c) = PP!SkipPadding(p, c)
  BY DEF P!SkipPadding, PP!SkipPadding, P!Byte, PP!Byte, P!Bad, PP!Bad

LEMMA SameReadSize ==
    ASSUME NEW p, NEW c
    PROVE  P!ReadSize(p, c) = PP!ReadSize(p, c)
  BY SameParseSize DEF P!ReadSize, PP!ReadSize, P!Bad, PP!Bad

LEMMA SameEven ==
    ASSUME NEW c, NEW sd
    PROVE  P!EvenSizes(c, sd) = PP!EvenSizes(c, sd)
  BY DEF P!EvenSizes, PP!EvenSizes, P!Bad, PP!Bad

LEMMA SameSamples ==
    ASSUME NEW toc, NEW Fs
    PROVE  P!SamplesPerFrame(toc, Fs) = PP!SamplesPerFrame(toc, Fs)
  BY DEF P!SamplesPerFrame, PP!SamplesPerFrame

LEMMA SameCursor ==
    /\ P!Bad = PP!Bad
    /\ \A n, cbr, at, len, rest, sizes, pad :
         P!Cursor(n, cbr, at, len, rest, sizes, pad)
           = PP!Cursor(n, cbr, at, len, rest, sizes, pad)
  BY DEF P!Cursor, PP!Cursor, P!Bad, PP!Bad

LEMMA SameMany ==
    ASSUME NEW p, NEW sd
    PROVE  P!ManyFrames(p, sd) = PP!ManyFrames(p, sd)
  BY SameByte, SameCursor, SameSkip, SameEven, SameReadSizes, SameSamples
     DEF P!ManyFrames, PP!ManyFrames

LEMMA SameLead ==
    ASSUME NEW p, NEW sd
    PROVE  P!Lead(p, sd) = PP!Lead(p, sd)
  BY SameCursor, SameEven, SameReadSize, SameMany DEF P!Lead, PP!Lead

LEMMA SameLast ==
    ASSUME NEW p, NEW c, NEW sd
    PROVE  P!LastSize(p, c, sd) = PP!LastSize(p, c, sd)
  BY DEF P!LastSize, PP!LastSize, P!ParseSize, PP!ParseSize, P!Byte, PP!Byte,
         P!Bad, PP!Bad

LEMMA SameOnly ==
    ASSUME NEW S
    PROVE  P!Only(S) = PP!Only(S)
  BY DEF P!Only, PP!Only

LEMMA SameParse ==
    ASSUME NEW p, NEW sd
    PROVE  P!Parse(p, sd) = PP!Parse(p, sd)
  <1>1. {IF c = P!Bad THEN P!Bad ELSE P!LastSize(p, c, sd) : c \in {P!Lead(p, sd)}}
      = {IF c = PP!Bad THEN PP!Bad ELSE PP!LastSize(p, c, sd) : c \in {PP!Lead(p, sd)}}
    BY SameLast, SameLead, SameCursor
  <1> QED BY <1>1, SameOnly, SameCursor DEF P!Parse, PP!Parse

LEMMA SameEncode ==
    ASSUME NEW n
    PROVE  P!EncodeSize(n) = PP!EncodeSize(n)
  BY DEF P!EncodeSize, PP!EncodeSize

LEMMA SameTail ==
    ASSUME NEW l, NEW sd
    PROVE  P!TailSize(l, sd) = PP!TailSize(l, sd)
  BY DEF P!TailSize, PP!TailSize, P!IsLong, PP!IsLong

LEMMA SameShortest ==
    ASSUME NEW toc, NEW l, NEW sd
    PROVE  P!Shortest(toc, l, sd) = PP!Shortest(toc, l, sd)
  BY SameTail, SameEncode DEF P!Shortest, PP!Shortest, P!IsLong, PP!IsLong

LEMMA SamePaddingBytes ==
    ASSUME NEW n
    PROVE  P!PaddingBytes(n) = PP!PaddingBytes(n)
  BY DEF P!PaddingBytes, PP!PaddingBytes

LEMMA SameFlat ==
    ASSUME NEW l
    PROVE  P!FlattenSeq(l) = PP!FlattenSeq(l)
  BY DEF P!FlattenSeq, PP!FlattenSeq

LEMMA SameCounting ==
    ASSUME NEW toc, NEW l, NEW m, NEW sd, NEW pad
    PROVE  P!Counting(toc, l, m, sd, pad) = PP!Counting(toc, l, m, sd, pad)
  <1>1. [i \in 1..Len(l) - 1 |-> P!IsLong(l[i])]
      = [i \in 1..Len(l) - 1 |-> PP!IsLong(l[i])]
     BY DEF P!IsLong, PP!IsLong
  <1>2. [i \in 1..Len(l) - 1 |-> P!EncodeSize(SubSeq(l, 1, Len(l) - 1)[i])]
      = [i \in 1..Len(l) - 1 |-> PP!EncodeSize(SubSeq(l, 1, Len(l) - 1)[i])]
     BY SameEncode
  <1> DEFINE vbr == \E i \in 2..Len(l) : l[i] # l[1]
             longs == [i \in 1..Len(l) - 1 |-> P!IsLong(l[i])]
             codes == [i \in 1..Len(l) - 1 |-> P!EncodeSize(SubSeq(l, 1, Len(l) - 1)[i])]
             longs1 == [i \in 1..Len(l) - 1 |-> PP!IsLong(l[i])]
             codes1 == [i \in 1..Len(l) - 1 |-> PP!EncodeSize(SubSeq(l, 1, Len(l) - 1)[i])]
             counted == IF vbr THEN Len(l) - 1 + P!Sum(longs) ELSE 0
             counted1 == IF vbr THEN Len(l) - 1 + PP!Sum(longs1) ELSE 0
             needed == P!TailSize(l, sd) + 2 + P!Sum(l) + counted
             needed1 == PP!TailSize(l, sd) + 2 + PP!Sum(l) + counted1
             extra == IF pad THEN m - needed ELSE 0
             extra1 == IF pad THEN m - needed1 ELSE 0
             flat == IF vbr THEN P!FlattenSeq(codes) ELSE <<>>
             flat1 == IF vbr THEN PP!FlattenSeq(codes1) ELSE <<>>
             Header(e) == <<toc + 3, Len(l) + (IF vbr THEN 128 ELSE 0)
                                       + (IF e # 0 THEN 64 ELSE 0)>>
  <1>3. counted = counted1 BY <1>1, SameSum, Zenon
  <1>4. flat = flat1 BY <1>2, SameFlat, Zenon
  <1>5. P!Counting(toc, l, m, sd, pad) = [len |-> needed + extra, needed |-> needed,
           head |-> Header(extra) \o P!PaddingBytes(extra) \o flat]
    BY Zenon DEF P!Counting
  <1>6. PP!Counting(toc, l, m, sd, pad) = [len |-> needed1 + extra1, needed |-> needed1,
           head |-> Header(extra1) \o PP!PaddingBytes(extra1) \o flat1]
    BY Zenon DEF PP!Counting
  <1> HIDE DEF counted, counted1, flat, flat1
  <1>7. needed = needed1 BY <1>3, SameTail, SameSum, Zenon
  <1> HIDE DEF needed, needed1
  <1>8. extra = extra1 BY <1>7, Zenon
  <1> HIDE DEF extra, extra1, Header
  <1>9. P!PaddingBytes(extra) = PP!PaddingBytes(extra1) BY <1>8, SamePaddingBytes, Zenon
  <1> QED BY <1>4, <1>5, <1>6, <1>7, <1>8, <1>9, Zenon

LEMMA SameOutRange ==
    ASSUME NEW r, NEW b, NEW e, NEW m, NEW sd, NEW pad
    PROVE  P!OutRange(r, b, e, m, sd, pad) = PP!OutRange(r, b, e, m, sd, pad)
  <1> DEFINE lens == SubSeq(r.lens, b + 1, e)
             toc == r.toc - (r.toc % 4)
             tail == IF sd THEN P!EncodeSize(lens[Len(lens)]) ELSE <<>>
             tail1 == IF sd THEN PP!EncodeSize(lens[Len(lens)]) ELSE <<>>
  <1>1. P!TooSmall = PP!TooSmall BY DEF P!TooSmall, PP!TooSmall
  <1>2. tail = tail1 BY SameEncode, Zenon
  <1>3. P!Shortest(toc, lens, sd) = PP!Shortest(toc, lens, sd) BY SameShortest
  <1>4. P!Counting(toc, lens, m, sd, pad) = PP!Counting(toc, lens, m, sd, pad)
    BY SameCounting
  <1> DEFINE Body(short, long, small, t) ==
               IF Len(lens) <= 2 /\ short.len > m THEN small
               ELSE IF Len(lens) <= 2 /\ ~(pad /\ short.len < m)
                    THEN [head |-> short.head \o t, len |-> short.len]
               ELSE IF long.needed > m THEN small
               ELSE [head |-> long.head \o t, len |-> long.len]
  <1>5. P!OutRange(r, b, e, m, sd, pad)
          = Body(P!Shortest(toc, lens, sd), P!Counting(toc, lens, m, sd, pad),
                 P!TooSmall, tail)
    BY Zenon DEF P!OutRange
  <1>6. PP!OutRange(r, b, e, m, sd, pad)
          = Body(PP!Shortest(toc, lens, sd), PP!Counting(toc, lens, m, sd, pad),
                 PP!TooSmall, tail1)
    BY Zenon DEF PP!OutRange
  <1> HIDE DEF Body, tail, tail1, lens, toc
  <1> QED BY <1>1, <1>2, <1>3, <1>4, <1>5, <1>6, Zenon

LEMMA SameCat ==
    ASSUME NEW r, NEW p, NEW sd
    PROVE  P!Cat(r, p, sd) = PP!Cat(r, p, sd)
  <1>1. P!NbFrames(p) = PP!NbFrames(p) BY SameByte DEF P!NbFrames, PP!NbFrames
  <1> DEFINE toc == IF r.lens = <<>> THEN p.head[1] ELSE r.toc
             Kept(k) == [r EXCEPT !.toc = toc, !.framesize = k]
             Catted(k, c, bad) ==
               IF c = bad THEN [rp |-> Kept(k), ok |-> FALSE]
               ELSE [rp |-> [Kept(k) EXCEPT !.lens = @ \o c.sizes], ok |-> TRUE]
             Framesize(k) == IF r.lens = <<>> THEN k ELSE r.framesize
             Body(n, k, join) ==
               IF p.len < 1 THEN [rp |-> r, ok |-> FALSE]
               ELSE IF \/ toc \div 4 # p.head[1] \div 4
                       \/ n < 1
                       \/ (n + Len(r.lens)) * k > 960
               THEN [rp |-> Kept(k), ok |-> FALSE]
               ELSE join
  <1>2. P!SamplesPerFrame(p.head[1], 8000) = PP!SamplesPerFrame(p.head[1], 8000)
    BY SameSamples
  <1>3. \A k : {Catted(k, c, P!Bad) : c \in {P!Parse(p, sd)}}
             = {Catted(k, c, PP!Bad) : c \in {PP!Parse(p, sd)}}
    <2>1. P!Bad = PP!Bad BY SameCursor
    <2> HIDE DEF Catted
    <2> QED BY <2>1, SameParse, Zenon
  <1> DEFINE k == Framesize(P!SamplesPerFrame(p.head[1], 8000))
             k1 == Framesize(PP!SamplesPerFrame(p.head[1], 8000))
  <1>4. P!Cat(r, p, sd)
      = Body(P!NbFrames(p), k,
             P!Only({Catted(k, c, P!Bad) : c \in {P!Parse(p, sd)}}))
    BY DEF P!Cat
  <1>5. PP!Cat(r, p, sd)
      = Body(PP!NbFrames(p), k1,
             PP!Only({Catted(k1, c, PP!Bad) : c \in {PP!Parse(p, sd)}}))
    BY DEF PP!Cat
  <1>6. k = k1 BY <1>2
  <1> HIDE DEF Body, Catted, k, k1
  <1> QED BY <1>1, <1>3, <1>4, <1>5, <1>6, SameOnly, Zenon

LEMMA SameRewrite ==
    ASSUME NEW r, NEW n, NEW pad
    PROVE  P!Rewrite(r, n, pad) = PP!Rewrite(r, n, pad)
  <1>1. P!TooSmall = PP!TooSmall BY DEF P!TooSmall, PP!TooSmall
  <1> QED BY <1>1, SameOutRange DEF P!Rewrite, PP!Rewrite

LEMMA SameEmpty ==
    /\ P!Empty = PP!Empty /\ P!TooSmall = PP!TooSmall
    /\ P!NoPacket = PP!NoPacket /\ P!MaxRoom = PP!MaxRoom
  BY DEF P!Empty, PP!Empty, P!TooSmall, PP!TooSmall, P!NoPacket, PP!NoPacket,
         P!MaxRoom, PP!MaxRoom

LEMMA SameMade ==
    ASSUME NEW p, NEW sd
    PROVE  P!Made(p, sd) = PP!Made(p, sd)
  BY DEF P!Made, PP!Made

LEMMA SamePad ==
    ASSUME NEW p, NEW n
    PROVE  P!PadTo(p, n) = PP!PadTo(p, n)
  <1>1. {P!Rewrite(r, n, TRUE) : r \in {P!Cat(P!Empty, p, FALSE)}}
      = {PP!Rewrite(r, n, TRUE) : r \in {PP!Cat(PP!Empty, p, FALSE)}}
    BY SameRewrite, SameCat, SameEmpty, Zenon
  <1> QED BY <1>1, SameOnly DEF P!PadTo, PP!PadTo

LEMMA SameUnpad ==
    ASSUME NEW p
    PROVE  P!Unpad(p) = PP!Unpad(p)
  <1>1. {P!Rewrite(r, p.len, FALSE) : r \in {P!Cat(P!Empty, p, FALSE)}}
      = {PP!Rewrite(r, p.len, FALSE) : r \in {PP!Cat(PP!Empty, p, FALSE)}}
    BY SameRewrite, SameCat, SameEmpty, Zenon
  <1> QED BY <1>1, SameOnly DEF P!Unpad, PP!Unpad

LEMMA SamePacketNext == P!Next => PP!Next
  <1>1. P!NewFrame => PP!NewFrame BY SameMade DEF P!NewFrame, PP!NewFrame
  <1>2. P!Reset => PP!Reset BY SameEmpty DEF P!Reset, PP!Reset
  <1>3. P!AddPacket => PP!AddPacket BY SameEmpty, SameCat DEF P!AddPacket, PP!AddPacket
  <1>4. ASSUME P!Out PROVE PP!Out
    <2> DEFINE Exact(b, e, sd) == P!OutRange(rp, b, e, P!MaxRoom, sd, FALSE).len
               Exact1(b, e, sd) == PP!OutRange(rp, b, e, PP!MaxRoom, sd, FALSE).len
    <2>1. PICK b \in 0..Len(rp.lens), e \in 1..Len(rp.lens), more \in {0} \cup Room,
               sd \in BOOLEAN :
             /\ b < e
             /\ more > 0 => b = 0 /\ e = Len(rp.lens) /\ ~sd
             /\ packet' = P!Made(P!OutRange(rp, b, e, Exact(b, e, sd) + more, sd, more > 0),
                                 sd)
             /\ made' = SubSeq(rp.lens, b + 1, e)
      BY <1>4, Zenon DEF P!Out
    <2>2. Exact(b, e, sd) = Exact1(b, e, sd) BY SameOutRange, SameEmpty, Zenon
    <2> HIDE DEF Exact, Exact1
    <2>3. packet' = PP!Made(PP!OutRange(rp, b, e, Exact1(b, e, sd) + more, sd, more > 0),
                            sd)
      BY <2>1, <2>2, SameMade, SameOutRange, Zenon
    <2>4. UNCHANGED rp BY <1>4 DEF P!Out
    <2> USE DEF Exact1
    <2> QED BY <2>1, <2>3, <2>4, Zenon DEF PP!Out
  <1>5. P!Pad => PP!Pad
    BY SameEmpty, SameMade, SamePad, SameParse, SameCursor DEF P!Pad, PP!Pad
  <1>6. P!Strip => PP!Strip BY SameEmpty, SameMade, SameUnpad DEF P!Strip, PP!Strip
  <1> QED BY <1>1, <1>2, <1>3, <1>4, <1>5, <1>6 DEF P!Next, PP!Next

LEMMA SamePacketProperties ==
    /\ P!OpusPacketAssumption => PP!OpusPacketAssumption
    /\ P!Init => PP!Init
    /\ PP!FramesFound => P!FramesFound
    /\ PP!FramesInside => P!FramesInside
    /\ PP!InPlaceStep => P!InPlaceStep
  <1>1. P!OpusPacketAssumption => PP!OpusPacketAssumption
    BY DEF P!OpusPacketAssumption, PP!OpusPacketAssumption
  <1>2. P!Init => PP!Init BY SameEmpty, SameMade DEF P!Init, PP!Init
  <1>3. PP!FramesFound => P!FramesFound
    BY SameSum, SameParse, SameCursor DEF P!FramesFound, PP!FramesFound
  <1>4. PP!FramesInside => P!FramesInside
    <2> DEFINE In(c, sum) ==
                 /\ Len(c.sizes) = c.count /\ c.count \in 1..48
                 /\ \A i \in 1..c.count : c.sizes[i] \in 0..1275
                 /\ IF packet.sd THEN c.at + sum + c.pad <= packet.len
                    ELSE c.at + sum + c.pad = packet.len
               Each(S, bad, Summed(_)) == \A c \in S : c # bad => In(c, Summed(c.sizes))
    <2>1. P!FramesInside
            <=> (packet.len > 0 => Each({P!Parse(packet, packet.sd)}, P!Bad, P!Sum))
      BY Zenon DEF P!FramesInside
    <2>2. PP!FramesInside
            <=> (packet.len > 0 => Each({PP!Parse(packet, packet.sd)}, PP!Bad, PP!Sum))
      BY Zenon DEF PP!FramesInside
    <2>3. P!Bad = PP!Bad /\ P!Parse(packet, packet.sd) = PP!Parse(packet, packet.sd)
      BY SameParse, SameCursor
    <2> HIDE DEF In
    <2>4. \A c : In(c, P!Sum(c.sizes)) <=> In(c, PP!Sum(c.sizes)) BY SameSum, Zenon
    <2>5. Each({PP!Parse(packet, packet.sd)}, PP!Bad, PP!Sum)
            => Each({P!Parse(packet, packet.sd)}, P!Bad, P!Sum)
      BY <2>3, <2>4, Zenon
    <2> QED BY <2>1, <2>2, <2>5, Zenon
  <1>5. PP!InPlaceStep => P!InPlaceStep BY SameParse DEF P!InPlaceStep, PP!InPlaceStep
  <1> QED BY <1>1, <1>2, <1>3, <1>4, <1>5

PacketOK == subject = "packet" => PP!PacketInv

LEMMA PacketStep == [Next]_vars /\ subject' = "packet" => [PP!Next]_(PP!vars)
  <1> SUFFICES ASSUME [Next]_vars, subject' = "packet" PROVE [PP!Next]_(PP!vars)
    OBVIOUS
  <1>1. subject = "packet"
    BY DEF Next, vars, Now, Coder, Packet, Decoder, Of
  <1>2. CASE UNCHANGED vars BY <1>2 DEF vars, packetVars, PP!vars
  <1>3. CASE Packet /\ P!Next BY <1>3, SamePacketNext
  <1>4. CASE Now \/ Coder \/ Decoder
    BY <1>1, <1>4 DEF Now, Coder, Decoder, Of
  <1> QED BY <1>2, <1>3, <1>4 DEF Next

LEMMA PacketKeeps == ASSUME PacketOK, [Next]_vars PROVE PacketOK'
  <1> SUFFICES ASSUME subject' = "packet" PROVE PP!PacketInv' BY DEF PacketOK
  <1>1. subject = "packet"
    BY DEF Next, vars, Now, Coder, Packet, Decoder, Of
  <1>2. PP!PacketInv BY <1>1 DEF PacketOK
  <1>3. [PP!Next]_(PP!vars) BY PacketStep
  <1>4. PP!OpusPacketAssumption BY PacketAssumption, SamePacketProperties
  <1> QED BY <1>2, <1>3, <1>4, PP!PacketNext

LEMMA InitPacket == ASSUME Init PROVE PacketOK
  <1>1. subject = "packet" => P!Init BY DEF Init
  <1> QED BY <1>1, PacketAssumption, SamePacketProperties, PP!PacketInit DEF PacketOK

LEMMA PacketInvariant == Spec => []PacketOK
  <1>1. Init => PacketOK BY InitPacket
  <1>2. PacketOK /\ [Next]_vars => PacketOK' BY PacketKeeps
  <1> QED BY <1>1, <1>2, PTL DEF Spec

(* What the repacketizer made of frames the parser finds again, with the    *)
(* same lengths and nothing but padding behind them; and of any packet it   *)
(* finds only frames that lie inside (opus_repacketizer_out_range_impl and  *)
(* opus_packet_parse_impl), for every packet, length and configuration.     *)
THEOREM FramesFoundCorrect == Spec => []FramesFound
  <1>1. PacketOK => FramesFound
    BY PP!InvFound, PP!InvInside, SamePacketProperties DEF PacketOK, FramesFound
  <1> QED BY <1>1, PacketInvariant, PTL

(* Padding or stripping a packet where it lies writes the new header only   *)
(* over the old one and over the room before it, for every packet, every    *)
(* new length and every padding there is already (opus_packet_pad and       *)
(* _unpad).                                                                 *)
THEOREM InPlaceCorrect == Spec => InPlace
  <1>1. ASSUME PacketOK, [Next]_vars
        PROVE  (subject = "packet" => P!InPlaceStep) \/ UNCHANGED vars
    <2> SUFFICES ASSUME subject = "packet", ~UNCHANGED vars PROVE P!InPlaceStep OBVIOUS
    <2>1. subject' = "packet" /\ (Packet /\ P!Next)
      BY <1>1 DEF Next, Now, Coder, Packet, Decoder, Of
    <2>2. PP!Next BY <2>1, SamePacketNext
    <2>3. PP!OpusPacketAssumption BY PacketAssumption, SamePacketProperties
    <2>4. PP!PacketInv BY <1>1 DEF PacketOK
    <2>5. PP!InPlaceStep BY <2>2, <2>3, <2>4, PP!InPlaceNext
    <2> QED BY <2>5, SamePacketProperties
  <1>2. PacketOK /\ [Next]_vars => [subject = "packet" => P!InPlaceStep]_vars BY <1>1
  <1> QED BY <1>2, PacketInvariant, PTL DEF Spec, InPlace

-----------------------------------------------------------------------------
(* The range coder: its invariant holds while it is the subject.            *)
CoderOK == subject = "coder" => CoderInv

LEMMA CoderKeeps == ASSUME CoderOK, [Next]_vars PROVE CoderOK'
  <1> SUFFICES ASSUME subject' = "coder" PROVE CoderInv' BY DEF CoderOK
  <1>1. subject = "coder"
    BY DEF Next, vars, Now, Coder, Packet, Decoder, Of
  <1>2. CoderInv BY <1>1 DEF CoderOK
  <1>3. CASE UNCHANGED vars
    <2>1. UNCHANGED C!vars BY <1>3 DEF vars, coderVars, C!vars
    <2> QED BY <1>2, <2>1, CoderSame
  <1>4. CASE Coder /\ C!Next BY <1>2, <1>4, CoderStep
  <1>5. CASE Now \/ Packet \/ Decoder
    BY <1>1, <1>5 DEF Now, Packet, Decoder, Of
  <1> QED BY <1>3, <1>4, <1>5 DEF Next

LEMMA InitCoder == ASSUME Init PROVE CoderOK
  <1>1. subject = "coder" => C!Init BY DEF Init
  <1> QED BY <1>1, CoderInit DEF CoderOK

LEMMA CoderInvariant == Spec => []CoderOK
  <1>1. Init => CoderOK BY InitCoder
  <1>2. CoderOK /\ [Next]_vars => CoderOK' BY CoderKeeps
  <1> QED BY <1>1, <1>2, PTL DEF Spec

(* ec_enc_done finds room for all that the encoder held back, with the raw  *)
(* bits that meet it in one byte, whenever ec_tell says that the symbols    *)
(* fit: for every packet, symbol and width of the registers.                *)
THEOREM RoomEnoughCorrect == Spec => []RoomEnough
  <1>1. CoderOK => RoomEnough BY CoderRoom DEF CoderOK, RoomEnough
  <1> QED BY <1>1, CoderInvariant, PTL

-----------------------------------------------------------------------------
(* The types of the parts.                                                  *)
LEMMA SameTypes ==
    /\ NP!TypeOK => N!TypeOK
    /\ PP!TypeOK => P!TypeOK
    /\ DP!TypeOK => D!TypeOK
  <1>1. NP!TypeOK => N!TypeOK
    <2>1. N!Frame = NP!Frame BY DEF N!Frame, NP!Frame, N!Addresses, NP!Addresses
    <2>2. N!Events = NP!Events
      BY <2>1 DEF N!Events, NP!Events, N!SendEvent, NP!SendEvent, N!RecvEvent,
                  NP!RecvEvent, N!Addresses, NP!Addresses
    <2> QED BY <2>1, <2>2, Zenon DEF N!TypeOK, NP!TypeOK, N!Addresses, NP!Addresses
  <1>2. PP!TypeOK => P!TypeOK
    <2> SUFFICES ASSUME PP!TypeOK PROVE P!TypeOK OBVIOUS
    <2> QED BY ZenonT(60) DEF P!TypeOK, PP!TypeOK
  <1>3. DP!TypeOK => D!TypeOK
    <2>1. D!Modes = DP!Modes /\ D!Worth = DP!Worth
      BY DEF D!Modes, DP!Modes, D!Worth, DP!Worth
    <2>2. \A m : D!FrameSizes(m) = DP!FrameSizes(m) BY DEF D!FrameSizes, DP!FrameSizes
    <2>3. {D!FrameSizes(m) : m \in D!Modes} = {DP!FrameSizes(m) : m \in DP!Modes}
      BY <2>1, <2>2
    <2> QED BY <2>1, <2>3, Zenon DEF D!TypeOK, DP!TypeOK
  <1> QED BY <1>1, <1>2, <1>3

Subject == subject \in {"now", "coder", "packet", "decoder"}

LEMMA SubjectInvariant == Spec => []Subject
  <1>1. Init => Subject BY DEF Init, Subject
  <1>2. Subject /\ [Next]_vars => Subject'
    BY DEF Subject, Next, vars, Now, Coder, Packet, Decoder, Of
  <1> QED BY <1>1, <1>2, PTL DEF Spec

(* Each part keeps its types: the queues of now.c their lengths, the        *)
(* registers of entcode.h their widths and the two ends of a packet their   *)
(* sides of the buffer, the repacketizer its 120 ms.                        *)
THEOREM TypeCorrect == Spec => []TypeOK
  <1>1. ASSUME Subject, NowOK, CoderOK, PacketOK, DecoderOK PROVE TypeOK
    <2>1. CASE subject = "now"
      <3>1. N!TypeOK BY <1>1, <2>1, SameTypes DEF NowOK, NP!EspNowInv
      <3> QED BY <2>1, <3>1 DEF TypeOK
    <2>2. CASE subject = "coder"
      <3>1. C!TypeOK BY <1>1, <2>2, CoderTypes DEF CoderOK
      <3> QED BY <2>2, <3>1 DEF TypeOK
    <2>3. CASE subject = "packet"
      <3>1. P!TypeOK BY <1>1, <2>3, PP!InvType, SameTypes DEF PacketOK
      <3> QED BY <2>3, <3>1 DEF TypeOK
    <2>4. CASE subject = "decoder"
      <3>1. D!TypeOK BY <1>1, <2>4, DP!InvType, SameTypes DEF DecoderOK
      <3> QED BY <2>4, <3>1 DEF TypeOK
    <2> QED BY <1>1, <2>1, <2>2, <2>3, <2>4 DEF Subject
  <1> QED BY <1>1, SubjectInvariant, NowInvariant, CoderInvariant, PacketInvariant,
             DecoderInvariant, PTL
=============================================================================
