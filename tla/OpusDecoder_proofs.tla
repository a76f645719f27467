-------------------------- MODULE OpusDecoder_proofs --------------------------
(***************************************************************************)
(* Proofs about the decoder's changes between its two coders: for every    *)
(* room a caller gives, every number of frames in a packet and both builds.*)
(***************************************************************************)
EXTENDS OpusDecoder, WellFoundedInduction, TLAPS

(* Induction on a set of numbers.                                           *)
Less == {p \in Nat \X Nat : p[1] < p[2]}
LEMMA LessWF == IsWellFoundedOn(Less, Nat)
  BY NatLessThanWellFounded DEF OpToRel, Less

LEMMA SetInduction ==
    ASSUME NEW S, 0 \in S, \A n \in Nat : n \in S => n + 1 \in S
    PROVE  Nat \subseteq S
  <1> SUFFICES ASSUME Nat \ S # {} PROVE FALSE OBVIOUS
  <1>1. PICK n \in Nat \ S : \A m \in Nat \ S : ~(<<m, n>> \in Less)
    BY WFMin, LessWF
  <1>2. n - 1 \in Nat /\ n - 1 \notin S /\ n - 1 < n BY <1>1
  <1>3. <<n - 1, n>> \in Less BY <1>2 DEF Less
  <1> QED BY <1>1, <1>2, <1>3

-----------------------------------------------------------------------------
(* What the coders are asked for.                                           *)

Sizes == {1, 2, 4, 8, 16, 24}
Use == [coder : {"silk", "celt", "fade", "redundant"}, size : Nat, on : Worth,
        writes : Nat, room : Nat]
States == [mode : Modes \cup {"none"}, prev_mode : Modes \cup {"none"},
           prev_redundancy : BOOLEAN, frame_size : Sizes, duration : Nat]
Decoders == [st : States, silk : Worth, celt : Worth, uses : SUBSET Use]

UseOK(u) ==
    /\ u.size \in IF u.coder = "silk" THEN {4, 8, 16, 24} ELSE {1, 2, 4, 8}
    /\ u.coder \in {"silk", "celt"} => u.on # "stale"
    /\ u.writes <= u.room

(* A coder is behind only while the frames are the other's, and CELT not    *)
(* when it decoded the redundancy at the end of the last one.               *)
Sound(d) ==
    /\ d \in Decoders
    /\ \A u \in d.uses : UseOK(u)
    /\ d.silk = "stale" => d.st.prev_mode = "celt"
    /\ d.celt = "stale" => d.st.prev_mode = "silk" /\ ~d.st.prev_redundancy

LEMMA SilkWrites ==
    ASSUME NEW frame \in {1, 2, 3, 4, 8, 16, 24},
           NEW payload, payload = Longer(F10, frame),
           NEW chunk, chunk = Shorter(F20, payload)
    PROVE  /\ payload \in {4, 8, 16, 24} /\ chunk \in {4, 8}
           /\ chunk * ((frame + chunk - 1) \div chunk) = payload
  <1> USE DEF Longer, Shorter, F10, F20
  <1>1. CASE frame = 1 BY <1>1
  <1>2. CASE frame = 2 BY <1>2
  <1>3. CASE frame = 3 BY <1>3
  <1>4. CASE frame = 4 BY <1>4
  <1>5. CASE frame = 8 BY <1>5
  <1>6. CASE frame = 16 BY <1>6
  <1>7. CASE frame = 24 BY <1>7
  <1> QED BY <1>1, <1>2, <1>3, <1>4, <1>5, <1>6, <1>7

(* SILK never decodes a state it left, and fits into the room.              *)
LEMMA SilkSound ==
    ASSUME NEW d, Sound(d), NEW mode \in Modes,
           NEW frame \in {1, 2, 3, 4, 8, 16, 24},
           NEW room \in Nat, frame <= room
    PROVE  /\ Sound(Silk(d, mode, frame, room))
           /\ Silk(d, mode, frame, room).st = d.st
           /\ Silk(d, mode, frame, room).celt = d.celt
           /\ mode = "celt" => Silk(d, mode, frame, room) = d
           /\ mode # "celt" => Silk(d, mode, frame, room).silk = "current"
  <1> DEFINE e == SilkReset(d)
             payload == Longer(F10, frame)
             chunk == Shorter(F20, payload)
             writes == chunk * ((frame + chunk - 1) \div chunk)
             space == IF FixedPoint /\ room >= F10 THEN room ELSE payload
             use == [coder |-> "silk", size |-> payload, on |-> e.silk,
                     writes |-> writes, room |-> space]
  <1>1. CASE mode = "celt"
    <2>1. Silk(d, mode, frame, room) = d BY <1>1 DEF Silk
    <2> QED BY <1>1, <2>1
  <1>2. CASE mode # "celt"
    <2>1. Silk(d, mode, frame, room) =
             [e EXCEPT !.silk = "current", !.uses = e.uses \cup {use}]
      BY <1>2 DEF Silk
    <2>2. /\ e \in Decoders /\ e.st = d.st /\ e.celt = d.celt /\ e.uses = d.uses
          /\ e.silk # "stale"
      BY DEF Sound, SilkReset, Decoders, Worth
    <2>3. payload \in {4, 8, 16, 24} /\ writes = payload BY SilkWrites
    <2>4. space \in Nat /\ writes <= space
      <3>1. CASE FixedPoint /\ room >= 4
        <4>1. payload <= room BY <3>1 DEF Longer, F10
        <4> QED BY <2>3, <3>1, <4>1 DEF F10
      <3>2. CASE ~(FixedPoint /\ room >= 4) BY <2>3, <3>2 DEF F10
      <3> QED BY <3>1, <3>2
    <2> HIDE DEF payload, writes, space, e
    <2>5. use \in Use /\ UseOK(use)
      BY <2>2, <2>3, <2>4 DEF Use, UseOK, Decoders
    <2> HIDE DEF use
    <2>6. [e EXCEPT !.silk = "current", !.uses = e.uses \cup {use}] \in Decoders
      BY <2>2, <2>5 DEF Decoders, Worth
    <2> QED BY <1>2, <2>1, <2>2, <2>5, <2>6 DEF Sound, Decoders
  <1> QED BY <1>1, <1>2

LEMMA CeltSound ==
    ASSUME NEW d, Sound(d), NEW size \in {1, 2, 4, 8}, NEW room \in Nat, size <= room,
           NEW kind \in {"celt", "fade", "redundant"},
           kind = "celt" => d.celt # "stale"
    PROVE  /\ Sound(Celt(d, size, room, kind))
           /\ Celt(d, size, room, kind).st = d.st
           /\ Celt(d, size, room, kind).silk = d.silk
           /\ Celt(d, size, room, kind).celt = "current"
  <1> DEFINE use == [coder |-> kind, size |-> size, on |-> d.celt,
                     writes |-> size, room |-> room]
  <1>1. use \in Use /\ UseOK(use) BY DEF Use, UseOK, Sound, Decoders
  <1>2. Celt(d, size, room, kind) =
           [d EXCEPT !.celt = "current", !.uses = d.uses \cup {use}]
    BY DEF Celt
  <1> HIDE DEF use
  <1>3. [d EXCEPT !.celt = "current", !.uses = d.uses \cup {use}] \in Decoders
    BY <1>1 DEF Sound, Decoders, Worth
  <1> QED BY <1>1, <1>2, <1>3 DEF Sound, Decoders

LEMMA DiscardSound ==
    ASSUME NEW d, Sound(d), NEW mode \in Modes
    PROVE  /\ Sound(CeltDiscard(d, mode))
           /\ CeltDiscard(d, mode).st = d.st
           /\ CeltDiscard(d, mode).silk = d.silk
           /\ mode # "silk" => CeltDiscard(d, mode).celt # "stale"
  BY DEF Sound, CeltDiscard, Decoders, Worth, Modes

LEMMA MainSound ==
    ASSUME NEW d, Sound(d), NEW mode \in Modes, NEW frame \in {1, 2, 3, 4, 8, 16, 24},
           mode # "silk" => frame # 3,
           NEW room \in Nat, frame <= room, NEW red
    PROVE  /\ Sound(CeltMain(d, mode, frame, room, red))
           /\ CeltMain(d, mode, frame, room, red).st = d.st
           /\ CeltMain(d, mode, frame, room, red).silk = d.silk
           /\ mode # "silk" => CeltMain(d, mode, frame, room, red).celt = "current"
  <1>1. CASE mode # "silk"
    <2> DEFINE e == CeltDiscard(d, mode)
               size == Shorter(F20, frame)
               f == Celt(e, size, room, "celt")
    <2>1. CeltMain(d, mode, frame, room, red) = f BY <1>1 DEF CeltMain
    <2>2. size \in {1, 2, 4, 8} /\ size <= room BY <1>1 DEF Shorter, F20
    <2>3. Sound(e) /\ e.st = d.st /\ e.silk = d.silk /\ e.celt # "stale"
      BY <1>1, DiscardSound
    <2> HIDE DEF e, size
    <2>4. Sound(f) /\ f.st = e.st /\ f.silk = e.silk /\ f.celt = "current"
      BY <2>2, <2>3, CeltSound
    <2> HIDE DEF f
    <2> QED BY <2>1, <2>3, <2>4
  <1>2. CASE mode = "silk"
    <2> DEFINE f == Celt(d, 1, room, "fade")
    <2>1. \/ CeltMain(d, mode, frame, room, red) = d
          \/ CeltMain(d, mode, frame, room, red) = f
      BY <1>2 DEF CeltMain, F2_5
    <2>2. 1 <= room /\ 1 \in {1, 2, 4, 8} OBVIOUS
    <2>3. Sound(f) /\ f.st = d.st /\ f.silk = d.silk BY <2>2, CeltSound
    <2> HIDE DEF f
    <2> QED BY <1>2, <2>1, <2>3
  <1> QED BY <1>1, <1>2

After(s, mode, red) ==
    [s EXCEPT !.prev_mode = mode, !.prev_redundancy = red = "to_celt"]

LEMMA RememberSound ==
    ASSUME NEW d, Sound(d), NEW mode \in Modes, NEW red,
           d.silk = "stale" => mode = "celt",
           d.celt = "stale" => mode = "silk" /\ red # "to_celt"
    PROVE  /\ Sound(Remember(d, mode, red))
           /\ Remember(d, mode, red).st = After(d.st, mode, red)
           /\ Remember(d, mode, red).silk = d.silk
           /\ Remember(d, mode, red).celt = d.celt
  <1> DEFINE new == After(d.st, mode, red)
  <1>1. new \in States /\ new.prev_mode = mode /\ (new.prev_redundancy <=> red = "to_celt")
    BY DEF Sound, Decoders, States, After
  <1>2. Remember(d, mode, red) = [d EXCEPT !.st = new]
    BY DEF Remember, Sound, Decoders, States, After
  <1> HIDE DEF new
  <1>3. [d EXCEPT !.st = new] \in Decoders BY <1>1 DEF Sound, Decoders
  <1> QED BY <1>1, <1>2, <1>3 DEF Sound, Decoders, new

LEMMA BehindSound ==
    ASSUME NEW d, Sound(d), NEW mode \in Modes, d.st.prev_mode = mode, NEW red,
           d.st.prev_redundancy <=> red = "to_celt"
    PROVE  Sound(Behind(d, mode, red)) /\ Behind(d, mode, red).st = d.st
  BY DEF Sound, Behind, Decoders, Worth

-----------------------------------------------------------------------------
(* Concealment.                                                             *)
LEMMA ConcealSizes ==
    ASSUME NEW mode \in Modes, NEW n \in 1..8
    PROVE  /\ ConcealSize(mode, n) \in {1, 2, 3, 4, 8}
           /\ ConcealSize(mode, n) <= n
           /\ mode # "silk" => ConcealSize(mode, n) # 3
           /\ n \in {1, 2, 4, 8} => ConcealSize(mode, n) = n
  <1>1. CASE n \in 5..7 BY <1>1 DEF ConcealSize, F5, F10, F20
  <1>2. CASE n = 3 BY <1>2 DEF ConcealSize, F5, F10, F20
  <1>3. CASE n \in {1, 2, 4, 8} BY <1>3 DEF ConcealSize, F5, F10, F20
  <1> QED BY <1>1, <1>2, <1>3

Concealed(d, e) ==
    /\ Sound(e)
    /\ e.st = [d.st EXCEPT !.prev_redundancy = FALSE]
    /\ d.silk = "current" => e.silk = "current"

LEMMA ShortSound ==
    ASSUME NEW d, Sound(d), d.st.prev_mode # "none", NEW n \in 1..8
    PROVE  /\ Concealed(d, ConcealShort(d, n).dec)
           /\ ConcealShort(d, n).ret \in 1..n
           /\ n \in {1, 2, 4, 8} => ConcealShort(d, n).ret = n
  <1> DEFINE mode == d.st.prev_mode
             size == ConcealSize(mode, n)
             a == Silk(d, mode, size, n)
             e == CeltMain(a, mode, size, n, "none")
  <1>1. mode \in Modes BY DEF Sound, Decoders, States
  <1>2. /\ size \in {1, 2, 3, 4, 8} /\ size <= n /\ (mode # "silk" => size # 3)
        /\ (n \in {1, 2, 4, 8} => size = n)
    BY <1>1, ConcealSizes
  <1>3. ConcealShort(d, n) = [dec |-> Remember(e, mode, "none"), ret |-> size]
    BY DEF ConcealShort
  <1> HIDE DEF mode, size
  <1>4. Sound(a) /\ a.st = d.st /\ (d.silk = "current" => a.silk = "current")
    <2>1. CASE mode = "celt"
      <3>1. a = d BY <1>1, <1>2, <2>1, SilkSound
      <3> QED BY <3>1
    <2>2. CASE mode # "celt"
      <3>1. n \in Nat /\ size \in {1, 2, 3, 4, 8, 16, 24} BY <1>2
      <3>2. Sound(a) /\ a.st = d.st /\ a.silk = "current"
        BY <1>1, <1>2, <2>2, <3>1, SilkSound
      <3> QED BY <3>2
    <2> QED BY <2>1, <2>2
  <1> HIDE DEF a
  <1>5. Sound(e) /\ e.st = d.st /\ e.silk = a.silk BY <1>1, <1>2, <1>4, MainSound
  <1> HIDE DEF e
  <1>6. /\ e.silk = "stale" => mode = "celt"
        /\ e.celt = "stale" => mode = "silk" /\ "none" # "to_celt"
    BY <1>5 DEF Sound, mode
  <1>7. PICK red : red = "none" OBVIOUS
  <1>8. /\ Sound(Remember(e, mode, red)) /\ Remember(e, mode, red).silk = e.silk
        /\ Remember(e, mode, red).st = After(e.st, mode, red)
    BY <1>1, <1>5, <1>6, <1>7, RememberSound
  <1>9. After(e.st, mode, red) = [d.st EXCEPT !.prev_redundancy = FALSE]
    BY <1>5, <1>7 DEF mode, Sound, Decoders, States, After
  <1> QED BY <1>2, <1>3, <1>4, <1>5, <1>7, <1>8, <1>9 DEF Concealed

(* The rounds of a concealment of more than 20 ms: n is what was asked for. *)
Round(d, n, c) ==
    /\ Sound(c.dec) /\ c.left \in 0..n
    /\ IF c.left = n THEN c.dec = d ELSE Concealed(d, c.dec)

LEMMA RoundStep ==
    ASSUME NEW d, Sound(d), d.st.prev_mode # "none", NEW n \in Nat, NEW c, Round(d, n, c)
    PROVE  /\ Round(d, n, ConcealMore(c))
           /\ c.left > 0 => ConcealMore(c).left < c.left
  <1>1. CASE c.left = 0
    <2>1. ConcealMore(c) = c BY <1>1 DEF ConcealMore
    <2> QED BY <1>1, <2>1
  <1>2. CASE c.left # 0
    <2> DEFINE m == Shorter(c.left, F20)
               more == ConcealShort(c.dec, m)
    <2>1. m \in 1..8 /\ m <= c.left BY <1>2 DEF Round, Shorter, F20
    <2>2. ConcealMore(c) = [dec |-> more.dec, left |-> c.left - more.ret]
      BY <1>2 DEF ConcealMore, Round
    <2>3. Sound(c.dec) /\ c.dec.st.prev_mode # "none"
      BY DEF Round, Concealed, Sound, Decoders, States
    <2> HIDE DEF m
    <2>4. Concealed(c.dec, more.dec) /\ more.ret \in 1..m
      BY <2>1, <2>3, ShortSound
    <2> HIDE DEF more
    <2>5. c.left - more.ret \in 0..n /\ c.left - more.ret < c.left
      BY <1>2, <2>1, <2>4 DEF Round
    <2>6. c.left - more.ret # n BY <2>5 DEF Round
    <2>7. Concealed(d, more.dec)
      <3>1. more.dec.st = [c.dec.st EXCEPT !.prev_redundancy = FALSE]
        BY <2>4 DEF Concealed
      <3>2. \/ c.dec.st = d.st
            \/ c.dec.st = [d.st EXCEPT !.prev_redundancy = FALSE]
        BY DEF Round, Concealed
      <3>3. d.st \in States BY DEF Sound, Decoders
      <3>4. more.dec.st = [d.st EXCEPT !.prev_redundancy = FALSE]
        BY <3>1, <3>2, <3>3 DEF States
      <3>5. d.silk = "current" => c.dec.silk = "current" BY DEF Round, Concealed
      <3> QED BY <2>4, <3>4, <3>5 DEF Concealed
    <2> QED BY <2>2, <2>4, <2>5, <2>6, <2>7 DEF Round, Concealed
  <1> QED BY <1>1, <1>2

Rounds(d, n, k, g) ==
    g = [i \in 0..k |-> IF i = 0 THEN [dec |-> d, left |-> n] ELSE ConcealMore(g[i - 1])]

LEMMA RoundsExist == ASSUME NEW d, NEW n, NEW k \in Nat PROVE \E g : Rounds(d, n, k, g)
  <1> DEFINE S == {m \in Nat : \E g : Rounds(d, n, m, g)}
             c == [dec |-> d, left |-> n]
  <1> HIDE DEF c
  <1>1. 0 \in S
    <2> DEFINE g == [i \in 0..0 |-> c]
    <2>1. \A i \in 0..0 : g[i] = IF i = 0 THEN c ELSE ConcealMore(g[i - 1])
      OBVIOUS
    <2>2. Rounds(d, n, 0, g) BY <2>1 DEF Rounds, c
    <2> HIDE DEF g
    <2> QED BY <2>2
  <1>2. ASSUME NEW m \in Nat, m \in S PROVE m + 1 \in S
    <2>1. PICK g : Rounds(d, n, m, g) BY <1>2
    <2>2. g = [i \in 0..m |-> IF i = 0 THEN c ELSE ConcealMore(g[i - 1])]
      BY <2>1 DEF Rounds, c
    <2> DEFINE h == [i \in 0..m + 1 |-> IF i <= m THEN g[i] ELSE ConcealMore(g[m])]
    <2>3. \A i \in 0..m + 1 : h[i] = IF i = 0 THEN c ELSE ConcealMore(h[i - 1])
      <3> TAKE i \in 0..m + 1
      <3>1. CASE i = 0 BY <2>2, <3>1
      <3>2. CASE i \in 1..m
        <4>1. g[i] = ConcealMore(g[i - 1]) BY <2>2, <3>2
        <4> QED BY <3>2, <4>1
      <3>3. CASE i = m + 1 BY <3>3
      <3> QED BY <3>1, <3>2, <3>3
    <2>4. Rounds(d, n, m + 1, h) BY <2>3 DEF Rounds, c
    <2> HIDE DEF h
    <2> QED BY <2>4
  <1> HIDE DEF S
  <1>3. Nat \subseteq S BY <1>1, <1>2, SetInduction
  <1> QED BY <1>3 DEF S

(* Every round conceals something, so that nothing is left after n.         *)
LEMMA RoundsSound ==
    ASSUME NEW d, Sound(d), d.st.prev_mode # "none", NEW n \in Nat, NEW g, Rounds(d, n, n, g)
    PROVE  Round(d, n, g[n]) /\ g[n].left = 0
  <1> DEFINE Good(m, c) == Round(d, n, c) /\ (c.left = 0 \/ c.left <= n - m)
             S == {m \in Nat : m <= n => Good(m, g[m])}
  <1>1. 0 \in S
    <2> DEFINE c == [dec |-> d, left |-> n]
    <2>1. g[0] = c BY DEF Rounds
    <2>2. Round(d, n, c) /\ c.left <= n - 0 BY DEF Round
    <2> HIDE DEF c
    <2> QED BY <2>1, <2>2
  <1>2. ASSUME NEW m \in Nat, m \in S, m + 1 <= n PROVE Good(m + 1, g[m + 1])
    <2> DEFINE c == g[m]
               more == ConcealMore(c)
    <2>1. g[m + 1] = more BY <1>2 DEF Rounds
    <2>2. Good(m, c) BY <1>2
    <2> HIDE DEF c
    <2>3. Round(d, n, more) /\ (c.left > 0 => more.left < c.left)
      BY <2>2, RoundStep
    <2>4. c.left = 0 => more = c BY DEF ConcealMore
    <2> HIDE DEF more
    <2>5. more.left \in Nat /\ c.left \in Nat BY <2>2, <2>3 DEF Round
    <2>6. more.left = 0 \/ more.left <= n - (m + 1) BY <2>2, <2>3, <2>4, <2>5
    <2> QED BY <2>1, <2>3, <2>6
  <1>3. \A m \in Nat : m \in S => m + 1 \in S BY <1>2
  <1> HIDE DEF S
  <1>4. Nat \subseteq S BY <1>1, <1>3, SetInduction
  <1>5. Good(n, g[n]) BY <1>4 DEF S
  <1>6. g[n].left \in Nat BY <1>5 DEF Round
  <1> QED BY <1>5, <1>6

LEMMA LongSound ==
    ASSUME NEW d, Sound(d), d.st.prev_mode # "none", NEW n \in Nat \ {0}
    PROVE  Concealed(d, ConcealLong(d, n))
  <1> DEFINE f == CHOOSE g : Rounds(d, n, n, g)
  <1>1. \E g : Rounds(d, n, n, g) BY RoundsExist
  <1>2. Rounds(d, n, n, f) BY <1>1, Zenon
  <1>3. ConcealLong(d, n) = f[n].dec BY Zenon DEF ConcealLong, Rounds
  <1> HIDE DEF f
  <1>4. Round(d, n, f[n]) /\ f[n].left = 0 BY <1>2, RoundsSound
  <1> QED BY <1>3, <1>4 DEF Round

LEMMA ConcealSound ==
    ASSUME NEW d, Sound(d), NEW room \in Nat \ {0}
    PROVE  /\ Sound(Conceal(d, room).dec)
           /\ \E red \in BOOLEAN :
                 Conceal(d, room).dec.st = [d.st EXCEPT !.prev_redundancy = red]
           /\ Conceal(d, room).ret \in 1..room
           /\ d.st.frame_size <= room => Conceal(d, room).ret = d.st.frame_size
  <1> DEFINE n == Limit(d, Shorter(room, 48))
             c == IF n > F20 THEN [dec |-> ConcealLong(d, n), ret |-> n]
                  ELSE ConcealShort(d, n)
             mode == d.st.prev_mode
  <1>0. d.st \in States /\ mode \in Modes \cup {"none"} BY DEF Sound, Decoders, States
  <1>1. /\ n \in 1..24 /\ n <= room
        /\ d.st.frame_size <= room => n = d.st.frame_size
    BY <1>0 DEF Limit, Shorter, States, Sizes
  <1>2. Conceal(d, room) = IF mode = "none" THEN [dec |-> d, ret |-> n]
                           ELSE [c EXCEPT !.dec = Behind(c.dec, mode, "none")]
    BY DEF Conceal
  <1>size. d.st.frame_size \in Sizes BY <1>0 DEF States
  <1> HIDE DEF n
  <1>3. CASE mode = "none"
    <2>1. d.st = [d.st EXCEPT !.prev_redundancy = d.st.prev_redundancy]
          /\ d.st.prev_redundancy \in BOOLEAN
      BY <1>0 DEF States
    <2> QED BY <1>1, <1>2, <1>3, <2>1
  <1>4. CASE mode # "none"
    <2>1. Concealed(d, c.dec)
      <3>1. CASE n > F20 BY <1>1, <1>4, <3>1, LongSound
      <3>2. CASE ~(n > F20)
        <4>1. n \in 1..8 BY <1>1, <3>2 DEF F20
        <4> QED BY <1>4, <3>2, <4>1, ShortSound
      <3> QED BY <3>1, <3>2
    <2>2. /\ c.ret \in 1..n
          /\ d.st.frame_size <= room => c.ret = d.st.frame_size
      <3>1. CASE n > F20 BY <1>1, <3>1
      <3>2. CASE ~(n > F20)
        <4>1. n \in 1..8 BY <1>1, <3>2 DEF F20
        <4>2. /\ ConcealShort(d, n).ret \in 1..n
              /\ n \in {1, 2, 4, 8} => ConcealShort(d, n).ret = n
          BY <1>4, <4>1, ShortSound
        <4> QED BY <1>1, <1>size, <3>2, <4>1, <4>2 DEF Sizes
      <3> QED BY <3>1, <3>2
    <2>3. /\ c.dec.st = [d.st EXCEPT !.prev_redundancy = FALSE] /\ Sound(c.dec)
          /\ c.dec.st.prev_mode = mode /\ ~c.dec.st.prev_redundancy
      BY <1>0, <2>1 DEF Concealed, States
    <2> DEFINE e == Behind(c.dec, mode, "none")
    <2>4. Sound(e) /\ e.st = c.dec.st BY <1>0, <1>4, <2>3, BehindSound
    <2>5. Conceal(d, room).dec = e /\ Conceal(d, room).ret = c.ret
      BY <1>2, <1>4 DEF ConcealShort
    <2>6. Conceal(d, room).dec.st = [d.st EXCEPT !.prev_redundancy = FALSE]
      BY <2>3, <2>4, <2>5
    <2>7. Sound(Conceal(d, room).dec) BY <2>4, <2>5
    <2> HIDE DEF c, e
    <2>8. \E red \in BOOLEAN :
             Conceal(d, room).dec.st = [d.st EXCEPT !.prev_redundancy = red]
      BY <2>6, Zenon
    <2>9. Conceal(d, room).ret \in 1..room BY <1>1, <2>2, <2>5
    <2> QED BY <2>2, <2>5, <2>7, <2>8, <2>9
  <1> QED BY <1>3, <1>4

-----------------------------------------------------------------------------
(* A frame with data.                                                       *)
LEMMA FadeSound ==
    ASSUME NEW d, Sound(d), d.st.prev_mode # "none", NEW size \in Sizes
    PROVE  Concealed(d, Fade(d, size))
  <1>1. Shorter(F5, size) \in 1..8 BY DEF Shorter, F5, Sizes
  <1> QED BY <1>1, ShortSound DEF Fade

(* The redundant frame of 5 ms, of CELT.                                    *)
LEMMA RedundantSound ==
    ASSUME NEW d, Sound(d)
    PROVE  /\ Sound(Celt(d, F5, F5, "redundant"))
           /\ Celt(d, F5, F5, "redundant").st = d.st
           /\ Celt(d, F5, F5, "redundant").silk = d.silk
           /\ Celt(d, F5, F5, "redundant").celt = "current"
  <1>1. F5 \in {1, 2, 4, 8} /\ F5 \in Nat /\ F5 <= F5 BY DEF F5
  <1>2. PICK kind \in {"celt", "fade", "redundant"} : kind = "redundant" OBVIOUS
  <1>3. kind = "celt" => d.celt # "stale" BY <1>2
  <1> HIDE DEF F5
  <1>4. /\ Sound(Celt(d, F5, F5, kind))
        /\ Celt(d, F5, F5, kind).st = d.st
        /\ Celt(d, F5, F5, kind).silk = d.silk
        /\ Celt(d, F5, F5, kind).celt = "current"
    BY <1>1, <1>3, CeltSound
  <1> QED BY <1>2, <1>4

(* As after a frame concealed, or none.                                     *)
Same(s, t) ==
    /\ s \in States /\ t \in States
    /\ s.mode = t.mode /\ s.prev_mode = t.prev_mode
    /\ s.frame_size = t.frame_size /\ s.duration = t.duration

LEMMA FadeSame ==
    ASSUME NEW d, Sound(d), d.st.prev_mode # "none", NEW size \in Sizes
    PROVE  /\ Sound(Fade(d, size)) /\ Same(Fade(d, size).st, d.st)
           /\ d.silk = "current" => Fade(d, size).silk = "current"
  <1>1. Concealed(d, Fade(d, size)) BY FadeSound
  <1>2. d.st \in States BY DEF Sound, Decoders
  <1>3. [d.st EXCEPT !.prev_redundancy = FALSE] \in States BY <1>2 DEF States
  <1>4. Same([d.st EXCEPT !.prev_redundancy = FALSE], d.st)
    BY <1>2, <1>3 DEF Same, States
  <1> QED BY <1>1, <1>4 DEF Concealed

Redundancy == {"none", "to_silk", "to_celt"}

LEMMA DecodeSound ==
    ASSUME NEW d, Sound(d), d.st.mode \in Modes, d.st.frame_size \in FrameSizes(d.st.mode),
           NEW room \in Nat, d.st.frame_size <= room, NEW red \in Redundancy
    PROVE  /\ Sound(DecodeFrame(d, room, red).dec)
           /\ DecodeFrame(d, room, red).dec.st = After(d.st, d.st.mode, red)
           /\ DecodeFrame(d, room, red).ret = d.st.frame_size
  <1> DEFINE mode == d.st.mode
             size == d.st.frame_size
             a == IF Fades(d, mode) /\ mode = "celt" THEN Fade(d, size) ELSE d
             b == Silk(a, mode, size, room)
             c == IF Fades(d, mode) /\ mode # "celt" /\ red = "none"
                  THEN Fade(b, size) ELSE b
             e == IF red = "to_silk" THEN Celt(c, F5, F5, "redundant") ELSE c
             f == CeltMain(e, mode, size, room, red)
             g == IF red # "to_celt" THEN f
                  ELSE Celt([f EXCEPT !.celt = "fresh"], F5, F5, "redundant")
             h == Remember(g, mode, red)
             r == Behind(h, mode, red)
  <1>1. DecodeFrame(d, room, red) = [dec |-> r, ret |-> size] BY DEF DecodeFrame
  <1>2. d.st \in States /\ mode \in Modes /\ size \in Sizes /\ size <= room
        /\ d.st.prev_mode \in Modes \cup {"none"}
    BY DEF Sound, Decoders, States
  <1>3. size \in {1, 2, 3, 4, 8, 16, 24} /\ (mode # "silk" => size # 3)
    BY <1>2 DEF Sizes
  <1>4. Sound(a) /\ Same(a.st, d.st)
    <2>1. CASE Fades(d, mode) /\ mode = "celt"
      <3>1. d.st.prev_mode # "none" BY <2>1 DEF Fades
      <3> QED BY <1>2, <2>1, <3>1, FadeSame
    <2>2. CASE ~(Fades(d, mode) /\ mode = "celt") BY <1>2, <2>2 DEF Same
    <2> QED BY <2>1, <2>2
  <1> HIDE DEF a, mode, size
  <1>5. Sound(b) /\ b.st = a.st /\ (mode # "celt" => b.silk = "current")
    BY <1>2, <1>3, <1>4, SilkSound
  <1>b. mode = "celt" => b = a BY <1>2, <1>3, <1>4, SilkSound
  <1> HIDE DEF b
  <1>6. Sound(c) /\ Same(c.st, d.st) /\ (mode # "celt" => c.silk # "stale")
    <2>1. CASE Fades(d, mode) /\ mode # "celt" /\ red = "none"
      <3>1. d.st.prev_mode = "celt" BY <2>1 DEF Fades
      <3>2. b.st.prev_mode = "celt" BY <1>4, <1>5, <3>1 DEF Same
      <3>3. Sound(Fade(b, size)) /\ Same(Fade(b, size).st, b.st)
        BY <1>2, <1>5, <3>2, FadeSame
      <3>4. b.silk = "current" => Fade(b, size).silk = "current"
        BY <1>2, <1>5, <3>2, FadeSame
      <3> QED BY <1>4, <1>5, <2>1, <3>3, <3>4 DEF Same
    <2>2. CASE ~(Fades(d, mode) /\ mode # "celt" /\ red = "none")
      BY <1>4, <1>5, <2>2
    <2> QED BY <2>1, <2>2
  <1> HIDE DEF c
  <1>7. Sound(e) /\ e.st = c.st /\ e.silk = c.silk BY <1>6, RedundantSound
  <1> HIDE DEF e
  <1>8. /\ Sound(f) /\ f.st = e.st /\ f.silk = e.silk
        /\ mode # "silk" => f.celt = "current"
    BY <1>2, <1>3, <1>7, MainSound
  <1> HIDE DEF f
  <1>9. /\ Sound(g) /\ g.st = f.st /\ g.silk = f.silk
        /\ mode # "silk" \/ red = "to_celt" => g.celt = "current"
    <2>1. CASE red # "to_celt" BY <1>8, <2>1
    <2>2. CASE red = "to_celt"
      <3> DEFINE x == [f EXCEPT !.celt = "fresh"]
      <3>1. Sound(x) /\ x.st = f.st /\ x.silk = f.silk
        BY <1>8 DEF Sound, Decoders, Worth
      <3>2. g = Celt(x, F5, F5, "redundant") BY <2>2
      <3> HIDE DEF x
      <3> QED BY <2>2, <3>1, <3>2, RedundantSound
    <2> QED BY <2>1, <2>2
  <1> HIDE DEF g
  <1>10. Same(g.st, d.st) BY <1>6, <1>7, <1>8, <1>9
  <1>11. /\ g.silk = "stale" => mode = "celt"
         /\ g.celt = "stale" => mode = "silk" /\ red # "to_celt"
    BY <1>2, <1>6, <1>7, <1>8, <1>9 DEF Worth
  <1>12. Sound(h) /\ h.st = After(g.st, mode, red) BY <1>2, <1>9, <1>11, RememberSound
  <1> HIDE DEF h
  <1>13. h.st.prev_mode = mode /\ (h.st.prev_redundancy <=> red = "to_celt")
    BY <1>10, <1>12 DEF After, Same, States
  <1>14. Sound(r) /\ r.st = h.st BY <1>2, <1>12, <1>13, BehindSound
  <1> HIDE DEF r
  <1>15. After(g.st, mode, red) = After(d.st, mode, red)
    BY <1>10 DEF After, Same, States
  <1> QED BY <1>1, <1>12, <1>14, <1>15 DEF mode, size

-----------------------------------------------------------------------------
(* The calls.  What is left of one, and what the packet says of it.         *)
Jobs == [call : {"frames", "conceal", "fec"}, conceal : Nat,
         packet : Packet \cup {[count |-> 0]}, frames : Nat, room : Nat,
         done : Nat, goal : Nat]

FramesLeft ==
    /\ st.mode \in Modes /\ st.frame_size \in FrameSizes(st.mode)
    /\ job.frames > 0 /\ job.goal <= job.room
    /\ job.goal - job.done = job.frames * st.frame_size
    /\ st.duration = last
ConcealLeft ==
    /\ job.conceal > 0 /\ job.done + job.conceal = job.goal
    /\ st.duration = last
FecLeft ==
    /\ job.packet \in Packet /\ job.packet.mode # "celt"
    /\ job.packet.size \in FrameSizes(job.packet.mode)
    /\ job.done + job.conceal + job.packet.size = job.goal
    /\ job.room = job.goal

JobOK ==
    \/ job = Idle /\ st.duration = last
    \/ /\ job \in Jobs
       /\ job.call = "frames" => FramesLeft
       /\ job.call = "conceal" => ConcealLeft
       /\ job.call = "fec" => FecLeft

DecoderInv ==
    /\ Sound([st |-> st, silk |-> silk, celt |-> celt, uses |-> uses])
    /\ JobOK /\ last \in Nat

LEMMA NotIdle == ASSUME job \in Jobs PROVE job # Idle
  BY DEF Jobs, Idle

LEMMA Multiples ==
    ASSUME NEW k \in Nat \ {0}, NEW s \in Sizes
    PROVE  /\ k * s \in Nat /\ k * s >= s /\ (k - 1) * s = k * s - s
           /\ k = 1 <=> k * s = s
  <1>1. CASE s = 1 BY <1>1
  <1>2. CASE s = 2 BY <1>2
  <1>3. CASE s = 4 BY <1>3
  <1>4. CASE s = 8 BY <1>4
  <1>5. CASE s = 16 BY <1>5
  <1>6. CASE s = 24 BY <1>6
  <1> QED BY <1>1, <1>2, <1>3, <1>4, <1>5, <1>6 DEF Sizes

LEMMA FrameSizesAreSizes ==
    ASSUME NEW mode \in Modes
    PROVE  FrameSizes(mode) \subseteq Sizes /\ \A n \in FrameSizes(mode) : n \in 1..24
  BY DEF FrameSizes, Sizes, Modes

LEMMA PacketsOK ==
    ASSUME NEW p \in Packets
    PROVE  /\ p \in Packet /\ p.mode \in Modes /\ p.size \in FrameSizes(p.mode)
           /\ p.size \in Sizes /\ p.count \in Nat \ {0}
  BY FrameSizesAreSizes DEF Packets, Packet

LEMMA DecoderSound == ASSUME DecoderInv PROVE Sound(Decoder)
  BY DEF DecoderInv, Sound, Decoder, Decoders

LEMMA BecomesSound ==
    ASSUME NEW d, Sound(d), Becomes(d)
    PROVE  Sound([st |-> st, silk |-> silk, celt |-> celt, uses |-> uses])'
  <1>1. d = [st |-> d.st, silk |-> d.silk, celt |-> d.celt, uses |-> d.uses]
    BY DEF Sound, Decoders
  <1>2. [st |-> st, silk |-> silk, celt |-> celt, uses |-> uses]' = d
    BY <1>1 DEF Becomes
  <1>3. Sound([st |-> st', silk |-> silk', celt |-> celt', uses |-> uses'])
    BY <1>2
  <1> QED BY <1>3 DEF Sound, UseOK

LEMMA WithSound ==
    ASSUME NEW d, Sound(d), NEW p, p.mode \in Modes, p.size \in Sizes
    PROVE  /\ Sound(With(d, p))
           /\ With(d, p).st = [d.st EXCEPT !.mode = p.mode, !.frame_size = p.size]
  <1> DEFINE new == [d.st EXCEPT !.mode = p.mode, !.frame_size = p.size]
  <1>1. /\ new \in States /\ new.prev_mode = d.st.prev_mode
        /\ new.prev_redundancy = d.st.prev_redundancy
    BY DEF Sound, Decoders, States
  <1>2. With(d, p) = [d EXCEPT !.st = new] BY DEF With, Sound, Decoders, States
  <1> HIDE DEF new
  <1>3. [d EXCEPT !.st = new] \in Decoders BY <1>1 DEF Sound, Decoders
  <1> QED BY <1>1, <1>2, <1>3 DEF Sound, Decoders, new

LEMMA DurationSound ==
    ASSUME NEW d, Sound(d), NEW n \in Nat
    PROVE  /\ Sound([d EXCEPT !.st.duration = n])
           /\ [d EXCEPT !.st.duration = n].st = [d.st EXCEPT !.duration = n]
  <1> DEFINE new == [d.st EXCEPT !.duration = n]
  <1>1. /\ new \in States /\ new.prev_mode = d.st.prev_mode
        /\ new.prev_redundancy = d.st.prev_redundancy
    BY DEF Sound, Decoders, States
  <1>2. [d EXCEPT !.st.duration = n] = [d EXCEPT !.st = new]
    BY DEF Sound, Decoders, States
  <1> HIDE DEF new
  <1>3. [d EXCEPT !.st = new] \in Decoders BY <1>1 DEF Sound, Decoders
  <1> QED BY <1>1, <1>2, <1>3 DEF Sound, Decoders, new

(* A call that returns is over, and its duration is what it returned.       *)
LEMMA ReturnsOK ==
    ASSUME NEW d, Sound(d), NEW n \in Nat, Returns(n, d)
    PROVE  DecoderInv'
  <1> DEFINE e == [d EXCEPT !.st.duration = n]
  <1>1. Sound(e) /\ e.st = [d.st EXCEPT !.duration = n] BY DurationSound
  <1>2. job' = Idle /\ last' = n /\ Becomes(e) BY DEF Returns
  <1> HIDE DEF e
  <1>3. Sound([st |-> st, silk |-> silk, celt |-> celt, uses |-> uses])'
    BY <1>1, <1>2, BecomesSound
  <1>4. st'.duration = n
    <2>1. d.st \in States BY DEF Sound, Decoders
    <2> QED BY <1>1, <1>2, <2>1 DEF Becomes, States
  <1> QED BY <1>2, <1>3, <1>4 DEF DecoderInv, JobOK

LEMMA DecoderStates ==
    ASSUME DecoderInv
    PROVE  st \in States /\ Decoder.st = st /\ Sound(Decoder) /\ last \in Nat
  BY DecoderSound DEF DecoderInv, Sound, Decoders, Decoder

LEMMA ResetOK == ASSUME DecoderInv, Reset PROVE DecoderInv'
  <1>1. Cleared \in States BY DEF Cleared, States, Sizes, F2_5
  <1>2. [st |-> Cleared, silk |-> "fresh", celt |-> "fresh", uses |-> {}] \in Decoders
    BY <1>1 DEF Decoders, Worth
  <1>3. Sound([st |-> st', silk |-> silk', celt |-> celt', uses |-> uses'])
    BY <1>2 DEF Reset, Sound
  <1>4. st'.duration = 0 /\ last' = 0 /\ job' = Idle BY DEF Reset, Cleared
  <1>5. Sound([st |-> st, silk |-> silk, celt |-> celt, uses |-> uses])'
    BY <1>3 DEF Sound, UseOK
  <1> QED BY <1>4, <1>5 DEF DecoderInv, JobOK

(* The part of the invariant that a step leaves alone.                      *)
LEMMA KeepOK ==
    ASSUME DecoderInv, Keep
    PROVE  /\ Sound([st |-> st, silk |-> silk, celt |-> celt, uses |-> uses])'
           /\ st' = st /\ last' = last /\ last' \in Nat
  BY DEF DecoderInv, Keep, Sound, UseOK

LEMMA IdleDuration == ASSUME DecoderInv, job = Idle PROVE st.duration = last
  BY NotIdle DEF DecoderInv, JobOK

LEMMA ConcealBegins ==
    ASSUME NEW room \in Nat \ {0}, st'.duration = last',
           job' = Begin("conceal", room, [count |-> 0], room, room)
    PROVE  JobOK'
  <1> DEFINE p == [count |-> 0]
  <1>1. p.count = 0 /\ p \in Packet \cup {[count |-> 0]} OBVIOUS
  <1> HIDE DEF p
  <1>2. job' = [call |-> "conceal", conceal |-> room, packet |-> p, frames |-> 0,
                room |-> room, done |-> 0, goal |-> room]
    BY <1>1 DEF Begin, p
  <1>3. job' \in Jobs BY <1>1, <1>2 DEF Jobs, p
  <1> QED BY <1>2, <1>3 DEF JobOK, ConcealLeft, Jobs

LEMMA LostOK == ASSUME OpusDecoderAssumption, DecoderInv, Lost PROVE DecoderInv'
  <1>1. PICK room \in Rooms : job' = Begin("conceal", room, [count |-> 0], room, room)
    BY DEF Lost
  <1>2. room \in Nat \ {0} BY DEF OpusDecoderAssumption
  <1>3. Keep /\ job = Idle BY DEF Lost
  <1>4. st'.duration = last' BY <1>3, KeepOK, IdleDuration
  <1>5. JobOK' BY <1>1, <1>2, <1>4, ConcealBegins
  <1> QED BY <1>3, <1>5, KeepOK DEF DecoderInv

LEMMA ReceiveOK == ASSUME OpusDecoderAssumption, DecoderInv, Receive PROVE DecoderInv'
  <1>1. PICK p \in Packets, room \in Rooms :
           /\ p.count * p.size <= room
           /\ job' = Begin("frames", 0, p, room, p.count * p.size)
           /\ Becomes([With(Decoder, p) EXCEPT !.uses = {}])
    BY DEF Receive
  <1>2. room \in Nat \ {0} BY DEF OpusDecoderAssumption
  <1>3. /\ p \in Packet /\ p.mode \in Modes /\ p.size \in FrameSizes(p.mode)
        /\ p.size \in Sizes /\ p.count \in Nat \ {0}
    BY PacketsOK
  <1>4. p.count * p.size \in Nat BY <1>3, Multiples
  <1> DEFINE e == With(Decoder, p)
             f == [e EXCEPT !.uses = {}]
             goal == p.count * p.size
  <1>5. /\ Sound(e) /\ e.st = [st EXCEPT !.mode = p.mode, !.frame_size = p.size]
        /\ st \in States
    BY <1>3, DecoderStates, WithSound
  <1> HIDE DEF e, goal
  <1>6. Sound(f) /\ f.st = e.st BY <1>5 DEF Sound, Decoders
  <1>7. Becomes(f) BY <1>1 DEF e
  <1> HIDE DEF f
  <1>8. Sound([st |-> st, silk |-> silk, celt |-> celt, uses |-> uses])'
    BY <1>6, <1>7, BecomesSound
  <1>9. /\ st'.mode = p.mode /\ st'.frame_size = p.size
        /\ st'.duration = last' /\ last' \in Nat
    <2>1. st' = [st EXCEPT !.mode = p.mode, !.frame_size = p.size]
      BY <1>5, <1>6, <1>7 DEF Becomes
    <2>2. last' = last /\ last \in Nat /\ st.duration = last
      BY IdleDuration DEF Receive, DecoderInv
    <2> QED BY <1>5, <2>1, <2>2 DEF States
  <1>10. job' = [call |-> "frames", conceal |-> 0, packet |-> p, frames |-> p.count,
                 room |-> room, done |-> 0, goal |-> goal]
    BY <1>1 DEF Begin, goal
  <1>11. job' \in Jobs BY <1>2, <1>3, <1>4, <1>10 DEF Jobs, goal
  <1>12. FramesLeft'
    <2>1. job'.frames = p.count /\ job'.goal = goal /\ job'.done = 0
          /\ job'.room = room
      BY <1>10
    <2>2. goal - 0 = goal /\ goal <= room BY <1>1, <1>4 DEF goal
    <2>3. job'.goal - job'.done = job'.frames * st'.frame_size
      BY <1>9, <2>1, <2>2 DEF goal
    <2>4. job'.frames > 0 /\ job'.goal <= job'.room BY <1>3, <2>1, <2>2
    <2>5. FrameSizes(st.mode)' = FrameSizes(p.mode) BY <1>9 DEF FrameSizes
    <2> QED BY <1>3, <1>9, <2>3, <2>4, <2>5 DEF FramesLeft
  <1> QED BY <1>8, <1>9, <1>10, <1>11, <1>12 DEF DecoderInv, JobOK

LEMMA RecoverOK == ASSUME OpusDecoderAssumption, DecoderInv, Recover PROVE DecoderInv'
  <1>1. PICK p \in Packets, room \in Rooms :
           job' = IF room < p.size \/ p.mode = "celt" \/ st.mode = "celt"
                  THEN Begin("conceal", room, [count |-> 0], room, room)
                  ELSE Begin("fec", room - p.size, [p EXCEPT !.count = 1], room, room)
    BY DEF Recover
  <1>2. room \in Nat \ {0} BY DEF OpusDecoderAssumption
  <1>3. /\ p \in Packet /\ p.mode \in Modes /\ p.size \in FrameSizes(p.mode)
        /\ p.size \in Sizes /\ p.count \in Nat \ {0}
    BY PacketsOK
  <1>4. Keep /\ job = Idle BY DEF Recover
  <1>5. st'.duration = last' BY <1>4, KeepOK, IdleDuration
  <1>6. JobOK'
    <2>1. CASE room < p.size \/ p.mode = "celt" \/ st.mode = "celt"
      BY <1>1, <1>2, <1>5, <2>1, ConcealBegins
    <2>2. CASE ~(room < p.size \/ p.mode = "celt" \/ st.mode = "celt")
      <3> DEFINE q == [p EXCEPT !.count = 1]
      <3>1. p.count \in 1..MaxCount BY <1>3 DEF Packet
      <3>2. MaxCount \in Nat BY DEF OpusDecoderAssumption
      <3>3. 1 \in 1..MaxCount BY <3>1, <3>2
      <3>4. /\ q \in Packet /\ q.mode = p.mode /\ q.size = p.size /\ q.count = 1
        BY <1>3, <3>3 DEF Packet
      <3> HIDE DEF q
      <3>5. job' = [call |-> "fec", conceal |-> room - p.size, packet |-> q,
                    frames |-> q.count, room |-> room, done |-> 0, goal |-> room]
        BY <1>1, <2>2 DEF Begin, q
      <3>6. p.size \in Nat /\ room - p.size \in Nat BY <1>2, <1>3, <2>2 DEF Sizes
      <3>7. job' \in Jobs BY <1>2, <3>4, <3>5, <3>6 DEF Jobs
      <3>8. FecLeft'
        <4>1. q.size \in FrameSizes(q.mode)' BY <1>3, <3>4 DEF FrameSizes
        <4> QED BY <1>2, <2>2, <3>4, <3>5, <3>6, <4>1 DEF FecLeft, Packet, Modes, FrameSizes
      <3> QED BY <3>5, <3>7, <3>8 DEF JobOK
    <2> QED BY <2>1, <2>2
  <1> QED BY <1>4, <1>6, KeepOK DEF DecoderInv

LEMMA ConcealFrameOK == ASSUME DecoderInv, ConcealFrame PROVE DecoderInv'
  <1> DEFINE c == Conceal(Decoder, job.conceal)
             done == job.done + c.ret
             d == IF c.ret # job.conceal THEN c.dec
                  ELSE [c.dec EXCEPT !.st.duration = done]
  <1>1. /\ job \in Jobs /\ job # Idle /\ job.conceal \in Nat \ {0}
        /\ job.call \in {"conceal", "fec"} /\ job.done \in Nat /\ job.goal \in Nat
    BY DEF ConcealFrame, DecoderInv, JobOK, Jobs
  <1>2. /\ job.call = "conceal" => ConcealLeft
        /\ job.call = "fec" => FecLeft
    BY <1>1 DEF DecoderInv, JobOK
  <1>3. /\ Sound(c.dec) /\ c.ret \in 1..job.conceal
        /\ \E red \in BOOLEAN : c.dec.st = [st EXCEPT !.prev_redundancy = red]
    <2>1. PICK a, n : a = Decoder /\ n = job.conceal OBVIOUS
    <2>2. Sound(a) /\ a.st = st /\ n \in Nat \ {0} BY <1>1, <2>1, DecoderStates
    <2> QED BY <2>1, <2>2, ConcealSound
  <1>4. st \in States /\ last \in Nat BY DecoderStates
  <1>5. c.dec.st.duration = st.duration BY <1>3, <1>4 DEF States
  <1>6. \/ job.call = "conceal" /\ done = job.goal /\ Returns(done, d)
        \/ /\ ~(job.call = "conceal" /\ done = job.goal)
           /\ job' = [job EXCEPT !.conceal = job.conceal - c.ret, !.done = done]
           /\ Becomes(d) /\ last' = last
    BY DEF ConcealFrame
  <1> HIDE DEF c
  <1>7. done \in Nat /\ job.conceal - c.ret \in Nat BY <1>1, <1>3
  <1>8. Sound(d) /\ (c.ret # job.conceal => d.st.duration = st.duration)
    BY <1>3, <1>5, <1>7, DurationSound
  <1> HIDE DEF d, done
  <1>9. CASE job.call = "conceal" /\ done = job.goal /\ Returns(done, d)
    BY <1>7, <1>8, <1>9, ReturnsOK
  <1>10. CASE /\ ~(job.call = "conceal" /\ done = job.goal)
              /\ job' = [job EXCEPT !.conceal = job.conceal - c.ret, !.done = done]
              /\ Becomes(d) /\ last' = last
    <2>1. /\ job' \in Jobs /\ job'.call = job.call
          /\ job'.conceal = job.conceal - c.ret /\ job'.done = done
          /\ job'.goal = job.goal /\ job'.packet = job.packet /\ job'.room = job.room
      BY <1>1, <1>7, <1>10 DEF Jobs
    <2>2. Sound([st |-> st, silk |-> silk, celt |-> celt, uses |-> uses])'
      BY <1>8, <1>10, BecomesSound
    <2>3. CASE job.call = "conceal"
      <3>1. job.done + job.conceal = job.goal /\ st.duration = last
        BY <1>2, <2>3 DEF ConcealLeft
      <3>2. c.ret # job.conceal BY <1>1, <1>3, <1>10, <2>3, <3>1 DEF done
      <3>3. job.conceal - c.ret > 0 /\ done + (job.conceal - c.ret) = job.goal
        BY <1>1, <1>3, <3>1, <3>2 DEF done
      <3>4. st'.duration = last' BY <1>8, <1>10, <3>1, <3>2 DEF Becomes
      <3>5. ConcealLeft' BY <2>1, <3>3, <3>4 DEF ConcealLeft
      <3> QED BY <1>4, <1>10, <2>1, <2>2, <2>3, <3>5 DEF DecoderInv, JobOK
    <2>4. CASE job.call = "fec"
      <3>1. FecLeft BY <1>2, <2>4
      <3>2. job.packet.size \in Int
        BY <3>1 DEF FecLeft, Packet, FrameSizes, Modes
      <3>3. done + (job.conceal - c.ret) + job.packet.size = job.goal
        BY <1>1, <1>3, <3>1, <3>2 DEF done, FecLeft
      <3>4. FecLeft' BY <2>1, <3>1, <3>3 DEF FecLeft, FrameSizes
      <3> QED BY <1>4, <1>10, <2>1, <2>2, <2>4, <3>4 DEF DecoderInv, JobOK
    <2> QED BY <1>1, <2>3, <2>4
  <1> QED BY <1>6, <1>9, <1>10

LEMMA FrameOK == ASSUME DecoderInv, Frame PROVE DecoderInv'
  <1>1. /\ job \in Jobs /\ job # Idle /\ job.call = "frames" /\ FramesLeft
        /\ job.frames \in Nat \ {0} /\ job.done \in Nat /\ job.goal \in Nat
        /\ job.room \in Nat
    BY DEF Frame, DecoderInv, JobOK, Jobs
  <1> DEFINE room == job.room - job.done
             size == st.frame_size
  <1>2. /\ st \in States /\ last \in Nat /\ st.mode \in Modes
        /\ size \in FrameSizes(st.mode) /\ size \in Sizes /\ st.duration = last
    BY <1>1, DecoderStates, FrameSizesAreSizes DEF FramesLeft
  <1>3. /\ job.frames * size \in Nat /\ job.frames * size >= size
        /\ (job.frames - 1) * size = job.frames * size - size
        /\ job.frames = 1 <=> job.frames * size = size
    BY <1>1, <1>2, Multiples
  <1>4. job.goal - job.done = job.frames * size /\ job.goal <= job.room
    BY <1>1 DEF FramesLeft
  <1>5. room \in Nat \ {0} /\ size <= room /\ size \in Nat \ {0}
    BY <1>1, <1>2, <1>3, <1>4 DEF Sizes
  <1> HIDE DEF room
  <1>6. PICK c : /\ \/ c = Conceal(Decoder, room)
                    \/ \E red \in Redundancy : c = DecodeFrame(Decoder, room, red)
                 /\ IF job.frames = 1 /\ job.done + c.ret = job.goal
                    THEN Returns(job.done + c.ret, c.dec)
                    ELSE /\ job' = [job EXCEPT !.frames = job.frames - 1,
                                               !.done = job.done + c.ret]
                         /\ Becomes(c.dec) /\ last' = last
    BY DEF Frame, Redundancies, Redundancy, room
  <1>7. /\ Sound(c.dec) /\ c.ret = size /\ c.dec.st.mode = st.mode
        /\ c.dec.st.frame_size = size /\ c.dec.st.duration = st.duration
    <2>1. CASE c = Conceal(Decoder, room)
      <3>1. /\ Sound(c.dec) /\ c.ret = size
            /\ \E red \in BOOLEAN : c.dec.st = [st EXCEPT !.prev_redundancy = red]
        BY <1>5, <2>1, DecoderStates, ConcealSound
      <3> QED BY <1>2, <3>1 DEF States
    <2>2. CASE \E red \in Redundancy : c = DecodeFrame(Decoder, room, red)
      <3>1. PICK red \in Redundancy : c = DecodeFrame(Decoder, room, red) BY <2>2
      <3>2. /\ Sound(c.dec) /\ c.ret = size /\ c.dec.st = After(st, st.mode, red)
        BY <1>2, <1>5, <3>1, DecoderStates, DecodeSound
      <3> QED BY <1>2, <3>2 DEF After, States
    <2> QED BY <1>6, <2>1, <2>2
  <1>8. CASE job.frames = 1
    <2>1. job.done + c.ret = job.goal /\ job.done + c.ret \in Nat
      BY <1>1, <1>3, <1>4, <1>5, <1>7, <1>8
    <2> QED BY <1>6, <1>7, <1>8, <2>1, ReturnsOK
  <1>9. CASE job.frames # 1
    <2>1. /\ job' = [job EXCEPT !.frames = job.frames - 1, !.done = job.done + size]
          /\ Becomes(c.dec) /\ last' = last
      BY <1>6, <1>7, <1>9
    <2>2. /\ job' \in Jobs /\ job'.call = "frames"
          /\ job'.frames = job.frames - 1 /\ job'.done = job.done + size
          /\ job'.goal = job.goal /\ job'.room = job.room
      <3>1. job.frames - 1 \in Nat /\ job.done + size \in Nat BY <1>1, <1>5
      <3> HIDE DEF size
      <3> QED BY <1>1, <2>1, <3>1 DEF Jobs
    <2>3. Sound([st |-> st, silk |-> silk, celt |-> celt, uses |-> uses])'
      BY <1>7, <2>1, BecomesSound
    <2>4. /\ st'.mode = st.mode /\ st'.frame_size = size /\ st'.duration = last'
      BY <1>2, <1>7, <2>1 DEF Becomes
    <2>5. job'.goal - job'.done = job'.frames * st'.frame_size
      BY <1>1, <1>3, <1>4, <1>5, <2>2, <2>4
    <2>6. FrameSizes(st.mode)' = FrameSizes(st.mode) BY <2>4 DEF FrameSizes
    <2>7. job'.frames > 0 BY <1>1, <1>9, <2>2
    <2>8. FramesLeft' BY <1>2, <1>4, <2>2, <2>4, <2>5, <2>6, <2>7 DEF FramesLeft
    <2> QED BY <1>2, <2>1, <2>2, <2>3, <2>8 DEF DecoderInv, JobOK
  <1> QED BY <1>8, <1>9

(* There is room for the frame that comes next.                             *)
RoomLeft == job.room - job.done \in Nat /\ st.frame_size <= job.room - job.done

LEMMA RoomIsLeft == ASSUME DecoderInv, FramesLeft, job \in Jobs PROVE RoomLeft
  <1>1. /\ job.frames \in Nat \ {0} /\ job.done \in Nat /\ job.goal \in Nat
        /\ job.room \in Nat
    <2>1. job.frames > 0 BY DEF FramesLeft
    <2> QED BY <2>1 DEF Jobs
  <1> DEFINE size == st.frame_size
  <1>2. size \in FrameSizes(st.mode) /\ size \in Sizes /\ st.mode \in Modes
    BY <1>1, DecoderStates, FrameSizesAreSizes DEF FramesLeft
  <1>3. job.frames * size \in Nat /\ job.frames * size >= size
    BY <1>1, <1>2, Multiples
  <1>4. job.goal - job.done = job.frames * size /\ job.goal <= job.room
    BY DEF FramesLeft
  <1>5. size \in Nat BY <1>2 DEF Sizes
  <1> HIDE DEF size
  <1>6. size <= job.room - job.done /\ job.room - job.done \in Nat
    BY <1>1, <1>3, <1>4, <1>5
  <1> QED BY <1>6 DEF RoomLeft, size

LEMMA SilkRefusedOK ==
    ASSUME DecoderInv, job # Idle, FramesLeft, job \in Jobs, SilkRefused
    PROVE  \E e : Sound(e) /\ e.st = st /\ Becomes(e)
  <1>c. job.frames > 0 BY DEF FramesLeft
  <1>1. /\ job \in Jobs /\ FramesLeft /\ st.mode # "celt"
        /\ job.frames \in Nat \ {0} /\ job.done \in Nat /\ job.goal \in Nat
        /\ job.room \in Nat
    BY <1>c DEF Jobs, SilkRefused
  <1> DEFINE room == job.room - job.done
             size == st.frame_size
  <1>2. /\ st \in States /\ st.mode \in Modes /\ size \in Sizes
    BY <1>1, DecoderStates, FrameSizesAreSizes DEF FramesLeft
  <1>5. RoomLeft BY <1>1, RoomIsLeft
  <1>6. room \in Nat /\ size <= room /\ size \in {1, 2, 3, 4, 8, 16, 24}
    BY <1>2, <1>5 DEF RoomLeft, Sizes
  <1> DEFINE e == Silk(Decoder, st.mode, size, room)
  <1>7. Becomes(e) BY DEF SilkRefused
  <1> HIDE DEF room, size
  <1>8. Sound(e) /\ e.st = st
    <2>1. Sound(Decoder) /\ Decoder.st = st BY DecoderStates
    <2>2. PICK d, mode, n, m : d = Decoder /\ mode = st.mode /\ n = size /\ m = room
      OBVIOUS
    <2>3. /\ Sound(d) /\ d.st = st /\ mode \in Modes /\ m \in Nat
          /\ n \in {1, 2, 3, 4, 8, 16, 24} /\ n <= m
      BY <1>2, <1>6, <2>1, <2>2
    <2>4. Sound(Silk(d, mode, n, m)) /\ Silk(d, mode, n, m).st = d.st
      BY <2>3, SilkSound
    <2>5. e = Silk(d, mode, n, m) BY <2>2
    <2> HIDE DEF e
    <2> QED BY <2>3, <2>4, <2>5
  <1> HIDE DEF e
  <1> QED BY <1>7, <1>8

LEMMA CeltRefusedOK ==
    ASSUME DecoderInv, job # Idle, FramesLeft, job \in Jobs, CeltRefused
    PROVE  \E e : Sound(e) /\ Becomes(e) /\ e.st.duration = st.duration
  <1> DEFINE room == job.room - job.done
             size == st.frame_size
  <1>1. /\ st \in States /\ st.mode \in Modes /\ size \in FrameSizes(st.mode)
    BY DecoderStates DEF FramesLeft
  <1>2. RoomLeft BY RoomIsLeft
  <1>3. room \in Nat /\ size <= room BY <1>2 DEF RoomLeft
  <1>4. PICK red \in Redundancy : Becomes(DecodeFrame(Decoder, room, red).dec)
    BY DEF CeltRefused, Redundancies, Redundancy
  <1> HIDE DEF room, size
  <1>5. Sound(Decoder) /\ Decoder.st = st BY DecoderStates
  <1> DEFINE e == DecodeFrame(Decoder, room, red).dec
  <1>6. Sound(e) /\ e.st = After(st, st.mode, red)
    BY <1>1, <1>3, <1>5, DecodeSound DEF size
  <1>7. e.st.duration = st.duration BY <1>1, <1>6 DEF After, States
  <1> QED BY <1>4, <1>6, <1>7

LEMMA FrameRefusedOK == ASSUME DecoderInv, FrameRefused PROVE DecoderInv'
  <1>a. job # Idle /\ job.call = "frames" BY DEF FrameRefused
  <1>b. (SilkRefused \/ CeltRefused) /\ job' = Idle /\ last' = last
    BY DEF FrameRefused
  <1>1. job # Idle /\ job' = Idle /\ last' = last BY <1>a, <1>b
  <1>2. job \in Jobs /\ FramesLeft BY <1>a DEF DecoderInv, JobOK
  <1>3. last \in Nat /\ st.duration = last
    BY <1>1, <1>2, DecoderStates DEF FramesLeft
  <1>4. \E e : Sound(e) /\ Becomes(e) /\ e.st.duration = st.duration
    <2>1. ASSUME SilkRefused
          PROVE  \E e : Sound(e) /\ Becomes(e) /\ e.st.duration = st.duration
      BY <1>1, <1>2, <2>1, SilkRefusedOK
    <2>2. ASSUME CeltRefused
          PROVE  \E e : Sound(e) /\ Becomes(e) /\ e.st.duration = st.duration
      BY <1>1, <1>2, <2>2, CeltRefusedOK
    <2> QED BY <1>b, <2>1, <2>2
  <1>5. PICK e : Sound(e) /\ Becomes(e) /\ e.st.duration = st.duration BY <1>4
  <1>6. Sound([st |-> st, silk |-> silk, celt |-> celt, uses |-> uses])'
    BY <1>5, BecomesSound
  <1> QED BY <1>1, <1>3, <1>5, <1>6 DEF DecoderInv, JobOK, Becomes

LEMMA FecFrameOK == ASSUME DecoderInv, FecFrame PROVE DecoderInv'
  <1>1. /\ job \in Jobs /\ job.call = "fec" /\ FecLeft /\ job.room \in Nat
    BY DEF FecFrame, DecoderInv, JobOK, Jobs
  <1> DEFINE p == job.packet
             d == With(Decoder, p)
  <1>2. p.mode \in Modes /\ p.size \in FrameSizes(p.mode)
    BY <1>1 DEF FecLeft, Packet
  <1>3. p.size \in Sizes /\ p.size \in Nat \ {0}
    BY <1>2, FrameSizesAreSizes
  <1>4. st \in States /\ Decoder.st = st /\ Sound(Decoder) BY DecoderStates
  <1>5. Sound(d) /\ d.st = [st EXCEPT !.mode = p.mode, !.frame_size = p.size]
    BY <1>2, <1>3, <1>4, WithSound
  <1>6. d.st.mode = p.mode /\ d.st.frame_size = p.size BY <1>4, <1>5 DEF States
  <1>7. PICK c \in {Conceal(d, p.size), DecodeFrame(d, p.size, "none")} :
           Returns(job.room, c.dec)
    BY DEF FecFrame
  <1> HIDE DEF d, p
  <1>8. Sound(Conceal(d, p.size).dec) BY <1>3, <1>5, ConcealSound
  <1>9. Sound(DecodeFrame(d, p.size, "none").dec)
    <2>1. PICK red \in Redundancy : red = "none" BY DEF Redundancy
    <2>2. p.size <= p.size /\ p.size \in Nat BY <1>3
    <2>3. Sound(DecodeFrame(d, p.size, red).dec)
      BY <1>2, <1>5, <1>6, <2>2, DecodeSound
    <2> QED BY <2>1, <2>3
  <1> QED BY <1>1, <1>7, <1>8, <1>9, ReturnsOK

LEMMA DecoderStep ==
    ASSUME OpusDecoderAssumption, DecoderInv, [Next]_vars
    PROVE  DecoderInv'
  <1>1. CASE UNCHANGED vars
    BY <1>1 DEF vars, DecoderInv, JobOK, FramesLeft, ConcealLeft, FecLeft, Sound, UseOK
  <1>2. CASE Next
    BY <1>2, ResetOK, LostOK, ReceiveOK, RecoverOK, ConcealFrameOK, FrameOK,
       FrameRefusedOK, FecFrameOK
       DEF Next
  <1> QED BY <1>1, <1>2

LEMMA InitDecoder == ASSUME Init PROVE DecoderInv
  <1>1. Cleared \in States BY DEF Cleared, States, Sizes, F2_5
  <1>2. [st |-> st, silk |-> silk, celt |-> celt, uses |-> uses] \in Decoders
    BY <1>1 DEF Init, Decoders, Worth
  <1>3. Sound([st |-> st, silk |-> silk, celt |-> celt, uses |-> uses])
    BY <1>2 DEF Init, Sound
  <1> QED BY <1>3 DEF Init, Cleared, DecoderInv, JobOK

(* What holds between two frames of a call, for every packet and room.      *)
THEOREM DecoderInvariant == ASSUME OpusDecoderAssumption PROVE Spec => []DecoderInv
  <1>1. Init => DecoderInv BY InitDecoder
  <1>2. DecoderInv /\ [Next]_vars => DecoderInv' BY DecoderStep
  <1> QED BY <1>1, <1>2, PTL DEF Spec

LEMMA InvType == ASSUME DecoderInv PROVE TypeOK
  <1>1. st \in States /\ silk \in Worth /\ celt \in Worth
    BY DEF DecoderInv, Sound, Decoders
  <1>2. Sizes = UNION {FrameSizes(m) : m \in Modes}
    <2>1. \A n \in Sizes : n \in FrameSizes("silk") \/ n \in FrameSizes("celt")
      BY DEF Sizes, FrameSizes
    <2>2. "silk" \in Modes /\ "celt" \in Modes BY DEF Modes
    <2>3. \A n \in Sizes : n \in UNION {FrameSizes(m) : m \in Modes} BY <2>1, <2>2
    <2>4. \A m \in Modes : FrameSizes(m) \subseteq Sizes BY FrameSizesAreSizes
    <2> QED BY <2>3, <2>4
  <1> QED BY <1>1, <1>2 DEF TypeOK, States

LEMMA InvUses == ASSUME DecoderInv PROVE \A u \in uses : UseOK(u)
  BY DEF DecoderInv, Sound

LEMMA InvCalls == ASSUME DecoderInv PROVE WholeCalls
  <1>1. \A u \in uses : u.writes <= u.room BY InvUses DEF UseOK
  <1>2. job = Idle => st.duration = last BY IdleDuration
  <1>3. ASSUME job # Idle
        PROVE  IF job.call = "frames"
               THEN job.goal - job.done = job.frames * st.frame_size
               ELSE /\ job.conceal >= 0
                    /\ job.done + job.conceal
                         + (IF job.call = "fec" THEN job.packet.size ELSE 0) = job.goal
    <2>1. job \in Jobs BY <1>3 DEF DecoderInv, JobOK
    <2>2. /\ job.call \in {"frames", "conceal", "fec"} /\ job.conceal \in Nat
          /\ job.done \in Nat /\ job.goal \in Nat
      BY <2>1 DEF Jobs
    <2>3. CASE job.call = "frames"
      BY <2>1, <2>3, <1>3 DEF DecoderInv, JobOK, FramesLeft
    <2>4. CASE job.call = "conceal"
      <3>1. job.done + job.conceal = job.goal
        BY <1>3, <2>4 DEF DecoderInv, JobOK, ConcealLeft
      <3> QED BY <2>2, <2>4, <3>1
    <2>5. CASE job.call = "fec"
      <3>1. job.done + job.conceal + job.packet.size = job.goal
        BY <1>3, <2>5 DEF DecoderInv, JobOK, FecLeft
      <3> QED BY <2>2, <2>5, <3>1
    <2> QED BY <2>2, <2>3, <2>4, <2>5
  <1> QED BY <1>1, <1>2, <1>3 DEF WholeCalls

LEMMA InvStale == ASSUME DecoderInv PROVE NoStaleState
  <1>1. ASSUME NEW u \in uses
        PROVE  /\ u.size \in IF u.coder = "silk" THEN {4, 8, 16, 24} ELSE {1, 2, 4, 8}
               /\ u.coder \in {"silk", "celt"} => u.on # "stale"
    BY InvUses DEF UseOK
  <1> QED BY <1>1 DEF NoStaleState

(* The decoder keeps to its modes and to the frame sizes that some mode has *)
(* (the fields opus_decode_native sets from the header).                    *)
THEOREM TypeCorrect == ASSUME OpusDecoderAssumption PROVE Spec => []TypeOK
  <1>1. DecoderInv => TypeOK BY InvType
  <1> QED BY <1>1, DecoderInvariant, PTL

(* opus_decode_frame asks SILK and CELT only for sizes they have, and never *)
(* on the state of a stream that was left to the other one.                 *)
THEOREM StateIsCurrent == ASSUME OpusDecoderAssumption PROVE Spec => []NoStaleState
  <1>1. DecoderInv => NoStaleState BY InvStale
  <1> QED BY <1>1, DecoderInvariant, PTL

(* The assertions of opus_decode_native: what is decoded and concealed adds *)
(* up to what was asked for, within the room that the caller gave.          *)
THEOREM CallsAreWhole == ASSUME OpusDecoderAssumption PROVE Spec => []WholeCalls
  <1>1. DecoderInv => WholeCalls BY InvCalls
  <1> QED BY <1>1, DecoderInvariant, PTL
=============================================================================
