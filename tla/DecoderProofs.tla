---------------------------- MODULE DecoderProofs ----------------------------
(***************************************************************************)
(* What a decoder is given, for every setting: the bytes of the arithmetic *)
(* coder (CarryFits and WrittenStays, for every table, header, buffer and  *)
(* sequence of engine calls), and the references its lists name            *)
(* (DecoderAgrees, ColdAgrees and AnchorsHeld, for every setting, number   *)
(* of pictures and MaxFrameNum above the window).                          *)
(***************************************************************************)
EXTENDS Cabac, DpbInv, SequenceTheorems, FiniteSetTheorems, TLAPS

-----------------------------------------------------------------------------
(* The arithmetic coder.                                                     *)

Byte == 0..255

Engines ==
    [low : Nat, range : Nat, queue : Int, obytes : Nat, buf : Seq(Byte),
     start : Nat, overflow : BOOLEAN, nbins : Nat,
     ctx : [Ctx -> [state : States, mps : 0..1]]]

\* CarryFits of an engine between two extractions, whatever its queue.
Within(e) ==
    /\ e.low + e.range <= 767 * Pow2(e.queue + 9)
    /\ ~e.overflow =>
         /\ Len(e.buf) >= e.start
         /\ Len(e.buf) = e.start => /\ e.obytes = 0
                                    /\ e.low + e.range <= 510 * Pow2(e.queue + 9)
         /\ Len(e.buf) # e.start => e.buf[Len(e.buf)] < 255

\* WrittenStays of two engines; and a byte changes only when another follows it.
Kept(e, f) ==
    f.overflow \/
      /\ Len(e.buf) <= Len(f.buf)
      /\ Len(e.buf) = Len(f.buf) => f.buf = e.buf
      /\ \A i \in 1..Len(e.buf) :
           \/ f.buf[i] = e.buf[i]
           \/ /\ i = Len(e.buf) /\ i > e.start
              /\ e.buf[i] < 255 /\ f.buf[i] = e.buf[i] + 1

-----------------------------------------------------------------------------
\* The powers of two at hand.
LEMMA Powers ==
    /\ Pow2(0) = 1 /\ Pow2(1) = 2 /\ Pow2(2) = 4 /\ Pow2(3) = 8 /\ Pow2(4) = 16
    /\ Pow2(5) = 32 /\ Pow2(6) = 64 /\ Pow2(7) = 128 /\ Pow2(8) = 256
    /\ Pow2(9) = 512 /\ Pow2(10) = 1024 /\ Pow2(11) = 2048 /\ Pow2(12) = 4096
    /\ Pow2(13) = 8192 /\ Pow2(14) = 16384 /\ Pow2(15) = 32768
    /\ Pow2(16) = 65536 /\ Pow2(17) = 131072 /\ Pow2(18) = 262144
    /\ Pow2(19) = 524288
  BY DEF Pow2, Bit

\* A shift by k multiplies the power by 2^k.
LEMMA PowerShift ==
    ASSUME NEW k \in 0..8, NEW j \in 0..9
    PROVE  Pow2(j + k) = Pow2(j) * Pow2(k) /\ Pow2(j) \in Nat /\ Pow2(k) \in 1..256
<1>1. /\ k = 0 \/ k = 1 \/ k = 2 \/ k = 3 \/ k = 4 \/ k = 5 \/ k = 6 \/ k = 7 \/ k = 8
      /\ j = 0 \/ j = 1 \/ j = 2 \/ j = 3 \/ j = 4 \/ j = 5 \/ j = 6 \/ j = 7 \/ j = 8
           \/ j = 9
  OBVIOUS
<1> QED BY <1>1, Powers

LEMMA PowerSmall == ASSUME NEW k \in 0..8 PROVE Pow2(k) \in 1..256
<1>1. 0 \in 0..9 OBVIOUS
<1> QED BY <1>1, PowerShift

\* What a division by a power of two leaves and takes.
Halved(x, j) ==
    /\ x \div Pow2(j + 10) \in Nat /\ x % Pow2(j + 10) \in Nat
    /\ x % Pow2(j + 10) < 512 * Pow2(j + 1)
    /\ x < 768 * Pow2(j + 9) => x \div Pow2(j + 10) <= 383
    /\ x < 510 * Pow2(j + 9) => x \div Pow2(j + 10) <= 254
    /\ Pow2(j + 1) \in Nat /\ Pow2(j + 1) >= 2
    /\ Pow2(j + 9) \in Nat /\ Pow2(j + 9) > 0

LEMMA Halves ==
    ASSUME NEW x \in Nat, NEW j \in 0..9
    PROVE  Halved(x, j)
<1>0. CASE j = 0
  <2>1. Pow2(j + 9) = 512 /\ Pow2(j + 10) = 1024 /\ Pow2(j + 1) = 2
    BY <1>0, Powers
  <2> QED BY <2>1 DEF Halved
<1>1. CASE j = 1
  <2>1. Pow2(j + 9) = 1024 /\ Pow2(j + 10) = 2048 /\ Pow2(j + 1) = 4
    BY <1>1, Powers
  <2> QED BY <2>1 DEF Halved
<1>2. CASE j = 2
  <2>1. Pow2(j + 9) = 2048 /\ Pow2(j + 10) = 4096 /\ Pow2(j + 1) = 8
    BY <1>2, Powers
  <2> QED BY <2>1 DEF Halved
<1>3. CASE j = 3
  <2>1. Pow2(j + 9) = 4096 /\ Pow2(j + 10) = 8192 /\ Pow2(j + 1) = 16
    BY <1>3, Powers
  <2> QED BY <2>1 DEF Halved
<1>4. CASE j = 4
  <2>1. Pow2(j + 9) = 8192 /\ Pow2(j + 10) = 16384 /\ Pow2(j + 1) = 32
    BY <1>4, Powers
  <2> QED BY <2>1 DEF Halved
<1>5. CASE j = 5
  <2>1. Pow2(j + 9) = 16384 /\ Pow2(j + 10) = 32768 /\ Pow2(j + 1) = 64
    BY <1>5, Powers
  <2> QED BY <2>1 DEF Halved
<1>6. CASE j = 6
  <2>1. Pow2(j + 9) = 32768 /\ Pow2(j + 10) = 65536 /\ Pow2(j + 1) = 128
    BY <1>6, Powers
  <2> QED BY <2>1 DEF Halved
<1>7. CASE j = 7
  <2>1. Pow2(j + 9) = 65536 /\ Pow2(j + 10) = 131072 /\ Pow2(j + 1) = 256
    BY <1>7, Powers
  <2> QED BY <2>1 DEF Halved
<1>8. CASE j = 8
  <2>1. Pow2(j + 9) = 131072 /\ Pow2(j + 10) = 262144 /\ Pow2(j + 1) = 512
    BY <1>8, Powers
  <2> QED BY <2>1 DEF Halved
<1>9. CASE j = 9
  <2>1. Pow2(j + 9) = 262144 /\ Pow2(j + 10) = 524288 /\ Pow2(j + 1) = 1024
    BY <1>9, Powers
  <2> QED BY <2>1 DEF Halved
<1> QED BY <1>0, <1>1, <1>2, <1>3, <1>4, <1>5, <1>6, <1>7, <1>8, <1>9

\* What is peeled off holds at most one carry, and none while low is small; what
\* remains leaves room for the range.
LEMMA Peel ==
    ASSUME NEW e, e.queue \in 0..9, e.low \in Nat, e.range \in 2..510,
           e.low + e.range <= 767 * Pow2(e.queue + 9)
    PROVE  /\ Oldest(e) \in 0..383 /\ e.low % Pow2(e.queue + 10) \in Nat
           /\ (e.low % Pow2(e.queue + 10)) + e.range <= 767 * Pow2(e.queue + 1)
           /\ e.low + e.range <= 510 * Pow2(e.queue + 9) => Oldest(e) <= 254
<1> DEFINE j == e.queue
           x == e.low
           r == e.range
<1>1. j \in 0..9 /\ x \in Nat /\ r \in 2..510 /\ x + r <= 767 * Pow2(j + 9)
  OBVIOUS
<1> SUFFICES /\ x \div Pow2(j + 10) \in 0..383 /\ x % Pow2(j + 10) \in Nat
             /\ (x % Pow2(j + 10)) + r <= 767 * Pow2(j + 1)
             /\ x + r <= 510 * Pow2(j + 9) => x \div Pow2(j + 10) <= 254
  BY DEF Oldest
<1> HIDE DEF j, x, r
<1>2. Halved(x, j) BY <1>1, Halves
<1> QED BY <1>1, <1>2 DEF Halved

-----------------------------------------------------------------------------
\* A byte and a carry.
Added(x, cry) ==
    /\ (x + cry) % 256 \in Byte
    /\ cry = 0 => (x + cry) % 256 = x
    /\ x < 255 => (x + cry) % 256 = x + cry

LEMMA AddByte == ASSUME NEW x \in Byte, NEW cry \in 0..1 PROVE Added(x, cry)
<1>1. CASE cry = 0 BY <1>1 DEF Byte, Added
<1>2. CASE cry = 1 BY <1>2 DEF Byte, Added
<1> QED BY <1>1, <1>2

LEMMA HeldBackBytes ==
    ASSUME NEW n \in Nat, NEW cry \in 0..1
    PROVE  /\ HeldBack(n, cry) \in Seq(Byte) /\ Len(HeldBack(n, cry)) = n
           /\ \A i \in 1..n : HeldBack(n, cry)[i] \in {0, 255}
<1>1. (255 + cry) % 256 \in {0, 255}
  <2>1. CASE cry = 0 BY <2>1
  <2>2. CASE cry = 1 BY <2>2
  <2> QED BY <2>1, <2>2
<1>2. {0, 255} \subseteq Byte BY DEF Byte
<1> QED BY <1>1, <1>2 DEF HeldBack

LEMMA CarriedBytes ==
    ASSUME NEW buf \in Seq(Byte), NEW cry \in 0..1
    PROVE  /\ Carried(buf, cry) \in Seq(Byte)
           /\ Len(Carried(buf, cry)) = Len(buf)
           /\ \A i \in 1..(Len(buf) - 1) : Carried(buf, cry)[i] = buf[i]
           /\ Len(buf) > 0 => Carried(buf, cry)[Len(buf)] = (buf[Len(buf)] + cry) % 256
<1>1. CASE buf = <<>>
  BY <1>1 DEF Carried
<1>2. CASE buf # <<>>
  <2>1. Len(buf) \in 1..Len(buf) BY <1>2
  <2>2. buf[Len(buf)] \in Byte BY <2>1
  <2>3. (buf[Len(buf)] + cry) % 256 \in Byte
    BY <2>2, AddByte DEF Added
  <2> QED BY <1>2, <2>1, <2>3 DEF Carried
<1> QED BY <1>1, <1>2

\* A byte written behind the carry and the bytes held back.
Emitted(buf, cry, n, b) == Carried(buf, cry) \o HeldBack(n, cry) \o <<b>>

\* What it comes to.
Extends(g, buf, cry, n, b) ==
    /\ g \in Seq(Byte) /\ Len(g) = Len(buf) + n + 1 /\ g[Len(g)] = b
    /\ \A i \in 1..(Len(buf) - 1) : g[i] = buf[i]
    /\ Len(buf) > 0 => g[Len(buf)] = (buf[Len(buf)] + cry) % 256

LEMMA Joined ==
    ASSUME NEW u \in Seq(Byte), NEW v \in Seq(Byte)
    PROVE  /\ u \o v \in Seq(Byte) /\ Len(u \o v) = Len(u) + Len(v)
           /\ \A i \in 1..(Len(u) + Len(v)) :
                (u \o v)[i] = IF i <= Len(u) THEN u[i] ELSE v[i - Len(u)]
  BY ConcatProperties

LEMMA WrittenBytes ==
    ASSUME NEW buf \in Seq(Byte), NEW cry \in 0..1, NEW n \in Nat, NEW b \in Byte
    PROVE  Extends(Emitted(buf, cry, n, b), buf, cry, n, b)
<1> DEFINE a == Carried(buf, cry)
           h == HeldBack(n, cry)
           g == Emitted(buf, cry, n, b)
<1>1. /\ a \in Seq(Byte) /\ Len(a) = Len(buf)
      /\ \A i \in 1..(Len(buf) - 1) : a[i] = buf[i]
      /\ Len(buf) > 0 => a[Len(buf)] = (buf[Len(buf)] + cry) % 256
  BY CarriedBytes, ZenonT(40)
<1>2. h \in Seq(Byte) /\ Len(h) = n
  BY HeldBackBytes
<1>3. g = (a \o h) \o <<b>>
  BY DEF Emitted
<1> HIDE DEF a, h, g
<1>4. /\ a \o h \in Seq(Byte) /\ Len(a \o h) = Len(a) + Len(h)
      /\ \A i \in 1..(Len(a) + Len(h)) :
           (a \o h)[i] = IF i <= Len(a) THEN a[i] ELSE h[i - Len(a)]
  BY <1>1, <1>2, Joined
<1> DEFINE ah == a \o h
           last == <<b>>
<1>5. ah \in Seq(Byte) /\ last \in Seq(Byte) /\ Len(last) = 1 /\ last[1] = b
  BY <1>4
<1>6. g = ah \o last BY <1>3
<1>7. Len(ah) = Len(buf) + n /\ Len(buf) \in Nat
  BY <1>1, <1>2, <1>4
<1>8. \A i \in 1..Len(buf) : ah[i] = a[i]
  BY <1>1, <1>2, <1>4, <1>7
<1> HIDE DEF ah, last
<1>9. /\ g \in Seq(Byte) /\ Len(g) = Len(ah) + Len(last)
      /\ \A i \in 1..(Len(ah) + Len(last)) :
           g[i] = IF i <= Len(ah) THEN ah[i] ELSE last[i - Len(ah)]
  <2>1. ah \in Seq(Byte) /\ last \in Seq(Byte) BY <1>5
  <2> QED BY <1>6, <2>1, Joined
<1>10. g \in Seq(Byte) /\ Len(g) = Len(buf) + n + 1 BY <1>5, <1>7, <1>9
<1>11. g[Len(g)] = b
  BY <1>5, <1>7, <1>9
<1>12. \A i \in 1..Len(buf) : g[i] = a[i]
  BY <1>5, <1>7, <1>8, <1>9
<1> QED BY <1>1, <1>7, <1>10, <1>11, <1>12 DEF Extends, g

\* What E_PUTBYTE may assume and what it leaves.
Before(e) == /\ e \in Engines /\ e.range \in 2..510 /\ e.queue \in -9..9
             /\ Within(e)
After(e, f) == /\ f \in Engines /\ f.range = e.range /\ f.start = e.start
               /\ f.queue = (IF e.queue < 0 THEN e.queue ELSE e.queue - 8)
               /\ Within(f) /\ Kept(e, f)
               /\ e.overflow => f.overflow

\* The types of an engine's fields.
LEMMA Fields ==
    ASSUME NEW e \in Engines
    PROVE  /\ e.low \in Nat /\ e.range \in Nat /\ e.queue \in Int
           /\ e.obytes \in Nat /\ e.buf \in Seq(Byte) /\ e.start \in Nat
           /\ e.overflow \in BOOLEAN /\ e.nbins \in Nat
           /\ e.ctx \in [Ctx -> [state : States, mps : 0..1]]
           /\ Len(e.buf) \in Nat
  BY DEF Engines

LEMMA PeeledFields ==
    ASSUME NEW e \in Engines, e.low % Pow2(e.queue + 10) \in Nat
    PROVE  /\ Peeled(e) \in Engines
           /\ Peeled(e).low = e.low % Pow2(e.queue + 10)
           /\ Peeled(e).queue = e.queue - 8 /\ Peeled(e).obytes = e.obytes
           /\ Peeled(e).buf = e.buf /\ Peeled(e).overflow = e.overflow
           /\ Peeled(e).range = e.range /\ Peeled(e).start = e.start
<1> DEFINE rest == e.low % Pow2(e.queue + 10)
<1>1. Peeled(e) = [e EXCEPT !.low = rest, !.queue = e.queue - 8]
  BY DEF Peeled
<1> HIDE DEF rest
<1>2. e.queue - 8 \in Int BY Fields
<1> SUFFICES ASSUME rest \in Nat
             PROVE  LET f == [e EXCEPT !.low = rest, !.queue = e.queue - 8]
                    IN  /\ f \in Engines /\ f.low = rest
                        /\ f.queue = e.queue - 8 /\ f.obytes = e.obytes
                        /\ f.buf = e.buf /\ f.overflow = e.overflow
                        /\ f.range = e.range /\ f.start = e.start
  BY <1>1 DEF rest
<1> QED BY <1>2 DEF Engines

LEMMA PutByteFits ==
    ASSUME NEW e, Before(e)
    PROVE  After(e, PutByte(e))
<1> DEFINE f == PutByte(e)
           g == Written(e)
           p == Peeled(e)
           b == Oldest(e) % 256
<1>0. /\ e \in Engines /\ e.range \in 2..510 /\ e.queue \in -9..9 /\ Within(e)
      /\ e.low \in Nat /\ e.obytes \in Nat /\ e.buf \in Seq(Byte)
      /\ e.start \in Nat /\ e.overflow \in BOOLEAN /\ Len(e.buf) \in Nat
  BY Fields DEF Before
<1>a. e.low \in Nat /\ e.range \in 2..510 /\ e.queue \in -9..9
  BY <1>0
<1>b. e.obytes \in Nat /\ e.buf \in Seq(Byte) BY <1>0
<1>1. CASE e.queue < 0
  <2>1. f = e BY <1>1 DEF PutByte
  <2>2. Kept(e, e) BY <1>0 DEF Kept
  <2> QED BY <1>0, <1>1, <2>1, <2>2 DEF After
<1>2. CASE e.queue >= 0
  <2>1. e.queue \in 0..9 BY <1>a, <1>2
  <2>2. e.low + e.range <= 767 * Pow2(e.queue + 9) BY <1>0 DEF Within
  <2>3. /\ Oldest(e) \in 0..383 /\ e.low % Pow2(e.queue + 10) \in Nat
        /\ (e.low % Pow2(e.queue + 10)) + e.range <= 767 * Pow2(e.queue + 1)
        /\ e.low + e.range <= 510 * Pow2(e.queue + 9) => Oldest(e) <= 254
    BY <1>a, <2>1, <2>2, Peel
  <2>4. /\ Carry(e) \in 0..1 /\ b \in Byte /\ (Carry(e) = 1 => b # 255)
        /\ (Oldest(e) <= 254 => Carry(e) = 0 /\ b # 255)
    BY <2>3 DEF Byte, Carry
  <2>5. /\ p \in Engines /\ p.queue = e.queue - 8 /\ p.range = e.range
        /\ p.low + p.range <= 767 * Pow2(p.queue + 9)
        /\ p.buf = e.buf /\ p.overflow = e.overflow /\ p.start = e.start
        /\ p.obytes = e.obytes
    <3>1. /\ p \in Engines /\ p.low = e.low % Pow2(e.queue + 10)
          /\ p.queue = e.queue - 8 /\ p.range = e.range /\ p.obytes = e.obytes
          /\ p.buf = e.buf /\ p.overflow = e.overflow /\ p.start = e.start
      BY <1>0, <2>3, PeeledFields
    <3>2. e.queue - 8 \in -8..1 /\ (e.queue - 8) + 9 = e.queue + 1
      BY <2>1
    <3> QED BY <2>3, <3>1, <3>2
  <2>6. ~(e.queue < 0) BY <2>1
  <2> HIDE DEF p, b, g
  <2>7. CASE b = 255
    <3>1. f = [p EXCEPT !.obytes = e.obytes + 1]
      BY <2>5, <2>6, <2>7 DEF PutByte, p, b
    <3> HIDE DEF f
    <3>2. /\ f \in Engines /\ f.low = p.low /\ f.queue = p.queue /\ f.range = p.range
          /\ f.buf = p.buf /\ f.start = p.start /\ f.overflow = p.overflow
      <4>1. e.obytes + 1 \in Nat BY <1>b
      <4> QED BY <2>5, <3>1, <4>1 DEF Engines
    <3>3. ~e.overflow => Len(e.buf) # e.start
      BY <1>0, <2>3, <2>4, <2>7 DEF Within
    <3>4. Within(f) BY <1>0, <2>5, <3>2, <3>3 DEF Within
    <3>5. Kept(e, f) BY <1>0, <2>5, <3>2 DEF Kept
    <3> QED BY <1>0, <2>5, <2>6, <3>2, <3>4, <3>5 DEF After, f
  <2>8. CASE b # 255 /\ Len(e.buf) + e.obytes < RbspCap - Margin
    <3>1. f = [p EXCEPT !.obytes = 0, !.buf = g]
      BY <2>6, <2>8 DEF PutByte, p, b, g
    <3>2. /\ g \in Seq(Byte) /\ Len(g) = Len(e.buf) + e.obytes + 1 /\ g[Len(g)] = b
          /\ \A i \in 1..(Len(e.buf) - 1) : g[i] = e.buf[i]
          /\ Len(e.buf) > 0 => g[Len(e.buf)] = (e.buf[Len(e.buf)] + Carry(e)) % 256
      <4>1. g = Emitted(e.buf, Carry(e), e.obytes, b)
        BY DEF Written, Emitted, g, b
      <4>2. Carry(e) \in 0..1 /\ b \in Byte BY <2>4
      <4> HIDE DEF g
      <4>3. Extends(Emitted(e.buf, Carry(e), e.obytes, b), e.buf, Carry(e), e.obytes, b)
        BY <1>b, <4>2, WrittenBytes
      <4> QED BY <4>1, <4>3 DEF Extends
    <3> HIDE DEF f
    <3>3. /\ f \in Engines /\ f.low = p.low /\ f.queue = p.queue /\ f.range = p.range
          /\ f.buf = g /\ f.start = p.start /\ f.overflow = p.overflow
      BY <2>5, <3>1, <3>2 DEF Engines
    <3>4. b < 255 BY <2>4, <2>8 DEF Byte
    <3>5. Within(f)
      <4>1. ~e.overflow => Len(g) # e.start /\ Len(g) >= e.start
        BY <1>0, <3>2, SMTT(40) DEF Within
      <4> QED BY <1>0, <2>5, <3>2, <3>3, <3>4, <4>1 DEF Within
    <3>6. Kept(e, f)
      <4>1. SUFFICES ASSUME ~e.overflow, NEW i \in 1..Len(e.buf)
                     PROVE  \/ g[i] = e.buf[i]
                            \/ /\ i = Len(e.buf) /\ i > e.start
                               /\ e.buf[i] < 255 /\ g[i] = e.buf[i] + 1
        BY <1>0, <2>5, <3>2, <3>3, SMTT(40) DEF Kept
      <4>2. CASE i # Len(e.buf)
        <5>1. i \in 1..(Len(e.buf) - 1) BY <1>b, <4>1, <4>2
        <5> QED BY <3>2, <5>1
      <4>3. CASE i = Len(e.buf)
        <5>1. e.buf[i] \in Byte /\ g[i] = (e.buf[i] + Carry(e)) % 256
          BY <1>0, <3>2, <4>3
        <5> DEFINE y == e.buf[i]
                   carry == Carry(e)
        <5>a. y \in Byte /\ carry \in 0..1 BY <2>4, <5>1
        <5> HIDE DEF y, carry
        <5>b. Added(y, carry) BY <5>a, AddByte
        <5>2. CASE Carry(e) = 0
          <6>1. (e.buf[i] + Carry(e)) % 256 = e.buf[i]
            BY <5>2, <5>b DEF Added, y, carry
          <6> QED BY <5>1, <6>1
        <5>3. CASE Carry(e) = 1
          <6>1. Len(e.buf) # e.start
            BY <1>0, <2>3, <2>4, <4>1, <5>3 DEF Within
          <6>2. e.buf[i] < 255 /\ i > e.start
            BY <1>0, <4>1, <4>3, <6>1 DEF Within
          <6>3. g[i] = e.buf[i] + Carry(e) BY <5>1, <5>b, <6>2 DEF Added, y, carry
          <6> QED BY <4>3, <5>3, <6>2, <6>3
        <5>4. Carry(e) = 0 \/ Carry(e) = 1 BY <2>4
        <5> QED BY <5>2, <5>3, <5>4
      <4> QED BY <4>2, <4>3
    <3> QED BY <1>0, <2>5, <2>6, <3>3, <3>5, <3>6 DEF After, f
  <2>9. CASE b # 255 /\ ~(Len(e.buf) + e.obytes < RbspCap - Margin)
    <3>1. f = [p EXCEPT !.obytes = 0, !.overflow = TRUE]
      BY <2>6, <2>9 DEF PutByte, p, b
    <3> HIDE DEF f
    <3>2. /\ f \in Engines /\ f.low = p.low /\ f.queue = p.queue /\ f.range = p.range
          /\ f.start = p.start /\ f.overflow = TRUE
      BY <2>5, <3>1 DEF Engines
    <3>3. Within(f) BY <2>5, <3>2 DEF Within
    <3>4. Kept(e, f) BY <3>2 DEF Kept
    <3> QED BY <1>0, <2>5, <2>6, <3>2, <3>3, <3>4 DEF After, f
  <2> QED BY <2>7, <2>8, <2>9
<1> QED BY <1>0, <1>1, <1>2, SMTT(40)

\* Two steps that keep the bytes keep them together.
LEMMA KeptAgain ==
    ASSUME NEW e, NEW f, NEW g, e.buf \in Seq(Byte), f.buf \in Seq(Byte),
           g.buf \in Seq(Byte), e.start \in Nat, f.start = e.start,
           Kept(e, f), Kept(f, g), f.overflow => g.overflow
    PROVE  Kept(e, g)
<1>1. CASE f.overflow BY <1>1 DEF Kept
<1>2. CASE g.overflow BY <1>2 DEF Kept
<1>3. CASE ~f.overflow /\ ~g.overflow
  <2> DEFINE eb == e.buf
             fb == f.buf
             gb == g.buf
             st == e.start
  <2>1. /\ Len(eb) <= Len(fb) /\ (Len(eb) = Len(fb) => fb = eb)
        /\ \A i \in 1..Len(eb) : \/ fb[i] = eb[i]
                                 \/ /\ i = Len(eb) /\ i > st
                                    /\ eb[i] < 255 /\ fb[i] = eb[i] + 1
    BY <1>3 DEF Kept
  <2>2. /\ Len(fb) <= Len(gb) /\ (Len(fb) = Len(gb) => gb = fb)
        /\ \A i \in 1..Len(fb) : \/ gb[i] = fb[i]
                                 \/ /\ i = Len(fb) /\ i > st
                                    /\ fb[i] < 255 /\ gb[i] = fb[i] + 1
    BY <1>3 DEF Kept
  <2>3. Len(eb) \in Nat /\ Len(fb) \in Nat /\ Len(gb) \in Nat OBVIOUS
  <2> HIDE DEF eb, fb, gb, st
  <2>4. CASE fb = eb
    <3>1. /\ Len(eb) <= Len(gb) /\ (Len(eb) = Len(gb) => gb = eb)
          /\ \A i \in 1..Len(eb) : \/ gb[i] = eb[i]
                                   \/ /\ i = Len(eb) /\ i > st
                                      /\ eb[i] < 255 /\ gb[i] = eb[i] + 1
      BY <2>2, <2>4
    <3> QED BY <3>1 DEF Kept, eb, gb, st
  <2>5. CASE Len(eb) < Len(fb)
    <3>1. Len(eb) < Len(gb) BY <2>2, <2>3, <2>5
    <3>2. \A i \in 1..Len(eb) : i \in 1..Len(fb) /\ i # Len(fb)
      BY <2>3, <2>5
    <3>3. \A i \in 1..Len(eb) : gb[i] = fb[i]
      BY <2>2, <3>2
    <3>4. \A i \in 1..Len(eb) : \/ gb[i] = eb[i]
                                \/ /\ i = Len(eb) /\ i > st
                                   /\ eb[i] < 255 /\ gb[i] = eb[i] + 1
      BY <2>1, <3>3
    <3>5. Len(eb) <= Len(gb) /\ Len(eb) # Len(gb) BY <2>3, <3>1
    <3> QED BY <3>4, <3>5 DEF Kept, eb, gb, st
  <2> QED BY <2>1, <2>3, <2>4, <2>5
<1> QED BY <1>1, <1>2, <1>3

-----------------------------------------------------------------------------
\* Renormalisation brings any range the coder leaves back to 256..510.
LEMMA ShiftBounds ==
    ASSUME NEW r \in 2..510
    PROVE  /\ Shift(r) \in 0..7
           /\ r * Pow2(Shift(r)) \in 256..510
<1>1. \E k \in 0..7 : 256 <= r * Pow2(k) /\ r * Pow2(k) < 512
  <2>1. CASE r >= 256 BY <2>1, Powers
  <2>2. CASE r \in 128..255 BY <2>2, Powers
  <2>3. CASE r \in 64..127 BY <2>3, Powers
  <2>4. CASE r \in 32..63 BY <2>4, Powers
  <2>5. CASE r \in 16..31 BY <2>5, Powers
  <2>6. CASE r \in 8..15 BY <2>6, Powers
  <2>7. CASE r \in 4..7 BY <2>7, Powers
  <2>8. CASE r \in 2..3 BY <2>8, Powers
  <2> QED BY <2>1, <2>2, <2>3, <2>4, <2>5, <2>6, <2>7, <2>8
<1>2. /\ Shift(r) \in 0..7
      /\ 256 <= r * Pow2(Shift(r)) /\ r * Pow2(Shift(r)) < 512
  BY <1>1 DEF Shift
<1>3. ASSUME NEW k \in 0..7, 256 <= r * Pow2(k), r * Pow2(k) < 512
      PROVE  r * Pow2(k) \in 256..510
  <2>1. CASE k = 0 BY <1>3, <2>1, Powers
  <2>2. CASE k = 1 BY <1>3, <2>2, Powers
  <2>3. CASE k = 2 BY <1>3, <2>3, Powers
  <2>4. CASE k = 3 BY <1>3, <2>4, Powers
  <2>5. CASE k = 4 BY <1>3, <2>5, Powers
  <2>6. CASE k = 5 BY <1>3, <2>6, Powers
  <2>7. CASE k = 6 BY <1>3, <2>7, Powers
  <2>8. CASE k = 7 BY <1>3, <2>8, Powers
  <2> QED BY <2>1, <2>2, <2>3, <2>4, <2>5, <2>6, <2>7, <2>8
<1> QED BY <1>2, <1>3

\* An interval within m grows to one within m * 2^k; a bypass chunk's too.
Grown(k, l, r, v, t) ==
    /\ l * Pow2(k) + v * r \in Nat
    /\ (l * Pow2(k) + v * r) + r <= t * Pow2(k)
    /\ l * Pow2(k) \in Nat /\ r * Pow2(k) \in Nat
    /\ l * Pow2(k) + r * Pow2(k) <= t * Pow2(k)

LEMMA Grows ==
    ASSUME NEW k \in 0..8, NEW l \in Nat, NEW r \in Nat, NEW v \in Nat,
           NEW t \in Nat, v < Pow2(k), l + r <= t
    PROVE  Grown(k, l, r, v, t)
<1> DEFINE m == Pow2(k)
           z == v * r
<1>1. k = 0 \/ k = 1 \/ k = 2 \/ k = 3 \/ k = 4 \/ k = 5 \/ k = 6 \/ k = 7 \/ k = 8
  OBVIOUS
<1>2. m \in {1, 2, 4, 8, 16, 32, 64, 128, 256} BY <1>1, Powers
<1>3. v + 1 <= m /\ m \in Nat BY <1>2
<1> HIDE DEF m
<1>4. z \in Nat /\ z + r <= m * r
  <2>1. (v + 1) * r <= m * r BY <1>3
  <2>2. z + r = (v + 1) * r OBVIOUS
  <2>3. z \in Nat OBVIOUS
  <2> QED BY <2>1, <2>2, <2>3
<1> HIDE DEF z
<1>5. /\ l * m + z \in Nat /\ (l * m + z) + r <= t * m
      /\ l * m \in Nat /\ r * m \in Nat /\ l * m + r * m <= t * m
  <2>1. CASE m = 1 BY <1>4, <2>1
  <2>2. CASE m = 2 BY <1>4, <2>2
  <2>3. CASE m = 4 BY <1>4, <2>3
  <2>4. CASE m = 8 BY <1>4, <2>4
  <2>5. CASE m = 16 BY <1>4, <2>5
  <2>6. CASE m = 32 BY <1>4, <2>6
  <2>7. CASE m = 64 BY <1>4, <2>7
  <2>8. CASE m = 128 BY <1>4, <2>8
  <2>9. CASE m = 256 BY <1>4, <2>9
  <2> QED BY <1>2, <2>1, <2>2, <2>3, <2>4, <2>5, <2>6, <2>7, <2>8, <2>9
<1> QED BY <1>5 DEF Grown, m, z

LEMMA BufferRoom ==
    ASSUME NEW j \in 0..9, NEW k \in 0..8, NEW t \in Nat, NEW u \in Nat,
           u <= t * Pow2(k)
    PROVE  /\ t <= 767 * Pow2(j) => u <= 767 * Pow2(j + k)
           /\ t <= 510 * Pow2(j) => u <= 510 * Pow2(j + k)
<1> DEFINE m == Pow2(k)
           n == Pow2(j)
<1>1. Pow2(j + k) = n * m /\ n \in Nat /\ m \in 1..256 BY PowerShift
<1> HIDE DEF m, n
<1>2. u <= t * m /\ m \in Nat BY <1>1 DEF m
<1>3. t <= 767 * n => t * m <= 767 * (n * m) BY <1>1
<1>4. t <= 510 * n => t * m <= 510 * (n * m) BY <1>1
<1>5. t * m \in Nat /\ n * m \in Nat BY <1>1
<1> QED BY <1>1, <1>2, <1>3, <1>4, <1>5 DEF n

\* An engine between two calls, its interval not yet brought back to size.
Loose(e) == /\ e \in Engines /\ e.range \in 2..510 /\ e.queue \in -9..-1
            /\ Within(e)
Healthy(e) == Loose(e) /\ e.range >= 256

\* Nothing but the interval, its scale and the counters moved.
SameBytes(e, f) ==
    /\ f.buf = e.buf /\ f.obytes = e.obytes /\ f.start = e.start
    /\ f.overflow = e.overflow

LEMMA ScaledFits ==
    ASSUME NEW e, Loose(e), NEW k \in 0..8, NEW f \in Engines,
           f.range \in 2..510, f.queue = e.queue + k, SameBytes(e, f),
           f.low + f.range <= (e.low + e.range) * Pow2(k)
    PROVE  Before(f) /\ Kept(e, f)
<1> DEFINE j == e.queue + 9
           t == e.low + e.range
           u == f.low + f.range
<1>1. j \in 0..9 /\ f.queue + 9 = j + k /\ f.queue \in -9..9
  BY DEF Loose
<1>2. t \in Nat /\ u \in Nat /\ u <= t * Pow2(k)
  BY Fields, SMTT(40) DEF Loose
<1> HIDE DEF j, t, u
<1>3. /\ t <= 767 * Pow2(j) => u <= 767 * Pow2(j + k)
      /\ t <= 510 * Pow2(j) => u <= 510 * Pow2(j + k)
  BY <1>1, <1>2, BufferRoom, SMTT(40)
<1>4. Within(e) BY DEF Loose
<1>5. Within(f) BY <1>1, <1>3, <1>4 DEF Within, SameBytes, j, t, u
<1>6. Kept(e, f)
  <2>1. f.buf = e.buf /\ Len(e.buf) \in Nat BY Fields DEF SameBytes, Loose
  <2> QED BY <2>1 DEF Kept
<1> QED BY <1>1, <1>5, <1>6 DEF Before

\* A scaled engine puts a byte and is between two calls again.
Stepped(e, g) == /\ Loose(g) /\ Kept(e, g) /\ g.start = e.start
                 /\ e.overflow => g.overflow

LEMMA PutScaled ==
    ASSUME NEW e, Loose(e), NEW f, Before(f), Kept(e, f), SameBytes(e, f),
           f.queue \in -9..7
    PROVE  Stepped(e, PutByte(f)) /\ PutByte(f).range = f.range
<1> DEFINE g == PutByte(f)
<1>1. After(f, g) BY PutByteFits
<1> HIDE DEF g
<1>2. e \in Engines /\ f \in Engines /\ g \in Engines
  BY <1>1 DEF Loose, Before, After
<1>3. Loose(g) /\ g.range = f.range
  <2>1. g.range \in 2..510 BY <1>1 DEF After, Before
  <2>2. g.queue \in -9..-1 BY <1>1 DEF After
  <2> QED BY <1>1, <1>2, <2>1, <2>2 DEF Loose, After
<1>4. g.start = e.start /\ (e.overflow => g.overflow)
  BY <1>1 DEF After, SameBytes
<1>5. Kept(e, g)
  <2>1. Kept(f, g) /\ (f.overflow => g.overflow) BY <1>1 DEF After
  <2>2. f.start = e.start BY DEF SameBytes
  <2>3. e.buf \in Seq(Byte) /\ e.start \in Nat BY <1>2, Fields
  <2>4. f.buf \in Seq(Byte) BY <1>2, Fields
  <2>5. g.buf \in Seq(Byte) BY <1>2, Fields
  <2> QED BY <2>1, <2>2, <2>3, <2>4, <2>5, KeptAgain
<1> QED BY <1>3, <1>4, <1>5 DEF Stepped, g

LEMMA ShiftedFields ==
    ASSUME NEW e \in Engines, NEW k \in 0..8,
           e.low * Pow2(k) \in Nat, e.range * Pow2(k) \in Nat
    PROVE  /\ Shifted(e, k) \in Engines /\ SameBytes(e, Shifted(e, k))
           /\ Shifted(e, k).low = e.low * Pow2(k)
           /\ Shifted(e, k).range = e.range * Pow2(k)
           /\ Shifted(e, k).queue = e.queue + k
<1> DEFINE l == e.low * Pow2(k)
           r == e.range * Pow2(k)
           q == e.queue + k
<1>1. Shifted(e, k) = [e EXCEPT !.range = r, !.low = l, !.queue = q]
  BY DEF Shifted
<1>2. q \in Int BY Fields
<1>3. l \in Nat /\ r \in Nat OBVIOUS
<1> HIDE DEF l, r, q
<1>4. LET f == [e EXCEPT !.range = r, !.low = l, !.queue = q]
      IN  /\ f \in Engines /\ f.low = l /\ f.range = r /\ f.queue = q
          /\ SameBytes(e, f)
  BY <1>2, <1>3 DEF Engines, SameBytes
<1> QED BY <1>1, <1>4 DEF l, r, q

LEMMA RenormFits ==
    ASSUME NEW e, Loose(e)
    PROVE  Stepped(e, Renorm(e)) /\ Healthy(Renorm(e))
<1> DEFINE k == Shift(e.range)
           f == Shifted(e, k)
           l == e.low
           r == e.range
<1>1. k \in 0..7 /\ r * Pow2(k) \in 256..510
  BY ShiftBounds, ZenonT(40) DEF Loose
<1>2. l \in Nat /\ r \in Nat /\ e \in Engines /\ e.queue \in -9..-1 BY Fields DEF Loose
<1>3. Renorm(e) = PutByte(f) BY DEF Renorm
<1> HIDE DEF k
<1>4. /\ l * Pow2(k) \in Nat /\ r * Pow2(k) \in Nat
      /\ l * Pow2(k) + r * Pow2(k) <= (l + r) * Pow2(k)
  <2> HIDE DEF l, r
  <2>1. k \in 0..8 /\ l + r \in Nat /\ 0 < Pow2(k)
    <3>1. k \in 0..8 BY <1>1
    <3>2. Pow2(k) \in 1..256 BY <3>1, PowerSmall
    <3>3. r \in Nat BY <1>2, Fields DEF r
    <3> QED BY <1>2, <3>1, <3>2, <3>3
  <2>2. Grown(k, l, r, 0, l + r) BY <1>2, <2>1, Grows
  <2> QED BY <2>2 DEF Grown
<1>5. /\ f \in Engines /\ f.low = l * Pow2(k) /\ f.range = r * Pow2(k)
      /\ f.queue = e.queue + k /\ SameBytes(e, f)
  BY <1>1, <1>2, <1>4, ShiftedFields
<1> HIDE DEF f
<1>6. Before(f) /\ Kept(e, f)
  BY <1>1, <1>4, <1>5, ScaledFits
<1>7. Stepped(e, PutByte(f)) /\ PutByte(f).range = f.range
  BY <1>1, <1>2, <1>5, <1>6, PutScaled
<1> QED BY <1>1, <1>3, <1>5, <1>7 DEF Healthy, Stepped, Loose

-----------------------------------------------------------------------------
\* The bins.  A step of the engine, and what the slice may count on after it.
Advanced(e, g) == Stepped(e, g) /\ Healthy(g)

LEMMA HealthyFields ==
    ASSUME NEW e, Healthy(e)
    PROVE  /\ e \in Engines /\ e.low \in Nat /\ e.range \in 256..510
           /\ e.queue \in -9..-1 /\ e.nbins \in Nat
<1>1. e \in Engines /\ e.range \in 256..510 /\ e.queue \in -9..-1
  BY DEF Healthy, Loose
<1> QED BY <1>1, Fields

LEMMA BypassedFits ==
    ASSUME NEW e, Healthy(e), NEW n \in 1..8, NEW v \in 0..255, v < Pow2(n)
    PROVE  Advanced(e, Bypassed(e, n, v))
<1> DEFINE l == e.low * Pow2(n) + v * e.range
           q == e.queue + n
           b == e.nbins + n
           f == [e EXCEPT !.low = l, !.queue = q, !.nbins = b]
<1>1. /\ e \in Engines /\ e.low \in Nat /\ e.range \in 256..510 /\ e.queue \in -9..-1
      /\ e.nbins \in Nat
  BY HealthyFields
<1>2. /\ l \in Nat /\ l + e.range <= (e.low + e.range) * Pow2(n)
  <2> DEFINE el == e.low
             r == e.range
  <2>1. n \in 0..8 /\ el \in Nat /\ r \in Nat /\ v \in Nat /\ el + r \in Nat
        /\ el + r <= el + r
    BY <1>1
  <2> HIDE DEF el, r
  <2>2. Grown(n, el, r, v, el + r) BY <2>1, Grows
  <2> QED BY <2>2 DEF Grown, el, r
<1>3. q \in Int /\ b \in Nat /\ q \in -9..7 BY <1>1
<1>4. Bypassed(e, n, v) = PutByte(f) BY DEF Bypassed
<1> HIDE DEF l, b
<1>5. /\ f \in Engines /\ f.low = l /\ f.range = e.range
      /\ f.queue = q /\ SameBytes(e, f)
  <2> HIDE DEF q
  <2> QED BY <1>1, <1>2, <1>3 DEF Engines, SameBytes
<1> HIDE DEF f
<1>6. Before(f) /\ Kept(e, f)
  <2>1. Loose(e) /\ n \in 0..8 /\ f.range \in 2..510 /\ f.queue = e.queue + n
    BY <1>1, <1>5 DEF Healthy
  <2>2. f.low + f.range <= (e.low + e.range) * Pow2(n) BY <1>2, <1>5
  <2> QED BY <1>5, <2>1, <2>2, ScaledFits
<1>7. Stepped(e, PutByte(f)) /\ PutByte(f).range = f.range
  <2>1. Loose(e) BY DEF Healthy
  <2>2. f.queue \in -9..7 BY <1>3, <1>5
  <2> QED BY <1>5, <1>6, <2>1, <2>2, PutScaled
<1> QED BY <1>1, <1>4, <1>5, <1>7 DEF Advanced, Healthy, Stepped

\* A part of the interval is an interval within it.
LEMMA NarrowedFits ==
    ASSUME NEW e, Loose(e), NEW f \in Engines, SameBytes(e, f),
           f.range \in 2..510, f.queue = e.queue,
           f.low + f.range <= e.low + e.range
    PROVE  Advanced(e, Renorm(f))
<1>1. 0 \in 0..8 /\ f.queue = e.queue + 0 BY DEF Loose
<1>2. f.low + f.range <= (e.low + e.range) * Pow2(0)
  <2>1. e.low + e.range \in Nat BY Fields DEF Loose
  <2>2. (e.low + e.range) * Pow2(0) = e.low + e.range BY <2>1, Powers
  <2> QED BY <2>2
<1>3. Before(f) /\ Kept(e, f) BY <1>1, <1>2, ScaledFits
<1>4. Loose(f) BY <1>3 DEF Loose, Before
<1>5. Stepped(f, Renorm(f)) /\ Healthy(Renorm(f)) BY <1>4, RenormFits
<1> DEFINE g == Renorm(f)
<1> HIDE DEF g
<1>6. Kept(e, g)
  <2>1. e \in Engines /\ g \in Engines BY <1>5 DEF Loose, Stepped, g
  <2>2. e.buf \in Seq(Byte) /\ e.start \in Nat BY <2>1, Fields
  <2>3. f.buf \in Seq(Byte) /\ f.start = e.start BY <2>2 DEF SameBytes
  <2>4. g.buf \in Seq(Byte) BY <2>1, Fields
  <2>5. Kept(f, g) /\ (f.overflow => g.overflow) BY <1>5 DEF Stepped, g
  <2> QED BY <1>3, <2>2, <2>3, <2>4, <2>5, KeptAgain
<1>7. g.start = e.start /\ (e.overflow => g.overflow) /\ Loose(g) /\ Healthy(g)
  BY <1>5 DEF Stepped, SameBytes, g
<1> QED BY <1>6, <1>7 DEF Advanced, Stepped, g

LEMMA NotLastFits ==
    ASSUME NEW e, Healthy(e)
    PROVE  Advanced(e, NotLast(e))
<1> DEFINE r == e.range - 2
           f == [e EXCEPT !.range = r]
<1>1. e \in Engines /\ e.low \in Nat /\ e.range \in 256..510 /\ e.queue \in -9..-1
  BY HealthyFields
<1>2. r \in 2..510 /\ r \in Nat /\ e.low + r <= e.low + e.range BY <1>1
<1>3. NotLast(e) = Renorm(f) BY DEF NotLast
<1> HIDE DEF r
<1>4. /\ f \in Engines /\ f.low = e.low /\ f.range = r
      /\ f.queue = e.queue /\ SameBytes(e, f)
  BY <1>1, <1>2 DEF Engines, SameBytes
<1> HIDE DEF f
<1>5. Loose(e) BY DEF Healthy
<1> QED BY <1>2, <1>3, <1>4, <1>5, NarrowedFits

LEMMA LpsWithin ==
    ASSUME NEW s \in States, NEW r \in 256..510
    PROVE  LET lps == rangeTabLPS[s][(r \div 64) % 4]
           IN  lps \in 2..(r - 2)
<1> DEFINE q == (r \div 64) % 4
<1>1. q \in 0..3 /\ 64 * q + 256 <= r
  <2>1. CASE r \in 256..319 BY <2>1
  <2>2. CASE r \in 320..383 BY <2>2
  <2>3. CASE r \in 384..447 BY <2>3
  <2>4. CASE r \in 448..510 BY <2>4
  <2> QED BY <2>1, <2>2, <2>3, <2>4
<1> HIDE DEF q
<1>2. rangeTabLPS[s][q] \in 2..(64 * q + 254) BY <1>1, TableAssumption, ZenonT(40)
<1>3. rangeTabLPS[s][q] \in 2..(r - 2) BY <1>1, <1>2
<1> QED BY <1>3 DEF q

LEMMA TransStays ==
    ASSUME NEW s \in [state : States, mps : 0..1], NEW bin \in 0..1
    PROVE  Trans(s, bin) \in [state : States, mps : 0..1]
<1>1. transIdxMPS[s.state] \in States /\ transIdxLPS[s.state] \in States
  BY TableAssumption
<1>2. (IF s.state = 0 THEN 1 - s.mps ELSE s.mps) \in 0..1 OBVIOUS
<1> DEFINE m == IF s.state = 0 THEN 1 - s.mps ELSE s.mps
<1> HIDE DEF m
<1>3. CASE bin = s.mps BY <1>1, <1>3 DEF Trans
<1>4. CASE bin # s.mps
  <2>1. Trans(s, bin) = [state |-> transIdxLPS[s.state], mps |-> m]
    BY <1>4 DEF Trans, m
  <2>2. m \in 0..1 BY <1>2 DEF m
  <2> QED BY <1>1, <2>1, <2>2
<1> QED BY <1>3, <1>4

LEMMA DecidedFits ==
    ASSUME NEW e, Healthy(e), NEW i \in Ctx, NEW bin \in 0..1
    PROVE  Advanced(e, Decided(e, i, bin))
<1> DEFINE s == e.ctx[i]
           lps == rangeTabLPS[s.state][(e.range \div 64) % 4]
           mpsR == e.range - lps
           low == e.low + mpsR
           ctx == [e.ctx EXCEPT ![i] = Trans(s, bin)]
           b == e.nbins + 1
           f == [e EXCEPT !.ctx = ctx, !.nbins = b, !.range = mpsR]
           g == [e EXCEPT !.ctx = ctx, !.nbins = b, !.range = lps, !.low = low]
<1>1. /\ e \in Engines /\ e.low \in Nat /\ e.range \in 256..510 /\ e.queue \in -9..-1
      /\ e.nbins \in Nat
  BY HealthyFields
<1>2. s \in [state : States, mps : 0..1]
  <2>1. e.ctx \in [Ctx -> [state : States, mps : 0..1]] BY <1>1, Fields
  <2> QED BY <2>1
<1>3. lps \in 2..(e.range - 2) BY <1>1, <1>2, LpsWithin, ZenonT(40)
<1>4. ctx \in [Ctx -> [state : States, mps : 0..1]]
  <2>1. e.ctx \in [Ctx -> [state : States, mps : 0..1]] BY <1>1, Fields
  <2>2. Trans(s, bin) \in [state : States, mps : 0..1] BY <1>2, TransStays
  <2> QED BY <2>1, <2>2
<1>5. /\ b \in Nat /\ lps \in Nat /\ mpsR \in Nat /\ low \in Nat
      /\ lps \in 2..510 /\ mpsR \in 2..510 /\ e.low + mpsR <= e.low + e.range
      /\ low + lps = e.low + e.range
  <2> DEFINE l == e.low
             r == e.range
  <2>1. l \in Nat /\ r \in 256..510 /\ lps \in 2..(r - 2) /\ e.nbins + 1 \in Nat
    BY <1>1, <1>3
  <2>2. mpsR = r - lps /\ low = l + (r - lps) OBVIOUS
  <2> HIDE DEF lps, mpsR, low, l, r
  <2>3. /\ lps \in Nat /\ mpsR \in Nat /\ low \in Nat /\ lps \in 2..510
        /\ mpsR \in 2..510 /\ l + mpsR <= l + r /\ low + lps = l + r
    BY <2>1, <2>2
  <2> QED BY <2>1, <2>3 DEF l, r
<1>6. Decided(e, i, bin) = IF bin = s.mps THEN Renorm(f) ELSE Renorm(g)
  BY DEF Decided
<1> HIDE DEF s, lps, mpsR, low, ctx, b
<1>7. /\ f \in Engines /\ f.low = e.low /\ f.range = mpsR
      /\ f.queue = e.queue /\ SameBytes(e, f)
  BY <1>1, <1>4, <1>5 DEF Engines, SameBytes
<1>8. /\ g \in Engines /\ g.low = low /\ g.range = lps
      /\ g.queue = e.queue /\ SameBytes(e, g)
  BY <1>1, <1>4, <1>5 DEF Engines, SameBytes
<1> HIDE DEF f, g
<1>9. Loose(e) BY DEF Healthy
<1>10. Advanced(e, Renorm(f)) BY <1>5, <1>7, <1>9, NarrowedFits
<1>11. Advanced(e, Renorm(g)) BY <1>5, <1>8, <1>9, NarrowedFits
<1> QED BY <1>6, <1>10, <1>11

-----------------------------------------------------------------------------
\* A slice's end, and the next one's beginning.
LEMMA SettledFits ==
    ASSUME NEW e, Healthy(e)
    PROVE  /\ Before(Settled(e)) /\ Settled(e).queue \in 1..9
           /\ SameBytes(e, Settled(e)) /\ Settled(e).range = 2
<1> DEFINE base == e.low + (e.range - 2)
           l == (base + 1 - (base % 2)) * 1024
           q == e.queue + 10
           f == [e EXCEPT !.range = 2, !.queue = q, !.low = l]
           j == e.queue + 9
<1>1. /\ e \in Engines /\ e.low \in Nat /\ e.range \in 256..510 /\ e.queue \in -9..-1
  BY HealthyFields
<1>2. base \in Nat /\ base + 2 = e.low + e.range BY <1>1
<1>3. l \in Nat /\ l + 2 <= (e.low + e.range) * 1024
  <2> HIDE DEF base
  <2>1. base % 2 \in 0..1 BY <1>2
  <2>2. l \in Nat /\ l <= (base + 1) * 1024 BY <1>2, <2>1
  <2> QED BY <1>2, <2>2
<1>4. q \in 1..9 /\ q \in Int /\ j \in 0..8 /\ q + 9 = j + 10 BY <1>1
<1>5. Settled(e) = f BY DEF Settled
<1>6. Pow2(j + 10) = 1024 * Pow2(j) /\ Pow2(j) \in Nat
  <2>1. j = 0 \/ j = 1 \/ j = 2 \/ j = 3 \/ j = 4 \/ j = 5 \/ j = 6 \/ j = 7 \/ j = 8
    BY <1>4
  <2> HIDE DEF j
  <2> QED BY <2>1, Powers
<1> HIDE DEF l, q
<1>7. /\ f \in Engines /\ f.low = l /\ f.range = 2 /\ f.queue = q /\ SameBytes(e, f)
  BY <1>1, <1>3, <1>4, ZenonT(40) DEF Engines, SameBytes
<1> HIDE DEF f
<1>8. Within(f)
  <2> DEFINE t == e.low + e.range
             u == f.low + f.range
             m == Pow2(j)
  <2>1. t \in Nat /\ u <= t * 1024 /\ u \in Nat BY <1>1, <1>3, <1>7
  <2>2. Pow2(f.queue + 9) = 1024 * m /\ m \in Nat BY <1>4, <1>6, <1>7
  <2>3. Within(e) BY DEF Healthy, Loose
  <2> HIDE DEF t, u, m
  <2>4. /\ t <= 767 * m => u <= 767 * (1024 * m)
        /\ t <= 510 * m => u <= 510 * (1024 * m)
    BY <2>1, <2>2
  <2> QED BY <1>7, <2>2, <2>3, <2>4 DEF Within, SameBytes, t, u, m
<1> QED BY <1>4, <1>5, <1>7, <1>8 DEF Before

\* f is what e may become, byte by byte.
Towards(e, f) ==
    /\ f \in Engines /\ Kept(e, f) /\ f.start = e.start
    /\ e.overflow => f.overflow

LEMMA TowardsOn ==
    ASSUME NEW e \in Engines, NEW f, Towards(e, f), NEW g, Towards(f, g)
    PROVE  Towards(e, g)
<1>1. e.buf \in Seq(Byte) /\ e.start \in Nat BY Fields
<1>2. f \in Engines /\ g \in Engines BY DEF Towards
<1>3. f.buf \in Seq(Byte) BY <1>2, Fields
<1>4. g.buf \in Seq(Byte) BY <1>2, Fields
<1>5. /\ Kept(e, f) /\ Kept(f, g) /\ f.start = e.start /\ g.start = e.start
      /\ (f.overflow => g.overflow) /\ (e.overflow => g.overflow)
  BY DEF Towards
<1>6. Kept(e, g) BY <1>1, <1>3, <1>4, <1>5, KeptAgain
<1> QED BY <1>2, <1>5, <1>6 DEF Towards

LEMMA TowardsPut ==
    ASSUME NEW e, Before(e)
    PROVE  Towards(e, PutByte(e))
BY PutByteFits DEF After, Towards

LEMMA TowardsSame ==
    ASSUME NEW e \in Engines, NEW f \in Engines, SameBytes(e, f)
    PROVE  Towards(e, f)
<1>1. f.buf = e.buf /\ Len(e.buf) \in Nat BY Fields DEF SameBytes
<1>2. Kept(e, f) BY <1>1 DEF Kept
<1> QED BY <1>2 DEF Towards, SameBytes

LEMMA TowardsMore ==
    ASSUME NEW e \in Engines, NEW x \in Seq(Byte), NEW f \in Engines,
           f.buf = e.buf \o x, f.start = e.start, f.overflow = e.overflow
    PROVE  Towards(e, f)
<1> DEFINE eb == e.buf
           fb == f.buf
<1>1. eb \in Seq(Byte) BY Fields
<1>2. fb = eb \o x OBVIOUS
<1> HIDE DEF eb, fb
<1>3. /\ Len(fb) = Len(eb) + Len(x) /\ Len(eb) \in Nat /\ Len(x) \in Nat
      /\ \A i \in 1..Len(eb) : fb[i] = eb[i]
  <2>1. /\ eb \o x \in Seq(Byte) /\ Len(eb \o x) = Len(eb) + Len(x)
        /\ \A i \in 1..(Len(eb) + Len(x)) :
             (eb \o x)[i] = IF i <= Len(eb) THEN eb[i] ELSE x[i - Len(eb)]
    BY <1>1, ConcatProperties
  <2> QED BY <1>1, <1>2, <2>1
<1>4. Len(eb) = Len(fb) => fb = eb
  <2>1. SUFFICES ASSUME Len(eb) = Len(fb) PROVE fb = eb OBVIOUS
  <2>2. Len(x) = 0 BY <1>3, <2>1
  <2>3. x = <<>> BY <2>2, EmptySeq
  <2> QED BY <1>1, <1>2, <2>3
<1>5. Len(eb) <= Len(fb) BY <1>3
<1>6. Kept(e, f) BY <1>3, <1>4, <1>5 DEF Kept, eb, fb
<1> QED BY <1>6 DEF Towards

LEMMA PaddedFits ==
    ASSUME NEW e, Before(e), e.range = 2, e.queue \in -8..-1
    PROVE  Before(Padded(e)) /\ SameBytes(e, Padded(e))
<1> DEFINE k == -e.queue
           l == e.low * Pow2(k)
           f == [e EXCEPT !.low = l, !.queue = 0]
<1>1. CASE e.queue = -8
  <2>1. ~(e.queue + 8 > 0) BY <1>1
  <2>2. Padded(e) = e BY <2>1 DEF Padded
  <2> QED BY <2>2 DEF SameBytes
<1>2. CASE e.queue # -8
  <2>1. k \in 1..7 /\ e.queue + 8 > 0 /\ e.queue + k = 0 BY <1>2
  <2>2. Padded(e) = f BY <2>1 DEF Padded
  <2>3. e \in Engines /\ e.low \in Nat BY Fields DEF Before
  <2>4. Loose(e) BY <1>2 DEF Before, Loose
  <2> HIDE DEF k
  <2>5. l \in Nat /\ l + 2 <= (e.low + e.range) * Pow2(k)
    <3> DEFINE el == e.low
               r == e.range
    <3>1. k \in 0..8 /\ el \in Nat /\ r = 2 BY <2>1, <2>3
    <3> HIDE DEF el, r
    <3>2. 0 < Pow2(k) BY <3>1, PowerSmall, SMTT(40)
    <3>3. Grown(k, el, r, 0, el + r) BY <3>1, <3>2, Grows
    <3> QED BY <3>1, <3>3 DEF Grown, el, r
  <2> HIDE DEF l
  <2>6. /\ f \in Engines /\ f.low = l /\ f.range = 2 /\ f.queue = 0
        /\ SameBytes(e, f)
    <3>1. e.range = 2 /\ l \in Nat /\ 0 \in Int /\ e \in Engines BY <2>3, <2>5
    <3> HIDE DEF l
    <3>2. f \in Engines BY <3>1 DEF Engines
    <3>3. /\ f.low = l /\ f.range = e.range /\ f.queue = 0 /\ f.buf = e.buf
          /\ f.obytes = e.obytes /\ f.start = e.start /\ f.overflow = e.overflow
      BY <3>1 DEF Engines
    <3> QED BY <3>1, <3>2, <3>3 DEF SameBytes
  <2> HIDE DEF f
  <2>7. f.queue = e.queue + k /\ k \in 0..8 BY <2>1, <2>6
  <2>8. Before(f) BY <2>4, <2>5, <2>6, <2>7, ScaledFits, SMTT(40)
  <2> QED BY <2>2, <2>6, <2>8
<1> QED BY <1>1, <1>2

LEMMA FlushedFits ==
    ASSUME NEW e, Healthy(e)
    PROVE  Towards(e, Flushed(e)) /\ Flushed(e).range = 2
<1> DEFINE s0 == Settled(e)
           s1 == PutByte(s0)
           s2 == PutByte(s1)
           s3 == Padded(s2)
           s4 == PutByte(s3)
           h == HeldBack(s4.obytes, 0)
           buf == s4.buf \o h
           f == [s4 EXCEPT !.buf = buf, !.obytes = 0]
<1>1. e \in Engines BY HealthyFields
<1>2. /\ Before(s0) /\ s0.queue \in 1..9 /\ SameBytes(e, s0) /\ s0.range = 2
  BY SettledFits
<1>3. Flushed(e) = f BY DEF Flushed
<1> HIDE DEF s0
<1>4. After(s0, s1) BY <1>2, PutByteFits
<1> HIDE DEF s1
<1>5. /\ Before(s1) /\ s1.queue = s0.queue - 8 /\ s1.range = 2
  <2>1. s1.queue = s0.queue - 8 /\ s1.queue \in -7..1 BY <1>2, <1>4 DEF After
  <2>2. s1.range = 2 /\ s1 \in Engines /\ Within(s1) BY <1>2, <1>4 DEF After
  <2> QED BY <2>1, <2>2 DEF Before
<1>6. After(s1, s2) BY <1>5, PutByteFits
<1> HIDE DEF s2
<1>7. Before(s2) /\ s2.queue \in -8..-1 /\ s2.range = 2
  <2>1. s1.queue \in -7..1 BY <1>2, <1>5
  <2>2. s2.queue \in -8..-1 BY <1>6, <2>1 DEF After
  <2>3. s2.range = 2 /\ s2 \in Engines /\ Within(s2) BY <1>5, <1>6 DEF After
  <2> QED BY <2>2, <2>3 DEF Before
<1>8. Before(s3) /\ SameBytes(s2, s3) /\ s3.range = 2
  <2>1. Before(s3) /\ SameBytes(s2, s3) BY <1>7, PaddedFits
  <2>2. s3.range = 2 BY <1>7, Fields DEF Padded, Before, Engines
  <2> QED BY <2>1, <2>2
<1> HIDE DEF s3
<1>9. After(s3, s4) /\ s4.range = 2 /\ s4 \in Engines
  BY <1>8, PutByteFits DEF After
<1> HIDE DEF s4
<1>10. h \in Seq(Byte) /\ buf \in Seq(Byte)
  <2>1. s4.obytes \in Nat /\ s4.buf \in Seq(Byte) BY <1>9, Fields
  <2>2. 0 \in 0..1 OBVIOUS
  <2>3. h \in Seq(Byte) BY <2>1, <2>2, HeldBackBytes
  <2> HIDE DEF h
  <2> QED BY <2>1, <2>3
<1> HIDE DEF h
<1>11. /\ f \in Engines /\ f.buf = s4.buf \o h /\ f.start = s4.start
       /\ f.overflow = s4.overflow /\ f.range = 2
  <2>1. 0 \in Nat OBVIOUS
  <2>2. buf = s4.buf \o h OBVIOUS
  <2> HIDE DEF buf
  <2> QED BY <1>9, <1>10, <2>1, <2>2 DEF Engines
<1> HIDE DEF f
<1>12. /\ Towards(e, s0) /\ Towards(s0, s1) /\ Towards(s1, s2) /\ Towards(s2, s3)
       /\ Towards(s3, s4) /\ Towards(s4, f)
  <2>1. s0 \in Engines /\ s2 \in Engines /\ s3 \in Engines
    BY <1>2, <1>7, <1>8 DEF Before
  <2>2. Towards(e, s0) BY <1>1, <1>2, <2>1, TowardsSame
  <2>3. Towards(s0, s1) BY <1>4 DEF After, Towards
  <2>4. Towards(s1, s2) BY <1>6 DEF After, Towards
  <2>5. Towards(s2, s3) BY <1>8, <2>1, TowardsSame
  <2>6. Towards(s3, s4) BY <1>9 DEF After, Towards
  <2>7. Towards(s4, f) BY <1>9, <1>10, <1>11, TowardsMore
  <2> QED BY <2>2, <2>3, <2>4, <2>5, <2>6, <2>7
<1>13. Towards(e, f)
  <2>1. Towards(e, s1) BY <1>1, <1>12, TowardsOn
  <2>2. Towards(e, s2) BY <1>1, <1>12, <2>1, TowardsOn
  <2>3. Towards(e, s3) BY <1>1, <1>12, <2>2, TowardsOn
  <2>4. Towards(e, s4) BY <1>1, <1>12, <2>3, TowardsOn
  <2> QED BY <1>1, <1>12, <2>4, TowardsOn
<1> QED BY <1>3, <1>11, <1>13

LEMMA ZeroWordsCount == ASSUME NEW e \in Engines PROVE ZeroWords(e) \in Nat
<1> DEFINE x == 3 * e.nbins - 32 * (Len(e.buf) - e.start) - RawShare
           len == Len(e.buf)
<1>1. x \in Int /\ len \in Nat /\ RbspCap \in Nat
  <2>1. e.nbins \in Nat /\ len \in Nat /\ e.start \in Nat BY Fields
  <2> HIDE DEF len
  <2>2. 3 * e.nbins - 32 * (len - e.start) - RawShare \in Int
    BY <2>1, SliceAssumption
  <2> QED BY <2>1, <2>2, SliceAssumption DEF len
<1> DEFINE wanted == IF x > 0 THEN (x + 93) \div 96 ELSE 0
           room == IF len > RbspCap THEN 0 ELSE (RbspCap - len) \div 2
<1>2. ZeroWords(e) = IF wanted < room THEN wanted ELSE room BY DEF ZeroWords
<1> HIDE DEF x, len
<1>3. wanted \in Nat
  <2>1. CASE x > 0
    <3>1. x + 93 \in Nat BY <1>1, <2>1
    <3>2. (x + 93) \div 96 \in Nat BY <3>1
    <3> QED BY <2>1, <3>2
  <2>2. CASE ~(x > 0) BY <2>2
  <2> QED BY <2>1, <2>2
<1>4. room \in Nat
  <2>1. CASE len > RbspCap BY <2>1
  <2>2. CASE ~(len > RbspCap)
    <3>1. RbspCap - len \in Nat BY <1>1, <2>2
    <3>2. (RbspCap - len) \div 2 \in Nat BY <3>1
    <3> QED BY <2>2, <3>2
  <2> QED BY <2>1, <2>2
<1> HIDE DEF wanted, room
<1> QED BY <1>2, <1>3, <1>4

LEMMA FinishedFits ==
    ASSUME NEW e, Healthy(e)
    PROVE  Towards(e, Finished(e)) /\ Finished(e).range = 2
<1> DEFINE f == Flushed(e)
           n == 2 * ZeroWords(f)
           x == [i \in 1..n |-> 0]
           buf == f.buf \o x
           g == [f EXCEPT !.buf = buf]
<1>1. e \in Engines BY HealthyFields
<1>2. Towards(e, f) /\ f.range = 2 BY FlushedFits
<1>3. Finished(e) = IF f.overflow THEN f ELSE g BY DEF Finished
<1> HIDE DEF f
<1>4. f \in Engines BY <1>2 DEF Towards
<1>5. n \in Nat BY <1>4, ZeroWordsCount
<1> HIDE DEF n
<1>6. x \in Seq(Byte)
  <2>1. 0 \in Byte BY DEF Byte
  <2> QED BY <1>5, <2>1
<1> HIDE DEF x
<1>7. f.buf \in Seq(Byte) BY <1>4, Fields
<1>8. buf \in Seq(Byte) BY <1>6, <1>7
<1>9. /\ g \in Engines /\ g.buf = f.buf \o x /\ g.start = f.start
      /\ g.overflow = f.overflow /\ g.range = 2
  <2>1. buf = f.buf \o x OBVIOUS
  <2> HIDE DEF buf
  <2> QED BY <1>2, <1>4, <1>8, <2>1 DEF Engines
<1> HIDE DEF g
<1>10. Towards(f, g) BY <1>4, <1>6, <1>9, TowardsMore
<1>11. Towards(e, g) BY <1>1, <1>2, <1>10, TowardsOn
<1> QED BY <1>2, <1>3, <1>9, <1>11

LEMMA InitContextStays ==
    ASSUME NEW m \in Int, NEW n \in Int
    PROVE  InitContext(m, n, SliceQP) \in [state : States, mps : 0..1]
<1> DEFINE sum == ((m * SliceQP) \div 16) + n
           pre == IF sum < 1 THEN 1 ELSE IF sum > 126 THEN 126 ELSE sum
<1>1. sum \in Int
  <2> DEFINE mq == m * SliceQP
  <2>1. mq \in Int BY SliceAssumption
  <2> HIDE DEF mq
  <2> DEFINE d == mq \div 16
  <2>2. d \in Int BY <2>1
  <2>3. sum = d + n BY DEF mq
  <2> HIDE DEF d, sum
  <2> QED BY <2>2, <2>3
<1>2. InitContext(m, n, SliceQP) = IF pre <= 63 THEN [state |-> 63 - pre, mps |-> 0]
                                           ELSE [state |-> pre - 64, mps |-> 1]
  BY DEF InitContext
<1> HIDE DEF sum
<1>3. pre \in 1..126 BY <1>1
<1> HIDE DEF pre
<1>4. pre <= 63 => 63 - pre \in States BY <1>3 DEF States
<1>5. ~(pre <= 63) => pre - 64 \in States BY <1>3 DEF States
<1> QED BY <1>2, <1>4, <1>5

LEMMA EngineFits ==
    ASSUME NEW buf \in Seq(Byte)
    PROVE  Healthy(Engine(buf)) /\ ~Engine(buf).overflow /\ Engine(buf).buf = buf
<1> DEFINE n == Len(buf)
           ctx == [i \in Ctx |-> InitContext(CtxInit[i][1], CtxInit[i][2], SliceQP)]
           e == [low |-> 0, range |-> 510, queue |-> -9, obytes |-> 0, buf |-> buf,
                 start |-> n, overflow |-> FALSE, nbins |-> 0, ctx |-> ctx]
<1>1. ctx \in [Ctx -> [state : States, mps : 0..1]]
  <2>1. \A i \in Ctx : CtxInit[i][1] \in Int /\ CtxInit[i][2] \in Int
    BY SliceAssumption
  <2> QED BY <2>1, InitContextStays
<1>2. Engine(buf) = e BY DEF Engine
<1>3. n \in Nat OBVIOUS
<1> HIDE DEF ctx
<1>4. /\ e.low = 0 /\ e.range = 510 /\ e.queue = -9 /\ e.obytes = 0 /\ e.buf = buf
      /\ e.start = Len(buf) /\ e.overflow = FALSE
  OBVIOUS
<1>5. e \in Engines
  <2> HIDE DEF n
  <2> QED BY <1>1, <1>3 DEF Engines
<1> HIDE DEF e
<1>6. Within(e)
  <2>1. Pow2(e.queue + 9) = 1 BY <1>4, Powers
  <2> QED BY <1>4, <2>1 DEF Within
<1>7. Loose(e) BY <1>4, <1>5, <1>6 DEF Loose
<1> QED BY <1>2, <1>4, <1>7 DEF Healthy

LEMMA ReopenedFits ==
    ASSUME NEW e \in Engines, NEW h \in Headers
    PROVE  Healthy(Reopened(e, h)) /\ Kept(e, Reopened(e, h))
<1> DEFINE eb == e.buf
           buf == IF Len(eb) < RbspCap THEN Append(eb, h) ELSE eb
           f == Engine(buf)
<1>1. eb \in Seq(Byte) BY Fields
<1>2. h \in Byte BY SliceAssumption DEF Byte
<1>3. Reopened(e, h) = f BY DEF Reopened
<1> HIDE DEF eb
<1>4. /\ buf \in Seq(Byte) /\ Len(eb) <= Len(buf) /\ (Len(eb) = Len(buf) => buf = eb)
      /\ \A i \in 1..Len(eb) : buf[i] = eb[i]
  <2>1. CASE Len(eb) < RbspCap
    <3>1. buf = Append(eb, h) BY <2>1
    <3> HIDE DEF buf
    <3> QED BY <1>1, <1>2, <3>1
  <2>2. CASE ~(Len(eb) < RbspCap)
    <3>1. buf = eb BY <2>2
    <3> HIDE DEF buf
    <3> QED BY <1>1, <3>1
  <2> QED BY <2>1, <2>2
<1> HIDE DEF buf
<1>5. Healthy(f) /\ f.buf = buf BY <1>4, EngineFits
<1>6. Kept(e, f) BY <1>4, <1>5 DEF Kept, eb
<1> QED BY <1>3, <1>5, <1>6

-----------------------------------------------------------------------------
\* The inductive invariant: between two slices an engine, in a slice one whose
\* interval leaves room for one carry.
EngineInv == c \in Engines /\ (Coding => Healthy(c))

LEMMA EngineStarts == EngineInit => EngineInv
<1>1. SUFFICES ASSUME NEW h \in Headers, c = Engine(<<h>>) PROVE EngineInv
  BY DEF EngineInit
<1>2. <<h>> \in Seq(Byte) BY SliceAssumption DEF Byte
<1>3. Healthy(c) BY <1>1, <1>2, EngineFits
<1> QED BY <1>3, HealthyFields DEF EngineInv

\* Every step of the engine keeps the invariant and the bytes.
LEMMA EngineSteps ==
    ASSUME EngineInv, [EngineNext]_c
    PROVE  EngineInv' /\ Kept(c, c')
<1> USE DEF EngineInv
<1>1. ASSUME NEW g, Advanced(c, g), c' = g PROVE EngineInv' /\ Kept(c, c')
  <2>1. Healthy(c') /\ Kept(c, c') BY <1>1 DEF Advanced, Stepped
  <2>2. c' \in Engines BY <2>1 DEF Healthy, Loose
  <2> QED BY <2>1, <2>2
<1>2. ASSUME NEW i \in Ctx, NEW bin \in 0..1, Decision(i, bin)
      PROVE  EngineInv' /\ Kept(c, c')
  BY <1>1, <1>2, DecidedFits DEF Decision
<1>3. ASSUME NEW n \in 1..8, NEW v \in 0..255, Bypass(n, v)
      PROVE  EngineInv' /\ Kept(c, c')
  BY <1>1, <1>3, BypassedFits DEF Bypass
<1>4. CASE TerminateBin
  BY <1>1, <1>4, NotLastFits DEF TerminateBin
<1>5. CASE Finish
  <2>1. Towards(c, c') /\ c'.range = 2 BY <1>5, FinishedFits DEF Finish
  <2> QED BY <2>1 DEF Towards, Coding
<1>6. ASSUME NEW h \in Headers, Reopen(h)
      PROVE  EngineInv' /\ Kept(c, c')
  <2>1. Healthy(c') /\ Kept(c, c') BY <1>6, ReopenedFits DEF Reopen
  <2>2. c' \in Engines BY <2>1 DEF Healthy, Loose
  <2> QED BY <2>1, <2>2
<1>7. CASE UNCHANGED c
  <2>1. Kept(c, c) BY Fields DEF Kept
  <2>2. c' = c BY <1>7
  <2> QED BY <2>1, <2>2 DEF Coding
<1> QED BY <1>2, <1>3, <1>4, <1>5, <1>6, <1>7 DEF EngineNext

\* In every behaviour of the engine the interval leaves room for the one carry
\* E_PUTBYTE passes on (cabac.c:442): no byte it lands in is 255, and none is a
\* header's.
THEOREM EngineCarryFits == EngineSpec => []CarryFits
<1>1. EngineInv => CarryFits
  <2>1. SUFFICES ASSUME EngineInv, Coding PROVE CarryFits BY DEF CarryFits
  <2>2. Within(c) BY <2>1 DEF EngineInv, Healthy, Loose
  <2>3. /\ c.range \in 256..510 /\ c.queue \in -9..-1 /\ c.low \in Nat
        /\ c.low >= 0
    BY <2>1, HealthyFields DEF EngineInv, Healthy, Loose
  <2> QED BY <2>2, <2>3 DEF CarryFits, Within, Fresh
<1> QED BY <1>1, EngineStarts, EngineSteps, PTL DEF EngineSpec

\* In every behaviour of the engine the bytes already in the buffer stay, but
\* for one carry into the last.
THEOREM EngineWrittenStays == EngineSpec => WrittenStays
<1>1. EngineInv /\ [EngineNext]_c =>
        [c'.overflow \/
           /\ Len(c.buf) <= Len(c'.buf)
           /\ \A i \in 1..Len(c.buf) :
                \/ c'.buf[i] = c.buf[i]
                \/ /\ i = Len(c.buf) /\ i > c.start
                   /\ c.buf[i] < 255 /\ c'.buf[i] = c.buf[i] + 1]_c
  BY EngineSteps DEF Kept
<1> QED BY <1>1, EngineStarts, EngineSteps, PTL DEF EngineSpec, WrittenStays

-----------------------------------------------------------------------------
(* The window.                                                               *)

\* stair_plan_nrefb over every run.
LEMMA NRefBTable ==
    NRefB = [n \in 0 .. 7 |-> IF n < 2 THEN 0 ELSE IF n < 4 THEN 1 ELSE IF n = 4 THEN 2 ELSE 3]
PROOF
<1> DEFINE t == [n \in 0 .. 7 |-> IF n < 2 THEN 0 ELSE IF n < 4 THEN 1 ELSE IF n = 4 THEN 2 ELSE 3]
           R(f) == [n \in 0 .. 7 |-> IF n < 2 THEN 0 ELSE 1 + f[n \div 2] + f[n - 1 - (n \div 2)]]
<1>1. ASSUME NEW f, f = R(f) PROVE f = t
  <2>0. /\ 2 \div 2 = 1 /\ 3 \div 2 = 1 /\ 4 \div 2 = 2 /\ 5 \div 2 = 2
        /\ 6 \div 2 = 3 /\ 7 \div 2 = 3
    BY SMT
  <2>1. \A n \in 0 .. 7 :
          f[n] = IF n < 2 THEN 0 ELSE 1 + f[n \div 2] + f[n - 1 - (n \div 2)]
    BY <1>1
  <2>2. f[0] = 0 /\ f[1] = 0
    BY <2>1
  <2>3. f[2] = 1
    BY <2>0, <2>1, <2>2
  <2>4. f[3] = 1
    BY <2>0, <2>1, <2>2
  <2>5. f[4] = 2
    BY <2>0, <2>1, <2>2, <2>3
  <2>6. f[5] = 3
    BY <2>0, <2>1, <2>3
  <2>7. f[6] = 3
    BY <2>0, <2>1, <2>3, <2>4
  <2>8. f[7] = 3
    BY <2>0, <2>1, <2>4
  <2>9. f = [n \in 0 .. 7 |-> f[n]]
    BY <1>1
  <2>10. \A n \in 0 .. 7 : f[n] = t[n]
    BY <2>2, <2>3, <2>4, <2>5, <2>6, <2>7, <2>8
  <2> QED BY <2>9, <2>10
<1>2. t = R(t)
  <2>1. \A n \in 0 .. 7 : t[n] = R(t)[n]
    <3>1. \A n \in 0 .. 7 : n >= 2 => n \div 2 \in 0 .. 7 /\ n - 1 - (n \div 2) \in 0 .. 7
      BY SMT
    <3>2. /\ 2 \div 2 = 1 /\ 3 \div 2 = 1 /\ 4 \div 2 = 2 /\ 5 \div 2 = 2
          /\ 6 \div 2 = 3 /\ 7 \div 2 = 3
      BY SMT
    <3> QED BY <3>1, <3>2
  <2> QED BY <2>1
<1>3. NRefB = CHOOSE f : f = R(f)
  BY DEF NRefB
<1>4. NRefB = R(NRefB)
  BY <1>2, <1>3
<1> QED BY <1>1, <1>4

\* What is marked of a run, and the halves of a node.
LEMMA MarkedOffsets ==
    ASSUME NEW n \in 0 .. 7
    PROVE  /\ NRefB[n] \in 0 .. n /\ IsFiniteSet(Mids[n]) /\ Cardinality(Mids[n]) = NRefB[n]
           /\ \A k \in n .. 7 : NRefB[n] <= NRefB[k]
PROOF
<1>1. /\ NRefB[n] \in 0 .. n
      /\ \A k \in n .. 7 : NRefB[n] <= NRefB[k]
  BY NRefBTable
<1>0. IsFiniteSet({}) /\ Cardinality({}) = 0
  BY FS_EmptySet
<1>2. IsFiniteSet({1}) /\ Cardinality({1}) = 1
  BY FS_Singleton
<1>3. IsFiniteSet({1, 2}) /\ Cardinality({1, 2}) = 2
  BY <1>2, FS_AddElement, {1, 2} = {1} \cup {2}
<1>4. IsFiniteSet({1, 3}) /\ Cardinality({1, 3}) = 2
  BY <1>2, FS_AddElement, {1, 3} = {1} \cup {3}
<1>5. IsFiniteSet({1, 2, 4}) /\ Cardinality({1, 2, 4}) = 3
  BY <1>3, FS_AddElement, {1, 2, 4} = {1, 2} \cup {4}
<1>6. IsFiniteSet({1, 3, 5}) /\ Cardinality({1, 3, 5}) = 3
  BY <1>4, FS_AddElement, {1, 3, 5} = {1, 3} \cup {5}
<1>7. IsFiniteSet(Mids[n]) /\ Cardinality(Mids[n]) = NRefB[n]
  BY <1>0, <1>2, <1>3, <1>5, <1>6, NRefBTable DEF Mids
<1> QED BY <1>1, <1>7

\* The two halves of a node are nodes, and a node of more than one picture marks its middle (code_b_hier).
LEMMA SpanHalves ==
    ASSUME NEW n \in 0 .. 7, NEW a \in Nat, NEW b \in Nat, NEW m \in Nat,
           <<a, b>> \in Spans[n], m = (a + b) \div 2
    PROVE  /\ a <= m /\ m < b /\ b <= n
           /\ a < m => <<a, m>> \in Spans[n]
           /\ m + 1 < b => <<m + 1, b>> \in Spans[n]
           /\ b - a > 1 => m \in Mids[n]
PROOF
<1>0. n \in {0, 1, 2, 3, 4, 5, 6, 7}
  BY SMT
<1>1. CASE n = 0
  <2>1. Spans[n] = {} /\ Mids[n] = {}
    BY <1>1 DEF Spans, Mids
  <2> QED BY <2>1
<1>2. CASE n = 1
  <2>1. Spans[n] = {<<0, 1>>} /\ Mids[n] = {}
    BY <1>2 DEF Spans, Mids
  <2>2. \/ a = 0 /\ b = 1
    BY <2>1
  <2>3. \/ a = 0 /\ b = 1 /\ m = 0
    BY <2>2, SMT
  <2> QED BY <1>2, <2>1, <2>3
<1>3. CASE n = 2
  <2>1. Spans[n] = {<<0, 2>>, <<0, 1>>} /\ Mids[n] = {1}
    BY <1>3 DEF Spans, Mids
  <2>2. \/ a = 0 /\ b = 2
        \/ a = 0 /\ b = 1
    BY <2>1
  <2>3. \/ a = 0 /\ b = 2 /\ m = 1
        \/ a = 0 /\ b = 1 /\ m = 0
    BY <2>2, SMT
  <2> QED BY <1>3, <2>1, <2>3
<1>4. CASE n = 3
  <2>1. Spans[n] = {<<0, 3>>, <<0, 1>>, <<2, 3>>} /\ Mids[n] = {1}
    BY <1>4 DEF Spans, Mids
  <2>2. \/ a = 0 /\ b = 3
        \/ a = 0 /\ b = 1
        \/ a = 2 /\ b = 3
    BY <2>1
  <2>3. \/ a = 0 /\ b = 3 /\ m = 1
        \/ a = 0 /\ b = 1 /\ m = 0
        \/ a = 2 /\ b = 3 /\ m = 2
    BY <2>2, SMT
  <2> QED BY <1>4, <2>1, <2>3
<1>5. CASE n = 4
  <2>1. Spans[n] = {<<0, 4>>, <<0, 2>>, <<3, 4>>, <<0, 1>>} /\ Mids[n] = {1, 2}
    BY <1>5 DEF Spans, Mids
  <2>2. \/ a = 0 /\ b = 4
        \/ a = 0 /\ b = 2
        \/ a = 3 /\ b = 4
        \/ a = 0 /\ b = 1
    BY <2>1
  <2>3. \/ a = 0 /\ b = 4 /\ m = 2
        \/ a = 0 /\ b = 2 /\ m = 1
        \/ a = 3 /\ b = 4 /\ m = 3
        \/ a = 0 /\ b = 1 /\ m = 0
    BY <2>2, SMT
  <2> QED BY <1>5, <2>1, <2>3
<1>6. CASE n = 5
  <2>1. Spans[n] = {<<0, 5>>, <<0, 2>>, <<3, 5>>, <<0, 1>>, <<3, 4>>} /\ Mids[n] = {1, 2, 4}
    BY <1>6 DEF Spans, Mids
  <2>2. \/ a = 0 /\ b = 5
        \/ a = 0 /\ b = 2
        \/ a = 3 /\ b = 5
        \/ a = 0 /\ b = 1
        \/ a = 3 /\ b = 4
    BY <2>1
  <2>3. \/ a = 0 /\ b = 5 /\ m = 2
        \/ a = 0 /\ b = 2 /\ m = 1
        \/ a = 3 /\ b = 5 /\ m = 4
        \/ a = 0 /\ b = 1 /\ m = 0
        \/ a = 3 /\ b = 4 /\ m = 3
    BY <2>2, SMT
  <2> QED BY <1>6, <2>1, <2>3
<1>7. CASE n = 6
  <2>1. Spans[n] = {<<0, 6>>, <<0, 3>>, <<4, 6>>, <<0, 1>>, <<2, 3>>, <<4, 5>>} /\ Mids[n] = {1, 3, 5}
    BY <1>7 DEF Spans, Mids
  <2>2. \/ a = 0 /\ b = 6
        \/ a = 0 /\ b = 3
        \/ a = 4 /\ b = 6
        \/ a = 0 /\ b = 1
        \/ a = 2 /\ b = 3
        \/ a = 4 /\ b = 5
    BY <2>1
  <2>3. \/ a = 0 /\ b = 6 /\ m = 3
        \/ a = 0 /\ b = 3 /\ m = 1
        \/ a = 4 /\ b = 6 /\ m = 5
        \/ a = 0 /\ b = 1 /\ m = 0
        \/ a = 2 /\ b = 3 /\ m = 2
        \/ a = 4 /\ b = 5 /\ m = 4
    BY <2>2, SMT
  <2> QED BY <1>7, <2>1, <2>3
<1>8. CASE n = 7
  <2>1. Spans[n] = {<<0, 7>>, <<0, 3>>, <<4, 7>>, <<0, 1>>, <<2, 3>>, <<4, 5>>, <<6, 7>>} /\ Mids[n] = {1, 3, 5}
    BY <1>8 DEF Spans, Mids
  <2>2. \/ a = 0 /\ b = 7
        \/ a = 0 /\ b = 3
        \/ a = 4 /\ b = 7
        \/ a = 0 /\ b = 1
        \/ a = 2 /\ b = 3
        \/ a = 4 /\ b = 5
        \/ a = 6 /\ b = 7
    BY <2>1
  <2>3. \/ a = 0 /\ b = 7 /\ m = 3
        \/ a = 0 /\ b = 3 /\ m = 1
        \/ a = 4 /\ b = 7 /\ m = 5
        \/ a = 0 /\ b = 1 /\ m = 0
        \/ a = 2 /\ b = 3 /\ m = 2
        \/ a = 4 /\ b = 5 /\ m = 4
        \/ a = 6 /\ b = 7 /\ m = 6
    BY <2>2, SMT
  <2> QED BY <1>8, <2>1, <2>3
<1> QED BY <1>0, <1>1, <1>2, <1>3, <1>4, <1>5, <1>6, <1>7, <1>8

\* What SpanHalves says of a node that is cut at m.
CutAt(n, a, b, m) ==
    /\ a < m => <<a, m>> \in Spans[n]
    /\ m + 1 < b => <<m + 1, b>> \in Spans[n]
    /\ b - a > 1 => m \in Mids[n]

\* And the middle that code_b_hier takes cuts it so.
LEMMA SpanMiddle ==
    ASSUME NEW n \in 0 .. 7, NEW a \in Nat, NEW b \in Nat, <<a, b>> \in Spans[n]
    PROVE  CutAt(n, a, b, (a + b) \div 2)
PROOF
<1> DEFINE m == (a + b) \div 2
<1>1. m \in Nat
  OBVIOUS
<1>2. m = (a + b) \div 2
  OBVIOUS
<1> HIDE DEF m
<1>3. CutAt(n, a, b, m)
  BY <1>1, <1>2, SpanHalves, SMT DEF CutAt
<1> QED BY <1>2, <1>3

\* The window against the ring, the anchors and the marked pictures of a run.
LEMMA WindowFits ==
    ASSUME NEW k \in Configs
    PROVE  /\ Window(k) \in Nat /\ 1 <= Window(k) /\ Window(k) < MaxFn
           /\ NRef(k) \in Nat /\ 1 <= NRef(k)
           /\ k.fields => 2 <= Window(k)
           /\ ~k.pyramid => NRef(k) + (IF k.bframes > 0 THEN 1 ELSE 0)
                                    + (IF k.fields THEN 1 ELSE 0) <= Window(k)
           /\ k.pyramid => \A n \in 0 .. k.bframes : NRefB[n] + 2 <= Window(k)
           /\ k.bframes \in 0 .. 7
PROOF
<1>1. ConfOK(k)
  BY ConfigsAssumption
<1>2. NRefB[k.bframes] \in 0 .. k.bframes /\ \A n \in 0 .. k.bframes : NRefB[n] <= NRefB[k.bframes] /\ NRefB[n] \in 0 .. k.bframes
  BY <1>1, NRefBTable DEF ConfOK
<1>3. BRefs(k) \in 0 .. k.bframes /\ (k.pyramid => BRefs(k) >= NRefB[k.bframes])
  BY <1>1, <1>2 DEF ConfOK, BRefs
<1>4. MaxFn \in Nat /\ Window(k) < MaxFn
  BY MaxFnAssumption DEF Window
<1>5. k.ref \in 1 .. 16 /\ k.cap \in 1 .. 15 /\ k.cap >= k.bframes + 2 /\ k.bframes \in 0 .. 7
  BY <1>1 DEF ConfOK
<1>6. PICK br, bf, fd \in Nat : /\ br = BRefs(k) /\ bf = (IF k.bframes > 0 THEN 1 ELSE 0)
                              /\ fd = (IF k.fields THEN 1 ELSE 0)
  BY <1>3, <1>5
<1> DEFINE nd == k.ref + bf + br + fd
<1>7. Needed(k) = nd /\ nd \in Nat
  BY <1>5, <1>6 DEF Needed
<1> HIDE DEF nd
<1>8. Over(k) = (IF nd > k.cap THEN nd - k.cap ELSE 0)
  BY <1>7, Zenon DEF Over
<1>9. Window(k) = (IF nd > k.cap THEN k.cap ELSE nd)
  <2>1. Window(k) = nd - (IF nd > k.cap THEN nd - k.cap ELSE 0)
    BY <1>7, <1>8, Zenon DEF Window
  <2> QED BY <1>5, <1>7, <2>1
<1>10. /\ Window(k) \in Nat /\ 1 <= Window(k)
       /\ k.fields => 2 <= Window(k)
  BY <1>5, <1>6, <1>9 DEF nd
<1>11. NRef(k) \in Nat /\ 1 <= NRef(k)
  <2>1. Over(k) \in Nat
    BY <1>5, <1>7, <1>8
  <2> QED BY <1>5, <2>1 DEF NRef
<1>12. ASSUME ~k.pyramid PROVE NRef(k) + bf + fd <= Window(k)
  <2>1. br = 0
    BY <1>6, <1>12 DEF BRefs
  <2>2. k.cap >= 1 + bf + fd
    BY <1>5, <1>6
  <2>3. NRef(k) = (IF Over(k) = 0 THEN k.ref ELSE IF k.ref > Over(k) THEN k.ref - Over(k) ELSE 1)
    BY <1>12 DEF NRef
  <2>4. CASE nd > k.cap
    <3>1. Over(k) = nd - k.cap /\ Window(k) = k.cap
      BY <1>8, <1>9, <2>4
    <3>2. k.ref - (nd - k.cap) = k.cap - bf - fd
      BY <1>5, <1>6, <2>1 DEF nd
    <3>3. NRef(k) <= k.cap - bf - fd
      <4>1. NRef(k) = (IF k.ref > nd - k.cap THEN k.cap - bf - fd ELSE 1)
        BY <1>5, <1>7, <2>3, <2>4, <3>1, <3>2
      <4> QED BY <1>5, <1>6, <2>2, <4>1
    <3> QED BY <1>5, <1>6, <1>11, <3>1, <3>3
  <2>5. CASE ~(nd > k.cap)
    <3>1. NRef(k) = k.ref /\ Window(k) = nd
      BY <1>8, <1>9, <2>3, <2>5
    <3> QED BY <1>5, <1>6, <2>1, <3>1 DEF nd
  <2> QED BY <2>4, <2>5
<1>13. ASSUME k.pyramid, NEW n \in 0 .. k.bframes PROVE NRefB[n] + 2 <= Window(k)
  <2>1. bf = 1 /\ br >= NRefB[n] /\ NRefB[n] <= k.bframes /\ NRefB[n] \in Nat
    BY <1>1, <1>2, <1>3, <1>5, <1>6, <1>13 DEF ConfOK
  <2> QED BY <1>5, <1>6, <1>9, <2>1 DEF nd
<1>14. ~k.pyramid => NRef(k) + (IF k.bframes > 0 THEN 1 ELSE 0)
                             + (IF k.fields THEN 1 ELSE 0) <= Window(k)
  BY <1>6, <1>12
<1> QED BY <1>4, <1>5, <1>10, <1>11, <1>13, <1>14

-----------------------------------------------------------------------------
(* Frame numbers.                                                            *)

\* One reference later every entry is one older, and the newest is one old.
LEMMA AgeStep ==
    ASSUME NEW fn \in Numbers, NEW now \in Numbers
    PROVE  /\ Age(fn, now) \in 1 .. MaxFn
           /\ (now + 1) % MaxFn \in Numbers
           /\ Age(fn, now) < MaxFn => Age(fn, (now + 1) % MaxFn) = Age(fn, now) + 1
           /\ Age(now, (now + 1) % MaxFn) = 1
PROOF
<1>1. MaxFn \in Nat /\ MaxFn >= 1 /\ fn \in Nat /\ now \in Nat /\ fn < MaxFn /\ now < MaxFn
  BY MaxFnAssumption DEF Numbers
<1>2. CASE now + 1 < MaxFn
  <2>1. (now + 1) % MaxFn = now + 1
    BY <1>1, <1>2
  <2> QED BY <1>1, <1>2, <2>1 DEF Numbers, Age
<1>3. CASE now + 1 = MaxFn
  <2>1. (now + 1) % MaxFn = 0
    BY <1>1, <1>3
  <2> QED BY <1>1, <1>3, <2>1 DEF Numbers, Age
<1> QED BY <1>1, <1>2, <1>3

\* FrameNumWrap counts ages down, from a reference and from what follows one.
LEMMA AgeWrap ==
    ASSUME NEW fn \in Numbers, NEW now \in Numbers, NEW last \in Numbers
    PROVE  /\ FrameNumWrap(fn, last) \in Int
           /\ Age(fn, now) < MaxFn => FrameNumWrap(fn, now) = now - Age(fn, now)
           /\ now = (last + 1) % MaxFn =>
                FrameNumWrap(fn, last) = last + 1 - Age(fn, now)
           /\ -((last - fn + MaxFn) % MaxFn) = FrameNumWrap(fn, last) - last
PROOF
<1>1. /\ MaxFn \in Nat /\ MaxFn >= 1 /\ fn \in Nat /\ now \in Nat /\ last \in Nat
      /\ fn < MaxFn /\ now < MaxFn /\ last < MaxFn
  BY MaxFnAssumption DEF Numbers
<1>2. FrameNumWrap(fn, last) = IF fn > last THEN fn - MaxFn ELSE fn
  BY Zenon DEF FrameNumWrap
<1>3. Age(fn, now) < MaxFn => FrameNumWrap(fn, now) = now - Age(fn, now)
  BY <1>1 DEF FrameNumWrap, Age
<1>4. ASSUME now = (last + 1) % MaxFn
      PROVE  FrameNumWrap(fn, last) = last + 1 - Age(fn, now)
  <2>1. CASE last + 1 < MaxFn
    <3>1. now = last + 1
      BY <1>1, <1>4, <2>1
    <3> QED BY <1>1, <1>2, <3>1 DEF Age
  <2>2. CASE last + 1 = MaxFn
    <3>1. now = 0
      BY <1>1, <1>4, <2>2
    <3> QED BY <1>1, <1>2, <2>2, <3>1 DEF Age
  <2> QED BY <1>1, <2>1, <2>2
<1>5. (last - fn + MaxFn) % MaxFn = IF fn > last THEN last - fn + MaxFn ELSE last - fn
  <2>1. CASE fn > last
    BY <1>1, <2>1
  <2>2. CASE fn <= last
    <3>1. last - fn \in 0 .. MaxFn - 1 /\ last - fn + MaxFn = MaxFn + (last - fn)
      BY <1>1, <2>2
    <3>2. \A x \in 0 .. MaxFn - 1 : (MaxFn + x) % MaxFn = x
      BY <1>1
    <3> QED BY <1>1, <2>2, <3>1, <3>2
  <2> QED BY <1>1, <2>1, <2>2
<1> QED BY <1>1, <1>2, <1>3, <1>4, <1>5

\* The window slid: what is older than w - 1 references goes.
SlideTo(S, now, w) == {r \in S : Age(r.fn, now) <= w - 1}

\* The sliding window drops the oldest entry of a full buffer, and keeps it numbered (8.2.5.3).
LEMMA SlideIsSlideTo ==
    ASSUME NEW now \in Numbers, NEW S, Numbered(S, now),
           NEW w \in Nat, 1 <= w, w < MaxFn, Cardinality(S) <= w
    PROVE  /\ SlideTo(S, now, w) =
                IF Cardinality(S) < w THEN S
                ELSE S \ {CHOOSE r \in S : \A q \in S : FrameNumWrap(r.fn, now) <= FrameNumWrap(q.fn, now)}
           /\ Numbered(SlideTo(S, now, w), now)
           /\ Cardinality(SlideTo(S, now, w)) <= w - 1
PROOF
<1>1. /\ IsFiniteSet(S) /\ Cardinality(S) \in Nat
      /\ \A r \in S : r.fn \in Numbers /\ Age(r.fn, now) \in 1 .. Cardinality(S)
      /\ \A a \in 1 .. Cardinality(S) : \E r \in S : Age(r.fn, now) = a
      /\ \A r, q \in S : r.fn = q.fn => r = q
      /\ MaxFn \in Nat
  BY FS_CardinalityType, MaxFnAssumption DEF Numbered, Entries
<1>2. CASE Cardinality(S) < w
  <2>1. SlideTo(S, now, w) = S
    BY <1>1, <1>2 DEF SlideTo
  <2> QED BY <1>1, <1>2, <2>1
<1>3. CASE Cardinality(S) = w
  <2>1. \A r \in S : /\ FrameNumWrap(r.fn, now) = now - Age(r.fn, now)
                     /\ now \in Nat
    BY <1>1, <1>3, AgeWrap DEF Numbers
  <2>2. PICK v \in S : Age(v.fn, now) = w
    BY <1>1, <1>3
  <2>3. \A r \in S : Age(r.fn, now) = w => r = v
    <3>1. \A r \in S : Age(r.fn, now) = Age(v.fn, now) => r.fn = v.fn
      BY <1>1, <2>2 DEF Age, Numbers
    <3> QED BY <1>1, <2>2, <3>1
  <2>4. \A r \in S : (\A q \in S : FrameNumWrap(r.fn, now) <= FrameNumWrap(q.fn, now)) <=> r = v
    <3>1. \A q \in S : FrameNumWrap(v.fn, now) <= FrameNumWrap(q.fn, now)
      BY <1>1, <1>3, <2>1, <2>2
    <3>2. ASSUME NEW r \in S, \A q \in S : FrameNumWrap(r.fn, now) <= FrameNumWrap(q.fn, now)
          PROVE  r = v
      <4>1. now - Age(r.fn, now) <= now - w
        BY <2>1, <2>2, <3>2
      <4>2. Age(r.fn, now) = w
        BY <1>1, <1>3, <2>1, <4>1
      <4> QED BY <2>3, <4>2
    <3> QED BY <3>1, <3>2
  <2>5. (CHOOSE r \in S : \A q \in S : FrameNumWrap(r.fn, now) <= FrameNumWrap(q.fn, now)) = v
    BY <2>4
  <2>6. SlideTo(S, now, w) = S \ {v}
    BY <1>1, <1>3, <2>2, <2>3 DEF SlideTo
  <2>7. IsFiniteSet(S \ {v}) /\ Cardinality(S \ {v}) = w - 1
    BY <1>1, <1>3, FS_RemoveElement
  <2>8. Numbered(S \ {v}, now)
    <3>1. \A r \in S \ {v} : Age(r.fn, now) \in 1 .. w - 1
      BY <1>1, <1>3, <2>3
    <3>2. \A a \in 1 .. w - 1 : \E r \in S \ {v} : Age(r.fn, now) = a
      BY <1>1, <1>3, <2>2
    <3> QED BY <2>7, <3>1, <3>2 DEF Numbered
  <2>9. ~(Cardinality(S) < w)
    BY <1>3
  <2>10. SlideTo(S, now, w) =
           IF Cardinality(S) < w THEN S
           ELSE S \ {CHOOSE r \in S : \A q \in S : FrameNumWrap(r.fn, now) <= FrameNumWrap(q.fn, now)}
    BY <2>5, <2>6, <2>9, Zenon
  <2>11. Numbered(SlideTo(S, now, w), now)
    BY <2>6, <2>8, Zenon
  <2>12. Cardinality(SlideTo(S, now, w)) = w - 1
    BY <2>6, <2>7, Zenon
  <2> QED BY <2>10, <2>11, <2>12
<1> QED BY <1>1, <1>2, <1>3

\* A reference stored.
LEMMA StoreNumbered ==
    ASSUME NEW now \in Numbers, NEW S, Numbered(S, now), Cardinality(S) + 1 < MaxFn,
           NEW d \in Nat, \A r \in S : r.disp # d
    PROVE  LET x == [disp |-> d, fn |-> now]
               T == S \cup {x}
               next == (now + 1) % MaxFn
           IN /\ x \in Entries /\ x \notin S
              /\ Numbered(T, next) /\ Cardinality(T) = Cardinality(S) + 1
              /\ Age(x.fn, next) = 1
              /\ \A r \in S : Age(r.fn, next) = Age(r.fn, now) + 1
PROOF
<1> DEFINE x == [disp |-> d, fn |-> now]
           T == S \cup {x}
           next == (now + 1) % MaxFn
<1>1. /\ IsFiniteSet(S) /\ Cardinality(S) \in Nat
      /\ \A r \in S : r.fn \in Numbers /\ Age(r.fn, now) \in 1 .. Cardinality(S)
      /\ \A a \in 1 .. Cardinality(S) : \E r \in S : Age(r.fn, now) = a
      /\ \A r, q \in S : r.fn = q.fn => r = q
      /\ MaxFn \in Nat
  BY FS_CardinalityType, MaxFnAssumption DEF Numbered, Entries
<1>2. x \in Entries /\ x.disp = d /\ x.fn = now
  BY DEF Entries
<1>3. x \notin S
  BY <1>2
<1>4. IsFiniteSet(T) /\ Cardinality(T) = Cardinality(S) + 1
  BY <1>1, <1>3, FS_AddElement
<1>5. \A r \in S : Age(r.fn, next) = Age(r.fn, now) + 1
  <2> SUFFICES ASSUME NEW r \in S PROVE Age(r.fn, next) = Age(r.fn, now) + 1
    OBVIOUS
  <2>1. Age(r.fn, now) < MaxFn
    BY <1>1
  <2> QED BY <1>1, <2>1, AgeStep
<1>6. Age(x.fn, next) = 1
  BY <1>2, AgeStep
<1>7. \A r \in T : Age(r.fn, next) \in 1 .. Cardinality(T)
  BY <1>1, <1>4, <1>5, <1>6
<1>8. \A a \in 1 .. Cardinality(T) : \E r \in T : Age(r.fn, next) = a
  <2> SUFFICES ASSUME NEW a \in 1 .. Cardinality(T) PROVE \E r \in T : Age(r.fn, next) = a
    OBVIOUS
  <2>1. CASE a = 1
    BY <1>6, <2>1
  <2>2. CASE a # 1
    <3>1. a - 1 \in 1 .. Cardinality(S)
      BY <1>1, <1>4, <2>2
    <3>2. PICK r \in S : Age(r.fn, now) = a - 1
      BY <1>1, <3>1
    <3>3. Age(r.fn, next) = a
      BY <1>5, <3>2
    <3> QED BY <3>3
  <2> QED BY <2>1, <2>2
<1>9. \A r \in S : r.fn # now
  <2> SUFFICES ASSUME NEW r \in S, r.fn = now PROVE FALSE
    OBVIOUS
  <2>1. Age(now, now) = MaxFn
    BY <1>1 DEF Age, Numbers
  <2> QED BY <1>1, <2>1
<1>10. \A r, q \in T : (r.fn = q.fn => r = q) /\ (r.disp = q.disp => r = q)
  BY <1>1, <1>2, <1>9 DEF Numbered
<1>11. T \subseteq Entries
  BY <1>2 DEF Numbered
<1>12. Numbered(T, next)
  BY <1>4, <1>7, <1>8, <1>10, <1>11 DEF Numbered
<1> QED BY <1>2, <1>3, <1>4, <1>5, <1>6, <1>12

-----------------------------------------------------------------------------
(* Lists.                                                                    *)

\* f orders S.
Orders(f, S) == (\A r \in S : f[r] \in Int) /\ (\A r, q \in S : f[r] = f[q] => r = q)
Above(S, f, r) == {q \in S : f[q] > f[r]}
\* r is the i-th of S, from the highest.
IsNth(S, f, r, i) == r \in S /\ Cardinality(Above(S, f, r)) = i - 1

\* Fewer entries of S are above a higher one.
LEMMA AboveCounts ==
    ASSUME NEW S, IsFiniteSet(S), NEW f, Orders(f, S), NEW r \in S
    PROVE  /\ Cardinality(Above(S, f, r)) \in 0 .. Cardinality(S) - 1
           /\ \A q \in S : f[q] > f[r] => Cardinality(Above(S, f, q)) < Cardinality(Above(S, f, r))
PROOF
<1>1. \A q \in S : IsFiniteSet(Above(S, f, q)) /\ Cardinality(Above(S, f, q)) \in Nat
  BY FS_Subset, FS_CardinalityType DEF Above
<1>2. r \notin Above(S, f, r)
  BY DEF Above, Orders
<1>3. IsFiniteSet(S \ {r}) /\ Cardinality(S \ {r}) = Cardinality(S) - 1 /\ Cardinality(S) \in Nat
  BY FS_RemoveElement, FS_CardinalityType
<1>4. Above(S, f, r) \in SUBSET (S \ {r})
  BY <1>2 DEF Above
<1>5. Cardinality(Above(S, f, r)) <= Cardinality(S \ {r})
  BY <1>3, <1>4, FS_Subset
<1>6. ASSUME NEW q \in S, f[q] > f[r]
      PROVE  Cardinality(Above(S, f, q)) < Cardinality(Above(S, f, r))
  <2>1. Above(S, f, q) \subseteq Above(S, f, r) /\ q \in Above(S, f, r) /\ q \notin Above(S, f, q)
    BY <1>6 DEF Above, Orders
  <2>2. Above(S, f, q) # Above(S, f, r)
    BY <2>1
  <2>3. Cardinality(Above(S, f, q)) <= Cardinality(Above(S, f, r))
    BY <1>1, <2>1, FS_Subset
  <2>4. Cardinality(Above(S, f, q)) # Cardinality(Above(S, f, r))
    BY <1>1, <2>1, <2>2, FS_Subset
  <2> QED BY <1>1, <2>3, <2>4
<1> QED BY <1>1, <1>3, <1>5, <1>6

\* At most one entry of S is its i-th.
LEMMA NthIsUnique ==
    ASSUME NEW S, IsFiniteSet(S), NEW f, Orders(f, S), NEW i,
           NEW r, NEW q, IsNth(S, f, r, i), IsNth(S, f, q, i)
    PROVE  r = q
PROOF
<1>1. /\ r \in S /\ q \in S /\ f[r] \in Int /\ f[q] \in Int
      /\ Cardinality(Above(S, f, r)) = Cardinality(Above(S, f, q))
  BY DEF IsNth, Orders
<1>2. Cardinality(Above(S, f, r)) \in Nat /\ Cardinality(Above(S, f, q)) \in Nat
  BY <1>1, AboveCounts
<1>3. ~(f[q] > f[r])
  BY <1>1, <1>2, AboveCounts
<1>4. ~(f[r] > f[q])
  BY <1>1, <1>2, AboveCounts
<1>5. f[r] = f[q]
  BY <1>1, <1>3, <1>4
<1> QED BY <1>1, <1>5 DEF Orders

\* Every rank of S is some entry's.
LEMMA NthExists ==
    ASSUME NEW S, IsFiniteSet(S), NEW f, Orders(f, S), NEW i \in 1 .. Cardinality(S)
    PROVE  \E r \in S : IsNth(S, f, r, i)
PROOF
<1> DEFINE n == Cardinality(S)
           g == [r \in S |-> Cardinality(Above(S, f, r)) + 1]
<1>1. n \in Nat /\ IsFiniteSet(1 .. n) /\ Cardinality(1 .. n) = n
  BY FS_CardinalityType, FS_Interval
<1>2. \A r \in S : Cardinality(Above(S, f, r)) \in 0 .. n - 1
  BY AboveCounts
<1>3. g \in [S -> 1 .. n]
  BY <1>1, <1>2
<1>4. ASSUME NEW r \in S, NEW q \in S, g[r] = g[q] PROVE r = q
  <2>1. Cardinality(Above(S, f, r)) = Cardinality(Above(S, f, q))
    BY <1>1, <1>2, <1>4
  <2>2. IsNth(S, f, r, g[r]) /\ IsNth(S, f, q, g[r])
    BY <1>1, <1>2, <2>1 DEF IsNth
  <2> QED BY <2>2, NthIsUnique
<1>5. g \in Injection(S, 1 .. n)
  BY <1>3, <1>4 DEF Injection, IsInjective
<1>6. g \in Surjection(S, 1 .. n)
  BY <1>1, <1>5, FS_Injection
<1>7. PICK r \in S : g[r] = i
  BY <1>6 DEF Surjection
<1>8. IsNth(S, f, r, i)
  BY <1>1, <1>2, <1>7 DEF IsNth
<1> QED BY <1>8

\* The highest of S are those of a set above the rest of S.
LEMMA NthOfTop ==
    ASSUME NEW S, NEW T, T \subseteq S, NEW f, NEW r \in T, NEW i,
           \A t \in T : \A q \in S : f[q] > f[t] => q \in T
    PROVE  IsNth(T, f, r, i) <=> IsNth(S, f, r, i)
PROOF
<1>1. Above(T, f, r) = Above(S, f, r)
  BY DEF Above
<1> QED BY <1>1 DEF IsNth

\* What Ranked lists, by f.
Lists(s, S, f) ==
    /\ s \in Seq(S) /\ Len(s) = Cardinality(S)
    /\ \A i \in 1 .. Len(s) : IsNth(S, f, s[i], i)
    /\ \A i, j \in 1 .. Len(s) : s[i] = s[j] => i = j
    /\ \A r \in S : \E i \in 1 .. Len(s) : s[i] = r

\* The first of S, in a row; sequences that begin alike, repeat nothing, hold r.
AllNth(l, S, f) == \A i \in 1 .. Len(l) : IsNth(S, f, l[i], i)
Begins(a, b) == Len(a) <= Len(b) /\ \A i \in 1 .. Len(a) : a[i] = b[i]
Distinct(b) == \A i, j \in 1 .. Len(b) : b[i] = b[j] => i = j
Holds(a, r) == \E k \in 1 .. Len(a) : a[k] = r

\* A sequence of the i-th entries of S lists S.
LEMMA ListsThem ==
    ASSUME NEW S, IsFiniteSet(S), NEW f, Orders(f, S), NEW s, DOMAIN s = 1 .. Cardinality(S),
           s = [i \in 1 .. Cardinality(S) |-> s[i]],
           \A i \in 1 .. Cardinality(S) : IsNth(S, f, s[i], i)
    PROVE  Lists(s, S, f)
PROOF
<1> DEFINE n == Cardinality(S)
<1>1. n \in Nat
  BY FS_CardinalityType
<1>2. s \in [1 .. n -> S]
  BY DEF IsNth
<1>3. s \in Seq(S) /\ Len(s) = n
  BY <1>1, <1>2, LenProperties, SeqDef
<1>4. ASSUME NEW i \in 1 .. n, NEW j \in 1 .. n, s[i] = s[j] PROVE i = j
  <2>1. Cardinality(Above(S, f, s[i])) = i - 1 /\ Cardinality(Above(S, f, s[i])) = j - 1
    BY <1>4 DEF IsNth
  <2> QED BY <1>1, <2>1
<1>5. ASSUME NEW r \in S PROVE \E i \in 1 .. n : s[i] = r
  <2>1. Cardinality(Above(S, f, r)) \in 0 .. n - 1
    BY AboveCounts
  <2>2. PICK i \in 1 .. n : i = Cardinality(Above(S, f, r)) + 1
    BY <1>1, <2>1
  <2>3. IsNth(S, f, r, i)
    BY <1>1, <2>1, <2>2 DEF IsNth
  <2> QED BY <2>3, NthIsUnique
<1> QED BY <1>3, <1>4, <1>5 DEF Lists

\* Ranked by the display number, up and down.
LEMMA RankedUp ==
    ASSUME NEW S, IsFiniteSet(S), NEW f, Orders(f, S), \A r \in S : f[r] = r.disp
    PROVE  Lists(Ranked(S, LAMBDA r : r.disp), S, f)
PROOF
<1> DEFINE s == Ranked(S, LAMBDA r : r.disp)
           A(r) == {q \in S : q.disp > r.disp}
<1>1. s = [i \in 1 .. Cardinality(S) |-> CHOOSE r \in S : Cardinality(A(r)) = i - 1]
  BY DEF Ranked
<1>2. ASSUME NEW i \in 1 .. Cardinality(S) PROVE IsNth(S, f, s[i], i)
  <2>1. \A r \in S : A(r) = Above(S, f, r)
    BY DEF Above
  <2> HIDE DEF A
  <2>2. \E r \in S : Cardinality(A(r)) = i - 1
    BY <2>1, NthExists DEF IsNth
  <2>3. s[i] \in S /\ Cardinality(A(s[i])) = i - 1
    BY <1>1, <2>2
  <2> QED BY <2>1, <2>3 DEF IsNth
<1>3. DOMAIN s = 1 .. Cardinality(S) /\ s = [i \in 1 .. Cardinality(S) |-> s[i]]
  BY <1>1
<1> QED BY <1>2, <1>3, ListsThem

\* Ranked by falling display number, the order a B picture's forward list begins with.
LEMMA RankedDown ==
    ASSUME NEW S, IsFiniteSet(S), NEW f, Orders(f, S), \A r \in S : f[r] = -r.disp
    PROVE  Lists(Ranked(S, LAMBDA r : -r.disp), S, f)
PROOF
<1> DEFINE s == Ranked(S, LAMBDA r : -r.disp)
           A(r) == {q \in S : -q.disp > -r.disp}
<1>1. s = [i \in 1 .. Cardinality(S) |-> CHOOSE r \in S : Cardinality(A(r)) = i - 1]
  BY DEF Ranked
<1>2. ASSUME NEW i \in 1 .. Cardinality(S) PROVE IsNth(S, f, s[i], i)
  <2>1. \A r \in S : A(r) = Above(S, f, r)
    BY DEF Above
  <2> HIDE DEF A
  <2>2. \E r \in S : Cardinality(A(r)) = i - 1
    BY <2>1, NthExists DEF IsNth
  <2>3. s[i] \in S /\ Cardinality(A(s[i])) = i - 1
    BY <1>1, <2>2
  <2> QED BY <2>1, <2>3 DEF IsNth
<1>3. DOMAIN s = 1 .. Cardinality(S) /\ s = [i \in 1 .. Cardinality(S) |-> s[i]]
  BY <1>1
<1> QED BY <1>2, <1>3, ListsThem

\* By frame number: the decoder's FrameNumWrap, and the encoder's distance.
LEMMA RankedWrap ==
    ASSUME NEW S, IsFiniteSet(S), NEW f, Orders(f, S),
           \A r \in S : f[r] = FrameNumWrap(r.fn, cur.fn)
    PROVE  Lists(Ranked(S, LAMBDA r : FrameNumWrap(r.fn, cur.fn)), S, f)
PROOF
<1> DEFINE s == Ranked(S, LAMBDA r : FrameNumWrap(r.fn, cur.fn))
           A(r) == {q \in S : FrameNumWrap(q.fn, cur.fn) > FrameNumWrap(r.fn, cur.fn)}
<1>1. s = [i \in 1 .. Cardinality(S) |-> CHOOSE r \in S : Cardinality(A(r)) = i - 1]
  BY DEF Ranked
<1>2. ASSUME NEW i \in 1 .. Cardinality(S) PROVE IsNth(S, f, s[i], i)
  <2>1. \A r \in S : A(r) = Above(S, f, r)
    BY DEF Above
  <2> HIDE DEF A
  <2>2. \E r \in S : Cardinality(A(r)) = i - 1
    BY <2>1, NthExists DEF IsNth
  <2>3. s[i] \in S /\ Cardinality(A(s[i])) = i - 1
    BY <1>1, <2>2
  <2> QED BY <2>1, <2>3 DEF IsNth
<1>3. DOMAIN s = 1 .. Cardinality(S) /\ s = [i \in 1 .. Cardinality(S) |-> s[i]]
  BY <1>1
<1> QED BY <1>2, <1>3, ListsThem

\* Ranked by the distance of frame numbers modulo MaxFrameNum, as pyr_list0 sorts.
LEMMA RankedDistance ==
    ASSUME NEW S, IsFiniteSet(S), NEW f, Orders(f, S),
           \A r, q \in S : f[q] > f[r] <=> -((cur.fn - q.fn + MaxFn) % MaxFn) > -((cur.fn - r.fn + MaxFn) % MaxFn)
    PROVE  Lists(Ranked(S, LAMBDA r : -((cur.fn - r.fn + MaxFn) % MaxFn)), S, f)
PROOF
<1> DEFINE s == Ranked(S, LAMBDA r : -((cur.fn - r.fn + MaxFn) % MaxFn))
           A(r) == {q \in S : -((cur.fn - q.fn + MaxFn) % MaxFn) > -((cur.fn - r.fn + MaxFn) % MaxFn)}
<1>1. s = [i \in 1 .. Cardinality(S) |-> CHOOSE r \in S : Cardinality(A(r)) = i - 1]
  BY DEF Ranked
<1>2. ASSUME NEW i \in 1 .. Cardinality(S) PROVE IsNth(S, f, s[i], i)
  <2>1. \A r \in S : A(r) = Above(S, f, r)
    BY DEF Above
  <2> HIDE DEF A
  <2>2. \E r \in S : Cardinality(A(r)) = i - 1
    BY <2>1, NthExists DEF IsNth
  <2>3. s[i] \in S /\ Cardinality(A(s[i])) = i - 1
    BY <1>1, <2>2
  <2> QED BY <2>1, <2>3 DEF IsNth
<1>3. DOMAIN s = 1 .. Cardinality(S) /\ s = [i \in 1 .. Cardinality(S) |-> s[i]]
  BY <1>1
<1> QED BY <1>2, <1>3, ListsThem

\* The first n of s.
LEMMA PrefixIs ==
    ASSUME NEW S, NEW s \in Seq(S), NEW n \in Nat
    PROVE  /\ Prefix(s, n) \in Seq(S)
           /\ Len(Prefix(s, n)) = IF Len(s) <= n THEN Len(s) ELSE n
           /\ \A i \in 1 .. Len(Prefix(s, n)) : Prefix(s, n)[i] = s[i]
PROOF
<1>1. CASE Len(s) <= n
  BY <1>1 DEF Prefix
<1>2. CASE ~(Len(s) <= n)
  <2>1. Prefix(s, n) = SubSeq(s, 1, n) /\ Len(s) \in Nat /\ n <= Len(s)
    BY <1>2 DEF Prefix
  <2> QED BY <1>2, <2>1, SubSeqProperties
<1> QED BY <1>1, <1>2

\* Sequences that agree everywhere are the same.
LEMMA SameSeq ==
    ASSUME NEW S, NEW s \in Seq(S), NEW t \in Seq(S), Len(s) = Len(t),
           \A i \in 1 .. Len(s) : s[i] = t[i]
    PROVE  s = t
PROOF
BY SeqEqual

\* An entry in front: the list it was in, and where.
LEMMA PinnedIs ==
    ASSUME NEW S, NEW s \in Seq(S), NEW r \in S, NEW k \in 1 .. Len(s), s[k] = r,
           \A i, j \in 1 .. Len(s) : s[i] = s[j] => i = j
    PROVE  /\ Pinned(s, r) \in Seq(S) /\ Len(Pinned(s, r)) = Len(s)
           /\ \A j \in 1 .. Len(s) :
                Pinned(s, r)[j] = IF j = 1 THEN r ELSE IF j <= k THEN s[j - 1] ELSE s[j]
PROOF
<1>1. DOMAIN s = 1 .. Len(s) /\ Len(s) \in Nat
  BY LenProperties
<1>2. (CHOOSE i \in DOMAIN s : s[i] = r) = k
  BY <1>1
<1>3. Pinned(s, r) = ToFront(s, k)
  BY <1>1, <1>2 DEF Pinned
<1>4. ToFront(s, k) = [j \in 1 .. Len(s) |-> IF j = 1 THEN r ELSE IF j <= k THEN s[j - 1] ELSE s[j]]
  BY DEF ToFront
<1>5. \A j \in 1 .. Len(s) : (IF j = 1 THEN r ELSE IF j <= k THEN s[j - 1] ELSE s[j]) \in S
  <2> SUFFICES ASSUME NEW j \in 1 .. Len(s)
               PROVE  (IF j = 1 THEN r ELSE IF j <= k THEN s[j - 1] ELSE s[j]) \in S
    OBVIOUS
  <2>1. CASE j = 1
    BY <2>1
  <2>2. CASE j # 1 /\ j <= k
    <3>1. j - 1 \in 1 .. Len(s)
      BY <1>1, <2>2
    <3> QED BY <2>2, <3>1, ElementOfSeq
  <2>3. CASE j # 1 /\ ~(j <= k)
    BY <2>3, ElementOfSeq
  <2> QED BY <2>1, <2>2, <2>3
<1>6. ToFront(s, k) \in [1 .. Len(s) -> S]
  BY <1>4, <1>5
<1>7. ToFront(s, k) \in Seq(S) /\ Len(ToFront(s, k)) = Len(s)
  BY <1>1, <1>6, LenProperties, SeqDef
<1> QED BY <1>3, <1>4, <1>7

\* The encoder's pinned list, cut; and the decoder's, of a longer list that begins alike.
LEMMA PinnedAgree ==
    ASSUME NEW S, NEW a \in Seq(S), NEW b \in Seq(S), Begins(a, b), Distinct(b),
           NEW r \in S, Holds(a, r), NEW m \in Nat, 1 <= m
    PROVE  Prefix(Pinned(a, r), m) =
             Prefix(Pinned(Prefix(b, Len(Prefix(Pinned(a, r), m))), r), Len(Prefix(Pinned(a, r), m)))
PROOF
<1> PICK k \in 1 .. Len(a) : a[k] = r
  BY DEF Holds
<1> DEFINE l == Prefix(Pinned(a, r), m)
           n == Len(l)
           cut == Prefix(b, n)
           d == Pinned(cut, r)
<1>0. /\ Len(a) \in Nat /\ Len(b) \in Nat /\ k \in Nat /\ 1 <= k /\ k <= Len(a)
      /\ Len(a) <= Len(b)
      /\ \A i \in 1 .. Len(a) : a[i] = b[i]
      /\ \A i, j \in 1 .. Len(b) : b[i] = b[j] => i = j
  BY LenProperties DEF Begins, Distinct
<1>1. \A i, j \in 1 .. Len(a) : a[i] = a[j] => i = j
  BY <1>0
<1>2. /\ Pinned(a, r) \in Seq(S) /\ Len(Pinned(a, r)) = Len(a)
      /\ \A j \in 1 .. Len(a) :
           Pinned(a, r)[j] = IF j = 1 THEN r ELSE IF j <= k THEN a[j - 1] ELSE a[j]
  BY <1>1, PinnedIs
<1>3. /\ l \in Seq(S) /\ n = (IF Len(a) <= m THEN Len(a) ELSE m) /\ n \in Nat
      /\ \A i \in 1 .. n : l[i] = Pinned(a, r)[i]
  BY <1>0, <1>2, PrefixIs
<1>4. 1 <= n /\ n <= Len(a)
  BY <1>0, <1>3
<1>5. \A i \in 1 .. n : l[i] = IF i = 1 THEN r ELSE IF i <= k THEN a[i - 1] ELSE a[i]
  BY <1>0, <1>2, <1>3, <1>4
<1>6. /\ cut \in Seq(S) /\ Len(cut) = n
      /\ \A i \in 1 .. n : cut[i] = a[i]
  BY <1>0, <1>3, <1>4, PrefixIs
<1>7. \A i, j \in 1 .. n : cut[i] = cut[j] => i = j
  BY <1>0, <1>1, <1>3, <1>4, <1>6
<1> HIDE DEF cut, d, n, l
<1>8. ASSUME k <= n PROVE l = Prefix(d, n)
  <2>1. k \in 1 .. Len(cut) /\ cut[k] = r
    BY <1>0, <1>3, <1>6, <1>8
  <2>2. /\ d \in Seq(S) /\ Len(d) = n
        /\ \A j \in 1 .. n : d[j] = IF j = 1 THEN r ELSE IF j <= k THEN cut[j - 1] ELSE cut[j]
    <3>1. \A i, j \in 1 .. Len(cut) : cut[i] = cut[j] => i = j
      BY <1>6, <1>7
    <3>2. /\ Pinned(cut, r) \in Seq(S) /\ Len(Pinned(cut, r)) = Len(cut)
          /\ \A j \in 1 .. Len(cut) :
               Pinned(cut, r)[j] = IF j = 1 THEN r ELSE IF j <= k THEN cut[j - 1] ELSE cut[j]
      <4>1. cut \in Seq(S)
        BY <1>6
      <4> QED BY <4>1, <2>1, <3>1, PinnedIs
    <3> QED BY <1>6, <3>2 DEF d
  <2>3. Prefix(d, n) = d
    BY <1>3, <2>2 DEF Prefix
  <2>4. \A j \in 1 .. n : d[j] = l[j]
    <3> SUFFICES ASSUME NEW j \in 1 .. n PROVE d[j] = l[j]
      OBVIOUS
    <3>1. CASE j = 1
      BY <1>5, <2>2, <3>1
    <3>2. CASE j # 1
      <4>1. j - 1 \in 1 .. n
        BY <1>3, <3>2
      <4> QED BY <1>5, <1>6, <2>2, <4>1
    <3> QED BY <3>1, <3>2
  <2>5. d = l
    BY <1>3, <2>2, <2>4, SameSeq DEF n
  <2> QED BY <2>3, <2>5
<1>9. ASSUME k > n PROVE l = Prefix(d, n)
  <2>1. DOMAIN cut = 1 .. n
    BY <1>6, LenProperties
  <2>2. ~\E i \in DOMAIN cut : cut[i] = r
    BY <1>0, <1>1, <1>3, <1>4, <1>6, <1>9, <2>1
  <2>3. d = <<r>> \o cut
    BY <2>2 DEF d, Pinned
  <2>4. /\ d \in Seq(S) /\ Len(d) = n + 1
        /\ \A j \in 1 .. n + 1 : d[j] = IF j = 1 THEN r ELSE cut[j - 1]
    <3>1. <<r>> \in Seq(S) /\ Len(<<r>>) = 1 /\ <<r>>[1] = r
      OBVIOUS
    <3>2. d \in Seq(S) /\ Len(d) = 1 + n
      BY <1>6, <2>3, <3>1, ConcatProperties
    <3>3. \A j \in 1 .. 1 + n : d[j] = IF j <= 1 THEN <<r>>[j] ELSE cut[j - 1]
      BY <1>3, <1>6, <2>3, <3>1, ConcatProperties
    <3> QED BY <1>3, <3>1, <3>2, <3>3
  <2>5. /\ Prefix(d, n) \in Seq(S) /\ Len(Prefix(d, n)) = n
        /\ \A i \in 1 .. n : Prefix(d, n)[i] = d[i]
    <3>1. ~(Len(d) <= n)
      BY <1>3, <2>4
    <3>2. d \in Seq(S) /\ n \in Nat
      BY <1>3, <2>4
    <3>3. /\ Prefix(d, n) \in Seq(S)
          /\ Len(Prefix(d, n)) = IF Len(d) <= n THEN Len(d) ELSE n
          /\ \A i \in 1 .. Len(Prefix(d, n)) : Prefix(d, n)[i] = d[i]
      BY <3>2, PrefixIs
    <3> QED BY <3>1, <3>3
  <2>6. \A j \in 1 .. n : Prefix(d, n)[j] = l[j]
    <3> SUFFICES ASSUME NEW j \in 1 .. n PROVE Prefix(d, n)[j] = l[j]
      OBVIOUS
    <3>1. CASE j = 1
      BY <1>3, <1>5, <2>4, <2>5, <3>1
    <3>2. CASE j # 1
      <4>1. j - 1 \in 1 .. n /\ j \in 1 .. n + 1 /\ j <= k
        BY <1>0, <1>3, <1>9, <3>2
      <4>2. l[j] = a[j - 1]
        BY <1>5, <3>2, <4>1
      <4>3. d[j] = cut[j - 1] /\ cut[j - 1] = a[j - 1]
        BY <1>6, <2>4, <3>2, <4>1
      <4> QED BY <2>5, <4>2, <4>3
    <3> QED BY <3>1, <3>2
  <2>7. Prefix(d, n) = l
    BY <1>3, <2>5, <2>6, SameSeq DEF n
  <2> QED BY <2>7
<1>11. l = Prefix(Pinned(Prefix(b, Len(l)), r), Len(l))
  <2>1. l = Prefix(d, n)
    BY <1>0, <1>3, <1>8, <1>9
  <2> QED BY <2>1 DEF cut, d, n
<1> QED BY <1>11 DEF n, l

\* A list is the decoder's when its entries are the decoder's first.
LEMMA FirstOfOne ==
    ASSUME NEW S, IsFiniteSet(S), NEW f, Orders(f, S), NEW b, Lists(b, S, f),
           NEW l \in Seq(S), AllNth(l, S, f)
    PROVE  Begins(l, b) /\ l = Prefix(b, Len(l))
PROOF
<1>0. \A i \in 1 .. Len(l) : IsNth(S, f, l[i], i)
  BY DEF AllNth
<1>1. /\ b \in Seq(S) /\ Len(b) = Cardinality(S) /\ Len(b) \in Nat /\ Len(l) \in Nat
      /\ \A i \in 1 .. Len(b) : IsNth(S, f, b[i], i)
  BY DEF Lists
<1>2. Len(l) <= Len(b)
  <2>1. CASE Len(l) = 0
    BY <1>1, <2>1
  <2>2. CASE Len(l) # 0
    <3>1. IsNth(S, f, l[Len(l)], Len(l))
      BY <1>0, <1>1, <2>2
    <3>2. Cardinality(Above(S, f, l[Len(l)])) = Len(l) - 1 /\ l[Len(l)] \in S
      BY <3>1 DEF IsNth
    <3>3. Cardinality(Above(S, f, l[Len(l)])) \in 0 .. Cardinality(S) - 1
      BY <3>2, AboveCounts
    <3>4. Cardinality(S) \in Nat
      BY FS_CardinalityType
    <3> QED BY <1>1, <3>2, <3>3, <3>4
  <2> QED BY <2>1, <2>2
<1>3. \A i \in 1 .. Len(l) : l[i] = b[i]
  <2> SUFFICES ASSUME NEW i \in 1 .. Len(l) PROVE l[i] = b[i]
    OBVIOUS
  <2>1. i \in 1 .. Len(b)
    BY <1>1, <1>2
  <2>2. IsNth(S, f, l[i], i) /\ IsNth(S, f, b[i], i)
    BY <1>0, <1>1, <2>1
  <2> QED BY <2>2, NthIsUnique
<1>4. /\ Prefix(b, Len(l)) \in Seq(S)
      /\ Len(Prefix(b, Len(l))) = IF Len(b) <= Len(l) THEN Len(b) ELSE Len(l)
      /\ \A i \in 1 .. Len(Prefix(b, Len(l))) : Prefix(b, Len(l))[i] = b[i]
  BY <1>1, PrefixIs
<1>5. Len(Prefix(b, Len(l))) = Len(l)
  BY <1>1, <1>2, <1>4
<1>6. l = Prefix(b, Len(l))
  BY <1>3, <1>4, <1>5, SameSeq
<1> QED BY <1>2, <1>3, <1>6 DEF Begins

\* And when more follows in the decoder's.
LEMMA FirstOfTwo ==
    ASSUME NEW S, IsFiniteSet(S), NEW f, Orders(f, S), NEW b, Lists(b, S, f),
           NEW l \in Seq(S), AllNth(l, S, f),
           NEW T, S \subseteq T, NEW d \in Seq(T)
    PROVE  l = Prefix(b \o d, Len(l))
PROOF
<1>1. Len(l) <= Len(b) /\ \A i \in 1 .. Len(l) : l[i] = b[i]
  BY FirstOfOne DEF Begins
<1>2. b \in Seq(S)
  BY DEF Lists
<1>3. b \in Seq(T) /\ l \in Seq(T)
  BY <1>2, SeqMonotonic
<1>4. Len(b) \in Nat /\ Len(l) \in Nat /\ Len(d) \in Nat
  BY <1>3, LenProperties
<1>5. /\ b \o d \in Seq(T) /\ Len(b \o d) = Len(b) + Len(d)
      /\ \A i \in 1 .. Len(b) + Len(d) : (b \o d)[i] = IF i <= Len(b) THEN b[i] ELSE d[i - Len(b)]
  BY <1>3, ConcatProperties
<1> DEFINE whole == b \o d
<1> HIDE DEF whole
<1>6. /\ Prefix(whole, Len(l)) \in Seq(T)
      /\ Len(Prefix(whole, Len(l))) = IF Len(whole) <= Len(l) THEN Len(whole) ELSE Len(l)
      /\ \A i \in 1 .. Len(Prefix(whole, Len(l))) : Prefix(whole, Len(l))[i] = whole[i]
  BY <1>4, <1>5, PrefixIs DEF whole
<1>7. Len(Prefix(whole, Len(l))) = Len(l)
  BY <1>1, <1>4, <1>5, <1>6 DEF whole
<1>8. \A i \in 1 .. Len(l) : Prefix(whole, Len(l))[i] = l[i]
  <2> SUFFICES ASSUME NEW i \in 1 .. Len(l) PROVE Prefix(whole, Len(l))[i] = l[i]
    OBVIOUS
  <2>1. i \in 1 .. Len(b) + Len(d) /\ i <= Len(b)
    BY <1>1, <1>4
  <2>2. whole[i] = b[i]
    BY <1>5, <2>1 DEF whole
  <2> QED BY <1>1, <1>6, <1>7, <2>2
<1>9. l = Prefix(whole, Len(l))
  BY <1>3, <1>6, <1>7, <1>8, SameSeq
<1> QED BY <1>9 DEF whole

\* By number the younger reference comes first, for a picture that takes the next
\* number and for one that repeats the last.
LEMMA WrapOrders ==
    ASSUME NEW now \in Numbers, NEW S, Numbered(S, now), Cardinality(S) < MaxFn,
           NEW last \in Numbers, last = now \/ now = (last + 1) % MaxFn,
           NEW f, \A r \in S : f[r] = FrameNumWrap(r.fn, last)
    PROVE  /\ Orders(f, S)
           /\ \A r, q \in S : f[q] > f[r] <=> Age(q.fn, now) < Age(r.fn, now)
           /\ \A r, q \in S : f[q] > f[r] <=>
                -((last - q.fn + MaxFn) % MaxFn) > -((last - r.fn + MaxFn) % MaxFn)
PROOF
<1>1. /\ IsFiniteSet(S) /\ Cardinality(S) \in Nat
      /\ \A r \in S : r.fn \in Numbers /\ Age(r.fn, now) \in 1 .. Cardinality(S)
      /\ \A r, q \in S : r.fn = q.fn => r = q
      /\ MaxFn \in Nat /\ now \in Nat /\ last \in Nat
  BY FS_CardinalityType, MaxFnAssumption DEF Numbered, Entries, Numbers
<1>2. PICK k \in Nat : \A r \in S : f[r] = k - Age(r.fn, now)
  <2>1. CASE last = now
    <3>1. \A r \in S : f[r] = now - Age(r.fn, now)
      <4> SUFFICES ASSUME NEW r \in S PROVE f[r] = now - Age(r.fn, now)
        OBVIOUS
      <4>1. r.fn \in Numbers /\ Age(r.fn, now) < MaxFn /\ f[r] = FrameNumWrap(r.fn, now)
        BY <1>1, <2>1
      <4> QED BY <4>1, AgeWrap
    <3> QED BY <1>1, <3>1
  <2>2. CASE now = (last + 1) % MaxFn
    <3>1. \A r \in S : f[r] = (last + 1) - Age(r.fn, now)
      <4> SUFFICES ASSUME NEW r \in S PROVE f[r] = (last + 1) - Age(r.fn, now)
        OBVIOUS
      <4>1. r.fn \in Numbers /\ f[r] = FrameNumWrap(r.fn, last)
        BY <1>1
      <4>2. r.fn \in Numbers
        BY <1>1
      <4>3. FrameNumWrap(r.fn, last) = last + 1 - Age(r.fn, now)
        BY <2>2, <4>2, AgeWrap
      <4>5. Age(r.fn, now) \in Nat /\ last \in Nat
        BY <1>1
      <4> QED BY <4>1, <4>3, <4>5
    <3> QED BY <1>1, <3>1
  <2> QED BY <2>1, <2>2
<1>3. \A r \in S : f[r] \in Int /\ Age(r.fn, now) \in Nat
  BY <1>1, <1>2
<1>4. \A r, q \in S : Age(r.fn, now) = Age(q.fn, now) => r = q
  <2> SUFFICES ASSUME NEW r \in S, NEW q \in S, Age(r.fn, now) = Age(q.fn, now) PROVE r = q
    OBVIOUS
  <2>1. r.fn = q.fn
    BY <1>1 DEF Age, Numbers
  <2> QED BY <1>1, <2>1
<1>5. \A r, q \in S : f[q] > f[r] <=> Age(q.fn, now) < Age(r.fn, now)
  BY <1>2, <1>3
<1>6. Orders(f, S)
  <2>1. \A r, q \in S : f[r] = f[q] => Age(r.fn, now) = Age(q.fn, now)
    BY <1>2, <1>3
  <2> QED BY <1>3, <1>4, <2>1 DEF Orders
<1>7. \A r \in S : -((last - r.fn + MaxFn) % MaxFn) = f[r] - last
  <2> SUFFICES ASSUME NEW r \in S PROVE -((last - r.fn + MaxFn) % MaxFn) = f[r] - last
    OBVIOUS
  <2>1. r.fn \in Numbers /\ f[r] = FrameNumWrap(r.fn, last)
    BY <1>1
  <2> QED BY <2>1, AgeWrap
<1>8. \A r, q \in S : f[q] > f[r] <=> f[q] - last > f[r] - last
  BY <1>1, <1>3
<1>9. \A r, q \in S : f[q] > f[r] <=>
                -((last - q.fn + MaxFn) % MaxFn) > -((last - r.fn + MaxFn) % MaxFn)
  BY <1>7, <1>8, Zenon
<1> QED BY <1>5, <1>6, <1>9

\* So many are younger as the age says.
LEMMA CountYounger ==
    ASSUME NEW now \in Numbers, NEW S, Numbered(S, now), NEW a \in Nat, 1 <= a, a <= Cardinality(S) + 1
    PROVE  LET T == {q \in S : Age(q.fn, now) < a} IN IsFiniteSet(T) /\ Cardinality(T) = a - 1
PROOF
<1> DEFINE T == {q \in S : Age(q.fn, now) < a}
           g == [q \in T |-> Age(q.fn, now)]
<1>1. /\ IsFiniteSet(S) /\ Cardinality(S) \in Nat
      /\ \A r \in S : r.fn \in Numbers /\ Age(r.fn, now) \in 1 .. Cardinality(S)
      /\ \A b \in 1 .. Cardinality(S) : \E r \in S : Age(r.fn, now) = b
      /\ \A r, q \in S : r.fn = q.fn => r = q
      /\ MaxFn \in Nat /\ now \in Nat
  BY FS_CardinalityType, MaxFnAssumption DEF Numbered, Entries, Numbers
<1>2. IsFiniteSet(T)
  BY <1>1, FS_Subset
<1>3. g \in [T -> 1 .. a - 1]
  BY <1>1
<1>4. \A r, q \in T : g[r] = g[q] => r = q
  <2> SUFFICES ASSUME NEW r \in T, NEW q \in T, Age(r.fn, now) = Age(q.fn, now) PROVE r = q
    OBVIOUS
  <2>1. r.fn = q.fn
    BY <1>1 DEF Age, Numbers
  <2> QED BY <1>1, <2>1
<1>5. \A b \in 1 .. a - 1 : \E r \in T : g[r] = b
  <2> SUFFICES ASSUME NEW b \in 1 .. a - 1 PROVE \E r \in T : g[r] = b
    OBVIOUS
  <2>1. b \in 1 .. Cardinality(S) /\ b < a
    BY <1>1
  <2>2. PICK r \in S : Age(r.fn, now) = b
    BY <1>1, <2>1
  <2> QED BY <2>1, <2>2
<1>6. g \in Bijection(T, 1 .. a - 1)
  BY <1>3, <1>4, <1>5 DEF Bijection, Injection, Surjection, IsInjective
<1>7. ExistsBijection(T, 1 .. a - 1)
  BY <1>6 DEF ExistsBijection
<1>8. Cardinality(1 .. a - 1) = Cardinality(T)
  BY <1>2, <1>7, FS_Bijection
<1>9. Cardinality(1 .. a - 1) = a - 1
  BY <1>1, FS_Interval
<1> QED BY <1>2, <1>8, <1>9

-----------------------------------------------------------------------------
(* The references of the picture being coded.                                *)

\* What the invariant says of the window.
LEMMA TheWindow ==
    ASSUME DpbIInv
    PROVE  /\ IsFiniteSet(Base) /\ Cardinality(Base) \in Nat /\ Base \subseteq Entries
           /\ \A r \in Base : r.disp \in Nat /\ r.fn \in Numbers
           /\ Window(conf) \in Nat /\ 1 <= Window(conf) /\ Window(conf) < MaxFn
           /\ Cardinality(Base) <= Window(conf) /\ Cardinality(Base) < MaxFn
           /\ MaxFn \in Nat
PROOF
<1>1. /\ IsFiniteSet(Base) /\ Cardinality(Base) \in Nat /\ Base \subseteq Entries
  BY FS_CardinalityType DEF DpbIInv, BaseInv, Numbered
<1>2. /\ Window(conf) \in Nat /\ 1 <= Window(conf) /\ Window(conf) < MaxFn
  BY WindowFits DEF DpbIInv, DpbTypeOK
<1>3. Cardinality(Base) <= Room
  BY DEF DpbIInv, BaseInv
<1>4. MaxFn \in Nat
  BY MaxFnAssumption
<1> QED BY <1>1, <1>2, <1>3, <1>4 DEF Room, Entries

\* Where the picture being coded lies, and how far back its references go.
LEMMA TheBound ==
    ASSUME DpbIInv, cur # None, cur.type # "I"
    PROVE  /\ ~Emptied /\ cur.disp \in Nat /\ Bound(cur.disp) \in Int
           /\ -1 <= Bound(cur.disp) /\ Bound(cur.disp) <= cur.disp
           /\ cur.second => conf.fields
           /\ ~conf.fields => ~InIdr /\ ~Halfway /\ Base = dec
           /\ ~InIdr => /\ anchors.last \in Nat /\ Bound(cur.disp) <= anchors.last
                        /\ \E r \in Base : r.disp = anchors.last
           /\ cur.type = "P" => /\ pc # "b" /\ Bound(cur.disp) = rp.last
                                /\ anchors.last < cur.disp
           /\ cur.type = "B" => /\ pc = "b" /\ ~InIdr /\ run.kind \in {"p", "key"}
                                /\ run.first <= cur.disp /\ cur.disp < anchors.last
                                /\ anchors.last2 < run.first
                                /\ Bound(cur.disp) <= anchors.last2
           /\ cur.type \in {"P", "B"}
PROOF
<1> USE DEF NoKey
<1>1. /\ cur \in Pictures /\ conf \in Configs /\ run \in [first : Nat, n : 0 .. 7, kind : {"none", "idr", "p", "key"}]
      /\ anchors.last \in Nat \cup {-1} /\ anchors.last2 \in Nat \cup {-1}
      /\ rp.last \in Nat \cup {-1} /\ rp.prev \in Nat \cup {-1}
  BY DEF DpbIInv, DpbTypeOK
<1>2. /\ cur.type \in {"P", "B"} /\ cur.disp \in Nat /\ run.first \in Nat /\ run.n \in 0 .. 7
      /\ run.kind \in {"none", "idr", "p", "key"}
  BY <1>1 DEF Pictures
<1>3. /\ pc \in {"tail", "anchor", "b"} /\ (cur.second => conf.fields)
      /\ rp.prev <= rp.last
      /\ rp.last <= anchors.last \/ cur.kind = "key"
  BY DEF DpbIInv, CurInv, AnchorInv
<1>4. CASE cur.type = "B"
  <2>1. pc = "b"
    BY <1>2, <1>3, <1>4 DEF DpbIInv, CurInv, RunInv
  <2>2. /\ cur.kind = "b" /\ run.kind # "idr" /\ cur.disp \in run.first .. run.first + run.n - 1
        /\ anchors.last = run.first + run.n
        /\ run.kind # "none" /\ Started
        /\ run.kind = "p" => rp.last <= anchors.last2 /\ anchors.last2 < run.first
        /\ run.kind = "key" => /\ rp.last = anchors.last
                               /\ rp.prev <= anchors.last2 /\ anchors.last2 < run.first
    BY <2>1 DEF DpbIInv, CurInv, AnchorInv, RunInv
  <2>3. ~InIdr /\ ~Emptied
    BY <2>2 DEF InIdr, Emptied
  <2>4. Bound(cur.disp) = IF cur.disp > rp.last THEN rp.last ELSE rp.prev
    BY DEF Bound
  <2>5. \E r \in Base : r.disp = anchors.last
    BY <2>2, <2>3 DEF DpbIInv, BaseInv
  <2>6. ~conf.fields => Base = dec /\ ~Halfway
    BY <1>3, <2>3 DEF Base, Halfway
  <2>7. /\ anchors.last \in Nat /\ cur.disp < anchors.last /\ run.first <= cur.disp
    BY <1>2, <2>2
  <2>8. CASE run.kind = "p"
    BY <1>1, <1>2, <1>3, <1>4, <2>1, <2>2, <2>3, <2>4, <2>5, <2>6, <2>7, <2>8
  <2>9. CASE run.kind = "key"
    BY <1>1, <1>2, <1>3, <1>4, <2>1, <2>2, <2>3, <2>4, <2>5, <2>6, <2>7, <2>9
  <2> QED BY <1>2, <2>2, <2>8, <2>9
<1>5. CASE cur.type = "P"
  <2>1. pc \in {"tail", "anchor"}
    BY <1>3, <1>5 DEF DpbIInv, CurInv
  <2>2. /\ anchors.last < run.first
        /\ cur.disp >= run.first
        /\ cur.kind # "key"
        /\ InIdr => cur.second
    <3>1. anchors.last < run.first
      BY <2>1 DEF DpbIInv, AnchorInv
    <3>2. CASE pc = "tail"
      BY <1>2, <3>1, <3>2 DEF DpbIInv, CurInv, InIdr
    <3>3. CASE pc = "anchor"
      <4>1. /\ cur.kind = run.kind /\ cur.disp = run.first + run.n
            /\ run.kind = "key" => cur.type = "I"
            /\ run.kind = "idr" => cur.type = (IF cur.second THEN "P" ELSE "I")
        BY <3>3 DEF DpbIInv, CurInv
      <4> QED BY <1>2, <1>5, <3>1, <4>1 DEF InIdr
    <3> QED BY <2>1, <3>2, <3>3
  <2>3. rp.last <= anchors.last /\ Bound(cur.disp) = rp.last /\ anchors.last < cur.disp
    BY <1>1, <1>2, <1>3, <2>2 DEF Bound
  <2>4. ~Emptied
    BY <2>2 DEF Emptied
  <2>5. ~InIdr => anchors.last \in Nat /\ \E r \in Base : r.disp = anchors.last
    <3>1. ASSUME ~InIdr PROVE Started
      <4>1. pc = "tail" => run.first > 0
        BY DEF DpbIInv, CurInv
      <4>2. pc = "anchor" => run.first > 0
        <5>1. pc = "anchor" => cur.kind = run.kind
          BY DEF DpbIInv, CurInv
        <5>2. pc = "anchor" => run.kind # "idr"
          BY <3>1, <5>1 DEF InIdr
        <5>3. pc = "anchor" => run.first # 0
          BY <5>2 DEF DpbIInv, RunInv
        <5> QED BY <1>2, <5>3
      <4> QED BY <2>1, <4>1, <4>2 DEF DpbIInv, RunInv
    <3>2. ~InIdr => anchors.last \in Nat
      BY <1>1, <3>1 DEF Started
    <3> QED BY <3>1, <3>2 DEF DpbIInv, BaseInv
  <2>6. ~conf.fields => ~InIdr /\ Base = dec /\ ~Halfway
    BY <1>3, <2>2 DEF Base, Halfway, Emptied
  <2> QED BY <1>1, <1>2, <1>3, <1>5, <2>1, <2>3, <2>4, <2>5, <2>6
<1> QED BY <1>2, <1>4, <1>5

\* The order of the numbers the picture being coded sees.
ByNumber == [r \in Base |-> FrameNumWrap(r.fn, cur.fn)]
ByDisp == [r \in Base |-> r.disp]

\* Frame numbers order the references as they were coded, and the encoder's distance orders them so too.
LEMMA TheOrders ==
    ASSUME DpbIInv, cur # None
    PROVE  /\ Orders(ByNumber, Base)
           /\ \A r, q \in Base : ByNumber[q] > ByNumber[r] <=> Age(q.fn, nextFn) < Age(r.fn, nextFn)
           /\ \A r, q \in Base : ByNumber[q] > ByNumber[r] <=>
                -((cur.fn - q.fn + MaxFn) % MaxFn) > -((cur.fn - r.fn + MaxFn) % MaxFn)
           /\ Orders(ByDisp, Base)
PROOF
<1>1. Orders(ByDisp, Base)
  BY TheWindow DEF DpbIInv, BaseInv, Numbered, Orders, ByDisp
<1>2. CASE Base = {}
  BY <1>1, <1>2 DEF Orders
<1>3. CASE Base # {}
  <2>1. /\ Numbered(Base, nextFn) /\ nextFn \in Numbers /\ lastFn \in Numbers
        /\ nextFn = (lastFn + 1) % MaxFn
        /\ cur.fn = IF cur.isref THEN nextFn ELSE lastFn
    BY <1>3 DEF DpbIInv, BaseInv, DpbTypeOK, CurInv
  <2>2. /\ cur.fn \in Numbers
        /\ cur.fn = nextFn \/ nextFn = (cur.fn + 1) % MaxFn
    BY <2>1
  <2>3. \A r \in Base : ByNumber[r] = FrameNumWrap(r.fn, cur.fn)
    BY DEF ByNumber
  <2>4. Cardinality(Base) < MaxFn
    BY TheWindow
  <2> HIDE DEF Orders
  <2> QED BY <1>1, <2>1, <2>2, <2>3, <2>4, WrapOrders
<1> QED BY <1>2, <1>3

\* An order of S orders a part of S.
LEMMA OrdersPart ==
    ASSUME NEW S, NEW f, Orders(f, S), NEW T, T \subseteq S PROVE Orders(f, T)
PROOF
BY DEF Orders

\* The candidates are in the buffer, and an anchor is among them.
LEMMA TheCandidates ==
    ASSUME DpbIInv, cur # None, cur.type # "I", conf.pyramid
    PROVE  /\ dpb = Base /\ Candidates(cur) \subseteq Base
           /\ IsFiniteSet(Candidates(cur))
           /\ ~InIdr => Candidates(cur) = {r \in Base : r.disp >= Bound(cur.disp)}
           /\ InIdr => Candidates(cur) = {}
PROOF
<1> DEFINE K == {r \in dpb : r.disp >= Bound(cur.disp)}
<1>1. dpb = Base
  BY DEF DpbIInv, BaseInv
<1>2. Candidates(cur) = IF K = {} THEN dpb ELSE K
  BY DEF Candidates
<1>3. ~InIdr => K # {}
  <2>1. ~InIdr => \E r \in Base : r.disp >= Bound(cur.disp)
    BY TheBound
  <2> QED BY <1>1, <2>1
<1>4. InIdr => Base = {}
  BY DEF DpbIInv, BaseInv
<1>5. IsFiniteSet(Base)
  BY TheWindow
<1>6. Candidates(cur) \subseteq Base
  BY <1>1, <1>2
<1> QED BY <1>1, <1>2, <1>3, <1>4, <1>5, <1>6, FS_Subset

\* The candidates by number, as the encoder ranks them.
ByNum == Ranked(Candidates(cur), LAMBDA r : -((cur.fn - r.fn + MaxFn) % MaxFn))

\* The encoder's list of a P picture: its candidates by number, the pinned one first.
LEMMA ByNumLists ==
    ASSUME DpbIInv, cur # None, cur.type # "I", conf.pyramid
    PROVE  /\ Lists(ByNum, Candidates(cur), ByNumber)
           /\ PyramidP(cur) = IF {r \in Candidates(cur) : r.fn = cur.pin} = {} THEN ByNum
                              ELSE Pinned(ByNum, CHOOSE r \in {r \in Candidates(cur) : r.fn = cur.pin} : TRUE)
PROOF
<1>1. Candidates(cur) \subseteq Base /\ IsFiniteSet(Candidates(cur))
  BY TheCandidates
<1>2. Orders(ByNumber, Candidates(cur))
  BY <1>1, TheOrders, OrdersPart
<1>3. \A r, q \in Candidates(cur) : ByNumber[q] > ByNumber[r] <=>
                -((cur.fn - q.fn + MaxFn) % MaxFn) > -((cur.fn - r.fn + MaxFn) % MaxFn)
  BY <1>1, TheOrders
<1>4. Lists(ByNum, Candidates(cur), ByNumber)
  BY <1>1, <1>2, <1>3, RankedDistance DEF ByNum
<1> QED BY <1>4 DEF PyramidP, ByNum

\* The pyramid's lists are of candidates.
LEMMA PyramidListsCandidates ==
    ASSUME DpbIInv, cur # None, cur.type # "I", conf.pyramid
    PROVE  /\ List0(cur) \in Seq(Candidates(cur))
           /\ NRef(conf) \in Nat /\ 1 <= NRef(conf)
           /\ List0(cur) = Prefix(IF cur.type = "B" THEN PyramidB(cur) ELSE PyramidP(cur), NRef(conf))
PROOF
<1> DEFINE K == Candidates(cur)
           l == IF cur.type = "B" THEN PyramidB(cur) ELSE PyramidP(cur)
<1>1. List0(cur) = Prefix(l, NRef(conf))
  BY DEF List0
<1>2. NRef(conf) \in Nat /\ 1 <= NRef(conf)
  BY WindowFits DEF DpbIInv, DpbTypeOK
<1>3. l \in Seq(K)
  <2>1. CASE cur.type = "B"
    <3> DEFINE P == {r \in K : r.disp < cur.disp}
    <3>1. P \subseteq Base /\ IsFiniteSet(P) /\ P \subseteq K
      BY TheCandidates, FS_Subset
    <3>2. Orders(ByDisp, P) /\ \A r \in P : ByDisp[r] = r.disp
      BY <3>1, TheOrders, OrdersPart DEF ByDisp
    <3>3. Lists(Ranked(P, LAMBDA r : r.disp), P, ByDisp)
      BY <3>1, <3>2, RankedUp
    <3>4. PyramidB(cur) \in Seq(P)
      BY <3>3 DEF Lists, PyramidB
    <3> QED BY <2>1, <3>1, <3>4, SeqMonotonic
  <2>2. CASE cur.type # "B"
    <3> DEFINE pins == {r \in K : r.fn = cur.pin}
               q == CHOOSE r \in pins : TRUE
    <3>1. Lists(ByNum, K, ByNumber) /\ PyramidP(cur) = IF pins = {} THEN ByNum ELSE Pinned(ByNum, q)
      BY ByNumLists
    <3>2. ByNum \in Seq(K) /\ \A i, j \in 1 .. Len(ByNum) : ByNum[i] = ByNum[j] => i = j
      BY <3>1 DEF Lists
    <3>3. CASE pins = {}
      BY <2>2, <3>1, <3>2, <3>3
    <3>4. CASE pins # {}
      <4>1. q \in K
        BY <3>4
      <4>2. PICK k \in 1 .. Len(ByNum) : ByNum[k] = q
        BY <3>1, <4>1 DEF Lists
      <4> HIDE DEF q
      <4>3. Pinned(ByNum, q) \in Seq(K)
        BY <3>2, <4>1, <4>2, PinnedIs
      <4> QED BY <2>2, <3>1, <3>4, <4>3
    <3> QED BY <3>3, <3>4
  <2> QED BY <2>1, <2>2
<1> HIDE DEF l
<1>4. Prefix(l, NRef(conf)) \in Seq(K)
  BY <1>2, <1>3, PrefixIs
<1> QED BY <1>1, <1>2, <1>4 DEF l

-----------------------------------------------------------------------------
\* The list of a P picture of the pyramid.
LEMMA PyramidPAgrees ==
    ASSUME DpbIInv, cur # None, cur.type = "P", conf.pyramid, ~conf.fields,
           NEW b \in Int, b <= Bound(cur.disp), NEW S, S = {r \in dec : r.disp >= b}
    PROVE  List0(cur) = DecList0(S, cur, Len(List0(cur)))
PROOF
<1> DEFINE K == Candidates(cur)
           pins == {r \in K : r.fn = cur.pin}
           pinsS == {r \in S : r.fn = cur.pin}
           B == Ranked(S, LAMBDA r : FrameNumWrap(r.fn, cur.fn))
           L == List0(cur)
<1>1. /\ ~InIdr /\ Base = dec /\ Bound(cur.disp) = rp.last /\ rp.last \in Int
      /\ rp.last <= anchors.last /\ anchors.last \in Nat
  BY TheBound
<1>2. K = {r \in Base : r.disp >= rp.last} /\ IsFiniteSet(K)
  BY <1>1, TheCandidates
<1>3. /\ S \subseteq Base /\ IsFiniteSet(S) /\ \A r \in Base : r.disp \in Nat
  BY <1>1, TheWindow, FS_Subset
<1>4. K \subseteq S
  BY <1>1, <1>2, <1>3
<1>5. \A t \in K : \A q \in S : ByNumber[q] > ByNumber[t] => q \in K
  <2> SUFFICES ASSUME NEW t \in K, NEW q \in S, ByNumber[q] > ByNumber[t] PROVE q \in K
    OBVIOUS
  <2>1. Age(q.fn, nextFn) < Age(t.fn, nextFn)
    BY <1>2, <1>3, TheOrders
  <2>2. t \in Base /\ q \in Base /\ rp.last <= t.disp
    BY <1>1, <1>2, <1>3
  <2>3. rp.last <= q.disp
    BY <2>1, <2>2 DEF DpbIInv, BaseInv, Closed
  <2> QED BY <1>1, <1>2, <1>3, <2>2, <2>3
<1>6. Orders(ByNumber, S) /\ Orders(ByNumber, K)
  BY <1>2, <1>3, TheOrders, OrdersPart
<1>7. Lists(B, S, ByNumber)
  <2>1. \A r \in S : ByNumber[r] = FrameNumWrap(r.fn, cur.fn)
    BY <1>3 DEF ByNumber
  <2> QED BY <1>3, <1>6, <2>1, RankedWrap
<1>8. Lists(ByNum, K, ByNumber)
  BY ByNumLists
<1>9. /\ ByNum \in Seq(K) /\ ByNum \in Seq(S) /\ B \in Seq(S)
      /\ \A i \in 1 .. Len(ByNum) : IsNth(K, ByNumber, ByNum[i], i)
      /\ \A i, j \in 1 .. Len(B) : B[i] = B[j] => i = j
  BY <1>4, <1>7, <1>8, SeqMonotonic DEF Lists
<1> HIDE DEF K, B
<1>10. AllNth(ByNum, S, ByNumber)
  <2> SUFFICES ASSUME NEW i \in 1 .. Len(ByNum) PROVE IsNth(S, ByNumber, ByNum[i], i)
    BY DEF AllNth
  <2>1. IsNth(K, ByNumber, ByNum[i], i) /\ ByNum[i] \in K
    BY <1>9 DEF IsNth
  <2> QED BY <1>4, <1>5, <2>1, NthOfTop
<1>11. Begins(ByNum, B)
  <2>1. IsFiniteSet(S) /\ ByNum \in Seq(S) /\ Orders(ByNumber, S)
    BY <1>3, <1>6, <1>9
  <2> QED BY <1>7, <1>10, <2>1, FirstOfOne
<1>12. PICK q \in Base : q.disp = anchors.last /\ cur.pin = q.fn
  <2>1. pc \in {"tail", "anchor", "b"}
    BY DEF DpbIInv, CurInv
  <2>2. pc # "b"
    BY TheBound
  <2>3. pc = "anchor" => run.kind = "p"
    <3>1. pc = "anchor" => run.kind # "none" /\ run.kind # "key" /\ cur.kind = run.kind
      BY DEF DpbIInv, CurInv, RunInv
    <3>2. run.kind \in {"none", "idr", "p", "key"}
      BY DEF DpbIInv, DpbTypeOK
    <3> QED BY <1>1, <3>1, <3>2 DEF InIdr
  <2> QED BY <2>1, <2>2, <2>3 DEF DpbIInv, CurInv
<1>13. /\ q \in K /\ q \in S
       /\ \A r \in Base : r.fn = cur.pin => r = q
  <2>1. q \in K
    BY <1>1, <1>2, <1>12 DEF K
  <2> QED BY <1>4, <1>12, <2>1 DEF DpbIInv, BaseInv, Numbered
<1>14. pins = {q} /\ pinsS = {q}
  BY <1>2, <1>3, <1>12, <1>13 DEF K
<1>15. PyramidP(cur) = Pinned(ByNum, q)
  <2>1. PyramidP(cur) = IF pins = {} THEN ByNum ELSE Pinned(ByNum, CHOOSE r \in pins : TRUE)
    BY ByNumLists DEF K
  <2>2. (CHOOSE r \in pins : TRUE) = q
    BY <1>14
  <2> QED BY <1>14, <2>1, <2>2
<1>16. L = Prefix(Pinned(ByNum, q), NRef(conf)) /\ NRef(conf) \in Nat /\ 1 <= NRef(conf)
  BY <1>15, PyramidListsCandidates
<1>17. Holds(ByNum, q)
  BY <1>8, <1>13 DEF Lists, Holds
<1>18. L = Prefix(Pinned(Prefix(B, Len(L)), q), Len(L))
  <2>1. ByNum \in Seq(S) /\ B \in Seq(S) /\ q \in S /\ NRef(conf) \in Nat /\ 1 <= NRef(conf)
    BY <1>9, <1>13, <1>16
  <2>2. Distinct(B)
    BY <1>9 DEF Distinct
  <2> QED BY <1>11, <1>16, <1>17, <2>1, <2>2, PinnedAgree
<1>19. DecList0(S, cur, Len(L)) = Prefix(Pinned(Prefix(B, Len(L)), CHOOSE r \in pinsS : TRUE), Len(L))
  BY <1>14 DEF DecList0, B
<1>20. (CHOOSE r \in pinsS : TRUE) = q
  BY <1>14
<1> QED BY <1>18, <1>19, <1>20

\* The list of a B picture of the pyramid.
LEMMA PyramidBAgrees ==
    ASSUME DpbIInv, cur # None, cur.type = "B", conf.pyramid, ~conf.fields,
           NEW b \in Int, b <= Bound(cur.disp), NEW S, S = {r \in dec : r.disp >= b}
    PROVE  List0(cur) = DecList0(S, cur, Len(List0(cur)))
PROOF
<1> DEFINE K == {r \in Candidates(cur) : r.disp < cur.disp}
           P == Past(S, cur.disp)
           F == Future(S, cur.disp)
           A == Ranked(K, LAMBDA r : r.disp)
           B == Ranked(P, LAMBDA r : r.disp)
           C == Ranked(F, LAMBDA r : -r.disp)
           L == List0(cur)
<1>1. /\ ~InIdr /\ Base = dec /\ Bound(cur.disp) \in Int /\ cur.disp \in Nat
  BY TheBound
<1>2. K = {r \in Base : r.disp >= Bound(cur.disp) /\ r.disp < cur.disp}
  BY <1>1, TheCandidates
<1>3. /\ P = {r \in Base : r.disp >= b /\ r.disp < cur.disp}
      /\ F = {r \in Base : r.disp >= b /\ r.disp > cur.disp}
  BY <1>1 DEF Past, Future
<1>4. /\ IsFiniteSet(K) /\ IsFiniteSet(P) /\ IsFiniteSet(F)
      /\ \A r \in Base : r.disp \in Nat
  BY <1>2, <1>3, TheWindow, FS_Subset
<1>5. K \subseteq P
  BY <1>1, <1>2, <1>3, <1>4
<1>6. \A t \in K : \A q \in P : ByDisp[q] > ByDisp[t] => q \in K
  BY <1>1, <1>2, <1>3, <1>4 DEF ByDisp
<1>7. Orders(ByDisp, K) /\ Orders(ByDisp, P)
  BY <1>2, <1>3, TheOrders, OrdersPart
<1>8. /\ \A r \in K : ByDisp[r] = r.disp
      /\ \A r \in P : ByDisp[r] = r.disp
  BY <1>2, <1>3 DEF ByDisp
<1>9. Lists(A, K, ByDisp) /\ Lists(B, P, ByDisp)
  BY <1>4, <1>7, <1>8, RankedUp
<1>10. C \in Seq(F)
  <2> DEFINE g == [r \in F |-> -r.disp]
  <2>1. \A r, q \in F : r.disp = q.disp => r = q
    BY <1>3 DEF DpbIInv, BaseInv, Numbered
  <2>2. Orders(g, F) /\ \A r \in F : g[r] = -r.disp
    BY <1>3, <1>4, <2>1 DEF Orders
  <2> HIDE DEF g
  <2>3. Lists(C, F, g)
    BY <1>4, <2>2, RankedDown
  <2> QED BY <2>3 DEF Lists
<1> HIDE DEF A, B, C, K, P, F
<1>11. /\ A \in Seq(K) /\ \A i \in 1 .. Len(A) : IsNth(K, ByDisp, A[i], i)
  BY <1>9 DEF Lists
<1>12. L = Prefix(A, NRef(conf)) /\ NRef(conf) \in Nat
  BY PyramidListsCandidates DEF PyramidB, A, K
<1>13. /\ L \in Seq(K) /\ Len(L) = (IF Len(A) <= NRef(conf) THEN Len(A) ELSE NRef(conf))
       /\ \A i \in 1 .. Len(L) : L[i] = A[i]
  BY <1>11, <1>12, PrefixIs
<1>14. L \in Seq(P)
  BY <1>5, <1>13, SeqMonotonic
<1> HIDE DEF L
<1>15. AllNth(L, P, ByDisp)
  <2> SUFFICES ASSUME NEW i \in 1 .. Len(L) PROVE IsNth(P, ByDisp, L[i], i)
    BY DEF AllNth
  <2>0. Len(A) \in Nat
    BY <1>11, LenProperties
  <2>1. i \in 1 .. Len(A) /\ L[i] = A[i]
    BY <1>12, <1>13, <2>0
  <2>2. IsNth(K, ByDisp, L[i], i) /\ L[i] \in K
    BY <1>11, <2>1 DEF IsNth
  <2> QED BY <1>5, <1>6, <2>2, NthOfTop
<1>16. C \in Seq(Base) /\ P \subseteq Base
  BY <1>3, <1>10, SeqMonotonic
<1>17. L = Prefix(B \o C, Len(L))
  BY <1>4, <1>7, <1>9, <1>14, <1>15, <1>16, FirstOfTwo
<1>18. DecList0(S, cur, Len(L)) = Prefix(B \o C, Len(L))
  BY DEF DecList0, B, C, P, F
<1> QED BY <1>17, <1>18 DEF L

\* The anchor behind a B picture leads list 1.
LEMMA List1Agrees ==
    ASSUME DpbIInv, cur # None, cur.type = "B",
           NEW b \in Int, b <= Bound(cur.disp), NEW S, S = {r \in dec : r.disp >= b}
    PROVE  /\ ~conf.fields => List1(cur) = DecList1(S, cur)[1].disp
           /\ \E r \in S : r.disp = List1(cur)
PROOF
<1> DEFINE F == Future(Base, cur.disp)
           g == [r \in F |-> -r.disp]
           C == Ranked(F, LAMBDA r : -r.disp)
<1>1. /\ ~InIdr /\ ~Emptied /\ cur.disp \in Nat /\ cur.disp < anchors.last /\ pc = "b"
      /\ Bound(cur.disp) \in Int /\ Bound(cur.disp) <= cur.disp
      /\ run.first <= cur.disp /\ anchors.last \in Nat
      /\ ~conf.fields => Base = dec
  BY TheBound
<1>2. /\ IsFiniteSet(Base) /\ \A r \in Base : r.disp \in Nat
      /\ \A r, q \in Base : r.disp = q.disp => r = q
      /\ \A r \in Base : r.disp <= anchors.last
  BY TheWindow DEF DpbIInv, BaseInv, Numbered
<1>3. Base \subseteq dec /\ dec \subseteq Entries
  BY <1>1 DEF Base, DpbIInv, DpbTypeOK
<1>4. PICK an \in Base : an.disp = anchors.last
  BY <1>1, TheBound
<1>5. an \in F /\ F \subseteq Base /\ F \subseteq S
  BY <1>1, <1>2, <1>3, <1>4 DEF Future
<1>6. IsFiniteSet(F) /\ Orders(g, F) /\ \A r \in F : g[r] = -r.disp
  BY <1>2, <1>5, FS_Subset DEF Orders
<1>7. Lists(C, F, g)
  <2> HIDE DEF g, F
  <2> QED BY <1>6, RankedDown
<1> HIDE DEF C
<1>8. PICK e \in F : e = C[1] /\ \A q \in F : q.disp >= e.disp
  <2>1. Cardinality(F) \in Nat /\ Cardinality(F) # 0
    BY <1>5, <1>6, FS_CardinalityType, FS_EmptySet
  <2>2. 1 \in 1 .. Len(C)
    BY <1>7, <2>1 DEF Lists
  <2>3. IsNth(F, g, C[1], 1)
    BY <1>7, <2>2 DEF Lists
  <2>4. C[1] \in F /\ Cardinality(Above(F, g, C[1])) = 0
    BY <2>3 DEF IsNth
  <2>5. Above(F, g, C[1]) = {}
    <3>1. IsFiniteSet(Above(F, g, C[1]))
      BY <1>6, FS_Subset DEF Above
    <3> QED BY <2>4, <3>1, FS_EmptySet
  <2>6. ASSUME NEW q \in F PROVE q.disp >= C[1].disp
    <3>1. ~(g[q] > g[C[1]])
      BY <2>5 DEF Above
    <3>2. g[q] = -q.disp /\ g[C[1]] = -C[1].disp /\ q.disp \in Nat /\ C[1].disp \in Nat
      BY <1>2, <1>5, <2>4
    <3> HIDE DEF F, g
    <3> QED BY <3>1, <3>2
  <2> QED BY <2>4, <2>6
<1>9. ASSUME conf.pyramid PROVE List1(cur) = e.disp
  <2>1. dpb = Base
    BY <1>9 DEF DpbIInv, BaseInv
  <2>2. List1(cur) = Earliest(F).disp
    BY <1>9, <2>1 DEF List1
  <2>3. Earliest(F) \in F /\ \A q \in F : q.disp >= Earliest(F).disp
    BY <1>8 DEF Earliest
  <2>4. Earliest(F).disp = e.disp
    <3>1. Earliest(F).disp \in Nat /\ e.disp \in Nat
      BY <1>2, <1>5, <2>3
    <3> HIDE DEF F
    <3>2. Earliest(F).disp <= e.disp /\ e.disp <= Earliest(F).disp
      BY <1>8, <2>3
    <3> QED BY <3>1, <3>2
  <2> QED BY <2>2, <2>4
<1>10. ASSUME ~conf.pyramid PROVE List1(cur) = e.disp
  <2>1. \A r \in Base : r.disp >= run.first => r.disp = anchors.last
    BY <1>1, <1>10 DEF DpbIInv, BurstInv
  <2>2. e.disp > cur.disp /\ e \in Base
    BY <1>5, <1>8 DEF Future
  <2>3. run.first \in Nat
    BY DEF DpbIInv, DpbTypeOK
  <2>4. e.disp = anchors.last
    BY <1>1, <1>2, <2>1, <2>2, <2>3
  <2> QED BY <1>10, <2>4 DEF List1
<1>11. List1(cur) = e.disp
  BY <1>9, <1>10
<1>12. ASSUME ~conf.fields PROVE DecList1(S, cur)[1] = e
  <2>1. Future(S, cur.disp) = F
    BY <1>1, <1>2, <1>12 DEF Future
  <2>2. C \in Seq(F) /\ Len(C) = Cardinality(F)
    BY <1>7 DEF Lists
  <2>3. Cardinality(F) \in Nat /\ Cardinality(F) # 0
    BY <1>5, <1>6, FS_CardinalityType, FS_EmptySet
  <2> DEFINE P == Past(S, cur.disp)
             D == Ranked(P, LAMBDA r : r.disp)
             h == [r \in P |-> r.disp]
  <2>4. D \in Seq(P)
    <3>1. P \subseteq Base
      BY <1>1, <1>12 DEF Past
    <3>2. IsFiniteSet(P) /\ Orders(h, P) /\ \A r \in P : h[r] = r.disp
      BY <1>2, <3>1, FS_Subset DEF Orders
    <3> HIDE DEF h, P
    <3>3. Lists(D, P, h)
      BY <3>2, RankedUp
    <3> QED BY <3>3 DEF Lists
  <2>5. DecList1(S, cur) = C \o D
    BY <2>1 DEF DecList1, C
  <2> HIDE DEF D, F, P
  <2>6. C \in Seq(F \cup P) /\ D \in Seq(F \cup P)
    <3>1. F \subseteq F \cup P /\ P \subseteq F \cup P
      OBVIOUS
    <3> QED BY <2>2, <2>4, <3>1, SeqMonotonic
  <2>7. (C \o D)[1] = C[1]
    BY <2>2, <2>3, <2>6, ConcatProperties
  <2> QED BY <1>8, <2>5, <2>7
<1> QED BY <1>5, <1>8, <1>11, <1>12

\* A finite set of naturals has a least.
LEMMA LeastOf ==
    ASSUME NEW S, IsFiniteSet(S), S \subseteq Nat, S # {}
    PROVE  \E m \in S : \A j \in S : m <= j
PROOF
<1> DEFINE f == [i \in S |-> -i]
<1>1. \A i \in S : f[i] = -i /\ i \in Nat
  OBVIOUS
<1> HIDE DEF f
<1>2. Orders(f, S)
  BY <1>1 DEF Orders
<1>3. Cardinality(S) \in Nat /\ Cardinality(S) # 0
  BY FS_CardinalityType, FS_EmptySet
<1>4. PICK m \in S : IsNth(S, f, m, 1)
  BY <1>2, <1>3, NthExists
<1>5. IsFiniteSet(Above(S, f, m)) /\ Cardinality(Above(S, f, m)) = 0
  BY <1>4, FS_Subset DEF IsNth, Above
<1>6. Above(S, f, m) = {}
  BY <1>5, FS_EmptySet
<1>7. \A j \in S : m <= j
  BY <1>1, <1>6 DEF Above
<1> QED BY <1>7

\* The ring's list, cut at the bound.
LEMMA RingListIs ==
    ASSUME DpbIInv, cur # None, cur.type # "I", ~conf.pyramid
    PROVE  /\ List0(cur) \in Seq(Entries)
           /\ Len(List0(cur)) <= Len(ring) /\ Len(List0(cur)) <= NRef(conf)
           /\ \A i \in 1 .. Len(List0(cur)) : List0(cur)[i] = ring[i]
           /\ \A i \in 1 .. Len(List0(cur)) : i > 1 => ring[i].disp >= Bound(cur.disp)
           /\ ring # <<>> => List0(cur) # <<>>
PROOF
<1> DEFINE old == {i \in DOMAIN ring : i > 1 /\ ring[i].disp < Bound(cur.disp)}
           k == (CHOOSE i \in old : \A j \in old : i <= j) - 1
<1>1. /\ ring \in Seq(Entries) /\ Len(ring) \in Nat /\ DOMAIN ring = 1 .. Len(ring)
      /\ Len(ring) <= NRef(conf) /\ NRef(conf) \in Nat /\ 1 <= NRef(conf)
  BY WindowFits, LenProperties DEF DpbIInv, DpbTypeOK, FlatInv
<1>2. List0(cur) = Prefix(RingList(cur), NRef(conf))
  BY DEF List0
<1>3. Bound(cur.disp) \in Int /\ \A i \in 1 .. Len(ring) : ring[i].disp \in Nat
  <2>1. \A i \in 1 .. Len(ring) : ring[i] \in Entries
    BY <1>1, ElementOfSeq
  <2> QED BY <2>1, TheBound DEF Entries
<1>4. CASE NRef(conf) = 1 \/ old = {}
  <2>1. RingList(cur) = ring
    BY <1>4 DEF RingList
  <2>2. List0(cur) = ring
    BY <1>1, <1>2, <2>1 DEF Prefix
  <2>3. \A i \in 1 .. Len(ring) : i > 1 => ring[i].disp >= Bound(cur.disp)
    BY <1>1, <1>3, <1>4
  <2> QED BY <1>1, <2>2, <2>3
<1>5. CASE ~(NRef(conf) = 1 \/ old = {})
  <2>1. PICK m \in old : \A j \in old : m <= j
    <3>1. old \subseteq Nat /\ old # {}
      BY <1>1, <1>5
    <3>3. IsFiniteSet(old)
      <4>1. old \in SUBSET (1 .. Len(ring)) /\ IsFiniteSet(1 .. Len(ring))
        BY <1>1, FS_Interval DEF old
      <4> HIDE DEF old
      <4> QED BY <4>1, FS_Subset
    <3> HIDE DEF old
    <3> QED BY <3>1, <3>3, LeastOf
  <2>2. m \in 2 .. Len(ring)
    BY <1>1, <2>1
  <2>3. k = m - 1
    <3>1. (CHOOSE i \in old : \A j \in old : i <= j) = m
      <4>1. \A i \in old : (\A j \in old : i <= j) => i = m
        BY <1>1, <2>1
      <4> QED BY <2>1, <4>1
    <3> QED BY <3>1
  <2>4. RingList(cur) = Prefix(ring, k)
    BY <1>5 DEF RingList
  <2> HIDE DEF k, old
  <2>5. k \in Nat /\ 1 <= k /\ k < Len(ring)
    BY <1>1, <2>2, <2>3
  <2>6. /\ RingList(cur) \in Seq(Entries) /\ Len(RingList(cur)) = k
        /\ \A i \in 1 .. k : RingList(cur)[i] = ring[i]
    BY <1>1, <2>4, <2>5, PrefixIs
  <2>7. List0(cur) = RingList(cur)
    BY <1>1, <1>2, <2>5, <2>6 DEF Prefix
  <2>8. ASSUME NEW i \in 1 .. k, i > 1 PROVE ring[i].disp >= Bound(cur.disp)
    <3>1. i \in DOMAIN ring /\ i \notin old
      BY <1>1, <2>1, <2>2, <2>3, <2>5, <2>8
    <3> QED BY <1>1, <1>3, <2>8, <3>1 DEF old
  <2> QED BY <1>1, <2>5, <2>6, <2>7, <2>8
<1> QED BY <1>4, <1>5

\* The entries of the ring a list names are in the window and at or behind the
\* bound, in the order they were coded.
LEMMA RingEntries ==
    ASSUME DpbIInv, cur # None, cur.type # "I", ~conf.pyramid
    PROVE  /\ InIdr => List0(cur) = <<>>
           /\ \A i \in 1 .. Len(List0(cur)) :
                /\ List0(cur)[i] \in Base /\ List0(cur)[i].disp >= Bound(cur.disp)
                /\ Age(List0(cur)[i].fn, nextFn) = i + Lag
PROOF
<1> DEFINE L == List0(cur)
<1>1. /\ L \in Seq(Entries) /\ Len(L) \in Nat /\ Len(L) <= Len(ring) /\ Len(L) <= NRef(conf)
      /\ \A i \in 1 .. Len(L) : L[i] = ring[i]
      /\ \A i \in 1 .. Len(L) : i > 1 => ring[i].disp >= Bound(cur.disp)
      /\ ring \in Seq(Entries) /\ Len(ring) \in Nat
  BY RingListIs, LenProperties DEF DpbIInv, DpbTypeOK
<1> HIDE DEF L
<1>2. /\ NRef(conf) + (IF conf.bframes > 0 THEN 1 ELSE 0) <= Window(conf)
      /\ NRef(conf) \in Nat /\ Window(conf) \in Nat /\ 1 <= Window(conf) /\ conf.bframes \in 0 .. 7
  <2>1. conf \in Configs
    BY DEF DpbIInv, DpbTypeOK
  <2> QED BY <2>1, WindowFits
<1>3. Lag \in {0, 1} /\ (Lag = 1 => conf.bframes > 0)
  <2>1. pc = "b" => run.n >= 1
    <3>1. cur.type = "P" => pc # "b"
      BY TheBound
    <3>2. cur.type \in {"P", "B"} /\ cur \in Pictures
      BY TheBound DEF DpbIInv, DpbTypeOK
    <3>3. pc = "b" => cur.disp \in run.first .. run.first + run.n - 1
      BY DEF DpbIInv, CurInv
    <3>4. run.first \in Nat /\ run.n \in 0 .. 7 /\ run.n <= conf.bframes
      BY DEF DpbIInv, DpbTypeOK
    <3> QED BY <3>3, <3>4
  <2>2. run.n \in 0 .. 7 /\ run.n <= conf.bframes
    BY DEF DpbIInv, DpbTypeOK
  <2> QED BY <1>2, <2>1, <2>2 DEF Lag
<1>4. ASSUME NEW i \in 1 .. Len(L)
      PROVE  L[i] \in Base /\ Age(L[i].fn, nextFn) = i + Lag
  <2>1. i \in 1 .. Len(ring) /\ i + Lag <= Window(conf) /\ L[i] = ring[i]
    BY <1>1, <1>2, <1>3
  <2> QED BY <2>1 DEF DpbIInv, FlatInv
<1>5. ASSUME InIdr PROVE L = <<>>
  <2>1. Base = {}
    BY <1>5 DEF DpbIInv, BaseInv
  <2>2. ~(1 \in 1 .. Len(L))
    BY <1>4, <2>1
  <2>3. Len(L) = 0
    BY <1>1, <2>2
  <2> QED BY <1>1, <2>3, EmptySeq
<1>6. ASSUME NEW i \in 1 .. Len(L) PROVE L[i].disp >= Bound(cur.disp)
  <2>1. ~InIdr
    <3>1. SUFFICES ASSUME InIdr PROVE FALSE
      OBVIOUS
    <3> QED BY <1>4, <3>1 DEF DpbIInv, BaseInv
  <2>2. CASE i > 1
    BY <1>1, <2>2
  <2>3. CASE i = 1
    <3>1. L[1] = ring[1] /\ ring # <<>>
      BY <1>1, <2>3
    <3>2. Started
      BY <2>1, TheBound DEF Started, NoKey
    <3>3. anchors.last \in Nat /\ Bound(cur.disp) \in Int /\ Bound(cur.disp) <= anchors.last
      BY <2>1, TheBound
    <3>4. CASE pc # "b"
      BY <2>1, <2>3, <3>1, <3>2, <3>3, <3>4 DEF DpbIInv, FlatInv
    <3>5. CASE pc = "b"
      <4>1. cur.type = "B"
        BY <3>5, TheBound
      <4>2. run.kind # "idr" /\ Bound(cur.disp) <= anchors.last2
        BY <4>1, TheBound
      <4>3. ring[1].disp = anchors.last2 /\ anchors.last2 \in Nat \cup {-1}
        BY <3>5, <4>2 DEF DpbIInv, FlatInv, DpbTypeOK, NoKey
      <4> QED BY <2>3, <3>1, <3>3, <4>2, <4>3
    <3> QED BY <3>4, <3>5
  <2> QED BY <2>2, <2>3
<1> QED BY <1>4, <1>5, <1>6 DEF L

\* A sequence whose elements are all in S.
LEMMA SeqOfThem ==
    ASSUME NEW T, NEW s \in Seq(T), NEW S, \A i \in 1 .. Len(s) : s[i] \in S
    PROVE  s \in Seq(S)
PROOF
<1>1. Len(s) \in Nat /\ DOMAIN s = 1 .. Len(s) /\ s = [i \in 1 .. Len(s) |-> s[i]]
  BY LenProperties
<1>2. s \in [1 .. Len(s) -> S]
  BY <1>1
<1> QED BY <1>1, <1>2, SeqDef

\* The list of a P picture of the flat path.
LEMMA FlatPAgrees ==
    ASSUME DpbIInv, cur # None, cur.type = "P", ~conf.pyramid, ~conf.fields,
           NEW b \in Int, b <= Bound(cur.disp), NEW S, S = {r \in dec : r.disp >= b}
    PROVE  List0(cur) = DecList0(S, cur, Len(List0(cur)))
PROOF
<1> DEFINE L == List0(cur)
           B == Ranked(S, LAMBDA r : FrameNumWrap(r.fn, cur.fn))
<1>1. /\ ~InIdr /\ Base = dec /\ Bound(cur.disp) \in Int /\ pc # "b" /\ Lag = 0
  BY TheBound DEF Lag
<1>2. /\ S \subseteq Base /\ IsFiniteSet(S) /\ \A r \in Base : r.disp \in Nat /\ r.fn \in Numbers
  BY <1>1, TheWindow, FS_Subset
<1>3. L \in Seq(Entries) /\ Len(L) \in Nat
  BY RingListIs, LenProperties
<1>4. \A i \in 1 .. Len(L) : L[i] \in S /\ L[i] \in Base /\ Age(L[i].fn, nextFn) = i
  <2> SUFFICES ASSUME NEW i \in 1 .. Len(L)
               PROVE  L[i] \in S /\ L[i] \in Base /\ Age(L[i].fn, nextFn) = i
    OBVIOUS
  <2>1. L[i] \in Base /\ L[i].disp >= Bound(cur.disp) /\ Age(L[i].fn, nextFn) = i + Lag
    BY RingEntries
  <2> HIDE DEF L
  <2>2. L[i].disp >= b
    BY <1>1, <1>2, <2>1
  <2> QED BY <1>1, <1>3, <2>1, <2>2
<1>5. Orders(ByNumber, S) /\ Orders(ByNumber, Base)
  BY <1>2, TheOrders, OrdersPart
<1> HIDE DEF L
<1>6. ASSUME NEW i \in 1 .. Len(L) PROVE IsNth(Base, ByNumber, L[i], i)
  <2> DEFINE T == {q \in Base : Age(q.fn, nextFn) < i}
  <2>1. L[i] \in Base /\ Age(L[i].fn, nextFn) = i
    BY <1>4
  <2>2. Above(Base, ByNumber, L[i]) = T
    BY <2>1, TheOrders DEF Above
  <2>3. /\ nextFn \in Numbers /\ Numbered(Base, nextFn) /\ i \in Nat /\ 1 <= i
        /\ i <= Cardinality(Base) + 1
    <3>1. Age(L[i].fn, nextFn) \in 1 .. Cardinality(Base) /\ Cardinality(Base) \in Nat
      BY <2>1, TheWindow DEF DpbIInv, BaseInv, Numbered
    <3> QED BY <1>3, <2>1, <3>1 DEF DpbIInv, BaseInv, DpbTypeOK
  <2>4. Cardinality(T) = i - 1
    BY <2>3, CountYounger
  <2> QED BY <2>1, <2>2, <2>4 DEF IsNth
<1>7. \A t \in S : \A q \in Base : ByNumber[q] > ByNumber[t] => q \in S
  <2> SUFFICES ASSUME NEW t \in S, NEW q \in Base, ByNumber[q] > ByNumber[t] PROVE q \in S
    OBVIOUS
  <2>1. Age(q.fn, nextFn) < Age(t.fn, nextFn)
    BY <1>2, TheOrders
  <2>2. q.disp > t.disp
    BY <1>2, <2>1 DEF DpbIInv, FlatInv
  <2>3. t.disp \in Nat /\ q.disp \in Nat /\ t.disp >= b
    BY <1>2
  <2>4. q.disp >= b
    BY <2>2, <2>3
  <2> QED BY <1>1, <2>4
<1>8. L \in Seq(S)
  BY <1>3, <1>4, SeqOfThem
<1>9. AllNth(L, S, ByNumber)
  <2> SUFFICES ASSUME NEW i \in 1 .. Len(L) PROVE IsNth(S, ByNumber, L[i], i)
    BY DEF AllNth
  <2>1. IsNth(Base, ByNumber, L[i], i) /\ L[i] \in S
    BY <1>4, <1>6
  <2> QED BY <1>2, <1>7, <2>1, NthOfTop
<1>10. Lists(B, S, ByNumber)
  <2>1. \A r \in S : ByNumber[r] = FrameNumWrap(r.fn, cur.fn)
    BY <1>2 DEF ByNumber
  <2> QED BY <1>2, <1>5, <2>1, RankedWrap
<1> HIDE DEF B
<1>11. L = Prefix(B, Len(L))
  BY <1>2, <1>5, <1>8, <1>9, <1>10, FirstOfOne
<1>12. {r \in S : r.fn = cur.pin} = {}
  <2>1. cur.pin = None
    BY DEF DpbIInv, FlatInv
  <2> QED BY <1>2, <2>1, NoneAssumption DEF Numbers
<1>13. DecList0(S, cur, Len(L)) = Prefix(B, Len(L))
  BY <1>12 DEF DecList0, B
<1> QED BY <1>11, <1>13 DEF L

\* The list of a B picture of the flat path: the anchor behind it is the youngest
\* entry, and the ring begins with the next.
LEMMA FlatBAgrees ==
    ASSUME DpbIInv, cur # None, cur.type = "B", ~conf.pyramid, ~conf.fields,
           NEW b \in Int, b <= Bound(cur.disp), NEW S, S = {r \in dec : r.disp >= b}
    PROVE  List0(cur) = DecList0(S, cur, Len(List0(cur)))
PROOF
<1> DEFINE L == List0(cur)
           Q == Past(Base, cur.disp)
           P == Past(S, cur.disp)
           F == Future(S, cur.disp)
           B == Ranked(P, LAMBDA r : r.disp)
           C == Ranked(F, LAMBDA r : -r.disp)
           an == [disp |-> anchors.last, fn |-> lastFn]
<1>1. /\ ~InIdr /\ Base = dec /\ Bound(cur.disp) \in Int /\ pc = "b" /\ Lag = 1
      /\ run.first <= cur.disp /\ cur.disp < anchors.last /\ cur.disp \in Nat
      /\ anchors.last \in Nat /\ run.first \in Nat
  BY TheBound DEF Lag, DpbIInv, DpbTypeOK
<1>2. /\ Base \subseteq Entries /\ IsFiniteSet(Base)
      /\ \A r \in Base : r.disp \in Nat /\ r.fn \in Numbers
      /\ \A r, q \in Base : r.fn = q.fn => r = q
      /\ \A r, q \in Base : r.disp = q.disp => r = q
      /\ Numbered(Base, nextFn) /\ nextFn \in Numbers /\ lastFn \in Numbers
  BY TheWindow DEF DpbIInv, BaseInv, Numbered, DpbTypeOK
<1>3. /\ P = {r \in Base : r.disp >= b /\ r.disp < cur.disp}
      /\ F = {r \in Base : r.disp >= b /\ r.disp > cur.disp}
      /\ Q = {r \in Base : r.disp < cur.disp}
  BY <1>1 DEF Past, Future
<1>4. an \in Base /\ Age(an.fn, nextFn) = 1
  <2>1. an \in Base
    BY <1>1 DEF DpbIInv, FlatInv
  <2>2. nextFn = (lastFn + 1) % MaxFn
    BY <2>1 DEF DpbIInv, BaseInv
  <2> QED BY <1>2, <2>1, <2>2, AgeStep
<1>5. L \in Seq(Entries) /\ Len(L) \in Nat
  BY RingListIs, LenProperties
<1>6. ASSUME NEW i \in 1 .. Len(L)
      PROVE  L[i] \in P /\ L[i] \in Q /\ L[i] \in Base /\ Age(L[i].fn, nextFn) = i + 1
  <2>1. L[i] \in Base /\ L[i].disp >= Bound(cur.disp) /\ Age(L[i].fn, nextFn) = i + Lag
    BY RingEntries
  <2> HIDE DEF L
  <2>2. L[i].disp >= b /\ Age(L[i].fn, nextFn) = i + 1
    BY <1>1, <1>2, <2>1
  <2>3. L[i].disp < run.first
    <3>1. L[i] # an
      BY <1>4, <1>5, <2>2
    <3>2. L[i].disp # anchors.last
      BY <1>2, <1>4, <2>1, <3>1
    <3>3. L[i].disp >= run.first => conf.pyramid
      BY <1>1, <2>1, <3>2 DEF DpbIInv, BurstInv
    <3> QED BY <1>1, <1>2, <2>1, <3>3
  <2>4. L[i].disp < cur.disp
    BY <1>1, <1>2, <2>1, <2>3
  <2> QED BY <1>3, <2>1, <2>2, <2>4
<1>7. \A q \in Base : q \in Q \/ q = an
  <2> SUFFICES ASSUME NEW q \in Base, q # an PROVE q \in Q
    OBVIOUS
  <2>1. q.disp # anchors.last
    BY <1>2, <1>4
  <2>2. q.disp < run.first
    <3>1. q.disp >= run.first => conf.pyramid
      BY <1>1, <2>1 DEF DpbIInv, BurstInv
    <3> QED BY <1>1, <1>2, <3>1
  <2>3. q.disp < cur.disp
    BY <1>1, <1>2, <2>2
  <2> QED BY <1>3, <2>3
<1>8. an \notin Q
  BY <1>1, <1>3
<1>9. \A r, q \in Base : r.disp > q.disp <=> Age(r.fn, nextFn) < Age(q.fn, nextFn)
  <2> SUFFICES ASSUME NEW r \in Base, NEW q \in Base
               PROVE  r.disp > q.disp <=> Age(r.fn, nextFn) < Age(q.fn, nextFn)
    OBVIOUS
  <2>1. /\ Age(r.fn, nextFn) < Age(q.fn, nextFn) => r.disp > q.disp
        /\ Age(q.fn, nextFn) < Age(r.fn, nextFn) => q.disp > r.disp
    BY DEF DpbIInv, FlatInv
  <2>2. Age(q.fn, nextFn) = Age(r.fn, nextFn) => q.fn = r.fn
    BY <1>2, MaxFnAssumption DEF Age, Numbers
  <2>3. q.fn = r.fn => q.disp = r.disp
    BY <1>2
  <2>4. Age(q.fn, nextFn) \in Int /\ Age(r.fn, nextFn) \in Int /\ q.disp \in Nat /\ r.disp \in Nat
    BY <1>2, AgeStep
  <2> QED BY <2>1, <2>2, <2>3, <2>4
<1>10. Orders(ByDisp, P) /\ Orders(ByDisp, Q)
  BY <1>3, TheOrders, OrdersPart
<1> HIDE DEF L
<1>11. ASSUME NEW i \in 1 .. Len(L) PROVE IsNth(Q, ByDisp, L[i], i)
  <2>0. PICK a \in Nat : a = i + 1
    BY <1>5
  <2> DEFINE T == {q \in Base : Age(q.fn, nextFn) < a}
  <2>1. L[i] \in Base /\ L[i] \in Q /\ Age(L[i].fn, nextFn) = i + 1
    BY <1>6
  <2>2. Above(Q, ByDisp, L[i]) = T \ {an}
    <3>1. \A q \in Q : q \in Base /\ q # an /\ (ByDisp[q] > ByDisp[L[i]] <=> q.disp > L[i].disp)
      BY <1>3, <1>8, <2>1 DEF ByDisp
    <3>2. \A q \in T \ {an} : q \in Q
      BY <1>7
    <3>3. \A q \in Q : ByDisp[q] > ByDisp[L[i]] <=> Age(q.fn, nextFn) < i + 1
      BY <1>9, <2>1, <3>1
    <3> QED BY <2>0, <3>1, <3>2, <3>3 DEF Above
  <2>3. i \in Nat /\ 1 <= i /\ i + 1 <= Cardinality(Base) + 1
    <3>1. Age(L[i].fn, nextFn) \in 1 .. Cardinality(Base) /\ Cardinality(Base) \in Nat
      BY <2>1, TheWindow DEF DpbIInv, BaseInv, Numbered
    <3> QED BY <1>5, <2>1, <3>1
  <2>4. IsFiniteSet(T) /\ Cardinality(T) = a - 1
    <3>1. 1 <= a /\ a <= Cardinality(Base) + 1
      BY <2>0, <2>3
    <3> QED BY <1>2, <3>1, CountYounger
  <2>5. an \in T
    BY <1>4, <2>0, <2>3
  <2> HIDE DEF T, an
  <2>6. Cardinality(T \ {an}) = i - 1
    <3>1. Cardinality(T \ {an}) = Cardinality(T) - 1
      BY <2>4, <2>5, FS_RemoveElement
    <3> QED BY <2>0, <2>3, <2>4, <3>1
  <2> QED BY <2>1, <2>2, <2>6 DEF IsNth, T, an
<1>12. \A t \in P : \A q \in Q : ByDisp[q] > ByDisp[t] => q \in P
  <2> SUFFICES ASSUME NEW t \in P, NEW q \in Q, ByDisp[q] > ByDisp[t] PROVE q \in P
    OBVIOUS
  <2>1. q.disp > t.disp /\ q.disp \in Nat /\ t.disp \in Nat /\ t.disp >= b /\ q.disp < cur.disp
    BY <1>2, <1>3 DEF ByDisp
  <2>2. q.disp >= b
    BY <2>1
  <2> QED BY <1>3, <2>1, <2>2
<1>13. IsFiniteSet(P) /\ P \subseteq Q /\ IsFiniteSet(F) /\ F \subseteq Base /\ P \subseteq Base
  BY <1>2, <1>3, FS_Subset
<1>14. L \in Seq(P)
  BY <1>5, <1>6, SeqOfThem
<1>15. AllNth(L, P, ByDisp)
  <2> SUFFICES ASSUME NEW i \in 1 .. Len(L) PROVE IsNth(P, ByDisp, L[i], i)
    BY DEF AllNth
  <2>1. IsNth(Q, ByDisp, L[i], i) /\ L[i] \in P
    BY <1>6, <1>11
  <2> QED BY <1>12, <1>13, <2>1, NthOfTop
<1>16. Lists(B, P, ByDisp)
  <2>1. \A r \in P : ByDisp[r] = r.disp
    BY <1>3 DEF ByDisp
  <2> QED BY <1>10, <1>13, <2>1, RankedUp
<1>17. C \in Seq(F)
  <2> DEFINE g == [r \in F |-> -r.disp]
  <2>1. Orders(g, F) /\ \A r \in F : g[r] = -r.disp
    BY <1>2, <1>13 DEF Orders
  <2> HIDE DEF g
  <2>2. Lists(C, F, g)
    BY <1>13, <2>1, RankedDown
  <2> QED BY <2>2 DEF Lists
<1> HIDE DEF B, C, P, F, Q
<1>18. C \in Seq(Base)
  BY <1>13, <1>17, SeqMonotonic
<1>19. L = Prefix(B \o C, Len(L))
  BY <1>10, <1>13, <1>14, <1>15, <1>16, <1>18, FirstOfTwo
<1>20. DecList0(S, cur, Len(L)) = Prefix(B \o C, Len(L))
  BY DEF DecList0, B, C, P, F
<1> QED BY <1>19, <1>20 DEF L

\* Field lists name only pictures the decoder holds.
LEMMA FieldsAgree ==
    ASSUME DpbIInv, cur # None, cur.type # "I", conf.fields,
           NEW b \in Int, b <= Bound(cur.disp), NEW S, S = {r \in dec : r.disp >= b}
    PROVE  FieldNames(cur) \subseteq {r.disp : r \in S}
PROOF
<1> DEFINE L == List0(cur)
<1>1. /\ ~Emptied /\ cur.disp \in Nat /\ Bound(cur.disp) \in Int /\ Bound(cur.disp) <= cur.disp
  BY TheBound
<1>2. Base \subseteq dec /\ \A r \in Base : r.disp \in Nat
  BY <1>1, TheWindow DEF Base
<1>3. ASSUME NEW i \in 1 .. Len(L), ~InIdr PROVE L[i] \in Base /\ L[i].disp >= Bound(cur.disp)
  <2>1. CASE ~conf.pyramid
    BY <2>1, RingEntries
  <2>2. CASE conf.pyramid
    <3>1. L \in Seq(Candidates(cur)) /\ Candidates(cur) = {r \in Base : r.disp >= Bound(cur.disp)}
      BY <1>3, <2>2, PyramidListsCandidates, TheCandidates
    <3> HIDE DEF L
    <3>2. L[i] \in Candidates(cur)
      BY <3>1, ElementOfSeq
    <3> QED BY <3>1, <3>2
  <2> QED BY <2>1, <2>2
<1>4. ASSUME InIdr PROVE Len(L) = 0 /\ L \in Seq({})
  <2>1. CASE ~conf.pyramid
    <3>1. L = <<>>
      BY <1>4, <2>1, RingEntries
    <3> QED BY <3>1, EmptySeq
  <2>2. CASE conf.pyramid
    <3>1. L \in Seq({})
      BY <1>4, <2>2, PyramidListsCandidates, TheCandidates
    <3> HIDE DEF L
    <3>2. Len(L) \in Nat /\ \A i \in 1 .. Len(L) : L[i] \in {}
      BY <3>1, ElementOfSeq, LenProperties
    <3>3. Len(L) = 0
      BY <3>2
    <3> QED BY <3>1, <3>3
  <2> QED BY <2>1, <2>2
<1>5. DOMAIN L = 1 .. Len(L)
  <2>1. L \in Seq(Entries) \/ L \in Seq(Candidates(cur))
    BY RingListIs, PyramidListsCandidates
  <2> QED BY <2>1, LenProperties
<1>6. \A r \in Elements(L) : \E q \in S : q.disp = r.disp
  <2> SUFFICES ASSUME NEW i \in 1 .. Len(L) PROVE \E q \in S : q.disp = L[i].disp
    BY <1>5 DEF Elements
  <2> HIDE DEF L
  <2>1. ~InIdr
    BY <1>4
  <2>2. L[i] \in Base /\ L[i].disp >= Bound(cur.disp) /\ L[i].disp \in Nat
    BY <1>2, <1>3, <2>1
  <2>3. L[i].disp >= b
    BY <1>1, <2>2
  <2> QED BY <1>2, <2>2, <2>3
<1>7. ASSUME cur.second, cur.isref PROVE \E q \in S : q.disp = cur.disp
  <2>1. Entry(cur) \in dec
    BY <1>7 DEF DpbIInv, BaseInv, Halfway
  <2>2. Entry(cur).disp = cur.disp /\ cur.disp >= b
    BY <1>1 DEF Entry
  <2> QED BY <2>1, <2>2
<1>8. ASSUME cur.type = "B" PROVE \E q \in S : q.disp = List1(cur)
  BY <1>8, List1Agrees
<1> QED BY <1>6, <1>7, <1>8 DEF FieldNames

\* The references of the picture being coded are those of every decoder that holds
\* what lies at or behind some display number b, no later than its bound.
LEMMA SameRefs ==
    ASSUME DpbIInv, cur # None, cur.type # "I", NEW b \in Int, b <= Bound(cur.disp)
    PROVE  SameReferences({r \in dec : r.disp >= b}, cur)
PROOF
<1> DEFINE S == {r \in dec : r.disp >= b}
<1>1. cur.type \in {"P", "B"}
  BY TheBound
<1> HIDE DEF S
<1>2. ASSUME conf.fields PROVE FieldNames(cur) \subseteq {r.disp : r \in S}
  BY <1>2, FieldsAgree DEF S
<1>3. ASSUME ~conf.fields PROVE List0(cur) = DecList0(S, cur, Len(List0(cur)))
  <2>1. CASE cur.type = "P" /\ conf.pyramid
    BY <1>3, <2>1, PyramidPAgrees DEF S
  <2>2. CASE cur.type = "B" /\ conf.pyramid
    BY <1>3, <2>2, PyramidBAgrees DEF S
  <2>3. CASE cur.type = "P" /\ ~conf.pyramid
    BY <1>3, <2>3, FlatPAgrees DEF S
  <2>4. CASE cur.type = "B" /\ ~conf.pyramid
    BY <1>3, <2>4, FlatBAgrees DEF S
  <2> QED BY <1>1, <2>1, <2>2, <2>3, <2>4
<1>4. ASSUME ~conf.fields, cur.type = "B" PROVE List1(cur) = DecList1(S, cur)[1].disp
  BY <1>4, List1Agrees DEF S
<1>5. SameReferences(S, cur)
  BY <1>2, <1>3, <1>4 DEF SameReferences
<1> QED BY <1>5 DEF S

\* DecoderAgrees follows from the invariant.
LEMMA DecoderAgreesNow == DpbIInv => DecoderAgrees
PROOF
<1> SUFFICES ASSUME DpbIInv PROVE DecoderAgrees
  OBVIOUS
<1>1. Cardinality(dpb) <= Window(conf)
  <2>1. dpb = Base \/ dpb = {}
    BY DEF DpbIInv, BaseInv
  <2>2. Cardinality({}) = 0
    BY FS_EmptySet
  <2> QED BY <2>1, <2>2, TheWindow
<1>2. ASSUME cur # None, cur.type # "I" PROVE SameReferences(dec, cur)
  <2>1. -1 \in Int /\ -1 <= Bound(cur.disp)
    BY <1>2, TheBound
  <2>2. SameReferences({r \in dec : r.disp >= -1}, cur)
    BY <1>2, <2>1, SameRefs
  <2>3. dec \subseteq Entries
    BY DEF DpbIInv, DpbTypeOK
  <2>4. \A r \in dec : r.disp >= -1
    BY <2>3 DEF Entries
  <2>5. {r \in dec : r.disp >= -1} = dec
    BY <2>4
  <2> QED BY <2>2, <2>5
<1> QED BY <1>1, <1>2 DEF DecoderAgrees

\* And ColdAgrees.
LEMMA ColdAgreesNow == DpbIInv => ColdAgrees
PROOF
<1> SUFFICES ASSUME DpbIInv, cold.key # NoKey, cur # None, cur.type # "I", cur.disp > cold.key
             PROVE  SameReferences(cold.refs, cur)
  BY DEF ColdAgrees
<1>1. ~Emptied /\ cur.disp \in Nat /\ Bound(cur.disp) \in Int
  BY TheBound
<1>2. /\ cold.refs = {r \in dec : r.disp >= cold.key}
      /\ cold.key <= rp.last
      /\ cold.key = rp.last \/ cold.key <= rp.prev
  BY <1>1 DEF DpbIInv, ColdInv
<1>3. cold.key \in Nat \cup {-1} /\ rp.last \in Nat \cup {-1} /\ rp.prev \in Nat \cup {-1}
  BY DEF DpbIInv, DpbTypeOK, NoKey
<1>4. cold.key \in Int /\ cold.key <= Bound(cur.disp)
  BY <1>1, <1>2, <1>3 DEF Bound
<1>5. SameReferences({r \in dec : r.disp >= cold.key}, cur)
  BY <1>4, SameRefs
<1> QED BY <1>2, <1>5

\* What slides out for the next reference, and the number after it.
Stay == SlideTo(Base, nextFn, Window(conf))
NextNumber == (nextFn + 1) % MaxFn
Stored == Stay \cup {Entry(cur)}

\* The types the steps need.
LEMMA Types ==
    ASSUME DpbTypeOK
    PROVE  /\ run.first \in Nat /\ run.n \in 0 .. 7 /\ run.n <= conf.bframes /\ run.n \in Nat
           /\ run.kind \in {"none", "idr", "p", "key"}
           /\ anchors.last \in Nat \cup {-1} /\ anchors.last2 \in Nat \cup {-1}
           /\ rp.last \in Nat \cup {-1} /\ rp.prev \in Nat \cup {-1}
           /\ conf \in Configs /\ disp \in Nat /\ NoKey = -1
           /\ nextFn \in Numbers /\ lastFn \in Numbers /\ nextFn \in Nat /\ lastFn \in Nat
           /\ MaxFn \in Nat /\ NextNumber \in Numbers
           /\ Window(conf) \in Nat /\ 1 <= Window(conf) /\ Window(conf) < MaxFn
           /\ conf.bframes \in 0 .. 7
PROOF
<1>1. /\ conf \in Configs /\ nextFn \in Numbers /\ lastFn \in Numbers
      /\ run \in [first : Nat, n : 0 .. 7, kind : {"none", "idr", "p", "key"}]
      /\ anchors \in [last : Nat \cup {-1}, last2 : Nat \cup {-1}]
      /\ rp \in [last : Nat \cup {-1}, prev : Nat \cup {-1}]
      /\ run.n <= conf.bframes /\ disp \in Nat
  BY DEF DpbTypeOK, NoKey
<1>2. MaxFn \in Nat /\ NextNumber \in Numbers
  BY <1>1, AgeStep, MaxFnAssumption DEF NextNumber
<1>3. nextFn \in Nat /\ lastFn \in Nat
  BY <1>1 DEF Numbers
<1> QED BY <1>1, <1>2, <1>3, WindowFits DEF NoKey

\* A picture being coded, by the part of the run it belongs to.
LEMMA CurTypes ==
    ASSUME DpbIInv, cur # None
    PROVE  /\ cur \in Pictures /\ cur.disp \in Nat /\ cur.fn \in Numbers
           /\ cur.isref \in BOOLEAN /\ cur.second \in BOOLEAN
           /\ cur.type \in {"I", "P", "B"} /\ cur.kind \in {"idr", "p", "key", "b", "tail"}
           /\ Entry(cur) \in Entries /\ Entry(cur).disp = cur.disp /\ Entry(cur).fn = cur.fn
           /\ pc \in {"tail", "anchor", "b"}
           /\ pc = "tail" => ~cur.isref
           /\ pc = "tail" => cur.kind = "tail"
           /\ pc = "anchor" => cur.isref /\ cur.kind = run.kind /\ run.kind \in {"idr", "p", "key"}
           /\ pc = "b" => cur.kind = "b" /\ run.kind \in {"p", "key"}
PROOF
<1>1. cur \in Pictures /\ pc \in {"tail", "anchor", "b"} /\ run.kind \in {"none", "idr", "p", "key"}
  BY Types DEF DpbIInv, DpbTypeOK, CurInv
<1>2. /\ cur.disp \in Nat /\ cur.isref \in BOOLEAN /\ cur.second \in BOOLEAN
      /\ cur.type \in {"I", "P", "B"} /\ cur.kind \in {"idr", "p", "key", "b", "tail"}
  BY <1>1 DEF Pictures
<1>3. cur.fn \in Numbers
  BY Types DEF DpbIInv, CurInv
<1>4. Entry(cur) \in Entries /\ Entry(cur).disp = cur.disp /\ Entry(cur).fn = cur.fn
  BY <1>2, <1>3 DEF Entry, Entries
<1>5. /\ pc = "tail" => ~cur.isref /\ cur.kind = "tail"
      /\ pc = "anchor" => cur.isref /\ cur.kind = run.kind /\ run.kind # "none"
      /\ pc = "b" => cur.kind = "b" /\ run.kind # "idr" /\ run.kind # "none"
  BY DEF DpbIInv, CurInv, RunInv
<1> QED BY <1>1, <1>2, <1>3, <1>4, <1>5

\* A new reference's display number is its own, and at or behind the bounds.
LEMMA NewReference ==
    ASSUME DpbIInv, cur # None, cur.isref
    PROVE  /\ cur.fn = nextFn /\ pc \in {"anchor", "b"}
           /\ \A r \in Base : r.disp # cur.disp
           /\ rp.last <= cur.disp
           /\ pc = "anchor" => anchors.last < cur.disp
           /\ pc = "b" => /\ conf.pyramid /\ run.kind = "p" /\ cur.kind = "b"
                          /\ run.first <= cur.disp /\ cur.disp < anchors.last
PROOF
<1>1. /\ cur.fn = nextFn /\ pc \in {"anchor", "b"} /\ cur.disp \in Nat
      /\ \A r \in Base : r.disp \in Nat
  BY CurTypes, TheWindow DEF DpbIInv, CurInv
<1>2. /\ run.first \in Nat /\ run.n \in Nat /\ anchors.last \in Nat \cup {-1}
      /\ rp.last \in Nat \cup {-1} /\ anchors.last2 \in Nat \cup {-1}
  BY Types DEF DpbIInv
<1>3. CASE pc = "anchor"
  <2>1. cur.disp = run.first + run.n /\ anchors.last < run.first
    BY <1>3 DEF DpbIInv, CurInv, AnchorInv
  <2>2. anchors.last < cur.disp
    BY <1>2, <2>1
  <2>3. rp.last <= anchors.last \/ rp.last = cur.disp
    BY DEF DpbIInv, AnchorInv
  <2>4. \A r \in Base : r.disp <= anchors.last
    BY DEF DpbIInv, BaseInv
  <2>5. rp.last <= cur.disp /\ \A r \in Base : r.disp # cur.disp
    BY <1>1, <1>2, <2>2, <2>3, <2>4
  <2> QED BY <1>1, <1>3, <2>2, <2>5
<1>4. CASE pc = "b"
  <2>1. /\ conf.pyramid /\ run.kind = "p" /\ cur.kind = "b"
        /\ cur.disp \in run.first .. run.first + run.n - 1
    BY <1>4 DEF DpbIInv, CurInv
  <2>2. /\ anchors.last = run.first + run.n /\ rp.last <= anchors.last2
        /\ anchors.last2 < run.first
    BY <1>4, <2>1 DEF DpbIInv, AnchorInv
  <2>3. run.first <= cur.disp /\ cur.disp < anchors.last /\ rp.last <= cur.disp
    BY <1>1, <1>2, <2>1, <2>2
  <2>4. ASSUME NEW r \in Base, r.disp = cur.disp PROVE FALSE
    <3>1. r.disp >= run.first /\ r.disp # anchors.last
      BY <1>1, <1>2, <2>3, <2>4
    <3> QED BY <1>4, <2>4, <3>1 DEF DpbIInv, BurstInv
  <2> QED BY <1>1, <1>4, <2>1, <2>3, <2>4
<1> QED BY <1>1, <1>3, <1>4

\* The buffer after the window slid, and after the reference is stored.
LEMMA StoreFacts ==
    ASSUME DpbIInv, cur # None, cur.isref
    PROVE  /\ Stay \subseteq Base /\ Numbered(Stay, nextFn) /\ Cardinality(Stay) <= Window(conf) - 1
           /\ Entry(cur) \notin Base
           /\ Numbered(Stored, NextNumber) /\ Cardinality(Stored) <= Window(conf)
           /\ Age(Entry(cur).fn, NextNumber) = 1
           /\ \A r \in Stay : Age(r.fn, NextNumber) = Age(r.fn, nextFn) + 1
           /\ \A r \in Base : Age(r.fn, nextFn) <= Window(conf) - 1 => r \in Stay
           /\ \A r \in Base : Age(r.fn, nextFn) \in Nat /\ 1 <= Age(r.fn, nextFn)
           /\ Stay = IF Cardinality(Base) < Window(conf) THEN Base
                     ELSE Base \ {CHOOSE r \in Base :
                            \A q \in Base : FrameNumWrap(r.fn, nextFn) <= FrameNumWrap(q.fn, nextFn)}
PROOF
<1>1. /\ nextFn \in Numbers /\ Numbered(Base, nextFn) /\ Cardinality(Base) <= Window(conf)
      /\ Window(conf) \in Nat /\ 1 <= Window(conf) /\ Window(conf) < MaxFn
  BY Types, TheWindow DEF DpbIInv, BaseInv
<1>2. /\ cur.disp \in Nat /\ Entry(cur) = [disp |-> cur.disp, fn |-> nextFn]
      /\ \A r \in Base : r.disp # cur.disp
  BY NewReference, CurTypes DEF Entry
<1>3. Stay \subseteq Base
  BY DEF Stay, SlideTo
<1>4. Numbered(Stay, nextFn) /\ Cardinality(Stay) <= Window(conf) - 1
  BY <1>1, SlideIsSlideTo DEF Stay
<1>5. Cardinality(Stay) \in Nat /\ MaxFn \in Nat
  BY <1>4, FS_CardinalityType, MaxFnAssumption DEF Numbered
<1>6. Cardinality(Stay) + 1 < MaxFn /\ \A r \in Stay : r.disp # cur.disp
  BY <1>1, <1>2, <1>3, <1>4, <1>5
<1>7. /\ Numbered(Stored, NextNumber) /\ Cardinality(Stored) = Cardinality(Stay) + 1
      /\ Age(Entry(cur).fn, NextNumber) = 1
      /\ \A r \in Stay : Age(r.fn, NextNumber) = Age(r.fn, nextFn) + 1
  <2> DEFINE x == [disp |-> cur.disp, fn |-> nextFn]
  <2>1. LET T == Stay \cup {x}
            next == (nextFn + 1) % MaxFn
        IN /\ x \in Entries /\ x \notin Stay
           /\ Numbered(T, next) /\ Cardinality(T) = Cardinality(Stay) + 1
           /\ Age(x.fn, next) = 1
           /\ \A r \in Stay : Age(r.fn, next) = Age(r.fn, nextFn) + 1
    BY <1>1, <1>2, <1>4, <1>6, StoreNumbered
  <2>2. Entry(cur) = x
    BY <1>2
  <2> HIDE DEF x
  <2> QED BY <2>1, <2>2 DEF Stored, NextNumber
<1>8. \A r \in Base : Age(r.fn, nextFn) <= Window(conf) - 1 => r \in Stay
  BY DEF Stay, SlideTo
<1>9. \A r \in Base : Age(r.fn, nextFn) \in Nat /\ 1 <= Age(r.fn, nextFn)
  <2>1. \A r \in Base : Age(r.fn, nextFn) \in 1 .. MaxFn
    BY <1>1, TheWindow, AgeStep
  <2> QED BY <1>5, <2>1
<1>10. Entry(cur) \notin Base
  BY <1>2
<1>11. Cardinality(Stored) <= Window(conf)
  BY <1>1, <1>4, <1>5, <1>7
<1>12. Stay = IF Cardinality(Base) < Window(conf) THEN Base
              ELSE Base \ {CHOOSE r \in Base :
                     \A q \in Base : FrameNumWrap(r.fn, nextFn) <= FrameNumWrap(q.fn, nextFn)}
  BY <1>1, SlideIsSlideTo DEF Stay
<1> QED BY <1>3, <1>4, <1>7, <1>8, <1>9, <1>10, <1>11, <1>12

\* What lies at or behind b stays closed.
LEMMA ClosedStays ==
    ASSUME DpbIInv, cur # None, cur.isref, NEW b \in Int, b <= cur.disp, Closed(Base, nextFn, b)
    PROVE  Closed(Stay, nextFn, b) /\ Closed(Stored, NextNumber, b)
PROOF
<1>1. Closed(Stay, nextFn, b)
  BY StoreFacts DEF Closed
<1>2. ASSUME NEW r \in Stored, NEW q \in Stored, b <= r.disp,
             Age(q.fn, NextNumber) < Age(r.fn, NextNumber)
      PROVE  b <= q.disp
  <2>1. CASE q = Entry(cur)
    BY <2>1, CurTypes
  <2>2. CASE q # Entry(cur)
    <3>1. q \in Stay /\ q \in Base
      BY <2>2, StoreFacts DEF Stored
    <3>2. Age(q.fn, NextNumber) = Age(q.fn, nextFn) + 1 /\ Age(q.fn, nextFn) \in Nat /\ 1 <= Age(q.fn, nextFn)
      BY <3>1, StoreFacts
    <3>3. r # Entry(cur)
      BY <1>2, <3>2, StoreFacts
    <3>4. r \in Stay /\ r \in Base
      BY <3>3, StoreFacts DEF Stored
    <3>5. Age(r.fn, NextNumber) = Age(r.fn, nextFn) + 1 /\ Age(r.fn, nextFn) \in Nat
      BY <3>4, StoreFacts
    <3>6. Age(q.fn, nextFn) < Age(r.fn, nextFn)
      BY <1>2, <3>2, <3>5
    <3> QED BY <1>1, <1>2, <3>1, <3>4, <3>6 DEF Closed
  <2> QED BY <2>1, <2>2
<1> QED BY <1>1, <1>2 DEF Closed

\* dpb_slide leaves what stays.
LEMMA SlidIsStay ==
    ASSUME DpbIInv, cur # None, cur.isref, conf.pyramid
    PROVE  Slid = Stay
PROOF
<1>1. dpb = Base
  BY DEF DpbIInv, BaseInv
<1>2. \A fn : FnWrap(fn) = FrameNumWrap(fn, nextFn)
  BY DEF FnWrap, FrameNumWrap
<1>3. (CHOOSE r \in dpb : \A q \in dpb : FnWrap(r.fn) <= FnWrap(q.fn))
      = (CHOOSE r \in Base : \A q \in Base : FrameNumWrap(r.fn, nextFn) <= FrameNumWrap(q.fn, nextFn))
  BY <1>1, <1>2
<1>4. Slid = IF Cardinality(dpb) < Window(conf) THEN dpb
             ELSE dpb \ {CHOOSE r \in dpb : \A q \in dpb : FnWrap(r.fn) <= FnWrap(q.fn)}
  BY DEF Slid
<1> QED BY <1>1, <1>3, <1>4, StoreFacts

\* Marking in a decoder of the whole stream, and in one that joined: what the
\* window drops is not behind the key unless everything is.
LEMMA MarksBoth ==
    ASSUME DpbIInv, cur # None, cur.isref, ~cur.second, cur.kind # "idr"
    PROVE  /\ Base = dec /\ Marked(dec, cur) = Stored
           /\ cold.key # NoKey => Marked(cold.refs, cur) = {r \in Stored : r.disp >= cold.key}
PROOF
<1> DEFINE W == Window(conf)
           o == CHOOSE r \in Base : \A q \in Base : FrameNumWrap(r.fn, nextFn) <= FrameNumWrap(q.fn, nextFn)
           x == Entry(cur)
<1>1. ~Emptied /\ ~Halfway /\ Base = dec
  BY DEF Emptied, Halfway, InIdr, Base
<1>2. /\ cur.fn = nextFn /\ IsFiniteSet(Base) /\ Cardinality(Base) \in Nat /\ W \in Nat
      /\ \A r \in Base : r.disp \in Nat
      /\ Stored = Stay \cup {x} /\ x.disp = cur.disp /\ cur.disp \in Nat
  BY NewReference, TheWindow, CurTypes DEF Stored
<1>3. Stay = IF Cardinality(Base) < W THEN Base ELSE Base \ {o}
  BY StoreFacts
<1>4. Marked(dec, cur) = Stored
  BY <1>1, <1>2, <1>3 DEF Marked
<1>5. ASSUME cold.key # NoKey PROVE Marked(cold.refs, cur) = {r \in Stored : r.disp >= cold.key}
  <2> DEFINE S == {r \in Base : r.disp >= cold.key}
  <2>1. cold.refs = S /\ cold.key <= rp.last /\ Closed(Base, nextFn, cold.key)
    BY <1>1, <1>5 DEF DpbIInv, ColdInv
  <2>2. cold.key \in Int /\ cold.key <= cur.disp
    <3>1. cold.key \in Nat \cup {-1} /\ rp.last \in Nat \cup {-1} /\ rp.last <= cur.disp
      BY NewReference, Types DEF DpbIInv, DpbTypeOK, NoKey
    <3> QED BY <1>2, <2>1, <3>1
  <2>3. S \subseteq Base /\ IsFiniteSet(S) /\ Cardinality(S) \in Nat /\ Cardinality(S) <= Cardinality(Base)
    <3>1. S \in SUBSET Base
      OBVIOUS
    <3> HIDE DEF S
    <3> QED BY <1>2, <3>1, FS_Subset, FS_CardinalityType
  <2>4. CASE S = Base
    <3>1. Marked(cold.refs, cur) = Marked(dec, cur)
      BY <1>1, <2>1, <2>4
    <3>2. \A r \in Base : r.disp >= cold.key
      BY <2>4
    <3>3. \A r \in Stored : r.disp >= cold.key
      BY <1>2, <2>2, <3>2, StoreFacts
    <3>4. {r \in Stored : r.disp >= cold.key} = Stored
      BY <3>3
    <3> QED BY <1>4, <3>1, <3>4
  <2>5. CASE S # Base
    <3>1. Cardinality(S) # Cardinality(Base)
      <4> HIDE DEF S
      <4> QED BY <1>2, <2>3, <2>5, FS_Subset
    <3>2. Cardinality(S) < W
      <4>1. Cardinality(Base) <= W
        BY TheWindow
      <4> HIDE DEF S
      <4> QED BY <1>2, <2>3, <3>1, <4>1
    <3>3. Marked(cold.refs, cur) = {x} \cup S
      BY <2>1, <3>2 DEF Marked
    <3>4. \A r \in S : r \in Stay
      <4> SUFFICES ASSUME NEW r \in S, r \notin Stay PROVE FALSE
        OBVIOUS
      <4>1. r \in Base /\ r = o /\ Stay = Base \ {o}
        BY <1>3
      <4>2. PICK y \in Base : y \notin S
        BY <2>5
      <4>3. y # r
        BY <4>2
      <4> HIDE DEF o
      <4>4. y \in Stay
        BY <4>1, <4>2, <4>3
      <4>5. Age(y.fn, nextFn) <= W - 1 /\ ~(Age(r.fn, nextFn) <= W - 1)
        BY <4>1, <4>4 DEF Stay, SlideTo
      <4>6. Age(y.fn, nextFn) \in Nat /\ Age(r.fn, nextFn) \in Nat
        BY <4>1, <4>2, StoreFacts
      <4>7. Age(y.fn, nextFn) < Age(r.fn, nextFn)
        BY <1>2, <4>5, <4>6
      <4>8. cold.key <= r.disp
        BY <1>2, <2>2
      <4>9. cold.key <= y.disp
        BY <2>1, <4>1, <4>2, <4>7, <4>8 DEF Closed
      <4> QED BY <1>2, <2>2, <4>2, <4>9
    <3>5. Stay \subseteq Base
      BY StoreFacts
    <3>6. {r \in Stored : r.disp >= cold.key} = {x} \cup S
      BY <1>2, <2>2, <3>4, <3>5
    <3> QED BY <3>3, <3>6
  <2> QED BY <2>4, <2>5
<1> QED BY <1>1, <1>4, <1>5

\* What the decoders hold after a reference, or the first field of one.
LEMMA Decodes ==
    ASSUME DpbIInv, cur # None, cur.isref, ~cur.second, Decode
    PROVE  /\ dec' = Stored
           /\ cur.kind = "idr" => cold'.key = NoKey
           /\ cur.kind # "idr" => cold'.key = cold.key
           /\ cur.kind # "idr" /\ cold.key # NoKey =>
                cold'.refs = {r \in Stored : r.disp >= cold.key}
PROOF
<1>1. CASE cur.kind = "idr"
  <2>1. Base = {} /\ dec' = {Entry(cur)} /\ cold' = [key |-> NoKey, refs |-> {}]
    BY <1>1 DEF Decode, DpbIInv, BaseInv, InIdr
  <2>2. Stay = {}
    BY <2>1, StoreFacts
  <2> QED BY <1>1, <2>1, <2>2 DEF Stored
<1>2. CASE cur.kind # "idr"
  <2>1. /\ dec' = Marked(dec, cur)
        /\ cold' = IF cold.key = NoKey THEN cold
                   ELSE [cold EXCEPT !.refs = Marked(cold.refs, cur)]
    BY <1>2 DEF Decode
  <2>2. cold \in [key : Nat \cup {NoKey}, refs : SUBSET Entries]
    BY DEF DpbIInv, DpbTypeOK
  <2>3. cold'.key = cold.key /\ (cold.key # NoKey => cold'.refs = Marked(cold.refs, cur))
    BY <2>1, <2>2
  <2> QED BY <1>2, <2>1, <2>3, MarksBoth
<1> QED BY <1>1, <1>2

\* The first field of a pair.
LEMMA FieldBase ==
    ASSUME DpbIInv, FirstField
    PROVE  /\ cur # None /\ ~cur.second /\ conf.fields
           /\ cur' # None /\ cur' \in Pictures /\ cur'.second /\ cur'.kind = cur.kind
           /\ cur'.isref = cur.isref /\ cur'.disp = cur.disp /\ cur'.fn = cur.fn /\ cur'.pin = cur.pin
           /\ cur'.type = IF cur.type = "I" /\ cur.kind # "key" THEN "P" ELSE cur.type
           /\ Entry(cur') = Entry(cur)
           /\ cur.isref => /\ Base' = Stay /\ Halfway' /\ ~Emptied' /\ dec' = Stored
                           /\ cur.kind = "idr" => cold'.key = NoKey
                           /\ cur.kind # "idr" => cold'.key = cold.key
                           /\ cur.kind # "idr" /\ cold.key # NoKey =>
                                cold'.refs = {r \in Stored : r.disp >= cold.key}
           /\ ~cur.isref => /\ Base' = Base /\ ~Halfway' /\ ~Emptied' /\ ~InIdr' /\ dec' = dec
                            /\ dec = Base /\ ~Emptied /\ ~Halfway /\ ~InIdr
                            /\ cold' = cold
           /\ dpb' = IF conf.pyramid THEN Base' ELSE {}
PROOF
<1>1. /\ cur # None /\ ~cur.second /\ conf.fields /\ dpb' = SlidBetween /\ Decode
      /\ cur' = [cur EXCEPT !.second = TRUE,
                            !.type = IF cur.type = "I" /\ cur.kind # "key" THEN "P" ELSE cur.type]
  BY DEF FirstField
<1>2. cur \in Pictures
  BY <1>1, CurTypes
<1>3. /\ cur' \in Pictures /\ cur'.second /\ cur'.kind = cur.kind
      /\ cur'.isref = cur.isref /\ cur'.disp = cur.disp /\ cur'.fn = cur.fn /\ cur'.pin = cur.pin
      /\ cur'.type = IF cur.type = "I" /\ cur.kind # "key" THEN "P" ELSE cur.type
  BY <1>1, <1>2 DEF Pictures
<1>4. cur' # None /\ Entry(cur') = Entry(cur)
  BY <1>3, NoneAssumption DEF Entry
<1>5. conf' = conf
  BY DEF FirstField
<1>6. ASSUME cur.isref
      PROVE  /\ Base' = Stay /\ Halfway' /\ ~Emptied' /\ dec' = Stored
             /\ cur.kind = "idr" => cold'.key = NoKey
             /\ cur.kind # "idr" => cold'.key = cold.key
             /\ cur.kind # "idr" /\ cold.key # NoKey =>
                  cold'.refs = {r \in Stored : r.disp >= cold.key}
             /\ dpb' = IF conf.pyramid THEN Stay ELSE {}
  <2>1. Halfway' /\ ~Emptied'
    BY <1>3, <1>4, <1>6 DEF Halfway, Emptied
  <2>2. /\ dec' = Stored
        /\ cur.kind = "idr" => cold'.key = NoKey
        /\ cur.kind # "idr" => cold'.key = cold.key
        /\ cur.kind # "idr" /\ cold.key # NoKey =>
             cold'.refs = {r \in Stored : r.disp >= cold.key}
    BY <1>1, <1>6, Decodes
  <2>3. Base' = Stored \ {Entry(cur)}
    BY <1>4, <2>1, <2>2 DEF Base
  <2>4. Stored \ {Entry(cur)} = Stay
    BY <1>1, <1>6, StoreFacts DEF Stored
  <2>5. dpb' = IF conf.pyramid THEN Stay ELSE {}
    <3>1. CASE ~conf.pyramid
      BY <1>1, <3>1 DEF SlidBetween, DpbIInv, BaseInv
    <3>2. CASE conf.pyramid /\ cur.kind # "idr"
      BY <1>1, <1>6, <3>2, SlidIsStay DEF SlidBetween
    <3>3. CASE conf.pyramid /\ cur.kind = "idr"
      <4>1. dpb = {} /\ Base = {}
        BY <1>1, <3>3 DEF DpbIInv, BaseInv, InIdr
      <4>2. Stay = {}
        BY <1>1, <1>6, <4>1, StoreFacts
      <4> QED BY <1>1, <3>3, <4>1, <4>2 DEF SlidBetween
    <3> QED BY <3>1, <3>2, <3>3
  <2> QED BY <2>1, <2>2, <2>3, <2>4, <2>5
<1>7. ASSUME ~cur.isref
      PROVE  /\ Base' = Base /\ ~Halfway' /\ ~Emptied' /\ ~InIdr' /\ dec' = dec
             /\ dec = Base /\ ~Emptied /\ ~Halfway /\ ~InIdr
             /\ cold' = cold /\ dpb' = dpb
  <2>1. cur.kind # "idr"
    BY <1>1, <1>7, CurTypes
  <2>2. ~Halfway' /\ ~Emptied' /\ ~InIdr' /\ ~Emptied /\ ~Halfway /\ ~InIdr
    BY <1>1, <1>3, <1>7, <2>1 DEF Halfway, Emptied, InIdr
  <2>3. dec' = dec /\ cold' = cold
    BY <1>1, <1>7 DEF Decode, decVars
  <2>4. dpb' = dpb
    BY <1>1, <1>7 DEF SlidBetween
  <2> QED BY <2>2, <2>3, <2>4 DEF Base
<1>8. dpb = IF conf.pyramid THEN Base ELSE {}
  BY DEF DpbIInv, BaseInv
<1> QED BY <1>1, <1>3, <1>4, <1>6, <1>7, <1>8

\* The picture, or its last field.
LEMMA CodedBase ==
    ASSUME DpbIInv, Coded
    PROVE  /\ cur # None /\ cur' = None /\ conf' = conf
           /\ ~Halfway' /\ ~Emptied' /\ ~InIdr' /\ Base' = dec'
           /\ cur.isref => /\ Base' = Stored
                           /\ cold'.key # NoKey =>
                                /\ ~Emptied /\ cold'.key = cold.key
                                /\ cold'.refs = {r \in Stored : r.disp >= cold.key}
                           /\ nextFn' = NextNumber /\ lastFn' = nextFn
           /\ ~cur.isref => /\ Base' = Base /\ nextFn' = nextFn /\ lastFn' = lastFn
                            /\ cold' = cold /\ ~Emptied /\ ~InIdr /\ ~Halfway /\ dec' = dec
           /\ dpb' = IF conf.pyramid THEN Base' ELSE {}
PROOF
<1>1. /\ cur # None /\ cur' = None /\ conf' = conf
      /\ IF cur.second THEN UNCHANGED decVars ELSE Decode
      /\ dpb' = IF cur.isref /\ conf.pyramid THEN Slid \cup {Entry(cur)} ELSE dpb
      /\ nextFn' = IF cur.isref THEN (nextFn + 1) % MaxFn ELSE nextFn
      /\ lastFn' = IF cur.isref THEN cur.fn ELSE lastFn
  BY DEF Coded
<1>2. ~Halfway' /\ ~Emptied' /\ ~InIdr' /\ Base' = dec'
  BY <1>1 DEF Halfway, Emptied, InIdr, Base
<1>3. dpb = IF conf.pyramid THEN Base ELSE {}
  BY DEF DpbIInv, BaseInv
<1>4. ASSUME cur.isref, cur.second
      PROVE  /\ dec' = Stored /\ cold' = cold /\ ~Emptied
             /\ cold.key # NoKey => cold.refs = {r \in Stored : r.disp >= cold.key}
  <2>1. Halfway /\ ~Emptied /\ dec' = dec /\ cold' = cold
    BY <1>1, <1>4 DEF Halfway, Emptied, decVars
  <2>2. Base = dec \ {Entry(cur)} /\ Entry(cur) \in dec
    BY <2>1 DEF Base, DpbIInv, BaseInv
  <2>3. Cardinality(Base) < Window(conf)
    <3>1. Cardinality(Base) <= Window(conf) - 1
      BY <2>1 DEF DpbIInv, BaseInv, Room
    <3> QED BY <3>1, TheWindow
  <2>4. Stay = Base
    BY <1>1, <1>4, <2>3, StoreFacts
  <2>5. dec' = Stored
    BY <2>1, <2>2, <2>4 DEF Stored
  <2> QED BY <2>1, <2>5 DEF DpbIInv, ColdInv
<1>5. ASSUME cur.isref, ~cur.second
      PROVE  /\ dec' = Stored
             /\ cur.kind = "idr" => cold'.key = NoKey
             /\ cur.kind # "idr" => cold'.key = cold.key
             /\ cur.kind # "idr" /\ cold.key # NoKey =>
                  cold'.refs = {r \in Stored : r.disp >= cold.key}
  BY <1>1, <1>5, Decodes
<1>9. ASSUME cur.isref, cold'.key # NoKey
      PROVE  ~Emptied /\ cold'.key = cold.key /\ cold'.refs = {r \in Stored : r.disp >= cold.key}
  <2>1. CASE cur.second
    BY <1>4, <1>9, <2>1
  <2>2. CASE ~cur.second
    <3>1. cur.kind # "idr" /\ ~Emptied
      BY <1>5, <1>9, <2>2 DEF Emptied, InIdr
    <3> QED BY <1>5, <1>9, <2>2, <3>1
  <2> QED BY <2>1, <2>2
<1>6. ASSUME cur.isref PROVE nextFn' = NextNumber /\ lastFn' = nextFn
  BY <1>1, <1>6, NewReference DEF NextNumber
<1>7. ASSUME ~cur.isref
      PROVE  /\ Base' = Base /\ nextFn' = nextFn /\ lastFn' = lastFn
             /\ cold' = cold /\ ~Emptied /\ ~InIdr /\ ~Halfway /\ dec' = dec /\ dpb' = dpb
  <2>1. cur.kind # "idr"
    BY <1>1, <1>7, CurTypes
  <2>2. ~Emptied /\ ~InIdr /\ ~Halfway
    BY <1>7, <2>1 DEF Halfway, Emptied, InIdr
  <2>3. dec' = dec /\ cold' = cold
    BY <1>1, <1>7 DEF Decode, decVars
  <2> QED BY <1>1, <1>2, <1>7, <2>2, <2>3 DEF Base
<1>8. ASSUME cur.isref PROVE dpb' = IF conf.pyramid THEN Stored ELSE {}
  <2>1. CASE conf.pyramid
    BY <1>1, <1>8, <2>1, SlidIsStay DEF Stored
  <2>2. CASE ~conf.pyramid
    BY <1>1, <1>3, <2>2
  <2> QED BY <2>1, <2>2
<1>10. ASSUME cur.isref PROVE Base' = Stored
  BY <1>2, <1>4, <1>5, <1>10
<1>11. dpb' = IF conf.pyramid THEN Base' ELSE {}
  BY <1>3, <1>7, <1>8, <1>10
<1> QED BY <1>1, <1>2, <1>6, <1>7, <1>9, <1>10, <1>11

\* A step that leaves the references alone.
Quiet ==
    /\ conf' = conf /\ dpb' = dpb /\ dec' = dec /\ cold' = cold
    /\ nextFn' = nextFn /\ lastFn' = lastFn /\ anchors' = anchors /\ rp' = rp
    /\ ~InIdr /\ ~Halfway
    /\ cur' = None \/ (cur' \in Pictures /\ cur'.kind # "idr" /\ cur'.kind # "key" /\ ~cur'.second)

\* A quiet step keeps what is said of the buffers.
LEMMA QuietStep ==
    ASSUME DpbIInv, Quiet
    PROVE  /\ Base = dec /\ Base' = Base /\ ~InIdr' /\ ~Halfway' /\ ~Emptied' /\ ~Emptied
           /\ BaseInv' /\ ColdInv'
PROOF
<1>1. /\ ~InIdr' /\ ~Halfway' /\ ~Emptied' /\ ~Emptied
      /\ Base = dec /\ Base' = Base /\ Room' = Room
  BY NoneAssumption DEF Quiet, InIdr, Halfway, Emptied, Base, Room
<1>2. BaseInv'
  <2>1. BaseInv /\ Started' = Started
    BY DEF DpbIInv, Quiet, Started
  <2> QED BY <1>1, <2>1 DEF Quiet, BaseInv
<1>3. ColdInv'
  <2>1. ColdInv
    BY DEF DpbIInv
  <2> QED BY <1>1, <2>1 DEF Quiet, ColdInv
<1> QED BY <1>1, <1>2, <1>3

\* Ranges of one picture each.
LEMMA FlatIs ==
    ASSUME NEW n \in Nat
    PROVE  /\ Flat(n) \in Seq(Nat \X Nat) /\ Len(Flat(n)) = n
           /\ \A i \in 1 .. n : Flat(n)[i] = <<i - 1, i>>
           /\ n = 0 => Flat(n) = <<>>
PROOF
<1>1. Flat(n) = [i \in 1 .. n |-> <<i - 1, i>>]
  BY DEF Flat
<1>2. \A i \in 1 .. n : <<i - 1, i>> \in Nat \X Nat
  OBVIOUS
<1>3. Flat(n) \in [1 .. n -> Nat \X Nat]
  BY <1>1, <1>2
<1>4. Flat(n) \in Seq(Nat \X Nat) /\ Len(Flat(n)) = n
  BY <1>3, SeqDef, LenProperties
<1> QED BY <1>1, <1>4, EmptySeq

\* A run arrives.
LEMMA ArriveKeeps ==
    ASSUME DpbIInv, NEW n \in 0 .. conf.bframes, NEW kind \in Kinds, Arrive(n, kind)
    PROVE  DpbIInv'
PROOF
<1>1. /\ pc = "arrive" /\ disp + n < NPics /\ (disp = 0 => n = 0)
      /\ run' = [first |-> disp, n |-> n, kind |-> kind] /\ disp' = disp + n + 1
      /\ pc' = (IF kind = "idr" THEN "tail" ELSE "anchor")
      /\ todo' = (IF kind = "idr" THEN Flat(n) ELSE <<>>)
      /\ conf' = conf /\ dpb' = dpb /\ ring' = ring /\ nextFn' = nextFn /\ lastFn' = lastFn
      /\ anchors' = anchors /\ rp' = rp /\ cur' = cur /\ dec' = dec /\ cold' = cold
  BY DEF Arrive, encVars, decVars
<1>2. /\ cur = None /\ cur' = None /\ disp \in Nat /\ n \in Nat /\ n \in 0 .. 7
      /\ conf.bframes \in 0 .. 7 /\ anchors.last \in Nat \cup {-1} /\ NoKey = -1
  <2>1. cur = None
    BY <1>1 DEF DpbIInv, CurInv
  <2>2. /\ disp \in Nat /\ conf.bframes \in 0 .. 7 /\ anchors.last \in Nat \cup {-1} /\ NoKey = -1
    BY Types DEF DpbIInv
  <2> QED BY <1>1, <2>1, <2>2
<1>3. /\ kind \in {"idr", "p", "key"} /\ (disp = 0 => kind = "idr")
  BY DEF Kinds
<1>4. Quiet
  BY <1>1, <1>2 DEF Quiet, InIdr, Halfway
<1>5. /\ Base = dec /\ Base' = Base /\ ~InIdr' /\ ~Halfway' /\ ~Emptied' /\ ~Emptied
      /\ BaseInv' /\ ColdInv'
  BY <1>4, QuietStep
<1>6. DpbTypeOK'
  <2>1. todo' \in Seq(Nat \X Nat)
    BY <1>1, <1>2, FlatIs, EmptySeq
  <2>2. run' \in [first : Nat, n : 0 .. 7, kind : {"none", "idr", "p", "key"}] /\ run'.n <= conf.bframes
    BY <1>1, <1>2, <1>3
  <2>3. disp' \in Nat /\ pc' \in {"arrive", "tail", "anchor", "b", "end"}
    BY <1>1, <1>2
  <2> QED BY <1>1, <2>1, <2>2, <2>3 DEF DpbIInv, DpbTypeOK
<1>7. RunInv'
  <2>1. disp > 0 => Started'
    BY <1>1 DEF DpbIInv, RunInv, Started
  <2>2. n = 0 /\ kind = "idr" => todo' = <<>>
    BY <1>1, <1>2, FlatIs
  <2> QED BY <1>1, <1>2, <1>3, <2>1, <2>2 DEF RunInv
<1>8. CurInv'
  BY <1>2 DEF CurInv
<1>9. AnchorInv'
  <2>1. rp.prev <= rp.last /\ rp.last <= anchors.last /\ anchors.last < disp
    BY <1>1, <1>2 DEF DpbIInv, AnchorInv
  <2> QED BY <1>1, <1>2, <1>3, <2>1 DEF AnchorInv
<1>10. BurstInv'
  BY <1>1 DEF BurstInv
<1>11. NearInv'
  BY <1>1, <1>5 DEF NearInv, DpbIInv
<1>12. FlatInv'
  <2>1. Lag = 0 /\ Lag' = 0 /\ Started' = Started /\ ~InIdr
    BY <1>1, <1>4 DEF Lag, Started, Quiet
  <2>2. FlatInv
    BY DEF DpbIInv
  <2> QED BY <1>1, <1>2, <1>5, <2>1, <2>2 DEF FlatInv
<1> QED BY <1>5, <1>6, <1>7, <1>8, <1>9, <1>10, <1>11, <1>12 DEF DpbIInv

\* The last run arrives with the flush.
LEMMA FlushKeeps ==
    ASSUME DpbIInv, NEW n \in 0 .. conf.bframes, Flush(n)
    PROVE  DpbIInv'
PROOF
<1>1. /\ pc = "arrive" /\ disp > 0
      /\ run' = [first |-> disp, n |-> n, kind |-> "none"] /\ disp' = disp + n
      /\ pc' = "tail" /\ todo' = Flat(n)
      /\ conf' = conf /\ dpb' = dpb /\ ring' = ring /\ nextFn' = nextFn /\ lastFn' = lastFn
      /\ anchors' = anchors /\ rp' = rp /\ cur' = cur /\ dec' = dec /\ cold' = cold
  BY DEF Flush, encVars, decVars
<1>2. /\ cur = None /\ cur' = None /\ disp \in Nat /\ n \in Nat /\ n \in 0 .. 7
      /\ conf.bframes \in 0 .. 7 /\ anchors.last \in Nat \cup {-1} /\ NoKey = -1
  <2>1. cur = None
    BY <1>1 DEF DpbIInv, CurInv
  <2>2. /\ disp \in Nat /\ conf.bframes \in 0 .. 7 /\ anchors.last \in Nat \cup {-1} /\ NoKey = -1
    BY Types DEF DpbIInv
  <2> QED BY <1>1, <2>1, <2>2
<1>3. Quiet
  BY <1>1, <1>2 DEF Quiet, InIdr, Halfway
<1>4. /\ Base = dec /\ Base' = Base /\ ~InIdr' /\ ~Halfway' /\ ~Emptied' /\ ~Emptied
      /\ BaseInv' /\ ColdInv'
  BY <1>3, QuietStep
<1>5. DpbTypeOK'
  <2>1. todo' \in Seq(Nat \X Nat)
    BY <1>1, <1>2, FlatIs
  <2>2. run' \in [first : Nat, n : 0 .. 7, kind : {"none", "idr", "p", "key"}] /\ run'.n <= conf.bframes
    BY <1>1, <1>2
  <2>3. disp' \in Nat
    BY <1>1, <1>2
  <2> QED BY <1>1, <2>1, <2>2, <2>3 DEF DpbIInv, DpbTypeOK
<1>6. RunInv'
  <2>1. Started'
    BY <1>1 DEF DpbIInv, RunInv, Started
  <2>2. n = 0 => todo' = <<>>
    BY <1>1, <1>2, FlatIs
  <2> QED BY <1>1, <1>2, <2>1, <2>2 DEF RunInv
<1>7. CurInv'
  BY <1>2 DEF CurInv
<1>8. AnchorInv'
  <2>1. rp.prev <= rp.last /\ rp.last <= anchors.last /\ anchors.last < disp
    BY <1>1, <1>2 DEF DpbIInv, AnchorInv
  <2> QED BY <1>1, <1>2, <2>1 DEF AnchorInv
<1>9. BurstInv'
  BY <1>1 DEF BurstInv
<1>10. NearInv'
  BY <1>1, <1>4 DEF NearInv, DpbIInv
<1>11. FlatInv'
  <2>1. Lag = 0 /\ Lag' = 0 /\ Started' = Started /\ ~InIdr
    BY <1>1, <1>3 DEF Lag, Started, Quiet
  <2>2. FlatInv
    BY DEF DpbIInv
  <2> QED BY <1>1, <1>2, <1>4, <2>1, <2>2 DEF FlatInv
<1> QED BY <1>4, <1>5, <1>6, <1>7, <1>8, <1>9, <1>10, <1>11 DEF DpbIInv

\* The tail is coded.
LEMMA TailOverKeeps ==
    ASSUME DpbIInv, TailOver
    PROVE  DpbIInv'
PROOF
<1>1. /\ pc = "tail" /\ cur = None /\ todo = <<>>
      /\ pc' = (IF run.kind = "none" THEN "end" ELSE "anchor")
      /\ run' = run /\ disp' = disp /\ todo' = todo
      /\ conf' = conf /\ dpb' = dpb /\ ring' = ring /\ nextFn' = nextFn /\ lastFn' = lastFn
      /\ anchors' = anchors /\ rp' = rp /\ cur' = cur /\ dec' = dec /\ cold' = cold
  BY DEF TailOver, encVars, decVars
<1>2. Quiet
  BY <1>1 DEF Quiet, InIdr, Halfway
<1>3. /\ Base = dec /\ Base' = Base /\ ~InIdr' /\ ~Halfway' /\ ~Emptied' /\ ~Emptied
      /\ BaseInv' /\ ColdInv'
  BY <1>2, QuietStep
<1>4. DpbTypeOK'
  <2>1. pc' \in {"arrive", "tail", "anchor", "b", "end"}
    BY <1>1
  <2> QED BY <1>1, <2>1 DEF DpbIInv, DpbTypeOK
<1>5. RunInv'
  BY <1>1 DEF RunInv, DpbIInv, Started
<1>6. CurInv'
  BY <1>1 DEF CurInv
<1>7. AnchorInv'
  BY <1>1 DEF AnchorInv, DpbIInv
<1>8. BurstInv'
  BY <1>1 DEF BurstInv
<1>9. NearInv'
  BY <1>1, <1>3 DEF NearInv, DpbIInv
<1>10. FlatInv'
  <2>1. Lag = 0 /\ Lag' = 0 /\ Started' = Started /\ ~InIdr
    BY <1>1, <1>2 DEF Lag, Started, Quiet
  <2>2. FlatInv
    BY DEF DpbIInv
  <2> QED BY <1>1, <1>3, <2>1, <2>2 DEF FlatInv
<1> QED BY <1>3, <1>4, <1>5, <1>6, <1>7, <1>8, <1>9, <1>10 DEF DpbIInv

\* A flushed picture refers to the last anchor.
LEMMA TailPKeeps ==
    ASSUME DpbIInv, TailP
    PROVE  DpbIInv'
PROOF
<1> DEFINE d == run.first + Head(todo)[1]
<1>1. /\ pc = "tail" /\ cur = None /\ todo # <<>> /\ todo' = Tail(todo)
      /\ cur' = [type |-> "P", kind |-> "tail", isref |-> FALSE, disp |-> d, fn |-> lastFn,
                 pin |-> IF conf.pyramid THEN Latest(Past(dpb, d)).fn ELSE None, second |-> FALSE]
      /\ pc' = pc /\ run' = run /\ disp' = disp
      /\ conf' = conf /\ dpb' = dpb /\ ring' = ring /\ nextFn' = nextFn /\ lastFn' = lastFn
      /\ anchors' = anchors /\ rp' = rp /\ dec' = dec /\ cold' = cold
  BY DEF TailP, encVars, decVars
<1>2. /\ run.first \in Nat /\ anchors.last \in Nat \cup {-1} /\ lastFn \in Nat /\ NoKey = -1
  BY Types DEF DpbIInv
<1>3. /\ todo \in Seq(Nat \X Nat) /\ Tail(todo) \in Seq(Nat \X Nat) /\ Head(todo) \in Nat \X Nat
  BY <1>1, HeadTailProperties DEF DpbIInv, DpbTypeOK
<1>4. Head(todo)[1] \in Nat /\ d \in Nat /\ d >= run.first
  BY <1>2, <1>3
<1>5. /\ run.first > 0 /\ Started /\ anchors.last < run.first /\ anchors.last \in Nat
  <2>1. run.n # 0 /\ run.first # 0
    BY <1>1 DEF DpbIInv, RunInv
  <2>2. Started /\ anchors.last < run.first
    BY <1>1, <1>2, <2>1 DEF DpbIInv, RunInv, AnchorInv
  <2> QED BY <1>2, <2>1, <2>2 DEF Started
<1>6. ~InIdr /\ ~Halfway
  BY <1>1 DEF InIdr, Halfway
<1>7. PICK r \in Base : r.disp = anchors.last
  BY <1>5, <1>6 DEF DpbIInv, BaseInv
<1>8. ASSUME conf.pyramid PROVE Latest(Past(dpb, d)) = r
  <2>1. /\ dpb = Base /\ \A q \in Base : q.disp <= anchors.last /\ q.disp \in Nat
        /\ \A q \in Base : q.disp = r.disp => q = r
    BY <1>7, <1>8, TheWindow DEF DpbIInv, BaseInv, Numbered
  <2> HIDE DEF d
  <2>2. Past(dpb, d) = Base
    BY <1>2, <1>4, <1>5, <2>1 DEF Past
  <2>3. \A q \in Base : (\A s \in Base : s.disp <= q.disp) => q = r
    BY <1>5, <1>7, <2>1
  <2>4. \A s \in Base : s.disp <= r.disp
    BY <1>7, <2>1
  <2> QED BY <1>7, <2>2, <2>3, <2>4 DEF Latest
<1>9. r.fn \in Nat
  BY <1>7, TheWindow DEF Numbers
<1> HIDE DEF d
<1>10. /\ cur' \in Pictures /\ cur' # None /\ cur'.kind = "tail" /\ cur'.type = "P" /\ ~cur'.isref
       /\ cur'.disp = d /\ cur'.fn = lastFn /\ ~cur'.second
       /\ cur'.pin = IF conf.pyramid THEN r.fn ELSE None
  <2>1. cur' = [type |-> "P", kind |-> "tail", isref |-> FALSE, disp |-> d, fn |-> lastFn,
                pin |-> IF conf.pyramid THEN r.fn ELSE None, second |-> FALSE]
    BY <1>1, <1>8
  <2>2. (IF conf.pyramid THEN r.fn ELSE None) \in Nat \cup {None}
    BY <1>9
  <2>3. cur' \in Pictures
    BY <1>2, <1>4, <2>1, <2>2 DEF Pictures
  <2> QED BY <2>1, <2>3, NoneAssumption
<1>11. Quiet
  BY <1>1, <1>6, <1>10 DEF Quiet
<1>12. /\ Base = dec /\ Base' = Base /\ ~InIdr' /\ ~Halfway' /\ ~Emptied' /\ ~Emptied
       /\ BaseInv' /\ ColdInv'
  BY <1>11, QuietStep
<1>13. DpbTypeOK'
  BY <1>1, <1>3, <1>10 DEF DpbIInv, DpbTypeOK
<1>14. RunInv'
  <2>1. run.n # 0 /\ RunInv
    BY <1>1 DEF DpbIInv, RunInv
  <2> QED BY <1>1, <2>1 DEF RunInv, Started
<1>15. CurInv'
  <2>1. conf.pyramid => \E q \in Base : q.disp = anchors.last /\ cur'.pin = q.fn
    BY <1>7, <1>10
  <2> QED BY <1>1, <1>4, <1>5, <1>10, <1>12, <2>1 DEF CurInv
<1>16. AnchorInv'
  <2>1. AnchorInv
    BY DEF DpbIInv
  <2> QED BY <1>1, <1>10, <2>1 DEF AnchorInv
<1>17. BurstInv'
  BY <1>1 DEF BurstInv
<1>18. NearInv'
  BY <1>1, <1>12 DEF NearInv, DpbIInv
<1>19. FlatInv'
  <2>1. Lag = 0 /\ Lag' = 0 /\ Started' = Started
    BY <1>1 DEF Lag, Started
  <2>2. FlatInv
    BY DEF DpbIInv
  <2> QED BY <1>1, <1>6, <1>10, <1>12, <2>1, <2>2 DEF FlatInv
<1> QED BY <1>12, <1>13, <1>14, <1>15, <1>16, <1>17, <1>18, <1>19 DEF DpbIInv

\* The anchor's age when its run is over, or while the run's references are coded:
\* what is younger are references of the run.
LEMMA AnchorYoung ==
    ASSUME DpbIInv, pc = "b", conf.pyramid, NEW r \in Base, r.disp = anchors.last
    PROVE  Age(r.fn, nextFn) <= 1 + NRefB[conf.bframes]
PROOF
<1> DEFINE a == Age(r.fn, nextFn)
           T == {q \in Base : Age(q.fn, nextFn) < a}
           M == Mids[run.n]
           g == [q \in T |-> q.disp - run.first]
<1>1. /\ run.n \in 0 .. 7 /\ run.first \in Nat /\ run.n <= conf.bframes /\ conf.bframes \in 0 .. 7
      /\ nextFn \in Numbers /\ Numbered(Base, nextFn) /\ anchors.last \in Nat \cup {-1}
  BY Types DEF DpbIInv, BaseInv
<1>2. a \in 1 .. Cardinality(Base) /\ Cardinality(Base) \in Nat
  BY <1>1, TheWindow DEF Numbered
<1>3. IsFiniteSet(T) /\ Cardinality(T) = a - 1
  <2>1. PICK k \in Nat : k = a
    BY <1>2
  <2>2. 1 <= k /\ k <= Cardinality(Base) + 1
    BY <1>2, <2>1
  <2>3. LET U == {q \in Base : Age(q.fn, nextFn) < k} IN IsFiniteSet(U) /\ Cardinality(U) = k - 1
    BY <1>1, <2>2, CountYounger
  <2> QED BY <2>1, <2>3
<1>4. IsFiniteSet(M) /\ Cardinality(M) = NRefB[run.n] /\ NRefB[run.n] <= NRefB[conf.bframes]
      /\ NRefB[run.n] \in Nat /\ NRefB[conf.bframes] \in Nat
  <2>1. conf.bframes \in run.n .. 7
    BY <1>1
  <2> QED BY <1>1, <2>1, MarkedOffsets
<1>5. ASSUME NEW q \in T PROVE q.disp \in Nat /\ q.disp - run.first \in M
  <2>1. q.disp >= run.first
    BY DEF DpbIInv, BurstInv
  <2>2. q.disp # anchors.last
    <3>1. q.fn # r.fn
      BY <1>2, <2>1
    <3> QED BY <1>1, <3>1 DEF Numbered
  <2> QED BY <2>1, <2>2, TheWindow DEF DpbIInv, BurstInv
<1>6. g \in [T -> M]
  BY <1>5
<1>7. ASSUME NEW q \in T, NEW s \in T, g[q] = g[s] PROVE q = s
  <2>1. q.disp - run.first = s.disp - run.first
    BY <1>7
  <2>2. q.disp = s.disp
    BY <1>1, <1>5, <2>1
  <2> QED BY <1>1, <2>2 DEF Numbered
<1>8. g \in Injection(T, M)
  BY <1>6, <1>7 DEF Injection, IsInjective
<1> HIDE DEF g, T, M
<1>9. Cardinality(T) <= Cardinality(M)
  BY <1>3, <1>4, <1>8, FS_Injection
<1> QED BY <1>2, <1>3, <1>4, <1>9

\* refring_push: the anchor becomes the first entry of the ring.
LEMMA RunOverKeeps ==
    ASSUME DpbIInv, RunOver
    PROVE  DpbIInv'
PROOF
<1> DEFINE an == [disp |-> anchors.last, fn |-> lastFn]
           s == <<an>> \o ring
<1>1. /\ pc = "b" /\ cur = None /\ todo = <<>>
      /\ ring' = (IF conf.pyramid THEN ring ELSE Prefix(s, NRef(conf)))
      /\ pc' = "arrive" /\ run' = run /\ disp' = disp /\ todo' = todo
      /\ conf' = conf /\ dpb' = dpb /\ nextFn' = nextFn /\ lastFn' = lastFn
      /\ anchors' = anchors /\ rp' = rp /\ cur' = cur /\ dec' = dec /\ cold' = cold
  BY DEF RunOver, decVars
<1>2. Quiet
  BY <1>1 DEF Quiet, InIdr, Halfway
<1>3. /\ Base = dec /\ Base' = Base /\ ~InIdr' /\ ~Halfway' /\ ~Emptied' /\ ~Emptied
      /\ BaseInv' /\ ColdInv'
  BY <1>2, QuietStep
<1>4. /\ Started /\ run.kind # "none" /\ anchors.last \in Nat /\ run.first \in Nat /\ run.n \in Nat
      /\ anchors.last = run.first + run.n /\ disp = run.first + run.n + 1
  BY <1>1, Types DEF DpbIInv, RunInv, AnchorInv, Started
<1>5. ring \in Seq(Entries) /\ Len(ring) \in Nat /\ lastFn \in Numbers /\ nextFn \in Numbers
  BY Types, LenProperties DEF DpbIInv, DpbTypeOK
<1>6. NRef(conf) \in Nat /\ 1 <= NRef(conf) /\ Window(conf) \in Nat /\ 1 <= Window(conf)
  BY Types, WindowFits DEF DpbIInv
<1>7. /\ s \in Seq(Entries) /\ Len(s) = Len(ring) + 1 /\ s[1] = an
      /\ \A i \in 2 .. Len(s) : s[i] = ring[i - 1]
  <2>1. an \in Entries
    BY <1>4, <1>5 DEF Entries
  <2> HIDE DEF an
  <2>2. <<an>> \in Seq(Entries) /\ Len(<<an>>) = 1 /\ <<an>>[1] = an
    BY <2>1
  <2>3. /\ s \in Seq(Entries) /\ Len(s) = Len(ring) + 1
        /\ \A i \in 1 .. Len(s) : s[i] = IF i <= 1 THEN <<an>>[i] ELSE ring[i - 1]
    BY <1>5, <2>2, ConcatProperties
  <2> QED BY <1>5, <2>2, <2>3
<1> HIDE DEF s
<1>8. /\ Prefix(s, NRef(conf)) \in Seq(Entries)
      /\ Len(Prefix(s, NRef(conf))) = IF Len(s) <= NRef(conf) THEN Len(s) ELSE NRef(conf)
      /\ \A i \in 1 .. Len(Prefix(s, NRef(conf))) : Prefix(s, NRef(conf))[i] = s[i]
  BY <1>6, <1>7, PrefixIs
<1>9. DpbTypeOK'
  BY <1>1, <1>5, <1>8 DEF DpbIInv, DpbTypeOK
<1>10. RunInv'
  BY <1>1, <1>4 DEF RunInv, Started
<1>11. CurInv'
  BY <1>1 DEF CurInv
<1>12. AnchorInv'
  <2>1. rp.prev <= rp.last /\ rp.last <= anchors.last
    BY <1>1 DEF DpbIInv, AnchorInv
  <2> QED BY <1>1, <1>4, <2>1 DEF AnchorInv
<1>13. BurstInv'
  BY <1>1 DEF BurstInv
<1>14. NearInv'
  BY <1>1, <1>3, AnchorYoung DEF NearInv
<1>15. FlatInv'
  <2> SUFFICES ASSUME ~conf.pyramid PROVE FlatInv'
    BY <1>1 DEF FlatInv
  <2>1. /\ \A r, q \in Base : Age(r.fn, nextFn) < Age(q.fn, nextFn) => r.disp > q.disp
        /\ Len(ring) <= NRef(conf) /\ an \in Base
        /\ \A i \in 1 .. Len(ring) : i + 1 <= Window(conf) =>
             ring[i] \in Base /\ Age(ring[i].fn, nextFn) = i + 1
    BY <1>1 DEF DpbIInv, FlatInv, Lag
  <2>2. ring' = Prefix(s, NRef(conf)) /\ Lag' = 0
    BY <1>1 DEF Lag
  <2>3. Age(an.fn, nextFn) = 1
    <3>1. nextFn = (lastFn + 1) % MaxFn
      BY <2>1 DEF DpbIInv, BaseInv
    <3> QED BY <1>5, <3>1, AgeStep
  <2>4. Len(ring') \in Nat /\ 1 <= Len(ring') /\ Len(ring') <= NRef(conf) /\ Len(ring') <= Len(ring) + 1
    BY <1>5, <1>6, <1>7, <1>8, <2>2
  <2>5. ASSUME NEW i \in 1 .. Len(ring'), i <= Window(conf)
        PROVE  ring'[i] \in Base /\ Age(ring'[i].fn, nextFn) = i
    <3>1. ring'[i] = s[i] /\ i \in 1 .. Len(s)
      BY <1>5, <1>7, <1>8, <2>2, <2>4
    <3>2. CASE i = 1
      BY <1>7, <2>1, <2>3, <3>1, <3>2
    <3>3. CASE i # 1
      <4>1. i - 1 \in 1 .. Len(ring) /\ (i - 1) + 1 <= Window(conf) /\ ring'[i] = ring[i - 1]
        BY <1>5, <1>7, <2>4, <2>5, <3>1, <3>3
      <4>2. ring[i - 1] \in Base /\ Age(ring[i - 1].fn, nextFn) = (i - 1) + 1
        BY <2>1, <4>1
      <4> QED BY <4>1, <4>2
    <3> QED BY <3>2, <3>3
  <2>6. ring'[1].disp = anchors.last /\ ring' # <<>>
    <3>1. ring'[1] = s[1]
      BY <1>8, <2>2, <2>4
    <3> QED BY <1>7, <2>4, <3>1
  <2>7. \A i \in 1 .. Len(ring') : i + Lag' <= Window(conf) =>
             ring'[i] \in Base /\ Age(ring'[i].fn, nextFn) = i + Lag'
    BY <2>2, <2>4, <2>5
  <2> HIDE DEF an
  <2> QED BY <1>1, <1>3, <2>1, <2>4, <2>6, <2>7 DEF FlatInv
<1> QED BY <1>3, <1>9, <1>10, <1>11, <1>12, <1>13, <1>14, <1>15 DEF DpbIInv

\* The anchor's own part, at an IDR.
LEMMA IdrKeeps ==
    ASSUME DpbIInv, NEW joins \in BOOLEAN, Anchor(joins), run.kind = "idr"
    PROVE  DpbIInv'
PROOF
<1> DEFINE d == run.first + run.n
<1>1. /\ pc = "anchor" /\ cur = None /\ ~joins
      /\ dpb' = {} /\ ring' = <<>> /\ nextFn' = 0 /\ rp' = [last |-> NoKey, prev |-> NoKey]
      /\ cur' = [type |-> "I", kind |-> "idr", isref |-> TRUE, disp |-> d, fn |-> 0,
                 second |-> FALSE, pin |-> None]
      /\ cold' = cold /\ conf' = conf /\ lastFn' = lastFn /\ anchors' = anchors /\ disp' = disp
      /\ pc' = pc /\ run' = run /\ todo' = todo /\ dec' = dec
  BY DEF Anchor
<1>2. /\ run.first \in Nat /\ run.n \in Nat /\ d \in Nat /\ NoKey = -1
      /\ anchors.last \in Nat \cup {-1} /\ MaxFn \in Nat /\ 0 \in Numbers
      /\ Window(conf) \in Nat
  <2>1. Window(conf) \in Nat /\ 1 <= Window(conf) /\ Window(conf) < MaxFn /\ MaxFn \in Nat
    BY Types DEF DpbIInv
  <2>2. 0 \in Numbers
    BY <2>1 DEF Numbers
  <2> QED BY <2>1, <2>2, Types DEF DpbIInv
<1> HIDE DEF d
<1>3. /\ cur' \in Pictures /\ cur' # None /\ cur'.kind = "idr" /\ cur'.isref /\ ~cur'.second
      /\ cur'.type = "I" /\ cur'.disp = d /\ cur'.fn = 0 /\ cur'.pin = None
  <2>1. cur' \in Pictures
    BY <1>1, <1>2 DEF Pictures
  <2> QED BY <1>1, <2>1, NoneAssumption
<1>4. Emptied' /\ InIdr' /\ ~Halfway' /\ Base' = {} /\ Room' = Window(conf)
  BY <1>1, <1>3 DEF Emptied, InIdr, Halfway, Base, Room
<1>5. DpbTypeOK'
  <2>1. ring' \in Seq(Entries)
    BY <1>1, EmptySeq
  <2>2. /\ rp' \in [last : Nat \cup {NoKey}, prev : Nat \cup {NoKey}]
        /\ dpb' \subseteq Entries
    BY <1>1
  <2> QED BY <1>1, <1>2, <1>3, <2>1, <2>2 DEF DpbIInv, DpbTypeOK
<1>6. RunInv'
  BY <1>1 DEF RunInv, DpbIInv, Started
<1>7. CurInv'
  BY <1>1, <1>2, <1>3 DEF CurInv, d
<1>8. AnchorInv'
  <2>1. anchors.last < run.first
    BY <1>1 DEF DpbIInv, AnchorInv
  <2> QED BY <1>1, <1>2, <1>3, <2>1 DEF AnchorInv
<1>9. BaseInv'
  <2>1. Numbered({}, 0) /\ Cardinality({}) = 0
    BY FS_EmptySet DEF Numbered
  <2>2. Closed({}, 0, rp'.last)
    BY DEF Closed
  <2> QED BY <1>1, <1>2, <1>4, <2>1, <2>2 DEF BaseInv
<1>10. BurstInv'
  BY <1>1 DEF BurstInv
<1>11. NearInv'
  BY <1>4 DEF NearInv
<1>12. FlatInv'
  <2>1. Len(ring') = 0 /\ NRef(conf) \in Nat
    BY <1>1, WindowFits, Types DEF DpbIInv
  <2> QED BY <1>1, <1>3, <1>4, <2>1 DEF FlatInv
<1>13. ColdInv'
  BY <1>4 DEF ColdInv
<1> QED BY <1>5, <1>6, <1>7, <1>8, <1>9, <1>10, <1>11, <1>12, <1>13 DEF DpbIInv

\* And at a P picture or an open key.
LEMMA AnchorKeeps ==
    ASSUME DpbIInv, NEW joins \in BOOLEAN, Anchor(joins), run.kind # "idr"
    PROVE  DpbIInv'
PROOF
<1> DEFINE d == run.first + run.n
<1>1. /\ pc = "anchor" /\ cur = None /\ (joins => run.kind = "key" /\ cold.key = NoKey)
      /\ dpb' = dpb /\ ring' = ring /\ nextFn' = nextFn
      /\ rp' = (IF run.kind = "key" THEN [last |-> d, prev |-> rp.last] ELSE rp)
      /\ cur' = [type |-> IF run.kind = "p" THEN "P" ELSE "I", kind |-> run.kind, isref |-> TRUE,
                 disp |-> d, fn |-> nextFn, second |-> FALSE,
                 pin |-> IF conf.pyramid THEN PrevAnchor.fn ELSE None]
      /\ cold' = (IF joins THEN [key |-> d, refs |-> {}] ELSE cold)
      /\ conf' = conf /\ lastFn' = lastFn /\ anchors' = anchors /\ disp' = disp
      /\ pc' = pc /\ run' = run /\ todo' = todo /\ dec' = dec
  BY DEF Anchor
<1>2. /\ run.first \in Nat /\ run.n \in Nat /\ d \in Nat /\ d >= run.first /\ NoKey = -1
      /\ anchors.last \in Nat \cup {-1} /\ nextFn \in Nat
      /\ rp.last \in Nat \cup {-1} /\ rp.prev \in Nat \cup {-1}
  BY Types DEF DpbIInv
<1>3. /\ run.kind \in {"p", "key"} /\ run.first > 0 /\ Started /\ anchors.last \in Nat
      /\ anchors.last < run.first /\ rp.prev <= rp.last /\ rp.last <= anchors.last
  <2>1. run.kind \in {"p", "key"}
    BY <1>1, Types DEF DpbIInv, RunInv
  <2>2. run.first # 0
    BY <1>1 DEF DpbIInv, RunInv
  <2>3. Started
    BY <1>1, <1>2, <2>2 DEF DpbIInv, RunInv
  <2>4. anchors.last < run.first /\ rp.prev <= rp.last /\ rp.last <= anchors.last
    BY <1>1 DEF DpbIInv, AnchorInv
  <2> QED BY <1>2, <2>1, <2>2, <2>3, <2>4 DEF Started
<1> HIDE DEF d
<1>4. ~InIdr /\ ~Halfway /\ ~Emptied /\ Base = dec
  BY <1>1 DEF InIdr, Halfway, Emptied, Base
<1>5. PICK r \in Base : r.disp = anchors.last
  BY <1>3, <1>4 DEF DpbIInv, BaseInv
<1>6. ASSUME conf.pyramid PROVE PrevAnchor = r
  <2>1. dpb = Base /\ \A q \in Base : q.disp = anchors.last => q = r
    BY <1>5, <1>6 DEF DpbIInv, BaseInv, Numbered
  <2>2. Held(anchors.last)
    BY <1>5, <2>1 DEF Held
  <2>3. PrevAnchor \in dpb /\ PrevAnchor.disp = anchors.last
    BY <1>5, <2>1, <2>2 DEF PrevAnchor
  <2> QED BY <2>1, <2>3
<1>7. r.fn \in Nat
  BY <1>5, TheWindow DEF Numbers
<1>8. /\ cur' \in Pictures /\ cur' # None /\ cur'.kind = run.kind /\ cur'.isref /\ ~cur'.second
      /\ cur'.type = (IF run.kind = "p" THEN "P" ELSE "I") /\ cur'.disp = d /\ cur'.fn = nextFn
      /\ cur'.pin = IF conf.pyramid THEN r.fn ELSE None
  <2>1. cur' = [type |-> IF run.kind = "p" THEN "P" ELSE "I", kind |-> run.kind, isref |-> TRUE,
                disp |-> d, fn |-> nextFn, second |-> FALSE,
                pin |-> IF conf.pyramid THEN r.fn ELSE None]
    BY <1>1, <1>6
  <2>2. (IF conf.pyramid THEN r.fn ELSE None) \in Nat \cup {None}
    BY <1>7
  <2>3. cur' \in Pictures
    BY <1>2, <1>3, <2>1, <2>2 DEF Pictures
  <2> QED BY <2>1, <2>3, NoneAssumption
<1>9. ~InIdr' /\ ~Halfway' /\ ~Emptied' /\ Base' = Base /\ Room' = Room
  BY <1>1, <1>3, <1>4, <1>8 DEF InIdr, Halfway, Emptied, Base, Room
<1>10. \A q \in Base : q.disp \in Nat /\ q.disp <= anchors.last /\ q.disp < d
  BY <1>2, <1>3, TheWindow DEF DpbIInv, BaseInv
<1>11. DpbTypeOK'
  <2>1. rp' \in [last : Nat \cup {NoKey}, prev : Nat \cup {NoKey}]
    BY <1>1, <1>2 DEF DpbIInv, DpbTypeOK
  <2>2. cold' \in [key : Nat \cup {NoKey}, refs : SUBSET Entries]
    <3>1. CASE joins
      <4>1. cold' = [key |-> d, refs |-> {}]
        BY <1>1, <3>1
      <4> QED BY <1>2, <4>1
    <3>2. CASE ~joins
      BY <1>1, <3>2 DEF DpbIInv, DpbTypeOK
    <3> QED BY <3>1, <3>2
  <2> QED BY <1>1, <1>8, <2>1, <2>2 DEF DpbIInv, DpbTypeOK
<1>12. RunInv'
  BY <1>1 DEF RunInv, DpbIInv, Started
<1>13. CurInv'
  <2>1. conf.pyramid => \E q \in Base : q.disp = anchors.last /\ cur'.pin = q.fn
    BY <1>5, <1>8
  <2> QED BY <1>1, <1>2, <1>3, <1>8, <1>9, <2>1 DEF CurInv, d
<1>14. AnchorInv'
  <2>1. run.kind = "key" => rp'.last = d /\ rp'.prev = rp.last
    BY <1>1
  <2>2. run.kind # "key" => rp' = rp
    BY <1>1
  <2> QED BY <1>1, <1>2, <1>3, <1>8, <2>1, <2>2 DEF AnchorInv
<1>15. Closed(Base, nextFn, rp'.last)
  <2>1. CASE run.kind = "key"
    <3>1. rp'.last = d
      BY <1>1, <2>1
    <3>2. \A q \in Base : ~(d <= q.disp)
      BY <1>2, <1>10
    <3> QED BY <3>1, <3>2 DEF Closed
  <2>2. CASE run.kind # "key"
    BY <1>1, <2>2 DEF DpbIInv, BaseInv
  <2> QED BY <2>1, <2>2
<1>16. BaseInv'
  <2>1. BaseInv /\ Started' = Started
    BY <1>1 DEF DpbIInv, Started
  <2> QED BY <1>1, <1>4, <1>9, <1>15, <2>1 DEF BaseInv
<1>17. BurstInv'
  BY <1>1 DEF BurstInv
<1>18. NearInv'
  BY <1>1, <1>9 DEF NearInv, DpbIInv
<1>19. FlatInv'
  <2>1. Lag = 0 /\ Lag' = 0 /\ Started' = Started
    BY <1>1 DEF Lag, Started
  <2>2. FlatInv
    BY DEF DpbIInv
  <2> QED BY <1>1, <1>4, <1>8, <1>9, <2>1, <2>2 DEF FlatInv
<1>20. ColdInv'
  <2> SUFFICES ASSUME cold'.key # NoKey
               PROVE  /\ cold'.refs = {q \in dec : q.disp >= cold'.key}
                      /\ cold'.key <= rp'.last
                      /\ cold'.key = rp'.last \/ cold'.key <= rp'.prev
                      /\ Closed(Base, nextFn, cold'.key)
    BY <1>1, <1>9 DEF ColdInv
  <2>1. CASE joins
    <3>1. cold'.key = d /\ cold'.refs = {} /\ rp'.last = d
      BY <1>1, <2>1
    <3>2. \A q \in dec : ~(q.disp >= d)
      BY <1>2, <1>4, <1>10
    <3>3. Closed(Base, nextFn, d)
      BY <1>2, <1>10 DEF Closed
    <3> QED BY <1>2, <3>1, <3>2, <3>3
  <2>2. CASE ~joins
    <3>1. cold' = cold
      BY <1>1, <2>2
    <3>2. /\ cold.refs = {q \in dec : q.disp >= cold.key} /\ cold.key <= rp.last
          /\ cold.key = rp.last \/ cold.key <= rp.prev
          /\ Closed(Base, nextFn, cold.key)
      BY <1>4, <3>1 DEF DpbIInv, ColdInv
    <3>3. CASE run.kind # "key"
      BY <1>1, <3>1, <3>2, <3>3
    <3>4. CASE run.kind = "key"
      <4>1. rp'.last = d /\ rp'.prev = rp.last
        BY <1>1, <3>4
      <4>2. cold.key \in Nat \cup {-1}
        BY <1>2 DEF DpbIInv, DpbTypeOK
      <4>3. cold.key <= d
        BY <1>2, <1>3, <3>2, <4>2
      <4> QED BY <3>1, <3>2, <4>1, <4>3
    <3> QED BY <3>3, <3>4
  <2> QED BY <2>1, <2>2
<1> QED BY <1>11, <1>12, <1>13, <1>14, <1>16, <1>17, <1>18, <1>19, <1>20 DEF DpbIInv

\* The two halves of a range, without the picture between them.
Parts(a, m, b) ==
    (IF a < m THEN << <<a, m>> >> ELSE <<>>) \o (IF m + 1 < b THEN << <<m + 1, b>> >> ELSE <<>>)

\* A list that is not empty is its head and what is behind it.
LEMMA HeadAndTail ==
    ASSUME NEW S, NEW s \in Seq(S), s # <<>>
    PROVE  /\ s \in Seq(S) /\ Tail(s) \in Seq(S) /\ Head(s) \in S
           /\ Head(s) = s[1] /\ Len(s) \in Nat /\ Len(s) >= 1
           /\ Len(Tail(s)) = Len(s) - 1
           /\ \A i \in 1 .. Len(Tail(s)) : Tail(s)[i] = s[i + 1]
PROOF
<1>1. Len(s) \in Nat
  BY LenProperties
<1>2. Len(s) # 0
  BY EmptySeq
<1>3. Head(s) = s[1]
  OBVIOUS
<1>4. Len(s) >= 1
  BY <1>1, <1>2
<1>5. /\ Head(s) \in S /\ Tail(s) \in Seq(S) /\ Len(Tail(s)) = Len(s) - 1
      /\ \A i \in 1 .. Len(Tail(s)) : Tail(s)[i] = s[i + 1]
  BY HeadTailProperties, Zenon
<1> QED BY <1>1, <1>3, <1>4, <1>5, Zenon

\* Each half is a range of the node, and the first is before the second.
LEMMA PartsAre ==
    ASSUME NEW a \in Nat, NEW b \in Nat, NEW m \in Nat
    PROVE  /\ Parts(a, m, b) \in Seq(Nat \X Nat) /\ Len(Parts(a, m, b)) \in 0 .. 2
           /\ \A i \in 1 .. Len(Parts(a, m, b)) :
                \/ Parts(a, m, b)[i] = <<a, m>> /\ a < m
                \/ Parts(a, m, b)[i] = <<m + 1, b>> /\ m + 1 < b
           /\ \A i, j \in 1 .. Len(Parts(a, m, b)) : i < j =>
                Parts(a, m, b)[i] = <<a, m>> /\ Parts(a, m, b)[j] = <<m + 1, b>>
PROOF
<1> DEFINE p == <<a, m>>
           q == <<m + 1, b>>
<1>1. p \in Nat \X Nat /\ q \in Nat \X Nat
  OBVIOUS
<1> HIDE DEF p, q
<1>2. /\ <<p>> \in Seq(Nat \X Nat) /\ Len(<<p>>) = 1 /\ <<p>>[1] = p
      /\ <<q>> \in Seq(Nat \X Nat) /\ Len(<<q>>) = 1 /\ <<q>>[1] = q
      /\ <<>> \in Seq(Nat \X Nat) /\ Len(<<>>) = 0
  BY <1>1, EmptySeq
<1>3. Parts(a, m, b) = (IF a < m THEN <<p>> ELSE <<>>) \o (IF m + 1 < b THEN <<q>> ELSE <<>>)
  BY DEF Parts, p, q
<1>4. CASE a < m /\ m + 1 < b
  <2>1. Parts(a, m, b) = <<p>> \o <<q>>
    BY <1>3, <1>4
  <2>2. /\ <<p>> \o <<q>> \in Seq(Nat \X Nat) /\ Len(<<p>> \o <<q>>) = 2
        /\ (<<p>> \o <<q>>)[1] = p /\ (<<p>> \o <<q>>)[2] = q
    BY <1>1, <1>2, ConcatProperties
  <2> QED BY <1>4, <2>1, <2>2 DEF p, q
<1>5. CASE a < m /\ ~(m + 1 < b)
  <2>1. Parts(a, m, b) = <<p>>
    BY <1>2, <1>3, <1>5, ConcatEmptySeq
  <2> QED BY <1>2, <1>5, <2>1 DEF p
<1>6. CASE ~(a < m) /\ m + 1 < b
  <2>1. Parts(a, m, b) = <<q>>
    BY <1>2, <1>3, <1>6, ConcatEmptySeq
  <2> QED BY <1>2, <1>6, <2>1 DEF q
<1>7. CASE ~(a < m) /\ ~(m + 1 < b)
  <2>1. Parts(a, m, b) = <<>>
    BY <1>2, <1>3, <1>7, ConcatEmptySeq
  <2> QED BY <1>2, <2>1
<1> QED BY <1>4, <1>5, <1>6, <1>7

\* One node of code_b_hier, or one B picture of a flat run.
LEMMA CodeBKeeps ==
    ASSUME DpbIInv, CodeB
    PROVE  DpbIInv'
PROOF
<1> DEFINE a == Head(todo)[1]
           b == Head(todo)[2]
           m == (a + b) \div 2
           H == Parts(a, m, b)
           p == Len(H)
<1>1. /\ pc = "b" /\ cur = None /\ todo # <<>>
      /\ cur' = [type |-> "B", kind |-> "b", isref |-> Marks(a, b), disp |-> run.first + m,
                 fn |-> IF Marks(a, b) THEN nextFn ELSE lastFn, pin |-> None, second |-> FALSE]
      /\ todo' = H \o Tail(todo)
      /\ pc' = pc /\ run' = run /\ disp' = disp
      /\ conf' = conf /\ dpb' = dpb /\ ring' = ring /\ nextFn' = nextFn /\ lastFn' = lastFn
      /\ anchors' = anchors /\ rp' = rp /\ dec' = dec /\ cold' = cold
  BY DEF CodeB, encVars, decVars, Parts
<1>2. /\ run.first \in Nat /\ run.n \in 0 .. 7 /\ run.n \in Nat /\ nextFn \in Nat /\ lastFn \in Nat
      /\ run.kind \in {"none", "idr", "p", "key"}
      /\ anchors.last \in Nat \cup {-1}
  BY Types DEF DpbIInv
<1>3. /\ todo \in Seq(Nat \X Nat) /\ Tail(todo) \in Seq(Nat \X Nat) /\ Head(todo) \in Nat \X Nat
      /\ Head(todo) = todo[1] /\ Len(todo) \in Nat /\ Len(todo) >= 1
      /\ Len(Tail(todo)) = Len(todo) - 1
      /\ \A i \in 1 .. Len(Tail(todo)) : Tail(todo)[i] = todo[i + 1]
  <2>1. todo \in Seq(Nat \X Nat)
    BY DEF DpbIInv, DpbTypeOK
  <2> QED BY <1>1, <2>1, HeadAndTail, Zenon
<1>4. /\ a \in Nat /\ b \in Nat /\ m \in Nat /\ todo[1] = <<a, b>>
      /\ todo[1][1] = a /\ todo[1][2] = b /\ 1 \in 1 .. Len(todo)
  BY <1>3
<1>5. /\ \A i \in 1 .. Len(todo) :
           /\ todo[i][1] < todo[i][2] /\ todo[i][2] <= run.n
           /\ todo[i][1] \in Nat /\ todo[i][2] \in Nat /\ todo[i] = <<todo[i][1], todo[i][2]>>
           /\ conf.pyramid => todo[i] \in Spans[run.n]
      /\ \A i, j \in 1 .. Len(todo) : i < j => todo[i][2] <= todo[j][1]
      /\ run.kind # "idr"
  <2>1. \A i \in 1 .. Len(todo) : todo[i] \in Nat \X Nat
    BY <1>3, ElementOfSeq
  <2>2. \A i \in 1 .. Len(todo) :
          /\ todo[i][1] \in Nat /\ todo[i][2] \in Nat /\ todo[i] = <<todo[i][1], todo[i][2]>>
    BY <2>1
  <2> QED BY <1>1, <2>2 DEF DpbIInv, BurstInv
<1>6. run.kind \in {"p", "key"}
  BY <1>1, <1>2, <1>5 DEF DpbIInv, RunInv
<1>7. a < b /\ b <= run.n /\ a <= m /\ m < b
  <2>1. a < b /\ b <= run.n
    BY <1>3, <1>4, <1>5
  <2> QED BY <1>4, <2>1
<1>8. conf.pyramid => /\ a < m => <<a, m>> \in Spans[run.n]
                      /\ m + 1 < b => <<m + 1, b>> \in Spans[run.n]
                      /\ b - a > 1 => m \in Mids[run.n]
  <2> SUFFICES ASSUME conf.pyramid
               PROVE  /\ a < m => <<a, m>> \in Spans[run.n]
                      /\ m + 1 < b => <<m + 1, b>> \in Spans[run.n]
                      /\ b - a > 1 => m \in Mids[run.n]
    OBVIOUS
  <2>1. <<a, b>> \in Spans[run.n]
    BY <1>3, <1>4, <1>5
  <2>2. a \in Nat /\ b \in Nat /\ m = (a + b) \div 2 /\ run.n \in 0 .. 7
    BY <1>2, <1>4
  <2> HIDE DEF a, b, m
  <2>3. CutAt(run.n, a, b, (a + b) \div 2)
    BY <2>1, <2>2, SpanMiddle, Zenon
  <2>4. CutAt(run.n, a, b, m)
    BY <2>2, <2>3, Zenon
  <2> QED BY <2>4 DEF CutAt
<1>9. Marks(a, b) <=> conf.pyramid /\ b - a > 1 /\ run.kind = "p"
  BY <1>6 DEF Marks
<1> HIDE DEF a, b, m
<1>10. /\ cur' \in Pictures /\ cur' # None /\ cur'.type = "B" /\ cur'.kind = "b"
       /\ cur'.isref = Marks(a, b) /\ cur'.disp = run.first + m /\ ~cur'.second /\ cur'.pin = None
       /\ cur'.fn = (IF Marks(a, b) THEN nextFn ELSE lastFn)
  <2>1. Marks(a, b) \in BOOLEAN
    BY Zenon DEF Marks
  <2>2. run.first + m \in Nat /\ (IF Marks(a, b) THEN nextFn ELSE lastFn) \in Nat
    BY <1>2, <1>4
  <2>3. cur' \in Pictures
    BY <1>1, <2>1, <2>2 DEF Pictures
  <2> QED BY <1>1, <2>3, NoneAssumption
<1>11. Quiet
  BY <1>1, <1>10 DEF Quiet, InIdr, Halfway
<1>12. /\ Base = dec /\ Base' = Base /\ ~InIdr' /\ ~Halfway' /\ ~Emptied' /\ ~Emptied
       /\ BaseInv' /\ ColdInv'
  BY <1>11, QuietStep
<1>13. /\ H \in Seq(Nat \X Nat) /\ p \in 0 .. 2
       /\ \A i \in 1 .. p : \/ H[i] = <<a, m>> /\ a < m
                            \/ H[i] = <<m + 1, b>> /\ m + 1 < b
       /\ \A i, j \in 1 .. p : i < j => H[i] = <<a, m>> /\ H[j] = <<m + 1, b>>
  <2>1. a \in Nat /\ b \in Nat /\ m \in Nat
    BY <1>4
  <2> QED BY <2>1, PartsAre, ZenonT(40)
<1> HIDE DEF H
<1>14. /\ todo' \in Seq(Nat \X Nat) /\ Len(todo') = p + (Len(todo) - 1)
       /\ \A i \in 1 .. Len(todo') : i <= p => todo'[i] = H[i]
       /\ \A i \in 1 .. Len(todo') : i > p => todo'[i] = todo[(i - p) + 1] /\ (i - p) + 1 \in 2 .. Len(todo)
  <2>1. /\ todo' \in Seq(Nat \X Nat) /\ Len(todo') = p + Len(Tail(todo))
        /\ \A i \in 1 .. Len(todo') : todo'[i] = IF i <= p THEN H[i] ELSE Tail(todo)[i - p]
    BY <1>1, <1>3, <1>13, ConcatProperties
  <2>2. ASSUME NEW i \in 1 .. Len(todo'), i > p
        PROVE  todo'[i] = todo[(i - p) + 1] /\ (i - p) + 1 \in 2 .. Len(todo)
    <3> HIDE DEF p
    <3>1. p \in Nat /\ Len(Tail(todo)) \in Nat /\ i \in Nat /\ i <= p + Len(Tail(todo))
      BY <1>3, <1>13, <2>1
    <3>2. i - p \in 1 .. Len(Tail(todo))
      BY <2>2, <3>1
    <3>3. todo'[i] = Tail(todo)[i - p]
      BY <2>1, <2>2, <3>1
    <3>4. Tail(todo)[i - p] = todo[(i - p) + 1]
      BY <1>3, <3>2
    <3>5. (i - p) + 1 \in 2 .. Len(todo)
      <4>1. PICK k \in 1 .. Len(Tail(todo)) : k = i - p
        BY <3>2
      <4>2. k + 1 \in 2 .. Len(todo)
        BY <1>3
      <4> QED BY <4>1, <4>2
    <3> QED BY <3>3, <3>4, <3>5
  <2> QED BY <1>3, <2>1, <2>2
<1> HIDE DEF p
<1>15. ASSUME NEW i \in 1 .. Len(todo')
       PROVE  /\ todo'[i][1] \in Nat /\ todo'[i][2] \in Nat
              /\ todo'[i][1] < todo'[i][2] /\ todo'[i][2] <= run.n
              /\ conf.pyramid => todo'[i] \in Spans[run.n]
              /\ m \notin todo'[i][1] .. todo'[i][2] - 1
              /\ \E k \in 1 .. Len(todo) : todo[k][1] <= todo'[i][1] /\ todo'[i][2] <= todo[k][2]
  <2>1. CASE i <= p
    <3>1. todo'[i] = H[i] /\ i \in 1 .. p
      <4>1. p \in Nat /\ i \in Nat /\ 1 <= i
        BY <1>13, <1>14
      <4>2. todo'[i] = H[i]
        BY <1>14, <2>1
      <4> QED BY <2>1, <4>1, <4>2
    <3>2. \/ todo'[i] = <<a, m>> /\ a < m
          \/ todo'[i] = <<m + 1, b>> /\ m + 1 < b
      BY <1>13, <3>1
    <3>3. todo[1][1] = a /\ todo[1][2] = b /\ 1 \in 1 .. Len(todo)
      BY <1>3, <1>4
    <3>4. CASE todo'[i] = <<a, m>> /\ a < m
      BY <1>2, <1>4, <1>7, <1>8, <3>3, <3>4
    <3>5. CASE todo'[i] = <<m + 1, b>> /\ m + 1 < b
      BY <1>2, <1>4, <1>7, <1>8, <3>3, <3>5, SMTT(40)
    <3> QED BY <3>2, <3>4, <3>5
  <2>2. CASE i > p
    <3>1. PICK k \in 2 .. Len(todo) : todo'[i] = todo[k]
      BY <1>14, <2>2
    <3>2. k \in 1 .. Len(todo) /\ 1 \in 1 .. Len(todo) /\ 1 < k
      BY <1>3
    <3>3. todo[1][2] <= todo[k][1] /\ todo[1][2] = b
      BY <1>4, <1>5, <3>2
    <3>4. /\ todo[k][1] < todo[k][2] /\ todo[k][2] <= run.n /\ todo[k][1] \in Nat /\ todo[k][2] \in Nat
          /\ conf.pyramid => todo[k] \in Spans[run.n]
      BY <1>5, <3>2
    <3>5. m \notin todo[k][1] .. todo[k][2] - 1
      BY <1>4, <1>7, <3>3, <3>4
    <3> QED BY <3>1, <3>2, <3>4, <3>5
  <2> QED BY <1>13, <2>1, <2>2
<1>16. ASSUME NEW i \in 1 .. Len(todo'), NEW j \in 1 .. Len(todo'), i < j
       PROVE  todo'[i][2] <= todo'[j][1]
  <2>0. p \in Nat /\ Len(todo') \in Nat
    BY <1>3, <1>13, <1>14, SMTT(40)
  <2>1. CASE j <= p
    <3>1. i \in 1 .. p /\ j \in 1 .. p /\ todo'[i] = H[i] /\ todo'[j] = H[j]
      BY <1>14, <1>16, <2>0, <2>1
    <3>2. todo'[i] = <<a, m>> /\ todo'[j] = <<m + 1, b>>
      BY <1>13, <1>16, <3>1
    <3> QED BY <1>4, <3>2
  <2>2. CASE i <= p /\ j > p
    <3>1. i \in 1 .. p /\ todo'[i] = H[i]
      BY <1>14, <2>0, <2>2
    <3>2. todo'[i][2] <= b
      <4>1. CASE H[i] = <<a, m>>
        BY <1>4, <1>7, <3>1, <4>1
      <4>2. CASE H[i] = <<m + 1, b>>
        BY <1>4, <3>1, <4>2
      <4> QED BY <1>13, <3>1, <4>1, <4>2
    <3>3. PICK k \in 2 .. Len(todo) : todo'[j] = todo[k]
      BY <1>14, <2>2
    <3>4. todo[1][2] <= todo[k][1] /\ todo[1][2] = b
      BY <1>3, <1>4, <1>5
    <3>5. todo'[i][2] \in Nat /\ todo[k][1] \in Nat
      <4>1. k \in 1 .. Len(todo)
        BY <1>3
      <4> QED BY <1>5, <1>15, <4>1
    <3> QED BY <1>4, <3>2, <3>3, <3>4, <3>5, SMTT(40)
  <2>3. CASE i > p
    <3>1. /\ todo'[i] = todo[(i - p) + 1] /\ (i - p) + 1 \in 2 .. Len(todo)
          /\ todo'[j] = todo[(j - p) + 1] /\ (j - p) + 1 \in 2 .. Len(todo)
      BY <1>14, <1>16, <2>0, <2>3
    <3>2. PICK x \in 1 .. Len(todo), y \in 1 .. Len(todo) :
            x < y /\ todo'[i] = todo[x] /\ todo'[j] = todo[y]
      BY <1>16, <2>0, <3>1
    <3> QED BY <1>5, <3>2
  <2> QED BY <2>0, <2>1, <2>2, <2>3
<1>17. DpbTypeOK'
  BY <1>1, <1>10, <1>14 DEF DpbIInv, DpbTypeOK
<1>18. RunInv'
  BY <1>1 DEF RunInv, DpbIInv, Started
<1>19. CurInv'
  <2>1. run.first + m \in run.first .. run.first + run.n - 1 /\ (run.first + m) - run.first = m
    BY <1>2, <1>4, <1>7, SMTT(40)
  <2> QED BY <1>1, <1>5, <1>8, <1>9, <1>10, <2>1 DEF CurInv
<1>20. AnchorInv'
  <2>1. AnchorInv
    BY DEF DpbIInv
  <2> QED BY <1>1, <1>10, <2>1 DEF AnchorInv
<1>21. BurstInv'
  <2>1. /\ \A r \in Base : r.disp >= run.first /\ r.disp # anchors.last =>
             /\ conf.pyramid /\ run.kind = "p" /\ r.disp - run.first \in Mids[run.n]
             /\ \A i \in 1 .. Len(todo) : r.disp - run.first \notin todo[i][1] .. todo[i][2] - 1
        /\ \A r, q \in Base : r.disp = anchors.last /\ Age(q.fn, nextFn) < Age(r.fn, nextFn) =>
             q.disp >= run.first
    BY <1>1 DEF DpbIInv, BurstInv
  <2>2. ASSUME NEW r \in Base, r.disp >= run.first, r.disp # anchors.last
        PROVE  /\ \A i \in 1 .. Len(todo') : r.disp - run.first \notin todo'[i][1] .. todo'[i][2] - 1
               /\ r.disp # run.first + m
    <3>1. r.disp \in Nat /\ \A k \in 1 .. Len(todo) : r.disp - run.first \notin todo[k][1] .. todo[k][2] - 1
      BY <2>1, <2>2, TheWindow
    <3>2. r.disp # run.first + m
      <4>1. r.disp - run.first \notin a .. b - 1
        BY <1>4, <3>1
      <4> QED BY <1>2, <1>4, <1>7, <3>1, <4>1
    <3>3. ASSUME NEW i \in 1 .. Len(todo')
          PROVE  r.disp - run.first \notin todo'[i][1] .. todo'[i][2] - 1
      <4>1. PICK k \in 1 .. Len(todo) : todo[k][1] <= todo'[i][1] /\ todo'[i][2] <= todo[k][2]
        BY <1>15
      <4>2. todo'[i][1] \in Nat /\ todo'[i][2] \in Nat /\ todo[k][1] \in Nat /\ todo[k][2] \in Nat
        BY <1>5, <1>15
      <4>3. r.disp - run.first \notin todo[k][1] .. todo[k][2] - 1
        BY <3>1
      <4>4. PICK z \in Int : z = r.disp - run.first
        BY <1>2, <3>1
      <4> QED BY <4>1, <4>2, <4>3, <4>4
    <3> QED BY <3>2, <3>3
  <2>3. (run.first + m) - run.first = m
    BY <1>2, <1>4
  <2> QED BY <1>1, <1>5, <1>10, <1>12, <1>15, <1>16, <2>1, <2>2, <2>3 DEF BurstInv
<1>22. NearInv'
  BY <1>1 DEF NearInv
<1>23. FlatInv'
  <2>1. Lag = 1 /\ Lag' = 1
    BY <1>1 DEF Lag
  <2>2. FlatInv
    BY DEF DpbIInv
  <2> QED BY <1>1, <1>10, <1>12, <2>1, <2>2 DEF FlatInv
<1> QED BY <1>12, <1>17, <1>18, <1>19, <1>20, <1>21, <1>22, <1>23 DEF DpbIInv

\* The window never slides past the anchor while a reference is coded behind it.
LEMMA AnchorStays ==
    ASSUME DpbIInv, cur # None, cur.isref, conf.fields \/ pc = "b",
           NEW r \in Base, r.disp = anchors.last
    PROVE  Age(r.fn, nextFn) <= Window(conf) - 1 /\ r \in Stay
PROOF
<1>1. /\ Window(conf) \in Nat /\ conf \in Configs /\ conf.bframes \in 0 .. 7
      /\ nextFn \in Numbers /\ Numbered(Base, nextFn)
      /\ Age(r.fn, nextFn) \in 1 .. Cardinality(Base) /\ Cardinality(Base) \in Nat
  BY Types, TheWindow DEF DpbIInv, BaseInv, Numbered
<1>2. CASE conf.pyramid
  <2>1. Age(r.fn, nextFn) <= 1 + NRefB[conf.bframes]
    <3>1. CASE pc = "b"
      BY <1>2, <3>1, AnchorYoung
    <3>2. CASE pc # "b"
      BY <1>2, <3>2 DEF DpbIInv, NearInv
    <3> QED BY <3>1, <3>2
  <2>2. NRefB[conf.bframes] + 2 <= Window(conf)
    BY <1>1, <1>2, WindowFits
  <2>3. NRefB[conf.bframes] \in Nat
    BY <1>1, MarkedOffsets
  <2>4. Age(r.fn, nextFn) <= Window(conf) - 1
    BY <1>1, <2>1, <2>2, <2>3
  <2> QED BY <2>4, StoreFacts
<1>3. CASE ~conf.pyramid
  <2>1. pc # "b" /\ conf.fields
    BY <1>3, NewReference
  <2>2. 2 <= Window(conf)
    BY <1>1, <2>1, WindowFits
  <2>3. Age(r.fn, nextFn) = 1
    <3> SUFFICES ASSUME Age(r.fn, nextFn) # 1 PROVE FALSE
      OBVIOUS
    <3>1. 1 \in 1 .. Cardinality(Base)
      BY <1>1
    <3>2. PICK q \in Base : Age(q.fn, nextFn) = 1
      BY <1>1, <3>1 DEF Numbered
    <3>3. Age(q.fn, nextFn) < Age(r.fn, nextFn)
      BY <1>1, <3>2
    <3>4. q.disp > r.disp
      BY <1>3, <3>3 DEF DpbIInv, FlatInv
    <3>5. q.disp <= anchors.last
      BY DEF DpbIInv, BaseInv
    <3> QED BY <3>4, <3>5, TheWindow
  <2>4. Age(r.fn, nextFn) <= Window(conf) - 1
    BY <1>1, <2>2, <2>3
  <2> QED BY <2>4, StoreFacts
<1> QED BY <1>2, <1>3

\* The first field of a picture nobody refers to.
LEMMA PlainFieldKeeps ==
    ASSUME DpbIInv, FirstField, ~cur.isref
    PROVE  DpbIInv'
PROOF
<1>1. /\ ring' = ring /\ nextFn' = nextFn /\ lastFn' = lastFn /\ anchors' = anchors /\ rp' = rp
      /\ disp' = disp /\ pc' = pc /\ run' = run /\ todo' = todo /\ conf' = conf
  BY DEF FirstField
<1>2. /\ cur # None /\ ~cur.second /\ conf.fields
      /\ cur' # None /\ cur' \in Pictures /\ cur'.second /\ cur'.kind = cur.kind
      /\ cur'.isref = cur.isref /\ cur'.disp = cur.disp /\ cur'.fn = cur.fn /\ cur'.pin = cur.pin
      /\ cur'.type = IF cur.type = "I" /\ cur.kind # "key" THEN "P" ELSE cur.type
  BY FieldBase
<1>3. /\ Base' = Base /\ ~Halfway' /\ ~Emptied' /\ ~InIdr' /\ dec' = dec /\ dec = Base
      /\ ~Emptied /\ ~Halfway /\ ~InIdr /\ cold' = cold
      /\ dpb' = IF conf.pyramid THEN Base ELSE {}
  BY FieldBase
<1>4. pc \in {"tail", "b"} /\ cur'.type = cur.type
  BY <1>2, CurTypes DEF DpbIInv, CurInv
<1>5. DpbTypeOK'
  <2>1. dpb' \subseteq Entries
    BY <1>3, TheWindow
  <2> QED BY <1>1, <1>2, <1>3, <2>1 DEF DpbIInv, DpbTypeOK
<1>6. RunInv'
  BY <1>1 DEF DpbIInv, RunInv, Started
<1>7. CurInv'
  <2>1. CurInv
    BY DEF DpbIInv
  <2> QED BY <1>1, <1>2, <1>3, <1>4, <2>1 DEF CurInv
<1>8. AnchorInv'
  <2>1. AnchorInv
    BY DEF DpbIInv
  <2> QED BY <1>1, <1>2, <2>1 DEF AnchorInv
<1>9. BaseInv'
  <2>1. BaseInv /\ Started' = Started /\ Room' = Room
    BY <1>1, <1>3 DEF DpbIInv, Started, Room
  <2> QED BY <1>1, <1>3, <2>1 DEF BaseInv
<1>10. BurstInv'
  <2>1. BurstInv
    BY DEF DpbIInv
  <2> QED BY <1>1, <1>2, <1>3, <2>1 DEF BurstInv
<1>11. NearInv'
  BY <1>1, <1>3 DEF DpbIInv, NearInv
<1>12. FlatInv'
  <2>1. FlatInv /\ Started' = Started /\ Lag' = Lag
    BY <1>1 DEF DpbIInv, Started, Lag
  <2> QED BY <1>1, <1>2, <1>3, <2>1 DEF FlatInv
<1>13. ColdInv'
  <2>1. ColdInv
    BY DEF DpbIInv
  <2> QED BY <1>1, <1>3, <2>1 DEF ColdInv
<1> QED BY <1>5, <1>6, <1>7, <1>8, <1>9, <1>10, <1>11, <1>12, <1>13 DEF DpbIInv

\* The first field of a reference: the window has slid, the entry is not stored.
LEMMA RefFieldKeeps ==
    ASSUME DpbIInv, FirstField, cur.isref
    PROVE  DpbIInv'
PROOF
<1>1. /\ ring' = ring /\ nextFn' = nextFn /\ lastFn' = lastFn /\ anchors' = anchors /\ rp' = rp
      /\ disp' = disp /\ pc' = pc /\ run' = run /\ todo' = todo /\ conf' = conf
  BY DEF FirstField
<1>2. /\ cur # None /\ ~cur.second /\ conf.fields
      /\ cur' # None /\ cur' \in Pictures /\ cur'.second /\ cur'.kind = cur.kind
      /\ cur'.isref = cur.isref /\ cur'.disp = cur.disp /\ cur'.fn = cur.fn /\ cur'.pin = cur.pin
      /\ cur'.type = IF cur.type = "I" /\ cur.kind # "key" THEN "P" ELSE cur.type
      /\ Entry(cur') = Entry(cur)
  BY FieldBase
<1>3. /\ Base' = Stay /\ Halfway' /\ ~Emptied' /\ dec' = Stored
      /\ cur.kind = "idr" => cold'.key = NoKey
      /\ cur.kind # "idr" => cold'.key = cold.key
      /\ cur.kind # "idr" /\ cold.key # NoKey => cold'.refs = {r \in Stored : r.disp >= cold.key}
      /\ dpb' = IF conf.pyramid THEN Stay ELSE {}
  BY FieldBase
<1>4. /\ Stay \subseteq Base /\ Numbered(Stay, nextFn) /\ Cardinality(Stay) <= Window(conf) - 1
      /\ \A r \in Base : Age(r.fn, nextFn) <= Window(conf) - 1 => r \in Stay
      /\ Base \subseteq Entries /\ Entry(cur) \in Entries /\ Stored = Stay \cup {Entry(cur)}
      /\ Window(conf) \in Nat /\ \A r \in Base : r.disp \in Nat
  BY <1>2, StoreFacts, TheWindow, CurTypes DEF Stored
<1>5. /\ pc \in {"anchor", "b"} /\ cur.fn = nextFn /\ rp.last <= cur.disp /\ cur.disp \in Nat
      /\ pc = "b" => conf.pyramid
  BY <1>2, NewReference, CurTypes
<1>6. \A r \in Base : r.disp = anchors.last => r \in Stay
  BY <1>2, AnchorStays
<1>7. InIdr' = InIdr /\ Started' = Started /\ Lag' = Lag /\ Room' = Window(conf) - 1
  BY <1>1, <1>2, <1>3 DEF InIdr, Started, Lag, Room
<1>8. DpbTypeOK'
  <2>1. dpb' \subseteq Entries /\ dec' \subseteq Entries
    BY <1>3, <1>4
  <2>2. cold' \in [key : Nat \cup {NoKey}, refs : SUBSET Entries]
    <3>1. cold \in [key : Nat \cup {NoKey}, refs : SUBSET Entries]
      BY DEF DpbIInv, DpbTypeOK
    <3>2. CASE cur.kind = "idr"
      <4>1. cold' = [key |-> NoKey, refs |-> {}]
        BY <1>2, <3>2 DEF FirstField, Decode
      <4> QED BY <4>1
    <3>3. CASE cur.kind # "idr" /\ cold.key = NoKey
      <4>1. cold' = cold
        BY <1>2, <3>3 DEF FirstField, Decode
      <4> QED BY <3>1, <4>1
    <3>4. CASE cur.kind # "idr" /\ cold.key # NoKey
      <4>1. cold' = [cold EXCEPT !.refs = Marked(cold.refs, cur)]
        BY <1>2, <3>4 DEF FirstField, Decode
      <4>2. cold'.refs \subseteq Entries
        BY <1>3, <1>4, <3>4
      <4>3. cold'.refs = Marked(cold.refs, cur)
        BY <3>1, <4>1
      <4> QED BY <3>1, <4>1, <4>2, <4>3
    <3> QED BY <3>2, <3>3, <3>4
  <2> QED BY <1>1, <1>2, <2>1, <2>2 DEF DpbIInv, DpbTypeOK
<1>9. RunInv'
  BY <1>1 DEF DpbIInv, RunInv, Started
<1>10. CurInv'
  <2>1. CurInv
    BY DEF DpbIInv
  <2>2. pc = "anchor" /\ run.kind = "p" /\ conf.pyramid =>
          \E r \in Stay : r.disp = anchors.last /\ cur.pin = r.fn
    BY <1>2, <1>6, <2>1 DEF CurInv
  <2>3. pc = "anchor" => cur.kind = run.kind /\ cur.type \in {"I", "P", "B"}
    BY <1>2, <2>1, CurTypes DEF CurInv
  <2>4. pc = "b" => cur'.type = "B"
    BY <1>2, <2>1 DEF CurInv
  <2>5. pc = "anchor" => /\ run.kind = "key" => cur'.type = "I"
                         /\ run.kind = "p" => cur'.type = "P"
                         /\ run.kind = "idr" => cur'.type = "P"
    BY <1>2, <2>1, <2>3 DEF CurInv
  <2>6. pc = "anchor" => cur'.isref /\ cur'.disp = run.first + run.n /\ cur'.kind = run.kind
    BY <1>2, <2>1, <2>3 DEF CurInv
  <2>7. pc = "b" => /\ cur'.kind = "b" /\ run.kind # "idr"
                    /\ cur'.disp \in run.first .. run.first + run.n - 1
                    /\ cur'.isref => /\ conf.pyramid /\ run.kind = "p"
                                     /\ cur'.disp - run.first \in Mids[run.n]
    BY <1>2, <2>1 DEF CurInv
  <2> QED BY <1>1, <1>2, <1>3, <1>5, <2>2, <2>4, <2>5, <2>6, <2>7 DEF CurInv
<1>11. AnchorInv'
  <2>1. AnchorInv
    BY DEF DpbIInv
  <2> QED BY <1>1, <1>2, <2>1 DEF AnchorInv
<1>12. BaseInv'
  <2>1. BaseInv
    BY DEF DpbIInv
  <2>2. Entry(cur') \in dec'
    BY <1>2, <1>3, <1>4
  <2>3. Closed(Stay, nextFn, rp.last)
    <3>1. rp.last \in Int
      BY Types DEF DpbIInv
    <3> QED BY <1>2, <1>5, <2>1, <3>1, ClosedStays DEF BaseInv
  <2>4. Started /\ ~InIdr => \E r \in Stay : r.disp = anchors.last
    BY <1>6, <2>1 DEF BaseInv
  <2>5. InIdr => Stay = {} /\ nextFn = 0
    BY <1>4, <2>1 DEF BaseInv
  <2>6. Stay # {} => nextFn = (lastFn + 1) % MaxFn
    BY <1>4, <2>1 DEF BaseInv
  <2>7. \A r \in Stay : r.disp <= anchors.last
    BY <1>4, <2>1 DEF BaseInv
  <2> QED BY <1>1, <1>3, <1>4, <1>7, <2>2, <2>3, <2>4, <2>5, <2>6, <2>7 DEF BaseInv
<1>13. BurstInv'
  <2>1. BurstInv
    BY DEF DpbIInv
  <2> QED BY <1>1, <1>2, <1>3, <1>4, <2>1 DEF BurstInv
<1>14. NearInv'
  BY <1>1, <1>3, <1>4 DEF DpbIInv, NearInv
<1>15. FlatInv'
  <2> SUFFICES ASSUME ~conf.pyramid PROVE FlatInv'
    BY <1>1 DEF FlatInv
  <2>1. FlatInv
    BY DEF DpbIInv
  <2>2. pc = "anchor" /\ Lag = 0
    BY <1>5 DEF Lag
  <2>3. ASSUME NEW i \in 1 .. Len(ring), i + 0 <= Window(conf)
        PROVE  ring[i] \in Stay /\ Age(ring[i].fn, nextFn) = i + 0
    <3>1. ring[i] \in Base /\ Age(ring[i].fn, nextFn) = i + 0
      BY <2>1, <2>2, <2>3 DEF FlatInv
    <3>2. NRef(conf) + 1 <= Window(conf) /\ NRef(conf) \in Nat /\ Len(ring) <= NRef(conf) /\ Len(ring) \in Nat
      <4>1. conf \in Configs /\ ring \in Seq(Entries) /\ conf.bframes \in 0 .. 7
        BY Types DEF DpbIInv, DpbTypeOK
      <4>2. /\ NRef(conf) + (IF conf.bframes > 0 THEN 1 ELSE 0) + 1 <= Window(conf)
            /\ NRef(conf) \in Nat
        BY <1>2, <4>1, WindowFits
      <4> QED BY <1>4, <2>1, <4>1, <4>2, LenProperties DEF FlatInv
    <3>3. i <= Window(conf) - 1
      BY <1>4, <3>2
    <3> QED BY <1>4, <3>1, <3>3
  <2> QED BY <1>1, <1>2, <1>3, <1>4, <1>7, <2>1, <2>2, <2>3 DEF FlatInv
<1>16. ColdInv'
  <2> SUFFICES ASSUME cold'.key # NoKey PROVE ColdInv'
    BY DEF ColdInv
  <2>1. cur.kind # "idr" /\ ~Emptied /\ cold'.key = cold.key
    BY <1>3 DEF Emptied, InIdr
  <2>2. /\ cold.key <= rp.last /\ (cold.key = rp.last \/ cold.key <= rp.prev)
        /\ Closed(Base, nextFn, cold.key)
    BY <2>1 DEF DpbIInv, ColdInv
  <2>3. cold.key \in Int /\ cold.key <= cur.disp
    <3>1. cold.key \in Nat \cup {-1} /\ rp.last \in Nat \cup {-1}
      BY Types DEF DpbIInv, DpbTypeOK, NoKey
    <3> QED BY <1>5, <2>2, <3>1
  <2>4. Closed(Stay, nextFn, cold.key)
    BY <1>2, <2>2, <2>3, ClosedStays
  <2>5. cold'.refs = {r \in dec' : r.disp >= cold'.key}
    BY <1>3, <2>1
  <2> QED BY <1>1, <1>3, <2>1, <2>2, <2>4, <2>5 DEF ColdInv
<1> QED BY <1>8, <1>9, <1>10, <1>11, <1>12, <1>13, <1>14, <1>15, <1>16 DEF DpbIInv

\* The last of a picture nobody refers to.
LEMMA PlainCodedKeeps ==
    ASSUME DpbIInv, Coded, ~cur.isref
    PROVE  DpbIInv'
PROOF
<1>1. /\ cur # None /\ cur' = None /\ conf' = conf
      /\ Base' = Base /\ ~Halfway' /\ ~Emptied' /\ ~InIdr' /\ Base' = dec' /\ dec' = dec
      /\ nextFn' = nextFn /\ lastFn' = lastFn /\ cold' = cold /\ ~Emptied /\ ~InIdr /\ ~Halfway
      /\ dpb' = IF conf.pyramid THEN Base ELSE {}
  BY CodedBase
<1>2. pc \in {"tail", "b"}
  BY <1>1, CurTypes
<1>3. /\ pc' = pc /\ anchors' = anchors /\ todo' = todo
      /\ ring' = ring /\ rp' = rp /\ disp' = disp /\ run' = run
  BY <1>2 DEF Coded
<1>4. DpbTypeOK'
  <2>1. dpb' \subseteq Entries
    BY <1>1, TheWindow
  <2> QED BY <1>1, <1>3, <2>1 DEF DpbIInv, DpbTypeOK
<1>5. RunInv'
  BY <1>3 DEF DpbIInv, RunInv, Started
<1>6. CurInv'
  BY <1>1 DEF CurInv
<1>7. AnchorInv'
  <2>1. AnchorInv
    BY DEF DpbIInv
  <2> QED BY <1>1, <1>2, <1>3, <2>1 DEF AnchorInv
<1>8. BaseInv'
  <2>1. BaseInv /\ Started' = Started /\ Room' = Room
    BY <1>1, <1>3 DEF DpbIInv, Started, Room
  <2> QED BY <1>1, <1>3, <2>1 DEF BaseInv
<1>9. BurstInv'
  <2>1. BurstInv
    BY DEF DpbIInv
  <2> QED BY <1>1, <1>3, <2>1 DEF BurstInv
<1>10. NearInv'
  BY <1>1, <1>3 DEF DpbIInv, NearInv
<1>11. FlatInv'
  <2>1. FlatInv /\ Started' = Started /\ Lag' = Lag
    BY <1>3 DEF DpbIInv, Started, Lag
  <2> QED BY <1>1, <1>3, <2>1 DEF FlatInv
<1>12. ColdInv'
  <2>1. ColdInv
    BY DEF DpbIInv
  <2> QED BY <1>1, <1>3, <2>1 DEF ColdInv
<1> QED BY <1>4, <1>5, <1>6, <1>7, <1>8, <1>9, <1>10, <1>11, <1>12 DEF DpbIInv

\* What a stored reference leaves: shared by the anchors and the B references.
LEMMA StoreStep ==
    ASSUME DpbIInv, Coded, cur.isref
    PROVE  /\ cur # None /\ cur' = None /\ conf' = conf
           /\ Base' = Stored /\ Base' = dec' /\ ~Halfway' /\ ~Emptied' /\ ~InIdr'
           /\ nextFn' = NextNumber /\ lastFn' = nextFn
           /\ dpb' = IF conf.pyramid THEN Stored ELSE {}
           /\ Numbered(Stored, NextNumber) /\ Cardinality(Stored) <= Room'
           /\ NextNumber = (lastFn' + 1) % MaxFn /\ Entry(cur) \in Stored
           /\ ring' = ring /\ rp' = rp /\ disp' = disp /\ run' = run
           /\ dec' \subseteq Entries /\ cold' \in [key : Nat \cup {NoKey}, refs : SUBSET Entries]
           /\ Closed(Stored, NextNumber, rp.last)
           /\ ColdInv'
PROOF
<1>1. /\ cur # None /\ cur' = None /\ conf' = conf
      /\ Base' = Stored /\ Base' = dec' /\ ~Halfway' /\ ~Emptied' /\ ~InIdr'
      /\ nextFn' = NextNumber /\ lastFn' = nextFn
      /\ dpb' = (IF conf.pyramid THEN Stored ELSE {})
      /\ cold'.key # NoKey =>
           /\ ~Emptied /\ cold'.key = cold.key
           /\ cold'.refs = {r \in Stored : r.disp >= cold.key}
  BY CodedBase
<1>2. ring' = ring /\ rp' = rp /\ disp' = disp /\ run' = run
  BY DEF Coded
<1>3. /\ Numbered(Stored, NextNumber) /\ Cardinality(Stored) <= Window(conf)
      /\ Stay \subseteq Base /\ Entry(cur) \in Entries /\ Base \subseteq Entries
  BY <1>1, StoreFacts, CurTypes, TheWindow
<1>4. Room' = Window(conf)
  BY <1>1 DEF Room
<1>5. NextNumber = (lastFn' + 1) % MaxFn /\ Entry(cur) \in Stored /\ dec' \subseteq Entries
  BY <1>1, <1>3 DEF NextNumber, Stored
<1>6. rp.last <= cur.disp /\ cur.disp \in Nat /\ rp.last \in Int
  BY <1>1, NewReference, CurTypes, Types DEF DpbIInv
<1>7. Closed(Stored, NextNumber, rp.last)
  <2>1. Closed(Base, nextFn, rp.last)
    BY DEF DpbIInv, BaseInv
  <2> QED BY <1>1, <1>6, <2>1, ClosedStays
<1>8. cold' \in [key : Nat \cup {NoKey}, refs : SUBSET Entries]
  <2>1. cold \in [key : Nat \cup {NoKey}, refs : SUBSET Entries]
    BY DEF DpbIInv, DpbTypeOK
  <2>2. CASE cold' = cold
    BY <2>1, <2>2
  <2>3. CASE cold' # cold
    <3>1. ~cur.second /\ Decode
      BY <2>3 DEF Coded, decVars
    <3>2. CASE cur.kind = "idr"
      <4>1. cold' = [key |-> NoKey, refs |-> {}]
        BY <3>1, <3>2 DEF Decode
      <4> QED BY <4>1
    <3>3. CASE cur.kind # "idr"
      <4>1. cold' = [cold EXCEPT !.refs = Marked(cold.refs, cur)] /\ cold.key # NoKey
        BY <2>3, <3>1, <3>3 DEF Decode
      <4>2. cold'.key = cold.key /\ cold'.refs = Marked(cold.refs, cur)
        BY <2>1, <4>1
      <4>3. cold'.refs \subseteq Entries
        BY <1>1, <1>5, <4>1, <4>2
      <4> QED BY <2>1, <4>1, <4>2, <4>3
    <3> QED BY <3>2, <3>3
  <2> QED BY <2>2, <2>3
<1>9. ColdInv'
  <2> SUFFICES ASSUME cold'.key # NoKey PROVE ColdInv'
    BY DEF ColdInv
  <2>1. ~Emptied /\ cold'.key = cold.key /\ cold'.refs = {r \in dec' : r.disp >= cold'.key}
    BY <1>1
  <2>2. /\ cold.key <= rp.last /\ (cold.key = rp.last \/ cold.key <= rp.prev)
        /\ Closed(Base, nextFn, cold.key)
    BY <2>1 DEF DpbIInv, ColdInv
  <2>3. cold.key \in Int /\ cold.key <= cur.disp
    <3>1. cold.key \in Nat \cup {-1} /\ rp.last \in Nat \cup {-1}
      BY Types DEF DpbIInv, DpbTypeOK, NoKey
    <3> QED BY <1>6, <2>2, <3>1
  <2>4. Closed(Stored, NextNumber, cold.key)
    BY <1>1, <2>2, <2>3, ClosedStays
  <2> QED BY <1>1, <1>2, <2>1, <2>2, <2>4 DEF ColdInv
<1> QED BY <1>1, <1>2, <1>3, <1>4, <1>5, <1>7, <1>8, <1>9

\* An anchor is stored, and its run begins.
LEMMA AnchorCodedKeeps ==
    ASSUME DpbIInv, Coded, cur.isref, pc = "anchor"
    PROVE  DpbIInv'
PROOF
<1> DEFINE x == Entry(cur)
<1>1. /\ cur # None /\ cur' = None /\ conf' = conf
      /\ Base' = Stored /\ Base' = dec' /\ ~Halfway' /\ ~Emptied' /\ ~InIdr'
      /\ nextFn' = NextNumber /\ lastFn' = nextFn
      /\ dpb' = (IF conf.pyramid THEN Stored ELSE {})
      /\ Numbered(Stored, NextNumber) /\ Cardinality(Stored) <= Room'
      /\ NextNumber = (lastFn' + 1) % MaxFn /\ x \in Stored
      /\ ring' = ring /\ rp' = rp /\ disp' = disp /\ run' = run
      /\ dec' \subseteq Entries /\ cold' \in [key : Nat \cup {NoKey}, refs : SUBSET Entries]
      /\ Closed(Stored, NextNumber, rp.last)
      /\ ColdInv'
  BY StoreStep
<1>2. /\ pc' = "b"
      /\ anchors' = [last |-> cur.disp, last2 |-> IF cur.kind = "idr" THEN NoKey ELSE anchors.last]
      /\ todo' = (IF cur.kind = "idr" \/ run.n = 0 THEN <<>>
                  ELSE IF conf.pyramid THEN << <<0, run.n>> >> ELSE Flat(run.n))
  BY DEF Coded
<1>3. /\ run.first \in Nat /\ run.n \in Nat /\ run.n \in 0 .. 7 /\ NoKey = -1
      /\ anchors.last \in Nat \cup {-1} /\ rp.last \in Nat \cup {-1} /\ rp.prev \in Nat \cup {-1}
      /\ nextFn \in Numbers /\ NextNumber \in Numbers
  BY Types DEF DpbIInv
<1>4. /\ cur.disp = run.first + run.n /\ cur.disp \in Nat /\ cur.kind = run.kind
      /\ run.kind \in {"idr", "p", "key"} /\ cur.fn = nextFn
      /\ anchors.last < run.first /\ anchors.last < cur.disp
      /\ x.disp = cur.disp /\ x.fn = nextFn
  <2>1. /\ cur.disp = run.first + run.n /\ anchors.last < run.first
    BY <1>1 DEF DpbIInv, CurInv, AnchorInv
  <2> QED BY <1>1, <1>3, <2>1, CurTypes, NewReference
<1>5. /\ \A r \in Stored : r = x \/ (r \in Stay /\ r \in Base)
      /\ Stay \subseteq Base /\ \A r \in Base : r.disp \in Nat /\ r.disp <= anchors.last
      /\ \A r \in Base : Age(r.fn, nextFn) <= Window(conf) - 1 => r \in Stay
      /\ \A r \in Stay : Age(r.fn, NextNumber) = Age(r.fn, nextFn) + 1
      /\ \A r \in Base : Age(r.fn, nextFn) \in Nat /\ 1 <= Age(r.fn, nextFn)
      /\ Age(x.fn, NextNumber) = 1
  <2>1. \A r \in Base : r.disp \in Nat /\ r.disp <= anchors.last
    BY TheWindow DEF DpbIInv, BaseInv
  <2> QED BY <1>1, <2>1, StoreFacts DEF Stored
<1> HIDE DEF x
<1>6. \A r \in Stored : r = x \/ (r.disp < run.first /\ r.disp < cur.disp)
  BY <1>3, <1>4, <1>5
<1>7. anchors'.last = cur.disp /\ Started' /\ Lag' = 1
      /\ anchors'.last2 = IF run.kind = "idr" THEN -1 ELSE anchors.last
  BY <1>2, <1>3, <1>4 DEF Started, Lag
<1>8. /\ todo' \in Seq(Nat \X Nat)
      /\ \A i \in 1 .. Len(todo') :
           /\ todo'[i][1] < todo'[i][2] /\ todo'[i][2] <= run.n
           /\ conf.pyramid => todo'[i] \in Spans[run.n]
      /\ \A i, j \in 1 .. Len(todo') : i < j => todo'[i][2] <= todo'[j][1]
      /\ run.kind = "idr" => todo' = <<>>
  <2>1. CASE run.kind = "idr" \/ run.n = 0
    <3>1. todo' = <<>>
      BY <1>2, <1>4, <2>1
    <3> QED BY <3>1
  <2>2. CASE ~(run.kind = "idr" \/ run.n = 0) /\ conf.pyramid
    <3>1. todo' = << <<0, run.n>> >>
      BY <1>2, <1>4, <2>2
    <3>2. PICK t \in Nat \X Nat : t = <<0, run.n>>
      BY <1>3
    <3>3. todo' = <<t>> /\ t[1] = 0 /\ t[2] = run.n
      BY <3>1, <3>2
    <3>4. todo' \in Seq(Nat \X Nat) /\ Len(todo') = 1 /\ todo'[1] = t
      BY <3>2, <3>3
    <3>5. t \in Spans[run.n]
      BY <1>3, <2>2, <3>2 DEF Spans
    <3>6. \A i \in 1 .. Len(todo') : i = 1
      BY <3>4
    <3> QED BY <1>3, <2>2, <3>3, <3>4, <3>5, <3>6
  <2>3. CASE ~(run.kind = "idr" \/ run.n = 0) /\ ~conf.pyramid
    <3>1. todo' = Flat(run.n)
      BY <1>2, <1>4, <2>3
    <3>2. /\ todo' \in Seq(Nat \X Nat) /\ Len(todo') = run.n
          /\ \A i \in 1 .. run.n : todo'[i] = <<i - 1, i>>
      BY <1>3, <3>1, FlatIs
    <3>3. \A i \in 1 .. run.n : todo'[i][1] = i - 1 /\ todo'[i][2] = i
      BY <3>2
    <3>4. \A i \in 1 .. run.n :
             /\ todo'[i][1] < todo'[i][2] /\ todo'[i][2] <= run.n
      <4>1. run.n \in Nat
        BY <1>3
      <4>2. \A i \in 1 .. run.n : i - 1 < i /\ i <= run.n
        BY <4>1
      <4> QED BY <3>3, <4>2
    <3>5. \A i, j \in 1 .. run.n : i < j => todo'[i][2] <= todo'[j][1]
      <4>1. run.n \in Nat
        BY <1>3
      <4>2. \A i, j \in 1 .. run.n : i < j => i <= j - 1
        BY <4>1
      <4> QED BY <3>3, <4>2
    <3>6. 1 .. Len(todo') = 1 .. run.n
      BY <3>2
    <3>7. /\ \A i \in 1 .. Len(todo') :
               /\ todo'[i][1] < todo'[i][2] /\ todo'[i][2] <= run.n
               /\ conf.pyramid => todo'[i] \in Spans[run.n]
          /\ \A i, j \in 1 .. Len(todo') : i < j => todo'[i][2] <= todo'[j][1]
      BY <2>3, <3>4, <3>5, <3>6
    <3>8. run.kind # "idr" /\ todo' \in Seq(Nat \X Nat)
      BY <2>3, <3>2
    <3> QED BY <3>7, <3>8
  <2> QED BY <2>1, <2>2, <2>3
<1>9. DpbTypeOK'
  <2>1. anchors' \in [last : Nat \cup {NoKey}, last2 : Nat \cup {NoKey}]
    BY <1>2, <1>3, <1>4
  <2>2. dpb' \subseteq Entries
    BY <1>1
  <2> QED BY <1>1, <1>2, <1>3, <1>8, <2>1, <2>2 DEF DpbIInv, DpbTypeOK
<1>10. RunInv'
  <2>1. RunInv
    BY DEF DpbIInv
  <2> QED BY <1>1, <1>2, <1>4, <1>7, <2>1 DEF RunInv
<1>11. CurInv'
  BY <1>1 DEF CurInv
<1>12. AnchorInv'
  <2>1. /\ rp.prev <= rp.last
        /\ run.kind = "key" => rp.last = cur.disp /\ rp.prev <= anchors.last
        /\ run.kind # "key" => rp.last <= anchors.last
    BY <1>1, <1>4 DEF DpbIInv, AnchorInv
  <2>2. rp.last <= cur.disp
    BY <1>3, <1>4, <2>1
  <2> QED BY <1>1, <1>2, <1>4, <1>7, <2>1, <2>2 DEF AnchorInv
<1>13. BaseInv'
  <2>1. \A r \in Stored : r.disp <= cur.disp
    BY <1>4, <1>5, <1>6
  <2>2. \E r \in Stored : r.disp = cur.disp
    BY <1>1, <1>4
  <2> QED BY <1>1, <1>7, <2>1, <2>2 DEF BaseInv
<1>14. BurstInv'
  <2>1. \A r \in Stored : ~(r.disp >= run.first /\ r.disp # cur.disp)
    BY <1>3, <1>4, <1>5, <1>6
  <2>2. \A r, q \in Stored : ~(r.disp = cur.disp /\ Age(q.fn, NextNumber) < Age(r.fn, NextNumber))
    <3> SUFFICES ASSUME NEW r \in Stored, NEW q \in Stored, r.disp = cur.disp,
                        Age(q.fn, NextNumber) < Age(r.fn, NextNumber)
                 PROVE  FALSE
      OBVIOUS
    <3>1. r = x
      BY <1>4, <1>5, <1>6
    <3>2. CASE q = x
      BY <1>5, <3>1, <3>2
    <3>3. CASE q # x
      <4>1. Age(q.fn, NextNumber) = Age(q.fn, nextFn) + 1 /\ Age(q.fn, nextFn) \in Nat
        BY <1>5, <3>3
      <4> QED BY <1>5, <3>1, <4>1
    <3> QED BY <3>2, <3>3
  <2>3. \A r \in Base' : ~(r.disp >= run'.first /\ r.disp # anchors'.last)
    BY <1>1, <1>7, <2>1
  <2>4. \A r, q \in Base' : ~(r.disp = anchors'.last /\ Age(q.fn, nextFn') < Age(r.fn, nextFn'))
    BY <1>1, <1>7, <2>2
  <2>5. /\ \A i \in 1 .. Len(todo') :
             /\ todo'[i][1] < todo'[i][2] /\ todo'[i][2] <= run'.n
             /\ conf'.pyramid => todo'[i] \in Spans[run'.n]
        /\ run'.kind = "idr" => todo' = <<>>
    BY <1>1, <1>8
  <2> HIDE DEF Spans, Mids
  <2> QED BY <1>1, <1>8, <2>3, <2>4, <2>5 DEF BurstInv
<1>15. NearInv'
  BY <1>2 DEF NearInv
<1>16. FlatInv'
  <2> SUFFICES ASSUME ~conf.pyramid PROVE FlatInv'
    BY <1>1 DEF FlatInv
  <2>1. FlatInv /\ Lag = 0
    BY DEF DpbIInv, Lag
  <2>2. ASSUME NEW r \in Stored, NEW q \in Stored, Age(r.fn, NextNumber) < Age(q.fn, NextNumber)
        PROVE  r.disp > q.disp
    <3>1. q # x
      <4>1. r # x => Age(r.fn, NextNumber) = Age(r.fn, nextFn) + 1 /\ Age(r.fn, nextFn) \in Nat
        BY <1>5
      <4> QED BY <1>5, <2>2, <4>1
    <3>2. q \in Stay /\ q \in Base /\ q.disp < cur.disp
      BY <1>5, <1>6, <3>1
    <3>3. CASE r = x
      BY <1>4, <1>5, <3>2, <3>3
    <3>4. CASE r # x
      <4>1. r \in Stay /\ r \in Base
        BY <1>5, <3>4
      <4>2. Age(r.fn, nextFn) < Age(q.fn, nextFn)
        <5>1. /\ Age(r.fn, NextNumber) = Age(r.fn, nextFn) + 1 /\ Age(r.fn, nextFn) \in Nat
              /\ Age(q.fn, NextNumber) = Age(q.fn, nextFn) + 1 /\ Age(q.fn, nextFn) \in Nat
          BY <1>5, <3>2, <4>1
        <5> QED BY <2>2, <5>1
      <4> QED BY <2>1, <3>2, <4>1, <4>2 DEF FlatInv
    <3> QED BY <3>3, <3>4
  <2>3. ASSUME NEW i \in 1 .. Len(ring), i + 1 <= Window(conf)
        PROVE  ring[i] \in Stored /\ Age(ring[i].fn, NextNumber) = i + 1
    <3>1. Window(conf) \in Nat /\ Len(ring) \in Nat
      BY Types, LenProperties DEF DpbIInv, DpbTypeOK
    <3>2. i + 0 <= Window(conf) /\ i <= Window(conf) - 1
      BY <2>3, <3>1
    <3>3. ring[i] \in Base /\ Age(ring[i].fn, nextFn) = i + 0
      BY <2>1, <3>2 DEF FlatInv
    <3>4. ring[i] \in Stay
      BY <1>5, <3>1, <3>2, <3>3
    <3> QED BY <1>5, <3>1, <3>3, <3>4 DEF Stored
  <2>4. [disp |-> anchors'.last, fn |-> lastFn'] \in Stored
    <3>1. x = [disp |-> cur.disp, fn |-> nextFn]
      BY <1>4 DEF x, Entry
    <3> QED BY <1>1, <1>7, <3>1
  <2>5. run.kind # "idr" => ring # <<>> /\ ring[1].disp = anchors.last
    <3> SUFFICES ASSUME run.kind # "idr" PROVE ring # <<>> /\ ring[1].disp = anchors.last
      OBVIOUS
    <3>1. ~InIdr
      BY <1>4 DEF InIdr
    <3>2. run.first # 0
      BY DEF DpbIInv, RunInv
    <3>3. Started
      BY <1>3, <3>2 DEF DpbIInv, RunInv
    <3> QED BY <2>1, <3>1, <3>3 DEF FlatInv
  <2>6. Len(ring) <= NRef(conf)
    BY <2>1 DEF FlatInv
  <2> QED BY <1>1, <1>2, <1>7, <2>2, <2>3, <2>4, <2>5, <2>6 DEF FlatInv
<1> QED BY <1>1, <1>9, <1>10, <1>11, <1>12, <1>13, <1>14, <1>15, <1>16 DEF DpbIInv

\* A B reference is stored.
LEMMA BCodedKeeps ==
    ASSUME DpbIInv, Coded, cur.isref, pc = "b"
    PROVE  DpbIInv'
PROOF
<1> DEFINE x == Entry(cur)
<1>1. /\ cur # None /\ cur' = None /\ conf' = conf
      /\ Base' = Stored /\ Base' = dec' /\ ~Halfway' /\ ~Emptied' /\ ~InIdr'
      /\ nextFn' = NextNumber /\ lastFn' = nextFn
      /\ dpb' = (IF conf.pyramid THEN Stored ELSE {})
      /\ Numbered(Stored, NextNumber) /\ Cardinality(Stored) <= Room'
      /\ NextNumber = (lastFn' + 1) % MaxFn /\ x \in Stored
      /\ ring' = ring /\ rp' = rp /\ disp' = disp /\ run' = run
      /\ dec' \subseteq Entries /\ cold' \in [key : Nat \cup {NoKey}, refs : SUBSET Entries]
      /\ Closed(Stored, NextNumber, rp.last)
      /\ ColdInv'
  BY StoreStep
<1>2. pc' = pc /\ anchors' = anchors /\ todo' = todo
  BY DEF Coded
<1>3. /\ run.first \in Nat /\ run.n \in Nat /\ run.n \in 0 .. 7 /\ NoKey = -1
      /\ anchors.last \in Nat \cup {-1} /\ nextFn \in Numbers /\ NextNumber \in Numbers
  BY Types DEF DpbIInv
<1>4. /\ conf.pyramid /\ run.kind = "p" /\ run.first <= cur.disp /\ cur.disp < anchors.last
      /\ cur.disp \in Nat /\ x.disp = cur.disp /\ x.fn = nextFn
  BY <1>1, CurTypes, NewReference
<1>5. /\ \A r \in Stored : r = x \/ (r \in Stay /\ r \in Base)
      /\ Stay \subseteq Base /\ \A r \in Base : r.disp \in Nat /\ r.disp <= anchors.last
      /\ \A r \in Stay : Age(r.fn, NextNumber) = Age(r.fn, nextFn) + 1
      /\ \A r \in Base : Age(r.fn, nextFn) \in Nat /\ 1 <= Age(r.fn, nextFn)
      /\ Age(x.fn, NextNumber) = 1
  <2>1. \A r \in Base : r.disp \in Nat /\ r.disp <= anchors.last
    BY TheWindow DEF DpbIInv, BaseInv
  <2> QED BY <1>1, <2>1, StoreFacts DEF Stored
<1> HIDE DEF x
<1>6. DpbTypeOK'
  <2>1. dpb' \subseteq Entries
    BY <1>1
  <2> QED BY <1>1, <1>2, <1>3, <2>1 DEF DpbIInv, DpbTypeOK
<1>7. RunInv'
  BY <1>1, <1>2 DEF DpbIInv, RunInv, Started
<1>8. CurInv'
  BY <1>1 DEF CurInv
<1>9. AnchorInv'
  <2>1. /\ AnchorInv /\ cur.kind = "b"
    BY <1>1, CurTypes DEF DpbIInv
  <2> QED BY <1>1, <1>2, <2>1 DEF AnchorInv
<1>10. BaseInv'
  <2>1. \A r \in Stored : r.disp <= anchors.last
    BY <1>3, <1>4, <1>5
  <2>2. Started => \E r \in Stored : r.disp = anchors.last
    <3> SUFFICES ASSUME Started PROVE \E r \in Stored : r.disp = anchors.last
      OBVIOUS
    <3>1. ~InIdr
      BY <1>1, CurTypes DEF InIdr
    <3>2. PICK r \in Base : r.disp = anchors.last
      BY <3>1 DEF DpbIInv, BaseInv
    <3>3. r \in Stay
      BY <1>1, <3>2, AnchorStays
    <3> QED BY <3>2, <3>3 DEF Stored
  <2>3. Started' = Started
    BY <1>2 DEF Started
  <2> QED BY <1>1, <1>2, <2>1, <2>2, <2>3 DEF BaseInv
<1>11. BurstInv'
  <2>1. BurstInv /\ CurInv
    BY DEF DpbIInv
  <2>2. ASSUME NEW r \in Stored, r.disp >= run.first, r.disp # anchors.last
        PROVE  /\ r.disp - run.first \in Mids[run.n]
               /\ \A i \in 1 .. Len(todo) : r.disp - run.first \notin todo[i][1] .. todo[i][2] - 1
    <3>1. CASE r = x
      BY <1>1, <1>4, <2>1, <3>1 DEF CurInv, BurstInv
    <3>2. CASE r # x
      BY <1>5, <2>1, <2>2, <3>2 DEF BurstInv
    <3> QED BY <3>1, <3>2
  <2>3. ASSUME NEW r \in Stored, NEW q \in Stored, r.disp = anchors.last,
               Age(q.fn, NextNumber) < Age(r.fn, NextNumber)
        PROVE  q.disp >= run.first
    <3>1. CASE q = x
      BY <1>3, <1>4, <3>1
    <3>2. CASE q # x
      <4>1. r # x
        BY <1>3, <1>4, <2>3
      <4>2. r \in Stay /\ r \in Base /\ q \in Stay /\ q \in Base
        BY <1>5, <3>2, <4>1
      <4>3. /\ Age(r.fn, NextNumber) = Age(r.fn, nextFn) + 1 /\ Age(r.fn, nextFn) \in Nat
            /\ Age(q.fn, NextNumber) = Age(q.fn, nextFn) + 1 /\ Age(q.fn, nextFn) \in Nat
        BY <1>5, <4>2
      <4>4. Age(q.fn, nextFn) < Age(r.fn, nextFn)
        BY <2>3, <4>3
      <4> QED BY <2>1, <2>3, <4>2, <4>4 DEF BurstInv
    <3> QED BY <3>1, <3>2
  <2>4. \A i \in 1 .. Len(todo) :
             /\ todo[i][1] < todo[i][2] /\ todo[i][2] <= run.n
             /\ conf.pyramid => todo[i] \in Spans[run.n]
    BY <2>1 DEF BurstInv
  <2>5. \A i, j \in 1 .. Len(todo) : i < j => todo[i][2] <= todo[j][1]
    BY <2>1 DEF BurstInv
  <2> QED BY <1>1, <1>2, <1>4, <2>2, <2>3, <2>4, <2>5 DEF BurstInv
<1>12. NearInv'
  BY <1>2 DEF NearInv
<1>13. FlatInv'
  BY <1>1, <1>4 DEF FlatInv
<1> QED BY <1>1, <1>6, <1>7, <1>8, <1>9, <1>10, <1>11, <1>12, <1>13 DEF DpbIInv

\* The initial state.
LEMMA InitHolds == Init => DpbIInv
PROOF
<1> SUFFICES ASSUME Init PROVE DpbIInv
  OBVIOUS
<1>1. /\ conf \in Configs /\ dpb = {} /\ ring = <<>> /\ nextFn = 0 /\ lastFn = 0
      /\ anchors = [last |-> NoKey, last2 |-> NoKey] /\ rp = [last |-> NoKey, prev |-> NoKey]
      /\ disp = 0 /\ pc = "arrive" /\ run = [first |-> 0, n |-> 0, kind |-> "none"]
      /\ todo = <<>> /\ cur = None /\ dec = {} /\ cold = [key |-> NoKey, refs |-> {}]
  BY DEF Init
<1>2. /\ Window(conf) \in Nat /\ Window(conf) < MaxFn /\ 1 <= Window(conf) /\ MaxFn \in Nat
      /\ NRef(conf) \in Nat /\ conf.bframes \in 0 .. 7
  BY <1>1, WindowFits, MaxFnAssumption
<1>3. Base = {} /\ ~InIdr /\ ~Halfway /\ ~Emptied /\ Room = Window(conf) /\ ~Started
  BY <1>1 DEF Base, InIdr, Halfway, Emptied, Room, Started
<1>4. DpbTypeOK
  <2>1. 0 \in Numbers
    BY <1>2 DEF Numbers
  <2>2. ring \in Seq(Entries) /\ todo \in Seq(Nat \X Nat)
    BY <1>1, EmptySeq
  <2>3. /\ run \in [first : Nat, n : 0 .. 7, kind : {"none", "idr", "p", "key"}]
        /\ run.n <= conf.bframes /\ disp \in Nat
    BY <1>1, <1>2
  <2>4. /\ anchors \in [last : Nat \cup {NoKey}, last2 : Nat \cup {NoKey}]
        /\ rp \in [last : Nat \cup {NoKey}, prev : Nat \cup {NoKey}]
        /\ cold \in [key : Nat \cup {NoKey}, refs : SUBSET Entries]
    BY <1>1
  <2> QED BY <1>1, <2>1, <2>2, <2>3, <2>4 DEF DpbTypeOK
<1>5. RunInv
  BY <1>1 DEF RunInv
<1>6. CurInv
  BY <1>1 DEF CurInv
<1>7. AnchorInv
  BY <1>1 DEF AnchorInv, NoKey
<1>8. BaseInv
  <2>1. Numbered({}, 0) /\ Cardinality({}) = 0 /\ Closed({}, 0, rp.last)
    BY FS_EmptySet DEF Numbered, Closed
  <2> QED BY <1>1, <1>2, <1>3, <2>1 DEF BaseInv
<1>9. BurstInv
  BY <1>1 DEF BurstInv
<1>10. NearInv
  BY <1>3 DEF NearInv
<1>11. FlatInv
  BY <1>1, <1>2, <1>3, EmptySeq DEF FlatInv
<1>12. ColdInv
  BY <1>1 DEF ColdInv
<1> QED BY <1>4, <1>5, <1>6, <1>7, <1>8, <1>9, <1>10, <1>11, <1>12 DEF DpbIInv

\* Every step, one action at a time.
LEMMA StepKeeps == DpbIInv /\ [Next]_vars => DpbIInv'
PROOF
<1> SUFFICES ASSUME DpbIInv, [Next]_vars PROVE DpbIInv'
  OBVIOUS
<1>1. CASE \E n \in 0 .. conf.bframes : \E kind \in Kinds : Arrive(n, kind)
  BY <1>1, ArriveKeeps
<1>2. CASE \E n \in 0 .. conf.bframes : Flush(n)
  BY <1>2, FlushKeeps
<1>3. CASE TailP
  BY <1>3, TailPKeeps
<1>4. CASE TailOver
  BY <1>4, TailOverKeeps
<1>5. CASE \E joins \in BOOLEAN : Anchor(joins)
  BY <1>5, IdrKeeps, AnchorKeeps
<1>6. CASE FirstField
  BY <1>6, PlainFieldKeeps, RefFieldKeeps
<1>7. CASE Coded
  <2>1. cur # None
    BY <1>7 DEF Coded
  <2>2. pc \in {"tail", "anchor", "b"} /\ (pc = "tail" => ~cur.isref)
    BY <2>1, CurTypes
  <2> QED BY <1>7, <2>2, PlainCodedKeeps, AnchorCodedKeeps, BCodedKeeps
<1>8. CASE CodeB
  BY <1>8, CodeBKeeps
<1>9. CASE RunOver
  BY <1>9, RunOverKeeps
<1>10. CASE UNCHANGED vars
  <2>1. /\ conf' = conf /\ dpb' = dpb /\ ring' = ring /\ nextFn' = nextFn /\ lastFn' = lastFn
        /\ anchors' = anchors /\ rp' = rp /\ disp' = disp /\ pc' = pc /\ run' = run
        /\ todo' = todo /\ cur' = cur /\ dec' = dec /\ cold' = cold
    BY <1>10 DEF vars, encVars, decVars
  <2>2. /\ Emptied' = Emptied /\ Halfway' = Halfway /\ InIdr' = InIdr /\ Started' = Started
        /\ Room' = Room /\ Lag' = Lag
    BY <2>1 DEF Emptied, Halfway, InIdr, Started, Room, Lag
  <2>3. Base' = Base
    BY <2>1, <2>2 DEF Base
  <2>4. DpbTypeOK' /\ RunInv' /\ AnchorInv'
    BY <2>1, <2>2 DEF DpbIInv, DpbTypeOK, RunInv, AnchorInv
  <2>5. CurInv'
    BY <2>1, <2>3 DEF DpbIInv, CurInv
  <2>6. BaseInv' /\ NearInv'
    BY <2>1, <2>2, <2>3 DEF DpbIInv, BaseInv, NearInv
  <2>7. BurstInv'
    BY <2>1, <2>3 DEF DpbIInv, BurstInv
  <2>8. FlatInv' /\ ColdInv'
    BY <2>1, <2>2, <2>3 DEF DpbIInv, FlatInv, ColdInv
  <2> QED BY <2>4, <2>5, <2>6, <2>7, <2>8 DEF DpbIInv
<1> QED BY <1>1, <1>2, <1>3, <1>4, <1>5, <1>6, <1>7, <1>8, <1>9, <1>10 DEF Next

\* The inductive invariant of the references.
THEOREM ReferencesInvariant == Spec => []DpbIInv
PROOF
<1>1. Init => DpbIInv
  BY InitHolds
<1>2. DpbIInv /\ [Next]_vars => DpbIInv'
  BY StepKeeps
<1> QED BY <1>1, <1>2, PTL DEF Spec

\* The reference of every index of the encoder's lists is the decoder's.
THEOREM DecoderInStep == Spec => []DecoderAgrees
PROOF
<1>1. DpbIInv => DecoderAgrees
  BY DecoderAgreesNow
<1> QED BY <1>1, ReferencesInvariant, PTL

\* And that of a decoder that starts at a recovery point, from the key picture on.
THEOREM ColdDecoderInStep == Spec => []ColdAgrees
PROOF
<1>1. DpbIInv => ColdAgrees
  BY ColdAgreesNow
<1> QED BY <1>1, ReferencesInvariant, PTL

-----------------------------------------------------------------------------
(* The anchors around a run.                                                 *)

\* The left edge of a run and of its left half.
LEMMA EdgeTable ==
    ASSUME NEW n \in 0 .. 7
    PROVE  /\ NRefB[n] \in Nat /\ LeftEdge[n] \in 0 .. 2
           /\ n < 2 => LeftEdge[n] = 0
           /\ n >= 2 => NRefB[n] + LeftEdge[n] <= n
           /\ \A m \in 0 .. n : LeftEdge[m] \in 0 .. 2 /\ LeftEdge[m] <= LeftEdge[n]
           /\ \A m \in Nat : n > 1 /\ m = n \div 2 => m \in 0 .. 7 /\ LeftEdge[m] + 1 <= LeftEdge[n]
PROOF
<1>1. \A m \in 0 .. 7 : LeftEdge[m] = IF m < 2 THEN 0 ELSE IF m < 4 THEN 1 ELSE 2
  BY DEF LeftEdge
<1>2. NRefB[n] = IF n < 2 THEN 0 ELSE IF n < 4 THEN 1 ELSE IF n = 4 THEN 2 ELSE 3
  BY NRefBTable
<1>3. n \in {0, 1, 2, 3, 4, 5, 6, 7}
  BY SMT
<1>4. LeftEdge[n] \in 0 .. 2 /\ (n < 2 => LeftEdge[n] = 0)
  BY <1>1
<1>5. NRefB[n] \in Nat
  BY <1>2
<1>6. n >= 2 => NRefB[n] + LeftEdge[n] <= n
  <2>1. LeftEdge[n] = IF n < 2 THEN 0 ELSE IF n < 4 THEN 1 ELSE 2
    BY <1>1
  <2> QED BY <1>2, <1>3, <2>1
<1>7. \A m \in 0 .. n : LeftEdge[m] \in 0 .. 2 /\ LeftEdge[m] <= LeftEdge[n]
  <2> SUFFICES ASSUME NEW m \in 0 .. n PROVE LeftEdge[m] \in 0 .. 2 /\ LeftEdge[m] <= LeftEdge[n]
    OBVIOUS
  <2>1. m \in 0 .. 7
    OBVIOUS
  <2>2. LeftEdge[m] = IF m < 2 THEN 0 ELSE IF m < 4 THEN 1 ELSE 2
    BY <1>1, <2>1
  <2>3. LeftEdge[n] = IF n < 2 THEN 0 ELSE IF n < 4 THEN 1 ELSE 2
    BY <1>1
  <2> QED BY <2>2, <2>3
<1>8. \A m \in Nat : n > 1 /\ m = n \div 2 => m \in 0 .. 7 /\ LeftEdge[m] + 1 <= LeftEdge[n]
  <2> SUFFICES ASSUME NEW m \in Nat, n > 1, m = n \div 2
               PROVE  m \in 0 .. 7 /\ LeftEdge[m] + 1 <= LeftEdge[n]
    OBVIOUS
  <2>1. m \in 0 .. 7 /\ (n < 4 => m < 2) /\ m < 4
    BY <1>3
  <2>2. LeftEdge[m] = IF m < 2 THEN 0 ELSE IF m < 4 THEN 1 ELSE 2
    BY <1>1, <2>1
  <2>3. LeftEdge[n] = IF n < 2 THEN 0 ELSE IF n < 4 THEN 1 ELSE 2
    BY <1>1
  <2> QED BY <2>1, <2>2, <2>3
<1> QED BY <1>4, <1>5, <1>6, <1>7, <1>8

\* A wide window holds what is coded between an anchor and the left edge of the
\* next run but one; so does the tight one, with a list 0 longer than that edge.
LEMMA RoomyFits ==
    ASSUME NEW k \in Configs, k.pyramid, Roomy(k)
    PROVE  2 + NRefB[k.bframes] + LeftEdge[k.bframes] <= Window(k)
PROOF
<1>1. ConfOK(k)
  BY ConfigsAssumption
<1>2. /\ k.ref \in 1 .. 16 /\ k.bframes \in 0 .. 7 /\ k.bframes >= 2
      /\ k.cap \in 1 .. 15 /\ k.cap >= k.bframes + 2
  BY <1>1 DEF ConfOK
<1>3. /\ NRefB[k.bframes] \in Nat /\ LeftEdge[k.bframes] \in Nat
      /\ NRefB[k.bframes] + LeftEdge[k.bframes] <= k.bframes
  BY <1>2, EdgeTable
<1>4. PICK br, lf \in Nat : br = NRefB[k.bframes] /\ lf = LeftEdge[k.bframes]
  BY <1>3
<1>5. PICK fd \in Nat : fd = (IF k.fields THEN 1 ELSE 0)
  OBVIOUS
<1>6. Needed(k) = k.ref + 1 + BRefs(k) + fd
  BY <1>2, <1>5 DEF Needed
<1>7. BRefs(k) = IF k.tight THEN br ELSE k.bframes
  BY <1>4 DEF BRefs
<1>8. k.tight => k.ref + fd > lf
  BY <1>4, <1>5 DEF Roomy
<1>9. 2 + br + lf <= Needed(k) /\ Needed(k) \in Nat
  <2>1. CASE k.tight
    BY <1>2, <1>6, <1>7, <1>8, <2>1
  <2>2. CASE ~k.tight
    BY <1>2, <1>3, <1>4, <1>6, <1>7, <2>2
  <2> QED BY <2>1, <2>2
<1>10. 2 + br + lf <= k.cap
  BY <1>2, <1>3, <1>4
<1>11. Window(k) = IF Needed(k) > k.cap THEN k.cap ELSE Needed(k)
  BY <1>2, <1>9 DEF Window, Over
<1>12. 2 + br + lf <= Window(k)
  BY <1>2, <1>9, <1>10, <1>11
<1> QED BY <1>4, <1>12

\* What the steps of a run need of the window.
LEMMA TheEdge ==
    ASSUME DpbIInv, Roomy(conf), conf.pyramid
    PROVE  /\ 2 + NRefB[conf.bframes] + LeftEdge[conf.bframes] <= Window(conf)
           /\ Window(conf) \in Nat /\ NRefB[conf.bframes] \in Nat
           /\ LeftEdge[conf.bframes] \in Nat
           /\ Owed \in 0 .. 1
           /\ \A r \in Base : Age(r.fn, nextFn) \in Nat /\ 1 <= Age(r.fn, nextFn)
PROOF
<1>1. conf \in Configs /\ conf.bframes \in 0 .. 7 /\ Window(conf) \in Nat
  BY Types DEF DpbIInv
<1>2. \A r \in Base : Age(r.fn, nextFn) \in 1 .. Cardinality(Base)
  BY DEF DpbIInv, BaseInv, Numbered
<1>3. Cardinality(Base) \in Nat
  BY TheWindow
<1> QED BY <1>1, <1>2, <1>3, RoomyFits, EdgeTable DEF Owed

\* A marked picture of the run is stored.
LEMMA HeldStored ==
    ASSUME DpbIInv, HeldInv, Roomy(conf), Coded, cur.isref, pc = "b"
    PROVE  HeldInv'
PROOF
<1> DEFINE x == Entry(cur)
           B == 2 + NRefB[conf.bframes] + LeftEdge[conf.bframes]
<1>1. /\ cur # None /\ cur' = None /\ conf' = conf
      /\ Base' = Stored /\ nextFn' = NextNumber /\ x \in Stored /\ run' = run
  BY StoreStep
<1>2. pc' = pc /\ anchors' = anchors /\ todo' = todo
  BY DEF Coded
<1>3. /\ conf.pyramid /\ run.kind = "p" /\ run.first <= cur.disp /\ cur.disp < anchors.last
      /\ cur.disp \in Nat /\ cur.kind = "b" /\ x.disp = cur.disp
  BY <1>1, NewReference, CurTypes
<1>4. /\ B <= Window(conf) /\ Window(conf) \in Nat /\ B \in Nat
      /\ Owed = 1 /\ Owed' = 0
      /\ \A r \in Base : Age(r.fn, nextFn) \in Nat /\ 1 <= Age(r.fn, nextFn)
  BY <1>1, <1>3, TheEdge DEF Owed
<1>5. /\ \A r \in Stored : r = x \/ (r \in Stay /\ r \in Base)
      /\ \A r \in Stay : r \in Stored /\ r \in Base
      /\ \A r \in Stay : Age(r.fn, NextNumber) = Age(r.fn, nextFn) + 1
      /\ \A r \in Base : Age(r.fn, nextFn) <= Window(conf) - 1 => r \in Stay
      /\ Age(x.fn, NextNumber) = 1
  BY <1>1, StoreFacts DEF Stored
<1> HIDE DEF x
<1>6. ASSUME NEW n \in Nat, HeldFor(n) PROVE HeldFor(n)'
  <2>1. PICK r \in Base : r.disp = anchors.last2 /\ Age(r.fn, nextFn) + 1 + n <= B
    BY <1>4, <1>6 DEF HeldFor
  <2>2. Age(r.fn, nextFn) \in Nat /\ Age(r.fn, nextFn) <= Window(conf) - 1
    BY <1>4, <2>1
  <2>3. r \in Stored /\ Age(r.fn, NextNumber) = Age(r.fn, nextFn) + 1
    BY <1>5, <2>2
  <2>4. Age(r.fn, NextNumber) + 0 + n <= B
    BY <2>1, <2>2, <2>3
  <2> QED BY <1>1, <1>2, <1>4, <2>1, <2>3, <2>4 DEF HeldFor
<1>7. ASSUME NEW q \in Stored, q.disp = anchors.last
      PROVE  q \in Base /\ Age(q.fn, NextNumber) = Age(q.fn, nextFn) + 1
  <2>1. q # x
    BY <1>3, <1>7, Types DEF DpbIInv
  <2> QED BY <1>5, <2>1
<1>8. ASSUME NEW a, OwnBefore(a) PROVE OwnBefore(a)'
  <2>1. CASE cur.disp < run.first + a
    <3>1. \A q \in Stored : q.disp = anchors.last => Age(x.fn, NextNumber) < Age(q.fn, NextNumber)
      BY <1>4, <1>5, <1>7
    <3> QED BY <1>1, <1>2, <1>3, <2>1, <3>1 DEF OwnBefore
  <2>2. CASE ~(cur.disp < run.first + a)
    <3>1. PICK r \in Base :
            /\ run.first <= r.disp /\ r.disp < run.first + a
            /\ \A v \in Base : v.disp = anchors.last => Age(r.fn, nextFn) < Age(v.fn, nextFn)
      BY <1>8, <2>2 DEF OwnBefore
    <3>2. PICK v \in Base : v.disp = anchors.last
      <4>1. ~InIdr
        BY <1>1, <1>3 DEF InIdr
      <4>2. pc = "b" => Started
        BY DEF DpbIInv, RunInv
      <4> QED BY <4>1, <4>2 DEF DpbIInv, BaseInv
    <3>3. Age(v.fn, nextFn) <= Window(conf) - 1
      BY <1>1, <3>2, AnchorStays
    <3>4. Age(r.fn, nextFn) <= Window(conf) - 1
      BY <1>4, <3>1, <3>2, <3>3
    <3>5. r \in Stored /\ Age(r.fn, NextNumber) = Age(r.fn, nextFn) + 1
      BY <1>5, <3>4
    <3>6. \A q \in Stored : q.disp = anchors.last => Age(r.fn, NextNumber) < Age(q.fn, NextNumber)
      BY <1>4, <1>7, <3>1, <3>5
    <3> QED BY <1>1, <1>2, <3>1, <3>5, <3>6 DEF OwnBefore
  <2> QED BY <2>1, <2>2
<1>9. \A i \in 1 .. Len(todo) : LeftEdge[todo[i][2]] \in Nat
  <2> SUFFICES ASSUME NEW i \in 1 .. Len(todo) PROVE LeftEdge[todo[i][2]] \in Nat
    OBVIOUS
  <2>1. todo[i] \in Nat \X Nat
    BY ElementOfSeq DEF DpbIInv, DpbTypeOK
  <2>2. todo[i][2] <= run.n /\ run.n \in 0 .. 7 /\ todo[i][2] \in Nat
    BY <2>1, Types DEF DpbIInv, BurstInv
  <2>3. todo[i][2] \in 0 .. 7
    BY <2>2, SMTT(40)
  <2>4. LeftEdge[todo[i][2]] \in 0 .. 2
    BY <2>3, EdgeTable
  <2> QED BY <2>4
<1>10. \A i \in 1 .. Len(todo) : /\ todo[i][1] = 0 => HeldFor(LeftEdge[todo[i][2]])
                                 /\ todo[i][1] > 0 => OwnBefore(todo[i][1])
  BY <1>3 DEF HeldInv
<1>11. ASSUME NEW i \in 1 .. Len(todo)
       PROVE  /\ todo[i][1] = 0 => HeldFor(LeftEdge[todo[i][2]])'
              /\ todo[i][1] > 0 => OwnBefore(todo[i][1])'
  <2>1. todo'[i] = todo[i]
    BY <1>2
  <2>2. PICK n \in Nat : n = LeftEdge[todo[i][2]]
    BY <1>9
  <2>3. PICK a : a = todo[i][1]
    OBVIOUS
  <2>4. n = LeftEdge[todo'[i][2]] /\ a = todo'[i][1]
    BY <2>1, <2>2, <2>3
  <2>5. todo[i][1] = 0 => HeldFor(n)'
    BY <1>6, <1>10, <2>2
  <2>6. todo[i][1] > 0 => OwnBefore(a)'
    BY <1>8, <1>10, <2>3
  <2>7. HeldFor(n)' = HeldFor(LeftEdge[todo[i][2]])'
    BY <2>2, <2>4 DEF HeldFor
  <2>8. OwnBefore(a)' = OwnBefore(todo[i][1])'
    BY <2>3, <2>4 DEF OwnBefore
  <2> QED BY <2>5, <2>6, <2>7, <2>8
<1> QED BY <1>1, <1>2, <1>3, <1>11 DEF HeldInv

\* A picture nobody refers to is coded.
LEMMA HeldPlain ==
    ASSUME DpbIInv, HeldInv, Coded, ~cur.isref, pc = "b"
    PROVE  HeldInv'
PROOF
<1>1. /\ cur # None /\ cur' = None /\ conf' = conf /\ Base' = Base /\ nextFn' = nextFn
  BY CodedBase
<1>2. pc' = pc /\ anchors' = anchors /\ todo' = todo /\ run' = run
  BY DEF Coded
<1>3. Owed = 0 /\ Owed' = 0
  BY <1>1 DEF Owed
<1>4. \A n : HeldFor(n) => HeldFor(n)'
  BY <1>1, <1>2, <1>3 DEF HeldFor
<1>5. \A a : OwnBefore(a) => OwnBefore(a)'
  BY <1>1, <1>2 DEF OwnBefore
<1>6. ASSUME NEW i \in 1 .. Len(todo), conf.pyramid, run.kind = "p"
      PROVE  /\ todo[i][1] = 0 => HeldFor(LeftEdge[todo[i][2]])'
             /\ todo[i][1] > 0 => OwnBefore(todo[i][1])'
  <2>1. /\ todo[i][1] = 0 => HeldFor(LeftEdge[todo[i][2]])
        /\ todo[i][1] > 0 => OwnBefore(todo[i][1])
    BY <1>6 DEF HeldInv
  <2>2. HeldFor(LeftEdge[todo[i][2]]) => HeldFor(LeftEdge[todo[i][2]])'
    BY <1>1, <1>2, <1>3 DEF HeldFor
  <2>3. OwnBefore(todo[i][1]) => OwnBefore(todo[i][1])'
    BY <1>1, <1>2 DEF OwnBefore
  <2> QED BY <2>1, <2>2, <2>3
<1>7. conf.pyramid /\ run.kind = "key" => HeldFor(0)'
  BY <1>4 DEF HeldInv
<1> QED BY <1>1, <1>2, <1>6, <1>7 DEF HeldInv

\* Between the fields of a pair.
LEMMA HeldField ==
    ASSUME DpbIInv, HeldInv, Roomy(conf), FirstField
    PROVE  HeldInv'
PROOF
<1> DEFINE B == 2 + NRefB[conf.bframes] + LeftEdge[conf.bframes]
<1> SUFFICES ASSUME conf.pyramid, pc = "b" PROVE HeldInv'
  BY DEF HeldInv, FirstField
<1>1. /\ cur # None /\ ~cur.second
      /\ cur' # None /\ cur'.second /\ cur'.isref = cur.isref /\ cur'.disp = cur.disp
      /\ cur.isref => Base' = Stay
      /\ ~cur.isref => Base' = Base
  BY FieldBase
<1>2. /\ pc' = pc /\ anchors' = anchors /\ todo' = todo /\ run' = run /\ conf' = conf
      /\ nextFn' = nextFn
  BY DEF FirstField
<1>3. /\ B <= Window(conf) /\ Window(conf) \in Nat /\ B \in Nat
      /\ Owed' = Owed /\ Owed \in 0 .. 1 /\ (cur.isref => Owed = 1)
      /\ \A r \in Base : Age(r.fn, nextFn) \in Nat /\ 1 <= Age(r.fn, nextFn)
  BY <1>1, TheEdge DEF Owed
<1>4. cur.isref => /\ Stay \subseteq Base
                   /\ \A r \in Base : Age(r.fn, nextFn) <= Window(conf) - 1 => r \in Stay
  BY <1>1, StoreFacts
<1>5. Base' \subseteq Base
  BY <1>1, <1>4
<1>6. ASSUME NEW n \in Nat, HeldFor(n)
      PROVE  \E r \in Base' : r.disp = anchors.last2 /\ Age(r.fn, nextFn) + Owed + n <= B
  <2>1. PICK r \in Base : r.disp = anchors.last2 /\ Age(r.fn, nextFn) + Owed + n <= B
    BY <1>6 DEF HeldFor
  <2>2. r \in Base'
    <3>1. CASE cur.isref
      <4>1. Age(r.fn, nextFn) <= Window(conf) - 1
        BY <1>3, <2>1, <3>1
      <4> QED BY <1>1, <1>4, <3>1, <4>1
    <3>2. CASE ~cur.isref
      BY <1>1, <3>2
    <3> QED BY <3>1, <3>2
  <2> QED BY <2>1, <2>2
<1>7. ASSUME NEW a, OwnBefore(a) PROVE OwnBefore(a)'
  <2>1. CASE cur.isref /\ cur.disp < run.first + a
    BY <1>1, <1>2, <2>1 DEF OwnBefore
  <2>2. CASE ~(cur.isref /\ cur.disp < run.first + a)
    <3>1. PICK r \in Base :
            /\ run.first <= r.disp /\ r.disp < run.first + a
            /\ \A v \in Base : v.disp = anchors.last => Age(r.fn, nextFn) < Age(v.fn, nextFn)
      BY <1>7, <2>2 DEF OwnBefore
    <3>2. r \in Base'
      <4>1. CASE cur.isref
        <5>1. PICK v \in Base : v.disp = anchors.last
          <6>1. ~InIdr
            BY CurTypes DEF InIdr
          <6>2. pc = "b" => Started
            BY DEF DpbIInv, RunInv
          <6> QED BY <6>1, <6>2 DEF DpbIInv, BaseInv
        <5>2. Age(v.fn, nextFn) <= Window(conf) - 1
          BY <1>1, <4>1, <5>1, AnchorStays
        <5>3. Age(r.fn, nextFn) <= Window(conf) - 1
          BY <1>3, <3>1, <5>1, <5>2
        <5> QED BY <1>1, <1>4, <4>1, <5>3
      <4>2. CASE ~cur.isref
        BY <1>1, <4>2
      <4> QED BY <4>1, <4>2
    <3>3. \A v \in Base' : v.disp = anchors.last => Age(r.fn, nextFn) < Age(v.fn, nextFn)
      BY <1>5, <3>1
    <3> QED BY <1>2, <3>1, <3>2, <3>3 DEF OwnBefore
  <2> QED BY <2>1, <2>2
<1>8. ASSUME NEW i \in 1 .. Len(todo), run.kind = "p"
      PROVE  /\ todo[i][1] = 0 => HeldFor(LeftEdge[todo[i][2]])'
             /\ todo[i][1] > 0 => OwnBefore(todo[i][1])'
  <2>1. /\ todo[i][1] = 0 => HeldFor(LeftEdge[todo[i][2]])
        /\ todo[i][1] > 0 => OwnBefore(todo[i][1])
    BY <1>8 DEF HeldInv
  <2>2. todo[i] \in Nat \X Nat
    BY ElementOfSeq DEF DpbIInv, DpbTypeOK
  <2>3. todo[i][2] <= run.n /\ run.n \in 0 .. 7 /\ todo[i][2] \in Nat
    BY <2>2, Types DEF DpbIInv, BurstInv
  <2>4. todo[i][2] \in 0 .. 7
    BY <2>3, SMTT(40)
  <2>5. LeftEdge[todo[i][2]] \in 0 .. 2
    BY <2>4, EdgeTable
  <2>6. PICK n \in Nat : n = LeftEdge[todo[i][2]]
    BY <2>5
  <2>7. todo[i][1] = 0 => \E r \in Base' : r.disp = anchors.last2 /\ Age(r.fn, nextFn) + Owed + n <= B
    BY <1>6, <2>1, <2>6
  <2>8. todo[i][1] = 0 => HeldFor(LeftEdge[todo[i][2]])'
    BY <1>2, <1>3, <2>6, <2>7 DEF HeldFor
  <2>9. PICK a : a = todo[i][1]
    OBVIOUS
  <2>10. todo[i][1] > 0 => OwnBefore(a)'
    BY <1>7, <2>1, <2>9
  <2>11. OwnBefore(a)' = OwnBefore(todo[i][1])'
    BY <1>2, <2>9 DEF OwnBefore
  <2> QED BY <2>8, <2>10, <2>11
<1>9. run.kind = "key" => HeldFor(0)'
  <2> SUFFICES ASSUME run.kind = "key" PROVE HeldFor(0)'
    OBVIOUS
  <2>1. HeldFor(0)
    BY DEF HeldInv
  <2>2. \E r \in Base' : r.disp = anchors.last2 /\ Age(r.fn, nextFn) + Owed + 0 <= B
    BY <1>6, <2>1
  <2> QED BY <1>2, <1>3, <2>2 DEF HeldFor
<1> QED BY <1>1, <1>2, <1>8, <1>9 DEF HeldInv

\* An anchor is stored, and its run begins.
LEMMA HeldAnchor ==
    ASSUME DpbIInv, Coded, pc = "anchor"
    PROVE  HeldInv'
PROOF
<1> DEFINE B == 2 + NRefB[conf.bframes] + LeftEdge[conf.bframes]
<1> SUFFICES ASSUME conf.pyramid, run.kind # "idr" PROVE HeldInv'
  <2>1. cur.kind = run.kind /\ run' = run /\ conf' = conf
    BY CurTypes DEF Coded
  <2>2. run.kind = "idr" => run'.kind # "p" /\ run'.kind # "key" /\ cur' = None
    BY <2>1 DEF Coded
  <2> QED BY <2>1, <2>2 DEF HeldInv
<1>1. /\ cur # None /\ cur.isref /\ cur.kind = run.kind /\ run.kind \in {"p", "key"}
  BY CurTypes DEF Coded
<1>2. /\ cur' = None /\ conf' = conf /\ Base' = Stored /\ nextFn' = NextNumber /\ run' = run
  BY <1>1, StoreStep
<1>3. /\ anchors'.last2 = anchors.last
      /\ todo' = IF run.n = 0 THEN <<>> ELSE << <<0, run.n>> >>
  BY <1>1 DEF Coded
<1>4. /\ run.n \in 0 .. 7 /\ run.n <= conf.bframes /\ conf.bframes \in 0 .. 7 /\ conf \in Configs
      /\ run.first \in Nat
  BY Types DEF DpbIInv
<1>5. PICK r \in Base : r.disp = anchors.last
  <2>1. ~InIdr
    BY <1>1 DEF InIdr
  <2>2. run.first = 0 => run.kind = "idr"
    BY DEF DpbIInv, RunInv
  <2>3. Started
    BY <1>1, <1>4, <2>2 DEF DpbIInv, RunInv
  <2> QED BY <2>1, <2>3 DEF DpbIInv, BaseInv
<1>6. Age(r.fn, nextFn) <= 1 + NRefB[conf.bframes]
  BY <1>5 DEF DpbIInv, NearInv
<1>7. NRefB[conf.bframes] \in Nat /\ LeftEdge[conf.bframes] \in 0 .. 2 /\ Window(conf) \in Nat
      /\ NRefB[conf.bframes] + 2 <= Window(conf)
  <2>1. NRefB[conf.bframes] + 2 <= Window(conf)
    BY <1>4, WindowFits
  <2> QED BY <1>4, <2>1, EdgeTable, WindowFits
<1>8. Age(r.fn, nextFn) \in Nat /\ r \in Stored /\ Age(r.fn, NextNumber) = Age(r.fn, nextFn) + 1
  <2>1. Age(r.fn, nextFn) \in Nat
    BY <1>1, <1>5, StoreFacts
  <2>2. Age(r.fn, nextFn) <= Window(conf) - 1
    BY <1>6, <1>7, <2>1
  <2> QED BY <1>1, <1>5, <2>1, <2>2, StoreFacts DEF Stored
<1>9. Owed' = 0
  BY <1>2 DEF Owed
<1>10. ASSUME NEW n \in Nat, n <= LeftEdge[conf.bframes] PROVE HeldFor(n)'
  <2>1. Age(r.fn, NextNumber) + 0 + n <= B
    BY <1>6, <1>7, <1>8, <1>10
  <2> QED BY <1>2, <1>3, <1>5, <1>8, <1>9, <2>1 DEF HeldFor
<1>11. ASSUME NEW i \in 1 .. Len(todo')
       PROVE  todo'[i][1] = 0 /\ HeldFor(LeftEdge[todo[i][2]])'
  <2>1. PICK n \in 0 .. 7 : n = run.n
    BY <1>4
  <2>2. i = 1 /\ todo' = << <<0, n>> >>
    BY <1>3, <1>11, <2>1
  <2>3. todo'[i] = <<0, n>>
    BY <2>2
  <2>4. PICK e \in Nat : e = LeftEdge[n] /\ e <= LeftEdge[conf.bframes]
    <3>1. n \in 0 .. conf.bframes
      BY <1>4, <2>1
    <3>2. LeftEdge[n] \in 0 .. 2 /\ LeftEdge[n] <= LeftEdge[conf.bframes]
      BY <1>4, <3>1, EdgeTable
    <3> QED BY <3>2
  <2>5. HeldFor(e)'
    BY <1>10, <2>4
  <2>6. todo'[i][1] = 0 /\ e = LeftEdge[todo'[i][2]]
    BY <2>3, <2>4
  <2>7. HeldFor(e)' = HeldFor(LeftEdge[todo[i][2]])'
    BY <2>6 DEF HeldFor
  <2> QED BY <2>5, <2>6, <2>7
<1>12. HeldFor(0)'
  BY <1>7, <1>10
<1> QED BY <1>2, <1>11, <1>12 DEF HeldInv

Middle(a, b, m) == m = (a + b) \div 2

TwoParts(a, m, b) ==
    \A i \in 1 .. Len(Parts(a, m, b)) :
        \/ Parts(a, m, b)[i] = <<a, m>> /\ a < m
        \/ Parts(a, m, b)[i] = <<m + 1, b>> /\ m + 1 < b

\* The nodes still to come when the first, from a to b, has been cut at m and coded.
NodesLeft(a, b, m) ==
    /\ a \in Nat /\ b \in Nat /\ m \in Nat /\ a < b /\ b <= run.n /\ a <= m /\ m < b
    /\ 1 \in 1 .. Len(todo) /\ todo[1] = <<a, b>>
    /\ cur' # None /\ cur'.isref = Marks(a, b) /\ cur'.disp = run.first + m
    /\ \A i \in 1 .. Len(todo') :
         \/ todo'[i] = <<a, m>> /\ a < m
         \/ todo'[i] = <<m + 1, b>> /\ m + 1 < b
         \/ \E k \in 2 .. Len(todo) : todo'[i] = todo[k]
    /\ \A k \in 2 .. Len(todo) : /\ k \in 1 .. Len(todo) /\ b <= todo[k][1]
                                 /\ todo[k] \in Nat \X Nat

\* What is left to code after a node: its halves, and what was left before.
LEMMA NodesAfter ==
    ASSUME DpbIInv, CodeB, NEW a, NEW b, a = Head(todo)[1], b = Head(todo)[2],
           NEW m, Middle(a, b, m)
    PROVE  NodesLeft(a, b, m)
PROOF
<1> DEFINE H == Parts(a, m, b)
<1>1. /\ pc = "b" /\ cur = None /\ todo # <<>>
      /\ cur' = [type |-> "B", kind |-> "b", isref |-> Marks(a, b), disp |-> run.first + m,
                 fn |-> IF Marks(a, b) THEN nextFn ELSE lastFn, pin |-> None, second |-> FALSE]
      /\ todo' = H \o Tail(todo)
  BY DEF CodeB, Parts, Middle
<1>2. /\ run.first \in Nat /\ run.n \in 0 .. 7 /\ nextFn \in Nat /\ lastFn \in Nat
  BY Types DEF DpbIInv
<1>3. /\ todo \in Seq(Nat \X Nat) /\ Tail(todo) \in Seq(Nat \X Nat) /\ Head(todo) \in Nat \X Nat
      /\ Head(todo) = todo[1] /\ Len(todo) \in Nat /\ Len(todo) >= 1
      /\ Len(Tail(todo)) = Len(todo) - 1
      /\ \A i \in 1 .. Len(Tail(todo)) : Tail(todo)[i] = todo[i + 1]
  <2>1. todo \in Seq(Nat \X Nat)
    BY DEF DpbIInv, DpbTypeOK
  <2> QED BY <1>1, <2>1, HeadAndTail, Zenon
<1>4. /\ a \in Nat /\ b \in Nat /\ m \in Nat /\ todo[1] = <<a, b>> /\ 1 \in 1 .. Len(todo)
  BY <1>3 DEF Middle
<1>5. a < b /\ b <= run.n /\ a <= m /\ m < b
  <2>1. todo[1][1] < todo[1][2] /\ todo[1][2] <= run.n
    BY <1>1, <1>4 DEF DpbIInv, BurstInv
  <2>2. a < b /\ b <= run.n
    BY <1>4, <2>1
  <2> QED BY <1>4, <2>2 DEF Middle
<1>6. /\ cur' # None /\ cur'.isref = Marks(a, b) /\ cur'.disp = run.first + m
  <2>1. Marks(a, b) \in BOOLEAN
    BY Zenon DEF Marks
  <2>2. run.first + m \in Nat /\ (IF Marks(a, b) THEN nextFn ELSE lastFn) \in Nat
    BY <1>2, <1>4
  <2>3. cur' \in Pictures
    BY <1>1, <2>1, <2>2 DEF Pictures
  <2> QED BY <1>1, <2>3, NoneAssumption
<1>7. /\ H \in Seq(Nat \X Nat) /\ Len(H) \in Nat
      /\ \A i \in 1 .. Len(H) : \/ H[i] = <<a, m>> /\ a < m
                                \/ H[i] = <<m + 1, b>> /\ m + 1 < b
  <2>1. a \in Nat /\ b \in Nat /\ m \in Nat
    BY <1>4
  <2>2. Parts(a, m, b) \in Seq(Nat \X Nat) /\ Len(Parts(a, m, b)) \in 0 .. 2
    BY <2>1, PartsAre
  <2>3. TwoParts(a, m, b)
    <3>1. \A x, y, z \in Nat : TwoParts(x, z, y)
      BY PartsAre DEF TwoParts
    <3> QED BY <2>1, <3>1
  <2>4. \A i \in 1 .. Len(Parts(a, m, b)) :
           \/ Parts(a, m, b)[i] = <<a, m>> /\ a < m
           \/ Parts(a, m, b)[i] = <<m + 1, b>> /\ m + 1 < b
    BY <2>3, Zenon DEF TwoParts
  <2> QED BY <2>2, <2>4
<1> HIDE DEF H
<1>8. /\ Len(todo') = Len(H) + Len(Tail(todo))
      /\ \A i \in 1 .. Len(todo') : todo'[i] = IF i <= Len(H) THEN H[i] ELSE Tail(todo)[i - Len(H)]
  BY <1>1, <1>3, <1>7, ConcatProperties
<1>9. ASSUME NEW i \in 1 .. Len(todo')
      PROVE  \/ todo'[i] = <<a, m>> /\ a < m
             \/ todo'[i] = <<m + 1, b>> /\ m + 1 < b
             \/ \E k \in 2 .. Len(todo) : todo'[i] = todo[k]
  <2>0. PICK p \in Nat : p = Len(H)
    BY <1>7
  <2>1. i \in Nat /\ 1 <= i /\ i <= p + (Len(todo) - 1)
    BY <1>3, <1>8, <2>0
  <2>2. CASE i <= p
    <3>1. i \in 1 .. Len(H) /\ todo'[i] = H[i]
      BY <1>8, <2>0, <2>1, <2>2
    <3> QED BY <1>7, <3>1
  <2>3. CASE i > p
    <3>0. i - p \in 1 .. Len(Tail(todo))
      <4>1. PICK l \in Nat : l = Len(todo)
        BY <1>3
      <4>2. i <= p + (l - 1)
        BY <2>1, <4>1
      <4>3. i - p \in 1 .. l - 1
        BY <2>0, <2>1, <2>3, <4>1, <4>2
      <4> QED BY <1>3, <4>1, <4>3
    <3>1. PICK j \in 1 .. Len(Tail(todo)) : j = i - p
      BY <3>0
    <3>2. todo'[i] = Tail(todo)[j]
      BY <1>8, <2>0, <2>1, <2>3, <3>1
    <3>3. todo'[i] = todo[j + 1]
      BY <1>3, <3>2
    <3>4. j + 1 \in 2 .. Len(todo)
      BY <1>3, <3>2
    <3> QED BY <3>3, <3>4
  <2> QED BY <2>0, <2>1, <2>2, <2>3
<1>10. ASSUME NEW k \in 2 .. Len(todo)
       PROVE  k \in 1 .. Len(todo) /\ b <= todo[k][1] /\ todo[k] \in Nat \X Nat
  <2>1. k \in 1 .. Len(todo) /\ 1 < k
    BY <1>3
  <2>2. todo[k] \in Nat \X Nat
    BY <1>3, <2>1, ElementOfSeq
  <2>3. todo[1][2] <= todo[k][1]
    BY <1>1, <1>4, <2>1 DEF DpbIInv, BurstInv
  <2> QED BY <1>4, <2>1, <2>2, <2>3
<1> QED BY <1>4, <1>5, <1>6, <1>9, <1>10 DEF NodesLeft

\* One node of the run.
LEMMA HeldCodeB ==
    ASSUME DpbIInv, HeldInv, CodeB, conf.pyramid
    PROVE  HeldInv'
PROOF
<1>0. /\ pc = "b" /\ cur = None /\ pc' = pc /\ run' = run /\ conf' = conf /\ dpb' = dpb
      /\ nextFn' = nextFn /\ anchors' = anchors /\ dec' = dec
  BY DEF CodeB, encVars, decVars
<1>1. PICK a, b, m : a = Head(todo)[1] /\ b = Head(todo)[2] /\ Middle(a, b, m)
  BY DEF Middle
<1>2. /\ a \in Nat /\ b \in Nat /\ m \in Nat /\ a < b /\ b <= run.n /\ a <= m /\ m < b
      /\ 1 \in 1 .. Len(todo) /\ todo[1] = <<a, b>>
      /\ cur' # None /\ cur'.isref = Marks(a, b) /\ cur'.disp = run.first + m
      /\ \A i \in 1 .. Len(todo') :
           \/ todo'[i] = <<a, m>> /\ a < m
           \/ todo'[i] = <<m + 1, b>> /\ m + 1 < b
           \/ \E k \in 2 .. Len(todo) : todo'[i] = todo[k]
      /\ \A k \in 2 .. Len(todo) : /\ k \in 1 .. Len(todo) /\ b <= todo[k][1]
                                   /\ todo[k] \in Nat \X Nat
  <2>1. NodesLeft(a, b, m)
    BY <1>1, NodesAfter, Zenon
  <2> QED BY <2>1, Zenon DEF NodesLeft
<1>3. /\ run.first \in Nat /\ run.n \in 0 .. 7 /\ run.kind \in {"p", "key"}
      /\ anchors.last2 \in Int /\ anchors.last2 < run.first
  <2>1. run.n \in 0 .. 7 /\ run.first \in Nat /\ anchors.last2 \in Int
        /\ run.kind \in {"none", "idr", "p", "key"}
    BY Types DEF DpbIInv
  <2>2. run.kind # "none"
    BY <1>0 DEF DpbIInv, RunInv
  <2>3. run.kind # "idr"
    BY <1>0, <1>2 DEF DpbIInv, BurstInv
  <2>4. run.kind \in {"p", "key"}
    BY <2>1, <2>2, <2>3
  <2> QED BY <1>0, <2>1, <2>4 DEF DpbIInv, AnchorInv
<1>4. Base' = Base /\ \A r \in Base : r.disp \in Nat /\ Age(r.fn, nextFn) \in Nat
  <2>1. ~Emptied /\ ~Emptied' /\ ~Halfway /\ ~Halfway'
    BY <1>0 DEF CodeB, Emptied, InIdr, Halfway
  <2>2. Base' = Base
    BY <1>0, <2>1 DEF Base
  <2>3. \A r \in Base : Age(r.fn, nextFn) \in 1 .. Cardinality(Base)
    BY DEF DpbIInv, BaseInv, Numbered
  <2> QED BY <2>2, <2>3, TheWindow
<1>5. Owed = 0 /\ Owed' = (IF Marks(a, b) THEN 1 ELSE 0)
  BY <1>0, <1>2 DEF Owed
<1>6. \A i : OwnBefore(i) => OwnBefore(i)'
  BY <1>0, <1>4 DEF OwnBefore
<1>7. ASSUME NEW n, HeldFor(n)
      PROVE  \E r \in Base : r.disp = anchors.last2 /\ r.disp < run.first
  BY <1>3, <1>7 DEF HeldFor
<1>8. Marks(a, b) <=> b - a > 1 /\ run.kind = "p"
  BY <1>3 DEF Marks
<1>9. CASE run.kind = "key"
  <2>1. HeldFor(0)
    BY <1>0, <1>9 DEF HeldInv
  <2>2. Owed' = Owed
    BY <1>5, <1>8, <1>9
  <2>3. HeldFor(0)'
    BY <1>0, <1>4, <2>1, <2>2 DEF HeldFor
  <2>4. \E r \in Base' : anchors'.last2 <= r.disp /\ r.disp < cur'.disp
    BY <1>0, <1>2, <1>3, <1>4, <1>7, <2>1, SMTT(40)
  <2> QED BY <1>0, <1>9, <2>3, <2>4 DEF HeldInv
<1>10. CASE run.kind = "p"
  <2>1. \A i \in 1 .. Len(todo) : /\ todo[i][1] = 0 => HeldFor(LeftEdge[todo[i][2]])
                                  /\ todo[i][1] > 0 => OwnBefore(todo[i][1])
    BY <1>0, <1>10 DEF HeldInv
  <2>2. (a = 0 => HeldFor(LeftEdge[b])) /\ (a > 0 => OwnBefore(a))
    <3>1. todo[1][1] = a /\ todo[1][2] = b
      BY <1>2
    <3> QED BY <1>2, <2>1, <3>1
  <2>3. \E r \in Base' : anchors'.last2 <= r.disp /\ r.disp < cur'.disp
    <3>1. CASE a = 0
      BY <1>0, <1>2, <1>3, <1>4, <1>7, <2>2, <3>1
    <3>2. CASE a # 0
      <4>1. PICK r \in Base : run.first <= r.disp /\ r.disp < run.first + a
        BY <1>0, <1>2, <2>2, <3>2 DEF OwnBefore
      <4> QED BY <1>0, <1>2, <1>3, <1>4, <4>1, SMTT(40)
    <3> QED BY <3>1, <3>2
  <2>4. ASSUME NEW i \in 1 .. Len(todo')
        PROVE  /\ todo'[i][1] = 0 => HeldFor(LeftEdge[todo[i][2]])'
               /\ todo'[i][1] > 0 => OwnBefore(todo[i][1])'
    <3>1. CASE todo'[i] = <<a, m>> /\ a < m
      <4>1. todo'[i][1] = a /\ todo'[i][2] = m
        BY <3>1
      <4>2. ASSUME a = 0 PROVE HeldFor(LeftEdge[todo[i][2]])'
        <5>1. m = b \div 2 /\ b > 1 /\ b \in 0 .. 7
          <6>1. b \in Nat /\ b <= run.n /\ run.n \in 0 .. 7 /\ 0 < m /\ m < b /\ m \in Nat
            BY <1>2, <1>3, <3>1, <4>2
          <6>2. m = (0 + b) \div 2
            BY <1>1, <4>2 DEF Middle
          <6> QED BY <6>1, <6>2
        <5>2. /\ LeftEdge[b] \in 0 .. 2 /\ m \in 0 .. 7 /\ LeftEdge[m] + 1 <= LeftEdge[b]
          BY <1>2, <5>1, EdgeTable
        <5>3. LeftEdge[m] \in 0 .. 2
          BY <5>2, EdgeTable
        <5>4. Owed' = 1
          BY <1>2, <1>5, <1>8, <1>10, <4>2, <5>1
        <5>5. PICK r \in Base : /\ r.disp = anchors.last2
                                /\ Age(r.fn, nextFn) + 0 + LeftEdge[b]
                                     <= 2 + NRefB[conf.bframes] + LeftEdge[conf.bframes]
          BY <1>5, <2>2, <4>2 DEF HeldFor
        <5>6. conf.bframes \in 0 .. 7
          BY Types DEF DpbIInv
        <5>7. NRefB[conf.bframes] \in Nat /\ LeftEdge[conf.bframes] \in 0 .. 2
          BY <5>6, EdgeTable
        <5>8. Age(r.fn, nextFn) + 1 + LeftEdge[m]
                <= 2 + NRefB[conf.bframes] + LeftEdge[conf.bframes]
          <6>1. PICK x \in Nat : x = Age(r.fn, nextFn)
            BY <1>4
          <6>2. PICK y \in Nat : y = LeftEdge[b]
            BY <5>2
          <6>3. PICK z \in Nat : z = LeftEdge[m]
            BY <5>3
          <6>4. PICK u \in Nat : u = NRefB[conf.bframes]
            BY <5>7
          <6>5. PICK v \in Nat : v = LeftEdge[conf.bframes]
            BY <5>7
          <6>6. x + 0 + y <= 2 + u + v
            BY <5>5, <6>1, <6>2, <6>4, <6>5
          <6>7. z + 1 <= y
            BY <5>2, <6>2, <6>3
          <6>8. x + 1 + z <= 2 + u + v
            BY <6>6, <6>7
          <6> QED BY <6>1, <6>3, <6>4, <6>5, <6>8
        <5> QED BY <1>0, <1>4, <4>1, <5>4, <5>5, <5>8 DEF HeldFor
      <4>3. ASSUME a > 0 PROVE OwnBefore(todo[i][1])'
        <5>1. OwnBefore(a)'
          BY <1>6, <2>2, <4>3
        <5>2. OwnBefore(a)' = OwnBefore(todo[i][1])'
          BY <4>1 DEF OwnBefore
        <5> QED BY <5>1, <5>2
      <4> QED BY <4>1, <4>2, <4>3
    <3>2. CASE todo'[i] = <<m + 1, b>> /\ m + 1 < b
      <4>1. todo'[i][1] = m + 1 /\ todo'[i][1] > 0
        BY <1>2, <3>2
      <4>2. cur'.isref /\ cur'.disp < run.first + (m + 1)
        <5>1. b - a > 1
          BY <1>2, <3>2
        <5> QED BY <1>2, <1>3, <1>8, <1>10, <5>1
      <4>3. OwnBefore(todo[i][1])'
        BY <1>0, <1>2, <4>1, <4>2 DEF OwnBefore
      <4> QED BY <1>2, <4>1, <4>3
    <3>3. CASE \E k \in 2 .. Len(todo) : todo'[i] = todo[k]
      <4>1. PICK k \in 2 .. Len(todo) : todo'[i] = todo[k]
        BY <3>3
      <4>2. k \in 1 .. Len(todo) /\ todo[k][1] > 0 /\ todo[k][1] # 0
        <5>1. b <= todo[k][1] /\ todo[k][1] \in Nat /\ k \in 1 .. Len(todo)
          BY <1>2
        <5> QED BY <1>2, <5>1
      <4>3. OwnBefore(todo[k][1])
        BY <2>1, <4>2
      <4>4. PICK j : j = todo[k][1]
        OBVIOUS
      <4>5. OwnBefore(j)'
        BY <1>6, <4>3, <4>4
      <4>6. OwnBefore(j)' = OwnBefore(todo[i][1])'
        BY <4>1, <4>4 DEF OwnBefore
      <4> QED BY <4>1, <4>2, <4>5, <4>6
    <3> QED BY <1>2, <3>1, <3>2, <3>3
  <2> QED BY <1>0, <1>10, <2>3, <2>4 DEF HeldInv
<1> QED BY <1>3, <1>9, <1>10

\* Every step keeps the anchor in front of a run as long as the run looks back to it.
LEMMA HeldStep ==
    DpbIInv /\ (Roomy(conf) => HeldInv) /\ [Next]_vars => (Roomy(conf) => HeldInv)'
PROOF
<1> SUFFICES ASSUME DpbIInv, Roomy(conf) => HeldInv, [Next]_vars, Roomy(conf)' PROVE HeldInv'
  OBVIOUS
<1>1. conf' = conf
  BY DEF Next, Arrive, Flush, TailP, TailOver, Anchor, FirstField, Coded, CodeB, RunOver,
         vars, encVars, decVars
<1>2. Roomy(conf) /\ HeldInv
  BY <1>1 DEF Roomy
<1>3. CASE FirstField
  BY <1>2, <1>3, HeldField
<1>4. CASE Coded
  <2>1. cur # None
    BY <1>4 DEF Coded
  <2>2. pc \in {"tail", "anchor", "b"}
    BY <2>1, CurTypes
  <2>3. CASE pc = "tail"
    <3>1. pc' = pc
      BY <1>4, <2>3 DEF Coded
    <3> QED BY <2>3, <3>1 DEF HeldInv
  <2>4. CASE pc = "anchor"
    BY <1>4, <2>4, HeldAnchor
  <2>5. CASE pc = "b"
    BY <1>2, <1>4, <2>5, HeldPlain, HeldStored
  <2> QED BY <2>2, <2>3, <2>4, <2>5
<1>5. CASE CodeB
  <2>1. CASE conf.pyramid
    BY <1>2, <1>5, <2>1, HeldCodeB
  <2>2. CASE ~conf.pyramid
    BY <1>1, <2>2 DEF HeldInv
  <2> QED BY <2>1, <2>2
<1>6. CASE UNCHANGED vars
  <2>1. /\ conf' = conf /\ dpb' = dpb /\ nextFn' = nextFn /\ anchors' = anchors /\ pc' = pc
        /\ run' = run /\ todo' = todo /\ cur' = cur /\ dec' = dec
    BY <1>6 DEF vars, encVars, decVars
  <2>2. Base' = Base /\ Owed' = Owed
    BY <2>1 DEF Base, Emptied, InIdr, Halfway, Owed
  <2>3. HeldFor(0)' = HeldFor(0)
    BY <2>1, <2>2 DEF HeldFor
  <2>4. \A i : HeldFor(LeftEdge[todo[i][2]])' = HeldFor(LeftEdge[todo[i][2]])
    BY <2>1, <2>2 DEF HeldFor
  <2>5. \A i : OwnBefore(todo[i][1])' = OwnBefore(todo[i][1])
    BY <2>1, <2>2 DEF OwnBefore
  <2> QED BY <1>2, <2>1, <2>2, <2>3, <2>4, <2>5 DEF HeldInv
<1>7. CASE \/ \E n \in 0 .. conf.bframes : \E kind \in Kinds : Arrive(n, kind)
           \/ \E n \in 0 .. conf.bframes : Flush(n)
           \/ TailP \/ TailOver \/ RunOver
           \/ \E joins \in BOOLEAN : Anchor(joins)
  <2>1. pc' # "b"
    BY <1>7 DEF Arrive, Flush, TailP, TailOver, RunOver, Anchor
  <2> QED BY <2>1 DEF HeldInv
<1> QED BY <1>3, <1>4, <1>5, <1>6, <1>7 DEF Next

\* The first of a list ordered by f is the highest.
LEMMA FirstIsHighest ==
    ASSUME NEW S, IsFiniteSet(S), NEW f, Orders(f, S), NEW s, Lists(s, S, f), NEW r \in S
    PROVE  s # <<>> /\ Len(s) >= 1 /\ s[1] \in S /\ f[r] <= f[s[1]]
PROOF
<1>1. s \in Seq(S) /\ Len(s) \in Nat /\ \E i \in 1 .. Len(s) : s[i] = r
  BY LenProperties DEF Lists
<1>2. 1 \in 1 .. Len(s)
  BY <1>1
<1>3. IsNth(S, f, s[1], 1)
  BY <1>2 DEF Lists
<1>4. s[1] \in S /\ Cardinality(Above(S, f, s[1])) = 0
  BY <1>3 DEF IsNth
<1>5. IsFiniteSet(Above(S, f, s[1]))
  BY FS_Subset DEF Above
<1>6. Above(S, f, s[1]) = {}
  BY <1>4, <1>5, FS_EmptySet
<1>7. ~(f[r] > f[s[1]])
  BY <1>6 DEF Above
<1>8. f[r] \in Int /\ f[s[1]] \in Int
  BY <1>4 DEF Orders
<1> QED BY <1>1, <1>2, <1>4, <1>7, <1>8, EmptySeq

\* What list 0 of a B picture begins with, in the pyramid.
LEMMA PyramidLooksBack ==
    ASSUME DpbIInv, cur # None, cur.type = "B", conf.pyramid,
           NEW r \in Base, anchors.last2 <= r.disp, r.disp < cur.disp
    PROVE  List0(cur) # <<>> /\ List0(cur)[1].disp >= anchors.last2
PROOF
<1> DEFINE K == {q \in Candidates(cur) : q.disp < cur.disp}
<1>1. /\ ~InIdr /\ Bound(cur.disp) \in Int /\ Bound(cur.disp) <= anchors.last2
      /\ anchors.last2 \in Int
  BY TheBound, Types DEF DpbIInv
<1>2. Candidates(cur) = {q \in Base : q.disp >= Bound(cur.disp)} /\ IsFiniteSet(Candidates(cur))
  BY <1>1, TheCandidates
<1>3. /\ IsFiniteSet(K) /\ K \subseteq Base /\ \A q \in Base : q.disp \in Nat
  BY <1>2, TheWindow, FS_Subset
<1>4. r \in K
  BY <1>1, <1>2, <1>3
<1>5. Orders(ByDisp, K)
  BY <1>3, TheOrders, OrdersPart
<1>6. \A q \in K : ByDisp[q] = q.disp
  BY <1>3 DEF ByDisp
<1> DEFINE s == Ranked(K, LAMBDA q : q.disp)
<1>7. Lists(s, K, ByDisp)
  BY <1>3, <1>5, <1>6, RankedUp
<1>8. s = PyramidB(cur)
  BY DEF PyramidB
<1> HIDE DEF s, K
<1>9. Len(s) >= 1 /\ s[1] \in K /\ ByDisp[r] <= ByDisp[s[1]] /\ s \in Seq(K)
  BY <1>3, <1>4, <1>5, <1>7, FirstIsHighest DEF Lists
<1>10. s[1].disp >= anchors.last2
  <2>1. s[1].disp \in Nat /\ r.disp \in Nat /\ r.disp <= s[1].disp
    BY <1>3, <1>4, <1>6, <1>9
  <2> QED BY <1>1, <2>1
<1>11. /\ List0(cur) = Prefix(s, NRef(conf)) /\ NRef(conf) \in Nat /\ 1 <= NRef(conf)
  BY <1>8, PyramidListsCandidates
<1>12. /\ Prefix(s, NRef(conf)) \in Seq(K)
       /\ Len(Prefix(s, NRef(conf))) = IF Len(s) <= NRef(conf) THEN Len(s) ELSE NRef(conf)
       /\ \A i \in 1 .. Len(Prefix(s, NRef(conf))) : Prefix(s, NRef(conf))[i] = s[i]
  BY <1>9, <1>11, PrefixIs
<1>13. Len(List0(cur)) >= 1 /\ List0(cur)[1] = s[1] /\ List0(cur) \in Seq(K)
  BY <1>9, <1>11, <1>12, LenProperties
<1> QED BY <1>10, <1>13, EmptySeq

\* The anchors around the picture being coded.
LEMMA AnchorsHeldNow == DpbIInv /\ HeldInv => AnchorsHeld
PROOF
<1> SUFFICES ASSUME DpbIInv, HeldInv, cur # None, ~cur.second
             PROVE  /\ cur.type = "B" => /\ List0(cur) # <<>> /\ List0(cur)[1].disp >= anchors.last2
                                         /\ conf.pyramid => Held(anchors.last)
                    /\ cur.kind \in {"p", "key"} /\ conf.pyramid => Held(anchors.last)
  BY DEF AnchorsHeld
<1>1. cur.kind \in {"p", "key"} /\ conf.pyramid => Held(anchors.last)
  <2> SUFFICES ASSUME cur.kind \in {"p", "key"}, conf.pyramid PROVE Held(anchors.last)
    OBVIOUS
  <2>1. pc = "anchor" /\ run.kind = cur.kind /\ run.first \in Nat
    BY CurTypes, Types DEF DpbIInv
  <2>2. Started /\ ~InIdr
    BY <2>1 DEF DpbIInv, RunInv, InIdr
  <2>3. dpb = Base /\ \E r \in Base : r.disp = anchors.last
    BY <2>2 DEF DpbIInv, BaseInv
  <2> QED BY <2>3 DEF Held
<1>2. CASE cur.type = "B" /\ conf.pyramid
  <2>1. pc = "b" /\ ~InIdr /\ \E r \in Base : r.disp = anchors.last
    BY <1>2, TheBound
  <2>2. dpb = Base
    BY <1>2 DEF DpbIInv, BaseInv
  <2>3. Held(anchors.last)
    BY <2>1, <2>2 DEF Held
  <2>4. PICK r \in Base : anchors.last2 <= r.disp /\ r.disp < cur.disp
    BY <1>2, <2>1 DEF HeldInv
  <2>5. List0(cur) # <<>> /\ List0(cur)[1].disp >= anchors.last2
    BY <1>2, <2>4, PyramidLooksBack
  <2> QED BY <1>1, <2>3, <2>5
<1>3. CASE cur.type = "B" /\ ~conf.pyramid
  <2>1. pc = "b" /\ run.kind \in {"p", "key"} /\ anchors.last2 \in Int
    BY <1>3, TheBound, Types DEF DpbIInv
  <2>2. ring # <<>> /\ ring[1].disp = anchors.last2
    BY <1>3, <2>1 DEF DpbIInv, FlatInv
  <2>3. /\ List0(cur) \in Seq(Entries) /\ List0(cur) # <<>>
        /\ \A i \in 1 .. Len(List0(cur)) : List0(cur)[i] = ring[i]
    BY <1>3, <2>2, RingListIs
  <2>4. 1 \in 1 .. Len(List0(cur))
    BY <2>3, LenProperties, EmptySeq
  <2>5. List0(cur)[1].disp = anchors.last2
    BY <2>2, <2>3, <2>4
  <2> QED BY <1>1, <1>3, <2>1, <2>3, <2>5
<1> QED BY <1>1, <1>2, <1>3

\* In a wide window, and in a tight one beside a list 0 longer than the left edge of
\* a run, the anchors around every B picture are in the buffer while it is coded, list 0
\* begins at or behind the first of them, and the anchor before a P picture is there.
THEOREM AnchorsStay == Spec => [](Roomy(conf) => AnchorsHeld)
PROOF
<1>1. Init => (Roomy(conf) => HeldInv)
  BY DEF Init, HeldInv
<1>2. DpbIInv /\ (Roomy(conf) => HeldInv) /\ [Next]_vars => (Roomy(conf) => HeldInv)'
  BY HeldStep
<1>3. DpbIInv /\ (Roomy(conf) => HeldInv) => (Roomy(conf) => AnchorsHeld)
  BY AnchorsHeldNow
<1> QED BY <1>1, <1>2, <1>3, ReferencesInvariant, PTL DEF Spec
=============================================================================
