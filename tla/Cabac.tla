-------------------------------- MODULE Cabac --------------------------------
(***************************************************************************)
(* The arithmetic coder of src/src/encoder/cabac.c: the byte queue the     *)
(* E_* macros run, from the end of a slice header to the end of the slice  *)
(* data.  c is the y264_cabac_t; c.buf is the RBSP buffer up to p, so the  *)
(* last byte of c.buf is p[-1], the slot a carry lands in, and c.start is  *)
(* where the slice data begins: until the engine has written a byte, p[-1] *)
(* is the last byte of the slice header.                                   *)
(*                                                                         *)
(* low holds the ten active bits and the queue + 9 settled bits above      *)
(* them.  A settled byte of 255 is held back in obytes, since a carry may  *)
(* still turn it into 0; any other byte is written, with the carry above   *)
(* it added to p[-1].                                                      *)
(***************************************************************************)
EXTENDS Integers, Sequences

CONSTANTS
    Ctx,            \* the context indices in use
    CtxInit,        \* their (m, n) pairs, Tables 9-12 to 9-33
    SliceQP,        \* SliceQPY
    rangeTabLPS,    \* Table 9-46, [pStateIdx][qCodIRangeIdx]
    transIdxLPS,    \* Table 9-45
    transIdxMPS,
    Headers,        \* the last bytes a slice header may have, once aligned
    RbspCap,        \* the bytes of the picture's RBSP buffer
    Margin,         \* the bytes the engine leaves at its end (64 in the code)
    RawShare        \* three times raw_mb_bits * nmb / 32, a slice's free bins

States == 0..62     \* pStateIdx; 63 is the terminate bin's, coded apart

ASSUME TableAssumption ==
    /\ rangeTabLPS \in [States -> [0..3 -> Nat]]
    /\ \A s \in States, q \in 0..3 : rangeTabLPS[s][q] \in 2..(64 * q + 254)
    /\ transIdxLPS \in [States -> States]
    /\ transIdxMPS \in [States -> States]

ASSUME SliceAssumption ==
    /\ Headers \subseteq 0..255
    /\ CtxInit \in [Ctx -> Int \X Int] /\ SliceQP \in Int
    /\ RbspCap \in Nat /\ Margin \in Nat /\ RawShare \in Nat

VARIABLE c

-----------------------------------------------------------------------------
\* Shifts.  No value of the engine takes more than 26 bits.
Bit == <<2, 4, 8, 16, 32, 64, 128, 256, 512, 1024, 2048, 4096, 8192, 16384,
         32768, 65536, 131072, 262144, 524288, 1048576, 2097152, 4194304,
         8388608, 16777216, 33554432, 67108864>>
Pow2(k) == IF k = 0 THEN 1 ELSE Bit[k]

\* __builtin_clz(r) - 23: what brings r back to nine bits.
Shift(r) == CHOOSE k \in 0..7 : 256 <= r * Pow2(k) /\ r * Pow2(k) < 512

\* p[-1] += cry, in its eight bits.
Carried(buf, cry) ==
    IF buf = <<>> THEN buf
                  ELSE [buf EXCEPT ![Len(buf)] = (@ + cry) % 256]

\* Mutant: the carry is not passed through the bytes held back.
HeldBackPlain(n, cry) == [i \in 1..n |-> 255]
\* obytes held-back bytes: 255, or 0 under a carry, as (uint8_t)(cry - 1).
HeldBack(n, cry) == [i \in 1..n |-> (255 + cry) % 256]

\* The eight oldest settled bits with the carry above them, and the rest.
Oldest(e) == e.low \div Pow2(e.queue + 10)
Carry(e) == Oldest(e) \div 256
Peeled(e) == [e EXCEPT !.low = @ % Pow2(e.queue + 10), !.queue = @ - 8]

\* The carry into p[-1], the bytes held back, and the byte peeled off.
Written(e) ==
    Carried(e.buf, Carry(e)) \o HeldBack(e.obytes, Carry(e))
        \o <<Oldest(e) % 256>>

\* Mutant: a byte of 255 is written like any other.
PutAtOnce(e) ==
    IF e.queue < 0 THEN e ELSE [Peeled(e) EXCEPT !.buf = Written(e)]
\* E_PUTBYTE.
PutByte(e) ==
    IF e.queue < 0 THEN e
    ELSE IF Oldest(e) % 256 = 255 THEN [Peeled(e) EXCEPT !.obytes = @ + 1]
    ELSE IF Len(e.buf) + e.obytes < RbspCap - Margin
    THEN [Peeled(e) EXCEPT !.obytes = 0, !.buf = Written(e)]
    ELSE [Peeled(e) EXCEPT !.obytes = 0, !.overflow = TRUE]

\* The shift that follows an interval update.
Shifted(e, k) ==
    [e EXCEPT !.range = @ * Pow2(k), !.low = @ * Pow2(k), !.queue = @ + k]
Renorm(e) == PutByte(Shifted(e, Shift(e.range)))

-----------------------------------------------------------------------------
\* y264_cabac_init_contexts, one context.
InitContext(m, n, qp) ==
    LET sum == ((m * qp) \div 16) + n
        pre == IF sum < 1 THEN 1 ELSE IF sum > 126 THEN 126 ELSE sum
    IN  IF pre <= 63 THEN [state |-> 63 - pre, mps |-> 0]
                     ELSE [state |-> pre - 64, mps |-> 1]

\* y264_cabac_init_engine at the end of buf, with the slice's own contexts.
Engine(buf) ==
    [low |-> 0, range |-> 510, queue |-> -9, obytes |-> 0, buf |-> buf,
     start |-> Len(buf), overflow |-> FALSE, nbins |-> 0,
     ctx |-> [i \in Ctx |-> InitContext(CtxInit[i][1], CtxInit[i][2], SliceQP)]]

\* ctx_trans: the context after one bin.
Trans(s, bin) ==
    IF bin = s.mps THEN [s EXCEPT !.state = transIdxMPS[@]]
    ELSE [state |-> transIdxLPS[s.state],
          mps   |-> IF s.state = 0 THEN 1 - s.mps ELSE s.mps]

\* E_DEC: one regular bin.
Decided(e, i, bin) ==
    LET s    == e.ctx[i]
        lps  == rangeTabLPS[s.state][(e.range \div 64) % 4]
        mpsR == e.range - lps
        next == [e EXCEPT !.ctx[i] = Trans(s, bin), !.nbins = @ + 1]
    IN  IF bin = s.mps
        THEN Renorm([next EXCEPT !.range = mpsR])
        ELSE Renorm([next EXCEPT !.range = lps, !.low = @ + mpsR])

\* One chunk of E_BYPASS_N, n <= 8 bins of value v; E_BYPASS is the chunk of one.
Bypassed(e, n, v) ==
    PutByte([e EXCEPT !.low = @ * Pow2(n) + v * e.range, !.queue = @ + n,
                      !.nbins = @ + n])

\* y264_cabac_encode_terminate, bin 0.
NotLast(e) == Renorm([e EXCEPT !.range = @ - 2])

\* y264_cabac_encode_terminate, bin 1: EncodeFlush with the stop bit forced on.
Settled(e) ==
    LET base == e.low + (e.range - 2)
    IN  [e EXCEPT !.range = 2, !.queue = @ + 10,
                  !.low = (base + 1 - (base % 2)) * 1024]
\* The bits still pending after two bytes, moved up to fill the third.
Padded(e) ==
    IF e.queue + 8 > 0
    THEN [e EXCEPT !.low = @ * Pow2(-e.queue), !.queue = 0]
    ELSE e
Flushed(e) ==
    LET all == PutByte(Padded(PutByte(PutByte(Settled(e)))))
    IN  [all EXCEPT !.buf = @ \o HeldBack(all.obytes, 0), !.obytes = 0]

\* Mutant: the words rounded down.
ZeroWordsDown(e) ==
    LET excess == 3 * e.nbins - 32 * (Len(e.buf) - e.start) - RawShare
    IN  IF excess > 0 THEN excess \div 96 ELSE 0
\* cabac_zero_words, in thirds of a bin: the words that restore 7.4.2.10's
\* bound on the slice's bins, as far as the buffer holds them.
ZeroWords(e) ==
    LET excess == 3 * e.nbins - 32 * (Len(e.buf) - e.start) - RawShare
        wanted == IF excess > 0 THEN (excess + 93) \div 96 ELSE 0
        room   == IF Len(e.buf) > RbspCap THEN 0
                  ELSE (RbspCap - Len(e.buf)) \div 2
    IN  IF wanted < room THEN wanted ELSE room

\* The end of a slice's data, void if the buffer ran out.
Finished(e) ==
    LET f == Flushed(e)
    IN  IF f.overflow THEN f
        ELSE [f EXCEPT !.buf = @ \o [i \in 1..(2 * ZeroWords(f)) |-> 0]]

\* The next slice of the picture begins where this one ended: its header, as
\* far as the buffer holds it, then a new engine.
Reopened(e, h) ==
    Engine(IF Len(e.buf) < RbspCap THEN Append(e.buf, h) ELSE e.buf)

-----------------------------------------------------------------------------
Coding == c.range # 2

Decision(i, bin) == Coding /\ c' = Decided(c, i, bin)
Bypass(n, v) == Coding /\ v < Pow2(n) /\ c' = Bypassed(c, n, v)
TerminateBin == Coding /\ c' = NotLast(c)
Finish == Coding /\ c' = Finished(c)
Reopen(h) == ~Coding /\ ~c.overflow /\ c' = Reopened(c, h)

EngineInit == \E h \in Headers : c = Engine(<<h>>)
EngineNext ==
    \/ \E i \in Ctx, bin \in 0..1 : Decision(i, bin)
    \/ \E n \in 1..8, v \in 0..255 : Bypass(n, v)
    \/ TerminateBin
    \/ Finish
    \/ \E h \in Headers : Reopen(h)
EngineSpec == EngineInit /\ [][EngineNext]_c

-----------------------------------------------------------------------------
\* Whether the engine has not written a byte of this slice yet.
Fresh == Len(c.buf) = c.start

\* While a slice is coded, the interval [low, low + range) stays where one
\* carry bit is enough: it fits in 26 bits after any shift, the byte a carry
\* lands in is never 255, and it is never a byte of the header, whose last
\* byte the first extraction adds "provably +0" to (cabac.c:405).
CarryFits ==
    Coding =>
      /\ c.range \in 256..510 /\ c.queue \in -9..-1
      /\ c.low >= 0 /\ c.low + c.range <= 767 * Pow2(c.queue + 9)
      /\ ~c.overflow =>
           /\ Len(c.buf) >= c.start
           /\ Fresh => /\ c.obytes = 0
                       /\ c.low + c.range <= 510 * Pow2(c.queue + 9)
           /\ ~Fresh => c.buf[Len(c.buf)] < 255

\* What is written stays: a step of a slice that fits changes no byte but the
\* last one, only upwards by one, never past 255, and never one that was there
\* before the slice data (the header, the slices before).
WrittenStays ==
    [][c'.overflow \/
         /\ Len(c.buf) <= Len(c'.buf)
         /\ \A i \in 1..Len(c.buf) :
              \/ c'.buf[i] = c.buf[i]
              \/ /\ i = Len(c.buf) /\ i > c.start
                 /\ c.buf[i] < 255 /\ c'.buf[i] = c.buf[i] + 1]_c

=============================================================================
