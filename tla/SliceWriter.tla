----------------------------- MODULE SliceWriter -----------------------------
(***************************************************************************)
(* How one CABAC picture becomes NAL units: emit_picture codes its slices, *)
(* one after the other in the picture's RBSP buffer, each by an engine of  *)
(* its own (Cabac); a slice that outgrows the buffer loses the whole       *)
(* picture; append_picture_nals then wraps every slice as a NAL unit       *)
(* (y264_nal_write) in the output buffer.                                  *)
(*                                                                         *)
(* What a macroblock codes is any sequence of a few syntax elements.  The  *)
(* properties read the output back with a byte-stream parser (Annex B) and *)
(* the decoding engine (9.3.1.2, 9.3.3.2) the code keeps to verify itself. *)
(***************************************************************************)
EXTENDS Cabac, FiniteSets, SequencesExt

CONSTANTS
    Elements,       \* the syntax elements a macroblock may code
    MaxElements,    \* bound: the elements of one picture
    MaxSlices,      \* bound: the slices of one picture
    OutCap,         \* the bytes left in the output buffer
    NalHeader,      \* nal_ref_idc and nal_unit_type, in a byte
    HeaderRest      \* the bytes of a slice header before its last (one at least)

VARIABLES
    nslices,    \* the slices the picture is cut into
    pieces,     \* what is left to code of the current element
    coded,      \* the elements of each slice so far
    headers,    \* the header of each slice so far
    sm,         \* struct slice_map: the slices' lengths, empty for a lost picture
    out,        \* the bytes of the output buffer
    pc          \* "code", "header", "pack", "done", "lost" or "nospace"

vars == <<c, nslices, pieces, coded, headers, sm, out, pc>>

-----------------------------------------------------------------------------
\* Syntax elements: a regular bin (repeated, for a run of cheap ones), a bypass
\* bin, a UEGk suffix, and the terminate bin of a macroblock that is not last.
Bin(i, bin, times) == [kind |-> "bin", i |-> i, bin |-> bin, times |-> times]
Sign(bin) == [kind |-> "sign", bin |-> bin]
Ueg(k, val) == [kind |-> "ueg", k |-> k, val |-> val]
EndOfMb == [kind |-> "end"]

\* UEG_PACK: the suffix as nb bins of value x, and E_BYPASS_N's cut of them
\* into chunks, the first of which leaves whole bytes.
UegChunks(k, val) ==
    LET m      == CHOOSE j \in 0..16 : /\ Pow2(k + j) <= val + Pow2(k)
                                       /\ val + Pow2(k) < Pow2(k + j + 1)
        nb     == 2 * m + k + 1
        x      == (Pow2(m + 1) - 2) * Pow2(k + m) + val - (Pow2(m) - 1) * Pow2(k)
        first  == ((nb - 1) % 8) + 1
        count  == 1 + (nb - first) \div 8
    IN  [j \in 1..count |->
            [kind |-> "bypass", n |-> IF j = 1 THEN first ELSE 8,
             v |-> (x \div Pow2(nb - first - 8 * (j - 1))) % 256]]

\* The engine calls one element makes.
Pieces(el) ==
    CASE el.kind = "bin"  -> [j \in 1..el.times |-> el]
      [] el.kind = "sign" -> <<[kind |-> "bypass", n |-> 1, v |-> el.bin]>>
      [] el.kind = "ueg"  -> UegChunks(el.k, el.val)
      [] el.kind = "end"  -> <<el>>

Call(p) == CASE p.kind = "bin"    -> Decision(p.i, p.bin)
             [] p.kind = "bypass" -> Bypass(p.n, p.v)
             [] p.kind = "end"    -> TerminateBin

-----------------------------------------------------------------------------
Total == FoldLeft(LAMBDA n, s : n + Len(s), 0, coded)

\* A macroblock's next syntax element, and the rest of its engine calls.
Code(el) ==
    /\ pc = "code" /\ pieces = <<>> /\ Total < MaxElements
    /\ Call(Head(Pieces(el)))
    /\ pieces' = Tail(Pieces(el))
    /\ coded' = [coded EXCEPT ![Len(coded)] = Append(@, el)]
    /\ UNCHANGED <<nslices, headers, sm, out, pc>>

Continue ==
    /\ pc = "code" /\ pieces # <<>>
    /\ Call(Head(pieces))
    /\ pieces' = Tail(pieces)
    /\ UNCHANGED <<nslices, coded, headers, sm, out, pc>>

\* The last macroblock's terminate bin, and emit_picture's account of the slice.
\* A slice that outgrew the buffer empties the map: the caller appends nothing.
EndSlice ==
    /\ pc = "code" /\ pieces = <<>> /\ Last(coded) # <<>>
    /\ Finish
    /\ LET at   == FoldLeft(+, 0, sm)
           lens == Append(sm, Len(c'.buf) - at)
       IN  IF c'.overflow
           THEN sm' = <<>> /\ pc' = "lost"
           ELSE /\ sm' = lens
                /\ pc' = IF Len(lens) = nslices THEN "pack" ELSE "header"
    /\ UNCHANGED <<nslices, pieces, coded, headers, out>>

\* write_slice_header and a new engine for the next slice.
NextSlice(h) ==
    /\ pc = "header"
    /\ Reopen(h)
    /\ headers' = Append(headers, h)
    /\ coded' = Append(coded, <<>>)
    /\ pc' = "code"
    /\ UNCHANGED <<nslices, pieces, sm, out>>

-----------------------------------------------------------------------------
\* The payload of y264_nal_write: a 3 after two zeros, before a byte up to 3.
Escape(rbsp) ==
    FoldLeft(LAMBDA w, b :
                 LET emulates == w.zeros >= 2 /\ b <= 3
                     zeros    == IF emulates THEN 0 ELSE w.zeros
                 IN  [o |-> w.o \o (IF emulates THEN <<3, b>> ELSE <<b>>),
                      zeros |-> IF b = 0 THEN zeros + 1 ELSE 0],
             [o |-> <<>>, zeros |-> 0], rbsp).o

\* What y264_nal_write asks of the output buffer before it writes.
Needs(n) == 5 + n + (n \div 2) + 1

\* append_picture_nals, all the slices: NAL units for as long as they fit.  The
\* array of NAL units (nal_cap) is taken to have room for them; a full one
\* would end the picture like a full buffer, with its first NAL units.
Slice(k) ==
    LET at == FoldLeft(+, 0, SubSeq(sm, 1, k - 1))
    IN  SubSeq(c.buf, at + 1, at + sm[k])
Appended(o, k) == o \o <<0, 0, 0, 1, NalHeader>> \o Escape(Slice(k))
Room(o, k) == Needs(sm[k]) <= OutCap - Len(o)

Pack ==
    /\ pc = "pack"
    /\ LET end == FoldLeft(LAMBDA w, k :
                               IF w.ok /\ Room(w.o, k)
                               THEN [ok |-> TRUE, o |-> Appended(w.o, k)]
                               ELSE [w EXCEPT !.ok = FALSE],
                           [ok |-> TRUE, o |-> out], [k \in DOMAIN sm |-> k])
       IN  /\ out' = end.o
           /\ pc' = IF end.ok THEN "done" ELSE "nospace"
    /\ UNCHANGED <<c, nslices, pieces, coded, headers, sm>>

Init == /\ \E h \in Headers : c = Engine(<<h>>) /\ headers = <<h>>
        /\ nslices \in 1..MaxSlices
        /\ pieces = <<>> /\ coded = << <<>> >> /\ sm = <<>> /\ out = <<>>
        /\ pc = "code"
Next == \/ \E el \in Elements : Code(el)
        \/ Continue
        \/ EndSlice
        \/ \E h \in Headers : NextSlice(h)
        \/ Pack
Spec == Init /\ [][Next]_vars

-----------------------------------------------------------------------------
\* The bits of s from position pos on (from 0), and zeros after its end.
BitAt(s, pos) ==
    IF pos \div 8 < Len(s) THEN (s[pos \div 8 + 1] \div Pow2(7 - (pos % 8))) % 2
                           ELSE 0
Bits(s, pos, n) ==
    FoldLeft(LAMBDA v, j : 2 * v + BitAt(s, pos + j - 1), 0, [j \in 1..n |-> j])

\* The decoding engine, d = [pos, range, offset, ctx], with what it decodes: one
\* step returns the engine and whether the bin is the one expected.
DecRenorm(s, d) ==
    LET k == Shift(d.range)
    IN  [d EXCEPT !.range = @ * Pow2(k), !.pos = @ + k,
                  !.offset = @ * Pow2(k) + Bits(s, d.pos, k)]
DecDecision(s, d, i, bin) ==
    LET x    == d.ctx[i]
        lps  == rangeTabLPS[x.state][(d.range \div 64) % 4]
        mpsR == d.range - lps
        got  == IF d.offset >= mpsR THEN 1 - x.mps ELSE x.mps
        next == [d EXCEPT !.ctx[i] = Trans(x, got), !.ok = @ /\ got = bin]
    IN  IF d.offset >= mpsR
        THEN DecRenorm(s, [next EXCEPT !.range = lps, !.offset = @ - mpsR])
        ELSE DecRenorm(s, [next EXCEPT !.range = mpsR])
DecBypass(s, d, bin) ==
    LET offset == d.offset * 2 + BitAt(s, d.pos)
        got    == IF offset >= d.range THEN 1 ELSE 0
    IN  [d EXCEPT !.pos = @ + 1, !.ok = @ /\ got = bin,
                  !.offset = IF got = 1 THEN offset - d.range ELSE offset]
DecNotLast(s, d) ==
    LET range == d.range - 2
    IN  DecRenorm(s, [d EXCEPT !.range = range, !.ok = @ /\ d.offset < range])

\* A UEGk suffix bin by bin, as 9.3.2.3 writes it.
RECURSIVE UegBins(_, _)
UegBins(k, val) ==
    IF val >= Pow2(k) THEN <<1>> \o UegBins(k + 1, val - Pow2(k))
    ELSE <<0>> \o [j \in 1..k |-> (val \div Pow2(k - j)) % 2]

DecElement(s, d, el) ==
    CASE el.kind = "bin"  -> FoldLeft(LAMBDA x, j : DecDecision(s, x, el.i, el.bin),
                                      d, [j \in 1..el.times |-> j])
      [] el.kind = "sign" -> DecBypass(s, d, el.bin)
      [] el.kind = "ueg"  -> FoldLeft(LAMBDA x, b : DecBypass(s, x, b),
                                      d, UegBins(el.k, el.val))
      [] el.kind = "end"  -> DecNotLast(s, d)

\* Whether slice data s decodes to els, ends there, and ends in the stop bit.
DecodesTo(s, els) ==
    LET d    == FoldLeft(LAMBDA x, el : DecElement(s, x, el),
                    [pos |-> 9, range |-> 510, offset |-> Bits(s, 0, 9),
                     ctx |-> Engine(<<>>).ctx, ok |-> TRUE], els)
        stop == d.pos - 1
    IN  /\ d.ok
        /\ d.offset >= d.range - 2
        /\ BitAt(s, stop) = 1
        /\ \A j \in (stop + 1)..(8 * Len(s) - 1) : BitAt(s, j) = 0

-----------------------------------------------------------------------------
\* The NAL units of a byte stream (Annex B): what lies between start codes,
\* without trailing zeros; their payloads without emulation prevention.
Trimmed(s) ==
    LET ends == {j \in DOMAIN s : s[j] # 0}
    IN  IF ends = {} THEN <<>> ELSE SubSeq(s, 1, CHOOSE j \in ends :
                                                     \A i \in ends : i <= j)
NalUnits(s) ==
    LET code(j) == s[j] = 0 /\ s[j + 1] = 0 /\ s[j + 2] = 1
        at      == SetToSortSeq({j \in 1..(Len(s) - 2) : code(j)}, <)
    IN  [k \in DOMAIN at |->
            Trimmed(SubSeq(s, at[k] + 3,
                           IF k < Len(at) THEN at[k + 1] - 1 ELSE Len(s)))]
Unescape(s) ==
    FoldLeft(LAMBDA w, b :
                 IF w.zeros >= 2 /\ b = 3 THEN [w EXCEPT !.zeros = 0]
                 ELSE [o |-> Append(w.o, b), zeros |-> IF b = 0 THEN w.zeros + 1
                                                                ELSE 0],
             [o |-> <<>>, zeros |-> 0], s).o
Received(s) == [k \in DOMAIN NalUnits(s) |-> Unescape(Tail(NalUnits(s)[k]))]

\* A decoder that reads the output gets the slices that were coded, in order:
\* all of them, none of a picture that outgrew its buffer, the first ones if
\* the output buffer was short; and in each its header and exactly its bins.
\* What can go wrong on the way: a carry lost or misplaced (E_PUTBYTE), a held
\* byte left out, a slice packed from the wrong offset, a payload that reads as
\* a start code, a context or an engine that survives the slice before.
DecoderReadsBins ==
    pc \in {"done", "lost", "nospace"} =>
      LET got == Received(out)
      IN  /\ (pc = "lost") => got = <<>>
          /\ (pc = "done") => Len(got) = nslices
          /\ Len(got) <= nslices
          /\ \A k \in DOMAIN got :
               /\ got[k][1] = headers[k]
               /\ DecodesTo(Tail(got[k]), coded[k])

\* A complete picture's NAL units, as a receiver parses them, meet the bound of
\* 7.4.2.10 in the bins the engine counts (nbins: the terminate bins are not
\* among them): at most 32/3 of their bytes and the macroblocks' share, unless
\* the RBSP buffer could not hold the words that restore it.  The zeros of the
\* last word trail its NAL unit and belong to none; the bytes of the NAL unit's
\* and slice's headers, which the code's own sum leaves out, stand in for it.
BinsOf(els) ==
    FoldLeft(LAMBDA n, el : n + CASE el.kind = "bin"  -> el.times
                                  [] el.kind = "sign" -> 1
                                  [] el.kind = "ueg"  -> Len(UegBins(el.k, el.val))
                                  [] el.kind = "end"  -> 0, 0, els)
NalBytes == FoldLeft(LAMBDA n, u : n + HeaderRest + Len(u), 0, NalUnits(out))
BinBoundHolds ==
    pc = "done" /\ Len(c.buf) < RbspCap - 1 =>
      3 * FoldLeft(LAMBDA n, els : n + BinsOf(els), 0, coded)
        <= 32 * NalBytes + RawShare * nslices
=============================================================================
