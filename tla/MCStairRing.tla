----------------------------- MODULE MCStairRing -----------------------------
(* Settings of StairRing. *)
EXTENDS StairRing

\* The shipped ring of three, wide: one reference and a streaming reference B.
WideOne == [ring |-> 3, ref |-> 1, bframes |-> 2, cap |-> 15, wide |-> TRUE, bdepth |-> TRUE,
            lag |-> NoRcp, bail |-> FALSE, nGroups |-> 5]
\* A deeper list 0, gated on the last burst's reference B, under rate control.
WideTwo == [WideOne EXCEPT !.ref = 2, !.lag = 1, !.bail = TRUE]
\* No streaming: every reference B is coded to its end by the chain.
WideWhole == [WideOne EXCEPT !.ref = 2, !.bframes = 3, !.bdepth = FALSE, !.nGroups = 4]
\* Two reference B's in a mini-GOP, coded to their ends.
WidePyramid == [WideOne EXCEPT !.bframes = 4, !.nGroups = 4]
\* The narrow ring swaps buffers in place behind their readers.
Narrow == [WideOne EXCEPT !.ref = 2, !.wide = FALSE, !.bdepth = FALSE, !.bail = TRUE]

MCSettings == {WideOne, WideTwo, WideWhole, WidePyramid, Narrow}

\* The narrow ring with a streaming reference B.
NarrowStreams == {[Narrow EXCEPT !.ref = 1, !.bdepth = TRUE, !.bail = FALSE]}
=============================================================================
