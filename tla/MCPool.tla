------------------------------- MODULE MCPool -------------------------------
(* Instances of WavefrontPool small enough for TLC. *)
EXTENDS WavefrontPool, TLC

CONSTANTS w1, w2, s1, s2, g1, g2, g3, g4

Symmetry == Permutations(Workers)

(* pool_reuse: a parallel for, then a gated wavefront in the slot it leaves, *)
(* beside a latency-critical job; three columns, for the top-right neighbour *)
(* to matter.                                                                *)
ReuseCalls == s1 :> << <<g1>>, <<g2>> >> @@ s2 :> << <<g3>> >>
ReuseKind == g1 :> "for" @@ g2 :> "wavefront" @@ g3 :> "for"
ReuseRows == g1 :> 2 @@ g2 :> 2 @@ g3 :> 1
ReuseCols == g1 :> 1 @@ g2 :> 3 @@ g3 :> 1

(* pool_batch: a batch larger than the job table, an empty grid in it, and  *)
(* another submitter whose grid cannot get its progress array.              *)
BatchCalls == s1 :> << <<g1, g3, g2>> >> @@ s2 :> << <<g4>> >>
BatchKind == g1 :> "wavefront" @@ g2 :> "wavefront" @@ g3 :> "wavefront" @@ g4 :> "wavefront"
BatchRows == g1 :> 2 @@ g2 :> 0 @@ g3 :> 1 @@ g4 :> 2
BatchCols == g1 :> 2 @@ g2 :> 2 @@ g3 :> 1 @@ g4 :> 1
=============================================================================
