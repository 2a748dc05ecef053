----------------------------- MODULE MCStairRows -----------------------------
(* Instances of StairRows: an anchor, the next anchor, the reference B and a *)
(* leaf of the first mini-GOP, gated as stair_launch and the leaf preps do.  *)
EXTENDS StairRows

CONSTANTS anchor, refb, leaf, next

MCBurst == {anchor, refb, leaf}
\* two consecutive anchors alone
MCPair == {anchor, next}

MCGatesAll == [p \in Pics |-> CASE p = anchor -> {}
                               [] p = refb -> {anchor}
                               [] p = leaf -> {anchor, refb}
                               [] p = next -> {anchor}]
=============================================================================
