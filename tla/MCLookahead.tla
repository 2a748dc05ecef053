----------------------------- MODULE MCLookahead -----------------------------
(* Type sequences for LookaheadRing: B runs of two, of one and mixed with     *)
(* consecutive anchors. Each repeats after Period pictures, as the order      *)
(* counts then do: with Period = LaCap a slot meets a picture of its own      *)
(* order count again.                                                         *)
EXTENDS LookaheadRing

CONSTANT Period

InGop(s) == (s - 1) % Period

Long(s) == IF InGop(s) = 0 THEN "idr" ELSE IF InGop(s) % 3 = 0 THEN "anchor" ELSE "b"
Short(s) == IF InGop(s) = 0 THEN "idr" ELSE IF InGop(s) % 2 = 0 THEN "anchor" ELSE "b"
Mixed(s) == IF s = 1 THEN "idr" ELSE IF s % 7 \in {0, 1, 3} THEN "b" ELSE "anchor"

MCKinds == {[s \in 1 .. N |-> Long(s)], [s \in 1 .. N |-> Short(s)],
            [s \in 1 .. N |-> Mixed(s)]}
=============================================================================
