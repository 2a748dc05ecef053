------------------------------ MODULE MCLedger ------------------------------
(* Settings of RateLedger. *)
EXTENDS RateLedger

\* The wide ring, the shipped lag, a ledger smaller than the code's
\* (K + 1) * (MaxB + 1) = 16, so that the room a launch makes is needed.
WideRing == [ring |-> 3, rcpMax |-> 9, warm |-> 0, lag |-> 1, maxB |-> 3, nPics |-> 11,
             faults |-> FALSE, vbv |-> FALSE]
\* One burst overlaps the launch of the next; slices overflow, chains fail.
Narrow   == [ring |-> 3, rcpMax |-> 12, warm |-> 1, lag |-> 0, maxB |-> 2, nPics |-> 6,
             faults |-> TRUE, vbv |-> FALSE]
\* A VBV: gates, tight groups and their retries between bursts of three.
Vbv      == [Narrow EXCEPT !.vbv = TRUE, !.maxB = 3, !.nPics = 5]

MCSettings == {WideRing, Narrow, Vbv}
=============================================================================
