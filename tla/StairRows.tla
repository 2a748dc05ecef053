------------------------------- MODULE StairRows -------------------------------
(***************************************************************************)
(* The row staircase of src/src/encoder/encoder.c: a picture's rows become *)
(* usable by the pictures that refer to it while it is still being coded.  *)
(*                                                                         *)
(* Each streamed picture p has a runner, which analyses its rows on the    *)
(* pool (or serially when no job slot is free) and then writes its slice,  *)
(* and a trailer, which deblocks, extends and commits the rows behind the  *)
(* analysis and publishes a watermark.  A row of p is analysed only when   *)
(* every picture p is gated on has published Lag rows further down.        *)
(* Rows of pixels are counted per macroblock row, 16 to each.  A lock with *)
(* its condition is one action; a load outside the lock is its own.        *)
(* One outside thread waits for the analysis of Joined to end, as a launch *)
(* does before it recycles a slot another picture is gated on.             *)
(***************************************************************************)
EXTENDS Integers

CONSTANTS
    Pics,       \* pictures with a stair_prog
    Gates,      \* Gates[p]: the pictures p's rows are gated on (stair_gate)
    MayBail,    \* reference Bs whose chain may fail before their launch
    Joined,     \* the picture the launching thread waits for
    Hmb,        \* macroblock rows of a picture
    Lag         \* e->stair_lag

ASSUME GatesAssumption == Gates \in [Pics -> SUBSET Pics]
ASSUME JoinedAssumption == Joined \in Pics /\ MayBail \subseteq Pics
ASSUME HmbAssumption == Hmb \in Nat \ {0}
ASSUME LagAssumption == Lag \in Nat \ {0}

VARIABLES
    begun,      \* rows claimed by the analysis
    adone,      \* rows whose last cell has been analysed
    arow,       \* P->arow
    pub,        \* P->pub: trailing row published; Hmb when all are
    rpc,        \* runner: "ready", "pool", "serial", "gated" (asleep in
                \* stair_row_gate), "finish", "pubwait", "pubsleep", "emit",
                \* "done"; "bailed" for a picture never launched
    tpc,        \* trailer: "wait", "asleep", "deblock", "stream", "publish",
                \* "done"
    trow,       \* the trailer's loop variable j
    deb,        \* rows deblocked
    extDone,    \* P->ext_done_l: luma rows final and extended
    hpDone,     \* P->hp_done: half-pel rows built
    colmv,      \* macroblock rows of motion committed to the slot
    jpc         \* the outside thread: "check", "asleep", "through"

vars == <<begun, adone, arow, pub, rpc, tpc, trow, deb, extDone, hpDone, colmv, jpc>>
rows == <<begun, adone>>
trail == <<tpc, trow, deb, extDone, hpDone, colmv>>

-----------------------------------------------------------------------------
(* The arithmetic of the lag. *)

\* stair_lag_for: the lag an encoder with a pool of this width takes, from the
\* rows a thread's share of the picture leaves free.
StairLagFor(hmb, threads) ==
    LET range == (16 * hmb + 24) \div threads - 24
        want == IF range < 0 THEN 0 ELSE range \div 2
        lag == (want + 24 + 15) \div 16
        floored == IF lag < 4 THEN 4 ELSE lag
    IN IF floored > hmb THEN hmb ELSE floored

\* Luma rows that are final once trailing row j is done, P->ext_done_l.
LumaFinal(j) == IF j = Hmb - 1 THEN 16 * Hmb ELSE 16 * j + 13
\* Half-pel rows that can be built from them, P->hp_done.
HpelFinal(j) == IF j = Hmb - 1 THEN 16 * Hmb ELSE 16 * j + 10

\* The longest downward vector of a clamped search, in luma rows.
ReachPx == 16 * Lag - 24
\* Last luma row the six-tap filter reads for a block of row r, and the last
\* half-pel row a quarter-pel average reads.
LumaReach(r) == 16 * r + 16 + ReachPx + 3
HpelReach(r) == 16 * r + 16 + ReachPx

\* Mutant: the gate forgets that a row is published two rows late.
NeedTwoShort(r) == IF r + Lag - 2 > Hmb THEN Hmb ELSE r + Lag - 2
\* The watermark row r waits for: everything, for the bottom rows.
Need(r) == IF r + Lag > Hmb THEN Hmb ELSE r + Lag

\* The analysis rows trailing row j waits for.
ArowNeedOwn(j) == j + 1          \* Mutant: the row below may still read row j.
ArowNeed(j) == IF j = Hmb - 1 THEN Hmb ELSE j + 2

-----------------------------------------------------------------------------
Init ==
    /\ begun = [p \in Pics |-> 0] /\ adone = [p \in Pics |-> 0]
    /\ arow = [p \in Pics |-> 0] /\ pub = [p \in Pics |-> -1]
    /\ rpc = [p \in Pics |-> "ready"] /\ tpc = [p \in Pics |-> "wait"]
    /\ trow = [p \in Pics |-> 0] /\ deb = [p \in Pics |-> 0]
    /\ extDone = [p \in Pics |-> 0] /\ hpDone = [p \in Pics |-> 0]
    /\ colmv = [p \in Pics |-> 0]
    /\ jpc = "check"

(* Wakeups.  acv is shared by p's trailer and the joining thread; row_done *)
(* signals it, which wakes one of them, stair_arow_finish broadcasts.      *)
AcvSleepers(p) == {t \in {"trailer", "joiner"} :
                      \/ t = "trailer" /\ tpc[p] = "asleep"
                      \/ t = "joiner" /\ p = Joined /\ jpc = "asleep"}
WakeAcv(p, S) ==
    /\ tpc' = [tpc EXCEPT ![p] = IF "trailer" \in S THEN "wait" ELSE @]
    /\ jpc' = IF "joiner" \in S THEN "check" ELSE jpc

\* Everyone asleep on q's pcv: q's own runner, and serial rows gated on q.
WakePcv(q) == [p \in Pics |->
    IF rpc[p] = "pubsleep" /\ p = q THEN "pubwait"
    ELSE IF rpc[p] = "gated" /\ q \in Gates[p] THEN "serial" ELSE rpc[p]]

-----------------------------------------------------------------------------
(* The runner of p. *)

\* y264_frame_analyze: a job on the pool, or serial when no slot is free.
StartPool(p) ==
    /\ rpc[p] = "ready"
    /\ rpc' = [rpc EXCEPT ![p] = "pool"]
    /\ UNCHANGED <<rows, arow, pub, trail, jpc>>

StartSerial(p) ==
    /\ rpc[p] = "ready"
    /\ rpc' = [rpc EXCEPT ![p] = "serial"]
    /\ UNCHANGED <<rows, arow, pub, trail, jpc>>

\* Mutant: only one of the producers is asked.
RowReadyAny(p, r) == Gates[p] = {} \/ \E q \in Gates[p] : pub[q] >= Need(r)
\* stair_row_ready, and what stair_row_gate blocks for.
RowReady(p, r) == \A q \in Gates[p] : pub[q] >= Need(r)

\* The pool claims the next row.
ClaimRow(p) ==
    /\ rpc[p] = "pool" /\ begun[p] < Hmb
    /\ RowReady(p, begun[p])
    /\ begun' = [begun EXCEPT ![p] = @ + 1]
    /\ UNCHANGED <<adone, arow, pub, rpc, trail, jpc>>

\* The last cell of the row is done: stair_row_done.  Rows end in order, for
\* each waits for the last cell of the row above.
RowDone(p) ==
    /\ rpc[p] = "pool" /\ adone[p] < begun[p]
    /\ adone' = [adone EXCEPT ![p] = @ + 1]
    /\ arow' = [arow EXCEPT ![p] = adone[p] + 1]
    /\ IF AcvSleepers(p) = {}
       THEN UNCHANGED <<tpc, jpc>>
       ELSE \E t \in AcvSleepers(p) : WakeAcv(p, {t})
    /\ UNCHANGED <<begun, pub, rpc, trow, deb, extDone, hpDone, colmv>>

\* The serial analysis runs the blocking gate at the first cell of a row and
\* never calls row_done.
SerialRow(p) ==
    /\ rpc[p] = "serial" /\ begun[p] < Hmb /\ adone[p] = begun[p]
    /\ RowReady(p, begun[p])
    /\ begun' = [begun EXCEPT ![p] = @ + 1]
    /\ UNCHANGED <<adone, arow, pub, rpc, trail, jpc>>

SerialGated(p) ==
    /\ rpc[p] = "serial" /\ begun[p] < Hmb /\ adone[p] = begun[p]
    /\ ~RowReady(p, begun[p])
    /\ rpc' = [rpc EXCEPT ![p] = "gated"]
    /\ UNCHANGED <<rows, arow, pub, trail, jpc>>

SerialRowEnd(p) ==
    /\ rpc[p] = "serial" /\ adone[p] < begun[p]
    /\ adone' = [adone EXCEPT ![p] = @ + 1]
    /\ UNCHANGED <<begun, arow, pub, rpc, trail, jpc>>

AnalyzeReturns(p) ==
    /\ rpc[p] \in {"pool", "serial"} /\ adone[p] = Hmb
    /\ rpc' = [rpc EXCEPT ![p] = "finish"]
    /\ UNCHANGED <<rows, arow, pub, trail, jpc>>

\* Mutant: the runner trusts the row hooks.
ArowFinishNothing(p) ==
    /\ rpc[p] = "finish"
    /\ rpc' = [rpc EXCEPT ![p] = "pubwait"]
    /\ UNCHANGED <<rows, arow, pub, trail, jpc>>

\* stair_arow_finish.
ArowFinish(p) ==
    /\ rpc[p] = "finish"
    /\ arow' = [arow EXCEPT ![p] = IF @ < Hmb THEN Hmb ELSE @]
    /\ WakeAcv(p, AcvSleepers(p))
    /\ rpc' = [rpc EXCEPT ![p] = "pubwait"]
    /\ UNCHANGED <<rows, pub, trow, deb, extDone, hpDone, colmv>>

\* Mutant: the slice is written while the trailer still reads its grids.
AllPublishedSoon(p) == pub[p] >= Hmb - 2
AllPublished(p) == pub[p] >= Hmb

\* stair_pub_wait_all, then emit_picture.
PubWait(p) ==
    /\ rpc[p] = "pubwait"
    /\ rpc' = [rpc EXCEPT ![p] = IF AllPublished(p) THEN "emit" ELSE "pubsleep"]
    /\ UNCHANGED <<rows, arow, pub, trail, jpc>>

Emit(p) ==
    /\ rpc[p] = "emit"
    /\ rpc' = [rpc EXCEPT ![p] = "done"]
    /\ UNCHANGED <<rows, arow, pub, trail, jpc>>

\* The chain of p failed after p's watermark was armed and before its launch:
\* stair_pub_finish releases whoever is gated on it.
Bail(p) ==
    /\ p \in MayBail /\ rpc[p] = "ready"
    /\ pub' = [pub EXCEPT ![p] = IF @ < Hmb THEN Hmb ELSE @]
    /\ rpc' = [WakePcv(p) EXCEPT ![p] = "bailed"]
    /\ UNCHANGED <<rows, arow, trail, jpc>>

-----------------------------------------------------------------------------
(* The trailer of p, stair_trailer_task. *)

\* stair_arow_wait.
TrailerSleep(p) ==
    /\ tpc[p] = "wait" /\ arow[p] < ArowNeed(trow[p])
    /\ tpc' = [tpc EXCEPT ![p] = "asleep"]
    /\ UNCHANGED <<rows, arow, pub, rpc, trow, deb, extDone, hpDone, colmv, jpc>>

TrailerGo(p) ==
    /\ tpc[p] = "wait" /\ arow[p] >= ArowNeed(trow[p])
    /\ tpc' = [tpc EXCEPT ![p] = "deblock"]
    /\ UNCHANGED <<rows, arow, pub, rpc, trow, deb, extDone, hpDone, colmv, jpc>>

Deblock(p) ==
    /\ tpc[p] = "deblock"
    /\ deb' = [deb EXCEPT ![p] = trow[p] + 1]
    /\ tpc' = [tpc EXCEPT ![p] = "stream"]
    /\ UNCHANGED <<rows, arow, pub, rpc, trow, extDone, hpDone, colmv, jpc>>

\* Borders, half-pel band, motion rows.
Stream(p) ==
    /\ tpc[p] = "stream"
    /\ extDone' = [extDone EXCEPT ![p] = LumaFinal(trow[p])]
    /\ hpDone' = [hpDone EXCEPT ![p] = HpelFinal(trow[p])]
    /\ colmv' = [colmv EXCEPT ![p] = trow[p] + 1]
    /\ tpc' = [tpc EXCEPT ![p] = "publish"]
    /\ UNCHANGED <<rows, arow, pub, rpc, trow, deb, jpc>>

Watermark(j) == IF j = Hmb - 1 THEN Hmb ELSE j

\* stair_publish; the pool kick is that ClaimRow is tried again.
Publish(p) ==
    /\ tpc[p] = "publish"
    /\ pub' = [pub EXCEPT ![p] = Watermark(trow[p])]
    /\ rpc' = WakePcv(p)
    /\ trow' = [trow EXCEPT ![p] = @ + 1]
    /\ tpc' = [tpc EXCEPT ![p] = IF trow[p] = Hmb - 1 THEN "done" ELSE "wait"]
    /\ UNCHANGED <<rows, arow, deb, extDone, hpDone, colmv, jpc>>

-----------------------------------------------------------------------------
(* The thread that waits for the analysis of Joined: stair_arow_wait. *)

JoinerSleep ==
    /\ jpc = "check" /\ arow[Joined] < Hmb
    /\ jpc' = "asleep"
    /\ UNCHANGED <<rows, arow, pub, rpc, trail>>

JoinerThrough ==
    /\ jpc = "check" /\ arow[Joined] >= Hmb
    /\ jpc' = "through"
    /\ UNCHANGED <<rows, arow, pub, rpc, trail>>

-----------------------------------------------------------------------------
Runner(p) == \/ StartPool(p) \/ StartSerial(p) \/ ClaimRow(p) \/ RowDone(p)
             \/ SerialRow(p) \/ SerialGated(p) \/ SerialRowEnd(p)
             \/ AnalyzeReturns(p) \/ ArowFinish(p) \/ PubWait(p) \/ Emit(p)
Trailer(p) == TrailerSleep(p) \/ TrailerGo(p) \/ Deblock(p) \/ Stream(p) \/ Publish(p)
Joiner == JoinerSleep \/ JoinerThrough

\* Every picture written, or dropped with its chain.
Finished == /\ \A p \in Pics : rpc[p] = "done" \/ rpc[p] = "bailed"
            /\ jpc = "through" \/ rpc[Joined] = "bailed"
Rest == Finished /\ UNCHANGED vars

Next == \/ \E p \in Pics : Runner(p) \/ Bail(p) \/ Trailer(p)
        \/ Joiner
        \/ Rest

Spec == Init /\ [][Next]_vars

(* Every thread of the process keeps running. *)
FairSpec == /\ Spec /\ WF_vars(Joiner)
            /\ \A p \in Pics : WF_vars(Runner(p)) /\ WF_vars(Trailer(p))
            /\ \A p \in Pics : WF_vars(ClaimRow(p)) /\ WF_vars(RowDone(p))

-----------------------------------------------------------------------------
(* Properties. *)

TypeOK ==
    /\ begun \in [Pics -> 0 .. Hmb] /\ adone \in [Pics -> 0 .. Hmb]
    /\ arow \in [Pics -> 0 .. Hmb] /\ pub \in [Pics -> -1 .. Hmb]
    /\ rpc \in [Pics -> {"ready", "pool", "serial", "gated", "finish", "pubwait",
                         "pubsleep", "emit", "done", "bailed"}]
    /\ tpc \in [Pics -> {"wait", "asleep", "deblock", "stream", "publish", "done"}]
    /\ trow \in [Pics -> 0 .. Hmb] /\ deb \in [Pics -> 0 .. Hmb]
    /\ extDone \in [Pics -> 0 .. 16 * Hmb] /\ hpDone \in [Pics -> 0 .. 16 * Hmb]
    /\ colmv \in [Pics -> 0 .. Hmb]
    /\ jpc \in {"check", "asleep", "through"}

InFlight(p, r) == adone[p] <= r /\ r < begun[p]

\* A row being analysed never reads what is not yet final in a picture it is
\* gated on: its longest clamped vector stays inside the extended luma rows
\* and the half-pel band, or the picture is complete with its borders; and the
\* colocated motion row is committed.  (A picture whose chain failed is never
\* coded: the encode has failed too.)
ReadsAreFinal ==
    \A p \in Pics : \A q \in Gates[p] : \A r \in 0 .. Hmb - 1 :
        InFlight(p, r) /\ rpc[q] # "bailed" =>
            /\ LumaReach(r) < extDone[q] \/ extDone[q] = 16 * Hmb
            /\ HpelReach(r) < hpDone[q] \/ hpDone[q] = 16 * Hmb
            /\ r < colmv[q]

\* Row j is deblocked only when its own analysis and that of the row below,
\* which predicts from its unfiltered pixels, are over.
DeblockAfterReads ==
    \A p \in Pics : deb[p] > 0 =>
        adone[p] >= (IF deb[p] = Hmb THEN Hmb ELSE deb[p] + 1)

\* The argument by which a leaf needs no gate on the anchor before its own
\* (comment at "DO NOT TURN THIS INTO A ROW GATE"): a row in flight in a leaf
\* means that the anchors its anchor is gated on have published twice the lag.
GatesCompose ==
    \A p \in Pics : \A q \in Gates[p] : \A g \in Gates[q] : \A r \in 0 .. Hmb - 1 :
        InFlight(p, r) /\ rpc[q] # "bailed" => pub[g] >= Need(Need(r) - 1)

\* The slice writer, which rewrites the motion field, runs after the trailer's
\* last read of it.
EmitAfterTrailer == \A p \in Pics : rpc[p] = "emit" => tpc[p] = "done"

\* Every picture is written and every wait ends, whatever the order of the
\* threads, serial fallbacks and failed chains included.
EverythingStreams == <>Finished
=============================================================================
