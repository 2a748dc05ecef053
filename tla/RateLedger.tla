------------------------------ MODULE RateLedger ------------------------------
(***************************************************************************)
(* The rate-control ledger (src/src/encoder/rate.c, the rcp_* functions)   *)
(* and the order in which src/src/encoder/encoder.c decides, retires and   *)
(* bills pictures when their coding is pipelined.                          *)
(*                                                                         *)
(* A decide pushes a picture on the ledger; its coded size fills an entry  *)
(* later, and the head is accounted once it has its size and lies behind   *)
(* the pop bound.  Pictures are numbered by rcp_seq, so a picture is its   *)
(* place in coding order.  Sizes are abstracted to the picture they are    *)
(* the size of: entry.src names the picture whose size was put in it.      *)
(*                                                                         *)
(* The API thread codes serial groups, whose slices the emit worker writes *)
(* one picture behind (W2), and launches bursts: an anchor on a runner and *)
(* its B pictures on a chain, which decides them all and only then encodes.*)
(* Under a VBV every anchor is preceded by the burst gate: it retires all  *)
(* that is in flight and sends a tight group down the serial path, where   *)
(* a picture is coded again while its measured size does not fit.          *)
(* Single-threaded emission, a VBV in two passes and bursts that run       *)
(* inside the launch are not here.                                         *)
(***************************************************************************)
EXTENDS Integers, Sequences, SequencesExt, FiniteSets

CONSTANT Settings   \* settings of the encoder: see SettingsAssumption

(***************************************************************************)
(* A setting: ring, Y264_STAIR_K, slots of the burst ring; rcpMax, RCP_MAX *)
(* entries of the ledger; warm, RCP_WARM decides with serial feedback;     *)
(* lag, e->rcp_lag bursts left in flight across an anchor's decide; maxB,  *)
(* B pictures of a mini-GOP; nPics, the bound on the encode; faults,       *)
(* whether slices may overflow and chains may fail; vbv, whether a VBV     *)
(* bounds the encode, which grants no lag (stair_wide_capable).  The code  *)
(* makes RCP_MAX STAIR_K * 8 + 8 with bursts of at most 8 pictures and a   *)
(* lag below STAIR_K: more than the mini-GOPs that can be pending at once. *)
(***************************************************************************)
ASSUME SettingsAssumption ==
    \A c \in Settings :
        /\ c.ring \in Nat \ {0} /\ c.rcpMax \in Nat \ {0} /\ c.lag \in 0 .. c.ring - 1
        /\ c.warm \in Nat /\ c.maxB \in Nat \ {0} /\ c.nPics \in Nat
        /\ c.faults \in BOOLEAN /\ c.vbv \in BOOLEAN /\ (c.vbv => c.lag = 0)
        /\ c.rcpMax > (c.lag + 1) * (c.maxB + 1)

VARIABLES
    cfg,        \* the setting
    rcp,        \* the pending entries, oldest first (rcp, rcp_head, rcp_n)
    acct,       \* the entries retired so far, oldest first
    seq,        \* rcp_seq: decides made
    anchorSeq,  \* rcp_anchor_seq
    anchorHist, \* rcp_anchor_hist: earlier anchors, newest first
    lost,       \* decided pictures whose entry did not fit
    live,       \* bursts in flight, oldest first (stair_oldest .. fly)
    w2,         \* e->pipe: the slice the emit worker holds
    nals,       \* pictures in the output, in order
    skipped,    \* pictures dropped because their slice overflowed
    pc,         \* API thread: "idle", "bill", "ring", "launch", "retire",
                \* "serial", "decided", "coded", "sibling", "pair", "waitall",
                \* "drain", "gate", "emptied", "done", "failed"
    todo,       \* kinds of the group being coded, "P" or "B", next first
    billing,    \* position in live the billing loop has reached
    tight,      \* rcp_vbv_tight: the group is coded serially, on exact sizes
    tries,      \* codings of the picture in e->rbsp; beyond MaxTries, the loop is over
    flushing,   \* "no", then "popping", "popped" and "tail" in the flush calls
    mark        \* NALs out when the current flush call began

ledger == <<rcp, acct, anchorSeq, anchorHist, seq, lost>>
vars == <<cfg, rcp, acct, seq, anchorSeq, anchorHist, lost, live, w2, nals, skipped,
          pc, todo, billing, tight, tries, flushing, mark>>

None == 0
Wide == cfg.lag > 0             \* stair_wide_rc_ok, on a ring that is able to widen
IsWarm == seq < cfg.warm

-----------------------------------------------------------------------------
(* The ledger. *)

\* An entry; priced: for the coding whose size is to fill it; outgrown: a retry
\* of its picture did not fit the RBSP buffer.
Decided(n) == [seq |-> n, filled |-> FALSE, dropped |-> FALSE, src |-> None,
               tight |-> cfg.vbv /\ tight, priced |-> TRUE, outgrown |-> FALSE]
Size(p) == [src |-> p, dropped |-> FALSE]
Drop(p) == [src |-> p, dropped |-> TRUE]

\* rcp_pop_bound.
PopBound(newest, hist) == IF cfg.lag = 0 THEN newest ELSE hist[cfg.lag]

\* What rcp_pop_ready retires of q: the longest prefix that has its sizes and
\* lies behind the bound, in the warm-up or in a tight group.
PopReady(q, bound) ==
    LET ready(p) == p.filled /\ (p.seq < bound \/ p.seq <= cfg.warm \/ p.tight)
    IN  CHOOSE n \in 0 .. Len(q) :
            /\ \A i \in 1 .. n : ready(q[i])
            /\ n < Len(q) => ~ready(q[n + 1])

\* What rcp_commit_filled retires of q: every leading entry that has its size.
CommitFilled(q) ==
    CHOOSE n \in 0 .. Len(q) :
        /\ \A i \in 1 .. n : q[i].filled
        /\ n < Len(q) => ~q[n + 1].filled

\* rcp_fill and rcp_drop, one after another: the i-th result goes to the i-th
\* entry that has none.  Retiring in between takes only filled entries away.
Fill(q, results) ==
    LET rank(j) == Cardinality({i \in 1 .. j : ~q[i].filled})
    IN  [j \in DOMAIN q |->
            IF ~q[j].filled /\ rank(j) <= Len(results)
            THEN [q[j] EXCEPT !.filled = TRUE, !.src = results[rank(j)].src,
                              !.dropped = results[rank(j)].dropped]
            ELSE q[j]]

Retire(q, n) ==
    /\ rcp' = SubSeq(q, n + 1, Len(q))
    /\ acct' = acct \o SubSeq(q, 1, n)

Record(results) ==
    LET q == Fill(rcp, results)
    IN  /\ Retire(q, PopReady(q, PopBound(anchorSeq, anchorHist)))
        /\ UNCHANGED <<seq, anchorSeq, anchorHist, lost>>

\* rcp_decide of the next picture: an anchor's first retires all it can when
\* there is no lag.
Push(kind) ==
    LET zero == IF kind = "P" /\ cfg.lag = 0 THEN CommitFilled(rcp) ELSE 0
        rest == SubSeq(rcp, zero + 1, Len(rcp))
        fits == Len(rest) < cfg.rcpMax
        q == IF fits THEN Append(rest, Decided(seq + 1)) ELSE rest
        newest == IF kind = "P" THEN seq + 1 ELSE anchorSeq
        hist == IF kind = "P" THEN <<anchorSeq>> \o SubSeq(anchorHist, 1, cfg.ring - 1)
                              ELSE anchorHist
        n == PopReady(q, PopBound(newest, hist))
    IN  /\ seq' = seq + 1
        /\ anchorSeq' = newest
        /\ anchorHist' = hist
        /\ rcp' = SubSeq(q, n + 1, Len(q))
        /\ acct' = acct \o SubSeq(rcp, 1, zero) \o SubSeq(q, 1, n)
        /\ lost' = IF fits THEN lost ELSE lost \cup {seq + 1}

-----------------------------------------------------------------------------
(* The emit worker: at most one slice in flight (w2_emit_task). *)

NoSlice == [pic |-> None, done |-> FALSE, ok |-> TRUE]
Outcomes == IF cfg.faults THEN BOOLEAN ELSE {TRUE}

SliceWritten ==
    /\ w2.pic # None /\ ~w2.done
    /\ \E ok \in Outcomes : w2' = [w2 EXCEPT !.done = TRUE, !.ok = ok]
    /\ UNCHANGED <<cfg, ledger, live, nals, skipped, pc, todo, billing, tight, tries, flushing, mark>>

\* Mutant: an overflow leaves its entry open.
W2DrainForgets ==
    /\ w2.done
    /\ w2' = NoSlice
    /\ nals' = IF w2.ok THEN Append(nals, w2.pic) ELSE nals
    /\ skipped' = IF w2.ok THEN skipped ELSE skipped \cup {w2.pic}
    /\ Record(IF w2.ok THEN <<Size(w2.pic)>> ELSE <<>>)
    /\ UNCHANGED <<cfg, live, pc, todo, billing, tight, tries, flushing, mark>>

\* w2_drain, once the worker is done with the slice.  An overflow has no NAL
\* but its entry is still closed.
W2Drain ==
    /\ w2.done
    /\ w2' = NoSlice
    /\ nals' = IF w2.ok THEN Append(nals, w2.pic) ELSE nals
    /\ skipped' = IF w2.ok THEN skipped ELSE skipped \cup {w2.pic}
    /\ Record(IF w2.ok THEN <<Size(w2.pic)>> ELSE <<Drop(w2.pic)>>)
    /\ UNCHANGED <<cfg, live, pc, todo, billing, tight, tries, flushing, mark>>

-----------------------------------------------------------------------------
(* The threads of a burst. *)

Failed(b) == b.err \/ b.runner = "overflow"

RunnerDone(i) ==
    /\ live[i].runner = "run"
    /\ \E ok \in Outcomes :
           live' = [live EXCEPT ![i].runner = IF ok THEN "sized" ELSE "overflow"]
    /\ UNCHANGED <<cfg, ledger, w2, nals, skipped, pc, todo, billing, tight, tries, flushing, mark>>

\* Phase 1 of stair_chain: the next B of the plan is prepared, and decided.
ChainDecides(i) ==
    /\ live[i].phase = "prep" /\ Len(live[i].bs) < live[i].nb
    /\ Push("B")
    /\ live' = [live EXCEPT ![i].bs = Append(@, seq + 1)]
    /\ UNCHANGED <<cfg, w2, nals, skipped, pc, todo, billing, tight, tries, flushing, mark>>

\* stair_serial_fire, when every B of the burst is prepared.
ChainFires(i) ==
    /\ live[i].phase = "prep" /\ Len(live[i].bs) = live[i].nb
    /\ live' = [live EXCEPT ![i].phase = "encode"]
    /\ UNCHANGED <<cfg, ledger, w2, nals, skipped, pc, todo, billing, tight, tries, flushing, mark>>

\* The chain has joined the runner and ends; a leaf may have failed, and a
\* prepare that bails ends it without an encode.
ChainEnds(i) ==
    /\ live[i].phase = "encode" \/ (cfg.faults /\ live[i].phase = "prep")
    /\ live[i].runner # "run"
    /\ \E ok \in IF live[i].phase = "prep" THEN {FALSE} ELSE Outcomes :
           live' = [live EXCEPT ![i].phase = "done", ![i].err = ~ok]
    /\ UNCHANGED <<cfg, ledger, w2, nals, skipped, pc, todo, billing, tight, tries, flushing, mark>>

-----------------------------------------------------------------------------
(* The API thread: a serial group, through emit_frame_w2 and code_b_pair. *)

Repeat(kind, n) == [i \in 1 .. n |-> kind]
Pictures(kinds) == Len(kinds) + Cardinality({i \in DOMAIN kinds : kinds[i] = "pair"})

\* A group coded off the staircase: an anchor and its B pictures one by one,
\* the same with two sibling leaves side by side, or a run of P pictures (the
\* buffered pictures an IDR closes off).
SerialGroups ==
    {<<"P">> \o Repeat("B", n) : n \in 0 .. cfg.maxB}
    \cup {Repeat("P", n) : n \in 1 .. cfg.maxB}
    \cup (IF cfg.maxB >= 3 THEN {<<"P", "B", "pair">>} ELSE {})

\* off == 0 in a flush call: nothing has been returned by it yet.
NothingOut == Len(nals) = mark
MayStart == pc = "idle" /\ (flushing = "no" \/ (flushing = "popping" /\ NothingOut))
Preparing == {i \in DOMAIN live : live[i].phase = "prep"}

\* The bound of the model: there is room for a group of n pictures after those
\* the newest chain has still to decide.
Room(n) ==
    seq + (IF live = <<>> THEN 0 ELSE Last(live).nb - Len(Last(live).bs)) + n <= cfg.nPics

DrainAllFrom == IF Len(live) > 1 THEN "waitall" ELSE "drain"

\* A shape that does not pipeline, or any under a VBV: stair_drain_all comes
\* first.
StartSerial(group) ==
    /\ MayStart
    /\ Room(Pictures(group))
    /\ todo' = group
    /\ pc' = DrainAllFrom
    /\ UNCHANGED <<cfg, ledger, live, w2, nals, skipped, billing, tight, tries, flushing, mark>>

Closing(group) == Len(group) > 1 /\ group[2] = "P"
Plain(group) == Len(group) > 1 /\ "P" \notin Range(Tail(group)) /\ "pair" \notin Range(group)

\* Mutant: the gate does not flush the emit worker.
GateInFlight ==
    /\ pc = "gate"
    /\ \E hold \in IF IsWarm \/ Closing(todo) THEN {TRUE} ELSE BOOLEAN :
           /\ tight' = hold
           /\ pc' \in {"serial"} \cup (IF ~hold /\ Plain(todo) THEN {"bill"} ELSE {})
    /\ billing' = 1
    /\ Retire(rcp, CommitFilled(rcp))
    /\ UNCHANGED <<cfg, seq, anchorSeq, anchorHist, lost, live, w2, nals, skipped, todo,
                   tries, flushing, mark>>

\* The burst gate of an anchor, with nothing in flight any more: tight while
\* warm and before an IDR (which closes off its P pictures), else as the buffer
\* is predicted to do.  A group let through may still be coded serially.
Gate ==
    /\ pc = "gate" /\ w2.pic = None
    /\ \E hold \in IF IsWarm \/ Closing(todo) THEN {TRUE} ELSE BOOLEAN :
           /\ tight' = hold
           /\ pc' \in {"serial"} \cup (IF ~hold /\ Plain(todo) THEN {"bill"} ELSE {})
    /\ billing' = 1
    /\ Retire(rcp, CommitFilled(rcp))
    /\ UNCHANGED <<cfg, seq, anchorSeq, anchorHist, lost, live, w2, nals, skipped, todo,
                   tries, flushing, mark>>

\* vbv_bounded_now: the picture takes emit_frame's serial body.
Bounded == cfg.vbv /\ tight

\* rc_waits.
RcWaits(kind) == IsWarm \/ (kind = "P" /\ cfg.lag = 0)

\* Where fpipe_ready says no, two leaves are coded one by one.
Unpair ==
    /\ pc = "serial" /\ Head(todo) = "pair" /\ (IsWarm \/ Bounded)
    /\ todo' = <<"B", "B">> \o Tail(todo)
    /\ UNCHANGED <<cfg, ledger, live, w2, nals, skipped, pc, billing, tight, tries, flushing, mark>>

EmitDecide ==
    /\ pc = "serial" /\ Head(todo) # "pair"
    /\ RcWaits(Head(todo)) /\ ~Bounded => w2.pic = None
    /\ Push(Head(todo))
    /\ pc' = IF Bounded THEN "coded" ELSE "decided"
    /\ tries' = IF Bounded THEN 1 ELSE 0
    /\ UNCHANGED <<cfg, live, w2, nals, skipped, todo, billing, tight, flushing, mark>>

NextInGroup ==
    /\ todo' = Tail(todo)
    /\ pc' = IF Len(todo) = 1 THEN "idle" ELSE "serial"

EmitSubmit ==
    /\ pc = "decided" /\ w2.pic = None
    /\ w2' = [NoSlice EXCEPT !.pic = seq]
    /\ NextInGroup
    /\ UNCHANGED <<cfg, ledger, live, nals, skipped, billing, tight, tries, flushing, mark>>

\* Mutant: the entry keeps the price of the first coding.
RepricedNever(q) == q

\* rcp_reqp: the newest entry, if its size is not in.
Repriced(q) ==
    IF q = <<>> \/ Last(q).filled THEN q
    ELSE [q EXCEPT ![Len(q)].priced = TRUE]

\* The entry of the picture at hand, which has another coding than its price.
Recoded(q) ==
    [j \in DOMAIN q |-> IF q[j].seq = seq THEN [q[j] EXCEPT !.priced = FALSE] ELSE q[j]]

Outgrown(q) ==
    [j \in DOMAIN q |-> IF q[j].seq = seq THEN [q[j] EXCEPT !.outgrown = TRUE] ELSE q[j]]

\* The measured size does not fit: the picture is coded again at a higher QP,
\* over the bytes of the last coding, MaxTries times.
MaxTries == 4
Retry ==
    /\ pc = "coded" /\ tries <= MaxTries
    /\ tries' = tries + 1
    /\ rcp' = Repriced(Recoded(rcp))
    /\ UNCHANGED <<cfg, acct, seq, anchorSeq, anchorHist, lost, live, w2, nals, skipped, pc,
                   todo, billing, tight, flushing, mark>>

\* A retry whose slice does not fit the RBSP buffer ends the loop.  The entry is
\* priced for it by then; the size that goes in is that of the coding before.
RetryOverflows ==
    /\ pc = "coded" /\ tries <= MaxTries /\ cfg.faults
    /\ tries' = MaxTries + 1
    /\ rcp' = Outgrown(Recoded(Repriced(rcp)))
    /\ UNCHANGED <<cfg, acct, seq, anchorSeq, anchorHist, lost, live, w2, nals, skipped, pc,
                   todo, billing, tight, flushing, mark>>

\* The end of emit_frame's serial body: the NAL at once, then the size.
EmitBounded ==
    /\ pc = "coded"
    /\ nals' = Append(nals, seq)
    /\ Record(<<Size(seq)>>)
    /\ NextInGroup
    /\ tries' = 0
    /\ UNCHANGED <<cfg, live, w2, skipped, billing, tight, flushing, mark>>

\* There an overflow of the first coding is an error of the call.
BoundedOverflows ==
    /\ pc = "coded" /\ tries = 1 /\ cfg.faults
    /\ pc' = "failed"
    /\ UNCHANGED <<cfg, ledger, live, w2, nals, skipped, todo, billing, tight, tries,
                   flushing, mark>>

\* code_b_pair: both leaves are decided before either is coded.
PairDecide ==
    /\ \/ /\ pc = "serial" /\ Head(todo) = "pair" /\ ~IsWarm /\ ~Bounded
          /\ pc' = "sibling"
       \/ pc = "sibling" /\ pc' = "pair"
    /\ Push("B")
    /\ UNCHANGED <<cfg, live, w2, nals, skipped, todo, billing, tight, tries, flushing, mark>>

PairAppend ==
    /\ pc = "pair" /\ w2.pic = None
    /\ nals' = nals \o <<seq - 1, seq>>
    /\ Record(<<Size(seq - 1), Size(seq)>>)
    /\ NextInGroup
    /\ UNCHANGED <<cfg, live, w2, skipped, billing, tight, tries, flushing, mark>>

-----------------------------------------------------------------------------
(* The API thread: launching a burst (stair_run_burst). *)

\* A pipelining anchor waits for the newest burst's prepares (stair_serial_wait)
\* before anything else.
StartBurst(n) ==
    /\ MayStart /\ ~IsWarm /\ ~cfg.vbv
    /\ live # <<>> => Last(live).phase # "prep"
    /\ Room(1 + n)
    /\ todo' = <<"P">> \o Repeat("B", n)
    /\ pc' = "bill"
    /\ billing' = 1
    /\ UNCHANGED <<cfg, ledger, live, w2, nals, skipped, tight, tries, flushing, mark>>

\* The billing loop, oldest first, leaves the cfg.lag newest bursts alone.
ToBill == pc = "bill" /\ billing <= Len(live) - cfg.lag
NeedsBill == ToBill /\ ~live[billing].billed

SkipBilled ==
    /\ ToBill /\ ~NeedsBill
    /\ billing' = billing + 1
    /\ UNCHANGED <<cfg, ledger, live, w2, nals, skipped, pc, todo, tight, tries, flushing, mark>>

\* Mutant: the early billing writes the NAL as well.
BillAnchorEmits ==
    /\ NeedsBill
    /\ live[billing].runner = "sized" /\ ~live[billing].err /\ w2.pic = None
    /\ Record(<<Size(live[billing].anchor)>>)
    /\ nals' = Append(nals, live[billing].anchor)
    /\ live' = [live EXCEPT ![billing].billed = TRUE]
    /\ billing' = billing + 1
    /\ UNCHANGED <<cfg, w2, skipped, pc, todo, tight, tries, flushing, mark>>

\* stair_drain_anchor: the size is final when the runner is done.
BillAnchor ==
    /\ NeedsBill
    /\ live[billing].runner = "sized" /\ ~live[billing].err /\ w2.pic = None
    /\ Record(<<Size(live[billing].anchor)>>)
    /\ live' = [live EXCEPT ![billing].billed = TRUE]
    /\ billing' = billing + 1
    /\ UNCHANGED <<cfg, w2, nals, skipped, pc, todo, tight, tries, flushing, mark>>

Billed ==
    /\ pc = "bill" /\ ~ToBill
    /\ pc' = "ring"
    /\ UNCHANGED <<cfg, ledger, live, w2, nals, skipped, todo, billing, tight, tries, flushing, mark>>

\* Mutant: a launch never makes room.
LedgerTightNever == FALSE

\* Room for the whole mini-GOP in the ledger, and a slot in a wide ring.
LedgerTight == live # <<>> /\ Len(rcp) + Len(todo) > cfg.rcpMax
RingFull == LedgerTight \/ (Wide /\ Len(live) >= cfg.ring)

Launch ==
    /\ pc = "ring" /\ ~RingFull
    /\ ~Wide => w2.pic = None
    /\ Push("P")
    /\ live' = Append(live, [anchor |-> seq + 1, nb |-> Len(todo) - 1, bs |-> <<>>,
                             billed |-> FALSE, phase |-> "armed", runner |-> "run",
                             err |-> FALSE])
    /\ pc' = "retire"
    /\ UNCHANGED <<cfg, w2, nals, skipped, todo, billing, tight, tries, flushing, mark>>

\* A narrow ring retires the predecessor now, before the chain is submitted.
RetireFirst == pc = "retire" /\ ~Wide /\ Len(live) > 1

SubmitChain ==
    /\ pc = "retire" /\ ~RetireFirst
    /\ live' = [live EXCEPT ![Len(live)].phase = "prep"]
    /\ todo' = <<>>
    /\ pc' = "idle"
    /\ UNCHANGED <<cfg, ledger, w2, nals, skipped, billing, tight, tries, flushing, mark>>

-----------------------------------------------------------------------------
(* The API thread: retiring bursts, and the flush. *)

\* Mutant: a drain does not wait for the prepares of newer chains.
WaitNobody ==
    /\ pc = "waitall"
    /\ pc' = "drain"
    /\ UNCHANGED <<cfg, ledger, live, w2, nals, skipped, todo, billing, tight, tries, flushing, mark>>

\* stair_drain_all: with more than one burst in flight every chain must be past
\* its prepares first (stair_serial_wait_all).
WaitAll ==
    /\ pc = "waitall" /\ Preparing = {}
    /\ pc' = "drain"
    /\ UNCHANGED <<cfg, ledger, live, w2, nals, skipped, todo, billing, tight, tries, flushing, mark>>

Drains ==
    /\ live # <<>>
    /\ \/ pc = "drain"
       \/ pc = "ring" /\ RingFull
       \/ RetireFirst

\* Mutant: an anchor billed early is billed again.
SizesAgain(b) == <<Size(b.anchor)>> \o [j \in DOMAIN b.bs |-> Size(b.bs[j])]

\* What a burst adds to the ledger at its drain.
Sizes(b) ==
    (IF b.billed THEN <<>> ELSE <<Size(b.anchor)>>)
    \o [j \in DOMAIN b.bs |-> Size(b.bs[j])]

\* stair_drain of the oldest burst, once its driver is done: the anchor's NAL,
\* then the stashed ones.
DrainOldest ==
    /\ Drains
    /\ live[1].phase = "done" /\ ~Failed(live[1]) /\ w2.pic = None
    /\ nals' = nals \o <<live[1].anchor>> \o live[1].bs
    /\ Record(Sizes(live[1]))
    /\ live' = Tail(live)
    /\ UNCHANGED <<cfg, w2, skipped, pc, todo, billing, tight, tries, flushing, mark>>

Drained ==
    /\ pc = "drain" /\ live = <<>>
    /\ pc' = IF todo = <<>> THEN "emptied" ELSE IF cfg.vbv THEN "gate" ELSE "serial"
    /\ UNCHANGED <<cfg, ledger, live, w2, nals, skipped, todo, billing, tight, tries, flushing, mark>>

\* A failed burst ends the encode at the drain or the billing that meets it.
Fail ==
    /\ \/ Drains /\ live[1].phase = "done" /\ Failed(live[1])
       \/ NeedsBill /\ live[billing].runner # "run" /\ Failed(live[billing])
    /\ pc' = "failed"
    /\ UNCHANGED <<cfg, ledger, live, w2, nals, skipped, todo, billing, tight, tries, flushing, mark>>

\* A flush call: buffered pictures are coded while nothing has come out, then
\* the bursts in flight are retired.
FlushBegin ==
    /\ pc = "idle" /\ flushing = "no"
    /\ flushing' = "popping"
    /\ mark' = Len(nals)
    /\ UNCHANGED <<cfg, ledger, live, w2, nals, skipped, pc, todo, billing, tight, tries>>

FlushTail ==
    /\ pc = "idle" /\ flushing # "no"
    /\ pc' = IF NothingOut THEN DrainAllFrom ELSE "emptied"
    /\ flushing' = IF NothingOut /\ flushing = "popping" THEN "popped" ELSE flushing
    /\ UNCHANGED <<cfg, ledger, live, w2, nals, skipped, todo, billing, tight, tries, mark>>

\* The B pictures left without an anchor are coded as P pictures, behind no gate
\* (flush_buffered_p).
CodeTail(n) ==
    /\ pc = "emptied" /\ flushing = "popped" /\ NothingOut
    /\ Room(n)
    /\ todo' = Repeat("P", n)
    /\ pc' = "serial"
    /\ flushing' = "tail"
    /\ UNCHANGED <<cfg, ledger, live, w2, nals, skipped, billing, tight, tries, mark>>

\* Mutant: the mark of a flush call is not renewed.
FlushEndStale ==
    /\ pc = "emptied" /\ w2.pic = None
    /\ IF NothingOut
       THEN /\ Retire(rcp, CommitFilled(rcp))
            /\ pc' = "done"
            /\ UNCHANGED <<seq, anchorSeq, anchorHist, lost>>
       ELSE pc' = "idle" /\ UNCHANGED ledger
    /\ UNCHANGED <<cfg, live, w2, nals, skipped, todo, billing, tight, tries, flushing, mark>>

\* The end of a flush call: only the call that returned nothing commits.
FlushEnd ==
    /\ pc = "emptied" /\ w2.pic = None
    /\ IF NothingOut
       THEN /\ Retire(rcp, CommitFilled(rcp))
            /\ pc' = "done"
            /\ UNCHANGED <<seq, anchorSeq, anchorHist, lost, mark>>
       ELSE /\ pc' = "idle"
            /\ mark' = Len(nals)
            /\ UNCHANGED ledger
    /\ UNCHANGED <<cfg, live, w2, nals, skipped, todo, billing, tight, tries, flushing>>

-----------------------------------------------------------------------------
\* Where the API thread waits for the emit worker.
W2Wanted ==
    \/ pc = "serial" /\ Head(todo) # "pair" /\ RcWaits(Head(todo)) /\ ~Bounded
    \/ pc \in {"decided", "pair", "gate", "emptied"}
    \/ NeedsBill /\ live[billing].runner = "sized" /\ ~live[billing].err
    \/ pc = "ring" /\ ~RingFull /\ ~Wide
    \/ Drains /\ live[1].phase = "done" /\ ~Failed(live[1])

Api ==
    \/ \E g \in SerialGroups : StartSerial(g)
    \/ \E n \in 1 .. cfg.maxB : StartBurst(n)
    \/ W2Wanted /\ W2Drain
    \/ Gate \/ Unpair \/ EmitDecide \/ EmitSubmit \/ PairDecide \/ PairAppend
    \/ Retry \/ RetryOverflows \/ EmitBounded \/ BoundedOverflows
    \/ \E n \in 1 .. cfg.maxB : CodeTail(n)
    \/ SkipBilled \/ BillAnchor \/ Billed \/ Launch \/ SubmitChain
    \/ WaitAll \/ DrainOldest \/ Drained \/ Fail
    \/ FlushBegin \/ FlushTail \/ FlushEnd

Chain(i) == ChainDecides(i) \/ ChainFires(i) \/ ChainEnds(i)

Over == pc \in {"done", "failed"} /\ UNCHANGED vars

Next ==
    \/ Api
    \/ \E i \in DOMAIN live : Chain(i) \/ RunnerDone(i)
    \/ SliceWritten
    \/ Over

Init ==
    /\ cfg \in Settings
    /\ rcp = <<>> /\ acct = <<>> /\ seq = 0 /\ lost = {}
    /\ anchorSeq = 0 /\ anchorHist = [k \in 1 .. cfg.ring |-> 0]
    /\ live = <<>> /\ w2 = NoSlice /\ nals = <<>> /\ skipped = {}
    /\ pc = "idle" /\ todo = <<>> /\ billing = 1
    /\ tight = TRUE /\ tries = 0 /\ flushing = "no" /\ mark = 0

Spec == Init /\ [][Next]_vars

\* Some thread of each kind keeps running while one is able to; the caller keeps
\* calling once it has begun to flush.
FairSpec ==
    /\ Spec
    /\ WF_vars(Api /\ (flushing # "no" \/ pc # "idle"))
    /\ WF_vars(\E i \in DOMAIN live : Chain(i))
    /\ WF_vars(\E i \in DOMAIN live : RunnerDone(i))
    /\ WF_vars(SliceWritten)

-----------------------------------------------------------------------------
(* Properties. *)

\* No decide finds the ledger full: rcp_decide would leave its picture out in
\* silence and every later size would land one entry late.
NoPushLost == lost = {}

\* The ledger has no lock.  While a chain prepares and decides its pictures
\* nobody else touches it: not the API thread, not another chain.
OneLedgerWriter ==
    [][ledger' # ledger /\ Preparing # {} =>
          \E i \in Preparing :
              /\ Preparing = {i}
              /\ i \in DOMAIN live' /\ live'[i].bs # live[i].bs]_vars

\* The output is in coding order and leaves out only what overflowed: a
\* decoder that meets an anchor before the previous mini-GOP's Bs invents
\* frames for the gap in frame_num.
NalsInCodingOrder ==
    \A j \in DOMAIN nals :
        LET before == IF j = 1 THEN 0 ELSE nals[j - 1]
        IN  /\ nals[j] > before
            /\ before + 1 .. nals[j] - 1 \subseteq skipped

Closed == acct \o rcp

\* No picture's size is billed twice, by the early billing of its anchor and
\* again by its drain, and an encode that ends has accounted every decide.
SizedExactlyOnce ==
    /\ \A i, j \in DOMAIN Closed :
           Closed[i].src # None /\ Closed[i].src = Closed[j].src => i = j
    /\ pc = "done" => rcp = <<>> /\ Len(acct) = seq
                      /\ {acct[j].src : j \in DOMAIN acct} = 1 .. seq

\* rate.c says of rcp_fill "coding order == push order": the size that fills an
\* entry is that of the picture the entry was pushed for.  The entry is priced for
\* the coding it is the size of, but for the picture whose retry outgrew the RBSP
\* buffer: that one keeps the size of the coding before the failed one, and the
\* price of the failed one (encoder.c:11496).
FillsOwnEntry ==
    \A j \in DOMAIN Closed :
        Closed[j].filled => /\ Closed[j].src = Closed[j].seq
                            /\ Closed[j].priced \/ Closed[j].outgrown

\* With no lag an anchor is billed only when everything before it is: there the
\* size that fills an entry is always its own picture's.
SizesAreOwn == cfg.lag = 0 => FillsOwnEntry

\* The gate reads the exact buffer: every picture decided before it is accounted
\* (rate.c:1384).  So does the bound on a measured size: when a picture of a
\* tight group is coded, the ledger holds its own entry only (encoder.c:11448).
ExactBuffer ==
    [][/\ pc = "gate" /\ pc' # pc => rcp' = <<>> /\ Len(acct') = seq
       /\ pc' = "coded" => Len(rcp') = 1 /\ Len(acct') = seq' - 1 /\ live = <<>>]_vars

\* A flush comes to an end, whatever is in flight when it begins.
FlushEnds == flushing # "no" ~> pc \in {"done", "failed"}

=============================================================================
