------------------------------- MODULE StairRing -------------------------------
(***************************************************************************)
(* The staircase's ring of bursts in src/src/encoder/encoder.c: what a     *)
(* burst borrows from the bursts before it, and when those things are used *)
(* again.  A burst is an anchor, analysed on its runner and published by   *)
(* its trailer, and a chain that prepares the B pictures behind it and     *)
(* then codes them.  Bursts live in the slots of a ring; a slot lends its  *)
(* two row watermarks (bur[].P, chain[].rprog), the planes its leaves      *)
(* reconstruct into, and its place in launch order.  References live in    *)
(* the entries of the decoded picture buffer; a reconstruction plane       *)
(* travels with its picture, the half-pel and motion planes (here: aux)    *)
(* with the entry or, where there is a pool, with the bag.                 *)
(*                                                                         *)
(* A picture is its display number; 0 is none.  A picture's rows are       *)
(* published at once here: StairRows shows that reading a gated picture's  *)
(* rows is sound as long as the gate is really that picture's watermark.   *)
(* Output and the rate ledger are in RateLedger.                           *)
(***************************************************************************)
EXTENDS Integers, Sequences, SequencesExt, FiniteSetsExt

CONSTANT Settings   \* settings of the encoder: see SettingsAssumption

(***************************************************************************)
(* A setting: ring, Y264_STAIR_K; ref, e->nref; bframes, B pictures of a   *)
(* mini-GOP; cap, the window the SPS can declare (15 in the code, more     *)
(* than a mini-GOP and the anchors around it); wide, stair_wide_e; bdepth, *)
(* a single reference B streams; lag, e->rcp_lag under rate control, NoRcp *)
(* without it; bail, whether a chain's prepare may fail; nGroups, the      *)
(* bound on the encode.                                                    *)
(***************************************************************************)
NoRcp == -1
ASSUME SettingsAssumption ==
    \A c \in Settings :
        /\ c.ring \in Nat \ {0, 1} /\ c.ref \in Nat \ {0} /\ c.bframes \in 2 .. 7
        /\ c.cap \in Nat /\ c.cap > c.bframes + 1
        /\ c.wide \in BOOLEAN /\ c.bdepth \in BOOLEAN
        /\ c.lag \in {NoRcp} \cup 0 .. c.ring - 1 /\ (c.wide => c.lag # 0)
        /\ c.bail \in BOOLEAN /\ c.nGroups \in Nat \ {0}

VARIABLES
    cfg,        \* the setting
    api,        \* API thread: "idle", "bill", "ring", "prep", "begin",
                \* "retire", "rescue", "dangling", "drainall", "flush", "end", "failed"
    group,      \* groups coded or being coded
    nbuf,       \* B pictures buffered in front of the coming anchor
    slot,       \* st->cur
    seq,        \* st->seq: launches made
    bur,        \* the slots: see Burst
    prepped,    \* what the launch captured: [refs, gates]
    prog,       \* each slot's anchor watermark: [pic, full]
    rprog,      \* each slot's reference-B watermark
    dpb,        \* e->dpb: [used, pic, fn, plane, aux]
    nextFn,     \* next_frame_num
    last,       \* prev_anchor_poc
    rec,        \* e->rec: the plane the next anchor is written to
    leaf,       \* each slot's leaf planes, by place in the coding plan
    free, pend, \* the bag pool: dpbp_free and dpbp_pend
    planeOf, auxOf, \* the picture a buffer holds, or is being filled with
    final       \* the pictures that are published whole

buffers == <<dpb, nextFn, rec, leaf, free, pend, planeOf, auxOf>>
marks == <<prog, rprog>>
vars == <<cfg, api, group, nbuf, slot, seq, bur, prepped, marks, buffers, last, final>>

-----------------------------------------------------------------------------
(* Sizes and the coding plan.                                              *)

\* stair_plan_hier: the B pictures a .. b - 1 of a run in coding order.
Plan[a \in 0 .. 7] ==
    [b \in 0 .. 7 |->
        IF a >= b THEN <<>>
        ELSE LET m == (a + b) \div 2
             IN  <<[m |-> m, ref |-> m > a \/ m + 1 < b]>> \o Plan[a][m] \o Plan[m + 1][b]]

NRefB(n) == Cardinality({i \in DOMAIN Plan[0][n] : Plan[0][n][i].ref})  \* stair_plan_nrefb

\* Mutant: the tight window in a wide encode.
WindowTight == Min({cfg.ref + 1 + NRefB(cfg.bframes), cfg.cap})
\* sps.max_num_ref_frames: a wide ring keeps the loose window.
Window == Min({cfg.ref + 1 + (IF cfg.wide THEN cfg.bframes ELSE NRefB(cfg.bframes)), cfg.cap})

DpbSize == Window + 1
PoolSize == IF cfg.wide THEN cfg.ring * (1 + NRefB(cfg.bframes)) ELSE 0  \* dpbp_open

AnchorOf(g) == 8 * g
BOf(g, n, m) == 8 * g - n + m       \* the m-th of n B pictures in front of anchor g

Slots == 0 .. cfg.ring - 1
NextSlot == (slot + 1) % cfg.ring   \* stair_next_slot
NoSlot == -1
NoBuffer == 0

LiveSlots == {s \in Slots : bur[s].live}
\* The newest and the oldest live burst (st->fly, stair_oldest).
Fly == IF bur[slot].live THEN slot ELSE NoSlot
Oldest == CHOOSE s \in LiveSlots : \A t \in LiveSlots : bur[s].seq <= bur[t].seq

-----------------------------------------------------------------------------
(* Reference lists and what a picture borrows.                             *)

Used == {d \in DOMAIN dpb : dpb[d].used}
Borrow(d) == [pic |-> dpb[d].pic, plane |-> dpb[d].plane, aux |-> dpb[d].aux]
First(S, n, rank(_)) == {d \in S : Cardinality({x \in S : rank(x) > rank(d)}) < n}

\* build_list0 of an anchor: the previous anchor is pinned in front.
AnchorRefs ==
    LET pinned == {d \in Used : dpb[d].pic = last}
        rest == First(Used \ pinned, cfg.ref - Cardinality(pinned), LAMBDA d : dpb[d].fn)
    IN  {Borrow(d) : d \in pinned \cup rest}

\* stair_prep_b: list 0 of a B picture, and the nearest picture after it.
Past(p) == First({d \in Used : dpb[d].pic < p}, cfg.ref, LAMBDA d : dpb[d].pic)
Future(p) ==
    CHOOSE d \in Used : /\ dpb[d].pic > p
                        /\ \A x \in Used : dpb[x].pic > p => dpb[d].pic <= dpb[x].pic
BRefs(p) == {Borrow(d) : d \in Past(p) \cup {Future(p)}}

-----------------------------------------------------------------------------
(* Retiring a reference's buffers.                                         *)

\* Mutant: a bag parked at a launch goes when that launch is the oldest.
LetGoEarly(x) == \A s \in LiveSlots : x.seq <= bur[s].seq
\* dpbp_sweep: a parked bag is free again when every live burst is newer.
\* The bags are sets. Of the stack's order this keeps that what is swept lies on
\* top of what was free; within a sweep the order is not followed, the bags being
\* nobody's then.
LetGo(x) == \A s \in LiveSlots : x.seq < bur[s].seq
Swept == free \cup {x \in pend : LetGo(x)}
Parked == {x \in pend : ~LetGo(x)}
PoolServes == Swept # {}
Taken == CHOOSE x \in Swept : \A y \in Swept : y.seq <= x.seq

\* dpb_slide and the choice of an entry.
Victim == CHOOSE d \in Used : \A x \in Used : dpb[d].fn <= dpb[x].fn
Slid == IF Cardinality(Used) >= Window THEN [dpb EXCEPT ![Victim].used = FALSE] ELSE dpb
Handout ==
    LET unused == {d \in DOMAIN Slid : ~Slid[d].used}
    IN  IF unused = {} THEN 1 ELSE Min(unused)

ReadSet(s) == {r.plane : r \in bur[s].refs \cup UNION {x.refs : x \in ToSet(bur[s].bs)}}

Synced(s) == bur[s].phase = "ended" /\ bur[s].anchor = "done"
\* stair_slot_readers_wait: s is older and reads the entry handed out.
ReadersDone(s, before) ==
    s \in LiveSlots /\ bur[s].seq < before /\ dpb[Handout].plane \in ReadSet(s) => Synced(s)

\* What becomes the write target in exchange for the plane that moves in, and
\* the half-pel and motion planes the incoming picture fills.
NextTarget == IF PoolServes THEN Taken.plane ELSE dpb[Handout].plane
TargetAux == IF PoolServes THEN Taken.aux ELSE dpb[Handout].aux

\* The slide, the entry and dpbp_recycle or the swap behind its readers:
\* stair_dpb_begin and stair_dpb_commit_begin, for the picture p in plane,
\* launched before the burst numbered before.
Enter(p, plane, before) ==
    LET d == Handout
    IN  /\ ~PoolServes => \A s \in Slots : ReadersDone(s, before)
        /\ dpb' = [Slid EXCEPT ![d] = [used |-> TRUE, pic |-> p, fn |-> nextFn,
                                       plane |-> plane, aux |-> TargetAux]]
        /\ nextFn' = nextFn + 1
        /\ free' = IF PoolServes THEN Swept \ {Taken} ELSE Swept
        /\ pend' = IF PoolServes
                   THEN Parked \cup {[plane |-> dpb[d].plane, aux |-> dpb[d].aux, seq |-> seq]}
                   ELSE Parked

-----------------------------------------------------------------------------
(* The API thread: taking up a group, and retiring bursts.                 *)

Take(n) ==
    /\ api = "idle" /\ group < cfg.nGroups
    /\ group' = group + 1
    /\ nbuf' = n
    /\ UNCHANGED <<cfg, slot, seq, bur, prepped, marks, buffers, last, final>>

\* A pipelining anchor waits for the newest chain's prepares (stair_serial_wait).
StartBurst(n) ==
    /\ Fly # NoSlot => bur[Fly].fired
    /\ last # 0
    /\ api' = "bill"
    /\ Take(n)

\* A group of another shape, here one anchor, retires everything first.
StartSerial ==
    /\ api' = "drainall"
    /\ Take(0)

\* The billing of anchors under rate control waits for their runners, and
\* with no lag for every one of them (stair_drain_anchor).
ToBill ==
    {s \in LiveSlots : cfg.lag # NoRcp
                       /\ Cardinality({t \in LiveSlots : bur[t].seq > bur[s].seq}) >= cfg.lag}
Bill ==
    /\ api = "bill"
    /\ \A s \in ToBill : bur[s].anchor = "done"
    /\ api' = IF \E s \in ToBill : bur[s].err THEN "failed" ELSE "ring"
    /\ UNCHANGED <<cfg, group, nbuf, slot, seq, bur, prepped, marks, buffers, last, final>>

\* stair_drain of the oldest burst: for a slot of a wide ring, of the
\* predecessor in a narrow one, or of every burst.  A failed burst ends the
\* encode; a narrow launch first runs its own burst to the end.
DrainOldest ==
    /\ LiveSlots # {}
    /\ \/ api = "ring" /\ cfg.wide /\ Cardinality(LiveSlots) >= cfg.ring
       \/ api = "retire" /\ ~cfg.wide /\ Cardinality(LiveSlots) > 1
       \/ api \in {"drainall", "flush", "dangling"}
    /\ Synced(Oldest)
    /\ bur' = [bur EXCEPT ![Oldest].live = FALSE]
    /\ api' = IF ~bur[Oldest].err \/ api = "dangling" THEN api
              ELSE IF api = "retire" THEN "rescue" ELSE "failed"
    /\ UNCHANGED <<cfg, group, nbuf, slot, seq, prepped, marks, buffers, last, final>>

\* An anchor coded with nothing in flight; an IDR empties the buffer
\* (dpb_reset), and dpb_store swaps the planes of the entry it takes.
SerialAnchor(idr) ==
    /\ api = "drainall" /\ LiveSlots = {}
    /\ last = 0 => idr
    /\ LET old == IF idr THEN [d \in DOMAIN dpb |-> [dpb[d] EXCEPT !.used = FALSE]] ELSE Slid
           d == Min({x \in DOMAIN old : ~old[x].used})
       IN  /\ dpb' = [old EXCEPT ![d] = [used |-> TRUE, pic |-> AnchorOf(group),
                                         fn |-> IF idr THEN 0 ELSE nextFn,
                                         plane |-> rec, aux |-> dpb[d].aux]]
           /\ planeOf' = [planeOf EXCEPT ![rec] = AnchorOf(group)]
           /\ auxOf' = [auxOf EXCEPT ![dpb[d].aux] = AnchorOf(group)]
           /\ rec' = dpb[d].plane
    /\ nextFn' = IF idr THEN 1 ELSE nextFn + 1
    /\ last' = AnchorOf(group)
    /\ final' = final \cup {AnchorOf(group)}
    /\ api' = "idle"
    /\ UNCHANGED <<cfg, group, nbuf, slot, seq, bur, prepped, marks, leaf, free, pend>>

-----------------------------------------------------------------------------
(* The API thread: launching a burst (stair_launch).                       *)

PlanOf(s) == Plan[0][bur[s].nbuf]
RefBs(s) == NRefB(bur[s].nbuf)
\* The burst's one reference B streams.
Bdepth(s) == cfg.bdepth /\ RefBs(s) = 1 /\ PlanOf(s)[1].ref
RefB(s) == BOf(bur[s].group, bur[s].nbuf, PlanOf(s)[1].m)

\* stair_refbgate_elig, for the newest burst: its reference B is gated on.
GatesRefB(s) == s = Fly /\ Bdepth(s) /\ cfg.wide /\ cfg.ref >= 2 /\ cfg.lag # 0

\* The colocated motion is still in the newest burst (stair_col_src_get).
ColSource == IF Fly # NoSlot THEN bur[Fly].col ELSE {}
ColIsRefB(s) == s = Fly /\ \E c \in ColSource : c.pic # bur[s].pic

\* The launch waits for the reference B's of the live bursts it may read, and
\* for the end of the burst before the last one (the fold of its counts).
ContentWait ==
    \A s \in LiveSlots :
        RefBs(s) > 0 /\ ((cfg.ref > 1 /\ ~GatesRefB(s)) \/ ColIsRefB(s))
            => bur[s].refbDone >= RefBs(s)
Folded == \A s \in Slots : bur[s].seq = seq - 1 => bur[s].phase = "ended"

Prepare ==
    /\ api = "ring"
    /\ cfg.wide => Cardinality(LiveSlots) < cfg.ring
    /\ ContentWait /\ Folded
    /\ prepped' =
           [refs |-> AnchorRefs \cup ColSource,
            gates |-> IF Fly = NoSlot THEN {}
                      ELSE {[kind |-> "P", slot |-> Fly, pic |-> bur[Fly].pic]}
                           \cup (IF GatesRefB(Fly)
                                 THEN {[kind |-> "R", slot |-> Fly, pic |-> RefB(Fly)]}
                                 ELSE {})]
    /\ planeOf' = [planeOf EXCEPT ![rec] = AnchorOf(group)]
    /\ api' = "begin"
    /\ UNCHANGED <<cfg, group, nbuf, slot, seq, bur, marks, dpb, nextFn, rec, leaf, free, pend,
                   auxOf, last, final>>

\* Whoever still analyses rows behind the watermark that is reset: one slot past
\* the recycled one in a wide ring, the newest burst in a narrow one.
GaterDone ==
    LET s == IF cfg.wide THEN (NextSlot + 1) % cfg.ring ELSE Fly
    IN  s \in LiveSlots => bur[s].anchor # "run"

Begin ==
    /\ api = "begin" /\ GaterDone
    /\ Enter(AnchorOf(group), rec, seq + 1)
    /\ rec' = NextTarget
    /\ auxOf' = [auxOf EXCEPT ![TargetAux] = AnchorOf(group)]
    /\ prog' = [prog EXCEPT ![NextSlot] = [pic |-> AnchorOf(group), full |-> FALSE]]
    /\ bur' = [bur EXCEPT ![NextSlot] =
           [seq |-> seq + 1, live |-> TRUE, group |-> group, pic |-> AnchorOf(group),
            nbuf |-> nbuf, plane |-> rec, refs |-> prepped.refs, gates |-> prepped.gates,
            prevP |-> IF cfg.wide THEN Fly ELSE NoSlot,
            rbOf |-> IF \E x \in prepped.gates : x.kind = "R" THEN Fly ELSE NoSlot,
            rbSeq |-> seq, anchor |-> "run", phase |-> "armed", bs |-> <<>>, coded |-> 0,
            refbDone |-> 0, refb |-> "none", fired |-> FALSE, col |-> {}, err |-> FALSE]]
    /\ slot' = NextSlot /\ seq' = seq + 1 /\ last' = AnchorOf(group)
    /\ prepped' = [refs |-> {}, gates |-> {}]
    /\ api' = "retire"
    /\ UNCHANGED <<cfg, group, nbuf, rprog, leaf, planeOf, final>>

\* stair_chain_arm and the submission of the chain, once a narrow ring has
\* retired the predecessor.
Submit ==
    /\ api \in {"retire", "rescue"}
    /\ api = "retire" => cfg.wide \/ Cardinality(LiveSlots) = 1
    /\ bur' = [bur EXCEPT ![slot].phase = "wait"]
    /\ api' = IF api = "retire" THEN "idle" ELSE "dangling"
    /\ UNCHANGED <<cfg, group, nbuf, slot, seq, prepped, marks, buffers, last, final>>

Flush ==
    /\ api = "idle" /\ group = cfg.nGroups
    /\ api' = "flush"
    /\ UNCHANGED <<cfg, group, nbuf, slot, seq, bur, prepped, marks, buffers, last, final>>

Finish ==
    /\ api \in {"flush", "dangling"} /\ LiveSlots = {}
    /\ api' = IF api = "flush" THEN "end" ELSE "failed"
    /\ UNCHANGED <<cfg, group, nbuf, slot, seq, bur, prepped, marks, buffers, last, final>>

-----------------------------------------------------------------------------
(* The anchor's runner and trailer.                                        *)

\* stair_row_ready down to the last row: the watermark alone is read.
Mark(x) == IF x.kind = "P" THEN prog[x.slot] ELSE rprog[x.slot]
Open(gates) == \A x \in gates : Mark(x).full

Analyze(s) ==
    /\ bur[s].anchor = "run" /\ Open(bur[s].gates)
    /\ bur' = [bur EXCEPT ![s].anchor = "analyzed"]
    /\ UNCHANGED <<cfg, api, group, nbuf, slot, seq, prepped, marks, buffers, last, final>>

\* The trailer's last row, and the emit behind it.
Publish(s) ==
    /\ bur[s].anchor = "analyzed"
    /\ bur' = [bur EXCEPT ![s].anchor = "done"]
    /\ prog' = [prog EXCEPT ![s].full = TRUE]
    /\ final' = final \cup {bur[s].pic}
    /\ UNCHANGED <<cfg, api, group, nbuf, slot, seq, prepped, rprog, buffers, last>>

-----------------------------------------------------------------------------
(* The chain (stair_chain).                                                *)

\* A wide burst's B's read the previous anchor, ungated: it must be whole.
WaitPrev(s) ==
    /\ bur[s].phase = "wait"
    /\ bur[s].prevP # NoSlot => prog[bur[s].prevP].full
    /\ bur' = [bur EXCEPT ![s].phase = "prep"]
    /\ UNCHANGED <<cfg, api, group, nbuf, slot, seq, prepped, marks, buffers, last, final>>

\* The gates of the B picture p: the anchor when it is list 1's, the streaming
\* reference B when either nearest picture is.
GatesOf(s, p) ==
    LET l1 == dpb[Future(p)].pic
        l0 == CHOOSE x \in {dpb[d].pic : d \in Past(p)} :
                  \A d \in Past(p) : dpb[d].pic <= x
        streams == Bdepth(s) /\ bur[s].bs # <<>>
    IN  {[kind |-> "P", slot |-> s, pic |-> bur[s].pic] : x \in {l1} \cap {bur[s].pic}}
        \cup (IF streams
              THEN {[kind |-> "R", slot |-> s, pic |-> x] : x \in {l0, l1} \cap {RefB(s)}}
              ELSE {})

\* Mutant: the watermark is left as the slot's last burst left it.
ArmedLate(s, p) == rprog
Armed(s, p) == IF Bdepth(s) THEN [rprog EXCEPT ![s] = [pic |-> p, full |-> FALSE]] ELSE rprog

\* Phase 1: stair_prep_b of the next B of the plan and, for a reference,
\* stair_dpb_commit_begin; a streaming one's watermark is armed here.
PrepareB(s) ==
    LET i == Len(bur[s].bs) + 1
        en == PlanOf(s)[i]
        p == BOf(bur[s].group, bur[s].nbuf, en.m)
        plane == leaf[s][i]
    IN  /\ bur[s].phase = "prep" /\ i <= Len(PlanOf(s))
        /\ planeOf' = [planeOf EXCEPT ![plane] = p]
        /\ bur' = [bur EXCEPT
               ![s].bs = Append(@, [pic |-> p, plane |-> plane, ref |-> en.ref,
                                    aux |-> IF en.ref THEN TargetAux ELSE NoBuffer,
                                    refs |-> BRefs(p), gates |-> GatesOf(s, p)]),
               ![s].col = {[Borrow(Future(p)) EXCEPT !.plane = NoBuffer]}]
        /\ IF en.ref
           THEN /\ Enter(p, plane, bur[s].seq)
                /\ leaf' = [leaf EXCEPT ![s][i] = NextTarget]
                /\ rprog' = Armed(s, p)
           ELSE UNCHANGED <<dpb, nextFn, leaf, free, pend, rprog>>
        /\ UNCHANGED <<cfg, api, group, nbuf, slot, seq, prepped, prog, rec, auxOf, last, final>>

\* A prepare that fails ends the chain without an encode.
Bail(s) ==
    /\ cfg.bail /\ bur[s].phase = "prep" /\ Len(bur[s].bs) < Len(PlanOf(s))
    /\ bur' = [bur EXCEPT ![s].phase = "join", ![s].err = TRUE]
    /\ UNCHANGED <<cfg, api, group, nbuf, slot, seq, prepped, marks, buffers, last, final>>

\* stair_serial_fire: the next anchor may be launched.
Fire(s) ==
    /\ bur[s].phase = "prep" /\ Len(bur[s].bs) = Len(PlanOf(s))
    /\ bur' = [bur EXCEPT ![s].phase = "gate", ![s].fired = TRUE]
    /\ UNCHANGED <<cfg, api, group, nbuf, slot, seq, prepped, marks, buffers, last, final>>

\* The leaves wait for the reference B the launch gated on, while its slot is
\* still the same burst's.
WaitRefB(s) ==
    LET f == bur[s].rbOf
    IN  /\ bur[s].phase = "gate"
        /\ f # NoSlot => bur[f].seq # bur[s].rbSeq \/ bur[f].refbDone >= RefBs(f)
        /\ bur' = [bur EXCEPT ![s].phase = "code"]
        /\ UNCHANGED <<cfg, api, group, nbuf, slot, seq, prepped, marks, buffers, last, final>>

\* Phase 2: a streaming reference B is launched and fills its entry's planes row
\* by row, every other B is coded to its end; a reference then fills its planes
\* and counts as done.
Fills(x) == auxOf' = IF x.ref THEN [auxOf EXCEPT ![x.aux] = x.pic] ELSE auxOf
NoFill == <<dpb, nextFn, rec, leaf, free, pend, planeOf>>
LaunchRefB(s) ==
    /\ bur[s].phase = "code" /\ bur[s].coded = 0 /\ Bdepth(s)
    /\ bur' = [bur EXCEPT ![s].refb = "run", ![s].coded = 1]
    /\ Fills(bur[s].bs[1])
    /\ UNCHANGED <<cfg, api, group, nbuf, slot, seq, prepped, marks, NoFill, last, final>>

CodeB(s) ==
    LET i == bur[s].coded + 1
    IN  /\ bur[s].phase = "code" /\ i <= Len(bur[s].bs) /\ (i = 1 => ~Bdepth(s))
        /\ Open(bur[s].bs[i].gates)
        /\ bur' = [bur EXCEPT ![s].coded = i,
                              ![s].refbDone = IF bur[s].bs[i].ref THEN @ + 1 ELSE @]
        /\ final' = final \cup {bur[s].bs[i].pic}
        /\ Fills(bur[s].bs[i])
        /\ UNCHANGED <<cfg, api, group, nbuf, slot, seq, prepped, marks, NoFill, last>>

\* The streaming reference B's own runner and trailer.
StreamRefB(s) ==
    /\ bur[s].refb = "run" /\ Open(bur[s].bs[1].gates)
    /\ bur' = [bur EXCEPT ![s].refb = "done", ![s].refbDone = @ + 1]
    /\ rprog' = [rprog EXCEPT ![s].full = TRUE]
    /\ final' = final \cup {bur[s].bs[1].pic}
    /\ UNCHANGED <<cfg, api, group, nbuf, slot, seq, prepped, prog, buffers, last>>

AllCoded(s) == bur[s].phase = "code" /\ bur[s].coded = Len(bur[s].bs)

\* Mutant: a chain's end does not count the reference B's it never coded.
EndSilent(s) ==
    /\ AllCoded(s) \/ bur[s].phase = "join"
    /\ bur[s].anchor = "done" /\ bur[s].refb # "run"
    /\ bur' = [bur EXCEPT ![s].phase = "ended", ![s].fired = TRUE,
                          ![s].col = IF cfg.wide THEN @ ELSE {}]
    /\ UNCHANGED <<cfg, api, group, nbuf, slot, seq, prepped, marks, buffers, last, final>>

\* stair_join_compute and the chain's end: everyone who waits for this chain is
\* let go, whether or not it did what they wait for.
End(s) ==
    /\ AllCoded(s) \/ bur[s].phase = "join"
    /\ bur[s].anchor = "done" /\ bur[s].refb # "run"
    /\ bur' = [bur EXCEPT ![s].phase = "ended", ![s].fired = TRUE,
                          ![s].refbDone = RefBs(s),
                          ![s].col = IF cfg.wide THEN @ ELSE {}]
    /\ rprog' = IF Bdepth(s) THEN [rprog EXCEPT ![s].full = TRUE] ELSE rprog
    /\ UNCHANGED <<cfg, api, group, nbuf, slot, seq, prepped, prog, buffers, last, final>>

-----------------------------------------------------------------------------
Api ==
    \/ \E n \in 1 .. cfg.bframes : StartBurst(n)
    \/ StartSerial \/ Bill \/ DrainOldest \/ \E idr \in BOOLEAN : SerialAnchor(idr)
    \/ Prepare \/ Begin \/ Submit \/ Flush \/ Finish

Chain(s) ==
    \/ WaitPrev(s) \/ PrepareB(s) \/ Fire(s) \/ WaitRefB(s)
    \/ LaunchRefB(s) \/ CodeB(s) \/ End(s)

Anchor(s) == Analyze(s) \/ Publish(s)

Next ==
    \/ Api
    \/ \E s \in Slots : Chain(s) \/ Bail(s) \/ Anchor(s) \/ StreamRefB(s)

Idle == [seq |-> 0, live |-> FALSE, group |-> 0, pic |-> 0, nbuf |-> 0, plane |-> NoBuffer,
         refs |-> {}, gates |-> {}, prevP |-> NoSlot, rbOf |-> NoSlot, rbSeq |-> 0,
         anchor |-> "done", phase |-> "ended", bs |-> <<>>, coded |-> 0, refbDone |-> 0,
         refb |-> "none", fired |-> TRUE, col |-> {}, err |-> FALSE]

NLeaf == cfg.bframes
PoolBag(i) == DpbSize + 1 + cfg.ring * NLeaf + i    \* its plane
Planes == 1 .. PoolBag(PoolSize)
Auxes == 1 .. DpbSize + PoolSize

Init ==
    /\ cfg \in Settings
    /\ api = "idle" /\ group = 0 /\ nbuf = 0 /\ slot = 0 /\ seq = 0 /\ last = 0
    /\ bur = [s \in Slots |-> Idle]
    /\ prepped = [refs |-> {}, gates |-> {}]
    /\ prog = [s \in Slots |-> [pic |-> 0, full |-> TRUE]]
    /\ rprog = [s \in Slots |-> [pic |-> 0, full |-> TRUE]]
    /\ dpb = [d \in 1 .. DpbSize |->
                 [used |-> FALSE, pic |-> 0, fn |-> 0, plane |-> d, aux |-> d]]
    /\ nextFn = 0 /\ rec = DpbSize + 1
    /\ leaf = [s \in Slots |-> [i \in 1 .. NLeaf |-> DpbSize + 1 + s * NLeaf + i]]
    /\ free = {[plane |-> PoolBag(i), aux |-> DpbSize + i, seq |-> 0] : i \in 1 .. PoolSize}
    /\ pend = {}
    /\ planeOf = [x \in Planes |-> 0] /\ auxOf = [x \in Auxes |-> 0]
    /\ final = {}

Spec == Init /\ [][Next]_vars

MaxRing == Max({c.ring : c \in Settings})

\* The caller keeps calling, and the encoder's threads keep running.
FairSpec ==
    /\ Spec
    /\ WF_vars(Api)
    /\ \A s \in 0 .. MaxRing - 1 :
           /\ WF_vars(s \in Slots /\ Chain(s))
           /\ WF_vars(s \in Slots /\ Anchor(s))
           /\ WF_vars(s \in Slots /\ StreamRefB(s))

-----------------------------------------------------------------------------
(* Properties.                                                             *)

\* The B pictures a burst has still to code: none when its prepare failed.
Pending(s) ==
    {bur[s].bs[i] : i \in {j \in DOMAIN bur[s].bs :
        ~bur[s].err /\ (j > bur[s].coded \/ (j = 1 /\ bur[s].refb = "run"))}}

\* No burst has failed: behind one that has, the pictures are not worth having.
Sound == \A s \in Slots : ~bur[s].err

\* What a live burst still reads, and the planes it gives to the caller when it
\* is drained.
Borrowed(s) ==
    (IF bur[s].anchor = "run" THEN bur[s].refs ELSE {})
    \cup (UNION {x.refs : x \in Pending(s)}) \cup bur[s].col
Own(s) ==
    {[pic |-> bur[s].pic, plane |-> bur[s].plane]}
    \cup {[pic |-> x.pic, plane |-> x.plane] : x \in ToSet(bur[s].bs)}

\* A reference B that no one has begun to code: its planes are to be filled.
Coming(p) ==
    \E s \in LiveSlots : \E i \in DOMAIN bur[s].bs : bur[s].bs[i].pic = p /\ i > bur[s].coded

\* No buffer is written for another picture while a burst in flight reads it or
\* has still to hand it out: half-pel and motion planes stay with an entry where
\* the picture's plane moves on, and a bag is let go by launch order alone.
BuffersKept ==
    Sound =>
        \A s \in LiveSlots :
            /\ \A r \in Borrowed(s) :
                   /\ r.plane # NoBuffer => planeOf[r.plane] = r.pic
                   /\ Coming(r.pic) \/ auxOf[r.aux] = r.pic
            /\ \A o \in Own(s) : planeOf[o.plane] = o.pic

Covered(r, gates) ==
    \/ r.pic \in final
    \/ \E x \in gates : x.pic = r.pic /\ Mark(x).pic = r.pic

\* The B pictures a chain codes now: one, or a pair of leaves.
Coding(s) ==
    {bur[s].bs[i] : i \in {j \in DOMAIN bur[s].bs :
        /\ bur[s].phase = "code"
        /\ \/ j = bur[s].coded + 1
           \/ j = bur[s].coded + 2 /\ ~bur[s].bs[j].ref /\ ~bur[s].bs[j - 1].ref
           \/ j = 1 /\ bur[s].refb = "run"}}

\* A picture that is being coded reads only pictures that are whole, or whose
\* own watermark its rows are gated on: the waits of the launch and of the chain
\* and the two gates leave no reference of a live burst uncovered.
ReadsCovered ==
    Sound =>
        \A s \in LiveSlots :
            /\ bur[s].anchor = "run" => \A r \in bur[s].refs : Covered(r, bur[s].gates)
            /\ \A x \in Coding(s) : \A r \in x.refs : Covered(r, x.gates)

\* A watermark that rows are gated on belongs to the picture the gate was
\* installed for: one left over from the slot's last occupant would be open at
\* once, one reset for the next would never open.
GatesOwn ==
    Sound =>
        \A s \in LiveSlots :
            /\ bur[s].anchor = "run" => \A x \in bur[s].gates : Mark(x).pic = x.pic
            /\ \A x \in Pending(s) : \A y \in x.gates : Mark(y).pic = y.pic

\* Every encode comes to its end with no thread left waiting, also when a chain
\* fails between arming what others wait for and doing it.
RingEnds ==
    <>[](/\ api \in {"end", "failed"}
         /\ \A s \in Slots : Synced(s) /\ bur[s].refb # "run")

=============================================================================
