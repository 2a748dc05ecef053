--------------------------- MODULE LookaheadRing ----------------------------
(* The lookahead of src/src/encoder/encoder.c behind its own thread: the     *)
(* ring of entries (e->la), the chain that analyses and types them           *)
(* (la_chain_step, la_finalize, on the thread of la_th_main), the API thread *)
(* that pads, pushes, pops and walks the window (encode_push,                *)
(* compute_mbtree_wholebuf) and the prefetch thread that prices window       *)
(* entries ahead of the walk (mbt_pre_main, mbt_warm_window).                *)
(*                                                                           *)
(* A picture is the number of its push, which is the number of its chain     *)
(* step. Its pixels, costs and vectors are the picture they belong to; its   *)
(* type is given from the start, the type decision being a function of the   *)
(* input pictures alone. A step is split where another thread can see it     *)
(* half done. The wide staircase, under which the prefetch stands down       *)
(* (mbt_warm_launch), is left out.                                           *)
EXTENDS Naturals, Integers, FiniteSets

CONSTANTS
    N,          \* pictures of the encode
    BFrames,    \* e->bframes, the longest run of B pictures
    LaDepth,    \* e->la_depth, the window of the walk
    LaBuf,      \* e->la_buf, the lead of the ring over the window
    Kinds,      \* type sequences of the encode: functions from 1 .. N
    None

ASSUME NAssumption == N \in Nat
ASSUME NoneAssumption == None \notin Nat
ASSUME BFramesAssumption == BFrames \in Nat
\* The engage gate of the thread in encoder_open.
ASSUME GateAssumption == LaDepth \in Nat /\ LaDepth >= BFrames + 3 /\ LaBuf \in Nat \ {0}

Frames == 1 .. N
LaCap == LaDepth + LaBuf
Slots == 0 .. LaCap - 1
\* Mutant: the ring wraps at the window's size.
SlotOfWindow(s) == s % LaDepth
Slot(s) == s % LaCap

\* An IDR comes first; a run of B pictures is no longer than BFrames.
ASSUME KindsAssumption ==
    \A k \in Kinds :
        /\ k \in [Frames -> {"idr", "anchor", "b"}]
        /\ N > 0 => k[1] = "idr"
        /\ \A s \in 1 .. N - BFrames : \E t \in s .. s + BFrames : k[t] # "b"

NoMemo == [of |-> None, key |-> None, reused |-> FALSE, by |-> None]

VARIABLES
    kind,       \* the type of each picture
    mbtree,     \* mb-tree is on (mbtree_skip is clear)
    ring,       \* e->la: what each slot holds
    pushed, done, popped, exit,     \* struct la_thread
    cpc,        \* chain: "idle", "asleep", "analyse", "finalize", "legs",
                \* "step", "exited"
    apc,        \* API thread: "idle", "padwait", "pad", "push", "popwait",
                \* "popped", "treewait", "join", "walk", "settle", "phaseA",
                \* "launch", "flush", "close", "closela", "closed"
    asleep,     \* the API thread sleeps on cv_done
    flushing,   \* the input has ended
    sources,    \* window entries the walk (or the warm) enumerated
    wpc,        \* prefetch: "none", "posted", "asleep", "scan", "compute", "done"
    warm,       \* what mbt_warm_launch posted: head, pushed and d
    wsources

chainVars == <<done, cpc>>
warmVars == <<wpc, warm, wsources>>
vars == <<kind, mbtree, ring, pushed, done, popped, exit, cpc, apc, asleep, flushing,
          sources, wpc, warm, wsources>>

-----------------------------------------------------------------------------
(* What la_finalize makes of the given types.                                *)

IsAnchor(s) == kind[s] # "b"

\* The B pictures between anchor a and the anchor before it.
BRun(a) == {b \in 1 .. a - 1 : \A t \in b .. a - 1 : ~IsAnchor(t)}

\* The first anchor after s, or None.
NextAnchor(s) ==
    IF \E a \in s + 1 .. N : IsAnchor(a)
    THEN CHOOSE a \in s + 1 .. N : IsAnchor(a) /\ \A t \in s + 1 .. a - 1 : ~IsAnchor(t)
    ELSE None

\* An anchor that predicts from the anchor before it: its finalize fills its
\* own leg and the pair legs of its B run; an IDR's fills none.
Links(a) == kind[a] = "anchor"

\* What an inline chain has written when p pictures are pushed: step s types
\* picture s - 1.
InlineTyped(s, p) == s < p
InlineLegs(s, p) ==
    IF IsAnchor(s) THEN Links(s) /\ s < p
    ELSE NextAnchor(s) # None /\ Links(NextAnchor(s)) /\ NextAnchor(s) < p

\* since_val * 2: the order count restarts at every IDR.
LastIdr(s) == CHOOSE i \in 1 .. s : kind[i] = "idr" /\ \A t \in i + 1 .. s : kind[t] # "idr"
Poc(s) == IF s = None THEN None ELSE 2 * (s - LastIdr(s))

-----------------------------------------------------------------------------
(* The chain thread (la_th_main, la_chain_step).                             *)

\* Mutant: the push wakes nobody.
WakeNobody(pc) == pc
WakeChain(pc) == IF pc = "asleep" THEN "idle" ELSE pc

ChainSleep ==
    /\ cpc = "idle" /\ ~exit /\ done = pushed
    /\ cpc' = "asleep"
    /\ UNCHANGED <<kind, mbtree, ring, pushed, done, popped, exit, apc, asleep, flushing,
                   sources, warmVars>>

\* Pushes not yet processed are abandoned.
ChainExit ==
    /\ cpc = "idle" /\ exit
    /\ cpc' = "exited"
    /\ UNCHANGED <<kind, mbtree, ring, pushed, done, popped, exit, apc, asleep, flushing,
                   sources, warmVars>>

ChainTake ==
    /\ cpc = "idle" /\ ~exit /\ done < pushed
    /\ cpc' = "analyse"
    /\ UNCHANGED <<kind, mbtree, ring, pushed, done, popped, exit, apc, asleep, flushing,
                   sources, warmVars>>

Analyse ==
    /\ cpc = "analyse"
    /\ LET i == Slot(done + 1) IN
       ring' = [ring EXCEPT ![i].lowres = ring[i].plane,
                            ![i].typed = FALSE, ![i].legs = FALSE]
    /\ cpc' = IF done > 0 THEN "finalize" ELSE "step"
    /\ UNCHANGED <<kind, mbtree, pushed, done, popped, exit, apc, asleep, flushing,
                   sources, warmVars>>

\* la_prev_pushed, the picture of the step before, gets its type.
Finalize ==
    /\ cpc = "finalize"
    /\ ring' = [ring EXCEPT ![Slot(done)].typed = TRUE, ![Slot(done)].legs = FALSE]
    /\ cpc' = IF Links(done) THEN "legs" ELSE "step"
    /\ UNCHANGED <<kind, mbtree, pushed, done, popped, exit, apc, asleep, flushing,
                   sources, warmVars>>

\* lowres_anchor_me and lowres_bleg_me, for anchor a.
LegsOf(a) == {Slot(b) : b \in BRun(a) \cup {a}}
WithLegs(a) == [i \in Slots |-> IF i \in LegsOf(a) THEN [ring[i] EXCEPT !.legs = TRUE]
                                                   ELSE ring[i]]

Legs ==
    /\ cpc = "legs"
    /\ ring' = WithLegs(done)
    /\ cpc' = "step"
    /\ UNCHANGED <<kind, mbtree, pushed, done, popped, exit, apc, asleep, flushing,
                   sources, warmVars>>

\* The broadcast on cv_done wakes the API thread and the prefetch.
Step ==
    /\ cpc = "step"
    /\ done' = done + 1
    /\ cpc' = "idle"
    /\ asleep' = FALSE
    /\ wpc' = IF wpc = "asleep" THEN "posted" ELSE wpc
    /\ UNCHANGED <<kind, mbtree, ring, pushed, popped, exit, apc, flushing, sources,
                   warm, wsources>>

-----------------------------------------------------------------------------
(* The API thread.                                                           *)

\* la_th_wait: the need is clamped to what was pushed.
Clamped(need) == IF need > pushed THEN pushed ELSE need
Through(need) == ~asleep /\ done >= Clamped(need)

\* What each wait of the API thread needs.
\* Mutants: short by the reach of a finalize, short by two steps.
PopNeedTyped == popped + 1
TreeNeedTwoShort == popped + LaDepth - 3
PadNeed == pushed + 1 - LaCap
PopNeed == popped + BFrames + 2
TreeNeed == popped + LaDepth - 1

\* The settle lead of the walk, clamped to what was pushed (--threads # 1).
SettleExt ==
    LET more == IF pushed - TreeNeed > LaBuf THEN LaBuf ELSE pushed - TreeNeed IN
    IF more > 0 THEN more ELSE 0

Need(pc) == CASE pc = "padwait" -> PadNeed
              [] pc = "popwait" -> PopNeed
              [] pc = "treewait" -> TreeNeed
              [] pc = "settle" -> TreeNeed + SettleExt
              [] pc = "flush" -> pushed

Waits == {"padwait", "popwait", "treewait", "settle", "flush"}

ApiSleep ==
    /\ apc \in Waits /\ ~asleep /\ done < Clamped(Need(apc))
    /\ asleep' = TRUE
    /\ UNCHANGED <<kind, mbtree, ring, pushed, popped, exit, apc, flushing, sources,
                   chainVars, warmVars>>

BeginPush ==
    /\ apc = "idle" /\ pushed < N /\ ~flushing
    /\ apc' = "padwait"
    /\ UNCHANGED <<kind, mbtree, ring, pushed, popped, exit, asleep, flushing, sources,
                   chainVars, warmVars>>

PadWait ==
    /\ apc = "padwait" /\ Through(PadNeed)
    /\ apc' = "pad"
    /\ UNCHANGED <<kind, mbtree, ring, pushed, popped, exit, asleep, flushing, sources,
                   chainVars, warmVars>>

\* pad_input_to the slot the push will claim.
Pad ==
    /\ apc = "pad"
    /\ ring' = [ring EXCEPT ![Slot(pushed + 1)].plane = pushed + 1]
    /\ apc' = "push"
    /\ UNCHANGED <<kind, mbtree, pushed, popped, exit, asleep, flushing, sources,
                   chainVars, warmVars>>

\* Mutant: the memo of the slot's last picture stays valid.
MemoKept(i) == ring[i].memo
MemoCleared(i) == NoMemo

\* Mutant: full only when there is one entry too many.
FullLate == pushed + 1 - popped > LaCap
Full == pushed + 1 - popped >= LaCap

\* la_push; a full ring then gives up its oldest entry.
Push ==
    /\ apc = "push"
    /\ pushed' = pushed + 1
    /\ ring' = [ring EXCEPT ![Slot(pushed + 1)].memo = MemoCleared(Slot(pushed + 1))]
    /\ cpc' = WakeChain(cpc)
    /\ IF Full
       THEN apc' = "popwait" /\ popped' = popped + 1
       ELSE apc' = "idle" /\ UNCHANGED popped
    /\ UNCHANGED <<kind, mbtree, done, exit, asleep, flushing, sources, warmVars>>

PopWait ==
    /\ apc = "popwait" /\ Through(PopNeed)
    /\ apc' = "popped"
    /\ UNCHANGED <<kind, mbtree, ring, pushed, popped, exit, asleep, flushing, sources,
                   chainVars, warmVars>>

\* la_finalize of an entry no later push will type: the picture before the end
\* of the input, popped by the flush, on this thread.
Tail(s) ==
    IF ring[Slot(s)].typed THEN ring
    ELSE [i \in Slots |->
            IF i = Slot(s) THEN [ring[i] EXCEPT !.typed = TRUE, !.legs = Links(s)]
            ELSE IF Links(s) /\ i \in LegsOf(s) THEN [ring[i] EXCEPT !.legs = TRUE]
            ELSE ring[i]]

\* encode_frame_core: a B picture takes its memo along to the reorder buffer.
Popped ==
    /\ apc = "popped"
    /\ ring' = IF IsAnchor(popped) THEN Tail(popped)
               ELSE [Tail(popped) EXCEPT ![Slot(popped)].memo = NoMemo]
    /\ apc' = IF IsAnchor(popped) /\ mbtree THEN "treewait" ELSE "idle"
    /\ UNCHANGED <<kind, mbtree, pushed, popped, exit, asleep, flushing, sources,
                   chainVars, warmVars>>

TreeWait ==
    /\ apc = "treewait" /\ Through(TreeNeed)
    /\ apc' = "join"
    /\ UNCHANGED <<kind, mbtree, ring, pushed, popped, exit, asleep, flushing, sources,
                   chainVars, warmVars>>

\* Mutant: the walk does not wait for the prefetch.
WarmOverAlways == TRUE
WarmOver == wpc \in {"none", "done"}

\* mbt_warm_join.
Join ==
    /\ apc = "join" /\ WarmOver
    /\ wpc' = IF wpc = "done" THEN "none" ELSE wpc
    /\ apc' = "walk"
    /\ UNCHANGED <<kind, mbtree, ring, pushed, popped, exit, asleep, flushing, sources,
                   chainVars, warm, wsources>>

\* The window entries from lo to hi up to the first that is untyped or an IDR.
Enumerated(lo, hi) ==
    {s \in lo .. hi : \A t \in lo .. s : ring[Slot(t)].typed /\ kind[t] # "idr"}

\* The frontier trim: the leaves past the last anchor in sight are left to a later
\* walk. An encoder told to use one thread, whose pool is its caller's choice,
\* trims at one size of frame only, so either walk may be an encoder's.
Bracketed(S) == {s \in S : IsAnchor(s) \/ NextAnchor(s) \in S}

\* The walk is capped at LaDepth - 2 entries behind the anchor, whatever the lead.
WindowEnd == LET hi == popped + LaDepth - 2 IN IF hi > pushed THEN pushed ELSE hi
Walk ==
    /\ apc = "walk"
    /\ LET seen == Enumerated(popped + 1, WindowEnd)
       IN  sources' = seen \/ sources' = Bracketed(seen)
    /\ apc' = "settle"
    /\ UNCHANGED <<kind, mbtree, ring, pushed, popped, exit, asleep, flushing,
                   chainVars, warmVars>>

Settle ==
    /\ apc = "settle" /\ Through(TreeNeed + SettleExt)
    /\ apc' = "phaseA"
    /\ UNCHANGED <<kind, mbtree, ring, pushed, popped, exit, asleep, flushing, sources,
                   chainVars, warmVars>>

\* The last picture whose legs the walk reads, settled_off entries behind the
\* ring's head (the head is picture popped + 1).
Settled == popped + 1 + LaDepth - 4 - BFrames + SettleExt

\* A memo's key (mbt_pa_past_poc, mbt_pa_fut_poc): the nearest earlier anchor,
\* and the nearest later one among those enumerated.
PastAnchor(s) == CHOOSE a \in 1 .. s - 1 : IsAnchor(a) /\ \A t \in a + 1 .. s - 1 : ~IsAnchor(t)
Future(s, among) == IF NextAnchor(s) \in among THEN NextAnchor(s) ELSE None
Key(s, among) == <<Poc(PastAnchor(s)), Poc(Future(s, among))>>

\* mbt_pa_source: the costs of s, from the legs of the lookahead where they
\* are settled and there, by a search of its own where not.
Priced(s, among, settled, by) ==
    [of |-> s, key |-> Key(s, among), by |-> by,
     reused |-> s <= settled /\ ring[Slot(s)].legs]

Valid(s, among) == LET memo == ring[Slot(s)].memo IN
                   memo # NoMemo /\ memo.key = Key(s, among)

Price(S, among, settled, by) ==
    [i \in Slots |->
        IF \E s \in S : Slot(s) = i
        THEN [ring[i] EXCEPT !.memo =
                 Priced(CHOOSE s \in S : Slot(s) = i, among, settled, by)]
        ELSE ring[i]]

PhaseA ==
    /\ apc = "phaseA"
    /\ ring' = Price({s \in sources : ~Valid(s, sources)}, sources, Settled, "walk")
    /\ sources' = {}
    /\ apc' = "launch"
    /\ UNCHANGED <<kind, mbtree, pushed, popped, exit, asleep, flushing, chainVars, warmVars>>

\* mbt_warm_launch: the next anchor among the entries the chain has typed.
SeenTyped(s) == \A t \in popped + 1 .. s : done >= t + 1 /\ ring[Slot(t)].typed
NextSeen ==
    LET seen == {s \in popped + 1 .. pushed : SeenTyped(s) /\ IsAnchor(s)} IN
    IF seen = {} THEN None ELSE CHOOSE s \in seen : \A t \in seen : s <= t

Launch ==
    /\ apc = "launch"
    /\ wpc' = "posted"
    /\ warm' = [head |-> popped, pushed |-> pushed, anchor |-> NextSeen]
    /\ apc' = "idle"
    /\ UNCHANGED <<kind, mbtree, ring, pushed, popped, exit, asleep, flushing, sources,
                   chainVars, wsources>>

\* A flush call, when the input has ended: one entry, or nothing.
BeginFlush ==
    /\ apc = "idle"
    /\ flushing' = TRUE
    /\ apc' = "flush"
    /\ UNCHANGED <<kind, mbtree, ring, pushed, popped, exit, asleep, sources,
                   chainVars, warmVars>>

FlushPop ==
    /\ apc = "flush" /\ Through(pushed)
    /\ IF popped < pushed
       THEN popped' = popped + 1 /\ apc' = "popped"
       ELSE apc' = "idle" /\ UNCHANGED popped
    /\ UNCHANGED <<kind, mbtree, ring, pushed, exit, asleep, flushing, sources,
                   chainVars, warmVars>>

\* yah264_encoder_close, between any two calls: the prefetch first, then the
\* chain, which abandons what it has not begun.
BeginClose ==
    /\ apc = "idle"
    /\ apc' = "close"
    /\ UNCHANGED <<kind, mbtree, ring, pushed, popped, exit, asleep, flushing, sources,
                   chainVars, warmVars>>

CloseChain ==
    /\ apc = "close" /\ wpc \in {"none", "done"}
    /\ exit' = TRUE
    /\ cpc' = WakeChain(cpc)
    /\ apc' = "closela"
    /\ UNCHANGED <<kind, mbtree, ring, pushed, done, popped, asleep, flushing, sources,
                   warmVars>>

Closed ==
    /\ apc = "closela" /\ cpc = "exited"
    /\ apc' = "closed"
    /\ UNCHANGED <<kind, mbtree, ring, pushed, popped, exit, asleep, flushing, sources,
                   chainVars, warmVars>>

Api ==
    \/ ApiSleep \/ BeginPush \/ PadWait \/ Pad \/ Push \/ PopWait \/ Popped
    \/ TreeWait \/ Join \/ Walk \/ Settle \/ PhaseA \/ Launch
    \/ BeginFlush \/ FlushPop \/ BeginClose \/ CloseChain \/ Closed

-----------------------------------------------------------------------------
(* The prefetch (mbt_pre_main, mbt_warm_window).                             *)

\* Entries of the window the chain will have typed: the last of them.
WarmEnd == warm.pushed - 2
\* The first entry the pops before the join cannot reach.
WarmFirst == warm.head + 1 + BFrames + 2

WarmReturns(cond) == cond /\ wpc' = "done" /\ UNCHANGED wsources

\* la_th_wait_step: the step that types the last entry, plus one.
WarmWait ==
    /\ wpc = "posted"
    /\ \/ WarmReturns(WarmEnd < WarmFirst)
       \/ /\ WarmEnd >= WarmFirst
          /\ wpc' = IF done >= WarmEnd + 1 THEN "scan" ELSE "asleep"
          /\ UNCHANGED wsources
    /\ UNCHANGED <<kind, mbtree, ring, pushed, popped, exit, apc, asleep, flushing, sources,
                   warm, chainVars>>

WarmScan ==
    /\ wpc = "scan"
    /\ \/ WarmReturns(warm.anchor = None \/ warm.anchor > WarmEnd)
       \/ LET last == IF WarmEnd < warm.anchor + LaDepth - 2
                      THEN WarmEnd ELSE warm.anchor + LaDepth - 2 IN
          /\ warm.anchor # None /\ warm.anchor <= WarmEnd
          /\ wsources' = Enumerated(warm.anchor + 1, last)
          /\ wpc' = "compute"
    /\ UNCHANGED <<kind, mbtree, ring, pushed, popped, exit, apc, asleep, flushing, sources,
                   warm, chainVars>>

\* The legs the warm may read, and the bound the next walk will have: a source
\* the two would price differently is left to the walk.
WarmSettled == WarmEnd - 1 - BFrames
NextSettled == warm.anchor + LaDepth - 4 - BFrames
WarmLimitOwn == WarmEnd
WarmLimit == IF WarmSettled < NextSettled THEN WarmSettled ELSE NextSettled

WarmNeeds ==
    {s \in wsources : WarmFirst <= s /\ s <= WarmLimit /\ ~Valid(s, wsources)}

WarmCompute ==
    /\ wpc = "compute"
    /\ ring' = Price(WarmNeeds, wsources, WarmSettled, "warm")
    /\ wpc' = "done"
    /\ wsources' = {}
    /\ UNCHANGED <<kind, mbtree, pushed, popped, exit, apc, asleep, flushing, sources,
                   warm, chainVars>>

-----------------------------------------------------------------------------
Init ==
    /\ kind \in Kinds /\ mbtree \in BOOLEAN
    /\ ring = [i \in Slots |-> [plane |-> None, lowres |-> None, typed |-> FALSE,
                                legs |-> FALSE, memo |-> NoMemo]]
    /\ pushed = 0 /\ done = 0 /\ popped = 0
    /\ exit = FALSE /\ asleep = FALSE /\ flushing = FALSE
    /\ cpc = "idle" /\ apc = "idle" /\ wpc = "none"
    /\ warm = [head |-> 0, pushed |-> 0, anchor |-> None]
    /\ sources = {} /\ wsources = {}

Chain == ChainSleep \/ ChainExit \/ ChainTake \/ Analyse \/ Finalize \/ Legs \/ Step
Warm == WarmWait \/ WarmScan \/ WarmCompute
Next == Api \/ Chain \/ Warm
Spec == Init /\ [][Next]_vars

\* Three threads the system schedules; the application makes its next call, the
\* flush or the close, when it likes.
FairSpec ==
    /\ Spec
    /\ WF_vars(Chain) /\ WF_vars(Warm)
    /\ WF_vars(Api /\ apc # "idle")

-----------------------------------------------------------------------------
\* The slots whose type fields, and whose legs, the chain's step in progress
\* may be writing.
TypeWrites == (IF cpc = "analyse" THEN {Slot(done + 1)} ELSE {})
              \cup (IF cpc = "finalize" THEN {Slot(done)} ELSE {})
LegWrites == TypeWrites \cup (IF cpc = "legs" THEN LegsOf(done) ELSE {})
SlotsOf(S) == {Slot(s) : s \in S}

\* What an entry holds is what an inline chain would have left there.
SameTypes(s) == LET en == ring[Slot(s)] IN
                en.lowres = s /\ en.typed = InlineTyped(s, pushed)
SameLegs(s) == ring[Slot(s)].legs = InlineLegs(s, pushed)

\* The pad wait: a slot is padded only when the chain has read the picture it
\* held, so every analysis reads the pixels of its own picture, whole.
PlanesAreOwn ==
    /\ apc = "pad" => pushed + 1 - LaCap <= done
    /\ cpc = "analyse" => ring[Slot(done + 1)].plane = done + 1

\* The pop wait: a popped entry is final, types and legs, as the inline chain
\* would show it (the flush's last picture is still to be typed), and no later
\* step of the chain writes it.
PopIsFinal ==
    apc = "popped" =>
        /\ SameTypes(popped) /\ (popped < pushed => SameLegs(popped))
        /\ Slot(popped) \notin LegWrites

\* The window walk: every entry within its cap is typed as the inline chain
\* would have it, the legs it reads are final, and no running step of the chain
\* writes any of them.
WalkIsSettled ==
    /\ apc = "walk" =>
         \A s \in popped + 1 .. WindowEnd :
             SameTypes(s) /\ Slot(s) \notin TypeWrites
    /\ apc = "phaseA" =>
         \A s \in sources :
             /\ Slot(s) \notin TypeWrites
             /\ s <= Settled => SameLegs(s) /\ Slot(s) \notin LegWrites

\* The prefetch: the entries it holds across the pushes, pops and chain steps
\* that run beside it are still its own, typed, and not being written; neither
\* thread writes a memo the other one may use.
WarmIsSettled ==
    /\ wpc = "scan" /\ warm.anchor # None =>
         \A s \in warm.anchor .. WarmEnd :
             ring[Slot(s)].lowres = s /\ ring[Slot(s)].typed /\ Slot(s) \notin TypeWrites
    /\ wpc = "compute" =>
         /\ \A s \in wsources \cup {warm.anchor} :
                ring[Slot(s)].lowres = s /\ Slot(s) \notin TypeWrites
         /\ \A s \in WarmNeeds : Slot(s) \notin LegWrites
         /\ apc \in {"pad", "push"} => Slot(pushed + 1) \notin SlotsOf(wsources)
         /\ apc = "popped" => popped \notin wsources
         /\ apc \notin {"walk", "settle", "phaseA", "launch"}

\* Whatever the walk and the prefetch read across the chain's steps is final.
SettledWhenRead == WalkIsSettled /\ WarmIsSettled

\* A memo that hits was priced for this picture, and a prefetched one holds what
\* the walk would have computed: the prefetch moves no bits.
PrefetchIsWalk ==
    apc = "phaseA" =>
        \A s \in sources : Valid(s, sources) =>
            LET memo == ring[Slot(s)].memo IN
            /\ memo.of = s
            /\ memo.by = "warm" => memo = Priced(s, sources, Settled, "warm")

\* Every call returns: no wait is for a step that does not come.
CallsReturn == apc # "idle" ~> apc \in {"idle", "closed"}

=============================================================================
