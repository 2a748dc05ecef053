--------------------------------- MODULE Dpb ---------------------------------
(* The references of src/src/encoder/encoder.c in coding order: the decoded *)
(* picture buffer of the B pyramid (dpb_*, set_b_refs, code_b_hier), the      *)
(* anchor ring of the flat path (refring_push), the lists built from them     *)
(* (build_list0) and the frame numbers that name their entries, against two  *)
(* decoders: one that has the whole stream and one that joins at an open key. *)
(*                                                                           *)
(* A picture is its display number, which orders pictures of one coded video  *)
(* sequence as their POC does (an IDR empties the buffer). Planes, half-pel   *)
(* planes and motion travel with the entry. Macroblock coding, weighted       *)
(* duplicates of an entry and the bound of --intra-refresh are left out.      *)
EXTENDS Naturals, Integers, FiniteSets, Sequences

CONSTANTS
    NPics,      \* pictures of the encode, in display order
    MaxFn,      \* MaxFrameNum, 16 or 256 in the code
    Configs,    \* the settings encoder_open resolves, as records (see ConfOK)
    None

ConfOK(k) ==
    /\ k.ref \in 1 .. 16            \* --ref
    /\ k.bframes \in 0 .. 7         \* brun(--bframes)
    /\ k.pyramid \in BOOLEAN /\ (k.pyramid => k.bframes >= 2)
    /\ k.tight \in BOOLEAN          \* no wide staircase: the tight window
    /\ k.open \in BOOLEAN           \* --open-gop
    /\ k.fields \in BOOLEAN         \* field coding
    /\ k.cap \in 1 .. 15            \* what the SPS can declare; 15 in the code
    /\ k.cap >= k.bframes + 2       \* as it is for any run the code takes

ASSUME NPicsAssumption == NPics \in Nat \ {0}
ASSUME ConfigsAssumption == \A k \in Configs : ConfOK(k)

Pics == 0 .. NPics - 1

\* The pictures an action codes.
Pictures ==
    [type : {"I", "P", "B"}, kind : {"idr", "p", "key", "b", "tail"}, isref : BOOLEAN,
     disp : Nat, fn : Nat, pin : Nat \cup {None}, second : BOOLEAN]
ASSUME NoneAssumption == None \notin Nat /\ None \notin Pictures

-----------------------------------------------------------------------------
(* The window (encoder_open).                                                *)

\* stair_plan_nrefb: the B pictures of a run of n that are references.
NRefB[n \in 0 .. 7] ==
    IF n < 2 THEN 0 ELSE 1 + NRefB[n \div 2] + NRefB[n - 1 - (n \div 2)]

\* Mutant: no room for the B references.
BRefsNone(k) == 0
BRefs(k) == IF ~k.pyramid THEN 0 ELSE IF k.tight THEN NRefB[k.bframes] ELSE k.bframes

Needed(k) == k.ref + (IF k.bframes > 0 THEN 1 ELSE 0) + BRefs(k)
             + (IF k.fields THEN 1 ELSE 0)
Over(k) == IF Needed(k) > k.cap THEN Needed(k) - k.cap ELSE 0

\* sps.max_num_ref_frames.
Window(k) == Needed(k) - Over(k)

\* e->nref; the ring shrinks with the window. Mutant: it does not.
NRefAsked(k) == k.ref
NRef(k) == IF k.pyramid \/ Over(k) = 0 THEN k.ref
           ELSE IF k.ref > Over(k) THEN k.ref - Over(k) ELSE 1

ASSUME MaxFnAssumption == MaxFn \in Nat /\ \A k \in Configs : MaxFn > Window(k)

-----------------------------------------------------------------------------
VARIABLES
    conf,       \* the settings
    dpb,        \* e->dpb, the used entries: [disp, fn]
    ring,       \* e->refring, the nref_valid entries, newest first
    nextFn, lastFn,         \* e->next_frame_num, e->last_ref_fn
    anchors,    \* e->prev_anchor_poc and e->prev_anchor_poc2
    rp,         \* e->rp_poc and e->rp_poc_prev
    disp,       \* pictures that have arrived
    pc,         \* "arrive", "tail", "anchor", "b", "end"
    run,        \* the buffered B's and the anchor behind them: [first, n, kind]
    todo,       \* ranges of the run still to be coded
    cur,        \* the picture being coded, or None
    dec,        \* references of a decoder of the whole stream
    cold        \* a decoder that joined at an open key: [key, refs]

encVars == <<dpb, ring, nextFn, lastFn, anchors, rp>>
decVars == <<dec, cold>>
vars == <<conf, encVars, disp, pc, run, todo, cur, decVars>>

NoKey == -1
Entry(p) == [disp |-> p.disp, fn |-> p.fn]

\* The entries of S by decreasing rank.
Ranked(S, rank(_)) ==
    [i \in 1 .. Cardinality(S) |->
        CHOOSE r \in S : Cardinality({q \in S : rank(q) > rank(r)}) = i - 1]

Prefix(s, n) == IF Len(s) <= n THEN s ELSE SubSeq(s, 1, n)
Elements(s) == {s[i] : i \in DOMAIN s}

\* Entry i first, the others in their order; and so for an entry r that the
\* sequence may not hold.
ToFront(s, i) == [j \in 1 .. Len(s) |-> IF j = 1 THEN s[i] ELSE IF j <= i THEN s[j - 1] ELSE s[j]]
Pinned(s, r) == IF \E i \in DOMAIN s : s[i] = r THEN ToFront(s, CHOOSE i \in DOMAIN s : s[i] = r)
                ELSE <<r>> \o s

-----------------------------------------------------------------------------
(* The encoder's lists.                                                      *)

\* rp_bound: no reference of the picture at d may lie before this.
Bound(d) == IF d > rp.last THEN rp.last ELSE rp.prev

\* The candidates of build_list0 in the pyramid.
Candidates(p) ==
    LET kept == {r \in dpb : r.disp >= Bound(p.disp)} IN
    IF kept = {} THEN dpb ELSE kept

\* Frame numbers count down from the current one, modulo MaxFn.
PyramidP(p) ==
    LET byNum == Ranked(Candidates(p), LAMBDA r : -((p.fn - r.fn + MaxFn) % MaxFn))
        pins == {r \in Candidates(p) : r.fn = p.pin}
    IN IF pins = {} THEN byNum ELSE Pinned(byNum, CHOOSE r \in pins : TRUE)

PyramidB(p) == Ranked({r \in Candidates(p) : r.disp < p.disp}, LAMBDA r : r.disp)

\* The ring up to its first entry before the bound, and at least one entry.
RingList(p) ==
    LET old == {i \in DOMAIN ring : i > 1 /\ ring[i].disp < Bound(p.disp)} IN
    IF NRef(conf) = 1 \/ old = {} THEN ring
    ELSE Prefix(ring, (CHOOSE i \in old : \A j \in old : i <= j) - 1)

\* build_list0.
List0(p) ==
    Prefix(IF ~conf.pyramid THEN RingList(p) ELSE IF p.type = "B" THEN PyramidB(p) ELSE PyramidP(p),
           NRef(conf))

\* dpb_find, in S.
Past(S, d) == {r \in S : r.disp < d}
Future(S, d) == {r \in S : r.disp > d}
Latest(S) == CHOOSE r \in S : \A q \in S : q.disp <= r.disp
Earliest(S) == CHOOSE r \in S : \A q \in S : q.disp >= r.disp

-----------------------------------------------------------------------------
(* A decoder (8.2.4 and 8.2.5.3 of the standard).                            *)

FrameNumWrap(fn, now) == IF fn > now THEN fn - MaxFn ELSE fn

\* The sliding window, when picture p is marked.
Marked(S, p) ==
    {Entry(p)} \cup
    IF Cardinality(S) < Window(conf) THEN S
    ELSE S \ {CHOOSE r \in S : \A q \in S : FrameNumWrap(r.fn, p.fn) <= FrameNumWrap(q.fn, p.fn)}

\* The lists of p out of n entries: the default order, and the one command the
\* encoder writes for a P picture.
DecList0(S, p, n) ==
    IF p.type = "B"
    THEN Prefix(Ranked(Past(S, p.disp), LAMBDA r : r.disp)
                \o Ranked(Future(S, p.disp), LAMBDA r : -r.disp), n)
    ELSE LET byNum == Ranked(S, LAMBDA r : FrameNumWrap(r.fn, p.fn))
             pins == {r \in S : r.fn = p.pin}
         IN IF pins = {} THEN Prefix(byNum, n)
            ELSE Prefix(Pinned(Prefix(byNum, n), CHOOSE r \in pins : TRUE), n)
DecList1(S, p) ==
    Ranked(Future(S, p.disp), LAMBDA r : -r.disp) \o Ranked(Past(S, p.disp), LAMBDA r : r.disp)

-----------------------------------------------------------------------------
(* Arrival of a run of B pictures and its anchor (encode_frame_core).        *)

Kinds == IF disp = 0 THEN {"idr"} ELSE {"p", "idr"} \cup (IF conf.open THEN {"key"} ELSE {})

\* A run in order, one picture at a time.
Flat(n) == [i \in 1 .. n |-> <<i - 1, i>>]

Arrive(n, kind) ==
    /\ pc = "arrive" /\ disp + n < NPics
    /\ disp = 0 => n = 0
    /\ run' = [first |-> disp, n |-> n, kind |-> kind]
    /\ disp' = disp + n + 1
    /\ pc' = IF kind = "idr" THEN "tail" ELSE "anchor"
    /\ todo' = IF kind = "idr" THEN Flat(n) ELSE <<>>
    /\ UNCHANGED <<conf, encVars, cur, decVars>>

\* The input ends behind n buffered B pictures.
Flush(n) ==
    /\ pc = "arrive" /\ disp > 0 /\ disp + n <= NPics
    /\ run' = [first |-> disp, n |-> n, kind |-> "none"]
    /\ disp' = disp + n
    /\ pc' = "tail"
    /\ todo' = Flat(n)
    /\ UNCHANGED <<conf, encVars, cur, decVars>>

\* flush_buffered_p: a P picture nobody refers to, of the nearest reference.
TailP ==
    /\ pc = "tail" /\ cur = None /\ todo # <<>>
    /\ LET d == run.first + Head(todo)[1] IN
       cur' = [type |-> "P", kind |-> "tail", isref |-> FALSE, disp |-> d, fn |-> lastFn,
               pin |-> IF conf.pyramid THEN Latest(Past(dpb, d)).fn ELSE None, second |-> FALSE]
    /\ todo' = Tail(todo)
    /\ UNCHANGED <<conf, encVars, disp, pc, run, decVars>>

TailOver ==
    /\ pc = "tail" /\ cur = None /\ todo = <<>>
    /\ pc' = IF run.kind = "none" THEN "end" ELSE "anchor"
    /\ UNCHANGED <<conf, encVars, disp, run, todo, cur, decVars>>

Held(d) == \E r \in dpb : r.disp = d
\* The entry the next P picture's list 0 begins with.
PrevAnchor == CHOOSE r \in dpb : Held(anchors.last) => r.disp = anchors.last

\* The anchor's own part of encode_frame_core, up to its emit_pair. A decoder
\* may join at an open key.
Anchor(joins) ==
    LET d == run.first + run.n
        idr == run.kind = "idr"
    IN
    /\ pc = "anchor" /\ cur = None
    /\ joins => run.kind = "key" /\ cold.key = NoKey
    /\ dpb' = IF idr THEN {} ELSE dpb
    /\ ring' = IF idr THEN <<>> ELSE ring
    /\ nextFn' = IF idr THEN 0 ELSE nextFn
    /\ rp' = CASE idr -> [last |-> NoKey, prev |-> NoKey]
               [] run.kind = "key" -> [last |-> d, prev |-> rp.last]
               [] OTHER -> rp
    /\ cur' = [type |-> IF run.kind = "p" THEN "P" ELSE "I", kind |-> run.kind, isref |-> TRUE,
               disp |-> d, fn |-> nextFn', second |-> FALSE,
               pin |-> IF conf.pyramid /\ ~idr THEN PrevAnchor.fn ELSE None]
    /\ cold' = IF joins THEN [key |-> d, refs |-> {}] ELSE cold
    /\ UNCHANGED <<conf, lastFn, anchors, disp, pc, run, todo, dec>>

-----------------------------------------------------------------------------
(* Coding (emit_pair, dpb_store, code_b_hier).                               *)

\* Mutant: the oldest by the number as it is written.
FnPlain(fn) == fn
\* fn_wrap.
FnWrap(fn) == IF fn > nextFn THEN fn - MaxFn ELSE fn

\* Mutant: the window slides one picture late.
SlidLate == IF Cardinality(dpb) <= Window(conf) THEN dpb
            ELSE dpb \ {CHOOSE r \in dpb : \A q \in dpb : FnWrap(r.fn) <= FnWrap(q.fn)}

\* dpb_slide.
Slid ==
    IF Cardinality(dpb) < Window(conf) THEN dpb
    ELSE dpb \ {CHOOSE r \in dpb : \A q \in dpb : FnWrap(r.fn) <= FnWrap(q.fn)}

\* Mutant: the buffer slides only when the pair is stored.
SlidLater == dpb
SlidBetween == IF cur.isref /\ conf.pyramid /\ cur.kind # "idr" THEN Slid ELSE dpb

\* What the decoders do with a reference picture, or the first field of one.
Decode ==
    IF ~cur.isref THEN UNCHANGED decVars
    ELSE IF cur.kind = "idr"
    THEN dec' = {Entry(cur)} /\ cold' = [key |-> NoKey, refs |-> {}]
    ELSE /\ dec' = Marked(dec, cur)
         /\ cold' = IF cold.key = NoKey THEN cold
                    ELSE [cold EXCEPT !.refs = Marked(cold.refs, cur)]

\* Between the fields of a pair: the second of an intra pair is a P field, but
\* not at an open key.
FirstField ==
    /\ cur # None /\ conf.fields /\ ~cur.second
    /\ cur' = [cur EXCEPT !.second = TRUE,
                          !.type = IF cur.type = "I" /\ cur.kind # "key" THEN "P" ELSE cur.type]
    /\ dpb' = SlidBetween
    /\ Decode
    /\ UNCHANGED <<conf, ring, nextFn, lastFn, anchors, rp, disp, pc, run, todo>>

\* The last field, or the frame: dpb_store of a reference, and for the flat path
\* the count of its anchors.
Coded ==
    /\ cur # None /\ (conf.fields => cur.second)
    /\ IF cur.second THEN UNCHANGED decVars ELSE Decode
    /\ dpb' = IF cur.isref /\ conf.pyramid THEN Slid \cup {Entry(cur)} ELSE dpb
    /\ nextFn' = IF cur.isref THEN (nextFn + 1) % MaxFn ELSE nextFn
    /\ lastFn' = IF cur.isref THEN cur.fn ELSE lastFn
    /\ cur' = None
    /\ IF pc = "anchor"
       THEN /\ anchors' = [last |-> cur.disp,
                           last2 |-> IF cur.kind = "idr" THEN NoKey ELSE anchors.last]
            /\ pc' = "b"
            /\ todo' = IF cur.kind = "idr" \/ run.n = 0 THEN <<>>
                       ELSE IF conf.pyramid THEN << <<0, run.n>> >> ELSE Flat(run.n)
       ELSE UNCHANGED <<anchors, pc, todo>>
    /\ UNCHANGED <<conf, ring, rp, disp, run>>

\* Mutant: the leading pictures of an open key keep their references.
MarksAll(a, b) == conf.pyramid /\ b - a > 1
\* Has children to refer to it, and does not lead an open key.
Marks(a, b) == conf.pyramid /\ b - a > 1 /\ run.kind # "key"

\* One node of code_b_hier, or one B of the flat run.
CodeB ==
    /\ pc = "b" /\ cur = None /\ todo # <<>>
    /\ LET a == Head(todo)[1]
           b == Head(todo)[2]
           m == (a + b) \div 2
       IN
       /\ cur' = [type |-> "B", kind |-> "b", isref |-> Marks(a, b), disp |-> run.first + m,
                  fn |-> IF Marks(a, b) THEN nextFn ELSE lastFn, pin |-> None, second |-> FALSE]
       /\ todo' = (IF a < m THEN << <<a, m>> >> ELSE <<>>)
                   \o (IF m + 1 < b THEN << <<m + 1, b>> >> ELSE <<>>) \o Tail(todo)
    /\ UNCHANGED <<conf, encVars, disp, pc, run, decVars>>

\* refring_push, behind the B pictures of the run.
RunOver ==
    /\ pc = "b" /\ cur = None /\ todo = <<>>
    /\ ring' = IF conf.pyramid THEN ring
               ELSE Prefix(<<[disp |-> anchors.last, fn |-> lastFn]>> \o ring, NRef(conf))
    /\ pc' = "arrive"
    /\ UNCHANGED <<conf, dpb, nextFn, lastFn, anchors, rp, disp, run, todo, cur, decVars>>

Init ==
    /\ conf \in Configs
    /\ dpb = {} /\ ring = <<>> /\ nextFn = 0 /\ lastFn = 0
    /\ anchors = [last |-> NoKey, last2 |-> NoKey] /\ rp = [last |-> NoKey, prev |-> NoKey]
    /\ disp = 0 /\ pc = "arrive" /\ run = [first |-> 0, n |-> 0, kind |-> "none"]
    /\ todo = <<>> /\ cur = None
    /\ dec = {} /\ cold = [key |-> NoKey, refs |-> {}]

Next ==
    \/ \E n \in 0 .. conf.bframes : \E kind \in Kinds : Arrive(n, kind)
    \/ \E n \in 0 .. conf.bframes : Flush(n)
    \/ TailP \/ TailOver
    \/ \E joins \in BOOLEAN : Anchor(joins)
    \/ FirstField \/ Coded \/ CodeB \/ RunOver

Spec == Init /\ [][Next]_vars

-----------------------------------------------------------------------------
\* The list 1 entry of B picture p.
List1(p) == IF conf.pyramid THEN Earliest(Future(dpb, p.disp)).disp ELSE anchors.last

\* Field lists name every entry outright, so what counts is that they are held;
\* the first field of a reference pair is the newest entry of the second.
FieldNames(p) ==
    {r.disp : r \in Elements(List0(p))}
    \cup (IF p.second /\ p.isref THEN {p.disp} ELSE {})
    \cup (IF p.type = "B" THEN {List1(p)} ELSE {})

\* The references the encoder predicts p from are those a decoder that holds S
\* finds under the same indices.
SameReferences(S, p) ==
    IF conf.fields THEN FieldNames(p) \subseteq {r.disp : r \in S}
    ELSE /\ List0(p) = DecList0(S, p, Len(List0(p)))
         /\ p.type = "B" => List1(p) = DecList1(S, p)[1].disp

\* The buffer, the ring and the lists are the decoder's, over runs of any shape,
\* open keys, flushed tails, field pairs and the wrap of the frame number; it never
\* holds more than the SPS announces.
DecoderAgrees ==
    /\ Cardinality(dpb) <= Window(conf)
    /\ cur # None /\ cur.type # "I" => SameReferences(dec, cur)

\* encoder.c:4863 sizes the window for "nref anchors, plus the future anchor for
\* B, plus the pyramid's MARKED reference B's": the anchors around a B picture are
\* held until it is coded, and the anchor before a P picture is.
AnchorsHeld ==
    cur # None /\ ~cur.second =>
        /\ cur.type = "B" => /\ List0(cur) # <<>> /\ List0(cur)[1].disp >= anchors.last2
                             /\ conf.pyramid => Held(anchors.last)
        /\ cur.kind \in {"p", "key"} /\ conf.pyramid => Held(anchors.last)

\* A decoder that joins at an open key finds, for every picture displayed after
\* the key, the same references: the promise of the key's recovery point.
ColdAgrees ==
    cold.key # NoKey /\ cur # None /\ cur.type # "I" =>
        (cur.disp > cold.key => SameReferences(cold.refs, cur))
=============================================================================
