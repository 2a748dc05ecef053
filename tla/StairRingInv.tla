---------------------------- MODULE StairRingInv ----------------------------
(***************************************************************************)
(* The inductive invariants of the staircase's ring, each part a fact the  *)
(* chains of a burst and the caller rely on:                               *)
(*   IInv  where the live slots are and what a gate is on (GatesOwn);      *)
(*   RInv  what the buffer holds and what a burst reads (ReadsCovered);    *)
(*   WInv  who owns which plane, and how many bags are parked, and         *)
(*   LInv  what a live burst has borrowed (BuffersKept), for the rings the *)
(*         pool serves.                                                    *)
(***************************************************************************)
EXTENDS StairRing

-----------------------------------------------------------------------------
(* The inductive invariant. *)

Apis == {"idle", "bill", "ring", "begin", "retire", "rescue", "dangling", "drainall",
         "flush", "end", "failed"}
Phases == {"armed", "wait", "prep", "gate", "code", "join", "ended"}

BurstIs(b) ==
  /\ b = [seq |-> b.seq, live |-> b.live, group |-> b.group, pic |-> b.pic, nbuf |-> b.nbuf,
          plane |-> b.plane, refs |-> b.refs, gates |-> b.gates, prevP |-> b.prevP,
          rbOf |-> b.rbOf, rbSeq |-> b.rbSeq, anchor |-> b.anchor, phase |-> b.phase,
          bs |-> b.bs, coded |-> b.coded, refbDone |-> b.refbDone, refb |-> b.refb,
          fired |-> b.fired, col |-> b.col, err |-> b.err]
  /\ b.seq \in Nat /\ b.nbuf \in 0 .. 7 /\ b.group \in Nat
  /\ b.live \in BOOLEAN /\ b.fired \in BOOLEAN /\ b.err \in BOOLEAN
  /\ b.anchor \in {"run", "analyzed", "done"} /\ b.phase \in Phases
  /\ b.bs = [i \in 1 .. Len(b.bs) |-> b.bs[i]] /\ Len(b.bs) \in Nat

MarkIs(x) == x = [pic |-> x.pic, full |-> x.full]

TypeInv ==
  /\ cfg \in Settings /\ api \in Apis /\ group \in Nat /\ nbuf \in 0 .. 7
  /\ slot \in Slots /\ seq \in Nat
  /\ bur = [s \in Slots |-> bur[s]] /\ \A s \in Slots : BurstIs(bur[s])
  /\ prog = [s \in Slots |-> prog[s]] /\ \A s \in Slots : MarkIs(prog[s])
  /\ rprog = [s \in Slots |-> rprog[s]] /\ \A s \in Slots : MarkIs(rprog[s])

\* The slot behind s, and how many launches ago s was taken.
After(s) == IF s = cfg.ring - 1 THEN 0 ELSE s + 1
Ago(s)   == IF s <= slot THEN slot - s ELSE slot - s + cfg.ring

\* The live slots are the newest ones, in launch order; in a narrow ring the
\* newest, and its predecessor until the launch has retired it.
PlaceInv ==
  /\ \A s \in Slots :
       /\ (Ago(s) < seq => bur[s].seq = seq - Ago(s))
       /\ (Ago(s) >= seq => bur[s].seq = 0 /\ ~bur[s].live)
       /\ (bur[s].live => \A t \in Slots : Ago(t) < Ago(s) => bur[t].live)
       /\ (~cfg.wide /\ bur[s].live => s = slot \/ (api = "retire" /\ Ago(s) = 1))

\* A gate of a B picture of slot s.
OwnGate(s, y) ==
  /\ y.kind \in {"P", "R"} /\ y.slot = s
  /\ (y.kind = "P" => y.pic = bur[s].pic)
  /\ (y.kind = "R" => Bdepth(s) /\ y.pic = RefB(s))

\* A burst that has fired has prepared its plan, or failed; the first B armed the
\* watermark of a streaming one.
BurstOf(s) ==
  LET b == bur[s] IN
  /\ prog[s].pic = b.pic
  /\ (~b.live => b.phase = "ended" /\ b.anchor = "done")
  /\ (b.fired => b.phase \in {"gate", "code", "ended"})
  /\ (b.phase \in {"gate", "code"} => b.fired)
  /\ (b.phase = "join" => b.err)
  /\ (b.fired => b.err \/ Len(b.bs) = Len(PlanOf(s)))
  /\ (Bdepth(s) /\ Len(b.bs) > 0 => rprog[s].pic = RefB(s))
  /\ \A i \in 1 .. Len(b.bs) : \A y \in b.bs[i].gates : OwnGate(s, y)
BurstInv == \A s \in Slots : BurstOf(s)

\* A gate on slot g, of an anchor in the slot behind it: its picture is still in g,
\* and a reference B's watermark is armed for good.
GateOn(g, x) ==
  /\ x.kind \in {"P", "R"} /\ x.slot = g
  /\ (x.kind = "P" => prog[g].pic = x.pic)
  /\ (x.kind = "R" => bur[g].fired /\ (bur[g].err \/ rprog[g].pic = x.pic))
GateInv ==
  \A g \in Slots :
    bur[After(g)].anchor = "run" => \A x \in bur[After(g)].gates : GateOn(g, x)

ApiInv ==
  /\ (api \in {"bill", "ring", "begin"} /\ bur[slot].live => bur[slot].fired)
  /\ (api = "begin" => /\ ~bur[After(slot)].live
                       /\ \A x \in prepped.gates : GateOn(slot, x))
  /\ (api \in {"retire", "rescue"} => bur[slot].live /\ bur[slot].phase = "armed")

IInv == TypeInv /\ PlaceInv /\ BurstInv /\ GateInv /\ ApiInv

-----------------------------------------------------------------------------
(* What a burst reads: the invariant of ReadsCovered.                       *)

\* The reference B's prepared so far, and the pictures that are a burst's own.
Marked(s)    == {i \in 1 .. Len(bur[s].bs) : bur[s].bs[i].ref}
Count(s)     == Cardinality(Marked(s))
OwnRef(s, p) == \E i \in Marked(s) : bur[s].bs[i].pic = p
OwnPic(s, p) == p = bur[s].pic \/ OwnRef(s, p)

\* The reference B's that are coded to their ends.
Streaming(s, i) == i = 1 /\ bur[s].refb = "run"
Landed(s) == {i \in 1 .. bur[s].coded : bur[s].bs[i].ref /\ ~Streaming(s, i)}

\* Where a chain stands, and what is final behind it.
ChainOf(s) ==
  LET b == bur[s] IN
  /\ (b.seq > 0 => /\ b.pic = AnchorOf(b.group) /\ b.group >= 1 /\ b.nbuf \in 1 .. cfg.bframes)
  /\ Len(b.bs) <= Len(PlanOf(s))
  /\ (\A i \in 1 .. Len(b.bs) : /\ b.bs[i].pic = BOf(b.group, b.nbuf, PlanOf(s)[i].m)
                                /\ b.bs[i].ref = PlanOf(s)[i].ref)
  /\ b.coded \in 0 .. Len(b.bs) /\ b.refbDone \in Nat
  /\ (b.err => b.phase \in {"join", "ended"})
  /\ (b.phase \in {"armed", "wait"} => Len(b.bs) = 0)
  /\ (b.phase \in {"armed", "wait", "prep", "gate"} => b.coded = 0 /\ b.refb = "none")
  /\ (b.refb = "run" => b.phase = "code" /\ b.coded >= 1 /\ Bdepth(s))
  /\ (b.phase = "ended" /\ ~b.err => b.coded = Len(b.bs))
  /\ (b.anchor = "done" /\ b.seq > 0 => b.pic \in final)
  /\ (prog[s].full => b.anchor = "done")
  /\ (\A i \in 1 .. b.coded : Streaming(s, i) \/ b.bs[i].pic \in final)
  /\ (b.phase # "ended" => b.refbDone <= Cardinality(Landed(s)))
ChainInv == \A s \in Slots : ChainOf(s)

\* Launch order is display order; only the newest chain may have prepares left, and
\* one that has begun them finds every anchor before its own published.
OrderInv ==
  /\ last \in Nat /\ last <= 8 * group
  /\ (api \in {"bill", "ring", "begin", "drainall"} => last <= 8 * (group - 1))
  /\ (bur[slot].live => last = bur[slot].pic)
  /\ \A s \in Slots :
       /\ (bur[s].seq > 0 => bur[s].pic <= last)
       /\ (bur[s].live /\ s # slot => bur[s].fired)
       /\ \A t \in Slots : Ago(s) < Ago(t) =>
            /\ (bur[s].seq > 0 /\ bur[t].seq > 0 => bur[t].group < bur[s].group)
            /\ (bur[s].phase \notin {"armed", "wait"} => bur[t].anchor = "done")
            /\ (s = slot /\ bur[t].live =>
                  /\ (cfg.wide /\ Ago(t) = 1 => bur[s].prevP = t)
                  /\ (~cfg.wide => bur[s].phase = "armed"))

\* A burst has a mini-GOP to code.
CallInv == api \in {"bill", "ring", "begin"} => group >= 1 /\ nbuf \in 1 .. cfg.bframes

\* Behind a burst that failed and was drained, nothing is launched any more.
ErrInv == \A s \in Slots : bur[s].err /\ ~bur[s].live => api \in {"rescue", "dangling", "failed"}

EntryIs(x) == /\ x = [used |-> x.used, pic |-> x.pic, fn |-> x.fn, plane |-> x.plane, aux |-> x.aux]
              /\ x.used \in BOOLEAN /\ x.pic \in Nat /\ x.fn \in Nat

\* The buffer is a window on what was entered last.
WindowInv ==
  /\ nextFn \in Nat
  /\ dpb = [d \in 1 .. DpbSize |-> dpb[d]] /\ \A d \in 1 .. DpbSize : EntryIs(dpb[d])
  /\ Cardinality(Used) <= Window
  /\ \A d \in Used : /\ dpb[d].fn < nextFn /\ dpb[d].pic <= last
                     /\ \A x \in Used : dpb[x].fn = dpb[d].fn => x = d

\* A reference is whole or of a burst in flight; what is not before the newest
\* group is the newest burst's own.
MemberInv ==
  /\ Sound => \A d \in Used : \/ dpb[d].pic \in final
                              \/ \E s \in LiveSlots : OwnPic(s, dpb[d].pic)
  /\ bur[slot].live => \A d \in Used : \/ dpb[d].pic <= 8 * (bur[slot].group - 1)
                                       \/ OwnPic(slot, dpb[d].pic)

\* p is in the buffer, entered among the last n.
Among(p, n) == \E d \in Used : dpb[d].pic = p /\ dpb[d].fn >= nextFn - n

\* The newest burst's references stay, and the anchor in front of it as long as
\* the window is wide enough for what came since.
StaysOf(s) ==
  /\ Among(bur[s].pic, 1 + Count(s))
  /\ \A i \in Marked(s) : Among(bur[s].bs[i].pic, Count(s))
  /\ \A t \in Slots :
       Ago(t) = 1 /\ bur[t].live /\ 2 + Count(t) + Count(s) <= Window
         => Among(bur[t].pic, 2 + Count(t) + Count(s))
StayInv == \A s \in LiveSlots : s = slot => StaysOf(s)

\* A reference B that a launch did not wait for is gated on.
GatedRefB(p, gates) == \E x \in gates : x.kind = "R" /\ x.pic = p
LaunchInv ==
  Sound /\ cfg.ref > 1 =>
    \A s, t \in LiveSlots : Ago(s) < Ago(t) =>
      \A i \in Marked(t) : bur[t].bs[i].pic \in final \/ GatedRefB(bur[t].bs[i].pic, bur[s].gates)

\* Such a reference B stays in its slot until it is final, which the leaves wait for.
HoldsRefB(f, p) == bur[f].live /\ bur[f].fired /\ Bdepth(f) /\ p = RefB(f)
GateRInv ==
  Sound =>
    \A s \in LiveSlots : \A x \in bur[s].gates : x.kind = "R" =>
      \/ x.pic \in final
      \/ /\ x.slot \in Slots /\ bur[s].rbOf = x.slot /\ bur[x.slot].seq = bur[s].rbSeq
         /\ HoldsRefB(x.slot, x.pic) /\ bur[s].phase \notin {"code", "ended"}

FinalOrGated(r, gates) == r.pic \in final \/ \E x \in gates : x.pic = r.pic
AnchorInv ==
  Sound => \A s \in LiveSlots :
    bur[s].anchor = "run" => \A r \in bur[s].refs : FinalOrGated(r, bur[s].gates)

\* The same of a launch that is prepared.
PreppedOk ==
  /\ \A x \in prepped.gates : x.kind = "R" => x.slot = slot /\ HoldsRefB(slot, x.pic)
  /\ Sound => \A r \in prepped.refs : FinalOrGated(r, prepped.gates)
  /\ Sound /\ cfg.ref > 1 =>
       \A t \in LiveSlots : \A i \in Marked(t) :
         bur[t].bs[i].pic \in final \/ GatedRefB(bur[t].bs[i].pic, prepped.gates)
PreppedInv == api = "begin" => PreppedOk

\* What a B picture reads: what is whole, its anchor, behind a gate, a reference B
\* before it in the plan, gated if it streams, or one that the launch gated on.
BRefOk(s, i, r) ==
  \/ r.pic \in final
  \/ r.pic = bur[s].pic /\ \E y \in bur[s].bs[i].gates : y.kind = "P"
  \/ \E j \in Marked(s) : /\ j < i /\ r.pic = bur[s].bs[j].pic
                          /\ (Bdepth(s) => \E y \in bur[s].bs[i].gates : y.kind = "R")
  \/ GatedRefB(r.pic, bur[s].gates)
PlanInv ==
  Sound =>
    /\ \A s \in LiveSlots : \A i \in 1 .. Len(bur[s].bs) : \A r \in bur[s].bs[i].refs : BRefOk(s, i, r)
    /\ bur[slot].live => \A c \in bur[slot].col : OwnPic(slot, c.pic)

RInv == /\ ChainInv /\ OrderInv /\ CallInv /\ ErrInv /\ WindowInv /\ MemberInv /\ StayInv
        /\ LaunchInv /\ GateRInv /\ AnchorInv /\ PreppedInv /\ PlanInv

-----------------------------------------------------------------------------
(* What keeps a picture's buffers: the invariant of BuffersKept.            *)

\* The rings the pool serves, and whose list 0 leaves room in the window.
Pooled == cfg.wide /\ cfg.ref < cfg.cap

Bags == free \cup pend
\* The planes pictures are written to: the next anchor's, and those of the leaves.
Keys == {<<NoSlot, 0>>} \cup (Slots \X (1 .. NLeaf))
Target == [k \in Keys |-> IF k[1] = NoSlot THEN rec ELSE leaf[k[1]][k[2]]]

\* Entries, bags and targets share no plane, entries and bags no half-pel and
\* motion planes.
PlanesApart(D, B, T) ==
  /\ \A d, e \in DOMAIN D : D[d].plane = D[e].plane => d = e
  /\ \A y, z \in B : y.plane = z.plane => y = z
  /\ \A k, l \in DOMAIN T : T[k] = T[l] => k = l
  /\ \A d \in DOMAIN D : \A y \in B : D[d].plane # y.plane
  /\ \A d \in DOMAIN D : \A k \in DOMAIN T : D[d].plane # T[k]
  /\ \A y \in B : \A k \in DOMAIN T : y.plane # T[k]
AuxesApart(D, B) ==
  /\ \A d, e \in DOMAIN D : D[d].aux = D[e].aux => d = e
  /\ \A y, z \in B : y.aux = z.aux => y = z
  /\ \A d \in DOMAIN D : \A y \in B : D[d].aux # y.aux
PlanesKnown(D, B, T) ==
  /\ \A d \in DOMAIN D : D[d].plane \in Planes /\ D[d].aux \in Auxes
  /\ \A y \in B : y.plane \in Planes /\ y.aux \in Auxes
  /\ \A k \in DOMAIN T : T[k] \in Planes
Apart(D, B, T) == PlanesApart(D, B, T) /\ AuxesApart(D, B) /\ PlanesKnown(D, B, T)
OwnsInv ==
  /\ leaf = [s \in Slots |-> leaf[s]]
  /\ \A s \in Slots : leaf[s] = [i \in 1 .. NLeaf |-> leaf[s][i]]
  /\ planeOf = [x \in Planes |-> planeOf[x]] /\ auxOf = [x \in Auxes |-> auxOf[x]]
  /\ Apart(dpb, Bags, Target)

\* The bags never run out: those parked since a launch are at most what the
\* launches since then have parked.
PerLaunch == 1 + NRefB(cfg.bframes)
ParkedSince(q) == {x \in pend : x.seq >= q}
PoolInv ==
  /\ IsFiniteSet(Bags) /\ Cardinality(Bags) = PoolSize /\ free \cap pend = {}
  /\ \A x \in Bags : x.seq \in 0 .. seq
  /\ Count(slot) < PerLaunch
  /\ \A q \in 0 .. seq : Cardinality(ParkedSince(q)) <= (seq - q) * PerLaunch + Count(slot)

\* The newest anchor is among the pictures entered last.
LastInv ==
  /\ last # 0 => Among(last, 1 + Count(slot))
  /\ api \in {"bill", "ring", "begin"} => last # 0

\* The planes of an entry or a bag; where such a plane and the half-pel and motion
\* planes of its picture are, and whether they are kept from the launch q on.
Shelved(x) == (\E d \in DOMAIN dpb : dpb[d].plane = x) \/ \E y \in Bags : y.plane = x
Holds(x, a) == \/ \E d \in DOMAIN dpb : dpb[d].plane = x /\ dpb[d].aux = a
               \/ \E y \in Bags : y.plane = x /\ y.aux = a
Keeps(q, x, a) == \/ \E d \in DOMAIN dpb : dpb[d].plane = x /\ dpb[d].aux = a
                  \/ \E y \in pend : y.plane = x /\ y.aux = a /\ y.seq >= q

\* No two of them hold the same picture, and none holds one that is still to enter.
Entered(p) == p \in Nat /\ p <= last
              /\ (bur[slot].live => p <= 8 * (bur[slot].group - 1) \/ OwnPic(slot, p))
PicsInv ==
  /\ \A d \in DOMAIN dpb : planeOf[dpb[d].plane] = dpb[d].pic
  /\ \A x \in Planes : Shelved(x) => Entered(planeOf[x])
  /\ \A x, y \in Planes :
       Shelved(x) /\ Shelved(y) /\ planeOf[x] = planeOf[y] /\ planeOf[x] # 0 => x = y
  /\ api = "begin" => planeOf[rec] = AnchorOf(group)

\* What a live burst has borrowed, and its own pictures, are kept since its launch.
Lent(q, r) ==
  \E x \in Planes : Keeps(q, x, r.aux) /\ planeOf[x] = r.pic /\ (r.plane # NoBuffer => x = r.plane)
OwnKept(s, i) ==
  LET x == bur[s].bs[i]
  IN  /\ planeOf[x.plane] = x.pic
      /\ IF x.ref THEN Keeps(bur[s].seq, x.plane, x.aux) ELSE x.plane = leaf[s][i]
LentOf(s) ==
  /\ \A r \in bur[s].refs \cup bur[s].col : Lent(bur[s].seq, r)
  /\ \A i \in 1 .. Len(bur[s].bs) : OwnKept(s, i) /\ \A r \in bur[s].bs[i].refs : Lent(bur[s].seq, r)
  /\ planeOf[bur[s].plane] = bur[s].pic /\ \E a \in Auxes : Keeps(bur[s].seq, bur[s].plane, a)
LentInv == \A s \in LiveSlots : LentOf(s)

\* The half-pel and motion planes are of the picture in the plane they lie with, or
\* wait for it.
Awaited(p) == \E s \in LiveSlots : \E i \in Marked(s) : bur[s].bs[i].pic = p /\ i > bur[s].coded
FilledInv ==
  \A x \in Planes : \A a \in Auxes : Holds(x, a) => Awaited(planeOf[x]) \/ auxOf[a] = planeOf[x]

\* The entry a launch will take is none of those its anchor reads.
StaysIn(T, r) == \E d \in DOMAIN dpb : /\ T[d].used /\ dpb[d].pic = r.pic /\ dpb[d].aux = r.aux
                                   /\ (r.plane # NoBuffer => dpb[d].plane = r.plane)
ReadyInv == api = "begin" => \A r \in prepped.refs : StaysIn(Slid, r)

WInv == Pooled => OwnsInv /\ PoolInv /\ LastInv /\ PicsInv
LInv == Pooled /\ Sound => LentInv /\ FilledInv /\ ReadyInv
=============================================================================
