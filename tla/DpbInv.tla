-------------------------------- MODULE DpbInv --------------------------------
(***************************************************************************)
(* The inductive invariant of Dpb: what the references of the encoder and  *)
(* of the decoders are at every step of the coding order, and, in HeldInv, *)
(* where the anchor before a run is among them.                            *)
(***************************************************************************)
EXTENDS Dpb

Numbers == 0 .. MaxFn - 1
Entries == [disp : Nat, fn : Numbers]

\* How many references ago the one numbered fn was coded, now being the next number.
Age(fn, now) == IF fn < now THEN now - fn ELSE now - fn + MaxFn

\* The entries of S carry the last numbers, one each.
Numbered(S, now) ==
    /\ IsFiniteSet(S) /\ S \subseteq Entries
    /\ \A r \in S : Age(r.fn, now) \in 1 .. Cardinality(S)
    /\ \A a \in 1 .. Cardinality(S) : \E r \in S : Age(r.fn, now) = a
    /\ \A r, q \in S : r.fn = q.fn => r = q
    /\ \A r, q \in S : r.disp = q.disp => r = q

\* What was coded after an entry at or behind b is at or behind b.
Closed(S, now, b) ==
    \A r, q \in S : b <= r.disp /\ Age(q.fn, now) < Age(r.fn, now) => b <= q.disp

\* Nodes of code_b_hier over a run of n, and the offsets it marks.
Spans == [n \in 0 .. 7 |->
    CASE n = 0 -> {}
      [] n = 1 -> {<<0, 1>>}
      [] n = 2 -> {<<0, 2>>, <<0, 1>>}
      [] n = 3 -> {<<0, 3>>, <<0, 1>>, <<2, 3>>}
      [] n = 4 -> {<<0, 4>>, <<0, 2>>, <<3, 4>>, <<0, 1>>}
      [] n = 5 -> {<<0, 5>>, <<0, 2>>, <<3, 5>>, <<0, 1>>, <<3, 4>>}
      [] n = 6 -> {<<0, 6>>, <<0, 3>>, <<4, 6>>, <<0, 1>>, <<2, 3>>, <<4, 5>>}
      [] n = 7 -> {<<0, 7>>, <<0, 3>>, <<4, 7>>, <<0, 1>>, <<2, 3>>, <<4, 5>>, <<6, 7>>}]
Mids == [n \in 0 .. 7 |->
    CASE n < 2 -> {} [] n \in {2, 3} -> {1} [] n = 4 -> {1, 2} [] n = 5 -> {1, 2, 4}
      [] n > 5 -> {1, 3, 5}]

-----------------------------------------------------------------------------
DpbTypeOK ==
    /\ conf \in Configs
    /\ pc \in {"arrive", "tail", "anchor", "b", "end"}
    /\ disp \in Nat
    /\ run \in [first : Nat, n : 0 .. 7, kind : {"none", "idr", "p", "key"}]
    /\ run.n <= conf.bframes
    /\ nextFn \in Numbers /\ lastFn \in Numbers
    /\ anchors \in [last : Nat \cup {NoKey}, last2 : Nat \cup {NoKey}]
    /\ rp \in [last : Nat \cup {NoKey}, prev : Nat \cup {NoKey}]
    /\ todo \in Seq(Nat \X Nat)
    /\ cur = None \/ cur \in Pictures
    /\ dpb \subseteq Entries /\ dec \subseteq Entries
    /\ ring \in Seq(Entries)
    /\ cold \in [key : Nat \cup {NoKey}, refs : SUBSET Entries]

-----------------------------------------------------------------------------
InIdr == cur # None /\ cur.kind = "idr"
\* An IDR has emptied the encoder's buffer and no decoder has seen it.
Emptied == InIdr /\ ~cur.second
\* A reference between its fields: in the decoders and not in the encoder.
Halfway == cur # None /\ cur.second /\ cur.isref

\* The references coded so far that are in the window.
Base == IF Emptied THEN {} ELSE IF Halfway THEN dec \ {Entry(cur)} ELSE dec

\* How many references may be stored.
Room == IF Halfway THEN Window(conf) - 1 ELSE Window(conf)

\* A picture was coded.
Started == anchors.last # NoKey

\* Where the run stands: an IDR has no run, and something was coded before any other.
RunInv ==
    /\ pc # "arrive" => disp = run.first + run.n + (IF run.kind = "none" THEN 0 ELSE 1)
    /\ pc \in {"tail", "anchor", "b"} /\ run.first = 0 => run.kind = "idr" /\ run.n = 0
    /\ pc = "tail" => run.kind \in {"none", "idr"} /\ (run.n = 0 => todo = <<>>)
    /\ pc \in {"anchor", "b"} => run.kind # "none"
    /\ pc = "arrive" /\ disp > 0 => Started
    /\ pc \in {"tail", "anchor"} /\ run.first > 0 => Started
    /\ pc = "b" => Started

\* What the picture being coded is, by where the encoder stands.
CurInv ==
    cur # None =>
        /\ pc \in {"tail", "anchor", "b"}
        /\ cur.second => conf.fields
        /\ cur.fn = IF cur.isref THEN nextFn ELSE lastFn
        /\ pc = "tail" => /\ cur.kind = "tail" /\ cur.type = "P" /\ ~cur.isref
                          /\ cur.disp >= run.first /\ run.first > 0
                          /\ conf.pyramid => \E r \in Base : r.disp = anchors.last /\ cur.pin = r.fn
        /\ pc = "anchor" => /\ cur.kind = run.kind /\ cur.isref /\ cur.disp = run.first + run.n
                            /\ run.kind = "key" => cur.type = "I"
                            /\ run.kind = "p" => cur.type = "P"
                            /\ run.kind = "idr" => cur.type = (IF cur.second THEN "P" ELSE "I")
                            /\ run.kind = "p" /\ conf.pyramid =>
                                 \E r \in Base : r.disp = anchors.last /\ cur.pin = r.fn
        /\ pc = "b" => /\ cur.kind = "b" /\ cur.type = "B" /\ run.kind # "idr"
                       /\ cur.disp \in run.first .. run.first + run.n - 1
                       /\ cur.isref => /\ conf.pyramid /\ run.kind = "p"
                                       /\ cur.disp - run.first \in Mids[run.n]

\* The last anchors and recovery points, in the order of display.
AnchorInv ==
    /\ rp.prev <= rp.last
    /\ rp.last <= anchors.last \/ /\ cur # None /\ cur.kind = "key" /\ pc = "anchor"
                                  /\ rp.last = cur.disp /\ rp.prev <= anchors.last
    /\ pc = "arrive" => anchors.last < disp
    /\ pc \in {"tail", "anchor"} => anchors.last < run.first
    /\ cur # None /\ cur.kind = "key" => rp.last = cur.disp /\ rp.prev <= anchors.last
    /\ pc = "b" =>
         /\ anchors.last = run.first + run.n
         /\ run.kind = "p" => rp.last <= anchors.last2 /\ anchors.last2 < run.first
         /\ run.kind = "key" => /\ rp.last = anchors.last
                                /\ rp.prev <= anchors.last2 /\ anchors.last2 < run.first

\* The references carry the last frame numbers and fit the window, the encoder's are those;
\* the last anchor is one of them.
BaseInv ==
    /\ Numbered(Base, nextFn)
    /\ Cardinality(Base) <= Room
    /\ Halfway => Entry(cur) \in dec
    /\ dpb = IF conf.pyramid THEN Base ELSE {}
    /\ Base # {} => nextFn = (lastFn + 1) % MaxFn
    /\ InIdr => Base = {} /\ nextFn = 0
    /\ \A r \in Base : r.disp <= anchors.last
    /\ Started /\ ~InIdr => \E r \in Base : r.disp = anchors.last
    /\ Closed(Base, nextFn, rp.last)

\* Within a run: what is stored of it, and what code_b_hier still has to code.
BurstInv ==
    pc = "b" =>
        /\ \A r \in Base : r.disp >= run.first /\ r.disp # anchors.last =>
             /\ conf.pyramid /\ run.kind = "p"
             /\ r.disp - run.first \in Mids[run.n]
             /\ \A i \in 1 .. Len(todo) : r.disp - run.first \notin todo[i][1] .. todo[i][2] - 1
             /\ cur # None => r.disp # cur.disp
        /\ \A r, q \in Base : r.disp = anchors.last /\ Age(q.fn, nextFn) < Age(r.fn, nextFn) =>
             q.disp >= run.first
        /\ \A i \in 1 .. Len(todo) :
             /\ todo[i][1] < todo[i][2] /\ todo[i][2] <= run.n
             /\ conf.pyramid => todo[i] \in Spans[run.n]
             /\ cur # None => cur.disp - run.first \notin todo[i][1] .. todo[i][2] - 1
        /\ \A i, j \in 1 .. Len(todo) : i < j => todo[i][2] <= todo[j][1]
        /\ run.kind = "idr" => todo = <<>>

\* The B pictures coded behind an anchor leave it in the window.
NearInv ==
    conf.pyramid /\ pc # "b" =>
        \A r \in Base : r.disp = anchors.last => Age(r.fn, nextFn) <= 1 + NRefB[conf.bframes]

\* The anchor of a run enters the ring when the run has been coded.
Lag == IF pc = "b" THEN 1 ELSE 0
\* Without a pyramid the ring holds the last references, the newest first.
FlatInv ==
    ~conf.pyramid =>
        /\ \A r, q \in Base : Age(r.fn, nextFn) < Age(q.fn, nextFn) => r.disp > q.disp
        /\ Len(ring) <= NRef(conf)
        /\ cur # None => cur.pin = None
        /\ \A i \in 1 .. Len(ring) : i + Lag <= Window(conf) =>
             ring[i] \in Base /\ Age(ring[i].fn, nextFn) = i + Lag
        /\ pc = "b" => [disp |-> anchors.last, fn |-> lastFn] \in Base
        /\ pc = "b" /\ run.kind # "idr" => ring # <<>> /\ ring[1].disp = anchors.last2
        /\ pc # "b" /\ Started /\ ~InIdr => ring # <<>> /\ ring[1].disp = anchors.last

\* A cold decoder has what was displayed from its key on, and that was coded from it on.
ColdInv ==
    cold.key # NoKey /\ ~Emptied =>
        /\ cold.refs = {r \in dec : r.disp >= cold.key}
        /\ cold.key <= rp.last
        /\ cold.key = rp.last \/ cold.key <= rp.prev
        /\ Closed(Base, nextFn, cold.key)

\* The inductive invariant.
DpbIInv ==
    /\ DpbTypeOK /\ RunInv /\ CurInv /\ AnchorInv
    /\ BaseInv /\ BurstInv /\ NearInv /\ FlatInv /\ ColdInv

-----------------------------------------------------------------------------
\* The left edge of a run: how many pictures code_b_hier marks on it.
LeftEdge == [n \in 0 .. 7 |-> IF n < 2 THEN 0 ELSE IF n < 4 THEN 1 ELSE 2]

\* Wide, or with a list 0 long enough for what is coded between two anchors.
Roomy(k) == k.pyramid /\ k.tight =>
                k.ref + (IF k.fields THEN 1 ELSE 0) > LeftEdge[k.bframes]

\* A reference that is not stored yet.
Owed == IF cur # None /\ cur.isref THEN 1 ELSE 0

\* The anchor before the run, with room for n more references.
HeldFor(n) ==
    \E r \in Base : /\ r.disp = anchors.last2
                    /\ Age(r.fn, nextFn) + Owed + n
                         <= 2 + NRefB[conf.bframes] + LeftEdge[conf.bframes]
\* A picture of the run in front of offset a, younger than the anchor.
OwnBefore(a) ==
    \/ \E r \in Base :
         /\ run.first <= r.disp /\ r.disp < run.first + a
         /\ \A v \in Base : v.disp = anchors.last => Age(r.fn, nextFn) < Age(v.fn, nextFn)
    \/ cur # None /\ cur.isref /\ cur.disp < run.first + a

\* Every node of the run has a reference behind the anchor before it.
HeldInv ==
    conf.pyramid /\ pc = "b" =>
        /\ run.kind = "key" => HeldFor(0)
        /\ run.kind = "p" =>
             \A i \in 1 .. Len(todo) :
               /\ todo[i][1] = 0 => HeldFor(LeftEdge[todo[i][2]])
               /\ todo[i][1] > 0 => OwnBefore(todo[i][1])
        /\ cur # None /\ ~cur.second =>
             \E r \in Base : anchors.last2 <= r.disp /\ r.disp < cur.disp
=============================================================================
