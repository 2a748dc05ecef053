--------------------------- MODULE StairRingProofs ---------------------------
(***************************************************************************)
(* What is proved of the staircase's ring of bursts, for every ring, list  *)
(* 0, length of mini-GOP and of encode, wide or narrow, with and without   *)
(* streaming reference B's, rate control and prepares that fail: the       *)
(* watermark behind a gate is the gated picture's own (GatesOwn), and a    *)
(* picture reads nothing that is neither whole nor behind such a gate      *)
(* (ReadsCovered).                                                         *)
(***************************************************************************)
EXTENDS StairRingInv, FiniteSetTheorems, SequenceTheorems, WellFoundedInduction, TLAPS

-----------------------------------------------------------------------------
(* The settings, the coding plan, the slots.                                *)

LEMMA CfgIs ==
    ASSUME cfg \in Settings
    PROVE  /\ cfg.ring \in Nat /\ cfg.ring >= 2 /\ cfg.ref \in Nat \ {0} /\ cfg.bframes \in 2 .. 7
           /\ cfg.wide \in BOOLEAN /\ cfg.bdepth \in BOOLEAN
  BY SettingsAssumption

\* The plan is the fixed point of its equation: eight rounds reach it, since the
\* two halves of a run are shorter than the run.
PlanRound(f) ==
  [a \in 0 .. 7 |-> [b \in 0 .. 7 |->
    IF a >= b THEN <<>>
    ELSE LET m == (a + b) \div 2
         IN  <<[m |-> m, ref |-> m > a \/ m + 1 < b]>> \o f[a][m] \o f[m + 1][b]]]
SamePlan(f, g, k) == \A a, b \in 0 .. 7 : b - a < k => f[a][b] = g[a][b]

LEMMA Middle ==
    ASSUME NEW a \in 0 .. 7, NEW b \in 0 .. 7, ~(a >= b)
    PROVE  /\ (a + b) \div 2 \in 0 .. 7 /\ (a + b) \div 2 + 1 \in 0 .. 7
           /\ a <= (a + b) \div 2 /\ (a + b) \div 2 < b
  OBVIOUS

LEMMA RoundEmpty ==
    ASSUME NEW f, NEW a \in 0 .. 7, NEW b \in 0 .. 7, a >= b
    PROVE  PlanRound(f)[a][b] = <<>>
  BY ZenonT(30) DEF PlanRound

Split(f, a, b, m) == <<[m |-> m, ref |-> m > a \/ m + 1 < b]>> \o f[a][m] \o f[m + 1][b]
LEMMA RoundSplit ==
    ASSUME NEW f, NEW a \in 0 .. 7, NEW b \in 0 .. 7, ~(a >= b)
    PROVE  PlanRound(f)[a][b] = Split(f, a, b, (a + b) \div 2)
  BY Zenon DEF PlanRound, Split

LEMMA PlanStep ==
    ASSUME NEW f, NEW g, NEW k \in Nat, SamePlan(f, g, k)
    PROVE  SamePlan(PlanRound(f), PlanRound(g), k + 1)
<1> SUFFICES ASSUME NEW a \in 0 .. 7, NEW b \in 0 .. 7, b - a < k + 1
             PROVE  PlanRound(f)[a][b] = PlanRound(g)[a][b]
    BY Zenon DEF SamePlan
<1>1. CASE a >= b
    BY <1>1, RoundEmpty, Zenon
<1>2. CASE ~(a >= b)
  <2>1. PICK m : m = (a + b) \div 2
      OBVIOUS
  <2>2. m \in 0 .. 7 /\ m + 1 \in 0 .. 7 /\ a <= m /\ m < b
      BY <1>2, <2>1, Middle
  <2>3. m - a < k /\ b - (m + 1) < k
      BY <2>2
  <2>4. f[a][m] = g[a][m] /\ f[m + 1][b] = g[m + 1][b]
      BY <2>2, <2>3, Zenon DEF SamePlan
  <2>5. PlanRound(f)[a][b] = Split(f, a, b, m) /\ PlanRound(g)[a][b] = Split(g, a, b, m)
      BY <1>2, <2>1, RoundSplit
  <2>6. Split(f, a, b, m) = Split(g, a, b, m)
      BY <2>4 DEF Split
  <2> QED
      BY <2>5, <2>6
<1> QED
    BY <1>1, <1>2

LEMMA PlanIs == Plan = PlanRound(Plan)
<1> DEFINE f0 == PlanRound(<<>>)  f1 == PlanRound(f0)  f2 == PlanRound(f1)
           f3 == PlanRound(f2)    f4 == PlanRound(f3)  f5 == PlanRound(f4)
           f6 == PlanRound(f5)    f7 == PlanRound(f6)  f8 == PlanRound(f7)
<1>1. SamePlan(f0, f1, 1)
  <2>1. \A a, b \in 0 .. 7 : b - a < 1 => a >= b
      OBVIOUS
  <2> QED
      BY <2>1, RoundEmpty, SMTT(60) DEF SamePlan
<1> HIDE DEF f0, f1, f2, f3, f4, f5, f6, f7, f8
<1>2. SamePlan(f1, f2, 2)
    BY <1>1, PlanStep, 1 + 1 = 2 DEF f1, f2
<1>3. SamePlan(f2, f3, 3)
    BY <1>2, PlanStep, 2 + 1 = 3 DEF f2, f3
<1>4. SamePlan(f3, f4, 4)
    BY <1>3, PlanStep, 3 + 1 = 4 DEF f3, f4
<1>5. SamePlan(f4, f5, 5)
    BY <1>4, PlanStep, 4 + 1 = 5 DEF f4, f5
<1>6. SamePlan(f5, f6, 6)
    BY <1>5, PlanStep, 5 + 1 = 6 DEF f5, f6
<1>7. SamePlan(f6, f7, 7)
    BY <1>6, PlanStep, 6 + 1 = 7 DEF f6, f7
<1>8. SamePlan(f7, f8, 8)
    BY <1>7, PlanStep, 7 + 1 = 8 DEF f7, f8
<1>9. f7 = f8
  <2>1. f7 = [a \in 0 .. 7 |-> [b \in 0 .. 7 |-> f7[a][b]]]
      BY DEF f7, PlanRound
  <2>2. f8 = [a \in 0 .. 7 |-> [b \in 0 .. 7 |-> f8[a][b]]]
      BY DEF f8, PlanRound
  <2>3. \A a, b \in 0 .. 7 : f7[a][b] = f8[a][b]
      BY <1>8 DEF SamePlan
  <2> QED
      BY <2>1, <2>2, <2>3
<1>10. \E f : f = PlanRound(f)
    BY <1>9 DEF f8
<1> QED
    BY <1>10, Zenon DEF Plan, PlanRound

\* A plan is a sequence of its run's B pictures.
PlanEntry == [m : Nat, ref : BOOLEAN]
PlanOk(k) == \A a, b \in 0 .. 7 : b - a < k => Plan[a][b] \in Seq(PlanEntry)

LEMMA PlanOkStep ==
    ASSUME NEW k \in Nat, PlanOk(k)
    PROVE  PlanOk(k + 1)
<1> SUFFICES ASSUME NEW a \in 0 .. 7, NEW b \in 0 .. 7, b - a < k + 1
             PROVE  Plan[a][b] \in Seq(PlanEntry)
    BY Zenon DEF PlanOk
<1>1. CASE a >= b
  <2>1. Plan[a][b] = <<>>
      BY <1>1, PlanIs, RoundEmpty
  <2> QED
      BY <2>1
<1>2. CASE ~(a >= b)
  <2>1. PICK m : m = (a + b) \div 2
      OBVIOUS
  <2>2. m \in 0 .. 7 /\ m + 1 \in 0 .. 7 /\ a <= m /\ m < b
      BY <1>2, <2>1, Middle
  <2>3. m - a < k /\ b - (m + 1) < k
      BY <2>2
  <2>4. Plan[a][m] \in Seq(PlanEntry) /\ Plan[m + 1][b] \in Seq(PlanEntry)
      BY <2>2, <2>3, Zenon DEF PlanOk
  <2>5. PICK e : e = [m |-> m, ref |-> m > a \/ m + 1 < b]
      BY Zenon
  <2>6. e \in PlanEntry
      BY <2>2, <2>5 DEF PlanEntry
  <2>6a. Plan[a][b] = Split(Plan, a, b, m)
      BY <1>2, <2>1, PlanIs, RoundSplit
  <2>7. Plan[a][b] = (<<e>> \o Plan[a][m]) \o Plan[m + 1][b]
      BY <2>5, <2>6a DEF Split
  <2> QED
      BY <2>4, <2>6, <2>7
<1> QED
    BY <1>1, <1>2

LEMMA PlanSeq == \A n \in 0 .. 7 : Plan[0][n] \in Seq(PlanEntry)
<1>1. PlanOk(1)
  <2>1. SUFFICES ASSUME NEW a \in 0 .. 7, NEW b \in 0 .. 7, b - a < 1
                 PROVE  Plan[a][b] \in Seq(PlanEntry)
      BY Zenon DEF PlanOk
  <2>2. a >= b
      BY <2>1
  <2>3. Plan[a][b] = <<>>
      BY <2>2, PlanIs, RoundEmpty
  <2> QED
      BY <2>3
<1>2. PlanOk(2)
    BY <1>1, PlanOkStep, 1 + 1 = 2
<1>3. PlanOk(3)
    BY <1>2, PlanOkStep, 2 + 1 = 3
<1>4. PlanOk(4)
    BY <1>3, PlanOkStep, 3 + 1 = 4
<1>5. PlanOk(5)
    BY <1>4, PlanOkStep, 4 + 1 = 5
<1>6. PlanOk(6)
    BY <1>5, PlanOkStep, 5 + 1 = 6
<1>7. PlanOk(7)
    BY <1>6, PlanOkStep, 6 + 1 = 7
<1>8. PlanOk(8)
    BY <1>7, PlanOkStep, 7 + 1 = 8
<1>9. SUFFICES ASSUME NEW n \in 0 .. 7 PROVE Plan[0][n] \in Seq(PlanEntry)
    BY Zenon
<1>10. n - 0 < 8 /\ 0 \in 0 .. 7
    OBVIOUS
<1> QED
    BY <1>8, <1>10, Zenon DEF PlanOk

LEMMA ModIs ==
    ASSUME NEW C \in Nat, C > 0, NEW x \in 0 .. C
    PROVE  x % C = IF x = C THEN 0 ELSE x
  OBVIOUS

LEMMA SlotIs ==
    ASSUME cfg \in Settings
    PROVE  /\ \A s \in Slots : After(s) \in Slots /\ After(s) # s
           /\ \A s, t \in Slots : After(s) = After(t) => s = t
           /\ slot \in Slots => NextSlot = After(slot)
<1>1. cfg.ring \in Nat /\ cfg.ring >= 2
    BY CfgIs
<1>2. \A s \in Slots : After(s) \in Slots /\ After(s) # s
    BY <1>1 DEF Slots, After
<1>3. \A s, t \in Slots : After(s) = After(t) => s = t
    BY <1>1 DEF Slots, After
<1>4. ASSUME slot \in Slots PROVE NextSlot = After(slot)
  <2>1. PICK C \in Nat : C = cfg.ring /\ C >= 2
      BY <1>1
  <2>2. PICK x : x = slot
      OBVIOUS
  <2>3. x \in 0 .. C - 1
      BY <1>4, <2>1, <2>2 DEF Slots
  <2>4. (x + 1) % C = IF x + 1 = C THEN 0 ELSE x + 1
      BY <2>1, <2>3, ModIs
  <2>5. After(x) = IF x + 1 = C THEN 0 ELSE x + 1
      BY <2>1, <2>3 DEF After
  <2> QED
      BY <2>1, <2>2, <2>4, <2>5 DEF NextSlot
<1> QED
    BY <1>2, <1>3, <1>4

\* How long ago each slot was taken, before and after a launch.
LEMMA AgoIs ==
    ASSUME cfg \in Settings, slot \in Slots
    PROVE  /\ \A s \in Slots : Ago(s) \in 0 .. cfg.ring - 1
           /\ \A s, t \in Slots : Ago(s) = Ago(t) => s = t
           /\ Ago(slot) = 0 /\ \A s \in Slots : Ago(s) = 0 => s = slot
           /\ Ago(After(slot)) = cfg.ring - 1
  BY CfgIs DEF Slots, Ago, After

LEMMA PlanOfIs ==
    ASSUME NEW s \in Slots, BurstIs(bur[s])
    PROVE  PlanOf(s) \in Seq(PlanEntry)
  BY PlanSeq, Zenon DEF PlanOf, BurstIs

\* A streaming reference B is the first of its burst, and the only reference B.
LEMMA StreamsFirst ==
    ASSUME NEW s \in Slots, BurstIs(bur[s]), Bdepth(s)
    PROVE  /\ Len(PlanOf(s)) > 0
           /\ \A i \in 1 .. Len(PlanOf(s)) : PlanOf(s)[i].ref => i = 1
<1>1. PICK p : p = PlanOf(s)
    OBVIOUS
<1>2. p \in Seq(PlanEntry) /\ p[1].ref
    BY <1>1, PlanOfIs DEF Bdepth
<1>3. Cardinality({i \in DOMAIN p : p[i].ref}) = 1
    BY <1>1 DEF Bdepth, RefBs, NRefB, PlanOf
<1>4. Len(p) \in Nat /\ DOMAIN p = 1 .. Len(p)
    BY <1>2
<1>5. IsFiniteSet({i \in DOMAIN p : p[i].ref})
  <2>1. IsFiniteSet(1 .. Len(p))
      BY <1>4, FS_Interval, 1 \in Int, Len(p) \in Int
  <2>2. {i \in DOMAIN p : p[i].ref} \subseteq 1 .. Len(p)
      BY <1>4
  <2> QED
      BY <2>1, <2>2, FS_Subset
<1>6. PICK k : {i \in DOMAIN p : p[i].ref} = {k}
    BY <1>3, <1>5, FS_Singleton, Zenon
<1>7. Len(p) > 0
  <2>1. k \in {i \in DOMAIN p : p[i].ref}
      BY <1>6
  <2>2. k \in 1 .. Len(p)
      BY <1>4, <2>1
  <2> QED
      BY <1>4, <2>2
<1>8. 1 \in {i \in DOMAIN p : p[i].ref}
    BY <1>2, <1>4, <1>7
<1> QED
    BY <1>1, <1>4, <1>6, <1>7, <1>8

LEMMA LiveFinite ==
    ASSUME cfg \in Settings
    PROVE  /\ IsFiniteSet(Slots) /\ Cardinality(Slots) = cfg.ring
           /\ IsFiniteSet(LiveSlots) /\ LiveSlots \subseteq Slots
<1>1. cfg.ring \in Nat /\ cfg.ring >= 2 /\ cfg.ring - 1 \in Int /\ 0 \in Int
    BY CfgIs
<1>2. IsFiniteSet(0 .. cfg.ring - 1) /\ Cardinality(0 .. cfg.ring - 1) =
        IF 0 > cfg.ring - 1 THEN 0 ELSE (cfg.ring - 1) - 0 + 1
    BY <1>1, FS_Interval, Zenon
<1>3. LiveSlots \subseteq Slots
    BY DEF LiveSlots
<1>4. IsFiniteSet(Slots) /\ Cardinality(Slots) = (cfg.ring - 1) - 0 + 1
    BY <1>1, <1>2 DEF Slots
<1>5. IsFiniteSet(LiveSlots)
    BY <1>3, <1>4, FS_Subset
<1> QED
    BY <1>1, <1>3, <1>4, <1>5

-----------------------------------------------------------------------------
(* What each step makes of a burst.                                         *)

\* What a launch fixes for the life of its burst.
Same(e, b) ==
  /\ e.seq = b.seq /\ e.group = b.group /\ e.pic = b.pic /\ e.nbuf = b.nbuf
  /\ e.plane = b.plane /\ e.refs = b.refs /\ e.gates = b.gates
  /\ e.prevP = b.prevP /\ e.rbOf = b.rbOf /\ e.rbSeq = b.rbSeq
Becomes(s, e) == bur' = [bur EXCEPT ![s] = e] /\ BurstIs(e) /\ Same(e, bur[s])

LEMMA DrainOldestOf ==
    ASSUME TypeInv, NEW s \in Slots, DrainOldest, s = Oldest
    PROVE  \E e : /\ Becomes(s, e)
                  /\ e.anchor = bur[s].anchor /\ e.phase = bur[s].phase /\ e.bs = bur[s].bs
                  /\ e.coded = bur[s].coded /\ e.refbDone = bur[s].refbDone
                  /\ e.refb = bur[s].refb /\ e.fired = bur[s].fired /\ e.col = bur[s].col
                  /\ e.err = bur[s].err
                  /\ e.live = FALSE
<1>1. PICK b : b = bur[s]
    OBVIOUS
<1>2. BurstIs(b)
    BY <1>1 DEF TypeInv
<1>3. PICK e : e = [b EXCEPT !.live = FALSE]
    BY Zenon
<1>4. BurstIs(e) /\ Same(e, b)
    BY <1>2, <1>3, Zenon DEF BurstIs, Same, Phases
<1>5. /\ e.anchor = b.anchor /\ e.phase = b.phase /\ e.bs = b.bs /\ e.coded = b.coded
      /\ e.refbDone = b.refbDone /\ e.refb = b.refb /\ e.fired = b.fired
      /\ e.col = b.col /\ e.err = b.err
      /\ e.live = FALSE
    BY <1>2, <1>3 DEF BurstIs
<1>6. bur' = [bur EXCEPT ![s] = e]
    BY <1>1, <1>3 DEF DrainOldest
<1> QED
    BY <1>1, <1>4, <1>5, <1>6, Zenon DEF Becomes

LEMMA SubmitOf ==
    ASSUME TypeInv, NEW s \in Slots, Submit, s = slot
    PROVE  \E e : /\ Becomes(s, e)
                  /\ e.live = bur[s].live /\ e.anchor = bur[s].anchor /\ e.bs = bur[s].bs
                  /\ e.coded = bur[s].coded /\ e.refbDone = bur[s].refbDone
                  /\ e.refb = bur[s].refb /\ e.fired = bur[s].fired /\ e.col = bur[s].col
                  /\ e.err = bur[s].err
                  /\ e.phase = "wait"
<1>1. PICK b : b = bur[s]
    OBVIOUS
<1>2. BurstIs(b)
    BY <1>1 DEF TypeInv
<1>3. PICK e : e = [b EXCEPT !.phase = "wait"]
    BY Zenon
<1>4. BurstIs(e) /\ Same(e, b)
    BY <1>2, <1>3 DEF BurstIs, Same, Phases
<1>5. /\ e.live = b.live /\ e.anchor = b.anchor /\ e.bs = b.bs /\ e.coded = b.coded
      /\ e.refbDone = b.refbDone /\ e.refb = b.refb /\ e.fired = b.fired
      /\ e.col = b.col /\ e.err = b.err
      /\ e.phase = "wait"
    BY <1>2, <1>3 DEF BurstIs
<1>6. bur' = [bur EXCEPT ![s] = e]
    BY <1>1, <1>3 DEF Submit
<1> QED
    BY <1>1, <1>4, <1>5, <1>6, Zenon DEF Becomes

LEMMA AnalyzeOf ==
    ASSUME TypeInv, NEW s \in Slots, Analyze(s)
    PROVE  \E e : /\ Becomes(s, e)
                  /\ e.live = bur[s].live /\ e.phase = bur[s].phase /\ e.bs = bur[s].bs
                  /\ e.coded = bur[s].coded /\ e.refbDone = bur[s].refbDone
                  /\ e.refb = bur[s].refb /\ e.fired = bur[s].fired /\ e.col = bur[s].col
                  /\ e.err = bur[s].err
                  /\ e.anchor = "analyzed"
<1>1. PICK b : b = bur[s]
    OBVIOUS
<1>2. BurstIs(b)
    BY <1>1 DEF TypeInv
<1>3. PICK e : e = [b EXCEPT !.anchor = "analyzed"]
    BY Zenon
<1>4. BurstIs(e) /\ Same(e, b)
    BY <1>2, <1>3 DEF BurstIs, Same, Phases
<1>5. /\ e.live = b.live /\ e.phase = b.phase /\ e.bs = b.bs /\ e.coded = b.coded
      /\ e.refbDone = b.refbDone /\ e.refb = b.refb /\ e.fired = b.fired
      /\ e.col = b.col /\ e.err = b.err
      /\ e.anchor = "analyzed"
    BY <1>2, <1>3 DEF BurstIs
<1>6. bur' = [bur EXCEPT ![s] = e]
    BY <1>1, <1>3 DEF Analyze
<1> QED
    BY <1>1, <1>4, <1>5, <1>6, Zenon DEF Becomes

LEMMA PublishOf ==
    ASSUME TypeInv, NEW s \in Slots, Publish(s)
    PROVE  \E e : /\ Becomes(s, e)
                  /\ e.live = bur[s].live /\ e.phase = bur[s].phase /\ e.bs = bur[s].bs
                  /\ e.coded = bur[s].coded /\ e.refbDone = bur[s].refbDone
                  /\ e.refb = bur[s].refb /\ e.fired = bur[s].fired /\ e.col = bur[s].col
                  /\ e.err = bur[s].err
                  /\ e.anchor = "done"
<1>1. PICK b : b = bur[s]
    OBVIOUS
<1>2. BurstIs(b)
    BY <1>1 DEF TypeInv
<1>3. PICK e : e = [b EXCEPT !.anchor = "done"]
    BY Zenon
<1>4. BurstIs(e) /\ Same(e, b)
    BY <1>2, <1>3 DEF BurstIs, Same, Phases
<1>5. /\ e.live = b.live /\ e.phase = b.phase /\ e.bs = b.bs /\ e.coded = b.coded
      /\ e.refbDone = b.refbDone /\ e.refb = b.refb /\ e.fired = b.fired
      /\ e.col = b.col /\ e.err = b.err
      /\ e.anchor = "done"
    BY <1>2, <1>3 DEF BurstIs
<1>6. bur' = [bur EXCEPT ![s] = e]
    BY <1>1, <1>3 DEF Publish
<1> QED
    BY <1>1, <1>4, <1>5, <1>6, Zenon DEF Becomes

LEMMA WaitPrevOf ==
    ASSUME TypeInv, NEW s \in Slots, WaitPrev(s)
    PROVE  \E e : /\ Becomes(s, e)
                  /\ e.live = bur[s].live /\ e.anchor = bur[s].anchor /\ e.bs = bur[s].bs
                  /\ e.coded = bur[s].coded /\ e.refbDone = bur[s].refbDone
                  /\ e.refb = bur[s].refb /\ e.fired = bur[s].fired /\ e.col = bur[s].col
                  /\ e.err = bur[s].err
                  /\ e.phase = "prep"
<1>1. PICK b : b = bur[s]
    OBVIOUS
<1>2. BurstIs(b)
    BY <1>1 DEF TypeInv
<1>3. PICK e : e = [b EXCEPT !.phase = "prep"]
    BY Zenon
<1>4. BurstIs(e) /\ Same(e, b)
    BY <1>2, <1>3 DEF BurstIs, Same, Phases
<1>5. /\ e.live = b.live /\ e.anchor = b.anchor /\ e.bs = b.bs /\ e.coded = b.coded
      /\ e.refbDone = b.refbDone /\ e.refb = b.refb /\ e.fired = b.fired
      /\ e.col = b.col /\ e.err = b.err
      /\ e.phase = "prep"
    BY <1>2, <1>3 DEF BurstIs
<1>6. bur' = [bur EXCEPT ![s] = e]
    BY <1>1, <1>3 DEF WaitPrev
<1> QED
    BY <1>1, <1>4, <1>5, <1>6, Zenon DEF Becomes

LEMMA BailOf ==
    ASSUME TypeInv, NEW s \in Slots, Bail(s)
    PROVE  \E e : /\ Becomes(s, e)
                  /\ e.live = bur[s].live /\ e.anchor = bur[s].anchor /\ e.bs = bur[s].bs
                  /\ e.coded = bur[s].coded /\ e.refbDone = bur[s].refbDone
                  /\ e.refb = bur[s].refb /\ e.fired = bur[s].fired /\ e.col = bur[s].col
                  /\ e.phase = "join" /\ e.err = TRUE
<1>1. PICK b : b = bur[s]
    OBVIOUS
<1>2. BurstIs(b)
    BY <1>1 DEF TypeInv
<1>3. PICK e : e = [b EXCEPT !.phase = "join", !.err = TRUE]
    OBVIOUS
<1>4. BurstIs(e) /\ Same(e, b)
    BY <1>2, <1>3, Zenon DEF BurstIs, Same, Phases
<1>5. /\ e.live = b.live /\ e.anchor = b.anchor /\ e.bs = b.bs /\ e.coded = b.coded
      /\ e.refbDone = b.refbDone /\ e.refb = b.refb /\ e.fired = b.fired
      /\ e.col = b.col
      /\ e.phase = "join" /\ e.err = TRUE
    BY <1>2, <1>3 DEF BurstIs
<1>6. bur' = [bur EXCEPT ![s] = e]
    BY <1>1, <1>3, Zenon DEF Bail
<1> QED
    BY <1>1, <1>4, <1>5, <1>6, Zenon DEF Becomes

LEMMA FireOf ==
    ASSUME TypeInv, NEW s \in Slots, Fire(s)
    PROVE  \E e : /\ Becomes(s, e)
                  /\ e.live = bur[s].live /\ e.anchor = bur[s].anchor /\ e.bs = bur[s].bs
                  /\ e.coded = bur[s].coded /\ e.refbDone = bur[s].refbDone
                  /\ e.refb = bur[s].refb /\ e.col = bur[s].col /\ e.err = bur[s].err
                  /\ e.phase = "gate" /\ e.fired = TRUE
<1>1. PICK b : b = bur[s]
    OBVIOUS
<1>2. BurstIs(b)
    BY <1>1 DEF TypeInv
<1>3. PICK e : e = [b EXCEPT !.phase = "gate", !.fired = TRUE]
    OBVIOUS
<1>4. BurstIs(e) /\ Same(e, b)
    BY <1>2, <1>3, Zenon DEF BurstIs, Same, Phases
<1>5. /\ e.live = b.live /\ e.anchor = b.anchor /\ e.bs = b.bs /\ e.coded = b.coded
      /\ e.refbDone = b.refbDone /\ e.refb = b.refb /\ e.col = b.col /\ e.err = b.err
      /\ e.phase = "gate" /\ e.fired = TRUE
    BY <1>2, <1>3 DEF BurstIs
<1>6. bur' = [bur EXCEPT ![s] = e]
    BY <1>1, <1>3, Zenon DEF Fire
<1> QED
    BY <1>1, <1>4, <1>5, <1>6, Zenon DEF Becomes

LEMMA WaitRefBOf ==
    ASSUME TypeInv, NEW s \in Slots, WaitRefB(s)
    PROVE  \E e : /\ Becomes(s, e)
                  /\ e.live = bur[s].live /\ e.anchor = bur[s].anchor /\ e.bs = bur[s].bs
                  /\ e.coded = bur[s].coded /\ e.refbDone = bur[s].refbDone
                  /\ e.refb = bur[s].refb /\ e.fired = bur[s].fired /\ e.col = bur[s].col
                  /\ e.err = bur[s].err
                  /\ e.phase = "code"
<1>1. PICK b : b = bur[s]
    OBVIOUS
<1>2. BurstIs(b)
    BY <1>1 DEF TypeInv
<1>3. PICK e : e = [b EXCEPT !.phase = "code"]
    BY Zenon
<1>4. BurstIs(e) /\ Same(e, b)
    BY <1>2, <1>3 DEF BurstIs, Same, Phases
<1>5. /\ e.live = b.live /\ e.anchor = b.anchor /\ e.bs = b.bs /\ e.coded = b.coded
      /\ e.refbDone = b.refbDone /\ e.refb = b.refb /\ e.fired = b.fired
      /\ e.col = b.col /\ e.err = b.err
      /\ e.phase = "code"
    BY <1>2, <1>3 DEF BurstIs
<1>6. bur' = [bur EXCEPT ![s] = e]
    BY <1>1, <1>3 DEF WaitRefB
<1> QED
    BY <1>1, <1>4, <1>5, <1>6, Zenon DEF Becomes

LEMMA LaunchRefBOf ==
    ASSUME TypeInv, NEW s \in Slots, LaunchRefB(s)
    PROVE  \E e : /\ Becomes(s, e)
                  /\ e.live = bur[s].live /\ e.anchor = bur[s].anchor /\ e.phase = bur[s].phase
                  /\ e.bs = bur[s].bs /\ e.refbDone = bur[s].refbDone /\ e.fired = bur[s].fired
                  /\ e.col = bur[s].col /\ e.err = bur[s].err
                  /\ e.refb = "run" /\ e.coded = 1
<1>1. PICK b : b = bur[s]
    OBVIOUS
<1>2. BurstIs(b)
    BY <1>1 DEF TypeInv
<1>3. PICK e : e = [b EXCEPT !.refb = "run", !.coded = 1]
    OBVIOUS
<1>4. BurstIs(e) /\ Same(e, b)
    BY <1>2, <1>3, Zenon DEF BurstIs, Same, Phases
<1>5. /\ e.live = b.live /\ e.anchor = b.anchor /\ e.phase = b.phase /\ e.bs = b.bs
      /\ e.refbDone = b.refbDone /\ e.fired = b.fired /\ e.col = b.col
      /\ e.err = b.err
      /\ e.refb = "run" /\ e.coded = 1
    BY <1>2, <1>3 DEF BurstIs
<1>6. bur' = [bur EXCEPT ![s] = e]
    BY <1>1, <1>3, Zenon DEF LaunchRefB
<1> QED
    BY <1>1, <1>4, <1>5, <1>6, Zenon DEF Becomes

LEMMA CodeBOf ==
    ASSUME TypeInv, NEW s \in Slots, CodeB(s)
    PROVE  \E e : /\ Becomes(s, e)
                  /\ e.live = bur[s].live /\ e.anchor = bur[s].anchor /\ e.phase = bur[s].phase
                  /\ e.bs = bur[s].bs /\ e.refb = bur[s].refb /\ e.fired = bur[s].fired
                  /\ e.col = bur[s].col /\ e.err = bur[s].err
                  /\ e.coded = bur[s].coded + 1
                  /\ e.refbDone = (IF bur[s].bs[bur[s].coded + 1].ref THEN bur[s].refbDone + 1 ELSE bur[s].refbDone)
<1>1. PICK b : b = bur[s]
    OBVIOUS
<1>2. BurstIs(b)
    BY <1>1 DEF TypeInv
<1>coded. PICK v0 : v0 = (bur[s].coded + 1)
    OBVIOUS
<1>refbDone. PICK v1 : v1 = (IF bur[s].bs[bur[s].coded + 1].ref THEN bur[s].refbDone + 1 ELSE bur[s].refbDone)
    OBVIOUS
<1>3. PICK e : e = [b EXCEPT !.coded = v0, !.refbDone = v1]
    OBVIOUS
<1>4. BurstIs(e) /\ Same(e, b)
    BY <1>2, <1>3, Zenon DEF BurstIs, Same, Phases
<1>5. /\ e.live = b.live /\ e.anchor = b.anchor /\ e.phase = b.phase /\ e.bs = b.bs
      /\ e.refb = b.refb /\ e.fired = b.fired /\ e.col = b.col /\ e.err = b.err
      /\ e.coded = v0 /\ e.refbDone = v1
    BY <1>2, <1>3 DEF BurstIs
<1>6. bur' = [bur EXCEPT ![s] = e]
    BY <1>1, <1>3, <1>coded, <1>refbDone, Zenon DEF CodeB
<1> QED
    BY <1>1, <1>4, <1>5, <1>6, <1>coded, <1>refbDone, Zenon DEF Becomes

LEMMA StreamRefBOf ==
    ASSUME TypeInv, NEW s \in Slots, StreamRefB(s)
    PROVE  \E e : /\ Becomes(s, e)
                  /\ e.live = bur[s].live /\ e.anchor = bur[s].anchor /\ e.phase = bur[s].phase
                  /\ e.bs = bur[s].bs /\ e.coded = bur[s].coded /\ e.fired = bur[s].fired
                  /\ e.col = bur[s].col /\ e.err = bur[s].err
                  /\ e.refb = "done" /\ e.refbDone = bur[s].refbDone + 1
<1>1. PICK b : b = bur[s]
    OBVIOUS
<1>2. BurstIs(b)
    BY <1>1 DEF TypeInv
<1>refbDone. PICK v1 : v1 = (bur[s].refbDone + 1)
    OBVIOUS
<1>3. PICK e : e = [b EXCEPT !.refb = "done", !.refbDone = v1]
    OBVIOUS
<1>4. BurstIs(e) /\ Same(e, b)
    BY <1>2, <1>3, Zenon DEF BurstIs, Same, Phases
<1>5. /\ e.live = b.live /\ e.anchor = b.anchor /\ e.phase = b.phase /\ e.bs = b.bs
      /\ e.coded = b.coded /\ e.fired = b.fired /\ e.col = b.col /\ e.err = b.err
      /\ e.refb = "done" /\ e.refbDone = v1
    BY <1>2, <1>3 DEF BurstIs
<1>6. bur' = [bur EXCEPT ![s] = e]
    BY <1>1, <1>3, <1>refbDone, Zenon DEF StreamRefB
<1> QED
    BY <1>1, <1>4, <1>5, <1>6, <1>refbDone, Zenon DEF Becomes

LEMMA EndOf ==
    ASSUME TypeInv, NEW s \in Slots, End(s)
    PROVE  \E e : /\ Becomes(s, e)
                  /\ e.live = bur[s].live /\ e.anchor = bur[s].anchor /\ e.bs = bur[s].bs
                  /\ e.coded = bur[s].coded /\ e.refb = bur[s].refb /\ e.err = bur[s].err
                  /\ e.phase = "ended" /\ e.fired = TRUE /\ e.refbDone = RefBs(s)
                  /\ e.col = (IF cfg.wide THEN bur[s].col ELSE {})
<1>1. PICK b : b = bur[s]
    OBVIOUS
<1>2. BurstIs(b)
    BY <1>1 DEF TypeInv
<1>refbDone. PICK v2 : v2 = (RefBs(s))
    OBVIOUS
<1>col. PICK v3 : v3 = (IF cfg.wide THEN bur[s].col ELSE {})
    BY Zenon
<1>3. PICK e : e = [b EXCEPT !.phase = "ended", !.fired = TRUE, !.refbDone = v2, !.col = v3]
    OBVIOUS
<1>4. BurstIs(e) /\ Same(e, b)
    BY <1>2, <1>3, Zenon DEF BurstIs, Same, Phases
<1>5. /\ e.live = b.live /\ e.anchor = b.anchor /\ e.bs = b.bs /\ e.coded = b.coded
      /\ e.refb = b.refb /\ e.err = b.err
      /\ e.phase = "ended" /\ e.fired = TRUE /\ e.refbDone = v2 /\ e.col = v3
    BY <1>2, <1>3 DEF BurstIs
<1>6. bur' = [bur EXCEPT ![s] = e]
    BY <1>1, <1>3, <1>refbDone, <1>col, Zenon DEF End
<1> QED
    BY <1>1, <1>4, <1>5, <1>6, <1>refbDone, <1>col, Zenon DEF Becomes

LEMMA AppendIs ==
    ASSUME NEW q, NEW x, Len(q) \in Nat, q = [i \in 1 .. Len(q) |-> q[i]],
           NEW r, r = Append(q, x)
    PROVE  /\ Len(r) = Len(q) + 1 /\ r = [i \in 1 .. Len(r) |-> r[i]]
           /\ \A i \in 1 .. Len(q) : r[i] = q[i]
           /\ r[Len(q) + 1] = x
<1>1. PICK S : S = {q[i] : i \in 1 .. Len(q)} \cup {x}
    BY Zenon
<1>2. q \in Seq(S)
  <2>1. \A i \in 1 .. Len(q) : q[i] \in S
      BY <1>1
  <2>2. q \in [1 .. Len(q) -> S]
      BY <2>1
  <2> QED
      BY <2>2, SeqDef
<1>3. x \in S
    BY <1>1
<1>4. r \in Seq(S) /\ Len(r) = Len(q) + 1 /\ r[Len(q) + 1] = x
        /\ \A i \in 1 .. Len(q) : r[i] = q[i]
    BY <1>2, <1>3, AppendProperties
<1>5. r = [i \in 1 .. Len(r) |-> r[i]]
  <2>1. r \in [1 .. Len(r) -> S]
      BY <1>4, LenProperties, Zenon
  <2> QED
      BY <2>1, Zenon
<1> QED
    BY <1>4, <1>5

\* The B picture a chain prepares next, and the motion it is predicted from.
NextB(s) == PlanOf(s)[Len(bur[s].bs) + 1]
ColOf(p) == {[Borrow(Future(p)) EXCEPT !.plane = NoBuffer]}

LEMMA PrepareBOf ==
    ASSUME TypeInv, NEW s \in Slots, PrepareB(s)
    PROVE  \E e, x : /\ Becomes(s, e)
                     /\ e.live = bur[s].live /\ e.anchor = bur[s].anchor /\ e.phase = bur[s].phase
                     /\ e.coded = bur[s].coded /\ e.refbDone = bur[s].refbDone
                     /\ e.refb = bur[s].refb /\ e.fired = bur[s].fired /\ e.err = bur[s].err
                     /\ e.bs = Append(bur[s].bs, x)
                     /\ x.pic = BOf(bur[s].group, bur[s].nbuf, NextB(s).m)
                     /\ x.ref = NextB(s).ref /\ x.refs = BRefs(x.pic)
                     /\ x.gates = GatesOf(s, x.pic)
                     /\ e.col = ColOf(x.pic)
                     /\ x.plane = leaf[s][Len(bur[s].bs) + 1] /\ (x.ref => x.aux = TargetAux)
<1>1. PICK b : b = bur[s]
    OBVIOUS
<1>2. BurstIs(b)
    BY <1>1 DEF TypeInv
<1>3. PICK p, plane, aux, col :
        /\ p = BOf(bur[s].group, bur[s].nbuf, NextB(s).m)
        /\ plane = leaf[s][Len(bur[s].bs) + 1]
        /\ aux = IF NextB(s).ref THEN TargetAux ELSE NoBuffer
        /\ col = {[Borrow(Future(p)) EXCEPT !.plane = NoBuffer]}
    BY Zenon
<1>4. PICK x : x = [pic |-> p, plane |-> plane, ref |-> NextB(s).ref, aux |-> aux,
                    refs |-> BRefs(p), gates |-> GatesOf(s, p)]
    BY Zenon
<1>5. PICK q : q = Append(b.bs, x)
    BY Zenon
<1>6. Len(q) \in Nat /\ q = [i \in 1 .. Len(q) |-> q[i]]
    BY <1>2, <1>5, AppendIs DEF BurstIs
<1>7. PICK e : e = [b EXCEPT !.bs = q, !.col = col]
    OBVIOUS
<1>8. BurstIs(e) /\ Same(e, b)
    BY <1>2, <1>6, <1>7, Zenon DEF BurstIs, Same, Phases
<1>9. /\ e.live = b.live /\ e.anchor = b.anchor /\ e.phase = b.phase /\ e.coded = b.coded
      /\ e.refbDone = b.refbDone /\ e.refb = b.refb /\ e.fired = b.fired
      /\ e.err = b.err /\ e.bs = q /\ e.col = col
    BY <1>2, <1>7 DEF BurstIs
<1>10. bur' = [bur EXCEPT ![s] = e]
  <2>1. bur' = [bur EXCEPT ![s] = [bur[s] EXCEPT !.bs = Append(@, x), !.col = col]]
      BY <1>3, <1>4, ZenonT(60) DEF PrepareB, NextB
  <2>2. [b EXCEPT !.bs = q, !.col = col] = [bur[s] EXCEPT !.bs = Append(@, x), !.col = col]
      BY <1>1, <1>5
  <2> QED
      BY <1>7, <2>1, <2>2, Zenon
<1>11. /\ x.pic = p /\ x.ref = NextB(s).ref /\ x.refs = BRefs(p) /\ x.gates = GatesOf(s, p)
       /\ x.plane = plane /\ x.aux = aux
    BY <1>4
<1>12. e.col = ColOf(x.pic)
    BY <1>3, <1>9, <1>11 DEF ColOf
<1>13. Becomes(s, e)
    BY <1>1, <1>8, <1>10 DEF Becomes
<1> QED
    BY <1>1, <1>3, <1>5, <1>9, <1>11, <1>12, <1>13

LEMMA BecomesIs ==
    ASSUME TypeInv, NEW s \in Slots, NEW e, Becomes(s, e)
    PROVE  /\ bur'[s] = e /\ \A t \in Slots : t # s => bur'[t] = bur[t]
           /\ bur' = [t \in Slots |-> bur'[t]] /\ \A t \in Slots : BurstIs(bur'[t])
           /\ \A t \in Slots : Same(bur'[t], bur[t])
<1>1. bur = [t \in Slots |-> bur[t]] /\ \A t \in Slots : BurstIs(bur[t])
    BY DEF TypeInv
<1>2. bur' = [bur EXCEPT ![s] = e] /\ BurstIs(e) /\ Same(e, bur[s])
    BY DEF Becomes
<1>3. bur'[s] = e /\ (\A t \in Slots : t # s => bur'[t] = bur[t])
        /\ bur' = [t \in Slots |-> bur'[t]]
    BY <1>1, <1>2
<1>4. \A t \in Slots : BurstIs(bur'[t])
    BY <1>1, <1>2, <1>3
<1>5. \A t \in Slots : Same(bur'[t], bur[t])
    BY <1>2, <1>3 DEF Same
<1> QED
    BY <1>3, <1>4, <1>5

\* What a launch fixed stays fixed.
LEMMA FixedIs ==
    ASSUME NEW t \in Slots, Same(bur'[t], bur[t]), cfg' = cfg
    PROVE  /\ PlanOf(t)' = PlanOf(t) /\ Bdepth(t)' = Bdepth(t) /\ RefB(t)' = RefB(t)
           /\ RefBs(t)' = RefBs(t) /\ \A y : OwnGate(t, y) <=> OwnGate(t, y)'
<1>1. bur'[t].nbuf = bur[t].nbuf /\ bur'[t].group = bur[t].group /\ bur'[t].pic = bur[t].pic
    BY DEF Same
<1>2. PlanOf(t)' = PlanOf(t) /\ RefBs(t)' = RefBs(t)
    BY <1>1 DEF PlanOf, RefBs
<1>3. Bdepth(t)' = Bdepth(t) /\ RefB(t)' = RefB(t)
    BY <1>1, <1>2 DEF Bdepth, RefB
<1>4. \A y : OwnGate(t, y) <=> OwnGate(t, y)'
    BY <1>1, <1>3 DEF OwnGate
<1> QED
    BY <1>2, <1>3, <1>4

-----------------------------------------------------------------------------
(* A step of one burst's threads.                                           *)

MarksKept(m) == m' = [t \in Slots |-> m'[t]] /\ \A t \in Slots : MarkIs(m'[t])

\* Nothing that others wait for is taken back.
Shifted(s, e) ==
  /\ Becomes(s, e)
  /\ (e.anchor = "run" => bur[s].anchor = "run")
  /\ (bur[s].fired => e.fired /\ (bur[s].err => e.err))
  /\ cfg' = cfg /\ group' = group /\ nbuf' = nbuf /\ slot' = slot /\ seq' = seq
  /\ prepped' = prepped
  /\ MarksKept(prog) /\ MarksKept(rprog)
  /\ \A t \in Slots : prog'[t].pic = prog[t].pic
  /\ \A t \in Slots : t # s \/ bur[s].fired => rprog'[t].pic = rprog[t].pic
Moved(s, e) ==
  /\ Shifted(s, e) /\ api' = api /\ e.live = bur[s].live
  /\ (bur[s].phase = "armed" => e.phase = "armed")

LEMMA GateKept ==
    ASSUME TypeInv, NEW s \in Slots, NEW e, Shifted(s, e), NEW g \in Slots, NEW x, GateOn(g, x)
    PROVE  GateOn(g, x)'
<1>1. bur'[s] = e /\ \A t \in Slots : t # s => bur'[t] = bur[t]
    BY BecomesIs DEF Shifted
<1>2. prog'[g].pic = prog[g].pic
    BY DEF Shifted
<1>3. bur[g].fired => /\ bur'[g].fired /\ (bur[g].err => bur'[g].err)
                      /\ rprog'[g].pic = rprog[g].pic
    BY <1>1 DEF Shifted
<1> QED
    BY <1>2, <1>3 DEF GateOn

LEMMA ShiftKeeps ==
    ASSUME IInv, NEW s \in Slots, NEW e, Shifted(s, e), BurstOf(s)', api' \in Apis
    PROVE  TypeInv' /\ BurstInv' /\ GateInv'
<1>1. TypeInv /\ BurstInv /\ GateInv
    BY DEF IInv
<1>2. /\ bur'[s] = e /\ \A t \in Slots : t # s => bur'[t] = bur[t]
      /\ bur' = [t \in Slots |-> bur'[t]] /\ \A t \in Slots : BurstIs(bur'[t])
      /\ \A t \in Slots : Same(bur'[t], bur[t])
    BY <1>1, BecomesIs DEF Shifted
<1>3. /\ cfg' = cfg /\ group' = group /\ nbuf' = nbuf /\ slot' = slot
      /\ seq' = seq /\ prepped' = prepped /\ Slots' = Slots
      /\ \A t \in Slots : After(t)' = After(t) /\ Ago(t)' = Ago(t)
    BY DEF Shifted, Slots, After, Ago
<1>5. cfg \in Settings /\ slot \in Slots
    BY <1>1 DEF TypeInv
<1>6. TypeInv'
    BY <1>1, <1>2, <1>3 DEF TypeInv, Shifted, MarksKept
<1>8. BurstInv'
  <2>1. SUFFICES ASSUME NEW t \in Slots, t # s PROVE BurstOf(t)'
      BY <1>3 DEF BurstInv
  <2>2. /\ PlanOf(t)' = PlanOf(t) /\ Bdepth(t)' = Bdepth(t) /\ RefB(t)' = RefB(t)
        /\ \A y : OwnGate(t, y) <=> OwnGate(t, y)'
      BY <1>2, <1>3, FixedIs
  <2>3. bur'[t] = bur[t] /\ prog'[t].pic = prog[t].pic /\ rprog'[t].pic = rprog[t].pic
      BY <1>2, <2>1 DEF Shifted
  <2>4. BurstOf(t)
      BY <1>1 DEF BurstInv
  <2> QED
      BY <2>2, <2>3, <2>4 DEF BurstOf
<1>9. GateInv'
  <2>1. SUFFICES ASSUME NEW g \in Slots, bur'[After(g)].anchor = "run",
                        NEW x \in bur'[After(g)].gates
                 PROVE  GateOn(g, x)'
      BY <1>3 DEF GateInv
  <2>2. After(g) \in Slots
      BY <1>5, SlotIs
  <2>3. bur[After(g)].anchor = "run" /\ bur'[After(g)].gates = bur[After(g)].gates
      BY <1>2, <2>1, <2>2 DEF Shifted, Same
  <2>4. GateOn(g, x)
      BY <1>1, <2>1, <2>3 DEF GateInv
  <2> QED
      BY <1>1, <2>4, GateKept
<1> QED
    BY <1>6, <1>8, <1>9

LEMMA MoveKeeps ==
    ASSUME IInv, NEW s \in Slots, NEW e, Moved(s, e), BurstOf(s)'
    PROVE  IInv'
<1>1. TypeInv /\ PlaceInv /\ ApiInv
    BY DEF IInv
<1>2. /\ bur'[s] = e /\ \A t \in Slots : t # s => bur'[t] = bur[t]
      /\ \A t \in Slots : Same(bur'[t], bur[t])
    BY <1>1, BecomesIs DEF Moved, Shifted
<1>3. /\ cfg' = cfg /\ api' = api /\ slot' = slot /\ seq' = seq /\ prepped' = prepped
      /\ Slots' = Slots /\ \A t \in Slots : After(t)' = After(t) /\ Ago(t)' = Ago(t)
    BY DEF Moved, Shifted, Slots, After, Ago
<1>4. \A t \in Slots : bur'[t].live <=> bur[t].live
    BY <1>2 DEF Moved
<1>5. cfg \in Settings /\ slot \in Slots
    BY <1>1 DEF TypeInv
<1>6. TypeInv' /\ BurstInv' /\ GateInv'
    BY <1>1, ShiftKeeps DEF Moved, TypeInv
<1>7. PlaceInv'
  <2>1. \A t \in Slots : bur'[t].seq = bur[t].seq
      BY <1>2 DEF Same
  <2> QED
      BY <1>1, <1>3, <1>4, <2>1 DEF PlaceInv
<1>10. ApiInv'
  <2>0. PICK g \in Slots : g = slot
      BY <1>5
  <2>1. api = "begin" => \A x \in prepped.gates : GateOn(g, x)'
    <3>1. api = "begin" => \A x \in prepped.gates : GateOn(g, x)
        BY <1>1, <2>0 DEF ApiInv
    <3> QED
        BY <1>1, <3>1, GateKept DEF Moved
  <2>1a. api' = "begin" => \A x \in prepped'.gates : GateOn(slot, x)'
    <3>1. slot' = g
        BY <1>3, <2>0
    <3>2. \A x : GateOn(g, x)' => GateOn(slot, x)'
        BY <3>1 DEF GateOn
    <3> QED
        BY <1>3, <2>1, <3>2
  <2>2. bur[slot].fired => bur'[slot].fired
      BY <1>2, <1>5 DEF Moved, Shifted
  <2>3. bur[slot].phase = "armed" => bur'[slot].phase = "armed"
      BY <1>2, <1>5 DEF Moved, Shifted
  <2>4. After(slot)' = After(slot) /\ After(slot) \in Slots
      BY <1>3, <1>5, SlotIs DEF After
  <2>5. api' = "begin" => ~(bur'[After(slot)'].live)
      BY <1>1, <1>3, <1>4, <2>4 DEF ApiInv
  <2>6. api' \in {"bill", "ring", "begin"} /\ bur'[slot'].live => bur'[slot'].fired
      BY <1>1, <1>3, <1>4, <1>5, <2>2 DEF ApiInv
  <2>7. api' \in {"retire", "rescue"} => bur'[slot'].live /\ bur'[slot'].phase = "armed"
      BY <1>1, <1>3, <1>4, <1>5, <2>3 DEF ApiInv
  <2> QED
      BY <2>1a, <2>5, <2>6, <2>7 DEF ApiInv
<1> QED
    BY <1>6, <1>7, <1>10 DEF IInv

\* A step that prepares nothing keeps what is said of its burst, if it keeps the
\* parts about where the chain stands.
Stands(s, e) ==
  /\ (~e.live => e.phase = "ended" /\ e.anchor = "done")
  /\ (e.fired => e.phase \in {"gate", "code", "ended"})
  /\ (e.phase \in {"gate", "code"} => e.fired)
  /\ (e.phase = "join" => e.err)
  /\ (e.fired => e.err \/ Len(e.bs) = Len(PlanOf(s)))

LEMMA BurstKept ==
    ASSUME TypeInv, NEW s \in Slots, NEW e, Becomes(s, e), cfg' = cfg, BurstOf(s),
           prog'[s].pic = prog[s].pic, rprog'[s].pic = rprog[s].pic, e.bs = bur[s].bs,
           Stands(s, e)
    PROVE  BurstOf(s)'
<1>1. bur'[s] = e /\ Same(bur'[s], bur[s])
    BY BecomesIs
<1>2. /\ PlanOf(s)' = PlanOf(s) /\ Bdepth(s)' = Bdepth(s) /\ RefB(s)' = RefB(s)
      /\ \A y : OwnGate(s, y) <=> OwnGate(s, y)'
    BY <1>1, FixedIs
<1>3. e.pic = bur[s].pic
    BY DEF Becomes, Same
<1> QED
    BY <1>1, <1>2, <1>3 DEF BurstOf, Stands

LEMMA MarksStay ==
    ASSUME TypeInv, cfg' = cfg
    PROVE  /\ prog' = prog => MarksKept(prog) /\ \A t \in Slots : prog'[t].pic = prog[t].pic
           /\ rprog' = rprog => MarksKept(rprog) /\ \A t \in Slots : rprog'[t].pic = rprog[t].pic
  BY DEF TypeInv, MarksKept

\* A watermark that becomes complete keeps its picture.
LEMMA MarksFill ==
    ASSUME TypeInv, cfg' = cfg, NEW s \in Slots
    PROVE  /\ prog' = [prog EXCEPT ![s].full = TRUE] =>
                MarksKept(prog) /\ \A t \in Slots : prog'[t].pic = prog[t].pic
           /\ rprog' = [rprog EXCEPT ![s].full = TRUE] =>
                MarksKept(rprog) /\ \A t \in Slots : rprog'[t].pic = rprog[t].pic
<1>1. prog = [t \in Slots |-> prog[t]] /\ MarkIs(prog[s]) /\ \A t \in Slots : MarkIs(prog[t])
    BY DEF TypeInv
<1>2. rprog = [t \in Slots |-> rprog[t]] /\ MarkIs(rprog[s]) /\ \A t \in Slots : MarkIs(rprog[t])
    BY DEF TypeInv
<1>3. Slots' = Slots
    BY DEF Slots
<1>4. ASSUME prog' = [prog EXCEPT ![s].full = TRUE]
      PROVE  MarksKept(prog) /\ \A t \in Slots : prog'[t].pic = prog[t].pic
    BY <1>1, <1>3, <1>4, Zenon DEF MarkIs, MarksKept
<1>5. ASSUME rprog' = [rprog EXCEPT ![s].full = TRUE]
      PROVE  MarksKept(rprog) /\ \A t \in Slots : rprog'[t].pic = rprog[t].pic
    BY <1>2, <1>3, <1>5, Zenon DEF MarkIs, MarksKept
<1> QED
    BY <1>4, <1>5

LEMMA AnalyzeKeeps ==
    ASSUME IInv, NEW s \in Slots, Analyze(s)
    PROVE  IInv'
<1>1. TypeInv /\ BurstOf(s)
    BY DEF IInv, BurstInv
<1>2. PICK e : /\ Becomes(s, e) /\ e.live = bur[s].live /\ e.phase = bur[s].phase
               /\ e.bs = bur[s].bs /\ e.fired = bur[s].fired /\ e.err = bur[s].err
               /\ e.anchor = "analyzed"
    BY <1>1, AnalyzeOf
<1>3. UNCHANGED <<cfg, api, group, nbuf, slot, seq, prepped, prog, rprog>> /\ bur[s].anchor = "run"
    BY DEF Analyze, marks
<1>4. Moved(s, e)
    BY <1>1, <1>2, <1>3, MarksStay DEF Moved, Shifted
<1>5. bur[s].live
    BY <1>1, <1>3 DEF BurstOf
<1>6. Stands(s, e)
    BY <1>1, <1>2, <1>5 DEF Stands, BurstOf
<1>7. BurstOf(s)'
    BY <1>1, <1>2, <1>3, <1>6, BurstKept
<1> QED
    BY <1>4, <1>7, MoveKeeps

LEMMA PublishKeeps ==
    ASSUME IInv, NEW s \in Slots, Publish(s)
    PROVE  IInv'
<1>1. TypeInv /\ BurstOf(s)
    BY DEF IInv, BurstInv
<1>2. PICK e : /\ Becomes(s, e) /\ e.live = bur[s].live /\ e.phase = bur[s].phase
               /\ e.bs = bur[s].bs /\ e.fired = bur[s].fired /\ e.err = bur[s].err
               /\ e.anchor = "done"
    BY <1>1, PublishOf
<1>3. /\ UNCHANGED <<cfg, api, group, nbuf, slot, seq, prepped, rprog>>
      /\ prog' = [prog EXCEPT ![s].full = TRUE]
    BY DEF Publish
<1>4. Moved(s, e)
    BY <1>1, <1>2, <1>3, MarksStay, MarksFill, Zenon DEF Moved, Shifted
<1>6. Stands(s, e)
    BY <1>1, <1>2 DEF Stands, BurstOf
<1>7. BurstOf(s)'
    BY <1>1, <1>2, <1>3, <1>4, <1>6, BurstKept DEF Moved, Shifted
<1> QED
    BY <1>4, <1>7, MoveKeeps

LEMMA WaitPrevKeeps ==
    ASSUME IInv, NEW s \in Slots, WaitPrev(s)
    PROVE  IInv'
<1>1. TypeInv /\ BurstOf(s)
    BY DEF IInv, BurstInv
<1>2. PICK e : /\ Becomes(s, e) /\ e.live = bur[s].live /\ e.anchor = bur[s].anchor
               /\ e.bs = bur[s].bs /\ e.fired = bur[s].fired /\ e.err = bur[s].err
               /\ e.phase = "prep"
    BY <1>1, WaitPrevOf
<1>3. UNCHANGED <<cfg, api, group, nbuf, slot, seq, prepped, prog, rprog>> /\ bur[s].phase = "wait"
    BY DEF WaitPrev, marks
<1>4. Moved(s, e)
    BY <1>1, <1>2, <1>3, MarksStay DEF Moved, Shifted, BurstOf
<1>5. Stands(s, e)
    BY <1>1, <1>2, <1>3 DEF Stands, BurstOf, TypeInv, BurstIs
<1>6. BurstOf(s)'
    BY <1>1, <1>2, <1>3, <1>4, <1>5, BurstKept DEF Moved, Shifted
<1> QED
    BY <1>4, <1>6, MoveKeeps

LEMMA BailKeeps ==
    ASSUME IInv, NEW s \in Slots, Bail(s)
    PROVE  IInv'
<1>1. TypeInv /\ BurstOf(s)
    BY DEF IInv, BurstInv
<1>2. PICK e : /\ Becomes(s, e) /\ e.live = bur[s].live /\ e.anchor = bur[s].anchor
               /\ e.bs = bur[s].bs /\ e.fired = bur[s].fired /\ e.phase = "join"
               /\ e.err = TRUE
    BY <1>1, BailOf, Zenon
<1>3. UNCHANGED <<cfg, api, group, nbuf, slot, seq, prepped, prog, rprog>> /\ bur[s].phase = "prep"
    BY DEF Bail, marks
<1>4. Moved(s, e)
    BY <1>1, <1>2, <1>3, MarksStay DEF Moved, Shifted, BurstOf
<1>5. Stands(s, e)
    BY <1>1, <1>2, <1>3 DEF Stands, BurstOf, TypeInv, BurstIs
<1>6. BurstOf(s)'
    BY <1>1, <1>2, <1>3, <1>4, <1>5, BurstKept DEF Moved, Shifted
<1> QED
    BY <1>4, <1>6, MoveKeeps

LEMMA FireKeeps ==
    ASSUME IInv, NEW s \in Slots, Fire(s)
    PROVE  IInv'
<1>1. TypeInv /\ BurstOf(s)
    BY DEF IInv, BurstInv
<1>2. PICK e : /\ Becomes(s, e) /\ e.live = bur[s].live /\ e.anchor = bur[s].anchor
               /\ e.bs = bur[s].bs /\ e.err = bur[s].err /\ e.phase = "gate"
               /\ e.fired = TRUE
    BY <1>1, FireOf, Zenon
<1>3. UNCHANGED <<cfg, api, group, nbuf, slot, seq, prepped, prog, rprog>> /\ bur[s].phase = "prep" /\ Len(bur[s].bs) = Len(PlanOf(s))
    BY DEF Fire, marks
<1>4. Moved(s, e)
    BY <1>1, <1>2, <1>3, MarksStay DEF Moved, Shifted, BurstOf
<1>5. Stands(s, e)
    BY <1>1, <1>2, <1>3 DEF Stands, BurstOf, TypeInv, BurstIs
<1>6. BurstOf(s)'
    BY <1>1, <1>2, <1>3, <1>4, <1>5, BurstKept DEF Moved, Shifted
<1> QED
    BY <1>4, <1>6, MoveKeeps

LEMMA WaitRefBKeeps ==
    ASSUME IInv, NEW s \in Slots, WaitRefB(s)
    PROVE  IInv'
<1>1. TypeInv /\ BurstOf(s)
    BY DEF IInv, BurstInv
<1>2. PICK e : /\ Becomes(s, e) /\ e.live = bur[s].live /\ e.anchor = bur[s].anchor
               /\ e.bs = bur[s].bs /\ e.fired = bur[s].fired /\ e.err = bur[s].err
               /\ e.phase = "code"
    BY <1>1, WaitRefBOf
<1>3. UNCHANGED <<cfg, api, group, nbuf, slot, seq, prepped, prog, rprog>> /\ bur[s].phase = "gate"
    BY DEF WaitRefB, marks
<1>4. Moved(s, e)
    BY <1>1, <1>2, <1>3, MarksStay DEF Moved, Shifted, BurstOf
<1>5. Stands(s, e)
    BY <1>1, <1>2, <1>3 DEF Stands, BurstOf, TypeInv, BurstIs
<1>6. BurstOf(s)'
    BY <1>1, <1>2, <1>3, <1>4, <1>5, BurstKept DEF Moved, Shifted
<1> QED
    BY <1>4, <1>6, MoveKeeps

LEMMA LaunchRefBKeeps ==
    ASSUME IInv, NEW s \in Slots, LaunchRefB(s)
    PROVE  IInv'
<1>1. TypeInv /\ BurstOf(s)
    BY DEF IInv, BurstInv
<1>2. PICK e : /\ Becomes(s, e) /\ e.live = bur[s].live /\ e.anchor = bur[s].anchor
               /\ e.bs = bur[s].bs /\ e.fired = bur[s].fired /\ e.err = bur[s].err
               /\ e.phase = bur[s].phase
    BY <1>1, LaunchRefBOf
<1>3. UNCHANGED <<cfg, api, group, nbuf, slot, seq, prepped, prog, rprog>> /\ bur[s].phase = "code"
    BY DEF LaunchRefB, marks
<1>4. Moved(s, e)
    BY <1>1, <1>2, <1>3, MarksStay DEF Moved, Shifted, BurstOf
<1>5. Stands(s, e)
    BY <1>1, <1>2, <1>3 DEF Stands, BurstOf, TypeInv, BurstIs
<1>6. BurstOf(s)'
    BY <1>1, <1>2, <1>3, <1>4, <1>5, BurstKept DEF Moved, Shifted
<1> QED
    BY <1>4, <1>6, MoveKeeps

LEMMA CodeBKeeps ==
    ASSUME IInv, NEW s \in Slots, CodeB(s)
    PROVE  IInv'
<1>1. TypeInv /\ BurstOf(s)
    BY DEF IInv, BurstInv
<1>2. PICK e : /\ Becomes(s, e) /\ e.live = bur[s].live /\ e.anchor = bur[s].anchor
               /\ e.bs = bur[s].bs /\ e.fired = bur[s].fired /\ e.err = bur[s].err
               /\ e.phase = bur[s].phase
    BY <1>1, CodeBOf
<1>3. UNCHANGED <<cfg, api, group, nbuf, slot, seq, prepped, prog, rprog>> /\ bur[s].phase = "code"
    BY DEF CodeB, marks
<1>4. Moved(s, e)
    BY <1>1, <1>2, <1>3, MarksStay DEF Moved, Shifted, BurstOf
<1>5. Stands(s, e)
    BY <1>1, <1>2, <1>3 DEF Stands, BurstOf, TypeInv, BurstIs
<1>6. BurstOf(s)'
    BY <1>1, <1>2, <1>3, <1>4, <1>5, BurstKept DEF Moved, Shifted
<1> QED
    BY <1>4, <1>6, MoveKeeps

LEMMA StreamRefBKeeps ==
    ASSUME IInv, NEW s \in Slots, StreamRefB(s)
    PROVE  IInv'
<1>1. TypeInv /\ BurstOf(s)
    BY DEF IInv, BurstInv
<1>2. PICK e : /\ Becomes(s, e) /\ e.live = bur[s].live /\ e.anchor = bur[s].anchor
               /\ e.bs = bur[s].bs /\ e.fired = bur[s].fired /\ e.err = bur[s].err
               /\ e.phase = bur[s].phase
    BY <1>1, StreamRefBOf
<1>3. UNCHANGED <<cfg, api, group, nbuf, slot, seq, prepped, prog>> /\ bur[s].refb = "run"
    BY DEF StreamRefB
<1>3a. rprog' = [rprog EXCEPT ![s].full = TRUE]
    BY DEF StreamRefB
<1>4. Moved(s, e)
    BY <1>1, <1>2, <1>3, <1>3a, MarksStay, MarksFill, Zenon DEF Moved, Shifted, BurstOf
<1>5. Stands(s, e)
    BY <1>1, <1>2, <1>3 DEF Stands, BurstOf, TypeInv, BurstIs
<1>6. BurstOf(s)'
    BY <1>1, <1>2, <1>3, <1>4, <1>5, BurstKept, <1>3a, MarksStay, MarksFill DEF Moved, Shifted
<1> QED
    BY <1>4, <1>6, MoveKeeps

LEMMA EndKeeps ==
    ASSUME IInv, NEW s \in Slots, End(s)
    PROVE  IInv'
<1>1. TypeInv /\ BurstOf(s)
    BY DEF IInv, BurstInv
<1>2. PICK e : /\ Becomes(s, e) /\ e.live = bur[s].live /\ e.anchor = bur[s].anchor
               /\ e.bs = bur[s].bs /\ e.err = bur[s].err /\ e.phase = "ended"
               /\ e.fired = TRUE
    BY <1>1, EndOf, Zenon
<1>3. UNCHANGED <<cfg, api, group, nbuf, slot, seq, prepped, prog>> /\ (bur[s].phase = "join" \/ bur[s].phase = "code") /\ bur[s].anchor = "done"
    BY DEF End, AllCoded
<1>3a. rprog' = rprog \/ rprog' = [rprog EXCEPT ![s].full = TRUE]
    BY DEF End, AllCoded
<1>4. Moved(s, e)
    BY <1>1, <1>2, <1>3, <1>3a, MarksStay, MarksFill DEF Moved, Shifted, BurstOf
<1>5. Stands(s, e)
    BY <1>1, <1>2, <1>3 DEF Stands, BurstOf, TypeInv, BurstIs
<1>6. BurstOf(s)'
    BY <1>1, <1>2, <1>3, <1>4, <1>5, BurstKept, <1>3a, MarksStay, MarksFill DEF Moved, Shifted
<1> QED
    BY <1>4, <1>6, MoveKeeps

LEMMA GatesOfOwn ==
    ASSUME NEW s \in Slots, NEW p
    PROVE  \A y \in GatesOf(s, p) : OwnGate(s, y)
<1>1. SUFFICES ASSUME NEW y \in GatesOf(s, p) PROVE OwnGate(s, y)
    OBVIOUS
<1>2. \/ y = [kind |-> "P", slot |-> s, pic |-> bur[s].pic]
      \/ Bdepth(s) /\ \E x \in {RefB(s)} : y = [kind |-> "R", slot |-> s, pic |-> x]
    BY <1>1 DEF GatesOf
<1> QED
    BY <1>2 DEF OwnGate

LEMMA PrepareBKeeps ==
    ASSUME IInv, NEW s \in Slots, PrepareB(s)
    PROVE  IInv'
<1>1. TypeInv /\ BurstOf(s)
    BY DEF IInv, BurstInv
<1>2. PICK e, x : /\ Becomes(s, e) /\ e.live = bur[s].live /\ e.anchor = bur[s].anchor
                  /\ e.phase = bur[s].phase /\ e.fired = bur[s].fired /\ e.err = bur[s].err
                  /\ e.bs = Append(bur[s].bs, x)
                  /\ x.pic = BOf(bur[s].group, bur[s].nbuf, NextB(s).m)
                  /\ x.gates = GatesOf(s, x.pic)
    BY <1>1, PrepareBOf
<1>3. /\ UNCHANGED <<cfg, api, group, nbuf, slot, seq, prepped, prog>>
      /\ bur[s].phase = "prep" /\ Len(bur[s].bs) + 1 <= Len(PlanOf(s))
      /\ rprog' = IF NextB(s).ref THEN Armed(s, x.pic) ELSE rprog
    BY <1>2 DEF PrepareB, NextB
<1>4. ~bur[s].fired
    BY <1>1, <1>3 DEF BurstOf
<1>5. /\ MarksKept(rprog) /\ (\A t \in Slots : t # s => rprog'[t].pic = rprog[t].pic)
      /\ (Bdepth(s) /\ NextB(s).ref => rprog'[s].pic = x.pic)
      /\ (~NextB(s).ref => rprog'[s].pic = rprog[s].pic)
  <2>1. rprog = [t \in Slots |-> rprog[t]] /\ (\A t \in Slots : MarkIs(rprog[t])) /\ Slots' = Slots
      BY <1>1, <1>3, Zenon DEF TypeInv, Slots
  <2>2. CASE rprog' = rprog /\ ~(Bdepth(s) /\ NextB(s).ref)
      BY <2>1, <2>2 DEF MarksKept
  <2>3. CASE Bdepth(s) /\ NextB(s).ref
    <3>1. PICK v : v = [pic |-> x.pic, full |-> FALSE]
        BY Zenon
    <3>2. rprog' = [rprog EXCEPT ![s] = v]
        BY <1>3, <2>3, <3>1 DEF Armed
    <3>3. MarkIs(v) /\ v.pic = x.pic
        BY <3>1 DEF MarkIs
    <3> QED
        BY <2>1, <2>3, <3>2, <3>3 DEF MarksKept
  <2> QED
      BY <1>3, <2>2, <2>3 DEF Armed
<1>6. Moved(s, e)
    BY <1>1, <1>2, <1>3, <1>4, <1>5, MarksStay DEF Moved, Shifted
<1>7. BurstIs(bur[s]) /\ bur[s].fired \in BOOLEAN
    BY <1>1 DEF TypeInv, BurstIs
<1>8. PICK q, n : q = bur[s].bs /\ n = Len(q)
    BY Zenon
<1>9. n \in Nat /\ q = [i \in 1 .. n |-> q[i]]
    BY <1>7, <1>8 DEF BurstIs
<1>10. /\ Len(e.bs) = n + 1 /\ e.bs[n + 1] = x
       /\ \A i \in 1 .. n : e.bs[i] = q[i]
    BY <1>2, <1>8, <1>9, AppendIs
<1>11. Bdepth(s) => rprog'[s].pic = RefB(s)
  <2>1. SUFFICES ASSUME Bdepth(s) PROVE rprog'[s].pic = RefB(s)
      OBVIOUS
  <2>2. PICK k : k = Len(PlanOf(s))
      BY Zenon
  <2>3. k \in Nat /\ \A i \in 1 .. k : PlanOf(s)[i].ref => i = 1
      BY <1>7, <2>1, <2>2, StreamsFirst, PlanOfIs
  <2>4. CASE n = 0
    <3>1. NextB(s) = PlanOf(s)[1]
        BY <1>8, <2>4 DEF NextB
    <3>2. NextB(s).ref /\ x.pic = RefB(s)
        BY <1>2, <2>1, <3>1 DEF Bdepth, RefB
    <3> QED
        BY <1>5, <2>1, <3>2
  <2>5. CASE n > 0
    <3>1. n + 1 \in 1 .. k /\ n + 1 # 1
        BY <1>3, <1>8, <1>9, <2>2, <2>3, <2>5
    <3>2. ~NextB(s).ref
        BY <1>8, <2>3, <3>1 DEF NextB
    <3>3. rprog[s].pic = RefB(s)
        BY <1>1, <1>8, <2>1, <2>5 DEF BurstOf
    <3> QED
        BY <1>5, <3>2, <3>3
  <2> QED
      BY <1>9, <2>4, <2>5
<1>12. \A i \in 1 .. n + 1 : \A y \in e.bs[i].gates : OwnGate(s, y)
  <2>1. \A i \in 1 .. n : \A y \in q[i].gates : OwnGate(s, y)
      BY <1>1, <1>8 DEF BurstOf
  <2>2. \A y \in e.bs[n + 1].gates : OwnGate(s, y)
      BY <1>2, <1>10, GatesOfOwn
  <2> QED
      BY <1>9, <1>10, <2>1, <2>2
<1>13. BurstOf(s)'
  <2>1. bur'[s] = e /\ Same(bur'[s], bur[s])
      BY <1>1, <1>2, BecomesIs
  <2>2. /\ PlanOf(s)' = PlanOf(s) /\ Bdepth(s)' = Bdepth(s) /\ RefB(s)' = RefB(s)
        /\ \A y : OwnGate(s, y) <=> OwnGate(s, y)'
      BY <1>3, <2>1, FixedIs
  <2>3. \A i \in 1 .. n + 1 : \A y \in e.bs[i].gates : OwnGate(s, y)'
      BY <1>12, <2>2
  <2>4. prog'[s].pic = e.pic
      BY <1>1, <1>2, <1>3 DEF BurstOf, Becomes, Same
  <2>5. ~e.fired /\ e.phase = "prep" /\ e.live
      BY <1>1, <1>2, <1>3, <1>4 DEF BurstOf
  <2> QED
      BY <1>10, <1>11, <2>1, <2>2, <2>3, <2>4, <2>5 DEF BurstOf
<1> QED
    BY <1>6, <1>13, MoveKeeps

-----------------------------------------------------------------------------
(* The API thread.                                                          *)

LEMMA ApiKeeps ==
    ASSUME IInv, cfg' = cfg, slot' = slot, seq' = seq, bur' = bur, prog' = prog, rprog' = rprog,
           api # "retire" \/ api' = api, api' \in Apis, group' \in Nat, nbuf' \in 0 .. 7, ApiInv'
    PROVE  IInv'
<1>1. TypeInv /\ PlaceInv /\ BurstInv /\ GateInv
    BY DEF IInv
<1>2. /\ Slots' = Slots /\ \A t \in Slots : After(t)' = After(t) /\ Ago(t)' = Ago(t)
    BY DEF Slots, After, Ago
<1>3. TypeInv'
    BY <1>1, <1>2 DEF TypeInv
<1>4. PlaceInv'
    BY <1>1, <1>2 DEF PlaceInv
<1>5. BurstInv'
  <2>1. SUFFICES ASSUME NEW t \in Slots PROVE BurstOf(t)'
      BY <1>2 DEF BurstInv
  <2>2. Same(bur'[t], bur[t])
      BY DEF Same
  <2>3. /\ PlanOf(t)' = PlanOf(t) /\ Bdepth(t)' = Bdepth(t) /\ RefB(t)' = RefB(t)
        /\ \A y : OwnGate(t, y) <=> OwnGate(t, y)'
      BY <2>2, FixedIs
  <2>4. BurstOf(t)
      BY <1>1 DEF BurstInv
  <2> QED
      BY <2>3, <2>4 DEF BurstOf
<1>6. GateInv'
  <2>1. \A g \in Slots : bur'[After(g)'] = bur[After(g)]
      BY <1>2
  <2>2. \A g, x : GateOn(g, x) <=> GateOn(g, x)'
      BY DEF GateOn
  <2> QED
      BY <1>1, <1>2, <2>1, <2>2 DEF GateInv
<1> QED
    BY <1>3, <1>4, <1>5, <1>6 DEF IInv

\* The gates of a launch are on the newest burst, while it is live.
LEMMA PreparedGates ==
    ASSUME IInv, Prepare
    PROVE  \A x \in prepped'.gates : GateOn(slot, x)
<1>1. SUFFICES ASSUME NEW x \in prepped'.gates PROVE GateOn(slot, x)
    OBVIOUS
<1>2. api = "ring" /\ TypeInv /\ ApiInv /\ slot \in Slots /\ cfg \in Settings
    BY DEF Prepare, IInv, TypeInv
<1>3. prepped'.gates =
        IF Fly = NoSlot THEN {}
        ELSE {[kind |-> "P", slot |-> Fly, pic |-> bur[Fly].pic]}
             \cup (IF GatesRefB(Fly)
                   THEN {[kind |-> "R", slot |-> Fly, pic |-> RefB(Fly)]} ELSE {})
    BY DEF Prepare
<1>4. bur[slot].live /\ Fly = slot
    BY <1>1, <1>3 DEF Fly
<1>5. bur[slot].fired /\ BurstOf(slot) /\ BurstIs(bur[slot])
    BY <1>2, <1>4 DEF ApiInv, IInv, BurstInv, TypeInv
<1>6. CASE x = [kind |-> "P", slot |-> slot, pic |-> bur[slot].pic]
    BY <1>5, <1>6 DEF GateOn, BurstOf
<1>7. CASE GatesRefB(slot) /\ x = [kind |-> "R", slot |-> slot, pic |-> RefB(slot)]
  <2>1. Bdepth(slot)
      BY <1>7 DEF GatesRefB
  <2>2. Len(PlanOf(slot)) > 0
      BY <1>2, <1>5, <2>1, StreamsFirst
  <2>3. bur[slot].err \/ rprog[slot].pic = RefB(slot)
      BY <1>5, <2>1, <2>2 DEF BurstOf
  <2> QED
      BY <1>5, <1>7, <2>3 DEF GateOn
<1> QED
    BY <1>1, <1>3, <1>4, <1>6, <1>7

LEMMA PrepareKeeps ==
    ASSUME IInv, Prepare
    PROVE  IInv'
<1>1. /\ api = "ring" /\ api' = "begin" /\ (cfg.wide => Cardinality(LiveSlots) < cfg.ring)
      /\ UNCHANGED <<cfg, group, nbuf, slot, seq, bur, prog, rprog>>
    BY DEF Prepare, marks
<1>2. TypeInv /\ PlaceInv /\ ApiInv /\ cfg \in Settings /\ slot \in Slots
    BY DEF IInv, TypeInv
<1>3. After(slot) \in Slots /\ After(slot) # slot
    BY <1>2, SlotIs
<1>4. ~bur[After(slot)].live
  <2>1. SUFFICES ASSUME bur[After(slot)].live PROVE FALSE
      OBVIOUS
  <2>2. cfg.wide
      BY <1>1, <1>2, <1>3, <2>1 DEF PlaceInv
  <2>3. \A t \in Slots : bur[t].live
    <3>1. SUFFICES ASSUME NEW t \in Slots, t # After(slot) PROVE bur[t].live
        BY <2>1
    <3>2. Ago(t) # Ago(After(slot))
        BY <1>2, <1>3, <3>1, AgoIs
    <3>3. Ago(t) < Ago(After(slot))
        BY <1>2, <3>2, AgoIs, CfgIs
    <3> QED
        BY <1>2, <1>3, <2>1, <3>3 DEF PlaceInv
  <2>4. LiveSlots = Slots
      BY <2>3 DEF LiveSlots
  <2> QED
      BY <1>1, <1>2, <2>2, <2>4, LiveFinite, CfgIs
<1>5. PICK g \in Slots : g = slot
    BY <1>2
<1>6. \A x \in prepped'.gates : GateOn(g, x)
    BY <1>5, PreparedGates
<1>7. \A x : GateOn(g, x) => GateOn(slot, x)'
    BY <1>1, <1>5 DEF GateOn
<1>8. ApiInv'
  <2>1. bur[slot].live => bur[slot].fired
      BY <1>1, <1>2 DEF ApiInv
  <2>2. \A x \in prepped'.gates : GateOn(slot, x)'
      BY <1>6, <1>7
  <2>3. ~(bur'[After(slot)'].live)
      BY <1>1, <1>4 DEF After
  <2> QED
      BY <1>1, <2>1, <2>2, <2>3 DEF ApiInv
<1> QED
    BY <1>1, <1>2, <1>8, ApiKeeps DEF Apis, TypeInv

\* The steps of the API thread that touch no burst.
LEMMA CallKeeps ==
    ASSUME IInv, \/ \E n \in 1 .. cfg.bframes : StartBurst(n)
                 \/ StartSerial \/ Bill \/ Flush \/ Finish
                 \/ \E idr \in BOOLEAN : SerialAnchor(idr)
    PROVE  IInv'
<1>1. TypeInv /\ ApiInv /\ cfg \in Settings /\ slot \in Slots /\ group \in Nat /\ nbuf \in 0 .. 7
    BY DEF IInv, TypeInv
<1>2. cfg.bframes \in 2 .. 7
    BY <1>1, CfgIs
<1>3. ASSUME NEW n \in 1 .. cfg.bframes, StartBurst(n) PROVE IInv'
  <2>1. /\ api = "idle" /\ api' = "bill" /\ group' = group + 1 /\ nbuf' = n
        /\ UNCHANGED <<cfg, slot, seq, bur, prog, rprog>> /\ (Fly # NoSlot => bur[Fly].fired)
      BY <1>3 DEF StartBurst, Take, marks
  <2>2. bur[slot].live => bur[slot].fired
    <3>1. slot # NoSlot
        BY <1>1, CfgIs DEF Slots, NoSlot
    <3> QED
        BY <2>1, <3>1 DEF Fly
  <2>3. ApiInv'
      BY <2>1, <2>2 DEF ApiInv
  <2>4. nbuf' \in 0 .. 7 /\ group' \in Nat
      BY <1>1, <1>2, <2>1
  <2> QED
      BY <2>1, <2>3, <2>4, ApiKeeps DEF Apis
<1>4. CASE StartSerial
  <2>1. /\ api = "idle" /\ api' = "drainall" /\ group' = group + 1 /\ nbuf' = 0
        /\ UNCHANGED <<cfg, slot, seq, bur, prog, rprog>>
      BY <1>4 DEF StartSerial, Take, marks
  <2>2. ApiInv'
      BY <2>1 DEF ApiInv
  <2>3. nbuf' \in 0 .. 7 /\ group' \in Nat
      BY <1>1, <2>1
  <2> QED
      BY <2>1, <2>2, <2>3, ApiKeeps DEF Apis
<1>5. CASE Bill
  <2>1. /\ api = "bill" /\ api' \in {"failed", "ring"}
        /\ UNCHANGED <<cfg, group, nbuf, slot, seq, bur, prog, rprog>>
      BY <1>5 DEF Bill, marks
  <2>2. ApiInv'
      BY <1>1, <2>1 DEF ApiInv
  <2> QED
      BY <1>1, <2>1, <2>2, ApiKeeps DEF Apis
<1>6. CASE Flush \/ Finish
  <2>1. /\ api \in {"idle", "flush", "dangling"} /\ api' \in {"flush", "end", "failed"}
        /\ UNCHANGED <<cfg, group, nbuf, slot, seq, bur, prog, rprog>>
      BY <1>6 DEF Flush, Finish, marks
  <2>2. ApiInv'
      BY <2>1 DEF ApiInv
  <2> QED
      BY <1>1, <2>1, <2>2, ApiKeeps DEF Apis
<1>7. ASSUME NEW idr \in BOOLEAN, SerialAnchor(idr) PROVE IInv'
  <2>1. /\ api = "drainall" /\ api' = "idle"
        /\ UNCHANGED <<cfg, group, nbuf, slot, seq, bur, prog, rprog>>
      BY <1>7, Zenon DEF SerialAnchor, marks
  <2>2. ApiInv'
      BY <2>1 DEF ApiInv
  <2> QED
      BY <1>1, <2>1, <2>2, ApiKeeps DEF Apis
<1> QED
    BY <1>3, <1>4, <1>5, <1>6, <1>7

LEMMA Least ==
    ASSUME NEW S, S \subseteq Nat, S # {}
    PROVE  \E m \in S : \A t \in S : m <= t
<1>1. PICK m \in S : \A y \in S : ~(<<y, m>> \in OpToRel(<, Nat))
    BY NatLessThanWellFounded, WFMin, Zenon
<1>2. \A t \in S : ~(t < m)
    BY <1>1, Zenon DEF OpToRel
<1> QED
    BY <1>2

LEMMA OldestIs ==
    ASSUME TypeInv, LiveSlots # {}
    PROVE  Oldest \in LiveSlots /\ \A t \in LiveSlots : bur[Oldest].seq <= bur[t].seq
<1>1. \A t \in LiveSlots : bur[t].seq \in Nat
    BY Zenon DEF TypeInv, LiveSlots, BurstIs
<1>2. PICK S : S = {bur[t].seq : t \in LiveSlots}
    BY Zenon
<1>3. S \subseteq Nat /\ S # {}
    BY <1>1, <1>2
<1>4. PICK m \in S : \A n \in S : m <= n
    BY <1>3, Least, Zenon
<1>5. \E s \in LiveSlots : \A t \in LiveSlots : bur[s].seq <= bur[t].seq
    BY <1>2, <1>4
<1> QED
    BY <1>5 DEF Oldest

LEMMA SubmitKeeps ==
    ASSUME IInv, Submit
    PROVE  IInv'
<1>1. TypeInv /\ PlaceInv /\ ApiInv /\ slot \in Slots
    BY DEF IInv, TypeInv
<1>2. PICK s \in Slots : s = slot
    BY <1>1
<1>3. PICK e : /\ Becomes(s, e) /\ e.live = bur[s].live /\ e.anchor = bur[s].anchor
               /\ e.bs = bur[s].bs /\ e.fired = bur[s].fired /\ e.err = bur[s].err
               /\ e.phase = "wait"
    BY <1>1, <1>2, SubmitOf
<1>4. /\ UNCHANGED <<cfg, group, nbuf, slot, seq, prepped, prog, rprog>>
      /\ api \in {"retire", "rescue"} /\ api' \in {"idle", "dangling"}
      /\ (api = "retire" => cfg.wide \/ Cardinality(LiveSlots) = 1)
    BY DEF Submit, marks
<1>5. bur[s].live /\ bur[s].phase = "armed" /\ BurstOf(s)
    BY <1>1, <1>2, <1>4 DEF ApiInv, IInv, BurstInv
<1>6. Shifted(s, e)
    BY <1>1, <1>3, <1>4, MarksStay DEF Shifted
<1>7. Stands(s, e)
    BY <1>3, <1>5 DEF Stands, BurstOf
<1>8. BurstOf(s)'
    BY <1>1, <1>3, <1>4, <1>5, <1>7, BurstKept
<1>9. TypeInv' /\ BurstInv' /\ GateInv'
    BY <1>4, <1>6, <1>8, ShiftKeeps DEF Apis
<1>10. /\ bur'[s] = e /\ (\A t \in Slots : t # s => bur'[t] = bur[t])
       /\ \A t \in Slots : Same(bur'[t], bur[t])
    BY <1>1, <1>3, BecomesIs
<1>11. /\ Slots' = Slots /\ \A t \in Slots : Ago(t)' = Ago(t)
    BY <1>4 DEF Slots, Ago
<1>12. \A t \in Slots : bur'[t].live <=> bur[t].live
    BY <1>3, <1>10
<1>13. ASSUME ~cfg.wide, NEW t \in Slots, bur[t].live PROVE t = slot
  <2>1. CASE api = "rescue"
      BY <1>1, <1>13, <2>1 DEF PlaceInv
  <2>2. CASE api = "retire"
    <3>1. Cardinality(LiveSlots) = 1 /\ IsFiniteSet(LiveSlots)
        BY <1>1, <1>4, <1>13, <2>2, LiveFinite DEF TypeInv
    <3>2. PICK k : LiveSlots = {k}
        BY <3>1, FS_Singleton, Zenon
    <3>3. t \in LiveSlots /\ s \in LiveSlots
        BY <1>5, <1>13 DEF LiveSlots
    <3> QED
        BY <1>2, <3>2, <3>3
  <2> QED
      BY <1>4, <2>1, <2>2
<1>14. PlaceInv'
  <2>1. \A t \in Slots : bur'[t].seq = bur[t].seq
      BY <1>10 DEF Same
  <2> QED
      BY <1>1, <1>4, <1>11, <1>12, <1>13, <2>1 DEF PlaceInv
<1>15. ApiInv'
    BY <1>4 DEF ApiInv
<1> QED
    BY <1>9, <1>14, <1>15 DEF IInv

LEMMA DrainOldestKeeps ==
    ASSUME IInv, DrainOldest
    PROVE  IInv'
<1>1. TypeInv /\ PlaceInv /\ ApiInv /\ slot \in Slots /\ cfg \in Settings
    BY DEF IInv, TypeInv
<1>2. PICK s : s = Oldest
    OBVIOUS
<1>3. /\ LiveSlots # {} /\ bur[s].phase = "ended" /\ bur[s].anchor = "done"
      /\ UNCHANGED <<cfg, group, nbuf, slot, seq, prepped, prog, rprog>>
    BY <1>2 DEF DrainOldest, Synced, marks
<1>4. s \in Slots /\ bur[s].live /\ \A t \in Slots : bur[t].live => bur[s].seq <= bur[t].seq
    BY <1>1, <1>2, <1>3, OldestIs DEF LiveSlots
<1>5. PICK e : /\ Becomes(s, e) /\ e.live = FALSE /\ e.anchor = bur[s].anchor
               /\ e.phase = bur[s].phase /\ e.bs = bur[s].bs /\ e.fired = bur[s].fired
               /\ e.err = bur[s].err
    BY <1>1, <1>2, <1>4, DrainOldestOf, Zenon
<1>6. /\ api \in {"ring", "retire", "drainall", "flush", "dangling"}
      /\ api' \in {api, "failed"} \/ (api = "retire" /\ api' = "rescue")
    BY DEF DrainOldest
<1>7. Shifted(s, e)
    BY <1>1, <1>3, <1>5, MarksStay DEF Shifted
<1>8. BurstOf(s) /\ Stands(s, e)
    BY <1>3, <1>4, <1>5 DEF Stands, BurstOf, IInv, BurstInv
<1>9. BurstOf(s)'
    BY <1>1, <1>3, <1>4, <1>5, <1>8, BurstKept
<1>10. TypeInv' /\ BurstInv' /\ GateInv'
    BY <1>4, <1>6, <1>7, <1>9, ShiftKeeps DEF Apis
<1>11. /\ bur'[s] = e /\ (\A t \in Slots : t # s => bur'[t] = bur[t])
       /\ \A t \in Slots : Same(bur'[t], bur[t])
    BY <1>1, <1>4, <1>5, BecomesIs
<1>12. Slots' = Slots /\ \A t \in Slots : Ago(t)' = Ago(t) /\ After(t)' = After(t)
    BY <1>3 DEF Slots, Ago, After
<1>13. /\ \A t \in Slots : t # s => (bur'[t].live <=> bur[t].live)
       /\ ~bur'[s].live
    BY <1>5, <1>11
<1>14. api = "retire" => s # slot
    BY <1>1, <1>3 DEF ApiInv
<1>15. PlaceInv'
  <2>1. \A t \in Slots : bur'[t].seq = bur[t].seq
      BY <1>11 DEF Same
  <2>2. \A t \in Slots : Ago(t) \in Nat
      BY <1>1, AgoIs, CfgIs
  <2>3. seq \in Nat
      BY <1>1 DEF TypeInv
  <2>4. ASSUME NEW u \in Slots, bur'[u].live, NEW t \in Slots, Ago(t) < Ago(u)
        PROVE  bur'[t].live
    <3>1. bur[u].live /\ bur[t].live
        BY <1>1, <1>4, <1>13, <2>4 DEF PlaceInv
    <3>2. bur[u].seq = seq - Ago(u) /\ bur[t].seq = seq - Ago(t)
        BY <1>1, <2>2, <2>3, <3>1 DEF PlaceInv
    <3>3. bur[s].seq <= bur[u].seq /\ bur[u].seq \in Nat /\ bur[s].seq \in Nat
        BY <1>1, <1>4, <3>1, Zenon DEF TypeInv, BurstIs
    <3>4. t # s
        BY <2>2, <2>3, <2>4, <3>2, <3>3
    <3> QED
        BY <1>13, <3>1, <3>4
  <2>5. ASSUME ~cfg.wide, NEW u \in Slots, bur'[u].live PROVE u = slot \/ (api' = "retire" /\ Ago(u) = 1)
    <3>1. u # s /\ bur[u].live
        BY <1>4, <1>13, <2>5
    <3>2. CASE api # "retire"
        BY <1>1, <2>5, <3>1, <3>2 DEF PlaceInv
    <3>3. CASE api = "retire"
      <4>1. Ago(s) = 1
          BY <1>1, <1>4, <1>14, <2>5, <3>3 DEF PlaceInv
      <4>2. Ago(u) # 1
          BY <1>1, <1>4, <3>1, <4>1, AgoIs
      <4> QED
          BY <1>1, <2>5, <3>1, <4>2 DEF PlaceInv
    <3> QED
        BY <3>2, <3>3
  <2>6. \A u \in Slots : Ago(u) >= seq => ~bur'[u].live
      BY <1>1, <1>13, <1>4 DEF PlaceInv
  <2> QED
      BY <1>1, <1>3, <1>12, <2>1, <2>4, <2>5, <2>6 DEF PlaceInv
<1>16. ApiInv'
  <2>1. api' # "begin"
      BY <1>6
  <2>2. api' = "ring" /\ bur'[slot].live => bur'[slot].fired
      BY <1>1, <1>5, <1>6, <1>11, <1>13 DEF ApiInv
  <2>3. api' \in {"retire", "rescue"} => bur'[slot].live /\ bur'[slot].phase = "armed"
      BY <1>1, <1>6, <1>11, <1>14 DEF ApiInv
  <2>4. api' # "bill"
      BY <1>6
  <2> QED
      BY <1>3, <2>1, <2>2, <2>3, <2>4 DEF ApiInv
<1> QED
    BY <1>10, <1>15, <1>16 DEF IInv

\* The burst a launch puts into its slot.
Fresh(n) ==
  /\ n.seq = seq + 1 /\ n.live = TRUE /\ n.group = group /\ n.pic = AnchorOf(group)
  /\ n.nbuf = nbuf /\ n.plane = rec /\ n.refs = prepped.refs /\ n.gates = prepped.gates
  /\ n.prevP = (IF cfg.wide THEN Fly ELSE NoSlot)
  /\ n.rbOf = (IF \E x \in prepped.gates : x.kind = "R" THEN Fly ELSE NoSlot) /\ n.rbSeq = seq
  /\ n.anchor = "run" /\ n.phase = "armed" /\ n.bs = <<>> /\ n.coded = 0 /\ n.refbDone = 0
  /\ n.refb = "none" /\ n.fired = FALSE /\ n.col = {} /\ n.err = FALSE

LEMMA BeginOf ==
    ASSUME TypeInv, Begin
    PROVE  \E n : bur' = [bur EXCEPT ![After(slot)] = n] /\ BurstIs(n) /\ Fresh(n)
<1>1. cfg \in Settings /\ slot \in Slots /\ seq \in Nat /\ group \in Nat /\ nbuf \in 0 .. 7
    BY DEF TypeInv
<1>2. PICK pv, rb, empty : /\ pv = (IF cfg.wide THEN Fly ELSE NoSlot)
                           /\ rb = (IF \E x \in prepped.gates : x.kind = "R" THEN Fly ELSE NoSlot)
                           /\ empty = <<>>
    OBVIOUS
<1>3. PICK n : n = [seq |-> seq + 1, live |-> TRUE, group |-> group, pic |-> AnchorOf(group),
            nbuf |-> nbuf, plane |-> rec, refs |-> prepped.refs, gates |-> prepped.gates,
            prevP |-> pv, rbOf |-> rb, rbSeq |-> seq, anchor |-> "run", phase |-> "armed",
            bs |-> empty, coded |-> 0, refbDone |-> 0, refb |-> "none", fired |-> FALSE,
            col |-> {}, err |-> FALSE]
    BY Zenon
<1>4. bur' = [bur EXCEPT ![After(slot)] = n]
  <2>1. NextSlot = After(slot)
      BY <1>1, SlotIs
  <2> QED
      BY <1>2, <1>3, <2>1 DEF Begin
<1>5. Len(empty) = 0 /\ empty = [i \in 1 .. Len(empty) |-> empty[i]]
    BY <1>2
<1>6. BurstIs(n)
    BY <1>1, <1>3, <1>5 DEF BurstIs, Phases
<1>7. Fresh(n)
    BY <1>2, <1>3 DEF Fresh
<1> QED
    BY <1>4, <1>6, <1>7, Zenon

\* How long ago each slot was taken, once the next has been.
LEMMA AgoNext ==
    ASSUME cfg \in Settings, slot \in Slots, cfg' = cfg, slot' = After(slot)
    PROVE  /\ \A t \in Slots : t = After(slot) => Ago(t)' = 0
           /\ \A t \in Slots : t # After(slot) => Ago(t)' = Ago(t) + 1
           /\ Slots' = Slots /\ \A t \in Slots : After(t)' = After(t)
<1>1. cfg.ring \in Nat /\ cfg.ring >= 2
    BY CfgIs
<1>2. After(slot) \in Slots
    BY SlotIs
<1>3. \A t \in Slots : Ago(t)' = IF t <= After(slot) THEN After(slot) - t
                                 ELSE After(slot) - t + cfg.ring
    BY DEF Ago
<1>4. \A t \in Slots : t # After(slot) => Ago(t)' = Ago(t) + 1
    BY <1>1, <1>3 DEF Ago, After, Slots
<1>5. \A t \in Slots : t = After(slot) => Ago(t)' = 0
    BY <1>1, <1>3 DEF Slots
<1>6. Slots' = Slots /\ \A t \in Slots : After(t)' = After(t)
    BY DEF Slots, After
<1> QED
    BY <1>4, <1>5, <1>6

\* Nobody is still analysing rows behind the watermark that a launch resets.
LEMMA GaterIsDone ==
    ASSUME IInv, Begin
    PROVE  bur[After(After(slot))].anchor # "run"
<1>1. TypeInv /\ PlaceInv /\ cfg \in Settings /\ slot \in Slots /\ BurstInv /\ api = "begin"
    BY DEF IInv, TypeInv, Begin
<1>2. PICK g, h : g = After(slot) /\ h = After(g)
    OBVIOUS
<1>3. g \in Slots /\ h \in Slots /\ NextSlot = g
    BY <1>1, <1>2, SlotIs
<1>4. (g + 1) % cfg.ring = h
  <2>1. cfg.ring \in Nat /\ cfg.ring >= 2 /\ g \in 0 .. cfg.ring - 1
      BY <1>1, <1>3, CfgIs DEF Slots
  <2>2. g + 1 \in 0 .. cfg.ring
      BY <2>1
  <2>3. (g + 1) % cfg.ring = IF g + 1 = cfg.ring THEN 0 ELSE g + 1
      BY <2>1, <2>2, ModIs
  <2>4. h = IF g + 1 = cfg.ring THEN 0 ELSE g + 1
      BY <1>2, <2>1 DEF After
  <2> QED
      BY <2>3, <2>4
<1>5. GaterDone
    BY DEF Begin
<1>6. ~bur[h].live => bur[h].anchor = "done"
    BY <1>1, <1>3 DEF BurstInv, BurstOf
<1>7. CASE cfg.wide
  <2>1. h \in LiveSlots => bur[h].anchor # "run"
      BY <1>3, <1>4, <1>5, <1>7 DEF GaterDone
  <2> QED
      BY <1>2, <1>3, <1>6, <2>1 DEF LiveSlots
<1>8. CASE ~cfg.wide
  <2>1. Fly \in LiveSlots => bur[Fly].anchor # "run"
      BY <1>5, <1>8 DEF GaterDone
  <2>2. bur[h].live => h = slot
      BY <1>1, <1>3, <1>8 DEF PlaceInv
  <2>3. bur[h].live => Fly = h /\ Fly \in LiveSlots
      BY <1>3, <2>2 DEF Fly, LiveSlots
  <2> QED
      BY <1>2, <1>6, <2>1, <2>3
<1> QED
    BY <1>7, <1>8

LEMMA BeginKeeps ==
    ASSUME IInv, Begin
    PROVE  IInv'
<1>1. TypeInv /\ PlaceInv /\ BurstInv /\ GateInv /\ ApiInv
    BY DEF IInv
<1>2. cfg \in Settings /\ slot \in Slots /\ seq \in Nat
    BY <1>1 DEF TypeInv
<1>3. PICK g \in Slots : g = After(slot)
    BY <1>2, SlotIs
<1>4. PICK n : bur' = [bur EXCEPT ![g] = n] /\ BurstIs(n) /\ Fresh(n)
    BY <1>1, <1>3, BeginOf
<1>5. /\ cfg' = cfg /\ group' = group /\ nbuf' = nbuf /\ slot' = g /\ seq' = seq + 1
      /\ rprog' = rprog /\ api = "begin" /\ api' = "retire"
      /\ prog' = [prog EXCEPT ![g] = [pic |-> AnchorOf(group), full |-> FALSE]]
    BY <1>2, <1>3, SlotIs DEF Begin
<1>6. /\ bur'[g] = n /\ (\A t \in Slots : t # g => bur'[t] = bur[t])
      /\ bur' = [t \in Slots |-> bur'[t]]
    BY <1>1, <1>4 DEF TypeInv
<1>7. /\ prog'[g].pic = n.pic /\ MarkIs(prog'[g]) /\ \A t \in Slots : t # g => prog'[t] = prog[t]
      /\ prog' = [t \in Slots |-> prog'[t]]
    BY <1>1, <1>4, <1>5, Zenon DEF TypeInv, MarkIs, Fresh
<1>8. /\ Slots' = Slots /\ \A t \in Slots : After(t)' = After(t)
      /\ Ago(g)' = 0 /\ \A t \in Slots : t # g => Ago(t)' = Ago(t) + 1
    BY <1>2, <1>3, <1>5, AgoNext
<1>9. \A t \in Slots : Ago(t) \in Nat
    BY <1>2, AgoIs, CfgIs
<1>10. TypeInv'
  <2>1. \A t \in Slots : BurstIs(bur'[t])
      BY <1>1, <1>4, <1>6 DEF TypeInv
  <2>2. \A t \in Slots : MarkIs(prog'[t])
      BY <1>1, <1>7 DEF TypeInv
  <2>3. seq' \in Nat /\ api' \in Apis
      BY <1>2, <1>5 DEF Apis
  <2> QED
      BY <1>1, <1>5, <1>6, <1>7, <1>8, <2>1, <2>2, <2>3 DEF TypeInv
<1>11. PlaceInv'
  <2>1. \A t \in Slots : Ago(t)' < seq' => bur'[t].seq = seq' - Ago(t)'
    <3>1. bur'[g].seq = seq' - Ago(g)'
        BY <1>2, <1>4, <1>5, <1>6, <1>8 DEF Fresh
    <3>2. ASSUME NEW t \in Slots, t # g, Ago(t)' < seq' PROVE bur'[t].seq = seq' - Ago(t)'
      <4>1. Ago(t)' = Ago(t) + 1 /\ Ago(t) \in Nat /\ bur'[t] = bur[t]
          BY <1>6, <1>8, <1>9, <3>2
      <4>2. Ago(t) < seq
          BY <1>2, <1>5, <3>2, <4>1
      <4>3. bur[t].seq = seq - Ago(t)
          BY <1>1, <4>2 DEF PlaceInv
      <4> QED
          BY <1>2, <1>5, <4>1, <4>3
    <3> QED
        BY <3>1, <3>2
  <2>2. \A t \in Slots : Ago(t)' >= seq' => bur'[t].seq = 0 /\ ~bur'[t].live
    <3>1. ASSUME NEW t \in Slots, Ago(t)' >= seq' PROVE bur'[t].seq = 0 /\ ~bur'[t].live
      <4>1. t # g
          BY <1>2, <1>5, <1>8, <3>1
      <4>2. Ago(t)' = Ago(t) + 1 /\ Ago(t) \in Nat /\ bur'[t] = bur[t]
          BY <1>6, <1>8, <1>9, <4>1
      <4>3. Ago(t) >= seq
          BY <1>2, <1>5, <3>1, <4>2
      <4> QED
          BY <1>1, <4>2, <4>3 DEF PlaceInv
    <3> QED
        BY <3>1
  <2>3. \A t, u \in Slots : bur'[t].live /\ Ago(u)' < Ago(t)' => bur'[u].live
    <3>1. ASSUME NEW t \in Slots, NEW u \in Slots, bur'[t].live, Ago(u)' < Ago(t)'
          PROVE  bur'[u].live
      <4>1. CASE u = g
          BY <1>4, <1>6, <4>1 DEF Fresh
      <4>2. CASE u # g
        <5>1. t # g
            BY <1>8, <1>9, <3>1, <4>2
        <5>2. Ago(u) < Ago(t) /\ bur[t].live
            BY <1>6, <1>8, <1>9, <3>1, <4>2, <5>1
        <5> QED
            BY <1>1, <1>6, <4>2, <5>2 DEF PlaceInv
      <4> QED
          BY <4>1, <4>2
    <3> QED
        BY <3>1
  <2>4. \A t \in Slots : ~cfg.wide /\ bur'[t].live => t = slot' \/ Ago(t)' = 1
    <3>1. ASSUME NEW t \in Slots, ~cfg.wide, bur'[t].live, t # g PROVE Ago(t)' = 1
      <4>1. t = slot
          BY <1>1, <1>5, <1>6, <3>1 DEF PlaceInv
      <4>2. Ago(t) = 0
          BY <1>2, <4>1, AgoIs
      <4> QED
          BY <1>8, <3>1, <4>2
    <3> QED
        BY <1>5, <3>1
  <2> QED
      BY <1>5, <1>8, <2>1, <2>2, <2>3, <2>4 DEF PlaceInv
<1>12. BurstInv'
  <2>1. ASSUME NEW t \in Slots, t # g PROVE BurstOf(t)'
    <3>1. bur'[t] = bur[t] /\ prog'[t] = prog[t] /\ rprog'[t] = rprog[t]
        BY <1>5, <1>6, <1>7, <2>1
    <3>2. Same(bur'[t], bur[t])
        BY <3>1 DEF Same
    <3>3. /\ PlanOf(t)' = PlanOf(t) /\ Bdepth(t)' = Bdepth(t) /\ RefB(t)' = RefB(t)
          /\ \A y : OwnGate(t, y) <=> OwnGate(t, y)'
        BY <1>5, <3>2, FixedIs
    <3>4. BurstOf(t)
        BY <1>1 DEF BurstInv
    <3> QED
        BY <3>1, <3>3, <3>4 DEF BurstOf
  <2>2. BurstOf(g)'
    <3>1. Len(n.bs) = 0 /\ 1 .. Len(n.bs) = {}
        BY <1>4 DEF Fresh
    <3>2. n.live /\ ~n.fired /\ n.phase = "armed"
        BY <1>4 DEF Fresh
    <3> QED
        BY <1>6, <1>7, <3>1, <3>2 DEF BurstOf
  <2> QED
      BY <1>8, <2>1, <2>2 DEF BurstInv
<1>13. GateInv'
  <2>1. SUFFICES ASSUME NEW h \in Slots, bur'[After(h)].anchor = "run",
                        NEW x \in bur'[After(h)].gates
                 PROVE  GateOn(h, x)'
      BY <1>8 DEF GateInv
  <2>2. After(h) \in Slots /\ After(h) # h
      BY <1>2, SlotIs
  <2>3. ASSUME h # g, GateOn(h, x) PROVE GateOn(h, x)'
    <3>1. bur'[h] = bur[h] /\ prog'[h] = prog[h] /\ rprog'[h] = rprog[h]
        BY <1>5, <1>6, <1>7, <2>3
    <3> QED
        BY <2>3, <3>1 DEF GateOn
  <2>4. CASE After(h) = g
    <3>1. h = slot
        BY <1>2, <1>3, <2>4, SlotIs
    <3>2. x \in prepped.gates
        BY <1>4, <1>6, <2>1, <2>4 DEF Fresh
    <3>3. GateOn(h, x)
        BY <1>1, <1>5, <3>1, <3>2 DEF ApiInv
    <3> QED
        BY <2>2, <2>3, <2>4, <3>3
  <2>5. CASE After(h) # g
    <3>1. bur'[After(h)] = bur[After(h)]
        BY <1>6, <2>2, <2>5
    <3>2. h # g
        BY <1>3, <2>1, <3>1, GaterIsDone
    <3>3. GateOn(h, x)
        BY <1>1, <2>1, <3>1 DEF GateInv
    <3> QED
        BY <2>3, <3>2, <3>3
  <2> QED
      BY <2>4, <2>5
<1>14. ApiInv'
  <2>1. bur'[g].live /\ bur'[g].phase = "armed"
      BY <1>4, <1>6 DEF Fresh
  <2> QED
      BY <1>5, <2>1 DEF ApiInv
<1> QED
    BY <1>10, <1>11, <1>12, <1>13, <1>14 DEF IInv

-----------------------------------------------------------------------------
(* The theorems.                                                            *)

LEMMA InitHolds ==
    ASSUME Init
    PROVE  IInv
<1>1. /\ cfg \in Settings /\ api = "idle" /\ group = 0 /\ nbuf = 0 /\ slot = 0 /\ seq = 0
      /\ bur = [s \in Slots |-> Idle]
      /\ prog = [s \in Slots |-> [pic |-> 0, full |-> TRUE]]
      /\ rprog = [s \in Slots |-> [pic |-> 0, full |-> TRUE]]
    BY DEF Init
<1>2. cfg.ring \in Nat /\ cfg.ring >= 2
    BY <1>1, CfgIs
<1>3. PICK i : i = Idle
    OBVIOUS
<1>4. PICK empty : empty = <<>>
    OBVIOUS
<1>5. Len(empty) = 0 /\ empty = [k \in 1 .. Len(empty) |-> empty[k]]
    BY <1>4
<1>6. BurstIs(i)
    BY <1>3, <1>4, <1>5 DEF Idle, BurstIs, Phases, NoSlot, NoBuffer
<1>7. /\ i.seq = 0 /\ ~i.live /\ i.pic = 0 /\ i.nbuf = 0 /\ i.anchor = "done" /\ i.phase = "ended"
      /\ Len(i.bs) = 0 /\ i.fired
    BY <1>3 DEF Idle
<1>8. \A s \in Slots : bur[s] = i
    BY <1>1, <1>3
<1>9. TypeInv
  <2>1. slot \in Slots /\ seq \in Nat /\ group \in Nat /\ nbuf \in 0 .. 7 /\ api \in Apis
      BY <1>1, <1>2 DEF Slots, Apis
  <2>2. bur = [s \in Slots |-> bur[s]] /\ \A s \in Slots : BurstIs(bur[s])
      BY <1>1, <1>6, <1>8
  <2>3. prog = [s \in Slots |-> prog[s]] /\ \A s \in Slots : MarkIs(prog[s])
      BY <1>1 DEF MarkIs
  <2>4. rprog = [s \in Slots |-> rprog[s]] /\ \A s \in Slots : MarkIs(rprog[s])
      BY <1>1 DEF MarkIs
  <2> QED
      BY <1>1, <2>1, <2>2, <2>3, <2>4 DEF TypeInv
<1>10. PlaceInv
    BY <1>1, <1>2, <1>7, <1>8 DEF PlaceInv, Ago, Slots
<1>11. BurstInv
  <2>1. SUFFICES ASSUME NEW s \in Slots PROVE BurstOf(s)
      BY DEF BurstInv
  <2>2. PlanOf(s) = <<>>
      BY <1>7, <1>8, PlanIs, RoundEmpty DEF PlanOf
  <2>3. Len(PlanOf(s)) = 0
      BY <2>2
  <2> QED
      BY <1>1, <1>7, <1>8, <2>3 DEF BurstOf
<1>12. GateInv
    BY <1>1, <1>7, <1>8, SlotIs DEF GateInv
<1>13. ApiInv
    BY <1>1 DEF ApiInv
<1> QED
    BY <1>9, <1>10, <1>11, <1>12, <1>13 DEF IInv

LEMMA StepHolds ==
    ASSUME IInv, [Next]_vars
    PROVE  IInv'
<1>1. CASE Api
    BY <1>1, CallKeeps, DrainOldestKeeps, PrepareKeeps, BeginKeeps, SubmitKeeps DEF Api
<1>2. ASSUME NEW s \in Slots, Chain(s) \/ Bail(s) \/ Anchor(s) \/ StreamRefB(s)
      PROVE  IInv'
    BY <1>2, WaitPrevKeeps, PrepareBKeeps, FireKeeps, WaitRefBKeeps, LaunchRefBKeeps, CodeBKeeps,
       EndKeeps, BailKeeps, AnalyzeKeeps, PublishKeeps, StreamRefBKeeps DEF Chain, Anchor
<1>3. CASE UNCHANGED vars
  <2>1. /\ cfg' = cfg /\ slot' = slot /\ seq' = seq /\ bur' = bur /\ prog' = prog /\ rprog' = rprog
        /\ api' = api /\ group' = group /\ nbuf' = nbuf /\ prepped' = prepped
      BY <1>3 DEF vars, marks
  <2>2. api \in Apis /\ group \in Nat /\ nbuf \in 0 .. 7 /\ ApiInv
      BY DEF IInv, TypeInv
  <2>3. After(slot)' = After(slot) /\ \A g, x : GateOn(g, x) <=> GateOn(g, x)'
      BY <2>1 DEF After, GateOn
  <2>4. ApiInv'
      BY <2>1, <2>2, <2>3 DEF ApiInv
  <2> QED
      BY <2>1, <2>2, <2>4, ApiKeeps
<1> QED
    BY <1>1, <1>2, <1>3 DEF Next

\* The invariant of the ring, for every setting.
THEOREM RingInvariant == Spec => []IInv
<1>1. Init => IInv
    BY InitHolds
<1>2. IInv /\ [Next]_vars => IInv'
    BY StepHolds
<1> QED
    BY <1>1, <1>2, PTL DEF Spec

LEMMA GatesAreOwn ==
    ASSUME IInv
    PROVE  GatesOwn
<1>1. SUFFICES ASSUME Sound, NEW s \in LiveSlots
               PROVE  /\ bur[s].anchor = "run" => \A x \in bur[s].gates : Mark(x).pic = x.pic
                      /\ \A x \in Pending(s) : \A y \in x.gates : Mark(y).pic = y.pic
    BY DEF GatesOwn
<1>2. TypeInv /\ BurstInv /\ GateInv /\ s \in Slots /\ cfg \in Settings
    BY <1>1 DEF IInv, TypeInv, LiveSlots
<1>3. PICK g \in Slots : After(g) = s
  <2>1. cfg.ring \in Nat /\ cfg.ring >= 2
      BY <1>2, CfgIs
  <2>2. PICK g : g = IF s = 0 THEN cfg.ring - 1 ELSE s - 1
      OBVIOUS
  <2>3. g \in Slots /\ After(g) = s
      BY <1>2, <2>1, <2>2 DEF Slots, After
  <2> QED
      BY <2>3
<1>4. ASSUME bur[s].anchor = "run", NEW x \in bur[s].gates PROVE Mark(x).pic = x.pic
  <2>1. GateOn(g, x) /\ ~bur[g].err
      BY <1>1, <1>2, <1>3, <1>4 DEF GateInv, Sound
  <2> QED
      BY <2>1 DEF GateOn, Mark
<1>5. ASSUME NEW x \in Pending(s), NEW y \in x.gates PROVE Mark(y).pic = y.pic
  <2>1. BurstOf(s) /\ BurstIs(bur[s])
      BY <1>2 DEF BurstInv, TypeInv
  <2>2. PICK i \in DOMAIN bur[s].bs : x = bur[s].bs[i]
      BY <1>5 DEF Pending
  <2>3. i \in 1 .. Len(bur[s].bs) /\ Len(bur[s].bs) \in Nat
      BY <2>1, <2>2 DEF BurstIs
  <2>4. OwnGate(s, y)
      BY <1>5, <2>1, <2>2, <2>3 DEF BurstOf
  <2>5. Len(bur[s].bs) > 0
      BY <2>3
  <2>6. y.kind = "R" => rprog[s].pic = y.pic
      BY <2>1, <2>4, <2>5 DEF OwnGate, BurstOf
  <2>7. y.kind = "P" => prog[s].pic = y.pic
      BY <2>1, <2>4 DEF OwnGate, BurstOf
  <2> QED
      BY <2>4, <2>6, <2>7 DEF OwnGate, Mark
<1> QED
    BY <1>4, <1>5

\* The watermark that an anchor's or a B picture's rows are gated on is that of the
\* picture the gate was installed for, whatever the slots have held before.
THEOREM RingGates == Spec => []GatesOwn
<1>1. IInv => GatesOwn
    BY GatesAreOwn
<1> QED
    BY <1>1, RingInvariant, PTL

-----------------------------------------------------------------------------
(* The coding plans, entry by entry.                                        *)

Joined(r, p, q) ==
  /\ Len(r) = Len(p) + Len(q)
  /\ \A i \in 1 .. Len(p) : r[i] = p[i]
  /\ \A i \in 1 .. Len(q) : r[Len(p) + i] = q[i]
LEMMA CatIs ==
    ASSUME NEW S
    PROVE  \A p, q \in Seq(S) : p \o q \in Seq(S) /\ Joined(p \o q, p, q)
<1>0. SUFFICES ASSUME NEW p \in Seq(S), NEW q \in Seq(S)
               PROVE  p \o q \in Seq(S) /\ Joined(p \o q, p, q)
    OBVIOUS
<1>r. PICK r : r = p \o q
    BY Zenon
<1>1. r \in Seq(S) /\ Len(r) = Len(p) + Len(q)
    BY <1>r, ConcatProperties
<1>2. \A i \in 1 .. Len(p) : r[i] = p[i]
    BY <1>r, ConcatProperties
<1>3. ASSUME NEW i \in 1 .. Len(q) PROVE r[Len(p) + i] = q[i]
  <2>1. Len(p) \in Nat /\ Len(q) \in Nat
      BY LenProperties
  <2>2. Len(p) + i \in 1 .. Len(p) + Len(q) /\ ~(Len(p) + i <= Len(p))
      BY <2>1
  <2> QED
      BY <1>r, <2>1, <2>2, ConcatProperties
<1> QED
    BY <1>r, <1>1, <1>2, <1>3 DEF Joined

\* An entry for a reference B, and one for a leaf.
RefAt(x, m)  == x.m = m /\ x.ref
LeafAt(x, m) == x.m = m /\ ~x.ref

LEMMA PlanRange == \A a, b \in 0 .. 7 : Plan[a][b] \in Seq(PlanEntry)
<1>1. PlanOk(8)
  <2>1. PlanOk(0)
    <3>1. SUFFICES ASSUME NEW x \in 0 .. 7, NEW y \in 0 .. 7, y - x < 0
                   PROVE  Plan[x][y] \in Seq(PlanEntry)
        BY Zenon DEF PlanOk
    <3>2. x >= y
        BY <3>1
    <3>3. Plan[x][y] = <<>>
        BY <3>2, PlanIs, RoundEmpty
    <3> QED
        BY <3>3
  <2>2. PlanOk(1)
      BY <2>1, PlanOkStep, 0 + 1 = 1
  <2>3. PlanOk(2)
      BY <2>2, PlanOkStep, 1 + 1 = 2
  <2>4. PlanOk(3)
      BY <2>3, PlanOkStep, 2 + 1 = 3
  <2>5. PlanOk(4)
      BY <2>4, PlanOkStep, 3 + 1 = 4
  <2>6. PlanOk(5)
      BY <2>5, PlanOkStep, 4 + 1 = 5
  <2>7. PlanOk(6)
      BY <2>6, PlanOkStep, 5 + 1 = 6
  <2>8. PlanOk(7)
      BY <2>7, PlanOkStep, 6 + 1 = 7
  <2> QED
      BY <2>8, PlanOkStep, 7 + 1 = 8
<1>2. \A a, b \in 0 .. 7 : b - a < 8
    OBVIOUS
<1> QED
    BY <1>1, <1>2, Zenon DEF PlanOk

\* A run's plan: its middle, then the plans of its halves.
Halves(r, a, b, m, p, q) ==
  /\ Len(r) = 1 + Len(p) + Len(q)
  /\ r[1].m = m /\ (r[1].ref <=> (m > a \/ m + 1 < b))
  /\ \A i \in 1 .. Len(p) : r[1 + i] = p[i]
  /\ \A i \in 1 .. Len(q) : r[1 + Len(p) + i] = q[i]

LEMMA PlanCut ==
    ASSUME NEW a \in 0 .. 7, NEW b \in 0 .. 7, ~(a >= b), NEW m, m = (a + b) \div 2
    PROVE  Halves(Plan[a][b], a, b, m, Plan[a][m], Plan[m + 1][b])
<1>0. m \in 0 .. 7 /\ m + 1 \in 0 .. 7
    BY Middle
<1>1. PICK p, q, r : p = Plan[a][m] /\ q = Plan[m + 1][b] /\ r = Plan[a][b]
    OBVIOUS
<1>1a. p \in Seq(PlanEntry) /\ q \in Seq(PlanEntry)
    BY <1>0, <1>1, PlanRange, Zenon
<1>2. PICK e : e = [m |-> m, ref |-> m > a \/ m + 1 < b]
    BY Zenon
<1>3. e \in PlanEntry /\ e.m = m /\ (e.ref <=> (m > a \/ m + 1 < b))
  <2>1. PICK c : c = (m > a \/ m + 1 < b)
      OBVIOUS
  <2>2. c \in BOOLEAN /\ (c <=> (m > a \/ m + 1 < b))
      BY <2>1, Zenon
  <2>3. e = [m |-> m, ref |-> c]
      BY <1>2, <2>1
  <2>4. e.m = m /\ e.ref = c
      BY <2>3
  <2> QED
      BY <1>0, <2>2, <2>3, <2>4 DEF PlanEntry
<1>4. PICK h : h = <<e>>
    BY Zenon
<1>5. h \in Seq(PlanEntry) /\ Len(h) = 1 /\ h[1] = e
    BY <1>3, <1>4
<1>6. PICK t : t = h \o p
    BY Zenon
<1>7. t \in Seq(PlanEntry) /\ Joined(t, h, p)
    BY <1>1a, <1>5, <1>6, CatIs
<1>8. r = t \o q
  <2>1. r = Split(Plan, a, b, m)
      BY <1>1, PlanIs, RoundSplit
  <2> QED
      BY <1>1, <1>2, <1>4, <1>6, <2>1 DEF Split
<1>9. Joined(r, t, q)
    BY <1>1a, <1>7, <1>8, CatIs
<1>10. Len(p) \in Nat /\ Len(q) \in Nat
    BY <1>1a
<1>11. Len(t) = 1 + Len(p) /\ t[1] = e /\ \A i \in 1 .. Len(p) : t[1 + i] = p[i]
    BY <1>5, <1>7, <1>10, SMTT(40) DEF Joined
<1>12. Len(r) = 1 + Len(p) + Len(q) /\ r[1] = e
  <2>1. 1 \in 1 .. Len(t)
      BY <1>10, <1>11
  <2> QED
      BY <1>9, <1>10, <1>11, <2>1 DEF Joined
<1>13. ASSUME NEW i \in 1 .. Len(p) PROVE r[1 + i] = p[i]
  <2>1. 1 + i \in 1 .. Len(t)
      BY <1>10, <1>11
  <2> QED
      BY <1>9, <1>11, <2>1 DEF Joined
<1>14. \A i \in 1 .. Len(q) : r[1 + Len(p) + i] = q[i]
    BY <1>9, <1>10, <1>11 DEF Joined
<1>15. Halves(r, a, b, m, p, q)
    BY <1>3, <1>12, <1>13, <1>14 DEF Halves
<1> QED
    BY <1>1, <1>15

LEMMA PlanNone == \A a \in 0 .. 7 : Len(Plan[a][a]) = 0
<1>1. SUFFICES ASSUME NEW a \in 0 .. 7 PROVE Len(Plan[a][a]) = 0
    OBVIOUS
<1>2. Plan[a][a] = <<>>
    BY PlanIs, RoundEmpty
<1> QED
    BY <1>2

\* The entries of a run cut into plans of known lengths.
LEMMA HalvesAre ==
    ASSUME NEW r, NEW a \in Int, NEW b \in Int, NEW m \in Int, NEW p, NEW q,
           NEW k \in 0 .. 3, NEW l \in 0 .. 3, Len(p) = k, Len(q) = l, Halves(r, a, b, m, p, q)
    PROVE  /\ Len(r) = 1 + k + l
           /\ (m > a \/ m + 1 < b => RefAt(r[1], m))
           /\ (~(m > a) /\ ~(m + 1 < b) => LeafAt(r[1], m))
           /\ (1 <= k => r[2] = p[1]) /\ (2 <= k => r[3] = p[2]) /\ (3 <= k => r[4] = p[3])
           /\ (1 <= l => r[2 + k] = q[1]) /\ (2 <= l => r[3 + k] = q[2])
           /\ (3 <= l => r[4 + k] = q[3])
<1>1. \A i \in 1 .. k : r[1 + i] = p[i]
    BY DEF Halves
<1>2. \A i \in 1 .. l : r[1 + k + i] = q[i]
    BY DEF Halves
<1>3. (1 <= k => r[2] = p[1]) /\ (2 <= k => r[3] = p[2]) /\ (3 <= k => r[4] = p[3])
    BY <1>1
<1>4. 1 <= l => r[1 + k + 1] = q[1]
    BY <1>2
<1>5. 2 <= l => r[1 + k + 2] = q[2]
    BY <1>2
<1>6. 3 <= l => r[1 + k + 3] = q[3]
    BY <1>2
<1>7. 1 + k + 1 = 2 + k /\ 1 + k + 2 = 3 + k /\ 1 + k + 3 = 4 + k
    OBVIOUS
<1>8. (1 <= l => r[2 + k] = q[1]) /\ (2 <= l => r[3 + k] = q[2]) /\ (3 <= l => r[4 + k] = q[3])
    BY <1>4, <1>5, <1>6, <1>7
<1> QED
    BY <1>3, <1>8 DEF Halves, RefAt, LeafAt

IsOne(r, a) == Len(r) = 1 /\ LeafAt(r[1], a)
LEMMA PlanOne == \A a \in 0 .. 6 : \A b : b = a + 1 => IsOne(Plan[a][b], a)
<1>1. SUFFICES ASSUME NEW a \in 0 .. 6, NEW b \in 0 .. 7, b = a + 1
               PROVE  IsOne(Plan[a][b], a)
    OBVIOUS
<1>2. PICK p, q, r : p = Plan[a][a] /\ q = Plan[a + 1][b] /\ r = Plan[a][b]
    OBVIOUS
<1>3. Len(p) = 0 /\ Len(q) = 0
    BY <1>1, <1>2, PlanNone
<1>4. a = (a + b) \div 2
    BY <1>1
<1>5. Halves(r, a, b, a, p, q)
    BY <1>1, <1>2, <1>4, PlanCut
<1>6. Len(r) = 1 + 0 + 0 /\ LeafAt(r[1], a)
    BY <1>1, <1>3, <1>5, HalvesAre
<1> QED
    BY <1>2, <1>6 DEF IsOne

IsTwo(r, a) == Len(r) = 2 /\ RefAt(r[1], a + 1) /\ LeafAt(r[2], a)
LEMMA PlanTwo == \A a \in 0 .. 5 : \A b : b = a + 2 => IsTwo(Plan[a][b], a)
<1>1. SUFFICES ASSUME NEW a \in 0 .. 5, NEW b \in 0 .. 7, b = a + 2
               PROVE  IsTwo(Plan[a][b], a)
    OBVIOUS
<1>2. PICK m \in 0 .. 7 : m = a + 1
    OBVIOUS
<1>2a. PICK p, q, r : p = Plan[a][m] /\ q = Plan[m + 1][b] /\ r = Plan[a][b]
    OBVIOUS
<1>3. Len(p) = 1 /\ LeafAt(p[1], a) /\ Len(q) = 0
    BY <1>1, <1>2, <1>2a, PlanOne, PlanNone DEF IsOne
<1>4. m = (a + b) \div 2
    BY <1>1, <1>2
<1>5. Halves(r, a, b, m, p, q)
    BY <1>1, <1>2a, <1>4, PlanCut
<1>6. Len(r) = 1 + 1 + 0 /\ RefAt(r[1], m) /\ r[2] = p[1]
    BY <1>1, <1>2, <1>3, <1>5, HalvesAre
<1> QED
    BY <1>2, <1>2a, <1>3, <1>6 DEF IsTwo

IsThree(r, a) == Len(r) = 3 /\ RefAt(r[1], a + 1) /\ LeafAt(r[2], a) /\ LeafAt(r[3], a + 2)
LEMMA PlanThree == \A a \in 0 .. 4 : \A b : b = a + 3 => IsThree(Plan[a][b], a)
<1>1. SUFFICES ASSUME NEW a \in 0 .. 4, NEW b \in 0 .. 7, b = a + 3
               PROVE  IsThree(Plan[a][b], a)
    OBVIOUS
<1>2. PICK m \in 0 .. 7 : m = a + 1
    OBVIOUS
<1>2a. PICK p, q, r : p = Plan[a][m] /\ q = Plan[m + 1][b] /\ r = Plan[a][b]
    OBVIOUS
<1>3. Len(p) = 1 /\ LeafAt(p[1], a)
    BY <1>1, <1>2, <1>2a, PlanOne DEF IsOne
<1>3a. Len(q) = 1 /\ LeafAt(q[1], a + 2)
  <2>1. m + 1 = a + 2 /\ b = (a + 2) + 1 /\ a + 2 \in 0 .. 6
      BY <1>1, <1>2
  <2>2. IsOne(q, a + 2)
      BY <1>2a, <2>1, PlanOne
  <2> QED
      BY <2>2 DEF IsOne
<1>4. m = (a + b) \div 2
    BY <1>1, <1>2
<1>5. Halves(r, a, b, m, p, q)
    BY <1>1, <1>2a, <1>4, PlanCut
<1>6. Len(r) = 1 + 1 + 1 /\ RefAt(r[1], m) /\ r[2] = p[1] /\ r[2 + 1] = q[1]
    BY <1>1, <1>2, <1>3, <1>3a, <1>5, HalvesAre
<1> QED
    BY <1>2, <1>2a, <1>3, <1>3a, <1>6 DEF IsThree

\* The plans of four to seven B pictures: which come first, and which are references.
LEMMA PlanFour ==
    ASSUME NEW r, r = Plan[0][4]
    PROVE  Len(r) = 4 /\ RefAt(r[1], 2) /\ RefAt(r[2], 1) /\ LeafAt(r[3], 0) /\ LeafAt(r[4], 3)
<1>1. PICK p, q : p = Plan[0][2] /\ q = Plan[3][4]
    OBVIOUS
<1>2. IsTwo(p, 0)
    BY <1>1, PlanTwo, 0 + 2 = 2
<1>3. IsOne(q, 3)
    BY <1>1, PlanOne, 3 + 1 = 4
<1>4. Halves(r, 0, 4, 2, p, q)
    BY <1>1, PlanCut, 2 = (0 + 4) \div 2, 2 + 1 = 3
<1>5. Len(r) = 1 + 2 + 1 /\ RefAt(r[1], 2) /\ r[2] = p[1] /\ r[3] = p[2] /\ r[2 + 2] = q[1]
    BY <1>2, <1>3, <1>4, HalvesAre DEF IsOne, IsTwo
<1> QED
    BY <1>2, <1>3, <1>5 DEF IsOne, IsTwo

LEMMA PlanFive ==
    ASSUME NEW r, r = Plan[0][5]
    PROVE  /\ Len(r) = 5 /\ RefAt(r[1], 2) /\ RefAt(r[2], 1) /\ LeafAt(r[3], 0)
           /\ RefAt(r[4], 4) /\ LeafAt(r[5], 3)
<1>1. PICK p, q : p = Plan[0][2] /\ q = Plan[3][5]
    OBVIOUS
<1>2. IsTwo(p, 0)
    BY <1>1, PlanTwo, 0 + 2 = 2
<1>3. IsTwo(q, 3)
    BY <1>1, PlanTwo, 3 + 2 = 5
<1>4. Halves(r, 0, 5, 2, p, q)
    BY <1>1, PlanCut, 2 = (0 + 5) \div 2, 2 + 1 = 3
<1>5. /\ Len(r) = 1 + 2 + 2 /\ RefAt(r[1], 2)
      /\ r[2] = p[1] /\ r[3] = p[2] /\ r[2 + 2] = q[1] /\ r[3 + 2] = q[2]
    BY <1>2, <1>3, <1>4, HalvesAre DEF IsTwo
<1> QED
    BY <1>2, <1>3, <1>5 DEF IsTwo

LEMMA PlanSix ==
    ASSUME NEW r, r = Plan[0][6]
    PROVE  /\ Len(r) = 6 /\ RefAt(r[1], 3) /\ RefAt(r[2], 1) /\ LeafAt(r[3], 0)
           /\ LeafAt(r[4], 2) /\ RefAt(r[5], 5) /\ LeafAt(r[6], 4)
<1>1. PICK p, q : p = Plan[0][3] /\ q = Plan[4][6]
    OBVIOUS
<1>2. IsThree(p, 0)
    BY <1>1, PlanThree, 0 + 3 = 3
<1>3. IsTwo(q, 4)
    BY <1>1, PlanTwo, 4 + 2 = 6
<1>4. Halves(r, 0, 6, 3, p, q)
    BY <1>1, PlanCut, 3 = (0 + 6) \div 2, 3 + 1 = 4
<1>5. /\ Len(r) = 1 + 3 + 2 /\ RefAt(r[1], 3)
      /\ r[2] = p[1] /\ r[3] = p[2] /\ r[4] = p[3] /\ r[2 + 3] = q[1] /\ r[3 + 3] = q[2]
    BY <1>2, <1>3, <1>4, HalvesAre DEF IsTwo, IsThree
<1> QED
    BY <1>2, <1>3, <1>5 DEF IsTwo, IsThree

LEMMA PlanSeven ==
    ASSUME NEW r, r = Plan[0][7]
    PROVE  /\ Len(r) = 7 /\ RefAt(r[1], 3) /\ RefAt(r[2], 1) /\ LeafAt(r[3], 0)
           /\ LeafAt(r[4], 2) /\ RefAt(r[5], 5) /\ LeafAt(r[6], 4) /\ LeafAt(r[7], 6)
<1>1. PICK p, q : p = Plan[0][3] /\ q = Plan[4][7]
    OBVIOUS
<1>2. IsThree(p, 0)
    BY <1>1, PlanThree, 0 + 3 = 3
<1>3. IsThree(q, 4)
    BY <1>1, PlanThree, 4 + 3 = 7
<1>4. Halves(r, 0, 7, 3, p, q)
    BY <1>1, PlanCut, 3 = (0 + 7) \div 2, 3 + 1 = 4
<1>5. /\ Len(r) = 1 + 3 + 3 /\ RefAt(r[1], 3)
      /\ r[2] = p[1] /\ r[3] = p[2] /\ r[4] = p[3]
      /\ r[2 + 3] = q[1] /\ r[3 + 3] = q[2] /\ r[4 + 3] = q[3]
    BY <1>2, <1>3, <1>4, HalvesAre DEF IsThree
<1> QED
    BY <1>2, <1>3, <1>5 DEF IsThree

\* Where the reference B's of a plan are.
RefsOf(p) == {i \in DOMAIN p : p[i].ref}
RefsIn(n) == IF n <= 1 THEN {} ELSE IF n <= 3 THEN {1} ELSE IF n = 4 THEN {1, 2}
             ELSE IF n = 5 THEN {1, 2, 4} ELSE {1, 2, 5}
\* A picture of a longer plan that is prepared behind its left spine has a
\* reference B in front of it.
Spine(n)  == IF n <= 1 THEN {} ELSE IF n <= 3 THEN {1} ELSE {1, 2}
PlanFits(p, n) ==
  /\ Len(p) = n /\ RefsOf(p) = RefsIn(n)
  /\ \A i \in 1 .. n : p[i].m \in 0 .. n - 1
  /\ \A i \in 1 .. n : (\A j \in 1 .. i - 1 : p[j].ref => ~(p[j].m < p[i].m)) =>
                         \A j \in 1 .. i - 1 : p[j].ref => j \in Spine(n)

LEMMA PlanTable == \A n \in 0 .. 7 : PlanFits(Plan[0][n], n)
<1>1. SUFFICES ASSUME NEW n \in 0 .. 7, NEW p, p = Plan[0][n] PROVE PlanFits(p, n)
    OBVIOUS
<1>2. p \in Seq(PlanEntry)
    BY <1>1, PlanSeq, Zenon
<1>3. DOMAIN p = 1 .. Len(p)
    BY <1>2
<1>4. CASE n = 0
  <2>1. Len(p) = 0
      BY <1>1, <1>4, PlanNone
  <2> QED
      BY <1>3, <1>4, <2>1 DEF PlanFits, RefsOf, RefsIn
<1>5. CASE n = 1
  <2>1. Len(p) = 1 /\ LeafAt(p[1], 0)
      BY <1>1, <1>5, PlanOne, 0 + 1 = 1 DEF IsOne
  <2> QED
      BY <1>3, <1>5, <2>1 DEF PlanFits, RefsOf, RefsIn, Spine, LeafAt
<1>6. CASE n = 2
  <2>1. IsTwo(p, 0)
      BY <1>1, <1>6, PlanTwo, 0 + 2 = 2
  <2>2. Len(p) = 2 /\ RefAt(p[1], 1) /\ LeafAt(p[2], 0)
      BY <2>1 DEF IsTwo
  <2> QED
      BY <1>3, <1>6, <2>2 DEF PlanFits, RefsOf, RefsIn, Spine, LeafAt, RefAt
<1>7. CASE n = 3
  <2>1. IsThree(p, 0)
      BY <1>1, <1>7, PlanThree, 0 + 3 = 3
  <2>2. Len(p) = 3 /\ RefAt(p[1], 1) /\ LeafAt(p[2], 0) /\ LeafAt(p[3], 2)
      BY <2>1 DEF IsThree
  <2> QED
      BY <1>3, <1>7, <2>2 DEF PlanFits, RefsOf, RefsIn, Spine, LeafAt, RefAt
<1>8. CASE n = 4
  <2>1. Len(p) = 4 /\ RefAt(p[1], 2) /\ RefAt(p[2], 1) /\ LeafAt(p[3], 0) /\ LeafAt(p[4], 3)
      BY <1>1, <1>8, PlanFour
  <2> QED
      BY <1>3, <1>8, <2>1 DEF PlanFits, RefsOf, RefsIn, Spine, LeafAt, RefAt
<1>9. CASE n = 5
  <2>1. /\ Len(p) = 5 /\ RefAt(p[1], 2) /\ RefAt(p[2], 1) /\ LeafAt(p[3], 0)
        /\ RefAt(p[4], 4) /\ LeafAt(p[5], 3)
      BY <1>1, <1>9, PlanFive
  <2> QED
      BY <1>3, <1>9, <2>1 DEF PlanFits, RefsOf, RefsIn, Spine, LeafAt, RefAt
<1>10. CASE n = 6
  <2>1. /\ Len(p) = 6 /\ RefAt(p[1], 3) /\ RefAt(p[2], 1) /\ LeafAt(p[3], 0)
        /\ LeafAt(p[4], 2) /\ RefAt(p[5], 5) /\ LeafAt(p[6], 4)
      BY <1>1, <1>10, PlanSix
  <2> QED
      BY <1>3, <1>10, <2>1 DEF PlanFits, RefsOf, RefsIn, Spine, LeafAt, RefAt
<1>11. CASE n = 7
  <2>1. /\ Len(p) = 7 /\ RefAt(p[1], 3) /\ RefAt(p[2], 1) /\ LeafAt(p[3], 0)
        /\ LeafAt(p[4], 2) /\ RefAt(p[5], 5) /\ LeafAt(p[6], 4) /\ LeafAt(p[7], 6)
      BY <1>1, <1>11, PlanSeven
  <2> QED
      BY <1>3, <1>11, <2>1 DEF PlanFits, RefsOf, RefsIn, Spine, LeafAt, RefAt
<1> QED
    BY <1>4, <1>5, <1>6, <1>7, <1>8, <1>9, <1>10, <1>11

\* How many reference B's a plan has.
Heads(n) == IF n <= 1 THEN 0 ELSE IF n <= 3 THEN 1 ELSE IF n = 4 THEN 2 ELSE 3
SpineLen(n) == IF n <= 1 THEN 0 ELSE IF n <= 3 THEN 1 ELSE 2
LEMMA HeadsIs ==
    ASSUME NEW n \in 0 .. 7
    PROVE  /\ IsFiniteSet(RefsIn(n)) /\ Cardinality(RefsIn(n)) = Heads(n)
           /\ IsFiniteSet(Spine(n)) /\ Cardinality(Spine(n)) = SpineLen(n)
<1>1. IsFiniteSet({}) /\ Cardinality({}) = 0
    BY FS_EmptySet
<1>2. IsFiniteSet({1}) /\ Cardinality({1}) = 1
    BY FS_Singleton
<1>3. IsFiniteSet({1, 2}) /\ Cardinality({1, 2}) = 2
  <2>1. {1, 2} = {1} \cup {2} /\ 2 \notin {1}
      OBVIOUS
  <2> QED
      BY <1>2, <2>1, FS_AddElement
<1>4. IsFiniteSet({1, 2, 4}) /\ Cardinality({1, 2, 4}) = 3
  <2>1. {1, 2, 4} = {1, 2} \cup {4} /\ 4 \notin {1, 2}
      OBVIOUS
  <2> QED
      BY <1>3, <2>1, FS_AddElement
<1>5. IsFiniteSet({1, 2, 5}) /\ Cardinality({1, 2, 5}) = 3
  <2>1. {1, 2, 5} = {1, 2} \cup {5} /\ 5 \notin {1, 2}
      OBVIOUS
  <2> QED
      BY <1>3, <2>1, FS_AddElement
<1> QED
    BY <1>1, <1>2, <1>3, <1>4, <1>5 DEF RefsIn, Spine, Heads, SpineLen

LEMMA NRefBIs == \A n \in 0 .. 7 : NRefB(n) = Heads(n)
<1>1. SUFFICES ASSUME NEW n \in 0 .. 7 PROVE NRefB(n) = Heads(n)
    OBVIOUS
<1>2. PICK p : p = Plan[0][n]
    OBVIOUS
<1>3. NRefB(n) = Cardinality(RefsOf(p))
    BY <1>2 DEF NRefB, RefsOf
<1>4. RefsOf(p) = RefsIn(n)
    BY <1>2, PlanTable, Zenon DEF PlanFits
<1> QED
    BY <1>3, <1>4, HeadsIs

\* The window of the buffer has room for a mini-GOP's references, its anchor and one
\* picture more, and in a wide ring for a whole run and the anchors around it.
LEMMA WindowIs ==
    ASSUME cfg \in Settings
    PROVE  /\ Window \in Nat /\ DpbSize \in Nat /\ DpbSize = Window + 1
           /\ \A n \in 0 .. cfg.bframes : NRefB(n) \in Nat /\ Window >= NRefB(n) + 2
           /\ (cfg.wide => Window >= cfg.bframes + 2)
<1>1. /\ cfg.ref \in Nat /\ cfg.ref >= 1 /\ cfg.bframes \in 2 .. 7
      /\ cfg.cap \in Nat /\ cfg.cap > cfg.bframes + 1
    BY SettingsAssumption
<1>2. PICK x : x = IF cfg.wide THEN cfg.bframes ELSE NRefB(cfg.bframes)
    OBVIOUS
<1>3. NRefB(cfg.bframes) = Heads(cfg.bframes)
    BY <1>1, NRefBIs
<1>4. x \in Nat /\ x >= Heads(cfg.bframes) /\ x <= cfg.bframes /\ (cfg.wide => x = cfg.bframes)
    BY <1>1, <1>2, <1>3 DEF Heads
<1>5. Window = Min({cfg.ref + 1 + x, cfg.cap})
    BY <1>2 DEF Window
<1>6. PICK y \in Nat : y = cfg.ref + 1 + x
    BY <1>1, <1>4
<1>7. Min({y, cfg.cap}) = IF y <= cfg.cap THEN y ELSE cfg.cap
    BY <1>1 DEF Min
<1>8. Window = IF y <= cfg.cap THEN y ELSE cfg.cap
    BY <1>5, <1>6, <1>7
<1>9. \A n \in 0 .. cfg.bframes : NRefB(n) = Heads(n)
    BY <1>1, NRefBIs
<1>10. \A n \in 0 .. cfg.bframes : Heads(n) \in Nat /\ Heads(n) <= Heads(cfg.bframes)
    BY <1>1 DEF Heads
<1>11. Heads(cfg.bframes) \in Nat /\ Window >= Heads(cfg.bframes) + 2
    BY <1>1, <1>4, <1>6, <1>8 DEF Heads
<1>12. Window \in Nat /\ (cfg.wide => Window >= cfg.bframes + 2)
    BY <1>1, <1>4, <1>6, <1>8
<1> QED
    BY <1>9, <1>10, <1>11, <1>12 DEF DpbSize

\* In a wide ring the window outlasts two mini-GOPs for a picture that has no
\* reference B of its own in front of it.
SpineRoom(k, p, n, i) ==
    NRefB(k) + Cardinality({j \in 1 .. i - 1 : p[j].ref}) <= cfg.bframes

LEMMA SpineFits ==
    ASSUME cfg \in Settings, NEW n \in 1 .. cfg.bframes, NEW k \in 0 .. cfg.bframes,
           NEW p, p = Plan[0][n], NEW i \in 1 .. Len(p),
           \A j \in 1 .. i - 1 : p[j].ref => ~(p[j].m < p[i].m)
    PROVE  SpineRoom(k, p, n, i)
<1>1. cfg.bframes \in 2 .. 7 /\ n \in 0 .. 7 /\ k \in 0 .. 7
  <2>1. PICK b : b = cfg.bframes
      OBVIOUS
  <2>2. b \in 2 .. 7
      BY <2>1, CfgIs
  <2>3. n \in 1 .. b /\ k \in 0 .. b
      BY <2>1
  <2> QED
      BY <2>1, <2>2, <2>3, SMTT(40)
<1>2. PlanFits(p, n)
    BY <1>1, PlanTable, Zenon
<1>3. {j \in 1 .. i - 1 : p[j].ref} \subseteq Spine(n)
    BY <1>2, Zenon DEF PlanFits
<1>4. Cardinality({j \in 1 .. i - 1 : p[j].ref}) <= SpineLen(n)
        /\ Cardinality({j \in 1 .. i - 1 : p[j].ref}) \in Nat
    BY <1>1, <1>3, HeadsIs, FS_Subset, FS_CardinalityType, Zenon
<1>5. NRefB(k) = Heads(k)
    BY <1>1, NRefBIs
<1>6. Heads(k) + SpineLen(n) <= cfg.bframes /\ Heads(k) \in Nat /\ SpineLen(n) \in Nat
    BY <1>1 DEF Heads, SpineLen
<1>7. \A a, b, c, d \in Nat : a + b <= d /\ c <= b => a + c <= d
    OBVIOUS
<1>8. PICK c \in Nat : c = Cardinality({j \in 1 .. i - 1 : p[j].ref})
    BY <1>4, Zenon
<1>9. Heads(k) + c <= cfg.bframes
  <2>1. cfg.bframes \in Nat
      BY <1>1
  <2>2. c <= SpineLen(n)
      BY <1>4, <1>8
  <2> QED
      BY <1>6, <1>7, <2>1, <2>2, Zenon
<1> QED
    BY <1>5, <1>8, <1>9 DEF SpineRoom

-----------------------------------------------------------------------------
(* Where a chain stands and what is final behind it.                       *)

LEMMA PartsIs ==
    ASSUME RInv
    PROVE  /\ ChainInv /\ OrderInv /\ CallInv /\ ErrInv /\ WindowInv /\ MemberInv /\ StayInv
           /\ LaunchInv /\ GateRInv /\ AnchorInv /\ PreppedInv /\ PlanInv
  BY DEF RInv

\* A chain that has coded its reference B's, or has counted them, left them whole.
LEMMA RefsFinal ==
    ASSUME IInv, NEW s \in Slots, ChainOf(s), ~bur[s].err,
           bur[s].refbDone >= RefBs(s)
    PROVE  \A i \in Marked(s) : bur[s].bs[i].pic \in final
<1>1. PICK b, p : b = bur[s] /\ p = PlanOf(s)
    OBVIOUS
<1>2. BurstIs(b) /\ p \in Seq(PlanEntry)
    BY <1>1, PlanOfIs DEF IInv, TypeInv
<1>3. /\ Len(b.bs) \in Nat /\ Len(p) \in Nat /\ DOMAIN p = 1 .. Len(p) /\ Len(b.bs) <= Len(p)
      /\ \A i \in 1 .. Len(b.bs) : b.bs[i].ref = p[i].ref
      /\ b.coded \in 0 .. Len(b.bs)
    BY <1>1, <1>2 DEF BurstIs, ChainOf
<1>4. RefBs(s) = Cardinality(RefsOf(p))
    BY <1>1 DEF RefBs, NRefB, PlanOf, RefsOf
<1>5. IsFiniteSet(RefsOf(p))
  <2>1. RefsOf(p) \subseteq 1 .. Len(p) /\ IsFiniteSet(1 .. Len(p))
      BY <1>3, FS_Interval, 1 \in Int, Len(p) \in Int DEF RefsOf
  <2> QED
      BY <2>1, FS_Subset
<1>6. Marked(s) \subseteq RefsOf(p) /\ Landed(s) \subseteq Marked(s)
    BY <1>1, <1>3 DEF Marked, Landed, RefsOf
<1>7. ASSUME NEW i \in Marked(s), b.phase = "ended" PROVE b.bs[i].pic \in final
  <2>1. b.coded = Len(b.bs) /\ b.refb # "run"
      BY <1>1, <1>7 DEF ChainOf
  <2>2. i \in 1 .. b.coded
      BY <1>1, <1>7, <2>1 DEF Marked
  <2> QED
      BY <1>1, <2>1, <2>2 DEF ChainOf, Streaming
<1>8. ASSUME NEW i \in Marked(s), b.phase # "ended" PROVE b.bs[i].pic \in final
  <2>1. b.refbDone <= Cardinality(Landed(s)) /\ b.refbDone \in Nat
      BY <1>1, <1>8 DEF ChainOf
  <2>2. Landed(s) \subseteq RefsOf(p)
      BY <1>6
  <2>3. Cardinality(Landed(s)) \in Nat /\ Cardinality(RefsOf(p)) \in Nat
      BY <1>5, <2>2, FS_Subset, FS_CardinalityType
  <2>4. Cardinality(Landed(s)) >= Cardinality(RefsOf(p))
      BY <1>1, <1>4, <2>1, <2>3
  <2>5. Landed(s) = RefsOf(p)
      BY <1>5, <2>2, <2>3, <2>4, FS_Subset
  <2>6. i \in Landed(s)
      BY <1>6, <1>8, <2>5
  <2> QED
      BY <1>1, <2>6 DEF ChainOf, Landed
<1> QED
    BY <1>1, <1>7, <1>8

-----------------------------------------------------------------------------
(* A step of one burst that prepares nothing.                               *)

Glides(s, e) ==
  /\ Becomes(s, e) /\ e.bs = bur[s].bs /\ e.col \subseteq bur[s].col
  /\ (e.live => bur[s].live) /\ (bur[s].fired => e.fired) /\ (bur[s].err => e.err)
  /\ (bur[s].anchor = "done" => e.anchor = "done") /\ (e.anchor = "run" => bur[s].anchor = "run")
  /\ (bur[s].phase = "armed" => e.phase = "armed" \/ cfg.wide \/ LiveSlots \subseteq {s})
  /\ cfg' = cfg /\ slot' = slot /\ seq' = seq
  /\ dpb' = dpb /\ nextFn' = nextFn /\ last' = last
  /\ final \subseteq final' /\ \A t \in Slots : t # s => prog'[t] = prog[t]
Calm(s, e) ==
  /\ (e.live <=> bur[s].live) /\ (e.err /\ ~e.live => bur[s].err)
  /\ api' = api /\ group' = group /\ nbuf' = nbuf /\ prepped' = prepped

\* What a step of s leaves to a burst t: all but where its threads stand.
Kept(t) ==
  /\ bur'[t].bs = bur[t].bs /\ bur'[t].col \subseteq bur[t].col
  /\ (bur'[t].live => bur[t].live) /\ (bur[t].fired => bur'[t].fired)
  /\ (bur[t].err => bur'[t].err)
  /\ (bur[t].anchor = "done" => bur'[t].anchor = "done")
  /\ (bur'[t].anchor = "run" => bur[t].anchor = "run")
  /\ (bur[t].phase = "armed" => bur'[t].phase = "armed" \/ cfg.wide \/ LiveSlots \subseteq {t})

LEMMA GlidesIs ==
    ASSUME IInv, NEW s \in Slots, NEW e, Glides(s, e)
    PROVE  /\ bur'[s] = e /\ \A t \in Slots : t # s => bur'[t] = bur[t]
           /\ \A t \in Slots : Kept(t) /\ Same(bur'[t], bur[t])
           /\ Slots' = Slots /\ Used' = Used /\ LiveSlots' \subseteq LiveSlots
           /\ \A t \in Slots : Ago(t)' = Ago(t)
<1>1. TypeInv
    BY DEF IInv
<1>2. /\ bur'[s] = e /\ \A t \in Slots : t # s => bur'[t] = bur[t]
      /\ \A t \in Slots : Same(bur'[t], bur[t])
    BY <1>1, BecomesIs DEF Glides
<1>3. \A t \in Slots : Kept(t)
    BY <1>2 DEF Glides, Kept
<1>4. Slots' = Slots /\ Used' = Used
    BY DEF Glides, Slots, Used
<1>5. LiveSlots' \subseteq LiveSlots
    BY <1>3, <1>4 DEF LiveSlots, Kept
<1>6. \A t \in Slots : Ago(t)' = Ago(t)
    BY DEF Glides, Ago
<1> QED
    BY <1>2, <1>3, <1>4, <1>5, <1>6

\* Everything that is said of what a burst has prepared stays.
LEMMA PreparedKept ==
    ASSUME NEW t \in Slots, bur'[t].bs = bur[t].bs, Same(bur'[t], bur[t]), cfg' = cfg
    PROVE  /\ Marked(t)' = Marked(t) /\ Count(t)' = Count(t)
           /\ \A p : (OwnRef(t, p) <=> OwnRef(t, p)') /\ (OwnPic(t, p) <=> OwnPic(t, p)')
           /\ \A i, r : final \subseteq final' /\ BRefOk(t, i, r) => BRefOk(t, i, r)'
<1>1. Marked(t)' = Marked(t)
    BY DEF Marked
<1>2. Count(t)' = Count(t)
    BY <1>1 DEF Count
<1>3. \A p : OwnRef(t, p) <=> OwnRef(t, p)'
    BY <1>1 DEF OwnRef
<1>4. \A p : OwnPic(t, p) <=> OwnPic(t, p)'
    BY <1>3 DEF OwnPic, Same
<1>5. Bdepth(t)' = Bdepth(t) /\ bur'[t].gates = bur[t].gates /\ bur'[t].pic = bur[t].pic
    BY FixedIs DEF Same
<1>6. ASSUME NEW i, NEW r, final \subseteq final', BRefOk(t, i, r) PROVE BRefOk(t, i, r)'
    BY <1>1, <1>5, <1>6 DEF BRefOk, GatedRefB
<1> QED
    BY <1>1, <1>2, <1>3, <1>4, <1>6

LEMMA ChainKept ==
    ASSUME NEW t \in Slots, bur'[t] = bur[t], prog'[t] = prog[t], cfg' = cfg, final \subseteq final',
           ChainOf(t)
    PROVE  ChainOf(t)'
<1>1. Same(bur'[t], bur[t])
    BY DEF Same
<1>2. PlanOf(t)' = PlanOf(t) /\ Bdepth(t)' = Bdepth(t)
    BY <1>1, FixedIs
<1>3. Landed(t)' = Landed(t) /\ \A i : Streaming(t, i)' <=> Streaming(t, i)
    BY DEF Landed, Streaming
<1> QED
    BY <1>2, <1>3 DEF ChainOf

LEMMA GlideParts ==
    ASSUME IInv, RInv, NEW s \in Slots, NEW e, Glides(s, e), ChainOf(s)',
           ErrInv', CallInv', PreppedInv',
           last <= 8 * group', api' \in {"bill", "ring", "begin", "drainall"} => last <= 8 * (group' - 1),
           e.phase \notin {"armed", "wait"} =>
               \A t \in Slots : Ago(s) < Ago(t) => bur[t].anchor = "done",
           Sound' /\ e.live /\ e.phase \in {"code", "ended"} =>
               \A x \in bur[s].gates : x.kind = "R" => x.pic \in final',
           Sound' /\ bur[s].live /\ ~e.live =>
               \A p : OwnPic(s, p) \/ HoldsRefB(s, p) => p \in final'
    PROVE  RInv'
<1>1. /\ bur'[s] = e /\ \A t \in Slots : t # s => bur'[t] = bur[t]
      /\ \A t \in Slots : Kept(t) /\ Same(bur'[t], bur[t])
      /\ Slots' = Slots /\ Used' = Used /\ LiveSlots' \subseteq LiveSlots
      /\ \A t \in Slots : Ago(t)' = Ago(t)
    BY GlidesIs
<1>2. /\ cfg' = cfg /\ slot' = slot /\ seq' = seq
      /\ dpb' = dpb /\ nextFn' = nextFn /\ last' = last
      /\ final \subseteq final' /\ \A t \in Slots : t # s => prog'[t] = prog[t]
    BY DEF Glides
<1>3. /\ ChainInv /\ OrderInv /\ ErrInv /\ WindowInv /\ MemberInv /\ StayInv
      /\ LaunchInv /\ GateRInv /\ AnchorInv /\ PreppedInv /\ PlanInv
    BY PartsIs
<1>4. Sound' => Sound
    BY <1>1 DEF Sound, Kept
<1>5. \A t \in Slots : Marked(t)' = Marked(t) /\ Count(t)' = Count(t)
    BY <1>1, <1>2, PreparedKept DEF Kept
<1>6. \A t \in Slots : \A p : OwnPic(t, p) <=> OwnPic(t, p)'
    BY <1>1, <1>2, PreparedKept DEF Kept
<1>7. slot \in Slots
    BY DEF IInv, TypeInv
<1>8. \A p, n : Among(p, n) <=> Among(p, n)'
    BY <1>1, <1>2 DEF Among
<1>9. \A t \in Slots : bur'[t].gates = bur[t].gates
    BY <1>1 DEF Same
<1>11. ChainInv'
  <2>1. ASSUME NEW t \in Slots, t # s PROVE ChainOf(t)'
      BY <1>1, <1>2, <1>3, <2>1, ChainKept DEF ChainInv
  <2> QED
      BY <1>1, <2>1 DEF ChainInv
<1>12. OrderInv'
  <2>1. /\ last' \in Nat /\ last' <= 8 * group'
        /\ (api' \in {"bill", "ring", "begin", "drainall"} => last' <= 8 * (group' - 1))
      BY <1>2, <1>3 DEF OrderInv
  <2>2. bur'[slot].live => last' = bur'[slot].pic
      BY <1>1, <1>2, <1>3, <1>7 DEF OrderInv, Kept, Same
  <2>3. ASSUME NEW t \in Slots
        PROVE  /\ (bur'[t].seq > 0 => bur'[t].pic <= last')
               /\ (bur'[t].live /\ t # slot => bur'[t].fired)
      BY <1>1, <1>2, <1>3 DEF OrderInv, Kept, Same
  <2>4. ASSUME NEW t \in Slots, NEW u \in Slots, Ago(t) < Ago(u)
        PROVE  /\ (bur'[t].seq > 0 /\ bur'[u].seq > 0 => bur'[u].group < bur'[t].group)
               /\ (bur'[t].phase \notin {"armed", "wait"} => bur'[u].anchor = "done")
    <3>1. bur'[t].seq > 0 /\ bur'[u].seq > 0 => bur'[u].group < bur'[t].group
        BY <1>1, <1>3, <2>4 DEF OrderInv, Same
    <3>2. bur[u].anchor = "done" => bur'[u].anchor = "done"
        BY <1>1 DEF Kept
    <3>3. bur'[t].phase \notin {"armed", "wait"} => bur[u].anchor = "done"
        BY <1>1, <1>3, <2>4 DEF OrderInv
    <3> QED
        BY <3>1, <3>2, <3>3
  <2>5. ASSUME NEW t \in Slots, NEW u \in Slots, Ago(t) < Ago(u), t = slot, bur'[u].live
        PROVE  /\ (cfg.wide /\ Ago(u) = 1 => bur'[t].prevP = u)
               /\ (~cfg.wide => bur'[t].phase = "armed")
    <3>0. Ago(t) \in Int /\ Ago(u) \in Int
        BY <1>7, AgoIs, CfgIs DEF IInv, TypeInv
    <3>1. bur[u].live /\ bur'[t].prevP = bur[t].prevP /\ u # t
        BY <1>1, <2>5, <3>0 DEF Kept, Same
    <3>2. ~(LiveSlots \subseteq {t})
        BY <3>1 DEF LiveSlots
    <3>3. bur[t].phase = "armed" => bur'[t].phase = "armed" \/ cfg.wide
        BY <1>1, <3>2 DEF Kept
    <3> QED
        BY <1>3, <2>5, <3>1, <3>3 DEF OrderInv
  <2> QED
      BY <1>1, <1>2, <2>1, <2>2, <2>3, <2>4, <2>5 DEF OrderInv

<1>14. WindowInv'
    BY <1>1, <1>2, <1>3, ZenonT(30) DEF WindowInv, EntryIs, DpbSize, Window
<1>15. MemberInv'
    BY <1>1, <1>2, <1>3, <1>4, <1>6, <1>7 DEF MemberInv, Same, Kept, LiveSlots
<1>16. StayInv'
  <2>1. SUFFICES ASSUME NEW g \in LiveSlots, g = slot PROVE StaysOf(g)'
      BY <1>1, <1>2 DEF StayInv
  <2>2. g \in Slots /\ StaysOf(g) /\ Window' = Window
      BY <1>2, <1>3, <2>1 DEF StayInv, LiveSlots, Window
  <2>3. \A t \in Slots : bur'[t].pic = bur[t].pic /\ bur'[t].bs = bur[t].bs
                         /\ (bur'[t].live => bur[t].live)
      BY <1>1 DEF Kept, Same
  <2> QED
      BY <1>1, <1>5, <1>8, <2>2, <2>3 DEF StaysOf
<1>17. LaunchInv'
    BY <1>1, <1>2, <1>3, <1>4, <1>5, <1>9 DEF LaunchInv, Kept, GatedRefB, LiveSlots
<1>18. GateRInv'
    BY <1>1, <1>2, <1>3, <1>4, <1>7, <1>9, FixedIs DEF GateRInv, Same, Kept, HoldsRefB, LiveSlots
<1>19. AnchorInv'
    BY <1>1, <1>2, <1>3, <1>4, <1>9 DEF AnchorInv, FinalOrGated, Kept, Same, LiveSlots
<1>20. PlanInv'
    BY <1>1, <1>2, <1>3, <1>4, <1>6, <1>7, PreparedKept DEF PlanInv, Kept, LiveSlots
<1> QED
    BY <1>11, <1>12, <1>14, <1>15, <1>16, <1>17, <1>18, <1>19, <1>20 DEF RInv

\* A step of a burst's own threads leaves the launch alone.
LEMMA GlideKeeps ==
    ASSUME IInv, RInv, NEW s \in Slots, NEW e, Glides(s, e), Calm(s, e), ChainOf(s)',
           e.phase \notin {"armed", "wait"} =>
               \A t \in Slots : Ago(s) < Ago(t) => bur[t].anchor = "done",
           Sound' /\ e.live /\ e.phase \in {"code", "ended"} =>
               \A x \in bur[s].gates : x.kind = "R" => x.pic \in final'
    PROVE  RInv'
<1>1. /\ bur'[s] = e /\ \A t \in Slots : t # s => bur'[t] = bur[t]
      /\ \A t \in Slots : Kept(t) /\ Same(bur'[t], bur[t])
      /\ Slots' = Slots /\ Used' = Used /\ LiveSlots' \subseteq LiveSlots
      /\ \A t \in Slots : Ago(t)' = Ago(t)
    BY GlidesIs
<1>2. /\ cfg' = cfg /\ slot' = slot /\ seq' = seq /\ final \subseteq final'
      /\ api' = api /\ group' = group /\ prepped' = prepped
      /\ \A t \in Slots : bur'[t].live <=> bur[t].live
    BY <1>1 DEF Glides, Calm
<1>3. OrderInv /\ ErrInv /\ PreppedInv
    BY PartsIs
<1>4. Sound' => Sound
    BY <1>1 DEF Sound, Kept
<1>5. \A t \in Slots : Marked(t)' = Marked(t)
    BY <1>1, <1>2, PreparedKept DEF Kept
<1>7. slot \in Slots
    BY DEF IInv, TypeInv
<1>13. ErrInv' /\ CallInv'
    BY <1>1, <1>2, <1>3, PartsIs DEF ErrInv, CallInv, Kept, Calm
<1>21. PreppedInv'
  <2>1. PICK g \in Slots : g = slot
      BY <1>7
  <2>2. \A p : HoldsRefB(g, p) => HoldsRefB(g, p)'
      BY <1>1, <1>2, FixedIs DEF HoldsRefB, Kept
  <2>3. SUFFICES ASSUME PreppedOk PROVE PreppedOk'
      BY <1>2, <1>3 DEF PreppedInv
  <2>4. \A x \in prepped.gates : x.kind = "R" => x.slot = g /\ HoldsRefB(g, x.pic)'
      BY <2>1, <2>2, <2>3 DEF PreppedOk
  <2>5. \A x \in prepped'.gates : x.kind = "R" => x.slot = slot' /\ HoldsRefB(slot, x.pic)'
    <3>1. slot' = g
        BY <1>2, <2>1
    <3>2. \A p : HoldsRefB(g, p)' => HoldsRefB(slot, p)'
        BY <3>1 DEF HoldsRefB, Bdepth, RefBs, PlanOf, RefB
    <3> QED
        BY <1>2, <2>4, <3>1, <3>2
  <2>6. Sound' => \A r \in prepped'.refs : FinalOrGated(r, prepped.gates)'
      BY <1>2, <1>4, <2>3 DEF PreppedOk, FinalOrGated
  <2>7. Sound' /\ cfg'.ref > 1 =>
          \A t \in LiveSlots' : \A i \in Marked(t)' :
            bur'[t].bs[i].pic \in final' \/ GatedRefB(bur'[t].bs[i].pic, prepped'.gates)
      BY <1>1, <1>2, <1>4, <1>5, <2>3 DEF PreppedOk, GatedRefB, Kept, LiveSlots
  <2> QED
      BY <2>5, <2>6, <2>7 DEF PreppedOk, FinalOrGated
<1> QED
    BY <1>2, <1>3, <1>13, <1>21, GlideParts DEF OrderInv, Calm

\* A step that codes nothing keeps what is said of its chain, if it keeps the parts
\* about where the chain stands.
LEMMA ChainStands ==
    ASSUME IInv, NEW s \in Slots, NEW e, Glides(s, e), ChainOf(s),
           e.coded = bur[s].coded, e.refb = bur[s].refb,
           e.refbDone = bur[s].refbDone \/ (e.phase = "ended" /\ e.refbDone \in Nat),
           e.err => e.phase \in {"join", "ended"},
           e.phase \in {"armed", "wait"} => bur[s].phase \in {"armed", "wait"},
           e.phase \in {"armed", "wait", "prep", "gate"} =>
               bur[s].phase \in {"armed", "wait", "prep", "gate"},
           bur[s].phase = "ended" => e.phase = "ended",
           e.refb = "run" => e.phase = "code",
           e.phase = "ended" /\ ~e.err => e.coded = Len(e.bs),
           e.anchor = "done" => bur[s].anchor = "done" \/ bur[s].pic \in final',
           prog'[s].full => e.anchor = "done"
    PROVE  ChainOf(s)'
<1>1. bur'[s] = e /\ Same(e, bur[s]) /\ e.bs = bur[s].bs /\ cfg' = cfg /\ final \subseteq final'
    BY GlidesIs DEF Glides
<1>2. PlanOf(s)' = PlanOf(s) /\ Bdepth(s)' = Bdepth(s)
    BY <1>1, FixedIs
<1>3. Landed(s)' = Landed(s) /\ \A i : Streaming(s, i)' <=> Streaming(s, i)
    BY <1>1 DEF Landed, Streaming
<1>4. /\ e.seq = bur[s].seq /\ e.pic = bur[s].pic /\ e.group = bur[s].group /\ e.nbuf = bur[s].nbuf
    BY <1>1 DEF Same
<1> QED
    BY <1>1, <1>2, <1>3, <1>4 DEF ChainOf

\* The gates on a reference B that a coding chain was launched with are open for good.
LEMMA CodingGates ==
    ASSUME RInv, Sound, NEW s \in LiveSlots, bur[s].phase \in {"code", "ended"}
    PROVE  \A x \in bur[s].gates : x.kind = "R" => x.pic \in final
  BY PartsIs DEF GateRInv

\* A step that keeps its chain's phase needs only its own part.
LEMMA GlideOn ==
    ASSUME IInv, RInv, NEW s \in Slots, NEW e, Glides(s, e), Calm(s, e), ChainOf(s)',
           e.phase \in {"armed", "wait"} \/ bur[s].phase \notin {"armed", "wait"},
           e.phase \in {"code", "ended"} => bur[s].phase \in {"code", "ended"} \/ e.err
    PROVE  RInv'
<1>1. /\ bur'[s] = e /\ Slots' = Slots /\ \A t \in Slots : Kept(t)
    BY GlidesIs
<1>2. e.phase \notin {"armed", "wait"} => \A t \in Slots : Ago(s) < Ago(t) => bur[t].anchor = "done"
    BY PartsIs DEF OrderInv
<1>3. Sound' => Sound /\ ~e.err
    BY <1>1 DEF Sound, Kept
<1>4. e.live => s \in LiveSlots
    BY DEF Glides, LiveSlots
<1>5. Sound' /\ e.live /\ e.phase \in {"code", "ended"} =>
          \A x \in bur[s].gates : x.kind = "R" => x.pic \in final'
    BY <1>3, <1>4, CodingGates DEF Glides, Calm
<1> QED
    BY <1>2, <1>5, GlideKeeps

LEMMA AnalyzeReads ==
    ASSUME IInv, RInv, NEW s \in Slots, Analyze(s)
    PROVE  RInv'
<1>1. TypeInv /\ BurstOf(s) /\ ChainOf(s)
    BY PartsIs DEF IInv, BurstInv, ChainInv
<1>2. PICK e : /\ Becomes(s, e)
               /\ e.live = bur[s].live /\ e.phase = bur[s].phase /\ e.bs = bur[s].bs
               /\ e.coded = bur[s].coded /\ e.refbDone = bur[s].refbDone
               /\ e.refb = bur[s].refb /\ e.fired = bur[s].fired /\ e.col = bur[s].col
               /\ e.err = bur[s].err /\ e.anchor = "analyzed"
    BY <1>1, AnalyzeOf
<1>3. /\ bur[s].anchor = "run" /\ prog' = prog /\ final' = final
      /\ UNCHANGED <<cfg, api, group, nbuf, slot, seq, prepped, dpb, nextFn, last>>
    BY DEF Analyze, marks, buffers
<1>4. Glides(s, e) /\ Calm(s, e)
    BY <1>2, <1>3 DEF Glides, Calm
<1>5. ChainOf(s)'
    BY <1>1, <1>2, <1>3, <1>4, ChainStands DEF ChainOf
<1> QED
    BY <1>2, <1>4, <1>5, GlideOn

LEMMA PublishReads ==
    ASSUME IInv, RInv, NEW s \in Slots, Publish(s)
    PROVE  RInv'
<1>1. TypeInv /\ BurstOf(s) /\ ChainOf(s)
    BY PartsIs DEF IInv, BurstInv, ChainInv
<1>2. PICK e : /\ Becomes(s, e)
               /\ e.live = bur[s].live /\ e.phase = bur[s].phase /\ e.bs = bur[s].bs
               /\ e.coded = bur[s].coded /\ e.refbDone = bur[s].refbDone
               /\ e.refb = bur[s].refb /\ e.fired = bur[s].fired /\ e.col = bur[s].col
               /\ e.err = bur[s].err /\ e.anchor = "done"
    BY <1>1, PublishOf
<1>3. /\ prog' = [prog EXCEPT ![s].full = TRUE] /\ final' = final \cup {bur[s].pic}
      /\ UNCHANGED <<cfg, api, group, nbuf, slot, seq, prepped, dpb, nextFn, last>>
    BY DEF Publish, buffers
<1>3a. \A t \in Slots : t # s => prog'[t] = prog[t]
    BY <1>1, <1>3 DEF TypeInv
<1>4. Glides(s, e) /\ Calm(s, e)
    BY <1>2, <1>3, <1>3a DEF Glides, Calm
<1>5. ChainOf(s)'
  <2>1. /\ e.err => e.phase \in {"join", "ended"}
        /\ e.phase = "ended" /\ ~e.err => e.coded = Len(e.bs)
        /\ e.refb = "run" => e.phase = "code"
      BY <1>1, <1>2 DEF ChainOf
  <2>2. bur[s].pic \in final'
      BY <1>3
  <2> QED
      BY <1>1, <1>2, <1>4, <2>1, <2>2, ChainStands, SMTT(60)
<1> QED
    BY <1>2, <1>4, <1>5, GlideOn

LEMMA BailReads ==
    ASSUME IInv, RInv, NEW s \in Slots, Bail(s)
    PROVE  RInv'
<1>1. TypeInv /\ BurstOf(s) /\ ChainOf(s)
    BY PartsIs DEF IInv, BurstInv, ChainInv
<1>2. PICK e : /\ Becomes(s, e)
               /\ e.live = bur[s].live /\ e.anchor = bur[s].anchor /\ e.bs = bur[s].bs
               /\ e.coded = bur[s].coded /\ e.refbDone = bur[s].refbDone
               /\ e.refb = bur[s].refb /\ e.fired = bur[s].fired /\ e.col = bur[s].col
               /\ e.phase = "join" /\ e.err = TRUE
    BY <1>1, BailOf, Zenon
<1>3. /\ bur[s].phase = "prep" /\ prog' = prog /\ final' = final
      /\ UNCHANGED <<cfg, api, group, nbuf, slot, seq, prepped, dpb, nextFn, last>>
    BY DEF Bail, marks, buffers
<1>3a. bur[s].live
    BY <1>1, <1>3 DEF BurstOf
<1>4. Glides(s, e) /\ Calm(s, e)
    BY <1>2, <1>3, <1>3a DEF Glides, Calm
<1>5. ChainOf(s)'
    BY <1>1, <1>2, <1>3, <1>4, ChainStands DEF ChainOf
<1> QED
    BY <1>2, <1>3, <1>4, <1>5, GlideOn

LEMMA FireReads ==
    ASSUME IInv, RInv, NEW s \in Slots, Fire(s)
    PROVE  RInv'
<1>1. TypeInv /\ BurstOf(s) /\ ChainOf(s)
    BY PartsIs DEF IInv, BurstInv, ChainInv
<1>2. PICK e : /\ Becomes(s, e)
               /\ e.live = bur[s].live /\ e.anchor = bur[s].anchor /\ e.bs = bur[s].bs
               /\ e.coded = bur[s].coded /\ e.refbDone = bur[s].refbDone
               /\ e.refb = bur[s].refb /\ e.col = bur[s].col /\ e.err = bur[s].err
               /\ e.phase = "gate" /\ e.fired = TRUE
    BY <1>1, FireOf, Zenon
<1>3. /\ bur[s].phase = "prep" /\ prog' = prog /\ final' = final
      /\ UNCHANGED <<cfg, api, group, nbuf, slot, seq, prepped, dpb, nextFn, last>>
    BY DEF Fire, marks, buffers
<1>4. Glides(s, e) /\ Calm(s, e)
    BY <1>2, <1>3 DEF Glides, Calm
<1>5. ChainOf(s)'
    BY <1>1, <1>2, <1>3, <1>4, ChainStands DEF ChainOf
<1> QED
    BY <1>2, <1>3, <1>4, <1>5, GlideOn

\* A reference B that a launch gated on is its burst's own, and whole once its chain
\* has counted it.
LEMMA HeldOwn ==
    ASSUME IInv, NEW f \in Slots, ChainOf(f), ~bur[f].err, NEW p, HoldsRefB(f, p)
    PROVE  OwnRef(f, p)
<1>1. BurstIs(bur[f]) /\ BurstOf(f)
    BY DEF IInv, TypeInv, BurstInv
<1>2. Len(bur[f].bs) = Len(PlanOf(f)) /\ Len(PlanOf(f)) > 0
    BY <1>1, StreamsFirst DEF HoldsRefB, BurstOf
<1>3. 1 \in 1 .. Len(bur[f].bs)
    BY <1>1, <1>2 DEF BurstIs
<1>4. bur[f].bs[1].ref /\ bur[f].bs[1].pic = RefB(f)
    BY <1>3 DEF ChainOf, HoldsRefB, Bdepth, RefB
<1>5. 1 \in Marked(f)
    BY <1>3, <1>4 DEF Marked
<1> QED
    BY <1>4, <1>5 DEF HoldsRefB, OwnRef

LEMMA HeldFinal ==
    ASSUME IInv, NEW f \in Slots, ChainOf(f), ~bur[f].err, NEW p, HoldsRefB(f, p),
           bur[f].refbDone >= RefBs(f)
    PROVE  p \in final
  BY HeldOwn, RefsFinal DEF OwnRef

LEMMA WaitRefBReads ==
    ASSUME IInv, RInv, NEW s \in Slots, WaitRefB(s)
    PROVE  RInv'
<1>1. TypeInv /\ BurstOf(s) /\ ChainOf(s) /\ ChainInv /\ GateRInv /\ OrderInv
    BY PartsIs DEF IInv, BurstInv, ChainInv
<1>2. PICK e : /\ Becomes(s, e)
               /\ e.live = bur[s].live /\ e.anchor = bur[s].anchor /\ e.bs = bur[s].bs
               /\ e.coded = bur[s].coded /\ e.refbDone = bur[s].refbDone
               /\ e.refb = bur[s].refb /\ e.fired = bur[s].fired /\ e.col = bur[s].col
               /\ e.err = bur[s].err /\ e.phase = "code"
    BY <1>1, WaitRefBOf
<1>3. /\ bur[s].phase = "gate" /\ prog' = prog /\ final' = final
      /\ UNCHANGED <<cfg, api, group, nbuf, slot, seq, prepped, dpb, nextFn, last>>
    BY DEF WaitRefB, marks, buffers
<1>4. Glides(s, e) /\ Calm(s, e)
    BY <1>2, <1>3 DEF Glides, Calm
<1>5. ChainOf(s)'
    BY <1>1, <1>2, <1>3, <1>4, ChainStands DEF ChainOf
<1>6. \A t \in Slots : Ago(s) < Ago(t) => bur[t].anchor = "done"
    BY <1>1, <1>3 DEF OrderInv
<1>7. ASSUME Sound', e.live, NEW x \in bur[s].gates, x.kind = "R" PROVE x.pic \in final'
  <2>1. Sound /\ s \in LiveSlots
      BY <1>2, <1>4, <1>7, GlidesIs DEF Sound, Kept, LiveSlots
  <2>2. SUFFICES ASSUME x.pic \notin final PROVE FALSE
      BY <1>3
  <2>3. PICK f \in Slots : /\ f = x.slot /\ bur[s].rbOf = f /\ bur[f].seq = bur[s].rbSeq
                           /\ HoldsRefB(f, x.pic)
      BY <1>1, <1>7, <2>1, <2>2 DEF GateRInv
  <2>4. f # NoSlot
      BY <1>1, CfgIs DEF TypeInv, Slots, NoSlot
  <2>5. bur[f].refbDone >= RefBs(f)
      BY <2>3, <2>4 DEF WaitRefB
  <2>6. ChainOf(f) /\ ~bur[f].err
      BY <1>1, <2>1 DEF ChainInv, Sound
  <2> QED
      BY <2>2, <2>3, <2>5, <2>6, HeldFinal
<1> QED
    BY <1>4, <1>5, <1>6, <1>7, GlideKeeps

LEMMA LandedFinite ==
    ASSUME IInv, NEW s \in Slots, ChainOf(s)
    PROVE  IsFiniteSet(Landed(s)) /\ Cardinality(Landed(s)) \in Nat
<1>1. bur[s].coded \in Nat /\ bur[s].coded \in Int
    BY DEF IInv, TypeInv, BurstIs, ChainOf
<1>2. IsFiniteSet(1 .. bur[s].coded)
    BY <1>1, FS_Interval, 1 \in Int, Zenon
<1>3. Landed(s) \subseteq 1 .. bur[s].coded
    BY DEF Landed
<1> QED
    BY <1>2, <1>3, FS_Subset, FS_CardinalityType, Zenon

LEMMA LaunchRefBReads ==
    ASSUME IInv, RInv, NEW s \in Slots, LaunchRefB(s)
    PROVE  RInv'
<1>1. TypeInv /\ BurstOf(s) /\ ChainOf(s) /\ BurstIs(bur[s])
    BY PartsIs DEF IInv, TypeInv, BurstInv, ChainInv
<1>2. PICK e : /\ Becomes(s, e)
               /\ e.live = bur[s].live /\ e.anchor = bur[s].anchor /\ e.phase = bur[s].phase
               /\ e.bs = bur[s].bs /\ e.refbDone = bur[s].refbDone /\ e.fired = bur[s].fired
               /\ e.col = bur[s].col /\ e.err = bur[s].err
               /\ e.refb = "run" /\ e.coded = 1
    BY <1>1, LaunchRefBOf
<1>3. /\ bur[s].phase = "code" /\ bur[s].coded = 0 /\ Bdepth(s) /\ prog' = prog /\ final' = final
      /\ UNCHANGED <<cfg, api, group, nbuf, slot, seq, prepped, dpb, nextFn, last>>
    BY DEF LaunchRefB, marks, NoFill
<1>4. Glides(s, e) /\ Calm(s, e)
    BY <1>2, <1>3 DEF Glides, Calm
<1>5. 1 \in 0 .. Len(e.bs)
  <2>1. Len(bur[s].bs) = Len(PlanOf(s)) /\ Len(PlanOf(s)) > 0
      BY <1>1, <1>3, StreamsFirst DEF BurstOf, ChainOf
  <2> QED
      BY <1>1, <1>2, <2>1 DEF BurstIs
<1>6. bur[s].refbDone <= 0
  <2>1. Landed(s) = {}
      BY <1>3 DEF Landed
  <2> QED
      BY <1>1, <1>3, <2>1, FS_EmptySet DEF ChainOf
<1>7. ChainOf(s)'
  <2>1. bur'[s] = e /\ Same(e, bur[s])
      BY <1>4, GlidesIs, Zenon DEF Glides, Becomes
  <2>2. PlanOf(s)' = PlanOf(s) /\ (Bdepth(s) <=> Bdepth(s)')
      BY <1>3, <2>1, FixedIs
  <2>3. Landed(s)' = {} /\ \A i \in 1 .. e.coded : Streaming(s, i)'
      BY <1>2, <2>1 DEF Landed, Streaming
  <2>4. bur'[s].refbDone <= Cardinality(Landed(s)')
      BY <1>2, <1>6, <2>1, <2>3, FS_EmptySet
  <2> QED
      BY <1>1, <1>2, <1>3, <1>5, <2>1, <2>2, <2>3, <2>4 DEF ChainOf, Same
<1> QED
    BY <1>2, <1>3, <1>4, <1>7, GlideOn

LEMMA CodeBReads ==
    ASSUME IInv, RInv, NEW s \in Slots, CodeB(s)
    PROVE  RInv'
<1>1. TypeInv /\ BurstOf(s) /\ ChainOf(s) /\ BurstIs(bur[s])
    BY PartsIs DEF IInv, TypeInv, BurstInv, ChainInv
<1>2. PICK k : k = bur[s].coded + 1
    OBVIOUS
<1>3. PICK e : /\ Becomes(s, e)
               /\ e.live = bur[s].live /\ e.anchor = bur[s].anchor /\ e.phase = bur[s].phase
               /\ e.bs = bur[s].bs /\ e.refb = bur[s].refb /\ e.fired = bur[s].fired
               /\ e.col = bur[s].col /\ e.err = bur[s].err /\ e.coded = k
               /\ e.refbDone = (IF bur[s].bs[k].ref THEN bur[s].refbDone + 1
                                                    ELSE bur[s].refbDone)
    BY <1>1, <1>2, CodeBOf
<1>4. /\ bur[s].phase = "code" /\ k <= Len(bur[s].bs) /\ (k = 1 => ~Bdepth(s))
      /\ prog' = prog /\ final' = final \cup {bur[s].bs[k].pic}
      /\ UNCHANGED <<cfg, api, group, nbuf, slot, seq, prepped, dpb, nextFn, last>>
    BY <1>2 DEF CodeB, marks, NoFill
<1>5. Glides(s, e) /\ Calm(s, e)
    BY <1>3, <1>4 DEF Glides, Calm
<1>6. /\ bur[s].coded \in Nat /\ k \in 1 .. Len(bur[s].bs) /\ bur[s].refbDone \in Nat
      /\ bur[s].refbDone <= Cardinality(Landed(s))
    BY <1>1, <1>2, <1>4 DEF BurstIs, ChainOf
<1>7. ChainOf(s)'
  <2>1. bur'[s] = e /\ Same(e, bur[s])
      BY <1>5, GlidesIs, Zenon DEF Glides, Becomes
  <2>2. PlanOf(s)' = PlanOf(s) /\ (Bdepth(s) <=> Bdepth(s)')
      BY <1>4, <2>1, FixedIs
  <2>3. ~Streaming(s, k) /\ \A i : Streaming(s, i)' <=> Streaming(s, i)
      BY <1>1, <1>3, <1>4, <2>1 DEF Streaming, ChainOf
  <2>4. 1 .. k = (1 .. bur[s].coded) \cup {k} /\ k \notin 1 .. bur[s].coded
      BY <1>2, <1>6
  <2>5. Landed(s)' = IF bur[s].bs[k].ref THEN Landed(s) \cup {k} ELSE Landed(s)
      BY <1>3, <2>1, <2>3, <2>4 DEF Landed
  <2>6. k \notin Landed(s)
      BY <2>4 DEF Landed
  <2>7. e.refbDone \in Nat /\ e.refbDone <= Cardinality(Landed(s)')
    <3>1. CASE bur[s].bs[k].ref
      <4>1. Cardinality(Landed(s) \cup {k}) = Cardinality(Landed(s)) + 1
              /\ Cardinality(Landed(s)) \in Nat
          BY <1>1, <2>6, LandedFinite, FS_AddElement, Zenon
      <4>2. e.refbDone = bur[s].refbDone + 1 /\ Landed(s)' = Landed(s) \cup {k}
          BY <1>3, <2>5, <3>1
      <4> QED
          BY <1>6, <4>1, <4>2
    <3>2. CASE ~bur[s].bs[k].ref
        BY <1>3, <1>6, <2>5, <3>2
    <3> QED
        BY <3>1, <3>2
  <2>8. \A i \in 1 .. k : Streaming(s, i)' \/ bur[s].bs[i].pic \in final'
      BY <1>1, <1>4, <2>3, <2>4, Zenon DEF ChainOf
  <2>9. e.coded \in 0 .. Len(e.bs) /\ e.coded >= 1 /\ e.coded = k
      BY <1>3, <1>6
  <2>10. (e.refb = "run" => Bdepth(s)') /\ e.phase = "code" /\ ~e.err
      BY <1>1, <1>3, <1>4, <2>2 DEF ChainOf
  <2> QED
      BY <1>1, <1>3, <1>4, <2>1, <2>2, <2>7, <2>8, <2>9, <2>10, SMTT(150) DEF ChainOf, Same
<1> QED
    BY <1>3, <1>4, <1>5, <1>7, GlideOn

LEMMA StreamRefBReads ==
    ASSUME IInv, RInv, NEW s \in Slots, StreamRefB(s)
    PROVE  RInv'
<1>1. TypeInv /\ BurstOf(s) /\ ChainOf(s) /\ BurstIs(bur[s])
    BY PartsIs DEF IInv, TypeInv, BurstInv, ChainInv
<1>2. PICK e : /\ Becomes(s, e)
               /\ e.live = bur[s].live /\ e.anchor = bur[s].anchor /\ e.phase = bur[s].phase
               /\ e.bs = bur[s].bs /\ e.coded = bur[s].coded /\ e.fired = bur[s].fired
               /\ e.col = bur[s].col /\ e.err = bur[s].err
               /\ e.refb = "done" /\ e.refbDone = bur[s].refbDone + 1
    BY <1>1, StreamRefBOf
<1>3. /\ bur[s].refb = "run" /\ prog' = prog /\ final' = final \cup {bur[s].bs[1].pic}
      /\ UNCHANGED <<cfg, api, group, nbuf, slot, seq, prepped, dpb, nextFn, last>>
    BY DEF StreamRefB, buffers
<1>4. Glides(s, e) /\ Calm(s, e)
    BY <1>2, <1>3 DEF Glides, Calm
<1>5. /\ bur[s].phase = "code" /\ Bdepth(s) /\ bur[s].coded \in Nat /\ bur[s].coded >= 1
      /\ bur[s].coded <= Len(bur[s].bs) /\ bur[s].refbDone \in Nat
      /\ bur[s].refbDone <= Cardinality(Landed(s))
    BY <1>1, <1>3 DEF BurstIs, ChainOf
<1>6. 1 \in 1 .. bur[s].coded /\ bur[s].bs[1].ref
  <2>1. 1 \in 1 .. bur[s].coded /\ 1 \in 1 .. Len(bur[s].bs)
      BY <1>1, <1>5 DEF BurstIs
  <2> QED
      BY <1>1, <1>5, <2>1 DEF ChainOf, Bdepth
<1>7. ChainOf(s)'
  <2>1. bur'[s] = e /\ Same(e, bur[s])
      BY <1>4, GlidesIs, Zenon DEF Glides, Becomes
  <2>2. PlanOf(s)' = PlanOf(s) /\ (Bdepth(s) <=> Bdepth(s)')
      BY <1>3, <2>1, FixedIs
  <2>3. (\A i : ~Streaming(s, i)') /\ (\A i : Streaming(s, i) <=> i = 1)
      BY <1>2, <1>3, <2>1 DEF Streaming
  <2>5. Landed(s)' = Landed(s) \cup {1} /\ 1 \notin Landed(s)
      BY <1>2, <1>6, <2>1, <2>3 DEF Landed
  <2>6. Cardinality(Landed(s) \cup {1}) = Cardinality(Landed(s)) + 1
          /\ Cardinality(Landed(s)) \in Nat
      BY <1>1, <2>5, LandedFinite, FS_AddElement, Zenon
  <2>7. e.refbDone \in Nat /\ e.refbDone <= Cardinality(Landed(s)')
      BY <1>2, <1>5, <2>5, <2>6
  <2>8. \A i \in 1 .. bur[s].coded : bur[s].bs[i].pic \in final'
      BY <1>1, <1>3, <2>3 DEF ChainOf
  <2> QED
      BY <1>1, <1>2, <1>3, <1>5, <2>1, <2>2, <2>7, <2>8, SMTT(150) DEF ChainOf, Same
<1> QED
    BY <1>2, <1>4, <1>5, <1>7, GlideOn

LEMMA RefBsIs ==
    ASSUME IInv, NEW s \in Slots
    PROVE  RefBs(s) \in Nat
<1>1. PICK n \in 0 .. 7 : n = bur[s].nbuf
    BY Zenon DEF IInv, TypeInv, BurstIs
<1>2. RefBs(s) = Heads(n)
    BY <1>1, NRefBIs DEF RefBs
<1> QED
    BY <1>2 DEF Heads

LEMMA EndReads ==
    ASSUME IInv, RInv, NEW s \in Slots, End(s)
    PROVE  RInv'
<1>1. TypeInv /\ BurstOf(s) /\ ChainOf(s)
    BY PartsIs DEF IInv, BurstInv, ChainInv
<1>2. PICK e : /\ Becomes(s, e)
               /\ e.live = bur[s].live /\ e.anchor = bur[s].anchor /\ e.bs = bur[s].bs
               /\ e.coded = bur[s].coded /\ e.refb = bur[s].refb /\ e.err = bur[s].err
               /\ e.phase = "ended" /\ e.fired = TRUE /\ e.refbDone = RefBs(s)
               /\ e.col = (IF cfg.wide THEN bur[s].col ELSE {})
    BY <1>1, EndOf, Zenon
<1>3. /\ AllCoded(s) \/ bur[s].phase = "join"
      /\ bur[s].anchor = "done" /\ bur[s].refb # "run" /\ prog' = prog /\ final' = final
      /\ UNCHANGED <<cfg, api, group, nbuf, slot, seq, prepped, dpb, nextFn, last>>
    BY DEF End, buffers
<1>4. \/ bur[s].phase = "code" /\ bur[s].coded = Len(bur[s].bs)
      \/ bur[s].phase = "join"
    BY <1>3 DEF AllCoded
<1>5. bur[s].phase = "join" => bur[s].err
    BY <1>1 DEF BurstOf
<1>6. Glides(s, e) /\ Calm(s, e)
    BY <1>2, <1>3, <1>4 DEF Glides, Calm
<1>7. ChainOf(s)'
    BY <1>1, <1>2, <1>3, <1>4, <1>5, <1>6, RefBsIs, ChainStands DEF ChainOf
<1> QED
    BY <1>2, <1>4, <1>5, <1>6, <1>7, GlideOn

\* A chain that leaves its wait finds every anchor before its own published.
LEMMA WaitPrevReads ==
    ASSUME IInv, RInv, NEW s \in Slots, WaitPrev(s)
    PROVE  RInv'
<1>1. TypeInv /\ BurstInv /\ BurstOf(s) /\ ChainOf(s) /\ ChainInv /\ OrderInv /\ PlaceInv
    BY PartsIs DEF IInv, BurstInv, ChainInv
<1>2. PICK e : /\ Becomes(s, e)
               /\ e.live = bur[s].live /\ e.anchor = bur[s].anchor /\ e.bs = bur[s].bs
               /\ e.coded = bur[s].coded /\ e.refbDone = bur[s].refbDone
               /\ e.refb = bur[s].refb /\ e.fired = bur[s].fired /\ e.col = bur[s].col
               /\ e.err = bur[s].err /\ e.phase = "prep"
    BY <1>1, WaitPrevOf
<1>3. /\ bur[s].phase = "wait" /\ (bur[s].prevP # NoSlot => prog[bur[s].prevP].full)
      /\ prog' = prog /\ final' = final
      /\ UNCHANGED <<cfg, api, group, nbuf, slot, seq, prepped, dpb, nextFn, last>>
    BY DEF WaitPrev, marks, buffers
<1>4. Glides(s, e) /\ Calm(s, e)
    BY <1>2, <1>3 DEF Glides, Calm
<1>5. ChainOf(s)'
    BY <1>1, <1>2, <1>3, <1>4, ChainStands DEF ChainOf
<1>6. s = slot /\ bur[s].live
    BY <1>1, <1>3 DEF BurstOf, OrderInv
<1>7. cfg \in Settings /\ slot \in Slots /\ cfg.wide \in BOOLEAN
    BY <1>1, CfgIs DEF TypeInv
<1>8. \A t \in Slots : Ago(t) \in Nat
    BY <1>7, AgoIs, CfgIs
<1>9. ASSUME NEW t \in Slots, Ago(t) = 1 PROVE bur[t].anchor = "done"
  <2>1. CASE ~bur[t].live
      BY <1>1, <2>1 DEF BurstInv, BurstOf
  <2>2. CASE bur[t].live
    <3>1. Ago(s) < Ago(t)
        BY <1>6, <1>7, <1>9, AgoIs
    <3>2. cfg.wide /\ bur[s].prevP = t
        BY <1>1, <1>3, <1>6, <1>7, <1>9, <2>2, <3>1 DEF OrderInv
    <3>3. t # NoSlot
        BY <1>7, CfgIs DEF Slots, NoSlot
    <3>4. prog[t].full
        BY <1>3, <3>2, <3>3
    <3> QED
        BY <1>1, <3>4 DEF ChainInv, ChainOf
  <2> QED
      BY <2>1, <2>2
<1>10. ASSUME NEW t \in Slots, Ago(s) < Ago(t) PROVE bur[t].anchor = "done"
  <2>1. PICK u \in Slots : Ago(u) = 1
    <3>1. IF slot = 0 THEN cfg.ring - 1 \in Slots /\ Ago(cfg.ring - 1) = 1
                      ELSE slot - 1 \in Slots /\ Ago(slot - 1) = 1
        BY <1>7, CfgIs DEF Slots, Ago
    <3> QED
        BY <3>1
  <2>2. CASE t = u
      BY <1>9, <2>1, <2>2
  <2>3. CASE t # u /\ ~bur[t].live
      BY <1>1, <2>3 DEF BurstInv, BurstOf
  <2>4. CASE t # u /\ bur[t].live
    <3>1. Ago(u) < Ago(t) /\ u # slot
        BY <1>6, <1>7, <1>8, <1>10, <2>1, <2>4, AgoIs
    <3>2. bur[u].live
        BY <1>1, <2>4, <3>1 DEF PlaceInv
    <3>3. bur[u].phase \in {"gate", "code", "ended"}
        BY <1>1, <3>1, <3>2 DEF OrderInv, BurstInv, BurstOf
    <3> QED
        BY <1>1, <3>1, <3>3 DEF OrderInv
  <2> QED
      BY <2>2, <2>3, <2>4
<1>11. e.phase \notin {"code", "ended"}
    BY <1>2
<1> QED
    BY <1>4, <1>5, <1>10, <1>11, GlideKeeps

-----------------------------------------------------------------------------
(* The API thread's steps between launches.                                 *)

\* A call that leaves bursts and references alone.
LEMMA QuietKeeps ==
    ASSUME IInv, RInv, PreppedInv', ErrInv', CallInv',
           UNCHANGED <<cfg, slot, seq, bur, prog, dpb, nextFn, last, final>>,
           last <= 8 * group', api' \in {"bill", "ring", "begin", "drainall"} => last <= 8 * (group' - 1)
    PROVE  RInv'
<1>1. PICK s \in Slots : s = slot
    BY DEF IInv, TypeInv
<1>2. PICK e : e = bur[s]
    OBVIOUS
<1>3. bur = [t \in Slots |-> bur[t]] /\ BurstIs(e)
    BY <1>2 DEF IInv, TypeInv
<1>4. bur' = [bur EXCEPT ![s] = e]
    BY <1>2, <1>3
<1>5. Glides(s, e)
    BY <1>2, <1>3, <1>4 DEF Glides, Becomes, Same
<1>6. ChainInv /\ OrderInv
    BY PartsIs
<1>7. ChainOf(s)'
    BY <1>6, ChainKept DEF ChainInv
<1>8. e.phase \notin {"armed", "wait"} => \A t \in Slots : Ago(s) < Ago(t) => bur[t].anchor = "done"
    BY <1>2, <1>6 DEF OrderInv
<1>9. Sound' /\ e.live /\ e.phase \in {"code", "ended"} =>
          \A x \in bur[s].gates : x.kind = "R" => x.pic \in final'
  <2>1. Sound' => Sound
      BY DEF Sound, Slots
  <2>2. e.live => s \in LiveSlots
      BY <1>2 DEF LiveSlots
  <2> QED
      BY <1>2, <2>1, <2>2, CodingGates
<1> QED
    BY <1>2, <1>5, <1>7, <1>8, <1>9, GlideParts

\* What is said of a failed burst stays as long as no call leaves the failed encode.
LEMMA ErrKept ==
    ASSUME ErrInv, cfg' = cfg, bur' = bur,
           api \in {"rescue", "dangling", "failed"} => api' \in {"rescue", "dangling", "failed"}
    PROVE  ErrInv'
  BY DEF ErrInv, Slots

LEMMA CallReads ==
    ASSUME IInv, RInv, \/ \E n \in 1 .. cfg.bframes : StartBurst(n)
                       \/ StartSerial \/ Bill \/ Flush \/ Finish
    PROVE  RInv'
<1>1. OrderInv /\ ErrInv /\ group \in Nat /\ last \in Nat /\ last <= 8 * group
        /\ (api = "bill" => last <= 8 * (group - 1))
    BY PartsIs DEF IInv, TypeInv, OrderInv
<1>2. UNCHANGED <<cfg, slot, seq, bur, prog, dpb, nextFn, last, final>>
    BY DEF StartBurst, StartSerial, Take, Bill, Flush, Finish, marks, buffers
<1>3. api' # "begin"
    BY DEF StartBurst, StartSerial, Take, Bill, Flush, Finish
<1>4. PreppedInv'
    BY <1>3 DEF PreppedInv
<1>5. api \in {"rescue", "dangling", "failed"} => api' \in {"rescue", "dangling", "failed"}
    BY DEF StartBurst, StartSerial, Take, Bill, Flush, Finish
<1>6. ErrInv'
    BY <1>1, <1>2, <1>5, ErrKept
<1>7. (group' = group + 1) \/ (group' = group /\ (api' \in {"bill", "ring", "begin", "drainall"} => api = "bill"))
    BY DEF StartBurst, StartSerial, Take, Bill, Flush, Finish
<1>8. last <= 8 * group' /\ (api' \in {"bill", "ring", "begin", "drainall"} => last <= 8 * (group' - 1))
    BY <1>1, <1>7
<1>9. CallInv'
  <2>1. CASE \E n \in 1 .. cfg.bframes : StartBurst(n)
    <3>1. group' = group + 1 /\ nbuf' \in 1 .. cfg.bframes /\ cfg' = cfg
        BY <2>1 DEF StartBurst, Take
    <3> QED
        BY <1>1, <3>1 DEF CallInv
  <2>2. CASE Bill
      BY <2>2, PartsIs DEF CallInv, Bill
  <2>3. CASE StartSerial \/ Flush \/ Finish
      BY <2>3 DEF CallInv, StartSerial, Flush, Finish
  <2> QED
      BY <2>1, <2>2, <2>3
<1> QED
    BY <1>2, <1>4, <1>6, <1>8, <1>9, QuietKeeps

LEMMA SubmitReads ==
    ASSUME IInv, RInv, Submit
    PROVE  RInv'
<1>1. TypeInv /\ PlaceInv /\ ApiInv /\ ChainInv /\ OrderInv /\ ErrInv
    BY PartsIs DEF IInv
<1>2. PICK s \in Slots : s = slot
    BY <1>1 DEF TypeInv
<1>3. PICK e : /\ Becomes(s, e)
               /\ e.live = bur[s].live /\ e.anchor = bur[s].anchor /\ e.bs = bur[s].bs
               /\ e.coded = bur[s].coded /\ e.refbDone = bur[s].refbDone
               /\ e.refb = bur[s].refb /\ e.fired = bur[s].fired /\ e.col = bur[s].col
               /\ e.err = bur[s].err
               /\ e.phase = "wait"
    BY <1>1, <1>2, SubmitOf
<1>4. /\ api \in {"retire", "rescue"} /\ (api = "retire" => cfg.wide \/ Cardinality(LiveSlots) = 1)
      /\ api' = (IF api = "retire" THEN "idle" ELSE "dangling")
      /\ prog' = prog /\ final' = final
      /\ UNCHANGED <<cfg, group, slot, seq, prepped, dpb, nextFn, last>>
    BY DEF Submit, marks, buffers
<1>5. bur[s].live /\ bur[s].phase = "armed"
    BY <1>1, <1>2, <1>4 DEF ApiInv
<1>6. cfg.wide \/ LiveSlots \subseteq {s}
  <2>1. CASE api = "retire"
    <3>1. SUFFICES ASSUME Cardinality(LiveSlots) = 1 PROVE LiveSlots \subseteq {s}
        BY <1>4, <2>1
    <3>2. PICK x : LiveSlots = {x}
        BY <1>1, <3>1, LiveFinite, FS_Singleton, Zenon DEF TypeInv
    <3>3. s \in LiveSlots
        BY <1>5 DEF LiveSlots
    <3> QED
        BY <3>2, <3>3
  <2>2. CASE api = "rescue"
    <3>1. ASSUME ~cfg.wide, NEW t \in Slots, bur[t].live PROVE t = s
        BY <1>1, <1>2, <2>2, <3>1 DEF PlaceInv
    <3> QED
        BY <3>1 DEF LiveSlots
  <2> QED
      BY <1>4, <2>1, <2>2
<1>7. Glides(s, e)
    BY <1>3, <1>4, <1>6 DEF Glides
<1>8. ChainOf(s)'
    BY <1>1, <1>3, <1>4, <1>5, <1>7, ChainStands DEF ChainInv, ChainOf
<1>9. PreppedInv' /\ CallInv' /\ ErrInv'
  <2>1. \A t \in Slots : bur'[t].err = bur[t].err /\ bur'[t].live = bur[t].live
      BY <1>1, <1>3, BecomesIs
  <2>2. PreppedInv' /\ CallInv'
      BY <1>4 DEF PreppedInv, CallInv
  <2>3. ErrInv'
    <3>1. Slots' = Slots
        BY <1>4 DEF Slots
    <3> QED
        BY <1>1, <1>4, <2>1, <3>1 DEF ErrInv
  <2> QED
      BY <2>2, <2>3
<1>10. last <= 8 * group' /\ api' \notin {"bill", "ring", "begin", "drainall"}
    BY <1>1, <1>4 DEF OrderInv
<1> QED
    BY <1>3, <1>7, <1>8, <1>9, <1>10, GlideParts

\* A burst that has come to its end leaves its pictures whole.
LEMMA EndedFinal ==
    ASSUME IInv, RInv, NEW s \in Slots, ~bur[s].err, bur[s].live, Synced(s), NEW p,
           OwnPic(s, p) \/ HoldsRefB(s, p)
    PROVE  p \in final
<1>1. BurstIs(bur[s]) /\ ChainOf(s) /\ PlaceInv /\ cfg \in Settings /\ slot \in Slots
    BY PartsIs DEF IInv, TypeInv, ChainInv
<1>2. bur[s].phase = "ended" /\ bur[s].anchor = "done"
    BY DEF Synced
<1>3. bur[s].seq > 0
  <2>1. Ago(s) \in Nat /\ seq \in Nat
      BY <1>1, AgoIs, CfgIs DEF IInv, TypeInv
  <2>2. Ago(s) < seq /\ bur[s].seq = seq - Ago(s)
      BY <1>1, <2>1 DEF PlaceInv
  <2> QED
      BY <2>1, <2>2
<1>4. p = bur[s].pic \/ OwnRef(s, p)
    BY <1>1, HeldOwn DEF OwnPic
<1>5. CASE p = bur[s].pic
    BY <1>1, <1>2, <1>3, <1>5 DEF ChainOf
<1>6. CASE OwnRef(s, p)
  <2>1. PICK i \in Marked(s) : bur[s].bs[i].pic = p
      BY <1>6 DEF OwnRef
  <2>2. bur[s].coded = Len(bur[s].bs) /\ ~Streaming(s, i)
      BY <1>1, <1>2 DEF ChainOf, Streaming
  <2> QED
      BY <1>1, <2>1, <2>2 DEF ChainOf, Marked
<1> QED
    BY <1>4, <1>5, <1>6

LEMMA DrainOldestReads ==
    ASSUME IInv, RInv, DrainOldest
    PROVE  RInv'
<1>1. TypeInv /\ PlaceInv /\ ApiInv /\ ChainInv /\ OrderInv /\ ErrInv
    BY PartsIs DEF IInv
<1>2. PICK s : s = Oldest
    OBVIOUS
<1>3. s \in Slots /\ bur[s].live
    BY <1>1, <1>2, OldestIs DEF DrainOldest, LiveSlots
<1>4. PICK e : /\ Becomes(s, e)
               /\ e.anchor = bur[s].anchor /\ e.phase = bur[s].phase /\ e.bs = bur[s].bs
               /\ e.coded = bur[s].coded /\ e.refbDone = bur[s].refbDone
               /\ e.refb = bur[s].refb /\ e.fired = bur[s].fired /\ e.col = bur[s].col
               /\ e.err = bur[s].err
               /\ e.live = FALSE
    BY <1>1, <1>2, <1>3, DrainOldestOf, Zenon
<1>5. /\ Synced(s) /\ prog' = prog /\ final' = final
      /\ api' = (IF ~bur[s].err \/ api = "dangling" THEN api
                 ELSE IF api = "retire" THEN "rescue" ELSE "failed")
      /\ api \in {"ring", "retire", "drainall", "flush", "dangling"}
      /\ UNCHANGED <<cfg, group, nbuf, slot, seq, prepped, dpb, nextFn, last>>
    BY <1>2 DEF DrainOldest, marks, buffers
<1>6. Glides(s, e)
    BY <1>4, <1>5 DEF Glides
<1>7. bur[s].phase = "ended"
    BY <1>5 DEF Synced
<1>8. ChainOf(s)'
    BY <1>1, <1>3, <1>4, <1>5, <1>6, <1>7, ChainStands DEF ChainInv, ChainOf
<1>9. PreppedInv' /\ CallInv'
    BY <1>5, PartsIs DEF PreppedInv, CallInv
<1>10. ErrInv'
  <2>1. Slots' = Slots /\ bur'[s] = e /\ \A t \in Slots : t # s => bur'[t] = bur[t]
      BY <1>3, <1>6, GlidesIs
  <2>2. \A t \in Slots : bur[t].err /\ ~bur[t].live => api' \in {"rescue", "dangling", "failed"}
      BY <1>1, <1>5 DEF ErrInv
  <2>3. bur[s].err => api' \in {"rescue", "dangling", "failed"}
      BY <1>3, <1>5 DEF TypeInv, BurstIs
  <2> QED
      BY <1>4, <2>1, <2>2, <2>3 DEF ErrInv
<1>11. last <= 8 * group' /\ (api' \in {"bill", "ring", "begin", "drainall"} => last <= 8 * (group' - 1))
    BY <1>1, <1>5 DEF OrderInv
<1>12. e.phase \notin {"armed", "wait"} => \A t \in Slots : Ago(s) < Ago(t) => bur[t].anchor = "done"
    BY <1>1, <1>3, <1>4 DEF OrderInv
<1>13. Sound' => Sound
    BY <1>3, <1>6, GlidesIs DEF Sound, Kept
<1>14. Sound' => \A p : OwnPic(s, p) \/ HoldsRefB(s, p) => p \in final'
    BY <1>3, <1>5, <1>13, EndedFinal DEF Sound
<1> QED
    BY <1>3, <1>4, <1>6, <1>8, <1>9, <1>10, <1>11, <1>12, <1>14, GlideParts

-----------------------------------------------------------------------------
(* A launch is prepared.                                                    *)

\* A burst has at most the reference B's of its plan.
LEMMA MarkedIs ==
    ASSUME IInv, NEW s \in Slots, ChainOf(s)
    PROVE  /\ IsFiniteSet(Marked(s)) /\ Count(s) \in Nat /\ Count(s) <= RefBs(s)
           /\ (Marked(s) # {} => RefBs(s) > 0)
           /\ (Bdepth(s) => \A i \in Marked(s) : i = 1 /\ bur[s].bs[i].pic = RefB(s))
<1>1. PICK b, p : b = bur[s] /\ p = PlanOf(s)
    OBVIOUS
<1>2. BurstIs(b) /\ p \in Seq(PlanEntry)
    BY <1>1, PlanOfIs DEF IInv, TypeInv
<1>3. /\ Len(b.bs) \in Nat /\ Len(p) \in Nat /\ DOMAIN p = 1 .. Len(p) /\ Len(b.bs) <= Len(p)
      /\ \A i \in 1 .. Len(b.bs) : b.bs[i].ref = p[i].ref
    BY <1>1, <1>2 DEF BurstIs, ChainOf
<1>4. RefBs(s) = Cardinality(RefsOf(p))
    BY <1>1 DEF RefBs, NRefB, PlanOf, RefsOf
<1>5. IsFiniteSet(RefsOf(p)) /\ Cardinality(RefsOf(p)) \in Nat
  <2>1. RefsOf(p) \subseteq 1 .. Len(p) /\ IsFiniteSet(1 .. Len(p))
      BY <1>3, FS_Interval, 1 \in Int, Len(p) \in Int DEF RefsOf
  <2> QED
      BY <2>1, FS_Subset, FS_CardinalityType
<1>6. Marked(s) \subseteq RefsOf(p)
    BY <1>1, <1>3 DEF Marked, RefsOf
<1>7. IsFiniteSet(Marked(s)) /\ Count(s) \in Nat /\ Count(s) <= RefBs(s)
    BY <1>4, <1>5, <1>6, FS_Subset, FS_CardinalityType DEF Count
<1>8. ASSUME Marked(s) # {} PROVE RefBs(s) > 0
  <2>1. Cardinality(RefsOf(p)) # 0
      BY <1>5, <1>6, <1>8, FS_EmptySet
  <2> QED
      BY <1>4, <1>5, <2>1
<1>9. ASSUME Bdepth(s), NEW i \in Marked(s) PROVE i = 1 /\ b.bs[i].pic = RefB(s)
  <2>1. i \in 1 .. Len(p) /\ p[i].ref /\ i \in 1 .. Len(b.bs)
      BY <1>1, <1>3, <1>9 DEF Marked
  <2>2. i = 1
      BY <1>1, <1>2, <1>9, <2>1, StreamsFirst
  <2> QED
      BY <1>1, <2>1, <2>2 DEF ChainOf, RefB
<1> QED
    BY <1>1, <1>7, <1>8, <1>9

LEMMA FlyIs ==
    /\ (bur[slot].live => Fly = slot) /\ (Fly # NoSlot => bur[slot].live /\ Fly = slot)
  BY DEF Fly

\* A reference B of a burst in flight is waited for by the launch, or gated on.
LEMMA PreparedRefB ==
    ASSUME IInv, RInv, Prepare, Sound, cfg.ref > 1, NEW t \in LiveSlots, NEW p, OwnRef(t, p)
    PROVE  p \in final \/ GatedRefB(p, prepped'.gates)
<1>1. t \in Slots /\ ChainOf(t) /\ ~bur[t].err
    BY PartsIs DEF LiveSlots, ChainInv, Sound
<1>2. PICK i \in Marked(t) : bur[t].bs[i].pic = p
    BY DEF OwnRef
<1>3. RefBs(t) > 0
    BY <1>1, <1>2, MarkedIs
<1>4. CASE GatesRefB(t)
  <2>1. t = Fly /\ Bdepth(t) /\ Fly # NoSlot
      BY <1>1, <1>4, FlyIs, CfgIs DEF GatesRefB, IInv, TypeInv, Slots, NoSlot
  <2>2. p = RefB(Fly)
      BY <1>1, <1>2, <2>1, MarkedIs
  <2>3. [kind |-> "R", slot |-> Fly, pic |-> RefB(Fly)] \in prepped'.gates
      BY <1>4, <2>1 DEF Prepare
  <2> QED
      BY <2>2, <2>3 DEF GatedRefB
<1>5. CASE ~GatesRefB(t)
  <2>1. bur[t].refbDone >= RefBs(t)
      BY <1>3, <1>5 DEF Prepare, ContentWait
  <2> QED
      BY <1>1, <1>2, <2>1, RefsFinal
<1> QED
    BY <1>4, <1>5

\* Behind a newest burst that has fired, only its own anchor can be in the making.
LEMMA OlderAnchors ==
    ASSUME IInv, RInv, bur[slot].fired, NEW t \in Slots, t # slot, bur[t].live
    PROVE  bur[t].pic \in final
<1>1. TypeInv /\ PlaceInv /\ BurstInv /\ ChainOf(t) /\ OrderInv
    BY PartsIs DEF IInv, ChainInv
<1>2. cfg \in Settings /\ slot \in Slots
    BY <1>1 DEF TypeInv
<1>3. Ago(slot) = 0 /\ Ago(t) \in Nat /\ Ago(t) # 0 /\ seq \in Nat
    BY <1>1, <1>2, AgoIs, CfgIs DEF TypeInv
<1>4. bur[t].anchor = "done"
  <2>1. bur[slot].phase \in {"gate", "code", "ended"}
      BY <1>1, <1>2 DEF BurstInv, BurstOf
  <2>2. Ago(slot) < Ago(t)
      BY <1>3
  <2> QED
      BY <1>1, <1>2, <2>1, <2>2 DEF OrderInv
<1>5. bur[t].seq > 0
  <2>1. Ago(t) < seq /\ bur[t].seq = seq - Ago(t)
      BY <1>1, <1>3 DEF PlaceInv
  <2> QED
      BY <1>3, <2>1
<1> QED
    BY <1>1, <1>4, <1>5 DEF ChainOf

LEMMA UsedIs ==
    ASSUME IInv, WindowInv
    PROVE  /\ DOMAIN dpb = 1 .. DpbSize /\ DpbSize \in Nat /\ Window \in Nat /\ DpbSize = Window + 1
           /\ IsFiniteSet(1 .. DpbSize) /\ Cardinality(1 .. DpbSize) = DpbSize
           /\ Used \subseteq 1 .. DpbSize /\ IsFiniteSet(Used) /\ Cardinality(Used) \in Nat
           /\ \A d \in Used : /\ dpb[d].pic \in Nat /\ dpb[d].fn \in Nat /\ dpb[d].fn < nextFn
                              /\ dpb[d].pic <= last
<1>1. dpb = [d \in 1 .. DpbSize |-> dpb[d]]
    BY DEF WindowInv
<1>2. DOMAIN dpb = 1 .. DpbSize
  <2>1. PICK f : f = dpb
      OBVIOUS
  <2>2. f = [d \in 1 .. DpbSize |-> f[d]]
      BY <1>1, <2>1
  <2>3. DOMAIN f = 1 .. DpbSize
      BY <2>2
  <2> QED
      BY <2>1, <2>3
<1>3. DpbSize \in Nat /\ Window \in Nat /\ DpbSize = Window + 1
    BY WindowIs DEF IInv, TypeInv
<1>4. IsFiniteSet(1 .. DpbSize) /\ Cardinality(1 .. DpbSize) = DpbSize
  <2>1. 1 \in Int /\ DpbSize \in Int /\ ~(1 > DpbSize)
      BY <1>3
  <2>2. IsFiniteSet(1 .. DpbSize)
          /\ Cardinality(1 .. DpbSize) = IF 1 > DpbSize THEN 0 ELSE DpbSize - 1 + 1
      BY <2>1, FS_Interval
  <2> QED
      BY <1>3, <2>1, <2>2
<1>5. Used \subseteq 1 .. DpbSize
    BY <1>2 DEF Used
<1>6. IsFiniteSet(Used) /\ Cardinality(Used) \in Nat
    BY <1>4, <1>5, FS_Subset, FS_CardinalityType, Zenon
<1>7. \A d \in Used : /\ dpb[d].pic \in Nat /\ dpb[d].fn \in Nat /\ dpb[d].fn < nextFn
                      /\ dpb[d].pic <= last
    BY <1>5, Zenon DEF WindowInv, EntryIs
<1> QED
    BY <1>2, <1>3, <1>4, <1>5, <1>6, <1>7

\* An anchor's list 0 holds entries of the buffer, and with one reference the
\* previous anchor alone.
LEMMA AnchorRefsIs ==
    ASSUME IInv, WindowInv, NEW r \in AnchorRefs
    PROVE  /\ \E d \in Used : r.pic = dpb[d].pic
           /\ cfg.ref = 1 /\ (\E x \in Used : dpb[x].pic = last) => r.pic = last
<1>1. PICK pinned : pinned = {d \in Used : dpb[d].pic = last}
    BY Zenon
<1>2. PICK n : n = cfg.ref - Cardinality(pinned)
    OBVIOUS
<1>3. PICK d : /\ r = Borrow(d)
               /\ \/ d \in pinned
                  \/ d \in Used \ pinned /\
                     Cardinality({x \in Used \ pinned : dpb[x].fn > dpb[d].fn}) < n
    BY <1>1, <1>2, Zenon DEF AnchorRefs, First
<1>4. d \in Used /\ r.pic = dpb[d].pic
    BY <1>1, <1>3 DEF Borrow
<1>5. ASSUME cfg.ref = 1, NEW x \in Used, dpb[x].pic = last PROVE r.pic = last
  <2>1. IsFiniteSet(pinned) /\ Cardinality(pinned) \in Nat
      BY <1>1, UsedIs, FS_Subset, FS_CardinalityType
  <2>2. Cardinality(pinned) # 0
    <3>1. x \in pinned
        BY <1>1, <1>5
    <3> QED
        BY <2>1, <3>1, FS_EmptySet
  <2>3. ~(n > 0)
      BY <1>2, <1>5, <2>1, <2>2
  <2>4. Cardinality({y \in Used \ pinned : dpb[y].fn > dpb[d].fn}) \in Nat
    <3>1. {y \in Used \ pinned : dpb[y].fn > dpb[d].fn} \subseteq Used
        OBVIOUS
    <3> QED
        BY <3>1, UsedIs, FS_Subset, FS_CardinalityType
  <2>5. n \in Int
      BY <1>2, <1>5, <2>1
  <2>6. d \in pinned
      BY <1>3, <2>3, <2>4, <2>5
  <2> QED
      BY <1>1, <1>4, <2>6
<1> QED
    BY <1>4, <1>5

LEMMA PrepareReads ==
    ASSUME IInv, RInv, Prepare
    PROVE  RInv'
<1>1. /\ TypeInv /\ PlaceInv /\ ApiInv /\ OrderInv /\ ErrInv /\ WindowInv /\ MemberInv /\ StayInv
      /\ PlanInv /\ ChainInv
    BY PartsIs DEF IInv
<1>2. /\ api = "ring" /\ api' = "begin"
      /\ UNCHANGED <<cfg, group, nbuf, slot, seq, bur, prog, dpb, nextFn, last, final>>
    BY DEF Prepare, marks
<1>3. PICK g \in Slots : g = slot
    BY <1>1 DEF TypeInv
<1>4. /\ prepped' = [refs |-> prepped'.refs, gates |-> prepped'.gates]
      /\ prepped'.refs = AnchorRefs \cup ColSource
      /\ prepped'.gates =
           IF Fly = NoSlot THEN {}
           ELSE {[kind |-> "P", slot |-> Fly, pic |-> bur[Fly].pic]}
                \cup (IF GatesRefB(Fly) THEN {[kind |-> "R", slot |-> Fly, pic |-> RefB(Fly)]} ELSE {})
    BY DEF Prepare
<1>5. Sound' => Sound
    BY <1>2 DEF Sound, Slots
<1>6. \A x \in prepped'.gates : x.kind = "R" => x.slot = g /\ HoldsRefB(g, x.pic)
  <2>1. SUFFICES ASSUME NEW x \in prepped'.gates, x.kind = "R"
                 PROVE  x.slot = g /\ HoldsRefB(g, x.pic)
      OBVIOUS
  <2>2. Fly # NoSlot /\ GatesRefB(Fly) /\ x.slot = Fly /\ x.pic = RefB(Fly)
      BY <1>4, <2>1
  <2>3. Fly = g /\ bur[g].live
      BY <1>3, <2>2, FlyIs
  <2>4. bur[g].fired
      BY <1>1, <1>2, <1>3, <2>3 DEF ApiInv
  <2> QED
      BY <2>2, <2>3, <2>4 DEF HoldsRefB, GatesRefB
<1>7. ASSUME bur[g].live PROVE [kind |-> "P", slot |-> g, pic |-> bur[g].pic] \in prepped'.gates
  <2>1. Fly = g /\ g # NoSlot
      BY <1>1, <1>3, <1>7, FlyIs, CfgIs DEF TypeInv, Slots, NoSlot
  <2> QED
      BY <1>4, <2>1
<1>8. ASSUME Sound, NEW r \in AnchorRefs PROVE FinalOrGated(r, prepped'.gates)
  <2>1. PICK d \in Used : r.pic = dpb[d].pic
      BY <1>1, AnchorRefsIs
  <2>2. SUFFICES ASSUME r.pic \notin final PROVE FinalOrGated(r, prepped'.gates)
      BY DEF FinalOrGated
  <2>3. PICK s \in LiveSlots : OwnPic(s, r.pic)
      BY <1>1, <1>8, <2>1, <2>2 DEF MemberInv
  <2>4. s \in Slots /\ bur[s].live /\ bur[g].live
    <3>1. s \in Slots /\ bur[s].live
        BY DEF LiveSlots
    <3>2. CASE s = g
        BY <3>1, <3>2
    <3>3. CASE s # g
      <4>1. Ago(g) < Ago(s)
          BY <1>1, <1>3, <3>1, <3>3, AgoIs, CfgIs DEF TypeInv
      <4> QED
          BY <1>1, <3>1, <4>1 DEF PlaceInv
    <3> QED
        BY <3>1, <3>2, <3>3
  <2>5. bur[g].fired
      BY <1>1, <1>2, <1>3, <2>4 DEF ApiInv
  <2>6. CASE r.pic = bur[s].pic
    <3>1. s = g
        BY <1>3, <2>2, <2>4, <2>5, <2>6, OlderAnchors
    <3> QED
        BY <1>7, <2>4, <2>6, <3>1 DEF FinalOrGated
  <2>7. CASE OwnRef(s, r.pic)
    <3>1. CASE cfg.ref > 1
        BY <1>8, <2>2, <2>7, <3>1, PreparedRefB DEF FinalOrGated, GatedRefB
    <3>2. CASE ~(cfg.ref > 1)
      <4>1. cfg.ref = 1
          BY <1>1, <3>2, CfgIs DEF TypeInv
      <4>2. \E x \in Used : dpb[x].pic = bur[g].pic
          BY <1>1, <1>3, <2>4 DEF StayInv, StaysOf, Among, LiveSlots
      <4>3. bur[g].pic = last
          BY <1>1, <1>3, <2>4 DEF OrderInv
      <4>4. r.pic = bur[g].pic
          BY <1>1, <4>1, <4>2, <4>3, AnchorRefsIs
      <4> QED
          BY <1>7, <2>4, <4>4 DEF FinalOrGated
    <3> QED
        BY <3>1, <3>2
  <2> QED
      BY <2>3, <2>6, <2>7 DEF OwnPic
<1>9. ASSUME Sound, NEW r \in ColSource PROVE FinalOrGated(r, prepped'.gates)
  <2>1. Fly = g /\ bur[g].live /\ r \in bur[g].col /\ ~bur[g].err
      BY <1>3, <1>9, FlyIs DEF ColSource, Sound
  <2>2. OwnPic(g, r.pic)
      BY <1>1, <1>3, <1>9, <2>1 DEF PlanInv
  <2>3. CASE r.pic = bur[g].pic
      BY <1>7, <2>1, <2>3 DEF FinalOrGated
  <2>4. CASE r.pic # bur[g].pic
    <3>1. ColIsRefB(g) /\ g \in LiveSlots /\ OwnRef(g, r.pic)
        BY <1>9, <2>1, <2>2, <2>4 DEF ColIsRefB, LiveSlots, OwnPic
    <3>2. ChainOf(g)
        BY <1>1 DEF ChainInv
    <3>3. PICK i \in Marked(g) : bur[g].bs[i].pic = r.pic
        BY <3>1 DEF OwnRef
    <3>4. RefBs(g) > 0
        BY <3>2, <3>3, MarkedIs
    <3>5. bur[g].refbDone >= RefBs(g)
        BY <3>1, <3>4 DEF Prepare, ContentWait
    <3> QED
        BY <2>1, <3>2, <3>3, <3>5, RefsFinal DEF FinalOrGated
  <2> QED
      BY <2>3, <2>4
<1>10. PreppedInv'
  <2>1. slot' = g
      BY <1>2, <1>3
  <2>2. \A x \in prepped'.gates : x.kind = "R" => x.slot = slot' /\ HoldsRefB(slot, x.pic)'
    <3>1. \A p : HoldsRefB(g, p) => HoldsRefB(slot, p)'
        BY <1>2, <2>1 DEF HoldsRefB, Bdepth, RefBs, PlanOf, RefB
    <3> QED
        BY <1>6, <2>1, <3>1
  <2>3. Sound' => \A r \in prepped'.refs : FinalOrGated(r, prepped.gates)'
    <3>1. \A r : FinalOrGated(r, prepped'.gates) => FinalOrGated(r, prepped.gates)'
        BY <1>2 DEF FinalOrGated
    <3> QED
        BY <1>4, <1>5, <1>8, <1>9, <3>1, Zenon
  <2>4. Sound' /\ cfg'.ref > 1 =>
          \A t \in LiveSlots' : \A i \in Marked(t)' :
            bur'[t].bs[i].pic \in final' \/ GatedRefB(bur'[t].bs[i].pic, prepped'.gates)
    <3>1. LiveSlots' = LiveSlots /\ \A t : Marked(t)' = Marked(t)
        BY <1>2 DEF LiveSlots, Slots, Marked
    <3>2. \A t \in LiveSlots : \A i \in Marked(t) : OwnRef(t, bur[t].bs[i].pic)
        BY DEF OwnRef
    <3> QED
        BY <1>2, <1>5, <3>1, <3>2, PreparedRefB
  <2> QED
      BY <2>2, <2>3, <2>4 DEF PreppedInv, PreppedOk
<1>11. ErrInv' /\ CallInv'
    BY <1>1, <1>2, ErrKept, PartsIs DEF CallInv
<1>12. last <= 8 * group' /\ last <= 8 * (group' - 1)
    BY <1>1, <1>2 DEF OrderInv
<1>13. UNCHANGED <<cfg, slot, seq, bur, prog, dpb, nextFn, last, final>>
    BY <1>2
<1> QED
    BY <1>10, <1>11, <1>12, <1>13, QuietKeeps

-----------------------------------------------------------------------------
(* A picture enters the buffer.                                             *)

LEMMA VictimIs ==
    ASSUME IInv, WindowInv, Used # {}
    PROVE  Victim \in Used /\ \A x \in Used : dpb[Victim].fn <= dpb[x].fn
<1>1. PICK S : S = {dpb[x].fn : x \in Used}
    BY Zenon
<1>2. S \subseteq Nat /\ S # {}
    BY <1>1, UsedIs
<1>3. PICK m \in S : \A n \in S : m <= n
    BY <1>2, Least, Zenon
<1>4. PICK v \in Used : m = dpb[v].fn
    BY <1>1, <1>3
<1>5. \A x \in Used : dpb[v].fn <= dpb[x].fn
    BY <1>1, <1>3, <1>4
<1> QED
    BY <1>5 DEF Victim

\* The slide takes none of the last pictures that the window holds.
LEMMA VictimOld ==
    ASSUME IInv, WindowInv, Cardinality(Used) >= Window
    PROVE  Used # {} /\ dpb[Victim].fn < nextFn + 1 - Window
<1>1. /\ Window \in Nat /\ Window >= 2 /\ nextFn \in Nat /\ IsFiniteSet(Used)
      /\ Cardinality(Used) \in Nat
  <2>1. Window >= NRefB(0) + 2 /\ NRefB(0) \in Nat
    <3>1. 0 \in 0 .. cfg.bframes /\ cfg \in Settings
        BY CfgIs DEF IInv, TypeInv
    <3> QED
        BY <3>1, WindowIs
  <2>2. Window \in Nat
      BY UsedIs
  <2>3. Window >= 2
      BY <2>1, <2>2
  <2> QED
      BY <2>3, UsedIs DEF WindowInv
<1>2. Used # {}
    BY <1>1, FS_EmptySet
<1>3. Victim \in Used /\ \A x \in Used : dpb[Victim].fn <= dpb[x].fn
    BY <1>2, VictimIs
<1>4. SUFFICES ASSUME ~(dpb[Victim].fn < nextFn + 1 - Window) PROVE FALSE
    BY <1>2
<1>5. PICK a \in Int, b \in Int : a = nextFn + 1 - Window /\ b = nextFn - 1
    BY <1>1
<1>6. \A x \in Used : dpb[x].fn \in a .. b
    BY <1>1, <1>3, <1>4, <1>5, UsedIs
<1>7. PICK f : f = [x \in Used |-> dpb[x].fn]
    BY Zenon
<1>8. f \in [Used -> a .. b]
    BY <1>6, <1>7
<1>9. IsFiniteSet(a .. b) /\ Cardinality(a .. b) = Window - 1
  <2>1. ~(a > b) /\ b - a + 1 = Window - 1
      BY <1>1, <1>5
  <2>2. Cardinality(a .. b) = (IF a > b THEN 0 ELSE b - a + 1) /\ IsFiniteSet(a .. b)
      BY FS_Interval
  <2> QED
      BY <2>1, <2>2
<1>10. PICK x \in Used, y \in Used : x # y /\ f[x] = f[y]
    BY <1>1, <1>8, <1>9, FS_PigeonHole
<1> QED
    BY <1>7, <1>10 DEF WindowInv

\* The buffer behind the slide.
LEMMA SlidIs ==
    ASSUME IInv, WindowInv, NEW T, T = Slid
    PROVE  /\ T = [i \in 1 .. DpbSize |-> T[i]] /\ DOMAIN T = 1 .. DpbSize
           /\ \A i \in 1 .. DpbSize : EntryIs(T[i]) /\ (T[i].used => dpb[i].used /\ T[i] = dpb[i])
           /\ \A i \in Used : dpb[i].fn >= nextFn + 1 - Window => T[i] = dpb[i]
           /\ Cardinality({i \in 1 .. DpbSize : T[i].used}) < Window
<1>0. PICK D : D = dpb
    OBVIOUS
<1>1. /\ D = [i \in 1 .. DpbSize |-> D[i]] /\ \A i \in 1 .. DpbSize : EntryIs(D[i])
      /\ IsFiniteSet(Used) /\ Cardinality(Used) \in Nat /\ Used \subseteq 1 .. DpbSize
      /\ Window \in Nat /\ nextFn \in Nat /\ \A i \in Used : D[i].fn \in Nat
      /\ Cardinality(Used) <= Window
    BY <1>0, UsedIs, Zenon DEF WindowInv
<1>2. Used = {i \in 1 .. DpbSize : D[i].used}
    BY <1>0, UsedIs DEF Used
<1>3. CASE Cardinality(Used) >= Window
  <2>1. PICK v : v = Victim
      OBVIOUS
  <2>2. v \in Used /\ D[v].fn < nextFn + 1 - Window
      BY <1>0, <1>3, <2>1, VictimIs, VictimOld
  <2>3. T = [D EXCEPT ![v].used = FALSE]
      BY <1>0, <1>3, <2>1 DEF Slid
  <2>4. T = [i \in 1 .. DpbSize |-> T[i]] /\ DOMAIN T = 1 .. DpbSize
      BY <1>1, <2>3, Zenon
  <2>5. \A i \in 1 .. DpbSize : i # v => T[i] = D[i]
      BY <1>1, <2>3
  <2>6. EntryIs(T[v]) /\ ~T[v].used
    <3>1. PICK w : w = D[v]
        OBVIOUS
    <3>2. v \in 1 .. DpbSize /\ EntryIs(w)
        BY <1>1, <2>2, <3>1
    <3>3. T[v] = [w EXCEPT !.used = FALSE]
        BY <1>1, <2>3, <3>1, <3>2
    <3> QED
        BY <3>2, <3>3, Zenon DEF EntryIs
  <2>7. {i \in 1 .. DpbSize : T[i].used} = Used \ {v}
      BY <1>2, <2>2, <2>5, <2>6
  <2>8. Cardinality(Used \ {v}) < Window
    <3>1. Cardinality(Used) \in Nat /\ Window \in Nat /\ Cardinality(Used) <= Window
        BY <1>1
    <3>2. Cardinality(Used \ {v}) = Cardinality(Used) - 1
        BY <1>1, <2>2, FS_RemoveElement, Zenon
    <3> QED
        BY <3>1, <3>2
  <2>9. Cardinality({i \in 1 .. DpbSize : T[i].used}) < Window
      BY <2>7, <2>8, Zenon
  <2>10. \A i \in Used : D[i].fn >= nextFn + 1 - Window => i # v
    <3>1. SUFFICES ASSUME D[v].fn >= nextFn + 1 - Window PROVE FALSE
        OBVIOUS
    <3>2. D[v].fn \in Nat /\ Window \in Nat /\ nextFn \in Nat
        BY <1>1, <2>2, Zenon
    <3> QED
        BY <2>2, <3>1, <3>2
  <2> QED
      BY <1>0, <1>1, <1>2, <2>4, <2>5, <2>6, <2>9, <2>10
<1>4. CASE ~(Cardinality(Used) >= Window)
  <2>1. T = D
      BY <1>0, <1>4 DEF Slid
  <2>2. DOMAIN T = 1 .. DpbSize
      BY <1>0, <2>1, UsedIs
  <2> QED
      BY <1>0, <1>1, <1>2, <1>4, <2>1, <2>2
<1> QED
    BY <1>3, <1>4

LEMMA MinIs ==
    ASSUME NEW S, S \subseteq Nat, S # {}
    PROVE  Min(S) \in S
  BY Least, Zenon DEF Min

LEMMA HandoutIs ==
    ASSUME IInv, WindowInv, NEW T, T = Slid, NEW d, d = Min({i \in DOMAIN T : ~T[i].used})
    PROVE  d \in 1 .. DpbSize /\ ~T[d].used /\ Handout = d
<1>1. PICK free1 : free1 = {i \in DOMAIN T : ~T[i].used}
    OBVIOUS
<1>2. PICK taken : taken = {i \in 1 .. DpbSize : T[i].used}
    BY Zenon
<1>3. DOMAIN T = 1 .. DpbSize /\ Cardinality(taken) < Window
    BY <1>2, SlidIs
<1>4. DpbSize \in Nat /\ Cardinality(1 .. DpbSize) = DpbSize /\ DpbSize = Window + 1 /\ Window \in Nat
    BY UsedIs
<1>5. free1 # {}
  <2>1. ASSUME free1 = {} PROVE FALSE
    <3>1. taken = 1 .. DpbSize
        BY <1>1, <1>2, <1>3, <2>1
    <3> QED
        BY <1>3, <1>4, <3>1
  <2> QED
      BY <2>1
<1>6. d \in free1
  <2>1. free1 \subseteq Nat
      BY <1>1, <1>3, <1>4
  <2> QED
      BY <1>1, <1>5, <2>1, MinIs
<1>7. Handout = d
    BY <1>1, <1>5 DEF Handout
<1> QED
    BY <1>1, <1>3, <1>6, <1>7

\* p enters the buffer, and what the window holds stays.
Enters(p) ==
  /\ nextFn' = nextFn + 1
  /\ dpb' = [i \in 1 .. DpbSize |-> dpb'[i]] /\ \A i \in 1 .. DpbSize : EntryIs(dpb'[i])
  /\ Cardinality(Used') <= Window
  /\ \E d \in 1 .. DpbSize :
       /\ dpb'[d].used /\ dpb'[d].pic = p /\ dpb'[d].fn = nextFn
       /\ \A i \in 1 .. DpbSize : i # d /\ dpb'[i].used => i \in Used /\ dpb'[i] = dpb[i]
       /\ \A i \in Used : dpb[i].fn >= nextFn + 1 - Window => i # d /\ dpb'[i] = dpb[i]

LEMMA PutIs ==
    ASSUME IInv, WindowInv, NEW T, T = Slid, NEW d, d = Min({i \in DOMAIN T : ~T[i].used}),
           NEW x, EntryIs(x), x.used, NEW p, x.pic = p, x.fn = nextFn,
           dpb' = [T EXCEPT ![d] = x], nextFn' = nextFn + 1
    PROVE  Enters(p)
<1>1. d \in 1 .. DpbSize /\ ~T[d].used
    BY HandoutIs
<1>2. /\ T = [i \in 1 .. DpbSize |-> T[i]] /\ DOMAIN T = 1 .. DpbSize
      /\ \A i \in 1 .. DpbSize : EntryIs(T[i]) /\ (T[i].used => dpb[i].used /\ T[i] = dpb[i])
      /\ \A i \in Used : dpb[i].fn >= nextFn + 1 - Window => T[i] = dpb[i]
    BY SlidIs, Zenon
<1>3. PICK taken : taken = {i \in 1 .. DpbSize : T[i].used}
    BY Zenon
<1>4. Cardinality(taken) < Window
    BY <1>3, SlidIs
<1>5. PICK D : D = dpb'
    BY Zenon
<1>6. D = [i \in 1 .. DpbSize |-> D[i]] /\ D[d] = x /\ \A i \in 1 .. DpbSize : i # d => D[i] = T[i]
    BY <1>1, <1>2, <1>5, Zenon
<1>7. \A i \in 1 .. DpbSize : EntryIs(D[i])
    BY <1>2, <1>6, Zenon
<1>8. Used' = taken \cup {d}
  <2>1. DOMAIN D = 1 .. DpbSize
      BY <1>6
  <2>2. Used' = {i \in 1 .. DpbSize : D[i].used}
      BY <1>5, <2>1 DEF Used
  <2> QED
      BY <1>1, <1>3, <1>6, <2>2
<1>9. Cardinality(Used') <= Window
  <2>1. d \notin taken /\ taken \subseteq 1 .. DpbSize
      BY <1>1, <1>3
  <2>2. IsFiniteSet(taken) /\ Cardinality(taken) \in Nat /\ Window \in Nat
      BY <2>1, UsedIs, FS_Subset, FS_CardinalityType, Zenon
  <2>3. Cardinality(taken \cup {d}) = Cardinality(taken) + 1
      BY <2>1, <2>2, FS_AddElement, Zenon
  <2>4. Cardinality(taken \cup {d}) <= Window
      BY <1>4, <2>2, <2>3
  <2> QED
      BY <1>8, <2>4
<1>10. \A i \in 1 .. DpbSize : i # d /\ D[i].used => i \in Used /\ D[i] = dpb[i]
    BY <1>2, <1>6, UsedIs, Zenon DEF Used
<1>11. \A i \in Used : dpb[i].fn >= nextFn + 1 - Window => i # d /\ D[i] = dpb[i]
  <2>1. \A i \in Used : i \in 1 .. DpbSize /\ dpb[i].used
      BY UsedIs DEF Used
  <2> QED
      BY <1>1, <1>2, <1>6, <2>1, Zenon
<1>12. \E e \in 1 .. DpbSize :
         /\ D[e].used /\ D[e].pic = p /\ D[e].fn = nextFn
         /\ \A i \in 1 .. DpbSize : i # e /\ D[i].used => i \in Used /\ D[i] = dpb[i]
         /\ \A i \in Used : dpb[i].fn >= nextFn + 1 - Window => i # e /\ D[i] = dpb[i]
    BY <1>1, <1>6, <1>10, <1>11, Zenon
<1>13. \E e \in 1 .. DpbSize :
         /\ dpb'[e].used /\ dpb'[e].pic = p /\ dpb'[e].fn = nextFn
         /\ \A i \in 1 .. DpbSize : i # e /\ dpb'[i].used => i \in Used /\ dpb'[i] = dpb[i]
         /\ \A i \in Used : dpb[i].fn >= nextFn + 1 - Window => i # e /\ dpb'[i] = dpb[i]
    BY <1>5, <1>12, Zenon
<1>14. dpb' = [i \in 1 .. DpbSize |-> dpb'[i]] /\ \A i \in 1 .. DpbSize : EntryIs(dpb'[i])
    BY <1>5, <1>6, <1>7, Zenon
<1> QED
    BY <1>9, <1>13, <1>14, Zenon DEF Enters

LEMMA EnterIs ==
    ASSUME IInv, WindowInv, NEW p \in Nat, NEW plane, NEW before, Enter(p, plane, before)
    PROVE  Enters(p)
<1>1. PICK T, d : T = Slid /\ d = Min({i \in DOMAIN T : ~T[i].used})
    BY Zenon
<1>2. Handout = d
    BY <1>1, HandoutIs
<1>3. PICK x : x = [used |-> TRUE, pic |-> p, fn |-> nextFn, plane |-> plane, aux |-> TargetAux]
    BY Zenon
<1>4. EntryIs(x) /\ x.used /\ x.pic = p /\ x.fn = nextFn
    BY <1>3 DEF EntryIs, WindowInv
<1>5. dpb' = [T EXCEPT ![d] = x] /\ nextFn' = nextFn + 1
    BY <1>1, <1>2, <1>3 DEF Enter
<1> QED
    BY <1>1, <1>4, <1>5, PutIs

LEMMA EntersMembers ==
    ASSUME IInv, NEW p, Enters(p), cfg' = cfg
    PROVE  \A d \in Used' : \/ dpb'[d].pic = p /\ dpb'[d].fn = nextFn
                            \/ d \in Used /\ dpb'[d] = dpb[d]
<1>1. DOMAIN dpb' = 1 .. DpbSize
  <2>1. PICK D : D = dpb'
      OBVIOUS
  <2>2. D = [i \in 1 .. DpbSize |-> D[i]]
      BY <2>1 DEF Enters
  <2>3. DOMAIN D = 1 .. DpbSize
      BY <2>2
  <2> QED
      BY <2>1, <2>3
<1>2. \A d \in Used' : d \in 1 .. DpbSize /\ dpb'[d].used
    BY <1>1 DEF Used
<1> QED
    BY <1>2 DEF Enters

LEMMA EntersWindow ==
    ASSUME IInv, WindowInv, NEW p \in Nat, Enters(p), cfg' = cfg,
           last \in Nat, last' \in Nat, p <= last', last <= last'
    PROVE  WindowInv'
<1>1. DpbSize' = DpbSize /\ Window' = Window
    BY DEF DpbSize, Window
<1>2. nextFn \in Nat /\ nextFn' \in Nat
    BY DEF WindowInv, Enters
<1>3. PICK d \in 1 .. DpbSize :
        /\ dpb'[d].used /\ dpb'[d].pic = p /\ dpb'[d].fn = nextFn
        /\ \A i \in 1 .. DpbSize : i # d /\ dpb'[i].used => i \in Used /\ dpb'[i] = dpb[i]
    BY DEF Enters
<1>4. \A i \in Used' : i = d \/ (i \in Used /\ dpb'[i] = dpb[i])
  <2>1. DOMAIN dpb' = 1 .. DpbSize
    <3>1. PICK D : D = dpb'
        OBVIOUS
    <3>2. D = [i \in 1 .. DpbSize |-> D[i]]
        BY <3>1 DEF Enters
    <3>3. DOMAIN D = 1 .. DpbSize
        BY <3>2
    <3> QED
        BY <3>1, <3>3
  <2> QED
      BY <1>3, <2>1 DEF Used
<1>5. ASSUME NEW i \in Used' PROVE dpb'[i].fn < nextFn' /\ dpb'[i].pic <= last'
  <2>1. CASE i = d
      BY <1>2, <1>3, <2>1 DEF Enters
  <2>2. CASE i \in Used /\ dpb'[i] = dpb[i]
      BY <1>2, <2>2, UsedIs, SMTT(40) DEF Enters
  <2> QED
      BY <1>4, <2>1, <2>2
<1>6. ASSUME NEW i \in Used', NEW j \in Used', dpb'[i].fn = dpb'[j].fn PROVE i = j
  <2>1. ASSUME NEW k \in Used PROVE dpb[k].fn # nextFn
    <3>1. dpb[k].fn \in Nat /\ dpb[k].fn < nextFn
        BY <2>1, UsedIs
    <3> QED
        BY <1>2, <3>1
  <2>2. \A k, l \in Used : dpb[k].fn = dpb[l].fn => k = l
      BY DEF WindowInv
  <2>3. CASE i = d
      BY <1>3, <1>4, <1>6, <2>1, <2>3
  <2>4. CASE j = d
      BY <1>3, <1>4, <1>6, <2>1, <2>4
  <2>5. CASE i # d /\ j # d
      BY <1>4, <1>6, <2>2, <2>5
  <2> QED
      BY <2>3, <2>4, <2>5
<1>7. /\ dpb' = [i \in 1 .. DpbSize |-> dpb'[i]] /\ \A i \in 1 .. DpbSize : EntryIs(dpb'[i])
      /\ Cardinality(Used') <= Window
    BY DEF Enters
<1>8. \A i \in 1 .. DpbSize : EntryIs(dpb[i])' <=> EntryIs(dpb'[i])
    BY DEF EntryIs
<1> QED
    BY <1>1, <1>2, <1>5, <1>6, <1>7, <1>8 DEF WindowInv, EntryIs

LEMMA EntersAmong ==
    ASSUME IInv, WindowInv, NEW p, Enters(p), cfg' = cfg
    PROVE  /\ \A n \in Nat : n >= 1 => Among(p, n)'
           /\ \A q : \A n \in Nat : Among(q, n) /\ n + 1 <= Window => Among(q, n + 1)'
<1>1. nextFn \in Nat /\ nextFn' = nextFn + 1 /\ Window \in Nat
    BY UsedIs DEF WindowInv, Enters
<1>2. PICK d \in 1 .. DpbSize :
        /\ dpb'[d].used /\ dpb'[d].pic = p /\ dpb'[d].fn = nextFn
        /\ \A i \in Used : dpb[i].fn >= nextFn + 1 - Window => i # d /\ dpb'[i] = dpb[i]
    BY DEF Enters
<1>3. DOMAIN dpb' = 1 .. DpbSize
  <2>1. PICK D : D = dpb'
      OBVIOUS
  <2>2. D = [i \in 1 .. DpbSize |-> D[i]]
      BY <2>1 DEF Enters
  <2>3. DOMAIN D = 1 .. DpbSize
      BY <2>2
  <2> QED
      BY <2>1, <2>3
<1>4. ASSUME NEW n \in Nat, n >= 1 PROVE Among(p, n)'
  <2>1. d \in Used'
      BY <1>2, <1>3 DEF Used
  <2>2. nextFn >= nextFn' - n
      BY <1>1, <1>4
  <2> QED
      BY <1>2, <2>1, <2>2 DEF Among
<1>5. ASSUME NEW q, NEW n \in Nat, Among(q, n), n + 1 <= Window PROVE Among(q, n + 1)'
  <2>1. PICK x \in Used : dpb[x].pic = q /\ dpb[x].fn >= nextFn - n
      BY <1>5 DEF Among
  <2>2. dpb[x].fn \in Nat /\ x \in 1 .. DpbSize /\ dpb[x].used
      BY UsedIs DEF Used
  <2>3. dpb[x].fn >= nextFn + 1 - Window
      BY <1>1, <1>5, <2>1, <2>2
  <2>4. dpb'[x] = dpb[x] /\ x \in Used'
      BY <1>2, <1>3, <2>2, <2>3 DEF Used
  <2>5. dpb'[x].fn >= nextFn' - (n + 1)
      BY <1>1, <2>1, <2>2, <2>4
  <2> QED
      BY <2>1, <2>4, <2>5 DEF Among
<1> QED
    BY <1>4, <1>5

-----------------------------------------------------------------------------
(* An anchor coded with nothing in flight.                                  *)

LEMMA WindowTwo ==
    ASSUME IInv
    PROVE  Window \in Nat /\ Window >= 2
<1>1. 0 \in 0 .. cfg.bframes /\ cfg \in Settings
    BY CfgIs DEF IInv, TypeInv
<1>2. Window >= NRefB(0) + 2 /\ NRefB(0) \in Nat /\ Window \in Nat
    BY <1>1, WindowIs
<1> QED
    BY <1>2

\* An IDR leaves itself alone in the buffer.
LEMMA IdrEnters ==
    ASSUME IInv, WindowInv, SerialAnchor(TRUE), group \in Nat
    PROVE  WindowInv' /\ \A d \in Used' : dpb'[d].pic = AnchorOf(group)
<1>1. PICK T : T = [d \in DOMAIN dpb |-> [dpb[d] EXCEPT !.used = FALSE]]
    BY Zenon
<1>2. PICK d : d = Min({i \in DOMAIN T : ~T[i].used})
    OBVIOUS
<1>3. PICK x : x = [used |-> TRUE, pic |-> AnchorOf(group), fn |-> 0, plane |-> rec, aux |-> dpb[d].aux]
    BY Zenon
<1>4. dpb' = [T EXCEPT ![d] = x] /\ nextFn' = 1 /\ last' = AnchorOf(group) /\ cfg' = cfg
    BY <1>1, <1>2, <1>3 DEF SerialAnchor
<1>5. /\ DOMAIN dpb = 1 .. DpbSize /\ DpbSize \in Nat /\ DpbSize >= 1
      /\ \A i \in 1 .. DpbSize : EntryIs(dpb[i])
  <2>1. DpbSize = Window + 1
      BY UsedIs
  <2> QED
      BY <2>1, WindowTwo, UsedIs DEF WindowInv
<1>6. /\ DOMAIN T = 1 .. DpbSize /\ T = [i \in 1 .. DpbSize |-> T[i]]
      /\ \A i \in 1 .. DpbSize : EntryIs(T[i]) /\ ~T[i].used
  <2>1. /\ DOMAIN T = 1 .. DpbSize /\ T = [i \in 1 .. DpbSize |-> T[i]]
        /\ \A i \in 1 .. DpbSize : T[i] = [dpb[i] EXCEPT !.used = FALSE]
      BY <1>1, <1>5
  <2>2. ASSUME NEW i \in 1 .. DpbSize, NEW y, y = dpb[i], NEW z, z = [y EXCEPT !.used = FALSE]
        PROVE  EntryIs(z) /\ ~z.used
    <3>1. EntryIs(y)
        BY <1>5, <2>2
    <3>2. z.used = FALSE /\ z.pic = y.pic /\ z.fn = y.fn /\ z.plane = y.plane /\ z.aux = y.aux
        BY <2>2, <3>1 DEF EntryIs
    <3>3. z = [used |-> FALSE, pic |-> y.pic, fn |-> y.fn, plane |-> y.plane, aux |-> y.aux]
        BY <2>2, <3>1, Zenon DEF EntryIs
    <3> QED
        BY <3>1, <3>2, <3>3 DEF EntryIs
  <2> QED
      BY <2>1, <2>2
<1>7. d \in 1 .. DpbSize
  <2>1. {i \in DOMAIN T : ~T[i].used} = 1 .. DpbSize /\ 1 .. DpbSize \subseteq Nat
        /\ 1 \in 1 .. DpbSize
      BY <1>5, <1>6
  <2> QED
      BY <1>2, <2>1, MinIs
<1>8. EntryIs(x) /\ x.used /\ x.pic = AnchorOf(group) /\ x.fn = 0 /\ AnchorOf(group) \in Nat
    BY <1>3 DEF EntryIs, AnchorOf
<1>9. PICK D : D = dpb'
    OBVIOUS
<1>10. D = [i \in 1 .. DpbSize |-> D[i]] /\ D[d] = x /\ \A i \in 1 .. DpbSize : i # d => D[i] = T[i]
    BY <1>4, <1>6, <1>7, <1>9, Zenon
<1>11. DOMAIN D = 1 .. DpbSize
    BY <1>10
<1>12. Used' = {d}
    BY <1>6, <1>7, <1>8, <1>9, <1>10, <1>11 DEF Used
<1>13. Cardinality(Used') <= Window
    BY <1>12, WindowTwo, FS_Singleton
<1>14. \A i \in 1 .. DpbSize : EntryIs(D[i])
    BY <1>6, <1>8, <1>10
<1>15. DpbSize' = DpbSize /\ Window' = Window
    BY <1>4 DEF DpbSize, Window
<1>16. dpb' = [i \in 1 .. DpbSize |-> dpb'[i]] /\ \A i \in 1 .. DpbSize : EntryIs(dpb'[i])
    BY <1>9, <1>10, <1>14
<1>17. \A i \in Used' : i = d /\ dpb'[i].fn = 0 /\ dpb'[i].pic = AnchorOf(group)
    BY <1>8, <1>9, <1>10, <1>12
<1>18. WindowInv'
    BY <1>4, <1>8, <1>13, <1>15, <1>16, <1>17 DEF WindowInv, EntryIs
<1> QED
    BY <1>17, <1>18

\* Any other anchor takes an entry behind the slide.
LEMMA SerialEnters ==
    ASSUME IInv, WindowInv, SerialAnchor(FALSE), group \in Nat
    PROVE  Enters(AnchorOf(group))
<1>1. PICK T, d : T = Slid /\ d = Min({i \in DOMAIN T : ~T[i].used})
    BY Zenon
<1>2. PICK x : x = [used |-> TRUE, pic |-> AnchorOf(group), fn |-> nextFn, plane |-> rec, aux |-> dpb[d].aux]
    BY Zenon
<1>3. dpb' = [T EXCEPT ![d] = x] /\ nextFn' = nextFn + 1
    BY <1>1, <1>2 DEF SerialAnchor
<1>4. EntryIs(x) /\ x.used /\ x.pic = AnchorOf(group) /\ x.fn = nextFn
    BY <1>2 DEF EntryIs, WindowInv, AnchorOf
<1> QED
    BY <1>1, <1>3, <1>4, PutIs

LEMMA SerialAnchorReads ==
    ASSUME IInv, RInv, NEW idr \in BOOLEAN, SerialAnchor(idr)
    PROVE  RInv'
<1>1. /\ ChainInv /\ OrderInv /\ ErrInv /\ WindowInv /\ MemberInv
      /\ TypeInv /\ slot \in Slots /\ group \in Nat
    BY PartsIs DEF IInv, TypeInv
<1>2. /\ api = "drainall" /\ LiveSlots = {} /\ api' = "idle" /\ last' = AnchorOf(group)
      /\ final' = final \cup {AnchorOf(group)}
      /\ UNCHANGED <<cfg, group, slot, seq, bur, prog>>
    BY DEF SerialAnchor, marks
<1>3. /\ Slots' = Slots /\ LiveSlots' = {} /\ \A t : Ago(t)' = Ago(t)
      /\ \A t \in Slots : ~bur'[t].live
    BY <1>2 DEF Slots, LiveSlots, Ago
<1>4. last \in Nat /\ last' \in Nat /\ last <= last' /\ last' = 8 * group
    BY <1>1, <1>2 DEF OrderInv, AnchorOf
<1>5. WindowInv' /\ \A d \in Used' : \/ dpb'[d].pic = AnchorOf(group)
                                     \/ d \in Used /\ dpb'[d] = dpb[d]
  <2>1. CASE idr
      BY <1>1, <2>1, IdrEnters
  <2>2. CASE ~idr
    <3>0. SerialAnchor(FALSE)
      <4>1. idr = FALSE
          BY <2>2
      <4> QED
          BY <4>1, Zenon
    <3>1. Enters(AnchorOf(group)) /\ AnchorOf(group) \in Nat
        BY <1>1, <3>0, SerialEnters DEF AnchorOf
    <3> QED
        BY <1>1, <1>2, <1>4, <3>1, EntersWindow, EntersMembers
  <2> QED
      BY <2>1, <2>2
<1>6. ChainInv'
    BY <1>1, <1>2, <1>3, ChainKept DEF ChainInv
<1>7. OrderInv'
  <2>1. \A t \in Slots : bur[t].seq > 0 => bur[t].pic <= last'
    <3>1. SUFFICES ASSUME NEW t \in Slots, bur[t].seq > 0 PROVE bur[t].pic <= last'
        OBVIOUS
    <3>2. bur[t].pic \in Nat
      <4>1. bur[t].group \in Nat
          BY <1>1, Zenon DEF TypeInv, BurstIs
      <4>2. bur[t].pic = 8 * bur[t].group
          BY <1>1, <3>1 DEF ChainInv, ChainOf, AnchorOf
      <4> QED
          BY <4>1, <4>2
    <3>3. bur[t].pic <= last
        BY <1>1, <3>1 DEF OrderInv
    <3> QED
        BY <1>4, <3>2, <3>3
  <2> QED
      BY <1>1, <1>2, <1>3, <1>4, <2>1 DEF OrderInv
<1>8. ErrInv'
    BY <1>1, <1>2, <1>3 DEF ErrInv
<1>9. MemberInv'
  <2>1. Sound' => Sound
      BY <1>2, <1>3 DEF Sound
  <2>2. Sound => \A d \in Used : dpb[d].pic \in final
      BY <1>1, <1>2 DEF MemberInv
  <2>3. Sound' => \A d \in Used' : dpb'[d].pic \in final'
      BY <1>2, <1>5, <2>1, <2>2
  <2> QED
      BY <1>1, <1>2, <1>3, <2>3 DEF MemberInv
<1>10. StayInv' /\ LaunchInv' /\ GateRInv' /\ AnchorInv' /\ CallInv' /\ PreppedInv'
    BY <1>2, <1>3 DEF StayInv, LaunchInv, GateRInv, AnchorInv, CallInv, PreppedInv
<1>11. PlanInv'
    BY <1>1, <1>2, <1>3 DEF PlanInv
<1> QED
    BY <1>5, <1>6, <1>7, <1>8, <1>9, <1>10, <1>11 DEF RInv

-----------------------------------------------------------------------------
(* A launch.                                                                *)

\* What a launch leaves alone, and the burst n it puts into the slot g.
Launches(g, n) ==
  /\ g = After(slot) /\ slot' = g /\ cfg' = cfg /\ group' = group /\ seq' = seq + 1
  /\ api = "begin" /\ api' = "retire" /\ last' = AnchorOf(group) /\ final' = final
  /\ Fresh(n) /\ bur'[g] = n /\ (\A t \in Slots : t # g => bur'[t] = bur[t] /\ prog'[t] = prog[t])
  /\ ~prog'[g].full
  /\ Slots' = Slots /\ LiveSlots' = LiveSlots \cup {g} /\ g \notin LiveSlots
  /\ Ago(g)' = 0 /\ \A t \in Slots : t # g => Ago(t)' = Ago(t) + 1

LEMMA LaunchesIs ==
    ASSUME IInv, RInv, Begin
    PROVE  \E g \in Slots : \E n : Launches(g, n)
<1>1. TypeInv /\ ApiInv /\ cfg \in Settings /\ slot \in Slots
    BY DEF IInv, TypeInv
<1>2. PICK g \in Slots : g = After(slot)
    BY <1>1, SlotIs
<1>3. PICK n : bur' = [bur EXCEPT ![g] = n] /\ BurstIs(n) /\ Fresh(n)
    BY <1>1, <1>2, BeginOf
<1>4. /\ cfg' = cfg /\ group' = group /\ slot' = g /\ seq' = seq + 1
      /\ api = "begin" /\ api' = "retire" /\ last' = AnchorOf(group) /\ final' = final
      /\ prog' = [prog EXCEPT ![g] = [pic |-> AnchorOf(group), full |-> FALSE]]
    BY <1>1, <1>2, SlotIs DEF Begin
<1>5. bur'[g] = n /\ \A t \in Slots : t # g => bur'[t] = bur[t]
    BY <1>1, <1>3 DEF TypeInv
<1>6. ~prog'[g].full /\ \A t \in Slots : t # g => prog'[t] = prog[t]
    BY <1>1, <1>4 DEF TypeInv
<1>7. Slots' = Slots /\ Ago(g)' = 0 /\ \A t \in Slots : t # g => Ago(t)' = Ago(t) + 1
    BY <1>1, <1>2, <1>4, AgoNext
<1>8. g \notin LiveSlots
    BY <1>1, <1>2, <1>4 DEF ApiInv, LiveSlots
<1>9. LiveSlots' = LiveSlots \cup {g}
    BY <1>3, <1>5, <1>7 DEF LiveSlots, Fresh
<1> QED
    BY <1>2, <1>3, <1>4, <1>5, <1>6, <1>7, <1>8, <1>9 DEF Launches

LEMMA LaunchFacts ==
    ASSUME IInv, RInv, NEW g \in Slots, NEW n, Launches(g, n)
    PROVE  /\ \A t \in Slots : t # g => /\ Marked(t)' = Marked(t) /\ Count(t)' = Count(t)
                                        /\ \A p : OwnPic(t, p) <=> OwnPic(t, p)'
                                        /\ \A i, r : BRefOk(t, i, r) => BRefOk(t, i, r)'
                                        /\ \A p : HoldsRefB(t, p) => HoldsRefB(t, p)'
           /\ Marked(g)' = {} /\ Count(g)' = 0 /\ Len(bur'[g].bs) = 0
           /\ (Sound' => Sound) /\ PreppedOk /\ bur'[g].pic = 8 * group
           /\ group \in Nat /\ group >= 1 /\ last <= 8 * (group - 1)
           /\ \A t \in Slots : Ago(t) \in Nat
<1>1. cfg' = cfg /\ final' = final /\ \A t \in Slots : t # g => bur'[t] = bur[t]
    BY DEF Launches
<1>2. ASSUME NEW t \in Slots, t # g
      PROVE  /\ Marked(t)' = Marked(t) /\ Count(t)' = Count(t)
             /\ \A p : OwnPic(t, p) <=> OwnPic(t, p)'
             /\ \A i, r : BRefOk(t, i, r) => BRefOk(t, i, r)'
             /\ \A p : HoldsRefB(t, p) => HoldsRefB(t, p)'
  <2>1. bur'[t] = bur[t] /\ Same(bur'[t], bur[t])
      BY <1>1, <1>2 DEF Same
  <2>2. \A p : HoldsRefB(t, p) => HoldsRefB(t, p)'
      BY <1>1, <2>1, FixedIs DEF HoldsRefB
  <2> QED
      BY <1>1, <2>1, <2>2, PreparedKept
<1>3. bur'[g].bs = <<>> /\ Len(bur'[g].bs) = 0 /\ bur'[g].pic = 8 * group /\ ~bur'[g].err
    BY DEF Launches, Fresh, AnchorOf
<1>4. Marked(g)' = {}
    BY <1>3 DEF Marked
<1>5. Count(g)' = 0
    BY <1>4, FS_EmptySet DEF Count
<1>6. Sound' => Sound
  <2>1. ~bur[g].err
      BY PartsIs DEF ErrInv, Launches, LiveSlots
  <2> QED
      BY <1>1, <2>1 DEF Sound, Launches
<1>7. PreppedOk /\ group \in Nat /\ group >= 1 /\ last <= 8 * (group - 1)
    BY PartsIs DEF PreppedInv, OrderInv, CallInv, Launches, IInv, TypeInv
<1>8. \A t \in Slots : Ago(t) \in Nat
    BY AgoIs, CfgIs DEF IInv, TypeInv
<1> QED
    BY <1>2, <1>3, <1>4, <1>5, <1>6, <1>7, <1>8

LEMMA BeginChains ==
    ASSUME IInv, RInv, NEW g \in Slots, NEW n, Launches(g, n), IInv'
    PROVE  ChainInv'
<1>1. ASSUME NEW t \in Slots, t # g PROVE ChainOf(t)'
    BY <1>1, ChainKept, PartsIs DEF ChainInv, Launches
<1>2. ChainOf(g)'
  <2>1. /\ bur'[g] = n /\ Fresh(n) /\ ~prog'[g].full /\ cfg' = cfg
        /\ Len(n.bs) = 0
      BY LaunchFacts DEF Launches
  <2>2. PlanOf(g)' \in Seq(PlanEntry)
    <3>1. PICK k \in 0 .. 7 : k = bur'[g].nbuf
        BY Zenon DEF IInv, TypeInv, BurstIs, Launches
    <3>2. PlanOf(g)' = Plan[0][k]
        BY <3>1 DEF PlanOf
    <3> QED
        BY <3>2, PlanSeq, Zenon
  <2>3. PICK l \in Nat : l = Len(PlanOf(g)')
      BY <2>2
  <2>4. Landed(g)' = {} /\ Cardinality(Landed(g)') = 0
    <3>1. Landed(g)' = {}
        BY <2>1 DEF Landed, Fresh
    <3> QED
        BY <3>1, FS_EmptySet
  <2>5. n.group >= 1 /\ n.nbuf \in 1 .. cfg.bframes /\ n.pic = AnchorOf(n.group)
      BY <2>1, PartsIs DEF CallInv, Launches, Fresh
  <2> QED
      BY <2>1, <2>3, <2>4, <2>5 DEF ChainOf, Fresh
<1> QED
    BY <1>1, <1>2 DEF ChainInv, Launches

LEMMA BeginOrder ==
    ASSUME IInv, RInv, NEW g \in Slots, NEW n, Launches(g, n)
    PROVE  OrderInv'
<1>1. /\ slot' = g /\ cfg' = cfg /\ group' = group /\ api' = "retire" /\ last' = 8 * group
      /\ bur'[g] = n /\ Fresh(n) /\ (\A t \in Slots : t # g => bur'[t] = bur[t])
      /\ Slots' = Slots /\ Ago(g)' = 0 /\ \A t \in Slots : t # g => Ago(t)' = Ago(t) + 1
    BY DEF Launches, AnchorOf
<1>2. /\ group \in Nat /\ group >= 1 /\ last <= 8 * (group - 1) /\ last \in Nat
      /\ \A t \in Slots : Ago(t) \in Nat
    BY LaunchFacts, PartsIs DEF OrderInv
<1>3. OrderInv /\ ApiInv /\ ChainInv /\ TypeInv /\ slot \in Slots
    BY PartsIs DEF IInv, TypeInv
<1>4. n.pic = 8 * group /\ n.group = group /\ n.phase = "armed"
    BY <1>1 DEF Fresh, AnchorOf
<1>5. ASSUME NEW t \in Slots, t # g, bur[t].seq > 0
      PROVE  bur[t].group \in Nat /\ bur[t].pic <= last' /\ bur[t].group < group
  <2>1. bur[t].group \in Nat
      BY <1>3, Zenon DEF TypeInv, BurstIs
  <2>2. bur[t].pic = 8 * bur[t].group
      BY <1>3, <1>5 DEF ChainInv, ChainOf, AnchorOf
  <2>3. bur[t].pic <= last
      BY <1>3, <1>5 DEF OrderInv
  <2> QED
      BY <1>1, <1>2, <2>1, <2>2, <2>3
<1>6. last' \in Nat /\ last' <= 8 * group'
    BY <1>1, <1>2
<1>7. bur'[slot'].live => last' = bur'[slot'].pic
    BY <1>1, <1>4
<1>8. ASSUME NEW t \in Slots
      PROVE  /\ (bur'[t].seq > 0 => bur'[t].pic <= last')
             /\ (bur'[t].live /\ t # slot' => bur'[t].fired)
  <2>1. CASE t = g
      BY <1>1, <1>2, <1>4, <2>1
  <2>2. CASE t # g
    <3>1. bur[t].live => bur[t].fired
      <4>1. CASE t = slot
          BY <1>3, <4>1 DEF ApiInv, Launches
      <4>2. CASE t # slot
          BY <1>3, <4>2 DEF OrderInv
      <4> QED
          BY <4>1, <4>2
    <3> QED
        BY <1>1, <1>5, <2>2, <3>1
  <2> QED
      BY <2>1, <2>2
<1>9. ASSUME NEW t \in Slots, NEW u \in Slots, Ago(t)' < Ago(u)'
      PROVE  /\ (bur'[t].seq > 0 /\ bur'[u].seq > 0 => bur'[u].group < bur'[t].group)
             /\ (bur'[t].phase \notin {"armed", "wait"} => bur'[u].anchor = "done")
             /\ (t = slot' /\ bur'[u].live =>
                   /\ (cfg'.wide /\ Ago(u)' = 1 => bur'[t].prevP = u)
                   /\ (~cfg'.wide => bur'[t].phase = "armed"))
  <2>1. u # g
    <3>1. ASSUME u = g PROVE FALSE
      <4>1. CASE t = g
          BY <1>1, <1>9, <3>1, <4>1
      <4>2. CASE t # g
          BY <1>1, <1>2, <1>9, <3>1, <4>2
      <4> QED
          BY <4>1, <4>2
    <3> QED
        BY <3>1
  <2>2. CASE t = g
    <3>1. Ago(u)' = 1 => u = slot
      <4>1. Ago(u)' = Ago(u) + 1 /\ Ago(u) \in Nat
          BY <1>1, <1>2, <2>1
      <4>2. Ago(u)' = 1 => Ago(u) = 0
          BY <4>1
      <4> QED
          BY <1>3, <4>2, AgoIs DEF TypeInv
    <3>2. cfg.wide /\ bur[slot].live => n.prevP = slot
        BY <1>1, FlyIs DEF Fresh
    <3> QED
        BY <1>1, <1>4, <1>5, <2>1, <2>2, <3>1, <3>2
  <2>3. CASE t # g
    <3>1. Ago(t) < Ago(u)
      <4>1. Ago(t)' = Ago(t) + 1 /\ Ago(u)' = Ago(u) + 1 /\ Ago(t) \in Nat /\ Ago(u) \in Nat
          BY <1>1, <1>2, <2>1, <2>3
      <4> QED
          BY <1>9, <4>1
    <3> QED
        BY <1>1, <1>3, <2>1, <2>3, <3>1 DEF OrderInv
  <2> QED
      BY <2>2, <2>3
<1> QED
    BY <1>1, <1>6, <1>7, <1>8, <1>9 DEF OrderInv

LEMMA BeginBuffer ==
    ASSUME IInv, RInv, NEW g \in Slots, NEW n, Launches(g, n), Enters(AnchorOf(group))
    PROVE  WindowInv' /\ MemberInv' /\ StayInv'
<1>1. /\ slot' = g /\ cfg' = cfg /\ last' = 8 * group /\ final' = final
      /\ bur'[g] = n /\ Fresh(n) /\ (\A t \in Slots : t # g => bur'[t] = bur[t])
      /\ Slots' = Slots /\ LiveSlots' = LiveSlots \cup {g} /\ g \notin LiveSlots
      /\ Ago(g)' = 0 /\ (\A t \in Slots : t # g => Ago(t)' = Ago(t) + 1) /\ Window' = Window
    BY DEF Launches, AnchorOf, Window
<1>2. /\ group \in Nat /\ group >= 1 /\ last <= 8 * (group - 1) /\ last \in Nat
      /\ (\A t \in Slots : Ago(t) \in Nat) /\ (Sound' => Sound)
      /\ Marked(g)' = {} /\ Count(g)' = 0 /\ bur'[g].pic = 8 * group
      /\ \A t \in Slots : t # g => Count(t)' = Count(t) /\ \A p : OwnPic(t, p) <=> OwnPic(t, p)'
    BY LaunchFacts, PartsIs DEF OrderInv
<1>3. WindowInv /\ MemberInv /\ StayInv /\ ChainInv /\ TypeInv /\ slot \in Slots
    BY PartsIs DEF IInv, TypeInv
<1>4. AnchorOf(group) = 8 * group /\ AnchorOf(group) \in Nat
    BY <1>2 DEF AnchorOf
<1>5. WindowInv'
  <2>1. last' \in Nat /\ AnchorOf(group) <= last' /\ last <= last'
      BY <1>1, <1>2, <1>4
  <2> QED
      BY <1>1, <1>2, <1>3, <1>4, <2>1, EntersWindow
<1>6. \A d \in Used' : dpb'[d].pic = bur'[g].pic \/ (d \in Used /\ dpb'[d] = dpb[d])
    BY <1>1, <1>2, <1>4, EntersMembers
<1>7. \A p : p = bur'[g].pic => OwnPic(g, p)'
    BY DEF OwnPic
<1>8. MemberInv'
  <2>1. ASSUME Sound', NEW d \in Used'
        PROVE  dpb'[d].pic \in final' \/ \E s \in LiveSlots' : OwnPic(s, dpb[d].pic)'
    <3>1. CASE dpb'[d].pic = bur'[g].pic
        BY <1>1, <1>7, <3>1
    <3>2. CASE d \in Used /\ dpb'[d] = dpb[d]
      <4>1. dpb[d].pic \in final \/ \E s \in LiveSlots : OwnPic(s, dpb[d].pic)
          BY <1>2, <1>3, <2>1, <3>2 DEF MemberInv
      <4>2. \A s \in LiveSlots : s \in Slots /\ s # g
          BY <1>1 DEF LiveSlots
      <4> QED
          BY <1>1, <1>2, <3>2, <4>1, <4>2
    <3> QED
        BY <1>6, <3>1, <3>2
  <2>2. ASSUME NEW d \in Used'
        PROVE  dpb'[d].pic <= 8 * (bur'[g].group - 1) \/ OwnPic(g, dpb[d].pic)'
    <3>1. CASE dpb'[d].pic = bur'[g].pic
        BY <1>7, <3>1
    <3>2. CASE d \in Used /\ dpb'[d] = dpb[d]
      <4>1. dpb[d].pic <= last /\ dpb[d].pic \in Nat
          BY <1>3, <3>2, UsedIs
      <4> QED
          BY <1>1, <1>2, <3>2, <4>1 DEF Fresh
    <3> QED
        BY <1>6, <3>1, <3>2
  <2>3. \A p : OwnPic(g, p)' => OwnPic(slot, p)'
      BY <1>1 DEF OwnPic, OwnRef, Marked
  <2> QED
      BY <1>1, <2>1, <2>2, <2>3 DEF MemberInv
<1>9. StayInv'
  <2>1. SUFFICES StaysOf(g)'
      BY <1>1 DEF StayInv
  <2>2. \A k \in Nat : k >= 1 => Among(bur[g].pic, k)'
    <3>1. PICK p : p = bur'[g].pic
        OBVIOUS
    <3>2. \A k \in Nat : k >= 1 => Among(p, k)'
        BY <1>1, <1>2, <1>3, <1>4, <3>1, EntersAmong
    <3> QED
        BY <3>1, <3>2 DEF Among
  <2>3. Among(bur[g].pic, 1 + Count(g))'
      BY <1>2, <2>2
  <2>4. ASSUME NEW t \in Slots, Ago(t)' = 1, bur'[t].live, (2 + Count(t) + Count(g) <= Window)'
        PROVE  Among(bur[t].pic, 2 + Count(t) + Count(g))'
    <3>1. t # g
        BY <1>1, <2>4
    <3>2. t = slot
      <4>1. Ago(t)' = Ago(t) + 1 /\ Ago(t) \in Nat
          BY <1>1, <1>2, <3>1
      <4>2. Ago(t) = 0
          BY <2>4, <4>1
      <4> QED
          BY <1>3, <4>2, AgoIs DEF TypeInv
    <3>3. t \in LiveSlots /\ bur'[t] = bur[t] /\ Count(t)' = Count(t)
        BY <1>1, <1>2, <2>4, <3>1 DEF LiveSlots
    <3>4. Among(bur[t].pic, 1 + Count(t))
        BY <1>3, <3>2, <3>3 DEF StayInv, StaysOf
    <3>5. Count(t) \in Nat
        BY <1>3, MarkedIs DEF ChainInv
    <3>6. (1 + Count(t)) + 1 <= Window /\ 1 + Count(t) \in Nat
        BY <1>1, <1>2, <2>4, <3>3, <3>5
    <3>7. PICK p, k : p = bur[t].pic /\ k = (1 + Count(t)) + 1
        OBVIOUS
    <3>8. Among(p, k)'
        BY <1>1, <1>3, <3>4, <3>6, <3>7, EntersAmong
    <3>9. (2 + Count(t) + Count(g))' = k /\ bur'[t].pic = p
        BY <1>2, <3>3, <3>5, <3>7
    <3> QED
        BY <3>8, <3>9 DEF Among
  <2> QED
      BY <1>1, <1>2, <2>3, <2>4 DEF StaysOf
<1> QED
    BY <1>5, <1>8, <1>9

LEMMA BeginReads ==
    ASSUME IInv, RInv, Begin, IInv'
    PROVE  RInv'
<1>0. PICK g \in Slots : \E n : Launches(g, n)
    BY LaunchesIs
<1>1. PICK n : Launches(g, n)
    BY <1>0
<1>2. /\ slot' = g /\ cfg' = cfg /\ seq' = seq + 1 /\ final' = final /\ api = "begin" /\ api' = "retire"
      /\ bur'[g] = n /\ Fresh(n) /\ (\A t \in Slots : t # g => bur'[t] = bur[t])
      /\ Slots' = Slots /\ LiveSlots' = LiveSlots \cup {g} /\ g \notin LiveSlots
      /\ Ago(g)' = 0 /\ (\A t \in Slots : t # g => Ago(t)' = Ago(t) + 1)
    BY <1>1 DEF Launches
<1>3. /\ \A t \in Slots : t # g => /\ Marked(t)' = Marked(t)
                                   /\ \A i, r : BRefOk(t, i, r) => BRefOk(t, i, r)'
                                   /\ \A p : HoldsRefB(t, p) => HoldsRefB(t, p)'
      /\ Marked(g)' = {} /\ Len(bur'[g].bs) = 0 /\ (Sound' => Sound) /\ PreppedOk
      /\ group \in Nat /\ \A t \in Slots : Ago(t) \in Nat
    BY <1>1, LaunchFacts
<1>4. ChainInv' /\ OrderInv'
    BY <1>1, BeginChains, BeginOrder
<1>5. WindowInv' /\ MemberInv' /\ StayInv'
  <2>1. Enter(AnchorOf(group), rec, seq + 1) /\ AnchorOf(group) \in Nat
      BY <1>3 DEF Begin, AnchorOf
  <2> QED
      BY <1>1, <2>1, EnterIs, BeginBuffer, PartsIs
<1>6. CallInv' /\ PreppedInv'
    BY <1>2 DEF CallInv, PreppedInv
<1>7. ErrInv'
    BY <1>2, PartsIs DEF ErrInv, Fresh
<1>8. \A t \in LiveSlots : t \in Slots /\ t # g /\ bur[t].live
    BY <1>2 DEF LiveSlots
<1>9. n.gates = prepped.gates /\ n.refs = prepped.refs
    BY <1>2 DEF Fresh
<1>10. LaunchInv'
  <2>1. SUFFICES ASSUME Sound, cfg.ref > 1, NEW s \in LiveSlots', NEW t \in LiveSlots',
                        Ago(s)' < Ago(t)', NEW i \in Marked(t)'
                 PROVE  bur'[t].bs[i].pic \in final' \/ GatedRefB(bur'[t].bs[i].pic, bur'[s].gates)
      BY <1>2, <1>3 DEF LaunchInv, GatedRefB
  <2>2. t # g /\ t \in LiveSlots /\ bur'[t] = bur[t] /\ Marked(t)' = Marked(t)
      BY <1>2, <1>3, <1>8, <2>1
  <2>3. CASE s = g
      BY <1>2, <1>3, <1>9, <2>1, <2>2, <2>3 DEF PreppedOk
  <2>4. CASE s # g
    <3>1. s \in LiveSlots /\ bur'[s] = bur[s]
        BY <1>2, <1>8, <2>1, <2>4
    <3>2. Ago(s) < Ago(t)
      <4>1. Ago(s)' = Ago(s) + 1 /\ Ago(t)' = Ago(t) + 1 /\ Ago(s) \in Nat /\ Ago(t) \in Nat
          BY <1>2, <1>3, <1>8, <2>2, <2>4, <3>1
      <4> QED
          BY <2>1, <4>1
    <3> QED
        BY <1>2, <2>1, <2>2, <3>1, <3>2, PartsIs DEF LaunchInv
  <2> QED
      BY <2>3, <2>4
<1>11. GateRInv'
  <2>1. SUFFICES ASSUME Sound, NEW s \in LiveSlots', NEW x \in bur'[s].gates, x.kind = "R",
                        x.pic \notin final
                 PROVE  /\ x.slot \in Slots /\ bur'[s].rbOf = x.slot
                        /\ bur'[x.slot].seq = bur'[s].rbSeq
                        /\ HoldsRefB(x.slot, x.pic)' /\ bur'[s].phase \notin {"code", "ended"}
      BY <1>2, <1>3 DEF GateRInv
  <2>2. CASE s # g
    <3>1. s \in LiveSlots /\ bur'[s] = bur[s]
        BY <1>2, <1>8, <2>1, <2>2
    <3>2. /\ x.slot \in Slots /\ bur[s].rbOf = x.slot /\ bur[x.slot].seq = bur[s].rbSeq
          /\ HoldsRefB(x.slot, x.pic) /\ bur[s].phase \notin {"code", "ended"}
        BY <2>1, <3>1, PartsIs DEF GateRInv
    <3>3. x.slot # g
        BY <1>2, <3>2 DEF HoldsRefB, LiveSlots
    <3> QED
        BY <1>2, <1>3, <3>1, <3>2, <3>3
  <2>3. CASE s = g
    <3>1. x \in prepped.gates /\ x.slot = slot /\ HoldsRefB(slot, x.pic)
        BY <1>2, <1>3, <1>9, <2>1, <2>3 DEF PreppedOk
    <3>2. bur[slot].live /\ Fly = slot /\ slot \in Slots /\ slot # g
        BY <1>2, <3>1, FlyIs DEF HoldsRefB, LiveSlots, IInv, TypeInv
    <3>3. n.rbOf = slot /\ n.rbSeq = seq /\ n.phase = "armed"
        BY <1>2, <2>1, <3>1, <3>2 DEF Fresh
    <3>4. bur[slot].seq = seq
      <4>1. PlaceInv /\ seq \in Nat /\ cfg \in Settings
          BY DEF IInv, TypeInv
      <4>2. Ago(slot) = 0
          BY <3>2, <4>1, AgoIs
      <4>3. Ago(slot) < seq /\ bur[slot].seq = seq - Ago(slot)
          BY <3>2, <4>1, <4>2 DEF PlaceInv
      <4> QED
          BY <4>1, <4>2, <4>3
    <3>5. PICK h : h = slot
        OBVIOUS
    <3>6. HoldsRefB(h, x.pic)'
        BY <1>3, <3>1, <3>2, <3>5
    <3>7. HoldsRefB(x.slot, x.pic)'
        BY <3>1, <3>5, <3>6
    <3> QED
        BY <1>2, <2>3, <3>1, <3>2, <3>3, <3>4, <3>7
  <2> QED
      BY <2>2, <2>3
<1>12. AnchorInv'
  <2>1. SUFFICES ASSUME Sound, NEW s \in LiveSlots', bur'[s].anchor = "run", NEW r \in bur'[s].refs
                 PROVE  FinalOrGated(r, bur'[s].gates)
      BY <1>2, <1>3 DEF AnchorInv, FinalOrGated
  <2>2. CASE s = g
      BY <1>2, <1>3, <1>9, <2>1, <2>2 DEF PreppedOk
  <2>3. CASE s # g
      BY <1>2, <1>8, <2>1, <2>3, PartsIs DEF AnchorInv
  <2> QED
      BY <2>2, <2>3
<1>13. PlanInv'
  <2>1. ASSUME Sound, NEW s \in LiveSlots', NEW i \in 1 .. Len(bur'[s].bs), NEW r \in bur'[s].bs[i].refs
        PROVE  BRefOk(s, i, r)'
    <3>1. s # g
        BY <1>3, <2>1
    <3>2. s \in LiveSlots /\ bur'[s] = bur[s]
        BY <1>2, <1>8, <2>1, <3>1
    <3>3. BRefOk(s, i, r)
        BY <2>1, <3>2, PartsIs DEF PlanInv
    <3> QED
        BY <1>3, <1>8, <3>2, <3>3
  <2>2. bur'[slot'].col = {}
      BY <1>2 DEF Fresh
  <2> QED
      BY <1>3, <2>1, <2>2 DEF PlanInv
<1> QED
    BY <1>4, <1>5, <1>6, <1>7, <1>10, <1>11, <1>12, <1>13 DEF RInv

-----------------------------------------------------------------------------
(* A B picture is prepared.                                                 *)

\* A chain that prepares is the newest burst's, and what is older is published.
Preps(s) ==
  /\ s = slot /\ s \in LiveSlots /\ bur[s].phase = "prep" /\ ~bur[s].err /\ ~bur[s].fired
  /\ bur[s].coded = 0 /\ bur[s].refb = "none" /\ last = bur[s].pic
  /\ bur[s].group \in Nat /\ bur[s].group >= 1 /\ bur[s].pic = 8 * bur[s].group
  /\ bur[s].nbuf \in 1 .. cfg.bframes
  /\ \A t \in LiveSlots : t # s =>
       /\ cfg.wide /\ Ago(s) < Ago(t) /\ bur[t].pic \in final
       /\ bur[t].pic \in Nat /\ bur[t].pic <= 8 * (bur[s].group - 1)

LEMMA PrepIs ==
    ASSUME IInv, RInv, NEW s \in Slots, bur[s].phase = "prep"
    PROVE  Preps(s)
<1>1. TypeInv /\ PlaceInv /\ BurstInv /\ BurstOf(s) /\ OrderInv /\ ChainInv /\ ChainOf(s)
    BY PartsIs DEF IInv, BurstInv, ChainInv
<1>2. cfg \in Settings /\ slot \in Slots /\ seq \in Nat /\ cfg.wide \in BOOLEAN
    BY <1>1, CfgIs DEF TypeInv
<1>3. BurstIs(bur[s]) /\ bur[s].live \in BOOLEAN /\ bur[s].fired \in BOOLEAN /\ bur[s].err \in BOOLEAN
        /\ bur[s].group \in Nat
    BY <1>1 DEF TypeInv, BurstIs
<1>4. bur[s].live /\ ~bur[s].fired /\ ~bur[s].err
    BY <1>1, <1>3 DEF BurstOf, ChainOf
<1>5. s = slot
    BY <1>1, <1>3, <1>4 DEF OrderInv
<1>6. \A t \in Slots : Ago(t) \in Nat
    BY <1>2, AgoIs, CfgIs
<1>7. \A t \in LiveSlots : t \in Slots /\ bur[t].live /\ bur[t].seq \in Nat /\ bur[t].seq > 0
  <2>1. SUFFICES ASSUME NEW t \in LiveSlots
                 PROVE  t \in Slots /\ bur[t].live /\ bur[t].seq \in Nat /\ bur[t].seq > 0
      OBVIOUS
  <2>2. t \in Slots /\ bur[t].live
      BY <2>1 DEF LiveSlots
  <2>3. Ago(t) < seq /\ bur[t].seq = seq - Ago(t)
      BY <1>1, <1>2, <1>6, <2>2 DEF PlaceInv
  <2> QED
      BY <1>2, <1>6, <2>2, <2>3
<1>8. s \in LiveSlots /\ bur[s].seq > 0
    BY <1>4, <1>7 DEF LiveSlots
<1>9. ASSUME NEW t \in LiveSlots, t # s
      PROVE  /\ cfg.wide /\ Ago(s) < Ago(t) /\ bur[t].pic \in final
             /\ bur[t].pic \in Nat /\ bur[t].pic <= 8 * (bur[s].group - 1)
  <2>1. t \in Slots /\ bur[t].live /\ bur[t].seq > 0
      BY <1>7
  <2>2. Ago(s) = 0 /\ Ago(t) # 0
      BY <1>2, <1>5, <1>9, <2>1, AgoIs
  <2>3. Ago(s) < Ago(t)
      BY <1>6, <2>1, <2>2
  <2>4. /\ bur[t].group < bur[s].group /\ bur[t].anchor = "done"
        /\ (~cfg.wide => bur[s].phase = "armed")
      BY <1>1, <1>5, <1>8, <2>1, <2>3 DEF OrderInv
  <2>5. bur[t].group \in Nat
      BY <1>1, <2>1, Zenon DEF TypeInv, BurstIs
  <2>6. bur[t].pic = 8 * bur[t].group /\ bur[t].pic \in final
      BY <1>1, <2>1, <2>4 DEF ChainInv, ChainOf, AnchorOf
  <2> QED
      BY <1>2, <1>3, <2>3, <2>4, <2>5, <2>6
<1>10. bur[s].group >= 1 /\ bur[s].pic = 8 * bur[s].group /\ bur[s].nbuf \in 1 .. cfg.bframes
    BY <1>1, <1>8 DEF ChainOf, AnchorOf
<1>11. bur[s].coded = 0 /\ bur[s].refb = "none"
    BY <1>1 DEF ChainOf
<1>12. last = bur[s].pic
    BY <1>1, <1>4, <1>5 DEF OrderInv
<1> QED
    BY <1>3, <1>4, <1>5, <1>8, <1>9, <1>10, <1>11, <1>12 DEF Preps

LEMMA BetweenAnchors ==
    ASSUME NEW k \in Nat, k >= 1, NEW n \in 0 .. 7, n >= 1, NEW m \in 0 .. n - 1,
           NEW z \in Int, z = 8 * k - n + m
    PROVE  z \in Nat /\ 8 * (k - 1) < z /\ z < 8 * k
  OBVIOUS

\* Where a B picture of a burst lies.
LEMMA BOfIs ==
    ASSUME IInv, NEW s \in Slots, Preps(s), NEW i \in 1 .. Len(PlanOf(s)),
           NEW p, p = BOf(bur[s].group, bur[s].nbuf, PlanOf(s)[i].m)
    PROVE  /\ p \in Nat /\ 8 * (bur[s].group - 1) < p /\ p < bur[s].pic
           /\ PlanOf(s)[i].m \in Nat
<1>1. PICK n, q : n = bur[s].nbuf /\ q = PlanOf(s)
    OBVIOUS
<1>2. cfg.bframes \in 2 .. 7 /\ n \in 1 .. cfg.bframes
    BY <1>1, CfgIs DEF IInv, TypeInv, Preps
<1>3. n \in 0 .. 7 /\ n >= 1
    BY <1>2
<1>4. q = Plan[0][n]
    BY <1>1 DEF PlanOf
<1>5. Len(q) = n /\ q[i].m \in 0 .. n - 1
    BY <1>1, <1>3, <1>4, PlanTable, Zenon DEF PlanFits
<1>6. PICK m \in 0 .. n - 1 : m = q[i].m
    BY <1>5
<1>7. PICK k \in Nat : k = bur[s].group /\ k >= 1 /\ bur[s].pic = 8 * k
    BY DEF Preps
<1>8. PICK z \in Int : z = 8 * k - n + m
  <2>1. k \in Int /\ n \in Int /\ m \in Int
      BY <1>3, <1>6, <1>7
  <2>2. 8 * k - n + m \in Int
      BY <2>1
  <2> QED
      BY <2>2
<1>9. z \in Nat /\ 8 * (k - 1) < z /\ z < 8 * k
  <2>1. k >= 1 /\ n \in 0 .. 7 /\ n >= 1
      BY <1>3, <1>7
  <2> QED
      BY <1>8, <2>1, BetweenAnchors
<1>10. p = z
    BY <1>1, <1>6, <1>7, <1>8 DEF BOf
<1> QED
    BY <1>1, <1>6, <1>7, <1>9, <1>10

\* What the buffer holds from behind the previous group is the burst's own; the
\* next picture in display order is, and its gate is installed.
NewRefOk(s, p, q) ==
  \/ q \in final
  \/ q = bur[s].pic /\ \E y \in GatesOf(s, p) : y.kind = "P"
  \/ \E j \in Marked(s) : /\ q = bur[s].bs[j].pic
                          /\ (Bdepth(s) => \E y \in GatesOf(s, p) : y.kind = "R")
  \/ GatedRefB(q, bur[s].gates)

LEMMA OwnAfter ==
    ASSUME IInv, RInv, NEW s \in Slots, Preps(s), NEW d \in Used
    PROVE  /\ dpb[d].pic \in Nat /\ (dpb[d].pic <= 8 * (bur[s].group - 1) \/ OwnPic(s, dpb[d].pic))
<1>1. MemberInv /\ WindowInv /\ s = slot /\ bur[s].live
    BY PartsIs DEF Preps, LiveSlots
<1> QED
    BY <1>1, UsedIs DEF MemberInv

LEMMA FutureIs ==
    ASSUME IInv, RInv, NEW s \in Slots, Preps(s), NEW p \in Nat, p < bur[s].pic,
           8 * (bur[s].group - 1) < p
    PROVE  /\ Future(p) \in Used /\ dpb[Future(p)].pic > p
           /\ OwnPic(s, dpb[Future(p)].pic)
<1>1. PICK S : S = {dpb[x].pic : x \in {y \in Used : dpb[y].pic > p}}
    BY Zenon
<1>2. S \subseteq Nat
    BY <1>1, OwnAfter
<1>3. S # {}
  <2>1. Among(bur[s].pic, 1 + Count(s))
      BY PartsIs DEF StayInv, StaysOf, Preps
  <2>2. PICK x \in Used : dpb[x].pic = bur[s].pic
      BY <2>1 DEF Among
  <2> QED
      BY <1>1, <2>2
<1>4. PICK m \in S : \A n \in S : m <= n
    BY <1>2, <1>3, Least, Zenon
<1>5. PICK v \in Used : m = dpb[v].pic /\ dpb[v].pic > p
    BY <1>1, <1>4
<1>6. \A x \in Used : dpb[x].pic > p => dpb[v].pic <= dpb[x].pic
    BY <1>1, <1>4, <1>5
<1>7. Future(p) \in Used /\ dpb[Future(p)].pic > p
    BY <1>5, <1>6 DEF Future
<1>8. PICK f \in Used : f = Future(p)
    BY <1>7
<1>9. ~(dpb[f].pic <= 8 * (bur[s].group - 1))
  <2>1. dpb[f].pic \in Nat /\ dpb[f].pic > p /\ bur[s].group \in Nat
      BY <1>7, <1>8, OwnAfter DEF Preps
  <2> QED
      BY <2>1
<1> QED
    BY <1>7, <1>8, <1>9, OwnAfter

LEMMA FutureReads ==
    ASSUME IInv, RInv, NEW s \in Slots, Preps(s), NEW p \in Nat, p < bur[s].pic,
           8 * (bur[s].group - 1) < p
    PROVE  NewRefOk(s, p, dpb[Future(p)].pic)
<1>1. PICK q : q = dpb[Future(p)].pic
    OBVIOUS
<1>2. OwnPic(s, q)
    BY <1>1, FutureIs
<1>3. CASE q = bur[s].pic
  <2>1. [kind |-> "P", slot |-> s, pic |-> bur[s].pic] \in GatesOf(s, p)
      BY <1>1, <1>3 DEF GatesOf
  <2> QED
      BY <1>1, <1>3, <2>1 DEF NewRefOk
<1>4. CASE OwnRef(s, q)
  <2>1. PICK j \in Marked(s) : bur[s].bs[j].pic = q
      BY <1>4 DEF OwnRef
  <2>2. ASSUME Bdepth(s) PROVE [kind |-> "R", slot |-> s, pic |-> q] \in GatesOf(s, p)
    <3>1. q = RefB(s)
        BY <2>1, <2>2, MarkedIs, PartsIs DEF ChainInv
    <3>2. bur[s].bs # <<>>
        BY <2>1 DEF Marked
    <3> QED
        BY <1>1, <2>2, <3>1, <3>2 DEF GatesOf
  <2> QED
      BY <1>1, <2>1, <2>2 DEF NewRefOk
<1> QED
    BY <1>2, <1>3, <1>4 DEF OwnPic

LEMMA PastIs ==
    ASSUME IInv, WindowInv, NEW p, NEW d \in Past(p)
    PROVE  /\ d \in Used /\ dpb[d].pic < p
           /\ cfg.ref = 1 => \A x \in Used : ~(dpb[x].pic < p /\ dpb[x].pic > dpb[d].pic)
<1>1. PICK S : S = {x \in Used : dpb[x].pic < p}
    BY Zenon
<1>2. d \in S /\ Cardinality({x \in S : dpb[x].pic > dpb[d].pic}) < cfg.ref
    BY <1>1 DEF Past, First
<1>3. ASSUME cfg.ref = 1, NEW x \in Used, dpb[x].pic < p, dpb[x].pic > dpb[d].pic PROVE FALSE
  <2>1. PICK N : N = {y \in S : dpb[y].pic > dpb[d].pic}
      BY Zenon
  <2>2. IsFiniteSet(N) /\ Cardinality(N) \in Nat
    <3>1. N \subseteq Used
        BY <1>1, <2>1
    <3> QED
        BY <3>1, UsedIs, FS_Subset, FS_CardinalityType
  <2>3. Cardinality(N) = 0
      BY <1>2, <1>3, <2>1, <2>2
  <2>4. x \in N
      BY <1>1, <1>3, <2>1
  <2> QED
      BY <2>2, <2>3, <2>4, FS_EmptySet
<1> QED
    BY <1>1, <1>2, <1>3

\* Of the pictures before p a streaming reference B of the burst is the nearest.
LEMMA PastStreams ==
    ASSUME IInv, RInv, NEW s \in Slots, Preps(s), NEW p \in Nat, p < bur[s].pic,
           8 * (bur[s].group - 1) < p, NEW d \in Past(p), NEW j \in Marked(s),
           bur[s].bs[j].pic = dpb[d].pic, Bdepth(s), RefB(s) > 8 * (bur[s].group - 1)
    PROVE  \E y \in GatesOf(s, p) : y.kind = "R"
<1>1. WindowInv /\ ChainOf(s)
    BY PartsIs DEF ChainInv
<1>2. PICK q : q = dpb[d].pic
    OBVIOUS
<1>3. q = RefB(s)
    BY <1>1, <1>2, MarkedIs
<1>4. ASSUME NEW x \in Past(p) PROVE dpb[x].pic <= q
  <2>1. x \in Used /\ dpb[x].pic < p /\ d \in Used
      BY <1>1, PastIs
  <2>2. dpb[x].pic \in Nat /\ q \in Nat /\ bur[s].group \in Nat /\ bur[s].pic \in Nat
      BY <1>2, <2>1, OwnAfter DEF Preps
  <2>3. CASE dpb[x].pic <= 8 * (bur[s].group - 1)
      BY <1>3, <2>2, <2>3
  <2>4. CASE OwnPic(s, dpb[x].pic)
    <3>1. dpb[x].pic # bur[s].pic
        BY <2>1, <2>2
    <3>2. PICK k \in Marked(s) : bur[s].bs[k].pic = dpb[x].pic
        BY <2>4, <3>1 DEF OwnPic, OwnRef
    <3>3. dpb[x].pic = q
        BY <1>1, <1>3, <3>2, MarkedIs
    <3> QED
        BY <2>2, <3>3
  <2> QED
      BY <2>1, <2>3, <2>4, OwnAfter
<1>5. PICK P : P = {dpb[x].pic : x \in Past(p)}
    BY Zenon
<1>6. q \in P /\ \A x \in Past(p) : dpb[x].pic <= q
    BY <1>2, <1>4, <1>5
<1>7. \A v \in P : (\A x \in Past(p) : dpb[x].pic <= v) => v = q
  <2>1. SUFFICES ASSUME NEW x \in Past(p), dpb[d].pic <= dpb[x].pic PROVE dpb[x].pic = q
      BY <1>2, <1>5
  <2>2. dpb[x].pic \in Nat /\ q \in Nat
      BY <1>1, <1>2, PastIs, OwnAfter
  <2> QED
      BY <1>2, <1>4, <2>1, <2>2
<1>8. (CHOOSE v \in P : \A x \in Past(p) : dpb[x].pic <= v) = q
    BY <1>6, <1>7
<1>9. bur[s].bs # <<>>
    BY DEF Marked
<1>10. [kind |-> "R", slot |-> s, pic |-> q] \in GatesOf(s, p)
    BY <1>3, <1>5, <1>8, <1>9, Zenon DEF GatesOf
<1> QED
    BY <1>10

\* Behind no reference B of its own a picture finds the previous anchor in the
\* window of a wide ring.
LEMMA PrevAnchorStays ==
    ASSUME IInv, RInv, NEW s \in Slots, Preps(s), cfg.wide, Len(bur[s].bs) + 1 <= Len(PlanOf(s)),
           NEW p, p = BOf(bur[s].group, bur[s].nbuf, NextB(s).m),
           \A j \in Marked(s) : ~(bur[s].bs[j].pic < p),
           NEW u \in Slots, Ago(u) = 1, bur[u].live
    PROVE  \E x \in Used : dpb[x].pic = bur[u].pic
<1>1. /\ ChainOf(s) /\ ChainOf(u) /\ StaysOf(s) /\ cfg \in Settings
      /\ BurstIs(bur[s]) /\ BurstIs(bur[u])
    BY PartsIs DEF ChainInv, StayInv, Preps, IInv, TypeInv
<1>2. PICK l \in Nat : l = Len(bur[s].bs)
    BY <1>1 DEF BurstIs
<1>3. PICK q, n : q = PlanOf(s) /\ n = bur[s].nbuf
    OBVIOUS
<1>4. cfg.bframes \in 2 .. 7 /\ n \in 1 .. cfg.bframes /\ q = Plan[0][n] /\ q \in Seq(PlanEntry)
    BY <1>1, <1>3, CfgIs, PlanOfIs DEF Preps, PlanOf
<1>5. l + 1 \in 1 .. Len(q) /\ Len(q) \in Nat
    BY <1>2, <1>3, <1>4
<1>6. Marked(s) = {j \in 1 .. l : q[j].ref}
    BY <1>1, <1>2, <1>3, Zenon DEF Marked, ChainOf
<1>7. ASSUME NEW j \in 1 .. l, q[j].ref PROVE ~(q[j].m < q[l + 1].m)
  <2>1. j \in Marked(s) /\ ~(bur[s].bs[j].pic < p)
      BY <1>6, <1>7
  <2>2. bur[s].bs[j].pic = BOf(bur[s].group, n, q[j].m)
      BY <1>1, <1>2, <1>3, Zenon DEF ChainOf
  <2>3. p = BOf(bur[s].group, n, q[l + 1].m)
      BY <1>2, <1>3 DEF NextB
  <2>4. j \in 1 .. Len(q)
      BY <1>2, <1>5
  <2>5. PICK a \in Nat, b \in Nat : a = q[j].m /\ b = q[l + 1].m
      BY <1>3, <1>5, <2>4, BOfIs, Zenon
  <2>6. PICK k \in Nat : k = bur[s].group
      BY DEF Preps
  <2>7. bur[s].bs[j].pic = 8 * k - n + a /\ p = 8 * k - n + b
      BY <2>2, <2>3, <2>5, <2>6 DEF BOf
  <2>8. a < b => 8 * k - n + a < 8 * k - n + b
    <3>1. n \in Int
        BY <1>4
    <3>2. \A c \in Int : a < b => c + a < c + b
        OBVIOUS
    <3>3. 8 * k - n \in Int
        BY <3>1
    <3> QED
        BY <3>2, <3>3
  <2> QED
      BY <2>1, <2>5, <2>7, <2>8
<1>8. bur[u].nbuf \in 0 .. cfg.bframes
  <2>1. bur[u].seq > 0
    <3>1. PlaceInv /\ seq \in Nat
        BY DEF IInv, TypeInv
    <3>2. Ago(u) < seq /\ bur[u].seq = seq - Ago(u)
        BY <3>1 DEF PlaceInv
    <3> QED
        BY <3>1, <3>2
  <2> QED
      BY <1>1, <1>4, <2>1 DEF ChainOf
<1>9. PICK k : k = bur[u].nbuf
    OBVIOUS
<1>10. NRefB(k) + Cardinality({j \in 1 .. (l + 1) - 1 : q[j].ref}) <= cfg.bframes
  <2>1. (l + 1) - 1 = l
      BY <1>2
  <2>2. \A j \in 1 .. (l + 1) - 1 : q[j].ref => ~(q[j].m < q[l + 1].m)
      BY <1>7, <2>1
  <2>3. PICK i : i = l + 1
      OBVIOUS
  <2>4. i \in 1 .. Len(q) /\ \A j \in 1 .. i - 1 : q[j].ref => ~(q[j].m < q[i].m)
      BY <1>5, <2>2, <2>3
  <2>5. k \in 0 .. cfg.bframes
      BY <1>8, <1>9
  <2>6. PICK n0 \in 1 .. cfg.bframes : n0 = n
      BY <1>4
  <2>7. q = Plan[0][n0]
      BY <1>4, <2>6
  <2>8. cfg \in Settings
      BY <1>1
  <2>9. SpineRoom(k, q, n0, i)
      BY <2>4, <2>5, <2>6, <2>7, <2>8, SpineFits, Zenon
  <2> QED
      BY <2>3, <2>9 DEF SpineRoom
<1>11. Count(s) = Cardinality({j \in 1 .. (l + 1) - 1 : q[j].ref})
  <2>1. (l + 1) - 1 = l
      BY <1>2
  <2> QED
      BY <1>6, <2>1 DEF Count
<1>12. Count(s) \in Nat /\ Count(u) \in Nat /\ Count(u) <= RefBs(u) /\ RefBs(u) \in Nat
         /\ RefBs(u) = NRefB(k)
    BY <1>1, <1>9, MarkedIs, RefBsIs DEF RefBs
<1>13. Count(u) + Count(s) <= cfg.bframes
  <2>1. \A a, b, c, d \in Nat : c + b <= d /\ a <= c => a + b <= d
      OBVIOUS
  <2>2. cfg.bframes \in Nat
      BY <1>4
  <2>3. RefBs(u) + Count(s) <= cfg.bframes
      BY <1>10, <1>11, <1>12
  <2> QED
      BY <1>12, <2>1, <2>2, <2>3
<1>14. Window \in Nat /\ Window >= cfg.bframes + 2
    BY <1>1, WindowIs
<1>15. 2 + Count(u) + Count(s) <= Window
  <2>1. \A a, b, c, w \in Nat : a + b <= c /\ w >= c + 2 => 2 + a + b <= w
      OBVIOUS
  <2>2. cfg.bframes \in Nat
      BY <1>4
  <2> QED
      BY <1>12, <1>13, <1>14, <2>1, <2>2
<1>16. Among(bur[u].pic, 2 + Count(u) + Count(s))
    BY <1>1, <1>15 DEF StaysOf
<1> QED
    BY <1>16 DEF Among

\* With one reference a picture of a wide ring reads none of an older burst's
\* reference B's: the previous anchor or one of its own is nearer.
LEMMA PastSingle ==
    ASSUME IInv, RInv, NEW s \in Slots, Preps(s), Len(bur[s].bs) + 1 <= Len(PlanOf(s)),
           NEW p, p = BOf(bur[s].group, bur[s].nbuf, NextB(s).m), NEW d \in Past(p), cfg.ref = 1,
           NEW t \in LiveSlots, t # s, OwnRef(t, dpb[d].pic)
    PROVE  FALSE
<1>1. /\ ChainOf(s) /\ ChainOf(t) /\ StaysOf(s) /\ cfg \in Settings /\ WindowInv /\ t \in Slots
      /\ PlaceInv /\ OrderInv /\ slot \in Slots /\ seq \in Nat /\ ChainInv /\ bur[t].live
    BY PartsIs DEF ChainInv, StayInv, Preps, IInv, TypeInv, LiveSlots
<1>2. PICK l \in Nat : l = Len(bur[s].bs) /\ l + 1 \in 1 .. Len(PlanOf(s))
  <2>1. BurstIs(bur[s])
      BY DEF IInv, TypeInv
  <2>2. PlanOf(s) \in Seq(PlanEntry)
      BY <2>1, PlanOfIs
  <2>3. Len(PlanOf(s)) \in Nat /\ Len(bur[s].bs) \in Nat
      BY <2>1, <2>2 DEF BurstIs
  <2> QED
      BY <2>3
<1>3. p \in Nat /\ 8 * (bur[s].group - 1) < p /\ p < bur[s].pic
    BY <1>2, BOfIs, Zenon DEF NextB
<1>4. d \in Used /\ dpb[d].pic < p /\ \A x \in Used : ~(dpb[x].pic < p /\ dpb[x].pic > dpb[d].pic)
    BY <1>1, PastIs
<1>5. /\ \A x \in LiveSlots : bur[x].live /\ x \in Slots
      /\ \A x \in Slots : Ago(x) \in Nat
      /\ s = slot /\ Ago(s) = 0 /\ Ago(t) # 0 /\ cfg.wide
  <2>1. s = slot /\ cfg.wide
      BY <1>1 DEF Preps
  <2>2. Ago(s) = 0 /\ Ago(t) # 0 /\ \A x \in Slots : Ago(x) \in Nat
      BY <1>1, <2>1, AgoIs, CfgIs
  <2> QED
      BY <2>1, <2>2 DEF LiveSlots
\* The reference B lies before its own anchor.
<1>6. dpb[d].pic < bur[t].pic /\ dpb[d].pic \in Nat /\ bur[t].pic \in Nat
        /\ bur[t].pic <= 8 * (bur[s].group - 1)
  <2>1. PICK j \in Marked(t) : bur[t].bs[j].pic = dpb[d].pic
      BY DEF OwnRef
  <2>2. PICK n \in 0 .. 7 : n = bur[t].nbuf
      BY <1>1, ZenonT(30) DEF IInv, TypeInv, BurstIs
  <2>3. PICK q : q = Plan[0][n]
      OBVIOUS
  <2>4. PlanOf(t) = q /\ q \in Seq(PlanEntry) /\ Len(q) = n /\ \A i \in 1 .. n : q[i].m \in 0 .. n - 1
      BY <2>2, <2>3, PlanSeq, PlanTable, Zenon DEF PlanOf, PlanFits
  <2>5. Len(bur[t].bs) \in Nat /\ j \in 1 .. Len(bur[t].bs) /\ Len(bur[t].bs) <= n
      BY <1>1, <2>1, <2>4 DEF Marked, ChainOf, IInv, TypeInv, BurstIs
  <2>6. j \in 1 .. n
      BY <2>2, <2>5
  <2>7. PICK m \in 0 .. n - 1 : m = q[j].m
      BY <2>4, <2>6
  <2>8. bur[t].pic = 8 * bur[t].group /\ bur[t].group \in Nat /\ bur[t].group >= 1
    <3>1. Ago(t) < seq /\ bur[t].seq = seq - Ago(t)
        BY <1>1, <1>5 DEF PlaceInv
    <3>2. bur[t].seq > 0
        BY <1>1, <1>5, <3>1
    <3>3. bur[t].group \in Nat
        BY <1>1, Zenon DEF IInv, TypeInv, BurstIs
    <3> QED
        BY <1>1, <3>2, <3>3 DEF ChainOf, AnchorOf
  <2>9. PICK k \in Nat : k = bur[t].group /\ k >= 1
      BY <2>8
  <2>10. dpb[d].pic = BOf(bur[t].group, bur[t].nbuf, q[j].m)
      BY <1>1, <2>1, <2>4, <2>5, Zenon DEF ChainOf
  <2>11. dpb[d].pic = 8 * k - n + m
      BY <2>2, <2>7, <2>9, <2>10 DEF BOf
  <2>12. PICK z \in Int : z = 8 * k - n + m
    <3>1. k \in Int /\ n \in Int /\ m \in Int
        BY <2>2, <2>7, <2>9
    <3>2. 8 * k - n + m \in Int
        BY <3>1
    <3> QED
        BY <3>2
  <2>13. n >= 1
      BY <2>2, <2>6
  <2>14. z \in Nat /\ z < 8 * k
      BY <2>2, <2>7, <2>9, <2>12, <2>13, BetweenAnchors, Zenon
  <2>15. bur[t].pic = 8 * k /\ bur[t].pic \in Nat /\ bur[t].pic <= 8 * (bur[s].group - 1)
      BY <2>8, <2>9, Zenon DEF Preps
  <2> QED
      BY <2>11, <2>12, <2>14, <2>15
<1>7. \A j \in Marked(s) : ~(bur[s].bs[j].pic < p)
  <2>1. SUFFICES ASSUME NEW j \in Marked(s), bur[s].bs[j].pic < p PROVE FALSE
      OBVIOUS
  <2>2. PICK q : q = bur[s].bs[j].pic
      OBVIOUS
  <2>3. PICK x \in Used : dpb[x].pic = q
      BY <1>1, <2>2 DEF StaysOf, Among
  <2>4. j \in 1 .. Len(PlanOf(s)) /\ q = BOf(bur[s].group, bur[s].nbuf, PlanOf(s)[j].m)
    <3>1. j \in 1 .. l /\ Len(bur[s].bs) <= Len(PlanOf(s))
        BY <1>1, <1>2 DEF Marked, ChainOf
    <3>2. j \in 1 .. Len(PlanOf(s))
      <4>1. PICK k : k = Len(PlanOf(s))
          OBVIOUS
      <4>2. k \in Nat
        <5>1. BurstIs(bur[s])
            BY DEF IInv, TypeInv
        <5>2. PlanOf(s) \in Seq(PlanEntry)
            BY <5>1, PlanOfIs
        <5> QED
            BY <4>1, <5>2
      <4> QED
          BY <1>2, <3>1, <4>1, <4>2
    <3> QED
        BY <1>1, <1>2, <2>2, <3>1, <3>2 DEF ChainOf
  <2>5. q \in Nat /\ 8 * (bur[s].group - 1) < q
      BY <2>4, BOfIs
  <2>6. bur[s].group \in Nat
      BY DEF Preps
  <2>7. q > dpb[d].pic
    <3>1. \A a, b, c, g \in Nat : a <= 8 * (g - 1) /\ 8 * (g - 1) < b => b > a
        OBVIOUS
    <3> QED
        BY <1>6, <2>5, <2>6, <3>1
  <2> QED
      BY <1>4, <2>1, <2>2, <2>3, <2>7
<1>8. PICK u \in Slots : Ago(u) = 1
  <2>1. IF slot = 0 THEN cfg.ring - 1 \in Slots /\ Ago(cfg.ring - 1) = 1
                    ELSE slot - 1 \in Slots /\ Ago(slot - 1) = 1
      BY <1>1, CfgIs DEF Slots, Ago
  <2> QED
      BY <2>1
<1>9. u # s /\ bur[u].live /\ u \in LiveSlots
  <2>1. Ago(u) < Ago(t) \/ u = t
    <3>1. Ago(u) # Ago(t) \/ u = t
        BY <1>1, <1>8, AgoIs
    <3> QED
        BY <1>1, <1>5, <1>8, <3>1
  <2>2. bur[u].live
      BY <1>1, <1>8, <2>1 DEF PlaceInv
  <2> QED
      BY <1>5, <1>8, <2>2 DEF LiveSlots
<1>10. bur[t].pic <= bur[u].pic /\ bur[u].pic \in Nat /\ bur[u].pic <= 8 * (bur[s].group - 1)
  <2>1. bur[u].pic \in Nat /\ bur[u].pic <= 8 * (bur[s].group - 1)
      BY <1>9 DEF Preps
  <2>2. CASE u = t
      BY <1>6, <2>1, <2>2
  <2>3. CASE u # t
    <3>1. Ago(u) < Ago(t)
      <4>1. Ago(u) # Ago(t)
          BY <1>1, <1>8, <2>3, AgoIs
      <4> QED
          BY <1>1, <1>5, <1>8, <4>1
    <3>2. bur[u].seq > 0 /\ bur[t].seq > 0
      <4>1. /\ Ago(u) < seq /\ bur[u].seq = seq - Ago(u)
            /\ Ago(t) < seq /\ bur[t].seq = seq - Ago(t)
          BY <1>1, <1>5, <1>9 DEF PlaceInv
      <4> QED
          BY <1>1, <1>5, <4>1
    <3>3. bur[t].group < bur[u].group
        BY <1>1, <3>1, <3>2 DEF OrderInv
    <3>4. bur[t].group \in Nat /\ bur[u].group \in Nat
        BY <1>1, Zenon DEF IInv, TypeInv, BurstIs
    <3>5. bur[t].pic = 8 * bur[t].group /\ bur[u].pic = 8 * bur[u].group
        BY <1>1, <3>2 DEF ChainInv, ChainOf, AnchorOf
    <3> QED
        BY <2>1, <3>3, <3>4, <3>5
  <2> QED
      BY <2>2, <2>3
<1>11. PICK x \in Used : dpb[x].pic = bur[u].pic
  <2>1. Len(bur[s].bs) + 1 <= Len(PlanOf(s))
      OBVIOUS
  <2> QED
      BY <1>5, <1>7, <1>8, <1>9, <2>1, PrevAnchorStays
<1>12. bur[u].pic < p /\ bur[u].pic > dpb[d].pic
  <2>1. bur[s].group \in Nat
      BY DEF Preps
  <2> QED
      BY <1>3, <1>6, <1>10, <2>1
<1> QED
    BY <1>4, <1>11, <1>12

LEMMA PastReads ==
    ASSUME IInv, RInv, NEW s \in Slots, Preps(s), Len(bur[s].bs) + 1 <= Len(PlanOf(s)), Sound,
           NEW p, p = BOf(bur[s].group, bur[s].nbuf, NextB(s).m), NEW d \in Past(p)
    PROVE  NewRefOk(s, p, dpb[d].pic)
<1>1. WindowInv /\ MemberInv /\ LaunchInv /\ ChainOf(s) /\ cfg \in Settings
    BY PartsIs DEF ChainInv, IInv, TypeInv
<1>2. /\ p \in Nat /\ 8 * (bur[s].group - 1) < p /\ p < bur[s].pic
      /\ \A i \in 1 .. Len(bur[s].bs) : i \in 1 .. Len(PlanOf(s))
  <2>1. BurstIs(bur[s])
      BY DEF IInv, TypeInv
  <2>2. PlanOf(s) \in Seq(PlanEntry)
      BY <2>1, PlanOfIs
  <2>3. PICK k \in Nat, l \in Nat : k = Len(PlanOf(s)) /\ l = Len(bur[s].bs)
      BY <2>1, <2>2 DEF BurstIs
  <2>4. l + 1 \in 1 .. k /\ 1 .. l \subseteq 1 .. k
      BY <2>3
  <2> QED
      BY <2>3, <2>4, BOfIs, Zenon DEF NextB
<1>3. d \in Used /\ dpb[d].pic < p
    BY <1>1, PastIs
<1>4. PICK q : q = dpb[d].pic
    OBVIOUS
<1>5. q \in Nat /\ q # bur[s].pic
  <2>1. q \in Nat /\ q < p /\ bur[s].pic \in Nat
      BY <1>3, <1>4, OwnAfter DEF Preps
  <2> QED
      BY <1>2, <2>1
<1>6. CASE q \in final
    BY <1>4, <1>6 DEF NewRefOk
<1>7. CASE OwnRef(s, q)
  <2>1. PICK j \in Marked(s) : bur[s].bs[j].pic = q
      BY <1>7 DEF OwnRef
  <2>2. ASSUME Bdepth(s) PROVE \E y \in GatesOf(s, p) : y.kind = "R"
    <3>1. q = RefB(s)
        BY <1>1, <2>1, <2>2, MarkedIs
    <3>2. j \in 1 .. Len(PlanOf(s)) /\ q = BOf(bur[s].group, bur[s].nbuf, PlanOf(s)[j].m)
        BY <1>1, <1>2, <2>1, Zenon DEF Marked, ChainOf
    <3>3. RefB(s) > 8 * (bur[s].group - 1)
      <4>1. q \in Nat /\ 8 * (bur[s].group - 1) < q /\ bur[s].group \in Nat
          BY <3>2, BOfIs, Zenon DEF Preps
      <4> QED
          BY <3>1, <4>1
    <3> QED
        BY <1>2, <1>4, <2>1, <2>2, <3>3, PastStreams
  <2> QED
      BY <1>4, <2>1, <2>2 DEF NewRefOk
<1>8. ASSUME NEW t \in LiveSlots, t # s, OwnPic(t, q) PROVE NewRefOk(s, p, q)
  <2>1. CASE q = bur[t].pic
      BY <1>8, <2>1 DEF Preps, NewRefOk
  <2>2. CASE OwnRef(t, q) /\ cfg.ref = 1
      BY <1>4, <1>8, <2>2, PastSingle
  <2>3. CASE OwnRef(t, q) /\ cfg.ref > 1
    <3>1. PICK i \in Marked(t) : bur[t].bs[i].pic = q
        BY <2>3 DEF OwnRef
    <3>2. Ago(s) < Ago(t) /\ s \in LiveSlots
        BY <1>8 DEF Preps
    <3> QED
        BY <1>1, <1>8, <2>3, <3>1, <3>2 DEF LaunchInv, NewRefOk
  <2>4. cfg.ref = 1 \/ cfg.ref > 1
      BY <1>1, CfgIs
  <2> QED
      BY <1>8, <2>1, <2>2, <2>3, <2>4 DEF OwnPic
<1> QED
    BY <1>1, <1>3, <1>4, <1>5, <1>6, <1>7, <1>8 DEF MemberInv, OwnPic

LEMMA BRefsRead ==
    ASSUME IInv, RInv, NEW s \in Slots, Preps(s), Len(bur[s].bs) + 1 <= Len(PlanOf(s)), Sound,
           NEW p, p = BOf(bur[s].group, bur[s].nbuf, NextB(s).m), NEW r \in BRefs(p)
    PROVE  NewRefOk(s, p, r.pic)
<1>1. PICK d : d \in Past(p) \cup {Future(p)} /\ r = Borrow(d)
    BY DEF BRefs
<1>2. r.pic = dpb[d].pic
    BY <1>1 DEF Borrow
<1>3. CASE d \in Past(p)
    BY <1>2, <1>3, PastReads
<1>4. CASE d = Future(p)
  <2>1. BurstIs(bur[s])
      BY DEF IInv, TypeInv
  <2>2. PlanOf(s) \in Seq(PlanEntry)
      BY <2>1, PlanOfIs
  <2>3. PICK k \in Nat, l \in Nat : k = Len(PlanOf(s)) /\ l = Len(bur[s].bs)
      BY <2>1, <2>2 DEF BurstIs
  <2>4. l + 1 \in 1 .. k
      BY <2>3
  <2>5. p \in Nat /\ 8 * (bur[s].group - 1) < p /\ p < bur[s].pic
      BY <2>3, <2>4, BOfIs, Zenon DEF NextB
  <2> QED
      BY <1>2, <1>4, <2>5, FutureReads
<1> QED
    BY <1>1, <1>3, <1>4

\* The burst e that a prepared picture x leaves in the slot s.
Prepares(s, e, x) ==
  /\ bur'[s] = e /\ (\A t \in Slots : t # s => bur'[t] = bur[t]) /\ Same(e, bur[s])
  /\ e.live = bur[s].live /\ e.anchor = bur[s].anchor /\ e.phase = "prep"
  /\ e.coded = bur[s].coded /\ e.refbDone = bur[s].refbDone /\ e.refb = bur[s].refb
  /\ e.fired = bur[s].fired /\ e.err = bur[s].err /\ e.col = ColOf(x.pic)
  /\ Len(bur[s].bs) \in Nat /\ Len(PlanOf(s)) \in Nat /\ Len(bur[s].bs) + 1 <= Len(PlanOf(s))
  /\ Len(e.bs) = Len(bur[s].bs) + 1 /\ e.bs[Len(bur[s].bs) + 1] = x
  /\ \A i \in 1 .. Len(bur[s].bs) : e.bs[i] = bur[s].bs[i]
  /\ x.pic = BOf(bur[s].group, bur[s].nbuf, NextB(s).m) /\ x.ref = NextB(s).ref /\ x.ref \in BOOLEAN
  /\ x.refs = BRefs(x.pic) /\ x.gates = GatesOf(s, x.pic)
  /\ UNCHANGED <<cfg, api, group, nbuf, slot, seq, prepped, prog, last, final>>
  /\ Slots' = Slots /\ LiveSlots' = LiveSlots /\ \A t \in Slots : Ago(t)' = Ago(t)

LEMMA PreparesIs ==
    ASSUME IInv, RInv, NEW s \in Slots, PrepareB(s)
    PROVE  /\ Preps(s)
           /\ \E e, x : /\ Prepares(s, e, x)
                        /\ IF x.ref THEN Enters(x.pic) ELSE dpb' = dpb /\ nextFn' = nextFn
<1>1. TypeInv /\ BurstIs(bur[s])
    BY DEF IInv, TypeInv
<1>2. PICK e, x : /\ Becomes(s, e)
                  /\ e.live = bur[s].live /\ e.anchor = bur[s].anchor /\ e.phase = bur[s].phase
                  /\ e.coded = bur[s].coded /\ e.refbDone = bur[s].refbDone
                  /\ e.refb = bur[s].refb /\ e.fired = bur[s].fired /\ e.err = bur[s].err
                  /\ e.bs = Append(bur[s].bs, x)
                  /\ x.pic = BOf(bur[s].group, bur[s].nbuf, NextB(s).m)
                  /\ x.ref = NextB(s).ref /\ x.refs = BRefs(x.pic)
                  /\ x.gates = GatesOf(s, x.pic)
                  /\ e.col = ColOf(x.pic)
    BY <1>1, PrepareBOf
<1>3. /\ bur[s].phase = "prep" /\ Len(bur[s].bs) + 1 <= Len(PlanOf(s))
      /\ UNCHANGED <<cfg, api, group, nbuf, slot, seq, prepped, prog, last, final>>
    BY DEF PrepareB
<1>4. Preps(s)
    BY <1>3, PrepIs
<1>5. bur'[s] = e /\ (\A t \in Slots : t # s => bur'[t] = bur[t]) /\ Same(e, bur[s])
    BY <1>1, <1>2, BecomesIs
<1>6. PICK q, l : q = bur[s].bs /\ l = Len(q)
    BY Zenon
<1>7. l \in Nat /\ q = [i \in 1 .. l |-> q[i]]
    BY <1>1, <1>6 DEF BurstIs
<1>8. Len(e.bs) = l + 1 /\ e.bs[l + 1] = x /\ \A i \in 1 .. l : e.bs[i] = q[i]
    BY <1>2, <1>6, <1>7, AppendIs
<1>9. PlanOf(s) \in Seq(PlanEntry)
    BY <1>1, PlanOfIs
<1>10. PICK pl, k : pl = PlanOf(s) /\ k = Len(pl) /\ k \in Nat
  <2>1. PICK pl : pl = PlanOf(s)
      OBVIOUS
  <2>2. Len(pl) \in Nat
      BY <1>9, <2>1
  <2> QED
      BY <2>1, <2>2
<1>11. l + 1 \in 1 .. k
    BY <1>3, <1>6, <1>7, <1>10
<1>12. x.ref \in BOOLEAN
  <2>1. pl[l + 1] \in PlanEntry
      BY <1>9, <1>10, <1>11
  <2> QED
      BY <1>2, <1>6, <1>10, <2>1 DEF NextB, PlanEntry
<1>13. Slots' = Slots /\ LiveSlots' = LiveSlots /\ \A t \in Slots : Ago(t)' = Ago(t)
  <2>1. Slots' = Slots /\ \A t \in Slots : Ago(t)' = Ago(t)
      BY <1>3 DEF Slots, Ago
  <2>2. \A t \in Slots : bur'[t].live = bur[t].live
      BY <1>2, <1>5
  <2> QED
      BY <2>1, <2>2 DEF LiveSlots
<1>14. Prepares(s, e, x)
  <2>1. /\ Len(bur[s].bs) \in Nat /\ Len(PlanOf(s)) \in Nat
        /\ Len(e.bs) = Len(bur[s].bs) + 1 /\ e.bs[Len(bur[s].bs) + 1] = x
        /\ \A i \in 1 .. Len(bur[s].bs) : e.bs[i] = bur[s].bs[i]
      BY <1>6, <1>7, <1>8, <1>10, Zenon
  <2> QED
      BY <1>2, <1>3, <1>5, <1>12, <1>13, <2>1 DEF Prepares
<1>15. x.pic \in Nat
    BY <1>2, <1>4, <1>6, <1>10, <1>11, BOfIs, Zenon DEF NextB
<1>16. IF x.ref THEN Enters(x.pic) ELSE dpb' = dpb /\ nextFn' = nextFn
  <2>1. CASE x.ref
    <3>1. \E plane : Enter(x.pic, plane, bur[s].seq)
        BY <1>2, <2>1, ZenonT(30) DEF PrepareB, NextB
    <3> QED
        BY <1>15, <2>1, <3>1, EnterIs, PartsIs
  <2>2. CASE ~x.ref
      BY <1>2, <2>2 DEF PrepareB, NextB
  <2> QED
      BY <2>1, <2>2
<1> QED
    BY <1>4, <1>14, <1>16

\* What the burst had prepared stays, and a reference joins what is its own.
LEMMA PrepFacts ==
    ASSUME IInv, RInv, NEW s \in Slots, Preps(s), NEW e, NEW x, Prepares(s, e, x)
    PROVE  /\ \A t \in Slots : t # s => Marked(t)' = Marked(t) /\ Count(t)' = Count(t)
           /\ Marked(s)' = Marked(s) \cup (IF x.ref THEN {Len(bur[s].bs) + 1} ELSE {})
           /\ Count(s)' = Count(s) + (IF x.ref THEN 1 ELSE 0) /\ Count(s) \in Nat
           /\ \A t \in Slots : \A i \in Marked(t) : i \in Marked(t)' /\ bur'[t].bs[i].pic = bur[t].bs[i].pic
           /\ \A t \in Slots : \A q : OwnPic(t, q) => OwnPic(t, q)'
           /\ \A i \in 1 .. Len(bur[s].bs) : \A r : BRefOk(s, i, r) => BRefOk(s, i, r)'
           /\ (Sound' <=> Sound) /\ (x.ref => OwnPic(s, x.pic)')
           /\ x.pic \in Nat /\ 8 * (bur[s].group - 1) < x.pic /\ x.pic < bur[s].pic
<1>1. /\ bur'[s] = e /\ (\A t \in Slots : t # s => bur'[t] = bur[t]) /\ Same(e, bur[s])
      /\ e.err = bur[s].err /\ cfg' = cfg /\ final' = final /\ Slots' = Slots
      /\ x.ref \in BOOLEAN
    BY DEF Prepares
<1>2. PICK l \in Nat : l = Len(bur[s].bs)
    BY DEF Prepares
<1>3. /\ Len(e.bs) = l + 1 /\ e.bs[l + 1] = x /\ (\A i \in 1 .. l : e.bs[i] = bur[s].bs[i])
      /\ PlanOf(s)[l + 1] = NextB(s) /\ l + 1 \in 1 .. Len(PlanOf(s))
    BY <1>2 DEF Prepares, NextB
<1>4. \A t \in Slots : t # s => Marked(t)' = Marked(t) /\ Count(t)' = Count(t)
    BY <1>1, Zenon DEF Marked, Count
<1>5. Marked(s) = {i \in 1 .. l : bur[s].bs[i].ref} /\ Marked(s)' = {i \in 1 .. l + 1 : e.bs[i].ref}
    BY <1>1, <1>2, <1>3 DEF Marked
<1>6. Marked(s)' = Marked(s) \cup (IF x.ref THEN {l + 1} ELSE {})
    BY <1>3, <1>5
<1>7. IsFiniteSet(Marked(s)) /\ Count(s) \in Nat /\ l + 1 \notin Marked(s)
  <2>1. l + 1 \notin 1 .. l
      BY <1>2
  <2> QED
      BY <1>5, <2>1, MarkedIs, PartsIs, Zenon DEF ChainInv
<1>8. Count(s)' = Count(s) + (IF x.ref THEN 1 ELSE 0)
  <2>1. CASE x.ref
    <3>1. Marked(s)' = Marked(s) \cup {l + 1}
        BY <1>6, <2>1
    <3>2. Cardinality(Marked(s) \cup {l + 1}) = Cardinality(Marked(s)) + 1
        BY <1>7, FS_AddElement, Zenon
    <3> QED
        BY <2>1, <3>1, <3>2 DEF Count
  <2>2. CASE ~x.ref
    <3>1. Marked(s)' = Marked(s)
        BY <1>6, <2>2
    <3> QED
        BY <1>7, <2>2, <3>1 DEF Count
  <2> QED
      BY <1>1, <2>1, <2>2
<1>9. \A t \in Slots : \A i \in Marked(t) : i \in Marked(t)' /\ bur'[t].bs[i].pic = bur[t].bs[i].pic
  <2>1. \A i \in Marked(s) : i \in Marked(s)' /\ e.bs[i] = bur[s].bs[i]
      BY <1>3, <1>5, <1>6
  <2> QED
      BY <1>1, <1>4, <2>1
<1>10. \A t \in Slots : bur'[t].pic = bur[t].pic /\ bur'[t].gates = bur[t].gates
    BY <1>1 DEF Same
<1>11. \A t \in Slots : \A q : OwnPic(t, q) => OwnPic(t, q)'
    BY <1>9, <1>10 DEF OwnPic, OwnRef
<1>12. Bdepth(s)' = Bdepth(s)
    BY <1>1, FixedIs
<1>13. ASSUME NEW i \in 1 .. l, NEW r, BRefOk(s, i, r) PROVE BRefOk(s, i, r)'
  <2>1. bur'[s].bs[i] = bur[s].bs[i]
      BY <1>1, <1>3
  <2> QED
      BY <1>1, <1>9, <1>10, <1>12, <1>13, <2>1 DEF BRefOk, GatedRefB
<1>14. Sound' <=> Sound
    BY <1>1 DEF Sound
<1>15. x.ref => OwnPic(s, x.pic)'
  <2>1. x.ref => l + 1 \in Marked(s)' /\ bur'[s].bs[l + 1] = x
      BY <1>1, <1>3, <1>6
  <2> QED
      BY <2>1 DEF OwnPic, OwnRef
<1>16. x.pic \in Nat /\ 8 * (bur[s].group - 1) < x.pic /\ x.pic < bur[s].pic
  <2>1. x.pic = BOf(bur[s].group, bur[s].nbuf, PlanOf(s)[l + 1].m)
      BY <1>3 DEF Prepares
  <2> QED
      BY <1>3, <2>1, BOfIs
<1> QED
    BY <1>2, <1>4, <1>6, <1>7, <1>8, <1>9, <1>11, <1>13, <1>14, <1>15, <1>16

LEMMA PrepChains ==
    ASSUME IInv, RInv, NEW s \in Slots, Preps(s), NEW e, NEW x, Prepares(s, e, x)
    PROVE  ChainInv' /\ OrderInv'
<1>1. /\ bur'[s] = e /\ (\A t \in Slots : t # s => bur'[t] = bur[t]) /\ Same(e, bur[s])
      /\ UNCHANGED <<cfg, api, group, nbuf, slot, seq, prepped, prog, last, final>>
      /\ Slots' = Slots /\ \A t \in Slots : Ago(t)' = Ago(t)
    BY DEF Prepares
<1>2. ChainInv /\ ChainOf(s) /\ OrderInv
    BY PartsIs DEF ChainInv
<1>3. ASSUME NEW t \in Slots, t # s PROVE ChainOf(t)'
    BY <1>1, <1>2, <1>3, ChainKept DEF ChainInv
<1>4. PlanOf(s)' = PlanOf(s) /\ Bdepth(s)' = Bdepth(s)
    BY <1>1, FixedIs
<1>5. PICK l \in Nat : l = Len(bur[s].bs)
    BY DEF Prepares
<1>6. /\ Len(e.bs) = l + 1 /\ l + 1 <= Len(PlanOf(s)) /\ e.coded = 0 /\ e.refb = "none"
      /\ e.phase = "prep" /\ ~e.err /\ e.refbDone = bur[s].refbDone /\ e.anchor = bur[s].anchor
    BY <1>5 DEF Prepares, Preps
<1>7. bur[s].refbDone <= 0 /\ bur[s].refbDone \in Nat
  <2>1. Landed(s) = {}
      BY DEF Landed, Preps
  <2> QED
      BY <1>2, <2>1, FS_EmptySet DEF ChainOf, Preps
<1>8. Landed(s)' = {} /\ Cardinality(Landed(s)') = 0
  <2>1. Landed(s)' = {}
      BY <1>1, <1>6 DEF Landed
  <2> QED
      BY <2>1, FS_EmptySet
<1>9. ASSUME NEW i \in 1 .. l + 1
      PROVE  /\ e.bs[i].pic = BOf(e.group, e.nbuf, PlanOf(s)[i].m)
             /\ e.bs[i].ref = PlanOf(s)[i].ref
  <2>1. CASE i = l + 1
      BY <1>1, <1>5, <2>1 DEF Prepares, NextB, Same
  <2>2. CASE i \in 1 .. l
    <3>1. e.bs[i] = bur[s].bs[i]
        BY <1>5, <2>2 DEF Prepares
    <3> QED
        BY <1>1, <1>2, <1>5, <2>2, <3>1 DEF ChainOf, Same
  <2> QED
      BY <1>5, <2>1, <2>2
<1>10. 0 \in 0 .. Len(e.bs)
    BY <1>5, <1>6
<1>11. ChainOf(s)'
  <2>1. (e.seq > 0 => e.pic = AnchorOf(e.group) /\ e.group >= 1 /\ e.nbuf \in 1 .. cfg.bframes)
      BY <1>1, <1>2 DEF ChainOf, Same
  <2>2. (e.anchor = "done" /\ e.seq > 0 => e.pic \in final) /\ (prog[s].full => e.anchor = "done")
      BY <1>1, <1>2, <1>6 DEF ChainOf, Same
  <2> QED
      BY <1>1, <1>4, <1>6, <1>7, <1>8, <1>9, <1>10, <2>1, <2>2 DEF ChainOf
<1>12. ChainInv'
    BY <1>1, <1>3, <1>11 DEF ChainInv
<1>13. \A t \in Slots : /\ Same(bur'[t], bur[t]) /\ bur'[t].anchor = bur[t].anchor
                        /\ bur'[t].phase = bur[t].phase /\ bur'[t].fired = bur[t].fired
                        /\ bur'[t].live = bur[t].live
  <2>1. Same(e, bur[s]) /\ e.anchor = bur[s].anchor /\ e.phase = bur[s].phase
          /\ e.fired = bur[s].fired /\ e.live = bur[s].live
      BY DEF Prepares, Preps
  <2> QED
      BY <1>1, <2>1 DEF Same
<1>14. slot \in Slots
    BY DEF IInv, TypeInv
<1>15. OrderInv'
    BY <1>1, <1>2, <1>13, <1>14 DEF OrderInv, Same
<1> QED
    BY <1>12, <1>15

\* A burst with a reference B to prepare has not prepared all of its plan's.
LEMMA RoomIs ==
    ASSUME IInv, NEW s \in Slots, ChainOf(s), Len(bur[s].bs) + 1 <= Len(PlanOf(s)), NextB(s).ref
    PROVE  Count(s) + 1 <= RefBs(s)
<1>1. PICK b, p : b = bur[s] /\ p = PlanOf(s)
    OBVIOUS
<1>2. BurstIs(b) /\ p \in Seq(PlanEntry)
    BY <1>1, PlanOfIs DEF IInv, TypeInv
<1>3. /\ Len(b.bs) \in Nat /\ Len(p) \in Nat /\ DOMAIN p = 1 .. Len(p)
      /\ \A i \in 1 .. Len(b.bs) : b.bs[i].ref = p[i].ref
    BY <1>1, <1>2 DEF BurstIs, ChainOf
<1>4. PICK l \in Nat : l = Len(b.bs) /\ l + 1 \in 1 .. Len(p) /\ 1 .. l \subseteq 1 .. Len(p)
    BY <1>1, <1>3
<1>5. RefBs(s) = Cardinality(RefsOf(p))
    BY <1>1 DEF RefBs, NRefB, PlanOf, RefsOf
<1>6. IsFiniteSet(RefsOf(p)) /\ Cardinality(RefsOf(p)) \in Nat
  <2>1. RefsOf(p) \subseteq 1 .. Len(p) /\ IsFiniteSet(1 .. Len(p))
      BY <1>3, FS_Interval, 1 \in Int, Len(p) \in Int DEF RefsOf
  <2> QED
      BY <2>1, FS_Subset, FS_CardinalityType
<1>7. Marked(s) \subseteq RefsOf(p) /\ l + 1 \in RefsOf(p) /\ l + 1 \notin Marked(s)
  <2>1. l + 1 \notin 1 .. l
      BY <1>4
  <2>2. p[l + 1].ref
      BY <1>1, <1>4 DEF NextB
  <2> QED
      BY <1>1, <1>3, <1>4, <2>1, <2>2 DEF Marked, RefsOf
<1>8. IsFiniteSet(Marked(s)) /\ Count(s) \in Nat
    BY MarkedIs
<1>9. Cardinality(Marked(s) \cup {l + 1}) = Count(s) + 1
    BY <1>7, <1>8, FS_AddElement DEF Count
<1>10. Cardinality(Marked(s) \cup {l + 1}) <= Cardinality(RefsOf(p))
  <2>1. Marked(s) \cup {l + 1} \subseteq RefsOf(p)
      BY <1>7
  <2> QED
      BY <1>6, <2>1, FS_Subset
<1> QED
    BY <1>5, <1>9, <1>10

LEMMA PrepBuffer ==
    ASSUME IInv, RInv, NEW s \in Slots, Preps(s), NEW e, NEW x, Prepares(s, e, x),
           IF x.ref THEN Enters(x.pic) ELSE dpb' = dpb /\ nextFn' = nextFn
    PROVE  WindowInv' /\ MemberInv' /\ StayInv'
<1>1. /\ (\A t \in Slots : t # s => bur'[t] = bur[t]) /\ Same(bur'[s], bur[s])
      /\ UNCHANGED <<cfg, slot, last, final>>
      /\ Slots' = Slots /\ LiveSlots' = LiveSlots /\ \A t \in Slots : Ago(t)' = Ago(t)
    BY DEF Prepares
<1>2. /\ \A t \in Slots : t # s => Count(t)' = Count(t)
      /\ Marked(s)' = Marked(s) \cup (IF x.ref THEN {Len(bur[s].bs) + 1} ELSE {})
      /\ Count(s)' = Count(s) + (IF x.ref THEN 1 ELSE 0) /\ Count(s) \in Nat
      /\ \A i \in Marked(s) : i \in Marked(s)' /\ bur'[s].bs[i].pic = bur[s].bs[i].pic
      /\ \A t \in Slots : \A q : OwnPic(t, q) => OwnPic(t, q)'
      /\ (Sound' <=> Sound) /\ (x.ref => OwnPic(s, x.pic)')
      /\ x.pic \in Nat /\ 8 * (bur[s].group - 1) < x.pic /\ x.pic < bur[s].pic
    BY PrepFacts
<1>3. WindowInv /\ MemberInv /\ StayInv /\ OrderInv
    BY PartsIs
<1>4. last = bur[s].pic /\ last \in Nat /\ s = slot /\ s \in LiveSlots /\ x.ref \in BOOLEAN
    BY <1>3 DEF Preps, OrderInv, Prepares
<1>5. Window' = Window /\ DpbSize' = DpbSize
    BY <1>1 DEF Window, DpbSize
<1>6. WindowInv'
  <2>1. CASE x.ref
    <3>1. x.pic <= last' /\ last <= last' /\ last' \in Nat
        BY <1>1, <1>2, <1>4
    <3> QED
        BY <1>1, <1>2, <1>3, <1>4, <2>1, <3>1, EntersWindow
  <2>2. CASE ~x.ref
    <3>1. Used' = Used /\ dpb' = dpb /\ nextFn' = nextFn
        BY <2>2 DEF Used
    <3> QED
        BY <1>1, <1>3, <1>5, <3>1 DEF WindowInv, EntryIs
  <2> QED
      BY <1>4, <2>1, <2>2
<1>7. \A d \in Used' : (x.ref /\ dpb'[d].pic = x.pic) \/ (d \in Used /\ dpb'[d].pic = dpb[d].pic)
  <2>1. CASE x.ref
      BY <1>1, <2>1, EntersMembers
  <2>2. CASE ~x.ref
      BY <2>2 DEF Used
  <2> QED
      BY <1>4, <2>1, <2>2
<1>8. MemberInv'
  <2>1. ASSUME Sound', NEW d \in Used'
        PROVE  dpb'[d].pic \in final' \/ \E t \in LiveSlots' : OwnPic(t, dpb[d].pic)'
    <3>1. PICK q : q = dpb'[d].pic
        OBVIOUS
    <3>2. \A t \in LiveSlots : t \in Slots
        BY DEF LiveSlots
    <3>3. q \in final' \/ \E t \in LiveSlots' : OwnPic(t, q)'
      <4>1. CASE x.ref /\ q = x.pic
          BY <1>1, <1>2, <1>4, <4>1
      <4>2. CASE d \in Used /\ q = dpb[d].pic
          BY <1>1, <1>2, <1>3, <2>1, <3>2, <4>2 DEF MemberInv
      <4> QED
          BY <1>7, <3>1, <4>1, <4>2
    <3> QED
        BY <3>1, <3>3 DEF OwnPic
  <2>2. ASSUME NEW d \in Used'
        PROVE  dpb'[d].pic <= 8 * (bur'[s].group - 1) \/ OwnPic(s, dpb[d].pic)'
    <3>1. PICK q : q = dpb'[d].pic
        OBVIOUS
    <3>2. q <= 8 * (bur'[s].group - 1) \/ OwnPic(s, q)'
      <4>1. CASE x.ref /\ q = x.pic
          BY <1>2, <4>1
      <4>2. CASE d \in Used /\ q = dpb[d].pic
          BY <1>1, <1>2, <4>2, OwnAfter DEF Same
      <4> QED
          BY <1>7, <3>1, <4>1, <4>2
    <3> QED
        BY <3>1, <3>2 DEF OwnPic
  <2>3. \A q : OwnPic(s, q)' => OwnPic(slot, q)'
      BY <1>1, <1>4 DEF OwnPic, OwnRef, Marked
  <2>4. slot' = s
      BY <1>1, <1>4
  <2> QED
      BY <2>1, <2>2, <2>3, <2>4 DEF MemberInv
<1>9. StayInv'
  <2>0. StaysOf(s) /\ Window \in Nat
      BY <1>3, <1>4, UsedIs DEF StayInv
  <2>1. SUFFICES StaysOf(s)'
      BY <1>1, <1>4 DEF StayInv
  <2>2. PICK k \in Nat, c \in {0, 1} : k = Count(s) /\ c = (IF x.ref THEN 1 ELSE 0)
      BY <1>2
  <2>3. k + c + 2 <= Window
    <3>1. ChainOf(s) /\ Count(s) <= RefBs(s) /\ RefBs(s) \in Nat
        BY MarkedIs, RefBsIs, PartsIs DEF ChainInv
    <3>2. x.ref => Count(s) + 1 <= RefBs(s)
        BY <3>1, RoomIs DEF Prepares
    <3>3. k + c <= RefBs(s)
        BY <1>4, <2>2, <3>1, <3>2
    <3>5. PICK n \in 0 .. cfg.bframes : n = bur[s].nbuf
        BY CfgIs DEF Preps, IInv, TypeInv
    <3>6. NRefB(n) \in Nat /\ Window >= NRefB(n) + 2
        BY WindowIs DEF IInv, TypeInv
    <3>7. k + c <= NRefB(n) /\ k + c \in Nat
        BY <2>2, <3>3, <3>5 DEF RefBs
    <3> QED
        BY <2>0, <3>6, <3>7
  <2>4. \A q : \A n \in Nat : Among(q, n) /\ n + c <= Window => Among(q, n + c)'
    <3>1. CASE x.ref
        BY <1>1, <1>3, <2>2, <3>1, EntersAmong
    <3>2. CASE ~x.ref
      <4>1. Used' = Used /\ dpb' = dpb /\ nextFn' = nextFn
          BY <3>2 DEF Used
      <4>2. \A n \in Nat : n + c = n
          BY <2>2, <3>2
      <4> QED
          BY <4>1, <4>2 DEF Among
    <3> QED
        BY <1>4, <3>1, <3>2
  <2>5. Among(bur[s].pic, 1 + Count(s))'
    <3>1. PICK q, n : q = bur[s].pic /\ n = (1 + k) + c
        OBVIOUS
    <3>2. Among(q, 1 + k) /\ 1 + k \in Nat /\ (1 + k) + c <= Window
        BY <2>0, <2>2, <2>3, <3>1 DEF StaysOf
    <3>3. Among(q, n)'
        BY <2>4, <3>1, <3>2
    <3>4. bur'[s].pic = q /\ (1 + Count(s))' = n
        BY <1>1, <1>2, <2>2, <3>1 DEF Same
    <3> QED
        BY <3>3, <3>4 DEF Among
  <2>6. ASSUME NEW i \in Marked(s)' PROVE Among(bur[s].bs[i].pic, Count(s))'
    <3>1. PICK q, n : q = bur'[s].bs[i].pic /\ n = k + c /\ Count(s)' = n
        BY <1>2, <2>2
    <3>2. Among(q, n)'
      <4>1. CASE i \in Marked(s)
        <5>1. Among(q, k) /\ k + c <= Window
            BY <1>2, <2>0, <2>2, <2>3, <3>1, <4>1 DEF StaysOf
        <5> QED
            BY <2>2, <2>4, <3>1, <5>1
      <4>2. CASE i \notin Marked(s)
        <5>1. x.ref /\ i = Len(bur[s].bs) + 1
            BY <1>2, <2>6, <4>2
        <5>2. q = x.pic
            BY <3>1, <5>1 DEF Prepares
        <5>3. n \in Nat /\ n >= 1
            BY <2>2, <3>1, <5>1
        <5> QED
            BY <1>1, <1>3, <5>1, <5>2, <5>3, EntersAmong
      <4> QED
          BY <4>1, <4>2
    <3> QED
        BY <3>1, <3>2 DEF Among
  <2>7. ASSUME NEW t \in Slots, Ago(t)' = 1, bur'[t].live, (2 + Count(t) + Count(s) <= Window)'
        PROVE  Among(bur[t].pic, 2 + Count(t) + Count(s))'
    <3>1. Ago(t) = 1 /\ t # s
      <4>1. Ago(t) = 1 /\ Ago(s) = 0
          BY <1>1, <1>4, <2>7, AgoIs DEF IInv, TypeInv
      <4> QED
          BY <4>1
    <3>2. bur'[t] = bur[t] /\ Count(t)' = Count(t) /\ bur[t].live
        BY <1>1, <1>2, <2>7, <3>1
    <3>3. PICK h \in Nat : h = Count(t)
        BY MarkedIs, PartsIs DEF ChainInv
    <3>4. (2 + h + k) + c <= Window /\ 2 + h + k <= Window /\ 2 + h + k \in Nat
      <4>1. 2 + h + (k + c) <= Window
          BY <1>2, <1>5, <2>2, <2>7, <3>2, <3>3
      <4> QED
          BY <2>0, <2>2, <4>1
    <3>5. PICK q, n : q = bur[t].pic /\ n = (2 + h + k) + c
        OBVIOUS
    <3>6. Among(q, 2 + h + k)
        BY <2>0, <2>2, <3>1, <3>2, <3>3, <3>4, <3>5 DEF StaysOf
    <3>7. Among(q, n)'
        BY <2>4, <3>4, <3>5, <3>6
    <3>8. bur'[t].pic = q /\ (2 + Count(t) + Count(s))' = n
      <4>1. 2 + h + (k + c) = (2 + h + k) + c
          BY <2>2
      <4> QED
          BY <1>2, <2>2, <3>2, <3>3, <3>5, <4>1
    <3> QED
        BY <3>7, <3>8 DEF Among
  <2> QED
      BY <1>1, <2>5, <2>6, <2>7 DEF StaysOf
<1> QED
    BY <1>6, <1>8, <1>9

LEMMA PrepareBReads ==
    ASSUME IInv, RInv, NEW s \in Slots, PrepareB(s)
    PROVE  RInv'
<1>1. Preps(s)
    BY PreparesIs
<1>2. PICK e, x : /\ Prepares(s, e, x)
                  /\ IF x.ref THEN Enters(x.pic) ELSE dpb' = dpb /\ nextFn' = nextFn
    BY PreparesIs
<1>3. /\ (\A t \in Slots : t # s => bur'[t] = bur[t]) /\ bur'[s] = e
      /\ UNCHANGED <<cfg, api, group, nbuf, slot, seq, prepped, prog, last, final>>
      /\ Slots' = Slots /\ LiveSlots' = LiveSlots /\ \A t \in Slots : Ago(t)' = Ago(t)
    BY <1>2 DEF Prepares
<1>4. \A t \in Slots : /\ Same(bur'[t], bur[t]) /\ bur'[t].err = bur[t].err
                       /\ bur'[t].live = bur[t].live /\ bur'[t].fired = bur[t].fired
                       /\ bur'[t].anchor = bur[t].anchor /\ bur'[t].phase = bur[t].phase
  <2>1. /\ Same(e, bur[s]) /\ e.err = bur[s].err /\ e.live = bur[s].live
        /\ e.fired = bur[s].fired /\ e.anchor = bur[s].anchor /\ e.phase = bur[s].phase
      BY <1>1, <1>2 DEF Prepares, Preps
  <2> QED
      BY <1>3, <2>1 DEF Same
<1>5. /\ \A t \in Slots : t # s => Marked(t)' = Marked(t)
      /\ Marked(s)' = Marked(s) \cup (IF x.ref THEN {Len(bur[s].bs) + 1} ELSE {})
      /\ \A t \in Slots : \A q : OwnPic(t, q) => OwnPic(t, q)'
      /\ \A i \in 1 .. Len(bur[s].bs) : \A r : BRefOk(s, i, r) => BRefOk(s, i, r)'
      /\ (Sound' <=> Sound) /\ x.pic \in Nat /\ 8 * (bur[s].group - 1) < x.pic /\ x.pic < bur[s].pic
    BY <1>1, <1>2, PrepFacts
<1>6. /\ CallInv /\ ErrInv /\ LaunchInv /\ GateRInv /\ AnchorInv /\ PreppedInv /\ PlanInv /\ ApiInv
      /\ s = slot /\ s \in LiveSlots /\ ~bur[s].fired
    BY <1>1, PartsIs DEF Preps, IInv
<1>7. ChainInv' /\ OrderInv' /\ WindowInv' /\ MemberInv' /\ StayInv'
    BY <1>1, <1>2, PrepChains, PrepBuffer
<1>8. CallInv' /\ ErrInv'
    BY <1>3, <1>4, <1>6 DEF CallInv, ErrInv
<1>9. PreppedInv'
  <2>1. api # "begin"
      BY <1>6 DEF ApiInv, LiveSlots
  <2> QED
      BY <1>3, <2>1 DEF PreppedInv
<1>10. LaunchInv'
  <2>1. SUFFICES ASSUME Sound, cfg.ref > 1, NEW u \in LiveSlots, NEW t \in LiveSlots, Ago(u) < Ago(t),
                        NEW i \in Marked(t)'
                 PROVE  bur'[t].bs[i].pic \in final \/ GatedRefB(bur'[t].bs[i].pic, bur'[u].gates)
    <3>1. \A t \in LiveSlots : t \in Slots /\ Ago(t)' = Ago(t)
        BY <1>3 DEF LiveSlots
    <3> QED
        BY <1>3, <1>5, <3>1 DEF LaunchInv, GatedRefB
  <2>2. t # s /\ t \in Slots /\ u \in Slots
    <3>1. Ago(s) = 0 /\ Ago(u) \in Nat /\ Ago(t) \in Nat /\ t \in Slots /\ u \in Slots
        BY <1>6, AgoIs, CfgIs DEF IInv, TypeInv, LiveSlots
    <3> QED
        BY <2>1, <3>1
  <2>3. bur'[t] = bur[t] /\ i \in Marked(t) /\ bur'[u].gates = bur[u].gates
      BY <1>3, <1>4, <1>5, <2>1, <2>2 DEF Same
  <2> QED
      BY <1>6, <2>1, <2>3 DEF LaunchInv
<1>11. GateRInv'
  <2>1. SUFFICES ASSUME Sound, NEW u \in LiveSlots, NEW y \in bur[u].gates, y.kind = "R",
                        y.pic \notin final
                 PROVE  /\ y.slot \in Slots /\ bur'[u].rbOf = y.slot
                        /\ bur'[y.slot].seq = bur'[u].rbSeq
                        /\ HoldsRefB(y.slot, y.pic)' /\ bur'[u].phase \notin {"code", "ended"}
      BY <1>3, <1>4, <1>5 DEF GateRInv, Same, LiveSlots
  <2>2. /\ y.slot \in Slots /\ bur[u].rbOf = y.slot /\ bur[y.slot].seq = bur[u].rbSeq
        /\ HoldsRefB(y.slot, y.pic) /\ bur[u].phase \notin {"code", "ended"} /\ u \in Slots
      BY <1>6, <2>1 DEF GateRInv, LiveSlots
  <2>3. HoldsRefB(y.slot, y.pic)'
    <3>1. PICK f \in Slots : f = y.slot
        BY <2>2
    <3>2. HoldsRefB(f, y.pic)'
        BY <1>3, <1>4, <2>2, <3>1, FixedIs DEF HoldsRefB
    <3> QED
        BY <3>1, <3>2 DEF HoldsRefB
  <2> QED
      BY <1>4, <2>2, <2>3 DEF Same
<1>12. AnchorInv'
    BY <1>3, <1>4, <1>5, <1>6 DEF AnchorInv, FinalOrGated, Same, LiveSlots
<1>13. PICK l \in Nat : l = Len(bur[s].bs)
    BY <1>2 DEF Prepares
<1>14. Len(e.bs) = l + 1 /\ e.bs[l + 1] = x /\ \A i \in 1 .. l : e.bs[i] = bur[s].bs[i]
    BY <1>2, <1>13 DEF Prepares
<1>15. ASSUME Sound, NEW r \in x.refs PROVE BRefOk(s, l + 1, r)'
  <2>1. NewRefOk(s, x.pic, r.pic)
      BY <1>1, <1>2, <1>15, BRefsRead DEF Prepares
  <2>2. /\ bur'[s].bs[l + 1].gates = GatesOf(s, x.pic) /\ bur'[s].pic = bur[s].pic
        /\ bur'[s].gates = bur[s].gates /\ final' = final /\ Bdepth(s)' = Bdepth(s)
      BY <1>2, <1>3, <1>4, <1>14, FixedIs DEF Prepares, Same
  <2>3. \A j \in Marked(s) : j \in Marked(s)' /\ j < l + 1 /\ bur'[s].bs[j] = bur[s].bs[j]
      BY <1>3, <1>5, <1>13, <1>14 DEF Marked
  <2> QED
      BY <2>1, <2>2, <2>3 DEF NewRefOk, BRefOk, GatedRefB
<1>16. PlanInv'
  <2>1. ASSUME Sound, NEW t \in LiveSlots, NEW i \in 1 .. Len(bur'[t].bs), NEW r \in bur'[t].bs[i].refs
        PROVE  BRefOk(t, i, r)'
    <3>1. t \in Slots
        BY DEF LiveSlots
    <3>2. CASE t # s
      <4>1. bur'[t] = bur[t]
          BY <1>3, <3>1, <3>2
      <4>2. BRefOk(t, i, r)
          BY <1>6, <2>1, <4>1 DEF PlanInv
      <4> QED
          BY <1>3, <1>4, <3>1, <4>1, <4>2, PreparedKept
    <3>3. CASE t = s /\ i = l + 1
        BY <1>3, <1>14, <1>15, <2>1, <3>3
    <3>4. CASE t = s /\ i \in 1 .. l
        BY <1>3, <1>5, <1>6, <1>13, <1>14, <2>1, <3>4 DEF PlanInv
    <3>5. t = s => i = l + 1 \/ i \in 1 .. l
        BY <1>3, <1>13, <1>14, <2>1
    <3> QED
        BY <3>2, <3>3, <3>4, <3>5
  <2>2. ASSUME NEW c \in bur'[s].col PROVE OwnPic(s, c.pic)'
    <3>1. c = [Borrow(Future(x.pic)) EXCEPT !.plane = NoBuffer]
        BY <1>2, <1>3, <2>2 DEF Prepares, ColOf
    <3>2. c.pic = dpb[Future(x.pic)].pic
        BY <3>1 DEF Borrow
    <3>3. OwnPic(s, dpb[Future(x.pic)].pic)
        BY <1>1, <1>5, FutureIs
    <3>4. PICK q : q = c.pic
        OBVIOUS
    <3>5. OwnPic(s, q)'
        BY <1>5, <3>2, <3>3, <3>4
    <3> QED
        BY <3>4, <3>5
  <2>3. slot' = s /\ \A q : OwnPic(s, q)' => OwnPic(slot, q)'
      BY <1>3, <1>6 DEF OwnPic, OwnRef, Marked
  <2> QED
      BY <1>3, <1>5, <2>1, <2>2, <2>3 DEF PlanInv
<1> QED
    BY <1>7, <1>8, <1>9, <1>10, <1>11, <1>12, <1>16 DEF RInv

-----------------------------------------------------------------------------
(* The theorem of what is read.                                             *)

LEMMA ReadsInit ==
    ASSUME Init
    PROVE  RInv
<1>1. IInv
    BY InitHolds
<1>2. /\ cfg \in Settings /\ api = "idle" /\ group = 0 /\ slot = 0 /\ last = 0 /\ nextFn = 0
      /\ bur = [s \in Slots |-> Idle]
      /\ dpb = [d \in 1 .. DpbSize |->
                   [used |-> FALSE, pic |-> 0, fn |-> 0, plane |-> d, aux |-> d]]
    BY DEF Init
<1>3. PICK i : i = Idle
    OBVIOUS
<1>4. /\ i.seq = 0 /\ ~i.live /\ i.anchor = "done" /\ i.phase = "ended" /\ ~i.err
      /\ Len(i.bs) = 0 /\ i.coded = 0 /\ i.refbDone = 0 /\ i.refb = "none" /\ i.nbuf = 0
    BY <1>3 DEF Idle
<1>5. \A s \in Slots : bur[s] = i
    BY <1>2, <1>3
<1>6. LiveSlots = {}
    BY <1>4, <1>5 DEF LiveSlots
<1>7. ChainInv
  <2>1. SUFFICES ASSUME NEW s \in Slots PROVE ChainOf(s)
      BY DEF ChainInv
  <2>2. PlanOf(s) = Plan[0][0]
      BY <1>4, <1>5 DEF PlanOf
  <2>3. Len(PlanOf(s)) = 0
      BY <2>2, PlanNone
  <2>4. 0 \in 0 .. 0
      OBVIOUS
  <2> QED
      BY <1>4, <1>5, <2>3, <2>4 DEF ChainOf
<1>8. slot \in Slots
    BY <1>1 DEF IInv, TypeInv
<1>9. OrderInv
    BY <1>2, <1>4, <1>5, <1>8 DEF OrderInv
<1>10. CallInv /\ ErrInv /\ PreppedInv
    BY <1>2, <1>4, <1>5 DEF CallInv, ErrInv, PreppedInv
<1>11. Used = {}
    BY <1>2 DEF Used
<1>12. WindowInv
  <2>1. Cardinality(Used) = 0 /\ Window \in Nat
      BY <1>1, <1>11, FS_EmptySet, WindowTwo
  <2>2. \A d \in 1 .. DpbSize : EntryIs(dpb[d])
      BY <1>2 DEF EntryIs
  <2> QED
      BY <1>2, <1>11, <2>1, <2>2 DEF WindowInv
<1>13. MemberInv
    BY <1>4, <1>5, <1>8, <1>11 DEF MemberInv
<1>14. StayInv /\ LaunchInv /\ GateRInv /\ AnchorInv
    BY <1>6 DEF StayInv, LaunchInv, GateRInv, AnchorInv
<1>15. PlanInv
    BY <1>4, <1>5, <1>6, <1>8 DEF PlanInv
<1> QED
    BY <1>7, <1>9, <1>10, <1>12, <1>13, <1>14, <1>15 DEF RInv

LEMMA ReadsStep ==
    ASSUME IInv, RInv, [Next]_vars
    PROVE  RInv'
<1>1. CASE Api
  <2>1. CASE \E n \in 1 .. cfg.bframes : StartBurst(n)
      BY <2>1, CallReads
  <2>2. CASE StartSerial \/ Bill \/ Flush \/ Finish
      BY <2>2, CallReads
  <2>3. CASE Begin
      BY <1>1, <2>3, BeginReads, StepHolds
  <2> QED
      BY <1>1, <2>1, <2>2, <2>3, DrainOldestReads, SerialAnchorReads, PrepareReads, SubmitReads DEF Api
<1>2. ASSUME NEW s \in Slots, Chain(s) \/ Bail(s) \/ Anchor(s) \/ StreamRefB(s)
      PROVE  RInv'
    BY <1>2, WaitPrevReads, PrepareBReads, FireReads, WaitRefBReads, LaunchRefBReads, CodeBReads,
       EndReads, BailReads, AnalyzeReads, PublishReads, StreamRefBReads DEF Chain, Anchor
<1>3. CASE UNCHANGED vars
  <2>1. UNCHANGED <<cfg, api, group, nbuf, slot, seq, bur, prepped, prog, dpb, nextFn, last, final>>
      BY <1>3 DEF vars, marks, buffers
  <2>2. OrderInv /\ CallInv /\ ErrInv /\ PreppedInv
      BY PartsIs
  <2>3. CallInv' /\ ErrInv'
      BY <2>1, <2>2 DEF CallInv, ErrInv, Slots
  <2>4. PreppedInv'
    <3>1. Slots' = Slots /\ LiveSlots' = LiveSlots /\ (Sound' <=> Sound)
        BY <2>1 DEF Slots, LiveSlots, Sound
    <3>2. \A s : Marked(s)' = Marked(s) /\ \A p : HoldsRefB(s, p) => HoldsRefB(s, p)'
        BY <2>1 DEF Marked, HoldsRefB, Bdepth, RefB, RefBs, PlanOf
    <3>3. PICK g : g = slot
        OBVIOUS
    <3>4. \A p : HoldsRefB(slot, p) => HoldsRefB(slot, p)'
        BY <2>1, <3>2, <3>3 DEF HoldsRefB
    <3> QED
        BY <2>1, <2>2, <3>1, <3>2, <3>4 DEF PreppedInv, PreppedOk, FinalOrGated, GatedRefB
  <2> QED
      BY <2>1, <2>2, <2>3, <2>4, QuietKeeps DEF OrderInv
<1> QED
    BY <1>1, <1>2, <1>3 DEF Next

\* What a burst reads is read when it is whole or gated.
LEMMA ReadsHold ==
    ASSUME IInv, RInv
    PROVE  ReadsCovered
<1>1. SUFFICES ASSUME Sound, NEW s \in LiveSlots
               PROVE  /\ bur[s].anchor = "run" => \A r \in bur[s].refs : Covered(r, bur[s].gates)
                      /\ \A x \in Coding(s) : \A r \in x.refs : Covered(r, x.gates)
    BY DEF ReadsCovered
<1>2. /\ s \in Slots /\ ~bur[s].err /\ BurstOf(s) /\ ChainOf(s) /\ BurstIs(bur[s])
      /\ AnchorInv /\ PlanInv
    BY <1>1, PartsIs DEF IInv, TypeInv, BurstInv, ChainInv, Sound, LiveSlots
<1>3. /\ bur[s].anchor = "run" => \A x \in bur[s].gates : Mark(x).pic = x.pic
      /\ \A x \in Pending(s) : \A y \in x.gates : Mark(y).pic = y.pic
    BY <1>1, GatesAreOwn DEF GatesOwn
<1>4. ASSUME bur[s].anchor = "run", NEW r \in bur[s].refs PROVE Covered(r, bur[s].gates)
    BY <1>1, <1>2, <1>3, <1>4 DEF AnchorInv, FinalOrGated, Covered
<1>5. ASSUME NEW x \in Coding(s), NEW r \in x.refs PROVE Covered(r, x.gates)
  <2>1. PICK i \in DOMAIN bur[s].bs :
          /\ x = bur[s].bs[i] /\ bur[s].phase = "code"
          /\ \/ i = bur[s].coded + 1
             \/ i = bur[s].coded + 2 /\ ~bur[s].bs[i].ref /\ ~bur[s].bs[i - 1].ref
             \/ i = 1 /\ bur[s].refb = "run"
      BY <1>5 DEF Coding
  <2>2. PICK l \in Nat, k \in Nat : l = Len(bur[s].bs) /\ k = bur[s].coded /\ i \in 1 .. l
      BY <1>2, <2>1 DEF BurstIs, ChainOf
  <2>3. x \in Pending(s)
      BY <1>2, <2>1, <2>2 DEF Pending
  <2>4. \A y \in x.gates : Mark(y).pic = y.pic /\ OwnGate(s, y)
      BY <1>2, <1>3, <2>1, <2>2, <2>3 DEF BurstOf
  <2>5. BRefOk(s, i, r)
      BY <1>1, <1>2, <1>5, <2>1, <2>2 DEF PlanInv
  <2>6. CASE r.pic \in final
      BY <2>6 DEF Covered
  <2>7. CASE r.pic = bur[s].pic /\ \E y \in bur[s].bs[i].gates : y.kind = "P"
      BY <2>1, <2>4, <2>7 DEF Covered, OwnGate
  <2>8. ASSUME NEW j \in Marked(s), j < i, r.pic = bur[s].bs[j].pic,
               Bdepth(s) => \E y \in bur[s].bs[i].gates : y.kind = "R"
        PROVE  Covered(r, x.gates)
    <3>1. j \in 1 .. l /\ bur[s].bs[j].ref
        BY <2>2, <2>8 DEF Marked
    <3>2. j \in 1 .. k
      <4>1. i = k + 1 \/ (i = k + 2 /\ ~bur[s].bs[i - 1].ref) \/ i = 1
          BY <2>1, <2>2
      <4>2. CASE i = k + 2 /\ ~bur[s].bs[i - 1].ref
        <5>1. j # i - 1
            BY <3>1, <4>2
        <5> QED
            BY <2>2, <2>8, <3>1, <4>2, <5>1
      <4> QED
          BY <2>2, <2>8, <3>1, <4>1, <4>2
    <3>3. CASE bur[s].bs[j].pic \in final
        BY <2>8, <3>3 DEF Covered
    <3>4. CASE Streaming(s, j)
      <4>1. Bdepth(s)
          BY <1>2, <3>4 DEF Streaming, ChainOf
      <4>2. bur[s].bs[j].pic = RefB(s)
          BY <1>2, <2>8, <4>1, MarkedIs
      <4> QED
          BY <2>1, <2>4, <2>8, <4>1, <4>2 DEF OwnGate, Covered
    <3> QED
        BY <1>2, <2>2, <3>2, <3>3, <3>4 DEF ChainOf
  <2>9. CASE GatedRefB(r.pic, bur[s].gates)
      BY <1>1, <2>1, <2>9, CodingGates DEF GatedRefB, Covered
  <2> QED
      BY <2>5, <2>6, <2>7, <2>8, <2>9 DEF BRefOk
<1> QED
    BY <1>4, <1>5

\* What bursts and the buffer hold between the launch of a picture and the coding of
\* the last picture that reads it, for every setting.
THEOREM ReadsInvariant == Spec => [](IInv /\ RInv)
<1>1. Init => IInv /\ RInv
    BY InitHolds, ReadsInit
<1>2. IInv /\ RInv /\ [Next]_vars => IInv' /\ RInv'
    BY StepHolds, ReadsStep
<1> QED
    BY <1>1, <1>2, PTL DEF Spec

\* An anchor or a B picture that is being coded reads only pictures that are whole,
\* or whose own watermark its rows are gated on: no reference is left uncovered by
\* the waits of the launch and of the chain and by the two gates.
THEOREM RingReads == Spec => []ReadsCovered
<1>1. IInv /\ RInv => ReadsCovered
    BY ReadsHold
<1> QED
    BY <1>1, ReadsInvariant, PTL

=============================================================================
