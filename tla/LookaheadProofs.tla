--------------------------- MODULE LookaheadProofs ---------------------------
(***************************************************************************)
(* What is proved of the lookahead behind its own thread, for every length *)
(* of the encode, run of B pictures, window, lead and sequence of types:   *)
(* a picture is analysed from its own pixels (PlanesAreOwn), a popped one  *)
(* is final (PopIsFinal), what the walk and the prefetch read is settled   *)
(* (SettledWhenRead), and the prefetch moves no bits (PrefetchIsWalk).     *)
(***************************************************************************)
EXTENDS LookaheadRing, WellFoundedInduction, TLAPS

-----------------------------------------------------------------------------
(* The inductive invariant. *)

\* How far the chain is: the last picture analysed, typed, and with its legs.
An      == IF cpc \in {"finalize", "legs", "step"} THEN done + 1 ELSE done
Fin     == IF cpc \in {"legs", "step"} THEN done ELSE done - 1
Legged  == IF cpc = "step" THEN done ELSE done - 1
Running == cpc \in {"analyse", "finalize", "legs", "step"}

\* The last picture whose pixels are in the ring.
Padded == IF apc = "push" THEN pushed + 1 ELSE pushed

Popping == {"popwait", "popped"}
Walking == {"walk", "settle", "phaseA", "launch"}
PostPop == Popping \cup {"treewait", "join"} \cup Walking

EntryIs(e) == /\ e = [plane |-> e.plane, lowres |-> e.lowres, typed |-> e.typed,
                      legs |-> e.legs, memo |-> e.memo]
              /\ e.typed \in BOOLEAN /\ e.legs \in BOOLEAN

TypeInv ==
  /\ kind \in Kinds /\ mbtree \in BOOLEAN
  /\ ring = [i \in Slots |-> ring[i]] /\ \A i \in Slots : EntryIs(ring[i])
  /\ pushed \in Nat /\ done \in Nat /\ popped \in Nat
  /\ warm = [head |-> warm.head, pushed |-> warm.pushed, anchor |-> warm.anchor]
  /\ warm.head \in Nat /\ warm.pushed \in Nat

\* The ring is never fuller than it is wide, the chain no further behind than
\* that; what each wait has waited for.
CountInv ==
  /\ pushed <= N /\ done <= pushed /\ popped <= pushed
  /\ pushed < popped + LaCap /\ pushed <= done + LaCap
  /\ (apc \in {"padwait", "pad", "push"} => pushed < N)
  /\ (apc \in {"pad", "push"} => pushed + 1 <= done + LaCap)
  /\ (Running => done < pushed)
  /\ (cpc \in {"finalize", "legs"} => done > 0)
  /\ (cpc = "legs" => Links(done))
  /\ (apc = "popwait" => popped < pushed)
  /\ (apc = "popped" => done >= popped + BFrames + 2 \/ done = pushed)
  /\ (apc \in {"join"} \cup Walking => done >= TreeNeed \/ done = pushed)
  /\ (apc = "phaseA" => done >= TreeNeed + SettleExt \/ done = pushed)
  /\ (apc \in PostPop => popped > 0)

\* An entry that is not yet popped, or that the pop at hand has not yet read.
Kept(s)  == s > popped \/ (s = popped /\ apc \in Popping)
Entry(s) == ring[Slot(s)]
Held(s)  == An < s + LaCap /\ s <= An

\* The legs of s once the chain has done those of picture Legged.
LegsDone(s) ==
  IF IsAnchor(s) THEN Links(s) /\ s <= Legged
  ELSE NextAnchor(s) # None /\ Links(NextAnchor(s)) /\ NextAnchor(s) <= Legged

\* What the slots of the pictures in the ring hold.
RingInv ==
  \A s \in Frames :
    /\ (Padded < s + LaCap /\ s <= Padded => Entry(s).plane = s)
    /\ (Held(s) => /\ Entry(s).lowres = s
                   /\ (s <= Fin => Entry(s).typed)
                   /\ (Kept(s) /\ s > Fin => ~Entry(s).typed)
                   /\ (Kept(s) => Entry(s).legs = LegsDone(s)))

\* The legs of s when every anchor that predicts over it has been typed.
FinalLegs(s) ==
  IF IsAnchor(s) THEN Links(s) ELSE NextAnchor(s) # None /\ Links(NextAnchor(s))

\* Every walk to come will find s settled.
Reached(s) ==
  \/ s + 4 + BFrames <= popped + LaDepth
  \/ wpc = "done" /\ warm.anchor # None /\ s + 4 + BFrames <= warm.anchor + LaDepth

\* A memo is the picture's own; one of the prefetch is of final legs.
MemoIs(s, m) ==
  /\ m = [of |-> s, key |-> m.key, by |-> m.by, reused |-> m.reused]
  /\ (m.by = "warm" /\ s > popped =>
        m.reused = FinalLegs(s) /\ s + BFrames < done /\ Reached(s))
MemoInv ==
  \A s \in Frames :
    pushed < s + LaCap /\ s <= pushed /\ Entry(s).memo # NoMemo => MemoIs(s, Entry(s).memo)

\* The prefetch is for the first anchor behind the last one walked: no pop gets
\* past it before the join.
WarmInv ==
  /\ warm.head <= popped /\ warm.pushed <= pushed
  /\ (warm.anchor # None => /\ warm.anchor \in Frames /\ warm.head < warm.anchor /\ IsAnchor(warm.anchor)
                            /\ \A t \in warm.head + 1 .. warm.anchor - 1 : ~IsAnchor(t))
  /\ (~mbtree => wpc = "none")
  /\ (apc \in PostPop => warm.head < popped)
  /\ (mbtree => \A t \in warm.head + 1 .. popped : IsAnchor(t) => t = popped /\ apc \in PostPop)
  /\ (apc \in PostPop \ Popping => mbtree /\ IsAnchor(popped))
  /\ (apc \in Walking => wpc = "none")
  /\ (wpc \in {"scan", "compute"} => done >= WarmEnd + 1 /\ WarmEnd >= WarmFirst)
  /\ (wpc = "compute" => /\ warm.anchor # None /\ warm.anchor <= WarmEnd
                         /\ wsources \subseteq {s \in Frames : /\ warm.anchor < s /\ s <= WarmEnd
                                                               /\ s <= warm.anchor + LaDepth - 2})

WalkInv ==
  apc \in {"settle", "phaseA"} => sources \subseteq {s \in Frames : popped < s /\ s <= WindowEnd /\ s < pushed}

IInv == TypeInv /\ CountInv /\ RingInv /\ MemoInv /\ WarmInv /\ WalkInv

-----------------------------------------------------------------------------
(* Slots and types of pictures. *)

LEMMA Sizes ==
  /\ N \in Nat /\ BFrames \in Nat /\ LaDepth \in Nat /\ LaBuf \in Nat /\ LaCap \in Nat
  /\ LaDepth >= BFrames + 3 /\ LaBuf >= 1 /\ LaCap = LaDepth + LaBuf /\ LaCap >= 4
BY NAssumption, BFramesAssumption, GateAssumption DEF LaCap

LEMMA SlotIs == \A s \in Nat : Slot(s) \in Slots
<1>1. LaCap \in Nat /\ LaCap >= 4 BY Sizes
<1> QED BY <1>1 DEF Slot, Slots

\* Two pictures that are less than a ring apart have slots of their own.
LEMMA SlotsApart ==
  ASSUME NEW s \in Nat, NEW t \in Nat, s # t, s < t + LaCap, t < s + LaCap
  PROVE  Slot(s) # Slot(t)
<1>1. PICK C \in Nat \ {0} : C = LaCap BY Sizes
<1>2. s = (s \div C) * C + (s % C) /\ s \div C \in Int BY <1>1
<1>3. t = (t \div C) * C + (t % C) /\ t \div C \in Int BY <1>1
<1>4. PICK p \in Int, q \in Int, a \in Int, b \in Int :
        p = s \div C /\ q = t \div C /\ a = s % C /\ b = t % C /\ s = p * C + a /\ t = q * C + b
  BY <1>1, <1>2, <1>3
<1> SUFFICES ASSUME a = b PROVE FALSE BY <1>1, <1>4 DEF Slot
<1>5. PICK d \in Int : d = p - q OBVIOUS
<1>6. s - t = d * C BY <1>1, <1>4, <1>5
<1>7. d # 0 BY <1>1, <1>6
<1>8. d >= 1 => d * C >= C BY <1>1
<1>9. d <= -1 => d * C <= -C BY <1>1
<1> QED BY <1>1, <1>5, <1>6, <1>7, <1>8, <1>9

\* The least of a set of numbers.
LEMMA Least ==
  ASSUME NEW S, S \subseteq Nat, S # {}
  PROVE  \E m \in S : \A t \in S : m <= t
<1>1. PICK m \in S : \A y \in S : ~(<<y, m>> \in OpToRel(<, Nat))
  BY NatLessThanWellFounded, WFMin
<1>2. \A t \in S : ~(t < m) BY <1>1 DEF OpToRel
<1> QED BY <1>2

LEMMA NextIs ==
  ASSUME NEW s \in Frames
  PROVE  /\ (NextAnchor(s) # None =>
               /\ NextAnchor(s) \in s + 1 .. N /\ IsAnchor(NextAnchor(s))
               /\ \A t \in s + 1 .. NextAnchor(s) - 1 : ~IsAnchor(t))
         /\ \A a \in s + 1 .. N : IsAnchor(a) /\ (\A t \in s + 1 .. a - 1 : ~IsAnchor(t)) => NextAnchor(s) = a
<1>0. N \in Nat /\ s \in Nat BY Sizes DEF Frames
<1>1. CASE \E a \in s + 1 .. N : IsAnchor(a)
  <2> DEFINE P(a) == a \in s + 1 .. N /\ IsAnchor(a) /\ \A t \in s + 1 .. a - 1 : ~IsAnchor(t)
  <2>1. PICK m \in {a \in s + 1 .. N : IsAnchor(a)} : \A t \in {a \in s + 1 .. N : IsAnchor(a)} : m <= t
    <3>1. {a \in s + 1 .. N : IsAnchor(a)} \subseteq Nat BY <1>0
    <3> QED BY <1>1, <3>1, Least
  <2>2. P(m)
    <3>1. ASSUME NEW t \in s + 1 .. m - 1, IsAnchor(t) PROVE FALSE
      <4>1. t \in s + 1 .. N /\ t < m BY <1>0, <2>1
      <4> QED BY <2>1, <3>1, <4>1, <1>0
    <3> QED BY <2>1, <3>1
  <2>3. NextAnchor(s) = CHOOSE a \in s + 1 .. N : IsAnchor(a) /\ \A t \in s + 1 .. a - 1 : ~IsAnchor(t)
    BY <1>1 DEF NextAnchor
  <2>4. P(NextAnchor(s)) BY <2>2, <2>3, Zenon
  <2>5. ASSUME NEW a \in s + 1 .. N, P(a) PROVE NextAnchor(s) = a
    <3>1. PICK b \in s + 1 .. N : b = NextAnchor(s) BY <2>4
    <3>2. P(a) /\ P(b) BY <2>4, <2>5, <3>1
    <3>3. ~(a < b)
      <4> SUFFICES ASSUME a < b PROVE FALSE OBVIOUS
      <4>1. a \in s + 1 .. b - 1 BY <1>0
      <4> QED BY <3>2, <4>1
    <3>4. ~(b < a)
      <4> SUFFICES ASSUME b < a PROVE FALSE OBVIOUS
      <4>1. b \in s + 1 .. a - 1 BY <1>0
      <4> QED BY <3>2, <4>1
    <3> QED BY <1>0, <3>1, <3>3, <3>4
  <2> QED BY <2>4, <2>5
<1>2. CASE ~\E a \in s + 1 .. N : IsAnchor(a)
  <2>1. NextAnchor(s) = None BY <1>2 DEF NextAnchor
  <2> QED BY <1>2, <2>1
<1> QED BY <1>1, <1>2

\* A run of B pictures is short.
LEMMA NextIsNear ==
  ASSUME kind \in Kinds, NEW s \in Frames, ~IsAnchor(s), NextAnchor(s) # None
  PROVE  NextAnchor(s) \in Nat /\ s < NextAnchor(s) /\ NextAnchor(s) <= s + BFrames
<1>0. N \in Nat /\ BFrames \in Nat /\ s \in Nat /\ s >= 1 BY Sizes DEF Frames
<1>1. PICK a \in s + 1 .. N : a = NextAnchor(s) /\ \A t \in s + 1 .. a - 1 : ~IsAnchor(t)
  BY NextIs
<1>2. CASE s \in 1 .. N - BFrames
  <2>1. PICK t \in s .. s + BFrames : kind[t] # "b" BY <1>2, KindsAssumption
  <2>2. t # s BY <2>1 DEF IsAnchor
  <2>3. ~(t < a)
    <3> SUFFICES ASSUME t < a PROVE FALSE OBVIOUS
    <3>1. t \in s + 1 .. a - 1 BY <1>0, <2>2
    <3> QED BY <3>1, <1>1, <2>1 DEF IsAnchor
  <2> QED BY <1>0, <1>1, <2>1, <2>3
<1>3. CASE s \notin 1 .. N - BFrames BY <1>0, <1>1, <1>3
<1> QED BY <1>2, <1>3

\* The B run of an anchor.
LEMMA RunIs ==
  ASSUME kind \in Kinds, NEW a \in Frames, IsAnchor(a)
  PROVE  /\ \A s \in Frames : s \in BRun(a) <=> ~IsAnchor(s) /\ NextAnchor(s) = a
         /\ \A s \in BRun(a) : s \in Frames /\ s < a /\ a <= s + BFrames
<1>0. N \in Nat /\ a \in Nat /\ a <= N /\ a >= 1 BY Sizes DEF Frames
<1>1. ASSUME NEW s \in BRun(a) PROVE s \in Frames /\ s < a /\ ~IsAnchor(s) /\ NextAnchor(s) = a
  <2>1. s \in 1 .. a - 1 /\ \A t \in s .. a - 1 : ~IsAnchor(t) BY DEF BRun
  <2>2. s \in Frames /\ s \in s .. a - 1 /\ a \in s + 1 .. N BY <1>0, <2>1 DEF Frames
  <2>3. \A t \in s + 1 .. a - 1 : ~IsAnchor(t)
    <3> SUFFICES ASSUME NEW t \in s + 1 .. a - 1 PROVE t \in s .. a - 1 BY <2>1
    <3> QED BY <1>0, <2>1
  <2> QED BY <2>1, <2>2, <2>3, NextIs, <1>0
<1>2. ASSUME NEW s \in Frames, ~IsAnchor(s), NextAnchor(s) = a PROVE s \in BRun(a)
  <2>1. a # None BY <1>0, NoneAssumption
  <2>2. a \in s + 1 .. N /\ \A t \in s + 1 .. a - 1 : ~IsAnchor(t) BY <1>2, <2>1, NextIs
  <2>3. s \in 1 .. a - 1 BY <1>0, <2>2 DEF Frames
  <2>4. ASSUME NEW t \in s .. a - 1 PROVE ~IsAnchor(t)
    <3>1. CASE t = s BY <3>1, <1>2
    <3>2. CASE t # s
      <4>1. t \in s + 1 .. a - 1 BY <3>2, <2>3, <1>0
      <4> QED BY <4>1, <2>2
    <3> QED BY <3>1, <3>2
  <2> QED BY <2>3, <2>4 DEF BRun
<1>3. \A s \in BRun(a) : a <= s + BFrames
  <2> SUFFICES ASSUME NEW s \in BRun(a) PROVE a <= s + BFrames OBVIOUS
  <2>1. a # None BY <1>0, NoneAssumption
  <2> QED BY <1>1, <2>1, NextIsNear
<1> QED BY <1>1, <1>2, <1>3

\* Legs are final when the chain is the length of a run past the picture.
LEMMA LegsSettle ==
  ASSUME kind \in Kinds, NEW s \in Frames
  PROVE  /\ \A p \in Nat : s + BFrames < p => (InlineLegs(s, p) <=> FinalLegs(s))
         /\ (Legged \in Int /\ s + BFrames <= Legged => (LegsDone(s) <=> FinalLegs(s)))
<1>0. s \in Nat /\ BFrames \in Nat BY Sizes DEF Frames
<1>1. CASE IsAnchor(s) BY <1>0, <1>1 DEF InlineLegs, FinalLegs, LegsDone
<1>2. CASE ~IsAnchor(s)
  <2>1. CASE NextAnchor(s) = None BY <1>2, <2>1 DEF InlineLegs, FinalLegs, LegsDone
  <2>2. CASE NextAnchor(s) # None
    <3>1. PICK a \in Nat : a = NextAnchor(s) /\ a <= s + BFrames BY <1>2, <2>2, NextIsNear
    <3> QED BY <1>0, <1>2, <2>2, <3>1 DEF InlineLegs, FinalLegs, LegsDone
  <2> QED BY <2>1, <2>2
<1> QED BY <1>1, <1>2

-----------------------------------------------------------------------------
(* What steps leave alone. *)

LEMMA KindSame ==
  ASSUME kind' = kind
  PROVE  /\ \A s : IsAnchor(s)' = IsAnchor(s) /\ Links(s)' = Links(s)
         /\ \A s : NextAnchor(s)' = NextAnchor(s) /\ FinalLegs(s)' = FinalLegs(s)
<1>1. \A s : IsAnchor(s)' = IsAnchor(s) /\ Links(s)' = Links(s) BY DEF IsAnchor, Links
<1>2. \A s : NextAnchor(s)' = NextAnchor(s) BY DEF NextAnchor, IsAnchor
<1> QED BY <1>1, <1>2 DEF FinalLegs

\* The chain, the marks and the kinds are as they were.
Marks == /\ kind' = kind /\ An' = An /\ Fin' = Fin /\ Legged' = Legged /\ Padded' = Padded

LEMMA LegsSame ==
  ASSUME kind' = kind, Legged' = Legged
  PROVE  \A s : LegsDone(s)' = LegsDone(s)
BY KindSame DEF LegsDone

\* The ring's fields but the memo.
SameButMemo(e, f) == /\ e.plane = f.plane /\ e.lowres = f.lowres /\ e.typed = f.typed
                     /\ e.legs = f.legs

\* The ring's fields but the pixels.
SameButPlane(e, f) == /\ e.lowres = f.lowres /\ e.typed = f.typed /\ e.legs = f.legs
                      /\ e.memo = f.memo

\* What is held and kept is as it was; the last picture popped may be typed late.
LEMMA RingHolds ==
  ASSUME RingInv, kind' = kind, An' = An, Fin' = Fin, Legged' = Legged,
         \A s \in Frames : Padded' < s + LaCap /\ s <= Padded' => ring'[Slot(s)].plane = s,
         \A s \in Frames : /\ ring'[Slot(s)].lowres = ring[Slot(s)].lowres
                           /\ (ring[Slot(s)].typed => ring'[Slot(s)].typed),
         \A s \in Frames : Held(s) /\ Kept(s)' => /\ Kept(s)
                                                  /\ ring'[Slot(s)].typed = ring[Slot(s)].typed
                                                  /\ ring'[Slot(s)].legs = ring[Slot(s)].legs
  PROVE  RingInv'
<1>1. \A s : LegsDone(s)' = LegsDone(s) BY LegsSame
<1>2. \A s \in Frames : Held(s)' <=> Held(s) BY DEF Held
<1>3. ASSUME NEW s \in Frames
      PROVE  /\ (Padded' < s + LaCap /\ s <= Padded' => Entry(s)'.plane = s)
             /\ (Held(s)' => /\ Entry(s)'.lowres = s
                             /\ (s <= Fin' => Entry(s)'.typed)
                             /\ (Kept(s)' /\ s > Fin' => ~Entry(s)'.typed)
                             /\ (Kept(s)' => Entry(s)'.legs = LegsDone(s)'))
  <2>1. /\ (Held(s) => /\ Entry(s).lowres = s
                       /\ (s <= Fin => Entry(s).typed)
                       /\ (Kept(s) /\ s > Fin => ~Entry(s).typed)
                       /\ (Kept(s) => Entry(s).legs = LegsDone(s)))
    BY DEF RingInv
  <2>2. Entry(s)'.lowres = Entry(s).lowres /\ (Entry(s).typed => Entry(s)'.typed) BY DEF Entry
  <2>3. Held(s) /\ Kept(s)' => Kept(s) BY Zenon
  <2>4. Held(s) /\ Kept(s)' => Entry(s)'.typed = Entry(s).typed /\ Entry(s)'.legs = Entry(s).legs
    BY Zenon DEF Entry
  <2>5. Padded' < s + LaCap /\ s <= Padded' => Entry(s)'.plane = s BY DEF Entry
  <2>6. Held(s)' => Entry(s)'.lowres = s /\ (s <= Fin' => Entry(s)'.typed) BY <1>2, <2>1, <2>2
  <2>7. Held(s)' /\ Kept(s)' => (s > Fin' => ~Entry(s)'.typed) /\ Entry(s)'.legs = LegsDone(s)'
    BY <1>1, <1>2, <2>1, <2>3, <2>4
  <2> QED BY <2>5, <2>6, <2>7
<1> QED BY <1>3 DEF RingInv

LEMMA RingKeeps ==
  ASSUME RingInv, Marks, \A s \in Frames : SameButMemo(ring'[Slot(s)], ring[Slot(s)]),
         \A s \in Frames : Kept(s)' => Kept(s)
  PROVE  RingInv'
<1>1. \A s \in Frames : /\ ring'[Slot(s)].plane = ring[Slot(s)].plane
                        /\ ring'[Slot(s)].lowres = ring[Slot(s)].lowres
                        /\ ring'[Slot(s)].typed = ring[Slot(s)].typed
                        /\ ring'[Slot(s)].legs = ring[Slot(s)].legs
  BY DEF SameButMemo
<1>2. \A s \in Frames : Padded' < s + LaCap /\ s <= Padded' => ring'[Slot(s)].plane = s
  BY <1>1 DEF RingInv, Entry, Marks
<1> HIDE DEF Kept, Held, RingInv
<1> QED BY <1>1, <1>2, RingHolds DEF Marks

LEMMA MemoHolds ==
  ASSUME TypeInv, MemoInv, kind' = kind, popped' \in Nat, done' \in Nat, pushed' \in Nat,
         popped <= popped', done <= done', pushed <= pushed',
         \A s \in Frames : s > popped' /\ Reached(s) => Reached(s)',
         \A s \in Frames : pushed' < s + LaCap /\ s <= pushed' =>
             \/ ring'[Slot(s)].memo = NoMemo
             \/ s <= pushed /\ ring'[Slot(s)].memo = ring[Slot(s)].memo
             \/ \E m : m = ring'[Slot(s)].memo /\ MemoIs(s, m)'
  PROVE  MemoInv'
<1>0. popped \in Nat /\ done \in Nat /\ pushed \in Nat /\ LaCap \in Nat BY Sizes DEF TypeInv
<1>1. \A s : FinalLegs(s)' = FinalLegs(s) BY KindSame
<1>2. ASSUME NEW s \in Frames, NEW m, MemoIs(s, m) PROVE MemoIs(s, m)'
  <2>1. s \in Nat /\ BFrames \in Nat BY Sizes DEF Frames
  <2>2. s > popped' => s > popped BY <1>0, <2>1
  <2>3. s + BFrames < done => s + BFrames < done' BY <1>0, <2>1
  <2>4. s > popped' /\ Reached(s) => Reached(s)' OBVIOUS
  <2> HIDE DEF Reached
  <2> QED BY <1>1, <1>2, <2>2, <2>3, <2>4 DEF MemoIs
<1>3. ASSUME NEW s \in Frames, pushed' < s + LaCap, s <= pushed', ring'[Slot(s)].memo # NoMemo
      PROVE  MemoIs(s, Entry(s).memo)'
  <2>1. PICK m : m = ring'[Slot(s)].memo OBVIOUS
  <2>2. (s <= pushed /\ m = ring[Slot(s)].memo) \/ MemoIs(s, m)' BY <1>3, <2>1, Zenon
  <2>3. ASSUME s <= pushed, m = ring[Slot(s)].memo PROVE MemoIs(s, m)'
    <3>1. s \in Nat BY Sizes DEF Frames
    <3>2. pushed < s + LaCap BY <3>1, <1>0, <1>3
    <3>3. MemoIs(s, m) BY <3>2, <1>3, <2>1, <2>3 DEF MemoInv, Entry
    <3> QED BY <1>2, <3>3
  <2>4. MemoIs(s, m)' BY <2>2, <2>3, Zenon
  <2> QED BY <2>1, <2>4, Zenon DEF MemoIs, Entry
<1> QED BY <1>3 DEF MemoInv, Entry

LEMMA MemoKeeps ==
  ASSUME TypeInv, MemoInv, kind' = kind, pushed' = pushed, popped' \in Nat, done' \in Nat,
         popped <= popped', done <= done',
         \A s \in Frames : s > popped' /\ Reached(s) => Reached(s)',
         \A s \in Frames : ring'[Slot(s)].memo = ring[Slot(s)].memo \/ ring'[Slot(s)].memo = NoMemo
  PROVE  MemoInv'
<1>1. pushed' \in Nat /\ pushed <= pushed' BY DEF TypeInv
<1>2. \A s \in Frames : s > popped' /\ Reached(s) => Reached(s)'
  <2> HIDE DEF Reached
  <2> QED OBVIOUS
<1>3. \A s \in Frames : pushed' < s + LaCap /\ s <= pushed' =>
        \/ ring'[Slot(s)].memo = NoMemo
        \/ s <= pushed /\ ring'[Slot(s)].memo = ring[Slot(s)].memo
        \/ \E m : m = ring'[Slot(s)].memo /\ MemoIs(s, m)'
  BY Zenon
<1> HIDE DEF MemoInv, Reached, MemoIs
<1> QED BY <1>1, <1>2, <1>3, MemoHolds, Zenon

\* The prefetch is behind the anchor to come, until the join.
LEMMA WarmIsBehind ==
  ASSUME TypeInv, WarmInv, warm.anchor # None, mbtree
  PROVE  popped <= warm.anchor
<1>0. warm.anchor \in Nat /\ popped \in Nat /\ warm.head \in Nat /\ warm.head < warm.anchor
      /\ IsAnchor(warm.anchor)
  BY Sizes DEF TypeInv, WarmInv, Frames
<1> SUFFICES ASSUME warm.anchor < popped PROVE FALSE BY <1>0
<1>1. warm.anchor \in warm.head + 1 .. popped BY <1>0
<1>2. warm.anchor = popped BY <1>0, <1>1 DEF WarmInv
<1> QED BY <1>0, <1>2

\* At a join the walk is at that anchor or behind it.
LEMMA JoinIsAt ==
  ASSUME TypeInv, WarmInv, warm.anchor # None, apc \in PostPop \ Popping
  PROVE  warm.anchor <= popped
<1>0. /\ warm.anchor \in Nat /\ popped \in Nat /\ warm.head \in Nat /\ warm.head < popped
      /\ IsAnchor(popped) /\ \A t \in warm.head + 1 .. warm.anchor - 1 : ~IsAnchor(t)
  BY Sizes DEF TypeInv, WarmInv, Frames
<1> SUFFICES ASSUME popped < warm.anchor PROVE FALSE BY <1>0
<1>1. popped \in warm.head + 1 .. warm.anchor - 1 BY <1>0
<1> QED BY <1>0, <1>1

LEMMA WarmKeeps ==
  ASSUME WarmInv, UNCHANGED <<kind, mbtree, warm, wsources, popped>>,
         pushed \in Nat, pushed' \in Nat, pushed <= pushed',
         done \in Nat, done' \in Nat, done <= done',
         wpc' = wpc \/ (wpc # "none" /\ wpc' \notin {"scan", "compute"}),
         apc' \in PostPop => apc \in PostPop,
         apc \in PostPop /\ apc' \notin PostPop => ~mbtree \/ ~IsAnchor(popped),
         apc' \in PostPop \ Popping => mbtree /\ IsAnchor(popped),
         apc' \in Walking => wpc' = "none",
         warm.head \in Nat, warm.pushed \in Nat
  PROVE  WarmInv'
<1>1. \A s : IsAnchor(s)' = IsAnchor(s) BY KindSame
<1>2. BFrames \in Nat BY Sizes
<1>3. /\ warm.head' <= popped' /\ warm.pushed' <= pushed'
      /\ (warm'.anchor # None => /\ warm'.anchor \in Frames /\ warm'.head < warm'.anchor
                                 /\ \A t \in warm'.head + 1 .. warm'.anchor - 1 : ~IsAnchor(t)')
  BY <1>1 DEF WarmInv
<1>4. warm.anchor # None => IsAnchor(warm.anchor)'
  BY DEF WarmInv, IsAnchor
<1>5. (~mbtree' => wpc' = "none")
  BY DEF WarmInv
<1>6. (apc' \in PostPop => warm'.head < popped') BY DEF WarmInv
<1>7. mbtree' => \A t \in warm'.head + 1 .. popped' : IsAnchor(t)' => t = popped' /\ apc' \in PostPop
  <2> SUFFICES ASSUME mbtree, NEW t \in warm.head + 1 .. popped, IsAnchor(t)
               PROVE  t = popped /\ apc' \in PostPop
    BY <1>1
  <2>1. t = popped /\ apc \in PostPop BY DEF WarmInv
  <2> QED BY <2>1
<1>8. apc' \in PostPop \ Popping => mbtree' /\ IsAnchor(popped)' BY DEF IsAnchor
<1>9. /\ WarmEnd' = WarmEnd /\ WarmFirst' = WarmFirst /\ WarmEnd \in Int
  BY DEF WarmEnd, WarmFirst
<1>10. wpc' \in {"scan", "compute"} => done' >= WarmEnd' + 1 /\ WarmEnd' >= WarmFirst'
  <2> SUFFICES ASSUME wpc' \in {"scan", "compute"}
               PROVE  done' >= WarmEnd' + 1 /\ WarmEnd' >= WarmFirst'
    OBVIOUS
  <2>1. wpc \in {"scan", "compute"} OBVIOUS
  <2>2. done >= WarmEnd + 1 /\ WarmEnd >= WarmFirst BY <2>1 DEF WarmInv
  <2> QED BY <2>2, <1>9
<1>11. wpc' = "compute" => /\ warm'.anchor # None /\ warm'.anchor <= WarmEnd'
                           /\ wsources' \subseteq {s \in Frames : /\ warm'.anchor < s /\ s <= WarmEnd'
                                                                  /\ s <= warm'.anchor + LaDepth - 2}
  BY <1>9 DEF WarmInv
<1> QED BY <1>3, <1>4, <1>5, <1>6, <1>7, <1>8, <1>10, <1>11 DEF WarmInv

-----------------------------------------------------------------------------
(* The chain. *)

\* A step of the chain leaves what the API thread counts on.
LEMMA ChainCounts ==
  ASSUME TypeInv, CountInv, Chain
  PROVE  /\ CountInv' /\ kind' = kind /\ pushed' = pushed /\ popped' = popped /\ apc' = apc
         /\ done' \in Nat /\ done <= done'
         /\ UNCHANGED <<mbtree, warm, wsources, sources>>
         /\ (wpc' = wpc \/ (wpc = "asleep" /\ wpc' = "posted"))
<1>0. /\ pushed \in Nat /\ done \in Nat /\ popped \in Nat /\ BFrames \in Nat /\ LaDepth \in Nat
      /\ LaBuf \in Nat /\ LaCap \in Nat /\ N \in Nat
  BY Sizes DEF TypeInv
<1>1. /\ kind' = kind /\ pushed' = pushed /\ popped' = popped /\ apc' = apc
      /\ UNCHANGED <<mbtree, warm, wsources, sources>>
      /\ (wpc' = wpc \/ (wpc = "asleep" /\ wpc' = "posted"))
  BY DEF Chain, ChainSleep, ChainExit, ChainTake, Analyse, Finalize, Legs, Step, warmVars
<1>2. done' = done \/ (Running /\ cpc' = "idle" /\ done' = done + 1)
  BY DEF Chain, ChainSleep, ChainExit, ChainTake, Analyse, Finalize, Legs, Step, warmVars, Running
<1>3. /\ (Running' => done' < pushed)
      /\ (cpc' \in {"finalize", "legs"} => done' > 0) /\ (cpc' = "legs" => Links(done)')
  <2>1. CASE ChainSleep \/ ChainExit \/ Step
    BY <2>1 DEF ChainSleep, ChainExit, Step, Running
  <2>2. CASE ChainTake BY <1>0, <2>2 DEF ChainTake, Running, CountInv
  <2>3. CASE Analyse
    <3>1. Running BY <2>3 DEF Running, Analyse
    <3> QED BY <3>1, <1>0, <2>3 DEF Analyse, Running, CountInv
  <2>4. CASE Finalize
    <3>1. Running /\ done > 0 BY <2>4 DEF Running, Finalize, CountInv
    <3>2. Links(done)' = Links(done) BY <2>4 DEF Finalize, Links
    <3> QED BY <3>1, <3>2, <1>0, <2>4 DEF Finalize, Running, CountInv
  <2>5. CASE Legs
    <3>1. Running BY <2>5 DEF Running, Legs
    <3> QED BY <3>1, <1>0, <2>5 DEF Legs, Running, CountInv
  <2> QED BY <2>1, <2>2, <2>3, <2>4, <2>5 DEF Chain
<1>4. done' \in Nat /\ done <= done' /\ done' <= pushed
  <2>1. Running => done < pushed BY DEF CountInv
  <2>2. done <= pushed BY DEF CountInv
  <2> QED BY <1>0, <1>2, <2>1, <2>2
<1>5. TreeNeed' = TreeNeed /\ SettleExt' = SettleExt /\ TreeNeed \in Int /\ SettleExt \in Nat
  BY <1>0, <1>1 DEF TreeNeed, SettleExt
<1>6. \A x \in Int : done >= x \/ done = pushed => done' >= x \/ done' = pushed BY <1>0, <1>4
<1>7. \A x \in Nat : x <= done + LaCap => x <= done' + LaCap
  <2>1. \A x, a, b, c \in Nat : a <= b /\ x <= a + c => x <= b + c OBVIOUS
  <2> QED BY <1>0, <1>4, <2>1, Zenon
<1>8. /\ (pushed <= done + LaCap => pushed <= done' + LaCap)
      /\ (pushed + 1 <= done + LaCap => pushed + 1 <= done' + LaCap)
  BY <1>0, <1>7
<1>9. popped + BFrames + 2 \in Int /\ TreeNeed + SettleExt \in Int BY <1>0, <1>5
<1>10. CountInv'
  <2>1. /\ (apc = "popped" => done' >= popped + BFrames + 2 \/ done' = pushed)
        /\ (apc \in {"join"} \cup Walking => done' >= TreeNeed \/ done' = pushed)
        /\ (apc = "phaseA" => done' >= TreeNeed + SettleExt \/ done' = pushed)
    BY <1>5, <1>6, <1>9 DEF CountInv
  <2> HIDE DEF TreeNeed, SettleExt, Running
  <2> QED BY <2>1, <1>1, <1>3, <1>4, <1>5, <1>7, <1>8 DEF CountInv
<1> QED BY <1>1, <1>4, <1>10

\* It leaves the prefetch and the walk.
LEMMA ChainKeeps ==
  ASSUME IInv, Chain, \A i \in Slots : ring'[i].memo = ring[i].memo
  PROVE  CountInv' /\ MemoInv' /\ WarmInv' /\ WalkInv'
<1>0. TypeInv /\ CountInv /\ MemoInv /\ WarmInv /\ WalkInv BY DEF IInv
<1>1. /\ CountInv' /\ kind' = kind /\ pushed' = pushed /\ popped' = popped /\ apc' = apc
      /\ done' \in Nat /\ done <= done' /\ UNCHANGED <<mbtree, warm, wsources, sources>>
      /\ (wpc' = wpc \/ (wpc = "asleep" /\ wpc' = "posted"))
      /\ pushed \in Nat /\ popped \in Nat /\ done \in Nat /\ warm.head \in Nat /\ warm.pushed \in Nat
  BY <1>0, ChainCounts DEF TypeInv
<1>2. MemoInv'
  <2>1. \A s \in Frames : Reached(s) => Reached(s)' BY <1>1 DEF Reached
  <2>2. \A s \in Frames : ring'[Slot(s)].memo = ring[Slot(s)].memo BY SlotIs, Sizes DEF Frames
  <2> QED BY <1>0, <1>1, <2>1, <2>2, MemoKeeps
<1>3. WarmInv'
  <2>1. /\ wpc' = wpc \/ (wpc # "none" /\ wpc' \notin {"scan", "compute"})
        /\ (wpc = "none" => wpc' = "none")
    BY <1>1
  <2>2. /\ (apc \in Walking => wpc = "none") /\ (apc \in PostPop \ Popping => mbtree /\ IsAnchor(popped))
    BY <1>0 DEF WarmInv
  <2> QED BY <1>0, <1>1, <2>1, <2>2, WarmKeeps
<1>4. WalkInv' BY <1>0, <1>1 DEF WalkInv, WindowEnd
<1> QED BY <1>1, <1>2, <1>3, <1>4

LEMMA StepChainTurns == IInv /\ (ChainSleep \/ ChainExit \/ ChainTake \/ Step) => IInv'
<1> SUFFICES ASSUME IInv, ChainSleep \/ ChainExit \/ ChainTake \/ Step PROVE IInv' OBVIOUS
<1>0. TypeInv /\ CountInv /\ RingInv /\ Chain BY DEF IInv, Chain
<1>1. ring' = ring BY DEF ChainSleep, ChainExit, ChainTake, Step
<1>2. CountInv' /\ MemoInv' /\ WarmInv' /\ WalkInv' BY <1>0, <1>1, ChainKeeps
<1>3. /\ kind' = kind /\ pushed' = pushed /\ popped' = popped /\ apc' = apc /\ done' \in Nat
      /\ UNCHANGED <<mbtree, warm>>
  BY <1>0, ChainCounts
<1>4. Marks
  <2>1. Padded' = Padded BY <1>3 DEF Padded
  <2>2. CASE ChainSleep \/ ChainExit \/ ChainTake
    BY <2>1, <2>2, <1>3 DEF ChainSleep, ChainExit, ChainTake, Marks, An, Fin, Legged
  <2>3. CASE Step BY <2>1, <2>3, <1>0, <1>3 DEF Step, Marks, An, Fin, Legged, TypeInv
  <2> QED BY <2>2, <2>3
<1>5. RingInv'
  <2>1. \A s \in Frames : SameButMemo(ring'[Slot(s)], ring[Slot(s)]) BY <1>1 DEF SameButMemo
  <2>2. \A s \in Frames : Kept(s)' => Kept(s) BY <1>3 DEF Kept
  <2> QED BY <1>0, <1>4, <2>1, <2>2, RingKeeps
<1>6. TypeInv' BY <1>0, <1>1, <1>3 DEF TypeInv
<1> QED BY <1>2, <1>5, <1>6 DEF IInv

\* A picture is analysed into its slot: the pixels are its own.
LEMMA AnalyseReads ==
  ASSUME TypeInv, CountInv, RingInv, cpc = "analyse"
  PROVE  done + 1 \in Frames /\ Entry(done + 1).plane = done + 1
<1>0. /\ pushed \in Nat /\ done \in Nat /\ popped \in Nat /\ LaCap \in Nat /\ N \in Nat /\ LaCap >= 4
  BY Sizes DEF TypeInv
<1>1. done < pushed /\ pushed <= N /\ pushed <= done + LaCap
      /\ (apc = "push" => pushed + 1 <= done + LaCap)
  BY DEF CountInv, Running
<1>2. done + 1 \in Frames BY <1>0, <1>1 DEF Frames
<1>3. Padded < (done + 1) + LaCap /\ done + 1 <= Padded BY <1>0, <1>1 DEF Padded
<1> QED BY <1>2, <1>3 DEF RingInv

\* The ring after a write of type or legs, of costs or of pixels, where the chain
\* has the analysis and the typing behind it that the primed marks say.
LEMMA StepAnalyse == IInv /\ Analyse => IInv'
<1> SUFFICES ASSUME IInv, Analyse PROVE IInv' OBVIOUS
<1>0. TypeInv /\ CountInv /\ RingInv /\ Chain BY DEF IInv, Chain
<1>1. /\ pushed \in Nat /\ done \in Nat /\ popped \in Nat /\ LaCap \in Nat /\ N \in Nat /\ LaCap >= 4
      /\ cpc = "analyse" /\ done < pushed /\ pushed <= N
  BY <1>0, Sizes DEF TypeInv, CountInv, Running, Analyse
<1>2. PICK n \in Frames : n = done + 1 /\ Entry(n).plane = n /\ n \in Nat
  BY <1>0, <1>1, AnalyseReads
<1>3. PICK e : e = [ring[Slot(n)] EXCEPT !.lowres = n, !.typed = FALSE, !.legs = FALSE] OBVIOUS
<1>4. Slot(n) \in Slots /\ EntryIs(ring[Slot(n)]) BY <1>0, <1>2, SlotIs DEF TypeInv
<1>5. /\ e.plane = Entry(n).plane /\ e.lowres = n /\ e.typed = FALSE /\ e.legs = FALSE
      /\ e.memo = Entry(n).memo /\ EntryIs(e)
  BY <1>3, <1>4 DEF EntryIs, Entry
<1>6. /\ ring' = [i \in Slots |-> ring'[i]] /\ ring'[Slot(n)] = e
      /\ \A i \in Slots : i # Slot(n) => ring'[i] = ring[i]
  <2>1. ring = [i \in Slots |-> ring[i]] BY <1>0 DEF TypeInv
  <2>2. ring' = [ring EXCEPT ![Slot(n)].lowres = ring[Slot(n)].plane,
                             ![Slot(n)].typed = FALSE, ![Slot(n)].legs = FALSE]
    BY <1>2 DEF Analyse
  <2>3. ring' = [ring EXCEPT ![Slot(n)] = e] BY <2>1, <2>2, <1>2, <1>3, <1>4 DEF Entry
  <2> QED BY <2>1, <2>3, <1>4
<1>7. CountInv' /\ MemoInv' /\ WarmInv' /\ WalkInv'
  <2>1. \A i \in Slots : ring'[i].memo = ring[i].memo BY <1>5, <1>6 DEF Entry
  <2> QED BY <2>1, <1>0, ChainKeeps
<1>8. /\ kind' = kind /\ pushed' = pushed /\ popped' = popped /\ apc' = apc /\ done' = done
      /\ UNCHANGED <<mbtree, warm>> /\ cpc' = IF done > 0 THEN "finalize" ELSE "step"
  BY <1>0, ChainCounts DEF Analyse
<1>9. TypeInv' BY <1>0, <1>5, <1>6, <1>8 DEF TypeInv
<1>10. /\ An = done /\ Fin = done - 1 /\ Legged = done - 1 /\ An' = n /\ Padded' = Padded
       /\ (done > 0 => Fin' = Fin /\ Legged' = Legged)
       /\ Fin' < n /\ Fin' \in Int /\ Legged' < n /\ Legged' \in Int
  BY <1>1, <1>2, <1>8 DEF An, Fin, Legged, Padded
<1>14. n \in Nat BY <1>2
<1>11. \A s : /\ IsAnchor(s)' = IsAnchor(s) /\ Links(s)' = Links(s) /\ NextAnchor(s)' = NextAnchor(s)
  BY <1>8, KindSame
<1>12. ASSUME NEW s \in Frames
       PROVE  /\ (Padded' < s + LaCap /\ s <= Padded' => Entry(s)'.plane = s)
              /\ (Held(s)' => /\ Entry(s)'.lowres = s
                              /\ (s <= Fin' => Entry(s)'.typed)
                              /\ (Kept(s)' /\ s > Fin' => ~Entry(s)'.typed)
                              /\ (Kept(s)' => Entry(s)'.legs = LegsDone(s)'))
  <2>1. s \in Nat /\ s >= 1 /\ Slot(s) \in Slots BY <1>1, SlotIs DEF Frames
  <2>2. CASE Slot(s) = Slot(n)
    <3>1. Entry(s)' = e /\ Entry(s) = Entry(n) BY <2>2, <1>6 DEF Entry
    <3>2. Padded' < s + LaCap /\ s <= Padded' => e.plane = s
      BY <3>1, <1>0, <1>5, <1>10 DEF RingInv
    <3>3. Held(s)' => s = n
      <4> SUFFICES ASSUME Held(s)', s # n PROVE FALSE OBVIOUS
      <4>1. n < s + LaCap /\ s <= n BY <1>10 DEF Held
      <4>2. s < n + LaCap BY <4>1, <2>1, <1>1, <1>2
      <4> QED BY <4>1, <4>2, <2>1, <2>2, <1>2, SlotsApart
    <3>4. LegsDone(n)' = FALSE
      <4>1. ~(n <= Legged') BY <1>10, <1>14
      <4>2. CASE IsAnchor(n) BY <4>1, <4>2, <1>11 DEF LegsDone
      <4>3. CASE ~IsAnchor(n)
        <5>1. NextAnchor(n) # None => NextAnchor(n) \in Nat /\ n < NextAnchor(n)
          BY <4>3, <1>0, NextIsNear DEF TypeInv
        <5>2. ~(NextAnchor(n) # None /\ NextAnchor(n) <= Legged') BY <5>1, <1>10, <1>14
        <5> QED BY <4>3, <5>2, <1>11 DEF LegsDone
      <4> QED BY <4>2, <4>3
    <3>5. ~(n <= Fin') BY <1>10, <1>14
    <3> QED BY <3>1, <3>2, <3>3, <3>4, <3>5, <1>5
  <2>3. CASE Slot(s) # Slot(n)
    <3>1. Entry(s)' = Entry(s) /\ s # n BY <2>1, <2>3, <1>6 DEF Entry
    <3>2. Padded' < s + LaCap /\ s <= Padded' => Entry(s)'.plane = s BY <3>1, <1>0, <1>10 DEF RingInv
    <3>3. ASSUME Held(s)'
          PROVE  /\ Held(s) /\ Fin' = Fin /\ Legged' = Legged
      <4>1. n < s + LaCap /\ s <= n BY <3>3, <1>10 DEF Held
      <4>2. s <= done /\ done > 0 /\ done < s + LaCap BY <4>1, <3>1, <2>1, <1>1, <1>2
      <4> QED BY <4>2, <1>10 DEF Held
    <3>4. Legged' = Legged => LegsDone(s)' = LegsDone(s) BY <1>8, LegsSame
    <3>5. Kept(s)' = Kept(s) BY <1>8 DEF Kept
    <3> QED BY <3>1, <3>2, <3>3, <3>4, <3>5, <1>0 DEF RingInv
  <2> QED BY <2>2, <2>3
<1>13. RingInv' BY <1>12 DEF RingInv
<1> QED BY <1>7, <1>9, <1>13 DEF IInv

LEMMA StepFinalize == IInv /\ Finalize => IInv'
<1> SUFFICES ASSUME IInv, Finalize PROVE IInv' OBVIOUS
<1>0. TypeInv /\ CountInv /\ RingInv /\ Chain BY DEF IInv, Chain
<1>1. /\ pushed \in Nat /\ done \in Nat /\ popped \in Nat /\ LaCap \in Nat /\ N \in Nat /\ LaCap >= 4
      /\ cpc = "finalize" /\ done < pushed /\ pushed <= N /\ done > 0
  BY <1>0, Sizes DEF TypeInv, CountInv, Running, Finalize
<1>2. PICK n \in Frames : n = done /\ n \in Nat BY <1>1 DEF Frames
<1>3. PICK e : e = [ring[Slot(n)] EXCEPT !.typed = TRUE, !.legs = FALSE] OBVIOUS
<1>4. Slot(n) \in Slots /\ EntryIs(ring[Slot(n)]) BY <1>0, <1>2, SlotIs DEF TypeInv
<1>5. /\ e.plane = Entry(n).plane /\ e.lowres = Entry(n).lowres /\ e.typed = TRUE /\ e.legs = FALSE
      /\ e.memo = Entry(n).memo /\ EntryIs(e)
  BY <1>3, <1>4 DEF EntryIs, Entry
<1>6. /\ ring' = [i \in Slots |-> ring'[i]] /\ ring'[Slot(n)] = e
      /\ \A i \in Slots : i # Slot(n) => ring'[i] = ring[i]
  <2>1. ring = [i \in Slots |-> ring[i]] BY <1>0 DEF TypeInv
  <2>2. ring' = [ring EXCEPT ![Slot(n)].typed = TRUE, ![Slot(n)].legs = FALSE]
    BY <1>2 DEF Finalize
  <2>3. ring' = [ring EXCEPT ![Slot(n)] = e] BY <2>1, <2>2, <1>3, <1>4
  <2> QED BY <2>1, <2>3, <1>4
<1>7. CountInv' /\ MemoInv' /\ WarmInv' /\ WalkInv'
  <2>1. \A i \in Slots : ring'[i].memo = ring[i].memo BY <1>5, <1>6 DEF Entry
  <2> QED BY <2>1, <1>0, ChainKeeps
<1>8. /\ kind' = kind /\ pushed' = pushed /\ popped' = popped /\ apc' = apc /\ done' = done
      /\ UNCHANGED <<mbtree, warm>> /\ cpc' = IF Links(n) THEN "legs" ELSE "step"
  BY <1>0, <1>2, ChainCounts DEF Finalize
<1>9. TypeInv' BY <1>0, <1>5, <1>6, <1>8 DEF TypeInv
<1>10. /\ An = done + 1 /\ Fin = n - 1 /\ Legged = n - 1 /\ An' = An /\ Padded' = Padded
       /\ Fin' = n /\ (Links(n) => Legged' = Legged) /\ (~Links(n) => Legged' = n)
  BY <1>1, <1>2, <1>8 DEF An, Fin, Legged, Padded
<1>11. \A s : /\ IsAnchor(s)' = IsAnchor(s) /\ Links(s)' = Links(s) /\ NextAnchor(s)' = NextAnchor(s)
  BY <1>8, KindSame
<1>12. ASSUME NEW s \in Frames
       PROVE  /\ (Padded' < s + LaCap /\ s <= Padded' => Entry(s)'.plane = s)
              /\ (Held(s)' => /\ Entry(s)'.lowres = s
                              /\ (s <= Fin' => Entry(s)'.typed)
                              /\ (Kept(s)' /\ s > Fin' => ~Entry(s)'.typed)
                              /\ (Kept(s)' => Entry(s)'.legs = LegsDone(s)'))
  <2>1. s \in Nat /\ s >= 1 /\ Slot(s) \in Slots BY <1>1, SlotIs DEF Frames
  <2>2. Held(s)' = Held(s) /\ Kept(s)' = Kept(s) BY <1>8, <1>10 DEF Held, Kept
  <2>3. NextAnchor(s) # None => NextAnchor(s) \in Nat /\ s < NextAnchor(s)
    <3>1. NextAnchor(s) # None => NextAnchor(s) \in s + 1 .. N BY NextIs
    <3> QED BY <3>1, <2>1, <1>1
  <2>4. CASE Slot(s) = Slot(n)
    <3>1. Entry(s)' = e /\ Entry(s) = Entry(n) BY <2>4, <1>6 DEF Entry
    <3>2. /\ (Padded' < s + LaCap /\ s <= Padded' => e.plane = s)
          /\ (Held(s) => e.lowres = s)
      BY <3>1, <1>0, <1>5, <1>10 DEF RingInv
    <3>3. Held(s) => s = n
      <4> SUFFICES ASSUME Held(s), s # n PROVE FALSE OBVIOUS
      <4>1. n + 1 < s + LaCap /\ s <= n + 1 BY <1>2, <1>10 DEF Held
      <4>2. s < n + LaCap /\ n < s + LaCap BY <4>1, <2>1, <1>1, <1>2
      <4> QED BY <4>2, <2>1, <2>4, <1>2, SlotsApart
    <3>4. s = n => LegsDone(s)' = FALSE
      <4> SUFFICES ASSUME s = n PROVE LegsDone(s)' = FALSE OBVIOUS
      <4>1. CASE Links(n)
        <5>1. IsAnchor(s) BY <4>1 DEF Links, IsAnchor
        <5>2. ~(s <= Legged') BY <4>1, <1>10, <1>2
        <5> QED BY <5>1, <5>2, <1>11 DEF LegsDone
      <4>2. CASE ~Links(n)
        <5>1. CASE IsAnchor(s) BY <4>2, <5>1, <1>11 DEF LegsDone
        <5>2. CASE ~IsAnchor(s)
          <6>1. ~(NextAnchor(s) # None /\ NextAnchor(s) <= Legged') BY <4>2, <1>10, <1>2, <2>1, <2>3
          <6> QED BY <5>2, <6>1, <1>11 DEF LegsDone
        <5> QED BY <5>1, <5>2
      <4> QED BY <4>1, <4>2
    <3>5. ~(n > Fin') BY <1>2, <1>10
    <3> QED BY <3>1, <3>2, <3>3, <3>4, <3>5, <2>2, <1>5
  <2>5. CASE Slot(s) # Slot(n)
    <3>1. Entry(s)' = Entry(s) /\ s # n BY <2>1, <2>5, <1>6 DEF Entry
    <3>2. (s <= Fin' => s <= Fin) /\ (s > Fin' => s > Fin) BY <3>1, <2>1, <1>2, <1>10
    <3>3. LegsDone(s)' = LegsDone(s)
      <4>1. CASE Links(n) BY <4>1, <1>8, <1>10, LegsSame
      <4>2. CASE ~Links(n)
        <5>1. CASE IsAnchor(s)
          <6>1. s <= Legged' <=> s <= Legged BY <4>2, <1>2, <1>10, <2>1, <3>1
          <6> QED BY <5>1, <6>1, <1>11 DEF LegsDone
        <5>2. CASE ~IsAnchor(s) /\ NextAnchor(s) # None
          <6>1. Links(NextAnchor(s)) => (NextAnchor(s) <= Legged' <=> NextAnchor(s) <= Legged)
            <7> SUFFICES ASSUME Links(NextAnchor(s))
                         PROVE  NextAnchor(s) <= Legged' <=> NextAnchor(s) <= Legged
              OBVIOUS
            <7>1. NextAnchor(s) # n BY <4>2
            <7> QED BY <7>1, <4>2, <1>2, <1>10, <2>3, <5>2
          <6>2. Links(NextAnchor(s))' = Links(NextAnchor(s)) BY <1>8, <1>11 DEF Links
          <6> QED BY <5>2, <6>1, <6>2, <1>11 DEF LegsDone
        <5>3. CASE ~IsAnchor(s) /\ NextAnchor(s) = None BY <5>3, <1>11 DEF LegsDone
        <5> QED BY <5>1, <5>2, <5>3
      <4> QED BY <4>1, <4>2
    <3> QED BY <3>1, <3>2, <3>3, <2>2, <1>0, <1>10 DEF RingInv
  <2> QED BY <2>4, <2>5
<1>13. RingInv' BY <1>12 DEF RingInv
<1> QED BY <1>7, <1>9, <1>13 DEF IInv

\* The legs of an anchor and of its run are the legs of no other picture in the ring.
LEMMA StepLegs == IInv /\ Legs => IInv'
<1> SUFFICES ASSUME IInv, Legs PROVE IInv' OBVIOUS
<1>0. TypeInv /\ CountInv /\ RingInv /\ Chain BY DEF IInv, Chain
<1>1. /\ pushed \in Nat /\ done \in Nat /\ popped \in Nat /\ LaCap \in Nat /\ N \in Nat
      /\ BFrames \in Nat /\ LaCap >= BFrames + 4
      /\ cpc = "legs" /\ done < pushed /\ pushed <= N /\ done > 0 /\ Links(done)
  BY <1>0, Sizes DEF TypeInv, CountInv, Running, Legs
<1>2. PICK n \in Frames : n = done /\ n \in Nat BY <1>1 DEF Frames
<1>3. Links(n) /\ IsAnchor(n) BY <1>1, <1>2 DEF Links, IsAnchor
<1>4. ring' = [i \in Slots |-> IF i \in LegsOf(n) THEN [ring[i] EXCEPT !.legs = TRUE] ELSE ring[i]]
  BY <1>2 DEF Legs, WithLegs
<1>5. \A i \in Slots : /\ EntryIs(ring'[i]) /\ ring'[i].plane = ring[i].plane
                       /\ ring'[i].lowres = ring[i].lowres /\ ring'[i].typed = ring[i].typed
                       /\ ring'[i].memo = ring[i].memo
                       /\ (i \in LegsOf(n) => ring'[i].legs = TRUE)
                       /\ (i \notin LegsOf(n) => ring'[i].legs = ring[i].legs)
  <2> SUFFICES ASSUME NEW i \in Slots
               PROVE  /\ EntryIs(ring'[i]) /\ ring'[i].plane = ring[i].plane
                      /\ ring'[i].lowres = ring[i].lowres /\ ring'[i].typed = ring[i].typed
                      /\ ring'[i].memo = ring[i].memo
                      /\ (i \in LegsOf(n) => ring'[i].legs = TRUE)
                      /\ (i \notin LegsOf(n) => ring'[i].legs = ring[i].legs)
    OBVIOUS
  <2>1. EntryIs(ring[i]) BY <1>0 DEF TypeInv
  <2>2. CASE i \in LegsOf(n)
    <3>1. ring'[i] = [ring[i] EXCEPT !.legs = TRUE] BY <1>4, <2>2
    <3> QED BY <2>1, <2>2, <3>1 DEF EntryIs
  <2>3. CASE i \notin LegsOf(n)
    <3>1. ring'[i] = ring[i] BY <1>4, <2>3
    <3> QED BY <2>1, <2>3, <3>1
  <2> QED BY <2>2, <2>3
<1>7. CountInv' /\ MemoInv' /\ WarmInv' /\ WalkInv' BY <1>5, <1>0, ChainKeeps
<1>8. /\ kind' = kind /\ pushed' = pushed /\ popped' = popped /\ apc' = apc /\ done' = done
      /\ UNCHANGED <<mbtree, warm>> /\ cpc' = "step"
  BY <1>0, ChainCounts DEF Legs
<1>9. TypeInv'
  <2>1. ring' = [i \in Slots |-> ring'[i]] BY <1>4
  <2> QED BY <1>0, <1>5, <1>8, <2>1 DEF TypeInv
<1>10. /\ An = n + 1 /\ Fin = n /\ Legged = n - 1 /\ An' = An /\ Fin' = Fin /\ Padded' = Padded
       /\ Legged' = n
  BY <1>1, <1>2, <1>8 DEF An, Fin, Legged, Padded
<1>11. \A s : /\ IsAnchor(s)' = IsAnchor(s) /\ Links(s)' = Links(s) /\ NextAnchor(s)' = NextAnchor(s)
  BY <1>8, KindSame
<1>12. ASSUME NEW s \in Frames
       PROVE  /\ (Padded' < s + LaCap /\ s <= Padded' => Entry(s)'.plane = s)
              /\ (Held(s)' => /\ Entry(s)'.lowres = s
                              /\ (s <= Fin' => Entry(s)'.typed)
                              /\ (Kept(s)' /\ s > Fin' => ~Entry(s)'.typed)
                              /\ (Kept(s)' => Entry(s)'.legs = LegsDone(s)'))
  <2>1. s \in Nat /\ s >= 1 /\ Slot(s) \in Slots BY <1>1, SlotIs DEF Frames
  <2>2. Held(s)' = Held(s) /\ Kept(s)' = Kept(s) BY <1>8, <1>10 DEF Held, Kept
  <2>3. /\ Entry(s)'.plane = Entry(s).plane /\ Entry(s)'.lowres = Entry(s).lowres
        /\ Entry(s)'.typed = Entry(s).typed
        /\ (Slot(s) \in LegsOf(n) => Entry(s)'.legs = TRUE)
        /\ (Slot(s) \notin LegsOf(n) => Entry(s)'.legs = Entry(s).legs)
    BY <2>1, <1>5 DEF Entry
  <2>4. ASSUME Held(s), Kept(s) PROVE Entry(s)'.legs = LegsDone(s)'
    <3>1. Entry(s).legs = LegsDone(s) BY <2>4, <1>0 DEF RingInv
    <3>2. CASE s \in BRun(n) \cup {n}
      <4>1. Slot(s) \in LegsOf(n) BY <3>2 DEF LegsOf
      <4>2. LegsDone(s)'
        <5>1. CASE s = n BY <5>1, <1>2, <1>3, <1>10, <1>11 DEF LegsDone
        <5>2. CASE s \in BRun(n)
          <6>1. ~IsAnchor(s) /\ NextAnchor(s) = n BY <5>2, <1>0, <1>3, RunIs DEF TypeInv
          <6>2. n # None /\ n <= Legged' BY <1>2, <1>10, NoneAssumption
          <6>3. Links(n)' BY <1>3, <1>11
          <6> QED BY <6>1, <6>2, <6>3, <1>11 DEF LegsDone
        <5> QED BY <5>1, <5>2, <3>2
      <4>3. LegsDone(s)' = TRUE BY <4>2 DEF LegsDone
      <4> QED BY <2>3, <4>1, <4>3
    <3>3. CASE s \notin BRun(n) \cup {n}
      <4>1. Slot(s) \notin LegsOf(n)
        <5> SUFFICES ASSUME NEW b \in BRun(n) \cup {n} PROVE Slot(s) # Slot(b) BY DEF LegsOf
        <5>1. b \in Frames /\ b <= n /\ n <= b + BFrames
          <6>1. CASE b = n BY <6>1, <1>1, <1>2
          <6>2. CASE b \in BRun(n)
            <7>1. b \in Frames /\ b < n /\ n <= b + BFrames BY <6>2, <1>0, <1>3, RunIs DEF TypeInv
            <7> QED BY <7>1, <1>2 DEF Frames
          <6> QED BY <6>1, <6>2
        <5>2. b \in Nat /\ s # b BY <5>1, <3>3, <1>1 DEF Frames
        <5>3. n + 1 < s + LaCap /\ s <= n + 1 BY <2>4, <1>10 DEF Held
        <5>4. s < b + LaCap /\ b < s + LaCap BY <5>1, <5>2, <5>3, <2>1, <1>1, <1>2
        <5> QED BY <5>2, <5>4, <2>1, SlotsApart
      <4>2. LegsDone(s)' = LegsDone(s)
        <5>1. CASE IsAnchor(s)
          <6>1. s <= Legged' <=> s <= Legged BY <3>3, <2>1, <1>2, <1>10
          <6> QED BY <5>1, <6>1, <1>11 DEF LegsDone
        <5>2. CASE ~IsAnchor(s) /\ NextAnchor(s) # None
          <6>1. NextAnchor(s) # n BY <5>2, <3>3, <1>0, <1>3, RunIs DEF TypeInv
          <6>2. NextAnchor(s) \in s + 1 .. N BY <5>2, NextIs
          <6>3. PICK m \in Nat : m = NextAnchor(s) BY <6>2, <2>1, <1>1
          <6>4. m <= Legged' <=> m <= Legged BY <6>1, <6>3, <1>2, <1>10
          <6>5. Links(NextAnchor(s))' = Links(NextAnchor(s)) BY <1>8, <1>11 DEF Links
          <6> QED BY <5>2, <6>3, <6>4, <6>5, <1>11 DEF LegsDone
        <5>3. CASE ~IsAnchor(s) /\ NextAnchor(s) = None BY <5>3, <1>11 DEF LegsDone
        <5> QED BY <5>1, <5>2, <5>3
      <4> QED BY <2>3, <3>1, <4>1, <4>2
    <3> QED BY <3>2, <3>3
  <2> QED BY <2>2, <2>3, <2>4, <1>0, <1>10 DEF RingInv
<1>13. RingInv' BY <1>12 DEF RingInv
<1> QED BY <1>7, <1>9, <1>13 DEF IInv

-----------------------------------------------------------------------------
(* The API thread. *)

\* What the counts ask of a step of the API thread that pushes and pops nothing.
LEMMA ApiCounts ==
  ASSUME TypeInv, CountInv, UNCHANGED <<kind, pushed, popped, done>>, cpc' = cpc \/ cpc' = "idle",
         apc' \in {"padwait", "pad", "push"} => pushed < N,
         apc' \in {"pad", "push"} => pushed + 1 <= done + LaCap,
         apc' = "popwait" => popped < pushed,
         apc' = "popped" => done >= popped + BFrames + 2 \/ done = pushed,
         apc' \in {"join"} \cup Walking => done >= TreeNeed \/ done = pushed,
         apc' = "phaseA" => done >= TreeNeed + SettleExt \/ done = pushed,
         apc' \in PostPop => popped > 0
  PROVE  CountInv'
<1>1. TreeNeed' = TreeNeed /\ SettleExt' = SettleExt BY DEF TreeNeed, SettleExt
<1>2. Links(done)' = Links(done) BY DEF Links
<1>3. /\ (Running' => done' < pushed') /\ (cpc' \in {"finalize", "legs"} => done' > 0)
      /\ (cpc' = "legs" => Links(done)')
  BY <1>2 DEF CountInv, Running
<1>4. /\ pushed' <= N /\ done' <= pushed' /\ popped' <= pushed'
      /\ pushed' < popped' + LaCap /\ pushed' <= done' + LaCap
  BY DEF CountInv
<1> HIDE DEF TreeNeed, SettleExt, Running, Links
<1> QED BY <1>1, <1>3, <1>4 DEF CountInv

\* A step that leaves the ring, the counts and what the prefetch was posted.
LEMMA ApiQuiet ==
  ASSUME IInv, UNCHANGED <<kind, mbtree, ring, pushed, popped, done, warm, wsources>>,
         cpc' = cpc \/ (cpc = "asleep" /\ cpc' = "idle"),
         CountInv', WalkInv', Padded' = Padded,
         apc' \in Popping => apc \in Popping,
         wpc' = wpc \/ (wpc # "none" /\ wpc' \notin {"scan", "compute"}),
         apc' \in PostPop => apc \in PostPop,
         apc \in PostPop /\ apc' \notin PostPop => ~mbtree \/ ~IsAnchor(popped),
         apc' \in PostPop \ Popping => mbtree /\ IsAnchor(popped),
         apc' \in Walking => wpc' = "none",
         \A s \in Frames : s > popped /\ Reached(s) => Reached(s)'
  PROVE  IInv'
<1>0. TypeInv /\ RingInv /\ MemoInv /\ WarmInv BY DEF IInv
<1>1. pushed \in Nat /\ done \in Nat /\ popped \in Nat /\ warm.head \in Nat /\ warm.pushed \in Nat
  BY <1>0 DEF TypeInv
<1>2. Marks BY DEF Marks, An, Fin, Legged
<1>3. RingInv'
  <2>1. \A s \in Frames : SameButMemo(ring'[Slot(s)], ring[Slot(s)]) BY DEF SameButMemo
  <2>2. \A s \in Frames : Kept(s)' => Kept(s) BY DEF Kept
  <2> QED BY <1>0, <1>2, <2>1, <2>2, RingKeeps
<1>4. MemoInv'
  <2>1. \A s \in Frames : s > popped' /\ Reached(s) => Reached(s)'
    <3> HIDE DEF Reached
    <3> QED OBVIOUS
  <2> QED BY <1>0, <1>1, <2>1, MemoKeeps
<1>5. WarmInv' BY <1>0, <1>1, WarmKeeps
<1>6. TypeInv' BY <1>0 DEF TypeInv
<1> QED BY <1>3, <1>4, <1>5, <1>6 DEF IInv

\* The waits, and the steps that only hand over to the next.
LEMMA StepWaits ==
  IInv /\ (ApiSleep \/ BeginPush \/ PadWait \/ PopWait \/ TreeWait \/ Settle) => IInv'
<1> SUFFICES ASSUME IInv, ApiSleep \/ BeginPush \/ PadWait \/ PopWait \/ TreeWait \/ Settle
             PROVE  IInv'
  OBVIOUS
<1>0. TypeInv /\ CountInv /\ WarmInv /\ WalkInv BY DEF IInv
<1>1. /\ pushed \in Nat /\ done \in Nat /\ popped \in Nat /\ LaCap \in Nat /\ N \in Nat
      /\ BFrames \in Nat /\ LaDepth \in Nat /\ LaBuf \in Nat /\ LaCap >= 4 /\ done <= pushed
  BY <1>0, Sizes DEF TypeInv, CountInv
<1>2. UNCHANGED <<kind, mbtree, ring, pushed, popped, done, cpc, wpc, warm, wsources, sources>>
  BY DEF ApiSleep, BeginPush, PadWait, PopWait, TreeWait, Settle, chainVars, warmVars
<1>3. TreeNeed \in Int /\ SettleExt \in Int BY <1>1 DEF TreeNeed, SettleExt
<1>4. \A x \in Int : Through(x) => done >= x \/ done = pushed BY <1>1 DEF Through, Clamped
<1>5. \A s \in Frames : s > popped /\ Reached(s) => Reached(s)' BY <1>2 DEF Reached
<1>6. WalkInv' <=> (apc' \in {"settle", "phaseA"} =>
                      sources \subseteq {s \in Frames : popped < s /\ s <= WindowEnd /\ s < pushed})
  BY <1>2 DEF WalkInv, WindowEnd
<1>7. CASE ApiSleep
  <2>1. apc' = apc BY <1>7 DEF ApiSleep
  <2>2. CountInv' BY <2>1, <1>0, <1>2, ApiCounts DEF CountInv
  <2>3. WalkInv' BY <2>1, <1>0, <1>6 DEF WalkInv
  <2>4. Padded' = Padded BY <2>1, <1>2 DEF Padded
  <2> QED BY <2>1, <2>2, <2>3, <2>4, <1>0, <1>2, <1>5, ApiQuiet DEF WarmInv
<1>8. CASE BeginPush
  <2>1. apc = "idle" /\ apc' = "padwait" /\ pushed < N BY <1>8 DEF BeginPush
  <2>2. CountInv' BY <2>1, <1>0, <1>2, ApiCounts DEF PostPop, Popping, Walking
  <2>3. WalkInv' BY <2>1, <1>6
  <2>4. Padded' = Padded BY <2>1, <1>2 DEF Padded
  <2> QED BY <2>1, <2>2, <2>3, <2>4, <1>2, <1>5, ApiQuiet DEF PostPop, Popping, Walking
<1>9. CASE PadWait
  <2>1. apc = "padwait" /\ apc' = "pad" /\ Through(PadNeed) BY <1>9 DEF PadWait
  <2>2. pushed < N BY <2>1, <1>0 DEF CountInv
  <2>3. pushed + 1 <= done + LaCap BY <2>1, <1>1 DEF Through, Clamped, PadNeed
  <2>4. CountInv' BY <2>1, <2>2, <2>3, <1>0, <1>2, ApiCounts DEF PostPop, Popping, Walking
  <2>5. WalkInv' BY <2>1, <1>6
  <2>6. Padded' = Padded BY <2>1, <1>2 DEF Padded
  <2> QED BY <2>1, <2>4, <2>5, <2>6, <1>2, <1>5, ApiQuiet DEF PostPop, Popping, Walking
<1>10. CASE PopWait
  <2>1. apc = "popwait" /\ apc' = "popped" /\ Through(PopNeed) BY <1>10 DEF PopWait
  <2>2. done >= popped + BFrames + 2 \/ done = pushed BY <2>1, <1>1, <1>4 DEF PopNeed
  <2>3. popped > 0 BY <2>1, <1>0 DEF CountInv, PostPop, Popping
  <2>4. CountInv' BY <2>1, <2>2, <2>3, <1>0, <1>2, ApiCounts DEF Walking
  <2>5. WalkInv' BY <2>1, <1>6
  <2>6. Padded' = Padded BY <2>1, <1>2 DEF Padded
  <2> QED BY <2>1, <2>4, <2>5, <2>6, <1>2, <1>5, ApiQuiet DEF PostPop, Popping, Walking
<1>11. CASE TreeWait
  <2>1. apc = "treewait" /\ apc' = "join" /\ Through(TreeNeed) BY <1>11 DEF TreeWait
  <2>2. done >= TreeNeed \/ done = pushed BY <2>1, <1>3, <1>4
  <2>3. popped > 0 BY <2>1, <1>0 DEF CountInv, PostPop
  <2>4. mbtree /\ IsAnchor(popped) BY <2>1, <1>0 DEF WarmInv, PostPop, Popping
  <2>5. CountInv' BY <2>1, <2>2, <2>3, <1>0, <1>2, ApiCounts
  <2>6. WalkInv' BY <2>1, <1>6
  <2>7. Padded' = Padded BY <2>1, <1>2 DEF Padded
  <2> QED BY <2>1, <2>4, <2>5, <2>6, <2>7, <1>2, <1>5, ApiQuiet DEF PostPop, Popping, Walking
<1>12. CASE Settle
  <2>1. apc = "settle" /\ apc' = "phaseA" /\ Through(TreeNeed + SettleExt) BY <1>12 DEF Settle
  <2>2. done >= TreeNeed + SettleExt \/ done = pushed BY <2>1, <1>3, <1>4
  <2>3. done >= TreeNeed \/ done = pushed BY <2>1, <1>0 DEF CountInv, Walking
  <2>4. popped > 0 BY <2>1, <1>0 DEF CountInv, PostPop, Walking
  <2>5. mbtree /\ IsAnchor(popped) /\ wpc = "none" BY <2>1, <1>0 DEF WarmInv, PostPop, Popping, Walking
  <2>6. CountInv' BY <2>1, <2>2, <2>3, <2>4, <1>0, <1>2, ApiCounts
  <2>7. WalkInv' BY <2>1, <1>0, <1>6 DEF WalkInv
  <2>8. Padded' = Padded BY <2>1, <1>2 DEF Padded
  <2> QED BY <2>1, <2>5, <2>6, <2>7, <2>8, <1>2, <1>5, ApiQuiet DEF PostPop, Popping, Walking
<1> QED BY <1>7, <1>8, <1>9, <1>10, <1>11, <1>12

\* The walk lists what the chain has typed: never the last picture pushed.
LEMMA StepWalks == IInv /\ (Join \/ Walk) => IInv'
<1> SUFFICES ASSUME IInv, Join \/ Walk PROVE IInv' OBVIOUS
<1>0. TypeInv /\ CountInv /\ RingInv /\ WarmInv /\ WalkInv BY DEF IInv
<1>1. /\ pushed \in Nat /\ done \in Nat /\ popped \in Nat /\ LaCap \in Nat /\ N \in Nat
      /\ BFrames \in Nat /\ LaDepth \in Nat /\ LaBuf \in Nat /\ LaCap >= 4 /\ done <= pushed
      /\ pushed <= N /\ (Running => done < pushed)
  BY <1>0, Sizes DEF TypeInv, CountInv
<1>2. /\ UNCHANGED <<kind, mbtree, ring, pushed, popped, done, cpc, warm, wsources>>
      /\ apc \in {"join", "walk"} /\ apc' \in Walking /\ apc' \in {"walk", "settle"}
      /\ apc' # "phaseA" /\ apc \in PostPop \ Popping
  BY DEF Join, Walk, chainVars, warmVars, PostPop, Walking, Popping
<1>3. /\ popped > 0 /\ (done >= TreeNeed \/ done = pushed)
      /\ mbtree /\ IsAnchor(popped) /\ (apc = "walk" => wpc = "none")
  BY <1>0, <1>2 DEF WarmInv, CountInv, PostPop, Popping, Walking
<1>4. CountInv' BY <1>0, <1>2, <1>3, ApiCounts DEF Popping, Walking
<1>5. Padded' = Padded BY <1>2 DEF Padded
<1>6. /\ wpc' = "none" /\ (wpc' = wpc \/ (wpc # "none" /\ wpc' \notin {"scan", "compute"}))
  <2>1. CASE Join BY <2>1 DEF Join, WarmOver
  <2>2. CASE Walk BY <2>2, <1>3 DEF Walk, warmVars
  <2> QED BY <2>1, <2>2
<1>7. \A s \in Frames : s > popped /\ Reached(s) => Reached(s)'
  <2> SUFFICES ASSUME NEW s \in Frames, s > popped, Reached(s) PROVE Reached(s)' OBVIOUS
  <2>1. CASE s + 4 + BFrames <= popped + LaDepth BY <2>1, <1>2 DEF Reached
  <2>2. CASE wpc = "done" /\ warm.anchor # None /\ s + 4 + BFrames <= warm.anchor + LaDepth
    <3>1. warm.anchor <= popped BY <2>2, <1>0, <1>2, JoinIsAt
    <3>2. warm.anchor \in Nat BY <2>2, <1>0, <1>1 DEF WarmInv, Frames
    <3>3. s + 4 + BFrames <= popped + LaDepth BY <2>2, <3>1, <3>2, <1>1 DEF Frames
    <3> QED BY <3>3, <1>2 DEF Reached
  <2> QED BY <2>1, <2>2 DEF Reached
<1>8. WalkInv'
  <2>1. CASE Join BY <2>1 DEF Join, WalkInv
  <2>2. CASE Walk
    <3>1. sources' \subseteq Enumerated(popped + 1, WindowEnd) BY <2>2 DEF Walk, Bracketed
    <3>2. WindowEnd' = WindowEnd /\ WindowEnd \in Int /\ WindowEnd <= pushed
          /\ WindowEnd < TreeNeed /\ TreeNeed \in Int
      BY <1>1, <1>2 DEF WindowEnd, TreeNeed
    <3>3. ASSUME NEW s \in sources' PROVE s \in Frames /\ popped < s /\ s <= WindowEnd /\ s < pushed
      <4>1. /\ s \in popped + 1 .. WindowEnd
            /\ \A t \in popped + 1 .. s : ring[Slot(t)].typed /\ kind[t] # "idr"
        BY <3>1, <3>3 DEF Enumerated
      <4>2. s \in Frames /\ popped < s /\ s <= WindowEnd /\ s <= pushed /\ s \in Nat
        BY <4>1, <3>2, <1>1 DEF Frames
      <4>3. CASE done >= TreeNeed BY <4>2, <4>3, <3>2, <1>1
      <4>4. CASE done = pushed
        <5>1. An = pushed /\ Fin = pushed - 1 BY <4>4, <1>1 DEF An, Fin, Running
        <5> SUFFICES ASSUME s = pushed PROVE FALSE BY <4>2, <1>1
        <5>2. Held(s) /\ Kept(s) /\ s > Fin BY <4>2, <5>1, <1>1 DEF Held, Kept
        <5>3. ~Entry(s).typed BY <4>2, <5>2, <1>0 DEF RingInv
        <5>4. s \in popped + 1 .. s BY <4>2, <1>1
        <5> QED BY <4>1, <5>3, <5>4 DEF Entry
      <4> QED BY <1>3, <4>2, <4>3, <4>4
    <3> QED BY <3>2, <3>3, <1>2 DEF WalkInv
  <2> QED BY <2>1, <2>2
<1> QED BY <1>2, <1>3, <1>4, <1>5, <1>6, <1>7, <1>8, ApiQuiet DEF PostPop, Popping, Walking

\* A pop before the join does not get past the anchor the prefetch is for.
LEMMA WarmPops ==
  ASSUME TypeInv, WarmInv, UNCHANGED <<kind, mbtree, warm, wpc, wsources, done>>,
         popped' = popped + 1, pushed' \in Nat, pushed <= pushed',
         apc \notin PostPop, apc' \in Popping
  PROVE  WarmInv'
<1>0. pushed \in Nat /\ done \in Nat /\ popped \in Nat /\ warm.head \in Nat /\ warm.pushed \in Nat
  BY DEF TypeInv
<1>1. \A s : IsAnchor(s)' = IsAnchor(s) BY KindSame
<1>2. /\ warm.head' <= popped' /\ warm.pushed' <= pushed' /\ warm.head < popped'
      /\ (warm'.anchor # None => /\ warm'.anchor \in Frames /\ warm'.head < warm'.anchor
                                 /\ \A t \in warm'.head + 1 .. warm'.anchor - 1 : ~IsAnchor(t)')
  BY <1>0, <1>1 DEF WarmInv
<1>3. warm.anchor # None => IsAnchor(warm.anchor)' BY DEF WarmInv, IsAnchor
<1>4. (~mbtree' => wpc' = "none") BY DEF WarmInv
<1>5. apc' \in PostPop /\ apc' \notin PostPop \ Popping /\ apc' \notin Walking
  BY DEF PostPop, Popping, Walking
<1>6. mbtree' => \A t \in warm'.head + 1 .. popped' : IsAnchor(t)' => t = popped' /\ apc' \in PostPop
  <2> SUFFICES ASSUME mbtree, NEW t \in warm.head + 1 .. popped', IsAnchor(t)
               PROVE  t = popped'
    BY <1>1, <1>5
  <2>1. ~(t \in warm.head + 1 .. popped) BY DEF WarmInv
  <2> QED BY <2>1, <1>0
<1>7. wpc' \in {"scan", "compute"} => done' >= WarmEnd' + 1 /\ WarmEnd' >= WarmFirst'
  BY DEF WarmInv, WarmEnd, WarmFirst
<1>8. wpc' = "compute" => /\ warm'.anchor # None /\ warm'.anchor <= WarmEnd'
                          /\ wsources' \subseteq {s \in Frames : /\ warm'.anchor < s /\ s <= WarmEnd'
                                                                 /\ s <= warm'.anchor + LaDepth - 2}
  BY DEF WarmInv, WarmEnd
<1> HIDE DEF PostPop, Walking, Popping
<1> QED BY <1>2, <1>3, <1>4, <1>5, <1>6, <1>7, <1>8 DEF WarmInv

\* A flush waits for the chain, then pops.
LEMMA StepEnds ==
  IInv /\ (BeginFlush \/ FlushPop \/ BeginClose \/ CloseChain \/ Closed) => IInv'
<1> SUFFICES ASSUME IInv, BeginFlush \/ FlushPop \/ BeginClose \/ CloseChain \/ Closed
             PROVE  IInv'
  OBVIOUS
<1>0. TypeInv /\ CountInv /\ RingInv /\ MemoInv /\ WarmInv BY DEF IInv
<1>1. /\ pushed \in Nat /\ done \in Nat /\ popped \in Nat /\ LaCap \in Nat /\ N \in Nat
      /\ BFrames \in Nat /\ LaDepth \in Nat /\ LaBuf \in Nat /\ LaCap >= 4 /\ done <= pushed
      /\ popped <= pushed /\ pushed <= N /\ pushed < popped + LaCap /\ pushed <= done + LaCap
  BY <1>0, Sizes DEF TypeInv, CountInv
<1>2. /\ UNCHANGED <<kind, mbtree, ring, pushed, done, wpc, warm, wsources, sources>>
      /\ (cpc' = cpc \/ (cpc = "asleep" /\ cpc' = "idle"))
      /\ apc \in {"idle", "flush", "close", "closela"}
      /\ apc' \in {"idle", "flush", "close", "closela", "closed", "popped"}
      /\ (apc' = "popped" => apc = "flush")
  BY DEF BeginFlush, FlushPop, BeginClose, CloseChain, Closed, WakeChain, chainVars, warmVars
<1>3. apc \notin PostPop /\ apc' \notin Walking \cup {"join"} /\ apc' \notin {"padwait", "pad", "push", "popwait"}
  BY <1>2 DEF PostPop, Popping, Walking
<1>4. WalkInv' BY <1>2 DEF WalkInv
<1>5. Padded' = Padded BY <1>2 DEF Padded
<1>6. CASE apc' # "popped"
  <2>1. popped' = popped BY <1>6 DEF BeginFlush, FlushPop, BeginClose, CloseChain, Closed
  <2>2. apc' \notin PostPop BY <1>2, <1>6 DEF PostPop, Popping, Walking
  <2>3. CountInv' BY <2>1, <2>2, <1>0, <1>2, <1>3, <1>6, ApiCounts DEF Walking
  <2>4. \A s \in Frames : s > popped /\ Reached(s) => Reached(s)' BY <2>1, <1>2 DEF Reached
  <2> QED BY <2>1, <2>2, <2>3, <2>4, <1>2, <1>3, <1>4, <1>5, ApiQuiet DEF PostPop, Popping, Walking
<1>7. CASE apc' = "popped"
  <2>1. popped' = popped + 1 /\ popped < pushed /\ Through(pushed) /\ cpc' = cpc
    BY <1>2, <1>7 DEF BeginFlush, FlushPop, BeginClose, CloseChain, Closed, chainVars
  <2>2. done = pushed BY <2>1, <1>1 DEF Through, Clamped
  <2>3. CountInv'
    <3>1. Links(done)' = Links(done) BY <1>2 DEF Links
    <3>2. /\ (Running' => done' < pushed') /\ (cpc' \in {"finalize", "legs"} => done' > 0)
          /\ (cpc' = "legs" => Links(done)')
      BY <3>1, <2>1, <1>0, <1>2 DEF CountInv, Running
    <3>3. apc' \notin {"padwait", "pad", "push", "popwait", "join", "phaseA"} \cup Walking
      BY <1>7 DEF Walking
    <3> HIDE DEF TreeNeed, SettleExt, Running, Links, Walking, PostPop
    <3> QED BY <3>2, <3>3, <2>1, <2>2, <1>1, <1>2 DEF CountInv
  <2>4. Marks BY <2>1, <1>2, <1>5 DEF Marks, An, Fin, Legged
  <2>5. RingInv'
    <3>1. \A s \in Frames : SameButMemo(ring'[Slot(s)], ring[Slot(s)]) BY <1>2 DEF SameButMemo
    <3>2. \A s \in Frames : Kept(s)' => Kept(s) BY <2>1, <1>1 DEF Kept, Frames
    <3> QED BY <1>0, <2>4, <3>1, <3>2, RingKeeps
  <2>6. MemoInv'
    <3>1. \A s \in Frames : s > popped' /\ Reached(s) => Reached(s)'
      BY <2>1, <1>1, <1>2 DEF Reached, Frames
    <3> QED BY <3>1, <2>1, <1>0, <1>1, <1>2, MemoKeeps
  <2>7. WarmInv' BY <2>1, <1>0, <1>1, <1>2, <1>3, <1>7, WarmPops DEF Popping
  <2>8. TypeInv' BY <2>1, <1>0, <1>2 DEF TypeInv
  <2> QED BY <2>3, <2>5, <2>6, <2>7, <2>8, <1>4 DEF IInv
<1> QED BY <1>6, <1>7

\* The launch: the anchor is the first behind the one just walked.
LEMMA SeenIs ==
  ASSUME TypeInv, NextSeen # None, pushed <= N
  PROVE  /\ NextSeen \in Frames /\ popped < NextSeen /\ IsAnchor(NextSeen)
         /\ \A t \in popped + 1 .. NextSeen - 1 : ~IsAnchor(t)
<1>0. pushed \in Nat /\ popped \in Nat /\ N \in Nat BY Sizes DEF TypeInv
<1>1. PICK seen : seen = {s \in popped + 1 .. pushed : SeenTyped(s) /\ IsAnchor(s)} OBVIOUS
<1>2. NextSeen = IF seen = {} THEN None ELSE CHOOSE s \in seen : \A t \in seen : s <= t
  BY <1>1 DEF NextSeen
<1>3. seen # {} BY <1>2
<1>4. seen \subseteq Nat BY <1>0, <1>1
<1>5. \E m \in seen : \A t \in seen : m <= t BY <1>3, <1>4, Least
<1>6. NextSeen \in seen /\ \A t \in seen : NextSeen <= t BY <1>2, <1>3, <1>5, Zenon
<1>7. PICK m \in seen : m = NextSeen BY <1>6
<1>8. m \in popped + 1 .. pushed /\ SeenTyped(m) /\ IsAnchor(m) BY <1>1
<1>9. ASSUME NEW t \in popped + 1 .. m - 1 PROVE ~IsAnchor(t)
  <2> SUFFICES ASSUME IsAnchor(t) PROVE FALSE OBVIOUS
  <2>1. t \in popped + 1 .. pushed /\ t < m BY <1>0, <1>8
  <2>2. \A r \in popped + 1 .. t : r \in popped + 1 .. m BY <1>0, <1>8, <2>1
  <2>3. SeenTyped(t) BY <1>8, <2>2 DEF SeenTyped
  <2>4. t \in seen BY <1>1, <2>1, <2>3
  <2>5. m <= t BY <1>6, <1>7, <2>4
  <2> QED BY <1>0, <1>8, <2>1, <2>5
<1> QED BY <1>0, <1>7, <1>8, <1>9 DEF Frames

LEMMA StepLaunch == IInv /\ Launch => IInv'
<1> SUFFICES ASSUME IInv, Launch PROVE IInv' OBVIOUS
<1>0. TypeInv /\ CountInv /\ RingInv /\ MemoInv /\ WarmInv BY DEF IInv
<1>1. /\ pushed \in Nat /\ done \in Nat /\ popped \in Nat /\ N \in Nat /\ popped <= pushed /\ pushed <= N
  BY <1>0, Sizes DEF TypeInv, CountInv
<1>2. /\ UNCHANGED <<kind, mbtree, ring, pushed, popped, done, cpc, wsources>>
      /\ apc = "launch" /\ apc' = "idle" /\ wpc' = "posted"
      /\ warm' = [head |-> popped, pushed |-> pushed, anchor |-> NextSeen]
  BY DEF Launch, chainVars
<1>3. wpc = "none" /\ mbtree BY <1>0, <1>2 DEF WarmInv, Walking, Popping, PostPop
<1>4. CountInv' BY <1>0, <1>2, ApiCounts DEF PostPop, Popping, Walking
<1>5. Marks BY <1>2 DEF Marks, An, Fin, Legged, Padded
<1>6. RingInv'
  <2>1. \A s \in Frames : SameButMemo(ring'[Slot(s)], ring[Slot(s)]) BY <1>2 DEF SameButMemo
  <2>2. \A s \in Frames : Kept(s)' => Kept(s) BY <1>2 DEF Kept, Popping
  <2> QED BY <1>0, <1>5, <2>1, <2>2, RingKeeps
<1>7. MemoInv'
  <2>1. \A s \in Frames : s > popped' /\ Reached(s) => Reached(s)' BY <1>2, <1>3 DEF Reached
  <2> QED BY <2>1, <1>0, <1>1, <1>2, MemoKeeps
<1>8. warm'.head = popped /\ warm'.pushed = pushed /\ warm'.anchor = NextSeen BY <1>2
<1>9. WarmInv'
  <2>1. \A s : IsAnchor(s)' = IsAnchor(s) BY <1>2, KindSame
  <2>2. NextSeen # None => /\ NextSeen \in Frames /\ popped < NextSeen /\ IsAnchor(NextSeen)
                           /\ \A t \in popped + 1 .. NextSeen - 1 : ~IsAnchor(t)
    BY <1>0, <1>1, SeenIs
  <2>3. warm'.anchor # None => /\ warm'.anchor \in Frames /\ warm'.head < warm'.anchor
                               /\ kind'[warm'.anchor] # "b"
                               /\ \A t \in warm'.head + 1 .. warm'.anchor - 1 : ~IsAnchor(t)'
    BY <1>2, <1>8, <2>1, <2>2 DEF IsAnchor
  <2>4. \A t \in warm'.head + 1 .. popped' : FALSE BY <1>1, <1>2, <1>8
  <2>5. /\ warm'.head <= popped' /\ warm'.pushed <= pushed' BY <1>1, <1>2, <1>8
  <2>6. apc' \notin PostPop /\ apc' \notin Walking BY <1>2 DEF PostPop, Popping, Walking
  <2> QED BY <2>3, <2>4, <2>5, <2>6, <1>2, <1>3 DEF WarmInv, IsAnchor
<1>10. WalkInv' BY <1>2 DEF WalkInv
<1>11. TypeInv' BY <1>0, <1>1, <1>2, <1>8 DEF TypeInv
<1> QED BY <1>4, <1>6, <1>7, <1>9, <1>10, <1>11 DEF IInv

\* A picture is padded into a slot that the ring has no picture in.
LEMMA StepPad == IInv /\ Pad => IInv'
<1> SUFFICES ASSUME IInv, Pad PROVE IInv' OBVIOUS
<1>0. TypeInv /\ CountInv /\ RingInv /\ MemoInv /\ WarmInv BY DEF IInv
<1>1. /\ pushed \in Nat /\ done \in Nat /\ popped \in Nat /\ N \in Nat /\ LaCap \in Nat
      /\ pushed < N /\ pushed + 1 <= done + LaCap /\ apc = "pad" /\ apc' = "push"
  BY <1>0, Sizes DEF TypeInv, CountInv, Pad
<1>2. UNCHANGED <<kind, mbtree, pushed, popped, done, cpc, wpc, warm, wsources, sources>>
  BY DEF Pad, chainVars, warmVars
<1>3. PICK n \in Frames : n = pushed + 1 /\ n \in Nat BY <1>1 DEF Frames
<1>4. PICK e : e = [ring[Slot(n)] EXCEPT !.plane = n] OBVIOUS
<1>5. Slot(n) \in Slots /\ EntryIs(ring[Slot(n)]) BY <1>0, <1>3, SlotIs DEF TypeInv
<1>6. e.plane = n /\ SameButPlane(e, ring[Slot(n)]) /\ EntryIs(e)
  BY <1>4, <1>5 DEF EntryIs, SameButPlane
<1>7. /\ ring' = [i \in Slots |-> ring'[i]] /\ ring'[Slot(n)] = e
      /\ \A i \in Slots : i # Slot(n) => ring'[i] = ring[i]
  <2>1. ring = [i \in Slots |-> ring[i]] BY <1>0 DEF TypeInv
  <2>2. ring' = [ring EXCEPT ![Slot(n)].plane = n] BY <1>3 DEF Pad
  <2>3. ring' = [ring EXCEPT ![Slot(n)] = e] BY <2>1, <2>2, <1>4, <1>5
  <2> QED BY <2>1, <2>3, <1>5
<1>8. \A i \in Slots : SameButPlane(ring'[i], ring[i]) BY <1>6, <1>7 DEF SameButPlane
<1>9. RingInv'
  <2>1. An' = An /\ Fin' = Fin /\ Legged' = Legged BY <1>2 DEF An, Fin, Legged
  <2>2. Padded = pushed /\ Padded' = n BY <1>1, <1>2, <1>3 DEF Padded
  <2>3. \A s \in Frames : s \in Nat /\ Slot(s) \in Slots BY <1>1, SlotIs DEF Frames
  <2>4. ASSUME NEW s \in Frames, Padded' < s + LaCap, s <= Padded'
        PROVE  ring'[Slot(s)].plane = s
    <3>1. CASE s = n BY <3>1, <1>6, <1>7
    <3>2. CASE s # n
      <4>1. pushed < s + LaCap /\ s <= pushed /\ s < n + LaCap /\ n < s + LaCap
        BY <3>2, <2>2, <2>3, <2>4, <1>1, <1>3
      <4>2. Slot(s) # Slot(n) BY <4>1, <3>2, <2>3, <1>3, SlotsApart
      <4>3. ring'[Slot(s)] = ring[Slot(s)] BY <4>2, <2>3, <1>7
      <4> QED BY <4>1, <4>3, <2>2, <1>0 DEF RingInv, Entry
    <3> QED BY <3>1, <3>2
  <2>5. \A s \in Frames : SameButPlane(ring'[Slot(s)], ring[Slot(s)]) BY <1>8, <2>3
  <2>6. \A s \in Frames : Kept(s)' => Kept(s) BY <1>1, <1>2 DEF Kept, Popping
  <2>7. \A s \in Frames : /\ ring'[Slot(s)].lowres = ring[Slot(s)].lowres
                          /\ (ring[Slot(s)].typed => ring'[Slot(s)].typed)
    BY <2>5 DEF SameButPlane
  <2>8. \A s \in Frames : Held(s) /\ Kept(s)' => /\ Kept(s)
                                                 /\ ring'[Slot(s)].typed = ring[Slot(s)].typed
                                                 /\ ring'[Slot(s)].legs = ring[Slot(s)].legs
    BY <2>5, <2>6 DEF SameButPlane
  <2> QED BY <2>1, <2>4, <2>7, <2>8, <1>0, <1>2, RingHolds
<1>10. MemoInv'
  <2>1. \A s \in Frames : s > popped' /\ Reached(s) => Reached(s)' BY <1>2 DEF Reached
  <2>2. \A s \in Frames : ring'[Slot(s)].memo = ring[Slot(s)].memo
    BY <1>1, <1>8, SlotIs DEF SameButPlane, Frames
  <2> QED BY <2>1, <2>2, <1>0, <1>1, <1>2, MemoKeeps
<1>11. WarmInv'
  <2>1. apc \notin PostPop /\ apc' \notin PostPop /\ apc' \notin Walking
    BY <1>1 DEF PostPop, Popping, Walking
  <2> QED BY <2>1, <1>0, <1>1, <1>2, WarmKeeps DEF TypeInv
<1>12. CountInv' BY <1>0, <1>1, <1>2, ApiCounts DEF PostPop, Popping, Walking
<1>13. WalkInv' BY <1>1 DEF WalkInv
<1>14. TypeInv'
  <2>1. \A i \in Slots : EntryIs(ring'[i])
    <3>1. \A i \in Slots : EntryIs(ring[i]) BY <1>0 DEF TypeInv
    <3> QED BY <3>1, <1>6, <1>7
  <2> QED BY <2>1, <1>0, <1>2, <1>7 DEF TypeInv
<1> QED BY <1>9, <1>10, <1>11, <1>12, <1>13, <1>14 DEF IInv

\* A push claims the slot and clears its memo; in a full ring it pops.
LEMMA StepPush == IInv /\ Push => IInv'
<1> SUFFICES ASSUME IInv, Push PROVE IInv' OBVIOUS
<1>0. TypeInv /\ CountInv /\ RingInv /\ MemoInv /\ WarmInv BY DEF IInv
<1>1. /\ pushed \in Nat /\ done \in Nat /\ popped \in Nat /\ N \in Nat /\ LaCap \in Nat /\ LaCap >= 4
      /\ pushed < N /\ pushed + 1 <= done + LaCap /\ apc = "push" /\ pushed' = pushed + 1
      /\ done <= pushed /\ popped <= pushed /\ pushed < popped + LaCap
  BY <1>0, Sizes DEF TypeInv, CountInv, Push
<1>2. /\ UNCHANGED <<kind, mbtree, done, wpc, warm, wsources, sources>>
      /\ (cpc' = cpc \/ (cpc = "asleep" /\ cpc' = "idle"))
  BY DEF Push, warmVars, WakeChain
<1>3. PICK n \in Frames : n = pushed + 1 /\ n \in Nat BY <1>1 DEF Frames
<1>4. PICK e : e = [ring[Slot(n)] EXCEPT !.memo = NoMemo] OBVIOUS
<1>5. Slot(n) \in Slots /\ EntryIs(ring[Slot(n)]) BY <1>0, <1>3, SlotIs DEF TypeInv
<1>6. e.memo = NoMemo /\ SameButMemo(e, ring[Slot(n)]) /\ EntryIs(e)
  BY <1>4, <1>5 DEF EntryIs, SameButMemo
<1>7. /\ ring' = [i \in Slots |-> ring'[i]] /\ ring'[Slot(n)] = e
      /\ \A i \in Slots : i # Slot(n) => ring'[i] = ring[i]
  <2>1. ring = [i \in Slots |-> ring[i]] BY <1>0 DEF TypeInv
  <2>2. ring' = [ring EXCEPT ![Slot(n)].memo = NoMemo] BY <1>3 DEF Push, MemoCleared
  <2>3. ring' = [ring EXCEPT ![Slot(n)] = e] BY <2>1, <2>2, <1>4, <1>5
  <2> QED BY <2>1, <2>3, <1>5
<1>8. /\ popped' \in Nat /\ popped <= popped' /\ popped' < pushed' /\ pushed' < popped' + LaCap
      /\ \/ apc' = "popwait" /\ popped' = popped + 1
         \/ apc' = "idle" /\ popped' = popped
  <2>1. CASE Full BY <2>1, <1>1 DEF Push, Full
  <2>2. CASE ~Full BY <2>2, <1>1 DEF Push, Full
  <2> QED BY <2>1, <2>2
<1>9. RingInv'
  <2>1. Marks BY <1>1, <1>2, <1>8 DEF Marks, An, Fin, Legged, Padded
  <2>2. \A s \in Frames : Slot(s) \in Slots BY <1>1, SlotIs DEF Frames
  <2>3. \A s \in Frames : SameButMemo(ring'[Slot(s)], ring[Slot(s)])
    BY <2>2, <1>6, <1>7 DEF SameButMemo
  <2>4. \A s \in Frames : Kept(s)' => Kept(s) BY <1>1, <1>8 DEF Kept, Popping, Frames
  <2> QED BY <2>1, <2>3, <2>4, <1>0, RingKeeps
<1>10. MemoInv'
  <2>1. ASSUME NEW s \in Frames, s > popped', Reached(s) PROVE Reached(s)'
    <3>1. popped' = popped \/ popped' = popped + 1 BY <1>8
    <3> QED BY <2>1, <3>1, <1>1, <1>2, Sizes DEF Reached, Frames
  <2>2. ASSUME NEW s \in Frames, pushed' < s + LaCap, s <= pushed'
        PROVE  \/ ring'[Slot(s)].memo = NoMemo
               \/ s <= pushed /\ ring'[Slot(s)].memo = ring[Slot(s)].memo
    <3>1. s \in Nat /\ Slot(s) \in Slots BY <1>1, SlotIs DEF Frames
    <3>2. CASE s = n BY <3>2, <1>6, <1>7
    <3>3. CASE s # n
      <4>1. s <= pushed /\ s < n + LaCap /\ n < s + LaCap BY <2>2, <3>1, <3>3, <1>1, <1>3
      <4>2. Slot(s) # Slot(n) BY <4>1, <3>1, <3>3, <1>3, SlotsApart
      <4> QED BY <4>1, <4>2, <3>1, <1>7
    <3> QED BY <3>2, <3>3
  <2>3. \A s \in Frames : pushed' < s + LaCap /\ s <= pushed' =>
          \/ ring'[Slot(s)].memo = NoMemo
          \/ s <= pushed /\ ring'[Slot(s)].memo = ring[Slot(s)].memo
          \/ \E m : m = ring'[Slot(s)].memo /\ MemoIs(s, m)'
    BY <2>2
  <2>4. \A s \in Frames : s > popped' /\ Reached(s) => Reached(s)' BY <2>1
  <2>5. pushed' \in Nat /\ pushed <= pushed' /\ done' \in Nat /\ done <= done' BY <1>1, <1>2
  <2> HIDE DEF Reached, MemoIs, MemoInv
  <2> QED BY <2>3, <2>4, <2>5, <1>0, <1>2, <1>8, MemoHolds, Zenon
<1>11. WarmInv'
  <2>1. apc \notin PostPop /\ (apc' = "idle" => apc' \notin PostPop /\ apc' \notin Walking)
    BY <1>1 DEF PostPop, Popping, Walking
  <2>2. CASE apc' = "idle" /\ popped' = popped
    BY <2>1, <2>2, <1>0, <1>1, <1>2, WarmKeeps DEF TypeInv
  <2>3. CASE apc' = "popwait" /\ popped' = popped + 1
    BY <2>1, <2>3, <1>0, <1>1, <1>2, WarmPops DEF TypeInv, Popping
  <2> QED BY <2>2, <2>3, <1>8
<1>12. CountInv'
  <2>1. Links(done)' = Links(done) BY <1>2 DEF Links
  <2>2. /\ (Running' => done' < pushed') /\ (cpc' \in {"finalize", "legs"} => done' > 0)
        /\ (cpc' = "legs" => Links(done)')
    BY <2>1, <1>0, <1>1, <1>2 DEF CountInv, Running
  <2>3. /\ apc' \notin {"padwait", "pad", "push", "popped", "join", "phaseA"} \cup Walking
        /\ (apc' \in PostPop => popped' > 0)
    BY <1>1, <1>8 DEF Walking, PostPop, Popping
  <2>4. /\ pushed' <= N /\ done' <= pushed' /\ pushed' <= done' + LaCap /\ popped' <= pushed'
    BY <1>1, <1>2, <1>8
  <2> HIDE DEF TreeNeed, SettleExt, Running, Links, Walking, PostPop
  <2> QED BY <2>2, <2>3, <2>4, <1>8 DEF CountInv
<1>13. WalkInv' BY <1>8 DEF WalkInv
<1>14. TypeInv'
  <2>1. \A i \in Slots : EntryIs(ring'[i])
    <3>1. \A i \in Slots : EntryIs(ring[i]) BY <1>0 DEF TypeInv
    <3> QED BY <3>1, <1>6, <1>7
  <2> QED BY <2>1, <1>0, <1>1, <1>2, <1>7, <1>8 DEF TypeInv
<1> QED BY <1>9, <1>10, <1>11, <1>12, <1>13, <1>14 DEF IInv

\* What is popped untyped is the last picture of the input, behind the chain.
LEMMA LateIsLast ==
  ASSUME TypeInv, CountInv, RingInv, apc = "popped", ~Entry(popped).typed
  PROVE  popped = pushed /\ done = pushed /\ An = popped
<1>1. /\ pushed \in Nat /\ done \in Nat /\ popped \in Nat /\ N \in Nat /\ LaCap \in Nat
      /\ BFrames \in Nat /\ popped > 0 /\ popped <= pushed /\ pushed <= N
      /\ pushed < popped + LaCap /\ done <= pushed /\ (Running => done < pushed)
      /\ (done >= popped + BFrames + 2 \/ done = pushed)
  BY Sizes DEF TypeInv, CountInv, PostPop, Popping
<1>2. popped \in Frames BY <1>1 DEF Frames
<1>3. /\ (An = done \/ (Running /\ An = done + 1)) /\ Fin \in Int /\ Fin >= done - 1
      /\ (~Running => An = done /\ Fin = done - 1)
  BY <1>1 DEF An, Fin, Running
<1>4. An \in Int /\ An >= done /\ An <= pushed BY <1>1, <1>3
<1>5. Held(popped) BY <1>1, <1>4 DEF Held
<1>6. ~(popped <= Fin) BY <1>2, <1>5 DEF RingInv
<1>7. done = pushed BY <1>1, <1>3, <1>6
<1> QED BY <1>1, <1>3, <1>6, <1>7

LEMMA TailIs ==
  ASSUME TypeInv, popped \in Nat, popped > 0
  PROVE  /\ Tail(popped) = [i \in Slots |-> Tail(popped)[i]]
         /\ \A i \in Slots : /\ EntryIs(Tail(popped)[i])
                             /\ Tail(popped)[i].plane = ring[i].plane
                             /\ Tail(popped)[i].lowres = ring[i].lowres
                             /\ Tail(popped)[i].memo = ring[i].memo
                             /\ (ring[i].typed => Tail(popped)[i].typed)
         /\ (Entry(popped).typed => Tail(popped) = ring)
<1>1. CASE Entry(popped).typed
  <2>1. Tail(popped) = ring BY <1>1 DEF Tail, Entry
  <2> QED BY <2>1 DEF TypeInv
<1>2. CASE ~Entry(popped).typed
  <2> DEFINE New(i) == IF i = Slot(popped) THEN [ring[i] EXCEPT !.typed = TRUE, !.legs = Links(popped)]
                       ELSE IF Links(popped) /\ i \in LegsOf(popped) THEN [ring[i] EXCEPT !.legs = TRUE]
                       ELSE ring[i]
  <2>1. Tail(popped) = [i \in Slots |-> New(i)] BY <1>2 DEF Tail, Entry
  <2>2. ASSUME NEW i \in Slots
        PROVE  /\ EntryIs(New(i)) /\ New(i).plane = ring[i].plane
               /\ New(i).lowres = ring[i].lowres /\ New(i).memo = ring[i].memo
               /\ (ring[i].typed => New(i).typed)
    <3>1. EntryIs(ring[i]) BY DEF TypeInv
    <3>2. CASE i = Slot(popped)
      <4>1. PICK b \in BOOLEAN : b = Links(popped) BY DEF Links
      <4>2. New(i) = [ring[i] EXCEPT !.typed = TRUE, !.legs = b] BY <3>2, <4>1
      <4> QED BY <3>1, <4>2 DEF EntryIs
    <3>3. CASE i # Slot(popped) /\ Links(popped) /\ i \in LegsOf(popped)
      <4>1. New(i) = [ring[i] EXCEPT !.legs = TRUE] BY <3>3
      <4> QED BY <3>1, <4>1 DEF EntryIs
    <3>4. CASE i # Slot(popped) /\ ~(Links(popped) /\ i \in LegsOf(popped))
      <4>1. New(i) = ring[i] BY <3>4
      <4> QED BY <3>1, <4>1
    <3> QED BY <3>2, <3>3, <3>4
  <2> HIDE DEF New
  <2> QED BY <1>2, <2>1, <2>2
<1> QED BY <1>1, <1>2

LEMMA StepPopped == IInv /\ Popped => IInv'
<1> SUFFICES ASSUME IInv, Popped PROVE IInv' OBVIOUS
<1>0. TypeInv /\ CountInv /\ RingInv /\ MemoInv /\ WarmInv BY DEF IInv
<1>1. /\ pushed \in Nat /\ done \in Nat /\ popped \in Nat /\ N \in Nat /\ LaCap \in Nat
      /\ apc = "popped" /\ popped > 0 /\ popped <= pushed
      /\ apc' = (IF IsAnchor(popped) /\ mbtree THEN "treewait" ELSE "idle")
  BY <1>0, Sizes DEF TypeInv, CountInv, Popped, PostPop, Popping
<1>2. UNCHANGED <<kind, mbtree, pushed, popped, done, cpc, wpc, warm, wsources, sources>>
  BY DEF Popped, chainVars, warmVars
<1>3. PICK tail : tail = Tail(popped) OBVIOUS
<1>4. /\ tail = [i \in Slots |-> tail[i]]
      /\ \A i \in Slots : /\ EntryIs(tail[i]) /\ tail[i].plane = ring[i].plane
                          /\ tail[i].lowres = ring[i].lowres /\ tail[i].memo = ring[i].memo
                          /\ (ring[i].typed => tail[i].typed)
      /\ (Entry(popped).typed => tail = ring)
  BY <1>0, <1>1, <1>3, TailIs
<1>5. Slot(popped) \in Slots BY <1>1, SlotIs
<1>6. /\ ring' = [i \in Slots |-> ring'[i]]
      /\ \A i \in Slots : /\ EntryIs(ring'[i]) /\ SameButMemo(ring'[i], tail[i])
                          /\ (ring'[i].memo = ring[i].memo \/ ring'[i].memo = NoMemo)
  <2>1. CASE IsAnchor(popped)
    <3>1. ring' = tail BY <2>1, <1>3 DEF Popped
    <3> QED BY <3>1, <1>4 DEF SameButMemo
  <2>2. CASE ~IsAnchor(popped)
    <3>1. ring' = [tail EXCEPT ![Slot(popped)].memo = NoMemo] BY <2>2, <1>3 DEF Popped
    <3>2. PICK e : e = [tail[Slot(popped)] EXCEPT !.memo = NoMemo] OBVIOUS
    <3>3. ring' = [tail EXCEPT ![Slot(popped)] = e] BY <3>1, <3>2, <1>4, <1>5
    <3>4. e.memo = NoMemo /\ SameButMemo(e, tail[Slot(popped)]) /\ EntryIs(e)
      BY <3>2, <1>4, <1>5 DEF EntryIs, SameButMemo
    <3>5. /\ ring' = [i \in Slots |-> ring'[i]] /\ ring'[Slot(popped)] = e
          /\ \A i \in Slots : i # Slot(popped) => ring'[i] = tail[i]
      BY <3>3, <1>4, <1>5
    <3> QED BY <3>4, <3>5, <1>4 DEF SameButMemo
  <2> QED BY <2>1, <2>2
<1>7. Marks BY <1>1, <1>2 DEF Marks, An, Fin, Legged, Padded
<1>8. \A s \in Frames : s \in Nat /\ Slot(s) \in Slots BY <1>1, SlotIs DEF Frames
<1>9. RingInv'
  <2>1. \A s \in Frames : Kept(s)' => s > popped /\ Kept(s) BY <1>1, <1>2 DEF Kept, Popping
  <2>2. CASE Entry(popped).typed
    <3>1. \A s \in Frames : SameButMemo(ring'[Slot(s)], ring[Slot(s)]) BY <2>2, <1>4, <1>6, <1>8
    <3> QED BY <2>1, <3>1, <1>0, <1>7, RingKeeps
  <2>3. CASE ~Entry(popped).typed
    <3>1. An = popped BY <2>3, <1>0, <1>1, LateIsLast
    <3>2. \A s \in Frames : ~(Held(s) /\ Kept(s)') BY <2>1, <3>1, <1>1, <1>8 DEF Held
    <3>3. \A s \in Frames : Padded' < s + LaCap /\ s <= Padded' => ring'[Slot(s)].plane = s
      BY <1>0, <1>4, <1>6, <1>7, <1>8 DEF RingInv, Entry, Marks, SameButMemo
    <3>4. \A s \in Frames : /\ ring'[Slot(s)].lowres = ring[Slot(s)].lowres
                            /\ (ring[Slot(s)].typed => ring'[Slot(s)].typed)
      BY <1>4, <1>6, <1>8 DEF SameButMemo
    <3> HIDE DEF Held, Kept, RingInv
    <3> QED BY <3>2, <3>3, <3>4, <1>0, <1>7, RingHolds DEF Marks
  <2> QED BY <2>2, <2>3
<1>10. MemoInv'
  <2>1. \A s \in Frames : s > popped' /\ Reached(s) => Reached(s)' BY <1>2 DEF Reached
  <2>2. \A s \in Frames : ring'[Slot(s)].memo = ring[Slot(s)].memo \/ ring'[Slot(s)].memo = NoMemo
    BY <1>6, <1>8
  <2> HIDE DEF MemoInv, Reached
  <2> QED BY <2>1, <2>2, <1>0, <1>1, <1>2, MemoKeeps
<1>11. WarmInv'
  <2>1. /\ apc \in PostPop /\ apc' \notin Walking
        /\ (apc' \notin PostPop => ~mbtree \/ ~IsAnchor(popped))
        /\ (apc' \in PostPop \ Popping => mbtree /\ IsAnchor(popped))
    BY <1>1 DEF PostPop, Popping, Walking
  <2> QED BY <2>1, <1>0, <1>1, <1>2, WarmKeeps DEF TypeInv
<1>12. CountInv'
  <2>1. apc' \notin {"padwait", "pad", "push", "popwait", "popped", "join", "phaseA"} \cup Walking
    BY <1>1 DEF Walking
  <2> QED BY <2>1, <1>0, <1>1, <1>2, ApiCounts
<1>13. WalkInv' BY <1>1 DEF WalkInv
<1>14. TypeInv' BY <1>0, <1>2, <1>6 DEF TypeInv
<1> QED BY <1>9, <1>10, <1>11, <1>12, <1>13, <1>14 DEF IInv

\* Pricing writes the memos of its pictures, and those alone.
PricesOnly(R, S, among, settled, by) ==
  /\ R = [i \in Slots |-> R[i]]
  /\ \A i \in Slots : EntryIs(R[i]) /\ SameButMemo(R[i], ring[i])
  /\ \A s \in S : R[Slot(s)].memo = Priced(s, among, settled, by)
  /\ \A i \in Slots : R[i].memo = ring[i].memo \/ \E s \in S : Slot(s) = i

LEMMA PriceIs ==
  ASSUME TypeInv, NEW S, S \subseteq Frames, \A s, t \in S : s < t + LaCap,
         NEW among, NEW settled, NEW by, NEW R, R = Price(S, among, settled, by)
  PROVE  PricesOnly(R, S, among, settled, by)
<1>0. \A s \in S : s \in Nat /\ Slot(s) \in Slots BY Sizes, SlotIs DEF Frames
<1>1. R = [i \in Slots |-> R[i]] BY DEF Price
<1>2. ASSUME NEW i \in Slots, \A s \in S : Slot(s) # i PROVE R[i] = ring[i]
  BY <1>2 DEF Price
<1>3. ASSUME NEW s \in S PROVE R[Slot(s)] = [ring[Slot(s)] EXCEPT !.memo = Priced(s, among, settled, by)]
  <2>1. PICK c : c = CHOOSE t \in S : Slot(t) = Slot(s) OBVIOUS
  <2>2. c \in S /\ Slot(c) = Slot(s) BY <2>1
  <2>3. c < s + LaCap /\ s < c + LaCap BY <2>2
  <2>4. c = s BY <1>0, <2>2, <2>3, SlotsApart
  <2> HIDE DEF Priced
  <2>5. \E t \in S : Slot(t) = Slot(s) OBVIOUS
  <2>6. R[Slot(s)] = [ring[Slot(s)] EXCEPT !.memo = Priced(CHOOSE t \in S : Slot(t) = Slot(s), among, settled, by)]
    BY <1>0, <2>5 DEF Price
  <2> QED BY <2>1, <2>4, <2>6
<1>4. ASSUME NEW s \in S
      PROVE  /\ EntryIs(R[Slot(s)]) /\ SameButMemo(R[Slot(s)], ring[Slot(s)])
             /\ R[Slot(s)].memo = Priced(s, among, settled, by)
  <2>1. EntryIs(ring[Slot(s)]) BY <1>0 DEF TypeInv
  <2>2. PICK m : m = Priced(s, among, settled, by) OBVIOUS
  <2>3. R[Slot(s)] = [ring[Slot(s)] EXCEPT !.memo = m] BY <1>3, <2>2
  <2> QED BY <2>1, <2>2, <2>3 DEF EntryIs, SameButMemo
<1>5. ASSUME NEW i \in Slots PROVE EntryIs(R[i]) /\ SameButMemo(R[i], ring[i])
  <2>1. CASE \E s \in S : Slot(s) = i BY <2>1, <1>4
  <2>2. CASE ~\E s \in S : Slot(s) = i
    <3>1. R[i] = ring[i] BY <2>2, <1>2
    <3> QED BY <3>1 DEF TypeInv, SameButMemo
  <2> QED BY <2>1, <2>2
<1>6. \A i \in Slots : R[i].memo = ring[i].memo \/ \E s \in S : Slot(s) = i BY <1>2
<1> QED BY <1>1, <1>4, <1>5, <1>6 DEF PricesOnly

\* A picture of the ring with the slot of one that is priced is that picture.
LEMMA PricedIs ==
  ASSUME NEW s \in Frames, NEW t \in Frames, Slot(s) = Slot(t),
         pushed \in Nat, popped \in Nat, pushed < popped + LaCap,
         pushed < s + LaCap, s <= pushed, popped < t, t <= pushed
  PROVE  s = t
<1>1. s \in Nat /\ t \in Nat /\ LaCap \in Nat BY Sizes DEF Frames
<1>2. s < t + LaCap /\ t < s + LaCap BY <1>1
<1> QED BY <1>1, <1>2, SlotsApart

LEMMA StepPhaseA == IInv /\ PhaseA => IInv'
<1> SUFFICES ASSUME IInv, PhaseA PROVE IInv' OBVIOUS
<1>0. TypeInv /\ CountInv /\ RingInv /\ MemoInv /\ WarmInv /\ WalkInv BY DEF IInv
<1>1. /\ pushed \in Nat /\ done \in Nat /\ popped \in Nat /\ N \in Nat /\ LaCap \in Nat
      /\ LaDepth \in Nat /\ LaDepth <= LaCap /\ apc = "phaseA" /\ apc' = "launch" /\ popped > 0
      /\ pushed < popped + LaCap /\ mbtree /\ IsAnchor(popped) /\ wpc = "none"
      /\ (done >= TreeNeed \/ done = pushed)
  BY <1>0, Sizes DEF TypeInv, CountInv, PhaseA, PostPop, Popping, Walking, WarmInv
<1>2. UNCHANGED <<kind, mbtree, pushed, popped, done, cpc, wpc, warm, wsources>>
  BY DEF PhaseA, chainVars, warmVars
<1>3. PICK S : S = {s \in sources : ~Valid(s, sources)} OBVIOUS
<1>4. /\ \A s \in S : s \in Frames /\ popped < s /\ s <= WindowEnd /\ s < pushed
      /\ S \subseteq Frames
  BY <1>0, <1>1, <1>3 DEF WalkInv
<1>5. \A s, t \in S : s < t + LaCap BY <1>1, <1>4 DEF Frames
<1>6. ring' = Price(S, sources, Settled, "walk") BY <1>3 DEF PhaseA
<1>7. /\ ring' = [i \in Slots |-> ring'[i]]
      /\ \A i \in Slots : EntryIs(ring'[i]) /\ SameButMemo(ring'[i], ring[i])
      /\ \A s \in S : ring'[Slot(s)].memo = Priced(s, sources, Settled, "walk")
      /\ \A i \in Slots : ring'[i].memo = ring[i].memo \/ \E s \in S : Slot(s) = i
  <2>1. PICK c, R, b : c = Settled /\ R = ring' /\ b = "walk" OBVIOUS
  <2>2. R = Price(S, sources, c, b) BY <1>6, <2>1
  <2>3. PricesOnly(R, S, sources, c, b) BY <1>0, <1>4, <1>5, <2>2, PriceIs
  <2> QED BY <2>1, <2>3 DEF PricesOnly
<1>8. \A s \in Frames : s \in Nat /\ Slot(s) \in Slots BY <1>1, SlotIs DEF Frames
<1>9. RingInv'
  <2>1. Marks BY <1>1, <1>2 DEF Marks, An, Fin, Legged, Padded
  <2>2. \A s \in Frames : SameButMemo(ring'[Slot(s)], ring[Slot(s)]) BY <1>7, <1>8
  <2>3. \A s \in Frames : Kept(s)' => Kept(s) BY <1>1, <1>2 DEF Kept, Popping
  <2> QED BY <2>1, <2>2, <2>3, <1>0, RingKeeps
<1>10. MemoInv'
  <2>1. \A s \in Frames : s > popped' /\ Reached(s) => Reached(s)' BY <1>2 DEF Reached
  <2>2. ASSUME NEW s \in Frames, pushed' < s + LaCap, s <= pushed'
        PROVE  \/ s <= pushed /\ ring'[Slot(s)].memo = ring[Slot(s)].memo
               \/ \E m : m = ring'[Slot(s)].memo /\ MemoIs(s, m)'
    <3>1. CASE ring'[Slot(s)].memo = ring[Slot(s)].memo BY <3>1, <2>2, <1>2
    <3>2. CASE \E t \in S : Slot(t) = Slot(s)
      <4>1. PICK t \in S : Slot(t) = Slot(s) BY <3>2
      <4>2. s = t
        <5>1. t \in Frames /\ popped < t /\ t <= pushed
          BY <1>1, <1>4 DEF Frames
        <5>2. pushed < s + LaCap /\ s <= pushed BY <2>2, <1>2
        <5> QED BY <4>1, <5>1, <5>2, <1>1, PricedIs
      <4>3. PICK m : m = Priced(s, sources, Settled, "walk") OBVIOUS
      <4>4. m = ring'[Slot(s)].memo BY <4>1, <4>2, <4>3, <1>7
      <4>5. m = [of |-> s, key |-> m.key, by |-> m.by, reused |-> m.reused] /\ m.by = "walk"
        BY <4>3 DEF Priced
      <4>6. MemoIs(s, m)' BY <4>5 DEF MemoIs
      <4> QED BY <4>4, <4>6
    <3> QED BY <3>1, <3>2, <1>7, <1>8
  <2>3. \A s \in Frames : pushed' < s + LaCap /\ s <= pushed' =>
          \/ ring'[Slot(s)].memo = NoMemo
          \/ s <= pushed /\ ring'[Slot(s)].memo = ring[Slot(s)].memo
          \/ \E m : m = ring'[Slot(s)].memo /\ MemoIs(s, m)'
    BY <2>2, Zenon
  <2>4. /\ pushed' \in Nat /\ pushed <= pushed' /\ done' \in Nat /\ done <= done'
        /\ popped' \in Nat /\ popped <= popped'
    BY <1>1, <1>2
  <2> HIDE DEF Reached, MemoIs, MemoInv
  <2> QED BY <2>1, <2>3, <2>4, <1>0, <1>2, MemoHolds, Zenon
<1>11. WarmInv'
  <2>1. apc \in PostPop /\ apc' \in PostPop \ Popping BY <1>1 DEF PostPop, Popping, Walking
  <2> QED BY <2>1, <1>0, <1>1, <1>2, WarmKeeps DEF TypeInv
<1>12. CountInv'
  <2>1. apc' \notin {"padwait", "pad", "push", "popwait", "popped", "phaseA"} BY <1>1
  <2> QED BY <2>1, <1>0, <1>1, <1>2, ApiCounts
<1>13. WalkInv' BY <1>1 DEF WalkInv
<1>14. TypeInv' BY <1>0, <1>2, <1>7 DEF TypeInv
<1> QED BY <1>9, <1>10, <1>11, <1>12, <1>13, <1>14 DEF IInv

-----------------------------------------------------------------------------
(* The prefetch. *)

\* It lists entries behind its anchor and inside what the chain has typed.
LEMMA StepWarmTurns == IInv /\ (WarmWait \/ WarmScan) => IInv'
<1> SUFFICES ASSUME IInv, WarmWait \/ WarmScan PROVE IInv' OBVIOUS
<1>0. TypeInv /\ CountInv /\ RingInv /\ MemoInv /\ WarmInv /\ WalkInv BY DEF IInv
<1>1. /\ pushed \in Nat /\ done \in Nat /\ popped \in Nat /\ N \in Nat /\ LaDepth \in Nat
      /\ BFrames \in Nat /\ warm.head \in Nat /\ warm.pushed \in Nat /\ pushed <= N
  BY <1>0, Sizes DEF TypeInv, CountInv
<1>2. /\ UNCHANGED <<kind, mbtree, ring, pushed, popped, done, cpc, apc, warm, sources>>
      /\ wpc \in {"posted", "scan"} /\ wpc' \in {"done", "scan", "asleep", "compute"}
  BY DEF WarmWait, WarmScan, WarmReturns, chainVars
<1>3. Marks BY <1>2 DEF Marks, An, Fin, Legged, Padded
<1>4. RingInv'
  <2>1. \A s \in Frames : SameButMemo(ring'[Slot(s)], ring[Slot(s)]) BY <1>2 DEF SameButMemo
  <2>2. \A s \in Frames : Kept(s)' => Kept(s) BY <1>2 DEF Kept
  <2> QED BY <2>1, <2>2, <1>0, <1>3, RingKeeps
<1>5. MemoInv'
  <2>1. \A s \in Frames : s > popped' /\ Reached(s) => Reached(s)' BY <1>2 DEF Reached
  <2> HIDE DEF MemoInv, Reached
  <2> QED BY <2>1, <1>0, <1>1, <1>2, MemoKeeps
<1>6. CountInv' BY <1>0, <1>2, ApiCounts DEF CountInv
<1>7. WarmEnd' = WarmEnd /\ WarmFirst' = WarmFirst /\ WarmEnd \in Int /\ WarmFirst \in Int
  BY <1>1, <1>2 DEF WarmEnd, WarmFirst
<1>8. wpc' \in {"scan", "compute"} => done' >= WarmEnd' + 1 /\ WarmEnd' >= WarmFirst'
  <2>1. CASE WarmWait BY <2>1, <1>2, <1>7 DEF WarmWait, WarmReturns
  <2>2. CASE WarmScan
    <3>1. wpc = "scan" BY <2>2 DEF WarmScan
    <3>2. done >= WarmEnd + 1 /\ WarmEnd >= WarmFirst BY <3>1, <1>0 DEF WarmInv
    <3> QED BY <3>2, <1>2, <1>7
  <2> QED BY <2>1, <2>2
<1>9. wpc' = "compute" =>
        /\ warm'.anchor # None /\ warm'.anchor <= WarmEnd'
        /\ wsources' \subseteq {s \in Frames : /\ warm'.anchor < s /\ s <= WarmEnd'
                                               /\ s <= warm'.anchor + LaDepth - 2}
  <2> SUFFICES ASSUME wpc' = "compute"
               PROVE  /\ warm.anchor # None /\ warm.anchor <= WarmEnd
                      /\ wsources' \subseteq {s \in Frames : /\ warm.anchor < s /\ s <= WarmEnd
                                                             /\ s <= warm.anchor + LaDepth - 2}
    BY <1>2, <1>7
  <2>1. PICK last : last = IF WarmEnd < warm.anchor + LaDepth - 2
                           THEN WarmEnd ELSE warm.anchor + LaDepth - 2
    OBVIOUS
  <2>2. warm.anchor # None /\ warm.anchor <= WarmEnd /\ wsources' = Enumerated(warm.anchor + 1, last)
    BY <2>1 DEF WarmWait, WarmScan, WarmReturns
  <2>3. warm.anchor \in Nat BY <2>2, <1>0, <1>1 DEF WarmInv, Frames
  <2>4. last \in Int /\ last <= WarmEnd /\ last <= warm.anchor + LaDepth - 2
    BY <2>1, <2>3, <1>1, <1>7
  <2>5. wsources' \subseteq warm.anchor + 1 .. last BY <2>2 DEF Enumerated
  <2>6. WarmEnd <= N BY <1>0, <1>1 DEF WarmInv, WarmEnd
  <2>7. ASSUME NEW s \in warm.anchor + 1 .. last
        PROVE  s \in Frames /\ warm.anchor < s /\ s <= WarmEnd /\ s <= warm.anchor + LaDepth - 2
    BY <2>3, <2>4, <2>6, <1>1, <1>7 DEF Frames
  <2> QED BY <2>2, <2>5, <2>7
<1>10. WarmInv'
  <2>1. \A s : IsAnchor(s)' = IsAnchor(s) BY <1>2, KindSame
  <2>2. mbtree /\ apc \notin Walking BY <1>0, <1>2 DEF WarmInv
  <2>3. /\ warm.head' <= popped' /\ warm.pushed' <= pushed'
        /\ (warm'.anchor # None => /\ warm'.anchor \in Frames /\ warm'.head < warm'.anchor
                                   /\ \A t \in warm'.head + 1 .. warm'.anchor - 1 : ~IsAnchor(t)')
        /\ (warm.anchor # None => IsAnchor(warm.anchor)')
    BY <2>1, <1>0, <1>2 DEF WarmInv
  <2>4. /\ (apc' \in PostPop => warm'.head < popped')
        /\ \A t \in warm'.head + 1 .. popped' : IsAnchor(t)' => t = popped' /\ apc' \in PostPop
    BY <2>1, <2>2, <1>0, <1>2 DEF WarmInv
  <2>5. apc' \in PostPop \ Popping => mbtree' /\ kind'[popped'] # "b"
    BY <1>0, <1>2 DEF WarmInv, IsAnchor
  <2>6. mbtree' /\ apc' \notin Walking BY <2>2, <1>2
  <2> HIDE DEF PostPop, Popping, Walking
  <2> QED BY <2>3, <2>4, <2>5, <2>6, <1>2, <1>8, <1>9 DEF WarmInv, IsAnchor
<1>11. WalkInv' BY <1>0, <1>2 DEF WalkInv, WindowEnd
<1>12. TypeInv' BY <1>0, <1>2 DEF TypeInv
<1> QED BY <1>4, <1>5, <1>6, <1>10, <1>11, <1>12 DEF IInv

\* What the prefetch prices is unpopped, held, and of final legs.
LEMMA WarmReads ==
  ASSUME IInv, wpc = "compute", NEW s \in Frames,
         warm.anchor < s, s <= WarmEnd, s <= WarmSettled
  PROVE  /\ popped < s /\ s < pushed /\ Held(s) /\ Kept(s) /\ s <= Fin
         /\ (ring[Slot(s)].legs <=> FinalLegs(s)) /\ s + BFrames < done /\ s + BFrames + 2 <= done
<1>0. TypeInv /\ CountInv /\ RingInv /\ WarmInv BY DEF IInv
<1>1. /\ pushed \in Nat /\ done \in Nat /\ popped \in Nat /\ LaCap \in Nat /\ BFrames \in Nat
      /\ N \in Nat /\ warm.pushed \in Nat /\ pushed < popped + LaCap /\ done <= pushed
      /\ (Running => done < pushed)
  BY <1>0, Sizes DEF TypeInv, CountInv
<1>2. warm.anchor # None /\ mbtree /\ done >= WarmEnd + 1 /\ warm.pushed <= pushed
  BY <1>0 DEF WarmInv
<1>3. popped <= warm.anchor /\ warm.anchor \in Nat
  <2>1. popped <= warm.anchor BY <1>0, <1>2, WarmIsBehind
  <2> QED BY <2>1, <1>0, <1>1, <1>2 DEF WarmInv, Frames
<1>4. s \in Nat /\ popped < s BY <1>1, <1>3 DEF Frames
<1>5. WarmEnd \in Int /\ WarmEnd = warm.pushed - 2 /\ WarmSettled = WarmEnd - 1 - BFrames
  BY <1>1 DEF WarmEnd, WarmSettled
<1>6. s + BFrames + 1 <= WarmEnd BY <1>1, <1>4, <1>5
<1>7. s + BFrames < done /\ s + BFrames + 2 <= done /\ s + BFrames <= done - 1 /\ s < pushed BY <1>1, <1>2, <1>4, <1>5, <1>6
<1>8. /\ An \in Int /\ Fin \in Int /\ Legged \in Int /\ An <= pushed /\ An >= done
      /\ Fin >= done - 1 /\ Legged >= done - 1
  BY <1>1 DEF An, Fin, Legged, Running
<1>9. Held(s) /\ Kept(s) /\ s <= Fin /\ s + BFrames <= Legged
  BY <1>1, <1>4, <1>7, <1>8 DEF Held, Kept
<1>10. Entry(s).legs = LegsDone(s) BY <1>0, <1>9 DEF RingInv
<1>11. LegsDone(s) <=> FinalLegs(s) BY <1>0, <1>8, <1>9, LegsSettle DEF TypeInv
<1> QED BY <1>4, <1>7, <1>9, <1>10, <1>11 DEF Entry

LEMMA StepWarmCompute == IInv /\ WarmCompute => IInv'
<1> SUFFICES ASSUME IInv, WarmCompute PROVE IInv' OBVIOUS
<1>0. TypeInv /\ CountInv /\ RingInv /\ MemoInv /\ WarmInv /\ WalkInv BY DEF IInv
<1>1. /\ pushed \in Nat /\ done \in Nat /\ popped \in Nat /\ N \in Nat /\ LaCap \in Nat
      /\ LaDepth \in Nat /\ BFrames \in Nat /\ LaDepth <= LaCap /\ pushed < popped + LaCap
      /\ warm.pushed \in Nat /\ wpc = "compute" /\ wpc' = "done"
  BY <1>0, Sizes DEF TypeInv, CountInv, WarmCompute
<1>2. UNCHANGED <<kind, mbtree, pushed, popped, done, cpc, apc, warm, sources>>
  BY DEF WarmCompute, chainVars
<1>3. /\ warm.anchor # None /\ warm.anchor \in Nat /\ mbtree
      /\ wsources \subseteq {s \in Frames : warm.anchor < s /\ s <= WarmEnd /\ s <= warm.anchor + LaDepth - 2}
  BY <1>0, <1>1 DEF WarmInv, Frames
<1>4. PICK S, c, R, b : S = WarmNeeds /\ c = WarmSettled /\ R = ring' /\ b = "warm" OBVIOUS
<1>5. \A s \in S : /\ s \in Frames /\ s \in wsources /\ warm.anchor < s /\ s <= WarmEnd
                   /\ s <= warm.anchor + LaDepth - 2 /\ s <= WarmLimit
  BY <1>3, <1>4 DEF WarmNeeds
<1>6. WarmLimit \in Int /\ WarmLimit <= WarmSettled /\ WarmLimit <= NextSettled
      /\ NextSettled = warm.anchor + LaDepth - 4 - BFrames /\ WarmSettled \in Int
  BY <1>1, <1>3 DEF WarmLimit, WarmSettled, NextSettled, WarmEnd
<1>7. S \subseteq Frames /\ \A s, t \in S : s < t + LaCap BY <1>1, <1>3, <1>5 DEF Frames
<1>8. PricesOnly(R, S, wsources, c, b)
  <2>1. R = Price(S, wsources, c, b) BY <1>4 DEF WarmCompute
  <2> QED BY <2>1, <1>0, <1>7, PriceIs
<1>9. \A s \in Frames : s \in Nat /\ Slot(s) \in Slots BY <1>1, SlotIs DEF Frames
<1>10. RingInv'
  <2>1. Marks BY <1>1, <1>2 DEF Marks, An, Fin, Legged, Padded
  <2>2. \A s \in Frames : SameButMemo(ring'[Slot(s)], ring[Slot(s)]) BY <1>4, <1>8, <1>9 DEF PricesOnly
  <2>3. \A s \in Frames : Kept(s)' => Kept(s) BY <1>1, <1>2 DEF Kept
  <2> QED BY <2>1, <2>2, <2>3, <1>0, RingKeeps
<1>11. MemoInv'
  <2>1. \A s \in Frames : s > popped' /\ Reached(s) => Reached(s)' BY <1>1, <1>2 DEF Reached
  <2>2. ASSUME NEW s \in Frames, pushed' < s + LaCap, s <= pushed'
        PROVE  \/ s <= pushed /\ ring'[Slot(s)].memo = ring[Slot(s)].memo
               \/ \E m : m = ring'[Slot(s)].memo /\ MemoIs(s, m)'
    <3>1. CASE ring'[Slot(s)].memo = ring[Slot(s)].memo BY <3>1, <2>2, <1>2
    <3>2. CASE \E t \in S : Slot(t) = Slot(s)
      <4>1. PICK t \in S : Slot(t) = Slot(s) BY <3>2
      <4>2. t \in Frames /\ warm.anchor < t /\ t <= WarmEnd /\ t <= WarmSettled /\ t <= NextSettled
        BY <4>1, <1>5, <1>6, <1>9
      <4>3. /\ popped < t /\ t < pushed /\ (ring[Slot(t)].legs <=> FinalLegs(t)) /\ t + BFrames < done
        BY <4>2, <1>1, WarmReads
      <4>4. s = t
        <5>1. t <= pushed BY <4>2, <4>3, <1>1, <1>9
        <5>2. pushed < s + LaCap /\ s <= pushed BY <2>2, <1>2
        <5> QED BY <4>1, <4>2, <4>3, <5>1, <5>2, <1>1, PricedIs
      <4>5. PICK m : m = Priced(s, wsources, c, b) OBVIOUS
      <4>6. m = ring'[Slot(s)].memo BY <4>1, <4>4, <4>5, <1>4, <1>8 DEF PricesOnly
      <4>7. /\ m = [of |-> s, key |-> m.key, by |-> m.by, reused |-> m.reused]
            /\ m.reused = (s <= c /\ ring[Slot(s)].legs)
        BY <4>5 DEF Priced
      <4>8. m.reused = FinalLegs(s)
        <5>1. m.reused \in BOOLEAN /\ FinalLegs(s) \in BOOLEAN BY <4>7 DEF FinalLegs, Links
        <5>2. m.reused <=> FinalLegs(s) BY <4>2, <4>3, <4>4, <4>7, <1>4
        <5> QED BY <5>1, <5>2
      <4>9. Reached(s)'
        <5>1. s + 4 + BFrames <= warm.anchor + LaDepth BY <4>2, <4>4, <1>1, <1>3, <1>6, <1>9
        <5> QED BY <5>1, <1>1, <1>2, <1>3 DEF Reached
      <4>10. MemoIs(s, m)'
        <5>1. FinalLegs(s)' = FinalLegs(s) BY <1>2, KindSame
        <5>2. s + BFrames < done' BY <4>3, <4>4, <1>2
        <5> HIDE DEF Reached
        <5> QED BY <4>7, <4>8, <4>9, <5>1, <5>2 DEF MemoIs
      <4> QED BY <4>6, <4>10
    <3> QED BY <3>1, <3>2, <1>4, <1>8, <1>9 DEF PricesOnly
  <2>3. \A s \in Frames : pushed' < s + LaCap /\ s <= pushed' =>
          \/ ring'[Slot(s)].memo = NoMemo
          \/ s <= pushed /\ ring'[Slot(s)].memo = ring[Slot(s)].memo
          \/ \E m : m = ring'[Slot(s)].memo /\ MemoIs(s, m)'
    BY <2>2, Zenon
  <2>4. /\ pushed' \in Nat /\ pushed <= pushed' /\ done' \in Nat /\ done <= done'
        /\ popped' \in Nat /\ popped <= popped'
    BY <1>1, <1>2
  <2> HIDE DEF Reached, MemoIs, MemoInv
  <2> QED BY <2>1, <2>3, <2>4, <1>0, <1>2, MemoHolds, Zenon
<1>12. CountInv' BY <1>0, <1>2, ApiCounts DEF CountInv
<1>13. WarmInv'
  <2>1. \A s : IsAnchor(s)' = IsAnchor(s) BY <1>2, KindSame
  <2>2. mbtree /\ apc \notin Walking BY <1>0, <1>1 DEF WarmInv
  <2>3. /\ warm.head' <= popped' /\ warm.pushed' <= pushed'
        /\ (warm'.anchor # None => /\ warm'.anchor \in Frames /\ warm'.head < warm'.anchor
                                   /\ \A t \in warm'.head + 1 .. warm'.anchor - 1 : ~IsAnchor(t)')
        /\ (warm.anchor # None => IsAnchor(warm.anchor)')
    BY <2>1, <1>0, <1>2 DEF WarmInv
  <2>4. /\ (apc' \in PostPop => warm'.head < popped')
        /\ \A t \in warm'.head + 1 .. popped' : IsAnchor(t)' => t = popped' /\ apc' \in PostPop
    BY <2>1, <2>2, <1>0, <1>2 DEF WarmInv
  <2>5. apc' \in PostPop \ Popping => mbtree' /\ kind'[popped'] # "b"
    BY <1>0, <1>2 DEF WarmInv, IsAnchor
  <2>6. mbtree' /\ apc' \notin Walking BY <2>2, <1>2
  <2> HIDE DEF PostPop, Popping, Walking
  <2> QED BY <2>3, <2>4, <2>5, <2>6, <1>1, <1>2 DEF WarmInv, IsAnchor
<1>14. WalkInv' BY <1>0, <1>2 DEF WalkInv, WindowEnd
<1>15. TypeInv' BY <1>0, <1>2, <1>4, <1>8 DEF TypeInv, PricesOnly
<1> QED BY <1>10, <1>11, <1>12, <1>13, <1>14, <1>15 DEF IInv

-----------------------------------------------------------------------------
(* The invariant. *)

LEMMA InitHolds == Init => IInv
<1> SUFFICES ASSUME Init PROVE IInv OBVIOUS
<1>0. N \in Nat /\ LaCap \in Nat /\ LaCap >= 4 BY Sizes
<1>1. /\ pushed = 0 /\ done = 0 /\ popped = 0 /\ cpc = "idle" /\ apc = "idle" /\ wpc = "none"
      /\ warm = [head |-> 0, pushed |-> 0, anchor |-> None]
      /\ warm.head = 0 /\ warm.pushed = 0 /\ warm.anchor = None
  BY DEF Init
<1>2. \A i \in Slots : EntryIs(ring[i]) /\ ring[i].memo = NoMemo BY DEF Init, EntryIs
<1>3. TypeInv
  <2>1. ring = [i \in Slots |-> ring[i]] BY DEF Init
  <2>2. kind \in Kinds /\ mbtree \in BOOLEAN BY DEF Init
  <2> QED BY <2>1, <2>2, <1>1, <1>2 DEF TypeInv
<1>4. apc \notin PostPop /\ apc \notin Walking BY <1>1 DEF PostPop, Popping, Walking
<1>5. CountInv BY <1>0, <1>1, <1>4 DEF CountInv, Running
<1>6. \A s \in Frames : s \in Nat /\ s >= 1 /\ Slot(s) \in Slots BY <1>0, SlotIs DEF Frames
<1>7. RingInv
  <2>1. Padded = 0 /\ An = 0 BY <1>1 DEF Padded, An
  <2>2. \A s \in Frames : ~(s <= Padded) /\ ~Held(s) BY <1>6, <2>1 DEF Held
  <2> QED BY <2>2 DEF RingInv
<1>8. MemoInv BY <1>2, <1>6 DEF MemoInv, Entry
<1>9. WarmInv BY <1>1, <1>4 DEF WarmInv
<1>10. WalkInv BY <1>1 DEF WalkInv
<1> QED BY <1>3, <1>5, <1>7, <1>8, <1>9, <1>10 DEF IInv

LEMMA StepStutters == IInv /\ UNCHANGED vars => IInv'
<1> SUFFICES ASSUME IInv, UNCHANGED vars PROVE IInv' OBVIOUS
<1>0. TypeInv /\ CountInv /\ RingInv /\ MemoInv /\ WarmInv /\ WalkInv BY DEF IInv
<1>1. /\ UNCHANGED <<kind, mbtree, ring, pushed, popped, done, warm, wsources, sources>>
      /\ cpc' = cpc /\ apc' = apc /\ wpc' = wpc
  BY DEF vars
<1>2. CountInv' BY <1>0, <1>1, ApiCounts DEF CountInv
<1>3. WalkInv' BY <1>0, <1>1 DEF WalkInv, WindowEnd
<1>4. Padded' = Padded BY <1>1 DEF Padded
<1>5. \A s \in Frames : s > popped /\ Reached(s) => Reached(s)' BY <1>1 DEF Reached
<1>6. apc' \in PostPop \ Popping => mbtree /\ IsAnchor(popped) BY <1>0, <1>1 DEF WarmInv
<1>7. apc' \in Walking => wpc' = "none" BY <1>0, <1>1 DEF WarmInv
<1> HIDE DEF PostPop, Popping, Walking
<1> QED BY <1>1, <1>2, <1>3, <1>4, <1>5, <1>6, <1>7, ApiQuiet

LEMMA NextHolds == IInv /\ [Next]_vars => IInv'
<1> SUFFICES ASSUME IInv, [Next]_vars PROVE IInv' OBVIOUS
<1> HIDE DEF IInv
<1>1. CASE Api
  <2>1. CASE ApiSleep \/ BeginPush \/ PadWait \/ PopWait \/ TreeWait \/ Settle BY <2>1, StepWaits
  <2>2. CASE Pad BY <2>2, StepPad
  <2>3. CASE Push BY <2>3, StepPush
  <2>4. CASE Popped BY <2>4, StepPopped
  <2>5. CASE Join \/ Walk BY <2>5, StepWalks
  <2>6. CASE PhaseA BY <2>6, StepPhaseA
  <2>7. CASE Launch BY <2>7, StepLaunch
  <2>8. CASE BeginFlush \/ FlushPop \/ BeginClose \/ CloseChain \/ Closed BY <2>8, StepEnds
  <2> QED BY <1>1, <2>1, <2>2, <2>3, <2>4, <2>5, <2>6, <2>7, <2>8 DEF Api
<1>2. CASE Chain
  <2>1. CASE ChainSleep \/ ChainExit \/ ChainTake \/ Step BY <2>1, StepChainTurns
  <2>2. CASE Analyse BY <2>2, StepAnalyse
  <2>3. CASE Finalize BY <2>3, StepFinalize
  <2>4. CASE Legs BY <2>4, StepLegs
  <2> QED BY <1>2, <2>1, <2>2, <2>3, <2>4 DEF Chain
<1>3. CASE Warm
  <2>1. CASE WarmWait \/ WarmScan BY <2>1, StepWarmTurns
  <2>2. CASE WarmCompute BY <2>2, StepWarmCompute
  <2> QED BY <1>3, <2>1, <2>2 DEF Warm
<1>4. CASE UNCHANGED vars BY <1>4, StepStutters
<1> QED BY <1>1, <1>2, <1>3, <1>4 DEF Next

\* In every reachable state: the ring is never fuller than it is wide, each slot
\* holds what the chain has made of the picture in it, a memo is its picture's
\* own, and no pop has passed the anchor the prefetch was posted for
\* (la_push, la_chain_step, la_finalize, mbt_warm_launch, mbt_warm_join).
THEOREM LookaheadInvariant == Spec => []IInv
<1>1. Init => IInv BY InitHolds
<1>2. IInv /\ [Next]_vars => IInv' BY NextHolds
<1> QED BY <1>1, <1>2, PTL DEF Spec

-----------------------------------------------------------------------------
(* What the runs check. *)

\* A picture the chain is past is typed, and nothing writes its type.
LEMMA TypesPast ==
  ASSUME IInv, NEW s \in Frames, popped <= s, s < done
  PROVE  /\ Held(s) /\ Entry(s).lowres = s /\ Entry(s).typed = TRUE
         /\ Slot(s) \notin TypeWrites
<1>0. TypeInv /\ CountInv /\ RingInv BY DEF IInv
<1>1. /\ pushed \in Nat /\ done \in Nat /\ popped \in Nat /\ LaCap \in Nat /\ s \in Nat
      /\ pushed < popped + LaCap /\ done <= pushed /\ (Running => done < pushed)
  BY <1>0, Sizes DEF TypeInv, CountInv, Frames
<1>2. /\ An \in Int /\ Fin \in Int /\ An <= pushed /\ An >= done /\ Fin >= done - 1
  BY <1>1 DEF An, Fin, Running
<1>3. Held(s) /\ s <= Fin BY <1>1, <1>2 DEF Held
<1>4. Entry(s).lowres = s /\ Entry(s).typed BY <1>0, <1>3 DEF RingInv
<1>5. Entry(s).typed \in BOOLEAN BY <1>0, <1>1, SlotIs DEF TypeInv, EntryIs, Entry
<1>6. cpc = "analyse" => Slot(s) # Slot(done + 1)
  <2> SUFFICES ASSUME cpc = "analyse" PROVE Slot(s) # Slot(done + 1) OBVIOUS
  <2>1. done < pushed BY <1>1 DEF Running
  <2>2. done + 1 \in Nat /\ s # done + 1 /\ s < (done + 1) + LaCap /\ done + 1 < s + LaCap
    BY <2>1, <1>1
  <2> QED BY <2>2, <1>1, SlotsApart
<1>7. Slot(s) # Slot(done)
  <2>1. s # done /\ s < done + LaCap /\ done < s + LaCap BY <1>1
  <2> QED BY <2>1, <1>1, SlotsApart
<1> QED BY <1>3, <1>4, <1>5, <1>6, <1>7 DEF TypeWrites

\* Behind the whole input the chain writes nothing.
LEMMA Resting ==
  ASSUME IInv, done = pushed
  PROVE  /\ TypeWrites = {} /\ LegWrites = {} /\ ~Running
         /\ An = pushed /\ Fin = pushed - 1 /\ Legged = pushed - 1 /\ pushed \in Nat
<1>1. done \in Nat /\ pushed \in Nat /\ ~Running BY DEF IInv, TypeInv, CountInv
<1> QED BY <1>1 DEF TypeWrites, LegWrites, Running, An, Fin, Legged

\* What the API thread has waited for is as the inline chain types it.
LEMMA TypesSettled ==
  ASSUME IInv, NEW s \in Frames, Kept(s), s <= pushed, s < done \/ done = pushed
  PROVE  SameTypes(s) /\ Slot(s) \notin TypeWrites
<1>0. TypeInv /\ CountInv /\ RingInv BY DEF IInv
<1>1. /\ pushed \in Nat /\ done \in Nat /\ popped \in Nat /\ LaCap \in Nat /\ s \in Nat
      /\ pushed < popped + LaCap /\ done <= pushed
  BY <1>0, Sizes DEF TypeInv, CountInv, Frames
<1>2. popped <= s BY <1>1 DEF Kept
<1>3. CASE s < done
  <2>1. Entry(s).lowres = s /\ Entry(s).typed = TRUE /\ Slot(s) \notin TypeWrites
    BY <1>2, <1>3, TypesPast
  <2>2. (s < pushed) = TRUE BY <1>1, <1>3
  <2> QED BY <2>1, <2>2 DEF SameTypes, InlineTyped, Entry
<1>4. CASE done = pushed
  <2>1. An = pushed /\ Fin = pushed - 1 /\ TypeWrites = {} BY <1>4, Resting
  <2>2. Held(s) BY <2>1, <1>1, <1>2 DEF Held
  <2>3. Entry(s).lowres = s /\ (s <= Fin => Entry(s).typed) /\ (s > Fin => ~Entry(s).typed)
    BY <2>2, <1>0 DEF RingInv
  <2>4. Entry(s).typed \in BOOLEAN BY <1>0, <1>1, SlotIs DEF TypeInv, EntryIs, Entry
  <2>5. CASE s < pushed
    <3>1. s <= Fin /\ (s < pushed) = TRUE BY <2>1, <2>5, <1>1
    <3>2. Entry(s).typed = TRUE BY <2>3, <2>4, <3>1
    <3> QED BY <2>1, <2>3, <3>1, <3>2 DEF SameTypes, InlineTyped, Entry
  <2>6. CASE s = pushed
    <3>1. s > Fin /\ (s < pushed) = FALSE BY <2>1, <2>6, <1>1
    <3>2. Entry(s).typed = FALSE BY <2>3, <2>4, <3>1
    <3> QED BY <2>1, <2>3, <3>1, <3>2 DEF SameTypes, InlineTyped, Entry
  <2> QED BY <2>5, <2>6, <1>1
<1> QED BY <1>3, <1>4

LEMMA LegsSettled ==
  ASSUME IInv, NEW s \in Frames, Kept(s), s <= pushed, s + BFrames + 2 <= done \/ done = pushed
  PROVE  (s < pushed => SameLegs(s)) /\ Slot(s) \notin LegWrites
<1>0. TypeInv /\ CountInv /\ RingInv BY DEF IInv
<1>1. /\ pushed \in Nat /\ done \in Nat /\ popped \in Nat /\ LaCap \in Nat /\ s \in Nat
      /\ BFrames \in Nat /\ N \in Nat /\ pushed < popped + LaCap /\ done <= pushed /\ pushed <= N
      /\ (Running => done < pushed)
  BY <1>0, Sizes DEF TypeInv, CountInv, Frames
<1>2. popped <= s BY <1>1 DEF Kept
<1>3. CASE s + BFrames + 2 <= done
  <2>1. s < done /\ s + BFrames < pushed BY <1>1, <1>3
  <2>2. Held(s) /\ Slot(s) \notin TypeWrites BY <2>1, <1>2, TypesPast
  <2>3. Legged \in Int /\ s + BFrames <= Legged BY <1>1, <1>3 DEF Legged
  <2>4. Entry(s).legs = LegsDone(s) BY <2>2, <1>0 DEF RingInv
  <2>5. LegsDone(s) <=> InlineLegs(s, pushed)
    BY <2>1, <2>3, <1>0, <1>1, LegsSettle DEF TypeInv
  <2>6. LegsDone(s) \in BOOLEAN /\ InlineLegs(s, pushed) \in BOOLEAN
    BY DEF LegsDone, InlineLegs, Links
  <2>7. SameLegs(s) BY <2>4, <2>5, <2>6 DEF SameLegs, Entry
  <2>8. cpc = "legs" => Slot(s) \notin LegsOf(done)
    <3> SUFFICES ASSUME cpc = "legs", NEW b \in BRun(done) \cup {done} PROVE Slot(s) # Slot(b)
      BY DEF LegsOf
    <3>1. PICK n \in Frames : n = done /\ IsAnchor(n)
      BY <1>0, <1>1 DEF CountInv, Frames, Links, IsAnchor
    <3>2. b \in Nat /\ b <= n /\ n <= b + BFrames
      <4>1. CASE b = n BY <4>1, <1>1, <3>1
      <4>2. CASE b \in BRun(n)
        <5>1. b \in Frames /\ b < n /\ n <= b + BFrames BY <4>2, <3>1, <1>0, RunIs DEF TypeInv
        <5> QED BY <5>1, <1>1, <3>1 DEF Frames
      <4> QED BY <3>1, <4>1, <4>2
    <3>3. s # b /\ s < b + LaCap /\ b < s + LaCap BY <3>1, <3>2, <1>1, <1>2, <1>3
    <3> QED BY <3>2, <3>3, <1>1, SlotsApart
  <2> QED BY <2>2, <2>7, <2>8 DEF LegWrites
<1>4. CASE done = pushed
  <2>1. An = pushed /\ Legged = pushed - 1 /\ LegWrites = {} BY <1>4, Resting
  <2>2. ASSUME s < pushed PROVE SameLegs(s)
    <3>1. Held(s) BY <2>1, <1>1, <1>2 DEF Held
    <3>2. Entry(s).legs = LegsDone(s) BY <3>1, <1>0 DEF RingInv
    <3>3. LegsDone(s) = InlineLegs(s, pushed)
      <4>1. CASE IsAnchor(s)
        <5>1. (s <= Legged) <=> (s < pushed) BY <2>1, <1>1
        <5> QED BY <4>1, <5>1 DEF LegsDone, InlineLegs
      <4>2. CASE ~IsAnchor(s) /\ NextAnchor(s) # None
        <5>1. NextAnchor(s) \in s + 1 .. N BY <4>2, NextIs
        <5>2. NextAnchor(s) <= Legged <=> NextAnchor(s) < pushed BY <5>1, <2>1, <1>1
        <5> QED BY <4>2, <5>2 DEF LegsDone, InlineLegs
      <4>3. CASE ~IsAnchor(s) /\ NextAnchor(s) = None BY <4>3 DEF LegsDone, InlineLegs
      <4> QED BY <4>1, <4>2, <4>3
    <3> QED BY <3>2, <3>3 DEF SameLegs, Entry
  <2> QED BY <2>1, <2>2
<1> QED BY <1>3, <1>4

\* The pad wait keeps a picture's slot until the chain has read it: each
\* analysis reads its own picture's pixels (la_th_main, pad_input_to).
THEOREM LookaheadPlanes == Spec => []PlanesAreOwn
<1>1. IInv => PlanesAreOwn
  <2> SUFFICES ASSUME IInv PROVE PlanesAreOwn OBVIOUS
  <2>0. TypeInv /\ CountInv /\ RingInv BY DEF IInv
  <2>1. apc = "pad" => pushed + 1 - LaCap <= done
    <3>1. pushed \in Nat /\ done \in Nat /\ LaCap \in Nat BY <2>0, Sizes DEF TypeInv
    <3> QED BY <3>1, <2>0 DEF CountInv
  <2>2. cpc = "analyse" => ring[Slot(done + 1)].plane = done + 1
    BY <2>0, AnalyseReads DEF Entry
  <2> QED BY <2>1, <2>2 DEF PlanesAreOwn
<1> QED BY <1>1, LookaheadInvariant, PTL

\* The pop wait: a popped entry has the type and the legs the inline chain
\* would have given it, and no step in progress writes them (la_pop's wait in
\* encode_push, la_finalize).
THEOREM LookaheadPops == Spec => []PopIsFinal
<1>1. IInv => PopIsFinal
  <2> SUFFICES ASSUME IInv, apc = "popped"
               PROVE  /\ SameTypes(popped) /\ (popped < pushed => SameLegs(popped))
                      /\ Slot(popped) \notin LegWrites
    BY DEF PopIsFinal
  <2>0. TypeInv /\ CountInv BY DEF IInv
  <2>1. /\ pushed \in Nat /\ done \in Nat /\ popped \in Nat /\ N \in Nat /\ BFrames \in Nat
        /\ popped > 0 /\ popped <= pushed /\ pushed <= N
        /\ (popped + BFrames + 2 <= done \/ done = pushed)
    BY <2>0, Sizes DEF TypeInv, CountInv, PostPop, Popping
  <2>2. popped \in Frames /\ Kept(popped) BY <2>1 DEF Frames, Kept, Popping
  <2>3. popped < done \/ done = pushed BY <2>1
  <2>4. SameTypes(popped) BY <2>1, <2>2, <2>3, TypesSettled
  <2>5. (popped < pushed => SameLegs(popped)) /\ Slot(popped) \notin LegWrites
    BY <2>1, <2>2, LegsSettled
  <2> QED BY <2>4, <2>5
<1> QED BY <1>1, LookaheadInvariant, PTL

LEMMA WalkSettles == IInv => WalkIsSettled
<1> SUFFICES ASSUME IInv PROVE WalkIsSettled OBVIOUS
<1>0. TypeInv /\ CountInv /\ WalkInv BY DEF IInv
<1>1. /\ pushed \in Nat /\ done \in Nat /\ popped \in Nat /\ N \in Nat /\ BFrames \in Nat
      /\ LaDepth \in Nat /\ LaBuf \in Nat /\ pushed <= N
  BY <1>0, Sizes DEF TypeInv, CountInv
<1>2. TreeNeed \in Int /\ TreeNeed = popped + LaDepth - 1 /\ SettleExt \in Nat
      /\ WindowEnd \in Int /\ WindowEnd <= popped + LaDepth - 2 /\ WindowEnd <= pushed
  BY <1>1 DEF TreeNeed, SettleExt, WindowEnd
<1>3. ASSUME apc = "walk", NEW s \in popped + 1 .. WindowEnd
      PROVE  SameTypes(s) /\ Slot(s) \notin TypeWrites
  <2>1. done >= TreeNeed \/ done = pushed BY <1>0, <1>3 DEF CountInv, Walking
  <2>2. s \in Frames /\ s > popped /\ s <= pushed /\ (s < done \/ done = pushed)
    BY <2>1, <1>1, <1>2 DEF Frames
  <2>3. Kept(s) BY <2>2 DEF Kept
  <2> QED BY <2>2, <2>3, TypesSettled
<1>4. ASSUME apc = "phaseA", NEW s \in sources
      PROVE  /\ Slot(s) \notin TypeWrites
             /\ s <= Settled => SameLegs(s) /\ Slot(s) \notin LegWrites
  <2>1. /\ done >= TreeNeed \/ done = pushed
        /\ done >= TreeNeed + SettleExt \/ done = pushed
    BY <1>0, <1>4 DEF CountInv, Walking
  <2>2. s \in Frames /\ popped < s /\ s <= WindowEnd /\ s < pushed BY <1>0, <1>4 DEF WalkInv
  <2>3. s \in Nat /\ s <= pushed /\ Kept(s) /\ (s < done \/ done = pushed)
    BY <2>1, <2>2, <1>1, <1>2 DEF Kept, Frames
  <2>4. Settled = TreeNeed + SettleExt - 2 - BFrames BY <1>1, <1>2 DEF Settled
  <2>5. s <= Settled => s + BFrames + 2 <= done \/ done = pushed BY <2>1, <2>3, <2>4, <1>1, <1>2
  <2>6. Slot(s) \notin TypeWrites BY <2>2, <2>3, TypesSettled
  <2>7. s <= Settled => SameLegs(s) /\ Slot(s) \notin LegWrites BY <2>2, <2>3, <2>5, LegsSettled
  <2> QED BY <2>6, <2>7
<1> QED BY <1>3, <1>4 DEF WalkIsSettled

LEMMA WarmSettles == IInv => WarmIsSettled
<1> SUFFICES ASSUME IInv PROVE WarmIsSettled OBVIOUS
<1>0. TypeInv /\ CountInv /\ WarmInv BY DEF IInv
<1>1. /\ pushed \in Nat /\ done \in Nat /\ popped \in Nat /\ N \in Nat /\ BFrames \in Nat
      /\ LaDepth \in Nat /\ LaCap \in Nat /\ warm.pushed \in Nat /\ warm.head \in Nat
      /\ pushed <= N /\ pushed < popped + LaCap /\ warm.pushed <= pushed
      /\ WarmEnd \in Int /\ WarmEnd = warm.pushed - 2
  BY <1>0, Sizes DEF TypeInv, CountInv, WarmInv, WarmEnd
<1>2. ASSUME wpc \in {"scan", "compute"}, warm.anchor # None
      PROVE  /\ warm.anchor \in Nat /\ warm.anchor >= 1 /\ popped <= warm.anchor /\ WarmEnd < done
             /\ WarmEnd < pushed
  <2>1. mbtree BY <1>0, <1>2 DEF WarmInv
  <2>2. popped <= warm.anchor BY <2>1, <1>0, <1>2, WarmIsBehind
  <2>3. warm.anchor \in Frames /\ done >= WarmEnd + 1 BY <1>0, <1>2 DEF WarmInv
  <2> QED BY <2>2, <2>3, <1>1 DEF Frames
<1>3. ASSUME wpc = "scan", warm.anchor # None, NEW s \in warm.anchor .. WarmEnd
      PROVE  ring[Slot(s)].lowres = s /\ ring[Slot(s)].typed /\ Slot(s) \notin TypeWrites
  <2>1. s \in Frames /\ popped <= s /\ s < done BY <1>1, <1>2, <1>3 DEF Frames
  <2> QED BY <2>1, TypesPast DEF Entry
<1>4. ASSUME wpc = "compute"
      PROVE  /\ \A s \in wsources \cup {warm.anchor} :
                    ring[Slot(s)].lowres = s /\ Slot(s) \notin TypeWrites
             /\ \A s \in WarmNeeds : Slot(s) \notin LegWrites
             /\ apc \in {"pad", "push"} => Slot(pushed + 1) \notin SlotsOf(wsources)
             /\ apc = "popped" => popped \notin wsources
             /\ apc \notin {"walk", "settle", "phaseA", "launch"}
  <2>1. /\ warm.anchor # None /\ warm.anchor \in Frames /\ warm.anchor <= WarmEnd
        /\ \A s \in wsources : s \in Frames /\ warm.anchor < s /\ s <= WarmEnd
    BY <1>0, <1>4 DEF WarmInv
  <2>2. warm.anchor \in Nat /\ popped <= warm.anchor /\ WarmEnd < done /\ WarmEnd < pushed
    BY <1>2, <1>4, <2>1
  <2>3. \A s \in wsources : s \in Nat /\ popped < s /\ s < done /\ s < pushed
    BY <2>1, <2>2, <1>1 DEF Frames
  <2>4. ASSUME NEW s \in wsources \cup {warm.anchor}
        PROVE  ring[Slot(s)].lowres = s /\ Slot(s) \notin TypeWrites
    <3>1. s \in Frames /\ popped <= s /\ s < done BY <2>1, <2>2, <2>3, <1>1
    <3> QED BY <3>1, TypesPast DEF Entry
  <2>5. ASSUME NEW s \in WarmNeeds PROVE Slot(s) \notin LegWrites
    <3>1. s \in wsources /\ s <= WarmLimit BY DEF WarmNeeds
    <3>2. s <= WarmSettled /\ s \in Nat
      BY <3>1, <2>2, <2>3, <1>1 DEF WarmLimit, WarmSettled, NextSettled
    <3>3. s \in Frames /\ warm.anchor < s /\ s <= WarmEnd BY <2>1, <3>1
    <3>4. s < pushed /\ Kept(s) /\ s + BFrames + 2 <= done BY <3>2, <3>3, <1>4, WarmReads
    <3>5. s <= pushed BY <3>2, <3>4, <1>1
    <3> QED BY <3>3, <3>4, <3>5, LegsSettled
  <2>6. ASSUME NEW s \in wsources PROVE Slot(pushed + 1) # Slot(s)
    <3>1. s \in Nat /\ pushed + 1 \in Nat /\ s # pushed + 1 /\ s < (pushed + 1) + LaCap /\ pushed + 1 < s + LaCap
      BY <2>3, <1>1
    <3> QED BY <3>1, SlotsApart
  <2>7. popped \notin wsources BY <2>3, <1>1
  <2>8. apc \notin {"walk", "settle", "phaseA", "launch"} BY <1>0, <1>4 DEF WarmInv, Walking
  <2> QED BY <2>4, <2>5, <2>6, <2>7, <2>8 DEF SlotsOf
<1> QED BY <1>3, <1>4 DEF WarmIsSettled

\* The entries the walk and the prefetch read, across the pushes, the pops and
\* the steps of the chain beside them, are their own, typed and not being
\* written; no memo is written by both (compute_mbtree_wholebuf, mbt_warm_window).
THEOREM LookaheadSettled == Spec => []SettledWhenRead
<1>1. IInv => SettledWhenRead BY WalkSettles, WarmSettles DEF SettledWhenRead
<1> QED BY <1>1, LookaheadInvariant, PTL

\* A memo that hits is the picture's own, and one of the prefetch is what the
\* walk would have computed from the settled legs (mbt_pa_source, mbt_warm_window).
THEOREM LookaheadPrefetch == Spec => []PrefetchIsWalk
<1>1. IInv => PrefetchIsWalk
  <2> SUFFICES ASSUME IInv, apc = "phaseA", NEW s \in sources, Valid(s, sources), NEW m,
                      m = ring[Slot(s)].memo
               PROVE  m.of = s /\ (m.by = "warm" => m = Priced(s, sources, Settled, "warm"))
    BY DEF PrefetchIsWalk
  <2>0. TypeInv /\ CountInv /\ RingInv /\ MemoInv /\ WarmInv /\ WalkInv BY DEF IInv
  <2>1. /\ pushed \in Nat /\ done \in Nat /\ popped \in Nat /\ N \in Nat /\ BFrames \in Nat
        /\ LaDepth \in Nat /\ LaCap \in Nat /\ LaBuf \in Nat /\ pushed < popped + LaCap
        /\ done <= pushed /\ (Running => done < pushed)
    BY <2>0, Sizes DEF TypeInv, CountInv
  <2>2. s \in Frames /\ s \in Nat /\ popped < s /\ s < pushed BY <2>0, <2>1 DEF WalkInv, Frames
  <2>3. m # NoMemo /\ m.key = Key(s, sources) BY DEF Valid
  <2>4. MemoIs(s, m)
    <3>1. pushed < s + LaCap /\ s <= pushed BY <2>1, <2>2
    <3> QED BY <3>1, <2>0, <2>2, <2>3 DEF MemoInv, Entry
  <2>5. m = [of |-> s, key |-> m.key, by |-> m.by, reused |-> m.reused] BY <2>4 DEF MemoIs
  <2>6. ASSUME m.by = "warm" PROVE m = Priced(s, sources, Settled, "warm")
    <3>1. m.reused = FinalLegs(s) /\ s + BFrames < done /\ Reached(s)
      BY <2>1, <2>2, <2>4, <2>6 DEF MemoIs
    <3>2. wpc = "none" BY <2>0 DEF WarmInv, Walking
    <3>3. s + 4 + BFrames <= popped + LaDepth BY <3>1, <3>2 DEF Reached
    <3>4. SettleExt \in Nat BY <2>1 DEF SettleExt, TreeNeed
    <3>5. s <= Settled BY <3>3, <3>4, <2>1, <2>2 DEF Settled
    <3>6. /\ An \in Int /\ An <= pushed /\ An >= done /\ Legged \in Int /\ Legged >= done - 1
      BY <2>1 DEF An, Legged, Running
    <3>7. Held(s) /\ Kept(s) /\ s + BFrames <= Legged
      BY <3>1, <3>6, <2>1, <2>2 DEF Held, Kept
    <3>8. Entry(s).legs = LegsDone(s) BY <3>7, <2>0, <2>2 DEF RingInv
    <3>9. LegsDone(s) <=> FinalLegs(s) BY <3>6, <3>7, <2>0, <2>2, LegsSettle DEF TypeInv
    <3>10. m.reused = (s <= Settled /\ ring[Slot(s)].legs)
      <4>1. FinalLegs(s) \in BOOLEAN /\ LegsDone(s) \in BOOLEAN BY DEF FinalLegs, LegsDone, Links
      <4>2. m.reused <=> ring[Slot(s)].legs BY <3>1, <3>8, <3>9 DEF Entry
      <4> QED BY <3>1, <3>5, <3>8, <4>1, <4>2, Zenon DEF Entry
    <3> QED BY <2>3, <2>5, <2>6, <3>10 DEF Priced
  <2> QED BY <2>5, <2>6
<1> QED BY <1>1, LookaheadInvariant, PTL

=============================================================================
