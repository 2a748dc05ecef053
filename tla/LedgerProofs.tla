---------------------------- MODULE LedgerProofs ----------------------------
(***************************************************************************)
(* Proofs about RateLedger for every setting of the encoder: any depth of  *)
(* the burst ring, any lag, any warm-up, mini-GOPs and encodes of any      *)
(* length, with and without a VBV, with and without faults.                *)
(***************************************************************************)
EXTENDS RateLedger, FiniteSetTheorems, SequenceTheorems, WellFoundedInduction,
        TLAPS

(***************************************************************************)
(* The inductive invariant.                                                *)
(***************************************************************************)

Kinds == {"P", "B", "pair"}
Pcs == {"idle", "bill", "ring", "launch", "retire", "serial", "decided", "coded",
        "sibling", "pair", "waitall", "drain", "gate", "emptied", "done", "failed"}
Entry == [seq : Nat, filled : BOOLEAN, dropped : BOOLEAN, src : Nat, tight : BOOLEAN,
          priced : BOOLEAN, outgrown : BOOLEAN]
Burst == [anchor : Nat, nb : Nat, bs : Seq(Nat), billed : BOOLEAN,
          phase : {"armed", "prep", "encode", "done"},
          runner : {"run", "sized", "overflow"}, err : BOOLEAN]
Slice == [pic : Nat, done : BOOLEAN, ok : BOOLEAN]

TypeInv ==
    /\ cfg \in Settings
    /\ rcp \in Seq(Entry) /\ acct \in Seq(Entry) /\ seq \in Nat
    /\ anchorSeq \in Nat /\ anchorHist \in Seq(Nat) /\ Len(anchorHist) = cfg.ring
    /\ live \in Seq(Burst) /\ w2 \in Slice /\ nals \in Seq(Nat)
    /\ pc \in Pcs /\ todo \in Seq(Kinds) /\ billing \in Nat \ {0}
    /\ tight \in BOOLEAN /\ tries \in Nat /\ mark \in 0 .. Len(nals)
    /\ flushing \in {"no", "popping", "popped", "tail"}

-----------------------------------------------------------------------------
(* The bursts in flight. *)

End(b) == b.anchor + Len(b.bs)

BurstOf(i) ==
    LET b == live[i]
    IN  /\ b.anchor > 0 /\ Len(b.bs) <= b.nb /\ b.nb <= cfg.maxB
        /\ \A j \in DOMAIN b.bs : b.bs[j] = b.anchor + j
        /\ b.phase = "armed" => i = Len(live) /\ pc \in {"retire", "failed"} /\ b.bs = <<>>
        /\ b.phase = "prep" => i = Len(live) /\ pc \in {"idle", "waitall", "drain", "emptied", "failed"}
        /\ i < Len(live) => live[i + 1].anchor = End(b) + 1
        /\ \A k \in DOMAIN live : i < k => End(b) < live[k].anchor
BurstInv ==
    /\ \A i \in DOMAIN live : BurstOf(i)
    /\ live # <<>> => seq = End(Last(live)) /\ anchorSeq = Last(live).anchor
    /\ cfg.lag = 0 =>
         /\ live # <<>> => w2.pic = None
         /\ \/ Len(live) <= 1
            \/ pc \in {"retire", "failed"} /\ Len(live) = 2 /\ ~live[2].billed

-----------------------------------------------------------------------------
(* Where the API thread is. *)

SerialPcs == {"serial", "decided", "coded", "sibling", "pair", "gate"}
LaunchPcs == {"bill", "ring", "retire"}

PcInv ==
    /\ pc \in SerialPcs => live = <<>> /\ todo # <<>>
    /\ pc \in {"idle", "emptied", "done"} => todo = <<>>
    /\ pc = "retire" => /\ live # <<>> /\ Last(live).phase = "armed"
                        /\ Last(live).nb = Len(todo) - 1
    /\ pc = "drain" => Len(live) <= 1 \/ Preparing = {}
    /\ pc = "emptied" /\ NothingOut => live = <<>>
    /\ pc = "done" => live = <<>> /\ w2.pic = None /\ rcp = <<>>
    /\ pc = "coded" => Bounded
    /\ pc = "gate" => cfg.vbv
    /\ pc \in {"decided", "sibling", "pair"} => ~Bounded

\* Pictures a group still has to decide.
Left(t) == Len(t) + (IF \E i \in DOMAIN t : t[i] = "pair" THEN 1 ELSE 0)
RunOfP(t) == \A i \in DOMAIN t : t[i] = "P"
MiniGop(t) == /\ t[1] = "P" /\ \A i \in DOMAIN t : i > 1 => t[i] # "P"
              /\ Left(t) <= cfg.maxB + 1
Leaves(t) == \A i \in DOMAIN t : t[i] # "P"
PairLast(t) == \A i \in DOMAIN t : t[i] = "pair" => i = Len(t)

\* The group being coded, at p, when s pictures are decided, a of them up to the
\* last anchor.
TodoAt(p, t, s, a) ==
    /\ PairLast(t)
    /\ p \in LaunchPcs => t # <<>> /\ MiniGop(t) /\ "pair" \notin Range(t)
    /\ p \in {"waitall", "drain", "gate"} => t = <<>> \/ MiniGop(t) \/ RunOfP(t)
    /\ p = "serial" => \/ MiniGop(t) \/ RunOfP(t)
                       \/ Leaves(t) /\ s > 0 /\ s - a + Left(t) <= cfg.maxB
    /\ p \in {"decided", "coded"} =>
         /\ t[1] # "pair" /\ s > 0
         /\ \/ RunOfP(t)
            \/ Leaves(Tail(t)) /\ s - a + Left(Tail(t)) <= cfg.maxB
    /\ p \in {"sibling", "pair"} => Len(t) = 1 /\ s > 1
    /\ p = "sibling" => s - a < cfg.maxB
    /\ a <= s /\ s - a <= cfg.maxB
TodoInv == TodoAt(pc, todo, seq, anchorSeq)

HistInv ==
    \A k \in 1 .. cfg.ring :
        anchorHist[k] <= anchorSeq /\ anchorSeq - anchorHist[k] <= k * (cfg.maxB + 1)

-----------------------------------------------------------------------------
(* The pictures whose size is owed. *)

ApiOwes == IF pc \in {"decided", "coded", "sibling"} THEN {seq}
           ELSE IF pc = "pair" THEN {seq - 1, seq} ELSE {}
BurstOwes(b) == {p \in b.anchor .. End(b) : p = b.anchor => ~b.billed}
Owed == {p \in 1 .. seq : \/ p = w2.pic \/ p \in ApiOwes
                          \/ \E i \in DOMAIN live : p \in BurstOwes(live[i])}

\* The first picture not in the output and not skipped.
FirstOwed == IF live # <<>> THEN live[1].anchor
         ELSE IF pc \in {"decided", "coded", "sibling"} THEN seq
         ELSE IF pc = "pair" THEN seq - 1 ELSE seq + 1

W2Inv ==
    /\ w2.done => w2.pic # None
    /\ pc # "failed" /\ w2.pic # None => w2.pic = FirstOwed - 1
    /\ flushing # "no" /\ w2.pic # None /\ (live # <<>> \/ pc \in {"bill", "ring"}) => NothingOut

LastNal == IF nals = <<>> THEN 0 ELSE nals[Len(nals)]
Settled == IF w2.pic # None THEN w2.pic - 1 ELSE FirstOwed - 1
NalsInv ==
    /\ NalsInCodingOrder
    /\ pc # "failed" => LastNal <= Settled /\ LastNal + 1 .. Settled \subseteq skipped

-----------------------------------------------------------------------------
(* The ledger: decided pictures in order, those that have a size first. *)

Nth(a, q, n) == IF n <= Len(a) THEN a[n] ELSE q[n - Len(a)]
At(n) == Nth(acct, rcp, n)

\* Priced for the coding whose size fills it, or a retry outgrew the buffer.
PriceIs(e) == e.priced \/ e.outgrown

LedgerOf(f) ==
    /\ Len(acct) <= f /\ f <= seq /\ Len(acct) + Len(rcp) = seq
    /\ \A n \in 1 .. seq : /\ At(n).seq = n /\ PriceIs(At(n))
                           /\ At(n).filled <=> n <= f
                           /\ ~At(n).filled => At(n).src = None
    /\ \A n \in 1 .. f : At(n).src \in 1 .. seq

SizesOf(f) ==
    /\ \A m, n \in 1 .. f : At(m).src = At(n).src => m = n
    /\ pc # "failed" => \A p \in 1 .. seq : p \in Owed <=> \A n \in 1 .. f : At(n).src # p
    /\ cfg.lag = 0 => \A n \in 1 .. f : At(n).src = n

LedgerInv == \E f \in 0 .. seq : LedgerOf(f) /\ SizesOf(f)

\* The head of the ledger has no size yet or is not behind the pop bound.
HeadWaits ==
    rcp # <<>> /\ rcp[1].filled =>
        /\ rcp[1].seq >= PopBound(anchorSeq, anchorHist)
        /\ rcp[1].seq > cfg.warm /\ ~rcp[1].tight

RoomInv ==
    /\ lost = {}
    /\ live # <<>> /\ Last(live).phase \in {"armed", "prep"} =>
         Len(rcp) + Last(live).nb - Len(Last(live).bs) <= cfg.rcpMax

\* A tight group: nothing in flight, and the ledger holds the picture at hand.
TightInv ==
    cfg.vbv /\ tight /\ pc # "failed" =>
        /\ live = <<>> /\ w2.pic = None /\ pc \notin LaunchPcs
        /\ IF pc = "coded" THEN Len(rcp) = 1 /\ rcp[1].tight ELSE rcp = <<>>

IInv == /\ TypeInv /\ BurstInv /\ PcInv /\ TodoInv /\ HistInv /\ W2Inv /\ NalsInv
        /\ LedgerInv /\ HeadWaits /\ RoomInv /\ TightInv

-----------------------------------------------------------------------------
(* The operators of the ledger.                                             *)

Ready(p, bound) == p.filled /\ (p.seq < bound \/ p.seq <= cfg.warm \/ p.tight)
Result == [src : Nat, dropped : BOOLEAN]

\* A prefix of a sequence on which a condition holds has an end.
LEMMA PrefixEnds ==
    ASSUME NEW len \in Nat, NEW R
    PROVE  \E n \in 0 .. len : /\ \A i \in 1 .. n : i \in R
                               /\ n < len => n + 1 \notin R
<1> DEFINE Ends == {n \in Nat : n <= len /\ (n < len => n + 1 \notin R)}
<1>1. len \in Ends
    OBVIOUS
<1>2. PICK n \in Ends : \A m \in Ends : ~(<<m, n>> \in OpToRel(<, Nat))
    BY <1>1, NatLessThanWellFounded, WFMin
<1>3. ASSUME NEW i \in 1 .. n  PROVE i \in R
  <2>1. i - 1 \in Nat /\ i - 1 < n /\ i - 1 < len
      OBVIOUS
  <2>2. <<i - 1, n>> \in OpToRel(<, Nat)
      BY <2>1 DEF OpToRel
  <2>3. i - 1 \notin Ends
      BY <1>2, <2>2
  <2> QED
      BY <2>1, <2>3
<1> QED
    BY <1>3

\* rcp_pop_ready stops at the first entry that is not ready.
LEMMA PopReadyIs ==
    ASSUME NEW q \in Seq(Entry), NEW bound
    PROVE  /\ PopReady(q, bound) \in 0 .. Len(q)
           /\ \A i \in 1 .. PopReady(q, bound) : Ready(q[i], bound)
           /\ PopReady(q, bound) < Len(q) => ~Ready(q[PopReady(q, bound) + 1], bound)
<1> DEFINE R == {i \in 1 .. Len(q) : Ready(q[i], bound)}
           Ends(n) == /\ \A i \in 1 .. n : Ready(q[i], bound)
                      /\ n < Len(q) => ~Ready(q[n + 1], bound)
<1>1. Len(q) \in Nat
    OBVIOUS
<1>2. PICK n \in 0 .. Len(q) : (\A i \in 1 .. n : i \in R) /\ (n < Len(q) => n + 1 \notin R)
    BY <1>1, PrefixEnds
<1>3. Ends(n)
    BY <1>1, <1>2
<1>4. PopReady(q, bound) = CHOOSE m \in 0 .. Len(q) : Ends(m)
    BY DEF PopReady, Ready
<1> HIDE DEF Ends
<1>5. PopReady(q, bound) \in 0 .. Len(q) /\ Ends(PopReady(q, bound))
    BY <1>3, <1>4, Zenon
<1> QED
    BY <1>5 DEF Ends

\* rcp_commit_filled stops at the first entry that has no size.
LEMMA CommitFilledIs ==
    ASSUME NEW q \in Seq(Entry)
    PROVE  /\ CommitFilled(q) \in 0 .. Len(q)
           /\ \A i \in 1 .. CommitFilled(q) : q[i].filled
           /\ CommitFilled(q) < Len(q) => ~q[CommitFilled(q) + 1].filled
<1> DEFINE R == {i \in 1 .. Len(q) : q[i].filled}
           Ends(n) == /\ \A i \in 1 .. n : q[i].filled
                      /\ n < Len(q) => ~q[n + 1].filled
<1>1. Len(q) \in Nat
    OBVIOUS
<1>2. PICK n \in 0 .. Len(q) : (\A i \in 1 .. n : i \in R) /\ (n < Len(q) => n + 1 \notin R)
    BY <1>1, PrefixEnds
<1>3. Ends(n)
    BY <1>1, <1>2
<1>4. CommitFilled(q) = CHOOSE m \in 0 .. Len(q) : Ends(m)
    BY DEF CommitFilled
<1> HIDE DEF Ends
<1>5. CommitFilled(q) \in 0 .. Len(q) /\ Ends(CommitFilled(q))
    BY <1>3, <1>4, Zenon
<1> QED
    BY <1>5 DEF Ends

\* An entry that gets its size.
Sized(p, x) == [p EXCEPT !.filled = TRUE, !.src = x.src, !.dropped = x.dropped]

\* The results fill the entries behind those that have a size, in order.
FilledFrom(s, q, g, r) ==
    /\ s \in Seq(Entry) /\ Len(s) = Len(q)
    /\ \A i \in 1 .. Len(q) :
           s[i] = IF i <= g \/ i > g + Len(r) THEN q[i] ELSE Sized(q[i], r[i - g])

LEMMA FillIs ==
    ASSUME NEW q \in Seq(Entry), NEW g \in 0..Len(q), NEW r \in Seq(Result),
           \A i \in 1 .. Len(q) : q[i].filled <=> i <= g,
           Len(r) <= Len(q) - g
    PROVE  FilledFrom(Fill(q, r), q, g, r)
<1> DEFINE Rank(j) == Cardinality({i \in 1 .. j : ~q[i].filled})
           New(j) == IF ~q[j].filled /\ Rank(j) <= Len(r)
                     THEN Sized(q[j], r[Rank(j)])
                     ELSE q[j]
<1>1. Fill(q, r) = [j \in 1 .. Len(q) |-> New(j)]
    BY LenProperties DEF Fill, Sized
<1>2. ASSUME NEW j \in 1 .. Len(q), j > g  PROVE Rank(j) = j - g
  <2>1. PICK X : X = {i \in 1 .. j : ~q[i].filled}
      OBVIOUS
  <2>2. X = g + 1 .. j
      BY <1>2, <2>1
  <2>3. Cardinality(X) = j - g
      BY <1>2, <2>2, FS_Interval
  <2> QED
      BY <2>1, <2>3, Zenon
<1> HIDE DEF Rank
<1>3. ASSUME NEW j \in 1 .. Len(q)
      PROVE  /\ New(j) \in Entry
             /\ New(j) = IF j <= g \/ j > g + Len(r) THEN q[j] ELSE Sized(q[j], r[j - g])
  <2>0. q[j] \in Entry /\ Len(r) \in Nat
      BY ElementOfSeq
  <2>1. CASE j <= g
      BY <2>0, <2>1
  <2>2. CASE j > g /\ j > g + Len(r)
    <3>1. Rank(j) = j - g
        BY <1>2, <2>2
    <3> QED
        BY <2>0, <2>2, <3>1
  <2>3. CASE j > g /\ j <= g + Len(r)
    <3>1. Rank(j) = j - g /\ ~q[j].filled /\ j - g \in 1 .. Len(r)
        BY <1>2, <2>0, <2>3
    <3>2. r[j - g] \in Result
        BY <3>1, ElementOfSeq
    <3>3. New(j) = Sized(q[j], r[j - g])
        BY <2>0, <2>3, <3>1
    <3>4. Sized(q[j], r[j - g]) \in Entry
        BY <2>0, <3>2 DEF Entry, Result, Sized
    <3> QED
        BY <2>0, <2>3, <3>3, <3>4
  <2> QED
      BY <2>0, <2>1, <2>2, <2>3
<1> HIDE DEF New
<1>4. PICK s : s = [j \in 1 .. Len(q) |-> New(j)]
    OBVIOUS
<1>5. Len(q) \in Nat /\ s \in [1 .. Len(q) -> Entry]
    BY <1>3, <1>4
<1>6. s \in Seq(Entry) /\ Len(s) = Len(q)
    BY <1>5, SMTT(40)
<1>7. \A j \in 1 .. Len(q) : s[j] = New(j)
    BY <1>4
<1>8. s = Fill(q, r)
    BY <1>1, <1>4
<1> QED
    BY <1>3, <1>6, <1>7, <1>8 DEF FilledFrom

\* Entries that are retired keep their places.
Retired(a, q, n, b, s) ==
    /\ s \in Seq(Entry) /\ Len(s) = Len(q) - n
    /\ \A i \in 1 .. Len(q) - n : s[i] = q[n + i]
    /\ b \in Seq(Entry) /\ Len(b) = Len(a) + n
    /\ \A m \in 1 .. Len(a) + Len(q) : Nth(b, s, m) = Nth(a, q, m)

LEMMA RetireIs ==
    ASSUME NEW a \in Seq(Entry), NEW q \in Seq(Entry), NEW n \in 0 .. Len(q),
           NEW s, s = SubSeq(q, n + 1, Len(q)),
           NEW b, b = a \o SubSeq(q, 1, n)
    PROVE  Retired(a, q, n, b, s)
<1>0. /\ Len(q) \in Nat /\ Len(a) \in Nat
      /\ \A i \in 1 .. Len(q) : q[i] \in Entry
    BY ElementOfSeq
<1>1. s = SubSeq(q, n + 1, Len(q))
    OBVIOUS
<1>2. PICK t : t = SubSeq(q, 1, n)
    OBVIOUS
<1>3. /\ s \in Seq(Entry) /\ Len(s) = Len(q) - n
      /\ \A i \in 1 .. Len(q) - n : s[i] = q[n + i]
    <2>1. /\ s \in Seq(Entry)
          /\ Len(s) = IF n + 1 <= Len(q) THEN Len(q) - (n + 1) + 1 ELSE 0
          /\ \A i \in 1 .. Len(q) - (n + 1) + 1 : s[i] = q[(n + 1) + i - 1]
        BY <1>0, <1>1, SubSeqProperties
    <2> QED
        BY <1>0, <2>1, SMTT(40)
<1>4. /\ t \in Seq(Entry) /\ Len(t) = n
      /\ \A i \in 1 .. n : t[i] = q[i]
    <2>1. /\ t \in Seq(Entry)
          /\ Len(t) = IF 1 <= n THEN n - 1 + 1 ELSE 0
          /\ \A i \in 1 .. n - 1 + 1 : t[i] = q[1 + i - 1]
        BY <1>0, <1>2, SubSeqProperties
    <2> QED
        BY <1>0, <2>1
<1>5. /\ a \o t \in Seq(Entry)
      /\ Len(a \o t) = Len(a) + n
      /\ \A i \in 1 .. Len(a) + n : (a \o t)[i] = IF i <= Len(a) THEN a[i] ELSE t[i - Len(a)]
    BY <1>4, ConcatProperties
<1>6. ASSUME NEW m \in 1 .. Len(a) + Len(q)
      PROVE  Nth(a \o t, s, m) = Nth(a, q, m)
  <2>1. CASE m <= Len(a)
      BY <1>0, <1>5, <2>1 DEF Nth
  <2>2. CASE m > Len(a) /\ m <= Len(a) + n
    <3>1. (a \o t)[m] = t[m - Len(a)] /\ t[m - Len(a)] = q[m - Len(a)]
        BY <1>0, <1>4, <1>5, <2>2
    <3> QED
        BY <1>0, <1>5, <2>2, <3>1 DEF Nth
  <2>3. CASE m > Len(a) + n
    <3>1. PICK i : i = m - (Len(a) + n)
        OBVIOUS
    <3>2. i \in 1 .. Len(q) - n /\ n + i = m - Len(a)
        BY <1>0, <2>3, <3>1
    <3>3. s[i] = q[m - Len(a)]
        BY <1>3, <3>2
    <3>4. Nth(a \o t, s, m) = s[m - (Len(a) + n)]
        BY <1>0, <1>5, <2>3 DEF Nth
    <3>5. Nth(a, q, m) = q[m - Len(a)]
        BY <1>0, <2>3 DEF Nth
    <3> QED
        BY <3>1, <3>3, <3>4, <3>5
  <2> QED
      BY <1>0, <2>1, <2>2, <2>3
<1> QED
    BY <1>2, <1>3, <1>5, <1>6 DEF Retired

-----------------------------------------------------------------------------
(* What the calls of the ledger do to it.                                   *)

\* The facts about a setting.
SettingIs(c) ==
    /\ c.ring \in Nat \ {0} /\ c.rcpMax \in Nat \ {0} /\ c.lag \in 0 .. c.ring - 1
    /\ c.warm \in Nat /\ c.maxB \in Nat \ {0} /\ c.nPics \in Nat
    /\ c.faults \in BOOLEAN /\ c.vbv \in BOOLEAN /\ (c.vbv => c.lag = 0)
    /\ c.rcpMax > (c.lag + 1) * (c.maxB + 1)

LEMMA CfgIs ==
    ASSUME TypeInv
    PROVE  SettingIs(cfg)
    BY SettingsAssumption DEF TypeInv, SettingIs

\* rcp_pop_bound, of the history and of the one an anchor makes of it.
LEMMA BoundIs ==
    ASSUME TypeInv
    PROVE  PopBound(anchorSeq, anchorHist) \in Nat
<1>1. /\ anchorSeq \in Nat /\ anchorHist \in Seq(Nat) /\ Len(anchorHist) = cfg.ring
      /\ cfg.lag \in 0 .. cfg.ring - 1 /\ cfg.ring \in Nat
    BY CfgIs DEF TypeInv, SettingIs
<1>2. CASE cfg.lag = 0
    BY <1>1, <1>2 DEF PopBound
<1>3. CASE cfg.lag # 0
  <2>1. cfg.lag \in 1 .. Len(anchorHist)
      BY <1>1, <1>3
  <2>2. anchorHist[cfg.lag] \in Nat
      BY <1>1, <2>1, ElementOfSeq
  <2> QED
      BY <1>3, <2>2 DEF PopBound
<1> QED
    BY <1>2, <1>3

\* The pending entries are the last of the ledger.
LEMMA PendingIs ==
    ASSUME TypeInv, NEW f \in 0 .. seq, LedgerOf(f)
    PROVE  /\ Len(rcp) \in Nat /\ Len(acct) \in Nat /\ seq \in Nat
           /\ \A i \in 1 .. Len(rcp) :
                  /\ rcp[i] \in Entry /\ rcp[i] = At(Len(acct) + i)
                  /\ rcp[i].seq = Len(acct) + i
                  /\ rcp[i].filled <=> i <= f - Len(acct)
           /\ \A n \in 1 .. seq : At(n) \in Entry
<1>1. /\ Len(rcp) \in Nat /\ Len(acct) \in Nat /\ seq \in Nat
      /\ rcp \in Seq(Entry) /\ acct \in Seq(Entry)
    BY DEF TypeInv
<1>2. ASSUME NEW i \in 1 .. Len(rcp)
      PROVE  /\ rcp[i] \in Entry /\ rcp[i] = At(Len(acct) + i)
             /\ rcp[i].seq = Len(acct) + i
             /\ rcp[i].filled <=> i <= f - Len(acct)
  <2>1. rcp[i] \in Entry
      BY <1>1, ElementOfSeq
  <2>2. PICK n : n = Len(acct) + i
      OBVIOUS
  <2>3. n \in 1 .. seq /\ n > Len(acct) /\ n - Len(acct) = i
      BY <1>1, <2>2 DEF LedgerOf
  <2>4. At(n) = rcp[i]
      BY <1>1, <2>3 DEF At, Nth
  <2>5. At(n).seq = n /\ (At(n).filled <=> n <= f)
      BY <2>3 DEF LedgerOf
  <2> QED
      BY <1>1, <2>1, <2>2, <2>4, <2>5
<1>3. ASSUME NEW n \in 1 .. seq
      PROVE  At(n) \in Entry
  <2>1. CASE n <= Len(acct)
    <3>1. n \in 1 .. Len(acct)
        BY <1>1, <2>1
    <3> QED
        BY <1>1, <2>1, <3>1, ElementOfSeq DEF At, Nth
  <2>2. CASE n > Len(acct)
    <3>1. n - Len(acct) \in 1 .. Len(rcp)
        BY <1>1, <2>2 DEF LedgerOf
    <3>2. At(n) = rcp[n - Len(acct)]
        BY <1>1, <2>2 DEF At, Nth
    <3> QED
        BY <1>1, <3>1, <3>2, ElementOfSeq
  <2> QED
      BY <1>1, <2>1, <2>2
<1> QED
    BY <1>1, <1>2, <1>3

\* Sizes fill the entries behind those that have one; what can be is retired.
LEMMA RecordIs ==
    ASSUME TypeInv, NEW f \in 0 .. seq, LedgerOf(f), cfg' = cfg,
           NEW r \in Seq(Result), Len(r) <= seq - f, Record(r)
    PROVE  /\ rcp' \in Seq(Entry) /\ acct' \in Seq(Entry)
           /\ seq' = seq /\ anchorSeq' = anchorSeq /\ anchorHist' = anchorHist /\ lost' = lost
           /\ Len(acct) <= Len(acct') /\ Len(acct') <= f + Len(r)
           /\ Len(acct') + Len(rcp') = seq
           /\ \A n \in 1 .. seq :
                  At(n)' = IF n <= f \/ n > f + Len(r) THEN At(n) ELSE Sized(At(n), r[n - f])
           /\ HeadWaits'
<1>1. /\ Len(rcp) \in Nat /\ Len(acct) \in Nat /\ seq \in Nat /\ Len(r) \in Nat
      /\ rcp \in Seq(Entry) /\ acct \in Seq(Entry)
      /\ Len(acct) + Len(rcp) = seq /\ Len(acct) <= f
    BY PendingIs DEF TypeInv, LedgerOf
<1>2. PICK g : g = f - Len(acct)
    OBVIOUS
<1>3. /\ g \in 0 .. Len(rcp) /\ Len(r) <= Len(rcp) - g
      /\ \A i \in 1 .. Len(rcp) : rcp[i].filled <=> i <= g
  <2>1. \A i \in 1 .. Len(rcp) : rcp[i].filled <=> i <= f - Len(acct)
      BY PendingIs, Zenon
  <2>2. g \in 0 .. Len(rcp) /\ Len(r) <= Len(rcp) - g
      BY <1>1, <1>2
  <2> QED
      BY <1>2, <2>1, <2>2
<1>4. PICK q : q = Fill(rcp, r)
    OBVIOUS
<1>5. /\ q \in Seq(Entry) /\ Len(q) = Len(rcp)
      /\ \A i \in 1 .. Len(rcp) :
             q[i] = IF i <= g \/ i > g + Len(r) THEN rcp[i] ELSE Sized(rcp[i], r[i - g])
  <2>1. FilledFrom(Fill(rcp, r), rcp, g, r)
      BY <1>1, <1>3, FillIs, Zenon
  <2> QED
      BY <1>4, <2>1 DEF FilledFrom
<1>6. PICK b : b = PopBound(anchorSeq, anchorHist)
    OBVIOUS
<1>7. PICK n : n = PopReady(q, b)
    OBVIOUS
<1>8. /\ n \in 0 .. Len(q) /\ (\A i \in 1 .. n : Ready(q[i], b))
      /\ n < Len(q) => ~Ready(q[n + 1], b)
    BY <1>5, <1>7, PopReadyIs
<1>9. /\ rcp' = SubSeq(q, n + 1, Len(q)) /\ acct' = acct \o SubSeq(q, 1, n)
      /\ seq' = seq /\ anchorSeq' = anchorSeq /\ anchorHist' = anchorHist /\ lost' = lost
    BY <1>4, <1>6, <1>7 DEF Record, Retire
<1>10. /\ rcp' \in Seq(Entry) /\ Len(rcp') = Len(q) - n
       /\ \A i \in 1 .. Len(q) - n : rcp'[i] = q[n + i]
       /\ acct' \in Seq(Entry) /\ Len(acct') = Len(acct) + n
       /\ \A m \in 1 .. Len(acct) + Len(q) : Nth(acct', rcp', m) = Nth(acct, q, m)
  <2>1. acct \in Seq(Entry) /\ q \in Seq(Entry) /\ n \in 0 .. Len(q)
      BY <1>1, <1>5, <1>8
  <2> QED
    <3>1. rcp' = SubSeq(q, n + 1, Len(q)) /\ acct' = acct \o SubSeq(q, 1, n)
        BY <1>9
    <3>2. Retired(acct, q, n, acct', rcp')
        BY <2>1, <3>1, RetireIs
    <3> QED
        BY <3>2 DEF Retired
<1>11. n <= g + Len(r)
  <2>1. CASE n = 0
      BY <1>1, <1>3, <2>1
  <2>2. CASE n > 0
    <3>1. n \in 1 .. Len(rcp) /\ q[n].filled
        BY <1>1, <1>5, <1>8, <2>2 DEF Ready
    <3>2. ASSUME n > g + Len(r)  PROVE FALSE
      <4>1. q[n] = rcp[n]
          BY <1>5, <3>1, <3>2
      <4>2. n <= g
          BY <1>3, <3>1, <4>1
      <4> QED
          BY <1>1, <1>3, <3>1, <3>2, <4>2
    <3> QED
        BY <1>1, <1>3, <3>1, <3>2
  <2> QED
      BY <1>8, <2>1, <2>2
<1>12. Len(acct) <= Len(acct') /\ Len(acct') <= f + Len(r) /\ Len(acct') + Len(rcp') = seq
  <2>1. /\ Len(q) = Len(rcp) /\ n \in 0 .. Len(q)
        /\ Len(rcp') = Len(q) - n /\ Len(acct') = Len(acct) + n
      BY <1>5, <1>8, <1>10
  <2>2. n \in Nat /\ g \in Int /\ f \in Nat /\ Len(acct) \in Nat /\ Len(r) \in Nat
      BY <1>1, <1>2, <2>1
  <2>3. Len(acct) <= Len(acct')
      BY <2>1, <2>2
  <2>4. Len(acct') <= f + Len(r)
      BY <2>1, <2>2, <1>2, <1>11
  <2>5. Len(acct') + Len(rcp') = seq
    <3>1. Len(rcp) \in Nat /\ Len(acct) + Len(rcp) = seq
        BY <1>1
    <3> QED
        BY <2>1, <2>2, <3>1
  <2> QED
      BY <2>3, <2>4, <2>5
<1>13. ASSUME NEW m \in 1 .. seq
       PROVE  At(m)' = IF m <= f \/ m > f + Len(r) THEN At(m) ELSE Sized(At(m), r[m - f])
  <2>1. At(m)' = Nth(acct, q, m)
      BY <1>1, <1>5, <1>10 DEF At
  <2>2. CASE m <= Len(acct)
      BY <1>1, <2>1, <2>2 DEF At, Nth
  <2>3. CASE m > Len(acct)
    <3>1. PICK i : i = m - Len(acct)
        OBVIOUS
    <3>2. i \in 1 .. Len(rcp) /\ m = Len(acct) + i /\ m - f = i - g
        BY <1>1, <1>2, <2>3, <3>1
    <3>3. At(m)' = q[i] /\ At(m) = rcp[i]
        BY <1>1, <2>1, <2>3, <3>1 DEF At, Nth
    <3>4. (i <= g <=> m <= f) /\ (i > g + Len(r) <=> m > f + Len(r))
        BY <1>1, <1>2, <1>3, <3>2
    <3> QED
        BY <1>5, <3>2, <3>3, <3>4
  <2> QED
      BY <1>1, <2>2, <2>3
<1>14. HeadWaits'
  <2>1. SUFFICES ASSUME rcp' # <<>>, rcp'[1].filled
                 PROVE  rcp'[1].seq >= b /\ rcp'[1].seq > cfg.warm /\ ~rcp'[1].tight
      BY <1>6, <1>9 DEF HeadWaits, PopBound
  <2>2. Len(q) - n > 0
      BY <1>1, <1>5, <1>8, <1>10, <2>1
  <2>3. rcp'[1] = q[n + 1] /\ n < Len(q) /\ n + 1 \in 1 .. Len(q)
      BY <1>1, <1>5, <1>8, <1>10, <2>2
  <2>4. ~Ready(rcp'[1], b)
      BY <1>8, <2>3
  <2>5. ~(rcp'[1].seq < b) /\ ~(rcp'[1].seq <= cfg.warm) /\ ~rcp'[1].tight
      BY <2>1, <2>4 DEF Ready
  <2>6. rcp'[1].seq \in Nat /\ cfg.warm \in Nat
    <3>1. q[n + 1] \in Entry
        BY <1>5, <2>3, ElementOfSeq
    <3> QED
        BY <2>3, <3>1, CfgIs DEF Entry, SettingIs
  <2>7. b \in Nat
      BY <1>6, BoundIs
  <2> QED
      BY <2>5, <2>6, <2>7
<1> QED
    BY <1>9, <1>10, <1>12, <1>13, <1>14

\* A decide opens an entry behind all others; what can be is retired.
Newest(kind) == IF kind = "P" THEN seq + 1 ELSE anchorSeq
Pushed(hist) == <<anchorSeq>> \o SubSeq(hist, 1, cfg.ring - 1)
History(kind) == IF kind = "P" THEN Pushed(anchorHist) ELSE anchorHist

LEMMA HistoryIs ==
    ASSUME TypeInv
    PROVE  /\ Pushed(anchorHist) \in Seq(Nat) /\ Len(Pushed(anchorHist)) = cfg.ring
           /\ Pushed(anchorHist)[1] = anchorSeq
           /\ \A k \in 2 .. cfg.ring : Pushed(anchorHist)[k] = anchorHist[k - 1]
<1>1. /\ anchorSeq \in Nat /\ anchorHist \in Seq(Nat) /\ Len(anchorHist) = cfg.ring
      /\ cfg.ring \in Nat \ {0}
    BY CfgIs DEF TypeInv, SettingIs
<1>2. PICK t : t = SubSeq(anchorHist, 1, cfg.ring - 1)
    OBVIOUS
<1>3. \A i \in 1 .. cfg.ring - 1 : anchorHist[i] \in Nat
    BY <1>1, ElementOfSeq
<1>4. /\ t \in Seq(Nat) /\ Len(t) = cfg.ring - 1
      /\ \A i \in 1 .. cfg.ring - 1 : t[i] = anchorHist[i]
  <2>1. /\ t \in Seq(Nat)
        /\ Len(t) = IF 1 <= cfg.ring - 1 THEN (cfg.ring - 1) - 1 + 1 ELSE 0
        /\ \A i \in 1 .. (cfg.ring - 1) - 1 + 1 : t[i] = anchorHist[1 + i - 1]
      BY <1>1, <1>2, <1>3, SubSeqProperties
  <2> QED
      BY <1>1, <1>3, <2>1
<1>5. PICK h : h = <<anchorSeq>>
    OBVIOUS
<1>6. h \in Seq(Nat) /\ Len(h) = 1 /\ h[1] = anchorSeq
    BY <1>1, <1>5
<1>7. /\ h \o t \in Seq(Nat) /\ Len(h \o t) = Len(h) + Len(t)
      /\ \A i \in 1 .. Len(h) + Len(t) :
             (h \o t)[i] = IF i <= Len(h) THEN h[i] ELSE t[i - Len(h)]
    BY <1>4, <1>6, ConcatProperties
<1>8. Pushed(anchorHist) = h \o t
    BY <1>2, <1>5 DEF Pushed
<1>9. Len(h \o t) = cfg.ring /\ (h \o t)[1] = anchorSeq
    BY <1>1, <1>4, <1>6, <1>7
<1>10. ASSUME NEW k \in 2 .. cfg.ring  PROVE (h \o t)[k] = anchorHist[k - 1]
  <2>1. k \in 1 .. Len(h) + Len(t) /\ ~(k <= Len(h)) /\ k - Len(h) = k - 1
        /\ k - 1 \in 1 .. cfg.ring - 1
      BY <1>1, <1>4, <1>6
  <2> QED
      BY <1>4, <1>7, <2>1
<1> QED
    BY <1>7, <1>8, <1>9, <1>10

LEMMA NextBoundIs ==
    ASSUME TypeInv
    PROVE  PopBound(seq + 1, Pushed(anchorHist)) \in Nat
<1>1. /\ seq \in Nat /\ cfg.lag \in 0 .. cfg.ring - 1 /\ cfg.ring \in Nat
    BY CfgIs DEF TypeInv, SettingIs
<1>2. CASE cfg.lag = 0
    BY <1>1, <1>2 DEF PopBound
<1>3. CASE cfg.lag # 0
  <2>1. cfg.lag \in 1 .. Len(Pushed(anchorHist))
      BY <1>1, <1>3, HistoryIs
  <2>2. Pushed(anchorHist)[cfg.lag] \in Nat
      BY <2>1, HistoryIs, ElementOfSeq
  <2> QED
      BY <1>3, <2>2 DEF PopBound
<1> QED
    BY <1>2, <1>3

LEMMA PushIs ==
    ASSUME TypeInv, NEW f \in 0 .. seq, LedgerOf(f), cfg' = cfg,
           NEW kind, Push(kind), Len(rcp) < cfg.rcpMax
    PROVE  /\ rcp' \in Seq(Entry) /\ acct' \in Seq(Entry)
           /\ seq' = seq + 1 /\ lost' = lost
           /\ anchorSeq' = Newest(kind) /\ anchorHist' = History(kind)
           /\ Len(acct) <= Len(acct') /\ Len(acct') <= f
           /\ Len(acct') + Len(rcp') = seq + 1
           /\ \A n \in 1 .. seq : At(n)' = At(n)
           /\ \A n \in {seq + 1} : At(n)' = Decided(n)
           /\ HeadWaits'
<1>1. /\ Len(rcp) \in Nat /\ Len(acct) \in Nat /\ seq \in Nat
      /\ rcp \in Seq(Entry) /\ acct \in Seq(Entry)
      /\ Len(acct) + Len(rcp) = seq /\ Len(acct) <= f
    BY PendingIs DEF TypeInv, LedgerOf
<1>2. PICK g : g = f - Len(acct)
    OBVIOUS
<1>3. /\ g \in 0 .. Len(rcp)
      /\ \A i \in 1 .. Len(rcp) : rcp[i].filled <=> i <= g
    BY <1>1, <1>2, PendingIs
<1>4. PICK z : z = IF kind = "P" /\ cfg.lag = 0 THEN CommitFilled(rcp) ELSE 0
    OBVIOUS
<1>5. z \in 0 .. Len(rcp) /\ z <= g
  <2>1. CASE z = 0
      BY <1>1, <1>3, <2>1
  <2>2. CASE z # 0
    <3>1. z = CommitFilled(rcp)
        BY <1>4, <2>2
    <3>2. z \in 0 .. Len(rcp) /\ (\A i \in 1 .. z : rcp[i].filled)
        BY <1>1, <3>1, CommitFilledIs
    <3>3. z \in 1 .. z /\ z \in 1 .. Len(rcp)
        BY <2>2, <3>2
    <3> QED
        BY <1>3, <3>2, <3>3
  <2> QED
      BY <2>1, <2>2
<1>6. PICK rest : rest = SubSeq(rcp, z + 1, Len(rcp))
    OBVIOUS
<1>7. PICK a1 : a1 = acct \o SubSeq(rcp, 1, z)
    OBVIOUS
<1>8. Retired(acct, rcp, z, a1, rest)
    BY <1>1, <1>5, <1>6, <1>7, RetireIs
<1>9. /\ rest \in Seq(Entry) /\ Len(rest) = Len(rcp) - z
      /\ \A i \in 1 .. Len(rcp) - z : rest[i] = rcp[z + i]
      /\ a1 \in Seq(Entry) /\ Len(a1) = Len(acct) + z
    BY <1>8 DEF Retired
<1>10. \A m \in 1 .. seq : Nth(a1, rest, m) = At(m)
    BY <1>1, <1>8 DEF Retired, At
<1>11. PICK d : d = Decided(seq + 1)
    OBVIOUS
<1>12. d \in Entry /\ d.seq = seq + 1 /\ ~d.filled
  <2>1. tight \in BOOLEAN /\ cfg.vbv \in BOOLEAN
      BY CfgIs DEF TypeInv, SettingIs
  <2> QED
      BY <1>1, <1>11, <2>1 DEF Decided, Entry, None
<1>13. PICK q : q = Append(rest, d)
    OBVIOUS
<1>14. /\ q \in Seq(Entry) /\ Len(q) = Len(rest) + 1
       /\ \A i \in 1 .. Len(rest) : q[i] = rest[i]
       /\ q[Len(rest) + 1] = d
    BY <1>9, <1>12, <1>13, AppendProperties
<1>15. PICK b : b = PopBound(Newest(kind), History(kind))
    OBVIOUS
<1>16. PICK n : n = PopReady(q, b)
    OBVIOUS
<1>17. /\ n \in 0 .. Len(q) /\ (\A i \in 1 .. n : Ready(q[i], b))
       /\ n < Len(q) => ~Ready(q[n + 1], b)
    BY <1>14, <1>16, PopReadyIs
<1>18. Len(rest) < cfg.rcpMax
  <2>1. cfg.rcpMax \in Nat
      BY CfgIs DEF SettingIs
  <2> QED
      BY <1>1, <1>5, <1>9, <2>1
<1>19. /\ rcp' = SubSeq(q, n + 1, Len(q)) /\ acct' = a1 \o SubSeq(q, 1, n)
       /\ seq' = seq + 1 /\ lost' = lost
       /\ anchorSeq' = Newest(kind) /\ anchorHist' = History(kind)
  <2>1. /\ Newest(kind) = IF kind = "P" THEN seq + 1 ELSE anchorSeq
        /\ History(kind) = IF kind = "P" THEN <<anchorSeq>> \o SubSeq(anchorHist, 1, cfg.ring - 1)
                           ELSE anchorHist
      BY DEF Newest, History, Pushed
  <2> QED
      BY <1>4, <1>6, <1>7, <1>11, <1>13, <1>15, <1>16, <1>18, <2>1 DEF Push
<1>20. Retired(a1, q, n, acct', rcp')
  <2>1. rcp' = SubSeq(q, n + 1, Len(q)) /\ acct' = a1 \o SubSeq(q, 1, n)
      BY <1>19
  <2> QED
      BY <1>9, <1>14, <1>17, <2>1, RetireIs
<1>21. /\ rcp' \in Seq(Entry) /\ Len(rcp') = Len(q) - n
       /\ \A i \in 1 .. Len(q) - n : rcp'[i] = q[n + i]
       /\ acct' \in Seq(Entry) /\ Len(acct') = Len(a1) + n
       /\ \A m \in 1 .. Len(a1) + Len(q) : Nth(acct', rcp', m) = Nth(a1, q, m)
    BY <1>20 DEF Retired
<1>22. n <= g - z
  <2>1. CASE n = 0
      BY <1>3, <1>5, <2>1
  <2>2. CASE n > 0
    <3>1. n \in 1 .. Len(rest) + 1 /\ q[n].filled
        BY <1>14, <1>17, <2>2 DEF Ready
    <3>2. n # Len(rest) + 1
        BY <1>12, <1>14, <3>1
    <3>3. n \in 1 .. Len(rest)
        BY <1>1, <1>5, <1>9, <3>1, <3>2
    <3>4. q[n] = rcp[z + n] /\ z + n \in 1 .. Len(rcp)
        BY <1>1, <1>5, <1>9, <1>14, <3>3
    <3> QED
        BY <1>3, <1>5, <3>1, <3>3, <3>4
  <2> QED
      BY <1>17, <2>1, <2>2
<1>23. Len(acct) <= Len(acct') /\ Len(acct') <= f /\ Len(acct') + Len(rcp') = seq + 1
  <2>1. /\ Len(q) = Len(rcp) - z + 1 /\ n \in Nat /\ z \in Nat
        /\ Len(rcp') = Len(q) - n /\ Len(acct') = Len(acct) + z + n
      BY <1>5, <1>9, <1>14, <1>17, <1>21
  <2>2. Len(acct) <= Len(acct')
      BY <1>1, <2>1
  <2>3. Len(acct') <= f
      BY <1>1, <1>2, <1>22, <2>1
  <2>4. Len(acct') + Len(rcp') = seq + 1
    <3>1. Len(rcp) \in Nat /\ Len(acct) \in Nat /\ Len(acct) + Len(rcp) = seq
        BY <1>1
    <3> QED
        BY <2>1, <3>1
  <2> QED
      BY <2>2, <2>3, <2>4
<1>24. Len(a1) + Len(rest) = seq /\ Len(a1) \in Nat /\ Len(rest) \in Nat
  <2>1. Len(rest) = Len(rcp) - z /\ Len(a1) = Len(acct) + z /\ z \in 0 .. Len(rcp)
      BY <1>5, <1>9
  <2>2. Len(rcp) \in Nat /\ Len(acct) \in Nat /\ Len(acct) + Len(rcp) = seq
      BY <1>1
  <2> QED
      BY <2>1, <2>2
<1>25. \A m \in 1 .. seq + 1 : At(m)' = Nth(a1, q, m)
    BY <1>14, <1>21, <1>24 DEF At
<1>26. ASSUME NEW m \in 1 .. seq
       PROVE  At(m)' = At(m)
  <2>0. m \in 1 .. seq + 1
      BY <1>1
  <2>1. CASE m <= Len(a1)
      BY <1>10, <1>25, <2>0, <2>1 DEF Nth
  <2>2. CASE m > Len(a1)
    <3>1. m - Len(a1) \in 1 .. Len(rest)
        BY <1>24, <2>2
    <3>2. Nth(a1, q, m) = q[m - Len(a1)] /\ Nth(a1, rest, m) = rest[m - Len(a1)]
        BY <1>24, <2>2 DEF Nth
    <3> QED
        BY <1>10, <1>14, <1>25, <2>0, <3>1, <3>2
  <2> QED
      BY <1>24, <2>1, <2>2
<1>27. ASSUME NEW m \in {seq + 1}
       PROVE  At(m)' = Decided(m)
  <2>1. At(m)' = Nth(a1, q, m)
      BY <1>1, <1>25
  <2>2. ~(m <= Len(a1)) /\ m - Len(a1) = Len(rest) + 1
      BY <1>1, <1>24, SMTT(40)
  <2>3. Nth(a1, q, m) = d
      BY <1>14, <2>2 DEF Nth
  <2> QED
      BY <1>11, <2>1, <2>3
<1>28. HeadWaits'
  <2>1. SUFFICES ASSUME rcp' # <<>>, rcp'[1].filled
                 PROVE  rcp'[1].seq >= b /\ rcp'[1].seq > cfg.warm /\ ~rcp'[1].tight
      BY <1>15, <1>19 DEF HeadWaits, PopBound
  <2>2. Len(q) - n > 0
      BY <1>14, <1>17, <1>21, <2>1
  <2>3. rcp'[1] = q[n + 1] /\ n < Len(q) /\ n + 1 \in 1 .. Len(q)
    <3>1. Len(q) \in Nat /\ n \in Nat
        BY <1>14, <1>17
    <3> QED
        BY <1>21, <2>2, <3>1
  <2>4. ~Ready(rcp'[1], b)
      BY <1>17, <2>3
  <2>5. ~(rcp'[1].seq < b) /\ ~(rcp'[1].seq <= cfg.warm) /\ ~rcp'[1].tight
      BY <2>1, <2>4 DEF Ready
  <2>6. rcp'[1].seq \in Nat /\ cfg.warm \in Nat
    <3>1. q[n + 1] \in Entry
        BY <1>14, <2>3, ElementOfSeq
    <3> QED
        BY <2>3, <3>1, CfgIs DEF Entry, SettingIs
  <2>7. b \in Nat
      BY <1>15, BoundIs, NextBoundIs DEF Newest, History
  <2> QED
      BY <2>5, <2>6, <2>7
<1> QED
    BY <1>19, <1>21, <1>23, <1>26, <1>27, <1>28

\* rcp_commit_filled retires every entry that has its size.
LEMMA CommitIs ==
    ASSUME TypeInv, NEW f \in 0 .. seq, LedgerOf(f), Retire(rcp, CommitFilled(rcp))
    PROVE  /\ rcp' \in Seq(Entry) /\ acct' \in Seq(Entry)
           /\ Len(acct') = f /\ Len(acct') + Len(rcp') = seq
           /\ \A n \in 1 .. seq : At(n)' = At(n)
           /\ rcp' # <<>> => ~rcp'[1].filled
<1>1. /\ Len(rcp) \in Nat /\ Len(acct) \in Nat /\ seq \in Nat
      /\ rcp \in Seq(Entry) /\ acct \in Seq(Entry)
      /\ Len(acct) + Len(rcp) = seq /\ Len(acct) <= f
    BY PendingIs DEF TypeInv, LedgerOf
<1>2. PICK g : g = f - Len(acct)
    OBVIOUS
<1>3. /\ g \in 0 .. Len(rcp)
      /\ \A i \in 1 .. Len(rcp) : rcp[i].filled <=> i <= g
    BY <1>1, <1>2, PendingIs
<1>4. PICK n : n = CommitFilled(rcp)
    OBVIOUS
<1>5. /\ n \in 0 .. Len(rcp) /\ (\A i \in 1 .. n : rcp[i].filled)
      /\ n < Len(rcp) => ~rcp[n + 1].filled
    BY <1>1, <1>4, CommitFilledIs
<1>6. n = g
  <2>1. n <= g
    <3>1. CASE n = 0
        BY <1>3, <3>1
    <3>2. CASE n # 0
      <4>1. n \in 1 .. n /\ n \in 1 .. Len(rcp)
          BY <1>5, <3>2
      <4> QED
          BY <1>3, <1>5, <4>1
    <3> QED
        BY <3>1, <3>2
  <2>2. ASSUME n < g  PROVE FALSE
    <3>1. n + 1 \in 1 .. Len(rcp) /\ n + 1 <= g /\ n < Len(rcp)
        BY <1>1, <1>3, <1>5, <2>2
    <3> QED
        BY <1>3, <1>5, <3>1
  <2> QED
      BY <1>1, <1>3, <1>5, <2>1, <2>2
<1>7. Retired(acct, rcp, n, acct', rcp')
  <2>1. rcp' = SubSeq(rcp, n + 1, Len(rcp)) /\ acct' = acct \o SubSeq(rcp, 1, n)
      BY <1>4 DEF Retire
  <2> QED
      BY <1>1, <1>5, <2>1, RetireIs
<1>8. /\ rcp' \in Seq(Entry) /\ Len(rcp') = Len(rcp) - n
      /\ \A i \in 1 .. Len(rcp) - n : rcp'[i] = rcp[n + i]
      /\ acct' \in Seq(Entry) /\ Len(acct') = Len(acct) + n
      /\ \A m \in 1 .. Len(acct) + Len(rcp) : Nth(acct', rcp', m) = Nth(acct, rcp, m)
    BY <1>7 DEF Retired
<1>9. Len(acct') = f /\ Len(acct') + Len(rcp') = seq
  <2>1. n = f - Len(acct) /\ f \in Nat
      BY <1>1, <1>2, <1>6
  <2>2. Len(rcp') = Len(rcp) - n /\ Len(acct') = Len(acct) + n
      BY <1>8
  <2>3. Len(acct') = f
      BY <1>1, <2>1, <2>2
  <2> QED
      BY <1>1, <2>1, <2>2, <2>3
<1>10. \A m \in 1 .. seq : At(m)' = At(m)
    BY <1>1, <1>8 DEF At
<1>11. ASSUME rcp' # <<>>  PROVE ~rcp'[1].filled
  <2>1. Len(rcp) - n > 0
      BY <1>1, <1>5, <1>8, <1>11
  <2>2. n < Len(rcp) /\ 1 \in 1 .. Len(rcp) - n
      BY <1>1, <1>5, <2>1
  <2>3. rcp'[1] = rcp[n + 1]
      BY <1>5, <1>8, <2>2
  <2> QED
      BY <1>5, <2>2, <2>3
<1> QED
    BY <1>8, <1>9, <1>10, <1>11

-----------------------------------------------------------------------------
(* The sizes that are owed.                                                 *)

\* The entries without a size are as many as the pictures that owe one.
LEMMA CountOwed ==
    ASSUME TypeInv, NEW f \in 0 .. seq, LedgerOf(f), SizesOf(f), pc # "failed"
    PROVE  IsFiniteSet(Owed) /\ Cardinality(Owed) = seq - f
<1>1. seq \in Nat
    BY DEF TypeInv
<1>2. PICK all : all = 1 .. seq
    OBVIOUS
<1>3. IsFiniteSet(all) /\ Cardinality(all) = seq
    BY <1>1, <1>2, FS_Interval
<1>4. PICK own : own = Owed
    OBVIOUS
<1>5. own \subseteq all
    BY <1>2, <1>4 DEF Owed
<1>6. PICK src : src = [n \in 1 .. f |-> At(n).src]
    OBVIOUS
<1>7. src \in Bijection(1 .. f, all \ own)
  <2>1. src \in [1 .. f -> all \ own]
    <3>1. ASSUME NEW n \in 1 .. f  PROVE At(n).src \in all \ own
        BY <1>2, <1>4 DEF LedgerOf, SizesOf
    <3> QED
        BY <1>6, <3>1
  <2>2. \A m, n \in 1 .. f : src[m] = src[n] => m = n
      BY <1>6 DEF SizesOf
  <2>3. ASSUME NEW p \in all \ own  PROVE \E n \in 1 .. f : src[n] = p
      BY <1>2, <1>4, <1>6 DEF SizesOf
  <2>4. src \in Injection(1 .. f, all \ own)
      BY <2>1, <2>2 DEF Injection, IsInjective
  <2>5. src \in Surjection(1 .. f, all \ own)
      BY <2>1, <2>3 DEF Surjection
  <2> QED
      BY <2>4, <2>5 DEF Bijection
<1>8. Cardinality(all \ own) = f
  <2>1. IsFiniteSet(1 .. f) /\ Cardinality(1 .. f) = f
      BY FS_Interval
  <2>2. ExistsBijection(1 .. f, all \ own)
      BY <1>7 DEF ExistsBijection
  <2> QED
      BY <2>1, <2>2, FS_Bijection
<1>9. IsFiniteSet(own) /\ Cardinality(own) \in Nat
    BY <1>3, <1>5, FS_Subset, FS_CardinalityType
<1>10. Cardinality(all \ own) = Cardinality(all) - Cardinality(own)
  <2>1. Cardinality(all \ own) = Cardinality(all) - Cardinality(all \cap own)
      BY <1>3, FS_Difference
  <2>2. all \cap own = own
      BY <1>5
  <2> QED
      BY <2>1, <2>2
<1> QED
    BY <1>1, <1>3, <1>4, <1>8, <1>9, <1>10

\* Consecutive pictures, each with its size or dropped.
Results(r, first) == \A i \in 1 .. Len(r) : r[i].src = (first - 1) + i

LEMMA RoomForSizes ==
    ASSUME TypeInv, NEW f \in 0 .. seq, LedgerOf(f), SizesOf(f), pc # "failed",
           NEW k \in Nat, NEW first \in Nat, first .. first - 1 + k \subseteq Owed
    PROVE  k <= seq - f
<1>1. IsFiniteSet(Owed) /\ Cardinality(Owed) = seq - f
    BY CountOwed
<1>2. IsFiniteSet(first .. first - 1 + k) /\ Cardinality(first .. first - 1 + k) = k
    BY FS_Interval
<1>3. Cardinality(first .. first - 1 + k) <= Cardinality(Owed)
    BY <1>1, FS_Subset
<1> QED
    BY <1>1, <1>2, <1>3

\* The sizes of pictures that owe one keep the ledger: they fill the entries
\* behind those that have one, with no lag each its own.
LEMMA SizesFill ==
    ASSUME TypeInv, NEW f \in 0 .. seq, LedgerOf(f), SizesOf(f), pc # "failed", cfg' = cfg,
           NEW r \in Seq(Result), Record(r), NEW first \in Nat \ {0}, Results(r, first),
           first .. first - 1 + Len(r) \subseteq Owed,
           cfg.lag = 0 /\ Len(r) > 0 => \A p \in Owed : first <= p,
           Owed' = Owed \ (first .. first - 1 + Len(r))
    PROVE  LedgerInv'
<1>1. seq \in Nat /\ Len(r) \in Nat
    BY DEF TypeInv
<1>2. PICK k : k = Len(r)
    OBVIOUS
<1>3. k \in Nat /\ k <= seq - f
    BY <1>1, <1>2, RoomForSizes
<1>4. /\ seq' = seq
      /\ Len(acct) <= Len(acct') /\ Len(acct') <= f + k /\ Len(acct') + Len(rcp') = seq
      /\ \A n \in 1 .. seq :
             At(n)' = IF n <= f \/ n > f + k THEN At(n) ELSE Sized(At(n), r[n - f])
    BY <1>2, <1>3, RecordIs
<1>5. f + k \in 0 .. seq
    BY <1>1, <1>3
<1>6. ASSUME NEW n \in 1 .. seq, n <= f \/ n > f + k  PROVE At(n)' = At(n)
    BY <1>4, <1>6
<1>7. ASSUME NEW n \in 1 .. seq, n > f, n <= f + k
      PROVE  /\ At(n)'.filled /\ At(n)'.seq = n /\ PriceIs(At(n)')
             /\ At(n)'.src = (first - 1) + (n - f)
  <2>1. At(n)' = Sized(At(n), r[n - f])
      BY <1>3, <1>4, <1>7
  <2>2. At(n) \in Entry
      BY PendingIs
  <2>3. n - f \in 1 .. Len(r)
      BY <1>1, <1>2, <1>3, <1>7
  <2>4. r[n - f].src = (first - 1) + (n - f)
      BY <2>3 DEF Results
  <2>5. At(n).seq = n /\ PriceIs(At(n))
      BY DEF LedgerOf
  <2> QED
      BY <2>1, <2>2, <2>4, <2>5 DEF Sized, Entry, PriceIs
<1>8. \A n \in 1 .. f : n \in 1 .. seq /\ At(n)' = At(n)
    BY <1>1, <1>6
<1>9. LedgerOf(f + k)'
  <2>1. ASSUME NEW n \in 1 .. seq
        PROVE  /\ At(n)'.seq = n /\ PriceIs(At(n)')
               /\ At(n)'.filled <=> n <= f + k
               /\ ~At(n)'.filled => At(n)'.src = None
    <3>1. /\ At(n).seq = n /\ PriceIs(At(n))
          /\ At(n).filled <=> n <= f
          /\ ~At(n).filled => At(n).src = None
        BY DEF LedgerOf
    <3>2. CASE n > f /\ n <= f + k
        BY <1>7, <3>2
    <3>3. CASE n <= f \/ n > f + k
      <4>1. At(n)' = At(n)
          BY <1>6, <3>3
      <4>2. n <= f <=> n <= f + k
          BY <1>3, <3>3
      <4> QED
          BY <3>1, <4>1, <4>2
    <3> QED
        BY <1>3, <3>2, <3>3
  <2>2. ASSUME NEW n \in 1 .. f + k  PROVE At(n)'.src \in 1 .. seq
    <3>1. CASE n <= f
      <4>1. n \in 1 .. f
          BY <3>1
      <4> QED
          BY <1>8, <4>1 DEF LedgerOf
    <3>2. CASE n > f
      <4>1. n \in 1 .. seq /\ At(n)'.src = (first - 1) + (n - f)
          BY <1>1, <1>3, <1>7, <3>2
      <4>2. (first - 1) + (n - f) \in first .. first - 1 + k
          BY <1>3, <3>2
      <4> QED
          BY <1>2, <4>1, <4>2 DEF Owed
    <3> QED
        BY <1>3, <3>1, <3>2
  <2>3. Len(acct') <= f + k /\ f + k <= seq /\ Len(acct') + Len(rcp') = seq
      BY <1>1, <1>3, <1>4
  <2> QED
      BY <1>4, <2>1, <2>2, <2>3 DEF LedgerOf
<1>10. SizesOf(f + k)'
  <2>1. ASSUME NEW m \in 1 .. f, NEW n \in 1 .. f + k, n > f
        PROVE  At(m)'.src # At(n)'.src
    <3>1. n \in 1 .. seq /\ At(n)'.src = (first - 1) + (n - f)
        BY <1>1, <1>3, <1>7, <2>1
    <3>2. (first - 1) + (n - f) \in first .. first - 1 + k
        BY <1>3, <2>1
    <3>3. (first - 1) + (n - f) \in Owed
        BY <1>2, <3>2
    <3>4. At(m).src # (first - 1) + (n - f)
        BY <3>3 DEF SizesOf, Owed
    <3> QED
        BY <1>8, <3>1, <3>4
  <2>2. ASSUME NEW m \in 1 .. f + k, NEW n \in 1 .. f + k, At(m)'.src = At(n)'.src
        PROVE  m = n
    <3>1. CASE m <= f /\ n <= f
      <4>1. m \in 1 .. f /\ n \in 1 .. f
          BY <3>1
      <4> QED
          BY <1>8, <2>2, <4>1 DEF SizesOf
    <3>2. CASE m > f /\ n > f
      <4>1. /\ At(n)'.src = (first - 1) + (n - f)
            /\ At(m)'.src = (first - 1) + (m - f)
          BY <1>1, <1>3, <1>7, <3>2
      <4> QED
          BY <2>2, <4>1
    <3>3. CASE m <= f /\ n > f
      <4>1. m \in 1 .. f
          BY <3>3
      <4> QED
          BY <2>1, <2>2, <3>3, <4>1
    <3>4. CASE m > f /\ n <= f
      <4>1. n \in 1 .. f
          BY <3>4
      <4> QED
          BY <2>1, <2>2, <3>4, <4>1
    <3> QED
        BY <3>1, <3>2, <3>3, <3>4
  <2>3. ASSUME NEW p \in 1 .. seq
        PROVE  p \in Owed' <=> \A n \in 1 .. f + k : At(n)'.src # p
    <3>1. ASSUME p \in Owed', NEW n \in 1 .. f + k  PROVE At(n)'.src # p
      <4>1. p \in Owed /\ p \notin first .. first - 1 + k
          BY <1>2, <3>1
      <4>2. CASE n <= f
        <5>1. n \in 1 .. f
            BY <4>2
        <5> QED
            BY <1>8, <4>1, <5>1 DEF SizesOf
      <4>3. CASE n > f
        <5>1. At(n)'.src = (first - 1) + (n - f)
            BY <1>1, <1>3, <1>7, <4>3
        <5>2. (first - 1) + (n - f) \in first .. first - 1 + k
            BY <1>3, <4>3
        <5> QED
            BY <4>1, <5>1, <5>2
      <4> QED
          BY <4>2, <4>3
    <3>2. ASSUME p \notin Owed', \A n \in 1 .. f + k : At(n)'.src # p  PROVE FALSE
      <4>1. \A n \in 1 .. f : At(n).src # p
          BY <1>3, <1>8, <3>2
      <4>2. p \in Owed
          BY <4>1 DEF SizesOf
      <4>3. p \in first .. first - 1 + k
          BY <1>2, <3>2, <4>2
      <4>4. PICK n : n = f + (p - first) + 1
          OBVIOUS
      <4>5. n \in 1 .. f + k /\ n > f /\ n <= f + k /\ n \in 1 .. seq
          BY <1>1, <1>3, <4>3, <4>4
      <4>6. At(n)'.src = (first - 1) + (n - f)
          BY <1>7, <4>5
      <4>7. (first - 1) + (n - f) = p
          BY <1>3, <4>3, <4>4
      <4> QED
          BY <3>2, <4>5, <4>6, <4>7
    <3> QED
        BY <3>1, <3>2
  <2>4. ASSUME cfg.lag = 0, NEW n \in 1 .. f + k  PROVE At(n)'.src = n
    <3>1. CASE n <= f
      <4>1. n \in 1 .. f
          BY <3>1
      <4> QED
          BY <1>8, <2>4, <4>1 DEF SizesOf
    <3>2. CASE n > f
      <4>1. At(n)'.src = (first - 1) + (n - f)
          BY <1>1, <1>3, <1>7, <3>2
      <4>2. k > 0 /\ f + 1 \in 1 .. seq
          BY <1>1, <1>3, <3>2
      <4>3. first \in first .. first - 1 + k
          BY <1>3, <4>2
      <4>4. first \in Owed /\ first \in 1 .. seq
          BY <1>2, <4>3 DEF Owed
      <4>5. first > f
        <5>1. ~(first \in 1 .. f)
            BY <2>4, <4>4 DEF SizesOf
        <5> QED
            BY <5>1
      <4>6. f + 1 \in Owed
          BY <2>4, <4>2 DEF SizesOf
      <4>7. first <= f + 1
          BY <1>2, <2>4, <4>2, <4>6
      <4> QED
          BY <4>1, <4>5, <4>7
    <3> QED
        BY <3>1, <3>2
  <2> QED
      BY <1>4, <2>2, <2>3, <2>4 DEF SizesOf
<1> QED
    BY <1>4, <1>5, <1>9, <1>10 DEF LedgerInv

\* A step that leaves the entries and what is owed alone keeps the ledger.
LEMMA SameLedger ==
    ASSUME LedgerInv, UNCHANGED <<cfg, rcp, acct, seq>>,
           pc' # "failed" => pc # "failed" /\ Owed' = Owed
    PROVE  LedgerInv'
<1>1. PICK f \in 0 .. seq : LedgerOf(f) /\ SizesOf(f)
    BY DEF LedgerInv
<1>2. \A n : At(n)' = At(n)
    BY DEF At
<1>3. LedgerOf(f)'
    BY <1>1, <1>2 DEF LedgerOf
<1>4. SizesOf(f)'
    BY <1>1, <1>2 DEF SizesOf
<1> QED
    BY <1>3, <1>4 DEF LedgerInv

\* So does a decide, whose picture is owed from then on.
LEMMA PushLedger ==
    ASSUME TypeInv, LedgerInv, cfg' = cfg, NEW kind, Push(kind), Len(rcp) < cfg.rcpMax,
           pc' # "failed" => pc # "failed" /\ Owed' = Owed \cup {seq + 1}
    PROVE  LedgerInv'
<1>1. PICK f \in 0 .. seq : LedgerOf(f) /\ SizesOf(f)
    BY DEF LedgerInv
<1>2. seq \in Nat
    BY DEF TypeInv
<1>3. /\ seq' = seq + 1
      /\ Len(acct') <= f /\ Len(acct') + Len(rcp') = seq + 1
      /\ \A n \in 1 .. seq : At(n)' = At(n)
      /\ \A n \in {seq + 1} : At(n)' = Decided(n)
    BY <1>1, PushIs
<1>4. \A n \in 1 .. f : n \in 1 .. seq /\ At(n)' = At(n)
    BY <1>2, <1>3
<1>5. LedgerOf(f)'
  <2>1. ASSUME NEW n \in 1 .. seq + 1
        PROVE  /\ At(n)'.seq = n /\ PriceIs(At(n)')
               /\ At(n)'.filled <=> n <= f
               /\ ~At(n)'.filled => At(n)'.src = None
    <3>1. CASE n \in 1 .. seq
        BY <1>1, <1>3, <3>1 DEF LedgerOf
    <3>2. CASE n \in {seq + 1}
      <4>1. At(n)' = Decided(n)
          BY <1>3, <3>2
      <4>2. ~(n <= f)
          BY <1>2, <3>2
      <4> QED
          BY <4>1, <4>2 DEF Decided, PriceIs
    <3> QED
        BY <1>2, <3>1, <3>2
  <2>2. \A n \in 1 .. f : At(n)'.src \in 1 .. seq + 1
      BY <1>1, <1>2, <1>4 DEF LedgerOf
  <2>3. f <= seq + 1
      BY <1>2
  <2> QED
      BY <1>3, <2>1, <2>2, <2>3 DEF LedgerOf
<1>6. SizesOf(f)'
  <2>1. \A m, n \in 1 .. f : At(m)'.src = At(n)'.src => m = n
      BY <1>1, <1>4 DEF SizesOf
  <2>2. ASSUME pc' # "failed", NEW p \in 1 .. seq + 1
        PROVE  p \in Owed' <=> \A n \in 1 .. f : At(n)'.src # p
    <3>1. CASE p \in 1 .. seq
      <4>1. p \in Owed' <=> p \in Owed
          BY <1>2, <2>2, <3>1
      <4> QED
          BY <1>1, <1>4, <2>2, <3>1, <4>1 DEF SizesOf
    <3>2. CASE p = seq + 1
      <4>1. p \in Owed'
          BY <2>2, <3>2
      <4>2. \A n \in 1 .. f : At(n)'.src # p
          BY <1>1, <1>2, <1>4, <3>2 DEF LedgerOf
      <4> QED
          BY <4>1, <4>2
    <3> QED
        BY <1>2, <3>1, <3>2
  <2>3. cfg.lag = 0 => \A n \in 1 .. f : At(n)'.src = n
      BY <1>1, <1>4 DEF SizesOf
  <2> QED
      BY <1>3, <2>1, <2>2, <2>3 DEF SizesOf
<1>7. f \in 0 .. seq'
    BY <1>2, <1>3
<1> QED
    BY <1>5, <1>6, <1>7 DEF LedgerInv

\* So does rcp_commit_filled, which leaves nothing pending when nothing is owed.
LEMMA CommitLedger ==
    ASSUME TypeInv, LedgerInv, cfg' = cfg, seq' = seq, Retire(rcp, CommitFilled(rcp)),
           pc # "failed", Owed' = Owed
    PROVE  /\ LedgerInv' /\ HeadWaits'
           /\ rcp' \in Seq(Entry) /\ acct' \in Seq(Entry)
           /\ Len(rcp') <= Len(rcp)
           /\ Owed = {} => rcp' = <<>> /\ Len(acct') = seq
<1>1. PICK f \in 0 .. seq : LedgerOf(f) /\ SizesOf(f)
    BY DEF LedgerInv
<1>2. seq \in Nat
    BY DEF TypeInv
<1>3. /\ rcp' \in Seq(Entry) /\ acct' \in Seq(Entry)
      /\ Len(acct') = f /\ Len(acct') + Len(rcp') = seq
      /\ \A n \in 1 .. seq : At(n)' = At(n)
      /\ rcp' # <<>> => ~rcp'[1].filled
    BY <1>1, CommitIs
<1>4. \A n \in 1 .. f : n \in 1 .. seq /\ At(n)' = At(n)
    BY <1>2, <1>3
<1>5. LedgerOf(f)'
    BY <1>1, <1>3, <1>4 DEF LedgerOf
<1>6. SizesOf(f)'
  <2>1. \A m, n \in 1 .. f : At(m)'.src = At(n)'.src => m = n
      BY <1>1, <1>4 DEF SizesOf
  <2>2. \A p \in 1 .. seq : p \in Owed' <=> \A n \in 1 .. f : At(n)'.src # p
      BY <1>1, <1>4 DEF SizesOf
  <2>3. cfg.lag = 0 => \A n \in 1 .. f : At(n)'.src = n
      BY <1>1, <1>4 DEF SizesOf
  <2> QED
      BY <2>1, <2>2, <2>3 DEF SizesOf
<1>7. LedgerInv'
    BY <1>5, <1>6 DEF LedgerInv
<1>8. HeadWaits'
    BY <1>3 DEF HeadWaits
<1>9. Len(rcp') <= Len(rcp)
  <2>1. Len(acct) \in Nat /\ Len(rcp) \in Nat /\ Len(rcp') \in Nat
      BY <1>3 DEF TypeInv
  <2>2. Len(acct) + Len(rcp) = seq /\ Len(acct) <= f
      BY <1>1 DEF LedgerOf
  <2>3. Len(rcp') = seq - f
      BY <1>2, <1>3, <2>1
  <2> QED
      BY <1>2, <2>1, <2>2, <2>3
<1>10. ASSUME Owed = {}  PROVE rcp' = <<>> /\ Len(acct') = seq
  <2>1. Cardinality(Owed) = seq - f
      BY <1>1, CountOwed
  <2>2. f = seq
      BY <1>2, <1>10, <2>1, FS_EmptySet
  <2>3. Len(rcp') = 0
      BY <1>2, <1>3, <2>2
  <2> QED
      BY <1>3, <2>2, <2>3, EmptySeq
<1> QED
    BY <1>3, <1>7, <1>8, <1>9, <1>10

-----------------------------------------------------------------------------
(* The room in the ledger.                                                  *)

LEMMA Times ==
    ASSUME NEW a \in Nat, NEW b \in Nat
    PROVE  (a + 1) * b = a * b + b /\ a * b \in Nat
    OBVIOUS

\* The bound on the pending entries that the last anchors give.
LEMMA BoundIsNear ==
    ASSUME TypeInv, HistInv, anchorSeq <= seq, seq - anchorSeq <= cfg.maxB
    PROVE  seq + 1 - PopBound(anchorSeq, anchorHist) <= (cfg.lag + 1) * (cfg.maxB + 1)
<1>1. /\ seq \in Nat /\ anchorSeq \in Nat /\ cfg.lag \in Nat /\ cfg.maxB \in Nat
      /\ cfg.lag < cfg.ring /\ cfg.ring \in Nat
  <2>1. seq \in Nat /\ anchorSeq \in Nat
      BY DEF TypeInv
  <2>2. /\ cfg.ring \in Nat \ {0} /\ cfg.lag \in 0 .. cfg.ring - 1 /\ cfg.maxB \in Nat \ {0}
      BY CfgIs DEF SettingIs
  <2> QED
      BY <2>1, <2>2
<1>2. PICK x : x = cfg.lag * (cfg.maxB + 1)
    OBVIOUS
<1>3. (cfg.lag + 1) * (cfg.maxB + 1) = x + cfg.maxB + 1 /\ x \in Nat
    BY <1>1, <1>2, Times
<1>4. CASE cfg.lag = 0
    BY <1>1, <1>3, <1>4 DEF PopBound
<1>5. CASE cfg.lag # 0
  <2>1. PICK h : h = anchorHist[cfg.lag]
      OBVIOUS
  <2>2. cfg.lag \in 1 .. cfg.ring
      BY <1>1, <1>5
  <2>3. h \in Nat
      BY <2>1, <2>2, ElementOfSeq DEF TypeInv
  <2>4. anchorSeq - h <= x
      BY <1>2, <2>1, <2>2 DEF HistInv
  <2> QED
      BY <1>1, <1>3, <1>5, <2>1, <2>3, <2>4 DEF PopBound
<1> QED
    BY <1>4, <1>5

\* With at most two sizes owed the entries are fewer than the ledger has room for.
LEMMA SerialRoom ==
    ASSUME TypeInv, LedgerInv, HistInv, HeadWaits, anchorSeq <= seq,
           seq - anchorSeq <= cfg.maxB, pc # "failed", NEW p, NEW q, Owed \subseteq {p, q}
    PROVE  Len(rcp) < cfg.rcpMax
<1>1. PICK f \in 0 .. seq : LedgerOf(f) /\ SizesOf(f)
    BY DEF LedgerInv
<1>2. /\ seq \in Nat /\ Len(rcp) \in Nat /\ Len(acct) \in Nat
      /\ Len(acct) + Len(rcp) = seq
      /\ cfg.rcpMax \in Nat /\ cfg.lag \in Nat /\ cfg.maxB \in Nat \ {0}
      /\ cfg.rcpMax > (cfg.lag + 1) * (cfg.maxB + 1)
  <2>1. Len(acct) + Len(rcp) = seq
      BY <1>1 DEF LedgerOf
  <2>2. seq \in Nat /\ Len(rcp) \in Nat /\ Len(acct) \in Nat
      BY DEF TypeInv
  <2>3. SettingIs(cfg)
      BY CfgIs
  <2> QED
      BY <2>1, <2>2, <2>3 DEF SettingIs
<1>3. PICK m \in Nat : m = cfg.maxB + 1 /\ m >= 2
    BY <1>2
<1>4. PICK x \in Nat : x = (cfg.lag + 1) * (cfg.maxB + 1) /\ x >= 2
  <2>1. (cfg.lag + 1) * m = cfg.lag * m + m /\ cfg.lag * m \in Nat
      BY <1>2, Times
  <2>2. PICK y \in Nat : y = cfg.lag * m
      BY <2>1
  <2> QED
      BY <1>3, <2>1, <2>2
<1>5. CASE rcp = <<>>
    BY <1>2, <1>5
<1>6. CASE rcp # <<>> /\ rcp[1].filled
  <2>1. 1 \in 1 .. Len(rcp)
      BY <1>2, <1>6, EmptySeq DEF TypeInv
  <2>2. rcp[1].seq = Len(acct) + 1
      BY <1>1, <2>1, PendingIs
  <2>3. Len(acct) + 1 >= PopBound(anchorSeq, anchorHist)
      BY <1>6, <2>2 DEF HeadWaits
  <2>4. PICK b \in Nat : b = PopBound(anchorSeq, anchorHist)
      BY BoundIs
  <2>5. seq + 1 - b <= x
      BY <1>4, <2>4, BoundIsNear
  <2>6. Len(acct) + 1 >= b /\ cfg.rcpMax > x
      BY <1>2, <1>4, <2>3, <2>4
  <2>7. /\ seq \in Nat /\ Len(rcp) \in Nat /\ Len(acct) \in Nat
        /\ Len(acct) + Len(rcp) = seq /\ cfg.rcpMax \in Nat
      BY <1>2
  <2> QED
      BY <2>5, <2>6, <2>7
<1>7. CASE rcp # <<>> /\ ~rcp[1].filled
  <2>1. 1 \in 1 .. Len(rcp)
      BY <1>2, <1>7, EmptySeq DEF TypeInv
  <2>2. ~(1 <= f - Len(acct)) /\ Len(acct) <= f
      BY <1>1, <1>7, <2>1, PendingIs DEF LedgerOf
  <2>3. f = Len(acct)
      BY <1>2, <2>2
  <2>4. Cardinality(Owed) = seq - f
      BY <1>1, CountOwed
  <2>5. IsFiniteSet({p} \cup {q}) /\ Cardinality({p} \cup {q}) <= 2
    <3>1. IsFiniteSet({p}) /\ Cardinality({p}) = 1
        BY FS_Singleton
    <3> QED
        BY <3>1, FS_AddElement
  <2>6. Cardinality(Owed) <= 2
    <3>1. Owed \subseteq {p} \cup {q}
        OBVIOUS
    <3>2. IsFiniteSet(Owed) /\ Cardinality(Owed) <= Cardinality({p} \cup {q})
        BY <2>5, <3>1, FS_Subset
    <3>3. Cardinality(Owed) \in Nat /\ Cardinality({p} \cup {q}) \in Nat
        BY <2>5, <3>2, FS_CardinalityType
    <3> QED
        BY <2>5, <3>2, <3>3
  <2> QED
      BY <1>2, <1>4, <2>3, <2>4, <2>6, SMTT(40)
<1> QED
    BY <1>5, <1>6, <1>7

-----------------------------------------------------------------------------
(* Steps of the ledger.                                                     *)

\* What every step keeps of the ledger.
LedgerNext ==
    /\ LedgerInv' /\ HeadWaits' /\ HistInv'
    /\ rcp' \in Seq(Entry) /\ acct' \in Seq(Entry) /\ seq' \in Nat /\ anchorSeq' \in Nat
    /\ anchorHist' \in Seq(Nat) /\ Len(anchorHist') = cfg.ring
    /\ lost' = lost /\ seq' >= seq
    /\ Len(rcp') <= Len(rcp) + (seq' - seq)

LEMMA IdleStep ==
    ASSUME IInv, UNCHANGED <<cfg, rcp, acct, seq, anchorSeq, anchorHist, lost>>,
           pc' # "failed" => pc # "failed" /\ Owed' = Owed
    PROVE  LedgerNext
<1>1. LedgerInv'
    BY SameLedger DEF IInv
<1>2. HeadWaits' /\ HistInv'
    BY DEF IInv, HeadWaits, HistInv, PopBound
<1>3. /\ rcp \in Seq(Entry) /\ acct \in Seq(Entry) /\ seq \in Nat /\ anchorSeq \in Nat
      /\ anchorHist \in Seq(Nat) /\ Len(anchorHist) = cfg.ring /\ Len(rcp) \in Nat
    BY DEF IInv, TypeInv
<1> QED
    BY <1>1, <1>2, <1>3 DEF LedgerNext

LEMMA RecordStep ==
    ASSUME IInv, pc # "failed", cfg' = cfg,
           NEW r \in Seq(Result), Record(r), NEW first \in Nat \ {0}, Results(r, first),
           first .. first - 1 + Len(r) \subseteq Owed,
           cfg.lag = 0 /\ Len(r) > 0 => \A p \in Owed : first <= p,
           Owed' = Owed \ (first .. first - 1 + Len(r))
    PROVE  LedgerNext
<1>0. TypeInv /\ HistInv
    BY DEF IInv
<1>1. PICK f \in 0 .. seq : LedgerOf(f) /\ SizesOf(f)
    BY DEF IInv, LedgerInv
<1>2. LedgerInv'
    BY <1>0, <1>1, SizesFill
<1>3. Len(r) \in Nat /\ Len(r) <= seq - f
  <2>1. PICK k \in Nat : k = Len(r)
      OBVIOUS
  <2>2. first .. first - 1 + k \subseteq Owed
      BY <2>1
  <2> QED
      BY <1>0, <1>1, <2>1, <2>2, RoomForSizes
<1>4. /\ rcp' \in Seq(Entry) /\ acct' \in Seq(Entry)
      /\ seq' = seq /\ anchorSeq' = anchorSeq /\ anchorHist' = anchorHist /\ lost' = lost
      /\ Len(acct) <= Len(acct') /\ Len(acct') + Len(rcp') = seq
      /\ HeadWaits'
    BY <1>0, <1>1, <1>3, RecordIs
<1>5. HistInv'
    BY <1>0, <1>4 DEF HistInv
<1>6. /\ seq \in Nat /\ anchorSeq \in Nat
      /\ anchorHist \in Seq(Nat) /\ Len(anchorHist) = cfg.ring
      /\ Len(rcp) \in Nat /\ Len(acct) \in Nat
    BY <1>0 DEF TypeInv
<1>7. Len(rcp') <= Len(rcp) + (seq' - seq)
  <2>1. Len(acct) + Len(rcp) = seq
      BY <1>1 DEF LedgerOf
  <2>2. Len(rcp') \in Nat /\ Len(acct') \in Nat
      BY <1>4
  <2> QED
      BY <1>4, <1>6, <2>1, <2>2
<1> QED
    BY <1>2, <1>4, <1>5, <1>6, <1>7 DEF LedgerNext

\* The anchors of the history stay near.
LEMMA HistStep ==
    ASSUME TypeInv, HistInv, cfg' = cfg, anchorSeq <= seq, seq - anchorSeq <= cfg.maxB,
           anchorSeq' = seq + 1, anchorHist' = Pushed(anchorHist)
    PROVE  HistInv'
<1>1. /\ seq \in Nat /\ anchorSeq \in Nat /\ cfg.maxB \in Nat /\ cfg.ring \in Nat
      /\ anchorHist \in Seq(Nat) /\ Len(anchorHist) = cfg.ring
    BY CfgIs DEF TypeInv, SettingIs
<1>2. PICK m \in Nat : m = cfg.maxB + 1
    BY <1>1
<1>3. ASSUME NEW k \in 1 .. cfg.ring
      PROVE  anchorHist'[k] <= anchorSeq' /\ anchorSeq' - anchorHist'[k] <= k * m
  <2>1. CASE k = 1
    <3>1. anchorHist'[k] = anchorSeq
        BY <2>1, HistoryIs
    <3>2. k * m = m
        BY <2>1
    <3> QED
        BY <1>1, <1>2, <3>1, <3>2
  <2>2. CASE k > 1
    <3>1. k \in 2 .. cfg.ring /\ k - 1 \in 1 .. cfg.ring
        BY <1>1, <2>2
    <3>2. anchorHist'[k] = anchorHist[k - 1]
        BY <3>1, HistoryIs
    <3>3. PICK h \in Nat : h = anchorHist[k - 1]
        BY <1>1, <3>1, ElementOfSeq
    <3>4. h <= anchorSeq /\ anchorSeq - h <= (k - 1) * m
        BY <1>2, <3>1, <3>3 DEF HistInv
    <3>5. ((k - 1) + 1) * m = (k - 1) * m + m /\ (k - 1) * m \in Nat
        BY <3>1, Times
    <3>6. PICK y \in Nat : y = (k - 1) * m
        BY <3>5
    <3>7. PICK x \in Nat : x = k * m
        BY <1>1
    <3>8. x = y + m
        BY <1>1, <3>1, <3>5, <3>6, <3>7
    <3>9. h <= anchorSeq /\ anchorSeq - h <= y
        BY <3>4, <3>6
    <3>10. h <= seq + 1 /\ seq + 1 - h <= x
        BY <1>1, <1>2, <3>8, <3>9, SMTT(40)
    <3>11. anchorHist'[k] <= anchorSeq' /\ anchorSeq' - anchorHist'[k] <= x
        BY <1>1, <3>2, <3>3, <3>10
    <3> QED
        BY <3>7, <3>11
  <2> QED
      BY <2>1, <2>2
<1>4. cfg'.ring = cfg.ring /\ cfg'.maxB + 1 = m
    BY <1>2
<1>5. HistInv' = \A k \in 1 .. cfg.ring :
                     /\ anchorHist'[k] <= anchorSeq'
                     /\ anchorSeq' - anchorHist'[k] <= k * m
    BY <1>4 DEF HistInv
<1> QED
    BY <1>3, <1>5

LEMMA PushStep ==
    ASSUME IInv, cfg' = cfg, NEW kind, Push(kind), Len(rcp) < cfg.rcpMax,
           pc' # "failed" => pc # "failed" /\ Owed' = Owed \cup {seq + 1}
    PROVE  /\ LedgerNext
           /\ seq' = seq + 1 /\ anchorSeq' = Newest(kind)
<1>0. TypeInv /\ HistInv /\ LedgerInv /\ anchorSeq <= seq /\ seq - anchorSeq <= cfg.maxB
    BY DEF IInv, TodoInv, TodoAt
<1>1. PICK f \in 0 .. seq : LedgerOf(f) /\ SizesOf(f)
    BY DEF IInv, LedgerInv
<1>2. LedgerInv'
    BY <1>0, PushLedger
<1>3. /\ rcp' \in Seq(Entry) /\ acct' \in Seq(Entry)
      /\ seq' = seq + 1 /\ lost' = lost
      /\ anchorSeq' = Newest(kind) /\ anchorHist' = History(kind)
      /\ Len(acct) <= Len(acct') /\ Len(acct') + Len(rcp') = seq + 1
      /\ HeadWaits'
    BY <1>0, <1>1, PushIs
<1>4. /\ seq \in Nat /\ anchorSeq \in Nat
      /\ anchorHist \in Seq(Nat) /\ Len(anchorHist) = cfg.ring
      /\ Len(rcp) \in Nat /\ Len(acct) \in Nat
    BY <1>0 DEF TypeInv
<1>5. HistInv' /\ anchorSeq' \in Nat /\ anchorHist' \in Seq(Nat) /\ Len(anchorHist') = cfg.ring
  <2>1. CASE kind = "P"
    <3>1. anchorSeq' = seq + 1 /\ anchorHist' = Pushed(anchorHist)
        BY <1>3, <2>1 DEF Newest, History
    <3>2. HistInv'
        BY <1>0, <3>1, HistStep
    <3> QED
        BY <1>0, <1>4, <3>1, <3>2, HistoryIs
  <2>2. CASE kind # "P"
    <3>1. anchorSeq' = anchorSeq /\ anchorHist' = anchorHist
        BY <1>3, <2>2 DEF Newest, History
    <3>2. HistInv'
        BY <1>0, <3>1 DEF HistInv
    <3> QED
        BY <1>4, <3>1, <3>2
  <2> QED
      BY <2>1, <2>2
<1>6. Len(rcp') <= Len(rcp) + (seq' - seq)
  <2>1. Len(acct) + Len(rcp) = seq
      BY <1>1 DEF LedgerOf
  <2>2. Len(rcp') \in Nat /\ Len(acct') \in Nat
      BY <1>3
  <2> QED
      BY <1>3, <1>4, <2>1, <2>2
<1>7. seq' \in Nat /\ seq' >= seq
    BY <1>3, <1>4
<1> QED
    BY <1>2, <1>3, <1>5, <1>6, <1>7 DEF LedgerNext

\* With nothing owed rcp_commit_filled retires all.
LEMMA CommitStep ==
    ASSUME IInv, pc # "failed", Retire(rcp, CommitFilled(rcp)), Owed = {}, Owed' = Owed,
           UNCHANGED <<cfg, seq, anchorSeq, anchorHist, lost>>
    PROVE  LedgerNext /\ rcp' = <<>> /\ Len(acct') = seq
<1>1. TypeInv /\ LedgerInv /\ HistInv
    BY DEF IInv
<1>2. /\ LedgerInv' /\ HeadWaits'
      /\ rcp' \in Seq(Entry) /\ acct' \in Seq(Entry)
      /\ Len(rcp') <= Len(rcp)
      /\ rcp' = <<>> /\ Len(acct') = seq
    BY <1>1, CommitLedger
<1>3. HistInv'
    BY <1>1 DEF HistInv
<1>4. /\ seq \in Nat /\ anchorSeq \in Nat /\ Len(rcp) \in Nat /\ Len(rcp') \in Nat
      /\ anchorHist \in Seq(Nat) /\ Len(anchorHist) = cfg.ring
    BY <1>1, <1>2 DEF TypeInv
<1> QED
    BY <1>2, <1>3, <1>4 DEF LedgerNext

-----------------------------------------------------------------------------
(* The bursts in flight.                                                    *)

BurstIs(b) ==
    /\ b \in Burst /\ b.anchor \in Nat \ {0} /\ b.nb \in Nat /\ b.bs \in Seq(Nat)
    /\ Len(b.bs) \in Nat /\ End(b) \in Nat /\ b.anchor <= End(b)
    /\ End(b) = b.anchor + Len(b.bs)
    /\ b.billed \in BOOLEAN /\ b.err \in BOOLEAN

LEMMA LiveIs ==
    ASSUME IInv
    PROVE  /\ Len(live) \in Nat /\ DOMAIN live = 1 .. Len(live)
           /\ live = <<>> <=> Len(live) = 0
           /\ \A i \in 1 .. Len(live) : BurstIs(live[i]) /\ BurstOf(i)
<1>1. live \in Seq(Burst)
    BY DEF IInv, TypeInv
<1>2. Len(live) \in Nat /\ DOMAIN live = 1 .. Len(live) /\ (live = <<>> <=> Len(live) = 0)
    BY <1>1, LenProperties, EmptySeq
<1>3. ASSUME NEW i \in 1 .. Len(live)  PROVE BurstIs(live[i]) /\ BurstOf(i)
  <2>1. live[i] \in Burst
      BY <1>1, <1>3, ElementOfSeq
  <2>2. BurstOf(i)
      BY <1>2 DEF IInv, BurstInv
  <2>3. live[i].anchor > 0
      BY <2>2 DEF BurstOf
  <2>4. /\ live[i].anchor \in Nat /\ live[i].nb \in Nat /\ live[i].bs \in Seq(Nat)
        /\ live[i].billed \in BOOLEAN /\ live[i].err \in BOOLEAN
      BY <2>1 DEF Burst
  <2>5. Len(live[i].bs) \in Nat
      BY <2>4
  <2> QED
      BY <2>1, <2>2, <2>3, <2>4, <2>5 DEF BurstIs, End
<1> QED
    BY <1>2, <1>3

LEMMA NewestIs ==
    ASSUME IInv, live # <<>>
    PROVE  /\ Len(live) \in 1 .. Len(live) /\ Last(live) = live[Len(live)]
           /\ seq = End(live[Len(live)]) /\ anchorSeq = live[Len(live)].anchor
<1>1. Len(live) \in 1 .. Len(live)
    BY LiveIs
<1>2. Last(live) = live[Len(live)]
    BY DEF Last
<1> QED
    BY <1>1, <1>2 DEF IInv, BurstInv

\* Everything that owes a size lies behind what is out or skipped.
LEMMA OwedFrom ==
    ASSUME IInv, pc # "failed"
    PROVE  /\ FirstOwed \in Nat /\ seq \in Nat /\ FirstOwed <= seq + 1
           /\ \A p \in ApiOwes : p >= FirstOwed
           /\ \A i \in 1 .. Len(live) : \A p \in BurstOwes(live[i]) : p >= FirstOwed
           /\ w2.pic # None => w2.pic = FirstOwed - 1 /\ w2.pic \in 1 .. seq
           /\ \A p \in Owed : p = w2.pic \/ p >= FirstOwed
<1>1. seq \in Nat /\ w2.pic \in Nat
    BY DEF IInv, TypeInv, Slice
<1>2. CASE live # <<>>
  <2>1. 1 \in 1 .. Len(live) /\ Len(live) \in 1 .. Len(live) /\ DOMAIN live = 1 .. Len(live)
      BY <1>2, LiveIs
  <2>2. BurstIs(live[1]) /\ FirstOwed = live[1].anchor
      BY <1>2, <2>1, LiveIs DEF FirstOwed
  <2>3. pc \notin {"decided", "coded", "sibling", "pair"}
      BY <1>2 DEF IInv, PcInv, SerialPcs
  <2>4. ApiOwes = {}
      BY <2>3 DEF ApiOwes
  <2>5. ASSUME NEW i \in 1 .. Len(live)  PROVE live[1].anchor <= live[i].anchor
    <3>1. CASE i = 1
        BY <2>2, <3>1 DEF BurstIs
    <3>2. CASE i # 1
      <4>1. End(live[1]) < live[i].anchor
        <5>1. BurstOf(1) /\ i \in DOMAIN live /\ 1 < i
            BY <2>1, <3>2, LiveIs
        <5> QED
            BY <5>1 DEF BurstOf
      <4> QED
          BY <2>2, <2>5, <4>1, LiveIs DEF BurstIs
    <3> QED
        BY <3>1, <3>2
  <2>6. ASSUME NEW i \in 1 .. Len(live), NEW p \in BurstOwes(live[i])  PROVE p >= FirstOwed
    <3>1. p \in live[i].anchor .. End(live[i])
        BY DEF BurstOwes
    <3>2. BurstIs(live[i])
        BY LiveIs
    <3> QED
        BY <2>2, <2>5, <3>1, <3>2 DEF BurstIs
  <2>7. FirstOwed <= seq
    <3>1. seq = End(live[Len(live)])
        BY <1>2, NewestIs
    <3>2. BurstIs(live[Len(live)])
        BY <2>1, LiveIs
    <3>3. live[1].anchor <= live[Len(live)].anchor
        BY <2>1, <2>5
    <3> QED
        BY <1>1, <2>2, <3>1, <3>2, <3>3 DEF BurstIs
  <2>8. w2.pic # None => w2.pic = FirstOwed - 1
      BY DEF IInv, W2Inv
  <2>9. FirstOwed \in Nat
      BY <2>2 DEF BurstIs
  <2>10. w2.pic # None => w2.pic \in 1 .. seq
      BY <1>1, <2>7, <2>8, <2>9 DEF None
  <2>11. \A p \in Owed : p = w2.pic \/ p >= FirstOwed
      BY <2>1, <2>4, <2>6 DEF Owed
  <2> QED
      BY <1>1, <2>4, <2>6, <2>7, <2>8, <2>9, <2>10, <2>11
<1>3. CASE live = <<>>
  <2>1. Len(live) = 0 /\ DOMAIN live = {}
      BY <1>3, LiveIs
  <2>2. pc \in {"decided", "coded", "sibling", "pair"} => seq > 0
      BY <1>1 DEF IInv, TodoInv, TodoAt
  <2>3. FirstOwed = IF pc \in {"decided", "coded", "sibling"} THEN seq
                    ELSE IF pc = "pair" THEN seq - 1 ELSE seq + 1
      BY <1>3 DEF FirstOwed
  <2>4. FirstOwed \in Nat /\ FirstOwed <= seq + 1
      BY <1>1, <2>2, <2>3
  <2>5. \A p \in ApiOwes : p >= FirstOwed
      BY <1>1, <2>3 DEF ApiOwes
  <2>6. w2.pic # None => w2.pic = FirstOwed - 1
      BY DEF IInv, W2Inv
  <2>7. w2.pic # None => w2.pic \in 1 .. seq
      BY <1>1, <2>4, <2>6 DEF None
  <2>8. \A p \in Owed : p = w2.pic \/ p >= FirstOwed
      BY <2>1, <2>5 DEF Owed
  <2> QED
      BY <1>1, <2>1, <2>4, <2>5, <2>6, <2>7, <2>8
<1> QED
    BY <1>2, <1>3

\* rcp_drop and rcp_fill of the slice the emit worker held.
LEMMA W2DrainStep ==
    ASSUME IInv, pc # "failed", W2Drain
    PROVE  LedgerNext
<1>1. /\ w2.pic # None /\ w2' = NoSlice /\ pc' = pc /\ live' = live /\ cfg' = cfg
      /\ Record(IF w2.ok THEN <<Size(w2.pic)>> ELSE <<Drop(w2.pic)>>)
    BY DEF W2Drain, IInv, W2Inv
<1>2. /\ w2.pic \in 1 .. seq /\ seq \in Nat /\ FirstOwed \in Nat /\ w2.pic = FirstOwed - 1
      /\ \A p \in ApiOwes : p >= FirstOwed
      /\ \A i \in 1 .. Len(live) : \A p \in BurstOwes(live[i]) : p >= FirstOwed
      /\ \A p \in Owed : p = w2.pic \/ p >= FirstOwed
    BY <1>1, OwedFrom
<1>3. PICK r : r = IF w2.ok THEN <<Size(w2.pic)>> ELSE <<Drop(w2.pic)>>
    OBVIOUS
<1>4. PICK first \in Nat \ {0} : first = w2.pic
    BY <1>2
<1>5. r \in Seq(Result) /\ Len(r) = 1 /\ r[1].src = first
  <2>1. r = <<Size(first)>> \/ r = <<Drop(first)>>
      BY <1>3, <1>4
  <2>2. Size(first) \in Result /\ Drop(first) \in Result /\ Size(first).src = first
        /\ Drop(first).src = first
      BY DEF Size, Drop, Result
  <2>3. PICK x \in Result : r = <<x>> /\ x.src = first
      BY <2>1, <2>2
  <2> QED
      BY <2>3
<1>6. Results(r, first)
    BY <1>5 DEF Results
<1>7. first .. first - 1 + Len(r) = {first}
    BY <1>5
<1>8. first \in Owed
    BY <1>2, <1>4 DEF Owed
<1>9. \A p \in Owed : first <= p
    BY <1>2, <1>4 DEF Owed
<1>10. seq' = seq
    BY <1>1 DEF Record
<1>11. Owed' = Owed \ {first}
  <2>1. ApiOwes' = ApiOwes
      BY <1>1, <1>10 DEF ApiOwes
  <2>2. w2'.pic = None
      BY <1>1 DEF NoSlice
  <2>3. \A i \in DOMAIN live : first \notin BurstOwes(live[i])
      BY <1>2, <1>4, LiveIs
  <2>4. first \notin ApiOwes
      BY <1>2, <1>4
  <2>5. Owed' = {p \in 1 .. seq : \/ p = None \/ p \in ApiOwes
                                  \/ \E i \in DOMAIN live : p \in BurstOwes(live[i])}
      BY <1>1, <1>10, <2>1, <2>2 DEF Owed
  <2> QED
      BY <1>2, <1>4, <2>3, <2>4, <2>5 DEF Owed, None
<1> QED
    BY <1>1, <1>3, <1>5, <1>6, <1>7, <1>8, <1>9, <1>11, RecordStep, ZenonT(60)

LEMMA SizeIs ==
    ASSUME NEW p \in Nat
    PROVE  Size(p) \in Result /\ Size(p).src = p
    BY DEF Size, Result

LEMMA BurstsApart ==
    ASSUME IInv, NEW i \in 1 .. Len(live), NEW k \in 1 .. Len(live), i < k
    PROVE  End(live[i]) < live[k].anchor
<1>1. BurstOf(i) /\ k \in DOMAIN live
    BY LiveIs
<1> QED
    BY <1>1 DEF BurstOf

\* stair_drain_anchor takes the anchor off what is owed.
LEMMA BillAnchorStep ==
    ASSUME IInv, BillAnchor
    PROVE  LedgerNext
<1>1. /\ pc = "bill" /\ pc' = pc /\ cfg' = cfg /\ w2' = w2 /\ w2.pic = None
      /\ billing <= Len(live) - cfg.lag /\ ~live[billing].billed
      /\ Record(<<Size(live[billing].anchor)>>)
      /\ live' = [live EXCEPT ![billing].billed = TRUE]
    BY DEF BillAnchor, NeedsBill, ToBill
<1>2. /\ Len(live) \in Nat /\ DOMAIN live = 1 .. Len(live)
      /\ billing \in Nat \ {0} /\ cfg.lag \in Nat /\ seq \in Nat
    BY LiveIs, CfgIs DEF IInv, TypeInv, SettingIs
<1>3. PICK i \in 1 .. Len(live) : i = billing
    BY <1>1, <1>2
<1>4. BurstIs(live[i])
    BY LiveIs
<1>5. PICK first \in Nat \ {0} : first = live[i].anchor
    BY <1>4 DEF BurstIs
<1>6. PICK r : r = <<Size(first)>>
    OBVIOUS
<1>7. r \in Seq(Result) /\ Len(r) = 1 /\ r[1].src = first /\ Record(r)
  <2>1. PICK x \in Result : r = <<x>> /\ x.src = first
      BY <1>6, SizeIs
  <2> QED
      BY <1>1, <1>3, <1>5, <1>6, <2>1
<1>8. Results(r, first) /\ first .. first - 1 + Len(r) = {first}
    BY <1>7 DEF Results
<1>9. seq' = seq
    BY <1>7 DEF Record
<1>10. ApiOwes = {} /\ ApiOwes' = {}
    BY <1>1 DEF ApiOwes
<1>11. first \in Owed
  <2>1. live # <<>>
      BY <1>2, LiveIs
  <2>2. End(live[i]) <= seq
    <3>1. CASE i = Len(live)
        BY <1>2, <2>1, <3>1, NewestIs
    <3>2. CASE i # Len(live)
      <4>1. End(live[i]) < live[Len(live)].anchor
        <5>1. PICK n \in Nat : n = Len(live)
            BY <1>2
        <5>2. i \in 1 .. n /\ i # n
            BY <3>2, <5>1
        <5>3. n \in 1 .. Len(live) /\ i < n
            BY <5>1, <5>2
        <5> QED
            BY <5>1, <5>3, BurstsApart
      <4>2. BurstIs(live[Len(live)]) /\ seq = End(live[Len(live)])
          BY <1>2, <2>1, LiveIs, NewestIs
      <4> QED
          BY <1>4, <4>1, <4>2 DEF BurstIs
    <3> QED
        BY <3>1, <3>2
  <2>3. first \in BurstOwes(live[i]) /\ first \in 1 .. seq
      BY <1>1, <1>2, <1>3, <1>4, <1>5, <2>2 DEF BurstOwes, BurstIs
  <2> QED
      BY <1>2, <2>3 DEF Owed
<1>12. ASSUME cfg.lag = 0, NEW p \in Owed  PROVE first <= p
  <2>1. Len(live) <= 1
      BY <1>1, <1>12 DEF IInv, BurstInv
  <2>2. i = 1 /\ live # <<>>
      BY <1>2, <2>1, LiveIs
  <2>3. FirstOwed = first
      BY <1>5, <2>2 DEF FirstOwed
  <2>4. p # w2.pic /\ (p = w2.pic \/ p >= FirstOwed)
      BY <1>1, <1>12, OwedFrom DEF Owed, None
  <2> QED
      BY <2>3, <2>4
<1>13. Owed' = Owed \ {first}
  <2>1. /\ DOMAIN live' = DOMAIN live
        /\ \A j \in DOMAIN live :
               live'[j] = IF j = i THEN [live[i] EXCEPT !.billed = TRUE] ELSE live[j]
      BY <1>1, <1>2, <1>3
  <2>2. ASSUME NEW j \in DOMAIN live, NEW p
        PROVE  p \in BurstOwes(live'[j]) <=> p \in BurstOwes(live[j]) /\ p # first
    <3>1. CASE j = i
      <4>1. live'[j] = [live[i] EXCEPT !.billed = TRUE]
          BY <2>1, <3>1
      <4>2. live'[j].anchor = first /\ live'[j].bs = live[i].bs /\ live'[j].billed
          BY <1>4, <1>5, <4>1 DEF BurstIs, Burst
      <4>3. End(live'[j]) = End(live[i]) /\ ~live[i].billed
          BY <1>1, <1>3, <1>5, <4>2 DEF End
      <4> QED
          BY <1>5, <3>1, <4>2, <4>3 DEF BurstOwes
    <3>2. CASE j # i
      <4>1. live'[j] = live[j]
          BY <2>1, <3>2
      <4>2. first \notin live[j].anchor .. End(live[j])
        <5>1. BurstIs(live[j]) /\ j \in 1 .. Len(live)
            BY <1>2, LiveIs
        <5>2. CASE j < i
          <6>1. End(live[j]) < live[i].anchor
              BY <5>1, <5>2, BurstsApart
          <6> QED
              BY <1>5, <5>1, <6>1 DEF BurstIs
        <5>3. CASE i < j
          <6>1. End(live[i]) < live[j].anchor
              BY <5>1, <5>3, BurstsApart
          <6> QED
              BY <1>4, <1>5, <5>1, <6>1 DEF BurstIs
        <5> QED
            BY <1>2, <3>2, <5>1, <5>2, <5>3
      <4> QED
          BY <4>1, <4>2 DEF BurstOwes
    <3> QED
        BY <3>1, <3>2
  <2>3. Owed' = {p \in 1 .. seq : \/ p = w2.pic
                                  \/ \E j \in DOMAIN live : p \in BurstOwes(live'[j])}
      BY <1>1, <1>9, <1>10, <2>1 DEF Owed
  <2>4. Owed = {p \in 1 .. seq : \/ p = w2.pic
                                 \/ \E j \in DOMAIN live : p \in BurstOwes(live[j])}
      BY <1>10 DEF Owed
  <2>5. \A p \in 1 .. seq : p # w2.pic
      BY <1>1 DEF None
  <2> QED
      BY <2>2, <2>3, <2>4, <2>5
<1> QED
    BY <1>1, <1>7, <1>8, <1>11, <1>12, <1>13, RecordStep

\* A tight group has nothing in flight.
LEMMA CodedAlone ==
    ASSUME IInv, pc = "coded"
    PROVE  /\ live = <<>> /\ w2.pic = None /\ Owed = {seq} /\ seq \in Nat \ {0}
           /\ Len(rcp) = 1 /\ rcp[1].tight /\ cfg.vbv /\ tight
<1>1. cfg.vbv /\ tight
    BY DEF IInv, PcInv, Bounded
<1>2. live = <<>> /\ w2.pic = None /\ Len(rcp) = 1 /\ rcp[1].tight
    BY <1>1 DEF IInv, TightInv
<1>3. seq \in Nat \ {0}
    BY DEF IInv, TypeInv, TodoInv, TodoAt
<1>4. ApiOwes = {seq} /\ DOMAIN live = {}
    BY <1>2, LiveIs DEF ApiOwes
<1>5. Owed = {seq}
    BY <1>2, <1>3, <1>4 DEF Owed, None
<1> QED
    BY <1>1, <1>2, <1>3, <1>5

LEMMA EmitBoundedStep ==
    ASSUME IInv, EmitBounded
    PROVE  LedgerNext
<1>1. /\ pc = "coded" /\ pc' \in {"idle", "serial"} /\ cfg' = cfg /\ live' = live /\ w2' = w2
      /\ Record(<<Size(seq)>>)
    BY DEF EmitBounded, NextInGroup
<1>2. live = <<>> /\ w2.pic = None /\ Owed = {seq} /\ seq \in Nat \ {0}
    BY <1>1, CodedAlone
<1>3. PICK r : r = <<Size(seq)>>
    OBVIOUS
<1>4. PICK first \in Nat \ {0} : first = seq
    BY <1>2
<1>5. r \in Seq(Result) /\ Len(r) = 1 /\ r[1].src = first /\ Record(r)
  <2>1. PICK x \in Result : r = <<x>> /\ x.src = first
      BY <1>2, <1>3, <1>4, SizeIs
  <2> QED
      BY <1>1, <1>3, <2>1
<1>6. Results(r, first) /\ first .. first - 1 + Len(r) = {first}
    BY <1>5 DEF Results
<1>7. seq' = seq
    BY <1>5 DEF Record
<1>8. ApiOwes' = {} /\ DOMAIN live' = {}
    BY <1>1, <1>2 DEF ApiOwes
<1>9. Owed' = {}
    BY <1>1, <1>2, <1>7, <1>8 DEF Owed, None
<1>10. /\ first .. first - 1 + Len(r) \subseteq Owed
       /\ \A p \in Owed : first <= p
       /\ Owed' = Owed \ (first .. first - 1 + Len(r))
    BY <1>2, <1>4, <1>6, <1>9
<1> QED
    BY <1>1, <1>5, <1>6, <1>10, RecordStep

LEMMA PairAppendStep ==
    ASSUME IInv, PairAppend
    PROVE  LedgerNext
<1>1. /\ pc = "pair" /\ pc' \in {"idle", "serial"} /\ cfg' = cfg /\ live' = live /\ w2' = w2
      /\ w2.pic = None /\ Record(<<Size(seq - 1), Size(seq)>>)
    BY DEF PairAppend, NextInGroup
<1>2. live = <<>> /\ seq \in Nat /\ seq > 1
    BY <1>1 DEF IInv, TypeInv, PcInv, SerialPcs, TodoInv, TodoAt
<1>3. ApiOwes = {seq - 1, seq} /\ DOMAIN live = {}
    BY <1>1, <1>2, LiveIs DEF ApiOwes
<1>4. Owed = {seq - 1, seq}
    BY <1>1, <1>2, <1>3 DEF Owed, None
<1>5. PICK r : r = <<Size(seq - 1), Size(seq)>>
    OBVIOUS
<1>6. PICK first \in Nat \ {0} : first = seq - 1
    BY <1>2
<1>7. r \in Seq(Result) /\ Len(r) = 2 /\ r[1].src = first /\ r[2].src = first + 1 /\ Record(r)
  <2>1. PICK x \in Result : x = Size(seq - 1) /\ x.src = first
      BY <1>2, <1>6, SizeIs
  <2>2. PICK y \in Result : y = Size(seq) /\ y.src = first + 1
      BY <1>2, <1>6, SizeIs
  <2>3. r = <<x, y>>
      BY <1>5, <2>1, <2>2
  <2> QED
      BY <1>1, <1>5, <2>1, <2>2, <2>3
<1>8. Results(r, first) /\ first .. first - 1 + Len(r) = {seq - 1, seq}
    BY <1>2, <1>6, <1>7 DEF Results
<1>9. seq' = seq
    BY <1>7 DEF Record
<1>10. ApiOwes' = {} /\ DOMAIN live' = {}
    BY <1>1, <1>3 DEF ApiOwes
<1>11. Owed' = {}
    BY <1>1, <1>2, <1>9, <1>10 DEF Owed, None
<1>12. /\ first .. first - 1 + Len(r) \subseteq Owed
       /\ \A p \in Owed : first <= p
       /\ Owed' = Owed \ (first .. first - 1 + Len(r))
    BY <1>2, <1>4, <1>6, <1>8, <1>11
<1> QED
    BY <1>1, <1>7, <1>8, <1>12, RecordStep

\* What a burst adds at its drain: all its pictures that still owe a size.
LEMMA SizesIs ==
    ASSUME NEW b, BurstIs(b), \A j \in DOMAIN b.bs : b.bs[j] = b.anchor + j,
           NEW first, first = IF b.billed THEN b.anchor + 1 ELSE b.anchor
    PROVE  /\ Sizes(b) \in Seq(Result) /\ first \in Nat \ {0} /\ Results(Sizes(b), first)
           /\ first .. first - 1 + Len(Sizes(b)) = BurstOwes(b)
           /\ Len(Sizes(b)) > 0 => BurstOwes(b) # {}
<1>1. PICK a \in Nat \ {0} : a = b.anchor
    BY DEF BurstIs
<1>2. PICK n \in Nat : n = Len(b.bs)
    BY DEF BurstIs
<1>3. b.bs \in Seq(Nat) /\ DOMAIN b.bs = 1 .. n /\ End(b) = a + n
    BY <1>1, <1>2, LenProperties DEF BurstIs
<1>4. PICK t : t = [j \in DOMAIN b.bs |-> Size(b.bs[j])]
    OBVIOUS
<1>5. /\ t \in Seq(Result) /\ Len(t) = n
      /\ \A j \in 1 .. n : t[j].src = a + j
  <2>1. ASSUME NEW j \in 1 .. n  PROVE t[j] \in Result /\ t[j].src = a + j
    <3>1. PICK p \in Nat : p = a + j
        OBVIOUS
    <3>2. b.bs[j] = p /\ j \in DOMAIN b.bs
        BY <1>1, <1>3, <3>1
    <3>3. t[j] = Size(p)
        BY <1>4, <3>2
    <3> QED
        BY <3>1, <3>3, SizeIs
  <2>2. t \in [1 .. n -> Result]
      BY <1>3, <1>4, <2>1
  <2> QED
      BY <2>1, <2>2
<1>6. PICK x : x = Size(a)
    OBVIOUS
<1>7. x \in Result /\ x.src = a
    BY <1>6, SizeIs
<1>8. CASE b.billed
  <2>1. Sizes(b) = <<>> \o t
      BY <1>4, <1>8 DEF Sizes
  <2>2. <<>> \o t = t
      BY <1>5, ConcatEmptySeq
  <2>3. Sizes(b) = t /\ first = a + 1
      BY <1>1, <1>8, <2>1, <2>2
  <2>4. \A i \in 1 .. Len(t) : t[i].src = (first - 1) + i
      BY <1>5, <2>3
  <2>5. first .. first - 1 + Len(t) = BurstOwes(b)
      BY <1>1, <1>3, <1>5, <1>8, <2>3 DEF BurstOwes
  <2>6. Len(t) > 0 => first \in first .. first - 1 + Len(t)
      BY <1>5, <2>3
  <2> HIDE DEF Results
  <2>7. Results(t, first)
      BY <2>4 DEF Results
  <2>8. first \in Nat \ {0}
      BY <2>3
  <2> QED
      BY <1>5, <2>3, <2>5, <2>6, <2>7, <2>8
<1>9. CASE ~b.billed
  <2>1. Sizes(b) = <<x>> \o t
      BY <1>1, <1>4, <1>6, <1>9 DEF Sizes
  <2>2. PICK h : h = <<x>>
      OBVIOUS
  <2>3. h \in Seq(Result) /\ Len(h) = 1 /\ h[1] = x
      BY <1>7, <2>2
  <2>4. PICK s : s = h \o t
      OBVIOUS
  <2>5. /\ s \in Seq(Result) /\ Len(s) = 1 + n
        /\ \A i \in 1 .. 1 + n : s[i] = IF i <= 1 THEN h[i] ELSE t[i - 1]
    <3>1. /\ h \o t \in Seq(Result) /\ Len(h \o t) = Len(h) + Len(t)
          /\ \A i \in 1 .. Len(h) + Len(t) :
                 (h \o t)[i] = IF i <= Len(h) THEN h[i] ELSE t[i - Len(h)]
        BY <1>5, <2>3, ConcatProperties
    <3> QED
        BY <1>5, <2>3, <2>4, <3>1
  <2>6. Sizes(b) = s /\ first = a
      BY <1>1, <1>9, <2>1, <2>2, <2>4
  <2>7. ASSUME NEW i \in 1 .. 1 + n  PROVE s[i].src = (first - 1) + i
    <3>1. CASE i = 1
      <4>1. s[i] = x
          BY <2>3, <2>5, <3>1
      <4> QED
          BY <1>7, <2>6, <3>1, <4>1
    <3>2. CASE i # 1
      <4>1. i - 1 \in 1 .. n
          BY <3>2
      <4>2. s[i] = t[i - 1]
          BY <2>5, <4>1
      <4>3. t[i - 1].src = a + (i - 1)
          BY <1>5, <4>1
      <4> QED
          BY <2>6, <4>2, <4>3
    <3> QED
        BY <3>1, <3>2
  <2>8. first .. first - 1 + Len(s) = BurstOwes(b)
      BY <1>1, <1>3, <1>9, <2>5, <2>6 DEF BurstOwes
  <2>9. first \in first .. first - 1 + Len(s) /\ first \in Nat \ {0}
      BY <2>5, <2>6
  <2>10. Results(s, first)
      BY <2>5, <2>7 DEF Results
  <2> QED
      BY <2>5, <2>6, <2>8, <2>9, <2>10
<1> QED
    BY <1>8, <1>9 DEF BurstIs

\* stair_drain takes the oldest burst off what is owed.
LEMMA TailIs ==
    ASSUME IInv, live # <<>>
    PROVE  /\ Tail(live) \in Seq(Burst) /\ Len(Tail(live)) = Len(live) - 1
           /\ DOMAIN Tail(live) = 1 .. Len(live) - 1
           /\ \A j \in 1 .. Len(live) - 1 : Tail(live)[j] = live[j + 1]
<1>1. live \in Seq(Burst)
    BY DEF IInv, TypeInv
<1>2. /\ Tail(live) \in Seq(Burst) /\ Len(Tail(live)) = Len(live) - 1
      /\ \A j \in 1 .. Len(Tail(live)) : Tail(live)[j] = live[j + 1]
    BY <1>1, HeadTailProperties
<1>3. DOMAIN Tail(live) = 1 .. Len(Tail(live))
    BY <1>2, LenProperties
<1> QED
    BY <1>2, <1>3

LEMMA DrainOldestStep ==
    ASSUME IInv, DrainOldest
    PROVE  LedgerNext
<1>1. /\ pc \in {"drain", "ring", "retire"} /\ pc' = pc /\ cfg' = cfg /\ w2' = w2
      /\ w2.pic = None /\ live # <<>> /\ Record(Sizes(live[1])) /\ live' = Tail(live)
    BY DEF DrainOldest, Drains, RetireFirst
<1>2. PICK n \in Nat \ {0} : n = Len(live)
    BY <1>1, LiveIs
<1>3. seq \in Nat /\ DOMAIN live = 1 .. n /\ 1 \in 1 .. n
    BY <1>2, LiveIs DEF IInv, TypeInv
<1>4. PICK b : b = live[1]
    OBVIOUS
<1>5. BurstIs(b) /\ \A j \in DOMAIN b.bs : b.bs[j] = b.anchor + j
    BY <1>2, <1>3, <1>4, LiveIs DEF BurstOf
<1>6. PICK first : first = IF b.billed THEN b.anchor + 1 ELSE b.anchor
    OBVIOUS
<1>7. PICK r : r = Sizes(b)
    OBVIOUS
<1>8. /\ r \in Seq(Result) /\ first \in Nat \ {0} /\ Results(r, first)
      /\ first .. first - 1 + Len(r) = BurstOwes(b)
    BY <1>5, <1>6, <1>7, SizesIs
<1>9. Record(r)
    BY <1>1, <1>4, <1>7
<1>10. seq' = seq
    BY <1>9 DEF Record
<1>11. ApiOwes = {} /\ ApiOwes' = {}
    BY <1>1 DEF ApiOwes
<1>12. \A p \in 1 .. seq : p # w2.pic
    BY <1>1 DEF None
<1>13. Owed = {p \in 1 .. seq : \E j \in 1 .. n : p \in BurstOwes(live[j])}
    BY <1>3, <1>11, <1>12 DEF Owed
<1>14. BurstOwes(b) \subseteq Owed
  <2>1. End(b) <= seq
    <3>1. CASE n = 1
        BY <1>1, <1>2, <1>3, <1>4, <3>1, NewestIs
    <3>2. CASE n # 1
      <4>1. n \in 1 .. Len(live) /\ 1 \in 1 .. Len(live) /\ 1 < n
          BY <1>2, <3>2
      <4>2. End(b) < live[n].anchor
          BY <1>4, <4>1, BurstsApart
      <4>3. BurstIs(live[n]) /\ seq = End(live[n])
          BY <1>1, <1>2, <4>1, LiveIs, NewestIs
      <4> QED
          BY <1>5, <4>2, <4>3 DEF BurstIs
    <3> QED
        BY <3>1, <3>2
  <2>2. BurstOwes(b) \subseteq 1 .. seq
      BY <1>3, <1>5, <2>1 DEF BurstOwes, BurstIs
  <2> QED
      BY <1>3, <1>4, <1>13, <2>2
<1>15. ASSUME NEW p \in Owed  PROVE first <= p
  <2>1. FirstOwed = b.anchor
      BY <1>1, <1>4 DEF FirstOwed
  <2>2. p \in 1 .. seq /\ p # w2.pic
      BY <1>12 DEF Owed
  <2>3. p >= b.anchor
      BY <1>1, <2>1, <2>2, OwedFrom
  <2>4. CASE b.billed
    <3>1. p # b.anchor
      <4>1. PICK j \in 1 .. n : p \in BurstOwes(live[j])
          BY <1>13
      <4>2. CASE j = 1
          BY <1>4, <2>4, <4>1, <4>2 DEF BurstOwes
      <4>3. CASE j # 1
        <5>1. j \in 1 .. Len(live) /\ 1 \in 1 .. Len(live) /\ 1 < j
            BY <1>2, <4>3
        <5>2. End(b) < live[j].anchor /\ BurstIs(live[j])
            BY <1>4, <5>1, BurstsApart, LiveIs
        <5>3. p \in live[j].anchor .. End(live[j])
            BY <4>1 DEF BurstOwes
        <5> QED
            BY <1>5, <5>2, <5>3 DEF BurstIs
      <4> QED
          BY <4>2, <4>3
    <3> QED
        BY <1>5, <1>6, <2>2, <2>3, <2>4, <3>1 DEF BurstIs
  <2>5. CASE ~b.billed
      BY <1>6, <2>3, <2>5
  <2> QED
      BY <2>4, <2>5
<1>16. Owed' = Owed \ BurstOwes(b)
  <2>1. DOMAIN live' = 1 .. n - 1 /\ \A j \in 1 .. n - 1 : live'[j] = live[j + 1]
      BY <1>1, <1>2, TailIs
  <2>2. Owed' = {p \in 1 .. seq : \E j \in 1 .. n - 1 : p \in BurstOwes(live[j + 1])}
      BY <1>1, <1>10, <1>11, <1>12, <2>1 DEF Owed
  <2>3. ASSUME NEW j \in 2 .. n, NEW p \in BurstOwes(live[j])  PROVE p \notin BurstOwes(b)
    <3>1. j \in 1 .. Len(live) /\ 1 \in 1 .. Len(live) /\ 1 < j
        BY <1>2
    <3>2. End(b) < live[j].anchor /\ BurstIs(live[j])
        BY <1>4, <3>1, BurstsApart, LiveIs
    <3>3. p \in live[j].anchor .. End(live[j])
        BY DEF BurstOwes
    <3>4. p \notin b.anchor .. End(b)
        BY <1>5, <3>2, <3>3 DEF BurstIs
    <3> QED
        BY <3>4 DEF BurstOwes
  <2>4. \A p : (\E j \in 1 .. n - 1 : p \in BurstOwes(live[j + 1]))
               <=> \E j \in 2 .. n : p \in BurstOwes(live[j])
    <3>1. \A j \in 1 .. n - 1 : j + 1 \in 2 .. n
        OBVIOUS
    <3>2. \A j \in 2 .. n : j - 1 \in 1 .. n - 1 /\ (j - 1) + 1 = j
        OBVIOUS
    <3> QED
        BY <3>1, <3>2
  <2>5. \A j \in 1 .. n : j = 1 \/ j \in 2 .. n
      OBVIOUS
  <2>6. \A j \in 2 .. n : j \in 1 .. n
      OBVIOUS
  <2>7. Owed' = {p \in 1 .. seq : \E j \in 2 .. n : p \in BurstOwes(live[j])}
      BY <2>2, <2>4
  <2> QED
      BY <1>4, <1>13, <2>3, <2>5, <2>6, <2>7
<1> QED
    BY <1>1, <1>8, <1>9, <1>14, <1>15, <1>16, RecordStep

\* The decides of the API thread, with no burst in flight.
LEMMA EmitDecideStep ==
    ASSUME IInv, EmitDecide
    PROVE  LedgerNext /\ seq' = seq + 1 /\ anchorSeq' = Newest(Head(todo))
<1>1. /\ pc = "serial" /\ pc' \in {"decided", "coded"} /\ cfg' = cfg /\ live' = live /\ w2' = w2
      /\ Push(Head(todo))
    BY DEF EmitDecide
<1>2. live = <<>> /\ seq \in Nat /\ w2.pic \in Nat
    BY <1>1 DEF IInv, TypeInv, PcInv, SerialPcs, Slice
<1>3. DOMAIN live = {} /\ ApiOwes = {}
    BY <1>1, <1>2, LiveIs DEF ApiOwes
<1>4. Owed = {p \in 1 .. seq : p = w2.pic}
    BY <1>3 DEF Owed
<1>5. seq' = seq + 1
    BY <1>1 DEF Push
<1>6. ApiOwes' = {seq + 1}
    BY <1>1, <1>5 DEF ApiOwes
<1>7. w2.pic # None => w2.pic \in 1 .. seq
    BY <1>1, OwedFrom
<1>8. Owed' = {p \in 1 .. seq + 1 : p = w2.pic \/ p = seq + 1}
    BY <1>1, <1>3, <1>5, <1>6 DEF Owed
<1>9. Owed' = Owed \cup {seq + 1}
    BY <1>2, <1>4, <1>7, <1>8 DEF None
<1>10. Len(rcp) < cfg.rcpMax
  <2>1. Owed \subseteq {w2.pic, w2.pic}
      BY <1>4
  <2> QED
      BY <1>1, <2>1, SerialRoom DEF IInv, TodoInv, TodoAt
<1> QED
    BY <1>1, <1>9, <1>10, PushStep

LEMMA PairDecideStep ==
    ASSUME IInv, PairDecide
    PROVE  LedgerNext /\ seq' = seq + 1 /\ anchorSeq' = anchorSeq
<1>1. /\ \/ pc = "serial" /\ pc' = "sibling"
         \/ pc = "sibling" /\ pc' = "pair"
      /\ cfg' = cfg /\ live' = live /\ w2' = w2 /\ Push("B")
    BY DEF PairDecide
<1>2. live = <<>> /\ seq \in Nat /\ w2.pic \in Nat /\ pc # "failed" /\ pc' # "failed"
    BY <1>1 DEF IInv, TypeInv, PcInv, SerialPcs, Slice
<1>3. DOMAIN live = {} /\ DOMAIN live' = {}
    BY <1>1, <1>2, LiveIs
<1>4. seq' = seq + 1
    BY <1>1 DEF Push
<1>5. w2.pic # None => w2.pic \in 1 .. seq
    BY <1>2, OwedFrom
<1>6. Owed \subseteq {w2.pic, seq} /\ Owed' = Owed \cup {seq + 1}
  <2>1. CASE pc = "serial" /\ pc' = "sibling"
    <3>1. ApiOwes = {} /\ ApiOwes' = {seq + 1}
        BY <1>4, <2>1 DEF ApiOwes
    <3>2. Owed = {p \in 1 .. seq : p = w2.pic}
        BY <1>3, <3>1 DEF Owed
    <3>3. Owed' = {p \in 1 .. seq + 1 : p = w2.pic \/ p = seq + 1}
        BY <1>1, <1>3, <1>4, <3>1 DEF Owed
    <3> QED
        BY <1>2, <1>5, <3>2, <3>3 DEF None
  <2>2. CASE pc = "sibling" /\ pc' = "pair"
    <3>1. ApiOwes = {seq} /\ ApiOwes' = {seq, seq + 1}
        BY <1>2, <1>4, <2>2 DEF ApiOwes
    <3>2. Owed = {p \in 1 .. seq : p = w2.pic \/ p = seq}
        BY <1>3, <3>1 DEF Owed
    <3>3. Owed' = {p \in 1 .. seq + 1 : p = w2.pic \/ p = seq \/ p = seq + 1}
        BY <1>1, <1>3, <1>4, <3>1 DEF Owed
    <3> QED
        BY <1>2, <1>5, <3>2, <3>3 DEF None
  <2> QED
      BY <1>1, <2>1, <2>2
<1>7. Len(rcp) < cfg.rcpMax
    BY <1>2, <1>6, SerialRoom DEF IInv, TodoInv, TodoAt
<1>8. Newest("B") = anchorSeq
    BY DEF Newest
<1> QED
    BY <1>1, <1>2, <1>6, <1>7, <1>8, PushStep

\* A launch decides the anchor of a new burst.
NewBurst == [anchor |-> seq + 1, nb |-> Len(todo) - 1, bs |-> <<>>, billed |-> FALSE,
             phase |-> "armed", runner |-> "run", err |-> FALSE]

LEMMA LaunchIs ==
    ASSUME IInv, Launch
    PROVE  /\ NewBurst \in Burst /\ live' = Append(live, NewBurst)
           /\ live' \in Seq(Burst) /\ Len(live') = Len(live) + 1
           /\ DOMAIN live' = 1 .. Len(live) + 1
           /\ \A j \in 1 .. Len(live) : live'[j] = live[j]
           /\ live'[Len(live) + 1] = NewBurst /\ End(NewBurst) = seq + 1
           /\ todo \in Seq(Kinds) /\ Len(todo) \in Nat \ {0}
           /\ Len(todo) <= cfg.maxB + 1
<1>1. /\ live \in Seq(Burst) /\ seq \in Nat /\ todo \in Seq(Kinds) /\ pc = "ring"
      /\ live' = Append(live, NewBurst)
    BY DEF IInv, TypeInv, Launch, NewBurst
<1>2. Len(todo) \in Nat \ {0} /\ Left(todo) <= cfg.maxB + 1 /\ "pair" \notin Range(todo)
    BY <1>1, EmptySeq DEF IInv, TodoInv, TodoAt, LaunchPcs, MiniGop
<1>3. Len(todo) <= cfg.maxB + 1
  <2>1. ASSUME NEW i \in DOMAIN todo, todo[i] = "pair"  PROVE FALSE
      BY <1>2, <2>1 DEF Range
  <2>2. Left(todo) = Len(todo) + 0
      BY <2>1 DEF Left
  <2> QED
      BY <1>2, <2>2
<1>4. NewBurst \in Burst
    BY <1>1, <1>2 DEF NewBurst, Burst
<1>5. /\ live' \in Seq(Burst) /\ Len(live') = Len(live) + 1
      /\ \A j \in 1 .. Len(live) : live'[j] = live[j]
      /\ live'[Len(live) + 1] = NewBurst
    BY <1>1, <1>4, AppendProperties
<1>6. DOMAIN live' = 1 .. Len(live) + 1
    BY <1>5, LenProperties
<1>7. End(NewBurst) = seq + 1
    BY <1>1 DEF End, NewBurst
<1> QED
    BY <1>1, <1>2, <1>3, <1>4, <1>5, <1>6, <1>7

LEMMA LaunchStep ==
    ASSUME IInv, Launch
    PROVE  LedgerNext /\ seq' = seq + 1 /\ anchorSeq' = seq + 1
<1>1. /\ pc = "ring" /\ pc' = "retire" /\ cfg' = cfg /\ w2' = w2 /\ Push("P")
      /\ ~LedgerTight
    BY DEF Launch, RingFull
<1>2. /\ seq \in Nat /\ DOMAIN live = 1 .. Len(live) /\ Len(live) \in Nat
      /\ Len(rcp) \in Nat /\ cfg.rcpMax \in Nat
    BY LiveIs, CfgIs DEF IInv, TypeInv, SettingIs
<1>3. seq' = seq + 1
    BY <1>1 DEF Push
<1>4. ApiOwes = {} /\ ApiOwes' = {}
    BY <1>1 DEF ApiOwes
<1>5. PICK n \in Nat : n = Len(live)
    BY <1>2
<1>6. /\ DOMAIN live' = 1 .. n + 1 /\ (\A j \in 1 .. n : live'[j] = live[j])
      /\ live'[n + 1] = NewBurst
    BY <1>5, LaunchIs
<1>7. BurstOwes(NewBurst) = {seq + 1}
    BY <1>2, LaunchIs DEF BurstOwes, NewBurst
<1>8. w2.pic # None => w2.pic \in 1 .. seq
    BY <1>1, OwedFrom
<1>9. ASSUME NEW j \in 1 .. n, NEW p \in BurstOwes(live[j])  PROVE p \in 1 .. seq
  <2>1. live # <<>> /\ n \in 1 .. Len(live)
      BY <1>5, LiveIs
  <2>2. BurstIs(live[j]) /\ BurstIs(live[n]) /\ seq = End(live[n])
      BY <1>5, <2>1, LiveIs, NewestIs
  <2>3. p \in live[j].anchor .. End(live[j])
      BY DEF BurstOwes
  <2>4. End(live[j]) <= seq
    <3>1. CASE j = n
        BY <1>2, <2>2, <3>1
    <3>2. CASE j # n
      <4>1. j < n /\ j \in 1 .. Len(live) /\ n \in 1 .. Len(live)
          BY <1>5, <3>2
      <4>2. End(live[j]) < live[n].anchor
          BY <4>1, BurstsApart
      <4> QED
          BY <2>2, <4>2 DEF BurstIs
    <3> QED
        BY <3>1, <3>2
  <2> QED
      BY <1>2, <2>2, <2>3, <2>4 DEF BurstIs
<1>10. Owed' = {p \in 1 .. seq + 1 : \/ p = w2.pic
                                     \/ \E j \in 1 .. n + 1 : p \in BurstOwes(live'[j])}
    BY <1>1, <1>3, <1>4, <1>6 DEF Owed
<1>11. Owed = {p \in 1 .. seq : p = w2.pic \/ \E j \in 1 .. n : p \in BurstOwes(live[j])}
    BY <1>2, <1>4, <1>5 DEF Owed
<1>12. \A p : (\E j \in 1 .. n + 1 : p \in BurstOwes(live'[j]))
              <=> p = seq + 1 \/ \E j \in 1 .. n : p \in BurstOwes(live[j])
  <2>1. \A j \in 1 .. n + 1 : j \in 1 .. n \/ j = n + 1
      OBVIOUS
  <2>2. \A j \in 1 .. n : j \in 1 .. n + 1
      OBVIOUS
  <2>3. n + 1 \in 1 .. n + 1
      OBVIOUS
  <2> QED
      BY <1>6, <1>7, <2>1, <2>2, <2>3
<1>13. Owed' = Owed \cup {seq + 1}
  <2>1. ASSUME NEW p, p \in Owed'  PROVE p \in Owed \cup {seq + 1}
    <3>1. /\ p \in 1 .. seq + 1
          /\ p = w2.pic \/ p = seq + 1 \/ \E j \in 1 .. n : p \in BurstOwes(live[j])
        BY <1>10, <1>12, <2>1
    <3>2. CASE p = seq + 1
        BY <3>2
    <3>3. CASE p # seq + 1
      <4>1. p \in 1 .. seq
          BY <1>2, <3>1, <3>3
      <4> QED
          BY <1>11, <3>1, <3>3, <4>1
    <3> QED
        BY <3>2, <3>3
  <2>2. ASSUME NEW p, p \in Owed \cup {seq + 1}  PROVE p \in Owed'
    <3>1. p \in 1 .. seq + 1
        BY <1>2, <1>11, <2>2
    <3>2. p = w2.pic \/ p = seq + 1 \/ \E j \in 1 .. n : p \in BurstOwes(live[j])
        BY <1>11, <2>2
    <3> QED
        BY <1>10, <1>12, <3>1, <3>2
  <2> QED
      BY <2>1, <2>2
<1>14. Len(rcp) < cfg.rcpMax
  <2>1. CASE live # <<>>
    <3>1. Len(rcp) + Len(todo) <= cfg.rcpMax
        BY <1>1, <1>2, <2>1, LaunchIs DEF LedgerTight
    <3> QED
        BY <1>2, <3>1, LaunchIs
  <2>2. CASE live = <<>>
    <3>1. Owed \subseteq {w2.pic, w2.pic}
        BY <1>5, <1>11, <2>2, LiveIs
    <3> QED
        BY <1>1, <3>1, SerialRoom DEF IInv, TodoInv, TodoAt
  <2> QED
      BY <2>1, <2>2
<1>15. Newest("P") = seq + 1
    BY DEF Newest
<1> QED
    BY <1>1, <1>13, <1>14, <1>15, PushStep

\* The chain decides the next B picture of the newest burst.
LEMMA ChainDecidesIs ==
    ASSUME IInv, NEW i \in DOMAIN live, ChainDecides(i)
    PROVE  /\ i = Len(live) /\ i \in 1 .. Len(live) /\ live # <<>>
           /\ pc \in {"idle", "waitall", "drain", "emptied", "failed"}
           /\ live[i].phase = "prep" /\ Len(live[i].bs) < live[i].nb
           /\ seq = live[i].anchor + Len(live[i].bs) /\ seq \in Nat
           /\ live' \in Seq(Burst) /\ Len(live') = Len(live) /\ DOMAIN live' = DOMAIN live
           /\ \A j \in DOMAIN live : j # i => live'[j] = live[j]
           /\ live'[i] = [live[i] EXCEPT !.bs = Append(live[i].bs, seq + 1)]
           /\ Append(live[i].bs, seq + 1) \in Seq(Nat)
           /\ Len(Append(live[i].bs, seq + 1)) = Len(live[i].bs) + 1
           /\ End(live'[i]) = seq + 1
           /\ UNCHANGED <<cfg, w2, nals, skipped, pc, todo, billing, tight, tries, flushing, mark>>
           /\ Push("B")
<1>1. /\ live[i].phase = "prep" /\ Len(live[i].bs) < live[i].nb
      /\ live' = [live EXCEPT ![i].bs = Append(live[i].bs, seq + 1)]
      /\ UNCHANGED <<cfg, w2, nals, skipped, pc, todo, billing, tight, tries, flushing, mark>>
      /\ Push("B")
    BY DEF ChainDecides
<1>2. BurstIs(live[i]) /\ BurstOf(i) /\ i \in 1 .. Len(live) /\ DOMAIN live = 1 .. Len(live)
    BY LiveIs
<1>3. i = Len(live) /\ pc \in {"idle", "waitall", "drain", "emptied", "failed"}
    BY <1>1, <1>2 DEF BurstOf
<1>4. live # <<>> /\ seq \in Nat
    BY <1>2, LiveIs DEF IInv, TypeInv
<1>5. seq = live[i].anchor + Len(live[i].bs)
    BY <1>2, <1>3, <1>4, NewestIs DEF BurstIs
<1>6. PICK t : t = Append(live[i].bs, seq + 1)
    OBVIOUS
<1>7. t \in Seq(Nat) /\ Len(t) = Len(live[i].bs) + 1
    BY <1>2, <1>4, <1>6, AppendProperties DEF BurstIs
<1>8. PICK b : b = [live[i] EXCEPT !.bs = t]
    OBVIOUS
<1>9. b \in Burst /\ b.anchor = live[i].anchor /\ b.bs = t
    BY <1>2, <1>7, <1>8 DEF BurstIs, Burst
<1>10. live' = [live EXCEPT ![i] = b]
    BY <1>1, <1>6, <1>8
<1>11. /\ live' \in Seq(Burst) /\ Len(live') = Len(live) /\ DOMAIN live' = DOMAIN live
       /\ live'[i] = b
       /\ \A j \in DOMAIN live : j # i => live'[j] = live[j]
  <2>1. live \in Seq(Burst)
      BY DEF IInv, TypeInv
  <2> QED
      BY <1>2, <1>9, <1>10, <2>1, ExceptSeq, LenProperties
<1>12. End(b) = seq + 1
  <2>1. live[i].anchor \in Nat /\ Len(live[i].bs) \in Nat
      BY <1>2 DEF BurstIs
  <2>2. End(b) = live[i].anchor + Len(t)
      BY <1>9 DEF End
  <2>3. Len(t) = Len(live[i].bs) + 1
      BY <1>7
  <2> QED
      BY <1>5, <2>1, <2>2, <2>3
<1> QED
    BY <1>1, <1>2, <1>3, <1>4, <1>5, <1>6, <1>7, <1>8, <1>11, <1>12

LEMMA ChainDecidesStep ==
    ASSUME IInv, NEW i \in DOMAIN live, ChainDecides(i)
    PROVE  LedgerNext /\ seq' = seq + 1 /\ anchorSeq' = anchorSeq
<1>1. /\ i = Len(live) /\ i \in 1 .. Len(live)
      /\ pc \in {"idle", "waitall", "drain", "emptied", "failed"}
      /\ live[i].phase = "prep" /\ Len(live[i].bs) < live[i].nb
      /\ DOMAIN live' = DOMAIN live
      /\ \A j \in DOMAIN live : j # i => live'[j] = live[j]
      /\ live'[i] = [live[i] EXCEPT !.bs = Append(live[i].bs, seq + 1)]
      /\ End(live'[i]) = seq + 1
      /\ pc' = pc /\ cfg' = cfg /\ w2' = w2 /\ Push("B")
    BY ChainDecidesIs
<1>2. seq \in Nat /\ DOMAIN live = 1 .. Len(live) /\ live # <<>> /\ BurstIs(live[i])
    BY <1>1, LiveIs DEF IInv, TypeInv
<1>3. seq' = seq + 1
    BY <1>1 DEF Push
<1>4. ApiOwes = {} /\ ApiOwes' = {}
    BY <1>1 DEF ApiOwes
<1>5. seq = End(live[i])
    BY <1>1, <1>2, NewestIs
<1>6. \A p : p \in BurstOwes(live'[i]) <=> p \in BurstOwes(live[i]) \/ p = seq + 1
  <2>1. live'[i].anchor = live[i].anchor /\ live'[i].billed = live[i].billed
      BY <1>1, <1>2 DEF BurstIs, Burst
  <2>2. PICK a \in Nat : a = live[i].anchor /\ a <= seq
      BY <1>2, <1>5 DEF BurstIs
  <2>3. a .. seq + 1 = (a .. seq) \cup {seq + 1}
      BY <1>2, <2>2
  <2>4. ~(seq + 1 = a)
      BY <1>2, <2>2
  <2> QED
      BY <1>1, <1>5, <2>1, <2>2, <2>3, <2>4 DEF BurstOwes
<1>7. \A p : (\E j \in DOMAIN live' : p \in BurstOwes(live'[j]))
             <=> p = seq + 1 \/ \E j \in DOMAIN live : p \in BurstOwes(live[j])
    BY <1>1, <1>6
<1>8. ASSUME pc # "failed"  PROVE Owed' = Owed \cup {seq + 1}
  <2>1. w2.pic # None => w2.pic \in 1 .. seq
      BY <1>8, OwedFrom
  <2>2. Owed' = {p \in 1 .. seq + 1 : \/ p = w2.pic \/ p = seq + 1
                                      \/ \E j \in DOMAIN live : p \in BurstOwes(live[j])}
      BY <1>1, <1>3, <1>4, <1>7 DEF Owed
  <2>3. Owed = {p \in 1 .. seq : \/ p = w2.pic
                                 \/ \E j \in DOMAIN live : p \in BurstOwes(live[j])}
      BY <1>4 DEF Owed
  <2>4. \A p \in 1 .. seq + 1 : p \in 1 .. seq \/ p = seq + 1
      BY <1>2
  <2>5. \A p \in 1 .. seq : p \in 1 .. seq + 1
      BY <1>2
  <2>6. seq + 1 \in 1 .. seq + 1
      BY <1>2
  <2>7. ASSUME NEW p, p \in Owed'  PROVE p \in Owed \cup {seq + 1}
      BY <2>2, <2>3, <2>4, <2>7
  <2>8. ASSUME NEW p, p \in Owed \cup {seq + 1}  PROVE p \in Owed'
      BY <2>2, <2>3, <2>5, <2>6, <2>8
  <2> QED
      BY <2>7, <2>8
<1>9. Len(rcp) < cfg.rcpMax
  <2>1. Len(rcp) + live[i].nb - Len(live[i].bs) <= cfg.rcpMax
      BY <1>1, <1>2, NewestIs DEF IInv, RoomInv
  <2>2. Len(rcp) \in Nat /\ cfg.rcpMax \in Nat /\ live[i].nb \in Nat /\ Len(live[i].bs) \in Nat
      BY <1>2, CfgIs DEF IInv, TypeInv, SettingIs, BurstIs
  <2> QED
      BY <1>1, <2>1, <2>2
<1>10. Newest("B") = anchorSeq
    BY DEF Newest
<1> QED
    BY <1>1, <1>8, <1>9, <1>10, PushStep

\* The gate and the last flush call commit with nothing owed.
LEMMA GateStep ==
    ASSUME IInv, Gate
    PROVE  LedgerNext /\ rcp' = <<>> /\ Len(acct') = seq /\ seq' = seq /\ anchorSeq' = anchorSeq
<1>1. /\ pc = "gate" /\ w2.pic = None /\ pc' \in {"serial", "bill"} /\ live' = live /\ w2' = w2
      /\ UNCHANGED <<cfg, seq, anchorSeq, anchorHist, lost>>
      /\ Retire(rcp, CommitFilled(rcp))
    BY DEF Gate
<1>2. live = <<>>
    BY <1>1 DEF IInv, PcInv, SerialPcs
<1>3. DOMAIN live = {} /\ ApiOwes = {} /\ ApiOwes' = {}
    BY <1>1, <1>2, LiveIs DEF ApiOwes
<1>4. Owed = {} /\ Owed' = {}
    BY <1>1, <1>3 DEF Owed, None
<1> QED
    BY <1>1, <1>4, CommitStep

LEMMA FlushEndStep ==
    ASSUME IInv, FlushEnd
    PROVE  /\ LedgerNext /\ seq' = seq /\ anchorSeq' = anchorSeq
           /\ pc' = "done" => rcp' = <<>> /\ Len(acct') = seq
<1>1. /\ pc = "emptied" /\ w2.pic = None /\ live' = live /\ w2' = w2 /\ cfg' = cfg
      /\ pc' \in {"done", "idle"}
    BY DEF FlushEnd
<1>2. ApiOwes = {} /\ ApiOwes' = {}
    BY <1>1 DEF ApiOwes
<1>3. CASE NothingOut
  <2>1. live = <<>>
      BY <1>1, <1>3 DEF IInv, PcInv
  <2>2. DOMAIN live = {}
      BY <2>1, LiveIs
  <2>3. /\ UNCHANGED <<cfg, seq, anchorSeq, anchorHist, lost>>
        /\ Retire(rcp, CommitFilled(rcp))
      BY <1>3 DEF FlushEnd
  <2>4. Owed = {} /\ Owed' = {}
      BY <1>1, <1>2, <2>1, <2>2, <2>3 DEF Owed, None
  <2> QED
      BY <1>1, <2>3, <2>4, CommitStep
<1>4. CASE ~NothingOut
  <2>1. UNCHANGED ledger /\ pc' = "idle"
      BY <1>4 DEF FlushEnd
  <2>2. Owed' = Owed
      BY <1>1, <1>2, <2>1 DEF Owed, ledger
  <2> QED
      BY <1>1, <2>1, <2>2, IdleStep DEF ledger
<1> QED
    BY <1>3, <1>4

\* What a retry does to the entries.
LEMMA OneEntry ==
    ASSUME NEW q \in Seq(Entry), Len(q) = 1, NEW e, e = q[1], e.seq = seq, ~e.filled
    PROVE  /\ Recoded(q) = <<[e EXCEPT !.priced = FALSE]>>
           /\ Outgrown(q) = <<[e EXCEPT !.outgrown = TRUE]>>
           /\ Repriced(q) = <<[e EXCEPT !.priced = TRUE]>>
<1>1. DOMAIN q = {1} /\ q = [j \in {1} |-> e]
  <2>1. DOMAIN q = {1}
      BY LenProperties
  <2> QED
      BY <2>1
<1>2. ASSUME NEW d  PROVE <<d>> = [j \in {1} |-> d]
    OBVIOUS
<1>3. Recoded(q) = <<[e EXCEPT !.priced = FALSE]>>
  <2>1. PICK d : d = [e EXCEPT !.priced = FALSE]
      OBVIOUS
  <2>2. Recoded(q) = [j \in {1} |-> d]
      BY <1>1, <2>1 DEF Recoded
  <2>3. Recoded(q) = <<d>>
      BY <1>2, <2>2
  <2> QED
      BY <2>1, <2>3
<1>4. Outgrown(q) = <<[e EXCEPT !.outgrown = TRUE]>>
  <2>1. PICK d : d = [e EXCEPT !.outgrown = TRUE]
      OBVIOUS
  <2>2. Outgrown(q) = [j \in {1} |-> d]
      BY <1>1, <2>1 DEF Outgrown
  <2>3. Outgrown(q) = <<d>>
      BY <1>2, <2>2
  <2> QED
      BY <2>1, <2>3
<1>5. Repriced(q) = <<[e EXCEPT !.priced = TRUE]>>
  <2>1. Len(q) # 0
      OBVIOUS
  <2>2. q # <<>>
      BY <2>1, EmptySeq
  <2>3. Last(q) = e
      BY DEF Last
  <2>4. PICK d : d = [e EXCEPT !.priced = TRUE]
      OBVIOUS
  <2>5. Repriced(q) = [q EXCEPT ![1] = [q[1] EXCEPT !.priced = TRUE]]
      BY <2>2, <2>3 DEF Repriced
  <2>6. Repriced(q) = [j \in {1} |-> d]
      BY <1>1, <2>4, <2>5
  <2>7. Repriced(q) = <<d>>
      BY <1>2, <2>6
  <2> QED
      BY <2>4, <2>7
<1> QED
    BY <1>3, <1>4, <1>5

\* The entry of the picture at hand is as it was, up to its price.
Repricing(e, d) ==
    /\ d \in Entry /\ PriceIs(d)
    /\ d.seq = e.seq /\ d.filled = e.filled /\ d.src = e.src /\ d.tight = e.tight

\* A coding again prices the entry for itself, or ends the loop.
LEMMA RetryStep ==
    ASSUME IInv, Retry \/ RetryOverflows
    PROVE  LedgerNext /\ Len(rcp') = 1 /\ rcp'[1].tight
<1>1. /\ pc = "coded"
      /\ rcp' = Repriced(Recoded(rcp)) \/ rcp' = Outgrown(Recoded(Repriced(rcp)))
      /\ UNCHANGED <<cfg, acct, seq, anchorSeq, anchorHist, lost, live, w2, pc>>
    BY DEF Retry, RetryOverflows
<1>2. Len(rcp) = 1 /\ rcp[1].tight /\ Owed = {seq} /\ seq \in Nat \ {0}
    BY <1>1, CodedAlone
<1>3. PICK f \in 0 .. seq : LedgerOf(f) /\ SizesOf(f)
    BY DEF IInv, LedgerInv
<1>4. Cardinality(Owed) = seq - f
    BY <1>1, <1>3, CountOwed DEF IInv
<1>5. f = seq - 1
  <2>1. Cardinality({seq}) = 1
      BY FS_Singleton
  <2>2. seq - f = 1
      BY <1>2, <1>4, <2>1
  <2> QED
      BY <1>2, <2>2
<1>6. PICK e : e = rcp[1]
    OBVIOUS
<1>7. /\ e \in Entry /\ e.seq = Len(acct) + 1 /\ e = At(Len(acct) + 1)
      /\ Len(acct) + 1 = seq /\ Len(acct) \in Nat
    BY <1>2, <1>3, <1>6, PendingIs DEF IInv, LedgerOf
<1>8. ~e.filled /\ e.src = None /\ e.tight
    BY <1>2, <1>3, <1>5, <1>6, <1>7 DEF LedgerOf
<1>9. rcp \in Seq(Entry)
    BY DEF IInv, TypeInv
<1>10. PICK d : rcp' = <<d>> /\ Repricing(e, d)
  <2>1. ASSUME NEW q \in Seq(Entry), NEW c \in Entry, q = <<c>>, c.seq = seq, ~c.filled
        PROVE  /\ Recoded(q) = <<[c EXCEPT !.priced = FALSE]>>
               /\ Outgrown(q) = <<[c EXCEPT !.outgrown = TRUE]>>
               /\ Repriced(q) = <<[c EXCEPT !.priced = TRUE]>>
    <3>1. Len(q) = 1 /\ c = q[1]
        BY <2>1
    <3> QED
        BY <2>1, <3>1, OneEntry
  <2>2. ASSUME NEW c \in Entry  PROVE <<c>> \in Seq(Entry)
      OBVIOUS
  <2>3. rcp = <<e>> /\ e.seq = seq
    <3>1. DOMAIN rcp = {1}
        BY <1>2, <1>9, LenProperties
    <3>2. rcp = [j \in {1} |-> e]
        BY <1>6, <1>9, <3>1
    <3>3. <<e>> = [j \in {1} |-> e]
        OBVIOUS
    <3> QED
        BY <1>7, <3>2, <3>3
  <2>4. CASE rcp' = Repriced(Recoded(rcp))
    <3>1. PICK a : a = [e EXCEPT !.priced = FALSE]
        OBVIOUS
    <3>2. a \in Entry /\ a.seq = seq /\ ~a.filled
        BY <1>7, <1>8, <2>3, <3>1 DEF Entry
    <3>3. Recoded(rcp) = <<a>>
        BY <1>7, <1>8, <1>9, <2>1, <2>3, <3>1
    <3>4. PICK d : d = [a EXCEPT !.priced = TRUE]
        OBVIOUS
    <3>5. rcp' = <<d>>
        BY <2>1, <2>2, <2>4, <3>2, <3>3, <3>4
    <3>6. Repricing(e, d)
        BY <1>7, <3>1, <3>4 DEF Repricing, PriceIs, Entry
    <3> QED
        BY <3>5, <3>6
  <2>5. CASE rcp' = Outgrown(Recoded(Repriced(rcp)))
    <3>1. PICK a : a = [e EXCEPT !.priced = TRUE]
        OBVIOUS
    <3>2. a \in Entry /\ a.seq = seq /\ ~a.filled
        BY <1>7, <1>8, <2>3, <3>1 DEF Entry
    <3>3. Repriced(rcp) = <<a>>
        BY <1>7, <1>8, <1>9, <2>1, <2>3, <3>1
    <3>4. PICK c : c = [a EXCEPT !.priced = FALSE]
        OBVIOUS
    <3>5. c \in Entry /\ c.seq = seq /\ ~c.filled
        BY <3>2, <3>4 DEF Entry
    <3>6. Recoded(<<a>>) = <<c>>
        BY <2>1, <2>2, <3>2, <3>4
    <3>7. PICK d : d = [c EXCEPT !.outgrown = TRUE]
        OBVIOUS
    <3>8. Outgrown(<<c>>) = <<d>>
        BY <2>1, <2>2, <3>5, <3>7
    <3>9. rcp' = <<d>>
        BY <2>5, <3>3, <3>6, <3>8
    <3>10. Repricing(e, d)
        BY <1>7, <3>1, <3>4, <3>7 DEF Repricing, PriceIs, Entry
    <3> QED
        BY <3>9, <3>10
  <2> QED
      BY <1>1, <2>4, <2>5
<1>11. /\ d \in Entry /\ PriceIs(d) /\ d.seq = seq /\ ~d.filled /\ d.src = None /\ d.tight
    BY <1>7, <1>8, <1>10 DEF Repricing
<1>12. rcp' \in Seq(Entry) /\ Len(rcp') = 1 /\ rcp'[1] = d
    BY <1>10, <1>11
<1>13. \A n \in 1 .. seq - 1 : At(n)' = At(n)
    BY <1>1, <1>7 DEF At, Nth
<1>14. \A n \in {seq} : At(n)' = d
    BY <1>1, <1>7, <1>12 DEF At, Nth
<1>15. LedgerOf(f)'
  <2>1. ASSUME NEW n \in 1 .. seq
        PROVE  /\ At(n)'.seq = n /\ PriceIs(At(n)')
               /\ At(n)'.filled <=> n <= f
               /\ ~At(n)'.filled => At(n)'.src = None
    <3>1. CASE n \in 1 .. seq - 1
        BY <1>3, <1>13, <3>1 DEF LedgerOf
    <3>2. CASE n \in {seq}
        BY <1>2, <1>5, <1>11, <1>14, <3>2
    <3> QED
        BY <1>2, <3>1, <3>2
  <2>2. \A n \in 1 .. f : At(n)'.src \in 1 .. seq
      BY <1>3, <1>5, <1>13 DEF LedgerOf
  <2>3. Len(acct) <= f /\ f <= seq /\ Len(acct) + Len(rcp') = seq
      BY <1>2, <1>3, <1>7, <1>12 DEF LedgerOf
  <2> QED
      BY <1>1, <2>1, <2>2, <2>3 DEF LedgerOf
<1>16. Owed' = Owed
    BY <1>1 DEF Owed, ApiOwes
<1>17. SizesOf(f)'
    BY <1>1, <1>3, <1>5, <1>13, <1>16 DEF SizesOf
<1>18. LedgerInv'
    BY <1>1, <1>15, <1>17 DEF LedgerInv
<1>19. HeadWaits' /\ HistInv'
    BY <1>1, <1>11, <1>12 DEF IInv, HeadWaits, HistInv
<1>20. /\ acct \in Seq(Entry) /\ anchorSeq \in Nat
       /\ anchorHist \in Seq(Nat) /\ Len(anchorHist) = cfg.ring
    BY DEF IInv, TypeInv
<1> QED
    BY <1>1, <1>2, <1>11, <1>12, <1>18, <1>19, <1>20 DEF LedgerNext

-----------------------------------------------------------------------------
(* The groups of pictures.                                                  *)

Tailed(t, r) ==
    /\ r \in Seq(Kinds) /\ Len(r) = Len(t) - 1 /\ PairLast(r)
    /\ r = <<>> <=> Len(t) = 1
    /\ Left(r) = Left(t) - 1 /\ Left(t) \in Nat /\ Left(t) >= 1
    /\ RunOfP(t) => RunOfP(r)
    /\ MiniGop(t) \/ Leaves(t) => Leaves(r)

\* What is left of a group when its first picture is coded.
LEMMA TailedIs ==
    ASSUME NEW t \in Seq(Kinds), t # <<>>, PairLast(t), t[1] # "pair",
           NEW r, r = Tail(t)
    PROVE  Tailed(t, r)
<1>1. PICK n \in Nat \ {0} : n = Len(t)
    BY EmptySeq
<1>2. DOMAIN t = 1 .. n
    BY <1>1, LenProperties
<1>3. /\ r \in Seq(Kinds) /\ Len(r) = n - 1
      /\ \A j \in 1 .. Len(r) : r[j] = t[j + 1]
    BY <1>1, HeadTailProperties
<1>4. DOMAIN r = 1 .. n - 1 /\ \A j \in 1 .. n - 1 : r[j] = t[j + 1] /\ j + 1 \in 1 .. n
    BY <1>3, LenProperties
<1>5. \A i \in 2 .. n : i - 1 \in 1 .. n - 1 /\ r[i - 1] = t[i]
  <2>1. ASSUME NEW i \in 2 .. n  PROVE i - 1 \in 1 .. n - 1 /\ (i - 1) + 1 = i
      OBVIOUS
  <2> QED
      BY <1>4, <2>1
<1>6. PairLast(r)
  <2>1. ASSUME NEW j \in 1 .. n - 1, r[j] = "pair"  PROVE j = n - 1
    <3>1. t[j + 1] = "pair" /\ j + 1 \in 1 .. n
        BY <1>4, <2>1
    <3>2. j + 1 = n
        BY <1>1, <1>2, <3>1 DEF PairLast
    <3> QED
        BY <3>2
  <2> QED
      BY <1>3, <1>4, <2>1 DEF PairLast
<1>7. (\E i \in DOMAIN t : t[i] = "pair") <=> \E j \in DOMAIN r : r[j] = "pair"
  <2>1. ASSUME NEW i \in 1 .. n, t[i] = "pair"  PROVE i \in 2 .. n
    <3>1. i # 1
        BY <2>1
    <3> QED
        BY <3>1
  <2>2. ASSUME NEW i \in 1 .. n, t[i] = "pair"  PROVE \E j \in 1 .. n - 1 : r[j] = "pair"
      BY <1>5, <2>1, <2>2
  <2>3. ASSUME NEW j \in 1 .. n - 1, r[j] = "pair"  PROVE \E i \in 1 .. n : t[i] = "pair"
      BY <1>4, <2>3
  <2> QED
      BY <1>2, <1>4, <2>2, <2>3
<1>8. Left(r) = Left(t) - 1 /\ Left(t) \in Nat /\ Left(t) >= 1
    BY <1>1, <1>3, <1>7 DEF Left
<1>9. RunOfP(t) => RunOfP(r)
    BY <1>2, <1>4 DEF RunOfP
<1>10. MiniGop(t) \/ Leaves(t) => Leaves(r)
  <2>1. \A j \in 1 .. n - 1 : j + 1 > 1
      OBVIOUS
  <2> QED
      BY <1>2, <1>4, <2>1 DEF MiniGop, Leaves
<1>11. r = <<>> <=> Len(t) = 1
  <2>1. r = <<>> <=> Len(r) = 0
      BY <1>3, EmptySeq
  <2> QED
      BY <1>1, <1>3, <2>1
<1> QED
    BY <1>1, <1>3, <1>6, <1>8, <1>9, <1>10, <1>11 DEF Tailed

\* A run of n pictures of one kind.
LEMMA RepeatIs ==
    ASSUME NEW kind \in Kinds, NEW n \in Nat
    PROVE  /\ Repeat(kind, n) \in Seq(Kinds) /\ Len(Repeat(kind, n)) = n
           /\ \A i \in 1 .. n : Repeat(kind, n)[i] = kind
<1>1. PICK t : t = Repeat(kind, n)
    OBVIOUS
<1>2. t \in [1 .. n -> Kinds] /\ \A i \in 1 .. n : t[i] = kind
    BY <1>1 DEF Repeat
<1>3. t \in Seq(Kinds) /\ Len(t) = n
    BY <1>2
<1> QED
    BY <1>1, <1>2, <1>3

\* A group the API thread may code.
GroupIs(g) ==
    /\ g \in Seq(Kinds) /\ g # <<>> /\ PairLast(g)
    /\ MiniGop(g) \/ RunOfP(g)

LEMMA MiniGopIs ==
    ASSUME TypeInv, NEW n \in 0 .. cfg.maxB, NEW g, g = <<"P">> \o Repeat("B", n)
    PROVE  GroupIs(g) /\ MiniGop(g) /\ "pair" \notin Range(g)
<1>1. cfg.maxB \in Nat /\ n \in Nat
    BY CfgIs DEF SettingIs
<1>2. PICK t : t = Repeat("B", n)
    OBVIOUS
<1>3. t \in Seq(Kinds) /\ Len(t) = n /\ \A i \in 1 .. n : t[i] = "B"
    BY <1>1, <1>2, RepeatIs DEF Kinds
<1>4. PICK h : h = <<"P">>
    OBVIOUS
<1>5. h \in Seq(Kinds) /\ Len(h) = 1 /\ h[1] = "P"
    BY <1>4 DEF Kinds
<1>6. /\ g \in Seq(Kinds) /\ Len(g) = n + 1
      /\ \A i \in 1 .. n + 1 : g[i] = IF i <= 1 THEN h[i] ELSE t[i - 1]
  <2>1. g = h \o t
      BY <1>2, <1>4
  <2>2. /\ g \in Seq(Kinds) /\ Len(g) = Len(h) + Len(t)
        /\ \A i \in 1 .. Len(h) + Len(t) : g[i] = IF i <= Len(h) THEN h[i] ELSE t[i - Len(h)]
    <3>1. /\ h \o t \in Seq(Kinds) /\ Len(h \o t) = Len(h) + Len(t)
          /\ \A i \in 1 .. Len(h) + Len(t) :
                 (h \o t)[i] = IF i <= Len(h) THEN h[i] ELSE t[i - Len(h)]
        BY <1>3, <1>5, ConcatProperties
    <3> QED
        BY <2>1, <3>1
  <2>3. Len(h) + Len(t) = n + 1
      BY <1>1, <1>3, <1>5
  <2> QED
      BY <1>5, <2>2, <2>3
<1>7. g[1] = "P" /\ \A i \in 2 .. n + 1 : g[i] = "B"
  <2>1. ASSUME NEW i \in 2 .. n + 1  PROVE g[i] = "B"
    <3>1. i - 1 \in 1 .. n /\ i \in 1 .. n + 1 /\ ~(i <= 1)
        BY <1>1
    <3> QED
        BY <1>3, <1>6, <3>1
  <2> QED
      BY <1>1, <1>5, <1>6, <2>1
<1>8. DOMAIN g = 1 .. n + 1
    BY <1>1, <1>6, LenProperties
<1>9. \A i \in 1 .. n + 1 : g[i] = IF i = 1 THEN "P" ELSE "B"
  <2>1. \A i \in 1 .. n + 1 : i = 1 \/ i \in 2 .. n + 1
      BY <1>1
  <2> QED
      BY <1>7, <2>1
<1>10. \A i \in DOMAIN g : g[i] # "pair"
    BY <1>8, <1>9
<1>11. Left(g) = n + 1 + 0
    BY <1>6, <1>10 DEF Left
<1>12. MiniGop(g)
    BY <1>1, <1>8, <1>9, <1>11 DEF MiniGop
<1>13. PairLast(g) /\ "pair" \notin Range(g)
    BY <1>10 DEF PairLast, Range
<1>14. g # <<>>
  <2>1. Len(g) # 0
      BY <1>1, <1>6
  <2> QED
      BY <2>1, EmptySeq
<1> QED
    BY <1>6, <1>12, <1>13, <1>14 DEF GroupIs

LEMMA PairGroupIs ==
    ASSUME TypeInv, cfg.maxB >= 3, NEW g, g = <<"P", "B", "pair">>
    PROVE  GroupIs(g)
<1>1. g \in Seq(Kinds) /\ Len(g) = 3 /\ DOMAIN g = 1 .. 3
    BY DEF Kinds
<1>2. g[1] = "P" /\ g[2] = "B" /\ g[3] = "pair"
    OBVIOUS
<1>3. PairLast(g) /\ \A i \in DOMAIN g : i > 1 => g[i] # "P"
    BY <1>1, <1>2 DEF PairLast
<1>4. Left(g) = 4
    BY <1>1, <1>2 DEF Left
<1>5. cfg.maxB \in Nat
    BY CfgIs DEF SettingIs
<1>6. MiniGop(g)
    BY <1>2, <1>3, <1>4, <1>5 DEF MiniGop
<1>7. g # <<>>
    OBVIOUS
<1> QED
    BY <1>1, <1>3, <1>6, <1>7 DEF GroupIs

LEMMA RunIs ==
    ASSUME NEW n \in Nat \ {0}, NEW g, g = Repeat("P", n)
    PROVE  GroupIs(g) /\ RunOfP(g)
<1>1. g \in Seq(Kinds) /\ Len(g) = n /\ \A i \in 1 .. n : g[i] = "P"
    BY RepeatIs DEF Kinds
<1>2. DOMAIN g = 1 .. n
    BY <1>1, LenProperties
<1>3. RunOfP(g) /\ PairLast(g)
    BY <1>1, <1>2 DEF RunOfP, PairLast
<1>4. g # <<>>
  <2>1. Len(g) # 0
      BY <1>1
  <2> QED
      BY <2>1, EmptySeq
<1> QED
    BY <1>1, <1>3, <1>4 DEF GroupIs

LEMMA SerialGroupIs ==
    ASSUME TypeInv, NEW g \in SerialGroups
    PROVE  GroupIs(g)
<1>0. cfg.maxB \in Nat
    BY CfgIs DEF SettingIs
<1>1. CASE \E n \in 0 .. cfg.maxB : g = <<"P">> \o Repeat("B", n)
    BY <1>1, MiniGopIs
<1>2. CASE \E n \in 1 .. cfg.maxB : g = Repeat("P", n)
  <2>1. PICK n \in 1 .. cfg.maxB : g = Repeat("P", n)
      BY <1>2
  <2>2. n \in Nat \ {0}
      BY <1>0
  <2> QED
      BY <2>1, <2>2, RunIs
<1>3. CASE cfg.maxB >= 3 /\ g = <<"P", "B", "pair">>
    BY <1>3, PairGroupIs
<1>4. \/ \E n \in 0 .. cfg.maxB : g = <<"P">> \o Repeat("B", n)
      \/ \E n \in 1 .. cfg.maxB : g = Repeat("P", n)
      \/ cfg.maxB >= 3 /\ g = <<"P", "B", "pair">>
  <2>1. \/ g \in {<<"P">> \o Repeat("B", n) : n \in 0 .. cfg.maxB}
        \/ g \in {Repeat("P", n) : n \in 1 .. cfg.maxB}
        \/ g \in IF cfg.maxB >= 3 THEN {<<"P", "B", "pair">>} ELSE {}
      BY DEF SerialGroups
  <2>2. g \in (IF cfg.maxB >= 3 THEN {<<"P", "B", "pair">>} ELSE {})
        => cfg.maxB >= 3 /\ g = <<"P", "B", "pair">>
      OBVIOUS
  <2>3. g \in {<<"P">> \o Repeat("B", n) : n \in 0 .. cfg.maxB}
        => \E n \in 0 .. cfg.maxB : g = <<"P">> \o Repeat("B", n)
      BY Zenon
  <2>4. g \in {Repeat("P", n) : n \in 1 .. cfg.maxB}
        => \E n \in 1 .. cfg.maxB : g = Repeat("P", n)
      BY Zenon
  <2> QED
      BY <2>1, <2>2, <2>3, <2>4, Zenon
<1> QED
    BY <1>1, <1>2, <1>3, <1>4

\* Where two leaves are taken one by one they are all that is left.
LEMMA UnpairedIs ==
    ASSUME NEW t \in Seq(Kinds), t # <<>>, PairLast(t), t[1] = "pair",
           NEW r, r = <<"B", "B">> \o Tail(t)
    PROVE  /\ Len(t) = 1 /\ Left(t) = 2
           /\ r \in Seq(Kinds) /\ r # <<>> /\ PairLast(r) /\ Leaves(r) /\ Left(r) = 2
<1>1. PICK n \in Nat \ {0} : n = Len(t) /\ DOMAIN t = 1 .. n
  <2>1. Len(t) \in Nat \ {0}
      BY EmptySeq
  <2> QED
      BY <2>1, LenProperties
<1>2. n = 1
    BY <1>1 DEF PairLast
<1>3. Left(t) = 2
    BY <1>1, <1>2 DEF Left
<1>4. Tail(t) = <<>>
  <2>1. Tail(t) \in Seq(Kinds) /\ Len(Tail(t)) = 0
      BY <1>1, <1>2, HeadTailProperties
  <2> QED
      BY <2>1, EmptySeq
<1>5. PICK h : h = <<"B", "B">>
    OBVIOUS
<1>6. h \in Seq(Kinds) /\ Len(h) = 2 /\ DOMAIN h = 1 .. 2 /\ h[1] = "B" /\ h[2] = "B"
    BY <1>5 DEF Kinds
<1>7. r = h
    BY <1>4, <1>5, <1>6, ConcatEmptySeq
<1>8. \A i \in DOMAIN h : h[i] = "B"
    BY <1>6
<1>9. Left(h) = 2 /\ PairLast(h) /\ Leaves(h)
    BY <1>6, <1>8 DEF Left, PairLast, Leaves
<1>10. h # <<>>
  <2>1. Len(h) # 0
      BY <1>6
  <2> QED
      BY <2>1, EmptySeq
<1> QED
    BY <1>1, <1>2, <1>3, <1>6, <1>7, <1>9, <1>10

LEMMA TodoPrime ==
    ASSUME cfg' = cfg, NEW p, p = pc', NEW t, t = todo', NEW s, s = seq',
           NEW a, a = anchorSeq', TodoAt(p, t, s, a)
    PROVE  TodoInv'
    BY DEF TodoInv, TodoAt, MiniGop

-----------------------------------------------------------------------------
(* Steps of the API thread that only move it on.                            *)

Deciding == {"decided", "coded", "sibling", "pair"}
Quiet == {"idle", "waitall", "drain", "emptied"}

\* How such a step moves the API thread.
PcMoves ==
    \/ pc' = pc
    \/ pc' = "failed"
    \/ /\ pc \notin Deciding /\ pc' \notin Deciding
       /\ \/ live = <<>>
          \/ pc \in Quiet /\ pc' \in Quiet
          \/ /\ pc \in {"idle", "bill"} /\ pc' \in {"bill", "ring"}
             /\ live # <<>> => Last(live).phase # "prep"

Frame == UNCHANGED <<cfg, rcp, acct, seq, anchorSeq, anchorHist, lost, live, w2, nals,
                     skipped, tight>>

\* A slice in flight during a flush call has had nothing written before it.
FlushKept ==
    flushing # "no" /\ w2.pic # None /\ (live # <<>> \/ pc \in {"bill", "ring"}) => NothingOut

Moved ==
    /\ Frame /\ PcMoves
    /\ pc = "failed" => pc' = "failed"
    /\ pc' \in LaunchPcs => pc \in LaunchPcs \/ ~cfg.vbv
    /\ pc' = "coded" <=> pc = "coded" /\ pc' # "failed"
    /\ pc' \in Pcs /\ todo' \in Seq(Kinds) /\ billing' \in Nat \ {0} /\ tries' \in Nat
    /\ mark' \in 0 .. Len(nals) /\ flushing' \in {"no", "popping", "popped", "tail"}
    /\ TodoInv' /\ PcInv' /\ FlushKept'

LEMMA MovedBursts ==
    ASSUME IInv, UNCHANGED <<cfg, seq, anchorSeq, live>>, w2'.pic \in {w2.pic, None}, PcMoves
    PROVE  BurstInv'
<1>1. /\ UNCHANGED <<cfg, seq, anchorSeq, live>>
      /\ Len(live) \in Nat /\ DOMAIN live = 1 .. Len(live) /\ (live = <<>> <=> Len(live) = 0)
    BY LiveIs
<1>2. ASSUME NEW i \in DOMAIN live  PROVE BurstOf(i)'
  <2>1. BurstOf(i)
      BY DEF IInv, BurstInv
  <2>2. live[i].phase = "armed" => pc' \in {"retire", "failed"}
    <3>1. ASSUME live[i].phase = "armed"  PROVE pc \in {"retire", "failed"} /\ live # <<>>
        BY <1>1, <2>1, <3>1 DEF BurstOf
    <3> QED
        BY <3>1 DEF PcMoves, Quiet
  <2>3. live[i].phase = "prep" => pc' \in {"idle", "waitall", "drain", "emptied", "failed"}
    <3>1. ASSUME live[i].phase = "prep"
          PROVE  /\ pc \in {"idle", "waitall", "drain", "emptied", "failed"} /\ live # <<>>
                 /\ Last(live).phase = "prep"
      <4>1. live # <<>> /\ i = Len(live) /\ pc \in {"idle", "waitall", "drain", "emptied", "failed"}
          BY <1>1, <2>1, <3>1 DEF BurstOf
      <4> QED
          BY <3>1, <4>1, NewestIs
    <3> QED
        BY <3>1 DEF PcMoves, Quiet
  <2> QED
      BY <1>1, <2>1, <2>2, <2>3 DEF BurstOf, End
<1>3. live # <<>> => seq = End(Last(live)) /\ anchorSeq = Last(live).anchor
    BY DEF IInv, BurstInv
<1>4. cfg.lag = 0 =>
         /\ live # <<>> => w2'.pic = None
         /\ \/ Len(live) <= 1
            \/ pc' \in {"retire", "failed"} /\ Len(live) = 2 /\ ~live[2].billed
  <2>1. ASSUME cfg.lag = 0
        PROVE  /\ live # <<>> => w2.pic = None
               /\ \/ Len(live) <= 1
                  \/ pc \in {"retire", "failed"} /\ Len(live) = 2 /\ ~live[2].billed
      BY <2>1 DEF IInv, BurstInv
  <2>2. pc \in {"retire", "failed"} /\ live # <<>> => pc' \in {"retire", "failed"}
      BY DEF PcMoves, Quiet
  <2>3. Len(live) = 2 => live # <<>>
      BY <1>1
  <2> QED
      BY <2>1, <2>2, <2>3
<1> QED
    BY <1>1, <1>2, <1>3, <1>4 DEF BurstInv, End

\* Where the first picture that is not out lies when nothing is decided or retired.
LEMMA FirstKept ==
    ASSUME UNCHANGED <<live, seq>>, pc' = pc \/ (pc \notin Deciding /\ pc' \notin Deciding)
    PROVE  FirstOwed' = FirstOwed
    BY DEF FirstOwed, Deciding

LEMMA NalsKept ==
    ASSUME NalsInv, UNCHANGED <<nals, skipped>>,
           pc' # "failed" => pc # "failed" /\ w2'.pic = w2.pic /\ FirstOwed' = FirstOwed
    PROVE  NalsInv'
<1>1. NalsInCodingOrder'
    BY DEF NalsInv, NalsInCodingOrder
<1>2. LastNal' = LastNal
    BY DEF LastNal
<1>3. pc' # "failed" => Settled' = Settled
    BY DEF Settled
<1> QED
    BY <1>1, <1>2, <1>3 DEF NalsInv

LEMMA MoveStep ==
    ASSUME IInv, Moved
    PROVE  IInv'
<1>1. /\ UNCHANGED <<cfg, rcp, acct, seq, anchorSeq, anchorHist, lost, live, w2, nals, skipped, tight>>
      /\ PcMoves /\ Frame /\ TodoInv' /\ PcInv' /\ FlushKept'
    BY DEF Moved, Frame
<1>2. TypeInv'
    BY <1>1 DEF IInv, TypeInv, Moved
<1>3. BurstInv'
  <2>1. w2'.pic \in {w2.pic, None}
      BY <1>1
  <2> QED
      BY <1>1, <2>1, MovedBursts
<1>4. pc' # "failed" => pc # "failed" /\ (pc' = pc \/ (pc \notin Deciding /\ pc' \notin Deciding))
  <2>1. PcMoves /\ (pc = "failed" => pc' = "failed")
      BY DEF Moved
  <2> QED
      BY <2>1 DEF PcMoves
<1>5. pc' # "failed" => FirstOwed' = FirstOwed
    BY <1>1, <1>4, FirstKept
<1>6. W2Inv'
  <2>1. w2'.done => w2'.pic # None
      BY <1>1 DEF IInv, W2Inv
  <2>2. pc' # "failed" /\ w2'.pic # None => w2'.pic = FirstOwed' - 1
      BY <1>1, <1>4, <1>5 DEF IInv, W2Inv
  <2> QED
      BY <1>1, <2>1, <2>2 DEF W2Inv, FlushKept
<1>7. NalsInv'
    BY <1>1, <1>4, <1>5, NalsKept DEF IInv
<1>8. pc' # "failed" => Owed' = Owed
  <2>1. ASSUME pc' # "failed"  PROVE ApiOwes' = ApiOwes
      BY <1>1, <1>4, <2>1 DEF ApiOwes, Deciding
  <2> QED
      BY <1>1, <2>1 DEF Owed
<1>9. LedgerInv' /\ HeadWaits' /\ HistInv'
    BY <1>1, <1>4, <1>8, IdleStep DEF LedgerNext
<1>10. RoomInv'
    BY <1>1 DEF IInv, RoomInv
<1>11. TightInv'
    BY <1>1, <1>4 DEF IInv, TightInv, Moved
<1> QED
    BY <1>1, <1>2, <1>3, <1>6, <1>7, <1>9, <1>10, <1>11 DEF IInv

\* The facts about the API thread these steps need.
LEMMA ApiIs ==
    ASSUME IInv
    PROVE  /\ pc \in Pcs /\ todo \in Seq(Kinds) /\ billing \in Nat \ {0} /\ tries \in Nat
           /\ mark \in 0 .. Len(nals) /\ flushing \in {"no", "popping", "popped", "tail"}
           /\ Len(nals) \in Nat /\ Len(live) \in Nat /\ (live = <<>> <=> Len(live) = 0)
           /\ TodoAt(pc, todo, seq, anchorSeq) /\ PcInv /\ FlushKept
    BY LiveIs DEF IInv, TypeInv, TodoInv, W2Inv, FlushKept

LEMMA StartSerialMoves ==
    ASSUME IInv, NEW g \in SerialGroups, StartSerial(g)
    PROVE  Moved
<1>1. /\ pc = "idle" /\ pc' = DrainAllFrom /\ todo' = g
      /\ UNCHANGED <<cfg, rcp, acct, seq, anchorSeq, anchorHist, lost, live, w2, nals, skipped,
                     billing, tight, tries, flushing, mark>>
    BY DEF StartSerial, MayStart, ledger
<1>2. GroupIs(g)
    BY SerialGroupIs DEF IInv
<1>3. pc' \in {"waitall", "drain"} /\ (pc' = "drain" => Len(live) <= 1)
    BY <1>1, ApiIs DEF DrainAllFrom
<1>4. Frame /\ PcMoves
    BY <1>1, <1>3 DEF Frame, PcMoves, Quiet, Deciding
<1>5. TodoInv'
  <2>1. \A p \in {"waitall", "drain"} : TodoAt(p, g, seq, anchorSeq)
      BY <1>2, ApiIs DEF TodoAt, GroupIs, LaunchPcs
  <2> QED
      BY <1>1, <1>3, <2>1, TodoPrime
<1>6. PcInv'
    BY <1>1, <1>3 DEF PcInv, SerialPcs
<1>7. FlushKept'
    BY <1>1, <1>3, ApiIs DEF FlushKept, NothingOut
<1> QED
    BY <1>1, <1>2, <1>3, <1>4, <1>5, <1>6, <1>7, ApiIs DEF Moved, Pcs, LaunchPcs, GroupIs

LEMMA StartBurstMoves ==
    ASSUME IInv, NEW n \in 1 .. cfg.maxB, StartBurst(n)
    PROVE  Moved
<1>1. /\ pc = "idle" /\ pc' = "bill" /\ todo' = <<"P">> \o Repeat("B", n) /\ billing' = 1
      /\ UNCHANGED <<cfg, rcp, acct, seq, anchorSeq, anchorHist, lost, live, w2, nals, skipped,
                     tight, tries, flushing, mark>>
      /\ ~cfg.vbv /\ (live # <<>> => Last(live).phase # "prep")
      /\ (flushing = "no" \/ NothingOut)
    BY DEF StartBurst, MayStart, ledger
<1>2. GroupIs(todo') /\ MiniGop(todo') /\ "pair" \notin Range(todo')
  <2>1. n \in 0 .. cfg.maxB
      OBVIOUS
  <2>2. PICK g : g = <<"P">> \o Repeat("B", n)
      OBVIOUS
  <2>3. GroupIs(g) /\ MiniGop(g) /\ "pair" \notin Range(g)
      BY <2>1, <2>2, MiniGopIs DEF IInv
  <2> QED
      BY <1>1, <2>2, <2>3
<1>3. Frame /\ PcMoves
    BY <1>1 DEF Frame, PcMoves, Deciding
<1>4. TodoInv'
  <2>1. TodoAt("bill", todo', seq, anchorSeq)
      BY <1>2, ApiIs DEF TodoAt, GroupIs
  <2> QED
      BY <1>1, <2>1, TodoPrime
<1>5. PcInv'
    BY <1>1 DEF PcInv, SerialPcs
<1>6. FlushKept'
    BY <1>1 DEF FlushKept, NothingOut
<1> QED
    BY <1>1, <1>2, <1>3, <1>4, <1>5, <1>6, ApiIs DEF Moved, Pcs, LaunchPcs, GroupIs

LEMMA UnpairMoves ==
    ASSUME IInv, Unpair
    PROVE  Moved
<1>1. /\ pc = "serial" /\ pc' = pc /\ Head(todo) = "pair" /\ todo' = <<"B", "B">> \o Tail(todo)
      /\ UNCHANGED <<cfg, rcp, acct, seq, anchorSeq, anchorHist, lost, live, w2, nals, skipped,
                     billing, tight, tries, flushing, mark>>
    BY DEF Unpair, ledger
<1>2. /\ live = <<>> /\ todo # <<>> /\ todo \in Seq(Kinds) /\ PairLast(todo) /\ todo[1] = "pair"
    BY <1>1, ApiIs DEF PcInv, SerialPcs, TodoAt
<1>3. PICK r : r = <<"B", "B">> \o Tail(todo)
    OBVIOUS
<1>4. /\ Len(todo) = 1 /\ Left(todo) = 2
      /\ r \in Seq(Kinds) /\ r # <<>> /\ PairLast(r) /\ Leaves(r) /\ Left(r) = 2
    BY <1>2, <1>3, UnpairedIs
<1>5. Leaves(todo) /\ seq > 0 /\ seq - anchorSeq + Left(todo) <= cfg.maxB
  <2>1. 1 \in DOMAIN todo
      BY <1>4, <1>2, LenProperties
  <2>2. ~MiniGop(todo) /\ ~RunOfP(todo)
      BY <1>2, <2>1 DEF MiniGop, RunOfP
  <2> QED
      BY <1>1, <2>2, ApiIs DEF TodoAt
<1>6. TodoInv'
  <2>1. TodoAt("serial", r, seq, anchorSeq)
      BY <1>1, <1>4, <1>5, ApiIs DEF TodoAt, LaunchPcs
  <2> QED
      BY <1>1, <1>3, <2>1, TodoPrime
<1>7. PcInv'
    BY <1>1, <1>2, <1>3, <1>4 DEF PcInv, SerialPcs
<1>8. Frame /\ PcMoves
    BY <1>1 DEF Frame, PcMoves
<1>9. FlushKept'
    BY <1>1, ApiIs DEF FlushKept, NothingOut
<1> QED
    BY <1>1, <1>3, <1>4, <1>6, <1>7, <1>8, <1>9, ApiIs DEF Moved, LaunchPcs

\* An encode that fails stops where it is.
LEMMA FailMoves ==
    ASSUME IInv, pc' = "failed",
           UNCHANGED <<cfg, rcp, acct, seq, anchorSeq, anchorHist, lost, live, w2, nals, skipped,
                       todo, billing, tight, tries, flushing, mark>>
    PROVE  Moved
<1>1. Frame /\ PcMoves
    BY DEF Frame, PcMoves
<1>2. TodoInv'
  <2>1. TodoAt("failed", todo, seq, anchorSeq)
      BY ApiIs DEF TodoAt, LaunchPcs
  <2> QED
      BY <2>1, TodoPrime
<1>3. PcInv'
    BY DEF PcInv, SerialPcs
<1>4. FlushKept'
    BY ApiIs DEF FlushKept, NothingOut
<1> QED
    BY <1>1, <1>2, <1>3, <1>4, ApiIs DEF Moved, Pcs, LaunchPcs

LEMMA CodeTailMoves ==
    ASSUME IInv, NEW n \in 1 .. cfg.maxB, CodeTail(n)
    PROVE  Moved
<1>1. /\ pc = "emptied" /\ pc' = "serial" /\ todo' = Repeat("P", n) /\ flushing' = "tail"
      /\ UNCHANGED <<cfg, rcp, acct, seq, anchorSeq, anchorHist, lost, live, w2, nals, skipped,
                     billing, tight, tries, mark>>
      /\ NothingOut
    BY DEF CodeTail, ledger
<1>2. live = <<>>
    BY <1>1, ApiIs DEF PcInv
<1>3. GroupIs(todo') /\ RunOfP(todo')
  <2>1. n \in Nat \ {0}
      BY CfgIs DEF IInv, SettingIs
  <2> QED
      BY <1>1, <2>1, RunIs
<1>4. Frame /\ PcMoves
    BY <1>1, <1>2 DEF Frame, PcMoves, Deciding
<1>5. TodoInv'
  <2>1. TodoAt("serial", todo', seq, anchorSeq)
      BY <1>3, ApiIs DEF TodoAt, GroupIs, LaunchPcs
  <2> QED
      BY <1>1, <2>1, TodoPrime
<1>6. PcInv'
    BY <1>1, <1>2, <1>3 DEF PcInv, SerialPcs, GroupIs
<1>7. FlushKept'
    BY <1>1, <1>2 DEF FlushKept
<1> QED
    BY <1>1, <1>3, <1>4, <1>5, <1>6, <1>7, ApiIs DEF Moved, Pcs, LaunchPcs, GroupIs

\* The billing loop passes a burst, and ends.
LEMMA BillingMoves ==
    ASSUME IInv, SkipBilled \/ Billed
    PROVE  Moved
<1>1. /\ pc = "bill" /\ pc' \in {"bill", "ring"} /\ billing' \in {billing, billing + 1}
      /\ UNCHANGED <<cfg, rcp, acct, seq, anchorSeq, anchorHist, lost, live, w2, nals, skipped,
                     todo, tight, tries, flushing, mark>>
  <2>1. CASE SkipBilled
      BY <2>1 DEF SkipBilled, ToBill, ledger
  <2>2. CASE Billed
      BY <2>2 DEF Billed, ledger
  <2> QED
      BY <2>1, <2>2
<1>2. live # <<>> => Last(live).phase # "prep"
  <2>1. ASSUME live # <<>>  PROVE Last(live).phase # "prep"
    <3>1. Len(live) \in 1 .. Len(live) /\ Last(live) = live[Len(live)]
        BY <2>1, NewestIs
    <3>2. BurstOf(Len(live))
        BY <3>1, LiveIs
    <3> QED
        BY <1>1, <3>1, <3>2 DEF BurstOf
  <2> QED
      BY <2>1
<1>3. Frame /\ PcMoves
    BY <1>1, <1>2 DEF Frame, PcMoves, Deciding
<1>4. TodoInv'
  <2>1. \A p \in {"bill", "ring"} : TodoAt(p, todo, seq, anchorSeq)
      BY <1>1, ApiIs DEF TodoAt, LaunchPcs
  <2> QED
      BY <1>1, <2>1, TodoPrime
<1>5. PcInv'
    BY <1>1 DEF PcInv, SerialPcs
<1>6. FlushKept'
    BY <1>1, ApiIs DEF FlushKept, NothingOut
<1>7. billing' \in Nat \ {0}
    BY <1>1, ApiIs
<1> QED
    BY <1>1, <1>3, <1>4, <1>5, <1>6, <1>7, ApiIs DEF Moved, Pcs, LaunchPcs

LEMMA WaitAllMoves ==
    ASSUME IInv, WaitAll
    PROVE  Moved
<1>1. /\ pc = "waitall" /\ pc' = "drain" /\ Preparing = {}
      /\ UNCHANGED <<cfg, rcp, acct, seq, anchorSeq, anchorHist, lost, live, w2, nals, skipped,
                     todo, billing, tight, tries, flushing, mark>>
    BY DEF WaitAll, ledger
<1>2. Frame /\ PcMoves
    BY <1>1 DEF Frame, PcMoves, Quiet, Deciding
<1>3. TodoInv'
  <2>1. TodoAt("drain", todo, seq, anchorSeq)
      BY <1>1, ApiIs DEF TodoAt, LaunchPcs
  <2> QED
      BY <1>1, <2>1, TodoPrime
<1>4. PcInv'
    BY <1>1 DEF PcInv, SerialPcs, Preparing
<1>5. FlushKept'
    BY <1>1, ApiIs DEF FlushKept, NothingOut
<1> QED
    BY <1>1, <1>2, <1>3, <1>4, <1>5, ApiIs DEF Moved, Pcs, LaunchPcs

LEMMA DrainedMoves ==
    ASSUME IInv, Drained
    PROVE  Moved
<1>1. /\ pc = "drain" /\ live = <<>> /\ pc' \in {"emptied", "gate", "serial"}
      /\ pc' = "emptied" <=> todo = <<>>
      /\ pc' = "gate" => cfg.vbv
      /\ UNCHANGED <<cfg, rcp, acct, seq, anchorSeq, anchorHist, lost, live, w2, nals, skipped,
                     todo, billing, tight, tries, flushing, mark>>
    BY DEF Drained, ledger
<1>2. Frame /\ PcMoves
    BY <1>1 DEF Frame, PcMoves, Deciding
<1>3. TodoInv'
  <2>1. \A p \in {"gate", "serial"} : todo # <<>> => TodoAt(p, todo, seq, anchorSeq)
      BY <1>1, ApiIs DEF TodoAt, LaunchPcs
  <2>2. TodoAt("emptied", todo, seq, anchorSeq)
      BY <1>1, ApiIs DEF TodoAt, LaunchPcs
  <2> QED
      BY <1>1, <2>1, <2>2, TodoPrime
<1>4. PcInv'
    BY <1>1 DEF PcInv, SerialPcs
<1>5. FlushKept'
    BY <1>1 DEF FlushKept
<1> QED
    BY <1>1, <1>2, <1>3, <1>4, <1>5, ApiIs DEF Moved, Pcs, LaunchPcs

LEMMA FlushBeginMoves ==
    ASSUME IInv, FlushBegin
    PROVE  Moved
<1>1. /\ pc = "idle" /\ pc' = pc /\ flushing' = "popping" /\ mark' = Len(nals)
      /\ UNCHANGED <<cfg, rcp, acct, seq, anchorSeq, anchorHist, lost, live, w2, nals, skipped,
                     todo, billing, tight, tries>>
    BY DEF FlushBegin, ledger
<1>2. Frame /\ PcMoves
    BY <1>1 DEF Frame, PcMoves
<1>3. TodoInv'
    BY <1>1, ApiIs, TodoPrime
<1>4. PcInv'
    BY <1>1, ApiIs DEF PcInv, SerialPcs
<1>5. FlushKept'
    BY <1>1 DEF FlushKept, NothingOut
<1>6. mark' \in 0 .. Len(nals)
    BY <1>1, ApiIs
<1> QED
    BY <1>1, <1>2, <1>3, <1>4, <1>5, <1>6, ApiIs DEF Moved, LaunchPcs

LEMMA FlushTailMoves ==
    ASSUME IInv, FlushTail
    PROVE  Moved
<1>1. /\ pc = "idle" /\ flushing # "no"
      /\ pc' = IF NothingOut THEN DrainAllFrom ELSE "emptied"
      /\ flushing' \in {flushing, "popped"}
      /\ UNCHANGED <<cfg, rcp, acct, seq, anchorSeq, anchorHist, lost, live, w2, nals, skipped,
                     todo, billing, tight, tries, mark>>
    BY DEF FlushTail, ledger
<1>2. /\ pc' \in {"waitall", "drain", "emptied"} /\ (pc' = "drain" => Len(live) <= 1)
      /\ pc' = "emptied" => ~NothingOut
    BY <1>1, ApiIs DEF DrainAllFrom
<1>3. Frame /\ PcMoves
    BY <1>1, <1>2 DEF Frame, PcMoves, Quiet, Deciding
<1>4. todo = <<>>
    BY <1>1, ApiIs DEF PcInv
<1>5. TodoInv'
  <2>1. \A p \in {"waitall", "drain", "emptied"} : TodoAt(p, todo, seq, anchorSeq)
      BY <1>4, ApiIs DEF TodoAt, LaunchPcs
  <2> QED
      BY <1>1, <1>2, <2>1, TodoPrime
<1>6. PcInv'
    BY <1>1, <1>2, <1>4 DEF PcInv, SerialPcs, NothingOut
<1>7. FlushKept'
    BY <1>1, <1>2, ApiIs DEF FlushKept, NothingOut
<1> QED
    BY <1>1, <1>2, <1>3, <1>5, <1>6, <1>7, ApiIs DEF Moved, Pcs, LaunchPcs

LEMMA StutterMoves ==
    ASSUME IInv, UNCHANGED vars
    PROVE  Moved
<1>1. /\ UNCHANGED <<cfg, rcp, acct, seq, anchorSeq, anchorHist, lost, live, w2, nals, skipped,
                     tight>>
      /\ UNCHANGED <<pc, todo, billing, tries, flushing, mark>>
    BY DEF vars
<1>2. Frame /\ PcMoves
    BY <1>1 DEF Frame, PcMoves
<1>3. TodoInv'
    BY <1>1, ApiIs, TodoPrime
<1>4. PcInv'
    BY <1>1, ApiIs DEF PcInv, SerialPcs, NothingOut, Preparing, Bounded
<1>5. FlushKept'
    BY <1>1, ApiIs DEF FlushKept, NothingOut
<1> QED
    BY <1>1, <1>2, <1>3, <1>4, <1>5, ApiIs DEF Moved, LaunchPcs

-----------------------------------------------------------------------------
(* Steps of one burst that leave its pictures alone.                        *)

Ticked(b, c) ==
    /\ c \in Burst /\ c.anchor = b.anchor /\ c.nb = b.nb /\ c.bs = b.bs
    /\ \/ c.phase = b.phase
       \/ b.phase # "armed" /\ c.phase \notin {"armed", "prep"}

Ticks(i) ==
    /\ live' \in Seq(Burst) /\ Len(live') = Len(live) /\ DOMAIN live' = DOMAIN live
    /\ \A j \in DOMAIN live : j # i => live'[j] = live[j]
    /\ Ticked(live[i], live'[i])

LEMMA TicksIs ==
    ASSUME IInv, NEW i \in DOMAIN live, NEW c, live' = [live EXCEPT ![i] = c], Ticked(live[i], c)
    PROVE  Ticks(i) /\ live'[i] = c
<1>1. live \in Seq(Burst) /\ i \in 1 .. Len(live) /\ c \in Burst
    BY LiveIs DEF IInv, TypeInv, Ticked
<1>2. /\ live' \in Seq(Burst) /\ Len(live') = Len(live) /\ DOMAIN live' = DOMAIN live
      /\ live'[i] = c
      /\ \A j \in DOMAIN live : j # i => live'[j] = live[j]
    BY <1>1, ExceptSeq, LenProperties
<1> QED
    BY <1>2 DEF Ticks

LEMMA TicksAll ==
    ASSUME IInv, NEW i \in DOMAIN live, Ticks(i)
    PROVE  \A j \in DOMAIN live : Ticked(live[j], live'[j])
<1>1. ASSUME NEW j \in DOMAIN live  PROVE Ticked(live[j], live'[j])
  <2>1. CASE j = i
      BY <2>1 DEF Ticks
  <2>2. CASE j # i
    <3>1. live'[j] = live[j] /\ live[j] \in Burst
        BY <2>2, LiveIs DEF Ticks, BurstIs
    <3> QED
        BY <3>1 DEF Ticked
  <2> QED
      BY <2>1, <2>2
<1> QED
    BY <1>1

LEMMA TickedBursts ==
    ASSUME IInv, NEW i \in DOMAIN live, Ticks(i), UNCHANGED <<cfg, seq, anchorSeq, w2, pc>>,
           live'[i].billed = live[i].billed \/ pc = "bill"
    PROVE  BurstInv'
<1>1. /\ Len(live) \in Nat /\ DOMAIN live = 1 .. Len(live)
      /\ Len(live') = Len(live) /\ DOMAIN live' = DOMAIN live
    BY LiveIs DEF Ticks
<1>2. \A j \in DOMAIN live : Ticked(live[j], live'[j])
    BY TicksAll
<1>3. \A j \in DOMAIN live : live'[j].anchor = live[j].anchor /\ End(live'[j]) = End(live[j])
    BY <1>2 DEF Ticked, End
<1>4. ASSUME NEW j \in DOMAIN live'  PROVE BurstOf(j)'
  <2>1. j \in DOMAIN live /\ BurstOf(j)
      BY <1>1 DEF IInv, BurstInv
  <2>2. /\ live'[j].anchor > 0 /\ Len(live'[j].bs) <= live'[j].nb /\ live'[j].nb <= cfg.maxB
        /\ \A k \in DOMAIN live'[j].bs : live'[j].bs[k] = live'[j].anchor + k
      BY <1>2, <2>1 DEF BurstOf, Ticked
  <2>3. live'[j].phase = "armed" =>
            j = Len(live) /\ pc \in {"retire", "failed"} /\ live'[j].bs = <<>>
      BY <1>2, <2>1 DEF BurstOf, Ticked
  <2>4. live'[j].phase = "prep" =>
            j = Len(live) /\ pc \in {"idle", "waitall", "drain", "emptied", "failed"}
      BY <1>2, <2>1 DEF BurstOf, Ticked
  <2>5. j < Len(live) => live'[j + 1].anchor = End(live'[j]) + 1
    <3>1. j < Len(live) => j + 1 \in DOMAIN live
        BY <1>1, <2>1
    <3> QED
        BY <1>3, <2>1, <3>1 DEF BurstOf
  <2>6. \A k \in DOMAIN live : j < k => End(live'[j]) < live'[k].anchor
      BY <1>3, <2>1 DEF BurstOf
  <2> QED
      BY <1>1, <2>2, <2>3, <2>4, <2>5, <2>6 DEF BurstOf, End
<1>5. Last(live') = live'[Len(live)]
    BY <1>1 DEF Last
<1>6. live' # <<>> => seq = End(Last(live')) /\ anchorSeq = Last(live').anchor
  <2>1. ASSUME live' # <<>>  PROVE seq = End(Last(live')) /\ anchorSeq = Last(live').anchor
    <3>1. live # <<>>
      <4>1. Len(live') # 0
          BY <2>1, EmptySeq DEF Ticks
      <4> QED
          BY <1>1, <4>1, LiveIs
    <3>2. /\ Len(live) \in DOMAIN live /\ seq = End(live[Len(live)])
          /\ anchorSeq = live[Len(live)].anchor
        BY <1>1, <3>1, NewestIs
    <3> QED
        BY <1>3, <1>5, <3>2
  <2> QED
      BY <2>1
<1>7. cfg.lag = 0 =>
         /\ live' # <<>> => w2.pic = None
         /\ \/ Len(live') <= 1
            \/ pc \in {"retire", "failed"} /\ Len(live') = 2 /\ ~live'[2].billed
  <2>1. live # <<>>
      BY <1>1, LiveIs
  <2>2. ASSUME cfg.lag = 0
        PROVE  /\ w2.pic = None
               /\ \/ Len(live) <= 1
                  \/ pc \in {"retire", "failed"} /\ Len(live) = 2 /\ ~live[2].billed
      BY <2>1, <2>2 DEF IInv, BurstInv
  <2>3. Len(live) = 2 /\ pc # "bill" => live'[2].billed = live[2].billed
    <3>1. CASE i = 2
        BY <3>1
    <3>2. CASE i # 2
        BY <1>1, <3>2 DEF Ticks
    <3> QED
        BY <3>1, <3>2
  <2> QED
      BY <1>1, <2>2, <2>3
<1> QED
    BY <1>1, <1>4, <1>5, <1>6, <1>7 DEF BurstInv, End

\* Such a step keeps the invariant if it keeps the ledger.
LEMMA TickRest ==
    ASSUME IInv, NEW i \in DOMAIN live, Ticks(i), LedgerNext,
           UNCHANGED <<cfg, seq, anchorSeq, w2, nals, skipped, pc, todo, tight, tries,
                       flushing, mark>>,
           live'[i].billed = live[i].billed \/ pc = "bill", billing' \in Nat \ {0}
    PROVE  IInv'
<1>1. /\ Len(live) \in Nat \ {0} /\ DOMAIN live = 1 .. Len(live) /\ live # <<>> /\ live' # <<>>
      /\ Len(live') = Len(live) /\ DOMAIN live' = DOMAIN live
  <2>1. Len(live) \in Nat \ {0} /\ DOMAIN live = 1 .. Len(live) /\ live # <<>>
      BY LiveIs
  <2>2. Len(live') # 0
      BY <2>1 DEF Ticks
  <2> QED
      BY <2>1, <2>2, EmptySeq DEF Ticks
<1>2. \A j \in DOMAIN live : Ticked(live[j], live'[j])
    BY TicksAll
<1>3. TypeInv'
    BY DEF IInv, TypeInv, LedgerNext, Ticks
<1>4. BurstInv'
    BY TickedBursts
<1>5. Preparing' \subseteq Preparing
    BY <1>1, <1>2 DEF Preparing, Ticked
<1>6. Last(live) = live[Len(live)] /\ Last(live') = live'[Len(live)]
    BY <1>1 DEF Last
<1>7. Ticked(Last(live), Last(live'))
    BY <1>1, <1>2, <1>6
<1>8. pc \notin {"done", "serial", "decided", "coded", "sibling", "pair", "gate"}
    BY <1>1, ApiIs DEF PcInv, SerialPcs
<1>9. PcInv'
  <2>1. PcInv
      BY ApiIs
  <2>2. pc = "retire" => /\ Last(live').phase = "armed"
                         /\ Last(live').nb = Len(todo) - 1
      BY <1>7, <2>1 DEF PcInv, Ticked
  <2>3. pc = "drain" => Len(live') <= 1 \/ Preparing' = {}
      BY <1>1, <1>5, <2>1 DEF PcInv
  <2>4. pc = "emptied" => ~NothingOut
      BY <1>1, <2>1 DEF PcInv
  <2>5. pc \in {"idle", "emptied", "done"} => todo = <<>>
      BY <2>1 DEF PcInv
  <2> QED
      BY <1>1, <1>8, <2>2, <2>3, <2>4, <2>5 DEF PcInv, SerialPcs, NothingOut
<1>10. TodoInv'
    BY ApiIs, TodoPrime
<1>11. FirstOwed' = FirstOwed
  <2>1. live'[1].anchor = live[1].anchor
      BY <1>1, <1>2 DEF Ticked
  <2> QED
      BY <1>1, <2>1 DEF FirstOwed
<1>12. W2Inv'
    BY <1>1, <1>11 DEF IInv, W2Inv, NothingOut
<1>13. NalsInv'
    BY <1>11, NalsKept DEF IInv
<1>14. RoomInv'
  <2>1. lost' = {} /\ Len(rcp') <= Len(rcp) /\ Len(rcp) \in Nat /\ Len(rcp') \in Nat
    <3>1. Len(rcp') <= Len(rcp) + (seq' - seq) /\ lost' = lost /\ rcp' \in Seq(Entry)
        BY DEF LedgerNext
    <3>2. seq' - seq = 0 /\ Len(rcp) \in Nat /\ lost = {}
        BY DEF IInv, TypeInv, RoomInv
    <3> QED
        BY <3>1, <3>2
  <2>2. ASSUME Last(live').phase \in {"armed", "prep"}
        PROVE  Len(rcp) + Last(live').nb - Len(Last(live').bs) <= cfg.rcpMax
    <3>1. /\ Last(live).phase = Last(live').phase /\ Last(live').nb = Last(live).nb
          /\ Last(live').bs = Last(live).bs
        BY <1>7, <2>2 DEF Ticked
    <3> QED
        BY <1>1, <2>2, <3>1 DEF IInv, RoomInv
  <2>3. Last(live').nb \in Nat /\ Len(Last(live').bs) \in Nat /\ cfg.rcpMax \in Nat
    <3>1. Last(live') \in Burst
        BY <1>7 DEF Ticked
    <3> QED
        BY <3>1, CfgIs DEF IInv, SettingIs, Burst
  <2> QED
      BY <2>1, <2>2, <2>3 DEF RoomInv
<1>15. TightInv'
    BY <1>1 DEF IInv, TightInv
<1> QED
    BY <1>3, <1>4, <1>9, <1>10, <1>12, <1>13, <1>14, <1>15 DEF IInv, LedgerNext

LEMMA TickStep ==
    ASSUME IInv, NEW i \in DOMAIN live, Ticks(i), live'[i].billed = live[i].billed,
           UNCHANGED <<cfg, rcp, acct, seq, anchorSeq, anchorHist, lost, w2, nals, skipped,
                       pc, todo, billing, tight, tries, flushing, mark>>
    PROVE  IInv'
<1>1. \A j \in DOMAIN live : /\ live'[j].anchor = live[j].anchor
                             /\ live'[j].bs = live[j].bs /\ live'[j].billed = live[j].billed
  <2>1. ASSUME NEW j \in DOMAIN live
        PROVE  /\ live'[j].anchor = live[j].anchor
               /\ live'[j].bs = live[j].bs /\ live'[j].billed = live[j].billed
    <3>1. Ticked(live[j], live'[j])
        BY TicksAll
    <3>2. live'[j].billed = live[j].billed
      <4>1. CASE j = i
          BY <4>1
      <4>2. CASE j # i
          BY <4>2 DEF Ticks
      <4> QED
          BY <4>1, <4>2
    <3> QED
        BY <3>1, <3>2 DEF Ticked
  <2> QED
      BY <2>1
<1>2. DOMAIN live' = DOMAIN live /\ \A j \in DOMAIN live : BurstOwes(live'[j]) = BurstOwes(live[j])
    BY <1>1 DEF Ticks, BurstOwes, End
<1>3. Owed' = Owed
  <2>1. ApiOwes' = ApiOwes
      BY DEF ApiOwes
  <2> QED
      BY <1>2, <2>1 DEF Owed
<1>4. LedgerNext
    BY <1>3, IdleStep
<1>5. billing' \in Nat \ {0}
    BY ApiIs
<1> QED
    BY <1>4, <1>5, TickRest

LEMMA RunnerTicks ==
    ASSUME IInv, NEW i \in DOMAIN live, RunnerDone(i)
    PROVE  IInv'
<1>1. /\ UNCHANGED <<cfg, rcp, acct, seq, anchorSeq, anchorHist, lost, w2, nals, skipped,
                     pc, todo, billing, tight, tries, flushing, mark>>
      /\ \E r \in {"sized", "overflow"} : live' = [live EXCEPT ![i] = [live[i] EXCEPT !.runner = r]]
  <2>1. PICK ok \in Outcomes :
            live' = [live EXCEPT ![i].runner = IF ok THEN "sized" ELSE "overflow"]
      BY DEF RunnerDone
  <2>2. PICK r \in {"sized", "overflow"} : r = IF ok THEN "sized" ELSE "overflow"
      OBVIOUS
  <2>3. live' = [live EXCEPT ![i] = [live[i] EXCEPT !.runner = r]]
      BY <2>1, <2>2
  <2> QED
      BY <2>3 DEF RunnerDone, ledger
<1>2. PICK c : live' = [live EXCEPT ![i] = c] /\
               \E r \in {"sized", "overflow"} : c = [live[i] EXCEPT !.runner = r]
    BY <1>1
<1>3. live[i] \in Burst
    BY LiveIs DEF BurstIs
<1>4. Ticked(live[i], c) /\ c.billed = live[i].billed
    BY <1>2, <1>3 DEF Ticked, Burst
<1>5. Ticks(i) /\ live'[i] = c
    BY <1>2, <1>4, TicksIs
<1> QED
    BY <1>1, <1>4, <1>5, TickStep

LEMMA ChainTicks ==
    ASSUME IInv, NEW i \in DOMAIN live, ChainFires(i) \/ ChainEnds(i)
    PROVE  IInv'
<1>1. /\ UNCHANGED <<cfg, rcp, acct, seq, anchorSeq, anchorHist, lost, w2, nals, skipped,
                     pc, todo, billing, tight, tries, flushing, mark>>
      /\ live[i].phase \in {"prep", "encode"}
      /\ \E p \in {"encode", "done"}, e \in BOOLEAN :
             live' = [live EXCEPT ![i] = [live[i] EXCEPT !.phase = p, !.err = e]]
  <2>1. CASE ChainFires(i)
    <3>1. live' = [live EXCEPT ![i] = [live[i] EXCEPT !.phase = "encode", !.err = live[i].err]]
          /\ live[i].err \in BOOLEAN
      <4>1. live[i] \in Burst
          BY LiveIs DEF BurstIs
      <4>2. [live[i] EXCEPT !.phase = "encode", !.err = live[i].err]
            = [live[i] EXCEPT !.phase = "encode"]
          BY <4>1 DEF Burst
      <4> QED
          BY <2>1, <4>1, <4>2 DEF ChainFires, Burst
    <3> QED
        BY <2>1, <3>1 DEF ChainFires, ledger
  <2>2. CASE ChainEnds(i)
    <3>1. PICK ok \in BOOLEAN : live' = [live EXCEPT ![i].phase = "done", ![i].err = ~ok]
        BY <2>2 DEF ChainEnds, Outcomes
    <3>2. live' = [live EXCEPT ![i] = [live[i] EXCEPT !.phase = "done", !.err = ~ok]]
        BY <3>1
    <3>3. (~ok) \in BOOLEAN
        OBVIOUS
    <3> QED
        BY <2>2, <3>2, <3>3 DEF ChainEnds, ledger
  <2> QED
      BY <2>1, <2>2
<1>2. PICK c : live' = [live EXCEPT ![i] = c] /\
               \E p \in {"encode", "done"}, e \in BOOLEAN :
                   c = [live[i] EXCEPT !.phase = p, !.err = e]
    BY <1>1
<1>3. live[i] \in Burst
    BY LiveIs DEF BurstIs
<1>4. Ticked(live[i], c) /\ c.billed = live[i].billed
    BY <1>1, <1>2, <1>3 DEF Ticked, Burst
<1>5. Ticks(i) /\ live'[i] = c
    BY <1>2, <1>4, TicksIs
<1> QED
    BY <1>1, <1>4, <1>5, TickStep

LEMMA BillAnchorNext ==
    ASSUME IInv, BillAnchor
    PROVE  IInv'
<1>1. /\ pc = "bill" /\ billing <= Len(live) - cfg.lag
      /\ live' = [live EXCEPT ![billing].billed = TRUE]
      /\ billing' = billing + 1
      /\ UNCHANGED <<cfg, w2, nals, skipped, pc, todo, tight, tries, flushing, mark>>
      /\ Record(<<Size(live[billing].anchor)>>)
    BY DEF BillAnchor, NeedsBill, ToBill
<1>2. UNCHANGED <<seq, anchorSeq>>
    BY <1>1 DEF Record
<1>3. PICK i \in DOMAIN live : i = billing
  <2>1. Len(live) \in Nat /\ DOMAIN live = 1 .. Len(live) /\ billing \in Nat \ {0}
      BY LiveIs, ApiIs
  <2>2. cfg.lag \in Nat
      BY CfgIs DEF IInv, SettingIs
  <2>3. billing \in DOMAIN live
      BY <1>1, <2>1, <2>2
  <2> QED
      BY <2>3
<1>4. live[i] \in Burst
    BY LiveIs DEF BurstIs
<1>5. PICK c : c = [live[i] EXCEPT !.billed = TRUE]
    OBVIOUS
<1>6. live' = [live EXCEPT ![i] = c] /\ Ticked(live[i], c)
    BY <1>1, <1>3, <1>4, <1>5 DEF Ticked, Burst
<1>7. Ticks(i)
    BY <1>6, TicksIs
<1>8. LedgerNext
    BY BillAnchorStep
<1>9. billing' \in Nat \ {0}
    BY <1>1, ApiIs
<1> QED
    BY <1>1, <1>2, <1>7, <1>8, <1>9, TickRest

-----------------------------------------------------------------------------
(* Parts of the invariant many steps keep.                                  *)

LEMMA NoBursts ==
    ASSUME live' = <<>>
    PROVE  BurstInv'
<1>1. DOMAIN live' = {} /\ Len(live') = 0
    OBVIOUS
<1> QED
    BY <1>1 DEF BurstInv

LEMMA NoRoomWanted ==
    ASSUME IInv, LedgerNext, live' = <<>>
    PROVE  RoomInv'
    BY DEF IInv, RoomInv, LedgerNext

LEMMA RoomKept ==
    ASSUME IInv, LedgerNext, UNCHANGED <<cfg, seq>>,
           live' # <<>> => live # <<>> /\ Last(live') = Last(live)
    PROVE  RoomInv'
<1>1. lost' = {} /\ Len(rcp') <= Len(rcp) /\ Len(rcp) \in Nat /\ Len(rcp') \in Nat
  <2>1. Len(rcp') <= Len(rcp) + (seq' - seq) /\ lost' = lost /\ rcp' \in Seq(Entry)
      BY DEF LedgerNext
  <2>2. seq' - seq = 0 /\ Len(rcp) \in Nat /\ lost = {}
      BY DEF IInv, TypeInv, RoomInv
  <2> QED
      BY <2>1, <2>2
<1>2. ASSUME live' # <<>>, Last(live').phase \in {"armed", "prep"}
      PROVE  Len(rcp') + Last(live').nb - Len(Last(live').bs) <= cfg.rcpMax
  <2>1. Last(live') = Last(live) /\ live # <<>>
      BY <1>2
  <2>2. Len(rcp) + Last(live).nb - Len(Last(live).bs) <= cfg.rcpMax
      BY <1>2, <2>1 DEF IInv, RoomInv
  <2>3. BurstIs(Last(live))
      BY <2>1, NewestIs, LiveIs
  <2>4. Last(live).nb \in Nat /\ Len(Last(live).bs) \in Nat /\ cfg.rcpMax \in Nat
      BY <2>3, CfgIs DEF IInv, SettingIs, BurstIs
  <2> QED
      BY <1>1, <2>1, <2>2, <2>4
<1> QED
    BY <1>1, <1>2 DEF RoomInv

\* Pictures that follow what is out or skipped are written in coding order.
LEMMA NalsRun ==
    ASSUME TypeInv, NalsInCodingOrder, NEW s \in Seq(Nat), NEW first \in Nat \ {0}, s # <<>>,
           \A k \in 1 .. Len(s) : s[k] = (first - 1) + k,
           LastNal < first, LastNal + 1 .. first - 1 \subseteq skipped,
           skipped' = skipped, nals' = nals \o s
    PROVE  /\ NalsInCodingOrder' /\ nals' \in Seq(Nat) /\ Len(nals') = Len(nals) + Len(s)
           /\ LastNal' = (first - 1) + Len(s) /\ Len(s) \in Nat \ {0}
<1>1. PICK n \in Nat : n = Len(nals) /\ DOMAIN nals = 1 .. n
    BY LenProperties DEF TypeInv
<1>2. PICK m \in Nat \ {0} : m = Len(s)
    BY EmptySeq
<1>3. /\ nals' \in Seq(Nat) /\ Len(nals') = n + m
      /\ \A j \in 1 .. n + m : nals'[j] = IF j <= n THEN nals[j] ELSE s[j - n]
  <2>1. nals \in Seq(Nat)
      BY DEF TypeInv
  <2>2. /\ nals \o s \in Seq(Nat) /\ Len(nals \o s) = Len(nals) + Len(s)
        /\ \A j \in 1 .. Len(nals) + Len(s) :
               (nals \o s)[j] = IF j <= Len(nals) THEN nals[j] ELSE s[j - Len(nals)]
      BY <2>1, ConcatProperties
  <2> QED
      BY <1>1, <1>2, <2>2
<1>4. DOMAIN nals' = 1 .. n + m
    BY <1>3, LenProperties
<1>5. \A j \in 1 .. n : nals'[j] = nals[j]
    BY <1>3
<1>6. \A k \in 1 .. m : nals'[n + k] = (first - 1) + k
  <2>1. ASSUME NEW k \in 1 .. m  PROVE nals'[n + k] = s[k]
    <3>1. n + k \in 1 .. n + m /\ ~(n + k <= n) /\ (n + k) - n = k
        OBVIOUS
    <3> QED
        BY <1>3, <3>1
  <2> QED
      BY <1>2, <2>1
<1>7. LastNal = IF n = 0 THEN 0 ELSE nals[n]
  <2>1. nals = <<>> <=> n = 0
      BY <1>1, EmptySeq DEF TypeInv
  <2> QED
      BY <1>1, <2>1 DEF LastNal
<1>8. ASSUME NEW j \in 1 .. n + m
      PROVE  LET before == IF j = 1 THEN 0 ELSE nals'[j - 1]
             IN  /\ nals'[j] > before
                 /\ before + 1 .. nals'[j] - 1 \subseteq skipped
  <2>1. CASE j <= n
    <3>1. j \in DOMAIN nals /\ nals'[j] = nals[j] /\ (j # 1 => nals'[j - 1] = nals[j - 1])
      <4>1. j \in 1 .. n /\ (j # 1 => j - 1 \in 1 .. n)
          BY <2>1
      <4> QED
          BY <1>1, <1>5, <4>1
    <3> QED
        BY <3>1 DEF NalsInCodingOrder
  <2>2. CASE j = n + 1
    <3>1. nals'[j] = first
      <4>1. PICK k \in 1 .. m : k = 1
          OBVIOUS
      <4>2. nals'[n + k] = (first - 1) + k
          BY <1>6
      <4> QED
          BY <2>2, <4>1, <4>2
    <3>2. (IF j = 1 THEN 0 ELSE nals'[j - 1]) = LastNal
      <4>1. CASE n = 0
          BY <1>7, <2>2, <4>1
      <4>2. CASE n # 0
        <5>1. j # 1 /\ j - 1 = n /\ n \in 1 .. n
            BY <2>2, <4>2
        <5> QED
            BY <1>5, <1>7, <4>2, <5>1
      <4> QED
          BY <4>1, <4>2
    <3>3. LastNal \in Nat
      <4>1. n # 0 => nals[n] \in Nat
        <5>1. n # 0 => n \in 1 .. Len(nals)
            BY <1>1
        <5> QED
            BY <5>1, ElementOfSeq DEF TypeInv
      <4> QED
          BY <1>7, <4>1
    <3> QED
        BY <3>1, <3>2, <3>3
  <2>3. CASE j > n + 1
    <3>1. PICK k \in 2 .. m : j = n + k
      <4>1. j - n \in 2 .. m /\ j = n + (j - n)
          BY <2>3
      <4> QED
          BY <4>1
    <3>2. k - 1 \in 1 .. m /\ j - 1 = n + (k - 1) /\ j # 1 /\ k \in 1 .. m
        BY <3>1
    <3>3. nals'[j] = (first - 1) + k /\ nals'[j - 1] = (first - 1) + (k - 1)
        BY <1>6, <3>1, <3>2
    <3> QED
        BY <3>2, <3>3
  <2>4. j <= n \/ j = n + 1 \/ j > n + 1
      OBVIOUS
  <2> QED
      BY <2>1, <2>2, <2>3, <2>4, Zenon
<1>9. NalsInCodingOrder'
    BY <1>4, <1>8 DEF NalsInCodingOrder
<1>10. LastNal' = (first - 1) + m
  <2>1. nals' # <<>>
    <3>1. Len(nals') # 0
        BY <1>3
    <3> QED
        BY <3>1, EmptySeq
  <2>2. m \in 1 .. m
      OBVIOUS
  <2>3. nals'[n + m] = (first - 1) + m
      BY <1>6, <2>2
  <2> QED
      BY <1>3, <2>1, <2>3 DEF LastNal
<1> QED
    BY <1>1, <1>2, <1>3, <1>9, <1>10

-----------------------------------------------------------------------------
(* The emit worker.                                                         *)

LEMMA SliceNext ==
    ASSUME IInv, SliceWritten
    PROVE  IInv'
<1>1. /\ UNCHANGED <<cfg, rcp, acct, seq, anchorSeq, anchorHist, lost, live, nals, skipped,
                     pc, todo, billing, tight, tries, flushing, mark>>
      /\ w2.pic # None /\ \E ok \in BOOLEAN : w2' = [w2 EXCEPT !.done = TRUE, !.ok = ok]
    BY DEF SliceWritten, Outcomes, ledger
<1>2. w2 \in Slice
    BY DEF IInv, TypeInv
<1>3. w2' \in Slice /\ w2'.pic = w2.pic
    BY <1>1, <1>2 DEF Slice
<1>4. TypeInv'
    BY <1>1, <1>3 DEF IInv, TypeInv
<1>5. BurstInv'
  <2>1. PcMoves
      BY <1>1 DEF PcMoves
  <2> QED
      BY <1>1, <1>3, <2>1, MovedBursts
<1>6. PcInv'
    BY <1>1, <1>3, ApiIs DEF PcInv, SerialPcs, NothingOut, Preparing, Bounded
<1>7. TodoInv'
    BY <1>1, ApiIs, TodoPrime
<1>8. FirstOwed' = FirstOwed
    BY <1>1, FirstKept
<1>9. W2Inv'
    BY <1>1, <1>3, <1>8 DEF IInv, W2Inv, NothingOut
<1>10. NalsInv'
    BY <1>1, <1>3, <1>8, NalsKept DEF IInv
<1>11. LedgerNext
  <2>1. ApiOwes' = ApiOwes
      BY <1>1 DEF ApiOwes
  <2>2. Owed' = Owed
      BY <1>1, <1>3, <2>1 DEF Owed
  <2> QED
      BY <1>1, <2>2, IdleStep
<1>12. RoomInv'
    BY <1>1, <1>11, RoomKept
<1>13. TightInv'
    BY <1>1, <1>3 DEF IInv, TightInv
<1> QED
    BY <1>4, <1>5, <1>6, <1>7, <1>9, <1>10, <1>11, <1>12, <1>13 DEF IInv, LedgerNext

LEMMA W2DrainNext ==
    ASSUME IInv, pc # "failed", W2Drain
    PROVE  IInv'
<1>1. /\ UNCHANGED <<cfg, live, pc, todo, billing, tight, tries, flushing, mark>>
      /\ w2' = NoSlice /\ w2.pic # None
      /\ nals' = IF w2.ok THEN Append(nals, w2.pic) ELSE nals
      /\ skipped' = IF w2.ok THEN skipped ELSE skipped \cup {w2.pic}
      /\ seq' = seq /\ anchorSeq' = anchorSeq
    BY DEF W2Drain, Record, IInv, W2Inv
<1>2. LedgerNext
    BY W2DrainStep
<1>3. w2' \in Slice /\ w2'.pic = None /\ ~w2'.done
    BY <1>1 DEF NoSlice, Slice, None
<1>4. w2.pic \in Nat \ {0} /\ w2.pic = FirstOwed - 1 /\ FirstOwed \in Nat /\ seq \in Nat
    BY <1>1, OwedFrom DEF None
<1>5. FirstOwed' = FirstOwed
    BY <1>1, FirstKept
<1>6. /\ nals' \in Seq(Nat) /\ Len(nals') \in Nat /\ Len(nals') >= Len(nals)
      /\ nals' = nals \/ Len(nals') > Len(nals)
      /\ NalsInv'
  <2>1. LastNal <= w2.pic - 1 /\ LastNal + 1 .. w2.pic - 1 \subseteq skipped
        /\ NalsInCodingOrder
      BY <1>1 DEF IInv, NalsInv, Settled
  <2>2. Settled' = w2.pic
      BY <1>3, <1>4, <1>5 DEF Settled
  <2>3. LastNal \in Nat
    <3>1. nals # <<>> => Len(nals) \in 1 .. Len(nals)
        BY EmptySeq DEF IInv, TypeInv
    <3>2. nals # <<>> => nals[Len(nals)] \in Nat
        BY <3>1, ElementOfSeq DEF IInv, TypeInv
    <3> QED
        BY <3>2 DEF LastNal
  <2>4. CASE w2.ok
    <3>1. PICK s : s = <<w2.pic>>
        OBVIOUS
    <3>2. s \in Seq(Nat) /\ s # <<>> /\ Len(s) = 1 /\ s[1] = w2.pic
        BY <1>4, <3>1
    <3>3. nals' = nals \o s
        BY <1>1, <2>4, <3>1 DEF IInv, TypeInv
    <3>4. \A k \in 1 .. Len(s) : s[k] = (w2.pic - 1) + k
        BY <1>4, <3>2
    <3>5. skipped' = skipped /\ LastNal < w2.pic
        BY <1>1, <1>4, <2>1, <2>3, <2>4
    <3>6. /\ NalsInCodingOrder' /\ nals' \in Seq(Nat) /\ Len(nals') = Len(nals) + Len(s)
          /\ LastNal' = (w2.pic - 1) + Len(s)
        BY <1>4, <2>1, <3>2, <3>3, <3>4, <3>5, NalsRun DEF IInv
    <3>7. LastNal' = w2.pic
        BY <1>4, <3>2, <3>6
    <3>8. NalsInv'
      <4>1. LastNal' + 1 .. Settled' = {}
          BY <1>4, <2>2, <3>7
      <4> QED
          BY <1>4, <2>2, <3>6, <3>7, <4>1 DEF NalsInv
    <3> QED
        BY <3>2, <3>6, <3>8, ApiIs
  <2>5. CASE ~w2.ok
    <3>1. nals' = nals /\ skipped' = skipped \cup {w2.pic}
        BY <1>1, <2>5
    <3>2. LastNal' = LastNal /\ NalsInCodingOrder'
        BY <2>1, <3>1 DEF LastNal, NalsInCodingOrder
    <3>3. LastNal + 1 .. w2.pic \subseteq skipped'
      <4>1. \A p \in LastNal + 1 .. w2.pic : p = w2.pic \/ p \in LastNal + 1 .. w2.pic - 1
          BY <1>4, <2>3
      <4> QED
          BY <2>1, <3>1, <4>1
    <3>4. LastNal <= w2.pic
        BY <1>4, <2>1, <2>3
    <3>5. NalsInv'
        BY <2>2, <3>2, <3>3, <3>4 DEF NalsInv
    <3> QED
        BY <3>1, <3>5, ApiIs DEF IInv, TypeInv
  <2> QED
      BY <2>4, <2>5
<1>7. TypeInv'
  <2>1. mark' \in 0 .. Len(nals')
      BY <1>1, <1>6, ApiIs
  <2> QED
      BY <1>1, <1>2, <1>3, <1>6, <2>1 DEF IInv, TypeInv, LedgerNext
<1>8. BurstInv'
  <2>1. PcMoves
      BY <1>1 DEF PcMoves
  <2> QED
      BY <1>1, <1>3, <2>1, MovedBursts
<1>9. PcInv'
  <2>1. PcInv
      BY ApiIs
  <2>2. pc # "done"
      BY <1>1, <2>1 DEF PcInv
  <2>3. pc = "emptied" /\ NothingOut' => live = <<>>
    <3>1. NothingOut' => NothingOut
        BY <1>1, <1>6, ApiIs DEF NothingOut
    <3> QED
        BY <2>1, <3>1 DEF PcInv
  <2>4. /\ pc \in SerialPcs => live = <<>> /\ todo # <<>>
        /\ pc \in {"idle", "emptied", "done"} => todo = <<>>
        /\ pc = "retire" => /\ live # <<>> /\ Last(live).phase = "armed"
                            /\ Last(live).nb = Len(todo) - 1
        /\ pc = "drain" => Len(live) <= 1 \/ Preparing' = {}
        /\ pc = "coded" => Bounded'
        /\ pc = "gate" => cfg.vbv
        /\ pc \in {"decided", "sibling", "pair"} => ~Bounded'
      BY <1>1, <2>1 DEF PcInv, Preparing, Bounded
  <2> QED
      BY <1>1, <2>2, <2>3, <2>4 DEF PcInv
<1>10. TodoInv'
    BY <1>1, ApiIs, TodoPrime
<1>11. W2Inv'
    BY <1>3 DEF W2Inv
<1>12. RoomInv'
    BY <1>1, <1>2, RoomKept
<1>13. TightInv'
  <2>1. ~(cfg.vbv /\ tight)
      BY <1>1 DEF IInv, TightInv
  <2> QED
      BY <1>1, <2>1 DEF TightInv
<1> QED
    BY <1>2, <1>6, <1>7, <1>8, <1>9, <1>10, <1>11, <1>12, <1>13 DEF IInv, LedgerNext

-----------------------------------------------------------------------------
(* The gate, the codings of a bounded picture and the end of a flush call.  *)

LEMMA GateNext ==
    ASSUME IInv, Gate
    PROVE  IInv'
<1>1. /\ pc = "gate" /\ w2.pic = None /\ pc' \in {"serial", "bill"} /\ billing' = 1
      /\ tight' \in BOOLEAN /\ (pc' = "bill" => ~tight' /\ Plain(todo))
      /\ UNCHANGED <<cfg, seq, anchorSeq, anchorHist, lost, live, w2, nals, skipped, todo,
                     tries, flushing, mark>>
    BY DEF Gate
<1>2. live = <<>> /\ todo # <<>> /\ cfg.vbv /\ PairLast(todo)
      /\ (MiniGop(todo) \/ RunOfP(todo)) /\ todo \in Seq(Kinds)
    BY <1>1, ApiIs DEF PcInv, SerialPcs, TodoAt
<1>3. LedgerNext /\ rcp' = <<>>
    BY GateStep
<1>4. TypeInv'
    BY <1>1, <1>3 DEF IInv, TypeInv, LedgerNext, Pcs
<1>5. BurstInv'
    BY <1>1, <1>2, NoBursts
<1>6. PcInv'
    BY <1>1, <1>2 DEF PcInv, SerialPcs
<1>7. pc' = "bill" => MiniGop(todo) /\ "pair" \notin Range(todo)
  <2>1. ASSUME pc' = "bill"  PROVE MiniGop(todo) /\ "pair" \notin Range(todo)
    <3>1. /\ Len(todo) > 1 /\ "P" \notin Range(Tail(todo)) /\ "pair" \notin Range(todo)
          /\ Len(todo) \in Nat \ {0}
        BY <1>1, <1>2, <2>1, EmptySeq DEF Plain
    <3>2. ~RunOfP(todo)
      <4>1. /\ Tail(todo) \in Seq(Kinds) /\ Len(Tail(todo)) = Len(todo) - 1
            /\ \A i \in 1 .. Len(Tail(todo)) : Tail(todo)[i] = todo[i + 1]
          BY <1>2, HeadTailProperties
      <4>2. 1 \in 1 .. Len(Tail(todo)) /\ DOMAIN Tail(todo) = 1 .. Len(Tail(todo))
          BY <3>1, <4>1, LenProperties
      <4>3. Tail(todo)[1] # "P"
          BY <3>1, <4>2 DEF Range
      <4>4. Tail(todo)[1] = todo[2]
          BY <4>1, <4>2
      <4>5. 2 \in DOMAIN todo
          BY <1>2, <3>1, LenProperties
      <4> QED
          BY <4>3, <4>4, <4>5 DEF RunOfP
    <3> QED
        BY <1>2, <3>1, <3>2
  <2> QED
      BY <2>1
<1>8. TodoInv'
  <2>1. TodoAt("serial", todo, seq, anchorSeq)
      BY <1>1, <1>2, ApiIs DEF TodoAt, LaunchPcs
  <2>2. pc' = "bill" => TodoAt("bill", todo, seq, anchorSeq)
      BY <1>1, <1>2, <1>7, ApiIs DEF TodoAt
  <2> QED
      BY <1>1, <2>1, <2>2, TodoPrime
<1>9. FirstOwed' = FirstOwed
    BY <1>1, FirstKept DEF Deciding
<1>10. W2Inv'
    BY <1>1 DEF IInv, W2Inv
<1>11. NalsInv'
    BY <1>1, <1>9, NalsKept DEF IInv
<1>12. RoomInv'
    BY <1>1, <1>2, <1>3, NoRoomWanted
<1>13. TightInv'
    BY <1>1, <1>2, <1>3 DEF TightInv, LaunchPcs
<1> QED
    BY <1>3, <1>4, <1>5, <1>6, <1>8, <1>10, <1>11, <1>12, <1>13 DEF IInv, LedgerNext

LEMMA RetryNext ==
    ASSUME IInv, Retry \/ RetryOverflows
    PROVE  IInv'
<1>1. /\ pc = "coded" /\ tries' \in {tries + 1, MaxTries + 1}
      /\ UNCHANGED <<cfg, acct, seq, anchorSeq, anchorHist, lost, live, w2, nals, skipped, pc,
                     todo, billing, tight, flushing, mark>>
    BY DEF Retry, RetryOverflows
<1>2. LedgerNext /\ Len(rcp') = 1 /\ rcp'[1].tight
    BY RetryStep
<1>3. live = <<>>
    BY <1>1, CodedAlone
<1>4. TypeInv'
    BY <1>1, <1>2 DEF IInv, TypeInv, LedgerNext, MaxTries
<1>5. BurstInv'
    BY <1>1, <1>3, NoBursts
<1>6. PcInv'
    BY <1>1, <1>2, ApiIs DEF PcInv, SerialPcs, NothingOut, Preparing, Bounded
<1>7. TodoInv'
    BY <1>1, ApiIs, TodoPrime
<1>8. FirstOwed' = FirstOwed
    BY <1>1, FirstKept
<1>9. W2Inv'
    BY <1>1, <1>8 DEF IInv, W2Inv, NothingOut
<1>10. NalsInv'
    BY <1>1, <1>8, NalsKept DEF IInv
<1>11. RoomInv'
    BY <1>1, <1>2, <1>3, NoRoomWanted
<1>12. TightInv'
    BY <1>1, <1>2 DEF IInv, TightInv
<1> QED
    BY <1>2, <1>4, <1>5, <1>6, <1>7, <1>9, <1>10, <1>11, <1>12 DEF IInv, LedgerNext

LEMMA FlushEndNext ==
    ASSUME IInv, FlushEnd
    PROVE  IInv'
<1>1. /\ pc = "emptied" /\ w2.pic = None /\ pc' \in {"done", "idle"}
      /\ (pc' = "done" <=> NothingOut) /\ mark' \in {mark, Len(nals)}
      /\ UNCHANGED <<cfg, seq, anchorSeq, live, w2, nals, skipped, todo, billing, tight, tries,
                     flushing>>
    BY DEF FlushEnd, ledger
<1>2. LedgerNext /\ (pc' = "done" => rcp' = <<>>)
    BY FlushEndStep
<1>3. pc' = "done" => live = <<>>
    BY <1>1, ApiIs DEF PcInv
<1>4. todo = <<>>
    BY <1>1, ApiIs DEF PcInv
<1>5. TypeInv'
  <2>1. mark' \in 0 .. Len(nals)
      BY <1>1, ApiIs
  <2> QED
      BY <1>1, <1>2, <2>1 DEF IInv, TypeInv, LedgerNext, Pcs
<1>6. BurstInv'
  <2>1. PcMoves
      BY <1>1, <1>3 DEF PcMoves, Quiet, Deciding
  <2>2. w2'.pic \in {w2.pic, None}
      BY <1>1
  <2> QED
      BY <1>1, <2>1, <2>2, MovedBursts
<1>7. PcInv'
    BY <1>1, <1>2, <1>3, <1>4 DEF PcInv, SerialPcs
<1>8. TodoInv'
  <2>1. \A p \in {"done", "idle"} : TodoAt(p, todo, seq, anchorSeq)
      BY <1>4, ApiIs DEF TodoAt, LaunchPcs
  <2> QED
      BY <1>1, <2>1, TodoPrime
<1>9. FirstOwed' = FirstOwed
    BY <1>1, FirstKept DEF Deciding
<1>10. W2Inv'
    BY <1>1 DEF IInv, W2Inv
<1>11. NalsInv'
    BY <1>1, <1>9, NalsKept DEF IInv
<1>12. RoomInv'
    BY <1>1, <1>2, RoomKept
<1>13. TightInv'
  <2>1. CASE pc' = "done"
      BY <1>1, <1>2, <1>3, <2>1 DEF TightInv, LaunchPcs
  <2>2. CASE pc' = "idle"
    <3>1. UNCHANGED ledger
        BY <1>1, <2>2 DEF FlushEnd
    <3> QED
        BY <1>1, <2>2, <3>1 DEF IInv, TightInv, LaunchPcs, ledger
  <2> QED
      BY <1>1, <2>1, <2>2
<1> QED
    BY <1>2, <1>5, <1>6, <1>7, <1>8, <1>10, <1>11, <1>12, <1>13 DEF IInv, LedgerNext

-----------------------------------------------------------------------------
(* The serial decides.                                                      *)

\* A tight group decides with no entry pending: its picture is the only one.
LEMMA TightPush ==
    ASSUME TypeInv, rcp = <<>>, NEW kind, Push(kind), cfg.vbv, tight
    PROVE  Len(rcp') = 1 /\ rcp'[1].tight
<1>1. /\ seq \in Nat /\ cfg.rcpMax \in Nat \ {0} /\ Len(rcp) = 0 /\ rcp \in Seq(Entry)
    BY CfgIs DEF TypeInv, SettingIs
<1>2. PICK z : z = IF kind = "P" /\ cfg.lag = 0 THEN CommitFilled(rcp) ELSE 0
    OBVIOUS
<1>3. z = 0
  <2>1. CommitFilled(rcp) \in 0 .. 0
      BY <1>1, CommitFilledIs
  <2> QED
      BY <1>2, <2>1
<1>4. PICK rest : rest = SubSeq(rcp, z + 1, Len(rcp))
    OBVIOUS
<1>5. rest = <<>>
    BY <1>1, <1>3, <1>4
<1>6. PICK d : d = Decided(seq + 1)
    OBVIOUS
<1>7. d \in Entry /\ d.tight /\ ~d.filled
  <2>1. (cfg.vbv /\ tight) = TRUE
      BY CfgIs DEF TypeInv, SettingIs
  <2>2. d = [seq |-> seq + 1, filled |-> FALSE, dropped |-> FALSE, src |-> None,
             tight |-> TRUE, priced |-> TRUE, outgrown |-> FALSE]
      BY <1>6, <2>1 DEF Decided
  <2> QED
      BY <1>1, <2>2 DEF Entry, None
<1>8. PICK q : q = Append(rest, d)
    OBVIOUS
<1>9. q = <<d>> /\ q \in Seq(Entry) /\ Len(q) = 1 /\ q[1] = d
    BY <1>5, <1>7, <1>8
<1>10. PICK b : b = PopBound(IF kind = "P" THEN seq + 1 ELSE anchorSeq,
                             IF kind = "P" THEN <<anchorSeq>> \o SubSeq(anchorHist, 1, cfg.ring - 1)
                                           ELSE anchorHist)
    OBVIOUS
<1>11. PICK n : n = PopReady(q, b)
    OBVIOUS
<1>12. n = 0
  <2>1. n \in 0 .. 1 /\ \A i \in 1 .. n : Ready(q[i], b)
      BY <1>9, <1>11, PopReadyIs
  <2>2. n # 1
      BY <1>7, <1>9, <2>1 DEF Ready
  <2> QED
      BY <2>1, <2>2
<1>13. Len(rest) < cfg.rcpMax
    BY <1>1, <1>5
<1>14. rcp' = SubSeq(q, n + 1, Len(q))
    BY <1>2, <1>4, <1>6, <1>8, <1>10, <1>11, <1>13 DEF Push
<1>15. Len(rcp') = 1 /\ rcp'[1] = q[1]
  <2>1. rcp' = SubSeq(q, 1, 1)
      BY <1>9, <1>12, <1>14
  <2>2. \A i \in 1 .. 1 : q[i] \in Entry
      BY <1>7, <1>9
  <2>3. Len(SubSeq(q, 1, 1)) = 1 /\ SubSeq(q, 1, 1)[1] = q[1]
      BY <1>9, <2>2, SubSeqProperties
  <2> QED
      BY <2>1, <2>3
<1> QED
    BY <1>7, <1>9, <1>15

LEMMA EmitDecideNext ==
    ASSUME IInv, EmitDecide
    PROVE  IInv'
<1>1. /\ pc = "serial" /\ pc' = (IF Bounded THEN "coded" ELSE "decided") /\ tries' \in {0, 1}
      /\ Push(Head(todo)) /\ Head(todo) # "pair"
      /\ UNCHANGED <<cfg, live, w2, nals, skipped, todo, billing, tight, flushing, mark>>
    BY DEF EmitDecide
<1>2. /\ live = <<>> /\ todo # <<>> /\ todo \in Seq(Kinds) /\ PairLast(todo)
      /\ DOMAIN live = {} /\ Head(todo) = todo[1] /\ 1 \in DOMAIN todo
  <2>1. live = <<>> /\ todo # <<>> /\ todo \in Seq(Kinds) /\ PairLast(todo)
      BY <1>1, ApiIs DEF PcInv, SerialPcs, TodoAt
  <2>2. Len(todo) \in Nat \ {0} /\ DOMAIN todo = 1 .. Len(todo)
      BY <2>1, EmptySeq, LenProperties
  <2> QED
      BY <2>1, <2>2
<1>3. LedgerNext /\ seq' = seq + 1 /\ anchorSeq' = Newest(todo[1])
    BY <1>2, EmitDecideStep
<1>4. seq \in Nat /\ anchorSeq \in Nat /\ cfg.maxB \in Nat \ {0}
    BY CfgIs DEF IInv, TypeInv, SettingIs
<1>5. TypeInv'
    BY <1>1, <1>3 DEF IInv, TypeInv, LedgerNext, Pcs
<1>6. BurstInv'
    BY <1>1, <1>2, NoBursts
<1>7. PcInv'
    BY <1>1, <1>2 DEF PcInv, SerialPcs, Bounded
<1>8. TodoInv'
  <2>1. PICK r : r = Tail(todo)
      OBVIOUS
  <2>2. /\ Left(r) = Left(todo) - 1 /\ Left(todo) \in Nat /\ Left(todo) >= 1
        /\ MiniGop(todo) \/ Leaves(todo) => Leaves(r)
      BY <1>1, <1>2, <2>1, TailedIs DEF Tailed
  <2>3. \/ MiniGop(todo) \/ RunOfP(todo)
        \/ Leaves(todo) /\ seq > 0 /\ seq - anchorSeq + Left(todo) <= cfg.maxB
      BY <1>1, ApiIs DEF TodoAt
  <2>4. anchorSeq <= seq /\ seq - anchorSeq <= cfg.maxB
      BY ApiIs DEF TodoAt
  <2>5. PICK s \in Nat : s = seq + 1
      BY <1>4
  <2>6. PICK a \in Nat : a = Newest(todo[1])
      BY <1>4 DEF Newest
  <2>7. /\ a <= s /\ s - a <= cfg.maxB
        /\ RunOfP(todo) \/ (Leaves(r) /\ s - a + Left(r) <= cfg.maxB)
    <3>1. CASE RunOfP(todo)
      <4>1. a = s
          BY <1>2, <2>5, <2>6, <3>1 DEF RunOfP, Newest
      <4> QED
          BY <1>4, <3>1, <4>1
    <3>2. CASE MiniGop(todo)
      <4>1. a = s /\ Left(todo) <= cfg.maxB + 1
          BY <2>5, <2>6, <3>2 DEF MiniGop, Newest
      <4> QED
          BY <1>4, <2>2, <3>2, <4>1
    <3>3. CASE Leaves(todo) /\ seq - anchorSeq + Left(todo) <= cfg.maxB
      <4>1. a = anchorSeq
          BY <1>2, <2>6, <3>3 DEF Leaves, Newest
      <4>2. s - a + Left(r) = seq - anchorSeq + Left(todo)
          BY <1>4, <2>2, <2>5, <4>1
      <4>3. a <= s /\ s - a <= cfg.maxB
          BY <1>4, <2>2, <2>4, <2>5, <3>3, <4>1
      <4> QED
          BY <2>2, <3>3, <4>2, <4>3
    <3> QED
        BY <2>3, <3>1, <3>2, <3>3
  <2>8. \A p \in {"decided", "coded"} : TodoAt(p, todo, s, a)
      BY <1>1, <1>2, <1>4, <2>1, <2>5, <2>7 DEF TodoAt, LaunchPcs
  <2> QED
      BY <1>1, <1>3, <2>5, <2>6, <2>8, TodoPrime
<1>9. FirstOwed' = FirstOwed
    BY <1>1, <1>2, <1>3 DEF FirstOwed
<1>10. W2Inv'
    BY <1>1, <1>2, <1>9 DEF IInv, W2Inv
<1>11. NalsInv'
    BY <1>1, <1>9, NalsKept DEF IInv
<1>12. RoomInv'
    BY <1>1, <1>2, <1>3, NoRoomWanted
<1>13. TightInv'
  <2>1. ASSUME cfg.vbv, tight
        PROVE  w2.pic = None /\ rcp = <<>> /\ pc' = "coded" /\ Len(rcp') = 1 /\ rcp'[1].tight
    <3>1. w2.pic = None /\ rcp = <<>>
        BY <1>1, <2>1 DEF IInv, TightInv
    <3>2. pc' = "coded"
        BY <1>1, <2>1 DEF Bounded
    <3> QED
        BY <1>1, <2>1, <3>1, <3>2, TightPush DEF IInv
  <2> QED
      BY <1>1, <1>2, <2>1 DEF TightInv, LaunchPcs
<1> QED
    BY <1>3, <1>5, <1>6, <1>7, <1>8, <1>10, <1>11, <1>12, <1>13 DEF IInv, LedgerNext

LEMMA PairDecideNext ==
    ASSUME IInv, PairDecide
    PROVE  IInv'
<1>1. /\ \/ pc = "serial" /\ todo[1] = "pair" /\ pc' = "sibling" /\ ~Bounded
         \/ pc = "sibling" /\ pc' = "pair"
      /\ UNCHANGED <<cfg, live, w2, nals, skipped, todo, billing, tight, tries, flushing, mark>>
  <2>1. Head(todo) = todo[1]
      OBVIOUS
  <2> QED
      BY <2>1 DEF PairDecide
<1>2. /\ live = <<>> /\ todo # <<>> /\ todo \in Seq(Kinds) /\ PairLast(todo)
      /\ DOMAIN live = {} /\ 1 \in DOMAIN todo /\ ~Bounded
  <2>1. live = <<>> /\ todo # <<>> /\ todo \in Seq(Kinds) /\ PairLast(todo) /\ ~Bounded
      BY <1>1, ApiIs DEF PcInv, SerialPcs, TodoAt
  <2>2. Len(todo) \in Nat \ {0} /\ DOMAIN todo = 1 .. Len(todo)
      BY <2>1, EmptySeq, LenProperties
  <2> QED
      BY <2>1, <2>2
<1>3. LedgerNext /\ seq' = seq + 1 /\ anchorSeq' = anchorSeq
    BY PairDecideStep
<1>4. seq \in Nat /\ anchorSeq \in Nat /\ cfg.maxB \in Nat \ {0}
    BY CfgIs DEF IInv, TypeInv, SettingIs
<1>5. TypeInv'
    BY <1>1, <1>3 DEF IInv, TypeInv, LedgerNext, Pcs
<1>6. BurstInv'
    BY <1>1, <1>2, NoBursts
<1>7. PcInv'
    BY <1>1, <1>2 DEF PcInv, SerialPcs, Bounded
<1>8. TodoInv'
  <2>1. PICK s \in Nat : s = seq + 1
      BY <1>4
  <2>2. anchorSeq <= seq
      BY ApiIs DEF TodoAt
  <2>3. CASE pc = "serial" /\ todo[1] = "pair" /\ pc' = "sibling"
    <3>1. Len(todo) = 1 /\ Left(todo) = 2
        BY <1>2, <2>3, UnpairedIs
    <3>2. ~MiniGop(todo) /\ ~RunOfP(todo)
        BY <1>2, <2>3 DEF MiniGop, RunOfP
    <3>3. seq > 0 /\ seq - anchorSeq + 2 <= cfg.maxB
        BY <2>3, <3>1, <3>2, ApiIs DEF TodoAt
    <3>4. s > 1 /\ s - anchorSeq < cfg.maxB /\ anchorSeq <= s /\ s - anchorSeq <= cfg.maxB
        BY <1>4, <2>1, <2>2, <3>3
    <3>5. TodoAt("sibling", todo, s, anchorSeq)
        BY <1>2, <3>1, <3>4 DEF TodoAt, LaunchPcs
    <3> QED
        BY <1>1, <1>3, <2>1, <2>3, <3>5, TodoPrime
  <2>4. CASE pc = "sibling" /\ pc' = "pair"
    <3>1. Len(todo) = 1 /\ seq > 1 /\ seq - anchorSeq < cfg.maxB
        BY <2>4, ApiIs DEF TodoAt
    <3>2. s > 1 /\ anchorSeq <= s /\ s - anchorSeq <= cfg.maxB
        BY <1>4, <2>1, <2>2, <3>1
    <3>3. TodoAt("pair", todo, s, anchorSeq)
        BY <1>2, <3>1, <3>2 DEF TodoAt, LaunchPcs
    <3> QED
        BY <1>1, <1>3, <2>1, <2>4, <3>3, TodoPrime
  <2> QED
      BY <1>1, <2>3, <2>4
<1>9. FirstOwed' = FirstOwed
    BY <1>1, <1>2, <1>3, <1>4 DEF FirstOwed
<1>10. W2Inv'
    BY <1>1, <1>2, <1>9 DEF IInv, W2Inv
<1>11. NalsInv'
    BY <1>1, <1>9, NalsKept DEF IInv
<1>12. RoomInv'
    BY <1>1, <1>2, <1>3, NoRoomWanted
<1>13. TightInv'
    BY <1>1, <1>2 DEF TightInv, Bounded
<1> QED
    BY <1>3, <1>5, <1>6, <1>7, <1>8, <1>10, <1>11, <1>12, <1>13 DEF IInv, LedgerNext

-----------------------------------------------------------------------------
(* The ends of the serial pictures.                                         *)

\* A picture of a group is done, and the next one comes.
LEMMA NextPicture ==
    ASSUME IInv, pc \in {"decided", "coded", "pair"}, NextInGroup,
           UNCHANGED <<cfg, seq, anchorSeq, live>>
    PROVE  /\ live = <<>> /\ pc' \in {"idle", "serial"} /\ todo' \in Seq(Kinds)
           /\ TodoInv' /\ PcInv' /\ BurstInv' /\ FirstOwed' = seq + 1
<1>1. /\ todo' = Tail(todo) /\ pc' = IF Len(todo) = 1 THEN "idle" ELSE "serial"
    BY DEF NextInGroup
<1>2. /\ live = <<>> /\ todo # <<>> /\ todo \in Seq(Kinds) /\ PairLast(todo)
    BY ApiIs DEF PcInv, SerialPcs, TodoAt
<1>3. PICK n \in Nat \ {0} : n = Len(todo)
    BY <1>2, EmptySeq
<1>4. PICK r : r = Tail(todo)
    OBVIOUS
<1>5. r \in Seq(Kinds) /\ Len(r) = n - 1 /\ (r = <<>> <=> n = 1)
  <2>1. r \in Seq(Kinds) /\ Len(r) = n - 1
      BY <1>2, <1>3, <1>4, HeadTailProperties
  <2>2. r = <<>> <=> Len(r) = 0
      BY <2>1, EmptySeq
  <2> QED
      BY <2>1, <2>2
<1>6. pc' = IF r = <<>> THEN "idle" ELSE "serial"
    BY <1>1, <1>3, <1>5
<1>7. anchorSeq <= seq /\ seq - anchorSeq <= cfg.maxB
    BY ApiIs DEF TodoAt
<1>8. PairLast(r) /\ (r # <<>> => RunOfP(r) \/ (Leaves(r) /\ seq > 0 /\ seq - anchorSeq + Left(r) <= cfg.maxB))
  <2>1. CASE pc = "pair"
    <3>1. n = 1
        BY <1>3, <2>1, ApiIs DEF TodoAt
    <3>2. r = <<>>
        BY <1>5, <3>1
    <3>3. DOMAIN r = {}
        BY <3>2
    <3> QED
        BY <3>2, <3>3 DEF PairLast
  <2>2. CASE pc # "pair"
    <3>1. /\ todo[1] # "pair" /\ seq > 0
          /\ \/ RunOfP(todo)
             \/ Leaves(r) /\ seq - anchorSeq + Left(r) <= cfg.maxB
        BY <1>4, <2>2, ApiIs DEF TodoAt
    <3>2. PairLast(r) /\ (RunOfP(todo) => RunOfP(r))
        BY <1>2, <1>4, <3>1, TailedIs DEF Tailed
    <3> QED
        BY <3>1, <3>2
  <2> QED
      BY <2>1, <2>2
<1>9. TodoInv'
  <2>1. r = <<>> => TodoAt("idle", r, seq, anchorSeq)
      BY <1>7, <1>8 DEF TodoAt, LaunchPcs
  <2>2. r # <<>> => TodoAt("serial", r, seq, anchorSeq)
      BY <1>7, <1>8 DEF TodoAt, LaunchPcs
  <2> QED
      BY <1>1, <1>4, <1>6, <2>1, <2>2, TodoPrime
<1>10. PcInv'
    BY <1>1, <1>2, <1>4, <1>6 DEF PcInv, SerialPcs
<1>11. BurstInv'
    BY <1>2, NoBursts
<1>12. FirstOwed' = seq + 1
    BY <1>2, <1>6 DEF FirstOwed
<1> QED
    BY <1>1, <1>2, <1>4, <1>5, <1>6, <1>9, <1>10, <1>11, <1>12

LEMMA EmitSubmitNext ==
    ASSUME IInv, EmitSubmit
    PROVE  IInv'
<1>1. /\ pc = "decided" /\ w2.pic = None /\ w2' = [NoSlice EXCEPT !.pic = seq] /\ NextInGroup
      /\ UNCHANGED <<cfg, rcp, acct, seq, anchorSeq, anchorHist, lost, live, nals, skipped,
                     billing, tight, tries, flushing, mark>>
    BY DEF EmitSubmit, ledger
<1>2. /\ live = <<>> /\ pc' \in {"idle", "serial"} /\ todo' \in Seq(Kinds)
      /\ TodoInv' /\ PcInv' /\ BurstInv' /\ FirstOwed' = seq + 1
    BY <1>1, NextPicture
<1>3. seq \in Nat \ {0}
  <2>1. seq > 0
      BY <1>1, ApiIs DEF TodoAt
  <2> QED
      BY <2>1 DEF IInv, TypeInv
<1>4. w2' \in Slice /\ w2'.pic = seq /\ ~w2'.done
    BY <1>1, <1>3 DEF NoSlice, Slice
<1>5. TypeInv'
    BY <1>1, <1>2, <1>4 DEF IInv, TypeInv, Pcs
<1>6. W2Inv'
    BY <1>1, <1>2, <1>3, <1>4 DEF W2Inv
<1>7. NalsInv'
  <2>1. FirstOwed = seq
      BY <1>1, <1>2 DEF FirstOwed
  <2>2. Settled' = Settled
      BY <1>1, <1>3, <1>4, <2>1 DEF Settled, None
  <2>3. NalsInCodingOrder' /\ LastNal' = LastNal
      BY <1>1 DEF IInv, NalsInv, NalsInCodingOrder, LastNal
  <2> QED
      BY <1>1, <2>2, <2>3 DEF IInv, NalsInv
<1>8. LedgerNext
  <2>1. DOMAIN live = {}
      BY <1>2
  <2>2. ApiOwes = {seq} /\ ApiOwes' = {}
      BY <1>1, <1>2 DEF ApiOwes
  <2>3. Owed = {p \in 1 .. seq : p = seq}
      BY <1>1, <2>1, <2>2 DEF Owed, None
  <2>4. Owed' = {p \in 1 .. seq : p = seq}
      BY <1>1, <1>4, <2>1, <2>2 DEF Owed
  <2> QED
      BY <1>1, <2>3, <2>4, IdleStep
<1>9. RoomInv'
    BY <1>1, <1>2, <1>8, NoRoomWanted
<1>10. TightInv'
  <2>1. ~Bounded
      BY <1>1, ApiIs DEF PcInv
  <2> QED
      BY <1>1, <2>1 DEF TightInv, Bounded
<1> QED
    BY <1>2, <1>5, <1>6, <1>7, <1>8, <1>9, <1>10 DEF IInv, LedgerNext

\* Pictures written by the API thread itself.
LEMMA Written ==
    ASSUME IInv, w2.pic = None, pc # "failed",
           NEW s \in Seq(Nat), s # <<>>,
           \A k \in 1 .. Len(s) : s[k] = (FirstOwed - 1) + k, nals' = nals \o s,
           FirstOwed' = FirstOwed + Len(s), UNCHANGED <<w2, skipped>>
    PROVE  /\ NalsInv' /\ nals' \in Seq(Nat) /\ Len(nals') > Len(nals) /\ Len(nals') \in Nat
<1>1. FirstOwed \in Nat
    BY OwedFrom
<1>2. LastNal <= FirstOwed - 1 /\ LastNal + 1 .. FirstOwed - 1 \subseteq skipped
      /\ NalsInCodingOrder
    BY DEF IInv, NalsInv, Settled
<1>3. LastNal \in Nat
  <2>1. nals # <<>> => Len(nals) \in 1 .. Len(nals)
      BY EmptySeq DEF IInv, TypeInv
  <2>2. nals # <<>> => nals[Len(nals)] \in Nat
      BY <2>1, ElementOfSeq DEF IInv, TypeInv
  <2> QED
      BY <2>2 DEF LastNal
<1>4. PICK first \in Nat \ {0} : first = FirstOwed
    BY <1>1, <1>2, <1>3
<1>5. /\ NalsInCodingOrder' /\ nals' \in Seq(Nat) /\ Len(nals') = Len(nals) + Len(s)
      /\ LastNal' = (first - 1) + Len(s) /\ Len(s) \in Nat \ {0}
  <2>1. LastNal < first /\ LastNal + 1 .. first - 1 \subseteq skipped
      BY <1>2, <1>3, <1>4
  <2> QED
      BY <1>2, <1>4, <2>1, NalsRun DEF IInv
<1>6. Settled' = LastNal'
    BY <1>1, <1>4, <1>5 DEF Settled
<1>7. LastNal' + 1 .. Settled' = {} /\ LastNal' <= Settled'
    BY <1>4, <1>5, <1>6
<1> QED
    BY <1>5, <1>7, ApiIs DEF NalsInv

LEMMA EmitBoundedNext ==
    ASSUME IInv, EmitBounded
    PROVE  IInv'
<1>1. /\ pc = "coded" /\ nals' = Append(nals, seq) /\ NextInGroup /\ tries' = 0
      /\ Record(<<Size(seq)>>) /\ seq' = seq /\ anchorSeq' = anchorSeq
      /\ UNCHANGED <<cfg, live, w2, skipped, billing, tight, flushing, mark>>
    BY DEF EmitBounded, Record
<1>2. /\ live = <<>> /\ pc' \in {"idle", "serial"} /\ todo' \in Seq(Kinds)
      /\ TodoInv' /\ PcInv' /\ BurstInv' /\ FirstOwed' = seq + 1
    BY <1>1, NextPicture
<1>3. LedgerNext
    BY EmitBoundedStep
<1>4. /\ w2.pic = None /\ Owed = {seq} /\ seq \in Nat \ {0} /\ Len(rcp) = 1 /\ rcp[1].tight
    BY <1>1, CodedAlone
<1>5. FirstOwed = seq
    BY <1>1, <1>2 DEF FirstOwed
<1>6. NalsInv' /\ nals' \in Seq(Nat) /\ Len(nals') > Len(nals) /\ Len(nals') \in Nat
  <2>1. PICK s : s = <<seq>>
      OBVIOUS
  <2>2. s \in Seq(Nat) /\ s # <<>> /\ Len(s) = 1 /\ s[1] = seq
      BY <1>4, <2>1
  <2>3. nals' = nals \o s
      BY <1>1, <2>1 DEF IInv, TypeInv
  <2>4. \A k \in 1 .. Len(s) : s[k] = (FirstOwed - 1) + k
      BY <1>4, <1>5, <2>2
  <2>5. FirstOwed' = FirstOwed + Len(s)
      BY <1>2, <1>5, <2>2
  <2> QED
      BY <1>1, <1>4, <2>2, <2>3, <2>4, <2>5, Written
<1>7. TypeInv'
  <2>1. mark' \in 0 .. Len(nals')
      BY <1>1, <1>6, ApiIs
  <2> QED
      BY <1>1, <1>2, <1>3, <1>6, <2>1 DEF IInv, TypeInv, LedgerNext, Pcs
<1>8. W2Inv'
    BY <1>1, <1>4 DEF IInv, W2Inv
<1>9. RoomInv'
    BY <1>1, <1>2, <1>3, NoRoomWanted
<1>10. rcp' = <<>>
  <2>1. PICK f \in 0 .. seq : LedgerOf(f) /\ SizesOf(f)
      BY DEF IInv, LedgerInv
  <2>2. seq - f = 1
    <3>1. Cardinality(Owed) = seq - f
        BY <1>1, <2>1, CountOwed DEF IInv
    <3>2. Cardinality({seq}) = 1
        BY FS_Singleton
    <3> QED
        BY <1>4, <3>1, <3>2
  <2>3. PICK x \in Result : x = Size(seq)
      BY <1>4, SizeIs
  <2>4. PICK r : r = <<x>>
      OBVIOUS
  <2>5. r \in Seq(Result) /\ Len(r) = 1 /\ r[1] = x /\ Record(r)
      BY <1>1, <2>3, <2>4
  <2>6. Len(r) <= seq - f
      BY <2>2, <2>5
  <2>7. /\ rcp' \in Seq(Entry) /\ Len(acct) <= Len(acct') /\ Len(acct') + Len(rcp') = seq
        /\ acct' \in Seq(Entry)
        /\ \A n \in 1 .. seq :
               At(n)' = IF n <= f \/ n > f + Len(r) THEN At(n) ELSE Sized(At(n), r[n - f])
        /\ HeadWaits'
      BY <1>1, <2>1, <2>5, <2>6, RecordIs DEF IInv
  <2>8. rcp[1] = At(Len(acct) + 1) /\ Len(acct) + 1 = seq /\ rcp[1] \in Entry /\ Len(acct) \in Nat
    <3>1. Len(acct) + Len(rcp) = seq /\ Len(acct) \in Nat
        BY <2>1 DEF LedgerOf, IInv, TypeInv
    <3>2. 1 \in 1 .. Len(rcp)
        BY <1>4
    <3>3. rcp[1] = At(Len(acct) + 1) /\ rcp[1] \in Entry
        BY <2>1, <3>2, PendingIs DEF IInv
    <3> QED
        BY <1>4, <3>1, <3>3
  <2>9. \A n \in {seq} : At(n)' = Sized(At(n), x)
    <3>1. seq \in 1 .. seq /\ ~(seq <= f) /\ ~(seq > f + Len(r)) /\ seq - f = 1
        BY <1>4, <2>2, <2>5
    <3>2. \A n \in {seq} : At(n)' = Sized(At(n), r[n - f])
        BY <2>7, <3>1
    <3> QED
        BY <2>5, <3>1, <3>2
  <2>10. ASSUME rcp' # <<>>  PROVE FALSE
    <3>1. Len(rcp') \in Nat \ {0} /\ Len(acct') \in Nat
        BY <2>7, <2>10, EmptySeq
    <3>2. Len(acct') + 1 = seq
        BY <1>4, <2>7, <2>8, <3>1
    <3>3. \A n \in {seq} : At(n)' = rcp'[1]
      <4>1. \A n \in {seq} : n > Len(acct') /\ n - Len(acct') = 1
          BY <1>4, <3>1, <3>2
      <4> QED
          BY <1>4, <3>1, <4>1 DEF At, Nth
    <3>4. rcp'[1] = Sized(rcp[1], x)
        BY <2>8, <2>9, <3>3
    <3>5. rcp'[1].filled /\ rcp'[1].tight
        BY <1>4, <2>8, <3>4 DEF Sized, Entry
    <3> QED
        BY <2>7, <2>10, <3>5 DEF HeadWaits
  <2> QED
      BY <2>10
<1>11. TightInv'
    BY <1>1, <1>2, <1>4, <1>10 DEF TightInv, LaunchPcs
<1> QED
    BY <1>2, <1>3, <1>6, <1>7, <1>8, <1>9, <1>11 DEF IInv, LedgerNext

LEMMA PairAppendNext ==
    ASSUME IInv, PairAppend
    PROVE  IInv'
<1>1. /\ pc = "pair" /\ nals' = nals \o <<seq - 1, seq>> /\ NextInGroup /\ w2.pic = None
      /\ seq' = seq /\ anchorSeq' = anchorSeq
      /\ UNCHANGED <<cfg, live, w2, skipped, billing, tight, tries, flushing, mark>>
    BY DEF PairAppend, Record
<1>2. /\ live = <<>> /\ pc' \in {"idle", "serial"} /\ todo' \in Seq(Kinds)
      /\ TodoInv' /\ PcInv' /\ BurstInv' /\ FirstOwed' = seq + 1
    BY <1>1, NextPicture
<1>3. LedgerNext
    BY PairAppendStep
<1>4. FirstOwed = seq - 1 /\ seq \in Nat /\ seq > 1
    BY <1>1, <1>2, ApiIs DEF FirstOwed, TodoAt, IInv, TypeInv
<1>5. NalsInv' /\ nals' \in Seq(Nat) /\ Len(nals') > Len(nals) /\ Len(nals') \in Nat
  <2>1. PICK x \in Nat : x = seq - 1
      BY <1>4
  <2>2. PICK s : s = <<x, seq>>
      OBVIOUS
  <2>3. s \in Seq(Nat) /\ s # <<>> /\ Len(s) = 2 /\ s[1] = x /\ s[2] = seq
      BY <1>4, <2>1, <2>2
  <2>4. nals' = nals \o s
      BY <1>1, <2>1, <2>2
  <2>5. \A k \in 1 .. Len(s) : s[k] = (FirstOwed - 1) + k
    <3>1. \A k \in 1 .. 2 : k = 1 \/ k = 2
        OBVIOUS
    <3> QED
        BY <1>4, <2>1, <2>3, <3>1
  <2>6. FirstOwed' = FirstOwed + Len(s)
      BY <1>2, <1>4, <2>3
  <2> QED
      BY <1>1, <2>3, <2>4, <2>5, <2>6, Written
<1>6. TypeInv'
  <2>1. mark' \in 0 .. Len(nals')
      BY <1>1, <1>5, ApiIs
  <2> QED
      BY <1>1, <1>2, <1>3, <1>5, <2>1 DEF IInv, TypeInv, LedgerNext, Pcs
<1>7. W2Inv'
    BY <1>1 DEF IInv, W2Inv
<1>8. RoomInv'
    BY <1>1, <1>2, <1>3, NoRoomWanted
<1>9. TightInv'
  <2>1. ~Bounded
      BY <1>1, ApiIs DEF PcInv
  <2> QED
      BY <1>1, <2>1 DEF TightInv, Bounded
<1> QED
    BY <1>2, <1>3, <1>5, <1>6, <1>7, <1>8, <1>9 DEF IInv, LedgerNext

-----------------------------------------------------------------------------
(* The launch of a burst, the decides of its chain and its retirement.      *)

LEMMA SubmitChainNext ==
    ASSUME IInv, SubmitChain
    PROVE  IInv'
<1>1. /\ pc = "retire" /\ pc' = "idle" /\ todo' = <<>> /\ (Wide \/ Len(live) <= 1)
      /\ live' = [live EXCEPT ![Len(live)].phase = "prep"]
      /\ UNCHANGED <<cfg, rcp, acct, seq, anchorSeq, anchorHist, lost, w2, nals, skipped,
                     billing, tight, tries, flushing, mark>>
  <2>1. Wide \/ Len(live) <= 1
      BY LiveIs DEF SubmitChain, RetireFirst
  <2> QED
      BY <2>1 DEF SubmitChain, ledger
<1>2. live # <<>>
    BY <1>1, ApiIs DEF PcInv
<1>3. PICK n \in Nat \ {0} : n = Len(live) /\ DOMAIN live = 1 .. n
    BY <1>2, LiveIs
<1>4. PICK b : b = live[n]
    OBVIOUS
<1>5. BurstIs(b) /\ b.phase = "armed" /\ b.bs = <<>> /\ BurstOf(n)
      /\ seq = End(b) /\ anchorSeq = b.anchor /\ Last(live) = b
  <2>1. n \in 1 .. Len(live) /\ Last(live) = b
      BY <1>2, <1>3, <1>4, NewestIs
  <2>2. BurstIs(b) /\ BurstOf(n) /\ seq = End(b) /\ anchorSeq = b.anchor
      BY <1>2, <1>3, <1>4, <2>1, LiveIs, NewestIs
  <2>3. b.phase = "armed"
      BY <1>1, <2>1, ApiIs DEF PcInv
  <2> QED
      BY <1>4, <2>1, <2>2, <2>3 DEF BurstOf
<1>6. PICK c : c = [b EXCEPT !.phase = "prep"]
    OBVIOUS
<1>7. /\ c \in Burst /\ c.anchor = b.anchor /\ c.nb = b.nb /\ c.bs = b.bs /\ c.phase = "prep"
      /\ c.billed = b.billed /\ End(c) = End(b)
    BY <1>5, <1>6 DEF Burst, BurstIs, End
<1>8. /\ live' \in Seq(Burst) /\ Len(live') = n /\ DOMAIN live' = 1 .. n
      /\ live'[n] = c /\ \A j \in 1 .. n : j # n => live'[j] = live[j]
  <2>1. live' = [live EXCEPT ![n] = c]
      BY <1>1, <1>3, <1>4, <1>6
  <2>2. live \in Seq(Burst) /\ n \in 1 .. Len(live)
      BY <1>3 DEF IInv, TypeInv
  <2> QED
      BY <1>3, <1>7, <2>1, <2>2, ExceptSeq, LenProperties
<1>9. \A j \in 1 .. n : live'[j].anchor = live[j].anchor /\ End(live'[j]) = End(live[j])
                        /\ live'[j].bs = live[j].bs /\ live'[j].nb = live[j].nb
                        /\ live'[j].billed = live[j].billed
    BY <1>4, <1>7, <1>8
<1>10. TypeInv'
    BY <1>1, <1>8 DEF IInv, TypeInv, Pcs
<1>11. Last(live') = c /\ live' # <<>>
  <2>1. Len(live') # 0
      BY <1>8
  <2> QED
      BY <1>8, <2>1, EmptySeq DEF Last
<1>12. BurstInv'
  <2>1. ASSUME NEW j \in 1 .. n  PROVE BurstOf(j)'
    <3>1. BurstOf(j)
        BY <1>3, LiveIs
    <3>2. CASE j = n
      <4>1. \A k \in 1 .. n : ~(j < k)
          BY <3>2
      <4> QED
          BY <1>1, <1>3, <1>4, <1>7, <1>8, <3>1, <3>2, <4>1 DEF BurstOf, End
    <3>3. CASE j # n
      <4>1. live'[j] = live[j] /\ live[j].phase \notin {"armed", "prep"}
          BY <1>3, <1>8, <3>1, <3>3 DEF BurstOf
      <4>2. j + 1 \in 1 .. n
          BY <3>3
      <4>3. live'[j + 1].anchor = live[j + 1].anchor
          BY <1>9, <4>2
      <4> QED
          BY <1>1, <1>3, <1>8, <1>9, <3>1, <4>1, <4>3 DEF BurstOf, End
    <3> QED
        BY <3>2, <3>3
  <2>2. live' # <<>> => seq = End(Last(live')) /\ anchorSeq = Last(live').anchor
      BY <1>5, <1>7, <1>11
  <2>3. cfg.lag = 0 => w2.pic = None /\ Len(live') <= 1
    <3>1. cfg.lag = 0 => w2.pic = None
        BY <1>2 DEF IInv, BurstInv
    <3>2. cfg.lag = 0 => Len(live') <= 1
        BY <1>1, <1>3, <1>8 DEF Wide
    <3> QED
        BY <3>1, <3>2
  <2> QED
      BY <1>1, <1>8, <2>1, <2>2, <2>3 DEF BurstInv, End
<1>13. PcInv'
    BY <1>1 DEF PcInv, SerialPcs
<1>14. TodoInv'
  <2>1. PICK r : r = <<>> /\ DOMAIN r = {}
      OBVIOUS
  <2>2. TodoAt("idle", r, seq, anchorSeq)
      BY <2>1, ApiIs DEF TodoAt, LaunchPcs, PairLast
  <2> QED
      BY <1>1, <2>1, <2>2, TodoPrime
<1>15. FirstOwed' = FirstOwed
  <2>1. 1 \in 1 .. n
      OBVIOUS
  <2> QED
      BY <1>2, <1>9, <1>11, <2>1 DEF FirstOwed
<1>16. W2Inv'
    BY <1>1, <1>2, <1>15 DEF IInv, W2Inv, NothingOut
<1>17. NalsInv'
    BY <1>1, <1>15, NalsKept DEF IInv
<1>18. LedgerNext
  <2>1. \A j \in 1 .. n : BurstOwes(live'[j]) = BurstOwes(live[j])
      BY <1>9 DEF BurstOwes
  <2>2. ApiOwes' = {} /\ ApiOwes = {}
      BY <1>1 DEF ApiOwes
  <2>3. Owed' = Owed
      BY <1>1, <1>3, <1>8, <2>1, <2>2 DEF Owed
  <2> QED
      BY <1>1, <2>3, IdleStep
<1>19. RoomInv'
  <2>1. Len(rcp) + b.nb - Len(b.bs) <= cfg.rcpMax /\ lost = {}
      BY <1>2, <1>5 DEF IInv, RoomInv
  <2> QED
      BY <1>1, <1>7, <1>11, <2>1 DEF RoomInv
<1>20. TightInv'
    BY <1>1, <1>2 DEF IInv, TightInv
<1> QED
    BY <1>10, <1>12, <1>13, <1>14, <1>16, <1>17, <1>18, <1>19, <1>20 DEF IInv, LedgerNext

LEMMA DrainOldestNext ==
    ASSUME IInv, DrainOldest
    PROVE  IInv'
<1>1. /\ pc \in {"drain", "ring", "retire"} /\ live # <<>> /\ w2.pic = None
      /\ (pc = "retire" => Len(live) > 1) /\ live[1].phase = "done"
      /\ nals' = nals \o <<live[1].anchor>> \o live[1].bs /\ live' = Tail(live)
      /\ seq' = seq /\ anchorSeq' = anchorSeq
      /\ UNCHANGED <<cfg, w2, skipped, pc, todo, billing, tight, tries, flushing, mark>>
    BY DEF DrainOldest, Drains, RetireFirst, Record
<1>2. LedgerNext
    BY DrainOldestStep
<1>3. PICK n \in Nat \ {0} : n = Len(live) /\ DOMAIN live = 1 .. n
    BY <1>1, LiveIs
<1>4. /\ live' \in Seq(Burst) /\ Len(live') = n - 1 /\ DOMAIN live' = 1 .. n - 1
      /\ \A j \in 1 .. n - 1 : live'[j] = live[j + 1]
      /\ live' = <<>> <=> n = 1
  <2>1. /\ live' \in Seq(Burst) /\ Len(live') = n - 1 /\ DOMAIN live' = 1 .. n - 1
        /\ \A j \in 1 .. n - 1 : live'[j] = live[j + 1]
      BY <1>1, <1>3, TailIs
  <2>2. live' = <<>> <=> Len(live') = 0
      BY <2>1, EmptySeq
  <2> QED
      BY <2>1, <2>2
<1>5. PICK b : b = live[1]
    OBVIOUS
<1>6. BurstIs(b) /\ BurstOf(1) /\ (\A j \in DOMAIN b.bs : b.bs[j] = b.anchor + j)
    BY <1>3, <1>5, LiveIs DEF BurstOf
<1>7. n # 1 => live' # <<>> /\ Last(live') = live[n] /\ Last(live) = live[n]
  <2>1. ASSUME n # 1  PROVE live' # <<>> /\ Last(live') = live[n] /\ Last(live) = live[n]
    <3>1. live'[n - 1] = live[n]
      <4>1. n - 1 \in 1 .. n - 1 /\ (n - 1) + 1 = n
          BY <2>1
      <4> QED
          BY <1>4, <4>1
    <3> QED
        BY <1>1, <1>3, <1>4, <2>1, <3>1, NewestIs DEF Last
  <2> QED
      BY <2>1
<1>8. FirstOwed = b.anchor /\ FirstOwed' = End(b) + 1
  <2>1. FirstOwed = b.anchor
      BY <1>1, <1>5 DEF FirstOwed
  <2>2. CASE n = 1
    <3>1. live' = <<>> /\ seq = End(b)
        BY <1>1, <1>3, <1>4, <1>5, <2>2, NewestIs
    <3>2. FirstOwed' = seq + 1
        BY <1>1, <3>1 DEF FirstOwed
    <3> QED
        BY <2>1, <3>1, <3>2
  <2>3. CASE n # 1
    <3>1. 1 \in 1 .. n - 1 /\ 1 < Len(live)
        BY <1>3, <2>3
    <3>2. live'[1] = live[2] /\ live' # <<>>
        BY <1>4, <1>7, <2>3, <3>1
    <3>3. live[2].anchor = End(b) + 1
        BY <1>5, <1>6, <3>1 DEF BurstOf
    <3> QED
        BY <2>1, <3>2, <3>3 DEF FirstOwed
  <2> QED
      BY <2>2, <2>3
<1>9. NalsInv' /\ nals' \in Seq(Nat) /\ Len(nals') > Len(nals) /\ Len(nals') \in Nat
  <2>1. PICK h : h = <<b.anchor>>
      OBVIOUS
  <2>2. PICK m \in Nat : m = Len(b.bs) /\ DOMAIN b.bs = 1 .. m
    <3>1. DOMAIN b.bs = 1 .. Len(b.bs) /\ Len(b.bs) \in Nat
        BY <1>6, LenProperties DEF BurstIs
    <3> QED
        BY <3>1
  <2>3. h \in Seq(Nat) /\ Len(h) = 1 /\ h[1] = b.anchor
      BY <1>6, <2>1 DEF BurstIs
  <2>4. PICK s : s = h \o b.bs
      OBVIOUS
  <2>5. /\ s \in Seq(Nat) /\ Len(s) = 1 + m
        /\ \A k \in 1 .. 1 + m : s[k] = IF k <= 1 THEN h[k] ELSE b.bs[k - 1]
    <3>1. /\ h \o b.bs \in Seq(Nat) /\ Len(h \o b.bs) = Len(h) + Len(b.bs)
          /\ \A k \in 1 .. Len(h) + Len(b.bs) :
                 (h \o b.bs)[k] = IF k <= Len(h) THEN h[k] ELSE b.bs[k - Len(h)]
        BY <1>6, <2>3, ConcatProperties DEF BurstIs
    <3> QED
        BY <2>2, <2>3, <2>4, <3>1
  <2>6. s # <<>>
    <3>1. Len(s) # 0
        BY <2>5
    <3> QED
        BY <3>1, EmptySeq
  <2>7. nals' = nals \o s
    <3>1. nals \in Seq(Nat) /\ h \in Seq(Nat) /\ b.bs \in Seq(Nat)
        BY <1>6, <2>3 DEF IInv, TypeInv, BurstIs
    <3>2. nals' = (nals \o h) \o b.bs
        BY <1>1, <1>5, <2>1
    <3>3. ASSUME NEW x \in Seq(Nat), NEW y \in Seq(Nat), NEW z \in Seq(Nat)
          PROVE  (x \o y) \o z = x \o (y \o z)
        BY ConcatAssociative, SMTT(60)
    <3>4. (nals \o h) \o b.bs = nals \o (h \o b.bs)
        BY <3>1, <3>3
    <3> QED
        BY <2>4, <3>2, <3>4
  <2>8. b.anchor \in Nat \ {0} /\ End(b) = b.anchor + m
      BY <1>6, <2>2 DEF BurstIs
  <2>9. \A k \in 1 .. Len(s) : s[k] = (FirstOwed - 1) + k
    <3>1. ASSUME NEW k \in 1 .. 1 + m  PROVE s[k] = (b.anchor - 1) + k
      <4>1. CASE k = 1
          BY <2>3, <2>5, <2>8, <4>1
      <4>2. CASE k # 1
        <5>1. k - 1 \in 1 .. m /\ ~(k <= 1)
            BY <4>2
        <5>2. s[k] = b.anchor + (k - 1)
            BY <1>6, <2>2, <2>5, <5>1
        <5> QED
            BY <2>8, <5>2
      <4> QED
          BY <4>1, <4>2
    <3> QED
        BY <1>8, <2>5, <3>1
  <2>10. FirstOwed' = FirstOwed + Len(s)
      BY <1>8, <2>5, <2>8
  <2> QED
      BY <1>1, <2>5, <2>6, <2>7, <2>9, <2>10, Written
<1>10. TypeInv'
  <2>1. mark' \in 0 .. Len(nals')
    <3>1. mark \in 0 .. Len(nals) /\ Len(nals) \in Nat /\ mark' = mark
        BY <1>1, ApiIs
    <3> QED
        BY <1>9, <3>1
  <2> QED
      BY <1>1, <1>2, <1>4, <1>9, <2>1 DEF IInv, TypeInv, LedgerNext
<1>11. BurstInv'
  <2>1. ASSUME NEW j \in 1 .. n - 1  PROVE BurstOf(j)'
    <3>1. j + 1 \in 1 .. n /\ BurstOf(j + 1) /\ live'[j] = live[j + 1]
        BY <1>3, <1>4, LiveIs
    <3>2. j + 1 = Len(live) <=> j = Len(live')
        BY <1>3, <1>4
    <3>3. \A k \in 1 .. n - 1 : j < k => k + 1 \in 1 .. n /\ j + 1 < k + 1 /\ live'[k] = live[k + 1]
        BY <1>4
    <3>4. j < Len(live') => live'[j + 1].anchor = End(live'[j]) + 1
      <4>1. ASSUME j < Len(live')
            PROVE  j + 1 \in 1 .. n - 1 /\ j + 1 < Len(live) /\ live'[j + 1] = live[(j + 1) + 1]
          BY <1>3, <1>4, <4>1
      <4> QED
          BY <3>1, <4>1 DEF BurstOf
    <3>5. \A k \in 1 .. n - 1 : j < k => End(live'[j]) < live'[k].anchor
        BY <1>3, <3>1, <3>3 DEF BurstOf
    <3> QED
        BY <1>1, <1>4, <3>1, <3>2, <3>4, <3>5 DEF BurstOf, End
  <2>2. live' # <<>> => seq = End(Last(live')) /\ anchorSeq = Last(live').anchor
      BY <1>1, <1>4, <1>7 DEF IInv, BurstInv
  <2>3. cfg.lag = 0 => w2.pic = None /\ Len(live') <= 1
    <3>1. cfg.lag = 0 => Len(live) <= 1 \/ Len(live) = 2
        BY DEF IInv, BurstInv
    <3>2. cfg.lag = 0 => n <= 2
        BY <1>3, <3>1
    <3> QED
        BY <1>1, <1>4, <3>2
  <2> QED
      BY <1>1, <1>4, <2>1, <2>2, <2>3 DEF BurstInv, End
<1>12. PcInv'
  <2>1. PcInv
      BY ApiIs
  <2>2. pc = "retire" => /\ live' # <<>> /\ Last(live').phase = "armed"
                         /\ Last(live').nb = Len(todo) - 1
    <3>1. ASSUME pc = "retire"  PROVE n # 1
      <4>1. Len(live) > 1
          BY <1>1, <3>1
      <4> QED
          BY <1>3, <4>1
    <3> QED
        BY <1>7, <2>1, <3>1 DEF PcInv
  <2>3. pc = "drain" => Len(live') <= 1 \/ Preparing' = {}
    <3>1. ASSUME Preparing = {}, NEW j \in 1 .. n - 1  PROVE live'[j].phase # "prep"
      <4>1. j + 1 \in 1 .. n /\ live'[j] = live[j + 1]
          BY <1>4
      <4> QED
          BY <1>3, <3>1, <4>1 DEF Preparing
    <3>2. Preparing = {} => Preparing' = {}
        BY <1>4, <3>1 DEF Preparing
    <3>3. Len(live) <= 1 => Len(live') <= 1
        BY <1>3, <1>4
    <3> QED
        BY <2>1, <3>2, <3>3 DEF PcInv
  <2> QED
      BY <1>1, <2>2, <2>3 DEF PcInv, SerialPcs
<1>13. TodoInv'
    BY <1>1, ApiIs, TodoPrime
<1>14. W2Inv'
    BY <1>1 DEF IInv, W2Inv
<1>15. RoomInv'
  <2>1. live' # <<>> => Last(live') = Last(live)
      BY <1>4, <1>7
  <2> QED
      BY <1>1, <1>2, <2>1, RoomKept
<1>16. TightInv'
    BY <1>1 DEF IInv, TightInv
<1> QED
    BY <1>2, <1>9, <1>10, <1>11, <1>12, <1>13, <1>14, <1>15, <1>16 DEF IInv, LedgerNext

\* The room a launch finds when no other burst is in flight.
AnchorAlone == Owed \subseteq {w2.pic} \cup {seq} /\ anchorSeq = seq /\ pc # "failed"
Roomy == Len(rcp) + cfg.maxB <= cfg.rcpMax

LEMMA AnchorRoom == TypeInv /\ LedgerInv /\ HistInv /\ HeadWaits /\ AnchorAlone => Roomy
<1> SUFFICES ASSUME TypeInv, LedgerInv, HistInv, HeadWaits, anchorSeq = seq, pc # "failed",
                    Owed \subseteq {w2.pic} \cup {seq}
             PROVE  Len(rcp) + cfg.maxB <= cfg.rcpMax
    BY DEF AnchorAlone, Roomy
<1>1. PICK f \in 0 .. seq : LedgerOf(f) /\ SizesOf(f)
    BY DEF LedgerInv
<1>2. seq \in Nat /\ Len(rcp) \in Nat /\ Len(acct) \in Nat /\ Len(acct) + Len(rcp) = seq
    BY <1>1 DEF TypeInv, LedgerOf
<1>3. /\ cfg.rcpMax \in Nat /\ cfg.lag \in Nat /\ cfg.maxB \in Nat \ {0}
      /\ cfg.lag < cfg.ring /\ cfg.ring \in Nat
      /\ cfg.rcpMax > (cfg.lag + 1) * (cfg.maxB + 1)
    BY CfgIs DEF SettingIs
<1>4. PICK x \in Nat : x = cfg.lag * (cfg.maxB + 1)
    BY <1>3, Times
<1>5. cfg.rcpMax > x + cfg.maxB + 1
    BY <1>3, <1>4, Times
<1>6. CASE rcp = <<>>
    BY <1>2, <1>3, <1>5, <1>6
<1>7. CASE rcp # <<>> /\ rcp[1].filled
  <2>1. 1 \in 1 .. Len(rcp)
      BY <1>2, <1>7, EmptySeq DEF TypeInv
  <2>2. rcp[1].seq = Len(acct) + 1
      BY <1>1, <2>1, PendingIs
  <2>3. PICK b \in Nat : b = PopBound(anchorSeq, anchorHist)
      BY BoundIs
  <2>4. Len(acct) + 1 >= b
      BY <1>7, <2>2, <2>3 DEF HeadWaits
  <2>5. seq - b <= x
    <3>1. CASE cfg.lag = 0
        BY <1>2, <1>4, <2>3, <3>1 DEF PopBound
    <3>2. CASE cfg.lag # 0
      <4>1. cfg.lag \in 1 .. cfg.ring /\ b = anchorHist[cfg.lag]
          BY <1>3, <2>3, <3>2 DEF PopBound
      <4> QED
          BY <1>4, <4>1 DEF HistInv
    <3> QED
        BY <3>1, <3>2
  <2>6. cfg.maxB \in Nat /\ cfg.rcpMax \in Nat
      BY <1>3
  <2> QED
      BY <1>2, <1>5, <2>4, <2>5, <2>6
<1>8. CASE rcp # <<>> /\ ~rcp[1].filled
  <2>1. 1 \in 1 .. Len(rcp)
      BY <1>2, <1>8, EmptySeq DEF TypeInv
  <2>2. ~(1 <= f - Len(acct)) /\ Len(acct) <= f
      BY <1>1, <1>8, <2>1, PendingIs DEF LedgerOf
  <2>3. f = Len(acct)
      BY <1>2, <2>2
  <2>4. Cardinality(Owed) = seq - f
      BY <1>1, CountOwed
  <2>5. PICK p : p = w2.pic
      OBVIOUS
  <2>6. IsFiniteSet({p} \cup {seq}) /\ Cardinality({p} \cup {seq}) <= 2
    <3>1. IsFiniteSet({p}) /\ Cardinality({p}) = 1
        BY FS_Singleton
    <3> QED
        BY <3>1, FS_AddElement
  <2>7. Cardinality(Owed) <= 2
    <3>1. IsFiniteSet(Owed) /\ Cardinality(Owed) <= Cardinality({p} \cup {seq})
        BY <2>5, <2>6, FS_Subset
    <3>2. Cardinality(Owed) \in Nat /\ Cardinality({p} \cup {seq}) \in Nat
        BY <2>6, <3>1, FS_CardinalityType
    <3> QED
        BY <2>6, <3>1, <3>2
  <2>8. cfg.maxB \in Nat /\ cfg.rcpMax \in Nat
      BY <1>3
  <2>9. Len(rcp) <= 2
      BY <1>2, <2>3, <2>4, <2>7
  <2> QED
      BY <1>2, <1>5, <2>8, <2>9
<1> QED
    BY <1>6, <1>7, <1>8

\* No burst in flight has a picture behind the newest decide.
LEMMA EndsKnown ==
    ASSUME IInv, NEW j \in 1 .. Len(live)
    PROVE  End(live[j]) <= seq /\ End(live[j]) \in Nat /\ seq \in Nat
<1>1. /\ live # <<>> /\ Len(live) \in 1 .. Len(live) /\ seq = End(live[Len(live)])
      /\ BurstIs(live[j]) /\ BurstIs(live[Len(live)])
  <2>1. live # <<>>
      BY LiveIs
  <2> QED
      BY <2>1, LiveIs, NewestIs
<1>2. CASE j = Len(live)
    BY <1>1, <1>2 DEF BurstIs
<1>3. CASE j # Len(live)
  <2>1. j < Len(live)
    <3>1. Len(live) \in Nat
        BY LiveIs
    <3> QED
        BY <1>3, <3>1
  <2>2. End(live[j]) < live[Len(live)].anchor
      BY <1>1, <2>1, BurstsApart
  <2> QED
      BY <1>1, <2>2 DEF BurstIs
<1> QED
    BY <1>2, <1>3

LEMMA LaunchBursts ==
    ASSUME IInv, Launch
    PROVE  BurstInv'
<1>1. /\ pc = "ring" /\ pc' = "retire" /\ (~Wide => w2.pic = None)
      /\ seq' = seq + 1 /\ anchorSeq' = seq + 1 /\ cfg' = cfg /\ w2' = w2
    BY LaunchStep DEF Launch
<1>2. PICK n \in Nat : n = Len(live) /\ DOMAIN live = 1 .. n
    BY LiveIs
<1>3. PICK c : c = NewBurst
    OBVIOUS
<1>4. /\ Len(live') = n + 1 /\ DOMAIN live' = 1 .. n + 1 /\ live'[n + 1] = c
      /\ \A j \in 1 .. n : live'[j] = live[j]
      /\ End(c) = seq + 1
    BY <1>2, <1>3, LaunchIs
<1>5. /\ c.anchor = seq + 1 /\ c.bs = <<>> /\ c.nb = Len(todo) - 1 /\ ~c.billed
      /\ c.phase = "armed"
    BY <1>3 DEF NewBurst
<1>6. /\ seq \in Nat /\ Len(todo) \in Nat \ {0} /\ Len(todo) <= cfg.maxB + 1
      /\ cfg.maxB \in Nat /\ cfg.lag \in Nat
    BY LaunchIs, CfgIs DEF IInv, TypeInv, SettingIs
<1>7. ASSUME NEW j \in 1 .. n  PROVE BurstOf(j)'
  <2>1. BurstOf(j) /\ live'[j] = live[j] /\ live[j].phase \notin {"armed", "prep"}
      BY <1>1, <1>2, <1>4, LiveIs DEF BurstOf
  <2>2. End(live[j]) <= seq /\ End(live[j]) \in Nat
      BY <1>2, EndsKnown
  <2>3. live'[j + 1].anchor = End(live[j]) + 1
    <3>1. CASE j = n
      <4>1. seq = End(live[n])
        <5>1. live # <<>>
            BY <1>2, <3>1, LiveIs
        <5> QED
            BY <1>2, <5>1, NewestIs
      <4> QED
          BY <1>4, <1>5, <3>1, <4>1
    <3>2. CASE j # n
      <4>1. j + 1 \in 1 .. n /\ j < Len(live)
          BY <1>2, <3>2
      <4> QED
          BY <1>4, <2>1, <4>1 DEF BurstOf
    <3> QED
        BY <3>1, <3>2
  <2>4. \A k \in 1 .. n + 1 : j < k => End(live[j]) < live'[k].anchor
    <3>1. ASSUME NEW k \in 1 .. n + 1, j < k  PROVE End(live[j]) < live'[k].anchor
      <4>1. CASE k = n + 1
          BY <1>4, <1>5, <1>6, <2>2, <4>1
      <4>2. CASE k # n + 1
        <5>1. k \in 1 .. n
            BY <4>2
        <5> QED
            BY <1>2, <1>4, <2>1, <3>1, <5>1 DEF BurstOf
      <4> QED
          BY <4>1, <4>2
    <3> QED
        BY <3>1
  <2> QED
      BY <1>1, <1>4, <2>1, <2>3, <2>4 DEF BurstOf, End
<1>8. BurstOf(n + 1)'
  <2>1. Len(c.bs) = 0 /\ DOMAIN c.bs = {}
      BY <1>5
  <2>2. \A k \in 1 .. n + 1 : ~(n + 1 < k)
      OBVIOUS
  <2>3. c.anchor > 0 /\ Len(c.bs) <= c.nb /\ c.nb <= cfg.maxB
      BY <1>5, <1>6, <2>1
  <2> QED
      BY <1>1, <1>4, <1>5, <2>1, <2>2, <2>3 DEF BurstOf
<1>9. \A j \in DOMAIN live' : BurstOf(j)'
  <2>1. \A j \in 1 .. n + 1 : j \in 1 .. n \/ j = n + 1
      OBVIOUS
  <2> QED
      BY <1>4, <1>7, <1>8, <2>1
<1>10. seq' = End(Last(live')) /\ anchorSeq' = Last(live').anchor
    BY <1>1, <1>4, <1>5 DEF Last
<1>11. cfg.lag = 0 => /\ w2.pic = None
                      /\ Len(live') <= 1 \/ (Len(live') = 2 /\ ~live'[2].billed)
  <2>1. ASSUME cfg.lag = 0
        PROVE  w2.pic = None /\ (Len(live') <= 1 \/ (Len(live') = 2 /\ ~live'[2].billed))
    <3>1. Len(live) <= 1
        BY <1>1, <2>1 DEF IInv, BurstInv
    <3>2. n = 0 \/ n = 1
        BY <1>2, <3>1
    <3> QED
        BY <1>1, <1>4, <1>5, <2>1, <3>2 DEF Wide
  <2> QED
      BY <2>1
<1> QED
    BY <1>1, <1>9, <1>10, <1>11 DEF BurstInv, End

LEMMA LaunchNext ==
    ASSUME IInv, Launch
    PROVE  IInv'
<1>1. /\ pc = "ring" /\ pc' = "retire" /\ ~LedgerTight /\ (~Wide => w2.pic = None)
      /\ UNCHANGED <<cfg, w2, nals, skipped, todo, billing, tight, tries, flushing, mark>>
    BY DEF Launch, RingFull
<1>2. LedgerNext /\ seq' = seq + 1 /\ anchorSeq' = seq + 1
    BY LaunchStep
<1>3. PICK n \in Nat : n = Len(live) /\ DOMAIN live = 1 .. n
    BY LiveIs
<1>4. PICK c : c = NewBurst
    OBVIOUS
<1>5. /\ live' \in Seq(Burst) /\ Len(live') = n + 1 /\ DOMAIN live' = 1 .. n + 1
      /\ live'[n + 1] = c /\ (\A j \in 1 .. n : live'[j] = live[j]) /\ End(c) = seq + 1
    BY <1>3, <1>4, LaunchIs
<1>6. /\ c.anchor = seq + 1 /\ Len(c.bs) = 0 /\ c.nb = Len(todo) - 1 /\ c.phase = "armed"
      /\ ~c.billed
    BY <1>4 DEF NewBurst
<1>7. /\ seq \in Nat /\ anchorSeq \in Nat /\ Len(todo) \in Nat \ {0}
      /\ Len(todo) <= cfg.maxB + 1 /\ cfg.maxB \in Nat /\ cfg.rcpMax \in Nat
    BY LaunchIs, CfgIs DEF IInv, TypeInv, SettingIs
<1>8. live' # <<>> /\ Last(live') = c
  <2>1. Len(live') # 0
      BY <1>5
  <2>2. live' # <<>>
      BY <1>5, <2>1, EmptySeq
  <2> QED
      BY <1>5, <2>2 DEF Last
<1>9. TypeInv'
    BY <1>1, <1>2, <1>5 DEF IInv, TypeInv, LedgerNext, Pcs
<1>10. BurstInv'
    BY LaunchBursts
<1>11. PcInv'
    BY <1>1, <1>6, <1>8 DEF PcInv, SerialPcs
<1>12. TodoInv'
  <2>1. PICK s \in Nat : s = seq + 1
      BY <1>7
  <2>2. s <= s /\ s - s <= cfg.maxB
      BY <1>7
  <2>3. TodoAt("retire", todo, s, s)
      BY <1>1, <2>2, ApiIs DEF TodoAt, LaunchPcs
  <2> QED
      BY <1>1, <1>2, <2>1, <2>3, TodoPrime
<1>13. FirstOwed' = FirstOwed
  <2>1. CASE live = <<>>
    <3>1. n = 0
        BY <1>3, <2>1, LiveIs
    <3>2. live'[1].anchor = seq + 1
        BY <1>5, <1>6, <3>1
    <3> QED
        BY <1>1, <1>8, <2>1, <3>2 DEF FirstOwed
  <2>2. CASE live # <<>>
    <3>1. 1 \in 1 .. n
        BY <1>3, <2>2, LiveIs
    <3> QED
        BY <1>5, <1>8, <2>2, <3>1 DEF FirstOwed
  <2> QED
      BY <2>1, <2>2
<1>14. W2Inv'
    BY <1>1, <1>13 DEF IInv, W2Inv, NothingOut
<1>15. NalsInv'
    BY <1>1, <1>13, NalsKept DEF IInv
<1>16. RoomInv'
  <2>1. lost' = {} /\ Len(rcp) \in Nat /\ Len(rcp') \in Nat /\ Len(rcp') <= Len(rcp) + 1
    <3>1. lost' = lost /\ rcp' \in Seq(Entry) /\ Len(rcp') <= Len(rcp) + (seq' - seq)
        BY <1>2 DEF LedgerNext
    <3>2. seq' - seq = 1
        BY <1>2, <1>7
    <3> QED
        BY <3>1, <3>2 DEF IInv, TypeInv, RoomInv
  <2>2. Len(rcp') + (Len(todo) - 1) <= cfg.rcpMax
    <3>1. CASE live # <<>>
      <4>1. Len(rcp) + Len(todo) <= cfg.rcpMax
          BY <1>1, <1>7, <2>1, <3>1 DEF LedgerTight
      <4> QED
          BY <1>7, <2>1, <4>1
    <3>2. CASE live = <<>>
      <4>1. AnchorAlone'
        <5>1. n = 0
            BY <1>3, <3>2, LiveIs
        <5>2. ApiOwes' = {} /\ DOMAIN live' = {1} /\ live'[1] = c
            BY <1>1, <1>5, <5>1 DEF ApiOwes
        <5>3. BurstOwes(c) \subseteq {seq + 1}
            BY <1>5, <1>6, <1>7 DEF BurstOwes
        <5> QED
            BY <1>1, <1>2, <5>2, <5>3 DEF Owed, AnchorAlone
      <4>2. TypeInv' /\ LedgerInv' /\ HistInv' /\ HeadWaits'
          BY <1>2, <1>9 DEF LedgerNext
      <4>3. Roomy'
          BY <4>1, <4>2, AnchorRoom, PTL
      <4> QED
          BY <1>1, <1>7, <2>1, <4>3 DEF Roomy
    <3> QED
        BY <3>1, <3>2
  <2>3. Len(rcp') + c.nb - Len(c.bs) <= cfg.rcpMax
      BY <1>6, <1>7, <2>1, <2>2
  <2> QED
      BY <1>1, <1>8, <2>1, <2>3 DEF RoomInv
<1>17. TightInv'
    BY <1>1 DEF IInv, TightInv, LaunchPcs
<1> QED
    BY <1>2, <1>9, <1>10, <1>11, <1>12, <1>14, <1>15, <1>16, <1>17 DEF IInv, LedgerNext

LEMMA ChainDecidesNext ==
    ASSUME IInv, NEW i \in DOMAIN live, ChainDecides(i)
    PROVE  IInv'
<1>1. /\ pc \in {"idle", "waitall", "drain", "emptied", "failed"}
      /\ live[i].phase = "prep" /\ Len(live[i].bs) < live[i].nb
      /\ seq = live[i].anchor + Len(live[i].bs) /\ live # <<>>
      /\ UNCHANGED <<cfg, w2, nals, skipped, pc, todo, billing, tight, tries, flushing, mark>>
    BY ChainDecidesIs
<1>2. LedgerNext /\ seq' = seq + 1 /\ anchorSeq' = anchorSeq
    BY ChainDecidesStep
<1>3. PICK n \in Nat \ {0} : n = Len(live) /\ DOMAIN live = 1 .. n /\ i = n
    BY <1>1, LiveIs, ChainDecidesIs
<1>4. PICK b : b = live[n]
    OBVIOUS
<1>5. PICK s : s = Append(b.bs, seq + 1)
    OBVIOUS
<1>6. PICK c : c = [b EXCEPT !.bs = s]
    OBVIOUS
<1>7. /\ live' \in Seq(Burst) /\ Len(live') = n /\ DOMAIN live' = 1 .. n
      /\ (\A j \in 1 .. n : j # n => live'[j] = live[j])
      /\ live'[n] = c /\ End(c) = seq + 1 /\ s \in Seq(Nat) /\ Len(s) = Len(b.bs) + 1
    BY <1>3, <1>4, <1>5, <1>6, ChainDecidesIs
<1>8. /\ BurstIs(b) /\ BurstOf(n) /\ b.phase = "prep" /\ Len(b.bs) < b.nb /\ b.nb <= cfg.maxB
      /\ seq = b.anchor + Len(b.bs) /\ anchorSeq = b.anchor /\ Last(live) = b
  <2>1. n \in 1 .. Len(live)
      BY <1>3
  <2>2. BurstIs(b) /\ BurstOf(n) /\ b.nb <= cfg.maxB
      BY <1>4, <2>1, LiveIs DEF BurstOf
  <2> QED
      BY <1>1, <1>3, <1>4, <2>2, NewestIs
<1>9. /\ c.anchor = b.anchor /\ c.nb = b.nb /\ c.bs = s /\ c.phase = b.phase
      /\ c.billed = b.billed
    BY <1>6, <1>8 DEF BurstIs, Burst
<1>10. /\ seq \in Nat /\ anchorSeq \in Nat /\ cfg.maxB \in Nat /\ cfg.rcpMax \in Nat
       /\ b.anchor \in Nat \ {0} /\ b.nb \in Nat /\ Len(b.bs) \in Nat /\ b.bs \in Seq(Nat)
    BY <1>8, CfgIs DEF IInv, TypeInv, SettingIs, BurstIs
<1>11. live' # <<>> /\ Last(live') = c
  <2>1. Len(live') # 0
      BY <1>7
  <2>2. live' # <<>>
      BY <1>7, <2>1, EmptySeq
  <2> QED
      BY <1>7, <2>2 DEF Last
<1>12. TypeInv'
    BY <1>1, <1>2, <1>7 DEF IInv, TypeInv, LedgerNext
<1>13. BurstInv'
  <2>1. ASSUME NEW j \in 1 .. n, j # n  PROVE BurstOf(j)'
    <3>1. BurstOf(j) /\ live'[j] = live[j]
        BY <1>3, <1>7, <2>1, LiveIs
    <3>2. \A k \in 1 .. n : live'[k].anchor = live[k].anchor
        BY <1>4, <1>7, <1>9
    <3>3. j + 1 \in 1 .. n
        BY <2>1
    <3> QED
        BY <1>1, <1>3, <1>7, <3>1, <3>2, <3>3 DEF BurstOf, End
  <2>2. BurstOf(n)'
    <3>1. \A k \in 1 .. n : ~(n < k)
        OBVIOUS
    <3>2. ASSUME NEW k \in 1 .. Len(s)  PROVE s[k] = b.anchor + k
      <4>1. CASE k = Len(s)
        <5>1. s[Len(b.bs) + 1] = seq + 1
            BY <1>5, <1>10, AppendProperties
        <5> QED
            BY <1>7, <1>8, <1>10, <4>1, <5>1
      <4>2. CASE k # Len(s)
        <5>1. k \in 1 .. Len(b.bs)
            BY <1>7, <1>10, <4>2
        <5>2. s[k] = b.bs[k] /\ k \in DOMAIN b.bs
            BY <1>5, <1>10, <5>1, AppendProperties, LenProperties
        <5> QED
            BY <1>4, <1>8, <5>2 DEF BurstOf
      <4> QED
          BY <4>1, <4>2
    <3>3. \A k \in DOMAIN c.bs : c.bs[k] = c.anchor + k
        BY <1>7, <1>9, <3>2, LenProperties
    <3>4. c.anchor > 0 /\ Len(c.bs) <= c.nb /\ c.nb <= cfg.maxB
        BY <1>7, <1>8, <1>9, <1>10, SMTT(40)
    <3> QED
        BY <1>1, <1>7, <1>8, <1>9, <3>1, <3>3, <3>4 DEF BurstOf
  <2>3. \A j \in DOMAIN live' : BurstOf(j)'
      BY <1>7, <2>1, <2>2
  <2>4. seq' = End(Last(live')) /\ anchorSeq' = Last(live').anchor
      BY <1>2, <1>7, <1>8, <1>9, <1>11
  <2>5. cfg.lag = 0 =>
           /\ w2.pic = None
           /\ Len(live') <= 1 \/ (pc \in {"retire", "failed"} /\ Len(live') = 2 /\ ~live'[2].billed)
    <3>1. \A j \in 1 .. n : live'[j].billed = live[j].billed
        BY <1>4, <1>7, <1>9
    <3>2. n = 2 => live'[2].billed = live[2].billed
        BY <3>1
    <3>3. cfg.lag = 0 =>
             /\ w2.pic = None
             /\ Len(live) <= 1 \/ (pc \in {"retire", "failed"} /\ Len(live) = 2 /\ ~live[2].billed)
        BY <1>1 DEF IInv, BurstInv
    <3> QED
        BY <1>3, <1>7, <3>2, <3>3
  <2> QED
      BY <1>1, <2>3, <2>4, <2>5 DEF BurstInv, End
<1>14. Preparing' = Preparing
    BY <1>3, <1>4, <1>7, <1>8, <1>9 DEF Preparing
<1>15. PcInv'
  <2>1. PcInv
      BY ApiIs
  <2> QED
      BY <1>1, <1>3, <1>7, <1>14, <2>1 DEF PcInv, SerialPcs, NothingOut
<1>16. TodoInv'
  <2>1. PICK t \in Nat : t = seq + 1
      BY <1>10
  <2>2. anchorSeq <= t /\ t - anchorSeq <= cfg.maxB
    <3>1. PICK m \in Nat : m = Len(b.bs)
        BY <1>10
    <3>2. t = anchorSeq + m + 1 /\ m < b.nb /\ b.nb <= cfg.maxB
        BY <1>8, <1>10, <2>1, <3>1
    <3>3. b.nb \in Nat /\ cfg.maxB \in Nat /\ anchorSeq \in Nat
        BY <1>10
    <3> QED
        BY <3>2, <3>3
  <2>3. TodoAt(pc, todo, t, anchorSeq)
      BY <1>1, <2>2, ApiIs DEF TodoAt, LaunchPcs
  <2> QED
      BY <1>1, <1>2, <2>1, <2>3, TodoPrime
<1>17. FirstOwed' = FirstOwed
  <2>1. live'[1].anchor = live[1].anchor
    <3>1. \A j \in 1 .. n : live'[j].anchor = live[j].anchor
        BY <1>4, <1>7, <1>9
    <3>2. 1 \in 1 .. n
        OBVIOUS
    <3> QED
        BY <3>1, <3>2
  <2> QED
      BY <1>1, <1>11, <2>1 DEF FirstOwed
<1>18. W2Inv'
    BY <1>1, <1>11, <1>17 DEF IInv, W2Inv, NothingOut
<1>19. NalsInv'
    BY <1>1, <1>17, NalsKept DEF IInv
<1>20. RoomInv'
  <2>1. lost' = {} /\ Len(rcp) \in Nat /\ Len(rcp') \in Nat /\ Len(rcp') <= Len(rcp) + 1
    <3>1. lost' = lost /\ rcp' \in Seq(Entry) /\ Len(rcp') <= Len(rcp) + (seq' - seq)
        BY <1>2 DEF LedgerNext
    <3>2. seq' - seq = 1
        BY <1>2, <1>10
    <3> QED
        BY <3>1, <3>2 DEF IInv, TypeInv, RoomInv
  <2>2. Len(rcp) + b.nb - Len(b.bs) <= cfg.rcpMax
      BY <1>1, <1>8 DEF IInv, RoomInv
  <2>3. Len(rcp') + c.nb - Len(c.bs) <= cfg.rcpMax
    <3>1. Len(c.bs) = Len(b.bs) + 1 /\ c.nb = b.nb
        BY <1>7, <1>9
    <3> QED
        BY <1>10, <2>1, <2>2, <3>1
  <2> QED
      BY <1>1, <1>11, <2>1, <2>3 DEF RoomInv
<1>21. TightInv'
    BY <1>1 DEF IInv, TightInv
<1> QED
    BY <1>2, <1>12, <1>13, <1>15, <1>16, <1>18, <1>19, <1>20, <1>21 DEF IInv, LedgerNext

-----------------------------------------------------------------------------
(* The invariant holds.                                                     *)

LEMMA InitInv ==
    ASSUME Init
    PROVE  IInv
<1>1. /\ cfg \in Settings /\ SettingIs(cfg) /\ rcp = <<>> /\ acct = <<>> /\ seq = 0 /\ lost = {}
      /\ anchorSeq = 0 /\ anchorHist = [k \in 1 .. cfg.ring |-> 0] /\ live = <<>>
      /\ w2 = NoSlice /\ nals = <<>> /\ pc = "idle" /\ todo = <<>> /\ billing = 1
      /\ tight = TRUE /\ tries = 0 /\ flushing = "no" /\ mark = 0
    BY SettingsAssumption DEF Init, SettingIs
<1>2. /\ cfg.ring \in Nat \ {0} /\ cfg.maxB \in Nat
    BY <1>1 DEF SettingIs
<1>3. anchorHist \in Seq(Nat) /\ Len(anchorHist) = cfg.ring
    BY <1>1, <1>2
<1>4. TypeInv
  <2>1. w2 \in Slice
      BY <1>1 DEF NoSlice, Slice, None
  <2>2. /\ rcp \in Seq(Entry) /\ acct \in Seq(Entry) /\ live \in Seq(Burst)
        /\ nals \in Seq(Nat) /\ todo \in Seq(Kinds) /\ mark \in 0 .. Len(nals)
      BY <1>1
  <2>3. pc \in Pcs
      BY <1>1 DEF Pcs
  <2>4. /\ seq \in Nat /\ anchorSeq \in Nat /\ billing \in Nat \ {0} /\ tight \in BOOLEAN
        /\ tries \in Nat /\ flushing \in {"no", "popping", "popped", "tail"}
      BY <1>1
  <2> QED
      BY <1>1, <1>3, <2>1, <2>2, <2>3, <2>4 DEF TypeInv
<1>5. DOMAIN live = {} /\ DOMAIN todo = {} /\ DOMAIN nals = {} /\ Len(rcp) = 0 /\ Len(acct) = 0
      /\ Len(live) = 0
    BY <1>1
<1>6. BurstInv
    BY <1>1, <1>5 DEF BurstInv
<1>7. PcInv
    BY <1>1, <1>5 DEF PcInv, SerialPcs
<1>8. TodoInv
    BY <1>1, <1>2, <1>5 DEF TodoInv, TodoAt, PairLast, LaunchPcs
<1>9. HistInv
  <2>1. ASSUME NEW k \in 1 .. cfg.ring  PROVE 0 <= k * (cfg.maxB + 1)
    <3>1. PICK j \in Nat, m \in Nat : k = j + 1 /\ m = cfg.maxB + 1
        BY <1>2
    <3>2. (j + 1) * m = j * m + m /\ j * m \in Nat
        BY Times
    <3> QED
        BY <3>1, <3>2
  <2> QED
      BY <1>1, <2>1 DEF HistInv
<1>10. W2Inv
    BY <1>1 DEF W2Inv, NoSlice
<1>11. NalsInv
    BY <1>1, <1>5 DEF NalsInv, NalsInCodingOrder, LastNal, Settled, FirstOwed, NoSlice
<1>12. LedgerInv
  <2>1. 0 \in 0 .. seq /\ (1 .. seq) = {} /\ (1 .. 0) = {}
      BY <1>1
  <2>2. LedgerOf(0) /\ SizesOf(0)
      BY <1>1, <1>5, <2>1 DEF LedgerOf, SizesOf
  <2> QED
      BY <2>1, <2>2 DEF LedgerInv
<1>13. HeadWaits /\ RoomInv /\ TightInv
    BY <1>1 DEF HeadWaits, RoomInv, TightInv, LaunchPcs, NoSlice
<1> QED
    BY <1>4, <1>6, <1>7, <1>8, <1>9, <1>10, <1>11, <1>12, <1>13 DEF IInv

\* The emit worker's slice is collected only by an encode that goes on.
LEMMA WantedAlive ==
    ASSUME W2Wanted
    PROVE  pc \in {"serial", "decided", "pair", "gate", "emptied", "bill", "ring", "drain", "retire"}
    BY DEF W2Wanted, NeedsBill, ToBill, Drains, RetireFirst

LEMMA ApiStep ==
    ASSUME IInv, Api
    PROVE  IInv'
<1>1. CASE \E g \in SerialGroups : StartSerial(g)
    BY <1>1, StartSerialMoves, MoveStep
<1>2. CASE \E n \in 1 .. cfg.maxB : StartBurst(n)
    BY <1>2, StartBurstMoves, MoveStep
<1>3. CASE W2Wanted /\ W2Drain
    BY <1>3, WantedAlive, W2DrainNext
<1>4. CASE Unpair
    BY <1>4, UnpairMoves, MoveStep
<1>5. CASE Gate
    BY <1>5, GateNext
<1>6. CASE EmitDecide
    BY <1>6, EmitDecideNext
<1>7. CASE EmitSubmit
    BY <1>7, EmitSubmitNext
<1>8. CASE PairDecide
    BY <1>8, PairDecideNext
<1>9. CASE PairAppend
    BY <1>9, PairAppendNext
<1>10. CASE Retry \/ RetryOverflows
    BY <1>10, RetryNext
<1>11. CASE EmitBounded
    BY <1>11, EmitBoundedNext
<1>12. CASE BoundedOverflows \/ Fail
  <2>1. /\ pc' = "failed"
        /\ UNCHANGED <<cfg, rcp, acct, seq, anchorSeq, anchorHist, lost, live, w2, nals,
                       skipped, todo, billing, tight, tries, flushing, mark>>
      BY <1>12 DEF BoundedOverflows, Fail, ledger
  <2> QED
      BY <2>1, FailMoves, MoveStep
<1>13. CASE \E n \in 1 .. cfg.maxB : CodeTail(n)
    BY <1>13, CodeTailMoves, MoveStep
<1>14. CASE SkipBilled \/ Billed
    BY <1>14, BillingMoves, MoveStep
<1>15. CASE BillAnchor
    BY <1>15, BillAnchorNext
<1>16. CASE Launch
    BY <1>16, LaunchNext
<1>17. CASE SubmitChain
    BY <1>17, SubmitChainNext
<1>18. CASE WaitAll
    BY <1>18, WaitAllMoves, MoveStep
<1>19. CASE DrainOldest
    BY <1>19, DrainOldestNext
<1>20. CASE Drained
    BY <1>20, DrainedMoves, MoveStep
<1>21. CASE FlushBegin
    BY <1>21, FlushBeginMoves, MoveStep
<1>22. CASE FlushTail
    BY <1>22, FlushTailMoves, MoveStep
<1>23. CASE FlushEnd
    BY <1>23, FlushEndNext
<1> QED
    BY <1>1, <1>2, <1>3, <1>4, <1>5, <1>6, <1>7, <1>8, <1>9, <1>10, <1>11, <1>12, <1>13,
       <1>14, <1>15, <1>16, <1>17, <1>18, <1>19, <1>20, <1>21, <1>22, <1>23, Zenon DEF Api

LEMMA InvStep ==
    ASSUME IInv, [Next]_vars
    PROVE  IInv'
<1>1. CASE Api
    BY <1>1, ApiStep
<1>2. ASSUME NEW i \in DOMAIN live, Chain(i)  PROVE IInv'
  <2>1. CASE ChainDecides(i)
      BY <2>1, ChainDecidesNext
  <2>2. CASE ChainFires(i) \/ ChainEnds(i)
      BY <2>2, ChainTicks
  <2> QED
      BY <1>2, <2>1, <2>2 DEF Chain
<1>3. ASSUME NEW i \in DOMAIN live, RunnerDone(i)  PROVE IInv'
    BY <1>3, RunnerTicks
<1>4. CASE SliceWritten
    BY <1>4, SliceNext
<1>5. CASE Over \/ UNCHANGED vars
  <2>1. UNCHANGED vars
      BY <1>5 DEF Over
  <2> QED
      BY <2>1, StutterMoves, MoveStep
<1> QED
    BY <1>1, <1>2, <1>3, <1>4, <1>5 DEF Next

\* The bursts in flight, the places of the API thread, the order of the output and
\* the ledger keep to what rate.c and encoder.c rely on, in every encode.
THEOREM LedgerInvariant == Spec => []IInv
<1>1. Init => IInv
    BY InitInv
<1>2. IInv /\ [Next]_vars => IInv'
    BY InvStep
<1> QED
    BY <1>1, <1>2, PTL DEF Spec

-----------------------------------------------------------------------------
(* What the runs check of the ledger, for every setting.                    *)

\* No decide finds the ledger full: rcp_decide never leaves a picture out.
THEOREM LedgerHasRoom == Spec => []NoPushLost
<1>1. IInv => NoPushLost
    BY DEF IInv, RoomInv, NoPushLost
<1> QED
    BY <1>1, LedgerInvariant, PTL

\* The output is in coding order and leaves out only what overflowed.
THEOREM LedgerOutput == Spec => []NalsInCodingOrder
<1>1. IInv => NalsInCodingOrder
    BY DEF IInv, NalsInv
<1> QED
    BY <1>1, LedgerInvariant, PTL

\* The ledger's entries, those retired and those pending.
LEMMA ClosedIs ==
    ASSUME IInv
    PROVE  /\ DOMAIN Closed = 1 .. seq /\ seq \in Nat
           /\ \A n \in 1 .. seq : Closed[n] = At(n)
           /\ \E f \in 0 .. seq : LedgerOf(f) /\ SizesOf(f)
<1>1. PICK f \in 0 .. seq : LedgerOf(f) /\ SizesOf(f)
    BY DEF IInv, LedgerInv
<1>2. /\ rcp \in Seq(Entry) /\ acct \in Seq(Entry) /\ seq \in Nat
      /\ Len(rcp) \in Nat /\ Len(acct) \in Nat /\ Len(acct) + Len(rcp) = seq
    BY <1>1 DEF IInv, TypeInv, LedgerOf
<1>3. /\ acct \o rcp \in Seq(Entry) /\ Len(acct \o rcp) = seq
      /\ \A n \in 1 .. seq : (acct \o rcp)[n] = IF n <= Len(acct) THEN acct[n]
                                                ELSE rcp[n - Len(acct)]
    BY <1>2, ConcatProperties
<1>4. DOMAIN Closed = 1 .. seq
    BY <1>3, LenProperties DEF Closed
<1>5. \A n \in 1 .. seq : Closed[n] = At(n)
    BY <1>3 DEF Closed, At, Nth
<1> QED
    BY <1>1, <1>2, <1>4, <1>5

\* With no lag the size that fills an entry is its own picture's, and the
\* entry is priced for the coding it is the size of, unless a retry of that picture
\* did not fit the RBSP buffer.
THEOREM LedgerOwnSizes == Spec => []SizesAreOwn
<1>1. ASSUME IInv  PROVE SizesAreOwn
  <2>1. SUFFICES ASSUME cfg.lag = 0, NEW n \in 1 .. seq, At(n).filled
                 PROVE  At(n).src = At(n).seq /\ PriceIs(At(n))
      BY <1>1, ClosedIs DEF SizesAreOwn, FillsOwnEntry, PriceIs
  <2>2. PICK f \in 0 .. seq : LedgerOf(f) /\ SizesOf(f)
      BY <1>1 DEF IInv, LedgerInv
  <2>3. At(n).seq = n /\ PriceIs(At(n)) /\ n <= f
      BY <2>1, <2>2 DEF LedgerOf
  <2>4. n \in 1 .. f
      BY <1>1, <2>3 DEF IInv, TypeInv
  <2>5. At(n).src = n
      BY <2>1, <2>2, <2>4 DEF SizesOf
  <2> QED
      BY <2>3, <2>5
<1> QED
    BY <1>1, LedgerInvariant, PTL

\* No picture's size is billed twice, and an encode that ends has accounted every
\* decide.
THEOREM LedgerSizes == Spec => []SizedExactlyOnce
<1>1. ASSUME IInv  PROVE SizedExactlyOnce
  <2>1. PICK f \in 0 .. seq : LedgerOf(f) /\ SizesOf(f)
      BY <1>1 DEF IInv, LedgerInv
  <2>2. seq \in Nat
      BY <1>1 DEF IInv, TypeInv
  <2>3. ASSUME NEW i \in DOMAIN Closed, NEW j \in DOMAIN Closed, Closed[i].src # None,
               Closed[i].src = Closed[j].src
        PROVE  i = j
    <3>1. /\ i \in 1 .. seq /\ j \in 1 .. seq /\ At(i).src # None /\ At(i).src = At(j).src
        BY <1>1, <2>3, ClosedIs
    <3>2. At(i).filled /\ At(j).filled
        BY <2>1, <3>1 DEF LedgerOf
    <3>3. i <= f /\ j <= f
        BY <2>1, <3>1, <3>2 DEF LedgerOf
    <3>4. i \in 1 .. f /\ j \in 1 .. f
        BY <2>2, <3>1, <3>3
    <3> QED
        BY <2>1, <3>1, <3>4 DEF SizesOf
  <2>4. ASSUME pc = "done"
        PROVE  rcp = <<>> /\ Len(acct) = seq /\ {acct[j].src : j \in DOMAIN acct} = 1 .. seq
    <3>1. live = <<>> /\ w2.pic = None /\ rcp = <<>>
        BY <1>1, <2>4 DEF IInv, PcInv
    <3>2. Owed = {}
      <4>1. DOMAIN live = {} /\ ApiOwes = {}
          BY <2>4, <3>1 DEF ApiOwes
      <4> QED
          BY <3>1, <4>1 DEF Owed, None
    <3>3. Len(acct) \in Nat /\ acct \in Seq(Entry) /\ Len(rcp) = 0
        BY <1>1, <3>1 DEF IInv, TypeInv
    <3>4. Len(acct) = seq /\ Len(acct) <= f
        BY <2>1, <2>2, <3>3 DEF LedgerOf
    <3>5. f = seq
        BY <2>2, <3>4
    <3>6. DOMAIN acct = 1 .. seq /\ \A n \in 1 .. seq : At(n) = acct[n]
        BY <3>3, <3>4, LenProperties DEF At, Nth
    <3>7. \A n \in 1 .. seq : acct[n].src \in 1 .. seq
        BY <2>1, <3>5, <3>6 DEF LedgerOf
    <3>8. ASSUME NEW p \in 1 .. seq  PROVE \E n \in 1 .. seq : acct[n].src = p
      <4>1. p \notin Owed /\ pc # "failed"
          BY <2>4, <3>2
      <4>2. ~ \A n \in 1 .. f : At(n).src # p
          BY <2>1, <4>1 DEF SizesOf
      <4> QED
          BY <3>5, <3>6, <4>2
    <3>9. ASSUME NEW p  PROVE p \in {acct[j].src : j \in DOMAIN acct} <=> p \in 1 .. seq
        BY <3>6, <3>7, <3>8
    <3> QED
        BY <3>1, <3>4, <3>9
  <2> QED
      BY <2>3, <2>4 DEF SizedExactlyOnce
<1> QED
    BY <1>1, LedgerInvariant, PTL

\* The API thread empties the encoder only in a flush call.
FlushStarted ==
    /\ pc = "emptied" => flushing # "no"
    /\ pc \in {"waitall", "drain"} /\ todo = <<>> => flushing # "no"

LEMMA FlushStartedStep ==
    ASSUME IInv, FlushStarted, [Next]_vars
    PROVE  FlushStarted'
<1>1. ASSUME NEW g \in SerialGroups, StartSerial(g)  PROVE FlushStarted'
  <2>1. todo' = g /\ pc' = DrainAllFrom
      BY <1>1 DEF StartSerial
  <2>2. g # <<>>
      BY <1>1, CfgIs, SerialGroupIs DEF IInv, SettingIs, GroupIs
  <2> QED
      BY <2>1, <2>2 DEF FlushStarted, DrainAllFrom
<1>2. CASE \/ \E n \in 1 .. cfg.maxB : StartBurst(n) \/ CodeTail(n)
           \/ Gate \/ EmitDecide \/ PairDecide \/ BoundedOverflows \/ Fail \/ Billed \/ Launch
           \/ SubmitChain \/ FlushBegin
    BY <1>2 DEF FlushStarted, StartBurst, CodeTail, Gate, EmitDecide, PairDecide,
                BoundedOverflows, Fail, Billed, Launch, SubmitChain, FlushBegin
<1>3. CASE EmitSubmit \/ PairAppend \/ EmitBounded
    BY <1>3 DEF FlushStarted, EmitSubmit, PairAppend, EmitBounded, NextInGroup
<1>4. CASE WaitAll \/ DrainOldest \/ SkipBilled \/ BillAnchor \/ W2Drain \/ Retry \/ RetryOverflows \/ SliceWritten
    BY <1>4 DEF FlushStarted, WaitAll, DrainOldest, SkipBilled, BillAnchor, W2Drain, Retry,
                RetryOverflows, SliceWritten
<1>5. CASE Unpair
    BY <1>5 DEF FlushStarted, Unpair
<1>6. CASE Drained
    BY <1>6 DEF FlushStarted, Drained
<1>7. CASE FlushTail
    BY <1>7 DEF FlushStarted, FlushTail
<1>8. CASE FlushEnd
  <2>1. pc' \in {"done", "idle"}
      BY <1>8 DEF FlushEnd
  <2> QED
      BY <2>1 DEF FlushStarted
<1>9. ASSUME NEW i \in DOMAIN live, Chain(i) \/ RunnerDone(i)  PROVE FlushStarted'
    BY <1>9 DEF FlushStarted, Chain, ChainDecides, ChainFires, ChainEnds, RunnerDone
<1>10. CASE Over \/ UNCHANGED vars
    BY <1>10 DEF FlushStarted, Over, vars
<1> QED
    BY <1>1, <1>2, <1>3, <1>4, <1>5, <1>6, <1>7, <1>8, <1>9, <1>10, Zenon DEF Next, Api

LEMMA FlushesStarted == Spec => []FlushStarted
<1>1. Init => FlushStarted
    BY DEF Init, FlushStarted
<1>2. IInv /\ FlushStarted /\ [Next]_vars => FlushStarted'
    BY FlushStartedStep
<1> QED
    BY <1>1, <1>2, LedgerInvariant, PTL DEF Spec

\* The steps that touch the ledger while a chain prepares are that chain's decides.
LEMMA WriterStep ==
    ASSUME IInv, FlushStarted, Next, ledger' # ledger, Preparing # {}
    PROVE  \E i \in Preparing : /\ Preparing = {i}
                                /\ i \in DOMAIN live' /\ live'[i].bs # live[i].bs
<1>1. PICK k \in DOMAIN live : live[k].phase = "prep"
    BY DEF Preparing
<1>2. /\ k = Len(live) /\ Len(live) \in Nat /\ live # <<>>
      /\ pc \in {"idle", "waitall", "drain", "emptied", "failed"}
  <2>1. BurstOf(k) /\ DOMAIN live = 1 .. Len(live) /\ k \in 1 .. Len(live)
      BY <1>1, LiveIs
  <2> QED
      BY <1>1, <2>1, LiveIs DEF BurstOf
<1>3. Preparing = {k}
  <2>1. ASSUME NEW j \in Preparing  PROVE j = k
    <3>1. j \in DOMAIN live /\ live[j].phase = "prep" /\ j \in 1 .. Len(live)
        BY LiveIs DEF Preparing
    <3> QED
        BY <1>2, <3>1, LiveIs DEF BurstOf
  <2> QED
      BY <1>1, <2>1 DEF Preparing
\* a drain of the oldest burst would be of the one that prepares, or of one
\* behind which none does
<1>4. ~(Drains /\ live[1].phase = "done")
  <2>1. SUFFICES ASSUME Drains, live[1].phase = "done"  PROVE FALSE
      OBVIOUS
  <2>2. pc = "drain"
      BY <1>2, <2>1 DEF Drains, RetireFirst
  <2>3. Len(live) <= 1
      BY <1>3, <2>2 DEF IInv, PcInv
  <2>4. k = 1
      BY <1>1, <1>2, <2>3, LiveIs
  <2> QED
      BY <1>1, <2>1, <2>4
<1>5. CASE \/ \E g \in SerialGroups : StartSerial(g)
           \/ \E n \in 1 .. cfg.maxB : StartBurst(n) \/ CodeTail(n)
           \/ Unpair \/ EmitSubmit \/ BoundedOverflows \/ SkipBilled \/ Billed \/ SubmitChain
           \/ WaitAll \/ Drained \/ Fail \/ FlushBegin \/ FlushTail \/ SliceWritten
           \/ \E i \in DOMAIN live : ChainFires(i) \/ ChainEnds(i) \/ RunnerDone(i)
  <2>1. ledger' = ledger
      BY <1>5 DEF StartSerial, StartBurst, CodeTail, Unpair, EmitSubmit, BoundedOverflows,
                  SkipBilled, Billed, SubmitChain, WaitAll, Drained, Fail, FlushBegin, FlushTail,
                  SliceWritten, ChainFires, ChainEnds, RunnerDone
  <2> QED
      BY <2>1
<1>6. CASE Gate \/ EmitDecide \/ PairDecide \/ PairAppend \/ Retry \/ RetryOverflows \/ EmitBounded \/ Launch
           \/ BillAnchor
    BY <1>2, <1>6 DEF Gate, EmitDecide, PairDecide, PairAppend, Retry, RetryOverflows, EmitBounded, Launch,
                      BillAnchor, NeedsBill, ToBill
<1>7. CASE W2Wanted /\ W2Drain
  <2>1. pc = "emptied"
      BY <1>2, <1>4, <1>7 DEF W2Wanted, NeedsBill, ToBill, Drains
  <2>2. w2.pic # None
      BY <1>7 DEF IInv, W2Inv, W2Drain
  <2>3. NothingOut
      BY <1>2, <2>1, <2>2 DEF FlushStarted, IInv, W2Inv
  <2> QED
      BY <1>2, <2>1, <2>3 DEF IInv, PcInv
<1>8. CASE DrainOldest
    BY <1>4, <1>8 DEF DrainOldest
<1>9. CASE FlushEnd
  <2>1. ~NothingOut
      BY <1>2, <1>9 DEF FlushEnd, IInv, PcInv
  <2> QED
      BY <1>9, <2>1 DEF FlushEnd
<1>10. ASSUME NEW i \in DOMAIN live, ChainDecides(i)
       PROVE  i \in Preparing /\ i \in DOMAIN live' /\ live'[i].bs # live[i].bs
  <2>1. PICK s : s = Append(live[i].bs, seq + 1)
      OBVIOUS
  <2>2. /\ live[i].phase = "prep" /\ DOMAIN live' = DOMAIN live
        /\ live'[i] = [live[i] EXCEPT !.bs = s] /\ Len(s) = Len(live[i].bs) + 1
      BY <1>10, <2>1, ChainDecidesIs
  <2>3. BurstIs(live[i])
      BY LiveIs
  <2>4. live'[i].bs = s /\ s # live[i].bs
      BY <2>2, <2>3 DEF BurstIs, Burst
  <2> QED
      BY <2>2, <2>4 DEF Preparing
<1>11. CASE Over
    BY <1>11 DEF Over, vars, ledger
<1>12. ASSUME NEW i \in DOMAIN live, ChainDecides(i)
       PROVE  \E j \in Preparing : /\ Preparing = {j}
                                   /\ j \in DOMAIN live' /\ live'[j].bs # live[j].bs
    BY <1>3, <1>10, <1>12
<1> QED
    BY <1>5, <1>6, <1>7, <1>8, <1>9, <1>11, <1>12, Zenon DEF Next, Api, Chain

\* While a chain prepares and decides its pictures nobody else touches the ledger,
\* which has no lock.
THEOREM LedgerWriter == Spec => OneLedgerWriter
<1>1. IInv /\ FlushStarted /\ [Next]_vars =>
          [ledger' # ledger /\ Preparing # {} =>
              \E i \in Preparing :
                  /\ Preparing = {i}
                  /\ i \in DOMAIN live' /\ live'[i].bs # live[i].bs]_vars
    BY WriterStep
<1> QED
    BY <1>1, LedgerInvariant, FlushesStarted, PTL DEF Spec, OneLedgerWriter

\* The picture of a tight group is coded behind an empty ledger.
LEMMA CodedFrom ==
    ASSUME IInv, Next, pc' = "coded"
    PROVE  live = <<>> /\ live' = <<>>
<1>1. pc \in {"serial", "coded"}
  <2>1. CASE \/ \E g \in SerialGroups : StartSerial(g)
             \/ \E n \in 1 .. cfg.maxB : StartBurst(n) \/ CodeTail(n)
             \/ Gate \/ EmitDecide \/ PairDecide \/ BoundedOverflows \/ Fail \/ Billed \/ Launch
             \/ SubmitChain
      BY <2>1 DEF StartSerial, DrainAllFrom, StartBurst, CodeTail, Gate, EmitDecide, PairDecide,
                  BoundedOverflows, Fail, Billed, Launch, SubmitChain
  <2>2. CASE EmitSubmit \/ PairAppend \/ EmitBounded
      BY <2>2 DEF EmitSubmit, PairAppend, EmitBounded, NextInGroup
  <2>3. CASE Unpair \/ WaitAll \/ Drained \/ FlushBegin \/ FlushTail \/ FlushEnd
      BY <2>3 DEF Unpair, WaitAll, Drained, FlushBegin, FlushTail, FlushEnd, DrainAllFrom
  <2>4. CASE \/ DrainOldest \/ SkipBilled \/ BillAnchor \/ W2Drain \/ Retry \/ RetryOverflows \/ SliceWritten \/ Over
             \/ \E i \in DOMAIN live : Chain(i) \/ RunnerDone(i)
    <3>1. pc' = pc
        BY <2>4 DEF DrainOldest, SkipBilled, BillAnchor, W2Drain, Retry, RetryOverflows, SliceWritten, Over, vars,
                    Chain, ChainDecides, ChainFires, ChainEnds, RunnerDone
    <3> QED
        BY <3>1
  <2> QED
      BY <2>1, <2>2, <2>3, <2>4, Zenon DEF Next, Api
<1>2. live = <<>>
    BY <1>1 DEF IInv, PcInv, SerialPcs
<1>3. IInv'
    BY InvStep
<1> QED
    BY <1>2, <1>3 DEF IInv, PcInv, SerialPcs

\* The buffer the gate and the bound on a measured size read is exact: nothing
\* decided is unaccounted but the picture being coded.
THEOREM LedgerExact == Spec => ExactBuffer
<1>1. ASSUME IInv, Next, pc = "gate", pc' # pc  PROVE rcp' = <<>> /\ Len(acct') = seq
  <2>1. Gate
    <3>1. CASE \/ \E g \in SerialGroups : StartSerial(g)
               \/ \E n \in 1 .. cfg.maxB : StartBurst(n) \/ CodeTail(n)
               \/ EmitDecide \/ PairDecide \/ BoundedOverflows \/ Fail \/ Billed \/ Launch
               \/ SubmitChain \/ EmitSubmit \/ PairAppend \/ EmitBounded
               \/ Unpair \/ WaitAll \/ Drained \/ FlushBegin \/ FlushTail \/ FlushEnd
        BY <1>1, <3>1 DEF StartSerial, MayStart, StartBurst, CodeTail, EmitDecide, PairDecide,
                  BoundedOverflows, Fail, Drains, RetireFirst, NeedsBill, ToBill, Billed, Launch,
                  SubmitChain, EmitSubmit, PairAppend, EmitBounded, Unpair, WaitAll, Drained,
                  FlushBegin, FlushTail, FlushEnd
    <3>2. CASE \/ DrainOldest \/ SkipBilled \/ BillAnchor \/ W2Drain \/ Retry \/ RetryOverflows \/ SliceWritten \/ Over
               \/ \E i \in DOMAIN live : Chain(i) \/ RunnerDone(i)
        BY <1>1, <3>2 DEF DrainOldest, SkipBilled, BillAnchor, W2Drain, Retry, RetryOverflows, SliceWritten, Over,
                  vars, Chain, ChainDecides, ChainFires, ChainEnds, RunnerDone
    <3> QED
        BY <1>1, <3>1, <3>2, Zenon DEF Next, Api
  <2> QED
      BY <1>1, <2>1, GateStep
<1>2. ASSUME IInv, Next, pc' = "coded"
      PROVE  Len(rcp') = 1 /\ Len(acct') = seq' - 1 /\ live = <<>>
  <2>1. live = <<>> /\ IInv'
      BY <1>2, CodedFrom, InvStep
  <2>2. Len(rcp') = 1
      BY <1>2, <2>1 DEF IInv, PcInv, TightInv, Bounded
  <2>3. PICK f \in 0 .. seq' : LedgerOf(f)'
      BY <2>1 DEF IInv, LedgerInv
  <2>4. Len(acct') + Len(rcp') = seq' /\ Len(acct') \in Nat
      BY <2>1, <2>3 DEF LedgerOf, IInv, TypeInv
  <2> QED
      BY <2>1, <2>2, <2>4
<1>3. IInv /\ [Next]_vars =>
          [/\ pc = "gate" /\ pc' # pc => rcp' = <<>> /\ Len(acct') = seq
           /\ pc' = "coded" => Len(rcp') = 1 /\ Len(acct') = seq' - 1 /\ live = <<>>]_vars
    BY <1>1, <1>2
<1> QED
    BY <1>3, LedgerInvariant, PTL DEF Spec, ExactBuffer

=============================================================================
