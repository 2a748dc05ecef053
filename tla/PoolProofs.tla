----------------------------- MODULE PoolProofs -----------------------------
(***************************************************************************)
(* Proofs about WavefrontPool for any number of workers and submitters,    *)
(* every set of calls, every size of the job table and of the grids: its   *)
(* invariant, and that its steps are those of the abstract Wavefront.      *)
(***************************************************************************)
EXTENDS WavefrontPool, FiniteSetTheorems, SequenceTheorems, WellFoundedInduction,
        TLAPS

(***************************************************************************)
(* The inductive invariant.                                                *)
(***************************************************************************)

\* The mutex is held by the worker that is inside a section of it.
LockedPcs == {"scan", "idle", "rescan", "claim", "cascade", "enlist", "park", "delist"}
LockInv == \A w \in Workers : mtx = w <=> pc[w] \in LockedPcs

-----------------------------------------------------------------------------
(* The job table.  A slot keeps what its last incarnation left until it is  *)
(* registered again.                                                        *)

Wave(x) == x # None /\ Kind[x] = "wavefront"
For(x)  == x # None /\ Kind[x] = "for"

SlotOf(j) ==
    /\ claimw[j].seq = seq[j] /\ seq[j] <= seqNext
    /\ jctx[j] = None <=> seq[j] = 0
    /\ used[j] => jctx[j] # None
    /\ done[j] => jctx[j] # None
    /\ jctx[j] # None => /\ used[j] \/ done[j]
                         /\ jctx[j] \notin Oom /\ NRows[jctx[j]] > 0
                         /\ RowsClaimed(j) <= NRows[jctx[j]]

\* A grid is in one slot at most.
OneSlot == \A i, j \in Slots : i # j /\ jctx[i] # None => jctx[i] # jctx[j]

JobInv == (\A j \in Slots : SlotOf(j)) /\ OneSlot

-----------------------------------------------------------------------------
(* What a worker holds.                                                     *)

\* A worker's slot is live from the scan that picks it to the end of its row.
LivePcs == RowPcs \cup {"claim", "cascade", "unit"}
ForPcs  == {"unit", "nextunit", "finishfor"}

LiveOf(w) ==
    /\ pc[w] \in LivePcs => used[slot[w]] /\ ~done[slot[w]]
    /\ pc[w] \in RowPcs => Wave(jctx[slot[w]])
    /\ pc[w] \in RowPcs \cup ForPcs =>
         /\ runSeq[w] > 0
         /\ seq[slot[w]] = runSeq[w] => fctx[w] = jctx[slot[w]]
    /\ AtWork(w) => seq[slot[w]] = runSeq[w]
    /\ pc[w] \in ForPcs => For(fctx[w])
    /\ runSeq[w] <= seqNext

LiveInv == \A w \in Workers : LiveOf(w)

\* The rows or units a worker has claimed and not yet counted.
Rows(w) == (IF pc[w] \in RowPcs \cup {"cascade", "unit"} THEN {row[w]} ELSE {})
           \cup (IF pc[w] = "fastcount" THEN {nxt[w]} ELSE {})

\* Claims are below the claim word, and no two workers share one.
ClaimsOf(w) ==
    /\ \A r \in Rows(w) : r < RowsClaimed(slot[w])
    /\ pc[w] = "fastcount" => nxt[w] # row[w]
    /\ \A v \in Workers \ {w} : slot[v] = slot[w] => Rows(v) \cap Rows(w) = {}
ClaimInv == \A w \in Workers : ClaimsOf(w)

-----------------------------------------------------------------------------
(* Cells that ran, row by row.                                              *)

\* A wavefront's row: its progress counts the cells that ran, a row that is not
\* claimed has none, a row that is counted has all.
RowOf(j, r) ==
    LET x == jctx[j]
    IN  /\ progress[j][r] <= NCols[x]
        /\ \A c \in 0 .. NCols[x] - 1 : <<x, r, c>> \in ran <=> c < progress[j][r]
        /\ r >= nextRow[j] => progress[j][r] = 0
        /\ r \in counted[j] => progress[j][r] = NCols[x]

RowInv ==
    \A j \in Slots : Wave(jctx[j]) =>
        /\ \A r \in 0 .. NRows[jctx[j]] - 1 : RowOf(j, r)
        /\ \A r \in counted[j] : r < nextRow[j]

\* A unit that is not claimed has not run.
UnitInv ==
    \A j \in Slots : For(jctx[j]) =>
        \A r \in claimw[j].row .. NRows[jctx[j]] - 1 : <<jctx[j], r, 0>> \notin ran

BeforePcs == {"cell", "stall", "enlist", "park", "parked", "unpark", "delist", "body"}
AfterPcs  == {"peekrow", "wakerow", "peekidle", "wakeidle"}
EndPcs    == {"fast", "fastclaim", "fastcount", "finish"}

\* Where a worker is in its row or unit.
CellsOf(w) ==
    LET j == slot[w]
    IN  /\ pc[w] \in BeforePcs => progress[j][row[w]] = col[w]
        /\ pc[w] \in AfterPcs => progress[j][row[w]] = col[w] + 1
        /\ pc[w] \in BeforePcs \cup AfterPcs => col[w] < NCols[jctx[j]]
        /\ pc[w] \in EndPcs => progress[j][row[w]] = NCols[jctx[j]]
        /\ pc[w] = "fastcount" => progress[j][nxt[w]] = 0
        /\ pc[w] = "cascade" /\ Wave(jctx[j]) => progress[j][row[w]] = 0
        /\ pc[w] = "cascade" /\ For(jctx[j]) => <<jctx[j], row[w], 0>> \notin ran
        /\ pc[w] = "unit" => <<fctx[w], row[w], 0>> \notin ran
        /\ pc[w] \in {"delist", "body"} => AboveDone(w)
        /\ pc[w] \in RowPcs => Rows(w) \cap counted[j] = {}
CellInv == \A w \in Workers : CellsOf(w)

\* The completion count of the last incarnation of a slot.
Finished(x) == {r \in 0 .. NRows[x] - 1 : <<x, r, 0>> \in ran}
CountOf(j) ==
    LET x == jctx[j]
    IN  /\ For(x) => rowsDone[j] = Cardinality(Finished(x))
        /\ Wave(x) => rowsDone[j] = Cardinality(counted[j])
        /\ done[j] => rowsDone[j] = NRows[x]
CountInv == \A j \in Slots : CountOf(j)

-----------------------------------------------------------------------------
(* The submitters.                                                          *)

\* Grid x is the i-th of call n of submitter s, and has been taken up.
Taken(x) == \E s \in Submitters : \E n \in 1 .. callNo[s] : \E i \in DOMAIN Calls[s][n] :
                /\ Calls[s][n][i] = x
                /\ n < callNo[s] \/ i <= pos[s]
Serial(x) == \E s \in Submitters : spc[s] = "serial" /\ Current(s) = x

\* Only grids taken up are in the table or have run.
TakenInv ==
    /\ \A j \in Slots : jctx[j] # None => Taken(jctx[j])
    /\ \A k \in ran : Taken(k[1]) \/ Serial(k[1])

CallOf(s) ==
    /\ callNo[s] <= Len(Calls[s])
    /\ spc[s] # "idle" => callNo[s] > 0
    /\ callNo[s] > 0 => pos[s] <= Len(Call(s))
    /\ spc[s] \in {"serial", "slotwait"} => pos[s] < Len(Call(s))
    /\ spc[s] = "serial" =>
         /\ Current(s) \in Oom
         /\ scell[s][1] < NRows[Current(s)] /\ scell[s][2] < NCols[Current(s)]
    /\ spc[s] = "idle" => held[s] = <<>>
    /\ spc[s] = "joinwait" => held[s] # <<>>

\* The jobs held are the grids of the call in progress, each held once.
HeldOf(s) ==
    \A k \in DOMAIN held[s] :
        /\ used[held[s][k]]
        /\ \E i \in 1 .. pos[s] : jctx[held[s][k]] = Call(s)[i]
        /\ \A t \in Submitters : \A m \in DOMAIN held[t] :
             held[t][m] = held[s][k] => s = t /\ k = m
SubInv == \A s \in Submitters : CallOf(s) /\ HeldOf(s)

UsedHeld == \A j \in Slots : used[j] => \E s \in Submitters : \E k \in DOMAIN held[s] : held[s][k] = j

-----------------------------------------------------------------------------
(* Wakeups.                                                                 *)

Registered(k) == {w \in Workers : pc[w] \in {"park", "parked", "unpark", "delist"}
                                  /\ CvOf(slot[w], row[w]) = k}
WaitersInv == \A k \in 0 .. CvSlots - 1 : wslot[k] = Cardinality(Registered(k))

Idle == {w \in Workers : pc[w] \in {"rescan", "asleep"}}
StackInv ==
    /\ idlers = Cardinality(Idle)
    /\ \A i \in DOMAIN idleStack : idleStack[i] \in Idle
    /\ \A i, k \in DOMAIN idleStack : idleStack[i] = idleStack[k] => i = k
    /\ \A w \in Workers : pc[w] = "rescan" => OnStack(w)
    /\ shutdown => /\ idleStack = <<>>
                   /\ \A w \in Workers : pc[w] \notin {"idle", "rescan"}

\* NoLostIdleWake, also while a worker holds the mutex to park.
IdleWakeInv ==
    (\A w \in Workers : pc[w] \in LockedPcs => pc[w] \in {"enlist", "park", "delist"}) =>
        (Ready # {} /\ idleStack # <<>> => WakeInFlight)

IInv ==
    /\ TypeOK /\ LockInv /\ JobInv /\ LiveInv /\ ClaimInv
    /\ RowInv /\ UnitInv /\ CellInv /\ CountInv
    /\ TakenInv /\ SubInv /\ UsedHeld
    /\ WaitersInv /\ StackInv /\ NoLostRowWake /\ IdleWakeInv

-----------------------------------------------------------------------------
(* What the scans pick. *)

LEMMA SmallestInNat ==
    ASSUME NEW N \in SUBSET Nat, N # {}
    PROVE  \E n \in N : \A m \in N : n <= m
<1> DEFINE R == OpToRel(<, Nat)
<1>1. IsWellFoundedOn(R, Nat) BY NatLessThanWellFounded
<1>2. \A x, y \in Nat : <<y, x>> \in R <=> y < x
  BY DEF OpToRel
<1> HIDE DEF R
<1>3. PICK x \in N : \A y \in N : ~(<<y, x>> \in R)
  BY <1>1, WFMin
<1>4. \A y \in N : ~(y < x)
  BY <1>2, <1>3
<1> QED BY <1>3, <1>4

LEMMA OldestIn ==
    ASSUME NEW S \in SUBSET Slots, S # {}, seq \in [Slots -> Nat]
    PROVE  Oldest(S) \in S
<1> DEFINE N == {seq[j] : j \in S}
<1>1. N \in SUBSET Nat /\ N # {} OBVIOUS
<1> HIDE DEF N
<1>2. PICK n \in N : \A m \in N : n <= m
  BY <1>1, SmallestInNat
<1>3. PICK j \in S : \A k \in S : seq[j] <= seq[k] BY <1>2 DEF N
<1> QED BY <1>3 DEF Oldest

\* The pick is a ready job.
LEMMA PickIn ==
    ASSUME Ready # {}, seq \in [Slots -> Nat], NEW a
    PROVE  PickFresh(a) \in Ready
<1> DEFINE urgent == {j \in Ready : jctx[j] \in Prio}
           affine == {j \in Ready : a # 0 /\ seq[j] = a}
<1>1. Ready \in SUBSET Slots BY DEF Ready
<1>2. CASE urgent # {}
  <2>1. urgent \in SUBSET Slots BY <1>1
  <2>2. Oldest(urgent) \in urgent BY <1>2, <2>1, OldestIn
  <2> QED BY <1>2, <2>2 DEF PickFresh
<1>3. CASE urgent = {} /\ affine # {}
  <2>1. affine \in SUBSET Slots BY <1>1
  <2>2. Oldest(affine) \in affine BY <1>3, <2>1, OldestIn
  <2> QED BY <1>3, <2>2 DEF PickFresh
<1>4. CASE urgent = {} /\ affine = {}
  <2>1. Oldest(Ready) \in Ready BY <1>1, OldestIn
  <2> QED BY <1>4, <2>1 DEF PickFresh
<1> QED BY <1>2, <1>3, <1>4

\* A registration takes a free slot.
FreeSlot == CHOOSE i \in FreeSlots : \A k \in FreeSlots : i <= k

LEMMA FreeSlotIn ==
    ASSUME FreeSlots # {}
    PROVE  FreeSlot \in Slots /\ ~used[FreeSlot]
<1>1. FreeSlots \in SUBSET Nat BY PoolAssumption DEF FreeSlots, Slots
<1>2. PICK i \in FreeSlots : \A k \in FreeSlots : i <= k
  BY <1>1, SmallestInNat
<1>3. FreeSlot \in FreeSlots BY <1>2 DEF FreeSlot
<1> QED BY <1>3 DEF FreeSlots

\* A job in the table has a grid.
LEMMA GridOf ==
    ASSUME TypeOK, JobInv, NEW j \in Slots, jctx[j] # None
    PROVE  /\ jctx[j] \in Ctxs /\ NRows[jctx[j]] \in 1 .. MaxRows
           /\ NCols[jctx[j]] \in Nat \ {0}
           /\ Kind[jctx[j]] \in {"wavefront", "for"}
  BY SMTT(40), PoolAssumption DEF TypeOK, JobInv, SlotOf

LEMMA ReadyIs ==
    ASSUME TypeOK, JobInv, NEW j \in Ready
    PROVE  /\ j \in Slots /\ used[j] /\ ~done[j] /\ jctx[j] # None
           /\ RowsClaimed(j) < NRows[jctx[j]]
  BY DEF Ready, NextReady, JobInv, SlotOf

\* The stack, popped.
LEMMA Popped ==
    ASSUME NEW st \in Seq(Workers), st # <<>>
    PROVE  /\ SubSeq(st, 1, Len(st) - 1) \in Seq(Workers)
           /\ Len(SubSeq(st, 1, Len(st) - 1)) = Len(st) - 1
           /\ \A i \in 1 .. Len(st) - 1 : SubSeq(st, 1, Len(st) - 1)[i] = st[i]
<1>1. Len(st) \in Nat \ {0} BY EmptySeq
<1>2. \A i \in 1 .. Len(st) - 1 : st[i] \in Workers BY ElementOfSeq, <1>1
<1> DEFINE n == Len(st) - 1
<1>3. n \in Nat /\ 1 \in Int /\ n \in Int /\ \A i \in 1 .. n : st[i] \in Workers
  BY <1>1, <1>2
<1> HIDE DEF n
<1>4. /\ SubSeq(st, 1, n) \in Seq(Workers)
      /\ Len(SubSeq(st, 1, n)) = IF 1 <= n THEN n - 1 + 1 ELSE 0
      /\ \A i \in 1 .. n - 1 + 1 : SubSeq(st, 1, n)[i] = st[1 + i - 1]
  BY <1>3, SubSeqProperties
<1>5. n - 1 + 1 = n /\ (IF 1 <= n THEN n - 1 + 1 ELSE 0) = n
  BY <1>3
<1>6. \A i \in 1 .. n : 1 + i - 1 = i
  BY <1>3
<1>7. /\ SubSeq(st, 1, n) \in Seq(Workers)
      /\ Len(SubSeq(st, 1, n)) = n
      /\ \A i \in 1 .. n : SubSeq(st, 1, n)[i] = st[i]
  BY <1>4, <1>5, <1>6
<1> QED BY <1>7 DEF n

LEMMA WakeOneIs ==
    ASSUME idleStack \in Seq(Workers), WakeOne
    PROVE  /\ idleStack' \in Seq(Workers)
           /\ idleStack = <<>> => idleStack' = <<>>
           /\ idleStack # <<>> => /\ Len(idleStack') = Len(idleStack) - 1
                                  /\ \A i \in 1 .. Len(idleStack) - 1 : idleStack'[i] = idleStack[i]
<1>1. CASE idleStack = <<>> BY <1>1 DEF WakeOne
<1>2. CASE idleStack # <<>> BY <1>2, Popped DEF WakeOne
<1> QED BY <1>1, <1>2

LEMMA StackRemoveIs ==
    ASSUME idleStack \in Seq(Workers), NEW w \in Workers, OnStack(w), StackRemove(w)
    PROVE  /\ idleStack' \in Seq(Workers)
           /\ \E i \in 1 .. Len(idleStack) :
                /\ idleStack[i] = w
                /\ Len(idleStack') = Len(idleStack) - 1
                /\ \A k \in 1 .. Len(idleStack) - 1 :
                     idleStack'[k] = IF k = i THEN idleStack[Len(idleStack)] ELSE idleStack[k]
<1> DEFINE i == CHOOSE i \in DOMAIN idleStack : idleStack[i] = w
           n == Len(idleStack)
           st == [idleStack EXCEPT ![i] = idleStack[n]]
<1>1. i \in 1 .. n /\ idleStack[i] = w BY DEF OnStack
<1> HIDE DEF i
<1>2. n \in Nat \ {0} BY <1>1
<1>3. st \in Seq(Workers) /\ Len(st) = n
  BY <1>1, <1>2
<1>4. \A k \in 1 .. n : st[k] = IF k = i THEN idleStack[n] ELSE idleStack[k]
  BY <1>1
<1>5. st # <<>> BY <1>2, <1>3
<1>6. idleStack' = SubSeq(st, 1, n - 1) BY DEF StackRemove, i
<1> HIDE DEF st
<1>7. /\ idleStack' \in Seq(Workers) /\ Len(idleStack') = n - 1
      /\ \A k \in 1 .. n - 1 : idleStack'[k] = st[k]
  BY <1>3, <1>5, <1>6, Popped
<1> QED BY <1>1, <1>4, <1>7

\* The call in progress, and the grid a submitter is at.
LEMMA CallIn ==
    ASSUME TypeOK, SubInv, NEW s \in Submitters, callNo[s] > 0
    PROVE  /\ callNo[s] \in 1 .. Len(Calls[s]) /\ Call(s) \in Seq(Ctxs)
           /\ Len(Call(s)) \in Nat /\ pos[s] \in 0 .. Len(Call(s))
<1>1. callNo[s] \in Nat /\ pos[s] \in Nat BY DEF TypeOK
<1>2. callNo[s] <= Len(Calls[s]) /\ pos[s] <= Len(Call(s))
  BY <1>1 DEF SubInv, CallOf
<1>3. Calls[s] \in Seq(Seq(Ctxs) \ {<<>>}) BY PoolAssumption
<1>4. callNo[s] \in 1 .. Len(Calls[s]) BY <1>1, <1>2, <1>3
<1>5. Call(s) \in Seq(Ctxs) BY <1>3, <1>4 DEF Call
<1> QED BY <1>1, <1>2, <1>4, <1>5

LEMMA CurrentIn ==
    ASSUME TypeOK, SubInv, NEW s \in Submitters, spc[s] # "idle", pos[s] # Len(Call(s))
    PROVE  /\ callNo[s] \in 1 .. Len(Calls[s]) /\ Call(s) \in Seq(Ctxs)
           /\ pos[s] + 1 \in DOMAIN Call(s) /\ Current(s) = Call(s)[pos[s] + 1]
           /\ Current(s) \in Ctxs
<1>1. callNo[s] > 0 BY DEF SubInv, CallOf
<1>2. /\ callNo[s] \in 1 .. Len(Calls[s]) /\ Call(s) \in Seq(Ctxs)
      /\ Len(Call(s)) \in Nat /\ pos[s] \in 0 .. Len(Call(s))
  BY <1>1, CallIn
<1>3. pos[s] + 1 \in 1 .. Len(Call(s)) BY <1>2
<1> QED BY <1>2, <1>3 DEF Current

\* A grid run serially has cells.
LEMMA SerialGrid ==
    ASSUME IInv, NEW s \in Submitters, spc[s] = "serial"
    PROVE  /\ callNo[s] \in 1 .. Len(Calls[s]) /\ pos[s] + 1 \in DOMAIN Call(s)
           /\ Current(s) = Call(s)[pos[s] + 1] /\ Current(s) \in Oom
           /\ Current(s) \in Ctxs /\ Kind[Current(s)] = "wavefront"
           /\ NRows[Current(s)] \in 1 .. MaxRows /\ NCols[Current(s)] \in Nat \ {0}
           /\ scell[s][1] \in 0 .. NRows[Current(s)] - 1
           /\ scell[s][2] \in 0 .. NCols[Current(s)] - 1
           /\ scell[s] = <<scell[s][1], scell[s][2]>>
<1>1. TypeOK /\ SubInv /\ CallOf(s) BY DEF IInv, SubInv
<1>2. pos[s] # Len(Call(s))
  <2>1. callNo[s] > 0 /\ pos[s] < Len(Call(s)) BY <1>1 DEF CallOf
  <2>2. Len(Call(s)) \in Nat BY <1>1, <2>1, CallIn
  <2> QED BY <2>1, <2>2
<1>3. /\ callNo[s] \in 1 .. Len(Calls[s]) /\ pos[s] + 1 \in DOMAIN Call(s)
      /\ Current(s) = Call(s)[pos[s] + 1] /\ Current(s) \in Ctxs
  BY <1>1, <1>2, CurrentIn
<1>4. /\ Current(s) \in Oom
      /\ scell[s][1] < NRows[Current(s)] /\ scell[s][2] < NCols[Current(s)]
  BY <1>1 DEF CallOf
<1>5. Kind[Current(s)] = "wavefront" BY <1>4, PoolAssumption
<1>6. NRows[Current(s)] \in 0 .. MaxRows /\ NCols[Current(s)] \in Nat \ {0} /\ MaxRows \in Nat
  BY <1>3, PoolAssumption
<1>7. scell[s] \in Nat \X Nat BY <1>1 DEF TypeOK
<1> QED BY SMTT(40), <1>3, <1>4, <1>5, <1>6, <1>7

\* The grid a submitter is about to take up has not been taken up, and no one
\* else is at it.
LEMMA FreshGrid ==
    ASSUME IInv, NEW s \in Submitters, spc[s] # "idle", pos[s] # Len(Call(s))
    PROVE  /\ ~Taken(Current(s))
           /\ \A t \in Submitters \ {s} : spc[t] = "serial" => Current(t) # Current(s)
<1>1. TypeOK /\ SubInv BY DEF IInv
<1>2. /\ callNo[s] \in DOMAIN Calls[s] /\ pos[s] + 1 \in DOMAIN Calls[s][callNo[s]]
      /\ Current(s) = Calls[s][callNo[s]][pos[s] + 1]
  <2>1. /\ callNo[s] \in 1 .. Len(Calls[s]) /\ pos[s] + 1 \in DOMAIN Call(s)
        /\ Current(s) = Call(s)[pos[s] + 1]
    BY <1>1, CurrentIn
  <2>2. Calls[s] \in Seq(Seq(Ctxs) \ {<<>>}) BY PoolAssumption
  <2> QED BY <2>1, <2>2 DEF Call
<1>3. ASSUME Taken(Current(s)) PROVE FALSE
  <2>a. PICK t \in Submitters : \E n \in 1 .. callNo[t] : \E i \in DOMAIN Calls[t][n] :
          /\ Calls[t][n][i] = Current(s)
          /\ n < callNo[t] \/ i <= pos[t]
    BY <1>3 DEF Taken
  <2>b. PICK n \in 1 .. callNo[t] : \E i \in DOMAIN Calls[t][n] :
          /\ Calls[t][n][i] = Current(s)
          /\ n < callNo[t] \/ i <= pos[t]
    BY <2>a
  <2>1. PICK i \in DOMAIN Calls[t][n] :
          /\ Calls[t][n][i] = Current(s)
          /\ n < callNo[t] \/ i <= pos[t]
    BY <2>b
  <2>2. callNo[t] \in Nat BY <1>1 DEF TypeOK
  <2>3. callNo[t] > 0 BY <2>2
  <2>4. callNo[t] \in 1 .. Len(Calls[t]) BY <1>1, <2>3, CallIn
  <2>5. Calls[t] \in Seq(Seq(Ctxs) \ {<<>>}) BY PoolAssumption
  <2>6. n \in DOMAIN Calls[t] BY <2>2, <2>4, <2>5
  <2>7. t = s /\ n = callNo[s] /\ i = pos[s] + 1
    BY <1>2, <2>1, <2>6, OnceAssumption
  <2>8. callNo[s] \in Nat /\ pos[s] \in Nat BY <1>1 DEF TypeOK
  <2> QED BY <2>1, <2>7, <2>8
<1>4. ASSUME NEW t \in Submitters \ {s}, spc[t] = "serial", Current(t) = Current(s) PROVE FALSE
  <2>1. /\ callNo[t] \in 1 .. Len(Calls[t]) /\ pos[t] + 1 \in DOMAIN Call(t)
        /\ Current(t) = Call(t)[pos[t] + 1]
    BY <1>4, SerialGrid
  <2>2. Calls[t] \in Seq(Seq(Ctxs) \ {<<>>}) BY PoolAssumption
  <2>3. /\ callNo[t] \in DOMAIN Calls[t] /\ pos[t] + 1 \in DOMAIN Calls[t][callNo[t]]
        /\ Current(t) = Calls[t][callNo[t]][pos[t] + 1]
    BY <2>1, <2>2 DEF Call
  <2>4. Calls[s][callNo[s]][pos[s] + 1] = Calls[t][callNo[t]][pos[t] + 1]
    BY <1>2, <1>4, <2>3
  <2>5. s = t BY <1>2, <2>3, <2>4, OnceAssumption
  <2> QED BY <1>4, <2>5
<1> QED BY <1>3, <1>4

\* Counting the rows of a grid.
LEMMA NotAll ==
    ASSUME NEW n \in Nat, NEW r \in 0 .. n - 1, NEW S \in SUBSET ((0 .. n - 1) \ {r})
    PROVE  IsFiniteSet(S) /\ Cardinality(S) \in Nat /\ Cardinality(S) < n
<1>1. IsFiniteSet(0 .. n - 1) /\ Cardinality(0 .. n - 1) = n
  <2>1. /\ IsFiniteSet(0 .. n - 1)
        /\ Cardinality(0 .. n - 1) = IF 0 > n - 1 THEN 0 ELSE (n - 1) - 0 + 1
    BY FS_Interval
  <2> QED BY <2>1
<1>2. IsFiniteSet(S \cup {r}) /\ Cardinality(S \cup {r}) <= n
  <2>1. (S \cup {r}) \in SUBSET (0 .. n - 1) OBVIOUS
  <2> QED BY <1>1, <2>1, FS_Subset
<1>3. IsFiniteSet(S) BY <1>1, FS_Subset
<1>4. Cardinality(S \cup {r}) = Cardinality(S) + 1 BY <1>3, FS_AddElement
<1>5. Cardinality(S) \in Nat BY <1>3, FS_CardinalityType
<1> QED BY <1>2, <1>3, <1>4, <1>5

LEMMA TwoMissing ==
    ASSUME NEW n \in Nat, NEW S \in SUBSET (0 .. n - 1),
           NEW r \in 0 .. n - 1, NEW q \in 0 .. n - 1, q # r, r \notin S, q \notin S
    PROVE  Cardinality(S) + 2 <= n
<1>1. /\ IsFiniteSet(S \cup {q}) /\ Cardinality(S \cup {q}) \in Nat
      /\ Cardinality(S \cup {q}) < n
  <2>1. (S \cup {q}) \in SUBSET ((0 .. n - 1) \ {r}) OBVIOUS
  <2> QED BY <2>1, NotAll
<1>2. IsFiniteSet(S) BY <1>1, FS_Subset
<1>3. Cardinality(S \cup {q}) = Cardinality(S) + 1 BY <1>2, FS_AddElement
<1>4. Cardinality(S) \in Nat BY <1>2, FS_CardinalityType
<1> QED BY <1>1, <1>3, <1>4

-----------------------------------------------------------------------------
(* The steps that leave the job table and the cells that ran alone.         *)

QuietWork(w) ==
    \/ Enter(w) \/ ScanFound(w) \/ ScanExit(w) \/ ScanNothing(w)
    \/ RegisterIdle(w) \/ Withdraw(w) \/ Sleep(w) \/ Resume(w) \/ Cascade(w)
    \/ CheckAbove(w) \/ Stall(w) \/ Enlist(w) \/ Park(w) \/ Unpark(w) \/ Delist(w) \/ PeekRowWaiter(w)
    \/ WakeRow(w) \/ PeekIdle(w) \/ WakeIdle(w) \/ FastPeek(w)

QuietCall(s) ==
    \/ BeginCall(s) \/ SkipEmpty(s) \/ TableFull(s) \/ RegisterOom(s)
    \/ EndPass(s) \/ JoinSleep(s) \/ PassJoined(s)

LEMMA QuietWorkIs ==
    ASSUME NEW w \in Workers, QuietWork(w)
    PROVE  UNCHANGED <<jobVars, envVars, ran>>
<1> USE DEF poolVars, idleVars, wrkVars
<1>1. CASE \/ Enter(w) \/ ScanFound(w) \/ ScanExit(w) \/ ScanNothing(w)
           \/ RegisterIdle(w) \/ Withdraw(w) \/ Sleep(w) \/ Resume(w) \/ Cascade(w)
  BY <1>1 DEF Enter, ScanFound, ScanExit, ScanNothing, RegisterIdle, Withdraw,
              Sleep, Resume, Cascade
<1>2. CASE \/ CheckAbove(w) \/ Stall(w) \/ Enlist(w) \/ Park(w) \/ Unpark(w) \/ Delist(w) \/ PeekRowWaiter(w)
           \/ WakeRow(w) \/ PeekIdle(w) \/ WakeIdle(w) \/ FastPeek(w)
  BY <1>2 DEF CheckAbove, Stall, Enlist, Park, Unpark, Delist, PeekRowWaiter, WakeRow, PeekIdle,
              WakeIdle, FastPeek
<1> QED BY <1>1, <1>2 DEF QuietWork

LEMMA QuietCallIs ==
    ASSUME NEW s \in Submitters, QuietCall(s)
    PROVE  UNCHANGED <<mtx, poolVars, workVars, extVars, shutdown, seqNext, ran>>
  BY DEF QuietCall, BeginCall, SkipEmpty, TableFull, RegisterOom, EndPass,
         JoinSleep, PassJoined

LEMMA ExternalIs ==
    ASSUME External
    PROVE  UNCHANGED <<mtx, jobVars, idlers, wslot, workVars, subVars, seqNext, ran>>
  BY DEF External, PublishRow, Kick, Destroy, poolVars, idleVars

\* Every step is one of these.
LEMMA Steps ==
    ASSUME [Next]_vars
    PROVE  \/ \E w \in Workers :
                \/ QuietWork(w) \/ ClaimUnit(w) \/ ClaimRow(w) \/ RunCell(w)
                \/ FastClaim(w) \/ FastCount(w) \/ FinishRow(w)
                \/ RunUnit(w) \/ NextUnit(w) \/ FinishFor(w)
           \/ \E s \in Submitters :
                QuietCall(s) \/ Register(s) \/ SerialCell(s) \/ Join(s)
           \/ External
           \/ UNCHANGED vars
<1>1. ASSUME NEW w \in Workers, Worker(w)
      PROVE  \/ QuietWork(w) \/ ClaimUnit(w) \/ ClaimRow(w) \/ RunCell(w)
             \/ FastClaim(w) \/ FastCount(w) \/ FinishRow(w)
             \/ RunUnit(w) \/ NextUnit(w) \/ FinishFor(w)
  BY <1>1 DEF Worker, ClaimLoop, RowStep, UnitStep, QuietWork
<1>2. ASSUME NEW s \in Submitters, Submitter(s)
      PROVE  QuietCall(s) \/ Register(s) \/ SerialCell(s) \/ Join(s)
  BY <1>2 DEF Submitter, QuietCall
<1> QED BY <1>1, <1>2 DEF Next

-----------------------------------------------------------------------------
(* The types. *)

TableTypes ==
    /\ used \in [Slots -> BOOLEAN] /\ done \in [Slots -> BOOLEAN]
    /\ seq \in [Slots -> Nat] /\ jctx \in [Slots -> Ctxs \cup {None}]
    /\ nextRow \in [Slots -> 0 .. MaxRows] /\ rowsDone \in [Slots -> Nat]
    /\ claimw \in [Slots -> [seq : Nat, row : 0 .. MaxRows]]
    /\ progress \in [Slots -> [RowIdx -> Nat]]
    /\ counted \in [Slots -> SUBSET RowIdx]
IdleTypes ==
    /\ idleStack \in Seq(Workers) /\ idlers \in Int
    /\ wslot \in [0 .. CvSlots - 1 -> Int]
WorkTypes ==
    /\ pc \in [Workers -> WorkerPcs] /\ slot \in [Workers -> Slots]
    /\ row \in [Workers -> RowIdx \cup {0}] /\ col \in [Workers -> Nat]
    /\ nxt \in [Workers -> RowIdx \cup {0}]
    /\ runSeq \in [Workers -> Nat] /\ curSeq \in [Workers -> Nat]
    /\ fctx \in [Workers -> Ctxs \cup {None}]
CallTypes ==
    /\ spc \in [Submitters -> SubmitterPcs]
    /\ callNo \in [Submitters -> Nat] /\ pos \in [Submitters -> Nat]
    /\ passed \in [Submitters -> Nat] /\ held \in [Submitters -> Seq(Slots)]
    /\ scell \in [Submitters -> Nat \X Nat]
RestTypes ==
    /\ mtx \in Workers \cup {None}
    /\ shutdown \in BOOLEAN /\ seqNext \in Nat
    /\ pub \in 0 .. MaxRows /\ ppc \in {"publish", "kick"}
    /\ ran \subseteq Ctxs \X Nat \X Nat

LEMMA TypeParts == TypeOK <=> TableTypes /\ IdleTypes /\ WorkTypes /\ CallTypes /\ RestTypes
  BY DEF TypeOK, TableTypes, IdleTypes, WorkTypes, CallTypes, RestTypes

\* A live worker's slot has a grid, and its row is one of the grid's.
LEMMA LiveGrid ==
    ASSUME IInv, NEW w \in Workers, pc[w] \in LivePcs
    PROVE  /\ slot[w] \in Slots /\ used[slot[w]] /\ ~done[slot[w]]
           /\ jctx[slot[w]] \in Ctxs /\ jctx[slot[w]] # None
           /\ NRows[jctx[slot[w]]] \in 1 .. MaxRows
           /\ NCols[jctx[slot[w]]] \in Nat \ {0}
           /\ pc[w] \in RowPcs => Kind[jctx[slot[w]]] = "wavefront"
           /\ pc[w] \in RowPcs \cup {"cascade", "unit"} => row[w] \in 0 .. NRows[jctx[slot[w]]] - 1
<1>1. slot[w] \in Slots /\ row[w] \in RowIdx \cup {0} BY DEF IInv, TypeOK
<1>2. used[slot[w]] /\ ~done[slot[w]] BY DEF IInv, LiveInv, LiveOf
<1>3. jctx[slot[w]] # None /\ RowsClaimed(slot[w]) <= NRows[jctx[slot[w]]]
  BY <1>1, <1>2 DEF IInv, JobInv, SlotOf
<1>4. /\ jctx[slot[w]] \in Ctxs /\ NRows[jctx[slot[w]]] \in 1 .. MaxRows
      /\ NCols[jctx[slot[w]]] \in Nat \ {0}
  BY <1>1, <1>3, GridOf DEF IInv
<1>5. pc[w] \in RowPcs => Kind[jctx[slot[w]]] = "wavefront"
  BY DEF IInv, LiveInv, LiveOf, Wave
<1>6. ASSUME pc[w] \in RowPcs \cup {"cascade", "unit"} PROVE row[w] < RowsClaimed(slot[w])
  BY <1>6 DEF IInv, ClaimInv, ClaimsOf, Rows
<1>7. RowsClaimed(slot[w]) \in Nat
  BY <1>1 DEF IInv, TypeOK, RowsClaimed
<1>8. MaxRows \in Nat BY PoolAssumption
<1>9. ASSUME pc[w] \in RowPcs \cup {"cascade", "unit"} PROVE row[w] \in 0 .. NRows[jctx[slot[w]]] - 1
  BY <1>1, <1>3, <1>4, <1>6, <1>7, <1>8, <1>9 DEF RowIdx
<1> QED BY <1>1, <1>2, <1>3, <1>4, <1>5, <1>9

LEMMA CountBump ==
    ASSUME NEW f \in [Slots -> Nat], NEW j \in Slots
    PROVE  [f EXCEPT ![j] = @ + 1] \in [Slots -> Nat]
  OBVIOUS

LEMMA ClaimBump ==
    ASSUME NEW f \in [Slots -> [seq : Nat, row : 0 .. MaxRows]], NEW j \in Slots,
           NEW n \in 0 .. MaxRows, f[j].row < n, MaxRows \in Nat
    PROVE  [f EXCEPT ![j].row = @ + 1] \in [Slots -> [seq : Nat, row : 0 .. MaxRows]]
<1>1. f[j].row + 1 \in 0 .. MaxRows OBVIOUS
<1>2. [f[j] EXCEPT !.row = @ + 1] \in [seq : Nat, row : 0 .. MaxRows] BY <1>1
<1> QED BY <1>2

LEMMA TableTypesStep == IInv /\ [Next]_vars => TableTypes'
<1> SUFFICES ASSUME IInv, [Next]_vars PROVE TableTypes' OBVIOUS
<1>0. TableTypes /\ WorkTypes /\ MaxRows \in Nat BY TypeParts, PoolAssumption DEF IInv
<1>1. ASSUME NEW w \in Workers, QuietWork(w) PROVE TableTypes'
  BY <1>0, <1>1, QuietWorkIs DEF TableTypes, jobVars, regVars
<1>2. ASSUME NEW w \in Workers, ClaimUnit(w) PROVE TableTypes'
  <2>1. pc[w] \in LivePcs BY <1>2 DEF ClaimUnit, LivePcs
  <2>2. slot[w] \in Slots /\ NRows[jctx[slot[w]]] \in 1 .. MaxRows BY <2>1, LiveGrid
  <2>3. UNCHANGED <<used, done, seq, jctx, nextRow, rowsDone, progress, counted>>
    BY <1>2 DEF ClaimUnit, regVars
  <2>4. claimw' \in [Slots -> [seq : Nat, row : 0 .. MaxRows]]
    <3>1. \/ UNCHANGED claimw
          \/ /\ claimw[slot[w]].row < NRows[jctx[slot[w]]]
             /\ claimw' = [claimw EXCEPT ![slot[w]].row = @ + 1]
      BY <1>2 DEF ClaimUnit, UnitLeft
    <3>2. claimw \in [Slots -> [seq : Nat, row : 0 .. MaxRows]] BY <1>0 DEF TableTypes
    <3>3. ASSUME claimw[slot[w]].row < NRows[jctx[slot[w]]]
          PROVE  [claimw EXCEPT ![slot[w]].row = @ + 1] \in [Slots -> [seq : Nat, row : 0 .. MaxRows]]
      <4> HIDE DEF Slots
      <4> QED BY <1>0, <2>2, <3>2, <3>3, ClaimBump
    <3> QED BY <3>1, <3>2, <3>3
  <2> QED BY <1>0, <2>3, <2>4 DEF TableTypes
<1>3. ASSUME NEW w \in Workers, ClaimRow(w) PROVE TableTypes'
  <2>1. pc[w] \in LivePcs BY <1>3 DEF ClaimRow, LivePcs
  <2>2. slot[w] \in Slots /\ NRows[jctx[slot[w]]] \in 1 .. MaxRows BY <2>1, LiveGrid
  <2>3. UNCHANGED <<used, done, seq, jctx, claimw, rowsDone, progress, counted>>
    BY <1>3 DEF ClaimRow, regVars
  <2>4. nextRow' \in [Slots -> 0 .. MaxRows]
    <3>1. \/ UNCHANGED nextRow
          \/ /\ nextRow[slot[w]] < NRows[jctx[slot[w]]]
             /\ nextRow' = [nextRow EXCEPT ![slot[w]] = @ + 1]
      BY <1>3 DEF ClaimRow, NextReady, RowsClaimed
    <3> QED BY SMTT(40), <1>0, <2>2, <3>1 DEF TableTypes
  <2> QED BY <1>0, <2>3, <2>4 DEF TableTypes
<1>4. ASSUME NEW w \in Workers, RunCell(w) PROVE TableTypes'
  <2>1. pc[w] \in RowPcs BY <1>4 DEF RunCell, RowPcs
  <2>2. slot[w] \in Slots /\ row[w] \in RowIdx /\ NRows[jctx[slot[w]]] \in 1 .. MaxRows
    BY <1>0, <2>1, LiveGrid DEF LivePcs, RowIdx
  <2> QED BY <1>0, <1>4, <2>2 DEF TableTypes, WorkTypes, RunCell, regVars
<1>5. ASSUME NEW w \in Workers, FastClaim(w) PROVE TableTypes'
  <2>1. pc[w] \in LivePcs BY <1>5 DEF FastClaim, LivePcs, RowPcs
  <2>2. slot[w] \in Slots /\ NRows[jctx[slot[w]]] \in 1 .. MaxRows BY <2>1, LiveGrid
  <2>3. UNCHANGED <<used, done, seq, jctx, claimw, rowsDone, progress, counted>>
    BY <1>5 DEF FastClaim, regVars
  <2>4. nextRow' \in [Slots -> 0 .. MaxRows]
    <3>1. \/ UNCHANGED nextRow
          \/ /\ nextRow[slot[w]] < NRows[jctx[slot[w]]]
             /\ nextRow' = [nextRow EXCEPT ![slot[w]] = nextRow[slot[w]] + 1]
      BY <1>5 DEF FastClaim, FastRow, RowsLeft
    <3> QED BY SMTT(40), <1>0, <2>2, <3>1 DEF TableTypes
  <2> QED BY <1>0, <2>3, <2>4 DEF TableTypes
<1>6. ASSUME NEW w \in Workers, FastCount(w) \/ FinishRow(w) PROVE TableTypes'
  <2>1. pc[w] \in RowPcs BY <1>6 DEF FastCount, FinishRow, RowPcs
  <2>2. slot[w] \in Slots /\ row[w] \in RowIdx /\ NRows[jctx[slot[w]]] \in 1 .. MaxRows
    BY <1>0, <2>1, LiveGrid DEF LivePcs, RowIdx
  <2>3. /\ UNCHANGED <<used, seq, jctx, claimw, nextRow, progress>>
        /\ counted' = [counted EXCEPT ![slot[w]] = @ \cup {row[w]}]
        /\ rowsDone' = [rowsDone EXCEPT ![slot[w]] = @ + 1]
        /\ UNCHANGED done \/ done' = [done EXCEPT ![slot[w]] = TRUE]
    BY <1>6 DEF FastCount, FinishRow, regVars
  <2>4. counted' \in [Slots -> SUBSET RowIdx]
    BY <1>0, <2>2, <2>3 DEF TableTypes
  <2>5. rowsDone' \in [Slots -> Nat]
    BY <1>0, <2>2, <2>3, CountBump DEF TableTypes
  <2>6. done' \in [Slots -> BOOLEAN]
    BY <1>0, <2>3 DEF TableTypes
  <2> QED BY <1>0, <2>3, <2>4, <2>5, <2>6 DEF TableTypes
<1>7. ASSUME NEW w \in Workers, RunUnit(w) \/ FinishFor(w) PROVE TableTypes'
  <2>1. /\ UNCHANGED <<used, seq, jctx, claimw, nextRow, progress, counted>>
        /\ UNCHANGED rowsDone \/ rowsDone' = [rowsDone EXCEPT ![slot[w]] = @ + 1]
        /\ UNCHANGED done \/ done' = [done EXCEPT ![slot[w]] = TRUE]
    BY <1>7 DEF RunUnit, FinishFor, regVars
  <2>2. slot[w] \in Slots BY <1>0 DEF WorkTypes
  <2>3. rowsDone' \in [Slots -> Nat]
    BY SMTT(40), <1>0, <2>1, <2>2, CountBump DEF TableTypes
  <2>4. done' \in [Slots -> BOOLEAN]
    BY <1>0, <2>1 DEF TableTypes
  <2> QED BY <1>0, <2>1, <2>3, <2>4 DEF TableTypes
<1>8. ASSUME NEW w \in Workers, NextUnit(w) PROVE TableTypes'
  <2>1. pc[w] \in ForPcs BY <1>8 DEF NextUnit, ForPcs
  <2>2. fctx[w] \in Ctxs BY <1>0, <2>1 DEF IInv, LiveInv, LiveOf, For, WorkTypes
  <2>3. slot[w] \in Slots /\ NRows[fctx[w]] \in 0 .. MaxRows BY <1>0, <2>2, PoolAssumption DEF WorkTypes
  <2>4. UNCHANGED <<used, done, seq, jctx, nextRow, rowsDone, progress, counted>>
    BY <1>8 DEF NextUnit, regVars
  <2>5. claimw' \in [Slots -> [seq : Nat, row : 0 .. MaxRows]]
    <3>1. \/ UNCHANGED claimw
          \/ /\ claimw[slot[w]].row < NRows[fctx[w]]
             /\ claimw' = [claimw EXCEPT ![slot[w]].row = @ + 1]
      BY <1>8 DEF NextUnit, UnitLeft
    <3>2. claimw \in [Slots -> [seq : Nat, row : 0 .. MaxRows]] BY <1>0 DEF TableTypes
    <3>3. ASSUME claimw[slot[w]].row < NRows[fctx[w]]
          PROVE  [claimw EXCEPT ![slot[w]].row = @ + 1] \in [Slots -> [seq : Nat, row : 0 .. MaxRows]]
      <4> HIDE DEF Slots
      <4> QED BY <1>0, <2>3, <3>2, <3>3, ClaimBump
    <3> QED BY <3>1, <3>2, <3>3
  <2> QED BY <1>0, <2>4, <2>5 DEF TableTypes
<1>9. ASSUME NEW s \in Submitters, QuietCall(s) PROVE TableTypes'
  BY <1>0, <1>9, QuietCallIs DEF TableTypes, poolVars, jobVars, regVars
<1>10. ASSUME NEW s \in Submitters, Register(s) PROVE TableTypes'
  <2>1. Current(s) \in Ctxs
    BY <1>10, CurrentIn DEF Register, CanRegister, PassFull, IInv
  <2>2. FreeSlot \in Slots BY <1>10, FreeSlotIn DEF Register
  <2>3. seqNext \in Nat BY DEF IInv, TypeOK
  <2>4. /\ used' = [used EXCEPT ![FreeSlot] = TRUE]
        /\ done' = [done EXCEPT ![FreeSlot] = FALSE]
        /\ seq' = [seq EXCEPT ![FreeSlot] = seqNext + 1]
        /\ jctx' = [jctx EXCEPT ![FreeSlot] = Current(s)]
        /\ nextRow' = [nextRow EXCEPT ![FreeSlot] = 0]
        /\ claimw' = [claimw EXCEPT ![FreeSlot] = [seq |-> seqNext + 1, row |-> 0]]
        /\ rowsDone' = [rowsDone EXCEPT ![FreeSlot] = 0]
    BY <1>10 DEF Register, FreeSlot
  <2>5. \/ /\ progress' = [progress EXCEPT ![FreeSlot] =
                           [r \in RowIdx |-> IF r < NRows[Current(s)] THEN 0 ELSE @[r]]]
           /\ counted' = [counted EXCEPT ![FreeSlot] = {}]
        \/ UNCHANGED <<progress, counted>>
    BY <1>10 DEF Register, FreeSlot
  <2>6. progress' \in [Slots -> [RowIdx -> Nat]] /\ counted' \in [Slots -> SUBSET RowIdx]
    <3>1. ASSUME NEW j \in Slots
          PROVE  [r \in RowIdx |-> IF r < NRows[Current(s)] THEN 0 ELSE progress[j][r]] \in [RowIdx -> Nat]
      BY <1>0 DEF TableTypes
    <3> QED BY <1>0, <2>2, <2>5, <3>1 DEF TableTypes
  <2>7. /\ used' \in [Slots -> BOOLEAN] /\ done' \in [Slots -> BOOLEAN]
        /\ seq' \in [Slots -> Nat] /\ jctx' \in [Slots -> Ctxs \cup {None}]
    BY <1>0, <2>1, <2>2, <2>3, <2>4 DEF TableTypes
  <2>8. /\ nextRow' \in [Slots -> 0 .. MaxRows] /\ rowsDone' \in [Slots -> Nat]
        /\ claimw' \in [Slots -> [seq : Nat, row : 0 .. MaxRows]]
    BY <1>0, <2>2, <2>3, <2>4 DEF TableTypes
  <2> QED BY <2>6, <2>7, <2>8 DEF TableTypes
<1>11. ASSUME NEW s \in Submitters, SerialCell(s) \/ Join(s) PROVE TableTypes'
  BY <1>0, <1>11 DEF TableTypes, SerialCell, Join, poolVars, jobVars, regVars
<1>12. ASSUME External \/ UNCHANGED vars PROVE TableTypes'
  BY <1>0, <1>12, ExternalIs DEF TableTypes, vars, poolVars, jobVars, regVars
<1> QED BY <1>1, <1>2, <1>3, <1>4, <1>5, <1>6, <1>7, <1>8, <1>9, <1>10, <1>11, <1>12, Steps

LEMMA IdleTypesStep == IInv /\ [Next]_vars => IdleTypes'
<1> SUFFICES ASSUME IInv, [Next]_vars PROVE IdleTypes' OBVIOUS
<1>0. IdleTypes BY TypeParts DEF IInv
<1>1. ASSUME UNCHANGED idleVars, UNCHANGED wslot PROVE IdleTypes'
  BY <1>0, <1>1 DEF IdleTypes, idleVars
<1>2. ASSUME WakeOne \/ WakeAll \/ UNCHANGED idleStack PROVE idleStack' \in Seq(Workers)
  BY <1>0, <1>2, WakeOneIs, EmptySeq DEF IdleTypes, WakeAll
<1>3. ASSUME NEW w \in Workers, QuietWork(w) PROVE IdleTypes'
  <2>1. CASE \/ Enter(w) \/ ScanFound(w) \/ ScanExit(w) \/ ScanNothing(w) \/ Sleep(w)
             \/ CheckAbove(w) \/ Unpark(w) \/ PeekRowWaiter(w) \/ WakeRow(w)
             \/ PeekIdle(w) \/ FastPeek(w) \/ Stall(w) \/ Park(w)
    BY <1>1, <2>1 DEF Enter, ScanFound, ScanExit, ScanNothing, Sleep, CheckAbove,
       Unpark, PeekRowWaiter, WakeRow, PeekIdle, FastPeek, Stall, Park, poolVars
  <2>2. CASE RegisterIdle(w)
    <3>1. idleStack' \in Seq(Workers) BY <1>0, <2>2, AppendProperties DEF RegisterIdle, IdleTypes
    <3> QED BY <1>0, <2>2, <3>1 DEF RegisterIdle, IdleTypes
  <2>3. CASE Withdraw(w)
    <3>1. OnStack(w) BY <2>3 DEF Withdraw, IInv, StackInv
    <3>2. idleStack' \in Seq(Workers) BY <1>0, <2>3, <3>1, StackRemoveIs DEF Withdraw, IdleTypes
    <3> QED BY <1>0, <2>3, <3>2 DEF Withdraw, IdleTypes
  <2>4. CASE Resume(w) BY <1>0, <2>4 DEF Resume, IdleTypes
  <2>5. CASE Cascade(w) \/ WakeIdle(w)
    <3>1. idleStack' \in Seq(Workers) BY <1>2, <2>5 DEF Cascade, CascadeWake, WakeIdle
    <3> QED BY <1>0, <2>5, <3>1 DEF Cascade, WakeIdle, IdleTypes
  <2>6. CASE Enlist(w) \/ Delist(w)
    <3>1. UNCHANGED idleVars BY <2>6 DEF Enlist, Delist
    <3>2. \/ wslot' = [wslot EXCEPT ![CvOf(slot[w], row[w])] = @ + 1]
          \/ wslot' = [wslot EXCEPT ![CvOf(slot[w], row[w])] = @ - 1]
      BY <2>6 DEF Enlist, Delist
    <3> QED BY <1>0, <3>1, <3>2 DEF IdleTypes, idleVars
  <2> QED BY <1>3, <2>1, <2>2, <2>3, <2>4, <2>5, <2>6 DEF QuietWork
<1>4. ASSUME NEW w \in Workers,
             \/ ClaimUnit(w) \/ ClaimRow(w) \/ RunCell(w) \/ FastClaim(w) \/ FastCount(w)
             \/ FinishRow(w) \/ RunUnit(w) \/ NextUnit(w) \/ FinishFor(w)
      PROVE  IdleTypes'
  BY <1>1, <1>4 DEF ClaimUnit, ClaimRow, RunCell, FastClaim, FastCount, FinishRow,
     RunUnit, NextUnit, FinishFor
<1>5. ASSUME NEW s \in Submitters, QuietCall(s) \/ SerialCell(s) \/ Join(s) PROVE IdleTypes'
  BY <1>1, <1>5, QuietCallIs DEF SerialCell, Join, poolVars
<1>6. ASSUME NEW s \in Submitters, Register(s) PROVE IdleTypes'
  BY <1>0, <1>2, <1>6 DEF Register, IdleTypes
<1>7. CASE External
  <2>1. idleStack' \in Seq(Workers)
    BY <1>2, <1>7 DEF External, PublishRow, Kick, Destroy, poolVars, idleVars
  <2> QED BY <1>0, <1>7, <2>1, ExternalIs DEF IdleTypes
<1>8. CASE UNCHANGED vars BY <1>1, <1>8 DEF vars, poolVars
<1> QED BY <1>3, <1>4, <1>5, <1>6, <1>7, <1>8, Steps

LEMMA RestTypesStep == IInv /\ [Next]_vars => RestTypes'
<1> SUFFICES ASSUME IInv, [Next]_vars PROVE RestTypes' OBVIOUS
<1>0. RestTypes /\ WorkTypes /\ MaxRows \in Nat BY TypeParts, PoolAssumption DEF IInv
<1>1. mtx' \in Workers \cup {None}
  <2>1. ASSUME NEW w \in Workers, QuietWork(w) PROVE mtx' = mtx \/ mtx' \in {w, None}
    BY <2>1 DEF QuietWork, Enter, ScanFound, ScanExit, ScanNothing, RegisterIdle, Withdraw,
       Sleep, Resume, Cascade, CheckAbove, Stall, Enlist, Park, Unpark, Delist, PeekRowWaiter, WakeRow,
       PeekIdle, WakeIdle, FastPeek
  <2>2. ASSUME NEW w \in Workers,
               \/ ClaimUnit(w) \/ ClaimRow(w) \/ RunCell(w) \/ FastClaim(w) \/ FastCount(w)
               \/ FinishRow(w) \/ RunUnit(w) \/ NextUnit(w) \/ FinishFor(w)
        PROVE  mtx' = mtx \/ mtx' = w
    BY <2>2 DEF ClaimUnit, ClaimRow, RunCell, FastClaim, FastCount, FinishRow, RunUnit,
       NextUnit, FinishFor
  <2>3. ASSUME NEW s \in Submitters,
               QuietCall(s) \/ Register(s) \/ SerialCell(s) \/ Join(s)
        PROVE  mtx' = mtx
    BY <2>3, QuietCallIs DEF Register, SerialCell, Join
  <2>4. External \/ UNCHANGED vars => mtx' = mtx BY ExternalIs DEF vars
  <2> QED BY <1>0, <2>1, <2>2, <2>3, <2>4, Steps DEF RestTypes
<1>2. ran' \subseteq Ctxs \X Nat \X Nat
  <2>1. ASSUME NEW w \in Workers, RunCell(w) PROVE ran' \subseteq Ctxs \X Nat \X Nat
    <3>1. pc[w] \in RowPcs BY <2>1 DEF RunCell, RowPcs
    <3>2. jctx[slot[w]] \in Ctxs /\ row[w] \in Nat BY <3>1, LiveGrid DEF LivePcs
    <3>3. col[w] \in Nat BY <1>0 DEF WorkTypes
    <3> QED BY <1>0, <2>1, <3>2, <3>3 DEF RestTypes, RunCell
  <2>2. ASSUME NEW w \in Workers, RunUnit(w) PROVE ran' \subseteq Ctxs \X Nat \X Nat
    <3>1. pc[w] \in ForPcs BY <2>2 DEF RunUnit, ForPcs
    <3>2. fctx[w] \in Ctxs BY <1>0, <3>1 DEF IInv, LiveInv, LiveOf, For, WorkTypes
    <3>3. row[w] \in Nat BY <1>0 DEF WorkTypes, RowIdx
    <3> QED BY <1>0, <2>2, <3>2, <3>3 DEF RestTypes, RunUnit
  <2>3. ASSUME NEW s \in Submitters, SerialCell(s) PROVE ran' \subseteq Ctxs \X Nat \X Nat
    <3>1. spc[s] = "serial" /\ pos[s] \in Nat /\ scell[s] \in Nat \X Nat
      BY <2>3 DEF SerialCell, IInv, TypeOK
    <3>2. Current(s) \in Ctxs BY <3>1, SerialGrid
    <3> QED BY <1>0, <2>3, <3>1, <3>2 DEF RestTypes, SerialCell
  <2>4. ASSUME NEW w \in Workers,
               \/ QuietWork(w) \/ ClaimUnit(w) \/ ClaimRow(w) \/ FastClaim(w) \/ FastCount(w)
               \/ FinishRow(w) \/ NextUnit(w) \/ FinishFor(w)
        PROVE  ran' = ran
    BY <2>4, QuietWorkIs DEF ClaimUnit, ClaimRow, FastClaim, FastCount, FinishRow,
       NextUnit, FinishFor
  <2>5. ASSUME NEW s \in Submitters, QuietCall(s) \/ Register(s) \/ Join(s)
        PROVE  ran' = ran
    BY <2>5, QuietCallIs DEF Register, Join
  <2>6. External \/ UNCHANGED vars => ran' = ran BY ExternalIs DEF vars
  <2> QED BY <1>0, <2>1, <2>2, <2>3, <2>4, <2>5, <2>6, Steps DEF RestTypes
<1>3. /\ shutdown' \in BOOLEAN /\ seqNext' \in Nat
      /\ pub' \in 0 .. MaxRows /\ ppc' \in {"publish", "kick"}
  <2>1. ASSUME NEW w \in Workers,
               \/ QuietWork(w) \/ ClaimUnit(w) \/ ClaimRow(w) \/ RunCell(w) \/ FastClaim(w)
               \/ FastCount(w) \/ FinishRow(w) \/ RunUnit(w) \/ NextUnit(w) \/ FinishFor(w)
        PROVE  UNCHANGED <<shutdown, seqNext, pub, ppc>>
    BY <2>1, QuietWorkIs DEF ClaimUnit, ClaimRow, RunCell, FastClaim, FastCount, FinishRow,
       RunUnit, NextUnit, FinishFor, envVars, extVars
  <2>2. ASSUME NEW s \in Submitters, QuietCall(s) \/ SerialCell(s) \/ Join(s)
        PROVE  UNCHANGED <<shutdown, seqNext, pub, ppc>>
    BY <2>2, QuietCallIs DEF SerialCell, Join, extVars
  <2>3. ASSUME NEW s \in Submitters, Register(s)
        PROVE  UNCHANGED <<shutdown, pub, ppc>> /\ seqNext' = seqNext + 1
    BY <2>3 DEF Register, extVars
  <2>4. CASE External
    <3>1. CASE PublishRow
      <4>1. pub + 1 \in 0 .. MaxRows BY <1>0, <3>1 DEF PublishRow, RestTypes
      <4> QED BY <1>0, <3>1, <4>1 DEF RestTypes, PublishRow
    <3>2. CASE Kick \/ Destroy BY <1>0, <3>2 DEF RestTypes, Kick, Destroy, extVars
    <3> QED BY <2>4, <3>1, <3>2 DEF External
  <2>5. CASE UNCHANGED vars BY <1>0, <2>5 DEF RestTypes, vars, envVars, extVars
  <2> QED BY <1>0, <2>1, <2>2, <2>3, <2>4, <2>5, Steps DEF RestTypes
<1> QED BY <1>1, <1>2, <1>3 DEF RestTypes

\* The types of what a worker holds, one variable at a time.
LEMMA PcStep == IInv /\ [Next]_vars => pc' \in [Workers -> WorkerPcs]
<1> SUFFICES ASSUME IInv, [Next]_vars PROVE pc' \in [Workers -> WorkerPcs] OBVIOUS
<1>0. pc \in [Workers -> WorkerPcs] BY DEF IInv, TypeOK
<1>1. ASSUME NEW w \in Workers, QuietWork(w)
      PROVE  \/ \E l \in WorkerPcs : GoTo(w, l)
             \/ pc' \in [Workers -> WorkerPcs]
  <2>1. CASE \/ Enter(w) \/ ScanFound(w) \/ ScanExit(w) \/ ScanNothing(w)
             \/ RegisterIdle(w) \/ Withdraw(w) \/ Sleep(w) \/ Resume(w) \/ Cascade(w)
    BY <2>1 DEF Enter, ScanFound, ScanExit, ScanNothing, RegisterIdle, Withdraw, Sleep,
       Resume, Cascade, WorkerPcs, RowPcs
  <2>2. CASE \/ CheckAbove(w) \/ Stall(w) \/ Enlist(w) \/ Park(w) \/ Unpark(w) \/ Delist(w) \/ PeekRowWaiter(w)
             \/ PeekIdle(w) \/ WakeIdle(w) \/ FastPeek(w)
    BY <2>2 DEF CheckAbove, Stall, Enlist, Park, Unpark, Delist, PeekRowWaiter, PeekIdle, WakeIdle,
       FastPeek, NextCell, WorkerPcs, RowPcs
  <2>3. CASE WakeRow(w)
    BY <1>0, <2>3 DEF WakeRow, WorkerPcs, RowPcs
  <2> QED BY <1>1, <2>1, <2>2, <2>3 DEF QuietWork
<1>2. ASSUME NEW w \in Workers,
             \/ ClaimUnit(w) \/ ClaimRow(w) \/ RunCell(w) \/ FastClaim(w) \/ FastCount(w)
             \/ FinishRow(w) \/ RunUnit(w) \/ NextUnit(w) \/ FinishFor(w)
      PROVE  \E l \in WorkerPcs : GoTo(w, l)
  BY <1>2 DEF ClaimUnit, ClaimRow, RunCell, FastClaim, FastCount, FinishRow, RunUnit,
     NextUnit, FinishFor, WorkerPcs, RowPcs
<1>3. ASSUME NEW s \in Submitters,
             QuietCall(s) \/ Register(s) \/ SerialCell(s) \/ Join(s)
      PROVE  pc' = pc
  BY <1>3, QuietCallIs DEF Register, SerialCell, Join, workVars
<1>4. External \/ UNCHANGED vars => pc' = pc BY ExternalIs DEF vars, workVars
<1>5. ASSUME NEW w \in Workers, NEW l \in WorkerPcs, GoTo(w, l)
      PROVE  pc' \in [Workers -> WorkerPcs]
  <2> HIDE DEF WorkerPcs
  <2> QED BY <1>0, <1>5 DEF GoTo
<1> HIDE DEF WorkerPcs
<1> QED BY <1>0, <1>1, <1>2, <1>3, <1>4, <1>5, Steps

LEMMA PlaceStep ==
    IInv /\ [Next]_vars =>
        /\ slot' \in [Workers -> Slots] /\ row' \in [Workers -> RowIdx \cup {0}]
        /\ col' \in [Workers -> Nat] /\ nxt' \in [Workers -> RowIdx \cup {0}]
<1> SUFFICES ASSUME IInv, [Next]_vars
             PROVE  /\ slot' \in [Workers -> Slots] /\ row' \in [Workers -> RowIdx \cup {0}]
                    /\ col' \in [Workers -> Nat] /\ nxt' \in [Workers -> RowIdx \cup {0}]
  OBVIOUS
<1> DEFINE R == RowIdx \cup {0}
<1>0. /\ slot \in [Workers -> Slots] /\ row \in [Workers -> R]
      /\ col \in [Workers -> Nat] /\ nxt \in [Workers -> R]
  BY DEF IInv, TypeOK
<1>1. seq \in [Slots -> Nat] /\ MaxRows \in Nat BY PoolAssumption DEF IInv, TypeOK
<1>2. \A r \in 0 .. MaxRows - 1 : r \in R BY DEF RowIdx
<1> HIDE DEF R
<1> USE DEF posVars, wrkVars, workVars
<1>3. ASSUME NEW w \in Workers, ScanFound(w) \/ Withdraw(w)
      PROVE  slot' \in [Workers -> Slots] /\ UNCHANGED <<row, col, nxt>>
  <2>1. PickFresh(curSeq[w]) \in Slots
    BY <1>1, <1>3, PickIn DEF ScanFound, Withdraw, RescanFinds, Ready
  <2> QED BY <1>0, <1>3, <2>1 DEF ScanFound, Withdraw
<1>4. ASSUME NEW w \in Workers, Cascade(w) \/ PeekIdle(w) \/ WakeIdle(w)
      PROVE  col' \in [Workers -> Nat] /\ UNCHANGED <<slot, row, nxt>>
  <2>1. UNCHANGED <<slot, row, nxt>> BY <1>4 DEF Cascade, PeekIdle, WakeIdle
  <2>2. UNCHANGED col \/ col' = [col EXCEPT ![w] = 0] \/ col' = [col EXCEPT ![w] = @ + 1]
    BY <1>4 DEF Cascade, PeekIdle, WakeIdle, NextCell
  <2> QED BY <1>0, <2>1, <2>2
<1>5. ASSUME NEW w \in Workers,
             \/ Enter(w) \/ ScanExit(w) \/ ScanNothing(w) \/ RegisterIdle(w) \/ Sleep(w)
             \/ Resume(w) \/ CheckAbove(w) \/ Stall(w) \/ Enlist(w) \/ Park(w) \/ Unpark(w) \/ Delist(w) \/ RunCell(w)
             \/ PeekRowWaiter(w) \/ WakeRow(w) \/ FastPeek(w) \/ FinishRow(w) \/ RunUnit(w)
             \/ FinishFor(w)
      PROVE  UNCHANGED posVars
  BY <1>5 DEF Enter, ScanExit, ScanNothing, RegisterIdle, Sleep, Resume, CheckAbove, Stall, Enlist, Park, Unpark, Delist, RunCell, PeekRowWaiter, WakeRow, FastPeek, FinishRow, RunUnit, FinishFor
<1>6. ASSUME NEW w \in Workers, ClaimUnit(w)
      PROVE  row' \in [Workers -> R] /\ UNCHANGED <<slot, col, nxt>>
  <2>1. pc[w] \in LivePcs BY <1>6 DEF ClaimUnit, LivePcs
  <2>2. slot[w] \in Slots /\ NRows[jctx[slot[w]]] \in 1 .. MaxRows BY <2>1, LiveGrid
  <2>3. claimw[slot[w]].row \in Nat BY <2>2 DEF IInv, TypeOK
  <2>4. /\ UNCHANGED <<slot, col, nxt>>
        /\ \/ UNCHANGED row
           \/ /\ claimw[slot[w]].row < NRows[jctx[slot[w]]]
              /\ row' = [row EXCEPT ![w] = claimw[slot[w]].row]
    BY <1>6 DEF ClaimUnit, UnitLeft
  <2>5. claimw[slot[w]].row < NRows[jctx[slot[w]]] => claimw[slot[w]].row \in R
    BY <1>1, <1>2, <2>2, <2>3
  <2> QED BY <1>0, <2>4, <2>5
<1>7. ASSUME NEW w \in Workers, ClaimRow(w)
      PROVE  row' \in [Workers -> R] /\ UNCHANGED <<slot, col, nxt>>
  <2>1. pc[w] \in LivePcs BY <1>7 DEF ClaimRow, LivePcs
  <2>2. slot[w] \in Slots /\ NRows[jctx[slot[w]]] \in 1 .. MaxRows BY <2>1, LiveGrid
  <2>3. nextRow[slot[w]] \in Nat BY <2>2 DEF IInv, TypeOK
  <2>4. /\ UNCHANGED <<slot, col, nxt>>
        /\ \/ UNCHANGED row
           \/ /\ nextRow[slot[w]] < NRows[jctx[slot[w]]]
              /\ row' = [row EXCEPT ![w] = nextRow[slot[w]]]
    BY <1>7 DEF ClaimRow, NextReady, RowsClaimed
  <2>5. nextRow[slot[w]] < NRows[jctx[slot[w]]] => nextRow[slot[w]] \in R
    BY <1>1, <1>2, <2>2, <2>3
  <2> QED BY <1>0, <2>4, <2>5
<1>8. ASSUME NEW w \in Workers, FastClaim(w)
      PROVE  nxt' \in [Workers -> R] /\ UNCHANGED <<slot, row, col>>
  <2>1. pc[w] \in LivePcs BY <1>8 DEF FastClaim, LivePcs, RowPcs
  <2>2. slot[w] \in Slots /\ NRows[jctx[slot[w]]] \in 1 .. MaxRows BY <2>1, LiveGrid
  <2>3. nextRow[slot[w]] \in Nat BY <2>2 DEF IInv, TypeOK
  <2>4. /\ UNCHANGED <<slot, row, col>>
        /\ \/ UNCHANGED nxt
           \/ /\ nextRow[slot[w]] < NRows[jctx[slot[w]]]
              /\ nxt' = [nxt EXCEPT ![w] = nextRow[slot[w]]]
    BY <1>8 DEF FastClaim, FastRow, RowsLeft
  <2>5. nextRow[slot[w]] < NRows[jctx[slot[w]]] => nextRow[slot[w]] \in R
    BY <1>1, <1>2, <2>2, <2>3
  <2> QED BY <1>0, <2>4, <2>5
<1>9. ASSUME NEW w \in Workers, NextUnit(w)
      PROVE  row' \in [Workers -> R] /\ UNCHANGED <<slot, col, nxt>>
  <2>1. pc[w] \in ForPcs BY <1>9 DEF NextUnit, ForPcs
  <2>2. fctx[w] \in Ctxs BY <2>1 DEF IInv, LiveInv, LiveOf, For, TypeOK
  <2>3. NRows[fctx[w]] \in 0 .. MaxRows BY <2>2, PoolAssumption
  <2>4. claimw[slot[w]].row \in Nat BY <1>0 DEF IInv, TypeOK
  <2>5. /\ UNCHANGED <<slot, col, nxt>>
        /\ \/ UNCHANGED row
           \/ /\ claimw[slot[w]].row < NRows[fctx[w]]
              /\ row' = [row EXCEPT ![w] = claimw[slot[w]].row]
    BY <1>9 DEF NextUnit, UnitLeft
  <2>6. claimw[slot[w]].row < NRows[fctx[w]] => claimw[slot[w]].row \in R
    BY <1>1, <1>2, <2>3, <2>4
  <2> QED BY <1>0, <2>5, <2>6
<1>10. ASSUME NEW w \in Workers, FastCount(w)
       PROVE  /\ row' \in [Workers -> R] /\ col' \in [Workers -> Nat]
              /\ UNCHANGED <<slot, nxt>>
  BY <1>0, <1>10 DEF FastCount
<1>11. ASSUME NEW s \in Submitters,
              QuietCall(s) \/ Register(s) \/ SerialCell(s) \/ Join(s)
       PROVE  UNCHANGED posVars
  BY <1>11, QuietCallIs DEF Register, SerialCell, Join
<1>12. External \/ UNCHANGED vars => UNCHANGED posVars
  BY ExternalIs DEF vars
<1>13. ASSUME UNCHANGED posVars PROVE UNCHANGED <<slot, row, col, nxt>>
  BY <1>13
<1>14. ASSUME NEW w \in Workers, QuietWork(w)
       PROVE  \/ UNCHANGED posVars
              \/ ScanFound(w) \/ Withdraw(w) \/ Cascade(w) \/ PeekIdle(w) \/ WakeIdle(w)
  BY <1>5, <1>14 DEF QuietWork
<1> QED
  <2>1. ASSUME NEW w \in Workers, QuietWork(w)
        PROVE  /\ slot' \in [Workers -> Slots] /\ row' \in [Workers -> R]
               /\ col' \in [Workers -> Nat] /\ nxt' \in [Workers -> R]
    BY <1>0, <2>1, <1>3, <1>4, <1>13, <1>14
  <2>2. ASSUME NEW w \in Workers,
               \/ ClaimUnit(w) \/ ClaimRow(w) \/ RunCell(w) \/ FastClaim(w) \/ FastCount(w)
               \/ FinishRow(w) \/ RunUnit(w) \/ NextUnit(w) \/ FinishFor(w)
        PROVE  /\ slot' \in [Workers -> Slots] /\ row' \in [Workers -> R]
               /\ col' \in [Workers -> Nat] /\ nxt' \in [Workers -> R]
    BY <1>0, <2>2, <1>5, <1>6, <1>7, <1>8, <1>9, <1>10, <1>13
  <2>3. ASSUME UNCHANGED posVars
        PROVE  /\ slot' \in [Workers -> Slots] /\ row' \in [Workers -> R]
               /\ col' \in [Workers -> Nat] /\ nxt' \in [Workers -> R]
    BY <1>0, <2>3, <1>13
  <2> QED BY <2>1, <2>2, <2>3, <1>11, <1>12, Steps DEF R

LEMMA WorkTypesStep == IInv /\ [Next]_vars => WorkTypes'
<1> SUFFICES ASSUME IInv, [Next]_vars PROVE WorkTypes' OBVIOUS
<1>0. WorkTypes /\ TableTypes BY TypeParts DEF IInv
<1>1. /\ runSeq' \in [Workers -> Nat] /\ curSeq' \in [Workers -> Nat]
      /\ fctx' \in [Workers -> Ctxs \cup {None}]
  <2>1. ASSUME NEW w \in Workers, Cascade(w)
        PROVE  /\ runSeq' \in [Workers -> Nat] /\ curSeq' \in [Workers -> Nat]
               /\ fctx' \in [Workers -> Ctxs \cup {None}]
    <3>1. /\ runSeq' = [runSeq EXCEPT ![w] = seq[slot[w]]]
          /\ fctx' = [fctx EXCEPT ![w] = jctx[slot[w]]]
          /\ UNCHANGED curSeq \/ curSeq' = [curSeq EXCEPT ![w] = seq[slot[w]]]
      BY <2>1 DEF Cascade
    <3>2. seq[slot[w]] \in Nat /\ jctx[slot[w]] \in Ctxs \cup {None}
      BY <1>0 DEF TableTypes, WorkTypes
    <3> QED BY <1>0, <3>1, <3>2 DEF WorkTypes
  <2>2. ASSUME NEW w \in Workers, QuietWork(w), ~Cascade(w) PROVE UNCHANGED idVars
    BY <2>2 DEF QuietWork, Enter, ScanFound, ScanExit, ScanNothing, RegisterIdle, Withdraw,
       Sleep, Resume, CheckAbove, Stall, Enlist, Park, Unpark, Delist, PeekRowWaiter, WakeRow, PeekIdle,
       WakeIdle, FastPeek, wrkVars
  <2>3. ASSUME NEW w \in Workers,
               \/ ClaimUnit(w) \/ ClaimRow(w) \/ RunCell(w) \/ FastClaim(w) \/ FastCount(w)
               \/ FinishRow(w) \/ RunUnit(w) \/ NextUnit(w) \/ FinishFor(w)
        PROVE  UNCHANGED idVars
    BY <2>3 DEF ClaimUnit, ClaimRow, RunCell, FastClaim, FastCount, FinishRow, RunUnit,
       NextUnit, FinishFor, wrkVars
  <2>4. ASSUME NEW s \in Submitters,
               QuietCall(s) \/ Register(s) \/ SerialCell(s) \/ Join(s)
        PROVE  UNCHANGED idVars
    BY <2>4, QuietCallIs DEF Register, SerialCell, Join, workVars, wrkVars
  <2>5. External \/ UNCHANGED vars => UNCHANGED idVars
    BY ExternalIs DEF vars, workVars, wrkVars
  <2>6. ASSUME UNCHANGED idVars
        PROVE  /\ runSeq' \in [Workers -> Nat] /\ curSeq' \in [Workers -> Nat]
               /\ fctx' \in [Workers -> Ctxs \cup {None}]
    BY <1>0, <2>6 DEF WorkTypes, idVars
  <2> QED BY <2>1, <2>2, <2>3, <2>4, <2>5, <2>6, Steps DEF QuietWork
<1> QED BY <1>1, PcStep, PlaceStep DEF WorkTypes

\* A step of a worker changes of the submitters only who waits for a job.
LEMMA WorkOnCalls ==
    ASSUME NEW w \in Workers,
           \/ QuietWork(w) \/ ClaimUnit(w) \/ ClaimRow(w) \/ RunCell(w) \/ FastClaim(w)
           \/ FastCount(w) \/ FinishRow(w) \/ RunUnit(w) \/ NextUnit(w) \/ FinishFor(w)
    PROVE  /\ UNCHANGED passVars
           /\ UNCHANGED spc \/ \E j \in {slot[w]} : SignalDone(j)
<1>1. CASE FinishRow(w) \/ FinishFor(w) BY <1>1 DEF FinishRow, FinishFor
<1>2. CASE QuietWork(w) BY <1>2, QuietWorkIs DEF envVars, subVars
<1>3. CASE \/ ClaimUnit(w) \/ ClaimRow(w) \/ RunCell(w) \/ FastClaim(w) \/ FastCount(w)
           \/ RunUnit(w) \/ NextUnit(w)
  BY <1>3 DEF ClaimUnit, ClaimRow, RunCell, FastClaim, FastCount, RunUnit, NextUnit,
     envVars, subVars
<1> QED BY <1>1, <1>2, <1>3

LEMMA CallTypesStep == IInv /\ [Next]_vars => CallTypes'
<1> SUFFICES ASSUME IInv, [Next]_vars PROVE CallTypes' OBVIOUS
<1> USE DEF CallTypes, passVars
<1>0. CallTypes BY TypeParts DEF IInv
<1>1. ASSUME UNCHANGED passVars, spc' \in [Submitters -> SubmitterPcs] PROVE CallTypes'
  BY <1>0, <1>1
<1>2. ASSUME NEW j, SignalDone(j) PROVE spc' \in [Submitters -> SubmitterPcs]
  BY <1>0, <1>2 DEF SignalDone, SubmitterPcs
<1>3. ASSUME NEW w \in Workers,
             \/ QuietWork(w) \/ ClaimUnit(w) \/ ClaimRow(w) \/ RunCell(w) \/ FastClaim(w)
             \/ FastCount(w) \/ FinishRow(w) \/ RunUnit(w) \/ NextUnit(w) \/ FinishFor(w)
      PROVE  CallTypes'
  BY <1>0, <1>1, <1>2, <1>3, WorkOnCalls
<1>4. ASSUME NEW s, NEW l \in SubmitterPcs, SGoTo(s, l) PROVE spc' \in [Submitters -> SubmitterPcs]
  BY <1>0, <1>4 DEF SGoTo
<1>5. {"idle", "register", "slotwait", "serial", "join", "joinwait"} = SubmitterPcs
  BY DEF SubmitterPcs
<1>6. ASSUME NEW s \in Submitters, BeginCall(s) PROVE CallTypes'
  <2>1. spc' \in [Submitters -> SubmitterPcs] BY <1>4, <1>5, <1>6 DEF BeginCall
  <2>2. /\ UNCHANGED <<held, scell>>
        /\ callNo' = [callNo EXCEPT ![s] = @ + 1]
        /\ pos' = [pos EXCEPT ![s] = 0] /\ passed' = [passed EXCEPT ![s] = 0]
    BY <1>6 DEF BeginCall
  <2>3. /\ callNo' \in [Submitters -> Nat] /\ pos' \in [Submitters -> Nat]
        /\ passed' \in [Submitters -> Nat]
    BY <1>0, <2>2
  <2> HIDE DEF SubmitterPcs
  <2> QED BY <1>0, <2>1, <2>2, <2>3
<1>7. ASSUME NEW s \in Submitters, SkipEmpty(s) PROVE CallTypes'
  BY <1>0, <1>7, SMTT(40) DEF SkipEmpty, Consume
<1>8. ASSUME NEW s \in Submitters, TableFull(s) \/ EndPass(s) \/ JoinSleep(s) PROVE CallTypes'
  <2>1. spc' \in [Submitters -> SubmitterPcs]
    BY <1>4, <1>5, <1>8 DEF TableFull, OnFull, EndPass, JoinSleep
  <2> QED BY <1>1, <1>8, <2>1 DEF TableFull, EndPass, JoinSleep
<1>9. ASSUME NEW s \in Submitters, RegisterOom(s) PROVE CallTypes'
  <2>1. spc' \in [Submitters -> SubmitterPcs] BY <1>4, <1>5, <1>9 DEF RegisterOom
  <2> HIDE DEF SubmitterPcs
  <2> QED BY <1>0, <1>9, <2>1 DEF RegisterOom
<1>10. ASSUME NEW s \in Submitters, PassJoined(s) PROVE CallTypes'
  <2>1. spc' \in [Submitters -> SubmitterPcs] BY <1>4, <1>5, <1>10 DEF PassJoined
  <2> HIDE DEF SubmitterPcs
  <2> QED BY <1>0, <1>10, <2>1 DEF PassJoined
<1>11. ASSUME NEW s \in Submitters, Register(s) PROVE CallTypes'
  <2>1. FreeSlot \in Slots BY <1>11, FreeSlotIn DEF Register
  <2>2. /\ UNCHANGED <<spc, callNo, scell>>
        /\ held' = [held EXCEPT ![s] = Append(@, FreeSlot)]
        /\ pos' = [pos EXCEPT ![s] = @ + 1] /\ passed' = [passed EXCEPT ![s] = @ + 1]
    BY <1>11 DEF Register, FreeSlot, Consume
  <2>3. Append(held[s], FreeSlot) \in Seq(Slots) BY <1>0, <2>1, AppendProperties
  <2> HIDE DEF Slots
  <2> QED BY <1>0, <2>2, <2>3
<1>12. ASSUME NEW s \in Submitters, SerialCell(s) PROVE CallTypes'
  <2>1. scell[s] \in Nat \X Nat BY <1>0
  <2>2. spc' \in [Submitters -> SubmitterPcs]
    BY <1>0, <1>4, <1>5, <1>12 DEF SerialCell
  <2>3. scell' \in [Submitters -> Nat \X Nat]
    <3>1. \/ scell' = [scell EXCEPT ![s] = <<scell[s][1], scell[s][2] + 1>>]
          \/ scell' = [scell EXCEPT ![s] = <<scell[s][1] + 1, 0>>]
      BY <1>12 DEF SerialCell
    <3>2. <<scell[s][1], scell[s][2] + 1>> \in Nat \X Nat /\ <<scell[s][1] + 1, 0>> \in Nat \X Nat
      BY <2>1
    <3> HIDE DEF SubmitterPcs
    <3> QED BY <1>0, <3>1, <3>2
  <2>4. /\ UNCHANGED <<callNo, held>>
        /\ \/ UNCHANGED <<pos, passed>>
           \/ pos' = [pos EXCEPT ![s] = @ + 1] /\ passed' = [passed EXCEPT ![s] = @ + 1]
    BY <1>12 DEF SerialCell, Consume
  <2>5. pos' \in [Submitters -> Nat] /\ passed' \in [Submitters -> Nat]
    <3>1. pos \in [Submitters -> Nat] /\ passed \in [Submitters -> Nat] BY <1>0
    <3>2. [pos EXCEPT ![s] = @ + 1] \in [Submitters -> Nat] BY <3>1
    <3>3. [passed EXCEPT ![s] = @ + 1] \in [Submitters -> Nat] BY <3>1
    <3> QED BY <2>4, <3>1, <3>2, <3>3
  <2> HIDE DEF SubmitterPcs
  <2> QED BY <1>0, <2>2, <2>3, <2>4, <2>5
<1>13. ASSUME NEW s \in Submitters, Join(s) PROVE CallTypes'
  <2>1. spc' \in [Submitters -> SubmitterPcs]
    BY <1>0, <1>4, <1>5, <1>13 DEF Join
  <2>2. held[s] \in Seq(Slots) /\ held[s] # <<>> BY <1>0, <1>13 DEF Join
  <2>3. Tail(held[s]) \in Seq(Slots) BY <2>2, HeadTailProperties
  <2>4. UNCHANGED <<callNo, pos, passed, scell>> /\ held' = [held EXCEPT ![s] = Tail(@)]
    BY <1>13 DEF Join
  <2> HIDE DEF SubmitterPcs
  <2> QED BY <1>0, <2>1, <2>3, <2>4
<1>14. External \/ UNCHANGED vars => CallTypes'
  BY <1>0, ExternalIs DEF vars, envVars, subVars
<1>15. ASSUME NEW s \in Submitters, QuietCall(s) PROVE CallTypes'
  BY <1>6, <1>7, <1>8, <1>9, <1>10, <1>15 DEF QuietCall
<1> QED BY <1>3, <1>11, <1>12, <1>13, <1>14, <1>15, Steps

LEMMA TypeStep == IInv /\ [Next]_vars => TypeOK'
<1>1. IInv /\ [Next]_vars => TableTypes' /\ IdleTypes' /\ WorkTypes' /\ CallTypes' /\ RestTypes'
  BY TableTypesStep, IdleTypesStep, WorkTypesStep, CallTypesStep, RestTypesStep
<1> QED BY <1>1 DEF TypeOK, TableTypes, IdleTypes, WorkTypes, CallTypes, RestTypes

-----------------------------------------------------------------------------
(* The mutex. *)

LEMMA LockStep == IInv /\ [Next]_vars => LockInv'
<1> SUFFICES ASSUME IInv, [Next]_vars PROVE LockInv' OBVIOUS
<1>0. LockInv /\ pc \in [Workers -> WorkerPcs] /\ None \notin Workers
  BY PoolAssumption DEF IInv, TypeOK
<1>1. ASSUME NEW w \in Workers, NEW l, GoTo(w, l), pc[w] \in LockedPcs <=> l \in LockedPcs, mtx' = mtx
      PROVE  LockInv'
  <2> HIDE DEF LockedPcs
  <2> QED BY <1>0, <1>1 DEF LockInv, GoTo
<1>2. ASSUME NEW w \in Workers, NEW l, GoTo(w, l), mtx = None, mtx' = w, l \in LockedPcs
      PROVE  LockInv'
  <2> HIDE DEF LockedPcs
  <2> QED BY <1>0, <1>2 DEF LockInv, GoTo
<1>3. ASSUME NEW w \in Workers, NEW l, GoTo(w, l), pc[w] \in LockedPcs, mtx' = None, l \notin LockedPcs
      PROVE  LockInv'
  <2> HIDE DEF LockedPcs
  <2> QED BY <1>0, <1>3 DEF LockInv, GoTo
<1>4. ASSUME NEW w \in Workers, QuietWork(w) PROVE LockInv'
  <2>1. CASE Enter(w) \/ Resume(w) \/ Unpark(w)
    BY <1>2, <2>1 DEF Enter, Resume, Unpark, LockedPcs
  <2>2. CASE ScanFound(w) \/ ScanNothing(w) \/ RegisterIdle(w) \/ Withdraw(w) \/ Enlist(w)
    BY <1>1, <2>2 DEF ScanFound, ScanNothing, RegisterIdle, Withdraw, Enlist, LockedPcs
  <2>3. CASE ScanExit(w) \/ Sleep(w) \/ Cascade(w) \/ Delist(w)
    BY <1>3, <2>3 DEF ScanExit, Sleep, Cascade, Delist, LockedPcs
  <2>4. CASE CheckAbove(w) \/ PeekRowWaiter(w) \/ FastPeek(w)
    BY <1>1, <2>4 DEF CheckAbove, PeekRowWaiter, FastPeek, LockedPcs
  <2>5. CASE PeekIdle(w) \/ WakeIdle(w)
    BY <1>1, <2>5 DEF PeekIdle, WakeIdle, NextCell, LockedPcs
  <2>6. CASE Stall(w)
    BY <1>1, <1>2, <2>6 DEF Stall, LockedPcs
  <2>8. CASE Park(w)
    BY <1>1, <1>3, <2>8 DEF Park, LockedPcs
  <2>7. CASE WakeRow(w)
    BY <1>0, <2>7 DEF WakeRow, LockInv, LockedPcs
  <2> QED BY <1>4, <2>1, <2>2, <2>3, <2>4, <2>5, <2>6, <2>7, <2>8 DEF QuietWork
<1>5. ASSUME NEW w \in Workers, FinishRow(w) \/ FinishFor(w) PROVE LockInv'
  BY <1>2, <1>5 DEF FinishRow, FinishFor, LockedPcs
<1>6. ASSUME NEW w \in Workers,
             ClaimUnit(w) \/ ClaimRow(w) \/ RunCell(w) \/ FastClaim(w) \/ FastCount(w)
             \/ RunUnit(w) \/ NextUnit(w)
      PROVE  LockInv'
  BY <1>1, <1>6 DEF ClaimUnit, ClaimRow, RunCell, FastClaim, FastCount, RunUnit, NextUnit,
     LockedPcs
<1>7. ASSUME UNCHANGED <<mtx, pc>> PROVE LockInv'
  BY <1>0, <1>7 DEF LockInv
<1>8. ASSUME NEW s \in Submitters, QuietCall(s) \/ Register(s) \/ SerialCell(s) \/ Join(s)
      PROVE  UNCHANGED <<mtx, pc>>
  BY <1>8, QuietCallIs DEF Register, SerialCell, Join, workVars
<1>9. External \/ UNCHANGED vars => UNCHANGED <<mtx, pc>>
  BY ExternalIs DEF vars, workVars
<1> QED BY <1>4, <1>5, <1>6, <1>7, <1>8, <1>9, Steps

-----------------------------------------------------------------------------
(* The job table. *)

\* What a registration does to the table.
LEMMA RegisterIs ==
    ASSUME IInv, NEW s \in Submitters, Register(s)
    PROVE  \E f \in Slots, x \in Ctxs :
           /\ ~used[f] /\ x = Current(s) /\ x # None /\ x \notin Oom
           /\ NRows[x] \in 1 .. MaxRows /\ NCols[x] \in Nat \ {0}
           /\ Kind[x] \in {"wavefront", "for"}
           /\ ~Taken(x) /\ ~Serial(x)
           /\ seqNext \in Nat /\ seqNext' = seqNext + 1
           /\ used' = [used EXCEPT ![f] = TRUE]
           /\ done' = [done EXCEPT ![f] = FALSE]
           /\ seq' = [seq EXCEPT ![f] = seqNext + 1]
           /\ jctx' = [jctx EXCEPT ![f] = x]
           /\ nextRow' = [nextRow EXCEPT ![f] = 0]
           /\ claimw' = [claimw EXCEPT ![f] = [seq |-> seqNext + 1, row |-> 0]]
           /\ rowsDone' = [rowsDone EXCEPT ![f] = 0]
           /\ \/ /\ Kind[x] = "wavefront"
                 /\ progress' = [progress EXCEPT ![f] =
                                   [r \in RowIdx |-> IF r < NRows[x] THEN 0 ELSE @[r]]]
                 /\ counted' = [counted EXCEPT ![f] = {}]
              \/ Kind[x] # "wavefront" /\ UNCHANGED <<progress, counted>>
           /\ held' = [held EXCEPT ![s] = Append(@, f)]
           /\ pos' = [pos EXCEPT ![s] = @ + 1]
           /\ WakeOne
           /\ UNCHANGED <<spc, callNo, scell, ran, pub, ppc, shutdown, mtx, wslot, idlers, workVars>>
<1>1. spc[s] = "register" /\ pos[s] # Len(Call(s)) /\ NRows[Current(s)] > 0
  BY DEF Register, CanRegister, PassFull
<1>2. Current(s) \in Ctxs BY <1>1, CurrentIn DEF IInv
<1>3. /\ NRows[Current(s)] \in 0 .. MaxRows /\ NCols[Current(s)] \in Nat \ {0}
      /\ Kind[Current(s)] \in {"wavefront", "for"} /\ MaxRows \in Nat
  BY <1>2, PoolAssumption
<1>4. NRows[Current(s)] \in 1 .. MaxRows /\ Current(s) # None
  BY <1>1, <1>2, <1>3, PoolAssumption
<1>5. ~Taken(Current(s)) /\ ~Serial(Current(s))
  BY <1>1, FreshGrid DEF Serial
<1>6. FreeSlot \in Slots /\ ~used[FreeSlot] BY FreeSlotIn DEF Register
<1>7. seqNext \in Nat BY DEF IInv, TypeOK
<1> QED BY <1>2, <1>3, <1>4, <1>5, <1>6, <1>7 DEF Register, FreeSlot, Consume, extVars

LEMMA JobStep == IInv /\ [Next]_vars => JobInv'
<1> SUFFICES ASSUME IInv, [Next]_vars PROVE JobInv' OBVIOUS
<1>0. JobInv /\ TypeOK BY DEF IInv
<1>1. ASSUME UNCHANGED <<used, done, seq, jctx, nextRow, claimw, seqNext>> PROVE JobInv'
  BY <1>0, <1>1 DEF JobInv, SlotOf, OneSlot, RowsClaimed
<1>2. ASSUME NEW j \in Slots, UNCHANGED <<used, done, seq, jctx, seqNext>>, jctx[j] # None,
             \/ /\ UNCHANGED claimw /\ nextRow[j] < NRows[jctx[j]]
                /\ nextRow' = [nextRow EXCEPT ![j] = @ + 1]
             \/ /\ UNCHANGED nextRow /\ claimw[j].row < NRows[jctx[j]]
                /\ claimw' = [claimw EXCEPT ![j].row = @ + 1]
      PROVE  JobInv'
  <2>1. NRows[jctx[j]] \in 1 .. MaxRows BY <1>0, <1>2, GridOf
  <2>2. nextRow[j] \in Nat /\ claimw[j].row \in Nat BY <1>0 DEF TypeOK
  <2>3. OneSlot' BY <1>0, <1>2 DEF JobInv, OneSlot
  <2>4. ASSUME NEW i \in Slots PROVE claimw'[i].seq = claimw[i].seq
    <3>1. claimw \in [Slots -> [seq : Nat, row : 0 .. MaxRows]] BY <1>0 DEF TypeOK
    <3> QED BY <1>2, <3>1
  <2>5. \A i \in Slots \ {j} : RowsClaimed(i)' = RowsClaimed(i)
    BY <1>0, <1>2 DEF TypeOK, RowsClaimed
  <2>6. RowsClaimed(j)' \in {nextRow[j], claimw[j].row, nextRow[j] + 1, claimw[j].row + 1}
    BY <1>0, <1>2 DEF TypeOK, RowsClaimed
  <2>7. RowsClaimed(j)' <= NRows[jctx[j]]
    <3>1. RowsClaimed(j) <= NRows[jctx[j]] BY <1>0, <1>2 DEF JobInv, SlotOf
    <3>2. CASE UNCHANGED claimw /\ nextRow' = [nextRow EXCEPT ![j] = @ + 1] /\ nextRow[j] < NRows[jctx[j]]
      <4>1. nextRow'[j] = nextRow[j] + 1 BY <1>0, <3>2 DEF TypeOK
      <4> QED BY <1>2, <2>1, <2>2, <3>1, <3>2, <4>1 DEF RowsClaimed
    <3>3. CASE UNCHANGED nextRow /\ claimw' = [claimw EXCEPT ![j].row = @ + 1] /\ claimw[j].row < NRows[jctx[j]]
      <4>1. claimw'[j].row = claimw[j].row + 1 BY <1>0, <3>3 DEF TypeOK
      <4> QED BY <1>2, <2>1, <2>2, <3>1, <3>3, <4>1 DEF RowsClaimed
    <3> QED BY <1>2, <3>2, <3>3
  <2>8. ASSUME NEW i \in Slots PROVE SlotOf(i)'
    <3>1. SlotOf(i) BY <1>0 DEF JobInv
    <3>2. RowsClaimed(i)' = RowsClaimed(i) \/ RowsClaimed(i)' <= NRows[jctx[i]]
      BY <2>5, <2>7
    <3> QED BY <1>2, <2>4, <3>1, <3>2 DEF SlotOf
  <2> QED BY <2>3, <2>8 DEF JobInv
<1>3. ASSUME NEW w \in Workers, QuietWork(w) \/ RunCell(w) \/ FastCount(w) \/ RunUnit(w) PROVE JobInv'
  BY <1>1, <1>3, QuietWorkIs DEF jobVars, regVars, envVars, RunCell, FastCount, RunUnit
<1>4. ASSUME NEW w \in Workers, ClaimUnit(w) \/ ClaimRow(w) \/ FastClaim(w) PROVE JobInv'
  <2>1. pc[w] \in LivePcs BY <1>4 DEF ClaimUnit, ClaimRow, FastClaim, LivePcs, RowPcs
  <2>2. slot[w] \in Slots /\ jctx[slot[w]] # None /\ Kind[jctx[slot[w]]] \in {"wavefront", "for"}
    BY <2>1, LiveGrid, PoolAssumption
  <2>3. CASE ClaimUnit(w)
    BY <1>1, <1>2, <2>2, <2>3 DEF ClaimUnit, UnitLeft, regVars, envVars
  <2>4. CASE ClaimRow(w)
    <3>1. Kind[jctx[slot[w]]] # "for" BY <2>4 DEF ClaimRow
    <3> QED BY <1>1, <1>2, <2>2, <2>4, <3>1 DEF ClaimRow, NextReady, RowsClaimed, regVars, envVars
  <2>5. CASE FastClaim(w)
    BY <1>1, <1>2, <2>2, <2>5 DEF FastClaim, RowsLeft, FastRow, regVars, envVars
  <2> QED BY <1>4, <2>3, <2>4, <2>5
<1>5. ASSUME NEW w \in Workers, NextUnit(w) PROVE JobInv'
  <2>1. pc[w] \in ForPcs BY <1>5 DEF NextUnit, ForPcs
  <2>2. slot[w] \in Slots BY <1>0 DEF TypeOK
  <2>3. UNCHANGED <<used, done, seq, jctx, seqNext, nextRow>> BY <1>5 DEF NextUnit, regVars, envVars
  <2>4. CASE UNCHANGED claimw BY <1>1, <2>3, <2>4
  <2>5. CASE ~UNCHANGED claimw
    <3>1. /\ UnitLeft(slot[w], runSeq[w], NRows[fctx[w]])
          /\ claimw' = [claimw EXCEPT ![slot[w]].row = @ + 1]
      BY <1>5, <2>5 DEF NextUnit
    <3>2. seq[slot[w]] = runSeq[w] BY <1>0, <2>2, <3>1 DEF JobInv, SlotOf, UnitLeft
    <3>3. fctx[w] = jctx[slot[w]] /\ fctx[w] # None
      BY <2>1, <3>2 DEF IInv, LiveInv, LiveOf, For
    <3> QED BY <1>2, <2>2, <2>3, <3>1, <3>3 DEF UnitLeft
  <2> QED BY <2>4, <2>5
<1>6. ASSUME NEW w \in Workers, FinishRow(w) \/ FinishFor(w) PROVE JobInv'
  <2>1. UNCHANGED <<used, seq, jctx, nextRow, claimw, seqNext>>
    BY <1>6 DEF FinishRow, FinishFor, regVars
  <2>2. \/ UNCHANGED done
        \/ done' = [done EXCEPT ![slot[w]] = TRUE] /\ jctx[slot[w]] # None
    <3>1. CASE FinishRow(w)
      <4>1. pc[w] \in LivePcs BY <3>1 DEF FinishRow, LivePcs, RowPcs
      <4> QED BY <3>1, <4>1, LiveGrid DEF FinishRow
    <3>2. CASE FinishFor(w)
      <4>1. pc[w] \in ForPcs BY <3>2 DEF FinishFor, ForPcs
      <4>2. seq[slot[w]] = runSeq[w] => jctx[slot[w]] # None
        BY <4>1 DEF IInv, LiveInv, LiveOf, For
      <4>3. \/ UNCHANGED done
            \/ seq[slot[w]] = runSeq[w] /\ done' = [done EXCEPT ![slot[w]] = TRUE]
        BY <3>2 DEF FinishFor
      <4> QED BY <4>2, <4>3
    <3> QED BY <1>6, <3>1, <3>2
  <2>3. OneSlot' BY <1>0, <2>1 DEF JobInv, OneSlot
  <2>4. ASSUME NEW j \in Slots PROVE SlotOf(j)'
    <3>1. done'[j] = done[j] \/ (jctx[j] # None /\ done'[j])
      BY <1>0, <2>2 DEF TypeOK
    <3>2. RowsClaimed(j)' = RowsClaimed(j) BY <2>1 DEF RowsClaimed
    <3> QED BY <1>0, <2>1, <3>1, <3>2 DEF JobInv, SlotOf
  <2> QED BY <2>3, <2>4 DEF JobInv
<1>7. ASSUME NEW s \in Submitters, QuietCall(s) \/ SerialCell(s) PROVE JobInv'
  BY <1>1, <1>7, QuietCallIs DEF SerialCell, poolVars, jobVars, regVars
<1>8. ASSUME NEW s \in Submitters, Register(s) PROVE JobInv'
  <2>1. PICK f \in Slots, x \in Ctxs :
          /\ ~used[f] /\ x # None /\ x \notin Oom
          /\ NRows[x] \in 1 .. MaxRows /\ ~Taken(x) /\ seqNext \in Nat
          /\ seqNext' = seqNext + 1 /\ used' = [used EXCEPT ![f] = TRUE]
          /\ done' = [done EXCEPT ![f] = FALSE] /\ seq' = [seq EXCEPT ![f] = seqNext + 1]
          /\ jctx' = [jctx EXCEPT ![f] = x] /\ nextRow' = [nextRow EXCEPT ![f] = 0]
          /\ claimw' = [claimw EXCEPT ![f] = [seq |-> seqNext + 1, row |-> 0]]
    BY <1>8, RegisterIs
  <2>2. \A j \in Slots : jctx[j] # x
    BY <2>1 DEF IInv, TakenInv
  <2>3. OneSlot' BY <1>0, <2>1, <2>2 DEF JobInv, OneSlot, TypeOK
  <2>4. ASSUME NEW j \in Slots, j # f PROVE SlotOf(j)'
    <3>1. SlotOf(j) /\ seq[j] \in Nat BY <1>0 DEF JobInv, TypeOK
    <3>2. /\ used'[j] = used[j] /\ done'[j] = done[j] /\ seq'[j] = seq[j] /\ jctx'[j] = jctx[j]
          /\ nextRow'[j] = nextRow[j] /\ claimw'[j] = claimw[j]
      BY <1>0, <2>1, <2>4 DEF TypeOK
    <3>3. RowsClaimed(j)' = RowsClaimed(j) BY <3>2 DEF RowsClaimed
    <3>4. seq'[j] <= seqNext' BY <2>1, <3>1, <3>2 DEF SlotOf
    <3> QED BY <3>1, <3>2, <3>3, <3>4 DEF SlotOf
  <2>5. SlotOf(f)'
    <3>1. /\ used'[f] /\ ~done'[f] /\ seq'[f] = seqNext + 1 /\ jctx'[f] = x
          /\ nextRow'[f] = 0 /\ claimw'[f].row = 0 /\ claimw'[f].seq = seqNext + 1
      BY <1>0, <2>1 DEF TypeOK
    <3>2. RowsClaimed(f)' = 0 BY <3>1 DEF RowsClaimed
    <3> QED BY <2>1, <3>1, <3>2 DEF SlotOf
  <2> QED BY <2>3, <2>4, <2>5 DEF JobInv
<1>9. ASSUME NEW s \in Submitters, Join(s) PROVE JobInv'
  <2>1. UNCHANGED <<done, seq, jctx, nextRow, claimw, seqNext>>
    BY <1>9 DEF Join
  <2>2. used' = [used EXCEPT ![Head(held[s])] = FALSE] /\ done[Head(held[s])] BY <1>9 DEF Join
  <2>3. OneSlot' BY <1>0, <2>1 DEF JobInv, OneSlot
  <2>4. \A j \in Slots : SlotOf(j)'
    BY <1>0, <2>1, <2>2 DEF JobInv, SlotOf, RowsClaimed, TypeOK
  <2> QED BY <2>3, <2>4 DEF JobInv
<1>10. External \/ UNCHANGED vars => JobInv'
  BY <1>1, ExternalIs DEF vars, poolVars, jobVars, regVars, envVars
<1> QED BY <1>3, <1>4, <1>5, <1>6, <1>7, <1>8, <1>9, <1>10, Steps

-----------------------------------------------------------------------------
(* What a worker holds. *)

\* The steps inside a row that only move the worker, and at most wake others.
Moves(w) ==
    \/ CheckAbove(w) \/ Stall(w) \/ Enlist(w) \/ Park(w) \/ Unpark(w) \/ Delist(w) \/ PeekRowWaiter(w)
    \/ WakeRow(w) \/ PeekIdle(w) \/ WakeIdle(w) \/ FastPeek(w)
\* The steps of the claim loop that pick no job.
Waits(w) ==
    \/ Enter(w) \/ ScanExit(w) \/ ScanNothing(w) \/ RegisterIdle(w) \/ Sleep(w)
    \/ Resume(w)

LEMMA MovesIs ==
    ASSUME TypeOK, NEW w \in Workers, Moves(w)
    PROVE  /\ UNCHANGED <<slot, row, nxt, idVars>>
           /\ pc[w] \in RowPcs /\ pc'[w] \in RowPcs
           /\ pc[w] # "fastcount" /\ pc'[w] # "fastcount"
           /\ \A v \in Workers \ {w} :
                \/ pc'[v] = pc[v]
                \/ pc[v] = "parked" /\ pc'[v] = "unpark"
<1> USE DEF posVars, wrkVars, RowPcs
<1>0. pc \in [Workers -> WorkerPcs] BY DEF TypeOK
<1>1. ASSUME NEW l, GoTo(w, l) PROVE pc'[w] = l /\ \A v \in Workers \ {w} : pc'[v] = pc[v]
  BY <1>0, <1>1 DEF GoTo
<1>2. CASE CheckAbove(w) \/ Stall(w) \/ Enlist(w) \/ Park(w) \/ Unpark(w) \/ Delist(w) \/ PeekRowWaiter(w)
  BY <1>1, <1>2 DEF CheckAbove, Stall, Enlist, Park, Unpark, Delist, PeekRowWaiter
<1>3. CASE PeekIdle(w) \/ WakeIdle(w) \/ FastPeek(w)
  BY <1>1, <1>3 DEF PeekIdle, WakeIdle, FastPeek, NextCell
<1>4. CASE WakeRow(w) BY <1>4 DEF WakeRow
<1> QED BY <1>2, <1>3, <1>4 DEF Moves

LEMMA WaitsIs ==
    ASSUME TypeOK, NEW w \in Workers, Waits(w)
    PROVE  /\ UNCHANGED wrkVars
           /\ pc[w] \in {"start", "scan", "idle", "rescan", "asleep"}
           /\ pc'[w] \in {"scan", "idle", "rescan", "asleep", "exited"}
           /\ \A v \in Workers \ {w} : pc'[v] = pc[v]
<1>0. pc \in [Workers -> WorkerPcs] BY DEF TypeOK
<1>1. ASSUME NEW l, GoTo(w, l) PROVE pc'[w] = l /\ \A v \in Workers \ {w} : pc'[v] = pc[v]
  BY <1>0, <1>1 DEF GoTo
<1> QED BY <1>1 DEF Waits, Enter, ScanExit, ScanNothing, RegisterIdle, Sleep, Resume

\* What a claim of the next unit rests on.
LEMMA NextUnitIs ==
    ASSUME IInv, NEW w \in Workers, pc[w] \in ForPcs,
           claimw[slot[w]].seq = runSeq[w], claimw[slot[w]].row < NRows[fctx[w]]
    PROVE  /\ slot[w] \in Slots /\ seq[slot[w]] = runSeq[w] /\ fctx[w] = jctx[slot[w]]
           /\ For(jctx[slot[w]]) /\ used[slot[w]] /\ ~done[slot[w]]
           /\ claimw[slot[w]].row \in 0 .. NRows[jctx[slot[w]]] - 1
           /\ <<jctx[slot[w]], claimw[slot[w]].row, 0>> \notin ran
<1> DEFINE j == slot[w]  r == claimw[j].row
<1>1. j \in Slots /\ r \in Nat BY DEF IInv, TypeOK
<1>2. seq[j] = runSeq[w] BY <1>1 DEF IInv, JobInv, SlotOf
<1>3. fctx[w] = jctx[j] /\ For(jctx[j]) BY <1>2 DEF IInv, LiveInv, LiveOf
<1>4. jctx[j] # None BY <1>3 DEF For
<1>5. NRows[jctx[j]] \in Nat BY <1>1, <1>4, GridOf DEF IInv
<1>6. r \in 0 .. NRows[jctx[j]] - 1 BY <1>1, <1>3, <1>5
<1>7. <<jctx[j], r, 0>> \notin ran BY <1>1, <1>3, <1>5, <1>6 DEF IInv, UnitInv
<1>8. ~done[j]
  <2>1. Finished(jctx[j]) \subseteq (0 .. NRows[jctx[j]] - 1) \ {r} BY <1>7 DEF Finished
  <2>2. Cardinality(Finished(jctx[j])) # NRows[jctx[j]]
    BY <1>5, <1>6, <2>1, NotAll
  <2>3. rowsDone[j] = Cardinality(Finished(jctx[j])) BY <1>1, <1>3 DEF IInv, CountInv, CountOf
  <2> QED BY <1>1, <2>2, <2>3 DEF IInv, CountInv, CountOf
<1>9. used[j] BY <1>1, <1>4, <1>8 DEF IInv, JobInv, SlotOf
<1> QED BY <1>1, <1>2, <1>3, <1>6, <1>7, <1>8, <1>9

\* No one else is at work on a job a worker completes.
LEMMA LastRow ==
    ASSUME IInv, NEW w \in Workers, FinishRow(w), CompletesJob(slot[w]),
           NEW v \in Workers \ {w}, slot[v] = slot[w]
    PROVE  pc[v] \notin LivePcs
<1> DEFINE j == slot[w]  x == jctx[j]  n == NRows[x]
<1>1. pc[w] = "finish" /\ mtx = None /\ rowsDone[j] + 1 = n BY DEF FinishRow, CompletesJob
<1>2. pc[w] \in RowPcs /\ pc[w] \in LivePcs BY <1>1 DEF RowPcs, LivePcs
<1>3. /\ j \in Slots /\ x # None /\ n \in Nat /\ Kind[x] = "wavefront"
      /\ row[w] \in 0 .. n - 1
  BY <1>2, LiveGrid
<1>4. SUFFICES ASSUME pc[v] \in LivePcs PROVE FALSE OBVIOUS
<1>5. pc[v] \notin LockedPcs BY <1>1, PoolAssumption DEF IInv, LockInv
<1>6. pc[v] # "unit"
  <2>1. SUFFICES ASSUME pc[v] = "unit" PROVE FALSE OBVIOUS
  <2>2. AtWork(v) /\ pc[v] \in ForPcs BY <2>1 DEF AtWork, ForPcs
  <2>3. For(jctx[slot[v]]) BY <2>2 DEF IInv, LiveInv, LiveOf
  <2> QED BY <1>3, <2>3 DEF For
<1>7. pc[v] \in RowPcs BY <1>4, <1>5, <1>6 DEF LivePcs, LockedPcs
<1>8. row[v] \in 0 .. n - 1 BY <1>4, <1>7, LiveGrid
<1>9. row[w] \notin counted[j] /\ row[v] \notin counted[j] /\ row[v] # row[w]
  <2>1. row[w] \in Rows(w) /\ row[v] \in Rows(v) BY <1>2, <1>7 DEF Rows
  <2>2. Rows(w) \cap counted[j] = {} /\ Rows(v) \cap counted[j] = {}
    BY <1>2, <1>7 DEF IInv, CellInv, CellsOf
  <2>3. Rows(v) \cap Rows(w) = {} BY DEF IInv, ClaimInv, ClaimsOf
  <2> QED BY <2>1, <2>2, <2>3
<1>10. counted[j] \subseteq 0 .. n - 1
  <2>1. \A r \in counted[j] : r < nextRow[j] BY <1>3 DEF IInv, RowInv, Wave
  <2>2. nextRow[j] <= n BY <1>3 DEF IInv, JobInv, SlotOf, RowsClaimed
  <2>3. counted[j] \subseteq RowIdx /\ nextRow[j] \in Nat BY <1>3 DEF IInv, TypeOK
  <2> QED BY <1>3, <2>1, <2>2, <2>3, PoolAssumption DEF RowIdx
<1>11. rowsDone[j] = Cardinality(counted[j]) BY <1>3 DEF IInv, CountInv, CountOf, Wave
<1>12. Cardinality(counted[j]) + 2 <= n
  BY <1>3, <1>8, <1>9, <1>10, TwoMissing
<1>13. Cardinality(counted[j]) \in Nat BY <1>3, <1>11 DEF IInv, TypeOK
<1> QED BY <1>1, <1>3, <1>11, <1>12, <1>13

\* The same for a parallel for: its units have all run.
LEMMA LastUnit ==
    ASSUME IInv, NEW w \in Workers, pc[w] = "finishfor", mtx = None,
           seq[slot[w]] = runSeq[w], rowsDone[slot[w]] = NRows[jctx[slot[w]]],
           NEW v \in Workers, slot[v] = slot[w]
    PROVE  pc[v] \notin LivePcs
<1> DEFINE j == slot[w]  x == jctx[j]  n == NRows[x]
<1>1. pc[w] \in ForPcs BY DEF ForPcs
<1>2. For(x) BY <1>1 DEF IInv, LiveInv, LiveOf
<1>3. j \in Slots /\ x # None BY <1>2 DEF For, IInv, TypeOK
<1>4. n \in Nat BY <1>3, GridOf DEF IInv
<1>5. SUFFICES ASSUME pc[v] \in LivePcs PROVE FALSE OBVIOUS
<1>6. pc[v] \notin LockedPcs BY PoolAssumption DEF IInv, LockInv
<1>7. pc[v] \notin RowPcs
  <2>1. pc[v] \in RowPcs => Wave(jctx[slot[v]]) BY DEF IInv, LiveInv, LiveOf
  <2> QED BY <1>2, <2>1 DEF Wave, For
<1>8. pc[v] = "unit" BY <1>5, <1>6, <1>7 DEF LivePcs, LockedPcs
<1>9. AtWork(v) /\ pc[v] \in ForPcs BY <1>8 DEF AtWork, ForPcs
<1>10. fctx[v] = x BY <1>9 DEF IInv, LiveInv, LiveOf
<1>11. row[v] \in 0 .. n - 1 BY <1>5, <1>8, LiveGrid
<1>12. <<x, row[v], 0>> \notin ran BY <1>8, <1>10 DEF IInv, CellInv, CellsOf
<1>13. Finished(x) \in SUBSET ((0 .. n - 1) \ {row[v]}) BY <1>12 DEF Finished
<1>14. Cardinality(Finished(x)) \in Nat /\ Cardinality(Finished(x)) < n
  <2> HIDE DEF n
  <2> QED BY <1>4, <1>11, <1>13, NotAll
<1>15. rowsDone[j] = Cardinality(Finished(x)) BY <1>2, <1>3 DEF IInv, CountInv, CountOf
<1> QED BY <1>4, <1>14, <1>15

LEMMA LiveStep == IInv /\ [Next]_vars => LiveInv'
<1> SUFFICES ASSUME IInv, [Next]_vars PROVE LiveInv' OBVIOUS
<1>0. TypeOK /\ LiveInv /\ JobInv BY DEF IInv
\* Workers that stay where they are, or move within their row or their units.
<1>1. ASSUME NEW v \in Workers, UNCHANGED <<used, done, jctx, seq, seqNext>>,
             slot'[v] = slot[v], runSeq'[v] = runSeq[v], fctx'[v] = fctx[v],
             \/ pc'[v] = pc[v]
             \/ pc[v] \in RowPcs /\ pc'[v] \in RowPcs
             \/ pc[v] \in ForPcs /\ pc'[v] \in {"nextunit", "finishfor"}
             \/ pc'[v] \notin LivePcs \cup ForPcs
      PROVE  LiveOf(v)'
  <2>1. LiveOf(v) BY <1>0 DEF LiveInv
  <2>2. CASE pc'[v] = pc[v] BY <1>1, <2>1, <2>2 DEF LiveOf, AtWork
  <2>3. CASE pc[v] \in RowPcs /\ pc'[v] \in RowPcs
    <3>1. pc[v] \in LivePcs /\ pc'[v] \notin ForPcs BY <2>3 DEF LivePcs, RowPcs, ForPcs
    <3>2. pc'[v] # "unit" BY <2>3 DEF RowPcs
    <3> HIDE DEF RowPcs, ForPcs, LivePcs
    <3> QED BY <1>1, <2>1, <2>3, <3>1, <3>2 DEF LiveOf, AtWork
  <2>4. CASE pc[v] \in ForPcs /\ pc'[v] \in {"nextunit", "finishfor"}
    <3>1. pc'[v] \notin RowPcs \cup LivePcs /\ pc'[v] \in ForPcs /\ pc'[v] # "unit"
      BY <2>4 DEF LivePcs, RowPcs, ForPcs
    <3> HIDE DEF RowPcs, ForPcs, LivePcs
    <3> QED BY <1>1, <2>1, <2>4, <3>1 DEF LiveOf, AtWork
  <2>5. CASE pc'[v] \notin LivePcs \cup ForPcs
    <3>1. pc'[v] \notin RowPcs /\ pc'[v] # "unit" BY <2>5 DEF LivePcs
    <3> HIDE DEF RowPcs, ForPcs, LivePcs
    <3> QED BY <1>1, <2>1, <2>5, <3>1 DEF LiveOf, AtWork
  <2> QED BY <1>1, <2>2, <2>3, <2>4, <2>5
<1>2. ASSUME NEW w \in Workers, NEW l, GoTo(w, l)
      PROVE  pc'[w] = l /\ \A v \in Workers \ {w} : pc'[v] = pc[v]
  BY <1>0, <1>2 DEF GoTo, TypeOK
<1>3. ASSUME NEW w \in Workers, QuietWork(w) PROVE LiveInv'
  <2>1. UNCHANGED <<used, done, jctx, seq, seqNext>>
    BY <1>3, QuietWorkIs DEF jobVars, regVars, envVars
  <2>2. CASE Moves(w)
    BY <1>0, <1>1, <2>1, <2>2, MovesIs DEF LiveInv, idVars, RowPcs
  <2>3. CASE Waits(w)
    <3>1. /\ UNCHANGED wrkVars /\ pc'[w] \in {"scan", "idle", "rescan", "asleep", "exited"}
          /\ \A v \in Workers \ {w} : pc'[v] = pc[v]
      BY <1>0, <2>3, WaitsIs
    <3>2. pc'[w] \notin LivePcs \cup ForPcs BY <3>1 DEF LivePcs, ForPcs, RowPcs
    <3> QED BY <1>1, <2>1, <3>1, <3>2 DEF LiveInv, wrkVars, posVars, idVars
  <2>4. CASE ScanFound(w) \/ Withdraw(w)
    <3>1. /\ pc'[w] = "claim" /\ \A v \in Workers \ {w} : pc'[v] = pc[v]
          /\ UNCHANGED <<runSeq, fctx>>
          /\ slot' = [slot EXCEPT ![w] = PickFresh(curSeq[w])] /\ Ready # {}
      BY <1>2, <2>4 DEF ScanFound, Withdraw, RescanFinds, idVars
    <3>2. PickFresh(curSeq[w]) \in Ready BY <1>0, <3>1, PickIn DEF TypeOK
    <3>3. ASSUME NEW v \in Workers \ {w} PROVE LiveOf(v)'
      BY <1>0, <1>1, <2>1, <3>1 DEF TypeOK
    <3>4. LiveOf(w)'
      <4>1. slot'[w] = PickFresh(curSeq[w]) BY <1>0, <3>1 DEF TypeOK
      <4>2. used[slot'[w]] /\ ~done[slot'[w]] BY <1>0, <3>2, <4>1, ReadyIs
      <4>3. runSeq[w] <= seqNext BY <1>0 DEF LiveInv, LiveOf
      <4> QED BY <2>1, <3>1, <4>2, <4>3 DEF LiveOf, AtWork, RowPcs, ForPcs
    <3> QED BY <3>3, <3>4 DEF LiveInv
  <2>5. CASE Cascade(w)
    <3>1. pc[w] = "cascade" /\ pc[w] \in LivePcs BY <2>5 DEF Cascade, LivePcs
    <3>2. /\ runSeq' = [runSeq EXCEPT ![w] = seq[slot[w]]]
          /\ fctx' = [fctx EXCEPT ![w] = jctx[slot[w]]] /\ UNCHANGED slot
          /\ \/ GoTo(w, "unit") /\ Kind[jctx[slot[w]]] = "for"
             \/ GoTo(w, "cell") /\ Kind[jctx[slot[w]]] # "for"
      BY <2>5 DEF Cascade
    <3>3. /\ slot[w] \in Slots /\ used[slot[w]] /\ ~done[slot[w]] /\ jctx[slot[w]] \in Ctxs
          /\ jctx[slot[w]] # None /\ Kind[jctx[slot[w]]] \in {"wavefront", "for"}
      BY <3>1, LiveGrid, PoolAssumption
    <3>4. ASSUME NEW v \in Workers \ {w} PROVE LiveOf(v)'
      <4>1. /\ slot'[v] = slot[v] /\ runSeq'[v] = runSeq[v] /\ fctx'[v] = fctx[v]
            /\ pc'[v] = pc[v]
        BY <1>0, <3>2 DEF TypeOK, GoTo
      <4> QED BY <1>1, <2>1, <4>1
    <3>5. LiveOf(w)'
      <4>1. runSeq'[w] = seq[slot[w]] /\ fctx'[w] = jctx[slot[w]] /\ slot'[w] = slot[w]
        BY <1>0, <3>2 DEF TypeOK
      <4>2. seq[slot[w]] > 0 /\ seq[slot[w]] <= seqNext
        BY <1>0, <3>3 DEF JobInv, SlotOf, TypeOK
      <4>3. \/ pc'[w] = "unit" /\ For(jctx[slot[w]])
            \/ pc'[w] = "cell" /\ Wave(jctx[slot[w]])
        BY <1>2, <3>2, <3>3 DEF For, Wave
      <4>4. /\ "unit" \notin RowPcs /\ "unit" \in ForPcs
            /\ "cell" \in RowPcs /\ "cell" \notin ForPcs
        BY DEF RowPcs, ForPcs
      <4> HIDE DEF RowPcs, ForPcs, LivePcs
      <4> QED BY <2>1, <3>3, <4>1, <4>2, <4>3, <4>4 DEF LiveOf, AtWork
    <3> QED BY <3>4, <3>5 DEF LiveInv
  <2> QED BY <1>3, <2>2, <2>3, <2>4, <2>5 DEF QuietWork, Moves, Waits
<1>4. ASSUME NEW w \in Workers, ClaimUnit(w) \/ ClaimRow(w) PROVE LiveInv'
  <2>1. pc[w] = "claim" /\ UNCHANGED <<used, done, jctx, seq, seqNext, slot, runSeq, fctx>>
    BY <1>4 DEF ClaimUnit, ClaimRow, regVars, envVars, idVars
  <2>2. pc'[w] \in {"cascade", "scan"} /\ \A v \in Workers \ {w} : pc'[v] = pc[v]
    BY <1>2, <1>4 DEF ClaimUnit, ClaimRow
  <2>3. ASSUME NEW v \in Workers \ {w} PROVE LiveOf(v)'
    BY <1>1, <2>1, <2>2
  <2>4. LiveOf(w)'
    <3>1. LiveOf(w) BY <1>0 DEF LiveInv
    <3> QED BY <2>1, <2>2, <3>1 DEF LiveOf, AtWork, RowPcs, ForPcs, LivePcs
  <2> QED BY <2>3, <2>4 DEF LiveInv
<1>5. ASSUME NEW w \in Workers, RunCell(w) \/ FastClaim(w) \/ FastCount(w) PROVE LiveInv'
  <2>1. UNCHANGED <<used, done, jctx, seq, seqNext, slot, runSeq, fctx>>
    BY <1>5 DEF RunCell, FastClaim, FastCount, regVars, envVars, idVars, wrkVars, posVars
  <2>2. pc[w] \in RowPcs /\ pc'[w] \in RowPcs /\ \A v \in Workers \ {w} : pc'[v] = pc[v]
    BY <1>2, <1>5 DEF RunCell, FastClaim, FastCount, RowPcs
  <2> HIDE DEF RowPcs
  <2> QED BY <1>1, <2>1, <2>2 DEF LiveInv
<1>6. ASSUME NEW w \in Workers, RunUnit(w) PROVE LiveInv'
  <2>1. UNCHANGED <<used, done, jctx, seq, seqNext, slot, runSeq, fctx>>
    BY <1>6 DEF RunUnit, regVars, envVars, idVars, wrkVars, posVars
  <2>2. pc[w] \in ForPcs /\ pc'[w] \in {"nextunit", "finishfor"} /\ \A v \in Workers \ {w} : pc'[v] = pc[v]
    BY <1>2, <1>6 DEF RunUnit, ForPcs
  <2> QED BY <1>1, <2>1, <2>2 DEF LiveInv
<1>7. ASSUME NEW w \in Workers, NextUnit(w) PROVE LiveInv'
  <2>1. UNCHANGED <<used, done, jctx, seq, seqNext, slot, runSeq, fctx>>
    BY <1>7 DEF NextUnit, regVars, envVars, idVars
  <2>2. /\ pc[w] \in ForPcs /\ \A v \in Workers \ {w} : pc'[v] = pc[v]
        /\ \/ pc'[w] = "finishfor"
           \/ pc'[w] = "unit" /\ UnitLeft(slot[w], runSeq[w], NRows[fctx[w]])
    BY <1>2, <1>7 DEF NextUnit, ForPcs
  <2>3. ASSUME NEW v \in Workers \ {w} PROVE LiveOf(v)'
    BY <1>1, <2>1, <2>2
  <2>4. CASE pc'[w] = "finishfor" BY <1>1, <2>1, <2>2, <2>3, <2>4 DEF LiveInv
  <2>5. CASE pc'[w] = "unit" /\ UnitLeft(slot[w], runSeq[w], NRows[fctx[w]])
    <3>1. /\ seq[slot[w]] = runSeq[w] /\ fctx[w] = jctx[slot[w]]
          /\ For(jctx[slot[w]]) /\ used[slot[w]] /\ ~done[slot[w]]
      BY <2>2, <2>5, NextUnitIs DEF UnitLeft
    <3>2. runSeq[w] > 0 /\ runSeq[w] <= seqNext BY <1>0, <2>2 DEF LiveInv, LiveOf
    <3>3. LiveOf(w)' BY <2>1, <2>5, <3>1, <3>2 DEF LiveOf, AtWork, RowPcs, ForPcs
    <3> QED BY <2>3, <3>3 DEF LiveInv
  <2> QED BY <2>2, <2>4, <2>5
<1>8. ASSUME NEW w \in Workers, FinishRow(w) \/ FinishFor(w) PROVE LiveInv'
  <2>1. UNCHANGED <<used, jctx, seq, seqNext, slot, runSeq, fctx>>
    BY <1>8 DEF FinishRow, FinishFor, regVars, idVars, wrkVars, posVars
  <2>2. pc'[w] = "scan" /\ \A v \in Workers \ {w} : pc'[v] = pc[v]
    BY <1>2, <1>8 DEF FinishRow, FinishFor
  <2>3. ASSUME NEW v \in Workers \ {w}, pc[v] \in LivePcs PROVE done'[slot[v]] = done[slot[v]]
    <3>1. \/ done' = done
          \/ done' = [done EXCEPT ![slot[w]] = TRUE] /\ FinishRow(w) /\ CompletesJob(slot[w])
          \/ /\ done' = [done EXCEPT ![slot[w]] = TRUE]
             /\ pc[w] = "finishfor" /\ mtx = None
             /\ seq[slot[w]] = runSeq[w] /\ rowsDone[slot[w]] = NRows[jctx[slot[w]]]
      BY <1>8 DEF FinishRow, FinishFor
    <3>2. CASE done' = done BY <3>2
    <3>3. CASE done' # done
      <4>1. slot[v] # slot[w] BY <2>3, <3>1, <3>3, LastRow, LastUnit
      <4> QED BY <1>0, <3>1, <4>1 DEF TypeOK
    <3> QED BY <3>2, <3>3
  <2>4. ASSUME NEW v \in Workers \ {w} PROVE LiveOf(v)'
    <3>1. LiveOf(v) BY <1>0 DEF LiveInv
    <3>2. pc'[v] = pc[v] BY <2>2
    <3> HIDE DEF RowPcs, ForPcs, LivePcs
    <3> QED BY <2>1, <2>3, <3>1, <3>2 DEF LiveOf, AtWork
  <2>5. LiveOf(w)'
    <3>1. runSeq[w] <= seqNext BY <1>0 DEF LiveInv, LiveOf
    <3> QED BY <2>1, <2>2, <3>1 DEF LiveOf, AtWork, RowPcs, ForPcs, LivePcs
  <2> QED BY <2>4, <2>5 DEF LiveInv
<1>9. ASSUME UNCHANGED <<pc, slot, runSeq, fctx>>, UNCHANGED <<used, done, jctx, seq, seqNext>> PROVE LiveInv'
  BY <1>1, <1>9 DEF LiveInv
<1>10. ASSUME NEW s \in Submitters, QuietCall(s) \/ SerialCell(s) PROVE LiveInv'
  BY <1>9, <1>10, QuietCallIs DEF SerialCell, poolVars, jobVars, regVars, workVars, wrkVars, posVars, idVars
<1>11. External \/ UNCHANGED vars => LiveInv'
  BY <1>9, ExternalIs DEF vars, poolVars, jobVars, regVars, workVars, wrkVars, posVars, idVars, envVars
<1>12. ASSUME NEW s \in Submitters, Register(s) PROVE LiveInv'
  <2>1. PICK f \in Slots, x \in Ctxs :
          /\ ~used[f] /\ seqNext \in Nat /\ seqNext' = seqNext + 1
          /\ used' = [used EXCEPT ![f] = TRUE] /\ done' = [done EXCEPT ![f] = FALSE]
          /\ seq' = [seq EXCEPT ![f] = seqNext + 1] /\ jctx' = [jctx EXCEPT ![f] = x]
          /\ UNCHANGED workVars
    BY <1>12, RegisterIs
  <2>2. UNCHANGED <<pc, slot, runSeq, fctx>> BY <2>1 DEF workVars, wrkVars, posVars, idVars
  <2>3. ASSUME NEW v \in Workers PROVE LiveOf(v)'
    <3>1. LiveOf(v) /\ slot[v] \in Slots /\ runSeq[v] \in Nat BY <1>0 DEF LiveInv, TypeOK
    <3>2. CASE slot[v] # f
      <4>1. /\ used'[slot[v]] = used[slot[v]] /\ done'[slot[v]] = done[slot[v]]
            /\ seq'[slot[v]] = seq[slot[v]] /\ jctx'[slot[v]] = jctx[slot[v]]
        BY <1>0, <2>1, <3>1, <3>2 DEF TypeOK
      <4>2. runSeq[v] <= seqNext' BY <2>1, <3>1 DEF LiveOf
      <4> HIDE DEF RowPcs, ForPcs, LivePcs
      <4> QED BY <2>2, <3>1, <4>1, <4>2 DEF LiveOf, AtWork
    <3>3. CASE slot[v] = f
      <4>1. pc[v] \notin LivePcs BY <2>1, <3>1, <3>3 DEF LiveOf
      <4>2. pc[v] \notin RowPcs /\ pc[v] # "unit" BY <4>1 DEF LivePcs
      <4>3. seq'[f] = seqNext + 1 BY <1>0, <2>1 DEF TypeOK
      <4>4. runSeq[v] <= seqNext' /\ runSeq[v] # seq'[f]
        BY <2>1, <3>1, <4>3 DEF LiveOf
      <4> HIDE DEF RowPcs, ForPcs, LivePcs
      <4> QED BY <2>2, <3>1, <3>3, <4>1, <4>2, <4>4 DEF LiveOf, AtWork
    <3> QED BY <3>2, <3>3
  <2> QED BY <2>3 DEF LiveInv
<1>13. ASSUME NEW s \in Submitters, Join(s) PROVE LiveInv'
  <2>1. /\ UNCHANGED <<done, seq, jctx, seqNext, workVars>>
        /\ used' = [used EXCEPT ![Head(held[s])] = FALSE] /\ done[Head(held[s])]
    BY <1>13 DEF Join
  <2>2. UNCHANGED <<pc, slot, runSeq, fctx>> BY <2>1 DEF workVars, wrkVars, posVars, idVars
  <2>3. ASSUME NEW v \in Workers PROVE LiveOf(v)'
    <3>1. LiveOf(v) BY <1>0 DEF LiveInv
    <3>2. pc[v] \in LivePcs => used'[slot[v]] = used[slot[v]]
      BY <1>0, <2>1, <3>1 DEF LiveOf, TypeOK
    <3> HIDE DEF RowPcs, ForPcs, LivePcs
    <3> QED BY <2>1, <2>2, <3>1, <3>2 DEF LiveOf, AtWork
  <2> QED BY <2>3 DEF LiveInv
<1> QED BY <1>3, <1>4, <1>5, <1>6, <1>7, <1>8, <1>10, <1>11, <1>12, <1>13, Steps

-----------------------------------------------------------------------------
(* Claims. *)

LEMMA RowsOfLive ==
    ASSUME NEW w \in Workers, Rows(w) # {}
    PROVE  pc[w] \in LivePcs
  BY DEF Rows, LivePcs, RowPcs

\* Rows claimed are natural numbers; the claim word does not go back.
LEMMA RowsClaimedIs ==
    ASSUME TypeOK
    PROVE  /\ \A j \in Slots : RowsClaimed(j) \in Nat
           /\ \A w \in Workers : \A r \in Rows(w) : r \in Nat
<1>1. MaxRows \in Nat BY PoolAssumption
<1>2. ASSUME NEW w \in Workers PROVE row[w] \in Nat /\ nxt[w] \in Nat
  <2>1. row[w] \in RowIdx \cup {0} /\ nxt[w] \in RowIdx \cup {0} BY DEF TypeOK
  <2> QED BY <1>1, <2>1 DEF RowIdx
<1>3. \A j \in Slots : nextRow[j] \in Nat /\ claimw[j].row \in Nat BY <1>1 DEF TypeOK
<1> QED BY <1>2, <1>3 DEF RowsClaimed, Rows

LEMMA ClaimsShrink ==
    ASSUME ClaimInv,
           \A v \in Workers :
              /\ Rows(v)' \subseteq Rows(v)
              /\ Rows(v)' # {} => /\ slot'[v] = slot[v]
                                  /\ RowsClaimed(slot[v])' = RowsClaimed(slot[v])
              /\ pc'[v] = "fastcount" => pc[v] = "fastcount" /\ nxt'[v] = nxt[v] /\ row'[v] = row[v]
    PROVE  ClaimInv'
<1> SUFFICES ASSUME NEW w \in Workers PROVE ClaimsOf(w)' BY DEF ClaimInv
<1>1. ClaimsOf(w) BY DEF ClaimInv
<1>2. ASSUME NEW r \in Rows(w)' PROVE r < RowsClaimed(slot[w])'
  <2>1. r \in Rows(w) /\ Rows(w)' # {} BY <1>2
  <2> QED BY <1>1, <2>1 DEF ClaimsOf
<1>3. \A r \in Rows(w)' : r < RowsClaimed(slot[w])' BY <1>2
<1>4. (pc[w] = "fastcount" => nxt[w] # row[w])' BY <1>1 DEF ClaimsOf
<1>5. ASSUME NEW v \in Workers \ {w}, slot'[v] = slot'[w] PROVE Rows(v)' \cap Rows(w)' = {}
  <2>1. CASE Rows(v)' = {} \/ Rows(w)' = {} BY <2>1
  <2>2. CASE Rows(v)' # {} /\ Rows(w)' # {}
    <3>1. slot[v] = slot[w] BY <1>5, <2>2
    <3> QED BY <1>1, <3>1 DEF ClaimsOf
  <2> QED BY <2>1, <2>2
<1> QED BY <1>3, <1>4, <1>5 DEF ClaimsOf

\* One worker takes the row the claim word names.
LEMMA ClaimOne ==
    ASSUME TypeOK, ClaimInv, NEW w \in Workers, slot' = slot,
           RowsClaimed(slot[w])' = RowsClaimed(slot[w]) + 1,
           \A j \in Slots \ {slot[w]} : RowsClaimed(j)' = RowsClaimed(j),
           Rows(w)' \subseteq Rows(w) \cup {RowsClaimed(slot[w])},
           pc'[w] = "fastcount" => nxt'[w] # row'[w],
           \A v \in Workers \ {w} : /\ Rows(v)' = Rows(v) /\ pc'[v] = pc[v]
                                    /\ row'[v] = row[v] /\ nxt'[v] = nxt[v]
    PROVE  ClaimInv'
<1> DEFINE n == RowsClaimed(slot[w])
<1>1. /\ n \in Nat /\ \A v \in Workers : slot[v] \in Slots
      /\ \A v \in Workers : \A r \in Rows(v) : r \in Nat
  BY RowsClaimedIs DEF TypeOK
<1>2. \A v \in Workers : slot[v] = slot[w] => \A r \in Rows(v) : r < n
  BY DEF ClaimInv, ClaimsOf
<1> SUFFICES ASSUME NEW v \in Workers PROVE ClaimsOf(v)' BY DEF ClaimInv
<1>3. ClaimsOf(v) BY DEF ClaimInv
<1>4. \A r \in Rows(v)' : r < RowsClaimed(slot[v])'
  <2>1. CASE v = w
    <3>1. \A r \in Rows(v)' : r \in Nat /\ (r < n \/ r = n) BY <1>1, <1>2, <2>1
    <3>2. RowsClaimed(slot[v])' = n + 1 BY <2>1
    <3> HIDE DEF n
    <3> QED BY <1>1, <3>1, <3>2
  <2>2. CASE v # w
    <3>1. Rows(v)' = Rows(v) /\ \A r \in Rows(v) : r < RowsClaimed(slot[v]) BY <1>3, <2>2 DEF ClaimsOf
    <3>2. RowsClaimed(slot[v])' \in {RowsClaimed(slot[v]), RowsClaimed(slot[v]) + 1}
      BY <1>1
    <3>3. RowsClaimed(slot[v]) \in Nat BY <1>1, RowsClaimedIs
    <3> QED BY <1>1, <3>1, <3>2, <3>3
  <2> QED BY <2>1, <2>2
<1>6. pc'[v] = "fastcount" => nxt'[v] # row'[v] BY <1>3 DEF ClaimsOf
<1>7. ASSUME NEW u \in Workers \ {v}, slot'[u] = slot'[v] PROVE Rows(u)' \cap Rows(v)' = {}
  <2>1. slot[u] = slot[v] /\ Rows(u) \cap Rows(v) = {} BY <1>3, <1>7 DEF ClaimsOf
  <2>2. ASSUME NEW t \in Workers \ {w}, slot[t] = slot[w] PROVE n \notin Rows(t)
    BY <1>1, <1>2, <2>2
  <2>3. CASE v = w
    <3>1. n \notin Rows(u) /\ Rows(u)' = Rows(u) BY <2>1, <2>2, <2>3
    <3> QED BY <2>1, <2>3, <3>1
  <2>4. CASE u = w
    <3>1. n \notin Rows(v) /\ Rows(v)' = Rows(v) BY <2>1, <2>2, <2>4
    <3> QED BY <2>1, <2>4, <3>1
  <2>5. CASE v # w /\ u # w BY <2>1, <2>5
  <2> QED BY <2>3, <2>4, <2>5
<1> QED BY <1>4, <1>6, <1>7 DEF ClaimsOf

LEMMA ClaimStep == IInv /\ [Next]_vars => ClaimInv'
<1> SUFFICES ASSUME IInv, [Next]_vars PROVE ClaimInv' OBVIOUS
<1>0. TypeOK /\ ClaimInv /\ pc \in [Workers -> WorkerPcs] /\ row \in [Workers -> RowIdx \cup {0}]
      /\ nxt \in [Workers -> RowIdx \cup {0}]
  BY DEF IInv, TypeOK
<1>1. ASSUME NEW w \in Workers, NEW l, GoTo(w, l)
      PROVE  pc'[w] = l /\ \A v \in Workers \ {w} : pc'[v] = pc[v]
  BY <1>0, <1>1 DEF GoTo
\* A worker that stays, or moves where it holds no more than before.
<1>2. ASSUME NEW v \in Workers, row'[v] = row[v], nxt'[v] = nxt[v],
             \/ pc'[v] = pc[v]
             \/ /\ pc[v] \in RowPcs \cup {"cascade", "unit"} /\ pc'[v] \in RowPcs \cup {"unit"}
                /\ pc'[v] # "fastcount"
             \/ pc'[v] \notin RowPcs \cup {"cascade", "unit"}
      PROVE  /\ Rows(v)' \subseteq Rows(v)
             /\ pc'[v] = "fastcount" => pc[v] = "fastcount" /\ nxt'[v] = nxt[v] /\ row'[v] = row[v]
  BY <1>2 DEF Rows, RowPcs
<1>3. ASSUME NEW v \in Workers, pc'[v] = pc[v], row'[v] = row[v], nxt'[v] = nxt[v]
      PROVE  Rows(v)' = Rows(v)
  BY <1>3 DEF Rows
<1>4. ASSUME UNCHANGED <<slot, jctx, claimw, nextRow>>
      PROVE  \A v \in Workers : slot'[v] = slot[v] /\ RowsClaimed(slot[v])' = RowsClaimed(slot[v])
  BY <1>4 DEF RowsClaimed
\* A worker that claims nothing.
<1>6. ASSUME NEW w \in Workers, \A v \in Workers \ {w} : pc'[v] = pc[v],
             UNCHANGED <<slot, row, nxt, jctx, claimw, nextRow>>,
             \/ /\ pc[w] \in RowPcs \cup {"cascade", "unit"} /\ pc'[w] \in RowPcs \cup {"unit"}
                /\ pc'[w] # "fastcount"
             \/ pc'[w] \notin RowPcs \cup {"cascade", "unit"}
      PROVE  ClaimInv'
  <2>1. \A v \in Workers : /\ Rows(v)' \subseteq Rows(v)
                           /\ pc'[v] = "fastcount" => pc[v] = "fastcount" /\ nxt'[v] = nxt[v] /\ row'[v] = row[v]
    <3> HIDE DEF RowPcs
    <3> QED BY <1>2, <1>6
  <2> QED BY <1>0, <1>4, <1>6, <2>1, ClaimsShrink
<1>5. ASSUME NEW w \in Workers, QuietWork(w) PROVE ClaimInv'
  <2>1. UNCHANGED <<jctx, claimw, nextRow>> BY <1>5, QuietWorkIs DEF jobVars, regVars
  <2>2. CASE Moves(w)
    <3>1. /\ UNCHANGED <<slot, row, nxt>>
          /\ pc[w] \in RowPcs /\ pc'[w] \in RowPcs /\ pc'[w] # "fastcount"
          /\ \A v \in Workers \ {w} : \/ pc'[v] = pc[v]
                                      \/ pc[v] = "parked" /\ pc'[v] = "unpark"
      BY <1>0, <2>2, MovesIs
    <3>2. \A v \in Workers : /\ Rows(v)' \subseteq Rows(v)
                             /\ pc'[v] = "fastcount" => pc[v] = "fastcount" /\ nxt'[v] = nxt[v] /\ row'[v] = row[v]
      <4>1. "parked" \in RowPcs /\ "unpark" \in RowPcs BY DEF RowPcs
      <4> HIDE DEF RowPcs
      <4> QED BY <1>2, <3>1, <4>1
    <3> QED BY <1>0, <1>4, <2>1, <3>1, <3>2, ClaimsShrink
  <2>3. CASE Waits(w)
    <3>1. /\ UNCHANGED wrkVars /\ pc'[w] \in {"scan", "idle", "rescan", "asleep", "exited"}
          /\ \A v \in Workers \ {w} : pc'[v] = pc[v]
      BY <1>0, <2>3, WaitsIs
    <3>2. pc'[w] \notin RowPcs \cup {"cascade", "unit"} BY <3>1 DEF RowPcs
    <3> QED BY <1>6, <2>1, <3>1, <3>2 DEF wrkVars, posVars
  <2>4. CASE ScanFound(w) \/ Withdraw(w)
    <3>1. /\ pc'[w] = "claim" /\ \A v \in Workers \ {w} : pc'[v] = pc[v]
          /\ UNCHANGED <<row, nxt>> /\ slot' = [slot EXCEPT ![w] = PickFresh(curSeq[w])]
      BY <1>1, <2>4 DEF ScanFound, Withdraw
    <3>2. Rows(w)' = {} BY <3>1 DEF Rows, RowPcs
    <3>3. ASSUME NEW v \in Workers \ {w} PROVE slot'[v] = slot[v] BY <1>0, <3>1 DEF TypeOK
    <3>4. ASSUME NEW v \in Workers \ {w} PROVE RowsClaimed(slot[v])' = RowsClaimed(slot[v])
      BY <2>1, <3>3 DEF RowsClaimed
    <3>5. \A v \in Workers \ {w} : Rows(v)' = Rows(v) BY <1>3, <3>1
    <3> QED BY <1>0, <3>1, <3>2, <3>3, <3>4, <3>5, ClaimsShrink
  <2>5. CASE Cascade(w)
    <3>1. /\ pc[w] = "cascade" /\ pc'[w] \in {"cell", "unit"}
          /\ \A v \in Workers \ {w} : pc'[v] = pc[v]
          /\ UNCHANGED <<slot, row, nxt>>
      BY <1>1, <2>5 DEF Cascade
    <3>2. pc'[w] \in RowPcs \cup {"unit"} /\ pc'[w] # "fastcount" BY <3>1 DEF RowPcs
    <3> HIDE DEF RowPcs
    <3> QED BY <1>6, <2>1, <3>1, <3>2
  <2> QED BY <1>5, <2>2, <2>3, <2>4, <2>5 DEF QuietWork, Moves, Waits
\* A worker that claims.
<1>7. ASSUME NEW w \in Workers, Kind[jctx[slot[w]]] = "for",
             claimw' = [claimw EXCEPT ![slot[w]].row = @ + 1],
             row' = [row EXCEPT ![w] = claimw[slot[w]].row],
             \A v \in Workers \ {w} : pc'[v] = pc[v],
             pc'[w] \in {"cascade", "unit"}, UNCHANGED <<slot, nxt, jctx, nextRow>>
      PROVE  ClaimInv'
  <2>1. row'[w] = claimw[slot[w]].row /\ \A v \in Workers \ {w} : row'[v] = row[v]
    BY <1>0, <1>7
  <2>2. Rows(w)' = {claimw[slot[w]].row} BY <1>7, <2>1 DEF Rows
  <2>3. \A v \in Workers \ {w} : Rows(v)' = Rows(v) BY <1>3, <1>7, <2>1
  <2>4. /\ slot[w] \in Slots
        /\ \A j \in Slots \ {slot[w]} : claimw'[j] = claimw[j]
        /\ claimw'[slot[w]].row = claimw[slot[w]].row + 1
    <3>1. claimw \in [Slots -> [seq : Nat, row : 0 .. MaxRows]] /\ slot[w] \in Slots
      BY <1>0 DEF TypeOK
    <3> QED BY <1>7, <3>1
  <2>5. /\ RowsClaimed(slot[w]) = claimw[slot[w]].row
        /\ RowsClaimed(slot[w])' = claimw[slot[w]].row + 1
        /\ \A j \in Slots \ {slot[w]} : RowsClaimed(j)' = RowsClaimed(j)
    BY <1>7, <2>4 DEF RowsClaimed
  <2> QED BY <1>0, <1>7, <2>1, <2>2, <2>3, <2>5, ClaimOne
<1>8. ASSUME NEW w \in Workers, ClaimUnit(w) PROVE ClaimInv'
  <2>1. CASE UnitLeft(slot[w], seq[slot[w]], NRows[jctx[slot[w]]])
    <3>1. /\ pc'[w] = "cascade" /\ \A v \in Workers \ {w} : pc'[v] = pc[v]
      BY <1>1, <1>8, <2>1 DEF ClaimUnit
    <3> QED BY <1>7, <1>8, <2>1, <3>1 DEF ClaimUnit, regVars
  <2>2. CASE ~UnitLeft(slot[w], seq[slot[w]], NRows[jctx[slot[w]]])
    <3>1. /\ pc'[w] = "scan" /\ \A v \in Workers \ {w} : pc'[v] = pc[v]
          /\ UNCHANGED <<slot, row, nxt, jctx, claimw, nextRow>>
      BY <1>1, <1>8, <2>2 DEF ClaimUnit, regVars
    <3>2. pc'[w] \notin RowPcs \cup {"cascade", "unit"} BY <3>1 DEF RowPcs
    <3> QED BY <1>6, <3>1, <3>2
  <2> QED BY <2>1, <2>2
<1>9. ASSUME NEW w \in Workers, NextUnit(w) PROVE ClaimInv'
  <2>1. CASE UnitLeft(slot[w], runSeq[w], NRows[fctx[w]])
    <3>1. /\ pc[w] \in ForPcs /\ pc'[w] = "unit" /\ \A v \in Workers \ {w} : pc'[v] = pc[v]
      BY <1>1, <1>9, <2>1 DEF NextUnit, ForPcs
    <3>2. Kind[jctx[slot[w]]] = "for" BY <2>1, <3>1, NextUnitIs DEF UnitLeft, For
    <3> QED BY <1>7, <1>9, <2>1, <3>1, <3>2 DEF NextUnit, regVars
  <2>2. CASE ~UnitLeft(slot[w], runSeq[w], NRows[fctx[w]])
    <3>1. /\ pc'[w] = "finishfor" /\ \A v \in Workers \ {w} : pc'[v] = pc[v]
          /\ UNCHANGED <<slot, row, nxt, jctx, claimw, nextRow>>
      BY <1>1, <1>9, <2>2 DEF NextUnit, regVars
    <3>2. pc'[w] \notin RowPcs \cup {"cascade", "unit"} BY <3>1 DEF RowPcs
    <3> QED BY <1>6, <3>1, <3>2
  <2> QED BY <2>1, <2>2
<1>10. ASSUME NEW w \in Workers, Kind[jctx[slot[w]]] # "for",
              nextRow' = [nextRow EXCEPT ![slot[w]] = nextRow[slot[w]] + 1],
              \A v \in Workers \ {w} : pc'[v] = pc[v] /\ row'[v] = row[v] /\ nxt'[v] = nxt[v],
              Rows(w)' \subseteq Rows(w) \cup {nextRow[slot[w]]},
              pc'[w] = "fastcount" => nxt'[w] # row'[w],
              UNCHANGED <<slot, jctx, claimw>>
       PROVE  ClaimInv'
  <2>1. /\ slot[w] \in Slots
        /\ \A j \in Slots \ {slot[w]} : nextRow'[j] = nextRow[j]
        /\ nextRow'[slot[w]] = nextRow[slot[w]] + 1
    BY <1>0, <1>10 DEF TypeOK
  <2>2. /\ RowsClaimed(slot[w]) = nextRow[slot[w]]
        /\ RowsClaimed(slot[w])' = nextRow[slot[w]] + 1
        /\ \A j \in Slots \ {slot[w]} : RowsClaimed(j)' = RowsClaimed(j)
    BY <1>10, <2>1 DEF RowsClaimed
  <2>3. \A v \in Workers \ {w} : Rows(v)' = Rows(v) BY <1>3, <1>10
  <2> QED BY <1>0, <1>10, <2>2, <2>3, ClaimOne
<1>11. ASSUME NEW w \in Workers, ClaimRow(w) PROVE ClaimInv'
  <2>1. CASE NextReady(slot[w])
    <3>1. /\ pc'[w] = "cascade" /\ \A v \in Workers \ {w} : pc'[v] = pc[v]
          /\ UNCHANGED <<slot, nxt, jctx, claimw>> /\ Kind[jctx[slot[w]]] # "for"
          /\ nextRow' = [nextRow EXCEPT ![slot[w]] = nextRow[slot[w]] + 1]
          /\ row' = [row EXCEPT ![w] = nextRow[slot[w]]]
      BY <1>1, <1>11, <2>1 DEF ClaimRow, regVars
    <3>2. row'[w] = nextRow[slot[w]] /\ \A v \in Workers \ {w} : row'[v] = row[v]
      BY <1>0, <3>1
    <3>3. Rows(w)' = {nextRow[slot[w]]} BY <3>1, <3>2 DEF Rows
    <3> QED BY <1>10, <3>1, <3>2, <3>3
  <2>2. CASE ~NextReady(slot[w])
    <3>1. /\ pc'[w] = "scan" /\ \A v \in Workers \ {w} : pc'[v] = pc[v]
          /\ UNCHANGED <<slot, row, nxt, jctx, claimw, nextRow>>
      BY <1>1, <1>11, <2>2 DEF ClaimRow, regVars
    <3>2. pc'[w] \notin RowPcs \cup {"cascade", "unit"} BY <3>1 DEF RowPcs
    <3> QED BY <1>6, <3>1, <3>2
  <2> QED BY <2>1, <2>2
<1>12. ASSUME NEW w \in Workers, FastClaim(w) PROVE ClaimInv'
  <2>1. pc[w] = "fastclaim" /\ pc[w] \in RowPcs /\ pc[w] \in LivePcs
    BY <1>12 DEF FastClaim, RowPcs, LivePcs
  <2>2. CASE RowsLeft(slot[w], FastRow(w)) /\ Startable(slot[w], FastRow(w))
    <3>1. /\ pc'[w] = "fastcount" /\ \A v \in Workers \ {w} : pc'[v] = pc[v]
          /\ UNCHANGED <<slot, row, jctx, claimw>>
          /\ nextRow' = [nextRow EXCEPT ![slot[w]] = nextRow[slot[w]] + 1]
          /\ nxt' = [nxt EXCEPT ![w] = nextRow[slot[w]]]
      BY <1>1, <1>12, <2>2 DEF FastClaim, FastRow, regVars
    <3>2. nxt'[w] = nextRow[slot[w]] /\ \A v \in Workers \ {w} : nxt'[v] = nxt[v]
      BY <1>0, <3>1
    <3>3. Rows(w)' = {row[w], nextRow[slot[w]]} /\ row[w] \in Rows(w)
      BY <2>1, <3>1, <3>2 DEF Rows, RowPcs
    <3>4. Kind[jctx[slot[w]]] = "wavefront" /\ slot[w] \in Slots BY <2>1, LiveGrid
    <3>5. row[w] # nextRow[slot[w]]
      <4>1. row[w] < RowsClaimed(slot[w]) BY <1>0, <3>3 DEF ClaimInv, ClaimsOf
      <4>2. RowsClaimed(slot[w]) = nextRow[slot[w]] BY <3>4 DEF RowsClaimed
      <4>3. nextRow[slot[w]] \in Nat BY <1>0, <3>4 DEF TypeOK
      <4> QED BY <4>1, <4>2, <4>3
    <3> QED BY <1>10, <3>1, <3>2, <3>3, <3>4, <3>5
  <2>3. CASE ~(RowsLeft(slot[w], FastRow(w)) /\ Startable(slot[w], FastRow(w)))
    <3>1. /\ pc'[w] = "finish" /\ \A v \in Workers \ {w} : pc'[v] = pc[v]
          /\ UNCHANGED <<slot, row, nxt, jctx, claimw, nextRow>>
      BY <1>1, <1>12, <2>3 DEF FastClaim, regVars
    <3>2. pc'[w] \in RowPcs \cup {"unit"} /\ pc'[w] # "fastcount" BY <3>1 DEF RowPcs
    <3> HIDE DEF RowPcs
    <3> QED BY <1>6, <2>1, <3>1, <3>2
  <2> QED BY <2>2, <2>3
<1>13. ASSUME NEW w \in Workers, FastCount(w) PROVE ClaimInv'
  <2>1. /\ pc[w] = "fastcount" /\ pc'[w] = "cell" /\ \A v \in Workers \ {w} : pc'[v] = pc[v]
        /\ UNCHANGED <<slot, nxt, jctx, claimw, nextRow>>
        /\ row' = [row EXCEPT ![w] = nxt[w]]
    BY <1>1, <1>13 DEF FastCount, regVars
  <2>2. row'[w] = nxt[w] /\ \A v \in Workers \ {w} : row'[v] = row[v] BY <1>0, <2>1
  <2>3. Rows(w)' = {nxt[w]} /\ nxt[w] \in Rows(w) BY <2>1, <2>2 DEF Rows, RowPcs
  <2>4. \A v \in Workers \ {w} : Rows(v)' = Rows(v) BY <1>3, <2>1, <2>2
  <2> QED BY <1>0, <1>4, <2>1, <2>2, <2>3, <2>4, ClaimsShrink
<1>14. ASSUME NEW w \in Workers, RunCell(w) \/ RunUnit(w) \/ FinishRow(w) \/ FinishFor(w)
       PROVE  ClaimInv'
  <2>1. /\ \A v \in Workers \ {w} : pc'[v] = pc[v]
        /\ UNCHANGED <<slot, row, nxt, jctx, claimw, nextRow>>
        /\ \/ pc[w] = "body" /\ pc'[w] = "peekrow"
           \/ pc'[w] \in {"finishfor", "nextunit", "scan"}
    BY <1>1, <1>14 DEF RunCell, RunUnit, FinishRow, FinishFor, regVars, wrkVars, posVars
  <2>2. \/ /\ pc[w] \in RowPcs \cup {"cascade", "unit"} /\ pc'[w] \in RowPcs \cup {"unit"}
           /\ pc'[w] # "fastcount"
        \/ pc'[w] \notin RowPcs \cup {"cascade", "unit"}
    BY <2>1 DEF RowPcs
  <2> HIDE DEF RowPcs
  <2> QED BY <1>6, <2>1, <2>2
\* The submitters.
<1>15. ASSUME UNCHANGED <<pc, slot, row, nxt>>, UNCHANGED <<jctx, claimw, nextRow>> PROVE ClaimInv'
  <2>1. \A v \in Workers : Rows(v)' = Rows(v) BY <1>3, <1>15
  <2> QED BY <1>0, <1>4, <1>15, <2>1, ClaimsShrink
<1>16. ASSUME NEW s \in Submitters, QuietCall(s) \/ SerialCell(s) \/ Join(s) PROVE ClaimInv'
  BY <1>15, <1>16, QuietCallIs DEF SerialCell, Join, poolVars, jobVars, regVars, workVars, wrkVars, posVars
<1>17. External \/ UNCHANGED vars => ClaimInv'
  BY <1>15, ExternalIs DEF vars, poolVars, jobVars, regVars, workVars, wrkVars, posVars
<1>18. ASSUME NEW s \in Submitters, Register(s) PROVE ClaimInv'
  <2>1. PICK f \in Slots, x \in Ctxs :
          /\ ~used[f] /\ jctx' = [jctx EXCEPT ![f] = x] /\ nextRow' = [nextRow EXCEPT ![f] = 0]
          /\ claimw' = [claimw EXCEPT ![f] = [seq |-> seqNext + 1, row |-> 0]]
          /\ UNCHANGED workVars
    BY <1>18, RegisterIs
  <2>2. UNCHANGED <<pc, slot, row, nxt>> BY <2>1 DEF workVars, wrkVars, posVars
  <2>3. ASSUME NEW v \in Workers PROVE Rows(v)' = Rows(v) BY <1>3, <2>2
  <2>4. ASSUME NEW v \in Workers, Rows(v) # {} PROVE RowsClaimed(slot[v])' = RowsClaimed(slot[v])
    <3>1. pc[v] \in LivePcs BY <2>4, RowsOfLive
    <3>2. slot[v] \in Slots /\ slot[v] # f BY <2>1, <3>1, LiveGrid
    <3>3. /\ jctx'[slot[v]] = jctx[slot[v]] /\ nextRow'[slot[v]] = nextRow[slot[v]]
          /\ claimw'[slot[v]] = claimw[slot[v]]
      BY <1>0, <2>1, <3>2 DEF TypeOK
    <3> QED BY <2>2, <3>3 DEF RowsClaimed
  <2> QED BY <1>0, <2>2, <2>3, <2>4, ClaimsShrink
<1> QED BY <1>5, <1>8, <1>9, <1>11, <1>12, <1>13, <1>14, <1>16, <1>17, <1>18, Steps

-----------------------------------------------------------------------------
(* Cells that ran. *)

\* A slot's rows, when its grid's cells and its progress stay as they are.
LEMMA RowsKept ==
    ASSUME TypeOK, NEW j \in Slots, jctx'[j] = jctx[j],
           Wave(jctx[j]) =>
             /\ \A r \in 0 .. NRows[jctx[j]] - 1 : RowOf(j, r)
             /\ \A r \in counted[j] : r < nextRow[j],
           Wave(jctx[j]) =>
             /\ progress'[j] = progress[j]
             /\ counted'[j] = counted[j]
             /\ nextRow'[j] = nextRow[j] \/ nextRow'[j] = nextRow[j] + 1
             /\ \A r, c : <<jctx[j], r, c>> \in ran' <=> <<jctx[j], r, c>> \in ran
    PROVE  Wave(jctx'[j]) =>
             /\ \A r \in 0 .. NRows[jctx'[j]] - 1 : RowOf(j, r)'
             /\ \A r \in counted'[j] : r < nextRow'[j]
<1> SUFFICES ASSUME Wave(jctx[j])
             PROVE  /\ \A r \in 0 .. NRows[jctx'[j]] - 1 : RowOf(j, r)'
                    /\ \A r \in counted'[j] : r < nextRow'[j]
  OBVIOUS
<1>1. nextRow[j] \in Nat /\ counted[j] \subseteq Nat
  <2>1. nextRow[j] \in 0 .. MaxRows /\ counted[j] \in SUBSET RowIdx BY DEF TypeOK
  <2> QED BY <2>1, PoolAssumption DEF RowIdx
<1>2. \A r \in counted'[j] : r < nextRow'[j]
  <2>1. \A r \in counted[j] : r < nextRow[j] /\ r \in Nat BY <1>1
  <2>2. nextRow'[j] = nextRow[j] \/ nextRow'[j] = nextRow[j] + 1 OBVIOUS
  <2> QED BY <1>1, <2>1, <2>2
<1>3. ASSUME NEW r \in 0 .. NRows[jctx[j]] - 1 PROVE RowOf(j, r)'
  <2>1. RowOf(j, r) /\ r \in Int BY <1>3
  <2>2. r >= nextRow'[j] => r >= nextRow[j] BY <1>1, <2>1
  <2> QED BY <2>1, <2>2 DEF RowOf
<1> QED BY <1>2, <1>3

LEMMA RowInvStep == IInv /\ [Next]_vars => RowInv'
<1> SUFFICES ASSUME IInv, [Next]_vars PROVE RowInv' OBVIOUS
<1> DEFINE Good(j) == Wave(jctx[j]) => /\ \A r \in 0 .. NRows[jctx[j]] - 1 : RowOf(j, r)
                                       /\ \A r \in counted[j] : r < nextRow[j]
<1>0. TypeOK /\ JobInv /\ \A j \in Slots : Good(j) BY DEF IInv, RowInv
<1>g. ASSUME \A j \in Slots : Good(j)' PROVE RowInv' BY <1>g DEF RowInv
\* A slot whose grid runs no cell in this step.
<1>1. ASSUME NEW j \in Slots, jctx'[j] = jctx[j], progress'[j] = progress[j], counted'[j] = counted[j],
             nextRow'[j] = nextRow[j] \/ nextRow'[j] = nextRow[j] + 1,
             Wave(jctx[j]) => \A r, c : <<jctx[j], r, c>> \in ran' <=> <<jctx[j], r, c>> \in ran
      PROVE  Good(j)'
  <2>1. Good(j) BY <1>0
  <2> QED BY <1>0, <1>1, <2>1, RowsKept
<1>2. ASSUME UNCHANGED <<jctx, progress, counted, ran>>,
             \A j \in Slots : nextRow'[j] = nextRow[j] \/ nextRow'[j] = nextRow[j] + 1
      PROVE  RowInv'
  <2>1. \A j \in Slots : Good(j)' BY <1>1, <1>2
  <2> QED BY <1>g, <2>1
<1>3. ASSUME NEW w \in Workers,
             \/ QuietWork(w) \/ ClaimUnit(w) \/ ClaimRow(w) \/ FastClaim(w) \/ NextUnit(w) \/ FinishFor(w)
      PROVE  RowInv'
  <2>1. UNCHANGED <<jctx, progress, counted, ran>>
    BY <1>3, QuietWorkIs DEF jobVars, regVars, ClaimUnit, ClaimRow, FastClaim, NextUnit, FinishFor
  <2>2. nextRow' = nextRow \/ nextRow' = [nextRow EXCEPT ![slot[w]] = nextRow[slot[w]] + 1]
    BY <1>3, QuietWorkIs DEF jobVars, ClaimUnit, ClaimRow, FastClaim, FastRow, NextUnit, FinishFor
  <2>3. \A j \in Slots : nextRow'[j] = nextRow[j] \/ nextRow'[j] = nextRow[j] + 1
    BY <1>0, <2>2 DEF TypeOK
  <2> QED BY <1>2, <2>1, <2>3
<1>4. ASSUME NEW w \in Workers, RunCell(w) PROVE RowInv'
  <2>0. PICK j, x, q, d : j = slot[w] /\ x = jctx[j] /\ q = row[w] /\ d = col[w] OBVIOUS
  <2>1. pc[w] = "body" /\ pc[w] \in RowPcs /\ pc[w] \in LivePcs /\ pc[w] \in BeforePcs
    BY <1>4 DEF RunCell, RowPcs, LivePcs, BeforePcs
  <2>2. /\ j \in Slots /\ x # None /\ Kind[x] = "wavefront" /\ NCols[x] \in Nat
        /\ q \in 0 .. NRows[x] - 1 /\ q \in RowIdx
    <3>1. MaxRows \in Nat BY PoolAssumption
    <3>2. NRows[x] \in 1 .. MaxRows /\ q \in 0 .. NRows[x] - 1 BY <2>0, <2>1, LiveGrid
    <3> QED BY <2>0, <2>1, <3>1, <3>2, LiveGrid DEF RowIdx
  <2>3. d \in Nat /\ d < NCols[x] /\ progress[j][q] = d
    BY <2>0, <2>1 DEF IInv, TypeOK, CellInv, CellsOf
  <2>4. /\ ran' = ran \cup {<<x, q, d>>}
        /\ progress' = [progress EXCEPT ![j][q] = d + 1]
        /\ UNCHANGED <<jctx, nextRow, counted>>
    BY <1>4, <2>0 DEF RunCell, regVars
  <2>5. ASSUME NEW i \in Slots, i # j PROVE Good(i)'
    <3>1. Wave(jctx[i]) => jctx[i] # x BY <1>0, <2>0, <2>2, <2>5 DEF JobInv, OneSlot, Wave
    <3>2. progress'[i] = progress[i] BY <1>0, <2>4, <2>5 DEF TypeOK
    <3>3. Wave(jctx[i]) => \A r, c : <<jctx[i], r, c>> \in ran' <=> <<jctx[i], r, c>> \in ran
      BY <2>4, <3>1
    <3> QED BY <1>1, <2>4, <3>2, <3>3
  <2>6. Good(j)'
    <3>1. /\ progress'[j][q] = d + 1
          /\ \A r \in RowIdx : r # q => progress'[j][r] = progress[j][r]
      BY <1>0, <2>2, <2>4 DEF TypeOK
    <3>2. Wave(x) BY <2>2 DEF Wave
    <3>3. q < nextRow[j]
      <4>1. q \in Rows(w) BY <2>0, <2>1 DEF Rows
      <4>2. q < RowsClaimed(j) BY <2>0, <4>1 DEF IInv, ClaimInv, ClaimsOf
      <4> QED BY <2>0, <2>2, <4>2 DEF RowsClaimed
    <3>4. q \notin counted[j]
      <4>1. Rows(w) \cap counted[j] = {} /\ q \in Rows(w)
        BY <2>0, <2>1 DEF IInv, CellInv, CellsOf, Rows
      <4> QED BY <4>1
    <3>5. ASSUME NEW r \in 0 .. NRows[x] - 1 PROVE RowOf(j, r)'
      <4>1. RowOf(j, r) BY <1>0, <2>0, <2>2, <3>2
      <4>2. CASE r # q
        <5>1. r \in RowIdx
          <6>1. MaxRows \in Nat /\ NRows[x] \in 1 .. MaxRows
            BY <2>0, <2>1, LiveGrid, PoolAssumption
          <6> QED BY <6>1 DEF RowIdx
        <5>2. progress'[j][r] = progress[j][r] BY <3>1, <4>2, <5>1
        <5>3. \A c : <<x, r, c>> \in ran' <=> <<x, r, c>> \in ran BY <2>4, <4>2
        <5> QED BY <2>0, <2>4, <4>1, <5>2, <5>3 DEF RowOf
      <4>3. CASE r = q
        <5>1. d + 1 <= NCols[x] BY <2>2, <2>3
        <5>2. ASSUME NEW c \in 0 .. NCols[x] - 1
              PROVE  <<x, q, c>> \in ran' <=> c < d + 1
          <6>1. <<x, q, c>> \in ran <=> c < d BY <2>0, <2>3, <4>1, <4>3 DEF RowOf
          <6>2. <<x, q, c>> \in ran' <=> <<x, q, c>> \in ran \/ c = d BY <2>4
          <6> QED BY <2>3, <6>1, <6>2
        <5>3. ~(q >= nextRow[j])
          <6>1. nextRow[j] \in 0 .. MaxRows BY <1>0, <2>2 DEF TypeOK
          <6> QED BY <2>2, <3>3, <6>1, PoolAssumption
        <5> QED BY <2>0, <2>4, <3>1, <3>4, <4>3, <5>1, <5>2, <5>3 DEF RowOf
      <4> QED BY <4>2, <4>3
    <3>6. \A r \in counted[j] : r < nextRow[j] BY <1>0, <2>0, <2>2, <3>2
    <3>7. jctx'[j] = x /\ counted'[j] = counted[j] /\ nextRow'[j] = nextRow[j] BY <2>0, <2>4
    <3> QED BY <3>5, <3>6, <3>7
  <2> QED BY <1>g, <2>5, <2>6
<1>5. ASSUME NEW w \in Workers, FastCount(w) \/ FinishRow(w) PROVE RowInv'
  <2>0. PICK j, x, q : j = slot[w] /\ x = jctx[j] /\ q = row[w] OBVIOUS
  <2>1. pc[w] \in {"fastcount", "finish"} /\ pc[w] \in RowPcs /\ pc[w] \in LivePcs /\ pc[w] \in EndPcs
    BY <1>5 DEF FastCount, FinishRow, RowPcs, LivePcs, EndPcs
  <2>2. j \in Slots /\ x # None /\ Kind[x] = "wavefront" BY <2>0, <2>1, LiveGrid
  <2>3. /\ UNCHANGED <<jctx, progress, nextRow, ran>>
        /\ counted' = [counted EXCEPT ![j] = @ \cup {q}]
    BY <1>5, <2>0 DEF FastCount, FinishRow, regVars
  <2>4. ASSUME NEW i \in Slots, i # j PROVE Good(i)'
    <3>1. counted'[i] = counted[i] BY <1>0, <2>3, <2>4 DEF TypeOK
    <3> QED BY <1>1, <2>3, <3>1
  <2>5. Good(j)'
    <3>1. counted'[j] = counted[j] \cup {q} BY <1>0, <2>2, <2>3 DEF TypeOK
    <3>2. Wave(x) BY <2>2 DEF Wave
    <3>3. q < nextRow[j]
      <4>1. q \in Rows(w) BY <2>0, <2>1 DEF Rows
      <4>2. q < RowsClaimed(j) BY <2>0, <4>1 DEF IInv, ClaimInv, ClaimsOf
      <4> QED BY <2>0, <2>2, <4>2 DEF RowsClaimed
    <3>4. progress[j][q] = NCols[x] BY <2>0, <2>1 DEF IInv, CellInv, CellsOf
    <3>5. ASSUME NEW r \in 0 .. NRows[x] - 1 PROVE RowOf(j, r)'
      <4>1. RowOf(j, r) BY <1>0, <2>0, <2>2, <3>2
      <4>2. r \in counted'[j] => r \in counted[j] \/ r = q BY <3>1
      <4> QED BY <2>0, <2>3, <3>4, <4>1, <4>2 DEF RowOf
    <3>6. \A r \in counted'[j] : r < nextRow[j] BY <1>0, <2>0, <2>2, <3>1, <3>2, <3>3
    <3>7. jctx'[j] = x /\ nextRow'[j] = nextRow[j] BY <2>0, <2>3
    <3> QED BY <3>5, <3>6, <3>7
  <2> QED BY <1>g, <2>4, <2>5
<1>6. ASSUME NEW w \in Workers, RunUnit(w) PROVE RowInv'
  <2>1. pc[w] \in ForPcs BY <1>6 DEF RunUnit, ForPcs
  <2>2. For(fctx[w]) BY <2>1 DEF IInv, LiveInv, LiveOf
  <2>3. UNCHANGED <<jctx, progress, nextRow, counted>> /\ ran' = ran \cup {<<fctx[w], row[w], 0>>}
    BY <1>6 DEF RunUnit, regVars
  <2>4. ASSUME NEW i \in Slots PROVE Good(i)'
    <3>1. Wave(jctx[i]) => \A r, c : <<jctx[i], r, c>> \in ran' <=> <<jctx[i], r, c>> \in ran
      BY <2>2, <2>3 DEF Wave, For
    <3> QED BY <1>1, <2>3, <3>1
  <2> QED BY <1>g, <2>4
<1>7. ASSUME NEW s \in Submitters, SerialCell(s) PROVE RowInv'
  <2>1. spc[s] = "serial" BY <1>7 DEF SerialCell
  <2>2. Current(s) \in Oom BY <2>1, SerialGrid
  <2>3. /\ UNCHANGED <<jctx, progress, nextRow, counted>>
        /\ ran' = ran \cup {<<Current(s), scell[s][1], scell[s][2]>>}
    BY <1>7 DEF SerialCell, poolVars, jobVars, regVars
  <2>4. ASSUME NEW i \in Slots PROVE Good(i)'
    <3>1. Wave(jctx[i]) => jctx[i] # Current(s) BY <1>0, <2>2 DEF Wave, JobInv, SlotOf
    <3>2. Wave(jctx[i]) => \A r, c : <<jctx[i], r, c>> \in ran' <=> <<jctx[i], r, c>> \in ran
      BY <2>3, <3>1
    <3> QED BY <1>1, <2>3, <3>2
  <2> QED BY <1>g, <2>4
<1>8. ASSUME NEW s \in Submitters, QuietCall(s) \/ Join(s) PROVE RowInv'
  BY <1>2, <1>8, QuietCallIs DEF Join, poolVars, jobVars, regVars
<1>9. External \/ UNCHANGED vars => RowInv'
  BY <1>2, ExternalIs DEF vars, poolVars, jobVars, regVars
<1>10. ASSUME NEW s \in Submitters, Register(s) PROVE RowInv'
  <2>1. PICK f \in Slots, x \in Ctxs :
          /\ NRows[x] \in 1 .. MaxRows /\ NCols[x] \in Nat \ {0}
          /\ ~Taken(x) /\ ~Serial(x)
          /\ jctx' = [jctx EXCEPT ![f] = x] /\ nextRow' = [nextRow EXCEPT ![f] = 0]
          /\ \/ /\ Kind[x] = "wavefront"
                /\ progress' = [progress EXCEPT ![f] =
                                  [r \in RowIdx |-> IF r < NRows[x] THEN 0 ELSE @[r]]]
                /\ counted' = [counted EXCEPT ![f] = {}]
             \/ Kind[x] # "wavefront" /\ UNCHANGED <<progress, counted>>
          /\ ran' = ran
    BY ZenonT(40), <1>10, RegisterIs
  <2>2. ASSUME NEW i \in Slots, i # f PROVE Good(i)'
    <3>1. /\ jctx'[i] = jctx[i] /\ nextRow'[i] = nextRow[i]
          /\ progress'[i] = progress[i] /\ counted'[i] = counted[i]
      BY <1>0, <2>1, <2>2 DEF TypeOK
    <3> QED BY <1>1, <2>1, <3>1
  <2>3. Good(f)'
    <3>1. jctx'[f] = x /\ nextRow'[f] = 0 BY <1>0, <2>1 DEF TypeOK
    <3>2. CASE Kind[x] # "wavefront" BY <3>1, <3>2 DEF Wave
    <3>3. CASE Kind[x] = "wavefront"
      <4>1. /\ counted'[f] = {}
            /\ progress'[f] = [r \in RowIdx |-> IF r < NRows[x] THEN 0 ELSE progress[f][r]]
        BY <1>0, <2>1, <3>3 DEF TypeOK
      <4>2. \A r, c : <<x, r, c>> \notin ran
        <5>1. SUFFICES ASSUME NEW r, NEW c, <<x, r, c>> \in ran PROVE FALSE OBVIOUS
        <5>2. Taken(<<x, r, c>>[1]) \/ Serial(<<x, r, c>>[1]) BY <5>1 DEF IInv, TakenInv
        <5>3. <<x, r, c>>[1] = x OBVIOUS
        <5> QED BY <2>1, <5>2, <5>3
      <4>3. ASSUME NEW r \in 0 .. NRows[x] - 1 PROVE RowOf(f, r)'
        <5>1. r \in RowIdx
          <6>1. MaxRows \in Nat BY PoolAssumption
          <6> QED BY <2>1, <6>1 DEF RowIdx
        <5>2. r < NRows[x] BY <2>1
        <5>3. progress'[f][r] = 0 BY <4>1, <5>1, <5>2
        <5> QED BY <2>1, <3>1, <4>1, <4>2, <5>3 DEF RowOf
      <4> QED BY <3>1, <4>1, <4>3
    <3> QED BY <3>2, <3>3
  <2> QED BY <1>g, <2>2, <2>3
<1> QED BY <1>3, <1>4, <1>5, <1>6, <1>7, <1>8, <1>9, <1>10, Steps

\* Units: those past the claim word have not run.
LEMMA UnitInvStep == IInv /\ [Next]_vars => UnitInv'
<1> SUFFICES ASSUME IInv, [Next]_vars PROVE UnitInv' OBVIOUS
<1> DEFINE Good(j) == For(jctx[j]) =>
             \A r \in claimw[j].row .. NRows[jctx[j]] - 1 : <<jctx[j], r, 0>> \notin ran
<1>0. TypeOK /\ JobInv /\ \A j \in Slots : Good(j) BY DEF IInv, UnitInv
<1>g. ASSUME \A j \in Slots : Good(j)' PROVE UnitInv' BY <1>g DEF UnitInv
\* A slot whose grid runs no unit in this step.
<1>1. ASSUME NEW j \in Slots, jctx'[j] = jctx[j],
             claimw'[j] = claimw[j] \/ claimw'[j].row = claimw[j].row + 1,
             For(jctx[j]) => \A r : <<jctx[j], r, 0>> \in ran' <=> <<jctx[j], r, 0>> \in ran
      PROVE  Good(j)'
  <2>1. Good(j) BY <1>0
  <2>2. claimw[j].row \in Int BY <1>0 DEF TypeOK
  <2>3. ASSUME NEW r \in claimw'[j].row .. NRows[jctx[j]] - 1, For(jctx[j])
        PROVE  r \in claimw[j].row .. NRows[jctx[j]] - 1
    <3>1. NRows[jctx[j]] \in Nat BY <1>0, <2>3, GridOf DEF For
    <3> QED BY <1>1, <2>2, <2>3, <3>1
  <2> QED BY <1>1, <2>1, <2>3
<1>2. ASSUME UNCHANGED <<jctx, claimw, ran>> PROVE UnitInv'
  <2>1. \A j \in Slots : Good(j)' BY <1>1, <1>2
  <2> QED BY <1>g, <2>1
<1>3. ASSUME NEW w \in Workers,
             \/ QuietWork(w) \/ ClaimRow(w) \/ FastClaim(w) \/ FastCount(w) \/ FinishRow(w)
             \/ FinishFor(w)
      PROVE  UnitInv'
  BY <1>2, <1>3, QuietWorkIs DEF jobVars, regVars, ClaimRow, FastClaim, FastCount, FinishRow, FinishFor
<1>4. ASSUME NEW w \in Workers, ClaimUnit(w) \/ NextUnit(w) PROVE UnitInv'
  <2>1. /\ UNCHANGED <<jctx, ran>>
        /\ claimw' = claimw \/ claimw' = [claimw EXCEPT ![slot[w]].row = @ + 1]
    BY <1>4 DEF ClaimUnit, NextUnit, regVars
  <2>2. ASSUME NEW j \in Slots PROVE claimw'[j] = claimw[j] \/ claimw'[j].row = claimw[j].row + 1
    <3>1. claimw \in [Slots -> [seq : Nat, row : 0 .. MaxRows]] BY <1>0 DEF TypeOK
    <3> QED BY <2>1, <3>1
  <2>3. \A j \in Slots : Good(j)' BY <1>1, <2>1, <2>2
  <2> QED BY <1>g, <2>3
<1>5. ASSUME NEW w \in Workers, RunCell(w) PROVE UnitInv'
  <2>1. pc[w] \in RowPcs BY <1>5 DEF RunCell, RowPcs
  <2>2. Wave(jctx[slot[w]]) BY <2>1 DEF IInv, LiveInv, LiveOf
  <2>3. UNCHANGED <<jctx, claimw>> /\ ran' = ran \cup {<<jctx[slot[w]], row[w], col[w]>>}
    BY <1>5 DEF RunCell, regVars
  <2>4. ASSUME NEW j \in Slots PROVE Good(j)'
    <3>1. For(jctx[j]) => \A r : <<jctx[j], r, 0>> \in ran' <=> <<jctx[j], r, 0>> \in ran
      BY <2>2, <2>3 DEF Wave, For
    <3> QED BY <1>1, <2>3, <3>1
  <2> QED BY <1>g, <2>4
<1>6. ASSUME NEW w \in Workers, RunUnit(w) PROVE UnitInv'
  <2>0. PICK i, x, q : i = slot[w] /\ x = fctx[w] /\ q = row[w] OBVIOUS
  <2>1. pc[w] = "unit" /\ pc[w] \in ForPcs /\ AtWork(w) BY <1>6 DEF RunUnit, ForPcs, AtWork
  <2>2. i \in Slots /\ x = jctx[i] /\ For(x)
    BY <1>0, <2>0, <2>1 DEF IInv, LiveInv, LiveOf, TypeOK
  <2>3. UNCHANGED <<jctx, claimw>> /\ ran' = ran \cup {<<x, q, 0>>}
    BY <1>6, <2>0 DEF RunUnit, regVars
  <2>4. q < claimw[i].row
    <3>1. q \in Rows(w) BY <2>0, <2>1 DEF Rows
    <3>2. q < RowsClaimed(i) BY <2>0, <3>1 DEF IInv, ClaimInv, ClaimsOf
    <3> QED BY <2>2, <3>2 DEF RowsClaimed, For
  <2>5. ASSUME NEW j \in Slots, j # i PROVE Good(j)'
    <3>1. For(jctx[j]) => jctx[j] # x BY <1>0, <2>2, <2>5 DEF JobInv, OneSlot, For
    <3>2. For(jctx[j]) => \A r : <<jctx[j], r, 0>> \in ran' <=> <<jctx[j], r, 0>> \in ran
      BY <2>3, <3>1
    <3> QED BY <1>1, <2>3, <3>2
  <2>6. Good(i)'
    <3>1. Good(i) BY <1>0, <2>2
    <3>2. claimw[i].row \in Nat /\ q \in Nat
      <4>1. claimw[i].row \in 0 .. MaxRows /\ q \in RowIdx \cup {0} BY <1>0, <2>0, <2>2 DEF TypeOK
      <4> QED BY <4>1, PoolAssumption DEF RowIdx
    <3>3. \A r \in claimw[i].row .. NRows[x] - 1 : r # q BY <2>4, <3>2
    <3> QED BY <2>2, <2>3, <3>1, <3>3
  <2> QED BY <1>g, <2>5, <2>6
<1>7. ASSUME NEW s \in Submitters, SerialCell(s) PROVE UnitInv'
  <2>1. Current(s) \in Oom BY <1>7, SerialGrid DEF SerialCell
  <2>2. /\ UNCHANGED <<jctx, claimw>>
        /\ ran' = ran \cup {<<Current(s), scell[s][1], scell[s][2]>>}
    BY <1>7 DEF SerialCell, poolVars, jobVars, regVars
  <2>3. ASSUME NEW j \in Slots PROVE Good(j)'
    <3>1. For(jctx[j]) => jctx[j] # Current(s) BY <1>0, <2>1 DEF For, JobInv, SlotOf
    <3>2. For(jctx[j]) => \A r : <<jctx[j], r, 0>> \in ran' <=> <<jctx[j], r, 0>> \in ran
      BY <2>2, <3>1
    <3> QED BY <1>1, <2>2, <3>2
  <2> QED BY <1>g, <2>3
<1>8. ASSUME NEW s \in Submitters, QuietCall(s) \/ Join(s) PROVE UnitInv'
  BY <1>2, <1>8, QuietCallIs DEF Join, poolVars, jobVars, regVars
<1>9. External \/ UNCHANGED vars => UnitInv'
  BY <1>2, ExternalIs DEF vars, poolVars, jobVars, regVars
<1>10. ASSUME NEW s \in Submitters, Register(s) PROVE UnitInv'
  <2>1. PICK f \in Slots, x \in Ctxs :
          /\ ~Taken(x) /\ ~Serial(x)
          /\ jctx' = [jctx EXCEPT ![f] = x]
          /\ claimw' = [claimw EXCEPT ![f] = [seq |-> seqNext + 1, row |-> 0]]
          /\ ran' = ran
    BY <1>10, RegisterIs
  <2>2. ASSUME NEW j \in Slots, j # f PROVE Good(j)'
    <3>1. jctx'[j] = jctx[j] /\ claimw'[j] = claimw[j] BY <1>0, <2>1, <2>2 DEF TypeOK
    <3> QED BY <1>1, <2>1, <3>1
  <2>3. Good(f)'
    <3>1. jctx'[f] = x BY <1>0, <2>1 DEF TypeOK
    <3>2. \A r : <<x, r, 0>> \notin ran
      <4>1. SUFFICES ASSUME NEW r, <<x, r, 0>> \in ran PROVE FALSE OBVIOUS
      <4>2. Taken(<<x, r, 0>>[1]) \/ Serial(<<x, r, 0>>[1]) BY <4>1 DEF IInv, TakenInv
      <4>3. <<x, r, 0>>[1] = x OBVIOUS
      <4> QED BY <2>1, <4>2, <4>3
    <3> QED BY <2>1, <3>1, <3>2
  <2> QED BY <1>g, <2>2, <2>3
<1> QED BY <1>3, <1>4, <1>5, <1>6, <1>7, <1>8, <1>9, <1>10, Steps

-----------------------------------------------------------------------------
(* The completion count. *)

LEMMA CountStep == IInv /\ [Next]_vars => CountInv'
<1> SUFFICES ASSUME IInv, [Next]_vars PROVE CountInv' OBVIOUS
<1>0. TypeOK /\ JobInv /\ \A j \in Slots : CountOf(j) BY DEF IInv, CountInv
\* A slot in whose grid nothing ran or was counted.
<1>1. ASSUME NEW j \in Slots, jctx'[j] = jctx[j], rowsDone'[j] = rowsDone[j], counted'[j] = counted[j],
             done'[j] => done[j] \/ rowsDone[j] = NRows[jctx[j]],
             For(jctx[j]) => \A r : <<jctx[j], r, 0>> \in ran' <=> <<jctx[j], r, 0>> \in ran
      PROVE  CountOf(j)'
  <2>1. CountOf(j) BY <1>0
  <2>2. For(jctx[j]) => Finished(jctx[j])' = Finished(jctx[j]) BY <1>1 DEF Finished
  <2>3. For(jctx'[j]) => rowsDone'[j] = Cardinality(Finished(jctx[j])')
    BY <1>1, <2>1, <2>2 DEF CountOf
  <2>4. Wave(jctx'[j]) => rowsDone'[j] = Cardinality(counted'[j]) BY <1>1, <2>1 DEF CountOf
  <2>5. done'[j] => rowsDone'[j] = NRows[jctx'[j]] BY <1>1, <2>1 DEF CountOf
  <2> QED BY <2>3, <2>4, <2>5 DEF CountOf
<1>2. ASSUME UNCHANGED <<jctx, rowsDone, counted, done, ran>> PROVE CountInv'
  <2>1. \A j \in Slots : CountOf(j)' BY <1>1, <1>2
  <2> QED BY <2>1 DEF CountInv
<1>3. ASSUME NEW w \in Workers,
             \/ QuietWork(w) \/ ClaimUnit(w) \/ ClaimRow(w) \/ FastClaim(w) \/ NextUnit(w)
      PROVE  CountInv'
  BY <1>2, <1>3, QuietWorkIs DEF jobVars, regVars, ClaimUnit, ClaimRow, FastClaim, NextUnit
<1>4. ASSUME NEW w \in Workers, RunCell(w) PROVE CountInv'
  <2>1. pc[w] \in RowPcs BY <1>4 DEF RunCell, RowPcs
  <2>2. Wave(jctx[slot[w]]) BY <2>1 DEF IInv, LiveInv, LiveOf
  <2>3. /\ UNCHANGED <<jctx, rowsDone, counted, done>>
        /\ ran' = ran \cup {<<jctx[slot[w]], row[w], col[w]>>}
    BY <1>4 DEF RunCell, regVars
  <2>4. ASSUME NEW j \in Slots PROVE CountOf(j)'
    <3>1. For(jctx[j]) => \A r : <<jctx[j], r, 0>> \in ran' <=> <<jctx[j], r, 0>> \in ran
      BY <2>2, <2>3 DEF Wave, For
    <3> QED BY <1>1, <2>3, <3>1
  <2> QED BY <2>4 DEF CountInv
<1>5. ASSUME NEW s \in Submitters, SerialCell(s) PROVE CountInv'
  <2>1. Current(s) \in Oom BY <1>5, SerialGrid DEF SerialCell
  <2>2. /\ UNCHANGED <<jctx, rowsDone, counted, done>>
        /\ ran' = ran \cup {<<Current(s), scell[s][1], scell[s][2]>>}
    BY <1>5 DEF SerialCell, poolVars, jobVars, regVars
  <2>3. ASSUME NEW j \in Slots PROVE CountOf(j)'
    <3>1. For(jctx[j]) => jctx[j] # Current(s) BY <1>0, <2>1 DEF For, JobInv, SlotOf
    <3>2. For(jctx[j]) => \A r : <<jctx[j], r, 0>> \in ran' <=> <<jctx[j], r, 0>> \in ran
      BY <2>2, <3>1
    <3> QED BY <1>1, <2>2, <3>2
  <2> QED BY <2>3 DEF CountInv
\* A unit ran: it had not run before.
<1>6. ASSUME NEW w \in Workers, RunUnit(w) PROVE CountInv'
  <2>0. PICK i, x, q : i = slot[w] /\ x = fctx[w] /\ q = row[w] OBVIOUS
  <2>1. pc[w] = "unit" /\ pc[w] \in ForPcs /\ pc[w] \in LivePcs /\ AtWork(w)
    BY <1>6 DEF RunUnit, ForPcs, LivePcs, AtWork
  <2>2. i \in Slots /\ x = jctx[i] /\ For(x) /\ ~done[i]
    BY <1>0, <2>0, <2>1 DEF IInv, LiveInv, LiveOf, TypeOK
  <2>3. /\ UNCHANGED <<jctx, counted, done>> /\ ran' = ran \cup {<<x, q, 0>>}
        /\ rowsDone' = [rowsDone EXCEPT ![i] = @ + 1]
    BY <1>6, <2>0 DEF RunUnit, regVars
  <2>4. ASSUME NEW j \in Slots, j # i PROVE CountOf(j)'
    <3>1. For(jctx[j]) => jctx[j] # x BY <1>0, <2>2, <2>4 DEF JobInv, OneSlot, For
    <3>2. For(jctx[j]) => \A r : <<jctx[j], r, 0>> \in ran' <=> <<jctx[j], r, 0>> \in ran
      BY <2>3, <3>1
    <3>3. rowsDone'[j] = rowsDone[j] BY <1>0, <2>3, <2>4 DEF TypeOK
    <3> QED BY <1>1, <2>3, <3>2, <3>3
  <2>5. CountOf(i)'
    <3>1. q \in 0 .. NRows[x] - 1 BY <2>0, <2>1, <2>2, LiveGrid
    <3>2. q \notin Finished(x)
      <4>1. <<x, q, 0>> \notin ran BY <2>0, <2>1 DEF IInv, CellInv, CellsOf
      <4> QED BY <4>1 DEF Finished
    <3>3. Finished(x)' = Finished(x) \cup {q} BY <2>3, <3>1 DEF Finished
    <3>4. IsFiniteSet(Finished(x))
      <4>1. NRows[x] \in Nat BY <1>0, <2>2, GridOf DEF For
      <4>2. Finished(x) \in SUBSET ((0 .. NRows[x] - 1) \ {q}) BY <3>2 DEF Finished
      <4> QED BY <3>1, <4>1, <4>2, NotAll
    <3>5. Cardinality(Finished(x)') = Cardinality(Finished(x)) + 1
      BY <3>2, <3>3, <3>4, FS_AddElement
    <3>6. rowsDone[i] = Cardinality(Finished(x)) BY <1>0, <2>2 DEF CountOf
    <3>7. rowsDone'[i] = rowsDone[i] + 1 BY <1>0, <2>2, <2>3 DEF TypeOK
    <3>8. ~Wave(jctx'[i]) /\ ~done'[i] /\ jctx'[i] = x BY <2>2, <2>3 DEF Wave, For
    <3> QED BY <3>5, <3>6, <3>7, <3>8 DEF CountOf
  <2> QED BY <2>4, <2>5 DEF CountInv
\* A row is counted: it had not been counted before.
<1>7. ASSUME NEW w \in Workers, FastCount(w) \/ FinishRow(w) PROVE CountInv'
  <2>0. PICK i, x, q : i = slot[w] /\ x = jctx[i] /\ q = row[w] OBVIOUS
  <2>1. pc[w] \in RowPcs /\ pc[w] \in LivePcs
    BY <1>7 DEF FastCount, FinishRow, RowPcs, LivePcs
  <2>2. i \in Slots /\ Wave(x) /\ ~done[i] /\ q \in 0 .. NRows[x] - 1
    BY <2>0, <2>1, LiveGrid DEF Wave
  <2>3. /\ UNCHANGED <<jctx, ran>>
        /\ counted' = [counted EXCEPT ![i] = @ \cup {q}]
        /\ rowsDone' = [rowsDone EXCEPT ![i] = @ + 1]
        /\ \/ UNCHANGED done
           \/ done' = [done EXCEPT ![i] = TRUE] /\ rowsDone[i] + 1 = NRows[x]
    BY <1>7, <2>0 DEF FastCount, FinishRow, CompletesJob, regVars
  <2>4. ASSUME NEW j \in Slots, j # i PROVE CountOf(j)'
    <3>1. /\ rowsDone'[j] = rowsDone[j] /\ counted'[j] = counted[j] /\ done'[j] = done[j]
      BY <1>0, <2>3, <2>4 DEF TypeOK
    <3> QED BY <1>1, <2>3, <3>1
  <2>5. CountOf(i)'
    <3>1. q \notin counted[i]
      <4>1. Rows(w) \cap counted[i] = {} /\ q \in Rows(w)
        BY <2>0, <2>1 DEF IInv, CellInv, CellsOf, Rows
      <4> QED BY <4>1
    <3>2. IsFiniteSet(counted[i])
      <4>1. MaxRows \in Nat BY PoolAssumption
      <4>2. counted[i] \in SUBSET (0 .. MaxRows - 1) BY <1>0, <2>2 DEF TypeOK, RowIdx
      <4>3. IsFiniteSet(0 .. MaxRows - 1) BY <4>1, FS_Interval
      <4> QED BY <4>2, <4>3, FS_Subset
    <3>3. counted'[i] = counted[i] \cup {q} BY <1>0, <2>2, <2>3 DEF TypeOK
    <3>4. Cardinality(counted'[i]) = Cardinality(counted[i]) + 1
      BY <3>1, <3>2, <3>3, FS_AddElement
    <3>5. rowsDone[i] = Cardinality(counted[i]) BY <1>0, <2>0, <2>2 DEF CountOf
    <3>6. rowsDone'[i] = rowsDone[i] + 1 BY <1>0, <2>2, <2>3 DEF TypeOK
    <3>7. done'[i] => rowsDone'[i] = NRows[x]
      BY <2>2, <2>3, <3>6
    <3>8. ~For(jctx'[i]) /\ jctx'[i] = x BY <2>0, <2>2, <2>3 DEF Wave, For
    <3> QED BY <3>4, <3>5, <3>6, <3>7, <3>8 DEF CountOf
  <2> QED BY <2>4, <2>5 DEF CountInv
<1>8. ASSUME NEW w \in Workers, FinishFor(w) PROVE CountInv'
  <2>1. /\ UNCHANGED <<jctx, rowsDone, counted, ran>>
        /\ \/ UNCHANGED done
           \/ done' = [done EXCEPT ![slot[w]] = TRUE] /\ rowsDone[slot[w]] = NRows[jctx[slot[w]]]
    BY <1>8 DEF FinishFor, regVars
  <2>2. ASSUME NEW j \in Slots PROVE done'[j] => done[j] \/ rowsDone[j] = NRows[jctx[j]]
    BY <1>0, <2>1 DEF TypeOK
  <2>3. \A j \in Slots : CountOf(j)' BY <1>1, <2>1, <2>2
  <2> QED BY <2>3 DEF CountInv
<1>9. ASSUME NEW s \in Submitters, QuietCall(s) \/ Join(s) PROVE CountInv'
  BY <1>2, <1>9, QuietCallIs DEF Join, poolVars, jobVars, regVars
<1>10. External \/ UNCHANGED vars => CountInv'
  BY <1>2, ExternalIs DEF vars, poolVars, jobVars, regVars
<1>11. ASSUME NEW s \in Submitters, Register(s) PROVE CountInv'
  <2>1. PICK f \in Slots, x \in Ctxs :
          /\ ~Taken(x) /\ ~Serial(x) /\ Kind[x] \in {"wavefront", "for"}
          /\ done' = [done EXCEPT ![f] = FALSE]
          /\ jctx' = [jctx EXCEPT ![f] = x]
          /\ rowsDone' = [rowsDone EXCEPT ![f] = 0]
          /\ \/ /\ Kind[x] = "wavefront"
                /\ counted' = [counted EXCEPT ![f] = {}]
             \/ Kind[x] # "wavefront" /\ UNCHANGED counted
          /\ ran' = ran
    BY ZenonT(40), <1>11, RegisterIs
  <2>2. ASSUME NEW j \in Slots, j # f PROVE CountOf(j)'
    <3>1. /\ jctx'[j] = jctx[j] /\ rowsDone'[j] = rowsDone[j] /\ done'[j] = done[j]
          /\ counted'[j] = counted[j]
      BY <1>0, <2>1, <2>2 DEF TypeOK
    <3> QED BY <1>1, <2>1, <3>1
  <2>3. CountOf(f)'
    <3>1. jctx'[f] = x /\ rowsDone'[f] = 0 /\ ~done'[f] BY <1>0, <2>1 DEF TypeOK
    <3>2. Finished(x)' = {}
      <4>1. SUFFICES ASSUME NEW r, <<x, r, 0>> \in ran PROVE FALSE BY <2>1 DEF Finished
      <4>2. Taken(<<x, r, 0>>[1]) \/ Serial(<<x, r, 0>>[1]) BY <4>1 DEF IInv, TakenInv
      <4>3. <<x, r, 0>>[1] = x OBVIOUS
      <4> QED BY <2>1, <4>2, <4>3
    <3>3. Kind[x] = "wavefront" => counted'[f] = {} BY <1>0, <2>1 DEF TypeOK
    <3>4. Cardinality({}) = 0 BY FS_EmptySet
    <3> QED BY <3>1, <3>2, <3>3, <3>4 DEF CountOf, Wave
  <2> QED BY <2>2, <2>3 DEF CountInv
<1> QED BY <1>3, <1>4, <1>5, <1>6, <1>7, <1>8, <1>9, <1>10, <1>11, Steps

-----------------------------------------------------------------------------
(* Which grids have been taken up. *)

LEMMA BegunCall ==
    ASSUME TypeOK, SubInv, NEW s \in Submitters, NEW n \in 1 .. callNo[s]
    PROVE  /\ n \in DOMAIN Calls[s] /\ Calls[s][n] \in Seq(Ctxs)
           /\ \A i \in DOMAIN Calls[s][n] : i \in Nat
<1>1. callNo[s] \in Nat BY DEF TypeOK
<1>2. callNo[s] > 0 BY <1>1
<1>3. callNo[s] \in 1 .. Len(Calls[s]) BY <1>2, CallIn
<1>4. Calls[s] \in Seq(Seq(Ctxs) \ {<<>>}) BY PoolAssumption
<1>5. n \in 1 .. Len(Calls[s]) BY <1>1, <1>3, <1>4
<1>6. Calls[s][n] \in Seq(Ctxs) BY <1>4, <1>5
<1> QED BY <1>4, <1>5, <1>6

\* A grid taken up stays so: positions only grow within a call.
LEMMA TakenGrows ==
    ASSUME TypeOK, SubInv, NEW x, Taken(x),
           \A s \in Submitters : \/ callNo'[s] = callNo[s] /\ pos'[s] \in {pos[s], pos[s] + 1}
                                 \/ callNo'[s] = callNo[s] + 1
    PROVE  Taken(x)'
<1>1. PICK s \in Submitters : \E n \in 1 .. callNo[s] : \E i \in DOMAIN Calls[s][n] :
        /\ Calls[s][n][i] = x
        /\ n < callNo[s] \/ i <= pos[s]
  BY DEF Taken
<1>2. PICK n \in 1 .. callNo[s] : \E i \in DOMAIN Calls[s][n] :
        /\ Calls[s][n][i] = x
        /\ n < callNo[s] \/ i <= pos[s]
  BY <1>1
<1>3. PICK i \in DOMAIN Calls[s][n] :
        /\ Calls[s][n][i] = x
        /\ n < callNo[s] \/ i <= pos[s]
  BY <1>2
<1>4. callNo[s] \in Nat /\ pos[s] \in Nat /\ i \in Nat BY BegunCall DEF TypeOK
<1>5. n \in Nat /\ n <= callNo[s] BY <1>4
<1>6. \/ callNo'[s] = callNo[s] /\ pos'[s] \in {pos[s], pos[s] + 1}
      \/ callNo'[s] = callNo[s] + 1
  OBVIOUS
<1>7. n \in 1 .. callNo'[s] BY <1>4, <1>6
<1>8. n < callNo'[s] \/ i <= pos'[s] BY <1>3, <1>4, <1>5, <1>6
<1> QED BY <1>3, <1>7, <1>8 DEF Taken

\* The grid a submitter steps past is taken up.
LEMMA NowTaken ==
    ASSUME TypeOK, SubInv, NEW s \in Submitters, spc[s] # "idle", pos[s] # Len(Call(s)),
           callNo'[s] = callNo[s], pos'[s] = pos[s] + 1,
           NEW x, x = Current(s)
    PROVE  Taken(x)'
<1>1. /\ callNo[s] \in 1 .. Len(Calls[s]) /\ pos[s] + 1 \in DOMAIN Call(s)
      /\ Current(s) = Call(s)[pos[s] + 1]
  BY CurrentIn
<1>2. PICK n \in 1 .. callNo'[s] : n = callNo[s]
  <2>1. callNo[s] \in Nat BY DEF TypeOK
  <2>2. callNo[s] \in 1 .. callNo[s] BY <1>1, <2>1
  <2> QED BY <2>2
<1>3. PICK i \in DOMAIN Calls[s][n] : i = pos[s] + 1 BY <1>1, <1>2 DEF Call
<1>4. Calls[s][n][i] = x BY <1>1, <1>2, <1>3 DEF Call
<1>5. i <= pos'[s] BY <1>3 DEF TypeOK
<1> QED BY <1>4, <1>5 DEF Taken

LEMMA TakenStep == IInv /\ [Next]_vars => TakenInv'
<1> SUFFICES ASSUME IInv, [Next]_vars PROVE TakenInv' OBVIOUS
<1>0. TypeOK /\ JobInv /\ SubInv /\ TakenInv BY DEF IInv
<1> DEFINE Placed(x) == Taken(x) \/ Serial(x)
\* The grids in the table and in ran are old ones, and those stay placed.
<1>1. ASSUME UNCHANGED jctx,
             \A s \in Submitters : \/ callNo'[s] = callNo[s] /\ pos'[s] \in {pos[s], pos[s] + 1}
                                   \/ callNo'[s] = callNo[s] + 1,
             \A x : Serial(x) => Placed(x)',
             \A k \in ran' : k \in ran \/ Placed(k[1])'
      PROVE  TakenInv'
  <2>1. \A x : Taken(x) => Taken(x)' BY <1>0, <1>1, TakenGrows
  <2>2. ASSUME NEW j \in Slots, jctx'[j] # None PROVE Taken(jctx[j])'
    <3>1. PICK y : y = jctx'[j] OBVIOUS
    <3>2. Taken(y) BY <1>0, <1>1, <2>2, <3>1 DEF TakenInv
    <3>3. Taken(y)' BY <2>1, <3>2
    <3> QED BY <3>1, <3>3
  <2>3. \A k \in ran' : Placed(k[1])' BY <1>0, <1>1, <2>1 DEF TakenInv
  <2> QED BY <2>2, <2>3 DEF TakenInv
<1>2. ASSUME UNCHANGED <<callNo, pos>>, \A s \in Submitters : spc[s] = "serial" => spc'[s] = "serial"
      PROVE  \A x : Serial(x) => Serial(x)'
  BY <1>2 DEF Serial, Current, Call
<1>3. ASSUME NEW w \in Workers,
             \/ QuietWork(w) \/ ClaimUnit(w) \/ ClaimRow(w) \/ RunCell(w) \/ FastClaim(w)
             \/ FastCount(w) \/ FinishRow(w) \/ RunUnit(w) \/ NextUnit(w) \/ FinishFor(w)
      PROVE  TakenInv'
  <2>1. UNCHANGED <<callNo, pos>> BY <1>3, WorkOnCalls DEF passVars
  <2>2. UNCHANGED jctx
    BY <1>3, QuietWorkIs DEF jobVars, regVars, ClaimUnit, ClaimRow, RunCell, FastClaim, FastCount,
       FinishRow, RunUnit, NextUnit, FinishFor
  <2>3. \A s \in Submitters : spc[s] = "serial" => spc'[s] = "serial"
    BY <1>3, WorkOnCalls DEF SignalDone
  <2>4. \A x : Serial(x) => Serial(x)' BY <1>2, <2>1, <2>3
  <2>5. \A x : Taken(x) => Taken(x)' BY <2>1 DEF Taken
  <2>6. ASSUME NEW k \in ran', k \notin ran PROVE Taken(k[1])
    <3>1. CASE RunCell(w)
      <4>1. pc[w] \in LivePcs BY <3>1 DEF RunCell, LivePcs, RowPcs
      <4>2. slot[w] \in Slots /\ jctx[slot[w]] # None BY <4>1, LiveGrid
      <4>3. k[1] = jctx[slot[w]] BY <2>6, <3>1 DEF RunCell
      <4> QED BY <1>0, <4>2, <4>3 DEF TakenInv
    <3>2. CASE RunUnit(w)
      <4>1. pc[w] \in ForPcs /\ AtWork(w) BY <3>2 DEF RunUnit, ForPcs, AtWork
      <4>2. slot[w] \in Slots /\ jctx[slot[w]] = fctx[w] /\ fctx[w] # None
        BY <1>0, <4>1 DEF IInv, LiveInv, LiveOf, TypeOK, For
      <4>3. k[1] = fctx[w] BY <2>6, <3>2 DEF RunUnit
      <4> QED BY <1>0, <4>2, <4>3 DEF TakenInv
    <3>3. CASE \/ QuietWork(w) \/ ClaimUnit(w) \/ ClaimRow(w) \/ FastClaim(w)
               \/ FastCount(w) \/ FinishRow(w) \/ NextUnit(w) \/ FinishFor(w)
      <4>1. ran' = ran
        BY <3>3, QuietWorkIs DEF ClaimUnit, ClaimRow, FastClaim, FastCount, FinishRow, NextUnit, FinishFor
      <4> QED BY <2>6, <4>1
    <3> QED BY <1>3, <3>1, <3>2, <3>3
  <2>7. \A k \in ran' : k \in ran \/ Placed(k[1])' BY <2>5, <2>6
  <2>8. \A s \in Submitters : callNo'[s] = callNo[s] /\ pos'[s] \in {pos[s], pos[s] + 1} BY <2>1
  <2> QED BY <1>1, <2>2, <2>4, <2>7, <2>8
<1>4. ASSUME NEW s \in Submitters,
             \/ SkipEmpty(s) \/ TableFull(s) \/ RegisterOom(s) \/ EndPass(s) \/ JoinSleep(s)
             \/ PassJoined(s) \/ Join(s) \/ BeginCall(s)
      PROVE  TakenInv'
  <2>1. UNCHANGED <<jctx, ran>>
    BY <1>4, QuietCallIs DEF QuietCall, Join, poolVars, jobVars, regVars
  <2>2. \A t \in Submitters : spc[t] = "serial" => spc'[t] = "serial"
    BY <1>0, <1>4 DEF SkipEmpty, TableFull, RegisterOom, EndPass, JoinSleep, PassJoined, Join,
       BeginCall, SGoTo, TypeOK, CanRegister, SlotWaiters
  <2>3. \A t \in Submitters : \/ callNo'[t] = callNo[t] /\ pos'[t] \in {pos[t], pos[t] + 1}
                              \/ callNo'[t] = callNo[t] + 1
    BY SMTT(40), <1>0, <1>4 DEF SkipEmpty, TableFull, RegisterOom, EndPass, JoinSleep, PassJoined, Join,
       BeginCall, Consume, TypeOK, passVars
  <2>4. \A t \in Submitters : spc[t] = "serial" => callNo'[t] = callNo[t] /\ pos'[t] = pos[t]
    BY <1>0, <1>4 DEF SkipEmpty, TableFull, RegisterOom, EndPass, JoinSleep, PassJoined, Join,
       BeginCall, Consume, TypeOK, passVars, CanRegister
  <2>5. \A x : Serial(x) => Serial(x)' BY <2>2, <2>4 DEF Serial, Current, Call
  <2> QED BY <1>1, <2>1, <2>3, <2>5
<1>5. ASSUME NEW s \in Submitters, Register(s) PROVE TakenInv'
  <2>1. spc[s] = "register" /\ pos[s] # Len(Call(s)) BY <1>5 DEF Register, CanRegister, PassFull
  <2>2. PICK f \in Slots, x \in Ctxs :
          /\ x = Current(s) /\ jctx' = [jctx EXCEPT ![f] = x]
          /\ pos' = [pos EXCEPT ![s] = @ + 1] /\ UNCHANGED <<spc, callNo, ran>>
    BY <1>5, RegisterIs
  <2>3. pos'[s] = pos[s] + 1 /\ \A t \in Submitters \ {s} : pos'[t] = pos[t]
    BY <1>0, <2>2 DEF TypeOK
  <2>4. \A y : Taken(y) => Taken(y)' BY <1>0, <2>2, <2>3, TakenGrows
  <2>5. \A y : Serial(y) => Serial(y)'
    <3>1. \A t \in Submitters : spc[t] = "serial" => t # s /\ Current(t)' = Current(t)
      BY <2>1, <2>2, <2>3 DEF Current, Call
    <3> QED BY <2>2, <3>1 DEF Serial
  <2>6. Taken(x)' BY <1>0, <2>1, <2>2, <2>3, NowTaken
  <2>7. \A j \in Slots : jctx'[j] = jctx[j] \/ jctx'[j] = x BY <1>0, <2>2 DEF TypeOK
  <2>8. ASSUME NEW j \in Slots, jctx'[j] # None PROVE Taken(jctx[j])'
    <3>1. PICK y : y = jctx'[j] OBVIOUS
    <3>2. y # None => (y = jctx[j] /\ Taken(y)) \/ y = x BY <1>0, <2>7, <3>1 DEF TakenInv
    <3>3. Taken(y)' BY <2>4, <2>6, <2>8, <3>1, <3>2
    <3> QED BY <3>1, <3>3
  <2>9. \A k \in ran' : Placed(k[1])' BY <1>0, <2>2, <2>4, <2>5 DEF TakenInv
  <2> QED BY <2>8, <2>9 DEF TakenInv
<1>6. ASSUME NEW s \in Submitters, SerialCell(s) PROVE TakenInv'
  <2>1. spc[s] = "serial" BY <1>6 DEF SerialCell
  <2>2. PICK x : x = Current(s) OBVIOUS
  <2>3. \A k \in ran' : k \in ran \/ k[1] = x BY <1>6, <2>2 DEF SerialCell
  <2>4. pos[s] # Len(Call(s)) /\ pos[s] \in Nat
    <3>1. pos[s] < Len(Call(s)) BY <1>0, <2>1 DEF SubInv, CallOf
    <3> QED BY <1>0, <3>1 DEF TypeOK
  <2>5. UNCHANGED <<jctx, callNo>>
    BY <1>6 DEF SerialCell, poolVars, jobVars, regVars
  <2>6. \/ UNCHANGED <<spc, pos>>
        \/ pos' = [pos EXCEPT ![s] = @ + 1] /\ spc' = [spc EXCEPT ![s] = "register"]
    BY <1>6 DEF SerialCell, Consume, SGoTo
  <2>7. \A t \in Submitters : callNo'[t] = callNo[t] /\ pos'[t] \in {pos[t], pos[t] + 1}
    BY <1>0, <2>5, <2>6, SMTT(40) DEF TypeOK
  <2>8. \A t \in Submitters \ {s} : spc'[t] = spc[t] /\ Current(t)' = Current(t)
    BY <1>0, <2>5, <2>6 DEF TypeOK, Current, Call
  <2>9. Placed(x)'
    <3>1. CASE UNCHANGED <<spc, pos>>
      <4>1. spc'[s] = "serial" /\ Current(s)' = x
        BY <2>1, <2>2, <2>5, <3>1 DEF Current, Call
      <4> QED BY <4>1 DEF Serial
    <3>2. CASE pos' = [pos EXCEPT ![s] = @ + 1]
      <4>1. pos'[s] = pos[s] + 1 BY <1>0, <3>2 DEF TypeOK
      <4>2. Taken(x)' BY <1>0, <2>1, <2>2, <2>4, <2>5, <4>1, NowTaken
      <4> QED BY <4>2
    <3> QED BY <2>6, <3>1, <3>2
  <2>10. ASSUME NEW y, Serial(y) PROVE Placed(y)'
    <3>1. PICK t \in Submitters : spc[t] = "serial" /\ Current(t) = y BY <2>10 DEF Serial
    <3>2. CASE t = s BY <2>2, <2>9, <3>1, <3>2
    <3>3. CASE t # s
      <4>1. spc'[t] = "serial" /\ Current(t)' = y BY <2>8, <3>1, <3>3
      <4> QED BY <4>1 DEF Serial
    <3> QED BY <3>2, <3>3
  <2>11. \A k \in ran' : k \in ran \/ Placed(k[1])' BY <2>3, <2>9
  <2> HIDE DEF Placed
  <2> QED BY <1>1, <2>5, <2>7, <2>10, <2>11
<1>7. CASE External \/ UNCHANGED vars
  <2>1. UNCHANGED <<jctx, ran, callNo, pos, spc>>
    BY <1>7, ExternalIs DEF vars, poolVars, jobVars, regVars, envVars, subVars, passVars
  <2>2. \A s \in Submitters : callNo'[s] = callNo[s] /\ pos'[s] \in {pos[s], pos[s] + 1} BY <2>1
  <2>3. \A x : Serial(x) => Serial(x)' BY <1>2, <2>1
  <2> QED BY <1>1, <2>1, <2>2, <2>3
<1> QED BY <1>3, <1>4, <1>5, <1>6, <1>7, Steps DEF QuietCall

-----------------------------------------------------------------------------
(* The submitters. *)

\* A submitter that stays in its call, at most woken by another thread.
LEMMA CallKept ==
    ASSUME NEW t \in Submitters, CallOf(t),
           callNo'[t] = callNo[t], pos'[t] = pos[t], scell'[t] = scell[t], held'[t] = held[t],
           \/ spc'[t] = spc[t]
           \/ spc[t] = "joinwait" /\ spc'[t] = "join"
           \/ spc[t] = "slotwait" /\ spc'[t] = "register"
    PROVE  CallOf(t)'
<1>1. Call(t)' = Call(t) /\ Current(t)' = Current(t) BY DEF Call, Current
<1> QED BY <1>1 DEF CallOf

LEMMA CallStep == IInv /\ [Next]_vars => \A t \in Submitters : CallOf(t)'
<1> SUFFICES ASSUME IInv, [Next]_vars PROVE \A t \in Submitters : CallOf(t)' OBVIOUS
<1>0. TypeOK /\ SubInv /\ \A t \in Submitters : CallOf(t) BY DEF IInv, SubInv
<1>1. /\ spc \in [Submitters -> SubmitterPcs] /\ held \in [Submitters -> Seq(Slots)]
      /\ callNo \in [Submitters -> Nat] /\ pos \in [Submitters -> Nat]
      /\ scell \in [Submitters -> Nat \X Nat]
  BY <1>0 DEF TypeOK
<1>2. ASSUME NEW w \in Workers,
             \/ QuietWork(w) \/ ClaimUnit(w) \/ ClaimRow(w) \/ RunCell(w) \/ FastClaim(w)
             \/ FastCount(w) \/ FinishRow(w) \/ RunUnit(w) \/ NextUnit(w) \/ FinishFor(w)
      PROVE  \A t \in Submitters : CallOf(t)'
  <2>1. UNCHANGED passVars BY <1>2, WorkOnCalls
  <2>2. UNCHANGED spc \/ \E j \in {slot[w]} : SignalDone(j) BY <1>2, WorkOnCalls
  <2>3. \A t \in Submitters : spc'[t] = spc[t] \/ (spc[t] = "joinwait" /\ spc'[t] = "join")
    BY <2>2 DEF SignalDone
  <2> QED BY <1>0, <2>1, <2>3, CallKept DEF passVars
\* The others, in a step of submitter s.
<1>3. ASSUME NEW s \in Submitters, NEW t \in Submitters \ {s},
             QuietCall(s) \/ Register(s) \/ SerialCell(s) \/ Join(s)
      PROVE  CallOf(t)'
  <2>1. CASE BeginCall(s) \/ SkipEmpty(s) \/ PassJoined(s)
    BY <1>0, <1>1, <1>3, <2>1, CallKept DEF BeginCall, SkipEmpty, PassJoined, Consume, SGoTo
  <2>2. CASE TableFull(s) \/ EndPass(s) \/ JoinSleep(s) \/ RegisterOom(s)
    BY <1>0, <1>1, <1>3, <2>2, CallKept DEF TableFull, EndPass, JoinSleep, RegisterOom, SGoTo, passVars
  <2>3. CASE Register(s)
    <3>1. PICK f \in Slots : /\ held' = [held EXCEPT ![s] = Append(@, f)]
                             /\ pos' = [pos EXCEPT ![s] = @ + 1] /\ UNCHANGED <<spc, callNo, scell>>
      BY <2>3, RegisterIs
    <3> QED BY <1>0, <1>1, <1>3, <3>1, CallKept
  <2>4. CASE SerialCell(s)
    <3>1. /\ UNCHANGED <<callNo, held>> /\ scell'[t] = scell[t]
          /\ UNCHANGED <<spc, pos>> \/ (pos'[t] = pos[t] /\ spc'[t] = spc[t])
      BY <1>1, <1>3, <2>4 DEF SerialCell, SGoTo, Consume
    <3> QED BY <1>0, <3>1, CallKept
  <2>5. CASE Join(s)
    <3>1. /\ UNCHANGED <<callNo, pos, scell>> /\ held'[t] = held[t]
          /\ spc'[t] = spc[t] \/ (spc[t] = "slotwait" /\ spc'[t] = "register")
      BY <1>1, <1>3, <2>5 DEF Join, SlotWaiters, SGoTo
    <3> QED BY <1>0, <3>1, CallKept
  <2> QED BY <1>3, <2>1, <2>2, <2>3, <2>4, <2>5 DEF QuietCall
\* The submitter itself.
<1>4. ASSUME NEW s \in Submitters, BeginCall(s) PROVE CallOf(s)'
  <2>1. /\ spc'[s] = "register" /\ pos'[s] = 0 /\ callNo'[s] = callNo[s] + 1
        /\ callNo[s] < Len(Calls[s])
    BY <1>1, <1>4 DEF BeginCall, SGoTo
  <2>2. Calls[s] \in Seq(Seq(Ctxs) \ {<<>>}) BY PoolAssumption
  <2>3. callNo'[s] \in 1 .. Len(Calls[s])
    <3>1. Len(Calls[s]) \in Nat /\ callNo[s] \in Nat BY <1>1, <2>2
    <3> QED BY <2>1, <3>1
  <2>4. Len(Call(s)') \in Nat
    <3>1. Calls[s][callNo'[s]] \in Seq(Ctxs) BY <2>2, <2>3
    <3> QED BY <3>1 DEF Call
  <2>5. callNo'[s] <= Len(Calls[s]) /\ callNo'[s] > 0 BY <2>2, <2>3
  <2>6. 0 <= Len(Call(s)') BY <2>4
  <2> QED BY <2>1, <2>5, <2>6 DEF CallOf
<1>5. ASSUME NEW s \in Submitters, spc[s] # "idle", pos[s] # Len(Call(s))
      PROVE  /\ callNo[s] \in 1 .. Len(Calls[s]) /\ Len(Call(s)) \in Nat
             /\ pos[s] < Len(Call(s)) /\ Current(s) \in Ctxs
  <2>1. callNo[s] > 0 BY <1>0, <1>5 DEF CallOf
  <2>2. Len(Call(s)) \in Nat /\ pos[s] \in 0 .. Len(Call(s)) BY <1>0, <2>1, CallIn
  <2>3. callNo[s] \in 1 .. Len(Calls[s]) /\ Current(s) \in Ctxs BY <1>0, <1>5, CurrentIn
  <2> QED BY <1>5, <2>2, <2>3
\* Past one more grid.
<1>6. ASSUME NEW s \in Submitters, spc[s] # "idle", pos[s] # Len(Call(s)),
             callNo'[s] = callNo[s], pos'[s] = pos[s] + 1, spc'[s] = "register"
      PROVE  CallOf(s)'
  <2>1. Call(s)' = Call(s) BY <1>6 DEF Call
  <2>2. /\ callNo[s] \in 1 .. Len(Calls[s]) /\ Len(Call(s)) \in Nat
        /\ pos[s] < Len(Call(s))
    BY <1>5, <1>6
  <2>3. callNo[s] <= Len(Calls[s]) /\ callNo[s] > 0 BY <1>0, <1>6 DEF CallOf
  <2>4. pos[s] + 1 <= Len(Call(s)) BY <1>1, <2>2
  <2> QED BY <1>6, <2>1, <2>3, <2>4 DEF CallOf
<1>7. ASSUME NEW s \in Submitters, SkipEmpty(s) \/ Register(s) PROVE CallOf(s)'
  <2>1. spc[s] = "register" /\ pos[s] # Len(Call(s))
    BY <1>7 DEF SkipEmpty, Register, CanRegister, PassFull
  <2>2. pos' = [pos EXCEPT ![s] = @ + 1] /\ UNCHANGED <<callNo, spc>>
    BY <1>7 DEF SkipEmpty, Register, Consume
  <2> QED BY <1>1, <1>6, <2>1, <2>2
<1>8. ASSUME NEW s \in Submitters, TableFull(s) \/ RegisterOom(s) PROVE CallOf(s)'
  <2>1. /\ spc[s] = "register" /\ pos[s] # Len(Call(s)) /\ NRows[Current(s)] > 0
        /\ UNCHANGED <<callNo, pos, held>>
    BY <1>8 DEF TableFull, RegisterOom, CanRegister, PassFull, passVars
  <2>2. /\ pos[s] < Len(Call(s)) /\ Current(s) \in Ctxs
    BY <1>5, <2>1
  <2>3. Call(s)' = Call(s) /\ Current(s)' = Current(s) BY <2>1 DEF Call, Current
  <2>4. callNo[s] <= Len(Calls[s]) /\ callNo[s] > 0 /\ (pos[s] <= Len(Call(s)))
    BY <1>0, <2>1 DEF CallOf
  <2>5. CASE TableFull(s)
    <3>1. spc'[s] \in {"slotwait", "join"} BY <1>1, <2>5 DEF TableFull, SGoTo, OnFull
    <3> QED BY <2>1, <2>2, <2>3, <2>4, <3>1 DEF CallOf
  <2>6. CASE RegisterOom(s)
    <3>1. spc'[s] = "serial" /\ scell'[s] = <<0, 0>> /\ Current(s) \in Oom
      BY <1>1, <2>6 DEF RegisterOom, SGoTo
    <3>2. NCols[Current(s)] > 0 BY <2>2, PoolAssumption
    <3>3. scell'[s][1] = 0 /\ scell'[s][2] = 0 BY <3>1
    <3> QED BY <2>1, <2>2, <2>3, <2>4, <3>1, <3>2, <3>3 DEF CallOf
  <2> QED BY <1>8, <2>5, <2>6
<1>9. ASSUME NEW s \in Submitters, EndPass(s) \/ JoinSleep(s) PROVE CallOf(s)'
  <2>1. /\ spc[s] # "idle" /\ UNCHANGED <<callNo, pos, held>>
        /\ \/ spc'[s] = "join"
           \/ spc'[s] = "joinwait" /\ held[s] # <<>>
    BY <1>1, <1>9 DEF EndPass, JoinSleep, SGoTo, passVars
  <2>2. Call(s)' = Call(s) BY <2>1 DEF Call
  <2> QED BY <1>0, <2>1, <2>2 DEF CallOf
<1>10. ASSUME NEW s \in Submitters, PassJoined(s) PROVE CallOf(s)'
  <2>1. /\ spc[s] # "idle" /\ held[s] = <<>> /\ UNCHANGED <<callNo, pos, held>>
        /\ spc'[s] \in {"register", "idle"}
    BY <1>1, <1>10 DEF PassJoined, SGoTo
  <2>2. Call(s)' = Call(s) BY <2>1 DEF Call
  <2> QED BY <1>0, <2>1, <2>2 DEF CallOf
<1>11. ASSUME NEW s \in Submitters, Join(s) PROVE CallOf(s)'
  <2>1. spc[s] = "join" /\ UNCHANGED <<callNo, pos>> /\ spc'[s] = "join"
    BY <1>1, <1>11 DEF Join, SlotWaiters, SGoTo
  <2>2. Call(s)' = Call(s) BY <2>1 DEF Call
  <2> QED BY <1>0, <2>1, <2>2 DEF CallOf
<1>12. ASSUME NEW s \in Submitters, SerialCell(s) PROVE CallOf(s)'
  <2>1. spc[s] = "serial" BY <1>12 DEF SerialCell
  <2>2. PICK x, r, c : /\ x = Current(s) /\ r = scell[s][1] /\ c = scell[s][2]
                       /\ r \in Nat /\ c \in Nat /\ NRows[x] \in Nat /\ NCols[x] \in Nat \ {0}
                       /\ c < NCols[x] /\ x \in Oom
    <3>1. /\ NRows[Current(s)] \in 1 .. MaxRows /\ NCols[Current(s)] \in Nat \ {0}
          /\ scell[s][1] \in 0 .. NRows[Current(s)] - 1
          /\ scell[s][2] \in 0 .. NCols[Current(s)] - 1 /\ Current(s) \in Oom
      BY <2>1, SerialGrid
    <3>2. MaxRows \in Nat BY PoolAssumption
    <3> QED BY <3>1, <3>2
  <2>3. PICK a : a = IF c + 1 < NCols[x] THEN <<r, c + 1>> ELSE <<r + 1, 0>> OBVIOUS
  <2>4. a[2] < NCols[x] BY <2>2, <2>3
  <2>5. /\ UNCHANGED <<callNo, held>> /\ scell' = [scell EXCEPT ![s] = a]
        /\ \/ UNCHANGED <<spc, pos>> /\ a[1] < NRows[x]
           \/ spc' = [spc EXCEPT ![s] = "register"] /\ pos' = [pos EXCEPT ![s] = @ + 1]
    BY <1>12, <2>2, <2>3 DEF SerialCell, SGoTo, Consume
  <2>6. CASE UNCHANGED <<spc, pos>> /\ a[1] < NRows[x]
    <3>1. Call(s)' = Call(s) /\ Current(s)' = Current(s) BY <2>5, <2>6 DEF Call, Current
    <3>2. scell'[s] = a BY <1>1, <2>5
    <3> QED BY <1>0, <2>1, <2>2, <2>4, <2>5, <2>6, <3>1, <3>2 DEF CallOf
  <2>7. CASE spc' = [spc EXCEPT ![s] = "register"] /\ pos' = [pos EXCEPT ![s] = @ + 1]
    <3>1. spc'[s] = "register" /\ pos'[s] = pos[s] + 1 BY <1>1, <2>7
    <3>2. pos[s] # Len(Call(s))
      <4>1. pos[s] < Len(Call(s)) BY <1>0, <2>1 DEF CallOf
      <4> QED BY <1>1, <4>1
    <3> QED BY <1>6, <2>1, <2>5, <3>1, <3>2
  <2> QED BY <2>5, <2>6, <2>7
<1>13. CASE External \/ UNCHANGED vars
  BY <1>0, <1>13, ExternalIs, CallKept DEF vars, envVars, subVars, passVars
<1> QED BY <1>2, <1>3, <1>4, <1>7, <1>8, <1>9, <1>10, <1>11, <1>12, <1>13, Steps DEF QuietCall

\* The jobs held: their slots, and which slots are live.
JobsHeld == (\A s \in Submitters : HeldOf(s)) /\ UsedHeld

LEMMA HeldKept ==
    ASSUME TypeOK, SubInv, UsedHeld, UNCHANGED <<used, jctx, held>>,
           \A t \in Submitters : held[t] # <<>> =>
              callNo'[t] = callNo[t] /\ pos'[t] \in {pos[t], pos[t] + 1}
    PROVE  JobsHeld'
<1>1. UsedHeld' BY DEF UsedHeld
<1>2. ASSUME NEW t \in Submitters PROVE HeldOf(t)'
  <2>1. HeldOf(t) BY DEF SubInv
  <2>2. ASSUME NEW k \in DOMAIN held[t]
        PROVE  \E i \in 1 .. pos'[t] : jctx[held[t][k]] = Call(t)'[i]
    <3>1. held[t] # <<>> BY DEF TypeOK
    <3>2. Call(t)' = Call(t) BY <3>1 DEF Call
    <3>3. PICK i \in 1 .. pos[t] : jctx[held[t][k]] = Call(t)[i] BY <2>1 DEF HeldOf
    <3>4. pos[t] \in Nat BY DEF TypeOK
    <3>5. i \in 1 .. pos'[t] BY <3>1, <3>4
    <3> QED BY <3>2, <3>3, <3>5
  <2> QED BY <2>1, <2>2 DEF HeldOf
<1> QED BY <1>1, <1>2 DEF JobsHeld

LEMMA HeldStep == IInv /\ [Next]_vars => JobsHeld'
<1> SUFFICES ASSUME IInv, [Next]_vars PROVE JobsHeld' OBVIOUS
<1>0. TypeOK /\ SubInv /\ UsedHeld /\ \A t \in Submitters : HeldOf(t) BY DEF IInv, SubInv
<1>1. /\ held \in [Submitters -> Seq(Slots)] /\ jctx \in [Slots -> Ctxs \cup {None}]
      /\ callNo \in [Submitters -> Nat] /\ pos \in [Submitters -> Nat]
      /\ used \in [Slots -> BOOLEAN]
  BY <1>0 DEF TypeOK
<1>2. ASSUME NEW w \in Workers,
             \/ QuietWork(w) \/ ClaimUnit(w) \/ ClaimRow(w) \/ RunCell(w) \/ FastClaim(w)
             \/ FastCount(w) \/ FinishRow(w) \/ RunUnit(w) \/ NextUnit(w) \/ FinishFor(w)
      PROVE  JobsHeld'
  <2>1. UNCHANGED passVars BY <1>2, WorkOnCalls
  <2>2. UNCHANGED <<used, jctx>>
    BY <1>2, QuietWorkIs DEF jobVars, regVars, ClaimUnit, ClaimRow, RunCell, FastClaim, FastCount,
       FinishRow, RunUnit, NextUnit, FinishFor
  <2> QED BY <1>0, <2>1, <2>2, HeldKept DEF passVars
<1>3. ASSUME NEW s \in Submitters, QuietCall(s) PROVE JobsHeld'
  <2>1. UNCHANGED <<used, jctx>> BY <1>3, QuietCallIs DEF poolVars, jobVars, regVars
  <2>2. /\ UNCHANGED held
        /\ \A t \in Submitters : held[t] # <<>> =>
              callNo'[t] = callNo[t] /\ pos'[t] \in {pos[t], pos[t] + 1}
    <3>1. CASE BeginCall(s)
      <4>1. held[s] = <<>> BY <1>0, <3>1 DEF BeginCall, SubInv, CallOf
      <4> QED BY <1>1, <3>1, <4>1 DEF BeginCall
    <3>2. CASE SkipEmpty(s) BY <1>1, <3>2 DEF SkipEmpty, Consume
    <3>3. CASE \/ TableFull(s) \/ RegisterOom(s) \/ EndPass(s) \/ JoinSleep(s) \/ PassJoined(s)
      BY <3>3 DEF TableFull, RegisterOom, EndPass, JoinSleep, PassJoined, passVars
    <3> QED BY <1>3, <3>1, <3>2, <3>3 DEF QuietCall
  <2> QED BY <1>0, <2>1, <2>2, HeldKept
<1>4. ASSUME NEW s \in Submitters, SerialCell(s) PROVE JobsHeld'
  <2>1. UNCHANGED <<used, jctx, held, callNo>>
    BY <1>4 DEF SerialCell, poolVars, jobVars, regVars
  <2>2. \A t \in Submitters : pos'[t] \in {pos[t], pos[t] + 1}
    BY <1>1, <1>4 DEF SerialCell, Consume
  <2> QED BY <1>0, <2>1, <2>2, HeldKept
<1>5. ASSUME NEW s \in Submitters, Register(s) PROVE JobsHeld'
  <2>1. spc[s] # "idle" /\ pos[s] # Len(Call(s)) BY <1>5 DEF Register, CanRegister, PassFull
  <2>2. PICK f \in Slots, x \in Ctxs :
          /\ ~used[f] /\ x = Current(s)
          /\ used' = [used EXCEPT ![f] = TRUE] /\ jctx' = [jctx EXCEPT ![f] = x]
          /\ held' = [held EXCEPT ![s] = Append(@, f)]
          /\ pos' = [pos EXCEPT ![s] = @ + 1] /\ UNCHANGED callNo
    BY <1>5, RegisterIs
  <2>3. PICK n \in Nat : n = Len(held[s]) /\ held[s] \in Seq(Slots) BY <1>1
  <2>4. /\ DOMAIN held'[s] = 1 .. n + 1 /\ DOMAIN held[s] = 1 .. n
        /\ held'[s][n + 1] = f /\ \A k \in 1 .. n : held'[s][k] = held[s][k]
        /\ \A t \in Submitters \ {s} : held'[t] = held[t]
    BY <1>1, <2>2, <2>3
  \* Nobody held the free slot.
  <2>5. \A t \in Submitters : \A k \in DOMAIN held[t] : held[t][k] # f
    BY <1>0, <2>2 DEF HeldOf
  <2>6. /\ \A t \in Submitters : \A k \in DOMAIN held'[t] :
             \/ k \in DOMAIN held[t] /\ held'[t][k] = held[t][k]
             \/ t = s /\ k = n + 1 /\ held'[t][k] = f
        /\ \A t \in Submitters : \A k \in DOMAIN held[t] :
             k \in DOMAIN held'[t] /\ held'[t][k] = held[t][k]
        /\ n + 1 \in DOMAIN held'[s]
    <3>1. \A k \in 1 .. n + 1 : k \in 1 .. n \/ k = n + 1 BY <2>3
    <3>2. \A k \in 1 .. n : k \in 1 .. n + 1 BY <2>3
    <3>3. n + 1 \in 1 .. n + 1 BY <2>3
    <3> QED BY <2>4, <3>1, <3>2, <3>3
  <2>7. ASSUME NEW t \in Submitters, NEW k \in DOMAIN held'[t]
        PROVE  /\ used'[held'[t][k]]
               /\ \E i \in 1 .. pos'[t] : jctx'[held'[t][k]] = Call(t)'[i]
    <3>1. Call(t)' = Call(t) BY <2>2 DEF Call
    <3>2. CASE k \in DOMAIN held[t] /\ held'[t][k] = held[t][k]
      <4>1. held[t][k] \in Slots BY <1>1, <3>2
      <4>2. held[t][k] # f BY <2>5, <3>2
      <4>3. used[held[t][k]] /\ \E i \in 1 .. pos[t] : jctx[held[t][k]] = Call(t)[i]
        BY <1>0, <3>2 DEF HeldOf
      <4>4. pos'[t] \in {pos[t], pos[t] + 1} /\ pos[t] \in Nat BY <1>1, <2>2
      <4>5. \A i \in 1 .. pos[t] : i \in 1 .. pos'[t] BY <4>4
      <4>6. used'[held[t][k]] /\ jctx'[held[t][k]] = jctx[held[t][k]] BY <1>1, <2>2, <4>1, <4>2, <4>3
      <4> QED BY <3>1, <3>2, <4>3, <4>5, <4>6
    <3>3. CASE t = s /\ held'[t][k] = f
      <4>1. Current(s) = Call(s)[pos[s] + 1] BY DEF Current
      <4>2. pos'[s] = pos[s] + 1 /\ pos[s] \in Nat BY <1>1, <2>2
      <4>3. pos[s] + 1 \in 1 .. pos'[s] BY <4>2
      <4>4. used'[f] /\ jctx'[f] = x BY <1>1, <2>2
      <4> QED BY <2>2, <3>1, <3>3, <4>1, <4>3, <4>4
    <3> QED BY <2>6, <3>2, <3>3
  <2>8. ASSUME NEW t \in Submitters, NEW k \in DOMAIN held'[t],
               NEW u \in Submitters, NEW m \in DOMAIN held'[u], held'[u][m] = held'[t][k]
        PROVE  t = u /\ k = m
    BY <1>0, <2>5, <2>6, <2>8 DEF HeldOf
  <2>9. \A t \in Submitters : HeldOf(t)' BY <2>7, <2>8 DEF HeldOf
  <2>10. ASSUME NEW j \in Slots, used'[j]
         PROVE  \E t \in Submitters : \E k \in DOMAIN held'[t] : held'[t][k] = j
    <3>1. CASE j = f BY <2>4, <2>6, <3>1
    <3>2. CASE j # f
      <4>1. used[j] BY <1>1, <2>2, <2>10, <3>2
      <4>2. PICK t \in Submitters : \E k \in DOMAIN held[t] : held[t][k] = j BY <1>0, <4>1 DEF UsedHeld
      <4> QED BY <2>6, <4>2
    <3> QED BY <3>1, <3>2
  <2> QED BY <2>9, <2>10 DEF JobsHeld, UsedHeld
<1>6. ASSUME NEW s \in Submitters, Join(s) PROVE JobsHeld'
  <2>1. held[s] # <<>> /\ UNCHANGED <<jctx, callNo, pos>> BY <1>6 DEF Join
  <2>2. PICK n \in Nat, h \in Slots : n + 1 = Len(held[s]) /\ h = Head(held[s]) /\ h = held[s][1]
    <3>1. held[s] \in Seq(Slots) BY <1>1
    <3>2. Len(held[s]) \in Nat /\ Len(held[s]) # 0 BY <2>1, <3>1, EmptySeq
    <3>3. Len(held[s]) - 1 \in Nat /\ Len(held[s]) - 1 + 1 = Len(held[s]) BY <3>2
    <3>4. Head(held[s]) = held[s][1] /\ held[s][1] \in Slots BY <2>1, <3>1, <3>2
    <3> QED BY <3>3, <3>4
  <2>3. used' = [used EXCEPT ![h] = FALSE] /\ held' = [held EXCEPT ![s] = Tail(@)]
    BY <1>6, <2>2 DEF Join
  <2>4. /\ DOMAIN held'[s] = 1 .. n /\ DOMAIN held[s] = 1 .. n + 1
        /\ \A k \in 1 .. n : held'[s][k] = held[s][k + 1]
        /\ \A t \in Submitters \ {s} : held'[t] = held[t]
    <3>1. held[s] \in Seq(Slots) /\ held'[s] = Tail(held[s]) BY <1>1, <2>3
    <3>2. DOMAIN held[s] = 1 .. n + 1 BY <2>2, <3>1
    <3>3. Len(Tail(held[s])) = n /\ Tail(held[s]) \in Seq(Slots) BY <2>1, <2>2, <3>1
    <3>4. \A k \in 1 .. n : Tail(held[s])[k] = held[s][k + 1] BY <2>1, <2>2, <3>1, <3>3
    <3> QED BY <1>1, <2>3, <3>1, <3>2, <3>3, <3>4
  <2>5. 1 \in DOMAIN held[s] /\ \A k \in 1 .. n : k + 1 \in DOMAIN held[s] /\ k + 1 # 1
    BY <2>4
  <2>6. ASSUME NEW t \in Submitters, NEW k \in DOMAIN held'[t]
        PROVE  \E i \in DOMAIN held[t] :
                 /\ held'[t][k] = held[t][i] /\ ~(t = s /\ i = 1)
                 /\ t = s => i = k + 1
                 /\ t # s => i = k
    <3>1. CASE t = s BY <2>4, <2>5, <3>1
    <3>2. CASE t # s BY <2>4, <3>2
    <3> QED BY <3>1, <3>2
  <2>7. ASSUME NEW t \in Submitters, NEW k \in DOMAIN held'[t]
        PROVE  /\ used'[held'[t][k]]
               /\ \E i \in 1 .. pos'[t] : jctx'[held'[t][k]] = Call(t)'[i]
    <3>1. PICK i \in DOMAIN held[t] : held'[t][k] = held[t][i] /\ ~(t = s /\ i = 1) BY <2>6
    <3>2. held[t][i] # h BY <1>0, <2>2, <2>5, <3>1 DEF HeldOf
    <3>3. held[t][i] \in Slots BY <1>1, <3>1
    <3>4. used[held[t][i]] /\ \E q \in 1 .. pos[t] : jctx[held[t][i]] = Call(t)[q]
      BY <1>0, <3>1 DEF HeldOf
    <3>5. Call(t)' = Call(t) BY <2>1 DEF Call
    <3>6. used'[held[t][i]] BY <1>1, <2>3, <3>2, <3>3, <3>4
    <3> QED BY <2>1, <3>1, <3>4, <3>5, <3>6
  <2>8. ASSUME NEW t \in Submitters, NEW k \in DOMAIN held'[t],
               NEW u \in Submitters, NEW m \in DOMAIN held'[u], held'[u][m] = held'[t][k]
        PROVE  t = u /\ k = m
    <3>1. PICK i \in DOMAIN held[t] : /\ held'[t][k] = held[t][i]
                                      /\ t = s => i = k + 1
                                      /\ t # s => i = k
      BY <2>6
    <3>2. PICK l \in DOMAIN held[u] : /\ held'[u][m] = held[u][l]
                                      /\ u = s => l = m + 1
                                      /\ u # s => l = m
      BY <2>6
    <3>3. t = u /\ i = l
      <4>1. held[u][l] = held[t][i] BY <2>8, <3>1, <3>2
      <4>2. HeldOf(t) BY <1>0
      <4> QED BY <4>1, <4>2 DEF HeldOf
    <3>4. CASE t = s
      <4>1. k \in 1 .. n /\ m \in 1 .. n BY <2>4, <3>3, <3>4
      <4>2. i = k + 1 /\ i = m + 1 BY <3>1, <3>2, <3>3, <3>4
      <4> QED BY <3>3, <4>1, <4>2
    <3>5. CASE t # s BY <3>1, <3>2, <3>3, <3>5
    <3> QED BY <3>4, <3>5
  <2>9. \A t \in Submitters : HeldOf(t)' BY <2>7, <2>8 DEF HeldOf
  <2>10. ASSUME NEW j \in Slots, used'[j]
         PROVE  \E t \in Submitters : \E k \in DOMAIN held'[t] : held'[t][k] = j
    <3>1. used[j] /\ j # h BY <1>1, <2>2, <2>3, <2>10
    <3>2. PICK t \in Submitters : \E k \in DOMAIN held[t] : held[t][k] = j BY <1>0, <3>1 DEF UsedHeld
    <3>3. PICK k \in DOMAIN held[t] : held[t][k] = j BY <3>2
    <3>4. CASE t = s
      <4>1. k \in 1 .. n + 1 /\ k # 1 BY <2>2, <2>4, <3>1, <3>3, <3>4
      <4>2. k - 1 \in 1 .. n /\ k - 1 + 1 = k BY <4>1
      <4>3. k - 1 \in DOMAIN held'[s] /\ held'[s][k - 1] = j BY <2>4, <3>3, <3>4, <4>2
      <4> QED BY <4>3
    <3>5. CASE t # s BY <2>4, <3>3, <3>5
    <3> QED BY <3>4, <3>5
  <2> QED BY <2>9, <2>10 DEF JobsHeld, UsedHeld
<1>7. CASE External \/ UNCHANGED vars
  <2>1. UNCHANGED <<used, jctx, held, callNo, pos>>
    BY <1>7, ExternalIs DEF vars, poolVars, jobVars, regVars, envVars, subVars, passVars
  <2> QED BY <1>0, <2>1, HeldKept
<1> QED BY <1>2, <1>3, <1>4, <1>5, <1>6, <1>7, Steps

LEMMA SubStep == IInv /\ [Next]_vars => SubInv' /\ UsedHeld'
  BY CallStep, HeldStep DEF SubInv, JobsHeld

-----------------------------------------------------------------------------
(* Where a worker is in its row. *)

\* A worker whose row, and whose cell, no one else touches.
LEMMA CellsKept ==
    ASSUME IInv, TypeOK', NEW v \in Workers,
           slot'[v] = slot[v], row'[v] = row[v], col'[v] = col[v], nxt'[v] = nxt[v],
           fctx'[v] = fctx[v],
           pc'[v] = pc[v] \/ (pc[v] = "parked" /\ pc'[v] = "unpark"),
           pc[v] \in LivePcs =>
             /\ jctx'[slot[v]] = jctx[slot[v]]
             /\ \A r \in Rows(v) : progress'[slot[v]][r] = progress[slot[v]][r]
             /\ \A r \in RowIdx : progress'[slot[v]][r] >= progress[slot[v]][r]
             /\ \A r \in Rows(v) : r \in counted'[slot[v]] => r \in counted[slot[v]]
             /\ \A x : /\ For(x) /\ x = CellOf(v)[1] /\ row[v] \in Rows(v)
                      /\ <<x, row[v], 0>> \in ran'
                      => <<x, row[v], 0>> \in ran
    PROVE  CellsOf(v)'
<1>0. TypeOK /\ CellsOf(v) /\ LiveOf(v) BY DEF IInv, CellInv, LiveInv
<1>1. Rows(v)' = Rows(v) BY DEF Rows, RowPcs
<1>2. CASE pc[v] \notin RowPcs \cup {"cascade", "unit"}
  BY <1>2 DEF CellsOf, BeforePcs, AfterPcs, EndPcs, RowPcs
<1>3. CASE pc[v] \in RowPcs \cup {"cascade", "unit"}
  <2>1. pc[v] \in LivePcs BY <1>3 DEF LivePcs
  <2>2. row[v] \in Rows(v) /\ (pc[v] = "fastcount" => nxt[v] \in Rows(v)) BY <1>3 DEF Rows
  <2>3. /\ progress'[slot[v]][row[v]] = progress[slot[v]][row[v]]
        /\ pc[v] = "fastcount" => progress'[slot[v]][nxt[v]] = progress[slot[v]][nxt[v]]
        /\ jctx'[slot[v]] = jctx[slot[v]]
    BY <2>1, <2>2
  <2>4. /\ slot[v] \in Slots /\ NRows[jctx[slot[v]]] \in 1 .. MaxRows
        /\ row[v] \in 0 .. NRows[jctx[slot[v]]] - 1 /\ MaxRows \in Nat
        /\ NCols[jctx[slot[v]]] \in Nat
    BY <1>3, <2>1, LiveGrid, PoolAssumption
  <2>5. pc[v] \in {"delist", "body"} => AboveDone(v)'
    <3>1. SUFFICES ASSUME pc[v] \in {"delist", "body"}, row[v] > 0
                   PROVE  progress'[slot[v]][row[v] - 1] >= Need(jctx[slot[v]], col[v])
      BY <2>3 DEF AboveDone, Need
    <3>2. progress[slot[v]][row[v] - 1] >= Need(jctx[slot[v]], col[v])
      BY <1>0, <3>1 DEF CellsOf, AboveDone
    <3>3. row[v] - 1 \in RowIdx BY <2>4, <3>1 DEF RowIdx
    <3>4. progress'[slot[v]][row[v] - 1] >= progress[slot[v]][row[v] - 1] BY <2>1, <3>3
    <3>5. progress[slot[v]][row[v] - 1] \in Nat BY <1>0, <2>4, <3>3 DEF TypeOK
    <3>6. Need(jctx[slot[v]], col[v]) \in Nat
      <4>1. col[v] \in Nat BY <1>0 DEF TypeOK
      <4> QED BY <2>4, <4>1 DEF Need
    <3>7. progress'[slot[v]][row[v] - 1] \in Nat BY <2>4, <3>3, SMTT(40) DEF TypeOK
    <3> QED BY <3>2, <3>4, <3>5, <3>6, <3>7
  <2>6. Rows(v)' \cap counted'[slot[v]] \subseteq Rows(v) \cap counted[slot[v]]
    BY <1>1, <2>1
  <2>7. pc[v] = "cascade" /\ For(jctx[slot[v]]) => <<jctx[slot[v]], row[v], 0>> \notin ran'
    BY <1>0, <2>1, <2>2 DEF CellsOf, CellOf
  <2>8. pc[v] = "unit" => <<fctx[v], row[v], 0>> \notin ran'
    BY <1>0, <2>1, <2>2 DEF CellsOf, CellOf, LiveOf, ForPcs
  <2> QED BY <1>0, <2>3, <2>5, <2>6, <2>7, <2>8
      DEF CellsOf, BeforePcs, AfterPcs, EndPcs, RowPcs
<1> QED BY <1>2, <1>3

\* The workers that do not act.
LEMMA OthersCells ==
    ASSUME IInv, TypeOK', NEW w \in Workers, NEW v \in Workers \ {w},
           \/ QuietWork(w) \/ ClaimUnit(w) \/ ClaimRow(w) \/ RunCell(w) \/ FastClaim(w)
           \/ FastCount(w) \/ FinishRow(w) \/ RunUnit(w) \/ NextUnit(w) \/ FinishFor(w)
    PROVE  CellsOf(v)'
<1>0. TypeOK BY DEF IInv
<1>1. /\ pc \in [Workers -> WorkerPcs] /\ slot \in [Workers -> Slots]
      /\ row \in [Workers -> RowIdx \cup {0}] /\ col \in [Workers -> Nat]
      /\ nxt \in [Workers -> RowIdx \cup {0}] /\ fctx \in [Workers -> Ctxs \cup {None}]
      /\ progress \in [Slots -> [RowIdx -> Nat]] /\ counted \in [Slots -> SUBSET RowIdx]
  BY <1>0 DEF TypeOK
<1>2. /\ slot'[v] = slot[v] /\ row'[v] = row[v] /\ col'[v] = col[v] /\ nxt'[v] = nxt[v]
      /\ fctx'[v] = fctx[v]
      /\ pc'[v] = pc[v] \/ (pc[v] = "parked" /\ pc'[v] = "unpark")
  <2>1. ASSUME NEW l, GoTo(w, l) PROVE pc'[v] = pc[v] BY <1>1, <2>1 DEF GoTo
  <2>2. CASE Moves(w)
    <3>1. /\ UNCHANGED <<slot, row, nxt, idVars>>
          /\ pc'[v] = pc[v] \/ (pc[v] = "parked" /\ pc'[v] = "unpark")
      BY <1>0, <2>2, MovesIs
    <3>2. col'[v] = col[v]
      <4>1. CASE CheckAbove(w) \/ Stall(w) \/ Enlist(w) \/ Park(w) \/ Unpark(w) \/ Delist(w) \/ PeekRowWaiter(w)
                 \/ WakeRow(w) \/ FastPeek(w)
        BY <4>1 DEF CheckAbove, Stall, Enlist, Park, Unpark, Delist, PeekRowWaiter, WakeRow, FastPeek,
           wrkVars, posVars
      <4>2. CASE PeekIdle(w) \/ WakeIdle(w) BY <1>1, <4>2 DEF PeekIdle, WakeIdle, NextCell
      <4> QED BY <2>2, <4>1, <4>2 DEF Moves
    <3> QED BY <3>1, <3>2 DEF idVars
  <2>3. CASE Waits(w) BY <1>0, <2>3, WaitsIs DEF wrkVars, posVars, idVars
  <2>4. CASE ScanFound(w) \/ Withdraw(w)
    BY <1>1, <2>1, <2>4 DEF ScanFound, Withdraw, idVars
  <2>5. CASE Cascade(w) BY <1>1, <2>1, <2>5 DEF Cascade
  <2>6. CASE ClaimUnit(w) \/ ClaimRow(w) \/ FastClaim(w) \/ FastCount(w) \/ NextUnit(w)
    BY <1>1, <2>1, <2>6 DEF ClaimUnit, ClaimRow, FastClaim, FastCount, NextUnit, idVars
  <2>7. CASE RunCell(w) \/ RunUnit(w) \/ FinishRow(w) \/ FinishFor(w)
    BY <1>1, <2>1, <2>7 DEF RunCell, RunUnit, FinishRow, FinishFor, wrkVars, posVars, idVars
  <2> QED BY <2>2, <2>3, <2>4, <2>5, <2>6, <2>7 DEF QuietWork, Moves, Waits
<1>3. UNCHANGED jctx
  BY QuietWorkIs DEF jobVars, regVars, ClaimUnit, ClaimRow, RunCell, FastClaim, FastCount,
     FinishRow, RunUnit, NextUnit, FinishFor
<1>4. SUFFICES ASSUME pc[v] \in LivePcs
      PROVE  /\ \A r \in Rows(v) : progress'[slot[v]][r] = progress[slot[v]][r]
             /\ \A r \in RowIdx : progress'[slot[v]][r] >= progress[slot[v]][r]
             /\ \A r \in Rows(v) : r \in counted'[slot[v]] => r \in counted[slot[v]]
             /\ \A x : /\ For(x) /\ x = CellOf(v)[1] /\ row[v] \in Rows(v)
                      /\ <<x, row[v], 0>> \in ran'
                      => <<x, row[v], 0>> \in ran
  BY <1>2, <1>3, CellsKept
<1>5. slot[v] \in Slots /\ used[slot[v]] /\ jctx[slot[v]] # None BY <1>4, LiveGrid
<1>6. \A r \in RowIdx : progress[slot[v]][r] \in Nat BY <1>1, <1>5
<1>7. CASE \/ QuietWork(w) \/ ClaimUnit(w) \/ ClaimRow(w) \/ FastClaim(w) \/ NextUnit(w)
           \/ FinishFor(w)
  <2>1. UNCHANGED <<progress, counted, ran>>
    BY <1>7, QuietWorkIs DEF jobVars, ClaimUnit, ClaimRow, FastClaim, NextUnit, FinishFor
  <2> QED BY <1>6, <2>1
<1>8. slot[v] = slot[w] => Rows(v) \cap Rows(w) = {} BY DEF IInv, ClaimInv, ClaimsOf
<1>9. CASE RunCell(w)
  <2>1. pc[w] = "body" BY <1>9 DEF RunCell
  <2>2. row[w] \in Rows(w) BY <2>1 DEF Rows, RowPcs
  <2>3. /\ slot[w] \in Slots /\ Kind[jctx[slot[w]]] = "wavefront"
        /\ row[w] \in RowIdx /\ progress[slot[w]][row[w]] = col[w] /\ col[w] \in Nat
    <3>1. pc[w] \in RowPcs /\ pc[w] \in LivePcs BY <2>1 DEF RowPcs, LivePcs
    <3>2. /\ slot[w] \in Slots /\ NRows[jctx[slot[w]]] \in 1 .. MaxRows
          /\ Kind[jctx[slot[w]]] = "wavefront" /\ row[w] \in 0 .. NRows[jctx[slot[w]]] - 1
      BY <3>1, LiveGrid
    <3>3. row[w] \in RowIdx
      <4>1. MaxRows \in Nat BY PoolAssumption
      <4> QED BY <3>2, <4>1 DEF RowIdx
    <3>4. progress[slot[w]][row[w]] = col[w] BY <2>1 DEF IInv, CellInv, CellsOf, BeforePcs
    <3> QED BY <1>1, <3>2, <3>3, <3>4
  <2>4. /\ progress' = [progress EXCEPT ![slot[w]][row[w]] = col[w] + 1]
        /\ UNCHANGED counted
        /\ ran' = ran \cup {<<jctx[slot[w]], row[w], col[w]>>}
    BY <1>9 DEF RunCell
  <2>5. \A r \in RowIdx : progress'[slot[v]][r] =
           IF slot[v] = slot[w] /\ r = row[w] THEN col[w] + 1 ELSE progress[slot[v]][r]
    BY <1>1, <1>5, <2>3, <2>4
  <2>6. \A r \in Rows(v) : r \in RowIdx \cup {0} BY <1>1 DEF Rows
  <2>7. ASSUME NEW r \in Rows(v) PROVE progress'[slot[v]][r] = progress[slot[v]][r]
    <3>1. ~(slot[v] = slot[w] /\ r = row[w]) BY <1>8, <2>2
    <3> QED BY <1>1, <1>5, <2>3, <2>4, <3>1
  <2>8. \A r \in RowIdx : progress'[slot[v]][r] >= progress[slot[v]][r]
    BY <1>6, <2>3, <2>5
  <2>9. \A x : For(x) /\ <<x, row[v], 0>> \in ran' => <<x, row[v], 0>> \in ran
    BY <2>3, <2>4 DEF For
  <2> QED BY <2>4, <2>7, <2>8, <2>9
<1>10. CASE FastCount(w) \/ FinishRow(w)
  <2>1. row[w] \in Rows(w) BY <1>10 DEF FastCount, FinishRow, Rows, RowPcs
  <2>2. /\ UNCHANGED <<progress, ran>>
        /\ counted' = [counted EXCEPT ![slot[w]] = @ \cup {row[w]}]
    BY <1>10 DEF FastCount, FinishRow
  <2>3. ASSUME NEW r \in Rows(v), r \in counted'[slot[v]] PROVE r \in counted[slot[v]]
    BY <1>1, <1>5, <1>8, <2>1, <2>2, <2>3
  <2> QED BY <1>6, <2>2, <2>3
<1>11. CASE RunUnit(w)
  <2>1. pc[w] = "unit" /\ ran' = ran \cup {<<fctx[w], row[w], 0>>} /\ UNCHANGED <<progress, counted>>
    BY <1>11 DEF RunUnit
  <2>2. ASSUME NEW x, For(x), x = CellOf(v)[1], row[v] \in Rows(v), <<x, row[v], 0>> \in ran', 
               <<x, row[v], 0>> \notin ran
        PROVE  FALSE
    <3>1. x = fctx[w] /\ row[v] = row[w] BY <2>1, <2>2
    <3>2. pc[w] \in ForPcs /\ AtWork(w) BY <2>1 DEF ForPcs, AtWork
    <3>3. slot[w] \in Slots /\ fctx[w] = jctx[slot[w]] BY <1>1, <3>2 DEF IInv, LiveInv, LiveOf
    <3>4. x = jctx[slot[v]]
      <4>1. CASE pc[v] = "unit"
        <5>1. pc[v] \in ForPcs /\ AtWork(v) BY <4>1 DEF ForPcs, AtWork
        <5>2. fctx[v] = jctx[slot[v]] BY <5>1 DEF IInv, LiveInv, LiveOf
        <5> QED BY <2>2, <4>1, <5>2 DEF CellOf
      <4>2. CASE pc[v] # "unit" BY <2>2, <4>2 DEF CellOf
      <4> QED BY <4>1, <4>2
    <3>5. slot[v] = slot[w] BY <1>5, <3>1, <3>3, <3>4 DEF IInv, JobInv, OneSlot
    <3>6. row[w] \in Rows(w) BY <2>1 DEF Rows
    <3>7. row[v] \notin Rows(v) BY <1>8, <3>1, <3>5, <3>6
    <3> QED BY <2>2, <3>7
  <2> QED BY <1>6, <2>1, <2>2
<1> QED BY <1>7, <1>9, <1>10, <1>11

\* The worker that acts.
LEMMA OwnMove ==
    ASSUME IInv, NEW w \in Workers, Moves(w) PROVE CellsOf(w)'
<1>0. TypeOK /\ CellsOf(w) BY DEF IInv, CellInv
<1>1. /\ UNCHANGED <<slot, row, nxt, idVars>> /\ pc[w] \in RowPcs /\ pc'[w] \in RowPcs
      /\ pc[w] # "fastcount" /\ pc'[w] # "fastcount"
  BY <1>0, MovesIs
<1>2. UNCHANGED <<jctx, progress, counted, ran>>
  <2>1. QuietWork(w) BY DEF Moves, QuietWork
  <2> QED BY <2>1, QuietWorkIs DEF jobVars, regVars
<1>3. pc \in [Workers -> WorkerPcs] /\ col \in [Workers -> Nat] BY <1>0 DEF TypeOK
<1>4. ASSUME NEW l, GoTo(w, l) PROVE pc'[w] = l BY <1>3, <1>4 DEF GoTo
<1>5. Rows(w)' = Rows(w) /\ Rows(w) \cap counted[slot[w]] = {}
  BY <1>0, <1>1 DEF Rows, RowPcs, CellsOf
<1>6. pc[w] \in LivePcs BY <1>1 DEF LivePcs
<1>7. NCols[jctx[slot[w]]] \in Nat \ {0} BY <1>6, LiveGrid
<1> DEFINE At == progress[slot[w]][row[w]]
\* The position in the row, before and after.
<1>8. \/ pc[w] \in BeforePcs /\ pc'[w] \in BeforePcs /\ col'[w] = col[w]
      \/ pc[w] \in AfterPcs /\ pc'[w] \in AfterPcs /\ col'[w] = col[w]
      \/ /\ pc[w] \in AfterPcs /\ pc'[w] = "cell"
         /\ col'[w] = col[w] + 1 /\ col[w] + 1 < NCols[jctx[slot[w]]]
      \/ /\ pc[w] \in AfterPcs /\ pc'[w] = "fast"
         /\ col'[w] = col[w] /\ ~(col[w] + 1 < NCols[jctx[slot[w]]])
      \/ pc[w] = "fast" /\ pc'[w] \in {"fastclaim", "finish"} /\ col'[w] = col[w]
  <2>1. CASE CheckAbove(w) \/ Stall(w) \/ Enlist(w) \/ Park(w) \/ Unpark(w) \/ Delist(w)
    BY <1>4, <2>1 DEF CheckAbove, Stall, Enlist, Park, Unpark, Delist, wrkVars, posVars, BeforePcs
  <2>2. CASE PeekRowWaiter(w)
    BY <1>4, <2>2 DEF PeekRowWaiter, wrkVars, posVars, AfterPcs
  <2>3. CASE WakeRow(w)
    BY <1>4, <2>3 DEF WakeRow, wrkVars, posVars, AfterPcs
  <2>4. CASE PeekIdle(w) \/ WakeIdle(w)
    <3>1. \/ pc'[w] = "wakeidle" /\ col'[w] = col[w]
          \/ NextCell(w)
      BY <1>4, <2>4 DEF PeekIdle, WakeIdle
    <3>2. NextCell(w) => \/ /\ pc'[w] = "cell" /\ col'[w] = col[w] + 1
                            /\ col[w] + 1 < NCols[jctx[slot[w]]]
                         \/ /\ pc'[w] = "fast" /\ col'[w] = col[w]
                            /\ ~(col[w] + 1 < NCols[jctx[slot[w]]])
      BY <1>3, <1>4 DEF NextCell
    <3>3. pc[w] \in AfterPcs BY <2>4 DEF PeekIdle, WakeIdle, AfterPcs
    <3> QED BY <3>1, <3>2, <3>3 DEF AfterPcs
  <2>5. CASE FastPeek(w) BY <1>4, <2>5 DEF FastPeek, wrkVars, posVars
  <2> QED BY <2>1, <2>2, <2>3, <2>4, <2>5 DEF Moves
<1>9. pc'[w] \in {"delist", "body"} => AboveDone(w)'
  <2>0. pc[w] = "delist" => AboveDone(w) BY <1>0 DEF CellsOf
  <2>1. pc'[w] \in {"delist", "body"} => AboveDone(w) /\ col'[w] = col[w]
    <3>1. CASE CheckAbove(w) \/ Stall(w) \/ Enlist(w) \/ Park(w) \/ Unpark(w) \/ Delist(w)
      BY <1>4, <2>0, <3>1 DEF CheckAbove, Stall, Enlist, Park, Unpark, Delist, wrkVars, posVars
    <3>2. CASE PeekRowWaiter(w) \/ WakeRow(w) \/ FastPeek(w)
      BY <1>4, <3>2 DEF PeekRowWaiter, WakeRow, FastPeek
    <3>3. CASE PeekIdle(w) \/ WakeIdle(w) BY <1>4, <3>3 DEF PeekIdle, WakeIdle, NextCell
    <3> QED BY <3>1, <3>2, <3>3 DEF Moves
  <2> QED BY <1>1, <1>2, <2>1 DEF AboveDone, Need
<1>10. col[w] \in Nat BY <1>3
<1>11. /\ pc'[w] \in BeforePcs => At = col'[w]
       /\ pc'[w] \in AfterPcs => At = col'[w] + 1
       /\ pc'[w] \in BeforePcs \cup AfterPcs => col'[w] < NCols[jctx[slot[w]]]
       /\ pc'[w] \in EndPcs => At = NCols[jctx[slot[w]]]
  <2>1. /\ pc[w] \in BeforePcs => At = col[w]
        /\ pc[w] \in AfterPcs => At = col[w] + 1
        /\ pc[w] \in BeforePcs \cup AfterPcs => col[w] < NCols[jctx[slot[w]]]
        /\ pc[w] \in EndPcs => At = NCols[jctx[slot[w]]]
    BY <1>0 DEF CellsOf
  <2>2. CASE pc[w] \in BeforePcs /\ pc'[w] \in BeforePcs /\ col'[w] = col[w]
    BY <2>1, <2>2 DEF BeforePcs, AfterPcs, EndPcs
  <2>3. CASE pc[w] \in AfterPcs /\ pc'[w] \in AfterPcs /\ col'[w] = col[w]
    BY <2>1, <2>3 DEF BeforePcs, AfterPcs, EndPcs
  <2>4. CASE /\ pc[w] \in AfterPcs /\ pc'[w] = "cell"
             /\ col'[w] = col[w] + 1 /\ col[w] + 1 < NCols[jctx[slot[w]]]
    BY <2>1, <2>4 DEF BeforePcs, AfterPcs, EndPcs
  <2>5. CASE /\ pc[w] \in AfterPcs /\ pc'[w] = "fast"
             /\ col'[w] = col[w] /\ ~(col[w] + 1 < NCols[jctx[slot[w]]])
    <3>1. At = NCols[jctx[slot[w]]] BY <1>7, <1>10, <2>1, <2>5
    <3> QED BY <2>5, <3>1 DEF BeforePcs, AfterPcs, EndPcs
  <2>6. CASE pc[w] = "fast" /\ pc'[w] \in {"fastclaim", "finish"} /\ col'[w] = col[w]
    BY <2>1, <2>6 DEF BeforePcs, AfterPcs, EndPcs
  <2> QED BY <1>8, <2>2, <2>3, <2>4, <2>5, <2>6
<1>12. pc'[w] # "cascade" /\ pc'[w] # "unit" BY <1>1 DEF RowPcs
<1> QED BY <1>1, <1>2, <1>5, <1>9, <1>11, <1>12 DEF CellsOf

\* A worker that is in no row and no unit after its step.
LEMMA NoCells ==
    ASSUME NEW w \in Workers, pc'[w] \notin RowPcs \cup {"cascade", "unit"}
    PROVE  CellsOf(w)'
  BY DEF CellsOf, BeforePcs, AfterPcs, EndPcs, RowPcs

\* A row that is not claimed has neither run nor been counted.
LEMMA FreshRow ==
    ASSUME IInv, NEW j \in Slots, Wave(jctx[j]), NEW r \in 0 .. NRows[jctx[j]] - 1, r >= nextRow[j]
    PROVE  progress[j][r] = 0 /\ r \notin counted[j]
<1>1. RowOf(j, r) /\ \A q \in counted[j] : q < nextRow[j] BY DEF IInv, RowInv
<1>2. nextRow[j] \in Nat /\ counted[j] \subseteq RowIdx BY DEF IInv, TypeOK
<1>3. \A q \in RowIdx : q \in Nat BY PoolAssumption DEF RowIdx
<1> QED BY <1>1, <1>2, <1>3 DEF RowOf

\* A row that has no cell yet is not counted.
LEMMA EmptyRow ==
    ASSUME IInv, NEW j \in Slots, Wave(jctx[j]), NEW r \in 0 .. NRows[jctx[j]] - 1,
           progress[j][r] = 0
    PROVE  r \notin counted[j]
<1>1. RowOf(j, r) BY DEF IInv, RowInv
<1>2. NCols[jctx[j]] \in Nat \ {0} BY GridOf DEF IInv, Wave
<1> QED BY <1>1, <1>2 DEF RowOf

LEMMA OwnCells ==
    ASSUME IInv, TypeOK', NEW w \in Workers,
           \/ QuietWork(w) \/ ClaimUnit(w) \/ ClaimRow(w) \/ RunCell(w) \/ FastClaim(w)
           \/ FastCount(w) \/ FinishRow(w) \/ RunUnit(w) \/ NextUnit(w) \/ FinishFor(w)
    PROVE  CellsOf(w)'
<1>0. TypeOK /\ CellsOf(w) /\ LiveOf(w) BY DEF IInv, CellInv, LiveInv
<1>1. /\ pc \in [Workers -> WorkerPcs] /\ slot \in [Workers -> Slots]
      /\ row \in [Workers -> RowIdx \cup {0}] /\ col \in [Workers -> Nat]
      /\ nxt \in [Workers -> RowIdx \cup {0}] /\ fctx \in [Workers -> Ctxs \cup {None}]
      /\ progress \in [Slots -> [RowIdx -> Nat]] /\ counted \in [Slots -> SUBSET RowIdx]
  BY <1>0 DEF TypeOK
<1>2. ASSUME NEW l, GoTo(w, l) PROVE pc'[w] = l BY <1>1, <1>2 DEF GoTo
<1>3. CASE Moves(w) BY <1>3, OwnMove
<1>4. CASE Waits(w)
  <2>1. pc'[w] \in {"scan", "idle", "rescan", "asleep", "exited"} BY <1>0, <1>4, WaitsIs
  <2> QED BY <2>1, NoCells DEF RowPcs
<1>5. CASE ScanFound(w) \/ Withdraw(w) \/ FinishRow(w) \/ FinishFor(w) \/ RunUnit(w)
  <2>1. pc'[w] \in {"claim", "scan", "finishfor", "nextunit"}
    BY <1>2, <1>5 DEF ScanFound, Withdraw, FinishRow, FinishFor, RunUnit
  <2> QED BY <2>1, NoCells DEF RowPcs
<1>6. CASE Cascade(w)
  <2>1. pc[w] = "cascade" /\ UNCHANGED <<jctx, progress, counted, ran, slot, row>>
    BY <1>6 DEF Cascade, jobVars, regVars
  <2>2. PICK j \in Slots, x \in Ctxs, r \in RowIdx \cup {0} :
            /\ j = slot[w] /\ x = jctx[j] /\ r = row[w]
            /\ r \in 0 .. NRows[x] - 1 /\ x # None /\ NCols[x] \in Nat \ {0}
            /\ Kind[x] \in {"wavefront", "for"}
    <3>1. pc[w] \in LivePcs BY <2>1 DEF LivePcs
    <3> QED BY <1>1, <2>1, <3>1, LiveGrid, PoolAssumption
  <2>3. fctx'[w] = x /\ col'[w] = 0 BY <1>1, <1>6, <2>2 DEF Cascade
  <2>4. CASE Kind[x] = "for"
    <3>1. pc'[w] = "unit" BY <1>2, <1>6, <2>2, <2>4 DEF Cascade
    <3>2. <<x, r, 0>> \notin ran BY <1>0, <2>1, <2>2, <2>4 DEF CellsOf, For
    <3> QED BY <2>1, <2>2, <2>3, <3>1, <3>2 DEF CellsOf, BeforePcs, AfterPcs, EndPcs, RowPcs
  <2>5. CASE Kind[x] = "wavefront"
    <3>1. pc'[w] = "cell" BY <1>2, <1>6, <2>2, <2>5 DEF Cascade
    <3>2. progress[j][r] = 0 BY <1>0, <2>1, <2>2, <2>5 DEF CellsOf, Wave
    <3>3. r \notin counted[j] BY <2>2, <2>5, <3>2, EmptyRow DEF Wave
    <3>4. Rows(w)' = {r} BY <2>1, <2>2, <3>1 DEF Rows, RowPcs
    <3> QED BY <2>1, <2>2, <2>3, <3>1, <3>2, <3>3, <3>4
            DEF CellsOf, BeforePcs, AfterPcs, EndPcs
  <2> QED BY <2>2, <2>4, <2>5
<1>7. CASE ClaimUnit(w)
  <2>1. pc[w] = "claim" /\ UNCHANGED <<jctx, progress, counted, ran, slot>>
    BY <1>7 DEF ClaimUnit, regVars
  <2>2. CASE pc'[w] = "scan" BY <2>2, NoCells DEF RowPcs
  <2>3. CASE pc'[w] # "scan"
    <3>1. /\ claimw[slot[w]].row < NRows[jctx[slot[w]]] /\ Kind[jctx[slot[w]]] = "for"
          /\ row'[w] = claimw[slot[w]].row /\ pc'[w] = "cascade"
      BY <1>1, <1>2, <1>7, <2>3 DEF ClaimUnit, UnitLeft
    <3>2. pc[w] \in LivePcs BY <2>1 DEF LivePcs
    <3>3. /\ slot[w] \in Slots /\ For(jctx[slot[w]])
          /\ claimw[slot[w]].row \in Nat /\ NRows[jctx[slot[w]]] \in Nat
      <4>1. slot[w] \in Slots /\ jctx[slot[w]] # None /\ NRows[jctx[slot[w]]] \in 1 .. MaxRows
        BY <3>2, LiveGrid
      <4>2. claimw[slot[w]].row \in Nat /\ MaxRows \in Nat BY <1>0, <4>1, PoolAssumption DEF TypeOK
      <4> QED BY <3>1, <4>1, <4>2 DEF For
    <3>4. claimw[slot[w]].row \in claimw[slot[w]].row .. NRows[jctx[slot[w]]] - 1
      BY <3>1, <3>3
    <3>5. <<jctx[slot[w]], claimw[slot[w]].row, 0>> \notin ran
      BY <3>3, <3>4 DEF IInv, UnitInv
    <3>6. ~Wave(jctx[slot[w]]) BY <3>1 DEF Wave
    <3> QED BY <2>1, <3>1, <3>5, <3>6 DEF CellsOf, BeforePcs, AfterPcs, EndPcs, RowPcs
  <2> QED BY <2>2, <2>3
<1>8. CASE ClaimRow(w)
  <2>1. pc[w] = "claim" /\ UNCHANGED <<jctx, progress, counted, ran, slot>>
    BY <1>8 DEF ClaimRow, regVars
  <2>2. CASE pc'[w] = "scan" BY <2>2, NoCells DEF RowPcs
  <2>3. CASE pc'[w] # "scan"
    <3>1. /\ NextReady(slot[w]) /\ Kind[jctx[slot[w]]] = "wavefront"
          /\ row'[w] = nextRow[slot[w]] /\ pc'[w] = "cascade"
      BY <1>1, <1>2, <1>8, <2>3 DEF ClaimRow
    <3>2. pc[w] \in LivePcs BY <2>1 DEF LivePcs
    <3>3. /\ slot[w] \in Slots /\ Wave(jctx[slot[w]])
          /\ nextRow[slot[w]] \in 0 .. NRows[jctx[slot[w]]] - 1
      <4>1. slot[w] \in Slots /\ jctx[slot[w]] # None /\ NRows[jctx[slot[w]]] \in 1 .. MaxRows
        BY <3>2, LiveGrid
      <4>2. nextRow[slot[w]] \in 0 .. MaxRows /\ MaxRows \in Nat BY <1>0, <4>1, PoolAssumption DEF TypeOK
      <4>3. nextRow[slot[w]] < NRows[jctx[slot[w]]]
        BY <3>1 DEF NextReady, RowsClaimed
      <4> QED BY <3>1, <4>1, <4>2, <4>3 DEF Wave
    <3>4. nextRow[slot[w]] >= nextRow[slot[w]] BY <3>3
    <3>5. progress[slot[w]][nextRow[slot[w]]] = 0 BY <3>3, <3>4, FreshRow
    <3>6. ~For(jctx[slot[w]]) BY <3>1 DEF For
    <3> QED BY <2>1, <3>1, <3>5, <3>6 DEF CellsOf, BeforePcs, AfterPcs, EndPcs, RowPcs
  <2> QED BY <2>2, <2>3
<1>9. CASE RunCell(w)
  <2>1. /\ pc[w] = "body" /\ pc'[w] = "peekrow"
        /\ progress' = [progress EXCEPT ![slot[w]][row[w]] = col[w] + 1]
        /\ UNCHANGED <<jctx, counted, slot, row, col, nxt>>
    BY <1>2, <1>9 DEF RunCell, regVars, wrkVars, posVars
  <2>2. slot[w] \in Slots /\ row[w] \in RowIdx
    <3>1. pc[w] \in LivePcs /\ pc[w] \in RowPcs BY <2>1 DEF LivePcs, RowPcs
    <3>2. NRows[jctx[slot[w]]] \in 1 .. MaxRows /\ row[w] \in 0 .. NRows[jctx[slot[w]]] - 1
      BY <3>1, LiveGrid
    <3>3. MaxRows \in Nat BY PoolAssumption
    <3> QED BY <1>1, <3>2, <3>3 DEF RowIdx
  <2>3. progress'[slot[w]][row[w]] = col[w] + 1 BY <1>1, <2>1, <2>2
  <2>4. Rows(w)' = Rows(w) BY <2>1 DEF Rows, RowPcs
  <2> QED BY <1>0, <2>1, <2>3, <2>4 DEF CellsOf, BeforePcs, AfterPcs, EndPcs, RowPcs
<1>10. CASE FastClaim(w)
  <2>1. pc[w] = "fastclaim" /\ UNCHANGED <<jctx, progress, counted, ran, slot, row, col>>
    BY <1>10 DEF FastClaim, regVars
  <2>2. CASE pc'[w] = "finish"
    <3>1. Rows(w)' = Rows(w) BY <2>1, <2>2 DEF Rows, RowPcs
    <3> QED BY <1>0, <2>1, <2>2, <3>1 DEF CellsOf, BeforePcs, AfterPcs, EndPcs, RowPcs
  <2>3. CASE pc'[w] # "finish"
    <3>1. /\ nextRow[slot[w]] < NRows[jctx[slot[w]]]
          /\ nxt'[w] = nextRow[slot[w]] /\ pc'[w] = "fastcount"
      BY <1>1, <1>2, <1>10, <2>3 DEF FastClaim, RowsLeft, FastRow
    <3>2. pc[w] \in LivePcs /\ pc[w] \in RowPcs BY <2>1 DEF LivePcs, RowPcs
    <3>3. /\ slot[w] \in Slots /\ Wave(jctx[slot[w]])
          /\ nextRow[slot[w]] \in 0 .. NRows[jctx[slot[w]]] - 1
      <4>1. /\ slot[w] \in Slots /\ jctx[slot[w]] # None /\ NRows[jctx[slot[w]]] \in 1 .. MaxRows
            /\ Kind[jctx[slot[w]]] = "wavefront"
        BY <3>2, LiveGrid
      <4>2. nextRow[slot[w]] \in 0 .. MaxRows /\ MaxRows \in Nat BY <1>0, <4>1, PoolAssumption DEF TypeOK
      <4> QED BY <3>1, <4>1, <4>2 DEF Wave
    <3>4. nextRow[slot[w]] >= nextRow[slot[w]] BY <3>3
    <3>5. progress[slot[w]][nextRow[slot[w]]] = 0 /\ nextRow[slot[w]] \notin counted[slot[w]]
      BY <3>3, <3>4, FreshRow
    <3>6. Rows(w)' = Rows(w) \cup {nextRow[slot[w]]} BY <2>1, <3>1 DEF Rows, RowPcs
    <3>7. Rows(w) \cap counted[slot[w]] = {} /\ progress[slot[w]][row[w]] = NCols[jctx[slot[w]]]
      BY <1>0, <2>1 DEF CellsOf, RowPcs, EndPcs
    <3> QED BY <2>1, <3>1, <3>5, <3>6, <3>7 DEF CellsOf, BeforePcs, AfterPcs, EndPcs
  <2> QED BY <2>2, <2>3
<1>11. CASE FastCount(w)
  <2>1. /\ pc[w] = "fastcount" /\ pc'[w] = "cell" /\ row'[w] = nxt[w] /\ col'[w] = 0
        /\ counted' = [counted EXCEPT ![slot[w]] = @ \cup {row[w]}]
        /\ UNCHANGED <<jctx, progress, slot>>
    BY <1>1, <1>2, <1>11 DEF FastCount, regVars
  <2>2. slot[w] \in Slots /\ NCols[jctx[slot[w]]] \in Nat \ {0}
    <3>1. pc[w] \in LivePcs BY <2>1 DEF LivePcs, RowPcs
    <3> QED BY <3>1, LiveGrid
  <2>3. /\ progress[slot[w]][nxt[w]] = 0 /\ nxt[w] \notin counted[slot[w]]
    BY <1>0, <2>1 DEF CellsOf, Rows, RowPcs
  <2>4. nxt[w] # row[w] BY <2>1 DEF IInv, ClaimInv, ClaimsOf
  <2>5. nxt[w] \notin counted'[slot[w]] BY <1>1, <2>1, <2>2, <2>3, <2>4
  <2>6. Rows(w)' = {nxt[w]} BY <2>1 DEF Rows, RowPcs
  <2> QED BY <2>1, <2>2, <2>3, <2>5, <2>6 DEF CellsOf, BeforePcs, AfterPcs, EndPcs
<1>12. CASE NextUnit(w)
  <2>1. pc[w] = "nextunit" /\ UNCHANGED <<ran, fctx, slot>> BY <1>12 DEF NextUnit, idVars
  <2>2. CASE pc'[w] = "finishfor" BY <2>2, NoCells DEF RowPcs
  <2>3. CASE pc'[w] # "finishfor"
    <3>1. /\ claimw[slot[w]].seq = runSeq[w] /\ claimw[slot[w]].row < NRows[fctx[w]]
          /\ row'[w] = claimw[slot[w]].row /\ pc'[w] = "unit"
      BY <1>1, <1>2, <1>12, <2>3 DEF NextUnit, UnitLeft
    <3>2. pc[w] \in ForPcs BY <2>1 DEF ForPcs
    <3>3. fctx[w] = jctx[slot[w]] /\ <<jctx[slot[w]], claimw[slot[w]].row, 0>> \notin ran
      BY <3>1, <3>2, NextUnitIs
    <3> QED BY <2>1, <3>1, <3>3 DEF CellsOf, BeforePcs, AfterPcs, EndPcs, RowPcs
  <2> QED BY <2>2, <2>3
<1> QED BY <1>3, <1>4, <1>5, <1>6, <1>7, <1>8, <1>9, <1>10, <1>11, <1>12
        DEF QuietWork, Moves, Waits

LEMMA CellStep == IInv /\ [Next]_vars => CellInv'
<1> SUFFICES ASSUME IInv, [Next]_vars PROVE CellInv' OBVIOUS
<1>0. TypeOK' BY TypeStep
<1>1. ASSUME NEW w \in Workers,
             \/ QuietWork(w) \/ ClaimUnit(w) \/ ClaimRow(w) \/ RunCell(w) \/ FastClaim(w)
             \/ FastCount(w) \/ FinishRow(w) \/ RunUnit(w) \/ NextUnit(w) \/ FinishFor(w)
      PROVE  CellInv'
  <2>1. CellsOf(w)' BY <1>0, <1>1, OwnCells
  <2>2. \A v \in Workers \ {w} : CellsOf(v)' BY <1>0, <1>1, OthersCells
  <2> QED BY <2>1, <2>2 DEF CellInv
<1>2. ASSUME UNCHANGED workVars,
             \A v \in Workers : pc[v] \in LivePcs =>
               /\ jctx'[slot[v]] = jctx[slot[v]] /\ progress'[slot[v]] = progress[slot[v]]
               /\ counted'[slot[v]] = counted[slot[v]],
             \A x, r : For(x) /\ <<x, r, 0>> \in ran' => <<x, r, 0>> \in ran
      PROVE  CellInv'
  <2>1. ASSUME NEW v \in Workers PROVE CellsOf(v)'
    <3>1. \A r \in RowIdx : progress[slot[v]][r] \in Nat BY DEF IInv, TypeOK
    <3>2. pc[v] \in LivePcs => \A r \in RowIdx : progress'[slot[v]][r] >= progress[slot[v]][r]
      BY <1>2, <3>1
    <3> QED BY <1>0, <1>2, <3>2, CellsKept DEF workVars, wrkVars, posVars, idVars
  <2> QED BY <2>1 DEF CellInv
<1>3. ASSUME NEW s \in Submitters, QuietCall(s) \/ Join(s) PROVE CellInv'
  <2>1. UNCHANGED <<workVars, jctx, progress, counted, ran>>
    BY <1>3, QuietCallIs DEF Join, poolVars, jobVars, regVars
  <2> QED BY <1>2, <2>1
<1>4. ASSUME NEW s \in Submitters, SerialCell(s) PROVE CellInv'
  <2>1. UNCHANGED <<workVars, jctx, progress, counted>>
    BY <1>4 DEF SerialCell, poolVars, jobVars, regVars
  <2>2. spc[s] = "serial" /\ \A k \in ran' : k \in ran \/ k[1] = Current(s)
    BY <1>4 DEF SerialCell
  <2>3. Kind[Current(s)] = "wavefront" BY <2>2, SerialGrid
  <2>4. \A x, r : For(x) /\ <<x, r, 0>> \in ran' => <<x, r, 0>> \in ran
    BY <2>2, <2>3 DEF For
  <2> QED BY <1>2, <2>1, <2>4
<1>5. ASSUME NEW s \in Submitters, Register(s) PROVE CellInv'
  <2>1. PICK f \in Slots, x \in Ctxs :
          /\ ~used[f] /\ jctx' = [jctx EXCEPT ![f] = x]
          /\ \/ /\ Kind[x] = "wavefront"
                /\ progress' = [progress EXCEPT ![f] =
                                  [r \in RowIdx |-> IF r < NRows[x] THEN 0 ELSE @[r]]]
                /\ counted' = [counted EXCEPT ![f] = {}]
             \/ Kind[x] # "wavefront" /\ UNCHANGED <<progress, counted>>
    BY ZenonT(40), <1>5, RegisterIs
  <2>0. UNCHANGED <<ran, workVars>> BY <1>5 DEF Register
  <2>2. ASSUME NEW v \in Workers, pc[v] \in LivePcs
        PROVE  /\ jctx'[slot[v]] = jctx[slot[v]] /\ progress'[slot[v]] = progress[slot[v]]
               /\ counted'[slot[v]] = counted[slot[v]]
    <3>1. slot[v] \in Slots /\ slot[v] # f BY <2>1, <2>2, LiveGrid
    <3>2. /\ progress \in [Slots -> [RowIdx -> Nat]] /\ counted \in [Slots -> SUBSET RowIdx]
          /\ jctx \in [Slots -> Ctxs \cup {None}]
      BY DEF IInv, TypeOK
    <3> QED BY <2>1, <3>1, <3>2
  <2> QED BY <1>2, <2>0, <2>2
<1>6. CASE External \/ UNCHANGED vars
  <2>1. UNCHANGED <<workVars, jctx, progress, counted, ran>>
    BY <1>6, ExternalIs DEF vars, poolVars, jobVars, regVars
  <2> QED BY <1>2, <2>1
<1> QED BY <1>1, <1>3, <1>4, <1>5, <1>6, Steps

-----------------------------------------------------------------------------
(* The waiters registered per condition-variable slot. *)

WaitPcs == {"park", "parked", "unpark", "delist"}

LEMMA RegisteredFinite ==
    ASSUME NEW k
    PROVE  IsFiniteSet(Registered(k)) /\ Cardinality(Registered(k)) \in Nat
<1>1. IsFiniteSet(Workers) BY PoolAssumption
<1>2. Registered(k) \subseteq Workers BY DEF Registered
<1> QED BY <1>1, <1>2, FS_Subset, FS_CardinalityType

\* Nobody registers or withdraws.
LEMMA WaitersKept ==
    ASSUME WaitersInv, UNCHANGED wslot,
           \A v \in Workers : pc'[v] \in WaitPcs <=> pc[v] \in WaitPcs,
           \A v \in Workers : pc[v] \in WaitPcs => slot'[v] = slot[v] /\ row'[v] = row[v]
    PROVE  WaitersInv'
<1>1. ASSUME NEW k \in 0 .. CvSlots - 1 PROVE Registered(k)' = Registered(k)
  BY DEF Registered, WaitPcs, CvOf
<1> QED BY <1>1 DEF WaitersInv

LEMMA WaitersStep == IInv /\ [Next]_vars => WaitersInv'
<1> SUFFICES ASSUME IInv, [Next]_vars PROVE WaitersInv' OBVIOUS
<1>0. TypeOK /\ WaitersInv BY DEF IInv
<1>1. /\ pc \in [Workers -> WorkerPcs] /\ slot \in [Workers -> Slots]
      /\ row \in [Workers -> RowIdx \cup {0}] /\ wslot \in [0 .. CvSlots - 1 -> Int]
  BY <1>0 DEF TypeOK
<1>2. ASSUME NEW w \in Workers, NEW l, GoTo(w, l)
      PROVE  pc'[w] = l /\ \A v \in Workers \ {w} : pc'[v] = pc[v]
  BY <1>1, <1>2 DEF GoTo
\* A worker that was not waiting, and does not wait after its step.
<1>3. ASSUME NEW w \in Workers, UNCHANGED wslot, pc[w] \notin WaitPcs, pc'[w] \notin WaitPcs,
             \A v \in Workers \ {w} : pc'[v] = pc[v] /\ slot'[v] = slot[v] /\ row'[v] = row[v]
      PROVE  WaitersInv'
  BY <1>0, <1>3, WaitersKept
<1>4. ASSUME NEW w \in Workers, Waits(w) PROVE WaitersInv'
  <2>1. UNCHANGED wslot
    BY <1>4 DEF Waits, Enter, ScanExit, ScanNothing, RegisterIdle, Sleep, Resume, poolVars
  <2> QED BY <1>0, <1>3, <1>4, <2>1, WaitsIs DEF wrkVars, posVars, WaitPcs
<1>5. ASSUME NEW w \in Workers, ScanFound(w) \/ Withdraw(w) \/ Cascade(w) PROVE WaitersInv'
  <2>1. /\ UNCHANGED <<wslot, row>> /\ pc[w] \in {"scan", "rescan", "cascade"}
        /\ pc'[w] \in {"claim", "unit", "cell"}
        /\ \A v \in Workers \ {w} : pc'[v] = pc[v] /\ slot'[v] = slot[v]
    BY <1>1, <1>2, <1>5 DEF ScanFound, Withdraw, Cascade, poolVars
  <2> QED BY <1>3, <2>1 DEF WaitPcs
<1>6. ASSUME NEW w \in Workers, ClaimUnit(w) \/ ClaimRow(w) \/ NextUnit(w) PROVE WaitersInv'
  <2>1. /\ UNCHANGED <<wslot, slot>> /\ pc[w] \in {"claim", "nextunit"}
        /\ pc'[w] \in {"scan", "cascade", "unit", "finishfor"}
        /\ \A v \in Workers \ {w} : pc'[v] = pc[v] /\ row'[v] = row[v]
    BY <1>1, <1>2, <1>6 DEF ClaimUnit, ClaimRow, NextUnit
  <2> QED BY <1>3, <2>1 DEF WaitPcs
<1>7. ASSUME NEW w \in Workers, FastClaim(w) \/ FastCount(w) PROVE WaitersInv'
  <2>1. /\ UNCHANGED <<wslot, slot>> /\ pc[w] \in {"fastclaim", "fastcount"}
        /\ pc'[w] \in {"fastcount", "finish", "cell"}
        /\ \A v \in Workers \ {w} : pc'[v] = pc[v] /\ row'[v] = row[v]
    BY <1>1, <1>2, <1>7 DEF FastClaim, FastCount
  <2> QED BY <1>3, <2>1 DEF WaitPcs
<1>8. ASSUME NEW w \in Workers, RunCell(w) \/ RunUnit(w) \/ FinishRow(w) \/ FinishFor(w)
      PROVE  WaitersInv'
  <2>1. /\ UNCHANGED <<wslot, slot, row>> /\ pc[w] \in {"body", "unit", "finish", "finishfor"}
        /\ pc'[w] \in {"peekrow", "finishfor", "nextunit", "scan"}
        /\ \A v \in Workers \ {w} : pc'[v] = pc[v]
    BY <1>1, <1>2, <1>8 DEF RunCell, RunUnit, FinishRow, FinishFor, wrkVars, posVars
  <2> QED BY <1>3, <2>1 DEF WaitPcs
<1>9. ASSUME NEW w \in Workers, CheckAbove(w) \/ PeekRowWaiter(w) \/ FastPeek(w) PROVE WaitersInv'
  <2>1. /\ UNCHANGED <<wslot, slot, row>> /\ pc[w] \in {"cell", "peekrow", "fast"}
        /\ pc'[w] \in {"body", "stall", "wakerow", "peekidle", "fastclaim", "finish"}
        /\ \A v \in Workers \ {w} : pc'[v] = pc[v]
    BY <1>2, <1>9 DEF CheckAbove, PeekRowWaiter, FastPeek, poolVars, wrkVars, posVars
  <2> QED BY <1>3, <2>1 DEF WaitPcs
<1>10. ASSUME NEW w \in Workers, PeekIdle(w) \/ WakeIdle(w) PROVE WaitersInv'
  <2>1. /\ UNCHANGED <<wslot, slot, row>> /\ pc[w] \in {"peekidle", "wakeidle"}
        /\ pc'[w] \in {"wakeidle", "cell", "fast"}
        /\ \A v \in Workers \ {w} : pc'[v] = pc[v]
    BY <1>2, <1>10 DEF PeekIdle, WakeIdle, NextCell, poolVars
  <2> QED BY <1>3, <2>1 DEF WaitPcs
<1>11. ASSUME NEW w \in Workers, WakeRow(w) PROVE WaitersInv'
  <2>1. UNCHANGED <<wslot, slot, row>> BY <1>11 DEF WakeRow, poolVars, wrkVars, posVars
  <2>2. \A v \in Workers : pc'[v] \in WaitPcs <=> pc[v] \in WaitPcs
    BY <1>11 DEF WakeRow, WaitPcs
  <2> QED BY <1>0, <2>1, <2>2, WaitersKept
<1>12. ASSUME NEW w \in Workers, Unpark(w) PROVE WaitersInv'
  <2>1. UNCHANGED <<wslot, slot, row>> BY <1>12 DEF Unpark, poolVars, wrkVars, posVars
  <2>2. \A v \in Workers : pc'[v] \in WaitPcs <=> pc[v] \in WaitPcs
    BY <1>2, <1>12 DEF Unpark, WaitPcs
  <2> QED BY <1>0, <2>1, <2>2, WaitersKept
<1>13. ASSUME NEW w \in Workers, Enlist(w) PROVE WaitersInv'
  <2>1. UNCHANGED <<slot, row>> /\ pc[w] = "enlist" BY <1>13 DEF Enlist, wrkVars, posVars
  <2>2. PICK q : q = CvOf(slot[w], row[w]) OBVIOUS
  <2>3. wslot' = [wslot EXCEPT ![q] = @ + 1] /\ pc'[w] = "park"
        /\ \A v \in Workers \ {w} : pc'[v] = pc[v]
    BY <1>2, <1>13, <2>2 DEF Enlist
  <2>4. ASSUME NEW k \in 0 .. CvSlots - 1 PROVE wslot'[k] = Cardinality(Registered(k)')
    <3>1. CASE k = q
      <4>1. Registered(k)' = Registered(k) \cup {w} /\ w \notin Registered(k)
        BY <2>1, <2>2, <2>3, <3>1 DEF Registered, CvOf
      <4>2. Cardinality(Registered(k)') = Cardinality(Registered(k)) + 1
        BY <4>1, RegisteredFinite, FS_AddElement
      <4> QED BY <1>0, <1>1, <2>3, <3>1, <4>2 DEF WaitersInv
    <3>2. CASE k # q
      <4>1. Registered(k)' = Registered(k)
        BY <2>1, <2>2, <2>3, <3>2 DEF Registered, CvOf
      <4> QED BY <1>0, <1>1, <2>3, <3>2, <4>1 DEF WaitersInv
    <3> QED BY <3>1, <3>2
  <2> QED BY <2>4 DEF WaitersInv
<1>14. ASSUME NEW w \in Workers, Delist(w) PROVE WaitersInv'
  <2>1. UNCHANGED <<slot, row>> /\ pc[w] = "delist" BY <1>14 DEF Delist, wrkVars, posVars
  <2>2. PICK q : q = CvOf(slot[w], row[w]) OBVIOUS
  <2>3. wslot' = [wslot EXCEPT ![q] = @ - 1] /\ pc'[w] = "body"
        /\ \A v \in Workers \ {w} : pc'[v] = pc[v]
    BY <1>2, <1>14, <2>2 DEF Delist
  <2>4. ASSUME NEW k \in 0 .. CvSlots - 1 PROVE wslot'[k] = Cardinality(Registered(k)')
    <3>1. CASE k = q
      <4>1. Registered(k)' = Registered(k) \ {w} /\ w \in Registered(k)
        BY <2>1, <2>2, <2>3, <3>1 DEF Registered, CvOf
      <4>2. Cardinality(Registered(k)') = Cardinality(Registered(k)) - 1
        BY <4>1, RegisteredFinite, FS_RemoveElement
      <4> QED BY <1>0, <1>1, <2>3, <3>1, <4>2 DEF WaitersInv
    <3>2. CASE k # q
      <4>1. Registered(k)' = Registered(k)
        BY <2>1, <2>2, <2>3, <3>2 DEF Registered, CvOf
      <4> QED BY <1>0, <1>1, <2>3, <3>2, <4>1 DEF WaitersInv
    <3> QED BY <3>1, <3>2
  <2> QED BY <2>4 DEF WaitersInv
<1>17. ASSUME NEW w \in Workers, Stall(w) PROVE WaitersInv'
  <2>1. /\ UNCHANGED <<wslot, slot, row>> /\ pc[w] = "stall"
        /\ pc'[w] \in {"body", "enlist"}
        /\ \A v \in Workers \ {w} : pc'[v] = pc[v]
    BY <1>2, <1>17 DEF Stall, poolVars, wrkVars, posVars
  <2> QED BY <1>3, <2>1 DEF WaitPcs
<1>18. ASSUME NEW w \in Workers, Park(w) PROVE WaitersInv'
  <2>1. /\ UNCHANGED <<wslot, slot, row>> /\ pc[w] = "park"
        /\ pc'[w] \in {"parked", "delist"}
        /\ \A v \in Workers \ {w} : pc'[v] = pc[v]
    BY <1>2, <1>18 DEF Park, poolVars, wrkVars, posVars
  <2> QED BY <1>0, <2>1, WaitersKept DEF WaitPcs
<1>15. ASSUME NEW s \in Submitters, QuietCall(s) \/ SerialCell(s) \/ Join(s) \/ Register(s)
       PROVE  WaitersInv'
  <2>1. UNCHANGED <<wslot, pc, slot, row>>
    BY <1>15, QuietCallIs DEF Join, SerialCell, Register, poolVars, workVars, wrkVars, posVars
  <2> QED BY <1>0, <2>1, WaitersKept
<1>16. CASE External \/ UNCHANGED vars
  <2>1. UNCHANGED <<wslot, pc, slot, row>>
    BY <1>16, ExternalIs DEF vars, poolVars, workVars, wrkVars, posVars
  <2> QED BY <1>0, <2>1, WaitersKept
<1> QED BY <1>4, <1>5, <1>6, <1>7, <1>8, <1>9, <1>10, <1>11, <1>12, <1>13, <1>14, <1>15, <1>16,
           <1>17, <1>18, Steps DEF QuietWork, Waits

-----------------------------------------------------------------------------
(* The idle stack. *)

LEMMA IdleFinite == IsFiniteSet(Idle) /\ Cardinality(Idle) \in Nat
<1>1. IsFiniteSet(Workers) BY PoolAssumption
<1>2. Idle \subseteq Workers BY DEF Idle
<1> QED BY <1>1, <1>2, FS_Subset, FS_CardinalityType

\* While the mutex is free, or held elsewhere, no worker is at its re-scan.
LEMMA NoRescan ==
    ASSUME LockInv, mtx = None \/ \E w \in Workers : mtx = w /\ pc[w] # "rescan",
           NEW v \in Workers
    PROVE  pc[v] # "rescan"
  BY PoolAssumption DEF LockInv, LockedPcs

\* The worker WakeOne takes off the stack is asleep, and no longer on it.
LEMMA WokenIs ==
    ASSUME IInv, WakeOne, idleStack # <<>>, \A v \in Workers : pc[v] # "rescan"
    PROVE  \E v \in Workers : pc[v] = "asleep" /\ ~OnStack(v)'
<1>1. /\ idleStack \in Seq(Workers) /\ \A i \in DOMAIN idleStack : idleStack[i] \in Idle
      /\ \A i, k \in DOMAIN idleStack : idleStack[i] = idleStack[k] => i = k
  BY DEF IInv, TypeOK, StackInv
<1>2. /\ idleStack' \in Seq(Workers) /\ Len(idleStack') = Len(idleStack) - 1
      /\ \A i \in 1 .. Len(idleStack) - 1 : idleStack'[i] = idleStack[i]
  BY <1>1, WakeOneIs
<1>3. PICK n \in Nat : n = Len(idleStack) /\ n > 0 /\ DOMAIN idleStack = 1 .. n
  BY <1>1, EmptySeq
<1>4. PICK v \in Workers : v = idleStack[n] BY <1>1, <1>3
<1>5. n \in 1 .. n BY <1>3
<1>6. v \in Idle BY <1>1, <1>3, <1>4, <1>5
<1>7. DOMAIN idleStack' = 1 .. n - 1 BY <1>2, <1>3
<1>8. ASSUME NEW i \in 1 .. n - 1 PROVE idleStack'[i] # v
  <2>1. i \in 1 .. n /\ i # n BY <1>3
  <2>2. idleStack[i] # idleStack[n] BY <1>1, <1>3, <1>5, <2>1
  <2> QED BY <1>2, <1>3, <1>4, <2>2
<1>9. ~OnStack(v)' BY <1>7, <1>8 DEF OnStack
<1> QED BY <1>6, <1>9 DEF Idle

\* No worker goes to sleep or comes from it; the stack is the same, or popped,
\* or cleared.
LEMMA StackKept ==
    ASSUME IInv, UNCHANGED idlers, shutdown' = shutdown \/ idleStack' = <<>>,
           \A v \in Workers : pc'[v] \in {"rescan", "asleep"} <=> pc[v] \in {"rescan", "asleep"},
           \A v \in Workers : pc'[v] = "rescan" => pc[v] = "rescan",
           \A v \in Workers : pc'[v] = "idle" => ~shutdown',
           \/ UNCHANGED idleStack
           \/ (WakeOne \/ WakeAll) /\ \A v \in Workers : pc[v] # "rescan"
    PROVE  StackInv'
<1>1. Idle' = Idle BY DEF Idle
<1>2. StackInv /\ idleStack \in Seq(Workers) BY DEF IInv, TypeOK
<1>3. shutdown' => /\ idleStack' = <<>>
                   /\ \A v \in Workers : pc'[v] \notin {"idle", "rescan"}
  <2>1. CASE UNCHANGED idleStack
    <3>1. shutdown' => idleStack' = <<>> BY <1>2, <2>1 DEF StackInv
    <3>2. ASSUME shutdown', NEW v \in Workers PROVE pc'[v] # "rescan"
      <4>1. SUFFICES ASSUME pc[v] = "rescan" PROVE FALSE OBVIOUS
      <4>2. OnStack(v) BY <1>2, <4>1 DEF StackInv
      <4> QED BY <2>1, <3>1, <3>2, <4>2 DEF OnStack
    <3> QED BY <3>1, <3>2
  <2>2. CASE (WakeOne \/ WakeAll) /\ \A v \in Workers : pc[v] # "rescan"
    <3>1. shutdown => idleStack = <<>> BY <1>2 DEF StackInv
    <3>2. idleStack = <<>> => idleStack' = <<>> BY <2>2 DEF WakeOne, WakeAll
    <3> QED BY <2>2, <3>1, <3>2
  <2> QED BY <2>1, <2>2
<1>4. CASE UNCHANGED idleStack
  <2>1. \A v \in Workers : OnStack(v)' <=> OnStack(v) BY <1>4 DEF OnStack
  <2> QED BY <1>1, <1>2, <1>3, <1>4, <2>1 DEF StackInv
<1>5. CASE WakeAll /\ \A v \in Workers : pc[v] # "rescan"
  <2>1. idleStack' = <<>> BY <1>5 DEF WakeAll
  <2>2. DOMAIN idleStack' = {} BY <2>1
  <2> QED BY <1>1, <1>2, <1>3, <1>5, <2>2 DEF StackInv
<1>6. CASE WakeOne /\ \A v \in Workers : pc[v] # "rescan"
  <2>1. idleStack = <<>> => idleStack' = idleStack BY <1>6 DEF WakeOne
  <2>2. CASE idleStack # <<>>
    <3>1. /\ idleStack' \in Seq(Workers) /\ Len(idleStack') = Len(idleStack) - 1
          /\ \A i \in 1 .. Len(idleStack) - 1 : idleStack'[i] = idleStack[i]
      BY <1>2, <1>6, <2>2, WakeOneIs
    <3>2. Len(idleStack) \in Nat BY <1>2
    <3>3. \A i \in DOMAIN idleStack' : i \in DOMAIN idleStack /\ idleStack'[i] = idleStack[i]
      BY <1>2, <3>1, <3>2
    <3> QED BY <1>1, <1>2, <1>3, <1>6, <3>3 DEF StackInv
  <2> QED BY <1>4, <2>1, <2>2
<1> QED BY <1>4, <1>5, <1>6

LEMMA StackStep == IInv /\ [Next]_vars => StackInv'
<1> SUFFICES ASSUME IInv, [Next]_vars PROVE StackInv' OBVIOUS
<1>0. TypeOK /\ StackInv /\ LockInv BY DEF IInv
<1>1. pc \in [Workers -> WorkerPcs] /\ idleStack \in Seq(Workers) /\ idlers \in Int
  BY <1>0 DEF TypeOK
<1>2. ASSUME NEW w \in Workers, NEW l, GoTo(w, l)
      PROVE  pc'[w] = l /\ \A v \in Workers \ {w} : pc'[v] = pc[v]
  BY <1>1, <1>2 DEF GoTo
<1>3. shutdown => /\ idleStack = <<>>
                  /\ \A v \in Workers : pc[v] \notin {"idle", "rescan"}
  BY <1>0 DEF StackInv
\* A worker that moves outside the idle section.
<1>4. ASSUME NEW w \in Workers, UNCHANGED <<idlers, shutdown>>,
             pc[w] \notin {"rescan", "asleep"}, pc'[w] \notin {"rescan", "asleep", "idle"},
             \A v \in Workers \ {w} :
               pc'[v] = pc[v] \/ (pc[v] = "parked" /\ pc'[v] = "unpark"),
             \/ UNCHANGED idleStack
             \/ WakeOne /\ \A v \in Workers : pc[v] # "rescan"
      PROVE  StackInv'
  <2>1. /\ \A v \in Workers : pc'[v] \in {"rescan", "asleep"} <=> pc[v] \in {"rescan", "asleep"}
        /\ \A v \in Workers : pc'[v] = "rescan" => pc[v] = "rescan"
        /\ \A v \in Workers : pc'[v] = "idle" => pc[v] = "idle"
    BY <1>4
  <2>2. \A v \in Workers : pc'[v] = "idle" => ~shutdown' BY <1>3, <1>4, <2>1
  <2> QED BY <1>4, <2>1, <2>2, StackKept
<1>5. ASSUME NEW w \in Workers, Enter(w) \/ ScanExit(w) \/ ScanFound(w) PROVE StackInv'
  <2>1. /\ UNCHANGED <<idlers, idleStack, shutdown>> /\ pc[w] \in {"start", "scan"}
        /\ pc'[w] \in {"scan", "exited", "claim"}
        /\ \A v \in Workers \ {w} : pc'[v] = pc[v]
    BY <1>2, <1>5 DEF Enter, ScanExit, ScanFound, poolVars, idleVars, envVars
  <2> QED BY <1>4, <2>1
<1>6. ASSUME NEW w \in Workers, ScanNothing(w) PROVE StackInv'
  <2>1. /\ UNCHANGED <<idlers, idleStack, shutdown>> /\ pc[w] = "scan" /\ ~shutdown
        /\ pc'[w] = "idle" /\ \A v \in Workers \ {w} : pc'[v] = pc[v]
    BY <1>2, <1>6 DEF ScanNothing, poolVars, idleVars, envVars
  <2>2. /\ \A v \in Workers : pc'[v] \in {"rescan", "asleep"} <=> pc[v] \in {"rescan", "asleep"}
        /\ \A v \in Workers : pc'[v] = "rescan" => pc[v] = "rescan"
    BY <2>1
  <2> QED BY <2>1, <2>2, StackKept
<1>7. ASSUME NEW w \in Workers, RegisterIdle(w) PROVE StackInv'
  <2>1. /\ pc[w] = "idle" /\ idlers' = idlers + 1 /\ idleStack' = Append(idleStack, w)
        /\ UNCHANGED shutdown /\ pc'[w] = "rescan" /\ \A v \in Workers \ {w} : pc'[v] = pc[v]
    BY <1>2, <1>7 DEF RegisterIdle, envVars
  <2>2. Idle' = Idle \cup {w} /\ w \notin Idle BY <2>1 DEF Idle
  <2>3. idlers' = Cardinality(Idle')
    BY <1>0, <2>1, <2>2, IdleFinite, FS_AddElement DEF StackInv
  <2>4. PICK n \in Nat : n = Len(idleStack) /\ DOMAIN idleStack = 1 .. n BY <1>1
  <2>5. /\ DOMAIN idleStack' = 1 .. n + 1 /\ idleStack'[n + 1] = w
        /\ \A i \in 1 .. n : idleStack'[i] = idleStack[i]
    BY <1>1, <2>1, <2>4
  <2>6. \A i \in 1 .. n : idleStack[i] \in Idle /\ idleStack[i] # w
    BY <1>0, <2>2, <2>4 DEF StackInv
  <2>7. \A i \in 1 .. n + 1 : i \in 1 .. n \/ i = n + 1 BY <2>4
  <2>8. \A i \in DOMAIN idleStack' : idleStack'[i] \in Idle' BY <2>2, <2>5, <2>6, <2>7
  <2>9. ASSUME NEW i \in DOMAIN idleStack', NEW k \in DOMAIN idleStack', idleStack'[i] = idleStack'[k]
        PROVE  i = k
    <3>1. \A a, b \in 1 .. n : idleStack[a] = idleStack[b] => a = b BY <1>0, <2>4 DEF StackInv
    <3> QED BY <2>5, <2>6, <2>7, <2>9, <3>1
  <2>10. ASSUME NEW v \in Workers, pc'[v] = "rescan" PROVE OnStack(v)'
    <3>1. n + 1 \in DOMAIN idleStack' BY <2>4, <2>5
    <3>2. CASE v = w BY <2>5, <3>1, <3>2 DEF OnStack
    <3>3. CASE v # w
      <4>1. pc[v] = "rescan" BY <2>1, <2>10, <3>3
      <4> QED BY <1>0, <2>1, <4>1 DEF LockInv, LockedPcs
    <3> QED BY <3>2, <3>3
  <2>11. ~shutdown' BY <1>3, <2>1
  <2> QED BY <2>3, <2>8, <2>9, <2>10, <2>11 DEF StackInv
<1>8. ASSUME NEW w \in Workers, Withdraw(w) PROVE StackInv'
  <2>1. /\ pc[w] = "rescan" /\ idlers' = idlers - 1 /\ StackRemove(w)
        /\ UNCHANGED shutdown /\ pc'[w] = "claim" /\ \A v \in Workers \ {w} : pc'[v] = pc[v]
    BY <1>2, <1>8 DEF Withdraw, envVars
  <2>2. Idle' = Idle \ {w} /\ w \in Idle BY <2>1 DEF Idle
  <2>3. idlers' = Cardinality(Idle')
    BY <1>0, <2>1, <2>2, IdleFinite, FS_RemoveElement DEF StackInv
  <2>4. OnStack(w) BY <1>0, <2>1 DEF StackInv
  <2>5. PICK n \in Nat : n = Len(idleStack) /\ DOMAIN idleStack = 1 .. n BY <1>1
  <2>6. PICK i \in 1 .. n :
          /\ idleStack[i] = w /\ idleStack' \in Seq(Workers) /\ Len(idleStack') = n - 1
          /\ \A k \in 1 .. n - 1 : idleStack'[k] = IF k = i THEN idleStack[n] ELSE idleStack[k]
    BY <1>1, <2>1, <2>4, <2>5, StackRemoveIs
  <2>7. DOMAIN idleStack' = 1 .. n - 1 BY <2>5, <2>6
  <2>8. \A a, b \in 1 .. n : idleStack[a] = idleStack[b] => a = b BY <1>0, <2>5 DEF StackInv
  <2>9. ASSUME NEW k \in 1 .. n - 1
        PROVE  \E a \in 1 .. n : /\ idleStack'[k] = idleStack[a] /\ a # i
                                 /\ a = n => k = i
                                 /\ a # n => a = k
    <3>1. k \in 1 .. n /\ k # n /\ n \in 1 .. n BY <2>5
    <3>2. CASE k = i BY <2>6, <3>1, <3>2
    <3>3. CASE k # i BY <2>6, <3>1, <3>3
    <3> QED BY <3>2, <3>3
  <2>10. ASSUME NEW k \in 1 .. n - 1 PROVE idleStack'[k] \in Idle'
    <3>1. PICK a \in 1 .. n : idleStack'[k] = idleStack[a] /\ a # i BY <2>9
    <3>2. idleStack[a] \in Idle BY <1>0, <2>5 DEF StackInv
    <3>3. idleStack[a] # w BY <2>6, <2>8, <3>1
    <3> QED BY <2>2, <3>1, <3>2, <3>3
  <2>11. ASSUME NEW k \in 1 .. n - 1, NEW m \in 1 .. n - 1, idleStack'[k] = idleStack'[m]
         PROVE  k = m
    <3>1. PICK a \in 1 .. n : /\ idleStack'[k] = idleStack[a] /\ a # i
                              /\ a = n => k = i
                              /\ a # n => a = k
      BY <2>9
    <3>2. PICK b \in 1 .. n : /\ idleStack'[m] = idleStack[b] /\ b # i
                              /\ b = n => m = i
                              /\ b # n => b = m
      BY <2>9
    <3>3. a = b BY <2>8, <2>11, <3>1, <3>2
    <3> QED BY <3>1, <3>2, <3>3
  <2>12. \A v \in Workers : pc'[v] # "rescan"
    BY <1>0, <2>1 DEF LockInv, LockedPcs
  <2>13. ~shutdown' BY <1>3, <2>1
  <2> QED BY <2>3, <2>7, <2>10, <2>11, <2>12, <2>13 DEF StackInv
<1>9. ASSUME NEW w \in Workers, Sleep(w) PROVE StackInv'
  <2>1. /\ UNCHANGED <<idlers, idleStack, shutdown>> /\ pc[w] = "rescan"
        /\ pc'[w] = "asleep" /\ \A v \in Workers \ {w} : pc'[v] = pc[v]
    BY <1>2, <1>9 DEF Sleep, poolVars, idleVars, envVars
  <2>2. /\ \A v \in Workers : pc'[v] \in {"rescan", "asleep"} <=> pc[v] \in {"rescan", "asleep"}
        /\ \A v \in Workers : pc'[v] = "rescan" => pc[v] = "rescan"
        /\ ~shutdown'
    BY <1>3, <2>1
  <2> QED BY <2>1, <2>2, StackKept
<1>10. ASSUME NEW w \in Workers, Resume(w) PROVE StackInv'
  <2>1. /\ pc[w] = "asleep" /\ idlers' = idlers - 1 /\ UNCHANGED <<idleStack, shutdown>>
        /\ ~OnStack(w) \/ shutdown
        /\ pc'[w] = "scan" /\ \A v \in Workers \ {w} : pc'[v] = pc[v]
    BY <1>2, <1>10 DEF Resume, envVars
  <2>2. Idle' = Idle \ {w} /\ w \in Idle BY <2>1 DEF Idle
  <2>3. idlers' = Cardinality(Idle')
    BY <1>0, <2>1, <2>2, IdleFinite, FS_RemoveElement DEF StackInv
  <2>4. ~OnStack(w) BY <1>3, <2>1 DEF OnStack
  <2>5. \A i \in DOMAIN idleStack : idleStack[i] \in Idle' BY <1>0, <2>2, <2>4 DEF StackInv, OnStack
  <2>6. \A v \in Workers : pc'[v] \in {"idle", "rescan"} => pc'[v] = pc[v] BY <2>1
  <2>7. \A v \in Workers : OnStack(v)' <=> OnStack(v) BY <2>1 DEF OnStack
  <2> QED BY <1>0, <1>3, <2>1, <2>3, <2>5, <2>6, <2>7 DEF StackInv
<1>11. ASSUME NEW w \in Workers, Cascade(w) PROVE StackInv'
  <2>1. /\ pc[w] = "cascade" /\ UNCHANGED <<idlers, shutdown>> /\ pc'[w] \in {"unit", "cell"}
        /\ \A v \in Workers \ {w} : pc'[v] = pc[v]
        /\ WakeOne \/ UNCHANGED idleStack
    BY <1>2, <1>11 DEF Cascade, CascadeWake, envVars
  <2>2. mtx = w BY <1>0, <2>1 DEF LockInv, LockedPcs
  <2>3. \A v \in Workers : pc[v] # "rescan" BY <1>0, <2>1, <2>2, NoRescan
  <2> QED BY <1>4, <2>1, <2>3
<1>12. ASSUME NEW w \in Workers, Moves(w) PROVE StackInv'
  <2>1. /\ pc[w] \in RowPcs /\ pc'[w] \in RowPcs
        /\ \A v \in Workers \ {w} : pc'[v] = pc[v] \/ (pc[v] = "parked" /\ pc'[v] = "unpark")
    BY <1>0, <1>12, MovesIs
  <2>2. UNCHANGED <<idlers, shutdown>>
    BY <1>12 DEF Moves, CheckAbove, Stall, Enlist, Park, Unpark, Delist, PeekRowWaiter, WakeRow, PeekIdle, WakeIdle,
       FastPeek, poolVars, idleVars, envVars
  <2>3. UNCHANGED idleStack \/ (WakeOne /\ mtx = None)
    BY <1>12 DEF Moves, CheckAbove, Stall, Enlist, Park, Unpark, Delist, PeekRowWaiter, WakeRow, PeekIdle, WakeIdle,
       FastPeek, poolVars, idleVars
  <2>4. mtx = None => \A v \in Workers : pc[v] # "rescan" BY <1>0, NoRescan
  <2> QED BY <1>4, <2>1, <2>2, <2>3, <2>4 DEF RowPcs
<1>13. ASSUME NEW w \in Workers,
              \/ ClaimUnit(w) \/ ClaimRow(w) \/ NextUnit(w) \/ FastClaim(w) \/ FastCount(w)
              \/ RunCell(w) \/ RunUnit(w) \/ FinishRow(w) \/ FinishFor(w)
       PROVE  StackInv'
  <2>1. /\ UNCHANGED <<idlers, idleStack, shutdown>>
        /\ pc[w] \in {"claim", "nextunit", "fastclaim", "fastcount", "body", "unit", "finish", "finishfor"}
        /\ pc'[w] \in {"scan", "cascade", "unit", "finishfor", "fastcount", "finish", "cell", "peekrow", "nextunit"}
        /\ \A v \in Workers \ {w} : pc'[v] = pc[v]
    BY <1>2, <1>13 DEF ClaimUnit, ClaimRow, NextUnit, FastClaim, FastCount, RunCell, RunUnit,
       FinishRow, FinishFor, idleVars, envVars
  <2> QED BY <1>4, <2>1
\* The workers do not move.
<1>14. ASSUME UNCHANGED <<idlers, pc>>, UNCHANGED shutdown \/ (idleStack' = <<>> /\ mtx = None),
              \/ UNCHANGED idleStack
              \/ (WakeOne \/ WakeAll) /\ mtx = None
       PROVE  StackInv'
  <2>1. mtx = None => \A v \in Workers : pc[v] \notin {"rescan", "idle"}
    BY <1>0, PoolAssumption DEF LockInv, LockedPcs
  <2>2. \A v \in Workers : pc'[v] = "idle" => ~shutdown' BY <1>3, <1>14, <2>1
  <2> QED BY <1>14, <2>1, <2>2, StackKept
<1>15. ASSUME NEW s \in Submitters, QuietCall(s) \/ SerialCell(s) \/ Join(s) \/ Register(s)
       PROVE  StackInv'
  <2>1. UNCHANGED <<idlers, pc, shutdown>> /\ (UNCHANGED idleStack \/ (WakeOne /\ mtx = None))
    BY <1>15, QuietCallIs DEF Join, SerialCell, Register, poolVars, idleVars, workVars
  <2> QED BY <1>14, <2>1
<1>16. CASE External \/ UNCHANGED vars
  <2>1. UNCHANGED <<idlers, pc>>
    BY <1>16, ExternalIs DEF vars, poolVars, idleVars, workVars
  <2>2. /\ UNCHANGED shutdown \/ (idleStack' = <<>> /\ mtx = None)
        /\ UNCHANGED idleStack \/ (WakeAll /\ mtx = None)
    BY <1>16 DEF vars, poolVars, idleVars, envVars, External, PublishRow, Kick, Destroy, WakeAll
  <2> QED BY <1>14, <2>1, <2>2
<1> QED BY <1>5, <1>6, <1>7, <1>8, <1>9, <1>10, <1>11, <1>12, <1>13, <1>15, <1>16,
           Steps DEF QuietWork, Moves

-----------------------------------------------------------------------------
(* Wakeups from row to row. *)

\* A worker on its way to wake the row below its own.
Wakes(v, w) == /\ pc[v] \in {"peekrow", "wakerow"}
               /\ slot[v] = slot[w] /\ row[v] = row[w] - 1
Watched(w) == pc[w] = "parked" /\ AboveDone(w) => \E v \in Workers : Wakes(v, w)

LEMMA CvIs ==
    ASSUME NEW j \in Slots, NEW r \in Nat
    PROVE  CvOf(j, r) \in 0 .. CvSlots - 1
<1>1. j \in Nat BY PoolAssumption DEF Slots
<1>2. CvStride \in Nat /\ CvSlots \in Nat \ {0} BY PoolAssumption
<1>3. j * CvStride \in Nat BY <1>1, <1>2
<1>4. PICK q \in Nat : q = j * CvStride + r BY <1>3
<1>5. q % CvSlots \in 0 .. CvSlots - 1 BY <1>2
<1> QED BY <1>4, <1>5 DEF CvOf

LEMMA RowWakeStep == IInv /\ [Next]_vars => NoLostRowWake'
<1> SUFFICES ASSUME IInv, [Next]_vars PROVE NoLostRowWake' OBVIOUS
<1>0. /\ TypeOK /\ WaitersInv
      /\ \A w \in Workers : Watched(w)
  BY DEF IInv, NoLostRowWake, Watched, Wakes
<1>1. /\ pc \in [Workers -> WorkerPcs] /\ slot \in [Workers -> Slots]
      /\ row \in [Workers -> RowIdx \cup {0}] /\ progress \in [Slots -> [RowIdx -> Nat]]
      /\ wslot \in [0 .. CvSlots - 1 -> Int] /\ col \in [Workers -> Nat]
  BY <1>0 DEF TypeOK
<1>2. SUFFICES ASSUME NEW w \in Workers, pc'[w] = "parked", AboveDone(w)'
               PROVE  \E v \in Workers : Wakes(v, w)'
  BY DEF NoLostRowWake, Wakes
<1>3. ASSUME NEW v \in Workers, NEW l, GoTo(v, l)
      PROVE  pc'[v] = l /\ \A u \in Workers \ {v} : pc'[u] = pc[u]
  BY <1>1, <1>3 DEF GoTo
\* The sleeper slept before, its row above was as far, and its waker stays.
<1>4. ASSUME pc[w] = "parked", AboveDone(w)' => AboveDone(w), slot'[w] = slot[w], row'[w] = row[w],
             \A v \in Workers : pc[v] \in {"peekrow", "wakerow"} =>
               pc'[v] = pc[v] /\ slot'[v] = slot[v] /\ row'[v] = row[v]
      PROVE  \E v \in Workers : Wakes(v, w)'
  <2>1. PICK v \in Workers : Wakes(v, w) BY <1>0, <1>2, <1>4 DEF Watched
  <2>2. Wakes(v, w)' BY <1>4, <2>1 DEF Wakes
  <2> QED BY <2>2
\* A step that is no one's progress, and of no one who wakes.
<1>5. ASSUME NEW v \in Workers, UNCHANGED <<jctx, progress>>,
             pc[v] \notin {"peekrow", "wakerow"}, pc'[v] # "parked",
             \A u \in Workers \ {v} :
               pc'[u] = pc[u] /\ slot'[u] = slot[u] /\ row'[u] = row[u] /\ col'[u] = col[u]
      PROVE  \E u \in Workers : Wakes(u, w)'
  <2>1. w # v BY <1>2, <1>5
  <2>2. AboveDone(w)' => AboveDone(w) BY <1>5, <2>1 DEF AboveDone, Need
  <2> QED BY <1>2, <1>4, <1>5, <2>1, <2>2
<1>6. ASSUME NEW v \in Workers, Waits(v) PROVE \E u \in Workers : Wakes(u, w)'
  <2>1. UNCHANGED <<jctx, progress>>
    BY <1>6 DEF Waits, Enter, ScanExit, ScanNothing, RegisterIdle, Sleep, Resume, poolVars, jobVars, regVars
  <2> QED BY <1>0, <1>5, <1>6, <2>1, WaitsIs DEF wrkVars, posVars
<1>7. ASSUME NEW v \in Workers, ScanFound(v) \/ Withdraw(v) \/ Cascade(v) PROVE \E u \in Workers : Wakes(u, w)'
  <2>1. /\ UNCHANGED <<jctx, progress, row>> /\ pc[v] \in {"scan", "rescan", "cascade"}
        /\ pc'[v] \in {"claim", "unit", "cell"}
        /\ \A u \in Workers \ {v} : pc'[u] = pc[u] /\ slot'[u] = slot[u] /\ col'[u] = col[u]
    BY <1>1, <1>3, <1>7 DEF ScanFound, Withdraw, Cascade, poolVars, jobVars, regVars
  <2> QED BY <1>5, <2>1
<1>8. ASSUME NEW v \in Workers,
             ClaimUnit(v) \/ ClaimRow(v) \/ NextUnit(v) \/ FastClaim(v) \/ FastCount(v)
      PROVE \E u \in Workers : Wakes(u, w)'
  <2>1. /\ UNCHANGED <<jctx, progress, slot>>
        /\ pc[v] \in {"claim", "nextunit", "fastclaim", "fastcount"}
        /\ pc'[v] \in {"scan", "cascade", "unit", "finishfor", "fastcount", "finish", "cell"}
        /\ \A u \in Workers \ {v} : pc'[u] = pc[u] /\ row'[u] = row[u] /\ col'[u] = col[u]
    BY <1>1, <1>3, <1>8 DEF ClaimUnit, ClaimRow, NextUnit, FastClaim, FastCount, regVars
  <2> QED BY <1>5, <2>1
<1>9. ASSUME NEW v \in Workers, RunUnit(v) \/ FinishRow(v) \/ FinishFor(v)
      PROVE \E u \in Workers : Wakes(u, w)'
  <2>1. /\ UNCHANGED <<jctx, progress, slot, row, col>> /\ pc[v] \in {"unit", "finish", "finishfor"}
        /\ pc'[v] \in {"finishfor", "nextunit", "scan"}
        /\ \A u \in Workers \ {v} : pc'[u] = pc[u]
    BY <1>1, <1>3, <1>9 DEF RunUnit, FinishRow, FinishFor, regVars, wrkVars, posVars
  <2> QED BY <1>5, <2>1
<1>10. ASSUME NEW v \in Workers, CheckAbove(v) \/ Stall(v) \/ Enlist(v) \/ Unpark(v) \/ Delist(v) \/ FastPeek(v)
       PROVE \E u \in Workers : Wakes(u, w)'
  <2>1. /\ UNCHANGED <<jctx, progress, slot, row, col>> /\ pc[v] \in {"cell", "stall", "enlist", "unpark", "delist", "fast"}
        /\ pc'[v] \in {"body", "stall", "enlist", "park", "fastclaim", "finish"}
        /\ \A u \in Workers \ {v} : pc'[u] = pc[u]
    BY <1>3, <1>10 DEF CheckAbove, Stall, Enlist, Unpark, Delist, FastPeek, poolVars, jobVars, regVars, wrkVars, posVars
  <2> QED BY <1>5, <2>1
<1>11. ASSUME NEW v \in Workers, PeekIdle(v) \/ WakeIdle(v) PROVE \E u \in Workers : Wakes(u, w)'
  <2>1. /\ UNCHANGED <<jctx, progress, slot, row>> /\ pc[v] \in {"peekidle", "wakeidle"}
        /\ pc'[v] \in {"wakeidle", "cell", "fast"}
        /\ \A u \in Workers \ {v} : pc'[u] = pc[u] /\ col'[u] = col[u]
    BY <1>1, <1>3, <1>11 DEF PeekIdle, WakeIdle, NextCell, poolVars, jobVars, regVars
  <2> QED BY <1>5, <2>1
\* Who goes to sleep has looked.
<1>12. ASSUME NEW v \in Workers, Park(v) PROVE \E u \in Workers : Wakes(u, w)'
  <2>1. /\ UNCHANGED <<jctx, progress, slot, row, col>> /\ pc[v] = "park"
        /\ pc'[v] \in {"parked", "delist"}
        /\ pc'[v] = "parked" => ~AboveDone(v)
        /\ \A u \in Workers \ {v} : pc'[u] = pc[u]
    BY <1>3, <1>12 DEF Park, poolVars, jobVars, regVars, wrkVars, posVars
  <2>2. AboveDone(w)' => AboveDone(w) BY <2>1 DEF AboveDone, Need
  <2>3. w # v BY <1>2, <2>1, <2>2
  <2> QED BY <1>2, <1>4, <2>1, <2>2, <2>3
<1>13. ASSUME NEW v \in Workers, RunCell(v) PROVE \E u \in Workers : Wakes(u, w)'
  <2>1. /\ UNCHANGED <<jctx, slot, row, col>> /\ pc[v] = "body" /\ pc'[v] = "peekrow"
        /\ progress' = [progress EXCEPT ![slot[v]][row[v]] = col[v] + 1]
        /\ \A u \in Workers \ {v} : pc'[u] = pc[u]
    BY <1>3, <1>13 DEF RunCell, regVars, wrkVars, posVars
  <2>2. w # v /\ pc[w] = "parked" BY <1>2, <2>1
  <2>3. CASE slot[v] = slot[w] /\ row[v] = row[w] - 1
    <3>1. Wakes(v, w)' BY <2>1, <2>3 DEF Wakes
    <3> QED BY <3>1
  <2>4. CASE ~(slot[v] = slot[w] /\ row[v] = row[w] - 1)
    <3>1. progress'[slot[w]][row[w] - 1] = progress[slot[w]][row[w] - 1]
      BY <1>1, <2>1, <2>4
    <3>2. AboveDone(w)' => AboveDone(w) BY <2>1, <3>1 DEF AboveDone, Need
    <3> QED BY <1>4, <2>1, <2>2, <3>2
  <2> QED BY <2>3, <2>4
\* The waker sees the sleeper registered.
<1>14. ASSUME NEW v \in Workers, PeekRowWaiter(v) PROVE \E u \in Workers : Wakes(u, w)'
  <2>1. /\ UNCHANGED <<jctx, progress, slot, row, col>> /\ pc[v] = "peekrow"
        /\ pc'[v] = IF wslot[CvOf(slot[v], row[v] + 1)] > 0 THEN "wakerow" ELSE "peekidle"
        /\ \A u \in Workers \ {v} : pc'[u] = pc[u]
    BY <1>3, <1>14 DEF PeekRowWaiter, poolVars, jobVars, regVars, wrkVars, posVars
  <2>2. w # v /\ pc[w] = "parked" BY <1>2, <2>1
  <2>3. AboveDone(w) BY <1>2, <2>1 DEF AboveDone, Need
  <2>4. PICK u \in Workers : Wakes(u, w) BY <1>0, <2>2, <2>3 DEF Watched
  <2>5. CASE u # v
    <3>1. Wakes(u, w)' BY <2>1, <2>4, <2>5 DEF Wakes
    <3> QED BY <3>1
  <2>6. CASE u = v
    <3>1. row[v] = row[w] - 1 /\ slot[v] = slot[w] BY <2>4, <2>6 DEF Wakes
    <3>2. row[w] \in Nat /\ row[v] + 1 = row[w]
      <4>1. MaxRows \in Nat BY PoolAssumption
      <4>2. row[w] \in RowIdx \cup {0} BY <1>1
      <4>3. row[w] \in Nat BY <4>1, <4>2 DEF RowIdx
      <4> QED BY <3>1, <4>3
    <3>3. PICK k \in 0 .. CvSlots - 1 : k = CvOf(slot[w], row[w]) BY <1>1, <3>2, CvIs
    <3>4. w \in Registered(k) BY <2>2, <3>3 DEF Registered
    <3>5. Cardinality(Registered(k)) # 0 BY <3>4, RegisteredFinite, FS_EmptySet
    <3>6. wslot[k] > 0 BY <1>0, <3>5, RegisteredFinite DEF WaitersInv
    <3>7. pc'[v] = "wakerow" BY <2>1, <3>1, <3>2, <3>3, <3>6
    <3>8. Wakes(v, w)' BY <2>1, <3>1, <3>7 DEF Wakes
    <3> QED BY <3>8
  <2> QED BY <2>5, <2>6
\* The broadcast reaches every sleeper of the row below.
<1>15. ASSUME NEW v \in Workers, WakeRow(v) PROVE \E u \in Workers : Wakes(u, w)'
  <2>1. /\ UNCHANGED <<jctx, progress, slot, row, col>> /\ pc[v] = "wakerow" /\ pc'[v] = "peekidle"
        /\ \A u \in Workers \ {v} :
             pc'[u] = IF pc[u] = "parked" /\ CvOf(slot[u], row[u]) = CvOf(slot[v], row[v] + 1)
                      THEN "unpark" ELSE pc[u]
    BY <1>15 DEF WakeRow, poolVars, jobVars, regVars, wrkVars, posVars
  <2>2. /\ w # v /\ pc[w] = "parked"
        /\ CvOf(slot[w], row[w]) # CvOf(slot[v], row[v] + 1)
    BY <1>2, <2>1
  <2>3. AboveDone(w) BY <1>2, <2>1 DEF AboveDone, Need
  <2>4. PICK u \in Workers : Wakes(u, w) BY <1>0, <2>2, <2>3 DEF Watched
  <2>5. u # v
    <3>1. SUFFICES ASSUME u = v PROVE FALSE OBVIOUS
    <3>2. row[v] = row[w] - 1 /\ slot[v] = slot[w] BY <2>4, <3>1 DEF Wakes
    <3>3. row[v] + 1 = row[w]
      <4>1. MaxRows \in Nat BY PoolAssumption
      <4>2. row[w] \in RowIdx \cup {0} BY <1>1
      <4>3. row[w] \in Nat BY <4>1, <4>2 DEF RowIdx
      <4> QED BY <3>2, <4>3
    <3> QED BY <2>2, <3>2, <3>3
  <2>6. Wakes(u, w)' BY <2>1, <2>4, <2>5 DEF Wakes
  <2> QED BY <2>6
<1>16. ASSUME UNCHANGED workVars,
              pc[w] = "parked" => jctx'[slot[w]] = jctx[slot[w]] /\ progress'[slot[w]] = progress[slot[w]]
       PROVE  \E u \in Workers : Wakes(u, w)'
  <2>1. AboveDone(w)' => AboveDone(w)
    BY <1>2, <1>16 DEF AboveDone, Need, workVars, wrkVars, posVars
  <2> QED BY <1>2, <1>4, <1>16, <2>1 DEF workVars, wrkVars, posVars
<1>17. ASSUME NEW s \in Submitters, QuietCall(s) \/ SerialCell(s) \/ Join(s)
       PROVE  \E u \in Workers : Wakes(u, w)'
  <2>1. UNCHANGED <<workVars, jctx, progress>>
    BY <1>17, QuietCallIs DEF Join, SerialCell, poolVars, jobVars, regVars
  <2> QED BY <1>16, <2>1
<1>18. ASSUME NEW s \in Submitters, Register(s) PROVE \E u \in Workers : Wakes(u, w)'
  <2>1. PICK f \in Slots, x \in Ctxs :
          /\ ~used[f] /\ jctx' = [jctx EXCEPT ![f] = x]
          /\ \/ /\ Kind[x] = "wavefront"
                /\ progress' = [progress EXCEPT ![f] =
                                  [r \in RowIdx |-> IF r < NRows[x] THEN 0 ELSE @[r]]]
                /\ counted' = [counted EXCEPT ![f] = {}]
             \/ Kind[x] # "wavefront" /\ UNCHANGED <<progress, counted>>
    BY ZenonT(40), <1>18, RegisterIs
  <2>2. UNCHANGED workVars BY <1>18 DEF Register
  <2>3. pc[w] = "parked" BY <1>2, <2>2 DEF workVars
  <2>4. pc[w] \in LivePcs BY <2>3 DEF LivePcs, RowPcs
  <2>5. slot[w] \in Slots /\ slot[w] # f BY <2>1, <2>4, LiveGrid
  <2>6. jctx \in [Slots -> Ctxs \cup {None}] BY <1>0 DEF TypeOK
  <2>7. jctx'[slot[w]] = jctx[slot[w]] /\ progress'[slot[w]] = progress[slot[w]]
    BY <1>1, <2>1, <2>5, <2>6
  <2> QED BY <1>16, <2>2, <2>7
<1>19. CASE External \/ UNCHANGED vars
  <2>1. UNCHANGED <<workVars, jctx, progress>>
    BY <1>19, ExternalIs DEF vars, poolVars, jobVars, regVars
  <2> QED BY <1>16, <2>1
<1> QED BY <1>6, <1>7, <1>8, <1>9, <1>10, <1>11, <1>12, <1>13, <1>14, <1>15, <1>17, <1>18, <1>19,
           Steps DEF QuietWork, Waits

-----------------------------------------------------------------------------
(* Wakeups of idle workers. *)

Flying(w) ==
    \/ pc[w] = "start"
    \/ pc[w] = "asleep" /\ ~OnStack(w)
    \/ pc[w] = "wakeidle"
    \/ /\ pc[w] \in {"peekrow", "wakerow", "peekidle"}
       /\ col[w] + 1 = StartNeed(jctx[slot[w]])
OnlyParks == \A w \in Workers : pc[w] \in LockedPcs => pc[w] \in {"enlist", "park", "delist"}

LEMMA WakeInFlightIs == WakeInFlight <=> ppc = "kick" \/ \E w \in Workers : Flying(w)
  BY DEF WakeInFlight, Flying

LEMMA ReadyKept ==
    ASSUME UNCHANGED <<used, done, jctx, claimw, nextRow, progress, pub>>
    PROVE  Ready' = Ready
  BY DEF Ready, NextReady, RowsClaimed, Startable, RowReady, StartNeed

\* No job becomes ready, no wakeup is dropped.
LEMMA IdleWakeKept ==
    ASSUME IdleWakeInv, UNCHANGED idleStack, Ready' \subseteq Ready,
           OnlyParks' => OnlyParks, ppc = "kick" => ppc' = "kick",
           \A v \in Workers : Flying(v) => Flying(v)'
    PROVE  IdleWakeInv'
<1>1. WakeInFlight => WakeInFlight'
  <2>1. SUFFICES ASSUME WakeInFlight PROVE ppc' = "kick" \/ \E w \in Workers : Flying(w)'
    BY WakeInFlightIs DEF Flying, WakeInFlight
  <2> QED BY <2>1, WakeInFlightIs
<1>2. IdleWakeInv <=> (OnlyParks => (Ready # {} /\ idleStack # <<>> => WakeInFlight))
  BY DEF IdleWakeInv, OnlyParks
<1>3. IdleWakeInv' <=> (OnlyParks' => (Ready' # {} /\ idleStack' # <<>> => WakeInFlight'))
  BY DEF IdleWakeInv, OnlyParks
<1> QED BY <1>1, <1>2, <1>3

\* What is left to show when a wakeup is under way after the step.
LEMMA IdleWakeNow ==
    ASSUME OnlyParks' /\ Ready' # {} /\ idleStack' # <<>> =>
             ppc' = "kick" \/ \E v \in Workers : Flying(v)'
    PROVE  IdleWakeInv'
<1>1. (ppc' = "kick" \/ \E v \in Workers : Flying(v)') => WakeInFlight'
  BY DEF WakeInFlight, Flying
<1>2. IdleWakeInv' <=> (OnlyParks' => (Ready' # {} /\ idleStack' # <<>> => WakeInFlight'))
  BY DEF IdleWakeInv, OnlyParks
<1> QED BY <1>1, <1>2

\* A worker woken with the mutex held or free is in flight.
LEMMA WokenFlies ==
    ASSUME IInv, WakeOne, idleStack # <<>>, \A v \in Workers : pc[v] # "rescan",
           \A v \in Workers : pc[v] = "asleep" => pc'[v] = "asleep"
    PROVE  \E v \in Workers : Flying(v)'
<1>1. PICK v \in Workers : pc[v] = "asleep" /\ ~OnStack(v)' BY WokenIs
<1>2. Flying(v)' BY <1>1 DEF Flying
<1> QED BY <1>2

\* A cell that opens no row below changes no job's readiness.
LEMMA ReadyAfterCell ==
    ASSUME IInv, NEW w \in Workers, RunCell(w), col[w] + 1 # StartNeed(jctx[slot[w]])
    PROVE  Ready' \subseteq Ready
<1>0. TypeOK /\ JobInv BY DEF IInv
<1>1. /\ progress \in [Slots -> [RowIdx -> Nat]] /\ col[w] \in Nat
      /\ nextRow \in [Slots -> 0 .. MaxRows] /\ MaxRows \in Nat
  BY <1>0, PoolAssumption DEF TypeOK
<1>2. pc[w] = "body" /\ progress' = [progress EXCEPT ![slot[w]][row[w]] = col[w] + 1]
      /\ UNCHANGED <<used, done, jctx, claimw, nextRow, pub>>
  BY DEF RunCell, regVars, envVars, extVars
<1>3. pc[w] \in LivePcs /\ pc[w] \in RowPcs BY <1>2 DEF LivePcs, RowPcs
<1>4. PICK i \in Slots, q \in RowIdx : i = slot[w] /\ q = row[w] /\ progress[i][q] = col[w]
  <2>1. /\ slot[w] \in Slots /\ NRows[jctx[slot[w]]] \in 1 .. MaxRows
        /\ row[w] \in 0 .. NRows[jctx[slot[w]]] - 1
    BY <1>3, LiveGrid
  <2>2. row[w] \in RowIdx BY <1>1, <2>1 DEF RowIdx
  <2>3. progress[slot[w]][row[w]] = col[w] BY <1>2 DEF IInv, CellInv, CellsOf, BeforePcs
  <2> QED BY <2>1, <2>2, <2>3
<1>5. SUFFICES ASSUME NEW j \in Slots, NextReady(j)' PROVE NextReady(j) BY DEF Ready
<1>6. RowsClaimed(j)' = RowsClaimed(j) BY <1>2 DEF RowsClaimed
<1>7. Kind[jctx[j]] = "for" \/ Startable(j, nextRow[j])
  <2>1. SUFFICES ASSUME Startable(j, nextRow[j])', Kind[jctx[j]] # "for" PROVE Startable(j, nextRow[j])
    BY <1>2, <1>5 DEF NextReady
  <2>2. CASE nextRow[j] = 0 BY <1>2, <2>1, <2>2 DEF Startable, RowReady
  <2>3. CASE nextRow[j] # 0
    <3>1. progress'[j][nextRow[j] - 1] >= StartNeed(jctx[j])
      BY <1>2, <2>1, <2>3 DEF Startable, StartNeed
    <3>2. nextRow[j] - 1 \in RowIdx BY <1>1, <2>3 DEF RowIdx
    <3>3. progress'[j][nextRow[j] - 1] = IF j = i /\ nextRow[j] - 1 = q THEN col[w] + 1
                                         ELSE progress[j][nextRow[j] - 1]
      BY <1>1, <1>2, <1>4, <3>2
    <3>4. StartNeed(jctx[j]) \in Nat
      <4>1. jctx[j] # None BY <1>0, <1>2, <1>5 DEF NextReady, JobInv, SlotOf
      <4>2. NCols[jctx[j]] \in Nat \ {0} BY <1>0, <4>1, GridOf
      <4> QED BY <4>2 DEF StartNeed
    <3>5. progress[j][nextRow[j] - 1] >= StartNeed(jctx[j])
      <4>1. CASE j = i /\ nextRow[j] - 1 = q
        <5>1. col[w] + 1 >= StartNeed(jctx[j]) BY <3>1, <3>3, <4>1
        <5>2. col[w] + 1 # StartNeed(jctx[j]) BY <1>4, <4>1
        <5>3. PICK n \in Nat, c \in Nat : n = StartNeed(jctx[j]) /\ c = col[w] BY <1>1, <3>4
        <5>4. c + 1 >= n /\ c + 1 # n BY <5>1, <5>2, <5>3
        <5>5. c >= n BY <5>4
        <5> QED BY <1>4, <4>1, <5>3, <5>5
      <4>2. CASE ~(j = i /\ nextRow[j] - 1 = q) BY <3>1, <3>3, <4>2
      <4> QED BY <4>1, <4>2
    <3> QED BY <1>2, <2>1, <3>5 DEF Startable, RowReady
  <2> QED BY <2>2, <2>3
<1> QED BY <1>2, <1>5, <1>6, <1>7 DEF NextReady

\* The row after a claimed one cannot start yet.
LEMMA ReadyAfterFast ==
    ASSUME IInv, NEW w \in Workers, FastClaim(w)
    PROVE  Ready' \subseteq Ready
<1>0. TypeOK /\ JobInv BY DEF IInv
<1>1. pc[w] = "fastclaim" /\ UNCHANGED <<used, done, jctx, claimw, progress, pub>>
  BY DEF FastClaim, regVars, envVars, extVars
<1>2. CASE UNCHANGED nextRow BY <1>1, <1>2, ReadyKept
<1>3. CASE ~UNCHANGED nextRow
  <2>1. pc[w] \in LivePcs /\ pc[w] \in RowPcs BY <1>1 DEF LivePcs, RowPcs
  <2>2. PICK i \in Slots, q \in Nat :
          /\ i = slot[w] /\ q = nextRow[i] /\ Wave(jctx[i]) /\ q < NRows[jctx[i]]
          /\ NRows[jctx[i]] \in Nat /\ NCols[jctx[i]] \in Nat \ {0}
          /\ nextRow' = [nextRow EXCEPT ![i] = q + 1]
    <3>1. /\ slot[w] \in Slots /\ NRows[jctx[slot[w]]] \in 1 .. MaxRows /\ MaxRows \in Nat
          /\ NCols[jctx[slot[w]]] \in Nat \ {0} /\ Wave(jctx[slot[w]])
      BY <2>1, LiveGrid, PoolAssumption DEF Wave
    <3>2. nextRow[slot[w]] \in Nat BY <1>0, <3>1 DEF TypeOK
    <3> QED BY <1>3, <3>1, <3>2 DEF FastClaim, RowsLeft, FastRow
  <2>3. progress[i][q] = 0
    <3>1. q \in 0 .. NRows[jctx[i]] - 1 /\ q >= nextRow[i] BY <2>2
    <3> QED BY <2>2, <3>1, FreshRow
  <2>4. SUFFICES ASSUME NEW j \in Slots, NextReady(j)' PROVE NextReady(j) BY DEF Ready
  <2>5. nextRow'[i] = q + 1 /\ \A k \in Slots \ {i} : nextRow'[k] = nextRow[k]
    BY <1>0, <2>2 DEF TypeOK
  <2>6. CASE j # i
    <3>1. RowsClaimed(j)' = RowsClaimed(j) BY <1>1, <2>5, <2>6 DEF RowsClaimed
    <3>2. Startable(j, nextRow[j])' = Startable(j, nextRow[j])
      BY <1>1, <2>5, <2>6 DEF Startable, RowReady, StartNeed
    <3> QED BY <1>1, <2>4, <2>5, <2>6, <3>1, <3>2 DEF NextReady
  <2>7. CASE j = i
    <3>1. Startable(j, nextRow[j])' BY <1>1, <2>2, <2>4, <2>7 DEF NextReady, Wave
    <3>2. progress[i][q + 1 - 1] >= StartNeed(jctx[i])
      BY <1>1, <2>2, <2>5, <2>7, <3>1 DEF Startable, StartNeed
    <3>3. q + 1 - 1 = q /\ StartNeed(jctx[i]) > 0 /\ StartNeed(jctx[i]) \in Nat
      BY <2>2 DEF StartNeed
    <3> QED BY <2>3, <3>2, <3>3
  <2> QED BY <2>6, <2>7
<1> QED BY <1>2, <1>3

LEMMA IdleWakeStep == IInv /\ [Next]_vars => IdleWakeInv'
<1> SUFFICES ASSUME IInv, [Next]_vars PROVE IdleWakeInv' OBVIOUS
<1>0. TypeOK /\ LockInv /\ StackInv /\ IdleWakeInv BY DEF IInv
<1>1. pc \in [Workers -> WorkerPcs] /\ col \in [Workers -> Nat] /\ idleStack \in Seq(Workers)
  BY <1>0 DEF TypeOK
<1>2. ASSUME NEW w \in Workers, NEW l, GoTo(w, l)
      PROVE  pc'[w] = l /\ \A v \in Workers \ {w} : pc'[v] = pc[v]
  BY <1>1, <1>2 DEF GoTo
<1>3. mtx = None => \A v \in Workers : pc[v] # "rescan" BY <1>0, NoRescan
\* With nobody idle the stack is empty.
<1>4. idlers = 0 => idleStack = <<>>
  <2>1. SUFFICES ASSUME idlers = 0, idleStack # <<>> PROVE FALSE OBVIOUS
  <2>2. Cardinality(Idle) = 0 BY <1>0, <2>1 DEF StackInv
  <2>3. Idle = {} BY <2>2, IdleFinite, FS_EmptySet
  <2>4. 1 \in DOMAIN idleStack
    <3>1. Len(idleStack) \in Nat \ {0} BY <1>1, <2>1, EmptySeq
    <3> QED BY <1>1, <3>1
  <2> QED BY <1>0, <2>3, <2>4 DEF StackInv
\* The step ends inside the claim loop, with the mutex held.
<1>5. ASSUME NEW w \in Workers,
             \/ Enter(w) \/ ScanFound(w) \/ ScanNothing(w) \/ RegisterIdle(w) \/ Withdraw(w)
             \/ Resume(w) \/ ClaimUnit(w) \/ ClaimRow(w) \/ FinishRow(w) \/ FinishFor(w)
      PROVE  IdleWakeInv'
  <2>1. pc'[w] \in {"scan", "claim", "idle", "rescan", "cascade"}
    BY <1>2, <1>5 DEF Enter, ScanFound, ScanNothing, RegisterIdle, Withdraw, Resume, ClaimUnit,
       ClaimRow, FinishRow, FinishFor
  <2>2. ~OnlyParks'
    BY <2>1 DEF OnlyParks, LockedPcs
  <2> QED BY <2>2, IdleWakeNow
\* The worker lets the mutex go with nothing to claim.
<1>6. ASSUME NEW w \in Workers, ScanExit(w) \/ Sleep(w) PROVE IdleWakeInv'
  <2>1. Ready = {} /\ UNCHANGED <<used, done, jctx, claimw, nextRow, progress, pub>>
    BY <1>6 DEF ScanExit, Sleep, RescanFinds, poolVars, jobVars, regVars, envVars, extVars
  <2> QED BY <2>1, ReadyKept, IdleWakeNow
\* The cascade hands the wake on.
<1>7. ASSUME NEW w \in Workers, Cascade(w) PROVE IdleWakeInv'
  <2>1. /\ pc[w] = "cascade" /\ UNCHANGED <<used, done, jctx, claimw, nextRow, progress, pub>>
        /\ CascadeWake /\ \A v \in Workers \ {w} : pc'[v] = pc[v]
    BY <1>2, <1>7 DEF Cascade, jobVars, regVars, envVars, extVars
  <2>2. Ready' = Ready BY <2>1, ReadyKept
  <2>3. mtx = w BY <1>0, <2>1 DEF LockInv, LockedPcs
  <2>4. \A v \in Workers : pc[v] # "rescan" BY <1>0, <2>1, <2>3, NoRescan
  <2>5. \A v \in Workers : pc[v] = "asleep" => pc'[v] = "asleep" BY <2>1
  <2>6. CASE WakeOne /\ idleStack # <<>>
    BY <2>4, <2>5, <2>6, WokenFlies, IdleWakeNow
  <2>7. CASE idleStack = <<>>
    <3>1. idleStack' = <<>> BY <2>1, <2>7 DEF CascadeWake, WakeOne
    <3> QED BY <3>1, IdleWakeNow
  <2>8. CASE ~WakeOne /\ idleStack # <<>>
    <3>1. ~(idlers > 0 /\ Ready # {}) BY <2>1, <2>8 DEF CascadeWake
    <3>2. idlers # 0 BY <1>4, <2>8
    <3>3. idlers \in Nat BY <1>0, IdleFinite DEF StackInv
    <3>4. Ready = {} BY <3>1, <3>2, <3>3
    <3> QED BY <2>2, <3>4, IdleWakeNow
  <2> QED BY <2>6, <2>7, <2>8
\* A worker outside the claim loop moves, and drops no wakeup.
<1>8. ASSUME NEW w \in Workers, UNCHANGED <<idleStack, ppc>>, Ready' \subseteq Ready,
             pc[w] \notin LockedPcs \ {"enlist", "park", "delist"}, pc[w] \notin {"start", "asleep"},
             \A v \in Workers \ {w} :
               \/ pc'[v] = pc[v]
               \/ pc[v] = "parked" /\ pc'[v] = "unpark",
             \A v \in Workers \ {w} : pc[v] \in AfterPcs =>
               col'[v] = col[v] /\ jctx'[slot'[v]] = jctx[slot[v]],
             Flying(w) => Flying(w)'
      PROVE  IdleWakeInv'
  <2>1. OnlyParks' => OnlyParks BY <1>8 DEF OnlyParks, LockedPcs
  <2>2. ASSUME NEW v \in Workers \ {w}, Flying(v) PROVE Flying(v)'
    <3>1. CASE pc[v] \in {"start", "wakeidle"} BY <1>8, <3>1 DEF Flying
    <3>2. CASE pc[v] = "asleep"
      <4>1. OnStack(v)' <=> OnStack(v) BY <1>8 DEF OnStack
      <4> QED BY <1>8, <2>2, <3>2, <4>1 DEF Flying
    <3>3. CASE pc[v] \in {"peekrow", "wakerow", "peekidle"}
      <4>1. StartNeed(jctx'[slot'[v]]) = StartNeed(jctx[slot[v]])
        BY <1>8, <3>3 DEF AfterPcs
      <4>2. col'[v] = col[v] /\ pc'[v] = pc[v] BY <1>8, <3>3 DEF AfterPcs
      <4>3. StartNeed(jctx[slot[v]])' = StartNeed(jctx'[slot'[v]]) BY DEF StartNeed
      <4> QED BY <2>2, <3>3, <4>1, <4>2, <4>3 DEF Flying
    <3> QED BY <2>2, <3>1, <3>2, <3>3 DEF Flying
  <2>3. \A v \in Workers : Flying(v) => Flying(v)' BY <1>8, <2>2
  <2> QED BY <1>0, <1>8, <2>1, <2>3, IdleWakeKept
<1>9. ASSUME NEW w \in Workers,
             CheckAbove(w) \/ Stall(w) \/ Enlist(w) \/ Park(w) \/ Unpark(w) \/ Delist(w) \/ PeekRowWaiter(w) \/ WakeRow(w)
             \/ FastPeek(w)
      PROVE  IdleWakeInv'
  <2>1. Moves(w) BY <1>9 DEF Moves
  <2>2. /\ UNCHANGED slot /\ pc[w] \in RowPcs
        /\ \A v \in Workers \ {w} : pc'[v] = pc[v] \/ (pc[v] = "parked" /\ pc'[v] = "unpark")
    BY <1>0, <2>1, MovesIs
  <2>3. UNCHANGED <<idleStack, ppc, col, used, done, jctx, claimw, nextRow, progress, pub>>
    BY <1>9 DEF CheckAbove, Stall, Enlist, Park, Unpark, Delist, PeekRowWaiter, WakeRow, FastPeek, poolVars,
       idleVars, jobVars, regVars, wrkVars, posVars, envVars, extVars
  <2>4. Ready' = Ready BY <2>3, ReadyKept
  <2>5. Flying(w) => Flying(w)'
    <3>1. CASE CheckAbove(w) \/ Stall(w) \/ Enlist(w) \/ Park(w) \/ Unpark(w) \/ Delist(w) \/ FastPeek(w)
      BY <3>1 DEF Flying, CheckAbove, Stall, Enlist, Park, Unpark, Delist, FastPeek
    <3>2. CASE PeekRowWaiter(w) \/ WakeRow(w)
      <4>1. pc[w] \in {"peekrow", "wakerow"} /\ pc'[w] \in {"wakerow", "peekidle"}
        BY <1>2, <3>2 DEF PeekRowWaiter, WakeRow
      <4> QED BY <2>2, <2>3, <4>1 DEF Flying, StartNeed
    <3> QED BY <1>9, <3>1, <3>2
  <2>6. pc[w] \notin LockedPcs \ {"enlist", "park", "delist"} /\ pc[w] \notin {"start", "asleep"}
    BY <2>2 DEF RowPcs, LockedPcs
  <2> QED BY <1>8, <2>2, <2>3, <2>4, <2>5, <2>6
<1>10. ASSUME NEW w \in Workers, PeekIdle(w) PROVE IdleWakeInv'
  <2>1. pc[w] = "peekidle" /\ \A v \in Workers \ {w} : pc'[v] = pc[v] /\ col'[v] = col[v]
    BY <1>1, <1>2, <1>10 DEF PeekIdle, NextCell
  <2>2. UNCHANGED <<slot, idleStack, ppc, used, done, jctx, claimw, nextRow, progress, pub>>
    BY <1>10 DEF PeekIdle, poolVars, idleVars, jobVars, regVars, envVars, extVars
  <2>3. CASE idlers > 0 /\ col[w] + 1 = StartNeed(jctx[slot[w]])
    <3>1. pc'[w] = "wakeidle" BY <1>2, <1>10, <2>3 DEF PeekIdle
    <3>2. Flying(w)' BY <3>1 DEF Flying
    <3> QED BY <3>2, IdleWakeNow
  <2>4. CASE idlers > 0 /\ col[w] + 1 # StartNeed(jctx[slot[w]])
    <3>1. ~Flying(w) BY <2>1, <2>4 DEF Flying
    <3>2. Ready' = Ready BY <2>2, ReadyKept
    <3> QED BY <1>8, <2>1, <2>2, <3>1, <3>2 DEF LockedPcs
  <2>5. CASE ~(idlers > 0)
    <3>1. idlers = 0
      <4>1. idlers \in Nat BY <1>0, IdleFinite DEF StackInv
      <4> QED BY <2>5, <4>1
    <3>2. idleStack' = <<>> BY <1>4, <2>2, <3>1
    <3> QED BY <3>2, IdleWakeNow
  <2> QED BY <2>3, <2>4, <2>5
<1>11. ASSUME NEW w \in Workers, WakeIdle(w) PROVE IdleWakeInv'
  <2>1. /\ mtx = None /\ WakeOne /\ pc[w] = "wakeidle"
        /\ \A v \in Workers \ {w} : pc'[v] = pc[v]
    BY <1>2, <1>11 DEF WakeIdle, NextCell
  <2>2. CASE idleStack = <<>>
    <3>1. idleStack' = <<>> BY <2>1, <2>2 DEF WakeOne
    <3> QED BY <3>1, IdleWakeNow
  <2>3. CASE idleStack # <<>>
    <3>1. \E v \in Workers : Flying(v)' BY <1>3, <2>1, <2>3, WokenFlies
    <3> QED BY <3>1, IdleWakeNow
  <2> QED BY <2>2, <2>3
<1>12. ASSUME NEW w \in Workers, RunCell(w) PROVE IdleWakeInv'
  <2>1. pc[w] = "body" /\ pc'[w] = "peekrow" /\ \A v \in Workers \ {w} : pc'[v] = pc[v]
    BY <1>2, <1>12 DEF RunCell
  <2>2. UNCHANGED <<slot, col, jctx, idleStack, ppc>>
    BY <1>12 DEF RunCell, idleVars, regVars, wrkVars, posVars, envVars, extVars
  <2>3. CASE col[w] + 1 = StartNeed(jctx[slot[w]])
    <3>1. Flying(w)' BY <2>1, <2>2, <2>3 DEF Flying, StartNeed
    <3> QED BY <3>1, IdleWakeNow
  <2>4. CASE col[w] + 1 # StartNeed(jctx[slot[w]])
    <3>1. Ready' \subseteq Ready BY <1>12, <2>4, ReadyAfterCell
    <3>2. ~Flying(w) BY <2>1 DEF Flying
    <3> QED BY <1>8, <2>1, <2>2, <3>1, <3>2 DEF LockedPcs
  <2> QED BY <2>3, <2>4
<1>13. ASSUME NEW w \in Workers, FastClaim(w) \/ FastCount(w) \/ RunUnit(w) \/ NextUnit(w)
       PROVE  IdleWakeInv'
  <2>1. /\ pc[w] \in {"fastclaim", "fastcount", "unit", "nextunit"}
        /\ \A v \in Workers \ {w} : pc'[v] = pc[v] /\ col'[v] = col[v]
    BY <1>1, <1>2, <1>13 DEF FastClaim, FastCount, RunUnit, NextUnit, wrkVars, posVars
  <2>2. UNCHANGED <<slot, jctx, idleStack, ppc>>
    BY <1>13 DEF FastClaim, FastCount, RunUnit, NextUnit, idleVars, regVars, wrkVars, posVars,
       envVars, extVars
  <2>3. Ready' \subseteq Ready
    <3>1. CASE FastClaim(w) BY <3>1, ReadyAfterFast
    <3>2. CASE FastCount(w) \/ RunUnit(w)
      <4>1. UNCHANGED <<used, done, jctx, claimw, nextRow, progress, pub>>
        BY <3>2 DEF FastCount, RunUnit, regVars, envVars, extVars
      <4> QED BY <4>1, ReadyKept
    <3>3. CASE NextUnit(w)
      <4>1. UNCHANGED <<used, done, jctx, nextRow, progress, pub>> /\ pc[w] \in ForPcs
        BY <3>3 DEF NextUnit, regVars, envVars, extVars, ForPcs
      <4>2. CASE UNCHANGED claimw BY <4>1, <4>2, ReadyKept
      <4>3. CASE ~UNCHANGED claimw
        <5>1. claimw' = [claimw EXCEPT ![slot[w]].row = @ + 1] BY <3>3, <4>3 DEF NextUnit
        <5>2. \A j \in Slots : claimw[j].row \in Nat /\ claimw'[j].row \in {claimw[j].row, claimw[j].row + 1}
          <6>1. claimw \in [Slots -> [seq : Nat, row : 0 .. MaxRows]] /\ MaxRows \in Nat
            BY <1>0, PoolAssumption DEF TypeOK
          <6> QED BY <5>1, <6>1
        <5>3. SUFFICES ASSUME NEW j \in Slots, NextReady(j)' PROVE NextReady(j) BY DEF Ready
        <5>4. used[j] /\ ~done[j] /\ RowsClaimed(j)' < NRows[jctx[j]] BY <4>1, <5>3 DEF NextReady
        <5>5. NRows[jctx[j]] \in Nat
          <6>1. JobInv /\ jctx[j] # None BY <5>4 DEF IInv, JobInv, SlotOf
          <6>2. NRows[jctx[j]] \in 1 .. MaxRows BY <1>0, <6>1, GridOf
          <6> QED BY <6>2
        <5>6. RowsClaimed(j) < NRows[jctx[j]]
          <6>1. CASE Kind[jctx[j]] = "for"
            <7>1. claimw'[j].row < NRows[jctx[j]] BY <4>1, <5>4, <6>1 DEF RowsClaimed
            <7>2. claimw[j].row < NRows[jctx[j]] BY <5>2, <5>5, <7>1
            <7> QED BY <6>1, <7>2 DEF RowsClaimed
          <6>2. CASE Kind[jctx[j]] # "for" BY <4>1, <5>4, <6>2 DEF RowsClaimed
          <6> QED BY <6>1, <6>2
        <5> QED BY <4>1, <5>3, <5>4, <5>6 DEF NextReady, Startable, RowReady, StartNeed
      <4> QED BY <4>2, <4>3
    <3> QED BY <1>13, <3>1, <3>2, <3>3
  <2>4. ~Flying(w) BY <2>1 DEF Flying
  <2> QED BY <1>8, <2>1, <2>2, <2>3, <2>4 DEF LockedPcs
\* The workers do not move.
<1>14. ASSUME UNCHANGED <<pc, col, idleStack>>, ppc = "kick" => ppc' = "kick",
              Ready' \subseteq Ready,
              \A v \in Workers : pc[v] \in AfterPcs => jctx'[slot'[v]] = jctx[slot[v]]
       PROVE  IdleWakeInv'
  <2>1. OnlyParks' => OnlyParks BY <1>14 DEF OnlyParks
  <2>2. ASSUME NEW v \in Workers, Flying(v) PROVE Flying(v)'
    <3>1. OnStack(v)' <=> OnStack(v) BY <1>14 DEF OnStack
    <3>2. CASE pc[v] \in AfterPcs
      <4>1. StartNeed(jctx[slot[v]])' = StartNeed(jctx[slot[v]]) BY <1>14, <3>2 DEF StartNeed
      <4> QED BY <1>14, <2>2, <3>1, <4>1 DEF Flying
    <3>3. CASE pc[v] \notin AfterPcs BY <1>14, <2>2, <3>1, <3>3 DEF Flying, AfterPcs
    <3> QED BY <3>2, <3>3
  <2> QED BY <1>0, <1>14, <2>1, <2>2, IdleWakeKept
<1>15. ASSUME NEW s \in Submitters, QuietCall(s) \/ SerialCell(s) PROVE IdleWakeInv'
  <2>1. UNCHANGED <<pc, col, slot, idleStack, ppc, used, done, jctx, claimw, nextRow, progress, pub>>
    BY <1>15, QuietCallIs DEF SerialCell, poolVars, jobVars, regVars, idleVars, workVars, wrkVars,
       posVars, extVars
  <2> QED BY <1>14, <2>1, ReadyKept
<1>16. ASSUME NEW s \in Submitters, Join(s) PROVE IdleWakeInv'
  <2>1. /\ UNCHANGED <<pc, col, slot, idleStack, ppc, done, jctx, claimw, nextRow, progress, pub>>
        /\ used' = [used EXCEPT ![Head(held[s])] = FALSE]
    BY <1>16 DEF Join, idleVars, workVars, wrkVars, posVars, extVars
  <2>2. \A j \in Slots : used'[j] => used[j] BY <1>0, <2>1 DEF TypeOK
  <2>3. Ready' \subseteq Ready
    BY <2>1, <2>2 DEF Ready, NextReady, RowsClaimed, Startable, RowReady, StartNeed
  <2> QED BY <1>14, <2>1, <2>3
<1>17. ASSUME NEW s \in Submitters, Register(s) PROVE IdleWakeInv'
  <2>1. mtx = None /\ WakeOne /\ UNCHANGED pc BY <1>17 DEF Register, workVars
  <2>2. CASE idleStack = <<>>
    <3>1. idleStack' = <<>> BY <2>1, <2>2 DEF WakeOne
    <3> QED BY <3>1, IdleWakeNow
  <2>3. CASE idleStack # <<>>
    <3>1. \E v \in Workers : Flying(v)' BY <1>3, <2>1, <2>3, WokenFlies
    <3> QED BY <3>1, IdleWakeNow
  <2> QED BY <2>2, <2>3
<1>18. CASE External
  <2>1. CASE PublishRow
    <3>1. ppc' = "kick" BY <2>1 DEF PublishRow
    <3> QED BY <3>1, IdleWakeNow
  <2>2. CASE Kick \/ Destroy
    <3>1. idleStack' = <<>> BY <2>2 DEF Kick, Destroy, WakeAll
    <3> QED BY <3>1, IdleWakeNow
  <2> QED BY <1>18, <2>1, <2>2 DEF External
<1>19. CASE UNCHANGED vars
  <2>1. UNCHANGED <<pc, col, slot, idleStack, ppc, used, done, jctx, claimw, nextRow, progress, pub>>
    BY <1>19 DEF vars, poolVars, jobVars, regVars, idleVars, workVars, wrkVars, posVars, envVars, extVars
  <2> QED BY <1>14, <2>1, ReadyKept
<1> QED BY <1>5, <1>6, <1>7, <1>9, <1>10, <1>11, <1>12, <1>13, <1>15, <1>16, <1>17, <1>18, <1>19,
           Steps DEF QuietWork

-----------------------------------------------------------------------------
(* The invariant holds. *)

LEMMA InitIInv == Init => IInv
<1> SUFFICES ASSUME Init PROVE IInv OBVIOUS
<1>1. TypeOK
  <2>1. /\ MaxRows \in Nat /\ MaxJobs \in Nat \ {0} /\ CvSlots \in Nat \ {0} BY PoolAssumption
  <2>2. 0 \in Slots /\ 0 \in 0 .. MaxRows BY <2>1 DEF Slots
  <2>3. "start" \in WorkerPcs /\ "idle" \in SubmitterPcs BY DEF WorkerPcs, SubmitterPcs
  <2>4. TableTypes BY <2>1, <2>2 DEF Init, TableTypes, NoClaim
  <2>5. IdleTypes BY <2>1 DEF Init, IdleTypes
  <2>6. WorkTypes BY <2>2, <2>3 DEF Init, WorkTypes
  <2>7. CallTypes BY <2>3 DEF Init, CallTypes
  <2>8. RestTypes BY <2>2 DEF Init, RestTypes
  <2> QED BY <2>4, <2>5, <2>6, <2>7, <2>8, TypeParts
<1>2. \A w \in Workers : pc[w] = "start" BY DEF Init
<1>3. \A j \in Slots : jctx[j] = None /\ ~used[j] /\ ~done[j] /\ seq[j] = 0 BY DEF Init
<1>4. LockInv BY <1>2, PoolAssumption DEF Init, LockInv, LockedPcs
<1>5. JobInv
  <2>1. \A j \in Slots : claimw[j].seq = 0 BY DEF Init, NoClaim
  <2>2. OneSlot BY <1>3 DEF OneSlot
  <2>3. \A j \in Slots : SlotOf(j) BY <1>3, <2>1 DEF SlotOf, Init
  <2> QED BY <2>2, <2>3 DEF JobInv
<1>6. LiveInv
  <2>1. \A w \in Workers : runSeq[w] <= seqNext BY DEF Init
  <2> QED BY <1>2, <2>1 DEF LiveInv, LiveOf, LivePcs, RowPcs, ForPcs, AtWork
<1>7. ClaimInv
  <2>1. \A w \in Workers : Rows(w) = {} BY <1>2 DEF Rows, RowPcs
  <2> QED BY <1>2, <2>1 DEF ClaimInv, ClaimsOf
<1>8. RowInv /\ UnitInv BY <1>3 DEF RowInv, UnitInv, Wave, For
<1>9. CellInv BY <1>2 DEF CellInv, CellsOf, BeforePcs, AfterPcs, EndPcs, RowPcs
<1>10. CountInv BY <1>3 DEF CountInv, CountOf, For, Wave
<1>11. TakenInv BY <1>3 DEF TakenInv, Init
<1>12. SubInv
  <2>1. \A s \in Submitters : spc[s] = "idle" /\ callNo[s] = 0 /\ held[s] = <<>> BY DEF Init
  <2>2. ASSUME NEW s \in Submitters PROVE callNo[s] <= Len(Calls[s])
    <3>1. Calls[s] \in Seq(Seq(Ctxs) \ {<<>>}) BY PoolAssumption
    <3>2. Len(Calls[s]) \in Nat BY <3>1
    <3> QED BY <2>1, <3>2
  <2>3. \A s \in Submitters : HeldOf(s)
    <3>1. \A s \in Submitters : DOMAIN held[s] = {} BY <2>1
    <3> QED BY <3>1 DEF HeldOf
  <2> QED BY <2>1, <2>2, <2>3 DEF SubInv, CallOf
<1>13. UsedHeld BY <1>3 DEF UsedHeld
<1>14. WaitersInv
  <2>1. \A k \in 0 .. CvSlots - 1 : Registered(k) = {} BY <1>2 DEF Registered
  <2> QED BY <2>1, FS_EmptySet DEF WaitersInv, Init
<1>15. StackInv
  <2>1. Idle = {} BY <1>2 DEF Idle
  <2>2. idleStack = <<>> /\ idlers = 0 /\ ~shutdown BY DEF Init
  <2>3. DOMAIN idleStack = {} BY <2>2
  <2> QED BY <1>2, <2>1, <2>2, <2>3, FS_EmptySet DEF StackInv
<1>16. NoLostRowWake BY <1>2 DEF NoLostRowWake
<1>17. IdleWakeInv BY DEF IdleWakeInv, Init
<1> QED BY <1>1, <1>4, <1>5, <1>6, <1>7, <1>8, <1>9, <1>10, <1>11, <1>12, <1>13, <1>14, <1>15,
           <1>16, <1>17 DEF IInv

\* Every step keeps every part of the invariant, so it holds in every reachable
\* state: of any number of workers, submitters, slots and rows.
THEOREM PoolInvariant == Spec => []IInv
<1>1. IInv /\ [Next]_vars => IInv'
  BY TypeStep, LockStep, JobStep, LiveStep, ClaimStep, RowInvStep, UnitInvStep, CellStep,
     CountStep, TakenStep, SubStep, WaitersStep, StackStep, RowWakeStep, IdleWakeStep DEF IInv
<1> QED BY InitIInv, <1>1, PTL DEF Spec

\* Type correctness of the pool.
THEOREM PoolTypes == Spec => []TypeOK
<1>1. IInv => TypeOK BY DEF IInv
<1> QED BY <1>1, PoolInvariant, PTL

-----------------------------------------------------------------------------
(* What the invariant implies. *)

\* The three traps of threadpool.c.
LEMMA TrapsFollow == IInv => TrapsNeverFire
<1> SUFFICES ASSUME IInv, NEW w \in Workers
             PROVE  /\ AtWork(w) => /\ used[slot[w]] /\ ~done[slot[w]]
                                    /\ seq[slot[w]] = runSeq[w]
                    /\ pc[w] \in {"finish", "fastcount"} => row[w] \notin counted[slot[w]]
  BY DEF TrapsNeverFire
<1>1. LiveOf(w) /\ CellsOf(w) BY DEF IInv, LiveInv, CellInv
<1>2. AtWork(w) => pc[w] \in LivePcs BY DEF AtWork, LivePcs
<1>3. pc[w] \in {"finish", "fastcount"} => row[w] \in Rows(w) /\ pc[w] \in RowPcs
  BY DEF Rows, RowPcs
<1> QED BY <1>1, <1>2, <1>3 DEF LiveOf, CellsOf

\* The cell a worker is about to run is one of the grid in its slot, in a row
\* or unit that is its own.
LEMMA AboutIs ==
    ASSUME IInv, NEW w \in AboutToRun
    PROVE  /\ w \in Workers /\ slot[w] \in Slots /\ jctx[slot[w]] # None
           /\ CellOf(w) = <<jctx[slot[w]], row[w], IF pc[w] = "unit" THEN 0 ELSE col[w]>>
           /\ row[w] \in Rows(w) /\ CellOf(w) \notin ran
<1>1. w \in Workers /\ pc[w] \in {"body", "unit"} BY DEF AboutToRun
<1>2. pc[w] \in LivePcs BY <1>1 DEF LivePcs, RowPcs
<1>3. /\ slot[w] \in Slots /\ jctx[slot[w]] # None /\ NRows[jctx[slot[w]]] \in 1 .. MaxRows
      /\ row[w] \in 0 .. NRows[jctx[slot[w]]] - 1
      /\ pc[w] \in RowPcs => Kind[jctx[slot[w]]] = "wavefront"
      /\ NCols[jctx[slot[w]]] \in Nat
  BY <1>1, <1>2, LiveGrid DEF RowPcs
<1>4. row[w] \in Rows(w) BY <1>1 DEF Rows, RowPcs
<1>5. CASE pc[w] = "unit"
  <2>1. AtWork(w) /\ pc[w] \in ForPcs BY <1>5 DEF AtWork, ForPcs
  <2>2. fctx[w] = jctx[slot[w]] BY <1>1, <2>1 DEF IInv, LiveInv, LiveOf
  <2>3. <<fctx[w], row[w], 0>> \notin ran BY <1>1, <1>5 DEF IInv, CellInv, CellsOf
  <2> QED BY <1>1, <1>3, <1>4, <1>5, <2>2, <2>3 DEF CellOf
<1>6. CASE pc[w] = "body"
  <2>1. pc[w] \in RowPcs BY <1>6 DEF RowPcs
  <2>2. Wave(jctx[slot[w]]) BY <1>3, <2>1 DEF Wave
  <2>3. RowOf(slot[w], row[w]) BY <1>3, <2>2 DEF IInv, RowInv
  <2>4. /\ progress[slot[w]][row[w]] = col[w] /\ col[w] < NCols[jctx[slot[w]]] /\ col[w] \in Nat
    BY <1>1, <1>6 DEF IInv, CellInv, CellsOf, BeforePcs, TypeOK
  <2>5. col[w] \in 0 .. NCols[jctx[slot[w]]] - 1 /\ ~(col[w] < col[w]) BY <1>3, <2>4
  <2>6. <<jctx[slot[w]], row[w], col[w]>> \notin ran BY <2>3, <2>4, <2>5 DEF RowOf
  <2> QED BY <1>1, <1>3, <1>4, <1>6, <2>6 DEF CellOf
<1> QED BY <1>1, <1>5, <1>6

LEMMA OnceFollows == IInv => EachCellOnce
<1> SUFFICES ASSUME IInv, NEW w \in AboutToRun
             PROVE  /\ CellOf(w) \notin ran
                    /\ \A v \in AboutToRun \ {w} : CellOf(v) # CellOf(w)
  BY DEF EachCellOnce
<1>1. ASSUME NEW v \in AboutToRun \ {w}, CellOf(v) = CellOf(w) PROVE FALSE
  <2>1. /\ v \in Workers /\ w \in Workers /\ slot[v] \in Slots /\ slot[w] \in Slots
        /\ jctx[slot[v]] # None /\ jctx[slot[v]] = jctx[slot[w]] /\ row[v] = row[w]
        /\ row[v] \in Rows(v) /\ row[w] \in Rows(w)
    BY <1>1, AboutIs
  <2>2. slot[v] = slot[w] BY <2>1 DEF IInv, JobInv, OneSlot
  <2>3. Rows(v) \cap Rows(w) = {} BY <1>1, <2>1, <2>2 DEF IInv, ClaimInv, ClaimsOf
  <2> QED BY <2>1, <2>3
<1> QED BY <1>1, AboutIs

LEMMA CountFollows == IInv => CountIsExact
<1> SUFFICES ASSUME IInv, NEW j \in Slots, used[j]
             PROVE  LET x == jctx[j]
                        finished == {r \in 0 .. NRows[x] - 1 : RowRan(x, r)}
                    IN  /\ IF Kind[x] = "for"
                           THEN rowsDone[j] = Cardinality(finished)
                           ELSE rowsDone[j] = Cardinality(counted[j]) /\ counted[j] \subseteq finished
                        /\ done[j] => rowsDone[j] = NRows[x]
  BY DEF CountIsExact
<1> DEFINE x == jctx[j]  finished == {r \in 0 .. NRows[x] - 1 : RowRan(x, r)}
<1>1. TypeOK /\ JobInv /\ x # None BY DEF IInv, JobInv, SlotOf
<1>2. /\ x \in Ctxs /\ NRows[x] \in 1 .. MaxRows /\ NCols[x] \in Nat \ {0}
      /\ Kind[x] \in {"wavefront", "for"} /\ MaxRows \in Nat
  BY <1>1, GridOf, PoolAssumption
<1>3. CountOf(j) BY DEF IInv, CountInv
<1>4. CASE Kind[x] = "for"
  <2>1. NCols[x] = 1 BY <1>2, <1>4, PoolAssumption
  <2>2. \A r : RowRan(x, r) <=> <<x, r, 0>> \in ran
    <3>1. 0 .. NCols[x] - 1 = {0} BY <2>1
    <3> QED BY <3>1 DEF RowRan
  <2>3. finished = Finished(x) BY <2>2 DEF Finished
  <2> QED BY <1>1, <1>3, <1>4, <2>3 DEF CountOf, For
<1>5. CASE Kind[x] = "wavefront"
  <2>1. Wave(x) BY <1>1, <1>5 DEF Wave
  <2>2. counted[j] \subseteq RowIdx /\ nextRow[j] \in Nat BY <1>1 DEF TypeOK
  <2>3. nextRow[j] <= NRows[x] BY <1>1, <1>5 DEF JobInv, SlotOf, RowsClaimed
  <2>4. ASSUME NEW r \in counted[j] PROVE r \in 0 .. NRows[x] - 1 /\ RowRan(x, r)
    <3>1. r < nextRow[j] BY <2>1 DEF IInv, RowInv
    <3>2. r \in 0 .. NRows[x] - 1 BY <1>2, <2>2, <2>3, <3>1 DEF RowIdx
    <3>3. RowOf(j, r) BY <2>1, <3>2 DEF IInv, RowInv
    <3>4. progress[j][r] = NCols[x] BY <3>3 DEF RowOf
    <3>5. \A c \in 0 .. NCols[x] - 1 : <<x, r, c>> \in ran
      BY <1>2, <3>3, <3>4 DEF RowOf
    <3> QED BY <3>2, <3>5 DEF RowRan
  <2>5. counted[j] \subseteq finished BY <2>4
  <2> QED BY <1>3, <1>5, <2>1, <2>5 DEF CountOf
<1> QED BY <1>2, <1>4, <1>5

\* A job slot and its cells stay those of the incarnation a worker claimed: the
\* traps of threadpool.c never fire, each cell runs once, the count is exact.
THEOREM PoolJobs == Spec => []JobsAreSound
<1>1. IInv => JobsAreSound
  BY TrapsFollow, OnceFollows, CountFollows DEF JobsAreSound, IInv
<1> QED BY <1>1, PoolInvariant, PTL

\* No wakeup is lost: a parked worker whose row can go on, and a worker asleep
\* while a job is claimable, each have a wakeup under way.
THEOREM PoolWakes == Spec => []NoLostWake
<1>1. IInv => NoLostWake
  <2>1. SUFFICES ASSUME IInv, mtx = None, Ready # {}, idleStack # <<>> PROVE WakeInFlight
    BY DEF NoLostWake, NoLostIdleWake, IInv
  <2>2. \A w \in Workers : pc[w] \notin LockedPcs BY <2>1, PoolAssumption DEF IInv, LockInv
  <2> QED BY <2>1, <2>2 DEF IInv, IdleWakeInv
<1> QED BY <1>1, PoolInvariant, PTL

-----------------------------------------------------------------------------
(***************************************************************************)
(* WavefrontPool implements Wavefront: every step of the pool calls some   *)
(* grids, runs one cell after its neighbours, returns some grids all of    *)
(* whose cells have run, or changes nothing that Wavefront sees.           *)
(***************************************************************************)
-----------------------------------------------------------------------------
(* What the refinement needs beside IInv. *)

Complete(x) == \A r \in 0 .. NRows[x] - 1 : RowRan(x, r)
Behind(r, c, at) == r < at[1] \/ (r = at[1] /\ c < at[2])

\* A grid run serially has run up to the submitter's cell, in raster order.
SerialOf(s) ==
    LET x == Current(s) IN
    spc[s] = "serial" =>
        \A r \in 0 .. NRows[x] - 1 : \A c \in 0 .. NCols[x] - 1 :
            <<x, r, c>> \in ran <=> Behind(r, c, scell[s])
SerialInv == \A s \in Submitters : SerialOf(s)

\* A grid taken up is in the table or complete.
InTable(x) == \E j \in Slots : used[j] /\ jctx[j] = x
FinishedInv == \A x \in Ctxs : Taken(x) => Complete(x) \/ InTable(x)

\* A call that returned has consumed all its grids.
IdleInv ==
    \A s \in Submitters : spc[s] = "idle" /\ callNo[s] > 0 => pos[s] = Len(Call(s))

RefInv == SerialInv /\ FinishedInv /\ IdleInv

-----------------------------------------------------------------------------
(* Cells and completion. *)

LEMMA CompleteIs ==
    ASSUME NEW x, Complete(x)
    PROVE  Abstract!Cells(x) \subseteq ran
  BY DEF Complete, RowRan, Abstract!Cells

LEMMA CellIn ==
    ASSUME NEW x, NEW r \in 0 .. NRows[x] - 1, NEW c \in 0 .. NCols[x] - 1
    PROVE  <<x, r, c>> \in Abstract!Cells(x)
  BY DEF Abstract!Cells

\* A job whose completion is published has run all its cells.
LEMMA JobComplete ==
    ASSUME IInv, NEW j \in Slots, used[j], done[j]
    PROVE  Complete(jctx[j])
<1> DEFINE x == jctx[j]  finished == {r \in 0 .. NRows[x] - 1 : RowRan(x, r)}
<1>1. /\ Kind[x] = "for" => rowsDone[j] = Cardinality(finished)
      /\ Kind[x] # "for" => /\ rowsDone[j] = Cardinality(counted[j])
                            /\ counted[j] \subseteq finished
      /\ rowsDone[j] = NRows[x]
  BY CountFollows DEF CountIsExact
<1>2. x # None BY DEF IInv, JobInv, SlotOf
<1>3. NRows[x] \in Nat
  <2>1. NRows[x] \in 1 .. MaxRows BY <1>2, GridOf DEF IInv
  <2> QED BY <2>1, PoolAssumption
<1>4. ASSUME NEW r \in 0 .. NRows[x] - 1, ~RowRan(x, r) PROVE FALSE
  <2>1. finished \in SUBSET ((0 .. NRows[x] - 1) \ {r}) BY <1>4
  <2>2. \A S \in SUBSET ((0 .. NRows[x] - 1) \ {r}) : Cardinality(S) # NRows[x]
    <3> TAKE S \in SUBSET ((0 .. NRows[x] - 1) \ {r})
    <3>1. Cardinality(S) \in Nat /\ Cardinality(S) < NRows[x] BY <1>3, NotAll
    <3> QED BY <1>3, <3>1
  <2>3. CASE Kind[x] = "for" BY <1>1, <2>1, <2>2, <2>3
  <2>4. CASE Kind[x] # "for"
    <3>1. counted[j] \in SUBSET ((0 .. NRows[x] - 1) \ {r}) BY <1>1, <2>1, <2>4
    <3> QED BY <1>1, <2>2, <2>4, <3>1
  <2> QED BY <2>3, <2>4
<1> QED BY <1>4 DEF Complete

\* The cell a worker runs is one of the grid in its slot, new, after its
\* neighbours.
LEMMA WorkRuns ==
    ASSUME IInv, NEW w \in Workers, RunCell(w) \/ RunUnit(w)
    PROVE  /\ slot[w] \in Slots /\ used[slot[w]] /\ jctx[slot[w]] \in Ctxs
           /\ \E k \in Abstract!Cells(jctx[slot[w]]) \ ran :
                Abstract!Neighbours(k) \subseteq ran /\ ran' = ran \cup {k}
<1> DEFINE j == slot[w]  x == jctx[j]
<1>1. pc[w] \in LivePcs /\ pc[w] \in {"body", "unit"}
  BY DEF RunCell, RunUnit, LivePcs, RowPcs
<1>2. /\ j \in Slots /\ used[j] /\ x \in Ctxs /\ NRows[x] \in 1 .. MaxRows
      /\ NCols[x] \in Nat \ {0}
      /\ pc[w] \in RowPcs => Kind[x] = "wavefront"
      /\ row[w] \in 0 .. NRows[x] - 1
  BY <1>1, LiveGrid DEF RowPcs
<1>3. CellOf(w) \notin ran BY <1>1, AboutIs DEF AboutToRun
<1>4. CASE RunUnit(w)
  <2>1. pc[w] = "unit" /\ ran' = ran \cup {CellOf(w)} BY <1>4 DEF RunUnit, CellOf
  <2>2. fctx[w] = x /\ Kind[x] = "for"
    <3>1. AtWork(w) /\ pc[w] \in ForPcs BY <2>1 DEF AtWork, ForPcs
    <3> QED BY <3>1 DEF IInv, LiveInv, LiveOf, For
  <2>3. CellOf(w) = <<x, row[w], 0>> BY <2>1, <2>2 DEF CellOf
  <2>4. CellOf(w) \in Abstract!Cells(x)
    <3>1. 0 \in 0 .. NCols[x] - 1 BY <1>2
    <3> QED BY <1>2, <2>3, <3>1, CellIn
  <2>5. Abstract!Neighbours(CellOf(w)) = {} BY <2>2, <2>3 DEF Abstract!Neighbours
  <2> QED BY <1>2, <1>3, <2>1, <2>4, <2>5
<1>5. CASE RunCell(w)
  <2>1. pc[w] = "body" /\ ran' = ran \cup {CellOf(w)} /\ CellOf(w) = <<x, row[w], col[w]>>
    BY <1>5 DEF RunCell, CellOf
  <2>2. Wave(x) /\ Kind[x] = "wavefront"
    BY <1>2, <2>1, PoolAssumption DEF RowPcs, Wave
  <2>3. /\ progress[j][row[w]] = col[w] /\ col[w] < NCols[x] /\ AboveDone(w) /\ col[w] \in Nat
    BY <2>1 DEF IInv, CellInv, CellsOf, BeforePcs, TypeOK
  <2>4. CellOf(w) \in Abstract!Cells(x)
    <3>1. col[w] \in 0 .. NCols[x] - 1 BY <1>2, <2>3
    <3> QED BY <1>2, <2>1, <3>1, CellIn
  <2>5. ASSUME NEW n \in Abstract!Neighbours(CellOf(w)) PROVE n \in ran
    <3>1. /\ n \in Abstract!Cells(x)
          /\ \/ n[2] = row[w] /\ n[3] < col[w]
             \/ n[2] = row[w] - 1 /\ n[3] <= col[w] + 1
      BY <2>1, <2>2, <2>5 DEF Abstract!Neighbours
    <3>2. /\ n = <<x, n[2], n[3]>> /\ n[2] \in 0 .. NRows[x] - 1
          /\ n[3] \in 0 .. NCols[x] - 1
      BY <3>1 DEF Abstract!Cells
    <3>3. /\ RowOf(j, n[2]) /\ progress[j][n[2]] \in Nat
      <4>1. RowOf(j, n[2]) BY <1>2, <2>2, <3>2 DEF IInv, RowInv
      <4>2. n[2] \in RowIdx BY <1>2, <3>2, PoolAssumption DEF RowIdx
      <4> QED BY <1>2, <4>1, <4>2 DEF IInv, TypeOK
    <3>4. n[3] < progress[j][n[2]]
      <4>1. CASE n[2] = row[w] BY <2>3, <3>1, <3>2, <1>2, <4>1
      <4>2. CASE n[2] = row[w] - 1 /\ n[3] <= col[w] + 1
        <5>1. row[w] > 0 BY <1>2, <3>2, <4>2
        <5>2. progress[j][n[2]] >= Need(x, col[w]) BY <2>3, <4>2, <5>1 DEF AboveDone
        <5>3. PICK p \in Nat : p = progress[j][n[2]] BY <3>3
        <5>4. PICK m \in Nat : m = NCols[x] BY <1>2
        <5>5. n[3] \in Nat /\ n[3] < m BY <3>2, <5>4
        <5>6. p >= (IF col[w] + 2 < m THEN col[w] + 2 ELSE m) BY <5>2, <5>3, <5>4 DEF Need
        <5>7. n[3] < p BY <2>3, <4>2, <5>5, <5>6
        <5> QED BY <5>3, <5>7
      <4> QED BY <3>1, <4>1, <4>2
    <3> QED BY <3>2, <3>3, <3>4 DEF RowOf
  <2> QED BY <1>2, <1>3, <2>1, <2>4, <2>5
<1> QED BY <1>4, <1>5

\* The cell a submitter runs serially, the same.
LEMMA SerialRuns ==
    ASSUME IInv, SerialInv, NEW s \in Submitters, SerialCell(s)
    PROVE  \E k \in Abstract!Cells(Current(s)) \ ran :
             Abstract!Neighbours(k) \subseteq ran /\ ran' = ran \cup {k}
<1> DEFINE x == Current(s)  r == scell[s][1]  c == scell[s][2]  k == <<x, r, c>>
<1>1. spc[s] = "serial" /\ ran' = ran \cup {k} BY DEF SerialCell
<1>2. /\ Kind[x] = "wavefront" /\ NRows[x] \in 1 .. MaxRows /\ NCols[x] \in Nat \ {0}
      /\ r \in 0 .. NRows[x] - 1 /\ c \in 0 .. NCols[x] - 1
  BY <1>1, SerialGrid
<1>3. \A q \in 0 .. NRows[x] - 1 : \A d \in 0 .. NCols[x] - 1 :
        <<x, q, d>> \in ran <=> q < r \/ (q = r /\ d < c)
  BY <1>1 DEF SerialInv, SerialOf, Behind
<1>4. k \notin ran
  <2>1. ~(r < r \/ (r = r /\ c < c)) BY <1>2
  <2> QED BY <1>2, <1>3, <2>1
<1>5. k \in Abstract!Cells(x) BY <1>2 DEF Abstract!Cells
<1>6. ASSUME NEW n \in Abstract!Neighbours(k) PROVE n \in ran
  <2>1. /\ n \in Abstract!Cells(x)
        /\ \/ n[2] = r /\ n[3] < c
           \/ n[2] = r - 1 /\ n[3] <= c + 1
    <3>1. k[1] = x /\ k[2] = r /\ k[3] = c OBVIOUS
    <3> HIDE DEF k, x, r, c
    <3> QED BY <1>2, <1>6, <3>1 DEF Abstract!Neighbours
  <2>2. n = <<x, n[2], n[3]>> /\ n[2] \in 0 .. NRows[x] - 1 /\ n[3] \in 0 .. NCols[x] - 1
    BY <2>1 DEF Abstract!Cells
  <2>3. n[2] < r \/ (n[2] = r /\ n[3] < c) BY <1>2, <2>1, <2>2
  <2> QED BY <1>3, <2>2, <2>3
<1> QED BY <1>1, <1>4, <1>5, <1>6

-----------------------------------------------------------------------------
(* The steps keep RefInv. *)

LEMMA WorkRan ==
    ASSUME NEW w \in Workers,
           \/ QuietWork(w) \/ ClaimUnit(w) \/ ClaimRow(w) \/ RunCell(w) \/ FastClaim(w)
           \/ FastCount(w) \/ FinishRow(w) \/ RunUnit(w) \/ NextUnit(w) \/ FinishFor(w)
    PROVE  /\ RunCell(w) \/ RunUnit(w) \/ ran' = ran
           /\ UNCHANGED <<used, jctx>>
<1>1. CASE QuietWork(w) BY <1>1, QuietWorkIs DEF jobVars, regVars
<1>2. CASE ~QuietWork(w)
  BY <1>2 DEF ClaimUnit, ClaimRow, RunCell, FastClaim, FastCount, FinishRow, RunUnit,
     NextUnit, FinishFor, regVars
<1> QED BY <1>1, <1>2

\* A submitter that is not at a serial cell, before or after, keeps its place.
LEMMA SerialKept ==
    ASSUME NEW s \in Submitters, SerialOf(s), ran \subseteq ran',
           spc'[s] = "serial" =>
               /\ spc[s] = "serial"
               /\ callNo'[s] = callNo[s] /\ pos'[s] = pos[s] /\ scell'[s] = scell[s]
               /\ \A k \in ran' : k \in ran \/ k[1] # Current(s)
    PROVE  SerialOf(s)'
<1> SUFFICES ASSUME spc'[s] = "serial" PROVE SerialOf(s)' BY DEF SerialOf
<1>1. PICK x : x = Current(s) OBVIOUS
<1>2. Current(s)' = x BY <1>1 DEF Current, Call
<1>3. \A r, c : <<x, r, c>> \in ran' <=> <<x, r, c>> \in ran BY <1>1
<1>4. \A r \in 0 .. NRows[x] - 1 : \A c \in 0 .. NCols[x] - 1 :
        <<x, r, c>> \in ran <=> Behind(r, c, scell[s])
  BY <1>1 DEF SerialOf
<1>5. scell'[s] = scell[s] OBVIOUS
<1> QED BY <1>2, <1>3, <1>4, <1>5 DEF SerialOf

\* A worker's cell, or another submitter's, is not of the grid run serially.
LEMMA OtherGrid ==
    ASSUME IInv, NEW s \in Submitters, spc[s] = "serial",
           \/ \E w \in Workers : RunCell(w) \/ RunUnit(w)
           \/ \E t \in Submitters \ {s} : SerialCell(t)
    PROVE  \A k \in ran' : k \in ran \/ k[1] # Current(s)
<1>1. ~Taken(Current(s)) /\ \A t \in Submitters \ {s} : spc[t] = "serial" => Current(t) # Current(s)
  <2>1. pos[s] + 1 \in DOMAIN Call(s) /\ callNo[s] \in 1 .. Len(Calls[s]) BY SerialGrid
  <2>2. callNo[s] > 0 BY <2>1
  <2>3. pos[s] < Len(Call(s)) /\ Len(Call(s)) \in Nat /\ pos[s] \in Nat
    BY <2>2, CallIn DEF IInv, TypeOK, SubInv, CallOf
  <2>4. pos[s] # Len(Call(s)) BY <2>3
  <2> QED BY <2>4, FreshGrid
<1>2. ASSUME NEW w \in Workers, RunCell(w) \/ RunUnit(w)
      PROVE  \A k \in ran' : k \in ran \/ k[1] # Current(s)
  <2>1. /\ slot[w] \in Slots /\ jctx[slot[w]] \in Ctxs
        /\ \E k \in Abstract!Cells(jctx[slot[w]]) : ran' = ran \cup {k}
    BY <1>2, WorkRuns
  <2>2. jctx[slot[w]] # None BY <2>1, PoolAssumption
  <2>3. Taken(jctx[slot[w]]) BY <2>1, <2>2 DEF IInv, TakenInv
  <2> QED BY <1>1, <2>1, <2>3 DEF Abstract!Cells
<1>3. ASSUME NEW t \in Submitters \ {s}, SerialCell(t)
      PROVE  \A k \in ran' : k \in ran \/ k[1] # Current(s)
  BY <1>1, <1>3 DEF SerialCell
<1> QED BY <1>2, <1>3

LEMMA SerialStep == IInv /\ SerialInv /\ [Next]_vars => SerialInv'
<1> SUFFICES ASSUME IInv, SerialInv, [Next]_vars, NEW s \in Submitters PROVE SerialOf(s)'
  BY DEF SerialInv
<1>0. TypeOK /\ SubInv /\ TakenInv /\ SerialOf(s) BY DEF IInv, SerialInv
<1>1. ASSUME NEW w \in Workers,
             \/ QuietWork(w) \/ ClaimUnit(w) \/ ClaimRow(w) \/ RunCell(w) \/ FastClaim(w)
             \/ FastCount(w) \/ FinishRow(w) \/ RunUnit(w) \/ NextUnit(w) \/ FinishFor(w)
      PROVE  SerialOf(s)'
  <2>1. UNCHANGED passVars /\ (spc'[s] = "serial" => spc[s] = "serial")
    BY <1>1, WorkOnCalls DEF SignalDone
  <2>2. RunCell(w) \/ RunUnit(w) \/ ran' = ran BY <1>1, WorkRan
  <2>3. ran \subseteq ran' BY <2>2 DEF RunCell, RunUnit
  <2>4. spc[s] = "serial" => \A k \in ran' : k \in ran \/ k[1] # Current(s)
    BY <2>2, OtherGrid
  <2> QED BY <1>0, <2>1, <2>3, <2>4, SerialKept DEF passVars
<1>2. ASSUME NEW t \in Submitters \ {s}, QuietCall(t) \/ Register(t) \/ SerialCell(t) \/ Join(t)
      PROVE  SerialOf(s)'
  <2>1. /\ callNo'[s] = callNo[s] /\ pos'[s] = pos[s] /\ scell'[s] = scell[s]
        /\ spc'[s] = "serial" => spc[s] = "serial"
    <3>1. CASE QuietCall(t)
      BY <1>0, <1>2, <3>1 DEF TypeOK, QuietCall, BeginCall, SkipEmpty, TableFull, RegisterOom,
         EndPass, JoinSleep, PassJoined, SGoTo, Consume, passVars
    <3>2. CASE Register(t) BY <1>0, <1>2, <3>2 DEF TypeOK, Register, Consume
    <3>3. CASE SerialCell(t) BY <1>0, <1>2, <3>3 DEF TypeOK, SerialCell, Consume, SGoTo
    <3>4. CASE Join(t) BY <1>0, <1>2, <3>4 DEF TypeOK, Join, SGoTo, SlotWaiters
    <3> QED BY <1>2, <3>1, <3>2, <3>3, <3>4
  <2>2. ran' = ran \/ SerialCell(t) BY <1>2, QuietCallIs DEF Register, Join
  <2>3. ran \subseteq ran' BY <2>2 DEF SerialCell
  <2>4. spc[s] = "serial" => \A k \in ran' : k \in ran \/ k[1] # Current(s)
    BY <2>2, OtherGrid
  <2> QED BY <1>0, <2>1, <2>3, <2>4, SerialKept
<1>3. CASE RegisterOom(s)
  <2>1. spc[s] = "register" /\ pos[s] # Len(Call(s))
    BY <1>3 DEF RegisterOom, CanRegister, PassFull
  <2>2. PICK x : x = Current(s) OBVIOUS
  <2>3. ~Taken(x) /\ ~Serial(x) BY <2>1, <2>2, FreshGrid DEF Serial
  <2>4. \A k \in ran : k[1] # x BY <1>0, <2>3 DEF TakenInv
  <2>5. /\ ran' = ran /\ scell' = [scell EXCEPT ![s] = <<0, 0>>] /\ UNCHANGED <<callNo, pos>>
    BY <1>3 DEF RegisterOom
  <2>6. Current(s)' = x BY <2>2, <2>5 DEF Current, Call
  <2>7. scell'[s] = <<0, 0>> BY <1>0, <2>5 DEF TypeOK
  <2>8. \A r, c : <<x, r, c>> \notin ran' BY <2>4, <2>5
  <2>9. \A r \in 0 .. NRows[x] - 1 : \A c \in 0 .. NCols[x] - 1 : ~Behind(r, c, scell'[s])
    BY <2>7 DEF Behind
  <2> QED BY <2>6, <2>8, <2>9 DEF SerialOf
<1>4. CASE SerialCell(s)
  <2> SUFFICES ASSUME spc'[s] = "serial" PROVE SerialOf(s)' BY DEF SerialOf
  <2>1. spc[s] = "serial" BY <1>4 DEF SerialCell
  <2>2. PICK x : x = Current(s) OBVIOUS
  <2>3. PICK r \in 0 .. NRows[x] - 1 : r = scell[s][1] BY <2>1, <2>2, SerialGrid
  <2>4. PICK c \in 0 .. NCols[x] - 1 : c = scell[s][2] BY <2>1, <2>2, SerialGrid
  <2>5. NRows[x] \in Nat /\ NCols[x] \in Nat
    BY <2>1, <2>2, SerialGrid, PoolAssumption
  <2>6. PICK a : a = IF c + 1 < NCols[x] THEN <<r, c + 1>> ELSE <<r + 1, 0>> OBVIOUS
  <2>7. ran' = ran \cup {<<x, r, c>>} /\ scell' = [scell EXCEPT ![s] = a] /\ callNo' = callNo
    BY <1>4, <2>2, <2>3, <2>4, <2>6 DEF SerialCell
  <2>8. pos' = pos
    <3>1. ASSUME spc' = [spc EXCEPT ![s] = "register"] PROVE FALSE
      BY <1>0, <3>1 DEF TypeOK
    <3> QED BY <1>4, <3>1 DEF SerialCell, SGoTo
  <2>9. Current(s)' = x BY <2>2, <2>7, <2>8 DEF Current, Call
  <2>10. scell'[s] = a BY <1>0, <2>7 DEF TypeOK
  <2>11. ASSUME NEW q \in 0 .. NRows[x] - 1, NEW d \in 0 .. NCols[x] - 1
         PROVE  <<x, q, d>> \in ran' <=> Behind(q, d, a)
    <3>1. <<x, q, d>> \in ran <=> q < r \/ (q = r /\ d < c)
      BY <1>0, <2>1, <2>2, <2>3, <2>4 DEF SerialOf, Behind
    <3>2. <<x, q, d>> \in ran' <=> <<x, q, d>> \in ran \/ (q = r /\ d = c) BY <2>7
    <3>3. Behind(q, d, a) <=> q < r \/ (q = r /\ d <= c)
      <4>1. CASE c + 1 < NCols[x]
        <5>1. a[1] = r /\ a[2] = c + 1 BY <2>6, <4>1
        <5> QED BY <2>5, <5>1 DEF Behind
      <4>2. CASE ~(c + 1 < NCols[x])
        <5>1. a[1] = r + 1 /\ a[2] = 0 BY <2>6, <4>2
        <5>2. d <= c BY <2>5, <4>2
        <5> QED BY <2>5, <5>1, <5>2 DEF Behind
      <4> QED BY <4>1, <4>2
    <3> QED BY <3>1, <3>2, <3>3
  <2> QED BY <2>9, <2>10, <2>11 DEF SerialOf
<1>5. CASE QuietCall(s) \/ Register(s) \/ Join(s)
  <2> SUFFICES ASSUME ~RegisterOom(s), spc'[s] = "serial" PROVE FALSE
    BY <1>3 DEF SerialOf
  <2>1. CASE QuietCall(s)
    BY <1>0, <2>1, SMTT(40) DEF TypeOK, QuietCall, BeginCall, SkipEmpty, TableFull,
         EndPass, JoinSleep, PassJoined, SGoTo, CanRegister, OnFull
  <2>2. CASE Register(s)
    BY <1>0, <2>2, SMTT(40) DEF TypeOK, Register, CanRegister, SGoTo
  <2>3. CASE Join(s)
    <3>1. spc' = spc \/ \E u \in Submitters : spc' = [spc EXCEPT ![u] = "register"]
      BY <2>3 DEF Join, SGoTo, SlotWaiters
    <3>2. spc[s] = "join" BY <2>3 DEF Join
    <3>3. spc'[s] = spc[s] \/ spc'[s] = "register" BY <1>0, <3>1 DEF TypeOK
    <3> QED BY <3>2, <3>3
  <2> QED BY <1>5, <2>1, <2>2, <2>3
<1>6. CASE External \/ UNCHANGED vars
  <2>1. UNCHANGED <<subVars, ran>> BY <1>6, ExternalIs DEF vars, envVars
  <2> QED BY <1>0, <2>1, SerialKept DEF subVars, passVars
<1> QED BY <1>1, <1>2, <1>3, <1>4, <1>5, <1>6, Steps

\* A grid newly taken up is one a submitter has just stepped past.
LEMMA TakenOnly ==
    ASSUME TypeOK, SubInv, IdleInv, NEW x, Taken(x)',
           \A s \in Submitters :
               \/ callNo'[s] = callNo[s] /\ pos'[s] = pos[s]
               \/ callNo'[s] = callNo[s] /\ pos'[s] = pos[s] + 1
               \/ /\ spc[s] = "idle" /\ callNo[s] < Len(Calls[s])
                  /\ callNo'[s] = callNo[s] + 1 /\ pos'[s] = 0
    PROVE  \/ Taken(x)
           \/ \E s \in Submitters : pos'[s] = pos[s] + 1 /\ callNo'[s] = callNo[s] /\ x = Current(s)
<1>1. PICK s \in Submitters : \E n \in 1 .. callNo'[s] : \E i \in DOMAIN Calls[s][n] :
        /\ Calls[s][n][i] = x
        /\ n < callNo'[s] \/ i <= pos'[s]
  BY DEF Taken
<1>2. PICK n \in 1 .. callNo'[s] : \E i \in DOMAIN Calls[s][n] :
        /\ Calls[s][n][i] = x
        /\ n < callNo'[s] \/ i <= pos'[s]
  BY <1>1
<1>3. PICK i \in DOMAIN Calls[s][n] :
        /\ Calls[s][n][i] = x
        /\ n < callNo'[s] \/ i <= pos'[s]
  BY <1>2
<1>4. callNo[s] \in Nat /\ pos[s] \in Nat BY DEF TypeOK
<1>5. ASSUME n \in 1 .. callNo[s], n < callNo[s] \/ i <= pos[s] PROVE Taken(x)
  BY <1>3, <1>5 DEF Taken
<1>6. CASE callNo'[s] = callNo[s] /\ pos'[s] = pos[s] BY <1>2, <1>3, <1>5, <1>6
<1>7. CASE callNo'[s] = callNo[s] /\ pos'[s] = pos[s] + 1
  <2>1. n \in 1 .. callNo[s] BY <1>2, <1>7
  <2>2. i \in Nat BY <2>1, BegunCall
  <2>3. CASE n < callNo[s] \/ i <= pos[s] BY <1>5, <2>1, <2>3
  <2>4. CASE ~(n < callNo[s] \/ i <= pos[s])
    <3>1. n = callNo[s] /\ i = pos[s] + 1 BY <1>3, <1>4, <1>7, <2>1, <2>2, <2>4
    <3> QED BY <1>3, <1>7, <3>1 DEF Current, Call
  <2> QED BY <2>3, <2>4
<1>8. CASE /\ spc[s] = "idle" /\ callNo[s] < Len(Calls[s])
           /\ callNo'[s] = callNo[s] + 1 /\ pos'[s] = 0
  <2>1. n \in 1 .. callNo[s] + 1 BY <1>2, <1>8
  <2>2. Calls[s] \in Seq(Seq(Ctxs) \ {<<>>}) BY PoolAssumption
  <2>3. n \in 1 .. Len(Calls[s]) BY <1>4, <1>8, <2>1, <2>2
  <2>4. Calls[s][n] \in Seq(Ctxs) BY <2>2, <2>3
  <2>5. i \in 1 .. Len(Calls[s][n]) BY <2>4
  <2>6. n <= callNo[s] BY <1>3, <1>4, <1>8, <2>1, <2>5
  <2>7. n \in 1 .. callNo[s] BY <1>4, <2>1, <2>6
  <2>8. CASE n < callNo[s] BY <1>5, <2>7, <2>8
  <2>9. CASE n = callNo[s]
    <3>1. pos[s] = Len(Calls[s][n]) BY <1>8, <2>7, <2>9 DEF IdleInv, Call
    <3> QED BY <1>5, <2>5, <2>7, <3>1
  <2> QED BY <1>4, <2>7, <2>8, <2>9
<1> QED BY <1>1, <1>6, <1>7, <1>8

\* A grid complete or in the table stays so, unless its job is released, which
\* is once it is complete.
LEMMA FinishedKept ==
    ASSUME FinishedInv, NEW x \in Ctxs, Taken(x), ran \subseteq ran',
           \A j \in Slots : used[j] => \/ Complete(jctx[j])
                                       \/ used'[j] /\ jctx'[j] = jctx[j]
    PROVE  Complete(x)' \/ InTable(x)'
<1>1. Complete(x) => Complete(x)' BY DEF Complete, RowRan
<1>2. Complete(x) \/ InTable(x) BY DEF FinishedInv
<1>3. InTable(x) => Complete(x) \/ InTable(x)' BY DEF InTable
<1> QED BY <1>1, <1>2, <1>3

LEMMA FinishedStep == IInv /\ RefInv /\ [Next]_vars => FinishedInv'
<1> SUFFICES ASSUME IInv, RefInv, [Next]_vars, NEW x \in Ctxs, Taken(x)'
             PROVE  Complete(x)' \/ InTable(x)'
  BY DEF FinishedInv
<1>0. TypeOK /\ SubInv /\ IdleInv /\ FinishedInv /\ SerialInv BY DEF IInv, RefInv
<1>1. ASSUME UNCHANGED <<used, jctx>>, ran \subseteq ran', Taken(x)
      PROVE  Complete(x)' \/ InTable(x)'
  BY <1>0, <1>1, FinishedKept
<1>2. ASSUME NEW w \in Workers,
             \/ QuietWork(w) \/ ClaimUnit(w) \/ ClaimRow(w) \/ RunCell(w) \/ FastClaim(w)
             \/ FastCount(w) \/ FinishRow(w) \/ RunUnit(w) \/ NextUnit(w) \/ FinishFor(w)
      PROVE  Complete(x)' \/ InTable(x)'
  <2>1. UNCHANGED <<callNo, pos>> BY <1>2, WorkOnCalls DEF passVars
  <2>2. Taken(x) BY <2>1 DEF Taken
  <2>3. UNCHANGED <<used, jctx>> /\ (RunCell(w) \/ RunUnit(w) \/ ran' = ran) BY <1>2, WorkRan
  <2>4. ran \subseteq ran' BY <2>3 DEF RunCell, RunUnit
  <2> QED BY <1>1, <2>2, <2>3, <2>4
<1>3. ASSUME NEW s \in Submitters, QuietCall(s) PROVE Complete(x)' \/ InTable(x)'
  <2>1. UNCHANGED <<used, jctx, ran>> BY <1>3, QuietCallIs DEF poolVars, jobVars, regVars
  <2>2. \A t \in Submitters :
          \/ callNo'[t] = callNo[t] /\ pos'[t] = pos[t]
          \/ callNo'[t] = callNo[t] /\ pos'[t] = pos[t] + 1 /\ t = s /\ SkipEmpty(s)
          \/ /\ spc[t] = "idle" /\ callNo[t] < Len(Calls[t])
             /\ callNo'[t] = callNo[t] + 1 /\ pos'[t] = 0
    <3>1. CASE BeginCall(s) BY <1>0, <3>1 DEF TypeOK, BeginCall
    <3>2. CASE SkipEmpty(s) BY <1>0, <3>2 DEF TypeOK, SkipEmpty, Consume
    <3>3. CASE \/ TableFull(s) \/ RegisterOom(s) \/ EndPass(s) \/ JoinSleep(s) \/ PassJoined(s)
      BY <3>3 DEF TableFull, RegisterOom, EndPass, JoinSleep, PassJoined, passVars
    <3> QED BY <1>3, <3>1, <3>2, <3>3 DEF QuietCall
  <2>3. \/ Taken(x)
        \/ \E t \in Submitters : pos'[t] = pos[t] + 1 /\ callNo'[t] = callNo[t] /\ x = Current(t)
    BY <1>0, <2>2, TakenOnly
  <2>4. CASE Taken(x) BY <1>1, <2>1, <2>4
  <2>5. ASSUME NEW t \in Submitters, pos'[t] = pos[t] + 1, callNo'[t] = callNo[t], x = Current(t)
        PROVE  Complete(x)'
    <3>1. pos[t] \in Nat /\ callNo[t] \in Nat BY <1>0 DEF TypeOK
    <3>2. t = s /\ SkipEmpty(s) BY <2>2, <2>5, <3>1
    <3>3. NRows[x] = 0 BY <2>5, <3>2 DEF SkipEmpty
    <3> QED BY <3>3 DEF Complete
  <2> QED BY <2>3, <2>4, <2>5
<1>4. ASSUME NEW s \in Submitters, Register(s) PROVE Complete(x)' \/ InTable(x)'
  <2>1. PICK f \in Slots, y \in Ctxs :
          /\ ~used[f] /\ y = Current(s) /\ used' = [used EXCEPT ![f] = TRUE]
          /\ jctx' = [jctx EXCEPT ![f] = y]
          /\ pos' = [pos EXCEPT ![s] = @ + 1] /\ UNCHANGED <<callNo, ran>>
    BY <1>4, RegisterIs
  <2>2. /\ used'[f] /\ jctx'[f] = y
        /\ \A j \in Slots : j # f => used'[j] = used[j] /\ jctx'[j] = jctx[j]
    BY <1>0, <2>1 DEF TypeOK
  <2>3. \A t \in Submitters : /\ callNo'[t] = callNo[t]
                              /\ pos'[t] = pos[t] \/ (pos'[t] = pos[t] + 1 /\ t = s)
    BY <1>0, <2>1 DEF TypeOK
  <2>4. \/ Taken(x)
        \/ \E t \in Submitters : pos'[t] = pos[t] + 1 /\ callNo'[t] = callNo[t] /\ x = Current(t)
    BY <1>0, <2>3, TakenOnly
  <2>5. CASE Taken(x)
    <3>1. \A j \in Slots : used[j] => used'[j] /\ jctx'[j] = jctx[j] BY <2>1, <2>2
    <3> QED BY <1>0, <2>1, <2>5, <3>1, FinishedKept
  <2>6. ASSUME NEW t \in Submitters, pos'[t] = pos[t] + 1, x = Current(t) PROVE InTable(x)'
    <3>1. pos[t] \in Nat BY <1>0 DEF TypeOK
    <3>2. t = s BY <2>3, <2>6, <3>1
    <3> QED BY <2>1, <2>2, <2>6, <3>2 DEF InTable
  <2> QED BY <2>4, <2>5, <2>6
<1>5. ASSUME NEW s \in Submitters, SerialCell(s) PROVE Complete(x)' \/ InTable(x)'
  <2>1. UNCHANGED <<used, jctx, callNo>> /\ ran \subseteq ran'
    BY <1>5 DEF SerialCell, poolVars, jobVars, regVars
  <2>2. pos' = pos \/ pos' = [pos EXCEPT ![s] = @ + 1]
    BY <1>5 DEF SerialCell, Consume
  <2>3. \A t \in Submitters : pos'[t] = pos[t] \/ (pos'[t] = pos[t] + 1 /\ t = s)
    BY <1>0, <2>2 DEF TypeOK
  <2>4. \/ Taken(x)
        \/ \E t \in Submitters : pos'[t] = pos[t] + 1 /\ callNo'[t] = callNo[t] /\ x = Current(t)
    BY <1>0, <2>1, <2>3, TakenOnly
  <2>5. CASE Taken(x) BY <1>1, <2>1, <2>5
  <2>6. ASSUME NEW t \in Submitters, pos'[t] = pos[t] + 1, x = Current(t) PROVE Complete(x)'
    <3>1. pos[t] \in Nat BY <1>0 DEF TypeOK
    <3>2. t = s BY <2>3, <2>6, <3>1
    <3>3. spc[s] = "serial" BY <1>5 DEF SerialCell
    <3>4. PICK r \in 0 .. NRows[x] - 1 : r = scell[s][1] BY <2>6, <3>2, <3>3, SerialGrid
    <3>5. PICK c \in 0 .. NCols[x] - 1 : c = scell[s][2] BY <2>6, <3>2, <3>3, SerialGrid
    <3>6. NRows[x] \in Nat /\ NCols[x] \in Nat
      BY <2>6, <3>2, <3>3, SerialGrid, PoolAssumption
    <3>7. ran' = ran \cup {<<x, r, c>>} BY <1>5, <2>6, <3>2, <3>4, <3>5 DEF SerialCell
    <3>8. pos' # pos BY <2>6, <3>1
    <3>9. ~(c + 1 < NCols[x]) /\ ~(r + 1 < NRows[x])
      <4>1. PICK a : a = IF c + 1 < NCols[x] THEN <<r, c + 1>> ELSE <<r + 1, 0>> OBVIOUS
      <4>2. ~(a[1] < NRows[x])
        BY <1>5, <2>6, <3>2, <3>4, <3>5, <3>8, <4>1 DEF SerialCell
      <4> QED BY <3>6, <4>1, <4>2
    <3>10. ASSUME NEW q \in 0 .. NRows[x] - 1, NEW d \in 0 .. NCols[x] - 1
           PROVE  <<x, q, d>> \in ran'
      <4>1. <<x, q, d>> \in ran <=> q < r \/ (q = r /\ d < c)
        BY <1>0, <2>6, <3>2, <3>3, <3>4, <3>5 DEF SerialInv, SerialOf, Behind
      <4>2. q < r \/ (q = r /\ d < c) \/ (q = r /\ d = c) BY <3>6, <3>9
      <4> QED BY <3>7, <4>1, <4>2
    <3> QED BY <3>10 DEF Complete, RowRan
  <2> QED BY <2>4, <2>5, <2>6
<1>6. ASSUME NEW s \in Submitters, Join(s) PROVE Complete(x)' \/ InTable(x)'
  <2>1. /\ held[s] # <<>> /\ done[Head(held[s])] /\ used' = [used EXCEPT ![Head(held[s])] = FALSE]
        /\ UNCHANGED <<jctx, ran, callNo, pos>>
    BY <1>6 DEF Join
  <2>2. Taken(x) BY <2>1 DEF Taken
  <2>3. ASSUME NEW j \in Slots, used[j]
        PROVE  Complete(jctx[j]) \/ (used'[j] /\ jctx'[j] = jctx[j])
    <3>1. CASE j = Head(held[s]) BY <2>1, <2>3, <3>1, JobComplete
    <3>2. CASE j # Head(held[s]) BY <1>0, <2>1, <2>3, <3>2 DEF TypeOK
    <3> QED BY <3>1, <3>2
  <2> QED BY <1>0, <2>1, <2>2, <2>3, FinishedKept
<1>7. CASE External \/ UNCHANGED vars
  <2>1. UNCHANGED <<used, jctx, ran, callNo, pos>>
    BY <1>7, ExternalIs DEF vars, poolVars, jobVars, regVars, envVars, subVars, passVars
  <2>2. Taken(x) BY <2>1 DEF Taken
  <2> QED BY <1>1, <2>1, <2>2
<1> QED BY <1>2, <1>3, <1>4, <1>5, <1>6, <1>7, Steps

LEMMA IdleStep == IInv /\ IdleInv /\ [Next]_vars => IdleInv'
<1> SUFFICES ASSUME IInv, IdleInv, [Next]_vars, NEW s \in Submitters,
                    spc'[s] = "idle", callNo'[s] > 0
             PROVE  pos'[s] = Len(Call(s))'
  BY DEF IdleInv
<1>0. TypeOK /\ SubInv BY DEF IInv
<1>1. ASSUME callNo'[s] = callNo[s], pos'[s] = pos[s], spc[s] = "idle"
      PROVE  pos'[s] = Len(Call(s))'
  BY <1>1 DEF IdleInv, Call
<1>2. ASSUME NEW w \in Workers,
             \/ QuietWork(w) \/ ClaimUnit(w) \/ ClaimRow(w) \/ RunCell(w) \/ FastClaim(w)
             \/ FastCount(w) \/ FinishRow(w) \/ RunUnit(w) \/ NextUnit(w) \/ FinishFor(w)
      PROVE  pos'[s] = Len(Call(s))'
  BY <1>1, <1>2, WorkOnCalls DEF SignalDone, passVars
<1>3. ASSUME NEW t \in Submitters, QuietCall(t) \/ Register(t) \/ SerialCell(t) \/ Join(t),
             ~PassJoined(t) \/ t # s
      PROVE  callNo'[s] = callNo[s] /\ pos'[s] = pos[s] /\ spc[s] = "idle"
  <2>1. CASE QuietCall(t)
    BY <1>0, <1>3, <2>1, SMTT(40) DEF TypeOK, QuietCall, BeginCall, SkipEmpty, TableFull, RegisterOom,
       EndPass, JoinSleep, PassJoined, SGoTo, Consume, passVars, OnFull, CanRegister
  <2>2. CASE Register(t) BY <1>0, <1>3, <2>2 DEF TypeOK, Register, CanRegister, Consume
  <2>3. CASE SerialCell(t) BY <1>0, <1>3, <2>3 DEF TypeOK, SerialCell, Consume, SGoTo
  <2>4. CASE Join(t)
    <3>1. UNCHANGED <<callNo, pos>> BY <2>4 DEF Join
    <3>2. spc' = spc \/ \E u \in Submitters : spc' = [spc EXCEPT ![u] = "register"]
      BY <2>4 DEF Join, SGoTo, SlotWaiters
    <3>3. spc'[s] = spc[s] \/ spc'[s] = "register" BY <1>0, <3>2 DEF TypeOK
    <3> QED BY <3>1, <3>3
  <2> QED BY <1>3, <2>1, <2>2, <2>3, <2>4
<1>4. CASE PassJoined(s)
  <2>1. /\ spc' = [spc EXCEPT ![s] = IF pos[s] < Len(Call(s)) THEN "register" ELSE "idle"]
        /\ UNCHANGED <<callNo, pos>> /\ spc[s] = "join"
    BY <1>4 DEF PassJoined, SGoTo
  <2>2. ~(pos[s] < Len(Call(s))) BY <1>0, <2>1 DEF TypeOK
  <2>3. Len(Call(s)) \in Nat /\ pos[s] \in 0 .. Len(Call(s))
    BY <1>0, <2>1, CallIn DEF SubInv, CallOf
  <2>4. pos[s] = Len(Call(s)) BY <2>2, <2>3
  <2> QED BY <2>1, <2>4 DEF Call
<1>5. CASE External \/ UNCHANGED vars
  <2>1. UNCHANGED subVars BY <1>5, ExternalIs DEF vars, envVars
  <2> QED BY <1>1, <2>1 DEF subVars, passVars
<1> QED BY <1>1, <1>2, <1>3, <1>4, <1>5, Steps DEF QuietCall

LEMMA RefInit == Init => RefInv
<1> SUFFICES ASSUME Init PROVE RefInv OBVIOUS
<1>1. \A s \in Submitters : spc[s] = "idle" /\ callNo[s] = 0 BY DEF Init
<1>2. SerialInv BY <1>1 DEF SerialInv, SerialOf
<1>3. IdleInv BY <1>1 DEF IdleInv
<1>4. \A x : ~Taken(x) BY <1>1 DEF Taken
<1> QED BY <1>2, <1>3, <1>4 DEF RefInv, FinishedInv

LEMMA RefInvariant == Spec => [](IInv /\ RefInv)
<1>1. IInv /\ RefInv /\ [Next]_vars => RefInv'
  BY SerialStep, FinishedStep, IdleStep DEF RefInv
<1> QED BY RefInit, PoolInvariant, <1>1, PTL DEF Spec

-----------------------------------------------------------------------------
(* Calls under way. *)

\* Steps that begin no call and end none.
LEMMA SameCalls ==
    ASSUME UNCHANGED callNo, \A s \in Submitters : spc'[s] = "idle" <=> spc[s] = "idle"
    PROVE  UNCHANGED <<Called, Returned>>
<1>1. Called' = Called BY DEF Called
<1>2. Returned' = Returned BY DEF Returned
<1> QED BY <1>1, <1>2

\* A grid of a call in progress has been called and not returned.
LEMMA InProgress ==
    ASSUME IInv, NEW s \in Submitters, spc[s] # "idle", NEW i \in DOMAIN Call(s)
    PROVE  Call(s)[i] \in Called \ Returned
<1>1. TypeOK /\ SubInv BY DEF IInv
<1>2. callNo[s] \in Nat /\ callNo[s] > 0 BY <1>1 DEF TypeOK, SubInv, CallOf
<1>3. callNo[s] \in 1 .. callNo[s] BY <1>2
<1>4. callNo[s] \in DOMAIN Calls[s] /\ Call(s) \in Seq(Ctxs) BY <1>1, <1>3, BegunCall DEF Call
<1>5. PICK x \in Ctxs : x = Call(s)[i] BY <1>4
<1>6. x \in Called BY <1>3, <1>5 DEF Called, Call
<1>7. ASSUME x \in Returned PROVE FALSE
  <2>1. PICK t \in Submitters : \E n \in 1 .. callNo[t] :
          /\ n < callNo[t] \/ spc[t] = "idle"
          /\ \E k \in DOMAIN Calls[t][n] : Calls[t][n][k] = x
    BY <1>7 DEF Returned
  <2>2. PICK n \in 1 .. callNo[t] :
          /\ n < callNo[t] \/ spc[t] = "idle"
          /\ \E k \in DOMAIN Calls[t][n] : Calls[t][n][k] = x
    BY <2>1
  <2>3. PICK k \in DOMAIN Calls[t][n] : Calls[t][n][k] = x BY <2>2
  <2>4. n \in DOMAIN Calls[t] BY <1>1, BegunCall
  <2>5. s = t /\ callNo[s] = n
    BY <1>4, <1>5, <2>3, <2>4, OnceAssumption DEF Call
  <2> QED BY <1>2, <2>2, <2>5
<1> QED BY <1>5, <1>6, <1>7

\* A job in the table belongs to a call in progress.
LEMMA SlotInProgress ==
    ASSUME IInv, NEW j \in Slots, used[j]
    PROVE  /\ jctx[j] \in Called \ Returned
           /\ \E s \in Submitters : /\ spc[s] # "idle" /\ held[s] # <<>>
                                    /\ \E i \in DOMAIN Call(s) : Call(s)[i] = jctx[j]
<1>1. TypeOK /\ SubInv /\ UsedHeld BY DEF IInv
<1>2. PICK s \in Submitters : \E k \in DOMAIN held[s] : held[s][k] = j BY <1>1 DEF UsedHeld
<1>3. PICK k \in DOMAIN held[s] : held[s][k] = j BY <1>2
<1>4. held[s] # <<>>
  <2>1. CASE held[s] = <<>> BY <1>3, <2>1
  <2> QED BY <2>1
<1>5. spc[s] # "idle" BY <1>1, <1>4 DEF SubInv, CallOf
<1>6. callNo[s] > 0 BY <1>1, <1>5 DEF SubInv, CallOf
<1>7. PICK i \in 1 .. pos[s] : jctx[j] = Call(s)[i] BY <1>1, <1>3 DEF SubInv, HeldOf
<1>8. Call(s) \in Seq(Ctxs) /\ Len(Call(s)) \in Nat /\ pos[s] \in 0 .. Len(Call(s))
  BY <1>1, <1>6, CallIn
<1>9. i \in DOMAIN Call(s) BY <1>7, <1>8
<1> QED BY <1>4, <1>5, <1>7, <1>9, InProgress

-----------------------------------------------------------------------------
(* The mapping, step by step. *)

LEMMA CallMaps ==
    ASSUME IInv, NEW s \in Submitters, BeginCall(s)
    PROVE  \E S \in SUBSET Ctxs : Abstract!CallGrids(S)
<1>1. TypeOK /\ SubInv BY DEF IInv
<1>2. PICK n : n = callNo[s] + 1 OBVIOUS
<1>3. /\ callNo' = [callNo EXCEPT ![s] = n] /\ spc' = [spc EXCEPT ![s] = "register"]
      /\ ran' = ran /\ spc[s] = "idle" /\ callNo[s] < Len(Calls[s])
  BY <1>2 DEF BeginCall, SGoTo
<1>4. callNo[s] \in Nat BY <1>1 DEF TypeOK
<1>5. Calls[s] \in Seq(Seq(Ctxs) \ {<<>>}) BY PoolAssumption
<1>6. n \in 1 .. Len(Calls[s]) /\ n \in DOMAIN Calls[s] BY <1>2, <1>3, <1>4, <1>5
<1>7. Calls[s][n] \in Seq(Ctxs) BY <1>5, <1>6
<1>8. /\ callNo'[s] = n /\ spc'[s] = "register"
      /\ \A t \in Submitters \ {s} : callNo'[t] = callNo[t] /\ spc'[t] = spc[t]
  BY <1>1, <1>3 DEF TypeOK
<1>9. PICK S \in SUBSET Ctxs : S = {x \in Ctxs : \E i \in DOMAIN Calls[s][n] : Calls[s][n][i] = x}
  OBVIOUS
\* What is called is what was, and the grids of this call.
<1> DEFINE Of(x, t, m) == \E i \in DOMAIN Calls[t][m] : Calls[t][m][i] = x
<1>10. \A x : x \in Called <=> x \in Ctxs /\ \E t \in Submitters : \E m \in 1 .. callNo[t] : Of(x, t, m)
  BY DEF Called
<1>11. \A x : x \in Called' <=> x \in Ctxs /\ \E t \in Submitters : \E m \in 1 .. callNo'[t] : Of(x, t, m)
  BY DEF Called
<1>12. \A x : x \in S <=> x \in Ctxs /\ Of(x, s, n) BY <1>9
<1>13. 1 .. n = (1 .. callNo[s]) \cup {n} BY <1>2, <1>4
<1>14. Called' = Called \cup S
  <2> HIDE DEF Of
  <2>1. ASSUME NEW x \in Called' PROVE x \in Called \cup S
    <3>1. PICK t \in Submitters : \E m \in 1 .. callNo'[t] : Of(x, t, m) BY <1>11, <2>1
    <3>2. PICK m \in 1 .. callNo'[t] : Of(x, t, m) BY <3>1
    <3>3. x \in Ctxs BY <1>11, <2>1
    <3>4. CASE t # s BY <1>8, <1>10, <3>2, <3>3, <3>4
    <3>5. CASE t = s BY <1>8, <1>10, <1>12, <1>13, <3>2, <3>3, <3>5
    <3> QED BY <3>4, <3>5
  <2>2. ASSUME NEW x \in Called PROVE x \in Called'
    <3>1. PICK t \in Submitters : \E m \in 1 .. callNo[t] : Of(x, t, m) BY <1>10, <2>2
    <3>2. PICK m \in 1 .. callNo[t] : Of(x, t, m) BY <3>1
    <3>3. m \in 1 .. callNo'[t] BY <1>8, <1>13
    <3> QED BY <1>10, <1>11, <2>2, <3>2, <3>3
  <2>3. ASSUME NEW x \in S PROVE x \in Called'
    <3>1. n \in 1 .. callNo'[s] BY <1>8, <1>13
    <3> QED BY <1>11, <1>12, <2>3, <3>1
  <2> QED BY <2>1, <2>2, <2>3
<1>15. ASSUME NEW x \in S, x \in Called PROVE FALSE
  <2>1. PICK t \in Submitters : \E m \in 1 .. callNo[t] : Of(x, t, m) BY <1>10, <1>15
  <2>2. PICK m \in 1 .. callNo[t] : Of(x, t, m) BY <2>1
  <2>3. m \in DOMAIN Calls[t] BY <1>1, BegunCall
  <2>4. t = s /\ m = n BY <1>6, <1>9, <2>2, <2>3, OnceAssumption
  <2> QED BY <1>2, <1>4, <2>4
<1>16. Returned' = Returned
  <2> DEFINE R(x) == \E t \in Submitters : \E m \in 1 .. callNo[t] :
                       (m < callNo[t] \/ spc[t] = "idle") /\ Of(x, t, m)
             Q(x) == \E t \in Submitters : \E m \in 1 .. callNo'[t] :
                       (m < callNo'[t] \/ spc'[t] = "idle") /\ Of(x, t, m)
  <2>1. Returned = {x \in Ctxs : R(x)} /\ Returned' = {x \in Ctxs : Q(x)} BY DEF Returned
  <2> HIDE DEF Of
  <2>2. ASSUME NEW x, R(x) PROVE Q(x)
    <3>1. PICK t \in Submitters : \E m \in 1 .. callNo[t] :
            (m < callNo[t] \/ spc[t] = "idle") /\ Of(x, t, m)
      BY <2>2
    <3>2. PICK m \in 1 .. callNo[t] : (m < callNo[t] \/ spc[t] = "idle") /\ Of(x, t, m)
      BY <3>1
    <3>3. CASE t # s BY <1>8, <3>2, <3>3
    <3>4. CASE t = s
      <4>1. m \in 1 .. callNo'[s] /\ m < callNo'[s] BY <1>2, <1>4, <1>8, <3>4
      <4> QED BY <3>2, <3>4, <4>1
    <3> QED BY <3>3, <3>4
  <2>3. ASSUME NEW x, Q(x) PROVE R(x)
    <3>1. PICK t \in Submitters : \E m \in 1 .. callNo'[t] :
            (m < callNo'[t] \/ spc'[t] = "idle") /\ Of(x, t, m)
      BY <2>3
    <3>2. PICK m \in 1 .. callNo'[t] : (m < callNo'[t] \/ spc'[t] = "idle") /\ Of(x, t, m)
      BY <3>1
    <3>3. CASE t # s BY <1>8, <3>2, <3>3
    <3>4. CASE t = s
      <4>1. m \in 1 .. callNo[s] BY <1>2, <1>4, <1>8, <3>2, <3>4
      <4> QED BY <1>3, <3>2, <3>4, <4>1
    <3> QED BY <3>3, <3>4
  <2> HIDE DEF R, Q
  <2> QED BY <2>1, <2>2, <2>3
<1> QED BY <1>3, <1>9, <1>14, <1>15, <1>16 DEF Abstract!CallGrids

LEMMA ReturnMaps ==
    ASSUME IInv, RefInv, NEW s \in Submitters, PassJoined(s), ~(pos[s] < Len(Call(s)))
    PROVE  \E S \in SUBSET Ctxs : Abstract!ReturnGrids(S)
<1>1. TypeOK /\ SubInv BY DEF IInv
<1>2. /\ spc[s] = "join" /\ held[s] = <<>> /\ spc' = [spc EXCEPT ![s] = "idle"]
      /\ UNCHANGED <<callNo, ran>>
  BY DEF PassJoined, SGoTo
<1>3. spc'[s] = "idle" /\ \A t \in Submitters \ {s} : spc'[t] = spc[t] BY <1>1, <1>2 DEF TypeOK
<1>4. callNo[s] \in Nat /\ callNo[s] > 0 /\ callNo[s] \in 1 .. callNo[s]
  <2>1. callNo[s] \in Nat BY <1>1 DEF TypeOK
  <2>2. callNo[s] > 0 BY <1>1, <1>2 DEF SubInv, CallOf
  <2> QED BY <2>1, <2>2
<1>5. Call(s) \in Seq(Ctxs) /\ pos[s] = Len(Call(s))
  <2>1. Call(s) \in Seq(Ctxs) /\ Len(Call(s)) \in Nat /\ pos[s] \in 0 .. Len(Call(s))
    BY <1>1, <1>4, CallIn
  <2> QED BY <2>1
<1>6. PICK S \in SUBSET Ctxs : S = {x \in Ctxs : \E i \in DOMAIN Call(s) : Call(s)[i] = x}
  OBVIOUS
<1>7. S \subseteq Called \ Returned BY <1>2, <1>6, InProgress
<1>8. ASSUME NEW x \in S PROVE Abstract!Cells(x) \subseteq ran
  <2>1. PICK i \in DOMAIN Call(s) : Call(s)[i] = x BY <1>6
  <2>2. Taken(x)
    <3>1. i \in 1 .. pos[s] /\ i <= pos[s] BY <1>5
    <3>2. PICK n \in 1 .. callNo[s] : n = callNo[s] BY <1>4
    <3>3. PICK k \in DOMAIN Calls[s][n] : k = i BY <3>2 DEF Call
    <3> QED BY <2>1, <3>1, <3>2, <3>3 DEF Taken, Call
  <2>3. ASSUME InTable(x) PROVE FALSE
    <3>1. PICK t \in Submitters :
            /\ spc[t] # "idle" /\ held[t] # <<>>
            /\ \E k \in DOMAIN Call(t) : Call(t)[k] = x
      BY <2>3, SlotInProgress DEF InTable
    <3>2. PICK k \in DOMAIN Call(t) : Call(t)[k] = x BY <3>1
    <3>3. callNo[t] \in 1 .. callNo[t]
      <4>1. callNo[t] > 0 /\ callNo[t] \in Nat BY <1>1, <3>1 DEF SubInv, CallOf, TypeOK
      <4> QED BY <4>1
    <3>4. callNo[t] \in DOMAIN Calls[t] /\ callNo[s] \in DOMAIN Calls[s]
      BY <1>1, <1>4, <3>3, BegunCall
    <3>5. s = t BY <2>1, <3>2, <3>4, OnceAssumption DEF Call
    <3> QED BY <1>2, <3>1, <3>5
  <2>4. Complete(x) BY <2>2, <2>3 DEF RefInv, FinishedInv
  <2> QED BY <2>4, CompleteIs
<1>9. Called' = Called BY <1>2 DEF Called
<1>10. Returned' = Returned \cup S
  <2> DEFINE Of(x, t, m) == \E i \in DOMAIN Calls[t][m] : Calls[t][m][i] = x
             R(x) == \E t \in Submitters : \E m \in 1 .. callNo[t] :
                       (m < callNo[t] \/ spc[t] = "idle") /\ Of(x, t, m)
             Q(x) == \E t \in Submitters : \E m \in 1 .. callNo[t] :
                       (m < callNo[t] \/ spc'[t] = "idle") /\ Of(x, t, m)
  <2>1. Returned = {x \in Ctxs : R(x)} /\ Returned' = {x \in Ctxs : Q(x)} BY <1>2 DEF Returned
  <2>2. S = {x \in Ctxs : Of(x, s, callNo[s])} BY <1>6 DEF Call
  <2> HIDE DEF Of
  <2>3. ASSUME NEW x, R(x) PROVE Q(x) BY <1>3, <2>3
  <2>4. ASSUME NEW x, Of(x, s, callNo[s]) PROVE Q(x) BY <1>3, <1>4, <2>4
  <2>5. ASSUME NEW x, Q(x) PROVE R(x) \/ Of(x, s, callNo[s])
    <3>1. PICK t \in Submitters : \E m \in 1 .. callNo[t] :
            (m < callNo[t] \/ spc'[t] = "idle") /\ Of(x, t, m)
      BY <2>5
    <3>2. PICK m \in 1 .. callNo[t] : (m < callNo[t] \/ spc'[t] = "idle") /\ Of(x, t, m)
      BY <3>1
    <3>3. CASE t # s BY <1>3, <3>2, <3>3
    <3>4. CASE t = s
      <4>1. m < callNo[s] \/ m = callNo[s] BY <1>4, <3>4
      <4> QED BY <3>2, <3>4, <4>1
    <3> QED BY <3>3, <3>4
  <2> HIDE DEF R, Q
  <2> QED BY <2>1, <2>2, <2>3, <2>4, <2>5
<1> QED BY <1>2, <1>6, <1>7, <1>8, <1>9, <1>10 DEF Abstract!ReturnGrids

\* Every step of the pool is a step of Wavefront or changes nothing it sees.
LEMMA StepMaps ==
    IInv /\ RefInv /\ [Next]_vars => [Abstract!AbsNext]_(Abstract!absVars)
<1> SUFFICES ASSUME IInv, RefInv, [Next]_vars
             PROVE  Abstract!AbsNext \/ UNCHANGED <<ran, Called, Returned>>
  BY DEF Abstract!absVars
<1>0. TypeOK /\ SubInv BY DEF IInv
<1>1. ASSUME NEW w \in Workers,
             \/ QuietWork(w) \/ ClaimUnit(w) \/ ClaimRow(w) \/ RunCell(w) \/ FastClaim(w)
             \/ FastCount(w) \/ FinishRow(w) \/ RunUnit(w) \/ NextUnit(w) \/ FinishFor(w)
      PROVE  Abstract!AbsNext \/ UNCHANGED <<ran, Called, Returned>>
  <2>1. UNCHANGED <<Called, Returned>>
    <3>1. UNCHANGED callNo /\ \A s \in Submitters : spc'[s] = "idle" <=> spc[s] = "idle"
      BY <1>1, WorkOnCalls DEF SignalDone, passVars
    <3> QED BY <3>1, SameCalls
  <2>2. CASE RunCell(w) \/ RunUnit(w)
    <3>1. /\ slot[w] \in Slots /\ used[slot[w]] /\ jctx[slot[w]] \in Ctxs
          /\ \E k \in Abstract!Cells(jctx[slot[w]]) \ ran :
               Abstract!Neighbours(k) \subseteq ran /\ ran' = ran \cup {k}
      BY <2>2, WorkRuns
    <3>2. jctx[slot[w]] \in Called \ Returned BY <3>1, SlotInProgress
    <3>3. Abstract!RunOneCell(jctx[slot[w]]) BY <2>1, <3>1, <3>2 DEF Abstract!RunOneCell
    <3> QED BY <3>1, <3>3 DEF Abstract!AbsNext
  <2>3. CASE ran' = ran BY <2>1, <2>3
  <2> QED BY <1>1, <2>2, <2>3, WorkRan
<1>2. ASSUME NEW s \in Submitters, QuietCall(s)
      PROVE  Abstract!AbsNext \/ UNCHANGED <<ran, Called, Returned>>
  <2>1. CASE BeginCall(s) BY <2>1, CallMaps DEF Abstract!AbsNext
  <2>2. CASE PassJoined(s) /\ ~(pos[s] < Len(Call(s)))
    BY <2>2, ReturnMaps DEF Abstract!AbsNext
  <2>3. CASE \/ SkipEmpty(s) \/ TableFull(s) \/ RegisterOom(s) \/ EndPass(s) \/ JoinSleep(s)
             \/ PassJoined(s) /\ pos[s] < Len(Call(s))
    <3>1. UNCHANGED callNo /\ ran' = ran
      BY <2>3 DEF SkipEmpty, TableFull, RegisterOom, EndPass, JoinSleep, PassJoined, passVars
    <3>2. /\ spc[s] # "idle"
          /\ spc' = spc \/ \E l \in SubmitterPcs \ {"idle"} : spc' = [spc EXCEPT ![s] = l]
      BY <2>3 DEF SkipEmpty, TableFull, RegisterOom, EndPass, JoinSleep, PassJoined, SGoTo,
         CanRegister, OnFull, SubmitterPcs
    <3>3. \A t \in Submitters : spc'[t] = "idle" <=> spc[t] = "idle" BY <1>0, <3>2 DEF TypeOK
    <3> QED BY <3>1, <3>3, SameCalls
  <2> QED BY <1>2, <2>1, <2>2, <2>3 DEF QuietCall
<1>3. ASSUME NEW s \in Submitters, SerialCell(s)
      PROVE  Abstract!AbsNext \/ UNCHANGED <<ran, Called, Returned>>
  <2>1. spc[s] = "serial" /\ UNCHANGED callNo BY <1>3 DEF SerialCell
  <2>2. spc' = spc \/ spc' = [spc EXCEPT ![s] = "register"] BY <1>3 DEF SerialCell, SGoTo
  <2>3. \A t \in Submitters : spc'[t] = "idle" <=> spc[t] = "idle"
    BY <1>0, <2>1, <2>2 DEF TypeOK
  <2>4. UNCHANGED <<Called, Returned>> BY <2>1, <2>3, SameCalls
  <2>5. PICK x : x = Current(s) OBVIOUS
  <2>6. x \in Ctxs /\ x \in Called \ Returned
    <3>1. /\ pos[s] + 1 \in DOMAIN Call(s) /\ x = Call(s)[pos[s] + 1] /\ x \in Ctxs
      BY <2>1, <2>5, SerialGrid
    <3> QED BY <2>1, <3>1, InProgress
  <2>7. \E k \in Abstract!Cells(x) \ ran :
          Abstract!Neighbours(k) \subseteq ran /\ ran' = ran \cup {k}
    BY <1>3, <2>5, SerialRuns DEF RefInv
  <2>8. Abstract!RunOneCell(x) BY <2>4, <2>6, <2>7 DEF Abstract!RunOneCell
  <2> QED BY <2>6, <2>8 DEF Abstract!AbsNext
<1>4. ASSUME NEW s \in Submitters, Register(s) \/ Join(s)
      PROVE  UNCHANGED <<ran, Called, Returned>>
  <2>1. UNCHANGED <<callNo, ran>> BY <1>4 DEF Register, Join
  <2>2. \/ spc' = spc
        \/ \E t \in Submitters : spc[t] = "slotwait" /\ spc' = [spc EXCEPT ![t] = "register"]
    BY <1>4 DEF Register, Join, SGoTo, SlotWaiters
  <2>3. \A t \in Submitters : spc'[t] = "idle" <=> spc[t] = "idle" BY <1>0, <2>2 DEF TypeOK
  <2> QED BY <2>1, <2>3, SameCalls
<1>5. CASE External \/ UNCHANGED vars
  <2>1. UNCHANGED <<ran, callNo, spc>>
    BY <1>5, ExternalIs DEF vars, envVars, subVars, passVars
  <2> QED BY <2>1, SameCalls
<1> QED BY <1>1, <1>2, <1>3, <1>4, <1>5, Steps

\* The pool implements Wavefront: each cell runs once, after its neighbours and
\* while its call is in progress, and a call returns when all its cells have run.
THEOREM PoolImplements == Spec => ImplementsWavefront
<1>1. Init => Abstract!AbsInit
  <2> SUFFICES ASSUME Init PROVE Abstract!AbsInit OBVIOUS
  <2>1. ran = {} /\ \A s \in Submitters : callNo[s] = 0 BY DEF Init
  <2>2. Called = {} /\ Returned = {} BY <2>1 DEF Called, Returned
  <2> QED BY <2>1, <2>2 DEF Abstract!AbsInit
<1> QED BY <1>1, RefInvariant, StepMaps, PTL DEF Spec, ImplementsWavefront, Abstract!AbsSpec
=============================================================================
