---------------------------- MODULE RunnerProofs ----------------------------
(***************************************************************************)
(* Proofs about the runner of a picture.  It is a background worker, for   *)
(* which one task at a time is proved to run once and in order, for every  *)
(* number of tasks (BgWorker); and it streams rows to the pictures that    *)
(* refer to its own, for every set of pictures and gates, every height and *)
(* every lag (StairRows).                                                  *)
(***************************************************************************)
EXTENDS StairRows, BgWorker, TLAPS

-----------------------------------------------------------------------------
(* The background worker.                                                  *)

(***************************************************************************)
(* The inductive invariant.  have_task is what ties the two threads: it is *)
(* set exactly while one task is submitted and not yet run, and the owner  *)
(* moves on from a sync only when it is clear.                             *)
(***************************************************************************)
TaskCount == /\ haveTask => task = submitted /\ submitted = ran + 1
             /\ ~haveTask => submitted = ran

WorkerState == /\ bpc = "running" => haveTask /\ cur = task
               /\ bpc = "exited" => shutdown /\ ~haveTask

OwnerState == /\ opc \in {"idle", "synced"} => ~haveTask
              /\ shutdown <=> opc \in {"joining", "gone"}
              /\ opc = "gone" => bpc = "exited"

BgInv == BgTypeOK /\ TaskCount /\ WorkerState /\ OwnerState /\ NoLostWakeup

\* The invariant holds initially.
LEMMA BgInitInv == BgInit => BgInv
<1> SUFFICES ASSUME BgInit PROVE BgInv
  OBVIOUS
<1>1. BgTypeOK
  <2>1. haveTask \in BOOLEAN /\ shutdown \in BOOLEAN
    BY DEF BgInit
  <2>2. /\ task \in 0 .. NTasks /\ cur \in 0 .. NTasks
        /\ submitted \in 0 .. NTasks /\ ran \in 0 .. NTasks
    BY NTasksAssumption DEF BgInit
  <2> QED
    BY <2>1, <2>2 DEF BgInit, BgTypeOK
<1>2. TaskCount /\ WorkerState /\ NoLostWakeup
  BY DEF BgInit, TaskCount, WorkerState, NoLostWakeup
<1>3. OwnerState
  BY Zenon DEF BgInit, OwnerState
<1> QED
  BY <1>1, <1>2, <1>3 DEF BgInv

\* Every step preserves it.
LEMMA BgNextInv == BgInv /\ [BgNext]_bgVars => BgInv'
<1> SUFFICES ASSUME BgInv, [BgNext]_bgVars PROVE BgInv'
  OBVIOUS
<1> USE NTasksAssumption DEF BgInv, BgTypeOK, TaskCount, WorkerState, OwnerState,
                             NoLostWakeup
<1>1. CASE Wait
  BY <1>1 DEF Wait
<1>2. CASE Exit
  BY <1>2 DEF Exit, Exits
<1>3. CASE Take
  BY <1>3 DEF Take, Exits
<1>4. CASE Finish
  BY <1>4 DEF Finish, WakeOwner
<1>5. CASE Submit
  BY <1>5 DEF Submit, WakeWorker
<1>6. CASE BeginSync
  BY <1>6 DEF BeginSync
<1>7. CASE SyncWait \/ SyncDone
  BY <1>7 DEF SyncWait, SyncDone, Outstanding
<1>8. CASE Destroy
  BY <1>8 DEF Destroy, WakeWorker
<1>9. CASE Join
  BY <1>9 DEF Join
<1>10. CASE UNCHANGED bgVars
  BY <1>10 DEF bgVars
<1> QED
  BY <1>1, <1>2, <1>3, <1>4, <1>5, <1>6, <1>7, <1>8, <1>9, <1>10
  DEF BgNext, Worker, Owner

LEMMA BgInvariant == BgSpec => []BgInv
  BY BgInitInv, BgNextInv, PTL DEF BgSpec

\* Every variable keeps its type.
THEOREM BgTypeCorrect == BgSpec => []BgTypeOK
<1>1. BgInv => BgTypeOK
  BY DEF BgInv
<1> QED
  BY BgInvariant, <1>1, PTL

\* Tasks run exactly once, in the order they were submitted.
THEOREM TasksRunInOrder == BgSpec => []RunsInOrder
<1>1. BgInv => RunsInOrder
  BY DEF BgInv, BgTypeOK, TaskCount, WorkerState, RunsInOrder
<1> QED
  BY BgInvariant, <1>1, PTL

\* After ntp_bg_sync, and after ntp_bg_destroy, every submitted task has run:
\* destroy drains a queued task rather than dropping it.
THEOREM SyncWaitsForAll == BgSpec => []SyncedMeansRan
<1>1. BgInv => SyncedMeansRan
  BY DEF BgInv, BgTypeOK, TaskCount, WorkerState, OwnerState, SyncedMeansRan
<1> QED
  BY BgInvariant, <1>1, PTL

\* Neither thread sleeps on cv while its condition holds.
THEOREM BgNoLostWakeup == BgSpec => []NoLostWakeup
<1>1. BgInv => NoLostWakeup
  BY DEF BgInv
<1> QED
  BY BgInvariant, <1>1, PTL

-----------------------------------------------------------------------------
(* The rows a picture streams.                                             *)

(***************************************************************************)
(* The inductive invariant.  The analysis is ahead of its watermark and    *)
(* behind its claims; the trailer's state is a function of its row and     *)
(* stage, and has waited for the rows it deblocks; the watermark is the    *)
(* trailer's row; and the last row claimed still has its gates open, for   *)
(* watermarks only rise.                                                   *)
(***************************************************************************)
RowsOf(p) ==
    /\ arow[p] <= adone[p] /\ adone[p] <= begun[p]
    /\ rpc[p] \in {"finish", "pubwait", "pubsleep", "emit", "done"} => adone[p] = Hmb
    /\ rpc[p] \in {"ready", "bailed"} => begun[p] = 0

Streamed(p, n) ==
    /\ extDone[p] = IF n = 0 THEN 0 ELSE LumaFinal(n - 1)
    /\ hpDone[p] = IF n = 0 THEN 0 ELSE HpelFinal(n - 1)
    /\ colmv[p] = n

TrailerOf(p) ==
    /\ tpc[p] = "done" <=> trow[p] = Hmb
    /\ deb[p] = IF tpc[p] \in {"stream", "publish"} THEN trow[p] + 1 ELSE trow[p]
    /\ Streamed(p, IF tpc[p] = "publish" THEN trow[p] + 1 ELSE trow[p])
    /\ deb[p] > 0 => arow[p] >= ArowNeed(deb[p] - 1)
    /\ tpc[p] = "deblock" => arow[p] >= ArowNeed(trow[p])

WatermarkOf(p) ==
    /\ rpc[p] = "bailed" => pub[p] = Hmb /\ arow[p] = 0
    /\ rpc[p] # "bailed" => pub[p] = IF trow[p] = 0 THEN -1 ELSE Watermark(trow[p] - 1)
    /\ rpc[p] = "emit" => pub[p] = Hmb

GateOf(p) == begun[p] > 0 => \A q \in Gates[p] : pub[q] >= Need(begun[p] - 1)

IInv == /\ TypeOK
        /\ \A p \in Pics : RowsOf(p) /\ TrailerOf(p) /\ WatermarkOf(p)
        /\ \A p \in Pics : GateOf(p)

-----------------------------------------------------------------------------
(* Facts about the wakeups. *)

\* A broadcast on pcv moves sleepers to the check they were asleep in.
LEMMA WakePcvFact ==
    ASSUME TypeOK, NEW q \in Pics
    PROVE  /\ WakePcv(q) \in [Pics -> {"ready", "pool", "serial", "gated", "finish",
                                "pubwait", "pubsleep", "emit", "done", "bailed"}]
           /\ \A p \in Pics : \/ WakePcv(q)[p] = rpc[p]
                              \/ rpc[p] = "pubsleep" /\ WakePcv(q)[p] = "pubwait"
                              \/ rpc[p] = "gated" /\ WakePcv(q)[p] = "serial"
  BY DEF WakePcv, TypeOK

\* A wakeup on acv moves a sleeping trailer to its check, and nothing else.
LEMMA WakeAcvFact ==
    ASSUME TypeOK, NEW p \in Pics, NEW S \in SUBSET AcvSleepers(p), WakeAcv(p, S)
    PROVE  /\ tpc' \in [Pics -> {"wait", "asleep", "deblock", "stream", "publish", "done"}]
           /\ jpc' \in {"check", "asleep", "through"}
           /\ \A x \in Pics : \/ tpc'[x] = tpc[x]
                              \/ tpc[x] = "asleep" /\ tpc'[x] = "wait"
  BY DEF WakeAcv, AcvSleepers, TypeOK

-----------------------------------------------------------------------------
(* The invariant is inductive. *)

LEMMA InitIInv == Init => IInv
<1> SUFFICES ASSUME Init PROVE IInv
  OBVIOUS
<1>1. TypeOK
  BY HmbAssumption DEF Init, TypeOK
<1>2. ASSUME NEW p \in Pics PROVE RowsOf(p) /\ TrailerOf(p) /\ WatermarkOf(p) /\ GateOf(p)
  <2>1. RowsOf(p) /\ GateOf(p)
    BY DEF Init, RowsOf, GateOf
  <2>2. TrailerOf(p)
    BY HmbAssumption DEF Init, TrailerOf, Streamed
  <2>3. WatermarkOf(p)
    BY DEF Init, WatermarkOf
  <2> QED
    BY <2>1, <2>2, <2>3
<1> QED
  BY <1>1, <1>2 DEF IInv

-----------------------------------------------------------------------------
(* Every step preserves it. *)

\* Types.
LEMMA NextType == IInv /\ Next => TypeOK'
<1> SUFFICES ASSUME IInv, Next PROVE TypeOK'
  OBVIOUS
<1> USE HmbAssumption DEF IInv, TypeOK, RowsOf, TrailerOf
<1>1. ASSUME NEW p \in Pics, StartPool(p) \/ StartSerial(p) \/ SerialGated(p)
                             \/ AnalyzeReturns(p) \/ PubWait(p) \/ Emit(p)
      PROVE  TypeOK'
  BY <1>1 DEF StartPool, StartSerial, SerialGated, AnalyzeReturns, PubWait, Emit,
              rows, trail
<1>2. ASSUME NEW p \in Pics, ClaimRow(p) \/ SerialRow(p) \/ SerialRowEnd(p)
      PROVE  TypeOK'
  BY <1>2 DEF ClaimRow, SerialRow, SerialRowEnd, rows, trail
<1>3. ASSUME NEW p \in Pics, RowDone(p)
      PROVE  TypeOK'
  <2>1. PICK S \in SUBSET AcvSleepers(p) : WakeAcv(p, S) \/ UNCHANGED <<tpc, jpc>>
    BY <1>3 DEF RowDone
  <2>2. CASE WakeAcv(p, S)
    BY <1>3, <2>2, WakeAcvFact DEF RowDone
  <2>3. CASE UNCHANGED <<tpc, jpc>>
    BY <1>3, <2>3 DEF RowDone
  <2> QED
    BY <2>1, <2>2, <2>3
<1>4. ASSUME NEW p \in Pics, ArowFinish(p)
      PROVE  TypeOK'
  BY <1>4, WakeAcvFact DEF ArowFinish, rows
<1>5. ASSUME NEW p \in Pics, Bail(p)
      PROVE  TypeOK'
  BY <1>5, WakePcvFact DEF Bail, rows, trail
<1>6. ASSUME NEW p \in Pics, TrailerSleep(p) \/ TrailerGo(p) \/ Deblock(p)
      PROVE  TypeOK'
  <2>1. CASE TrailerSleep(p) \/ TrailerGo(p)
    BY <2>1 DEF TrailerSleep, TrailerGo, rows
  <2>2. CASE Deblock(p)
    <3>1. trow[p] \in 0 .. Hmb - 1
      BY <2>2 DEF Deblock
    <3> QED
      BY <2>2, <3>1 DEF Deblock, rows
  <2> QED
    BY <1>6, <2>1, <2>2
<1>7. ASSUME NEW p \in Pics, Stream(p)
      PROVE  TypeOK'
  <2>1. trow[p] \in 0 .. Hmb - 1
    BY <1>7 DEF Stream
  <2>2. /\ LumaFinal(trow[p]) \in 0 .. 16 * Hmb
        /\ HpelFinal(trow[p]) \in 0 .. 16 * Hmb
    BY <2>1 DEF LumaFinal, HpelFinal
  <2> QED
    BY <1>7, <2>1, <2>2 DEF Stream, rows
<1>8. ASSUME NEW p \in Pics, Publish(p)
      PROVE  TypeOK'
  <2>1. trow[p] \in 0 .. Hmb - 1
    BY <1>8 DEF Publish
  <2>2. Watermark(trow[p]) \in -1 .. Hmb
    BY <2>1 DEF Watermark
  <2> QED
    BY <1>8, <2>1, <2>2, WakePcvFact DEF Publish, rows
<1>9. CASE Joiner \/ Rest
  BY <1>9 DEF Joiner, JoinerSleep, JoinerThrough, Rest, vars, rows, trail
<1> QED
  BY <1>1, <1>2, <1>3, <1>4, <1>5, <1>6, <1>7, <1>8, <1>9 DEF Next, Runner, Trailer

\* The analysis, its watermark and its claims.
LEMMA NextRows == IInv /\ Next => \A x \in Pics : RowsOf(x)'
<1> SUFFICES ASSUME IInv, Next, NEW x \in Pics PROVE RowsOf(x)'
  OBVIOUS
<1> USE HmbAssumption DEF IInv, TypeOK, RowsOf
<1>1. ASSUME NEW p \in Pics, StartPool(p) \/ StartSerial(p) \/ SerialGated(p)
                             \/ AnalyzeReturns(p) \/ PubWait(p) \/ Emit(p)
      PROVE  RowsOf(x)'
  BY <1>1 DEF StartPool, StartSerial, SerialGated, AnalyzeReturns, PubWait, Emit, rows
<1>2. ASSUME NEW p \in Pics, ClaimRow(p) \/ SerialRow(p) \/ SerialRowEnd(p) \/ RowDone(p)
      PROVE  RowsOf(x)'
  BY <1>2 DEF ClaimRow, SerialRow, SerialRowEnd, RowDone
<1>3. ASSUME NEW p \in Pics, ArowFinish(p)
      PROVE  RowsOf(x)'
  BY <1>3 DEF ArowFinish, rows
<1>4. ASSUME NEW p \in Pics, Bail(p)
      PROVE  RowsOf(x)'
  BY <1>4, WakePcvFact DEF Bail, rows
<1>5. ASSUME NEW p \in Pics, TrailerSleep(p) \/ TrailerGo(p) \/ Deblock(p) \/ Stream(p)
      PROVE  RowsOf(x)'
  BY <1>5 DEF TrailerSleep, TrailerGo, Deblock, Stream, rows
<1>6. ASSUME NEW p \in Pics, Publish(p)
      PROVE  RowsOf(x)'
  BY <1>6, WakePcvFact DEF Publish, rows
<1>7. CASE Joiner \/ Rest
  BY <1>7 DEF Joiner, JoinerSleep, JoinerThrough, Rest, vars, rows
<1> QED
  BY <1>1, <1>2, <1>3, <1>4, <1>5, <1>6, <1>7 DEF Next, Runner, Trailer

\* A step that raises arow may wake the trailer and touches nothing else of it.
LEMMA AcvStep ==
    ASSUME IInv, NEW p \in Pics, RowDone(p) \/ ArowFinish(p), NEW x \in Pics
    PROVE  /\ UNCHANGED <<trow, deb, extDone, hpDone, colmv>>
           /\ tpc'[x] = tpc[x] \/ (tpc[x] = "asleep" /\ tpc'[x] = "wait")
           /\ arow'[x] >= arow[x] /\ arow'[x] \in Int
<1>1. UNCHANGED <<trow, deb, extDone, hpDone, colmv>>
  BY DEF RowDone, ArowFinish
<1>2. arow'[x] >= arow[x] /\ arow'[x] \in Int
  BY HmbAssumption DEF RowDone, ArowFinish, IInv, TypeOK, RowsOf
<1>3. PICK S \in SUBSET AcvSleepers(p) : WakeAcv(p, S) \/ UNCHANGED <<tpc, jpc>>
  BY DEF RowDone, ArowFinish
<1>4. tpc'[x] = tpc[x] \/ (tpc[x] = "asleep" /\ tpc'[x] = "wait")
  <2>1. CASE WakeAcv(p, S)
    BY <2>1, WakeAcvFact DEF IInv
  <2>2. CASE UNCHANGED <<tpc, jpc>>
    BY <2>2
  <2> QED
    BY <1>3, <2>1, <2>2
<1> QED
  BY <1>1, <1>2, <1>4

\* The trailer.
LEMMA NextTrailer == IInv /\ Next => \A x \in Pics : TrailerOf(x)'
<1> SUFFICES ASSUME IInv, Next, NEW x \in Pics PROVE TrailerOf(x)'
  OBVIOUS
<1> USE HmbAssumption DEF IInv, TypeOK, TrailerOf, Streamed
<1>1. ASSUME NEW p \in Pics, StartPool(p) \/ StartSerial(p) \/ SerialGated(p)
                             \/ AnalyzeReturns(p) \/ PubWait(p) \/ Emit(p)
                             \/ ClaimRow(p) \/ SerialRow(p) \/ SerialRowEnd(p)
                             \/ Bail(p)
      PROVE  TrailerOf(x)'
  BY <1>1 DEF StartPool, StartSerial, SerialGated, AnalyzeReturns, PubWait, Emit,
              ClaimRow, SerialRow, SerialRowEnd, Bail, trail
<1>2. ASSUME NEW p \in Pics, RowDone(p) \/ ArowFinish(p)
      PROVE  TrailerOf(x)'
  <2>1. /\ UNCHANGED <<trow, deb, extDone, hpDone, colmv>>
        /\ tpc'[x] = tpc[x] \/ (tpc[x] = "asleep" /\ tpc'[x] = "wait")
        /\ arow'[x] >= arow[x] /\ arow'[x] \in Int
    BY <1>2, AcvStep
  <2>2. deb[x] > 0 => ArowNeed(deb[x] - 1) \in Int
    BY DEF ArowNeed
  <2>3. ArowNeed(trow[x]) \in Int
    BY DEF ArowNeed
  <2> QED
    BY <2>1, <2>2, <2>3
<1>3. ASSUME NEW p \in Pics, TrailerSleep(p) \/ TrailerGo(p)
      PROVE  TrailerOf(x)'
  BY <1>3 DEF TrailerSleep, TrailerGo
<1>4. ASSUME NEW p \in Pics, Deblock(p)
      PROVE  TrailerOf(x)'
  BY <1>4 DEF Deblock
<1>5. ASSUME NEW p \in Pics, Stream(p)
      PROVE  TrailerOf(x)'
  BY <1>5 DEF Stream
<1>6. ASSUME NEW p \in Pics, Publish(p)
      PROVE  TrailerOf(x)'
  BY <1>6 DEF Publish
<1>7. CASE Joiner \/ Rest
  BY <1>7 DEF Joiner, JoinerSleep, JoinerThrough, Rest, vars, trail
<1> QED
  BY <1>1, <1>2, <1>3, <1>4, <1>5, <1>6, <1>7 DEF Next, Runner, Trailer

\* The published watermark is the trailer's row.
LEMMA NextWatermark == IInv /\ Next => \A x \in Pics : WatermarkOf(x)'
<1> SUFFICES ASSUME IInv, Next, NEW x \in Pics PROVE WatermarkOf(x)'
  OBVIOUS
<1> USE HmbAssumption DEF IInv, TypeOK, WatermarkOf
<1>1. ASSUME NEW p \in Pics, StartPool(p) \/ StartSerial(p) \/ SerialGated(p)
                             \/ AnalyzeReturns(p) \/ Emit(p)
                             \/ ClaimRow(p) \/ SerialRow(p) \/ SerialRowEnd(p)
      PROVE  WatermarkOf(x)'
  BY <1>1 DEF StartPool, StartSerial, SerialGated, AnalyzeReturns, Emit,
              ClaimRow, SerialRow, SerialRowEnd, trail
<1>2. ASSUME NEW p \in Pics, PubWait(p)
      PROVE  WatermarkOf(x)'
  BY <1>2 DEF PubWait, AllPublished, trail
<1>3. ASSUME NEW p \in Pics, RowDone(p) \/ ArowFinish(p)
      PROVE  WatermarkOf(x)'
  BY <1>3 DEF RowDone, ArowFinish
<1>4. ASSUME NEW p \in Pics, Bail(p)
      PROVE  WatermarkOf(x)'
  <2>1. /\ arow' = arow /\ trow' = trow
        /\ x # p => pub'[x] = pub[x]
        /\ x = p => pub'[x] = Hmb /\ arow[x] = 0
    BY <1>4 DEF Bail, trail, RowsOf
  <2>2. /\ x = p => rpc'[x] = "bailed"
        /\ x # p => \/ rpc'[x] = rpc[x]
                    \/ rpc'[x] \in {"pubwait", "serial"} /\ rpc[x] # "bailed"
    BY <1>4, WakePcvFact DEF Bail
  <2> QED
    BY <2>1, <2>2
<1>5. ASSUME NEW p \in Pics, TrailerSleep(p) \/ TrailerGo(p) \/ Deblock(p) \/ Stream(p)
      PROVE  WatermarkOf(x)'
  BY <1>5 DEF TrailerSleep, TrailerGo, Deblock, Stream
<1>6. ASSUME NEW p \in Pics, Publish(p)
      PROVE  WatermarkOf(x)'
  <2>1. trow[p] \in 0 .. Hmb - 1 /\ rpc[p] # "bailed" /\ rpc[p] # "emit"
    BY <1>6 DEF Publish, TrailerOf, ArowNeed, Watermark
  <2>2. /\ arow' = arow
        /\ x # p => pub'[x] = pub[x] /\ trow'[x] = trow[x]
        /\ x = p => pub'[x] = Watermark(trow[x]) /\ trow'[x] = trow[x] + 1
    BY <1>6 DEF Publish
  <2>3. \/ rpc'[x] = rpc[x]
        \/ rpc'[x] \in {"pubwait", "serial"} /\ rpc[x] # "bailed"
    BY <1>6, WakePcvFact DEF Publish
  <2>4. CASE x # p
    BY <2>2, <2>3, <2>4
  <2>5. CASE x = p
    <3>1. trow[x] + 1 # 0 /\ trow[x] + 1 - 1 = trow[x]
      BY <2>1, <2>5
    <3> QED
      BY <2>1, <2>2, <2>3, <2>5, <3>1
  <2> QED
    BY <2>4, <2>5
<1>7. CASE Joiner \/ Rest
  BY <1>7 DEF Joiner, JoinerSleep, JoinerThrough, Rest, vars, trail
<1> QED
  BY <1>1, <1>2, <1>3, <1>4, <1>5, <1>6, <1>7 DEF Next, Runner, Trailer

\* A watermark never falls.
LEMMA PubRises == IInv /\ Next => \A x \in Pics : pub'[x] >= pub[x]
<1> SUFFICES ASSUME IInv, Next, NEW x \in Pics PROVE pub'[x] >= pub[x]
  OBVIOUS
<1>1. pub[x] \in -1 .. Hmb
  BY DEF IInv, TypeOK
<1>2. ASSUME NEW p \in Pics, Publish(p)
      PROVE  pub'[x] >= pub[x]
  <2>1. trow[p] \in 0 .. Hmb - 1 /\ rpc[p] # "bailed"
    BY <1>2, HmbAssumption DEF Publish, IInv, TypeOK, TrailerOf, WatermarkOf, ArowNeed
  <2>2. pub[p] = IF trow[p] = 0 THEN -1 ELSE Watermark(trow[p] - 1)
    BY <2>1 DEF IInv, WatermarkOf
  <2>3. pub[p] <= Watermark(trow[p])
    BY <2>1, <2>2, HmbAssumption DEF Watermark
  <2>4. pub' = [pub EXCEPT ![p] = Watermark(trow[p])] /\ pub \in [Pics -> -1 .. Hmb]
    BY <1>2 DEF Publish, IInv, TypeOK
  <2> QED
    BY <1>1, <2>3, <2>4
<1>3. ASSUME NEW p \in Pics, Bail(p)
      PROVE  pub'[x] >= pub[x]
  BY <1>1, <1>3, HmbAssumption DEF Bail, IInv, TypeOK
<1>4. CASE UNCHANGED pub
  BY <1>1, <1>4
<1> QED
  BY <1>2, <1>3, <1>4 DEF Next, Runner, Trailer, Joiner, Rest, vars,
       StartPool, StartSerial, SerialGated, AnalyzeReturns, PubWait, Emit, ClaimRow,
       SerialRow, SerialRowEnd, RowDone, ArowFinish, TrailerSleep, TrailerGo,
       Deblock, Stream, JoinerSleep, JoinerThrough

\* The gates of the last row claimed stay open.
LEMMA NextGate == IInv /\ Next => \A x \in Pics : GateOf(x)'
<1> SUFFICES ASSUME IInv, Next, NEW x \in Pics, begun'[x] > 0,
                    NEW q \in Gates[x]
             PROVE  pub'[q] >= Need(begun'[x] - 1)
  BY DEF GateOf
<1>1. q \in Pics
  BY GatesAssumption
<1>2. pub[q] \in Int /\ pub'[q] \in Int /\ pub'[q] >= pub[q]
  BY <1>1, PubRises, NextType DEF IInv, TypeOK
<1>3. begun[x] \in 0 .. Hmb /\ begun \in [Pics -> 0 .. Hmb]
  BY DEF IInv, TypeOK
<1>4. CASE begun'[x] = begun[x]
  <2>1. pub[q] >= Need(begun[x] - 1)
    BY <1>3, <1>4 DEF IInv, GateOf
  <2>2. Need(begun[x] - 1) \in Int
    BY <1>3, HmbAssumption, LagAssumption DEF Need
  <2> QED
    BY <1>2, <1>4, <2>1, <2>2
<1>5. CASE ClaimRow(x) \/ SerialRow(x)
  <2>1. begun'[x] - 1 = begun[x]
    BY <1>3, <1>5 DEF ClaimRow, SerialRow
  <2>2. pub[q] >= Need(begun[x])
    BY <1>5 DEF ClaimRow, SerialRow, RowReady
  <2>3. Need(begun[x]) \in Int
    BY <1>3, HmbAssumption, LagAssumption DEF Need
  <2> QED
    BY <1>2, <2>1, <2>2, <2>3
<1>6. begun'[x] = begun[x] \/ ClaimRow(x) \/ SerialRow(x)
  <2>1. ASSUME NEW p \in Pics, ClaimRow(p) \/ SerialRow(p), p # x
        PROVE  begun'[x] = begun[x]
    BY <1>3, <2>1 DEF ClaimRow, SerialRow
  <2> QED
    BY <2>1 DEF Next, Runner, Trailer, Joiner, Rest, vars, rows,
       StartPool, StartSerial, SerialGated, AnalyzeReturns, PubWait, Emit,
       SerialRowEnd, RowDone, ArowFinish, TrailerSleep, TrailerGo,
       Deblock, Stream, Publish, Bail, JoinerSleep, JoinerThrough
<1> QED
  BY <1>4, <1>5, <1>6

LEMMA NextIInv == IInv /\ [Next]_vars => IInv'
<1>1. CASE UNCHANGED vars
  BY <1>1 DEF IInv, TypeOK, RowsOf, TrailerOf, Streamed, WatermarkOf, GateOf,
              vars, rows, trail
<1> QED
  BY <1>1, NextType, NextRows, NextTrailer, NextWatermark, NextGate DEF IInv

\* The invariant of every behaviour.
THEOREM StairInvariant == Spec => []IInv
  BY InitIInv, NextIInv, PTL DEF Spec

-----------------------------------------------------------------------------
(* The theorems. *)

\* Every variable keeps its type.
THEOREM StairTypeCorrect == Spec => []TypeOK
  BY StairInvariant, PTL DEF IInv

\* What the gate promises about a picture that publishes: the row the watermark
\* names has been streamed, and the watermark reaches Hmb only with everything.
LEMMA WatermarkStreamed ==
    ASSUME IInv, NEW q \in Pics, rpc[q] # "bailed",
           NEW n \in 0 .. Hmb, pub[q] >= n
    PROVE  \/ /\ extDone[q] = 16 * Hmb /\ hpDone[q] = 16 * Hmb /\ colmv[q] = Hmb
           \/ /\ n < Hmb /\ extDone[q] >= 16 * n + 13 /\ hpDone[q] >= 16 * n + 10
              /\ colmv[q] > n
<1> USE HmbAssumption
<1>1. trow[q] \in 1 .. Hmb /\ pub[q] = Watermark(trow[q] - 1)
  BY DEF IInv, TypeOK, WatermarkOf
<1>2. PICK m \in 1 .. Hmb : Streamed(q, m) /\ m >= trow[q]
  <2>1. CASE tpc[q] = "publish"
    <3>1. trow[q] + 1 \in 1 .. Hmb
      BY <1>1, <2>1 DEF IInv, TrailerOf
    <3>2. Streamed(q, trow[q] + 1)
      BY <2>1 DEF IInv, TrailerOf
    <3> QED
      BY <1>1, <3>1, <3>2
  <2>2. CASE tpc[q] # "publish"
    BY <1>1, <2>2 DEF IInv, TrailerOf
  <2> QED
    BY <2>1, <2>2
<1>3. /\ extDone[q] = LumaFinal(m - 1) /\ hpDone[q] = HpelFinal(m - 1)
      /\ colmv[q] = m
  BY <1>2 DEF Streamed
<1>4. CASE m = Hmb
  BY <1>3, <1>4 DEF LumaFinal, HpelFinal
<1>5. CASE m < Hmb
  <2>1. pub[q] = trow[q] - 1 /\ n <= trow[q] - 1
    BY <1>1, <1>2, <1>5 DEF Watermark
  <2> QED
    BY <1>1, <1>2, <1>3, <1>5, <2>1 DEF LumaFinal, HpelFinal
<1> QED
  BY <1>2, <1>4, <1>5

\* Gates are monotone in the row.
LEMMA NeedMonotone ==
    ASSUME NEW r \in 0 .. Hmb, NEW s \in 0 .. Hmb, r <= s
    PROVE  Need(r) \in 0 .. Hmb /\ Need(s) \in 0 .. Hmb /\ Need(r) <= Need(s)
  BY HmbAssumption, LagAssumption DEF Need

\* The gate of every row in flight is open.
LEMMA InFlightOpen ==
    ASSUME IInv, NEW p \in Pics, NEW q \in Gates[p], NEW r \in 0 .. Hmb - 1,
           InFlight(p, r)
    PROVE  q \in Pics /\ Need(r) \in 0 .. Hmb /\ pub[q] >= Need(r) /\ pub[q] \in Int
<1> USE HmbAssumption
<1>1. q \in Pics /\ pub[q] \in -1 .. Hmb
  BY GatesAssumption DEF IInv, TypeOK
<1>2. begun[p] \in 1 .. Hmb /\ r <= begun[p] - 1
  BY DEF IInv, TypeOK, InFlight
<1>3. pub[q] >= Need(begun[p] - 1)
  BY <1>2 DEF IInv, GateOf
<1>4. Need(r) \in 0 .. Hmb /\ Need(begun[p] - 1) \in 0 .. Hmb /\ Need(r) <= Need(begun[p] - 1)
  BY <1>2, NeedMonotone
<1> QED
  BY <1>1, <1>3, <1>4

\* The lag computed for any height and pool width is one the other theorems
\* speak of: positive, never more than the height, and never under the floor
\* of four unless the picture itself is shorter.
THEOREM LagInRange ==
    ASSUME NEW hmb \in Nat \ {0}, NEW threads \in Nat \ {0}
    PROVE  StairLagFor(hmb, threads) \in (IF hmb < 4 THEN hmb ELSE 4) .. hmb
<1> DEFINE range == (16 * hmb + 24) \div threads - 24
           want == IF range < 0 THEN 0 ELSE range \div 2
           lag == (want + 24 + 15) \div 16
<1>1. range \in Int
  OBVIOUS
<1>2. want \in Int
  BY <1>1
<1>3. lag \in Int
  BY <1>2
<1> HIDE DEF lag
<1>4. StairLagFor(hmb, threads) = IF (IF lag < 4 THEN 4 ELSE lag) > hmb THEN hmb
                                  ELSE IF lag < 4 THEN 4 ELSE lag
  BY DEF StairLagFor, lag
<1> QED
  BY <1>3, <1>4

\* No row in flight reads what is not final, whatever the height and the lag:
\* the gate and the clamp move together.
THEOREM RowsReadFinal == Spec => []ReadsAreFinal
<1>1. IInv => ReadsAreFinal
  <2> SUFFICES ASSUME IInv, NEW p \in Pics, NEW q \in Gates[p], NEW r \in 0 .. Hmb - 1,
                      InFlight(p, r), rpc[q] # "bailed"
               PROVE  /\ LumaReach(r) < extDone[q] \/ extDone[q] = 16 * Hmb
                      /\ HpelReach(r) < hpDone[q] \/ hpDone[q] = 16 * Hmb
                      /\ r < colmv[q]
    BY DEF ReadsAreFinal
  <2>1. q \in Pics /\ Need(r) \in 0 .. Hmb /\ pub[q] >= Need(r)
    BY InFlightOpen
  <2>2. extDone[q] \in Int /\ hpDone[q] \in Int /\ colmv[q] \in Int
    BY <2>1, HmbAssumption DEF IInv, TypeOK
  <2>3. CASE extDone[q] = 16 * Hmb /\ hpDone[q] = 16 * Hmb /\ colmv[q] = Hmb
    BY <2>3, HmbAssumption
  <2>4. CASE /\ Need(r) < Hmb /\ extDone[q] >= 16 * Need(r) + 13
             /\ hpDone[q] >= 16 * Need(r) + 10 /\ colmv[q] > Need(r)
    <3>1. Need(r) = r + Lag
      BY <2>4, LagAssumption, HmbAssumption DEF Need
    <3> QED
      BY <2>2, <2>4, <3>1, LagAssumption DEF LumaReach, HpelReach, ReachPx
  <2> QED
    BY <2>1, <2>3, <2>4, WatermarkStreamed
<1> QED
  BY <1>1, StairInvariant, PTL

\* A row is filtered only after its readers are through.
THEOREM DeblockIsBehind == Spec => []DeblockAfterReads
<1>1. IInv => DeblockAfterReads
  <2> SUFFICES ASSUME IInv, NEW p \in Pics, deb[p] > 0
               PROVE  adone[p] >= (IF deb[p] = Hmb THEN Hmb ELSE deb[p] + 1)
    BY DEF DeblockAfterReads
  <2>1. /\ deb[p] \in 0 .. Hmb /\ arow[p] \in 0 .. Hmb /\ adone[p] \in 0 .. Hmb
        /\ arow[p] >= ArowNeed(deb[p] - 1) /\ arow[p] <= adone[p]
    BY DEF IInv, TypeOK, RowsOf, TrailerOf
  <2> QED
    BY <2>1, HmbAssumption DEF ArowNeed
<1> QED
  BY <1>1, StairInvariant, PTL

\* The watermark of a picture implies the progress of its analysis.
LEMMA PublishedIsAnalysed ==
    ASSUME IInv, NEW q \in Pics, rpc[q] # "bailed", NEW n \in 1 .. Hmb, pub[q] >= n
    PROVE  begun[q] >= n
<1> USE HmbAssumption
<1>1. trow[q] \in 1 .. Hmb /\ pub[q] = Watermark(trow[q] - 1)
  BY DEF IInv, TypeOK, WatermarkOf
<1>2. /\ deb[q] \in trow[q] .. Hmb /\ arow[q] >= ArowNeed(deb[q] - 1)
      /\ arow[q] <= adone[q] /\ adone[q] <= begun[q]
      /\ arow[q] \in Int /\ adone[q] \in Int /\ begun[q] \in Int
  BY <1>1 DEF IInv, TypeOK, RowsOf, TrailerOf
<1> QED
  BY <1>1, <1>2 DEF Watermark, ArowNeed

\* Gates compose, for every lag: this is the argument of stair_run_burst's
\* comment for leaving the leaves' list 0 without a gate of its own.
THEOREM GatesComposeAlways == Spec => []GatesCompose
<1>1. IInv => GatesCompose
  <2> SUFFICES ASSUME IInv, NEW p \in Pics, NEW q \in Gates[p], NEW g \in Gates[q],
                      NEW r \in 0 .. Hmb - 1, InFlight(p, r), rpc[q] # "bailed"
               PROVE  pub[g] >= Need(Need(r) - 1)
    BY DEF GatesCompose
  <2>1. q \in Pics /\ pub[q] >= Need(r) /\ Need(r) \in 1 .. Hmb
    BY InFlightOpen, HmbAssumption, LagAssumption DEF Need
  <2>2. begun[q] \in 1 .. Hmb /\ begun[q] >= Need(r)
    BY <2>1, PublishedIsAnalysed, HmbAssumption DEF IInv, TypeOK
  <2>3. g \in Pics /\ pub[g] \in -1 .. Hmb /\ pub[g] >= Need(begun[q] - 1)
    BY <2>1, <2>2, GatesAssumption DEF IInv, TypeOK, GateOf
  <2>4. /\ Need(Need(r) - 1) \in 0 .. Hmb /\ Need(begun[q] - 1) \in 0 .. Hmb
        /\ Need(Need(r) - 1) <= Need(begun[q] - 1)
    BY <2>1, <2>2, NeedMonotone, HmbAssumption
  <2> QED
    BY <2>3, <2>4
<1> QED
  BY <1>1, StairInvariant, PTL

\* The slice is written after the trailer is done with the grids.
THEOREM EmitIsBehind == Spec => []EmitAfterTrailer
<1>1. IInv => EmitAfterTrailer
  <2> SUFFICES ASSUME IInv, NEW p \in Pics, rpc[p] = "emit"
               PROVE  tpc[p] = "done"
    BY DEF EmitAfterTrailer
  <2>1. trow[p] \in 0 .. Hmb /\ Hmb = IF trow[p] = 0 THEN -1 ELSE Watermark(trow[p] - 1)
    BY DEF IInv, TypeOK, WatermarkOf
  <2>2. trow[p] = Hmb
    BY <2>1, HmbAssumption DEF Watermark
  <2> QED
    BY <2>2 DEF IInv, TrailerOf
<1> QED
  BY <1>1, StairInvariant, PTL
=============================================================================
