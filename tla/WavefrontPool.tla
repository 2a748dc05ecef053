--------------------------- MODULE WavefrontPool ---------------------------
(***************************************************************************)
(* The persistent worker pool of src/src/common/threadpool.c: the job      *)
(* table, the workers that claim rows of jobs, the row-to-row progress     *)
(* handshake, the idle stack, the submitters that register a job and wait  *)
(* for it, and an external producer that opens the rows of gated jobs.     *)
(*                                                                         *)
(* Granularity.  `mtx` is the pool mutex.  A critical section in which     *)
(* only mutex-protected state is touched is one action; a section that     *)
(* races with the lock-free code (progress, next_row, claimw, wslot,       *)
(* idlers) is split at each racing access, with mtx held in between.       *)
(* Outside the mutex every atomic access is an action of its own.  A scan  *)
(* of the table (Ready), and the tests in front of a lock-free claim, read *)
(* several atomics in one action: they only choose what to try, and the    *)
(* claim is the compare-and-swap that validates the choice.                *)
(* The seq_cst fences the code places make the accesses sequentially       *)
(* consistent where it matters, so interleaving is the right semantics.    *)
(* A condition variable is the set of threads whose pc says they wait.     *)
(* Not modelled: profiling, spinning (it only reads), thread_init.         *)
(***************************************************************************)
EXTENDS Integers, Sequences, FiniteSets

CONSTANTS
    Workers,    \* the pool's threads
    Submitters, \* threads that call into the pool
    Ctxs,       \* the grids submitted, each once
    Calls,      \* Calls[s]: the sequence of calls s makes, each a sequence of
                \* Ctxs (of length one except for ntp_wavefront_batch)
    Kind,       \* Kind[x] \in {"wavefront", "for"}
    NRows, NCols,
    Gated,      \* grids with a row_ready gate
    Prio,       \* grids submitted after ntp_prio_hint
    Oom,        \* wavefront grids whose progress array cannot be allocated
    MaxJobs,    \* NTP_MAX_JOBS
    BatchMax,   \* the chunk of ntp_wavefront_batch
    CvStride, CvSlots,   \* NTP_CV_OF(job, row) = (job * stride + row) % slots
    MaxRows,    \* bound: no grid is taller
    None

ASSUME PoolAssumption ==
    /\ Kind \in [Ctxs -> {"wavefront", "for"}]
    /\ NRows \in [Ctxs -> 0 .. MaxRows]
    /\ NCols \in [Ctxs -> Nat \ {0}]
    /\ \A x \in Ctxs : Kind[x] = "for" => NCols[x] = 1
    /\ Gated \subseteq Ctxs /\ Prio \subseteq Ctxs
    /\ Oom \subseteq {x \in Ctxs : Kind[x] = "wavefront"}
    /\ Calls \in [Submitters -> Seq(Seq(Ctxs) \ {<<>>})]
    /\ MaxJobs \in Nat \ {0} /\ BatchMax \in Nat \ {0}
    /\ CvStride \in Nat /\ CvSlots \in Nat \ {0} /\ MaxRows \in Nat
    /\ None \notin Workers \cup Submitters \cup Ctxs
    /\ Workers \cap Submitters = {}
    /\ IsFiniteSet(Workers)

\* A grid is one invocation: it is submitted once.
ASSUME OnceAssumption ==
    \A s, t \in Submitters : \A n \in DOMAIN Calls[s], m \in DOMAIN Calls[t] :
        \A i \in DOMAIN Calls[s][n], k \in DOMAIN Calls[t][m] :
            Calls[s][n][i] = Calls[t][m][k] => s = t /\ n = m /\ i = k

Slots == 0 .. MaxJobs - 1
RowIdx == 0 .. MaxRows - 1
NoClaim == [seq |-> 0, row |-> 0]

VARIABLES
    mtx,        \* holder of p->mtx, or None
    used, done, seq, jctx,      \* the job table: a slot's flags, its
    nextRow, claimw, rowsDone,  \* registration number, its ctx (which fixes
    progress, counted,          \* kind, size, gate and priority), its claim
                                \* words and its completion accounting
    idleStack, idlers,          \* sleeping workers, LIFO; the idle count
    wslot,                      \* waiters registered per prog_cv slot
    shutdown, seqNext,
    pub,                        \* rows the external producer has opened
    pc, slot, row, col, nxt,    \* per worker: control point, claimed job and
    runSeq, curSeq, fctx,       \* row, the fast path's next row, the claimed
                                \* incarnation, the affinity, the cached ctx
    spc, callNo, pos, passed,   \* per submitter: control point, current call,
    held, scell,                \* specs consumed, specs in this pass, jobs
                                \* registered and not joined, serial cell
    ppc,                        \* the producer's control point
    ran                         \* cells whose function has been called

regVars == <<used, seq, jctx>>
jobVars == <<regVars, done, nextRow, claimw, rowsDone, progress, counted>>
idleVars == <<idleStack, idlers>>
poolVars == <<jobVars, idleVars, wslot>>
posVars == <<slot, row, col, nxt>>
idVars == <<runSeq, curSeq, fctx>>
wrkVars == <<posVars, idVars>>
workVars == <<pc, wrkVars>>
passVars == <<callNo, pos, passed, held, scell>>
subVars == <<spc, passVars>>
extVars == <<pub, ppc>>
envVars == <<shutdown, seqNext, subVars, extVars>>
vars == <<mtx, poolVars, workVars, envVars, ran>>

-----------------------------------------------------------------------------
(* Readiness and job choice. *)

StartNeed(x) == IF 2 < NCols[x] THEN 2 ELSE NCols[x]
\* Mutant: the top-right neighbour forgotten.
NeedAboveOnly(x, c) == c + 1
Need(x, c) == IF c + 2 < NCols[x] THEN c + 2 ELSE NCols[x]
CvOf(j, r) == (j * CvStride + r) % CvSlots

RowReady(x, r) == x \in Gated => r < pub

RowsClaimed(j) == IF Kind[jctx[j]] = "for" THEN claimw[j].row ELSE nextRow[j]

\* A row can start when the row above is two cells in (or complete).
Startable(j, r) ==
    /\ RowReady(jctx[j], r)
    /\ r = 0 \/ progress[j][r - 1] >= StartNeed(jctx[j])

NextReady(j) ==
    /\ used[j] /\ ~done[j]
    /\ RowsClaimed(j) < NRows[jctx[j]]
    /\ Kind[jctx[j]] = "for" \/ Startable(j, nextRow[j])

Ready == {j \in Slots : NextReady(j)}
Oldest(S) == CHOOSE j \in S : \A k \in S : seq[j] <= seq[k]

\* A latency-critical job first, then the job this worker last ran, then the
\* oldest.  Only called with Ready non-empty.
PickFresh(aseq) ==
    LET urgent == {j \in Ready : jctx[j] \in Prio}
        affine == {j \in Ready : aseq # 0 /\ seq[j] = aseq}
    IN  IF urgent # {} THEN Oldest(urgent)
        ELSE IF affine # {} THEN Oldest(affine) ELSE Oldest(Ready)

\* Mutant: the seq tag of the claim word not compared.
UnitLeftUntagged(j, s, n) == claimw[j].row < n
\* job_claim_pfor's test: the word still carries this incarnation and a unit.
UnitLeft(j, s, n) == claimw[j].seq = s /\ claimw[j].row < n

-----------------------------------------------------------------------------
(* Wake primitives: the sleeper is off the stack before it is signalled. *)

OnStack(w) == \E i \in DOMAIN idleStack : idleStack[i] = w
WakeOne == idleStack' = IF idleStack = <<>> THEN <<>>
                        ELSE SubSeq(idleStack, 1, Len(idleStack) - 1)
\* Mutant: a publish nobody is told about.
WakeNobody == UNCHANGED idleStack
WakeAll == idleStack' = <<>>

StackRemove(w) ==
    LET i == CHOOSE i \in DOMAIN idleStack : idleStack[i] = w
        n == Len(idleStack)
    IN  idleStack' = SubSeq([idleStack EXCEPT ![i] = idleStack[n]], 1, n - 1)

SignalDone(j) ==    \* pthread_cond_broadcast(&j->done_cv)
    spc' = [s \in Submitters |->
              IF spc[s] = "joinwait" /\ Head(held[s]) = j THEN "join" ELSE spc[s]]

-----------------------------------------------------------------------------
(* A worker: the claim loop, mutex held from Enter to Cascade or Sleep. *)

GoTo(w, l) == pc' = [pc EXCEPT ![w] = l]

Enter(w) ==
    /\ pc[w] = "start" /\ mtx = None
    /\ mtx' = w /\ GoTo(w, "scan")
    /\ UNCHANGED <<poolVars, wrkVars, envVars, ran>>

ScanFound(w) ==
    /\ pc[w] = "scan" /\ Ready # {}
    /\ slot' = [slot EXCEPT ![w] = PickFresh(curSeq[w])]
    /\ GoTo(w, "claim")
    /\ UNCHANGED <<mtx, poolVars, idVars, envVars, row, col, nxt, ran>>

ScanExit(w) ==
    /\ pc[w] = "scan" /\ Ready = {} /\ shutdown
    /\ mtx' = None /\ GoTo(w, "exited")
    /\ UNCHANGED <<poolVars, wrkVars, envVars, ran>>

ScanNothing(w) ==
    /\ pc[w] = "scan" /\ Ready = {} /\ ~shutdown
    /\ GoTo(w, "idle")
    /\ UNCHANGED <<mtx, poolVars, wrkVars, envVars, ran>>

\* Register as an idler before the final re-scan: a row may have become
\* claimable since the scan, its producer having seen no idler.
RegisterIdle(w) ==
    /\ pc[w] = "idle"
    /\ idlers' = idlers + 1
    /\ idleStack' = Append(idleStack, w)
    /\ GoTo(w, "rescan")
    /\ UNCHANGED <<mtx, jobVars, wslot, wrkVars, envVars, ran>>

RescanFinds == Ready # {}

\* The re-scan found work: withdraw from the stack and claim it.
Withdraw(w) ==
    /\ pc[w] = "rescan" /\ RescanFinds
    /\ slot' = [slot EXCEPT ![w] = PickFresh(curSeq[w])]
    /\ StackRemove(w) /\ idlers' = idlers - 1
    /\ GoTo(w, "claim")
    /\ UNCHANGED <<mtx, jobVars, wslot, idVars, envVars, row, col, nxt, ran>>

Sleep(w) ==
    /\ pc[w] = "rescan" /\ ~RescanFinds
    /\ mtx' = None /\ GoTo(w, "asleep")
    /\ UNCHANGED <<poolVars, wrkVars, envVars, ran>>

Resume(w) ==
    /\ pc[w] = "asleep" /\ mtx = None
    /\ ~OnStack(w) \/ shutdown
    /\ mtx' = w /\ idlers' = idlers - 1 /\ GoTo(w, "scan")
    /\ UNCHANGED <<jobVars, wslot, wrkVars, envVars, idleStack, ran>>

\* Claim the unit picked.  A lock-free claimer may have taken it since the
\* scan: then scan again.
ClaimUnit(w) ==
    LET j == slot[w] IN
    /\ pc[w] = "claim" /\ Kind[jctx[j]] = "for"
    /\ IF UnitLeft(j, seq[j], NRows[jctx[j]])
       THEN /\ claimw' = [claimw EXCEPT ![j].row = @ + 1]
            /\ row' = [row EXCEPT ![w] = claimw[j].row]
            /\ GoTo(w, "cascade")
       ELSE GoTo(w, "scan") /\ UNCHANGED <<claimw, row>>
    /\ UNCHANGED <<mtx, regVars, idleVars, wslot, idVars, envVars, done,
                   nextRow, rowsDone, progress, counted, slot, col, nxt, ran>>

\* The same for a wavefront row: re-validate, then the compare-and-swap.
ClaimRow(w) ==
    LET j == slot[w] IN
    /\ pc[w] = "claim" /\ Kind[jctx[j]] = "wavefront"
    /\ IF NextReady(j)
       THEN /\ nextRow' = [nextRow EXCEPT ![j] = @ + 1]
            /\ row' = [row EXCEPT ![w] = nextRow[j]]
            /\ GoTo(w, "cascade")
       ELSE GoTo(w, "scan") /\ UNCHANGED <<nextRow, row>>
    /\ UNCHANGED <<mtx, regVars, idleVars, wslot, idVars, envVars, done,
                   claimw, rowsDone, progress, counted, slot, col, nxt, ran>>

\* Mutant: the wake is not handed on.
CascadeNobody == UNCHANGED idleStack
\* If claimable work remains and a worker is idle, wake one.
CascadeWake == IF idlers > 0 /\ Ready # {} THEN WakeOne ELSE UNCHANGED idleStack

\* Hand the wake on, unlock, and remember the incarnation that was claimed.
Cascade(w) ==
    LET j == slot[w] IN
    /\ pc[w] = "cascade"
    /\ CascadeWake
    /\ mtx' = None
    /\ runSeq' = [runSeq EXCEPT ![w] = seq[j]]
    /\ fctx' = [fctx EXCEPT ![w] = jctx[j]]
    /\ col' = [col EXCEPT ![w] = 0]
    /\ IF Kind[jctx[j]] = "for"
       THEN GoTo(w, "unit") /\ UNCHANGED curSeq
       ELSE GoTo(w, "cell") /\ curSeq' = [curSeq EXCEPT ![w] = seq[j]]
    /\ UNCHANGED <<jobVars, wslot, envVars, idlers, slot, row, nxt, ran>>

-----------------------------------------------------------------------------
(* run_row: one wavefront row, cell by cell. *)

AboveDone(w) ==
    LET j == slot[w] IN
    row[w] > 0 => progress[j][row[w] - 1] >= Need(jctx[j], col[w])

CheckAbove(w) ==
    /\ pc[w] = "cell"
    /\ GoTo(w, IF AboveDone(w) THEN "body" ELSE "stall")
    /\ UNCHANGED <<mtx, poolVars, wrkVars, envVars, ran>>

\* Take the mutex and look again: the producer may have stored since.
Stall(w) ==
    /\ pc[w] = "stall" /\ mtx = None
    /\ IF AboveDone(w)
       THEN GoTo(w, "body") /\ UNCHANGED mtx
       ELSE GoTo(w, "enlist") /\ mtx' = w
    /\ UNCHANGED <<poolVars, wrkVars, envVars, ran>>

\* Mutant: the first wait is entered without the re-check of its loop.
EnlistBlind(w) ==
    LET k == CvOf(slot[w], row[w]) IN
    /\ pc[w] = "enlist"
    /\ wslot' = [wslot EXCEPT ![k] = @ + 1]
    /\ mtx' = None /\ GoTo(w, "parked")
    /\ UNCHANGED <<jobVars, idleVars, wrkVars, envVars, ran>>

\* Register as a waiter.  The producer's store of progress and its lock-free
\* look at wslot may both have come since the look of Stall.
Enlist(w) ==
    LET k == CvOf(slot[w], row[w]) IN
    /\ pc[w] = "enlist"
    /\ wslot' = [wslot EXCEPT ![k] = @ + 1]
    /\ GoTo(w, "park")
    /\ UNCHANGED <<mtx, jobVars, idleVars, wrkVars, envVars, ran>>

\* The re-check of the wait loop, before the first wait and after every wake.
Park(w) ==
    /\ pc[w] = "park"
    /\ IF AboveDone(w)
       THEN GoTo(w, "delist") /\ UNCHANGED mtx
       ELSE GoTo(w, "parked") /\ mtx' = None
    /\ UNCHANGED <<poolVars, wrkVars, envVars, ran>>

Delist(w) ==
    LET k == CvOf(slot[w], row[w]) IN
    /\ pc[w] = "delist"
    /\ wslot' = [wslot EXCEPT ![k] = @ - 1]
    /\ mtx' = None /\ GoTo(w, "body")
    /\ UNCHANGED <<jobVars, idleVars, wrkVars, envVars, ran>>

Unpark(w) ==
    /\ pc[w] = "unpark" /\ mtx = None
    /\ mtx' = w /\ GoTo(w, "park")
    /\ UNCHANGED <<poolVars, wrkVars, envVars, ran>>

RunCell(w) ==
    LET j == slot[w] IN
    /\ pc[w] = "body"
    /\ ran' = ran \cup {<<jctx[j], row[w], col[w]>>}
    /\ progress' = [progress EXCEPT ![j][row[w]] = col[w] + 1]
    /\ GoTo(w, "peekrow")
    /\ UNCHANGED <<mtx, regVars, idleVars, wslot, wrkVars, envVars, done,
                   nextRow, claimw, rowsDone, counted>>

PeekRowWaiter(w) ==
    /\ pc[w] = "peekrow"
    /\ GoTo(w, IF wslot[CvOf(slot[w], row[w] + 1)] > 0 THEN "wakerow" ELSE "peekidle")
    /\ UNCHANGED <<mtx, poolVars, wrkVars, envVars, ran>>

\* Lock, broadcast the slot of the row below, unlock.
WakeRow(w) ==
    LET k == CvOf(slot[w], row[w] + 1) IN
    /\ pc[w] = "wakerow" /\ mtx = None
    /\ pc' = [v \in Workers |->
                IF v = w THEN "peekidle"
                ELSE IF pc[v] = "parked" /\ CvOf(slot[v], row[v]) = k THEN "unpark"
                ELSE pc[v]]
    /\ UNCHANGED <<mtx, poolVars, wrkVars, envVars, ran>>

NextCell(w) ==
    IF col[w] + 1 < NCols[jctx[slot[w]]]
    THEN GoTo(w, "cell") /\ col' = [col EXCEPT ![w] = @ + 1]
    ELSE GoTo(w, "fast") /\ UNCHANGED col

PeekIdle(w) ==
    /\ pc[w] = "peekidle"
    /\ IF idlers > 0 /\ col[w] + 1 = StartNeed(jctx[slot[w]])
       THEN GoTo(w, "wakeidle") /\ UNCHANGED col
       ELSE NextCell(w)
    /\ UNCHANGED <<mtx, poolVars, idVars, envVars, slot, row, nxt, ran>>

WakeIdle(w) ==
    /\ pc[w] = "wakeidle" /\ mtx = None
    /\ WakeOne /\ NextCell(w)
    /\ UNCHANGED <<mtx, jobVars, wslot, idVars, envVars, idlers, slot, row,
                   nxt, ran>>

-----------------------------------------------------------------------------
(* After a wavefront row: the lock-free claim of the same job's next row.   *)

\* An idle worker is owed a cascade wake, and a live latency-critical job is
\* preferred: both send the worker back to the locked path.
FastPeek(w) ==
    LET j == slot[w]
        urgent == \E i \in Slots \ {j} : used[i] /\ jctx[i] \in Prio /\ ~done[i]
    IN  /\ pc[w] = "fast"
        /\ GoTo(w, IF seq[j] = runSeq[w] /\ idlers = 0 /\ ~urgent
                   THEN "fastclaim" ELSE "finish")
        /\ UNCHANGED <<mtx, poolVars, wrkVars, envVars, ran>>

RowsLeft(j, r) == r < NRows[jctx[j]]

\* The row the shared counter names, not the one below its own.
FastRow(w) == nextRow[slot[w]]

FastClaim(w) ==
    LET j == slot[w]  r2 == FastRow(w) IN
    /\ pc[w] = "fastclaim"
    /\ IF RowsLeft(j, r2) /\ Startable(j, r2)
       THEN /\ nextRow' = [nextRow EXCEPT ![j] = r2 + 1]
            /\ nxt' = [nxt EXCEPT ![w] = r2]
            /\ GoTo(w, "fastcount")
       ELSE GoTo(w, "finish") /\ UNCHANGED <<nextRow, nxt>>
    /\ UNCHANGED <<mtx, regVars, idleVars, wslot, idVars, envVars, done,
                   claimw, rowsDone, progress, counted, slot, row, col, ran>>

\* Only with the next row claimed is the finished one counted.
FastCount(w) ==
    LET j == slot[w] IN
    /\ pc[w] = "fastcount"
    /\ counted' = [counted EXCEPT ![j] = @ \cup {row[w]}]
    /\ rowsDone' = [rowsDone EXCEPT ![j] = @ + 1]
    /\ row' = [row EXCEPT ![w] = nxt[w]]
    /\ col' = [col EXCEPT ![w] = 0]
    /\ GoTo(w, "cell")
    /\ UNCHANGED <<mtx, regVars, idleVars, wslot, idVars, envVars, done,
                   nextRow, claimw, progress, slot, nxt, ran>>

\* Mutant: done one row early.
CompletesEarly(j) == rowsDone[j] + 2 >= NRows[jctx[j]]
CompletesJob(j) == rowsDone[j] + 1 = NRows[jctx[j]]

\* The locked completion of a row; the last one completes the job.
FinishRow(w) ==
    LET j == slot[w] IN
    /\ pc[w] = "finish" /\ mtx = None
    /\ mtx' = w /\ GoTo(w, "scan")
    /\ counted' = [counted EXCEPT ![j] = @ \cup {row[w]}]
    /\ rowsDone' = [rowsDone EXCEPT ![j] = @ + 1]
    /\ IF CompletesJob(j)
       THEN done' = [done EXCEPT ![j] = TRUE] /\ SignalDone(j)
       ELSE UNCHANGED <<done, spc>>
    /\ UNCHANGED <<regVars, idleVars, wslot, wrkVars, passVars, extVars,
                   nextRow, claimw, progress, shutdown, seqNext, ran>>

-----------------------------------------------------------------------------
(* A parallel-for unit: run it, count it, claim the next, all lock-free.    *)

RunUnit(w) ==
    LET j == slot[w] IN
    /\ pc[w] = "unit"
    /\ ran' = ran \cup {<<fctx[w], row[w], 0>>}
    /\ rowsDone' = [rowsDone EXCEPT ![j] = @ + 1]
    /\ GoTo(w, IF rowsDone[j] + 1 >= NRows[fctx[w]] THEN "finishfor" ELSE "nextunit")
    /\ UNCHANGED <<mtx, regVars, idleVars, wslot, wrkVars, envVars, done,
                   nextRow, claimw, progress, counted>>

NextUnit(w) ==
    LET j == slot[w] IN
    /\ pc[w] = "nextunit"
    /\ IF UnitLeft(j, runSeq[w], NRows[fctx[w]])
       THEN /\ claimw' = [claimw EXCEPT ![j].row = @ + 1]
            /\ row' = [row EXCEPT ![w] = claimw[j].row]
            /\ GoTo(w, "unit")
       ELSE GoTo(w, "finishfor") /\ UNCHANGED <<claimw, row>>
    /\ UNCHANGED <<mtx, regVars, idleVars, wslot, idVars, envVars, done,
                   nextRow, rowsDone, progress, counted, slot, col, nxt, ran>>

\* Mutant: the phantom count, the accounting chosen by the slot's kind now.
FinishForPhantom(w) ==
    LET j == slot[w]
        fin == IF Kind[jctx[j]] = "for" THEN rowsDone[j] ELSE rowsDone[j] + 1
    IN  /\ pc[w] = "finishfor" /\ mtx = None
        /\ mtx' = w /\ GoTo(w, "scan")
        /\ rowsDone' = [rowsDone EXCEPT ![j] = fin]
        /\ IF fin = NRows[jctx[j]] /\ ~done[j]
           THEN done' = [done EXCEPT ![j] = TRUE] /\ SignalDone(j)
           ELSE UNCHANGED <<done, spc>>
        /\ UNCHANGED <<regVars, idleVars, wslot, wrkVars, passVars, extVars,
                       nextRow, claimw, progress, counted, shutdown, seqNext,
                       ran>>

\* Exhausted: complete the job if it is still the one claimed and every unit
\* is in.  The slot may have been released and registered again by now.
FinishFor(w) ==
    LET j == slot[w] IN
    /\ pc[w] = "finishfor" /\ mtx = None
    /\ mtx' = w /\ GoTo(w, "scan")
    /\ IF seq[j] = runSeq[w] /\ rowsDone[j] = NRows[jctx[j]] /\ ~done[j]
       THEN done' = [done EXCEPT ![j] = TRUE] /\ SignalDone(j)
       ELSE UNCHANGED <<done, spc>>
    /\ UNCHANGED <<regVars, idleVars, wslot, wrkVars, passVars, extVars,
                   nextRow, claimw, rowsDone, progress, counted, shutdown,
                   seqNext, ran>>

-----------------------------------------------------------------------------
(* A submitter.  ntp_wavefront, ntp_wavefront_gated and ntp_parallel_for    *)
(* are a batch of one.                                                      *)

Call(s) == Calls[s][callNo[s]]
Current(s) == Call(s)[pos[s] + 1]
PassFull(s) == pos[s] = Len(Call(s)) \/ passed[s] = BatchMax
SGoTo(s, l) == spc' = [spc EXCEPT ![s] = l]

BeginCall(s) ==
    /\ spc[s] = "idle" /\ callNo[s] < Len(Calls[s])
    /\ callNo' = [callNo EXCEPT ![s] = @ + 1]
    /\ pos' = [pos EXCEPT ![s] = 0] /\ passed' = [passed EXCEPT ![s] = 0]
    /\ SGoTo(s, "register")
    /\ UNCHANGED <<mtx, poolVars, workVars, extVars, shutdown, seqNext, held,
                   scell, ran>>

\* One spec of the pass consumed.
Consume(s) == /\ pos' = [pos EXCEPT ![s] = @ + 1]
              /\ passed' = [passed EXCEPT ![s] = @ + 1]

SkipEmpty(s) ==
    /\ spc[s] = "register" /\ ~PassFull(s) /\ NRows[Current(s)] = 0
    /\ Consume(s)
    /\ UNCHANGED <<mtx, poolVars, workVars, extVars, shutdown, seqNext, spc,
                   callNo, held, scell, ran>>

CanRegister(s) == spc[s] = "register" /\ ~PassFull(s) /\ NRows[Current(s)] > 0
FreeSlots == {j \in Slots : ~used[j]}

Register(s) ==
    LET x == Current(s)
        j == CHOOSE i \in FreeSlots : \A k \in FreeSlots : i <= k
    IN  /\ CanRegister(s) /\ mtx = None /\ FreeSlots # {} /\ x \notin Oom
        /\ used' = [used EXCEPT ![j] = TRUE]
        /\ done' = [done EXCEPT ![j] = FALSE]
        /\ seqNext' = seqNext + 1
        /\ seq' = [seq EXCEPT ![j] = seqNext + 1]
        /\ jctx' = [jctx EXCEPT ![j] = x]
        /\ nextRow' = [nextRow EXCEPT ![j] = 0]
        /\ claimw' = [claimw EXCEPT ![j] = [seq |-> seqNext + 1, row |-> 0]]
        /\ rowsDone' = [rowsDone EXCEPT ![j] = 0]
        /\ IF Kind[x] = "wavefront"
           THEN /\ progress' = [progress EXCEPT ![j] =
                       [r \in RowIdx |-> IF r < NRows[x] THEN 0 ELSE @[r]]]
                /\ counted' = [counted EXCEPT ![j] = {}]
           ELSE UNCHANGED <<progress, counted>>
        /\ WakeOne
        /\ held' = [held EXCEPT ![s] = Append(@, j)]
        /\ Consume(s)
        /\ UNCHANGED <<mtx, wslot, workVars, extVars, idlers, shutdown, spc,
                       callNo, scell, ran>>

\* Mutant: blocks whatever the batch already holds.
FullBlocks(s) == "slotwait"
\* A full table: block for a slot with nothing held, else join what is held.
OnFull(s) == IF held[s] = <<>> THEN "slotwait" ELSE "join"

TableFull(s) ==
    /\ CanRegister(s) /\ mtx = None /\ FreeSlots = {}
    /\ SGoTo(s, OnFull(s))
    /\ UNCHANGED <<mtx, poolVars, workVars, passVars, extVars, shutdown,
                   seqNext, ran>>

\* The progress array could not be grown: run the grid here, in raster order.
RegisterOom(s) ==
    /\ CanRegister(s) /\ mtx = None /\ FreeSlots # {} /\ Current(s) \in Oom
    /\ SGoTo(s, "serial") /\ scell' = [scell EXCEPT ![s] = <<0, 0>>]
    /\ UNCHANGED <<mtx, poolVars, workVars, extVars, shutdown, seqNext, callNo,
                   pos, passed, held, ran>>

SerialCell(s) ==
    LET x == Current(s)  r == scell[s][1]  c == scell[s][2]
        after == IF c + 1 < NCols[x] THEN <<r, c + 1>> ELSE <<r + 1, 0>>
    IN  /\ spc[s] = "serial"
        /\ c = 0 => RowReady(x, r)
        /\ ran' = ran \cup {<<x, r, c>>}
        /\ scell' = [scell EXCEPT ![s] = after]
        /\ IF after[1] < NRows[x]
           THEN UNCHANGED <<spc, pos, passed>>
           ELSE SGoTo(s, "register") /\ Consume(s)
        /\ UNCHANGED <<mtx, poolVars, workVars, extVars, shutdown, seqNext,
                       callNo, held>>

\* The pass is complete: wait for the jobs registered, oldest first.
EndPass(s) ==
    /\ spc[s] = "register" /\ PassFull(s)
    /\ SGoTo(s, "join")
    /\ UNCHANGED <<mtx, poolVars, workVars, passVars, extVars, shutdown,
                   seqNext, ran>>

\* job_wait: sleep while the job is not done, then release its slot and signal
\* one submitter waiting for a slot.
JoinSleep(s) ==
    /\ spc[s] = "join" /\ held[s] # <<>> /\ mtx = None
    /\ ~done[Head(held[s])]
    /\ SGoTo(s, "joinwait")
    /\ UNCHANGED <<mtx, poolVars, workVars, passVars, extVars, shutdown,
                   seqNext, ran>>

SlotWaiters == {t \in Submitters : spc[t] = "slotwait"}

Join(s) ==
    /\ spc[s] = "join" /\ held[s] # <<>> /\ mtx = None
    /\ done[Head(held[s])]
    /\ used' = [used EXCEPT ![Head(held[s])] = FALSE]
    /\ held' = [held EXCEPT ![s] = Tail(@)]
    /\ IF SlotWaiters = {} THEN UNCHANGED spc
       ELSE \E t \in SlotWaiters : SGoTo(t, "register")
    /\ UNCHANGED <<mtx, idleVars, wslot, workVars, extVars, done, seq, jctx,
                   nextRow, claimw, rowsDone, progress, counted, shutdown,
                   seqNext, callNo, pos, passed, scell, ran>>

\* Everything held is joined: another pass, or the call returns.
PassJoined(s) ==
    /\ spc[s] = "join" /\ held[s] = <<>>
    /\ passed' = [passed EXCEPT ![s] = 0]
    /\ SGoTo(s, IF pos[s] < Len(Call(s)) THEN "register" ELSE "idle")
    /\ UNCHANGED <<mtx, poolVars, workVars, extVars, shutdown, seqNext, callNo,
                   pos, held, scell, ran>>

-----------------------------------------------------------------------------
(* The producer of a gate (the staircase trailer): publish a row, then kick. *)

PublishRow ==
    /\ ppc = "publish" /\ pub < MaxRows /\ Gated # {}
    /\ pub' = pub + 1 /\ ppc' = "kick"
    /\ UNCHANGED <<mtx, poolVars, workVars, subVars, shutdown, seqNext, ran>>

Kick ==
    /\ ppc = "kick" /\ mtx = None
    /\ WakeAll /\ ppc' = "publish"
    /\ UNCHANGED <<mtx, jobVars, wslot, workVars, subVars, idlers, shutdown,
                   seqNext, pub, ran>>

CallsOver == \A s \in Submitters : spc[s] = "idle" /\ callNo[s] = Len(Calls[s])

\* ntp_pool_destroy, called once nobody will use the pool again.
Destroy ==
    /\ CallsOver /\ ppc = "publish" /\ ~shutdown /\ mtx = None
    /\ shutdown' = TRUE /\ WakeAll
    /\ UNCHANGED <<mtx, jobVars, wslot, workVars, subVars, extVars, idlers,
                   seqNext, ran>>

-----------------------------------------------------------------------------
Init ==
    /\ mtx = None
    /\ used = [j \in Slots |-> FALSE] /\ done = [j \in Slots |-> FALSE]
    /\ seq = [j \in Slots |-> 0] /\ jctx = [j \in Slots |-> None]
    /\ nextRow = [j \in Slots |-> 0] /\ rowsDone = [j \in Slots |-> 0]
    /\ claimw = [j \in Slots |-> NoClaim]
    /\ progress = [j \in Slots |-> [r \in RowIdx |-> 0]]
    /\ counted = [j \in Slots |-> {}]
    /\ idleStack = <<>> /\ idlers = 0
    /\ wslot = [k \in 0 .. CvSlots - 1 |-> 0]
    /\ shutdown = FALSE /\ seqNext = 0 /\ pub = 0 /\ ppc = "publish"
    /\ pc = [w \in Workers |-> "start"]
    /\ slot = [w \in Workers |-> 0] /\ row = [w \in Workers |-> 0]
    /\ col = [w \in Workers |-> 0] /\ nxt = [w \in Workers |-> 0]
    /\ runSeq = [w \in Workers |-> 0] /\ curSeq = [w \in Workers |-> 0]
    /\ fctx = [w \in Workers |-> None]
    /\ spc = [s \in Submitters |-> "idle"]
    /\ callNo = [s \in Submitters |-> 0] /\ pos = [s \in Submitters |-> 0]
    /\ passed = [s \in Submitters |-> 0] /\ held = [s \in Submitters |-> <<>>]
    /\ scell = [s \in Submitters |-> <<0, 0>>]
    /\ ran = {}

ClaimLoop(w) ==
    \/ Enter(w) \/ ScanFound(w) \/ ScanExit(w) \/ ScanNothing(w)
    \/ RegisterIdle(w) \/ Withdraw(w) \/ Sleep(w) \/ Resume(w)
    \/ ClaimUnit(w) \/ ClaimRow(w) \/ Cascade(w)

RowStep(w) ==
    \/ CheckAbove(w) \/ Stall(w) \/ Enlist(w) \/ Park(w) \/ Unpark(w)
    \/ Delist(w) \/ RunCell(w) \/ PeekRowWaiter(w) \/ WakeRow(w)
    \/ PeekIdle(w) \/ WakeIdle(w)
    \/ FastPeek(w) \/ FastClaim(w) \/ FastCount(w) \/ FinishRow(w)

UnitStep(w) == RunUnit(w) \/ NextUnit(w) \/ FinishFor(w)

Worker(w) == ClaimLoop(w) \/ RowStep(w) \/ UnitStep(w)

Submitter(s) ==
    \/ BeginCall(s) \/ SkipEmpty(s) \/ Register(s) \/ TableFull(s)
    \/ RegisterOom(s) \/ SerialCell(s) \/ EndPass(s)
    \/ JoinSleep(s) \/ Join(s) \/ PassJoined(s)

External == PublishRow \/ Kick \/ Destroy

Next == \/ \E w \in Workers : Worker(w)
        \/ \E s \in Submitters : Submitter(s)
        \/ External

Spec == Init /\ [][Next]_vars

(***************************************************************************)
(* Fairness: the OS keeps running every thread that can run, and hands the *)
(* mutex to a thread that keeps asking for it.  BeginCall is a caller's    *)
(* choice and PublishRow a different thread's work, but the encoder does   *)
(* make its calls and the trailer does reach the last row, so both are     *)
(* fair too.                                                               *)
(***************************************************************************)
Fairness == /\ \A w \in Workers : SF_vars(Worker(w))
            /\ \A s \in Submitters : SF_vars(Submitter(s))
            /\ WF_vars(PublishRow) /\ SF_vars(Kick) /\ WF_vars(Destroy)

FairSpec == Spec /\ Fairness

-----------------------------------------------------------------------------
(* Properties. *)

RowPcs == {"cell", "stall", "enlist", "park", "parked", "unpark", "delist",
           "body", "peekrow", "wakerow", "peekidle", "wakeidle", "fast",
           "fastclaim", "fastcount", "finish"}
WorkerPcs == RowPcs \cup {"start", "scan", "idle", "rescan", "asleep", "claim",
                          "cascade", "unit", "nextunit", "finishfor", "exited"}
SubmitterPcs == {"idle", "register", "slotwait", "serial", "join", "joinwait"}
AtWork(w) == pc[w] \in RowPcs \cup {"unit"}

\* Every variable has its type.
TypeOK ==
    /\ mtx \in Workers \cup {None}
    /\ used \in [Slots -> BOOLEAN] /\ done \in [Slots -> BOOLEAN]
    /\ seq \in [Slots -> Nat] /\ jctx \in [Slots -> Ctxs \cup {None}]
    /\ nextRow \in [Slots -> 0 .. MaxRows] /\ rowsDone \in [Slots -> Nat]
    /\ claimw \in [Slots -> [seq : Nat, row : 0 .. MaxRows]]
    /\ progress \in [Slots -> [RowIdx -> Nat]]
    /\ counted \in [Slots -> SUBSET RowIdx]
    /\ idleStack \in Seq(Workers) /\ idlers \in Int
    /\ wslot \in [0 .. CvSlots - 1 -> Int]
    /\ shutdown \in BOOLEAN /\ seqNext \in Nat
    /\ pub \in 0 .. MaxRows /\ ppc \in {"publish", "kick"}
    /\ pc \in [Workers -> WorkerPcs] /\ slot \in [Workers -> Slots]
    /\ row \in [Workers -> RowIdx \cup {0}] /\ col \in [Workers -> Nat]
    /\ nxt \in [Workers -> RowIdx \cup {0}]
    /\ runSeq \in [Workers -> Nat] /\ curSeq \in [Workers -> Nat]
    /\ fctx \in [Workers -> Ctxs \cup {None}]
    /\ spc \in [Submitters -> SubmitterPcs]
    /\ callNo \in [Submitters -> Nat] /\ pos \in [Submitters -> Nat]
    /\ passed \in [Submitters -> Nat] /\ held \in [Submitters -> Seq(Slots)]
    /\ scell \in [Submitters -> Nat \X Nat]
    /\ ran \subseteq Ctxs \X Nat \X Nat

\* The traps of threadpool.c never fire: a worker inside a row or a unit still
\* sees the incarnation it claimed, live and not done, and no row is counted
\* twice (NTP_CHECK and the two DOUBLE COUNT aborts).
TrapsNeverFire ==
    \A w \in Workers :
        /\ AtWork(w) => /\ used[slot[w]] /\ ~done[slot[w]]
                        /\ seq[slot[w]] = runSeq[w]
        /\ pc[w] \in {"finish", "fastcount"} => row[w] \notin counted[slot[w]]

\* The cell a worker is about to run, if it is about to run one.
CellOf(w) == IF pc[w] = "unit" THEN <<fctx[w], row[w], 0>>
             ELSE <<jctx[slot[w]], row[w], col[w]>>
AboutToRun == {w \in Workers : pc[w] \in {"body", "unit"}}

\* threadpool.h: the function is invoked exactly once per cell and per index.
\* No worker is about to run a cell that ran, or that another is about to run.
EachCellOnce ==
    \A w \in AboutToRun :
        /\ CellOf(w) \notin ran
        /\ \A v \in AboutToRun \ {w} : CellOf(v) # CellOf(w)

RowRan(x, r) == \A c \in 0 .. NCols[x] - 1 : <<x, r, c>> \in ran

\* The completion count of a live job is the number of its rows (or units)
\* that ran and were counted: nothing else ever bumps it, so `done` cannot
\* come early (the phantom count of worker_main).
CountIsExact ==
    \A j \in Slots : used[j] =>
        LET x == jctx[j]
            finished == {r \in 0 .. NRows[x] - 1 : RowRan(x, r)}
        IN  /\ IF Kind[x] = "for"
               THEN rowsDone[j] = Cardinality(finished)
               ELSE rowsDone[j] = Cardinality(counted[j]) /\ counted[j] \subseteq finished
            /\ done[j] => rowsDone[j] = NRows[x]

\* No lost wakeup between rows: a worker asleep on a row above that is far
\* enough along has a producer on its way to wake it (run_row).
NoLostRowWake ==
    \A w \in Workers : pc[w] = "parked" /\ AboveDone(w) =>
        \E v \in Workers : /\ pc[v] \in {"peekrow", "wakerow"}
                           /\ slot[v] = slot[w] /\ row[v] = row[w] - 1

\* Some thread is on its way to make a sleeping worker scan, or to scan itself.
WakeInFlight ==
    \/ ppc = "kick"
    \/ \E w \in Workers :
         \/ pc[w] = "start"
         \/ pc[w] = "asleep" /\ ~OnStack(w)
         \/ pc[w] = "wakeidle"
         \/ /\ pc[w] \in {"peekrow", "wakerow", "peekidle"}
            /\ col[w] + 1 = StartNeed(jctx[slot[w]])

\* worker_main: "runnable work + idle worker => a wakeup is in flight".
NoLostIdleWake ==
    mtx = None /\ Ready # {} /\ idleStack # <<>> => WakeInFlight

\* A job slot and its cells stay those of the incarnation a worker claimed, from
\* the lock-free claim to the last count, however often the slot is registered.
JobsAreSound == TypeOK /\ TrapsNeverFire /\ EachCellOnce /\ CountIsExact

\* Nobody sleeps through work: a parked worker's row and an idle worker's job
\* each have a wakeup under way.
NoLostWake == NoLostRowWake /\ NoLostIdleWake

\* Every call returns, and the workers join at destroy: no wakeup is lost, no
\* batch waits for a slot only it can free, no gate stays unseen.
EverythingEnds ==
    <>(CallsOver /\ \A w \in Workers : pc[w] = "exited")

Returned == {x \in Ctxs : \E s \in Submitters : \E n \in 1 .. callNo[s] :
                /\ n < callNo[s] \/ spc[s] = "idle"
                /\ \E i \in DOMAIN Calls[s][n] : Calls[s][n][i] = x}
Called == {x \in Ctxs : \E s \in Submitters : \E n \in 1 .. callNo[s] :
              \E i \in DOMAIN Calls[s][n] : Calls[s][n][i] = x}

Abstract == INSTANCE Wavefront WITH called <- Called, returned <- Returned

\* The pool implements Wavefront: a cell runs after its neighbours, while its
\* call is in progress, and a call returns only when all its cells have run.
ImplementsWavefront == Abstract!AbsSpec
=============================================================================
