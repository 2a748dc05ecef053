------------------------------ MODULE BgWorker ------------------------------
(***************************************************************************)
(* ntp_bg of src/src/common/threadpool.c: a thread that runs one submitted *)
(* task at a time.  The W2 emit, the staircase runners, trailers and       *)
(* drivers, the frame pipe and the lookahead threads are all of this kind. *)
(*                                                                         *)
(* Tasks are numbered in the order they are submitted.  Every critical     *)
(* section is one action, since all the state is behind one mutex.  The    *)
(* owner keeps the contract of threadpool.h, "call ntp_bg_sync before the  *)
(* next ntp_bg_submit", and may destroy the worker with a task outstanding.*)
(* The specification's own names begin with Bg: RunnerProofs extends this  *)
(* module beside StairRows.                                                *)
(***************************************************************************)
EXTENDS Integers

CONSTANT NTasks         \* bound: tasks submitted in one life of the worker

ASSUME NTasksAssumption == NTasks \in Nat

VARIABLES
    haveTask,   \* b->have_task: a task is queued or running
    task,       \* b->fn, b->arg
    shutdown,   \* b->shutdown
    bpc,        \* the worker: "check", "waiting" on cv, "running", "exited"
    opc,        \* the owner: "idle", "submitted", "sync", "syncwait",
                \* "synced", "joining", "gone"
    cur,        \* the task the worker copied under the mutex
    submitted,  \* number of tasks submitted
    ran         \* number of tasks run

bgVars == <<haveTask, task, shutdown, bpc, opc, cur, submitted, ran>>

BgInit ==
    /\ haveTask = FALSE /\ task = 0 /\ shutdown = FALSE
    /\ bpc = "check" /\ opc = "idle" /\ cur = 0
    /\ submitted = 0 /\ ran = 0

\* Mutant: a state change nobody is told about.
WakeNobody(l) == l
\* pthread_cond_broadcast(&b->cv) wakes the worker and a syncing owner.
WakeWorker(l) == IF l = "waiting" THEN "check" ELSE l
WakeOwner(l) == IF l = "syncwait" THEN "sync" ELSE l

-----------------------------------------------------------------------------
(* The worker, ntp_bg_main. *)

Wait ==
    /\ bpc = "check" /\ ~shutdown /\ ~haveTask
    /\ bpc' = "waiting"
    /\ UNCHANGED <<haveTask, task, shutdown, opc, cur, submitted, ran>>

\* Mutant: shutdown looked at before the task.
ExitsAtOnce == shutdown
Exits == shutdown /\ ~haveTask

Exit ==
    /\ bpc = "check" /\ Exits
    /\ bpc' = "exited"
    /\ UNCHANGED <<haveTask, task, shutdown, opc, cur, submitted, ran>>

Take ==
    /\ bpc = "check" /\ haveTask /\ ~Exits
    /\ cur' = task
    /\ bpc' = "running"
    /\ UNCHANGED <<haveTask, task, shutdown, opc, submitted, ran>>

\* Mutant: have_task not cleared.
FinishStillTask ==
    /\ bpc = "running"
    /\ ran' = ran + 1
    /\ bpc' = "check"
    /\ opc' = WakeOwner(opc)
    /\ UNCHANGED <<haveTask, task, shutdown, cur, submitted>>

\* fn(a) returned; lock, clear have_task, wake ntp_bg_sync, unlock.
Finish ==
    /\ bpc = "running"
    /\ ran' = ran + 1
    /\ haveTask' = FALSE
    /\ bpc' = "check"
    /\ opc' = WakeOwner(opc)
    /\ UNCHANGED <<task, shutdown, cur, submitted>>

-----------------------------------------------------------------------------
(* The owner. *)

Submit ==
    /\ opc \in {"idle", "synced"} /\ submitted < NTasks
    /\ submitted' = submitted + 1
    /\ task' = submitted + 1
    /\ haveTask' = TRUE
    /\ bpc' = WakeWorker(bpc)
    /\ opc' = "submitted"
    /\ UNCHANGED <<shutdown, cur, ran>>

BeginSync ==
    /\ opc \in {"idle", "submitted", "synced"}
    /\ opc' = "sync"
    /\ UNCHANGED <<haveTask, task, shutdown, bpc, cur, submitted, ran>>

\* Mutant: only a task already taken is waited for.
StillRunning == bpc = "running"
Outstanding == haveTask

SyncWait ==
    /\ opc = "sync" /\ Outstanding
    /\ opc' = "syncwait"
    /\ UNCHANGED <<haveTask, task, shutdown, bpc, cur, submitted, ran>>

SyncDone ==
    /\ opc = "sync" /\ ~Outstanding
    /\ opc' = "synced"
    /\ UNCHANGED <<haveTask, task, shutdown, bpc, cur, submitted, ran>>

\* ntp_bg_destroy up to the join.
Destroy ==
    /\ opc \in {"idle", "submitted", "synced"}
    /\ shutdown' = TRUE
    /\ bpc' = WakeWorker(bpc)
    /\ opc' = "joining"
    /\ UNCHANGED <<haveTask, task, cur, submitted, ran>>

Join ==
    /\ opc = "joining" /\ bpc = "exited"
    /\ opc' = "gone"
    /\ UNCHANGED <<haveTask, task, shutdown, bpc, cur, submitted, ran>>

-----------------------------------------------------------------------------
Worker == Wait \/ Exit \/ Take \/ Finish
Owner == Submit \/ BeginSync \/ SyncWait \/ SyncDone \/ Destroy \/ Join

BgNext == Worker \/ Owner

BgSpec == BgInit /\ [][BgNext]_bgVars

(* Both threads keep running; every task function returns. *)
BgFairSpec == BgSpec /\ WF_bgVars(Worker) /\ WF_bgVars(SyncWait \/ SyncDone) /\ WF_bgVars(Join)

-----------------------------------------------------------------------------
(* Properties. *)

BgTypeOK ==
    /\ haveTask \in BOOLEAN /\ shutdown \in BOOLEAN
    /\ task \in 0 .. NTasks /\ cur \in 0 .. NTasks
    /\ submitted \in 0 .. NTasks /\ ran \in 0 .. NTasks
    /\ bpc \in {"check", "waiting", "running", "exited"}
    /\ opc \in {"idle", "submitted", "sync", "syncwait", "synced", "joining", "gone"}

\* Every task runs exactly once and in order: the one being run is the next
\* after those that ran, and it is the last one submitted.
RunsInOrder == bpc = "running" => cur = ran + 1 /\ cur = submitted

\* When ntp_bg_sync has returned, and when the worker is gone, every task
\* submitted has run: its outputs may be read, its buffers freed.
SyncedMeansRan == opc \in {"idle", "synced", "gone"} => ran = submitted

\* A thread asleep on cv is one whose condition does not hold.
NoLostWakeup == /\ bpc = "waiting" => ~haveTask /\ ~shutdown
                /\ opc = "syncwait" => haveTask

\* ntp_bg_sync and ntp_bg_destroy return.
EveryWaitEnds ==
    /\ opc = "sync" ~> opc = "synced"
    /\ opc = "joining" ~> opc = "gone"
=============================================================================
