------------------------------ MODULE GopQueue ------------------------------
(***************************************************************************)
(* The GOP-parallel driver of the command line (cli/yah264_cli.c): one     *)
(* reader fills a bounded store of frames, GOP workers take the GOPs off a *)
(* queue and code them each with an encoder of its own, the main thread    *)
(* writes the GOPs in order.  All share one lock and three conditions:     *)
(* space (the reader), ready (the workers), emit (the writer, and a worker *)
(* that imports the rate control state of an earlier GOP).                 *)
(*                                                                         *)
(* A section under the lock is one action; a thread that waits is in       *)
(* sleep[t] until the condition is broadcast.  Frames and GOPs are numbers *)
(* from 0, a coded GOP is the sequence of the frames fed to its encoder.   *)
(***************************************************************************)
EXTENDS Integers, Sequences, SequencesExt, FiniteSetsExt

CONSTANTS Settings,   \* what one run of the program is given, see SettingsAssumption
          Infinite    \* stands for INT_MAX: no ceiling

(***************************************************************************)
(* A setting: input frames n; keyint; what the reader is: "pipe" (length   *)
(* unknown), "known" (a file whose table the scan made, read in order) or  *)
(* "seek"; the GOP table where it is known (starts); GOP workers w; carry  *)
(* (a bitrate is asked for); wait (the split is waited for before a worker *)
(* starts); window (forced, 0 when not); ceiling (the store's share of the *)
(* memory, in frames); readahead; table (the step the tables grow by: 64); *)
(* faults: calls that may fail.                                            *)
(***************************************************************************)
SettingsAssumption ==
  \A c \in Settings :
    /\ c.n \in Nat /\ c.keyint \in Nat \ {0} /\ c.w \in Nat \ {0}
    /\ c.window \in Nat /\ c.ceiling \in Nat /\ c.readahead \in Nat
    /\ c.carry \in BOOLEAN /\ c.wait \in BOOLEAN
    /\ c.kind \in {"pipe", "known", "seek"} /\ c.table \in Nat \ {0}
    /\ c.starts \in Seq(Nat) /\ Len(c.starts) > 0 /\ c.starts[1] = 0
    /\ \A i \in 1 .. Len(c.starts) : \A j \in 1 .. i - 1 : c.starts[j] < c.starts[i]
    /\ c.kind # "pipe" => c.w < Len(c.starts) /\ c.starts[Len(c.starts)] = c.n
    /\ c.faults \subseteq {"read", "tail", "write"}
ASSUME SettingsAssumption
ASSUME InfiniteAssumption == Infinite \in Nat

NoPull == -1      \* "no GOP", "no pull index"
None   == -1

VARIABLES
  cfg,        \* the setting
  reader,     \* [pc, gop]: where the reader is, and the GOP a seek reader reads for
  main,       \* the main thread: plans, then writes
  sleep,      \* thread -> the condition it waits on, or "no"
  starved,    \* the workers counted by `waiting`
  bounds,     \* gop_start[0 .. n_gops] as a sequence
  cap,        \* gops_cap
  nRead, store,            \* n_read; the frames that are read and not retired
  rd, cons,                \* gop_rd, gop_cons (the seek reader)
  window, predispatch, eof, abort, final,
  streamStart,             \* a GOP may start before its end is known
  nextGop, pullGop,        \* next_gop; pull_gop[k]
  job,        \* worker -> [pc, k, g, i, end, pred, ahead, buf]
  rcReady,                 \* GOPs whose rate control state is exported
  done, data, emitted, out

vars == <<cfg, reader, main, sleep, starved, bounds, cap, nRead, store, rd, cons,
          window, predispatch, eof, abort, final, streamStart, nextGop, pullGop,
          job, rcReady, done, data, emitted, out>>

table == <<bounds, cap>>
flags == <<window, predispatch, eof, abort, final, streamStart>>
rates == <<pullGop, rcReady>>
output == <<done, data, emitted, out>>

-----------------------------------------------------------------------------
Smaller(a, b) == IF a < b THEN a ELSE b
Larger(a, b)  == IF a > b THEN a ELSE b

Workers == 0 .. cfg.w - 1
ReaderT == -1       \* the reader and the main thread, beside the workers 0 .. w-1
MainT   == -2
Seek    == cfg.kind = "seek"

nGops        == Len(bounds) - 1
Start(g)     == bounds[g + 1]
End(g)       == bounds[g + 2]
Length(c, g) == c.starts[g + 2] - c.starts[g + 1]
KnownGops(c) == 0 .. Len(c.starts) - 2

\* The store's ceiling: none with a scanned split, never below two GOPs.
StoreCap(c) == IF c.kind = "known" \/ c.ceiling = Infinite THEN Infinite
               ELSE Larger(c.ceiling, 2 * c.keyint)

\* Every worker owns one GOP when there are as many as workers and their lengths differ.
Static(c) == /\ c.kind # "pipe" /\ c.w > 1 /\ Len(c.starts) - 1 = c.w
             /\ \E g \in KnownGops(c) : Length(c, g) # Length(c, 0)
Queued(c) == c.kind # "pipe" /\ c.w > 1 /\ c.w < Len(c.starts) - 1

\* Longest first, ties by index, within runs of at most `horizon' frames (all of the
\* input with a seek reader that knows its length without a scan).
LongestFirst(c, horizon) ==
  LET gops == KnownGops(c)
      RunEnd(a) == Max({b \in a .. Max(gops) : b = a \/ c.starts[b + 2] - c.starts[a + 1] <= horizon})
      Before(x, y) == Length(c, x) > Length(c, y) \/ (Length(c, x) = Length(c, y) /\ x < y)
      From[a \in gops \cup {Max(gops) + 1}] ==
        IF a \notin gops THEN <<>>
        ELSE SetToSortSeq(a .. RunEnd(a), Before) \o From[RunEnd(a) + 1]
  IN From[0]

\* gop_order of each setting.
HandOuts ==
  [c \in {x \in Settings : Queued(x)} |->
     LongestFirst(c, IF c.kind = "known" THEN ((c.w + 1) * c.keyint) \div 2 ELSE c.n)]

\* The GOP handed out k-th.
HandOut(c, k) == IF Queued(c) /\ k \in KnownGops(c) THEN HandOuts[c][k + 1] ELSE k

\* gop_order holds every GOP once: it is sorted in place (qsort) from the identity.
OrderAssumption ==
  \A c \in {x \in Settings : Queued(x)} :
    /\ \A k \in KnownGops(c) : HandOut(c, k) \in KnownGops(c)
    /\ \A k \in KnownGops(c) : \A l \in KnownGops(c) \ {k} : HandOut(c, k) # HandOut(c, l)
    /\ \A g \in KnownGops(c) : \E k \in KnownGops(c) : HandOut(c, k) = g
ASSUME OrderAssumption

\* How many pulls there can be: every worker pulls once more than there are GOPs.
MaxPull(c) == c.n + c.w

Init ==
  \E c \in Settings :
    LET nKnown == Len(c.starts) - 1
        full   == IF c.window > 0 THEN c.window ELSE (c.w + 1) * c.keyint
        known  == c.kind # "pipe"
    IN /\ cfg = c
       /\ reader = [pc |-> IF c.n = 0 THEN "ending" ELSE "space", gop |-> None]
       /\ main = IF c.wait THEN "wait" ELSE "plan"
       /\ sleep = [t \in -2 .. c.w - 1 |-> "no"]
       /\ starved = {} /\ nRead = 0 /\ store = {}
       /\ bounds = IF known THEN c.starts ELSE <<0>>
       /\ cap = IF known THEN nKnown ELSE 0
       /\ rd = [g \in 0 .. c.n |-> IF g < nKnown THEN c.starts[g + 1] ELSE 0]
       /\ cons = rd
       /\ window = IF known /\ c.window = 0
                     THEN Smaller(full, (c.w + 1) * c.readahead) ELSE full
       /\ predispatch = FALSE /\ eof = FALSE /\ abort = FALSE /\ final = known
       /\ streamStart = FALSE
       /\ nextGop = 0
       /\ pullGop = [k \in 0 .. MaxPull(c) |-> NoPull]
       /\ job = [w \in 0 .. c.w - 1 |->
                   [pc |-> "unborn", k |-> NoPull, g |-> None, i |-> 0, end |-> 0,
                    pred |-> None, ahead |-> 0, buf |-> <<>>]]
       /\ rcReady = {} /\ done = {}
       /\ data = [g \in 0 .. c.n |-> <<>>]
       /\ emitted = 0 /\ out = <<>>

-----------------------------------------------------------------------------
\* Conditions.
Awake(t) == sleep[t] = "no"
Woken(conds) == [t \in DOMAIN sleep |-> IF sleep[t] \in conds THEN "no" ELSE sleep[t]]
Broadcast(conds) == sleep' = Woken(conds)

\* fs_ready: an in-order reader has a frontier, a seek reader leaves holes.
Ready(i) == IF Seek THEN i \in store ELSE i < nRead

\* The boundary pushed by gop_push, and the tables after it.
Grown(n) == IF n + 2 > cap THEN IF cap = 0 THEN cfg.table ELSE 2 * cap ELSE cap
Pushed(end) == bounds' = Append(bounds, end) /\ cap' = Grown(nGops)

-----------------------------------------------------------------------------
(* The reader in stream order. *)

\* The valve without its ceiling; the window without its valve.
MutNoCeiling == ~predispatch /\ Cardinality(store) >= window /\ starved = {}
MutNoValve   == ~predispatch /\ Cardinality(store) >= window

\* The window, its starvation valve, and the ceiling the valve cannot pass.
NoSpace ==
  /\ ~predispatch
  /\ Cardinality(store) >= window
  /\ starved = {} \/ Cardinality(store) >= Larger(StoreCap(cfg), window)

ReaderSpace ==
  /\ reader.pc = "space" /\ Awake(ReaderT) /\ ~Seek
  /\ \/ /\ abort
        /\ reader' = [reader EXCEPT !.pc = "ending"] /\ UNCHANGED sleep
     \/ /\ ~abort /\ NoSpace
        /\ sleep' = [sleep EXCEPT ![ReaderT] = "space"] /\ UNCHANGED reader
     \/ /\ ~abort /\ ~NoSpace
        /\ reader' = [reader EXCEPT !.pc = "read"] /\ UNCHANGED sleep
  /\ UNCHANGED <<cfg, main, starved, table, nRead, store, rd, cons, flags, nextGop, rates, job, output>>

\* A frame is read and published; the table grows at a key frame.
ReaderPublish ==
  /\ reader.pc = "read" /\ ~Seek
  /\ nRead' = nRead + 1
  /\ store' = store \cup {nRead}
  /\ IF ~final /\ nRead' % cfg.keyint = 0 THEN Pushed(nRead') ELSE UNCHANGED table
  /\ reader' = [reader EXCEPT !.pc = IF nRead' = cfg.n THEN "ending" ELSE "space"]
  /\ Broadcast({"ready"})
  /\ UNCHANGED <<cfg, main, starved, rd, cons, flags, nextGop, rates, job, output>>

\* The end of the input: the tail becomes a GOP of its own.
ReaderEnd ==
  /\ reader.pc = "ending"
  /\ eof' = TRUE
  /\ IF ~final /\ nRead > bounds[Len(bounds)] THEN Pushed(nRead) ELSE UNCHANGED table
  /\ final' = TRUE
  /\ reader' = [reader EXCEPT !.pc = "gone"]
  /\ Broadcast({"ready", "emit"})
  /\ UNCHANGED <<cfg, main, starved, nRead, store, rd, cons, window, predispatch, abort,
                 streamStart, nextGop, rates, job, output>>

\* reader_fail: a frame that cannot be read, or more input than its length implied.
ReaderFail ==
  /\ \/ reader.pc = "read" /\ "read" \in cfg.faults
     \/ reader.pc = "ending" /\ "tail" \in cfg.faults /\ (Seek => ~abort)
  /\ abort' = TRUE /\ eof' = TRUE /\ final' = TRUE
  /\ reader' = [reader EXCEPT !.pc = "gone"]
  /\ Broadcast({"ready", "emit", "space"})
  /\ UNCHANGED <<cfg, main, starved, table, nRead, store, rd, cons, window, predispatch,
                 streamStart, nextGop, rates, job, output>>

-----------------------------------------------------------------------------
(* The seek reader. *)

Lead(g) == rd[g] - cons[g]
ToRead  == {g \in 0 .. nGops - 1 : rd[g] < End(g)}

\* The queue position of GOP g.
Position(g) == CHOOSE k \in 0 .. nGops - 1 : HandOut(cfg, k) = g

\* The GOPs handed out and the next one, those not too far ahead of their worker.
Candidates ==
  {g \in ToRead : /\ Static(cfg) \/ Position(g) < nextGop + 1
                  /\ Lead(g) < cfg.readahead}

\* Least lead first, then queue order.
SeekPick ==
  CHOOSE g \in Candidates :
    \A h \in Candidates \ {g} :
      Lead(g) < Lead(h) \/ (Lead(g) = Lead(h) /\ Position(g) < Position(h))

SeekSpace ==
  /\ reader.pc = "space" /\ Awake(ReaderT) /\ Seek
  /\ \/ /\ abort \/ ToRead = {}
        /\ reader' = [reader EXCEPT !.pc = "ending"] /\ UNCHANGED sleep
     \/ /\ ~abort /\ ToRead # {} /\ Candidates = {}
        /\ sleep' = [sleep EXCEPT ![ReaderT] = "space"] /\ UNCHANGED reader
     \/ /\ ~abort /\ Candidates # {}
        /\ reader' = [pc |-> "read", gop |-> SeekPick] /\ UNCHANGED sleep
  /\ UNCHANGED <<cfg, main, starved, table, nRead, store, rd, cons, flags, nextGop, rates, job, output>>

SeekPublish ==
  /\ reader.pc = "read" /\ Seek
  /\ LET i == rd[reader.gop]
     IN /\ store' = store \cup {i}
        /\ rd' = [rd EXCEPT ![reader.gop] = i + 1]
        /\ nRead' = Larger(nRead, i + 1)
  /\ reader' = [reader EXCEPT !.pc = "space"]
  /\ Broadcast({"ready"})
  /\ UNCHANGED <<cfg, main, starved, table, cons, flags, nextGop, rates, job, output>>

ReaderNext == ReaderSpace \/ ReaderPublish \/ SeekSpace \/ SeekPublish \/ ReaderEnd \/ ReaderFail

-----------------------------------------------------------------------------
(* The workers. *)

At(w, pc) == job[w].pc = pc /\ Awake(w)
Moves(w, j) == job' = [job EXCEPT ![w] = j]

\* A worker without its frame counts as starved and wakes the reader.
Starves(w, j) ==
  /\ Moves(w, j)
  /\ sleep' = [Woken({"space"}) EXCEPT ![w] = "ready"]
  /\ starved' = starved \cup {w}
GoesOn(w, j) == Moves(w, j) /\ starved' = starved \ {w}

\* The pull is recorded where the GOP is known to exist, be it when it is pulled or
\* when it has been waited for.
Record(pulls, k, g) == IF k = NoPull THEN pulls ELSE [pulls EXCEPT ![k] = g]

\* As it was: a GOP waited for is not recorded as a pull.
MutPullOnly(pulls, k, g) == pulls

RecordWaited(pulls, k, g) == Record(pulls, k, g)

\* The wait for the GOP's first frame; a GOP with nothing in it is published at once.
FirstFrame(w, j, pulls) ==
  LET end == IF j.end > nRead /\ eof THEN nRead ELSE j.end
  IN /\ pullGop' = pulls
     /\ IF abort THEN /\ GoesOn(w, [j EXCEPT !.pc = "leaving"])
                      /\ UNCHANGED <<sleep, done, rcReady>>
        ELSE IF ~Ready(j.i) /\ ~eof
               THEN Starves(w, [j EXCEPT !.pc = "first"]) /\ UNCHANGED <<done, rcReady>>
        ELSE IF end <= j.i
               THEN /\ GoesOn(w, [j EXCEPT !.pc = "pull"])
                    /\ done' = done \cup {j.g} /\ rcReady' = rcReady \cup {j.g}
                    /\ Broadcast({"emit"})
        ELSE /\ GoesOn(w, [j EXCEPT !.pc = IF cfg.carry THEN "carry" ELSE "feed", !.end = end])
             /\ UNCHANGED <<sleep, done, rcReady>>

\* The wait for the GOP to exist, or for its first frame where that is enough.
Exists(w, j, pulls) ==
  LET early == /\ streamStart /\ j.k # NoPull /\ j.k < cap
               /\ nRead > j.g * cfg.keyint
      known == j.g < nGops
  IN IF ~abort /\ ~known /\ ~final /\ ~early
       THEN /\ Starves(w, [j EXCEPT !.pc = "exist"])
            /\ pullGop' = pulls /\ UNCHANGED <<done, rcReady>>
     ELSE IF ~abort /\ ~known /\ ~final
       THEN FirstFrame(w, [j EXCEPT !.i = j.g * cfg.keyint, !.end = (j.g + 1) * cfg.keyint],
                       RecordWaited(pulls, j.k, j.g))
     ELSE IF abort \/ ~known
       THEN /\ GoesOn(w, [j EXCEPT !.pc = "leaving"])
            /\ pullGop' = pulls /\ UNCHANGED <<sleep, done, rcReady>>
     ELSE FirstFrame(w, [j EXCEPT !.i = Start(j.g), !.end = End(j.g)], RecordWaited(pulls, j.k, j.g))

Pull(w) ==
  /\ At(w, "pull")
  /\ LET k == IF Static(cfg) THEN NoPull ELSE nextGop
         g == IF Static(cfg) THEN IF job[w].g = None THEN w ELSE nGops
              ELSE IF k < nGops THEN HandOut(cfg, k) ELSE k
     IN /\ nextGop' = IF Static(cfg) THEN nextGop ELSE nextGop + 1
        /\ Exists(w, [pc |-> "pull", k |-> k, g |-> g, i |-> 0, end |-> 0,
                      pred |-> None, ahead |-> 0, buf |-> <<>>],
                  IF g < nGops THEN Record(pullGop, k, g) ELSE pullGop)
  /\ UNCHANGED <<cfg, reader, main, table, nRead, store, rd, cons, flags, data, emitted, out>>

WaitGop(w) ==
  /\ At(w, "exist")
  /\ Exists(w, job[w], pullGop)
  /\ UNCHANGED <<cfg, reader, main, table, nRead, store, rd, cons, flags, nextGop, data, emitted, out>>

WaitFirst(w) ==
  /\ At(w, "first")
  /\ FirstFrame(w, job[w], pullGop)
  /\ UNCHANGED <<cfg, reader, main, table, nRead, store, rd, cons, flags, nextGop, data, emitted, out>>

\* Frames of the GOPs pulled between the predecessor and this one; a GOP whose end
\* is not known counts keyint, a pull that is not recorded counts nothing.
Credit(k) == LET g == pullGop[k]
             IN IF g = NoPull THEN 0 ELSE IF g < nGops THEN End(g) - Start(g) ELSE cfg.keyint
Ahead(from, to) == MapThenSumSet(Credit, from .. to)

\* The predecessor is the GOP handed out w pulls before.  A static split has none:
\* each worker codes one GOP.  (The predecessor is read before the lock is taken.
\* Where it is found it does not change again, and the frames in between count
\* only then: the read and the section are one step.  That the table may move
\* while it is read is not modelled.)
Predecessor(w) ==
  /\ At(w, "carry")
  /\ LET k    == job[w].k
         pred == IF k # NoPull /\ k >= cfg.w THEN pullGop[k - cfg.w] ELSE None
     IN Moves(w, [job[w] EXCEPT
                    !.pc = IF pred = None THEN "feed" ELSE "import",
                    !.pred = pred,
                    !.ahead = IF pred = None THEN 0 ELSE Ahead(k - cfg.w + 1, k - 1)])
  /\ UNCHANGED <<cfg, reader, main, sleep, starved, table, nRead, store, rd, cons, flags,
                 nextGop, rates, output>>

\* The wait for its export.
Import(w) ==
  /\ At(w, "import")
  /\ IF ~abort /\ job[w].pred \notin rcReady
       THEN sleep' = [sleep EXCEPT ![w] = "emit"] /\ UNCHANGED job
       ELSE Moves(w, [job[w] EXCEPT !.pc = "feed"]) /\ UNCHANGED sleep
  /\ UNCHANGED <<cfg, reader, main, starved, table, nRead, store, rd, cons, flags,
                 nextGop, rates, output>>

\* The wait for the next frame; at the end of the input, or aborted, the GOP ends.
Feed(w) ==
  /\ At(w, "feed")
  /\ LET j == job[w]
     IN IF ~abort /\ ~Ready(j.i) /\ ~eof THEN Starves(w, j)
        ELSE /\ GoesOn(w, [j EXCEPT !.pc = IF ~abort /\ Ready(j.i) THEN "code" ELSE "publish"])
             /\ UNCHANGED sleep
  /\ UNCHANGED <<cfg, reader, main, table, nRead, store, rd, cons, flags, nextGop, rates, output>>

\* The frame is coded outside the lock, then retired.
Code(w) ==
  /\ At(w, "code")
  /\ LET j == job[w]
         frame == IF j.i \in store THEN j.i ELSE None
     IN /\ Moves(w, [j EXCEPT !.buf = Append(@, frame), !.i = @ + 1,
                              !.pc = IF j.i + 1 = j.end THEN "publish" ELSE "feed"])
        /\ store' = store \ {j.i}
        /\ cons' = [cons EXCEPT ![j.g] = IF Seek THEN j.i + 1 ELSE @]
  /\ Broadcast({"space"})
  /\ UNCHANGED <<cfg, reader, main, starved, table, nRead, rd, flags, nextGop, rates, output>>

Publish(w) ==
  /\ At(w, "publish")
  /\ LET j == job[w]
     IN /\ rcReady' = rcReady \cup {j.g}
        /\ done' = done \cup {j.g}
        /\ data' = [data EXCEPT ![j.g] = j.buf]
        /\ Moves(w, [j EXCEPT !.pc = "pull", !.buf = <<>>])
  /\ Broadcast({"space", "emit"})
  /\ UNCHANGED <<cfg, reader, main, starved, table, nRead, store, rd, cons, flags, nextGop,
                 pullGop, emitted, out>>

Leave(w) ==
  /\ At(w, "leaving")
  /\ Moves(w, [job[w] EXCEPT !.pc = "gone"])
  /\ Broadcast({"emit"})
  /\ UNCHANGED <<cfg, reader, main, starved, table, nRead, store, rd, cons, flags, nextGop,
                 rates, output>>

WorkerNext(w) == \/ Pull(w) \/ WaitGop(w) \/ WaitFirst(w) \/ Predecessor(w) \/ Import(w)
                 \/ Feed(w) \/ Code(w) \/ Publish(w) \/ Leave(w)

-----------------------------------------------------------------------------
(* The main thread. *)

\* Before a worker exists: until the split is decidable the window does not hold.
WaitSplit ==
  /\ main = "wait" /\ Awake(MainT)
  /\ IF ~abort /\ ~final /\ nGops <= cfg.w
       THEN /\ predispatch' = TRUE
            /\ sleep' = [(IF predispatch THEN sleep ELSE Woken({"space"})) EXCEPT ![MainT] = "ready"]
            /\ UNCHANGED <<main, streamStart>>
       ELSE /\ predispatch' = FALSE /\ main' = "plan"
            /\ streamStart' = (~final /\ ~cfg.carry)
            /\ UNCHANGED sleep
  /\ UNCHANGED <<cfg, reader, starved, table, nRead, store, rd, cons, window, eof, abort, final,
                 nextGop, rates, job, output>>

\* Nothing to code, or the reader failed: no worker is started.
StopEarly ==
  /\ main = "plan"
  /\ abort \/ (final /\ nGops = 0)
  /\ abort' = TRUE
  /\ main' = "join"
  /\ Broadcast({"space"})
  /\ UNCHANGED <<cfg, reader, starved, table, nRead, store, rd, cons, window, predispatch, eof,
                 final, streamStart, nextGop, rates, job, output>>

\* The window narrows to what the workers hold, the early start gets its tables,
\* the workers start.
Dispatch ==
  /\ main = "plan"
  /\ ~(abort \/ (final /\ nGops = 0))
  /\ window' = IF cfg.window > 0 THEN window ELSE Smaller(window, (cfg.w + 1) * cfg.readahead)
  /\ streamStart' = IF cfg.wait THEN streamStart ELSE cfg.kind = "pipe" /\ ~cfg.carry
  /\ cap' = IF streamStart' /\ cap = 0 THEN cfg.table ELSE cap
  /\ job' = [w \in Workers |-> [job[w] EXCEPT !.pc = "pull"]]
  /\ main' = "emit"
  /\ Broadcast({"space"})
  /\ UNCHANGED <<cfg, reader, starved, bounds, nRead, store, rd, cons, predispatch, eof, abort,
                 final, nextGop, rates, output>>

AllOut == final /\ emitted >= nGops

\* A finished GOP is written before the abort is looked at.
MutEmit ==
  /\ main = "emit" /\ Awake(MainT)
  /\ \/ /\ emitted \in done
        /\ main' = "write" /\ UNCHANGED sleep
     \/ /\ emitted \notin done /\ (abort \/ AllOut)
        /\ main' = "join" /\ UNCHANGED sleep
     \/ /\ emitted \notin done /\ ~abort /\ ~AllOut
        /\ sleep' = [sleep EXCEPT ![MainT] = "emit"] /\ UNCHANGED main
  /\ UNCHANGED <<cfg, reader, starved, table, nRead, store, rd, cons, flags, nextGop, rates,
                 job, output>>

Emit ==
  /\ main = "emit" /\ Awake(MainT)
  /\ \/ /\ abort \/ AllOut
        /\ main' = "join" /\ UNCHANGED sleep
     \/ /\ ~abort /\ ~AllOut /\ emitted \in done
        /\ main' = "write" /\ UNCHANGED sleep
     \/ /\ ~abort /\ ~AllOut /\ emitted \notin done
        /\ sleep' = [sleep EXCEPT ![MainT] = "emit"] /\ UNCHANGED main
  /\ UNCHANGED <<cfg, reader, starved, table, nRead, store, rd, cons, flags, nextGop, rates,
                 job, output>>

\* fwrite, outside the lock.
Write ==
  /\ main = "write"
  /\ emitted' = emitted + 1
  /\ \/ out' = out \o data[emitted] /\ main' = "emit"
     \/ "write" \in cfg.faults /\ main' = "fail" /\ UNCHANGED out
  /\ data' = [data EXCEPT ![emitted] = <<>>]
  /\ UNCHANGED <<cfg, reader, sleep, starved, table, nRead, store, rd, cons, flags, nextGop, rates,
                 job, done>>

WriteFail ==
  /\ main = "fail"
  /\ abort' = TRUE
  /\ main' = "join"
  /\ Broadcast({"space", "ready"})
  /\ UNCHANGED <<cfg, reader, starved, table, nRead, store, rd, cons, window, predispatch, eof,
                 final, streamStart, nextGop, rates, job, output>>

Join ==
  /\ main = "join"
  /\ \A w \in Workers : job[w].pc \in {"unborn", "gone"}
  /\ reader.pc = "gone"
  /\ main' = "done"
  /\ UNCHANGED <<cfg, reader, sleep, starved, table, nRead, store, rd, cons, flags, nextGop,
                 rates, job, output>>

MainNext == WaitSplit \/ StopEarly \/ Dispatch \/ Emit \/ Write \/ WriteFail \/ Join

Next == ReaderNext \/ MainNext \/ (\E w \in Workers : WorkerNext(w))

MaxWorkers == Max({c.w : c \in Settings})

\* Every thread that can take a step takes one.
Fairness == /\ WF_vars(ReaderNext) /\ WF_vars(MainNext)
            /\ \A w \in 0 .. MaxWorkers - 1 : WF_vars(w \in Workers /\ WorkerNext(w))

Spec == Init /\ [][Next]_vars /\ Fairness

-----------------------------------------------------------------------------
(* Properties. *)

\* The stream is the input: the frames written are the first of the input, in
\* order, each once, whatever the reader and the queue do; all of them unless
\* something failed, and nothing of a GOP that an abort cut short (gop_worker,
\* fs_ready, the write loop of encode_threaded).
OutputIsInput ==
  /\ out = [i \in 1 .. Len(out) |-> i - 1]
  /\ Len(out) \in {cfg.n} \cup {bounds[i] : i \in DOMAIN bounds}
  /\ main = "done" /\ ~abort => Len(out) = cfg.n

\* What the import of pull k is, as a function of the hand-out order alone.
FixedPredecessor(k) == IF k >= cfg.w THEN HandOut(cfg, k - cfg.w) ELSE None
FixedAhead(k) ==
  LET Frames(i) == IF cfg.kind = "pipe" THEN cfg.keyint ELSE Length(cfg, HandOut(cfg, i))
  IN IF k >= cfg.w THEN MapThenSumSet(Frames, k - cfg.w + 1 .. k - 1) ELSE 0

Carried == {w \in Workers : /\ cfg.carry /\ job[w].k # NoPull
                            /\ job[w].pc \in {"feed", "code", "publish"}}

\* The rate control carry "is a function of the hand-out order alone"
\* (gop_job_t): each GOP imports the finished state of the GOP handed out w
\* places before it, and credits the frames in between.
CarryIsFixed ==
  \A w \in Carried :
    /\ job[w].pred = FixedPredecessor(job[w].k)
    /\ job[w].ahead = FixedAhead(job[w].k)
    /\ job[w].pred # None /\ ~abort => job[w].pred \in rcReady

\* The same where the split is known or one worker codes all; on a pipe with
\* several workers, the state of no other GOP, never one that is unfinished, and
\* no more credit than there are frames.
CarryIsChained ==
  \A w \in Carried :
    IF cfg.kind = "pipe" /\ cfg.w > 1
      THEN /\ job[w].pred \in {None, FixedPredecessor(job[w].k)}
           /\ job[w].ahead <= FixedAhead(job[w].k)
           /\ job[w].pred # None /\ ~abort => job[w].pred \in rcReady
      ELSE /\ job[w].pred = FixedPredecessor(job[w].k)
           /\ job[w].ahead = FixedAhead(job[w].k)
           /\ job[w].pred # None /\ ~abort => job[w].pred \in rcReady

\* The store is bounded (y4m_reader, seek_pick): in stream order by the ceiling or
\* the first window, with a seek reader by the read-ahead of the GOPs in flight and
\* one more.  Not while the split is waited for.
StoreBounded ==
  cfg.wait \/ Cardinality(store) <=
    IF Seek THEN (cfg.w + 1) * cfg.readahead
    ELSE Larger(StoreCap(cfg), IF cfg.window > 0 THEN cfg.window ELSE (cfg.w + 1) * cfg.keyint)

\* The run ends, whatever fails: the reader never parks on a full store for good
\* while every worker waits for a frame beyond it, no worker waits for an export
\* that does not come, and the writer always learns of an abort.
QueueEnds == <>(main = "done")

=============================================================================
