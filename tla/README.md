# A verification project for yah264

yah264 is an H.264 encoder in C. Its arithmetic is sequential and covered by
byte-exact tests; what those tests cannot reach is the machinery that lets
several threads encode several frames at once and still produce the bytes of the
serial encoder. That machinery is what these TLA+ modules model: the worker
pool and its wavefronts, the background threads, the hand-off of coded frames to
the bitstream, the lookahead ring, the reference-picture buffer, the staircase
that starts a B frame against an anchor that is still being coded, the queue
that spreads GOPs over several encoders; and, since a carry can reach back over
any number of bytes, the arithmetic coder.

Paths below are relative to the repository root (`src/common/threadpool.c` is
`src/src/common/threadpool.c` in PROJECT.json, which counts from one level up).

## 1. Inventory

| part | source | state | hard behaviour |
|---|---|---|---|
| worker pool | `src/common/threadpool.c` | job table, row progress, claim words, idle stack, wait counts | lock-free claims racing slot reuse, lost wakeups, batches on a full table |
| background worker | `src/common/threadpool.c` (`ntp_bg`) | one task slot, a flag, shutdown | submit / sync / destroy races |
| emit pipeline (W2) | `src/encoder/encoder.c` `emit_frame_w2`, `w2_drain` | one pending frame, two generations of snapshot buffers | reuse of a generation still being written out, NAL order, failed appends |
| lookahead thread | `encoder.c` `la_th_*`, `la_push` | ring of lookahead entries, pushed/done watermarks | an entry read before it is typed, a ring slot reused while read |
| reference buffer | `encoder.c` `dpb_*`, `code_b_hier`, `set_b_refs`, `build_list0` | frame slots with POC, frame_num and a used flag | sliding-window eviction of a picture still needed, frame_num wrap |
| staircase rows | `encoder.c` `stair_row_*`, `stair_trailer_task`, `stair_publish` | per-anchor row watermarks `arow`, `pub` | a B row reading anchor rows that are not final |
| staircase ring | `encoder.c` `stair_launch`, `stair_chain`, `stair_drain`, `stair_run_burst`, `dpbp_*` | K burst slots, chains, the entries of the buffer and their half-pel bags, bags parked for a reader | a bag, an entry or a watermark recycled under a reader, a handshake armed late, a prepare that fails between arming and coding |
| rate control | `src/encoder/rate.c`, `encoder.c` `rcp_*` | pending-frame ledger, VBV fullness, QP state | a ledger entry billed twice or never, a gate that reads a buffer with pictures in flight, the retry loop of VBV-bounded frames |
| frame typing and mini-GOPs | `encoder.c` `yah264_encode`, `la_*`, `scenecut` | lookahead queue, GOP counters, POC | closing a GOP with frames in flight, flush |
| entropy coding and NAL output | `src/encoder/cabac.c`, `cavlc.c`, `src/common/nal.c`, `bitstream.c` | arithmetic coder registers, bit cache | carry propagation, emulation prevention across byte boundaries |
| motion search, mode decision, transforms, in-loop filter | `src/encoder/mbcode.c`, `motion.c`, `loopfilter.c`, `src/dsp` | per-macroblock data | pure arithmetic; no state beyond a macroblock row |
| GOP queue | `cli/yah264_cli.c` `y4m_reader*`, `gop_worker`, `encode_threaded` | a bounded store of frames, the GOP tables, one lock and three conditions | a reader and a worker that wait for each other, the rate state carried between GOPs, aborts |
| CLI options and files | `cli/yah264_cli.c` | none that lasts | formats |
| GPU and hardware paths | `src/encoder/gpu.c`, `src/hw` | device queues | external libraries |

### How the parts interact

The application calls `yah264_encode` on one thread. That thread pushes frames
into the lookahead ring (a background worker costs them, submitting small grids
to the pool), decides types, and codes a mini-GOP at a time: the anchor, then
its B frames in dyadic order. Analysis of a frame is a wavefront on the pool;
entropy coding runs behind it, on the emit worker (W2) or inside a staircase
runner. With the staircase on, the anchor of mini-GOP n+1 is launched before the
B frames of mini-GOP n are coded; a trailer thread follows the anchor's
analysis, filters its rows and publishes a watermark, and the rows of the
pictures that refer to it are gated on that watermark through the pool's
`row_ready` callback. The CLI runs one such encoder per worker thread, each on a
GOP of its own: one reader fills a store of frames, one writer emits the GOPs in
order, and a worker may start a GOP from the rate-control state its predecessor
left.

## 2. What makes each part correct

* pool: a cell runs exactly once, after its neighbours, before its call
  returns; no thread sleeps while it is owed a wakeup; every call returns.
* background worker: tasks run once, in order; a sync means they have run.
* emit pipeline: the NAL units come out in coding order; a snapshot is never
  overwritten while it is being written out.
* lookahead: an entry is not popped before it is final; a slot is not reused
  before its reader is done.
* reference buffer: both references of a B are in the buffer and the encoder's
  eviction matches the decoder's.
* staircase: a row never reads what is not final; no buffer is written under a
  reader; bursts come out in order; every wait ends.
* rate control: each coded size is billed once, to its own picture and the
  coding it is the size of; one thread at a time touches the ledger.
* GOP queue: the output is the input, in order; the store is bounded; nobody
  waits for ever; a GOP starts from the state of the GOP before it.
* entropy coding: a decoder reads back every header and every bin; a byte once
  written changes by a carry at most, and only the last of its slice.

## 3. The models

| module | models | state and how it corresponds to the code |
|---|---|---|
| `Wavefront` | what a caller of the pool is promised | cells run of each grid, calls returned |
| `WavefrontPool` | `src/common/threadpool.c`, the pool | the job table (`used`, `done`, `seq`, `jctx`), its claim words (`nextRow`, `claimw`), `progress`, the idle stack and count, per-slot row waiters, one program counter per thread. The mutex is a variable: a critical section that races with the lock-free code is split at each racing access, every atomic access outside it is an action: a worker that has no work looks at its neighbour's progress, enlists, looks again and parks or delists in four steps |
| `BgWorker` | `ntp_bg` | one task slot, `shutdown`, where the worker and its owner are |
| `StairRows` | `stair_row_*`, `stair_trailer_task`, `stair_publish`, `stair_runner_task` | `arow`, `pub`, the rows the analysis has begun and ended, the trailer's loop variable and what it has deblocked, extended, interpolated and committed, per picture |
| `StairRing` | `stair_launch`, `stair_chain`, `stair_run_b`, `stair_dpb_*`, `dpbp_*`, `stair_col_src_get`, `stair_drain*` | the entries of the buffer with the picture, plane and bag of each, the free bags and those parked for a reader (two sets: the code's are a stack and a list), what picture every plane holds, the burst slots with their watermarks, what each thread of each burst does and reads |
| `RateLedger` | `rcp_*` of `rate.c`; `emit_frame_w2`, `emit_frame`, `code_b_pair`, `stair_run_burst`, `stair_drain*`, the VBV gate, the flush | the ledger as a sequence, the bursts in flight, the emit worker's slice, the picture being coded again, the NAL units out |
| `GopQueue` | `cli/yah264_cli.c`: `y4m_reader`, `y4m_reader_seek`, `gop_worker`, `encode_threaded` | frames read, held and let go, the GOP tables, where reader, workers, splitter and writer are, the exported and imported rate states |
| `LookaheadRing` | `la_*`, `encode_push`, `compute_mbtree_wholebuf`, `mbt_warm_*` | the ring, the four counters, what each slot's planes, types, vectors and memos belong to; the API, chain and prefetch threads |
| `Cabac` | the `E_*` macros of `src/encoder/cabac.c`, `cabac_zero_words` | the registers of the engine and the bytes written, with the code's widths; one action per call |
| `SliceWriter` | `emit_picture`, `append_picture_nals`, `src/common/nal.c` | the slices of one picture, their lengths, the output; beside them the decoding engine and a byte-stream parser |
| `Dpb` | `dpb_*`, `set_b_refs`, `build_list0`, `refring_push`, `code_b_hier`, `flush_buffered_p`, the window sizing of `encoder_open` | the buffer, the ring, the frame numbers, the recovery-point bounds; beside them two decoders |

`MCPool`, `MCStairRows`, `MCStairRing`, `MCLedger`, `MCGopQueue`, `MCLookahead`,
`MCDpb` and `MCSliceWriter` hold the instances. The proofs are in `PoolProofs`
(about `WavefrontPool`), `RunnerProofs` (about `BgWorker` and `StairRows`, the
thread of a picture and the rows it streams), `StairRingProofs` and
`StairBufProofs` (about `StairRing`, whose inductive invariants are in
`StairRingInv`), `LedgerProofs` (about `RateLedger`), `GopProofs` (about
`GopQueue`), `LookaheadProofs` (about `LookaheadRing`) and `DecoderProofs` (about
`Cabac`, what a decoder of the bits needs, and `Dpb`, what a decoder of the pictures
needs; the inductive invariant of `Dpb` is in `DpbInv`).

Actions have the names of the functions or of their steps; the `map` of
PROJECT.json gives the lines of each. Pictures, rows and tasks are numbers;
pixels, costs, vectors and sizes are represented by the picture they belong to,
so that "reads the wrong picture's data" is a visible state.

How they compose. `WavefrontPool` is shown to implement `Wavefront` (a
refinement mapping, checked as the property `ImplementsWavefront`), and that
interface is what `StairRows` assumes when it lets rows be claimed in order, end
in order and be tried again after a publish. `BgWorker` justifies that a runner,
a trailer, a chain or the emit worker is one task that ends before a sync
returns, which is how `StairRows`, `RateLedger` and `LookaheadRing` treat them.
`RateLedger` fixes the order in which pictures are decided and written, which is
the coding order that `Dpb` assumes. `StairRing` takes a gated row as `StairRows`
shows it to be (it reads nothing of a picture that its gate does not cover) and
asks what `StairRows` cannot: whether the gate is the right picture's, and
whether the memory behind it is still that picture's. `SliceWriter` composes
`Cabac` with the code that opens, closes, packs and drops slices.

## 4. The runs

All run in well under five minutes on two workers.

| run | question | bounds, and why they are enough |
|---|---|---|
| `pool_reuse` | does slot reuse, the lock-free claim, the gate kick and the handing-on of wakeups keep the promise of `Wavefront` | two workers, a table of two slots, three grids. Grid 2 reuses grid 1's slot while grid 3 keeps the other: stale claims need one reuse. Three columns, since the top-right neighbour differs from the top one only then. One wait condition for a whole table makes unrelated rows share it, as the modulo in `NTP_CV_OF` does |
| `pool_batch` | does every call return when a batch is larger than the table and another submitter competes, an empty grid and a failed allocation included | a table of one, chunks of two: a batch cannot hold all its slots at once. Liveness |
| `bg_worker` | tasks run once, in order; a sync means they ran; every wait ends | twenty tasks of one life; the state repeats from the second on |
| `stair_burst` | are the rows a picture reads final, in an anchor, its reference B and a leaf gated on both, with serial fallback and a chain that fails | six rows, lag four (the smallest the code takes): rows with a real gate, and bottom rows that wait for everything |
| `stair_ring` | is every buffer kept while somebody reads it, every reference whole or gated on its own watermark, and does every encode end | the ring of three: wide with one and two references, with a mini-GOP of two, three and four B pictures and so one or two reference B's, streamed or coded whole, and narrow without streaming; colocated pictures; prepares that fail. Four or five mini-GOPs, so that every slot, entry and bag is taken again. Liveness |
| `stair_narrow` | the same of the narrow ring with the tight window (violated) | one reference, a streaming reference B |
| `ledger` | is every size billed once, in its own entry where there is no lag, the output in coding order, one writer at a time, room in the ledger, the buffer exact where the VBV reads it, and does the flush end | three settings. The shipped lag on a ring of three: eleven pictures turn it, and the ledger is nine entries (sixteen is `(K+1)*(MaxB+1)` in the code), so that the room a launch makes is needed. No lag, slices that overflow and chains that fail: six pictures, two bursts and a serial group in every order. A VBV: five pictures, tight groups with up to four retries, one of which may overflow, between groups that are let through. Liveness |
| `gop_queue` | does the writer put out the input, is the store bounded, is a GOP's rate state its predecessor's, and does everybody come to an end | four to seven frames in two to four GOPs, one or two workers: a pipe, a scanned file read in order with the longest GOP first, the seek reader with a queue and with one GOP to each worker; a window below a GOP, so that the starvation valve and its ceiling are what counts; reads, tails and writes that fail. Liveness |
| `gop_carry` | is the state a GOP starts from the same in every schedule, as a comment says (violated) | a pipe with the carry, two workers |
| `lookahead` | do three threads on the ring read what an inline chain would have left, and does every call return | two and a half turns of the smallest ring in which the prefetch has work; three type sequences, one whose order counts repeat with the ring; each walk with and without the trim of the leaves past the last anchor it sees |
| `dpb` | does the encoder predict from what a decoder has, from the start and from an open key | ten pictures, every run length and kind at each step, seven settings; frame numbers modulo 7 instead of 16 or 256, so that they wrap; the cap on the window scaled down in two settings, so that it binds |
| `slice_writer` | can a decoder read back what was coded, does a carry stay in its slice, do the zero words restore, in the bytes a receiver gets, the bound on the bins the engine counts | the real tables; two contexts, nine syntax elements, among them runs of cheap bins and escapes long enough to hold bytes back; one or two slices, a header of 255, an RBSP buffer and an output buffer that some pictures outgrow |

Fairness. A thread that can take a step takes one: weak fairness on each
thread's next action, which is what an operating system's scheduler gives. A
wait on a condition variable is a state left only by the signal the code sends,
so a lost wakeup is a liveness violation and fairness hides none. No fairness is
assumed of the application (it may stop calling), except that in the flush and
the close a call that was begun goes on. `ledger` assumes the application
repeats the flush call until it returns nothing, as the API asks; of the chains,
and of the runners, it asks only that one of them runs while any can. `GopQueue`
and `StairRing` assume of each thread that it runs, of the caller that it goes
on with its encode, and of a source that a read comes back, with a frame or an
error.

Deadlock is checked where the model has a resting state of its own
(`StairRows`, `RateLedger`). Elsewhere the program ends by stopping, and a
liveness property says where it may: `EverythingEnds` of the pool's calls,
`EveryWaitEnds` of the background worker, `RingEnds`, `QueueEnds`, `CallsReturn`.

## 5. What is proved

TLC answers for the instances of section 4; what follows holds for every value of
the constants that the named assumptions allow. An invariant is proved through an
inductive one, `IInv` (`EngineInv` for `Cabac`, `DpbIInv` for `Dpb`, `BgInv` for the
background worker), that each module states in its first section (of `StairRing` and
`Dpb`: in `StairRingInv` and `DpbInv`), part by part; TLC checked each on a run before its proof. A
refinement or an action property is a step under `IInv`.

`PoolProofs`, for any workers, submitters and calls and any size of table and
grids: the type invariant, `JobsAreSound` and `NoLostWake`, and that
the pool implements `Wavefront` (`ImplementsWavefront`). The invariant begins with
who owns what. A slot's claim word carries the slot's registration number, so a
claim that succeeds is a claim on the grid the worker saw when it picked the slot
(`SlotOf`, `LiveOf`); claimed rows lie below the claim word and belong to one worker
each (`ClaimInv`); `progress` counts the cells that ran (`RowOf`), and a worker's
position says how many of them are its own (`CellsOf`). Completion is a count, so
`CountInv` ties it to the set of rows counted, and a grid that is done has run
whole. On the submitters' side, a grid is taken up once, is in the table or
complete, and is held by one call. `NoLostWake` needs `WaitersInv` (the waiter
count of a condition is the number of workers registered on it, parked or about to)
and an idle half that also holds while the mutex is held by a worker on its way to
park, `IdleWakeInv`. The refinement adds where a serial submitter stands in its
grid and that a returned call has consumed all its grids (`RefInv`). Two
assumptions on the constants are for the proof: there are finitely many workers,
since counts are cardinalities, and a grid is submitted once (`OnceAssumption`: a
grid is the model's name of one invocation, so that "which grid ran" has a meaning).

`RunnerProofs`, for any number of tasks of a background worker: the type invariant, `RunsInOrder`,
`SyncedMeansRan` and `NoLostWakeup`. The inductive invariant ties the task slot
to the two program counters and to the counts: a task is in the slot exactly
when one more has been submitted than has run, and the worker sleeps only when
the slot is empty. Without the second half a sync could return on the strength
of a slot that was never filled.

`RunnerProofs`, for the rows of every set of pictures, gate relation, height and
lag: the type invariant, `ReadsAreFinal`, `DeblockAfterReads`, `GatesCompose` and
`EmitAfterTrailer`, and `LagInRange`, the range of `stair_lag_for` that the
other statements take as an assumption on the constant. The invariant has four
parts, each about one picture. `RowsOf`: analysed rows lie between the published
count `arow` and the begun ones. `TrailerOf`: what the trailer has deblocked,
extended, interpolated and committed is what its loop variable says, up to where
it stands in the row, and the analysis is ahead of it. `WatermarkOf`: the
watermark is one behind the loop variable, or complete. `GateOf`: every row
begun has found its watermark on each gate. They are needed together: a read is
final because its row passed the gate, the gate means a watermark, the watermark
means the trailer has passed that row, and that only grows (`PubRises`). The
arithmetic from the watermark to a pixel row is in `WatermarkStreamed` and
`NeedMonotone`.

`StairRingProofs`, for every ring, length of list 0, mini-GOP and encode, wide and
narrow, with and without streaming reference B's, rate control and prepares that
fail: `GatesOwn` and `ReadsCovered`. First the gates. A gate names a slot and not a picture, and the slot's watermark is
armed anew for the next burst, so soundness is a matter of order. `PlaceInv`: the
live slots are the newest launches, one launch apart (`Ago`), and in a narrow ring
only the newest and, until the launch has retired it, its predecessor. `BurstOf`: a
burst that has fired has prepared its whole plan or has failed; the first B picture
prepared arms the reference B's watermark of a burst that streams one, before any gate on it exists. `GateOn`: while an anchor's rows are analysed, the slot in front of
it still holds the pictures it is gated on. That slot is recycled by a launch that
first waits for whoever is gated on it (`GaterDone`), which the proof finds to be
the right slot in both kinds of ring. `ApiInv` carries what the API thread has waited
for between two steps of a launch. The coding plan is a recursive function, of which
the provers know only that it is chosen among the solutions of its equation; eight
rounds of the equation from anywhere reach one (`PlanIs`).

Then what is read. A picture's references are chosen when it is prepared, from the
entries the buffer has then, and no launch waits for all of them; so for each kind of
reference it has to be found who makes it whole or gates on it, and that is `RInv`,
on top of `IInv`. `WindowInv`, `MemberInv` and `StayInv` say what the buffer can
hold: a window on the last entered, each of them whole or of a burst in flight, the
newest burst's own among the very last. `OrderInv` is the wait of the chain: it
prepares when every anchor before its own is published. `LaunchInv` and `GateRInv`
are the wait of the launch: an older burst's reference B is whole, or it is the one
that streams, the launch has gated on it, and the chain's leaves wait for it
(`PreppedInv` carries this from the prepare of a launch to its begin). `ChainInv`
says what a chain has coded and that it counts only reference B's that have landed
(`RefsFinal`). With one reference and a wide ring the launch waits for no reference
B, and the argument is another one, about which picture is nearest: the anchor in
front of the run is still in the window, because no coding plan of up to seven B
pictures has more reference B's before a picture than the window leaves room for,
and it, or a reference B of the picture's own burst, is nearer than any reference B
of an older burst (`SpineFits`, `PrevAnchorStays`, `PastSingle`). This is where the
proof needs that the SPS can declare a window beyond the mini-GOP and the anchors around
it (`cap` in `SettingsAssumption`): it is fifteen in the code.
`AnchorInv` and `PlanInv` draw the conclusion, for an anchor and for a B picture.

`StairBufProofs`, for every wide ring whose list 0 is shorter than the window
(`Pooled`), and otherwise for all that `StairRingProofs` is for: `BuffersKept`. A bag is
let go by launch order alone, while the chains of several bursts may still read what
is in it, so the theorem is about who can reach a buffer and since when. `OwnsInv`:
entries, bags and write targets share no plane, and entries and bags no half-pel and
motion planes, so that one write changes one owner. `PoolInv` is the count that the
size of the pool rests on: for every launch, the bags parked since it are at most
what the launches since then park, an anchor and the reference B's of a plan each; so
with at most `ring` bursts live a recycle always finds a bag, and the wait for
readers, which is what fails in a narrow ring, is never what protects one. `PicsInv` and `LastInv`: no two planes that are
entered or parked hold the same picture, and none a picture still to come. On these
rests `LentInv`, the heart: every plane, and the motion beside it, that a live burst
has borrowed is in the buffer or in a bag parked since that burst's launch, and a bag
parked since the launch of a live burst is not let go. It holds of a new burst only
if what its anchor reads survives the entry the burst itself takes, which `ReadyInv`
says of a prepared launch: the victim of the sliding window is not in a list 0 that is
shorter than the window. That is where the hypothesis is needed, and without it the
statement is false (section 6). `FilledInv` ties the half-pel and motion planes to the
picture beside them, or to one whose content is still awaited.

`DecoderProofs`, of `Cabac`, for every context table within the bounds of `TableAssumption`,
every header, buffer and sequence of engine calls: `CarryFits` and
`WrittenStays`. A byte leaves the engine when nine more bits are behind it, and
what is left may still carry into it, through any number of held-back `0xff`
bytes. The comment at `cabac.c:413` calls the last of these additions "provably
+0" at the first byte of a slice; the proof is the inductive invariant
`EngineInv`. It bounds `low + range` in units of the next byte: by 767/512 in
general, which is a byte and one carry, and by 510/512 while the slice has no
byte yet, so that there is then no carry at all. The second bound is what the
first needs at the start, and neither holds without the range of `range` and of
the queue, which differ between a call of the engine and the shifts inside it:
hence `Within` (between extractions) and `Healthy` (between calls). The last
byte written is below 255, since a byte of 255 is held back until its successor
is known: so a carry ends there, and `WrittenStays` follows. There is one lemma
for each macro of the engine.

`DecoderProofs`, of `Dpb`, for every setting `encoder_open` resolves and every sequence
of runs, IDR and open keys and flushed tails of any length, frames and field pairs:
`DecoderAgrees`, `ColdAgrees` and, where it holds, `AnchorsHeld`. A list index is sent
in a few bits and names whatever the decoder's own sort puts there, so the encoder's
entries, their numbers and its three sort orders all have to be right at once, and
the frame numbers wrap while old entries stay. `DpbIInv` says what is true between any two
steps of the coding order:

* `Numbered`: the stored references carry the last frame numbers, one each. So
  "how many references ago" (`Age`) orders them as the decoder's FrameNumWrap does
  and as the encoder's modular distance does (`TheOrders`), whatever has wrapped, as
  long as MaxFrameNum is above the window (`MaxFnAssumption`); and the two sliding windows drop the
  same entry.
* `BaseInv`: the encoder has what a decoder has, except in two places that the fields
  make: a decoder stores the first field of a pair at once, the encoder both fields
  at the end, and an IDR empties the encoder's buffer first. `Base` is the common part.
* `Closed`: what an open key cuts off (everything displayed before it) was coded before
  it. So pruning by display order, as the encoder does, is pruning by coding order,
  which is all a decoder that starts there can do (`ColdInv`).
* `BurstInv`: the nodes that `code_b_hier` still has to visit lie in front of
  each other and beside what is stored of the run, so the lists by display order have
  no ties and a B picture's future reference is the one the encoder takes. Its runs are at most
  seven, and `Spans` and `Mids` list the nodes and middles of each length.
* `NearInv` and `FlatInv`: the last anchor is still in the window when the next one is
  coded, because a run has no more reference B's than the window was sized for
  (`stair_plan_nrefb`); and without a pyramid the ring holds the last references, newest
  first, which is the decoder's order.

One lemma turns two orders into one list: a list ranked by an order is the only list
in which every entry has its rank (`RankedDown`, `RankedDistance`, `NthIsUnique`), so
lists built from different keys that order alike are the same. The proof needs
that the SPS can declare two references more than a run has B pictures (`ConfOK`;
fifteen against seven in the code).

`AnchorsStay` adds `HeldInv`: until the run is coded the anchor in front of it is
young enough to be in the window, or the picture in turn has a nearer one. How young
it has to be depends on how many middles are coded before the leftmost leaf
(`LeftEdge`: none, one or two). In the wide window there is always room. In the
tight one there is when list 0 is longer than that edge (`Roomy`); section 6 says
what happens otherwise.

`LedgerProofs`, for every ring, lag, warm-up, length of mini-GOP and of encode, with
and without VBV and faults: `NoPushLost`, `NalsInCodingOrder`, `SizesAreOwn`,
`SizedExactlyOnce`, `OneLedgerWriter` and `ExactBuffer`. The heart is `LedgerInv`:
there is a number f such that the first f decided pictures have a size and no other
has; the sizes are of distinct pictures; and the pictures that have none yet are
exactly those somebody still owes, the emit worker, the API thread or a burst in
flight (`Owed`). Each `rcp_update` fills entry f + 1 with an owed picture's size, so
no size is billed twice and none is lost. Room is a counting argument: the head
of the ledger is not behind the pop bound (`HeadWaits`), the bound is an anchor at
most lag + 1 mini-GOPs back (`HistInv`), so no more than (lag + 1)(MaxB + 1)
entries wait when a launch begins, and a launch has reserved what it will push
(`RoomInv`). The proof needs the ledger to be longer than that product, which is an
assumption of `RateLedger` (`RCP_MAX` is `STAIR_K * 8 + 8`, and the lag is below
`STAIR_K`). `FlushStarted`, that the API thread empties the encoder only in a flush
call, is what `OneLedgerWriter` needs besides.

`GopProofs`, for every input length, keyint, GOP table, number of workers and
window, with reads, tails and writes that fail: `OutputIsInput` and `StoreBounded`. In
the invariant of the first
the table's GOPs tile the frames read (`PipeTable` while a pipe still grows it); no
two workers have the same GOP and none is handed out again (`QueueInv`); a frame
that has been read and that an untaken GOP or a worker still needs is in the store
(`HeldInv`), where the seek reader needs its per-GOP fronts (`FrontsInv`); what a
worker has fed to its encoder is its GOP so far (`FedIs`); a GOP that is done and
not written is whole (`DoneInv`); what is written is the first GOPs (`OutInv`). The
proof uses two assumptions of `GopQueue` on its constants. `SettingsAssumption` says
what the scan and the option checks guarantee: GOP bounds rise from zero to the
length, and a known split has at least as many GOPs as workers. `OrderAssumption` says that the
hand-out order is a permutation of the GOPs. That is a fact about the sort, which the
model takes from the community modules and whose definition the provers cannot
unfold, so TLC evaluates it for the settings of the runs.

`StoreBounded` rests on that invariant and on `SInv`, of two parts. In stream order
(`RoomInv`) the window only narrows, so the one the reader starts with bounds every
later one, and where the starvation valve lets the reader past the window it does
so below the ceiling: a frame that is being read always has room. A seek reader has
no window, and each GOP it reads for has a read-ahead of its own; what has to be shown
is that there are never more than w + 1 such GOPs. `LeadInv` says that the reader is ahead
only of GOPs that are handed out and of the next one, and that a GOP handed out is done
(its frames are then all retired) or has a worker. So each frame in the store takes
a place of its own, worker by read-ahead, and the frame a pick announces another
(`OwnersApart`, `PickFits`).

`LookaheadProofs`, for every length of encode, run of B pictures, window, lead and
type sequence: `PlanesAreOwn`, `PopIsFinal`, `SettledWhenRead` and `PrefetchIsWalk`.
Three marks say how far the chain is (`An`, `Fin`, `Legged`: the last picture
analysed, typed, with its legs), and `RingInv` says what the slot of each picture in
the ring then holds. `CountInv` records what each wait has waited for: this is where
the pop depth `BFrames + 2` and the walk's need enter. A memo that the prefetch
left is of final legs, and every walk to come will find that picture settled
(`MemoIs`, `Reached`); that survives because the prefetch is for the first anchor
behind the last one walked, and no pop passes that anchor before the join
(`WarmInv`). With these `PrefetchIsWalk` follows: what the walk reuses is what it
would have computed.

Left to TLC. Liveness, which this prover does not treat: `EverythingEnds`,
`EveryWaitEnds`, `EverythingStreams`, `RingEnds`, `FlushEnds`, `QueueEnds`,
`CallsReturn`. `DecoderReadsBins` and `BinBoundHolds`, which follow a decoder
through a whole stream, and `CarryIsChained`, whose expectation is a sum over a GOP's
frames: both need induction over data, and `SliceWriter` has a recursive operator.
`BuffersKept` of narrow rings, where one of the runs refutes it and `stair_ring` checks a setting
that keeps it, and of a list 0 as long as the window. `AnchorsHeld` of the short
lists in the tight window that `Roomy` leaves out, where it depends on the run
lengths and is false for some.

## 6. Where code and documents disagree

Two runs find a state that a comment rules out; PROJECT.json quotes the
comments.

* `stair_narrow`: the wait that keeps an entry of the buffer until its readers
  are done skips the burst that takes the entry. In a narrow ring that burst's
  own anchor, still being analysed, can be such a reader.
* `gop_carry`: the rate-control state a GOP starts from depends, near the end of
  a pipe, on which of two workers gets the lock first.

Met while modelling, and without a run of their own:

* `encoder.c:13151` "a burst launched later cannot reach it: reference lists are built
  from the DPB, and the picture left the DPB before its bag was parked". The launch
  that parks the bag is one that can: its anchor's list 0 is built by the prepare
  (1447), before `stair_dpb_begin` (15035) evicts the oldest entry, and the bag is
  parked with `st->seq` before the launch increments it (13212, 15052). A list 0
  as long as the window, which `--ref 15` or `16` with the pyramid gives (the window is
  capped at fifteen, 4927, and only the anchor ring shrinks `nref` with it, 4922), holds
  that entry; once the older bursts have retired the bag is let go and written to while
  the anchor reads it. `StairRing` with `ref` and `cap` 4 and six groups violates
  `BuffersKept` so, and with `ref` 3 it does not; the proof asks for
  `cfg.ref < cfg.cap` here and nowhere else.
* `encoder.c:12944` and `15030`: the row hook "wakes the trailer". It signals one
  sleeper of a condition that a launching thread may share, so the wakeup can go
  to the other. Everything still streams, because the runner's closing broadcast
  reaches whoever is left.
* `rate.c:1127`: at lag one the launch's forced retirement can put a size in the
  entry of another picture than its own (compare `encoder.c:15099` and `15113`).
  `SizesAreOwn` claims it for lag zero, and for the VBV's groups, only.
* `options.md:1158`, `encoder.c:8357`: the lead of `--sync-lookahead` moves the
  offset up to which stored vectors are reused, and so the bits.
* `encoder.c:4863` "the sliding window never holds more marked ref-Bs than one
  mini-GOP emits": it does, when the last anchor's reference B's were coded after the
  anchor in front of the current run. With the tight window that anchor is then evicted
  before its run is coded, at `--ref 1`, and also at `--ref 2` with `--bframes` 4 or more
  (`Dpb` with such a setting violates `AnchorsHeld`, and `AnchorsStay` proves that
  no longer list 0 is affected). The decoder agrees; the prediction is worse than
  the window was sized for.
* `encoder.c:11497` "keep the last good slice": a retry that does not fit leaves
  the lengths of the last slice and the buffer of the failed one, which were
  coded into the same memory.
  That slice's entry in the ledger has been given the failed coding's price just
  before (11493), so it holds the size of one coding and the price of another;
  `SizesAreOwn` excepts such an entry (`outgrown`) and the proof with it.
* `encoder.c:3594` "each one adds three NAL bytes": the last zero word adds none.
  `y264_nal_write` puts no `0x03` after a final pair of zeros, so they trail the
  NAL unit and do not belong to it. The code's sum also leaves out the NAL unit's
  and slice's headers, three bytes at least, and these are what keeps the bound
  (`BinBoundHolds` counts what a receiver gets). What nothing keeps is the bound on
  all bins: 7.4.2.10 counts every `DecodeBin`, and `nbins` has no terminate bins
  (`cabac.h:47`), one to a macroblock, so a picture at the bound exceeds it by up to
  that many. `BinBoundHolds` is about the bins the code counts.
* `encoder.c:4886` reports that the tight window does not go with a wide ring and
  guesses at the mechanism. The mutant `WindowTight` of `StairRing` is that
  configuration, and `ReadsCovered` fails in it.
* `encoder.c:14848`: part of the waits for reference B's is implied by the later
  wait for the chains whose direct scores are folded in (14899).
* `cli/yah264_cli.c:3293`: "nothing outside the lock may hold a pointer into it".
  The tables grow by `realloc` under the lock when the split is not known in
  advance (1371), but a worker reads `pull_gop` (1622) and the writer `gop_start`
  (3725) without it. It takes more than 62 GOPs on a pipe. The model makes the
  two reads steps of their own, and takes them to find the table's content.
* `threadpool.c:287` on who counts finished rows (compare 895 and 983);
  `encoder.c:12775` "drops a task that has not started", where
  `threadpool.c:1616` runs it; `encoder.c:412` on lag zero "retires everything
  before the launch" (compare 15113); `encoder.c:9160` "skipped" of pictures the
  code prices; `encoder.c:11123` "disjoint" of the walk and `la_finalize`, whose
  reach-back the settled offset handles. The pad wait at `encoder.c:15505` never
  blocks: the pop wait of the call before covers it.

## 7. Not modelled, and the plan

Still to come, in this order:

1. Proofs: `BuffersKept` of a narrow ring that does not stream.
2. CAVLC and the bit writer beside `Cabac`.
3. `rcp_predecided` and bursts that run inside the launch; the VBV in two passes
   and its single-threaded emission.
4. The two generations of snapshot buffers of the emit pipeline: `RateLedger` has
   its pending frame and its order, not its memory.

Not worth a model, with the reason:

* Motion search, mode decision, transforms, filters, the rate models, parameter
  sets, SEI and the kernels are numeric and sequential: no state outlives a row
  or a call, no second thread sees it, and unit and bit-exactness tests reach it.
  They are most of the lines of the repository. A model of them would repeat
  their arithmetic.
* Option parsing and file formats: pure conversions, without state.
* The GPU and hardware paths are libraries outside the repository.

Abstracted everywhere: memory ordering weaker than sequential consistency (the
pool's comments name the fences that restore it at each racing pair, and the
models take them at their word), and allocation failure, except for the pool's
progress array.
