----------------------------- MODULE MCGopQueue -----------------------------
(* Instances of GopQueue: each reader, with and without the carry. *)
EXTENDS GopQueue

Base == [n |-> 5, keyint |-> 2, kind |-> "pipe", starts |-> <<0>>, w |-> 2, carry |-> FALSE,
         wait |-> FALSE, window |-> 0, ceiling |-> 1, readahead |-> 1, table |-> 64, faults |-> {}]

\* A pipe whose workers start at once, and one that has to wait for boundaries.
PipeEarly == [Base EXCEPT !.faults = {"read", "write"}]
\* The window is forced below a GOP, so that the valve and its ceiling are what counts.
PipeCarry == [Base EXCEPT !.carry = TRUE, !.n = 6, !.window = 1]
\* One worker, a window shorter than a GOP, the split waited for.
PipeWait  == [Base EXCEPT !.w = 1, !.wait = TRUE, !.window = 1, !.faults = {"read"}]
PipeOne   == [Base EXCEPT !.w = 1, !.wait = TRUE, !.carry = TRUE, !.n = 7]
PipeEmpty == [Base EXCEPT !.n = 0]
\* A scanned file read in order, longest GOP first.
Scanned   == [Base EXCEPT !.kind = "known", !.n = 6, !.keyint = 3, !.starts = <<0, 1, 4, 6>>,
                          !.carry = TRUE, !.faults = {"read"}]
\* The seek reader: a queue, and one GOP to each worker.
SeekQueue  == [Scanned EXCEPT !.kind = "seek", !.n = 7, !.starts = <<0, 1, 4, 6, 7>>, !.faults = {"tail", "write"}]
SeekStatic == [Scanned EXCEPT !.kind = "seek", !.n = 4, !.starts = <<0, 1, 4>>, !.readahead = 2, !.faults = {"read"}]

MCSettings == {PipeEarly, PipeCarry, PipeWait, PipeOne, PipeEmpty, Scanned, SeekQueue, SeekStatic}
CarrySettings == {PipeCarry}
=============================================================================
