----------------------------- MODULE Wavefront -----------------------------
(***************************************************************************)
(* What src/src/common/threadpool.h promises of ntp_wavefront,             *)
(* ntp_wavefront_gated, ntp_wavefront_batch and ntp_parallel_for, with no  *)
(* threads, locks or job table in sight.                                   *)
(*                                                                         *)
(* A grid is named by its ctx, the argument cell_fn and for_fn receive.    *)
(* `ran` holds the cells whose function has been called; `called` and      *)
(* `returned` hold the grids whose call has begun and has returned.  The   *)
(* ctx is typically a local of the caller, so a cell may run only between  *)
(* the two.                                                                *)
(***************************************************************************)
EXTENDS Integers

CONSTANTS
    Ctxs,       \* every grid ever submitted
    Kind,       \* Kind[x] is "wavefront" or "for"
    NRows,      \* NRows[x]: rows of the grid, or the n of a parallel for
    NCols       \* NCols[x]: columns (1 for a parallel for)

VARIABLES ran, called, returned

absVars == <<ran, called, returned>>

Cells(x) == {x} \X (0 .. NRows[x] - 1) \X (0 .. NCols[x] - 1)

(***************************************************************************)
(* The cells that must have run before cell k: all of its row to the left, *)
(* and the row above up to and including the top-right neighbour.  The     *)
(* indices of a parallel for are independent.                              *)
(***************************************************************************)
Neighbours(k) ==
    IF Kind[k[1]] = "for" THEN {}
    ELSE {n \in Cells(k[1]) : \/ n[2] = k[2] /\ n[3] < k[3]
                              \/ n[2] = k[2] - 1 /\ n[3] <= k[3] + 1}

AbsInit == ran = {} /\ called = {} /\ returned = {}

CallGrids(S) ==
    /\ S \subseteq Ctxs \ called
    /\ called' = called \cup S
    /\ UNCHANGED <<ran, returned>>

RunOneCell(x) ==
    /\ x \in called \ returned
    /\ \E k \in Cells(x) \ ran :
          /\ Neighbours(k) \subseteq ran
          /\ ran' = ran \cup {k}
    /\ UNCHANGED <<called, returned>>

ReturnGrids(S) ==
    /\ S \subseteq called \ returned
    /\ \A x \in S : Cells(x) \subseteq ran
    /\ returned' = returned \cup S
    /\ UNCHANGED <<ran, called>>

AbsNext ==
    \/ \E S \in SUBSET Ctxs : CallGrids(S) \/ ReturnGrids(S)
    \/ \E x \in Ctxs : RunOneCell(x)

AbsSpec == AbsInit /\ [][AbsNext]_absVars
=============================================================================
