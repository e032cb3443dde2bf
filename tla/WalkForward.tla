---------------------------- MODULE WalkForward ----------------------------
(***************************************************************************)
(* Point-in-time discipline of the research data (data/point_in_time.py):  *)
(* the checks on rows and the folds of purged_walk_forward.                *)
(*                                                                         *)
(* The generator's loop is written by its fold number k from zero: fold k  *)
(* starts at k * step, and the zones it excludes are those of the folds    *)
(* before it.  Intervals are half open, [first, last + 1).                 *)
(***************************************************************************)
EXTENDS Integers, Sequences, FiniteSetsExt

Step(c) == IF c.step = 0 THEN c.test_size ELSE c.step
Start(c, k) == k * Step(c)
TrainEnd(c, k) == Start(c, k) + c.train_size
TestStart(c, k) == TrainEnd(c, k) + c.purge
TestEnd(c, k) == TestStart(c, k) + c.test_size
EmbargoEnd(c, k) == Min({c.n, TestEnd(c, k) + c.embargo})

ValidSizes(c) ==
  Min({c.n, c.train_size, c.test_size}) > 0 /\ Min({c.purge, c.embargo}) >= 0

(* Mutant of EffectiveTrainEnd: earlier test windows are not left out. *)
TrainEndUnclamped(c, k) == TrainEnd(c, k)

(* The train window ends where the first earlier test window begins. *)
EffectiveTrainEnd(c, k) ==
  Min({TrainEnd(c, k)} \cup {TestStart(c, j) : j \in 0..(k - 1)})

(* The loop goes on while a fold fits, and ends for good at the first whose *)
(* train window is empty.                                                  *)
Fits(c, k) == TestEnd(c, k) <= c.n
Emitted(c, k) == \A j \in 0..k : Fits(c, j) /\ EffectiveTrainEnd(c, j) > Start(c, j)

Fold(c, k) ==
  [fold |-> k, train_start |-> Start(c, k), train_end |-> EffectiveTrainEnd(c, k),
   test_start |-> TestStart(c, k), test_end |-> TestEnd(c, k),
   embargo_end |-> EmbargoEnd(c, k)]

Folds(c) ==
  IF ValidSizes(c) THEN {Fold(c, k) : k \in {k \in 0..c.n : Emitted(c, k)}} ELSE {}

-----------------------------------------------------------------------------
(* validate_point_in_time: rows are sorted, none is known before its time. *)
PointInTime(rows) ==
  /\ \A i \in DOMAIN rows : rows[i].available <= rows[i].asof
  /\ \A i \in 1..(Len(rows) - 1) : rows[i].asof <= rows[i + 1].asof

(* assert_no_future_rows *)
NoFutureRows(rows, cutoff) ==
  \A i \in DOMAIN rows : rows[i].asof <= cutoff /\ rows[i].available <= cutoff

(* The rows a label of lagged_return looks at: those of the horizon too. *)
LabelRows(from, to, horizon) ==
  UNION {{i, i + horizon} : i \in from..(to - 1)}

-----------------------------------------------------------------------------
(* Rows that pass the point-in-time check hold nothing of the future: every *)
(* prefix passes the check at the time of its last row.                     *)
PrefixesKnown(rows) ==
  PointInTime(rows) =>
    \A i \in DOMAIN rows : NoFutureRows(SubSeq(rows, 1, i), rows[i].asof)

(* A fold trains on something, on no row of an earlier test window or its  *)
(* embargo, its test window lies in the data after the purged rows, and    *)
(* labels of a horizon up to the purge do not look into it                 *)
(* (purged_walk_forward, lagged_return).                                   *)
NoLeak(c) ==
  \A f \in Folds(c) :
    LET train == f.train_start..(f.train_end - 1) IN
    /\ train # {}
    /\ f.train_end + c.purge <= f.test_start
    /\ f.test_start < f.test_end /\ f.test_end <= f.embargo_end /\ f.embargo_end <= c.n
    /\ \A horizon \in 1..c.purge :
         LabelRows(f.train_start, f.train_end, horizon)
           \cap f.test_start..(f.test_end - 1) = {}
    /\ \A g \in Folds(c) :
         g.fold < f.fold => train \cap g.test_start..(g.embargo_end - 1) = {}
=============================================================================
