---------------------------- MODULE WalkForward ----------------------------
(***************************************************************************)
(* The walk-forward folds of the research engines: what each trains on and *)
(* validates on, and the purge of the training rows whose labels end in    *)
(* the validation (research_v2.py, research_v3.py, research_d10.py).       *)
(*                                                                         *)
(* A fold is [role, opens, train, validation]: the instant at which its    *)
(* validation opens, and two sets of rows.                                 *)
(***************************************************************************)
EXTENDS Observations

CONSTANTS
  Primary         \* the primary barrier configuration, one of Barriers

ASSUME WalkForwardAssumption == Primary \in Barriers

\* An instant of a span, in percent.
Cut(from, to, percent) == from + ((to - from) * percent) \div 100
Boundary(percent) == Cut(Start, End, percent)

Between(rows, from, to) == {r \in rows : r.at >= from /\ r.at < to}

\* temporal_folds of D.8: two folds to compare models and a last one.
TemporalFolds(rows) ==
  [n \in 1 .. 3 |->
     LET opens == Boundary(60 + 10 * n)
     IN [role |-> IF n < 3 THEN "MODEL_COMPARISON" ELSE "INTERNAL_FREEZE_CHECK", opens |-> opens,
         train |-> {r \in rows : r.at < opens},
         validation |-> Between(rows, opens, Boundary(70 + 10 * n))]]

\* v3_temporal_folds of D.9.
V3TemporalFolds(rows) ==
  [n \in 1 .. 4 |->
     LET opens == Boundary(50 + 10 * n)
     IN [role |-> "RESEARCH_WALK_FORWARD", opens |-> opens,
         train |-> {r \in rows : r.at < opens},
         validation |-> Between(rows, opens, Boundary(60 + 10 * n))]]

\* Fault: the timeout is not added to the observation.
PurgedByTime(train, timeout, opens) == {r \in train : r.at <= opens}

\* The rows whose labels end before the validation opens.
Purged(train, timeout, opens) == {r \in train : r.at + timeout <= opens}

\* purge_v3_training_labels.
PurgeV3TrainingLabels(folds, c) ==
  [n \in DOMAIN folds |->
     [folds[n] EXCEPT !.train = Purged(folds[n].train, c.timeout, folds[n].opens)]]

\* The rows whose barrier labels are complete.
Complete(rows, c, side) == {r \in rows : r.barrier[c][side] # None}
BothComplete(rows, c) == Complete(rows, c, "LONG") \intersect Complete(rows, c, "SHORT")

\* d10_temporal_folds: three folds of development, then the freeze check over
\* the last 40 percent.
D10Boundaries == <<30, 40, 50, 60, 100>>

D10TemporalFolds(rows) ==
  LET valid == BothComplete(rows, Primary)
  IN [n \in 1 .. 4 |->
        LET opens == Boundary(D10Boundaries[n])
        IN [role |-> IF n < 4 THEN "MODEL_DEVELOPMENT" ELSE "INTERNAL_FREEZE_CHECK",
            opens |-> opens,
            train |-> Purged({r \in valid : r.at < opens}, Primary.timeout, opens),
            validation |-> Between(valid, opens, Boundary(D10Boundaries[n + 1]))]]

\* _nested_folds: three folds inside the training rows of an outer one.
NestedFolds(outer) ==
  [n \in 1 .. 3 |->
     LET opens == Cut(Start, outer.opens, 20 + 20 * n)
     IN [opens |-> opens,
         train |-> Purged({r \in outer.train : r.at < opens}, Primary.timeout, opens),
         validation |-> Between(outer.train, opens, Cut(Start, outer.opens, 40 + 20 * n))]]
=============================================================================
