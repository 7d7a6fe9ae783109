--------------------------- MODULE MCEventDiscovery ---------------------------
(***************************************************************************)
(* An instance of EventDiscovery: minutes whose bars may reach every class *)
(* of scores, and ticks that confirm, deny or block them.                  *)
(***************************************************************************)
EXTENDS EventDiscovery

Rising == [m15 |-> [direction |-> 1, structure |-> 1, regime |-> "TREND"],
           m5 |-> [direction |-> 1, momentum |-> 2, retest |-> 1],
           m1 |-> [momentum |-> [h \in Horizons |-> 1], range |-> "balanced"],
           warm |-> TRUE]

\* The bounds are 100, 88, 85, 83 and 68; a falling market; and one that the
\* bars of the minute contradict.
MCBarFeatures ==
  {Rising,
   [Rising EXCEPT !.m5.retest = 0, !.m1.momentum[1] = -1],
   [Rising EXCEPT !.m15.structure = -1, !.m5.retest = 0],
   [Rising EXCEPT !.m15.regime = "RANGE", !.m5.retest = 0],
   [m15 |-> [direction |-> -1, structure |-> -1, regime |-> "TREND"],
    m5 |-> [direction |-> -1, momentum |-> -2, retest |-> -1],
    m1 |-> [momentum |-> [h \in Horizons |-> -1], range |-> "extreme"],
    warm |-> TRUE],
   [Rising EXCEPT !.m1.momentum = [h \in Horizons |-> -1]]}

Tick(share, acceleration) ==
  [stale |-> FALSE, up |-> share, down |-> 100 - share, acceleration |-> acceleration,
   rate |-> 1, quickening |-> 0, spread |-> 1, median |-> 1, visible |-> 3]

MCTickFeatures ==
  {Tick(60, 1), Tick(40, -1), Tick(58, 1), Tick(50, 0),
   [Tick(60, 1) EXCEPT !.quickening = -1],
   [Tick(60, 1) EXCEPT !.visible = 2]}

MCContext == [spread |-> 2, session |-> TRUE, news |-> TRUE]
=============================================================================
