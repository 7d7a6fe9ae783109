-------------------------- MODULE MCBacktestEngine --------------------------
(* A small market for BacktestEngine.  The doubled midpoints are 6, 8 and   *)
(* 12, so that Scale 12 makes every division exact.                         *)
EXTENDS BacktestEngine

Quote(bid, ask) == [bid |-> bid, ask |-> ask]
Order(side, volume, stop, target) ==
  [side |-> side, volume |-> volume, stop |-> stop, target |-> target]

MCQuotes == {Quote(2, 4), Quote(4, 4), Quote(5, 7)}
MCSlips == {-1, 1}
MCRequests ==
  {Order("BUY", 1, 3, 5), Order("SELL", 3, 6, None), Order("BUY", 2, 3, None), Order("BUY", 0, 3, None)}
=============================================================================
