--------------------------- MODULE MCPaperEngine ---------------------------
(***************************************************************************)
(* Two symbols, two levels of prices eight ticks apart.  A stop two ticks  *)
(* below the midpoint is crossed by one move down and its target by one    *)
(* move up; a stop nine ticks away is never reached, so that the other     *)
(* exits happen too.  As in the risk engine, the nearer stop allows the    *)
(* larger quantity.  With a capital of 1000 one unit stays within the      *)
(* daily limit of one percent and five units break it.                     *)
(***************************************************************************)
EXTENDS PaperEngine, TLC

MCBooks == {[bid |-> 98, ask |-> 100], [bid |-> 106, ask |-> 109]}
MCSizings == {[distance |-> 2, quantity |-> 5], [distance |-> 9, quantity |-> 1]}
MCSymmetry == Permutations(Symbols)
=============================================================================
