-------------------------- MODULE MCHistoryCollect --------------------------
(* Two days of four instants.  Two ranges cut the days differently; ticks    *)
(* lie on the seams of pages and slices, and two share an instant.           *)
EXTENDS HistoryCollect

At(time, n) == [time |-> time, n |-> n]
MCMarket == {At(0, 1), At(1, 1), At(2, 1), At(2, 2), At(3, 1), At(4, 1), At(5, 1), At(6, 1)}
MCRanges == {<<0, 6>>, <<2, 6>>}
=============================================================================
