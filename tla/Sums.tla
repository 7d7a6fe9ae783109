--------------------------------- MODULE Sums ---------------------------------
(***************************************************************************)
(* Loops over a sequence, as recursive functions: unlike the folds, whose  *)
(* operator is a parameter, they can be reasoned about.  The sums of a     *)
(* sequence of numbers, its members in a set and its sorting are loops.    *)
(***************************************************************************)
EXTENDS Integers, Sequences, FiniteSets

\* What a loop holds after 0, 1, ... n rounds, when round i turns x into
\* step[i][x].
Scan(start, step, n) ==
  LET held[i \in 0 .. n] == IF i = 0 THEN start ELSE step[i][held[i - 1]]
  IN held

\* The sums of the first 0, 1, ... Len(f) numbers.
PartialSums(f) == Scan(0, [i \in DOMAIN f |-> [sum \in Int |-> sum + f[i]]], Len(f))

Total(f) == PartialSums(f)[Len(f)]

\* The members of a sequence that are in S, in its order.
Only(s, S) ==
  Scan(<<>>, [i \in DOMAIN s |->
                [kept \in Seq(S) |-> IF s[i] \in S THEN Append(kept, s[i]) ELSE kept]], Len(s))[Len(s)]

\* A sequence as it is, whose members TLC then computes once.
Listing(s) == s \o <<>>

\* x put behind those members of a sorted sequence that it does not precede:
\* before[x, y] says whether x precedes y.
PutIn(s, x, before) ==
  LET n == Cardinality({i \in DOMAIN s : ~before[x, s[i]]})
  IN SubSeq(s, 1, n) \o <<x>> \o SubSeq(s, n + 1, Len(s))

\* A sequence sorted; equals keep their order.
Sorted(s, before) ==
  Scan(<<>>, [i \in DOMAIN s |->
                [kept \in Seq({s[j] : j \in DOMAIN s}) |-> PutIn(kept, s[i], before)]], Len(s))[Len(s)]
=============================================================================
