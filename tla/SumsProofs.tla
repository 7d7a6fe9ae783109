------------------------------ MODULE SumsProofs ------------------------------
(***************************************************************************)
(* What a loop holds, and what the sums of a sequence of integers are.     *)
(*                                                                         *)
(* The induction is over a set, not over a formula: a set of numbers with  *)
(* 0 and with the successor of each of its members holds them all.         *)
(***************************************************************************)
EXTENDS Sums, FiniteSetTheorems, SequenceTheorems, TLAPS

\* A number outside of S would have a finite set of predecessors outside of S,
\* which subtraction maps one to one into itself less that number.
LEMMA SetInduction ==
  ASSUME NEW S, 0 \in S, \A n \in Nat : n \in S => n + 1 \in S
  PROVE  Nat \subseteq S
<1>1. SUFFICES ASSUME NEW x \in Nat, x \notin S PROVE FALSE
  OBVIOUS
<1> DEFINE T == {i \in 0 .. x : i \notin S}
           U == T \ {x}
           f == [i \in T |-> i - 1]
<1>2. IsFiniteSet(T)
  <2>1. IsFiniteSet(0 .. x)
    BY FS_Interval
  <2>2. T \in SUBSET (0 .. x)
    OBVIOUS
  <2> QED BY <2>1, <2>2, FS_Subset
<1>3. IsFiniteSet(U) /\ Cardinality(U) < Cardinality(T)
  <2>1. x \in T
    BY <1>1
  <2> HIDE DEF T
  <2>2. IsFiniteSet(U) /\ Cardinality(U) = Cardinality(T) - 1
    BY <1>2, <2>1, FS_RemoveElement
  <2>3. Cardinality(T) \in Nat
    BY <1>2, FS_CardinalityType
  <2> QED BY <2>2, <2>3
<1>4. f \in [T -> U]
  <2>1. \A i \in T : i - 1 \in U
    BY SMT
  <2> QED BY <2>1
<1>5. \A i, j \in T : i # j => f[i] # f[j]
  BY SMT
<1> HIDE DEF T, U, f
<1> QED BY <1>2, <1>3, <1>4, <1>5, FS_PigeonHole

\* The loops of n rounds over the values X.
Rounds(X, n) == [1 .. n -> [X -> X]]

\* The recursive definition is one: such a function exists.
LEMMA ScanExists ==
  ASSUME NEW X, NEW start \in X, NEW n \in Nat, NEW step \in Rounds(X, n)
  PROVE  \E g \in [0 .. n -> X] : g[0] = start /\ \A i \in 1 .. n : g[i] = step[i][g[i - 1]]
<1> DEFINE Scans(g, k) == g[0] = start /\ \A i \in 1 .. k : g[i] = step[i][g[i - 1]]
           S == {k \in Nat : k <= n => \E g \in [0 .. k -> X] : Scans(g, k)}
<1>1. 0 \in S
  <2>1. [i \in 0 .. 0 |-> start] \in [0 .. 0 -> X] /\ Scans([i \in 0 .. 0 |-> start], 0)
    OBVIOUS
  <2> QED BY <2>1
<1>2. ASSUME NEW k \in Nat, k \in S PROVE k + 1 \in S
  <2>1. SUFFICES ASSUME k + 1 <= n PROVE \E h \in [0 .. k + 1 -> X] : Scans(h, k + 1)
    BY k + 1 \in Nat
  <2>2. PICK g \in [0 .. k -> X] : Scans(g, k)
    BY <1>2, <2>1
  <2>3. PICK v \in X : v = step[k + 1][g[k]]
    BY <2>1 DEF Rounds
  <2> DEFINE h == [i \in 0 .. k + 1 |-> IF i = k + 1 THEN v ELSE g[i]]
  <2>4. h \in [0 .. k + 1 -> X]
    BY <2>3
  <2>5. Scans(h, k + 1)
    <3>1. h[0] = start
      BY <2>2
    <3>2. ASSUME NEW i \in 1 .. k PROVE h[i] = step[i][h[i - 1]]
      <4>1. h[i] = g[i] /\ h[i - 1] = g[i - 1]
        OBVIOUS
      <4> HIDE DEF h
      <4> QED BY <2>2, <4>1
    <3>3. h[k + 1] = step[k + 1][h[k]]
      <4>1. h[k + 1] = v /\ h[k] = g[k]
        OBVIOUS
      <4> HIDE DEF h
      <4> QED BY <2>3, <4>1
    <3> HIDE DEF h
    <3>4. \A i \in 1 .. k + 1 : i \in 1 .. k \/ (i = k + 1 /\ i - 1 = k)
      OBVIOUS
    <3> QED BY <3>1, <3>2, <3>3, <3>4
  <2> HIDE DEF h
  <2> QED BY <2>4, <2>5
<1> HIDE DEF S
<1>3. Nat \subseteq S
  BY <1>1, <1>2, SetInduction
<1> QED BY <1>3 DEF S

\* ... and Scan is it.
THEOREM ScanDefinition ==
  ASSUME NEW X, NEW start \in X, NEW n \in Nat, NEW step \in Rounds(X, n)
  PROVE  /\ Scan(start, step, n) \in [0 .. n -> X]
         /\ Scan(start, step, n)[0] = start
         /\ \A i \in 1 .. n : Scan(start, step, n)[i] = step[i][Scan(start, step, n)[i - 1]]
<1> DEFINE Body(g) == [i \in 0 .. n |-> IF i = 0 THEN start ELSE step[i][g[i - 1]]]
<1>1. PICK g \in [0 .. n -> X] : g[0] = start /\ \A i \in 1 .. n : g[i] = step[i][g[i - 1]]
  BY ScanExists
<1>2. g = Body(g)
  <2>1. \A i \in 0 .. n : g[i] = IF i = 0 THEN start ELSE step[i][g[i - 1]]
    BY <1>1
  <2>2. g = [i \in 0 .. n |-> g[i]]
    OBVIOUS
  <2> QED BY <2>1, <2>2
<1>3. Scan(start, step, n) = CHOOSE h : h = Body(h)
  BY DEF Scan
<1>4. Scan(start, step, n) = Body(Scan(start, step, n))
  <2> DEFINE B(h) == h = Body(h)
  <2>1. B(g)
    BY <1>2
  <2>2. Scan(start, step, n) = CHOOSE h : B(h)
    BY <1>3
  <2> HIDE DEF B
  <2>3. B(Scan(start, step, n))
    BY <2>1, <2>2
  <2> QED BY <2>3 DEF B
<1> DEFINE p == Scan(start, step, n)
<1> HIDE DEF p
<1>5. p = [i \in 0 .. n |-> IF i = 0 THEN start ELSE step[i][p[i - 1]]]
  BY <1>4 DEF p
<1>6. p[0] = start /\ \A i \in 1 .. n : p[i] = step[i][p[i - 1]]
  <2>1. 0 \in 0 .. n /\ \A i \in 1 .. n : i \in 0 .. n /\ i # 0
    OBVIOUS
  <2> QED BY <1>5, <2>1, Zenon
<1>7. ASSUME NEW k \in Nat PROVE k <= n => p[k] = g[k]
  <2> DEFINE S == {i \in Nat : i <= n => p[i] = g[i]}
  <2>1. 0 \in S
    BY <1>1, <1>6
  <2>2. \A i \in Nat : i \in S => i + 1 \in S
    <3> SUFFICES ASSUME NEW i \in Nat, i \in S, i + 1 <= n PROVE p[i + 1] = g[i + 1]
      OBVIOUS
    <3>1. p[i] = g[i] /\ i + 1 \in 1 .. n /\ (i + 1) - 1 = i
      OBVIOUS
    <3> QED BY <1>1, <1>6, <3>1
  <2> HIDE DEF S
  <2>3. k \in S
    BY <2>1, <2>2, SetInduction
  <2> QED BY <2>3 DEF S
<1>8. p \in [0 .. n -> X]
  <2>1. \A i \in 0 .. n : p[i] \in X
    BY <1>1, <1>7
  <2>2. p = [i \in 0 .. n |-> p[i]]
    BY <1>5
  <2> QED BY <2>1, <2>2
<1> QED BY <1>6, <1>8 DEF p

\* In particular the sums.
LEMMA PartialSumsDefinition ==
  ASSUME NEW f \in Seq(Int)
  PROVE  /\ PartialSums(f) \in [0 .. Len(f) -> Int]
         /\ PartialSums(f)[0] = 0
         /\ \A i \in 1 .. Len(f) : PartialSums(f)[i] = PartialSums(f)[i - 1] + f[i]
<1> DEFINE step == [i \in DOMAIN f |-> [sum \in Int |-> sum + f[i]]]
           p == PartialSums(f)
<1>1. /\ DOMAIN f = 1 .. Len(f) /\ Len(f) \in Nat /\ 0 \in Int
      /\ \A i \in 1 .. Len(f) : f[i] \in Int
  OBVIOUS
<1>2. /\ step \in [1 .. Len(f) -> [Int -> Int]]
      /\ \A i \in 1 .. Len(f), x \in Int : step[i][x] = x + f[i]
  BY <1>1
<1>3. p = Scan(0, step, Len(f))
  BY DEF PartialSums
<1> HIDE DEF step, p
<1>4. /\ p \in [0 .. Len(f) -> Int] /\ p[0] = 0
      /\ \A i \in 1 .. Len(f) : p[i] = step[i][p[i - 1]]
  <2>1. PICK n : n = Len(f)
    OBVIOUS
  <2>2. PICK X : X = Int
    OBVIOUS
  <2>3. PICK start : start = 0
    OBVIOUS
  <2>4. step \in Rounds(X, n) /\ start \in X /\ n \in Nat
    BY <1>1, <1>2, <2>1, <2>2, <2>3 DEF Rounds
  <2>5. /\ Scan(start, step, n) \in [0 .. n -> X]
        /\ Scan(start, step, n)[0] = start
        /\ \A i \in 1 .. n : Scan(start, step, n)[i] = step[i][Scan(start, step, n)[i - 1]]
    BY ONLY <2>4, ScanDefinition
  <2> QED BY <1>3, <2>1, <2>2, <2>3, <2>5
<1>5. \A i \in 1 .. Len(f) : p[i - 1] \in Int
  BY <1>1, <1>4
<1> QED BY <1>2, <1>4, <1>5 DEF p

\* What appending is, entry by entry.
LEMMA AppendIs ==
  ASSUME NEW u \in Seq(Int), NEW e \in Int
  PROVE  Append(u, e) = [i \in 1 .. Len(u) + 1 |-> IF i = Len(u) + 1 THEN e ELSE u[i]]
<1>0. Append(u, e) \in Seq(Int)
  BY AppendProperties
<1>1. PICK v \in Seq(Int) : v = Append(u, e)
  BY <1>0
<1>2. PICK n \in Nat : n = Len(u)
  OBVIOUS
<1>3. Len(v) = n + 1 /\ v[n + 1] = e /\ \A i \in 1 .. n : v[i] = u[i]
  BY <1>1, <1>2
<1>4. v = [i \in 1 .. n + 1 |-> v[i]]
  BY <1>3
<1>5. \A i \in 1 .. n + 1 : v[i] = IF i = n + 1 THEN e ELSE u[i]
  BY <1>3
<1> QED BY <1>1, <1>2, <1>4, <1>5

\* A sequence that goes on with one more number is an Append.
LEMMA AppendsTo ==
  ASSUME NEW u \in Seq(Int), NEW v \in Seq(Int), NEW x \in Int,
         Len(v) = Len(u) + 1, v[Len(u) + 1] = x, \A i \in 1 .. Len(u) : v[i] = u[i]
  PROVE  v = Append(u, x)
<1>1. Append(u, x) = [i \in 1 .. Len(u) + 1 |-> IF i = Len(u) + 1 THEN x ELSE u[i]]
  BY AppendIs
<1>2. Len(u) \in Nat /\ \A i \in 1 .. Len(u) + 1 : i # Len(u) + 1 => i \in 1 .. Len(u)
  OBVIOUS
<1>3. v = [i \in 1 .. Len(u) + 1 |-> v[i]]
  OBVIOUS
<1>4. \A i \in 1 .. Len(u) + 1 : v[i] = IF i = Len(u) + 1 THEN x ELSE u[i]
  BY <1>2
<1> QED BY <1>1, <1>3, <1>4

\* The total of a sequence of integers, one number after the other.
THEOREM TotalEmpty == Total(<<>>) = 0
<1>1. <<>> \in Seq(Int) /\ Len(<<>>) = 0
  OBVIOUS
<1> QED BY <1>1, PartialSumsDefinition DEF Total

\* Appending a number leaves the sums as they are and adds one to them.
THEOREM PartialSumsAppend ==
  ASSUME NEW f \in Seq(Int), NEW x \in Int
  PROVE  /\ \A i \in 0 .. Len(f) : PartialSums(Append(f, x))[i] = PartialSums(f)[i]
         /\ PartialSums(Append(f, x))[Len(f) + 1] = Total(f) + x
<1> DEFINE h == Append(f, x)
           p == PartialSums(f)
           q == PartialSums(h)
           S == {i \in Nat : i <= Len(f) => q[i] = p[i]}
<1>1. /\ h \in Seq(Int) /\ Len(h) = Len(f) + 1 /\ Len(f) \in Nat
      /\ h[Len(f) + 1] = x /\ \A i \in 1 .. Len(f) : h[i] = f[i]
  OBVIOUS
<1>2. /\ p \in [0 .. Len(f) -> Int] /\ p[0] = 0
      /\ \A i \in 1 .. Len(f) : p[i] = p[i - 1] + f[i]
  BY PartialSumsDefinition
<1> HIDE DEF h
<1>3. /\ q \in [0 .. Len(h) -> Int] /\ q[0] = 0
      /\ \A i \in 1 .. Len(h) : q[i] = q[i - 1] + h[i]
  BY <1>1, PartialSumsDefinition
<1> HIDE DEF p, q
<1>4. 0 \in S
  BY <1>2, <1>3
<1>5. \A i \in Nat : i \in S => i + 1 \in S
  BY <1>1, <1>2, <1>3
<1> HIDE DEF S
<1>6. Nat \subseteq S
  BY <1>4, <1>5, SetInduction
<1>7. \A i \in 0 .. Len(f) : q[i] = p[i]
  BY <1>1, <1>6 DEF S
<1>8. q[Len(f) + 1] = p[Len(f)] + x
  <2>1. PICK n \in Nat : n = Len(f)
    BY <1>1
  <2>2. n \in 0 .. n /\ n + 1 \in 1 .. Len(h) /\ (n + 1) - 1 = n
    BY <1>1, <2>1
  <2>3. q[n] = p[n] /\ h[n + 1] = x
    BY <1>1, <1>7, <2>1, <2>2
  <2>4. q[n + 1] = q[n] + h[n + 1]
    BY <1>3, <2>2
  <2> QED BY <2>1, <2>3, <2>4
<1> QED BY <1>7, <1>8 DEF Total, p, q, h

\* It adds the number to the total.
THEOREM TotalAppend ==
  ASSUME NEW f \in Seq(Int), NEW x \in Int
  PROVE  Total(Append(f, x)) = Total(f) + x
<1>1. Len(Append(f, x)) = Len(f) + 1
  OBVIOUS
<1> QED BY <1>1, PartialSumsAppend DEF Total

\* The total of integers is an integer.
THEOREM TotalType ==
  ASSUME NEW f \in Seq(Int)
  PROVE  Total(f) \in Int
<1>1. Len(f) \in 0 .. Len(f)
  OBVIOUS
<1> QED BY <1>1, PartialSumsDefinition DEF Total

-----------------------------------------------------------------------------
\* A loop whose rounds stay inside X ends inside X.
LEMMA ScanType ==
  ASSUME NEW X, NEW start \in X, NEW n \in Nat, NEW step \in Rounds(X, n)
  PROVE  Scan(start, step, n)[n] \in X
<1>1. n \in 0 .. n
  OBVIOUS
<1> QED BY <1>1, ScanDefinition

\* The members of a sequence that are in S make a sequence of them.
THEOREM OnlyType ==
  ASSUME NEW X, NEW s \in Seq(X), NEW S
  PROVE  Only(s, S) \in Seq(S)
<1> DEFINE step == [i \in DOMAIN s |->
                      [kept \in Seq(S) |-> IF s[i] \in S THEN Append(kept, s[i]) ELSE kept]]
<1>1. PICK n \in Nat : n = Len(s) /\ DOMAIN s = 1 .. n
  OBVIOUS
<1>2. PICK Y : Y = Seq(S)
  OBVIOUS
<1>3. step \in Rounds(Y, n)
  <2>1. ASSUME NEW i \in 1 .. n, NEW kept \in Seq(S)
        PROVE  (IF s[i] \in S THEN Append(kept, s[i]) ELSE kept) \in Seq(S)
    BY AppendProperties
  <2>2. \A i \in 1 .. n : [kept \in Seq(S) |-> IF s[i] \in S THEN Append(kept, s[i]) ELSE kept]
                            \in [Seq(S) -> Seq(S)]
    BY <2>1
  <2> QED BY <1>1, <1>2, <2>2 DEF Rounds
<1>4. PICK start : start = <<>> /\ start \in Y
  <2>1. <<>> \in Seq(S)
    OBVIOUS
  <2> QED BY <1>2, <2>1
<1>5. Only(s, S) = Scan(start, step, n)[n]
  BY <1>1, <1>4 DEF Only
<1> HIDE DEF step
<1>6. Only(s, S) \in Y
  BY <1>3, <1>4, <1>5, ScanType
<1> QED BY <1>2, <1>6

\* What is put in makes a sequence one longer.
LEMMA PutInType ==
  ASSUME NEW X, NEW s \in Seq(X), NEW x \in X, NEW before
  PROVE  PutIn(s, x, before) \in Seq(X)
<1> DEFINE T == {i \in DOMAIN s : ~before[x, s[i]]}
           n == Cardinality(T)
<1>1. n \in 0 .. Len(s)
  <2>1. PICK k \in Nat : k = Len(s) /\ DOMAIN s = 1 .. k
    OBVIOUS
  <2>2. IsFiniteSet(1 .. k) /\ Cardinality(1 .. k) = k
    <3>1. IsFiniteSet(1 .. k) /\ Cardinality(1 .. k) = IF 1 > k THEN 0 ELSE k - 1 + 1
      BY FS_Interval
    <3> QED BY <3>1
  <2>3. T \in SUBSET (1 .. k)
    BY <2>1
  <2> HIDE DEF T
  <2>4. IsFiniteSet(T) /\ Cardinality(T) <= k
    BY <2>2, <2>3, FS_Subset
  <2> QED BY <2>1, <2>4, FS_CardinalityType
<1>2. PutIn(s, x, before) = SubSeq(s, 1, n) \o <<x>> \o SubSeq(s, n + 1, Len(s))
  BY DEF PutIn
<1> HIDE DEF n
<1>3. SubSeq(s, 1, n) \in Seq(X) /\ SubSeq(s, n + 1, Len(s)) \in Seq(X) /\ <<x>> \in Seq(X)
  BY <1>1, SubSeqProperties
<1> QED BY <1>2, <1>3, ConcatProperties

\* Sorting a sequence gives a sequence of its members.
THEOREM SortedType ==
  ASSUME NEW X, NEW s \in Seq(X), NEW before
  PROVE  Sorted(s, before) \in Seq({s[j] : j \in DOMAIN s})
<1> DEFINE M == {s[j] : j \in DOMAIN s}
           step == [i \in DOMAIN s |-> [kept \in Seq(M) |-> PutIn(kept, s[i], before)]]
<1>1. PICK n \in Nat : n = Len(s) /\ DOMAIN s = 1 .. n
  OBVIOUS
<1>2. PICK Y : Y = Seq(M)
  OBVIOUS
<1>3. step \in Rounds(Y, n)
  <2>1. \A i \in 1 .. n : s[i] \in M
    BY <1>1
  <2> HIDE DEF M
  <2>2. \A i \in 1 .. n : [kept \in Seq(M) |-> PutIn(kept, s[i], before)] \in [Seq(M) -> Seq(M)]
    BY <2>1, PutInType
  <2> QED BY <1>1, <1>2, <2>2 DEF Rounds
<1>4. PICK start : start = <<>> /\ start \in Y
  <2>1. <<>> \in Seq(M)
    OBVIOUS
  <2> QED BY <1>2, <2>1
<1>5. Sorted(s, before) = Scan(start, step, n)[n]
  BY <1>1, <1>4 DEF Sorted
<1> HIDE DEF step
<1>6. Sorted(s, before) \in Y
  BY <1>3, <1>4, <1>5, ScanType
<1> QED BY <1>2, <1>6

\* The first n places of s, then x, then the places behind.
PutAt(r, s, x, n) ==
  /\ Len(r) = Len(s) + 1
  /\ \A i \in 1 .. n : r[i] = s[i]
  /\ r[n + 1] = x
  /\ \A i \in n + 1 .. Len(s) : r[i + 1] = s[i]

\* The two pieces with x between them are that.
LEMMA PutInPlaces ==
  ASSUME NEW X, NEW s \in Seq(X), NEW x \in X, NEW n \in 0 .. Len(s)
  PROVE  PutAt(SubSeq(s, 1, n) \o <<x>> \o SubSeq(s, n + 1, Len(s)), s, x, n)
<1>1. PICK k \in Nat : k = Len(s)
  OBVIOUS
<1> DEFINE a == SubSeq(s, 1, n)
           b == SubSeq(s, n + 1, k)
           c == a \o <<x>>
           r == c \o b
<1>2. n \in 0 .. k /\ n \in Nat /\ \A i \in 1 .. k : s[i] \in X
  BY <1>1
<1>3. a \in Seq(X) /\ Len(a) = n /\ \A i \in 1 .. n : a[i] = s[i]
  BY <1>1, <1>2, SubSeqProperties
<1>4. b \in Seq(X) /\ Len(b) = k - n /\ \A i \in 1 .. k - n : b[i] = s[n + i]
  <2>1. n + 1 \in Int /\ k \in Int /\ \A i \in n + 1 .. k : s[i] \in X
    BY <1>2
  <2>2. /\ b \in Seq(X) /\ Len(b) = IF n + 1 <= k THEN k - (n + 1) + 1 ELSE 0
        /\ \A i \in 1 .. k - (n + 1) + 1 : b[i] = s[n + 1 + i - 1]
    BY ONLY <2>1, SubSeqProperties
  <2>3. Len(b) = k - n
    BY <1>2, <2>2
  <2>4. ASSUME NEW i \in 1 .. k - n PROVE b[i] = s[n + i]
    <3>1. i \in 1 .. k - (n + 1) + 1 /\ n + 1 + i - 1 = n + i
      BY <1>2
    <3> QED BY <2>2, <3>1
  <2> QED BY <2>2, <2>3, <2>4
<1>5. <<x>> \in Seq(X) /\ Len(<<x>>) = 1 /\ <<x>>[1] = x
  OBVIOUS
<1> HIDE DEF a, b
<1>6. /\ c \in Seq(X) /\ Len(c) = n + 1 /\ c[n + 1] = x
      /\ \A i \in 1 .. n : c[i] = s[i]
  <2>1. /\ c \in Seq(X) /\ Len(c) = Len(a) + Len(<<x>>)
        /\ \A i \in 1 .. Len(a) + Len(<<x>>) :
             c[i] = IF i <= Len(a) THEN a[i] ELSE <<x>>[i - Len(a)]
    BY ONLY <1>3, <1>5, ConcatProperties
  <2> QED BY <1>2, <1>3, <1>5, <2>1
<1> HIDE DEF c
<1>7. /\ r \in Seq(X) /\ Len(r) = (n + 1) + (k - n)
      /\ \A i \in 1 .. (n + 1) + (k - n) : r[i] = IF i <= n + 1 THEN c[i] ELSE b[i - (n + 1)]
  <2>1. /\ r \in Seq(X) /\ Len(r) = Len(c) + Len(b)
        /\ \A i \in 1 .. Len(c) + Len(b) : r[i] = IF i <= Len(c) THEN c[i] ELSE b[i - Len(c)]
    BY ONLY <1>4, <1>6, ConcatProperties
  <2> QED BY <1>4, <1>6, <2>1
<1> DEFINE q == r
<1>8. q = SubSeq(s, 1, n) \o <<x>> \o SubSeq(s, n + 1, Len(s))
  BY <1>1 DEF a, b, c
<1> HIDE DEF r
<1>9. Len(q) = k + 1
  BY <1>2, <1>7
<1>10. q[n + 1] = x /\ \A i \in 1 .. n : q[i] = s[i]
  BY <1>2, <1>6, <1>7
<1>11. ASSUME NEW i \in n + 1 .. k PROVE q[i + 1] = s[i]
  <2>1. i + 1 \in 1 .. (n + 1) + (k - n) /\ ~(i + 1 <= n + 1) /\ (i + 1) - (n + 1) = i - n
        /\ i - n \in 1 .. k - n /\ n + (i - n) = i
    BY <1>2
  <2> QED BY <1>4, <1>7, <2>1
<1>12. PutAt(q, s, x, n)
  BY <1>1, <1>9, <1>10, <1>11 DEF PutAt
<1> QED BY <1>8, <1>12

\* The rounds of a sorting: what is sorted after i of them.
Sorting(held, X, s, before) ==
  /\ held \in [0 .. Len(s) -> Seq(X)]
  /\ held[0] = <<>> /\ Sorted(s, before) = held[Len(s)]
  /\ \A i \in 1 .. Len(s) : held[i] = PutIn(held[i - 1], s[i], before)

\* Every sorting has its rounds.
LEMMA SortedRounds ==
  ASSUME NEW X, NEW s \in Seq(X), NEW before
  PROVE  \E held : Sorting(held, X, s, before)
<1> DEFINE M == {s[j] : j \in DOMAIN s}
           step == [i \in DOMAIN s |-> [kept \in Seq(M) |-> PutIn(kept, s[i], before)]]
<1>1. PICK n \in Nat : n = Len(s) /\ DOMAIN s = 1 .. n
  OBVIOUS
<1>2. PICK Y : Y = Seq(M)
  OBVIOUS
<1>3. /\ step \in Rounds(Y, n)
      /\ \A i \in 1 .. n, kept \in Y : step[i][kept] = PutIn(kept, s[i], before)
  <2>1. \A i \in 1 .. n : s[i] \in M
    BY <1>1
  <2> HIDE DEF M
  <2>2. \A i \in 1 .. n, kept \in Seq(M) : PutIn(kept, s[i], before) \in Seq(M)
    BY <2>1, PutInType
  <2>3. \A i \in 1 .. n : [kept \in Seq(M) |-> PutIn(kept, s[i], before)] \in [Seq(M) -> Seq(M)]
    BY <2>2
  <2> QED BY <1>1, <1>2, <2>3 DEF Rounds
<1>4. PICK start : start = <<>> /\ start \in Y
  <2>1. <<>> \in Seq(M)
    OBVIOUS
  <2> QED BY <1>2, <2>1
<1>5. Sorted(s, before) = Scan(start, step, n)[n]
  BY <1>1, <1>4 DEF Sorted
<1> HIDE DEF step
<1>6. PICK held : held = Scan(start, step, n)
  OBVIOUS
<1>7. /\ held \in [0 .. n -> Y] /\ held[0] = start
      /\ \A i \in 1 .. n : held[i] = step[i][held[i - 1]]
  BY <1>3, <1>4, <1>6, ScanDefinition
<1>8. Y \subseteq Seq(X)
  <2>1. M \subseteq X
    BY <1>1
  <2> HIDE DEF M
  <2> QED BY <1>2, <2>1
<1>9. held \in [0 .. n -> Seq(X)]
  <2>1. \A i \in 0 .. n : held[i] \in Seq(X)
    BY <1>7, <1>8
  <2>2. held = [i \in 0 .. n |-> held[i]]
    BY <1>7
  <2> QED BY <2>1, <2>2
<1>10. \A i \in 1 .. n : held[i] = PutIn(held[i - 1], s[i], before)
  <2>1. \A i \in 1 .. n : i - 1 \in 0 .. n
    OBVIOUS
  <2> QED BY <1>3, <1>7, <2>1
<1>11. Sorting(held, X, s, before)
  BY <1>1, <1>4, <1>5, <1>6, <1>7, <1>9, <1>10 DEF Sorting
<1> QED BY <1>11

\* The members of a sorted sequence that x does not precede, by their places.
InFront(s, x, before) == {i \in DOMAIN s : ~before[x, s[i]]}

\* The place where x is put: as many as it does not precede are in front of it.
LEMMA PutInPlace ==
  ASSUME NEW X, NEW s \in Seq(X), NEW x, NEW before
  PROVE  /\ IsFiniteSet(InFront(s, x, before))
         /\ Cardinality(InFront(s, x, before)) \in 0 .. Len(s)
<1>1. PICK k \in Nat : k = Len(s) /\ DOMAIN s = 1 .. k
  OBVIOUS
<1>2. IsFiniteSet(1 .. k) /\ Cardinality(1 .. k) = k
  <2>1. IsFiniteSet(1 .. k) /\ Cardinality(1 .. k) = IF 1 > k THEN 0 ELSE k - 1 + 1
    BY FS_Interval
  <2> QED BY <2>1
<1>3. InFront(s, x, before) \in SUBSET (1 .. k)
  BY <1>1 DEF InFront
<1>4. IsFiniteSet(InFront(s, x, before)) /\ Cardinality(InFront(s, x, before)) <= k
  BY <1>2, <1>3, FS_Subset
<1> QED BY <1>1, <1>4, FS_CardinalityType

\* What putting in gives.
LEMMA PutInIs ==
  ASSUME NEW X, NEW s \in Seq(X), NEW x \in X, NEW before
  PROVE  PutAt(PutIn(s, x, before), s, x, Cardinality(InFront(s, x, before)))
<1>1. PICK n \in 0 .. Len(s) : n = Cardinality(InFront(s, x, before))
  BY PutInPlace
<1>2. PutIn(s, x, before) = SubSeq(s, 1, n) \o <<x>> \o SubSeq(s, n + 1, Len(s))
  BY <1>1 DEF PutIn, InFront
<1>3. PutAt(SubSeq(s, 1, n) \o <<x>> \o SubSeq(s, n + 1, Len(s)), s, x, n)
  BY PutInPlaces
<1> QED BY <1>1, <1>2, <1>3

\* p says of each of the k places of r which place of s its member has.
Rearranges(r, s, k, p) ==
  /\ Len(r) = k
  /\ \A i, j \in 1 .. k : p[i] = p[j] => i = j
  /\ \A j \in 1 .. k : \E i \in 1 .. k : p[i] = j
  /\ \A i \in 1 .. k : r[i] = s[p[i]]

\* Sorting rearranges the members: each place of the sorted sequence holds the
\* member of a place of its own, and no member is left out or comes twice.
THEOREM SortedPermutes ==
  ASSUME NEW X, NEW s \in Seq(X), NEW before
  PROVE  /\ Len(Sorted(s, before)) = Len(s)
         /\ \E place \in Bijection(1 .. Len(s), 1 .. Len(s)) :
              \A i \in 1 .. Len(s) : Sorted(s, before)[i] = s[place[i]]
<1>1. PICK n \in Nat : n = Len(s) /\ \A i \in 1 .. n : s[i] \in X
  OBVIOUS
<1>2. PICK held \in [0 .. n -> Seq(X)] :
           /\ held[0] = <<>> /\ Sorted(s, before) = held[n]
           /\ \A i \in 1 .. n : held[i] = PutIn(held[i - 1], s[i], before)
  <2>1. PICK h : Sorting(h, X, s, before)
    BY SortedRounds
  <2> QED BY <1>1, <2>1 DEF Sorting
<1> DEFINE S == {k \in Nat : k <= n => \E p \in [1 .. k -> 1 .. k] : Rearranges(held[k], s, k, p)}
<1>3. 0 \in S
  <2>1. [i \in 1 .. 0 |-> i] \in [1 .. 0 -> 1 .. 0]
    OBVIOUS
  <2>2. Len(<<>>) = 0 /\ 1 .. 0 = {}
    OBVIOUS
  <2> QED BY <1>2, <2>1, <2>2 DEF Rearranges
<1>4. ASSUME NEW k \in Nat, k + 1 <= n, NEW p \in [1 .. k -> 1 .. k], Rearranges(held[k], s, k, p)
      PROVE  \E q \in [1 .. k + 1 -> 1 .. k + 1] : Rearranges(held[k + 1], s, k + 1, q)
  <2>1. /\ Len(held[k]) = k
        /\ \A i, j \in 1 .. k : p[i] = p[j] => i = j
        /\ \A j \in 1 .. k : \E i \in 1 .. k : p[i] = j
        /\ \A i \in 1 .. k : held[k][i] = s[p[i]]
    BY <1>4 DEF Rearranges
  <2>2. k \in 0 .. n /\ k + 1 \in 1 .. n /\ (k + 1) - 1 = k
    BY <1>1, <1>4
  <2>3. PICK x : x = s[k + 1] /\ x \in X
    BY <1>1, <2>2
  <2>4. PICK u \in Seq(X) : u = held[k]
    BY <1>2, <2>2
  <2>5. PICK r : r = held[k + 1] /\ r = PutIn(u, x, before)
    BY <1>2, <2>2, <2>3, <2>4
  <2>6. Len(u) = k
    BY <2>1, <2>4
  <2>7. PICK m \in 0 .. k :
             /\ Len(r) = k + 1
             /\ \A i \in 1 .. m : r[i] = u[i]
             /\ r[m + 1] = x
             /\ \A i \in m + 1 .. k : r[i + 1] = u[i]
    <3>1. PICK c \in 0 .. Len(u) : c = Cardinality(InFront(u, x, before))
      BY PutInPlace
    <3>2. PutAt(PutIn(u, x, before), u, x, c)
      BY <2>3, <3>1, PutInIs
    <3>3. PutAt(r, u, x, c) /\ c \in 0 .. k
      BY <2>5, <2>6, <3>2
    <3> QED BY <2>6, <3>3 DEF PutAt
  <2> DEFINE q == [i \in 1 .. k + 1 |-> IF i <= m THEN p[i] ELSE IF i = m + 1 THEN k + 1 ELSE p[i - 1]]
  <2>8. m \in Nat /\ m <= k /\ \A i \in 1 .. k : p[i] \in 1 .. k
    OBVIOUS
  <2>9. q \in [1 .. k + 1 -> 1 .. k + 1]
    <3> SUFFICES ASSUME NEW i \in 1 .. k + 1 PROVE q[i] \in 1 .. k + 1
      OBVIOUS
    <3>1. CASE i <= m
      <4>1. i \in 1 .. k
        BY <2>8, <3>1
      <4> QED BY <2>8, <3>1, <4>1
    <3>2. CASE i = m + 1
      BY <2>8, <3>2
    <3>3. CASE i > m + 1
      <4>1. i - 1 \in 1 .. k
        BY <2>8, <3>3
      <4> QED BY <2>8, <3>3, <4>1
    <3> QED BY <2>8, <3>1, <3>2, <3>3
  <2>10. /\ \A i \in 1 .. m : q[i] = p[i]
         /\ q[m + 1] = k + 1
         /\ \A i \in m + 1 .. k : q[i + 1] = p[i]
    <3>1. \A i \in 1 .. m : i \in 1 .. k + 1 /\ i <= m
      BY <2>8
    <3>2. m + 1 \in 1 .. k + 1 /\ ~(m + 1 <= m)
      BY <2>8
    <3>3. \A i \in m + 1 .. k : i + 1 \in 1 .. k + 1 /\ ~(i + 1 <= m) /\ i + 1 # m + 1 /\ (i + 1) - 1 = i
      BY <2>8
    <3> QED BY <3>1, <3>2, <3>3
  <2> HIDE DEF q
  \* a place is in front of x, is that of x, or is behind it
  <2>11. ASSUME NEW i \in 1 .. k + 1
         PROVE  \/ i \in 1 .. m /\ i \in 1 .. k
                \/ i = m + 1
                \/ \E j \in m + 1 .. k : i = j + 1 /\ j \in 1 .. k
    <3>1. i > m + 1 => i - 1 \in m + 1 .. k /\ i = (i - 1) + 1 /\ i - 1 \in 1 .. k
      BY <2>8
    <3>2. i <= m => i \in 1 .. m /\ i \in 1 .. k
      BY <2>8
    <3>3. i <= m \/ i = m + 1 \/ i > m + 1
      BY <2>8
    <3> QED BY <3>1, <3>2, <3>3
  <2>12. ASSUME NEW i \in 1 .. k + 1, NEW j \in 1 .. k + 1, q[i] = q[j] PROVE i = j
    <3> DEFINE Of(l) == IF l <= m THEN l ELSE l - 1
    <3>1. ASSUME NEW l \in 1 .. k + 1, l # m + 1
          PROVE  Of(l) \in 1 .. k /\ q[l] = p[Of(l)] /\ q[l] \in 1 .. k
      <4>1. CASE l <= m
        <5>1. l \in 1 .. m /\ l \in 1 .. k
          BY <2>8, <4>1
        <5>2. q[l] = p[l] /\ p[l] \in 1 .. k
          BY <2>8, <2>10, <5>1
        <5> QED BY <4>1, <5>1, <5>2
      <4>2. CASE l > m + 1
        <5>1. l - 1 \in m + 1 .. k /\ (l - 1) + 1 = l /\ l - 1 \in 1 .. k /\ ~(l <= m)
          BY <2>8, <4>2
        <5>2. q[l] = p[l - 1]
          BY <2>10, <5>1
        <5> QED BY <2>8, <5>1, <5>2
      <4> QED BY <2>8, <3>1, <4>1, <4>2
    <3>2. CASE i # m + 1 /\ j # m + 1
      <4>1. Of(i) \in 1 .. k /\ Of(j) \in 1 .. k /\ p[Of(i)] = p[Of(j)]
        BY <2>12, <3>1, <3>2
      <4>2. Of(i) = Of(j)
        <5> HIDE DEF Of
        <5> QED BY <2>1, <4>1
      <4> QED BY <2>8, <3>2, <4>2
    <3>3. CASE i = m + 1 \/ j = m + 1
      <4>1. k + 1 \notin 1 .. k
        BY <2>8
      <4> HIDE DEF Of
      <4> QED BY <2>10, <2>12, <3>1, <3>3, <4>1
    <3> QED BY <3>2, <3>3
  <2>13. ASSUME NEW j \in 1 .. k + 1 PROVE \E i \in 1 .. k + 1 : q[i] = j
    <3>1. CASE j = k + 1
      <4>1. m + 1 \in 1 .. k + 1
        BY <2>8
      <4> QED BY <2>10, <3>1, <4>1
    <3>2. CASE j # k + 1
      <4>1. j \in 1 .. k
        BY <3>2
      <4>2. PICK i \in 1 .. k : p[i] = j
        BY <2>1, <4>1
      <4>3. CASE i <= m
        <5>1. i \in 1 .. m /\ i \in 1 .. k + 1
          BY <2>8, <4>3
        <5> QED BY <2>10, <4>2, <5>1
      <4>4. CASE i > m
        <5>1. i \in m + 1 .. k /\ i + 1 \in 1 .. k + 1
          BY <2>8, <4>4
        <5> QED BY <2>10, <4>2, <5>1
      <4> QED BY <2>8, <4>3, <4>4
    <3> QED BY <3>1, <3>2
  <2>14. ASSUME NEW i \in 1 .. k + 1 PROVE r[i] = s[q[i]]
    <3>1. CASE i \in 1 .. m /\ i \in 1 .. k
      BY <2>1, <2>4, <2>7, <2>10, <3>1
    <3>2. CASE i = m + 1
      BY <2>3, <2>7, <2>10, <3>2
    <3>3. CASE \E j \in m + 1 .. k : i = j + 1 /\ j \in 1 .. k
      <4>1. PICK j \in m + 1 .. k : i = j + 1 /\ j \in 1 .. k
        BY <3>3
      <4>2. r[i] = u[j] /\ q[i] = p[j] /\ u[j] = s[p[j]]
        BY <2>1, <2>4, <2>7, <2>10, <4>1
      <4> QED BY <4>2
    <3> QED BY <2>11, <3>1, <3>2, <3>3
  <2>15. Rearranges(held[k + 1], s, k + 1, q)
    BY <2>5, <2>7, <2>12, <2>13, <2>14 DEF Rearranges
  <2> QED BY <2>9, <2>15
<1>5. ASSUME NEW k \in Nat, k \in S PROVE k + 1 \in S
  <2>1. SUFFICES ASSUME k + 1 <= n
                 PROVE  \E q \in [1 .. k + 1 -> 1 .. k + 1] : Rearranges(held[k + 1], s, k + 1, q)
    BY k + 1 \in Nat
  <2>2. k <= n
    BY <1>1, <2>1
  <2>3. PICK p \in [1 .. k -> 1 .. k] : Rearranges(held[k], s, k, p)
    BY <1>5, <2>2
  <2> QED BY <1>4, <2>1, <2>3
<1>6. PICK p \in [1 .. n -> 1 .. n] : Rearranges(held[n], s, n, p)
  <2> HIDE DEF S
  <2>1. n \in S
    BY <1>1, <1>3, <1>5, SetInduction
  <2> QED BY <1>1, <2>1 DEF S
<1>7. p \in Bijection(1 .. n, 1 .. n)
  <2>1. /\ \A i, j \in 1 .. n : p[i] = p[j] => i = j
        /\ \A j \in 1 .. n : \E i \in 1 .. n : p[i] = j
    BY <1>6 DEF Rearranges
  <2> QED BY <2>1 DEF Bijection, Injection, Surjection, IsInjective
<1>8. Len(held[n]) = n /\ \A i \in 1 .. n : held[n][i] = s[p[i]]
  BY <1>6 DEF Rearranges
<1> QED BY <1>1, <1>2, <1>7, <1>8

\* A set of numbers that holds with each number those below it is 1 .. its size.
LEMMA Initial ==
  ASSUME NEW k \in Nat, NEW T \in SUBSET (1 .. k), \A i \in T : \A j \in 1 .. i : j \in T
  PROVE  T = 1 .. Cardinality(T)
<1> DEFINE S == {n \in Nat : \E c \in 0 .. n : T \intersect (1 .. n) = 1 .. c}
<1>1. 0 \in S
  <2>1. T \intersect (1 .. 0) = 1 .. 0
    OBVIOUS
  <2> QED BY <2>1
<1>2. ASSUME NEW n \in Nat, n \in S PROVE n + 1 \in S
  <2>1. PICK c \in 0 .. n : T \intersect (1 .. n) = 1 .. c
    BY <1>2
  <2>2. CASE n + 1 \in T
    <3>1. T \intersect (1 .. n + 1) = 1 .. n + 1
      BY <2>2
    <3> QED BY <3>1
  <2>3. CASE n + 1 \notin T
    <3>1. \A i \in T : i \in 1 .. n + 1 <=> i \in 1 .. n
      BY <2>3
    <3>2. T \intersect (1 .. n + 1) = 1 .. c
      BY <2>1, <3>1
    <3> QED BY <3>2
  <2> QED BY <2>2, <2>3
<1> HIDE DEF S
<1>3. k \in S
  BY <1>1, <1>2, SetInduction
<1>4. PICK c \in Nat : T = 1 .. c
  <2>1. PICK c \in 0 .. k : T \intersect (1 .. k) = 1 .. c
    BY <1>3 DEF S
  <2>2. T \intersect (1 .. k) = T
    OBVIOUS
  <2>3. T = 1 .. c
    BY <2>1, <2>2, Zenon
  <2>4. c \in Nat
    OBVIOUS
  <2> QED BY <2>3, <2>4
<1>5. Cardinality(1 .. c) = c
  <2>1. Cardinality(1 .. c) = IF 1 > c THEN 0 ELSE c - 1 + 1
    BY FS_Interval
  <2> QED BY <2>1
<1> QED BY <1>4, <1>5

\* before is an order in which members may be equal.
Orders(before, X) ==
  /\ \A x, y \in X : before[x, y] => ~before[y, x]
  /\ \A x, y, z \in X : ~before[x, y] /\ ~before[y, z] => ~before[x, z]

\* No member precedes one in front of it.
InOrder(r, before) == \A i, j \in 1 .. Len(r) : i < j => ~before[r[j], r[i]]

\* What is put into a sequence in order leaves it in order.
LEMMA PutInOrder ==
  ASSUME NEW X, NEW u \in Seq(X), NEW x \in X, NEW before, Orders(before, X), InOrder(u, before)
  PROVE  InOrder(PutIn(u, x, before), before)
<1> DEFINE T == InFront(u, x, before)
           P(a, b) == before[a, b]
<1>1. PICK k \in Nat : k = Len(u) /\ DOMAIN u = 1 .. k /\ \A i \in 1 .. k : u[i] \in X
  OBVIOUS
<1>2. PICK r : r = PutIn(u, x, before)
  OBVIOUS
<1>3. T \in SUBSET (1 .. k) /\ \A i \in 1 .. k : i \in T <=> ~P(x, u[i])
  BY <1>1 DEF InFront
<1>4. /\ \A y, z \in X : P(y, z) => ~P(z, y)
      /\ \A v, y, z \in X : ~P(v, y) /\ ~P(y, z) => ~P(v, z)
      /\ \A i, j \in 1 .. k : i < j => ~P(u[j], u[i])
  BY <1>1 DEF Orders, InOrder
<1>5. (\A i, j \in 1 .. Len(r) : i < j => ~P(r[j], r[i])) => InOrder(r, before)
  BY DEF InOrder
<1>6. PICK m \in 0 .. k : m = Cardinality(T)
  BY <1>1, PutInPlace
<1>7. PutAt(r, u, x, m)
  BY <1>2, <1>6, PutInIs
<1> HIDE DEF T, P
<1>8. T = 1 .. m
  <2>1. ASSUME NEW i \in T, NEW j \in 1 .. i PROVE j \in T
    <3>1. i \in 1 .. k /\ j \in 1 .. k /\ (j = i \/ j < i)
      BY <1>3
    <3>2. j = i \/ ~P(u[i], u[j])
      BY <1>4, <3>1
    <3>3. ~P(x, u[i])
      BY <1>3, <3>1
    <3>4. ~P(x, u[j])
      BY <1>1, <1>4, <3>1, <3>2, <3>3
    <3> QED BY <1>3, <3>1, <3>4
  <2> QED BY <1>3, <1>6, <2>1, Initial
<1>9. /\ Len(r) = k + 1
      /\ \A i \in 1 .. m : r[i] = u[i]
      /\ r[m + 1] = x
      /\ \A i \in m + 1 .. k : r[i + 1] = u[i]
  BY <1>1, <1>7 DEF PutAt
<1>10. \A i \in 1 .. k : i \in 1 .. m => ~P(x, u[i])
  BY <1>3, <1>8
<1>11. \A i \in 1 .. k : i \notin 1 .. m => ~P(u[i], x)
  BY <1>1, <1>3, <1>4, <1>8
\* a place is in front of x, is that of x, or is behind it
<1>12. ASSUME NEW i \in 1 .. k + 1, NEW j \in 1 .. k + 1, i < j
       PROVE  ~P(r[j], r[i])
  <2>1. CASE j <= m
    <3>1. i \in 1 .. m /\ j \in 1 .. m /\ i \in 1 .. k /\ j \in 1 .. k
      BY <1>12, <2>1
    <3> QED BY <1>4, <1>9, <1>12, <3>1
  <2>2. CASE j = m + 1
    <3>1. i \in 1 .. m /\ i \in 1 .. k
      BY <1>12, <2>2
    <3> QED BY <1>9, <1>10, <2>2, <3>1
  <2>3. CASE j > m + 1
    <3>1. PICK b \in m + 1 .. k : b + 1 = j /\ b \in 1 .. k /\ b \notin 1 .. m
      <4>1. j - 1 \in m + 1 .. k /\ (j - 1) + 1 = j /\ j - 1 \in 1 .. k /\ j - 1 \notin 1 .. m
        BY <2>3
      <4> QED BY <4>1
    <3>2. r[j] = u[b]
      BY <1>9, <3>1
    <3>3. CASE i <= m
      <4>1. i \in 1 .. m /\ i \in 1 .. k /\ i < b
        BY <3>1, <3>3
      <4> QED BY <1>4, <1>9, <3>1, <3>2, <4>1
    <3>4. CASE i = m + 1
      BY <1>9, <1>11, <3>1, <3>2, <3>4
    <3>5. CASE i > m + 1
      <4>1. PICK a \in m + 1 .. k : a + 1 = i /\ a \in 1 .. k /\ a < b
        <5>1. i - 1 \in m + 1 .. k /\ (i - 1) + 1 = i /\ i - 1 \in 1 .. k /\ i - 1 < b
          BY <1>12, <3>1, <3>5
        <5> QED BY <5>1
      <4>2. r[i] = u[a]
        BY <1>9, <4>1
      <4> QED BY <1>4, <3>1, <3>2, <4>1, <4>2
    <3>6. i <= m \/ i = m + 1 \/ i > m + 1
      OBVIOUS
    <3> QED BY <3>3, <3>4, <3>5, <3>6
  <2>4. j <= m \/ j = m + 1 \/ j > m + 1
    OBVIOUS
  <2> QED BY <2>1, <2>2, <2>3, <2>4
<1> QED BY <1>2, <1>5, <1>9, <1>12

\* Sorting puts the members in order.
THEOREM SortedInOrder ==
  ASSUME NEW X, NEW s \in Seq(X), NEW before, Orders(before, X)
  PROVE  InOrder(Sorted(s, before), before)
<1>1. PICK n \in Nat : n = Len(s) /\ \A i \in 1 .. n : s[i] \in X
  OBVIOUS
<1>2. PICK held : Sorting(held, X, s, before)
  BY SortedRounds
<1>3. /\ held \in [0 .. n -> Seq(X)] /\ held[0] = <<>> /\ Sorted(s, before) = held[n]
      /\ \A i \in 1 .. n : held[i] = PutIn(held[i - 1], s[i], before)
  BY <1>1, <1>2 DEF Sorting
<1> DEFINE S == {k \in Nat : k <= n => InOrder(held[k], before)}
<1>4. 0 \in S
  <2>1. Len(<<>>) = 0 /\ 1 .. 0 = {}
    OBVIOUS
  <2> QED BY <1>3, <2>1 DEF InOrder
<1>5. ASSUME NEW k \in Nat, k \in S PROVE k + 1 \in S
  <2>1. SUFFICES ASSUME k + 1 <= n PROVE InOrder(held[k + 1], before)
    BY k + 1 \in Nat
  <2>2. k + 1 \in 1 .. n /\ (k + 1) - 1 = k /\ k \in 0 .. n /\ k <= n
    BY <1>1, <2>1
  <2>3. held[k + 1] = PutIn(held[k], s[k + 1], before) /\ held[k] \in Seq(X) /\ s[k + 1] \in X
    BY <1>1, <1>3, <2>2
  <2>4. InOrder(held[k], before)
    BY <1>5, <2>2
  <2> QED BY <2>3, <2>4, PutInOrder
<1> HIDE DEF S
<1>6. n \in S
  BY <1>1, <1>4, <1>5, SetInduction
<1> QED BY <1>1, <1>3, <1>6 DEF S

\* A sorted sequence is one of the same kind and length.
LEMMA SortedLength ==
  ASSUME NEW X, NEW s \in Seq(X), NEW before
  PROVE  Sorted(s, before) \in Seq(X) /\ Len(Sorted(s, before)) = Len(s)
<1>1. PICK held : Sorting(held, X, s, before)
  BY SortedRounds
<1>2. Sorted(s, before) \in Seq(X)
  <2>1. Len(s) \in 0 .. Len(s)
    OBVIOUS
  <2> QED BY <1>1, <2>1 DEF Sorting
<1> QED BY <1>2, SortedPermutes
=============================================================================
