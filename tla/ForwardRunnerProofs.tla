------------------------- MODULE ForwardRunnerProofs -------------------------
(***************************************************************************)
(* Proofs about ForwardRunner, for any bars, cycles, errors and deaths:    *)
(* the checkpoint obeys the rules of the ledger and never regresses, the   *)
(* status report is never ahead of it, no bar is jumped over; a decision   *)
(* is repeated only after a death, a skipped bar has an order only after a *)
(* fault, and the event log differs from the account only by faults.       *)
(*                                                                         *)
(* The account in memory and the one in the checkpoint file are two        *)
(* ledgers; what PaperLedgerProofs shows of a ledger is used of both.      *)
(***************************************************************************)
EXTENDS ForwardRunner, RunnerLock, FiniteSetTheorems, TLAPS

Memory == INSTANCE PaperLedgerProofs WITH ledger <- mem.ledger
File == INSTANCE PaperLedgerProofs WITH ledger <- file.ledger

Inv == RunnerInv /\ Memory!LedgerInv /\ File!LedgerInv

-----------------------------------------------------------------------------
\* What the steps of a ledger preserve, of the account in memory and of the one
\* in the file.
LEMMA MemoryStep ==
  ASSUME Memory!LedgerInv, [Memory!Next]_Memory!vars
  PROVE  Memory!LedgerInv'
BY Memory!NextPreserves, LedgerAssumption, NoneAssumption
   DEF Memory!LedgerAssumption, Memory!NoneAssumption, Memory!OpenOrders, OpenOrders,
       Memory!Times, Times

LEMMA FileStep ==
  ASSUME File!LedgerInv, [File!Next]_File!vars
  PROVE  File!LedgerInv'
BY File!NextPreserves, LedgerAssumption, NoneAssumption
   DEF File!LedgerAssumption, File!NoneAssumption, File!OpenOrders, OpenOrders,
       File!Times, Times

LEMMA MemoryInit ==
  ASSUME now \in Times, mem.ledger = EmptyLedger
  PROVE  Memory!LedgerInv
BY Memory!InitEstablishes, LedgerAssumption, NoneAssumption
   DEF Memory!LedgerAssumption, Memory!NoneAssumption, Memory!OpenOrders, OpenOrders,
       Memory!Times, Times, Memory!Init, Memory!EmptyLedger, EmptyLedger, Memory!Days, Days,
       Memory!Day, Day

LEMMA FileInit ==
  ASSUME now \in Times, file.ledger = EmptyLedger
  PROVE  File!LedgerInv
BY File!InitEstablishes, LedgerAssumption, NoneAssumption
   DEF File!LedgerAssumption, File!NoneAssumption, File!OpenOrders, OpenOrders,
       File!Times, Times, File!Init, File!EmptyLedger, EmptyLedger, File!Days, Days,
       File!Day, Day

\* The two instances measure sets alike.
LEMMA Sizes ==
  ASSUME NEW S
  PROVE  /\ Memory!IsFiniteSet(S) <=> File!IsFiniteSet(S)
         /\ Memory!Cardinality(S) = File!Cardinality(S)
BY DEF Memory!IsFiniteSet, File!IsFiniteSet, Memory!Cardinality, File!Cardinality

\* A ledger is as sound in the one as in the other.
LEMMA SoundInBoth ==
  ASSUME NEW l, NEW t
  PROVE  Memory!Sound(l, t) <=> File!Sound(l, t)
<1> USE DEF Memory!Day, Memory!Days, Memory!Times, File!Day, File!Days, File!Times
<1>1. l \in Memory!Ledgers <=> l \in File!Ledgers
  BY DEF Memory!Ledgers, Memory!OpenOrders, Memory!ClosedOrders,
         File!Ledgers, File!OpenOrders, File!ClosedOrders
<1>2. Memory!IsFiniteSet(l.done) <=> File!IsFiniteSet(l.done)
  BY Sizes
<1>3. /\ Memory!Dominated(l, t) <=> File!Dominated(l, t)
      /\ Memory!Apart(l) <=> File!Apart(l)
  BY DEF Memory!Dominated, File!Dominated, Memory!Apart, File!Apart
<1>4. Memory!WithinBudget(l) <=> File!WithinBudget(l)
  <2>1. ASSUME NEW d
        PROVE  /\ File!Cardinality(File!TripsOn(l, d)) = Memory!Cardinality(Memory!TripsOn(l, d))
               /\ File!OpenOn(l, d) = Memory!OpenOn(l, d)
    <3>1. File!TripsOn(l, d) = Memory!TripsOn(l, d) /\ File!OpenOn(l, d) = Memory!OpenOn(l, d)
      BY DEF Memory!TripsOn, Memory!OpenOn, File!TripsOn, File!OpenOn
    <3> QED BY <3>1, Sizes
  <2> QED BY <2>1 DEF Memory!WithinBudget, File!WithinBudget
<1> QED BY <1>1, <1>2, <1>3, <1>4 DEF Memory!Sound, File!Sound

\* The checkpoint takes over what is known of the memory, and the memory what is
\* known of the checkpoint.
LEMMA FileTakesMemory ==
  ASSUME Memory!LedgerInv, file' = mem, now' = now
  PROVE  File!LedgerInv'
BY SoundInBoth DEF Memory!LedgerInv, File!LedgerInv, Memory!Times, File!Times

LEMMA MemoryTakesFile ==
  ASSUME File!LedgerInv, mem' = file, now' = now
  PROVE  Memory!LedgerInv'
BY SoundInBoth DEF Memory!LedgerInv, File!LedgerInv, Memory!Times, File!Times

-----------------------------------------------------------------------------
\* The time of a day, and the records of the account.
LEMMA DayOfTime ==
  ASSUME NEW t \in Times
  PROVE  Day(t) \in Days
BY DEF Days

LEMMA BoundaryTypes ==
  ASSUME NEW t \in Times
  PROVE  Boundary(t) \in Nat /\ Aligned(Boundary(t)) /\ Aligned(Boundary(t) + Slot)
<1>1. t \in Nat /\ Slot \in Nat /\ Slot > 0
  BY LedgerAssumption, RunnerAssumption, SMT DEF Times
<1>2. t \div Slot \in Nat
  BY <1>1, SMT
<1> DEFINE k == t \div Slot
<1> HIDE DEF k
<1>3. k \in Nat
  BY <1>2 DEF k
<1>4. k * Slot \in Nat /\ k <= k * Slot /\ (k + 1) * Slot = k * Slot + Slot /\ k + 1 <= k * Slot + Slot
  BY <1>1, <1>3, SMT
<1> QED BY <1>3, <1>4, SMT DEF Boundary, Aligned, k

LEMMA ExitTypes ==
  ASSUME NEW l \in Ledgers, NEW t \in Times, l.open # None
  PROVE  Exit(l, t) \in Ledgers /\ Closed(l.open, t) \in ClosedOrders
<1>1. l.open \in OpenOrders
  BY DEF Ledgers
<1>2. Closed(l.open, t) \in ClosedOrders
  BY <1>1 DEF Closed, OpenOrders, ClosedOrders
<1> QED BY <1>2 DEF Exit, Ledgers

LEMMA EnterTypes ==
  ASSUME NEW l \in Ledgers, NEW s \in Times, NEW t \in Times
  PROVE  Enter(l, s, t) \in Ledgers
<1>1. [signal |-> s, entry |-> t] \in OpenOrders
  BY DEF OpenOrders
<1>2. [l.entries EXCEPT ![Day(t)] = @ + 1] \in [Days -> Nat]
  BY DayOfTime DEF Ledgers
<1> QED BY <1>1, <1>2 DEF Enter, Ledgers

LEMMA StateFields ==
  ASSUME NEW m \in States
  PROVE  /\ m.ledger \in Ledgers /\ m.last \in Signals \union {None}
         /\ \A l \in Ledgers : [m EXCEPT !.ledger = l] \in States
         /\ \A l : [m EXCEPT !.ledger = l].ledger = l /\ [m EXCEPT !.ledger = l].last = m.last
         /\ \A x \in Signals : [m EXCEPT !.last = x] \in States
         /\ \A x : [m EXCEPT !.last = x].last = x /\ [m EXCEPT !.last = x].ledger = m.ledger
BY DEF States

\* What the account in memory may do in a step.
ExitsIn ==
  /\ mem.ledger.open # None /\ mem' \in States /\ mem'.last = mem.last
  /\ mem'.ledger = Exit(mem.ledger, now)
EntersIn ==
  /\ CanEnter(mem.ledger, now) /\ mem' \in States /\ mem'.last = mem.last
  /\ mem'.ledger = Enter(mem.ledger, target, now)

LEMMA ExitEffect ==
  ASSUME TypeOK, ExitNow
  PROVE  ExitsIn /\ event' \in ClosedOrders
<1>1. mem \in States /\ now \in Times
  BY DEF TypeOK
<1> QED BY <1>1, StateFields, ExitTypes DEF ExitNow, ExitsIn

LEMMA EnterEffect ==
  ASSUME TypeOK, EnterNow, target <= now
  PROVE  EntersIn /\ event' \in OpenOrders
<1>0. mem \in States /\ now \in Times /\ target \in Nat
  BY DEF TypeOK
<1>1. mem \in States /\ now \in Times /\ target \in Times
  BY <1>0, LedgerAssumption, SMT DEF Times
<1>2. event' \in OpenOrders
  BY <1>1 DEF EnterNow, OpenOrders
<1> QED BY <1>1, <1>2, StateFields, EnterTypes DEF EnterNow, EntersIn

\* What a step does to the account in memory and to the files.
Still == mem' = mem /\ UNCHANGED <<file, status, first, now>>
Trades == (ExitsIn \/ EntersIn) /\ pc \in {"mark", "signal"} /\ UNCHANGED <<file, status, first, now>>

LEMMA StepCases ==
  ASSUME Inv, Next
  PROVE  \/ Tick
         \/ Still
         \/ Trades
         \/ Decide
         \/ Start \/ Die
         \/ WriteState
         \/ WriteReports
<1> USE DEF Inv, RunnerInv, disk, faults
<1>1. CASE Mark
  <2>1. Still \/ Trades
    BY <1>1, ExitEffect DEF Mark, Goto, Unmoved, Still, Trades
  <2> QED BY <2>1
<1>2. CASE ProcessSignal
  <2>1. pc = "signal" /\ target <= now
    BY <1>2 DEF ProcessSignal, Goto, BarInv, Working
  <2>2. Still \/ Trades
    BY <1>2, <2>1, ExitEffect, EnterEffect DEF ProcessSignal, Goto, Unmoved, Still, Trades
  <2> QED BY <2>1, <2>2
<1>3. CASE Bootstrap \/ Begin \/ Repair \/ AppendExecution \/ Collect \/ Stop \/ Retry \/ RequestStop \/ Fail
  <2>1. Still
    BY <1>3 DEF Bootstrap, Begin, Repair, AppendExecution, Collect, Stop, Retry, RequestStop, Fail, Still
  <2> QED BY <2>1
<1> QED BY <1>1, <1>2, <1>3 DEF Next, Cycle

-----------------------------------------------------------------------------
\* The two accounts keep obeying the rules.
LEMMA LedgersInv ==
  ASSUME Inv, [Next]_vars
  PROVE  Memory!LedgerInv' /\ File!LedgerInv'
<1> USE DEF Inv, RunnerInv
<1>1. CASE UNCHANGED vars
  <2>1. UNCHANGED Memory!vars /\ UNCHANGED File!vars
    BY <1>1 DEF vars, disk, Memory!vars, File!vars
  <2> QED BY <2>1, MemoryStep, FileStep
<1>2. CASE Tick
  <2>1. Memory!Tick /\ File!Tick
    BY <1>2 DEF Tick, disk, Memory!Tick, File!Tick
  <2> QED BY <2>1, MemoryStep, FileStep DEF Memory!Next, File!Next
<1>3. CASE Still \/ WriteReports
  <2>1. UNCHANGED Memory!vars /\ UNCHANGED File!vars
    BY <1>3 DEF Still, WriteReports, Memory!vars, File!vars
  <2> QED BY <2>1, MemoryStep, FileStep
<1>4. CASE Decide
  <2>1. mem'.ledger = mem.ledger
    BY <1>4, StateFields DEF Decide, TypeOK
  <2>2. UNCHANGED Memory!vars /\ UNCHANGED File!vars
    BY <1>4, <2>1 DEF Decide, Memory!vars, File!vars
  <2> QED BY <2>2, MemoryStep, FileStep
<1>5. CASE Trades
  <2>1. ASSUME ExitsIn PROVE Memory!Next
    <3>1. Memory!Close
      BY <1>5, <2>1 DEF Trades, ExitsIn, Memory!Close, Exit, Closed, Memory!Exit, Memory!Closed
    <3> QED BY <3>1 DEF Memory!Next
  <2>2. ASSUME EntersIn PROVE Memory!Next
    <3>1. target \in 0 .. now
      BY <1>5, SMT DEF Trades, BarInv, Working, TypeOK, Times
    <3>2. Memory!Open
      BY <1>5, <2>2, <3>1 DEF Trades, EntersIn, Memory!Open, Enter, Memory!Enter, Day, Memory!Day,
         CanEnter, Memory!CanEnter, CooledDown, Memory!CooledDown
    <3> QED BY <3>2 DEF Memory!Next
  <2>3. Memory!Next
    BY <1>5, <2>1, <2>2 DEF Trades
  <2>4. UNCHANGED File!vars
    BY <1>5 DEF Trades, File!vars
  <2> QED BY <2>3, <2>4, MemoryStep, FileStep
<1>6. CASE Start \/ Die
  <2>1. mem' = file /\ now' = now /\ file' = file
    BY <1>6 DEF Start, Die, disk
  <2>2. UNCHANGED File!vars
    BY <2>1 DEF File!vars
  <2> QED BY <2>1, <2>2, MemoryTakesFile, FileStep
<1>7. CASE WriteState
  <2>1. file' = mem /\ now' = now /\ mem' = mem
    BY <1>7 DEF WriteState
  <2>2. UNCHANGED Memory!vars
    BY <2>1 DEF Memory!vars
  <2> QED BY <2>1, <2>2, FileTakesMemory, MemoryStep
<1> QED BY <1>1, <1>2, <1>3, <1>4, <1>5, <1>6, <1>7, StepCases

-----------------------------------------------------------------------------
\* What one state knows, the next one knows.
LEMMA BehindItself ==
  ASSUME NEW a \in States
  PROVE  Behind(a, a)
BY NoneAssumption DEF Behind, Handled, States, Ledgers, Signals, Times

LEMMA BehindTrans ==
  ASSUME NEW a \in States, NEW b \in States, NEW c \in States, Behind(a, b), Behind(b, c)
  PROVE  Behind(a, c)
<1>1. \A d \in Days : /\ a.ledger.entries[d] \in Int /\ b.ledger.entries[d] \in Int
                      /\ c.ledger.entries[d] \in Int
  BY DEF States, Ledgers
<1>2. \A d \in Days : a.ledger.entries[d] <= c.ledger.entries[d]
  BY <1>1, SMT DEF Behind
<1>3. a.last # None => Handled(c, a.last)
  BY SMT DEF Behind, Handled, States, Signals, Times
<1> QED BY <1>2, <1>3 DEF Behind

\* Whatever happens to the account in memory but its loss, it learns.
LEMMA MemoryLearns ==
  ASSUME Inv, Trades \/ Decide
  PROVE  Behind(mem, mem')
<1> USE DEF Inv, RunnerInv
<1>1. mem \in States /\ now \in Times
  BY DEF TypeOK
<1>2. CASE Trades
  <2>1. mem'.last = mem.last /\ (mem.last # None => Handled(mem', mem.last))
    BY <1>1, <1>2, SMT DEF Trades, ExitsIn, EntersIn, Handled, States, Signals, Times
  <2>2. mem.ledger.done \subseteq mem'.ledger.done
    BY <1>2 DEF Trades, ExitsIn, EntersIn, Exit, Enter
  <2>3. \A d \in Days : mem.ledger.entries[d] \in Nat
    BY <1>1 DEF States, Ledgers
  <2>4. \A d \in Days : mem.ledger.entries[d] <= mem'.ledger.entries[d]
    BY <1>1, <1>2, <2>3 DEF Trades, ExitsIn, EntersIn, Exit, Enter, States, Ledgers
  <2> QED BY <2>1, <2>2, <2>4 DEF Behind
<1>3. CASE Decide
  <2>1. mem'.last = target /\ mem'.ledger = mem.ledger
    BY <1>1, <1>3, StateFields DEF Decide
  <2>2. ~Handled(mem, target) /\ target \in Int /\ target # None
    BY <1>3, NoneAssumption DEF Decide, Goto, BarInv, Working, TypeOK
  <2>3. mem.last # None => Handled(mem', mem.last)
    BY <1>1, <2>1, <2>2, SMT DEF Handled, States, Signals, Times
  <2>4. \A d \in Days : mem.ledger.entries[d] \in Nat
    BY <1>1 DEF States, Ledgers
  <2> QED BY <2>1, <2>3, <2>4 DEF Behind
<1> QED BY <1>2, <1>3

\* The types.
LEMMA TypesInv ==
  ASSUME Inv, [Next]_vars
  PROVE  TypeOK'
<1> USE DEF Inv, RunnerInv
<1>1. CASE UNCHANGED vars
  BY <1>1 DEF vars, disk, faults, TypeOK
<1>2. CASE Tick
  <2>1. now' \in Times
    BY <1>2, LedgerAssumption, SMT DEF Tick, TypeOK, Times
  <2> QED BY <1>2, <2>1 DEF Tick, disk, faults, TypeOK
<1>3. CASE Start \/ Bootstrap \/ Repair \/ Stop \/ Retry \/ RequestStop
  BY <1>3 DEF Start, Bootstrap, Repair, Stop, Retry, RequestStop, Goto, disk, faults, TypeOK, Points
<1>4. CASE Begin
  BY <1>4 DEF Begin, disk, faults, TypeOK, Points
<1>5. CASE Mark
  <2>1. pc' \in Points /\ mem' \in States /\ event' \in OpenOrders \union ClosedOrders \union {None}
    BY <1>5, ExitEffect DEF Mark, Goto, Points, Unmoved, ExitsIn, TypeOK
  <2> QED BY <1>5, <2>1 DEF Mark, disk, faults, TypeOK
<1>6. CASE ProcessSignal
  <2>1. target <= now
    BY <1>6 DEF ProcessSignal, Goto, BarInv, Working
  <2>2. pc' \in Points /\ mem' \in States /\ event' \in OpenOrders \union ClosedOrders \union {None}
    BY <1>6, <2>1, ExitEffect, EnterEffect
       DEF ProcessSignal, Goto, Points, Unmoved, ExitsIn, EntersIn, TypeOK
  <2> QED BY <1>6, <2>2 DEF ProcessSignal, disk, faults, TypeOK
<1>7. CASE AppendExecution
  <2>1. pc' \in Points /\ event \in OpenOrders \union ClosedOrders
    BY <1>7 DEF AppendExecution, Goto, Points, TypeOK, EventInv
  <2>2. log' \in [decided : [Signals -> Nat], skipped : SUBSET Signals,
                  entries : SUBSET OpenOrders, exits : SUBSET ClosedOrders]
    BY <1>7, <2>1 DEF AppendExecution, Logged, TypeOK
  <2> QED BY <1>7, <2>1, <2>2 DEF AppendExecution, faults, TypeOK
<1>8. CASE Decide
  <2>1. target \in Signals /\ pc' \in Points
    <3>1. pc' \in Points /\ Aligned(target) /\ target <= now
      BY <1>8 DEF Decide, Goto, Points, TargetInv, Looping, BarInv, Working
    <3>2. target \in Times
      BY <3>1, LedgerAssumption, SMT DEF TypeOK, Times
    <3> QED BY <3>1, <3>2 DEF Signals
  <2>2. mem' \in States
    BY <1>8, <2>1, StateFields DEF Decide, TypeOK
  <2>3. log' \in [decided : [Signals -> Nat], skipped : SUBSET Signals,
                  entries : SUBSET OpenOrders, exits : SUBSET ClosedOrders]
    <3> DEFINE decided == [log.decided EXCEPT ![target] = @ + 1]
               skipped == IF pc = "skip" THEN log.skipped \union {target} ELSE log.skipped
    <3>1. decided \in [Signals -> Nat] /\ skipped \in SUBSET Signals
      BY <2>1 DEF TypeOK
    <3>2. log' = [log EXCEPT !.decided = decided, !.skipped = skipped]
      BY <1>8 DEF Decide
    <3> HIDE DEF decided, skipped
    <3> QED BY <3>1, <3>2, Zenon DEF TypeOK
  <2> QED BY <1>8, <2>1, <2>2, <2>3 DEF Decide, faults, TypeOK
<1>9. CASE WriteState
  BY <1>9 DEF WriteState, Goto, faults, TypeOK, Points, States
<1>10. CASE WriteReports
  <2>1. target' \in Nat
    <3>1. mem.last \in Nat \union {None} /\ Slot \in Nat /\ target \in Nat /\ Boundary(now) \in Nat
      BY BoundaryTypes, RunnerAssumption DEF TypeOK, States, Signals, Times
    <3> QED BY <1>10, <3>1, SMT DEF WriteReports, NextTarget, Gone
  <2>2. pc' \in Points
    BY <1>10 DEF WriteReports, Gone, Points
  <2> QED BY <1>10, <2>1, <2>2 DEF WriteReports, Gone, faults, TypeOK
<1>11. CASE Collect
  <2>1. target' \in Nat /\ pc' \in Points
    BY <1>11, RunnerAssumption, SMT DEF Collect, Goto, Points, TypeOK
  <2> QED BY <1>11, <2>1 DEF Collect, disk, faults, TypeOK
<1>12. CASE Fail
  <2>1. errors' \in 0 .. MaxErrors
    BY <1>12, RunnerAssumption, SMT DEF Fail, TypeOK
  <2> QED BY <1>12, <2>1 DEF Fail, disk, TypeOK, Points
<1>13. CASE Die
  <2>1. deaths' \in 0 .. MaxDeaths
    BY <1>13, RunnerAssumption, SMT DEF Die, TypeOK
  <2> QED BY <1>13, <2>1 DEF Die, Gone, disk, TypeOK, Points
<1> QED BY <1>1, <1>2, <1>3, <1>4, <1>5, <1>6, <1>7, <1>8, <1>9, <1>10, <1>11, <1>12, <1>13
        DEF Next, Cycle

-----------------------------------------------------------------------------
\* The order of memory, checkpoint and status.
LEMMA FilesStayInOrder ==
  ASSUME Inv, [Next]_vars
  PROVE  FilesInv' /\ Behind(file, file')
<1> USE DEF Inv, RunnerInv
<1>1. /\ mem \in States /\ file \in States /\ status \in States
      /\ mem' \in States /\ file' \in States /\ status' \in States
  BY TypesInv DEF TypeOK
<1>2. Behind(status, file) /\ Behind(file, mem)
  BY DEF FilesInv
<1>3. Behind(file, file) /\ Behind(mem, mem)
  BY <1>1, BehindItself
<1>4. CASE UNCHANGED vars
  <2>1. mem' = mem /\ file' = file /\ status' = status /\ pc' = pc
    BY <1>4 DEF vars, disk
  <2> QED BY <1>2, <1>3, <2>1 DEF FilesInv
<1>5. CASE Tick
  <2>1. mem' = mem /\ file' = file /\ status' = status /\ pc' = pc
    BY <1>5 DEF Tick, disk
  <2> QED BY <1>2, <1>3, <2>1 DEF FilesInv
<1>6. CASE Start \/ Die
  <2>1. mem' = file /\ file' = file /\ status' = status
    BY <1>6 DEF Start, Die, disk
  <2> QED BY <1>2, <1>3, <2>1 DEF FilesInv
<1>7. CASE WriteState
  <2>1. mem' = mem /\ file' = mem /\ status' = status
    BY <1>7 DEF WriteState
  <2>2. Behind(status, mem)
    BY <1>1, <1>2, BehindTrans
  <2> QED BY <1>2, <1>3, <2>1, <2>2 DEF FilesInv
<1>8. CASE WriteReports
  <2>1. mem' = mem /\ file' = file /\ status' = mem /\ mem = file
    BY <1>8 DEF WriteReports, FilesInv
  <2> QED BY <1>2, <1>3, <2>1 DEF FilesInv
<1>9. CASE Mark \/ ProcessSignal \/ Decide
  <2>1. file' = file /\ status' = status /\ pc' \notin {"down", "reports", "collect"}
    BY <1>9 DEF Mark, ProcessSignal, Decide, Goto, disk
  <2>2. mem' = mem \/ Trades \/ Decide
    <3>1. pc = "signal" => target <= now
      BY DEF BarInv, Working
    <3> QED BY <1>9, <3>1, ExitEffect, EnterEffect
            DEF Mark, ProcessSignal, Goto, Unmoved, Trades, disk
  <2>3. Behind(file, mem')
    BY <1>1, <1>2, <2>2, MemoryLearns, BehindTrans
  <2> QED BY <1>2, <1>3, <2>1, <2>3 DEF FilesInv
<1>10. CASE Bootstrap \/ Begin \/ Repair \/ AppendExecution \/ Collect \/ Stop \/ Retry \/ RequestStop \/ Fail
  <2>1. /\ mem' = mem /\ file' = file /\ status' = status
        /\ pc' \in {"down", "reports", "collect"} => pc' = pc
    BY <1>10 DEF Bootstrap, Begin, Repair, AppendExecution, Collect, Stop, Retry, RequestStop, Fail,
                 Goto, disk
  <2> QED BY <1>2, <1>3, <2>1 DEF FilesInv
<1> QED BY <1>4, <1>5, <1>6, <1>7, <1>8, <1>9, <1>10 DEF Next, Cycle

\* The event under way.
LEMMA EventStays ==
  ASSUME Inv, [Next]_vars
  PROVE  EventInv'
<1> USE DEF Inv, RunnerInv
<1>1. CASE UNCHANGED vars
  BY <1>1 DEF vars, EventInv
<1>2. CASE Mark
  BY <1>2, ExitEffect DEF Mark, Goto, EventInv
<1>3. CASE ProcessSignal
  <2>1. target <= now
    BY <1>3 DEF ProcessSignal, Goto, BarInv, Working
  <2> QED BY <1>3, <2>1, ExitEffect, EnterEffect DEF ProcessSignal, Goto, EventInv
<1>4. CASE Tick \/ RequestStop
  BY <1>4 DEF Tick, RequestStop, EventInv
<1>5. CASE Next /\ ~(Mark \/ ProcessSignal \/ Tick \/ RequestStop)
  <2>1. pc' \notin {"logMark", "logSignal"}
    BY <1>5 DEF Next, Cycle, Start, Bootstrap, Begin, Repair, AppendExecution, Decide, WriteState,
                WriteReports, Collect, Stop, Retry, Fail, Die, Goto
  <2> QED BY <2>1 DEF EventInv
<1> QED BY <1>1, <1>2, <1>3, <1>4, <1>5

\* The bar under way.
LEMMA BarStays ==
  ASSUME Inv, [Next]_vars
  PROVE  BarInv'
<1> USE DEF Inv, RunnerInv
<1>0. now \in Int /\ target \in Int /\ mem \in States
  BY SMT DEF TypeOK, Times
<1>1. CASE UNCHANGED vars
  BY <1>1 DEF vars, BarInv, Handled
<1>2. CASE Tick
  <2>1. now <= now' /\ now' \in Int
    BY <1>0, <1>2, SMT DEF Tick, TypeOK, Times
  <2> QED BY <1>0, <1>2, <2>1 DEF Tick, BarInv, Handled
<1>3. CASE Begin
  BY <1>0, <1>3 DEF Begin, BarInv, Working, Handled
<1>4. CASE Mark \/ ProcessSignal
  <2>1. pc \in Working /\ target' = target /\ now' = now
    BY <1>4 DEF Mark, ProcessSignal, Goto, Working
  <2>2. mem'.last = mem.last
    BY <1>4, <2>1, ExitEffect, EnterEffect DEF Mark, ProcessSignal, Unmoved, BarInv, ExitsIn, EntersIn
  <2> QED BY <2>1, <2>2 DEF BarInv, Handled
<1>5. CASE Repair \/ AppendExecution \/ RequestStop
  <2>1. (pc' \in Working => pc \in Working) /\ target' = target /\ now' = now /\ mem' = mem
    BY <1>5 DEF Repair, AppendExecution, RequestStop, Goto, Working
  <2> QED BY <2>1 DEF BarInv, Handled
<1>6. CASE Next /\ ~(Tick \/ Begin \/ Mark \/ ProcessSignal \/ Repair \/ AppendExecution \/ RequestStop)
  <2>1. pc' \notin Working
    BY <1>6 DEF Next, Cycle, Start, Bootstrap, Decide, WriteState,
                WriteReports, Collect, Stop, Retry, Fail, Die, Goto, Working
  <2> QED BY <2>1 DEF BarInv
<1> QED BY <1>1, <1>2, <1>3, <1>4, <1>5, <1>6

\* The multiples of Slot follow one another at the distance of Slot.
LEMMA AlignedNext ==
  ASSUME NEW t \in Nat, Aligned(t)
  PROVE  Aligned(t + Slot)
<1>1. PICK k \in 0 .. t : t = k * Slot
  BY DEF Aligned
<1>2. k \in Nat /\ Slot \in Nat /\ Slot > 0
  BY RunnerAssumption, SMT
<1>3. (k + 1) * Slot = t + Slot /\ k + 1 \in 0 .. t + Slot
  BY <1>1, <1>2, SMT
<1> QED BY <1>3 DEF Aligned

LEMMA NothingBetween ==
  ASSUME NEW s \in Nat, NEW t \in Nat, Aligned(s), Aligned(t), t < s
  PROVE  t + Slot <= s
<1>1. PICK j \in 0 .. t : t = j * Slot
  BY DEF Aligned
<1>2. PICK k \in 0 .. s : s = k * Slot
  BY DEF Aligned
<1>3. j \in Int /\ k \in Int /\ Slot \in Int /\ Slot > 0
  BY RunnerAssumption, SMT
<1>4. j < k
  BY <1>1, <1>2, <1>3, SMT
<1>5. j * Slot + Slot <= k * Slot
  BY <1>3, <1>4, SMT
<1> QED BY <1>1, <1>2, <1>5

\* The targets.
LEMMA TargetStays ==
  ASSUME Inv, [Next]_vars
  PROVE  TargetInv'
<1> USE DEF Inv, RunnerInv
<1>0. /\ target \in Nat /\ mem \in States /\ mem.last \in Signals \union {None}
      /\ now \in Times /\ Slot \in Nat /\ Slot > 0
  BY RunnerAssumption, SMT DEF TypeOK, States
<1>1. CASE UNCHANGED vars
  BY <1>1 DEF vars, TargetInv, Looping
<1>2. CASE Tick \/ RequestStop
  BY <1>2 DEF Tick, RequestStop, TargetInv, Looping
<1>3. CASE Start \/ Die
  <2>1. pc' \in {"down", "boot"}
    BY <1>3 DEF Start, Die, Goto
  <2> QED BY <2>1 DEF TargetInv, Looping
<1>4. CASE Bootstrap
  <2>1. pc' = "state" /\ route' = "boot"
    BY <1>4 DEF Bootstrap, Goto
  <2>2. ~Looping' /\ route' \notin {"cycle", "late", "stale"} /\ pc' # "collect" /\ route' # None
    BY <2>1, RunnerAssumption DEF Looping
  <2> QED BY <2>2 DEF TargetInv
<1>5. CASE Begin
  <2>1. Aligned(target) /\ (mem.last # None => target \in {mem.last, mem.last + Slot})
    BY <1>5 DEF Begin, TargetInv, Looping
  <2>2. Handled(mem, target) => mem.last = target
    BY <1>0, <2>1, NoneAssumption, SMT DEF Handled, Signals, Times
  <2>3. /\ target' = target /\ mem' = mem /\ pc' # "collect"
        /\ pc' \in {"state", "reports"} => Handled(mem, target)
        /\ route' \in {"stale", "late", "cycle"}
    BY <1>5 DEF Begin
  <2>4. route' # None
    BY <2>3, RunnerAssumption
  <2> QED BY <2>1, <2>2, <2>3, <2>4 DEF TargetInv
<1>6. CASE Mark \/ ProcessSignal
  <2>1. /\ pc \in Working /\ target' = target /\ route' = route
        /\ pc' \in Working
    BY <1>6 DEF Mark, ProcessSignal, Goto, Working
  <2>2. mem'.last = mem.last
    BY <1>6, <2>1, ExitEffect, EnterEffect DEF Mark, ProcessSignal, Unmoved, BarInv, ExitsIn, EntersIn
  <2> QED BY <2>1, <2>2 DEF TargetInv, Looping, Working
<1>7. CASE Repair \/ AppendExecution \/ Retry \/ Fail
  <2>1. /\ pc \notin {"down", "boot"} /\ pc' \in Working \union {"wait", "error"}
        /\ target' = target /\ mem' = mem /\ route' = route
        /\ pc \in {"state", "reports"} => route # "boot"
    BY <1>7 DEF Repair, AppendExecution, Retry, Fail, Goto, Working, Fallible
  <2> QED BY <2>1 DEF TargetInv, Looping, Working
<1>8. CASE Decide
  <2>1. /\ mem'.last = target /\ target' = target /\ route' = route
        /\ pc \in {"decide", "skip"} /\ pc' = "state"
    BY <1>0, <1>8, StateFields DEF Decide, Goto
  <2> QED BY <2>1 DEF TargetInv, Looping
<1>9. CASE WriteState
  <2>1. /\ pc = "state" /\ pc' = "reports" /\ target' = target /\ route' = route
        /\ mem' = mem
    BY <1>9 DEF WriteState, Goto
  <2> QED BY <2>1 DEF TargetInv, Looping
<1>10. CASE Stop
  <2>1. /\ pc = "wait" /\ pc' = "state" /\ route' = "stop"
        /\ target' = target /\ mem' = mem
    BY <1>10 DEF Stop, Goto
  <2>2. route' \notin {"cycle", "late", "stale"} /\ pc' # "collect" /\ route' # None
    BY <2>1, RunnerAssumption
  <2> QED BY <2>1, <2>2 DEF TargetInv, Looping
<1>11. CASE Collect
  <2>1. mem.last = target /\ Aligned(target) /\ route = "cycle"
    BY <1>11 DEF Collect, Goto, TargetInv, Looping
  <2>2. Aligned(target + Slot)
    BY <1>0, <2>1, AlignedNext
  <2> QED BY <1>11, <2>1, <2>2 DEF Collect, Goto, TargetInv, Looping
<1>12. CASE WriteReports
  <2>1. pc = "reports" /\ mem' = mem /\ (route # "stop" => route' = route) /\ route # None
    BY <1>12 DEF WriteReports, TargetInv
  <2>2. CASE route = "boot" /\ mem.last # None
    <3>1. target' = mem.last + Slot /\ pc' = "wait"
      BY <1>12, <2>2 DEF WriteReports, NextTarget
    <3>2. Aligned(mem.last + Slot)
      BY <1>0, <2>2, AlignedNext, SMT DEF Signals, Times
    <3> QED BY <2>1, <2>2, <3>1, <3>2 DEF TargetInv, Looping
  <2>3. CASE route = "boot" /\ mem.last = None
    <3>1. target' = Boundary(now) + Slot /\ pc' = "wait"
      BY <1>12, <2>3 DEF WriteReports, NextTarget
    <3> QED BY <1>0, <2>1, <2>3, <3>1, BoundaryTypes DEF TargetInv, Looping
  <2>4. CASE route \in {"late", "stale"}
    <3>1. target' = target + Slot /\ pc' = "wait"
      BY <1>12, <2>4 DEF WriteReports, NextTarget
    <3>2. mem.last = target /\ Aligned(target)
      BY <2>1, <2>4 DEF TargetInv, Looping
    <3>3. Aligned(target + Slot)
      BY <1>0, <3>2, AlignedNext
    <3> QED BY <2>1, <2>4, <3>1, <3>2, <3>3 DEF TargetInv, Looping
  <2>5. CASE route = "cycle"
    <3>1. target' = target /\ pc' = "collect"
      BY <1>12, <2>5 DEF WriteReports, NextTarget
    <3> QED BY <2>1, <2>5, <3>1 DEF TargetInv, Looping
  <2>6. CASE route = "stop"
    <3>1. pc' = "down"
      BY <1>12, <2>6 DEF WriteReports
    <3> QED BY <2>1, <2>6, <3>1 DEF TargetInv, Looping
  <2>7. route \in {"boot", "late", "stale", "cycle", "stop"}
    BY <2>1 DEF TypeOK
  <2> QED BY <2>2, <2>3, <2>4, <2>5, <2>6, <2>7
<1> QED BY <1>1, <1>2, <1>3, <1>4, <1>5, <1>6, <1>7, <1>8, <1>9, <1>10, <1>11, <1>12
        DEF Next, Cycle

-----------------------------------------------------------------------------
\* The decisions.  What counts of a bar, that it was decided, is never lost.
LEMMA DecisionsStay ==
  ASSUME Inv, [Next]_vars
  PROVE  \A s \in Signals : log.decided[s] > 0 => log'.decided[s] > 0
<1> USE DEF Inv, RunnerInv
<1>1. CASE Decide
  <2>1. log'.decided = [log.decided EXCEPT ![target] = @ + 1]
    BY <1>1 DEF Decide, TypeOK
  <2>2. \A s \in Signals : log.decided[s] \in Nat
    BY DEF TypeOK
  <2> QED BY <2>1, <2>2 DEF TypeOK
<1>2. CASE AppendExecution
  BY <1>2 DEF AppendExecution, Logged, TypeOK
<1>3. CASE [Next]_vars /\ ~Decide /\ ~AppendExecution
  <2>1. log' = log
    BY <1>3 DEF Next, Cycle, Tick, Start, Bootstrap, Begin, Repair, Mark, ProcessSignal, WriteState,
                WriteReports, Collect, Stop, Retry, RequestStop, Fail, Die, vars, disk
  <2> QED BY <2>1
<1> QED BY <1>1, <1>2, <1>3

\* What DecidedUpTo says of a bar stays true while first stays.
LEMMA DecidedUpToStays ==
  ASSUME Inv, [Next]_vars, first' = first, NEW x \in Signals, DecidedUpTo(x)
  PROVE  DecidedUpTo(x)'
BY DecisionsStay DEF DecidedUpTo

LEMMA DecidedStays ==
  ASSUME Inv, [Next]_vars
  PROVE  DecidedInv'
<1> USE DEF Inv, RunnerInv
<1>0. /\ mem \in States /\ file \in States /\ mem.last \in Signals \union {None}
      /\ file.last \in Signals \union {None} /\ first \in Signals \union {None}
  BY DEF TypeOK, States
<1>1. CASE WriteState
  <2>1. /\ file' = mem /\ mem' = mem /\ log' = log
        /\ first' = IF first = None THEN mem.last ELSE first
    BY <1>1 DEF WriteState
  <2>2. CASE mem.last = None
    <3>1. file.last = None
      BY <2>2 DEF FilesInv, Behind, Handled
    <3> QED BY <2>1, <2>2, <3>1 DEF DecidedInv
  <2>3. CASE mem.last # None
    <3>1. DecidedUpTo(mem.last)
      BY <2>3 DEF DecidedInv
    <3>2. CASE first = None
      <4>1. \A s \in Signals : mem.last <= s /\ s <= mem.last => s = mem.last
        BY <1>0, <2>3, SMT DEF Signals, Times
      <4>2. mem.last <= mem.last
        BY <1>0, <2>3, SMT DEF Signals, Times
      <4>3. DecidedUpTo(mem.last)'
        BY <2>1, <3>1, <3>2, <4>1, <4>2 DEF DecidedUpTo
      <4> QED BY <2>1, <2>3, <3>2, <4>3 DEF DecidedInv, DecidedUpTo
    <3>3. CASE first # None
      BY <2>1, <2>3, <3>1, <3>3 DEF DecidedInv, DecidedUpTo
    <3> QED BY <3>2, <3>3
  <2> QED BY <2>2, <2>3
<1>2. CASE Decide
  <2>1. /\ mem'.last = target /\ file' = file /\ first' = first /\ pc \in {"decide", "skip"}
        /\ log'.decided = [log.decided EXCEPT ![target] = @ + 1]
    BY <1>0, <1>2, StateFields DEF Decide, Goto, TypeOK
  <2>2. ~Handled(mem, target) /\ Aligned(target) /\ target <= now
        /\ (mem.last # None => target \in {mem.last, mem.last + Slot})
    BY <2>1 DEF BarInv, Working, TargetInv, Looping
  <2>3. target \in Signals
    BY <2>2, LedgerAssumption, SMT DEF TypeOK, Times, Signals
  <2>4. log'.decided[target] > 0
    BY <2>1, <2>3 DEF TypeOK
  <2>5. ASSUME first # None
        PROVE  /\ first <= target
               /\ \A s \in Signals : first <= s /\ s <= target => log'.decided[s] > 0
    <3>1. file.last # None /\ mem.last # None
      BY <2>5 DEF DecidedInv, FilesInv, Behind, Handled
    <3>2. mem.last \in Nat /\ target \in Nat /\ first \in Nat /\ Aligned(mem.last)
          /\ Slot \in Nat /\ Slot > 0
      BY <1>0, <2>3, <2>5, <3>1, RunnerAssumption, SMT DEF Signals, Times
    <3>3. target = mem.last + Slot
      BY <2>2, <3>1, <3>2, SMT DEF Handled
    <3>4. /\ first <= mem.last
          /\ \A s \in Signals : first <= s /\ s <= mem.last => log.decided[s] > 0
      BY <2>5, <3>1 DEF DecidedInv, DecidedUpTo
    <3>5. ASSUME NEW s \in Signals, first <= s, s <= target PROVE log'.decided[s] > 0
      <4>1. s \in Nat /\ Aligned(s)
        BY SMT DEF Signals, Times
      <4>2. CASE s <= mem.last
        BY <3>4, <3>5, <4>2, DecisionsStay
      <4>3. CASE ~(s <= mem.last)
        <5>1. mem.last + Slot <= s
          BY <3>2, <4>1, <4>3, NothingBetween, SMT
        <5>2. s = target
          BY <3>2, <3>3, <3>5, <4>1, <5>1, SMT
        <5> QED BY <2>4, <5>2
      <4> QED BY <4>2, <4>3
    <3>6. first <= target
      BY <3>2, <3>3, <3>4, SMT
    <3> QED BY <3>5, <3>6
  <2>6. DecidedUpTo(mem.last)'
    BY <2>1, <2>4, <2>5 DEF DecidedUpTo
  <2>7. file.last # None => DecidedUpTo(file.last)'
    BY <1>0, <2>1, DecidedUpToStays DEF DecidedInv
  <2> QED BY <2>1, <2>6, <2>7 DEF DecidedInv, DecidedUpTo
<1>3. CASE [Next]_vars /\ ~WriteState /\ ~Decide
  <2>1. first' = first /\ file' = file
    BY <1>3 DEF Next, Cycle, Tick, Start, Bootstrap, Begin, Repair, Mark, ProcessSignal,
                AppendExecution, WriteReports, Collect, Stop, Retry, RequestStop, Fail, Die, vars, disk
  <2>2. mem'.last \in {mem.last, file.last}
    <3>1. pc = "signal" => target <= now
      BY DEF BarInv, Working
    <3>2. CASE Mark \/ ProcessSignal
      BY <3>1, <3>2, ExitEffect, EnterEffect DEF Mark, ProcessSignal, Goto, Unmoved, ExitsIn, EntersIn
    <3>3. CASE ~Mark /\ ~ProcessSignal
      BY <1>3, <3>3 DEF Next, Cycle, Tick, Start, Bootstrap, Begin, Repair, AppendExecution,
                WriteReports, Collect, Stop, Retry, RequestStop, Fail, Die, vars, disk
    <3> QED BY <3>2, <3>3
  <2>3. \A x \in Signals : DecidedUpTo(x) => DecidedUpTo(x)'
    BY <2>1, DecidedUpToStays
  <2>4. \A x \in {mem.last, file.last} : x # None => x \in Signals /\ DecidedUpTo(x)
    BY <1>0 DEF DecidedInv
  <2> QED BY <2>1, <2>2, <2>3, <2>4 DEF DecidedInv, DecidedUpTo
<1> QED BY <1>1, <1>2, <1>3

-----------------------------------------------------------------------------
LEMMA FreshTypes == Fresh \in States /\ EmptyLedger \in Ledgers
<1>1. EmptyLedger \in Ledgers
  BY DEF EmptyLedger, Ledgers
<1> QED BY <1>1 DEF Fresh, States

LEMMA InitInv == Init => Inv
<1> SUFFICES ASSUME Init PROVE Inv
  OBVIOUS
<1>1. /\ mem = Fresh /\ file = Fresh /\ status = Fresh /\ Fresh \in States
      /\ Fresh.ledger = EmptyLedger /\ Fresh.last = None
  BY FreshTypes DEF Init, Fresh
<1>2. now \in Times /\ 0 \in 0 .. MaxErrors /\ 0 \in 0 .. MaxDeaths
  BY LedgerAssumption, RunnerAssumption, SMT DEF Init, Times
<1>3. log \in [decided : [Signals -> Nat], skipped : SUBSET Signals,
               entries : SUBSET OpenOrders, exits : SUBSET ClosedOrders]
  BY DEF Init
<1>4. TypeOK
  BY <1>1, <1>2, <1>3 DEF Init, TypeOK, Points
<1>5. FilesInv
  BY <1>1, BehindItself DEF Init, FilesInv
<1>6. EventInv /\ BarInv /\ TargetInv
  BY DEF Init, EventInv, BarInv, Working, TargetInv, Looping
<1>7. DecidedInv
  BY <1>1 DEF Init, DecidedInv
<1>8. Memory!LedgerInv /\ File!LedgerInv
  BY <1>1, <1>2, MemoryInit, FileInit
<1> QED BY <1>4, <1>5, <1>6, <1>7, <1>8 DEF Inv, RunnerInv

LEMMA NextInv == Inv /\ [Next]_vars => Inv'
BY TypesInv, FilesStayInOrder, EventStays, BarStays, TargetStays, DecidedStays, LedgersInv
   DEF Inv, RunnerInv

THEOREM RunnerInvariant == Spec => []Inv
BY InitInv, NextInv, PTL DEF Spec

\* The process and its files keep their types.
THEOREM RunnerTypes == Spec => []TypeOK
BY RunnerInvariant, PTL DEF Inv, RunnerInv

\* The checkpoint obeys the rules of the ledger through crashes, errors and
\* stops at any point.
THEOREM CheckpointsObeyRules == Spec => []CheckpointObeysRules
<1>1. Inv => CheckpointObeysRules
  <2> SUFFICES ASSUME Inv PROVE CheckpointObeysRules
    OBVIOUS
  <2>1. File!RoundTripsApart /\ File!EntryBudgetKept
    BY DEF Inv, File!LedgerInv, File!Sound, File!RoundTripsApart, File!EntryBudgetKept
  <2> DEFINE l == file.ledger
  <2>2. Checkpoint!RoundTripsApart
    BY <2>1 DEF File!RoundTripsApart, File!Apart, Checkpoint!RoundTripsApart, Checkpoint!Apart
  <2>3. ASSUME NEW d
        PROVE  /\ File!Cardinality(File!TripsOn(l, d)) = Checkpoint!Cardinality(Checkpoint!TripsOn(l, d))
               /\ File!OpenOn(l, d) = Checkpoint!OpenOn(l, d)
    <3>1. File!TripsOn(l, d) = Checkpoint!TripsOn(l, d) /\ File!OpenOn(l, d) = Checkpoint!OpenOn(l, d)
      BY DEF File!TripsOn, File!OpenOn, Checkpoint!TripsOn, Checkpoint!OpenOn,
             File!Day, Checkpoint!Day
    <3>2. ASSUME NEW S PROVE File!Cardinality(S) = Checkpoint!Cardinality(S)
      BY DEF File!Cardinality, Checkpoint!Cardinality
    <3> QED BY <3>1, <3>2
  <2>4. Checkpoint!EntryBudgetKept
    BY <2>1, <2>3 DEF File!EntryBudgetKept, Checkpoint!EntryBudgetKept, File!WithinBudget,
       Checkpoint!WithinBudget, File!Days, Checkpoint!Days,
       File!Day, Checkpoint!Day, File!Times, Checkpoint!Times
  <2> QED BY <2>2, <2>4 DEF CheckpointObeysRules
<1> QED BY <1>1, RunnerInvariant, PTL

\* The status report shows no bar and no trade that the checkpoint lacks.
THEOREM StatusStaysBehind == Spec => []StatusNeverAhead
<1>1. Inv => StatusNeverAhead
  BY DEF Inv, RunnerInv, FilesInv, Behind, StatusNeverAhead
<1> QED BY <1>1, RunnerInvariant, PTL

\* No bar between the first checkpointed one and the last is left undecided.
THEOREM BarsAreDecided == Spec => []EveryBarIsDecided
<1>1. Inv => EveryBarIsDecided
  BY DEF Inv, RunnerInv, DecidedInv, DecidedUpTo, EveryBarIsDecided
<1> QED BY <1>1, RunnerInvariant, PTL

\* No checkpoint forgets a closed trade, a handled bar or an entry of a day.
THEOREM CheckpointsGoForward == Spec => CheckpointNeverRegresses
<1>1. Inv /\ [Next]_vars =>
        [/\ file.ledger.done \subseteq file'.ledger.done
         /\ file.last # None => Handled(file', file.last)
         /\ \A d \in Days : file.ledger.entries[d] <= file'.ledger.entries[d]]_vars
  BY FilesStayInOrder DEF Behind
<1> QED BY <1>1, RunnerInvariant, PTL DEF Spec, CheckpointNeverRegresses

-----------------------------------------------------------------------------
(***************************************************************************)
(* Decisions repeat only after deaths: the memory is at most one bar ahead *)
(* of the checkpoint, so that a death forgets at most one decision.        *)
(***************************************************************************)
\* A bar ends after every instant in it.
LEMMA TimeWithinBar ==
  ASSUME NEW t \in Times
  PROVE  t < Boundary(t) + Slot
<1>1. t \in Nat /\ Slot \in Nat /\ Slot > 0
  BY LedgerAssumption, RunnerAssumption, SMT DEF Times
<1>2. t % Slot < Slot /\ t = Slot * (t \div Slot) + (t % Slot)
  BY <1>1, SMT
<1>3. t \div Slot \in Int /\ t % Slot \in Int
  BY <1>1, SMT
<1>4. Slot * (t \div Slot) = (t \div Slot) * Slot
  BY <1>1, <1>3, SMT
<1> QED BY <1>1, <1>2, <1>3, <1>4, SMT DEF Boundary

\* The decisions that are repetitions, and one decision more.
LEMMA RepeatedMembers ==
  ASSUME NEW p
  PROVE  p \in Repeated <=> \E s \in Signals : \E k \in 2 .. log.decided[s] : p = <<s, k>>
BY DEF Repeated

LEMMA RepeatedGrows ==
  ASSUME NEW t \in Signals, log.decided \in [Signals -> Nat],
         log'.decided = [log.decided EXCEPT ![t] = @ + 1], IsFiniteSet(Repeated)
  PROVE  /\ IsFiniteSet(Repeated')
         /\ Repeats' = Repeats + (IF log.decided[t] > 0 THEN 1 ELSE 0)
<1> DEFINE n == log.decided[t]
<1>1. n \in Nat /\ \A s \in Signals : log.decided[s] \in Nat
  OBVIOUS
<1>2. \A s \in Signals : log'.decided[s] = IF s = t THEN n + 1 ELSE log.decided[s]
  OBVIOUS
<1>3. ASSUME NEW p
      PROVE  p \in Repeated' <=> \E s \in Signals : \E k \in 2 .. log'.decided[s] : p = <<s, k>>
  BY DEF Repeated
<1>4. CASE n = 0
  <2>1. \A s \in Signals : 2 .. log'.decided[s] = 2 .. log.decided[s]
    BY <1>1, <1>2, <1>4
  <2>2. Repeated' = Repeated
    BY <2>1 DEF Repeated
  <2>3. Cardinality(Repeated) \in Nat
    BY FS_CardinalityType
  <2> QED BY <1>4, <2>2, <2>3 DEF Repeats
<1>5. CASE n > 0
  <2>1. ASSUME NEW p PROVE p \in Repeated' <=> p \in Repeated \union {<<t, n + 1>>}
    <3>1. ASSUME NEW s \in Signals, NEW k
          PROVE  k \in 2 .. log'.decided[s] <=>
                   (k \in 2 .. log.decided[s] \/ (s = t /\ k = n + 1))
      <4>1. CASE s = t
        BY <1>1, <1>2, <1>5, <4>1
      <4>2. CASE s # t
        BY <1>2, <4>2
      <4> QED BY <4>1, <4>2
    <3> HIDE DEF n
    <3> QED BY <1>3, <3>1, RepeatedMembers
  <2>2. Repeated' = Repeated \union {<<t, n + 1>>}
    BY <2>1
  <2>3. <<t, n + 1>> \notin Repeated
    <3>1. ASSUME NEW s \in Signals, NEW k \in 2 .. log.decided[s], <<t, n + 1>> = <<s, k>> PROVE FALSE
      BY <1>1, <3>1
    <3> QED BY <3>1, RepeatedMembers
  <2> DEFINE R == Repeated
  <2> HIDE DEF R, n
  <2>4. IsFiniteSet(R \union {<<t, n + 1>>}) /\ Cardinality(R \union {<<t, n + 1>>}) = Cardinality(R) + 1
    BY <2>3, FS_AddElement DEF R
  <2> QED BY <1>5, <2>2, <2>4 DEF Repeats, R, n
<1> QED BY <1>1, <1>4, <1>5

\* What the other steps leave alone.
LEMMA NoDecision ==
  ASSUME Inv, [Next]_vars, ~Decide
  PROVE  log'.decided = log.decided /\ log'.skipped = log.skipped
<1> USE DEF Inv, RunnerInv
<1>1. CASE AppendExecution
  BY <1>1 DEF AppendExecution, Logged, TypeOK
<1>2. CASE ~AppendExecution
  <2>1. log' = log
    BY <1>2 DEF Next, Cycle, Tick, Start, Bootstrap, Begin, Repair, Mark, ProcessSignal, WriteState,
                WriteReports, Collect, Stop, Retry, RequestStop, Fail, Die, vars, disk
  <2> QED BY <2>1
<1> QED BY <1>1, <1>2

LEMMA MarkKeepsLast ==
  ASSUME Inv, Mark \/ ProcessSignal
  PROVE  mem'.last = mem.last
BY ExitEffect, EnterEffect DEF Inv, RunnerInv, Mark, ProcessSignal, Goto, Unmoved, BarInv, Working,
   ExitsIn, EntersIn

LEMMA DecisionEffect ==
  ASSUME Inv, DecisionInv, Decide
  PROVE  /\ target \in Signals /\ target <= now /\ ~Handled(mem, target)
         /\ mem'.last = target /\ mem.last = file.last /\ file' = file
         /\ mem.last # None => target = mem.last + Slot
         /\ log'.decided = [log.decided EXCEPT ![target] = @ + 1]
<1> USE DEF Inv, RunnerInv
<1>1. /\ pc \in {"decide", "skip"} /\ target <= now /\ ~Handled(mem, target)
      /\ Aligned(target) /\ target \in Nat
  BY DEF Decide, Goto, BarInv, Working, TargetInv, Looping, TypeOK
<1>2. target \in Signals
  BY <1>1, LedgerAssumption, SMT DEF TypeOK, Times, Signals
<1>3. mem'.last = target /\ file' = file
  BY StateFields DEF Decide, TypeOK
<1>4. mem.last = file.last
  BY <1>1 DEF DecisionInv, OneBarAhead, Working
<1>5. mem.last # None => target = mem.last + Slot
  <2>1. mem.last # None => mem.last \in Nat /\ target \in {mem.last, mem.last + Slot}
    BY <1>1 DEF TargetInv, Looping, TypeOK, States, Signals, Times
  <2> QED BY <1>1, <2>1, SMT DEF Handled
<1>6. log'.decided = [log.decided EXCEPT ![target] = @ + 1]
  BY DEF Decide, TypeOK
<1> QED BY <1>1, <1>2, <1>3, <1>4, <1>5, <1>6

\* The memory is one bar ahead of the checkpoint at most.
LEMMA OneBarAheadStays ==
  ASSUME Inv, RouteInv, DecisionInv, [Next]_vars
  PROVE  OneBarAhead'
<1> USE DEF Inv, RunnerInv, DecisionInv
<1>1. CASE UNCHANGED vars \/ Tick \/ RequestStop
  BY <1>1 DEF vars, disk, Tick, RequestStop, OneBarAhead, Looping
<1>2. CASE Start \/ Die
  <2>1. mem' = file /\ file' = file /\ pc' \in {"boot", "down"}
    BY <1>2 DEF Start, Die, Goto, disk
  <2> QED BY <2>1 DEF OneBarAhead, Working
<1>3. CASE Bootstrap
  <2>1. pc = "boot" /\ mem' = mem /\ file' = file /\ pc' = "state" /\ route' = "boot"
    BY <1>3 DEF Bootstrap, Goto, disk
  <2> QED BY <2>1 DEF OneBarAhead, Working
<1>4. CASE Begin
  <2>1. /\ pc = "wait" /\ target' = target /\ mem' = mem /\ file' = file
        /\ pc' \in {"state", "skip", "repair"} /\ route' \in {"stale", "late", "cycle"}
        /\ pc' = "state" \/ ~Handled(mem, target)
    BY <1>4 DEF Begin, disk
  <2>2. mem.last # file.last => target = mem.last /\ Handled(mem, mem.last)
    <3>1. mem.last # file.last => target = mem.last
      BY <2>1 DEF OneBarAhead, Looping
    <3>2. mem.last # file.last => mem.last # None
      BY DEF FilesInv, Behind, Handled
    <3> QED BY <3>1, <3>2, SMT DEF Handled, TypeOK
  <2>3. route' # "boot" /\ Looping
    BY <2>1 DEF Looping
  <2> QED BY <2>1, <2>2, <2>3 DEF OneBarAhead, Working
<1>5. CASE Mark \/ ProcessSignal \/ Repair \/ AppendExecution
  <2>1. pc \in Working /\ pc' \in Working /\ file' = file /\ mem'.last = mem.last
    BY <1>5, MarkKeepsLast DEF Mark, ProcessSignal, Repair, AppendExecution, Goto, Working, disk
  <2>2. mem'.last = file'.last
    BY <2>1 DEF OneBarAhead
  <2> QED BY <2>1, <2>2 DEF OneBarAhead, Working
<1>6. CASE Decide
  <2>1. mem'.last = target /\ target' = target /\ file' = file /\ mem.last = file.last
        /\ (mem.last # None => target = mem.last + Slot)
    BY <1>6, DecisionEffect DEF Decide
  <2>2. pc \in {"decide", "skip"} /\ pc' = "state" /\ route' = route
    BY <1>6 DEF Decide, Goto
  <2>3. route # "boot"
    BY <2>2 DEF RouteInv, Working
  <2> QED BY <2>1, <2>2, <2>3 DEF OneBarAhead, Working
<1>7. CASE WriteState
  <2>1. mem' = mem /\ file' = mem /\ pc' = "reports"
    BY <1>7 DEF WriteState, Goto
  <2> QED BY <2>1 DEF OneBarAhead, Working
<1>8. CASE WriteReports \/ Collect
  <2>1. mem = file /\ mem' = mem /\ file' = file /\ pc' \in {"down", "collect", "wait"}
    BY <1>8 DEF WriteReports, Collect, Goto, FilesInv, disk
  <2> QED BY <2>1 DEF OneBarAhead, Working
<1>9. CASE Stop \/ Retry \/ Fail
  <2>1. /\ mem' = mem /\ file' = file /\ target' = target /\ Looping
        /\ pc' \in {"state", "wait", "error"} /\ (pc' = "state" => route' = "stop")
    BY <1>9 DEF Stop, Retry, Fail, Fallible, Goto, Looping, disk
  <2> QED BY <2>1 DEF OneBarAhead, Working
<1> QED BY <1>1, <1>2, <1>3, <1>4, <1>5, <1>6, <1>7, <1>8, <1>9 DEF Next, Cycle

\* The route of the bar under way.
LEMMA RouteStays ==
  ASSUME RouteInv, [Next]_vars
  PROVE  RouteInv'
<1>1. CASE UNCHANGED vars \/ Tick \/ RequestStop
  BY <1>1 DEF vars, Tick, RequestStop, RouteInv
<1>2. CASE Begin
  BY <1>2 DEF Begin, RouteInv, Working
<1>3. CASE Mark \/ ProcessSignal \/ Repair \/ AppendExecution
  <2>1. pc \in Working \ {"skip"} /\ route' = route
    BY <1>3 DEF Mark, ProcessSignal, Repair, AppendExecution, Goto, Working
  <2> QED BY <2>1 DEF RouteInv, Working
<1>4. CASE Next /\ ~(Tick \/ Begin \/ Mark \/ ProcessSignal \/ Repair \/ AppendExecution \/ RequestStop)
  <2>1. pc' \notin Working
    BY <1>4 DEF Next, Cycle, Start, Bootstrap, Decide, WriteState,
                WriteReports, Collect, Stop, Retry, Fail, Die, Goto, Working
  <2> QED BY <2>1 DEF RouteInv
<1> QED BY <1>1, <1>2, <1>3, <1>4

\* The decisions stay behind the clock, the checkpoint and the next target.
LEMMA DecisionsBoundedStays ==
  ASSUME Inv, RouteInv, DecisionInv, [Next]_vars
  PROVE  DecisionsBounded'
<1> USE DEF Inv, RunnerInv, DecisionInv
<1>0. /\ now \in Int /\ target \in Int /\ Slot \in Nat /\ Slot > 0
      /\ mem.last \in Signals \union {None} /\ file.last \in Signals \union {None}
      /\ \A s \in Signals : s \in Int /\ s # None
  BY RunnerAssumption, NoneAssumption, SMT DEF TypeOK, States, Times, Signals
<1>1. CASE UNCHANGED vars
  BY <1>1 DEF vars, disk, DecisionsBounded, Looping
<1>2. CASE Tick
  <2>1. now <= now' /\ now' \in Int
    BY <1>0, <1>2, SMT DEF Tick, TypeOK, Times
  <2>2. UNCHANGED <<log, mem, file, target, pc, route>>
    BY <1>2 DEF Tick, disk
  <2>3. ASSUME NEW s \in Signals, s <= now PROVE s <= now'
    BY <1>0, <2>1, <2>3, SMT
  <2> QED BY <2>2, <2>3 DEF DecisionsBounded, Looping
<1>3. CASE Decide
  <2>1. /\ target \in Signals /\ target <= now
        /\ mem'.last = target /\ mem.last = file.last /\ file' = file
        /\ mem.last # None => target = mem.last + Slot
        /\ log'.decided = [log.decided EXCEPT ![target] = @ + 1]
    BY <1>3, DecisionEffect
  <2>2. now' = now
    BY <1>3 DEF Decide
  <2>3. ASSUME NEW s \in Signals, log'.decided[s] > 0
        PROVE  s = target \/ (s # target /\ log.decided[s] > 0)
    BY <2>1, <2>3 DEF TypeOK
  <2>4. ASSUME NEW s \in Signals, log'.decided[s] > 0
        PROVE  s <= now /\ s <= target /\ (file.last # None => s <= file.last + Slot)
    <3>1. Looping
      BY <1>3 DEF Decide, Goto, Looping
    <3>2. CASE s = target
      BY <1>0, <2>1, <3>2, SMT
    <3>3. CASE s # target /\ log.decided[s] > 0
      <4>1. s <= now /\ (file.last # None => s <= file.last + Slot) /\ (mem.last = None => s < target)
        BY <3>1, <3>3 DEF DecisionsBounded
      <4> QED BY <1>0, <2>1, <4>1, SMT
    <3> QED BY <2>3, <2>4, <3>2, <3>3
  <2>5. mem'.last # None
    BY <1>0, <2>1
  <2> QED BY <2>1, <2>2, <2>4, <2>5 DEF DecisionsBounded
<1>4. CASE Start \/ Die
  <2>1. mem' = file /\ file' = file /\ now' = now /\ log' = log /\ pc' \in {"boot", "down"}
    BY <1>4 DEF Start, Die, Goto, disk
  <2> QED BY <2>1 DEF DecisionsBounded, Looping
<1>5. CASE WriteState
  <2>1. /\ file' = mem /\ mem' = mem /\ now' = now /\ log' = log /\ target' = target
        /\ Looping' => Looping
    BY <1>5 DEF WriteState, Goto, Looping
  <2>2. ASSUME NEW s \in Signals, log.decided[s] > 0, mem.last # None
        PROVE  s <= mem.last + Slot
    BY <1>0, <2>2, SMT DEF DecisionsBounded
  <2> QED BY <2>1, <2>2 DEF DecisionsBounded
<1>6. CASE WriteReports
  <2>1. mem' = mem /\ file' = file /\ now' = now /\ log' = log /\ mem = file /\ route # None
    BY <1>6 DEF WriteReports, FilesInv, TargetInv
  <2>2. ASSUME mem.last = None, Looping', NEW s \in Signals, log.decided[s] > 0
        PROVE  s < target'
    <3>1. pc = "reports" /\ route \in {"boot", "stop", "cycle", "late", "stale"}
      BY <1>6, <2>1 DEF WriteReports, TypeOK
    <3>2. route \notin {"cycle", "late", "stale"}
      BY <1>0, <2>2, <3>1, NoneAssumption DEF TargetInv, TypeOK
    <3>3. route # "stop"
      BY <1>6, <2>2, <3>1 DEF WriteReports, Looping
    <3>4. target' = Boundary(now) + Slot
      BY <1>6, <2>2, <3>1, <3>2, <3>3 DEF WriteReports, NextTarget
    <3>5. now < Boundary(now) + Slot
      BY TimeWithinBar DEF TypeOK
    <3>6. s <= now
      BY <2>2 DEF DecisionsBounded
    <3> QED BY <1>0, <3>4, <3>5, <3>6, BoundaryTypes, SMT DEF TypeOK
  <2> QED BY <2>1, <2>2 DEF DecisionsBounded
<1>7. CASE Collect
  <2>1. mem' = mem /\ file' = file /\ now' = now /\ log' = log /\ mem.last = target
    BY <1>7 DEF Collect, Goto, disk, TargetInv
  <2>2. mem.last # None
    BY <1>0, <2>1, NoneAssumption DEF TypeOK
  <2> QED BY <2>1, <2>2 DEF DecisionsBounded
<1>8. CASE Next /\ ~(Tick \/ Decide \/ Start \/ Die \/ WriteState \/ WriteReports \/ Collect)
  <2>1. log'.decided = log.decided
    BY <1>8, NoDecision
  <2>2. mem'.last = mem.last
    <3>1. CASE Mark \/ ProcessSignal
      BY <3>1, MarkKeepsLast
    <3>2. CASE ~Mark /\ ~ProcessSignal
      BY <1>8, <3>2 DEF Next, Cycle, Bootstrap, Begin, Repair, AppendExecution, Stop, Retry, RequestStop, Fail
    <3> QED BY <3>1, <3>2
  <2>3. /\ file' = file /\ now' = now /\ target' = target
        /\ Looping' => Looping
    BY <1>8 DEF Next, Cycle, Bootstrap, Begin, Repair, Mark, ProcessSignal, AppendExecution, Stop, Retry,
                RequestStop, Fail, Fallible, Goto, disk, Looping
  <2> QED BY <2>1, <2>2, <2>3 DEF DecisionsBounded
<1> QED BY <1>1, <1>2, <1>3, <1>4, <1>5, <1>6, <1>7, <1>8

\* The repetitions, one death for each.
LEMMA RepeatsHaveDeathsStays ==
  ASSUME Inv, RouteInv, DecisionInv, [Next]_vars
  PROVE  RepeatsHaveDeaths'
<1> USE DEF Inv, RunnerInv, DecisionInv
<1>0. /\ Repeats \in Nat /\ deaths \in Nat /\ Slot \in Nat /\ Slot > 0
      /\ mem.last \in Signals \union {None} /\ file.last \in Signals \union {None}
      /\ \A s \in Signals : s \in Int /\ s # None
  <2>1. Repeats \in Nat
    BY FS_CardinalityType DEF Repeats, RepeatsHaveDeaths
  <2>2. deaths \in Nat
    BY RunnerAssumption, SMT DEF TypeOK
  <2> QED BY <2>1, <2>2, RunnerAssumption, NoneAssumption, SMT DEF TypeOK, States, Times, Signals
<1>1. CASE Decide
  <2>1. /\ target \in Signals /\ ~Handled(mem, target)
        /\ mem'.last = target /\ mem.last = file.last /\ file' = file
        /\ mem.last # None => target = mem.last + Slot
        /\ log'.decided = [log.decided EXCEPT ![target] = @ + 1]
    BY <1>1, DecisionEffect
  <2>2. IsFiniteSet(Repeated') /\ Repeats' = Repeats + (IF log.decided[target] > 0 THEN 1 ELSE 0)
    BY <2>1, RepeatedGrows DEF TypeOK, RepeatsHaveDeaths
  <2>3. ~Forgotten'
    <3>1. ASSUME file.last # None, NEW s \in Signals, s = file.last + Slot PROVE Handled(mem', s)
      BY <1>0, <2>1, <3>1, SMT DEF Handled
    <3> QED BY <2>1, <3>1 DEF Forgotten
  <2>4. log.decided[target] > 0 => Forgotten
    <3>1. mem.last = None => ~(log.decided[target] > 0)
      <4>1. Looping
        BY <1>1 DEF Decide, Goto, Looping
      <4>2. log.decided[target] > 0 /\ mem.last = None => target < target
        BY <2>1, <4>1 DEF DecisionsBounded
      <4> QED BY <1>0, <2>1, <4>2, SMT
    <3> QED BY <2>1, <3>1 DEF Forgotten
  <2>5. deaths' = deaths
    BY <1>1 DEF Decide, faults
  <2> QED BY <1>0, <2>2, <2>3, <2>4, <2>5, SMT DEF RepeatsHaveDeaths
<1>2. CASE Die
  <2>1. log' = log /\ deaths' = deaths + 1
    BY <1>2 DEF Die, disk
  <2>2. Repeated' = Repeated /\ Repeats' = Repeats
    BY <2>1 DEF Repeated, Repeats
  <2>3. Repeats <= deaths
    BY <1>0, SMT DEF RepeatsHaveDeaths
  <2> QED BY <1>0, <2>1, <2>2, <2>3, SMT DEF RepeatsHaveDeaths
<1>3. CASE [Next]_vars /\ ~Decide /\ ~Die
  <2>1. log'.decided = log.decided
    BY <1>3, NoDecision DEF Decide, Goto, vars, disk
  <2>2. deaths' = deaths
    BY <1>3 DEF Next, Cycle, Tick, Start, Bootstrap, Begin, Repair, Mark, ProcessSignal, AppendExecution,
                WriteState, WriteReports, Collect, Stop, Retry, RequestStop, Fail, faults, vars
  <2>3. Repeated' = Repeated /\ Repeats' = Repeats
    BY <2>1 DEF Repeated, Repeats
  <2>4. Forgotten' => Forgotten
    <3>1. CASE WriteState
      <4>1. file' = mem /\ mem' = mem
        BY <3>1 DEF WriteState
      <4>2. CASE mem.last = file.last
        BY <2>1, <4>1, <4>2 DEF Forgotten, Handled
      <4>3. CASE mem.last # file.last
        <5>1. mem.last # None
          BY <4>3 DEF FilesInv, Behind, Handled
        <5>2. ASSUME NEW s \in Signals, s = mem.last + Slot PROVE ~(log.decided[s] > 0)
          BY <1>0, <4>3, <5>1, <5>2, SMT DEF DecisionsBounded
        <5> QED BY <2>1, <4>1, <5>2 DEF Forgotten
      <4> QED BY <4>2, <4>3
    <3>2. CASE Start
      <4>1. mem' = file /\ file' = file /\ mem = file
        BY <3>2 DEF Start, Goto, FilesInv, disk
      <4> QED BY <2>1, <4>1 DEF Forgotten
    <3>3. CASE Mark \/ ProcessSignal
      <4>1. mem'.last = mem.last /\ file' = file
        BY <3>3, MarkKeepsLast DEF Mark, ProcessSignal, disk
      <4> QED BY <2>1, <4>1 DEF Forgotten, Handled
    <3>4. CASE ~(WriteState \/ Start \/ Mark \/ ProcessSignal)
      <4>1. mem' = mem /\ file' = file
        BY <1>3, <3>4 DEF Next, Cycle, Tick, Bootstrap, Begin, Repair, AppendExecution, WriteReports,
                          Collect, Stop, Retry, RequestStop, Fail, disk, vars
      <4> QED BY <2>1, <4>1 DEF Forgotten
    <3> QED BY <3>1, <3>2, <3>3, <3>4
  <2> QED BY <1>0, <2>2, <2>3, <2>4, SMT DEF RepeatsHaveDeaths
<1> QED BY <1>1, <1>2, <1>3

\* No repetition before the first decision.
LEMMA DecisionsBegin == Init => RouteInv /\ DecisionInv
<1> SUFFICES ASSUME Init PROVE RouteInv /\ DecisionInv
  OBVIOUS
<1>1. \A s \in Signals : log.decided[s] = 0
  BY DEF Init
<1>2. mem = Fresh /\ file = Fresh /\ Fresh.last = None /\ pc = "down" /\ deaths = 0
  BY DEF Init, Fresh
<1>3. Repeated = {} /\ ~Forgotten
  BY <1>1, <1>2, RepeatedMembers DEF Forgotten
<1>4. IsFiniteSet({}) /\ Cardinality({}) = 0
  BY FS_EmptySet
<1>5. RepeatsHaveDeaths
  BY <1>2, <1>3, <1>4 DEF RepeatsHaveDeaths, Repeats
<1> QED BY <1>1, <1>2, <1>5 DEF RouteInv, Working, DecisionInv, DecisionsBounded, OneBarAhead

\* A decision is repeated by a process that has lost it, and by no other.
THEOREM RepeatsAreOfDeaths == Spec => []DecisionsRepeatOnlyAfterDeaths
<1>1. Inv /\ (RouteInv /\ DecisionInv) /\ [Next]_vars => (RouteInv /\ DecisionInv)'
  BY RouteStays, OneBarAheadStays, DecisionsBoundedStays, RepeatsHaveDeathsStays DEF DecisionInv
<1>2. Inv /\ DecisionInv => DecisionsRepeatOnlyAfterDeaths
  <2> SUFFICES ASSUME Inv, DecisionInv PROVE Repeats <= deaths
    BY DEF DecisionsRepeatOnlyAfterDeaths
  <2>1. Repeats \in Nat
    BY FS_CardinalityType DEF DecisionInv, RepeatsHaveDeaths, Repeats
  <2>2. deaths \in Nat
    BY RunnerAssumption, SMT DEF Inv, RunnerInv, TypeOK
  <2> QED BY <2>1, <2>2, SMT DEF DecisionInv, RepeatsHaveDeaths
<1> QED BY <1>1, <1>2, RunnerInvariant, DecisionsBegin, PTL DEF Spec

-----------------------------------------------------------------------------
(***************************************************************************)
(* Skipped bars have no order: the bars at risk are those of which the     *)
(* order or the skip is remembered and the decision is not; only an error  *)
(* adds one, the bar under way, and a death, the bar just handled.         *)
(***************************************************************************)
\* Finite sets, one element more or less.
LEMMA Within ==
  ASSUME NEW A, NEW B, IsFiniteSet(A), B \subseteq A
  PROVE  Cardinality(B) <= Cardinality(A) /\ Cardinality(A) \in Nat /\ Cardinality(B) \in Nat
<1>1. B \in SUBSET A
  OBVIOUS
<1>2. IsFiniteSet(B) /\ Cardinality(B) <= Cardinality(A)
  BY <1>1, FS_Subset
<1> QED BY <1>2, FS_CardinalityType

LEMMA WithinButOne ==
  ASSUME NEW A, NEW B, NEW x, IsFiniteSet(A), B \subseteq A \union {x}
  PROVE  /\ Cardinality(B) <= Cardinality(A) + 1
         /\ Cardinality(A) \in Nat /\ Cardinality(B) \in Nat
<1>1. /\ IsFiniteSet(A \union {x})
      /\ Cardinality(A \union {x}) = Cardinality(A) \/ Cardinality(A \union {x}) = Cardinality(A) + 1
  BY FS_AddElement
<1>2. Cardinality(A) \in Nat
  BY FS_CardinalityType
<1> QED BY <1>1, <1>2, Within

\* The counters of the faults.
LEMMA FaultsGrow ==
  ASSUME [Next]_vars
  PROVE  /\ errors' = IF Fail THEN errors + 1 ELSE errors
         /\ deaths' = IF Die THEN deaths + 1 ELSE deaths
<1>1. ~(Fail /\ Die)
  BY DEF Fail, Die
<1> QED BY <1>1 DEF Next, Cycle, Tick, Start, Bootstrap, Begin, Repair, Mark, ProcessSignal, AppendExecution, Decide,
           WriteState, WriteReports, Collect, Stop, Retry, RequestStop, Fail, Die, vars, faults

\* The orders of an account, and what an exit and an entry do to them.
LEMMA OrderTypes ==
  ASSUME NEW m \in States, NEW o \in Orders(m)
  PROVE  o \in OpenOrders
<1>1. m.ledger.done \subseteq ClosedOrders /\ m.ledger.open \in OpenOrders \union {None}
  BY DEF States, Ledgers
<1>2. \A t \in ClosedOrders : [signal |-> t.signal, entry |-> t.entry] \in OpenOrders
  BY DEF OpenOrders, ClosedOrders
<1> QED BY <1>1, <1>2 DEF Orders

LEMMA ExitKeepsOrders ==
  ASSUME mem \in States, ExitsIn
  PROVE  Orders(mem') = Orders(mem)
<1>1. mem.ledger.open \in OpenOrders /\ mem.ledger.open # None
  BY DEF ExitsIn, States, Ledgers
<1> DEFINE c == Closed(mem.ledger.open, now)
<1>2. [signal |-> c.signal, entry |-> c.entry] = mem.ledger.open
  BY <1>1 DEF Closed, OpenOrders
<1>3. mem'.ledger.open = None /\ mem'.ledger.done = mem.ledger.done \union {c}
  BY DEF ExitsIn, Exit
<1> HIDE DEF c
<1>4. {[signal |-> t.signal, entry |-> t.entry] : t \in mem'.ledger.done}
        = {[signal |-> t.signal, entry |-> t.entry] : t \in mem.ledger.done}
            \union {[signal |-> c.signal, entry |-> c.entry]}
  BY <1>3
<1> QED BY <1>1, <1>2, <1>3, <1>4 DEF Orders

LEMMA EntryAddsOrder ==
  ASSUME TypeOK, BarInv, pc \in Working, EntersIn
  PROVE  Orders(mem') = Orders(mem) \union {[signal |-> target, entry |-> now]}
<1> DEFINE e == [signal |-> target, entry |-> now]
<1>1. mem.ledger.open = None
  BY DEF EntersIn, CanEnter
<1>2. mem'.ledger.open = e /\ mem'.ledger.done = mem.ledger.done
  BY DEF EntersIn, Enter
<1>3. e # None
  <2>1. target \in Times /\ now \in Times
    BY LedgerAssumption, SMT DEF TypeOK, BarInv, Times
  <2> QED BY <2>1, NoneAssumption DEF OpenOrders
<1> HIDE DEF e
<1> QED BY <1>1, <1>2, <1>3 DEF Orders, e

LEMMA OrdersByLedger ==
  ASSUME NEW a, NEW b, a.ledger = b.ledger
  PROVE  Orders(a) = Orders(b)
BY DEF Orders

\* The bars at risk are bars of the run.
LEMMA RiskIsFinite ==
  ASSUME TypeOK
  PROVE  IsFiniteSet(AtRisk) /\ Cardinality(AtRisk) \in Nat
<1>1. \A m \in States : OrderedBars(m) \subseteq Times
  BY OrderTypes DEF OrderedBars, OpenOrders
<1>2. AtRisk \in SUBSET Times
  BY <1>1 DEF AtRisk, Unhandled, Reopened, Signals, TypeOK
<1>3. IsFiniteSet(Times)
  BY LedgerAssumption, FS_Interval DEF Times
<1>4. IsFiniteSet(AtRisk)
  BY <1>2, <1>3, FS_Subset
<1> QED BY <1>4, FS_CardinalityType

LEMMA OrdersStayInOrder ==
  ASSUME Inv, Inv', SkipInv, [Next]_vars
  PROVE  /\ Orders(file') \subseteq Orders(mem')
         /\ Orders(mem') \subseteq Orders(mem) \union {[signal |-> target, entry |-> now]}
         /\ (mem' # mem /\ ~Decide => mem' = file \/ Trades)
<1> USE DEF Inv, RunnerInv, SkipInv
<1>1. CASE UNCHANGED vars
  BY <1>1 DEF vars, disk
<1>2. CASE Tick \/ Still \/ WriteReports
  BY <1>2 DEF Tick, Still, WriteReports, disk
<1>3. CASE Trades
  <2>1. file' = file /\ mem \in States /\ pc \in Working
    BY <1>3 DEF Trades, TypeOK, Working
  <2> QED BY <1>3, <2>1, ExitKeepsOrders, EntryAddsOrder DEF Trades
<1>4. CASE Decide
  <2>1. mem'.ledger = mem.ledger /\ file' = file
    BY <1>4, StateFields DEF Decide, TypeOK
  <2> QED BY <1>4, <2>1, OrdersByLedger
<1>5. CASE Start \/ Die
  <2>1. mem' = file /\ file' = file
    BY <1>5 DEF Start, Die, disk
  <2> QED BY <2>1
<1>6. CASE WriteState
  BY <1>6 DEF WriteState
<1> QED BY <1>1, <1>2, <1>3, <1>4, <1>5, <1>6, StepCases

\* No other step than a failure or a death puts a bar at risk.
LEMMA RiskStays ==
  ASSUME Inv, RouteInv, DecisionInv, SkipInv, [Next]_vars, ~Fail, ~Die
  PROVE  AtRisk' \subseteq AtRisk
<1> USE DEF Inv, RunnerInv, SkipInv
<1>0. mem \in States /\ file \in States /\ now \in Int /\ target \in Int
  BY SMT DEF TypeOK, Times
<1>1. CASE UNCHANGED vars \/ Tick \/ RequestStop
  <2>1. UNCHANGED <<mem, file, pc, route, target>> /\ log'.skipped = log.skipped
    BY <1>1, NoDecision DEF vars, disk, Tick, RequestStop
  <2> QED BY <2>1 DEF AtRisk, OrderedBars, Orders, Unhandled, Handled, UnderWay, Reopened
<1>2. CASE Mark
  <2>1. /\ file' = file /\ log'.skipped = log.skipped /\ pc' \in {"logMark", "signal"} /\ pc = "mark"
    BY <1>2 DEF Mark, Goto, disk
  <2>2. mem'.last = mem.last /\ Orders(mem') = Orders(mem)
    BY <1>0, <1>2, <2>1, ExitEffect, ExitKeepsOrders, OrdersByLedger DEF Mark, Unmoved, ExitsIn
  <2>3. UnderWay = {} /\ UnderWay' = {}
    BY <2>1 DEF UnderWay
  <2> QED BY <2>1, <2>2, <2>3 DEF AtRisk, OrderedBars, Unhandled, Handled, Reopened
<1>3. CASE ProcessSignal
  <2>1. /\ file' = file /\ log'.skipped = log.skipped /\ pc' \in {"logSignal", "decide"} /\ pc = "signal"
        /\ target' = target /\ route' = route
    BY <1>3 DEF ProcessSignal, Goto, disk
  <2>2. target <= now /\ route = "cycle" /\ pc \in Working
    BY <2>1 DEF BarInv, RouteInv, Working
  <2>3. /\ mem'.last = mem.last
        /\ Orders(mem') \subseteq Orders(mem) \union {[signal |-> target, entry |-> now]}
    BY <1>0, <1>3, <2>1, <2>2, ExitEffect, EnterEffect, ExitKeepsOrders, EntryAddsOrder, OrdersByLedger
       DEF ProcessSignal, Goto, Unmoved, ExitsIn, EntersIn
  <2>4. OrderedBars(mem') \subseteq OrderedBars(mem) \union {target}
    BY <2>3 DEF OrderedBars
  <2>5. UnderWay = {} /\ UnderWay' = {target}
    BY <2>1, <2>2 DEF UnderWay
  <2>6. ASSUME NEW s \in Unhandled(mem'), s # target PROVE s \in Unhandled(mem)
    BY <2>3, <2>4, <2>6 DEF Unhandled, Handled
  <2>7. Unhandled(file') = Unhandled(file) /\ Reopened' = Reopened
    BY <2>1, <2>3 DEF Reopened
  <2>8. target \in log.skipped => target \in Reopened
    BY <2>2 DEF BarInv, DecisionInv, OneBarAhead, Reopened, Handled
  <2> QED BY <2>1, <2>4, <2>5, <2>6, <2>7, <2>8 DEF AtRisk
<1>4. CASE Decide
  <2>1. pc \in {"decide", "skip"} /\ target' = target /\ pc' = "state" /\ file' = file
    BY <1>4 DEF Decide, Goto
  <2>2. /\ mem'.last = target /\ mem'.ledger = mem.ledger
        /\ log'.skipped = IF pc = "skip" THEN log.skipped \union {target} ELSE log.skipped
    BY <1>0, <1>4, StateFields DEF Decide, TypeOK
  <2>3. Orders(mem') = Orders(mem)
    BY <2>2, OrdersByLedger
  <2>4. ~Handled(mem, target) /\ target # None /\ mem.last = file.last
    BY <1>0, <2>1, NoneAssumption DEF BarInv, Working, DecisionInv, OneBarAhead
  <2>5. mem.last # None => mem.last \in Int
    BY <1>0, SMT DEF States, Signals, Times
  <2>6. ASSUME NEW s \in Times, Handled(mem, s) PROVE Handled(mem', s)
    BY <1>0, <2>2, <2>4, <2>5, <2>6, SMT DEF Handled, Times
  <2>7. Handled(mem', target)
    BY <1>0, <2>2, <2>4, SMT DEF Handled
  <2>8. OrderedBars(mem) \subseteq Times /\ OrderedBars(mem') = OrderedBars(mem)
    BY <1>0, <2>3, OrderTypes DEF OrderedBars, OpenOrders
  <2>9. Unhandled(mem') \subseteq Unhandled(mem) \ {target}
    BY <2>6, <2>7, <2>8 DEF Unhandled
  <2>10. UnderWay \subseteq {target} /\ (pc = "skip" => UnderWay = {}) /\ UnderWay' = {}
    BY <2>1 DEF UnderWay
  <2>11. target \in OrderedBars(mem) => target \in Unhandled(mem)
    BY <2>4 DEF Unhandled
  <2>12. log'.skipped \intersect OrderedBars(mem') \subseteq AtRisk
    BY <2>2, <2>8, <2>10, <2>11 DEF AtRisk
  <2>13. mem'.last # file.last
    BY <1>0, <2>2, <2>4, SMT DEF Handled
  <2>14. Reopened' \subseteq Reopened
    BY <2>1, <2>2, <2>4, <2>13 DEF Reopened
  <2> QED BY <2>1, <2>9, <2>10, <2>12, <2>14 DEF AtRisk
<1>5. CASE Start
  <2>1. UNCHANGED <<mem, file, log>> /\ pc = "down" /\ pc' = "boot"
    BY <1>5 DEF Start, Goto, FilesInv, disk
  <2>2. UnderWay = {} /\ UnderWay' = {}
    BY <2>1 DEF UnderWay
  <2> QED BY <2>1, <2>2 DEF AtRisk, Reopened
<1>6. CASE WriteState
  <2>1. file' = mem /\ mem' = mem /\ log' = log /\ pc = "state" /\ pc' = "reports"
    BY <1>6 DEF WriteState, Goto
  <2>2. UnderWay = {} /\ UnderWay' = {}
    BY <2>1 DEF UnderWay
  <2>3. ASSUME NEW s \in Signals, ~Handled(mem, s)
        PROVE  ~Handled(file, s) /\ s # mem.last
    <3>1. s \in Int /\ s # None
      BY NoneAssumption, SMT DEF Signals, Times
    <3>2. mem.last # None => mem.last \in Int
      BY <1>0, SMT DEF States, Signals, Times
    <3>3. file.last # None => file.last \in Int /\ Handled(mem, file.last)
      BY <1>0, SMT DEF FilesInv, Behind, States, Signals, Times
    <3> QED BY <2>3, <3>1, <3>2, <3>3, SMT DEF Handled
  <2>4. Reopened' \subseteq Reopened
    BY <2>1, <2>3 DEF Reopened, TypeOK
  <2> QED BY <2>1, <2>2, <2>4 DEF AtRisk
<1>7. CASE Next /\ ~(Tick \/ RequestStop \/ Mark \/ ProcessSignal \/ Decide \/ Start \/ Die \/ WriteState \/ Fail)
  <2>1. /\ mem' = mem /\ file' = file /\ log'.skipped = log.skipped
    BY <1>7, NoDecision DEF Next, Cycle, Bootstrap, Begin, Repair, AppendExecution, WriteReports, Collect,
                            Stop, Retry, disk
  <2>2. UnderWay \subseteq UnderWay'
    BY <1>7 DEF Next, Cycle, Bootstrap, Begin, Repair, AppendExecution, WriteReports, Collect,
                            Stop, Retry, Goto, UnderWay
  <2> QED BY <2>1, <2>2 DEF AtRisk, Reopened
<1> QED BY <1>1, <1>2, <1>3, <1>4, <1>5, <1>6, <1>7

\* A failure puts the bar under way at risk, and a death the bar just handled,
\* whose skip the checkpoint lacks.
LEMMA FailRisks ==
  ASSUME Inv, SkipInv, Fail
  PROVE  AtRisk' \subseteq AtRisk \union {target}
<1>1. /\ mem' = mem /\ file' = file /\ log' = log /\ pc' = "error"
  BY DEF Fail, disk
<1>2. UnderWay \subseteq {target} /\ UnderWay' = {}
  BY <1>1 DEF UnderWay
<1> QED BY <1>1, <1>2 DEF AtRisk, Reopened

LEMMA DieRisks ==
  ASSUME Inv, SkipInv, Die
  PROVE  AtRisk' \subseteq AtRisk \union {mem.last}
<1>1. mem' = file /\ file' = file /\ log' = log
  BY DEF Die, disk
<1>2. OrderedBars(file) \subseteq OrderedBars(mem)
  BY DEF SkipInv, OrderedBars
<1>3. Reopened' \subseteq Reopened \union {mem.last}
  BY <1>1 DEF Reopened
<1> QED BY <1>1, <1>2, <1>3 DEF AtRisk

\* Each fault puts one bar at risk at most.
LEMMA SkipStays ==
  ASSUME Inv, RouteInv, DecisionInv, SkipInv, Inv', [Next]_vars
  PROVE  SkipInv'
<1>1. Orders(file') \subseteq Orders(mem')
  BY OrdersStayInOrder
<1> DEFINE A == AtRisk
           B == AtRisk'
<1>2. IsFiniteSet(A) /\ Cardinality(A) <= errors + deaths /\ errors \in Nat /\ deaths \in Nat
  <2>1. errors \in Nat /\ deaths \in Nat
    BY RunnerAssumption, SMT DEF Inv, RunnerInv, TypeOK
  <2> QED BY <2>1, RiskIsFinite DEF Inv, RunnerInv, SkipInv
<1>3. /\ errors' = IF Fail THEN errors + 1 ELSE errors
      /\ deaths' = IF Die THEN deaths + 1 ELSE deaths
  BY FaultsGrow
<1>4. CASE Fail \/ Die
  <2>1. PICK x : B \subseteq A \union {x}
    BY <1>4, FailRisks, DieRisks
  <2>2. errors' + deaths' >= errors + deaths + 1
    BY <1>2, <1>3, <1>4
  <2>3. errors' + deaths' \in Int
    BY <1>2, <1>3
  <2> HIDE DEF A, B
  <2>4. Cardinality(B) <= Cardinality(A) + 1 /\ Cardinality(A) \in Nat /\ Cardinality(B) \in Nat
    BY <1>2, <2>1, WithinButOne
  <2>5. Cardinality(B) <= errors' + deaths'
    BY <1>2, <2>2, <2>3, <2>4
  <2> QED BY <1>1, <2>5 DEF B, SkipInv
<1>5. CASE ~Fail /\ ~Die
  <2>1. B \subseteq A /\ errors' = errors /\ deaths' = deaths
    BY <1>3, <1>5, RiskStays
  <2> HIDE DEF A, B
  <2>2. Cardinality(B) <= Cardinality(A) /\ Cardinality(A) \in Nat /\ Cardinality(B) \in Nat
    BY <1>2, <2>1, Within
  <2>3. Cardinality(B) <= errors' + deaths'
    BY <1>2, <2>1, <2>2
  <2> QED BY <1>1, <2>3 DEF B, SkipInv
<1> QED BY <1>4, <1>5

\* Nothing is skipped before the first decision.
LEMMA SkipBegins == Init => SkipInv
<1> SUFFICES ASSUME Init PROVE SkipInv
  OBVIOUS
<1>1. /\ mem = Fresh /\ file = Fresh /\ log.skipped = {} /\ errors = 0 /\ deaths = 0
      /\ Fresh.ledger.open = None /\ Fresh.ledger.done = {}
  BY DEF Init, Fresh, EmptyLedger
<1>2. Orders(Fresh) = {}
  BY <1>1 DEF Orders
<1>3. AtRisk = {}
  BY <1>1, <1>2 DEF AtRisk, OrderedBars, Unhandled, Reopened
<1>4. Cardinality({}) = 0
  BY FS_EmptySet
<1> QED BY <1>1, <1>3, <1>4 DEF SkipInv

\* A bar that was skipped and has an order nevertheless has its error or its
\* death.
THEOREM SkippedBarsAreIdle == Spec => []SkippedBarsHaveNoOrder
<1> DEFINE I == RouteInv /\ DecisionInv /\ SkipInv
<1>1. Inv /\ Inv' /\ I /\ [Next]_vars => I'
  BY RouteStays, OneBarAheadStays, DecisionsBoundedStays, RepeatsHaveDeathsStays, SkipStays DEF DecisionInv
<1>2. Inv /\ I => SkippedBarsHaveNoOrder
  <2> SUFFICES ASSUME Inv, SkipInv PROVE SkippedBarsHaveNoOrder
    OBVIOUS
  <2> DEFINE O == {s \in log.skipped : \E o \in Orders(mem) : o.signal = s}
             A == AtRisk
  <2>1. O \subseteq A
    BY DEF AtRisk, OrderedBars
  <2>2. IsFiniteSet(A) /\ Cardinality(A) <= errors + deaths /\ errors \in Nat /\ deaths \in Nat
    <3>1. errors \in Nat /\ deaths \in Nat
      BY RunnerAssumption, SMT DEF Inv, RunnerInv, TypeOK
    <3> QED BY <3>1, RiskIsFinite DEF Inv, RunnerInv, SkipInv
  <2> HIDE DEF A, O
  <2>3. Cardinality(O) <= Cardinality(A) /\ Cardinality(A) \in Nat /\ Cardinality(O) \in Nat
    BY <2>1, <2>2, Within
  <2>4. Cardinality(O) <= errors + deaths
    BY <2>2, <2>3
  <2> QED BY <2>4 DEF O, SkippedBarsHaveNoOrder
<1>3. Init => I
  BY DecisionsBegin, SkipBegins
<1> HIDE DEF I
<1> QED BY <1>1, <1>2, <1>3, RunnerInvariant, PTL DEF Spec

-----------------------------------------------------------------------------
(***************************************************************************)
(* The log differs from the account only by faults: one event is under way *)
(* at a time, and a cycle appends at most one before its checkpoint.       *)
(***************************************************************************)
\* An entry is not an exit, and neither is None.
LEMMA KindsDiffer ==
  /\ \A e \in OpenOrders : e \notin ClosedOrders /\ e # None
  /\ None \notin ClosedOrders
<1>1. \A e \in OpenOrders : DOMAIN e = {"signal", "entry"}
  BY DEF OpenOrders
<1>2. \A e \in ClosedOrders : DOMAIN e = {"signal", "entry", "exit"}
  BY DEF ClosedOrders
<1>3. {"signal", "entry"} # {"signal", "entry", "exit"}
  OBVIOUS
<1> QED BY <1>1, <1>2, <1>3, NoneAssumption, RunnerAssumption

LEMMA StoryTypes ==
  ASSUME TypeOK
  PROVE  /\ Orders(mem) \subseteq OpenOrders /\ mem.ledger.done \subseteq ClosedOrders
         /\ Orders(file) \subseteq OpenOrders /\ file.ledger.done \subseteq ClosedOrders
         /\ None \notin Story(mem) /\ None \notin Story(file) /\ None \notin Told
<1>1. mem \in States /\ file \in States
  BY DEF TypeOK
<1>2. \A m \in States : Orders(m) \subseteq OpenOrders /\ m.ledger.done \subseteq ClosedOrders
  BY OrderTypes DEF States, Ledgers
<1>3. log.entries \subseteq OpenOrders /\ log.exits \subseteq ClosedOrders
  BY DEF TypeOK
<1> QED BY <1>1, <1>2, <1>3, KindsDiffer DEF Story, Told

\* An exit and an entry add one event, which the account did not have.
LEMMA ExitTells ==
  ASSUME Inv, ExitNow
  PROVE  /\ event' \in ClosedOrders /\ event' \notin Story(mem)
         /\ Story(mem') = Story(mem) \union {event'}
         /\ mem'.ledger.open = None /\ mem'.ledger.lastExit = now
<1> USE DEF Inv, RunnerInv
<1>1. ExitsIn /\ event' \in ClosedOrders /\ mem \in States
  BY ExitEffect DEF TypeOK
<1>2. event' = Closed(mem.ledger.open, now) /\ mem.ledger.open # None
  BY DEF ExitNow
<1>3. Story(mem') = Story(mem) \union {event'}
  BY <1>1, <1>2, ExitKeepsOrders DEF Story, ExitsIn, Exit
<1>4. event' \notin mem.ledger.done
  <2> SUFFICES ASSUME event' \in mem.ledger.done PROVE FALSE
    OBVIOUS
  <2>1. event'.exit = now
    BY <1>2 DEF Closed
  <2>2. event'.exit + Cooldown <= mem.ledger.open.entry
    BY <1>2 DEF Memory!LedgerInv, Memory!Sound, Memory!Apart
  <2>3. mem.ledger.open.entry <= now
    BY <1>2 DEF Memory!LedgerInv, Memory!Sound, Memory!Dominated
  <2>4. mem.ledger.open.entry \in Int /\ now \in Int /\ Cooldown \in Int /\ Cooldown > 0
    BY <1>1, <1>2, LedgerAssumption, SMT DEF States, Ledgers, OpenOrders, Times, TypeOK
  <2> QED BY <2>1, <2>2, <2>3, <2>4, SMT
<1>5. event' \notin Orders(mem)
  BY <1>1, KindsDiffer, OrderTypes
<1>6. mem'.ledger.open = None /\ mem'.ledger.lastExit = now
  BY <1>1 DEF ExitsIn, Exit
<1> QED BY <1>1, <1>3, <1>4, <1>5, <1>6 DEF Story

LEMMA EntryTells ==
  ASSUME Inv, EnterNow, pc \in Working
  PROVE  /\ event' \in OpenOrders /\ event' \notin Story(mem)
         /\ Story(mem') = Story(mem) \union {event'}
<1> USE DEF Inv, RunnerInv
<1>0. target <= now
  BY DEF BarInv
<1>1. EntersIn /\ event' \in OpenOrders /\ mem \in States /\ CanEnter(mem.ledger, now)
  BY <1>0, EnterEffect DEF TypeOK, EntersIn
<1>2. event' = [signal |-> target, entry |-> now]
  BY DEF EnterNow
<1>3. Story(mem') = Story(mem) \union {event'}
  BY <1>1, <1>2, EntryAddsOrder DEF Story, EntersIn, Enter
<1>4. ASSUME NEW t \in mem.ledger.done PROVE t.entry # now
  <2>1. mem.ledger.lastExit # None
    BY <1>4 DEF Memory!LedgerInv, Memory!Sound, Memory!Dominated
  <2>2. t.entry <= t.exit /\ t.exit <= mem.ledger.lastExit
    BY <1>4, <2>1 DEF Memory!LedgerInv, Memory!Sound, Memory!Dominated
  <2>3. now >= mem.ledger.lastExit + Cooldown
    BY <1>1, <2>1 DEF CanEnter, CooledDown
  <2>4. /\ t.entry \in Int /\ t.exit \in Int /\ mem.ledger.lastExit \in Int /\ now \in Int
        /\ Cooldown \in Int /\ Cooldown > 0
    BY <1>1, <1>4, <2>1, LedgerAssumption, SMT DEF States, Ledgers, ClosedOrders, Times, TypeOK
  <2> QED BY <2>2, <2>3, <2>4, SMT
<1>5. mem.ledger.open = None
  BY <1>1 DEF CanEnter
<1>6. event' \notin Orders(mem)
  BY <1>2, <1>4, <1>5 DEF Orders
<1>7. event' \notin mem.ledger.done
  BY <1>1, KindsDiffer DEF States, Ledgers
<1> QED BY <1>1, <1>3, <1>6, <1>7 DEF Story

\* What a step does to the account in memory, to the checkpoint and to the log.
Quiet == Story(mem') = Story(mem) /\ Story(file') = Story(file) /\ event' = event /\ Told' = Told
Happens ==
  /\ pc \in {"mark", "signal"}
  /\ event = None /\ event' # None /\ event' \notin Story(mem)
  /\ Story(mem') = Story(mem) \union {event'} /\ Story(file') = Story(file) /\ Told' = Told
Appended ==
  /\ AppendExecution
  /\ pc \in {"logMark", "logSignal"} /\ event' = None /\ Told' = Told \union {event}
  /\ Story(mem') = Story(mem) /\ Story(file') = Story(file)

LEMMA ToldStays ==
  ASSUME [Next]_vars, ~AppendExecution, TypeOK
  PROVE  Told' = Told
<1>1. log'.entries = log.entries /\ log'.exits = log.exits
  <2>1. CASE Decide
    BY <2>1 DEF Decide, TypeOK
  <2>2. CASE ~Decide
    <3>1. log' = log
      BY <2>2 DEF Next, Cycle, Tick, Start, Bootstrap, Begin, Repair, Mark, ProcessSignal, WriteState,
              WriteReports, Collect, Stop, Retry, RequestStop, Fail, Die, vars, disk
    <3> QED BY <3>1
  <2> QED BY <2>1, <2>2
<1> QED BY <1>1 DEF Told

LEMMA StoryCases ==
  ASSUME Inv, RouteInv, EventUnderWay, [Next]_vars
  PROVE  \/ Quiet /\ ~Fail /\ ~Die /\ ~Start /\ ~WriteState
         \/ Happens
         \/ Appended
         \/ Fail \/ Die \/ Start \/ WriteState
<1> USE DEF Inv, RunnerInv
<1>1. CASE Mark
  <2>1. pc = "mark" /\ event = None /\ file' = file /\ Told' = Told
    BY <1>1, ToldStays DEF Mark, Goto, EventUnderWay, disk, Told
  <2>2. CASE ExitNow
    BY <2>1, <2>2, ExitTells, KindsDiffer DEF Happens
  <2>3. CASE Unmoved
    BY <1>1, <2>1, <2>3 DEF Unmoved, Quiet, Mark, Fail, Die, Start, WriteState, Goto, Fallible
  <2> QED BY <1>1, <2>2, <2>3 DEF Mark
<1>2. CASE ProcessSignal
  <2>1. pc = "signal" /\ event = None /\ file' = file /\ Told' = Told /\ pc \in Working
    BY <1>2, ToldStays DEF ProcessSignal, Goto, EventUnderWay, disk, Told, Working
  <2>2. CASE ExitNow
    BY <2>1, <2>2, ExitTells, KindsDiffer DEF Happens
  <2>3. CASE EnterNow
    BY <2>1, <2>3, EntryTells, KindsDiffer DEF Happens
  <2>4. CASE Unmoved
    BY <1>2, <2>1, <2>4 DEF Unmoved, Quiet, ProcessSignal, Fail, Die, Start, WriteState, Goto, Fallible
  <2> QED BY <1>2, <2>2, <2>3, <2>4 DEF ProcessSignal
<1>3. CASE AppendExecution
  <2>1. mem' = mem /\ file' = file /\ event' = None /\ pc \in {"logMark", "logSignal"}
    BY <1>3 DEF AppendExecution, Goto
  <2>2. Told' = Told \union {event}
    BY <1>3, <2>1 DEF AppendExecution, Logged, Told, TypeOK, EventInv
  <2> QED BY <1>3, <2>1, <2>2 DEF Appended
<1>4. CASE Decide
  <2>1. mem'.ledger = mem.ledger /\ file' = file /\ event' = event /\ pc' = "state"
        /\ pc \in {"decide", "skip"}
    BY <1>4, StateFields DEF Decide, Goto, TypeOK
  <2>2. Told' = Told
    BY <1>4, ToldStays DEF Decide, AppendExecution, Goto
  <2>3. Orders(mem') = Orders(mem)
    BY <2>1, OrdersByLedger
  <2> QED BY <2>1, <2>2, <2>3 DEF Quiet, Story, Fail, Die, Start, WriteState, Goto
<1>5. CASE [Next]_vars /\ ~(Mark \/ ProcessSignal \/ AppendExecution \/ Decide \/ Fail \/ Die \/ Start \/ WriteState)
  <2>1. mem' = mem /\ file' = file /\ event' = event
    BY <1>5 DEF Next, Cycle, Tick, Bootstrap, Begin, Repair, WriteReports, Collect,
                Stop, Retry, RequestStop, vars, disk
  <2>2. Told' = Told
    BY <1>5, ToldStays
  <2> QED BY <1>5, <2>1, <2>2 DEF Quiet
<1> QED BY <1>1, <1>2, <1>3, <1>4, <1>5

\* The event under way.
LEMMA EventUnderWayStays ==
  ASSUME Inv, RouteInv, EventUnderWay, [Next]_vars
  PROVE  EventUnderWay'
<1> USE DEF Inv, RunnerInv
<1>1. Story(file') \subseteq Story(mem')
  <2>1. CASE WriteState
    BY <2>1 DEF WriteState
  <2>2. CASE Fail \/ Die \/ Start
    BY <2>2 DEF Fail, Die, Start, disk, EventUnderWay
  <2> QED BY <2>1, <2>2, StoryCases DEF Quiet, Happens, Appended, EventUnderWay
<1>2. CASE UNCHANGED vars \/ Tick \/ RequestStop
  <2>1. /\ UNCHANGED <<mem, file, pc, event>> /\ (pc = "logMark" => now' = now)
    BY <1>2 DEF vars, disk, Tick, RequestStop
  <2> QED BY <2>1 DEF EventUnderWay
<1>3. CASE Mark
  <2>1. pc = "mark" /\ event = None /\ file' = file /\ now' = now /\ None \notin Story(file)
    BY <1>3, StoryTypes DEF Mark, Goto, EventUnderWay, disk
  <2>2. CASE Unmoved /\ pc' = "signal"
    BY <1>1, <2>1, <2>2 DEF Unmoved, EventUnderWay
  <2>3. CASE ExitNow /\ pc' = "logMark"
    <3>1. /\ event' \notin Story(mem) /\ Story(mem') = Story(mem) \union {event'}
          /\ mem'.ledger.open = None /\ mem'.ledger.lastExit = now
      BY <2>3, ExitTells
    <3> QED BY <1>1, <2>1, <2>3, <3>1 DEF EventUnderWay
  <2> QED BY <1>3, <2>2, <2>3 DEF Mark, Goto
<1>4. CASE ProcessSignal
  <2>1. pc = "signal" /\ event = None /\ file' = file /\ pc \in Working
    BY <1>4 DEF ProcessSignal, Goto, EventUnderWay, disk, Working
  <2>2. CASE Unmoved /\ pc' = "decide"
    BY <1>1, <2>1, <2>2 DEF Unmoved, EventUnderWay
  <2>3. CASE (ExitNow \/ EnterNow) /\ pc' = "logSignal"
    <3>1. event' \notin Story(mem) /\ Story(mem') = Story(mem) \union {event'}
      BY <2>1, <2>3, ExitTells, EntryTells
    <3> QED BY <1>1, <2>1, <2>3, <3>1 DEF EventUnderWay
  <2> QED BY <1>4, <2>2, <2>3 DEF ProcessSignal, Goto
<1>5. CASE Next /\ ~(Tick \/ RequestStop \/ Mark \/ ProcessSignal)
  <2>1. pc' \notin {"logMark", "logSignal"}
    BY <1>5 DEF Next, Cycle, Start, Bootstrap, Begin, Repair, AppendExecution, Decide, WriteState,
                WriteReports, Collect, Stop, Retry, Fail, Die, Goto
  <2>2. event' = None
    BY <1>5 DEF Next, Cycle, Start, Bootstrap, Begin, Repair, AppendExecution, Decide, WriteState,
                WriteReports, Collect, Stop, Retry, Fail, Die, Goto, EventUnderWay
  <2> QED BY <1>1, <2>1, <2>2 DEF EventUnderWay
<1> QED BY <1>2, <1>3, <1>4, <1>5

\* The sets of events that are compared are finite.
LEMMA StoriesAreFinite ==
  ASSUME Inv, IsFiniteSet(Told)
  PROVE  /\ IsFiniteSet(Untold) /\ Cardinality(Untold) \in Nat
         /\ IsFiniteSet(Unsaved) /\ Cardinality(Unsaved) \in Nat
         /\ errors \in Nat /\ deaths \in Nat
<1> USE DEF Inv, RunnerInv
<1> DEFINE D == mem.ledger.done
           E == {[signal |-> t.signal, entry |-> t.entry] : t \in D}
           O == E \union {mem.ledger.open}
           S == O \union D
           T == Told
<1>1. IsFiniteSet(D)
  BY DEF Memory!LedgerInv, Memory!Sound, Memory!IsFiniteSet, IsFiniteSet
<1>2. IsFiniteSet(E)
  <2> DEFINE g == [t \in D |-> [signal |-> t.signal, entry |-> t.entry]]
  <2>1. E = {g[t] : t \in D}
    OBVIOUS
  <2>2. g \in Surjection(D, E)
    BY <2>1 DEF Surjection
  <2> HIDE DEF D, E, g
  <2> QED BY <1>1, <2>2, FS_Surjection
<1>3. IsFiniteSet(O)
  <2> HIDE DEF E
  <2> QED BY <1>2, FS_AddElement
<1>4. IsFiniteSet(S)
  <2> HIDE DEF O, D
  <2> QED BY <1>1, <1>3, FS_Union
<1>5. Untold \in SUBSET S /\ Unsaved \in SUBSET T
  BY DEF Untold, Unsaved, Story, Orders
<1> HIDE DEF S, T
<1>6. IsFiniteSet(Untold) /\ IsFiniteSet(Unsaved)
  BY <1>4, <1>5, FS_Subset DEF T
<1>7. errors \in Nat /\ deaths \in Nat
  BY RunnerAssumption, SMT DEF TypeOK
<1> QED BY <1>6, <1>7, FS_CardinalityType

\* ... or one element less.
LEMMA WithinLessOne ==
  ASSUME NEW A, NEW B, NEW x \in A, IsFiniteSet(A), B \subseteq A \ {x}
  PROVE  /\ Cardinality(B) + 1 <= Cardinality(A)
         /\ Cardinality(A) \in Nat /\ Cardinality(B) \in Nat
<1>1. IsFiniteSet(A \ {x}) /\ Cardinality(A \ {x}) = Cardinality(A) - 1
  BY FS_RemoveElement
<1>2. Cardinality(A) \in Nat
  BY FS_CardinalityType
<1> QED BY <1>1, <1>2, Within

\* Only a failure loses an event before it is told.
LEMMA UntoldStays ==
  ASSUME Inv, RouteInv, StoryInv, [Next]_vars
  PROVE  UntoldHaveErrors'
<1> USE DEF Inv, RunnerInv, StoryInv
<1>1. Untold' \subseteq IF Fail THEN Untold \union {event} ELSE Untold
  <2>1. CASE Fail
    <3>1. mem' = mem /\ Told' = Told
      BY <2>1 DEF Fail, disk, Told
    <3> QED BY <2>1, <3>1 DEF Untold
  <2>2. CASE Die \/ Start
    <3>1. mem' = file /\ Told' = Told /\ ~Fail
      BY <2>2 DEF Die, Start, Fail, Goto, disk, Told, Fallible
    <3>2. event \notin Story(file)
      BY StoryTypes DEF EventUnderWay
    <3> QED BY <3>1, <3>2 DEF Untold, EventUnderWay
  <2>3. CASE WriteState
    <3>1. mem' = mem /\ Told' = Told /\ event' = event /\ ~Fail
      BY <2>3 DEF WriteState, Fail, Goto, Told
    <3> QED BY <3>1 DEF Untold
  <2>4. CASE Happens
    <3>1. ~Fail
      BY <2>4 DEF Happens, Fail, Fallible
    <3> QED BY <2>4, <3>1, StoryTypes DEF Happens, Untold
  <2>5. CASE Appended /\ ~Fail
    BY <2>5 DEF Appended, Untold
  <2>6. CASE Quiet /\ ~Fail
    BY <2>6 DEF Quiet, Untold
  <2> QED BY <2>1, <2>2, <2>3, <2>4, <2>5, <2>6, StoryCases
<1>2. IsFiniteSet(Untold) /\ errors \in Nat /\ Cardinality(Untold) <= errors
  BY StoriesAreFinite DEF UntoldHaveErrors
<1> DEFINE A == Untold
           B == Untold'
<1>3. CASE Fail
  <2>1. B \subseteq A \union {event} /\ errors' = errors + 1
    BY <1>1, <1>3, FaultsGrow
  <2> HIDE DEF A, B
  <2>2. Cardinality(B) <= Cardinality(A) + 1 /\ Cardinality(A) \in Nat /\ Cardinality(B) \in Nat
    BY <1>2, <2>1, WithinButOne DEF A
  <2> QED BY <1>2, <2>1, <2>2 DEF A, B, UntoldHaveErrors
<1>4. CASE ~Fail
  <2>1. B \subseteq A /\ errors' = errors
    BY <1>1, <1>4, FaultsGrow
  <2> HIDE DEF A, B
  <2>2. Cardinality(B) <= Cardinality(A) /\ Cardinality(A) \in Nat /\ Cardinality(B) \in Nat
    BY <1>2, <2>1, Within DEF A
  <2> QED BY <1>2, <2>1, <2>2 DEF A, B, UntoldHaveErrors
<1> QED BY <1>3, <1>4

\* While the cycle under way is ahead it neither trades nor appends.
LEMMA AheadStays ==
  ASSUME Inv, RouteInv, StoryInv, [Next]_vars, Ahead, ~(Fail \/ Die \/ WriteState)
  PROVE  Ahead' /\ Quiet
<1> USE DEF Inv, RunnerInv, StoryInv
<1>1. ~Start
  BY DEF Ahead, Start, Goto
<1>2. ~Appended
  BY DEF Ahead, Appended
<1>3. pc = "signal" => ~ExitNow /\ ~EnterNow
  <2> SUFFICES ASSUME pc = "signal" PROVE ~ExitNow /\ ~EnterNow
    OBVIOUS
  <2>1. mem.ledger.open = None /\ mem.ledger.lastExit = now
    BY DEF Ahead
  <2>2. now \in Int /\ now # None /\ Cooldown \in Int /\ Cooldown > 0
    BY LedgerAssumption, NoneAssumption, SMT DEF TypeOK, Times
  <2>3. ~CanEnter(mem.ledger, now)
    BY <2>1, <2>2, SMT DEF CanEnter, CooledDown
  <2> QED BY <2>1, <2>3 DEF ExitNow, EnterNow
<1>9. ~Happens
  <2> SUFFICES ASSUME Happens, pc = "signal" PROVE FALSE
    BY DEF Ahead, Happens
  <2>1. event' = event
    BY <1>3 DEF Next, Cycle, Tick, Start, Bootstrap, Begin, Repair, Mark, ProcessSignal, AppendExecution,
       Decide, WriteState, WriteReports, Collect, Stop, Retry, RequestStop, Fail, Die, vars, Goto, Unmoved
  <2> QED BY <2>1 DEF Happens
<1>4. Quiet
  BY <1>1, <1>2, <1>9, StoryCases
<1>5. CASE pc \in {"decide", "state"}
  <2>1. pc' \in {"decide", "state"} /\ route' = route
    BY <1>5 DEF Next, Cycle, Tick, Start, Bootstrap, Begin, Repair, Mark, ProcessSignal, AppendExecution,
       Decide, WriteState, WriteReports, Collect, Stop, Retry, RequestStop, Fail, Die, vars, Goto
  <2> QED BY <1>4, <1>5, <2>1 DEF Ahead, Quiet
<1>6. CASE pc = "signal"
  <2>1. route = "cycle"
    BY <1>6 DEF RouteInv, Working
  <2>2. \/ pc' = "decide" /\ route' = route
        \/ pc' = "signal" /\ mem' = mem /\ now' = now
    BY <1>3, <1>6 DEF Next, Cycle, Tick, Start, Bootstrap, Begin, Repair, Mark, ProcessSignal, AppendExecution,
       Decide, WriteState, WriteReports, Collect, Stop, Retry, RequestStop, Fail, Die, vars, Goto
  <2> QED BY <1>4, <1>6, <2>1, <2>2 DEF Ahead, Quiet
<1> QED BY <1>4, <1>5, <1>6 DEF Ahead

\* What the checkpoint lacks.
LEMMA UnsavedCases ==
  ASSUME Inv, RouteInv, StoryInv, [Next]_vars, ~WriteState
  PROVE  /\ Unsaved' \subseteq IF Appended THEN Unsaved \union {event} ELSE Unsaved
         /\ Appended => ~Ahead /\ ~Fail /\ ~Die
<1> USE DEF Inv, RunnerInv, StoryInv
<1>1. CASE Appended
  BY <1>1 DEF Appended, Unsaved, Ahead, Fail, Die, AppendExecution, Goto
<1>2. CASE ~Appended
  <2>1. Told' = Told /\ Story(file') = Story(file)
    BY <1>2, StoryCases DEF Quiet, Happens, Fail, Die, Start, disk, Told
  <2> QED BY <1>2, <2>1 DEF Unsaved
<1> QED BY <1>1, <1>2

\* A checkpoint saves what the cycle under way has appended.
LEMMA PhantomsHaveFaults ==
  ASSUME Inv, StoryInv
  PROVE  LET P == Told \ (Story(mem) \ {event})
         IN  IsFiniteSet(P) /\ Cardinality(P) <= deaths + errors /\ Cardinality(P) \in Nat
<1> USE DEF Inv, RunnerInv, StoryInv
<1> DEFINE U == Unsaved
           P == Told \ (Story(mem) \ {event})
<1>0. /\ IsFiniteSet(U) /\ errors \in Nat /\ deaths \in Nat
      /\ Cardinality(U) <= deaths + errors + (IF Ahead THEN 1 ELSE 0)
  BY StoriesAreFinite DEF UnsavedHaveFaults
<1>1. event \notin Story(file) /\ P \in SUBSET U
  BY StoryTypes DEF EventUnderWay, Unsaved
<1>2. IsFiniteSet(P)
  <2> HIDE DEF P, U
  <2> QED BY <1>0, <1>1, FS_Subset
<1>3. CASE Ahead
  <2>1. PICK x \in (Told \intersect Story(mem)) \ Story(file) : TRUE
    BY <1>3 DEF Ahead
  <2>2. event = None /\ None \notin Story(mem)
    BY <1>3, StoryTypes DEF Ahead, EventUnderWay
  <2>3. x \in U /\ P \subseteq U \ {x}
    BY <1>1, <2>1, <2>2 DEF Unsaved
  <2> HIDE DEF P, U
  <2>4. Cardinality(P) + 1 <= Cardinality(U) /\ Cardinality(U) \in Nat /\ Cardinality(P) \in Nat
    BY <1>0, <2>3, WithinLessOne
  <2> QED BY <1>0, <1>2, <1>3, <2>4 DEF P
<1>4. CASE ~Ahead
  <2> HIDE DEF P, U
  <2>1. Cardinality(P) <= Cardinality(U) /\ Cardinality(U) \in Nat /\ Cardinality(P) \in Nat
    BY <1>0, <1>1, Within
  <2> QED BY <1>0, <1>2, <1>4, <2>1 DEF P
<1> QED BY <1>3, <1>4

LEMMA UnsavedStays ==
  ASSUME Inv, RouteInv, StoryInv, [Next]_vars
  PROVE  UnsavedHaveFaults'
<1> USE DEF Inv, RunnerInv, StoryInv
<1> DEFINE U == Unsaved
           V == Unsaved'
           P == Told \ (Story(mem) \ {event})
<1>0. /\ IsFiniteSet(U) /\ errors \in Nat /\ deaths \in Nat
      /\ Cardinality(U) <= deaths + errors + (IF Ahead THEN 1 ELSE 0)
  BY StoriesAreFinite DEF UnsavedHaveFaults
<1>1. /\ errors' = IF Fail THEN errors + 1 ELSE errors
      /\ deaths' = IF Die THEN deaths + 1 ELSE deaths
  BY FaultsGrow
<1>2. Cardinality(V) <= deaths' + errors' + (IF Ahead' THEN 1 ELSE 0)
  <2>1. CASE WriteState
    <3>1. mem' = mem /\ file' = mem /\ Told' = Told /\ event = None /\ ~Fail /\ ~Die
      BY <2>1 DEF WriteState, Goto, Told, EventUnderWay, Fail, Die
    <3>2. V = P
      BY <3>1, StoryTypes DEF Unsaved
    <3>3. Cardinality(P) <= deaths + errors /\ Cardinality(P) \in Nat
      BY PhantomsHaveFaults
    <3> HIDE DEF P, V
    <3> QED BY <1>0, <1>1, <3>1, <3>2, <3>3
  <2>2. CASE ~WriteState /\ Appended
    <3>1. V \subseteq U \union {event} /\ ~Ahead /\ ~Fail /\ ~Die
      BY <2>2, UnsavedCases
    <3>4. Ahead'
      <4>1. event \in Told' /\ event \in Story(mem') /\ event \notin Story(file')
        BY <2>2 DEF Appended, EventUnderWay
      <4>2. \/ pc = "logMark" /\ pc' = "signal" /\ mem' = mem /\ now' = now
            \/ pc = "logSignal" /\ pc' = "decide" /\ route' = route /\ route = "cycle"
        BY <2>2 DEF Appended, AppendExecution, Goto, RouteInv, Working
      <4> QED BY <4>1, <4>2 DEF Ahead, EventUnderWay
    <3> HIDE DEF U, V
    <3>5. Cardinality(V) <= Cardinality(U) + 1 /\ Cardinality(U) \in Nat /\ Cardinality(V) \in Nat
      BY <1>0, <3>1, WithinButOne
    <3> QED BY <1>0, <1>1, <3>1, <3>4, <3>5
  <2>3. CASE ~WriteState /\ ~Appended
    <3>1. V \subseteq U
      BY <2>3, UnsavedCases
    <3>2. Ahead => Ahead' \/ Fail \/ Die
      BY <2>3, AheadStays
    <3>3. ~(Fail /\ Die)
      BY DEF Fail, Die
    <3> HIDE DEF U, V
    <3>4. Cardinality(V) <= Cardinality(U) /\ Cardinality(U) \in Nat /\ Cardinality(V) \in Nat
      BY <1>0, <3>1, Within
    <3> QED BY <1>0, <1>1, <3>2, <3>3, <3>4
  <2> QED BY <2>1, <2>2, <2>3
<1>3. deaths' = 0 => Told' \subseteq Story(mem') \ {event'}
  <2>1. SUFFICES ASSUME deaths' = 0 PROVE Told' \subseteq Story(mem') \ {event'}
    OBVIOUS
  <2>2. ~Die /\ Told \subseteq Story(mem) \ {event}
    BY <1>0, <1>1, <2>1, SMT DEF UnsavedHaveFaults
  <2>3. CASE WriteState \/ Fail
    <3>1. mem' = mem /\ Told' = Told /\ (event' = event \/ event' = None)
      BY <2>3 DEF WriteState, Fail, disk, Told
    <3> QED BY <2>2, <3>1, StoryTypes
  <2>4. CASE Start
    <3>1. mem' = mem /\ Told' = Told /\ event' = event
      BY <2>4 DEF Start, Goto, FilesInv, disk, Told
    <3> QED BY <2>2, <3>1
  <2>5. CASE Happens \/ Appended \/ Quiet
    BY <2>2, <2>5, StoryTypes DEF Happens, Appended, Quiet, EventUnderWay
  <2> QED BY <2>2, <2>3, <2>4, <2>5, StoryCases
<1> QED BY <1>2, <1>3 DEF UnsavedHaveFaults

\* The log grows by one event at a time, and it begins empty.
LEMMA ToldIsFinite ==
  ASSUME Inv, RouteInv, StoryInv, [Next]_vars
  PROVE  IsFiniteSet(Told')
<1>1. Told' = Told \/ Told' = Told \union {event}
  BY StoryCases DEF StoryInv, Quiet, Happens, Appended, Fail, Die, Start, WriteState, disk, Told
<1> DEFINE T == Told
<1>2. IsFiniteSet(T)
  BY DEF StoryInv
<1> HIDE DEF T
<1>3. IsFiniteSet(T \union {event})
  BY <1>2, FS_AddElement
<1> QED BY <1>1, <1>2, <1>3 DEF T

LEMMA StoryBegins == Init => RouteInv /\ StoryInv
<1> SUFFICES ASSUME Init PROVE RouteInv /\ StoryInv
  OBVIOUS
<1>1. /\ mem = Fresh /\ file = Fresh /\ event = None /\ pc = "down" /\ errors = 0 /\ deaths = 0
      /\ Fresh.ledger.open = None /\ Fresh.ledger.done = {} /\ Told = {}
  BY DEF Init, Fresh, EmptyLedger, Told
<1>2. Story(Fresh) = {}
  BY <1>1 DEF Story, Orders
<1>3. Untold = {} /\ Unsaved = {} /\ ~Ahead
  BY <1>1, <1>2 DEF Untold, Unsaved, Ahead
<1>4. IsFiniteSet({}) /\ Cardinality({}) = 0
  BY FS_EmptySet
<1> QED BY <1>1, <1>2, <1>3, <1>4
        DEF RouteInv, Working, StoryInv, EventUnderWay, UntoldHaveErrors, UnsavedHaveFaults

\* The two counts of the property, of entries and of exits, are of one set each.
LEMMA CountsAreOfEvents ==
  ASSUME Inv, IsFiniteSet(Told)
  PROVE  /\ Missing = Cardinality(Untold)
         /\ Phantom = Cardinality(Told \ (Story(mem) \ {event}))
<1> USE DEF Inv, RunnerInv
<1> DEFINE A == Entered \ log.entries
           B == Exited \ log.exits
           C == log.entries \ Entered
           D == log.exits \ Exited
           U == Untold
           T == Told
           P == Told \ (Story(mem) \ {event})
<1>1. /\ Entered \subseteq OpenOrders /\ Exited \subseteq ClosedOrders
      /\ log.entries \subseteq OpenOrders /\ log.exits \subseteq ClosedOrders
      /\ Story(mem) \ {event} = Entered \union Exited
  BY StoryTypes DEF Entered, Exited, Story, TypeOK
<1>2. U = A \union B /\ A \intersect B = {} /\ P = C \union D /\ C \intersect D = {}
  BY <1>1, KindsDiffer DEF Untold, Told
<1>3. IsFiniteSet(U) /\ A \in SUBSET U /\ B \in SUBSET U
  BY <1>2, StoriesAreFinite
<1>4. IsFiniteSet(T) /\ C \in SUBSET T /\ D \in SUBSET T
  BY DEF Told
<1> HIDE DEF A, B, C, D, U, T, P
<1>5. IsFiniteSet(A) /\ IsFiniteSet(B) /\ IsFiniteSet(C) /\ IsFiniteSet(D)
  BY <1>3, <1>4, FS_Subset
<1>6. Cardinality({}) = 0
  BY FS_EmptySet
<1>7. /\ Cardinality(A \union B) = Cardinality(A) + Cardinality(B) - Cardinality(A \intersect B)
      /\ Cardinality(C \union D) = Cardinality(C) + Cardinality(D) - Cardinality(C \intersect D)
  BY <1>5, FS_Union
<1>8. /\ Cardinality(A) \in Nat /\ Cardinality(B) \in Nat
      /\ Cardinality(C) \in Nat /\ Cardinality(D) \in Nat
  BY <1>5, FS_CardinalityType
<1>9. Cardinality(U) = Cardinality(A) + Cardinality(B) /\ Cardinality(P) = Cardinality(C) + Cardinality(D)
  <2>1. /\ Cardinality(A \union B) = Cardinality(U) /\ Cardinality(A \intersect B) = 0
        /\ Cardinality(C \union D) = Cardinality(P) /\ Cardinality(C \intersect D) = 0
    BY <1>2, <1>6, Zenon
  <2> QED BY <1>7, <1>8, <2>1
<1>10. Missing = Cardinality(A) + Cardinality(B) /\ Phantom = Cardinality(C) + Cardinality(D)
  BY Zenon DEF Missing, Phantom, A, B, C, D
<1> QED BY <1>9, <1>10 DEF U, P

\* The event log tells the story of the account but for the faults.
THEOREM LogIsTheAccount == Spec => []LogDiffersOnlyByFaults
<1>1. Inv /\ (RouteInv /\ StoryInv) /\ [Next]_vars => (RouteInv /\ StoryInv)'
  <2>1. Inv /\ RouteInv /\ StoryInv /\ [Next]_vars => IsFiniteSet(Told)'
    BY ToldIsFinite
  <2> QED BY <2>1, RouteStays, EventUnderWayStays, UntoldStays, UnsavedStays DEF StoryInv
<1>2. Inv /\ StoryInv => LogDiffersOnlyByFaults
  <2> SUFFICES ASSUME Inv, StoryInv PROVE LogDiffersOnlyByFaults
    OBVIOUS
  <2>1. IsFiniteSet(Told)
    BY DEF StoryInv
  <2>2. Missing <= errors
    BY <2>1, CountsAreOfEvents DEF StoryInv, UntoldHaveErrors
  <2>3. Phantom <= deaths + errors
    BY <2>1, CountsAreOfEvents, PhantomsHaveFaults
  <2>4. deaths = 0 => Phantom = 0
    <3>1. deaths = 0 => Told \ (Story(mem) \ {event}) = {}
      BY DEF StoryInv, UnsavedHaveFaults
    <3>2. Cardinality({}) = 0
      BY FS_EmptySet
    <3> QED BY <2>1, <3>1, <3>2, CountsAreOfEvents
  <2> QED BY <2>2, <2>3, <2>4 DEF LogDiffersOnlyByFaults
<1> QED BY <1>1, <1>2, RunnerInvariant, StoryBegins, PTL DEF Spec

-----------------------------------------------------------------------------
(***************************************************************************)
(* The lock file of the runner: without a race, at most one runner, and    *)
(* the status command names it, for any number of processes.               *)
(***************************************************************************)

\* The types and NoRaceInv hold of every reachable state: no step of a process
\* takes the lock file away from a live owner unless another process was
\* acquiring at the same time.
THEOREM LockInvariant == LockSpec => []LockInv
<1>1. LockInit => LockInv
  BY LockAssumption DEF LockInit, LockInv, LockTypeOK, NoRaceInv, LockPoints, Acquiring
<1>2. LockInv /\ [LockNext]_lockVars => LockInv'
  <2> SUFFICES ASSUME LockInv, [LockNext]_lockVars PROVE LockInv'
    OBVIOUS
  <2> USE LockAssumption DEF LockInv, LockTypeOK, LockPoints, Acquiring, Moves
  <2>1. ASSUME NEW p \in Procs, StartProcess(p) PROVE LockInv'
    <3>1. LockTypeOK'
      BY <2>1 DEF StartProcess
    <3>2. /\ at[p] = "off" /\ lock' = lock /\ seen' = seen
          /\ \A q \in Procs : q # p => at'[q] = at[q]
          /\ at'[p] = "check" /\ p \notin Alive
      BY <2>1 DEF StartProcess, Alive
    <3>3. ASSUME ~raced' PROVE ~raced /\ \A q \in Procs : q # p => at[q] \notin Acquiring
      BY <2>1, <3>3 DEF StartProcess
    <3>4. Alive' = Alive \union {p}
      BY <3>1, <3>2 DEF Alive
    <3>5. NoRaceInv'
      BY <3>1, <3>2, <3>3, <3>4 DEF NoRaceInv, Alive
    <3> QED BY <3>1, <3>5
  <2>2. ASSUME NEW p \in Procs, Check(p) PROVE LockInv'
    <3>1. LockTypeOK'
      BY <2>2 DEF Check
    <3>2. NoRaceInv'
      BY <2>2, <3>1 DEF Check, NoRaceInv, Alive
    <3> QED BY <3>1, <3>2
  <2>3. ASSUME NEW p \in Procs, Read(p) PROVE LockInv'
    <3>1. LockTypeOK'
      BY <2>3 DEF Read
    <3>2. NoRaceInv'
      BY <2>3, <3>1 DEF Read, NoRaceInv, Alive
    <3> QED BY <3>1, <3>2
  <2>4. ASSUME NEW p \in Procs, Probe(p) PROVE LockInv'
    <3>1. LockTypeOK'
      BY <2>4 DEF Probe
    <3>2. NoRaceInv'
      BY <2>4, <3>1 DEF Probe, NoRaceInv, Alive
    <3> QED BY <3>1, <3>2
  <2>5. ASSUME NEW p \in Procs, Unlink(p) PROVE LockInv'
    <3>1. LockTypeOK'
      BY <2>5 DEF Unlink
    <3>2. NoRaceInv'
      BY <2>5, <3>1 DEF Unlink, NoRaceInv, Alive
    <3> QED BY <3>1, <3>2
  <2>6. ASSUME NEW p \in Procs, Create(p) PROVE LockInv'
    <3>1. LockTypeOK'
      BY <2>6 DEF Create
    <3>2. NoRaceInv'
      BY <2>6, <3>1 DEF Create, NoRaceInv, Alive
    <3> QED BY <3>1, <3>2
  <2>7. ASSUME NEW p \in Procs, Write(p) PROVE LockInv'
    <3>1. LockTypeOK'
      BY <2>7 DEF Write
    <3>2. NoRaceInv'
      BY <2>7, <3>1 DEF Write, NoRaceInv, Alive
    <3> QED BY <3>1, <3>2
  <2>8. ASSUME NEW p \in Procs, Leave(p) PROVE LockInv'
    <3>1. LockTypeOK'
      BY <2>8 DEF Leave
    <3>2. NoRaceInv'
      BY <2>8, <3>1 DEF Leave, NoRaceInv, Alive
    <3> QED BY <3>1, <3>2
  <2>9. ASSUME NEW p \in Procs, Reread(p) PROVE LockInv'
    <3>1. LockTypeOK'
      BY <2>9 DEF Reread
    <3>2. NoRaceInv'
      BY <2>9, <3>1 DEF Reread, NoRaceInv, Alive
    <3> QED BY <3>1, <3>2
  <2>10. ASSUME NEW p \in Procs, Release(p) PROVE LockInv'
    <3>1. LockTypeOK'
      BY <2>10 DEF Release
    <3>2. NoRaceInv'
      BY <2>10, <3>1 DEF Release, NoRaceInv, Alive
    <3> QED BY <3>1, <3>2
  <2>11. ASSUME NEW p \in Procs, Kill(p) PROVE LockInv'
    <3>1. LockTypeOK'
      BY <2>11 DEF Kill, Alive
    <3>2. NoRaceInv'
      BY <2>11, <3>1 DEF Kill, NoRaceInv, Alive
    <3> QED BY <3>1, <3>2
  <2>12. CASE UNCHANGED lockVars
    BY <2>12 DEF lockVars, NoRaceInv, Alive
  <2> QED
    BY <2>1, <2>2, <2>3, <2>4, <2>5, <2>6, <2>7, <2>8, <2>9, <2>10, <2>11, <2>12
    DEF LockNext, Acquire
<1> QED BY <1>1, <1>2, PTL DEF LockSpec

\* One runner at a time, as long as no two processes acquire the lock at once.
THEOREM LockExcludesWithoutRace == LockSpec => []OneRunnerWithoutRace
<1>1. LockInv => OneRunnerWithoutRace
  BY DEF LockInv, NoRaceInv, OneRunnerWithoutRace, OneRunner, Running
<1> QED BY <1>1, LockInvariant, PTL

\* And then the status command names the runner for as long as it runs.
THEOREM LockNamesRunner == LockSpec => []StatusNamesRunner
<1>1. LockInv => StatusNamesRunner
  BY DEF LockInv, NoRaceInv, StatusNamesRunner, Running, Reported, Alive
<1> QED BY <1>1, LockInvariant, PTL
=============================================================================
