--------------------------- MODULE ForwardRunner ---------------------------
(***************************************************************************)
(* ForwardPaperRunner: the process that advances one paper account by one  *)
(* cycle per five-minute bar, with its checkpoint files and its event log. *)
(*                                                                         *)
(* The process may die at any point and be started again, any read or      *)
(* write may fail, and a stop may be requested at any time.  The account   *)
(* lives in memory (mem) and in state.json (file); the two differ from the *)
(* moment a cycle changes the account until its checkpoint.                *)
(*                                                                         *)
(* What mark and process_signal may do to the account is left to the rules *)
(* of Ledger, which PaperEngine implements.  A bar lasts Slot; a cycle     *)
(* that starts at the close of its bar is in time, one that starts at any  *)
(* later instant is more than 60 seconds late.                             *)
(***************************************************************************)
EXTENDS Ledger

CONSTANTS
  Slot,       \* length of a bar (5 minutes)
  MaxCycle,   \* longest time from the close of a bar to the decision on it
  MaxErrors,  \* bound: technical errors
  MaxDeaths   \* bound: deaths of the process

ASSUME RunnerAssumption ==
  /\ Slot \in Nat \ {0}
  /\ MaxCycle \in Nat
  /\ MaxErrors \in Nat
  /\ MaxDeaths \in Nat
  /\ None \notin {"boot", "cycle", "late", "stale", "stop"}
  /\ None \notin ClosedOrders

VARIABLES
  now,     \* the wall clock
  pc,      \* the point reached by the process, "down" when there is none
  stop,    \* stop_requested
  target,  \* next_signal_time, the close of the bar under way
  route,   \* why the reports are being written
  mem,     \* the ForwardPaperState in memory: [ledger, last]
  file,    \* state.json
  status,  \* status.json
  event,   \* the execution event that is being appended
  log,     \* events.jsonl: [decided, skipped, entries, exits]
  first,   \* history: the first bar that a checkpoint recorded
  errors,  \* history: technical errors so far
  deaths   \* history: deaths so far

disk == <<file, status, log, first>>
faults == <<errors, deaths>>
vars == <<now, pc, stop, target, route, mem, event, disk, faults>>

\* The bars close at the multiples of Slot.
Aligned(t) == \E k \in 0 .. t : t = k * Slot
Signals == {s \in Times : Aligned(s)}

Boundary(t) == (t \div Slot) * Slot

\* Fault: the bar just handled does not count as handled.
HandledBefore(state, s) == state.last # None /\ s < state.last

\* A state whose last_processed_signal_time is None has handled nothing.
Handled(state, s) == state.last # None /\ s <= state.last

-----------------------------------------------------------------------------
Fresh == [ledger |-> EmptyLedger, last |-> None]

Init ==
  /\ now = 0
  /\ pc = "down"
  /\ stop = FALSE
  /\ target = 0
  /\ route = None
  /\ mem = Fresh
  /\ file = Fresh
  /\ status = Fresh
  /\ event = None
  /\ log = [decided |-> [s \in Signals |-> 0], skipped |-> {}, entries |-> {}, exits |-> {}]
  /\ first = None
  /\ errors = 0
  /\ deaths = 0

Goto(here, there) == pc = here /\ pc' = there

\* The clock is read when the process waits, when it starts a cycle and when
\* it decides, after the repair of the minute bars; it moves only there.  The
\* repair is what makes a cycle long.
Tick ==
  /\ pc \in {"down", "boot", "wait", "error", "repair"}
  /\ now' \in now .. Horizon
  /\ pc = "repair" => now' <= target + MaxCycle
  /\ UNCHANGED <<pc, stop, target, route, mem, event, disk, faults>>

\* Fault: a restarted process begins with an empty account.
StartAfresh ==
  /\ Goto("down", "boot")
  /\ mem' = Fresh
  /\ stop' = FALSE
  /\ UNCHANGED <<now, target, route, event, disk, faults>>

\* run_forever takes the lock, loads the checkpoint and repairs the history.
Start ==
  /\ Goto("down", "boot")
  /\ mem' = file
  /\ stop' = FALSE
  /\ UNCHANGED <<now, target, route, event, disk, faults>>

Bootstrap ==
  /\ Goto("boot", "state")
  /\ route' = "boot"
  /\ UNCHANGED <<now, stop, target, mem, event, disk, faults>>

\* Fault: a late bar is left alone instead of being skipped.
BeginOnTimeOnly ==
  /\ pc = "wait"
  /\ ~stop
  /\ now >= target
  /\ \/ /\ Handled(mem, target)
        /\ pc' = "state" /\ route' = "stale"
     \/ /\ ~Handled(mem, target) /\ now = target
        /\ pc' = "repair" /\ route' = "cycle"
  /\ UNCHANGED <<now, stop, target, mem, event, disk, faults>>

\* run_cycle, up to the point where it knows what to do with its bar.
Begin ==
  /\ pc = "wait"
  /\ ~stop
  /\ now >= target
  /\ \/ /\ Handled(mem, target)
        /\ pc' = "state" /\ route' = "stale"
     \/ /\ ~Handled(mem, target) /\ now > target
        /\ pc' = "skip" /\ route' = "late"
     \/ /\ ~Handled(mem, target) /\ now = target
        /\ pc' = "repair" /\ route' = "cycle"
  /\ UNCHANGED <<now, stop, target, mem, event, disk, faults>>

\* The minute bars are complete, ranked and quoted, or the bar is skipped.
Repair ==
  /\ \/ Goto("repair", "mark")
     \/ Goto("repair", "skip")
  /\ UNCHANGED <<now, stop, target, route, mem, event, disk, faults>>

\* An exit changes the account at once and leaves its event to be appended.
ExitNow ==
  /\ mem.ledger.open # None
  /\ mem' = [mem EXCEPT !.ledger = Exit(@, now)]
  /\ event' = Closed(mem.ledger.open, now)

Unmoved == UNCHANGED <<mem, event>>

Mark ==
  /\ \/ Goto("mark", "logMark") /\ ExitNow
     \/ Goto("mark", "signal") /\ Unmoved
  /\ UNCHANGED <<now, stop, target, route, disk, faults>>

\* Fault: the order carries the time of the next bar.
EnterForNextBar ==
  /\ CanEnter(mem.ledger, now)
  /\ mem' = [mem EXCEPT !.ledger = Enter(@, target + Slot, now)]
  /\ event' = [signal |-> target + Slot, entry |-> now]

EnterNow ==
  /\ CanEnter(mem.ledger, now)
  /\ mem' = [mem EXCEPT !.ledger = Enter(@, target, now)]
  /\ event' = [signal |-> target, entry |-> now]

ProcessSignal ==
  /\ \/ Goto("signal", "logSignal") /\ (ExitNow \/ EnterNow)
     \/ Goto("signal", "decide") /\ Unmoved
  /\ UNCHANGED <<now, stop, target, route, disk, faults>>

\* _append_execution_event.
Logged(e) ==
  IF e \in ClosedOrders
  THEN [log EXCEPT !.exits = @ \union {e}]
  ELSE [log EXCEPT !.entries = @ \union {e}]

AppendExecution ==
  /\ \/ Goto("logMark", "signal")
     \/ Goto("logSignal", "decide")
  /\ log' = Logged(event)
  /\ event' = None
  /\ UNCHANGED <<now, stop, target, route, mem, file, status, first, faults>>

\* _append_decision_event, and the mark in memory that the bar is handled: the
\* event says SKIPPED_DATA_QUALITY when the bar is late or its data incomplete.
Decide ==
  /\ Goto("decide", "state") \/ Goto("skip", "state")
  /\ log' = [log EXCEPT !.decided[target] = @ + 1,
                        !.skipped = IF pc = "skip" THEN @ \union {target} ELSE @]
  /\ mem' = [mem EXCEPT !.last = target]
  /\ UNCHANGED <<now, stop, target, route, event, file, status, first, faults>>

\* Fault: the status is written first.
WriteStatusFirst ==
  /\ Goto("state", "reports")
  /\ status' = mem
  /\ UNCHANGED <<now, stop, target, route, mem, event, file, log, first, faults>>

\* _write_reports: state.json, then status.json and the daily report.
WriteState ==
  /\ Goto("state", "reports")
  /\ file' = mem
  /\ first' = IF first = None THEN mem.last ELSE first
  /\ UNCHANGED <<now, stop, target, route, mem, event, status, log, faults>>

\* Fault: after a late bar the process jumps to the present.
NextTargetIsNow ==
  CASE route = "boot" /\ mem.last # None -> mem.last + Slot
    [] route \in {"boot", "late"} -> Boundary(now) + Slot
    [] route = "stale" -> target + Slot
    [] OTHER -> target

\* next_signal_time when the reports are written: the first one comes from the
\* checkpoint or from the clock, the others follow one by one; a full cycle has
\* its market data to collect first.
NextTarget ==
  CASE route = "boot" /\ mem.last # None -> mem.last + Slot
    [] route = "boot" /\ mem.last = None -> Boundary(now) + Slot
    [] route \in {"late", "stale"} -> target + Slot
    [] OTHER -> target

\* With a process goes what it held in memory; the account comes back from the
\* checkpoint.
Gone == stop' = FALSE /\ target' = 0 /\ route' = None

WriteReports ==
  /\ pc = "reports"
  /\ status' = mem
  /\ pc' = CASE route = "cycle" -> "collect"
             [] route = "stop" -> "down"
             [] OTHER -> "wait"
  /\ \/ route = "stop" /\ Gone
     \/ route # "stop" /\ target' = NextTarget /\ UNCHANGED <<stop, route>>
  /\ UNCHANGED <<now, mem, event, file, log, first, faults>>

\* The market data and the depth are collected after the checkpoint.
Collect ==
  /\ Goto("collect", "wait")
  /\ target' = target + Slot
  /\ UNCHANGED <<now, stop, route, mem, event, disk, faults>>

\* A stop signal is obeyed when the process is back in its loop; it writes the
\* account it has in memory, be it in the middle of a failed cycle.
RequestStop ==
  /\ pc # "down" /\ ~stop
  /\ stop' = TRUE
  /\ UNCHANGED <<now, pc, target, route, mem, event, disk, faults>>

Stop ==
  /\ stop
  /\ Goto("wait", "state")
  /\ route' = "stop"
  /\ UNCHANGED <<now, stop, target, mem, event, disk, faults>>

-----------------------------------------------------------------------------
\* A read or a write of run_cycle fails with an error that run_forever catches:
\* what the cycle has done to the account in memory stays done.
Fallible == {"repair", "logMark", "logSignal", "decide", "skip", "state", "reports", "collect"}

Fail ==
  /\ errors < MaxErrors
  /\ pc \in Fallible
  /\ route \in {"cycle", "late", "stale"}
  /\ pc' = "error"
  /\ event' = None
  /\ errors' = errors + 1
  /\ UNCHANGED <<now, stop, target, route, mem, disk, deaths>>

\* Fault: the checkpoint is loaded again after an error.
RetryFromCheckpoint ==
  /\ Goto("error", "wait")
  /\ mem' = file
  /\ UNCHANGED <<now, stop, target, route, event, disk, faults>>

\* _record_technical_error and the back-off; the same bar is tried again.
Retry ==
  /\ Goto("error", "wait")
  /\ UNCHANGED <<now, stop, target, route, mem, event, disk, faults>>

\* The process is killed, or an exception that run_forever does not catch ends
\* it (the checks of the exchange state, an error while an error is recorded,
\* any error of the bootstrap).  Only the files remain.
Die ==
  /\ deaths < MaxDeaths
  /\ pc # "down" /\ pc' = "down" /\ Gone
  /\ mem' = file
  /\ event' = None
  /\ deaths' = deaths + 1
  /\ UNCHANGED <<now, disk, errors>>

Cycle ==
  \/ Bootstrap \/ Begin \/ Repair \/ Mark \/ ProcessSignal \/ AppendExecution
  \/ Decide \/ WriteState \/ WriteReports \/ Collect \/ Stop \/ Retry

Next == Tick \/ Start \/ Cycle \/ RequestStop \/ Fail \/ Die

\* A process that runs does not stall: its calls return or fail, and its
\* sleeps end.  Nothing obliges anyone to start it, nor the clock to advance.
Spec == Init /\ [][Next]_vars /\ WF_vars(Cycle)

-----------------------------------------------------------------------------
States == [ledger : Ledgers, last : Signals \union {None}]

Points == {"down", "boot", "wait", "repair", "mark", "logMark", "signal", "logSignal",
           "decide", "skip", "state", "reports", "collect", "error"}

\* The types of the process and of its files.
TypeOK ==
  /\ now \in Times
  /\ pc \in Points
  /\ stop \in BOOLEAN
  /\ target \in Nat
  /\ route \in {None, "boot", "cycle", "late", "stale", "stop"}
  /\ mem \in States /\ file \in States /\ status \in States
  /\ event \in OpenOrders \union ClosedOrders \union {None}
  /\ log \in [decided : [Signals -> Nat], skipped : SUBSET Signals,
              entries : SUBSET OpenOrders, exits : SUBSET ClosedOrders]
  /\ first \in Signals \union {None}
  /\ errors \in 0 .. MaxErrors /\ deaths \in 0 .. MaxDeaths

\* Every bar from the first one that was checkpointed to the last one has its
\* decision in the event log, through crashes, late starts and failed writes:
\* bars are caught up one by one, none is jumped over.
EveryBarIsDecided ==
  file.last # None =>
    \A s \in Signals : first <= s /\ s <= file.last => log.decided[s] > 0

\* A bar is decided a second time only by a process that has lost the memory of
\* the first: each death of the process repeats at most one decision, and the
\* retries after technical errors repeat none.
Repeated == UNION {{s} \X (2 .. log.decided[s]) : s \in Signals}
Repeats == Cardinality(Repeated)

DecisionsRepeatOnlyAfterDeaths == Repeats <= deaths

\* The entries and exits of the account in memory, less the one whose event is
\* still to be appended.
Orders(state) ==
  {[signal |-> t.signal, entry |-> t.entry] : t \in state.ledger.done}
    \union ({state.ledger.open} \ {None})

Entered == Orders(mem) \ {event}
Exited == mem.ledger.done \ {event}

Missing == Cardinality(Entered \ log.entries) + Cardinality(Exited \ log.exits)
Phantom == Cardinality(log.entries \ Entered) + Cardinality(log.exits \ Exited)

\* The event log and the account tell the same story but for the faults: an
\* event that the account has and the log has not was lost by an error, one
\* error for each; an event that the log has and the account has not was
\* undone by a death, and without a death there is none.
LogDiffersOnlyByFaults ==
  /\ Missing <= errors
  /\ deaths = 0 => Phantom = 0
  /\ Phantom <= deaths + errors

\* A bar whose decision says that it was skipped has no order, unless a fault
\* came between the two: the account entered, the cycle failed, and its retry
\* was late or found its data incomplete; or the skip was logged, the process
\* died before the checkpoint said so, and its successor came in time to find
\* the data complete and to enter.  Each such bar has its error or its death.
SkippedBarsHaveNoOrder ==
  Cardinality({s \in log.skipped : \E o \in Orders(mem) : o.signal = s}) <= errors + deaths

\* The checkpointed account obeys the rules of PaperLedger, although memory is
\* thrown away by deaths and kept by failed cycles.
Checkpoint == INSTANCE PaperLedger WITH ledger <- file.ledger

CheckpointObeysRules == Checkpoint!RoundTripsApart /\ Checkpoint!EntryBudgetKept

\* The status report never shows a bar or a trade that the checkpoint lacks.
StatusNeverAhead ==
  /\ status.last # None => Handled(file, status.last)
  /\ status.ledger.done \subseteq file.ledger.done

\* No write of the checkpoint forgets a closed trade or a handled bar.
CheckpointNeverRegresses ==
  [][/\ file.ledger.done \subseteq file'.ledger.done
     /\ file.last # None => Handled(file', file.last)
     /\ \A d \in Days : file.ledger.entries[d] <= file'.ledger.entries[d]]_vars

\* A process that is neither killed nor asked to stop eventually checkpoints
\* every bar that has closed, however its errors and its delays fall.
EveryClosedBarIsHandled ==
  \A s \in Signals :
    (pc = "wait" /\ target = s /\ now >= s) ~> (Handled(file, s) \/ pc = "down" \/ stop)

-----------------------------------------------------------------------------
(***************************************************************************)
(* The strengthening that makes StatusNeverAhead and EveryBarIsDecided     *)
(* inductive.                                                              *)
(***************************************************************************)
\* The second state knows all that the first knows.
Behind(a, b) ==
  /\ a.ledger.done \subseteq b.ledger.done
  /\ a.last # None => Handled(b, a.last)
  /\ \A d \in Days : a.ledger.entries[d] <= b.ledger.entries[d]

\* The status is behind the checkpoint and the checkpoint behind the memory;
\* the two meet when the checkpoint has just been written or loaded.
FilesInv ==
  /\ Behind(status, file) /\ Behind(file, mem)
  /\ pc \in {"down", "reports", "collect"} => mem = file

\* The bar under way has closed and is not handled before its decision.
Working == {"repair", "mark", "logMark", "signal", "logSignal", "decide", "skip"}
BarInv == pc \in Working => target <= now /\ ~Handled(mem, target)

\* An exit or an entry just made has its event to append.
EventInv == pc \in {"logMark", "logSignal"} => event \in OpenOrders \union ClosedOrders

\* Once the first target is known it is the last bar handled or the next one.
Looping == pc \notin {"down", "boot"} /\ (route = "boot" => pc \notin {"state", "reports"})

TargetInv ==
  /\ Looping => Aligned(target) /\ (mem.last # None => target \in {mem.last, mem.last + Slot})
  /\ pc \in {"state", "reports", "collect"} /\ route \in {"cycle", "late", "stale"} =>
       mem.last = target
  /\ pc = "collect" => route = "cycle"
  /\ pc \notin {"down", "boot"} => route # None

\* The bars are decided up to the last one that a state remembers.
DecidedUpTo(last) ==
  /\ log.decided[last] > 0
  /\ first # None =>
       /\ first <= last
       /\ \A s \in Signals : first <= s /\ s <= last => log.decided[s] > 0

DecidedInv ==
  /\ mem.last # None => DecidedUpTo(mem.last)
  /\ file.last # None => DecidedUpTo(file.last)
  /\ file.last # None <=> first # None

RunnerInv == TypeOK /\ FilesInv /\ EventInv /\ BarInv /\ TargetInv /\ DecidedInv

-----------------------------------------------------------------------------
(***************************************************************************)
(* The strengthening that makes DecisionsRepeatOnlyAfterDeaths inductive.  *)
(***************************************************************************)
\* A bar is worked on in a full cycle, or it is skipped as late.
RouteInv ==
  /\ pc \in Working => route \in {"cycle", "late"}
  /\ pc \in Working \ {"skip"} => route = "cycle"

\* The bar after the last one of the checkpoint was decided, and the process
\* that decided it died before it could say so in the checkpoint.
Forgotten ==
  /\ file.last # None
  /\ \E s \in Signals : s = file.last + Slot /\ log.decided[s] > 0 /\ ~Handled(mem, s)

\* A repetition, done or to come, has its death.
RepeatsHaveDeaths ==
  /\ IsFiniteSet(Repeated)
  /\ Repeats + (IF Forgotten THEN 1 ELSE 0) <= deaths

\* The decisions are of closed bars, at most one ahead of the checkpoint, and
\* the next one is ahead of them all where nothing is remembered.
DecisionsBounded ==
  \A s \in Signals : log.decided[s] > 0 =>
    /\ s <= now
    /\ file.last # None => s <= file.last + Slot
    /\ mem.last # None /\ mem.last # file.last => s <= mem.last
    /\ mem.last = None /\ Looping => s < target

\* The memory is ahead of the checkpoint by the bar under way, once that bar is
\* decided; a process begins with its checkpoint.
OneBarAhead ==
  /\ mem.last # file.last =>
       /\ Looping => target = mem.last
       /\ file.last # None => mem.last = file.last + Slot
  /\ pc \in Working => mem.last = file.last
  /\ pc = "boot" \/ (pc = "state" /\ route = "boot") => mem = file

DecisionInv == RepeatsHaveDeaths /\ DecisionsBounded /\ OneBarAhead

(***************************************************************************)
(* The strengthening that makes SkippedBarsHaveNoOrder inductive.          *)
(***************************************************************************)
OrderedBars(state) == {o.signal : o \in Orders(state)}
Unhandled(state) == {s \in OrderedBars(state) : ~Handled(state, s)}

\* The order of the bar under way is safe unless its cycle fails or dies.
UnderWay == IF pc \in {"logSignal", "decide"} /\ route = "cycle" THEN {target} ELSE {}

\* The skipped bars that a process may come to work on again: the checkpoint
\* lacks them, and they are not the one that the memory has just handled.
Reopened ==
  {s \in log.skipped : ~Handled(file, s) /\ (mem.last # file.last => s # mem.last)}

\* The bars that are, or may still come to be, skipped and ordered: the skipped
\* bars with an order, the bars with an order that will be decided again, and
\* the skipped bars that may be.
AtRisk ==
  (log.skipped \intersect OrderedBars(mem))
    \union Unhandled(file)
    \union (Unhandled(mem) \ UnderWay)
    \union Reopened

SkipInv ==
  /\ Cardinality(AtRisk) <= errors + deaths
  \* the memory has every order of the checkpoint
  /\ Orders(file) \subseteq Orders(mem)

(***************************************************************************)
(* The strengthening that makes LogDiffersOnlyByFaults inductive.          *)
(***************************************************************************)
\* The entries and the exits of an account, and those of the log.
Story(state) == Orders(state) \union state.ledger.done
Told == log.entries \union log.exits

\* An event was appended since the checkpoint and by the cycle under way: it is
\* the only one, since no position is entered at the instant of an exit.
Ahead ==
  /\ (Told \intersect Story(mem)) \ Story(file) # {}
  /\ \/ pc = "signal" /\ mem.ledger.open = None /\ mem.ledger.lastExit = now
     \/ pc \in {"decide", "state"} /\ route = "cycle"

\* An event is under way while it is appended; the account in memory has it and
\* the checkpoint lacks it.  An exit at its mark has left no position.
EventUnderWay ==
  /\ pc \notin {"logMark", "logSignal"} => event = None
  /\ pc \in {"logMark", "logSignal"} => event \in Story(mem) \ Story(file)
  /\ pc = "logMark" => mem.ledger.open = None /\ mem.ledger.lastExit = now
  /\ Story(file) \subseteq Story(mem)

\* An event that is missing in the log has its error.
Untold == (Story(mem) \ {event}) \ Told
UntoldHaveErrors == Cardinality(Untold) <= errors

\* An event that is missing in the checkpoint has its death or its error, or the
\* cycle under way has appended it.
Unsaved == Told \ Story(file)
UnsavedHaveFaults ==
  /\ Cardinality(Unsaved) <= deaths + errors + (IF Ahead THEN 1 ELSE 0)
  /\ deaths = 0 => Told \subseteq Story(mem) \ {event}

StoryInv == IsFiniteSet(Told) /\ EventUnderWay /\ UntoldHaveErrors /\ UnsavedHaveFaults
=============================================================================
