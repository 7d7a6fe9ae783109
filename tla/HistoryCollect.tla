--------------------------- MODULE HistoryCollect ---------------------------
(***************************************************************************)
(* The collection of MT5 ticks (data/history.py, collector.py,             *)
(* parquet_store.py) and the sealing of the holdout (holdout.py): slices   *)
(* of one UTC day with a manifest each, resumed from the manifests; ticks  *)
(* merged into daily partitions; bars rebuilt from what is stored.         *)
(*                                                                         *)
(* A tick is its time and a number among the ticks of that time.  A bar is *)
(* its opening time, the ticks it is made of, in order, and whether a      *)
(* later bar has closed it.  Of the three timeframes M1 is fed with ticks, *)
(* the others with M1 bars in the same way: one of them is kept, "M5".     *)
(***************************************************************************)
EXTENDS Integers, SequencesExt

CONSTANTS
  None, Torn,  \* no file; a file that a death left half written
  Market,      \* ticks [time, n] that the terminal ever has
  DayLength,   \* instants in a UTC day
  Long,        \* instants in a bar of the longer timeframe
  PageLength,  \* chunk_minutes: instants asked for in one call
  Ranges,      \* ranges <<start, end>> that a command may be given
  Horizon,     \* bound: the clock stops here
  MaxDeaths    \* bound: processes killed

ASSUME HistoryAssumption ==
  /\ DayLength \in Nat \ {0} /\ Long \in Nat \ {0} /\ PageLength \in Nat \ {0}
  /\ DayLength % Long = 0
  /\ \A r \in Ranges : r[1] \in Nat /\ r[2] \in Nat /\ r[1] < r[2]

VARIABLES
  command,    \* "history" or "holdout": the command that is used on this root
  now,        \* the clock
  ticks,      \* tick partitions: a sequence for each day
  bars,       \* bar partitions: a sequence for each timeframe and day
  manifests,  \* manifest of each slice: None, Torn or a record
  seal,       \* .holdout-sealed.json: None, Torn or a record
  pc,         \* where the process stands, "idle" without one
  run,        \* its range
  slices,     \* slices that remain
  unique,     \* ticks accepted for the first of them
  fetched,    \* history: when they were fetched
  refused,    \* history: what stopped the last process, None if it ended well
  deaths

vars == <<command, now, ticks, bars, manifests, seal, pc, run, slices, unique, fetched, refused, deaths>>

Day(time) == time \div DayLength
Days == 0 .. Day(Horizon)
Timeframes == {"M1", "M5"}
Width(timeframe) == IF timeframe = "M1" THEN 1 ELSE Long
Bucket(timeframe, time) == (time \div Width(timeframe)) * Width(timeframe)

\* Sorted by time; ticks of one time keep their order.
Sorted(s) == FlattenSeq([i \in 1 .. Horizon + 1 |-> SelectSeq(s, LAMBDA t : t.time = i - 1)])

\* The first of each kind stays.
Distinct(s) == FoldLeft(LAMBDA out, t : IF Contains(out, t) THEN out ELSE Append(out, t), <<>>, s)

-----------------------------------------------------------------------------
\* The ticks that a call returns: both ends are included.
CopyTicksRange(start, end) ==
  SetToSortSeq({t \in Market : start <= t.time /\ t.time <= end /\ t.time < now},
               LAMBDA a, b : a.time < b.time \/ (a.time = b.time /\ a.n < b.n))

DailyChunks(start, end) ==
  [i \in 1 .. Day(end - 1) - Day(start) + 1 |->
     LET day == Day(start) + i - 1
     IN <<Max({start, day * DayLength}), Min({end, (day + 1) * DayLength})>>]

\* Fault: the pages of a slice are taken as half open, its end as its last page's.
CollectedOpen(slice) ==
  SelectSeq(CopyTicksRange(slice[1], slice[2]), LAMBDA t : slice[1] < t.time /\ t.time < slice[2])

\* What collect_ticks accepts of a slice: page after page, cut to the half open
\* slice, sorted, and without the ticks that two pages have both returned.
Collected(slice) ==
  LET pages == (slice[2] - slice[1] + PageLength - 1) \div PageLength
      Page(i) == CopyTicksRange(slice[1] + (i - 1) * PageLength,
                                Min({slice[1] + i * PageLength, slice[2]}))
      rows == FlattenSeq([i \in 1 .. pages |-> Page(i)])
  IN Distinct(Sorted(SelectSeq(rows, LAMBDA t : slice[1] <= t.time /\ t.time < slice[2])))

\* IncrementalBarBuilder: what was closed and the bar under way.
Add(timeframe, b, open, content) ==
  LET bucket == Bucket(timeframe, open)
  IN IF b.state # None /\ b.state.open = bucket
     THEN [b EXCEPT !.state.ticks = @ \o content]
     ELSE [closed |-> IF b.state = None THEN b.closed
                      ELSE Append(b.closed, [b.state EXCEPT !.complete = TRUE]),
           state |-> [open |-> bucket, ticks |-> content, complete |-> FALSE]]

Flushed(b) == IF b.state = None THEN b.closed ELSE Append(b.closed, b.state)

\* Fault: the last bar is left out instead of being kept as incomplete.
BuildBarsClosed(timeframe, s) ==
  LET empty == [closed |-> <<>>, state |-> None]
  IN FoldLeft(LAMBDA b, t : Add(timeframe, b, t.time, <<t>>), empty, s).closed

BuildBars(timeframe, s) ==
  LET empty == [closed |-> <<>>, state |-> None]
      M1 == Flushed(FoldLeft(LAMBDA b, t : Add("M1", b, t.time, <<t>>), empty, s))
  IN IF timeframe = "M1" THEN M1
     ELSE Flushed(FoldLeft(LAMBDA b, bar : Add(timeframe, b, bar.open, bar.ticks), empty, M1))

\* _merge_partition, of the rows that belong to the day.
Merged(day, s) == Sorted(Distinct(ticks[day] \o SelectSeq(s, LAMBDA t : Day(t.time) = day)))

-----------------------------------------------------------------------------
Slices == UNION {Range(DailyChunks(r[1], r[2])) : r \in Ranges}

Init ==
  /\ command \in {"history", "holdout"}
  /\ now = 0
  /\ ticks = [d \in Days |-> <<>>]
  /\ bars = [f \in Timeframes |-> [d \in Days |-> <<>>]]
  /\ manifests = [s \in Slices |-> None]
  /\ seal = None
  /\ pc = "idle"
  /\ run = None /\ slices = <<>> /\ unique = <<>> /\ fetched = 0
  /\ refused = None
  /\ deaths = 0

Tick ==
  /\ now < Horizon
  /\ now' = now + 1
  /\ UNCHANGED <<command, ticks, bars, manifests, seal, pc, run, slices, unique, fetched, refused, deaths>>

Files == <<command, now, ticks, bars, manifests, seal>>

Stop(why) ==
  /\ pc' = "idle"
  /\ run' = None /\ slices' = <<>> /\ unique' = <<>> /\ fetched' = 0
  /\ refused' = why

\* Fault: the range of the seal is not compared.
StartAnyway(r) ==
  /\ pc = "idle"
  /\ pc' = "slice" /\ run' = r /\ slices' = DailyChunks(r[1], r[2])
  /\ refused' = None
  /\ UNCHANGED <<Files, unique, fetched, deaths>>

\* The command starts; on a holdout it first looks at the seal.
Start(r) ==
  /\ pc = "idle"
  /\ IF command = "history" \/ seal = None \/ (seal # Torn /\ seal.range = r)
     THEN /\ pc' = "slice" /\ run' = r /\ slices' = DailyChunks(r[1], r[2])
          /\ refused' = None
          /\ UNCHANGED <<unique, fetched>>
     ELSE Stop(IF seal = Torn THEN Torn ELSE "sealed")
  /\ UNCHANGED <<Files, deaths>>

\* A slice that has a manifest is skipped; a manifest that cannot be read stops
\* the run; the ticks of any other slice are fetched, or a call fails.
Slice ==
  /\ pc = "slice" /\ slices # <<>>
  /\ LET manifest == manifests[Head(slices)]
     IN \/ /\ manifest \notin {None, Torn}
           /\ slices' = Tail(slices)
           /\ UNCHANGED <<pc, run, unique, fetched, refused>>
        \/ /\ manifest = Torn
           /\ Stop(Torn)
        \/ /\ manifest = None
           /\ unique' = Collected(Head(slices))
           /\ fetched' = now
           /\ pc' = IF unique' = <<>> THEN "manifest" ELSE "ticks"
           /\ UNCHANGED <<run, slices, refused>>
        \/ /\ manifest = None
           /\ Stop("terminal")
  /\ UNCHANGED <<Files, deaths>>

WriteTicks ==
  /\ pc = "ticks"
  /\ ticks' = [d \in Days |-> Merged(d, unique)]
  /\ pc' = "M1"
  /\ UNCHANGED <<command, now, bars, manifests, seal, run, slices, unique, fetched, refused, deaths>>

Rebuilt(timeframe, day) == BuildBars(timeframe, ticks[day])

\* write_bars with replace, one timeframe after the other.
WriteBars ==
  /\ pc \in Timeframes
  /\ bars' = [bars EXCEPT ![pc] =
                [d \in Days |-> IF \E t \in Range(unique) : Day(t.time) = d
                                THEN Rebuilt(pc, d) ELSE @[d]]]
  /\ pc' = IF pc = "M1" THEN "M5" ELSE "manifest"
  /\ UNCHANGED <<command, now, ticks, manifests, seal, run, slices, unique, fetched, refused, deaths>>

WriteManifest ==
  /\ pc = "manifest"
  /\ manifests' = [manifests EXCEPT ![Head(slices)] = [accepted |-> Len(unique), at |-> fetched]]
  /\ slices' = Tail(slices)
  /\ unique' = <<>> /\ fetched' = 0
  /\ pc' = "slice"
  /\ UNCHANGED <<command, now, ticks, bars, seal, run, refused, deaths>>

Stored == FlattenSeq([i \in 1 .. Day(Horizon) + 1 |-> ticks[i - 1]])

\* All slices are done: the holdout is validated and sealed.
Finish ==
  /\ pc = "slice" /\ slices = <<>>
  /\ IF command = "holdout" /\ \E t \in Range(Stored) : t.time < run[1] \/ t.time >= run[2]
     THEN Stop("outside") /\ UNCHANGED seal
     ELSE /\ Stop(None)
          /\ seal' = IF command = "holdout" THEN [range |-> run, ticks |-> Len(Stored)]
                     ELSE seal
  /\ UNCHANGED <<command, now, ticks, bars, manifests, deaths>>

\* The process is killed.  A partition is replaced as a whole; a manifest and a
\* seal are written in place, and may be found half written.
Die ==
  /\ pc # "idle"
  /\ deaths < MaxDeaths
  /\ deaths' = deaths + 1
  /\ Stop("killed")
  /\ manifests' \in {manifests} \union
       (IF pc = "manifest" THEN {[manifests EXCEPT ![Head(slices)] = Torn]} ELSE {})
  /\ seal' \in {seal} \union
       (IF pc = "slice" /\ slices = <<>> /\ command = "holdout" THEN {Torn} ELSE {})
  /\ UNCHANGED <<command, now, ticks, bars>>

Next ==
  \/ Tick
  \/ \E r \in Ranges : Start(r)
  \/ Slice \/ WriteTicks \/ WriteBars \/ WriteManifest \/ Finish
  \/ Die

Spec == Init /\ [][Next]_vars

-----------------------------------------------------------------------------
Valid(manifest) == manifest \notin {None, Torn}

\* How often a sequence of bars holds a tick.
Held(partition, t) ==
  FoldLeft(LAMBDA n, bar : n + Len(SelectSeq(bar.ticks, LAMBDA u : u = t)), 0, partition)

(***************************************************************************)
(* A slice whose manifest can be read, and whose time had passed when it   *)
(* was fetched, is stored: each of its ticks is once in its partition and  *)
(* once in the bars of each timeframe, whatever other slices of the same   *)
(* day were written before or after it, or were interrupted; no tick is    *)
(* stored twice (collect_history, collect_ticks, ParquetStore).            *)
(***************************************************************************)
CompletedSlicesAreStored ==
  /\ \A d \in Days : IsInjective(ticks[d])
  /\ \A s \in Slices :
       Valid(manifests[s]) /\ manifests[s].at >= s[2] =>
         \A t \in {u \in Market : s[1] <= u.time /\ u.time < s[2]} :
           /\ Contains(ticks[Day(t.time)], t)
           /\ \A f \in Timeframes : Held(bars[f][Day(t.time)], t) = 1

(***************************************************************************)
(* Built in one pass, the bars are what their definition says: one bar for *)
(* each interval that has a tick, in order, with the ticks of that         *)
(* interval, and every bar but the day's last is complete (build_bars).    *)
(***************************************************************************)
BarsAreIntervals ==
  \A f \in Timeframes, d \in Days :
    LET partition == bars[f][d]
        content == FlattenSeq([i \in DOMAIN partition |-> partition[i].ticks])
        opens == {Bucket(f, t.time) : t \in Range(content)}
    IN /\ {partition[i].open : i \in DOMAIN partition} = opens
       /\ \A i \in DOMAIN partition :
            /\ partition[i].ticks = SelectSeq(content, LAMBDA t : Bucket(f, t.time) = partition[i].open)
            /\ partition[i].complete <=> i < Len(partition)
            /\ i < Len(partition) => partition[i].open < partition[i + 1].open
       /\ pc = "idle" /\ deaths = 0 => content = ticks[d]

(***************************************************************************)
(* A sealed holdout keeps its range and its content: what it counts is     *)
(* what the partitions hold, all of it inside the range, and, when the     *)
(* range had passed at each download, everything the terminal had          *)
(* (collect_holdout_command, validate_and_seal_holdout).                   *)
(***************************************************************************)
SealHoldsItsRange ==
  command = "holdout" /\ seal \notin {None, Torn} =>
    /\ seal.ticks = Len(Stored)
    /\ \A t \in Range(Stored) : seal.range[1] <= t.time /\ t.time < seal.range[2]
    /\ \A s \in Range(DailyChunks(seal.range[1], seal.range[2])) : Valid(manifests[s])
=============================================================================
