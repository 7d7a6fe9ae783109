---------------------------- MODULE MarketArchive ----------------------------
(***************************************************************************)
(* The archive of one symbol's minute candles, as the forward runner keeps *)
(* it: BinanceParquetStore.write, the repair of the history before a       *)
(* decision (repair_m1_continuity), the collection after the decision      *)
(* (collect_binance_market_data), and what a decision then loads           *)
(* (_load_recent_m1).                                                      *)
(*                                                                         *)
(* A candle is identified by the minute at which it opens.  What matters   *)
(* of its values is whether they are final: the exchange serves the candle *)
(* of the current minute too, with the values it has so far.  The clocks   *)
(* of the exchange and of the program agree.  The raw copies, which        *)
(* nothing reads, the other intervals, whose keys differ, and the stream's *)
(* updates of a forming candle, which no reader takes, are left out.       *)
(***************************************************************************)
EXTENDS Integers, FiniteSets, FiniteSetsExt

CONSTANTS
  Minutes,    \* bound: candles open at 0 .. Minutes - 1
  DayLength,  \* minutes in a day (1440): the partitions of the archive
  Window,     \* minutes that a repair looks back (30 hours)
  Page,       \* most candles that the exchange serves at once (1000)
  Recent,     \* candles that a collection asks for (10)
  Outages     \* the sets of minutes that the exchange may have no candle for

ASSUME ArchiveAssumption ==
  /\ {Minutes, DayLength, Window, Page, Recent} \subseteq Nat \ {0}
  /\ Outages \subseteq SUBSET (0 .. Minutes - 1)

VARIABLES
  now,      \* the clock, in minutes
  holes,    \* minutes for which the exchange has no candle
  parts,    \* the Parquet parts: [set, date, rows]
  pc,       \* the point reached by the runner
  from,     \* the window under repair ...
  end,
  observed, \* the time at which the repair, or the listening, began
  wanted,   \* the candles that were missing when it began
  cursor,   \* the next candle to ask for
  limit,    \* the end of the range under way
  batch     \* rows received and not yet stored

repair == <<from, end, observed, wanted, cursor, limit>>
vars == <<now, holes, parts, pc, repair, batch>>

Opens == 0 .. Minutes - 1
Date(m) == m \div DayLength
Between(a, b) == {m \in Opens : a <= m /\ m < b}

-----------------------------------------------------------------------------
(***************************************************************************)
(* The exchange: the candles that have begun, but for its holes.           *)
(***************************************************************************)
Final(m) == m + 1 <= now
Served == {m \in Opens \ holes : m <= now}

\* klines with a start, an end (excluded) and a limit: the oldest candles.
Oldest(S, n) == {m \in S : Cardinality({x \in S : x < m}) < n}

\* klines with a limit only: the newest candles.
Newest(S, n) == {m \in S : Cardinality({x \in S : x > m}) < n}

-----------------------------------------------------------------------------
(***************************************************************************)
(* BinanceParquetStore.write.  The first record of a key in the batch wins *)
(* and any record already stored wins over it, but only the parts of one   *)
(* date are looked at, that of the first record of the batch, and the      *)
(* whole batch goes there.  A part is named by its content: writing the    *)
(* same one twice changes nothing.                                         *)
(***************************************************************************)
Keys == [open : Opens, closed : BOOLEAN]
Rows == [open : Opens, closed : BOOLEAN, final : BOOLEAN]
Key(row) == [open |-> row.open, closed |-> row.closed]

AllRows(set) == UNION {p.rows : p \in {q \in parts : q.set = set}}
RowsOf(set, date) == UNION {p.rows : p \in {q \in parts : q.set = set /\ q.date = date}}

Stored(set, first, rows) ==
  LET date == Date(first)
      fresh == {r \in rows : \A s \in RowsOf(set, date) : Key(s) # Key(r)}
  IN IF fresh = {} THEN parts
     ELSE parts \union {[set |-> set, date |-> date, rows |-> fresh]}

\* Fault: a candle stored while it was forming counts as archived.
ArchivedEvenOpen == {r.open : r \in AllRows("historical_m1") \union AllRows("klines")}

\* archived_m1_times: both datasets, all dates, closed candles only.
Archived == {r.open : r \in {x \in AllRows("historical_m1") \union AllRows("klines") : x.closed}}

\* inspect_m1_continuity
MissingIn(a, b) == Between(a, b) \ Archived

-----------------------------------------------------------------------------
Init ==
  /\ now = 0
  /\ holes \in Outages
  /\ parts = {}
  /\ pc = "idle"
  /\ from = 0 /\ end = 0 /\ observed = 0
  /\ wanted = {}
  /\ cursor = 0 /\ limit = 0
  /\ batch = {}

Goto(here, there) == pc = here /\ pc' = there

\* The locals of a call end with it.
Forget ==
  /\ from' = 0 /\ end' = 0 /\ observed' = 0
  /\ wanted' = {}
  /\ cursor' = 0 /\ limit' = 0
  /\ batch' = {}

Tick ==
  /\ now < Minutes
  /\ now' = now + 1
  /\ UNCHANGED <<holes, parts, pc, repair, batch>>

-----------------------------------------------------------------------------
(***************************************************************************)
(* repair_m1_continuity.  The missing candles, from the first to the last, *)
(* are asked for in ranges of one page.                                    *)
(***************************************************************************)
EndOfRange(a) == Min({a + Page, Max(wanted) + 1})

\* The bootstrap repairs up to the present minute, a cycle up to the close of
\* its bar, which is at most 60 seconds old.
BeginRepair ==
  /\ pc = "idle"
  /\ observed' = now
  /\ \E target \in {t \in 0 .. now : now - t <= 1} :
       /\ end' = Min({target, observed'})
       /\ from' = IF target > Window THEN target - Window ELSE 0
  /\ wanted' = MissingIn(from', end')
  /\ IF wanted' = {}
     THEN pc' = "repaired" /\ UNCHANGED <<cursor, limit>>
     ELSE /\ pc' = "range"
          /\ cursor' = Min(wanted')
          /\ limit' = EndOfRange(cursor)'
  /\ UNCHANGED <<now, holes, parts, batch>>

\* Fault: every closed candle of the page is kept.
WantedClosed(m) == m + 1 <= observed

\* One page: only the candles that were missing, and had closed, when the
\* repair began are kept.
Wanted(m) == m \in wanted /\ m + 1 <= observed

\* Fault: an empty page does not end its range.
AfterPageAgain(payload) == IF payload = {} THEN cursor ELSE Max(payload) + 1

AfterPage(payload) == IF payload = {} THEN limit ELSE Max(payload) + 1

FetchPage ==
  /\ pc = "range"
  /\ cursor < limit
  /\ LET payload == Oldest(Served \intersect Between(cursor, limit), Min({Page, limit - cursor}))
     IN /\ cursor' = AfterPage(payload)
        /\ batch' = {[open |-> m, final |-> Final(m)] : m \in {x \in payload : Wanted(x)}}
        /\ pc' = IF payload = {} THEN "range" ELSE "page"
  /\ UNCHANGED <<now, holes, parts, from, end, observed, wanted, limit>>

\* normalize_rest_kline decides by the clock, after the answer, whether the
\* candle is closed.
Normalized(rows) ==
  {[open |-> r.open, closed |-> Final(r.open), final |-> r.final] : r \in rows}

StorePage ==
  /\ Goto("page", "range")
  /\ parts' = IF batch = {} THEN parts
              ELSE Stored("historical_m1", Min({r.open : r \in batch}),
                          {r \in Normalized(batch) : r.closed})
  /\ batch' = {}
  /\ UNCHANGED <<now, holes, repair>>

NextRange ==
  /\ pc = "range"
  /\ cursor >= limit
  /\ IF limit > Max(wanted)
     THEN pc' = "repaired" /\ UNCHANGED <<cursor, limit>>
     ELSE /\ cursor' = limit
          /\ limit' = EndOfRange(limit)
          /\ UNCHANGED pc
  /\ UNCHANGED <<now, holes, parts, from, end, observed, wanted, batch>>

\* The caller decides on the report and the cycle goes on, or is over.
Decide ==
  /\ pc = "repaired"
  /\ pc' \in {"collect", "idle"}
  /\ Forget
  /\ UNCHANGED <<now, holes, parts>>

-----------------------------------------------------------------------------
(***************************************************************************)
(* collect_binance_market_data.  The recent candles are fetched, then      *)
(* normalized, then the stream is listened to for a minute, and everything *)
(* is stored as one batch whose first record is the oldest candle fetched. *)
(***************************************************************************)
FetchRecent ==
  /\ Goto("collect", "fetched")
  /\ batch' = {[open |-> m, final |-> Final(m)] : m \in Newest(Served, Recent)}
  /\ UNCHANGED <<now, holes, parts, repair>>

NormalizeRecent ==
  /\ Goto("fetched", "stream")
  /\ batch' = Normalized(batch)
  /\ observed' = now
  /\ UNCHANGED <<now, holes, parts, from, end, wanted, cursor, limit>>

\* The stream announces the candles that close while it is listened to; some
\* announcements may be missed.
Streamed == {[open |-> m, closed |-> TRUE, final |-> TRUE] :
               m \in {x \in Served : observed < x + 1 /\ x + 1 <= now}}

FirstWins(rows, later) == rows \union {r \in later : \A s \in rows : Key(s) # Key(r)}

StoreBatch ==
  /\ Goto("stream", "idle")
  /\ \E heard \in SUBSET Streamed :
       LET rows == FirstWins(batch, heard)
       IN parts' = IF batch = {}
                   THEN (IF heard = {} THEN parts
                         ELSE Stored("klines", Min({r.open : r \in heard}), heard))
                   ELSE Stored("klines", Min({r.open : r \in batch}), rows)
  /\ Forget
  /\ UNCHANGED <<now, holes>>

\* An answer or a write fails, or the process dies: what is stored stays.
Fail ==
  /\ pc \notin {"idle", "repaired"}
  /\ pc' = "idle"
  /\ Forget
  /\ UNCHANGED <<now, holes, parts>>

-----------------------------------------------------------------------------
Repair == FetchPage \/ StorePage \/ NextRange
Collect == FetchRecent \/ NormalizeRecent \/ StoreBatch

Next == Tick \/ BeginRepair \/ Repair \/ Decide \/ Collect \/ Fail

\* The pages of a repair follow one another.
Spec == Init /\ [][Next]_vars /\ WF_vars(Repair)

-----------------------------------------------------------------------------
(***************************************************************************)
(* _load_recent_m1: one closed row for each minute; when there are several *)
(* the live ones come last and win, in no order among themselves.          *)
(***************************************************************************)
ClosedRows(set, m) == {r \in AllRows(set) : r.open = m /\ r.closed}

Candidates(m) ==
  IF ClosedRows("klines", m) # {} THEN ClosedRows("klines", m) ELSE ClosedRows("historical_m1", m)

-----------------------------------------------------------------------------
\* The types of the archive and of the repair.
TypeOK ==
  /\ now \in 0 .. Minutes
  /\ holes \subseteq Opens
  /\ \A p \in parts : /\ p.set \in {"historical_m1", "klines"}
                      /\ p.date \in {Date(m) : m \in Opens}
                      /\ p.rows \subseteq Rows
  /\ pc \in {"idle", "range", "page", "repaired", "collect", "fetched", "stream"}
  /\ {from, end, observed, cursor, limit} \subseteq 0 .. Minutes
  /\ wanted \subseteq Opens
  /\ batch \subseteq Rows \union [open : Opens, final : BOOLEAN]

\* When a repair has reached its end, the decision can load every minute of the
\* window that the exchange has: whatever was stored before, under whatever
\* date, open or closed, and wherever the pages are cut.
RepairCompletes ==
  pc = "repaired" => \A m \in Between(from, end) \ holes : Candidates(m) # {}

\* A candle is in the repaired history once, although the store looks for
\* duplicates in the parts of one date only and a page may span two.
HistoryHasNoDuplicates ==
  \A p, q \in {x \in parts : x.set = "historical_m1"} :
    p # q => {r.open : r \in p.rows} \intersect {r.open : r \in q.rows} = {}

\* A repair ends: its pages advance even over the exchange's holes.
RepairEnds == (pc = "range") ~> (pc \in {"repaired", "idle"})

\* What docs/binance-pivot-architecture.md says of the store: keys are
\* deduplicated against the existing parts.
KlinesHaveNoDuplicates ==
  \A p, q \in {x \in parts : x.set = "klines"} :
    p # q => {Key(r) : r \in p.rows} \intersect {Key(r) : r \in q.rows} = {}

\* What docs/binance-pivot-architecture.md says of the decisions: the bars are
\* built from closed minute candles.
LoadedCandlesAreClosed == \A m \in Opens : \A r \in Candidates(m) : r.final

-----------------------------------------------------------------------------
(***************************************************************************)
(* Why the repair is right: what is still missing lies ahead of its cursor *)
(* and is not in the history yet.                                          *)
(***************************************************************************)
HistoryOpens == {r.open : r \in AllRows("historical_m1")}

\* The history holds closed candles only.
HistoryInv == \A r \in AllRows("historical_m1") : r.closed

\* What a repair or a collection holds while it runs.
HeldInv ==
  /\ pc \in {"page", "fetched"} => batch \subseteq [open : Opens, final : BOOLEAN]
  /\ pc = "stream" => batch \subseteq Rows
  /\ pc \in {"range", "page"} => /\ wanted # {} /\ wanted \subseteq Between(from, end)
                                 /\ cursor <= limit
  /\ pc \in {"range", "page", "repaired"} => end <= observed /\ observed <= now

\* A candle of the page under way was missing and has closed.
PageInv ==
  pc = "page" =>
    \A r \in batch : r.open \in wanted /\ r.open < cursor /\ r.open \notin HistoryOpens

\* No candle ahead of the cursor has been stored.
AheadInv ==
  pc \in {"range", "page"} => \A m \in wanted : cursor <= m => m \notin HistoryOpens

\* Every candle of the window that the exchange has is archived, in hand or ahead.
ProgressInv ==
  pc \in {"range", "page", "repaired"} =>
    \A m \in Between(from, end) \ holes :
      \/ m \in Archived
      \/ pc = "page" /\ \E r \in batch : r.open = m
      \/ pc # "repaired" /\ m \in wanted /\ cursor <= m

ArchiveInv ==
  TypeOK /\ HistoryInv /\ HeldInv /\ PageInv /\ AheadInv /\ ProgressInv /\ HistoryHasNoDuplicates
=============================================================================
