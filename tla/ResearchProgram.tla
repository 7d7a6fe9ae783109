--------------------------- MODULE ResearchProgram ---------------------------
(***************************************************************************)
(* The research commands of the MT5 system: research-v2 (D.8), research-v3 *)
(* (D.9), methodology-audit-d9a (D.9A) and research-d10 (D.10), the files  *)
(* that they leave for one another, and the ticks that are collected       *)
(* between two of them (cli.py, with the engines of evaluation/).          *)
(*                                                                         *)
(* An operator runs the commands one at a time, in any order; any of them  *)
(* may be killed.  What the engines compute from a tape is in Evidence; it *)
(* is computed for every tape at the start, in `given`, since a tape does  *)
(* not change while it is collected.                                       *)
(***************************************************************************)
EXTENDS Evidence

CONSTANTS
  Tapes,          \* the markets that the collection may meet
  Extents,        \* the instants up to which ticks may have been collected
  MaxCommands, MaxKills, MaxEdits

ASSUME ProgramAssumption == Extents \subseteq Nat /\ Extents # {}

VARIABLES
  given,          \* what is computed from each tape: rows, folds and fits
  tape, model,    \* the market, and what the fitted models make of it
  collected,      \* the ticks before this instant are on the disk
  protocol,       \* the version of the protocol document of D.10
  disk,           \* the files of the research
  run,            \* the command under way, with its next step and its result
  spent           \* commands, kills and edits so far

vars == <<given, tape, model, collected, protocol, disk, run, spent>>

Reports == {"D8", "D9", "D9A", "AUDIT", "D10"}

\* The ticks of a tape that were collected up to an instant.
Ticks(t, extent) == SelectSeq(t, LAMBDA q : q.time < extent)

\* D.8's observations are kept when they are built once, and those of D.9 are
\* built from them and from the ticks that there are by then.
Keys == {<<e, f>> \in Extents \X Extents : e <= f}

Computed(t) ==
  LET d8 == [e \in Extents |-> ResearchDataset(Ticks(t, e))]
      d9 == [k \in Keys |-> V3Dataset(d8[k[1]], Ticks(t, k[2]))]
  IN [d8 |-> d8, d9 |-> d9,
      fitD8 |-> [e \in Extents |-> [m \in Models |-> {ResearchV2(d8[e], m)}]],
      fitD9 |-> [k \in Keys |-> [m \in Models |-> {ResearchV3(d9[k], m)}]],
      fitD10 |-> [k \in Keys |-> [m \in Models |-> ResearchD10(d9[k], m)]]]

Init ==
  /\ given = [t \in Tapes |-> Computed(t)]
  /\ tape \in Tapes /\ model \in Models
  /\ collected = Min(Extents)
  /\ protocol = 1
  /\ disk = [d8 |-> None, d9 |-> None, original |-> None, manifest |-> None,
             json |-> [r \in Reports |-> None], human |-> [r \in Reports |-> None]]
  /\ run = None
  /\ spent = [commands |-> 0, kills |-> 0, edits |-> 0]

-----------------------------------------------------------------------------
\* Between two commands.

\* mt5-history-collect brings more of the interval.
Collect ==
  /\ run = None
  /\ collected' \in {e \in Extents : e > collected}
  /\ UNCHANGED <<given, tape, model, protocol, disk, run, spent>>

\* Somebody edits the registered protocol, at any time.
EditProtocol ==
  /\ spent.edits < MaxEdits
  /\ protocol' = protocol + 1
  /\ spent' = [spent EXCEPT !.edits = @ + 1]
  /\ UNCHANGED <<given, tape, model, collected, disk, run>>

\* Somebody keeps a report of D.9 aside as the original of the audit.
KeepOriginal ==
  /\ run = None /\ disk.original = None /\ disk.json["D9"] # None
  /\ disk' = [disk EXCEPT !.original = disk.json["D9"]]
  /\ UNCHANGED <<given, tape, model, collected, protocol, run, spent>>

-----------------------------------------------------------------------------
\* The commands.

Begin(engine, step) ==
  /\ run = None /\ spent.commands < MaxCommands
  /\ run' = [engine |-> engine, step |-> step, result |-> None]
  /\ spent' = [spent EXCEPT !.commands = @ + 1]
  /\ UNCHANGED <<given, tape, model, collected, protocol>>

Proceed(step) ==
  /\ run' = IF step = "END" THEN None ELSE [run EXCEPT !.step = step]
  /\ UNCHANGED <<given, tape, model, collected, protocol, spent>>

At(engines, step) == run # None /\ run.engine \in engines /\ run.step = step

\* ResearchV2Engine.run: the observations are built when there are none.
StartD8 == Begin("D8", IF disk.d8 = None THEN "BUILD" ELSE "FIT") /\ UNCHANGED disk

\* ResearchV3Engine.run, alone or for the audit: it builds its own observations
\* from those of D.8.
StartV3(engine) ==
  /\ engine = "D9A" => disk.original # None
  /\ disk.d9 = None => disk.d8 # None
  /\ Begin(engine, IF disk.d9 = None THEN "BUILD" ELSE "FIT")
  /\ UNCHANGED disk

\* Written to a temporary file that is renamed when it is complete.
BuildD8 ==
  /\ At({"D8"}, "BUILD")
  /\ disk' = [disk EXCEPT !.d8 = collected]
  /\ Proceed("FIT")

BuildV3 ==
  /\ At({"D9", "D9A"}, "BUILD")
  /\ disk' = [disk EXCEPT !.d9 = <<disk.d8, collected>>]
  /\ Proceed("FIT")

\* research-d10 writes the manifest of decisions anew each time ...
StartD10 ==
  /\ disk' = [disk EXCEPT !.manifest = protocol]
  /\ Begin("D10", "CHECK")

\* ... and its engine asks that it is the one it would write, and that there
\* are observations of D.9; else it raises.
CheckD10 ==
  /\ At({"D10"}, "CHECK")
  /\ Proceed(IF disk.d9 # None /\ disk.manifest = protocol THEN "FIT" ELSE "END")
  /\ UNCHANGED disk

\* What the fits of an engine may come to, None when one raises.
Fits(t, engine, files, m) ==
  CASE engine = "D8" -> given[t].fitD8[files.d8][m]
    [] engine \in {"D9", "D9A"} -> given[t].fitD9[files.d9][m]
    [] engine = "D10" -> given[t].fitD10[files.d9][m]

Fit ==
  /\ At({"D8", "D9", "D9A", "D10"}, "FIT")
  /\ \E result \in Fits(tape, run.engine, disk, model) :
       run' = IF result = None THEN None ELSE [run EXCEPT !.step = "JSON", !.result = result]
  /\ UNCHANGED <<given, tape, model, collected, protocol, disk, spent>>

WriteJson ==
  /\ At({"D8", "D9", "D9A", "D10"}, "JSON")
  /\ disk' = [disk EXCEPT !.json[run.engine] = run.result]
  /\ Proceed("HUMAN")

WriteHuman ==
  /\ At({"D8", "D9", "D9A", "D10"}, "HUMAN")
  /\ disk' = [disk EXCEPT !.human[run.engine] = run.result]
  /\ Proceed(IF run.engine = "D9A" THEN "AUDIT" ELSE "END")

\* build_methodology_audit sets the purged replay beside the original; the
\* verdict of the replay is the final one.
MethodologyAudit == [original |-> disk.original.verdict, verdict |-> run.result.verdict]

WriteAuditJson ==
  /\ At({"D9A"}, "AUDIT")
  /\ disk' = [disk EXCEPT !.json["AUDIT"] = MethodologyAudit]
  /\ Proceed("AUDIT_HUMAN")

WriteAuditHuman ==
  /\ At({"D9A"}, "AUDIT_HUMAN")
  /\ disk' = [disk EXCEPT !.human["AUDIT"] = MethodologyAudit]
  /\ Proceed("END")

Kill ==
  /\ run # None /\ spent.kills < MaxKills
  /\ run' = None
  /\ spent' = [spent EXCEPT !.kills = @ + 1]
  /\ UNCHANGED <<given, tape, model, collected, protocol, disk>>

Next ==
  \/ Collect
  \/ EditProtocol
  \/ KeepOriginal
  \/ StartD8
  \/ \E engine \in {"D9", "D9A"} : StartV3(engine)
  \/ BuildD8
  \/ BuildV3
  \/ StartD10
  \/ CheckD10
  \/ Fit
  \/ WriteJson
  \/ WriteHuman
  \/ WriteAuditJson
  \/ WriteAuditHuman
  \/ Kill

Spec == Init /\ [][Next]_vars

-----------------------------------------------------------------------------
\* Properties.  They look at a command that has fitted its models and is about
\* to report.

Agree(t, u, instant) == Ticks(t, instant + 1) = Ticks(u, instant + 1)

Reporting(engines) == At(engines, "JSON")

\* The folds of the command under way, had the market been t.
FoldsOn(t) ==
  CASE run.engine = "D8" -> TemporalFolds(given[t].d8[disk.d8])
    [] run.engine \in {"D9", "D9A"} ->
         PurgeV3TrainingLabels(V3TemporalFolds(given[t].d9[disk.d9]), Primary)
    [] run.engine = "D10" -> D10TemporalFolds(given[t].d9[disk.d9])

\* What the training of a fold may know: D.9 and D.10 purge the labels that end
\* after the opening of its validation, D.8 does not.
Horizon(engine, opens) ==
  IF engine = "D8" THEN opens + Max(Horizons) + MaxDelay ELSE opens

\* What a fold trains on is settled when its validation opens: a market that
\* differs only later gives the same training rows.  For D.8, which trains on
\* observations whose labels run into the validation, when those labels end.
TrainingIsBlind ==
  Reporting({"D8", "D9", "D9A", "D10"}) =>
    \A u \in DOMAIN given, n \in DOMAIN FoldsOn(tape) :
      Agree(tape, u, Horizon(run.engine, FoldsOn(tape)[n].opens)) =>
        FoldsOn(u)[n].train = FoldsOn(tape)[n].train

\* Every candidate is an observation of the period after its fold's opening, is
\* taken once, and is paid what the quotes say: the result is the move of the
\* midpoint less half of the spread at each end, the costs beyond the spread
\* come on top, and no candidate of D.9 or D.10 holds past its timeout.
EvidenceIsPaidAtTheQuotes ==
  Reporting({"D9", "D9A", "D10"}) =>
    LET quote(time) == tape[Min({k \in DOMAIN tape : tape[k].time = time})]
        spread(time) == quote(time).ask - quote(time).bid
    IN \A c \in run.result.evidence :
         /\ c.opens <= c.at /\ c.at < c.exit /\ c.exit <= c.at + Primary.timeout
         /\ \A d \in run.result.evidence : d.at = c.at => d = c
         /\ 2 * c.executable = c.gross2 - spread(c.at) - spread(c.exit)
         /\ \A s \in Scenarios : c.net[s] = c.executable - 2 * Slippage[s] - Commission[s]
         /\ c.excursion.mfe >= c.executable /\ c.excursion.mae >= -c.executable

\* Whether an observation of D.9 can be judged on a market: its labels need
\* ticks that come later.
Judged(t, c) ==
  \E r \in BothComplete(given[t].d9[disk.d9], Primary) : r.at = c.at
JudgedV2(t, c) ==
  \E r \in given[t].d8[disk.d8] : r.at = c.at /\ r.label[PrimaryHorizon] # None

\* A decision uses nothing that comes after it: on a market that differs only
\* after the candidate, and on which it can be judged, the observation has the
\* same features and the same side is taken at the same instant.
ResearchDecisionsAreCausal ==
  Reporting({"D8", "D9", "D9A", "D10"}) =>
    \A c \in run.result.evidence, u \in DOMAIN given :
      LET trained == IF run.engine = "D8" THEN Horizon("D8", c.opens) ELSE c.at
          seen(t) == {[ticks |-> r.ticks, bars |-> r.bars] : r \in {r \in given[t].d8[disk.d8] : r.at = c.at}}
          micro(t) == {r.micro : r \in {r \in given[t].d9[disk.d9] : r.at = c.at}}
      IN (/\ Agree(tape, u, Max({c.at, trained}))
          /\ IF run.engine = "D8" THEN JudgedV2(u, c) ELSE Judged(u, c)) =>
           /\ seen(u) = seen(tape)
           /\ run.engine # "D8" => micro(u) = micro(tape)
           /\ \A result \in Fits(u, run.engine, disk, model) :
                result # None =>
                  \E d \in result.evidence : d.at = c.at /\ d.side = c.side /\ d.opens = c.opens

\* The observations that D.8 keeps for every later run are still true when one
\* uses them, though more ticks were collected since: none is lost or changed,
\* and a label that was complete is what it would be now.
CachedObservationsStayTrue ==
  At({"D8"}, "FIT") =>
    \A r \in given[tape].d8[disk.d8] :
      \E q \in given[tape].d8[collected] :
        /\ q.at = r.at /\ q.bars = r.bars /\ q.ticks = r.ticks
        /\ \A h \in Horizons : r.label[h] # None => q.label[h] = r.label[h]
=============================================================================
