---------------------------- MODULE EventDiscovery ----------------------------
(***************************************************************************)
(* EventCandidateDiscoverer.run (D.7): it reads the first tick of every    *)
(* second, computes what the bars say once a minute, and evaluates a       *)
(* second only if the bound of its minute leaves the score a chance to     *)
(* matter.  EpisodeScan is what it computes, with every second evaluated.  *)
(*                                                                         *)
(* Any bars and any ticks may come.  What an episode says of the features  *)
(* and of the future of its first and peak seconds is left out.            *)
(***************************************************************************)
EXTENDS SignalEngine

CONSTANTS
  None,
  Activation, Rearm,  \* activation_score and rearm_score
  Context,            \* the EvaluationContext of the run
  MinuteLength,       \* seconds
  Horizon,            \* the last second of the range
  BarFeatures,        \* what the bars of a minute may say
  TickFeatures        \* what the ticks of a second may say

ASSUME DiscoveryAssumption ==
  /\ Activation \in Nat /\ Rearm \in Nat \ {0} /\ Rearm <= Activation
  /\ Context \in Contexts
  /\ MinuteLength \in Nat \ {0} /\ Horizon \in Nat
  /\ BarFeatures \subseteq Bars /\ TickFeatures \subseteq Ticks

VARIABLES
  now,          \* the second under way
  base,         \* base_snapshot: the bars of the minute, None without enough
  minute,       \* base_minute
  decision,     \* history: what evaluate says of the last second with a snapshot
  lastTime,     \* that second
  initialized, armed, previousBelow,  \* as in the code
  active,       \* the open episode
  rows,         \* the completed ones
  nextId,       \* next_episode_id
  low,          \* history: the last second whose score is below Rearm
  phase         \* "scan", "written" or "raised"

vars == <<now, base, minute, decision, lastTime, initialized, armed, previousBelow,
          active, rows, nextId, low, phase>>

Init ==
  /\ now = 0 /\ base = None /\ minute = None
  /\ decision = None /\ lastTime = 0
  /\ initialized = FALSE /\ armed = FALSE /\ previousBelow = FALSE
  /\ active = None /\ rows = {} /\ nextId = 1
  /\ low = None /\ phase = "scan"

-----------------------------------------------------------------------------
\* The snapshot of the bars is computed at the first second of a minute.
Snapshot(t) ==
  LET m == t \div MinuteLength
  IN /\ minute' = m
     /\ IF m = minute THEN base' = base ELSE base' \in BarFeatures \union {None}

\* _complete_episode
Completed(end) == IF active = None THEN rows ELSE rows \union {[episode |-> active, end |-> end]}

\* Fault: the bound of the activation alone.
IrrelevantToActivation == MaximumScoreBelow(base', Context, Activation)

\* The bound proves that the second is no candidate, and that it does not
\* matter whether it rearms.
Irrelevant ==
  /\ MaximumScoreBelow(base', Context, Activation)
  /\ armed \/ MaximumScoreBelow(base', Context, Rearm)

Skip(t) ==
  /\ rows' = Completed(t)
  /\ active' = None
  /\ armed' = (armed \/ MaximumScoreBelow(base', Context, Rearm))
  /\ initialized' = TRUE /\ previousBelow' = TRUE
  /\ UNCHANGED nextId

Compatible(d) == ~d.blocked /\ d.trigger # 0 /\ d.score >= Activation

BecomeInitialized(d) ==
  /\ ~initialized
  /\ initialized' = TRUE
  /\ armed' = (d.score < Rearm)
  /\ UNCHANGED <<active, rows, nextId>>

\* The peak is replaced by a better decision only.
Continue(t, d) ==
  /\ initialized /\ active # None /\ Compatible(d) /\ d.trigger = active.direction
  /\ active' = [active EXCEPT !.states = @ + 1,
                              !.peak = IF d.score > active.best THEN t ELSE @,
                              !.best = IF d.score > active.best THEN d.score ELSE @]
  /\ UNCHANGED <<initialized, armed, rows, nextId>>

\* Fault: the episode leaves the scan armed.
CompleteArmed(t, d) ==
  /\ initialized /\ active # None /\ ~(Compatible(d) /\ d.trigger = active.direction)
  /\ rows' = Completed(t) /\ active' = None
  /\ armed' = TRUE
  /\ UNCHANGED <<initialized, nextId>>

\* A blocker, another direction or a lower score.
Complete(t, d) ==
  /\ initialized /\ active # None /\ ~(Compatible(d) /\ d.trigger = active.direction)
  /\ rows' = Completed(t) /\ active' = None
  /\ armed' = (d.score < Rearm)
  /\ UNCHANGED <<initialized, nextId>>

RearmScan(d) ==
  /\ initialized /\ active = None /\ ~armed
  /\ armed' = (d.score < Rearm)
  /\ UNCHANGED <<initialized, active, rows, nextId>>

\* Fault: the ids do not advance.
ActivateSameId(t, d) ==
  /\ initialized /\ active = None /\ armed
  /\ previousBelow /\ Compatible(d)
  /\ active' = [id |-> nextId, direction |-> d.trigger, first |-> t, peak |-> t,
                best |-> d.score, states |-> 1]
  /\ armed' = FALSE
  /\ UNCHANGED <<initialized, rows, nextId>>

Activate(t, d) ==
  /\ initialized /\ active = None /\ armed
  /\ previousBelow /\ Compatible(d)
  /\ active' = [id |-> nextId, direction |-> d.trigger, first |-> t, peak |-> t,
                best |-> d.score, states |-> 1]
  /\ nextId' = nextId + 1
  /\ armed' = FALSE
  /\ UNCHANGED <<initialized, rows>>

Stay(d) ==
  /\ initialized /\ active = None /\ armed
  /\ ~(previousBelow /\ Compatible(d))
  /\ UNCHANGED <<initialized, armed, active, rows, nextId>>

Exact(t, d) ==
  /\ \/ BecomeInitialized(d) \/ Continue(t, d) \/ Complete(t, d)
     \/ RearmScan(d) \/ Activate(t, d) \/ Stay(d)
  /\ previousBelow' = (d.score < Activation)

\* A second without enough bars changes nothing.
NoSnapshot ==
  /\ base' = None
  /\ UNCHANGED <<decision, lastTime, initialized, armed, previousBelow, active, rows, nextId, low>>

\* A second with its ticks, evaluated or not.
Scan(t) ==
  /\ base' # None
  /\ \E ticks \in TickFeatures : decision' = Evaluate(base', ticks, Context)
  /\ lastTime' = t
  /\ low' = IF decision'.score < Rearm THEN t ELSE low
  /\ \/ Irrelevant /\ Skip(t)
     \/ ~Irrelevant /\ Exact(t, decision')

\* Seconds without ticks are not sampled.
Sample(t) ==
  /\ phase = "scan"
  /\ t > now /\ now' = t
  /\ Snapshot(t)
  /\ NoSnapshot \/ Scan(t)
  /\ UNCHANGED phase

\* The end of the range, and the table of the episodes; without a snapshot or
\* an episode the discovery raises.
Finish ==
  /\ phase = "scan"
  /\ rows' = Completed(lastTime)
  /\ active' = None
  /\ phase' = IF initialized /\ rows' # {} THEN "written" ELSE "raised"
  /\ UNCHANGED <<now, base, minute, decision, lastTime, initialized, armed, previousBelow, nextId, low>>

Next == (\E t \in 0 .. Horizon : Sample(t)) \/ Finish

Spec == Init /\ [][Next]_vars

-----------------------------------------------------------------------------
\* The scan computes the episodes that evaluating every second would give: no
\* second that the bound of its minute has spared would have opened, lasted or
\* rearmed an episode.
Scanned == INSTANCE EpisodeScan WITH
  at <- lastTime, open <- active, closed <- rows, count <- nextId - 1,
  ended <- phase # "scan"

ASSUME NoneAssumption ==
  None \notin Bars /\ None \notin Nat /\ None \notin Scanned!Decisions /\ None \notin Scanned!Episodes

ImplementsScan == Scanned!Spec

\* Two crossings are two events and not the flutter of one: between the end of
\* an episode and the next opening some second's score was below Rearm, though
\* that second may not have been evaluated.
CrossingsAreApart == Scanned!CrossingsAreApart

\* The completed episodes are disjoint intervals in the order of their ids,
\* each with its peak inside.
EpisodesAreDisjoint == Scanned!EpisodesAreDisjoint

-----------------------------------------------------------------------------
\* The types of the scan.
TypeOK ==
  /\ now \in 0 .. Horizon /\ lastTime \in 0 .. now
  /\ base \in BarFeatures \union {None} /\ minute \in {t \div MinuteLength : t \in 0 .. Horizon} \union {None}
  /\ decision \in Scanned!Decisions \union {None}
  /\ initialized \in BOOLEAN /\ armed \in BOOLEAN /\ previousBelow \in BOOLEAN
  /\ active \in Scanned!Episodes \union {None}
  /\ rows \subseteq Scanned!Closed
  /\ nextId \in Nat \ {0}
  /\ low \in 0 .. lastTime \union {None}
  /\ phase \in {"scan", "written", "raised"}

\* The flags of the code say what the abstract scan reads off the decisions.
FlagsInv ==
  /\ initialized <=> decision # None
  /\ initialized => (previousBelow <=> decision.score < Activation)
  /\ armed => initialized /\ active = None
  /\ active # None => initialized

\* The episodes lie behind one another, and an armed scan has heard a low score
\* since the last of them.
OrderInv ==
  /\ \A c \in rows :
       /\ c.end <= lastTime /\ c.episode.id < nextId
       /\ armed => low # None /\ c.end <= low
       /\ active # None => c.end < active.first /\ c.episode.id < active.id
  /\ armed => low # None
  /\ active # None =>
       active.first <= active.peak /\ active.peak <= lastTime /\ active.id < nextId
  /\ EpisodesAreDisjoint

DiscoveryInv == TypeOK /\ FlagsInv /\ OrderInv
=============================================================================
