----------------------------- MODULE EpisodeScan -----------------------------
(***************************************************************************)
(* What event discovery (D.7) promises: the episodes of one reading of the *)
(* market, second by second, in which every decision is evaluated.         *)
(*                                                                         *)
(* An episode opens when the score crosses Activation from below after it  *)
(* has been below Rearm, lasts while the decisions stay candidates of its  *)
(* direction, and closes at the first that does not.                       *)
(***************************************************************************)
EXTENDS Integers

CONSTANTS
  None,
  Activation, Rearm,  \* the scores that open an episode, and that arm the next
  Horizon             \* the last second

Decisions == [score : 0 .. 100, trigger : {-1, 0, 1}, blocked : BOOLEAN]
Seconds == 0 .. Horizon
Episodes ==
  [id : Nat, direction : {-1, 1}, first : Seconds, peak : Seconds, best : Nat, states : Nat]
Closed == [episode : Episodes, end : Seconds]

VARIABLES
  now,       \* the second under way
  decision,  \* the decision of the last second that had one
  at,        \* that second
  armed,     \* the score has been low enough since the last episode
  open,      \* the open episode
  closed,    \* the closed ones, each with its end
  count,     \* the episodes so far
  low,       \* history: the last second whose score was below Rearm
  ended      \* the range has been read

vars == <<now, decision, at, armed, open, closed, count, low, ended>>

Candidate(d) == ~d.blocked /\ d.trigger # 0 /\ d.score >= Activation
Low(d) == d.score < Rearm

Init ==
  /\ now = 0 /\ decision = None /\ at = 0
  /\ armed = FALSE /\ open = None /\ closed = {} /\ count = 0
  /\ low = None /\ ended = FALSE

\* A second without a snapshot, or without ticks.
Quiet(t) ==
  /\ now' = t
  /\ UNCHANGED <<decision, at, armed, open, closed, count, low, ended>>

Hear(t, d) ==
  /\ now' = t /\ decision' = d /\ at' = t
  /\ low' = IF Low(d) THEN t ELSE low
  /\ UNCHANGED ended

\* Neither the first decision nor one before the rearming opens an episode.
Listen(d) ==
  /\ open = None
  /\ decision = None \/ ~armed
  /\ armed' = Low(d)
  /\ UNCHANGED <<open, closed, count>>

Wait(d) ==
  /\ open = None /\ decision # None /\ armed
  /\ decision.score >= Activation \/ ~Candidate(d)
  /\ UNCHANGED <<armed, open, closed, count>>

Opened(t, d, id) ==
  [id |-> id, direction |-> d.trigger, first |-> t, peak |-> t, best |-> d.score, states |-> 1]

Cross(t, d) ==
  /\ open = None /\ decision # None /\ armed
  /\ decision.score < Activation /\ Candidate(d)
  /\ count' = count + 1
  /\ open' = Opened(t, d, count')
  /\ armed' = FALSE
  /\ UNCHANGED closed

\* The peak is the first of the best decisions.
Lasting(episode, t, d) ==
  [episode EXCEPT !.states = @ + 1,
                  !.peak = IF d.score > episode.best THEN t ELSE @,
                  !.best = IF d.score > episode.best THEN d.score ELSE @]

Last(t, d) ==
  /\ open # None /\ Candidate(d) /\ d.trigger = open.direction
  /\ open' = Lasting(open, t, d)
  /\ UNCHANGED <<armed, closed, count>>

Close(t, d) ==
  /\ open # None /\ (Candidate(d) => d.trigger # open.direction)
  /\ closed' = closed \union {[episode |-> open, end |-> t]}
  /\ open' = None
  /\ armed' = Low(d)
  /\ UNCHANGED count

Evaluated(t, d) ==
  /\ Hear(t, d)
  /\ Listen(d) \/ Wait(d) \/ Cross(t, d) \/ Last(t, d) \/ Close(t, d)

\* The range ends; an open episode ends with the last decision.
End ==
  /\ ended' = TRUE
  /\ closed' = IF open = None THEN closed ELSE closed \union {[episode |-> open, end |-> at]}
  /\ open' = None
  /\ UNCHANGED <<now, decision, at, armed, count, low>>

Next ==
  /\ ~ended
  /\ \/ /\ now' \in now + 1 .. Horizon
        /\ Quiet(now') \/ (decision' \in Decisions /\ Evaluated(now', decision'))
     \/ End

Spec == Init /\ [][Next]_vars

-----------------------------------------------------------------------------
TypeOK ==
  /\ now \in Seconds /\ at \in Seconds
  /\ decision \in Decisions \union {None}
  /\ armed \in BOOLEAN /\ ended \in BOOLEAN
  /\ open \in Episodes \union {None}
  /\ closed \subseteq Closed
  /\ count \in Nat
  /\ low \in Seconds \union {None}

\* Two crossings are two events and not the flutter of one: between the end of
\* an episode and the next opening some second's score was below Rearm.
CrossingsAreApart ==
  [][open = None /\ open' # None =>
       low # None /\ \A c \in closed : c.end <= low /\ low < open'.first]_vars

\* The episodes of a run are disjoint intervals, each with its peak inside, in
\* the order of their ids.
EpisodesAreDisjoint ==
  /\ \A c \in closed : c.episode.first <= c.episode.peak /\ c.episode.peak <= c.end
  /\ \A b, c \in closed :
       b # c => \/ b.end < c.episode.first /\ b.episode.id < c.episode.id
                \/ c.end < b.episode.first /\ c.episode.id < b.episode.id
=============================================================================
