----------------------------- MODULE RunnerLock -----------------------------
(***************************************************************************)
(* The pid file runner.lock that keeps a second ForwardPaperRunner from    *)
(* starting (_acquire_lock, _release_lock), and the status command that    *)
(* reads it (read_forward_paper_status).                                   *)
(*                                                                         *)
(* Every call on the file system is a step of its own.  A process lives    *)
(* once: a restart is another process, with another pid.  (The operating   *)
(* system may give the pid of a dead process to a stranger; that is not    *)
(* modelled.)  A process may be killed anywhere and then leaves the file   *)
(* as it is; a write that fails has the same effect.                       *)
(***************************************************************************)
EXTENDS Integers, FiniteSets

CONSTANTS
  Procs,   \* the processes that may be started, each identified with its pid
  NoLock,  \* no lock file
  Empty    \* the text of a lock file that was created and not written

ASSUME LockAssumption ==
  /\ NoLock \notin Procs /\ Empty \notin Procs /\ NoLock # Empty
  /\ NoLock \notin [by : Procs, text : Procs \union {Empty}]

VARIABLES
  at,     \* the point reached by each process
  lock,   \* the lock file: [by: who created it, text: the pid in it]
  seen,   \* the text that each process has read from the lock file
  raced   \* history: two processes have been acquiring at the same time

lockVars == <<at, lock, seen, raced>>

Acquiring == {"check", "read", "probe", "unlink", "create", "write"}
Alive == {p \in Procs : at[p] \notin {"off", "ended", "killed"}}
Running == {p \in Procs : at[p] = "running"}

Moves(p, here, there) == at[p] = here /\ at' = [at EXCEPT ![p] = there]

-----------------------------------------------------------------------------
LockInit ==
  /\ at = [p \in Procs |-> "off"]
  /\ lock = NoLock
  /\ seen = [p \in Procs |-> Empty]
  /\ raced = FALSE

StartProcess(p) ==
  /\ Moves(p, "off", "check")
  /\ raced' = (raced \/ \E q \in Procs : at[q] \in Acquiring)
  /\ UNCHANGED <<lock, seen>>

\* lock_path.exists()
Check(p) ==
  /\ \/ lock = NoLock /\ Moves(p, "check", "create")
     \/ lock # NoLock /\ Moves(p, "check", "read")
  /\ UNCHANGED <<lock, seen, raced>>

\* The file may have been removed since; the error ends the process.
Read(p) ==
  /\ \/ /\ lock = NoLock
        /\ Moves(p, "read", "ended")
        /\ UNCHANGED seen
     \/ /\ lock # NoLock
        /\ Moves(p, "read", "probe")
        /\ seen' = [seen EXCEPT ![p] = lock.text]
  /\ UNCHANGED <<lock, raced>>

\* Fault: the probe is refused and taken for the absence of the process.
ProbeRefused(p) == Moves(p, "probe", "unlink") /\ UNCHANGED <<lock, seen, raced>>

\* Fault: any pid in the file is believed to be alive.
ProbeBelieves(p) ==
  /\ \/ seen[p] \in Procs /\ Moves(p, "probe", "ended")
     \/ seen[p] \notin Procs /\ Moves(p, "probe", "unlink")
  /\ UNCHANGED <<lock, seen, raced>>

\* _pid_running; a text that is no number stands for a dead process.
Probe(p) ==
  /\ \/ seen[p] \in Alive /\ Moves(p, "probe", "ended")
     \/ seen[p] \notin Alive /\ Moves(p, "probe", "unlink")
  /\ UNCHANGED <<lock, seen, raced>>

Unlink(p) ==
  /\ \/ lock = NoLock /\ Moves(p, "unlink", "ended")
     \/ lock # NoLock /\ Moves(p, "unlink", "create")
  /\ lock' = NoLock
  /\ UNCHANGED <<seen, raced>>

\* os.open with O_CREAT | O_EXCL.
Create(p) ==
  /\ \/ /\ lock = NoLock
        /\ Moves(p, "create", "write")
        /\ lock' = [by |-> p, text |-> Empty]
     \/ /\ lock # NoLock
        /\ Moves(p, "create", "ended")
        /\ UNCHANGED lock
  /\ UNCHANGED <<seen, raced>>

\* Fault: the pid is never flushed to the file.
WriteUnflushed(p) == Moves(p, "write", "running") /\ UNCHANGED <<lock, seen, raced>>

\* The pid goes to the file that was opened, wherever its name points now.
Write(p) ==
  /\ Moves(p, "write", "running")
  /\ lock' = IF lock # NoLock /\ lock.by = p THEN [by |-> p, text |-> p] ELSE lock
  /\ UNCHANGED <<seen, raced>>

\* The end of run_forever, normal or not: _release_lock in its finally clause.
Leave(p) ==
  /\ \/ lock # NoLock /\ Moves(p, "running", "reread")
     \/ lock = NoLock /\ Moves(p, "running", "ended")
  /\ UNCHANGED <<lock, seen, raced>>

Reread(p) ==
  /\ \/ lock # NoLock /\ lock.text = p /\ Moves(p, "reread", "release")
     \/ (lock # NoLock => lock.text # p) /\ Moves(p, "reread", "ended")
  /\ UNCHANGED <<lock, seen, raced>>

Release(p) ==
  /\ Moves(p, "release", "ended")
  /\ lock' = NoLock
  /\ UNCHANGED <<seen, raced>>

Kill(p) ==
  /\ p \in Alive
  /\ at' = [at EXCEPT ![p] = "killed"]
  /\ UNCHANGED <<lock, seen, raced>>

Acquire(p) == Check(p) \/ Read(p) \/ Probe(p) \/ Unlink(p) \/ Create(p) \/ Write(p)

LockNext == \E p \in Procs :
          StartProcess(p) \/ Acquire(p) \/ Leave(p) \/ Reread(p) \/ Release(p) \/ Kill(p)

\* A process that has begun to acquire the lock goes on.
LockSpec == LockInit /\ [][LockNext]_lockVars /\ \A p \in Procs : WF_lockVars(Acquire(p))

-----------------------------------------------------------------------------
\* read_forward_paper_status: the pid that the status command says is running.
Reported == IF lock # NoLock /\ lock.text \in Alive THEN lock.text ELSE NoLock

-----------------------------------------------------------------------------
LockPoints == Acquiring \union {"off", "running", "reread", "release", "ended", "killed"}

\* The types of the processes and of the file.
LockTypeOK ==
  /\ at \in [Procs -> LockPoints]
  /\ lock \in [by : Procs, text : Procs \union {Empty}] \union {NoLock}
  /\ seen \in [Procs -> Procs \union {Empty}]
  /\ raced \in BOOLEAN

\* What the message "already running with pid" and the docstring "one resumable
\* paper portfolio" promise: one runner at a time.
OneRunner == \A p, q \in Running : p = q

\* The promise holds as long as no two processes acquire the lock at the same
\* time, through kills at any point and locks left behind with or without a pid.
OneRunnerWithoutRace == ~raced => OneRunner

\* Without such a race the status command names the runner while it runs: the
\* lock of a live runner is never removed by someone else.
StatusNamesRunner == ~raced => \A p \in Running : Reported = p

\* A process that starts when no other is alive does start, whatever the dead
\* have left: no kill makes the runner unable to restart.
LoneStarterRuns ==
  \A p \in Procs :
    (at[p] = "check" /\ Alive = {p}) ~> (at[p] \in {"running", "killed"} \/ Alive \ {p} # {})

-----------------------------------------------------------------------------
\* What makes OneRunnerWithoutRace inductive: without a race there is at most
\* one process acquiring, a process that will unlink has seen a dead owner, and
\* the owner of a written lock is the only one beyond the acquisition.
NoRaceInv ==
  ~raced =>
    /\ \A p, q \in Procs : at[p] \in Acquiring /\ at[q] \in Acquiring => p = q
    /\ \A p \in Procs :
         at[p] \in {"running", "reread", "release"} => lock # NoLock /\ lock.by = p /\ lock.text = p
    /\ \A p \in Procs :
         at[p] = "write" => lock # NoLock /\ lock.by = p /\ lock.text = Empty
    /\ \A p \in Procs :
         at[p] = "unlink" /\ lock # NoLock => lock.text \notin Alive
    /\ \A p \in Procs :
         at[p] = "probe" /\ lock # NoLock => lock.text = seen[p]

LockInv == LockTypeOK /\ NoRaceInv
=============================================================================
