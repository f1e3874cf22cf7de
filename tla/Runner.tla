------------------------------- MODULE Runner -------------------------------
(***************************************************************************)
(* The provider-process runner (internal/runner): how one RepoWolf broker  *)
(* starts `ssh` and `gh` children in process groups of their own, kills    *)
(* them on cancellation, timeout or an exceeded bound, reaps them and      *)
(* removes their private directories, while Runner.Cleanup does the same   *)
(* to all of them at shutdown.                                             *)
(*                                                                         *)
(* The operating system is part of the model: a PID names a group          *)
(* (Setpgid); it stays taken while its leader is unreaped or a descendant  *)
(* is left in the group, and is then free for the next child.              *)
(***************************************************************************)
EXTENDS Naturals, FiniteSets

CONSTANTS Proc,  \* calls of Runner.Start, each with the Process it may return
          Pid,   \* process ids the kernel hands out
          None,  \* no process id yet; no owner
          Unruly \* bound: the processes that may exceed a byte limit, fork, exit
                 \* with an error, or leave a directory that cannot be removed

ASSUME RunnerAssumption ==
  None \notin Pid /\ None \notin Proc /\ Unruly \subseteq Proc

VARIABLES
  cleanup,       \* where Runner.Cleanup is; Runner.closing is cleanup # "idle"
  snapshot,      \* the processes Cleanup found registered
  toStop,        \* those of the snapshot it has yet to stop
  stage,         \* where each Start call is
  pid,           \* processAuthority.pgid
  dirs,          \* private working directories on disk
  ctx,           \* the operation context: live, or the error it ended with
  terminated,    \* processAuthority.terminated
  reason,        \* processAuthority.reason
  observed,      \* the processes whose exit observer has published the exit
  drain,         \* the stderr drain goroutine
  errOver,       \* processes that wrote more stderr than their limit
  outOver,       \* processes that wrote more stdout than their limit
  reader,        \* the caller's reading of Stdout
  wait,          \* where Process.wait (inside waitOnce) is
  waitErr,       \* the error of Process.Wait
  cleanupFailed, \* processes whose error carries ErrCleanupFailed
  owner,         \* OS: whose group holds a PID
  leader,        \* OS: the group leader with that PID
  member         \* OS: a descendant left in that group

startVars == <<stage, pid>>
authVars  == <<terminated, reason>>
pipeVars  == <<drain, errOver, outOver, reader>>
waitVars  == <<wait, waitErr, cleanupFailed>>
osVars    == <<owner, leader, member>>
stopVars  == <<cleanup, snapshot, toStop>>
vars == <<stopVars, startVars, dirs, ctx, authVars, observed, pipeVars, waitVars, osVars>>

Reason == {"nil", "InputLimit", "OutputLimit", "Deadline", "Canceled"}
Outcome == {"pending", "ok", "CommandFailed"} \cup (Reason \ {"nil"})
Zombie == {"exitOk", "exitFail"}
Running == {"alive", "dying"}

TypeOK ==
  /\ cleanup \in {"idle", "barrier", "stopping", "waiting", "done"}
  /\ snapshot \subseteq Proc /\ toStop \subseteq Proc
  /\ stage \in [Proc -> {"new", "admitted", "spawned", "up", "failed"}]
  /\ pid \in [Proc -> Pid \cup {None}]
  /\ dirs \subseteq Proc
  /\ ctx \in [Proc -> {"live", "Deadline", "Canceled"}]
  /\ terminated \subseteq Proc
  /\ reason \in [Proc -> Reason]
  /\ observed \subseteq Proc
  /\ drain \in [Proc -> {"reading", "limited", "eof"}]
  /\ errOver \subseteq Proc /\ outOver \subseteq Proc
  /\ reader \in [Proc -> {"open", "over", "late", "eof"}]
  /\ wait \in [Proc -> {"idle", "begun", "table", "group", "retired", "done"}]
  /\ waitErr \in [Proc -> Outcome]
  /\ cleanupFailed \subseteq Proc
  /\ owner \in [Pid -> Proc \cup {None}]
  /\ leader \in [Pid -> {"none"} \cup Running \cup Zombie]
  /\ member \in [Pid -> {"none", "zombie"} \cup Running]

Init ==
  /\ cleanup = "idle" /\ snapshot = {} /\ toStop = {}
  /\ stage = [p \in Proc |-> "new"]
  /\ pid = [p \in Proc |-> None]
  /\ dirs = {}
  /\ ctx = [p \in Proc |-> "live"]
  /\ terminated = {}
  /\ reason = [p \in Proc |-> "nil"]
  /\ observed = {}
  /\ drain = [p \in Proc |-> "reading"]
  /\ errOver = {} /\ outOver = {}
  /\ reader = [p \in Proc |-> "open"]
  /\ wait = [p \in Proc |-> "idle"]
  /\ waitErr = [p \in Proc |-> "pending"]
  /\ cleanupFailed = {}
  /\ owner = [q \in Pid |-> None]
  /\ leader = [q \in Pid |-> "none"]
  /\ member = [q \in Pid |-> "none"]

-----------------------------------------------------------------------------
(* authority.mu is held for more than one step only by retireAndReap,      *)
(* which takes it before it queues for processTableMu.                     *)
AuthorityFree(p) == wait[p] \notin {"table", "group"}
TableUnlocked == TRUE \* mutant: starts and retirements exclude nobody
ProcessTableFree == \A p \in Proc : wait[p] # "group"
Retired == {p \in Proc : wait[p] \in {"retired", "done"}}

NotCounted == {} \* mutant: the wait group counts no start
Starting == {p \in Proc : stage[p] \in {"admitted", "spawned"}}
Registered == {p \in Proc : stage[p] = "up" /\ wait[p] # "done"}

Writing(p) == \* some process still holds the write end of p's pipes
  owner[pid[p]] = p /\ (leader[pid[p]] \in Running \/ member[pid[p]] \in Running)

KillLeader(q) == \* mutant: kill(pgid, SIGKILL), without the sign
  /\ leader' = IF leader[q] = "alive" THEN [leader EXCEPT ![q] = "dying"] ELSE leader
  /\ UNCHANGED <<owner, member>>

(* kill(-pgid, SIGKILL) reaches whatever group has that id by now. *)
KillGroup(q) ==
  /\ leader' = IF leader[q] = "alive" THEN [leader EXCEPT ![q] = "dying"] ELSE leader
  /\ member' = IF member[q] = "alive" THEN [member EXCEPT ![q] = "dying"] ELSE member
  /\ UNCHANGED owner

(* What a call does to the reason when termination was initiated before. *)
KeepReason(p, why) == reason                          \* mutant: nothing
LateReason(p, why) ==
  IF reason[p] = "nil" /\ why = "OutputLimit" THEN [reason EXCEPT ![p] = why] ELSE reason

(* processAuthority.terminate.  The caller that initiated termination also *)
(* closes the raw stdin, which is left out: no child reads it any more.    *)
terminate(p, why) ==
  /\ AuthorityFree(p)
  /\ IF p \in Retired \cup terminated
     THEN /\ reason' = LateReason(p, why)
          /\ UNCHANGED <<terminated, osVars>>
     ELSE /\ terminated' = terminated \cup {p}
          /\ reason' = [reason EXCEPT ![p] = why]
          /\ KillGroup(pid[p])

-----------------------------------------------------------------------------
(* Runner.Start *)

beginStart(p) ==
  /\ stage[p] = "new"
  /\ stage' = [stage EXCEPT ![p] = IF cleanup = "idle" THEN "admitted" ELSE "failed"]
  /\ UNCHANGED <<stopVars, pid, dirs, ctx, authVars, observed, pipeVars, waitVars, osVars>>

(* An invalid command, an ended context, or a directory, pipe or cmd.Start *)
(* that fails: what was made is removed again before starting.Done, but    *)
(* the error of RemoveAll is ignored.                                      *)
StartFails(p) ==
  /\ stage[p] = "admitted"
  /\ stage' = [stage EXCEPT ![p] = "failed"]
  /\ UNCHANGED dirs \/ (p \in Unruly /\ dirs' = dirs \cup {p})
  /\ UNCHANGED <<stopVars, pid, ctx, authVars, observed, pipeVars, waitVars, osVars>>

Spawn(p, q) == \* MkdirTemp; then the context check and cmd.Start under processTableMu
  /\ stage[p] = "admitted" /\ ctx[p] = "live"
  /\ ProcessTableFree
  /\ owner[q] = None
  /\ stage' = [stage EXCEPT ![p] = "spawned"]
  /\ dirs' = dirs \cup {p}
  /\ pid' = [pid EXCEPT ![p] = q]
  /\ owner' = [owner EXCEPT ![q] = p]
  /\ leader' = [leader EXCEPT ![q] = "alive"]
  /\ UNCHANGED <<stopVars, ctx, authVars, observed, pipeVars, waitVars, member>>

register(p) == \* newProcess, register, monitor and the deferred starting.Done
  /\ stage[p] = "spawned"
  /\ stage' = [stage EXCEPT ![p] = "up"]
  /\ UNCHANGED <<stopVars, pid, dirs, ctx, authVars, observed, pipeVars, waitVars, osVars>>

-----------------------------------------------------------------------------
(* The goroutines of Process.monitor *)

ObserveExit(p) == \* waitWithoutReap; terminate(nil); close(exited); exitObserved
  /\ stage[p] = "up" /\ p \notin observed
  /\ leader[pid[p]] \in Zombie
  /\ terminate(p, "nil")
  /\ observed' = observed \cup {p}
  /\ UNCHANGED <<stopVars, startVars, dirs, ctx, pipeVars, waitVars>>

CancelledOnly(p) == ctx[p] = "Canceled" \* mutant: the timeout is not watched
ContextDone(p) == ctx[p] # "live"

WatchContext(p) ==
  /\ stage[p] = "up" /\ ContextDone(p)
  /\ terminate(p, ctx[p])
  /\ UNCHANGED <<stopVars, startVars, dirs, ctx, observed, pipeVars, waitVars>>

DrainExcess(p) == \* stderrCapture.drain reads past the limit
  /\ stage[p] = "up" /\ drain[p] = "reading" /\ p \in errOver
  /\ terminate(p, "OutputLimit")
  /\ drain' = [drain EXCEPT ![p] = "limited"]
  /\ UNCHANGED <<stopVars, startVars, dirs, ctx, observed, errOver, outOver, reader, waitVars>>

DrainEOF(p) ==
  /\ stage[p] = "up" /\ ~Writing(p)
  /\ drain[p] = "limited" \/ (drain[p] = "reading" /\ p \notin errOver)
  /\ drain' = [drain EXCEPT ![p] = "eof"]
  /\ UNCHANGED <<stopVars, startVars, dirs, ctx, authVars, observed, errOver, outOver,
                 reader, waitVars, osVars>>

-----------------------------------------------------------------------------
(* The caller of Start: it writes Stdin, reads Stdout and calls Wait. *)

WriteOverBudget(p) == \* inputPipe.Write whose reservation fails
  /\ p \in Unruly /\ stage[p] = "up" /\ wait[p] = "idle"
  /\ terminate(p, "InputLimit")
  /\ UNCHANGED <<stopVars, startVars, dirs, ctx, observed, pipeVars, waitVars>>

BeginWait(p) == wait' = [wait EXCEPT ![p] = IF @ = "idle" THEN "begun" ELSE @]

(* limitedReader.Read has got a byte past the limit and terminates; the    *)
(* caller then waits.  The byte was read while Cmd.Wait had not closed the *)
(* pipe, at any time after it was written; terminate takes its lock when   *)
(* it can, and a Wait of Cleanup may have come and gone in between.        *)
ReadExcess(p) ==
  /\ stage[p] = "up" /\ reader[p] = "open" /\ p \in outOver
  /\ terminate(p, "OutputLimit")
  /\ reader' = [reader EXCEPT ![p] = IF wait[p] = "done" THEN "late" ELSE "over"]
  /\ BeginWait(p)
  /\ UNCHANGED <<stopVars, startVars, dirs, ctx, observed, drain, errOver, outOver,
                 waitErr, cleanupFailed>>

ReadEOF(p) == \* Stdout was read to its end; the caller waits
  /\ stage[p] = "up" /\ reader[p] = "open"
  /\ wait[p] \in {"idle", "begun", "table"} /\ ~Writing(p) /\ p \notin outOver
  /\ reader' = [reader EXCEPT ![p] = "eof"]
  /\ BeginWait(p)
  /\ UNCHANGED <<stopVars, startVars, dirs, ctx, authVars, observed, drain, errOver,
                 outOver, waitErr, cleanupFailed, osVars>>

Abandon(p) == \* stopProcess of internal/gitservice: cancel and Wait; reading may go on
  /\ stage[p] = "up" /\ wait[p] = "idle"
  /\ ctx' = [ctx EXCEPT ![p] = IF @ = "live" THEN "Canceled" ELSE @]
  /\ BeginWait(p)
  /\ UNCHANGED <<stopVars, startVars, dirs, authVars, observed, pipeVars, waitErr,
                 cleanupFailed, osVars>>

(* Runner.Call: a stdout that was not read to its end (the limit, or       *)
(* os.ErrClosed because Cmd.Wait ran for Cleanup) is never a success.      *)
CallResult(p) ==
  IF reader[p] # "eof" /\ waitErr[p] = "ok" THEN "CommandFailed" ELSE waitErr[p]

-----------------------------------------------------------------------------
(* Process.wait *)

WaitExit(p) == \* <-exitObserved, <-stderrDone; retireAndReap locks, kills if need be
  /\ wait[p] = "begun" /\ p \in observed /\ drain[p] = "eof"
  /\ wait' = [wait EXCEPT ![p] = "table"]
  /\ terminated' = terminated \cup {p}
  /\ IF p \in terminated THEN UNCHANGED osVars ELSE KillGroup(pid[p])
  /\ UNCHANGED <<stopVars, startVars, dirs, ctx, reason, observed, pipeVars, waitErr,
                 cleanupFailed>>

Vacated(q) == IF member[q] = "none" THEN None ELSE owner[q] \* holder once the leader is gone

ReapLeader(p) == \* takes processTableMu; Cmd.Wait reaps the leader
  /\ wait[p] = "table" /\ ProcessTableFree
  /\ LET q == pid[p] IN
       /\ leader[q] \in Zombie
       /\ waitErr' = [waitErr EXCEPT ![p] =
                        IF leader[q] = "exitOk" THEN "ok" ELSE "CommandFailed"]
       /\ leader' = [leader EXCEPT ![q] = "none"]
       /\ owner' = [owner EXCEPT ![q] = Vacated(q)]
  /\ wait' = [wait EXCEPT ![p] = "group"]
  /\ UNCHANGED <<stopVars, startVars, dirs, ctx, authVars, observed, pipeVars,
                 cleanupFailed, member>>

(* reapOwnedProcessGroup: wait4(-pgid) takes every zombie child with that  *)
(* group id, the leader of a child started meanwhile included.             *)
ReapGroupZombie(p) ==
  /\ wait[p] = "group"
  /\ LET q == pid[p] IN
       /\ member[q] = "zombie" \/ leader[q] \in Zombie
       /\ member' = [member EXCEPT ![q] = IF @ = "zombie" THEN "none" ELSE @]
       /\ leader' = [leader EXCEPT ![q] = IF @ \in Zombie THEN "none" ELSE @]
       /\ owner' = [owner EXCEPT ![q] =
                      IF leader'[q] = "none" /\ member'[q] = "none" THEN None ELSE @]
  /\ UNCHANGED <<stopVars, startVars, dirs, ctx, authVars, observed, pipeVars, waitVars>>

RetireGroup(p) == \* kill(-pgid, 0) finds no group, or the reap timeout has passed
  /\ wait[p] = "group"
  /\ wait' = [wait EXCEPT ![p] = "retired"]
  /\ cleanupFailed' = IF owner[pid[p]] = None THEN cleanupFailed ELSE cleanupFailed \cup {p}
  /\ UNCHANGED <<stopVars, startVars, dirs, ctx, authVars, observed, pipeVars, waitErr, osVars>>

classifyWaitError(p) == IF reason[p] # "nil" THEN reason[p] ELSE waitErr[p]

(* cancel, lifecycleDone, RemoveAll (which may fail), classifyWaitError,   *)
(* forget.                                                                 *)
FinishWait(p) ==
  /\ wait[p] = "retired"
  /\ wait' = [wait EXCEPT ![p] = "done"]
  /\ ctx' = [ctx EXCEPT ![p] = IF @ = "live" THEN "Canceled" ELSE @]
  /\ waitErr' = [waitErr EXCEPT ![p] = classifyWaitError(p)]
  /\ \/ dirs' = dirs \ {p} /\ UNCHANGED cleanupFailed
     \/ p \in Unruly /\ cleanupFailed' = cleanupFailed \cup {p} /\ UNCHANGED dirs
  /\ UNCHANGED <<stopVars, startVars, authVars, observed, pipeVars, osVars>>

-----------------------------------------------------------------------------
(* Runner.Cleanup *)

CleanupBegin ==
  /\ cleanup = "idle"
  /\ cleanup' = "barrier"
  /\ UNCHANGED <<snapshot, toStop, startVars, dirs, ctx, authVars, observed, pipeVars,
                 waitVars, osVars>>

CleanupSnapshot ==
  /\ cleanup = "barrier" /\ Starting = {}
  /\ snapshot' = Registered /\ toStop' = Registered
  /\ cleanup' = "stopping"
  /\ UNCHANGED <<startVars, dirs, ctx, authVars, observed, pipeVars, waitVars, osVars>>

CleanupStop(p) == \* Process.stop: cancel, then terminate(context.Canceled)
  /\ cleanup = "stopping" /\ p \in toStop
  /\ toStop' = toStop \ {p}
  /\ ctx' = [ctx EXCEPT ![p] = IF @ = "live" THEN "Canceled" ELSE @]
  /\ terminate(p, "Canceled")
  /\ UNCHANGED <<cleanup, snapshot, startVars, dirs, observed, pipeVars, waitVars>>

CleanupWait == \* one goroutine per process calls Wait; Once joins an earlier caller
  /\ cleanup = "stopping" /\ toStop = {}
  /\ cleanup' = "waiting"
  /\ wait' = [p \in Proc |-> IF p \in snapshot /\ wait[p] = "idle" THEN "begun" ELSE wait[p]]
  /\ UNCHANGED <<snapshot, toStop, startVars, dirs, ctx, authVars, observed, pipeVars,
                 waitErr, cleanupFailed, osVars>>

CleanupReturn ==
  /\ cleanup = "waiting" /\ \A p \in snapshot : wait[p] = "done"
  /\ cleanup' = "done"
  /\ UNCHANGED <<snapshot, toStop, startVars, dirs, ctx, authVars, observed, pipeVars,
                 waitVars, osVars>>

-----------------------------------------------------------------------------
(* The environment: contexts end, and the operating system runs groups. *)

ContextEnds(p, why) ==
  /\ stage[p] \in {"admitted", "spawned", "up"} /\ ctx[p] = "live"
  /\ ctx' = [ctx EXCEPT ![p] = why]
  /\ UNCHANGED <<stopVars, startVars, dirs, authVars, observed, pipeVars, waitVars, osVars>>

GroupWrites(p) == \* a live group writes past one of its two limits
  /\ p \in Unruly /\ stage[p] = "up" /\ owner[pid[p]] = p
  /\ leader[pid[p]] = "alive" \/ member[pid[p]] = "alive"
  /\ \/ errOver' = errOver \cup {p} /\ UNCHANGED outOver
     \/ outOver' = outOver \cup {p} /\ UNCHANGED errOver
  /\ UNCHANGED <<stopVars, startVars, dirs, ctx, authVars, observed, drain, reader,
                 waitVars, osVars>>

Fork(q) ==
  /\ owner[q] \in Unruly /\ leader[q] = "alive" /\ member[q] = "none"
  /\ member' = [member EXCEPT ![q] = "alive"]
  /\ UNCHANGED <<stopVars, startVars, dirs, ctx, authVars, observed, pipeVars, waitVars,
                 owner, leader>>

LeaderExits(q) ==
  /\ \/ leader[q] = "alive" /\ leader' = [leader EXCEPT ![q] = "exitOk"]
     \/ /\ leader[q] = "dying" \/ (leader[q] = "alive" /\ owner[q] \in Unruly)
        /\ leader' = [leader EXCEPT ![q] = "exitFail"]
  /\ UNCHANGED <<stopVars, startVars, dirs, ctx, authVars, observed, pipeVars, waitVars,
                 owner, member>>

MemberExits(q) == \* a zombie until its parent, init or wait4(-pgid) reaps it
  /\ \/ member[q] \in Running /\ member' = [member EXCEPT ![q] = "zombie"]
        /\ UNCHANGED owner
     \/ member[q] = "zombie" /\ member' = [member EXCEPT ![q] = "none"]
        /\ owner' = [owner EXCEPT ![q] = IF leader[q] = "none" THEN None ELSE @]
  /\ UNCHANGED <<stopVars, startVars, dirs, ctx, authVars, observed, pipeVars, waitVars,
                 leader>>

-----------------------------------------------------------------------------
StartStep(p) ==
  beginStart(p) \/ StartFails(p) \/ register(p) \/ \E q \in Pid : Spawn(p, q)

MonitorStep(p) == ObserveExit(p) \/ WatchContext(p) \/ DrainExcess(p) \/ DrainEOF(p)

CallerStep(p) == WriteOverBudget(p) \/ ReadExcess(p) \/ ReadEOF(p) \/ Abandon(p)

WaitStep(p) ==
  WaitExit(p) \/ ReapLeader(p) \/ ReapGroupZombie(p) \/ RetireGroup(p) \/ FinishWait(p)

CleanupStep ==
  \/ CleanupSnapshot \/ CleanupWait \/ CleanupReturn
  \/ \E p \in Proc : CleanupStop(p)

EnvironmentStep ==
  \/ \E p \in Proc : GroupWrites(p) \/ \E why \in {"Deadline", "Canceled"} : ContextEnds(p, why)
  \/ \E q \in Pid : Fork(q) \/ LeaderExits(q) \/ MemberExits(q)

Next ==
  \/ \E p \in Proc : StartStep(p) \/ MonitorStep(p) \/ CallerStep(p) \/ WaitStep(p)
  \/ CleanupBegin \/ CleanupStep
  \/ EnvironmentStep

(* The Go scheduler runs every goroutine that can run; an operation's      *)
(* timeout expires; a group that was sent SIGKILL dies and is reaped.      *)
Fairness ==
  /\ \A p \in Proc :
       /\ WF_vars(StartStep(p)) /\ WF_vars(WaitStep(p))
       /\ WF_vars(ObserveExit(p)) /\ WF_vars(WatchContext(p))
       /\ WF_vars(DrainExcess(p)) /\ WF_vars(DrainEOF(p))
       /\ WF_vars(ContextEnds(p, "Deadline"))
  /\ WF_vars(CleanupStep)
  /\ \A q \in Pid :
       /\ WF_vars(leader[q] = "dying" /\ LeaderExits(q))
       /\ WF_vars(member[q] \in {"dying", "zombie"} /\ MemberExits(q))

Spec == Init /\ [][Next]_vars
FairSpec == Spec /\ Fairness

-----------------------------------------------------------------------------
(* Properties *)

(* From cmd.Start until retireAndReap has retired the authority, the PID   *)
(* that terminate signals is the process's own group; while the group is   *)
(* being reaped it may have vanished, but no other child has been given    *)
(* its PID, which wait4(-pgid) would reap in its place.                    *)
SignalsOwnGroup ==
  \A p \in Proc : pid[p] # None /\ p \notin Retired =>
    \/ owner[pid[p]] = p
    \/ wait[p] = "group" /\ owner[pid[p]] = None

(* Once an authority is terminated, nothing of its group runs unsignalled, *)
(* neither the leader nor a descendant the leader forked.                  *)
TerminatedGroupIsKilled ==
  \A p \in terminated : owner[pid[p]] = p =>
    leader[pid[p]] # "alive" /\ member[pid[p]] # "alive"

(* A bound exceeded on stderr is never reported as success by Wait, nor    *)
(* one exceeded on stdout by Call, even when the leader had exited with    *)
(* status 0 before anybody read the excess; nor by Wait, if the reader     *)
(* terminated the process before Wait classified its end.                  *)
OverflowNeverSucceeds ==
  \A p \in Proc : wait[p] = "done" =>
    /\ p \in errOver \/ reader[p] = "over" => waitErr[p] # "ok"
    /\ p \in outOver => CallResult(p) # "ok"

(* When Cleanup has returned, no start is in flight, and every process's   *)
(* group and private directory are gone or its Wait reported that they     *)
(* are not.  Only a start that failed may leave a directory unreported.    *)
CleanupLeavesNothing ==
  cleanup = "done" =>
    /\ \A p \in Proc : stage[p] \in {"new", "up", "failed"}
    /\ \A p \in Proc \ cleanupFailed :
         (p \in dirs => stage[p] = "failed") /\ \A q \in Pid : owner[q] # p

(* A Wait that was called returns, whether or not the child ever exits by  *)
(* itself: its timeout ends it.  Cleanup returns: no Wait, barrier, lock   *)
(* or descendant holds it up for ever.  Neither is called again, so that   *)
(* from some time on none is under way.                                    *)
WaitAndCleanupReturn ==
  <>[](cleanup \in {"idle", "done"} /\ \A p \in Proc : wait[p] \in {"idle", "done"})
=============================================================================
