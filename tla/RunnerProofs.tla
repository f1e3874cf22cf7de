---------------------------- MODULE RunnerProofs ----------------------------
(***************************************************************************)
(* Proofs about Runner, for every set of processes and of PIDs.  The       *)
(* argument: a PID has one owner, which knows it (OwnerKnowsPid); the      *)
(* owner keeps it from cmd.Start until its leader is reaped (PidHeld);     *)
(* and while one authority is between the two reaps, no other is           *)
(* (OneRetirement) and no child starts, so its PID stays its own or free.  *)
(*                                                                         *)
(* The second half is about how a process ends: by the time Wait says why, *)
(* an output beyond its limit has set a reason or has been cut off         *)
(* (OverflowInv), and Cleanup has in its snapshot every process that was   *)
(* admitted before it began and is not done (CleanupInv).                  *)
(***************************************************************************)
EXTENDS Runner, TLAPS

PidGiven ==
  \A p \in Proc : pid[p] = None <=> stage[p] \in {"new", "admitted", "failed"}

OnlyUpIsWaited ==
  \A p \in Proc : stage[p] # "up" => wait[p] = "idle" /\ p \notin terminated /\ p \notin observed

OwnerKnowsPid == \A q \in Pid, p \in Proc : owner[q] = p => pid[p] = q

FreePidIsEmpty ==
  \A q \in Pid : owner[q] = None => leader[q] = "none" /\ member[q] = "none"

PidHeld ==
  \A p \in Proc : pid[p] # None /\ wait[p] \in {"idle", "begun", "table"} =>
    owner[pid[p]] = p /\ leader[pid[p]] # "none"

LeaderReaped ==
  \A p \in Proc : wait[p] = "group" =>
    owner[pid[p]] \in {p, None} /\ leader[pid[p]] = "none"

OneRetirement ==
  \A p, r \in Proc : wait[p] = "group" /\ wait[r] = "group" => p = r

SnapshotUp == snapshot \subseteq {p \in Proc : stage[p] = "up"} /\ toStop \subseteq snapshot

AuthorityInv ==
  /\ TypeOK /\ PidGiven /\ OnlyUpIsWaited /\ OwnerKnowsPid /\ FreePidIsEmpty
  /\ PidHeld /\ LeaderReaped /\ OneRetirement /\ SnapshotUp /\ TerminatedGroupIsKilled

-----------------------------------------------------------------------------
(* terminate, called for a process that Start has returned, preserves what *)
(* the invariant says of authorities and groups.  It touches the group of  *)
(* the process itself, or nothing.                                         *)
LEMMA TerminateSafe ==
  ASSUME AuthorityInv, NEW p \in Proc, NEW why \in Reason, stage[p] = "up",
         terminate(p, why)
  PROVE  /\ terminated' \in {terminated, terminated \cup {p}}
         /\ reason' \in [Proc -> Reason]
         /\ owner' = owner
         /\ leader' \in [Pid -> {"none"} \cup Running \cup Zombie]
         /\ member' \in [Pid -> {"none", "zombie"} \cup Running]
         /\ \A q \in Pid : leader'[q] = "none" <=> leader[q] = "none"
         /\ \A q \in Pid : member'[q] = "none" <=> member[q] = "none"
         /\ \A r \in terminated' : owner[pid[r]] = r =>
              leader'[pid[r]] # "alive" /\ member'[pid[r]] # "alive"
<1> USE DEF AuthorityInv, TypeOK, Reason, Zombie, Running
<1>1. CASE p \in Retired \cup terminated
  BY <1>1 DEF terminate, LateReason, TerminatedGroupIsKilled, osVars
<1>2. CASE p \notin Retired \cup terminated
  <2>1. pid[p] \in Pid
    BY DEF PidGiven
  <2>2. /\ terminated' = terminated \cup {p}
        /\ reason' = [reason EXCEPT ![p] = why]
        /\ KillGroup(pid[p])
    BY <1>2 DEF terminate
  <2>3. /\ \A q \in Pid : leader'[q] = "alive" => leader[q] = "alive" /\ q # pid[p]
        /\ \A q \in Pid : member'[q] = "alive" => member[q] = "alive" /\ q # pid[p]
    BY <2>1, <2>2 DEF KillGroup
  <2>4. \A r \in terminated' : owner[pid[r]] = r =>
          leader'[pid[r]] # "alive" /\ member'[pid[r]] # "alive"
    BY <2>1, <2>2, <2>3 DEF TerminatedGroupIsKilled, OnlyUpIsWaited, PidGiven
  <2> QED
    BY <2>1, <2>2, <2>4 DEF KillGroup
<1> QED
  BY <1>1, <1>2

-----------------------------------------------------------------------------
(* The invariant holds when no process has been started.                   *)
LEMMA AuthorityInit == Init => AuthorityInv
BY RunnerAssumption
   DEF Init, AuthorityInv, TypeOK, Reason, Outcome, Zombie, Running, PidGiven,
       OnlyUpIsWaited, OwnerKnowsPid, FreePidIsEmpty, PidHeld, LeaderReaped,
       OneRetirement, SnapshotUp, TerminatedGroupIsKilled

(* Every action of the runner, of the kernel and of cleanup preserves it.  *)
LEMMA AuthorityStep == AuthorityInv /\ [Next]_vars => AuthorityInv'
<1> SUFFICES ASSUME AuthorityInv, [Next]_vars
             PROVE  AuthorityInv'
  OBVIOUS
<1> USE RunnerAssumption
    DEF AuthorityInv, TypeOK, Reason, Outcome, Zombie, Running, PidGiven, OnlyUpIsWaited,
        OwnerKnowsPid, FreePidIsEmpty, PidHeld, LeaderReaped, OneRetirement, SnapshotUp,
        TerminatedGroupIsKilled, startVars, authVars, pipeVars, waitVars, osVars, stopVars
<1>1. ASSUME NEW p \in Proc, beginStart(p) PROVE AuthorityInv'
  BY <1>1 DEF beginStart
<1>2. ASSUME NEW p \in Proc, StartFails(p) PROVE AuthorityInv'
  BY <1>2 DEF StartFails
<1>3. ASSUME NEW p \in Proc, register(p) PROVE AuthorityInv'
  BY <1>3 DEF register
<1>4. ASSUME NEW p \in Proc, NEW q \in Pid, Spawn(p, q) PROVE AuthorityInv'
  BY <1>4 DEF Spawn, ProcessTableFree
<1>5. ASSUME NEW p \in Proc, ObserveExit(p) PROVE AuthorityInv'
  <2>1. stage[p] = "up" /\ terminate(p, "nil")
    BY <1>5 DEF ObserveExit
  <2> QED
    BY <1>5, <2>1, TerminateSafe DEF ObserveExit
<1>6. ASSUME NEW p \in Proc, WatchContext(p) PROVE AuthorityInv'
  <2>1. stage[p] = "up" /\ ctx[p] \in Reason
    BY <1>6 DEF WatchContext, ContextDone
  <2>2. PICK why \in Reason : terminate(p, why)
    BY <1>6, <2>1 DEF WatchContext
  <2> QED
    BY <1>6, <2>1, <2>2, TerminateSafe DEF WatchContext
<1>7. ASSUME NEW p \in Proc, DrainExcess(p) PROVE AuthorityInv'
  <2>1. stage[p] = "up" /\ terminate(p, "OutputLimit")
    BY <1>7 DEF DrainExcess
  <2> QED
    BY <1>7, <2>1, TerminateSafe DEF DrainExcess
<1>8. ASSUME NEW p \in Proc, DrainEOF(p) PROVE AuthorityInv'
  BY <1>8 DEF DrainEOF
<1>9. ASSUME NEW p \in Proc, WriteOverBudget(p) PROVE AuthorityInv'
  <2>1. stage[p] = "up" /\ terminate(p, "InputLimit")
    BY <1>9 DEF WriteOverBudget
  <2> QED
    BY <1>9, <2>1, TerminateSafe DEF WriteOverBudget
<1>10. ASSUME NEW p \in Proc, ReadExcess(p) PROVE AuthorityInv'
  <2>1. stage[p] = "up" /\ terminate(p, "OutputLimit")
    BY <1>10 DEF ReadExcess
  <2> QED
    BY <1>10, <2>1, TerminateSafe DEF ReadExcess, BeginWait
<1>11. ASSUME NEW p \in Proc, ReadEOF(p) PROVE AuthorityInv'
  BY <1>11 DEF ReadEOF, BeginWait
<1>12. ASSUME NEW p \in Proc, Abandon(p) PROVE AuthorityInv'
  BY <1>12 DEF Abandon, BeginWait
<1>13. ASSUME NEW p \in Proc, WaitExit(p) PROVE AuthorityInv'
  BY <1>13 DEF WaitExit, KillGroup
<1>14. ASSUME NEW p \in Proc, ReapLeader(p) PROVE AuthorityInv'
  BY <1>14 DEF ReapLeader, ProcessTableFree, Vacated
<1>15. ASSUME NEW p \in Proc, ReapGroupZombie(p) PROVE AuthorityInv'
  BY <1>15 DEF ReapGroupZombie
<1>16. ASSUME NEW p \in Proc, RetireGroup(p) PROVE AuthorityInv'
  BY <1>16 DEF RetireGroup
<1>17. ASSUME NEW p \in Proc, FinishWait(p) PROVE AuthorityInv'
  BY <1>17 DEF FinishWait, classifyWaitError
<1>18. ASSUME CleanupBegin PROVE AuthorityInv'
  BY <1>18 DEF CleanupBegin
<1>19. ASSUME CleanupSnapshot PROVE AuthorityInv'
  BY <1>19 DEF CleanupSnapshot, Registered
<1>20. ASSUME CleanupWait PROVE AuthorityInv'
  BY <1>20 DEF CleanupWait
<1>21. ASSUME CleanupReturn PROVE AuthorityInv'
  BY <1>21 DEF CleanupReturn
<1>22. ASSUME NEW p \in Proc, CleanupStop(p) PROVE AuthorityInv'
  <2>1. stage[p] = "up" /\ terminate(p, "Canceled")
    BY <1>22 DEF CleanupStop
  <2> QED
    BY <1>22, <2>1, TerminateSafe DEF CleanupStop
<1>23. ASSUME NEW p \in Proc, NEW why \in {"Deadline", "Canceled"}, ContextEnds(p, why) PROVE AuthorityInv'
  BY <1>23 DEF ContextEnds
<1>24. ASSUME NEW p \in Proc, GroupWrites(p) PROVE AuthorityInv'
  BY <1>24 DEF GroupWrites
<1>25. ASSUME NEW q \in Pid, Fork(q) PROVE AuthorityInv'
  BY <1>25 DEF Fork
<1>26. ASSUME NEW q \in Pid, LeaderExits(q) PROVE AuthorityInv'
  BY <1>26 DEF LeaderExits
<1>27. ASSUME NEW q \in Pid, MemberExits(q) PROVE AuthorityInv'
  BY <1>27 DEF MemberExits
<1>28. ASSUME UNCHANGED vars PROVE AuthorityInv'
  BY <1>28 DEF vars
<1> HIDE RunnerAssumption
    DEF AuthorityInv, TypeOK, Reason, Outcome, Zombie, Running, PidGiven, OnlyUpIsWaited,
        OwnerKnowsPid, FreePidIsEmpty, PidHeld, LeaderReaped, OneRetirement, SnapshotUp,
        TerminatedGroupIsKilled, startVars, authVars, pipeVars, waitVars, osVars, stopVars
<1>29. ASSUME NEW p \in Proc, StartStep(p) PROVE AuthorityInv'
  BY <1>29, <1>1, <1>2, <1>3, <1>4 DEF StartStep
<1>30. ASSUME NEW p \in Proc, MonitorStep(p) PROVE AuthorityInv'
  BY <1>30, <1>5, <1>6, <1>7, <1>8 DEF MonitorStep
<1>31. ASSUME NEW p \in Proc, CallerStep(p) PROVE AuthorityInv'
  BY <1>31, <1>9, <1>10, <1>11, <1>12 DEF CallerStep
<1>32. ASSUME NEW p \in Proc, WaitStep(p) PROVE AuthorityInv'
  BY <1>32, <1>13, <1>14, <1>15, <1>16, <1>17 DEF WaitStep
<1>33. ASSUME CleanupStep PROVE AuthorityInv'
  BY <1>33, <1>19, <1>20, <1>21, <1>22 DEF CleanupStep
<1>34. ASSUME EnvironmentStep PROVE AuthorityInv'
  BY <1>34, <1>23, <1>24, <1>25, <1>26, <1>27 DEF EnvironmentStep
<1> QED
  BY <1>18, <1>28, <1>29, <1>30, <1>31, <1>32, <1>33, <1>34 DEF Next

(* The runner's state keeps its types in every behaviour. *)
THEOREM TypeCorrect == Spec => []TypeOK
<1>1. AuthorityInv => TypeOK
  BY DEF AuthorityInv
<1> QED
  BY <1>1, AuthorityInit, AuthorityStep, PTL DEF Spec

(* terminate and reapOwnedProcessGroup never reach the group of another    *)
(* child, whichever PIDs the kernel reuses and however many children the   *)
(* broker runs.                                                            *)
THEOREM SignalsOwnGroupAlways == Spec => []SignalsOwnGroup
<1>1. AuthorityInv => SignalsOwnGroup
  BY DEF AuthorityInv, TypeOK, PidHeld, LeaderReaped, SignalsOwnGroup, Retired
<1> QED
  BY <1>1, AuthorityInit, AuthorityStep, PTL DEF Spec

(* The one SIGKILL that terminate sends leaves nothing of the group        *)
(* running unsignalled.                                                    *)
THEOREM TerminatedGroupIsKilledAlways == Spec => []TerminatedGroupIsKilled
<1>1. AuthorityInv => TerminatedGroupIsKilled
  BY DEF AuthorityInv
<1> QED
  BY <1>1, AuthorityInit, AuthorityStep, PTL DEF Spec
-----------------------------------------------------------------------------
(* Why a bound that was passed is reported.  The reason of a termination   *)
(* is set at most once, and late only by OutputLimit; by the time Wait     *)
(* classifies the exit, the stderr drain has ended, and it ends only when  *)
(* nobody writes any more.                                                 *)
ReasonSetOnce ==
  \A p \in Proc :
    /\ p \notin terminated => reason[p] = "nil"
    /\ wait[p] \notin {"idle", "begun"} => p \in terminated /\ drain[p] = "eof"

(* At the end of a pipe nobody can write to it any more. *)
PipeEndsQuietly ==
  \A p \in Proc : drain[p] = "eof" \/ reader[p] = "eof" => stage[p] = "up" /\ ~Writing(p)

ExcessHasReason ==
  \A p \in Proc :
    /\ drain[p] = "limited" \/ reader[p] = "over" => reason[p] # "nil"
    /\ drain[p] = "eof" /\ p \in errOver => reason[p] # "nil"
    /\ reader[p] = "eof" => p \notin outOver

(* A reason that came before Wait classified the end is Wait's error; the  *)
(* excess of a reader that came too late is not, nor is it needed.         *)
ReasonIsReported ==
  \A p \in Proc : wait[p] = "done" =>
    /\ reason[p] # "nil" /\ reader[p] # "late" => waitErr[p] = reason[p]
    /\ drain[p] = "eof" /\ (p \in errOver => waitErr[p] # "ok")
    /\ reader[p] = "over" => waitErr[p] # "ok"

OverflowInv == ReasonSetOnce /\ PipeEndsQuietly /\ ExcessHasReason /\ ReasonIsReported

(* What Cleanup relies on: nobody starts once it has passed its barrier,   *)
(* every process that is up is in its snapshot or was done by then, and a  *)
(* process that is done has left nothing behind that it did not report.    *)
NoLateStart == cleanup \in {"stopping", "waiting", "done"} => Starting = {}

SnapshotCovers ==
  /\ cleanup \in {"stopping", "waiting", "done"} =>
       \A p \in Proc : stage[p] = "up" => p \in snapshot \/ wait[p] = "done"
  /\ cleanup = "done" => \A p \in snapshot : wait[p] = "done"

NothingLeft ==
  \A p \in Proc :
    /\ p \in dirs => stage[p] \in {"spawned", "up", "failed"}
    /\ wait[p] = "done" /\ p \notin cleanupFailed => p \notin dirs
    /\ p \in Retired \ cleanupFailed => \A q \in Pid : owner[q] # p

CleanupInv == NoLateStart /\ SnapshotCovers /\ NothingLeft
-----------------------------------------------------------------------------
(* terminate sets a reason once, sets it for an exceeded output limit even *)
(* when the process was terminated before, and starts nobody writing.      *)
LEMMA TerminateReason ==
  ASSUME AuthorityInv, OverflowInv, NEW p \in Proc, NEW why \in Reason, stage[p] = "up",
         terminate(p, why)
  PROVE  /\ p \in terminated' /\ terminated \subseteq terminated' /\ terminated' \subseteq terminated \cup {p}
         /\ \A r \in Proc : r # p \/ reason[p] # "nil" => reason'[r] = reason[r]
         /\ why = "OutputLimit" => reason'[p] # "nil"
         /\ p \in Retired /\ why # "OutputLimit" => reason' = reason
         /\ owner' = owner
         /\ \A q \in Pid : leader'[q] \in Running <=> leader[q] \in Running
         /\ \A q \in Pid : member'[q] \in Running <=> member[q] \in Running
<1> USE DEF AuthorityInv, TypeOK, Reason, Zombie, Running
<1>1. p \in Retired => p \in terminated
  BY DEF OverflowInv, ReasonSetOnce, Retired
<1>2. CASE p \in Retired \cup terminated
  BY <1>1, <1>2 DEF terminate, LateReason, osVars
<1>3. CASE p \notin Retired \cup terminated
  <2>1. reason[p] = "nil" /\ pid[p] \in Pid
    BY <1>3 DEF OverflowInv, ReasonSetOnce, PidGiven
  <2> QED
    BY <1>3, <2>1 DEF terminate, KillGroup
<1> QED
  BY <1>2, <1>3

(* No process has been started: nothing was exceeded and nothing is left. *)
LEMMA OutcomeInit == Init => OverflowInv /\ CleanupInv
BY RunnerAssumption
   DEF Init, OverflowInv, ReasonSetOnce, PipeEndsQuietly, ExcessHasReason, ReasonIsReported,
       CleanupInv, NoLateStart, SnapshotCovers, NothingLeft, Starting, Retired

(* Every action keeps what is known of exceeded bounds. *)
LEMMA OverflowStep == AuthorityInv /\ OverflowInv /\ [Next]_vars => OverflowInv'
<1> SUFFICES ASSUME AuthorityInv, OverflowInv, [Next]_vars
             PROVE  OverflowInv'
  OBVIOUS
<1> USE RunnerAssumption
    DEF AuthorityInv, TypeOK, Reason, Outcome, Zombie, Running, PidGiven, OnlyUpIsWaited, OwnerKnowsPid,
        FreePidIsEmpty, PidHeld, LeaderReaped, SnapshotUp, Writing, Retired, OverflowInv, ReasonSetOnce,
        PipeEndsQuietly, ExcessHasReason, ReasonIsReported, startVars, authVars, pipeVars, waitVars, osVars, stopVars
<1>1. ASSUME NEW p \in Proc, beginStart(p) PROVE OverflowInv'
  BY <1>1 DEF beginStart
<1>2. ASSUME NEW p \in Proc, StartFails(p) PROVE OverflowInv'
  BY <1>2 DEF StartFails
<1>3. ASSUME NEW p \in Proc, register(p) PROVE OverflowInv'
  BY <1>3 DEF register
<1>4. ASSUME NEW p \in Proc, NEW q \in Pid, Spawn(p, q) PROVE OverflowInv'
  BY <1>4 DEF Spawn, ProcessTableFree
<1>5. ASSUME NEW p \in Proc, ObserveExit(p) PROVE OverflowInv'
  <2>1. stage[p] = "up" /\ terminate(p, "nil")
    BY <1>5 DEF ObserveExit
  <2> QED
    BY <1>5, <2>1, TerminateReason DEF ObserveExit
<1>6. ASSUME NEW p \in Proc, WatchContext(p) PROVE OverflowInv'
  <2>1. stage[p] = "up" /\ ctx[p] \in Reason /\ ctx[p] # "OutputLimit"
    BY <1>6 DEF WatchContext, ContextDone
  <2>2. PICK why \in Reason : why # "OutputLimit" /\ terminate(p, why)
    BY <1>6, <2>1 DEF WatchContext
  <2> QED
    BY <1>6, <2>1, <2>2, TerminateReason DEF WatchContext
<1>7. ASSUME NEW p \in Proc, DrainExcess(p) PROVE OverflowInv'
  <2>1. stage[p] = "up" /\ terminate(p, "OutputLimit")
    BY <1>7 DEF DrainExcess
  <2> QED
    BY <1>7, <2>1, TerminateReason DEF DrainExcess
<1>8. ASSUME NEW p \in Proc, DrainEOF(p) PROVE OverflowInv'
  BY <1>8 DEF DrainEOF
<1>9. ASSUME NEW p \in Proc, WriteOverBudget(p) PROVE OverflowInv'
  <2>1. stage[p] = "up" /\ terminate(p, "InputLimit")
    BY <1>9 DEF WriteOverBudget
  <2> QED
    BY <1>9, <2>1, TerminateReason DEF WriteOverBudget
<1>10. ASSUME NEW p \in Proc, ReadExcess(p) PROVE OverflowInv'
  <2>1. stage[p] = "up" /\ terminate(p, "OutputLimit")
    BY <1>10 DEF ReadExcess
  <2> QED
    BY <1>10, <2>1, TerminateReason DEF ReadExcess, BeginWait
<1>11. ASSUME NEW p \in Proc, ReadEOF(p) PROVE OverflowInv'
  BY <1>11 DEF ReadEOF, BeginWait
<1>12. ASSUME NEW p \in Proc, Abandon(p) PROVE OverflowInv'
  BY <1>12 DEF Abandon, BeginWait
<1>13. ASSUME NEW p \in Proc, WaitExit(p) PROVE OverflowInv'
  BY <1>13 DEF WaitExit, KillGroup
<1>14. ASSUME NEW p \in Proc, ReapLeader(p) PROVE OverflowInv'
  BY <1>14 DEF ReapLeader, ProcessTableFree, Vacated
<1>15. ASSUME NEW p \in Proc, ReapGroupZombie(p) PROVE OverflowInv'
  BY <1>15 DEF ReapGroupZombie
<1>16. ASSUME NEW p \in Proc, RetireGroup(p) PROVE OverflowInv'
  BY <1>16 DEF RetireGroup
<1>17. ASSUME NEW p \in Proc, FinishWait(p) PROVE OverflowInv'
  BY <1>17 DEF FinishWait, classifyWaitError
<1>18. ASSUME CleanupBegin PROVE OverflowInv'
  BY <1>18 DEF CleanupBegin
<1>19. ASSUME CleanupSnapshot PROVE OverflowInv'
  BY <1>19 DEF CleanupSnapshot, Registered
<1>20. ASSUME CleanupWait PROVE OverflowInv'
  BY <1>20 DEF CleanupWait
<1>21. ASSUME CleanupReturn PROVE OverflowInv'
  BY <1>21 DEF CleanupReturn
<1>22. ASSUME NEW p \in Proc, CleanupStop(p) PROVE OverflowInv'
  <2>1. stage[p] = "up" /\ terminate(p, "Canceled")
    BY <1>22 DEF CleanupStop
  <2> QED
    BY <1>22, <2>1, TerminateReason DEF CleanupStop
<1>23. ASSUME NEW p \in Proc, NEW why \in {"Deadline", "Canceled"}, ContextEnds(p, why) PROVE OverflowInv'
  BY <1>23 DEF ContextEnds
<1>24. ASSUME NEW p \in Proc, GroupWrites(p) PROVE OverflowInv'
  BY <1>24 DEF GroupWrites
<1>25. ASSUME NEW q \in Pid, Fork(q) PROVE OverflowInv'
  BY <1>25 DEF Fork
<1>26. ASSUME NEW q \in Pid, LeaderExits(q) PROVE OverflowInv'
  BY <1>26 DEF LeaderExits
<1>27. ASSUME NEW q \in Pid, MemberExits(q) PROVE OverflowInv'
  BY <1>27 DEF MemberExits
<1>28. ASSUME UNCHANGED vars PROVE OverflowInv'
  BY <1>28 DEF vars
<1> HIDE RunnerAssumption
    DEF AuthorityInv, TypeOK, Reason, Outcome, Zombie, Running, PidGiven, OnlyUpIsWaited, OwnerKnowsPid,
        FreePidIsEmpty, PidHeld, LeaderReaped, SnapshotUp, Writing, Retired, OverflowInv, ReasonSetOnce,
        PipeEndsQuietly, ExcessHasReason, ReasonIsReported, startVars, authVars, pipeVars, waitVars, osVars, stopVars
<1>29. ASSUME NEW p \in Proc, StartStep(p) PROVE OverflowInv'
  BY <1>29, <1>1, <1>2, <1>3, <1>4 DEF StartStep
<1>30. ASSUME NEW p \in Proc, MonitorStep(p) PROVE OverflowInv'
  BY <1>30, <1>5, <1>6, <1>7, <1>8 DEF MonitorStep
<1>31. ASSUME NEW p \in Proc, CallerStep(p) PROVE OverflowInv'
  BY <1>31, <1>9, <1>10, <1>11, <1>12 DEF CallerStep
<1>32. ASSUME NEW p \in Proc, WaitStep(p) PROVE OverflowInv'
  BY <1>32, <1>13, <1>14, <1>15, <1>16, <1>17 DEF WaitStep
<1>33. ASSUME CleanupStep PROVE OverflowInv'
  BY <1>33, <1>19, <1>20, <1>21, <1>22 DEF CleanupStep
<1>34. ASSUME EnvironmentStep PROVE OverflowInv'
  BY <1>34, <1>23, <1>24, <1>25, <1>26, <1>27 DEF EnvironmentStep
<1> QED
  BY <1>18, <1>28, <1>29, <1>30, <1>31, <1>32, <1>33, <1>34 DEF Next

(* Every action keeps what Cleanup relies on. *)
LEMMA CleanupInvStep == AuthorityInv /\ CleanupInv /\ [Next]_vars => CleanupInv'
<1> SUFFICES ASSUME AuthorityInv, CleanupInv, [Next]_vars
             PROVE  CleanupInv'
  OBVIOUS
<1> USE RunnerAssumption
    DEF AuthorityInv, TypeOK, Reason, PidGiven, OnlyUpIsWaited, OwnerKnowsPid, SnapshotUp, PidHeld, LeaderReaped,
        Starting, Retired, CleanupInv, NoLateStart, SnapshotCovers, NothingLeft, startVars, authVars, pipeVars, waitVars, osVars, stopVars
<1>1. ASSUME NEW p \in Proc, beginStart(p) PROVE CleanupInv'
  BY <1>1 DEF beginStart
<1>2. ASSUME NEW p \in Proc, StartFails(p) PROVE CleanupInv'
  BY <1>2 DEF StartFails
<1>3. ASSUME NEW p \in Proc, register(p) PROVE CleanupInv'
  BY <1>3 DEF register
<1>4. ASSUME NEW p \in Proc, NEW q \in Pid, Spawn(p, q) PROVE CleanupInv'
  BY <1>4 DEF Spawn, ProcessTableFree
<1>5. ASSUME NEW p \in Proc, ObserveExit(p) PROVE CleanupInv'
  <2>1. stage[p] = "up" /\ terminate(p, "nil")
    BY <1>5 DEF ObserveExit
  <2> QED
    BY <1>5, <2>1, TerminateSafe DEF ObserveExit
<1>6. ASSUME NEW p \in Proc, WatchContext(p) PROVE CleanupInv'
  <2>1. stage[p] = "up" /\ ctx[p] \in Reason /\ ctx[p] # "OutputLimit"
    BY <1>6 DEF WatchContext, ContextDone
  <2>2. PICK why \in Reason : why # "OutputLimit" /\ terminate(p, why)
    BY <1>6, <2>1 DEF WatchContext
  <2> QED
    BY <1>6, <2>1, <2>2, TerminateSafe DEF WatchContext
<1>7. ASSUME NEW p \in Proc, DrainExcess(p) PROVE CleanupInv'
  <2>1. stage[p] = "up" /\ terminate(p, "OutputLimit")
    BY <1>7 DEF DrainExcess
  <2> QED
    BY <1>7, <2>1, TerminateSafe DEF DrainExcess
<1>8. ASSUME NEW p \in Proc, DrainEOF(p) PROVE CleanupInv'
  BY <1>8 DEF DrainEOF
<1>9. ASSUME NEW p \in Proc, WriteOverBudget(p) PROVE CleanupInv'
  <2>1. stage[p] = "up" /\ terminate(p, "InputLimit")
    BY <1>9 DEF WriteOverBudget
  <2> QED
    BY <1>9, <2>1, TerminateSafe DEF WriteOverBudget
<1>10. ASSUME NEW p \in Proc, ReadExcess(p) PROVE CleanupInv'
  <2>1. stage[p] = "up" /\ terminate(p, "OutputLimit")
    BY <1>10 DEF ReadExcess
  <2> QED
    BY <1>10, <2>1, TerminateSafe DEF ReadExcess, BeginWait
<1>11. ASSUME NEW p \in Proc, ReadEOF(p) PROVE CleanupInv'
  BY <1>11 DEF ReadEOF, BeginWait
<1>12. ASSUME NEW p \in Proc, Abandon(p) PROVE CleanupInv'
  BY <1>12 DEF Abandon, BeginWait
<1>13. ASSUME NEW p \in Proc, WaitExit(p) PROVE CleanupInv'
  BY <1>13 DEF WaitExit, KillGroup
<1>14. ASSUME NEW p \in Proc, ReapLeader(p) PROVE CleanupInv'
  BY <1>14 DEF ReapLeader, ProcessTableFree, Vacated
<1>15. ASSUME NEW p \in Proc, ReapGroupZombie(p) PROVE CleanupInv'
  BY <1>15 DEF ReapGroupZombie
<1>16. ASSUME NEW p \in Proc, RetireGroup(p) PROVE CleanupInv'
  BY <1>16 DEF RetireGroup
<1>17. ASSUME NEW p \in Proc, FinishWait(p) PROVE CleanupInv'
  BY <1>17 DEF FinishWait, classifyWaitError
<1>18. ASSUME CleanupBegin PROVE CleanupInv'
  BY <1>18 DEF CleanupBegin
<1>19. ASSUME CleanupSnapshot PROVE CleanupInv'
  BY <1>19 DEF CleanupSnapshot, Registered
<1>20. ASSUME CleanupWait PROVE CleanupInv'
  BY <1>20 DEF CleanupWait
<1>21. ASSUME CleanupReturn PROVE CleanupInv'
  BY <1>21 DEF CleanupReturn
<1>22. ASSUME NEW p \in Proc, CleanupStop(p) PROVE CleanupInv'
  <2>1. stage[p] = "up" /\ terminate(p, "Canceled")
    BY <1>22 DEF CleanupStop
  <2> QED
    BY <1>22, <2>1, TerminateSafe DEF CleanupStop
<1>23. ASSUME NEW p \in Proc, NEW why \in {"Deadline", "Canceled"}, ContextEnds(p, why) PROVE CleanupInv'
  BY <1>23 DEF ContextEnds
<1>24. ASSUME NEW p \in Proc, GroupWrites(p) PROVE CleanupInv'
  BY <1>24 DEF GroupWrites
<1>25. ASSUME NEW q \in Pid, Fork(q) PROVE CleanupInv'
  BY <1>25 DEF Fork
<1>26. ASSUME NEW q \in Pid, LeaderExits(q) PROVE CleanupInv'
  BY <1>26 DEF LeaderExits
<1>27. ASSUME NEW q \in Pid, MemberExits(q) PROVE CleanupInv'
  BY <1>27 DEF MemberExits
<1>28. ASSUME UNCHANGED vars PROVE CleanupInv'
  BY <1>28 DEF vars
<1> HIDE RunnerAssumption
    DEF AuthorityInv, TypeOK, Reason, PidGiven, OnlyUpIsWaited, OwnerKnowsPid, SnapshotUp, PidHeld, LeaderReaped,
        Starting, Retired, CleanupInv, NoLateStart, SnapshotCovers, NothingLeft, startVars, authVars, pipeVars, waitVars, osVars, stopVars
<1>29. ASSUME NEW p \in Proc, StartStep(p) PROVE CleanupInv'
  BY <1>29, <1>1, <1>2, <1>3, <1>4 DEF StartStep
<1>30. ASSUME NEW p \in Proc, MonitorStep(p) PROVE CleanupInv'
  BY <1>30, <1>5, <1>6, <1>7, <1>8 DEF MonitorStep
<1>31. ASSUME NEW p \in Proc, CallerStep(p) PROVE CleanupInv'
  BY <1>31, <1>9, <1>10, <1>11, <1>12 DEF CallerStep
<1>32. ASSUME NEW p \in Proc, WaitStep(p) PROVE CleanupInv'
  BY <1>32, <1>13, <1>14, <1>15, <1>16, <1>17 DEF WaitStep
<1>33. ASSUME CleanupStep PROVE CleanupInv'
  BY <1>33, <1>19, <1>20, <1>21, <1>22 DEF CleanupStep
<1>34. ASSUME EnvironmentStep PROVE CleanupInv'
  BY <1>34, <1>23, <1>24, <1>25, <1>26, <1>27 DEF EnvironmentStep
<1> QED
  BY <1>18, <1>28, <1>29, <1>30, <1>31, <1>32, <1>33, <1>34 DEF Next

(* A bound exceeded on stderr is never reported as success by Wait, nor    *)
(* one on stdout by Call, for every number of processes and in every order *)
(* of the drain, the readers, the exit and the reaps.                      *)
THEOREM OverflowNeverSucceedsAlways == Spec => []OverflowNeverSucceeds
<1>1. AuthorityInv /\ OverflowInv => OverflowNeverSucceeds
  BY DEF AuthorityInv, TypeOK, Reason, Outcome, OverflowInv, ReasonSetOnce, ExcessHasReason, ReasonIsReported,
         OverflowNeverSucceeds, CallResult
<1>2. AuthorityInv /\ OverflowInv /\ [Next]_vars => (AuthorityInv /\ OverflowInv)'
  BY AuthorityStep, OverflowStep
<1> QED
  BY <1>1, <1>2, AuthorityInit, OutcomeInit, PTL DEF Spec

(* When Runner.Cleanup returns, no start is in flight and every group and  *)
(* private directory is gone, or its Wait has said that it is not.         *)
THEOREM CleanupAlwaysLeavesNothing == Spec => []CleanupLeavesNothing
<1>1. AuthorityInv /\ CleanupInv => CleanupLeavesNothing
  <2> SUFFICES ASSUME AuthorityInv, CleanupInv, cleanup = "done", NEW p \in Proc
               PROVE  /\ stage[p] \in {"new", "up", "failed"}
                      /\ p \notin cleanupFailed =>
                           (p \in dirs => stage[p] = "failed") /\ \A q \in Pid : owner[q] # p
    BY DEF CleanupLeavesNothing
  <2>1. stage[p] \in {"new", "up", "failed"}
    BY DEF AuthorityInv, TypeOK, CleanupInv, NoLateStart, Starting
  <2>2. CASE stage[p] = "up"
    <3>1. wait[p] = "done"
      BY <2>2 DEF CleanupInv, SnapshotCovers
    <3> QED
      BY <2>1, <3>1 DEF CleanupInv, NothingLeft, Retired
  <2>3. CASE stage[p] # "up"
    <3>1. pid[p] = None
      BY <2>1, <2>3 DEF AuthorityInv, PidGiven
    <3>2. \A q \in Pid : owner[q] # p
      BY <3>1, RunnerAssumption DEF AuthorityInv, OwnerKnowsPid
    <3> QED
      BY <2>1, <2>3, <3>2 DEF CleanupInv, NothingLeft
  <2> QED
    BY <2>2, <2>3
<1>2. AuthorityInv /\ CleanupInv /\ [Next]_vars => (AuthorityInv /\ CleanupInv)'
  BY AuthorityStep, CleanupInvStep
<1> QED
  BY <1>1, <1>2, AuthorityInit, OutcomeInit, PTL DEF Spec
=============================================================================
