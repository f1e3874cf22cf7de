------------------------------- MODULE Server -------------------------------
(***************************************************************************)
(* The broker's gRPC server (internal/server): the interceptor chain every *)
(* call passes (global lease, authentication, admission, principal lease,  *)
(* handler, terminal audit and the deferred releases on the way out),      *)
(* concurrently with Server.Serve, which stops admission, drains, and when *)
(* the grace period ends cancels what is left, cleans up the provider      *)
(* processes (the subject of Runner) and flushes the audit output.         *)
(*                                                                         *)
(* gRPC itself is external: GracefulStop returns when no handler is left,  *)
(* and Stop ends the contexts of all calls without waiting for them.       *)
(***************************************************************************)
EXTENDS Naturals, FiniteSets

CONSTANTS Call,       \* RPCs
          Principal,  \* authenticated principals
          Health,     \* the identity of a health call: none
          None,       \* nobody holds the audit writer
          GlobalMax,  \* MaxConcurrentRequests
          PerMax      \* MaxConcurrentRequestsPerPrincipal

ASSUME ServerAssumption ==
  /\ Health \notin Principal /\ None \notin Call
  /\ GlobalMax \in Nat /\ PerMax \in Nat

VARIABLES
  phase,     \* where each call is in the chain
  who,       \* its principal, or Health
  global,    \* leases taken from the channel Server.global
  per,       \* concurrencyLimits.per
  stopping,  \* Server.stopping
  active,    \* calls with a cancel function in Server.active
  admitted,  \* history: calls that were ever put there
  cancelled, \* calls whose context has ended
  writer,    \* the call inside audit.Writer.Write
  records,   \* calls whose terminal event was attempted: written, or refused by the sink
  serve,     \* where Server.Serve is
  mode,      \* how Serve ends: drained, forced, or failed (the listener broke)
  result     \* the errors joined into what Serve returns

callVars  == <<phase, who, admitted, active, cancelled>>
leaseVars == <<global, per>>
auditVars == <<writer, records>>
serveVars == <<stopping, serve, mode, result>>
vars == <<callVars, leaseVars, auditVars, serveVars>>

(* Outside the chain; on the way in; in the handler; writing an audit      *)
(* event; on the way out through the deferred releases.                    *)
Phases == {"idle", "ended"} \cup {"auth", "check", "lock", "insert", "lease"}
          \cup {"handle", "execute"} \cup {"accept", "audit", "reject", "refuse"}
          \cup {"unlease", "leave", "ungate"}
Writing == {"accept", "audit", "reject", "refuse"}

TypeOK ==
  /\ phase \in [Call -> Phases]
  /\ who \in [Call -> Principal \cup {Health}]
  /\ global \in Nat /\ per \in [Principal -> Nat]
  /\ stopping \in BOOLEAN
  /\ active \subseteq Call /\ admitted \subseteq Call /\ cancelled \subseteq Call
  /\ writer \in Call \cup {None}
  /\ records \subseteq Call
  /\ serve \in {"serving", "draining", "cleaning", "flushing", "returned"}
  /\ mode \in {"drained", "forced", "failed"}
  /\ result \subseteq {"serve", "incomplete", "cleanup", "sink"}

Init ==
  /\ phase = [c \in Call |-> "idle"]
  /\ who \in [Call -> Principal \cup {Health}]
  /\ global = 0 /\ per = [w \in Principal |-> 0]
  /\ stopping = FALSE
  /\ active = {} /\ admitted = {} /\ cancelled = {}
  /\ writer = None /\ records = {}
  /\ serve = "serving" /\ mode = "drained" /\ result = {}

Goto(c, to) == phase' = [phase EXCEPT ![c] = to]
InFlight == {c \in Call : phase[c] \notin {"idle", "ended"}}
ActiveMuFree == \A c \in Call : phase[c] # "insert"

-----------------------------------------------------------------------------
(* The chain, inwards *)

(* New streams arrive until GracefulStop has drained or Stop has returned. *)
acquireGlobal(c) ==
  /\ phase[c] = "idle"
  /\ serve \in {"serving", "draining"} \/ mode = "forced"
  /\ IF global < GlobalMax
     THEN Goto(c, "auth") /\ global' = global + 1
     ELSE Goto(c, "ended") /\ UNCHANGED global
  /\ UNCHANGED <<who, admitted, active, cancelled, per, auditVars, serveVars>>

authenticatedContext(c) == \* health calls pass; the others need a known bearer token
  /\ phase[c] = "auth"
  /\ Goto(c, "check") \/ (who[c] # Health /\ Goto(c, "ungate"))
  /\ UNCHANGED <<who, admitted, active, cancelled, leaseVars, auditVars, serveVars>>

(* A call refused by admit writes its only terminal event, if it has a     *)
(* principal (auditRejection).                                             *)
Refusal(c) == IF who[c] = Health THEN "ungate" ELSE "reject"

admitCheck(c) == \* the first look at `stopping`, without a lock
  /\ phase[c] = "check"
  /\ Goto(c, IF stopping THEN Refusal(c) ELSE "lock")
  /\ UNCHANGED <<who, admitted, active, cancelled, leaseVars, auditVars, serveVars>>

NotSeenAgain == FALSE \* mutant: `stopping` is not looked at again under activeMu
StoppingSeenLocked == stopping

admitLock(c) == \* activeMu, and the second look
  /\ phase[c] = "lock" /\ ActiveMuFree
  /\ Goto(c, IF StoppingSeenLocked THEN Refusal(c) ELSE "insert")
  /\ UNCHANGED <<who, admitted, active, cancelled, leaseVars, auditVars, serveVars>>

admitInsert(c) == \* active[id] = cancel; unlock
  /\ phase[c] = "insert"
  /\ active' = active \cup {c} /\ admitted' = admitted \cup {c}
  /\ Goto(c, "lease")
  /\ UNCHANGED <<who, cancelled, leaseVars, auditVars, serveVars>>

OneTooMany(c) == per[who[c]] <= PerMax \* mutant: off by one
PrincipalHasRoom(c) == per[who[c]] < PerMax

acquire(c) == \* concurrencyInterceptor; health calls need no principal's lease
  /\ phase[c] = "lease"
  /\ IF who[c] = Health THEN Goto(c, "handle") /\ UNCHANGED per
     ELSE IF PrincipalHasRoom(c)
     THEN Goto(c, "handle") /\ per' = [per EXCEPT ![who[c]] = @ + 1]
     ELSE Goto(c, "refuse") /\ UNCHANGED per
  /\ UNCHANGED <<who, admitted, active, cancelled, global, auditVars, serveVars>>

-----------------------------------------------------------------------------
(* The handler, and the audit events *)

Resolve(c) == \* invalid, denied, or to be audited as accepted before it executes
  /\ phase[c] = "handle"
  /\ Goto(c, "audit") \/ (who[c] # Health /\ Goto(c, "accept"))
  /\ UNCHANGED <<who, admitted, active, cancelled, leaseVars, auditVars, serveVars>>

Return(c) == \* the operation ends, and the handler returns to the audit interceptor
  /\ phase[c] = "execute"
  /\ Goto(c, "audit")
  /\ UNCHANGED <<who, admitted, active, cancelled, leaseVars, auditVars, serveVars>>

BeginWrite(c) == \* audit.Writer.Write takes the writer's mutex
  /\ phase[c] \in Writing /\ writer = None
  /\ writer' = c
  /\ UNCHANGED <<callVars, leaseVars, records, serveVars>>

(* The write succeeds or fails (the call then ends UNAVAILABLE); an        *)
(* operation whose accepted event failed is not executed.                  *)
AfterWrite(c, ok) ==
  CASE phase[c] = "accept" -> IF ok THEN "execute" ELSE "audit"
    [] phase[c] = "reject" -> "ungate"
    [] phase[c] = "refuse" -> "leave"
    [] phase[c] = "audit"  -> IF who[c] = Health THEN "leave" ELSE "unlease"

EndWrite(c, ok) ==
  /\ writer = c
  /\ writer' = None
  /\ records' = IF phase[c] = "accept" THEN records ELSE records \cup {c}
  /\ Goto(c, AfterWrite(c, ok))
  /\ UNCHANGED <<who, admitted, active, cancelled, leaseVars, serveVars>>

-----------------------------------------------------------------------------
(* The deferred releases, outwards *)

release(c) ==
  /\ phase[c] = "unlease"
  /\ per' = [per EXCEPT ![who[c]] = @ - 1]
  /\ Goto(c, "leave")
  /\ UNCHANGED <<who, admitted, active, cancelled, global, auditVars, serveVars>>

done(c) == \* cancel, then delete(active, id) under activeMu
  /\ phase[c] = "leave" /\ ActiveMuFree
  /\ cancelled' = cancelled \cup {c}
  /\ active' = active \ {c}
  /\ Goto(c, "ungate")
  /\ UNCHANGED <<who, admitted, leaseVars, auditVars, serveVars>>

releaseGlobal(c) ==
  /\ phase[c] = "ungate"
  /\ global' = global - 1
  /\ Goto(c, "ended")
  /\ UNCHANGED <<who, admitted, active, cancelled, per, auditVars, serveVars>>

ContextEnds(c) == \* the client goes away, or the operation timeout expires
  /\ c \in active \ cancelled
  /\ cancelled' = cancelled \cup {c}
  /\ UNCHANGED <<phase, who, admitted, active, leaseVars, auditVars, serveVars>>

-----------------------------------------------------------------------------
(* Server.Serve *)

ServeFails == \* the listener broke: markStopping, grpc.Stop
  /\ serve = "serving"
  /\ stopping' = TRUE
  /\ cancelled' = cancelled \cup InFlight
  /\ serve' = "cleaning" /\ mode' = "failed" /\ result' = {"serve"}
  /\ UNCHANGED <<phase, who, admitted, active, leaseVars, auditVars>>

shutdown == \* the context of Serve ended: markStopping, GracefulStop, the timer
  /\ serve = "serving"
  /\ stopping' = TRUE
  /\ serve' = "draining"
  /\ UNCHANGED <<callVars, leaseVars, auditVars, mode, result>>

Drained ==
  /\ serve = "draining" /\ InFlight = {}
  /\ serve' = "cleaning"
  /\ UNCHANGED <<callVars, leaseVars, auditVars, stopping, mode, result>>

NothingLost == {}                                          \* mutant: never reported
IncompleteAudit == IF active = {} THEN {} ELSE {"incomplete"}

cancelActive == \* the grace period is over
  /\ serve = "draining" /\ ActiveMuFree
  /\ cancelled' = cancelled \cup active
  /\ result' = IncompleteAudit
  /\ serve' = "cleaning" /\ mode' = "forced"
  /\ UNCHANGED <<phase, who, admitted, active, leaseVars, auditVars, stopping>>

Cleanup == \* Runner.Cleanup, and the error it may return
  /\ serve = "cleaning"
  /\ result' \in {result, result \cup {"cleanup"}}
  /\ serve' = "flushing"
  /\ UNCHANGED <<callVars, leaseVars, auditVars, stopping, mode>>

FlushWaits == writer = None         \* mutant: forced shutdown waits for the writer too
FlushMayProceed == writer = None \/ mode = "forced"

Flush == \* Flush waits for the writer's mutex; FlushIfIdle reports it is taken; both may fail
  /\ serve = "flushing" /\ FlushMayProceed
  /\ \/ writer = None /\ UNCHANGED result
     \/ result' = result \cup {"sink"}
  /\ serve' = "returned"
  /\ UNCHANGED <<callVars, leaseVars, auditVars, stopping, mode>>

-----------------------------------------------------------------------------
CallStep(c) ==
  \/ acquireGlobal(c) \/ authenticatedContext(c)
  \/ admitCheck(c) \/ admitLock(c) \/ admitInsert(c) \/ acquire(c)
  \/ Resolve(c) \/ Return(c)
  \/ BeginWrite(c) \/ \E ok \in BOOLEAN : EndWrite(c, ok)
  \/ release(c) \/ done(c) \/ releaseGlobal(c) \/ ContextEnds(c)

ServeStep == Drained \/ cancelActive \/ Cleanup \/ Flush

Next == (\E c \in Call : CallStep(c)) \/ ServeFails \/ shutdown \/ ServeStep

(* The goroutine of Serve and its timer run, and the short critical        *)
(* sections of activeMu end.  Nothing is assumed of handlers, which may    *)
(* ignore cancellation, nor of the audit sink, which may block for ever.   *)
Fairness == WF_vars(ServeStep) /\ \A c \in Call : WF_vars(admitInsert(c))

Spec == Init /\ [][Next]_vars
FairSpec == Spec /\ Fairness

-----------------------------------------------------------------------------
(* Properties *)

HasGlobal(c) == phase[c] \notin {"idle", "ended"}
HasPrincipal(c) ==
  who[c] # Health /\ phase[c] \in {"handle", "accept", "execute", "audit", "unlease"}

(* The counters are exactly the calls that hold leases, and so never       *)
(* exceed their limits or leak, through every refusal, audit failure and   *)
(* shutdown; a call that is writing its terminal event still holds both.   *)
LeasesMatchCalls ==
  /\ global = Cardinality({c \in Call : HasGlobal(c)}) /\ global <= GlobalMax
  /\ \A w \in Principal :
       /\ per[w] = Cardinality({c \in Call : HasPrincipal(c) /\ who[c] = w})
       /\ per[w] <= PerMax

(* After the forced end of the grace period, or a listener failure, no     *)
(* handler runs, and none will ever start, with a context that is live.    *)
ForcedStopReachesAll ==
  mode # "drained" => \A c \in Call :
    phase[c] \in {"lease", "handle", "accept", "execute"} => c \in cancelled

(* If Serve returns no error, or none but that of Runner.Cleanup, every     *)
(* call that was ever admitted has had its terminal event written or has   *)
(* told its client that it was not.                                        *)
NoSilentAuditLoss ==
  serve = "returned" /\ result \subseteq {"cleanup"} => admitted \subseteq records

(* A shutdown always returns, even with every handler stuck and the audit  *)
(* sink blocked in the middle of a write.                                  *)
ShutdownReturns == serve = "draining" ~> serve = "returned"
=============================================================================
