---------------------------- MODULE ServerProofs ----------------------------
(***************************************************************************)
(* Proofs about Server, for any set of calls and principals, finite or     *)
(* not, and any limits.  The four safety properties of the server rest on  *)
(* one inductive invariant of four parts: who holds the audit writer       *)
(* (WriterWrites), the lease counters against the calls that are inside    *)
(* the chain (LeasesAreHeld), what Server.active and the terminal audit    *)
(* events say of where a call is (ActiveIsInside, AdmittedIsAccounted),    *)
(* and what each step of Serve leaves behind for the next (ServeIsOrdered, *)
(* NothingSlipsIn).                                                        *)
(***************************************************************************)
EXTENDS Server, FiniteSetTheorems, TLAPS

(* The audit writer's mutex is held by a call that is writing. *)
WriterWrites == writer # None => phase[writer] \in Writing

LeaseHolders(w) == {c \in Call : HasPrincipal(c) /\ who[c] = w}

(* The counters count, and what they count is finite. *)
LeasesAreHeld ==
  /\ IsFiniteSet(InFlight) /\ global = Cardinality(InFlight) /\ global <= GlobalMax
  /\ \A w \in Principal : /\ IsFiniteSet(LeaseHolders(w))
                          /\ per[w] = Cardinality(LeaseHolders(w)) /\ per[w] <= PerMax

(* A health call never gets to release a principal's lease. *)
HealthIsExempt == \A c \in Call : phase[c] = "unlease" => who[c] # Health

(* Between admission and the deferred done. *)
Inside == {"lease", "handle", "accept", "execute", "audit", "refuse", "unlease", "leave"}

(* Server.active holds exactly the calls in between, *)
ActiveIsInside == \A c \in Call : c \in active <=> phase[c] \in Inside

(* and an admitted call that has passed its terminal event has a record. *)
AdmittedIsAccounted ==
  \A c \in admitted : /\ phase[c] \in Inside \cup {"ungate", "ended"}
                      /\ phase[c] \in {"unlease", "leave", "ungate", "ended"} => c \in records

Late == {"cleaning", "flushing", "returned"}

(* What Serve has done by the time it is where it is. *)
ServeIsOrdered ==
  /\ serve # "serving" => stopping
  /\ serve \notin Late => mode = "drained"
  /\ mode = "failed" => "serve" \in result

(* Once Serve has stopped waiting, a call that could still be admitted has *)
(* an ended context, and nothing can be admitted unseen.                   *)
NothingSlipsIn ==
  /\ mode # "drained" => \A c \in Call :
       phase[c] \in {"insert", "lease", "handle", "accept", "execute"} => c \in cancelled
  /\ mode = "forced" => ActiveMuFree
  /\ serve \in Late /\ mode = "drained" => InFlight = {}
  /\ serve \in Late /\ result \subseteq {"cleanup"} => admitted \subseteq records

ServerInv ==
  /\ TypeOK /\ WriterWrites /\ LeasesAreHeld /\ HealthIsExempt
  /\ ActiveIsInside /\ AdmittedIsAccounted
  /\ ServeIsOrdered /\ NothingSlipsIn
-----------------------------------------------------------------------------
(* Where a call goes when its write has ended. *)
LEMMA AfterWriteCases ==
  ASSUME NEW c \in Call, NEW ok \in BOOLEAN, phase[c] \in Writing
  PROVE  /\ phase[c] = "accept" => AfterWrite(c, ok) \in {"execute", "audit"}
         /\ phase[c] = "reject" => AfterWrite(c, ok) = "ungate"
         /\ phase[c] = "refuse" => AfterWrite(c, ok) = "leave"
         /\ phase[c] = "audit" /\ who[c] = Health => AfterWrite(c, ok) = "leave"
         /\ phase[c] = "audit" /\ who[c] # Health => AfterWrite(c, ok) = "unlease"
BY DEF AfterWrite, Writing

(* A counter whose lease is held is not zero. *)
LEMMA HeldIsPositive ==
  ASSUME TypeOK, LeasesAreHeld, NEW c \in Call
  PROVE  /\ HasGlobal(c) => global > 0
         /\ HasPrincipal(c) => who[c] \in Principal /\ per[who[c]] > 0
<1>1. ASSUME HasGlobal(c) PROVE global > 0
  <2>1. c \in InFlight
    BY <1>1 DEF HasGlobal, InFlight
  <2>2. Cardinality(InFlight) # 0
    BY <2>1, FS_EmptySet DEF LeasesAreHeld
  <2> QED
    BY <2>2 DEF LeasesAreHeld, TypeOK
<1>2. ASSUME HasPrincipal(c) PROVE who[c] \in Principal /\ per[who[c]] > 0
  <2>1. who[c] \in Principal
    BY <1>2 DEF HasPrincipal, TypeOK
  <2>2. c \in LeaseHolders(who[c])
    BY <1>2 DEF LeaseHolders
  <2>3. Cardinality(LeaseHolders(who[c])) # 0
    BY <2>1, <2>2, FS_EmptySet DEF LeasesAreHeld
  <2> QED
    BY <2>1, <2>3 DEF LeasesAreHeld, TypeOK
<1> QED
  BY <1>1, <1>2

(* Every step leaves the types alone. *)
LEMMA TypeOKStep ==
  ASSUME TypeOK, WriterWrites, LeasesAreHeld, HealthIsExempt, [Next]_vars
  PROVE  TypeOK'
<1> USE DEF TypeOK, Phases, Goto, callVars, leaseVars, auditVars, serveVars
<1>1. ASSUME NEW c \in Call, acquireGlobal(c) PROVE TypeOK'
  BY <1>1 DEF acquireGlobal
<1>2. ASSUME NEW c \in Call, authenticatedContext(c) PROVE TypeOK'
  BY <1>2 DEF authenticatedContext
<1>3. ASSUME NEW c \in Call, admitCheck(c) PROVE TypeOK'
  BY <1>3 DEF admitCheck, Refusal
<1>4. ASSUME NEW c \in Call, admitLock(c) PROVE TypeOK'
  BY <1>4 DEF admitLock, Refusal
<1>5. ASSUME NEW c \in Call, admitInsert(c) PROVE TypeOK'
  BY <1>5 DEF admitInsert
<1>6. ASSUME NEW c \in Call, acquire(c) PROVE TypeOK'
  BY <1>6 DEF acquire
<1>7. ASSUME NEW c \in Call, Resolve(c) PROVE TypeOK'
  BY <1>7 DEF Resolve
<1>9. ASSUME NEW c \in Call, Return(c) PROVE TypeOK'
  BY <1>9 DEF Return
<1>10. ASSUME NEW c \in Call, BeginWrite(c) PROVE TypeOK'
  BY <1>10 DEF BeginWrite
<1>11. ASSUME NEW c \in Call, NEW ok \in BOOLEAN, EndWrite(c, ok) PROVE TypeOK'
  <2>1. phase[c] \in Writing
    BY <1>11, ServerAssumption DEF EndWrite, WriterWrites
  <2>2. AfterWrite(c, ok) \in Phases
    BY <2>1, AfterWriteCases DEF Writing
  <2> QED
    BY <1>11, <2>2 DEF EndWrite
<1>12. ASSUME NEW c \in Call, release(c) PROVE TypeOK'
  <2>1. who[c] \in Principal /\ per[who[c]] > 0
    BY <1>12, HeldIsPositive DEF release, HasPrincipal, HealthIsExempt
  <2> QED
    BY <1>12, <2>1 DEF release
<1>13. ASSUME NEW c \in Call, done(c) PROVE TypeOK'
  BY <1>13 DEF done
<1>14. ASSUME NEW c \in Call, releaseGlobal(c) PROVE TypeOK'
  <2>1. global > 0
    BY <1>14, HeldIsPositive DEF releaseGlobal, HasGlobal
  <2> QED
    BY <1>14, <2>1 DEF releaseGlobal
<1>15. ASSUME NEW c \in Call, ContextEnds(c) PROVE TypeOK'
  BY <1>15 DEF ContextEnds
<1>16. CASE ServeFails
  BY <1>16 DEF ServeFails, InFlight
<1>17. CASE shutdown
  BY <1>17 DEF shutdown
<1>18. CASE Drained
  BY <1>18 DEF Drained
<1>19. CASE cancelActive
  BY <1>19 DEF cancelActive, IncompleteAudit
<1>20. CASE Cleanup
  BY <1>20 DEF Cleanup
<1>21. CASE Flush
  BY <1>21 DEF Flush
<1>22. CASE UNCHANGED vars
  BY <1>22 DEF vars
<1> QED
  BY <1>1, <1>2, <1>3, <1>4, <1>5, <1>6, <1>7, <1>9, <1>10, <1>11, <1>12, <1>13, <1>14,
     <1>15, <1>16, <1>17, <1>18, <1>19, <1>20, <1>21, <1>22 DEF Next, CallStep, ServeStep
(* The writer is released by the write that took it, and no call moves while
   it writes. *)
LEMMA WriterStep ==
  ASSUME TypeOK, WriterWrites, HealthIsExempt, [Next]_vars
  PROVE  WriterWrites' /\ HealthIsExempt'
<1> USE DEF TypeOK, WriterWrites, HealthIsExempt, Writing, Goto, callVars, leaseVars, auditVars, serveVars
<1>1. ASSUME NEW c \in Call, acquireGlobal(c) PROVE WriterWrites' /\ HealthIsExempt'
  BY <1>1, ServerAssumption DEF acquireGlobal
<1>2. ASSUME NEW c \in Call, authenticatedContext(c) PROVE WriterWrites' /\ HealthIsExempt'
  BY <1>2, ServerAssumption DEF authenticatedContext
<1>3. ASSUME NEW c \in Call, admitCheck(c) PROVE WriterWrites' /\ HealthIsExempt'
  BY <1>3, ServerAssumption DEF admitCheck, Refusal
<1>4. ASSUME NEW c \in Call, admitLock(c) PROVE WriterWrites' /\ HealthIsExempt'
  BY <1>4, ServerAssumption DEF admitLock, Refusal, StoppingSeenLocked
<1>5. ASSUME NEW c \in Call, admitInsert(c) PROVE WriterWrites' /\ HealthIsExempt'
  BY <1>5, ServerAssumption DEF admitInsert
<1>6. ASSUME NEW c \in Call, acquire(c) PROVE WriterWrites' /\ HealthIsExempt'
  BY <1>6, ServerAssumption DEF acquire
<1>7. ASSUME NEW c \in Call, Resolve(c) PROVE WriterWrites' /\ HealthIsExempt'
  BY <1>7, ServerAssumption DEF Resolve
<1>9. ASSUME NEW c \in Call, Return(c) PROVE WriterWrites' /\ HealthIsExempt'
  BY <1>9, ServerAssumption DEF Return
<1>10. ASSUME NEW c \in Call, BeginWrite(c) PROVE WriterWrites' /\ HealthIsExempt'
  BY <1>10, ServerAssumption DEF BeginWrite
<1>11. ASSUME NEW c \in Call, NEW ok \in BOOLEAN, EndWrite(c, ok) PROVE WriterWrites' /\ HealthIsExempt'
  <2>1. phase[c] \in Writing
    BY <1>11, ServerAssumption DEF EndWrite, WriterWrites
  <2> QED
    BY <1>11, <2>1, AfterWriteCases, ServerAssumption DEF EndWrite, Writing
<1>12. ASSUME NEW c \in Call, release(c) PROVE WriterWrites' /\ HealthIsExempt'
  BY <1>12, ServerAssumption DEF release
<1>13. ASSUME NEW c \in Call, done(c) PROVE WriterWrites' /\ HealthIsExempt'
  BY <1>13, ServerAssumption DEF done
<1>14. ASSUME NEW c \in Call, releaseGlobal(c) PROVE WriterWrites' /\ HealthIsExempt'
  BY <1>14, ServerAssumption DEF releaseGlobal
<1>15. ASSUME NEW c \in Call, ContextEnds(c) PROVE WriterWrites' /\ HealthIsExempt'
  BY <1>15, ServerAssumption DEF ContextEnds
<1>16. CASE ServeFails
  BY <1>16, ServerAssumption DEF ServeFails, InFlight
<1>17. CASE shutdown
  BY <1>17, ServerAssumption DEF shutdown
<1>18. CASE Drained
  BY <1>18, ServerAssumption DEF Drained
<1>19. CASE cancelActive
  BY <1>19, ServerAssumption DEF cancelActive, IncompleteAudit
<1>20. CASE Cleanup
  BY <1>20, ServerAssumption DEF Cleanup
<1>21. CASE Flush
  BY <1>21, ServerAssumption DEF Flush
<1>22. CASE UNCHANGED vars
  BY <1>22 DEF vars
<1> QED
  BY <1>1, <1>2, <1>3, <1>4, <1>5, <1>6, <1>7, <1>9, <1>10, <1>11,
     <1>12, <1>13, <1>14, <1>15, <1>16, <1>17, <1>18, <1>19, <1>20, <1>21, <1>22 DEF Next, CallStep, ServeStep

(* A call is put into Server.active and taken out where it enters and leaves. *)
LEMMA ActiveStep ==
  ASSUME TypeOK, WriterWrites, ActiveIsInside, [Next]_vars
  PROVE  ActiveIsInside'
<1> USE DEF TypeOK, ActiveIsInside, Inside, Goto, callVars, leaseVars, auditVars, serveVars
<1>1. ASSUME NEW c \in Call, acquireGlobal(c) PROVE ActiveIsInside'
  BY <1>1, ServerAssumption DEF acquireGlobal
<1>2. ASSUME NEW c \in Call, authenticatedContext(c) PROVE ActiveIsInside'
  BY <1>2, ServerAssumption DEF authenticatedContext
<1>3. ASSUME NEW c \in Call, admitCheck(c) PROVE ActiveIsInside'
  BY <1>3, ServerAssumption DEF admitCheck, Refusal
<1>4. ASSUME NEW c \in Call, admitLock(c) PROVE ActiveIsInside'
  BY <1>4, ServerAssumption DEF admitLock, Refusal, StoppingSeenLocked
<1>5. ASSUME NEW c \in Call, admitInsert(c) PROVE ActiveIsInside'
  BY <1>5, ServerAssumption DEF admitInsert
<1>6. ASSUME NEW c \in Call, acquire(c) PROVE ActiveIsInside'
  BY <1>6, ServerAssumption DEF acquire
<1>7. ASSUME NEW c \in Call, Resolve(c) PROVE ActiveIsInside'
  BY <1>7, ServerAssumption DEF Resolve
<1>9. ASSUME NEW c \in Call, Return(c) PROVE ActiveIsInside'
  BY <1>9, ServerAssumption DEF Return
<1>10. ASSUME NEW c \in Call, BeginWrite(c) PROVE ActiveIsInside'
  BY <1>10, ServerAssumption DEF BeginWrite
<1>11. ASSUME NEW c \in Call, NEW ok \in BOOLEAN, EndWrite(c, ok) PROVE ActiveIsInside'
  <2>1. phase[c] \in Writing
    BY <1>11, ServerAssumption DEF EndWrite, WriterWrites
  <2> QED
    BY <1>11, <2>1, AfterWriteCases, ServerAssumption DEF EndWrite, Writing
<1>12. ASSUME NEW c \in Call, release(c) PROVE ActiveIsInside'
  BY <1>12, ServerAssumption DEF release
<1>13. ASSUME NEW c \in Call, done(c) PROVE ActiveIsInside'
  BY <1>13, ServerAssumption DEF done
<1>14. ASSUME NEW c \in Call, releaseGlobal(c) PROVE ActiveIsInside'
  BY <1>14, ServerAssumption DEF releaseGlobal
<1>15. ASSUME NEW c \in Call, ContextEnds(c) PROVE ActiveIsInside'
  BY <1>15, ServerAssumption DEF ContextEnds
<1>16. CASE ServeFails
  BY <1>16, ServerAssumption DEF ServeFails, InFlight
<1>17. CASE shutdown
  BY <1>17, ServerAssumption DEF shutdown
<1>18. CASE Drained
  BY <1>18, ServerAssumption DEF Drained
<1>19. CASE cancelActive
  BY <1>19, ServerAssumption DEF cancelActive, IncompleteAudit
<1>20. CASE Cleanup
  BY <1>20, ServerAssumption DEF Cleanup
<1>21. CASE Flush
  BY <1>21, ServerAssumption DEF Flush
<1>22. CASE UNCHANGED vars
  BY <1>22 DEF vars
<1> QED
  BY <1>1, <1>2, <1>3, <1>4, <1>5, <1>6, <1>7, <1>9, <1>10, <1>11,
     <1>12, <1>13, <1>14, <1>15, <1>16, <1>17, <1>18, <1>19, <1>20, <1>21, <1>22 DEF Next, CallStep, ServeStep

(* Every way from admission to the end passes a terminal event. *)
LEMMA AdmittedStep ==
  ASSUME TypeOK, WriterWrites, AdmittedIsAccounted, [Next]_vars
  PROVE  AdmittedIsAccounted'
<1> USE DEF TypeOK, AdmittedIsAccounted, Inside, Goto, callVars, leaseVars, auditVars, serveVars
<1>1. ASSUME NEW c \in Call, acquireGlobal(c) PROVE AdmittedIsAccounted'
  BY <1>1, ServerAssumption DEF acquireGlobal
<1>2. ASSUME NEW c \in Call, authenticatedContext(c) PROVE AdmittedIsAccounted'
  BY <1>2, ServerAssumption DEF authenticatedContext
<1>3. ASSUME NEW c \in Call, admitCheck(c) PROVE AdmittedIsAccounted'
  BY <1>3, ServerAssumption DEF admitCheck, Refusal
<1>4. ASSUME NEW c \in Call, admitLock(c) PROVE AdmittedIsAccounted'
  BY <1>4, ServerAssumption DEF admitLock, Refusal, StoppingSeenLocked
<1>5. ASSUME NEW c \in Call, admitInsert(c) PROVE AdmittedIsAccounted'
  BY <1>5, ServerAssumption DEF admitInsert
<1>6. ASSUME NEW c \in Call, acquire(c) PROVE AdmittedIsAccounted'
  BY <1>6, ServerAssumption DEF acquire
<1>7. ASSUME NEW c \in Call, Resolve(c) PROVE AdmittedIsAccounted'
  BY <1>7, ServerAssumption DEF Resolve
<1>9. ASSUME NEW c \in Call, Return(c) PROVE AdmittedIsAccounted'
  BY <1>9, ServerAssumption DEF Return
<1>10. ASSUME NEW c \in Call, BeginWrite(c) PROVE AdmittedIsAccounted'
  BY <1>10, ServerAssumption DEF BeginWrite
<1>11. ASSUME NEW c \in Call, NEW ok \in BOOLEAN, EndWrite(c, ok) PROVE AdmittedIsAccounted'
  <2>1. phase[c] \in Writing
    BY <1>11, ServerAssumption DEF EndWrite, WriterWrites
  <2> QED
    BY <1>11, <2>1, AfterWriteCases, ServerAssumption DEF EndWrite, Writing
<1>12. ASSUME NEW c \in Call, release(c) PROVE AdmittedIsAccounted'
  BY <1>12, ServerAssumption DEF release
<1>13. ASSUME NEW c \in Call, done(c) PROVE AdmittedIsAccounted'
  BY <1>13, ServerAssumption DEF done
<1>14. ASSUME NEW c \in Call, releaseGlobal(c) PROVE AdmittedIsAccounted'
  BY <1>14, ServerAssumption DEF releaseGlobal
<1>15. ASSUME NEW c \in Call, ContextEnds(c) PROVE AdmittedIsAccounted'
  BY <1>15, ServerAssumption DEF ContextEnds
<1>16. CASE ServeFails
  BY <1>16, ServerAssumption DEF ServeFails, InFlight
<1>17. CASE shutdown
  BY <1>17, ServerAssumption DEF shutdown
<1>18. CASE Drained
  BY <1>18, ServerAssumption DEF Drained
<1>19. CASE cancelActive
  BY <1>19, ServerAssumption DEF cancelActive, IncompleteAudit
<1>20. CASE Cleanup
  BY <1>20, ServerAssumption DEF Cleanup
<1>21. CASE Flush
  BY <1>21, ServerAssumption DEF Flush
<1>22. CASE UNCHANGED vars
  BY <1>22 DEF vars
<1> QED
  BY <1>1, <1>2, <1>3, <1>4, <1>5, <1>6, <1>7, <1>9, <1>10, <1>11,
     <1>12, <1>13, <1>14, <1>15, <1>16, <1>17, <1>18, <1>19, <1>20, <1>21, <1>22 DEF Next, CallStep, ServeStep

(* Serve takes its steps in order, and nothing is started after the cleanup. *)
LEMMA ServeStepOrdered ==
  ASSUME TypeOK, WriterWrites, ServeIsOrdered, [Next]_vars
  PROVE  ServeIsOrdered'
<1> USE DEF TypeOK, ServeIsOrdered, Late, Goto, callVars, leaseVars, auditVars, serveVars
<1>1. ASSUME NEW c \in Call, acquireGlobal(c) PROVE ServeIsOrdered'
  BY <1>1, ServerAssumption DEF acquireGlobal
<1>2. ASSUME NEW c \in Call, authenticatedContext(c) PROVE ServeIsOrdered'
  BY <1>2, ServerAssumption DEF authenticatedContext
<1>3. ASSUME NEW c \in Call, admitCheck(c) PROVE ServeIsOrdered'
  BY <1>3, ServerAssumption DEF admitCheck, Refusal
<1>4. ASSUME NEW c \in Call, admitLock(c) PROVE ServeIsOrdered'
  BY <1>4, ServerAssumption DEF admitLock, Refusal, StoppingSeenLocked
<1>5. ASSUME NEW c \in Call, admitInsert(c) PROVE ServeIsOrdered'
  BY <1>5, ServerAssumption DEF admitInsert
<1>6. ASSUME NEW c \in Call, acquire(c) PROVE ServeIsOrdered'
  BY <1>6, ServerAssumption DEF acquire
<1>7. ASSUME NEW c \in Call, Resolve(c) PROVE ServeIsOrdered'
  BY <1>7, ServerAssumption DEF Resolve
<1>9. ASSUME NEW c \in Call, Return(c) PROVE ServeIsOrdered'
  BY <1>9, ServerAssumption DEF Return
<1>10. ASSUME NEW c \in Call, BeginWrite(c) PROVE ServeIsOrdered'
  BY <1>10, ServerAssumption DEF BeginWrite
<1>11. ASSUME NEW c \in Call, NEW ok \in BOOLEAN, EndWrite(c, ok) PROVE ServeIsOrdered'
  <2>1. phase[c] \in Writing
    BY <1>11, ServerAssumption DEF EndWrite, WriterWrites
  <2> QED
    BY <1>11, <2>1, AfterWriteCases, ServerAssumption DEF EndWrite, Writing
<1>12. ASSUME NEW c \in Call, release(c) PROVE ServeIsOrdered'
  BY <1>12, ServerAssumption DEF release
<1>13. ASSUME NEW c \in Call, done(c) PROVE ServeIsOrdered'
  BY <1>13, ServerAssumption DEF done
<1>14. ASSUME NEW c \in Call, releaseGlobal(c) PROVE ServeIsOrdered'
  BY <1>14, ServerAssumption DEF releaseGlobal
<1>15. ASSUME NEW c \in Call, ContextEnds(c) PROVE ServeIsOrdered'
  BY <1>15, ServerAssumption DEF ContextEnds
<1>16. CASE ServeFails
  BY <1>16, ServerAssumption DEF ServeFails, InFlight
<1>17. CASE shutdown
  BY <1>17, ServerAssumption DEF shutdown
<1>18. CASE Drained
  BY <1>18, ServerAssumption DEF Drained
<1>19. CASE cancelActive
  BY <1>19, ServerAssumption DEF cancelActive, IncompleteAudit
<1>20. CASE Cleanup
  BY <1>20, ServerAssumption DEF Cleanup
<1>21. CASE Flush
  BY <1>21, ServerAssumption DEF Flush
<1>22. CASE UNCHANGED vars
  BY <1>22 DEF vars
<1> QED
  BY <1>1, <1>2, <1>3, <1>4, <1>5, <1>6, <1>7, <1>9, <1>10, <1>11,
     <1>12, <1>13, <1>14, <1>15, <1>16, <1>17, <1>18, <1>19, <1>20, <1>21, <1>22 DEF Next, CallStep, ServeStep

(* Whatever is under way when Serve stops waiting stays within its reach. *)
LEMMA NothingSlipsInStep ==
  ASSUME TypeOK, WriterWrites, ActiveIsInside, AdmittedIsAccounted, ServeIsOrdered, NothingSlipsIn, [Next]_vars
  PROVE  NothingSlipsIn'
<1> USE DEF TypeOK, ServeIsOrdered, NothingSlipsIn, ActiveMuFree, InFlight, Late, Goto, callVars, leaseVars, auditVars, serveVars
<1>1. ASSUME NEW c \in Call, acquireGlobal(c) PROVE NothingSlipsIn'
  BY <1>1, ServerAssumption DEF acquireGlobal
<1>2. ASSUME NEW c \in Call, authenticatedContext(c) PROVE NothingSlipsIn'
  BY <1>2, ServerAssumption DEF authenticatedContext
<1>3. ASSUME NEW c \in Call, admitCheck(c) PROVE NothingSlipsIn'
  BY <1>3, ServerAssumption DEF admitCheck, Refusal
<1>4. ASSUME NEW c \in Call, admitLock(c) PROVE NothingSlipsIn'
  BY <1>4, ServerAssumption DEF admitLock, Refusal, StoppingSeenLocked
<1>5. ASSUME NEW c \in Call, admitInsert(c) PROVE NothingSlipsIn'
  BY <1>5, ServerAssumption DEF admitInsert
<1>6. ASSUME NEW c \in Call, acquire(c) PROVE NothingSlipsIn'
  BY <1>6, ServerAssumption DEF acquire
<1>7. ASSUME NEW c \in Call, Resolve(c) PROVE NothingSlipsIn'
  BY <1>7, ServerAssumption DEF Resolve
<1>9. ASSUME NEW c \in Call, Return(c) PROVE NothingSlipsIn'
  BY <1>9, ServerAssumption DEF Return
<1>10. ASSUME NEW c \in Call, BeginWrite(c) PROVE NothingSlipsIn'
  BY <1>10, ServerAssumption DEF BeginWrite
<1>11. ASSUME NEW c \in Call, NEW ok \in BOOLEAN, EndWrite(c, ok) PROVE NothingSlipsIn'
  <2>1. phase[c] \in Writing
    BY <1>11, ServerAssumption DEF EndWrite, WriterWrites
  <2> QED
    BY <1>11, <2>1, AfterWriteCases, ServerAssumption DEF EndWrite, Writing
<1>12. ASSUME NEW c \in Call, release(c) PROVE NothingSlipsIn'
  BY <1>12, ServerAssumption DEF release
<1>13. ASSUME NEW c \in Call, done(c) PROVE NothingSlipsIn'
  BY <1>13, ServerAssumption DEF done
<1>14. ASSUME NEW c \in Call, releaseGlobal(c) PROVE NothingSlipsIn'
  BY <1>14, ServerAssumption DEF releaseGlobal
<1>15. ASSUME NEW c \in Call, ContextEnds(c) PROVE NothingSlipsIn'
  BY <1>15, ServerAssumption DEF ContextEnds
<1>16. CASE ServeFails
  BY <1>16, ServerAssumption DEF ServeFails, InFlight
<1>17. CASE shutdown
  BY <1>17, ServerAssumption DEF shutdown
<1>18. CASE Drained
  <2>1. ASSUME NEW c \in admitted PROVE c \in records
    BY <1>18, <2>1 DEF Drained, AdmittedIsAccounted, Inside
  <2> QED
    BY <1>18, <2>1 DEF Drained
<1>19. CASE cancelActive
  BY <1>19, ServerAssumption DEF cancelActive, IncompleteAudit, ActiveIsInside, AdmittedIsAccounted, Inside
<1>20. CASE Cleanup
  BY <1>20, ServerAssumption DEF Cleanup
<1>21. CASE Flush
  BY <1>21, ServerAssumption DEF Flush
<1>22. CASE UNCHANGED vars
  BY <1>22 DEF vars
<1> QED
  BY <1>1, <1>2, <1>3, <1>4, <1>5, <1>6, <1>7, <1>9, <1>10, <1>11,
     <1>12, <1>13, <1>14, <1>15, <1>16, <1>17, <1>18, <1>19, <1>20, <1>21, <1>22 DEF Next, CallStep, ServeStep

(* A step that moves no call in or out keeps the counters right. *)
LEMMA SameHolders ==
  ASSUME LeasesAreHeld, UNCHANGED leaseVars, InFlight' = InFlight,
         \A w \in Principal : LeaseHolders(w)' = LeaseHolders(w)
  PROVE  LeasesAreHeld'
BY DEF LeasesAreHeld, leaseVars

(* The holders of a principal's lease before and after a call has moved. *)
LEMMA HoldersMove ==
  ASSUME TypeOK, NEW c \in Call, NEW to \in Phases, Goto(c, to), UNCHANGED who
  PROVE  /\ HasGlobal(c) /\ to \notin {"idle", "ended"} => InFlight' = InFlight
         /\ ~HasGlobal(c) /\ to \notin {"idle", "ended"} => InFlight' = InFlight \cup {c}
         /\ to \in {"idle", "ended"} => InFlight' = InFlight \ {c}
         /\ \A w \in Principal :
              /\ (who[c] # w \/ (HasPrincipal(c) <=> HasPrincipal(c)')) => LeaseHolders(w)' = LeaseHolders(w)
              /\ who[c] = w /\ HasPrincipal(c)' => LeaseHolders(w)' = LeaseHolders(w) \cup {c}
              /\ who[c] = w /\ ~HasPrincipal(c)' => LeaseHolders(w)' = LeaseHolders(w) \ {c}
<1>1. phase'[c] = to /\ \A d \in Call : d # c => phase'[d] = phase[d]
  BY DEF TypeOK, Goto
<1>2. HasGlobal(c) /\ to \notin {"idle", "ended"} => InFlight' = InFlight
  BY <1>1 DEF HasGlobal, InFlight
<1>3. ~HasGlobal(c) /\ to \notin {"idle", "ended"} => InFlight' = InFlight \cup {c}
  BY <1>1 DEF HasGlobal, InFlight
<1>4. to \in {"idle", "ended"} => InFlight' = InFlight \ {c}
  BY <1>1 DEF HasGlobal, InFlight
<1>5. \A d \in Call : d # c => HasPrincipal(d)' = HasPrincipal(d)
  BY <1>1 DEF HasPrincipal
<1>6. ASSUME NEW w \in Principal
      PROVE  /\ (who[c] # w \/ (HasPrincipal(c) <=> HasPrincipal(c)')) => LeaseHolders(w)' = LeaseHolders(w)
             /\ who[c] = w /\ HasPrincipal(c)' => LeaseHolders(w)' = LeaseHolders(w) \cup {c}
             /\ who[c] = w /\ ~HasPrincipal(c)' => LeaseHolders(w)' = LeaseHolders(w) \ {c}
  <2>1. LeaseHolders(w)' = {d \in Call : HasPrincipal(d)' /\ who[d] = w}
    BY DEF LeaseHolders
  <2>2. LeaseHolders(w) = {d \in Call : HasPrincipal(d) /\ who[d] = w}
    BY DEF LeaseHolders
  <2> QED
    BY <1>5, <2>1, <2>2
<1> QED
  BY <1>2, <1>3, <1>4, <1>6

(* A call that keeps its two leases, or has none, may move. *)
LEMMA MoveKeepsLeases ==
  ASSUME TypeOK, LeasesAreHeld, NEW c \in Call, NEW to \in Phases, Goto(c, to),
         UNCHANGED <<who, leaseVars>>, HasGlobal(c), to \notin {"idle", "ended"},
         (HasPrincipal(c) <=> HasPrincipal(c)')
  PROVE  LeasesAreHeld'
BY HoldersMove, SameHolders

(* Leases are taken and given back exactly where the counters change. *)
LEMMA LeasesStep ==
  ASSUME TypeOK, WriterWrites, LeasesAreHeld, HealthIsExempt, [Next]_vars
  PROVE  LeasesAreHeld'
<1> USE DEF callVars, leaseVars, auditVars, serveVars
<1>1. ASSUME NEW c \in Call, acquireGlobal(c) PROVE LeasesAreHeld'
  <2>1. CASE global < GlobalMax
    <3>1. InFlight' = InFlight \cup {c} /\ c \notin InFlight
      BY <1>1, <2>1, HoldersMove DEF acquireGlobal, HasGlobal, InFlight, Phases
    <3>2. \A w \in Principal : LeaseHolders(w)' = LeaseHolders(w)
      BY <1>1, <2>1, HoldersMove DEF acquireGlobal, HasPrincipal, Phases, Goto, TypeOK
    <3>3. IsFiniteSet(InFlight') /\ Cardinality(InFlight') = Cardinality(InFlight) + 1
      BY <3>1, FS_AddElement DEF LeasesAreHeld
    <3>4. global' = global + 1 /\ per' = per
      BY <1>1, <2>1 DEF acquireGlobal
    <3>5. global' = Cardinality(InFlight') /\ global' <= GlobalMax
      BY <2>1, <3>3, <3>4, ServerAssumption DEF LeasesAreHeld, TypeOK
    <3> QED
      BY <3>2, <3>3, <3>4, <3>5 DEF LeasesAreHeld
  <2>2. CASE ~(global < GlobalMax)
    <3>1. InFlight' = InFlight
      BY <1>1, <2>2, HoldersMove DEF acquireGlobal, InFlight, Phases
    <3>2. \A w \in Principal : LeaseHolders(w)' = LeaseHolders(w)
      BY <1>1, <2>2, HoldersMove DEF acquireGlobal, HasPrincipal, Phases, Goto, TypeOK
    <3> QED
      BY <1>1, <2>2, <3>1, <3>2, SameHolders DEF acquireGlobal
  <2> QED
    BY <2>1, <2>2
<1>2. ASSUME NEW c \in Call, authenticatedContext(c) PROVE LeasesAreHeld'
  <2>1. PICK to \in Phases \ {"idle", "ended"} : Goto(c, to)
    BY <1>2 DEF authenticatedContext, Phases
  <2>2. HasGlobal(c) /\ UNCHANGED <<who, leaseVars>>
    BY <1>2 DEF authenticatedContext, HasGlobal
  <2>3. (HasPrincipal(c) <=> HasPrincipal(c)')
    BY <1>2 DEF authenticatedContext, HasPrincipal, Goto, TypeOK
  <2> QED
    BY <2>1, <2>2, <2>3, MoveKeepsLeases
<1>3. ASSUME NEW c \in Call, admitCheck(c) PROVE LeasesAreHeld'
  <2>1. PICK to \in Phases \ {"idle", "ended"} : Goto(c, to)
    BY <1>3 DEF admitCheck, Refusal, Phases
  <2>2. HasGlobal(c) /\ UNCHANGED <<who, leaseVars>>
    BY <1>3 DEF admitCheck, HasGlobal
  <2>3. (HasPrincipal(c) <=> HasPrincipal(c)')
    BY <1>3 DEF admitCheck, Refusal, HasPrincipal, Goto, TypeOK
  <2> QED
    BY <2>1, <2>2, <2>3, MoveKeepsLeases
<1>4. ASSUME NEW c \in Call, admitLock(c) PROVE LeasesAreHeld'
  <2>1. PICK to \in Phases \ {"idle", "ended"} : Goto(c, to)
    BY <1>4 DEF admitLock, Refusal, StoppingSeenLocked, Phases
  <2>2. HasGlobal(c) /\ UNCHANGED <<who, leaseVars>>
    BY <1>4 DEF admitLock, HasGlobal
  <2>3. (HasPrincipal(c) <=> HasPrincipal(c)')
    BY <1>4 DEF admitLock, Refusal, StoppingSeenLocked, HasPrincipal, Goto, TypeOK
  <2> QED
    BY <2>1, <2>2, <2>3, MoveKeepsLeases
<1>5. ASSUME NEW c \in Call, admitInsert(c) PROVE LeasesAreHeld'
  <2>1. PICK to \in Phases \ {"idle", "ended"} : Goto(c, to)
    BY <1>5 DEF admitInsert, Phases
  <2>2. HasGlobal(c) /\ UNCHANGED <<who, leaseVars>>
    BY <1>5 DEF admitInsert, HasGlobal
  <2>3. (HasPrincipal(c) <=> HasPrincipal(c)')
    BY <1>5 DEF admitInsert, HasPrincipal, Goto, TypeOK
  <2> QED
    BY <2>1, <2>2, <2>3, MoveKeepsLeases
<1>6. ASSUME NEW c \in Call, acquire(c) PROVE LeasesAreHeld'
  <2>1. CASE who[c] # Health /\ per[who[c]] < PerMax
    <3>0. PICK p \in Principal : p = who[c]
      BY <2>1 DEF TypeOK
    <3>1. Goto(c, "handle") /\ per' = [per EXCEPT ![who[c]] = @ + 1] /\ global' = global /\ who' = who
      BY <1>6, <2>1 DEF acquire, PrincipalHasRoom
    <3>2. ~HasPrincipal(c) /\ HasPrincipal(c)' /\ HasGlobal(c)
      BY <1>6, <2>1, <3>1 DEF acquire, TypeOK, HasPrincipal, HasGlobal, Goto
    <3>3. /\ InFlight' = InFlight
          /\ LeaseHolders(p)' = LeaseHolders(p) \cup {c} /\ c \notin LeaseHolders(p)
          /\ \A w \in Principal : w # p => LeaseHolders(w)' = LeaseHolders(w)
      BY <3>0, <3>1, <3>2, HoldersMove DEF Phases, LeaseHolders
    <3>4. /\ IsFiniteSet(LeaseHolders(p)')
          /\ Cardinality(LeaseHolders(p)') = Cardinality(LeaseHolders(p)) + 1
      BY <3>2, <3>3, FS_AddElement DEF LeasesAreHeld
    <3>5. per[p] \in Nat /\ per'[p] = per[p] + 1
          /\ \A w \in Principal : w # p => per'[w] = per[w]
      BY <3>0, <3>1 DEF TypeOK
    <3>6. per'[p] = Cardinality(LeaseHolders(p)') /\ per'[p] <= PerMax
      BY <2>1, <3>0, <3>4, <3>5, ServerAssumption DEF LeasesAreHeld
    <3>7. ASSUME NEW w \in Principal
          PROVE  IsFiniteSet(LeaseHolders(w)') /\ per'[w] = Cardinality(LeaseHolders(w)') /\ per'[w] <= PerMax
      <4>1. CASE w = p
        BY <3>4, <3>6, <4>1
      <4>2. CASE w # p
        BY <3>3, <3>5, <4>2 DEF LeasesAreHeld
      <4> QED
        BY <4>1, <4>2
    <3> QED
      BY <3>1, <3>3, <3>7 DEF LeasesAreHeld
  <2>2. CASE ~(who[c] # Health /\ per[who[c]] < PerMax)
    <3>1. PICK to \in {"handle", "refuse"} : Goto(c, to) /\ (to = "handle" => who[c] = Health)
      BY <1>6, <2>2 DEF acquire, PrincipalHasRoom
    <3>2. UNCHANGED <<who, global, per>>
      BY <1>6, <2>2 DEF acquire, PrincipalHasRoom
    <3>3. HasGlobal(c) /\ ~HasPrincipal(c) /\ ~HasPrincipal(c)'
      BY <1>6, <3>1, <3>2 DEF acquire, HasGlobal, HasPrincipal, Goto, TypeOK
    <3> QED
      BY <3>1, <3>2, <3>3, MoveKeepsLeases DEF Phases
  <2> QED
    BY <2>1, <2>2
<1>7. ASSUME NEW c \in Call, Resolve(c) PROVE LeasesAreHeld'
  <2>1. PICK to \in Phases \ {"idle", "ended"} : Goto(c, to)
    BY <1>7 DEF Resolve, Phases
  <2>2. HasGlobal(c) /\ UNCHANGED <<who, leaseVars>>
    BY <1>7 DEF Resolve, HasGlobal
  <2>3. (HasPrincipal(c) <=> HasPrincipal(c)')
    BY <1>7 DEF Resolve, HasPrincipal, Goto, TypeOK
  <2> QED
    BY <2>1, <2>2, <2>3, MoveKeepsLeases
<1>9. ASSUME NEW c \in Call, Return(c) PROVE LeasesAreHeld'
  <2>1. PICK to \in Phases \ {"idle", "ended"} : Goto(c, to)
    BY <1>9 DEF Return, Phases
  <2>2. HasGlobal(c) /\ UNCHANGED <<who, leaseVars>>
    BY <1>9 DEF Return, HasGlobal
  <2>3. (HasPrincipal(c) <=> HasPrincipal(c)')
    BY <1>9 DEF Return, HasPrincipal, Goto, TypeOK
  <2> QED
    BY <2>1, <2>2, <2>3, MoveKeepsLeases
<1>10. ASSUME NEW c \in Call, BeginWrite(c) PROVE LeasesAreHeld'
  BY <1>10, SameHolders DEF BeginWrite, InFlight, LeaseHolders, HasPrincipal
<1>11. ASSUME NEW c \in Call, NEW ok \in BOOLEAN, EndWrite(c, ok) PROVE LeasesAreHeld'
  <2>1. phase[c] \in Writing
    BY <1>11, ServerAssumption DEF EndWrite, WriterWrites
  <2>2. /\ AfterWrite(c, ok) \in Phases \ {"idle", "ended"} /\ HasGlobal(c)
        /\ Goto(c, AfterWrite(c, ok)) /\ UNCHANGED <<who, leaseVars>>
    BY <1>11, <2>1, AfterWriteCases DEF EndWrite, Writing, HasGlobal, Phases
  <2>3. (HasPrincipal(c) <=> HasPrincipal(c)')
    BY <2>1, <2>2, AfterWriteCases DEF Writing, HasPrincipal, Goto, TypeOK
  <2> QED
    BY <2>2, <2>3, MoveKeepsLeases
<1>12. ASSUME NEW c \in Call, release(c) PROVE LeasesAreHeld'
  <2>1. HasPrincipal(c) /\ HasGlobal(c) /\ ~HasPrincipal(c)'
    BY <1>12 DEF release, HasPrincipal, HasGlobal, HealthIsExempt, Goto, TypeOK
  <2>2. who[c] \in Principal /\ per[who[c]] > 0
    BY <2>1, HeldIsPositive
  <2>0. PICK p \in Principal : p = who[c]
    BY <2>2
  <2>3. Goto(c, "leave") /\ per' = [per EXCEPT ![who[c]] = @ - 1] /\ global' = global /\ who' = who
    BY <1>12 DEF release
  <2>4. /\ InFlight' = InFlight
        /\ LeaseHolders(p)' = LeaseHolders(p) \ {c} /\ c \in LeaseHolders(p)
        /\ \A w \in Principal : w # p => LeaseHolders(w)' = LeaseHolders(w)
    BY <2>0, <2>1, <2>2, <2>3, HoldersMove DEF Phases, LeaseHolders
  <2>5. /\ IsFiniteSet(LeaseHolders(p)')
        /\ Cardinality(LeaseHolders(p)') = Cardinality(LeaseHolders(p)) - 1
    BY <2>2, <2>4, FS_RemoveElement DEF LeasesAreHeld
  <2>6. per[p] \in Nat /\ per'[p] = per[p] - 1
        /\ \A w \in Principal : w # p => per'[w] = per[w]
    BY <2>0, <2>2, <2>3 DEF TypeOK
  <2>7. ASSUME NEW w \in Principal
        PROVE  IsFiniteSet(LeaseHolders(w)') /\ per'[w] = Cardinality(LeaseHolders(w)') /\ per'[w] <= PerMax
    <3>1. CASE w = p
      BY <2>0, <2>2, <2>5, <2>6, <3>1, ServerAssumption DEF LeasesAreHeld
    <3>2. CASE w # p
      BY <2>4, <2>6, <3>2 DEF LeasesAreHeld
    <3> QED
      BY <3>1, <3>2
  <2> QED
    BY <2>3, <2>4, <2>7 DEF LeasesAreHeld
<1>13. ASSUME NEW c \in Call, done(c) PROVE LeasesAreHeld'
  <2>1. PICK to \in Phases \ {"idle", "ended"} : Goto(c, to)
    BY <1>13 DEF done, Phases
  <2>2. HasGlobal(c) /\ UNCHANGED <<who, leaseVars>>
    BY <1>13 DEF done, HasGlobal
  <2>3. (HasPrincipal(c) <=> HasPrincipal(c)')
    BY <1>13 DEF done, HasPrincipal, Goto, TypeOK
  <2> QED
    BY <2>1, <2>2, <2>3, MoveKeepsLeases
<1>14. ASSUME NEW c \in Call, releaseGlobal(c) PROVE LeasesAreHeld'
  <2>1. InFlight' = InFlight \ {c} /\ c \in InFlight
    BY <1>14, HoldersMove DEF releaseGlobal, InFlight, Phases
  <2>2. \A w \in Principal : LeaseHolders(w)' = LeaseHolders(w)
    BY <1>14, HoldersMove DEF releaseGlobal, HasPrincipal, Phases, Goto, TypeOK
  <2>3. IsFiniteSet(InFlight') /\ Cardinality(InFlight') = Cardinality(InFlight) - 1
    BY <2>1, FS_RemoveElement DEF LeasesAreHeld
  <2>4. global' = global - 1 /\ per' = per
    BY <1>14 DEF releaseGlobal
  <2>5. global' = Cardinality(InFlight') /\ global' <= GlobalMax
    BY <2>3, <2>4, ServerAssumption DEF LeasesAreHeld, TypeOK
  <2> QED
    BY <2>2, <2>3, <2>4, <2>5 DEF LeasesAreHeld
<1>15. ASSUME NEW c \in Call, ContextEnds(c) PROVE LeasesAreHeld'
  BY <1>15, SameHolders DEF ContextEnds, InFlight, LeaseHolders, HasPrincipal
<1>16. CASE ServeFails
  BY <1>16, SameHolders DEF ServeFails, InFlight, LeaseHolders, HasPrincipal
<1>17. CASE shutdown
  BY <1>17, SameHolders DEF shutdown, InFlight, LeaseHolders, HasPrincipal
<1>18. CASE Drained
  BY <1>18, SameHolders DEF Drained, InFlight, LeaseHolders, HasPrincipal
<1>19. CASE cancelActive
  BY <1>19, SameHolders DEF cancelActive, InFlight, LeaseHolders, HasPrincipal
<1>20. CASE Cleanup
  BY <1>20, SameHolders DEF Cleanup, InFlight, LeaseHolders, HasPrincipal
<1>21. CASE Flush
  BY <1>21, SameHolders DEF Flush, InFlight, LeaseHolders, HasPrincipal
<1>22. CASE UNCHANGED vars
  BY <1>22, SameHolders DEF vars, InFlight, LeaseHolders, HasPrincipal
<1> QED
  BY <1>1, <1>2, <1>3, <1>4, <1>5, <1>6, <1>7, <1>9, <1>10, <1>11,
     <1>12, <1>13, <1>14, <1>15, <1>16, <1>17, <1>18, <1>19, <1>20, <1>21, <1>22 DEF Next, CallStep, ServeStep

(* Before the first call there is nothing to account for. *)
LEMMA ServerInvInit ==
  ASSUME Init PROVE ServerInv
<1>1. TypeOK
  BY DEF Init, TypeOK, Phases
<1>2. InFlight = {} /\ \A w \in Principal : LeaseHolders(w) = {}
  BY DEF Init, InFlight, LeaseHolders, HasPrincipal
<1>3. LeasesAreHeld
  BY <1>2, FS_EmptySet, ServerAssumption DEF Init, LeasesAreHeld
<1>4. WriterWrites /\ HealthIsExempt /\ ActiveIsInside /\ AdmittedIsAccounted
  BY DEF Init, WriterWrites, HealthIsExempt, ActiveIsInside, AdmittedIsAccounted, Inside
<1>5. ServeIsOrdered /\ NothingSlipsIn
  BY DEF Init, ServeIsOrdered, NothingSlipsIn, Late
<1> QED
  BY <1>1, <1>3, <1>4, <1>5 DEF ServerInv

(* The inductive invariant, for all time. *)
THEOREM ServerInvariant == Spec => []ServerInv
<1>1. Init => ServerInv
  BY ServerInvInit
<1>2. ServerInv /\ [Next]_vars => ServerInv'
  BY TypeOKStep, WriterStep, ActiveStep, AdmittedStep, ServeStepOrdered, NothingSlipsInStep, LeasesStep
     DEF ServerInv
<1> QED
  BY <1>1, <1>2, PTL DEF Spec

(* The lease counters are the calls that hold leases, in every state and    *)
(* for every limit: acquireGlobal and acquire never let one too many in,    *)
(* and no refusal, audit failure or shutdown leaks a lease.                 *)
THEOREM LeasesNeverLeak == Spec => []LeasesMatchCalls
<1>1. ServerInv => LeasesMatchCalls
  BY DEF ServerInv, LeasesAreHeld, LeasesMatchCalls, InFlight, HasGlobal, LeaseHolders
<1> QED
  BY <1>1, ServerInvariant, PTL

(* The forced end of the grace period (cancelActive) and a broken listener  *)
(* reach every handler, the ones not yet started included.                  *)
THEOREM ForcedStopAlwaysReachesAll == Spec => []ForcedStopReachesAll
<1>1. ServerInv => ForcedStopReachesAll
  BY DEF ServerInv, NothingSlipsIn, ForcedStopReachesAll
<1> QED
  BY <1>1, ServerInvariant, PTL

(* Serve returns nil, or the error of the cleanup alone, only when every    *)
(* admitted call has its terminal event behind it.                          *)
THEOREM AuditLossIsAlwaysReported == Spec => []NoSilentAuditLoss
<1>1. ServerInv => NoSilentAuditLoss
  BY DEF ServerInv, NothingSlipsIn, NoSilentAuditLoss, Late
<1> QED
  BY <1>1, ServerInvariant, PTL
=============================================================================
