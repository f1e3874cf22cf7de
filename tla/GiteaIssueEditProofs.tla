------------------------ MODULE GiteaIssueEditProofs ------------------------
(***************************************************************************)
(* Proofs about GiteaIssueEdit, for any sets of users, labels and texts,   *)
(* any requests and any number of edits by others.  The argument: every    *)
(* write that was ever planned serves the request (Serving), so that it    *)
(* can arrive at any time without undoing it; confirmed is exactly what    *)
(* has happened as long as nothing was uncertain (Honest); and while       *)
(* nobody else edits, what is left of the plan is what is left to do       *)
(* (Covered).                                                              *)
(***************************************************************************)
EXTENDS GiteaIssueEdit, TLAPS

(* A write that the request asks for.                                      *)
ServesText(w, r) ==
  /\ w.title \in Title /\ w.body = r.body
  /\ r.title # None \/ r.body # None
  /\ r.title # None => w.title = r.title
ServesRemoval(w, r) ==
  \/ r.assigneeMode = "set" /\ \A u \in w.users : u \notin r.assignees
  \/ r.assigneeMode = "remove" /\ w.users \subseteq r.assignees
ServesAddition(w, r) == r.assigneeMode \in {"set", "add"} /\ w.users \subseteq r.assignees
Serves(w, r) ==
  /\ w.kind = "text" => ServesText(w, r)
  /\ w.kind = "removeAssignees" => ServesRemoval(w, r)
  /\ w.kind = "addAssignees" => ServesAddition(w, r)
  /\ w.kind = "addLabels" => r.labelMode = "add" /\ w.labels \subseteq r.labels
  /\ w.kind = "removeLabel" => r.labelMode = "remove" /\ w.labels \subseteq r.labels

Serving == \A w \in plan \cup late : Serves(w, intent)

Honest ==
  /\ pc \in {"preflight", "catalog"} => ~effects /\ ~confirmed /\ late = {}
  /\ pc \in {"execute", "final"} => late = {} /\ (effects <=> confirmed)
  /\ pc = "final" => confirmed
  /\ pc # "returned" => answer = "none" /\ audit = "none" /\ transitioned = "unset"
  /\ UserIsNotMisled /\ AuditIsTruthful

Counted ==
  /\ pc = "preflight" => pass = 1 /\ reads = 0
  /\ pc = "catalog" => pass = 1
  /\ pc \in {"catalog", "execute", "final", "recover"} => reads = pass
  /\ BoundedCalls

(* What is left of the plan covers what is left to do for a request.       *)
Covers(ws, r, i) ==
  /\ TextSatisfied(r, i) \/ \E w \in ws : w.kind = "text"
  /\ \A u \in User :
       /\ u \in removeAssignees(r, i) => \E w \in ws : w.kind = "removeAssignees" /\ u \in w.users
       /\ u \in addAssignees(r, i) => \E w \in ws : w.kind = "addAssignees" /\ u \in w.users
  /\ \A l \in Label :
       /\ l \in addLabels(r, i) => \E w \in ws : w.kind = "addLabels" /\ l \in w.labels
       /\ l \in removeLabels(r, i) => \E w \in ws : w.kind = "removeLabel" /\ l \in w.labels

Covered ==
  /\ pc = "catalog" /\ fresh => Covers(plan, intent, issue)
  /\ pc \in {"catalog", "execute", "final"} /\ pass = 1 /\ edits = 0 => Covers(plan, intent, issue)
  /\ pc = "catalog" /\ edits = 0 => fresh
  /\ pc = "final" => plan = {}
  /\ PlanSuffices

EditInv == TypeOK /\ Serving /\ Honest /\ Counted /\ Covered /\ SuccessHolds

-----------------------------------------------------------------------------
(* The planner and the writes.                                             *)

(* planIssueEdit returns well-formed writes.                               *)
LEMMA PlanTyped ==
  ASSUME NEW r \in Intent, NEW i \in Issue
  PROVE  planIssueEdit(r, i) \subseteq Write
<1>1. TextPlan(r, i) \subseteq Write
  BY DEF TextPlan, TextEdit, Write, Kinds, Intent, Issue
<1>2. removeAssignees(r, i) \subseteq User /\ addAssignees(r, i) \subseteq User
  BY DEF removeAssignees, addAssignees, Intent, Issue
<1>3. AssigneePlan(r, i) \subseteq Write
  BY <1>2 DEF AssigneePlan, UserEdit, Write, Kinds
<1>4. addLabels(r, i) \subseteq Label /\ removeLabels(r, i) \subseteq Label
  BY DEF addLabels, removeLabels, Intent, Issue
<1>5. LabelPlan(r, i) \subseteq Write
  BY <1>4 DEF LabelPlan, LabelEdit, Write, Kinds
<1> QED
  BY <1>1, <1>3, <1>5 DEF planIssueEdit

(* planIssueEdit asks for nothing the request does not.                    *)
LEMMA PlanServes ==
  ASSUME EditAssumption, NEW r \in Intent, NEW i \in Issue, NEW w \in planIssueEdit(r, i)
  PROVE  Serves(w, r)
<1>1. CASE w \in TextPlan(r, i)
  BY <1>1 DEF TextPlan, TextEdit, TextSatisfied, Serves, ServesText, EditAssumption, Intent, Issue
<1>2. CASE w \in AssigneePlan(r, i)
  BY <1>2 DEF AssigneePlan, UserEdit, removeAssignees, addAssignees, Serves, ServesRemoval,
     ServesAddition, Intent, Issue
<1>3. CASE w \in LabelPlan(r, i)
  BY <1>3 DEF LabelPlan, LabelEdit, addLabels, removeLabels, Serves, Intent, Issue
<1> QED
  BY <1>1, <1>2, <1>3 DEF planIssueEdit

(* planIssueEdit asks for all that is missing.                             *)
LEMMA PlanCovers ==
  ASSUME NEW r \in Intent, NEW i \in Issue
  PROVE  Covers(planIssueEdit(r, i), r, i)
<1>1. TextSatisfied(r, i) \/ \E w \in planIssueEdit(r, i) : w.kind = "text"
  <2> DEFINE t == TextEdit(IF r.title = None THEN i.title ELSE r.title, r.body)
  <2>1. t.kind = "text"
    BY DEF TextEdit
  <2>2. TextSatisfied(r, i) \/ t \in planIssueEdit(r, i)
    BY DEF planIssueEdit, TextPlan
  <2> QED
    BY <2>1, <2>2
<1>2. ASSUME NEW u \in removeAssignees(r, i)
      PROVE  \E w \in planIssueEdit(r, i) : w.kind = "removeAssignees" /\ u \in w.users
  <2>1. UserEdit("removeAssignees", removeAssignees(r, i)) \in planIssueEdit(r, i)
    BY <1>2 DEF planIssueEdit, AssigneePlan
  <2>2. UserEdit("removeAssignees", removeAssignees(r, i)).kind = "removeAssignees" /\ u \in UserEdit("removeAssignees", removeAssignees(r, i)).users
    BY <1>2 DEF UserEdit
  <2> QED
    BY <2>1, <2>2
<1>3. ASSUME NEW u \in addAssignees(r, i)
      PROVE  \E w \in planIssueEdit(r, i) : w.kind = "addAssignees" /\ u \in w.users
  <2>1. UserEdit("addAssignees", addAssignees(r, i)) \in planIssueEdit(r, i)
    BY <1>3 DEF planIssueEdit, AssigneePlan
  <2>2. UserEdit("addAssignees", addAssignees(r, i)).kind = "addAssignees" /\ u \in UserEdit("addAssignees", addAssignees(r, i)).users
    BY <1>3 DEF UserEdit
  <2> QED
    BY <2>1, <2>2
<1>4. ASSUME NEW l \in addLabels(r, i)
      PROVE  \E w \in planIssueEdit(r, i) : w.kind = "addLabels" /\ l \in w.labels
  <2>1. LabelEdit("addLabels", addLabels(r, i)) \in planIssueEdit(r, i)
    BY <1>4 DEF planIssueEdit, LabelPlan
  <2>2. LabelEdit("addLabels", addLabels(r, i)).kind = "addLabels" /\ l \in LabelEdit("addLabels", addLabels(r, i)).labels
    BY <1>4 DEF LabelEdit
  <2> QED
    BY <2>1, <2>2
<1>5. ASSUME NEW l \in removeLabels(r, i)
      PROVE  \E w \in planIssueEdit(r, i) : w.kind = "removeLabel" /\ l \in w.labels
  <2>1. LabelEdit("removeLabel", {l}) \in planIssueEdit(r, i)
    BY <1>5 DEF planIssueEdit, LabelPlan
  <2>2. LabelEdit("removeLabel", {l}).kind = "removeLabel" /\ l \in LabelEdit("removeLabel", {l}).labels
    BY <1>5 DEF LabelEdit
  <2> QED
    BY <2>1, <2>2
<1> QED
  BY <1>1, <1>2, <1>3, <1>4, <1>5 DEF Covers

(* Nothing left to do means that the request is satisfied.                 *)
LEMMA NothingLeft ==
  ASSUME NEW r \in Intent, NEW i \in Issue, Covers({}, r, i)
  PROVE  editSatisfied(r, i)
<1>1. TextSatisfied(r, i)
  BY DEF Covers
<1>2. removeAssignees(r, i) = {} /\ addAssignees(r, i) = {}
  BY DEF Covers, removeAssignees, addAssignees, Intent, Issue
<1>3. AssigneesSatisfied(r, i)
  BY <1>2 DEF AssigneesSatisfied, removeAssignees, addAssignees, Intent, Issue
<1>4. addLabels(r, i) = {} /\ removeLabels(r, i) = {}
  BY DEF Covers, addLabels, removeLabels, Intent, Issue
<1>5. LabelsSatisfied(r, i)
  BY <1>4 DEF LabelsSatisfied, addLabels, removeLabels, Intent, Issue
<1> QED
  BY <1>1, <1>3, <1>5 DEF editSatisfied

(* A write that serves the request keeps an issue an issue ...             *)
LEMMA ApplyTyped ==
  ASSUME NEW w \in Write, NEW r \in Intent, NEW i \in Issue, Serves(w, r)
  PROVE  Apply(w, i) \in Issue
<1>1. w.kind = "text" => w.title \in Title
  BY DEF Serves, ServesText
<1>2. w.body # None => w.body \in Body
  BY DEF Write
<1> QED
  BY <1>1, <1>2 DEF Apply, Write, Issue, Kinds

(* ... and never undoes what is satisfied, whenever it arrives.            *)
LEMMA ServesKeeps ==
  ASSUME NEW w \in Write, NEW r \in Intent, NEW i \in Issue, Serves(w, r), editSatisfied(r, i)
  PROVE  editSatisfied(r, Apply(w, i))
<1>1. TextSatisfied(r, Apply(w, i))
  BY DEF editSatisfied, TextSatisfied, Apply, Serves, ServesText
<1>2. AssigneesSatisfied(r, Apply(w, i))
  BY DEF editSatisfied, AssigneesSatisfied, Apply, Serves, ServesRemoval, ServesAddition, Intent, Issue, Write, Kinds
<1>3. LabelsSatisfied(r, Apply(w, i))
  BY DEF editSatisfied, LabelsSatisfied, Apply, Serves, Intent, Issue, Write, Kinds
<1> QED
  BY <1>1, <1>2, <1>3 DEF editSatisfied

(* A write that has been done need not stay in the plan.                   *)
LEMMA DoneIsDone ==
  ASSUME NEW r \in Intent, NEW i \in Issue, NEW ws \in SUBSET Write, NEW w \in ws,
         Serves(w, r), Covers(ws, r, i)
  PROVE  Covers(ws \ {w}, r, Apply(w, i))
<1> DEFINE j == Apply(w, i)
<1>0. w \in Write
  OBVIOUS
<1>1. TextSatisfied(r, j) \/ \E v \in ws \ {w} : v.kind = "text"
  BY DEF Covers, TextSatisfied, Apply, Serves, ServesText
<1>2. ASSUME NEW u \in User, u \in removeAssignees(r, j)
      PROVE  \E v \in ws \ {w} : v.kind = "removeAssignees" /\ u \in v.users
  <2>1. u \in removeAssignees(r, i) /\ ~(w.kind = "removeAssignees" /\ u \in w.users)
    BY <1>0, <1>2 DEF removeAssignees, Apply, Serves, ServesAddition, Write, Kinds, Issue
  <2> QED
    BY <2>1 DEF Covers
<1>3. ASSUME NEW u \in User, u \in addAssignees(r, j)
      PROVE  \E v \in ws \ {w} : v.kind = "addAssignees" /\ u \in v.users
  <2>1. u \in addAssignees(r, i) /\ ~(w.kind = "addAssignees" /\ u \in w.users)
    BY <1>0, <1>3 DEF addAssignees, Apply, Serves, ServesRemoval, Write, Kinds, Issue
  <2> QED
    BY <2>1 DEF Covers
<1>4. ASSUME NEW l \in Label, l \in addLabels(r, j)
      PROVE  \E v \in ws \ {w} : v.kind = "addLabels" /\ l \in v.labels
  <2>1. l \in addLabels(r, i) /\ ~(w.kind = "addLabels" /\ l \in w.labels)
    BY <1>0, <1>4 DEF addLabels, Apply, Serves, Write, Kinds, Issue
  <2> QED
    BY <2>1 DEF Covers
<1>5. ASSUME NEW l \in Label, l \in removeLabels(r, j)
      PROVE  \E v \in ws \ {w} : v.kind = "removeLabel" /\ l \in v.labels
  <2>1. l \in removeLabels(r, i) /\ ~(w.kind = "removeLabel" /\ l \in w.labels)
    BY <1>0, <1>5 DEF removeLabels, Apply, Serves, Write, Kinds, Issue
  <2> QED
    BY <2>1 DEF Covers
<1> QED
  BY <1>1, <1>2, <1>3, <1>4, <1>5 DEF Covers

-----------------------------------------------------------------------------
(* The invariant.                                                          *)

(* It holds before the preflight read.                                     *)
LEMMA EditInit == ASSUME EditAssumption, Init PROVE EditInv
<1>1. TypeOK
  <2>1. intent \in Intent
    BY DEF Init, EditAssumption
  <2>2. edits \in 0..MaxEdits /\ pass \in {1, 2} /\ reads \in 0..4
    BY DEF Init, EditAssumption
  <2>3. confirmed \in BOOLEAN /\ effects \in BOOLEAN /\ fresh \in BOOLEAN
    BY Zenon DEF Init
  <2> QED
    BY <2>1, <2>2, <2>3 DEF Init, TypeOK
<1>2. Serving /\ Honest /\ SuccessHolds
  BY DEF Init, Serving, Honest, UserIsNotMisled, AuditIsTruthful, SuccessHolds
<1>3. Counted /\ Covered
  BY DEF Init, Counted, BoundedCalls, Covered, PlanSuffices
<1> QED
  BY <1>1, <1>2, <1>3 DEF EditInv

(* An answer that is a failure says so truthfully.                         *)
LEMMA FailIsTruthful ==
  ASSUME EditInv, NEW err \in Failures, Fail(err),
         UNCHANGED <<late, effects, transitioned>>,
         err # "unknown" => late = {},
         err = "partial" => effects,
         err \notin {"unknown", "partial"} => ~effects
  PROVE  UserIsNotMisled' /\ AuditIsTruthful'
BY DEF Fail, UserIsNotMisled, AuditIsTruthful, Untouched, Diagnostic, auditOutcome, Failures, ReadErrors

(* The fields of a step that ends the edit with a failure.                 *)
LEMMA FailKeeps ==
  ASSUME EditInv, NEW err \in Failures, Fail(err),
         UNCHANGED <<intent, issue, edits, ctx, confirmed, late, effects, transitioned>>,
         reads' \in {reads, reads + 1}, pc # "returned", fresh' \in BOOLEAN,
         err # "unknown" => late = {},
         err = "partial" => effects,
         err \notin {"unknown", "partial"} => ~effects
  PROVE  EditInv'
<1>1. TypeOK' /\ reads' <= 3
  BY DEF EditInv, TypeOK, Counted, BoundedCalls, Fail, auditOutcome, Failures
<1>2. Serving' /\ SuccessHolds'
  BY DEF EditInv, Serving, SuccessHolds, Fail, Failures, ReadErrors
<1>3. Honest'
  BY FailIsTruthful DEF Fail, Honest
<1>4. Counted' /\ Covered'
  BY <1>1 DEF EditInv, Counted, BoundedCalls, Covered, PlanSuffices, Fail
<1> QED
  BY <1>1, <1>2, <1>3, <1>4 DEF EditInv
(* A step that ends the edit with success.                                 *)
LEMMA SucceedKeeps ==
  ASSUME EditInv, NEW c \in {"yes", "no"}, Succeed(c),
         UNCHANGED <<intent, issue, edits, ctx, confirmed, late, effects>>,
         reads' \in {reads, reads + 1}, pc # "returned", fresh' \in BOOLEAN,
         fresh' => editSatisfied(intent, issue),
         c = "no" => ~effects /\ late = {}
  PROVE  EditInv'
<1>1. TypeOK' /\ reads' <= 3
  BY DEF EditInv, TypeOK, Counted, BoundedCalls, Succeed, auditOutcome, Failures
<1>2. Serving' /\ SuccessHolds'
  BY DEF EditInv, Serving, SuccessHolds, Succeed
<1>3. UserIsNotMisled'
  BY DEF Succeed, UserIsNotMisled, Diagnostic
<1>4. AuditIsTruthful'
  BY DEF Succeed, AuditIsTruthful, auditOutcome, Untouched
<1>5. Honest'
  BY <1>3, <1>4 DEF Succeed, Honest
<1>6. Counted' /\ Covered'
  BY <1>1 DEF EditInv, Counted, BoundedCalls, Covered, PlanSuffices, Succeed
<1> QED
  BY <1>1, <1>2, <1>5, <1>6 DEF EditInv

(* The preflight read makes the first plan.                                *)
LEMMA PreflightKeeps == ASSUME EditAssumption, EditInv, Preflight PROVE EditInv'
<1>1. TypeOK'
  BY PlanTyped DEF EditInv, TypeOK, Counted, Preflight, Read, endVars
<1>2. Serving'
  BY PlanServes DEF EditInv, TypeOK, Honest, Serving, Preflight
<1>3. Honest' /\ SuccessHolds'
  BY DEF EditInv, Honest, UserIsNotMisled, AuditIsTruthful, SuccessHolds, Preflight, Read, endVars
<1>4. Counted'
  BY DEF EditInv, Honest, Counted, BoundedCalls, Preflight, Read
<1>5. Covers(plan', intent', issue')
  BY PlanCovers DEF EditInv, TypeOK, Preflight
<1>6. Covered'
  BY <1>5 DEF EditInv, Counted, Covered, PlanSuffices, Preflight, Read
<1> QED
  BY <1>1, <1>2, <1>3, <1>4, <1>6 DEF EditInv

(* The catalog read ends an edit that has nothing to do.                   *)
LEMMA CatalogFoundKeeps == ASSUME EditInv, CatalogFound PROVE EditInv'
<1>1. CASE plan = {}
  <2>1. fresh => editSatisfied(intent, issue)
    BY <1>1, NothingLeft DEF EditInv, TypeOK, Covered, CatalogFound
  <2>2. ~effects /\ late = {} /\ pc = "catalog" /\ fresh \in BOOLEAN
    BY DEF EditInv, TypeOK, Honest, CatalogFound
  <2>3. /\ UNCHANGED <<intent, issue, edits, ctx, confirmed, late, effects>>
        /\ reads' = reads /\ fresh' = fresh /\ Succeed("no")
    BY <1>1 DEF CatalogFound
  <2> QED
    BY <2>1, <2>2, <2>3, SucceedKeeps
<1>2. CASE plan # {}
  <2> USE <1>2
  <2>1. TypeOK' /\ Serving' /\ SuccessHolds'
    BY DEF EditInv, TypeOK, Serving, SuccessHolds, CatalogFound, endVars
  <2>2. Honest'
    BY DEF EditInv, Honest, UserIsNotMisled, AuditIsTruthful, CatalogFound, endVars
  <2>3. Counted' /\ Covered'
    BY DEF EditInv, Honest, Counted, BoundedCalls, Covered, PlanSuffices, CatalogFound, endVars
  <2> QED
    BY <2>1, <2>2, <2>3 DEF EditInv
<1> QED
  BY <1>1, <1>2

(* A confirmed write is done, and the rest of the plan covers the rest.    *)
LEMMA WriteConfirmedKeeps ==
  ASSUME EditInv, NEW w \in Due, WriteConfirmed(w) PROVE EditInv'
<1>1. w \in plan /\ w \in Write /\ Serves(w, intent)
  BY DEF EditInv, TypeOK, Serving, Due
<1>2. Apply(w, issue) \in Issue
  BY <1>1, ApplyTyped DEF EditInv, TypeOK
<1>3. TypeOK'
  BY <1>2 DEF EditInv, TypeOK, WriteConfirmed, endVars
<1>4. Serving' /\ SuccessHolds'
  BY DEF EditInv, Honest, Serving, SuccessHolds, WriteConfirmed, endVars
<1>5. Honest'
  BY DEF EditInv, Honest, UserIsNotMisled, AuditIsTruthful, WriteConfirmed, endVars
<1>6. Counted'
  BY DEF EditInv, Honest, Counted, BoundedCalls, WriteConfirmed, endVars
<1>7. Covers(plan, intent, issue) => Covers(plan', intent', issue')
  BY <1>1, DoneIsDone DEF EditInv, TypeOK, WriteConfirmed
<1>8. Covered'
  BY <1>7 DEF EditInv, Covered, PlanSuffices, WriteConfirmed, endVars
<1> QED
  BY <1>3, <1>4, <1>5, <1>6, <1>8 DEF EditInv

(* An uncertain write ends the execution.                                  *)
LEMMA WriteUncertainKeeps ==
  ASSUME EditInv, NEW w \in Due, WriteUncertain(w) PROVE EditInv'
<1>1. w \in plan /\ w \in Write /\ Serves(w, intent)
  BY DEF EditInv, TypeOK, Serving, Due
<1>2. Apply(w, issue) \in Issue
  BY <1>1, ApplyTyped DEF EditInv, TypeOK
<1>3. TypeOK'
  BY <1>1, <1>2 DEF EditInv, TypeOK, WriteUncertain, endVars
<1>4. Serving' /\ SuccessHolds'
  BY <1>1 DEF EditInv, Honest, Serving, SuccessHolds, WriteUncertain, endVars
<1>5. Honest'
  BY DEF EditInv, Honest, UserIsNotMisled, AuditIsTruthful, WriteUncertain, endVars
<1>6. Counted' /\ Covered'
  BY DEF EditInv, Counted, BoundedCalls, Covered, PlanSuffices, WriteUncertain, endVars
<1> QED
  BY <1>3, <1>4, <1>5, <1>6 DEF EditInv

(* A corrective plan is only made after somebody else's edit.              *)
LEMMA CorrectKeeps == ASSUME EditAssumption, EditInv, Correct PROVE EditInv'
<1>1. edits > 0
  <2>1. edits = 0 => Covers({}, intent, issue)
    BY DEF EditInv, Covered, Correct
  <2> QED
    BY <2>1, NothingLeft DEF EditInv, TypeOK, Correct
<1>2. TypeOK'
  BY PlanTyped DEF EditInv, TypeOK, Counted, Correct, Read, endVars
<1>3. Serving'
  BY PlanServes DEF EditInv, TypeOK, Honest, Serving, Correct
<1>4. Honest' /\ SuccessHolds'
  BY DEF EditInv, Honest, UserIsNotMisled, AuditIsTruthful, SuccessHolds, Correct, Read, endVars
<1>5. Counted'
  BY DEF EditInv, Honest, Counted, BoundedCalls, Correct, Read
<1>6. Covered'
  BY <1>1 DEF EditInv, Covered, PlanSuffices, Correct, Read
<1> QED
  BY <1>2, <1>3, <1>4, <1>5, <1>6 DEF EditInv

(* The ways in which the edit fails.                                       *)
LEMMA FailuresKeep ==
  ASSUME EditInv,
         PreflightFails \/ CatalogFails \/ ExecuteCancelled \/ GiveUp \/ FinalFails \/ NotRecovered
  PROVE  EditInv'
<1>0. ReadError \subseteq Failures \ {"unknown", "partial"}
  BY DEF EditInv, TypeOK, ReadError, Failures, ReadErrors, TransportErrors
<1>1. fresh \in BOOLEAN /\ reads \in Nat
  BY DEF EditInv, TypeOK
<1>2. CASE PreflightFails
  <2>1. PICK err \in ReadError : Fail(err)
    BY <1>2 DEF PreflightFails
  <2>2. ~effects /\ late = {} /\ pc # "returned"
    BY <1>2 DEF EditInv, Honest, PreflightFails
  <2>3. /\ UNCHANGED <<intent, issue, edits, ctx, confirmed, late, effects, transitioned>>
        /\ reads' \in {reads, reads + 1} /\ fresh' \in BOOLEAN
    BY <1>1, <1>2 DEF PreflightFails, ReadFailed
  <2> QED
    BY <1>0, <2>1, <2>2, <2>3, FailKeeps
<1>3. CASE CatalogFails
  <2>1. PICK err \in CatalogError : Fail(err)
    BY <1>3 DEF CatalogFails
  <2>2. ~effects /\ late = {} /\ pc # "returned"
    BY <1>3 DEF EditInv, Honest, CatalogFails
  <2>3. /\ UNCHANGED <<intent, issue, edits, ctx, confirmed, late, effects, transitioned>>
        /\ reads' \in {reads, reads + 1} /\ fresh' \in BOOLEAN
    BY <1>1, <1>3 DEF CatalogFails
  <2>4. err \in Failures \ {"unknown", "partial"}
    BY <2>1 DEF EditInv, TypeOK, CatalogError, Failures, ReadErrors, TransportErrors
  <2> QED
    BY <2>1, <2>2, <2>3, <2>4, FailKeeps
<1>4. CASE ExecuteCancelled
  <2> DEFINE err == classifyEditKnownFailure(ctx)
  <2>1. late = {} /\ (effects <=> confirmed) /\ pc # "returned"
    BY <1>4 DEF EditInv, Honest, ExecuteCancelled
  <2>2. /\ UNCHANGED <<intent, issue, edits, ctx, confirmed, late, effects, transitioned>>
        /\ reads' \in {reads, reads + 1} /\ fresh' \in BOOLEAN /\ Fail(err)
    BY <1>1, <1>4 DEF ExecuteCancelled
  <2>3. err \in Failures \ {"unknown"} /\ (err = "partial" <=> confirmed)
    BY <1>4 DEF EditInv, TypeOK, ExecuteCancelled, classifyEditKnownFailure, Failures
  <2> QED
    BY <2>1, <2>2, <2>3, FailKeeps
<1>5. CASE GiveUp
  <2>1. late = {} /\ effects /\ confirmed /\ pc # "returned"
    BY <1>5 DEF EditInv, Honest, GiveUp
  <2>2. /\ UNCHANGED <<intent, issue, edits, ctx, confirmed, late, effects, transitioned>>
        /\ reads' \in {reads, reads + 1} /\ fresh' \in BOOLEAN /\ Fail("partial")
    BY <1>5, <2>1 DEF GiveUp, Read, classifyEditKnownFailure
  <2>3. "partial" \in Failures
    BY DEF Failures
  <2> QED
    BY <2>1, <2>2, <2>3, FailKeeps
<1>6. CASE FinalFails
  <2>1. late = {} /\ effects /\ confirmed /\ pc # "returned"
    BY <1>6 DEF EditInv, Honest, FinalFails
  <2>2. /\ UNCHANGED <<intent, issue, edits, ctx, confirmed, late, effects, transitioned>>
        /\ reads' \in {reads, reads + 1} /\ fresh' \in BOOLEAN /\ Fail("partial")
    BY <1>1, <1>6, <2>1 DEF FinalFails, ReadFailed, classifyEditKnownFailure
  <2>3. "partial" \in Failures
    BY DEF Failures
  <2> QED
    BY <2>1, <2>2, <2>3, FailKeeps
<1>7. CASE NotRecovered
  <2>1. /\ UNCHANGED <<intent, issue, edits, ctx, confirmed, late, effects, transitioned>>
        /\ reads' \in {reads, reads + 1} /\ fresh' \in BOOLEAN /\ Fail("unknown")
        /\ pc # "returned"
    BY <1>1, <1>7 DEF NotRecovered, Read, ReadFailed
  <2>2. "unknown" \in Failures
    BY DEF Failures
  <2> QED
    BY <2>1, <2>2, FailKeeps
<1> QED
  BY <1>2, <1>3, <1>4, <1>5, <1>6, <1>7

(* Success after a read, of either kind.                                   *)
LEMMA SuccessKeeps == ASSUME EditInv, FinalSatisfied \/ Recovered PROVE EditInv'
<1>1. /\ UNCHANGED <<intent, issue, edits, ctx, confirmed, late, effects>>
      /\ reads' = reads + 1 /\ fresh' \in BOOLEAN /\ Succeed("yes")
      /\ pc # "returned" /\ editSatisfied(intent, issue)
  BY DEF FinalSatisfied, Recovered, RecoverySatisfied, Read
<1> QED
  BY <1>1, SucceedKeeps

(* The end of the RPC's context changes nothing at the provider.           *)
LEMMA ContextEndsKeeps == ASSUME EditInv, ContextEnds PROVE EditInv'
<1>1. TypeOK' /\ Serving' /\ SuccessHolds'
  BY DEF EditInv, TypeOK, Serving, SuccessHolds, ContextEnds, progress, endVars
<1>2. Honest'
  BY DEF EditInv, Honest, UserIsNotMisled, AuditIsTruthful, Untouched, ContextEnds, progress, endVars
<1>3. Counted' /\ Covered'
  BY DEF EditInv, Counted, BoundedCalls, Covered, PlanSuffices, ContextEnds, progress, endVars
<1> QED
  BY <1>1, <1>2, <1>3 DEF EditInv

(* An edit by others makes what was read stale.                            *)
LEMMA OthersEditKeeps == ASSUME EditAssumption, EditInv, OthersEdit PROVE EditInv'
<1>1. TypeOK'
  <2>1. edits' \in 0..MaxEdits
    BY DEF EditInv, TypeOK, EditAssumption, OthersEdit
  <2>2. issue' \in Issue /\ fresh' \in BOOLEAN
    BY DEF OthersEdit
  <2>3. /\ TypeOK
        /\ UNCHANGED <<intent, ctx, pc, pass, plan, confirmed, late, effects, reads, transitioned, answer, audit>>
    BY DEF EditInv, OthersEdit, progress, endVars
  <2> QED
    BY <2>1, <2>2, <2>3 DEF TypeOK
<1>2. Serving' /\ SuccessHolds'
  BY DEF EditInv, Serving, SuccessHolds, OthersEdit, progress, endVars
<1>3. Honest'
  BY DEF EditInv, Honest, UserIsNotMisled, AuditIsTruthful, Untouched, OthersEdit, progress, endVars
<1>4. edits' > 0
  BY DEF EditInv, TypeOK, OthersEdit
<1>5. Counted' /\ Covered'
  BY <1>4 DEF EditInv, Counted, BoundedCalls, Covered, PlanSuffices, OthersEdit, progress, endVars
<1> QED
  BY <1>1, <1>2, <1>3, <1>5 DEF EditInv

(* A write that arrives late serves the request all the same.              *)
LEMMA LateWriteKeeps == ASSUME EditInv, LateWrite PROVE EditInv'
<1>1. PICK w \in late : issue' = Apply(w, issue)
  BY DEF LateWrite
<1>2. w \in Write /\ Serves(w, intent) /\ late # {} /\ pc \in {"recover", "returned"}
  BY DEF EditInv, TypeOK, Serving, Counted, BoundedCalls
<1>3. issue' \in Issue
  BY <1>1, <1>2, ApplyTyped DEF EditInv, TypeOK
<1>4. TypeOK' /\ Serving'
  BY <1>3 DEF EditInv, TypeOK, Serving, LateWrite, progress, endVars
<1>5. SuccessHolds'
  <2>1. editSatisfied(intent, issue) => editSatisfied(intent, issue')
    BY <1>1, <1>2, ServesKeeps DEF EditInv, TypeOK
  <2>2. UNCHANGED <<intent, fresh, answer>>
    BY DEF LateWrite, endVars
  <2> QED
    BY <2>1, <2>2 DEF EditInv, SuccessHolds
<1>6. Honest'
  BY <1>2 DEF EditInv, Honest, UserIsNotMisled, AuditIsTruthful, Untouched, LateWrite, progress, endVars
<1>7. Counted' /\ Covered'
  BY <1>2 DEF EditInv, Counted, BoundedCalls, Covered, PlanSuffices, LateWrite, progress, endVars
<1> QED
  BY <1>4, <1>5, <1>6, <1>7 DEF EditInv

(* A stuttering step changes nothing.                                      *)
LEMMA StutterKeeps == ASSUME EditInv, UNCHANGED vars PROVE EditInv'
<1> USE DEF vars, progress, endVars
<1>1. TypeOK' /\ Serving' /\ SuccessHolds'
  BY DEF EditInv, TypeOK, Serving, SuccessHolds
<1>2. Honest'
  BY DEF EditInv, Honest, UserIsNotMisled, AuditIsTruthful, Untouched
<1>3. Counted' /\ Covered'
  BY DEF EditInv, Counted, BoundedCalls, Covered, PlanSuffices
<1> QED
  BY <1>1, <1>2, <1>3 DEF EditInv

(* Every step keeps the invariant.                                         *)
LEMMA EditStep == ASSUME EditAssumption, EditInv, [Next]_vars PROVE EditInv'
<1>1. CASE Preflight
  BY <1>1, PreflightKeeps
<1>2. CASE CatalogFound
  BY <1>2, CatalogFoundKeeps
<1>3. ASSUME NEW w \in Due, WriteConfirmed(w) \/ WriteUncertain(w) PROVE EditInv'
  BY <1>3, WriteConfirmedKeeps, WriteUncertainKeeps
<1>4. CASE Correct
  BY <1>4, CorrectKeeps
<1>5. CASE PreflightFails \/ CatalogFails \/ ExecuteCancelled \/ GiveUp \/ FinalFails \/ NotRecovered
  BY <1>5, FailuresKeep
<1>6. CASE FinalSatisfied \/ Recovered
  BY <1>6, SuccessKeeps
<1>7. CASE ContextEnds \/ OthersEdit \/ LateWrite
  BY <1>7, ContextEndsKeeps, OthersEditKeeps, LateWriteKeeps
<1>8. CASE UNCHANGED vars
  BY <1>8, StutterKeeps
<1> QED
  BY <1>1, <1>2, <1>3, <1>4, <1>5, <1>6, <1>7, <1>8 DEF Next

(* EditInv is an invariant of issueEdit and its environment.               *)
THEOREM EditCorrect == Spec => []EditInv
<1>1. Init => EditInv
  BY EditInit, EditAssumption
<1>2. EditInv /\ [Next]_vars => EditInv'
  BY EditStep, EditAssumption
<1> QED
  BY <1>1, <1>2, PTL DEF Spec

(* The variables keep their types.                                         *)
THEOREM EditTypes == Spec => []TypeOK
<1>1. EditInv => TypeOK
  BY DEF EditInv
<1> QED
  BY <1>1, EditCorrect, PTL

(* What tea prints about a failed edit is true of the issue, whatever was  *)
(* lost, late or done by others (classifyEditKnownFailure,                 *)
(* resolveIssueEditFailure).                                               *)
THEOREM UserNeverMisled == Spec => []UserIsNotMisled
<1>1. EditInv => UserIsNotMisled
  BY DEF EditInv, Honest
<1> QED
  BY <1>1, EditCorrect, PTL

(* So is what the audit event says (auditOutcome, recordTransition).       *)
THEOREM AuditAlwaysTruthful == Spec => []AuditIsTruthful
<1>1. EditInv => AuditIsTruthful
  BY DEF EditInv, Honest
<1> QED
  BY <1>1, EditCorrect, PTL

(* No write of a successful edit undoes it (planIssueEdit, editSatisfied). *)
THEOREM SuccessAlwaysHolds == Spec => []SuccessHolds
<1>1. EditInv => SuccessHolds
  BY DEF EditInv
<1> QED
  BY <1>1, EditCorrect, PTL

(* The corrective pass is there for the edits of others only.              *)
THEOREM PlanAlwaysSuffices == Spec => []PlanSuffices
<1>1. EditInv => PlanSuffices
  BY DEF EditInv, Covered
<1> QED
  BY <1>1, EditCorrect, PTL

(* issueEdit reads three times at most and stops at an uncertain write.    *)
THEOREM CallsAlwaysBounded == Spec => []BoundedCalls
<1>1. EditInv => BoundedCalls
  BY DEF EditInv, Counted
<1> QED
  BY <1>1, EditCorrect, PTL

(* A write that serves the request changes nothing else.                   *)
LEMMA ServesOnlyTheRequested ==
  ASSUME EditAssumption, NEW w \in Write, Serves(w, intent),
         intent \in Intent, issue \in Issue, issue' = Apply(w, issue)
  PROVE  /\ issue'.title # issue.title => intent.title # None \/ intent.body # None
         /\ issue'.body # issue.body => issue'.body = intent.body
         /\ \A u \in User : (u \in issue.assignees) # (u \in issue'.assignees) =>
              CASE intent.assigneeMode = "none" -> FALSE
                [] intent.assigneeMode = "set" -> u \in issue'.assignees <=> u \in intent.assignees
                [] OTHER -> u \in intent.assignees
         /\ \A l \in Label : (l \in issue.labels) # (l \in issue'.labels) => l \in intent.labels
<1>1. issue'.title # issue.title => intent.title # None \/ intent.body # None
  BY DEF Apply, Serves, ServesText
<1>2. issue'.body # issue.body => issue'.body = intent.body
  BY DEF Apply, Serves, ServesText
<1>3. ASSUME NEW u \in User, (u \in issue.assignees) # (u \in issue'.assignees)
      PROVE  CASE intent.assigneeMode = "none" -> FALSE
               [] intent.assigneeMode = "set" -> u \in issue'.assignees <=> u \in intent.assignees
               [] OTHER -> u \in intent.assignees
  <2>1. w.kind \in {"removeAssignees", "addAssignees"}
    BY <1>3 DEF Apply
  <2>2. CASE w.kind = "removeAssignees"
    <3>1. issue'.assignees = issue.assignees \ w.users
      BY <2>2 DEF Apply
    <3>2. u \in w.users /\ u \notin issue'.assignees
      BY <1>3, <3>1
    <3> QED
      BY <2>2, <3>2 DEF Serves, ServesRemoval
  <2>3. CASE w.kind = "addAssignees"
    <3>1. issue'.assignees = issue.assignees \cup w.users
      BY <2>3 DEF Apply
    <3>2. u \in w.users /\ u \in issue'.assignees
      BY <1>3, <3>1
    <3> QED
      BY <2>3, <3>2 DEF Serves, ServesAddition
  <2> QED
    BY <2>1, <2>2, <2>3
<1>4. ASSUME NEW l \in Label, (l \in issue.labels) # (l \in issue'.labels)
      PROVE  l \in intent.labels
  BY <1>4 DEF Apply, Serves, Write, Kinds
<1> QED
  BY <1>1, <1>2, <1>3, <1>4

(* An edit leaves alone what the request does not name, in the issue as it *)
(* is when the write arrives and not as it was read (planIssueEdit sends   *)
(* differences, and never a body that was not asked for).                  *)
THEOREM OnlyTheRequestedAlways == Spec => OnlyTheRequested
<1> DEFINE Untouching ==
       edits' = edits =>
       /\ issue'.title # issue.title => intent.title # None \/ intent.body # None
       /\ issue'.body # issue.body => issue'.body = intent.body
       /\ \A u \in User : (u \in issue.assignees) # (u \in issue'.assignees) =>
            CASE intent.assigneeMode = "none" -> FALSE
              [] intent.assigneeMode = "set" -> u \in issue'.assignees <=> u \in intent.assignees
              [] OTHER -> u \in intent.assignees
       /\ \A l \in Label : (l \in issue.labels) # (l \in issue'.labels) => l \in intent.labels
<1>1. ASSUME EditInv, Next PROVE Untouching
  <2>1. CASE issue' = issue
    BY <2>1
  <2>2. ASSUME NEW w \in plan \cup late, issue' = Apply(w, issue) PROVE Untouching
    <3>1. w \in Write /\ Serves(w, intent) /\ intent \in Intent /\ issue \in Issue
      BY <1>1 DEF EditInv, TypeOK, Serving
    <3> QED
      BY <2>2, <3>1, ServesOnlyTheRequested, EditAssumption
  <2>3. CASE OthersEdit
    <3>1. edits' # edits
      BY <1>1, <2>3 DEF OthersEdit, EditInv, TypeOK
    <3> QED
      BY <3>1
  <2>4. issue' = issue \/ (\E w \in plan \cup late : issue' = Apply(w, issue)) \/ OthersEdit
    <3>1. CASE \E w \in Due : WriteConfirmed(w) \/ WriteUncertain(w)
      BY <3>1 DEF Due, WriteConfirmed, WriteUncertain
    <3>2. CASE LateWrite
      BY <3>2 DEF LateWrite
    <3>3. CASE Preflight \/ PreflightFails \/ CatalogFails \/ CatalogFound \/ ExecuteCancelled
      BY <3>3 DEF Preflight, PreflightFails, CatalogFails, CatalogFound, ExecuteCancelled
    <3>4. CASE FinalSatisfied \/ Correct \/ GiveUp \/ FinalFails \/ Recovered \/ NotRecovered \/ ContextEnds
      BY <3>4 DEF FinalSatisfied, Correct, GiveUp, FinalFails, Recovered, NotRecovered, ContextEnds
    <3> QED
      BY <1>1, <3>1, <3>2, <3>3, <3>4 DEF Next
  <2> QED
    BY <2>1, <2>2, <2>3, <2>4
<1>2. EditInv /\ [Next]_vars => [Untouching]_vars
  BY <1>1
<1> QED
  BY <1>2, EditCorrect, PTL DEF OnlyTheRequested, Spec
=============================================================================
