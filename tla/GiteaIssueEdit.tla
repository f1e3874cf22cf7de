--------------------------- MODULE GiteaIssueEdit ---------------------------
(***************************************************************************)
(* One issue edit of the Gitea adapter (internal/provider/gitea): read the *)
(* issue, plan the writes that are missing, execute them one by one, read  *)
(* again, correct once.  Others edit the same issue meanwhile; a write may *)
(* be lost, applied without an answer, or applied after the adapter has    *)
(* given up on it.  What the server records of the edit and what the       *)
(* restricted tea prints about it are part of the model.                   *)
(*                                                                         *)
(* A label is its name: that its ID agrees in the issue and in the         *)
(* repository is one of the reasons for which a catalog may be refused.    *)
(* Every requested label is in the catalog collectEditCatalogs returns, so *)
(* planIssueEdit itself never fails.                                       *)
(***************************************************************************)
EXTENDS Naturals

CONSTANTS Title, Body, User, Label,
          Assignable, \* users the repository offers as assignees
          RepoLabel,  \* labels of the repository
          None,       \* an absent value
          Requests,   \* the requests to look at
          MaxEdits    \* edits others may make meanwhile

Issue == [title : Title, body : Body, assignees : SUBSET User, labels : SUBSET Label]

(* What validateIssueEdit lets through: something is asked for, and only   *)
(* set_assignees may have an empty list.                                   *)
validateIssueEdit(r) ==
  /\ r.title # None \/ r.body # None \/ r.assigneeMode # "none" \/ r.labelMode # "none"
  /\ (r.assignees = {}) => r.assigneeMode \in {"none", "set"}
  /\ (r.labels = {}) <=> r.labelMode = "none"

Intent == [title : Title \cup {None}, body : Body \cup {None},
           assigneeMode : {"none", "set", "add", "remove"}, assignees : SUBSET User,
           labelMode : {"none", "add", "remove"}, labels : SUBSET Label]

Kinds == {"text", "removeAssignees", "addAssignees", "addLabels", "removeLabel"}
Write == [kind : Kinds, title : Title \cup {None}, body : Body \cup {None},
          users : SUBSET User, labels : SUBSET Label]

ASSUME EditAssumption ==
  /\ Assignable \subseteq User /\ RepoLabel \subseteq Label
  /\ None \notin Title /\ None \notin Body
  /\ Requests \subseteq {r \in Intent : validateIssueEdit(r)}
  /\ MaxEdits \in Nat

VARIABLES
  intent,       \* the request, normalised
  issue,        \* the issue at the provider
  edits,        \* edits that others have made
  ctx,          \* the context of the RPC
  pc,           \* where issueEdit is
  pass,         \* 1, and 2 once the corrective plan is made
  plan,         \* writes of the current plan that are still to be done
  confirmed,    \* editExecution.confirmed
  late,         \* writes given up that may still arrive
  effects,      \* some write of this edit has taken effect
  reads,        \* how often the issue was read
  fresh,        \* nobody else has edited the issue since it was last read
  transitioned, \* what recordTransition noted
  answer,       \* what the RPC answers
  audit         \* outcome of the terminal audit event

progress == <<pc, pass, plan>>
endVars == <<transitioned, answer, audit>>
vars == <<intent, issue, edits, ctx, progress, confirmed, late, effects, reads, fresh, endVars>>

ReadErrors == {"not found", "issue kind", "provider failure"}
Failures == ReadErrors \cup {"canceled", "deadline", "precondition", "exhausted", "unknown", "partial"}

TypeOK ==
  /\ intent \in Intent /\ issue \in Issue /\ edits \in 0..MaxEdits
  /\ ctx \in {"live", "canceled", "deadline"}
  /\ pc \in {"preflight", "catalog", "execute", "final", "recover", "returned"}
  /\ pass \in {1, 2} /\ plan \subseteq Write /\ confirmed \in BOOLEAN
  /\ late \subseteq Write /\ effects \in BOOLEAN /\ reads \in 0..4 /\ fresh \in BOOLEAN
  /\ transitioned \in {"unset", "yes", "no"} /\ answer \in Failures \cup {"none", "ok"}
  /\ audit \in {"none", "completed", "partial", "unknown", "cancelled", "failed"}

Init ==
  /\ intent \in Requests /\ issue \in Issue /\ edits = 0 /\ ctx = "live"
  /\ pc = "preflight" /\ pass = 1 /\ plan = {} /\ confirmed = FALSE
  /\ late = {} /\ effects = FALSE /\ reads = 0 /\ fresh = FALSE
  /\ transitioned = "unset" /\ answer = "none" /\ audit = "none"

-----------------------------------------------------------------------------
(* The planner.                                                            *)

TextSatisfied(r, i) == (r.title # None => i.title = r.title) /\ (r.body # None => i.body = r.body)
AssigneesSatisfied(r, i) ==
  /\ r.assigneeMode = "set" => i.assignees = r.assignees
  /\ r.assigneeMode = "add" => r.assignees \subseteq i.assignees
  /\ r.assigneeMode = "remove" => r.assignees \cap i.assignees = {}
LabelsSatisfied(r, i) ==
  /\ r.labelMode = "add" => r.labels \subseteq i.labels
  /\ r.labelMode = "remove" => r.labels \cap i.labels = {}
editSatisfied(r, i) == TextSatisfied(r, i) /\ AssigneesSatisfied(r, i) /\ LabelsSatisfied(r, i)

TextEdit(t, b) == [kind |-> "text", title |-> t, body |-> b, users |-> {}, labels |-> {}]
UserEdit(k, us) == [kind |-> k, title |-> None, body |-> None, users |-> us, labels |-> {}]
LabelEdit(k, ls) == [kind |-> k, title |-> None, body |-> None, users |-> {}, labels |-> ls]

(* A title that is not asked for is sent as it was read: the wire form of  *)
(* an edit has no absent title.                                            *)
StaleBodyPlan(r, i) == \* mutant: the body is sent as it was read, too
  IF TextSatisfied(r, i) THEN {}
  ELSE {TextEdit(IF r.title = None THEN i.title ELSE r.title, IF r.body = None THEN i.body ELSE r.body)}
TextPlan(r, i) ==
  IF TextSatisfied(r, i) THEN {}
  ELSE {TextEdit(IF r.title = None THEN i.title ELSE r.title, r.body)}

RemovesNamedOnly(r, i) == \* mutant: exact replacement removes nobody
  IF r.assigneeMode = "remove" THEN i.assignees \cap r.assignees ELSE {}
removeAssignees(r, i) ==
  CASE r.assigneeMode = "set" -> i.assignees \ r.assignees
    [] r.assigneeMode = "remove" -> i.assignees \cap r.assignees
    [] OTHER -> {}
addAssignees(r, i) == IF r.assigneeMode \in {"set", "add"} THEN r.assignees \ i.assignees ELSE {}
AssigneePlan(r, i) ==
  (IF removeAssignees(r, i) = {} THEN {} ELSE {UserEdit("removeAssignees", removeAssignees(r, i))})
  \cup (IF addAssignees(r, i) = {} THEN {} ELSE {UserEdit("addAssignees", addAssignees(r, i))})

addLabels(r, i) == IF r.labelMode = "add" THEN r.labels \ i.labels ELSE {}
removeLabels(r, i) == IF r.labelMode = "remove" THEN r.labels \cap i.labels ELSE {}
LabelPlan(r, i) ==
  (IF addLabels(r, i) = {} THEN {} ELSE {LabelEdit("addLabels", addLabels(r, i))})
  \cup {LabelEdit("removeLabel", {l}) : l \in removeLabels(r, i)}

planIssueEdit(r, i) == TextPlan(r, i) \cup AssigneePlan(r, i) \cup LabelPlan(r, i)

(* The order of executeIssueEditPlan; labels are removed one by one.       *)
Rank(w) == CASE w.kind = "text" -> 1 [] w.kind = "removeAssignees" -> 2
             [] w.kind = "addAssignees" -> 3 [] w.kind = "addLabels" -> 4 [] OTHER -> 5
Due == {w \in plan : \A v \in plan : Rank(w) <= Rank(v)}

(* What the provider does with a write.                                    *)
Apply(w, i) ==
  [title |-> IF w.kind = "text" THEN w.title ELSE i.title,
   body |-> IF w.kind = "text" /\ w.body # None THEN w.body ELSE i.body,
   assignees |-> CASE w.kind = "removeAssignees" -> i.assignees \ w.users
                   [] w.kind = "addAssignees" -> i.assignees \cup w.users
                   [] OTHER -> i.assignees,
   labels |-> CASE w.kind = "removeLabel" -> i.labels \ w.labels
                [] w.kind = "addLabels" -> i.labels \cup w.labels
                [] OTHER -> i.labels]

-----------------------------------------------------------------------------
(* How an edit ends.                                                       *)

auditOutcome(err) ==
  CASE err = "unknown" -> "unknown"
    [] err = "partial" -> "partial"
    [] err \in {"canceled", "deadline"} -> "cancelled"
    [] OTHER -> "failed"

Fail(err) ==
  /\ pc' = "returned" /\ answer' = err /\ audit' = auditOutcome(err)
  /\ UNCHANGED <<pass, plan>>

SucceedUnrecorded(changed) == \* mutant: recordTransition is not called after a write
  /\ pc' = "returned" /\ transitioned' = (IF changed = "no" THEN "no" ELSE transitioned)
  /\ answer' \in {"ok", "exhausted"} /\ audit' = "completed" /\ UNCHANGED <<pass, plan>>
(* editResponse and, in the service, Complete: each refuses a response     *)
(* that is too large, the second one after the edit counts as completed.   *)
Succeed(changed) ==
  /\ pc' = "returned" /\ transitioned' = changed /\ UNCHANGED <<pass, plan>>
  /\ \/ answer' \in {"ok", "exhausted"} /\ audit' = "completed"
     \/ answer' = "exhausted" /\ audit' = auditOutcome("exhausted")

AsItIs(err) == err \* mutant: confirmed writes are forgotten
classifyEditKnownFailure(err) == IF confirmed THEN "partial" ELSE err

Read == reads' = reads + 1 /\ fresh' = TRUE

-----------------------------------------------------------------------------
(* issueEdit                                                               *)

(* issuePreflight fails: before the call when the context has ended, else  *)
(* with the provider or its answer.  The transport reports its own         *)
(* failures as Canceled and the HTTP client its timeout as                 *)
(* DeadlineExceeded, which classifyProviderError hands on (GiteaCall).     *)
TransportErrors == {"canceled", "deadline"}
ReadError == IF ctx = "live" THEN ReadErrors \cup TransportErrors ELSE {ctx}
ReadFailed == reads' = (IF ctx = "live" THEN reads + 1 ELSE reads) /\ UNCHANGED fresh

Preflight ==
  /\ pc = "preflight" /\ ctx = "live"
  /\ pc' = "catalog" /\ Read
  /\ plan' = planIssueEdit(intent, issue)
  /\ UNCHANGED <<intent, issue, edits, ctx, pass, confirmed, late, effects, endVars>>

PreflightFails ==
  /\ pc = "preflight"
  /\ \E err \in ReadError : Fail(err)
  /\ ReadFailed
  /\ UNCHANGED <<intent, issue, edits, ctx, confirmed, late, effects, transitioned>>

(* collectEditCatalogs: requested assignees must be assignable, and labels *)
(* that are to be added or removed must be the repository's, which may     *)
(* have more labels than resolveLabelIDs is ready to list.                 *)
neededAssignees == IF intent.assigneeMode \in {"set", "add"} THEN intent.assignees ELSE {}
neededLabelNames == UNION {w.labels : w \in plan}
CatalogComplete == neededAssignees \subseteq Assignable /\ neededLabelNames \subseteq RepoLabel
CatalogRead == neededAssignees # {} \/ neededLabelNames # {}
CatalogError ==
  IF ctx # "live" THEN {ctx}
  ELSE {"provider failure"} \cup TransportErrors
       \cup (IF CatalogComplete /\ neededLabelNames = {} THEN {} ELSE {"precondition"})

CatalogFails ==
  /\ pc = "catalog" /\ CatalogRead
  /\ \E err \in CatalogError : Fail(err)
  /\ UNCHANGED <<intent, issue, edits, ctx, confirmed, late, effects, reads, fresh, transitioned>>

CatalogFound ==
  /\ pc = "catalog" /\ (CatalogRead => ctx = "live" /\ CatalogComplete)
  /\ IF plan = {} THEN Succeed("no")
     ELSE pc' = "execute" /\ UNCHANGED <<pass, plan, endVars>>
  /\ UNCHANGED <<intent, issue, edits, ctx, confirmed, late, effects, reads, fresh>>

(* executeIssueEditPlan, one write at a time; invokeWrite looks at the     *)
(* context before the call and at the answer after it.                     *)
WriteConfirmed(w) ==
  /\ pc = "execute" /\ ctx = "live" /\ w \in Due
  /\ issue' = Apply(w, issue) /\ effects' = TRUE /\ confirmed' = TRUE
  /\ plan' = plan \ {w} /\ pc' = (IF plan' = {} THEN "final" ELSE "execute")
  /\ UNCHANGED <<intent, edits, ctx, pass, late, reads, fresh, endVars>>

(* The call failed or its answer was not what it should be: the write did  *)
(* not arrive, took effect, or is still on its way.                        *)
WriteUncertain(w) ==
  /\ pc = "execute" /\ ctx = "live" /\ w \in Due
  /\ \/ UNCHANGED <<issue, effects, late>>
     \/ issue' = Apply(w, issue) /\ effects' = TRUE /\ UNCHANGED late
     \/ late' = {w} /\ UNCHANGED <<issue, effects>>
  /\ pc' = "recover"
  /\ UNCHANGED <<intent, edits, ctx, pass, plan, confirmed, reads, fresh, endVars>>

ExecuteCancelled ==
  /\ pc = "execute" /\ ctx # "live"
  /\ Fail(classifyEditKnownFailure(ctx))
  /\ UNCHANGED <<intent, issue, edits, ctx, confirmed, late, effects, reads, fresh, transitioned>>

(* The final read of a pass: done, or one corrective plan, or given up.    *)
FinalSatisfied ==
  /\ pc = "final" /\ ctx = "live" /\ editSatisfied(intent, issue)
  /\ Read /\ Succeed("yes")
  /\ UNCHANGED <<intent, issue, edits, ctx, confirmed, late, effects>>

Correct ==
  /\ pc = "final" /\ ctx = "live" /\ pass = 1 /\ ~editSatisfied(intent, issue)
  /\ Read
  /\ pass' = 2 /\ plan' = planIssueEdit(intent, issue)
  /\ pc' = (IF plan' = {} THEN "final" ELSE "execute")
  /\ UNCHANGED <<intent, issue, edits, ctx, confirmed, late, effects, endVars>>

GiveUp ==
  /\ pc = "final" /\ ctx = "live" /\ pass = 2 /\ ~editSatisfied(intent, issue)
  /\ Read /\ Fail(classifyEditKnownFailure("precondition"))
  /\ UNCHANGED <<intent, issue, edits, ctx, confirmed, late, effects, transitioned>>

FinalFails ==
  /\ pc = "final"
  /\ \E err \in ReadError : Fail(classifyEditKnownFailure(err))
  /\ ReadFailed
  /\ UNCHANGED <<intent, issue, edits, ctx, confirmed, late, effects, transitioned>>

(* resolveIssueEditFailure after an uncertain write.                       *)
AnyIssue(r, i) == TRUE \* mutant: the read alone counts as success
RecoverySatisfied(r, i) == editSatisfied(r, i)
Recovered ==
  /\ pc = "recover" /\ ctx = "live" /\ RecoverySatisfied(intent, issue)
  /\ Read /\ Succeed("yes")
  /\ UNCHANGED <<intent, issue, edits, ctx, confirmed, late, effects>>

NotRecovered ==
  /\ pc = "recover"
  /\ Fail("unknown")
  /\ ReadFailed \/ (ctx = "live" /\ ~RecoverySatisfied(intent, issue) /\ Read)
  /\ UNCHANGED <<intent, issue, edits, ctx, confirmed, late, effects, transitioned>>

-----------------------------------------------------------------------------
(* Everybody else.                                                         *)

ContextEnds ==
  /\ pc # "returned" /\ ctx = "live"
  /\ ctx' \in {"canceled", "deadline"}
  /\ UNCHANGED <<intent, issue, edits, progress, confirmed, late, effects, reads, fresh, endVars>>

OthersEdit ==
  /\ edits < MaxEdits
  /\ edits' = edits + 1 /\ issue' \in Issue /\ fresh' = FALSE
  /\ UNCHANGED <<intent, ctx, progress, confirmed, late, effects, reads, endVars>>

LateWrite ==
  /\ \E w \in late : issue' = Apply(w, issue)
  /\ late' = {} /\ effects' = TRUE
  /\ UNCHANGED <<intent, edits, ctx, progress, confirmed, reads, fresh, endVars>>

Next ==
  \/ Preflight \/ PreflightFails \/ CatalogFails \/ CatalogFound
  \/ (\E w \in Due : WriteConfirmed(w) \/ WriteUncertain(w)) \/ ExecuteCancelled
  \/ FinalSatisfied \/ Correct \/ GiveUp \/ FinalFails \/ Recovered \/ NotRecovered
  \/ ContextEnds \/ OthersEdit \/ LateWrite
Spec == Init /\ [][Next]_vars

-----------------------------------------------------------------------------
(* Properties *)

(* What tea prints for an answer (reportExecutionError).                   *)
Diagnostic(err) ==
  CASE err = "issue kind" -> "use tea pulls"
    [] err = "partial" -> "partially applied"
    [] err \in {"unknown", "exhausted", "canceled", "deadline", "provider failure"} -> "outcome unknown"
    [] OTHER -> "failed"

Untouched == ~effects /\ late = {}

(* The user is not misled: a plain failure means that no write of the edit *)
(* took effect or ever will, "partially applied" that one did and that     *)
(* none is on its way; whatever is uncertain is called unknown.            *)
UserIsNotMisled ==
  answer \notin {"none", "ok"} =>
    /\ Diagnostic(answer) \in {"failed", "use tea pulls"} => Untouched
    /\ Diagnostic(answer) = "partially applied" => effects /\ late = {}

(* The audit record is not misled either: an edit recorded as cancelled,   *)
(* or as failed or completed without a transition, changed nothing, and    *)
(* one recorded as partial changed something.                              *)
AuditIsTruthful ==
  /\ audit = "cancelled" => Untouched
  /\ audit \in {"failed", "completed"} /\ transitioned # "yes" => Untouched
  /\ audit = "partial" => effects /\ late = {}

(* An edit that is answered with success holds at the provider until       *)
(* somebody else changes it: no write of the edit itself, however late it  *)
(* arrives, undoes it.                                                     *)
SuccessHolds == answer = "ok" /\ fresh => editSatisfied(intent, issue)

(* The first plan is enough: a corrective pass happens only because others *)
(* edited the issue between the preflight and the final read.              *)
PlanSuffices == pass = 2 => edits > 0

(* The issue is read three times at most, and no write is made while an    *)
(* earlier one of the same edit may still arrive.                          *)
BoundedCalls == reads <= 3 /\ (late # {} => pc \in {"recover", "returned"})

(* The writes of an edit leave alone what the request does not name: a     *)
(* body that was not asked for, assignees and labels that others put there *)
(* (all but those an exact replacement is to remove), and all of an issue  *)
(* whose text, assignees or labels were not asked for.                     *)
OnlyTheRequested ==
  [][edits' = edits =>
       /\ issue'.title # issue.title => intent.title # None \/ intent.body # None
       /\ issue'.body # issue.body => issue'.body = intent.body
       /\ \A u \in User : (u \in issue.assignees) # (u \in issue'.assignees) =>
            CASE intent.assigneeMode = "none" -> FALSE
              [] intent.assigneeMode = "set" -> u \in issue'.assignees <=> u \in intent.assignees
              [] OTHER -> u \in intent.assignees
       /\ \A l \in Label : (l \in issue.labels) # (l \in issue'.labels) => l \in intent.labels]_vars
=============================================================================
