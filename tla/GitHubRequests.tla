--------------------------- MODULE GitHubRequests ---------------------------
(***************************************************************************)
(* internal/provider/github without its calls: which typed requests are      *)
(* valid, which capability each needs, which provider endpoint serves it     *)
(* within which output limit, and what a provider response must contain to   *)
(* become a record.  A request is [op, number, comments, repository, args];  *)
(* args is a function from the fields present to their values (texts as in   *)
(* GhCommand, label lists as sequences of texts).                           *)
(***************************************************************************)
EXTENDS Integers, Sequences, SequencesExt, Paging

IssueWrites == {"issue_create", "issue_edit", "issue_comment", "issue_close",
                "issue_reopen", "issue_label_change"}
PullWrites  == {"pull_create", "pull_edit", "pull_comment", "pull_close",
                "pull_reopen", "pull_ready"}
Writes == IssueWrites \union PullWrites \union {"label_create"}
Reads == {"current_user", "repository_view", "label_list", "issue_list", "issue_view",
          "pull_list", "pull_view", "pull_checks", "run_list", "run_view", "status_view"}

(* Capability (and OperationName, which names the same operations "github."). *)
Capability(op) ==
  CASE op \in {"current_user", "repository_view"} -> "repository:read"
    [] op \in {"label_list", "issue_list", "issue_view"} -> "issues:read"
    [] op \in IssueWrites \union {"label_create"} -> "issues:write"
    [] op \in {"pull_list", "pull_view"} -> "pull_requests:read"
    [] op \in PullWrites -> "pull_requests:write"
    [] op \in {"pull_checks", "status_view"} -> "statuses:read"
    [] op \in {"run_list", "run_view"} -> "actions:read"

(* --- Validation ---------------------------------------------------------- *)
number(n) == n # 0
limit(n, maximum) == n \in 1..maximum
title(t) == t.bytes \in 1..256 /\ t.kind # "invalid"
body(t, required) == (required => t.bytes # 0) /\ t.bytes <= 65536 /\ t.kind # "invalid"
name(t, required) ==
  (required => t.bytes # 0) /\ t.bytes <= 255 /\ t.kind \notin {"invalid", "space", "nul"}
labels(ls) ==
  /\ Len(ls) <= 100
  /\ \A i \in DOMAIN ls : ls[i].bytes \in 1..255 /\ ls[i].kind \notin {"invalid", "nul"}
labelCreateName(t) == t.bytes # 0 /\ t.runes <= 50 /\ t.kind \notin {"invalid", "control", "nul"}
labelDescription(t) == t.runes <= 100 /\ t.kind \notin {"invalid", "nul"}
labelColor(t) == t.bytes = 6 /\ t.kind = "plain"
objectID(t) == t.bytes \in {40, 64} /\ t.kind = "plain"

Numbered == {"issue_view", "issue_edit", "issue_comment", "issue_close", "issue_reopen",
             "issue_label_change", "pull_view", "pull_edit", "pull_comment",
             "pull_close", "pull_reopen", "pull_ready", "pull_checks", "run_view"}

(* Fields without presence: left out they are the zero value, which each     *)
(* validator below refuses.                                                 *)
Mandatory(op) ==
  CASE op \in {"issue_list", "pull_list"} -> {"limit", "state"}
    [] op \in {"label_list", "run_list"} -> {"limit"}
    [] op = "issue_create" -> {"title"}
    [] op \in {"issue_comment", "pull_comment"} -> {"body"}
    [] op = "pull_create" -> {"title", "head", "base"}
    [] op = "label_create" -> {"name", "description", "color"}
    [] op = "status_view" -> {"object"}
    [] OTHER -> {}

validArg(op, arg, v) ==
  CASE arg = "title" -> title(v)
    [] arg = "body" -> body(v, op \in {"issue_comment", "pull_comment"})
    [] arg \in {"base", "head"} -> name(v, op # "pull_list")
    [] arg = "branch" -> name(v, FALSE)
    [] arg = "name" -> labelCreateName(v)
    [] arg = "description" -> labelDescription(v)
    [] arg = "color" -> labelColor(v)
    [] arg = "object" -> objectID(v)
    [] arg \in {"labels", "add", "remove"} -> labels(v)
    [] arg = "state" -> v \in {"open", "closed", "all"}
    [] arg = "status" -> v = "known"
    [] arg = "limit" -> limit(v, CASE op = "issue_list" -> 1001
                                   [] op = "label_list" -> 1000
                                   [] OTHER -> 100)
    [] OTHER -> TRUE

Arg(req, a) == IF a \in DOMAIN req.args THEN req.args[a] ELSE <<>>

validateIssueLabelChange(req) ==
  LET changes == Arg(req, "add") \o Arg(req, "remove")
  IN  Len(changes) > 0 /\ IsInjective(changes)

ValidateGitHubRequest(req) ==
  /\ req.op \in Reads \union Writes
  /\ req.op \in Numbered => number(req.number)
  /\ Mandatory(req.op) \subseteq DOMAIN req.args
  /\ \A a \in DOMAIN req.args : validArg(req.op, a, req.args[a])
  /\ req.op = "issue_edit" =>
       DOMAIN req.args \cap {"title", "body", "labels", "assignees"} # {}
  /\ req.op = "pull_edit" => DOMAIN req.args \cap {"title", "body", "base"} # {}
  /\ req.op = "issue_label_change" => validateIssueLabelChange(req)

\* mutant: a comment on a pull request is posted without looking at it
requiresPreflightIssuesOnly(op) ==
  op \in {"issue_edit", "issue_comment", "issue_close", "issue_reopen"}

(* --- The provider commands ----------------------------------------------- *)
requiresPreflight(op) ==
  op \in {"issue_edit", "issue_comment", "issue_close", "issue_reopen", "pull_comment"}

(* The resource a preflight reads, and the one a write of plan is sent to.   *)
PreflightResource(op) == IF op = "pull_comment" THEN "pulls" ELSE "issues"

WriteResource(op) ==
  CASE op \in {"issue_create", "issue_edit", "issue_close", "issue_reopen",
               "issue_label_change"} -> "issues"
    [] op \in {"issue_comment", "pull_comment"} -> "issues/comments"
    [] op \in {"pull_create", "pull_edit", "pull_close", "pull_reopen"} -> "pulls"
    [] op = "pull_ready" -> "pr/ready"
    [] op = "label_create" -> "labels"

normalizer(op) ==
  CASE op = "current_user" -> "current_user"
    [] op = "repository_view" -> "repository"
    [] op = "label_create" -> "label_create"
    [] op \in {"issue_view", "issue_create", "issue_edit", "issue_close",
               "issue_reopen", "issue_label_change"} -> "issue"
    [] op \in {"issue_comment", "pull_comment"} -> "comment"
    [] op \in {"pull_view", "pull_create", "pull_edit", "pull_close", "pull_reopen",
               "pull_ready"} -> "pull"
    [] op = "run_view" -> "run"
    [] op = "status_view" -> "status"
    [] op = "pull_list" -> "pull_list"
    [] op = "run_list" -> "run_list"
    [] op = "issue_list" -> "issue_graphql"
    [] op = "label_list" -> "label"
    [] op = "pull_checks" -> "check"

(* In MiB. *)
maximumMutationBytes == 4
maximumPaginatedReadBytes == 8
maximumResponseBytes == 1

outputLimit(kind) ==
  CASE kind \in {"repository", "current_user"} -> 1
    [] kind = "label_create" -> maximumMutationBytes
    [] kind \in {"issue", "pull", "comment", "run"} -> 2
    [] OTHER -> 8

(* --- Normalisation ------------------------------------------------------- *)
(* The fields of a provider object without which it is no record; a field    *)
(* that may be null must still be there.                                    *)
repositoryRecord == {"name", "owner", "full_name", "private", "html_url",
                     "default_branch", "ssh_url"}
issueRecord == {"number", "title", "body", "state", "user", "assignees", "labels",
                "html_url", "created_at", "updated_at"}
graphQLIssueRecord == {"number", "title", "body", "state", "author", "labels",
                       "createdAt", "updatedAt", "url"}
commentRecord == {"id", "user", "body", "html_url", "created_at", "updated_at"}
pullRecord == {"number", "title", "body", "state", "draft", "user", "head", "base",
               "html_url", "created_at", "updated_at"}
runRecord(details) ==
  {"id", "display_title", "name", "status", "event", "head_branch", "head_sha",
   "html_url", "created_at", "updated_at"} \union
  (IF details THEN {"run_attempt", "jobs_url"} ELSE {})
statusSummary == {"state", "sha", "statuses"}
checkRecord == {"name", "status"}
labelRecord == {"name"}
currentUserResponse == {"login"}

Required(kind) ==
  CASE kind = "current_user" -> currentUserResponse
    [] kind = "repository" -> repositoryRecord
    [] kind \in {"label_create", "label"} -> labelRecord
    [] kind = "issue" -> issueRecord
    [] kind = "issue_graphql" -> graphQLIssueRecord
    [] kind = "comment" -> commentRecord
    [] kind \in {"pull", "pull_list"} -> pullRecord
    [] kind \in {"run", "run_list"} -> runRecord(kind = "run")
    [] kind = "status" -> statusSummary
    [] kind = "check" -> checkRecord

OptionalFields(kind) ==
  CASE kind = "repository" -> {"description"}
    [] kind = "pull" -> {"mergeable_state"}
    [] kind \in {"run", "run_list"} -> {"conclusion"}
    [] kind = "check" -> {"conclusion", "details_url", "output", "started_at",
                          "completed_at"}
    [] OTHER -> {}

(* The record's fields as the client's JSON names them: camelCaseKeys of the *)
(* typed record, and githubJSONShape's "name" of a repository.               *)
recordFields(kind) ==
  CASE kind = "current_user" -> {"login"}
    [] kind = "repository" -> {"repository", "name", "owner", "nameWithOwner",
         "description", "private", "url", "defaultBranch", "sshUrl"}
    [] kind \in {"label_create", "label"} -> {"name"}
    [] kind = "issue" -> {"number", "title", "body", "state", "author", "assignees",
         "labels", "url", "createdAt", "updatedAt", "comments"}
    [] kind = "issue_graphql" -> {"number", "title", "body", "state", "author",
         "labels", "url", "createdAt", "updatedAt"}
    [] kind = "comment" -> {"id", "author", "body", "url", "createdAt", "updatedAt"}
    [] kind = "pull_list" -> {"number", "title", "body", "state", "draft", "author",
         "head", "base", "headObjectId", "url", "createdAt", "updatedAt"}
    [] kind = "pull" -> {"number", "title", "body", "state", "draft", "author", "head",
         "base", "headObjectId", "url", "createdAt", "updatedAt", "mergeableState"}
    [] kind = "run_list" -> {"id", "name", "workflowName", "status", "conclusion",
         "event", "headBranch", "headObjectId", "url", "createdAt", "updatedAt"}
    [] kind = "run" -> {"id", "name", "workflowName", "status", "conclusion", "event",
         "headBranch", "headObjectId", "url", "createdAt", "updatedAt", "attempt",
         "jobsUrl"}
    [] kind = "status" -> {"state", "objectId", "statuses"}
    [] kind = "check" -> {"name", "state", "conclusion", "detailsUrl", "description",
         "startedAt", "completedAt"}

(* A response is refused (an error that no sentinel names) when it is not one *)
(* JSON value of valid UTF-8, lacks a required field, or answers about       *)
(* something else than was asked (another repository, another label's name). *)
normalizes(kind, lacks, wellFormed, aboutIt) ==
  /\ wellFormed
  /\ lacks \notin Required(kind)
  /\ kind \in {"repository", "label_create"} => aboutIt

\* mutant: the labels to add replace the issue's labels
changedLabelsReplaced(current, add, remove) == add

(* changedLabels: refused when the provider names a label twice or the result *)
(* is longer than LabelLimit.                                               *)
changedLabels(current, add, remove) ==
  Without(current, ToSet(remove)) \o Without(add, ToSet(current))
=============================================================================
