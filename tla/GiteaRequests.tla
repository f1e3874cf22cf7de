--------------------------- MODULE GiteaRequests ---------------------------
(***************************************************************************)
(* internal/provider/gitea without its calls: which typed requests are       *)
(* valid, which capability each needs, which provider objects are taken for   *)
(* what they claim to be, and which fields of them a record carries.  A      *)
(* request is [op, index, repository, args] as TeaCommand makes it; a flaw   *)
(* <<object, field>> is what is wrong with a provider object.                *)
(***************************************************************************)
EXTENDS Integers, Sequences, SequencesExt

Writes == {"issue_create", "issue_comment", "issue_close", "issue_reopen", "issue_edit"}
Operations == Writes \union {"repository_view", "issue_list", "issue_view", "pull_list", "pull_view"}

(* --- Validation ---------------------------------------------------------- *)
validMutationText(t, allowEmpty, maxBytes, maxRunes) ==
  /\ allowEmpty \/ t.bytes > 0
  /\ t.kind \notin {"nul", "invalid"}
  /\ maxBytes > 0 => t.bytes <= maxBytes
  /\ maxRunes > 0 => t.runes <= maxRunes

\* mutant: the service counts the bytes of a label or a name, the client its runes
validMutationListBytes(ts) ==
  /\ Len(ts) <= 25 /\ IsInjective(ts)
  /\ \A t \in ToSet(ts) : validMutationText(t, FALSE, 255, 0)

validMutationList(ts) ==
  /\ Len(ts) <= 25 /\ IsInjective(ts)
  /\ \A t \in ToSet(ts) : validMutationText(t, FALSE, 0, 255)

has(r, a) == a \in DOMAIN r.args
holds(r, a, Valid(_)) == has(r, a) => Valid(r.args[a])

(* timestamppb's range: year 1 to year 9999, while RFC 3339 spells year 0    *)
(* and, with an offset, the first hours of year 10000.                       *)
FirstTime == 1
LastTime == 9
validTimestamp(t) == t \in FirstTime..LastTime

title(t) == validMutationText(t, FALSE, 0, 255)
description(t) == validMutationText(t, TRUE, 65536, 0)

validateIssueCreate(r) ==
  /\ has(r, "--title") /\ title(r.args["--title"])
  /\ holds(r, "--description", description)
  /\ holds(r, "--assignees", validMutationList) /\ holds(r, "--labels", validMutationList)

validateIssueEdit(r) ==
  /\ r.index > 0 /\ DOMAIN r.args # {}
  /\ holds(r, "--title", title) /\ holds(r, "--description", description)
  /\ holds(r, "--set-assignees", validMutationList)
  /\ \A a \in {"--add-assignees", "--remove-assignees", "--add-labels", "--remove-labels"} :
       holds(r, a, LAMBDA ts : ts # <<>> /\ validMutationList(ts))

validListing(r, fields) ==
  /\ r.args["--state"] \in {"open", "closed", "all"}
  /\ r.args["--page"] > 0 /\ r.args["--limit"] \in 1..50
  /\ Len(r.args["--fields"]) > 0 /\ IsInjective(r.args["--fields"])
  /\ ToSet(r.args["--fields"]) \subseteq fields

allIssueFields ==
  {"index", "state", "author", "author-id", "url", "title", "body", "created", "updated",
   "deadline", "assignees", "milestone", "labels", "comments", "repo", "owner", "kind"}
allPullFields ==
  {"index", "state", "author", "author-id", "url", "title", "body", "mergeable", "base",
   "base-commit", "head", "created", "updated", "deadline", "assignees", "milestone",
   "labels", "comments"}

validateIssueList(r) ==
  /\ validListing(r, allIssueFields)
  /\ \A a \in {"--keyword", "--author", "--assignee", "--mentions", "--owner"} :
       holds(r, a, LAMBDA t : t.bytes \in 1..255 /\ t.kind \notin {"nul", "invalid"})
  /\ holds(r, "--from", validTimestamp) /\ holds(r, "--until", validTimestamp)
  /\ (has(r, "--from") /\ has(r, "--until")) => r.args["--from"] <= r.args["--until"]

validatePullList(r) == validListing(r, allPullFields)

ValidateRequest(r) ==
  CASE r.op = "repository_view" -> TRUE
    [] r.op = "issue_list"   -> validateIssueList(r)
    [] r.op = "pull_list"    -> validatePullList(r)
    [] r.op = "issue_create" -> validateIssueCreate(r)
    [] r.op = "issue_edit"   -> validateIssueEdit(r)
    [] r.op = "issue_comment" ->
         r.index > 0 /\ validMutationText(r.args["--description"], FALSE, 65536, 0)
    [] r.op \in {"issue_view", "pull_view", "issue_close", "issue_reopen"} -> r.index > 0

Capability(op) ==
  CASE op = "repository_view" -> "repository:read"
    [] op \in {"issue_list", "issue_view"} -> "issues:read"
    [] op \in Writes -> "issues:write"
    [] op \in {"pull_list", "pull_view"} -> "pull_requests:read"

(* giteaSelector: the grammar of the configuration, which is the client's.   *)
giteaSelector(r) == r.repository \notin {"malformed", "dotgit"}

(* --- Provider objects ---------------------------------------------------- *)
Flaws(object, fields) == {<<object, f>> : f \in fields}
NoFlaw == <<"none", "none">>

(* What the provider may send that is not as it should be; "control" and     *)
(* "range" are odd but nowhere refused by the adapter.                       *)
IssueFlaws == Flaws("issue", (allIssueFields \ {"kind"}) \union {"nil", "order"})
CommentFlaws == Flaws("comment", {"nil", "id", "author-id", "author", "url", "body", "created",
                                  "updated", "order"})
PullFlaws == Flaws("pull", (allPullFields) \union {"nil", "order", "repository", "presence"})
ActorFlaws(object) == Flaws(object, {"none", "id", "name", "control"})
ReviewFlaws == Flaws("review", {"nil", "id", "count", "body", "commit", "url", "submitted", "state"})
                 \union ActorFlaws("reviewer")
RepositoryFlaws == Flaws("repository", {"nil", "name", "url", "created", "updated", "order",
                                        "counts", "text", "range"})

(* normalizeIssue refuses a pull request and every flaw there can be. *)
normalizeIssue(kind, flaw) == kind = "issue" /\ flaw \notin IssueFlaws

normalizeComment(flaw) == flaw \notin CommentFlaws

normalizeReviewActor(object, flaw) == flaw \notin ActorFlaws(object) \ {<<object, "control">>}

(* The comment a write returns must belong to the issue it was written for.  *)
commentURLMatches(urls) == urls \in {"ours", "ours_no_issue"}
normalizeIssueMutationComment(urls, flaw) == commentURLMatches(urls) /\ normalizeComment(flaw)

normalizePullReview(flaw) ==
  /\ flaw \notin Flaws("review", {"nil", "id", "count", "body", "commit", "url", "submitted", "state"})
  /\ normalizeReviewActor("reviewer", flaw)

validateRepository(flaw) == flaw \notin RepositoryFlaws \ {<<"repository", "range">>}

(* --- What Gitea said and the SDK decodes away ---------------------------- *)
(* A raw pull request names its number and its two optional booleans each    *)
(* any number of times; a value is "true", "false" or "null".  The SDK turns  *)
(* what is absent or null into FALSE and lets the last one win.              *)
decodeOptionalBool(values) ==
  IF values = <<>> \/ values = <<"null">> THEN "absent" ELSE values[1]
decodePullPresenceObject(raw) ==
  raw.numbers = 1 /\ Len(raw.mergeable) <= 1 /\ Len(raw.maintainer) <= 1
sdkBool(values) == values # <<>> /\ Last(values) = "true"

(* normalizePull: the raw values must agree with the decoded ones. *)
presenceAgrees(values) ==
  LET raw == decodeOptionalBool(values)
  IN  IF raw = "absent" THEN ~sdkBool(values) ELSE (raw = "true") = sdkBool(values)

normalizePull(raw, flaw) ==
  /\ flaw \notin PullFlaws /\ normalizeReviewActor("actor", flaw)
  /\ presenceAgrees(raw.mergeable) /\ presenceAgrees(raw.maintainer)

(* --- Records ------------------------------------------------------------- *)
projectIssue(fields) == {"index", "state", "kind"} \union fields
projectPull(fields) == {"index", "state"} \union fields
projectPullDetail == allPullFields
=============================================================================
