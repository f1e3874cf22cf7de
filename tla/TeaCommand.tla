----------------------------- MODULE TeaCommand -----------------------------
(***************************************************************************)
(* internal/client/gitea, the restricted tea: which command lines it takes,  *)
(* the typed request it makes of one, which responses it agrees to print and *)
(* what it tells the user of a failure.                                      *)
(*                                                                          *)
(* A command is [group, alias, index, slug, body, flags, fault]: its group   *)
(* and subcommand, whether "issues" is spelled issue or i, the positional    *)
(* index (0 is every spelling parsePositive refuses) or slug, the positional *)
(* comment body (<<>> or <<text>>), the flags under their long names, and     *)
(* whether a flag is repeated, lacks its value or is written --flag=value.   *)
(* A text is [bytes, runes, kind], a time its order among the instants       *)
(* RFC 3339 can spell: negative for one it cannot.                           *)
(***************************************************************************)
EXTENDS Integers, Sequences, SequencesExt, FiniteSetsExt

Given(cmd, flag) == flag \in DOMAIN cmd.flags
Optional(cmd, flag, Valid(_)) == Given(cmd, flag) => Valid(cmd.flags[flag])
Needed(cmd, flag, Valid(_))   == Given(cmd, flag) /\ Valid(cmd.flags[flag])

FilterFlags == {"--keyword", "--author", "--assignee", "--mentions", "--owner"}
EditLists == {"--set-assignees", "--add-assignees", "--remove-assignees",
              "--add-labels", "--remove-labels"}
CsvFlags == EditLists \union {"--assignees", "--labels"}
TextFlags == FilterFlags \union {"--title", "--description"}

(* --- Values -------------------------------------------------------------- *)
maximumArgvBytes == 65536
maximumFilterBytes == 255
(* The flags are never repeated, so that 64 arguments are never exceeded.    *)
argvTexts(cmd) ==
  cmd.body \o FoldSet(LAMBDA f, s : s \o IF f \in CsvFlags THEN cmd.flags[f] ELSE <<cmd.flags[f]>>,
                      <<>>, DOMAIN cmd.flags \cap (TextFlags \union CsvFlags))
validateArgv(cmd) ==
  /\ FoldLeft(LAMBDA n, t : n + t.bytes, 0, argvTexts(cmd)) < maximumArgvBytes
  /\ \A t \in ToSet(argvTexts(cmd)) : t.kind \notin {"nul", "invalid"}

(* The two limits are 0 where there is none. *)
validateMutationText(t, allowEmpty, maximumBytes, maximumRunes) ==
  /\ allowEmpty \/ t.bytes > 0
  /\ t.kind \notin {"nul", "invalid"}
  /\ maximumBytes > 0 => t.bytes <= maximumBytes
  /\ maximumRunes > 0 => t.runes <= maximumRunes

parseUniqueCSV(ts) ==
  /\ Len(ts) \in 1..25 /\ IsInjective(ts)
  /\ \A t \in ToSet(ts) : validateMutationText(t, FALSE, 0, 255)
parseEditCSV(ts, allowEmpty) == (allowEmpty /\ ts = <<>>) \/ parseUniqueCSV(ts)

parsePositive(n, maximum) == n \in 1..maximum
maximumPage == 2147483647 \* int32's largest: int32(n) keeps every page parsed
parsePage(n) == parsePositive(n, maximumPage)
validateFilter(t) == t.bytes \in 1..maximumFilterBytes /\ t.kind \notin {"nul", "invalid"}
parseOutput(v) == v \in {"simple", "table", "json"}
parseState(v) == v \in {"open", "closed", "all"}
parseTime(t) == t >= 0

(* A repository: "granted", the same in other letters' case, another, one    *)
(* that ends in .git, or one that is no slug.                               *)
validPart(s) == s # "malformed"
parseSlug(s) == validPart(s) /\ s # "dotgit"
fold(s) == IF s = "GRANTED" THEN "granted" ELSE s

issueFieldDescriptors ==
  {"index", "state", "author", "author-id", "url", "title", "created", "updated",
   "deadline", "assignees", "milestone", "labels", "comments", "repo", "owner", "kind",
   "body"}
pullFieldDescriptors ==
  {"index", "state", "author", "author-id", "url", "title", "mergeable", "base",
   "base-commit", "head", "created", "updated", "deadline", "assignees", "milestone",
   "labels", "comments", "body"}
defaultIssueFields ==
  <<"index", "title", "state", "author", "milestone", "labels", "owner", "repo">>
defaultPullFields ==
  <<"index", "title", "state", "author", "milestone", "updated", "labels">>

parseIssueFields(fs) == Len(fs) > 0 /\ ToSet(fs) \subseteq issueFieldDescriptors /\ IsInjective(fs)
parsePullFields(fs)  == Len(fs) > 0 /\ ToSet(fs) \subseteq pullFieldDescriptors /\ IsInjective(fs)

(* --- Commands ------------------------------------------------------------ *)
takes(cmd, flags) ==
  /\ ~cmd.fault
  /\ DOMAIN cmd.flags \subseteq flags \union {"--repo", "--output"}
  /\ Needed(cmd, "--repo", parseSlug)
  /\ Optional(cmd, "--output", parseOutput)

(* The slug is given twice and must agree. *)
parseRepository(cmd) ==
  takes(cmd, {}) /\ parseSlug(cmd.slug) /\ fold(cmd.slug) = fold(cmd.flags["--repo"])

parseIssueList(cmd) ==
  /\ takes(cmd, FilterFlags \union {"--from", "--until", "--page", "--limit", "--state", "--fields"})
  /\ \A f \in FilterFlags : Optional(cmd, f, validateFilter)
  /\ Optional(cmd, "--from", parseTime) /\ Optional(cmd, "--until", parseTime)
  /\ (Given(cmd, "--from") /\ Given(cmd, "--until")) => cmd.flags["--from"] <= cmd.flags["--until"]
  /\ Optional(cmd, "--page", parsePage)
  /\ Optional(cmd, "--limit", LAMBDA n : parsePositive(n, 50))
  /\ Optional(cmd, "--state", parseState)
  /\ Optional(cmd, "--fields", parseIssueFields)

parseIssueView(cmd) == cmd.index > 0 /\ takes(cmd, {"--comments"})

title(t) == validateMutationText(t, FALSE, 0, 255)
description(t) == validateMutationText(t, TRUE, 65536, 0)

parseIssueCreate(cmd) ==
  /\ takes(cmd, {"--title", "--description", "--assignees", "--labels"})
  /\ Needed(cmd, "--title", title) /\ Optional(cmd, "--description", description)
  /\ Optional(cmd, "--assignees", parseUniqueCSV) /\ Optional(cmd, "--labels", parseUniqueCSV)

(* The body stands alone or after -d, never both. *)
commentBody(cmd) == IF Given(cmd, "--description") THEN Append(cmd.body, cmd.flags["--description"])
                    ELSE cmd.body
parseIssueComment(cmd) ==
  /\ cmd.index > 0 /\ takes(cmd, {"--description"})
  /\ Len(commentBody(cmd)) = 1
  /\ validateMutationText(commentBody(cmd)[1], FALSE, 65536, 0)

parseIssueState(cmd) == cmd.index > 0 /\ takes(cmd, {})

(* Every list is validated; then set wins over add, and add over remove.     *)
parseIssueEdit(cmd) ==
  /\ cmd.index > 0 /\ takes(cmd, EditLists \union {"--title", "--description"})
  /\ Optional(cmd, "--title", title) /\ Optional(cmd, "--description", description)
  /\ \A f \in EditLists : Optional(cmd, f, LAMBDA ts : parseEditCSV(ts, f = "--set-assignees"))
  /\ DOMAIN cmd.flags \cap (EditLists \union {"--title", "--description"}) # {}

parsePullList(cmd) ==
  /\ takes(cmd, {"--page", "--limit", "--state", "--fields"})
  /\ Optional(cmd, "--page", parsePage)
  /\ Optional(cmd, "--limit", LAMBDA n : parsePositive(n, 50))
  /\ Optional(cmd, "--state", parseState)
  /\ Optional(cmd, "--fields", parsePullFields)

parsePullView(cmd) == cmd.index > 0 /\ takes(cmd, {"--comments"})

(* parseIssues: the short spellings of issues do not change anything. *)
parseIssues(cmd) ==
  CASE cmd.group = "issues list"   -> parseIssueList(cmd)
    [] cmd.group = "issues view"   -> parseIssueView(cmd)
    [] cmd.group = "issues create" -> ~cmd.alias /\ parseIssueCreate(cmd)
    [] cmd.group = "issues edit"   -> ~cmd.alias /\ parseIssueEdit(cmd)
    [] cmd.group \in {"issues close", "issues reopen"} -> ~cmd.alias /\ parseIssueState(cmd)
    [] OTHER -> FALSE

parsePulls(cmd) ==
  CASE cmd.group = "pulls list" -> parsePullList(cmd)
    [] cmd.group = "pulls view" -> parsePullView(cmd)
    [] OTHER -> FALSE

Parse(cmd) ==
  /\ validateArgv(cmd)
  /\ CASE cmd.group = "repos"   -> parseRepository(cmd)
       [] cmd.group = "comment" -> parseIssueComment(cmd)
       [] OTHER -> parseIssues(cmd) \/ parsePulls(cmd)

operation(cmd) ==
  CASE cmd.group = "repos"         -> "repository_view"
    [] cmd.group = "issues list"   -> "issue_list"
    [] cmd.group = "issues view"   -> "issue_view"
    [] cmd.group = "issues create" -> "issue_create"
    [] cmd.group = "issues edit"   -> "issue_edit"
    [] cmd.group = "issues close"  -> "issue_close"
    [] cmd.group = "issues reopen" -> "issue_reopen"
    [] cmd.group = "comment"       -> "issue_comment"
    [] cmd.group = "pulls list"    -> "pull_list"
    [] OTHER                       -> "pull_view"

(* command.mutation *)
mutates(cmd) == operation(cmd) \in {"issue_create", "issue_edit", "issue_close", "issue_reopen",
                                    "issue_comment"}

listed(cmd, default) == IF Given(cmd, "--fields") THEN cmd.flags["--fields"] ELSE default

(* The lists an edit sends instead of one; the winning list, under its      *)
(* flag's name.                                                              *)
beats(f) == CASE f = "--add-assignees" -> {"--set-assignees"}
              [] f = "--remove-assignees" -> {"--set-assignees", "--add-assignees"}
              [] f = "--remove-labels" -> {"--add-labels"}
              [] OTHER -> {}
winners(cmd) == {f \in EditLists \cap DOMAIN cmd.flags : beats(f) \cap DOMAIN cmd.flags = {}}

(* Where the parsers of the two lists start from. *)
parserDefault(a) == CASE a = "--page" -> 1 [] a = "--limit" -> 30 [] a = "--state" -> "open"

(* The typed request of a command that parses: the fields that are present,  *)
(* under the flags' names, with the parsers' defaults.                       *)
requestFor(cmd) ==
  LET op == operation(cmd)
      sent == ((DOMAIN cmd.flags \ {"--repo", "--output"}) \ EditLists) \union winners(cmd)
      defaults == IF op \in {"issue_list", "pull_list"}
                  THEN {"--page", "--limit", "--state", "--fields"} ELSE {}
      body == IF op = "issue_comment" THEN {"--description"} ELSE {}
  IN  [op |-> op, index |-> cmd.index, repository |-> fold(cmd.flags["--repo"]),
       args |-> [a \in sent \union defaults \union body |->
                   IF a = "--fields" THEN listed(cmd, IF op = "issue_list" THEN defaultIssueFields
                                                      ELSE defaultPullFields)
                   ELSE IF op = "issue_comment" THEN commentBody(cmd)[1]
                   ELSE IF a \in sent THEN cmd.flags[a]
                   ELSE parserDefault(a)]]

(* --- Responses ----------------------------------------------------------- *)
(* A flaw is <<record, field>>: where a value cannot be printed, or is not   *)
(* what it should be.  has are the fields the service filled in; the others  *)
(* are the zero value, which some fields may not be.                         *)
maximumIssueComments == 1000
maximumPullItems == 1000

issueFieldValue(f, has, flaw) ==
  /\ flaw # <<"issue", f>>
  /\ f \in {"author", "author-id", "url", "title", "created", "updated", "repo", "owner"} => f \in has

validateProjectedIssue(fields, has, flaw) ==
  /\ \A f \in fields \union {"index", "state", "kind"} : issueFieldValue(f, has, flaw)
  /\ {"created", "updated"} \subseteq fields => flaw # <<"issue", "order">>

commentFields(flaw) ==
  flaw \notin {<<"comment", f>> : f \in {"id", "author-id", "author", "url", "body", "created",
                                         "updated", "order"}}

(* The comments must be there exactly when they are asked for, all of them,  *)
(* in the order of their numbers.                                            *)
wholeComments(requested, count, comments, maximum) ==
  /\ Len(comments) <= maximum
  /\ IF requested THEN count = Len(comments) ELSE comments = <<>>
  /\ \A i \in 2..Len(comments) : comments[i - 1] < comments[i]

validateIssueRecord(requested, has, flaw, count, comments) ==
  /\ validateProjectedIssue(issueFieldDescriptors, has, flaw) /\ commentFields(flaw)
  /\ wholeComments(requested, count, comments, maximumIssueComments)

pullFieldValue(f, has, flaw) ==
  /\ flaw # <<"pull", f>>
  /\ f \in {"author", "author-id", "url", "title", "base", "base-commit", "head", "created",
            "updated"} => f \in has

validateProjectedPull(fields, has, flaw) ==
  /\ \A f \in fields \union {"index", "state"} : pullFieldValue(f, has, flaw)
  /\ {"created", "updated"} \subseteq fields => flaw # <<"pull", "order">>

(* A name is written with Go's quoting, which is not JSON's for a control    *)
(* character: json.Marshal then refuses it.                                  *)
reviewActorFields(flaw) ==
  flaw \notin {<<"actor", f>> : f \in {"none", "id", "name"}}
renderedActors(flaw) == reviewActorFields(flaw) /\ flaw # <<"actor", "control">>

pullReviewFields(flaw) ==
  /\ flaw \notin {<<"review", f>> : f \in {"id", "count", "body", "commit", "url", "submitted", "state"}}
  /\ flaw \notin {<<"reviewer", f>> : f \in {"none", "id", "name", "control"}}

validatePullRecord(requested, has, flaw, count, comments, reviews) ==
  /\ validateProjectedPull(pullFieldDescriptors, has, flaw) /\ commentFields(flaw)
  /\ wholeComments(requested, count, comments, maximumPullItems)
  /\ Len(reviews) <= maximumPullItems
  /\ \A i \in 2..Len(reviews) : reviews[i - 1] < reviews[i]
  /\ reviewActorFields(flaw) /\ pullReviewFields(flaw)

renderRepository(flaw) == flaw \notin {<<"repository", f>> : f \in {"created", "updated", "range"}}

(* A listed record is not hydrated. *)
renderIssueList(cmd, r) ==
  /\ r.size <= r.limit /\ r.comments = <<>>
  /\ r.size > 0 =>
       validateProjectedIssue(ToSet(listed(cmd, defaultIssueFields)), r.has, r.flaw)

renderPullList(cmd, r) ==
  /\ r.size <= r.limit /\ r.comments = <<>> /\ r.reviews = <<>> /\ ~r.hydrated
  /\ r.size > 0 => validateProjectedPull(ToSet(listed(cmd, defaultPullFields)), r.has, r.flaw)

renderIssueView(cmd, r) ==
  validateIssueRecord(Given(cmd, "--comments"), r.has, r.flaw, r.count, r.comments)

(* The simple format prints the requested reviewers without marshalling.     *)
renderPullView(cmd, r) ==
  /\ r.index = cmd.index
  /\ validatePullRecord(Given(cmd, "--comments"), r.has, r.flaw, r.count, r.comments, r.reviews)
  /\ Given(cmd, "--output") /\ cmd.flags["--output"] # "simple" => renderedActors(r.flaw)

renderIssueMutation(r) == validateIssueRecord(FALSE, r.has, r.flaw, r.count, r.comments)
renderCommentMutation(r) == commentFields(r.flaw)

(* The result's branch must be that of the request. *)
render(cmd, r) ==
  /\ r.op = operation(cmd)
  /\ CASE r.op = "repository_view" -> renderRepository(r.flaw)
       [] r.op = "issue_list"      -> renderIssueList(cmd, r)
       [] r.op = "issue_view"      -> renderIssueView(cmd, r)
       [] r.op = "issue_comment"   -> renderCommentMutation(r)
       [] r.op = "pull_list"       -> renderPullList(cmd, r)
       [] r.op = "pull_view"       -> renderPullView(cmd, r)
       [] OTHER                    -> renderIssueMutation(r)
=============================================================================
