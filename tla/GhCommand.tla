----------------------------- MODULE GhCommand -----------------------------
(***************************************************************************)
(* internal/client/github, the restricted gh: which command lines it takes, *)
(* the typed request it makes of one, and the JSON fields it offers.        *)
(*                                                                          *)
(* A command is [words, number, text, flags, fault, origin]: its two command *)
(* words, the positional number (0 stands for every spelling that           *)
(* positiveDecimal refuses) or text, the flags given, as a function from    *)
(* flag to value, whether some flag is repeated, lacks its value, is         *)
(* written --flag=value or is followed by a stray argument, and what the     *)
(* origin remote of the working directory names.  A text is its length in    *)
(* bytes and in runes, and the kind of character that tells the validators  *)
(* apart: "plain", "space", "control", "nul" or "invalid" (not UTF-8).      *)
(***************************************************************************)
EXTENDS Integers, Sequences, SequencesExt, FiniteSetsExt

TextFlags == {"--title", "--body", "--base", "--head", "--branch", "--color",
              "--description"}
ListFlags == {"--label", "--add-label", "--remove-label"}

(* operationKind, by command words; an edit of labels is its own operation. *)
operationKind(cmd) ==
  CASE cmd.words \in {"auth status", "api user"} -> "current_user"
    [] cmd.words = "repo view"     -> "repository_view"
    [] cmd.words = "issue edit"    ->
         IF DOMAIN cmd.flags \cap {"--add-label", "--remove-label"} # {}
         THEN "issue_label_change" ELSE "issue_edit"
    [] cmd.words = "issue list"    -> "issue_list"
    [] cmd.words = "issue view"    -> "issue_view"
    [] cmd.words = "issue create"  -> "issue_create"
    [] cmd.words = "issue comment" -> "issue_comment"
    [] cmd.words = "issue close"   -> "issue_close"
    [] cmd.words = "issue reopen"  -> "issue_reopen"
    [] cmd.words = "label list"    -> "label_list"
    [] cmd.words = "label create"  -> "label_create"
    [] cmd.words = "pr list"       -> "pull_list"
    [] cmd.words = "pr view"       -> "pull_view"
    [] cmd.words = "pr create"     -> "pull_create"
    [] cmd.words = "pr edit"       -> "pull_edit"
    [] cmd.words = "pr comment"    -> "pull_comment"
    [] cmd.words = "pr close"      -> "pull_close"
    [] cmd.words = "pr reopen"     -> "pull_reopen"
    [] cmd.words = "pr ready"      -> "pull_ready"
    [] cmd.words = "pr checks"     -> "pull_checks"
    [] cmd.words = "run list"      -> "run_list"
    [] cmd.words = "run view"      -> "run_view"
    [] cmd.words = "status get"    -> "status_view"
    [] OTHER                       -> "unknown"

(* operationFlags: --repo and --json everywhere but in the two identity      *)
(* commands, which take no flag at all.                                     *)
operationFlags(words) ==
  IF words \in {"auth status", "api user"} THEN {}
  ELSE {"--repo", "--json"} \union
       CASE words = "issue list"    -> {"--state", "--limit"}
         [] words = "issue create"  -> {"--title", "--body", "--label"}
         [] words = "issue edit"    -> {"--title", "--body", "--add-label", "--remove-label"}
         [] words \in {"issue comment", "pr comment"} -> {"--body"}
         [] words = "label list"    -> {"--limit"}
         [] words = "label create"  -> {"--color", "--description"}
         [] words = "pr list"       -> {"--state", "--base", "--head", "--limit"}
         [] words = "pr create"     -> {"--head", "--base", "--title", "--body", "--draft"}
         [] words = "pr edit"       -> {"--title", "--body", "--body-file", "--base"}
         [] words = "run list"      -> {"--branch", "--status", "--limit"}
         [] OTHER                   -> {}

parseFlags(cmd) == ~cmd.fault /\ DOMAIN cmd.flags \subseteq operationFlags(cmd.words)

Given(cmd, flag) == flag \in DOMAIN cmd.flags

(* The texts of the command line.  The argv limit holds for all together with *)
(* the words and the flags' names, which take more than a byte.             *)
ArgvTexts(cmd) ==
  <<cmd.text>> \o
  FoldSet(LAMBDA f, s : s \o IF f \in ListFlags THEN cmd.flags[f] ELSE <<cmd.flags[f]>>,
          <<>>, DOMAIN cmd.flags \cap (TextFlags \union ListFlags))

validateArgv(cmd) ==
  /\ FoldLeft(LAMBDA n, t : n + t.bytes, 0, ArgvTexts(cmd)) < 65536
  /\ \A t \in ToSet(ArgvTexts(cmd)) : t.kind \notin {"nul", "invalid"}

\* mutant: the client allows a title one byte too long
validTitleLong(t) == t.bytes \in 1..257 /\ t.kind # "invalid"

validTitle(t) == t.bytes \in 1..256 /\ t.kind # "invalid"
validBody(t, required) == (required => t.bytes # 0) /\ t.bytes <= 65536 /\ t.kind # "invalid"
validName(t, required) ==
  (required => t.bytes # 0) /\ t.bytes <= 255 /\ t.kind \notin {"invalid", "space", "nul"}
validLabelName(t) == t.bytes # 0 /\ t.runes <= 50 /\ t.kind \notin {"invalid", "nul"}
validLabelColor(t) == t.bytes = 6 /\ t.kind = "plain"
validLabelDescription(t) == t.runes <= 100 /\ t.kind \notin {"invalid", "nul"}
validObjectID(t) == t.bytes \in {40, 64} /\ t.kind = "plain"

labelCSV(ls) ==
  /\ Len(ls) \in 1..100
  /\ \A l \in ToSet(ls) : l.bytes \in 1..255 /\ l.kind \notin {"invalid", "nul"}
  /\ IsInjective(ls)

listLimit(n, maximum) == n \in 1..maximum

(* readBodyFile: a regular file (never a link) of at most 64 KiB of UTF-8.  *)
readBodyFile(file) == file.regular /\ file.text.bytes <= 65536 /\ file.text.kind # "invalid"

Optional(cmd, flag, Valid(_)) == Given(cmd, flag) => Valid(cmd.flags[flag])
Needed(cmd, flag, Valid(_))   == Given(cmd, flag) /\ Valid(cmd.flags[flag])

(* What each parser asks of its flags besides their being known. *)
optionalName(t) == validName(t, FALSE)
requiredName(t) == validName(t, TRUE)
optionalBody(t) == validBody(t, FALSE)
requiredBody(t) == validBody(t, TRUE)
state(s) == s \in {"open", "closed", "all"}
upTo(cmd, maximum) == Optional(cmd, "--limit", LAMBDA n : listLimit(n, maximum))

parseIssueList(cmd) == Optional(cmd, "--state", state) /\ upTo(cmd, 1001)

parseIssueCreate(cmd) ==
  /\ Needed(cmd, "--title", validTitle)
  /\ Optional(cmd, "--body", optionalBody)
  /\ Optional(cmd, "--label", labelCSV)

parseIssueLabelChange(cmd) ==
  /\ ~Given(cmd, "--title") /\ ~Given(cmd, "--body")
  /\ Optional(cmd, "--add-label", labelCSV)
  /\ Optional(cmd, "--remove-label", labelCSV)
  /\ (Given(cmd, "--add-label") /\ Given(cmd, "--remove-label")) =>
       ToSet(cmd.flags["--add-label"]) \cap ToSet(cmd.flags["--remove-label"]) = {}

parseIssueEdit(cmd) ==
  IF operationKind(cmd) = "issue_label_change" THEN parseIssueLabelChange(cmd)
  ELSE /\ Optional(cmd, "--title", validTitle)
       /\ Optional(cmd, "--body", optionalBody)
       /\ Given(cmd, "--title") \/ Given(cmd, "--body")

parseIssueComment(cmd) == Needed(cmd, "--body", requiredBody)
parsePullComment(cmd)  == Needed(cmd, "--body", requiredBody)

parseLabelList(cmd) ==
  /\ Needed(cmd, "--limit", LAMBDA n : listLimit(n, 1000))
  /\ Needed(cmd, "--json", LAMBDA fs : fs = <<"name">>)

parseLabelCreate(cmd) ==
  /\ validLabelName(cmd.text)
  /\ Needed(cmd, "--color", validLabelColor)
  /\ Needed(cmd, "--description", validLabelDescription)

parsePullList(cmd) ==
  /\ Optional(cmd, "--state", state) /\ upTo(cmd, 100)
  /\ Optional(cmd, "--base", optionalName) /\ Optional(cmd, "--head", optionalName)

parsePullCreate(cmd) ==
  /\ Needed(cmd, "--head", requiredName) /\ Needed(cmd, "--base", requiredName)
  /\ Needed(cmd, "--title", validTitle)
  /\ Optional(cmd, "--body", optionalBody)

parsePullEdit(cmd) ==
  /\ Optional(cmd, "--title", validTitle) /\ Optional(cmd, "--body", optionalBody)
  /\ Optional(cmd, "--base", requiredName)
  /\ Given(cmd, "--body-file") =>
       ~Given(cmd, "--body") /\ readBodyFile(cmd.flags["--body-file"])
  /\ DOMAIN cmd.flags \cap {"--title", "--body", "--body-file", "--base"} # {}

parseRun(cmd) ==
  cmd.words = "run list" =>
    /\ upTo(cmd, 100) /\ Optional(cmd, "--branch", optionalName)
    /\ Optional(cmd, "--status", LAMBDA s : s = "known")

parseRepository(cmd) == cmd.text.bytes # 0 => ~Given(cmd, "--repo")
parseStatus(cmd) == validObjectID(cmd.text)

(* parseIssueNumber and parsePullNumber: the commands that name one object. *)
NumberedWords == {"issue view", "issue edit", "issue comment", "issue close",
                  "issue reopen", "pr view", "pr edit", "pr comment", "pr close",
                  "pr reopen", "pr ready", "pr checks", "run view"}

(* The dispatch on the command words; a command of a number alone, and the   *)
(* identity commands, ask nothing more.                                     *)
parseOperation(cmd) ==
  /\ cmd.words \in NumberedWords => cmd.number # 0
  /\ CASE cmd.words = "issue list"    -> parseIssueList(cmd)
       [] cmd.words = "issue create"  -> parseIssueCreate(cmd)
       [] cmd.words = "issue edit"    -> parseIssueEdit(cmd)
       [] cmd.words = "issue comment" -> parseIssueComment(cmd)
       [] cmd.words = "label list"    -> parseLabelList(cmd)
       [] cmd.words = "label create"  -> parseLabelCreate(cmd)
       [] cmd.words = "pr list"       -> parsePullList(cmd)
       [] cmd.words = "pr create"     -> parsePullCreate(cmd)
       [] cmd.words = "pr edit"       -> parsePullEdit(cmd)
       [] cmd.words = "pr comment"    -> parsePullComment(cmd)
       [] cmd.words \in {"run list", "run view"} -> parseRun(cmd)
       [] cmd.words = "repo view"     -> parseRepository(cmd)
       [] cmd.words = "status get"    -> parseStatus(cmd)
       [] OTHER -> TRUE

IssueFields == {"number", "title", "body", "state", "author", "assignees", "labels",
                "url", "createdAt", "updatedAt"}
PullFields == {"number", "title", "body", "state", "draft", "author", "head", "base",
               "headObjectId", "url", "createdAt", "updatedAt"}
RunFields == {"id", "name", "workflowName", "status", "conclusion", "event",
              "headBranch", "headObjectId", "url", "createdAt", "updatedAt"}

(* responseFields: what --json may select; {} where it may select nothing. *)
responseFields(kind) ==
  CASE kind = "repository_view" -> {"repository", "name", "owner", "nameWithOwner",
         "description", "private", "url", "defaultBranch", "sshUrl"}
    [] kind = "issue_view" -> IssueFields \union {"comments"}
    [] kind \in {"issue_list", "issue_create", "issue_edit", "issue_close",
                 "issue_reopen", "issue_label_change"} -> IssueFields
    [] kind = "label_list" -> {"name"}
    [] kind \in {"issue_comment", "pull_comment"} ->
         {"id", "author", "body", "url", "createdAt", "updatedAt"}
    [] kind = "pull_list" -> PullFields
    [] kind \in {"pull_view", "pull_create", "pull_edit", "pull_close", "pull_reopen",
                 "pull_ready"} -> PullFields \union {"mergeableState"}
    [] kind = "pull_checks" -> {"name", "state", "conclusion", "detailsUrl",
         "description", "startedAt", "completedAt"}
    [] kind = "run_list" -> RunFields
    [] kind = "run_view" -> RunFields \union {"attempt", "jobsUrl"}
    [] kind = "status_view" -> {"state", "objectId", "statuses"}
    [] OTHER -> {}

(* An empty --json value selects nothing and is no error. *)
selectedFields(cmd) == IF Given(cmd, "--json") THEN cmd.flags["--json"] ELSE <<>>
validSelection(cmd) ==
  LET fs == selectedFields(cmd)
  IN  ToSet(fs) \subseteq responseFields(operationKind(cmd)) /\ IsInjective(fs)

(* RepositoryHint: an explicit repository, else the origin remote; "" is a   *)
(* repository that cannot be had or read.                                   *)
RepositoryHint(cmd) ==
  LET explicit == IF cmd.words = "repo view" /\ cmd.text.bytes # 0 THEN "granted"
                  ELSE IF Given(cmd, "--repo") THEN cmd.flags["--repo"] ELSE ""
      said == IF explicit # "" THEN explicit ELSE cmd.origin
  IN  IF said = "malformed" THEN "" ELSE said

(* parseArgs succeeds. *)
parseArgs(cmd) ==
  /\ validateArgv(cmd)
  /\ operationKind(cmd) # "unknown"
  /\ parseFlags(cmd)
  /\ parseOperation(cmd)
  /\ validSelection(cmd)
  /\ RepositoryHint(cmd) # ""

ArgOf(flag) ==
  CASE flag = "--title" -> "title" [] flag \in {"--body", "--body-file"} -> "body"
    [] flag = "--base" -> "base" [] flag = "--head" -> "head"
    [] flag = "--branch" -> "branch" [] flag = "--color" -> "color"
    [] flag = "--description" -> "description" [] flag = "--label" -> "labels"
    [] flag = "--add-label" -> "add" [] flag = "--remove-label" -> "remove"
    [] flag = "--limit" -> "limit" [] flag = "--state" -> "state"
    [] flag = "--status" -> "status" [] flag = "--draft" -> "draft"

(* The typed request of a command that parses: the operation, its number and *)
(* the fields that are present, with the defaults the parsers fill in.       *)
assignOperation(cmd) ==
  LET kind  == operationKind(cmd)
      given == DOMAIN cmd.flags \ {"--repo", "--json"}
      value(arg) == LET flag == CHOOSE f \in given : ArgOf(f) = arg
                    IN  IF flag = "--body-file" THEN cmd.flags[flag].text ELSE cmd.flags[flag]
      defaults == IF kind \in {"issue_list", "pull_list"} THEN {"limit", "state"}
                  ELSE IF kind = "run_list" THEN {"limit"} ELSE {}
      named == IF kind = "label_create" THEN {"name"}
               ELSE IF kind = "status_view" THEN {"object"} ELSE {}
      present == {ArgOf(f) : f \in given}
  IN  [op |-> kind,
       number |-> IF cmd.words \in NumberedWords THEN cmd.number ELSE 0,
       comments |-> kind = "issue_view" /\ Contains(selectedFields(cmd), "comments"),
       repository |-> RepositoryHint(cmd),
       args |-> [a \in present \union defaults \union named |->
                   IF a \in present THEN value(a)
                   ELSE IF a \in named THEN cmd.text
                   ELSE IF a = "limit" THEN 30 ELSE "open"]]
=============================================================================
