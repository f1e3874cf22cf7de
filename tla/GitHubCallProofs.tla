-------------------------- MODULE GitHubCallProofs --------------------------
(***************************************************************************)
(* Proofs about GitHubCall, for any commands, labels, page bounds and      *)
(* sizes of an answer.  The argument: where a call is says how far its     *)
(* write has come (WriteShape) and what its preflight has made sure of     *)
(* (KindChecked), so that the status it ends with is true of the write     *)
(* (StatusIsTrue).  A step of the call does one of five things to these    *)
(* (StepKinds); the rest of the proof is about the five, not about the     *)
(* actions.                                                                *)
(***************************************************************************)
EXTENDS GitHubCall, PagingProofs

(* The case of mapDomainError for an error that has one. *)
LEMMA StatusOfCase ==
  ASSUME NEW k, NEW is, {i \in DOMAIN DomainStatus : DomainStatus[i][1] \cap is # {}} = {k}, k # 0
  PROVE  Error(Is(is)) = DomainStatus[k][2]
<1>1. Min({k}) = k
  BY DEF Min
<1> QED
  BY <1>1 DEF mapDomainError, Error, Is

(* The outcomes that leave open what became of a write. *)
Open == {"Unavailable", "ResourceExhausted", "Canceled", "DeadlineExceeded", "Internal"}
Refusals == {"InvalidArgument", "PermissionDenied"}
Unsure == {"ErrServiceUnavailable", "ErrOutputLimit", "ErrStartFailed", "ErrCommandFailed",
           "Canceled", "DeadlineExceeded"}

(* Only two errors of a call are told as a refusal. *)
LEMMA StatusOf ==
  /\ \A e \in Unsure : Error(Is({e})).code \in Open
  /\ Error(Is({})).code \in Open
  /\ Error(Is({"ErrInvalidArgument"})).code \in Refusals /\ Error(Is({"ErrDenied"})).code \in Refusals
<1>1. Error(Is({"ErrInvalidArgument"})) = DomainStatus[3][2]
  <2>1. {i \in DOMAIN DomainStatus : DomainStatus[i][1] \cap {"ErrInvalidArgument"} # {}} = {3}
    BY DEF DomainStatus
  <2> QED
    BY <2>1, StatusOfCase
<1>2. Error(Is({"ErrDenied"})) = DomainStatus[2][2]
  <2>1. {i \in DOMAIN DomainStatus : DomainStatus[i][1] \cap {"ErrDenied"} # {}} = {2}
    BY DEF DomainStatus
  <2> QED
    BY <2>1, StatusOfCase
<1>3. Error(Is({"ErrServiceUnavailable"})) = DomainStatus[15][2]
  <2>1. {i \in DOMAIN DomainStatus : DomainStatus[i][1] \cap {"ErrServiceUnavailable"} # {}} = {15}
    BY DEF DomainStatus
  <2> QED
    BY <2>1, StatusOfCase
<1>4. Error(Is({"ErrStartFailed"})) = DomainStatus[17][2]
  <2>1. {i \in DOMAIN DomainStatus : DomainStatus[i][1] \cap {"ErrStartFailed"} # {}} = {17}
    BY DEF DomainStatus
  <2> QED
    BY <2>1, StatusOfCase
<1>5. Error(Is({"ErrCommandFailed"})) = DomainStatus[17][2]
  <2>1. {i \in DOMAIN DomainStatus : DomainStatus[i][1] \cap {"ErrCommandFailed"} # {}} = {17}
    BY DEF DomainStatus
  <2> QED
    BY <2>1, StatusOfCase
<1>6. Error(Is({"Canceled"})) = DomainStatus[13][2]
  <2>1. {i \in DOMAIN DomainStatus : DomainStatus[i][1] \cap {"Canceled"} # {}} = {13}
    BY DEF DomainStatus
  <2> QED
    BY <2>1, StatusOfCase
<1>7. Error(Is({"DeadlineExceeded"})) = DomainStatus[12][2]
  <2>1. {i \in DOMAIN DomainStatus : DomainStatus[i][1] \cap {"DeadlineExceeded"} # {}} = {12}
    BY DEF DomainStatus
  <2> QED
    BY <2>1, StatusOfCase
<1>8. Error(Is({"ErrOutputLimit"})) = DomainStatus[14][2]
  <2>1. {i \in DOMAIN DomainStatus : DomainStatus[i][1] \cap {"ErrOutputLimit"} # {}} = {14}
    BY DEF DomainStatus
  <2> QED
    BY <2>1, StatusOfCase
<1>9. Error(Is({})).code = "Internal"
  BY DEF Error, Is, mapDomainError, Status
<1> QED
  BY <1>1, <1>2, <1>3, <1>4, <1>5, <1>6, <1>7, <1>8, <1>9 DEF DomainStatus, Status, Unsure, Open,
     Refusals

(* ... and only one of them is told as an invalid request. *)
LEMMA StatusOfInvalid ==
  Error(Is({"ErrInvalidArgument"})).code = "InvalidArgument" /\ Error(Is({"ErrDenied"})).code = "PermissionDenied"
<1>1. {i \in DOMAIN DomainStatus : DomainStatus[i][1] \cap {"ErrInvalidArgument"} # {}} = {3}
  BY DEF DomainStatus
<1>2. {i \in DOMAIN DomainStatus : DomainStatus[i][1] \cap {"ErrDenied"} # {}} = {2}
  BY DEF DomainStatus
<1>3. Error(Is({"ErrInvalidArgument"})) = DomainStatus[3][2]
  BY <1>1, StatusOfCase
<1>4. Error(Is({"ErrDenied"})) = DomainStatus[2][2]
  BY <1>2, StatusOfCase
<1> QED
  BY <1>3, <1>4 DEF DomainStatus, Status

(* OK is the code of a success. *)
LEMMA OKIsOK == OKStatus.code = "OK"
BY DEF OKStatus, Status
-----------------------------------------------------------------------------
(* The client's parsers against the service's validators, for any command    *)
(* line.                                                                     *)
GivenArgs(c) == DOMAIN c.flags \ {"--repo", "--json"}
ValueOf(c, flag) == IF flag = "--body-file" THEN c.flags[flag].text ELSE c.flags[flag]
OddLabel(c) == operationKind(c) = "label_create" /\ c.text.kind = "control"

(* ArgOf, flag by flag, and validArg, argument by argument. *)
LEMMA ArgNames ==
  /\ ArgOf("--title") = "title" /\ ArgOf("--body") = "body" /\ ArgOf("--body-file") = "body"
  /\ ArgOf("--base") = "base" /\ ArgOf("--head") = "head" /\ ArgOf("--branch") = "branch"
  /\ ArgOf("--color") = "color" /\ ArgOf("--description") = "description"
  /\ ArgOf("--label") = "labels" /\ ArgOf("--add-label") = "add" /\ ArgOf("--remove-label") = "remove"
  /\ ArgOf("--limit") = "limit" /\ ArgOf("--state") = "state" /\ ArgOf("--status") = "status"
  /\ ArgOf("--draft") = "draft"
BY DEF ArgOf

ArgRule(k, a, v) ==
  /\ a = "title" => R!title(v)
  /\ a = "body" => IF k \in {"issue_comment", "pull_comment"} THEN R!body(v, TRUE) ELSE R!body(v, FALSE)
  /\ a \in {"base", "head"} => IF k = "pull_list" THEN R!name(v, FALSE) ELSE R!name(v, TRUE)
  /\ a = "branch" => R!name(v, FALSE)
  /\ a = "name" => R!labelCreateName(v)
  /\ a = "description" => R!labelDescription(v)
  /\ a = "color" => R!labelColor(v)
  /\ a = "object" => R!objectID(v)
  /\ a \in {"labels", "add", "remove"} => R!labels(v)
  /\ a = "state" => v \in {"open", "closed", "all"}
  /\ a = "status" => v = "known"
  /\ a = "limit" => R!limit(v, IF k = "issue_list" THEN 1001 ELSE IF k = "label_list" THEN 1000 ELSE 100)

LEMMA ArgRules == ASSUME NEW k, NEW a, NEW v, ArgRule(k, a, v) PROVE R!validArg(k, a, v)
<1>1. CASE a \in {"title", "branch", "name"}
  BY <1>1 DEF ArgRule, R!validArg
<1>5. CASE a = "body"
  BY <1>5 DEF ArgRule, R!validArg, R!body
<1>6. CASE a \in {"base", "head"}
  BY <1>6 DEF ArgRule, R!validArg, R!name
<1>2. CASE a \in {"description", "color", "object", "labels", "add", "remove"}
  BY <1>2 DEF ArgRule, R!validArg
<1>3. CASE a \in {"state", "status"}
  BY <1>3 DEF ArgRule, R!validArg
<1>4. CASE a \notin {"title", "body", "base", "head", "branch", "name", "description", "color",
                      "object", "labels", "add", "remove", "state", "status", "limit"}
  BY <1>4 DEF ArgRule, R!validArg
<1>7. CASE a = "limit"
  BY <1>7 DEF ArgRule, R!validArg, R!limit
<1> QED
  BY <1>1, <1>2, <1>3, <1>4, <1>5, <1>6, <1>7

LEMMA LabelsAgree == \A ls : labelCSV(ls) => R!labels(ls)
<1> SUFFICES ASSUME NEW ls, labelCSV(ls) PROVE R!labels(ls)
  OBVIOUS
<1>1. Len(ls) <= 100
  <2>1. \A n \in 1..100 : n <= 100
    OBVIOUS
  <2> QED
    BY <2>1, Zenon DEF labelCSV
<1>2. ASSUME NEW i \in DOMAIN ls PROVE ls[i].bytes \in 1..255 /\ ls[i].kind \notin {"invalid", "nul"}
  BY DEF labelCSV, ToSet
<1> QED
  BY <1>1, <1>2, Zenon DEF R!labels

(* What the dispatch on the words of a command comes to, command by command. *)
LEMMA ParsedWords ==
  ASSUME NEW c, parseArgs(c)
  PROVE  \/ /\ GivenArgs(c) = {}
            /\ \/ operationKind(c) \in {"current_user", "repository_view"}
               \/ operationKind(c) = "status_view" /\ validObjectID(c.text)
               \/ /\ c.words \in NumberedWords /\ c.number # 0
                  /\ operationKind(c) \in {"issue_view", "issue_close", "issue_reopen", "pull_view",
                       "pull_close", "pull_reopen", "pull_ready", "pull_checks", "run_view"}
         \/ /\ operationKind(c) = "issue_list" /\ GivenArgs(c) \subseteq {"--state", "--limit"}
            /\ parseIssueList(c)
         \/ /\ operationKind(c) = "issue_create" /\ GivenArgs(c) \subseteq {"--title", "--body", "--label"}
            /\ parseIssueCreate(c)
         \/ /\ operationKind(c) = "issue_label_change"
            /\ c.words \in NumberedWords /\ c.number # 0
            /\ GivenArgs(c) \subseteq {"--add-label", "--remove-label"} /\ GivenArgs(c) # {}
            /\ parseIssueLabelChange(c)
         \/ /\ operationKind(c) = "issue_edit" /\ GivenArgs(c) \subseteq {"--title", "--body"}
            /\ c.words \in NumberedWords /\ c.number # 0
            /\ Optional(c, "--title", validTitle) /\ Optional(c, "--body", optionalBody)
            /\ Given(c, "--title") \/ Given(c, "--body")
         \/ /\ operationKind(c) \in {"issue_comment", "pull_comment"} /\ GivenArgs(c) \subseteq {"--body"}
            /\ c.words \in NumberedWords /\ c.number # 0
            /\ Needed(c, "--body", requiredBody)
         \/ /\ operationKind(c) = "label_list" /\ GivenArgs(c) \subseteq {"--limit"} /\ parseLabelList(c)
         \/ /\ operationKind(c) = "label_create" /\ GivenArgs(c) \subseteq {"--color", "--description"}
            /\ parseLabelCreate(c)
         \/ /\ operationKind(c) = "pull_list" /\ parsePullList(c)
            /\ GivenArgs(c) \subseteq {"--state", "--base", "--head", "--limit"}
         \/ /\ operationKind(c) = "pull_create" /\ parsePullCreate(c)
            /\ GivenArgs(c) \subseteq {"--head", "--base", "--title", "--body", "--draft"}
         \/ /\ operationKind(c) = "pull_edit" /\ parsePullEdit(c)
            /\ c.words \in NumberedWords /\ c.number # 0
            /\ GivenArgs(c) \subseteq {"--title", "--body", "--body-file", "--base"}
         \/ /\ operationKind(c) = "run_list" /\ parseRun(c) /\ c.words = "run list"
            /\ GivenArgs(c) \subseteq {"--branch", "--status", "--limit"}
<1>1. /\ operationKind(c) # "unknown" /\ DOMAIN c.flags \subseteq operationFlags(c.words)
      /\ parseOperation(c)
  BY DEF parseArgs, parseFlags
<1>2. GivenArgs(c) \subseteq operationFlags(c.words) \ {"--repo", "--json"}
  BY <1>1 DEF GivenArgs
<1>3. CASE c.words \in {"auth status", "api user", "repo view", "status get"}
  BY <1>1, <1>2, <1>3 DEF operationFlags, operationKind, parseOperation, parseStatus
<1>4. CASE c.words \in {"issue view", "issue close", "issue reopen", "pr view", "pr close",
                        "pr reopen", "pr ready", "pr checks", "run view"}
  BY <1>1, <1>2, <1>4 DEF operationFlags, operationKind, parseOperation, NumberedWords
<1>5. CASE c.words \in {"issue list", "issue create", "label list", "label create"}
  BY <1>1, <1>2, <1>5 DEF operationFlags, operationKind, parseOperation
<1>6. CASE c.words \in {"issue comment", "pr comment"}
  BY <1>1, <1>2, <1>6 DEF operationFlags, operationKind, parseOperation, NumberedWords,
     parseIssueComment, parsePullComment
<1>7. CASE c.words = "issue edit"
  <2>1. /\ GivenArgs(c) \subseteq {"--title", "--body", "--add-label", "--remove-label"}
        /\ c.words \in NumberedWords /\ c.number # 0 /\ parseIssueEdit(c)
    BY <1>1, <1>2, <1>7 DEF operationFlags, parseOperation, NumberedWords
  <2>2. operationKind(c) = IF DOMAIN c.flags \cap {"--add-label", "--remove-label"} # {}
                           THEN "issue_label_change" ELSE "issue_edit"
    BY <1>7 DEF operationKind
  <2> QED
    BY <2>1, <2>2 DEF parseIssueEdit, parseIssueLabelChange, GivenArgs, Given
<1>8. CASE c.words \in {"pr list", "pr create"}
  BY <1>1, <1>2, <1>8 DEF operationFlags, operationKind, parseOperation
<1>10. CASE c.words \in {"pr edit", "run list"}
  BY <1>1, <1>2, <1>10 DEF operationFlags, operationKind, parseOperation, NumberedWords
<1>9. c.words \in {"auth status", "api user", "repo view", "status get", "issue view", "issue close",
        "issue reopen", "pr view", "pr close", "pr reopen", "pr ready", "pr checks", "run view",
        "issue list", "issue create", "label list", "label create", "issue comment", "pr comment",
        "issue edit", "pr list", "pr create", "pr edit", "run list"}
  BY <1>1 DEF operationKind
<1> QED
  BY <1>3, <1>4, <1>5, <1>6, <1>7, <1>8, <1>9, <1>10

(* A flag that the parsers let through has a value that the service's         *)
(* validator for it lets through: flag f of an operation of kind k.          *)
FlagRule(k, f, v) ==
  \/ f = "--title" /\ R!title(v)
  \/ f = "--body" /\ IF k \in {"issue_comment", "pull_comment"} THEN R!body(v, TRUE) ELSE R!body(v, FALSE)
  \/ f = "--body-file" /\ k = "pull_edit" /\ R!body(v.text, FALSE)
  \/ f \in {"--base", "--head"} /\ IF k = "pull_list" THEN R!name(v, FALSE) ELSE R!name(v, TRUE)
  \/ f = "--branch" /\ R!name(v, FALSE)
  \/ f = "--color" /\ R!labelColor(v)
  \/ f = "--description" /\ R!labelDescription(v)
  \/ f \in {"--label", "--add-label", "--remove-label"} /\ R!labels(v)
  \/ /\ f = "--limit"
     /\ \/ k = "issue_list" /\ R!limit(v, 1001)
        \/ k = "label_list" /\ R!limit(v, 1000)
        \/ k \in {"pull_list", "run_list"} /\ R!limit(v, 100)
  \/ f = "--state" /\ v \in {"open", "closed", "all"}
  \/ f = "--status" /\ v = "known"
  \/ f = "--draft"

LEMMA GivenParsed ==
  ASSUME NEW c, parseArgs(c), NEW f \in GivenArgs(c)
  PROVE  FlagRule(operationKind(c), f, c.flags[f])
<1> DEFINE k == operationKind(c)
           v == c.flags[f]
<1>a. Given(c, f) /\ k = operationKind(c) /\ v = c.flags[f]
  BY DEF GivenArgs, Given
<1>b. parseArgs(c) /\ f \in GivenArgs(c)
  OBVIOUS
<1> HIDE DEF k, v
<1> SUFFICES FlagRule(k, f, v)
  BY DEF k, v
<1>1. CASE k = "issue_list"
  <2>1. f \in {"--state", "--limit"} /\ parseIssueList(c)
    BY <1>a, <1>1, ParsedWords
  <2>2. CASE f = "--state"
    <3>1. v \in {"open", "closed", "all"}
      BY <1>a, <2>1, <2>2 DEF Optional, Needed, parseIssueList, state
    <3> QED
      BY <1>1, <2>2, <3>1 DEF FlagRule
  <2>3. CASE f = "--limit"
    <3>1. R!limit(v, 1001)
      BY <1>a, <2>1, <2>3 DEF Optional, Needed, parseIssueList, upTo, listLimit, R!limit
    <3> QED
      BY <1>1, <2>3, <3>1 DEF FlagRule
  <2> QED
    BY <2>1, <2>2, <2>3
<1>2. CASE k = "label_list"
  <2>1. f \in {"--limit"} /\ parseLabelList(c)
    BY <1>a, <1>2, ParsedWords
  <2>2. CASE f = "--limit"
    <3>1. R!limit(v, 1000)
      BY <1>a, <2>1, <2>2 DEF Optional, Needed, parseLabelList, listLimit, R!limit
    <3> QED
      BY <1>2, <2>2, <3>1 DEF FlagRule
  <2> QED
    BY <2>1, <2>2
<1>3. CASE k = "issue_create"
  <2>1. f \in {"--title", "--body", "--label"} /\ parseIssueCreate(c)
    BY <1>a, <1>3, ParsedWords
  <2>2. CASE f = "--title"
    <3>1. R!title(v)
      BY <1>a, <2>1, <2>2 DEF Optional, Needed, parseIssueCreate, validTitle, R!title
    <3> QED
      BY <1>3, <2>2, <3>1 DEF FlagRule
  <2>3. CASE f = "--body"
    <3>1. R!body(v, FALSE)
      BY <1>a, <2>1, <2>3 DEF Optional, Needed, parseIssueCreate, optionalBody, validBody, R!body
    <3> QED
      BY <1>3, <2>3, <3>1 DEF FlagRule
  <2>4. CASE f = "--label"
    <3>1. labelCSV(v)
      BY <1>a, <2>1, <2>4 DEF Optional, Needed, parseIssueCreate
    <3> QED
      BY <2>4, <3>1, LabelsAgree DEF FlagRule
  <2> QED
    BY <2>1, <2>2, <2>3, <2>4
<1>4. CASE k = "issue_label_change"
  <2>1. f \in {"--add-label", "--remove-label"} /\ parseIssueLabelChange(c)
    BY <1>a, <1>4, ParsedWords
  <2>2. CASE f = "--add-label"
    <3>1. labelCSV(v)
      BY <1>a, <2>1, <2>2 DEF Optional, Needed, parseIssueLabelChange
    <3> QED
      BY <2>2, <3>1, LabelsAgree DEF FlagRule
  <2>3. CASE f = "--remove-label"
    <3>1. labelCSV(v)
      BY <1>a, <2>1, <2>3 DEF Optional, Needed, parseIssueLabelChange
    <3> QED
      BY <2>3, <3>1, LabelsAgree DEF FlagRule
  <2> QED
    BY <2>1, <2>2, <2>3
<1>5. CASE k = "issue_edit"
  <2>1. f \in {"--title", "--body"} /\ Optional(c, "--title", validTitle) /\ Optional(c, "--body", optionalBody)
    BY <1>a, <1>5, ParsedWords
  <2>2. CASE f = "--title"
    <3>1. R!title(v)
      BY <1>a, <2>1, <2>2 DEF Optional, Needed, validTitle, R!title
    <3> QED
      BY <1>5, <2>2, <3>1 DEF FlagRule
  <2>3. CASE f = "--body"
    <3>1. R!body(v, FALSE)
      BY <1>a, <2>1, <2>3 DEF Optional, Needed, optionalBody, validBody, R!body
    <3> QED
      BY <1>5, <2>3, <3>1 DEF FlagRule
  <2> QED
    BY <2>1, <2>2, <2>3
<1>6. CASE k = "issue_comment"
  <2>1. f \in {"--body"} /\ Needed(c, "--body", requiredBody)
    BY <1>a, <1>6, ParsedWords
  <2>2. CASE f = "--body"
    <3>1. R!body(v, TRUE)
      BY <1>a, <2>1, <2>2 DEF Optional, Needed, requiredBody, validBody, R!body
    <3> QED
      BY <1>6, <2>2, <3>1 DEF FlagRule
  <2> QED
    BY <2>1, <2>2
<1>7. CASE k = "pull_comment"
  <2>1. f \in {"--body"} /\ Needed(c, "--body", requiredBody)
    BY <1>a, <1>7, ParsedWords
  <2>2. CASE f = "--body"
    <3>1. R!body(v, TRUE)
      BY <1>a, <2>1, <2>2 DEF Optional, Needed, requiredBody, validBody, R!body
    <3> QED
      BY <1>7, <2>2, <3>1 DEF FlagRule
  <2> QED
    BY <2>1, <2>2
<1>8. CASE k = "label_create"
  <2>1. f \in {"--color", "--description"} /\ parseLabelCreate(c)
    BY <1>a, <1>8, ParsedWords
  <2>2. CASE f = "--color"
    <3>1. R!labelColor(v)
      BY <1>a, <2>1, <2>2 DEF Optional, Needed, parseLabelCreate, validLabelColor, R!labelColor
    <3> QED
      BY <1>8, <2>2, <3>1 DEF FlagRule
  <2>3. CASE f = "--description"
    <3>1. R!labelDescription(v)
      BY <1>a, <2>1, <2>3 DEF Optional, Needed, parseLabelCreate, validLabelDescription,
         R!labelDescription
    <3> QED
      BY <1>8, <2>3, <3>1 DEF FlagRule
  <2> QED
    BY <2>1, <2>2, <2>3
<1>9. CASE k = "pull_list"
  <2>1. f \in {"--state", "--base", "--head", "--limit"} /\ parsePullList(c)
    BY <1>a, <1>9, ParsedWords
  <2>2. CASE f = "--state"
    <3>1. v \in {"open", "closed", "all"}
      BY <1>a, <2>1, <2>2 DEF Optional, Needed, parsePullList, state
    <3> QED
      BY <1>9, <2>2, <3>1 DEF FlagRule
  <2>3. CASE f = "--base"
    <3>1. R!name(v, FALSE)
      BY <1>a, <2>1, <2>3 DEF Optional, Needed, parsePullList, optionalName, validName, R!name
    <3> QED
      BY <1>9, <2>3, <3>1 DEF FlagRule
  <2>4. CASE f = "--head"
    <3>1. R!name(v, FALSE)
      BY <1>a, <2>1, <2>4 DEF Optional, Needed, parsePullList, optionalName, validName, R!name
    <3> QED
      BY <1>9, <2>4, <3>1 DEF FlagRule
  <2>5. CASE f = "--limit"
    <3>1. R!limit(v, 100)
      BY <1>a, <2>1, <2>5 DEF Optional, Needed, parsePullList, upTo, listLimit, R!limit
    <3> QED
      BY <1>9, <2>5, <3>1 DEF FlagRule
  <2> QED
    BY <2>1, <2>2, <2>3, <2>4, <2>5
<1>10. CASE k = "pull_create"
  <2>1. f \in {"--head", "--base", "--title", "--body", "--draft"} /\ parsePullCreate(c)
    BY <1>a, <1>10, ParsedWords
  <2>2. CASE f = "--head"
    <3>1. R!name(v, TRUE)
      BY <1>a, <2>1, <2>2 DEF Optional, Needed, parsePullCreate, requiredName, validName, R!name
    <3> QED
      BY <1>10, <2>2, <3>1 DEF FlagRule
  <2>3. CASE f = "--base"
    <3>1. R!name(v, TRUE)
      BY <1>a, <2>1, <2>3 DEF Optional, Needed, parsePullCreate, requiredName, validName, R!name
    <3> QED
      BY <1>10, <2>3, <3>1 DEF FlagRule
  <2>4. CASE f = "--title"
    <3>1. R!title(v)
      BY <1>a, <2>1, <2>4 DEF Optional, Needed, parsePullCreate, validTitle, R!title
    <3> QED
      BY <1>10, <2>4, <3>1 DEF FlagRule
  <2>5. CASE f = "--body"
    <3>1. R!body(v, FALSE)
      BY <1>a, <2>1, <2>5 DEF Optional, Needed, parsePullCreate, optionalBody, validBody, R!body
    <3> QED
      BY <1>10, <2>5, <3>1 DEF FlagRule
  <2>6. CASE f = "--draft"
    BY <2>6 DEF FlagRule
  <2> QED
    BY <2>1, <2>2, <2>3, <2>4, <2>5, <2>6
<1>11. CASE k = "pull_edit"
  <2>1. f \in {"--title", "--body", "--body-file", "--base"} /\ parsePullEdit(c)
    BY <1>a, <1>11, ParsedWords
  <2>2. CASE f = "--title"
    <3>1. R!title(v)
      BY <1>a, <2>1, <2>2 DEF Optional, Needed, parsePullEdit, validTitle, R!title
    <3> QED
      BY <1>11, <2>2, <3>1 DEF FlagRule
  <2>3. CASE f = "--body"
    <3>1. R!body(v, FALSE)
      BY <1>a, <2>1, <2>3 DEF Optional, Needed, parsePullEdit, optionalBody, validBody, R!body
    <3> QED
      BY <1>11, <2>3, <3>1 DEF FlagRule
  <2>4. CASE f = "--body-file"
    <3>1. R!body(v.text, FALSE)
      BY <1>a, <2>1, <2>4 DEF Optional, Needed, parsePullEdit, readBodyFile, R!body
    <3> QED
      BY <1>11, <2>4, <3>1 DEF FlagRule
  <2>5. CASE f = "--base"
    <3>1. R!name(v, TRUE)
      BY <1>a, <2>1, <2>5 DEF Optional, Needed, parsePullEdit, requiredName, validName, R!name
    <3> QED
      BY <1>11, <2>5, <3>1 DEF FlagRule
  <2> QED
    BY <2>1, <2>2, <2>3, <2>4, <2>5
<1>12. CASE k = "run_list"
  <2>1. f \in {"--branch", "--status", "--limit"} /\ parseRun(c) /\ c.words = "run list"
    BY <1>a, <1>12, ParsedWords
  <2>2. CASE f = "--branch"
    <3>1. R!name(v, FALSE)
      BY <1>a, <2>1, <2>2 DEF Optional, Needed, parseRun, optionalName, validName, R!name
    <3> QED
      BY <1>12, <2>2, <3>1 DEF FlagRule
  <2>3. CASE f = "--status"
    <3>1. v = "known"
      BY <1>a, <2>1, <2>3 DEF Optional, Needed, parseRun
    <3> QED
      BY <1>12, <2>3, <3>1 DEF FlagRule
  <2>4. CASE f = "--limit"
    <3>1. R!limit(v, 100)
      BY <1>a, <2>1, <2>4 DEF Optional, Needed, parseRun, upTo, listLimit, R!limit
    <3> QED
      BY <1>12, <2>4, <3>1 DEF FlagRule
  <2> QED
    BY <2>1, <2>2, <2>3, <2>4
<1> QED
  BY <1>1, <1>2, <1>3, <1>4, <1>5, <1>6, <1>7, <1>8, <1>9, <1>10, <1>11, <1>12, <1>a, ParsedWords

(* ... that is, it is an argument the validators let through. *)
LEMMA GivenIsValid ==
  ASSUME NEW c, parseArgs(c), NEW f \in GivenArgs(c)
  PROVE  R!validArg(operationKind(c), ArgOf(f), ValueOf(c, f))
<1> DEFINE k == operationKind(c)
           a == ArgOf(f)
           w == c.flags[f]
           v == ValueOf(c, f)
<1>1. v = (IF f = "--body-file" THEN w.text ELSE w) /\ a = ArgOf(f) /\ FlagRule(k, f, w)
  BY GivenParsed DEF ValueOf
<1> HIDE DEF k, a, v, w
<1>2. ArgRule(k, a, v)
  <2>1. CASE f \in {"--title", "--body", "--body-file"}
    BY <1>1, <2>1, ArgNames DEF ArgRule, FlagRule
  <2>2. CASE f \in {"--base", "--head", "--branch"}
    BY <1>1, <2>2, ArgNames DEF ArgRule, FlagRule
  <2>3. CASE f \in {"--color", "--description", "--label", "--add-label", "--remove-label"}
    BY <1>1, <2>3, ArgNames DEF ArgRule, FlagRule
  <2>4. CASE f = "--limit"
    <3>1. a = "limit"
      BY <1>1, <2>4, ArgNames
    <3>2. \/ k = "issue_list" /\ R!limit(v, 1001)
          \/ k = "label_list" /\ R!limit(v, 1000)
          \/ k \in {"pull_list", "run_list"} /\ R!limit(v, 100)
      BY <1>1, <2>4 DEF FlagRule
    <3>3. R!limit(v, IF k = "issue_list" THEN 1001 ELSE IF k = "label_list" THEN 1000 ELSE 100)
      BY <3>2
    <3> QED
      BY <3>1, <3>3 DEF ArgRule
  <2>5. CASE f \in {"--state", "--status", "--draft"}
    BY <1>1, <2>5, ArgNames DEF ArgRule, FlagRule
  <2> QED
    BY <1>1, <2>1, <2>2, <2>3, <2>4, <2>5 DEF FlagRule
<1>3. R!validArg(k, a, v)
  BY <1>2, ArgRules
<1> QED
  BY <1>3 DEF k, a, v

(* The request of a command: its operation and number, which arguments it    *)
(* has, and what each is.                                                    *)
Present(c) == {ArgOf(f) : f \in GivenArgs(c)}
Defaults(k) == IF k \in {"issue_list", "pull_list"} THEN {"limit", "state"}
               ELSE IF k = "run_list" THEN {"limit"} ELSE {}
Named(k) == IF k = "label_create" THEN {"name"} ELSE IF k = "status_view" THEN {"object"} ELSE {}

LEMMA RequestShape ==
  ASSUME NEW c
  PROVE  /\ assignOperation(c).op = operationKind(c)
         /\ c.words \in NumberedWords => assignOperation(c).number = c.number
         /\ DOMAIN assignOperation(c).args =
              Present(c) \union Defaults(operationKind(c)) \union Named(operationKind(c))
BY DEF assignOperation, Present, Defaults, Named, GivenArgs

LEMMA GivenArg ==
  ASSUME NEW c, NEW a \in Present(c)
  PROVE  \E f \in GivenArgs(c) : a = ArgOf(f) /\ assignOperation(c).args[a] = ValueOf(c, f)
<1> DEFINE chosen == CHOOSE f \in GivenArgs(c) : ArgOf(f) = a
<1>1. chosen \in GivenArgs(c) /\ ArgOf(chosen) = a
  BY DEF Present
<1>2. assignOperation(c).args[a] = ValueOf(c, chosen)
  BY DEF assignOperation, GivenArgs, ValueOf, Present
<1> QED
  BY <1>1, <1>2

LEMMA OtherArg ==
  ASSUME NEW c, NEW a \in Defaults(operationKind(c)) \union Named(operationKind(c)), a \notin Present(c)
  PROVE  assignOperation(c).args[a] =
           IF a \in {"name", "object"} THEN c.text ELSE IF a = "limit" THEN 30 ELSE "open"
BY DEF assignOperation, Present, Defaults, Named, GivenArgs

(* Every argument of the request of a command that parses is valid, but for  *)
(* the name of a new label.                                                  *)
LEMMA ArgsAreValid ==
  ASSUME NEW c, parseArgs(c), ~OddLabel(c), NEW a \in DOMAIN assignOperation(c).args
  PROVE  R!validArg(operationKind(c), a, assignOperation(c).args[a])
<1> DEFINE k == operationKind(c)
           v == assignOperation(c).args[a]
<1>1. CASE a \in Present(c)
  BY <1>1, GivenArg, GivenIsValid
<1>2. CASE a \notin Present(c)
  <2>1. a \in Defaults(k) \union Named(k)
    BY <1>2, RequestShape
  <2>2. v = IF a \in {"name", "object"} THEN c.text ELSE IF a = "limit" THEN 30 ELSE "open"
    BY <1>2, <2>1, OtherArg
  <2>3. CASE a = "limit"
    <3>1. v = 30
      BY <2>2, <2>3
    <3> QED
      BY <2>3, <3>1 DEF R!validArg, R!limit
  <2>4. CASE a = "state"
    <3>1. v = "open"
      BY <2>2, <2>4
    <3> QED
      BY <2>4, <3>1 DEF R!validArg
  <2>5. CASE a = "name"
    <3>1. v = c.text /\ k = "label_create"
      BY <2>1, <2>2, <2>5 DEF Defaults, Named
    <3>2. validLabelName(c.text) /\ c.text.kind # "control"
      BY <3>1, ParsedWords DEF parseLabelCreate, OddLabel
    <3>3. R!labelCreateName(c.text)
      BY <3>2 DEF validLabelName, R!labelCreateName
    <3> QED
      BY <2>5, <3>1, <3>3 DEF R!validArg
  <2>6. CASE a = "object"
    <3>1. v = c.text /\ k = "status_view"
      BY <2>1, <2>2, <2>6 DEF Defaults, Named
    <3>2. validObjectID(c.text)
      BY <3>1, ParsedWords
    <3>3. R!objectID(c.text)
      BY <3>2 DEF validObjectID, R!objectID
    <3> QED
      BY <2>6, <3>1, <3>3 DEF R!validArg
  <2> QED
    BY <2>1, <2>3, <2>4, <2>5, <2>6 DEF Defaults, Named
<1> QED
  BY <1>1, <1>2

(* A change of labels names no label twice. *)
LEMMA LabelChangeIsValid ==
  ASSUME NEW c \in Commands, parseArgs(c), operationKind(c) = "issue_label_change"
  PROVE  LET q == assignOperation(c)
         IN  /\ R!Arg(q, "add") \in Seq(Texts) /\ R!Arg(q, "remove") \in Seq(Texts)
             /\ IsInjective(R!Arg(q, "add"))
             /\ ToSet(R!Arg(q, "add")) \cap ToSet(R!Arg(q, "remove")) = {}
             /\ R!validateIssueLabelChange(q)
<1> DEFINE q == assignOperation(c)
           add == R!Arg(q, "add")
           remove == R!Arg(q, "remove")
<1>1. /\ GivenArgs(c) \subseteq {"--add-label", "--remove-label"} /\ GivenArgs(c) # {}
      /\ parseIssueLabelChange(c)
  BY ParsedWords
<1>2. DOMAIN q.args = Present(c)
  BY RequestShape DEF Defaults, Named
<1>3. "add" \in Present(c) <=> Given(c, "--add-label")
  BY <1>1, ArgNames DEF Present, GivenArgs, Given
<1>4. "remove" \in Present(c) <=> Given(c, "--remove-label")
  BY <1>1, ArgNames DEF Present, GivenArgs, Given
<1>5. ASSUME "add" \in Present(c) PROVE q.args["add"] = c.flags["--add-label"]
  <2>1. PICK f \in GivenArgs(c) : "add" = ArgOf(f) /\ q.args["add"] = ValueOf(c, f)
    BY <1>5, GivenArg
  <2>2. f = "--add-label"
    BY <1>1, <2>1, ArgNames
  <2> QED
    BY <2>1, <2>2 DEF ValueOf
<1>6. ASSUME "remove" \in Present(c) PROVE q.args["remove"] = c.flags["--remove-label"]
  <2>1. PICK f \in GivenArgs(c) : "remove" = ArgOf(f) /\ q.args["remove"] = ValueOf(c, f)
    BY <1>6, GivenArg
  <2>2. f = "--remove-label"
    BY <1>1, <2>1, ArgNames
  <2> QED
    BY <2>1, <2>2 DEF ValueOf
<1>7. add = IF Given(c, "--add-label") THEN c.flags["--add-label"] ELSE <<>>
  BY <1>2, <1>3, <1>5 DEF R!Arg
<1>8. remove = IF Given(c, "--remove-label") THEN c.flags["--remove-label"] ELSE <<>>
  BY <1>2, <1>4, <1>6 DEF R!Arg
<1> HIDE DEF add, remove
<1>9. add \in Seq(Texts) /\ remove \in Seq(Texts)
  BY <1>7, <1>8, LabelAssumption DEF Given, ListFlags
<1>10. /\ Given(c, "--add-label") => IsInjective(add) /\ Len(add) \in 1..100
       /\ Given(c, "--remove-label") => IsInjective(remove) /\ Len(remove) \in 1..100
  BY <1>1, <1>7, <1>8 DEF parseIssueLabelChange, Optional, labelCSV
<1>11. IsInjective(<<>>) /\ ToSet(<<>>) = {}
  BY DEF IsInjective, ToSet
<1>12. IsInjective(add) /\ IsInjective(remove)
  BY <1>7, <1>8, <1>10, <1>11
<1>13. ToSet(add) \cap ToSet(remove) = {}
  BY <1>1, <1>7, <1>8, <1>11 DEF parseIssueLabelChange
<1>14. IsInjective(add \o remove)
  BY <1>9, <1>12, <1>13, ConcatIsInjective
<1>15. Given(c, "--add-label") \/ Given(c, "--remove-label")
  BY <1>1 DEF Given, GivenArgs
<1>16. Len(add \o remove) > 0
  <2>1. Len(add \o remove) = Len(add) + Len(remove) /\ Len(add) \in Nat /\ Len(remove) \in Nat
    BY <1>9
  <2>2. Len(add) >= 1 \/ Len(remove) >= 1
    <3>1. \A n \in 1..100 : n >= 1
      OBVIOUS
    <3> QED
      BY <1>10, <1>15, <3>1, Zenon
  <2> QED
    BY <2>1, <2>2
<1>17. R!validateIssueLabelChange(q)
  BY <1>14, <1>16 DEF R!validateIssueLabelChange, R!IsInjective, IsInjective, add, remove
<1> QED
  BY <1>9, <1>12, <1>13, <1>17 DEF add, remove

(* The arguments that may not be missing are given or filled in. *)
LEMMA MandatoryGiven ==
  ASSUME NEW c, parseArgs(c)
  PROVE  R!Mandatory(operationKind(c)) \subseteq DOMAIN assignOperation(c).args
<1> DEFINE k == operationKind(c)
           D == DOMAIN assignOperation(c).args
<1>1. D = Present(c) \cup Defaults(k) \cup Named(k)
  BY RequestShape
<1>2. \A f : Given(c, f) /\ f \notin {"--repo", "--json"} => ArgOf(f) \in D
  BY <1>1 DEF Present, GivenArgs, Given
<1>a. k = operationKind(c)
  OBVIOUS
<1> HIDE DEF D, k
<1> SUFFICES R!Mandatory(k) \subseteq D
  BY DEF D, k
<1>3. CASE k \in {"issue_list", "pull_list", "run_list"}
  BY <1>1, <1>3 DEF R!Mandatory, Defaults
<1>4. CASE k = "status_view"
  BY <1>1, <1>4 DEF R!Mandatory, Named
<1>5. CASE k = "label_create"
  <2>1. Given(c, "--color") /\ Given(c, "--description")
    BY <1>a, <1>5, ParsedWords DEF parseLabelCreate, Needed
  <2>2. {"name", "color", "description"} \subseteq D
    BY <1>1, <1>2, <1>5, <2>1, ArgNames DEF Named
  <2> QED
    BY <1>5, <2>2 DEF R!Mandatory
<1>6. CASE k = "label_list"
  <2>1. Given(c, "--limit")
    BY <1>a, <1>6, ParsedWords DEF parseLabelList, Needed
  <2>2. "limit" \in D
    BY <1>2, <2>1, ArgNames
  <2> QED
    BY <1>6, <2>2 DEF R!Mandatory
<1>7. CASE k = "issue_create"
  <2>1. Given(c, "--title")
    BY <1>a, <1>7, ParsedWords DEF parseIssueCreate, Needed
  <2>2. "title" \in D
    BY <1>2, <2>1, ArgNames
  <2> QED
    BY <1>7, <2>2 DEF R!Mandatory
<1>8. CASE k \in {"issue_comment", "pull_comment"}
  <2>1. Given(c, "--body")
    BY <1>a, <1>8, ParsedWords DEF Needed
  <2>2. "body" \in D
    BY <1>2, <2>1, ArgNames
  <2> QED
    BY <1>8, <2>2 DEF R!Mandatory
<1>9. CASE k = "pull_create"
  <2>1. Given(c, "--title") /\ Given(c, "--head") /\ Given(c, "--base")
    BY <1>a, <1>9, ParsedWords DEF parsePullCreate, Needed
  <2>2. {"title", "head", "base"} \subseteq D
    BY <1>2, <2>1, ArgNames
  <2> QED
    BY <1>9, <2>2 DEF R!Mandatory
<1>10. CASE k \notin {"issue_list", "pull_list", "run_list", "status_view", "label_create", "label_list",
                       "issue_create", "issue_comment", "pull_comment", "pull_create"}
  BY <1>10 DEF R!Mandatory
<1> QED
  BY <1>3, <1>4, <1>5, <1>6, <1>7, <1>8, <1>9, <1>10

(* An edit changes something. *)
LEMMA EditsChange ==
  ASSUME NEW c, parseArgs(c)
  PROVE  LET D == DOMAIN assignOperation(c).args
         IN  /\ operationKind(c) = "issue_edit" => D \cap {"title", "body", "labels", "assignees"} # {}
             /\ operationKind(c) = "pull_edit" => D \cap {"title", "body", "base"} # {}
<1> DEFINE k == operationKind(c)
           D == DOMAIN assignOperation(c).args
<1>2. \A f : Given(c, f) /\ f \notin {"--repo", "--json"} => ArgOf(f) \in D
  BY RequestShape DEF Present, GivenArgs, Given
<1>a. k = operationKind(c)
  OBVIOUS
<1> HIDE DEF D, k
<1>3. CASE k = "issue_edit"
  <2>1. Given(c, "--title") \/ Given(c, "--body")
    BY <1>a, <1>3, ParsedWords
  <2>2. "title" \in D \/ "body" \in D
    BY <1>2, <2>1, ArgNames
  <2> QED
    BY <1>3, <2>2 DEF D, k
<1>4. CASE k = "pull_edit"
  <2>1. Given(c, "--title") \/ Given(c, "--body") \/ Given(c, "--body-file") \/ Given(c, "--base")
    BY <1>a, <1>4, ParsedWords DEF parsePullEdit, Given
  <2>2. "title" \in D \/ "body" \in D \/ "base" \in D
    BY <1>2, <2>1, ArgNames
  <2> QED
    BY <1>4, <2>2 DEF D, k
<1> QED
  BY <1>3, <1>4 DEF D, k

(* What gh sends, the service finds valid. *)
LEMMA RequestIsValid ==
  ASSUME NEW c \in Commands, parseArgs(c), ~OddLabel(c)
  PROVE  R!ValidateGitHubRequest(assignOperation(c))
<1> DEFINE k == operationKind(c)
           q == assignOperation(c)
<1>1. q.op = k
  BY RequestShape
<1>2. k \in R!Reads \cup R!Writes
  BY ParsedWords DEF R!Reads, R!Writes, R!IssueWrites, R!PullWrites
<1>3. k \in R!Numbered => R!number(q.number)
  <2>1. k \in R!Numbered => c.words \in NumberedWords /\ c.number # 0
    BY ParsedWords DEF R!Numbered
  <2> QED
    BY <2>1, RequestShape DEF R!number
<1>4. R!Mandatory(k) \subseteq DOMAIN q.args
  BY MandatoryGiven
<1>5. \A a \in DOMAIN q.args : R!validArg(k, a, q.args[a])
  BY ArgsAreValid
<1>6. /\ k = "issue_edit" => DOMAIN q.args \cap {"title", "body", "labels", "assignees"} # {}
      /\ k = "pull_edit" => DOMAIN q.args \cap {"title", "body", "base"} # {}
  BY EditsChange
<1>7. k = "issue_label_change" => R!validateIssueLabelChange(q)
  BY LabelChangeIsValid
<1> HIDE DEF k, q
<1>8. R!ValidateGitHubRequest(q)
  BY <1>1, <1>2, <1>3, <1>4, <1>5, <1>6, <1>7 DEF R!ValidateGitHubRequest
<1> QED
  BY <1>8 DEF q

(* What --json may select of a kind of record, the record has.               *)
LEMMA FieldsAreOffered ==
  ASSUME NEW c, parseArgs(c)
  PROVE  ToSet(selectedFields(c)) \subseteq
           R!recordFields(R!normalizer(operationKind(c))) \cup
           (IF operationKind(c) = "issue_list" THEN {"assignees"} ELSE {})
<1> DEFINE k == operationKind(c)
           offered == R!recordFields(R!normalizer(k)) \cup
                        (IF k = "issue_list" THEN {"assignees"} ELSE {})
<1>1. ToSet(selectedFields(c)) \subseteq responseFields(k)
  BY DEF parseArgs, validSelection
<1> HIDE DEF k
<1>2. CASE k \in {"issue_view", "issue_create", "issue_edit", "issue_close", "issue_reopen",
                  "issue_label_change"}
  <2>1. R!normalizer(k) = "issue"
    BY <1>2 DEF R!normalizer
  <2>2. responseFields(k) \subseteq IssueFields \cup {"comments"}
    BY <1>2 DEF responseFields
  <2> QED
    BY <1>1, <2>1, <2>2 DEF R!recordFields, IssueFields, k
<1>3. CASE k = "issue_list"
  <2>1. R!normalizer(k) = "issue_graphql"
    BY <1>3 DEF R!normalizer
  <2>2. responseFields(k) = IssueFields
    BY <1>3 DEF responseFields
  <2> QED
    BY <1>1, <1>3, <2>1, <2>2 DEF R!recordFields, IssueFields, k
<1>4. CASE k \in {"issue_comment", "pull_comment"}
  <2>1. R!normalizer(k) = "comment"
    BY <1>4 DEF R!normalizer
  <2>2. responseFields(k) = {"id", "author", "body", "url", "createdAt", "updatedAt"}
    BY <1>4 DEF responseFields
  <2> QED
    BY <1>1, <2>1, <2>2 DEF R!recordFields, k
<1>5. CASE k = "repository_view"
  <2>1. R!normalizer(k) = "repository"
    BY <1>5 DEF R!normalizer
  <2>2. responseFields(k) = R!recordFields("repository")
    BY <1>5 DEF responseFields, R!recordFields
  <2> QED
    BY <1>1, <2>1, <2>2 DEF k
<1>6. CASE k = "label_list"
  <2>1. R!normalizer(k) = "label"
    BY <1>6 DEF R!normalizer
  <2>2. responseFields(k) = R!recordFields("label")
    BY <1>6 DEF responseFields, R!recordFields
  <2> QED
    BY <1>1, <2>1, <2>2 DEF k
<1>7. CASE k = "pull_list"
  <2>1. R!normalizer(k) = "pull_list"
    BY <1>7 DEF R!normalizer
  <2>2. responseFields(k) = R!recordFields("pull_list")
    BY <1>7 DEF responseFields, R!recordFields, PullFields
  <2> QED
    BY <1>1, <2>1, <2>2 DEF k
<1>8. CASE k \in {"pull_view", "pull_create", "pull_edit", "pull_close", "pull_reopen", "pull_ready"}
  <2>1. R!normalizer(k) = "pull"
    BY <1>8 DEF R!normalizer
  <2>2. responseFields(k) = PullFields \cup {"mergeableState"}
    BY <1>8 DEF responseFields
  <2> QED
    BY <1>1, <2>1, <2>2 DEF R!recordFields, PullFields, k
<1>9. CASE k = "pull_checks"
  <2>1. R!normalizer(k) = "check"
    BY <1>9 DEF R!normalizer
  <2>2. responseFields(k) = R!recordFields("check")
    BY <1>9 DEF responseFields, R!recordFields
  <2> QED
    BY <1>1, <2>1, <2>2 DEF k
<1>10. CASE k = "run_list"
  <2>1. R!normalizer(k) = "run_list"
    BY <1>10 DEF R!normalizer
  <2>2. responseFields(k) = R!recordFields("run_list")
    BY <1>10 DEF responseFields, R!recordFields, RunFields
  <2> QED
    BY <1>1, <2>1, <2>2 DEF k
<1>11. CASE k = "run_view"
  <2>1. R!normalizer(k) = "run"
    BY <1>11 DEF R!normalizer
  <2>2. responseFields(k) = RunFields \cup {"attempt", "jobsUrl"}
    BY <1>11 DEF responseFields
  <2> QED
    BY <1>1, <2>1, <2>2 DEF R!recordFields, RunFields, k
<1>12. CASE k = "status_view"
  <2>1. R!normalizer(k) = "status"
    BY <1>12 DEF R!normalizer
  <2>2. responseFields(k) = R!recordFields("status")
    BY <1>12 DEF responseFields, R!recordFields
  <2> QED
    BY <1>1, <2>1, <2>2 DEF k
<1>13. CASE responseFields(k) = {}
  BY <1>1, <1>13 DEF k
<1>14. \/ responseFields(k) = {}
       \/ k \in {"issue_view", "issue_create", "issue_edit", "issue_close", "issue_reopen",
                "issue_label_change", "issue_list", "issue_comment", "pull_comment", "repository_view",
                "label_list", "pull_list", "pull_view", "pull_create", "pull_edit", "pull_close",
                "pull_reopen", "pull_ready", "pull_checks", "run_list", "run_view", "status_view"}
  BY DEF responseFields
<1> QED
  BY <1>2, <1>3, <1>4, <1>5, <1>6, <1>7, <1>8, <1>9, <1>10, <1>11, <1>12, <1>13, <1>14

-----------------------------------------------------------------------------
(* The reads of a call after, or without, its write. *)
Looking == {"view", "pages", "probe", "statuses"}

(* The context, and the status as the call's steps leave it. *)
CallShape ==
  /\ ctx \in {"live", "Canceled", "DeadlineExceeded"}
  /\ effect \in {"none", "sent", "applied", "failed"}
  /\ status.code \in {"pending", "OK"} \cup Open \cup Refusals
  /\ status.code = "pending" <=> pc # "done"

(* Where a call is says how far its write has come. *)
WriteShape ==
  /\ pc \in {"parse", "service", "gone", "preflight", "write"} => effect = "none"
  /\ pc \in {"preflight", "write", "answer"} => op \in R!Writes
  /\ pc \in Looking /\ op \in R!Writes => effect = "applied"
  /\ effect # "none" => op \in R!Writes

(* What a status says of the write. *)
StatusIsTrue ==
  /\ status.code = "OK" /\ op \in R!Writes => effect = "applied"
  /\ status.code \in Refusals => effect = "none"

(* What the preflights have made sure of. *)
KindChecked ==
  /\ (pc \in {"write", "answer"} \/ effect # "none") =>
       /\ op \in R!IssueWrites \ {"issue_create"} => KindOf(req.number) = "issue"
       /\ op = "pull_comment" => KindOf(req.number) = "pull"
  /\ KindsStayApart

(* What the client has made sure of, and what the service says of it. *)
ClientShape ==
  /\ cmd \in Commands
  /\ pc \notin {"parse", "gone"} \/ exit = "0" => parseArgs(cmd)
  /\ status.code = "InvalidArgument" => ~R!ValidateGitHubRequest(req)

CallInv == CallShape /\ WriteShape /\ StatusIsTrue /\ KindChecked /\ ClientShape
-----------------------------------------------------------------------------
(* The kinds of steps of a call, by what they do to the write: none of its   *)
(* business; a step on the way; its end; the request goes out; GitHub acts.  *)
Beside == UNCHANGED <<pc, effect, status>>

Walks ==
  /\ UNCHANGED <<effect, status>>
  /\ \/ pc = "parse" /\ (pc' = "gone" \/ (pc' = "service" /\ parseArgs(cmd)))
     \/ pc = "service" /\ pc' = firstStep
     \/ /\ pc = "preflight" /\ pc' = "write"
        /\ op \in R!IssueWrites \ {"issue_create"} => KindOf(req.number) = "issue"
        /\ op = "pull_comment" => KindOf(req.number) = "pull"
     \/ pc = "answer" /\ pc' = "view" /\ effect = "applied"
     \/ pc \in Looking /\ pc' \in Looking

Ends ==
  /\ pc' = "done" /\ effect' = effect
  /\ \/ status'.code \in Open /\ pc \in {"service", "preflight", "write", "answer"} \cup Looking
     \/ /\ status'.code \in Refusals /\ pc = "service"
        /\ status'.code = "InvalidArgument" => ~R!ValidateGitHubRequest(req)
     \/ status'.code = "OK" /\ pc \in Looking
     \/ status'.code = "OK" /\ pc = "answer" /\ effect = "applied"

Sends == pc = "write" /\ pc' = "answer" /\ effect' = "sent" /\ status' = status

Acts ==
  /\ effect = "sent" /\ UNCHANGED <<pc, status>>
  /\ \/ effect' = "failed"
     \/ effect' = "applied" /\ accepts(R!WriteResource(op))

(* Every step of a call is of one of these kinds. *)
LEMMA StepKinds ==
  ASSUME CallInv, [Next]_vars
  PROVE  /\ cmd' = cmd /\ ctx' \in {"live", "Canceled", "DeadlineExceeded"}
         /\ exit' = "0" => exit = "0" \/ pc = "done"
         /\ Beside \/ Walks \/ Ends \/ Sends \/ Acts
<1>0. /\ ctx \in {"live", "Canceled", "DeadlineExceeded"}
      /\ pc \in {"preflight", "write", "answer"} => op \in R!Writes
      /\ \A e \in Unsure : Error(Is({e})).code \in Open
      /\ Error(Is({})).code \in Open
      /\ Error(Is({"ErrInvalidArgument"})).code \in Refusals /\ Error(Is({"ErrDenied"})).code \in Refusals
      /\ OKStatus.code = "OK" /\ Error(Is({"ErrDenied"})).code # "InvalidArgument"
  BY StatusOf, StatusOfInvalid, OKIsOK DEF CallInv, CallShape, WriteShape
<1> USE <1>0 DEF Unsure, sameProgress, World
<1>1. CASE Parse
  <2>1. /\ cmd' = cmd /\ ctx' = ctx /\ UNCHANGED <<effect, status>> /\ pc = "parse"
        /\ exit' \in {"1", "2", exit}
    BY <1>1 DEF Parse, goto
  <2>2. pc' = "gone" \/ (pc' = "service" /\ parseArgs(cmd))
    BY <1>1, Zenon DEF Parse, goto
  <2>3. Walks
    BY <2>1, <2>2, Zenon DEF Walks
  <2> QED
    BY <2>1, <2>3
<1>2. CASE Deliver
  BY <1>2 DEF Deliver, Beside
<1>3. CASE Interrupt
  BY <1>3 DEF Interrupt, Beside
<1>4. CASE DeadlinePasses
  BY <1>4 DEF DeadlinePasses, Beside
<1>5. CASE Service
  BY <1>5 DEF Service, fail, goto, Walks, Ends
<1>6. CASE ReadFails
  BY <1>6 DEF ReadFails, Reading, Looking, callRefused, callErrors, fail, Ends
<1>7. CASE Preflight
  BY <1>7 DEF Preflight, found, reads, goto, malformed, fail, Walks, Ends, R!PreflightResource,
     R!IssueWrites
<1>8. CASE LabelPreflight
  BY <1>8 DEF LabelPreflight, found, reads, goto, malformed, fail, Walks, Ends, R!PreflightResource,
     R!IssueWrites
<1>9. CASE WriteRefused
  BY <1>9 DEF WriteRefused, writeRefused, callRefused, fail, Ends
<1>10. CASE Send
  BY <1>10 DEF Send, goto, Sends
<1>11. CASE Apply
  BY <1>11 DEF Apply, Acts
<1>12. CASE Drop
  BY <1>12 DEF Drop, Acts
<1>13. CASE AnswerFails
  BY <1>13 DEF AnswerFails, callErrors, fail, Ends
<1>14. CASE Answered
  BY <1>14 DEF Answered, goto, malformed, fail, respond, succeed, Walks, Ends
<1>15. CASE View
  BY <1>15 DEF View, reads, goto, malformed, fail, respond, succeed, Walks, Ends, Looking
<1>16. CASE IssuePage
  BY <1>16 DEF IssuePage, paging, reads, takeIssuePage, more, finish, malformed, fail, respond,
     succeed, Walks, Ends, Looking
<1>17. CASE LabelPage
  BY <1>17 DEF LabelPage, paging, reads, takeLabelPage, more, finish, malformed, fail, respond,
     succeed, Walks, Ends, Looking
<1>18. CASE CommentPage
  BY <1>18 DEF CommentPage, paging, reads, takeCommentPage, more, finish, malformed, fail, respond,
     succeed, Walks, Ends, Looking
<1>19. CASE Probe
  BY <1>19 DEF Probe, reads, finish, malformed, fail, respond, succeed, Walks, Ends, Looking
<1>20. CASE CheckPage
  BY <1>20 DEF CheckPage, reads, takeCheckPage, malformed, fail, respond, succeed, Walks, Ends, Looking
<1>21. CASE OtherLabels
  BY <1>21 DEF OtherLabels, byOthers, Beside
<1>22. CASE OtherInserts
  BY <1>22 DEF OtherInserts, byOthers, Beside
<1>23. CASE OtherDeletes
  BY <1>23 DEF OtherDeletes, byOthers, Beside
<1>24. CASE UNCHANGED vars
  BY <1>24 DEF vars, Beside
<1> QED
  BY <1>1, <1>2, <1>3, <1>4, <1>5, <1>6, <1>7, <1>8, <1>9, <1>10, <1>11, <1>12, <1>13, <1>14, <1>15,
     <1>16, <1>17, <1>18, <1>19, <1>20, <1>21, <1>22, <1>23, <1>24 DEF Next

(* A call begins with nothing sent and nothing said. *)
LEMMA CallInit == Init => CallInv
BY DEF Init, CallInv, CallShape, WriteShape, StatusIsTrue, KindChecked, KindsStayApart, ClientShape,
   Looking, Open, Refusals

(* Every step keeps the invariant. *)
LEMMA CallStep == CallInv /\ [Next]_vars => CallInv'
<1> SUFFICES ASSUME CallInv, [Next]_vars
             PROVE  CallInv'
  OBVIOUS
<1>a. /\ cmd' = cmd /\ ctx' \in {"live", "Canceled", "DeadlineExceeded"}
      /\ exit' = "0" => exit = "0" \/ pc = "done"
      /\ Beside \/ Walks \/ Ends \/ Sends \/ Acts
  BY StepKinds
<1>b. op' = op /\ req' = req
  BY <1>a DEF op, req
<1> USE <1>a, <1>b DEF CallInv, CallShape, WriteShape, StatusIsTrue, KindChecked, KindsStayApart,
    ClientShape, Looking, Open, Refusals
<1>1. CASE Beside
  BY <1>1 DEF Beside
<1>2. CASE Walks
  <2>1. CASE pc = "service"
    <3>1. /\ effect' = effect /\ status' = status /\ effect = "none"
          /\ pc' = firstStep
      BY <1>2, <2>1 DEF Walks
    <3>2. \/ firstStep \in {"pages", "view"} /\ op \notin R!Writes
          \/ firstStep = "preflight" /\ op \in R!Writes
          \/ /\ firstStep = "write" /\ op \in R!Writes
             /\ op \notin R!IssueWrites \ {"issue_create"} /\ op # "pull_comment"
      BY DEF firstStep, R!requiresPreflight, R!Writes, R!IssueWrites, R!PullWrites
    <3> QED
      BY <2>1, <3>1, <3>2
  <2>2. CASE pc # "service"
    BY <1>2, <2>2 DEF Walks
  <2> QED
    BY <2>1, <2>2
<1>3. CASE Ends
  BY <1>3 DEF Ends
<1>4. CASE Sends
  BY <1>4 DEF Sends
<1>5. CASE Acts
  BY <1>5 DEF Acts, accepts, R!WriteResource, R!PullWrites
<1> QED
  BY <1>1, <1>2, <1>3, <1>4, <1>5

(* The invariant holds throughout a command. *)
THEOREM CallCorrect == Spec => []CallInv
<1> QED
  BY CallInit, CallStep, PTL DEF Spec

(* For any commands, bounds and sizes: an issue command changes no pull     *)
(* request and a pr command no issue, though GitHub's issues endpoint        *)
(* would let the first happen (preflight, rejectPullIssue,                   *)
(* executeIssueLabelChange).                                                 *)
THEOREM KindsStayApartAlways == Spec => []KindsStayApart
<1>1. CallInv => KindsStayApart
  BY DEF CallInv, KindChecked
<1> QED
  BY <1>1, CallCorrect, PTL

(* For any command line: what gh's parsers let through, the service's        *)
(* validators (ValidateGitHubRequest) never refuse, but for the name of a    *)
(* new label with control characters; and what --json offers                 *)
(* (responseFields) is a field of the record, but for the assignees of an    *)
(* issue list.                                                               *)
THEOREM ClientAndServiceAgreeAlways == Spec => []ClientAndServiceAgree
<1>1. CallInv => ClientAndServiceAgree
  <2> SUFFICES ASSUME CallInv PROVE ClientAndServiceAgree
    OBVIOUS
  <2>1. ASSUME status.code = "InvalidArgument"
        PROVE  op = "label_create" /\ cmd.text.kind = "control"
    <3>1. cmd \in Commands /\ parseArgs(cmd) /\ ~R!ValidateGitHubRequest(assignOperation(cmd))
      BY <2>1 DEF CallInv, CallShape, ClientShape, req
    <3>2. OddLabel(cmd)
      BY <3>1, RequestIsValid
    <3> QED
      BY <3>2 DEF OddLabel, op
  <2>2. ASSUME exit = "0"
        PROVE  ToSet(selectedFields(cmd)) \subseteq
                 R!recordFields(R!normalizer(op)) \cup
                 (IF op = "issue_list" THEN {"assignees"} ELSE {})
    <3>1. parseArgs(cmd)
      BY <2>2 DEF CallInv, ClientShape
    <3> QED
      BY <3>1, FieldsAreOffered DEF op
  <2> QED
    BY <2>1, <2>2 DEF ClientAndServiceAgree
<1> QED
  BY <1>1, CallCorrect, PTL

-----------------------------------------------------------------------------
(* The list of labels that is written back, for any labels and any changes  *)
(* by others: from the preflight that read the issue's labels on, it names   *)
(* what the issue has, but for what the request changes and what others      *)
(* have touched.                                                             *)
Relabels == op = "issue_label_change"
Writing == pc \in {"write", "answer"} \/ effect = "sent"
ToAdd == ToSet(R!Arg(req, "add"))
ToRemove == ToSet(R!Arg(req, "remove"))

ListToWrite ==
  /\ \A l : l \notin ToAdd \cup ToRemove \cup touched => (l \in ToSet(changed) <=> l \in ToSet(labels))
  /\ ToAdd \subseteq ToSet(changed) /\ ToRemove \cap ToSet(changed) = {}

LabelInv ==
  /\ labels \in Seq(Texts) /\ changed \in Seq(Texts)
  /\ Relabels /\ Writing => ListToWrite

(* The two copies of Without are one. *)
LEMMA SameWithout == \A s, S : R!Without(s, S) = Without(s, S)
BY DEF R!Without, Without

(* changedLabels: what it keeps, adds and removes. *)
LEMMA ChangedLabels ==
  ASSUME NEW current \in Seq(Texts), NEW add \in Seq(Texts), NEW remove \in Seq(Texts)
  PROVE  /\ R!changedLabels(current, add, remove) \in Seq(Texts)
         /\ ToSet(R!changedLabels(current, add, remove)) =
              (ToSet(current) \ ToSet(remove)) \cup (ToSet(add) \ ToSet(current))
<1> DEFINE kept == Without(current, ToSet(remove))
           new == Without(add, ToSet(current))
<1>1. R!changedLabels(current, add, remove) = kept \o new
  BY SameWithout DEF R!changedLabels, R!ToSet, ToSet
<1>2. kept \in Seq(Texts) /\ ToSet(kept) = ToSet(current) \ ToSet(remove)
  BY WithoutIsSet
<1>3. new \in Seq(Texts) /\ ToSet(new) = ToSet(add) \ ToSet(current)
  BY WithoutIsSet
<1> HIDE DEF kept, new
<1>4. kept \o new \in Seq(Texts)
  BY <1>2, <1>3
<1> QED
  BY <1>1, <1>2, <1>3, <1>4, ConcatIsSet

(* Every step of a change of labels reads them, is another user's, is        *)
(* GitHub's, or leaves them and the list alone.                              *)
LEMMA LabelSteps ==
  ASSUME CallInv, [Next]_vars
  PROVE  \/ LabelPreflight \/ OtherLabels \/ Apply
         \/ UNCHANGED <<labels, changed, touched>> /\ (Relabels /\ Writing' => Writing)
<1>0. /\ cmd' = cmd
      /\ Beside \/ Walks \/ Ends \/ Sends \/ Acts
  BY StepKinds
<1> USE DEF sameProgress, World, Writing
<1>1. ASSUME Parse \/ Deliver \/ Interrupt \/ DeadlinePasses \/ ReadFails \/ WriteRefused \/ Send
             \/ AnswerFails
      PROVE  UNCHANGED <<labels, changed, touched>> /\ (Writing' => Writing)
  BY <1>1 DEF Parse, Deliver, Interrupt, DeadlinePasses, ReadFails, WriteRefused, Send, AnswerFails,
     goto, fail
<1>2. ASSUME Service PROVE UNCHANGED <<labels, changed, touched>> /\ (Relabels /\ Writing' => Writing)
  BY <1>2 DEF Service, goto, fail, firstStep, Relabels
<1>3. ASSUME Preflight PROVE UNCHANGED <<labels, changed, touched>> /\ (Relabels /\ Writing' => Writing)
  BY <1>3 DEF Preflight, reads, goto, malformed, fail, Relabels
<1>4. ASSUME Answered PROVE UNCHANGED <<labels, changed, touched>> /\ (Writing' => Writing)
  BY <1>4 DEF Answered, goto, malformed, fail, respond, succeed
<1>5. ASSUME View PROVE UNCHANGED <<labels, changed, touched>> /\ (Writing' => Writing)
  BY <1>5 DEF View, reads, goto, malformed, fail, respond, succeed
<1>6. ASSUME IssuePage PROVE UNCHANGED <<labels, changed, touched>> /\ (Writing' => Writing)
  BY <1>6 DEF IssuePage, paging, reads, takeIssuePage, more, finish, malformed, fail, respond, succeed
<1>7. ASSUME LabelPage PROVE UNCHANGED <<labels, changed, touched>> /\ (Writing' => Writing)
  BY <1>7 DEF LabelPage, paging, reads, takeLabelPage, more, finish, malformed, fail, respond, succeed
<1>8. ASSUME CommentPage PROVE UNCHANGED <<labels, changed, touched>> /\ (Writing' => Writing)
  BY <1>8 DEF CommentPage, paging, reads, takeCommentPage, more, finish, malformed, fail, respond,
     succeed
<1>9. ASSUME Probe PROVE UNCHANGED <<labels, changed, touched>> /\ (Writing' => Writing)
  BY <1>9 DEF Probe, reads, finish, malformed, fail, respond, succeed
<1>10. ASSUME CheckPage PROVE UNCHANGED <<labels, changed, touched>> /\ (Writing' => Writing)
  BY <1>10 DEF CheckPage, reads, takeCheckPage, malformed, fail, respond, succeed
<1>11. ASSUME Drop \/ OtherInserts \/ OtherDeletes \/ UNCHANGED vars
       PROVE  UNCHANGED <<labels, changed, touched>> /\ (Writing' => Writing)
  BY <1>11 DEF Drop, OtherInserts, OtherDeletes, byOthers, vars
<1> QED
  BY <1>1, <1>2, <1>3, <1>4, <1>5, <1>6, <1>7, <1>8, <1>9, <1>10, <1>11, Zenon DEF Next

(* What the request asks for does not change, and its two lists differ. *)
LEMMA LabelRequest ==
  ASSUME CallInv, Relabels, pc \notin {"parse", "gone"}
  PROVE  /\ R!Arg(req, "add") \in Seq(Texts) /\ R!Arg(req, "remove") \in Seq(Texts)
         /\ ToAdd \cap ToRemove = {}
<1>1. cmd \in Commands /\ parseArgs(cmd) /\ operationKind(cmd) = "issue_label_change"
  BY DEF CallInv, ClientShape, Relabels, op
<1> QED
  BY <1>1, LabelChangeIsValid DEF req, ToAdd, ToRemove

(* Every step keeps it. *)
LEMMA LabelStep == CallInv /\ LabelInv /\ [Next]_vars => LabelInv'
<1> SUFFICES ASSUME CallInv, LabelInv, [Next]_vars PROVE LabelInv'
  OBVIOUS
<1>0. op' = op /\ req' = req /\ Relabels' = Relabels /\ ToAdd' = ToAdd /\ ToRemove' = ToRemove
  <2>1. cmd' = cmd
    BY StepKinds
  <2> QED
    BY <2>1 DEF op, req, Relabels, ToAdd, ToRemove
<1>1. CASE LabelPreflight
  <2> DEFINE new == R!changedLabels(labels, R!Arg(req, "add"), R!Arg(req, "remove"))
  <2>1. /\ pc = "preflight" /\ effect' = effect /\ Relabels /\ labels' = labels /\ touched' = {}
        /\ \/ pc' = "done" /\ changed' = changed
           \/ pc' = "write" /\ changed' = new
    BY <1>1 DEF LabelPreflight, reads, malformed, fail, Relabels
  <2>2. effect = "none"
    BY <2>1 DEF CallInv, WriteShape
  <2>3. /\ R!Arg(req, "add") \in Seq(Texts) /\ R!Arg(req, "remove") \in Seq(Texts)
        /\ ToAdd \cap ToRemove = {}
    BY <2>1, LabelRequest
  <2>4. new \in Seq(Texts) /\ ToSet(new) = (ToSet(labels) \ ToRemove) \cup (ToAdd \ ToSet(labels))
    BY <2>3, ChangedLabels DEF LabelInv, ToAdd, ToRemove
  <2> HIDE DEF new
  <2>5. CASE pc' = "done" /\ changed' = changed
    BY <2>1, <2>2, <2>5 DEF LabelInv, Writing
  <2>6. CASE pc' = "write" /\ changed' = new
    <3>1. ListToWrite'
      BY <1>0, <2>1, <2>3, <2>4, <2>6 DEF ListToWrite
    <3>2. labels' \in Seq(Texts) /\ changed' \in Seq(Texts)
      BY <2>1, <2>4, <2>6 DEF LabelInv
    <3> QED
      BY <3>1, <3>2 DEF LabelInv
  <2> QED
    BY <2>1, <2>5, <2>6
<1>2. CASE OtherLabels
  <2>1. PICK l \in Labels :
          /\ labels' = IF Contains(labels, l) THEN Without(labels, {l}) ELSE Append(labels, l)
          /\ touched' = touched \cup {l}
    BY <1>2 DEF OtherLabels
  <2>2. UNCHANGED <<pc, effect, changed>>
    BY <1>2 DEF OtherLabels, byOthers
  <2>3. l \in Texts
    BY LabelAssumption
  <2>4. labels' \in Seq(Texts) /\ \A x : x # l => (x \in ToSet(labels') <=> x \in ToSet(labels))
    <3>1. Without(labels, {l}) \in Seq(Texts) /\ ToSet(Without(labels, {l})) = ToSet(labels) \ {l}
      BY WithoutIsSet DEF LabelInv
    <3>2. Append(labels, l) \in Seq(Texts) /\ ToSet(Append(labels, l)) = ToSet(labels) \cup {l}
      BY <2>3, AppendIsSet DEF LabelInv
    <3> QED
      BY <2>1, <3>1, <3>2
  <2>5. ListToWrite => ListToWrite'
    BY <1>0, <2>1, <2>2, <2>4 DEF ListToWrite
  <2>6. Writing' = Writing
    BY <2>2 DEF Writing
  <2> QED
    BY <1>0, <2>2, <2>4, <2>5, <2>6 DEF LabelInv
<1>3. CASE Apply
  <2>1. /\ effect = "sent" /\ changed' = changed /\ touched' = touched
        /\ labels' = IF Relabels THEN changed ELSE labels
    BY <1>3 DEF Apply, Relabels
  <2>2. Relabels => ListToWrite
    BY <2>1 DEF LabelInv, Writing
  <2>3. Relabels => ListToWrite'
    BY <1>0, <2>1, <2>2 DEF ListToWrite
  <2>4. labels' \in Seq(Texts) /\ changed' \in Seq(Texts)
    BY <2>1 DEF LabelInv
  <2> QED
    BY <1>0, <2>3, <2>4 DEF LabelInv
<1>4. CASE UNCHANGED <<labels, changed, touched>> /\ (Relabels /\ Writing' => Writing)
  <2>1. ListToWrite' = ListToWrite
    BY <1>0, <1>4 DEF ListToWrite
  <2> QED
    BY <1>0, <1>4, <2>1 DEF LabelInv
<1> QED
  BY <1>1, <1>2, <1>3, <1>4, LabelSteps

(* A change of labels keeps to its request throughout. *)
THEOREM LabelListCorrect == Spec => [](CallInv /\ LabelInv)
<1>1. Init => LabelInv
  <2> SUFFICES ASSUME Init PROVE LabelInv
    OBVIOUS
  <2>1. labels \in LabelSeqs \cup {<<>>} /\ changed = <<>> /\ pc = "parse" /\ effect = "none"
    BY DEF Init
  <2>2. <<>> \in Seq(Texts)
    OBVIOUS
  <2> QED
    BY <2>1, <2>2, LabelAssumption DEF LabelInv, Writing
<1> QED
  BY <1>1, CallInit, CallStep, LabelStep, PTL DEF Spec

(* For any labels and any changes by others: executeIssueLabelChange, which *)
(* writes the whole list back, changes beyond the request at most what       *)
(* another user touched since the list was read, and what it was asked to    *)
(* change is changed.                                                        *)
THEOREM LabelsAreKeptAlways == Spec => LabelsAreKept
<1> DEFINE Kept == (effect' # effect /\ effect' = "applied" /\ op = "issue_label_change") =>
                     LET old == ToSet(labels)
                         new == ToSet(labels')
                         add == ToSet(R!Arg(req, "add"))
                         remove == ToSet(R!Arg(req, "remove"))
                     IN  /\ (old \ new) \union (new \ old) \subseteq add \union remove \union touched
                         /\ add \subseteq new /\ remove \cap new = {}
<1>1. CallInv /\ LabelInv /\ [Next]_vars => [Kept]_vars
  <2> SUFFICES ASSUME CallInv, LabelInv, [Next]_vars, effect' # effect, effect' = "applied", Relabels
               PROVE  /\ (ToSet(labels) \ ToSet(labels')) \cup (ToSet(labels') \ ToSet(labels)) \subseteq
                            ToAdd \cup ToRemove \cup touched
                      /\ ToAdd \subseteq ToSet(labels') /\ ToRemove \cap ToSet(labels') = {}
    BY DEF ToAdd, ToRemove, Relabels
  <2>1. effect = "sent" /\ labels' = changed
    <3>1. Apply
      BY DEF Next, vars, Parse, Deliver, Interrupt, DeadlinePasses, Service, ReadFails, Preflight,
         LabelPreflight, WriteRefused, Send, Drop, AnswerFails, Answered, View, IssuePage,
         LabelPage, CommentPage, Probe, CheckPage, OtherLabels, OtherInserts, OtherDeletes, sameProgress,
         reads, paging, byOthers
    <3> QED
      BY <3>1 DEF Apply, Relabels
  <2>2. ListToWrite
    BY <2>1 DEF LabelInv, Writing
  <2> QED
    BY <2>1, <2>2 DEF ListToWrite
<1> QED
  BY <1>1, LabelListCorrect, PTL DEF Spec, LabelsAreKept

-----------------------------------------------------------------------------
(* The paging loops, for any page bounds and any changes by others.  What    *)
(* was there when the call began is told from what came later by its number  *)
(* (Old).  A list by cursor holds everything up to its cursor (ByCursor); a  *)
(* list by offset holds what is left of the first entries of its source, as  *)
(* long as nothing was deleted, and nothing that comes after them, as long   *)
(* as nothing was inserted (ByOffset).                                       *)
Old == {i \in Nat : i <= 9 \/ i \in 21..29}
Loop == {"pages", "probe", "statuses"}
ListType == [records : Seq(Nat), page : Nat \ {0}, cursor : Nat, cursors : SUBSET (Nat \ {0}),
             seen : Nat, start : Nat, pages : Nat]

(* The collections: numbers without repetition, none as high as the next. *)
CollShape ==
  /\ coll \in [main : Seq(Nat), status : Seq(Nat)]
  /\ changes \in [deleted : Nat, inserted : Nat]
  /\ IsInjective(coll.main) /\ IsInjective(coll.status) /\ 0 \notin ToSet(coll.main)
  /\ \A x \in ToSet(coll.main) \cup ToSet(coll.status) : x < 30 + changes.inserted
  /\ changes.inserted = 0 => ToSet(coll.main) \subseteq 1..9 /\ ToSet(coll.status) \subseteq 21..29
  /\ op # "pull_checks" => coll.status = <<>>
  /\ op = "issue_list" => Ascending(coll.main)

ListShape ==
  /\ list \in ListType
  /\ pc \in {"parse", "service", "gone", "preflight", "write", "answer", "view"} => list = NoList
  /\ pc = "pages" => Paged
  /\ pc = "probe" => op = "issue_view" /\ Paged /\ list.page = MaxCommentPages
  /\ pc = "statuses" => op = "pull_checks"
  /\ pc = "view" => op \notin {"issue_list", "label_list"}
  /\ (op = "issue_view" /\ pc = "pages") => list.page <= MaxCommentPages

ByCursor ==
  /\ Ascending(list.records) /\ \A x \in ToSet(list.records) : x <= list.cursor
  /\ list.cursor < 30 + changes.inserted
  /\ \A x \in ToSet(coll.main) : x <= list.cursor => x \in ToSet(list.records)
  /\ Len(list.records) < listLimitOf

Source == IF pc = "statuses" THEN coll.status ELSE coll.main
Behind == IF pc = "probe" THEN Before(list.page, PageSize) + PageSize ELSE Before(list.page, PageSize)

ByOffset ==
  /\ op = "label_list" => Len(list.records) < listLimitOf
  /\ changes.deleted = 0 =>
       /\ Reached(Source, Behind, list.records, Old)
       /\ pc = "statuses" => ToSet(coll.main) \cap Old \subseteq ToSet(list.records)
  /\ changes.inserted = 0 =>
       /\ IsInjective(list.records) /\ Untouched(Source, Behind, list.records)
       /\ pc = "pages" => ToSet(list.records) \subseteq 1..9

ListInv ==
  /\ CollShape /\ ListShape /\ ListsMissNothing
  /\ op = "issue_list" /\ pc = "pages" => ByCursor
  /\ op # "issue_list" /\ pc \in Loop => ByOffset

(* A list that may be as long as --limit says: the limit is a number. *)
LEMMA LimitIs ==
  ASSUME CallInv, pc \notin {"parse", "gone"}, op \in {"issue_list", "label_list"}
  PROVE  listLimitOf \in Nat \ {0}
<1>1. cmd \in Commands /\ parseArgs(cmd) /\ ~OddLabel(cmd)
  BY DEF CallInv, ClientShape, OddLabel, op
<1>2. R!ValidateGitHubRequest(req) /\ req.op = op
  BY <1>1, RequestIsValid, RequestShape DEF req, op
<1>3. "limit" \in DOMAIN req.args
  BY <1>2 DEF R!ValidateGitHubRequest, R!Mandatory
<1>4. R!validArg(op, "limit", req.args["limit"])
  BY <1>2, <1>3 DEF R!ValidateGitHubRequest
<1>5. R!limit(req.args["limit"], 1001) \/ R!limit(req.args["limit"], 1000)
  BY <1>4 DEF R!validArg
<1>6. \A n, m : m \in Nat /\ R!limit(n, m) => n \in Nat \ {0}
  BY DEF R!limit
<1> QED
  BY <1>5, <1>6 DEF listLimitOf

(* A call that ends, its list being whatever it is. *)
Fails == pc' = "done" /\ status'.code \in Open /\ list' \in ListType
Lasts == UNCHANGED <<cmd, coll, changes>>

LEMMA SameCommand ==
  ASSUME cmd' = cmd
  PROVE  /\ op' = op /\ req' = req /\ Paged' = Paged /\ listLimitOf' = listLimitOf
         /\ withComments' = withComments
BY DEF op, req, Paged, withComments, listLimitOf

LEMMA SameColl == ASSUME Lasts, CollShape PROVE CollShape'
<1>1. op' = op
  BY SameCommand DEF Lasts
<1> QED
  BY <1>1 DEF CollShape, Lasts

LEMMA FailsIsFine ==
  ASSUME ListInv, Lasts, Fails
  PROVE  ListInv'
<1>1. CollShape'
  BY SameColl DEF ListInv
<1>2. status'.code # "OK"
  BY DEF Fails, Open
<1> QED
  BY <1>1, <1>2 DEF ListInv, ListShape, Fails, Loop, ListsMissNothing

LEMMA FinishIsFine ==
  ASSUME ListInv, Lasts, pc' = "done", list' \in ListType, ListsMissNothing'
  PROVE  ListInv'
<1>1. CollShape'
  BY SameColl DEF ListInv
<1> QED
  BY <1>1 DEF ListInv, ListShape, Loop

(* --- Issues, by cursor ---------------------------------------------------- *)
(* What is left behind the cursor, and the page that GitHub makes of it. *)
Rest == Without(coll.main, 0..list.cursor)
Take == Min({firstOf, Len(Rest)})
Nodes == SubSeq(Rest, 1, Take)
Cursor == IF Take = 0 THEN 0 ELSE Nodes[Take]

LEMMA RestIs ==
  ASSUME CallInv, ListInv, pc = "pages", op = "issue_list"
  PROVE  /\ listLimitOf \in Nat \ {0} /\ list.records \in Seq(Nat) /\ Len(list.records) < listLimitOf
         /\ firstOf \in 1..(listLimitOf - Len(list.records))
         /\ Rest \in Seq(Nat) /\ Ascending(Rest)
         /\ ToSet(Rest) = ToSet(coll.main) \ 0..list.cursor
         /\ Take \in 0..Len(Rest) /\ Take <= firstOf
         /\ Take < firstOf => Take = Len(Rest)
<1>1. listLimitOf \in Nat \ {0}
  BY LimitIs
<1>2. list.records \in Seq(Nat) /\ Len(list.records) < listLimitOf /\ list.cursor \in Nat
  BY DEF ListInv, ListShape, ListType, ByCursor
<1>3. coll.main \in Seq(Nat) /\ Ascending(coll.main)
  BY DEF ListInv, CollShape
<1>4. Len(list.records) \in Nat
  BY <1>2
<1>5. firstOf \in 1..(listLimitOf - Len(list.records))
  <2>1. PageSize \in Nat \ {0}
    BY PageAssumption
  <2>2. firstOf = IF PageSize <= listLimitOf - Len(list.records) THEN PageSize
                  ELSE listLimitOf - Len(list.records)
    BY <1>1, <1>4, <2>1, MinOfTwo DEF firstOf
  <2> HIDE DEF firstOf
  <2> QED
    BY <1>1, <1>2, <1>4, <2>1, <2>2
<1>6. Rest \in Seq(Nat) /\ ToSet(Rest) = ToSet(coll.main) \ 0..list.cursor
  BY <1>3, WithoutIsSet DEF Rest
<1>7. Ascending(Rest)
  <2>1. \A i, j \in 1..Len(coll.main) : i < j => coll.main[i] < coll.main[j]
    BY <1>3 DEF Ascending
  <2> QED
    BY <1>3, <2>1, AscendingWithout DEF Rest
<1>8. Take = IF firstOf <= Len(Rest) THEN firstOf ELSE Len(Rest)
  <2>1. firstOf \in Int /\ Len(Rest) \in Int
    BY <1>1, <1>4, <1>5, <1>6
  <2> QED
    BY <2>1, MinOfTwo DEF Take
<1>9. /\ Take \in 0..Len(Rest) /\ Take <= firstOf
      /\ Take < firstOf => Take = Len(Rest)
  <2>1. firstOf \in Nat /\ Len(Rest) \in Nat
    BY <1>1, <1>4, <1>5, <1>6
  <2> HIDE DEF Take
  <2> QED
    BY <1>8, <2>1
<1> QED
  BY <1>1, <1>2, <1>5, <1>6, <1>7, <1>9

(* The page, and the records with it. *)
LEMMA TakenIs ==
  ASSUME CallInv, ListInv, pc = "pages", op = "issue_list"
  PROVE  /\ Nodes \in Seq(Nat) /\ Len(Nodes) = Take /\ \A i \in 1..Take : i \in 1..Len(Rest) /\ Nodes[i] = Rest[i]
         /\ list.records \o Nodes \in Seq(Nat)
         /\ Len(list.records \o Nodes) = Len(list.records) + Take
         /\ ToSet(list.records \o Nodes) = ToSet(list.records) \cup ToSet(Nodes)
         /\ Ascending(list.records \o Nodes)
         /\ \A x \in ToSet(coll.main) : x <= list.cursor => x \in ToSet(list.records)
<1>1. /\ list.records \in Seq(Nat) /\ Rest \in Seq(Nat) /\ Ascending(Rest) /\ Take \in 0..Len(Rest)
      /\ ToSet(Rest) = ToSet(coll.main) \ 0..list.cursor
  BY RestIs
<1>2. /\ Nodes \in Seq(Nat) /\ Len(Nodes) = Take /\ ToSet(Nodes) \subseteq ToSet(Rest)
      /\ \A i \in 1..Take : i \in 1..Len(Rest) /\ Nodes[i] = Rest[i]
  BY <1>1, PrefixIs DEF Nodes
<1>3. Ascending(Nodes)
  BY <1>1, AscendingPrefix DEF Nodes
<1>4. /\ Ascending(list.records) /\ \A x \in ToSet(list.records) : x <= list.cursor
      /\ \A x \in ToSet(coll.main) : x <= list.cursor => x \in ToSet(list.records)
      /\ list.cursor \in Nat /\ coll.main \in Seq(Nat)
  BY DEF ListInv, ByCursor, ListShape, ListType, CollShape
<1>a. ToSet(list.records) \subseteq Nat /\ ToSet(coll.main) \subseteq Nat
  BY <1>1, <1>4 DEF ToSet
<1> HIDE DEF Nodes, Take, Rest
<1>5. \A x \in ToSet(list.records), y \in ToSet(Nodes) : x < y
  <2> TAKE x \in ToSet(list.records), y \in ToSet(Nodes)
  <2>1. y \in Nat /\ y \notin 0..list.cursor /\ x \in Nat /\ x <= list.cursor
    BY <1>1, <1>2, <1>4, <1>a
  <2> QED
    BY <1>4, <2>1
<1>6. Ascending(list.records \o Nodes)
  BY <1>1, <1>2, <1>3, <1>4, <1>5, AscendingConcat
<1>7. ToSet(list.records \o Nodes) = ToSet(list.records) \cup ToSet(Nodes)
  BY <1>1, <1>2, ConcatIsSet
<1>8. list.records \o Nodes \in Seq(Nat) /\ Len(list.records \o Nodes) = Len(list.records) + Take
  <2>1. Nodes \in Seq(Nat) /\ Len(Nodes) = Take
    BY <1>2
  <2>2. list.records \o Nodes \in Seq(Nat) /\ Len(list.records \o Nodes) = Len(list.records) + Len(Nodes)
    BY <1>1, <2>1, ConcatIsSeq, Zenon
  <2> QED
    BY <2>1, <2>2, Zenon
<1> QED
  BY <1>2, <1>4, <1>6, <1>7, <1>8

(* Of the pages that GitHub may answer, only that one gets on. *)
Refused(p) ==
  \/ Len(p.nodes) > firstOf \/ (p.cursor # 0 /\ p.cursor \in list.cursors)
  \/ p.next /\ (p.nodes = <<>> \/ p.cursor = 0)

LEMMA PagesAre ==
  ASSUME CallInv, ListInv, pc = "pages", op = "issue_list", NEW p \in issuePages(firstOf), ~Refused(p)
  PROVE  p.nodes = Nodes /\ (p.next <=> Len(Rest) > Take) /\ p.cursor = Cursor
<1> DEFINE honest == [nodes |-> Nodes, next |-> Len(Rest) > Take, cursor |-> Cursor]
<1>1. issuePages(firstOf) =
        {honest, [honest EXCEPT !.nodes = <<>>, !.next = TRUE],
         [honest EXCEPT !.cursor = 0, !.next = TRUE], [honest EXCEPT !.nodes = Rest]} \cup
        {[nodes |-> pageOf(coll.main, 1, firstOf), next |-> TRUE, cursor |-> c] : c \in list.cursors}
  BY DEF issuePages, Rest, Take, Nodes, Cursor
<1>2. 0 \notin list.cursors
  BY DEF ListInv, ListShape, ListType
<1>3. /\ Rest \in Seq(Nat) /\ Take \in 0..Len(Rest) /\ firstOf \in Int
      /\ Take < firstOf => Take = Len(Rest)
  <2>1. firstOf \in 1..(listLimitOf - Len(list.records))
    BY RestIs
  <2>2. firstOf \in Int
    BY <2>1
  <2> QED
    BY <2>2, RestIs
<1> HIDE DEF Rest, Take, Nodes, Cursor, firstOf
<1>4. CASE p = honest
  BY <1>4
<1>5. CASE p = [honest EXCEPT !.nodes = <<>>, !.next = TRUE]
  BY <1>5 DEF Refused
<1>6. CASE p = [honest EXCEPT !.cursor = 0, !.next = TRUE]
  BY <1>6 DEF Refused
<1>7. CASE p = [honest EXCEPT !.nodes = Rest]
  <2>1. p.nodes = Rest /\ p.next = (Len(Rest) > Take) /\ p.cursor = Cursor
    BY <1>7
  <2>2. ~(Len(Rest) > firstOf)
    BY <2>1 DEF Refused
  <2>3. Take = Len(Rest)
    BY <1>3, <2>2, RestIs
  <2>4. Nodes = Rest
    BY <1>3, <2>3 DEF Nodes
  <2> QED
    BY <2>1, <2>4
<1>8. CASE \E c \in list.cursors :
             p = [nodes |-> pageOf(coll.main, 1, firstOf), next |-> TRUE, cursor |-> c]
  BY <1>2, <1>8 DEF Refused
<1> QED
  BY <1>1, <1>4, <1>5, <1>6, <1>7, <1>8

(* What becomes of the loop with one page. *)
LEMMA IssueOutcome ==
  ASSUME CallInv, ListInv, IssuePage
  PROVE  /\ Lasts /\ pc = "pages" /\ op = "issue_list"
         /\ \/ Fails
            \/ /\ pc' = "done" /\ status' = OKStatus
               /\ list' = [list EXCEPT !.records = list.records \o Nodes]
               /\ Len(Rest) = Take \/ ~(Len(list.records \o Nodes) < listLimitOf)
            \/ /\ pc' = "pages" /\ status' = status
               /\ list' = [list EXCEPT !.records = list.records \o Nodes, !.page = @ + 1,
                                       !.cursor = Cursor, !.cursors = @ \cup {Cursor}]
               /\ Cursor # 0 /\ Len(list.records \o Nodes) < listLimitOf
<1>1. PICK s \in Sizes, lacks \in fields("issue_graphql") :
        /\ paging(s)
        /\ IF lacks \in R!Required("issue_graphql") THEN malformed
           ELSE \E p \in issuePages(firstOf) : takeIssuePage(p, firstOf, used + s)
  BY DEF IssuePage
<1>2. Lasts /\ pc = "pages" /\ op = "issue_list"
  BY <1>1 DEF IssuePage, paging, reads, World, Lasts
<1>3. list \in ListType /\ Error(Is({})).code \in Open /\ Error(Is({"ErrOutputLimit"})).code \in Open
  BY StatusOf DEF ListInv, ListShape, Unsure
<1>4. malformed => Fails
  BY <1>3 DEF malformed, fail, Fails
<1>5. CASE lacks \in R!Required("issue_graphql")
  BY <1>1, <1>2, <1>4, <1>5
<1>6. CASE lacks \notin R!Required("issue_graphql")
  <2>1. PICK p \in issuePages(firstOf) : takeIssuePage(p, firstOf, used + s)
    BY <1>1, <1>6
  <2>2. CASE Refused(p)
    <3>1. malformed
      BY <2>1, <2>2 DEF takeIssuePage, Refused
    <3> QED
      BY <1>2, <1>4, <3>1
  <2>3. CASE ~Refused(p)
    <3>1. p.nodes = Nodes /\ (p.next <=> Len(Rest) > Take) /\ p.cursor = Cursor
      BY <1>2, <2>3, PagesAre
    <3>2. Len(list.records \o Nodes) \in Int /\ listLimitOf \in Int /\ list.records \o Nodes \in Seq(Nat)
      <4>1. list.records \o Nodes \in Seq(Nat)
        BY <1>2, TakenIs
      <4> QED
        BY <4>1, <1>2, RestIs
    <3>a. Rest \in Seq(Nat) /\ Take \in 0..Len(Rest)
      BY <1>2, RestIs
    <3>3. ~(Len(Rest) > Take) => Len(Rest) = Take
      BY <3>a
    <3> DEFINE records == list.records \o Nodes
    <3> HIDE DEF records
    <3>4. \/ ~p.next /\ finish(records, used + s)
          \/ p.next /\ ~(Len(records) < listLimitOf) /\ finish(records, used + s)
          \/ /\ p.next /\ p.cursor # 0 /\ Len(records) < listLimitOf
             /\ more([list EXCEPT !.records = records, !.page = @ + 1,
                                  !.cursor = p.cursor, !.cursors = @ \cup {p.cursor}])
      <4>1. ~(Len(p.nodes) > firstOf \/ (p.cursor # 0 /\ p.cursor \in list.cursors))
        BY <2>3 DEF Refused
      <4>2. p.next => ~(p.nodes = <<>> \/ p.cursor = 0)
        BY <2>3 DEF Refused
      <4>3. Len(records) >= listLimitOf <=> ~(Len(records) < listLimitOf)
        BY <3>2 DEF records
      <4>4. records = list.records \o p.nodes
        BY <3>1 DEF records
      <4> HIDE DEF records
      <4>5. IF ~p.next THEN finish(records, used + s)
            ELSE IF Len(records) >= listLimitOf THEN finish(records, used + s)
            ELSE more([list EXCEPT !.records = records, !.page = @ + 1,
                                   !.cursor = p.cursor, !.cursors = @ \cup {p.cursor}])
        BY <2>1, <4>1, <4>2, <4>4 DEF takeIssuePage
      <4> QED
        BY <4>2, <4>3, <4>5
    <3>5. finish(records, used + s) =>
            \/ Fails
            \/ pc' = "done" /\ status' = OKStatus /\ list' = [list EXCEPT !.records = records]
      <4>1. [list EXCEPT !.records = records] \in ListType
        BY <1>3, <3>2 DEF ListType, records
      <4> QED
        BY <1>3, <4>1 DEF finish, respond, succeed, Fails
    <3> QED
      BY <1>2, <3>1, <3>3, <3>4, <3>5 DEF more, records
  <2> QED
    BY <2>2, <2>3
<1> QED
  BY <1>5, <1>6

(* Everything behind the cursor is in the page, or comes after it. *)
LEMMA NextCursor ==
  ASSUME CallInv, ListInv, pc = "pages", op = "issue_list"
  PROVE  /\ Len(Rest) = Take => ToSet(coll.main) \subseteq ToSet(list.records \o Nodes)
         /\ Cursor # 0 =>
              /\ Cursor \in ToSet(coll.main) /\ Cursor \in Nat
              /\ \A x \in ToSet(list.records \o Nodes) : x <= Cursor
              /\ \A x \in ToSet(coll.main) : x <= Cursor => x \in ToSet(list.records \o Nodes)
<1>1. /\ Rest \in Seq(Nat) /\ Ascending(Rest) /\ Take \in 0..Len(Rest)
      /\ ToSet(Rest) = ToSet(coll.main) \ 0..list.cursor
  BY RestIs
<1>2. /\ Nodes \in Seq(Nat) /\ Len(Nodes) = Take
      /\ \A i \in 1..Take : i \in 1..Len(Rest) /\ Nodes[i] = Rest[i]
      /\ ToSet(list.records \o Nodes) = ToSet(list.records) \cup ToSet(Nodes)
      /\ \A x \in ToSet(coll.main) : x <= list.cursor => x \in ToSet(list.records)
  BY TakenIs
<1>3. /\ \A x \in ToSet(list.records) : x <= list.cursor
      /\ list.cursor \in Nat /\ coll.main \in Seq(Nat) /\ list.records \in Seq(Nat)
  BY DEF ListInv, ByCursor, ListShape, ListType, CollShape
<1>4. ToSet(coll.main) \subseteq Nat /\ ToSet(list.records) \subseteq Nat
  BY <1>3 DEF ToSet
<1>5. \A x \in ToSet(coll.main) : x \in ToSet(list.records) \/ \E i \in 1..Len(Rest) : x = Rest[i]
  <2> TAKE x \in ToSet(coll.main)
  <2>1. x <= list.cursor \/ x \in ToSet(Rest)
    BY <1>1, <1>3, <1>4
  <2> QED
    BY <1>1, <1>2, <2>1 DEF ToSet
<1>6. \A i \in 1..Take : Nodes[i] \in ToSet(Nodes)
  BY <1>2 DEF ToSet
<1>7. Len(Rest) = Take => ToSet(coll.main) \subseteq ToSet(list.records \o Nodes)
  BY <1>2, <1>5, <1>6
<1>8. ASSUME Cursor # 0
      PROVE  /\ Cursor \in ToSet(coll.main) /\ Cursor \in Nat
             /\ \A x \in ToSet(list.records \o Nodes) : x <= Cursor
             /\ \A x \in ToSet(coll.main) : x <= Cursor => x \in ToSet(list.records \o Nodes)
  <2>1. Take \in 1..Len(Rest) /\ Cursor = Rest[Take]
    <3>1. Take # 0 /\ Cursor = Nodes[Take]
      BY <1>8 DEF Cursor
    <3>2. Take \in 1..Len(Rest) /\ Take \in 1..Take
      BY <1>1, <3>1
    <3> QED
      BY <1>2, <3>1, <3>2
  <2> HIDE DEF Cursor, Take, Rest, Nodes
  <2>2. Cursor \in ToSet(Rest)
    BY <1>1, <2>1 DEF ToSet
  <2>3. Cursor \in ToSet(coll.main) /\ Cursor \in Nat /\ Cursor > list.cursor
    BY <1>1, <1>3, <1>4, <2>2
  <2>4. \A i \in 1..Len(Rest) : i <= Take <=> Rest[i] <= Cursor
    <3> TAKE i \in 1..Len(Rest)
    <3>1. Rest[i] \in Nat /\ i \in Int /\ Take \in Int
      BY <1>1, <2>1
    <3>2. i < Take => Rest[i] < Cursor
      BY <1>1, <2>1 DEF Ascending
    <3>3. Take < i => Cursor < Rest[i]
      BY <1>1, <2>1 DEF Ascending
    <3>4. i = Take => Rest[i] = Cursor
      BY <2>1
    <3> QED
      BY <2>3, <3>1, <3>2, <3>3, <3>4
  <2>5. \A x \in ToSet(Nodes) : x <= Cursor
    <3>1. \A x \in ToSet(Nodes) : \E i \in 1..Take : x = Nodes[i]
      BY <1>2 DEF ToSet
    <3>2. \A i \in 1..Take : i <= Take
      BY <2>1
    <3> QED
      BY <1>2, <2>4, <3>1, <3>2
  <2>6. \A x \in ToSet(list.records) : x <= Cursor
    BY <1>3, <1>4, <2>3
  <2>7. ASSUME NEW x \in ToSet(coll.main), x <= Cursor PROVE x \in ToSet(list.records) \cup ToSet(Nodes)
    <3>1. CASE \E i \in 1..Len(Rest) : x = Rest[i]
      <4>1. PICK i \in 1..Len(Rest) : x = Rest[i]
        BY <3>1
      <4>2. i <= Take
        BY <2>4, <2>7, <4>1
      <4>3. i \in 1..Take
        BY <1>1, <2>1, <4>2
      <4> QED
        BY <1>2, <1>6, <4>1, <4>3
    <3> QED
      BY <1>5, <3>1
  <2> QED
    BY <1>2, <2>3, <2>5, <2>6, <2>7
<1> QED
  BY <1>7, <1>8

LEMMA IssuePageStep == ASSUME CallInv, ListInv, IssuePage PROVE ListInv'
<1> DEFINE records == list.records \o Nodes
<1>1. Lasts /\ pc = "pages" /\ op = "issue_list"
  BY IssueOutcome
<1>2. /\ op' = op /\ Paged' = Paged /\ listLimitOf' = listLimitOf /\ coll' = coll /\ changes' = changes
  BY <1>1, SameCommand DEF Lasts
<1>3. records \in Seq(Nat) /\ Ascending(records) /\ Len(records) = Len(list.records) + Take
  BY <1>1, TakenIs
<1>4. Len(records) <= listLimitOf
  <2>1. /\ listLimitOf \in Nat /\ list.records \in Seq(Nat) /\ Take <= firstOf /\ Rest \in Seq(Nat)
        /\ firstOf \in 1..(listLimitOf - Len(list.records)) /\ Take \in 0..Len(Rest)
    BY <1>1, RestIs
  <2>2. Len(list.records) \in Nat /\ Take \in Nat
    BY <2>1
  <2>3. firstOf \in Int /\ firstOf <= listLimitOf - Len(list.records)
    BY <2>1, <2>2
  <2>4. Len(list.records) + Take <= listLimitOf
    BY <2>1, <2>2, <2>3
  <2> QED
    BY <1>3, <2>4
<1>5. list \in ListType /\ CollShape
  BY DEF ListInv, ListShape
<1> HIDE DEF records
<1>6. CASE Fails
  BY <1>1, <1>6, FailsIsFine
<1>7. CASE /\ pc' = "done" /\ status' = OKStatus /\ list' = [list EXCEPT !.records = records]
           /\ Len(Rest) = Take \/ ~(Len(records) < listLimitOf)
  <2>1. list'.records = records /\ list' \in ListType
    BY <1>3, <1>5, <1>7 DEF ListType
  <2>2. IsInjective(records)
    BY <1>3, AscendingIsInjective
  <2>3. Len(records) = listLimitOf \/ ToSet(coll.main) \subseteq ToSet(records)
    <3>1. CASE Len(Rest) = Take
      BY <1>1, <3>1, NextCursor DEF records
    <3>2. CASE ~(Len(records) < listLimitOf)
      <4>1. Len(records) \in Int /\ listLimitOf \in Int
        BY <1>1, <1>3, RestIs
      <4> QED
        BY <1>4, <3>2, <4>1
    <3> QED
      BY <1>7, <3>1, <3>2
  <2>4. stable' \subseteq ToSet(coll.main)
    <3>1. coll.main \in Seq(Nat) /\ coll.status = <<>>
      BY <1>1, <1>5 DEF CollShape
    <3>2. coll.main \o coll.status = coll.main
      BY <3>1
    <3> QED
      BY <1>2, <3>2 DEF stable
  <2>5. ListsMissNothing'
    BY <1>1, <1>2, <1>4, <2>1, <2>2, <2>3, <2>4 DEF ListsMissNothing
  <2> QED
    BY <1>1, <1>7, <2>1, <2>5, FinishIsFine
<1>8. CASE /\ pc' = "pages" /\ status' = status
           /\ list' = [list EXCEPT !.records = records, !.page = @ + 1,
                                   !.cursor = Cursor, !.cursors = @ \cup {Cursor}]
           /\ Cursor # 0 /\ Len(records) < listLimitOf
  <2>1. /\ Cursor \in ToSet(coll.main) /\ Cursor \in Nat
        /\ \A x \in ToSet(records) : x <= Cursor
        /\ \A x \in ToSet(coll.main) : x <= Cursor => x \in ToSet(records)
    BY <1>1, <1>8, NextCursor DEF records
  <2> HIDE DEF Cursor
  <2>2. list'.records = records /\ list'.cursor = Cursor /\ list' \in ListType
    <3>1. list.page + 1 \in Nat \ {0} /\ list.cursors \cup {Cursor} \in SUBSET (Nat \ {0})
      BY <1>5, <1>8, <2>1 DEF ListType
    <3>2. list' = [list EXCEPT !.records = records, !.page = list.page + 1, !.cursor = Cursor,
                               !.cursors = list.cursors \cup {Cursor}]
      BY <1>8
    <3> QED
      BY <1>3, <1>5, <2>1, <3>1, <3>2 DEF ListType
  <2>3. CollShape'
    BY <1>1, <1>5, SameColl
  <2>4. Cursor < 30 + changes.inserted
    BY <1>5, <2>1 DEF CollShape
  <2>5. ByCursor'
    BY <1>2, <1>3, <1>8, <2>1, <2>2, <2>4 DEF ByCursor
  <2>6. ListShape'
    BY <1>1, <1>2, <1>8, <2>2 DEF ListShape, Paged
  <2>7. ListsMissNothing'
    <3>1. status.code # "OK"
      BY <1>1 DEF CallInv, CallShape
    <3> QED
      BY <1>8, <3>1 DEF ListsMissNothing
  <2> QED
    BY <1>1, <1>2, <2>3, <2>5, <2>6, <2>7 DEF ListInv
<1> QED
  BY <1>6, <1>7, <1>8, IssueOutcome DEF records

(* --- Labels, comments and checks, by offset -------------------------------- *)
LEMMA OffsetIs ==
  ASSUME ListInv, pc \in Loop, op # "issue_list"
  PROVE  /\ ByOffset /\ CollShape /\ list \in ListType
         /\ coll.main \in Seq(Nat) /\ coll.status \in Seq(Nat)
         /\ IsInjective(coll.main) /\ IsInjective(coll.status)
         /\ list.records \in Seq(Nat) /\ list.page \in Nat \ {0}
         /\ PageSize \in Nat \ {0} /\ MaxCommentPages \in Nat \ {0}
         /\ changes.deleted \in Nat /\ changes.inserted \in Nat
BY PageAssumption DEF ListInv, ListShape, ListType, CollShape

(* The items that were there from beginning to end. *)
LEMMA StableIs ==
  ASSUME CollShape
  PROVE  /\ stable \subseteq (ToSet(coll.main) \cup ToSet(coll.status)) \cap Old
         /\ op # "pull_checks" => stable \subseteq ToSet(coll.main) \cap Old
<1>1. coll.main \in Seq(Nat) /\ coll.status \in Seq(Nat) /\ (op # "pull_checks" => coll.status = <<>>)
  BY DEF CollShape
<1>2. ToSet(coll.main \o coll.status) = ToSet(coll.main) \cup ToSet(coll.status)
  BY <1>1, ConcatIsSet
<1>3. ToSet(coll.main) \subseteq Nat /\ ToSet(coll.status) \subseteq Nat /\ ToSet(<<>>) = {}
  BY <1>1 DEF ToSet
<1> QED
  BY <1>1, <1>2, <1>3 DEF stable, Old

(* One page of the source is taken. *)
LEMMA PageTaken ==
  ASSUME ListInv, pc \in {"pages", "statuses"}, op # "issue_list"
  PROVE  LET nodes == pageOf(Source, list.page, PageSize)
             K == Before(list.page, PageSize)
         IN  /\ nodes \in Seq(Nat) /\ K \in Nat /\ Len(nodes) <= PageSize
             /\ Len(nodes) < PageSize => Len(Source) < K + PageSize
             /\ nodes = <<>> => Len(Source) <= K
             /\ IsInjective(nodes) /\ ToSet(nodes) \subseteq ToSet(Source)
             /\ Source \in Seq(Nat) /\ Behind = K /\ Before(list.page + 1, PageSize) = K + PageSize
             /\ list.page * PageSize = K + PageSize
             /\ changes.deleted = 0 => Reached(Source, K + PageSize, list.records \o nodes, Old)
             /\ changes.inserted = 0 => IsInjective(list.records) /\ Untouched(Source, K, list.records)
<1> DEFINE nodes == pageOf(Source, list.page, PageSize)
           K == Before(list.page, PageSize)
<1>1. /\ ByOffset /\ list.records \in Seq(Nat) /\ list.page \in Nat \ {0} /\ PageSize \in Nat \ {0}
      /\ Source \in Seq(Nat) /\ IsInjective(Source)
  BY OffsetIs DEF Loop, Source
<1>2. Behind = K
  BY DEF Behind
<1>3. K \in Nat /\ Before(list.page + 1, PageSize) = K + PageSize /\ list.page * PageSize = K + PageSize
  BY <1>1, BeforeIs
<1>4. nodes \in Seq(Nat) /\ Len(nodes) <= PageSize /\ (Len(nodes) < PageSize => Len(Source) < K + PageSize)
  BY <1>1, PageIsSet, Zenon
<1>5. (nodes = <<>> => Len(Source) <= K) /\ IsInjective(nodes)
  BY <1>1, PageIsSet, Zenon
<1>6. ToSet(nodes) \subseteq ToSet(Source)
  <2>1. \A x : x \in ToSet(nodes) <=> \E i \in 1..Len(Source) : K < i /\ i <= K + PageSize /\ x = Source[i]
    BY <1>1, PageIsSet
  <2>2. \A i \in 1..Len(Source) : Source[i] \in ToSet(Source)
    BY <1>1 DEF ToSet
  <2> HIDE DEF nodes
  <2> QED
    BY <2>1, <2>2, Zenon
<1>7. changes.deleted = 0 => Reached(Source, K + PageSize, list.records \o nodes, Old)
  <2>1. changes.deleted = 0 => Reached(Source, K, list.records, Old)
    BY <1>1, <1>2 DEF ByOffset
  <2> QED
    BY <1>1, <2>1, ReachedMore
<1>8. changes.inserted = 0 => IsInjective(list.records) /\ Untouched(Source, K, list.records)
  BY <1>1, <1>2 DEF ByOffset
<1> QED
  BY <1>1, <1>2, <1>3, <1>4, <1>5, <1>6, <1>7, <1>8, Zenon

(* The loop goes on with the next page of the same source. *)
LEMMA NextPage ==
  ASSUME CallInv, ListInv, Lasts, pc \in {"pages", "statuses"}, op # "issue_list", pc' = pc, status' = status,
         list' \in ListType, list'.page = list.page + 1,
         list'.records = list.records \o pageOf(Source, list.page, PageSize),
         op = "label_list" => Len(list'.records) < listLimitOf,
         op = "issue_view" => list'.page <= MaxCommentPages
  PROVE  ListInv'
<1> DEFINE nodes == pageOf(Source, list.page, PageSize)
           K == Before(list.page, PageSize)
<1>1. /\ nodes \in Seq(Nat) /\ K \in Nat /\ IsInjective(nodes) /\ ToSet(nodes) \subseteq ToSet(Source)
      /\ Source \in Seq(Nat) /\ Before(list.page + 1, PageSize) = K + PageSize
      /\ changes.deleted = 0 => Reached(Source, K + PageSize, list.records \o nodes, Old)
      /\ changes.inserted = 0 => IsInjective(list.records) /\ Untouched(Source, K, list.records)
  BY PageTaken
<1>2. /\ ByOffset /\ list.records \in Seq(Nat) /\ list.page \in Nat \ {0} /\ PageSize \in Nat \ {0}
      /\ IsInjective(coll.main) /\ IsInjective(coll.status) /\ CollShape
  BY OffsetIs DEF Loop
<1>3. /\ op' = op /\ Paged' = Paged /\ listLimitOf' = listLimitOf
      /\ coll' = coll /\ changes' = changes /\ Source' = Source /\ Behind' = K + PageSize
  <2>1. /\ op' = op /\ Paged' = Paged /\ listLimitOf' = listLimitOf
        /\ coll' = coll /\ changes' = changes
    BY SameCommand DEF Lasts
  <2>2. Source' = Source
    BY <2>1 DEF Source
  <2>3. Behind' = Before(list'.page, PageSize)
    BY DEF Behind
  <2> QED
    BY <1>1, <2>1, <2>2, <2>3
<1>a. IsInjective(Source)
  BY <1>2 DEF Source
<1>4. changes.inserted = 0 => /\ IsInjective(list.records \o nodes)
                              /\ Untouched(Source, K + PageSize, list.records \o nodes)
  BY <1>1, <1>2, <1>a, UntouchedMore
<1>b. list'.records = list.records \o nodes
  OBVIOUS
<1>5. ToSet(list.records \o nodes) = ToSet(list.records) \cup ToSet(nodes)
  BY <1>1, <1>2, ConcatIsSet
<1> HIDE DEF nodes, K
<1>6. changes.deleted = 0 =>
        /\ Reached(Source', Behind', list'.records, Old)
        /\ pc' = "statuses" => ToSet(coll'.main) \cap Old \subseteq ToSet(list'.records)
  <2>1. changes.deleted = 0 => Reached(Source', Behind', list'.records, Old)
    BY <1>1, <1>3, <1>b
  <2>2. changes.deleted = 0 /\ pc = "statuses" => ToSet(coll.main) \cap Old \subseteq ToSet(list.records)
    BY <1>2 DEF ByOffset
  <2> QED
    BY <1>3, <1>5, <1>b, <2>1, <2>2
<1>7. changes.inserted = 0 =>
        /\ IsInjective(list'.records) /\ Untouched(Source', Behind', list'.records)
        /\ pc' = "pages" => ToSet(list'.records) \subseteq 1..9
  <2>1. changes.inserted = 0 => IsInjective(list'.records) /\ Untouched(Source', Behind', list'.records)
    BY <1>3, <1>4, <1>b
  <2>2. changes.inserted = 0 /\ pc = "pages" =>
          ToSet(list.records) \subseteq 1..9 /\ ToSet(coll.main) \subseteq 1..9 /\ Source = coll.main
    BY <1>2 DEF ByOffset, CollShape, Source
  <2> QED
    BY <1>1, <1>5, <1>b, <2>1, <2>2
<1>8. ByOffset'
  BY <1>3, <1>6, <1>7 DEF ByOffset
<1>9. CollShape'
  BY <1>2, SameColl
<1>10. ListShape'
  BY <1>3 DEF ListShape, ListInv, Paged
<1>11. ListsMissNothing'
  <2>1. status.code # "OK"
    BY DEF CallInv, CallShape
  <2> QED
    BY <2>1 DEF ListsMissNothing
<1> QED
  BY <1>3, <1>8, <1>9, <1>10, <1>11 DEF ListInv

(* A list that ends with the source all read. *)
LEMMA OffsetEnds ==
  ASSUME CallInv, ListInv, Lasts, pc \in Loop, op # "issue_list", pc' = "done",
         list' \in ListType, NEW records, list'.records = records,
         changes.deleted = 0 =>
           \/ op = "label_list" /\ Len(records) = listLimitOf
           \/ stable \subseteq ToSet(records),
         changes.inserted = 0 => IsInjective(records),
         op = "label_list" => Len(records) <= listLimitOf
  PROVE  ListInv'
<1>1. /\ op' = op /\ Paged' = Paged /\ listLimitOf' = listLimitOf
      /\ coll' = coll /\ changes' = changes
  BY SameCommand DEF Lasts
<1>2. stable' = stable
  BY <1>1 DEF stable
<1>3. ListsMissNothing'
  BY <1>1, <1>2 DEF ListsMissNothing
<1> QED
  BY <1>3, FinishIsFine

(* A step that fails keeps the list a list. *)
LEMMA FailsAre ==
  ASSUME ListInv
  PROVE  malformed \/ fail(Is({"ErrOutputLimit"})) => Fails
<1>1. list \in ListType /\ Error(Is({})).code \in Open /\ Error(Is({"ErrOutputLimit"})).code \in Open
  BY StatusOf DEF ListInv, ListShape, Unsure
<1> QED
  BY <1>1 DEF malformed, fail, Fails

LEMMA FinishIs ==
  ASSUME ListInv, NEW records \in Seq(Nat), NEW s, finish(records, s)
  PROVE  /\ pc' = "done" /\ list' \in ListType /\ list'.records = records
         /\ status'.code \in Open \/ status' = OKStatus
<1>1. list \in ListType /\ Error(Is({"ErrOutputLimit"})).code \in Open
  BY StatusOf DEF ListInv, ListShape, Unsure
<1>2. list' = [list EXCEPT !.records = records] /\ pc' = "done"
  BY DEF finish, respond, succeed
<1>3. list' \in ListType /\ list'.records = records
  BY <1>1, <1>2 DEF ListType
<1>4. status'.code \in Open \/ status' = OKStatus
  BY <1>1 DEF finish, respond, succeed
<1> QED
  BY <1>2, <1>3, <1>4

LEMMA LinkIs ==
  ASSUME NEW rel \in linkRelations
  PROVE  "next" \in DOMAIN rel <=> Len(coll.main) > list.page * PageSize
<1> DEFINE next == Len(coll.main) > list.page * PageSize
           D == (IF next THEN {"next", "last"} ELSE {}) \cup
                (IF list.page > 1 THEN {"prev", "first"} ELSE {})
<1>1. DOMAIN rel = D
  BY DEF linkRelations
<1> QED
  BY <1>1

LEMMA LabelPageStep == ASSUME CallInv, ListInv, LabelPage PROVE ListInv'
<1> DEFINE nodes == pageOf(coll.main, list.page, PageSize)
           K == Before(list.page, PageSize)
           rec == list.records
           cut(ns) == SubSeq(ns, 1, Min({listLimitOf - Len(rec), Len(ns)}))
<1>1. /\ Lasts /\ pc = "pages" /\ op = "label_list"
      /\ \E s \in Sizes, rel \in linkRelations :
           \/ malformed
           \/ LET next == "next" \in DOMAIN rel
              IN  \E ns \in {nodes} \cup (IF next THEN {<<>>} ELSE {}) : takeLabelPage(ns, next, used + s)
  BY DEF LabelPage, paging, reads, World, Lasts
<1>2. Source = coll.main /\ pc \in Loop
  BY <1>1 DEF Source, Loop
<1>3. /\ nodes \in Seq(Nat) /\ K \in Nat /\ Len(nodes) <= PageSize /\ IsInjective(nodes)
      /\ list.page * PageSize = K + PageSize
      /\ changes.deleted = 0 => Reached(coll.main, K + PageSize, rec \o nodes, Old)
      /\ changes.inserted = 0 => IsInjective(rec) /\ Untouched(coll.main, K, rec)
  BY <1>1, <1>2, PageTaken
<1>4. /\ ByOffset /\ rec \in Seq(Nat) /\ list.page \in Nat \ {0} /\ PageSize \in Nat \ {0}
      /\ coll.main \in Seq(Nat) /\ IsInjective(coll.main) /\ CollShape /\ list \in ListType
  BY <1>1, <1>2, OffsetIs
<1>5. listLimitOf \in Nat \ {0} /\ Len(rec) < listLimitOf
  BY <1>1, <1>4, LimitIs DEF ByOffset
<1>6. stable \subseteq ToSet(coll.main) \cap Old
  BY <1>1, <1>4, StableIs
<1>b. malformed \/ fail(Is({"ErrOutputLimit"})) => ListInv'
  BY <1>1, FailsAre, FailsIsFine
<1>c. nodes = pageOf(coll.main, list.page, PageSize) /\ rec = list.records /\ K = Before(list.page, PageSize)
  OBVIOUS
<1> HIDE DEF nodes, K, rec
<1>7. PICK s \in Sizes, rel \in linkRelations :
           \/ malformed
           \/ LET next == "next" \in DOMAIN rel
              IN  \E ns \in {nodes} \cup (IF next THEN {<<>>} ELSE {}) : takeLabelPage(ns, next, used + s)
  BY <1>1
<1> DEFINE next == "next" \in DOMAIN rel
<1>8. next <=> Len(coll.main) > K + PageSize
  BY <1>3, LinkIs
<1> HIDE DEF next
<1>9. CASE malformed
  BY <1>9, <1>b
<1>10. CASE takeLabelPage(nodes, next, used + s)
  <2> DEFINE q == cut(nodes)
             records == rec \o q
  <2>1. /\ q \in Seq(Nat) /\ ToSet(q) \subseteq ToSet(nodes) /\ IsInjective(q)
        /\ records \in Seq(Nat) /\ Len(records) <= listLimitOf /\ (Len(records) < listLimitOf => q = nodes)
    BY <1>3, <1>4, <1>5, CutIs
  <2>2. \/ malformed \/ fail(Is({"ErrOutputLimit"}))
        \/ (Len(records) >= listLimitOf \/ ~next) /\ finish(records, used + s)
        \/ /\ ~(Len(records) >= listLimitOf)
           /\ more([list EXCEPT !.records = records, !.page = @ + 1])
    <3>1. LET page == q IN
          IF Len(nodes) > PageSize THEN fail(Is({"ErrOutputLimit"}))
          ELSE IF Len(records) >= listLimitOf \/ ~next THEN finish(records, used + s)
          ELSE IF Len(page) < PageSize THEN malformed
          ELSE more([list EXCEPT !.records = records, !.page = @ + 1])
      BY <1>10, <1>c DEF takeLabelPage
    <3> HIDE DEF records, q
    <3> QED
      BY <3>1
  <2>a. Len(records) \in Int
    BY <2>1
  <2> HIDE DEF q, records
  <2>3. CASE malformed \/ fail(Is({"ErrOutputLimit"}))
    BY <2>3, <1>b
  <2>4. CASE (Len(records) >= listLimitOf \/ ~next) /\ finish(records, used + s)
    <3>1. /\ pc' = "done" /\ list' \in ListType /\ list'.records = records
      BY <2>1, <2>4, FinishIs
    <3>2. changes.inserted = 0 => IsInjective(records)
      BY <1>3, <1>4, <1>c, <2>1, UntouchedMore DEF records
    <3>3. changes.deleted = 0 => Len(records) = listLimitOf \/ stable \subseteq ToSet(records)
      <4>1. CASE Len(records) >= listLimitOf
        BY <1>5, <2>1, <2>a, <4>1
      <4>2. CASE ~next /\ Len(records) < listLimitOf
        <5>1. records = rec \o nodes
          BY <2>1, <4>2 DEF records
        <5>2. Len(coll.main) <= K + PageSize
          <6>1. Len(coll.main) \in Nat /\ K + PageSize \in Nat
            BY <1>3, <1>4
          <6> QED
            BY <1>8, <4>2, <6>1
        <5>3. changes.deleted = 0 => ToSet(coll.main) \cap Old \subseteq ToSet(records)
          BY <1>3, <1>4, <5>1, <5>2, ReachedAll
        <5> QED
          BY <1>6, <5>3
      <4> QED
        BY <1>5, <2>4, <2>a, <4>1, <4>2
    <3> QED
      BY <1>1, <1>2, <2>1, <3>1, <3>2, <3>3, OffsetEnds
  <2>5. CASE /\ ~(Len(records) >= listLimitOf)
             /\ more([list EXCEPT !.records = records, !.page = @ + 1])
    <3>1. Len(records) < listLimitOf
      BY <1>5, <2>5, <2>a
    <3>2. records = rec \o nodes
      BY <2>1, <3>1 DEF records
    <3>3. pc' = "pages" /\ status' = status /\ list' = [list EXCEPT !.records = records, !.page = list.page + 1]
      BY <2>5 DEF more
    <3>a. list.page + 1 \in Nat \ {0}
      BY <1>4
    <3>4. list' \in ListType /\ list'.records = records /\ list'.page = list.page + 1
      BY <1>4, <2>1, <3>3, <3>a DEF ListType
    <3> QED
      BY <1>1, <1>2, <1>c, <3>1, <3>2, <3>3, <3>4, NextPage
  <2> QED
    BY <2>2, <2>3, <2>4, <2>5
<1>11. CASE next /\ takeLabelPage(<<>>, next, used + s)
  <2>1. cut(<<>>) = <<>> /\ rec \o <<>> = rec
    <3>1. Len(<<>>) = 0 /\ listLimitOf - Len(rec) \in Int /\ listLimitOf - Len(rec) > 0
      BY <1>4, <1>5
    <3>2. Min({listLimitOf - Len(rec), 0}) = 0
      BY <3>1, MinOfTwo
    <3>3. SubSeq(<<>>, 1, 0) = <<>>
      OBVIOUS
    <3> QED
      BY <1>4, <3>1, <3>2, <3>3
  <2>2. ~(Len(rec) >= listLimitOf) /\ Len(<<>>) < PageSize
    BY <1>4, <1>5
  <2>3. malformed \/ fail(Is({"ErrOutputLimit"}))
    <3>1. LET page == cut(<<>>) IN
          IF Len(<<>>) > PageSize THEN fail(Is({"ErrOutputLimit"}))
          ELSE IF Len(rec \o page) >= listLimitOf \/ ~next THEN finish(rec \o page, used + s)
          ELSE IF Len(page) < PageSize THEN malformed
          ELSE more([list EXCEPT !.records = rec \o page, !.page = @ + 1])
      BY <1>11, <1>c DEF takeLabelPage
    <3> QED
      BY <1>11, <2>1, <2>2, <3>1
  <2> QED
    BY <2>3, <1>b
<1>12. \/ malformed \/ takeLabelPage(nodes, next, used + s)
       \/ next /\ takeLabelPage(<<>>, next, used + s)
  BY <1>7 DEF next
<1> QED
  BY <1>9, <1>10, <1>11, <1>12

(* --- Comments --- *)
LEMMA CommentPageStep == ASSUME CallInv, ListInv, CommentPage PROVE ListInv'
<1> DEFINE nodes == pageOf(coll.main, list.page, PageSize)
           K == Before(list.page, PageSize)
           rec == list.records
           records == rec \o nodes
<1>1. /\ Lasts /\ pc = "pages" /\ op = "issue_view"
      /\ malformed \/ \E s \in Sizes : takeCommentPage(nodes, used + s)
  BY DEF CommentPage, paging, reads, World, Lasts
<1>2. Source = coll.main /\ pc \in Loop
  BY <1>1 DEF Source, Loop
<1>3. /\ nodes \in Seq(Nat) /\ K \in Nat /\ Len(nodes) <= PageSize /\ IsInjective(nodes)
      /\ Len(nodes) < PageSize => Len(coll.main) < K + PageSize
      /\ changes.deleted = 0 => Reached(coll.main, K + PageSize, rec \o nodes, Old)
      /\ changes.inserted = 0 => IsInjective(rec) /\ Untouched(coll.main, K, rec)
  BY <1>1, <1>2, PageTaken
<1>4. /\ rec \in Seq(Nat) /\ list.page \in Nat \ {0} /\ PageSize \in Nat \ {0}
      /\ coll.main \in Seq(Nat) /\ IsInjective(coll.main) /\ CollShape /\ list \in ListType
      /\ MaxCommentPages \in Nat
  BY <1>1, <1>2, OffsetIs
<1>5. list.page <= MaxCommentPages
  BY <1>1 DEF ListInv, ListShape
<1>6. records \in Seq(Nat)
  BY <1>3, <1>4, ConcatIsSeq
<1>a. changes.inserted = 0 => IsInjective(records) /\ Untouched(coll.main, K + PageSize, records)
  BY <1>3, <1>4, UntouchedMore
<1>b. malformed => ListInv'
  BY <1>1, FailsAre, FailsIsFine
<1>c. records = list.records \o pageOf(coll.main, list.page, PageSize) /\ K = Before(list.page, PageSize)
  OBVIOUS
<1> HIDE DEF nodes, K, rec
<1>7. ASSUME NEW s \in Sizes, takeCommentPage(nodes, used + s) PROVE ListInv'
  <2>1. IF Len(nodes) < PageSize THEN finish(records, used + s)
        ELSE IF list.page < MaxCommentPages
             THEN more([list EXCEPT !.records = records, !.page = @ + 1])
             ELSE /\ pc' = "probe" /\ list' = [list EXCEPT !.records = records]
                  /\ UNCHANGED <<status, changed>>
    BY <1>7 DEF takeCommentPage, rec
  <2>2. CASE Len(nodes) < PageSize
    <3>1. pc' = "done" /\ list' \in ListType /\ list'.records = records
      BY <1>6, <2>1, <2>2, FinishIs
    <3>2. Len(coll.main) <= K + PageSize /\ K + PageSize \in Int
      <4>1. Len(coll.main) \in Nat /\ K + PageSize \in Nat
        BY <1>3, <1>4
      <4> QED
        BY <1>3, <2>2, <4>1
    <3>3. changes.deleted = 0 => ToSet(coll.main) \cap Old \subseteq ToSet(records)
      BY <1>3, <1>4, <3>2, ReachedAll
    <3>4. stable \subseteq ToSet(coll.main) \cap Old
      BY <1>1, <1>4, StableIs
    <3>5. changes.deleted = 0 => stable \subseteq ToSet(records)
      BY <3>3, <3>4
    <3> QED
      BY <1>1, <1>2, <1>a, <3>1, <3>5, OffsetEnds
  <2>3. CASE ~(Len(nodes) < PageSize) /\ list.page < MaxCommentPages
    <3>1. list.page + 1 \in Nat \ {0} /\ list.page + 1 <= MaxCommentPages
      BY <1>4, <2>3
    <3>2. pc' = "pages" /\ status' = status /\ list' = [list EXCEPT !.records = records, !.page = list.page + 1]
      BY <2>1, <2>3 DEF more
    <3>3. list' \in ListType /\ list'.records = records /\ list'.page = list.page + 1
      BY <1>4, <1>6, <3>1, <3>2 DEF ListType
    <3> QED
      BY <1>1, <1>2, <1>c, <3>1, <3>2, <3>3, NextPage
  <2>4. CASE ~(Len(nodes) < PageSize) /\ ~(list.page < MaxCommentPages)
    <3>1. list.page = MaxCommentPages
      BY <1>4, <1>5, <2>4
    <3>2. pc' = "probe" /\ status' = status /\ list' = [list EXCEPT !.records = records]
      BY <2>1, <2>4
    <3>3. list' \in ListType /\ list'.records = records /\ list'.page = list.page
      BY <1>4, <1>6, <3>2 DEF ListType
    <3>4. /\ op' = op /\ Paged' = Paged /\ coll' = coll /\ changes' = changes
      BY <1>1, SameCommand DEF Lasts
    <3>5. Source' = coll.main /\ Behind' = K + PageSize
      BY <1>c, <3>2, <3>3, <3>4 DEF Source, Behind
    <3>6. ByOffset'
      BY <1>1, <1>3, <1>a, <3>2, <3>3, <3>4, <3>5 DEF ByOffset, rec
    <3>7. CollShape'
      BY <1>1, <1>4, SameColl
    <3>8. ListShape'
      BY <1>1, <3>1, <3>2, <3>3, <3>4 DEF ListShape, ListInv
    <3>9. ListsMissNothing'
      <4>1. status.code # "OK"
        BY <1>1 DEF CallInv, CallShape
      <4> QED
        BY <3>2, <4>1 DEF ListsMissNothing
    <3> QED
      BY <1>1, <3>2, <3>4, <3>6, <3>7, <3>8, <3>9 DEF ListInv
  <2> QED
    BY <2>2, <2>3, <2>4
<1> QED
  BY <1>1, <1>7, <1>b

LEMMA ProbeStep == ASSUME CallInv, ListInv, Probe PROVE ListInv'
<1> DEFINE past == pageOf(coll.main, MaxCommentPages * PageSize + 1, 1)
<1>1. /\ Lasts /\ pc = "probe"
      /\ \/ malformed \/ fail(Is({"ErrOutputLimit"}))
         \/ past = <<>> /\ \E s \in Sizes : finish(list.records, used + s)
  BY DEF Probe, reads, World, Lasts
<1>2. op = "issue_view" /\ list.page = MaxCommentPages /\ pc \in Loop
  BY <1>1 DEF ListInv, ListShape, Loop
<1>3. Source = coll.main /\ Behind = Before(list.page, PageSize) + PageSize
  BY <1>1 DEF Source, Behind
<1>4. /\ ByOffset /\ list.records \in Seq(Nat) /\ PageSize \in Nat \ {0} /\ MaxCommentPages \in Nat \ {0}
      /\ coll.main \in Seq(Nat) /\ IsInjective(coll.main) /\ CollShape /\ list \in ListType
  BY <1>2, OffsetIs
<1>5. CASE malformed \/ fail(Is({"ErrOutputLimit"}))
  BY <1>1, <1>5, FailsAre, FailsIsFine
<1>6. CASE past = <<>> /\ \E s \in Sizes : finish(list.records, used + s)
  <2>1. pc' = "done" /\ list' \in ListType /\ list'.records = list.records
    BY <1>4, <1>6, FinishIs
  <2>2. Behind \in Nat /\ Behind = MaxCommentPages * PageSize
    <3>1. /\ Before(MaxCommentPages, PageSize) \in Nat
          /\ MaxCommentPages * PageSize = Before(MaxCommentPages, PageSize) + PageSize
      BY <1>4, BeforeIs
    <3>2. Behind = Before(MaxCommentPages, PageSize) + PageSize
      BY <1>2, <1>3
    <3> QED
      BY <1>4, <3>1, <3>2
  <2>3. Behind + 1 \in Nat \ {0} /\ Before(Behind + 1, 1) = Behind
    BY <2>2 DEF Before
  <2>4. Len(coll.main) <= Before(Behind + 1, 1)
    <3>1. pageOf(coll.main, Behind + 1, 1) = <<>>
      BY <1>6, <2>2
    <3>2. 1 \in Nat \ {0}
      OBVIOUS
    <3> HIDE DEF past
    <3> QED
      BY <1>4, <2>3, <3>1, <3>2, PageIsSet, Zenon
  <2>5. changes.deleted = 0 => Reached(coll.main, Behind, list.records, Old)
    BY <1>3, <1>4 DEF ByOffset
  <2>6. changes.deleted = 0 => ToSet(coll.main) \cap Old \subseteq ToSet(list.records)
    BY <1>4, <2>2, <2>3, <2>4, <2>5, ReachedAll
  <2>7. stable \subseteq ToSet(coll.main) \cap Old
    BY <1>2, <1>4, StableIs
  <2>8. changes.deleted = 0 => stable \subseteq ToSet(list.records)
    BY <2>6, <2>7
  <2>9. changes.inserted = 0 => IsInjective(list.records)
    BY <1>4 DEF ByOffset
  <2> QED
    BY <1>1, <1>2, <2>1, <2>8, <2>9, OffsetEnds
<1> QED
  BY <1>1, <1>5, <1>6

(* --- Checks and statuses --- *)
(* Whatever the provider counts: a page that is taken for the last one is.   *)
LEMMA CountIsTrue ==
  ASSUME NEW items \in Seq(Nat), NEW nodes \in Seq(Nat), NEW seen \in Nat, NEW K \in Nat, NEW per \in Nat,
         NEW total \in {Len(items), Len(items) + 1} \cup 0..(seen + Len(nodes) - 1),
         nodes = <<>> => Len(items) <= K, nodes # <<>> => Len(nodes) <= total - seen,
         ~(total > K + per)
  PROVE  Len(items) <= K + per
<1>1. Len(items) \in Nat /\ Len(nodes) \in Nat
  OBVIOUS
<1>2. CASE total \in {Len(items), Len(items) + 1}
  BY <1>1, <1>2
<1>3. CASE total \in 0..(seen + Len(nodes) - 1)
  <2>1. nodes = <<>>
    BY <1>1, <1>3
  <2> QED
    BY <1>1, <2>1
<1> QED
  BY <1>2, <1>3

CheckRecords == list.records \o pageOf(Source, list.page, PageSize)
CheckNext == [list EXCEPT !.records = CheckRecords,
                          !.seen = list.seen + Len(pageOf(Source, list.page, PageSize)),
                          !.page = list.page + 1, !.pages = list.pages + 1]

LEMMA CheckNextIs ==
  ASSUME ListInv, op = "pull_checks", pc \in {"pages", "statuses"}
  PROVE  /\ CheckNext \in ListType /\ CheckNext.records = CheckRecords /\ CheckNext.page = list.page + 1
         /\ CheckRecords \in Seq(Nat)
<1> DEFINE nodes == pageOf(Source, list.page, PageSize)
           seen == list.seen + Len(nodes)
<1>1. nodes \in Seq(Nat)
  BY PageTaken
<1>2. list \in ListType /\ list.records \in Seq(Nat)
  BY OffsetIs DEF Loop
<1>3. CheckRecords \in Seq(Nat)
  BY <1>1, <1>2, ConcatIsSeq DEF CheckRecords
<1>4. seen \in Nat /\ list.page + 1 \in Nat \ {0} /\ list.pages + 1 \in Nat
  <2>1. list.seen \in Nat /\ list.page \in Nat /\ list.pages \in Nat
    BY <1>2 DEF ListType
  <2> QED
    BY <1>1, <2>1
<1>5. CheckNext = [list EXCEPT !.records = CheckRecords, !.seen = seen, !.page = list.page + 1,
                               !.pages = list.pages + 1]
  BY DEF CheckNext
<1> HIDE DEF seen, nodes
<1> QED
  BY <1>2, <1>3, <1>4, <1>5 DEF ListType

(* What becomes of a page of checks or statuses. *)
LEMMA CheckOutcome ==
  ASSUME ListInv, CheckPage
  PROVE  /\ Lasts /\ op = "pull_checks" /\ pc \in {"pages", "statuses"}
         /\ \/ Fails
            \/ pc' = pc /\ list' = CheckNext /\ status' = status
            \/ /\ Len(Source) <= list.page * PageSize
               /\ \/ /\ pc = "pages" /\ pc' = "statuses" /\ status' = status
                     /\ list' = [CheckNext EXCEPT !.page = 1, !.seen = 0, !.start = Len(CheckRecords)]
                  \/ pc = "statuses" /\ pc' = "done" /\ list' = CheckNext
<1> DEFINE nodes == pageOf(Source, list.page, PageSize)
           K == Before(list.page, PageSize)
           last == list.page * PageSize
<1>1. op = "pull_checks" /\ pc \in {"pages", "statuses"} /\ Lasts
  BY DEF CheckPage, reads, World, Lasts
<1>2. /\ malformed \/ \E s \in Sizes : \E total \in {Len(Source), Len(Source) + 1} \cup
                                                0..(list.seen + Len(nodes) - 1) :
                     takeCheckPage(nodes, total, used + s)
  BY <1>1 DEF CheckPage, Source
<1>3. /\ nodes \in Seq(Nat) /\ K \in Nat /\ Source \in Seq(Nat) /\ last = K + PageSize
      /\ nodes = <<>> => Len(Source) <= K
  BY <1>1, PageTaken
<1>4. list \in ListType /\ PageSize \in Nat /\ list.records \in Seq(Nat) /\ MaxCheckRecords \in Nat
  BY <1>1, OffsetIs, PageAssumption DEF Loop
<1>a. list.seen \in Nat /\ Len(list.records) \in Nat /\ Len(nodes) \in Nat
  BY <1>3, <1>4 DEF ListType
<1>5. CASE malformed
  BY <1>1, <1>5, FailsAre
<1>c. CheckRecords = list.records \o nodes
  BY DEF CheckRecords
<1>6. ASSUME NEW s \in Sizes,
             NEW total \in {Len(Source), Len(Source) + 1} \cup 0..(list.seen + Len(nodes) - 1),
             takeCheckPage(nodes, total, used + s)
      PROVE  \/ malformed \/ fail(Is({"ErrOutputLimit"}))
             \/ pc' = pc /\ list' = CheckNext /\ status' = status
             \/ /\ Len(Source) <= last
                /\ \/ /\ pc = "pages" /\ pc' = "statuses" /\ status' = status
                      /\ list' = [CheckNext EXCEPT !.page = 1, !.seen = 0, !.start = Len(CheckRecords)]
                   \/ pc = "statuses" /\ pc' = "done" /\ list' = CheckNext
  <2> DEFINE next == [list EXCEPT !.records = @ \o nodes, !.seen = list.seen + Len(nodes),
                                  !.page = @ + 1, !.pages = @ + 1]
             room == {MaxCheckRecords - Len(list.records), total - list.seen}
             onward == /\ pc' = "statuses"
                       /\ list' = [next EXCEPT !.page = 1, !.seen = 0, !.start = Len(next.records)]
                       /\ UNCHANGED <<status, changed>>
             stops == respond(used + s) /\ list' = next
             again == pc' = pc /\ list' = next /\ UNCHANGED <<status, changed>>
             bad == malformed \/ fail(Is({"ErrOutputLimit"}))
  <2>1. \/ bad
        \/ /\ ~(nodes # <<>> /\ Len(nodes) > Min(room))
           /\ \/ again
              \/ ~(total > last) /\ (IF pc = "pages" THEN onward ELSE stops)
    BY <1>6 DEF takeCheckPage
  <2>2. total \in Int
    <3>1. Len(Source) \in Int
      BY <1>3
    <3> QED
      BY <1>6, <1>a, <3>1
  <2>3. total - list.seen \in Int /\ MaxCheckRecords - Len(list.records) \in Int
    BY <1>4, <1>a, <2>2
  <2>4. Min(room) \in Int /\ Min(room) <= total - list.seen
    BY <2>3, MinOfTwo
  <2>5. next = CheckNext
    BY <1>c DEF CheckNext
  <2>6. next.records = CheckRecords
    <3>1. next.records = list.records \o nodes
      BY <1>4 DEF ListType
    <3> QED
      BY <1>c, <3>1
  <2>a. (pc' = pc /\ list' = CheckNext /\ status' = status) \/ ~again
    BY <2>5
  <2>b. (pc' = "statuses" /\ status' = status
         /\ list' = [CheckNext EXCEPT !.page = 1, !.seen = 0, !.start = Len(CheckRecords)]) \/ ~onward
    BY <2>5, <2>6
  <2>c. (pc' = "done" /\ list' = CheckNext) \/ ~stops
    BY <2>5 DEF respond, succeed
  <2> HIDE DEF next, room, onward, stops, again
  <2>7. ASSUME ~(nodes # <<>> /\ Len(nodes) > Min(room)), ~(total > last) PROVE Len(Source) <= last
    <3>1. nodes # <<>> => Len(nodes) <= total - list.seen
      BY <1>a, <2>3, <2>4, <2>7
    <3> HIDE DEF nodes, K, last
    <3>2. ~(total > K + PageSize)
      BY <1>3, <2>7
    <3>3. Len(Source) <= K + PageSize
      BY <1>3, <1>4, <1>6, <1>a, <3>1, <3>2, CountIsTrue
    <3> QED
      BY <1>3, <3>3
  <2> HIDE DEF nodes, K, last
  <2> QED
    BY <1>1, <2>1, <2>7, <2>a, <2>b, <2>c
<1>7. malformed \/ fail(Is({"ErrOutputLimit"})) => Fails
  BY FailsAre
<1> QED
  BY <1>1, <1>2, <1>6, <1>7

LEMMA CheckPageStep == ASSUME CallInv, ListInv, CheckPage PROVE ListInv'
<1> DEFINE nodes == pageOf(Source, list.page, PageSize)
           K == Before(list.page, PageSize)
<1>1. Lasts /\ op = "pull_checks" /\ pc \in {"pages", "statuses"}
  BY CheckOutcome
<1>2. CheckNext \in ListType /\ CheckNext.records = CheckRecords /\ CheckNext.page = list.page + 1
      /\ CheckRecords \in Seq(Nat)
  BY <1>1, CheckNextIs
<1>3. /\ ByOffset /\ list.records \in Seq(Nat) /\ list.page \in Nat \ {0} /\ PageSize \in Nat \ {0}
      /\ coll.main \in Seq(Nat) /\ coll.status \in Seq(Nat) /\ CollShape
      /\ IsInjective(coll.main) /\ IsInjective(coll.status)
  BY <1>1, OffsetIs DEF Loop
<1>4. /\ nodes \in Seq(Nat) /\ IsInjective(nodes) /\ ToSet(nodes) \subseteq ToSet(Source)
      /\ Source \in Seq(Nat) /\ K \in Nat /\ list.page * PageSize = K + PageSize
      /\ changes.deleted = 0 => Reached(Source, K + PageSize, list.records \o nodes, Old)
      /\ changes.inserted = 0 => IsInjective(list.records) /\ Untouched(Source, K, list.records)
  BY <1>1, PageTaken
<1>5. CheckRecords = list.records \o nodes
  BY DEF CheckRecords
<1>6. IsInjective(Source)
  BY <1>3 DEF Source
<1>7. changes.inserted = 0 => IsInjective(CheckRecords)
  BY <1>3, <1>4, <1>5, <1>6, UntouchedMore
<1>8. ToSet(CheckRecords) = ToSet(list.records) \cup ToSet(nodes)
  BY <1>3, <1>4, <1>5, ConcatIsSet
<1>9. Len(Source) <= list.page * PageSize /\ changes.deleted = 0 => ToSet(Source) \cap Old \subseteq ToSet(CheckRecords)
  <2>1. K + PageSize \in Int
    BY <1>3, <1>4
  <2> QED
    BY <1>4, <1>5, <2>1, ReachedAll
<1> HIDE DEF nodes, K
<1>10. CASE Fails
  BY <1>1, <1>10, FailsIsFine
<1>11. CASE pc' = pc /\ list' = CheckNext /\ status' = status
  <2>1. list'.records = list.records \o pageOf(Source, list.page, PageSize)
    BY <1>2, <1>11 DEF CheckRecords
  <2> QED
    BY <1>1, <1>2, <1>11, <2>1, NextPage
<1>12. CASE /\ Len(Source) <= list.page * PageSize /\ pc = "pages" /\ pc' = "statuses" /\ status' = status
            /\ list' = [CheckNext EXCEPT !.page = 1, !.seen = 0, !.start = Len(CheckRecords)]
  <2>1. Len(CheckRecords) \in Nat
    BY <1>2
  <2>2. list' \in ListType /\ list'.records = CheckRecords /\ list'.page = 1
    <3>1. PICK p \in Nat \ {0} : p = 1
      OBVIOUS
    <3>2. PICK a \in Nat : a = 0
      OBVIOUS
    <3>3. PICK n \in Nat : n = Len(CheckRecords)
      BY <2>1
    <3>4. PICK l \in ListType : l = CheckNext
      BY <1>2
    <3> DEFINE m == [l EXCEPT !.page = p, !.seen = a, !.start = n]
    <3>5. m \in ListType /\ m.records = l.records /\ m.page = p
      BY DEF ListType
    <3>6. list' = m
      BY <1>12, <3>1, <3>2, <3>3, <3>4
    <3> HIDE DEF m
    <3> QED
      BY <1>2, <3>1, <3>4, <3>5, <3>6
  <2>3. op' = op /\ Paged' = Paged /\ coll' = coll /\ changes' = changes
    BY <1>1, SameCommand DEF Lasts
  <2>4. Source' = coll.status /\ Source = coll.main /\ Behind' = 0
    <3>1. Behind' = Before(1, PageSize)
      BY <1>12, <2>2 DEF Behind
    <3>2. Before(1, PageSize) = 0
      BY <1>3, BeforeIs
    <3> QED
      BY <1>12, <2>3, <3>1, <3>2 DEF Source
  <2>5. Reached(coll.status, 0, CheckRecords, Old)
    BY DEF Reached
  <2>6. changes.inserted = 0 => Untouched(coll.status, 0, CheckRecords)
    <3> SUFFICES ASSUME changes.inserted = 0, NEW i \in 1..Len(coll.status)
                 PROVE  coll.status[i] \notin ToSet(CheckRecords)
      BY DEF Untouched
    <3>1. ToSet(coll.main) \subseteq 1..9 /\ ToSet(coll.status) \subseteq 21..29
      BY <1>3 DEF CollShape
    <3>2. ToSet(list.records) \subseteq 1..9
      BY <1>3, <1>12 DEF ByOffset
    <3>3. ToSet(CheckRecords) \subseteq 1..9
      BY <1>4, <1>8, <2>4, <3>1, <3>2
    <3>4. coll.status[i] \in ToSet(coll.status)
      BY <1>3 DEF ToSet
    <3>5. coll.status[i] \in 21..29
      BY <3>1, <3>4
    <3>6. \A x \in 21..29 : x \notin 1..9
      OBVIOUS
    <3> QED
      BY <3>3, <3>5, <3>6, Zenon
  <2>7. changes.deleted = 0 => ToSet(coll.main) \cap Old \subseteq ToSet(CheckRecords)
    BY <1>9, <1>12, <2>4
  <2>8. ByOffset'
    BY <1>1, <1>7, <1>12, <2>2, <2>3, <2>4, <2>5, <2>6, <2>7 DEF ByOffset
  <2>9. CollShape'
    BY <1>1, <1>3, SameColl
  <2>10. ListShape'
    BY <1>1, <1>12, <2>2, <2>3 DEF ListShape
  <2>11. ListsMissNothing'
    <3>1. status.code # "OK"
      BY <1>12 DEF CallInv, CallShape
    <3> QED
      BY <1>12, <3>1 DEF ListsMissNothing
  <2> QED
    BY <1>1, <2>3, <2>8, <2>9, <2>10, <2>11 DEF ListInv
<1>13. CASE Len(Source) <= list.page * PageSize /\ pc = "statuses" /\ pc' = "done" /\ list' = CheckNext
  <2>1. Source = coll.status
    BY <1>13 DEF Source
  <2>2. stable \subseteq (ToSet(coll.main) \cup ToSet(coll.status)) \cap Old
    BY <1>3, StableIs
  <2>3. changes.deleted = 0 => ToSet(coll.main) \cap Old \subseteq ToSet(list.records)
    BY <1>3, <1>13 DEF ByOffset
  <2>4. changes.deleted = 0 => stable \subseteq ToSet(CheckRecords)
    BY <1>8, <1>9, <1>13, <2>1, <2>2, <2>3
  <2>5. pc \in Loop /\ list' \in ListType /\ list'.records = CheckRecords
    BY <1>2, <1>13 DEF Loop
  <2> QED
    BY <1>1, <1>7, <1>13, <2>4, <2>5, OffsetEnds
<1> QED
  BY <1>10, <1>11, <1>12, <1>13, CheckOutcome

(* --- The other users ------------------------------------------------------- *)
LEMMA MeanwhileIs ==
  ASSUME CallInv, ListInv, Paged, byOthers
  PROVE  status.code # "OK" /\ status'.code # "OK"
<1>1. op \notin R!Writes
  BY DEF Paged, withComments, R!Writes, R!IssueWrites, R!PullWrites
<1>2. pc # "done"
  BY <1>1 DEF CallInv, WriteShape, byOthers
<1> QED
  BY <1>2 DEF CallInv, CallShape, byOthers

LEMMA MeanwhileStep ==
  ASSUME CallInv, ListInv, Paged, byOthers, CollShape',
         op = "issue_list" /\ pc = "pages" => ByCursor',
         op # "issue_list" /\ pc \in Loop => ByOffset'
  PROVE  ListInv'
<1>1. cmd' = cmd /\ pc' = pc /\ list' = list
  BY DEF byOthers
<1>2. op' = op /\ Paged' = Paged
  BY <1>1, SameCommand
<1>3. ListShape'
  BY <1>1, <1>2 DEF ListInv, ListShape
<1>4. ListsMissNothing'
  BY MeanwhileIs DEF ListsMissNothing
<1> QED
  BY <1>1, <1>2, <1>3, <1>4 DEF ListInv

LEMMA OtherLabelsStep == ASSUME CallInv, ListInv, OtherLabels PROVE ListInv'
<1>1. /\ cmd' = cmd /\ pc' = pc /\ list' = list /\ op = "issue_label_change" /\ coll' = coll
      /\ changes' = [changes EXCEPT !.inserted = @ + 1]
  BY DEF OtherLabels, byOthers
<1>2. op' = op /\ Paged' = Paged /\ ~Paged
  BY <1>1, SameCommand DEF Paged, withComments
<1>3. CollShape /\ changes \in [deleted : Nat, inserted : Nat] /\ changes.inserted \in Nat
  BY DEF ListInv, CollShape
<1>4. changes' \in [deleted : Nat, inserted : Nat] /\ changes'.inserted = changes.inserted + 1
  BY <1>1, <1>3
<1>5. \A x \in Nat : x < 30 + changes.inserted => x < 30 + (changes.inserted + 1)
  BY <1>3
<1>6. \A x \in ToSet(coll.main) \cup ToSet(coll.status) : x \in Nat /\ x < 30 + changes.inserted
  BY <1>3 DEF CollShape, ToSet
<1>7. changes'.inserted # 0
  BY <1>3, <1>4
<1>8. CollShape'
  BY <1>1, <1>2, <1>3, <1>4, <1>5, <1>6, <1>7 DEF CollShape
<1>9. ListShape' /\ pc \notin Loop
  BY <1>1, <1>2 DEF ListInv, ListShape, Loop
<1>10. ListsMissNothing'
  BY <1>2 DEF ListsMissNothing
<1> QED
  BY <1>1, <1>2, <1>8, <1>9, <1>10 DEF ListInv, Loop

(* One more entry in a list. *)
LEMMA Inserted ==
  ASSUME NEW s \in Seq(Nat), NEW new \in Nat, NEW t \in {Append(s, new), <<new>> \o s},
         IsInjective(s), \A x \in ToSet(s) : x < new, new \notin Old
  PROVE  /\ t \in Seq(Nat) /\ IsInjective(t) /\ ToSet(t) = ToSet(s) \cup {new}
         /\ \A rec : \A K \in Int : Reached(s, K, rec, Old) => Reached(t, K, rec, Old)
         /\ (t = Append(s, new) /\ Ascending(s)) => Ascending(t)
<1>1. new \notin ToSet(s)
  <2>1. \A x \in Nat : ~(x < x)
    OBVIOUS
  <2> QED
    BY <2>1
<1>2. IsInjective(t)
  BY <1>1, OneMore
<1>3. <<new>> \in Seq(Nat) /\ ToSet(<<new>>) = {new} /\ Append(s, new) = s \o <<new>>
  BY DEF ToSet
<1>4. t \in Seq(Nat) /\ ToSet(t) = ToSet(s) \cup {new}
  <2>1. PICK u \in Seq(Nat) : u = <<new>> /\ ToSet(u) = {new}
    BY <1>3
  <2>2. ToSet(s \o u) = ToSet(s) \cup ToSet(u) /\ s \o u \in Seq(Nat)
    BY ConcatIsSet, ConcatIsSeq
  <2>3. ToSet(u \o s) = ToSet(u) \cup ToSet(s) /\ u \o s \in Seq(Nat)
    BY ConcatIsSet, ConcatIsSeq
  <2>4. t = s \o u \/ t = u \o s
    BY <1>3, <2>1
  <2> QED
    BY <2>1, <2>2, <2>3, <2>4
<1>5. \A rec : \A K \in Int : Reached(s, K, rec, Old) => Reached(t, K, rec, Old)
  BY ReachedInsert
<1>6. (t = Append(s, new) /\ Ascending(s)) => Ascending(t)
  BY AscendingAppend
<1> QED
  BY <1>2, <1>4, <1>5, <1>6

LEMMA OtherInsertsStep == ASSUME CallInv, ListInv, OtherInserts PROVE ListInv'
<1> DEFINE new == 30 + changes.inserted
<1>1. /\ Paged /\ byOthers /\ cmd' = cmd /\ pc' = pc /\ list' = list
      /\ changes' = [changes EXCEPT !.inserted = @ + 1]
  BY DEF OtherInserts, byOthers
<1>2. op' = op /\ listLimitOf' = listLimitOf
  BY <1>1, SameCommand
<1>3. /\ CollShape /\ changes \in [deleted : Nat, inserted : Nat] /\ changes.inserted \in Nat
      /\ coll \in [main : Seq(Nat), status : Seq(Nat)] /\ list \in ListType
      /\ coll.main \in Seq(Nat) /\ coll.status \in Seq(Nat)
      /\ IsInjective(coll.main) /\ IsInjective(coll.status)
      /\ \A x \in ToSet(coll.main) \cup ToSet(coll.status) : x < 30 + changes.inserted
  BY DEF ListInv, CollShape, ListShape
<1>4. /\ changes' \in [deleted : Nat, inserted : Nat] /\ changes'.inserted = changes.inserted + 1
      /\ changes'.deleted = changes.deleted
  BY <1>1, <1>3
<1>5. new \in Nat /\ new >= 30 /\ new < 30 + changes'.inserted /\ new # 0
  BY <1>3, <1>4
<1>6. new \notin Old /\ changes'.inserted # 0
  BY <1>3, <1>4, <1>5 DEF Old
<1>7. PICK part \in {"main", "status"} :
         /\ part = "status" => op = "pull_checks"
         /\ coll' \in {[coll EXCEPT ![part] = Append(@, new)]} \cup
                      (IF op \in {"label_list", "pull_checks"}
                       THEN {[coll EXCEPT ![part] = <<new>> \o @]} ELSE {})
  BY DEF OtherInserts
<1>8. PICK t \in {Append(coll[part], new), <<new>> \o coll[part]} :
         /\ coll' = [coll EXCEPT ![part] = t]
         /\ op = "issue_list" => t = Append(coll[part], new)
  BY <1>7
<1>9. \A x \in ToSet(coll.main) \cup ToSet(coll.status) : x \in Nat /\ x < new /\ x < 30 + changes'.inserted
  <2>1. \A x \in ToSet(coll.main) \cup ToSet(coll.status) : x \in Nat /\ x < new
    BY <1>3 DEF ToSet
  <2>2. \A x \in Nat : x < new => x < 30 + changes'.inserted
    BY <1>3, <1>4
  <2> QED
    BY <2>1, <2>2
<1> HIDE DEF new
<1>10. /\ t \in Seq(Nat) /\ IsInjective(t) /\ ToSet(t) = ToSet(coll[part]) \cup {new}
       /\ \A rec : \A K \in Int : Reached(coll[part], K, rec, Old) => Reached(t, K, rec, Old)
       /\ (t = Append(coll[part], new) /\ Ascending(coll[part])) => Ascending(t)
  <2>1. coll[part] \in Seq(Nat) /\ IsInjective(coll[part]) /\ \A x \in ToSet(coll[part]) : x < new
    BY <1>3, <1>9
  <2> QED
    BY <1>5, <1>6, <2>1, Inserted
<1>11. /\ coll' \in [main : Seq(Nat), status : Seq(Nat)]
       /\ part = "main" => coll'.main = t /\ coll'.status = coll.status
       /\ part = "status" => coll'.main = coll.main /\ coll'.status = t
  BY <1>3, <1>8, <1>10
<1>12. CollShape'
  <2>1. IsInjective(coll'.main) /\ IsInjective(coll'.status)
    BY <1>3, <1>10, <1>11
  <2>2. 0 \notin ToSet(coll'.main)
    BY <1>3, <1>5, <1>10, <1>11 DEF CollShape
  <2>3. \A x \in ToSet(coll'.main) \cup ToSet(coll'.status) : x < 30 + changes'.inserted
    BY <1>5, <1>9, <1>10, <1>11
  <2>4. op # "pull_checks" => coll'.status = <<>>
    BY <1>3, <1>7, <1>11 DEF CollShape
  <2>5. op = "issue_list" => Ascending(coll'.main)
    BY <1>3, <1>7, <1>8, <1>10, <1>11 DEF CollShape
  <2> QED
    BY <1>2, <1>4, <1>6, <1>11, <2>1, <2>2, <2>3, <2>4, <2>5 DEF CollShape
<1>13. ASSUME op = "issue_list", pc = "pages" PROVE ByCursor'
  <2>1. ByCursor
    BY <1>13 DEF ListInv
  <2>2. list.cursor \in Nat /\ list.cursor < new
    BY <1>3, <2>1 DEF ListType, ByCursor, new
  <2>3. list.cursor < 30 + changes'.inserted
    BY <1>3, <1>4, <2>2 DEF new
  <2>4. ~(new <= list.cursor)
    BY <1>5, <2>2
  <2>5. \A x \in ToSet(coll'.main) : x \in ToSet(coll.main) \/ x = new
    BY <1>10, <1>11
  <2> QED
    BY <1>1, <1>2, <2>1, <2>3, <2>4, <2>5 DEF ByCursor
<1>14. ASSUME op # "issue_list", pc \in Loop PROVE ByOffset'
  <2>1. ByOffset /\ PageSize \in Nat \ {0} /\ list.page \in Nat \ {0}
    BY <1>14, OffsetIs
  <2>2. Behind' = Behind /\ Behind \in Int
    <3>1. Before(list.page, PageSize) \in Nat
      BY <2>1, BeforeIs
    <3> QED
      BY <1>1, <2>1, <3>1 DEF Behind
  <2>3. Source' = Source \/ (Source' = t /\ Source = coll[part])
    BY <1>1, <1>11 DEF Source
  <2>4. changes.deleted = 0 => Reached(Source', Behind, list.records, Old)
    BY <1>10, <2>1, <2>2, <2>3 DEF ByOffset
  <2>5. ToSet(coll'.main) \cap Old \subseteq ToSet(coll.main) \cap Old
    BY <1>6, <1>10, <1>11
  <2> QED
    BY <1>1, <1>2, <1>4, <1>6, <2>1, <2>2, <2>4, <2>5 DEF ByOffset
<1> QED
  BY <1>1, <1>12, <1>13, <1>14, MeanwhileStep

LEMMA OtherDeletesStep == ASSUME CallInv, ListInv, OtherDeletes PROVE ListInv'
<1>1. /\ Paged /\ byOthers /\ cmd' = cmd /\ pc' = pc /\ list' = list
      /\ changes' = [changes EXCEPT !.deleted = @ + 1]
  BY DEF OtherDeletes, byOthers
<1>2. op' = op /\ listLimitOf' = listLimitOf
  BY <1>1, SameCommand
<1>3. /\ CollShape /\ changes \in [deleted : Nat, inserted : Nat] /\ changes.deleted \in Nat
      /\ coll \in [main : Seq(Nat), status : Seq(Nat)] /\ list \in ListType
      /\ coll.main \in Seq(Nat) /\ coll.status \in Seq(Nat)
      /\ IsInjective(coll.main) /\ IsInjective(coll.status)
  BY DEF ListInv, CollShape, ListShape
<1>4. /\ changes' \in [deleted : Nat, inserted : Nat] /\ changes'.deleted = changes.deleted + 1
      /\ changes'.inserted = changes.inserted
  BY <1>1, <1>3
<1>5. changes'.deleted # 0
  BY <1>3, <1>4
<1>b. PICK part \in {"main", "status"} :
         \E k \in DOMAIN coll[part] : coll' = [coll EXCEPT ![part] = RemoveAt(@, k)]
  BY DEF OtherDeletes
<1>6. PICK i \in DOMAIN coll[part] : coll' = [coll EXCEPT ![part] = RemoveAt(@, i)]
  BY <1>b
<1> DEFINE s == coll[part]
           t == RemoveAt(s, i)
<1>7. s \in Seq(Nat) /\ IsInjective(s) /\ i \in DOMAIN s
  BY <1>3
<1> HIDE DEF s
<1>8. t \in Seq(Nat)
  BY <1>7, RemoveAtIs, Zenon
<1>9. ToSet(t) \subseteq ToSet(s) /\ IsInjective(t)
  BY <1>7, RemoveAtKeeps
<1>10. Ascending(s) => Ascending(t)
  BY <1>7, AscendingRemoveAt
<1>11. \A rec : \A K \in Nat : Untouched(s, K, rec) => Untouched(t, K, rec)
  BY <1>7, UntouchedDelete
<1>a. coll' = [coll EXCEPT ![part] = t]
  BY <1>6 DEF s
<1> HIDE DEF t
<1>12. /\ coll' \in [main : Seq(Nat), status : Seq(Nat)]
       /\ part = "main" => coll'.main = t /\ coll'.status = coll.status /\ s = coll.main
       /\ part = "status" => coll'.main = coll.main /\ coll'.status = t /\ s = coll.status
  BY <1>3, <1>8, <1>a DEF s
<1>13. ToSet(coll'.main) \subseteq ToSet(coll.main) /\ ToSet(coll'.status) \subseteq ToSet(coll.status)
  BY <1>9, <1>12
<1>14. CollShape'
  <2>1. IsInjective(coll'.main) /\ IsInjective(coll'.status)
    BY <1>3, <1>9, <1>12
  <2>2. op # "pull_checks" => coll'.status = <<>>
    <3>1. part = "status" => coll.status # <<>>
      BY <1>7, <1>12
    <3> QED
      BY <1>3, <1>12, <3>1 DEF CollShape
  <2>3. op = "issue_list" => Ascending(coll'.main)
    BY <1>3, <1>10, <1>12 DEF CollShape
  <2> QED
    BY <1>2, <1>3, <1>4, <1>12, <1>13, <2>1, <2>2, <2>3 DEF CollShape
<1>15. ASSUME op = "issue_list", pc = "pages" PROVE ByCursor'
  <2>1. ByCursor
    BY <1>15 DEF ListInv
  <2> QED
    BY <1>1, <1>2, <1>4, <1>13, <2>1 DEF ByCursor
<1>16. ASSUME op # "issue_list", pc \in Loop PROVE ByOffset'
  <2>1. ByOffset /\ PageSize \in Nat \ {0} /\ list.page \in Nat \ {0}
    BY <1>16, OffsetIs
  <2>2. Behind' = Behind /\ Behind \in Nat
    <3>1. Before(list.page, PageSize) \in Nat
      BY <2>1, BeforeIs
    <3> QED
      BY <1>1, <2>1, <3>1 DEF Behind
  <2>3. Source' = Source \/ (Source' = t /\ Source = s)
    BY <1>1, <1>12 DEF Source
  <2>4. changes.inserted = 0 => Untouched(Source', Behind, list.records)
    BY <1>11, <2>1, <2>2, <2>3 DEF ByOffset
  <2> QED
    BY <1>1, <1>2, <1>4, <1>5, <2>1, <2>2, <2>4 DEF ByOffset
<1> QED
  BY <1>1, <1>14, <1>15, <1>16, MeanwhileStep

(* --- The whole call -------------------------------------------------------- *)
(* The other steps neither read nor change a collection: the list rests, the *)
(* call moves on before it, opens it, or ends.                               *)
Early == {"parse", "service", "gone", "preflight", "write", "answer", "view"}

Rests == UNCHANGED <<pc, status, list>>
Moves ==
  /\ UNCHANGED <<status, list>> /\ pc \in Early /\ pc' \in Early
  /\ pc' = "view" => op \notin {"issue_list", "label_list"}
Opens == UNCHANGED <<status, list>> /\ pc \in {"service", "view"} /\ pc' = "pages" /\ Paged
Stops == pc' = "done" /\ list' = list /\ (status'.code # "OK" \/ ~Paged)

Listing == IssuePage \/ LabelPage \/ CommentPage \/ Probe \/ CheckPage
Meanwhile == OtherLabels \/ OtherInserts \/ OtherDeletes

LEMMA ListSteps ==
  ASSUME CallInv, ListInv, [Next]_vars
  PROVE  Listing \/ Meanwhile \/ (Lasts /\ (Rests \/ Moves \/ Opens \/ Stops))
<1>0. /\ pc \in {"preflight", "write", "answer"} => op \in R!Writes /\ ~Paged
      /\ ctx \in {"live", "Canceled", "DeadlineExceeded"}
      /\ \A e \in Unsure \cup {"ErrInvalidArgument", "ErrDenied"} : Error(Is({e})).code # "OK"
      /\ Error(Is({})).code # "OK"
  <2>1. op \in R!Writes => ~Paged
    BY DEF Paged, withComments, R!Writes, R!IssueWrites, R!PullWrites
  <2> QED
    BY <2>1, StatusOf DEF CallInv, CallShape, WriteShape, Open, Refusals
<1> USE <1>0 DEF Unsure, sameProgress, World, Lasts, Early
<1>1. CASE Parse
  BY <1>1 DEF Parse, goto, Moves
<1>2. CASE Deliver \/ Interrupt \/ DeadlinePasses
  BY <1>2 DEF Deliver, Interrupt, DeadlinePasses, Rests
<1>3. CASE Service
  BY <1>3 DEF Service, fail, goto, firstStep, Moves, Opens, Stops, Paged
<1>4. CASE ReadFails
  BY <1>4 DEF ReadFails, callRefused, callErrors, fail, Stops
<1>5. CASE Preflight \/ LabelPreflight
  BY <1>5 DEF Preflight, LabelPreflight, reads, goto, malformed, fail, Moves, Stops
<1>6. CASE WriteRefused
  BY <1>6 DEF WriteRefused, writeRefused, callRefused, fail, Stops
<1>7. CASE Send
  BY <1>7 DEF Send, goto, Moves
<1>8. CASE Apply \/ Drop
  BY <1>8 DEF Apply, Drop, Rests
<1>9. CASE AnswerFails
  BY <1>9 DEF AnswerFails, callErrors, fail, Stops
<1>10. CASE Answered
  BY <1>10 DEF Answered, goto, malformed, fail, respond, succeed, Moves, Stops
<1>11. CASE View
  BY <1>11 DEF View, reads, goto, malformed, fail, respond, succeed, Opens, Stops, Paged
<1>12. CASE UNCHANGED vars
  BY <1>12 DEF vars, Rests
<1> QED
  BY <1>1, <1>2, <1>3, <1>4, <1>5, <1>6, <1>7, <1>8, <1>9, <1>10, <1>11, <1>12
  DEF Next, Listing, Meanwhile

(* A list that is opened holds nothing yet. *)
LEMMA OpensIsFine == ASSUME CallInv, ListInv, Lasts, Opens PROVE ListInv'
<1>1. list = NoList /\ list' = NoList /\ CollShape
  BY DEF ListInv, ListShape, Opens
<1>2. /\ op' = op /\ Paged' = Paged /\ listLimitOf' = listLimitOf
      /\ coll' = coll /\ changes' = changes
  BY SameCommand DEF Lasts
<1>3. NoList.records = <<>> /\ NoList.page = 1 /\ NoList.cursor = 0
  BY DEF NoList
<1>4. /\ ToSet(<<>>) = {} /\ Len(<<>>) = 0 /\ IsInjective(<<>>) /\ Ascending(<<>>)
  BY DEF ToSet, IsInjective, Ascending
<1>5. coll.main \in Seq(Nat) /\ \A x \in ToSet(coll.main) : x \in Nat /\ x # 0
  BY <1>1 DEF CollShape, ToSet
<1>6. op \in {"issue_list", "label_list"} => listLimitOf \in Nat \ {0}
  BY LimitIs DEF Opens
<1>7. CollShape'
  BY <1>1, SameColl
<1>8. PageSize \in Nat \ {0} /\ MaxCommentPages \in Nat \ {0}
  BY PageAssumption
<1>9. ListShape'
  <2>1. 1 <= MaxCommentPages
    BY <1>8
  <2> QED
    BY <1>1, <1>2, <1>3, <2>1 DEF ListInv, ListShape, Opens
<1>10. ListsMissNothing'
  <2>1. status'.code # "OK"
    BY DEF CallInv, CallShape, Opens
  <2> QED
    BY <2>1 DEF ListsMissNothing
<1>11. ASSUME op = "issue_list" PROVE ByCursor'
  <2>1. changes.inserted \in Nat
    BY <1>1 DEF CollShape
  <2>2. 0 < 30 + changes.inserted
    BY <2>1
  <2>3. \A x \in ToSet(coll.main) : ~(x <= 0)
    BY <1>5
  <2>4. 0 < listLimitOf
    BY <1>6, <1>11
  <2> QED
    BY <1>1, <1>2, <1>3, <1>4, <2>2, <2>3, <2>4 DEF ByCursor
<1>12. ASSUME op # "issue_list" PROVE ByOffset'
  <2>1. op = "label_list" => 0 < listLimitOf
    BY <1>6
  <2>2. Source' = coll.main /\ Behind' = 0
    <3>1. Source' = coll.main /\ Behind' = Before(1, PageSize)
      BY <1>1, <1>2, <1>3 DEF Source, Behind, Opens
    <3> QED
      BY <1>8, <3>1, BeforeIs
  <2>3. Reached(coll.main, 0, <<>>, Old) /\ Untouched(coll.main, 0, <<>>)
    BY <1>4 DEF Reached, Untouched
  <2> QED
    BY <1>1, <1>2, <1>3, <1>4, <2>1, <2>2, <2>3 DEF ByOffset, Opens
<1> QED
  BY <1>2, <1>7, <1>9, <1>10, <1>11, <1>12 DEF ListInv, Opens

LEMMA ListStep == CallInv /\ ListInv /\ [Next]_vars => ListInv'
<1> SUFFICES ASSUME CallInv, ListInv, [Next]_vars PROVE ListInv'
  OBVIOUS
<1>1. CASE Listing
  BY <1>1, IssuePageStep, LabelPageStep, CommentPageStep, ProbeStep, CheckPageStep DEF Listing
<1>2. CASE Meanwhile
  BY <1>2, OtherLabelsStep, OtherInsertsStep, OtherDeletesStep DEF Meanwhile
<1>3. ASSUME Lasts PROVE /\ op' = op /\ Paged' = Paged /\ listLimitOf' = listLimitOf
                         /\ coll' = coll /\ changes' = changes /\ CollShape'
  BY <1>3, SameCommand, SameColl DEF Lasts, ListInv
<1>4. CASE Lasts /\ Rests
  <2>1. pc' = pc /\ status' = status /\ list' = list
    BY <1>4 DEF Rests
  <2>2. ListShape'
    BY <1>3, <1>4, <2>1 DEF ListInv, ListShape
  <2>3. ListsMissNothing'
    <3>1. stable' = stable
      BY <1>3, <1>4 DEF stable
    <3> QED
      BY <1>3, <1>4, <2>1, <3>1 DEF ListInv, ListsMissNothing
  <2>4. ByCursor' <=> ByCursor
    BY <1>3, <1>4, <2>1 DEF ByCursor
  <2>5. Source' = Source /\ Behind' = Behind
    BY <1>3, <1>4, <2>1 DEF Source, Behind
  <2>6. ByOffset' <=> ByOffset
    BY <1>3, <1>4, <2>1, <2>5 DEF ByOffset
  <2> QED
    BY <1>3, <1>4, <2>1, <2>2, <2>3, <2>4, <2>6 DEF ListInv
<1>5. CASE Lasts /\ Moves
  <2>1. ListShape' /\ pc' \notin Loop
    BY <1>3, <1>5 DEF ListInv, ListShape, Moves, Early, Loop
  <2>2. status'.code # "OK"
    BY <1>5 DEF CallInv, CallShape, Moves, Early
  <2> QED
    BY <1>3, <1>5, <2>1, <2>2 DEF ListInv, ListsMissNothing, Loop
<1>6. CASE Lasts /\ Opens
  BY <1>6, OpensIsFine
<1>7. CASE Lasts /\ Stops
  <2>1. ListsMissNothing'
    BY <1>3, <1>7 DEF ListsMissNothing, Stops
  <2> QED
    BY <1>7, <2>1, FinishIsFine DEF Stops, ListInv, ListShape
<1> QED
  BY <1>1, <1>2, <1>4, <1>5, <1>6, <1>7, ListSteps

LEMMA NumbersAre ==
  ASSUME NEW from \in Nat, NEW n \in Nat
  PROVE  /\ Numbers(from, n) \in Seq(Nat) /\ Ascending(Numbers(from, n)) /\ IsInjective(Numbers(from, n))
         /\ ToSet(Numbers(from, n)) \subseteq (from + 1)..(from + n)
         /\ n = 0 => Numbers(from, n) = <<>>
<1> DEFINE s == Numbers(from, n)
<1>1. s = [i \in 1..n |-> from + i]
  BY DEF Numbers
<1>2. s \in Seq(Nat) /\ Len(s) = n
  BY <1>1
<1>3. \A i \in 1..n : s[i] = from + i /\ i \in Nat
  BY <1>1
<1>a. DOMAIN s = 1..n
  BY <1>1
<1> HIDE DEF s
<1>4. Ascending(s)
  <2> SUFFICES ASSUME NEW i \in 1..n, NEW j \in 1..n, i < j PROVE s[i] < s[j]
    BY <1>2 DEF Ascending
  <2> QED
    BY <1>3
<1>5. IsInjective(s)
  BY <1>2, <1>4, AscendingIsInjective
<1>6. ToSet(s) \subseteq (from + 1)..(from + n)
  <2> SUFFICES ASSUME NEW i \in 1..n PROVE s[i] \in (from + 1)..(from + n)
    BY <1>a DEF ToSet
  <2> QED
    BY <1>3
<1>7. n = 0 => s = <<>>
  BY <1>2
<1> QED
  BY <1>2, <1>4, <1>5, <1>6, <1>7 DEF s

LEMMA ListInit == Init => ListInv
<1> SUFFICES ASSUME Init PROVE ListInv
  OBVIOUS
<1>1. /\ pc = "parse" /\ status = [code |-> "pending"] /\ list = NoList
      /\ changes = [deleted |-> 0, inserted |-> 0]
  BY DEF Init
<1>2. 0..MaxItems \subseteq 0..9 /\ MaxItems \in Nat
  BY PageAssumption
<1>3. /\ coll = [main |-> coll.main, status |-> coll.status]
      /\ \E n \in 0..9 : coll.main = Numbers(0, n)
      /\ \E n \in 0..9 : coll.status = Numbers(20, n) /\ (op # "pull_checks" => n = 0)
  <2> DEFINE M == IF Paged THEN 0..MaxItems ELSE {0}
             S == IF op = "pull_checks" THEN 0..MaxItems ELSE {0}
  <2>1. \A k \in M : k \in 0..9
    BY <1>2
  <2>2. \A k \in S : k \in 0..9 /\ (op # "pull_checks" => k = 0)
    BY <1>2
  <2>3. coll \in [main : {Numbers(0, k) : k \in M}, status : {Numbers(20, k) : k \in S}]
    BY DEF Init
  <2> HIDE DEF M, S
  <2>4. /\ coll = [main |-> coll.main, status |-> coll.status]
        /\ (\E k \in M : coll.main = Numbers(0, k)) /\ (\E k \in S : coll.status = Numbers(20, k))
    BY <2>3
  <2> QED
    BY <2>1, <2>2, <2>4
<1>a. PICK n \in 0..9 : coll.main = Numbers(0, n)
  BY <1>3
<1>b. PICK m \in 0..9 : coll.status = Numbers(20, m) /\ (op # "pull_checks" => m = 0)
  BY <1>3
<1>c. n \in Nat /\ m \in Nat /\ 0 \in Nat /\ 20 \in Nat
  OBVIOUS
<1>4. /\ coll.main \in Seq(Nat) /\ Ascending(coll.main) /\ IsInjective(coll.main)
      /\ ToSet(coll.main) \subseteq (0 + 1)..(0 + n)
  BY <1>a, <1>c, NumbersAre, Zenon
<1>5. /\ coll.status \in Seq(Nat) /\ IsInjective(coll.status)
      /\ ToSet(coll.status) \subseteq (20 + 1)..(20 + m) /\ (m = 0 => coll.status = <<>>)
  BY <1>b, <1>c, NumbersAre, Zenon
<1>6. ToSet(coll.main) \subseteq 1..9 /\ ToSet(coll.status) \subseteq 21..29
  <2>1. (0 + 1)..(0 + n) \subseteq 1..9 /\ (20 + 1)..(20 + m) \subseteq 21..29
    OBVIOUS
  <2> QED
    BY <1>4, <1>5, <2>1, Zenon
<1>7. \A x \in ToSet(coll.main) \cup ToSet(coll.status) : x < 30 + 0
  BY <1>6
<1>8. 0 \notin ToSet(coll.main)
  BY <1>6
<1>9. CollShape
  <2>1. changes \in [deleted : Nat, inserted : Nat] /\ changes.inserted = 0
    BY <1>1
  <2>2. coll \in [main : Seq(Nat), status : Seq(Nat)]
    BY <1>3, <1>4, <1>5
  <2> QED
    BY <1>b, <1>4, <1>5, <1>6, <1>7, <1>8, <2>1, <2>2 DEF CollShape
<1>10. ListShape
  <2>1. NoList \in ListType
    BY DEF NoList, ListType
  <2> QED
    BY <1>1, <2>1 DEF ListShape
<1> QED
  BY <1>1, <1>9, <1>10 DEF ListInv, ListsMissNothing, Loop

(* The paging invariant holds throughout a call: executeIssueList,           *)
(* executeLabelList, fetchIssueComments, appendCheckPages and                *)
(* appendStatusPages keep what they have read complete and without           *)
(* repetition, for any bounds and while other users change the collections.  *)
THEOREM ListCorrect == Spec => [](CallInv /\ ListInv)
<1>1. Init => CallInv /\ ListInv
  BY CallInit, ListInit
<1>2. CallInv /\ ListInv /\ [Next]_vars => (CallInv /\ ListInv)'
  BY CallStep, ListStep
<1> QED
  BY <1>1, <1>2, PTL DEF Spec

(* A list that is reported is complete up to its limit, names nothing twice  *)
(* and is never longer than asked: by cursor whatever others do, by offset   *)
(* as long as nothing is deleted, or inserted.                               *)
THEOREM ListsMissNothingAlways == Spec => []ListsMissNothing
<1>1. CallInv /\ ListInv => ListsMissNothing
  BY DEF ListInv
<1> QED
  BY <1>1, ListCorrect, PTL

-----------------------------------------------------------------------------
(* A call begins where the contract begins. *)
LEMMA ContractInit == Init => W!Init
BY DEF Init, W!Init, answer

(* Every step of a call is one of the contract, or changes nothing of it. *)
LEMMA ContractStep == CallInv /\ [Next]_vars => [W!Next]_(W!vars)
<1> SUFFICES ASSUME CallInv, [Next]_vars
             PROVE  [W!Next]_(W!vars)
  OBVIOUS
<1>a. /\ cmd' = cmd
      /\ Beside \/ Walks \/ Ends \/ Sends \/ Acts
  BY StepKinds
<1>b. op' = op
  BY <1>a DEF op
<1> USE <1>a, <1>b DEF CallInv, CallShape, WriteShape, StatusIsTrue, Looking, Open, Refusals
<1>1. CASE Beside \/ Walks
  BY <1>1 DEF Beside, Walks, W!vars, answer
<1>3. CASE Ends
  BY <1>3 DEF Ends, W!Next, W!Answer, answer
<1>4. CASE Sends
  BY <1>4 DEF Sends, W!Next, W!Send, answer
<1>5. CASE Acts
  BY <1>5 DEF Acts, W!Next, W!Act, answer
<1> QED
  BY <1>1, <1>3, <1>4, <1>5

(* Adapter.Execute and the service implement the promise of ProviderWrite:   *)
(* a write is sent at most once, OK means that GitHub applied it, and        *)
(* invalid or denied that nothing was sent.                                  *)
THEOREM CallImplementsContract == Spec => WriteContract
<1> QED
  BY ContractInit, ContractStep, CallCorrect, PTL DEF Spec, WriteContract, W!Spec
=============================================================================
