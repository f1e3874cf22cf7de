----------------------------- MODULE GitHubCall -----------------------------
(***************************************************************************)
(* One GitHub command from the restricted gh through the service to the      *)
(* provider and back: internal/client/github, internal/server/github.go and  *)
(* internal/provider/github.  The provider commands of one call run one      *)
(* after the other; between any two, and while one is out, the caller's      *)
(* context may end and other users may change the labels or the collection   *)
(* that is being read.  The provider itself (external) answers as GitHub     *)
(* does, fails, answers too much, answers garbage or contradicts itself.     *)
(***************************************************************************)
EXTENDS GhCommand, RpcStatus, Paging

CONSTANTS Commands,        \* the commands tried
          Labels,          \* labels other users set and remove
          LabelSeqs,       \* the labels the issue may start with
          MaxItems,        \* items a listed collection may start with (< 10)
          MaxChanges,      \* changes other users make
          Sizes,           \* sizes of provider output, in MiB
          PageSize, MaxIssuePages, MaxCommentPages, MaxLabelPages,
          MaxCheckPages, MaxCheckRecords, LabelLimit

ASSUME PageAssumption ==
  /\ MaxItems \in 0..9 /\ MaxChanges \in Nat /\ Sizes \subseteq Nat
  /\ {PageSize, MaxIssuePages, MaxCommentPages, MaxLabelPages, MaxCheckPages,
      MaxCheckRecords, LabelLimit} \subseteq Nat \ {0}

Texts == [bytes : Nat, runes : Nat, kind : STRING]

(* Lists of labels are lists of texts. *)
ASSUME LabelAssumption ==
  /\ Labels \subseteq Texts /\ LabelSeqs \subseteq Seq(Texts)
  /\ \A c \in Commands : \A f \in DOMAIN c.flags \cap ListFlags : c.flags[f] \in Seq(Texts)

VARIABLES cmd, granted,          \* the command; the caller's capabilities
          pc, ctx, used,         \* the step, the context, MiB read so far
          effect, status, exit,  \* of the write; of the call; of gh
          labels, changed, touched, \* the issue's labels; the list to write;
                                 \* labels others touched since it was read
          coll, changes,         \* the listed collections; changes by others
          list                   \* the paging loop: see NoList

vars == <<cmd, granted, pc, ctx, used, effect, status, exit, labels, changed, touched,
          coll, changes, list>>

R == INSTANCE GitHubRequests

req == assignOperation(cmd)
op  == operationKind(cmd)
withComments == op = "issue_view" /\ Contains(selectedFields(cmd), "comments")
Paged == op \in {"issue_list", "label_list", "pull_checks"} \/ withComments

(* Objects 1 and 2 are an issue and a pull request; there is no other.       *)
KindOf(n) == CASE n = 1 -> "issue" [] n = 2 -> "pull" [] OTHER -> "absent"

NoList == [records |-> <<>>, page |-> 1, cursor |-> 0, cursors |-> {},
           seen |-> 0, start |-> 0, pages |-> 0]

Numbers(from, n) == [i \in 1..n |-> from + i]

Init ==
  /\ cmd \in Commands
  /\ granted \in {{R!Capability(k)} : k \in R!Reads \union R!Writes}
  /\ pc = "parse" /\ ctx = "live" /\ used = 0
  /\ effect = "none" /\ status = [code |-> "pending"] /\ exit = "none"
  /\ labels \in IF op = "issue_label_change" THEN LabelSeqs ELSE {<<>>}
  /\ changed = <<>> /\ touched = {}
  /\ coll \in [main : {Numbers(0, n) : n \in IF Paged THEN 0..MaxItems ELSE {0}},
               status : {Numbers(20, n) : n \in IF op = "pull_checks" THEN 0..MaxItems ELSE {0}}]
  /\ changes = [deleted |-> 0, inserted |-> 0]
  /\ list = NoList

World == <<labels, touched, coll, changes>>

(* The call ends with an error, or goes on. *)
fail(err) ==
  /\ pc' = "done" /\ status' = Error(err)
  /\ UNCHANGED <<list, changed>>
malformed == fail(Is({}))   \* providerResponse: an error no sentinel names
goto(step) == pc' = step /\ UNCHANGED <<status, list, changed>>
succeed == pc' = "done" /\ status' = OKStatus /\ UNCHANGED changed

(* --- The client ---------------------------------------------------------- *)
sameProgress == UNCHANGED <<cmd, granted, used, effect>> /\ UNCHANGED World

Parse ==
  /\ pc = "parse"
  /\ \/ ~parseArgs(cmd) /\ exit' = "2" /\ goto("gone")
     \/ parseArgs(cmd) /\ exit' = exit /\ goto("service")
     \/ parseArgs(cmd) /\ exit' = "1" /\ goto("gone")   \* configuration, dial
  /\ UNCHANGED ctx /\ sameProgress

(* The status reaches gh, which prints the response, if it can. *)
Deliver ==
  /\ pc = "done" /\ exit = "none"
  /\ exit' \in IF status = OKStatus THEN {"0", "1"} ELSE {"1"}
  /\ UNCHANGED <<ctx, pc, status, list, changed>> /\ sameProgress

(* The user interrupts gh: it leaves, and the call's context is canceled. *)
Interrupt ==
  /\ exit = "none" /\ pc # "parse"
  /\ exit' = "130" /\ ctx' = IF ctx = "live" THEN "Canceled" ELSE ctx
  /\ UNCHANGED <<pc, status, list, changed>> /\ sameProgress

(* operationTimeout of the server or of the client. *)
DeadlinePasses ==
  /\ ctx = "live" /\ pc \notin {"parse", "gone", "done"}
  /\ ctx' = "DeadlineExceeded"
  /\ UNCHANGED <<exit, pc, status, list, changed>> /\ sameProgress

(* --- The service --------------------------------------------------------- *)
firstStep ==
  IF op \in {"issue_list", "label_list"} THEN "pages"
  ELSE IF op = "issue_label_change" \/ R!requiresPreflight(op) THEN "preflight"
  ELSE IF op \in R!Writes THEN "write" ELSE "view"

(* githubService.Execute up to the adapter: validation, the capability, the  *)
(* policy and the accepted event, each before any provider call.             *)
Service ==
  /\ pc = "service"
  /\ IF ~R!ValidateGitHubRequest(req) THEN fail(Is({"ErrInvalidArgument"}))
     ELSE IF req.repository # "granted" \/ R!Capability(op) \notin granted
          THEN fail(Is({"ErrDenied"}))
          ELSE goto(firstStep) \/ fail(Is({"ErrServiceUnavailable"}))
  /\ UNCHANGED <<ctx, exit>> /\ sameProgress

(* --- One provider command ------------------------------------------------ *)
mutation == op \in R!Writes
budgetLimit == IF mutation THEN R!maximumMutationBytes ELSE R!maximumPaginatedReadBytes
remaining == budgetLimit - used

(* Which calls go through callBudgeted; the check pages have a budget of     *)
(* their own, which does not look at the context.                            *)
budgeted == \/ op \in {"issue_list", "label_list", "issue_label_change"}
            \/ withComments
inChecks == op = "pull_checks" /\ pc \in {"pages", "statuses"}

(* The command's StdoutLimit. *)
stdoutLimit ==
  CASE pc = "preflight" -> R!maximumMutationBytes
    [] pc = "view" /\ op = "pull_checks" -> 8
    [] pc = "view" /\ op # "pull_checks" /\ budgeted -> Min({2, remaining})
    [] pc \in {"pages", "probe", "statuses"} -> remaining
    [] pc = "answer" /\ (R!requiresPreflight(op) \/ budgeted) -> remaining
    [] pc = "answer" /\ op = "pull_ready" -> 1
    [] OTHER -> R!outputLimit(R!normalizer(op))

Reading == {"preflight", "view", "pages", "probe", "statuses"}

(* No process is started: callBudgeted, checkPage and the page bounds.       *)
callRefused ==
  IF inChecks
  THEN IF list.pages >= MaxCheckPages \/ remaining <= 0 THEN {"ErrOutputLimit"} ELSE {}
  ELSE IF ~budgeted THEN {}
  ELSE IF op = "issue_list" /\ list.page > MaxIssuePages THEN {"ErrOutputLimit"}
  ELSE IF op = "label_list" /\ list.page > MaxLabelPages THEN {"ErrOutputLimit"}
  ELSE IF ctx # "live" THEN {ctx}
  ELSE IF remaining <= 0 THEN {"ErrOutputLimit"}
  ELSE {}

callErrors == {"ErrStartFailed", "ErrCommandFailed"} \union (IF ctx = "live" THEN {} ELSE {ctx})

(* A read fails, or prints more than it may. *)
ReadFails ==
  /\ pc \in Reading
  /\ IF callRefused # {} THEN fail(Is(callRefused))
     ELSE \/ \E e \in callErrors : fail(Is({e}))
          \/ (\E s \in Sizes : s > stdoutLimit) /\ fail(Is({"ErrOutputLimit"}))
  /\ UNCHANGED <<ctx, exit>> /\ sameProgress

(* A read succeeds with s MiB. *)
reads(s) ==
  /\ callRefused = {} /\ s <= stdoutLimit
  /\ used' = IF budgeted \/ mutation \/ op = "pull_checks" THEN used + s ELSE used
  /\ UNCHANGED <<cmd, granted, ctx, effect, exit>>

responseLimit == IF op \in {"issue_list", "issue_view", "label_list"}
                 THEN R!maximumPaginatedReadBytes ELSE R!maximumResponseBytes

(* The normalised response is refused when it is too long, which it can only *)
(* be when the s MiB it was made of are more than the limit.                 *)
respond(s) == \/ succeed
              \/ s > responseLimit /\ pc' = "done" /\ status' = Error(Is({"ErrOutputLimit"}))
                 /\ UNCHANGED changed

fields(kind) == R!Required(kind) \union R!OptionalFields(kind) \union {"-"}

(* --- Preflight ----------------------------------------------------------- *)
(* What GET issues/N or pulls/N finds: a pull request is also an issue.      *)
found(resource) == KindOf(req.number) \in IF resource = "pulls" THEN {"pull"} ELSE {"issue", "pull"}

(* preflight and rejectPullIssue: only the kind of the object matters, and    *)
(* that something of the 4 MiB is left for the write's own answer.           *)
Preflight ==
  /\ pc = "preflight" /\ op # "issue_label_change"
  /\ found(R!PreflightResource(op))
  /\ \E s \in Sizes, wellFormed \in BOOLEAN :
       /\ reads(s)
       /\ IF remaining - s <= 0 THEN fail(Is({"ErrOutputLimit"}))
          ELSE IF ~wellFormed \/ (op # "pull_comment" /\ KindOf(req.number) = "pull")
               THEN malformed
               ELSE goto("write")
  /\ UNCHANGED World

(* executeIssueLabelChange up to the write. *)
LabelPreflight ==
  /\ pc = "preflight" /\ op = "issue_label_change"
  /\ found("issues")
  /\ \E s \in Sizes, wellFormed \in BOOLEAN :
       LET new == R!changedLabels(labels, R!Arg(req, "add"), R!Arg(req, "remove"))
       IN  /\ reads(s)
           /\ IF \/ ~wellFormed \/ KindOf(req.number) = "pull"
                 \/ ~IsInjective(labels) \/ Len(new) > LabelLimit
              THEN malformed
              ELSE /\ pc' = "write" /\ changed' = new /\ UNCHANGED <<status, list>>
  /\ touched' = {}
  /\ UNCHANGED <<labels, coll, changes>>

(* --- The write ----------------------------------------------------------- *)
(* executeIssueLabelChange looks at its context and budget once more; the    *)
(* other writes start their command at once.                                *)
writeRefused == IF op = "issue_label_change" THEN callRefused ELSE {}

WriteRefused ==
  /\ pc = "write" /\ writeRefused # {} /\ fail(Is(writeRefused))
  /\ UNCHANGED <<ctx, exit>> /\ sameProgress

Send ==
  /\ pc = "write" /\ writeRefused = {}
  /\ effect' = "sent" /\ goto("answer")
  /\ UNCHANGED <<cmd, granted, ctx, exit, used>> /\ UNCHANGED World

(* The provider (external): whom an endpoint accepts. *)
accepts(resource) ==
  CASE resource \in {"pulls", "pr/ready"} -> op = "pull_create" \/ KindOf(req.number) = "pull"
    [] resource \in {"issues", "issues/comments"} ->
         op = "issue_create" \/ KindOf(req.number) # "absent"
    [] OTHER -> TRUE

Apply ==
  /\ effect = "sent" /\ accepts(R!WriteResource(op))
  /\ effect' = "applied"
  /\ labels' = IF op = "issue_label_change" THEN changed ELSE labels
  /\ UNCHANGED <<cmd, granted, pc, ctx, used, status, exit, changed, touched, coll,
                 changes, list>>

Drop ==
  /\ effect = "sent" /\ effect' = "failed"
  /\ UNCHANGED <<cmd, granted, pc, ctx, used, status, exit, changed, list>>
  /\ UNCHANGED World

\* mutant: a failed write command is simply tried again
AnswerFailsRetried ==
  /\ pc = "answer"
  /\ \/ \E e \in callErrors : goto("write")
     \/ /\ effect = "applied" /\ \E s \in Sizes : s > stdoutLimit
        /\ fail(Is({"ErrOutputLimit"}))
  /\ UNCHANGED <<ctx, exit>> /\ sameProgress

(* The write's command fails: the process is gone, the request may not be.   *)
AnswerFails ==
  /\ pc = "answer"
  /\ \/ \E e \in callErrors : fail(Is({e}))
     \/ /\ effect = "applied" /\ \E s \in Sizes : s > stdoutLimit
        /\ fail(Is({"ErrOutputLimit"}))
  /\ UNCHANGED <<ctx, exit>> /\ sameProgress

Answered ==
  /\ pc = "answer" /\ effect = "applied"
  /\ \E s \in Sizes, wellFormed, aboutIt \in BOOLEAN, lacks \in fields(R!normalizer(op)) :
       /\ s <= stdoutLimit
       /\ used' = used + s
       /\ IF op = "pull_ready" THEN goto("view")
          ELSE IF ~R!normalizes(R!normalizer(op), lacks, wellFormed, aboutIt) THEN malformed
          ELSE respond(s) /\ UNCHANGED list
  /\ UNCHANGED <<cmd, granted, ctx, effect, exit>> /\ UNCHANGED World

(* --- Single reads -------------------------------------------------------- *)
(* The one GET of a plain read, of pull_ready after its write, of issue_view *)
(* and of pull_checks (which needs the head's object ID and nothing else).   *)
viewFinds == \/ op \notin R!Numbered \union {"issue_view"} \/ op = "run_view"
             \/ found(IF op = "issue_view" THEN "issues" ELSE "pulls")

View ==
  /\ pc = "view" /\ viewFinds
  /\ \E s \in Sizes, wellFormed, aboutIt \in BOOLEAN, lacks \in fields(R!normalizer(op)) :
       /\ reads(s)
       /\ IF op = "pull_checks" THEN IF wellFormed THEN goto("pages") ELSE malformed
          ELSE IF \/ ~R!normalizes(R!normalizer(op), lacks, wellFormed, aboutIt)
                  \/ op = "issue_view" /\ KindOf(req.number) = "pull"
               THEN malformed
          ELSE IF Paged THEN goto("pages")
          ELSE respond(s) /\ UNCHANGED list
  /\ UNCHANGED World

(* --- Paging -------------------------------------------------------------- *)
listLimitOf == req.args["limit"]

(* One page was read: s MiB of it. *)
paging(s) == pc = "pages" /\ reads(s) /\ UNCHANGED World
finish(records, s) == respond(s) /\ list' = [list EXCEPT !.records = records]
more(l) == pc' = "pages" /\ list' = l /\ UNCHANGED <<status, changed>>

(* Pages of the cursor query, as GitHub answers it and as it never should:   *)
(* an empty page or one without a cursor that has a successor, an earlier    *)
(* page once more, a page that is too long.  Cursor 0 is none.               *)
issuePages(first) ==
  LET rest == Without(coll.main, 0..list.cursor)
      take == Min({first, Len(rest)})
      nodes == SubSeq(rest, 1, take)
      honest == [nodes |-> nodes, next |-> Len(rest) > take,
                 cursor |-> IF take = 0 THEN 0 ELSE nodes[take]]
  IN  {honest, [honest EXCEPT !.nodes = <<>>, !.next = TRUE],
       [honest EXCEPT !.cursor = 0, !.next = TRUE],
       [honest EXCEPT !.nodes = rest]} \union
      {[nodes |-> pageOf(coll.main, 1, first),
        next |-> TRUE, cursor |-> c] : c \in list.cursors}

\* mutant: a cursor the provider has given before is followed again
takeIssuePageAgain(p, first, s) ==
  LET records == list.records \o p.nodes
  IN  IF Len(p.nodes) > first THEN malformed
      ELSE IF ~p.next THEN finish(records, s)
      ELSE IF p.nodes = <<>> \/ p.cursor = 0 THEN malformed
      ELSE IF Len(records) >= listLimitOf THEN finish(records, s)
      ELSE more([list EXCEPT !.records = records, !.page = @ + 1,
                             !.cursor = p.cursor, !.cursors = @ \union {p.cursor}])

(* executeIssueList: what the loop does with one page. *)
takeIssuePage(p, first, s) ==
  LET records == list.records \o p.nodes
  IN  IF Len(p.nodes) > first \/ (p.cursor # 0 /\ p.cursor \in list.cursors) THEN malformed
      ELSE IF ~p.next THEN finish(records, s)
      ELSE IF p.nodes = <<>> \/ p.cursor = 0 THEN malformed
      ELSE IF Len(records) >= listLimitOf THEN finish(records, s)
      ELSE more([list EXCEPT !.records = records, !.page = @ + 1,
                             !.cursor = p.cursor, !.cursors = @ \union {p.cursor}])

firstOf == Min({PageSize, listLimitOf - Len(list.records)})

IssuePage ==
  /\ op = "issue_list"
  /\ \E s \in Sizes, lacks \in fields("issue_graphql") :
       /\ paging(s)
       /\ IF lacks \in R!Required("issue_graphql") THEN malformed
          ELSE \E p \in issuePages(firstOf) : takeIssuePage(p, firstOf, used + s)

(* The Link header of a page (external), and one that points elsewhere. *)
linkRelations ==
  LET n == Len(coll.main)
      next == n > list.page * PageSize
      honest == [r \in (IF next THEN {"next", "last"} ELSE {}) \union
                       (IF list.page > 1 THEN {"prev", "first"} ELSE {}) |->
                   CASE r = "next" -> list.page + 1 [] r = "prev" -> list.page - 1
                     [] r = "first" -> 1 [] OTHER -> (n + PageSize - 1) \div PageSize]
  IN  {honest} \union {[honest EXCEPT ![r] = @ + 1] : r \in DOMAIN honest}

validatePageRelations(rel) ==
  /\ "next" \in DOMAIN rel => rel["next"] = list.page + 1
  /\ "prev" \in DOMAIN rel => list.page # 1 /\ rel["prev"] = list.page - 1
  /\ "first" \in DOMAIN rel => rel["first"] = 1
  /\ "last" \in DOMAIN rel =>
       IF "next" \in DOMAIN rel THEN rel["last"] > list.page ELSE rel["last"] = list.page

(* executeLabelList: the page is cut to the limit before it is counted. *)
takeLabelPage(nodes, next, s) ==
  LET room == listLimitOf - Len(list.records)
      page == SubSeq(nodes, 1, Min({room, Len(nodes)}))
      records == list.records \o page
  IN  IF Len(nodes) > PageSize THEN fail(Is({"ErrOutputLimit"}))
      ELSE IF Len(records) >= listLimitOf \/ ~next THEN finish(records, s)
      ELSE IF Len(page) < PageSize THEN malformed
      ELSE more([list EXCEPT !.records = records, !.page = @ + 1])

LabelPage ==
  /\ op = "label_list"
  /\ \E s \in Sizes, rel \in linkRelations, wellFormed \in BOOLEAN :
       /\ paging(s)
       /\ IF ~wellFormed \/ ~validatePageRelations(rel) THEN malformed
          ELSE LET next == "next" \in DOMAIN rel
               IN  \E nodes \in {pageOf(coll.main, list.page, PageSize)} \union
                                (IF next THEN {<<>>} ELSE {}) :
                     takeLabelPage(nodes, next, used + s)

(* fetchIssueComments, and the probe for one comment more than fit. *)
takeCommentPage(nodes, s) ==
  LET records == list.records \o nodes
  IN  IF Len(nodes) < PageSize THEN finish(records, s)
      ELSE IF list.page < MaxCommentPages
           THEN more([list EXCEPT !.records = records, !.page = @ + 1])
           ELSE /\ pc' = "probe" /\ list' = [list EXCEPT !.records = records]
                /\ UNCHANGED <<status, changed>>

CommentPage ==
  /\ op = "issue_view"
  /\ \E s \in Sizes, lacks \in fields("comment") :
       /\ paging(s)
       /\ IF lacks \in R!Required("comment") THEN malformed
          ELSE takeCommentPage(pageOf(coll.main, list.page, PageSize), used + s)

Probe ==
  /\ pc = "probe"
  /\ \E s \in Sizes, wellFormed \in BOOLEAN :
       /\ reads(s)
       /\ IF ~wellFormed THEN malformed
          ELSE IF pageOf(coll.main, MaxCommentPages * PageSize + 1, 1) # <<>>
               THEN fail(Is({"ErrOutputLimit"}))
               ELSE finish(list.records, used + s)
  /\ UNCHANGED World

(* appendCheckPages and appendStatusPages: total is the provider's count,    *)
(* read anew with every page; it may be one too high, or one that the page   *)
(* itself belies.                                                            *)
takeCheckPage(nodes, total, s) ==
  LET room == {MaxCheckRecords - Len(list.records), total - list.seen}
      seen == list.seen + Len(nodes)
      next == [list EXCEPT !.records = @ \o nodes, !.seen = seen,
                           !.page = @ + 1, !.pages = @ + 1]
      over == IF pc = "pages" THEN total > MaxCheckRecords
              ELSE total + list.start > MaxCheckRecords
  IN  IF over THEN fail(Is({"ErrOutputLimit"}))
      ELSE IF nodes = <<>> /\ list.seen < total THEN malformed
      ELSE IF nodes # <<>> /\ Len(nodes) > Min(room) THEN fail(Is({"ErrOutputLimit"}))
      ELSE IF total > list.page * PageSize
           THEN pc' = pc /\ list' = next /\ UNCHANGED <<status, changed>>
      ELSE IF seen < total THEN malformed
      ELSE IF pc = "pages"
           THEN /\ pc' = "statuses"
                /\ list' = [next EXCEPT !.page = 1, !.seen = 0, !.start = Len(next.records)]
                /\ UNCHANGED <<status, changed>>
           ELSE respond(s) /\ list' = next

CheckPage ==
  /\ op = "pull_checks" /\ pc \in {"pages", "statuses"}
  /\ \E s \in Sizes, wellFormed \in BOOLEAN :
       LET items == IF pc = "pages" THEN coll.main ELSE coll.status
           nodes == pageOf(items, list.page, PageSize)
       IN  /\ reads(s)
           /\ IF ~wellFormed THEN malformed
              ELSE \E total \in {Len(items), Len(items) + 1} \union
                                0..(list.seen + Len(nodes) - 1) :
                     takeCheckPage(nodes, total, used + s)
  /\ UNCHANGED World

(* --- Other users --------------------------------------------------------- *)
byOthers == /\ pc \notin {"parse", "gone", "done"} \/ effect = "sent"
           /\ changes.deleted + changes.inserted < MaxChanges
           /\ UNCHANGED <<cmd, granted, pc, ctx, used, effect, status, exit, changed, list>>

OtherLabels ==
  /\ op = "issue_label_change" /\ byOthers
  /\ \E l \in Labels :
       /\ labels' = IF Contains(labels, l) THEN Without(labels, {l})
                    ELSE Append(labels, l)
       /\ touched' = touched \union {l}
  /\ changes' = [changes EXCEPT !.inserted = @ + 1]
  /\ UNCHANGED coll

(* Issues and comments are listed oldest first, so that a new one comes last. *)
OtherInserts ==
  /\ Paged /\ byOthers
  /\ \E part \in {"main", "status"} :
       LET new == 30 + changes.inserted
       IN  /\ part = "status" => op = "pull_checks"
           /\ coll' \in {[coll EXCEPT ![part] = Append(@, new)]} \union
                        (IF op \in {"label_list", "pull_checks"}
                         THEN {[coll EXCEPT ![part] = <<new>> \o @]} ELSE {})
  /\ changes' = [changes EXCEPT !.inserted = @ + 1]
  /\ UNCHANGED <<labels, touched>>

OtherDeletes ==
  /\ Paged /\ byOthers
  /\ \E part \in {"main", "status"} : \E i \in DOMAIN coll[part] :
       coll' = [coll EXCEPT ![part] = RemoveAt(@, i)]
  /\ changes' = [changes EXCEPT !.deleted = @ + 1]
  /\ UNCHANGED <<labels, touched>>

(* --- The specification --------------------------------------------------- *)
Next ==
  \/ Parse \/ Deliver \/ Interrupt \/ DeadlinePasses \/ Service
  \/ ReadFails \/ Preflight \/ LabelPreflight
  \/ WriteRefused \/ Send \/ Apply \/ Drop \/ AnswerFails \/ Answered
  \/ View \/ IssuePage \/ LabelPage \/ CommentPage \/ Probe \/ CheckPage
  \/ OtherLabels \/ OtherInserts \/ OtherDeletes

Spec == Init /\ [][Next]_vars

(* --- Properties ---------------------------------------------------------- *)
(* The outcome as the caller of the RPC reads it: OK, a status that says the *)
(* request was never passed on, or anything else.                            *)
answer ==
  CASE status.code = "pending" -> "pending"
    [] status.code = "OK" -> "done"
    [] status.code \in {"InvalidArgument", "PermissionDenied"} -> "refused"
    [] OTHER -> "unknown"

W == INSTANCE ProviderWrite WITH writes <- op \in R!Writes, effect <- effect,
                                 answer <- answer

(* Adapter.Execute implements the promise of ProviderWrite: it sends a write *)
(* at most once, says OK only when GitHub applied it, and invalid or denied  *)
(* only when nothing was sent and nothing will take effect later.            *)
WriteContract == W!Spec

(* The preflights: an issue command never changes a pull request, which the  *)
(* issues endpoint of GitHub would let it, nor a pr command an issue.        *)
KindsStayApart ==
  effect = "applied" =>
    /\ op \in R!IssueWrites \ {"issue_create"} => KindOf(req.number) = "issue"
    /\ op \in R!PullWrites \ {"pull_create"} => KindOf(req.number) = "pull"

(* executeIssueLabelChange writes the whole list back: what it changes beyond *)
(* the request is at most what another user touched since the list was read, *)
(* and the requested change holds.                                           *)
LabelsAreKept ==
  [][(effect' # effect /\ effect' = "applied" /\ op = "issue_label_change") =>
       LET old == ToSet(labels)
           new == ToSet(labels')
           add == ToSet(R!Arg(req, "add"))
           remove == ToSet(R!Arg(req, "remove"))
       IN  /\ (old \ new) \union (new \ old) \subseteq add \union remove \union touched
           /\ add \subseteq new /\ remove \cap new = {}]_vars

(* The items that were there from beginning to end. *)
stable == {i \in ToSet(coll.main \o coll.status) : i <= 9 \/ i \in 21..29}

(* The paging loops: a list that is reported is complete up to its limit,    *)
(* with a cursor whatever others do, by offset as long as nothing is deleted *)
(* meanwhile; it names nothing twice (by offset: unless something was        *)
(* inserted before the page) and never more than was asked.                  *)
ListsMissNothing ==
  (status.code = "OK" /\ Paged) =>
    LET full == op \in {"issue_list", "label_list"} /\ Len(list.records) = listLimitOf
    IN  /\ (op = "issue_list" \/ changes.deleted = 0) =>
             full \/ stable \subseteq ToSet(list.records)
        /\ (op = "issue_list" \/ changes.inserted = 0) => IsInjective(list.records)
        /\ op \in {"issue_list", "label_list"} => Len(list.records) <= listLimitOf

(* The client's parsers and the service's validators are two translations of *)
(* one contract: what gh sends is never refused as invalid, but for a label  *)
(* name with control characters; and what --json offers is a field of the    *)
(* record, but for the assignees of an issue list, which are never asked of  *)
(* the provider.                                                             *)
ClientAndServiceAgree ==
  /\ status.code = "InvalidArgument" => op = "label_create" /\ cmd.text.kind = "control"
  /\ exit = "0" => ToSet(selectedFields(cmd)) \subseteq
       R!recordFields(R!normalizer(op)) \union
       (IF op = "issue_list" THEN {"assignees"} ELSE {})
=============================================================================
