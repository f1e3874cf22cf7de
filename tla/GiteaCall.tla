----------------------------- MODULE GiteaCall -----------------------------
(***************************************************************************)
(* One Gitea command from the restricted tea through the service to the      *)
(* provider and back: internal/client/gitea, internal/server/gitea.go and    *)
(* internal/provider/gitea.  Between the provider calls of a command, and    *)
(* while one is out, the caller's context may end and other users may close  *)
(* or reopen the issue and delete or add comments, reviews and labels.       *)
(* Gitea (external) answers honestly, with a flaw, or not at all.  The       *)
(* several writes of an issue edit are the subject of GiteaIssueEdit.        *)
(***************************************************************************)
EXTENDS TeaCommand, RpcStatus, Paging

CONSTANTS Commands,     \* the commands tried
          MaxItems,     \* comments, reviews or labels to start with (< 10)
          MaxChanges,   \* changes other users make
          PageSize, MaxPages

ASSUME PageAssumption ==
  /\ MaxItems \in 0..9 /\ MaxChanges \in Nat /\ {PageSize, MaxPages} \subseteq Nat \ {0}
  /\ PageSize * MaxPages <= maximumIssueComments   \* maximumComments, maximumReviews: 50 * 20

VARIABLES cmd, granted,            \* the command; the caller's capabilities
          pc, ctx,                 \* the step; the context of the call
          effect, status,          \* of the write; of the call
          told,                    \* what tea tells the user
          issue, moved,            \* the issue's state; did our write change it
          items, reviews, changes, \* the timeline (0: no comment) or the labels;
                                   \* the reviews; changes by others
          page, last,              \* the paging loop
          record,                  \* the result so far
          transitioned             \* MutationMetadata.Transitioned

vars == <<cmd, granted, pc, ctx, effect, status, told, issue, moved, items, reviews,
          changes, page, last, record, transitioned>>

R == INSTANCE GiteaRequests

req == requestFor(cmd)
op  == operation(cmd)
withComments == op \in {"issue_view", "pull_view"} /\ Given(cmd, "--comments")
withLabels == op = "issue_create" /\ Given(cmd, "--labels")
withState == op \in {"issue_close", "issue_reopen"}
target == IF op = "issue_close" THEN "closed" ELSE "open"

(* Objects 1 and 2 are an issue and a pull request; there is no other.       *)
KindOf(n) == CASE n = 1 -> "issue" [] n = 2 -> "pull" [] OTHER -> "absent"

commentsOf(entries) == Without(entries, {0})
Numbers(n) == [i \in 1..n |-> i]
upTo(condition) == IF condition THEN 0..MaxItems ELSE {0}

NoRecord == [op |-> "none", index |-> 0, has |-> {}, flaw |-> R!NoFlaw, count |-> 0,
             comments |-> <<>>, reviews |-> <<>>, size |-> 0, limit |-> 0, hydrated |-> FALSE]

Init ==
  /\ cmd \in Commands
  /\ LET all == {R!Capability(k) : k \in R!Operations}
     IN  granted \in {{R!Capability(op)}, all \ {R!Capability(op)}}
  /\ pc = "parse" /\ ctx = "live" /\ effect = "none"
  /\ status = [code |-> "pending"] /\ told = "none"
  /\ issue \in {"open", "closed"} /\ (issue = "closed" => withState) /\ moved = FALSE
  /\ \E n \in upTo(withComments \/ withLabels), event \in 0..2 :
       items = IF event \in 1..n /\ withComments THEN [Numbers(n) EXCEPT ![event] = 0]
               ELSE Numbers(n)
  /\ \E n \in upTo(op = "pull_view") : reviews = Numbers(n)
  /\ changes = [deleted |-> 0, inserted |-> 0, states |-> 0]
  /\ page = 1 /\ last = 0 /\ record = NoRecord /\ transitioned = "none"

World == <<issue, moved, items, reviews, changes>>
Call == <<cmd, granted, pc, effect, status, page, last, record, transitioned>>

(* The call ends with an error, or goes on. *)
fail(err) ==
  pc' = "done" /\ status' = Error(Is({err})) /\ UNCHANGED <<page, last, record, effect, transitioned>>
goto(step) ==
  pc' = step /\ UNCHANGED <<status, page, last, record, effect, transitioned>>

(* --- The client ---------------------------------------------------------- *)
TeaParses ==
  /\ pc = "parse"
  /\ \/ ~Parse(cmd) /\ told' = "usage" /\ goto("gone")
     \/ Parse(cmd) /\ UNCHANGED told /\ goto("service")
     \/ Parse(cmd) /\ told' \in {"failed", "interrupted"} /\ goto("gone")  \* configuration, dial
  /\ UNCHANGED <<cmd, granted, ctx>> /\ UNCHANGED World

\* mutant: an internal failure of the service is taken for a failed request
mutationOutcomeUnknownLess(st) ==
  \/ IsGiteaWriteOutcomeUnknown(st)
  \/ st.code \in {"Canceled", "DeadlineExceeded"}

mutationOutcomeUnknown(st) ==
  \/ IsGiteaWriteOutcomeUnknown(st)
  \/ st.code \in {"Unavailable", "Canceled", "DeadlineExceeded", "Internal", "ResourceExhausted"}

reportExecutionError(st) ==
  IF IsIssueKindStatus(st) \/ IsPullKindStatus(st) THEN "wrong_kind"
  ELSE IF op = "issue_edit" /\ IsGiteaEditPartial(st) THEN "partial"
  ELSE IF mutates(cmd) /\ mutationOutcomeUnknown(st) THEN "unknown"
  ELSE IF ctx = "Canceled" THEN "interrupted" ELSE "failed"

(* A response that cannot be printed is an error without a status. *)
unprintable == IF mutates(cmd) THEN "unknown"
               ELSE IF ctx = "Canceled" THEN "interrupted" ELSE "failed"

(* executeCommand: the status, or the response, reaches tea; the rendered     *)
(* output may be too long, and standard output may fail.                     *)
Deliver ==
  /\ pc = "done" /\ told = "none"
  /\ told' \in IF status # OKStatus THEN {reportExecutionError(status)}
               ELSE IF render(cmd, record) THEN {"done", unprintable} ELSE {unprintable}
  /\ UNCHANGED ctx /\ UNCHANGED Call /\ UNCHANGED World

(* The user interrupts tea, its operationTimeout passes, or the connection    *)
(* breaks: tea reports at once, and the service's context ends.              *)
ClientLeaves ==
  /\ told = "none" /\ pc # "parse"
  /\ \E code \in {"Canceled", "DeadlineExceeded", "Unavailable"} :
       /\ ctx' = IF ctx # "live" THEN ctx
                 ELSE IF code = "DeadlineExceeded" THEN code ELSE "Canceled"
       /\ told' = IF mutates(cmd) /\ mutationOutcomeUnknown(canonical(code)) THEN "unknown"
                  ELSE IF code = "Canceled" THEN "interrupted" ELSE "failed"
  /\ UNCHANGED Call /\ UNCHANGED World

(* --- The service --------------------------------------------------------- *)
firstStep ==
  CASE op = "repository_view" -> "repository"
    [] op \in {"issue_list", "pull_list"} -> "list"
    [] op = "issue_create" -> IF withLabels THEN "labels" ELSE "write"
    [] op = "issue_edit" -> "edit"
    [] OTHER -> "get"

(* giteaService.Execute up to the adapter: the two validations, the policy    *)
(* and the accepted event, each before any provider call.                    *)
Service ==
  /\ pc = "service"
  /\ IF ~R!ValidateRequest(req) \/ ~R!giteaSelector(req) THEN fail("ErrInvalidArgument")
     ELSE IF req.repository # "granted" \/ R!Capability(op) \notin granted
          THEN fail("ErrDenied")
          ELSE goto(firstStep) \/ fail("ErrServiceUnavailable")
  /\ UNCHANGED <<cmd, granted, ctx, told>> /\ UNCHANGED World

(* providerLifecycle.Complete: the response and its size. *)
Complete(rec, how) ==
  /\ pc' = "done" /\ effect' = how /\ record' = rec
  /\ status' \in {OKStatus, Error(Is({"ErrOutputLimit"}))}
  /\ UNCHANGED <<page, last>>

(* --- Reads --------------------------------------------------------------- *)
Reading == {"repository", "list", "get", "pull", "reviews", "timeline", "labels"}

(* Where the context is looked at before the call. *)
checked == pc \in {"reviews", "timeline", "labels"} \/ (pc = "get" /\ mutates(cmd))

(* issueList: another owner than the repository's has no issues in it,   *)
(* and Gitea is not asked.                                                   *)
otherOwner == Given(cmd, "--owner") /\ cmd.flags["--owner"].kind = "other"

(* The error of a call, then the context's, decides what the call is said to *)
(* have failed of.                                                           *)
classifyProviderError(err) ==
  IF err \in {"Canceled", "DeadlineExceeded"} THEN err
  ELSE IF ctx # "live" THEN ctx
  ELSE "ErrProviderFailure"

(* The transport reports its own failures as Canceled (ProviderHTTP), the     *)
(* HTTP client its timeout as DeadlineExceeded, also when the context lives. *)
ReadFails ==
  /\ pc \in Reading /\ ~(pc = "list" /\ otherOwner)
  /\ \E err \in {"Canceled", "DeadlineExceeded", "other"} : fail(classifyProviderError(err))
  /\ UNCHANGED <<cmd, granted, ctx, told>> /\ UNCHANGED World

reads == /\ checked => ctx = "live"
         /\ UNCHANGED <<cmd, granted, ctx, told>> /\ UNCHANGED World

OneOf(flaws) == flaws \union {R!NoFlaw}

(* repository *)
GetRepository ==
  /\ pc = "repository" /\ reads
  /\ \E flaw \in OneOf(R!RepositoryFlaws) :
       IF R!validateRepository(flaw)
       THEN Complete([NoRecord EXCEPT !.op = op, !.flaw = flaw], effect) /\ UNCHANGED transitioned
       ELSE fail("ErrProviderFailure")

ListIssues ==
  /\ pc = "list" /\ op = "issue_list"
  /\ reads
  /\ \E size \in {0, 1, req.args["--limit"], req.args["--limit"] + 1}, flaw \in OneOf(R!IssueFlaws),
        kind \in {"issue", "pull"} :
       LET rec == [NoRecord EXCEPT !.op = op, !.size = size, !.limit = req.args["--limit"],
                     !.flaw = flaw, !.has = R!projectIssue(ToSet(req.args["--fields"]))]
       IN  IF otherOwner THEN Complete([rec EXCEPT !.size = 0], effect) /\ UNCHANGED transitioned
           ELSE IF size > rec.limit \/ (size > 0 /\ ~R!normalizeIssue(kind, flaw))
                THEN fail("ErrProviderFailure")
                ELSE Complete(rec, effect) /\ UNCHANGED transitioned

PlainRaw == [numbers |-> 1, mergeable |-> <<"true">>, maintainer |-> <<>>]
(* One thing is odd at a time: the object, or how it is written down.        *)
RawPulls == [numbers : 0..2, mergeable : {<<>>, <<"null">>, <<"true">>, <<"true", "false">>},
             maintainer : {<<>>, <<"false">>, <<"false", "true">>}]

(* pullList: every pull has its own raw values, and no index comes twice.    *)
ListPulls ==
  /\ pc = "list" /\ op = "pull_list" /\ reads
  /\ \E size \in {0, 1, req.args["--limit"], req.args["--limit"] + 1},
        flaw \in OneOf(R!PullFlaws \union R!ActorFlaws("actor")), raw \in RawPulls,
        distinct \in BOOLEAN :
       /\ flaw # R!NoFlaw => raw = PlainRaw
       /\ LET rec == [NoRecord EXCEPT !.op = op, !.size = size, !.limit = req.args["--limit"],
                        !.flaw = flaw, !.has = R!projectPull(ToSet(req.args["--fields"]))]
          IN  IF /\ size <= rec.limit
                 /\ size > 0 => distinct /\ R!decodePullPresenceObject(raw) /\ R!normalizePull(raw, flaw)
              THEN Complete(rec, effect) /\ UNCHANGED transitioned
              ELSE fail("ErrProviderFailure")

(* GetIssue, which serves issueView, pullView and the preflight of a write.  *)
commentCount == Len(commentsOf(items))

viewed(flaw) == [NoRecord EXCEPT !.op = op, !.index = cmd.index, !.flaw = flaw,
                   !.has = R!projectIssue(R!allIssueFields), !.count = commentCount]

next(step, rec) == /\ pc' = step /\ record' = rec /\ page' = 1 /\ last' = 0
                   /\ UNCHANGED <<status, effect, transitioned>>

\* mutant: the preflight of a write does not look at the kind of the object
afterGetAnyKind(flaw) ==
  IF ~R!normalizeIssue("issue", flaw) THEN fail("ErrProviderFailure")
  ELSE IF op = "issue_view" /\ withComments THEN next("timeline", viewed(flaw))
  ELSE IF op = "issue_view" THEN Complete(viewed(flaw), effect) /\ UNCHANGED transitioned
  ELSE IF withState /\ issue = target
       THEN \/ Complete(viewed(flaw), "held") /\ transitioned' = "no"
            \/ fail("ErrProviderFailure")
  ELSE next("write", record)

(* What follows for an issue that is one: a close or reopen of what is        *)
(* closed or open already ends here, unless its record is too long.          *)
afterGet(flaw) ==
  IF KindOf(cmd.index) = "pull" THEN fail("ErrIssueKind")
  ELSE IF ~R!normalizeIssue("issue", flaw) THEN fail("ErrProviderFailure")
  ELSE IF op = "issue_view" /\ withComments THEN next("timeline", viewed(flaw))
  ELSE IF op = "issue_view" THEN Complete(viewed(flaw), effect) /\ UNCHANGED transitioned
  ELSE IF withState /\ issue = target
       THEN \/ Complete(viewed(flaw), "held") /\ transitioned' = "no"
            \/ fail("ErrProviderFailure")
  ELSE next("write", record)

GetIssue ==
  /\ pc = "get" /\ reads
  /\ \E flaw \in OneOf(R!IssueFlaws) :
       IF KindOf(cmd.index) = "absent" THEN fail("ErrNotFound")
       ELSE IF op = "pull_view"
            THEN IF flaw \in {<<"issue", "nil">>, <<"issue", "index">>} THEN fail("ErrProviderFailure")
                 ELSE IF KindOf(cmd.index) = "issue" THEN fail("ErrPullKind")
                 ELSE goto("pull")
            ELSE afterGet(flaw)

GetPull ==
  /\ pc = "pull" /\ reads
  /\ \E flaw \in OneOf(R!PullFlaws \union R!ActorFlaws("actor")), raw \in RawPulls :
       /\ flaw # R!NoFlaw => raw = PlainRaw
       /\ IF ~R!decodePullPresenceObject(raw) \/ ~R!normalizePull(raw, flaw)
          THEN fail("ErrProviderFailure")
          ELSE next("reviews", [NoRecord EXCEPT !.op = op, !.index = cmd.index, !.flaw = flaw,
                                  !.has = R!projectPullDetail, !.count = commentCount,
                                  !.hydrated = TRUE])

(* --- Paging -------------------------------------------------------------- *)
increasing(ids) == \A i \in 1..Len(ids) : ids[i] > IF i = 1 THEN last ELSE ids[i - 1]

more(rec, ids) == /\ pc' = pc /\ page' = page + 1 /\ record' = rec
                  /\ last' = IF ids = <<>> THEN last ELSE ids[Len(ids)]
                  /\ UNCHANGED <<status, effect, transitioned>>

\* mutant: the number of comments is not compared with the issue's own
completeUnchecked(rec) == Complete(rec, effect) /\ UNCHANGED transitioned

(* completeOrdinaryComments *)
completeOrdinaryComments(rec) ==
  IF Len(rec.comments) # rec.count THEN fail("ErrProviderFailure")
  ELSE Complete(rec, effect) /\ UNCHANGED transitioned

(* normalizeCommentPage *)
normalizeCommentPage(ids, flaw) == (ids # <<>> => R!normalizeComment(flaw)) /\ increasing(ids)

(* loadOrdinaryComments: pages are counted in timeline entries, of which only *)
(* some are comments; one page more than allowed must be empty.              *)
TimelinePage ==
  /\ pc = "timeline" /\ reads
  /\ \E flaw \in OneOf(R!CommentFlaws), long \in BOOLEAN :
       LET entries == pageOf(items, page, PageSize)
           ids == commentsOf(entries)
           rec == [record EXCEPT !.comments = @ \o ids,
                     !.flaw = IF @ = R!NoFlaw /\ ids # <<>> THEN flaw ELSE @]
       IN  IF page = MaxPages + 1
           THEN IF entries # <<>> THEN fail("ErrOutputLimit") ELSE completeOrdinaryComments(record)
           ELSE IF long \/ ~normalizeCommentPage(ids, flaw) THEN fail("ErrProviderFailure")
           ELSE IF Len(entries) < PageSize THEN completeOrdinaryComments(rec)
           ELSE more(rec, ids)

(* loadPullReviews: there is no count to compare with. *)
afterReviews(rec) ==
  IF withComments THEN next("timeline", rec) ELSE Complete(rec, effect) /\ UNCHANGED transitioned

ReviewPage ==
  /\ pc = "reviews" /\ reads
  /\ \E flaw \in OneOf(R!ReviewFlaws), long \in BOOLEAN :
       LET ids == pageOf(reviews, page, PageSize)
           rec == [record EXCEPT !.reviews = @ \o ids,
                     !.flaw = IF @ = R!NoFlaw /\ ids # <<>> THEN flaw ELSE @]
       IN  IF page = MaxPages + 1
           THEN IF ids # <<>> THEN fail("ErrOutputLimit") ELSE afterReviews(record)
           ELSE IF long \/ (ids # <<>> /\ ~R!normalizePullReview(flaw)) \/ ~increasing(ids)
                THEN fail("ErrProviderFailure")
           ELSE IF Len(ids) < PageSize THEN afterReviews(rec)
           ELSE more(rec, ids)

(* resolveLabelIDs: the catalogue is read up to its end before a name is      *)
(* looked up; label n is the one whose name has n bytes.                     *)
requestedLabels == {t.bytes : t \in ToSet(req.args["--labels"])}

resolve(found) ==
  IF requestedLabels \subseteq found THEN next("write", NoRecord) ELSE fail("ErrFailedPrecondition")

LabelPage ==
  /\ pc = "labels" /\ reads
  /\ \E wellFormed \in BOOLEAN :
       LET ids == pageOf(items, page, PageSize)
           found == record.has \union ToSet(ids)
       IN  IF ~wellFormed THEN fail("ErrProviderFailure")
           ELSE IF page = MaxPages + 1
                THEN IF ids # <<>> THEN fail("ErrFailedPrecondition") ELSE resolve(record.has)
           ELSE IF record.has \cap ToSet(ids) # {} THEN fail("ErrProviderFailure")
           ELSE IF Len(ids) < PageSize THEN resolve(found)
           ELSE more([record EXCEPT !.has = found], <<>>)

(* --- The write ----------------------------------------------------------- *)
(* invokeWrite: the context is looked at last of all; from then on every      *)
(* failure is an unknown outcome.                                            *)
WriteRefused ==
  /\ pc = "write" /\ ctx # "live" /\ fail(ctx)
  /\ UNCHANGED <<cmd, granted, ctx, told>> /\ UNCHANGED World

Send ==
  /\ pc = "write" /\ ctx = "live"
  /\ pc' = "answer" /\ effect' = "sent"
  /\ UNCHANGED <<cmd, granted, ctx, told, status, page, last, record, transitioned>>
  /\ UNCHANGED World

(* Gitea acts on the request, also when nobody waits for the answer, or does *)
(* not.                                                                      *)
Apply ==
  /\ effect = "sent" /\ effect' = "applied"
  /\ issue' = IF withState THEN target ELSE issue
  /\ moved' = (issue' # issue)
  /\ UNCHANGED <<cmd, granted, pc, ctx, status, told, items, reviews, changes, page, last,
                 record, transitioned>>

Drop ==
  /\ effect = "sent" /\ effect' = "failed"
  /\ UNCHANGED <<cmd, granted, pc, ctx, status, told, page, last, record, transitioned>>
  /\ UNCHANGED World

WriteFails ==
  /\ pc = "answer" /\ fail("ErrWriteOutcomeUnknown")
  /\ UNCHANGED <<cmd, granted, ctx, told>> /\ UNCHANGED World

(* The answer to an applied write is the new issue or comment, which must be  *)
(* the one asked for, in the state asked for, and fit the response.          *)
written(flaw) == IF op = "issue_comment" THEN [NoRecord EXCEPT !.op = op, !.flaw = flaw]
                 ELSE [viewed(flaw) EXCEPT !.count = 0]

validateAnswer(valid, flaw) ==
  \/ valid /\ Complete(written(flaw), effect) /\ transitioned' = IF withState THEN "yes" ELSE "none"
  \/ fail("ErrWriteOutcomeUnknown")   \* not valid, or too long

WriteAnswered ==
  /\ pc = "answer" /\ effect = "applied"
  /\ \E flaw \in OneOf(IF op = "issue_comment" THEN R!CommentFlaws ELSE R!IssueFlaws), urls \in {"ours", "ours_no_issue", "other"},
        state \in {"open", "closed"} :
       validateAnswer(IF op = "issue_comment" THEN R!normalizeIssueMutationComment(urls, flaw)
                      ELSE R!normalizeIssue("issue", flaw) /\ (withState => state = target), flaw)
  /\ UNCHANGED <<cmd, granted, ctx, told>> /\ UNCHANGED World

(* --- Other users --------------------------------------------------------- *)
byOthers == /\ pc \notin {"parse", "gone", "done"}
            /\ changes.deleted + changes.inserted + changes.states < MaxChanges
            /\ UNCHANGED <<ctx, told, moved>> /\ UNCHANGED Call

OtherState ==
  /\ withState /\ byOthers
  /\ issue' = IF issue = "open" THEN "closed" ELSE "open"
  /\ changes' = [changes EXCEPT !.states = @ + 1]
  /\ UNCHANGED <<items, reviews>>

(* Comments and reviews are added at the end, labels anywhere in the order of *)
(* their names; an event of the timeline is added, too, but never deleted.   *)
OtherInserts ==
  /\ byOthers
  /\ \/ /\ withComments
        /\ items' \in {Append(items, 10 + changes.inserted), Append(items, 0)}
        /\ UNCHANGED reviews
     \/ /\ withLabels
        /\ items' = <<10 + changes.inserted>> \o items /\ UNCHANGED reviews
     \/ /\ op = "pull_view"
        /\ reviews' = Append(reviews, 10 + changes.inserted) /\ UNCHANGED items
  /\ changes' = [changes EXCEPT !.inserted = @ + 1]
  /\ UNCHANGED issue

OtherDeletes ==
  /\ byOthers
  /\ \/ /\ withComments \/ withLabels
        /\ \E i \in DOMAIN items : items[i] # 0 /\ items' = RemoveAt(items, i)
        /\ UNCHANGED reviews
     \/ /\ op = "pull_view"
        /\ \E i \in DOMAIN reviews : reviews' = RemoveAt(reviews, i)
        /\ UNCHANGED items
  /\ changes' = [changes EXCEPT !.deleted = @ + 1]
  /\ UNCHANGED issue

(* --- The specification --------------------------------------------------- *)
Next ==
  \/ TeaParses \/ Deliver \/ ClientLeaves \/ Service
  \/ ReadFails \/ GetRepository \/ ListIssues \/ ListPulls \/ GetIssue \/ GetPull
  \/ TimelinePage \/ ReviewPage \/ LabelPage
  \/ WriteRefused \/ Send \/ Apply \/ Drop \/ WriteFails \/ WriteAnswered
  \/ OtherState \/ OtherInserts \/ OtherDeletes

Spec == Init /\ [][Next]_vars

(* --- Properties ---------------------------------------------------------- *)
(* The outcome as the user of tea reads it: a command said to have failed,    *)
(* or to be for the other kind, may be typed again.                          *)
answer ==
  CASE told = "none" -> "pending"
    [] told = "done" -> "done"
    [] told \in {"failed", "wrong_kind", "usage"} -> "refused"
    [] OTHER -> "unknown"

W == INSTANCE ProviderWrite WITH writes <- mutates(cmd), effect <- effect, answer <- answer

(* tea and the service together implement the promise of ProviderWrite: one   *)
(* write at most, success only for a write that took effect or was not       *)
(* needed, and "failed" only when nothing was or will be changed.            *)
WriteContract == W!Spec

(* What is there from beginning to end. *)
stableComments == {i \in ToSet(items) : i \in 1..9}
stableReviews == {i \in ToSet(reviews) : i \in 1..9}

(* loadOrdinaryComments and loadPullReviews: the count hides a comment that   *)
(* moved to a page already read only when another was added meanwhile; a     *)
(* review is missed only after a deletion, and nothing is told twice.        *)
ViewsMissNothing ==
  (status.code = "OK" /\ op \in {"issue_view", "pull_view"}) =>
    /\ withComments => \/ stableComments \subseteq ToSet(record.comments)
                       \/ changes.deleted > 0 /\ changes.inserted > 0
    /\ op = "pull_view" => \/ stableReviews \subseteq ToSet(record.reviews)
                           \/ changes.deleted > 0
    /\ IsInjective(record.comments) /\ IsInjective(record.reviews)

(* recordTransition: the audit's transitioned is true only for a close or     *)
(* reopen that changed the state, but for another user's change in between;  *)
(* it is false only when no write was sent.  An issue command never changes  *)
(* a pull request.                                                           *)
TransitionIsReal ==
  /\ transitioned = "yes" => effect = "applied" /\ (moved \/ changes.states > 0)
  /\ transitioned = "no" => effect = "held"
  /\ (effect # "none" /\ op # "issue_create") => KindOf(cmd.index) = "issue"

(* The client and the service are two translations of one contract: what tea  *)
(* sends is never refused as invalid, but for a time outside timestamppb's    *)
(* range; and what the service sends tea can print, but for a repository     *)
(* whose times are outside it and a reviewer with a control character in the  *)
(* name, which the adapter lets through.                                     *)
TeaAndServiceAgree ==
  /\ status.code = "InvalidArgument" =>
       op = "issue_list" /\ \E f \in {"--from", "--until"} :
         Given(cmd, f) /\ cmd.flags[f] \notin R!FirstTime..R!LastTime
  /\ (status.code = "OK" /\ ~render(cmd, record)) =>
       record.flaw \in {<<"repository", "range">>, <<"actor", "control">>, <<"reviewer", "control">>}
=============================================================================
