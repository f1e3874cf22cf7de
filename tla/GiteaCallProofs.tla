-------------------------- MODULE GiteaCallProofs --------------------------
(***************************************************************************)
(* Proofs about GiteaCall, for any commands, numbers of items and sizes of *)
(* a page.  The argument: where a call is says what kind of operation it   *)
(* is and how far its write has come (Where, WriteShape), so that the      *)
(* status it ends with is true of the write (StatusIsTrue); tea reads that *)
(* status, or leaves before it comes, and a call that goes on without it   *)
(* sends nothing more, because its context has ended (LeftAlone); and what *)
(* a close or reopen saw in its preflight holds until it is sent unless    *)
(* another user changes the state (Transition).                            *)
(* The second part is about reading: what tea parses the service accepts   *)
(* (TeaRequestIsValid), and what a view has read so far holds what stood   *)
(* before the page to come; deletions break that, but then the number of   *)
(* comments read can only agree with the issue's own count if something    *)
(* was added (Counted), and a call that succeeds is one that tea can print *)
(* (ViewInv).                                                              *)
(* The last part is about ProviderHTTP, the client the calls go through.   *)
(***************************************************************************)
EXTENDS GiteaCall, ProviderHTTP, PagingProofs

(* The operations of tea, and which of them the client takes for mutations. *)
LEMMA OperationOf == op \in R!Operations /\ (mutates(cmd) <=> op \in R!Writes)
BY DEF op, operation, R!Operations, R!Writes, mutates

(* The case of mapDomainError for an error that has one. *)
LEMMA StatusOfCase ==
  ASSUME NEW k, NEW is, {i \in DOMAIN DomainStatus : DomainStatus[i][1] \cap is # {}} = {k}, k # 0
  PROVE  Error(Is(is)) = DomainStatus[k][2]
<1>1. Min({k}) = k
  BY DEF Min
<1> QED
  BY <1>1 DEF mapDomainError, Error, Is

Failures == {"ErrInvalidArgument", "ErrDenied", "ErrServiceUnavailable", "ErrOutputLimit",
             "ErrProviderFailure", "Canceled", "DeadlineExceeded", "ErrIssueKind", "ErrPullKind",
             "ErrNotFound", "ErrFailedPrecondition", "ErrWriteOutcomeUnknown"}
TooLong == Error(Is({"ErrOutputLimit"}))
Unknown == Error(Is({"ErrWriteOutcomeUnknown"}))

(* No failure is told as success, and the two a write can end with after it  *)
(* was sent are told as neither kind of object.                             *)
LEMMA StatusOf ==
  /\ \A e \in Failures : Error(Is({e})).code # "OK"
  /\ TooLong = Status("ResourceExhausted", "request_limit_exceeded")
  /\ Unknown = Detailed("Unavailable", "write_outcome_unknown", "GITEA_WRITE_OUTCOME_UNKNOWN")
  /\ Error(Is({"ErrPullKind"})).code = "FailedPrecondition"
  /\ \A e \in Failures \ {"ErrInvalidArgument"} : Error(Is({e})).code # "InvalidArgument"
<1>1. Error(Is({"ErrInvalidArgument"})) = DomainStatus[3][2]
  <2>1. {i \in DOMAIN DomainStatus : DomainStatus[i][1] \cap {"ErrInvalidArgument"} # {}} = {3}
    BY DEF DomainStatus
  <2> QED
    BY <2>1, StatusOfCase
<1>2. Error(Is({"ErrDenied"})) = DomainStatus[2][2]
  <2>1. {i \in DOMAIN DomainStatus : DomainStatus[i][1] \cap {"ErrDenied"} # {}} = {2}
    BY DEF DomainStatus
  <2> QED
    BY <2>1, StatusOfCase
<1>3. Error(Is({"ErrServiceUnavailable"})) = DomainStatus[15][2]
  <2>1. {i \in DOMAIN DomainStatus : DomainStatus[i][1] \cap {"ErrServiceUnavailable"} # {}} = {15}
    BY DEF DomainStatus
  <2> QED
    BY <2>1, StatusOfCase
<1>4. Error(Is({"ErrOutputLimit"})) = DomainStatus[14][2]
  <2>1. {i \in DOMAIN DomainStatus : DomainStatus[i][1] \cap {"ErrOutputLimit"} # {}} = {14}
    BY DEF DomainStatus
  <2> QED
    BY <2>1, StatusOfCase
<1>5. Error(Is({"ErrProviderFailure"})) = DomainStatus[16][2]
  <2>1. {i \in DOMAIN DomainStatus : DomainStatus[i][1] \cap {"ErrProviderFailure"} # {}} = {16}
    BY DEF DomainStatus
  <2> QED
    BY <2>1, StatusOfCase
<1>6. Error(Is({"Canceled"})) = DomainStatus[13][2]
  <2>1. {i \in DOMAIN DomainStatus : DomainStatus[i][1] \cap {"Canceled"} # {}} = {13}
    BY DEF DomainStatus
  <2> QED
    BY <2>1, StatusOfCase
<1>7. Error(Is({"DeadlineExceeded"})) = DomainStatus[12][2]
  <2>1. {i \in DOMAIN DomainStatus : DomainStatus[i][1] \cap {"DeadlineExceeded"} # {}} = {12}
    BY DEF DomainStatus
  <2> QED
    BY <2>1, StatusOfCase
<1>8. Error(Is({"ErrIssueKind"})) = DomainStatus[7][2]
  <2>1. {i \in DOMAIN DomainStatus : DomainStatus[i][1] \cap {"ErrIssueKind"} # {}} = {7}
    BY DEF DomainStatus
  <2> QED
    BY <2>1, StatusOfCase
<1>9. Error(Is({"ErrPullKind"})) = DomainStatus[8][2]
  <2>1. {i \in DOMAIN DomainStatus : DomainStatus[i][1] \cap {"ErrPullKind"} # {}} = {8}
    BY DEF DomainStatus
  <2> QED
    BY <2>1, StatusOfCase
<1>10. Error(Is({"ErrNotFound"})) = DomainStatus[6][2]
  <2>1. {i \in DOMAIN DomainStatus : DomainStatus[i][1] \cap {"ErrNotFound"} # {}} = {6}
    BY DEF DomainStatus
  <2> QED
    BY <2>1, StatusOfCase
<1>11. Error(Is({"ErrFailedPrecondition"})) = DomainStatus[9][2]
  <2>1. {i \in DOMAIN DomainStatus : DomainStatus[i][1] \cap {"ErrFailedPrecondition"} # {}} = {9}
    BY DEF DomainStatus
  <2> QED
    BY <2>1, StatusOfCase
<1>12. Error(Is({"ErrWriteOutcomeUnknown"})) = DomainStatus[10][2]
  <2>1. {i \in DOMAIN DomainStatus : DomainStatus[i][1] \cap {"ErrWriteOutcomeUnknown"} # {}} = {10}
    BY DEF DomainStatus
  <2> QED
    BY <2>1, StatusOfCase
<1>13. \A k \in {2, 6, 7, 8, 9, 10, 12, 13, 14, 15, 16} : DomainStatus[k][2].code \notin {"InvalidArgument", "OK"}
  BY DEF DomainStatus, Status, Detailed
<1>14. Error(Is({"ErrInvalidArgument"})).code # "OK"
  BY <1>1 DEF DomainStatus, Status
<1>15. /\ TooLong = Status("ResourceExhausted", "request_limit_exceeded")
       /\ Unknown = Detailed("Unavailable", "write_outcome_unknown", "GITEA_WRITE_OUTCOME_UNKNOWN")
       /\ Error(Is({"ErrPullKind"})).code = "FailedPrecondition"
  BY <1>4, <1>9, <1>12 DEF DomainStatus, Status, Detailed, TooLong, Unknown
<1>16. \A e \in Failures \ {"ErrInvalidArgument"} : Error(Is({e})).code \notin {"InvalidArgument", "OK"}
  BY <1>2, <1>3, <1>4, <1>5, <1>6, <1>7, <1>8, <1>9, <1>10, <1>11, <1>12, <1>13 DEF Failures
<1> QED
  BY <1>14, <1>15, <1>16

(* OK is a status of its own. *)
LEMMA OKIsOK == OKStatus.code = "OK" /\ \A e \in Failures : Error(Is({e})) # OKStatus
<1>1. OKStatus.code = "OK"
  BY DEF OKStatus, Status
<1> QED
  BY <1>1, StatusOf

(* What tea says of a mutation whose write may have been sent. *)
LEMMA ReportsUnknown ==
  ASSUME mutates(cmd), NEW st \in {TooLong, Unknown}
  PROVE  reportExecutionError(st) \in {"partial", "unknown"}
<1>1. ~IsIssueKindStatus(st) /\ ~IsPullKindStatus(st)
  BY StatusOf DEF IsIssueKindStatus, IsPullKindStatus, Status, Detailed
<1>2. mutationOutcomeUnknown(st)
  BY StatusOf DEF mutationOutcomeUnknown, IsGiteaWriteOutcomeUnknown, Unknown, Status, Detailed
<1> QED
  BY <1>1, <1>2 DEF reportExecutionError

(* What tea says when it leaves: the canonical statuses of the three codes   *)
(* leave the outcome of a mutation open.                                    *)
LEMMA LeavesUnknown ==
  \A code \in {"Canceled", "DeadlineExceeded", "Unavailable"} : mutationOutcomeUnknown(canonical(code))
BY DEF mutationOutcomeUnknown, canonical, Status
-----------------------------------------------------------------------------
ErrorStatus == {Error(Is({e})) : e \in Failures}

(* The context, and the counters of what others do. *)
CallShape ==
  /\ ctx \in {"live", "Canceled", "DeadlineExceeded"}
  /\ changes \in [deleted : Nat, inserted : Nat, states : Nat]
  /\ effect \in {"none", "held", "sent", "applied", "failed"}

(* Where a call is says what it is for. *)
Where ==
  /\ pc = "repository" => op = "repository_view"
  /\ pc = "list" => op \in {"issue_list", "pull_list"}
  /\ pc = "get" => op \in {"issue_view", "pull_view", "issue_close", "issue_reopen", "issue_comment"}
  /\ pc \in {"pull", "reviews"} => op = "pull_view"
  /\ pc = "timeline" => op \in {"issue_view", "pull_view"}
  /\ pc = "labels" => op = "issue_create"
  /\ pc \in {"write", "answer"} => op \in R!Writes

(* ... and how far its write has come. *)
WriteShape ==
  /\ pc \notin {"answer", "done"} => effect = "none"
  /\ pc = "answer" => effect \in {"sent", "applied", "failed"}
  /\ effect # "none" => op \in R!Writes
  /\ (pc \in {"write", "answer"} \/ effect # "none") /\ op # "issue_create" => KindOf(cmd.index) = "issue"

(* What a status says of the write. *)
StatusIsTrue ==
  pc = "done" =>
    \/ status = OKStatus /\ (op \in R!Writes => effect \in {"applied", "held"})
    \/ status \in ErrorStatus /\ effect = "none"
    \/ status \in {TooLong, Unknown}

(* A call that tea has left does not send. *)
LeftAlone ==
  /\ told # "none" => ctx # "live" \/ pc \in {"gone", "done"}
  /\ pc = "parse" => told = "none"

(* What the preflight of a close or reopen saw. *)
Transition ==
  /\ (pc = "write" \/ effect = "sent") /\ withState => issue # target \/ changes.states > 0
  /\ effect = "applied" /\ withState => moved \/ changes.states > 0
  /\ TransitionIsReal

CallInv == CallShape /\ Where /\ WriteShape /\ StatusIsTrue /\ LeftAlone /\ Transition
-----------------------------------------------------------------------------
(* The kinds of steps of a call, by what they do to the write and to what is *)
(* said of it.                                                              *)
SameWorld == UNCHANGED <<issue, moved, changes>>
SameCall == UNCHANGED <<pc, effect, status, transitioned>>

Parses ==
  /\ pc = "parse" /\ SameWorld /\ UNCHANGED <<ctx, effect, status, transitioned>>
  /\ \/ pc' = "gone" /\ told' \in {told, "usage", "failed", "interrupted"}
     \/ pc' = "service" /\ told' = told

Delivers ==
  /\ pc = "done" /\ told = "none" /\ SameCall /\ SameWorld /\ ctx' = ctx
  /\ told' \in IF status # OKStatus THEN {reportExecutionError(status)} ELSE {"done", unprintable}

Leaves ==
  /\ told = "none" /\ pc # "parse" /\ SameCall /\ SameWorld /\ ctx' \in {"Canceled", "DeadlineExceeded"}
  /\ told' \in IF mutates(cmd) THEN {"unknown"} ELSE {"interrupted", "failed"}

Walks ==
  /\ SameWorld /\ UNCHANGED <<effect, status, transitioned, told, ctx>>
  /\ \/ pc = "service" /\ pc' = firstStep
     \/ pc = "get" /\ pc' = "timeline" /\ op = "issue_view"
     \/ pc = "get" /\ pc' = "pull" /\ op = "pull_view"
     \/ pc = "get" /\ pc' = "write" /\ op \in R!Writes /\ KindOf(cmd.index) = "issue" /\ (withState => issue # target)
     \/ pc = "pull" /\ pc' = "reviews"
     \/ pc = "reviews" /\ pc' \in {"reviews", "timeline"}
     \/ pc = "timeline" /\ pc' = "timeline"
     \/ pc = "labels" /\ pc' \in {"labels", "write"}

Fails ==
  /\ pc' = "done" /\ SameWorld /\ UNCHANGED <<effect, transitioned, told, ctx>>
  /\ \/ pc \in Reading \cup {"service", "write"} /\ status' \in ErrorStatus
     \/ pc = "answer" /\ status' = Unknown

Finishes ==
  /\ pc' = "done" /\ SameWorld /\ UNCHANGED <<told, ctx>> /\ status' \in {OKStatus, TooLong}
  /\ \/ pc \in Reading /\ op \notin R!Writes /\ UNCHANGED <<effect, transitioned>>
     \/ /\ pc = "get" /\ ctx = "live" /\ op \in R!Writes /\ KindOf(cmd.index) = "issue"
        /\ effect' = "held" /\ transitioned' = "no"
     \/ /\ pc = "answer" /\ effect = "applied" /\ effect' = effect
        /\ transitioned' = IF withState THEN "yes" ELSE "none"

Sends ==
  /\ pc = "write" /\ ctx = "live" /\ pc' = "answer" /\ effect' = "sent"
  /\ SameWorld /\ UNCHANGED <<status, transitioned, told, ctx>>

Acts ==
  /\ effect = "sent" /\ UNCHANGED <<pc, status, transitioned, told, ctx, changes>>
  /\ \/ effect' = "failed" /\ UNCHANGED <<issue, moved>>
     \/ effect' = "applied" /\ issue' = (IF withState THEN target ELSE issue) /\ moved' = (issue' # issue)

Others ==
  /\ SameCall /\ UNCHANGED <<told, ctx, moved>> /\ changes' \in [deleted : Nat, inserted : Nat, states : Nat]
  /\ \/ issue' = issue /\ changes'.states = changes.states
     \/ changes'.states = changes.states + 1

(* Every step of a call is of one of these kinds. *)
LEMMA StepKinds ==
  ASSUME CallInv, [Next]_vars
  PROVE  /\ cmd' = cmd
         /\ Parses \/ Delivers \/ Leaves \/ Walks \/ Fails \/ Finishes \/ Sends \/ Acts \/ Others
<1> DEFINE Kind == Parses \/ Delivers \/ Leaves \/ Walks \/ Fails \/ Finishes \/ Sends \/ Acts \/ Others
<1>0. /\ ctx \in {"live", "Canceled", "DeadlineExceeded"}
      /\ changes \in [deleted : Nat, inserted : Nat, states : Nat]
      /\ Where /\ (mutates(cmd) <=> op \in R!Writes)
  BY OperationOf DEF CallInv, CallShape
<1> USE DEF SameWorld, SameCall, World, Call
<1>e. \A e \in Failures : Error(Is({e})) \in ErrorStatus
  BY DEF ErrorStatus
<1>1. CASE TeaParses
  BY <1>1 DEF TeaParses, goto, Parses
<1>2. CASE Deliver
  BY <1>2 DEF Deliver, Delivers
<1>3. CASE ClientLeaves
  BY <1>0, <1>3, LeavesUnknown DEF ClientLeaves, Leaves
<1>4. CASE Service
  BY <1>4, <1>e DEF Service, fail, goto, Walks, Fails, Failures
<1>5. CASE ReadFails
  BY <1>0, <1>5, <1>e DEF ReadFails, Reading, fail, classifyProviderError, Fails, Failures
<1>6. CASE GetRepository
  BY <1>0, <1>6, <1>e DEF GetRepository, reads, Complete, fail, Fails, Finishes, Failures, Where,
     R!Writes, Reading, TooLong
<1>7. CASE ListIssues
  BY <1>0, <1>7, <1>e DEF ListIssues, reads, Complete, fail, Fails, Finishes, Failures, R!Writes,
     Reading, TooLong
<1>8. CASE ListPulls
  BY <1>0, <1>8, <1>e DEF ListPulls, reads, Complete, fail, Fails, Finishes, Failures, R!Writes,
     Reading, TooLong
<1>9. CASE GetIssue
  BY <1>0, <1>9, <1>e DEF GetIssue, afterGet, reads, checked, Complete, fail, goto, next, Where,
     withState, KindOf, Walks, Fails, Finishes, Failures, R!Writes, Reading, TooLong
<1>10. CASE GetPull
  BY <1>0, <1>10, <1>e DEF GetPull, reads, fail, next, Walks, Fails, Failures, Reading
<1>11. CASE TimelinePage
  BY <1>0, <1>11, <1>e DEF TimelinePage, reads, completeOrdinaryComments, Complete, fail, more,
     Walks, Fails, Finishes, Where, Failures, R!Writes, Reading, TooLong
<1>12. CASE ReviewPage
  BY <1>0, <1>12, <1>e DEF ReviewPage, reads, afterReviews, Complete, fail, more, next, Walks,
     Fails, Finishes, Where, Failures, R!Writes, Reading, TooLong
<1>13. CASE LabelPage
  BY <1>0, <1>13, <1>e DEF LabelPage, reads, resolve, fail, more, next, Walks, Fails, Failures, Reading
<1>14. CASE WriteRefused
  BY <1>0, <1>14, <1>e DEF WriteRefused, fail, Fails, Failures
<1>15. CASE Send
  BY <1>15 DEF Send, Sends
<1>16. CASE Apply \/ Drop
  BY <1>16 DEF Apply, Drop, Acts
<1>17. CASE WriteFails
  BY <1>17 DEF WriteFails, fail, Fails, Unknown
<1>18. CASE WriteAnswered
  BY <1>18 DEF WriteAnswered, validateAnswer, Complete, fail, Fails, Finishes, TooLong, Unknown
<1>19. CASE OtherState
  BY <1>0, <1>19 DEF OtherState, byOthers, Others
<1>20. CASE OtherInserts
  BY <1>0, <1>20 DEF OtherInserts, byOthers, Others
<1>21. CASE OtherDeletes
  BY <1>0, <1>21 DEF OtherDeletes, byOthers, Others
<1>22. CASE UNCHANGED vars
  BY <1>0, <1>22 DEF vars, Others
<1>c. cmd' = cmd
  <2>1. TeaParses \/ Deliver \/ ClientLeaves \/ Service \/ ReadFails => cmd' = cmd
    BY DEF TeaParses, Deliver, ClientLeaves, Service, ReadFails
  <2>2. GetRepository \/ ListIssues \/ ListPulls \/ GetIssue \/ GetPull \/ TimelinePage \/ ReviewPage \/ LabelPage => cmd' = cmd
    BY DEF GetRepository, ListIssues, ListPulls, GetIssue, GetPull, TimelinePage, ReviewPage,
       LabelPage, reads
  <2>3. WriteRefused \/ Send \/ Apply \/ Drop \/ WriteFails \/ WriteAnswered => cmd' = cmd
    BY DEF WriteRefused, Send, Apply, Drop, WriteFails, WriteAnswered
  <2>4. OtherState \/ OtherInserts \/ OtherDeletes \/ UNCHANGED vars => cmd' = cmd
    BY DEF OtherState, OtherInserts, OtherDeletes, byOthers, vars
  <2> QED
    BY <2>1, <2>2, <2>3, <2>4 DEF Next
<1> QED
  BY <1>c, <1>1, <1>2, <1>3, <1>4, <1>5, <1>6, <1>7, <1>8, <1>9, <1>10, <1>11, <1>12, <1>13, <1>14,
     <1>15, <1>16, <1>17, <1>18, <1>19, <1>20, <1>21, <1>22 DEF Next

(* A call begins with nothing sent and nothing said. *)
LEMMA CallInit == Init => CallInv
<1> SUFFICES ASSUME Init PROVE CallInv
  OBVIOUS
<1>1. changes \in [deleted : Nat, inserted : Nat, states : Nat]
  BY DEF Init
<1> QED
  BY <1>1 DEF Init, CallInv, CallShape, Where, WriteShape, StatusIsTrue, LeftAlone, Transition,
     TransitionIsReal

(* Every step keeps the invariant. *)
LEMMA CallStep == CallInv /\ [Next]_vars => CallInv'
<1> SUFFICES ASSUME CallInv, [Next]_vars
             PROVE  CallInv'
  OBVIOUS
<1>a. /\ cmd' = cmd
      /\ Parses \/ Delivers \/ Leaves \/ Walks \/ Fails \/ Finishes \/ Sends \/ Acts \/ Others
  BY StepKinds
<1>b. op' = op /\ withState' = withState /\ target' = target
  BY <1>a DEF op, withState, target
<1>c. op \in R!Operations
  BY OperationOf
<1> USE <1>a, <1>b DEF SameWorld, SameCall
<1>1. CallShape'
  BY DEF CallInv, CallShape, Parses, Delivers, Leaves, Walks, Fails, Finishes, Sends, Acts, Others
<1>2. Where'
  <2>1. CASE pc' = pc \/ pc' \in {"done", "gone", "service"}
    BY <2>1 DEF CallInv, Where
  <2>2. CASE Walks
    <3>1. CASE pc = "service"
      BY <1>c, <2>2, <3>1 DEF Walks, firstStep, Where, R!Writes, R!Operations
    <3>2. CASE pc # "service"
      BY <2>2, <3>2 DEF Walks, CallInv, Where, R!Writes
    <3> QED
      BY <3>1, <3>2
  <2>3. CASE Sends
    BY <2>3 DEF Sends, CallInv, Where
  <2> QED
    BY <2>1, <2>2, <2>3 DEF Parses, Delivers, Leaves, Fails, Finishes, Acts, Others
<1>3. WriteShape'
  <2>1. CASE Parses \/ Delivers \/ Leaves \/ Others
    BY <2>1 DEF CallInv, WriteShape, Parses, Delivers, Leaves, Others
  <2>2. CASE Walks
    <3>1. CASE pc = "service"
      BY <2>2, <3>1 DEF CallInv, WriteShape, Walks, firstStep
    <3>2. CASE pc # "service"
      BY <2>2, <3>2 DEF CallInv, WriteShape, Where, Walks
    <3> QED
      BY <3>1, <3>2
  <2>3. CASE Fails \/ Finishes
    BY <2>3 DEF CallInv, WriteShape, Where, Fails, Finishes, Reading
  <2>4. CASE Sends \/ Acts
    BY <2>4 DEF CallInv, WriteShape, Where, Sends, Acts
  <2> QED
    BY <2>1, <2>2, <2>3, <2>4
<1>4. StatusIsTrue'
  <2>1. CASE Parses \/ Delivers \/ Leaves \/ Others \/ Sends
    BY <2>1 DEF CallInv, StatusIsTrue, Parses, Delivers, Leaves, Others, Sends
  <2>2. CASE Walks
    <3>1. pc' # "done"
      BY <2>2 DEF Walks, firstStep
    <3> QED
      BY <3>1 DEF StatusIsTrue
  <2>3. CASE Fails \/ Finishes
    BY <2>3 DEF CallInv, StatusIsTrue, WriteShape, Fails, Finishes, Reading
  <2>4. CASE Acts
    BY <2>4 DEF CallInv, StatusIsTrue, Acts
  <2> QED
    BY <2>1, <2>2, <2>3, <2>4
<1>5. LeftAlone'
  <2>1. CASE Parses \/ Delivers \/ Leaves \/ Others \/ Sends \/ Acts
    BY <2>1 DEF CallInv, LeftAlone, Parses, Delivers, Leaves, Others, Sends, Acts
  <2>2. CASE Walks \/ Fails \/ Finishes
    BY <2>2 DEF CallInv, LeftAlone, Walks, firstStep, Fails, Finishes
  <2> QED
    BY <2>1, <2>2
<1>6. Transition'
  <2>n. changes.states \in Nat
    BY DEF CallInv, CallShape
  <2>1. CASE Parses \/ Delivers \/ Leaves
    BY <2>1 DEF CallInv, Transition, TransitionIsReal, Parses, Delivers, Leaves
  <2>2. CASE Walks
    <3>1. pc' = "write" /\ withState => pc = "get"
      BY <2>2 DEF Walks, firstStep, CallInv, Where, withState
    <3> QED
      BY <2>2, <3>1 DEF CallInv, Transition, TransitionIsReal, WriteShape, Walks
  <2>3. CASE Fails
    BY <2>3 DEF CallInv, Transition, TransitionIsReal, Fails
  <2>4. CASE Finishes
    BY <2>4 DEF CallInv, Transition, TransitionIsReal, WriteShape, Where, Finishes, Reading
  <2>5. CASE Sends
    BY <2>5 DEF CallInv, Transition, TransitionIsReal, WriteShape, Sends
  <2>6. CASE Acts
    BY <2>6 DEF CallInv, Transition, TransitionIsReal, WriteShape, Acts
  <2>7. CASE Others
    BY <2>7, <2>n DEF CallInv, Transition, TransitionIsReal, Others
  <2> QED
    BY <2>1, <2>2, <2>3, <2>4, <2>5, <2>6, <2>7
<1> QED
  BY <1>1, <1>2, <1>3, <1>4, <1>5, <1>6 DEF CallInv

(* The invariant holds throughout a command. *)
THEOREM CallCorrect == Spec => []CallInv
<1> QED
  BY CallInit, CallStep, PTL DEF Spec

(* For any commands and any number of items: the transition that is audited *)
(* (recordTransition) is the one that happened, and no issue command        *)
(* touches a pull request, whatever others do between the preflight, the    *)
(* write and its answer.                                                    *)
THEOREM TransitionIsAlwaysReal == Spec => []TransitionIsReal
<1>1. CallInv => TransitionIsReal
  BY DEF CallInv, Transition
<1> QED
  BY <1>1, CallCorrect, PTL
-----------------------------------------------------------------------------
(* A call begins where the contract begins. *)
LEMMA ContractInit == Init => W!Init
<1> SUFFICES ASSUME Init PROVE W!Init
  OBVIOUS
<1>1. mutates(cmd) \in BOOLEAN
  BY DEF mutates
<1> QED
  BY <1>1 DEF Init, W!Init, answer

(* Every step of a call is one of the contract, or changes nothing of it. *)
LEMMA ContractStep == CallInv /\ [Next]_vars => [W!Next]_(W!vars)
<1> SUFFICES ASSUME CallInv, [Next]_vars
             PROVE  [W!Next]_(W!vars)
  OBVIOUS
<1>a. /\ cmd' = cmd
      /\ Parses \/ Delivers \/ Leaves \/ Walks \/ Fails \/ Finishes \/ Sends \/ Acts \/ Others
  BY StepKinds
<1>b. mutates(cmd)' = mutates(cmd) /\ (mutates(cmd) <=> op \in R!Writes)
  BY <1>a, OperationOf DEF mutates
<1> USE <1>a, <1>b DEF SameWorld, SameCall
<1>1. CASE Walks \/ Fails \/ Others
  BY <1>1 DEF Walks, Fails, Others, W!vars, answer
<1>2. CASE Parses
  BY <1>2 DEF Parses, W!vars, W!Next, W!Answer, answer, CallInv, WriteShape, LeftAlone
<1>3. CASE Delivers
  <2>1. /\ pc = "done" /\ told = "none" /\ effect' = effect
        /\ told' \in IF status # OKStatus THEN {reportExecutionError(status)} ELSE {"done", unprintable}
    BY <1>3 DEF Delivers
  <2>2. status # OKStatus =>
          \/ effect = "none" /\ told' \in {"wrong_kind", "partial", "unknown", "interrupted", "failed"}
          \/ told' \in {"partial", "unknown"}
    <3>1. told' = reportExecutionError(status) => told' \in {"wrong_kind", "partial", "unknown", "interrupted", "failed"}
      BY DEF reportExecutionError
    <3>2. status # OKStatus => effect = "none" \/ status \in {TooLong, Unknown}
      BY <2>1 DEF CallInv, StatusIsTrue
    <3>3. ~mutates(cmd) => effect = "none"
      BY DEF CallInv, WriteShape
    <3> QED
      BY <2>1, <3>1, <3>2, <3>3, ReportsUnknown
  <2>3. status = OKStatus =>
          \/ told' = "done" /\ (mutates(cmd) => effect \in {"applied", "held"})
          \/ mutates(cmd) /\ told' = "unknown"
          \/ effect = "none" /\ told' \in {"interrupted", "failed"}
    <3>1. status = OKStatus => (mutates(cmd) => effect \in {"applied", "held"})
      <4>1. TooLong \in ErrorStatus /\ Unknown \in ErrorStatus
        BY DEF TooLong, Unknown, ErrorStatus, Failures
      <4>2. OKStatus \notin ErrorStatus
        BY OKIsOK, Zenon DEF ErrorStatus
      <4> QED
        BY <2>1, <4>1, <4>2 DEF CallInv, StatusIsTrue
    <3>2. ~mutates(cmd) => effect = "none"
      BY DEF CallInv, WriteShape
    <3> QED
      BY <2>1, <3>1, <3>2 DEF unprintable
  <2> QED
    BY <2>1, <2>2, <2>3 DEF W!Next, W!Answer, answer
<1>4. CASE Leaves
  BY <1>4 DEF Leaves, W!Next, W!Answer, answer, CallInv, WriteShape
<1>5. CASE Finishes
  BY <1>5 DEF Finishes, W!vars, W!Next, W!Hold, answer, CallInv, WriteShape, LeftAlone
<1>6. CASE Sends
  BY <1>6 DEF Sends, W!Next, W!Send, answer, CallInv, WriteShape, Where, LeftAlone
<1>7. CASE Acts
  BY <1>7 DEF Acts, W!Next, W!Act, answer
<1> QED
  BY <1>1, <1>2, <1>3, <1>4, <1>5, <1>6, <1>7

(* tea and the service implement the promise of ProviderWrite: one write at *)
(* most, success only for one that took effect or was not needed, and       *)
(* "failed" only when nothing was or will be changed (reportExecutionError, *)
(* invokeWrite, issueStateMutation).                                        *)
THEOREM CallImplementsContract == Spec => WriteContract
<1> QED
  BY ContractInit, ContractStep, CallCorrect, PTL DEF Spec, WriteContract, W!Spec
-----------------------------------------------------------------------------
(* tea's parsers and the service's validators.  What a command that parses    *)
(* says is what the request says, or a default of the parser.                *)
BadTime(c) ==
  operation(c) = "issue_list" /\ \E f \in {"--from", "--until"} :
    Given(c, f) /\ c.flags[f] \notin R!FirstTime..R!LastTime

Sent(c) == ((DOMAIN c.flags \ {"--repo", "--output"}) \ EditLists) \cup winners(c)
Defaults(c) == IF operation(c) \in {"issue_list", "pull_list"}
               THEN {"--page", "--limit", "--state", "--fields"} ELSE {}
BodyArg(c) == IF operation(c) = "issue_comment" THEN {"--description"} ELSE {}

DefaultFields(c) == IF operation(c) = "issue_list" THEN defaultIssueFields ELSE defaultPullFields

LEMMA RequestShape ==
  ASSUME NEW c
  PROVE  LET r == requestFor(c)
         IN  /\ r.op = operation(c) /\ r.index = c.index /\ r.repository = fold(c.flags["--repo"])
             /\ DOMAIN r.args = Sent(c) \cup Defaults(c) \cup BodyArg(c)
BY DEF requestFor, Sent, Defaults, BodyArg

LEMMA RequestArg ==
  ASSUME NEW c, NEW a \in Sent(c) \cup Defaults(c) \cup BodyArg(c)
  PROVE  /\ a = "--fields" => requestFor(c).args[a] = listed(c, DefaultFields(c))
         /\ a # "--fields" /\ operation(c) = "issue_comment" => requestFor(c).args[a] = commentBody(c)[1]
         /\ a # "--fields" /\ operation(c) # "issue_comment" /\ a \in Sent(c) => requestFor(c).args[a] = c.flags[a]
         /\ operation(c) # "issue_comment" /\ a \notin Sent(c) =>
              /\ a = "--page" => requestFor(c).args[a] = 1
              /\ a = "--limit" => requestFor(c).args[a] = 30
              /\ a = "--state" => requestFor(c).args[a] = "open"
BY DEF requestFor, Sent, Defaults, BodyArg, DefaultFields, parserDefault

LEMMA SentIsGiven ==
  ASSUME NEW c
  PROVE  /\ Sent(c) \subseteq DOMAIN c.flags
         /\ \A f \in DOMAIN c.flags : f \notin EditLists \cup {"--repo", "--output"} => f \in Sent(c)
BY DEF Sent, winners

LEMMA TextsAgree ==
  /\ \A t, e, b, n : validateMutationText(t, e, b, n) <=> R!validMutationText(t, e, b, n)
  /\ \A t : title(t) <=> R!title(t)
  /\ \A t : description(t) <=> R!description(t)
  /\ \A ts : parseUniqueCSV(ts) => ts # <<>> /\ R!validMutationList(ts)
<1>1. \A t, e, b, n : validateMutationText(t, e, b, n) <=> R!validMutationText(t, e, b, n)
  BY DEF validateMutationText, R!validMutationText
<1>2. (\A t : title(t) <=> R!title(t)) /\ (\A t : description(t) <=> R!description(t))
  BY DEF title, description, R!title, R!description, validateMutationText, R!validMutationText
<1>3. ASSUME NEW ts, parseUniqueCSV(ts) PROVE ts # <<>> /\ R!validMutationList(ts)
  <2>1. Len(ts) \in 1..25 /\ IsInjective(ts) /\ \A t \in ToSet(ts) : validateMutationText(t, FALSE, 0, 255)
    BY <1>3 DEF parseUniqueCSV
  <2>2. ts # <<>> /\ Len(ts) <= 25
    <3>1. Len(<<>>) = 0 /\ 0 \notin 1..25 /\ \A n \in 1..25 : n <= 25
      OBVIOUS
    <3> QED
      BY <2>1, <3>1, Zenon
  <2>3. R!IsInjective(ts) /\ R!ToSet(ts) = ToSet(ts)
    BY <2>1 DEF IsInjective, R!IsInjective, ToSet, R!ToSet
  <2> QED
    BY <1>1, <2>1, <2>2, <2>3 DEF R!validMutationList
<1> QED
  BY <1>1, <1>2, <1>3

(* The fields of a listing. *)
LEMMA FieldsAgree ==
  ASSUME NEW c,
         \/ operation(c) = "issue_list" /\ Optional(c, "--fields", parseIssueFields)
         \/ operation(c) = "pull_list" /\ Optional(c, "--fields", parsePullFields)
  PROVE  LET fs == requestFor(c).args["--fields"]
             all == IF operation(c) = "issue_list" THEN R!allIssueFields ELSE R!allPullFields
         IN  /\ fs = listed(c, DefaultFields(c)) /\ Len(fs) > 0 /\ IsInjective(fs) /\ ToSet(fs) \subseteq all
             /\ R!IsInjective(fs) /\ R!ToSet(fs) = ToSet(fs)
<1> DEFINE fs == requestFor(c).args["--fields"]
<1>1. fs = listed(c, DefaultFields(c))
  <2>1. "--fields" \in Defaults(c)
    BY DEF Defaults
  <2> QED
    BY <2>1, RequestArg
<1>2. /\ Len(defaultIssueFields) > 0 /\ IsInjective(defaultIssueFields)
      /\ ToSet(defaultIssueFields) \subseteq R!allIssueFields
  BY DEF defaultIssueFields, IsInjective, ToSet, R!allIssueFields
<1>3. /\ Len(defaultPullFields) > 0 /\ IsInjective(defaultPullFields)
      /\ ToSet(defaultPullFields) \subseteq R!allPullFields
  BY DEF defaultPullFields, IsInjective, ToSet, R!allPullFields
<1>4. issueFieldDescriptors = R!allIssueFields /\ pullFieldDescriptors = R!allPullFields
  BY DEF issueFieldDescriptors, pullFieldDescriptors, R!allIssueFields, R!allPullFields
<1>5. R!IsInjective(fs) <=> IsInjective(fs)
  BY DEF IsInjective, R!IsInjective
<1>6. R!ToSet(fs) = ToSet(fs)
  BY DEF ToSet, R!ToSet
<1> HIDE DEF fs
<1>7. CASE Given(c, "--fields")
  <2>1. fs = c.flags["--fields"]
    BY <1>1, <1>7 DEF listed
  <2> QED
    BY <1>1, <1>4, <1>5, <1>6, <1>7, <2>1 DEF Optional, parseIssueFields, parsePullFields, fs
<1>8. CASE ~Given(c, "--fields")
  <2>1. fs = DefaultFields(c)
    BY <1>1, <1>8 DEF listed
  <2> QED
    BY <1>1, <1>2, <1>3, <1>5, <1>6, <2>1 DEF fs, DefaultFields
<1> QED
  BY <1>7, <1>8

(* What parses has the flags of its operation. *)
LEMMA ParsesAs ==
  ASSUME NEW c, Parse(c)
  PROVE  /\ operation(c) = "repository_view" => parseRepository(c)
         /\ operation(c) = "issue_list" => parseIssueList(c)
         /\ operation(c) = "issue_view" => parseIssueView(c)
         /\ operation(c) = "issue_create" => parseIssueCreate(c)
         /\ operation(c) = "issue_edit" => parseIssueEdit(c)
         /\ operation(c) \in {"issue_close", "issue_reopen"} => parseIssueState(c)
         /\ operation(c) = "issue_comment" => parseIssueComment(c)
         /\ operation(c) = "pull_list" => parsePullList(c)
         /\ operation(c) = "pull_view" => parsePullView(c)
BY DEF Parse, operation, parseIssues, parsePulls

(* The request of a listing. *)
LEMMA ListingIsValid ==
  ASSUME NEW c, operation(c) \in {"issue_list", "pull_list"},
         Given(c, "--page") => parsePage(c.flags["--page"]),
         Given(c, "--limit") => parsePositive(c.flags["--limit"], 50),
         Given(c, "--state") => parseState(c.flags["--state"]),
         operation(c) = "issue_list" => Optional(c, "--fields", parseIssueFields),
         operation(c) = "pull_list" => Optional(c, "--fields", parsePullFields)
  PROVE  R!validListing(requestFor(c), IF operation(c) = "issue_list" THEN R!allIssueFields ELSE R!allPullFields)
<1> DEFINE r == requestFor(c)
<1>1. {"--page", "--limit", "--state", "--fields"} \subseteq Sent(c) \cup Defaults(c) \cup BodyArg(c)
  BY DEF Defaults
<1>2. \A f \in {"--page", "--limit", "--state"} : f \in Sent(c) <=> Given(c, f)
  <2>1. \A f \in {"--page", "--limit", "--state"} : f \notin EditLists \cup {"--repo", "--output"}
    BY DEF EditLists
  <2> QED
    BY <2>1, SentIsGiven DEF Given
<1>3. r.args["--page"] > 0
  <2>1. CASE Given(c, "--page")
    <3>1. r.args["--page"] = c.flags["--page"]
      BY <1>1, <1>2, <2>1, RequestArg
    <3>2. c.flags["--page"] > 0
      BY <2>1 DEF parsePage, parsePositive
    <3> QED
      BY <3>1, <3>2
  <2>2. CASE ~Given(c, "--page")
    BY <1>1, <1>2, <2>2, RequestArg
  <2> QED
    BY <2>1, <2>2
<1>4. r.args["--limit"] \in 1..50
  <2>1. CASE Given(c, "--limit")
    BY <1>1, <1>2, <2>1, RequestArg DEF parsePositive
  <2>2. CASE ~Given(c, "--limit")
    BY <1>1, <1>2, <2>2, RequestArg
  <2> QED
    BY <2>1, <2>2
<1>5. r.args["--state"] \in {"open", "closed", "all"}
  <2>1. CASE Given(c, "--state")
    BY <1>1, <1>2, <2>1, RequestArg DEF parseState
  <2>2. CASE ~Given(c, "--state")
    BY <1>1, <1>2, <2>2, RequestArg
  <2> QED
    BY <2>1, <2>2
<1> QED
  BY <1>3, <1>4, <1>5, FieldsAgree DEF R!validListing

(* A flag that is no list of an edit is sent as it is given. *)
LEMMA GivenIsSent ==
  ASSUME NEW c, operation(c) # "issue_comment", operation(c) \notin {"issue_list", "pull_list"},
         NEW f, f \notin EditLists \cup {"--repo", "--output", "--fields"}
  PROVE  /\ R!has(requestFor(c), f) <=> Given(c, f)
         /\ Given(c, f) => requestFor(c).args[f] = c.flags[f]
<1>1. DOMAIN requestFor(c).args = Sent(c) \cup Defaults(c) \cup BodyArg(c)
  BY RequestShape
<1>2. Defaults(c) = {} /\ BodyArg(c) = {}
  BY DEF Defaults, BodyArg
<1>3. f \in Sent(c) <=> Given(c, f)
  BY SentIsGiven DEF Given
<1> QED
  BY <1>1, <1>2, <1>3, RequestArg DEF R!has

(* ... and so is a filter of a listing. *)
LEMMA FilterIsSent ==
  ASSUME NEW c, operation(c) = "issue_list", NEW f \in FilterFlags \cup {"--from", "--until"}
  PROVE  /\ R!has(requestFor(c), f) <=> Given(c, f)
         /\ Given(c, f) => requestFor(c).args[f] = c.flags[f]
<1>0. f \notin EditLists \cup {"--repo", "--output", "--page", "--limit", "--state", "--fields"}
  BY DEF FilterFlags, EditLists
<1>1. DOMAIN requestFor(c).args = Sent(c) \cup Defaults(c) \cup BodyArg(c)
  BY RequestShape
<1>2. f \notin Defaults(c) /\ BodyArg(c) = {}
  BY <1>0 DEF Defaults, BodyArg
<1>3. f \in Sent(c) <=> Given(c, f)
  BY <1>0, SentIsGiven DEF Given
<1>4. f \in Sent(c) => requestFor(c).args[f] = c.flags[f]
  BY <1>0, RequestArg
<1> QED
  BY <1>1, <1>2, <1>3, <1>4 DEF R!has

LEMMA IssueListIsValid ==
  ASSUME NEW c, operation(c) = "issue_list", parseIssueList(c), ~BadTime(c)
  PROVE  R!validateIssueList(requestFor(c))
<1> DEFINE r == requestFor(c)
<1>1. R!validListing(r, R!allIssueFields)
  <2>1. /\ Given(c, "--page") => parsePage(c.flags["--page"])
        /\ Given(c, "--limit") => parsePositive(c.flags["--limit"], 50)
        /\ Given(c, "--state") => parseState(c.flags["--state"])
        /\ Optional(c, "--fields", parseIssueFields)
    BY DEF parseIssueList, Optional
  <2> QED
    BY <2>1, ListingIsValid
<1>2. ASSUME NEW a \in FilterFlags
      PROVE  R!has(r, a) => r.args[a].bytes \in 1..255 /\ r.args[a].kind \notin {"nul", "invalid"}
  <2>1. Optional(c, a, validateFilter)
    BY <1>2 DEF parseIssueList
  <2>2. (R!has(r, a) <=> Given(c, a)) /\ (Given(c, a) => r.args[a] = c.flags[a])
    BY <1>2, FilterIsSent
  <2> QED
    BY <2>1, <2>2 DEF Optional, validateFilter, maximumFilterBytes
<1>3. \A a \in {"--from", "--until"} : (R!has(r, a) <=> Given(c, a)) /\ (Given(c, a) => r.args[a] = c.flags[a])
  BY FilterIsSent
<1>4. \A a \in {"--from", "--until"} : R!has(r, a) => R!validTimestamp(r.args[a])
  BY <1>3 DEF BadTime, R!validTimestamp
<1>5. R!has(r, "--from") /\ R!has(r, "--until") => r.args["--from"] <= r.args["--until"]
  BY <1>3 DEF parseIssueList
<1>6. \A a \in {"--keyword", "--author", "--assignee", "--mentions", "--owner"} :
        R!has(r, a) => r.args[a].bytes \in 1..255 /\ r.args[a].kind \notin {"nul", "invalid"}
  BY <1>2 DEF FilterFlags
<1> HIDE DEF r
<1>7. R!validateIssueList(r)
  BY <1>1, <1>4, <1>5, <1>6 DEF R!validateIssueList, R!holds
<1> QED
  BY <1>7 DEF r

LEMMA IssueCreateIsValid ==
  ASSUME NEW c, operation(c) = "issue_create", parseIssueCreate(c)
  PROVE  R!validateIssueCreate(requestFor(c))
<1> DEFINE r == requestFor(c)
<1>1. \A f \in {"--title", "--description", "--assignees", "--labels"} :
        (R!has(r, f) <=> Given(c, f)) /\ (Given(c, f) => r.args[f] = c.flags[f])
  BY GivenIsSent DEF EditLists
<1>2. /\ Given(c, "--title") /\ title(c.flags["--title"])
      /\ Given(c, "--description") => description(c.flags["--description"])
      /\ Given(c, "--assignees") => parseUniqueCSV(c.flags["--assignees"])
      /\ Given(c, "--labels") => parseUniqueCSV(c.flags["--labels"])
  BY DEF parseIssueCreate, Needed, Optional
<1> HIDE DEF r
<1>3. R!validateIssueCreate(r)
  BY <1>1, <1>2, TextsAgree DEF R!validateIssueCreate, R!holds
<1> QED
  BY <1>3 DEF r

(* The lists of an edit: one that is set wins, and something is asked for. *)
LEMMA EditIsValid ==
  ASSUME NEW c, operation(c) = "issue_edit", parseIssueEdit(c)
  PROVE  R!validateIssueEdit(requestFor(c))
<1> DEFINE r == requestFor(c)
<1>1. DOMAIN r.args = Sent(c) /\ \A a \in Sent(c) : a # "--fields" => r.args[a] = c.flags[a]
  <2>1. Defaults(c) = {} /\ BodyArg(c) = {}
    BY DEF Defaults, BodyArg
  <2> QED
    BY <2>1, RequestShape, RequestArg
<1>2. \A f \in {"--title", "--description"} :
        (R!has(r, f) <=> Given(c, f)) /\ (Given(c, f) => r.args[f] = c.flags[f])
  BY GivenIsSent DEF EditLists
<1>3. /\ Given(c, "--title") => title(c.flags["--title"])
      /\ Given(c, "--description") => description(c.flags["--description"])
  BY DEF parseIssueEdit, Optional
<1>4. \A f \in EditLists : Given(c, f) => parseEditCSV(c.flags[f], f = "--set-assignees")
  BY DEF parseIssueEdit, Optional
<1>5. \A f \in EditLists : R!has(r, f) => Given(c, f) /\ r.args[f] = c.flags[f]
  BY <1>1, SentIsGiven DEF R!has, Given, EditLists
<1>6. R!validMutationList(<<>>)
  <2>1. Len(<<>>) <= 25 /\ R!IsInjective(<<>>) /\ R!ToSet(<<>>) = {}
    BY DEF R!IsInjective, R!ToSet
  <2> QED
    BY <2>1 DEF R!validMutationList
<1>7. R!has(r, "--set-assignees") => R!validMutationList(r.args["--set-assignees"])
  BY <1>4, <1>5, <1>6, TextsAgree DEF EditLists, parseEditCSV
<1>8. \A a \in {"--add-assignees", "--remove-assignees", "--add-labels", "--remove-labels"} :
        R!has(r, a) => r.args[a] # <<>> /\ R!validMutationList(r.args[a])
  BY <1>4, <1>5, TextsAgree DEF EditLists, parseEditCSV
<1>9. Sent(c) # {}
  <2>1. PICK f \in EditLists \cup {"--title", "--description"} : f \in DOMAIN c.flags
    BY DEF parseIssueEdit
  <2>2. CASE f \in {"--title", "--description"}
    BY <2>1, <2>2, SentIsGiven DEF EditLists
  <2>3. CASE f \in {"--set-assignees", "--add-labels"}
    <3>1. f \in winners(c)
      BY <2>1, <2>3 DEF winners, beats, EditLists
    <3> QED
      BY <3>1 DEF Sent
  <2>4. CASE f = "--remove-labels"
    <3>1. f \in winners(c) \/ "--add-labels" \in winners(c)
      BY <2>1, <2>4 DEF winners, beats, EditLists
    <3> QED
      BY <3>1 DEF Sent
  <2>5. CASE f = "--add-assignees"
    <3>1. f \in winners(c) \/ "--set-assignees" \in winners(c)
      BY <2>1, <2>5 DEF winners, beats, EditLists
    <3> QED
      BY <3>1 DEF Sent
  <2>6. CASE f = "--remove-assignees"
    <3>1. \/ f \in winners(c) \/ "--set-assignees" \in winners(c)
          \/ "--add-assignees" \in winners(c)
      BY <2>1, <2>6 DEF winners, beats, EditLists
    <3> QED
      BY <3>1 DEF Sent
  <2> QED
    BY <2>1, <2>2, <2>3, <2>4, <2>5, <2>6 DEF EditLists
<1>10. r.index > 0
  BY RequestShape DEF parseIssueEdit
<1> HIDE DEF r
<1>11. R!validateIssueEdit(r)
  BY <1>1, <1>2, <1>3, <1>7, <1>8, <1>9, <1>10, TextsAgree DEF R!validateIssueEdit, R!holds
<1> QED
  BY <1>11 DEF r

(* What tea sends, the service takes, but for a time that no timestamp has. *)
LEMMA TeaRequestIsValid ==
  ASSUME NEW c, Parse(c), ~BadTime(c)
  PROVE  R!ValidateRequest(requestFor(c)) /\ R!giteaSelector(requestFor(c))
<1> DEFINE r == requestFor(c)
<1>0. r.op = operation(c) /\ r.index = c.index /\ r.repository = fold(c.flags["--repo"])
  BY RequestShape
<1>o. operation(c) \in {"repository_view", "issue_list", "issue_view", "issue_create", "issue_edit", "issue_close",
                        "issue_reopen", "issue_comment", "pull_list", "pull_view"}
  BY DEF operation
<1>1. parseSlug(c.flags["--repo"])
  <2>1. operation(c) = "repository_view" => \E flags : takes(c, flags)
    BY ParsesAs DEF parseRepository
  <2>2. operation(c) = "issue_list" => \E flags : takes(c, flags)
    BY ParsesAs DEF parseIssueList
  <2>3. operation(c) = "issue_view" => \E flags : takes(c, flags)
    BY ParsesAs DEF parseIssueView
  <2>4. operation(c) = "issue_create" => \E flags : takes(c, flags)
    BY ParsesAs DEF parseIssueCreate
  <2>5. operation(c) = "issue_edit" => \E flags : takes(c, flags)
    BY ParsesAs DEF parseIssueEdit
  <2>6. operation(c) = "issue_close" => \E flags : takes(c, flags)
    BY ParsesAs DEF parseIssueState
  <2>7. operation(c) = "issue_reopen" => \E flags : takes(c, flags)
    BY ParsesAs DEF parseIssueState
  <2>8. operation(c) = "issue_comment" => \E flags : takes(c, flags)
    BY ParsesAs DEF parseIssueComment, validateMutationText
  <2>9. operation(c) = "pull_list" => \E flags : takes(c, flags)
    BY ParsesAs DEF parsePullList
  <2>10. operation(c) = "pull_view" => \E flags : takes(c, flags)
    BY ParsesAs DEF parsePullView
  <2>11. PICK flags : takes(c, flags)
    BY <1>o, <2>1, <2>2, <2>3, <2>4, <2>5, <2>6, <2>7, <2>8, <2>9, <2>10
  <2> QED
    BY <2>11 DEF takes, Needed
<1>2. R!giteaSelector(r)
  BY <1>0, <1>1 DEF R!giteaSelector, parseSlug, validPart, fold
<1>3. ASSUME operation(c) = "issue_list" PROVE R!validateIssueList(r)
  BY <1>3, ParsesAs, IssueListIsValid
<1>4. ASSUME operation(c) = "pull_list" PROVE R!validatePullList(r)
  <2>1. /\ Given(c, "--page") => parsePage(c.flags["--page"])
        /\ Given(c, "--limit") => parsePositive(c.flags["--limit"], 50)
        /\ Given(c, "--state") => parseState(c.flags["--state"])
        /\ Optional(c, "--fields", parsePullFields)
    BY <1>4, ParsesAs DEF parsePullList, Optional
  <2> QED
    BY <1>4, <2>1, ListingIsValid DEF R!validatePullList
<1>5. ASSUME operation(c) = "issue_create" PROVE R!validateIssueCreate(r)
  BY <1>5, ParsesAs, IssueCreateIsValid
<1>6. ASSUME operation(c) = "issue_edit" PROVE R!validateIssueEdit(r)
  BY <1>6, ParsesAs, EditIsValid
<1>7. ASSUME operation(c) = "issue_comment"
      PROVE  r.index > 0 /\ R!validMutationText(r.args["--description"], FALSE, 65536, 0)
  <2>1. parseIssueComment(c)
    BY <1>7, ParsesAs
  <2>2. "--description" \in BodyArg(c)
    BY <1>7 DEF BodyArg
  <2>3. r.args["--description"] = commentBody(c)[1]
    BY <1>7, <2>2, RequestArg
  <2> QED
    BY <1>0, <2>1, <2>3 DEF parseIssueComment, validateMutationText, R!validMutationText
<1>8. operation(c) \in {"issue_view", "pull_view", "issue_close", "issue_reopen"} => r.index > 0
  BY <1>0, ParsesAs DEF parseIssueView, parsePullView, parseIssueState
<1> HIDE DEF r
<1>9. R!ValidateRequest(r)
  <2>1. CASE operation(c) = "repository_view"
    BY <1>0, <2>1 DEF R!ValidateRequest
  <2>2. CASE operation(c) = "issue_list"
    BY <1>0, <1>3, <2>2 DEF R!ValidateRequest
  <2>3. CASE operation(c) = "issue_view"
    BY <1>0, <1>8, <2>3 DEF R!ValidateRequest
  <2>4. CASE operation(c) = "issue_create"
    BY <1>0, <1>5, <2>4 DEF R!ValidateRequest
  <2>5. CASE operation(c) = "issue_edit"
    BY <1>0, <1>6, <2>5 DEF R!ValidateRequest
  <2>6. CASE operation(c) = "issue_close"
    BY <1>0, <1>8, <2>6 DEF R!ValidateRequest
  <2>7. CASE operation(c) = "issue_reopen"
    BY <1>0, <1>8, <2>7 DEF R!ValidateRequest
  <2>8. CASE operation(c) = "issue_comment"
    BY <1>0, <1>7, <2>8 DEF R!ValidateRequest, R!validMutationText
  <2>9. CASE operation(c) = "pull_list"
    BY <1>0, <1>4, <2>9 DEF R!ValidateRequest
  <2>10. CASE operation(c) = "pull_view"
    BY <1>0, <1>8, <2>10 DEF R!ValidateRequest
  <2> QED
    BY <1>o, <2>1, <2>2, <2>3, <2>4, <2>5, <2>6, <2>7, <2>8, <2>9, <2>10
<1> QED
  BY <1>2, <1>9 DEF r

-----------------------------------------------------------------------------
(* What a view has read so far, and what is said of a call that ended.      *)
Odd == {<<"repository", "range">>, <<"actor", "control">>, <<"reviewer", "control">>}
Stable == 1..9   \* the comments and reviews that were there from the beginning

IsRecord(r) == DOMAIN r = {"op", "index", "has", "flaw", "count", "comments", "reviews", "size", "limit", "hydrated"}

(* The record of a view: valid but for what the adapter lets through, its    *)
(* lists in order.                                                          *)
ViewRecord(c, r) ==
  /\ operation(c) \in {"issue_view", "pull_view"}
  /\ IsRecord(r) /\ r.op = operation(c) /\ r.index = c.index
  /\ r.has = IF operation(c) = "issue_view" THEN R!projectIssue(R!allIssueFields) ELSE R!projectPullDetail
  /\ r.flaw \in {R!NoFlaw} \cup Odd /\ r.count \in Nat
  /\ r.comments \in Seq(Nat) /\ Ascending(r.comments)
  /\ r.reviews \in Seq(Nat) /\ Ascending(r.reviews)

(* The comments that were read or can still be read are no more than the     *)
(* issue said it has, unless another user added one.                        *)
AllComments(its, r) == ToSet(r.comments) \cup (ToSet(its) \ {0})
Counted(its, chg, r) ==
  chg.inserted = 0 =>
    IsFiniteSet(AllComments(its, r)) /\ Cardinality(AllComments(its, r)) <= r.count

(* A list in the middle of being read, page by page. *)
ReadSoFar(s, rec, chg, pg, lst) ==
  /\ pg <= MaxPages + 1 /\ Len(rec) <= Before(pg, PageSize)
  /\ \A x \in ToSet(rec) : x <= lst
  /\ chg.deleted = 0 => Reached(s, Before(pg, PageSize), rec, Stable)

ReviewsSoFar(c, its, rvs, chg, pg, lst, r) ==
  /\ ViewRecord(c, r) /\ operation(c) = "pull_view" /\ r.comments = <<>>
  /\ Counted(its, chg, r) /\ ReadSoFar(rvs, r.reviews, chg, pg, lst)

ReviewsWhole(c, rvs, chg, r) ==
  /\ Len(r.reviews) <= maximumPullItems
  /\ operation(c) = "pull_view" /\ chg.deleted = 0 => ToSet(rvs) \cap Stable \subseteq ToSet(r.reviews)

TimelineSoFar(c, its, rvs, chg, pg, lst, r) ==
  /\ ViewRecord(c, r) /\ Given(c, "--comments") /\ ReviewsWhole(c, rvs, chg, r)
  /\ Counted(its, chg, r) /\ ReadSoFar(its, r.comments, chg, pg, lst)

(* What a call that succeeded has to say. *)
Printable(c, r) == render(c, r) \/ r.flaw \in Odd
MissesNothing(c, its, rvs, chg, r) ==
  operation(c) \in {"issue_view", "pull_view"} =>
    /\ Given(c, "--comments") => \/ ToSet(its) \cap Stable \subseteq ToSet(r.comments)
                                 \/ chg.deleted > 0 /\ chg.inserted > 0
    /\ operation(c) = "pull_view" => \/ ToSet(rvs) \cap Stable \subseteq ToSet(r.reviews)
                                     \/ chg.deleted > 0
    /\ IsInjective(r.comments) /\ IsInjective(r.reviews)

ViewShape == items \in Seq(Nat) /\ reviews \in Seq(Nat) /\ page \in Nat \ {0} /\ last \in Nat

ViewInv ==
  /\ ViewShape
  /\ pc \notin {"parse", "gone"} => Parse(cmd)
  /\ pc = "reviews" => ReviewsSoFar(cmd, items, reviews, changes, page, last, record)
  /\ pc = "timeline" => TimelineSoFar(cmd, items, reviews, changes, page, last, record)
  /\ status.code = "InvalidArgument" => BadTime(cmd)
  /\ status.code = "OK" => /\ pc = "done" /\ Printable(cmd, record)
                           /\ MissesNothing(cmd, items, reviews, changes, record)

(* The pages of a loop are never more than the client takes. *)
LEMMA PagesAreFew ==
  ASSUME NEW pg \in Nat \ {0}, pg <= MaxPages + 1
  PROVE  /\ Before(pg, PageSize) \in Nat /\ Before(pg, PageSize) <= 1000
         /\ pg # MaxPages + 1 => Before(pg, PageSize) + PageSize <= 1000
<1>1. MaxPages \in Nat \ {0} /\ PageSize \in Nat \ {0} /\ PageSize * MaxPages <= 1000
  BY PageAssumption DEF maximumIssueComments
<1>2. PICK m \in Nat, p \in Nat : m = MaxPages /\ p = PageSize
  BY <1>1
<1>3. \A a, b \in Nat : a <= b => a * p <= b * p
  <2> SUFFICES ASSUME NEW a \in Nat, NEW b \in Nat, a <= b PROVE a * p <= b * p
    OBVIOUS
  <2>1. PICK d \in Nat : b = a + d
    <3>1. b - a \in Nat /\ b = a + (b - a)
      OBVIOUS
    <3> QED
      BY <3>1
  <2>2. b * p = a * p + d * p /\ d * p \in Nat /\ a * p \in Nat
    BY <2>1, <1>2
  <2> QED
    BY <2>2
<1>4. pg - 1 \in Nat /\ pg - 1 <= m /\ (pg # MaxPages + 1 => pg <= m)
  BY <1>1, <1>2
<1>5. (pg - 1) * p <= m * p /\ (pg # MaxPages + 1 => pg * p <= m * p)
  BY <1>2, <1>3, <1>4
<1>6. m * p <= 1000
  BY <1>1, <1>2
<1>7. Before(pg, PageSize) \in Nat /\ pg * PageSize = Before(pg, PageSize) + PageSize
  BY <1>1, BeforeIs
<1>8. Before(pg, PageSize) = (pg - 1) * p /\ pg * PageSize = pg * p
  BY <1>2 DEF Before
<1>9. pg * p \in Nat /\ (pg - 1) * p \in Nat /\ m * p \in Nat
  BY <1>2, <1>4
<1> QED
  BY <1>1, <1>5, <1>6, <1>7, <1>8, <1>9

(* One more page of a list: its entries are in order and after the last one  *)
(* read, and the list is complete when the page is not full.                *)
Climbs(ids, lst) == \A i \in 1..Len(ids) : ids[i] > IF i = 1 THEN lst ELSE ids[i - 1]
LastOf(ids, lst) == IF ids = <<>> THEN lst ELSE ids[Len(ids)]
PageTaken(s, out, chg, pg, new) ==
  /\ out \in Seq(Nat) /\ Ascending(out) /\ Len(out) <= 1000 /\ new \in Nat
  /\ ReadSoFar(s, out, chg, pg + 1, new)
  /\ Len(pageOf(s, pg, PageSize)) < PageSize /\ chg.deleted = 0 => ToSet(s) \cap Stable \subseteq ToSet(out)

LEMMA PageRead ==
  ASSUME NEW s \in Seq(Nat), NEW rec \in Seq(Nat), NEW chg, NEW pg \in Nat \ {0}, NEW lst \in Nat,
         Ascending(rec), ReadSoFar(s, rec, chg, pg, lst), pg # MaxPages + 1,
         NEW ids \in Seq(Nat),
         Climbs(ids, lst),
         Len(ids) <= Len(pageOf(s, pg, PageSize)),
         ToSet(pageOf(s, pg, PageSize)) \cap Stable \subseteq ToSet(ids)
  PROVE  PageTaken(s, rec \o ids, chg, pg, LastOf(ids, lst))
<1> DEFINE K == Before(pg, PageSize)
           p == pageOf(s, pg, PageSize)
           new == LastOf(ids, lst)
<1>0. PageSize \in Nat \ {0} /\ MaxPages \in Nat
  BY PageAssumption
<1>1. /\ rec \o ids \in Seq(Nat) /\ Len(rec \o ids) = Len(rec) + Len(ids) /\ Len(rec) \in Nat /\ Len(ids) \in Nat
      /\ ToSet(rec \o ids) = ToSet(rec) \cup ToSet(ids)
  BY ConcatIsSeq, ConcatIsSet
<1>2. p \in Seq(Nat) /\ Len(p) <= PageSize /\ (Len(p) < PageSize => Len(s) < K + PageSize)
  BY <1>0, PageIsSet
<1>3. K \in Nat /\ K + PageSize <= 1000 /\ Before(pg + 1, PageSize) = K + PageSize
  BY <1>0, PagesAreFew, BeforeIs DEF ReadSoFar
<1>4. Ascending(ids) /\ \A i \in 1..Len(ids) : lst < ids[i] /\ ids[i] <= ids[Len(ids)]
  BY AscendingSteps DEF Climbs
<1>5. (\A y \in ToSet(ids) : lst < y /\ y <= new) /\ new \in Nat /\ lst <= new
  <2>1. CASE ids = <<>>
    BY <2>1 DEF ToSet, LastOf
  <2>2. CASE ids # <<>>
    <3>1. Len(ids) \in 1..Len(ids) /\ new = ids[Len(ids)]
      BY <2>2 DEF LastOf
    <3>2. \A y \in ToSet(ids) : \E i \in 1..Len(ids) : y = ids[i]
      BY DEF ToSet
    <3>3. new \in Nat /\ lst < new
      BY <1>4, <3>1
    <3>4. \A y \in ToSet(ids) : lst < y /\ y <= new
      BY <1>4, <3>1, <3>2
    <3> QED
      BY <3>3, <3>4
  <2> QED
    BY <2>1, <2>2
<1>6. \A x \in ToSet(rec) : x <= lst /\ x \in Nat
  <2>1. \A x \in ToSet(rec) : x \in Nat
    BY DEF ToSet
  <2> QED
    BY <2>1 DEF ReadSoFar
<1>7. \A y \in ToSet(ids) : y \in Nat
  BY DEF ToSet
<1>8. Ascending(rec \o ids)
  <2>1. \A x \in ToSet(rec), y \in ToSet(ids) : x < y
    BY <1>5, <1>6, <1>7
  <2> QED
    BY <1>4, <2>1, AscendingConcat
<1>9. \A x \in ToSet(rec \o ids) : x <= new
  BY <1>1, <1>5, <1>6
<1>10. Len(rec \o ids) <= K + PageSize
  <2>1. Len(rec) <= K /\ Len(ids) <= PageSize
    <3>1. Len(rec) <= K
      BY DEF ReadSoFar
    <3>2. Len(p) \in Nat
      BY <1>2
    <3> QED
      BY <1>0, <1>1, <1>2, <3>1, <3>2
  <2> QED
    BY <1>0, <1>1, <1>3, <2>1
<1>11. ASSUME chg.deleted = 0 PROVE Reached(s, K + PageSize, rec \o ids, Stable)
  <2>1. Reached(s, K, rec, Stable)
    BY <1>11 DEF ReadSoFar
  <2>2. Reached(s, K + PageSize, rec \o p, Stable)
    BY <1>0, <2>1, ReachedMore
  <2>3. ToSet(rec \o p) = ToSet(rec) \cup ToSet(p)
    BY <1>2, ConcatIsSet
  <2>4. ToSet(rec \o p) \cap Stable \subseteq ToSet(rec \o ids)
    BY <1>1, <2>3
  <2> QED
    BY <2>2, <2>4, ReachedBy
<1>12. Len(p) < PageSize /\ chg.deleted = 0 => ToSet(s) \cap Stable \subseteq ToSet(rec \o ids)
  <2> SUFFICES ASSUME Len(p) < PageSize, chg.deleted = 0 PROVE ToSet(s) \cap Stable \subseteq ToSet(rec \o ids)
    OBVIOUS
  <2>1. K + PageSize \in Int /\ Len(s) <= K + PageSize
    BY <1>0, <1>2, <1>3
  <2> QED
    BY <1>11, <2>1, ReachedAll
<1>13. pg + 1 <= MaxPages + 1 /\ pg + 1 \in Nat
  BY <1>0 DEF ReadSoFar
<1>14. Len(rec \o ids) <= 1000
  BY <1>0, <1>1, <1>3, <1>10
<1> HIDE DEF new, K, p
<1>15. ReadSoFar(s, rec \o ids, chg, pg + 1, new)
  BY <1>3, <1>9, <1>10, <1>11, <1>13 DEF ReadSoFar
<1> QED
  BY <1>1, <1>5, <1>8, <1>12, <1>14, <1>15 DEF new, p, PageTaken

(* The page after the last that is allowed, when it is empty. *)
LEMMA PagesEnd ==
  ASSUME NEW s \in Seq(Nat), NEW rec \in Seq(Nat), NEW chg, NEW pg \in Nat \ {0}, NEW lst,
         ReadSoFar(s, rec, chg, pg, lst), pageOf(s, pg, PageSize) = <<>>
  PROVE  /\ Len(rec) <= 1000
         /\ chg.deleted = 0 => ToSet(s) \cap Stable \subseteq ToSet(rec)
<1>0. PageSize \in Nat \ {0}
  BY PageAssumption
<1>1. Before(pg, PageSize) \in Nat /\ Before(pg, PageSize) <= 1000
  BY PagesAreFew DEF ReadSoFar
<1>2. Len(s) <= Before(pg, PageSize)
  BY <1>0, PageIsSet
<1>3. Len(rec) <= Before(pg, PageSize) /\ Len(rec) \in Nat
  BY DEF ReadSoFar
<1>4. chg.deleted = 0 => ToSet(s) \cap Stable \subseteq ToSet(rec)
  <2> SUFFICES ASSUME chg.deleted = 0 PROVE ToSet(s) \cap Stable \subseteq ToSet(rec)
    OBVIOUS
  <2>1. Reached(s, Before(pg, PageSize), rec, Stable) /\ Before(pg, PageSize) \in Int
    BY <1>1 DEF ReadSoFar
  <2> QED
    BY <1>2, <2>1, ReachedAll
<1> QED
  BY <1>1, <1>3, <1>4

(* A call begins with nothing read. *)
LEMMA ViewInit == Init => ViewInv
<1> SUFFICES ASSUME Init PROVE ViewInv
  OBVIOUS
<1>1. \A n \in Nat : Numbers(n) \in Seq(Nat) /\ DOMAIN Numbers(n) = 1..n
  BY DEF Numbers
<1>2. upTo(TRUE) \subseteq Nat /\ upTo(FALSE) \subseteq Nat /\ \A b \in BOOLEAN : upTo(b) \subseteq Nat
  BY PageAssumption DEF upTo
<1>3. items \in Seq(Nat)
  <2>1. PICK n \in upTo(withComments \/ withLabels), event \in 0..2 :
          items = IF event \in 1..n /\ withComments THEN [Numbers(n) EXCEPT ![event] = 0] ELSE Numbers(n)
    BY DEF Init
  <2>2. n \in Nat
    BY <1>2, <2>1
  <2>3. \A e \in 1..n : [Numbers(n) EXCEPT ![e] = 0] \in Seq(Nat)
    BY <1>1, <2>2
  <2> QED
    BY <1>1, <2>1, <2>2, <2>3
<1>4. reviews \in Seq(Nat)
  <2>1. PICK n \in upTo(op = "pull_view") : reviews = Numbers(n)
    BY DEF Init
  <2> QED
    BY <1>1, <1>2, <2>1
<1>5. page \in Nat \ {0} /\ last \in Nat /\ pc = "parse" /\ status = [code |-> "pending"]
  BY DEF Init
<1> QED
  BY <1>3, <1>4, <1>5 DEF ViewInv, ViewShape

(* A step that neither reads a page nor succeeds. *)
LEMMA PlainKeeps ==
  ASSUME ViewInv, cmd' = cmd, ViewShape', pc' \notin {"reviews", "timeline"},
         pc' \in {"parse", "gone"} \/ Parse(cmd),
         status'.code # "OK", status'.code = "InvalidArgument" => BadTime(cmd)
  PROVE  ViewInv'
BY DEF ViewInv

(* The call fails. *)
LEMMA FailKeeps ==
  ASSUME ViewInv, pc \notin {"parse", "gone"}, cmd' = cmd, UNCHANGED World, NEW e \in Failures, fail(e),
         e = "ErrInvalidArgument" => BadTime(cmd)
  PROVE  ViewInv'
<1>1. status'.code # "OK" /\ (status'.code = "InvalidArgument" => BadTime(cmd))
  BY StatusOf DEF fail
<1>2. ViewShape' /\ pc' = "done" /\ Parse(cmd)
  BY DEF ViewInv, ViewShape, fail, World
<1> QED
  BY <1>1, <1>2, PlainKeeps

(* The call completes with a record that tea can print and that misses       *)
(* nothing.                                                                 *)
LEMMA CompleteKeeps ==
  ASSUME ViewInv, pc \notin {"parse", "gone"}, cmd' = cmd, UNCHANGED World, NEW rec, NEW how, Complete(rec, how),
         Printable(cmd, rec), MissesNothing(cmd, items, reviews, changes, rec)
  PROVE  ViewInv'
<1>1. ViewShape' /\ pc' = "done" /\ Parse(cmd) /\ record' = rec /\ UNCHANGED <<items, reviews, changes>>
  BY DEF ViewInv, ViewShape, Complete, World
<1>2. CASE status' = OKStatus
  <2>1. status'.code = "OK"
    BY <1>2, OKIsOK
  <2> QED
    BY <1>1, <2>1 DEF ViewInv
<1>3. CASE status' = Error(Is({"ErrOutputLimit"}))
  <2>1. status'.code \notin {"OK", "InvalidArgument"}
    BY <1>3, StatusOf DEF TooLong, Status
  <2> QED
    BY <1>1, <2>1, PlainKeeps
<1> QED
  BY <1>2, <1>3 DEF Complete

(* Nothing the reading has to do with changes. *)
LEMMA QuietKeeps ==
  ASSUME ViewInv, UNCHANGED <<cmd, pc, status, items, reviews, page, last, record>>,
         changes'.deleted = changes.deleted, changes'.inserted = changes.inserted
  PROVE  ViewInv'
<1>1. ViewShape'
  BY DEF ViewInv, ViewShape
<1>2. pc = "reviews" => ReviewsSoFar(cmd, items, reviews, changes', page, last, record)
  BY DEF ViewInv, ReviewsSoFar, ReadSoFar, Counted
<1>3. pc = "timeline" => TimelineSoFar(cmd, items, reviews, changes', page, last, record)
  BY DEF ViewInv, TimelineSoFar, ReadSoFar, Counted, ReviewsWhole
<1>4. status.code = "OK" => MissesNothing(cmd, items, reviews, changes', record)
  BY DEF ViewInv, MissesNothing
<1> QED
  BY <1>1, <1>2, <1>3, <1>4 DEF ViewInv

(* A call that is not over has not succeeded. *)
LEMMA NotOver == ASSUME ViewInv, pc # "done" PROVE status.code # "OK"
BY DEF ViewInv

(* The flaws the adapter lets through. *)
LEMMA FlawsLeft ==
  /\ \A f \in OneOf(R!RepositoryFlaws) : R!validateRepository(f) => f \in {R!NoFlaw} \cup Odd
  /\ \A f \in OneOf(R!IssueFlaws) : R!normalizeIssue("issue", f) => f = R!NoFlaw
  /\ \A f \in OneOf(R!CommentFlaws) : R!normalizeComment(f) => f = R!NoFlaw
  /\ \A f \in OneOf(R!PullFlaws \union R!ActorFlaws("actor")) :
       \A raw : R!normalizePull(raw, f) => f \in {R!NoFlaw} \cup Odd
  /\ \A f \in OneOf(R!ReviewFlaws) : R!normalizePullReview(f) => f \in {R!NoFlaw} \cup Odd
<1>1. \A f \in OneOf(R!RepositoryFlaws) : R!validateRepository(f) => f \in {R!NoFlaw} \cup Odd
  BY DEF OneOf, R!validateRepository, Odd
<1>2. \A f \in OneOf(R!IssueFlaws) : R!normalizeIssue("issue", f) => f = R!NoFlaw
  BY DEF OneOf, R!normalizeIssue
<1>3. \A f \in OneOf(R!CommentFlaws) : R!normalizeComment(f) => f = R!NoFlaw
  BY DEF OneOf, R!normalizeComment
<1>4. \A f \in OneOf(R!PullFlaws \union R!ActorFlaws("actor")) :
        \A raw : R!normalizePull(raw, f) => f \in {R!NoFlaw} \cup Odd
  BY DEF OneOf, R!normalizePull, R!normalizeReviewActor, Odd
<1>5. \A f \in OneOf(R!ReviewFlaws) : R!normalizePullReview(f) => f \in {R!NoFlaw} \cup Odd
  BY DEF OneOf, R!normalizePullReview, R!normalizeReviewActor, R!ReviewFlaws, Odd
<1> QED
  BY <1>1, <1>2, <1>3, <1>4, <1>5

(* An object without a flaw can be printed. *)
LEMMA PlainPrints ==
  /\ \A f : R!NoFlaw # <<"issue", f>> /\ R!NoFlaw # <<"pull", f>>
  /\ commentFields(R!NoFlaw) /\ reviewActorFields(R!NoFlaw) /\ renderedActors(R!NoFlaw)
  /\ pullReviewFields(R!NoFlaw) /\ renderRepository(R!NoFlaw)
<1>1. \A f : R!NoFlaw # <<"issue", f>> /\ R!NoFlaw # <<"pull", f>>
  BY DEF R!NoFlaw
<1>2. commentFields(R!NoFlaw)
  BY DEF R!NoFlaw, commentFields
<1>3. reviewActorFields(R!NoFlaw) /\ renderedActors(R!NoFlaw)
  BY DEF R!NoFlaw, reviewActorFields, renderedActors
<1>4. pullReviewFields(R!NoFlaw) /\ renderRepository(R!NoFlaw)
  BY DEF R!NoFlaw, pullReviewFields, renderRepository
<1> QED
  BY <1>1, <1>2, <1>3, <1>4

LEMMA IssuePrints ==
  ASSUME NEW fields, NEW has, has = R!projectIssue(fields)
  PROVE  validateProjectedIssue(fields, has, R!NoFlaw)
BY PlainPrints DEF validateProjectedIssue, issueFieldValue, R!projectIssue

LEMMA PullPrints ==
  ASSUME NEW fields, NEW has,
         has = R!projectPull(fields) \/ (has = R!projectPullDetail /\ fields = R!allPullFields)
  PROVE  validateProjectedPull(fields, has, R!NoFlaw)
BY PlainPrints DEF validateProjectedPull, pullFieldValue, R!projectPull, R!projectPullDetail,
   R!allPullFields

(* repository view *)
LEMMA RepositoryKeeps == ASSUME ViewInv, Where, GetRepository PROVE ViewInv'
<1>1. PICK flaw \in OneOf(R!RepositoryFlaws) :
        IF R!validateRepository(flaw)
        THEN Complete([NoRecord EXCEPT !.op = op, !.flaw = flaw], effect)
        ELSE fail("ErrProviderFailure")
  BY DEF GetRepository
<1>2. pc = "repository" /\ cmd' = cmd /\ UNCHANGED World /\ operation(cmd) = "repository_view" /\ op = operation(cmd)
  BY DEF GetRepository, reads, Where, op
<1>3. CASE ~R!validateRepository(flaw)
  BY <1>1, <1>2, <1>3, FailKeeps DEF Failures
<1>4. CASE R!validateRepository(flaw)
  <2> DEFINE rec == [NoRecord EXCEPT !.op = op, !.flaw = flaw]
  <2>1. rec.op = "repository_view" /\ rec.flaw = flaw
    BY <1>2 DEF NoRecord
  <2>2. flaw \in {R!NoFlaw} \cup Odd
    BY <1>4, FlawsLeft
  <2> HIDE DEF rec
  <2>3. Printable(cmd, rec)
    BY <1>2, <2>1, <2>2, PlainPrints DEF Printable, render
  <2>4. MissesNothing(cmd, items, reviews, changes, rec)
    BY <1>2 DEF MissesNothing
  <2>5. Complete(rec, effect)
    BY <1>1, <1>4 DEF rec
  <2> QED
    BY <1>2, <2>3, <2>4, <2>5, CompleteKeeps
<1> QED
  BY <1>3, <1>4

(* What a listing asks for. *)
LEMMA ListingArgs ==
  ASSUME NEW c, Parse(c), operation(c) \in {"issue_list", "pull_list"}
  PROVE  /\ requestFor(c).args["--limit"] \in 1..50
         /\ requestFor(c).args["--fields"] = listed(c, DefaultFields(c))
<1>1. /\ Given(c, "--page") => parsePage(c.flags["--page"])
      /\ Given(c, "--limit") => parsePositive(c.flags["--limit"], 50)
      /\ Given(c, "--state") => parseState(c.flags["--state"])
      /\ operation(c) = "issue_list" => Optional(c, "--fields", parseIssueFields)
      /\ operation(c) = "pull_list" => Optional(c, "--fields", parsePullFields)
  <2>1. CASE operation(c) = "issue_list"
    BY <2>1, ParsesAs DEF parseIssueList, Optional
  <2>2. CASE operation(c) = "pull_list"
    BY <2>2, ParsesAs DEF parsePullList, Optional
  <2> QED
    BY <2>1, <2>2
<1> QED
  BY <1>1, ListingIsValid, FieldsAgree DEF R!validListing

LEMMA IssueListPrints ==
  ASSUME NEW c, Parse(c), operation(c) = "issue_list", NEW n \in Nat, NEW flaw, NEW rec,
         rec.op = "issue_list", rec.size = n, rec.limit = requestFor(c).args["--limit"], rec.flaw = flaw,
         rec.has = R!projectIssue(ToSet(requestFor(c).args["--fields"])), rec.comments = <<>>,
         n <= rec.limit, n > 0 => flaw = R!NoFlaw
  PROVE  Printable(c, rec)
<1>1. requestFor(c).args["--fields"] = listed(c, defaultIssueFields)
  BY ListingArgs DEF DefaultFields
<1>2. n > 0 => validateProjectedIssue(ToSet(listed(c, defaultIssueFields)), rec.has, rec.flaw)
  BY <1>1, IssuePrints
<1>3. renderIssueList(c, rec)
  BY <1>2 DEF renderIssueList
<1> QED
  BY <1>3 DEF Printable, render

LEMMA PullListPrints ==
  ASSUME NEW c, Parse(c), operation(c) = "pull_list", NEW n \in Nat, NEW flaw, NEW rec,
         rec.op = "pull_list", rec.size = n, rec.limit = requestFor(c).args["--limit"], rec.flaw = flaw,
         rec.has = R!projectPull(ToSet(requestFor(c).args["--fields"])),
         rec.comments = <<>>, rec.reviews = <<>>, rec.hydrated = FALSE,
         n <= rec.limit, n > 0 => flaw \in {R!NoFlaw} \cup Odd
  PROVE  Printable(c, rec)
<1>1. requestFor(c).args["--fields"] = listed(c, defaultPullFields)
  BY ListingArgs DEF DefaultFields
<1>2. CASE n > 0 /\ flaw # R!NoFlaw
  BY <1>2 DEF Printable
<1>3. CASE ~(n > 0 /\ flaw # R!NoFlaw)
  <2>1. n > 0 => validateProjectedPull(ToSet(listed(c, defaultPullFields)), rec.has, rec.flaw)
    BY <1>1, <1>3, PullPrints
  <2>2. renderPullList(c, rec)
    BY <2>1 DEF renderPullList
  <2> QED
    BY <2>2 DEF Printable, render
<1> QED
  BY <1>2, <1>3

(* issue list *)
LEMMA ListIssuesKeeps == ASSUME ViewInv, ListIssues PROVE ViewInv'
<1>0. pc = "list" /\ cmd' = cmd /\ UNCHANGED World /\ operation(cmd) = "issue_list" /\ op = operation(cmd) /\ Parse(cmd)
  BY DEF ListIssues, reads, op, ViewInv
<1> DEFINE L == req.args["--limit"]
<1>1. L \in 1..50
  BY <1>0, ListingArgs DEF req
<1>2. L \in Nat /\ L + 1 \in Nat
  BY <1>1
<1>3. PICK n \in {0, 1, L, L + 1}, flaw \in OneOf(R!IssueFlaws), kind \in {"issue", "pull"} :
        LET rec == [NoRecord EXCEPT !.op = op, !.size = n, !.limit = req.args["--limit"],
                      !.flaw = flaw, !.has = R!projectIssue(ToSet(req.args["--fields"]))]
        IN  IF otherOwner THEN Complete([rec EXCEPT !.size = 0], effect)
            ELSE IF n > rec.limit \/ (n > 0 /\ ~R!normalizeIssue(kind, flaw))
                 THEN fail("ErrProviderFailure")
                 ELSE Complete(rec, effect)
  BY DEF ListIssues
<1>4. n \in Nat
  BY <1>2, <1>3
<1> DEFINE rec == [NoRecord EXCEPT !.op = op, !.size = n, !.limit = req.args["--limit"],
                     !.flaw = flaw, !.has = R!projectIssue(ToSet(req.args["--fields"]))]
           none == [rec EXCEPT !.size = 0]
<1>5. /\ rec.op = op /\ rec.size = n /\ rec.limit = L /\ rec.flaw = flaw /\ rec.comments = <<>>
      /\ rec.has = R!projectIssue(ToSet(req.args["--fields"]))
      /\ none.op = op /\ none.size = 0 /\ none.limit = L /\ none.flaw = flaw /\ none.comments = <<>>
      /\ none.has = R!projectIssue(ToSet(req.args["--fields"]))
  BY DEF NoRecord
<1>6. \/ Complete(none, effect)
      \/ fail("ErrProviderFailure")
      \/ Complete(rec, effect) /\ ~(n > rec.limit) /\ (n > 0 => R!normalizeIssue(kind, flaw))
  BY <1>3
<1> HIDE DEF rec, none, L
<1>7. \A r : MissesNothing(cmd, items, reviews, changes, r)
  BY <1>0 DEF MissesNothing
<1>8. CASE fail("ErrProviderFailure")
  BY <1>0, <1>8, FailKeeps DEF Failures
<1>9. CASE Complete(none, effect)
  <2>1. Printable(cmd, none)
    <3>1. 0 \in Nat /\ 0 <= none.limit
      BY <1>2, <1>5
    <3> QED
      BY <1>0, <1>5, <3>1, IssueListPrints DEF req, L
  <2> QED
    BY <1>0, <1>7, <1>9, <2>1, CompleteKeeps
<1>10. CASE Complete(rec, effect) /\ ~(n > rec.limit) /\ (n > 0 => R!normalizeIssue(kind, flaw))
  <2>1. n <= rec.limit
    BY <1>2, <1>4, <1>5, <1>10
  <2>2. n > 0 => flaw = R!NoFlaw
    <3>1. R!normalizeIssue(kind, flaw) => R!normalizeIssue("issue", flaw)
      BY DEF R!normalizeIssue
    <3> QED
      BY <1>3, <1>10, <3>1, FlawsLeft
  <2>3. Printable(cmd, rec)
    BY <1>0, <1>4, <1>5, <2>1, <2>2, IssueListPrints DEF req, L
  <2> QED
    BY <1>0, <1>7, <1>10, <2>3, CompleteKeeps
<1> QED
  BY <1>6, <1>8, <1>9, <1>10

(* pulls list *)
LEMMA ListPullsKeeps == ASSUME ViewInv, ListPulls PROVE ViewInv'
<1>0. pc = "list" /\ cmd' = cmd /\ UNCHANGED World /\ operation(cmd) = "pull_list" /\ op = operation(cmd) /\ Parse(cmd)
  BY DEF ListPulls, reads, op, ViewInv
<1> DEFINE L == req.args["--limit"]
<1>1. L \in 1..50
  BY <1>0, ListingArgs DEF req
<1>2. L \in Nat /\ L + 1 \in Nat
  BY <1>1
<1>3. PICK n \in {0, 1, L, L + 1}, flaw \in OneOf(R!PullFlaws \union R!ActorFlaws("actor")),
           raw \in RawPulls, distinct \in BOOLEAN :
        LET rec == [NoRecord EXCEPT !.op = op, !.size = n, !.limit = req.args["--limit"],
                      !.flaw = flaw, !.has = R!projectPull(ToSet(req.args["--fields"]))]
        IN  IF /\ n <= rec.limit
               /\ n > 0 => distinct /\ R!decodePullPresenceObject(raw) /\ R!normalizePull(raw, flaw)
            THEN Complete(rec, effect)
            ELSE fail("ErrProviderFailure")
  BY DEF ListPulls
<1>4. n \in Nat
  BY <1>2, <1>3
<1> DEFINE rec == [NoRecord EXCEPT !.op = op, !.size = n, !.limit = req.args["--limit"],
                     !.flaw = flaw, !.has = R!projectPull(ToSet(req.args["--fields"]))]
<1>5. /\ rec.op = op /\ rec.size = n /\ rec.limit = L /\ rec.flaw = flaw /\ rec.comments = <<>>
      /\ rec.has = R!projectPull(ToSet(req.args["--fields"])) /\ rec.reviews = <<>> /\ rec.hydrated = FALSE
  BY DEF NoRecord
<1>6. \/ fail("ErrProviderFailure")
      \/ Complete(rec, effect) /\ n <= rec.limit /\ (n > 0 => R!normalizePull(raw, flaw))
  BY <1>3
<1> HIDE DEF rec, L
<1>7. \A r : MissesNothing(cmd, items, reviews, changes, r)
  BY <1>0 DEF MissesNothing
<1>8. CASE fail("ErrProviderFailure")
  BY <1>0, <1>8, FailKeeps DEF Failures
<1>9. CASE Complete(rec, effect) /\ n <= rec.limit /\ (n > 0 => R!normalizePull(raw, flaw))
  <2>1. n > 0 => flaw \in {R!NoFlaw} \cup Odd
    BY <1>3, <1>9, FlawsLeft
  <2>2. Printable(cmd, rec)
    BY <1>0, <1>4, <1>5, <1>9, <2>1, PullListPrints DEF req, L
  <2> QED
    BY <1>0, <1>7, <1>9, <2>2, CompleteKeeps
<1> QED
  BY <1>6, <1>8, <1>9

(* A list in order is in order for the client. *)
LEMMA InOrder ==
  ASSUME NEW s \in Seq(Nat), Ascending(s) PROVE \A i \in 2..Len(s) : s[i - 1] < s[i]
<1> SUFFICES ASSUME NEW i \in 2..Len(s) PROVE s[i - 1] < s[i]
  OBVIOUS
<1>1. i \in 1..Len(s) /\ i - 1 \in 1..Len(s) /\ i - 1 < i
  OBVIOUS
<1> QED
  BY <1>1 DEF Ascending

LEMMA EmptyList == <<>> \in Seq(Nat) /\ Ascending(<<>>) /\ Len(<<>>) = 0 /\ ToSet(<<>>) = {} /\ IsInjective(<<>>)
BY DEF Ascending, ToSet, IsInjective

(* issue view, and the writes that answer with an issue *)
LEMMA IssueRecordPrints ==
  ASSUME NEW c, NEW r, r.op = operation(c), r.flaw = R!NoFlaw,
         r.has = R!projectIssue(R!allIssueFields),
         r.comments \in Seq(Nat), Ascending(r.comments), Len(r.comments) <= 1000,
         \/ operation(c) = "issue_view" /\ (IF Given(c, "--comments") THEN r.count = Len(r.comments) ELSE r.comments = <<>>)
         \/ operation(c) \in {"issue_create", "issue_edit", "issue_close", "issue_reopen"} /\ r.comments = <<>>
  PROVE  Printable(c, r)
<1>1. validateProjectedIssue(issueFieldDescriptors, r.has, r.flaw) /\ commentFields(r.flaw)
  <2>1. issueFieldDescriptors = R!allIssueFields
    BY DEF issueFieldDescriptors, R!allIssueFields
  <2> QED
    BY <2>1, IssuePrints, PlainPrints
<1>2. \A i \in 2..Len(r.comments) : r.comments[i - 1] < r.comments[i]
  BY InOrder
<1>3. CASE operation(c) = "issue_view"
  <2>1. renderIssueView(c, r)
    BY <1>1, <1>2, <1>3 DEF renderIssueView, validateIssueRecord, wholeComments, maximumIssueComments
  <2> QED
    BY <1>3, <2>1 DEF Printable, render
<1>4. CASE operation(c) \in {"issue_create", "issue_edit", "issue_close", "issue_reopen"} /\ r.comments = <<>>
  <2>1. renderIssueMutation(r)
    BY <1>1, <1>2, <1>4 DEF renderIssueMutation, validateIssueRecord, wholeComments, maximumIssueComments
  <2> QED
    BY <1>4, <2>1 DEF Printable, render
<1> QED
  BY <1>3, <1>4

(* pulls view *)
LEMMA PullRecordPrints ==
  ASSUME NEW c, NEW r, ViewRecord(c, r), operation(c) = "pull_view",
         Len(r.comments) <= 1000, Len(r.reviews) <= 1000,
         IF Given(c, "--comments") THEN r.count = Len(r.comments) ELSE r.comments = <<>>
  PROVE  Printable(c, r)
<1>1. CASE r.flaw # R!NoFlaw
  BY <1>1 DEF Printable, ViewRecord
<1>2. CASE r.flaw = R!NoFlaw
  <2>1. validateProjectedPull(pullFieldDescriptors, r.has, r.flaw)
    <3>1. pullFieldDescriptors = R!allPullFields
      BY DEF pullFieldDescriptors, R!allPullFields
    <3>2. r.has = R!projectPullDetail
      BY DEF ViewRecord
    <3> QED
      BY <1>2, <3>1, <3>2, PullPrints
  <2>2. (\A i \in 2..Len(r.comments) : r.comments[i - 1] < r.comments[i]) /\ \A i \in 2..Len(r.reviews) : r.reviews[i - 1] < r.reviews[i]
    BY InOrder DEF ViewRecord
  <2>3. r.index = c.index /\ r.op = "pull_view"
    BY DEF ViewRecord
  <2>4. validatePullRecord(Given(c, "--comments"), r.has, r.flaw, r.count, r.comments, r.reviews)
    BY <1>2, <2>1, <2>2, PlainPrints DEF validatePullRecord, wholeComments, maximumPullItems
  <2>5. renderPullView(c, r)
    BY <1>2, <2>3, <2>4, PlainPrints DEF renderPullView
  <2> QED
    BY <2>3, <2>5 DEF Printable, render
<1> QED
  BY <1>1, <1>2

(* Nothing is read yet. *)
LEMMA FreshRead ==
  ASSUME NEW s \in Seq(Nat), NEW chg PROVE ReadSoFar(s, <<>>, chg, 1, 0)
<1>1. PageSize \in Nat \ {0} /\ MaxPages \in Nat /\ 1 <= MaxPages + 1
  BY PageAssumption
<1>2. Before(1, PageSize) = 0
  BY <1>1, BeforeIs
<1>3. \A i \in 1..Len(s) : ~(i <= 0)
  OBVIOUS
<1>4. Reached(s, 0, <<>>, Stable)
  BY <1>3 DEF Reached
<1> QED
  BY <1>1, <1>2, <1>4, EmptyList DEF ReadSoFar

LEMMA FreshCount ==
  ASSUME NEW its \in Seq(Nat), NEW chg, NEW r, r.comments = <<>>, r.count = Len(commentsOf(its))
  PROVE  Counted(its, chg, r) /\ r.count \in Nat
<1>1. commentsOf(its) \in Seq(Nat) /\ ToSet(commentsOf(its)) = ToSet(its) \ {0}
  BY WithoutIsSet DEF commentsOf
<1>2. AllComments(its, r) = ToSet(commentsOf(its))
  BY <1>1, EmptyList DEF AllComments
<1>3. IsFiniteSet(ToSet(commentsOf(its))) /\ Cardinality(ToSet(commentsOf(its))) <= Len(commentsOf(its))
  BY <1>1, ListCardinality
<1> QED
  BY <1>1, <1>2, <1>3 DEF Counted

(* The step to a part that reads no list of a view. *)
LEMMA NextKeeps ==
  ASSUME ViewInv, pc \notin {"parse", "gone", "done"}, cmd' = cmd, UNCHANGED World,
         NEW step, step \notin {"reviews", "timeline"}, NEW rec, next(step, rec) \/ goto(step)
  PROVE  ViewInv'
<1>1. status' = status /\ status.code # "OK" /\ (status.code = "InvalidArgument" => BadTime(cmd)) /\ Parse(cmd)
  BY NotOver DEF next, goto, ViewInv
<1>2. ViewShape' /\ pc' = step
  BY DEF ViewInv, ViewShape, World, next, goto
<1> QED
  BY <1>1, <1>2, PlainKeeps

(* The step to the next page of a list, or to the next list. *)
LEMMA ReadingKeeps ==
  ASSUME ViewInv, pc \notin {"parse", "gone", "done"}, cmd' = cmd, UNCHANGED World, status' = status,
         page' \in Nat \ {0}, last' \in Nat,
         \/ pc' = "timeline" /\ TimelineSoFar(cmd, items, reviews, changes, page', last', record')
         \/ pc' = "reviews" /\ ReviewsSoFar(cmd, items, reviews, changes, page', last', record')
  PROVE  ViewInv'
<1>1. status.code # "OK" /\ (status.code = "InvalidArgument" => BadTime(cmd)) /\ Parse(cmd)
  BY NotOver DEF ViewInv
<1>2. ViewShape' /\ UNCHANGED <<items, reviews, changes>>
  BY DEF ViewInv, ViewShape, World
<1> QED
  BY <1>1, <1>2 DEF ViewInv

(* The record that GetIssue makes. *)
LEMMA ViewedIs ==
  ASSUME NEW flaw
  PROVE  /\ IsRecord(viewed(flaw)) /\ viewed(flaw).op = op /\ viewed(flaw).index = cmd.index /\ viewed(flaw).flaw = flaw
         /\ viewed(flaw).has = R!projectIssue(R!allIssueFields) /\ viewed(flaw).count = commentCount
         /\ viewed(flaw).comments = <<>> /\ viewed(flaw).reviews = <<>>
BY DEF viewed, NoRecord, IsRecord

LEMMA GetIssueKeeps == ASSUME ViewInv, Where, GetIssue PROVE ViewInv'
<1>0. /\ pc = "get" /\ cmd' = cmd /\ UNCHANGED World /\ op = operation(cmd)
      /\ op \in {"issue_view", "pull_view", "issue_close", "issue_reopen", "issue_comment"}
      /\ items \in Seq(Nat) /\ reviews \in Seq(Nat)
  BY DEF GetIssue, reads, op, Where, ViewInv, ViewShape
<1>1. PICK flaw \in OneOf(R!IssueFlaws) :
        \/ fail("ErrNotFound") \/ fail("ErrProviderFailure") \/ fail("ErrPullKind") \/ goto("pull")
        \/ op # "pull_view" /\ afterGet(flaw)
  BY DEF GetIssue
<1>2. CASE fail("ErrNotFound") \/ fail("ErrProviderFailure") \/ fail("ErrPullKind")
  BY <1>0, <1>2, FailKeeps DEF Failures
<1>3. CASE goto("pull")
  BY <1>0, <1>3, NextKeeps
<1>4. CASE op # "pull_view" /\ afterGet(flaw)
  <2> DEFINE v == viewed(flaw)
  <2>1. \/ fail("ErrIssueKind") \/ fail("ErrProviderFailure")
        \/ /\ R!normalizeIssue("issue", flaw)
           /\ \/ op = "issue_view" /\ withComments /\ next("timeline", v)
              \/ op = "issue_view" /\ ~withComments /\ Complete(v, effect)
              \/ withState /\ Complete(v, "held")
              \/ next("write", record)
    BY <1>4 DEF afterGet
  <2>2. CASE fail("ErrIssueKind") \/ fail("ErrProviderFailure")
    BY <1>0, <2>2, FailKeeps DEF Failures
  <2>3. ASSUME R!normalizeIssue("issue", flaw), op = "issue_view", withComments, next("timeline", v) PROVE ViewInv'
    <3>1. v.flaw = R!NoFlaw /\ Given(cmd, "--comments")
      BY <1>1, <2>3, FlawsLeft, ViewedIs DEF withComments
    <3>2. Counted(items, changes, v) /\ v.count \in Nat
      BY <1>0, ViewedIs, FreshCount DEF commentCount
    <3>3. ViewRecord(cmd, v)
      BY <1>0, <2>3, <3>1, <3>2, ViewedIs, EmptyList DEF ViewRecord
    <3>4. ReviewsWhole(cmd, reviews, changes, v)
      BY <1>0, <2>3, ViewedIs, EmptyList DEF ReviewsWhole, maximumPullItems
    <3>5. ReadSoFar(items, v.comments, changes, 1, 0)
      BY <1>0, ViewedIs, FreshRead
    <3> HIDE DEF v
    <3>6. TimelineSoFar(cmd, items, reviews, changes, 1, 0, v)
      BY <3>1, <3>2, <3>3, <3>4, <3>5 DEF TimelineSoFar
    <3>7. pc' = "timeline" /\ record' = v /\ page' = 1 /\ last' = 0 /\ status' = status
      BY <2>3 DEF next
    <3> QED
      BY <1>0, <3>6, <3>7, ReadingKeeps
  <2>4. ASSUME R!normalizeIssue("issue", flaw), op = "issue_view", ~withComments, Complete(v, effect) PROVE ViewInv'
    <3>1. v.flaw = R!NoFlaw /\ ~Given(cmd, "--comments")
      BY <1>1, <2>4, FlawsLeft, ViewedIs DEF withComments
    <3>a. v.op = "issue_view" /\ v.comments = <<>> /\ v.has = R!projectIssue(R!allIssueFields)
      BY <2>4, ViewedIs
    <3>2. Printable(cmd, v)
      <4> HIDE DEF v
      <4>1. v.comments \in Seq(Nat) /\ Ascending(v.comments) /\ Len(v.comments) <= 1000
        BY <3>a, EmptyList
      <4> QED
        BY <1>0, <2>4, <3>1, <3>a, <4>1, IssueRecordPrints
    <3>3. MissesNothing(cmd, items, reviews, changes, v)
      BY <1>0, <2>4, <3>1, ViewedIs, EmptyList DEF MissesNothing
    <3> HIDE DEF v
    <3> QED
      BY <1>0, <2>4, <3>2, <3>3, CompleteKeeps
  <2>5. ASSUME R!normalizeIssue("issue", flaw), withState, Complete(v, "held") PROVE ViewInv'
    <3>1. v.flaw = R!NoFlaw /\ operation(cmd) \in {"issue_close", "issue_reopen"}
      BY <1>0, <1>1, <2>5, FlawsLeft, ViewedIs DEF withState
    <3>a. v.op = operation(cmd) /\ v.comments = <<>> /\ v.has = R!projectIssue(R!allIssueFields)
      BY <1>0, ViewedIs
    <3>2. Printable(cmd, v)
      <4> HIDE DEF v
      <4>1. v.comments \in Seq(Nat) /\ Ascending(v.comments) /\ Len(v.comments) <= 1000
        BY <3>a, EmptyList
      <4> QED
        BY <3>1, <3>a, <4>1, IssueRecordPrints
    <3>3. MissesNothing(cmd, items, reviews, changes, v)
      BY <3>1 DEF MissesNothing
    <3> HIDE DEF v
    <3> QED
      BY <1>0, <2>5, <3>2, <3>3, CompleteKeeps
  <2>6. CASE next("write", record)
    BY <1>0, <2>6, NextKeeps
  <2> HIDE DEF v
  <2> QED
    BY <2>1, <2>2, <2>3, <2>4, <2>5, <2>6
<1> QED
  BY <1>1, <1>2, <1>3, <1>4

LEMMA GetPullKeeps == ASSUME ViewInv, Where, GetPull PROVE ViewInv'
<1>0. /\ pc = "pull" /\ cmd' = cmd /\ UNCHANGED World /\ op = operation(cmd) /\ op = "pull_view"
      /\ items \in Seq(Nat) /\ reviews \in Seq(Nat)
  BY DEF GetPull, reads, op, Where, ViewInv, ViewShape
<1>1. PICK flaw \in OneOf(R!PullFlaws \union R!ActorFlaws("actor")), raw \in RawPulls :
        IF ~R!decodePullPresenceObject(raw) \/ ~R!normalizePull(raw, flaw)
        THEN fail("ErrProviderFailure")
        ELSE next("reviews", [NoRecord EXCEPT !.op = op, !.index = cmd.index, !.flaw = flaw,
                                !.has = R!projectPullDetail, !.count = commentCount, !.hydrated = TRUE])
  BY DEF GetPull
<1> DEFINE v == [NoRecord EXCEPT !.op = op, !.index = cmd.index, !.flaw = flaw,
                   !.has = R!projectPullDetail, !.count = commentCount, !.hydrated = TRUE]
<1>b. fail("ErrProviderFailure") \/ (R!normalizePull(raw, flaw) /\ next("reviews", v))
  BY <1>1
<1> HIDE DEF v
<1>2. /\ IsRecord(v) /\ v.op = op /\ v.index = cmd.index /\ v.flaw = flaw
      /\ v.has = R!projectPullDetail /\ v.count = commentCount /\ v.comments = <<>> /\ v.reviews = <<>>
  BY DEF NoRecord, IsRecord, v
<1>4. CASE fail("ErrProviderFailure")
  BY <1>0, <1>4, FailKeeps DEF Failures
<1>5. CASE R!normalizePull(raw, flaw) /\ next("reviews", v)
  <2>1. flaw \in {R!NoFlaw} \cup Odd
    BY <1>1, <1>5, FlawsLeft
  <2>2. Counted(items, changes, v) /\ v.count \in Nat
    BY <1>0, <1>2, FreshCount DEF commentCount
  <2>3. ViewRecord(cmd, v)
    BY <1>0, <1>2, <2>1, <2>2, EmptyList DEF ViewRecord
  <2>4. ReadSoFar(reviews, v.reviews, changes, 1, 0)
    BY <1>0, <1>2, FreshRead
  <2>5. ReviewsSoFar(cmd, items, reviews, changes, 1, 0, v)
    BY <1>0, <1>2, <2>2, <2>3, <2>4 DEF ReviewsSoFar
  <2>6. pc' = "reviews" /\ record' = v /\ page' = 1 /\ last' = 0 /\ status' = status
    BY <1>5 DEF next
  <2> QED
    BY <1>0, <2>5, <2>6, ReadingKeeps
<1> QED
  BY <1>b, <1>4, <1>5

(* When nothing was added, as many comments as the issue said it has are all *)
(* of them.                                                                 *)
LEMMA CountTells ==
  ASSUME NEW its \in Seq(Nat), NEW chg, NEW r, r.comments \in Seq(Nat), Ascending(r.comments),
         Counted(its, chg, r), chg.inserted = 0, Len(r.comments) = r.count
  PROVE  ToSet(its) \ {0} \subseteq ToSet(r.comments)
<1> DEFINE S == AllComments(its, r)
           T == ToSet(r.comments)
<1>1. IsFiniteSet(S) /\ Cardinality(S) <= r.count
  BY DEF Counted
<1>2. IsFiniteSet(T) /\ Cardinality(T) = Len(r.comments)
  BY AscendingIsInjective, ListCardinality
<1>3. T \in SUBSET S /\ ToSet(its) \ {0} \subseteq S
  BY DEF AllComments
<1> HIDE DEF S, T
<1>4. Cardinality(T) <= Cardinality(S) /\ (Cardinality(S) = Cardinality(T) => S = T)
  BY <1>1, <1>3, FS_Subset
<1>5. Cardinality(S) \in Nat /\ Cardinality(T) \in Nat
  BY <1>1, <1>2, FS_CardinalityType
<1>6. Cardinality(S) <= Cardinality(T)
  BY <1>1, <1>2
<1>7. Cardinality(S) = Cardinality(T)
  BY <1>4, <1>5, <1>6
<1>8. S = T
  BY <1>4, <1>7
<1> QED
  BY <1>3, <1>8 DEF T

(* The end of a view with comments. *)
LEMMA TimelineEnds ==
  ASSUME NEW c, NEW its \in Seq(Nat), NEW rvs \in Seq(Nat), NEW chg, chg.deleted \in Nat, chg.inserted \in Nat,
         NEW r, ViewRecord(c, r), Given(c, "--comments"), ReviewsWhole(c, rvs, chg, r), Counted(its, chg, r),
         Len(r.comments) <= 1000, Len(r.comments) = r.count,
         chg.deleted = 0 => ToSet(its) \cap Stable \subseteq ToSet(r.comments)
  PROVE  Printable(c, r) /\ MissesNothing(c, its, rvs, chg, r)
<1>0. /\ r.comments \in Seq(Nat) /\ Ascending(r.comments) /\ r.reviews \in Seq(Nat) /\ Ascending(r.reviews)
      /\ r.op = operation(c) /\ operation(c) \in {"issue_view", "pull_view"}
  BY DEF ViewRecord
<1>1. Printable(c, r)
  <2>1. CASE operation(c) = "pull_view"
    <3>1. Len(r.reviews) <= 1000
      BY DEF ReviewsWhole, maximumPullItems
    <3> QED
      BY <2>1, <3>1, PullRecordPrints
  <2>2. CASE operation(c) = "issue_view" /\ r.flaw = R!NoFlaw
    <3>1. r.has = R!projectIssue(R!allIssueFields)
      BY <2>2 DEF ViewRecord
    <3> QED
      BY <1>0, <2>2, <3>1, IssueRecordPrints
  <2>3. CASE r.flaw # R!NoFlaw
    BY <2>3 DEF ViewRecord, Printable
  <2> QED
    BY <1>0, <2>1, <2>2, <2>3
<1>2. ToSet(its) \cap Stable \subseteq ToSet(r.comments) \/ (chg.deleted > 0 /\ chg.inserted > 0)
  <2>1. CASE chg.deleted = 0
    BY <2>1
  <2>2. CASE chg.inserted = 0
    <3>1. ToSet(its) \ {0} \subseteq ToSet(r.comments)
      BY <1>0, <2>2, CountTells
    <3>2. 0 \notin Stable
      BY DEF Stable
    <3> QED
      BY <3>1, <3>2
  <2>3. CASE chg.deleted # 0 /\ chg.inserted # 0
    BY <2>3
  <2> QED
    BY <2>1, <2>2, <2>3
<1>3. operation(c) = "pull_view" => ToSet(rvs) \cap Stable \subseteq ToSet(r.reviews) \/ chg.deleted > 0
  <2>1. chg.deleted = 0 \/ chg.deleted > 0
    OBVIOUS
  <2> QED
    BY <2>1 DEF ReviewsWhole
<1>4. IsInjective(r.comments) /\ IsInjective(r.reviews)
  BY <1>0, AscendingIsInjective
<1> QED
  BY <1>1, <1>2, <1>3, <1>4 DEF MissesNothing

(* The end of a view without. *)
LEMMA ReviewsEnd ==
  ASSUME NEW c, NEW its, NEW rvs \in Seq(Nat), NEW chg, chg.deleted \in Nat,
         NEW r, ViewRecord(c, r), operation(c) = "pull_view", ~Given(c, "--comments"), ReviewsWhole(c, rvs, chg, r),
         r.comments = <<>>
  PROVE  Printable(c, r) /\ MissesNothing(c, its, rvs, chg, r)
<1>0. r.comments \in Seq(Nat) /\ Ascending(r.comments) /\ r.reviews \in Seq(Nat) /\ Ascending(r.reviews)
  BY DEF ViewRecord
<1>1. Printable(c, r)
  <2>1. Len(r.reviews) <= 1000 /\ Len(r.comments) <= 1000
    BY EmptyList DEF ReviewsWhole, maximumPullItems
  <2> QED
    BY <2>1, PullRecordPrints
<1>2. ToSet(rvs) \cap Stable \subseteq ToSet(r.reviews) \/ chg.deleted > 0
  <2>1. chg.deleted = 0 \/ chg.deleted > 0
    OBVIOUS
  <2> QED
    BY <2>1 DEF ReviewsWhole
<1>3. IsInjective(r.comments) /\ IsInjective(r.reviews)
  BY <1>0, AscendingIsInjective
<1> QED
  BY <1>1, <1>2, <1>3 DEF MissesNothing

LEMMA PageWithin ==
  ASSUME NEW s \in Seq(Nat), NEW pg \in Nat \ {0}
  PROVE  pageOf(s, pg, PageSize) \in Seq(Nat) /\ ToSet(pageOf(s, pg, PageSize)) \subseteq ToSet(s)
<1>1. PageSize \in Nat \ {0}
  BY PageAssumption
<1>2. \A x \in ToSet(pageOf(s, pg, PageSize)) : \E i \in 1..Len(s) : x = s[i]
  BY <1>1, PageIsSet
<1>3. \A i \in 1..Len(s) : s[i] \in ToSet(s)
  BY DEF ToSet
<1>4. pageOf(s, pg, PageSize) \in Seq(Nat)
  BY <1>1, PageIsSet
<1> QED
  BY <1>2, <1>3, <1>4

(* The record after a page of comments, or of reviews. *)
FlawOf(r, ids, flaw) == IF r.flaw = R!NoFlaw /\ ids # <<>> THEN flaw ELSE r.flaw
WithComments(r, ids, flaw) ==
  [r EXCEPT !.comments = @ \o ids, !.flaw = IF @ = R!NoFlaw /\ ids # <<>> THEN flaw ELSE @]
WithReviews(r, ids, flaw) ==
  [r EXCEPT !.reviews = @ \o ids, !.flaw = IF @ = R!NoFlaw /\ ids # <<>> THEN flaw ELSE @]

Enlarged(x, r, cs, rvs, flaw) ==
  /\ IsRecord(x) /\ x.op = r.op /\ x.index = r.index /\ x.has = r.has /\ x.count = r.count
  /\ x.comments = cs /\ x.reviews = rvs /\ x.flaw = flaw

LEMMA WithCommentsIs ==
  ASSUME NEW r, IsRecord(r), NEW ids, NEW flaw, NEW x, x = WithComments(r, ids, flaw)
  PROVE  Enlarged(x, r, r.comments \o ids, r.reviews, FlawOf(r, ids, flaw))
<1> DEFINE a == r.comments \o ids
           b == FlawOf(r, ids, flaw)
<1>1. x = [r EXCEPT !.comments = a, !.flaw = b]
  <2>1. [r EXCEPT !.comments = a].flaw = r.flaw
    <3> HIDE DEF a
    <3> QED
      BY DEF IsRecord
  <2> QED
    BY <2>1, Zenon DEF WithComments, FlawOf
<1> HIDE DEF a, b
<1>2. /\ IsRecord(x) /\ x.op = r.op /\ x.index = r.index /\ x.has = r.has /\ x.count = r.count
      /\ x.comments = a /\ x.flaw = b /\ x.reviews = r.reviews
  <2> DEFINE y == [r EXCEPT !.comments = a, !.flaw = b]
  <2>1. /\ IsRecord(y) /\ y.op = r.op /\ y.index = r.index /\ y.has = r.has /\ y.count = r.count
        /\ y.comments = a /\ y.flaw = b /\ y.reviews = r.reviews
    BY DEF IsRecord
  <2>2. x = y
    BY <1>1
  <2> HIDE DEF y
  <2> QED
    BY <2>1, <2>2, Zenon
<1> QED
  BY <1>2 DEF a, b, Enlarged

LEMMA WithReviewsIs ==
  ASSUME NEW r, IsRecord(r), NEW ids, NEW flaw, NEW x, x = WithReviews(r, ids, flaw)
  PROVE  Enlarged(x, r, r.comments, r.reviews \o ids, FlawOf(r, ids, flaw))
<1> DEFINE a == r.reviews \o ids
           b == FlawOf(r, ids, flaw)
<1>1. x = [r EXCEPT !.reviews = a, !.flaw = b]
  <2>1. [r EXCEPT !.reviews = a].flaw = r.flaw
    <3> HIDE DEF a
    <3> QED
      BY DEF IsRecord
  <2> QED
    BY <2>1, Zenon DEF WithReviews, FlawOf
<1> HIDE DEF a, b
<1>2. /\ IsRecord(x) /\ x.op = r.op /\ x.index = r.index /\ x.has = r.has /\ x.count = r.count
      /\ x.comments = r.comments /\ x.flaw = b /\ x.reviews = a
  <2> DEFINE y == [r EXCEPT !.reviews = a, !.flaw = b]
  <2>1. /\ IsRecord(y) /\ y.op = r.op /\ y.index = r.index /\ y.has = r.has /\ y.count = r.count
        /\ y.comments = r.comments /\ y.flaw = b /\ y.reviews = a
    BY DEF IsRecord
  <2>2. x = y
    BY <1>1
  <2> HIDE DEF y
  <2> QED
    BY <2>1, <2>2, Zenon
<1> QED
  BY <1>2 DEF a, b, Enlarged

(* One page of the timeline that is well formed. *)
LEMMA TimelineGrows ==
  ASSUME NEW c, NEW its \in Seq(Nat), NEW rvs, NEW chg, NEW pg \in Nat \ {0}, NEW lst \in Nat, NEW r,
         TimelineSoFar(c, its, rvs, chg, pg, lst, r), pg # MaxPages + 1,
         NEW ids, ids = commentsOf(pageOf(its, pg, PageSize)), Climbs(ids, lst),
         NEW flaw, flaw = R!NoFlaw \/ ids = <<>>,
         NEW x, x = WithComments(r, ids, flaw), NEW new, new = LastOf(ids, lst)
  PROVE  /\ TimelineSoFar(c, its, rvs, chg, pg + 1, new, x)
         /\ PageTaken(its, x.comments, chg, pg, new)
<1> DEFINE p == pageOf(its, pg, PageSize)
<1>0. /\ ViewRecord(c, r) /\ Given(c, "--comments") /\ ReviewsWhole(c, rvs, chg, r) /\ Counted(its, chg, r)
      /\ ReadSoFar(its, r.comments, chg, pg, lst)
  BY DEF TimelineSoFar
<1>1. IsRecord(r) /\ r.comments \in Seq(Nat) /\ Ascending(r.comments)
  BY <1>0 DEF ViewRecord
<1>2. p \in Seq(Nat) /\ ToSet(p) \subseteq ToSet(its)
  BY PageWithin
<1>3. ids \in Seq(Nat) /\ Len(ids) <= Len(p) /\ ToSet(ids) = ToSet(p) \ {0}
  BY <1>2, WithoutIsSet DEF commentsOf
<1>4. ToSet(p) \cap Stable \subseteq ToSet(ids)
  <2>1. 0 \notin Stable
    BY DEF Stable
  <2> QED
    BY <1>3, <2>1
<1>5. /\ x.op = r.op /\ x.index = r.index /\ x.has = r.has /\ x.count = r.count /\ IsRecord(x)
      /\ x.comments = r.comments \o ids /\ x.reviews = r.reviews /\ x.flaw = FlawOf(r, ids, flaw)
  <2>1. Enlarged(x, r, r.comments \o ids, r.reviews, FlawOf(r, ids, flaw))
    BY <1>1, WithCommentsIs, Zenon
  <2> QED
    BY <2>1 DEF Enlarged
<1>6. PageTaken(its, x.comments, chg, pg, new)
  <2>1. PageTaken(its, r.comments \o ids, chg, pg, LastOf(ids, lst))
    BY <1>0, <1>1, <1>3, <1>4, PageRead, Zenon
  <2> QED
    BY <1>5, <2>1, Zenon
<1> HIDE DEF p
<1>7. x.flaw \in {R!NoFlaw} \cup Odd
  BY <1>0, <1>5 DEF ViewRecord, FlawOf
<1>8. ViewRecord(c, x)
  <2>1. x.comments \in Seq(Nat) /\ Ascending(x.comments)
    BY <1>6 DEF PageTaken
  <2> QED
    BY <1>0, <1>5, <2>1, <1>7 DEF ViewRecord
<1>9. ReviewsWhole(c, rvs, chg, x)
  BY <1>0, <1>5 DEF ReviewsWhole
<1>10. Counted(its, chg, x)
  <2>1. ToSet(x.comments) = ToSet(r.comments) \cup ToSet(ids)
    BY <1>1, <1>3, <1>5, ConcatIsSet
  <2>2. AllComments(its, x) = AllComments(its, r)
    BY <1>2, <1>3, <2>1 DEF AllComments
  <2> QED
    BY <1>0, <1>5, <2>2 DEF Counted
<1>11. TimelineSoFar(c, its, rvs, chg, pg + 1, new, x)
  BY <1>0, <1>6, <1>8, <1>9, <1>10 DEF TimelineSoFar, PageTaken
<1> QED
  BY <1>6, <1>11

LEMMA TimelineKeeps == ASSUME CallShape, ViewInv, TimelinePage PROVE ViewInv'
<1>0. /\ pc = "timeline" /\ cmd' = cmd /\ UNCHANGED World
      /\ items \in Seq(Nat) /\ reviews \in Seq(Nat) /\ page \in Nat \ {0} /\ last \in Nat
      /\ TimelineSoFar(cmd, items, reviews, changes, page, last, record)
      /\ changes.deleted \in Nat /\ changes.inserted \in Nat
  BY DEF TimelinePage, reads, ViewInv, ViewShape, CallShape
<1>a. /\ ViewRecord(cmd, record) /\ Given(cmd, "--comments") /\ ReviewsWhole(cmd, reviews, changes, record)
      /\ Counted(items, changes, record) /\ ReadSoFar(items, record.comments, changes, page, last)
      /\ record.comments \in Seq(Nat)
  BY <1>0 DEF TimelineSoFar, ViewRecord
<1> DEFINE entries == pageOf(items, page, PageSize)
           ids == commentsOf(entries)
<1>1. PICK flaw \in OneOf(R!CommentFlaws), long \in BOOLEAN :
        LET rec == WithComments(record, ids, flaw)
        IN  IF page = MaxPages + 1
            THEN IF entries # <<>> THEN fail("ErrOutputLimit") ELSE completeOrdinaryComments(record)
            ELSE IF long \/ ~normalizeCommentPage(ids, flaw) THEN fail("ErrProviderFailure")
            ELSE IF Len(entries) < PageSize THEN completeOrdinaryComments(rec)
            ELSE more(rec, ids)
  BY DEF TimelinePage, WithComments
<1> DEFINE rec == WithComments(record, ids, flaw)
<1>2. \A r : completeOrdinaryComments(r) => fail("ErrProviderFailure") \/ (Len(r.comments) = r.count /\ Complete(r, effect))
  BY DEF completeOrdinaryComments
<1>3. \/ fail("ErrOutputLimit") \/ fail("ErrProviderFailure")
      \/ entries = <<>> /\ Len(record.comments) = record.count /\ Complete(record, effect)
      \/ /\ page # MaxPages + 1 /\ normalizeCommentPage(ids, flaw)
         /\ \/ Len(entries) < PageSize /\ Len(rec.comments) = rec.count /\ Complete(rec, effect)
            \/ more(rec, ids)
  BY <1>1, <1>2
<1>4. CASE fail("ErrOutputLimit") \/ fail("ErrProviderFailure")
  BY <1>0, <1>4, FailKeeps DEF Failures
<1>5. CASE entries = <<>> /\ Len(record.comments) = record.count /\ Complete(record, effect)
  <2>1. Len(record.comments) <= 1000 /\ (changes.deleted = 0 => ToSet(items) \cap Stable \subseteq ToSet(record.comments))
    BY <1>0, <1>5, <1>a, PagesEnd
  <2>2. Printable(cmd, record) /\ MissesNothing(cmd, items, reviews, changes, record)
    BY <1>0, <1>5, <1>a, <2>1, TimelineEnds
  <2> QED
    BY <1>0, <1>5, <2>2, CompleteKeeps
<1>6. CASE /\ page # MaxPages + 1 /\ normalizeCommentPage(ids, flaw)
           /\ \/ Len(entries) < PageSize /\ Len(rec.comments) = rec.count /\ Complete(rec, effect)
              \/ more(rec, ids)
  <2> DEFINE new == LastOf(ids, last)
  <2>1. flaw = R!NoFlaw \/ ids = <<>>
    BY <1>1, <1>6, FlawsLeft DEF normalizeCommentPage
  <2>2. Climbs(ids, last)
    BY <1>6 DEF normalizeCommentPage, increasing, Climbs
  <2>3. /\ TimelineSoFar(cmd, items, reviews, changes, page + 1, new, rec)
        /\ PageTaken(items, rec.comments, changes, page, new)
    <3>1. rec = WithComments(record, ids, flaw) /\ ids = commentsOf(pageOf(items, page, PageSize)) /\ new = LastOf(ids, last)
      OBVIOUS
    <3> HIDE DEF rec, new, ids, entries
    <3> QED
      BY <1>0, <1>6, <2>1, <2>2, <3>1, TimelineGrows, Zenon
  <2> HIDE DEF rec, new, ids
  <2>a. /\ ViewRecord(cmd, rec) /\ ReviewsWhole(cmd, reviews, changes, rec) /\ Counted(items, changes, rec)
        /\ Len(rec.comments) <= 1000 /\ new \in Nat
        /\ Len(entries) < PageSize /\ changes.deleted = 0 => ToSet(items) \cap Stable \subseteq ToSet(rec.comments)
    BY <2>3 DEF TimelineSoFar, PageTaken
  <2> HIDE DEF entries
  <2>4. CASE Len(entries) < PageSize /\ Len(rec.comments) = rec.count /\ Complete(rec, effect)
    <3>1. Printable(cmd, rec) /\ MissesNothing(cmd, items, reviews, changes, rec)
      BY <1>0, <1>a, <2>a, <2>4, TimelineEnds
    <3> QED
      BY <1>0, <2>4, <3>1, CompleteKeeps
  <2>5. CASE more(rec, ids)
    <3>1. pc' = "timeline" /\ page' = page + 1 /\ record' = rec /\ last' = new /\ status' = status
      BY <1>0, <2>5 DEF more, new, LastOf
    <3>2. page' \in Nat \ {0} /\ last' \in Nat
      BY <1>0, <2>a, <3>1
    <3> QED
      BY <1>0, <2>3, <3>1, <3>2, ReadingKeeps
  <2> QED
    BY <1>6, <2>4, <2>5
<1> QED
  BY <1>3, <1>4, <1>5, <1>6

(* One page of the reviews that is well formed. *)
LEMMA ReviewsGrow ==
  ASSUME NEW c, NEW its, NEW rvs \in Seq(Nat), NEW chg, NEW pg \in Nat \ {0}, NEW lst \in Nat, NEW r,
         ReviewsSoFar(c, its, rvs, chg, pg, lst, r), pg # MaxPages + 1,
         NEW ids, ids = pageOf(rvs, pg, PageSize), Climbs(ids, lst),
         NEW flaw, flaw \in {R!NoFlaw} \cup Odd \/ ids = <<>>,
         NEW x, x = WithReviews(r, ids, flaw), NEW new, new = LastOf(ids, lst)
  PROVE  /\ ReviewsSoFar(c, its, rvs, chg, pg + 1, new, x)
         /\ PageTaken(rvs, x.reviews, chg, pg, new)
<1>0. /\ ViewRecord(c, r) /\ operation(c) = "pull_view" /\ r.comments = <<>> /\ Counted(its, chg, r)
      /\ ReadSoFar(rvs, r.reviews, chg, pg, lst)
  BY DEF ReviewsSoFar
<1>1. IsRecord(r) /\ r.reviews \in Seq(Nat) /\ Ascending(r.reviews)
  BY <1>0 DEF ViewRecord
<1>2. ids \in Seq(Nat)
  BY PageWithin
<1>3. Len(ids) <= Len(pageOf(rvs, pg, PageSize)) /\ ToSet(pageOf(rvs, pg, PageSize)) \cap Stable \subseteq ToSet(ids)
  BY <1>2
<1>a. x = WithReviews(r, ids, flaw)
  OBVIOUS
<1>5. /\ IsRecord(x) /\ x.op = r.op /\ x.index = r.index /\ x.has = r.has /\ x.count = r.count
      /\ x.comments = r.comments /\ x.reviews = r.reviews \o ids /\ x.flaw = FlawOf(r, ids, flaw)
  <2>1. Enlarged(x, r, r.comments, r.reviews \o ids, FlawOf(r, ids, flaw))
    BY ONLY <1>1, <1>a, WithReviewsIs, Zenon
  <2> QED
    BY <2>1 DEF Enlarged
<1>6. PageTaken(rvs, x.reviews, chg, pg, new)
  <2>1. PageTaken(rvs, r.reviews \o ids, chg, pg, LastOf(ids, lst))
    BY <1>0, <1>1, <1>2, <1>3, PageRead, Zenon
  <2> QED
    BY <1>5, <2>1, Zenon
<1>7. x.flaw \in {R!NoFlaw} \cup Odd
  BY <1>0, <1>5 DEF ViewRecord, FlawOf
<1>8. ViewRecord(c, x)
  <2>1. x.reviews \in Seq(Nat) /\ Ascending(x.reviews)
    BY <1>6 DEF PageTaken
  <2> QED
    BY <1>0, <1>5, <2>1, <1>7 DEF ViewRecord
<1>9. Counted(its, chg, x)
  BY <1>0, <1>5 DEF Counted, AllComments
<1> QED
  BY <1>0, <1>5, <1>6, <1>8, <1>9 DEF ReviewsSoFar, PageTaken

(* What follows the last page of the reviews. *)
LEMMA AfterReviewsKeeps ==
  ASSUME ViewInv, pc = "reviews", cmd' = cmd, UNCHANGED World, changes.deleted \in Nat,
         NEW r, ViewRecord(cmd, r), operation(cmd) = "pull_view", r.comments = <<>>,
         Counted(items, changes, r), ReviewsWhole(cmd, reviews, changes, r), afterReviews(r)
  PROVE  ViewInv'
<1>0. op = "pull_view" /\ items \in Seq(Nat) /\ reviews \in Seq(Nat)
  BY DEF op, ViewInv, ViewShape
<1>1. CASE Given(cmd, "--comments")
  <2>1. next("timeline", r)
    BY <1>0, <1>1 DEF afterReviews, withComments
  <2>2. pc' = "timeline" /\ record' = r /\ page' = 1 /\ last' = 0 /\ status' = status
    BY <2>1 DEF next
  <2>3. ReadSoFar(items, r.comments, changes, 1, 0)
    BY <1>0, FreshRead
  <2>4. TimelineSoFar(cmd, items, reviews, changes, 1, 0, r)
    BY <1>1, <2>3 DEF TimelineSoFar
  <2> QED
    BY <2>2, <2>4, ReadingKeeps
<1>2. CASE ~Given(cmd, "--comments")
  <2>1. Complete(r, effect)
    BY <1>2 DEF afterReviews, withComments
  <2>2. Printable(cmd, r) /\ MissesNothing(cmd, items, reviews, changes, r)
    BY <1>0, <1>2, ReviewsEnd
  <2> QED
    BY <2>1, <2>2, CompleteKeeps
<1> QED
  BY <1>1, <1>2

LEMMA ReviewsKeeps == ASSUME CallShape, ViewInv, ReviewPage PROVE ViewInv'
<1>0. /\ pc = "reviews" /\ cmd' = cmd /\ UNCHANGED World
      /\ items \in Seq(Nat) /\ reviews \in Seq(Nat) /\ page \in Nat \ {0} /\ last \in Nat
      /\ ReviewsSoFar(cmd, items, reviews, changes, page, last, record)
      /\ changes.deleted \in Nat
  BY DEF ReviewPage, reads, ViewInv, ViewShape, CallShape
<1>a. /\ ViewRecord(cmd, record) /\ operation(cmd) = "pull_view" /\ record.comments = <<>>
      /\ Counted(items, changes, record) /\ ReadSoFar(reviews, record.reviews, changes, page, last)
      /\ record.reviews \in Seq(Nat)
  BY <1>0 DEF ReviewsSoFar, ViewRecord
<1> DEFINE ids == pageOf(reviews, page, PageSize)
<1>1. PICK flaw \in OneOf(R!ReviewFlaws), long \in BOOLEAN :
        LET rec == WithReviews(record, ids, flaw)
        IN  IF page = MaxPages + 1
            THEN IF ids # <<>> THEN fail("ErrOutputLimit") ELSE afterReviews(record)
            ELSE IF long \/ (ids # <<>> /\ ~R!normalizePullReview(flaw)) \/ ~increasing(ids)
                 THEN fail("ErrProviderFailure")
            ELSE IF Len(ids) < PageSize THEN afterReviews(rec)
            ELSE more(rec, ids)
  BY DEF ReviewPage, WithReviews
<1> DEFINE rec == WithReviews(record, ids, flaw)
<1>3. \/ fail("ErrOutputLimit") \/ fail("ErrProviderFailure")
      \/ ids = <<>> /\ afterReviews(record)
      \/ /\ page # MaxPages + 1 /\ (ids = <<>> \/ R!normalizePullReview(flaw)) /\ increasing(ids)
         /\ \/ Len(ids) < PageSize /\ afterReviews(rec)
            \/ more(rec, ids)
  BY <1>1
<1>4. CASE fail("ErrOutputLimit") \/ fail("ErrProviderFailure")
  BY <1>0, <1>4, FailKeeps DEF Failures
<1>5. CASE ids = <<>> /\ afterReviews(record)
  <2>1. Len(record.reviews) <= 1000 /\ (changes.deleted = 0 => ToSet(reviews) \cap Stable \subseteq ToSet(record.reviews))
    BY <1>0, <1>5, <1>a, PagesEnd
  <2>2. ReviewsWhole(cmd, reviews, changes, record)
    BY <2>1 DEF ReviewsWhole, maximumPullItems
  <2> QED
    BY <1>0, <1>5, <1>a, <2>2, AfterReviewsKeeps
<1>6. CASE /\ page # MaxPages + 1 /\ (ids = <<>> \/ R!normalizePullReview(flaw)) /\ increasing(ids)
           /\ \/ Len(ids) < PageSize /\ afterReviews(rec)
              \/ more(rec, ids)
  <2> DEFINE new == LastOf(ids, last)
  <2>1. flaw \in {R!NoFlaw} \cup Odd \/ ids = <<>>
    BY <1>1, <1>6, FlawsLeft
  <2>2. Climbs(ids, last)
    BY <1>6 DEF increasing, Climbs
  <2>3. /\ ReviewsSoFar(cmd, items, reviews, changes, page + 1, new, rec)
        /\ PageTaken(reviews, rec.reviews, changes, page, new)
    <3>1. rec = WithReviews(record, ids, flaw) /\ ids = pageOf(reviews, page, PageSize) /\ new = LastOf(ids, last)
      OBVIOUS
    <3> HIDE DEF rec, new, ids
    <3> QED
      BY <1>0, <1>6, <2>1, <2>2, <3>1, ReviewsGrow, Zenon
  <2> HIDE DEF rec, new
  <2>a. /\ ViewRecord(cmd, rec) /\ Counted(items, changes, rec) /\ rec.comments = <<>>
        /\ Len(rec.reviews) <= 1000 /\ new \in Nat
        /\ Len(ids) < PageSize /\ changes.deleted = 0 => ToSet(reviews) \cap Stable \subseteq ToSet(rec.reviews)
    BY <2>3 DEF ReviewsSoFar, PageTaken
  <2> HIDE DEF ids
  <2>4. CASE Len(ids) < PageSize /\ afterReviews(rec)
    <3>1. ReviewsWhole(cmd, reviews, changes, rec)
      BY <2>a, <2>4 DEF ReviewsWhole, maximumPullItems
    <3> QED
      BY <1>0, <1>a, <2>a, <2>4, <3>1, AfterReviewsKeeps
  <2>5. CASE more(rec, ids)
    <3>1. pc' = "reviews" /\ page' = page + 1 /\ record' = rec /\ last' = new /\ status' = status
      BY <1>0, <2>5 DEF more, new, LastOf
    <3>2. page' \in Nat \ {0} /\ last' \in Nat
      BY <1>0, <2>a, <3>1
    <3> QED
      BY <1>0, <2>3, <3>1, <3>2, ReadingKeeps
  <2> QED
    BY <1>6, <2>4, <2>5
<1> QED
  BY <1>3, <1>4, <1>5, <1>6

(* The labels of a new issue. *)
LEMMA LabelsKeep == ASSUME ViewInv, LabelPage PROVE ViewInv'
<1>0. /\ pc = "labels" /\ cmd' = cmd /\ UNCHANGED World /\ page \in Nat \ {0} /\ last \in Nat
      /\ Parse(cmd) /\ status.code # "OK" /\ (status.code = "InvalidArgument" => BadTime(cmd))
  BY DEF LabelPage, reads, ViewInv, ViewShape
<1>1. \A found : resolve(found) => next("write", NoRecord) \/ fail("ErrFailedPrecondition")
  BY DEF resolve
<1>2. \/ fail("ErrProviderFailure") \/ fail("ErrFailedPrecondition") \/ next("write", NoRecord)
      \/ \E r : more(r, <<>>)
  BY <1>1 DEF LabelPage
<1>3. CASE fail("ErrProviderFailure") \/ fail("ErrFailedPrecondition")
  BY <1>0, <1>3, FailKeeps DEF Failures
<1>4. CASE next("write", NoRecord)
  BY <1>0, <1>4, NextKeeps
<1>5. CASE \E r : more(r, <<>>)
  <2>1. pc' = "labels" /\ page' = page + 1 /\ last' = last /\ status' = status
    BY <1>0, <1>5 DEF more
  <2>2. ViewShape'
    BY <1>0, <2>1 DEF ViewInv, ViewShape, World
  <2> QED
    BY <1>0, <2>1, <2>2, PlainKeeps
<1> QED
  BY <1>2, <1>3, <1>4, <1>5

(* A call that fails for what is outside of it. *)
LEMMA FailuresKeep == ASSUME CallShape, ViewInv, ReadFails \/ WriteRefused \/ WriteFails PROVE ViewInv'
<1>1. CASE ReadFails
  <2>1. PICK err \in {"Canceled", "DeadlineExceeded", "other"} :
          pc \in Reading /\ cmd' = cmd /\ UNCHANGED World /\ fail(classifyProviderError(err))
    BY <1>1 DEF ReadFails
  <2>2. classifyProviderError(err) \in Failures \ {"ErrInvalidArgument"}
    BY DEF CallShape, classifyProviderError, Failures
  <2> QED
    BY <2>1, <2>2, FailKeeps DEF Reading
<1>2. CASE WriteRefused
  <2>1. pc = "write" /\ cmd' = cmd /\ UNCHANGED World /\ fail(ctx)
    BY <1>2 DEF WriteRefused
  <2>2. ctx \in Failures \ {"ErrInvalidArgument"}
    BY <1>2 DEF CallShape, WriteRefused, Failures
  <2> QED
    BY <2>1, <2>2, FailKeeps
<1>3. CASE WriteFails
  <2>1. pc = "answer" /\ cmd' = cmd /\ UNCHANGED World /\ fail("ErrWriteOutcomeUnknown")
    BY <1>3 DEF WriteFails
  <2> QED
    BY <2>1, FailKeeps DEF Failures
<1> QED
  BY <1>1, <1>2, <1>3

(* The answer to a write. *)
LEMMA WrittenIs ==
  ASSUME NEW flaw, NEW w, w = written(flaw)
  PROVE  /\ w.op = op /\ w.flaw = flaw /\ w.comments = <<>>
         /\ op # "issue_comment" => w.has = R!projectIssue(R!allIssueFields)
<1>1. CASE op = "issue_comment"
  BY <1>1 DEF written, NoRecord
<1>2. CASE op # "issue_comment"
  BY <1>2 DEF written, viewed, NoRecord
<1> QED
  BY <1>1, <1>2

LEMMA AnswerKeeps == ASSUME ViewInv, Where, WriteAnswered PROVE ViewInv'
<1>0. /\ pc = "answer" /\ cmd' = cmd /\ UNCHANGED World /\ op = operation(cmd) /\ op \in R!Writes
  BY DEF WriteAnswered, op, Where
<1>1. PICK flaw \in OneOf(IF op = "issue_comment" THEN R!CommentFlaws ELSE R!IssueFlaws),
           urls \in {"ours", "ours_no_issue", "other"}, state \in {"open", "closed"} :
        validateAnswer(IF op = "issue_comment" THEN R!normalizeIssueMutationComment(urls, flaw)
                       ELSE R!normalizeIssue("issue", flaw) /\ (withState => state = target), flaw)
  BY DEF WriteAnswered
<1>2. \/ fail("ErrWriteOutcomeUnknown")
      \/ /\ Complete(written(flaw), effect)
         /\ op = "issue_comment" => R!normalizeComment(flaw)
         /\ op # "issue_comment" => R!normalizeIssue("issue", flaw)
  BY <1>1 DEF validateAnswer, R!normalizeIssueMutationComment
<1>3. CASE fail("ErrWriteOutcomeUnknown")
  BY <1>0, <1>3, FailKeeps DEF Failures
<1>4. CASE /\ Complete(written(flaw), effect)
           /\ op = "issue_comment" => R!normalizeComment(flaw)
           /\ op # "issue_comment" => R!normalizeIssue("issue", flaw)
  <2>1. flaw = R!NoFlaw
    BY <1>1, <1>4, FlawsLeft
  <2> DEFINE w == written(flaw)
  <2>2. /\ w.op = op /\ w.flaw = flaw /\ w.comments = <<>>
        /\ op # "issue_comment" => w.has = R!projectIssue(R!allIssueFields)
    BY WrittenIs
  <2> HIDE DEF w
  <2>3. Printable(cmd, w)
    <3>1. CASE op = "issue_comment"
      BY <1>0, <2>1, <2>2, <3>1, PlainPrints DEF Printable, render, renderCommentMutation
    <3>2. CASE op # "issue_comment"
      <4>1. operation(cmd) \in {"issue_create", "issue_edit", "issue_close", "issue_reopen"}
        BY <1>0, <3>2 DEF R!Writes
      <4>2. w.comments \in Seq(Nat) /\ Ascending(w.comments) /\ Len(w.comments) <= 1000
        BY <2>2, EmptyList
      <4> QED
        BY <1>0, <2>1, <2>2, <3>2, <4>1, <4>2, IssueRecordPrints
    <3> QED
      BY <3>1, <3>2
  <2>4. MissesNothing(cmd, items, reviews, changes, w)
    BY <1>0 DEF MissesNothing, R!Writes
  <2>5. Complete(w, effect)
    BY <1>4 DEF w
  <2> QED
    BY <1>0, <2>3, <2>4, <2>5, CompleteKeeps
<1> QED
  BY <1>2, <1>3, <1>4

(* The steps before the provider. *)
LEMMA ServiceKeeps == ASSUME ViewInv, TeaParses \/ Service \/ Send PROVE ViewInv'
<1>1. CASE TeaParses
  <2>1. /\ pc = "parse" /\ cmd' = cmd /\ UNCHANGED World /\ UNCHANGED <<status, page, last>>
        /\ pc' = "gone" \/ (pc' = "service" /\ Parse(cmd))
    BY <1>1 DEF TeaParses, goto
  <2>2. ViewShape' /\ status.code # "OK" /\ (status.code = "InvalidArgument" => BadTime(cmd))
    BY <2>1 DEF ViewInv, ViewShape, World
  <2> QED
    BY <2>1, <2>2, PlainKeeps
<1>2. CASE Service
  <2>1. pc = "service" /\ cmd' = cmd /\ UNCHANGED World /\ Parse(cmd)
    BY <1>2 DEF Service, ViewInv
  <2>2. \/ ~R!ValidateRequest(req) /\ fail("ErrInvalidArgument")
        \/ ~R!giteaSelector(req) /\ fail("ErrInvalidArgument")
        \/ fail("ErrDenied") \/ fail("ErrServiceUnavailable") \/ goto(firstStep)
    BY <1>2 DEF Service
  <2>3. ~R!ValidateRequest(req) \/ ~R!giteaSelector(req) => BadTime(cmd)
    BY <2>1, TeaRequestIsValid DEF req
  <2>4. CASE fail("ErrInvalidArgument") /\ BadTime(cmd)
    BY <2>1, <2>4, FailKeeps DEF Failures
  <2>5. CASE fail("ErrDenied") \/ fail("ErrServiceUnavailable")
    BY <2>1, <2>5, FailKeeps DEF Failures
  <2>6. CASE goto(firstStep)
    <3>1. firstStep \notin {"reviews", "timeline"}
      BY OperationOf DEF firstStep, R!Operations
    <3> QED
      BY <2>1, <2>6, <3>1, NextKeeps
  <2> QED
    BY <2>2, <2>3, <2>4, <2>5, <2>6
<1>3. CASE Send
  <2>1. pc = "write" /\ pc' = "answer" /\ cmd' = cmd /\ UNCHANGED World /\ UNCHANGED <<status, page, last>>
    BY <1>3 DEF Send
  <2>2. ViewShape' /\ Parse(cmd) /\ status.code # "OK" /\ (status.code = "InvalidArgument" => BadTime(cmd))
    BY <2>1 DEF ViewInv, ViewShape, World
  <2> QED
    BY <2>1, <2>2, PlainKeeps
<1> QED
  BY <1>1, <1>2, <1>3

(* A list to which others added what was not there from the beginning. *)
SameStable(s, t) ==
  /\ t \in Seq(Nat) /\ ToSet(t) \cap Stable = ToSet(s) \cap Stable
  /\ \A K \in Int : \A rec : Reached(s, K, rec, Stable) => Reached(t, K, rec, Stable)

LEMMA InsertedIs ==
  ASSUME NEW s \in Seq(Nat), NEW e \in Nat, e \notin Stable
  PROVE  SameStable(s, s) /\ SameStable(s, Append(s, e)) /\ SameStable(s, <<e>> \o s)
<1>1. SameStable(s, s)
  BY DEF SameStable
<1>2. \A K \in Int : \A rec : Reached(s, K, rec, Stable) =>
        Reached(Append(s, e), K, rec, Stable) /\ Reached(<<e>> \o s, K, rec, Stable)
  BY ReachedInsert
<1>3. Append(s, e) \in Seq(Nat) /\ ToSet(Append(s, e)) = ToSet(s) \cup {e}
  BY AppendIsSet
<1>4. <<e>> \in Seq(Nat) /\ ToSet(<<e>>) = {e}
  BY DEF ToSet
<1>5. <<e>> \o s \in Seq(Nat) /\ ToSet(<<e>> \o s) = {e} \cup ToSet(s)
  <2>1. <<e>> \o s \in Seq(Nat) /\ ToSet(<<e>> \o s) = ToSet(<<e>>) \cup ToSet(s)
    BY <1>4, ConcatIsSeq, ConcatIsSet, Zenon
  <2> QED
    BY <1>4, <2>1, Zenon
<1>6. SameStable(s, Append(s, e))
  BY <1>2, <1>3 DEF SameStable
<1>7. SameStable(s, <<e>> \o s)
  BY <1>2, <1>5 DEF SameStable
<1> QED
  BY <1>1, <1>6, <1>7

LEMMA ReadStays ==
  ASSUME NEW s, NEW t, SameStable(s, t), NEW rec, NEW chg, NEW new, new.deleted = chg.deleted,
         NEW pg \in Nat \ {0}, NEW lst, ReadSoFar(s, rec, chg, pg, lst)
  PROVE  ReadSoFar(t, rec, new, pg, lst)
<1>1. Before(pg, PageSize) \in Int
  BY PagesAreFew DEF ReadSoFar
<1> QED
  BY <1>1 DEF ReadSoFar, SameStable

(* Changes by others leave the call where it is. *)
LEMMA OthersKeep ==
  ASSUME ViewInv, pc \notin {"parse", "gone", "done"}, UNCHANGED Call,
         items' \in Seq(Nat), reviews' \in Seq(Nat),
         pc = "reviews" => ReviewsSoFar(cmd, items', reviews', changes', page, last, record),
         pc = "timeline" => TimelineSoFar(cmd, items', reviews', changes', page, last, record)
  PROVE  ViewInv'
<1>1. UNCHANGED <<cmd, pc, status, page, last, record>>
  BY DEF Call
<1>2. status.code # "OK"
  BY NotOver
<1>3. ViewShape'
  BY <1>1 DEF ViewInv, ViewShape
<1> QED
  BY <1>1, <1>2, <1>3 DEF ViewInv

LEMMA InsertsKeep == ASSUME CallShape, ViewInv, OtherInserts PROVE ViewInv'
<1>0. /\ pc \notin {"parse", "gone", "done"} /\ UNCHANGED Call /\ items \in Seq(Nat) /\ reviews \in Seq(Nat)
      /\ page \in Nat \ {0} /\ changes.inserted \in Nat
  BY DEF OtherInserts, byOthers, CallShape, ViewInv, ViewShape
<1>1. changes'.deleted = changes.deleted /\ changes'.inserted # 0
  BY DEF OtherInserts, CallShape
<1>2. PICK e \in Nat : e = 10 + changes.inserted
  BY <1>0
<1>3. e \notin Stable /\ 0 \notin Stable
  BY <1>0, <1>2 DEF Stable
<1>4. /\ items' \in {items, Append(items, e), Append(items, 0), <<e>> \o items}
      /\ reviews' \in {reviews, Append(reviews, e)}
  BY <1>2 DEF OtherInserts
<1>5. SameStable(items, items') /\ SameStable(reviews, reviews')
  <2>1. \A s \in Seq(Nat) : \A x \in Nat : x \notin Stable =>
          SameStable(s, s) /\ SameStable(s, Append(s, x)) /\ SameStable(s, <<x>> \o s)
    BY InsertedIs
  <2>2. 0 \in Nat
    OBVIOUS
  <2> QED
    BY <1>0, <1>3, <1>4, <2>1, <2>2, Zenon
<1>6. \A r : Counted(items', changes', r)
  BY <1>1 DEF Counted
<1>7. ASSUME pc = "reviews" PROVE ReviewsSoFar(cmd, items', reviews', changes', page, last, record)
  <2>1. ReviewsSoFar(cmd, items, reviews, changes, page, last, record)
    BY <1>7 DEF ViewInv
  <2>2. ReadSoFar(reviews', record.reviews, changes', page, last)
    BY <1>0, <1>1, <1>5, <2>1, ReadStays DEF ReviewsSoFar
  <2> QED
    BY <1>6, <2>1, <2>2 DEF ReviewsSoFar
<1>8. ASSUME pc = "timeline" PROVE TimelineSoFar(cmd, items', reviews', changes', page, last, record)
  <2>1. TimelineSoFar(cmd, items, reviews, changes, page, last, record)
    BY <1>8 DEF ViewInv
  <2>2. ReadSoFar(items', record.comments, changes', page, last)
    BY <1>0, <1>1, <1>5, <2>1, ReadStays DEF TimelineSoFar
  <2>3. ReviewsWhole(cmd, reviews', changes', record)
    BY <1>1, <1>5, <2>1 DEF TimelineSoFar, ReviewsWhole, SameStable
  <2> QED
    BY <1>6, <2>1, <2>2, <2>3 DEF TimelineSoFar
<1>9. items' \in Seq(Nat) /\ reviews' \in Seq(Nat)
  BY <1>5 DEF SameStable
<1> QED
  BY <1>0, <1>7, <1>8, <1>9, OthersKeep

LEMMA DeletesKeep == ASSUME CallShape, ViewInv, OtherDeletes PROVE ViewInv'
<1>0. /\ pc \notin {"parse", "gone", "done"} /\ UNCHANGED Call /\ items \in Seq(Nat) /\ reviews \in Seq(Nat)
      /\ changes.deleted \in Nat
  BY DEF OtherDeletes, byOthers, CallShape, ViewInv, ViewShape
<1>1. changes'.inserted = changes.inserted /\ changes'.deleted # 0
  BY DEF OtherDeletes, CallShape
<1>2. \A s \in Seq(Nat) : \A i \in DOMAIN s : RemoveAt(s, i) \in Seq(Nat) /\ ToSet(RemoveAt(s, i)) \subseteq ToSet(s)
  BY RemoveAtIs, RemoveAtKeeps, Zenon
<1>3. /\ items' = items \/ \E i \in DOMAIN items : items' = RemoveAt(items, i)
      /\ reviews' = reviews \/ \E i \in DOMAIN reviews : reviews' = RemoveAt(reviews, i)
  BY DEF OtherDeletes
<1>4. items' \in Seq(Nat) /\ reviews' \in Seq(Nat) /\ ToSet(items') \subseteq ToSet(items)
  BY <1>0, <1>2, <1>3, Zenon
<1>5. ASSUME NEW r, Counted(items, changes, r), r.count \in Nat PROVE Counted(items', changes', r)
  <2> SUFFICES ASSUME changes.inserted = 0
               PROVE  IsFiniteSet(AllComments(items', r)) /\ Cardinality(AllComments(items', r)) <= r.count
    BY <1>1 DEF Counted
  <2> DEFINE S == AllComments(items, r)
             T == AllComments(items', r)
  <2>1. IsFiniteSet(S) /\ Cardinality(S) <= r.count
    BY <1>5 DEF Counted
  <2>2. T \in SUBSET S
    BY <1>4 DEF AllComments
  <2> HIDE DEF S, T
  <2>3. IsFiniteSet(T) /\ Cardinality(T) <= Cardinality(S)
    BY <2>1, <2>2, FS_Subset
  <2>4. Cardinality(S) \in Nat /\ Cardinality(T) \in Nat
    BY <2>1, <2>3, FS_CardinalityType
  <2>5. Cardinality(T) <= r.count
    BY <1>5, <2>1, <2>3, <2>4
  <2> QED
    BY <2>3, <2>5 DEF T
<1>6. ASSUME NEW s, NEW t, NEW rec, ReadSoFar(s, rec, changes, page, last) PROVE ReadSoFar(t, rec, changes', page, last)
  BY <1>1, <1>6 DEF ReadSoFar
<1>7. ASSUME pc = "reviews" PROVE ReviewsSoFar(cmd, items', reviews', changes', page, last, record)
  <2>1. ReviewsSoFar(cmd, items, reviews, changes, page, last, record) /\ record.count \in Nat
    BY <1>7 DEF ViewInv, ReviewsSoFar, ViewRecord
  <2> QED
    BY <1>5, <1>6, <2>1 DEF ReviewsSoFar
<1>8. ASSUME pc = "timeline" PROVE TimelineSoFar(cmd, items', reviews', changes', page, last, record)
  <2>1. TimelineSoFar(cmd, items, reviews, changes, page, last, record) /\ record.count \in Nat
    BY <1>8 DEF ViewInv, TimelineSoFar, ViewRecord
  <2>2. ReviewsWhole(cmd, reviews', changes', record)
    BY <1>1, <2>1 DEF TimelineSoFar, ReviewsWhole
  <2> QED
    BY <1>5, <1>6, <2>1, <2>2 DEF TimelineSoFar
<1> QED
  BY <1>0, <1>4, <1>7, <1>8, OthersKeep

LEMMA ViewStep == CallInv /\ ViewInv /\ [Next]_vars => ViewInv'
<1> SUFFICES ASSUME CallInv, ViewInv, [Next]_vars PROVE ViewInv'
  OBVIOUS
<1>0. CallShape /\ Where
  BY DEF CallInv
<1>1. CASE TeaParses \/ Service \/ Send
  BY <1>1, ServiceKeeps
<1>2. CASE Deliver \/ ClientLeaves \/ Apply \/ Drop
  BY <1>2, QuietKeeps DEF Deliver, ClientLeaves, Apply, Drop, Call, World
<1>3. CASE ReadFails \/ WriteRefused \/ WriteFails
  BY <1>0, <1>3, FailuresKeep
<1>4. CASE GetRepository \/ GetIssue \/ GetPull
  BY <1>0, <1>4, RepositoryKeeps, GetIssueKeeps, GetPullKeeps
<1>5. CASE ListIssues \/ ListPulls
  BY <1>0, <1>5, ListIssuesKeeps, ListPullsKeeps
<1>6. CASE TimelinePage \/ ReviewPage \/ LabelPage
  BY <1>0, <1>6, TimelineKeeps, ReviewsKeeps, LabelsKeep
<1>7. CASE WriteAnswered
  BY <1>0, <1>7, AnswerKeeps
<1>8. CASE OtherState
  <2>1. changes'.deleted = changes.deleted /\ changes'.inserted = changes.inserted
    BY <1>0, <1>8 DEF OtherState, CallShape
  <2>2. UNCHANGED <<cmd, pc, status, items, reviews, page, last, record>>
    BY <1>8 DEF OtherState, byOthers, Call
  <2> QED
    BY <2>1, <2>2, QuietKeeps
<1>9. CASE OtherInserts \/ OtherDeletes
  BY <1>0, <1>9, InsertsKeep, DeletesKeep
<1>10. CASE UNCHANGED vars
  BY <1>10, QuietKeeps DEF vars
<1> QED
  BY <1>1, <1>2, <1>3, <1>4, <1>5, <1>6, <1>7, <1>8, <1>9, <1>10 DEF Next

(* At every step of a call of tea: what was read of a view is in order, is   *)
(* no longer than the client takes, and holds what stood before the page to  *)
(* come; no more comments than the issue counted can be found unless one was *)
(* added (loadOrdinaryComments, loadPullReviews, completeOrdinaryComments);  *)
(* and a call that ended with success holds what tea can print.              *)
THEOREM ViewCorrect == Spec => []ViewInv
<1> QED
  BY ViewInit, ViewStep, CallCorrect, PTL DEF Spec

(* A view with comments, or of a pull request with its reviews, misses what  *)
(* was there from beginning to end only after a deletion, and a comment only *)
(* when another was added as well; nothing is told twice.                    *)
THEOREM ViewsMissNothingAlways == Spec => []ViewsMissNothing
<1>1. ViewInv => ViewsMissNothing
  <2> SUFFICES ASSUME ViewInv, status.code = "OK", op \in {"issue_view", "pull_view"}
               PROVE  /\ withComments => \/ stableComments \subseteq ToSet(record.comments)
                                         \/ changes.deleted > 0 /\ changes.inserted > 0
                      /\ op = "pull_view" => \/ stableReviews \subseteq ToSet(record.reviews)
                                             \/ changes.deleted > 0
                      /\ IsInjective(record.comments) /\ IsInjective(record.reviews)
    BY DEF ViewsMissNothing
  <2>1. MissesNothing(cmd, items, reviews, changes, record)
    BY DEF ViewInv
  <2>2. stableComments = ToSet(items) \cap Stable /\ stableReviews = ToSet(reviews) \cap Stable
    BY DEF stableComments, stableReviews, Stable
  <2> QED
    BY <2>1, <2>2 DEF MissesNothing, op, withComments
<1> QED
  BY <1>1, ViewCorrect, PTL

(* What tea sends the service does not refuse as invalid, but for a time     *)
(* outside of timestamppb's range, and what the service answers with success *)
(* tea can print, but for the oddities the adapter lets through: for every   *)
(* command that tea parses.                                                  *)
THEOREM TeaAndServiceAgreeAlways == Spec => []TeaAndServiceAgree
<1>1. ViewInv => TeaAndServiceAgree
  BY DEF ViewInv, TeaAndServiceAgree, BadTime, Printable, Odd, op
<1> QED
  BY <1>1, ViewCorrect, PTL

-----------------------------------------------------------------------------
(***************************************************************************)
(* The HTTP client beneath the adapter: one request of ProviderHTTP, for   *)
(* any limit and any length of a response.                                 *)
(* The argument: what the reader was given and what is left of the budget  *)
(* are the limit together, and the one byte more that tells an excess is   *)
(* never given away (Counting); an operation's context that is canceled,   *)
(* and a body that is closed, before the caller gave up mean that the      *)
(* reading is over, so that no error is taken from them (Contexts); hence  *)
(* the error kept for the reader is true, and so is the outcome, but that   *)
(* a call without a response is said to be canceled (Kept); a body that was *)
(* collected without failing was read to its end (Presence).               *)
(***************************************************************************)
TrueEnd(end) ==
  /\ end # "closed"
  /\ end = "DeadlineExceeded" => shorter /\ caller = "DeadlineExceeded"
  /\ end = "ErrTimeout" => ~shorter /\ opErr = "DeadlineExceeded"

Contexts ==
  /\ shorter /\ opErr = "DeadlineExceeded" => caller = "DeadlineExceeded"
  /\ opErr = "Canceled" => caller = "Canceled" \/ terminal # "none" \/ reader = "ended"
  /\ closed \/ done => opErr # "live"

Counting ==
  /\ given + remaining = Limit
  /\ sent <= size
  /\ terminal = "ErrResponseLimit" => given = Limit /\ sent > Limit
  /\ terminal # "ErrResponseLimit" => sent = given
  /\ terminal = "EOF" => sent = size

Kept ==
  /\ readErr # "none" => readErr = terminal
  /\ reader = "reading" => terminal = "none"
  /\ TrueEnd(terminal) /\ TrueEnd(outcome)
  /\ terminal = "Canceled" => caller = "Canceled"
  /\ outcome = "Canceled" => caller = "Canceled" \/ response = "none"

Presence ==
  /\ collects /\ ~failed => collected = given /\ readErr \in {"none", "EOF"}
  /\ reader = "ended" /\ collects /\ watcher # "none" /\ ~failed => readErr = "EOF"

Fresh ==
  reader \in {"request", "waiting"} =>
    /\ given = 0 /\ collected = 0 /\ sent = 0 /\ readErr = "none" /\ terminal = "none"
    /\ watcher = "none" /\ response = "none" /\ outcome = "none"

HTTPInv == HTTPTypeOK /\ Contexts /\ Counting /\ Kept /\ Presence /\ Fresh
-----------------------------------------------------------------------------
(* The numbers, one by one. *)
LEMMA ByteCounts ==
  ASSUME LimitAssumption, HTTPTypeOK
  PROVE  /\ Limit \in Nat /\ Limit # 0 /\ MaxSize \in Nat
         /\ size \in Nat /\ sent \in Nat /\ given \in Nat /\ collected \in Nat /\ ask \in Nat /\ remaining \in Nat
         /\ size <= MaxSize /\ sent <= MaxSize /\ given <= MaxSize /\ collected <= MaxSize
         /\ remaining <= Limit /\ ask <= Limit + 1
<1>1. /\ size \in 0..MaxSize /\ sent \in 0..MaxSize /\ given \in 0..MaxSize /\ collected \in 0..MaxSize
      /\ ask \in 0..(Limit + 1) /\ remaining \in 0..Limit
  BY Zenon DEF HTTPTypeOK
<1> QED
  BY <1>1 DEF LimitAssumption

(* The invariant says of every end what EndIsTrue says. *)
LEMMA HTTPInvSuffices ==
  ASSUME LimitAssumption, HTTPInv PROVE EndIsTrue
<1>1. readErr = "EOF" => given = size /\ size <= Limit
  BY ByteCounts DEF HTTPInv, Counting, Kept
<1>2. readErr = "ErrResponseLimit" => given = Limit /\ size > Limit
  BY ByteCounts DEF HTTPInv, Counting, Kept
<1>3. /\ TrueEnd(readErr) /\ TrueEnd(outcome) /\ (readErr = "Canceled" => caller = "Canceled")
      /\ outcome = "Canceled" => caller = "Canceled" \/ response = "none"
  BY DEF HTTPInv, Kept, TrueEnd
<1>4. (reader = "ended" /\ collects /\ watcher # "none" /\ ~failed) => collected = size
  BY <1>1 DEF HTTPInv, Presence
<1> QED
  BY <1>1, <1>2, <1>3, <1>4 DEF EndIsTrue, TrueEnd

(* The invariant holds before the request is sent. *)
LEMMA HTTPBegins == ASSUME LimitAssumption, HTTPInit PROVE HTTPInv
<1>1. request \in Requests /\ {shorter, closed, done, failed, draining} \subseteq BOOLEAN
  BY Zenon DEF HTTPInit
<1>2. {size, sent, given, collected} \subseteq 0..MaxSize /\ ask \in 0..(Limit + 1) /\ remaining \in 0..Limit
  BY DEF HTTPInit, LimitAssumption
<1>3. HTTPTypeOK
  BY <1>1, <1>2 DEF HTTPInit, HTTPTypeOK, Errs, Ends
<1>4. Contexts /\ Kept /\ Presence /\ Fresh
  BY DEF HTTPInit, Contexts, Kept, TrueEnd, Presence, Fresh
<1>5. Counting
  BY DEF HTTPInit, Counting, LimitAssumption
<1> QED
  BY <1>3, <1>4, <1>5 DEF HTTPInv

(* A context ends, by itself or after its parent. *)
LEMMA ContextsKeep ==
  ASSUME HTTPInv, CallerCancels \/ CallerDeadline \/ Propagate \/ OperationExpires
  PROVE  HTTPInv'
<1>1. /\ UNCHANGED <<reader, outcome>> /\ UNCHANGED Request /\ UNCHANGED Body /\ UNCHANGED Reader
      /\ \/ caller = "live" /\ caller' \in {"Canceled", "DeadlineExceeded"} /\ opErr' = opErr
         \/ caller # "live" /\ opErr = "live" /\ opErr' = caller /\ caller' = caller
         \/ opErr = "live" /\ ~shorter /\ opErr' = "DeadlineExceeded" /\ caller' = caller
  BY DEF CallerCancels, CallerDeadline, Propagate, OperationExpires
<1>2. UNCHANGED <<reader, outcome, request, shorter, response, size, sent, ask, remaining, terminal, closed,
                  done, watcher, given, readErr, collected, failed, draining>>
  BY <1>1 DEF Request, Body, Reader
<1>3. {caller', opErr'} \subseteq Errs
  BY <1>1 DEF HTTPInv, HTTPTypeOK, Errs
<1>4. HTTPTypeOK'
  BY <1>2, <1>3 DEF HTTPInv, HTTPTypeOK
<1>5. Contexts'
  BY <1>1, <1>2 DEF HTTPInv, HTTPTypeOK, Errs, Contexts
<1>6. Kept'
  BY <1>1, <1>2 DEF HTTPInv, Kept, TrueEnd
<1>7. Counting' /\ Presence' /\ Fresh'
  BY <1>2 DEF HTTPInv, Counting, Presence, Fresh, collects
<1> QED
  BY <1>4, <1>5, <1>6, <1>7 DEF HTTPInv

(* What mapError makes of an error before the reading is over is true. *)
LEMMA MapErrorTrue ==
  ASSUME HTTPInv, terminal = "none", reader # "ended",
         NEW err \in {"EOF", "broken", "closed"}, err = "closed" => closed
  PROVE  /\ TrueEnd(mapError(opErr, err))
         /\ mapError(opErr, err) = "Canceled" => caller = "Canceled"
         /\ mapError(opErr, err) \in {"Canceled", "DeadlineExceeded", "ErrTimeout", "EOF", "broken"}
         /\ mapError(opErr, err) = "EOF" => err = "EOF"
BY DEF HTTPInv, HTTPTypeOK, Errs, Contexts, mapError, TrueEnd

(* The call is refused or begins, fails, or has a response. *)
LEMMA RoundTripKeeps == ASSUME HTTPInv, RoundTrip PROVE HTTPInv'
<1>1. /\ reader = "request"
      /\ (reader' = "waiting" /\ outcome' = outcome) \/ (reader' = "ended" /\ outcome' = "rejected")
      /\ UNCHANGED <<caller, opErr, request, shorter, response, size, sent, ask, remaining, terminal, closed,
                     done, watcher, given, readErr, collected, failed, draining>>
  BY DEF RoundTrip, ends, Request, Body, Reader
<1>2. HTTPTypeOK'
  BY <1>1 DEF HTTPInv, HTTPTypeOK
<1>3. Contexts' /\ Counting' /\ Presence' /\ Fresh'
  BY <1>1 DEF HTTPInv, Contexts, Counting, Presence, Fresh, collects
<1>4. Kept'
  BY <1>1 DEF HTTPInv, Kept, TrueEnd
<1> QED
  BY <1>2, <1>3, <1>4 DEF HTTPInv

(* canceled ends a live context and leaves another as it is. *)
LEMMA CanceledIs ==
  ASSUME HTTPInv
  PROVE  /\ canceled \in Errs /\ canceled # "live"
         /\ opErr # "live" => canceled = opErr
         /\ canceled = "DeadlineExceeded" <=> opErr = "DeadlineExceeded"
BY DEF HTTPInv, HTTPTypeOK, Errs, canceled

(* RoundTrip returns an error before any response; the operation has been   *)
(* canceled by then, and the deadline that ended it before is still known. *)
LEMMA RoundTripFailsKeeps == ASSUME HTTPInv, RoundTripFails PROVE HTTPInv'
<1>1. /\ reader = "waiting" /\ reader' = "ended" /\ opErr' = canceled
      /\ outcome' \in {mapError(canceled, "broken"), "no response"}
      /\ UNCHANGED <<caller, request, shorter, response, size, sent, ask, remaining, terminal, closed,
                     done, watcher, given, readErr, collected, failed, draining>>
  BY DEF RoundTripFails, ends, Request, Body, Reader
<1>2. terminal = "none" /\ watcher = "none" /\ response = "none"
  BY <1>1 DEF HTTPInv, Fresh
<1>3. /\ TrueEnd(mapError(canceled, "broken"))
      /\ mapError(canceled, "broken") \in {"Canceled", "DeadlineExceeded", "ErrTimeout"}
  BY CanceledIs DEF HTTPInv, HTTPTypeOK, Errs, Contexts, mapError, TrueEnd
<1>4. HTTPTypeOK'
  BY <1>1, <1>3, CanceledIs DEF HTTPInv, HTTPTypeOK, Ends
<1>5. Contexts' /\ Counting' /\ Presence' /\ Fresh'
  BY <1>1, <1>2, CanceledIs DEF HTTPInv, Contexts, Counting, Presence, Fresh, collects
<1>6. Kept'
  <2>1. opErr = "DeadlineExceeded" => opErr' = "DeadlineExceeded"
    BY <1>1, CanceledIs
  <2> QED
    BY <1>1, <1>2, <1>3, <2>1 DEF HTTPInv, Kept, TrueEnd
<1> QED
  BY <1>4, <1>5, <1>6 DEF HTTPInv

(* A response comes, with a body to read or without one. *)
LEMMA RespondsKeeps == ASSUME LimitAssumption, HTTPInv, Responds PROVE HTTPInv'
<1>1. /\ reader = "waiting" /\ response' \in {"2xx", "error", "redirect"}
      /\ \/ /\ reader' = "ended" /\ outcome' \in {"ErrRedirect", "response"}
            /\ opErr' = canceled /\ UNCHANGED <<size, watcher>>
         \/ /\ size' \in 0..MaxSize /\ watcher' = "waiting" /\ reader' = "idle" /\ UNCHANGED <<opErr, outcome>>
      /\ UNCHANGED <<request, caller, shorter, sent, ask, remaining, terminal, closed, done, given, readErr,
                     collected, failed, draining>>
  BY DEF Responds, ends, Reader
<1>2. given = 0 /\ collected = 0 /\ sent = 0 /\ readErr = "none" /\ terminal = "none" /\ watcher = "none"
  BY <1>1 DEF HTTPInv, Fresh
<1>3. size' \in 0..MaxSize
  BY <1>1 DEF HTTPInv, HTTPTypeOK
<1>4. HTTPTypeOK'
  BY <1>1, <1>3, CanceledIs DEF HTTPInv, HTTPTypeOK
<1>5. Contexts' /\ Presence' /\ Fresh'
  BY <1>1, <1>2, CanceledIs DEF HTTPInv, Contexts, Presence, Fresh
<1>6. Counting'
  BY <1>1, <1>2, <1>3 DEF HTTPInv, Counting, LimitAssumption
<1>7. Kept'
  <2>1. opErr = "DeadlineExceeded" => opErr' = "DeadlineExceeded"
    BY <1>1, CanceledIs
  <2>2. outcome = "none"
    BY <1>1 DEF HTTPInv, Fresh
  <2> QED
    BY <1>1, <1>2, <2>1, <2>2 DEF HTTPInv, Kept, TrueEnd
<1> QED
  BY <1>4, <1>5, <1>6, <1>7 DEF HTTPInv
-----------------------------------------------------------------------------
(* The collector takes what the reader is given: it always fits. *)
LEMMA CollectKeeps ==
  ASSUME LimitAssumption, HTTPInv, NEW n \in Nat, NEW err \in Ends, collect(n, err), UNCHANGED <<request, response>>,
         given' = given + n, given + n \in 0..MaxSize, given + n <= Limit, readErr = "none"
  PROVE  /\ failed' \in BOOLEAN /\ collected' \in 0..MaxSize
         /\ collects' /\ ~failed' => collected' = given' /\ err \in {"none", "EOF"}
<1>1. failed' \in BOOLEAN
  BY Zenon DEF collect
<1>2. collects' = collects
  BY DEF collects
<1>3. CASE collects /\ ~failed
  <2>1. collected = given
    BY <1>3 DEF HTTPInv, Presence
  <2>2. collected' = collected + n
    BY <1>3, <2>1 DEF collect
  <2>3. ~failed' => err \in {"none", "EOF"}
    BY <1>3 DEF collect
  <2> QED
    BY <1>1, <2>1, <2>2, <2>3
<1>4. CASE ~(collects /\ ~failed)
  <2>1. collected' = collected
    BY <1>4 DEF collect
  <2>2. collects /\ failed => failed'
    BY DEF collect
  <2> QED
    BY <1>1, <1>2, <1>4, <2>1, <2>2 DEF HTTPInv, HTTPTypeOK
<1> QED
  BY <1>3, <1>4

(* A kept error is handed on. *)
LEMMA ReadTerminalKeeps == ASSUME LimitAssumption, HTTPInv, ReadTerminal PROVE HTTPInv'
<1>1. /\ reader = "idle" /\ readErr = "none" /\ terminal # "none" /\ readErr' = terminal /\ collect(0, terminal)
      /\ UNCHANGED <<caller, opErr, reader, given, draining, outcome, request, shorter, response, size, sent, ask,
                     remaining, terminal, closed, done, watcher>>
  BY DEF ReadTerminal, Request, Body
<1>2. terminal \in Ends
  BY Zenon DEF HTTPInv, HTTPTypeOK
<1>a. given \in 0..MaxSize /\ given <= Limit /\ given + 0 = given
  BY ByteCounts DEF HTTPInv, Counting
<1>3. /\ failed' \in BOOLEAN /\ collected' \in 0..MaxSize
      /\ collects' /\ ~failed' => collected' = given' /\ terminal \in {"none", "EOF"}
  BY <1>1, <1>2, <1>a, CollectKeeps
<1>4. HTTPTypeOK'
  BY <1>1, <1>2, <1>3 DEF HTTPInv, HTTPTypeOK
<1>5. Contexts' /\ Counting' /\ Fresh'
  BY <1>1 DEF HTTPInv, Contexts, Counting, Fresh
<1>6. Presence'
  BY <1>1, <1>3 DEF Presence
<1>7. Kept'
  BY <1>1 DEF HTTPInv, Kept, TrueEnd
<1> QED
  BY <1>4, <1>5, <1>6, <1>7 DEF HTTPInv

(* A read of the underlying body begins; the reader decides to read on. *)
LEMMA ReadBeginsKeeps == ASSUME LimitAssumption, HTTPInv, ReadBegins PROVE HTTPInv'
<1>1. /\ reader = "idle" /\ readErr = "none" /\ terminal = "none" /\ reader' = "reading"
      /\ ask' \in IF remaining = 0 THEN {1} ELSE 1..(remaining + 1)
      /\ UNCHANGED <<caller, opErr, sent, remaining, terminal, closed, done, watcher, outcome,
                     request, shorter, response, size, given, readErr, collected, failed, draining>>
  BY DEF ReadBegins, Request, Reader
<1>2. ask' \in 0..(Limit + 1)
  BY <1>1, ByteCounts DEF HTTPInv
<1>3. HTTPTypeOK'
  BY <1>1, <1>2 DEF HTTPInv, HTTPTypeOK
<1>4. Contexts' /\ Counting' /\ Fresh' /\ Presence'
  BY <1>1 DEF HTTPInv, Contexts, Counting, Fresh, Presence, collects
<1>5. Kept'
  BY <1>1 DEF HTTPInv, Kept, TrueEnd
<1> QED
  BY <1>3, <1>4, <1>5 DEF HTTPInv

(* The watcher closes the body, the collector's Close begins to drain. *)
LEMMA AsideKeeps == ASSUME HTTPInv, Watcher \/ Drain PROVE HTTPInv'
<1>1. CASE Watcher
  <2>1. /\ watcher = "waiting" /\ (opErr # "live" \/ done) /\ watcher' = "gone" /\ closed' = TRUE
        /\ UNCHANGED <<caller, opErr, reader, sent, ask, remaining, terminal, done, outcome,
                       request, shorter, response, size, given, readErr, collected, failed, draining>>
    BY <1>1 DEF Watcher, watch, Request, Reader
  <2>2. HTTPTypeOK'
    BY <2>1 DEF HTTPInv, HTTPTypeOK
  <2>3. Contexts' /\ Counting' /\ Fresh' /\ Presence'
    BY <2>1 DEF HTTPInv, Contexts, Counting, Fresh, Presence, collects
  <2>4. Kept'
    BY <2>1 DEF HTTPInv, Kept, TrueEnd
  <2> QED
    BY <2>2, <2>3, <2>4 DEF HTTPInv
<1>2. CASE Drain
  <2>1. /\ draining' = TRUE
        /\ UNCHANGED <<caller, opErr, reader, given, readErr, collected, failed, outcome, request, shorter, response,
                       size, sent, ask, remaining, terminal, closed, done, watcher>>
    BY <1>2 DEF Drain, Request, Body
  <2>2. HTTPTypeOK'
    BY <2>1 DEF HTTPInv, HTTPTypeOK
  <2>3. Contexts' /\ Counting' /\ Fresh' /\ Presence'
    BY <2>1 DEF HTTPInv, Contexts, Counting, Fresh, Presence, collects
  <2>4. Kept'
    BY <2>1 DEF HTTPInv, Kept, TrueEnd
  <2> QED
    BY <2>2, <2>3, <2>4 DEF HTTPInv
<1> QED
  BY <1>1, <1>2
-----------------------------------------------------------------------------
(* The heart of it: n bytes and an error come back from the underlying     *)
(* read, and boundedResponseBody.Read makes of them what the reader is     *)
(* told now and what is kept. *)
LEMMA ReturnsKeeps ==
  ASSUME LimitAssumption, HTTPInv, reader = "reading", reader' = "idle", ask' = 0,
         NEW n \in Nat, NEW err \in {"none", "EOF", "broken", "closed"},
         sent + n <= size, sent' = sent + n, err = "EOF" => sent' = size,
         err = "closed" => closed, returns(n, err),
         UNCHANGED <<caller, watcher, draining, outcome, request, shorter, response, size>>
  PROVE  HTTPInv'
<1> DEFINE inBudget == IF n > remaining THEN remaining ELSE n
           end == IF n > inBudget THEN "ErrResponseLimit"
                  ELSE IF err # "none" THEN mapError(opErr, err) ELSE "none"
           now == IF n > inBudget \/ inBudget = 0 THEN end ELSE "none"
<1>1. /\ remaining' = remaining - inBudget /\ terminal' = end
      /\ IF end = "none" THEN unfinished ELSE finish
      /\ given' = given + inBudget /\ readErr' = now /\ collect(inBudget, now)
  BY DEF returns
<1>2. terminal = "none" /\ readErr = "none" /\ sent = given
  BY DEF HTTPInv, Kept, Counting
<1>3. /\ TrueEnd(end) /\ end \in Ends /\ (end = "Canceled" => caller = "Canceled")
      /\ end = "EOF" => err = "EOF" /\ n = inBudget
      /\ end = "ErrResponseLimit" <=> n > inBudget
  <2>1. CASE err # "none"
    <3>1. /\ TrueEnd(mapError(opErr, err))
          /\ mapError(opErr, err) = "Canceled" => caller = "Canceled"
          /\ mapError(opErr, err) \in {"Canceled", "DeadlineExceeded", "ErrTimeout", "EOF", "broken"}
          /\ mapError(opErr, err) = "EOF" => err = "EOF"
      BY <1>2, <2>1, MapErrorTrue
    <3>2. n <= inBudget => n = inBudget
      BY ByteCounts DEF HTTPInv
    <3>3. n > inBudget \/ n <= inBudget
      BY ByteCounts DEF HTTPInv
    <3> QED
      BY <2>1, <3>1, <3>2, <3>3 DEF Ends, TrueEnd
  <2>2. CASE err = "none"
    BY <2>2 DEF Ends, TrueEnd
  <2> QED
    BY <2>1, <2>2
<1>4. /\ inBudget \in Nat /\ inBudget <= n /\ inBudget <= remaining
      /\ n > inBudget => inBudget = remaining
      /\ given + inBudget \in 0..MaxSize /\ given + inBudget <= Limit
  BY <1>2, ByteCounts DEF HTTPInv, Counting
<1>5. now \in Ends
  BY <1>3 DEF Ends
<1>6. /\ failed' \in BOOLEAN /\ collected' \in 0..MaxSize
      /\ collects' /\ ~failed' => collected' = given' /\ now \in {"none", "EOF"}
  BY <1>1, <1>2, <1>4, <1>5, CollectKeeps
<1>7. \/ opErr' = opErr /\ closed' = closed /\ done' = done /\ end = "none"
      \/ opErr' = canceled /\ closed' = TRUE /\ done' = TRUE /\ end # "none"
  BY <1>1 DEF unfinished, finish
<1> HIDE DEF inBudget, end, now
<1>8. HTTPTypeOK'
  <2>1. {closed', done', failed', draining', shorter'} \subseteq BOOLEAN /\ opErr' \in Errs
    BY <1>6, <1>7, CanceledIs DEF HTTPInv, HTTPTypeOK
  <2>2. {size', sent', given', collected'} \subseteq 0..MaxSize /\ ask' \in 0..(Limit + 1) /\ remaining' \in 0..Limit
    <3>1. size' \in 0..MaxSize /\ sent' \in 0..MaxSize /\ ask' \in 0..(Limit + 1)
      BY ByteCounts DEF HTTPInv
    <3>2. given' \in 0..MaxSize /\ remaining' \in 0..Limit
      BY <1>1, <1>4, ByteCounts DEF HTTPInv
    <3> QED
      BY <1>6, <3>1, <3>2
  <2> QED
    BY <1>1, <1>3, <1>5, <2>1, <2>2 DEF HTTPInv, HTTPTypeOK
<1>9. Contexts'
  BY <1>1, <1>2, <1>7, CanceledIs DEF HTTPInv, Contexts
<1>10. Counting'
  <2>1. given' + remaining' = Limit /\ sent' <= size'
    BY <1>1, <1>4, ByteCounts DEF HTTPInv, Counting
  <2>2. CASE n > inBudget
    BY <1>1, <1>2, <1>3, <1>4, <2>1, <2>2, ByteCounts DEF HTTPInv, Counting
  <2>3. CASE n = inBudget
    BY <1>1, <1>2, <1>3, <1>4, <2>1, <2>3, ByteCounts DEF HTTPInv, Counting
  <2> QED
    BY <1>4, <2>2, <2>3
<1>11. Kept'
  <2>1. readErr' # "none" => readErr' = terminal'
    BY <1>1 DEF now
  <2>2. opErr = "DeadlineExceeded" => opErr' = "DeadlineExceeded"
    BY <1>7, CanceledIs
  <2> QED
    BY <1>1, <1>3, <2>1, <2>2 DEF HTTPInv, Kept, TrueEnd
<1>12. Presence' /\ Fresh'
  BY <1>1, <1>6 DEF Presence, Fresh
<1> QED
  BY <1>8, <1>9, <1>10, <1>11, <1>12 DEF HTTPInv

(* A pending read returns, of an open body or of a closed one. *)
LEMMA ReadKeeps ==
  ASSUME LimitAssumption, HTTPInv, ReadReturns \/ ReadOfClosed PROVE HTTPInv'
<1>1. CASE ReadReturns
  <2>1. PICK n \in 0..ask, err \in {"none", "EOF", "broken"} :
          /\ sent + n <= size /\ sent' = sent + n
          /\ err = "EOF" => sent' = size
          /\ returns(n, err)
    BY <1>1 DEF ReadReturns
  <2>2. n \in Nat
    BY ByteCounts DEF HTTPInv
  <2>3. /\ reader = "reading" /\ reader' = "idle" /\ ask' = 0
        /\ UNCHANGED <<caller, watcher, draining, outcome, request, shorter, response, size>>
    BY <1>1 DEF ReadReturns, Request
  <2> QED
    BY <2>1, <2>2, <2>3, ReturnsKeeps
<1>2. CASE ReadOfClosed
  <2>1. sent + 0 <= size /\ sent' = sent + 0
    BY <1>2, ByteCounts DEF ReadOfClosed, HTTPInv, Counting
  <2>2. /\ reader = "reading" /\ reader' = "idle" /\ ask' = 0 /\ closed /\ returns(0, "closed")
        /\ UNCHANGED <<caller, watcher, draining, outcome, request, shorter, response, size>>
    BY <1>2 DEF ReadOfClosed, Request
  <2> QED
    BY <2>1, <2>2, ReturnsKeeps
<1> QED
  BY <1>1, <1>2

(* The body is closed by whoever has read it. *)
LEMMA CloseKeeps == ASSUME LimitAssumption, HTTPInv, Close PROVE HTTPInv'
<1>1. PICK closeErr \in BOOLEAN :
        /\ failed' = (failed \/ (collects /\ closeErr))
        /\ ends(IF readErr \notin {"none", "EOF"} THEN readErr
                ELSE IF closeErr /\ response # "2xx" THEN "broken"
                ELSE IF response = "redirect" THEN "ErrRedirect" ELSE "response")
  BY DEF Close
<1>2. /\ reader = "idle" /\ reader' = "ended" /\ (readErr = "none" => ~collects)
      /\ done' = TRUE /\ closed' = TRUE /\ opErr' = canceled
      /\ UNCHANGED <<caller, sent, ask, remaining, terminal, watcher, given, readErr, collected, draining,
                     request, shorter, response, size>>
  BY <1>1 DEF Close, ends, finish, Request
<1>3. \/ outcome' = readErr /\ readErr \notin {"none", "EOF"}
      \/ outcome' \in {"broken", "ErrRedirect", "response"}
  BY <1>1 DEF ends
<1>4. failed' \in BOOLEAN /\ (~failed' => ~failed)
  BY <1>1, Zenon
<1>5. outcome' \in (Ends \ {"EOF"}) \union {"ErrRedirect", "response"}
  BY <1>3 DEF HTTPInv, HTTPTypeOK, Ends
<1>6. HTTPTypeOK'
  BY <1>2, <1>4, <1>5, CanceledIs DEF HTTPInv, HTTPTypeOK
<1>7. Contexts' /\ Counting' /\ Fresh'
  BY <1>2, CanceledIs DEF HTTPInv, Contexts, Counting, Fresh
<1>8. Presence'
  BY <1>2, <1>4 DEF HTTPInv, Presence, collects
<1>9. Kept'
  <2>1. opErr = "DeadlineExceeded" => opErr' = "DeadlineExceeded"
    BY <1>2, CanceledIs
  <2>2. TrueEnd(terminal)'
    BY <1>2, <2>1 DEF HTTPInv, Kept, TrueEnd
  <2>3. outcome' = readErr /\ readErr # "none" => outcome' = terminal'
    BY <1>2 DEF HTTPInv, Kept
  <2>4. TrueEnd(outcome)' /\ (outcome' = "Canceled" => caller' = "Canceled")
    BY <1>2, <1>3, <2>2, <2>3 DEF TrueEnd, HTTPInv, Kept
  <2> QED
    BY <1>2, <2>2, <2>4 DEF HTTPInv, Kept
<1> QED
  BY <1>6, <1>7, <1>8, <1>9 DEF HTTPInv

(* Every step keeps the invariant. *)
LEMMA HTTPStep == ASSUME LimitAssumption, HTTPInv, [HTTPNext]_httpVars PROVE HTTPInv'
<1>1. CASE UNCHANGED httpVars
  <2>1. HTTPTypeOK'
    BY <1>1 DEF httpVars, HTTPInv, HTTPTypeOK
  <2>2. Contexts' /\ Counting' /\ Presence' /\ Fresh'
    BY <1>1 DEF httpVars, HTTPInv, Contexts, Counting, Presence, Fresh, collects
  <2>3. Kept'
    BY <1>1 DEF httpVars, HTTPInv, Kept, TrueEnd
  <2> QED
    BY <2>1, <2>2, <2>3 DEF HTTPInv
<1> QED
  BY <1>1, ContextsKeep, RoundTripKeeps, RoundTripFailsKeeps, RespondsKeeps, ReadTerminalKeeps,
     ReadBeginsKeeps, ReadKeeps, AsideKeeps, CloseKeeps DEF HTTPNext

(* The invariant holds throughout. *)
THEOREM HTTPInvariant == HTTPSpec => []HTTPInv
<1>1. HTTPInit => HTTPInv
  BY LimitAssumption, HTTPBegins
<1>2. HTTPInv /\ [HTTPNext]_httpVars => HTTPInv'
  BY LimitAssumption, HTTPStep
<1> QED
  BY <1>1, <1>2, PTL DEF HTTPSpec

(* For every limit and every length of a response, however the timeouts,   *)
(* the caller, the watcher and the provider interleave: the end of a body  *)
(* that the reader is told is the true one, and so is the end of the       *)
(* request, but that one without any response is said to be canceled. *)
THEOREM EndIsAlwaysTrue == HTTPSpec => []EndIsTrue
<1>1. HTTPInv => EndIsTrue
  BY LimitAssumption, HTTPInvSuffices
<1> QED
  BY <1>1, HTTPInvariant, PTL
=============================================================================
