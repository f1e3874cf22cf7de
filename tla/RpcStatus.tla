----------------------------- MODULE RpcStatus -----------------------------
(***************************************************************************)
(* internal/rpcstatus: how the service turns a failure into the status the  *)
(* caller sees, and how the tea client recognises the few statuses it       *)
(* trusts.  An error is the set of sentinels errors.Is finds in its chain   *)
(* (an error may wrap several, so the order of the cases matters), and the  *)
(* code of the gRPC status it already is, if it is one.                     *)
(***************************************************************************)
EXTENDS Naturals, Sequences, FiniteSetsExt

(* A status, and one with an ErrorInfo of the broker's own.  A message is a  *)
(* name for the fixed text of the code.                                     *)
Status(code, message) == [code |-> code, message |-> message, reason |-> "none"]

Detailed(code, message, reason) ==
  [code |-> code, message |-> message, reason |-> reason]

(* The cases of mapDomainError, in the order of the switch. *)
DomainStatus ==
  << <<{"ErrUnauthenticated"}, Status("Unauthenticated", "authentication_required")>>,
     <<{"ErrDenied"}, Status("PermissionDenied", "permission_denied")>>,
     <<{"ErrInvalidArgument", "ErrRefPolicy", "ErrInvalidCommand"},
       Status("InvalidArgument", "invalid_request")>>,
     <<{"ErrUnsupported"}, Status("Unimplemented", "unsupported_operation")>>,
     <<{"ErrRepositoryUnavailable"}, Status("Unavailable", "repository_unavailable")>>,
     <<{"ErrNotFound"}, Status("NotFound", "not_found")>>,
     <<{"ErrIssueKind"}, Detailed("FailedPrecondition",
       "index_is_a_pull_request", "GITEA_ISSUE_KIND_PULL_REQUEST")>>,
     <<{"ErrPullKind"}, Detailed("FailedPrecondition",
       "index_is_an_issue", "GITEA_PULL_KIND_ISSUE")>>,
     <<{"ErrFailedPrecondition"}, Status("FailedPrecondition", "operation_precondition_failed")>>,
     <<{"ErrWriteOutcomeUnknown"}, Detailed("Unavailable",
       "write_outcome_unknown", "GITEA_WRITE_OUTCOME_UNKNOWN")>>,
     <<{"ErrEditPartial"}, Detailed("FailedPrecondition",
       "issue_edit_partially_applied", "GITEA_EDIT_PARTIAL")>>,
     <<{"DeadlineExceeded"}, Status("DeadlineExceeded", "deadline_exceeded")>>,
     <<{"Canceled"}, Status("Canceled", "request_canceled")>>,
     <<{"ErrResourceExhausted", "ErrInputLimit", "ErrOutputLimit"},
       Status("ResourceExhausted", "request_limit_exceeded")>>,
     <<{"ErrServiceUnavailable"}, Status("Unavailable", "service_unavailable")>>,
     <<{"ErrProviderFailure"}, Status("Unavailable", "provider_failure")>>,
     <<{"ErrStartFailed", "ErrCommandFailed", "ErrCleanupFailed"},
       Status("Unavailable", "provider_failure")>> >>

(* mapDomainError: the first case one of whose sentinels the error wraps; 0 *)
(* when there is none.                                                      *)
mapDomainError(is) ==
  LET hits == {i \in DOMAIN DomainStatus : DomainStatus[i][1] \cap is # {}}
  IN  IF hits = {} THEN 0 ELSE Min(hits)

(* canonical: a status that is already one keeps its code, never its text;  *)
(* a code outside the list becomes Internal.                                *)
canonical(code) ==
  CASE code = "Unauthenticated"    -> Status(code, "authentication_required")
    [] code = "PermissionDenied"   -> Status(code, "permission_denied")
    [] code = "InvalidArgument"    -> Status(code, "invalid_request")
    [] code = "Unimplemented"      -> Status(code, "unsupported_operation")
    [] code = "Unavailable"        -> Status(code, "service_unavailable")
    [] code = "NotFound"           -> Status(code, "not_found")
    [] code = "FailedPrecondition" -> Status(code, "operation_precondition_failed")
    [] code = "DeadlineExceeded"   -> Status(code, "deadline_exceeded")
    [] code = "ResourceExhausted"  -> Status(code, "request_limit_exceeded")
    [] code = "Canceled"           -> Status(code, "request_canceled")
    [] OTHER                       -> Status("Internal", "internal_failure")

OKStatus == Status("OK", "")

(* Error(err): is = {} and status = "none" is an error of another package    *)
(* (a malformed provider response), which becomes Internal.                 *)
Error(err) ==
  LET i == mapDomainError(err.is)
  IN  IF i # 0 THEN DomainStatus[i][2]
      ELSE IF err.status # "none" THEN canonical(err.status) ELSE Status("Internal", "internal_failure")

Is(sentinels) == [is |-> sentinels, status |-> "none"]

(* The client's recognisers: the exact tuple of code, message and detail.   *)
IsGiteaEditPartial(st)         == st = Error(Is({"ErrEditPartial"}))
IsGiteaWriteOutcomeUnknown(st) == st = Error(Is({"ErrWriteOutcomeUnknown"}))
IsPullKindStatus(st)           == st = Error(Is({"ErrPullKind"}))
IsIssueKindStatus(st) ==
  st.code = "FailedPrecondition" /\ st.reason = "GITEA_ISSUE_KIND_PULL_REQUEST"
=============================================================================
