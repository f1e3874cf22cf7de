---------------------------- MODULE ProviderHTTP ----------------------------
(***************************************************************************)
(* One request of the Gitea SDK through the provider's HTTP client:          *)
(* internal/providerhttp, and the two transports internal/provider/gitea     *)
(* puts around it.  The SDK's goroutine reads the response; a watcher        *)
(* goroutine closes the body when the operation's context ends; the caller's *)
(* context and the operation's own timeout end when they like; the provider  *)
(* (external) answers, stalls or breaks off at any byte.  Bytes are counted. *)
(***************************************************************************)
EXTENDS Integers

CONSTANTS Limit,     \* Options.MaxResponseBytes
          MaxSize    \* the longest response body tried

ASSUME LimitAssumption == Limit \in Nat \ {0} /\ MaxSize \in Nat

(* --- Authorities --------------------------------------------------------- *)
(* A host in lower case, in upper case or with a character that is not       *)
(* ASCII; port -1 is none.                                                   *)
Hosts == {"", "gitea", "GITEA", "other", "nonASCII"}
Ports == {-1, 0, 443, 8443, 65536}
Invalid == [host |-> "", port |-> 0]

normalizeAuthority(host, port) ==
  LET number == IF port = -1 THEN 443 ELSE port
  IN  IF host \in {"", "nonASCII"} \/ number \notin 1..65535 THEN Invalid
      ELSE [host |-> IF host = "GITEA" THEN "gitea" ELSE host, port |-> number]

expected == normalizeAuthority("gitea", -1)

Requests == [https : BOOLEAN, user : BOOLEAN, host : Hosts, port : Ports,
             authorized : BOOLEAN, presence : BOOLEAN]

requestAuthority(r) ==
  IF ~r.https \/ r.user THEN Invalid ELSE normalizeAuthority(r.host, r.port)

(* authenticatedTransport.RoundTrip, up to the call of its base. *)
admits(r) == requestAuthority(r) = expected /\ ~r.authorized

VARIABLES request,                 \* the request
          caller, shorter,         \* Err of its context; does its deadline come first
          opErr,                   \* Err of the operation's context
          reader,                  \* where the goroutine is that reads
          response, size, sent,    \* the response; bytes of its body sent so far
          ask,                     \* the length of the pending read
          remaining, terminal,     \* boundedResponseBody
          closed, done, watcher,   \* the underlying body; done; the goroutine
          given, readErr,          \* bytes and error the reader was given
          collected, failed,       \* pullPresenceCollector
          draining, outcome        \* presenceReadCloser.Close; how the request ended

httpVars == <<request, caller, shorter, opErr, reader, response, size, sent, ask, remaining,
              terminal, closed, done, watcher, given, readErr, collected, failed, draining,
              outcome>>

Request == <<request, shorter, response, size>>
Body == <<sent, ask, remaining, terminal, closed, done, watcher>>
Reader == <<given, readErr, collected, failed, draining>>

Errs == {"live", "Canceled", "DeadlineExceeded"}
Ends == {"none", "EOF", "ErrResponseLimit", "ErrTimeout", "Canceled", "DeadlineExceeded",
         "broken", "closed"}

HTTPTypeOK ==
  /\ request \in Requests /\ {shorter, closed, done, failed, draining} \subseteq BOOLEAN
  /\ {caller, opErr} \subseteq Errs /\ {terminal, readErr} \subseteq Ends
  /\ reader \in {"request", "waiting", "idle", "reading", "ended"}
  /\ response \in {"none", "2xx", "error", "redirect"} /\ watcher \in {"none", "waiting", "gone"}
  /\ {size, sent, given, collected} \subseteq 0..MaxSize
  /\ ask \in 0..(Limit + 1) /\ remaining \in 0..Limit
  /\ outcome \in (Ends \ {"EOF"}) \union {"rejected", "no response", "response", "ErrRedirect"}

HTTPInit ==
  /\ request \in Requests /\ shorter \in BOOLEAN
  /\ caller = "live" /\ opErr = "live" /\ reader = "request" /\ response = "none"
  /\ size = 0 /\ sent = 0 /\ ask = 0 /\ remaining = Limit /\ terminal = "none" /\ closed = FALSE /\ done = FALSE
  /\ watcher = "none" /\ given = 0 /\ readErr = "none" /\ collected = 0 /\ failed = FALSE
  /\ draining = FALSE /\ outcome = "none"

(* --- Contexts ------------------------------------------------------------ *)
(* A context ends once.  Its child learns of it a moment later.              *)
CallerCancels ==
  /\ caller = "live" /\ caller' = "Canceled"
  /\ UNCHANGED <<opErr, reader, outcome>> /\ UNCHANGED Request /\ UNCHANGED Body /\ UNCHANGED Reader

CallerDeadline ==
  /\ caller = "live" /\ caller' = "DeadlineExceeded"
  /\ UNCHANGED <<opErr, reader, outcome>> /\ UNCHANGED Request /\ UNCHANGED Body /\ UNCHANGED Reader

operating == reader \notin {"request", "ended"} \/ watcher = "waiting"

Propagate ==
  /\ operating /\ caller # "live" /\ opErr = "live" /\ opErr' = caller
  /\ UNCHANGED <<caller, reader, outcome>> /\ UNCHANGED Request /\ UNCHANGED Body /\ UNCHANGED Reader

(* The operation has a timer of its own unless the caller's comes first.     *)
OperationExpires ==
  /\ operating /\ opErr = "live" /\ ~shorter /\ opErr' = "DeadlineExceeded"
  /\ UNCHANGED <<caller, reader, outcome>> /\ UNCHANGED Request /\ UNCHANGED Body /\ UNCHANGED Reader

(* mapOperationError and boundedResponseBody.mapError; op is what the         *)
(* operation's context says when they look at it.                            *)
mapError(op, err) ==
  IF caller # "live" /\ (shorter \/ caller = "Canceled") THEN caller
  ELSE IF op = "DeadlineExceeded" THEN "ErrTimeout"
  ELSE IF op # "live" THEN op
  ELSE err

canceled == IF opErr = "live" THEN "Canceled" ELSE opErr

(* --- The request --------------------------------------------------------- *)
ends(how) == reader' = "ended" /\ outcome' = how

RoundTrip ==
  /\ reader = "request"
  /\ IF admits(request) THEN reader' = "waiting" /\ UNCHANGED outcome ELSE ends("rejected")
  /\ UNCHANGED <<caller, opErr>> /\ UNCHANGED Request /\ UNCHANGED Body /\ UNCHANGED Reader

(* The operation is canceled first and the error mapped then, so that an      *)
(* error of the transport itself becomes the cancellation's.                 *)
RoundTripFails ==
  /\ reader = "waiting" /\ opErr' = canceled
  /\ \/ ends(mapError(canceled, "broken")) \/ ends("no response")
  /\ UNCHANGED caller /\ UNCHANGED Request /\ UNCHANGED Body /\ UNCHANGED Reader

(* boundedTransport.RoundTrip: the watcher belongs to a body.  A redirect      *)
(* without one is refused by CheckRedirect all the same.                     *)
Responds ==
  /\ reader = "waiting" /\ response' \in {"2xx", "error", "redirect"}
  /\ \/ /\ ends(IF response' = "redirect" THEN "ErrRedirect" ELSE "response")
        /\ opErr' = canceled /\ UNCHANGED <<size, watcher>>
     \/ /\ size' \in 0..MaxSize /\ watcher' = "waiting" /\ reader' = "idle"
        /\ UNCHANGED <<opErr, outcome>>
  /\ UNCHANGED <<request, caller, shorter, sent, ask, remaining, terminal, closed, done>>
  /\ UNCHANGED Reader

(* --- The body ------------------------------------------------------------ *)
collects == request.presence /\ response = "2xx"

(* presenceReadCloser.Read *)
collect(n, err) ==
  LET fits == collected + n <= Limit
  IN  /\ collected' = IF collects /\ ~failed /\ fits THEN collected + n ELSE collected
      /\ failed' = (failed \/ (collects /\ (~fits \/ err \notin {"none", "EOF"})))

(* The reader has to go on to the end, or may stop wherever it likes.        *)
mustRead == response # "2xx" \/ draining

(* boundedResponseBody.Read, up to the read of the underlying body, into a    *)
(* buffer of any length; one byte more than is left tells an excess.         *)
ReadTerminal ==
  /\ reader = "idle" /\ readErr = "none" /\ terminal # "none"
  /\ readErr' = terminal /\ collect(0, terminal)
  /\ UNCHANGED <<caller, opErr, reader, given, draining, outcome>>
  /\ UNCHANGED Request /\ UNCHANGED Body

ReadBegins ==
  /\ reader = "idle" /\ readErr = "none" /\ terminal = "none"
  /\ reader' = "reading" /\ ask' \in IF remaining = 0 THEN {1} ELSE 1..(remaining + 1)
  /\ UNCHANGED <<caller, opErr, sent, remaining, terminal, closed, done, watcher, outcome>>
  /\ UNCHANGED Request /\ UNCHANGED Reader

(* finish: done is closed, the context is canceled, the body is closed.      *)
finish == done' = TRUE /\ opErr' = canceled /\ closed' = TRUE
unfinished == UNCHANGED <<done, opErr, closed>>

\* mutant: what is read beyond the limit is cut off as the end of the body
returnsCut(n, err) ==
  LET inBudget == IF n > remaining THEN remaining ELSE n
      end == IF n > inBudget THEN "EOF"
             ELSE IF err # "none" THEN mapError(opErr, err) ELSE "none"
      now == IF n > inBudget \/ inBudget = 0 THEN end ELSE "none"
  IN  /\ remaining' = remaining - inBudget /\ terminal' = end
      /\ IF end = "none" THEN unfinished ELSE finish
      /\ given' = given + inBudget /\ readErr' = now /\ collect(inBudget, now)

(* boundedResponseBody.Read, after it: an error that comes with data is kept  *)
(* for the next read, an excess is told at once.                             *)
returns(n, err) ==
  LET inBudget == IF n > remaining THEN remaining ELSE n
      end == IF n > inBudget THEN "ErrResponseLimit"
             ELSE IF err # "none" THEN mapError(opErr, err) ELSE "none"
      now == IF n > inBudget \/ inBudget = 0 THEN end ELSE "none"
  IN  /\ remaining' = remaining - inBudget /\ terminal' = end
      /\ IF end = "none" THEN unfinished ELSE finish
      /\ given' = given + inBudget /\ readErr' = now /\ collect(inBudget, now)

(* The underlying read gives bytes, with or without the end, or an error.    *)
ReadReturns ==
  /\ reader = "reading" /\ reader' = "idle" /\ ask' = 0
  /\ \E n \in 0..ask, err \in {"none", "EOF", "broken"} :
       /\ ~closed /\ sent + n <= size /\ sent' = sent + n
       /\ err = "none" => n > 0
       /\ err = "EOF" => sent' = size
       /\ returns(n, err)
  /\ UNCHANGED <<caller, watcher, draining, outcome>> /\ UNCHANGED Request

ReadOfClosed ==
  /\ reader = "reading" /\ closed /\ reader' = "idle" /\ ask' = 0 /\ returns(0, "closed")
  /\ UNCHANGED <<caller, sent, watcher, draining, outcome>> /\ UNCHANGED Request

\* mutant: nobody waits for the end of the operation's context
noWatch == watcher = "waiting" /\ done /\ watcher' = "gone" /\ UNCHANGED closed

(* newBoundedResponseBody's goroutine; where done is closed the body is, too. *)
watch == watcher = "waiting" /\ (opErr # "live" \/ done) /\ watcher' = "gone" /\ closed' = TRUE

Watcher ==
  /\ watch
  /\ UNCHANGED <<caller, opErr, reader, sent, ask, remaining, terminal, done, outcome>>
  /\ UNCHANGED Request /\ UNCHANGED Reader

(* presenceReadCloser.Close reads to the end first. *)
Drain ==
  /\ reader = "idle" /\ collects /\ readErr = "none" /\ ~draining /\ draining' = TRUE
  /\ UNCHANGED <<caller, opErr, reader, given, readErr, collected, failed, outcome>>
  /\ UNCHANGED Request /\ UNCHANGED Body

(* errorResponseRedactingTransport and the SDK close what they have read;     *)
(* Close may fail on its own.                                                *)
Close ==
  /\ reader = "idle" /\ (readErr = "none" => ~mustRead /\ ~collects) /\ finish
  /\ \E closeErr \in BOOLEAN :
       /\ failed' = (failed \/ (collects /\ closeErr))
       /\ ends(IF readErr \notin {"none", "EOF"} THEN readErr
               ELSE IF closeErr /\ response # "2xx" THEN "broken"
               ELSE IF response = "redirect" THEN "ErrRedirect" ELSE "response")
  /\ UNCHANGED <<caller, sent, ask, remaining, terminal, watcher>>
  /\ UNCHANGED <<given, readErr, collected, draining>> /\ UNCHANGED Request

HTTPNext ==
  \/ CallerCancels \/ CallerDeadline \/ Propagate \/ OperationExpires
  \/ RoundTrip \/ RoundTripFails \/ Responds
  \/ ReadTerminal \/ ReadBegins \/ ReadReturns \/ ReadOfClosed \/ Watcher \/ Drain \/ Close

HTTPSpec == HTTPInit /\ [][HTTPNext]_httpVars

(* Timers run out, goroutines that can run do, and net/http ends a call or a  *)
(* read whose context has ended; the provider and the SDK owe nothing.       *)
HTTPFairSpec ==
  /\ HTTPSpec
  /\ WF_httpVars(Propagate) /\ WF_httpVars(OperationExpires)
  /\ WF_httpVars(CallerDeadline /\ shorter) /\ WF_httpVars(RoundTripFails /\ opErr # "live")
  /\ WF_httpVars(Watcher) /\ WF_httpVars(ReadOfClosed)

(* --- Properties ---------------------------------------------------------- *)
(* What the reader is told of the end of a body is why it ended: EOF means    *)
(* all of it, and no more than the limit; the limit was exceeded; the caller  *)
(* gave up, or the operation's own timeout passed.  That the watcher closed   *)
(* the body under a pending read never shows, and presence values are taken  *)
(* only from a whole body.  A request is told to be canceled only when its    *)
(* caller gave up or it had no response at all (see CancellationIsTheCallers).*)
EndIsTrue ==
  /\ readErr = "EOF" => given = size /\ size <= Limit
  /\ readErr = "ErrResponseLimit" => given = Limit /\ size > Limit
  /\ \A end \in {readErr, outcome} :
       /\ end # "closed"
       /\ end = "DeadlineExceeded" => shorter /\ caller = "DeadlineExceeded"
       /\ end = "ErrTimeout" => ~shorter /\ opErr = "DeadlineExceeded"
  /\ readErr = "Canceled" => caller = "Canceled"
  /\ outcome = "Canceled" => caller = "Canceled" \/ response = "none"
  /\ (reader = "ended" /\ collects /\ watcher # "none" /\ ~failed) => collected = size

(* What the design of the transport promises: timeout and cancellation are    *)
(* classes of their own, apart from a failure of TLS or of the connection,   *)
(* and context.Canceled is the caller's.  The code does not keep it:         *)
(* boundedTransport.RoundTrip cancels the operation before it maps the error.*)
CancellationIsTheCallers == outcome = "Canceled" => caller = "Canceled"

(* Whatever the provider and the reader do or fail to do, a request that was  *)
(* sent does not stay open: the call returns, a pending read ends, the body   *)
(* is closed and the goroutine that watches it is gone.                      *)
NothingStaysOpen ==
  /\ reader = "waiting" ~> reader # "waiting"
  /\ reader = "reading" ~> reader # "reading"
  /\ watcher = "waiting" ~> (closed /\ watcher = "gone")
=============================================================================
