----------------------------- MODULE GitSession -----------------------------
(***************************************************************************)
(* One upload-pack or receive-pack RPC (internal/gitservice): the handler, *)
(* its copier goroutines, the idle watcher and the send pump, between a    *)
(* client that may stall, misbehave or go away and a provider process that *)
(* may exit at any time.  The process itself is module Runner; here it is  *)
(* what the session sees of it: it runs, it exits by itself, or it is      *)
(* killed because its context ended, its time is up or a limit was passed. *)
(*                                                                         *)
(* An error is one of a few values; the process context keeps the first    *)
(* one given to cancel.  A timer may fire whenever it is running.          *)
(***************************************************************************)
EXTENDS Naturals, Sequences

CONSTANTS MaxFrames,  \* data frames the client may send
          MaxChunks   \* chunks the provider may write to stdout

ASSUME SessionAssumption == MaxFrames \in Nat /\ MaxChunks \in Nat

VARIABLES
  kind,        \* which of the two RPCs this is
  grants,      \* Git capabilities the policy grants for the selected repository
  pc,          \* where the handler is
  opErr,       \* the error the handler is about to act on
  streamDone,  \* stream.Context() has ended
  cause,       \* context.Cause(processContext)
  watch,       \* the idle watcher is running
  proc,        \* the provider process
  stdin,       \* its stdin is open
  frames,      \* data frames the client has yet to send
  verdict,     \* result of ParseReceivePack
  forwarded,   \* what has been written to the provider's stdin
  input,       \* the goroutine of uploadPack that copies the client's data
  inputErr,    \* its result, or that of writeValidatedInput
  output,      \* the goroutine that copies the provider's stdout
  outputErr,   \* its result
  chunks,      \* chunks the provider has yet to write
  pump,        \* sendPump.run
  request,     \* who made the request the pump holds
  sent,        \* frames that stream.Send has delivered
  deliveryErr, \* result of SendFinal
  status,      \* what the RPC returned
  audit        \* audit events written: accepted, then the outcome

procVars == <<proc, stdin, chunks>>
inVars == <<frames, verdict, forwarded, input, inputErr>>
outVars == <<output, outputErr>>
pumpVars == <<pump, request, sent>>
endVars == <<deliveryErr, status>>
vars == <<kind, grants, pc, opErr, streamDone, cause, watch, procVars, inVars, outVars, pumpVars, endVars, audit>>

None == "none"
Errors == {"canceled", "deadline", "frame", "limit", "denied", "policy", "invalid",
           "io", "start", "command", "unavailable"}

Categories == {"completed", "permission_denied", "invalid_request", "limit_exceeded",
               "deadline_exceeded", "provider_failure", "unavailable"}

TypeOK ==
  /\ kind \in {"upload", "receive"} /\ grants \subseteq {"read", "write"}
  /\ pc \in {"first", "authorize", "accept", "start", "advertise", "adv_offer", "adv_await", "parse",
             "stop", "prefix", "copy", "join", "select", "drain", "wait",
             "final", "final_offer", "final_await", "outcome", "returned"}
  /\ deliveryErr \in Errors \cup {None} /\ status \in {None, "ok", "unavailable"}
  /\ opErr \in Errors \cup {None} /\ cause \in Errors \cup {None}
  /\ inputErr \in Errors \cup {None} /\ outputErr \in Errors \cup {None}
  /\ streamDone \in BOOLEAN /\ watch \in BOOLEAN /\ stdin \in BOOLEAN
  /\ proc \in {None, "running", "exit_0", "exit_1", "killed", "timed_out", "over_limit"}
  /\ frames \in 0..MaxFrames /\ chunks \in 0..MaxChunks
  /\ verdict \in {None, "accepted", "rejected"}
  /\ forwarded \in Seq({"prefix", "data"})
  /\ input \in {None, "recv", "write", "done"}
  /\ output \in {None, "read", "offer", "await", "done"}
  /\ pump \in {"idle", "taken", "checked", "sending", "stopped"}
  /\ request \in {None, "advertisement", "output", "terminal"}
  /\ sent \in Seq({"advertisement", "output"} \cup Categories)
  /\ audit \in Seq({"accepted", "completed", "denied", "cancelled", "failed"})

Init ==
  /\ kind \in {"upload", "receive"} /\ grants \in SUBSET {"read", "write"}
  /\ pc = "first" /\ opErr = None /\ streamDone = FALSE /\ cause = None /\ watch = FALSE
  /\ proc = None /\ stdin = FALSE /\ chunks = MaxChunks
  /\ frames \in 0..MaxFrames /\ verdict = None /\ forwarded = <<>> /\ input = None /\ inputErr = None
  /\ output = None /\ outputErr = None
  /\ pump = "idle" /\ request = None /\ sent = <<>> /\ audit = <<>>
  /\ deliveryErr = None /\ status = None

-----------------------------------------------------------------------------
(* Errors.                                                                 *)

firstError(a, b) == IF a # None THEN a ELSE b
cancel(err) == cause' = firstError(cause, err)

terminalCategory(err) ==
  CASE err = None -> "completed"
    [] err = "denied" -> "permission_denied"
    [] err \in {"frame", "invalid", "policy"} -> "invalid_request"
    [] err = "limit" -> "limit_exceeded"
    [] err = "deadline" -> "deadline_exceeded"
    [] err \in {"start", "command"} -> "provider_failure"
    [] OTHER -> "unavailable"

Outcome(err) ==
  CASE err = None -> "completed"
    [] err \in {"denied", "policy"} -> "denied"
    [] err \in {"canceled", "deadline"} -> "cancelled"
    [] OTHER -> "failed"

(* What Process.Wait reports, and the exit code made into an error.        *)
waitErr ==
  CASE proc = "exit_0" -> None
    [] proc = "exit_1" -> "command"
    [] proc = "timed_out" -> "deadline"
    [] proc = "over_limit" -> "limit"
    [] OTHER -> "canceled"
Ended == proc \notin {None, "running"}
(* The limit that ended the process is reported to whoever passed it.      *)
LimitError == IF proc = "over_limit" THEN {"limit"} ELSE {}

Finish(err) == pc' = "final" /\ opErr' = err

-----------------------------------------------------------------------------
(* The client and the provider.                                            *)

(* The client goes away, or its deadline passes: the contexts end.         *)
StreamEnds ==
  /\ ~streamDone
  /\ streamDone' = TRUE
  /\ IF proc = None THEN cause' = cause ELSE \E e \in {"canceled", "deadline"} : cancel(e)
  /\ UNCHANGED <<kind, grants, pc, opErr, watch, procVars, inVars, outVars, pumpVars, audit, endVars>>

(* watchIdle: no activity for IdleStreamTimeout, or the context is done.   *)
IdleTimeout ==
  /\ watch
  /\ watch' = FALSE
  /\ cancel("deadline")
  /\ UNCHANGED <<kind, grants, pc, opErr, streamDone, procVars, inVars, outVars, pumpVars, audit, endVars>>

(* The provider exits by itself; "exit_1" stands for every failure that    *)
(* Process.Wait reports as the command's.                                  *)
ProviderExits ==
  /\ proc = "running"
  /\ proc' \in {"exit_0", "exit_1"}
  /\ UNCHANGED <<kind, grants, pc, opErr, streamDone, cause, watch, stdin, chunks, inVars, outVars, pumpVars, audit, endVars>>

(* The runner ends the process: it passed a limit, or its time is up, or   *)
(* the process context ended.                                              *)
RunnerStops(how) ==
  /\ proc = "running"
  /\ how = "killed" => cause # None
  /\ proc' = how
  /\ UNCHANGED <<kind, grants, pc, opErr, streamDone, cause, watch, stdin, chunks, inVars, outVars, pumpVars, audit, endVars>>

-----------------------------------------------------------------------------
(* The send pump: sole owner of stream.Send.  A requester offers a frame,  *)
(* and once the pump has taken it awaits the result; it gives up when its  *)
(* context ends, and the pump may then still be sending.                   *)

Offering(r) == CASE r = "advertisement" -> pc = "adv_offer"
                 [] r = "output" -> output = "offer"
                 [] OTHER -> pc = "final_offer"
Awaiting(r) == CASE r = "advertisement" -> pc = "adv_await"
                 [] r = "output" -> output = "await"
                 [] OTHER -> pc = "final_await"
(* request.ctx has ended: processContext, or for the terminal the delivery *)
(* context, which also ends when SendFinal returns.                        *)
RequestEnded(r) ==
  IF r = "terminal" THEN streamDone \/ pc \notin {"final_offer", "final_await"} ELSE cause # None

(* What a requester does with the result of its Send.                      *)
Resume(r, err) ==
  CASE r = "advertisement" ->
         /\ pc' = IF err = None THEN "parse" ELSE "stop"
         /\ opErr' = err
         /\ UNCHANGED <<outVars, cause, endVars>>
    [] r = "output" ->
         /\ output' = IF err = None THEN "read" ELSE "done"
         /\ outputErr' = err
         /\ cancel(err)
         /\ UNCHANGED <<pc, opErr, endVars>>
    [] OTHER ->
         /\ pc' = "outcome" /\ deliveryErr' = err
         /\ UNCHANGED <<opErr, outVars, cause, status>>

(* The errors for which a requester leaves the selects of Send: those of   *)
(* its context, those of a pump that has stopped.  The delivery context of *)
(* the terminal has a timeout too.                                         *)
SendErrors(r) ==
  (IF r = "terminal" THEN {"deadline"} \cup (IF streamDone THEN {"canceled"} ELSE {})
   ELSE IF cause # None THEN {cause} ELSE {})
  \cup (IF pump # "stopped" THEN {} ELSE {"io"} \cup (IF streamDone THEN {"canceled"} ELSE {}))

SendAbandoned(r) ==
  /\ Offering(r) \/ Awaiting(r)
  /\ \E err \in SendErrors(r) : Resume(r, err)
  /\ UNCHANGED <<kind, grants, streamDone, watch, procVars, inVars, pumpVars, audit>>

PumpTakes(r) ==
  /\ pump = "idle" /\ Offering(r)
  /\ pump' = "taken" /\ request' = r
  /\ IF r = "output" THEN output' = "await" /\ UNCHANGED pc
     ELSE pc' = (IF r = "terminal" THEN "final_await" ELSE "adv_await") /\ UNCHANGED output
  /\ UNCHANGED <<kind, grants, opErr, streamDone, cause, watch, procVars, inVars, outputErr, sent, audit, endVars>>

(* The result channel of a request has room for its one result, so that    *)
(* the pump never waits for a requester that has left.                     *)
Unbuffered(r) == Awaiting(r)   \* mutant: make(chan error)
ResultTaken(r) == TRUE

(* The pump hands a result to the requester, which may yet prefer an error *)
(* of its context: the select takes either.                                *)
Reply(err) ==
  /\ ResultTaken(request)
  /\ request' = None
  /\ \/ ~Awaiting(request) /\ UNCHANGED <<pc, opErr, outVars, cause, endVars>>
     \/ Awaiting(request) /\ \E e \in {err} \cup SendErrors(request) : Resume(request, e)

PumpSkips ==
  /\ pump = "taken" /\ RequestEnded(request)
  /\ pump' = "idle"
  /\ Reply(IF request = "terminal" THEN "canceled" ELSE cause)
  /\ UNCHANGED <<kind, grants, streamDone, watch, procVars, inVars, sent, audit>>

(* The request's context is checked before the pump marks itself busy.     *)
PumpChecks ==
  /\ pump = "taken" /\ ~RequestEnded(request)
  /\ pump' = "checked"
  /\ UNCHANGED <<kind, grants, pc, opErr, streamDone, cause, watch, procVars, inVars, outVars, request, sent, audit, endVars>>

PumpSends ==
  /\ pump = "checked"
  /\ pump' = "sending"
  /\ UNCHANGED <<kind, grants, pc, opErr, streamDone, cause, watch, procVars, inVars, outVars, request, sent, audit, endVars>>

Frame(r) == IF r = "terminal" THEN terminalCategory(opErr) ELSE r

SendSucceeds ==
  /\ pump = "sending" /\ ~streamDone
  /\ sent' = Append(sent, Frame(request))
  /\ pump' = "idle"
  /\ Reply(None)
  /\ UNCHANGED <<kind, grants, streamDone, watch, procVars, inVars, audit>>

SendFails ==
  /\ pump = "sending"
  /\ pump' = "stopped"
  /\ Reply("io")
  /\ UNCHANGED <<kind, grants, streamDone, watch, procVars, inVars, sent, audit>>

PumpStops ==
  /\ pump = "idle" /\ streamDone
  /\ pump' = "stopped"
  /\ UNCHANGED <<kind, grants, pc, opErr, streamDone, cause, watch, procVars, inVars, outVars, request, sent, audit, endVars>>

-----------------------------------------------------------------------------
(* The goroutine that relays stdout (copyOutputToFrames).                  *)

ReadOutput ==
  /\ output = "read" /\ chunks > 0
  /\ chunks' = chunks - 1
  /\ output' = "offer"
  /\ UNCHANGED <<kind, grants, pc, opErr, streamDone, cause, watch, proc, stdin, inVars, outputErr, pumpVars, audit, endVars>>

(* The provider has closed its stdout, while it runs or by ending; or the  *)
(* output limit was passed.                                                *)
OutputEnds ==
  /\ output = "read"
  /\ output' = "done"
  /\ outputErr' \in {None} \cup LimitError
  /\ cancel(outputErr')
  /\ UNCHANGED <<kind, grants, pc, opErr, streamDone, watch, procVars, inVars, pumpVars, audit, endVars>>

-----------------------------------------------------------------------------
(* The handler up to the start of the provider process.                    *)

ReceiveFirst ==
  /\ pc = "first"
  /\ \/ pc' = "authorize" /\ UNCHANGED opErr
     \/ \E e \in {"frame", "deadline", "io"} : Finish(e)
     \/ streamDone /\ Finish("canceled")
  /\ UNCHANGED <<kind, grants, streamDone, cause, watch, procVars, inVars, outVars, pumpVars, audit, endVars>>

WriteOnly == IF kind = "upload" THEN {"read"} ELSE {"write"}   \* mutant: receiveCommand asks for one
Needed == IF kind = "upload" THEN {"read"} ELSE {"read", "write"}

command ==
  /\ pc = "authorize"
  /\ \/ Needed \subseteq grants /\ pc' = "accept" /\ UNCHANGED opErr
     \/ ~(Needed \subseteq grants) /\ Finish("denied")
     \/ Finish("invalid")
  /\ UNCHANGED <<kind, grants, streamDone, cause, watch, procVars, inVars, outVars, pumpVars, audit, endVars>>

StartAnyway == pc' = "start" /\ UNCHANGED opErr   \* mutant: the sink's refusal is ignored
AuditRefused == Finish("unavailable")

writeAccepted ==
  /\ pc = "accept"
  /\ \/ audit' = Append(audit, "accepted") /\ pc' = "start" /\ UNCHANGED opErr
     \/ AuditRefused /\ UNCHANGED audit
  /\ UNCHANGED <<kind, grants, streamDone, cause, watch, procVars, inVars, outVars, pumpVars, endVars>>

StartFails ==
  /\ pc = "start"
  /\ \E err \in {"start", "canceled", "deadline"} : Finish(err) /\ cancel(err)
  /\ UNCHANGED <<kind, grants, streamDone, watch, procVars, inVars, outVars, pumpVars, audit, endVars>>

Start ==
  /\ pc = "start"
  /\ proc' = "running" /\ stdin' = TRUE /\ watch' = TRUE
  /\ cause' \in IF streamDone THEN {"canceled", "deadline"} ELSE {None}
  /\ IF kind = "upload" THEN pc' = "select" /\ input' = "recv" /\ output' = "read"
                        ELSE pc' = "advertise" /\ UNCHANGED <<input, output>>
  /\ UNCHANGED <<kind, grants, opErr, streamDone, chunks, frames, verdict, forwarded, inputErr, outputErr, pumpVars, audit, endVars>>

-----------------------------------------------------------------------------
(* receivePack: the advertisement, the validated prefix, the rest.         *)

ParseAdvertisement ==
  /\ pc = "advertise"
  /\ \/ pc' = "adv_offer" /\ UNCHANGED <<opErr, cause>>
     \/ /\ \E err \in {"io"} \cup LimitError : cancel(err)
        /\ pc' = "stop" /\ opErr' = cause'
  /\ UNCHANGED <<kind, grants, streamDone, watch, procVars, inVars, outVars, pumpVars, audit, endVars>>

(* An error of clientDataReader.Read.                                      *)
ReadErrors == {"frame", "limit", "deadline", "io"} \cup (IF streamDone THEN {"canceled"} ELSE {})
classifyReceiveRequestError(err) == IF err = "io" THEN "invalid" ELSE err

(* ParseReceivePack (module ReceiveParser) takes what it needs of the      *)
(* client's frames and accepts the prefix or not.                          *)
ParseReceivePack ==
  /\ pc = "parse"
  /\ \/ /\ frames > 0
        /\ frames' \in 0..frames   \* the last frame taken may hold pack data too
        /\ verdict' = "accepted" /\ pc' = "prefix" /\ output' = "read"
        /\ UNCHANGED opErr
     \/ /\ frames' \in 0..frames
        /\ verdict' = "rejected" /\ pc' = "stop"
        /\ \E e \in ReadErrors \cup {"policy"} : opErr' = classifyReceiveRequestError(e)
        /\ UNCHANGED output
  /\ UNCHANGED <<kind, grants, streamDone, cause, watch, procVars, forwarded, input, inputErr, outputErr, pumpVars, audit, endVars>>

(* stopProcess: cancel, close stdin, discard stdout; then Wait.            *)
stopProcess ==
  /\ pc = "stop"
  /\ cancel(opErr)
  /\ stdin' = FALSE
  /\ pc' = "wait"
  /\ UNCHANGED <<kind, grants, opErr, streamDone, watch, proc, chunks, inVars, outVars, pumpVars, audit, endVars>>

(* The end of writeValidatedInput: stdin is closed whatever happened.      *)
InputResult(err) ==
  /\ inputErr' = err
  /\ cancel(err)
  /\ stdin' = FALSE
  /\ pc' = "join"

WriteAccepted == proc = "running" /\ stdin
writePrefix ==
  /\ pc = "prefix"
  /\ \/ /\ WriteAccepted
        /\ forwarded' = Append(forwarded, "prefix")
        /\ pc' = "copy"
        /\ UNCHANGED <<cause, stdin, inputErr>>
     \/ /\ \E err \in {"io"} \cup LimitError : InputResult(err)
        /\ UNCHANGED forwarded
  /\ UNCHANGED <<kind, grants, opErr, streamDone, watch, proc, chunks, frames, verdict, input, outVars, pumpVars, audit, endVars>>

copyRemaining ==
  /\ pc = "copy"
  /\ \/ /\ frames > 0 /\ WriteAccepted
        /\ frames' = frames - 1
        /\ forwarded' = Append(forwarded, "data")
        /\ UNCHANGED <<pc, cause, stdin, inputErr>>
     \/ /\ frames > 0
        /\ frames' = frames - 1
        /\ \E err \in {"io"} \cup LimitError : InputResult(err)
        /\ UNCHANGED forwarded
     \/ /\ frames = 0   \* the client has closed its side
        /\ InputResult(None)
        /\ UNCHANGED <<frames, forwarded>>
     \/ /\ \E e \in ReadErrors : InputResult(e)
        /\ UNCHANGED <<frames, forwarded>>
  /\ UNCHANGED <<kind, grants, opErr, streamDone, watch, proc, chunks, verdict, input, outVars, pumpVars, audit, endVars>>

joinOutput ==
  /\ pc = "join" /\ output = "done"
  /\ pc' = "wait"
  /\ UNCHANGED <<kind, grants, opErr, streamDone, cause, watch, procVars, inVars, outVars, pumpVars, audit, endVars>>

-----------------------------------------------------------------------------
(* uploadPack: client data is copied by a goroutine that waits without a   *)
(* timeout (copyFramesToInput); the handler waits for whatever comes first.*)

RecvInput ==
  /\ input = "recv"
  /\ \/ /\ frames > 0
        /\ frames' = frames - 1 /\ input' = "write"
        /\ UNCHANGED <<stdin, inputErr, cause>>
     \/ /\ frames = 0   \* the client has closed its side
        /\ input' = "done" /\ stdin' = FALSE /\ UNCHANGED <<frames, inputErr, cause>>
     \/ \E e \in {"frame", "limit", "io"} :
          /\ input' = "done" /\ stdin' = FALSE /\ inputErr' = e /\ cancel(e) /\ UNCHANGED frames
  /\ UNCHANGED <<kind, grants, pc, opErr, streamDone, watch, proc, chunks, verdict, forwarded, outVars, pumpVars, audit, endVars>>

WriteInput ==
  /\ input = "write"
  /\ \/ /\ WriteAccepted
        /\ forwarded' = Append(forwarded, "data") /\ input' = "recv"
        /\ UNCHANGED <<stdin, inputErr, cause>>
     \/ /\ input' = "done" /\ stdin' = FALSE /\ UNCHANGED forwarded
        /\ inputErr' \in {"io"} \cup LimitError
        /\ cancel(inputErr')
  /\ UNCHANGED <<kind, grants, pc, opErr, streamDone, watch, proc, chunks, frames, verdict, outVars, pumpVars, audit, endVars>>

(* The select of uploadPack: each of its three events ends the loop.  When *)
(* the output is complete first, the provider's stdin is closed.           *)
SelectFirst ==
  /\ pc = "select"
  /\ \/ input = "done" /\ pc' = "drain" /\ UNCHANGED stdin
     \/ output = "done" /\ pc' = "drain" /\ stdin' = FALSE
     \/ cause # None /\ pc' = "drain" /\ UNCHANGED stdin
  /\ UNCHANGED <<kind, grants, opErr, streamDone, cause, watch, proc, chunks, inVars, outVars, pumpVars, audit, endVars>>

drainOutput ==
  /\ pc = "drain" /\ output = "done"
  /\ pc' = "wait"
  /\ UNCHANGED <<kind, grants, opErr, streamDone, cause, watch, procVars, inVars, outVars, pumpVars, audit, endVars>>

-----------------------------------------------------------------------------
(* Process.Wait, the terminal frame and the terminal audit event.          *)

ProviderOnly ==   \* mutant: what the copiers saw is ignored
  IF verdict # "accepted" /\ kind = "receive" THEN opErr ELSE waitErr
OperationError ==
  IF verdict # "accepted" /\ kind = "receive" THEN opErr   \* stopProcess was called
  ELSE IF proc = "timed_out" THEN "deadline"
  ELSE IF kind = "receive" THEN firstError(inputErr, firstError(cause, firstError(outputErr, waitErr)))
  ELSE firstError(cause, firstError(inputErr, firstError(outputErr, waitErr)))

Reaped == Ended

Wait ==
  /\ pc = "wait" /\ Reaped
  /\ Finish(OperationError)
  /\ cancel(IF opErr' = None THEN "canceled" ELSE opErr')
  /\ UNCHANGED <<kind, grants, streamDone, watch, procVars, inVars, outVars, pumpVars, audit, endVars>>

(* finish: SendFinal does not queue behind a Send that is under way.       *)
SendFinal ==
  /\ pc = "final"
  /\ IF pump = "sending" THEN pc' = "outcome" /\ deliveryErr' = "io"
                         ELSE pc' = "final_offer" /\ UNCHANGED deliveryErr
  /\ UNCHANGED <<kind, grants, opErr, streamDone, cause, watch, procVars, inVars, outVars, pumpVars, audit, status>>

AuditFailureOnly(delivery, recorded) == IF recorded THEN "ok" ELSE "unavailable"   \* mutant
finishDeliveryError(delivery, recorded) ==
  IF delivery = None /\ recorded THEN "ok" ELSE "unavailable"

(* The terminal audit event, which the sink may refuse; then the handler   *)
(* returns, and gRPC ends the context of the stream.                       *)
writeOutcome ==
  /\ pc = "outcome"
  /\ pc' = "returned" /\ streamDone' = TRUE
  /\ \E recorded \in BOOLEAN :
       /\ audit' = IF recorded THEN Append(audit, Outcome(opErr)) ELSE audit
       /\ status' = finishDeliveryError(deliveryErr, recorded)
  /\ UNCHANGED <<kind, grants, opErr, cause, watch, procVars, inVars, outVars, pumpVars, deliveryErr>>

-----------------------------------------------------------------------------
Requesters == {"advertisement", "output", "terminal"}
PumpStep == PumpSkips \/ PumpChecks \/ PumpSends \/ PumpStops \/ \E r \in Requesters : PumpTakes(r)
Handler ==
  \/ ReceiveFirst \/ command \/ writeAccepted \/ StartFails \/ Start
  \/ ParseAdvertisement \/ ParseReceivePack \/ stopProcess
  \/ writePrefix \/ copyRemaining \/ joinOutput \/ SelectFirst \/ drainOutput
  \/ Wait \/ SendFinal \/ writeOutcome
Stops == {"killed", "timed_out", "over_limit"}

Next ==
  \/ Handler \/ RecvInput \/ WriteInput \/ ReadOutput \/ OutputEnds
  \/ PumpStep \/ SendSucceeds \/ SendFails \/ \E r \in Requesters : SendAbandoned(r)
  \/ StreamEnds \/ IdleTimeout \/ ProviderExits \/ \E how \in Stops : RunnerStops(how)
Spec == Init /\ [][Next]_vars

(* Fairness: the broker's own goroutines run, timers fire, the runner      *)
(* kills a process whose context ended, and a Send or Recv on a stream     *)
(* that has ended returns.  Nothing is assumed of the client or the        *)
(* provider: both may stall for ever, and then a write to the provider or  *)
(* a Send to the client does not return.                                   *)
HandlerRuns ==
  \/ ReceiveFirst \/ command \/ writeAccepted \/ StartFails \/ Start
  \/ (Ended /\ ParseAdvertisement) \/ ParseReceivePack \/ stopProcess
  \/ (Ended /\ writePrefix) \/ (Ended /\ copyRemaining) \/ joinOutput
  \/ SelectFirst \/ drainOutput \/ Wait \/ SendFinal \/ writeOutcome
FairSpec ==
  /\ Spec
  /\ WF_vars(HandlerRuns) /\ WF_vars(Ended /\ OutputEnds) /\ WF_vars(PumpStep)
  /\ WF_vars(streamDone /\ SendFails) /\ WF_vars(streamDone /\ RecvInput)
  /\ WF_vars(~WriteAccepted /\ WriteInput)
  /\ \A r \in Requesters : WF_vars(SendAbandoned(r))
  /\ WF_vars(IdleTimeout) /\ WF_vars(RunnerStops("killed"))

-----------------------------------------------------------------------------
(* What a session tells.  A stream carries data and then at most one       *)
(* terminal frame, although a request the session has given up may still   *)
(* be in the pump (send.go).  An RPC that returns OK has delivered that    *)
(* frame and recorded the outcome, and the two agree on whether the        *)
(* operation completed or was denied.                                      *)
OkMeansTold ==
  /\ \A i \in DOMAIN sent : sent[i] \in Categories => i = Len(sent)
  /\ status = "ok" =>
       /\ sent # <<>> /\ sent[Len(sent)] \in Categories /\ audit # <<>>
       /\ (sent[Len(sent)] = "completed") = (audit[Len(audit)] = "completed")
       /\ sent[Len(sent)] = "permission_denied" => audit[Len(audit)] = "denied"

(* COMPLETED is only ever reported of a session in which the provider      *)
(* exited with 0, everything it wrote had been delivered to the client     *)
(* before the terminal and, of a push, everything the client sent had been *)
(* written to the provider.                                                *)
CompletedMeansDelivered ==
  (sent # <<>> /\ sent[Len(sent)] = "completed") =>
    /\ proc = "exit_0"
    /\ Len(sent) = (MaxChunks - chunks) + (IF kind = "receive" THEN 2 ELSE 1)
    /\ kind = "receive" => verdict = "accepted" /\ frames = 0 /\ inputErr = None

(* No byte of a push reaches the provider unless the principal may read    *)
(* and write the repository and the prefix was accepted, and the prefix    *)
(* comes first ("a denied push forwards zero client update bytes").        *)
RefusedPushStaysHere ==
  (kind = "receive" /\ forwarded # <<>>) =>
    verdict = "accepted" /\ {"read", "write"} \subseteq grants /\ forwarded[1] = "prefix"

(* The accepted event is written before the provider process is started,   *)
(* and a session writes at most one outcome, after it; a session without   *)
(* one has failed the RPC (finishDeliveryError).                           *)
AuditPair ==
  /\ proc # None => audit # <<>> /\ audit[1] = "accepted"
  /\ \A i \in DOMAIN audit : audit[i] = "accepted" => i = 1
  /\ Len(audit) <= 2 /\ (audit # <<>> /\ audit[1] # "accepted" => Len(audit) = 1)
  /\ pc = "returned" => status = "unavailable" \/ (audit # <<>> /\ audit[Len(audit)] # "accepted")

(* Every session ends, whatever the client and the provider do (the idle   *)
(* watcher, the first frame's timeout and the delivery timeout see to it), *)
(* and leaves nothing behind: no goroutine blocked in Recv, Send, a pipe   *)
(* or a channel, and no provider process, whichever step failed.           *)
NothingLeaks ==
  <>[](/\ pc = "returned" /\ proc # "running"
       /\ pump = "stopped" /\ ~watch
       /\ output \in {None, "done"} /\ input \in {None, "done"})
=============================================================================
