-------------------------- MODULE GitSessionProofs --------------------------
(***************************************************************************)
(* Proofs about GitSession, for any number of client frames and provider   *)
(* chunks.  What a session tells its client and its audit log is true      *)
(* because of where each of its goroutines can be while the handler is     *)
(* somewhere: the inductive invariant says this of the two kinds of        *)
(* session (KindShape, PushShape), of the goroutine that relays stdout     *)
(* (OutputShape), of the send pump, which may hold a request its requester *)
(* has given up (PumpShape), and from these what has been sent             *)
(* (TerminalIsLast, OutputIsCounted), what an operation without an error   *)
(* has done (CompletedIsComplete) and what was audited (AuditShape).       *)
(* The second part is about GitRelay, the client's end of a session, and   *)
(* the third about ReceiveParser, which decides what a push may forward.   *)
(***************************************************************************)
EXTENDS GitSession, GitRelay, ReceiveParser, SequenceTheorems, TLAPS

Early == {"first", "authorize", "accept", "start"}
Advertising == {"advertise", "adv_offer", "adv_await", "parse"}
Closing == {"final", "final_offer", "final_await", "outcome", "returned"}
Over == {"outcome", "returned"}

(* Nothing of a session exists before its process does. *)
StartShape ==
  /\ pc \in Early => proc = None
  /\ proc = None => /\ pc \in Early \cup Closing
                    /\ output = None /\ input = None /\ verdict = None /\ forwarded = <<>>
  /\ (proc # None \/ pc \in {"accept", "start"}) => Needed \subseteq grants

(* The handlers of the two RPCs are in different places. *)
KindShape ==
  /\ pc \in Advertising \cup {"stop", "prefix", "copy", "join"} => kind = "receive"
  /\ pc \in {"select", "drain"} => kind = "upload"
  /\ kind = "receive" => input = None

(* A push: what the verdict, the error and what was forwarded are while    *)
(* receivePack is somewhere.                                               *)
PushShape ==
  kind = "receive" =>
    /\ pc \in Early \cup Advertising => verdict = None
    /\ pc \in {"prefix", "copy", "join"} => verdict = "accepted"
    /\ pc = "stop" => verdict # "accepted" /\ opErr # None
    /\ pc = "wait" /\ verdict # "accepted" => opErr # None
    /\ verdict # "accepted" => output = None /\ forwarded = <<>>
    /\ pc = "prefix" => forwarded = <<>>
    /\ pc = "copy" => forwarded # <<>>
    /\ forwarded # <<>> => forwarded[1] = "prefix"
    /\ (pc \in {"join", "wait"} \cup Closing /\ verdict = "accepted" /\ inputErr = None) => frames = 0

(* The goroutine that relays stdout is joined before Process.Wait. *)
OutputShape ==
  /\ output # None => proc # None /\ pc \notin Early \cup Advertising \cup {"stop"}
  /\ pc \in {"wait"} \cup Closing => output \in {None, "done"}
  /\ (pc = "wait" /\ (kind = "upload" \/ verdict = "accepted")) => output = "done"
  /\ outputErr # None => output = "done"
  /\ output = None => chunks = MaxChunks

(* The pump has one request or none; whose it is, and what may have        *)
(* happened to its requester since.                                        *)
PumpShape ==
  /\ request = None <=> pump \in {"idle", "stopped"}
  /\ request = "terminal" => pc \in {"final_await"} \cup Over
  /\ request = "output" => output # None
  /\ request = "advertisement" =>
       kind = "receive" /\ verdict # "accepted" /\ pc \in {"adv_await", "stop", "wait"} \cup Closing
  /\ output = "await" => request = "output"
  /\ pc = "adv_await" => request = "advertisement"

Told == sent # <<>> /\ sent[Len(sent)] \in Categories

(* The terminal frame comes last, names the error the handler settled on,  *)
(* and was delivered if SendFinal says so.                                 *)
TerminalIsLast ==
  /\ \A i \in 1..Len(sent) : sent[i] \in Categories => i = Len(sent)
  /\ Told => pc \in Over /\ request = None /\ sent[Len(sent)] = terminalCategory(opErr)
  /\ (pc \in Over /\ deliveryErr = None) => Told

Preceding == IF kind = "receive" THEN 1 ELSE 0   \* the advertisement
Terminal == IF Told THEN 1 ELSE 0

(* As long as the relay has met no error, what the provider wrote has been *)
(* sent, but for the chunk in its hands, and the pump has nothing else.    *)
OutputIsCounted ==
  /\ pc \in Early \cup {"advertise", "adv_offer", "adv_await"} => sent = <<>>
  /\ pc = "parse" => Len(sent) = 1 /\ request = None
  /\ (output \in {"read", "done"} /\ outputErr = None) =>
       request # "output" /\ Len(sent) = Preceding + (MaxChunks - chunks) + Terminal
  /\ output = "offer" => request # "output"
  /\ output \in {"offer", "await"} => Len(sent) = Preceding + (MaxChunks - chunks) - 1

(* The handler has no error to report only when nothing went wrong. *)
CompletedIsComplete ==
  (pc \in Closing /\ opErr = None) =>
    /\ proc = "exit_0" /\ output = "done" /\ outputErr = None
    /\ kind = "receive" => verdict = "accepted" /\ inputErr = None

(* The audit events, by where the handler is. *)
AuditShape ==
  /\ pc \in {"first", "authorize", "accept"} => audit = <<>>
  /\ pc \notin {"first", "authorize", "accept"} \cup Closing => audit = <<"accepted">>
  /\ pc \in Closing \ {"returned"} => audit \in {<<>>, <<"accepted">>}
  /\ (pc \in Closing \ {"returned"} /\ proc # None) => audit = <<"accepted">>
  /\ pc # "returned" => status = None
  /\ pc = "returned" =>
       \/ audit \in {<<>>, <<"accepted">>} /\ status = "unavailable"
       \/ audit \in {<<Outcome(opErr)>>, <<"accepted", Outcome(opErr)>>}
  /\ (pc = "returned" /\ proc # None) => audit # <<>> /\ audit[1] = "accepted"
  /\ status = "ok" => deliveryErr = None

(* TypeOK, in five parts. *)
ErrorTypes ==
  /\ opErr \in Errors \cup {None} /\ cause \in Errors \cup {None}
  /\ inputErr \in Errors \cup {None} /\ outputErr \in Errors \cup {None}
  /\ deliveryErr \in Errors \cup {None} /\ status \in {None, "ok", "unavailable"}
PlaceTypes ==
  /\ kind \in {"upload", "receive"}
  /\ pc \in Early \cup Advertising \cup Closing
           \cup {"stop", "prefix", "copy", "join", "select", "drain", "wait"}
  /\ proc \in {None, "running", "exit_0", "exit_1", "killed", "timed_out", "over_limit"}
  /\ verdict \in {None, "accepted", "rejected"}
  /\ input \in {None, "recv", "write", "done"}
  /\ output \in {None, "read", "offer", "await", "done"}
  /\ pump \in {"idle", "taken", "checked", "sending", "stopped"}
  /\ request \in {None, "advertisement", "output", "terminal"}
FlagTypes == grants \subseteq {"read", "write"} /\ {streamDone, watch, stdin} \subseteq BOOLEAN
CountTypes == frames \in 0..MaxFrames /\ chunks \in 0..MaxChunks
SeqTypes ==
  /\ forwarded \in Seq({"prefix", "data"})
  /\ sent \in Seq({"advertisement", "output"} \cup Categories)
  /\ audit \in Seq({"accepted", "completed", "denied", "cancelled", "failed"})
Types == ErrorTypes /\ PlaceTypes /\ FlagTypes /\ CountTypes /\ SeqTypes

SessionInv ==
  /\ Types /\ StartShape /\ KindShape /\ PushShape /\ OutputShape /\ PumpShape
  /\ TerminalIsLast /\ OutputIsCounted /\ CompletedIsComplete /\ AuditShape
-----------------------------------------------------------------------------
(* What a requester does with an error or a result: the three forms of     *)
(* Resume.                                                                 *)
AdvResumes(e) ==
  /\ pc' = IF e = None THEN "parse" ELSE "stop"
  /\ opErr' = e
  /\ UNCHANGED <<outVars, cause, endVars>>
OutResumes(e) ==
  /\ output' = IF e = None THEN "read" ELSE "done"
  /\ outputErr' = e /\ cause' = firstError(cause, e)
  /\ UNCHANGED <<pc, opErr, endVars>>
EndResumes(e) ==
  /\ pc' = "outcome" /\ deliveryErr' = e
  /\ UNCHANGED <<opErr, outVars, cause, status>>

(* Resume is one of them. *)
LEMMA ResumeCases ==
  ASSUME NEW e
  PROVE  /\ Resume("advertisement", e) => AdvResumes(e)
         /\ Resume("output", e) => OutResumes(e)
         /\ Resume("terminal", e) => EndResumes(e)
BY DEF Resume, AdvResumes, OutResumes, EndResumes, cancel

(* A requester that gives up has an error to give up for. *)
LEMMA SendErrorsAreErrors ==
  ASSUME ErrorTypes, NEW r PROVE SendErrors(r) \subseteq Errors
BY DEF ErrorTypes, SendErrors, Errors, None

(* SendAbandoned, for each requester. *)
LEMMA AbandonedCases ==
  ASSUME ErrorTypes, NEW r \in Requesters, SendAbandoned(r)
  PROVE  /\ UNCHANGED <<kind, grants, streamDone, watch, procVars, inVars, pumpVars, audit>>
         /\ \E e \in Errors :
              \/ pc \in {"adv_offer", "adv_await"} /\ AdvResumes(e)
              \/ output \in {"offer", "await"} /\ OutResumes(e)
              \/ pc \in {"final_offer", "final_await"} /\ EndResumes(e)
<1>1. PICK e \in Errors : Resume(r, e)
  BY SendErrorsAreErrors DEF SendAbandoned
<1>2. CASE r = "advertisement"
  BY <1>1, <1>2, ResumeCases DEF SendAbandoned, Offering, Awaiting
<1>3. CASE r = "output"
  BY <1>1, <1>3, ResumeCases DEF SendAbandoned, Offering, Awaiting
<1>4. CASE r = "terminal"
  BY <1>1, <1>4, ResumeCases DEF SendAbandoned, Offering, Awaiting
<1> QED
  BY <1>2, <1>3, <1>4 DEF Requesters

(* The end of a request in the pump: its requester has left, or resumes     *)
(* with the result or with an error it prefers.                            *)
Replied(err) ==
  /\ request' = None
  /\ \/ UNCHANGED <<pc, opErr, outVars, cause, endVars>>
        /\ ~(request = "advertisement" /\ pc = "adv_await")
        /\ ~(request = "output" /\ output = "await")
        /\ ~(request = "terminal" /\ pc = "final_await")
     \/ \E e \in Errors \cup {err} :
          \/ request = "advertisement" /\ pc = "adv_await" /\ AdvResumes(e)
          \/ request = "output" /\ output = "await" /\ OutResumes(e)
          \/ request = "terminal" /\ pc = "final_await" /\ EndResumes(e)

(* Reply ends it so. *)
LEMMA ReplyCases ==
  ASSUME ErrorTypes, PlaceTypes, request # None, NEW err, Reply(err)
  PROVE  Replied(err)
<1>1. request \in Requesters
  BY DEF PlaceTypes, Requesters
<1>2. Awaiting(request) <=> \/ request = "advertisement" /\ pc = "adv_await"
                            \/ request = "output" /\ output = "await"
                            \/ request = "terminal" /\ pc = "final_await"
  BY <1>1 DEF Awaiting, Requesters
<1>3. CASE ~Awaiting(request)
  BY <1>2, <1>3 DEF Reply, Replied
<1>4. CASE Awaiting(request)
  <2>1. PICK e \in Errors \cup {err} : Resume(request, e)
    BY <1>4, SendErrorsAreErrors DEF Reply
  <2> QED
    BY <1>2, <1>4, <2>1, ResumeCases DEF Reply, Replied
<1> QED
  BY <1>3, <1>4

(* A request whose context had ended is not sent. *)
LEMMA PumpSkipsCases ==
  ASSUME ErrorTypes, PlaceTypes, PumpShape, PumpSkips
  PROVE  /\ pump = "taken" /\ pump' = "idle" /\ request # None
         /\ \E err \in Errors : Replied(err)
         /\ UNCHANGED <<kind, grants, streamDone, watch, procVars, inVars, sent, audit>>
<1>1. request # None /\ (request # "terminal" => cause # None)
  BY DEF PumpSkips, PumpShape, RequestEnded
<1>2. (IF request = "terminal" THEN "canceled" ELSE cause) \in Errors
  BY <1>1 DEF ErrorTypes, Errors
<1> QED
  BY <1>1, <1>2, ReplyCases DEF PumpSkips

(* A frame was delivered. *)
LEMMA SendSucceedsCases ==
  ASSUME ErrorTypes, PlaceTypes, PumpShape, SendSucceeds
  PROVE  /\ pump = "sending" /\ pump' = "idle" /\ request # None
         /\ sent' = Append(sent, IF request = "terminal" THEN terminalCategory(opErr) ELSE request)
         /\ Replied(None)
         /\ UNCHANGED <<kind, grants, streamDone, watch, procVars, inVars, audit>>
BY ReplyCases DEF SendSucceeds, PumpShape, Frame

(* What the client is told of an error. *)
LEMMA CategoryOf ==
  ASSUME NEW err \in Errors \cup {None}
  PROVE  /\ terminalCategory(err) \in Categories
         /\ terminalCategory(err) = "completed" <=> err = None
         /\ terminalCategory(err) = "permission_denied" <=> err = "denied"
BY DEF terminalCategory, Categories, Errors, None

(* What the audit log is told of it. *)
LEMMA OutcomeOf ==
  ASSUME NEW err \in Errors \cup {None}
  PROVE  /\ Outcome(err) \in {"completed", "denied", "cancelled", "failed"}
         /\ Outcome(err) = "completed" <=> err = None
         /\ err = "denied" => Outcome(err) = "denied"
BY DEF Outcome, Errors, None

(* The second event of the audit log. *)
LEMMA SecondAppended ==
  ASSUME NEW o \in {"completed", "denied", "cancelled", "failed"}
  PROVE  Append(<<"accepted">>, o) = <<"accepted", o>>
<1> DEFINE S == {"accepted", "completed", "denied", "cancelled", "failed"}
           s == Append(<<"accepted">>, o)
           t == <<"accepted", o>>
<1>1. s \in Seq(S) /\ t \in Seq(S) /\ Len(s) = 2 /\ Len(t) = 2
  OBVIOUS
<1>2. \A i \in 1..2 : s[i] = t[i]
  OBVIOUS
<1> QED
  BY <1>1, <1>2, SeqEqual

(* Nothing is delivered once the terminal frame is; the last frame is the  *)
(* one just sent, and the terminal only if it was requested.               *)
LEMMA Delivered ==
  ASSUME SessionInv, SendSucceeds
  PROVE  /\ sent' # <<>> /\ Len(sent) \in Nat /\ Len(sent') = Len(sent) + 1 /\ ~Told
         /\ \A i \in 1..Len(sent') : i # Len(sent') => sent'[i] \notin Categories
         /\ request = "terminal" => sent'[Len(sent')] = terminalCategory(opErr)
         /\ sent'[Len(sent')] \in Categories <=> request = "terminal"
<1> DEFINE f == IF request = "terminal" THEN terminalCategory(opErr) ELSE request
<1> USE DEF SessionInv, Types
<1>1. sent' = Append(sent, f) /\ request # None
  BY SendSucceedsCases
<1>2. f \in Categories <=> request = "terminal"
  BY <1>1, CategoryOf DEF ErrorTypes, PlaceTypes, Categories, None
<1>3. f \in {"advertisement", "output"} \cup Categories
  BY <1>1, <1>2 DEF PlaceTypes, None
<1>4. ~Told
  BY <1>1 DEF TerminalIsLast
<1>5. \A i \in 1..Len(sent) : sent[i] \notin Categories
  BY <1>4 DEF TerminalIsLast, Told, SeqTypes
<1> HIDE DEF f
<1>6. /\ Len(sent) \in Nat /\ Len(sent') = Len(sent) + 1 /\ sent' # <<>>
      /\ sent'[Len(sent')] = f /\ \A i \in 1..Len(sent) : sent'[i] = sent[i]
  BY <1>1, <1>3 DEF SeqTypes
<1>7. \A i \in 1..Len(sent') : i # Len(sent') => sent'[i] \notin Categories
  BY <1>5, <1>6
<1>8. request = "terminal" => f = terminalCategory(opErr)
  BY DEF f
<1> QED
  BY <1>2, <1>4, <1>6, <1>7, <1>8

(* stream.Send failed, and the pump stops. *)
LEMMA SendFailsCases ==
  ASSUME ErrorTypes, PlaceTypes, PumpShape, SendFails
  PROVE  /\ pump = "sending" /\ pump' = "stopped" /\ request # None
         /\ \E err \in Errors : Replied(err)
         /\ UNCHANGED <<kind, grants, streamDone, watch, procVars, inVars, sent, audit>>
BY ReplyCases DEF SendFails, PumpShape, Errors

(* A sequence that grows by one of its kind is of its kind. *)
LEMMA Appended ==
  ASSUME NEW S, NEW seq \in Seq(S), NEW x \in S
  PROVE  Append(seq, x) \in Seq(S)
OBVIOUS

(* Every step keeps the types: of the errors, *)
LEMMA ErrorTypesStep ==
  ASSUME SessionInv, [Next]_vars
  PROVE  ErrorTypes'
<1> USE DEF SessionInv, Types, ErrorTypes, Errors, None,
            procVars, inVars, outVars, pumpVars, endVars
<1>1. CASE StreamEnds
  BY <1>1 DEF StreamEnds, cancel, firstError
<1>2. CASE IdleTimeout
  BY <1>2 DEF IdleTimeout, cancel, firstError
<1>3. CASE ProviderExits
  BY <1>3 DEF ProviderExits
<1>4. ASSUME NEW how \in Stops, RunnerStops(how) PROVE ErrorTypes'
  BY <1>4 DEF RunnerStops, Stops
<1>5. ASSUME NEW r \in Requesters, SendAbandoned(r) PROVE ErrorTypes'
  BY <1>5, AbandonedCases DEF AdvResumes, OutResumes, EndResumes, firstError
<1>6. ASSUME NEW r \in Requesters, PumpTakes(r) PROVE ErrorTypes'
  BY <1>6 DEF PumpTakes, Offering, Requesters
<1>7. CASE PumpSkips
  BY <1>7, PumpSkipsCases DEF AdvResumes, OutResumes, EndResumes, firstError, Replied
<1>8. CASE PumpChecks
  BY <1>8 DEF PumpChecks
<1>9. CASE PumpSends
  BY <1>9 DEF PumpSends
<1>10. CASE SendSucceeds
  BY <1>10, SendSucceedsCases DEF AdvResumes, OutResumes, EndResumes, firstError, Replied
<1>11. CASE SendFails
  BY <1>11, SendFailsCases DEF AdvResumes, OutResumes, EndResumes, firstError, Replied
<1>12. CASE PumpStops
  BY <1>12 DEF PumpStops
<1>13. CASE ReadOutput
  BY <1>13 DEF ReadOutput
<1>14. CASE OutputEnds
  BY <1>14 DEF OutputEnds, LimitError, cancel, firstError
<1>15. CASE ReceiveFirst
  BY <1>15 DEF ReceiveFirst, Finish
<1>16. CASE command
  BY <1>16 DEF command, Finish
<1>17. CASE writeAccepted
  BY <1>17 DEF writeAccepted, AuditRefused, Finish
<1>18. CASE StartFails
  BY <1>18 DEF StartFails, Finish, cancel, firstError
<1>19. CASE Start
  BY <1>19 DEF Start
<1>20. CASE ParseAdvertisement
  BY <1>20 DEF ParseAdvertisement, LimitError, cancel, firstError
<1>21. CASE ParseReceivePack
  BY <1>21 DEF ParseReceivePack, ReadErrors, classifyReceiveRequestError
<1>22. CASE stopProcess
  BY <1>22 DEF stopProcess, cancel, firstError
<1>23. CASE writePrefix
  BY <1>23 DEF writePrefix, WriteAccepted, LimitError, InputResult, cancel, firstError
<1>24. CASE copyRemaining
  BY <1>24 DEF copyRemaining, WriteAccepted, LimitError, ReadErrors, InputResult, cancel, firstError
<1>25. CASE joinOutput
  BY <1>25 DEF joinOutput
<1>26. CASE RecvInput
  BY <1>26 DEF RecvInput, cancel, firstError
<1>27. CASE WriteInput
  BY <1>27 DEF WriteInput, WriteAccepted, LimitError, cancel, firstError
<1>28. CASE SelectFirst
  BY <1>28 DEF SelectFirst
<1>29. CASE drainOutput
  BY <1>29 DEF drainOutput
<1>30. CASE Wait
  BY <1>30 DEF Wait, Finish, cancel, firstError, OperationError, waitErr, Reaped, Ended
<1>31. CASE SendFinal
  BY <1>31 DEF SendFinal
<1>32. CASE writeOutcome
  BY <1>32 DEF writeOutcome, finishDeliveryError, Outcome
<1>33. CASE UNCHANGED vars
  BY <1>33 DEF vars
<1> QED
  BY <1>1, <1>2, <1>3, <1>4, <1>5, <1>6, <1>7, <1>8, <1>9, <1>10, <1>11, <1>12,
     <1>13, <1>14, <1>15, <1>16, <1>17, <1>18, <1>19, <1>20, <1>21, <1>22, <1>23, <1>24,
     <1>25, <1>26, <1>27, <1>28, <1>29, <1>30, <1>31, <1>32, <1>33
     DEF Next, Handler, PumpStep

(* of where everyone is, *)
LEMMA PlaceTypesStep ==
  ASSUME SessionInv, [Next]_vars
  PROVE  PlaceTypes'
<1> USE DEF SessionInv, Types, PlaceTypes, Requesters, Stops, Early, Advertising, Closing, Over, None,
            procVars, inVars, outVars, pumpVars, endVars
<1>1. CASE StreamEnds
  BY <1>1 DEF StreamEnds, cancel, firstError
<1>2. CASE IdleTimeout
  BY <1>2 DEF IdleTimeout, cancel, firstError
<1>3. CASE ProviderExits
  BY <1>3 DEF ProviderExits
<1>4. ASSUME NEW how \in Stops, RunnerStops(how) PROVE PlaceTypes'
  BY <1>4 DEF RunnerStops, Stops
<1>5. ASSUME NEW r \in Requesters, SendAbandoned(r) PROVE PlaceTypes'
  BY <1>5, AbandonedCases DEF AdvResumes, OutResumes, EndResumes, firstError
<1>6. ASSUME NEW r \in Requesters, PumpTakes(r) PROVE PlaceTypes'
  BY <1>6 DEF PumpTakes, Offering, Requesters
<1>7. CASE PumpSkips
  BY <1>7, PumpSkipsCases DEF AdvResumes, OutResumes, EndResumes, firstError, Replied
<1>8. CASE PumpChecks
  BY <1>8 DEF PumpChecks
<1>9. CASE PumpSends
  BY <1>9 DEF PumpSends
<1>10. CASE SendSucceeds
  BY <1>10, SendSucceedsCases DEF AdvResumes, OutResumes, EndResumes, firstError, Replied
<1>11. CASE SendFails
  BY <1>11, SendFailsCases DEF AdvResumes, OutResumes, EndResumes, firstError, Replied
<1>12. CASE PumpStops
  BY <1>12 DEF PumpStops
<1>13. CASE ReadOutput
  BY <1>13 DEF ReadOutput
<1>14. CASE OutputEnds
  BY <1>14 DEF OutputEnds, LimitError, cancel, firstError
<1>15. CASE ReceiveFirst
  BY <1>15 DEF ReceiveFirst, Finish
<1>16. CASE command
  BY <1>16 DEF command, Finish
<1>17. CASE writeAccepted
  BY <1>17 DEF writeAccepted, AuditRefused, Finish
<1>18. CASE StartFails
  BY <1>18 DEF StartFails, Finish, cancel, firstError
<1>19. CASE Start
  BY <1>19 DEF Start
<1>20. CASE ParseAdvertisement
  BY <1>20 DEF ParseAdvertisement, LimitError, cancel, firstError
<1>21. CASE ParseReceivePack
  BY <1>21 DEF ParseReceivePack, ReadErrors, classifyReceiveRequestError
<1>22. CASE stopProcess
  BY <1>22 DEF stopProcess, cancel, firstError
<1>23. CASE writePrefix
  BY <1>23 DEF writePrefix, WriteAccepted, LimitError, InputResult, cancel, firstError
<1>24. CASE copyRemaining
  BY <1>24 DEF copyRemaining, WriteAccepted, LimitError, ReadErrors, InputResult, cancel, firstError
<1>25. CASE joinOutput
  BY <1>25 DEF joinOutput
<1>26. CASE RecvInput
  BY <1>26 DEF RecvInput, cancel, firstError
<1>27. CASE WriteInput
  BY <1>27 DEF WriteInput, WriteAccepted, LimitError, cancel, firstError
<1>28. CASE SelectFirst
  BY <1>28 DEF SelectFirst
<1>29. CASE drainOutput
  BY <1>29 DEF drainOutput
<1>30. CASE Wait
  BY <1>30 DEF Wait, Finish, cancel, firstError, OperationError, waitErr, Reaped, Ended
<1>31. CASE SendFinal
  BY <1>31 DEF SendFinal
<1>32. CASE writeOutcome
  BY <1>32 DEF writeOutcome, finishDeliveryError, Outcome
<1>33. CASE UNCHANGED vars
  BY <1>33 DEF vars
<1> QED
  BY <1>1, <1>2, <1>3, <1>4, <1>5, <1>6, <1>7, <1>8, <1>9, <1>10, <1>11, <1>12,
     <1>13, <1>14, <1>15, <1>16, <1>17, <1>18, <1>19, <1>20, <1>21, <1>22, <1>23, <1>24,
     <1>25, <1>26, <1>27, <1>28, <1>29, <1>30, <1>31, <1>32, <1>33
     DEF Next, Handler, PumpStep

(* of the flags, *)
LEMMA FlagTypesStep ==
  ASSUME SessionInv, [Next]_vars
  PROVE  FlagTypes'
<1> USE DEF SessionInv, Types, FlagTypes,
            procVars, inVars, outVars, pumpVars, endVars
<1>1. CASE StreamEnds
  BY <1>1 DEF StreamEnds, cancel, firstError
<1>2. CASE IdleTimeout
  BY <1>2 DEF IdleTimeout, cancel, firstError
<1>3. CASE ProviderExits
  BY <1>3 DEF ProviderExits
<1>4. ASSUME NEW how \in Stops, RunnerStops(how) PROVE FlagTypes'
  BY <1>4 DEF RunnerStops, Stops
<1>5. ASSUME NEW r \in Requesters, SendAbandoned(r) PROVE FlagTypes'
  BY <1>5, AbandonedCases DEF AdvResumes, OutResumes, EndResumes, firstError
<1>6. ASSUME NEW r \in Requesters, PumpTakes(r) PROVE FlagTypes'
  BY <1>6 DEF PumpTakes, Offering, Requesters
<1>7. CASE PumpSkips
  BY <1>7, PumpSkipsCases DEF AdvResumes, OutResumes, EndResumes, firstError, Replied
<1>8. CASE PumpChecks
  BY <1>8 DEF PumpChecks
<1>9. CASE PumpSends
  BY <1>9 DEF PumpSends
<1>10. CASE SendSucceeds
  BY <1>10, SendSucceedsCases DEF AdvResumes, OutResumes, EndResumes, firstError, Replied
<1>11. CASE SendFails
  BY <1>11, SendFailsCases DEF AdvResumes, OutResumes, EndResumes, firstError, Replied
<1>12. CASE PumpStops
  BY <1>12 DEF PumpStops
<1>13. CASE ReadOutput
  BY <1>13 DEF ReadOutput
<1>14. CASE OutputEnds
  BY <1>14 DEF OutputEnds, LimitError, cancel, firstError
<1>15. CASE ReceiveFirst
  BY <1>15 DEF ReceiveFirst, Finish
<1>16. CASE command
  BY <1>16 DEF command, Finish
<1>17. CASE writeAccepted
  BY <1>17 DEF writeAccepted, AuditRefused, Finish
<1>18. CASE StartFails
  BY <1>18 DEF StartFails, Finish, cancel, firstError
<1>19. CASE Start
  BY <1>19 DEF Start
<1>20. CASE ParseAdvertisement
  BY <1>20 DEF ParseAdvertisement, LimitError, cancel, firstError
<1>21. CASE ParseReceivePack
  BY <1>21 DEF ParseReceivePack, ReadErrors, classifyReceiveRequestError
<1>22. CASE stopProcess
  BY <1>22 DEF stopProcess, cancel, firstError
<1>23. CASE writePrefix
  BY <1>23 DEF writePrefix, WriteAccepted, LimitError, InputResult, cancel, firstError
<1>24. CASE copyRemaining
  BY <1>24 DEF copyRemaining, WriteAccepted, LimitError, ReadErrors, InputResult, cancel, firstError
<1>25. CASE joinOutput
  BY <1>25 DEF joinOutput
<1>26. CASE RecvInput
  BY <1>26 DEF RecvInput, cancel, firstError
<1>27. CASE WriteInput
  BY <1>27 DEF WriteInput, WriteAccepted, LimitError, cancel, firstError
<1>28. CASE SelectFirst
  BY <1>28 DEF SelectFirst
<1>29. CASE drainOutput
  BY <1>29 DEF drainOutput
<1>30. CASE Wait
  BY <1>30 DEF Wait, Finish, cancel, firstError, OperationError, waitErr, Reaped, Ended
<1>31. CASE SendFinal
  BY <1>31 DEF SendFinal
<1>32. CASE writeOutcome
  BY <1>32 DEF writeOutcome, finishDeliveryError, Outcome
<1>33. CASE UNCHANGED vars
  BY <1>33 DEF vars
<1> QED
  BY <1>1, <1>2, <1>3, <1>4, <1>5, <1>6, <1>7, <1>8, <1>9, <1>10, <1>11, <1>12,
     <1>13, <1>14, <1>15, <1>16, <1>17, <1>18, <1>19, <1>20, <1>21, <1>22, <1>23, <1>24,
     <1>25, <1>26, <1>27, <1>28, <1>29, <1>30, <1>31, <1>32, <1>33
     DEF Next, Handler, PumpStep

(* of the counts, *)
LEMMA CountTypesStep ==
  ASSUME SessionInv, [Next]_vars
  PROVE  CountTypes'
<1> USE SessionAssumption DEF SessionInv, Types, CountTypes, SessionAssumption,
            procVars, inVars, outVars, pumpVars, endVars
<1>1. CASE StreamEnds
  BY <1>1 DEF StreamEnds, cancel, firstError
<1>2. CASE IdleTimeout
  BY <1>2 DEF IdleTimeout, cancel, firstError
<1>3. CASE ProviderExits
  BY <1>3 DEF ProviderExits
<1>4. ASSUME NEW how \in Stops, RunnerStops(how) PROVE CountTypes'
  BY <1>4 DEF RunnerStops, Stops
<1>5. ASSUME NEW r \in Requesters, SendAbandoned(r) PROVE CountTypes'
  BY <1>5, AbandonedCases DEF AdvResumes, OutResumes, EndResumes, firstError
<1>6. ASSUME NEW r \in Requesters, PumpTakes(r) PROVE CountTypes'
  BY <1>6 DEF PumpTakes, Offering, Requesters
<1>7. CASE PumpSkips
  BY <1>7, PumpSkipsCases DEF AdvResumes, OutResumes, EndResumes, firstError, Replied
<1>8. CASE PumpChecks
  BY <1>8 DEF PumpChecks
<1>9. CASE PumpSends
  BY <1>9 DEF PumpSends
<1>10. CASE SendSucceeds
  BY <1>10, SendSucceedsCases DEF AdvResumes, OutResumes, EndResumes, firstError, Replied
<1>11. CASE SendFails
  BY <1>11, SendFailsCases DEF AdvResumes, OutResumes, EndResumes, firstError, Replied
<1>12. CASE PumpStops
  BY <1>12 DEF PumpStops
<1>13. CASE ReadOutput
  BY <1>13 DEF ReadOutput
<1>14. CASE OutputEnds
  BY <1>14 DEF OutputEnds, LimitError, cancel, firstError
<1>15. CASE ReceiveFirst
  BY <1>15 DEF ReceiveFirst, Finish
<1>16. CASE command
  BY <1>16 DEF command, Finish
<1>17. CASE writeAccepted
  BY <1>17 DEF writeAccepted, AuditRefused, Finish
<1>18. CASE StartFails
  BY <1>18 DEF StartFails, Finish, cancel, firstError
<1>19. CASE Start
  BY <1>19 DEF Start
<1>20. CASE ParseAdvertisement
  BY <1>20 DEF ParseAdvertisement, LimitError, cancel, firstError
<1>21. CASE ParseReceivePack
  BY <1>21 DEF ParseReceivePack, ReadErrors, classifyReceiveRequestError
<1>22. CASE stopProcess
  BY <1>22 DEF stopProcess, cancel, firstError
<1>23. CASE writePrefix
  BY <1>23 DEF writePrefix, WriteAccepted, LimitError, InputResult, cancel, firstError
<1>24. CASE copyRemaining
  BY <1>24 DEF copyRemaining, WriteAccepted, LimitError, ReadErrors, InputResult, cancel, firstError
<1>25. CASE joinOutput
  BY <1>25 DEF joinOutput
<1>26. CASE RecvInput
  BY <1>26 DEF RecvInput, cancel, firstError
<1>27. CASE WriteInput
  BY <1>27 DEF WriteInput, WriteAccepted, LimitError, cancel, firstError
<1>28. CASE SelectFirst
  BY <1>28 DEF SelectFirst
<1>29. CASE drainOutput
  BY <1>29 DEF drainOutput
<1>30. CASE Wait
  BY <1>30 DEF Wait, Finish, cancel, firstError, OperationError, waitErr, Reaped, Ended
<1>31. CASE SendFinal
  BY <1>31 DEF SendFinal
<1>32. CASE writeOutcome
  BY <1>32 DEF writeOutcome, finishDeliveryError, Outcome
<1>33. CASE UNCHANGED vars
  BY <1>33 DEF vars
<1> QED
  BY <1>1, <1>2, <1>3, <1>4, <1>5, <1>6, <1>7, <1>8, <1>9, <1>10, <1>11, <1>12,
     <1>13, <1>14, <1>15, <1>16, <1>17, <1>18, <1>19, <1>20, <1>21, <1>22, <1>23, <1>24,
     <1>25, <1>26, <1>27, <1>28, <1>29, <1>30, <1>31, <1>32, <1>33
     DEF Next, Handler, PumpStep

(* and of the sequences. *)
LEMMA SeqTypesStep ==
  ASSUME SessionInv, [Next]_vars
  PROVE  SeqTypes'
<1> USE DEF SessionInv, Types, SeqTypes,
            procVars, inVars, outVars, pumpVars, endVars
<1>1. CASE StreamEnds
  BY <1>1 DEF StreamEnds, cancel, firstError
<1>2. CASE IdleTimeout
  BY <1>2 DEF IdleTimeout, cancel, firstError
<1>3. CASE ProviderExits
  BY <1>3 DEF ProviderExits
<1>4. ASSUME NEW how \in Stops, RunnerStops(how) PROVE SeqTypes'
  BY <1>4 DEF RunnerStops, Stops
<1>5. ASSUME NEW r \in Requesters, SendAbandoned(r) PROVE SeqTypes'
  BY <1>5, AbandonedCases DEF AdvResumes, OutResumes, EndResumes, firstError
<1>6. ASSUME NEW r \in Requesters, PumpTakes(r) PROVE SeqTypes'
  BY <1>6 DEF PumpTakes, Offering, Requesters
<1>7. CASE PumpSkips
  BY <1>7, PumpSkipsCases DEF AdvResumes, OutResumes, EndResumes, firstError, Replied
<1>8. CASE PumpChecks
  BY <1>8 DEF PumpChecks
<1>9. CASE PumpSends
  BY <1>9 DEF PumpSends
<1>10. CASE SendSucceeds
  <2>1. (IF request = "terminal" THEN terminalCategory(opErr) ELSE request) \in {"advertisement", "output"} \cup Categories
    BY CategoryOf, <1>10, SendSucceedsCases DEF ErrorTypes, PlaceTypes, None
  <2>2. /\ sent' = Append(sent, IF request = "terminal" THEN terminalCategory(opErr) ELSE request)
        /\ UNCHANGED <<forwarded, audit>>
    BY <1>10, SendSucceedsCases
  <2> QED
    BY <2>1, <2>2, Appended
<1>11. CASE SendFails
  BY <1>11, SendFailsCases DEF AdvResumes, OutResumes, EndResumes, firstError, Replied
<1>12. CASE PumpStops
  BY <1>12 DEF PumpStops
<1>13. CASE ReadOutput
  BY <1>13 DEF ReadOutput
<1>14. CASE OutputEnds
  BY <1>14 DEF OutputEnds, LimitError, cancel, firstError
<1>15. CASE ReceiveFirst
  BY <1>15 DEF ReceiveFirst, Finish
<1>16. CASE command
  BY <1>16 DEF command, Finish
<1>17. CASE writeAccepted
  BY <1>17 DEF writeAccepted, AuditRefused, Finish
<1>18. CASE StartFails
  BY <1>18 DEF StartFails, Finish, cancel, firstError
<1>19. CASE Start
  BY <1>19 DEF Start
<1>20. CASE ParseAdvertisement
  BY <1>20 DEF ParseAdvertisement, LimitError, cancel, firstError
<1>21. CASE ParseReceivePack
  BY <1>21 DEF ParseReceivePack, ReadErrors, classifyReceiveRequestError
<1>22. CASE stopProcess
  BY <1>22 DEF stopProcess, cancel, firstError
<1>23. CASE writePrefix
  <2>1. forwarded' = Append(forwarded, "prefix") \/ forwarded' = forwarded
    BY <1>23 DEF writePrefix
  <2>2. UNCHANGED <<sent, audit>>
    BY <1>23 DEF writePrefix
  <2> QED
    BY <2>1, <2>2, Appended
<1>24. CASE copyRemaining
  <2>1. forwarded' = Append(forwarded, "data") \/ forwarded' = forwarded
    BY <1>24 DEF copyRemaining
  <2>2. UNCHANGED <<sent, audit>>
    BY <1>24 DEF copyRemaining
  <2> QED
    BY <2>1, <2>2, Appended
<1>25. CASE joinOutput
  BY <1>25 DEF joinOutput
<1>26. CASE RecvInput
  BY <1>26 DEF RecvInput, cancel, firstError
<1>27. CASE WriteInput
  <2>1. forwarded' = Append(forwarded, "data") \/ forwarded' = forwarded
    BY <1>27 DEF WriteInput
  <2>2. UNCHANGED <<sent, audit>>
    BY <1>27 DEF WriteInput
  <2> QED
    BY <2>1, <2>2, Appended
<1>28. CASE SelectFirst
  BY <1>28 DEF SelectFirst
<1>29. CASE drainOutput
  BY <1>29 DEF drainOutput
<1>30. CASE Wait
  BY <1>30 DEF Wait, Finish, cancel, firstError, OperationError, waitErr, Reaped, Ended
<1>31. CASE SendFinal
  BY <1>31 DEF SendFinal
<1>32. CASE writeOutcome
  BY <1>32, OutcomeOf DEF writeOutcome, ErrorTypes
<1>33. CASE UNCHANGED vars
  BY <1>33 DEF vars
<1> QED
  BY <1>1, <1>2, <1>3, <1>4, <1>5, <1>6, <1>7, <1>8, <1>9, <1>10, <1>11, <1>12,
     <1>13, <1>14, <1>15, <1>16, <1>17, <1>18, <1>19, <1>20, <1>21, <1>22, <1>23, <1>24,
     <1>25, <1>26, <1>27, <1>28, <1>29, <1>30, <1>31, <1>32, <1>33
     DEF Next, Handler, PumpStep

(* Nothing is there before the process, and it is started only for a granted
   request. *)
LEMMA StartStep ==
  ASSUME SessionInv, [Next]_vars
  PROVE  StartShape' /\ KindShape'
<1> USE DEF SessionInv, Types, PlaceTypes, StartShape, KindShape, PumpShape, Needed, Early,
    Advertising, Closing, Over, None,
            procVars, inVars, outVars, pumpVars, endVars
<1>1. CASE StreamEnds
  BY <1>1 DEF StreamEnds, cancel, firstError
<1>2. CASE IdleTimeout
  BY <1>2 DEF IdleTimeout, cancel, firstError
<1>3. CASE ProviderExits
  BY <1>3 DEF ProviderExits
<1>4. ASSUME NEW how \in Stops, RunnerStops(how) PROVE StartShape' /\ KindShape'
  BY <1>4 DEF RunnerStops, Stops
<1>5. ASSUME NEW r \in Requesters, SendAbandoned(r) PROVE StartShape' /\ KindShape'
  BY <1>5, AbandonedCases DEF AdvResumes, OutResumes, EndResumes, firstError
<1>6. ASSUME NEW r \in Requesters, PumpTakes(r) PROVE StartShape' /\ KindShape'
  BY <1>6 DEF PumpTakes, Offering, Requesters
<1>7. CASE PumpSkips
  BY <1>7, PumpSkipsCases DEF AdvResumes, OutResumes, EndResumes, firstError, Replied
<1>8. CASE PumpChecks
  BY <1>8 DEF PumpChecks
<1>9. CASE PumpSends
  BY <1>9 DEF PumpSends
<1>10. CASE SendSucceeds
  BY <1>10, SendSucceedsCases DEF AdvResumes, OutResumes, EndResumes, firstError, Replied
<1>11. CASE SendFails
  BY <1>11, SendFailsCases DEF AdvResumes, OutResumes, EndResumes, firstError, Replied
<1>12. CASE PumpStops
  BY <1>12 DEF PumpStops
<1>13. CASE ReadOutput
  BY <1>13 DEF ReadOutput
<1>14. CASE OutputEnds
  BY <1>14 DEF OutputEnds, LimitError, cancel, firstError
<1>15. CASE ReceiveFirst
  BY <1>15 DEF ReceiveFirst, Finish
<1>16. CASE command
  BY <1>16 DEF command, Finish
<1>17. CASE writeAccepted
  BY <1>17 DEF writeAccepted, AuditRefused, Finish
<1>18. CASE StartFails
  BY <1>18 DEF StartFails, Finish, cancel, firstError
<1>19. CASE Start
  BY <1>19 DEF Start
<1>20. CASE ParseAdvertisement
  BY <1>20 DEF ParseAdvertisement, LimitError, cancel, firstError
<1>21. CASE ParseReceivePack
  BY <1>21 DEF ParseReceivePack, ReadErrors, classifyReceiveRequestError
<1>22. CASE stopProcess
  BY <1>22 DEF stopProcess, cancel, firstError
<1>23. CASE writePrefix
  BY <1>23 DEF writePrefix, WriteAccepted, LimitError, InputResult, cancel, firstError
<1>24. CASE copyRemaining
  BY <1>24 DEF copyRemaining, WriteAccepted, LimitError, ReadErrors, InputResult, cancel, firstError
<1>25. CASE joinOutput
  BY <1>25 DEF joinOutput
<1>26. CASE RecvInput
  BY <1>26 DEF RecvInput, cancel, firstError
<1>27. CASE WriteInput
  BY <1>27 DEF WriteInput, WriteAccepted, LimitError, cancel, firstError
<1>28. CASE SelectFirst
  BY <1>28 DEF SelectFirst
<1>29. CASE drainOutput
  BY <1>29 DEF drainOutput
<1>30. CASE Wait
  BY <1>30 DEF Wait, Finish, cancel, firstError, OperationError, waitErr, Reaped, Ended
<1>31. CASE SendFinal
  BY <1>31 DEF SendFinal
<1>32. CASE writeOutcome
  BY <1>32 DEF writeOutcome, finishDeliveryError, Outcome
<1>33. CASE UNCHANGED vars
  BY <1>33 DEF vars
<1> QED
  BY <1>1, <1>2, <1>3, <1>4, <1>5, <1>6, <1>7, <1>8, <1>9, <1>10, <1>11, <1>12,
     <1>13, <1>14, <1>15, <1>16, <1>17, <1>18, <1>19, <1>20, <1>21, <1>22, <1>23, <1>24,
     <1>25, <1>26, <1>27, <1>28, <1>29, <1>30, <1>31, <1>32, <1>33
     DEF Next, Handler, PumpStep

(* A push is forwarded only after its verdict, the prefix first. *)
LEMMA PushStep ==
  ASSUME SessionInv, [Next]_vars
  PROVE  PushShape'
<1> USE DEF SessionInv, Types, PlaceTypes, StartShape, KindShape, PushShape, OutputShape, PumpShape,
    Errors, Early, Advertising, Closing, Over, None,
            procVars, inVars, outVars, pumpVars, endVars
<1>1. CASE StreamEnds
  BY <1>1 DEF StreamEnds, cancel, firstError
<1>2. CASE IdleTimeout
  BY <1>2 DEF IdleTimeout, cancel, firstError
<1>3. CASE ProviderExits
  BY <1>3 DEF ProviderExits
<1>4. ASSUME NEW how \in Stops, RunnerStops(how) PROVE PushShape'
  BY <1>4 DEF RunnerStops, Stops
<1>5. ASSUME NEW r \in Requesters, SendAbandoned(r) PROVE PushShape'
  BY <1>5, AbandonedCases DEF AdvResumes, OutResumes, EndResumes, firstError
<1>6. ASSUME NEW r \in Requesters, PumpTakes(r) PROVE PushShape'
  BY <1>6 DEF PumpTakes, Offering, Requesters
<1>7. CASE PumpSkips
  BY <1>7, PumpSkipsCases DEF AdvResumes, OutResumes, EndResumes, firstError, Replied
<1>8. CASE PumpChecks
  BY <1>8 DEF PumpChecks
<1>9. CASE PumpSends
  BY <1>9 DEF PumpSends
<1>10. CASE SendSucceeds
  BY <1>10, SendSucceedsCases DEF AdvResumes, OutResumes, EndResumes, firstError, Replied
<1>11. CASE SendFails
  BY <1>11, SendFailsCases DEF AdvResumes, OutResumes, EndResumes, firstError, Replied
<1>12. CASE PumpStops
  BY <1>12 DEF PumpStops
<1>13. CASE ReadOutput
  BY <1>13 DEF ReadOutput
<1>14. CASE OutputEnds
  BY <1>14 DEF OutputEnds, LimitError, cancel, firstError
<1>15. CASE ReceiveFirst
  BY <1>15 DEF ReceiveFirst, Finish
<1>16. CASE command
  BY <1>16 DEF command, Finish
<1>17. CASE writeAccepted
  BY <1>17 DEF writeAccepted, AuditRefused, Finish
<1>18. CASE StartFails
  BY <1>18 DEF StartFails, Finish, cancel, firstError
<1>19. CASE Start
  BY <1>19 DEF Start
<1>20. CASE ParseAdvertisement
  BY <1>20 DEF ParseAdvertisement, LimitError, cancel, firstError
<1>21. CASE ParseReceivePack
  BY <1>21 DEF ParseReceivePack, ReadErrors, classifyReceiveRequestError
<1>22. CASE stopProcess
  BY <1>22 DEF stopProcess, cancel, firstError
<1>23. CASE writePrefix
  BY <1>23 DEF writePrefix, WriteAccepted, LimitError, InputResult, cancel, firstError
<1>24. CASE copyRemaining
  BY <1>24 DEF copyRemaining, WriteAccepted, LimitError, ReadErrors, InputResult, cancel, firstError
<1>25. CASE joinOutput
  BY <1>25 DEF joinOutput
<1>26. CASE RecvInput
  BY <1>26 DEF RecvInput, cancel, firstError
<1>27. CASE WriteInput
  BY <1>27 DEF WriteInput, WriteAccepted, LimitError, cancel, firstError
<1>28. CASE SelectFirst
  BY <1>28 DEF SelectFirst
<1>29. CASE drainOutput
  BY <1>29 DEF drainOutput
<1>30. CASE Wait
  BY <1>30 DEF Wait, Finish, cancel, firstError, OperationError, waitErr, Reaped, Ended
<1>31. CASE SendFinal
  BY <1>31 DEF SendFinal
<1>32. CASE writeOutcome
  BY <1>32 DEF writeOutcome, finishDeliveryError, Outcome
<1>33. CASE UNCHANGED vars
  BY <1>33 DEF vars
<1> QED
  BY <1>1, <1>2, <1>3, <1>4, <1>5, <1>6, <1>7, <1>8, <1>9, <1>10, <1>11, <1>12,
     <1>13, <1>14, <1>15, <1>16, <1>17, <1>18, <1>19, <1>20, <1>21, <1>22, <1>23, <1>24,
     <1>25, <1>26, <1>27, <1>28, <1>29, <1>30, <1>31, <1>32, <1>33
     DEF Next, Handler, PumpStep

(* The relay of stdout runs between the start of the process and its Wait. *)
LEMMA OutputStep ==
  ASSUME SessionInv, [Next]_vars
  PROVE  OutputShape'
<1> USE DEF SessionInv, Types, PlaceTypes, StartShape, KindShape, PushShape, OutputShape, PumpShape,
    Errors, Early, Advertising, Closing, Over, None,
            procVars, inVars, outVars, pumpVars, endVars
<1>1. CASE StreamEnds
  BY <1>1 DEF StreamEnds, cancel, firstError
<1>2. CASE IdleTimeout
  BY <1>2 DEF IdleTimeout, cancel, firstError
<1>3. CASE ProviderExits
  BY <1>3 DEF ProviderExits
<1>4. ASSUME NEW how \in Stops, RunnerStops(how) PROVE OutputShape'
  BY <1>4 DEF RunnerStops, Stops
<1>5. ASSUME NEW r \in Requesters, SendAbandoned(r) PROVE OutputShape'
  BY <1>5, AbandonedCases DEF AdvResumes, OutResumes, EndResumes, firstError
<1>6. ASSUME NEW r \in Requesters, PumpTakes(r) PROVE OutputShape'
  BY <1>6 DEF PumpTakes, Offering, Requesters
<1>7. CASE PumpSkips
  BY <1>7, PumpSkipsCases DEF AdvResumes, OutResumes, EndResumes, firstError, Replied
<1>8. CASE PumpChecks
  BY <1>8 DEF PumpChecks
<1>9. CASE PumpSends
  BY <1>9 DEF PumpSends
<1>10. CASE SendSucceeds
  BY <1>10, SendSucceedsCases DEF AdvResumes, OutResumes, EndResumes, firstError, Replied
<1>11. CASE SendFails
  BY <1>11, SendFailsCases DEF AdvResumes, OutResumes, EndResumes, firstError, Replied
<1>12. CASE PumpStops
  BY <1>12 DEF PumpStops
<1>13. CASE ReadOutput
  BY <1>13 DEF ReadOutput
<1>14. CASE OutputEnds
  BY <1>14 DEF OutputEnds, LimitError, cancel, firstError
<1>15. CASE ReceiveFirst
  BY <1>15 DEF ReceiveFirst, Finish
<1>16. CASE command
  BY <1>16 DEF command, Finish
<1>17. CASE writeAccepted
  BY <1>17 DEF writeAccepted, AuditRefused, Finish
<1>18. CASE StartFails
  BY <1>18 DEF StartFails, Finish, cancel, firstError
<1>19. CASE Start
  BY <1>19 DEF Start
<1>20. CASE ParseAdvertisement
  BY <1>20 DEF ParseAdvertisement, LimitError, cancel, firstError
<1>21. CASE ParseReceivePack
  BY <1>21 DEF ParseReceivePack, ReadErrors, classifyReceiveRequestError
<1>22. CASE stopProcess
  BY <1>22 DEF stopProcess, cancel, firstError
<1>23. CASE writePrefix
  BY <1>23 DEF writePrefix, WriteAccepted, LimitError, InputResult, cancel, firstError
<1>24. CASE copyRemaining
  BY <1>24 DEF copyRemaining, WriteAccepted, LimitError, ReadErrors, InputResult, cancel, firstError
<1>25. CASE joinOutput
  BY <1>25 DEF joinOutput
<1>26. CASE RecvInput
  BY <1>26 DEF RecvInput, cancel, firstError
<1>27. CASE WriteInput
  BY <1>27 DEF WriteInput, WriteAccepted, LimitError, cancel, firstError
<1>28. CASE SelectFirst
  BY <1>28 DEF SelectFirst
<1>29. CASE drainOutput
  BY <1>29 DEF drainOutput
<1>30. CASE Wait
  BY <1>30 DEF Wait, Finish, cancel, firstError, OperationError, waitErr, Reaped, Ended
<1>31. CASE SendFinal
  BY <1>31 DEF SendFinal
<1>32. CASE writeOutcome
  BY <1>32 DEF writeOutcome, finishDeliveryError, Outcome
<1>33. CASE UNCHANGED vars
  BY <1>33 DEF vars
<1> QED
  BY <1>1, <1>2, <1>3, <1>4, <1>5, <1>6, <1>7, <1>8, <1>9, <1>10, <1>11, <1>12,
     <1>13, <1>14, <1>15, <1>16, <1>17, <1>18, <1>19, <1>20, <1>21, <1>22, <1>23, <1>24,
     <1>25, <1>26, <1>27, <1>28, <1>29, <1>30, <1>31, <1>32, <1>33
     DEF Next, Handler, PumpStep

(* The pump takes one request at a time and drops it when it has replied. *)
LEMMA PumpStepShape ==
  ASSUME SessionInv, [Next]_vars
  PROVE  PumpShape'
<1> USE DEF SessionInv, Types, PlaceTypes, StartShape, KindShape, PushShape, OutputShape, PumpShape,
    Errors, Early, Advertising, Closing, Over, None,
            procVars, inVars, outVars, pumpVars, endVars
<1>1. CASE StreamEnds
  BY <1>1 DEF StreamEnds, cancel, firstError
<1>2. CASE IdleTimeout
  BY <1>2 DEF IdleTimeout, cancel, firstError
<1>3. CASE ProviderExits
  BY <1>3 DEF ProviderExits
<1>4. ASSUME NEW how \in Stops, RunnerStops(how) PROVE PumpShape'
  BY <1>4 DEF RunnerStops, Stops
<1>5. ASSUME NEW r \in Requesters, SendAbandoned(r) PROVE PumpShape'
  BY <1>5, AbandonedCases DEF AdvResumes, OutResumes, EndResumes, firstError
<1>6. ASSUME NEW r \in Requesters, PumpTakes(r) PROVE PumpShape'
  BY <1>6 DEF PumpTakes, Offering, Requesters
<1>7. CASE PumpSkips
  BY <1>7, PumpSkipsCases DEF AdvResumes, OutResumes, EndResumes, firstError, Replied
<1>8. CASE PumpChecks
  BY <1>8 DEF PumpChecks
<1>9. CASE PumpSends
  BY <1>9 DEF PumpSends
<1>10. CASE SendSucceeds
  BY <1>10, SendSucceedsCases DEF AdvResumes, OutResumes, EndResumes, firstError, Replied
<1>11. CASE SendFails
  BY <1>11, SendFailsCases DEF AdvResumes, OutResumes, EndResumes, firstError, Replied
<1>12. CASE PumpStops
  BY <1>12 DEF PumpStops
<1>13. CASE ReadOutput
  BY <1>13 DEF ReadOutput
<1>14. CASE OutputEnds
  BY <1>14 DEF OutputEnds, LimitError, cancel, firstError
<1>15. CASE ReceiveFirst
  BY <1>15 DEF ReceiveFirst, Finish
<1>16. CASE command
  BY <1>16 DEF command, Finish
<1>17. CASE writeAccepted
  BY <1>17 DEF writeAccepted, AuditRefused, Finish
<1>18. CASE StartFails
  BY <1>18 DEF StartFails, Finish, cancel, firstError
<1>19. CASE Start
  BY <1>19 DEF Start
<1>20. CASE ParseAdvertisement
  BY <1>20 DEF ParseAdvertisement, LimitError, cancel, firstError
<1>21. CASE ParseReceivePack
  BY <1>21 DEF ParseReceivePack, ReadErrors, classifyReceiveRequestError
<1>22. CASE stopProcess
  BY <1>22 DEF stopProcess, cancel, firstError
<1>23. CASE writePrefix
  BY <1>23 DEF writePrefix, WriteAccepted, LimitError, InputResult, cancel, firstError
<1>24. CASE copyRemaining
  BY <1>24 DEF copyRemaining, WriteAccepted, LimitError, ReadErrors, InputResult, cancel, firstError
<1>25. CASE joinOutput
  BY <1>25 DEF joinOutput
<1>26. CASE RecvInput
  BY <1>26 DEF RecvInput, cancel, firstError
<1>27. CASE WriteInput
  BY <1>27 DEF WriteInput, WriteAccepted, LimitError, cancel, firstError
<1>28. CASE SelectFirst
  BY <1>28 DEF SelectFirst
<1>29. CASE drainOutput
  BY <1>29 DEF drainOutput
<1>30. CASE Wait
  BY <1>30 DEF Wait, Finish, cancel, firstError, OperationError, waitErr, Reaped, Ended
<1>31. CASE SendFinal
  BY <1>31 DEF SendFinal
<1>32. CASE writeOutcome
  BY <1>32 DEF writeOutcome, finishDeliveryError, Outcome
<1>33. CASE UNCHANGED vars
  BY <1>33 DEF vars
<1> QED
  BY <1>1, <1>2, <1>3, <1>4, <1>5, <1>6, <1>7, <1>8, <1>9, <1>10, <1>11, <1>12,
     <1>13, <1>14, <1>15, <1>16, <1>17, <1>18, <1>19, <1>20, <1>21, <1>22, <1>23, <1>24,
     <1>25, <1>26, <1>27, <1>28, <1>29, <1>30, <1>31, <1>32, <1>33
     DEF Next, Handler, PumpStep

(* Nothing is sent after the terminal frame. *)
LEMMA TerminalStep ==
  ASSUME SessionInv, [Next]_vars
  PROVE  TerminalIsLast'
<1> USE DEF SessionInv, Types, PlaceTypes, StartShape, KindShape, PushShape, OutputShape, PumpShape,
    TerminalIsLast, Told, Errors, Early, Advertising, Closing, Over, None,
            procVars, inVars, outVars, pumpVars, endVars
<1>1. CASE StreamEnds
  BY <1>1 DEF StreamEnds, cancel, firstError
<1>2. CASE IdleTimeout
  BY <1>2 DEF IdleTimeout, cancel, firstError
<1>3. CASE ProviderExits
  BY <1>3 DEF ProviderExits
<1>4. ASSUME NEW how \in Stops, RunnerStops(how) PROVE TerminalIsLast'
  BY <1>4 DEF RunnerStops, Stops
<1>5. ASSUME NEW r \in Requesters, SendAbandoned(r) PROVE TerminalIsLast'
  BY <1>5, AbandonedCases DEF AdvResumes, OutResumes, EndResumes, firstError
<1>6. ASSUME NEW r \in Requesters, PumpTakes(r) PROVE TerminalIsLast'
  BY <1>6 DEF PumpTakes, Offering, Requesters
<1>7. CASE PumpSkips
  BY <1>7, PumpSkipsCases DEF AdvResumes, OutResumes, EndResumes, firstError, Replied
<1>8. CASE PumpChecks
  BY <1>8 DEF PumpChecks
<1>9. CASE PumpSends
  BY <1>9 DEF PumpSends
<1>10. CASE SendSucceeds
  <2>1. CASE request = "terminal"
    BY <1>10, <2>1, SendSucceedsCases, Delivered, CategoryOf
       DEF AdvResumes, OutResumes, EndResumes, Replied
  <2>2. CASE request # "terminal"
    BY <1>10, <2>2, SendSucceedsCases, Delivered
       DEF AdvResumes, OutResumes, EndResumes, Replied
  <2> QED
    BY <2>1, <2>2
<1>11. CASE SendFails
  BY <1>11, SendFailsCases DEF AdvResumes, OutResumes, EndResumes, firstError, Replied
<1>12. CASE PumpStops
  BY <1>12 DEF PumpStops
<1>13. CASE ReadOutput
  BY <1>13 DEF ReadOutput
<1>14. CASE OutputEnds
  BY <1>14 DEF OutputEnds, LimitError, cancel, firstError
<1>15. CASE ReceiveFirst
  BY <1>15 DEF ReceiveFirst, Finish
<1>16. CASE command
  BY <1>16 DEF command, Finish
<1>17. CASE writeAccepted
  BY <1>17 DEF writeAccepted, AuditRefused, Finish
<1>18. CASE StartFails
  BY <1>18 DEF StartFails, Finish, cancel, firstError
<1>19. CASE Start
  BY <1>19 DEF Start
<1>20. CASE ParseAdvertisement
  BY <1>20 DEF ParseAdvertisement, LimitError, cancel, firstError
<1>21. CASE ParseReceivePack
  BY <1>21 DEF ParseReceivePack, ReadErrors, classifyReceiveRequestError
<1>22. CASE stopProcess
  BY <1>22 DEF stopProcess, cancel, firstError
<1>23. CASE writePrefix
  BY <1>23 DEF writePrefix, WriteAccepted, LimitError, InputResult, cancel, firstError
<1>24. CASE copyRemaining
  BY <1>24 DEF copyRemaining, WriteAccepted, LimitError, ReadErrors, InputResult, cancel, firstError
<1>25. CASE joinOutput
  BY <1>25 DEF joinOutput
<1>26. CASE RecvInput
  BY <1>26 DEF RecvInput, cancel, firstError
<1>27. CASE WriteInput
  BY <1>27 DEF WriteInput, WriteAccepted, LimitError, cancel, firstError
<1>28. CASE SelectFirst
  BY <1>28 DEF SelectFirst
<1>29. CASE drainOutput
  BY <1>29 DEF drainOutput
<1>30. CASE Wait
  BY <1>30 DEF Wait, Finish, cancel, firstError, OperationError, waitErr, Reaped, Ended
<1>31. CASE SendFinal
  BY <1>31 DEF SendFinal
<1>32. CASE writeOutcome
  BY <1>32 DEF writeOutcome, finishDeliveryError, Outcome
<1>33. CASE UNCHANGED vars
  BY <1>33 DEF vars
<1> QED
  BY <1>1, <1>2, <1>3, <1>4, <1>5, <1>6, <1>7, <1>8, <1>9, <1>10, <1>11, <1>12,
     <1>13, <1>14, <1>15, <1>16, <1>17, <1>18, <1>19, <1>20, <1>21, <1>22, <1>23, <1>24,
     <1>25, <1>26, <1>27, <1>28, <1>29, <1>30, <1>31, <1>32, <1>33
     DEF Next, Handler, PumpStep

(* Every chunk that was read is sent before the next is read. *)
LEMMA CountStep ==
  ASSUME SessionInv, [Next]_vars
  PROVE  OutputIsCounted'
<1> USE SessionAssumption DEF SessionInv, Types, PlaceTypes, StartShape, KindShape, PushShape,
    OutputShape, PumpShape, TerminalIsLast, OutputIsCounted, Told, Preceding, Terminal, CountTypes,
    SessionAssumption, Errors, Early, Advertising, Closing, Over, None,
            procVars, inVars, outVars, pumpVars, endVars
<1>1. CASE StreamEnds
  BY <1>1 DEF StreamEnds, cancel, firstError
<1>2. CASE IdleTimeout
  BY <1>2 DEF IdleTimeout, cancel, firstError
<1>3. CASE ProviderExits
  BY <1>3 DEF ProviderExits
<1>4. ASSUME NEW how \in Stops, RunnerStops(how) PROVE OutputIsCounted'
  BY <1>4 DEF RunnerStops, Stops
<1>5. ASSUME NEW r \in Requesters, SendAbandoned(r) PROVE OutputIsCounted'
  BY <1>5, AbandonedCases DEF AdvResumes, OutResumes, EndResumes, firstError
<1>6. ASSUME NEW r \in Requesters, PumpTakes(r) PROVE OutputIsCounted'
  BY <1>6 DEF PumpTakes, Offering, Requesters
<1>7. CASE PumpSkips
  <2>1. CASE request = "terminal"
    BY <1>7, <2>1, PumpSkipsCases DEF EndResumes, Replied
  <2>2. CASE request = "output"
    BY <1>7, <2>2, PumpSkipsCases DEF OutResumes, Replied, firstError
  <2>3. CASE request = "advertisement"
    BY <1>7, <2>3, PumpSkipsCases DEF AdvResumes, Replied
  <2> QED
    BY <1>7, <2>1, <2>2, <2>3, PumpSkipsCases
<1>8. CASE PumpChecks
  BY <1>8 DEF PumpChecks
<1>9. CASE PumpSends
  BY <1>9 DEF PumpSends
<1>10. CASE SendSucceeds
  <2>1. CASE request = "terminal"
    BY <1>10, <2>1, SendSucceedsCases, Delivered
       DEF AdvResumes, OutResumes, EndResumes, Replied
  <2>2. CASE request = "output"
    BY <1>10, <2>2, SendSucceedsCases, Delivered
       DEF AdvResumes, OutResumes, EndResumes, Replied
  <2>3. CASE request = "advertisement"
    <3>1. kind = "receive" /\ output = None /\ outputErr = None
      BY <2>3
    <3>2. CASE pc = "adv_await"
      <4>1. Len(sent) = 0
        BY <3>2
      <4>2. Len(sent') = 1 /\ request' = None /\ pc' \in {"parse", "stop"} /\ output' = None /\ outputErr' = None
        BY <1>10, <2>3, <3>1, <3>2, <4>1, SendSucceedsCases, Delivered DEF AdvResumes, Replied
      <4> QED
        BY <4>2
    <3>3. CASE pc # "adv_await"
      BY <1>10, <2>3, <3>1, <3>3, SendSucceedsCases DEF Replied
    <3> QED
      BY <3>2, <3>3
  <2> QED
    BY <1>10, <2>1, <2>2, <2>3, SendSucceedsCases
<1>11. CASE SendFails
  <2>0. PICK err \in Errors : Replied(err)
    BY <1>11, SendFailsCases
  <2>1. CASE request = "terminal"
    BY <1>11, <2>0, <2>1, SendFailsCases DEF EndResumes, Replied
  <2>2. CASE request = "output"
    BY <1>11, <2>0, <2>2, SendFailsCases DEF OutResumes, Replied, firstError
  <2>3. CASE request = "advertisement"
    BY <1>11, <2>0, <2>3, SendFailsCases DEF AdvResumes, Replied
  <2> QED
    BY <1>11, <2>1, <2>2, <2>3, SendFailsCases
<1>12. CASE PumpStops
  BY <1>12 DEF PumpStops
<1>13. CASE ReadOutput
  BY <1>13 DEF ReadOutput
<1>14. CASE OutputEnds
  BY <1>14 DEF OutputEnds, LimitError, cancel, firstError
<1>15. CASE ReceiveFirst
  BY <1>15 DEF ReceiveFirst, Finish
<1>16. CASE command
  BY <1>16 DEF command, Finish
<1>17. CASE writeAccepted
  BY <1>17 DEF writeAccepted, AuditRefused, Finish
<1>18. CASE StartFails
  BY <1>18 DEF StartFails, Finish, cancel, firstError
<1>19. CASE Start
  BY <1>19 DEF Start
<1>20. CASE ParseAdvertisement
  BY <1>20 DEF ParseAdvertisement, LimitError, cancel, firstError
<1>21. CASE ParseReceivePack
  <2>1. /\ kind = "receive" /\ output = None /\ chunks = MaxChunks /\ Len(sent) = 1 /\ ~Told /\ request = None
        /\ sent' = sent /\ chunks' = chunks /\ kind' = kind /\ request' = request
        /\ pc' \in {"prefix", "stop"} /\ output' \in {None, "read"}
    BY <1>21 DEF ParseReceivePack
  <2> QED
    BY <2>1
<1>22. CASE stopProcess
  BY <1>22 DEF stopProcess, cancel, firstError
<1>23. CASE writePrefix
  BY <1>23 DEF writePrefix, WriteAccepted, LimitError, InputResult, cancel, firstError
<1>24. CASE copyRemaining
  BY <1>24 DEF copyRemaining, WriteAccepted, LimitError, ReadErrors, InputResult, cancel, firstError
<1>25. CASE joinOutput
  BY <1>25 DEF joinOutput
<1>26. CASE RecvInput
  BY <1>26 DEF RecvInput, cancel, firstError
<1>27. CASE WriteInput
  BY <1>27 DEF WriteInput, WriteAccepted, LimitError, cancel, firstError
<1>28. CASE SelectFirst
  BY <1>28 DEF SelectFirst
<1>29. CASE drainOutput
  BY <1>29 DEF drainOutput
<1>30. CASE Wait
  BY <1>30 DEF Wait, Finish, cancel, firstError, OperationError, waitErr, Reaped, Ended
<1>31. CASE SendFinal
  BY <1>31 DEF SendFinal
<1>32. CASE writeOutcome
  BY <1>32 DEF writeOutcome, finishDeliveryError, Outcome
<1>33. CASE UNCHANGED vars
  BY <1>33 DEF vars
<1> QED
  BY <1>1, <1>2, <1>3, <1>4, <1>5, <1>6, <1>7, <1>8, <1>9, <1>10, <1>11, <1>12,
     <1>13, <1>14, <1>15, <1>16, <1>17, <1>18, <1>19, <1>20, <1>21, <1>22, <1>23, <1>24,
     <1>25, <1>26, <1>27, <1>28, <1>29, <1>30, <1>31, <1>32, <1>33
     DEF Next, Handler, PumpStep

(* An error that anyone met is an error of the operation. *)
LEMMA CompletedStep ==
  ASSUME SessionInv, [Next]_vars
  PROVE  CompletedIsComplete'
<1> USE DEF SessionInv, Types, PlaceTypes, StartShape, KindShape, PushShape, OutputShape, PumpShape,
    CompletedIsComplete, Errors, Early, Advertising, Closing, Over, None,
            procVars, inVars, outVars, pumpVars, endVars
<1>1. CASE StreamEnds
  BY <1>1 DEF StreamEnds, cancel, firstError
<1>2. CASE IdleTimeout
  BY <1>2 DEF IdleTimeout, cancel, firstError
<1>3. CASE ProviderExits
  BY <1>3 DEF ProviderExits
<1>4. ASSUME NEW how \in Stops, RunnerStops(how) PROVE CompletedIsComplete'
  BY <1>4 DEF RunnerStops, Stops
<1>5. ASSUME NEW r \in Requesters, SendAbandoned(r) PROVE CompletedIsComplete'
  BY <1>5, AbandonedCases DEF AdvResumes, OutResumes, EndResumes, firstError
<1>6. ASSUME NEW r \in Requesters, PumpTakes(r) PROVE CompletedIsComplete'
  BY <1>6 DEF PumpTakes, Offering, Requesters
<1>7. CASE PumpSkips
  BY <1>7, PumpSkipsCases DEF AdvResumes, OutResumes, EndResumes, firstError, Replied
<1>8. CASE PumpChecks
  BY <1>8 DEF PumpChecks
<1>9. CASE PumpSends
  BY <1>9 DEF PumpSends
<1>10. CASE SendSucceeds
  BY <1>10, SendSucceedsCases DEF AdvResumes, OutResumes, EndResumes, firstError, Replied
<1>11. CASE SendFails
  BY <1>11, SendFailsCases DEF AdvResumes, OutResumes, EndResumes, firstError, Replied
<1>12. CASE PumpStops
  BY <1>12 DEF PumpStops
<1>13. CASE ReadOutput
  BY <1>13 DEF ReadOutput
<1>14. CASE OutputEnds
  BY <1>14 DEF OutputEnds, LimitError, cancel, firstError
<1>15. CASE ReceiveFirst
  BY <1>15 DEF ReceiveFirst, Finish
<1>16. CASE command
  BY <1>16 DEF command, Finish
<1>17. CASE writeAccepted
  BY <1>17 DEF writeAccepted, AuditRefused, Finish
<1>18. CASE StartFails
  BY <1>18 DEF StartFails, Finish, cancel, firstError
<1>19. CASE Start
  BY <1>19 DEF Start
<1>20. CASE ParseAdvertisement
  BY <1>20 DEF ParseAdvertisement, LimitError, cancel, firstError
<1>21. CASE ParseReceivePack
  BY <1>21 DEF ParseReceivePack, ReadErrors, classifyReceiveRequestError
<1>22. CASE stopProcess
  BY <1>22 DEF stopProcess, cancel, firstError
<1>23. CASE writePrefix
  BY <1>23 DEF writePrefix, WriteAccepted, LimitError, InputResult, cancel, firstError
<1>24. CASE copyRemaining
  BY <1>24 DEF copyRemaining, WriteAccepted, LimitError, ReadErrors, InputResult, cancel, firstError
<1>25. CASE joinOutput
  BY <1>25 DEF joinOutput
<1>26. CASE RecvInput
  BY <1>26 DEF RecvInput, cancel, firstError
<1>27. CASE WriteInput
  BY <1>27 DEF WriteInput, WriteAccepted, LimitError, cancel, firstError
<1>28. CASE SelectFirst
  BY <1>28 DEF SelectFirst
<1>29. CASE drainOutput
  BY <1>29 DEF drainOutput
<1>30. CASE Wait
  BY <1>30 DEF Wait, Finish, cancel, firstError, OperationError, waitErr, Reaped, Ended
<1>31. CASE SendFinal
  BY <1>31 DEF SendFinal
<1>32. CASE writeOutcome
  BY <1>32 DEF writeOutcome, finishDeliveryError, Outcome
<1>33. CASE UNCHANGED vars
  BY <1>33 DEF vars
<1> QED
  BY <1>1, <1>2, <1>3, <1>4, <1>5, <1>6, <1>7, <1>8, <1>9, <1>10, <1>11, <1>12,
     <1>13, <1>14, <1>15, <1>16, <1>17, <1>18, <1>19, <1>20, <1>21, <1>22, <1>23, <1>24,
     <1>25, <1>26, <1>27, <1>28, <1>29, <1>30, <1>31, <1>32, <1>33
     DEF Next, Handler, PumpStep

(* The accepted event, then the outcome. *)
LEMMA AuditStep ==
  ASSUME SessionInv, [Next]_vars
  PROVE  AuditShape'
<1> USE DEF SessionInv, Types, PlaceTypes, StartShape, OutputShape, PumpShape, AuditShape, Errors,
    Early, Advertising, Closing, Over, None,
            procVars, inVars, outVars, pumpVars, endVars
<1>1. CASE StreamEnds
  BY <1>1 DEF StreamEnds, cancel, firstError
<1>2. CASE IdleTimeout
  BY <1>2 DEF IdleTimeout, cancel, firstError
<1>3. CASE ProviderExits
  BY <1>3 DEF ProviderExits
<1>4. ASSUME NEW how \in Stops, RunnerStops(how) PROVE AuditShape'
  BY <1>4 DEF RunnerStops, Stops
<1>5. ASSUME NEW r \in Requesters, SendAbandoned(r) PROVE AuditShape'
  BY <1>5, AbandonedCases DEF AdvResumes, OutResumes, EndResumes, firstError
<1>6. ASSUME NEW r \in Requesters, PumpTakes(r) PROVE AuditShape'
  BY <1>6 DEF PumpTakes, Offering, Requesters
<1>7. CASE PumpSkips
  BY <1>7, PumpSkipsCases DEF AdvResumes, OutResumes, EndResumes, firstError, Replied
<1>8. CASE PumpChecks
  BY <1>8 DEF PumpChecks
<1>9. CASE PumpSends
  BY <1>9 DEF PumpSends
<1>10. CASE SendSucceeds
  BY <1>10, SendSucceedsCases DEF AdvResumes, OutResumes, EndResumes, firstError, Replied
<1>11. CASE SendFails
  BY <1>11, SendFailsCases DEF AdvResumes, OutResumes, EndResumes, firstError, Replied
<1>12. CASE PumpStops
  BY <1>12 DEF PumpStops
<1>13. CASE ReadOutput
  BY <1>13 DEF ReadOutput
<1>14. CASE OutputEnds
  BY <1>14 DEF OutputEnds, LimitError, cancel, firstError
<1>15. CASE ReceiveFirst
  BY <1>15 DEF ReceiveFirst, Finish
<1>16. CASE command
  BY <1>16 DEF command, Finish
<1>17. CASE writeAccepted
  BY <1>17 DEF writeAccepted, AuditRefused, Finish
<1>18. CASE StartFails
  BY <1>18 DEF StartFails, Finish, cancel, firstError
<1>19. CASE Start
  BY <1>19 DEF Start
<1>20. CASE ParseAdvertisement
  BY <1>20 DEF ParseAdvertisement, LimitError, cancel, firstError
<1>21. CASE ParseReceivePack
  BY <1>21 DEF ParseReceivePack, ReadErrors, classifyReceiveRequestError
<1>22. CASE stopProcess
  BY <1>22 DEF stopProcess, cancel, firstError
<1>23. CASE writePrefix
  BY <1>23 DEF writePrefix, WriteAccepted, LimitError, InputResult, cancel, firstError
<1>24. CASE copyRemaining
  BY <1>24 DEF copyRemaining, WriteAccepted, LimitError, ReadErrors, InputResult, cancel, firstError
<1>25. CASE joinOutput
  BY <1>25 DEF joinOutput
<1>26. CASE RecvInput
  BY <1>26 DEF RecvInput, cancel, firstError
<1>27. CASE WriteInput
  BY <1>27 DEF WriteInput, WriteAccepted, LimitError, cancel, firstError
<1>28. CASE SelectFirst
  BY <1>28 DEF SelectFirst
<1>29. CASE drainOutput
  BY <1>29 DEF drainOutput
<1>30. CASE Wait
  BY <1>30 DEF Wait, Finish, cancel, firstError, OperationError, waitErr, Reaped, Ended
<1>31. CASE SendFinal
  BY <1>31 DEF SendFinal
<1>32. CASE writeOutcome
  <2> DEFINE o == Outcome(opErr)
  <2>1. /\ o' = o /\ proc' = proc /\ pc = "outcome" /\ pc' = "returned" /\ deliveryErr' = deliveryErr
        /\ \/ audit' = Append(audit, o) /\ status' \in {"ok", "unavailable"}
           \/ audit' = audit /\ status' = "unavailable"
        /\ status' = "ok" => deliveryErr' = None
    BY <1>32 DEF writeOutcome, finishDeliveryError, Outcome
  <2> HIDE DEF o
  <2>2. audit \in {<<>>, <<"accepted">>} /\ (proc # None => audit = <<"accepted">>)
    BY <2>1
  <2>3. \/ audit' = audit
        \/ audit' = <<o>> /\ audit = <<>>
        \/ audit' = <<"accepted", o>> /\ audit = <<"accepted">>
    <3>1. Append(<<>>, o) = <<o>> /\ Append(<<"accepted">>, o) = <<"accepted", o>>
      BY SecondAppended, OutcomeOf DEF o, ErrorTypes
    <3>2. CASE audit = <<>>
      BY <2>1, <3>1, <3>2
    <3>3. CASE audit = <<"accepted">>
      <4>1. Append(audit, o) = <<"accepted", o>>
        BY <3>1, <3>3, Zenon
      <4>2. audit' = audit \/ audit' = Append(audit, o)
        BY <2>1
      <4> QED
        BY <3>3, <4>1, <4>2, Zenon
    <3> QED
      BY <2>2, <3>2, <3>3
  <2>4. CASE audit' = audit /\ status' = "unavailable"
    BY <2>1, <2>2, <2>4
  <2>5. CASE audit' = <<o>> /\ audit = <<>>
    BY <2>1, <2>2, <2>5 DEF o
  <2>6. CASE audit' = <<"accepted", o>> /\ audit = <<"accepted">>
    BY <2>1, <2>2, <2>6 DEF o
  <2> QED
    BY <2>1, <2>2, <2>3, <2>4, <2>5, <2>6
<1>33. CASE UNCHANGED vars
  BY <1>33 DEF vars
<1> QED
  BY <1>1, <1>2, <1>3, <1>4, <1>5, <1>6, <1>7, <1>8, <1>9, <1>10, <1>11, <1>12,
     <1>13, <1>14, <1>15, <1>16, <1>17, <1>18, <1>19, <1>20, <1>21, <1>22, <1>23, <1>24,
     <1>25, <1>26, <1>27, <1>28, <1>29, <1>30, <1>31, <1>32, <1>33
     DEF Next, Handler, PumpStep

(* A session starts in such a state. *)
LEMMA SessionInvInit == Init => SessionInv
<1> SUFFICES ASSUME Init PROVE SessionInv
  OBVIOUS
<1>1. ErrorTypes /\ PlaceTypes /\ FlagTypes
  BY DEF Init, ErrorTypes, PlaceTypes, FlagTypes, Early
<1>2. CountTypes /\ SeqTypes
  BY SessionAssumption DEF Init, CountTypes, SeqTypes, SessionAssumption
<1>3. StartShape /\ KindShape /\ PushShape
  BY DEF Init, StartShape, KindShape, PushShape, Early, Advertising, Closing, None
<1>4. OutputShape /\ PumpShape /\ CompletedIsComplete /\ AuditShape
  BY DEF Init, OutputShape, PumpShape, CompletedIsComplete, AuditShape, Early, Advertising, Closing,
     Over, None
<1>5. ~Told /\ Len(sent) = 0
  BY DEF Init, Told
<1>6. TerminalIsLast /\ OutputIsCounted
  BY <1>5 DEF Init, TerminalIsLast, OutputIsCounted, Over, Early, None
<1> QED
  BY <1>1, <1>2, <1>3, <1>4, <1>6 DEF SessionInv, Types

(* The inductive invariant, for all time. *)
THEOREM SessionInvariant == Spec => []SessionInv
<1>1. Init => SessionInv
  BY SessionInvInit
<1>2. SessionInv /\ [Next]_vars => SessionInv'
  <2> SUFFICES ASSUME SessionInv, [Next]_vars PROVE SessionInv'
    OBVIOUS
  <2>1. Types'
    BY ErrorTypesStep, PlaceTypesStep, FlagTypesStep, CountTypesStep, SeqTypesStep DEF Types
  <2>2. StartShape' /\ KindShape' /\ PushShape' /\ OutputShape' /\ PumpShape'
    BY StartStep, PushStep, OutputStep, PumpStepShape
  <2>3. TerminalIsLast' /\ OutputIsCounted' /\ CompletedIsComplete' /\ AuditShape'
    BY TerminalStep, CountStep, CompletedStep, AuditStep
  <2> QED
    BY <2>1, <2>2, <2>3 DEF SessionInv
<1> QED
  BY <1>1, <1>2, PTL DEF Spec

(* The state of a session keeps its types, whatever the client, the        *)
(* provider and the timers do.                                             *)
THEOREM SessionTypeOK == Spec => []TypeOK
<1>1. SessionInv => TypeOK
  BY DEF SessionInv, Types, ErrorTypes, PlaceTypes, FlagTypes, CountTypes, SeqTypes,
         Early, Advertising, Closing, TypeOK
<1> QED
  BY <1>1, SessionInvariant, PTL

(* The terminal frame is the last frame of the stream, and an RPC that     *)
(* returns OK has delivered it and recorded an outcome that agrees with it *)
(* (sendPump, finish and finishDeliveryError).                             *)
THEOREM OkIsAlwaysTold == Spec => []OkMeansTold
<1>1. SessionInv => OkMeansTold
  <2> SUFFICES ASSUME SessionInv PROVE OkMeansTold
    OBVIOUS
  <2> USE DEF SessionInv, Types
  <2>1. \A i \in DOMAIN sent : sent[i] \in Categories => i = Len(sent)
    BY DEF TerminalIsLast, SeqTypes
  <2>2. ASSUME status = "ok"
        PROVE  /\ sent # <<>> /\ sent[Len(sent)] \in Categories /\ audit # <<>>
               /\ (sent[Len(sent)] = "completed") = (audit[Len(audit)] = "completed")
               /\ sent[Len(sent)] = "permission_denied" => audit[Len(audit)] = "denied"
    <3>1. pc = "returned" /\ deliveryErr = None
      BY <2>2 DEF AuditShape, None
    <3>2. Told /\ sent[Len(sent)] = terminalCategory(opErr)
      BY <3>1 DEF TerminalIsLast, Over
    <3>3. audit # <<>> /\ audit[Len(audit)] = Outcome(opErr)
      <4>1. audit \in {<<Outcome(opErr)>>, <<"accepted", Outcome(opErr)>>}
        BY <2>2, <3>1 DEF AuditShape
      <4>2. CASE audit = <<Outcome(opErr)>>
        BY <4>2
      <4>3. CASE audit = <<"accepted", Outcome(opErr)>>
        BY <4>3
      <4> QED
        BY <4>1, <4>2, <4>3
    <3>4. opErr \in Errors \cup {None}
      BY DEF ErrorTypes
    <3>5. (sent[Len(sent)] = "completed") <=> (audit[Len(audit)] = "completed")
      BY <3>2, <3>3, <3>4, CategoryOf, OutcomeOf
    <3>6. sent[Len(sent)] = "permission_denied" => audit[Len(audit)] = "denied"
      BY <3>2, <3>3, <3>4, CategoryOf, OutcomeOf
    <3> QED
      BY <3>2, <3>3, <3>5, <3>6 DEF Told
  <2> QED
    BY <2>1, <2>2 DEF OkMeansTold
<1> QED
  BY <1>1, SessionInvariant, PTL

(* A session that reports COMPLETED has relayed every chunk the provider   *)
(* wrote, and of a push everything the client sent.                        *)
THEOREM CompletedIsAlwaysDelivered == Spec => []CompletedMeansDelivered
<1>1. SessionInv => CompletedMeansDelivered
  <2> SUFFICES ASSUME SessionInv, sent # <<>>, sent[Len(sent)] = "completed"
               PROVE  /\ proc = "exit_0"
                      /\ Len(sent) = (MaxChunks - chunks) + (IF kind = "receive" THEN 2 ELSE 1)
                      /\ kind = "receive" => verdict = "accepted" /\ frames = 0 /\ inputErr = None
    BY DEF CompletedMeansDelivered
  <2> USE DEF SessionInv, Types
  <2>1. Told
    BY DEF Told, Categories
  <2>2. pc \in Over /\ opErr = None /\ request = None
    BY <2>1, CategoryOf DEF TerminalIsLast, ErrorTypes
  <2>3. /\ proc = "exit_0" /\ output = "done" /\ outputErr = None
        /\ kind = "receive" => verdict = "accepted" /\ inputErr = None
    BY <2>2 DEF CompletedIsComplete, Over, Closing
  <2>4. Len(sent) = Preceding + (MaxChunks - chunks) + 1
    BY <2>1, <2>3 DEF OutputIsCounted, Terminal
  <2>5. Len(sent) = (MaxChunks - chunks) + (IF kind = "receive" THEN 2 ELSE 1)
    BY <2>4, SessionAssumption DEF Preceding, CountTypes, SessionAssumption
  <2>6. kind = "receive" => frames = 0
    BY <2>2, <2>3 DEF PushShape, Over, Closing
  <2> QED
    BY <2>3, <2>5, <2>6
<1> QED
  BY <1>1, SessionInvariant, PTL

(* No byte of a push that was not accepted, or whose principal may not     *)
(* read and write the repository, reaches the provider.                    *)
THEOREM RefusedPushAlwaysStaysHere == Spec => []RefusedPushStaysHere
<1>1. SessionInv => RefusedPushStaysHere
  <2> SUFFICES ASSUME SessionInv, kind = "receive", forwarded # <<>>
               PROVE  verdict = "accepted" /\ {"read", "write"} \subseteq grants /\ forwarded[1] = "prefix"
    BY DEF RefusedPushStaysHere
  <2>1. verdict = "accepted" /\ forwarded[1] = "prefix"
    BY DEF SessionInv, PushShape
  <2>2. proc # None
    BY DEF SessionInv, StartShape
  <2> QED
    BY <2>1, <2>2 DEF SessionInv, StartShape, Needed
<1> QED
  BY <1>1, SessionInvariant, PTL

(* The accepted event is written before the process is started, and a      *)
(* session that does not return "unavailable" has written its outcome.     *)
THEOREM AuditIsAlwaysPaired == Spec => []AuditPair
<1>1. SessionInv => AuditPair
  <2> SUFFICES ASSUME SessionInv PROVE AuditPair
    OBVIOUS
  <2> DEFINE o == Outcome(opErr)
  <2>1. o \in {"completed", "denied", "cancelled", "failed"}
    BY OutcomeOf DEF SessionInv, Types, ErrorTypes
  <2>2. /\ audit \in {<<>>, <<"accepted">>, <<o>>, <<"accepted", o>>}
        /\ pc = "returned" => status = "unavailable" \/ audit \in {<<o>>, <<"accepted", o>>}
        /\ proc # None => audit # <<>> /\ audit[1] = "accepted"
    <3>1. CASE pc \in Closing
      BY <3>1 DEF SessionInv, AuditShape, Closing
    <3>2. CASE pc \in {"first", "authorize", "accept"}
      BY <3>2 DEF SessionInv, AuditShape, StartShape, Early, Closing
    <3>3. CASE pc \notin {"first", "authorize", "accept"} \cup Closing
      BY <3>3 DEF SessionInv, AuditShape, Closing
    <3> QED
      BY <3>1, <3>2, <3>3
  <2> HIDE DEF o
  <2>3. CASE audit = <<>>
    BY <2>1, <2>2, <2>3 DEF AuditPair
  <2>4. CASE audit = <<"accepted">>
    BY <2>1, <2>2, <2>4 DEF AuditPair
  <2>5. CASE audit = <<o>>
    BY <2>1, <2>2, <2>5 DEF AuditPair
  <2>6. CASE audit = <<"accepted", o>>
    BY <2>1, <2>2, <2>6 DEF AuditPair
  <2> QED
    BY <2>2, <2>3, <2>4, <2>5, <2>6
<1> QED
  BY <1>1, SessionInvariant, PTL
-----------------------------------------------------------------------------
(***************************************************************************)
(* The other end of a session: the relay of repowolf-git-ssh (GitRelay),   *)
(* for any limits and exit codes, and whether or not closing stdin         *)
(* interrupts a read.  The argument: while relay receives, what was        *)
(* received is what was written (WholeBytes); a terminal is returned only  *)
(* from the one place that has seen the end of the stream and has joined   *)
(* the sender (TrueEnds); and a read can fail for being closed only after  *)
(* stopInput is, which is why it is never recorded (OwnClose).             *)
(***************************************************************************)
WholeBytes ==
  /\ relayPc \in {"start", "opening", "receive", "terminal", "completing"} => pending = 0 /\ written = received
  /\ relayPc = "write" => written + pending = received /\ received <= MaxBytes
  /\ sender = "send" => sentBytes + chunk <= MaxBytes

TrueEnds ==
  /\ relayPc \notin {"leaving", "joining"} /\ exit = -1 => result = Nothing
  /\ relayPc \in {"leaving", "joining"} => result # Nothing
  /\ relayPc # "returned" => exit = -1
  /\ relayPc \in {"terminal", "completing"} => terminal # NoTerminal
  /\ terminal # NoTerminal => validTerminal(terminal)
  /\ result = "terminal" =>
       /\ terminal # NoTerminal /\ pending = 0 /\ written = received
       /\ relayCause = "completed" /\ sender = "done"
  /\ exit = 0 => result = "terminal" /\ terminal.code = 0

OwnClose ==
  /\ senderErr = "closed" => stop = "closed"
  /\ sender = "check" => senderErr \in {"failure", "closed"}
  /\ sender = "record" => senderErr = "failure"
  /\ OwnCloseIsNoFailure

RelayInv == RelayTypeOK /\ WholeBytes /\ TrueEnds /\ OwnClose

-----------------------------------------------------------------------------
(* The exit status of a failure is a failure, whatever the exit code.      *)
LEMMA ShellStatusFails ==
  ASSUME NEW c \in Int
  PROVE  shellStatus(c) \in 1..255
BY DEF shellStatus

(* The invariant holds before Run has opened a stream.                     *)
LEMMA RelayStarts == ASSUME RelayAssumption, RelayInit PROVE RelayInv
<1>1. /\ chunk \in 0..MaxData /\ sentBytes \in 0..MaxBytes /\ pending \in 0..MaxData
      /\ received \in 0..(MaxBytes + MaxData) /\ written \in 0..MaxBytes
  BY DEF RelayAssumption, RelayInit
<1>2. signal \in BOOLEAN /\ started \in BOOLEAN
  BY Zenon DEF RelayInit
<1>3. RelayTypeOK
  BY <1>1, <1>2 DEF RelayInit, RelayTypeOK, NoTerminal, Nothing
<1>4. WholeBytes /\ TrueEnds /\ OwnClose
  BY DEF RelayInit, WholeBytes, TrueEnds, OwnClose, OwnCloseIsNoFailure, Nothing
<1> QED
  BY <1>3, <1>4 DEF RelayInv

(* Run before and around relay, and the two halves of stopSender.          *)
LEMMA RunKeeps ==
  ASSUME RelayAssumption, RelayInv,
         RunFails \/ OpenStream \/ Interrupted \/ SignalStop \/ closeReader
  PROVE  RelayInv'
<1> USE DEF RelayInv, sendVars, recvVars, Nothing
<1>1. RelayTypeOK'
  <2>1. CASE RunFails
    BY <2>1 DEF RelayTypeOK, RunFails, contextStatus
  <2>2. CASE OpenStream
    BY <2>2 DEF RelayTypeOK, OpenStream
  <2>3. CASE Interrupted
    BY <2>3 DEF RelayTypeOK, Interrupted, Cancel
  <2>4. CASE SignalStop \/ closeReader
    BY <2>4 DEF RelayTypeOK, SignalStop, closeReader
  <2> QED
    BY <2>1, <2>2, <2>3, <2>4
<1>2. WholeBytes'
  BY DEF WholeBytes, RunFails, OpenStream, Interrupted, SignalStop, closeReader
<1>3. TrueEnds'
  <2>1. CASE RunFails
    BY <2>1 DEF TrueEnds, RunFails, contextStatus, RelayTypeOK
  <2>2. CASE OpenStream
    BY <2>2 DEF TrueEnds, OpenStream, RelayTypeOK
  <2>3. CASE Interrupted
    BY <2>3 DEF TrueEnds, Interrupted, Cancel
  <2>4. CASE SignalStop \/ closeReader
    BY <2>4 DEF TrueEnds, SignalStop, closeReader
  <2> QED
    BY <2>1, <2>2, <2>3, <2>4
<1>4. OwnClose'
  BY DEF OwnClose, OwnCloseIsNoFailure, RunFails, OpenStream, Interrupted, Cancel, SignalStop,
     closeReader
<1> QED
  BY <1>1, <1>2, <1>3, <1>4

(* sendInput.                                                              *)
LEMMA SenderKeeps ==
  ASSUME RelayAssumption, RelayInv, Sender \/ Send \/ Git
  PROVE  RelayInv'
<1> USE DEF RelayInv, sendVars, recvVars, Nothing
<1>1. CASE SendOpen \/ SenderStarts \/ ReadStarts \/ ReadInterrupted \/ ReadEnds
  <2> USE <1>1 DEF SendOpen, SenderStarts, ReadStarts, ReadInterrupted, ReadEnds, SenderDone, SenderFails
  <2>1. RelayTypeOK'
    BY DEF RelayTypeOK
  <2>2. WholeBytes' /\ TrueEnds'
    BY DEF WholeBytes, TrueEnds
  <2>3. OwnClose'
    BY DEF OwnClose, OwnCloseIsNoFailure
  <2> QED
    BY <2>1, <2>2, <2>3
<1>2. ASSUME NEW n \in 1..MaxData, ReadData(n) PROVE RelayInv'
  <2> USE <1>2 DEF ReadData, SenderDone, SenderFails
  <2>1. chunk' \in 0..MaxData
    BY DEF RelayTypeOK, RelayAssumption
  <2>2. RelayTypeOK'
    BY <2>1 DEF RelayTypeOK
  <2>3. sender' = "send" => sentBytes' + chunk' <= MaxBytes
    BY DEF RelayTypeOK, RelayAssumption
  <2>4. WholeBytes' /\ TrueEnds'
    BY <2>3 DEF WholeBytes, TrueEnds
  <2>5. OwnClose'
    BY DEF OwnClose, OwnCloseIsNoFailure
  <2> QED
    BY <2>2, <2>4, <2>5
<1>3. CASE SendData
  <2> USE <1>3 DEF SendData
  <2>1. sentBytes' \in 0..MaxBytes /\ chunk' \in 0..MaxData
    <3>1. sentBytes \in Nat /\ chunk \in Nat /\ sentBytes + chunk <= MaxBytes
      BY DEF RelayTypeOK, WholeBytes, RelayAssumption
    <3> QED
      BY <3>1 DEF RelayAssumption
  <2>2. RelayTypeOK'
    BY <2>1 DEF RelayTypeOK
  <2>3. WholeBytes' /\ TrueEnds' /\ OwnClose'
    BY DEF WholeBytes, TrueEnds, OwnClose, OwnCloseIsNoFailure
  <2> QED
    BY <2>2, <2>3
<1>4. CASE SendBreaks
  <2> USE <1>4 DEF SendBreaks, SenderFails
  <2>1. chunk' \in 0..MaxData
    BY DEF RelayAssumption
  <2>2. RelayTypeOK'
    BY <2>1 DEF RelayTypeOK
  <2>3. WholeBytes' /\ TrueEnds' /\ OwnClose'
    BY DEF WholeBytes, TrueEnds, OwnClose, OwnCloseIsNoFailure
  <2> QED
    BY <2>2, <2>3
<1>5. CASE CheckFailure
  <2> USE <1>5 DEF CheckFailure
  <2>1. RelayTypeOK'
    BY DEF RelayTypeOK
  <2>2. WholeBytes' /\ TrueEnds'
    BY DEF WholeBytes, TrueEnds
  <2>3. OwnClose'
    BY DEF OwnClose, OwnCloseIsNoFailure, RelayTypeOK
  <2> QED
    BY <2>1, <2>2, <2>3
<1>6. CASE RecordFailure
  <2> USE <1>6 DEF RecordFailure, Cancel
  <2>1. RelayTypeOK'
    BY DEF RelayTypeOK, OwnClose
  <2>2. WholeBytes' /\ TrueEnds'
    BY DEF WholeBytes, TrueEnds
  <2>3. OwnClose'
    BY DEF OwnClose, OwnCloseIsNoFailure
  <2> QED
    BY <2>1, <2>2, <2>3
<1> HIDE DEF RelayInv
<1> QED
  BY <1>1, <1>2, <1>3, <1>4, <1>5, <1>6 DEF Sender, Send, Git

(* relay.                                                                  *)
LEMMA ReceiverKeeps ==
  ASSUME RelayAssumption, RelayInv, Relay \/ Receive
  PROVE  RelayInv'
<1> USE DEF RelayInv, sendVars, recvVars, Nothing
<1>1. CASE Opened \/ InputStopped \/ ReceiveFails
  <2> USE <1>1 DEF Opened, InputStopped, ReceiveFails, Leave
  <2>1. RelayTypeOK'
    BY DEF RelayTypeOK, Stopping
  <2>2. WholeBytes' /\ TrueEnds' /\ OwnClose'
    BY DEF WholeBytes, TrueEnds, OwnClose, OwnCloseIsNoFailure
  <2> QED
    BY <2>1, <2>2
<1>2. ASSUME NEW n \in 0..MaxData, ReceiveData(n) PROVE RelayInv'
  <2> USE <1>2 DEF ReceiveData, Leave, WithinLimit
  <2>1. n \in Nat /\ n <= MaxData /\ written \in 0..MaxBytes /\ written = received /\ pending = 0
    BY DEF RelayTypeOK, WholeBytes, RelayAssumption
  <2>2. received' \in 0..(MaxBytes + MaxData) /\ pending' \in 0..MaxData
    <3>1. received' = written + n /\ pending' \in {0, n}
      BY <2>1
    <3> QED
      BY <2>1, <3>1 DEF RelayAssumption
  <2>3. RelayTypeOK'
    <3>1. started' \in BOOLEAN
      BY DEF RelayTypeOK
    <3>2. relayPc' \in {"leaving", "write"} /\ result' \in {result, "error"}
      BY Zenon
    <3>3. UNCHANGED <<signal, relayCause, stop, sendVars, written, terminal, exit>>
      OBVIOUS
    <3> HIDE DEF ReceiveData
    <3> QED
      BY <2>2, <3>1, <3>2, <3>3 DEF RelayTypeOK
  <2>4. relayPc' = "write" => written' + pending' = received' /\ received' <= MaxBytes
    BY <2>1 DEF RelayAssumption
  <2>5. WholeBytes'
    BY <2>4 DEF WholeBytes
  <2>6. TrueEnds' /\ OwnClose'
    BY DEF TrueEnds, OwnClose, OwnCloseIsNoFailure
  <2> QED
    BY <2>3, <2>5, <2>6
<1>3. CASE WriteAll
  <2> USE <1>3 DEF WriteAll, Leave
  <2>1. written \in Nat /\ pending \in Nat /\ written + pending = received /\ received <= MaxBytes
    BY DEF RelayTypeOK, WholeBytes, RelayAssumption
  <2>2. written' \in 0..MaxBytes /\ pending' \in 0..MaxData
    BY <2>1 DEF RelayTypeOK, RelayAssumption
  <2>3. RelayTypeOK'
    BY <2>2 DEF RelayTypeOK, Stopping
  <2>4. WholeBytes'
    BY <2>1 DEF WholeBytes
  <2>5. TrueEnds' /\ OwnClose'
    BY DEF TrueEnds, OwnClose, OwnCloseIsNoFailure
  <2> QED
    BY <2>3, <2>4, <2>5
<1>4. ASSUME NEW t \in TerminalFrame, ReceiveTerminal(t) PROVE RelayInv'
  <2> USE <1>4 DEF ReceiveTerminal, Leave
  <2>1. RelayTypeOK'
    BY DEF RelayTypeOK, Stopping
  <2>2. t # NoTerminal
    BY DEF TerminalFrame, NoTerminal
  <2>3. WholeBytes' /\ TrueEnds' /\ OwnClose'
    BY <2>2 DEF WholeBytes, TrueEnds, OwnClose, OwnCloseIsNoFailure
  <2> QED
    BY <2>1, <2>3
<1>5. CASE ReceiveEOF
  <2> USE <1>5 DEF ReceiveEOF, Cancel, Leave
  <2>1. RelayTypeOK'
    BY DEF RelayTypeOK, Stopping
  <2>2. WholeBytes' /\ TrueEnds' /\ OwnClose'
    BY DEF WholeBytes, TrueEnds, OwnClose, OwnCloseIsNoFailure
  <2> QED
    BY <2>1, <2>2
<1>6. CASE Completed
  <2> USE <1>6 DEF Completed, Leave
  <2>1. RelayTypeOK'
    BY DEF RelayTypeOK, Stopping
  <2>2. WholeBytes' /\ TrueEnds' /\ OwnClose'
    BY DEF WholeBytes, TrueEnds, OwnClose, OwnCloseIsNoFailure
  <2> QED
    BY <2>1, <2>2
<1>7. CASE DeferredCancel
  <2> USE <1>7 DEF DeferredCancel, Cancel
  <2>1. RelayTypeOK'
    BY DEF RelayTypeOK, Stopping
  <2>2. WholeBytes' /\ TrueEnds' /\ OwnClose'
    BY DEF WholeBytes, TrueEnds, OwnClose, OwnCloseIsNoFailure
  <2> QED
    BY <2>1, <2>2
<1>8. CASE Return
  <2>1. terminal.code \in Int
    <3>1. terminal \in TerminalFrame \/ terminal = NoTerminal
      BY Zenon DEF RelayTypeOK
    <3>2. ASSUME terminal \in TerminalFrame PROVE terminal.code \in ExitCodes
      BY <3>2 DEF TerminalFrame
    <3>3. ASSUME terminal = NoTerminal PROVE terminal.code = 0
      BY <3>3 DEF NoTerminal
    <3>4. ExitCodes \subseteq Int
      BY Zenon DEF RelayAssumption
    <3>5. CASE terminal \in TerminalFrame
      BY <3>2, <3>4, <3>5, Zenon
    <3>6. CASE terminal = NoTerminal
      <4>1. terminal.code = 0
        BY <3>3, <3>6
      <4> QED
        BY <4>1
    <3> QED
      BY <3>1, <3>5, <3>6, Zenon
  <2> USE <1>8 DEF Return
  <2>2. exit' \in 0..255 /\ (exit' = 0 => result # "error" /\ terminal.code = 0)
    <3>1. shellStatus(terminal.code) \in 1..255
      BY <2>1, ShellStatusFails
    <3>2. contextStatus \in 1..255
      BY DEF contextStatus
    <3> QED
      BY <3>1, <3>2
  <2>3. RelayTypeOK'
    BY <2>2 DEF RelayTypeOK
  <2>4. exit' = 0 => result' = "terminal" /\ terminal'.code = 0
    BY <2>2 DEF TrueEnds, RelayTypeOK
  <2>5. WholeBytes' /\ TrueEnds' /\ OwnClose'
    BY <2>2, <2>4 DEF WholeBytes, TrueEnds, OwnClose, OwnCloseIsNoFailure
  <2> QED
    BY <2>3, <2>5
<1> HIDE DEF RelayInv
<1> QED
  BY <1>1, <1>2, <1>3, <1>4, <1>5, <1>6, <1>7, <1>8 DEF Relay, Receive

(* A stuttering step changes nothing.                                      *)
LEMMA StutterKeeps == ASSUME RelayInv, UNCHANGED relayVars PROVE RelayInv'
BY DEF RelayInv, RelayTypeOK, WholeBytes, TrueEnds, OwnClose, OwnCloseIsNoFailure, relayVars,
   sendVars, recvVars

(* RelayInv is an invariant of relay, its sender, Git and the broker.      *)
THEOREM RelayCorrect == RelaySpec => []RelayInv
<1>1. RelayInit => RelayInv
  BY RelayStarts, RelayAssumption
<1>2. RelayInv /\ [RelayNext]_relayVars => RelayInv'
  BY RunKeeps, SenderKeeps, ReceiverKeeps, StutterKeeps, RelayAssumption DEF RelayNext
<1> QED
  BY <1>1, <1>2, PTL DEF RelaySpec

(* The variables keep their types; with them the limits on both directions *)
(* (relayLimits) hold.                                                     *)
THEOREM RelayTypes == RelaySpec => []RelayTypeOK
<1>1. RelayInv => RelayTypeOK
  BY DEF RelayInv
<1> QED
  BY <1>1, RelayCorrect, PTL

(* Exit status 0 is an operation that completed and an answer that is      *)
(* whole on stdout, for any exit code a terminal may carry (shellStatus,   *)
(* validTerminal, the end of relayWithLimits).                             *)
THEOREM SuccessAlwaysWhole == RelaySpec => []SuccessIsWhole
<1>1. RelayInv => SuccessIsWhole
  <2> SUFFICES ASSUME RelayInv, exit = 0 PROVE SuccessIsWhole
    BY DEF SuccessIsWhole
  <2>1. /\ terminal # NoTerminal /\ validTerminal(terminal) /\ terminal.code = 0
        /\ written = received /\ pending = 0 /\ relayCause = "completed" /\ sender = "done"
    BY DEF RelayInv, TrueEnds
  <2>2. terminal \in TerminalFrame
    BY <2>1 DEF RelayInv, RelayTypeOK
  <2>3. terminal = [category |-> "completed", code |-> 0]
    BY <2>1, <2>2 DEF validTerminal, TerminalFrame
  <2> QED
    BY <2>1, <2>3 DEF SuccessIsWhole
<1> QED
  BY <1>1, RelayCorrect, PTL

(* Closing stdin to stop the sender is never recorded as its failure       *)
(* (stopSender, recordSenderFailure).                                      *)
THEOREM OwnCloseNeverFails == RelaySpec => []OwnCloseIsNoFailure
<1>1. RelayInv => OwnCloseIsNoFailure
  BY DEF RelayInv, OwnClose
<1> QED
  BY <1>1, RelayCorrect, PTL
-----------------------------------------------------------------------------
(***************************************************************************)
(* What a push may forward: ParseReceivePack (ReceiveParser), for every    *)
(* set of packets, every policy and every limit.  Whatever a client sends, *)
(* an accepted prefix holds only commands that the push policy has seen    *)
(* and allowed.                                                            *)
(*                                                                         *)
(* The second half is about push certificates: each flag the parser keeps  *)
(* says what the certificate holds so far (CertificateRead); the options   *)
(* after it repeat the ones in it (OptionsSpelt, OptionsCompared); and its *)
(* signature is opened once and closed when it ends.                       *)
(***************************************************************************)
(* The fields that a packet of each kind has.                              *)
LEMMA PacketFields ==
  ASSUME NEW pkt \in Packet
  PROVE  /\ pkt.kind \in {"first", "command"} => pkt.update \in Update
         /\ pkt.kind \in {"begin", "end"} => pkt.envelope \in Envelope
         /\ pkt.kind = "shallow" => pkt.oid \in Oid
         /\ Cost(pkt) \in Nat
<1>1. /\ pkt.kind \in {"first", "command"} => pkt.update \in Update
      /\ pkt.kind \in {"begin", "end"} => pkt.envelope \in Envelope
      /\ pkt.kind = "shallow" => pkt.oid \in Oid
  BY DEF Packet, Plain
<1>2. pkt.kind \in Kinds
  BY DEF Packet, Plain, Kinds
<1>3. Cost(pkt) \in Nat
  <2>1. Payload \in [Kinds -> Nat]
    BY ReceiveAssumption DEF ReceiveAssumption
  <2> HIDE DEF Kinds
  <2>2. Payload[pkt.kind] \in Nat
    BY <1>2, <2>1
  <2> QED BY <2>2 DEF Cost
<1> QED BY <1>1, <1>3

(* Where the provider finds commands in a sequence one packet longer.      *)
LEMMA AppendSees ==
  ASSUME NEW s \in Seq(Packet), NEW pkt \in Packet
  PROVE  /\ Append(s, pkt) \in Seq(Packet)
         /\ Len(Append(s, pkt)) = Len(s) + 1
         /\ DOMAIN Append(s, pkt) = 1..(Len(s) + 1)
         /\ \A i \in DOMAIN s : Append(s, pkt)[i] = s[i]
         /\ Append(s, pkt)[Len(s) + 1] = pkt
         /\ \A i \in DOMAIN s : i \in ProviderSees(s) <=> i \in ProviderSees(Append(s, pkt))
         /\ Len(s) + 1 \in ProviderSees(Append(s, pkt)) <=>
              pkt.kind \in {"first", "command"} /\ \A j \in DOMAIN s : ~EndsCommands(s[j])
<1> DEFINE t == Append(s, pkt)
<1>1. /\ t \in Seq(Packet) /\ Len(t) = Len(s) + 1 /\ DOMAIN t = 1..(Len(s) + 1)
      /\ \A i \in DOMAIN s : t[i] = s[i]
      /\ t[Len(s) + 1] = pkt
      /\ DOMAIN s = 1..Len(s) /\ Len(s) \in Nat
  OBVIOUS
<1> HIDE DEF t
<1>2. \A i \in DOMAIN s : i \in ProviderSees(s) <=> i \in ProviderSees(t)
  BY <1>1 DEF ProviderSees, IsCommandAt
<1>3. Len(s) + 1 \in ProviderSees(t) <=>
        pkt.kind \in {"first", "command"} /\ \A j \in DOMAIN s : ~EndsCommands(s[j])
  BY <1>1 DEF ProviderSees, IsCommandAt
<1> QED BY <1>1, <1>2, <1>3 DEF t

-----------------------------------------------------------------------------
(* The parsed updates us are exactly the commands of the packets s, and no *)
(* two of these name the same ref.                                         *)
SeenIn(s, us) ==
  /\ \A i \in ProviderSees(s) : \E k \in DOMAIN us : us[k] = s[i].update
  /\ \A k \in DOMAIN us : \E i \in ProviderSees(s) : us[k] = s[i].update
  /\ \A i, j \in ProviderSees(s) : s[i].update.ref = s[j].update.ref => i = j

(* A packet that is not a command to the provider leaves that so.          *)
LEMMA SeenQuiet ==
  ASSUME NEW s \in Seq(Packet), NEW us \in Seq(Update), NEW pkt \in Packet,
         SeenIn(s, us),
         pkt.kind \notin {"first", "command"} \/ \E j \in DOMAIN s : EndsCommands(s[j])
  PROVE  SeenIn(Append(s, pkt), us)
<1> DEFINE t == Append(s, pkt)
<1>1. /\ \A i \in ProviderSees(t) : i \in ProviderSees(s) /\ t[i] = s[i]
      /\ \A i \in ProviderSees(s) : i \in ProviderSees(t) /\ t[i] = s[i]
  <2>1. \A i \in ProviderSees(t) : i \in DOMAIN t
    BY DEF ProviderSees
  <2>2. \A i \in ProviderSees(s) : i \in DOMAIN s
    BY DEF ProviderSees
  <2>3. \A i \in DOMAIN t : i \in DOMAIN s \/ i = Len(s) + 1
    BY AppendSees
  <2> QED BY AppendSees, <2>1, <2>2, <2>3
<1> HIDE DEF t
<1>2. \A i \in ProviderSees(t) : \E k \in DOMAIN us : us[k] = t[i].update
  BY <1>1 DEF SeenIn
<1>3. \A k \in DOMAIN us : \E i \in ProviderSees(t) : us[k] = t[i].update
  BY <1>1 DEF SeenIn
<1>4. ASSUME NEW i \in ProviderSees(t), NEW j \in ProviderSees(t),
             t[i].update.ref = t[j].update.ref
      PROVE  i = j
  <2>1. i \in ProviderSees(s) /\ j \in ProviderSees(s) /\ t[i] = s[i] /\ t[j] = s[j]
    BY <1>1
  <2> QED BY <1>4, <2>1 DEF SeenIn
<1> QED BY <1>2, <1>3, <1>4 DEF SeenIn, t

(* addCommand leaves it so too: the new ref was not among the others.      *)
LEMMA SeenCommand ==
  ASSUME NEW s \in Seq(Packet), NEW us \in Seq(Update), NEW pkt \in Packet,
         SeenIn(s, us),
         pkt.kind \in {"first", "command"}, \A j \in DOMAIN s : ~EndsCommands(s[j]),
         \A k \in DOMAIN us : us[k].ref # pkt.update.ref
  PROVE  SeenIn(Append(s, pkt), Append(us, pkt.update))
<1> DEFINE t == Append(s, pkt)
           n == Len(s) + 1
           vs == Append(us, pkt.update)
<1>1. /\ \A i \in ProviderSees(t) : i = n \/ (i \in ProviderSees(s) /\ t[i] = s[i])
      /\ \A i \in ProviderSees(s) : i \in ProviderSees(t) /\ t[i] = s[i]
      /\ n \in ProviderSees(t) /\ t[n] = pkt
  <2>1. \A i \in ProviderSees(t) : i \in DOMAIN t
    BY DEF ProviderSees
  <2>2. \A i \in ProviderSees(s) : i \in DOMAIN s
    BY DEF ProviderSees
  <2>3. \A i \in DOMAIN t : i \in DOMAIN s \/ i = n
    BY AppendSees
  <2> QED BY AppendSees, <2>1, <2>2, <2>3
<1>2. /\ \A k \in DOMAIN us : k \in DOMAIN vs /\ vs[k] = us[k]
      /\ Len(us) + 1 \in DOMAIN vs /\ vs[Len(us) + 1] = pkt.update
      /\ \A k \in DOMAIN vs : k \in DOMAIN us \/ k = Len(us) + 1
  BY PacketFields
<1> HIDE DEF t, n, vs
<1>3. \A i \in ProviderSees(t) : \E k \in DOMAIN vs : vs[k] = t[i].update
  BY <1>1, <1>2 DEF SeenIn
<1>4. \A k \in DOMAIN vs : \E i \in ProviderSees(t) : vs[k] = t[i].update
  BY <1>1, <1>2 DEF SeenIn
<1>5. \A i \in ProviderSees(s) : s[i].update.ref # pkt.update.ref
  BY DEF SeenIn
<1>6. ASSUME NEW i \in ProviderSees(t), NEW j \in ProviderSees(t),
             t[i].update.ref = t[j].update.ref
      PROVE  i = j
  <2>1. CASE i \in ProviderSees(s) /\ j \in ProviderSees(s)
    <3>1. t[i] = s[i] /\ t[j] = s[j]
      BY <1>1, <2>1
    <3> QED BY <1>6, <2>1, <3>1 DEF SeenIn
  <2>2. CASE i = n /\ j \in ProviderSees(s)
    BY <1>1, <1>5, <1>6, <2>2
  <2>3. CASE i \in ProviderSees(s) /\ j = n
    BY <1>1, <1>5, <1>6, <2>3
  <2>4. CASE i = n /\ j = n
    BY <2>4
  <2> QED BY <1>1, <2>1, <2>2, <2>3, <2>4
<1> QED BY <1>3, <1>4, <1>6 DEF SeenIn, t, vs

-----------------------------------------------------------------------------
(* The inductive invariant.  While commands are still accepted nothing the *)
(* provider would stop at has been read; inside a signature something has. *)
Framing ==
  /\ expects \in {"start", "version", "headers"} => signatureEnd = ""
  /\ (expects \in {"start", "commands", "version", "headers"} \/ (expects = "body" /\ signatureEnd = ""))
       => \A j \in DOMAIN raw : ~EndsCommands(raw[j])
  /\ (expects = "body" /\ signatureEnd # "") => \E j \in DOMAIN raw : EndsCommands(raw[j])

(* The object IDs read so far fit the width that the preamble set.         *)
Widths ==
  /\ expects = "start" => updates = <<>>
  /\ \A i \in DOMAIN raw : raw[i].kind = "shallow" => raw[i].oid \in shallows
  /\ expects \notin {"start", "invalid"} =>
       /\ \A o \in shallows : o.width = oidWidth
       /\ \A k \in DOMAIN updates : updates[k].old.width = oidWidth /\ updates[k].new.width = oidWidth

(* Where the flush packets are, and what the end of the parse established. *)
Ending ==
  /\ PrefixIsExact
  /\ expects = "options" => Has(requested, "push-options") /\ \E i \in DOMAIN raw : raw[i].kind = "flush"
  /\ expects \in {"commands", "cert_flush", "options", "accepted"} => updates # <<>>
  /\ expects = "accepted" => ValidatePush(updates)

IInv == ParserTypeOK /\ Framing /\ SeenIn(raw, updates) /\ Widths /\ Ending

(* Every step reads one packet.                                            *)
LEMMA StepReads ==
  ASSUME NEW pkt \in Packet, Step(pkt), ParserTypeOK
  PROVE  read(pkt) /\ raw' \in Seq(Packet) /\ used' \in Nat
<1>1. read(pkt)
  BY DEF Step, addShallow, parseFirstCommand, parseCertificate, parseCommand, EndCommands,
         expectVersion, RequiredHeader, HeaderOption, EndHeaders, CertificateCommand,
         SignatureBegin, SignatureLine, SignatureEnd, EndCertificate,
         CertificateFlush, PushOption, EndOptions
<1>2. Cost(pkt) \in Nat
  BY PacketFields
<1>3. used \in Nat /\ raw \in Seq(Packet)
  BY DEF ParserTypeOK
<1>4. used' \in Nat
  BY <1>1, <1>2, <1>3 DEF read
<1>5. raw' \in Seq(Packet)
  BY <1>1, <1>3 DEF read
<1> QED BY <1>1, <1>4, <1>5

(* The type invariant is inductive on its own.                             *)
LEMMA TypeStep ==
  ASSUME ParserTypeOK, NEW pkt \in Packet, Step(pkt)
  PROVE  ParserTypeOK'
<1>a. raw' \in Seq(Packet) /\ used' \in Nat
  BY StepReads
<1>b. /\ pkt.kind \in {"first", "command"} => pkt.update \in Update
      /\ pkt.kind \in {"begin", "end"} => pkt.envelope \in Envelope
      /\ pkt.kind = "shallow" => pkt.oid \in Oid
  BY PacketFields
<1>c. updates \in Seq(Update) /\ headerOptions \in Seq(Printable) /\ trailing \in Seq(Printable)
  BY DEF ParserTypeOK
<1>d. \A u \in Update : Append(updates, u) \in Seq(Update)
  BY <1>c
<1>e. \A v \in Printable : Append(headerOptions, v) \in Seq(Printable) /\ Append(trailing, v) \in Seq(Printable)
  BY <1>c
<1>f. nextRequired < 3 => nextRequired + 1 \in 0..3
  <2>1. nextRequired \in 0..3
    BY DEF ParserTypeOK
  <2> QED BY <2>1
<1> USE <1>a, <1>b, <1>d, <1>e, <1>f DEF ParserTypeOK, Parsing, readVars, certVars, headVars, bodyVars
<1>1. CASE addShallow(pkt)
  BY <1>1 DEF addShallow
<1>2. CASE parseFirstCommand(pkt)
  BY <1>2 DEF parseFirstCommand, Preamble, negotiateObjectIDWidth,
    RequestedWidth, addCommand
<1>3. CASE parseCertificate(pkt)
  BY <1>3 DEF parseCertificate, Preamble, negotiateObjectIDWidth,
    RequestedWidth
<1>4. CASE parseCommand(pkt)
  BY <1>4 DEF parseCommand, addCommand
<1>5. CASE EndCommands(pkt)
  BY <1>5 DEF EndCommands, BeginOptions, FinishParse
<1>6. CASE expectVersion(pkt)
  BY <1>6 DEF expectVersion
<1>7. CASE RequiredHeader(pkt)
  BY <1>7 DEF RequiredHeader
<1>8. CASE HeaderOption(pkt)
  BY <1>8 DEF HeaderOption, validPushOption
<1>9. CASE EndHeaders(pkt)
  BY <1>9 DEF EndHeaders
<1>10. CASE CertificateCommand(pkt)
  BY <1>10 DEF CertificateCommand, addCommand
<1>11. CASE SignatureBegin(pkt)
  BY <1>11 DEF SignatureBegin
<1>12. CASE SignatureLine(pkt)
  BY <1>12 DEF SignatureLine
<1>13. CASE SignatureEnd(pkt)
  BY <1>13 DEF SignatureEnd
<1>14. CASE EndCertificate(pkt)
  BY <1>14 DEF EndCertificate
<1>15. CASE CertificateFlush(pkt)
  BY <1>15 DEF CertificateFlush, BeginOptions, FinishParse
<1>16. CASE PushOption(pkt)
  BY <1>16 DEF PushOption, validPushOption
<1>17. CASE EndOptions(pkt)
  BY <1>17 DEF EndOptions, FinishParse
<1> QED BY <1>1, <1>2, <1>3, <1>4, <1>5, <1>6, <1>7, <1>8, <1>9, <1>10,
      <1>11, <1>12, <1>13, <1>14, <1>15, <1>16, <1>17 DEF Step

(* The packets after a step: those before it, and the packet read.         *)
LEMMA StepRaw ==
  ASSUME NEW pkt \in Packet, Step(pkt), ParserTypeOK
  PROVE  /\ raw' = Append(raw, pkt) /\ used' <= MaxPrefixBytes
         /\ Len(raw) \in Nat /\ Len(raw') = Len(raw) + 1
         /\ \A i \in DOMAIN raw : i < Len(raw') /\ i \in DOMAIN raw' /\ raw'[i] = raw[i]
         /\ Len(raw') \in DOMAIN raw' /\ raw'[Len(raw')] = pkt
         /\ \A i \in DOMAIN raw' : i \in DOMAIN raw \/ i = Len(raw')
<1>1. raw \in Seq(Packet)
  BY DEF ParserTypeOK
<1>2. raw' = Append(raw, pkt) /\ used' <= MaxPrefixBytes
  BY StepReads DEF read, WithinPrefix
<1>3. Len(raw) \in Nat /\ DOMAIN raw = 1..Len(raw)
  BY <1>1
<1> QED BY <1>1, <1>2, <1>3, AppendSees

(* Each action keeps the places where the provider would stop reading.     *)
LEMMA FramingStep ==
  ASSUME ParserTypeOK, Framing, NEW pkt \in Packet, Step(pkt)
  PROVE  Framing'
<1>a. \A i \in DOMAIN raw : i \in DOMAIN raw' /\ raw'[i] = raw[i]
  BY StepRaw
<1>b. Len(raw') \in DOMAIN raw' /\ raw'[Len(raw')] = pkt
  BY StepRaw
<1>c. \A i \in DOMAIN raw' : i \in DOMAIN raw \/ i = Len(raw')
  BY StepRaw
<1>d. "" \notin Envelope /\ (pkt.kind \in {"begin", "end"} => pkt.envelope \in Envelope)
  BY PacketFields, ReceiveAssumption DEF ReceiveAssumption
<1> USE <1>a, <1>b, <1>c, <1>d DEF Framing, EndsCommands, certVars, headVars, bodyVars
<1>1. CASE addShallow(pkt)
  BY <1>1 DEF addShallow
<1>2. CASE parseFirstCommand(pkt)
  BY <1>2 DEF parseFirstCommand
<1>3. CASE parseCertificate(pkt)
  BY <1>3 DEF parseCertificate
<1>4. CASE parseCommand(pkt)
  BY <1>4 DEF parseCommand
<1>5. CASE EndCommands(pkt)
  BY <1>5 DEF EndCommands, BeginOptions, FinishParse
<1>6. CASE expectVersion(pkt)
  BY <1>6 DEF expectVersion
<1>7. CASE RequiredHeader(pkt)
  BY <1>7 DEF RequiredHeader
<1>8. CASE HeaderOption(pkt)
  BY <1>8 DEF HeaderOption
<1>9. CASE EndHeaders(pkt)
  BY <1>9 DEF EndHeaders
<1>10. CASE CertificateCommand(pkt)
  BY <1>10 DEF CertificateCommand, BeforeSignature
<1>11. CASE SignatureBegin(pkt)
  BY <1>11 DEF SignatureBegin
<1>12. CASE SignatureLine(pkt)
  BY <1>12 DEF SignatureLine
<1>13. CASE SignatureEnd(pkt)
  BY <1>13 DEF SignatureEnd
<1>14. CASE EndCertificate(pkt)
  BY <1>14 DEF EndCertificate
<1>15. CASE CertificateFlush(pkt)
  BY <1>15 DEF CertificateFlush, BeginOptions, FinishParse
<1>16. CASE PushOption(pkt)
  BY <1>16 DEF PushOption
<1>17. CASE EndOptions(pkt)
  BY <1>17 DEF EndOptions, FinishParse
<1> QED BY <1>1, <1>2, <1>3, <1>4, <1>5, <1>6, <1>7, <1>8, <1>9, <1>10,
      <1>11, <1>12, <1>13, <1>14, <1>15, <1>16, <1>17 DEF Step

(* Each action keeps the updates and the commands the provider sees equal. *)
LEMMA SeenStep ==
  ASSUME ParserTypeOK, Framing, SeenIn(raw, updates), NEW pkt \in Packet, Step(pkt)
  PROVE  SeenIn(raw', updates')
<1>a. raw' = Append(raw, pkt)
  BY StepRaw
<1>b. raw \in Seq(Packet) /\ updates \in Seq(Update)
  BY DEF ParserTypeOK
<1>1. CASE parseFirstCommand(pkt) \/ parseCommand(pkt) \/ CertificateCommand(pkt)
  <2>1. updates' = Append(updates, pkt.update) /\ RefIsNew(pkt.update)
    BY <1>1 DEF parseFirstCommand, parseCommand, CertificateCommand, addCommand, CommandOK
  <2>2. pkt.kind \in {"first", "command"} /\ \A j \in DOMAIN raw : ~EndsCommands(raw[j])
    BY <1>1 DEF parseFirstCommand, parseCommand, CertificateCommand, BeforeSignature, Framing
  <2> QED BY <1>a, <1>b, <2>1, <2>2, SeenCommand DEF RefIsNew
<1>2. CASE SignatureLine(pkt)
  <2>1. updates' = updates /\ \E j \in DOMAIN raw : EndsCommands(raw[j])
    BY <1>2 DEF SignatureLine, Framing
  <2> QED BY <1>a, <1>b, <2>1, SeenQuiet
<1>3. CASE ~(parseFirstCommand(pkt) \/ parseCommand(pkt) \/ CertificateCommand(pkt) \/ SignatureLine(pkt))
  <2>1. updates' = updates /\ pkt.kind \notin {"first", "command"}
    BY <1>3 DEF Step, addShallow, parseCertificate, EndCommands, expectVersion, RequiredHeader,
           HeaderOption, EndHeaders, SignatureBegin, SignatureEnd, EndCertificate,
           CertificateFlush, PushOption, EndOptions
  <2> QED BY <1>a, <1>b, <2>1, SeenQuiet
<1> QED BY <1>1, <1>2, <1>3

(* Each action keeps one object ID width; the preamble checks the shallows. *)
LEMMA WidthsStep ==
  ASSUME ParserTypeOK, Widths, NEW pkt \in Packet, Step(pkt)
  PROVE  Widths'
<1>a. \A i \in DOMAIN raw : i \in DOMAIN raw' /\ raw'[i] = raw[i]
  BY StepRaw
<1>b. Len(raw') \in DOMAIN raw' /\ raw'[Len(raw')] = pkt
  BY StepRaw
<1>c. \A i \in DOMAIN raw' : i \in DOMAIN raw \/ i = Len(raw')
  BY StepRaw
<1>d. updates \in Seq(Update)
  BY DEF ParserTypeOK
<1>e. ASSUME NEW u \in Update
      PROVE  \A k \in DOMAIN Append(updates, u) :
               (k \in DOMAIN updates /\ Append(updates, u)[k] = updates[k]) \/ Append(updates, u)[k] = u
  BY <1>d
<1>f. pkt.kind \in {"first", "command"} => pkt.update \in Update
  BY PacketFields
<1> USE <1>a, <1>b, <1>c, <1>e, <1>f DEF Widths, certVars, headVars, bodyVars
<1>1. CASE addShallow(pkt)
  BY <1>1 DEF addShallow
<1>2. CASE parseFirstCommand(pkt)
  BY <1>2 DEF parseFirstCommand, Preamble, negotiateObjectIDWidth,
    ShallowsFit, addCommand, CommandOK
<1>3. CASE parseCertificate(pkt)
  BY <1>3 DEF parseCertificate, Preamble, negotiateObjectIDWidth, ShallowsFit
<1>4. CASE parseCommand(pkt)
  BY <1>4 DEF parseCommand, addCommand, CommandOK
<1>5. CASE EndCommands(pkt)
  BY <1>5 DEF EndCommands, BeginOptions, FinishParse
<1>6. CASE expectVersion(pkt)
  BY <1>6 DEF expectVersion
<1>7. CASE RequiredHeader(pkt)
  BY <1>7 DEF RequiredHeader
<1>8. CASE HeaderOption(pkt)
  BY <1>8 DEF HeaderOption
<1>9. CASE EndHeaders(pkt)
  BY <1>9 DEF EndHeaders
<1>10. CASE CertificateCommand(pkt)
  BY <1>10 DEF CertificateCommand, addCommand, CommandOK
<1>11. CASE SignatureBegin(pkt)
  BY <1>11 DEF SignatureBegin
<1>12. CASE SignatureLine(pkt)
  BY <1>12 DEF SignatureLine
<1>13. CASE SignatureEnd(pkt)
  BY <1>13 DEF SignatureEnd
<1>14. CASE EndCertificate(pkt)
  BY <1>14 DEF EndCertificate
<1>15. CASE CertificateFlush(pkt)
  BY <1>15 DEF CertificateFlush, BeginOptions, FinishParse
<1>16. CASE PushOption(pkt)
  BY <1>16 DEF PushOption
<1>17. CASE EndOptions(pkt)
  BY <1>17 DEF EndOptions, FinishParse
<1> QED BY <1>1, <1>2, <1>3, <1>4, <1>5, <1>6, <1>7, <1>8, <1>9, <1>10,
      <1>11, <1>12, <1>13, <1>14, <1>15, <1>16, <1>17 DEF Step

(* Each action keeps the flush packets in place and the last check in force. *)
LEMMA EndingStep ==
  ASSUME ParserTypeOK, Ending, Widths, NEW pkt \in Packet, Step(pkt)
  PROVE  Ending'
<1>a. \A i \in DOMAIN raw : i < Len(raw') /\ i \in DOMAIN raw' /\ raw'[i] = raw[i]
  BY StepRaw
<1>b. Len(raw') \in DOMAIN raw' /\ raw'[Len(raw')] = pkt /\ used' <= MaxPrefixBytes
  BY StepRaw
<1>c. \A i \in DOMAIN raw' : i \in DOMAIN raw \/ i = Len(raw')
  BY StepRaw
<1>d. \A u \in Update : Append(updates, u) # <<>>
  <2>1. updates \in Seq(Update)
    BY DEF ParserTypeOK
  <2> QED BY <2>1, AppendProperties
<1>f. pkt.kind \in {"first", "command"} => pkt.update \in Update
  BY PacketFields
<1>g. ~(Len(raw') < Len(raw'))
  BY StepRaw
<1> USE <1>a, <1>b, <1>c, <1>d, <1>f, <1>g
    DEF Ending, PrefixIsExact, Flushes, Parsing, certVars, headVars, bodyVars
<1>1. CASE addShallow(pkt)
  BY <1>1 DEF addShallow
<1>2. CASE parseFirstCommand(pkt)
  BY <1>2 DEF parseFirstCommand, Widths, addCommand
<1>3. CASE parseCertificate(pkt)
  BY <1>3 DEF parseCertificate, Widths
<1>4. CASE parseCommand(pkt)
  BY <1>4 DEF parseCommand, addCommand
<1>5. CASE EndCommands(pkt)
  BY <1>5 DEF EndCommands, BeginOptions, FinishParse, OptionsFollow
<1>6. CASE expectVersion(pkt)
  BY <1>6 DEF expectVersion
<1>7. CASE RequiredHeader(pkt)
  BY <1>7 DEF RequiredHeader
<1>8. CASE HeaderOption(pkt)
  BY <1>8 DEF HeaderOption
<1>9. CASE EndHeaders(pkt)
  BY <1>9 DEF EndHeaders
<1>10. CASE CertificateCommand(pkt)
  BY <1>10 DEF CertificateCommand, addCommand
<1>11. CASE SignatureBegin(pkt)
  BY <1>11 DEF SignatureBegin
<1>12. CASE SignatureLine(pkt)
  BY <1>12 DEF SignatureLine
<1>13. CASE SignatureEnd(pkt)
  BY <1>13 DEF SignatureEnd
<1>14. CASE EndCertificate(pkt)
  BY <1>14 DEF EndCertificate, SignatureComplete
<1>15. CASE CertificateFlush(pkt)
  BY <1>15 DEF CertificateFlush, BeginOptions, FinishParse, OptionsFollow
<1>16. CASE PushOption(pkt)
  BY <1>16 DEF PushOption
<1>17. CASE EndOptions(pkt)
  BY <1>17 DEF EndOptions, FinishParse
<1> QED BY <1>1, <1>2, <1>3, <1>4, <1>5, <1>6, <1>7, <1>8, <1>9, <1>10,
      <1>11, <1>12, <1>13, <1>14, <1>15, <1>16, <1>17 DEF Step

-----------------------------------------------------------------------------
(* The invariant holds before the first packet.                            *)
LEMMA InvariantInit == ParserInit => IInv
<1> SUFFICES ASSUME ParserInit PROVE IInv
  OBVIOUS
<1>0. raw = <<>> /\ updates = <<>> /\ trailing = <<>> /\ headerOptions = <<>> /\ expects = "start"
  BY Zenon DEF ParserInit
<1>y. used = 0 /\ oidWidth = 0 /\ nextRequired = 0
  BY Zenon DEF ParserInit
<1>z. shallows \subseteq Oid /\ signatureEnd = ""
  BY Zenon DEF ParserInit
<1>a. DOMAIN raw = {} /\ DOMAIN updates = {}
  BY <1>0
<1>b. /\ raw \in Seq(Packet) /\ updates \in Seq(Update)
      /\ trailing \in Seq(Printable) /\ headerOptions \in Seq(Printable)
  BY <1>0
<1>c. used \in Nat /\ oidWidth \in {0, 40, 64} /\ nextRequired \in 0..3
  BY <1>y
<1>d. signed \in BOOLEAN /\ signatureEnded \in BOOLEAN /\ signatureContent \in BOOLEAN
  BY Zenon DEF ParserInit
<1>1. ParserTypeOK
  BY <1>0, <1>b, <1>c, <1>d, <1>z DEF ParserTypeOK, Parsing
<1>2. Framing /\ Widths
  BY <1>0, <1>a, <1>z DEF Framing, Widths
<1>3. SeenIn(raw, updates)
  BY <1>a DEF SeenIn, ProviderSees
<1>4. Ending
  <2>1. used <= MaxPrefixBytes
    <3>1. MaxPrefixBytes \in Nat
      BY ReceiveAssumption DEF ReceiveAssumption
    <3> QED BY <1>y, <3>1
  <2> QED BY <1>0, <1>a, <2>1 DEF Ending, PrefixIsExact, Flushes, Parsing
<1> QED BY <1>1, <1>2, <1>3, <1>4 DEF IInv

(* Every step, the end of the stream and stuttering preserve the invariant. *)
LEMMA InvariantStep == IInv /\ [ParserNext]_parserVars => IInv'
<1> SUFFICES ASSUME IInv, [ParserNext]_parserVars PROVE IInv'
  OBVIOUS
<1>1. ASSUME NEW pkt \in Packet, Step(pkt) PROVE IInv'
  BY <1>1, TypeStep, FramingStep, SeenStep, WidthsStep, EndingStep DEF IInv
<1>2. CASE Invalid
  <2> USE <1>2 DEF IInv, Invalid, readVars, certVars, headVars, bodyVars
  <2>1. ParserTypeOK'
    BY DEF ParserTypeOK, Parsing
  <2>2. Framing' /\ Widths'
    BY DEF Framing, Widths
  <2>3. SeenIn(raw, updates)'
    BY DEF SeenIn, ProviderSees, IsCommandAt, EndsCommands
  <2>4. Ending'
    BY DEF Ending, PrefixIsExact, Flushes, Parsing
  <2> QED BY <2>1, <2>2, <2>3, <2>4
<1>3. CASE UNCHANGED parserVars
  <2> USE <1>3 DEF IInv, parserVars, readVars, certVars, headVars, bodyVars
  <2>1. ParserTypeOK'
    BY DEF ParserTypeOK
  <2>2. Framing' /\ Widths'
    BY DEF Framing, Widths
  <2>3. SeenIn(raw, updates)'
    BY DEF SeenIn, ProviderSees, IsCommandAt, EndsCommands
  <2>4. Ending'
    BY DEF Ending, PrefixIsExact, Flushes, ValidatePush
  <2> QED BY <2>1, <2>2, <2>3, <2>4
<1> QED BY <1>1, <1>2, <1>3 DEF ParserNext

(* The inductive invariant holds in every reachable state.                 *)
LEMMA Invariant == ParserSpec => []IInv
BY InvariantInit, InvariantStep, PTL DEF ParserSpec

(* The parser's state keeps its types whatever the client sends; every     *)
(* push option it has taken is printable.                                  *)
THEOREM ParserTypes == ParserSpec => []ParserTypeOK
<1>1. IInv => ParserTypeOK
  BY DEF IInv
<1> QED BY <1>1, Invariant, PTL

(* Every command that the provider finds in an accepted prefix was checked *)
(* by ValidatePush and obeys the push policy, for every policy, every set  *)
(* of updates and every sequence of packets.                               *)
THEOREM PolicyHolds == ParserSpec => []ForwardedCommandsObeyPolicy
<1>1. IInv => ForwardedCommandsObeyPolicy
  <2> SUFFICES ASSUME IInv, expects = "accepted" PROVE ForwardedCommandsObeyPolicy
    BY DEF ForwardedCommandsObeyPolicy
  <2>1. ValidatePush(updates) /\ SeenIn(raw, updates)
    BY DEF IInv, Ending
  <2>2. \A k \in DOMAIN updates : updates[k].ref \notin DenyRefs /\ ~(DenyDeletes /\ isZeroObjectID(updates[k].new))
    BY <2>1 DEF ValidatePush
  <2> QED BY <2>1, <2>2 DEF SeenIn, ForwardedCommandsObeyPolicy
<1> QED BY <1>1, Invariant, PTL

(* The updates that are reported are commands of the prefix, at least one  *)
(* and no more than the policy allows.                                     *)
THEOREM ReportHolds == ParserSpec => []ReportedUpdatesAreForwarded
<1>1. IInv => ReportedUpdatesAreForwarded
  <2> SUFFICES ASSUME IInv PROVE ReportedUpdatesAreForwarded
    OBVIOUS
  <2>1. \A k \in DOMAIN updates : \E i \in ProviderSees(raw) : updates[k] = raw[i].update
    BY DEF IInv, SeenIn
  <2>2. ASSUME expects = "accepted" PROVE Len(updates) \in 1..MaxRefUpdates
    <3>1. updates \in Seq(Update) /\ updates # <<>> /\ Len(updates) <= MaxRefUpdates
      BY <2>2 DEF IInv, Ending, ParserTypeOK, ValidatePush
    <3>2. Len(updates) \in Nat /\ Len(updates) # 0
      BY <3>1, EmptySeq, LenProperties
    <3>3. MaxRefUpdates \in Nat
      BY ReceiveAssumption DEF ReceiveAssumption
    <3> QED BY <3>1, <3>2, <3>3
  <2> QED BY <2>1, <2>2 DEF ReportedUpdatesAreForwarded
<1> QED BY <1>1, Invariant, PTL

(* Every object ID of an accepted prefix has the width the client          *)
(* negotiated, the shallow declarations before the negotiation included.   *)
THEOREM FormatHolds == ParserSpec => []OneObjectFormat
<1>1. IInv => OneObjectFormat
  <2> SUFFICES ASSUME IInv, expects = "accepted" PROVE OneObjectFormat
    BY DEF OneObjectFormat
  <2>1. \A i \in DOMAIN raw : raw[i].kind = "shallow" => raw[i].oid.width = oidWidth
    BY DEF IInv, Widths
  <2>2. \A k \in DOMAIN updates : updates[k].old.width = oidWidth /\ updates[k].new.width = oidWidth
    BY DEF IInv, Widths
  <2>3. \A i \in ProviderSees(raw) : \E k \in DOMAIN updates : updates[k] = raw[i].update
    BY DEF IInv, SeenIn
  <2> QED BY <2>1, <2>2, <2>3 DEF OneObjectFormat
<1> QED BY <1>1, Invariant, PTL

(* The parser reads exactly the prefix, within its byte budget.            *)
THEOREM PrefixHolds == ParserSpec => []PrefixIsExact
<1>1. IInv => PrefixIsExact
  BY DEF IInv, Ending
<1> QED BY <1>1, Invariant, PTL

-----------------------------------------------------------------------------
(* What of a push certificate has been read: that it is one, and how far   *)
(* the required headers have come.                                         *)
CertificateFlags ==
  /\ expects \in {"version", "headers", "body", "cert_flush"} => signed
  /\ expects \in {"start", "commands"} => ~signed
  /\ signed => ValueOf(advertised, "push-cert") # ""
  /\ signed /\ expects \in {"body", "cert_flush", "options", "accepted"} => nextRequired = 3

(* The nonce is the third of the required headers, and is read once.       *)
NonceRead ==
  /\ nextRequired # 3 => HeaderAt(raw, "nonce") = {}
  /\ nextRequired = 3 =>
       \E i \in DOMAIN raw : HeaderAt(raw, "nonce") = {i} /\ raw[i].value = ValueOf(advertised, "push-cert")

(* The options of the headers, and those after the certificate, are what   *)
(* the packets spell, and agree in the end.                                *)
OptionsSpelt ==
  /\ Spell(raw, HeaderAt(raw, "push-option"), headerOptions)
  /\ Spell(raw, OptionAt(raw), trailing)
OptionsCompared ==
  /\ expects \in Parsing \ {"options"} => trailing = <<>>
  /\ expects = "accepted" /\ signed => trailing = headerOptions

(* The packet i of s opens the signature, after every command that the     *)
(* provider reads; with content there is a packet between it and the end.  *)
OpenedAt(s, envelope, i) ==
  /\ s[i].kind = "begin" /\ s[i].envelope = envelope
  /\ \A k \in ProviderSees(s) : k < i
Signature(s, envelope, content, ended) ==
  \E i \in DOMAIN s :
    /\ OpenedAt(s, envelope, i)
    /\ content => i < Len(s)
    /\ content /\ ended =>
         \E j \in DOMAIN s : i + 1 < j /\ s[j].kind = "end" /\ s[j].envelope = envelope

SignatureRead ==
  /\ signatureContent \/ signatureEnded => signatureEnd # ""
  /\ signatureEnd # "" => Signature(raw, signatureEnd, signatureContent, signatureEnded)
SignatureClosed ==
  signed /\ expects \in {"cert_flush", "options", "accepted"} =>
    signatureEnd # "" /\ signatureEnded /\ signatureContent

CertificateRead ==
  /\ CertificateFlags /\ NonceRead
  /\ OptionsSpelt /\ OptionsCompared
  /\ SignatureRead /\ SignatureClosed

(* A packet adds its own place to those of its kind, and to no others.     *)
LEMMA HeadersGrow ==
  ASSUME NEW s \in Seq(Packet), NEW pkt \in Packet, NEW field
  PROVE  /\ HeaderAt(s, field) \subseteq DOMAIN s
         /\ ~(pkt.kind = "header" /\ pkt.field = field) =>
              HeaderAt(Append(s, pkt), field) = HeaderAt(s, field)
         /\ pkt.kind = "header" /\ pkt.field = field =>
              HeaderAt(Append(s, pkt), field) = HeaderAt(s, field) \cup {Len(s) + 1}
<1> DEFINE t == Append(s, pkt)
<1>1. /\ DOMAIN t = 1..(Len(s) + 1) /\ DOMAIN s = 1..Len(s) /\ Len(s) \in Nat
      /\ \A i \in DOMAIN s : t[i] = s[i]
      /\ t[Len(s) + 1] = pkt
  OBVIOUS
<1> HIDE DEF t
<1>2. DOMAIN t = DOMAIN s \cup {Len(s) + 1} /\ Len(s) + 1 \notin DOMAIN s
  BY <1>1
<1>3. ~(pkt.kind = "header" /\ pkt.field = field) => HeaderAt(t, field) = HeaderAt(s, field)
  BY <1>1, <1>2 DEF HeaderAt
<1>4. pkt.kind = "header" /\ pkt.field = field => HeaderAt(t, field) = HeaderAt(s, field) \cup {Len(s) + 1}
  BY <1>1, <1>2 DEF HeaderAt
<1>5. HeaderAt(s, field) \subseteq DOMAIN s
  BY DEF HeaderAt
<1> QED BY <1>3, <1>4, <1>5 DEF t

(* The same for the options that follow a certificate. *)
LEMMA OptionsGrow ==
  ASSUME NEW s \in Seq(Packet), NEW pkt \in Packet
  PROVE  /\ OptionAt(s) \subseteq DOMAIN s
         /\ pkt.kind # "option" => OptionAt(Append(s, pkt)) = OptionAt(s)
         /\ pkt.kind = "option" => OptionAt(Append(s, pkt)) = OptionAt(s) \cup {Len(s) + 1}
<1> DEFINE t == Append(s, pkt)
<1>1. /\ DOMAIN t = 1..(Len(s) + 1) /\ DOMAIN s = 1..Len(s) /\ Len(s) \in Nat
      /\ \A i \in DOMAIN s : t[i] = s[i]
      /\ t[Len(s) + 1] = pkt
  OBVIOUS
<1> HIDE DEF t
<1>2. DOMAIN t = DOMAIN s \cup {Len(s) + 1} /\ Len(s) + 1 \notin DOMAIN s
  BY <1>1
<1>3. pkt.kind # "option" => OptionAt(t) = OptionAt(s)
  BY <1>1, <1>2 DEF OptionAt
<1>4. pkt.kind = "option" => OptionAt(t) = OptionAt(s) \cup {Len(s) + 1}
  BY <1>1, <1>2 DEF OptionAt
<1>5. OptionAt(s) \subseteq DOMAIN s
  BY DEF OptionAt
<1> QED BY <1>3, <1>4, <1>5 DEF t

(* A packet elsewhere leaves what the packets at some places spell.        *)
LEMMA SpellStays ==
  ASSUME NEW s \in Seq(Packet), NEW pkt \in Packet, NEW places, places \subseteq DOMAIN s,
         NEW values \in Seq(Printable), Spell(s, places, values)
  PROVE  Spell(Append(s, pkt), places, values)
<1>1. \A i \in DOMAIN s : Append(s, pkt)[i] = s[i]
  OBVIOUS
<1>2. PICK at \in [1..Len(values) -> places] :
        /\ \A k, l \in 1..Len(values) : k < l => at[k] < at[l]
        /\ \A i \in places : \E k \in 1..Len(values) : i = at[k]
        /\ \A k \in 1..Len(values) : s[at[k]].value = values[k]
  BY DEF Spell
<1>3. \A k \in 1..Len(values) : Append(s, pkt)[at[k]].value = values[k]
  BY <1>1, <1>2
<1> QED BY <1>2, <1>3 DEF Spell

(* A packet at a new last place spells its value after the others.         *)
LEMMA SpellGrows ==
  ASSUME NEW s \in Seq(Packet), NEW pkt \in Packet, NEW places, places \subseteq DOMAIN s,
         NEW values \in Seq(Printable), pkt.value \in Printable, Spell(s, places, values)
  PROVE  Spell(Append(s, pkt), places \cup {Len(s) + 1}, Append(values, pkt.value))
<1> DEFINE t == Append(s, pkt)
           n == Len(values)
           vs == Append(values, pkt.value)
           more == places \cup {Len(s) + 1}
<1>1. /\ \A i \in DOMAIN s : t[i] = s[i] /\ i < Len(s) + 1
      /\ t[Len(s) + 1] = pkt
      /\ Len(s) \in Nat /\ DOMAIN s = 1..Len(s)
  OBVIOUS
<1>2. /\ n \in Nat /\ Len(vs) = n + 1
      /\ \A k \in 1..n : vs[k] = values[k]
      /\ vs[n + 1] = pkt.value
  OBVIOUS
<1>3. PICK at \in [1..n -> places] :
        /\ \A k, l \in 1..n : k < l => at[k] < at[l]
        /\ \A i \in places : \E k \in 1..n : i = at[k]
        /\ \A k \in 1..n : s[at[k]].value = values[k]
  BY DEF Spell
<1> DEFINE to == [k \in 1..(n + 1) |-> IF k = n + 1 THEN Len(s) + 1 ELSE at[k]]
<1> HIDE DEF t, n, vs
<1>4. \A k \in 1..(n + 1) : k = n + 1 \/ k \in 1..n
  BY <1>2
<1>5. \A k \in 1..n : k \in 1..(n + 1) /\ k # n + 1
  BY <1>2
<1>6. n + 1 \in 1..(n + 1)
  BY <1>2
<1>7. \A k \in 1..n : to[k] = at[k] /\ at[k] \in places /\ at[k] \in DOMAIN s
  BY <1>3, <1>5
<1>8. to[n + 1] = Len(s) + 1
  BY <1>6
<1>9. to \in [1..(n + 1) -> more]
  <2>1. \A k \in 1..(n + 1) : to[k] \in more
    BY <1>4, <1>7, <1>8
  <2> QED BY <2>1
<1> HIDE DEF to
<1>10. ASSUME NEW k \in 1..(n + 1), NEW l \in 1..(n + 1), k < l PROVE to[k] < to[l]
  <2>1. k \in 1..n
    BY <1>2, <1>10
  <2>2. CASE l = n + 1
    BY <1>1, <1>7, <1>8, <2>1, <2>2
  <2>3. CASE l \in 1..n
    BY <1>3, <1>7, <1>10, <2>1, <2>3
  <2> QED BY <1>4, <2>2, <2>3
<1>11. ASSUME NEW i \in more PROVE \E k \in 1..(n + 1) : i = to[k]
  <2>1. CASE i = Len(s) + 1
    BY <1>6, <1>8, <2>1
  <2>2. CASE i \in places
    BY <1>3, <1>5, <1>7, <2>2
  <2> QED BY <2>1, <2>2
<1>12. ASSUME NEW k \in 1..(n + 1) PROVE t[to[k]].value = vs[k]
  <2>1. CASE k = n + 1
    BY <1>1, <1>2, <1>8, <2>1
  <2>2. CASE k \in 1..n
    BY <1>1, <1>2, <1>3, <1>7, <2>2
  <2> QED BY <1>4, <2>1, <2>2
<1>13. \E f \in [1..Len(vs) -> more] :
         /\ \A k, l \in 1..Len(vs) : k < l => f[k] < f[l]
         /\ \A i \in more : \E k \in 1..Len(vs) : i = f[k]
         /\ \A k \in 1..Len(vs) : t[f[k]].value = vs[k]
  BY <1>2, <1>9, <1>10, <1>11, <1>12
<1> QED BY <1>13 DEF Spell, t, vs

(* No packets spell no values.                                             *)
LEMMA SpellNothing == Spell(<<>>, {}, <<>>)
<1>1. Len(<<>>) = 0 /\ 1..0 = {}
  OBVIOUS
<1>2. \E at \in [{} -> {}] : TRUE
  <2>1. [x \in {} |-> x] \in [{} -> {}]
    OBVIOUS
  <2> QED BY <2>1
<1> QED BY <1>1, <1>2 DEF Spell

(* The opening of a signature stays where it is: whatever follows it is    *)
(* not a command to the provider.                                          *)
LEMMA OpenedStays ==
  ASSUME NEW s \in Seq(Packet), NEW pkt \in Packet, NEW envelope, NEW i \in DOMAIN s,
         OpenedAt(s, envelope, i)
  PROVE  OpenedAt(Append(s, pkt), envelope, i)
<1>1. Append(s, pkt)[i] = s[i] /\ EndsCommands(s[i])
  BY AppendSees DEF OpenedAt, EndsCommands
<1>2. ASSUME NEW k \in ProviderSees(Append(s, pkt)) PROVE k < i
  <2>1. k \in DOMAIN Append(s, pkt)
    BY DEF ProviderSees
  <2>2. k # Len(s) + 1
    BY <1>1, AppendSees
  <2>3. k \in DOMAIN s
    <3>1. Len(s) \in Nat /\ DOMAIN s = 1..Len(s)
      OBVIOUS
    <3> QED BY <2>1, <2>2, <3>1, AppendSees
  <2>4. k \in ProviderSees(s)
    BY <2>3, AppendSees
  <2> QED BY <2>4 DEF OpenedAt
<1> QED BY <1>1, <1>2 DEF OpenedAt

(* A new packet opens a signature when nothing has stopped the provider.   *)
LEMMA OpensNow ==
  ASSUME NEW s \in Seq(Packet), NEW pkt \in Packet, pkt.kind = "begin"
  PROVE  Signature(Append(s, pkt), pkt.envelope, FALSE, FALSE)
<1> DEFINE t == Append(s, pkt)
           n == Len(s) + 1
<1>1. n \in DOMAIN t /\ t[n] = pkt
  BY AppendSees
<1>2. ASSUME NEW k \in ProviderSees(t) PROVE k < n
  <2>1. k \in DOMAIN t
    BY DEF ProviderSees
  <2>2. k # n
    BY AppendSees
  <2>3. Len(s) \in Nat /\ DOMAIN t = 1..(Len(s) + 1)
    BY AppendSees
  <2> QED BY <2>1, <2>2, <2>3
<1> HIDE DEF t, n
<1> QED BY <1>1, <1>2 DEF Signature, OpenedAt, t

(* A further packet keeps the signature, and a line inside it is content.  *)
LEMMA SignatureStays ==
  ASSUME NEW s \in Seq(Packet), NEW pkt \in Packet, NEW envelope,
         NEW content \in BOOLEAN, NEW ended \in BOOLEAN, Signature(s, envelope, content, ended)
  PROVE  /\ Signature(Append(s, pkt), envelope, content, ended)
         /\ ~ended => Signature(Append(s, pkt), envelope, TRUE, ended)
         /\ pkt.kind = "end" /\ pkt.envelope = envelope =>
              Signature(Append(s, pkt), envelope, content, TRUE)
<1> DEFINE t == Append(s, pkt)
<1>1. PICK i \in DOMAIN s :
        /\ OpenedAt(s, envelope, i)
        /\ content => i < Len(s)
        /\ content /\ ended =>
             \E j \in DOMAIN s : i + 1 < j /\ s[j].kind = "end" /\ s[j].envelope = envelope
  BY DEF Signature
<1>2. OpenedAt(t, envelope, i)
  BY <1>1, OpenedStays
<1>3. /\ \A j \in DOMAIN s : j \in DOMAIN t /\ t[j] = s[j]
      /\ Len(t) = Len(s) + 1 /\ Len(t) \in DOMAIN t /\ t[Len(t)] = pkt
      /\ Len(s) \in Nat /\ i \in 1..Len(s)
  <2>1. Len(s) \in Nat /\ DOMAIN s = 1..Len(s)
    OBVIOUS
  <2> QED BY <2>1, AppendSees
<1> HIDE DEF t
<1>4. i \in DOMAIN t /\ i < Len(t) /\ (content => i + 1 < Len(t))
  BY <1>1, <1>3
<1>5. content /\ ended =>
        \E j \in DOMAIN t : i + 1 < j /\ t[j].kind = "end" /\ t[j].envelope = envelope
  BY <1>1, <1>3
<1>6. Signature(t, envelope, content, ended)
  BY <1>2, <1>4, <1>5 DEF Signature
<1>7. ~ended => Signature(t, envelope, TRUE, ended)
  BY <1>2, <1>4 DEF Signature
<1>8. pkt.kind = "end" /\ pkt.envelope = envelope => Signature(t, envelope, content, TRUE)
  BY <1>2, <1>3, <1>4 DEF Signature
<1> QED BY <1>6, <1>7, <1>8 DEF t

(* Each action keeps how far the certificate has come.                     *)
LEMMA FlagsStep ==
  ASSUME ParserTypeOK, CertificateFlags, NEW pkt \in Packet, Step(pkt)
  PROVE  CertificateFlags'
<1> USE DEF CertificateFlags, ValueOf, Has, certVars, headVars, bodyVars
<1>1. CASE addShallow(pkt)
  BY <1>1 DEF addShallow
<1>2. CASE parseFirstCommand(pkt)
  BY <1>2 DEF parseFirstCommand
<1>3. CASE parseCertificate(pkt)
  BY <1>3 DEF parseCertificate, validatePushCertificate
<1>4. CASE parseCommand(pkt)
  BY <1>4 DEF parseCommand
<1>5. CASE EndCommands(pkt)
  BY <1>5 DEF EndCommands, BeginOptions, FinishParse
<1>6. CASE expectVersion(pkt)
  BY <1>6 DEF expectVersion
<1>7. CASE RequiredHeader(pkt)
  BY <1>7 DEF RequiredHeader
<1>8. CASE HeaderOption(pkt)
  BY <1>8 DEF HeaderOption
<1>9. CASE EndHeaders(pkt)
  BY <1>9 DEF EndHeaders
<1>10. CASE CertificateCommand(pkt)
  BY <1>10 DEF CertificateCommand
<1>11. CASE SignatureBegin(pkt)
  BY <1>11 DEF SignatureBegin
<1>12. CASE SignatureLine(pkt)
  BY <1>12 DEF SignatureLine
<1>13. CASE SignatureEnd(pkt)
  BY <1>13 DEF SignatureEnd
<1>14. CASE EndCertificate(pkt)
  BY <1>14 DEF EndCertificate
<1>15. CASE CertificateFlush(pkt)
  BY <1>15 DEF CertificateFlush, BeginOptions, FinishParse
<1>16. CASE PushOption(pkt)
  BY <1>16 DEF PushOption
<1>17. CASE EndOptions(pkt)
  BY <1>17 DEF EndOptions, FinishParse
<1> QED BY <1>1, <1>2, <1>3, <1>4, <1>5, <1>6, <1>7, <1>8, <1>9, <1>10,
      <1>11, <1>12, <1>13, <1>14, <1>15, <1>16, <1>17 DEF Step

(* Each action keeps the nonce: only the third required header is one.     *)
LEMMA NonceStep ==
  ASSUME ParserTypeOK, CertificateFlags, NonceRead, NEW pkt \in Packet, Step(pkt)
  PROVE  NonceRead'
<1>a. raw \in Seq(Packet) /\ raw' = Append(raw, pkt) /\ nextRequired \in 0..3
  BY StepRaw DEF ParserTypeOK
<1>b. /\ \A i \in DOMAIN raw : i \in DOMAIN raw' /\ raw'[i] = raw[i]
      /\ Len(raw) + 1 \in DOMAIN raw' /\ raw'[Len(raw) + 1] = pkt
  BY StepRaw
<1>1. ASSUME nextRequired' = nextRequired, advertised' = advertised,
             ~(pkt.kind = "header" /\ pkt.field = "nonce")
      PROVE  NonceRead'
  <2>1. HeaderAt(raw', "nonce") = HeaderAt(raw, "nonce")
    BY <1>1, <1>a, HeadersGrow
  <2>2. nextRequired # 3 => HeaderAt(raw', "nonce") = {}
    BY <2>1 DEF NonceRead
  <2>3. nextRequired = 3 =>
          \E i \in DOMAIN raw' : HeaderAt(raw', "nonce") = {i} /\ raw'[i].value = ValueOf(advertised, "push-cert")
    BY <1>b, <2>1 DEF NonceRead
  <2> QED BY <1>1, <2>2, <2>3 DEF NonceRead, ValueOf, Has
<1>2. CASE RequiredHeader(pkt)
  <2>1. /\ pkt.kind = "header" /\ nextRequired < 3 /\ pkt.field = Required[nextRequired + 1]
        /\ nextRequired' = nextRequired + 1 /\ advertised' = advertised
        /\ NonceMatches(pkt)
    BY <1>2 DEF RequiredHeader
  <2>2. Required[1] = "pusher" /\ Required[2] = "pushee" /\ Required[3] = "nonce"
    BY DEF Required
  <2>3. HeaderAt(raw, "nonce") = {}
    BY <2>1 DEF NonceRead
  <2>4. CASE nextRequired = 2
    <3>1. pkt.field = "nonce" /\ nextRequired' = 3
      BY <2>1, <2>2, <2>4
    <3>2. HeaderAt(raw', "nonce") = {Len(raw) + 1}
      BY <1>a, <2>1, <2>3, <3>1, HeadersGrow
    <3>3. pkt.value = ValueOf(advertised, "push-cert")
      <4>1. ValueOf(advertised, "push-cert") # ""
        BY <1>2 DEF RequiredHeader, CertificateFlags
      <4> QED BY <2>1, <3>1, <4>1 DEF NonceMatches, ValueOf
    <3> QED BY <1>b, <2>1, <3>1, <3>2, <3>3 DEF NonceRead, ValueOf, Has
  <2>5. CASE nextRequired \in {0, 1}
    <3>1. pkt.field # "nonce" /\ nextRequired' # 3
      BY <2>1, <2>2, <2>5
    <3>2. HeaderAt(raw', "nonce") = {}
      BY <1>a, <2>3, <3>1, HeadersGrow
    <3> QED BY <3>1, <3>2 DEF NonceRead
  <2> QED BY <1>a, <2>1, <2>4, <2>5
<1>3. CASE ~RequiredHeader(pkt)
  <2>1. /\ nextRequired' = nextRequired /\ advertised' = advertised
        /\ ~(pkt.kind = "header" /\ pkt.field = "nonce")
    BY <1>3 DEF Step, addShallow, parseFirstCommand, parseCertificate, parseCommand, EndCommands,
           expectVersion, HeaderOption, EndHeaders, CertificateCommand, SignatureBegin, SignatureLine,
           SignatureEnd, EndCertificate, CertificateFlush, PushOption, EndOptions, certVars, headVars
  <2> QED BY <1>1, <2>1
<1> QED BY <1>2, <1>3

(* Each action keeps the options spelt: the two that take one append it.   *)
LEMMA SpeltStep ==
  ASSUME ParserTypeOK, OptionsSpelt, NEW pkt \in Packet, Step(pkt)
  PROVE  OptionsSpelt'
<1>a. raw \in Seq(Packet) /\ raw' = Append(raw, pkt)
  BY StepRaw DEF ParserTypeOK
<1>b. headerOptions \in Seq(Printable) /\ trailing \in Seq(Printable)
  BY DEF ParserTypeOK
<1> DEFINE H(s) == HeaderAt(s, "push-option")
<1>c. H(raw) \subseteq DOMAIN raw /\ OptionAt(raw) \subseteq DOMAIN raw
  BY <1>a, HeadersGrow, OptionsGrow
<1>d. Spell(raw, H(raw), headerOptions) /\ Spell(raw, OptionAt(raw), trailing)
  BY DEF OptionsSpelt
<1> HIDE DEF H
<1>e. /\ ~(pkt.kind = "header" /\ pkt.field = "push-option") => H(raw') = H(raw)
      /\ pkt.kind = "header" /\ pkt.field = "push-option" => H(raw') = H(raw) \cup {Len(raw) + 1}
      /\ pkt.kind # "option" => OptionAt(raw') = OptionAt(raw)
      /\ pkt.kind = "option" => OptionAt(raw') = OptionAt(raw) \cup {Len(raw) + 1}
  BY <1>a, HeadersGrow, OptionsGrow DEF H
<1>f. Spell(raw', H(raw), headerOptions) /\ Spell(raw', OptionAt(raw), trailing)
  BY <1>a, <1>b, <1>c, <1>d, SpellStays
<1>1. CASE HeaderOption(pkt)
  <2>1. /\ pkt.kind = "header" /\ pkt.field = "push-option" /\ pkt.value \in Printable
        /\ headerOptions' = Append(headerOptions, pkt.value) /\ trailing' = trailing
    BY <1>1 DEF HeaderOption, validPushOption
  <2>2. Spell(raw', H(raw'), headerOptions')
    BY <1>a, <1>b, <1>c, <1>d, <1>e, <2>1, SpellGrows
  <2>3. Spell(raw', OptionAt(raw'), trailing')
    BY <1>e, <1>f, <2>1
  <2> QED BY <2>2, <2>3 DEF OptionsSpelt, H
<1>2. CASE PushOption(pkt)
  <2>1. /\ pkt.kind = "option" /\ pkt.value \in Printable
        /\ trailing' = Append(trailing, pkt.value) /\ headerOptions' = headerOptions
    BY <1>2 DEF PushOption, validPushOption, certVars, headVars
  <2>2. Spell(raw', OptionAt(raw'), trailing')
    BY <1>a, <1>b, <1>c, <1>d, <1>e, <2>1, SpellGrows
  <2>3. Spell(raw', H(raw'), headerOptions')
    BY <1>e, <1>f, <2>1
  <2> QED BY <2>2, <2>3 DEF OptionsSpelt, H
<1>3. CASE ~HeaderOption(pkt) /\ ~PushOption(pkt)
  <2>1. /\ headerOptions' = headerOptions /\ trailing' = trailing
        /\ pkt.kind # "option" /\ ~(pkt.kind = "header" /\ pkt.field = "push-option")
    <3>1. \A k \in 1..3 : Required[k] # "push-option"
      BY DEF Required
    <3>2. nextRequired < 3 => nextRequired + 1 \in 1..3
      <4>1. nextRequired \in 0..3
        BY DEF ParserTypeOK
      <4> QED BY <4>1
    <3>3. CASE RequiredHeader(pkt)
      BY <3>1, <3>2, <3>3 DEF RequiredHeader
    <3>4. CASE ~RequiredHeader(pkt)
      BY <1>3, <3>4 DEF Step, addShallow, parseFirstCommand, parseCertificate, parseCommand, EndCommands,
           expectVersion, EndHeaders, CertificateCommand, SignatureBegin, SignatureLine,
           SignatureEnd, EndCertificate, CertificateFlush, EndOptions, certVars, headVars
    <3> QED BY <3>3, <3>4
  <2>2. Spell(raw', H(raw'), headerOptions')
    BY <1>e, <1>f, <2>1
  <2>3. Spell(raw', OptionAt(raw'), trailing')
    BY <1>e, <1>f, <2>1
  <2> QED BY <2>2, <2>3 DEF OptionsSpelt, H
<1> QED BY <1>1, <1>2, <1>3

(* Each action keeps the comparison: a certificate is accepted only after  *)
(* the two lists were found equal, or neither has an option.               *)
LEMMA ComparedStep ==
  ASSUME ParserTypeOK, CertificateFlags, OptionsCompared, NEW pkt \in Packet, Step(pkt)
  PROVE  OptionsCompared'
<1> USE DEF OptionsCompared, CertificateFlags, Parsing, certVars, headVars, bodyVars
<1>1. CASE addShallow(pkt)
  BY <1>1 DEF addShallow
<1>2. CASE parseFirstCommand(pkt)
  BY <1>2 DEF parseFirstCommand
<1>3. CASE parseCertificate(pkt)
  BY <1>3 DEF parseCertificate
<1>4. CASE parseCommand(pkt)
  BY <1>4 DEF parseCommand
<1>5. CASE EndCommands(pkt)
  BY <1>5 DEF EndCommands, BeginOptions, FinishParse
<1>6. CASE expectVersion(pkt)
  BY <1>6 DEF expectVersion
<1>7. CASE RequiredHeader(pkt)
  BY <1>7 DEF RequiredHeader
<1>8. CASE HeaderOption(pkt)
  BY <1>8 DEF HeaderOption
<1>9. CASE EndHeaders(pkt)
  BY <1>9 DEF EndHeaders
<1>10. CASE CertificateCommand(pkt)
  BY <1>10 DEF CertificateCommand
<1>11. CASE SignatureBegin(pkt)
  BY <1>11 DEF SignatureBegin
<1>12. CASE SignatureLine(pkt)
  BY <1>12 DEF SignatureLine
<1>13. CASE SignatureEnd(pkt)
  BY <1>13 DEF SignatureEnd
<1>14. CASE EndCertificate(pkt)
  BY <1>14 DEF EndCertificate
<1>15. CASE CertificateFlush(pkt)
  BY <1>15 DEF CertificateFlush, BeginOptions, FinishParse
<1>16. CASE PushOption(pkt)
  BY <1>16 DEF PushOption
<1>17. CASE EndOptions(pkt)
  BY <1>17 DEF EndOptions, FinishParse, OptionsAgree
<1> QED BY <1>1, <1>2, <1>3, <1>4, <1>5, <1>6, <1>7, <1>8, <1>9, <1>10,
      <1>11, <1>12, <1>13, <1>14, <1>15, <1>16, <1>17 DEF Step

(* Each action keeps the signature that was opened.                        *)
LEMMA SignatureStep ==
  ASSUME ParserTypeOK, SignatureRead, NEW pkt \in Packet, Step(pkt)
  PROVE  SignatureRead'
<1>a. raw \in Seq(Packet) /\ raw' = Append(raw, pkt)
  BY StepRaw DEF ParserTypeOK
<1>b. signatureContent \in BOOLEAN /\ signatureEnded \in BOOLEAN
  BY DEF ParserTypeOK
<1>c. signatureEnd # "" => Signature(raw, signatureEnd, signatureContent, signatureEnded)
  BY DEF SignatureRead
<1>d. pkt.kind \in {"begin", "end"} => pkt.envelope \in Envelope /\ pkt.envelope # ""
  BY PacketFields, ReceiveAssumption DEF ReceiveAssumption
<1>1. CASE SignatureBegin(pkt)
  <2>1. /\ pkt.kind = "begin" /\ signatureEnd = "" /\ signatureEnd' = pkt.envelope
        /\ signatureContent' = signatureContent /\ signatureEnded' = signatureEnded
    BY <1>1 DEF SignatureBegin
  <2>2. ~signatureContent /\ ~signatureEnded
    BY <2>1 DEF SignatureRead
  <2>3. Signature(raw', signatureEnd', FALSE, FALSE)
    BY <1>a, <2>1, OpensNow
  <2>4. signatureContent' = FALSE /\ signatureEnded' = FALSE
    BY <1>b, <2>1, <2>2
  <2>5. Signature(raw', signatureEnd', signatureContent', signatureEnded')
    BY <2>3, <2>4
  <2> QED BY <2>4, <2>5 DEF SignatureRead
<1>2. CASE SignatureLine(pkt)
  <2>1. /\ signatureEnd # "" /\ ~signatureEnded
        /\ signatureContent' = (signatureContent \/ pkt.kind # "blank")
        /\ signatureEnd' = signatureEnd /\ signatureEnded' = signatureEnded
    BY <1>2 DEF SignatureLine
  <2>2. /\ Signature(raw', signatureEnd, signatureContent, signatureEnded)
        /\ Signature(raw', signatureEnd, TRUE, signatureEnded)
    BY <1>a, <1>b, <1>c, <2>1, SignatureStays
  <2>3. signatureContent' = signatureContent \/ signatureContent' = TRUE
    BY <1>b, <2>1
  <2>4. Signature(raw', signatureEnd', signatureContent', signatureEnded')
    BY <2>1, <2>2, <2>3
  <2> QED BY <2>1, <2>4 DEF SignatureRead
<1>3. CASE SignatureEnd(pkt)
  <2>1. /\ pkt.kind = "end" /\ signatureEnd = pkt.envelope /\ signatureEnded' = TRUE
        /\ signatureEnd' = signatureEnd /\ signatureContent' = signatureContent
    BY <1>3 DEF SignatureEnd
  <2>2. Signature(raw', signatureEnd, signatureContent, TRUE)
    BY <1>a, <1>b, <1>c, <1>d, <2>1, SignatureStays
  <2>3. Signature(raw', signatureEnd', signatureContent', signatureEnded')
    BY <2>1, <2>2
  <2> QED BY <1>d, <2>1, <2>3 DEF SignatureRead
<1>4. CASE ~SignatureBegin(pkt) /\ ~SignatureLine(pkt) /\ ~SignatureEnd(pkt)
  <2>1. UNCHANGED bodyVars
    BY <1>4 DEF Step, addShallow, parseFirstCommand, parseCertificate, parseCommand, EndCommands,
           expectVersion, RequiredHeader, HeaderOption, EndHeaders, CertificateCommand,
           EndCertificate, CertificateFlush, PushOption, EndOptions, certVars, bodyVars
  <2>2. /\ signatureEnd' = signatureEnd /\ signatureContent' = signatureContent
        /\ signatureEnded' = signatureEnded
    BY <2>1 DEF bodyVars
  <2>3. signatureEnd # "" => Signature(raw', signatureEnd, signatureContent, signatureEnded)
    BY <1>a, <1>b, <1>c, SignatureStays
  <2>4. signatureEnd' # "" => Signature(raw', signatureEnd', signatureContent', signatureEnded')
    BY <2>2, <2>3
  <2> QED BY <2>2, <2>4 DEF SignatureRead
<1> QED BY <1>1, <1>2, <1>3, <1>4

(* Each action keeps the signature closed once the certificate has ended.  *)
LEMMA ClosedStep ==
  ASSUME ParserTypeOK, CertificateFlags, SignatureClosed, NEW pkt \in Packet, Step(pkt)
  PROVE  SignatureClosed'
<1> USE DEF SignatureClosed, CertificateFlags, certVars, headVars, bodyVars
<1>1. CASE addShallow(pkt)
  BY <1>1 DEF addShallow
<1>2. CASE parseFirstCommand(pkt)
  BY <1>2 DEF parseFirstCommand
<1>3. CASE parseCertificate(pkt)
  BY <1>3 DEF parseCertificate
<1>4. CASE parseCommand(pkt)
  BY <1>4 DEF parseCommand
<1>5. CASE EndCommands(pkt)
  BY <1>5 DEF EndCommands, BeginOptions, FinishParse
<1>6. CASE expectVersion(pkt)
  BY <1>6 DEF expectVersion
<1>7. CASE RequiredHeader(pkt)
  BY <1>7 DEF RequiredHeader
<1>8. CASE HeaderOption(pkt)
  BY <1>8 DEF HeaderOption
<1>9. CASE EndHeaders(pkt)
  BY <1>9 DEF EndHeaders
<1>10. CASE CertificateCommand(pkt)
  BY <1>10 DEF CertificateCommand
<1>11. CASE SignatureBegin(pkt)
  BY <1>11 DEF SignatureBegin
<1>12. CASE SignatureLine(pkt)
  BY <1>12 DEF SignatureLine
<1>13. CASE SignatureEnd(pkt)
  BY <1>13 DEF SignatureEnd
<1>14. CASE EndCertificate(pkt)
  BY <1>14 DEF EndCertificate, SignatureComplete
<1>15. CASE CertificateFlush(pkt)
  BY <1>15 DEF CertificateFlush, BeginOptions, FinishParse
<1>16. CASE PushOption(pkt)
  BY <1>16 DEF PushOption
<1>17. CASE EndOptions(pkt)
  BY <1>17 DEF EndOptions, FinishParse
<1> QED BY <1>1, <1>2, <1>3, <1>4, <1>5, <1>6, <1>7, <1>8, <1>9, <1>10,
      <1>11, <1>12, <1>13, <1>14, <1>15, <1>16, <1>17 DEF Step

(* Nothing of a certificate has been read before the first packet.         *)
LEMMA CertificateInit == ParserInit => CertificateRead
<1> SUFFICES ASSUME ParserInit PROVE CertificateRead
  OBVIOUS
<1>1. raw = <<>> /\ trailing = <<>> /\ headerOptions = <<>> /\ expects = "start"
  BY Zenon DEF ParserInit
<1>2. signed = FALSE /\ signatureEnd = "" /\ signatureEnded = FALSE /\ signatureContent = FALSE
  BY Zenon DEF ParserInit
<1>3. nextRequired = 0
  BY Zenon DEF ParserInit
<1>4. \A field : HeaderAt(<<>>, field) = {}
  BY DEF HeaderAt
<1>5. OptionAt(<<>>) = {}
  BY DEF OptionAt
<1>6. CertificateFlags /\ OptionsCompared /\ SignatureRead /\ SignatureClosed
  BY <1>1, <1>2, <1>3 DEF CertificateFlags, OptionsCompared, SignatureRead, SignatureClosed
<1>7. NonceRead
  BY <1>1, <1>3, <1>4 DEF NonceRead
<1>8. OptionsSpelt
  BY <1>1, <1>4, <1>5, SpellNothing DEF OptionsSpelt
<1> QED BY <1>6, <1>7, <1>8 DEF CertificateRead

(* Every step, the end of the stream and stuttering keep what was read.    *)
LEMMA CertificateStep == IInv /\ CertificateRead /\ [ParserNext]_parserVars => CertificateRead'
<1> SUFFICES ASSUME IInv, CertificateRead, [ParserNext]_parserVars PROVE CertificateRead'
  OBVIOUS
<1>1. ASSUME NEW pkt \in Packet, Step(pkt) PROVE CertificateRead'
  BY <1>1, FlagsStep, NonceStep, SpeltStep, ComparedStep, SignatureStep, ClosedStep
     DEF IInv, CertificateRead
<1>2. ASSUME UNCHANGED <<advertised, raw, headerOptions, trailing, nextRequired, signed>>,
             UNCHANGED bodyVars, expects' = expects \/ expects' = "invalid"
      PROVE  CertificateRead'
  <2> USE <1>2 DEF CertificateRead, bodyVars
  <2>1. CertificateFlags' /\ OptionsCompared' /\ SignatureClosed'
    BY DEF CertificateFlags, OptionsCompared, SignatureClosed, ValueOf, Has, Parsing
  <2>2. NonceRead'
    BY DEF NonceRead, HeaderAt, ValueOf, Has
  <2>3. OptionsSpelt'
    BY DEF OptionsSpelt
  <2>4. SignatureRead'
    BY DEF SignatureRead
  <2> QED BY <2>1, <2>2, <2>3, <2>4
<1>3. CASE Invalid
  BY <1>2, <1>3 DEF Invalid, readVars, certVars, headVars
<1>4. CASE UNCHANGED parserVars
  BY <1>2, <1>4 DEF parserVars, readVars, certVars, headVars
<1> QED BY <1>1, <1>3, <1>4 DEF ParserNext

(* An accepted certificate is whole, for every set of packets and every    *)
(* advertisement: the advertised nonce once, a closed signature after the  *)
(* commands, and the push options that follow are the ones it signs.       *)
THEOREM CertificateHolds == ParserSpec => []CertificateIsWhole
<1>1. IInv /\ CertificateRead => CertificateIsWhole
  <2> SUFFICES ASSUME IInv, CertificateRead, expects = "accepted", signed PROVE CertificateIsWhole
    BY DEF CertificateIsWhole
  <2>1. \E i \in DOMAIN raw : HeaderAt(raw, "nonce") = {i} /\ raw[i].value = ValueOf(advertised, "push-cert")
    BY DEF CertificateRead, CertificateFlags, NonceRead
  <2>2. Signature(raw, signatureEnd, TRUE, TRUE)
    <3>1. /\ Signature(raw, signatureEnd, signatureContent, signatureEnded)
          /\ signatureContent /\ signatureEnded
      BY DEF CertificateRead, SignatureRead, SignatureClosed
    <3>2. signatureContent = TRUE /\ signatureEnded = TRUE
      BY <3>1 DEF IInv, ParserTypeOK
    <3> QED BY <3>1, <3>2
  <2>3. \E i, j \in DOMAIN raw :
          /\ i + 1 < j
          /\ raw[i].kind = "begin" /\ raw[j].kind = "end" /\ raw[i].envelope = raw[j].envelope
          /\ \A k \in ProviderSees(raw) : k < i
    BY <2>2 DEF Signature, OpenedAt
  <2>4. Spell(raw, HeaderAt(raw, "push-option"), trailing) /\ Spell(raw, OptionAt(raw), trailing)
    BY DEF CertificateRead, OptionsSpelt, OptionsCompared
  <2> QED BY <2>1, <2>3, <2>4 DEF CertificateIsWhole
<1>2. ParserSpec => [](IInv /\ CertificateRead)
  BY InvariantInit, InvariantStep, CertificateInit, CertificateStep, PTL DEF ParserSpec
<1> QED BY <1>1, <1>2, PTL
=============================================================================
