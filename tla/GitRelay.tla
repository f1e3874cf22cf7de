------------------------------ MODULE GitRelay ------------------------------
(***************************************************************************)
(* One run of repowolf-git-ssh (internal/client/gitssh): the relay between *)
(* the Git process that started it and the broker.  The goroutine of relay *)
(* receives, a second one reads Git's data from stdin and sends it, and    *)
(* either may block: in Recv and Send until the stream's context ends, in  *)
(* a read of stdin until Git says something.                               *)
(*                                                                         *)
(* The broker is anything that sends frames: that it keeps the protocol is *)
(* what the relay checks.  Data is its length.  All errors are one error,  *)
(* since Run prints the same diagnostic for each; kept apart is only the   *)
(* read that fails because the relay itself has closed stdin.              *)
(***************************************************************************)
EXTENDS Integers

CONSTANTS MaxBytes,        \* relayLimits.maxBytes
          MaxData,         \* relayLimits.chunkBytes, and the largest data frame
          ExitCodes,       \* exit codes a terminal frame may carry
          CloseInterrupts  \* closing stdin ends a read that is blocked in it

ASSUME RelayAssumption ==
  /\ MaxBytes \in Nat \ {0} /\ MaxData \in Nat \ {0}
  /\ ExitCodes \subseteq Int /\ CloseInterrupts \in BOOLEAN

VARIABLES
  relayPc,   \* where Run and relay are
  signal,    \* the process was interrupted: the context of Run has ended
  relayCause, \* context.Cause(relayContext)
  stop,      \* stopSender: stopInput is closed, then stdin is
  started,   \* startInput is closed
  opened,    \* what the sender said on the channel of that name
  sender,    \* where sendInput is
  senderErr, \* what it failed with, on its way to recordFailure
  chunk,     \* length of the data it sends
  sentBytes, \* bytes it has sent
  received,  \* bytes of data frames from the broker
  pending,   \* of which these are being written to stdout
  written,   \* and these have been
  terminal,  \* the terminal frame
  result,    \* what relay returns
  exit       \* exit status

sendVars == <<sender, senderErr, chunk, sentBytes, opened>>
recvVars == <<started, received, pending, written, terminal>>
relayVars == <<relayPc, signal, relayCause, stop, sendVars, recvVars, result, exit>>

Nothing == "none"
TerminalFrame == [category : {"completed", "failed", "unspecified"}, code : ExitCodes]
NoTerminal == [category |-> Nothing, code |-> 0]
Stopping == {"terminal", "completing", "joining"}

RelayTypeOK ==
  /\ relayPc \in {"start", "opening", "receive", "write", "leaving", "returned"} \cup Stopping
  /\ signal \in BOOLEAN /\ started \in BOOLEAN
  /\ relayCause \in {Nothing, "interrupted", "failure", "closed", "completed", "returned"}
  /\ stop \in {"open", "signalled", "closed"}
  /\ opened \in {Nothing, "ok", "failed"} /\ senderErr \in {Nothing, "failure", "closed"}
  /\ sender \in {Nothing, "open", "wait", "read", "reading", "send", "check", "record", "done"}
  /\ chunk \in 0..MaxData /\ sentBytes \in 0..MaxBytes /\ pending \in 0..MaxData
  /\ received \in 0..(MaxBytes + MaxData) /\ written \in 0..MaxBytes
  /\ terminal \in TerminalFrame \cup {NoTerminal}
  /\ result \in {Nothing, "error", "terminal"} /\ exit \in {-1} \cup 0..255

RelayInit ==
  /\ relayPc = "start" /\ signal = FALSE /\ relayCause = Nothing /\ stop = "open"
  /\ sender = Nothing /\ senderErr = Nothing /\ chunk = 0 /\ sentBytes = 0 /\ opened = Nothing
  /\ started = FALSE /\ received = 0 /\ pending = 0 /\ written = 0 /\ terminal = NoTerminal
  /\ result = Nothing /\ exit = -1

-----------------------------------------------------------------------------
(* Run                                                                     *)

LowByte(status) == status % 256 \* mutant: left to the operating system
shellStatus(status) == IF status < 1 \/ status > 255 THEN 1 ELSE status

(* The causes runMain gives to cancel are signals: 128 and the signal's    *)
(* number, here that of SIGINT.                                            *)
contextStatus == IF signal THEN 130 ELSE 1

(* Before relay: the arguments or the environment are wrong, there is no   *)
(* connection, or no stream.                                               *)
RunFails ==
  /\ relayPc = "start"
  /\ relayPc' = "returned" /\ exit' \in {2, 1, contextStatus}
  /\ UNCHANGED <<signal, relayCause, stop, sendVars, recvVars, result>>

OpenStream ==
  /\ relayPc = "start"
  /\ relayPc' = "opening" /\ sender' = "open"
  /\ UNCHANGED <<signal, relayCause, stop, senderErr, chunk, sentBytes, opened, recvVars>>
  /\ UNCHANGED <<result, exit>>

(* A signal ends the context of Run, and relayContext with it.             *)
Cancel(err) == relayCause' = (IF relayCause = Nothing THEN err ELSE relayCause)
Interrupted ==
  /\ relayPc # "returned" /\ ~signal
  /\ signal' = TRUE /\ Cancel("interrupted")
  /\ UNCHANGED <<relayPc, stop, sendVars, recvVars, result, exit>>

-----------------------------------------------------------------------------
(* stopSender, called by relay and, once relayContext has ended, by        *)
(* AfterFunc; whoever comes second waits for the first.                    *)

SignalStop ==
  /\ stop = "open"
  /\ relayPc \in Stopping \/ (relayCause # Nothing /\ sender # Nothing)
  /\ stop' = "signalled"
  /\ UNCHANGED <<relayPc, signal, relayCause, sendVars, recvVars, result, exit>>

closeReader ==
  /\ stop = "signalled" /\ stop' = "closed"
  /\ UNCHANGED <<relayPc, signal, relayCause, sendVars, recvVars, result, exit>>

-----------------------------------------------------------------------------
(* sendInput                                                               *)

SenderDone == sender' = "done" /\ UNCHANGED <<senderErr, opened>>
SenderFails(err) == sender' = "check" /\ senderErr' = err /\ UNCHANGED opened

SendOpen ==
  /\ sender = "open"
  /\ \/ sender' = "wait" /\ opened' = "ok" /\ UNCHANGED senderErr
     \/ SenderFails("failure")
  /\ UNCHANGED <<relayPc, signal, relayCause, stop, chunk, sentBytes, recvVars, result, exit>>

SenderStarts ==
  /\ sender = "wait"
  /\ \/ started /\ sender' = "read" /\ UNCHANGED <<senderErr, opened>>
     \/ (stop # "open" \/ relayCause # Nothing) /\ SenderDone
  /\ UNCHANGED <<relayPc, signal, relayCause, stop, chunk, sentBytes, recvVars, result, exit>>

(* A read of a closed file fails at once.                                  *)
ReadStarts ==
  /\ sender = "read"
  /\ \/ stop # "closed" /\ sender' = "reading" /\ UNCHANGED <<senderErr, opened>>
     \/ stop = "closed" /\ SenderFails("closed")
  /\ UNCHANGED <<relayPc, signal, relayCause, stop, chunk, sentBytes, recvVars, result, exit>>

ReadData(n) ==
  /\ sender = "reading"
  /\ \/ n > MaxBytes - sentBytes /\ SenderFails("failure") /\ UNCHANGED chunk
     \/ /\ n <= MaxBytes - sentBytes /\ (stop # "open" \/ relayCause # Nothing)
        /\ SenderDone /\ UNCHANGED chunk
     \/ /\ n <= MaxBytes - sentBytes /\ stop = "open" /\ relayCause = Nothing
        /\ sender' = "send" /\ chunk' = n /\ UNCHANGED <<senderErr, opened>>
  /\ UNCHANGED <<relayPc, signal, relayCause, stop, sentBytes, recvVars, result, exit>>

(* End of file and CloseSend, or a read that fails or makes no progress.   *)
ReadEnds ==
  /\ sender = "reading"
  /\ SenderDone \/ SenderFails("failure")
  /\ UNCHANGED <<relayPc, signal, relayCause, stop, chunk, sentBytes, recvVars, result, exit>>

ReadInterrupted ==
  /\ sender = "reading" /\ stop = "closed" /\ CloseInterrupts
  /\ SenderFails("closed")
  /\ UNCHANGED <<relayPc, signal, relayCause, stop, chunk, sentBytes, recvVars, result, exit>>

SendData ==
  /\ sender = "send"
  /\ sender' = "read" /\ sentBytes' = sentBytes + chunk /\ chunk' = 0
  /\ UNCHANGED <<relayPc, signal, relayCause, stop, senderErr, opened, recvVars, result, exit>>

SendBreaks ==
  /\ sender = "send"
  /\ SenderFails("failure") /\ chunk' = 0
  /\ UNCHANGED <<relayPc, signal, relayCause, stop, sentBytes, recvVars, result, exit>>

(* recordSenderFailure looks at stopInput, and cancels.  A failure to send *)
(* the open frame that is not recorded leaves the sender waiting.          *)
CheckFailure ==
  /\ sender = "check"
  /\ \/ stop = "open" /\ sender' = "record" /\ UNCHANGED <<senderErr, opened>>
     \/ /\ stop # "open" /\ senderErr' = Nothing
        /\ sender' = (IF opened = Nothing THEN "wait" ELSE "done")
        /\ opened' = "ok"
  /\ UNCHANGED <<relayPc, signal, relayCause, stop, chunk, sentBytes, recvVars, result, exit>>

RecordFailure ==
  /\ sender = "record"
  /\ Cancel(senderErr) /\ sender' = "done"
  /\ opened' = (IF opened = Nothing THEN "failed" ELSE opened)
  /\ UNCHANGED <<relayPc, signal, stop, senderErr, chunk, sentBytes, recvVars, result, exit>>

-----------------------------------------------------------------------------
(* relay                                                                   *)

Leave(r) == relayPc' = "leaving" /\ result' = r

Opened ==
  /\ relayPc = "opening"
  /\ \/ opened = "ok" /\ relayPc' = "receive" /\ UNCHANGED result
     \/ (opened = "failed" \/ relayCause # Nothing) /\ Leave("error")
  /\ UNCHANGED <<signal, relayCause, stop, sendVars, recvVars, exit>>

(* A data frame of n bytes; after the terminal frame it is an error.       *)
WithinLimit(n) == n <= MaxBytes - written
ReceiveData(n) ==
  /\ relayPc = "receive" /\ received' = received + n
  /\ \/ terminal # NoTerminal /\ Leave("error") /\ UNCHANGED <<started, pending>>
     \/ /\ terminal = NoTerminal /\ started' = TRUE
        /\ \/ WithinLimit(n) /\ pending' = n /\ relayPc' = "write" /\ UNCHANGED result
           \/ ~WithinLimit(n) /\ Leave("error") /\ UNCHANGED pending
  /\ UNCHANGED <<signal, relayCause, stop, sendVars, written, terminal, exit>>

WriteAll ==
  /\ relayPc = "write" /\ pending' = 0
  /\ \/ written' = written + pending /\ relayPc' = "receive" /\ UNCHANGED result
     \/ Leave("error") /\ UNCHANGED written
  /\ UNCHANGED <<signal, relayCause, stop, sendVars, started, received, terminal, exit>>

validTerminal(t) ==
  \/ t.category = "completed" /\ t.code = 0
  \/ t.category = "failed" /\ t.code # 0
ReceiveTerminal(t) ==
  /\ relayPc = "receive"
  /\ \/ /\ terminal = NoTerminal /\ validTerminal(t)
        /\ terminal' = t /\ relayPc' = "terminal" /\ UNCHANGED result
     \/ ~(terminal = NoTerminal /\ validTerminal(t)) /\ Leave("error") /\ UNCHANGED terminal
  /\ UNCHANGED <<signal, relayCause, stop, sendVars, started, received, pending, written, exit>>

(* stopSender has returned.                                                *)
InputStopped ==
  /\ relayPc = "terminal" /\ stop = "closed" /\ relayPc' = "receive"
  /\ UNCHANGED <<signal, relayCause, stop, sendVars, recvVars, result, exit>>

(* io.EOF, which is an error without a terminal frame.                     *)
ReceiveEOF ==
  /\ relayPc = "receive"
  /\ \/ terminal # NoTerminal /\ Cancel("completed") /\ relayPc' = "completing" /\ UNCHANGED result
     \/ terminal = NoTerminal /\ Leave("error") /\ UNCHANGED relayCause
  /\ UNCHANGED <<signal, stop, sendVars, recvVars, exit>>

(* Any other frame or error.                                               *)
ReceiveFails ==
  /\ relayPc = "receive" /\ Leave("error")
  /\ UNCHANGED <<signal, relayCause, stop, sendVars, recvVars, exit>>

Completed ==
  /\ relayPc = "completing" /\ stop = "closed" /\ sender = "done"
  /\ Leave(IF relayCause = "completed" THEN "terminal" ELSE "error")
  /\ UNCHANGED <<signal, relayCause, stop, sendVars, recvVars, exit>>

(* The deferred calls.                                                     *)
NoCancel == \* mutant: the deferred cancel is missing
  /\ relayPc = "leaving" /\ relayPc' = "joining"
  /\ UNCHANGED <<signal, relayCause, stop, sendVars, recvVars, result, exit>>
DeferredCancel ==
  /\ relayPc = "leaving" /\ Cancel("returned") /\ relayPc' = "joining"
  /\ UNCHANGED <<signal, stop, sendVars, recvVars, result, exit>>

Return ==
  /\ relayPc = "joining" /\ stop = "closed" /\ sender = "done"
  /\ relayPc' = "returned"
  /\ exit' = (IF result = "error" THEN contextStatus
              ELSE IF terminal.code # 0 THEN shellStatus(terminal.code) ELSE 0)
  /\ UNCHANGED <<signal, relayCause, stop, sendVars, recvVars, result>>

-----------------------------------------------------------------------------
Sender ==
  \/ SenderStarts \/ ReadStarts \/ ReadInterrupted \/ CheckFailure \/ RecordFailure
Relay ==
  \/ Opened \/ WriteAll \/ InputStopped \/ Completed \/ DeferredCancel \/ Return
Receive ==
  \/ \E n \in 0..MaxData : ReceiveData(n)
  \/ \E t \in TerminalFrame : ReceiveTerminal(t)
  \/ ReceiveEOF \/ ReceiveFails
Send == SendOpen \/ SendData \/ SendBreaks
Git == (\E n \in 1..MaxData : ReadData(n)) \/ ReadEnds

RelayNext ==
  \/ RunFails \/ OpenStream \/ Interrupted \/ SignalStop \/ closeReader
  \/ Sender \/ Relay \/ Receive \/ Send \/ Git

(* The goroutines run; Git takes what is written for it, or goes away; and *)
(* calls on a stream whose context has ended return.  Recv may still hand  *)
(* over the frames that had arrived, but no others: it does not put off    *)
(* its failure for ever.  Nothing is assumed of the broker, nor of what    *)
(* Git writes.                                                             *)
Fairness ==
  /\ WF_relayVars(SignalStop) /\ WF_relayVars(closeReader)
  /\ WF_relayVars(Sender) /\ WF_relayVars(Relay)
  /\ WF_relayVars(relayCause # Nothing /\ Send)
  /\ SF_relayVars(relayCause # Nothing /\ ReceiveFails)
RelaySpec == RelayInit /\ [][RelayNext]_relayVars
LiveSpec == RelaySpec /\ Fairness

-----------------------------------------------------------------------------
(* Properties *)

(* Git is told of success only when the broker has said that the operation *)
(* is completed and has ended the stream in order, every byte of its       *)
(* answer is on stdout, and neither a signal nor the sender's failure came *)
(* before that end.                                                        *)
SuccessIsWhole ==
  exit = 0 =>
    /\ terminal = [category |-> "completed", code |-> 0]
    /\ written = received /\ pending = 0
    /\ relayCause = "completed" /\ sender = "done"

(* The relay does not take its own doing for a failure: a read that fails  *)
(* because stdin was closed to stop the sender never ends the relay.       *)
OwnCloseIsNoFailure == relayCause # "closed"

(* Whatever ends the relay (a signal, a failure on either side, a frame    *)
(* that is not allowed, the end of the stream), Run returns.               *)
RelayReturns ==
  (relayCause # Nothing /\ relayPc # "start") \/ relayPc \in {"leaving", "completing"}
    ~> relayPc = "returned"
=============================================================================
