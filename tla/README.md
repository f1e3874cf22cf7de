# RepoWolf in TLA+

RepoWolf is a broker. Clients without credentials of their own speak gRPC to it:
Git's upload-pack and receive-pack, and a fixed set of GitHub and Gitea operations.
The broker authenticates a bearer token, applies a repository policy, and runs a
provider process (`ssh`, `gh`) or an HTTP request with *its* credentials. What must
be right is therefore: a push the policy refuses never reaches the provider; nothing
runs with the broker's credentials that no audit event announced, or after the broker
has stopped; and no client, provider or audit sink that stalls holds the broker up.

This directory models the broker, its clients and its startup, checks them with TLC and
proves most of its safety properties with TLAPS.
Paths below are relative to `src/internal/` unless they say otherwise.
`PROJECT.json` maps every definition to the lines it models.

## 1. Inventory

| Component | State | Operations | Talks to | What is hard, and what makes it correct |
|---|---|---|---|---|
| Runner (`runner/`) | `active`, `starting`, `closing`; per process: authority, pipes, private directory, `waitOnce` | `Start`, `Call`, `Wait`, `Cleanup`; the monitor, exit-observer and stderr goroutines | kernel (process groups, PIDs, pipes), handlers, `Serve` | PID reuse between reap and retirement; five ways to terminate racing with the exit; descendants; `Start` racing `Cleanup`. No signal to a foreign group; the group dies whole; an exceeded bound is never success; `Cleanup` leaves nothing and returns |
| gRPC server (`server/`) | `stopping`, `active`, global and per-principal counters | the interceptor chain, `admit`, `Serve`, `shutdown`, `finish` | gRPC, audit writer, runner | admission racing shutdown; leases on every exit path; a blocked audit sink. Leases match calls; a forced stop reaches everyone; no silent loss of audit events; shutdown returns |
| Audit writer (`audit/`) | mutex, buffered sink | `Write`, `Flush`, `FlushIfIdle` | server, Git sessions | it may block or refuse in the middle |
| Authentication (`auth/`) | immutable token index | `authenticatedContext`, `Authenticate` | server | lookup in constant time over all entries |
| Git sessions (`gitservice/`) | one RPC: process context and its cause, idle watcher, two copiers, send pump, terminal | `uploadPack`, `receivePack` | gRPC stream, runner, parser, policy, audit | six goroutines and three timers; either end stalls. The terminal frame, audit events and status say what happened; the process is reaped; everything ends |
| Receive-pack parser (`gitproto/`, `policy/push.go`) | position, updates, shallows, widths, certificate | `ParseReceivePack`, `ValidatePush` | Git sessions; and `git receive-pack`, which parses the same bytes again | two parsers of one input must agree |
| Advertisement parser (`gitproto/advertised.go`) | capabilities | `ParseAdvertisement` | Git sessions | what the provider offers bounds what the client may ask |
| Policy (`policy/`) | immutable snapshot | `Authorize`, `Resolve` | server, Git sessions | grants, deny rules |
| Gitea adapter (`provider/gitea/`) | none; the issue on the server | plan, read, write, reconcile; pagination | provider HTTP | several writes, each may be lost; concurrent editors |
| GitHub adapter (`provider/github/`) | byte budget | one `gh` call or a few | runner | read-modify-write of labels; four kinds of paging while others edit; issue or pull request behind one number |
| RPC status (`rpcstatus/`) | none | `Error`, the recognisers | services, `tea` | the order in which wrapped errors are looked for; statuses a client trusts |
| Provider HTTP (`providerhttp/`) | one response body | `Do`, bounded read | Gitea adapter | timeout, caller's deadline and limit race |
| Git client relay (`client/gitssh/`) | two goroutines, terminal | `relay` | gRPC stream, git | end of stdin, terminal frame and sender failure race |
| `gh`/`tea` clients (`client/github`, `client/gitea`) | none | parse, call, render, report | gRPC | the same bounds written down twice; what a failure lets the user conclude |
| TLS material (`tlsconfig/`) | a directory | `Init`, `LoadServer` | file system | kill or power loss between any two steps of several runs; certificate and key read one after the other |
| Configuration, credentials, startup (`config/`, `credentials/`, `app/`, `cli/`) | pinned at startup, then immutable | decode, validate, load, resolve, bind | everything | a field left out, merged or null picks another credential; secrets in child environments; a selector that means two repositories |

`PROJECT.json` lists the same components with their status, and under `hazards` the
lines where each hard behaviour bites with the properties that would catch it.

## 2. What is modelled

| Module | Models | Checked by | Proved in |
|---|---|---|---|
| `Runner` | `runner/stream.go`, `process_linux.go`, `input.go`, `output.go`, `call.go` and the kernel's PIDs | `MCRunner`: `runner` | `RunnerProofs` |
| `Server` | `server/` interceptors, leases, admission, audit, shutdown; `audit/writer.go` | `MCServer`: `server` | `ServerProofs` |
| `ReceiveParser` | `gitproto/` receive-pack parser; `policy/push.go` | `MCReceiveParser`: `receive_parser` | `GitSessionProofs` |
| `GitSession` | `gitservice/`: both Git RPCs | `MCGitSession`: `git_session` | `GitSessionProofs` |
| `GiteaIssueEdit` | `provider/gitea/`: `issueEdit`, its planner, catalogs and recovery; the outcome in `server/`, the diagnostic in `client/gitea/` | `MCGiteaIssueEdit`: `issue_edit` | `GiteaIssueEditProofs` |
| `GitRelay` | `client/gitssh/`: `Run` and `relay`; `cmd/repowolf-client` | `MCGitRelay`: `git_relay`, `git_relay_stdin` | `GitSessionProofs` |
| `RpcStatus` | `rpcstatus/` | with the calls | with the calls |
| `GhCommand`, `GitHubRequests` | `client/github/`; `provider/github/` without its calls | with the call | with the call |
| `GitHubCall` | `client/github/`, `server/github.go`, `provider/github/`: one `gh` command | `MCGitHubCall`: `github_call` | `GitHubCallProofs` |
| `TeaCommand`, `GiteaRequests` | `client/gitea/`; `provider/gitea/` without its calls | with the call | with the call |
| `Paging` | the pages a provider cuts a collection into, and lists with entries taken out | with the calls | `PagingProofs` |
| `GiteaCall` | `client/gitea/`, `server/gitea.go`, `provider/gitea/`: one `tea` command | `MCGiteaCall`: `gitea_call` | `GiteaCallProofs` |
| `ProviderWrite` | abstract: what a provider operation promises its caller | implemented by both calls | with the calls |
| `ProviderHTTP` | `providerhttp/` and the transports of `provider/gitea/` | `MCProviderHTTP`: `provider_http`, `provider_http_failure` | `GiteaCallProofs` |
| `CertPublish` | `tlsconfig/`: `cert init` on a file system that forgets | with `Startup` | `StartupProofs` |
| `ServerConfig` | `config/`, `credentials/`, `auth/`, `policy/`, child environments: pure definitions | with `Startup` | `StartupProofs` |
| `Startup` | `app/`: `serve` from the file to its first answers, beside `cert init` | `MCStartup`: `startup` | `StartupProofs` |

`Startup` extends `ServerConfig` and `CertPublish` and composes the two; `GitHubCall` and
`GiteaCall` put client, status mapping, service and adapter together in one behaviour and
both instantiate `ProviderWrite`. The other modules meet at their edges. `Server` has no
processes of its own: its `Cleanup` is the call of the runner's, which may fail; that it returns,
and that it leaves no process and lets none start, is shown of `Runner`
(`WaitAndCleanupReturn`, `CleanupLeavesNothing`). `GitSession` sees a process as running, exited or stopped; that it
can be waited for is `WaitAndCleanupReturn`. `GitSession.ParseReceivePack` is a choice
between accepted and rejected; what accepted means is `ReceiveParser`. `GiteaCall` follows
an issue edit up to the adapter (`pc = "edit"`), where `GiteaIssueEdit` takes over; a provider
call that fails or is cut short there is what `ProviderHTTP` explains.

### Runner

`stage` is how far `Start` has come, `terminated` and `reason` are the process
authority, `wait` is the progress of `Process.wait` through `retireAndReap`, and
`owner`, `leader`, `member` are the kernel: who holds a PID, and its group's leader and
one descendant. A PID is free exactly when its group is empty, so it can be given to
another child the moment `Cmd.Wait` and `wait4(-pgid)` are through; `processTableMu`
is the condition `ProcessTableFree`. Both mutexes are states of their holder rather
than variables. `Unruly` is the set of processes that fork, write too much or ignore
their input; it bounds the state space and appears in no property.

A read that finds more than the limit moves nothing until it takes the authority's lock to
terminate the process, so `ReadExcess` is that moment, at any time after the byte was written,
also after a `Wait` that came between: `reader` is then `late` instead of `over`, `Wait` may have
reported success, and `Call` still does not. `Start` may
fail with its private directory still there, since it drops the error of `os.RemoveAll`.

External assumptions: a descendant does not leave its process group (`gh` starts none that
does; `ssh` does where an operator's `ControlPersist` asks for it, see section 5); PIDs taken by foreign processes matter only in that they are
not free.

### Server

A call is a `phase` through the interceptor chain: global lease, authentication,
admission (unlocked check, `activeMu`, insertion), principal lease, handler, terminal
audit event, and the deferred releases in their order. `writer` is the holder of the
audit writer's mutex. `serve` is `Serve`: serving, draining, stopping, flushing,
returned; `result` is the set of errors it joins. gRPC is external: `GracefulStop` returns when no handler runs, `Stop`
cancels the contexts and does not wait for handlers.

### ReceiveParser

One action per packet rule; `raw` is what was read and will be forwarded, `updates`
what the policy sees. A packet is a record of its kind and the fields the rules tell
apart; object IDs have a width, an identity and a spelling; `Payload` gives the bytes
per kind, since the limit is counted in bytes. `ProviderSees` is the reference: what
`git receive-pack` takes from the same packets (commands up to the first flush and, in
a certificate, up to the first line that opens a signature). It is external and does
not mention the parser's state. Newer versions of git look for the last line that opens a
signature instead; nothing here is claimed about their reading.

### GitSession

`pc` is the handler, `input`, `output`, `pump`, `watch` its goroutines, `cause` the
first error given to the process context's cancel function. Every blocking operation
of the code is a state of its own, so client and provider can stall in each. Three
abstractions: the chunks of the advertisement are one frame; `exit 1` stands for
every command failure; of a frame whose data was not used up only the fact that
it was received is kept. The goroutine that `receiveWithTimeout` leaves behind ends
with the stream and is not a state of its own.

### GiteaIssueEdit

One edit against an issue that others may edit at any moment. `issue` is the provider's;
the adapter sees it only at its reads, and what it read is not kept but turned into
`plan`, the set of writes still to be done, of which `Due` are the next in the order of
`executeIssueEditPlan`. A write is confirmed, lost, applied without an answer, or `late`:
given up and still on its way. `confirmed` is the code's own flag; `effects`, `fresh` and
`edits` are history that only the properties read. `Fail` and `Succeed` go through
to what the user and the audit log are told: `answer`, `transitioned` and `audit` are set
together, since nothing happens to the issue between them that a property tells apart.

`Apply`, `OthersEdit` and `LateWrite` are the provider, and external. A label is its
name; that IDs may disagree is one of the reasons for which the catalog read may fail with
`precondition`. Every label the planner needs is in the catalog by then, so the errors of
`planIssueEdit` itself cannot occur. An edit of the body alone sends back the title that
was read, since the wire form has no absent title; `OnlyTheRequested` says so. Creating,
commenting on, closing and reopening an issue are in `GiteaCall`.

### GitRelay

`repowolf-git-ssh`, which Git starts in place of `ssh`. `relayPc` is the goroutine of `relay`,
`sender` is `sendInput`, `relayCause` is `relayContext`'s, and `stop` is `stopSender` in its two
steps, `close(stopInput)` and `closeReader`, which `relay` and the `AfterFunc` both call.
`recordSenderFailure` is two steps too (it looks, then it cancels), since the terminal frame
may come between them. The broker sends any frame at any time. Data is its length, and
all errors are one, since `Run` prints the same diagnostic for each; only the read that
fails because the relay closed stdin is told apart.

`CloseInterrupts` is what Go's library and the kind of stdin decide, and external: whether
`Close` ends a `Read` that is blocked in the same file. It does for an `io.Pipe` and for
descriptors in non-blocking mode; it does not for a pipe in blocking mode, which is
what Git passes.

### GitHubCall, GhCommand, GitHubRequests

One command from its argument vector to the exit status. A command line is a record of
words, number, flags and what is wrong with it; a text is its length, in bytes and in runes
(the names and descriptions of new labels are bounded in runes, all else in bytes), and the kind of
character a validator looks for, so that every bound can be met and passed. `Parse` and
`assignOperation` are the client, `ValidateGitHubRequest` the service, two translations of
one contract. `pc` walks through the `gh` processes of one call: preflight, view, pages,
probe, write, answer; `remaining` is the byte budget, in MiB. Between any two of them another
user may change labels or the collection that is being paged, and the context may end.
The provider is external: it fails, answers more than the limit, answers garbage or an
object with a flaw, and may have applied a write it did not confirm. Records are sets of
field names; what normalisation refuses is a flaw.

Numbers 1 and 2 are an issue and a pull request, as GitHub numbers them together and
answers its issue endpoint for both. `issue list` follows a cursor, the other three page
by offset. Entries of a collection are numbers; what others add while it is read is
numbered apart (`OtherInserts`), so that a property can speak of what was there all along.

### GiteaCall, TeaCommand, GiteaRequests

The same for `tea`, in process instead of by `gh`: lists, views with comments and reviews,
create, comment, close, reopen and the way of an edit to the adapter. Comments are read from the timeline
until their number is what the issue said; reviews by page. A flaw is a pair of object and
field, among them a JSON key that is there twice or not at all (the presence check). The
client's report of a failure is part of the model, since it is what the user acts on. The
defaults of a flag that was not given are `parserDefault`, as they come from the parser and not
from the service; `beats` says which of an edit's list flags are sent instead of another.
A page is at most `maximumPage`, the largest `int32`; 0 stands for every number the client refuses.
A call that fails may fail with `Canceled` or `DeadlineExceeded` although its context is live
(`ReadFails`): `classifyProviderError` hands both on, and the transport makes the first of them
out of every failure of its own (see the finding in section 3).

### ProviderWrite

The abstract specification of one provider operation: a write is sent at most once; it is
applied or fails, possibly after the caller is gone; `done` is answered only for a write that
took effect or was not needed, `refused` only if nothing was or will be changed. Both calls
are checked to implement it (`WriteContract == W!Spec`). The mappings differ in who reads the
answer: for `gh` it is the RPC status (only invalid and denied are a refusal), for `tea`
it is the printed diagnostic ("failed", the wrong kind and a usage error are).

### ProviderHTTP

One request of the Gitea SDK. `caller` and `opErr` are the two contexts, `reader` and
`watcher` the goroutines that read the body and that close it when `opErr` is set,
`remaining` and `terminal` the bounded body; above it the redacting transport reads error
bodies to the end and the presence collector reads along. Bytes are counted. Requests differ
in scheme, user, host, port and whether they carry an authorization header: only the
configured authority is admitted. `mapError` takes the operation's error as an argument:
a failed round trip is classified after the operation was canceled, a failed read before.

### CertPublish

Several runs of `repowolf cert init` for one output directory. `output` is what a process
sees there, `durable` what a power loss leaves; a file is absent, partial, whole or synced,
and `entries` are the staging directories that were synced. A run may be killed, and the
power may fail, between any two steps. A staging directory left behind is litter that no
code reads. What a power loss does to unsynced data is external.

### ServerConfig and Startup

`ServerConfig` holds the functions: decoding with merged and null fields, defaults, `Validate`,
`credentials.Load` with the one legacy token, the token index, the policy snapshot with its
two kinds of selector, and the environments of child processes. A port of a Git request is
checked against `maximumPort` and cut to 16 bits (`policySelector`). The regular expressions
are constants: the sets of strings they match. `Startup` is `NewRuntime`, one action for
each of its steps, which fails at the first that fails; then requests that are authenticated,
resolved and handed to a provider with what was pinned; restarts; and `CertPublish` beside it,
whose directory `LoadServer` reads in two steps. YAML itself is external.

## 3. Runs

Deadlock is not checked: processes, servers and sessions come to an end, and that
they do is what the liveness runs show.

| Run | Bounds | States | Shows |
|---|---|---|---|
| `runner` | 2 processes, 1 unruly, 1 PID | 1.1 million | `SignalsOwnGroup`, `TerminatedGroupIsKilled`, `OverflowNeverSucceeds`, `CleanupLeavesNothing`, `WaitAndCleanupReturn` |
| `server` | 3 calls, 1 principal, 2 global leases and 1 of the principal | 0.4 million | `LeasesMatchCalls`, `ForcedStopReachesAll`, `NoSilentAuditLoss`, `ShutdownReturns` |
| `receive_parser` | 2 providers, 5 IDs, 6 updates, 2 commands, 447 bytes | 0.7 million | `ForwardedCommandsObeyPolicy`, `ReportedUpdatesAreForwarded`, `PrefixIsExact`, `CertificateIsWhole` |
| `git_session` | 2 client frames, 2 provider chunks | 1.7 million | `OkMeansTold`, `CompletedMeansDelivered`, `RefusedPushStaysHere`, `AuditPair`, `NothingLeaks` |
| `issue_edit` | 2 titles, bodies, users and labels, 11 requests, 2 edits by others | 0.6 million | `UserIsNotMisled`, `AuditIsTruthful`, `SuccessHolds`, `PlanSuffices`, `OnlyTheRequested` |
| `git_relay` | frames and reads of up to 2 bytes, limit 3, 5 exit codes; `Close` ends a read | 30 thousand | `SuccessIsWhole`, `RelayReturns` |
| `git_relay_stdin` | the same; `Close` does not end a read | | **violated**: `RelayReturns` |
| `github_call` | 144 commands, 5 items on pages of 2, 1 change by others | 0.7 million | `WriteContract` (refinement of `ProviderWrite`), `KindsStayApart`, `LabelsAreKept`, `ListsMissNothing`, `ClientAndServiceAgree` |
| `gitea_call` | 98 commands, 5 items on pages of 2, 2 changes by others | 3.0 million | `WriteContract`, `ViewsMissNothing`, `TransitionIsReal`, `TeaAndServiceAgree` |
| `provider_http` | limit 2, bodies of up to 4 bytes | 56 thousand | `EndIsTrue`, `NothingStaysOpen` |
| `provider_http_failure` | the same | | **violated**: `CancellationIsTheCallers` |
| `startup` | 2 runs of `cert init`, 54 configurations and environments | 0.1 million | `ServedAsConfigured`, `SecretsStayHome`, `CertificatesHold` |

Each module also defines a type invariant; those of `Runner`, `Server`,
`ReceiveParser`, `GitSession`, `GiteaIssueEdit`, `GitRelay`, `ProviderHTTP` and `CertPublish`
are proved.

`git_relay_stdin` is a finding. When the stream ends, or a signal arrives, while the sender
is blocked in a read of stdin, `relay` closes stdin and waits for the sender. With the
stdin the program really has, `os.Stdin` on the pipe Git created (`src/cmd/repowolf-client/main.go:18`),
the read goes on: `Run` returns only when Git writes or closes its end, and Git is waiting
for the answer. The plan asks the relay to "handle cancellation/signals" and that "no
goroutine remains blocked" (`src/docs/plans/2026-08-01-repowolf-mvp.md:1280`, `:1286`); the test
of it (`client/gitssh/relay_test.go:164`) uses an `io.Pipe`.

`provider_http_failure` is another. The trace has two steps: the request is sent, and the
transport fails while caller and operation are live. `boundedTransport.RoundTrip` then calls
`cancel()` before `mapOperationError` (`src/internal/providerhttp/client.go:79-80`), which finds the
operation's context canceled and returns that; its last line, `return err`, is not reached. A
provider that is down, or whose certificate is refused, is therefore reported as
`context.Canceled`: `classifyProviderError` hands it on (`provider/gitea/adapter.go:404`), the
client sees the status `Canceled`, and the audit event says `cancelled` (`server/audit.go:97`). The
design lists "timeout/cancellation" and "TLS failure" as classes the transport's errors distinguish
(`src/docs/specs/2026-09-10-issue-8-gitea-roadmap-4-11-secure-gitea-api-transport-design.md:177`),
and its plan says "preserve caller `context.Canceled`"
(`src/docs/plans/2026-09-10-issue-8-gitea-roadmap-4-11-secure-gitea-api-transport.md:375`). Errors
of a body that is being read are mapped before the operation is canceled and are
not affected: that is what `EndIsTrue` shows of them. No write is misreported by it, since a
failed write is an unknown outcome whatever its error (`WriteContract`, `AuditIsTruthful`).

Why the bounds suffice for the interesting cases:

- *Runner.* The hazards need a process whose PID is freed and a second one that gets
  it; with one PID every second start is of that kind, at any moment from the reap on, and it
  contends for `processTableMu` with the retirement of the first. With one descendant a group
  outlives its leader. Children that run side by side, with any number of PIDs, are the proofs':
  they cover the four invariants of this run. `WaitAndCleanupReturn` is not among them; a child
  holds up another only through `processTableMu` and Cleanup's barrier and list, which are met here.
- *Server.* With three calls, two global leases and one of the principal, each limit is
  reached while the other has room (a health check takes a global lease alone), a call is
  refused while others run, and a refused call can race the shutdown. Calls interact only
  through counters, `activeMu` and the writer. The proofs lift all of these bounds.
- *Parser.* The byte limit is the bound; 447 fits a certificate with an option, or
  two commands with two options, and cuts longer inputs at each kind of packet. Both
  providers, both widths, uppercase spelling, denied, deleted and duplicate refs occur.
  The proofs lift the bound.
- *Session.* Two frames and two chunks let one be in the pump or in a pipe while another
  follows, and make every goroutine block. The proofs lift both bounds.
- *Issue edit.* Two edits by others: one before the final read makes a corrective pass, one
  during it makes the adapter give up. With two users, one of whom cannot be assigned,
  an exact replacement both adds and removes; two labels are removed by two writes. The
  requests have every mode, alone and combined. The proofs lift all of these bounds.
- *Relay.* With frames of up to two bytes and a limit of three, each direction comes to its
  limit, meets it and passes it. Exit codes lie on both sides of 0 and 255.
- *Calls.* Every operation has a command, and every bound of a validator a text, list or
  number on either side of it. Five items on pages of two make three pages, one more
  than the code's bound in the model where that bound is two; one insertion or deletion
  shifts a page boundary, and two (Gitea) let one hide the other.
- *HTTP.* Bodies are shorter than, equal to and longer than the limit, and longer than the
  one byte more that tells an excess. The proof lifts the bound.
- *Startup.* Each configuration varies one rule; rules meet in `Ambiguous` and the merged ones.
  Two runs of `cert init` race for one rename. The proofs lift this bound and the choice of
  configurations, environments and requests.

### Fairness

- *Runner:* goroutines run, the operation timeout expires, and the kernel kills and
  reaps what was sent `SIGKILL`. A leader that nobody signals need never exit.
- *Server:* `Serve`'s goroutine and its timer run, and critical sections of `activeMu`
  end (they hold a map insertion). Nothing is assumed of handlers, which may ignore
  cancellation, nor of the audit sink, which may block.
- *Session:* the broker's goroutines run; timers fire; the runner kills a process whose
  context ended (`WaitAndCleanupReturn`); `Send` and `Recv` on a stream that has ended return
  (gRPC); the audit sink returns. Nothing is assumed of client or provider. Activity
  is bounded by `MaxFrames` and `MaxChunks`, so the idle timer is not put off for ever;
  a peer that keeps the stream busy is bounded by the operation timeout instead.
- *Relay:* its goroutines run; Git reads what is written for it or goes away; `Send` and
  `Recv` return once the stream's context has ended (`Recv` after the finitely many frames
  that had arrived, hence strong fairness). Nothing is assumed of what Git writes, or of
  the broker.
- *HTTP:* timers run out, a context learns that its parent has ended, the watcher runs, and
  `net/http` ends a call whose context has ended and a read whose body is closed. Nothing is
  assumed of the provider, nor that the SDK reads on or closes the body.

### What was met on the way

None of these contradicts a promise of the code or its documents; the properties name them as
exceptions, and a reader should know of them.

- `gh issue list --json assignees` prints `[]` for every issue: the field is offered and never
  asked of the provider (`src/docs/plans/` records it as deliberate).
- `tea` takes times that `timestamppb` cannot carry, which the service then refuses; the
  adapter lets through repository times outside that range, and names with control characters,
  which `tea` then refuses to print (`TeaAndServiceAgree`). The client refuses no label name
  with a control character, the service does (`ClientAndServiceAgree`).
- `transitioned` may be recorded for a close or reopen that another user made at the same
  time (`TransitionIsReal`).
- A comment of an issue is missed when one was deleted and another added while the pages were
  read, a review when one was deleted (`ViewsMissNothing`).
- The private directory of a start that failed may be left behind: the error of
  `os.RemoveAll` is dropped there (`CleanupLeavesNothing`).
- Serve may return an error of the runner's cleanup alone; only errors of the audit say that
  events are missing (`NoSilentAuditLoss`).
- When the parent directory cannot be synced after the rename, `cert init` fails although
  its directory is published; a crash leaves `.repowolf-cert-*` behind.
- `config validate` accepts a `maxGitBytesPerDirection` above 8 GiB, with which `serve` then
  fails; `limits.maxMessageBytes` is validated and not used by the server.
- Two configured repositories may have one GitHub slug; a principal granted both is denied
  both (`Ambiguous`).

## 4. Proofs

For every value of the constants:

- `RunnerProofs`: `TypeCorrect`, `SignalsOwnGroupAlways`, `TerminatedGroupIsKilledAlways`.
  `SignalsOwnGroup` is not inductive. `AuthorityInv` adds that a PID has one owner, which
  knows it (`OwnerKnowsPid`), that the owner keeps it from `cmd.Start` until its leader
  is reaped (`PidHeld`, `LeaderReaped`), and that at most one process is between the
  leader's reap and its group's retirement (`OneRetirement`), which is what
  `processTableMu` is for. `TerminateSafe` is the lemma that every way to terminate
  shares. On top of it, `OverflowNeverSucceedsAlways` from `OverflowInv`: a reason is set
  only by terminating, and by the time `Wait` classifies the exit the stderr drain has ended
  (`ReasonSetOnce`); a pipe that is at its end has no writer left (`PipeEndsQuietly`); so an
  excess that was read has set a reason (`ExcessHasReason`), which `Wait` reports
  (`ReasonIsReported`). And `CleanupAlwaysLeavesNothing` from `CleanupInv`: nobody is
  starting once the barrier is passed (`NoLateStart`), what is up is in the snapshot or done
  (`SnapshotCovers`), and what is done has left no group and no directory that it did not
  report (`NothingLeft`).
- `ServerProofs`: `LeasesNeverLeak`, `ForcedStopAlwaysReachesAll`, `AuditLossIsAlwaysReported`,
  for any calls and principals and any limits. `ServerInv` ties
  the phase of a call to everything kept about it: who holds the writer's mutex
  (`WriterWrites`), the counters to the finite sets of calls they count (`LeasesAreHeld`),
  `active` to the calls between admission and the deferred done (`ActiveIsInside`), a
  passed terminal event to its record (`AdmittedIsAccounted`). `ServeIsOrdered` says what
  `Serve` has done by each of its steps, `NothingSlipsIn` that a call which could still get
  in once it has given up waiting is cancelled already: that `cancelActive` takes its snapshot
  under `activeMu`, after `stopping` was set, is what makes this inductive.
- `GitSessionProofs`, of `ReceiveParser`: `ParserTypes`, `PolicyHolds`, `ReportHolds`, `FormatHolds`,
  `PrefixHolds`, `CertificateHolds`. The invariant is
  `IInv == ParserTypeOK /\ Framing /\ SeenIn(raw, updates) /\ Widths /\ Ending`:
  where flushes and signature lines may be in `raw` at each `expects`; that the commands the
  provider sees are the updates collected, both ways; that widths agree once one is
  negotiated; and how an accepted prefix ends. `SeenIn` is stated for any two sequences,
  and appending a packet is a lemma with a case for each kind, so that the steps for
  the actions are short. For certificates it is joined by `CertificateRead`: the nonce that
  was read is at one place of `raw` (`NonceRead`), the options collected are spelt by the
  packets that carried them (`OptionsSpelt`) and compared before the end (`OptionsCompared`),
  and the signature was opened after every command the provider sees and is closed when the
  certificate ends (`SignatureRead`, `SignatureClosed`). `Spell` states the order of the
  options by an increasing map of places, which needs no induction.
- `GitSessionProofs`: `SessionTypeOK`, `OkIsAlwaysTold`, `CompletedIsAlwaysDelivered`,
  `RefusedPushAlwaysStaysHere`, `AuditIsAlwaysPaired`, for any number of frames and chunks. None
  of the four is inductive. `SessionInv` says where the other goroutines can be, and what has
  happened, while the handler is somewhere: `StartShape`, `KindShape`, `PushShape` and
  `OutputShape` for the handler and its copiers, `PumpShape` for the request in the pump,
  whose requester may have given it up; from these `TerminalIsLast`, `OutputIsCounted` (what the
  provider wrote is sent but for the chunk in hand, until the relay meets an error),
  `CompletedIsComplete` and `AuditShape`.
- `GiteaIssueEditProofs`: `EditTypes`, `UserNeverMisled`, `AuditAlwaysTruthful`,
  `SuccessAlwaysHolds`, `PlanAlwaysSuffices`, `CallsAlwaysBounded` and
  `OnlyTheRequestedAlways`: every property of the run, for any users, labels, texts,
  requests and number of edits. The invariant is `EditInv`. `Serving`: every write that was
  planned, and every late one, is something the request asks for, so that it can
  arrive at any time without undoing a satisfied request (`ServesKeeps`) or touching
  anything else (`ServesOnlyTheRequested`). `Honest`: outside of `recover` nothing is
  late and `confirmed` is the truth about `effects`. `Covered`: while nobody else edits,
  what is left of the plan covers what is left to do; a write that is done may leave
  the plan (`DoneIsDone`), and an empty plan means a satisfied request (`NothingLeft`).
- `GitSessionProofs`, of `GitRelay`: `RelayTypes`, `SuccessAlwaysWhole`,
  `OwnCloseNeverFails`, for any limits and exit codes, and either value of `CloseInterrupts`.
  `RelayInv` adds that what was received is what was written while the relay receives
  (`WholeBytes`), that a terminal is returned only after the end of the stream and the join
  (`TrueEnds`), and that a read that fails for being closed finds `stopInput` closed
  (`OwnClose`).
- `GitHubCallProofs`: `KindsStayApartAlways` and `CallImplementsContract`, the refinement of
  `ProviderWrite`, for any commands, labels, bounds and sizes. `CallInv` says how far the
  write has come where the call is (`WriteShape`), what the preflight has made sure of
  (`KindChecked`) and what the status says of the write (`StatusIsTrue`). Every action is first
  shown to be one of five kinds of steps (`StepKinds`): beside the write, on the way to it or
  from it, an end, the sending, GitHub's acting. Only this lemma looks into the actions; that
  a kind keeps `CallInv`, and that it is a step of the contract or a stutter, are short. What
  `mapDomainError` makes of each error of a call is `StatusOf`.
  `ClientAndServiceAgreeAlways` compares the two translations of the contract operation by
  operation: a command that `Parse` takes makes a request the validator takes
  (`RequestIsValid`), and the fields `--json` offers are fields of the operation's record, with
  the two exceptions of section 3; `ClientShape` carries the first of these through the call.
  `LabelsAreKeptAlways` from `LabelInv`: from the preflight on, the list to be written has a label
  exactly when the issue has it, but for the labels the request names and those that others
  touched since (`ListToWrite`), whatever they do in the meantime.
  `ListsMissNothingAlways` from `ListInv`: a list by cursor has read everything up to the cursor
  (`ByCursor`); a list by offset has reached every old entry before the offset while nobody
  deletes, and touched nothing behind it while nobody inserts (`ByOffset`): the two halves of
  "misses nothing" and "repeats nothing", which fail for different changes by others.
- `GiteaCallProofs`: `TransitionIsAlwaysReal` and `CallImplementsContract`, in the same way, for
  any commands and numbers of items. The answer here is what tea says, which it may say before
  the call has ended: `LeftAlone` is that the context of a call tea has left has ended, so
  that it sends nothing more and finds nothing held. `Transition` is that between the preflight
  of a close or reopen and the write the state is what the preflight saw unless another user
  changed it.
  `TeaAndServiceAgreeAlways`: what tea parses the service takes, but for the times
  `timestamppb` cannot carry, and what the adapter lets through tea prints, but for the flaws
  listed in section 3 (`Odd`).
  `ViewsMissNothingAlways` from `ViewInv`. While nobody deletes, what was read is what is before
  the offset. While nobody adds, the argument is by number: the comments read and those that
  can still be read are together no more than the issue counted, so that a loop which stops
  because it has as many as were counted has them all. Reviews are read to the end of the pages.
- `PagingProofs`: lemmas for the two calls. What `pageOf` holds, which entries `Without`
  leaves and in which order, what an insertion or a deletion does to the part of a
  list that is still to be read (`ReachedInsert`, `UntouchedDelete`), how many
  different entries a list has (`ListCardinality`), for every list. `Without` is a recursive
  function; induction over the length of its list is derived for sets of numbers from the
  well-foundedness of `<` (`Induction`).
- `StartupProofs`, of `CertPublish`: `PublishedStaysWhole`, for any number of runs. `CertInv` adds that
  the directory at the output path is synced, its entries included (`Settled`), that the
  disk lags behind at most by the rename (`Lag`), that what was there before stays
  (`Kept`), and how far each run's directory is at each step (`Staged`).
- `StartupProofs`, of `Startup`: `CertificatesHoldAlways`. The invariant of `CertPublish` holds in the
  composition since no step of the service writes its variables (`ServiceKeepsOut`);
  `Pinned` says that all that was read is of the directory still published, which only a
  power loss could replace, and that ends the reader. `ServedAsConfiguredAlways` and
  `SecretsStayHomeAlways`, for any configurations, environments and requests: `RuntimeInv` says
  that file and environment are still those of the scenario, that each part of the runtime
  is the function of `ServerConfig` of them that its step computes (`PinnedFrom`), and that
  a request was carried out with these parts (`Serves`). What remains is about the functions:
  what normalisation leaves as the file had it, that a valid configuration gives each
  credential name one owner, that `Load` and `Authenticate` find that owner, that a selector
  that resolves means one repository, and which names an environment has after filtering.
- `GiteaCallProofs`, of `ProviderHTTP`: `HTTPInvariant`, `EndIsAlwaysTrue`, for any limit and length.
  `HTTPInv` adds that what was given and what is left are the limit together, and that bytes
  sent and given differ only by an excess (`Counting`); that a context canceled without
  the caller, and a closed body, mean that reading is over or a context has ended
  (`Contexts`); that the error kept is true, and a cancellation the caller's or that of a
  request without a response (`Kept`); that nothing is known of a response before there is
  one (`Fresh`); and that a collected body that did not
  fail was read whole (`Presence`).

The relay and the receive-pack parser are proved about next to the Git session, the HTTP client
next to the Gitea call, in modules that extend both; the parts share no variable.

Assumptions used are the named ones of the modules (`RunnerAssumption`, `ServerAssumption`,
`ReceiveAssumption`, `SessionAssumption`, `EditAssumption`, `RelayAssumption`, `RunsAreOrdinary`,
`LimitAssumption`, `PageAssumption`, `LabelAssumption`): typing of constants, `None` is not a process, PID, run, title or body,
limits are naturals, labels and lists of labels are texts. `PageAssumption` also says that a
collection starts with at most nine entries, which only keeps their numbers apart from those
added later (page sizes and bounds are any positive numbers), and, for Gitea, that
`PageSize * MaxPages` is no more than the 1000 comments or reviews a client accepts: in the
code they are 50 and 20, and the bound is met exactly. `Startup` has three more, which TLC evaluates on the run's configurations.
`ConfigAssumption` is what the code's regular expressions and prefixes imply: no Gitea name is
empty, the legacy variables are not among the names a principal's token may have and are
filtered by prefix, `NO_COLOR` is not, and "1" is no valid token. `StartupAssumption`: a request is for
GitHub, Gitea or Git, and its port a natural number. `SecretsAssumption` is one about the operator, which `SecretsStayHome`
needs since the broker filters environments by name: no credential is the string "1", and none
is in the environment a second time under a name the broker does not know.

Only model-checked: liveness (`WaitAndCleanupReturn`, `ShutdownReturns`, `NothingLeaks`,
`RelayReturns`, `NothingStaysOpen`), since the prover has no fairness, and with it the finding of
`git_relay_stdin`; `CancellationIsTheCallers` is refuted. Every other property of a run is a theorem.

## 5. Not modelled

- The text the `gh`- and `tea`-compatible clients print, and the reading of Git's own
  configuration to find a repository: field-by-field functions without state.
- The advertisement parser (`gitproto/advertised.go`): it checks one packet after the other
  and keeps nothing a later step could contradict. `GitSession` takes its verdict as a
  choice, `ReceiveParser` its capabilities as a constant.
- The argument grammar of `repowolf-git-ssh` and its `-G` probe, which opens no stream; the
  client's configuration file; `token generate` and the dispatch of the command line.
- Generated protocol code, YAML, X.509 and key generation: other people's code.
- A descendant that leaves its process group while it holds stderr open, such as the master
  that `ssh` starts where `ControlPersist` is configured: nothing that waits for the end of a pipe
  could bound it.
- How newer versions of git find the signature of a push certificate (section 2, ReceiveParser).
- The loss of a refused call's audit event at shutdown: such a call is not counted as active,
  and the code promises nothing there.

## 6. Plan

1. `GitRelay` and `GitSession` composed: the frames one sends are the other's, so that Git's
   exit status can be stated in terms of the provider's outcome.
2. The advertisement parser in front of `ReceiveParser`.
