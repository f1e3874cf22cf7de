------------------------------ MODULE Startup ------------------------------
(***************************************************************************)
(* `repowolf serve` from the configuration file to its first answers:      *)
(* NewRuntime, which takes its steps in a fixed order and gives up at the  *)
(* first that fails, and then the requests that are authenticated,         *)
(* authorized and handed to a provider with what was pinned at startup.    *)
(* It runs beside `repowolf cert init` (CertPublish), whose directory its  *)
(* TLS step reads, and a power loss ends them all.                         *)
(***************************************************************************)
EXTENDS ServerConfig, CertPublish

CONSTANTS Scenarios,  \* a configuration file, an environment of the process, and
                      \* which of gh and ssh resolve to an executable
          Fresh,      \* the ones that begin before any certificate is there
          Requests    \* what clients ask, with the token they send

ASSUME StartupAssumption ==
  /\ \A q \in Requests : q.kind \in {"github", "gitea", "git"} /\ q.sshPort \in Nat
  /\ \A s \in Scenarios : Absent \notin DOMAIN s.env

(* The broker keeps credentials from its child processes by the names of   *)
(* their variables: a credential has no other copy in the environment.     *)
HasSecrets(s) == Decodes(s.doc) /\ CredentialsLoad(normalize(s.doc), s.env)
Secret(s) == {s.env[n] : n \in Names(normalize(s.doc), s.env)}
ASSUME SecretsAssumption ==
  \A s \in {t \in Scenarios : HasSecrets(t)} :
    /\ "1" \notin Secret(s)
    /\ \A n \in DOMAIN s.env : s.env[n] \in Secret(s) => n \in Names(normalize(s.doc), s.env) \cup Controls

VARIABLES
  doc, env, found,   \* the file, the environment and the tools, as they are
  phase,             \* the step of NewRuntime that is next
  cert,              \* the runs whose certificate and key LoadServer has read
  runtime,           \* what the steps so far have pinned
  last               \* a request and what became of it

startVars == <<doc, env, found, phase, cert, runtime, last>>
vars == <<certVars, startVars>>
inputs == <<doc, env, found>>

Phases == {"configuration", "credentials", "certificate", "key", "tools", "providers", "git_service",
           "listen", "serving", "failed"}

Nothing == [step |-> "none"]
NoRuntime == [cfg |-> Absent, credentials |-> Absent, environment |-> Absent, instances |-> Absent]

TypeOK ==
  /\ CertTypeOK
  /\ [doc |-> doc, env |-> env, found |-> found] \in Scenarios
  /\ phase \in Phases
  /\ cert \in Seq(Run) /\ Len(cert) <= 2
  /\ phase \in {"tools", "providers", "git_service", "listen", "serving"} => Len(cert) = 2

Init ==
  /\ \E s \in Scenarios : /\ doc = s.doc /\ env = s.env /\ found = s.found
                           /\ IF s \in Fresh THEN CertInit ELSE CertOver
  /\ phase = "configuration" /\ cert = <<>> /\ runtime = NoRuntime /\ last = Nothing

Step(from, to) == phase = from /\ phase' = to
Beside == UNCHANGED <<certVars, inputs, last>>

(* A step of NewRuntime that returns an error: `service failed`, and       *)
(* nothing was bound or started.                                           *)
Fails(from) == Step(from, "failed") /\ runtime' = NoRuntime /\ UNCHANGED cert

LoadFile ==
  /\ \/ Decodes(doc) /\ Step("configuration", "credentials")
        /\ runtime' = [runtime EXCEPT !.cfg = normalize(doc)] /\ UNCHANGED cert
     \/ ~Decodes(doc) /\ Fails("configuration")
  /\ Beside

LoadCredentials ==
  /\ phase = "credentials"
  /\ \/ CredentialsLoad(runtime.cfg, env) /\ Step("credentials", "certificate")
        /\ runtime' = [runtime EXCEPT !.credentials = Load(runtime.cfg, env)] /\ UNCHANGED cert
     \/ ~CredentialsLoad(runtime.cfg, env) /\ Fails("credentials")
  /\ Beside

(* tls.LoadX509KeyPair reads the certificate, then the key, each by name:  *)
(* whatever is at the output path at that moment.                          *)
Readable(f) == output \in Run /\ files[output][f] \in {"whole", "synced"}

ReadCertificate ==
  /\ \/ Readable("tls.crt") /\ Step("certificate", "key")
        /\ cert' = <<output>> /\ UNCHANGED runtime
     \/ ~Readable("tls.crt") /\ Fails("certificate")
  /\ Beside

\* a key that does not belong to the certificate is an error
ReadKey ==
  /\ phase = "key"
  /\ IF Readable("tls.key") /\ output = cert[1]
     THEN Step("key", "tools") /\ cert' = Append(cert, output) /\ UNCHANGED runtime
     ELSE Fails("key")
  /\ Beside

ResolveTools ==
  /\ phase = "tools"
  /\ \/ ToolsResolve(runtime.cfg, found) /\ Step("tools", "providers") /\ UNCHANGED <<runtime, cert>>
     \/ ~ToolsResolve(runtime.cfg, found) /\ Fails("tools")
  /\ Beside

(* buildProviderInstances: one adapter for each provider, with the token   *)
(* of that provider and, for GitHub, the environment of its gh processes.  *)
(* A Gitea client reads its CA file, which may fail.                       *)
buildProviderInstances ==
  /\ phase = "providers"
  /\ LET cfg == runtime.cfg
         free == TokenFreeEnvironment(env, runtime.credentials.environments)
     IN \/ /\ Step("providers", "git_service")
           /\ runtime' = [runtime EXCEPT
                !.environment = free,
                !.instances = [id \in DOMAIN cfg.providers |->
                   [token |-> runtime.credentials.providers[id],
                    environment |-> IF cfg.providers[id].kind = "github"
                                    THEN GitHubEnvironment(free, runtime.credentials.providers[id])
                                    ELSE Absent]]]
           /\ UNCHANGED cert
        \/ (\E id \in DOMAIN cfg.providers : cfg.providers[id].caFile # "") /\ Fails("providers")
  /\ Beside

(* gitservice.New has a bound of its own on the bytes of one direction.    *)
GitLimitsFit(limits) == limits.maxGit <= 8388608

NewGitService ==
  /\ phase = "git_service"
  /\ \/ GitLimitsFit(runtime.cfg.limits) /\ Step("git_service", "listen") /\ UNCHANGED <<runtime, cert>>
     \/ ~GitLimitsFit(runtime.cfg.limits) /\ Fails("git_service")
  /\ Beside

(* server.New, MarkReady and net.Listen; the address may be taken.         *)
Listen ==
  /\ \/ Step("listen", "serving") /\ UNCHANGED <<runtime, cert>>
     \/ Fails("listen")
  /\ Beside
-----------------------------------------------------------------------------
(* One request, from its metadata to the provider it is sent to.           *)

githubSelector(q) == "" \notin {q.host, q.owner, q.name} /\ q.sshPort = 0 /\ q.sshUser = ""

giteaSelector(q) ==
  q.host = "" /\ q.sshPort = 0 /\ q.sshUser = "" /\ ValidRepositoryIdentity("gitea", q.owner, q.name)

maximumPort == 65535

(* The checks of Service.command. *)
gitSelector(q) == "" \notin {q.host, q.owner, q.name} /\ q.sshPort <= maximumPort

SelectorOK(q) ==
  CASE q.kind = "github" -> githubSelector(q)
    [] q.kind = "gitea" -> giteaSelector(q)
    [] q.kind = "git" -> gitSelector(q)

\* a push needs both capabilities, for one repository (receiveCommand)
Needed(q) == IF q.capability = "git:write" THEN {"git:read", "git:write"} ELSE {q.capability}

(* The selector the policy is asked about: its port has 16 bits, the one   *)
(* of the request 32.                                                      *)
policySelector(q) ==
  [kind |-> q.kind, host |-> q.host, sshUser |-> q.sshUser, sshPort |-> q.sshPort % (maximumPort + 1),
   owner |-> q.owner, name |-> q.name]

Resolved(cfg, q, principal) ==
  Only({resolve(cfg, principal, policySelector(q), c) : c \in Needed(q)})

Registered(q) ==
  q.kind = "git" \/ \E id \in DOMAIN runtime.cfg.providers : runtime.cfg.providers[id].kind = q.kind

Refuse(q, status) == last' = [step |-> "refused", request |-> q, status |-> status]

(* The executor of the resolved repository's provider, or an ssh process   *)
(* with the token-free environment.                                        *)
Execute(q, principal, id) ==
  LET provider == runtime.cfg.repositories[id].provider
  IN last' = [step |-> "executed", request |-> q, principal |-> principal, repository |-> id,
              provider |-> provider,
              token |-> IF q.kind = "git" THEN Absent ELSE runtime.instances[provider].token,
              child |-> CASE q.kind = "git" -> runtime.environment
                          [] q.kind = "github" -> runtime.instances[provider].environment
                          [] q.kind = "gitea" -> Absent]

Handle(q) ==
  /\ phase = "serving" /\ last = Nothing
  /\ LET principal == Authenticate(runtime.credentials.auth, q.token)
         id == Resolved(runtime.cfg, q, principal)
     IN \/ ~Registered(q) /\ Refuse(q, "unimplemented")
        \/ Registered(q) /\ principal = Absent /\ Refuse(q, "unauthenticated")
        \/ Registered(q) /\ principal # Absent /\ ~SelectorOK(q) /\ Refuse(q, "invalid_argument")
        \/ Registered(q) /\ principal # Absent /\ SelectorOK(q)
           /\ IF id = Absent THEN Refuse(q, "denied") ELSE Execute(q, principal, id)
  /\ UNCHANGED <<certVars, inputs, phase, cert, runtime>>

(* The runtime is immutable: requests do not meet, and one at a time is    *)
(* enough.                                                                 *)
Answered ==
  /\ last # Nothing /\ last' = Nothing
  /\ UNCHANGED <<certVars, inputs, phase, cert, runtime>>

(* The service is started again, after a failure or a power loss.          *)
Restart ==
  /\ Step("failed", "configuration")
  /\ cert' = <<>> /\ runtime' = NoRuntime /\ last' = Nothing
  /\ UNCHANGED <<certVars, inputs>>

Outage ==
  /\ PowerLoss
  /\ phase' = "configuration" /\ cert' = <<>> /\ runtime' = NoRuntime /\ last' = Nothing
  /\ UNCHANGED inputs

CertInitRun(r) == CertRun(r) /\ UNCHANGED startVars

Next ==
  \/ LoadFile \/ LoadCredentials \/ ReadCertificate \/ ReadKey \/ ResolveTools
  \/ buildProviderInstances \/ NewGitService \/ Listen \/ Answered \/ Restart \/ Outage
  \/ \E q \in Requests : Handle(q)
  \/ \E r \in Run : CertInitRun(r)

Spec == Init /\ [][Next]_vars
-----------------------------------------------------------------------------
(* What the text of the configuration says of a provider's credential: the *)
(* variable it names, or the one legacy variable when it names none.       *)
Says(id) ==
  LET fields == Effective(doc.providers[id])
  IN IF "tokenEnv" \in DOMAIN fields THEN {fields["tokenEnv"]} ELSE LegacyNames

Owns(principal, token) ==
  \E n \in Elements(doc.principals[principal].tokenEnvs) : n \in DOMAIN env /\ env[n] = token

Granted(principal) == {g.repository : g \in Elements(doc.principals[principal].grants)}

(* A request that is carried out acts for the one principal whose variable *)
(* holds its token, on the only granted repository its selector can mean,  *)
(* with every capability it needs, and with the credential the file names  *)
(* for that repository's provider: whatever the file leaves out, merges or *)
(* sets to null.  A Gitea selector, which names no host, can mean no other *)
(* configured repository, granted or not.                                  *)
ServedAsConfigured ==
  last.step = "executed" =>
    LET q == last.request
        grant == {g \in Elements(doc.principals[last.principal].grants) : g.repository = last.repository}
    IN /\ {p \in DOMAIN doc.principals : Owns(p, q.token)} = {last.principal}
       /\ \E g \in grant : Needed(q) \subseteq Elements(g.capabilities)
       /\ \A id \in Granted(last.principal) : Matches(q, normalize(doc), id) <=> id = last.repository
       /\ q.kind = "gitea" => \A id \in DOMAIN doc.repositories :
                                 Matches(q, normalize(doc), id) => id = last.repository
       /\ last.provider = doc.repositories[last.repository].provider
       /\ last.token # Absent => \E n \in Says(last.provider) : n \in DOMAIN env /\ env[n] = last.token

(* A child process gets none of the broker's credentials and none of the   *)
(* variables that steer gh, except that gh gets the token of its provider; *)
(* this holds for what is in the environment besides the configured names. *)
SecretsStayHome ==
  last.step = "executed" /\ last.child # Absent =>
    LET q == last.request
        allowed == IF q.kind = "github" THEN {"GH_TOKEN", "GH_PROMPT_DISABLED", "GH_NO_UPDATE_NOTIFIER"} ELSE {}
    IN /\ DOMAIN last.child \cap Controls \subseteq allowed
       /\ "GH_TOKEN" \in DOMAIN last.child => last.child["GH_TOKEN"] = last.token
       /\ \A n \in DOMAIN last.child :
            \A id \in DOMAIN runtime.credentials.providers :
               last.child[n] = runtime.credentials.providers[id] => last.child[n] = last.token
       /\ \A n \in DOMAIN last.child : ~\E p \in DOMAIN doc.principals : Owns(p, last.child[n])

(* The published directory stays whole (PublishedIsWhole), and the         *)
(* certificate and the key the server has pinned are of one run of cert    *)
(* init although they are read one after the other.                        *)
CertificatesHold ==
  /\ PublishedIsWhole
  /\ Len(cert) = 2 => cert[1] = cert[2] /\ output = cert[1]
=============================================================================
