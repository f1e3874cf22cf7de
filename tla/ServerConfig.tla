---------------------------- MODULE ServerConfig ----------------------------
(***************************************************************************)
(* What the broker derives from its configuration file and its environment *)
(* at startup: config.Decode and Validate, credentials.Load, the token     *)
(* index, the policy snapshot and the environments of child processes.     *)
(* Strings are members of small sets; the regular expressions of           *)
(* validate.go are the sets of the strings they match, and lower case is a *)
(* function given with them.  Sizes are in KiB.                            *)
(***************************************************************************)
EXTENDS Integers, Sequences, FiniteSets, TLC

CONSTANTS Absent,           \* a field that is not there, a value that cannot be parsed
          Null,           \* an explicit null
          NotString,      \* a value with a tag other than !!str
          Lower,          \* upper-case spellings and their lower case
          Identifier, OwnerName, RepositoryName, GiteaName, SSHUserName, TokenEnvName, Host, Ref,
          DotGit,         \* names that end in .git, in any case
          ValidToken,     \* strings in the canonical form of a principal's token
          Controls        \* variables with the prefix REPOWOLF_, GH_ or GITHUB_

Fold(s) == IF s \in DOMAIN Lower THEN Lower[s] ELSE s

\* asciiEqualFold
SameFold(s, t) == Fold(s) = Fold(t)

Distinct(s) == \A i, j \in DOMAIN s : s[i] = s[j] => i = j
Elements(s) == {s[i] : i \in DOMAIN s}

\* the one member of a set, when it has one and no other
Only(set) == IF \E x \in set : set = {x} THEN CHOOSE x \in set : TRUE ELSE Absent

Capabilities ==
  {"repository:read", "issues:read", "issues:write", "pull_requests:read", "pull_requests:write",
   "actions:read", "statuses:read", "git:read", "git:write"}

defaultLimits ==
  [maxConcurrentRequests |-> 8, maxConcurrentRequestsPerPrincipal |-> 4, maxMessage |-> 1024,
   maxStreamChunk |-> 64, maxPushPrefix |-> 1024, maxGit |-> 8388608,
   initialStreamTimeout |-> 5, operationTimeout |-> 600, idleStreamTimeout |-> 120]
Timeouts == {"initialStreamTimeout", "operationTimeout", "idleStreamTimeout"}
-----------------------------------------------------------------------------
(* Decoding.  A mapping of the document has its own entries and those it   *)
(* merges with `<<`, the earlier ones first.                               *)

\* collectEffectiveMapping
Effective(node) ==
  LET sources == <<node.own>> \o node.merged
      keys == UNION {DOMAIN sources[i] : i \in DOMAIN sources}
      first(k) == CHOOSE i \in DOMAIN sources :
                    /\ k \in DOMAIN sources[i]
                    /\ \A j \in 1..(i - 1) : k \notin DOMAIN sources[j]
  IN [k \in keys |-> sources[first(k)][k]]

\* mutant: the entries a mapping merges are not looked at
OwnOnly(node) == node.own

NullChecked(node) == Effective(node)

rejectNullProviderFields(doc) ==
  \E id \in DOMAIN doc.providers : \E f \in {"tokenEnv", "caFile"} :
     LET fields == NullChecked(doc.providers[id]) IN f \in DOMAIN fields /\ fields[f] = Null

\* duplicateKey, through aliases too
UniqueKeys(doc) == doc.shape \notin {"duplicate_key", "cyclic_alias"}

(* rejectDuplicateKeys, KnownFields and the second document.               *)
WellFormed(doc) ==
  /\ UniqueKeys(doc) /\ ~rejectNullProviderFields(doc)
  /\ doc.shape \notin {"two_documents", "unknown_field"}

(* A field of a provider as yaml decodes it: an explicit null is not       *)
(* handed to UnmarshalYAML and leaves the field unset.                     *)
Field(node, f, default) ==
  LET fields == Effective(node)
  IN IF f \in DOMAIN fields /\ fields[f] # Null THEN fields[f] ELSE default

decodedProvider(node) ==
  [kind |-> Field(node, "kind", ""), apiHost |-> Field(node, "apiHost", ""),
   gitHost |-> Field(node, "gitHost", ""), sshUser |-> Field(node, "sshUser", ""),
   sshPort |-> Field(node, "sshPort", 22),
   tokenEnv |-> Field(node, "tokenEnv", ""), caFile |-> Field(node, "caFile", "")]

\* UnmarshalYAML of tokenEnv and caFile, and normalize's check of both
OptionalsFilled(node) ==
  LET fields == Effective(node)
  IN \A f \in {"tokenEnv", "caFile"} \cap DOMAIN fields : fields[f] \notin {NotString, ""}

normalizePolicy(git) ==
  git @@ [denyRefs |-> <<"refs/heads/main">>, denyDeletes |-> FALSE, maxRefUpdates |-> 0]

normalizeLimits(limits) == limits @@ defaultLimits

normalize(doc) ==
  [head |-> doc.head,
   providers |-> [id \in DOMAIN doc.providers |-> decodedProvider(doc.providers[id])],
   repositories |-> [id \in DOMAIN doc.repositories |->
      [provider |-> doc.repositories[id].provider, owner |-> doc.repositories[id].owner,
       name |-> doc.repositories[id].name, git |-> normalizePolicy(doc.repositories[id].git)]],
   principals |-> doc.principals,
   limits |-> normalizeLimits(doc.limits)]

Normalizable(doc) ==
  /\ \A id \in DOMAIN doc.providers : OptionalsFilled(doc.providers[id])
  /\ \A t \in Timeouts \cap DOMAIN doc.limits : doc.limits[t] # Absent
-----------------------------------------------------------------------------
(* Validate.                                                               *)

validateHead(head) ==
  /\ head.apiVersion = "repowolf.dev/v1alpha1" /\ head.listen \notin {"", "no_port", "port_0"}
  /\ head.certificate # "" /\ head.privateKey # ""
  /\ {head.gh, head.ssh} \cap {"relative", "/"} = {}

validateProvider(p) ==
  /\ p.kind \in {"github", "gitea"}
  /\ IF p.tokenEnv = "" THEN p.kind # "gitea" ELSE p.tokenEnv \in TokenEnvName
  /\ p.caFile # "" => p.kind = "gitea"
  /\ p.apiHost \in Host /\ p.gitHost \in Host
  /\ p.sshUser \in SSHUserName /\ p.sshPort # 0

OneLegacyProvider(providers) ==
  Cardinality({id \in DOMAIN providers :
                 providers[id].kind = "github" /\ providers[id].tokenEnv = ""}) <= 1

(* validateCredentialNames: every name in the configuration has one owner. *)
PrincipalOwners(cfg) ==
  UNION {{<<"principal", id, i>> : i \in DOMAIN cfg.principals[id].tokenEnvs} : id \in DOMAIN cfg.principals}
ProviderOwners(cfg) ==
  {<<"provider", id, 0>> : id \in {p \in DOMAIN cfg.providers : cfg.providers[p].tokenEnv # ""}}
CredentialNames(cfg) == PrincipalOwners(cfg) \cup ProviderOwners(cfg)
NameOf(cfg, owner) ==
  IF owner[1] = "principal" THEN cfg.principals[owner[2]].tokenEnvs[owner[3]]
  ELSE cfg.providers[owner[2]].tokenEnv

validateCredentialNames(cfg) ==
  /\ \A id \in DOMAIN cfg.principals : Elements(cfg.principals[id].tokenEnvs) \subseteq TokenEnvName
  /\ \A a, b \in CredentialNames(cfg) : NameOf(cfg, a) = NameOf(cfg, b) => a = b

ValidRepositoryIdentity(kind, owner, name) ==
  CASE kind = "github" -> owner \in OwnerName /\ name \in RepositoryName
    [] kind = "gitea" -> owner \in GiteaName /\ name \in GiteaName \ DotGit
    [] OTHER -> FALSE

validatePushPolicy(git) ==
  git.maxRefUpdates > 0 /\ Elements(git.denyRefs) \subseteq Ref /\ Distinct(git.denyRefs)

validateRepository(cfg, r) ==
  /\ r.provider \in DOMAIN cfg.providers
  /\ ValidRepositoryIdentity(cfg.providers[r.provider].kind, r.owner, r.name)
  /\ validatePushPolicy(r.git)

KindOf(cfg, id) == cfg.providers[cfg.repositories[id].provider].kind

(* A Gitea request names no host: owner and name must tell the repository. *)
validateGiteaRepositoryCollisions(cfg) ==
  \A a, b \in {id \in DOMAIN cfg.repositories : KindOf(cfg, id) = "gitea"} :
     /\ SameFold(cfg.repositories[a].owner, cfg.repositories[b].owner)
     /\ SameFold(cfg.repositories[a].name, cfg.repositories[b].name)
     => a = b

validateCapabilities(capabilities) ==
  /\ capabilities # <<>> /\ Elements(capabilities) \subseteq Capabilities /\ Distinct(capabilities)
  /\ "git:write" \in Elements(capabilities) => "git:read" \in Elements(capabilities)

validatePrincipal(cfg, p) ==
  /\ p.tokenEnvs # <<>> /\ p.grants # <<>>
  /\ \A i \in DOMAIN p.grants : /\ p.grants[i].repository \in DOMAIN cfg.repositories
                                /\ validateCapabilities(p.grants[i].capabilities)
  /\ Distinct([i \in DOMAIN p.grants |-> p.grants[i].repository])

validateLimits(l) ==
  /\ \A f \in DOMAIN l : l[f] > 0
  /\ l.maxConcurrentRequestsPerPrincipal <= l.maxConcurrentRequests
  /\ l.maxMessage <= 1024
  /\ l.maxStreamChunk <= 64 /\ l.maxStreamChunk <= l.maxMessage
  /\ l.maxPushPrefix <= 1024 /\ l.maxPushPrefix <= l.maxGit

Validate(cfg) ==
  /\ validateHead(cfg.head)
  /\ DOMAIN cfg.providers # {} /\ DOMAIN cfg.repositories # {} /\ DOMAIN cfg.principals # {}
  /\ DOMAIN cfg.providers \cup DOMAIN cfg.repositories \cup DOMAIN cfg.principals \subseteq Identifier
  /\ \A id \in DOMAIN cfg.providers : validateProvider(cfg.providers[id])
  /\ OneLegacyProvider(cfg.providers)
  /\ validateCredentialNames(cfg)
  /\ \A id \in DOMAIN cfg.repositories : validateRepository(cfg, cfg.repositories[id])
  /\ validateGiteaRepositoryCollisions(cfg)
  /\ \A id \in DOMAIN cfg.principals : validatePrincipal(cfg, cfg.principals[id])
  /\ validateLimits(cfg.limits)

Decodes(doc) == WellFormed(doc) /\ Normalizable(doc) /\ Validate(normalize(doc))
-----------------------------------------------------------------------------
\* a string in the canonical form of a principal's token
TokenForm(token) == token \in ValidToken

(* credentials.Load and auth.NewIndex.  env is the environment of the      *)
(* process, a function from the names that are set to their values.        *)

LegacyNames == {"GH_TOKEN", "GITHUB_TOKEN"}

UsesLegacyProviderToken(p) == p.kind = "github" /\ p.tokenEnv = ""

\* loadLegacyGitHubToken: exactly one of the two may be set
EnvironmentOf(p, env) ==
  IF UsesLegacyProviderToken(p)
  THEN Only(LegacyNames \cap DOMAIN env)
  ELSE p.tokenEnv

PrincipalNames(cfg, id) == Elements(cfg.principals[id].tokenEnvs)
ProviderNames(cfg, env) == {EnvironmentOf(cfg.providers[id], env) : id \in DOMAIN cfg.providers}
ClientNames(cfg) == UNION {PrincipalNames(cfg, id) : id \in DOMAIN cfg.principals}
Names(cfg, env) == ClientNames(cfg) \cup ProviderNames(cfg, env)

CredentialsLoad(cfg, env) ==
  /\ Names(cfg, env) \subseteq DOMAIN env
  /\ \A n \in Names(cfg, env) : env[n] # ""
  /\ \A id \in DOMAIN cfg.principals : \A n \in PrincipalNames(cfg, id) : TokenForm(env[n])
  \* addValue
  /\ \A m, n \in Names(cfg, env) : env[m] = env[n] => m = n

Load(cfg, env) ==
  [auth |-> UNION {{<<env[n], id>> : n \in PrincipalNames(cfg, id)} : id \in DOMAIN cfg.principals},
   providers |-> [id \in DOMAIN cfg.providers |-> env[EnvironmentOf(cfg.providers[id], env)]],
   environments |-> Names(cfg, env)]

\* Index.Authenticate: one entry with the token's digest, and no other
Authenticate(index, token) ==
  LET entries == {e \in index : TokenForm(token) /\ e[1] = token}
  IN IF Only(entries) # Absent THEN Only(entries)[2] ELSE Absent

\* mutant: only the configured names are taken out
ConfiguredNamesOnly(env, excluded) == [n \in DOMAIN env \ excluded |-> env[n]]

\* runner.TokenFreeEnvironment and GitHubEnvironment
GitHubSets == {"GH_PROMPT_DISABLED", "GH_NO_UPDATE_NOTIFIER", "NO_COLOR"}

TokenFreeEnvironment(env, excluded) ==
  [n \in DOMAIN env \ (excluded \cup Controls) |-> env[n]]

GitHubEnvironment(tokenFree, token) ==
  [n \in DOMAIN tokenFree \cup GitHubSets \cup {"GH_TOKEN"} |->
     CASE n = "GH_TOKEN" -> token
       [] n \in GitHubSets -> "1"
       [] OTHER -> tokenFree[n]]

(* What the regular expressions and the prefixes imply of their sets.      *)
ASSUME ConfigAssumption ==
  /\ "" \notin GiteaName
  /\ LegacyNames \cap TokenEnvName = {}
  /\ LegacyNames \subseteq Controls /\ "NO_COLOR" \notin Controls
  /\ "1" \notin ValidToken

\* runner.ResolveTools; found is what can be resolved to a regular executable
ToolsResolve(cfg, found) ==
  /\ (\E id \in DOMAIN cfg.providers : cfg.providers[id].kind = "github") => "gh" \in found
  /\ "ssh" \in found
-----------------------------------------------------------------------------
(* policy.Snapshot: which granted repository a selector names.             *)

Grants(cfg, principal) ==
  LET grants == cfg.principals[principal].grants
  IN [r \in {grants[i].repository : i \in DOMAIN grants} |->
        Elements(grants[CHOOSE i \in DOMAIN grants : grants[i].repository = r].capabilities)]

IdentityMatches(s, r, kind) ==
  /\ s.owner # "" => IF kind = "gitea" THEN SameFold(s.owner, r.owner) ELSE s.owner = r.owner
  /\ s.name # "" => IF kind = "gitea" THEN SameFold(s.name, r.name) ELSE s.name = r.name

\* the provider services' matches
matches(s, r, p) ==
  /\ s.kind = p.kind
  /\ s.host \in {"", p.gitHost}
  /\ s.sshPort \in {0, p.sshPort}
  /\ IdentityMatches(s, r, p.kind)

matchesGit(s, r, p) ==
  /\ IF s.sshUser = "" THEN p.kind = "github" /\ p.sshUser = "git" ELSE s.sshUser = p.sshUser
  /\ SameFold(s.host, p.gitHost)
  /\ s.sshPort \in {0, p.sshPort}
  /\ IdentityMatches(s, r, p.kind)

Matches(s, cfg, id) ==
  LET r == cfg.repositories[id]
      p == cfg.providers[r.provider]
  IN IF s.kind = "git" THEN matchesGit(s, r, p) ELSE matches(s, r, p)

Matching(cfg, principal, s) == {id \in DOMAIN Grants(cfg, principal) : Matches(s, cfg, id)}

OneMatch(cfg, principal, s) ==
  Only(Matching(cfg, principal, s))

resolve(cfg, principal, s, capability) ==
  LET id == OneMatch(cfg, principal, s)
  IN IF id # Absent /\ capability \in Grants(cfg, principal)[id] THEN id ELSE Absent
=============================================================================
