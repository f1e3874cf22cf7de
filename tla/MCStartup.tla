----------------------------- MODULE MCStartup -----------------------------
(***************************************************************************)
(* A small configuration (two GitHub providers, one of them on the legacy  *)
(* token, and a Gitea instance; three repositories; two principals) and    *)
(* variations of it, each aimed at one rule of the decoder, the validator  *)
(* or the credential loader.  Every variation is started and, if it gets   *)
(* that far, serves every request.  Only the plain one races with cert     *)
(* init: a start reads nothing of the other inputs before it.              *)
(***************************************************************************)
EXTENDS Startup

MCLower == "APP" :> "app" @@ "GIT.EXAMPLE" :> "git.example"
MCIdentifier == {"hub", "hub2", "tea", "app", "lib", "doc", "app2", "alice", "bob"}
MCHost == {"github.com", "git.example", "GIT.EXAMPLE", "api.github.com"}
MCTokenEnv == {"REPOWOLF_TOKEN_A", "REPOWOLF_TOKEN_B", "REPOWOLF_TOKEN_HUB", "REPOWOLF_TOKEN_TEA"}
MCControls == MCTokenEnv \cup {"REPOWOLF_TOKEN_OLD", "GH_TOKEN", "GITHUB_TOKEN", "GH_HOST",
                               "GH_PROMPT_DISABLED", "GH_NO_UPDATE_NOTIFIER"}

Provider(fields) == [own |-> fields, merged |-> <<>>]
Hub == [kind |-> "github", apiHost |-> "api.github.com", gitHost |-> "github.com", sshUser |-> "git"]
Tea == [kind |-> "gitea", apiHost |-> "git.example", gitHost |-> "git.example", sshUser |-> "gitea",
        sshPort |-> 2222, tokenEnv |-> "REPOWOLF_TOKEN_TEA"]
Repo(provider, owner, name) ==
  [provider |-> provider, owner |-> owner, name |-> name, git |-> [maxRefUpdates |-> 2]]
Grant(repository, capabilities) == [repository |-> repository, capabilities |-> capabilities]
All == <<"issues:read", "issues:write", "git:read", "git:write">>

Plain ==
  [shape |-> "one document",
   head |-> [apiVersion |-> "repowolf.dev/v1alpha1", listen |-> "localhost:1", certificate |-> "tls.crt",
             privateKey |-> "tls.key", gh |-> Absent, ssh |-> Absent],
   providers |-> [hub |-> Provider(Hub), hub2 |-> Provider(Hub @@ [tokenEnv |-> "REPOWOLF_TOKEN_HUB"]),
                  tea |-> Provider(Tea)],
   repositories |-> [app |-> Repo("hub", "acme", "app"), lib |-> Repo("hub2", "acme", "lib"),
                     doc |-> Repo("tea", "acme", "app")],
   principals |->
     [alice |-> [tokenEnvs |-> <<"REPOWOLF_TOKEN_A">>, grants |-> <<Grant("app", All), Grant("doc", All)>>],
      bob |-> [tokenEnvs |-> <<"REPOWOLF_TOKEN_B">>,
               grants |-> <<Grant("app", <<"issues:read">>), Grant("lib", <<"git:read">>)>>]],
   limits |-> [maxGit |-> 1024]]

\* the two GitHub providers as one: the same slug in both is ambiguous
Ambiguous == [Plain EXCEPT !.repositories.lib = Repo("hub2", "acme", "app"),
                           !.principals.alice.grants = <<Grant("app", All), Grant("lib", <<"issues:read">>)>>]
Collision(name) == [Plain EXCEPT !.repositories = @ @@ [app2 |-> Repo("tea", "acme", name)]]
WithProvider(id, node) == [Plain EXCEPT !.providers[id] = node]
WithTokenEnv(value) == WithProvider("hub2", Provider(Hub @@ [tokenEnv |-> value]))
WithLimit(field, value) == [Plain EXCEPT !.limits = field :> value @@ @]
WithGrants(grants) == [Plain EXCEPT !.principals.alice.grants = grants]
WithRepository(fields) == [Plain EXCEPT !.repositories.app = fields]
WithHead(field, value) == [Plain EXCEPT !.head[field] = value]

Variations ==
  {Ambiguous, Collision("lib"), Collision("APP"), Collision("app"), Collision("bad name"), Collision("x.git"),
   \* one legacy provider only, also by way of merged and null fields
   WithProvider("hub2", Provider(Hub)),
   WithProvider("hub2", [own |-> Hub, merged |-> <<[tokenEnv |-> "REPOWOLF_TOKEN_HUB"], [tokenEnv |-> Null]>>]),
   WithProvider("hub", [own |-> Hub, merged |-> <<[tokenEnv |-> Null]>>]),
   WithProvider("hub", Provider(Hub @@ [tokenEnv |-> Null])),
   WithTokenEnv("REPOWOLF_TOKEN_A"), WithTokenEnv("HUB"), WithTokenEnv(""), WithTokenEnv(NotString),
   WithProvider("hub", Provider(Hub @@ [caFile |-> "ca.pem"])),
   WithProvider("tea", Provider(Tea @@ [caFile |-> "ca.pem"])),
   WithProvider("tea", Provider([f \in DOMAIN Tea \ {"tokenEnv"} |-> Tea[f]])),
   WithProvider("tea", Provider([Tea EXCEPT !.sshPort = 0])),
   WithProvider("tea", Provider([Tea EXCEPT !.gitHost = "bad host"])),
   WithProvider("tea", Provider([Tea EXCEPT !.kind = "gitlab"])),
   WithRepository(Repo("nowhere", "acme", "app")), WithRepository(Repo("hub", "a.b", "app")),
   WithRepository([Repo("hub", "acme", "app") EXCEPT !.git = [denyDeletes |-> TRUE]]),
   WithRepository([Repo("hub", "acme", "app") EXCEPT !.git = @ @@ [denyRefs |-> <<"main">>]]),
   WithGrants(<<>>), WithGrants(<<Grant("app", All), Grant("app", <<"git:read">>)>>),
   WithGrants(<<Grant("app", <<"git:write">>)>>), WithGrants(<<Grant("nowhere", All)>>),
   WithGrants(<<Grant("app", <<>>)>>), WithGrants(<<Grant("app", <<"admin">>)>>),
   WithLimit("maxConcurrentRequestsPerPrincipal", 9), WithLimit("maxStreamChunk", 65),
   WithLimit("operationTimeout", 0), WithLimit("idleStreamTimeout", Absent),
   WithLimit("maxGit", 1023), WithLimit("maxGit", 8388609),
   WithHead("listen", "port_0"), WithHead("apiVersion", "v2"), WithHead("gh", "relative"),
   [Plain EXCEPT !.shape = "duplicate_key"], [Plain EXCEPT !.shape = "cyclic_alias"],
   [Plain EXCEPT !.shape = "two_documents"], [Plain EXCEPT !.shape = "unknown_field"]}

Environment ==
  [REPOWOLF_TOKEN_A |-> "rw1_a", REPOWOLF_TOKEN_B |-> "rw1_b", REPOWOLF_TOKEN_HUB |-> "hub2 secret",
   REPOWOLF_TOKEN_TEA |-> "tea secret", GH_TOKEN |-> "hub secret", GH_HOST |-> "elsewhere",
   REPOWOLF_TOKEN_OLD |-> "rw1_old", NO_COLOR |-> "", PATH |-> "/bin"]

Without(name) == [n \in DOMAIN Environment \ {name} |-> Environment[n]]
OddEnvironments ==
  {Without("GH_TOKEN"), Without("REPOWOLF_TOKEN_B"), Environment @@ [GITHUB_TOKEN |-> "hub secret"],
   Without("GH_TOKEN") @@ [GITHUB_TOKEN |-> "hub secret"],
   [Environment EXCEPT !.REPOWOLF_TOKEN_B = "rw1_a"], [Environment EXCEPT !.REPOWOLF_TOKEN_HUB = "tea secret"],
   [Environment EXCEPT !.REPOWOLF_TOKEN_B = "secret"], [Environment EXCEPT !.REPOWOLF_TOKEN_TEA = ""]}

Scenario(d, e, f) == [doc |-> d, env |-> e, found |-> f]
Tools == {"gh", "ssh"}
MCFresh == {Scenario(Plain, Environment, Tools)}
MCScenarios ==
  MCFresh \cup {Scenario(d, Environment, Tools) : d \in Variations}
          \cup {Scenario(Plain, e, Tools) : e \in OddEnvironments}
          \cup {Scenario(Plain, Environment, f) : f \in {{"gh"}, {"ssh"}}}

MCRequests ==
  {[token |-> t, kind |-> s[1], host |-> s[2], sshUser |-> s[3], sshPort |-> s[4],
    owner |-> "acme", name |-> n, capability |-> c] :
     t \in {"rw1_a", "rw1_b", "rw1_old", "hub secret"}, n \in {"app", "APP", "lib"},
     c \in {"issues:read", "issues:write"},
     s \in {<<"github", "github.com", "", 0>>, <<"github", "", "", 0>>, <<"gitea", "", "", 0>>,
            <<"gitea", "git.example", "", 0>>}}
  \cup
  {[token |-> t, kind |-> "git", host |-> s[1], sshUser |-> s[2], sshPort |-> s[3],
    owner |-> "acme", name |-> n, capability |-> c] :
     t \in {"rw1_a", "rw1_b"}, n \in {"app", "APP", "lib"}, c \in {"git:read", "git:write"},
     s \in {<<"github.com", "", 0>>, <<"GIT.EXAMPLE", "gitea", 0>>, <<"git.example", "", 2222>>,
            <<"git.example", "gitea", 22>>, <<"git.example", "gitea", 65536 + 2222>>}}
=============================================================================
