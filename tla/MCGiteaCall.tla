---------------------------- MODULE MCGiteaCall ----------------------------
(* Commands for model checking GiteaCall: one or more of every operation,    *)
(* and the command lines at the edges of the validators' bounds.             *)
EXTENDS GiteaCall, TLC

T(n) == [bytes |-> n, runes |-> n, kind |-> "plain"]
Wide(n) == [bytes |-> 3 * n, runes |-> n, kind |-> "plain"]
K(n, k) == [T(n) EXCEPT !.kind = k]

Flagged(group, n, flags) ==
  [group |-> group, alias |-> FALSE, index |-> n, slug |-> "granted", body |-> <<>>,
   flags |-> ("--repo" :> "granted") @@ flags, fault |-> FALSE]
None == [f \in {} |-> 0]
Cmd(group, n) == Flagged(group, n, None)

Many(n) == [i \in 1..n |-> T(i)]

Plain ==
  {Cmd(g, n) : g \in {"issues view", "issues close", "issues reopen", "pulls view"}, n \in 0..3}
  \union {Cmd(g, 0) : g \in {"repos", "issues list", "pulls list", "issues create", "milestones"}}
  \union {[Cmd(g, 1) EXCEPT !.alias = TRUE] : g \in {"issues view", "issues close"}}
  \union {[Cmd("issues view", 1) EXCEPT !.fault = TRUE],
          [Cmd("repos", 0) EXCEPT !.slug = "GRANTED"], [Cmd("repos", 0) EXCEPT !.slug = "other"]}
  \union {[Cmd("issues view", 1) EXCEPT !.flags["--repo"] = s] : s \in {"GRANTED", "other", "dotgit"}}

Listing ==
  {Flagged("issues list", 0, f :> t) : f \in {"--keyword", "--owner"},
     t \in {T(0), T(255), T(256), K(3, "other")}} \union
  {Flagged("issues list", 0, ("--from" :> a) @@ ("--until" :> b)) : a \in {-1, 0, 3}, b \in {2, 3, 10}}
  \union {Flagged(g, 0, ("--limit" :> n) @@ ("--page" :> 2) @@ ("--state" :> "all")) :
            g \in {"issues list", "pulls list"}, n \in {0, 1, 50, 51}}
  \union {Flagged(g, 0, "--page" :> n) : g \in {"issues list", "pulls list"}, n \in {0, 2147483647}}
  \union {Flagged("issues list", 0, "--fields" :> f) :
            f \in {<<"kind", "created", "updated">>, <<"title", "title">>, <<"mergeable">>}}
  \union {Flagged("pulls list", 0, "--fields" :> f) :
            f \in {<<"mergeable", "updated", "created">>, <<"comments", "body", "deadline">>}}

Viewing ==
  {Flagged(g, n, "--comments" :> TRUE) : g \in {"issues view", "pulls view"}, n \in 1..2}
  \union {Flagged("pulls view", 2, "--output" :> o) : o \in {"json", "simple", "yaml"}}

Writing ==
  {Flagged("issues create", 0, ("--title" :> t) @@ ("--description" :> T(0))) :
     t \in {T(0), T(255), Wide(255), T(256)}}
  \union {Flagged("issues create", 0, ("--title" :> T(5)) @@ ("--labels" :> l)) :
            l \in {<<T(1), T(3)>>, <<T(1), T(1)>>, <<T(9)>>, <<Wide(200)>>, Many(26)}}
  \union {Flagged("comment", n, "--description" :> t) : n \in 1..2,
            t \in {T(0), T(9), T(65535), T(65536)}}
  \union {[Cmd("comment", 1) EXCEPT !.body = <<T(4)>>],
          [Flagged("comment", 1, "--description" :> T(4)) EXCEPT !.body = <<T(4)>>]}
  \union {Flagged("issues edit", 1, f :> ts) : f \in {"--set-assignees", "--add-labels"},
            ts \in {<<>>, Many(25), Many(26)}}
  \union {Flagged("issues edit", 1, ("--add-assignees" :> <<T(1)>>) @@ ("--set-assignees" :> <<>>)
                    @@ ("--remove-labels" :> <<T(2)>>)),
          Flagged("issues edit", 1, ("--title" :> T(7))), Cmd("issues edit", 1)}

MCCommands == Plain \union Listing \union Viewing \union Writing
=============================================================================
