---------------------------- MODULE MCGitHubCall ----------------------------
(* Commands for model checking GitHubCall: one or more of every operation,   *)
(* and the command lines at the edges of the validators' bounds.             *)
EXTENDS GitHubCall, TLC

T(n) == [bytes |-> n, runes |-> n, kind |-> "plain"]
Wide(n) == [bytes |-> 3 * n, runes |-> n, kind |-> "plain"]
K(n, k) == [bytes |-> n, runes |-> n, kind |-> k]

Cmd(words, n, text, flags) ==
  [words |-> words, number |-> n, text |-> text, flags |-> flags, fault |-> FALSE,
   origin |-> "granted"]
None == [f \in {} |-> 0]
Plain(words, n) == Cmd(words, n, T(0), None)

MCLabels == {T(1), T(2)}
MCLabelSeqs == {<<>>, <<T(1)>>, <<T(1), T(2)>>, <<T(1), T(1)>>, <<T(1), T(2), T(3)>>}

Single ==
  {Plain(w, n) : w \in {"issue view", "issue close", "issue reopen", "pr view", "pr close",
                         "pr reopen", "pr ready", "pr checks", "run view"}, n \in 0..3} \union
  {Plain(w, 0) : w \in {"auth status", "api user", "repo view", "run list", "pr list",
                         "issue create", "workflow run"}} \union
  {Cmd(w, n, T(0), "--body" :> t) : w \in {"issue comment", "pr comment", "issue edit"},
     n \in 1..2, t \in {T(0), T(7), T(65535), T(65536)}} \union
  {Cmd("status get", 0, t, None) : t \in {T(40), T(64), T(41), K(40, "space")}} \union
  {Cmd("repo view", 0, T(4), "--json" :> <<"name", "sshUrl">>),
   Cmd("repo view", 0, T(4), "--repo" :> "granted"),
   Cmd("pr view", 2, T(0), "--json" :> <<"body", "mergeableState">>),
   Cmd("pr view", 2, T(0), "--json" :> <<"body", "body">>),
   Cmd("pr view", 2, T(0), "--repo" :> "malformed"),
   Cmd("pr view", 2, T(0), "--repo" :> "other"),
   Cmd("run view", 5, T(0), "--json" :> <<"attempt">>),
   Cmd("run list", 0, T(0), ("--branch" :> T(255)) @@ ("--status" :> "known") @@ ("--limit" :> 100)),
   Cmd("run list", 0, T(0), "--limit" :> 101),
   Cmd("pr list", 0, T(0), ("--state" :> "all") @@ ("--base" :> T(0)) @@ ("--head" :> K(3, "space"))),
   Cmd("pr list", 0, T(0), ("--state" :> "all") @@ ("--base" :> T(0)) @@ ("--limit" :> 1)),
   [Plain("pr view", 2) EXCEPT !.fault = TRUE],
   [Plain("pr view", 2) EXCEPT !.origin = ""]}

Writing ==
  {Cmd("issue create", 0, T(0), ("--title" :> t) @@ ("--label" :> l)) :
     t \in {T(0), T(256), T(257)}, l \in {<<T(1)>>, <<T(1), T(1)>>, <<T(256)>>}} \union
  {Cmd("pr create", 0, T(0), ("--title" :> T(5)) @@ ("--head" :> h) @@ ("--base" :> T(4)) @@
       ("--draft" :> TRUE)) : h \in {T(255), T(256), T(0)}} \union
  {Cmd("pr edit", 2, T(0), "--body-file" :> [regular |-> r, text |-> t]) :
     r \in BOOLEAN, t \in {T(0), T(65536), T(65537), K(5, "invalid"), K(5, "nul")}} \union
  {Cmd("pr edit", n, T(0), ("--title" :> T(5)) @@ ("--base" :> T(4))) : n \in 1..2} \union
  {Cmd("issue edit", 1, T(0), ("--title" :> T(3)) @@ ("--add-label" :> <<T(1)>>)),
   Cmd("issue edit", 1, T(0), None)} \union
  {Cmd("label create", 0, t, ("--color" :> c) @@ ("--description" :> d)) :
     t \in {T(50), Wide(50), T(51), K(8, "control")}, c \in {T(6), T(7)}, d \in {T(0), T(101)}}

Relabelling ==
  {Cmd("issue edit", n, T(0), ("--add-label" :> <<T(2), T(3)>>) @@ ("--remove-label" :> <<T(1)>>)) :
     n \in 1..2} \union
  {Cmd("issue edit", 1, T(0), ("--add-label" :> <<T(1)>>) @@ ("--remove-label" :> <<T(1)>>)),
   Cmd("issue edit", 1, T(0), "--add-label" :> <<T(4)>>)}

Listing ==
  {Cmd("issue list", 0, T(0), "--limit" :> n) : n \in {1, 3, 5, 1001, 1002}} \union
  {Cmd("issue list", 0, T(0), "--json" :> <<"number", "assignees">>)} \union
  {Cmd("label list", 0, T(0), ("--limit" :> n) @@ ("--json" :> <<"name">>)) :
     n \in {1, 3, 4, 1000, 1001}} \union
  {Cmd("issue view", n, T(0), "--json" :> <<"title", "comments">>) : n \in 1..2} \union
  {Cmd("pr checks", 2, T(0), "--json" :> <<"name", "conclusion">>)}

MCCommands == Single \union Writing \union Relabelling \union Listing
=============================================================================
