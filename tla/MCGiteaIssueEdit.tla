-------------------------- MODULE MCGiteaIssueEdit --------------------------
(***************************************************************************)
(* Two titles, bodies, users and labels, of which one user is not          *)
(* assignable, and requests of every mode, alone and together.             *)
(***************************************************************************)
EXTENDS GiteaIssueEdit

Ask(t, b, am, us, lm, ls) ==
  [title |-> t, body |-> b, assigneeMode |-> am, assignees |-> us, labelMode |-> lm, labels |-> ls]
MCRequests ==
  {Ask(t, b, "none", {}, "none", {}) : t \in {None, "t1"}, b \in {"b1"}}
    \cup {Ask(None, None, "set", us, "none", {}) : us \in {{}, {"u1"}, {"u1", "u2"}}}
    \cup {Ask("t1", None, m, {"u1"}, "none", {}) : m \in {"add", "remove"}}
    \cup {Ask(None, None, "none", {}, m, {"l1", "l2"}) : m \in {"add", "remove"}}
    \cup {Ask(None, "b1", "set", {"u1"}, m, {"l1"}) : m \in {"add", "remove"}}
=============================================================================
