-------------------------- MODULE MCReceiveParser --------------------------
(***************************************************************************)
(* A small instance of ReceiveParser: object IDs of both widths and in two *)
(* spellings, updates that are allowed, denied, deletions and duplicates,  *)
(* two providers, and a byte budget that fits one certificate with an      *)
(* option, or two commands with two options.                               *)
(***************************************************************************)
EXTENDS ReceiveParser

ID(w, i, u) == [width |-> w, id |-> i, upper |-> u]
MCOid == {ID(40, "a", FALSE), ID(40, "a", TRUE), ID(40, "0", FALSE), ID(64, "b", FALSE), ID(64, "0", FALSE)}
Change(w, ref) == [old |-> ID(w, "0", FALSE), new |-> ID(w, IF w = 40 THEN "a" ELSE "b", FALSE), ref |-> ref]
MCUpdate == {Change(40, "topic"), Change(64, "topic"), Change(40, "main"), Change(40, "bad"),
             [old |-> ID(40, "a", FALSE), new |-> ID(40, "0", FALSE), ref |-> "side"],
             [old |-> ID(40, "a", FALSE), new |-> ID(40, "a", TRUE), ref |-> "side"]}
Cap(n, v) == [name |-> n, value |-> v]
MCCapList == {<<>>, <<Cap("push-options", "")>>, <<Cap("push-options", ""), Cap("push-options", "")>>,
              <<Cap("object-format", "sha256")>>, <<Cap("object-format", "sha1"), Cap("agent", "git")>>}
Providers == {
  [c \in {"delete-refs", "push-options", "push-cert", "agent", "object-format"} |->
     CASE c = "push-cert" -> "nonce" [] c = "agent" -> "git" [] c = "object-format" -> "sha1" [] OTHER -> ""],
  [c \in {"push-cert", "object-format"} |-> IF c = "push-cert" THEN "" ELSE "sha256"]}
MCPayload == [k \in Kinds |-> CASE k = "shallow" -> 96
                                [] k \in {"option", "text", "command", "begin", "end", "blank"} -> 46
                                [] k = "header" -> 26
                                [] k \in {"first", "push-cert"} -> 5
                                [] k = "flush" -> 0
                                [] OTHER -> 1]
=============================================================================
