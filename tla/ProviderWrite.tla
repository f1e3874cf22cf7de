--------------------------- MODULE ProviderWrite ---------------------------
(***************************************************************************)
(* What one provider operation promises its caller, whatever the provider:   *)
(* a write is sent at most once and never retried; success is reported only  *)
(* for a write that took effect; and a caller who is told that the request   *)
(* was refused may rely on it, now and later.  Everything else leaves the    *)
(* outcome open.  The detailed call models are shown to implement this.      *)
(***************************************************************************)
VARIABLES writes,    \* whether the operation changes the provider's state
          effect,    \* of the one write: none, held (not needed: what it
                     \* would do holds already), sent, applied or failed
          answer     \* what the caller is told

vars == <<writes, effect, answer>>

Init == writes \in BOOLEAN /\ effect = "none" /\ answer = "pending"

Send == /\ writes /\ effect = "none" /\ answer = "pending"
        /\ effect' = "sent"
        /\ UNCHANGED <<writes, answer>>

(* What is asked for is found to hold: there is nothing to send. *)
Hold == /\ writes /\ effect = "none" /\ answer = "pending"
        /\ effect' = "held"
        /\ UNCHANGED <<writes, answer>>

(* The provider acts, or never will: also after the caller has gone. *)
Act == /\ effect = "sent"
       /\ effect' \in {"applied", "failed"}
       /\ UNCHANGED <<writes, answer>>

Answer == /\ answer = "pending"
          /\ answer' \in {"done", "refused", "unknown"}
          /\ answer' = "done" => (writes => effect \in {"applied", "held"})
          /\ answer' = "refused" => effect \in {"none", "held", "failed"}
          /\ UNCHANGED <<writes, effect>>

Next == Send \/ Hold \/ Act \/ Answer

Spec == Init /\ [][Next]_vars
=============================================================================
