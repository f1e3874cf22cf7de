------------------------------ MODULE MCRunner ------------------------------
(* Two Start calls over one PID: the second child can only be given the    *)
(* PID of the first, at any moment from its reap on, and its start, held   *)
(* up by the process table, meets Cleanup's barrier and the first's Wait.  *)
EXTENDS Runner
=============================================================================
