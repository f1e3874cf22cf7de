---------------------------- MODULE MCGitSession ----------------------------
(***************************************************************************)
(* The instances of GitSession that TLC checks.  Two frames and two chunks *)
(* let an abandoned chunk and a terminal meet in the send pump, and let a  *)
(* push fail with client data still to come; nothing in the module depends *)
(* on further ones.                                                        *)
(***************************************************************************)
EXTENDS GitSession
=============================================================================
