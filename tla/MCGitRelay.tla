----------------------------- MODULE MCGitRelay -----------------------------
(***************************************************************************)
(* Frames and reads of up to two bytes and a limit of three, so that the   *)
(* limit is met and passed on either side, and exit codes on both sides of *)
(* what a process can return.                                              *)
(***************************************************************************)
EXTENDS GitRelay

MCExitCodes == {-1, 0, 1, 128, 256}
=============================================================================
