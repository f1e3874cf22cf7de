------------------------------ MODULE MCServer ------------------------------
(* Three calls of one principal or of the health service, two global       *)
(* leases and one for the principal: both limits are reached, and each     *)
(* while the other still has room.                                         *)
EXTENDS Server
=============================================================================
