---------------------------- MODULE MCInstanceIds ----------------------------
(***************************************************************************)
(* Ids up to MaxId, and an instance table that is empty, dense, or has a   *)
(* gap below its highest id.                                               *)
(***************************************************************************)
EXTENDS InstanceIds

Tables == {{}, {1}, {2}, {1, 3}}
=============================================================================
