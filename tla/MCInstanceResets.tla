--------------------------- MODULE MCInstanceResets ---------------------------
(* One instance at a time, of a raid or of a normal dungeon.  A minute is   *)
(* one unit, an hour four, a day six; resets are at the fourth of each day,*)
(* so that a lockout that is extended can be seen through its three resets. *)
EXTENDS InstanceResets, TLC
CONSTANTS i1, raid, dungeon

Delays == <<4, 3, 2, 1>>
DurationOfRaid == raid :> 6
=============================================================================
