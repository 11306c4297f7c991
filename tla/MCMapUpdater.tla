---------------------------- MODULE MCMapUpdater ----------------------------
(***************************************************************************)
(* Two workers, a plain base map and an instanceable one with two          *)
(* instances: a worker can queue instances while the other one finishes,   *)
(* takes them or sleeps.                                                   *)
(***************************************************************************)
EXTENDS MapUpdater

CONSTANTS continent, dungeon, run1, run2

TheBaseMaps == {continent, dungeon}
TheInstances == {run1, run2}
TheParents == [i \in TheInstances |-> dungeon]
=============================================================================
