----------------------------- MODULE InstanceIds -----------------------------
(***************************************************************************)
(* The instance ids of src/src/server/game/Maps/MapManager.cpp: a bitset   *)
(* of free ids and the next id to hand out, used for dungeon instances     *)
(* (which keep their id in the database until they are reset) and for      *)
(* battlegrounds and arenas (which give it back when their map goes).      *)
(*                                                                         *)
(* The world thread generates ids and resets dungeons between two map      *)
(* ticks; the map workers destroy instance maps during a tick, and call    *)
(* FreeInstanceId with no lock: its two assignments are steps of their     *)
(* own, and so are the load and the store of the bitset's word.            *)
(***************************************************************************)
EXTENDS Integers

CONSTANTS Worker,       \* map update threads
          MaxId,        \* the id at which the server stops (0xFFFFFFFF in the code)
          InstanceTable \* possible contents of the instance table at startup: sets of ids

ASSUME MaxIdAssumption == MaxId \in Nat
ASSUME TableAssumption ==
  \A ids \in InstanceTable : ids \subseteq 1 .. MaxId - 1

VARIABLES free, size, next,     \* _freeInstanceIds as the set of its bits, its size; _nextInstanceId
          toLoad,               \* rows of the instance table not yet registered
          saved,                \* ids of dungeon instances, until _ResetInstance (also when a
                                \* player's own reset has already deleted the save)
          dungeons, occupied,   \* ids of dungeon maps in memory, and of those with players
          matches, arenas,      \* ids of battlegrounds without, and with, a map
          dropped,              \* ids of battlegrounds deleted before they had a map
          world,                \* the world thread: loading, between ticks, or in a map tick
          step, id,             \* FreeInstanceId on a worker: where it is, its argument,
          oldNext, oldFree      \* and the values of next and free it has loaded

idVars == <<free, size, next>>
mapVars == <<saved, dungeons, occupied, matches, arenas, dropped>>
freeVars == <<step, id, oldNext, oldFree>>
instanceIdVars == <<idVars, toLoad, mapVars, world, freeVars>>

Ids == 0 .. MaxId
InUse == saved \cup matches \cup arenas
Lowest(i, S) == i \in S /\ \A j \in S : i <= j

IdsTypeOK ==
  /\ free \subseteq Nat /\ size \in Nat /\ next \in Nat
  /\ toLoad \subseteq Nat /\ saved \subseteq Nat
  /\ dungeons \subseteq Nat /\ occupied \subseteq dungeons
  /\ matches \subseteq Nat /\ arenas \subseteq Nat /\ dropped \subseteq Nat
  /\ world \in {"loading", "idle", "tick"}
  /\ step \in [Worker -> {"out", "storeNext", "loadBits", "storeBits"}]
  /\ id \in [Worker -> Nat] /\ oldNext \in [Worker -> Nat]
  /\ oldFree \in [Worker -> SUBSET Nat]

(* InitInstanceIds: one slot more than the highest id of the table. *)
IdsInit ==
  \E ids \in InstanceTable, top \in Ids :
    /\ IF ids = {} THEN top = 0 ELSE top \in ids /\ \A i \in ids : i <= top
    /\ toLoad = ids
    /\ size = top + 2
    /\ free = 1 .. size - 1
    /\ next = 1
    /\ saved = {} /\ dungeons = {} /\ occupied = {} /\ matches = {} /\ arenas = {}
    /\ dropped = {}
    /\ world = "loading"
    /\ step = [w \in Worker |-> "out"]
    /\ id = [w \in Worker |-> 0] /\ oldNext = [w \in Worker |-> 0]
    /\ oldFree = [w \in Worker |-> {}]

(* RegisterInstanceId, for the rows in ascending order. *)
RegisterInstanceId ==
  /\ world = "loading"
  /\ \E row \in toLoad :
       /\ Lowest(row, toLoad)
       /\ free' = free \ {row}
       /\ next' = IF next = row THEN next + 1 ELSE next
       /\ toLoad' = toLoad \ {row}
       /\ saved' = saved \cup {row}
  /\ UNCHANGED <<size, dungeons, occupied, matches, arenas, dropped, world, freeVars>>

TableLoaded ==
  /\ world = "loading" /\ toLoad = {}
  /\ world' = "idle"
  /\ UNCHANGED <<idVars, toLoad, mapVars, freeVars>>

(* Fault: the id that is handed out keeps its bit. *)
GenerateKeepingBit ==
  /\ next < MaxId
  /\ LET after == {i \in free : i > next} IN
       IF after = {}
       THEN next' = size /\ size' = size + 1 /\ free' = free \cup {size}
       ELSE \E n \in after : Lowest(n, after) /\ next' = n /\ UNCHANGED <<size, free>>

(* GenerateInstanceId hands out next, and moves next to the lowest free id *)
(* above it, growing the bitset by one free id when there is none.         *)
GenerateInstanceId ==
  /\ next < MaxId
  /\ LET after == {i \in free : i > next} IN
       IF after = {}
       THEN next' = size /\ size' = size + 1 /\ free' = (free \ {next}) \cup {size}
       ELSE \E n \in after : Lowest(n, after) /\ next' = n /\ free' = free \ {next} /\ UNCHANGED size

-----------------------------------------------------------------------------
(* The world thread between two map ticks. *)

(* A player without a bind enters a dungeon: the id is new, and the map of *)
(* that id is created unless there is one.                                 *)
EnterNew ==
  /\ world = "idle"
  /\ GenerateInstanceId
  /\ saved' = saved \cup {next}
  /\ dungeons' = dungeons \cup {next} /\ occupied' = occupied \cup {next}
  /\ UNCHANGED <<toLoad, matches, arenas, dropped, world, freeVars>>

(* A player with a bind enters; the map may have been unloaded. *)
EnterBound(i) ==
  /\ world = "idle" /\ i \in saved
  /\ dungeons' = dungeons \cup {i} /\ occupied' = occupied \cup {i}
  /\ UNCHANGED <<idVars, toLoad, saved, matches, arenas, dropped, world, freeVars>>

(* The last player leaves a dungeon. *)
LeaveDungeon(i) ==
  /\ world = "idle" /\ i \in occupied
  /\ occupied' = occupied \ {i}
  /\ UNCHANGED <<idVars, toLoad, saved, dungeons, matches, arenas, dropped, world, freeVars>>

(* InstanceSaveManager::_ResetInstance of a normal dungeon, scheduled when  *)
(* its last player left: the save goes and the id is free at once; the map, *)
(* if there is one, is unloaded by the next tick.                           *)
ResetDungeon(i) ==
  /\ world = "idle" /\ i \in saved \ occupied
  /\ saved' = saved \ {i}
  /\ next' = IF i < next THEN i ELSE next
  /\ free' = free \cup {i}
  /\ UNCHANGED <<size, toLoad, dungeons, occupied, matches, arenas, dropped, world, freeVars>>

(* A battleground is created; its map comes with its first player; one that *)
(* nobody entered is deleted and its id is not given back.                  *)
CreateBattleground ==
  /\ world = "idle"
  /\ GenerateInstanceId
  /\ matches' = matches \cup {next}
  /\ UNCHANGED <<toLoad, saved, dungeons, occupied, arenas, dropped, world, freeVars>>

EnterBattleground(i) ==
  /\ world = "idle" /\ i \in matches
  /\ matches' = matches \ {i} /\ arenas' = arenas \cup {i}
  /\ UNCHANGED <<idVars, toLoad, saved, dungeons, occupied, dropped, world, freeVars>>

DropBattleground(i) ==
  /\ world = "idle" /\ i \in matches
  /\ matches' = matches \ {i} /\ dropped' = dropped \cup {i}
  /\ UNCHANGED <<idVars, toLoad, saved, dungeons, occupied, arenas, world, freeVars>>

(* The map tick, at the end of which no worker is inside a map. *)
BeginTick ==
  /\ world = "idle"
  /\ world' = "tick"
  /\ UNCHANGED <<idVars, toLoad, mapVars, freeVars>>

EndTick ==
  /\ world = "tick" /\ \A w \in Worker : step[w] = "out"
  /\ world' = "idle"
  /\ UNCHANGED <<idVars, toLoad, mapVars, freeVars>>

-----------------------------------------------------------------------------
(* The workers during a tick. *)

(* DestroyInstance of an empty dungeon: its id stays with its save. *)
DestroyDungeon(w, i) ==
  /\ world = "tick" /\ step[w] = "out"
  /\ i \in dungeons \ occupied
  /\ dungeons' = dungeons \ {i}
  /\ UNCHANGED <<idVars, toLoad, saved, occupied, matches, arenas, dropped, world, freeVars>>

(* DestroyInstance of a battleground calls FreeInstanceId, which loads      *)
(* _nextInstanceId, stores the minimum, and sets the bit of the id.         *)
DestroyBattleground(w, i) ==
  /\ world = "tick" /\ step[w] = "out"
  /\ i \in arenas
  /\ arenas' = arenas \ {i}
  /\ id' = [id EXCEPT ![w] = i]
  /\ oldNext' = [oldNext EXCEPT ![w] = next]
  /\ step' = [step EXCEPT ![w] = "storeNext"]
  /\ UNCHANGED <<idVars, toLoad, saved, dungeons, occupied, matches, dropped, world, oldFree>>

StoreNext(w) ==
  /\ step[w] = "storeNext"
  /\ next' = IF id[w] < oldNext[w] THEN id[w] ELSE oldNext[w]
  /\ step' = [step EXCEPT ![w] = "loadBits"]
  /\ UNCHANGED <<free, size, toLoad, mapVars, world, id, oldNext, oldFree>>

LoadBits(w) ==
  /\ step[w] = "loadBits"
  /\ oldFree' = [oldFree EXCEPT ![w] = free]
  /\ step' = [step EXCEPT ![w] = "storeBits"]
  /\ UNCHANGED <<idVars, toLoad, mapVars, world, id, oldNext>>

(* Fault: the bit is cleared. *)
StoreClearedBit(w) ==
  /\ step[w] = "storeBits"
  /\ free' = oldFree[w] \ {id[w]}
  /\ step' = [step EXCEPT ![w] = "out"]
  /\ UNCHANGED <<size, next, toLoad, mapVars, world, id, oldNext, oldFree>>

StoreBits(w) ==
  /\ step[w] = "storeBits"
  /\ free' = oldFree[w] \cup {id[w]}
  /\ step' = [step EXCEPT ![w] = "out"]
  /\ UNCHANGED <<size, next, toLoad, mapVars, world, id, oldNext, oldFree>>

World ==
  \/ RegisterInstanceId \/ TableLoaded \/ EnterNew \/ CreateBattleground \/ BeginTick \/ EndTick
  \/ \E i \in Ids :
       EnterBound(i) \/ LeaveDungeon(i) \/ ResetDungeon(i) \/ EnterBattleground(i) \/ DropBattleground(i)

Work(w) ==
  \/ \E i \in Ids : DestroyDungeon(w, i) \/ DestroyBattleground(w, i)
  \/ StoreNext(w) \/ LoadBits(w) \/ StoreBits(w)

IdsNext == World \/ \E w \in Worker : Work(w)

IdsSpec == IdsInit /\ [][IdsNext]_instanceIdVars

-----------------------------------------------------------------------------
(***************************************************************************)
(* No id has two owners.  The id handed out next belongs to no dungeon     *)
(* with a save and to no battleground, and neither does any id marked free *)
(* (a later GenerateInstanceId will hand it out), whatever the races of    *)
(* the workers do to the two variables.                                    *)
(***************************************************************************)
NoIdHasTwoOwners ==
  /\ free \cap InUse = {}
  /\ next \notin InUse
  /\ saved \cap matches = {} /\ saved \cap arenas = {} /\ matches \cap arenas = {}

(***************************************************************************)
(* Between two ticks every id the bitset knows is free or in use, except   *)
(* those of battlegrounds that were never entered; and "the current        *)
(* NextInstanceId (which should be the lowest according to the logic in    *)
(* FreeInstanceId())" has its bit, inside the bitset as GenerateInstanceId *)
(* asserts, with no free id below it.  No freed id is lost, then, and none *)
(* is passed over until a lower one is freed.                              *)
(***************************************************************************)
NoIdIsLost ==
  world = "idle" =>
    /\ 1 .. size - 1 \subseteq free \cup InUse \cup dropped
    /\ Lowest(next, free) /\ next < size
=============================================================================
