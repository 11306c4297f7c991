--------------------------- MODULE InstanceProofs ---------------------------
(***************************************************************************)
(* Instance ids and instance saves: the two parts of the map manager's     *)
(* bookkeeping that outlive a map.                                         *)
(*                                                                         *)
(* Ids.  However many workers race in FreeInstanceId, no id gets two       *)
(* owners: a race can lose a freed id or misplace next, but next and the   *)
(* bits only ever take values that nobody owned when they were loaded, and *)
(* no id gets an owner while a worker is between a load and its store      *)
(* (RaceInv).  One worker loses no id (KeepInv).                           *)
(*                                                                         *)
(* Resets.  The tables run behind the memory by the writes still pending:  *)
(* MemoryInv follows them through those writes one by one (Leads), from    *)
(* the tables as they are to tables that agree with the memory, so that a  *)
(* crash after any of them leaves tables a restart can work from.          *)
(* ChainsInv says which event each map has in the queue and that it is     *)
(* early enough for every lockout.                                         *)
(***************************************************************************)
EXTENDS InstanceIds, InstanceResets, SequenceTheorems, FiniteSetTheorems,
        WellFoundedInduction, TLAPS

(* The bitset knows every id that is owned, and the next one. *)
RangeInv ==
  /\ next < size
  /\ \A i \in free \cup InUse : i < size
  /\ \A i \in toLoad : i + 1 < size

(* Rows are registered in ascending order, and before anything else happens. *)
LoadInv ==
  /\ world = "loading" => /\ \A i \in saved, j \in toLoad : i < j
                          /\ matches = {} /\ arenas = {}
  /\ world # "loading" => toLoad = {}

(* What a worker carries over its own steps stays unowned. *)
RaceInv ==
  \A w \in Worker :
    /\ step[w] # "out" => world = "tick" /\ id[w] < size /\ id[w] \notin InUse
    /\ step[w] = "storeNext" => oldNext[w] < size /\ oldNext[w] \notin InUse
    /\ step[w] = "storeBits" => /\ oldFree[w] \cap InUse = {}
                                /\ \A i \in oldFree[w] : i < size

IdsInv == IdsTypeOK /\ NoIdHasTwoOwners /\ RangeInv /\ LoadInv /\ RaceInv

(* The invariant holds initially. *)
LEMMA IdsInitInv == IdsInit => IdsInv
<1> SUFFICES ASSUME IdsInit PROVE IdsInv
  OBVIOUS
<1>1. PICK ids \in InstanceTable, top \in Ids :
        /\ IF ids = {} THEN top = 0 ELSE top \in ids /\ \A i \in ids : i <= top
        /\ toLoad = ids /\ size = top + 2 /\ free = 1 .. size - 1 /\ next = 1
        /\ saved = {} /\ dungeons = {} /\ occupied = {} /\ matches = {} /\ arenas = {}
        /\ dropped = {} /\ world = "loading"
        /\ step = [w \in Worker |-> "out"] /\ id = [w \in Worker |-> 0]
        /\ oldNext = [w \in Worker |-> 0] /\ oldFree = [w \in Worker |-> {}]
  BY DEF IdsInit
<1>2. toLoad \subseteq Nat /\ top \in Nat /\ \A i \in toLoad : i <= top
  BY <1>1, TableAssumption, MaxIdAssumption DEF Ids
<1>3. IdsTypeOK
  <2>1. size \in Nat /\ next \in Nat /\ free \subseteq Nat
    BY <1>1, <1>2
  <2>2. /\ step \in [Worker -> {"out", "storeNext", "loadBits", "storeBits"}]
        /\ id \in [Worker -> Nat] /\ oldNext \in [Worker -> Nat]
        /\ oldFree \in [Worker -> SUBSET Nat]
    BY <1>1
  <2>3. QED
    BY <1>1, <1>2, <2>1, <2>2, Zenon DEF IdsTypeOK
<1>4. NoIdHasTwoOwners /\ RangeInv /\ LoadInv /\ RaceInv
  BY <1>1, <1>2 DEF NoIdHasTwoOwners, RangeInv, LoadInv, RaceInv, InUse
<1>5. QED
  BY <1>3, <1>4 DEF IdsInv

(* GenerateInstanceId: the id it hands out, which is the old next, is marked, *)
(* and next moves to an id that nobody owns.                                  *)
LEMMA GenerateEffect ==
  ASSUME IdsInv, GenerateInstanceId
  PROVE  /\ next' \in Nat /\ size' \in Nat /\ free' \subseteq Nat
         /\ size <= size' /\ next' < size' /\ next' # next
         /\ next \notin free' /\ next' \notin InUse
         /\ free' \cap InUse = {} /\ \A i \in free' : i < size'
<1>1. /\ next \in Nat /\ size \in Nat /\ free \subseteq Nat /\ next < size
      /\ next \notin InUse /\ free \cap InUse = {} /\ \A i \in free \cup InUse : i < size
  BY DEF IdsInv, IdsTypeOK, NoIdHasTwoOwners, RangeInv
<1>2. size \notin InUse
  BY <1>1
<1>3. CASE {i \in free : i > next} = {}
  <2>1. next' = size /\ size' = size + 1 /\ free' = (free \ {next}) \cup {size}
    BY <1>3 DEF GenerateInstanceId
  <2>2. QED
    BY <1>1, <1>2, <2>1
<1>4. CASE {i \in free : i > next} # {}
  <2>1. next' \in free /\ next' > next /\ size' = size /\ free' = free \ {next}
    BY <1>4 DEF GenerateInstanceId, Lowest
  <2>2. QED
    BY <1>1, <2>1
<1>5. QED
  BY <1>3, <1>4

(* A step of the world thread. *)
LEMMA WorldStep == IdsInv /\ World => IdsInv'
<1> SUFFICES ASSUME IdsInv, World PROVE IdsInv'
  OBVIOUS
<1>0. world # "tick" => \A w \in Worker : step[w] = "out"
  BY DEF IdsInv, RaceInv
<1>1. CASE EnterNew \/ CreateBattleground
  <2>1. /\ world = "idle" /\ world' = world /\ GenerateInstanceId
        /\ toLoad' = toLoad /\ toLoad = {} /\ arenas' = arenas /\ dropped' = dropped
        /\ UNCHANGED freeVars
        /\ InUse' = InUse \cup {next}
        /\ \/ saved' = saved \cup {next} /\ matches' = matches
           \/ matches' = matches \cup {next} /\ saved' = saved
    BY <1>1 DEF EnterNew, CreateBattleground, InUse, IdsInv, LoadInv
  <2>2. IdsTypeOK'
    BY <1>1, <2>1, GenerateEffect DEF IdsInv, IdsTypeOK, freeVars, EnterNew, CreateBattleground
  <2>3. NoIdHasTwoOwners'
    <3>1. free' \cap InUse' = {} /\ next' \notin InUse'
      BY <2>1, GenerateEffect
    <3>2. next \notin saved /\ next \notin matches /\ next \notin arenas
      BY DEF IdsInv, NoIdHasTwoOwners, InUse
    <3>3. /\ saved' \cap matches' = {} /\ saved' \cap arenas' = {}
          /\ matches' \cap arenas' = {}
      BY <2>1, <3>2 DEF IdsInv, NoIdHasTwoOwners
    <3>4. QED  BY <3>1, <3>3 DEF NoIdHasTwoOwners
  <2>a. RangeInv'
    <3>1. next < size /\ (\A i \in InUse : i < size) /\ InUse \subseteq Nat /\ next \in Nat /\ size \in Nat
      BY DEF IdsInv, RangeInv, IdsTypeOK, InUse
    <3>2. \A i \in InUse' : i < size'
      BY <2>1, <3>1, GenerateEffect
    <3>3. QED  BY <2>1, <3>2, GenerateEffect DEF RangeInv
  <2>4. LoadInv' /\ RaceInv'
    BY <1>0, <2>1 DEF LoadInv, RaceInv, freeVars
  <2>5. QED  BY <2>2, <2>3, <2>a, <2>4 DEF IdsInv
<1>2. CASE RegisterInstanceId
  <2> USE DEF RegisterInstanceId, IdsInv, freeVars
  <2>1. IdsTypeOK'
    BY <1>2 DEF IdsTypeOK, Lowest
  <2>2. NoIdHasTwoOwners'
    BY <1>2 DEF IdsTypeOK, Lowest, NoIdHasTwoOwners, LoadInv, InUse
  <2>3. RangeInv'
    BY <1>2 DEF IdsTypeOK, Lowest, RangeInv, InUse
  <2>4. LoadInv'
    BY <1>2 DEF IdsTypeOK, Lowest, LoadInv
  <2>5. RaceInv'
    BY <1>0, <1>2 DEF RaceInv
  <2>6. QED  BY <2>1, <2>2, <2>3, <2>4, <2>5
<1>3. ASSUME NEW i \in Ids, ResetDungeon(i) PROVE IdsInv'
  <2> USE <1>3 DEF ResetDungeon, IdsInv, freeVars
  <2>1. i \in Nat /\ i \in saved /\ saved' = saved \ {i} /\ free' = free \cup {i}
    BY DEF IdsTypeOK
  <2>2. IdsTypeOK'
    BY <2>1 DEF IdsTypeOK
  <2>3. NoIdHasTwoOwners' /\ RangeInv'
    BY <2>1 DEF IdsTypeOK, NoIdHasTwoOwners, RangeInv, LoadInv, InUse
  <2>4. LoadInv' /\ RaceInv'
    BY <1>0 DEF LoadInv, RaceInv
  <2>5. QED  BY <2>2, <2>3, <2>4
<1>4. CASE \/ TableLoaded \/ BeginTick \/ EndTick
           \/ \E i \in Ids : \/ EnterBound(i) \/ LeaveDungeon(i)
                             \/ EnterBattleground(i) \/ DropBattleground(i)
  <2> USE DEF TableLoaded, BeginTick, EndTick, EnterBound, LeaveDungeon, EnterBattleground, DropBattleground,
              IdsInv, idVars, mapVars, freeVars
  <2>1. IdsTypeOK'
    BY <1>4, MaxIdAssumption DEF IdsTypeOK, Ids
  <2>2. NoIdHasTwoOwners' /\ RangeInv'
    BY <1>4 DEF IdsTypeOK, NoIdHasTwoOwners, RangeInv, InUse
  <2>3. LoadInv' /\ RaceInv'
    BY <1>0, <1>4 DEF LoadInv, RaceInv, InUse
  <2>4. QED  BY <2>1, <2>2, <2>3
<1>5. QED
  BY <1>1, <1>2, <1>3, <1>4 DEF World

(* A step of a worker, between those of any other worker. *)
LEMMA WorkerStep == ASSUME IdsInv, NEW w \in Worker, Work(w) PROVE IdsInv'
<1> USE DEF IdsInv, idVars, mapVars, freeVars
<1>1. ASSUME NEW i \in Ids, DestroyDungeon(w, i) PROVE IdsInv'
  <2> USE <1>1 DEF DestroyDungeon
  <2>1. IdsTypeOK'
    BY DEF IdsTypeOK
  <2>2. NoIdHasTwoOwners' /\ RangeInv' /\ LoadInv' /\ RaceInv'
    BY DEF NoIdHasTwoOwners, RangeInv, LoadInv, RaceInv, InUse
  <2>3. QED  BY <2>1, <2>2
<1>2. ASSUME NEW i \in Ids, DestroyBattleground(w, i) PROVE IdsInv'
  <2> USE <1>2 DEF DestroyBattleground
  <2>1. IdsTypeOK'
    BY DEF IdsTypeOK
  <2>2. InUse' = InUse \ {i} /\ i \in InUse /\ i < size
    BY DEF IdsTypeOK, NoIdHasTwoOwners, RangeInv, InUse
  <2>3. NoIdHasTwoOwners' /\ RangeInv' /\ LoadInv'
    BY <2>2 DEF NoIdHasTwoOwners, RangeInv, LoadInv
  <2>4. RaceInv'
    BY <2>2 DEF RaceInv, RangeInv, NoIdHasTwoOwners, IdsTypeOK
  <2>5. QED  BY <2>1, <2>3, <2>4
<1>3. CASE StoreNext(w) \/ LoadBits(w) \/ StoreBits(w)
  <2> USE <1>3 DEF StoreNext, LoadBits, StoreBits
  <2>1. IdsTypeOK'
    BY DEF IdsTypeOK
  <2>2. InUse' = InUse
    BY DEF InUse
  <2>3. NoIdHasTwoOwners' /\ RangeInv' /\ LoadInv'
    BY <2>2 DEF IdsTypeOK, NoIdHasTwoOwners, RangeInv, LoadInv, RaceInv
  <2>4. RaceInv'
    BY <2>2 DEF IdsTypeOK, NoIdHasTwoOwners, RangeInv, RaceInv
  <2>5. QED  BY <2>1, <2>3, <2>4
<1>4. QED
  BY <1>1, <1>2, <1>3 DEF Work

(* The inductive invariant, for any number of workers and any table. *)
THEOREM IdsInvariance == IdsSpec => []IdsInv
<1>1. IdsInv /\ UNCHANGED instanceIdVars => IdsInv'
  BY DEF IdsInv, IdsTypeOK, NoIdHasTwoOwners, RangeInv, LoadInv, RaceInv, InUse,
         instanceIdVars, idVars, mapVars, freeVars
<1>2. IdsInv /\ [IdsNext]_instanceIdVars => IdsInv'
  BY <1>1, WorldStep, WorkerStep DEF IdsNext
<1>3. QED
  BY IdsInitInv, <1>2, PTL DEF IdsSpec

(* Every variable keeps its type. *)
THEOREM IdsTypeCorrect == IdsSpec => []IdsTypeOK
<1>1. IdsInv => IdsTypeOK
  BY DEF IdsInv
<1>2. QED
  BY <1>1, IdsInvariance, PTL

(* GenerateInstanceId never hands out an id that a dungeon's save or a     *)
(* battleground has, although FreeInstanceId runs unlocked on any number   *)
(* of workers.                                                             *)
THEOREM IdsHaveOneOwner == IdsSpec => []NoIdHasTwoOwners
<1>1. IdsInv => NoIdHasTwoOwners
  BY DEF IdsInv
<1>2. QED
  BY <1>1, IdsInvariance, PTL
-----------------------------------------------------------------------------
(***************************************************************************)
(* With a single worker no freed id is lost either.  What KeepInv adds     *)
(* says how far the two assignments of FreeInstanceId are: the id they are *)
(* about is the only one that may be missing in the bitset, and once next  *)
(* is stored it is the lowest of the free ids and that one.                *)
(***************************************************************************)
OneWorker == \A v, w \in Worker : v = w

Missing == {id[w] : w \in {v \in Worker : step[v] # "out"}}

KeepInv ==
  /\ world = "loading" => dropped = {}
  /\ 1 .. size - 1 \subseteq free \cup InUse \cup dropped \cup Missing
  /\ (\A w \in Worker : step[w] = "out") => Lowest(next, free)
  /\ \A w \in Worker :
       /\ step[w] = "storeNext" => oldNext[w] = next /\ Lowest(next, free)
       /\ step[w] \in {"loadBits", "storeBits"} => Lowest(next, free \cup {id[w]})
       /\ step[w] = "storeBits" => oldFree[w] = free

(* The bitset begins with all its ids, of which the table takes some. *)
LEMMA InitKeeps == IdsInit => KeepInv
<1> SUFFICES ASSUME IdsInit PROVE KeepInv
  OBVIOUS
<1>1. PICK top \in Ids :
        /\ size = top + 2 /\ free = 1 .. size - 1 /\ next = 1 /\ dropped = {}
        /\ step = [w \in Worker |-> "out"]
  BY DEF IdsInit
<1>2. top \in Nat
  BY <1>1, MaxIdAssumption DEF Ids
<1>3. Lowest(next, free)
  BY <1>1, <1>2 DEF Lowest
<1>4. QED
  BY <1>1, <1>3 DEF KeepInv

(* No worker is in FreeInstanceId. *)
LEMMA NoneMissing ==
  ASSUME \A w \in Worker : step[w] = "out"
  PROVE  Missing = {}
BY DEF Missing

(* GenerateInstanceId moves next to the lowest of the ids that are left. *)
LEMMA GenerateKeeps ==
  ASSUME IdsInv, Lowest(next, free), GenerateInstanceId
  PROVE  Lowest(next', free') /\ 1 .. size' - 1 \subseteq 1 .. size - 1 \cup {size}
         /\ free \subseteq free' \cup {next} /\ (size' # size => size \in free')
<1>1. next \in Nat /\ size \in Nat /\ free \subseteq Nat /\ next < size /\ \A j \in free : next <= j /\ j < size
  BY DEF IdsInv, IdsTypeOK, RangeInv, Lowest
<1>2. CASE {i \in free : i > next} = {}
  <2>1. next' = size /\ size' = size + 1 /\ free' = (free \ {next}) \cup {size}
    BY <1>2 DEF GenerateInstanceId
  <2>2. QED
    BY <1>1, <1>2, <2>1 DEF Lowest
<1>3. CASE {i \in free : i > next} # {}
  <2>1. PICK n \in {i \in free : i > next} :
          Lowest(n, {i \in free : i > next}) /\ next' = n /\ free' = free \ {next} /\ size' = size
    BY <1>3 DEF GenerateInstanceId
  <2>2. Lowest(next', free')
    BY <1>1, <2>1 DEF Lowest
  <2>3. QED
    BY <1>1, <2>1, <2>2
<1>4. QED
  BY <1>2, <1>3

(* A step of the world thread, outside of which no worker is. *)
LEMMA WorldKeeps == IdsInv /\ KeepInv /\ World => KeepInv'
<1> SUFFICES ASSUME IdsInv, KeepInv, World PROVE KeepInv'
  OBVIOUS
<1>0. /\ world # "tick" => \A w \in Worker : step[w] = "out"
      /\ next \in Nat /\ size \in Nat /\ free \subseteq Nat /\ InUse \subseteq Nat
      /\ next < size /\ \A i \in free : i < size
  BY DEF IdsInv, RaceInv, IdsTypeOK, RangeInv, InUse
<1>1. CASE EnterNew \/ CreateBattleground
  <2>1. /\ world = "idle" /\ world' = world /\ GenerateInstanceId /\ dropped' = dropped
        /\ step' = step /\ InUse' = InUse \cup {next}
    BY <1>1 DEF EnterNew, CreateBattleground, InUse, freeVars
  <2>2. \A w \in Worker : step[w] = "out" /\ step'[w] = "out"
    BY <1>0, <2>1
  <2>3. Missing = {} /\ Lowest(next, free)
    BY <2>2, NoneMissing DEF KeepInv
  <2>4. 1 .. size - 1 \subseteq free \cup InUse \cup dropped
    BY <2>3 DEF KeepInv
  <2>5. 1 .. size' - 1 \subseteq free' \cup InUse' \cup dropped'
    <3>1. 1 .. size - 1 \subseteq free' \cup InUse' \cup dropped'
      BY <2>1, <2>3, <2>4, GenerateKeeps
    <3>2. \A i \in 1 .. size' - 1 : i \in 1 .. size - 1 \/ (i = size /\ size' # size)
      BY <1>0, <2>1, <2>3, GenerateKeeps, GenerateEffect
    <3>3. QED
      BY <2>1, <2>3, <3>1, <3>2, GenerateKeeps
  <2>6. QED
    BY <2>1, <2>2, <2>3, <2>5, GenerateKeeps DEF KeepInv
<1>2. CASE RegisterInstanceId
  <2>1. PICK row \in toLoad :
          /\ Lowest(row, toLoad) /\ free' = free \ {row} /\ saved' = saved \cup {row}
          /\ next' = IF next = row THEN next + 1 ELSE next
    BY <1>2 DEF RegisterInstanceId
  <2>2. /\ world = "loading" /\ world' = world /\ UNCHANGED <<size, matches, arenas, dropped, freeVars>>
        /\ row \in Nat /\ row + 1 < size /\ matches = {} /\ arenas = {} /\ \A i \in saved : i < row
    BY <1>2, <2>1 DEF RegisterInstanceId, IdsInv, IdsTypeOK, LoadInv, RangeInv
  <2>3. /\ \A w \in Worker : step[w] = "out" /\ step'[w] = "out"
        /\ Missing = {} /\ dropped = {} /\ Lowest(next, free)
    BY <1>0, <2>2, NoneMissing DEF KeepInv, freeVars
  <2>4. 1 .. size - 1 \subseteq free \cup saved
    BY <2>2, <2>3 DEF KeepInv, InUse
  <2>5. 1 .. size' - 1 \subseteq free' \cup InUse' \cup dropped'
    BY <2>1, <2>2, <2>4 DEF InUse
  <2>6. Lowest(next', free')
    <3>1. CASE next = row
      <4>1. row + 1 \in 1 .. size - 1 /\ row + 1 \notin saved
        BY <1>0, <2>2
      <4>2. row + 1 \in free
        BY <2>4, <4>1
      <4>3. QED
        BY <1>0, <2>1, <2>2, <2>3, <3>1, <4>2 DEF Lowest
    <3>2. CASE next # row
      BY <1>0, <2>1, <2>3, <3>2 DEF Lowest
    <3>3. QED
      BY <3>1, <3>2
  <2>7. QED
    BY <2>2, <2>3, <2>5, <2>6 DEF KeepInv
<1>3. ASSUME NEW i \in Ids, ResetDungeon(i) PROVE KeepInv'
  <2>1. /\ world = "idle" /\ world' = world /\ i \in saved /\ saved' = saved \ {i}
        /\ free' = free \cup {i} /\ next' = IF i < next THEN i ELSE next
        /\ UNCHANGED <<size, matches, arenas, dropped, freeVars>>
    BY <1>3 DEF ResetDungeon
  <2>2. i \in Nat
    BY <2>1 DEF IdsInv, IdsTypeOK
  <2>3. /\ \A w \in Worker : step[w] = "out" /\ step'[w] = "out"
        /\ Missing = {} /\ Lowest(next, free)
    BY <1>0, <2>1, NoneMissing DEF KeepInv, freeVars
  <2>4. 1 .. size' - 1 \subseteq free' \cup InUse' \cup dropped'
    BY <2>1, <2>3 DEF KeepInv, InUse
  <2>5. Lowest(next', free')
    BY <1>0, <2>1, <2>2, <2>3 DEF Lowest
  <2>6. QED
    BY <2>1, <2>3, <2>4, <2>5 DEF KeepInv
<1>4. CASE \/ TableLoaded \/ BeginTick \/ EndTick
           \/ \E i \in Ids : \/ EnterBound(i) \/ LeaveDungeon(i)
                             \/ EnterBattleground(i) \/ DropBattleground(i)
  <2>1. /\ UNCHANGED <<idVars, freeVars>> /\ InUse \cup dropped \subseteq InUse' \cup dropped'
        /\ world' = "loading" => world = "loading" /\ dropped' = dropped
    BY <1>4 DEF TableLoaded, BeginTick, EndTick, EnterBound, LeaveDungeon, EnterBattleground, DropBattleground,
                idVars, mapVars, freeVars, InUse
  <2>2. Missing' = Missing
    BY <2>1 DEF Missing, freeVars
  <2>3. 1 .. size' - 1 \subseteq free' \cup InUse' \cup dropped' \cup Missing'
    BY <2>1, <2>2 DEF KeepInv, idVars
  <2>4. QED
    BY <2>1, <2>3 DEF KeepInv, idVars, freeVars
<1>5. QED
  BY <1>1, <1>2, <1>3, <1>4 DEF World

(* A step of the only worker. *)
LEMMA WorkerKeeps ==
  ASSUME OneWorker, IdsInv, KeepInv, NEW w \in Worker, Work(w)
  PROVE  KeepInv'
<1>0. /\ Worker = {w} /\ next \in Nat /\ free \subseteq Nat
      /\ step \in [Worker -> {"out", "storeNext", "loadBits", "storeBits"}] /\ id \in [Worker -> Nat]
      /\ oldNext \in [Worker -> Nat] /\ oldFree \in [Worker -> SUBSET Nat]
  BY DEF OneWorker, IdsInv, IdsTypeOK
<1>m. Missing = (IF step[w] = "out" THEN {} ELSE {id[w]})
  BY <1>0 DEF Missing
<1>n. Missing' = (IF step'[w] = "out" THEN {} ELSE {id'[w]})
  BY <1>0 DEF Missing
<1>1. ASSUME NEW i \in Ids, DestroyDungeon(w, i) PROVE KeepInv'
  <2>1. UNCHANGED <<idVars, freeVars, saved, matches, arenas, dropped, world>>
    BY <1>1 DEF DestroyDungeon
  <2>2. QED
    BY <2>1 DEF KeepInv, InUse, Missing, idVars, freeVars
<1>2. ASSUME NEW i \in Ids, DestroyBattleground(w, i) PROVE KeepInv'
  <2>1. /\ world = "tick" /\ world' = world /\ step[w] = "out" /\ arenas' = arenas \ {i}
        /\ step'[w] = "storeNext" /\ id'[w] = i /\ oldNext'[w] = next
        /\ UNCHANGED <<idVars, saved, matches, dropped>>
    BY <1>0, <1>2 DEF DestroyBattleground
  <2>2. Lowest(next, free)
    BY <1>0, <2>1 DEF KeepInv
  <2>3. 1 .. size' - 1 \subseteq free' \cup InUse' \cup dropped' \cup Missing'
    BY <1>m, <1>n, <2>1 DEF KeepInv, InUse, idVars
  <2>4. QED
    BY <1>0, <2>1, <2>2, <2>3 DEF KeepInv, idVars
<1>3. CASE StoreNext(w)
  <2>1. /\ step[w] = "storeNext" /\ step'[w] = "loadBits" /\ id'[w] = id[w]
        /\ next' = IF id[w] < oldNext[w] THEN id[w] ELSE oldNext[w]
        /\ UNCHANGED <<free, size, saved, matches, arenas, dropped, world>>
    BY <1>0, <1>3 DEF StoreNext, mapVars
  <2>2. oldNext[w] = next /\ Lowest(next, free) /\ id[w] \in Nat
    BY <1>0, <2>1 DEF KeepInv
  <2>3. Lowest(next', free' \cup {id'[w]})
    BY <1>0, <2>1, <2>2 DEF Lowest
  <2>4. 1 .. size' - 1 \subseteq free' \cup InUse' \cup dropped' \cup Missing'
    BY <1>m, <1>n, <2>1 DEF KeepInv, InUse
  <2>5. QED
    BY <1>0, <2>1, <2>3, <2>4 DEF KeepInv
<1>4. CASE LoadBits(w)
  <2>1. /\ step[w] = "loadBits" /\ step'[w] = "storeBits" /\ id'[w] = id[w] /\ oldFree'[w] = free
        /\ UNCHANGED <<idVars, saved, matches, arenas, dropped, world>>
    BY <1>0, <1>4 DEF LoadBits, mapVars
  <2>2. 1 .. size' - 1 \subseteq free' \cup InUse' \cup dropped' \cup Missing'
    BY <1>m, <1>n, <2>1 DEF KeepInv, InUse, idVars
  <2>3. QED
    BY <1>0, <2>1, <2>2 DEF KeepInv, idVars
<1>5. CASE StoreBits(w)
  <2>1. /\ step[w] = "storeBits" /\ step'[w] = "out" /\ free' = oldFree[w] \cup {id[w]}
        /\ UNCHANGED <<size, next, saved, matches, arenas, dropped, world>>
    BY <1>0, <1>5 DEF StoreBits, mapVars
  <2>2. oldFree[w] = free /\ Lowest(next, free \cup {id[w]})
    BY <1>0, <2>1 DEF KeepInv
  <2>3. 1 .. size' - 1 \subseteq free' \cup InUse' \cup dropped' \cup Missing'
    BY <1>m, <1>n, <2>1, <2>2 DEF KeepInv, InUse
  <2>4. QED
    BY <1>0, <2>1, <2>2, <2>3 DEF KeepInv
<1>6. QED
  BY <1>1, <1>2, <1>3, <1>4, <1>5 DEF Work

(***************************************************************************)
(* With one map update thread (or none: then the world thread is the one   *)
(* that does its work) no id that FreeInstanceId or a reset gives back is lost, and  *)
(* the next id is the lowest free one, for any table and any number of     *)
(* ids.  With more threads it is not so.                                   *)
(***************************************************************************)
THEOREM OneWorkerLosesNoId ==
  ASSUME OneWorker
  PROVE  IdsSpec => []NoIdIsLost
<1>1. IdsInv /\ KeepInv /\ UNCHANGED instanceIdVars => KeepInv'
  BY DEF KeepInv, InUse, Missing, instanceIdVars, idVars, mapVars, freeVars
<1>2. IdsInv /\ KeepInv /\ [IdsNext]_instanceIdVars => KeepInv'
  BY <1>1, WorldKeeps, WorkerKeeps DEF IdsNext
<1>3. IdsInv /\ KeepInv => NoIdIsLost
  <2> SUFFICES ASSUME IdsInv, KeepInv, world = "idle" PROVE NoIdIsLost
    BY DEF NoIdIsLost
  <2>1. \A w \in Worker : step[w] = "out"
    BY DEF IdsInv, RaceInv
  <2>2. QED
    BY <2>1, NoneMissing DEF NoIdIsLost, KeepInv, IdsInv, RangeInv
<1>4. QED
  BY InitKeeps, IdsInvariance, <1>2, <1>3, PTL DEF IdsSpec

LEMMA InsertAtEntries ==
  ASSUME NEW T, NEW s \in Seq(T), NEW i \in 1 .. Len(s) + 1, NEW e \in T
  PROVE  /\ InsertAt(s, i, e) \in Seq(T)
         /\ Len(InsertAt(s, i, e)) = Len(s) + 1
         /\ \A j \in 1 .. i - 1 : InsertAt(s, i, e)[j] = s[j]
         /\ InsertAt(s, i, e)[i] = e
         /\ \A j \in i + 1 .. Len(s) + 1 : InsertAt(s, i, e)[j] = s[j - 1]
<1> DEFINE a == SubSeq(s, 1, i - 1)
           b == SubSeq(s, i, Len(s))
           c == a \o <<e>>
<1>1. a \in Seq(T) /\ Len(a) = i - 1 /\ \A j \in 1 .. i - 1 : a[j] = s[j]
  OBVIOUS
<1>2. b \in Seq(T) /\ Len(b) = Len(s) - i + 1 /\ \A j \in 1 .. Len(s) - i + 1 : b[j] = s[j + i - 1]
  OBVIOUS
<1> HIDE DEF a, b
<1>3. c \in Seq(T) /\ Len(c) = i /\ c[i] = e /\ \A j \in 1 .. i - 1 : c[j] = a[j]
  BY <1>1
<1> HIDE DEF c
<1>4. /\ c \o b \in Seq(T) /\ Len(c \o b) = Len(s) + 1
      /\ \A j \in 1 .. i : (c \o b)[j] = c[j]
      /\ \A j \in i + 1 .. Len(s) + 1 : (c \o b)[j] = b[j - i]
  BY <1>2, <1>3
<1>5. /\ \A j \in 1 .. i - 1 : (c \o b)[j] = s[j]
      /\ (c \o b)[i] = e
      /\ \A j \in i + 1 .. Len(s) + 1 : (c \o b)[j] = s[j - 1]
  <2>1. \A j \in 1 .. i - 1 : (c \o b)[j] = s[j]
    BY <1>1, <1>3, <1>4
  <2>2. (c \o b)[i] = e
    BY <1>3, <1>4
  <2>3. \A j \in i + 1 .. Len(s) + 1 : (c \o b)[j] = s[j - 1]
    BY <1>2, <1>4
  <2>4. QED
    BY <2>1, <2>2, <2>3
<1>6. InsertAt(s, i, e) = c \o b
  BY DEF InsertAt, a, b, c
<1>7. QED
  BY <1>4, <1>5, <1>6

LEMMA RemoveAtEntries ==
  ASSUME NEW T, NEW s \in Seq(T), NEW i \in 1 .. Len(s)
  PROVE  /\ RemoveAt(s, i) \in Seq(T)
         /\ Len(RemoveAt(s, i)) = Len(s) - 1
         /\ \A j \in 1 .. i - 1 : RemoveAt(s, i)[j] = s[j]
         /\ \A j \in i .. Len(s) - 1 : RemoveAt(s, i)[j] = s[j + 1]
<1> DEFINE a == SubSeq(s, 1, i - 1)
           b == SubSeq(s, i + 1, Len(s))
<1>1. a \in Seq(T) /\ Len(a) = i - 1 /\ \A j \in 1 .. i - 1 : a[j] = s[j]
  OBVIOUS
<1>2. b \in Seq(T) /\ Len(b) = Len(s) - i /\ \A j \in 1 .. Len(s) - i : b[j] = s[j + i]
  OBVIOUS
<1> HIDE DEF a, b
<1>3. /\ a \o b \in Seq(T) /\ Len(a \o b) = Len(a) + Len(b)
      /\ \A j \in 1 .. Len(a) + Len(b) : (a \o b)[j] = IF j <= Len(a) THEN a[j] ELSE b[j - Len(a)]
  BY <1>1, <1>2, ConcatProperties
<1>4. ASSUME NEW j \in i .. Len(s) - 1 PROVE (a \o b)[j] = s[j + 1]
  <2>1. (a \o b)[j] = b[j - (i - 1)]
    BY <1>1, <1>2, <1>3
  <2>2. j - (i - 1) \in 1 .. Len(s) - i /\ (j - (i - 1)) + i = j + 1
    OBVIOUS
  <2>3. QED
    BY <1>2, <2>1, <2>2
<1>5. RemoveAt(s, i) = a \o b
  BY DEF RemoveAt, a, b
<1>6. Len(a \o b) = Len(s) - 1 /\ a \o b \in Seq(T)
  BY <1>1, <1>2, <1>3
<1>7. \A j \in 1 .. i - 1 : (a \o b)[j] = s[j]
  BY <1>1, <1>2, <1>3
<1>8. QED
  BY <1>4, <1>5, <1>6, <1>7

(* A set of numbers that is not empty has a least one. *)
LEMMA LeastNumber ==
  ASSUME NEW T \in SUBSET Nat, T # {}
  PROVE  \E m \in T : (\A k \in T : m <= k) /\ Min(T) \in T
<1>1. PICK n \in T : TRUE
  OBVIOUS
<1> DEFINE below(m) == T \cap (0 .. m)
           W == {below(m) : m \in T \cap (0 .. n)}
           R == StrictSubsetOrdering(Nat)
<1>2. IsWellFoundedOn(R, FiniteSubsetsOf(Nat))
  BY FS_StrictSubsetOrderingWellFounded
<1>3. \A m \in Nat : IsFiniteSet(below(m)) /\ below(m) \in SUBSET Nat
  <2> SUFFICES ASSUME NEW m \in Nat PROVE IsFiniteSet(below(m)) /\ below(m) \in SUBSET Nat
    OBVIOUS
  <2>1. IsFiniteSet(0 .. m) /\ below(m) \in SUBSET (0 .. m) /\ below(m) \in SUBSET Nat
    BY FS_Interval
  <2> HIDE DEF below
  <2>2. QED
    BY <2>1, FS_Subset
<1>4. W \subseteq FiniteSubsetsOf(Nat) /\ W # {}
  <2>1. \A m \in T \cap (0 .. n) : below(m) \in FiniteSubsetsOf(Nat)
    BY <1>3 DEF FiniteSubsetsOf
  <2>2. n \in T \cap (0 .. n)
    BY <1>1
  <2> HIDE DEF below
  <2>3. QED
    BY <2>1, <2>2
<1> HIDE DEF W, R
<1>5. PICK A \in W : \A B \in W : ~(<<B, A>> \in R)
  BY <1>2, <1>4, WFMin
<1>6. PICK m \in T \cap (0 .. n) : A = below(m)
  BY DEF W
<1>7. \A k \in T : m <= k
  <2> SUFFICES ASSUME NEW k \in T, k < m PROVE FALSE
    OBVIOUS
  <2>1. k \in 0 .. n /\ m \in Nat /\ k \in Nat /\ m \in T
    BY <1>1, <1>6
  <2>2. below(k) \in W
    BY <2>1 DEF W
  <2>3. below(k) \subseteq below(m) /\ m \in below(m) /\ m \notin below(k)
    BY <2>1
  <2>4. <<below(k), below(m)>> \in R
    BY <2>3 DEF R, StrictSubsetOrdering
  <2>5. QED
    BY <1>5, <1>6, <2>2, <2>4
<1>8. Min(T) \in T
  BY <1>6, <1>7 DEF Min
<1>9. QED
  BY <1>6, <1>7 DEF Min

-----------------------------------------------------------------------------
(* The queue of events. *)

Sorted(q) == \A k, l \in DOMAIN q : k < l => q[k].at <= q[l].at

(* The events of r at the places R are those of q at the places S. *)
OneForOne(q, S, r, R) ==
  \E f \in [R -> S] :
    /\ \A k, l \in R : f[k] = f[l] => k = l
    /\ \A s \in S : \E k \in R : f[k] = s
    /\ \A k \in R : r[k] = q[f[k]]

LEMMA SameOneForOne ==
  ASSUME NEW q, NEW S PROVE OneForOne(q, S, q, S)
<1> DEFINE f == [k \in S |-> k]
<1>1. f \in [S -> S] /\ \A k \in S : f[k] = k
  OBVIOUS
<1> HIDE DEF f
<1>2. QED
  BY <1>1 DEF OneForOne

(* The first event is dropped. *)
LEMMA TailEffect ==
  ASSUME NEW q \in Seq(Event), Sorted(q), q # <<>>
  PROVE  /\ Tail(q) \in Seq(Event) /\ Sorted(Tail(q)) /\ 1 \in DOMAIN q
         /\ OneForOne(q, DOMAIN q \ {1}, Tail(q), DOMAIN Tail(q))
<1> DEFINE r == Tail(q)
<1>1. DOMAIN q = 1 .. Len(q) /\ Len(q) \in Nat /\ Len(q) > 0
  OBVIOUS
<1>2. r \in Seq(Event) /\ DOMAIN r = 1 .. Len(q) - 1 /\ \A k \in 1 .. Len(q) - 1 : r[k] = q[k + 1]
  <2>1. Tail(q) \in Seq(Event) /\ Len(Tail(q)) = Len(q) - 1 /\ \A k \in 1 .. Len(Tail(q)) : Tail(q)[k] = q[k + 1]
    BY HeadTailProperties, ElementOfSeq
  <2>2. QED
    BY <1>1, <2>1
<1> HIDE DEF r
<1> DEFINE f == [k \in DOMAIN r |-> k + 1]
<1>3. f \in [DOMAIN r -> DOMAIN q \ {1}] /\ \A k \in DOMAIN r : f[k] = k + 1
  BY <1>1, <1>2
<1> HIDE DEF f
<1>4. \A k, l \in DOMAIN r : f[k] = f[l] => k = l
  BY <1>1, <1>2, <1>3
<1>5. \A s \in DOMAIN q \ {1} : \E k \in DOMAIN r : f[k] = s
  <2> SUFFICES ASSUME NEW s \in DOMAIN q \ {1} PROVE \E k \in DOMAIN r : f[k] = s
    OBVIOUS
  <2>1. s - 1 \in DOMAIN r /\ f[s - 1] = s
    BY <1>1, <1>2, <1>3
  <2>2. QED
    BY <2>1
<1>6. \A k \in DOMAIN r : r[k] = q[f[k]]
  BY <1>2, <1>3
<1>7. OneForOne(q, DOMAIN q \ {1}, r, DOMAIN r)
  BY <1>3, <1>4, <1>5, <1>6 DEF OneForOne
<1>8. Sorted(r)
  <2> SUFFICES ASSUME NEW k \in DOMAIN r, NEW l \in DOMAIN r, k < l PROVE r[k].at <= r[l].at
    BY DEF Sorted
  <2>1. k + 1 \in DOMAIN q /\ l + 1 \in DOMAIN q /\ k + 1 < l + 1 /\ r[k] = q[k + 1] /\ r[l] = q[l + 1]
    BY <1>1, <1>2
  <2>2. QED
    BY <2>1 DEF Sorted
<1>9. 1 \in DOMAIN q
  BY <1>1
<1>10. QED
  BY <1>2, <1>7, <1>8, <1>9 DEF r

(* The queue r is q with the event e.  Without its first event it is q, or *)
(* q with e and without the first.                                         *)
Inserted(q, r, e) ==
  \E p \in DOMAIN r :
    /\ r[p] = e
    /\ OneForOne(q, DOMAIN q, r, DOMAIN r \ {p})
    /\ p = 1 => Tail(r) = q
    /\ p # 1 =>
         /\ q # <<>>
         /\ \E x \in DOMAIN Tail(r) :
              /\ Tail(r)[x] = e
              /\ OneForOne(q, DOMAIN q \ {1}, Tail(r), DOMAIN Tail(r) \ {x})
    /\ q # <<>> /\ q[1].at <= e.at => p # 1

(* The queue r is q without an event of instance i, if there is one. *)
Removed(q, r, i) ==
  \/ r = q /\ \A k \in DOMAIN q : q[k].id # i
  \/ \E x \in DOMAIN q : q[x].id = i /\ OneForOne(q, DOMAIN q \ {x}, r, DOMAIN r)

(* What schedules an event adds it, behind the events of its time. *)
LEMMA ScheduledPlace ==
  ASSUME NEW q \in Seq(Event), Sorted(q), NEW t \in Int
  PROVE  LET P == {k \in DOMAIN q : q[k].at <= t} IN
         /\ Cardinality(P) \in 0 .. Len(q)
         /\ P = 1 .. Cardinality(P)
<1> DEFINE P == {k \in DOMAIN q : q[k].at <= t}
           L == {k \in DOMAIN q : ~(q[k].at <= t)}
<1>1. DOMAIN q = 1 .. Len(q) /\ Len(q) \in Nat /\ \A k \in DOMAIN q : q[k].at \in Int
  <2>1. DOMAIN q = 1 .. Len(q) /\ Len(q) \in Nat /\ \A k \in DOMAIN q : q[k] \in Event
    OBVIOUS
  <2>2. QED
    BY <2>1 DEF Event
<1>2. \E n \in 0 .. Len(q) : P = 1 .. n
  <2>1. CASE L = {}
    BY <1>1, <2>1
  <2>2. CASE L # {}
    <3>1. L \in SUBSET Nat
      BY <1>1
    <3> HIDE DEF L
    <3>2. PICK c \in L : \A k \in L : c <= k
      BY <2>2, <3>1, LeastNumber
    <3> USE DEF L
    <3>3. c \in 1 .. Len(q) /\ c - 1 \in 0 .. Len(q) /\ q[c].at > t
      BY <1>1
    <3>4. \A k \in DOMAIN q : q[k].at <= t <=> k < c
      <4> SUFFICES ASSUME NEW k \in DOMAIN q PROVE q[k].at <= t <=> k < c
        OBVIOUS
      <4>1. CASE k < c
        BY <1>1, <3>2, <3>3, <4>1
      <4>2. CASE k = c
        BY <1>1, <3>3, <4>2
      <4>3. CASE k > c
        BY <1>1, <3>3, <4>3 DEF Sorted
      <4>4. QED
        BY <1>1, <3>3, <4>1, <4>2, <4>3
    <3>5. P = 1 .. c - 1
      BY <1>1, <3>3, <3>4
    <3>6. QED
      BY <3>3, <3>5
  <2>3. QED
    BY <2>1, <2>2
<1>3. PICK n \in 0 .. Len(q) : P = 1 .. n
  BY <1>2
<1> HIDE DEF P
<1>4. Cardinality(1 .. n) = n
  <2>1. n \in Nat
    BY <1>1
  <2>2. Cardinality(1 .. n) = IF 1 > n THEN 0 ELSE n - 1 + 1
    BY <2>1, FS_Interval
  <2>3. QED
    BY <2>1, <2>2
<1>5. QED
  BY <1>3, <1>4 DEF P

LEMMA ScheduledEffect ==
  ASSUME NEW q \in Seq(Event), Sorted(q), NEW t \in Int, NEW type \in 0 .. 4, NEW m \in Map,
         NEW i \in Id \cup {NoId}
  PROVE  LET r == Scheduled(q, t, type, m, i) IN
         /\ r \in Seq(Event) /\ Sorted(r)
         /\ Inserted(q, r, [at |-> t, type |-> type, map |-> m, id |-> i])
         /\ Tail(r) \in Seq(Event) /\ Sorted(Tail(r))
<1> DEFINE e == [at |-> t, type |-> type, map |-> m, id |-> i]
           r == Scheduled(q, t, type, m, i)
           P == {k \in DOMAIN q : q[k].at <= t}
           n == Cardinality(P)
<1>1. n \in 0 .. Len(q) /\ P = 1 .. n
  BY ScheduledPlace
<1>2. e \in Event /\ e.at = t
  BY DEF Event
<1>3. r = InsertAt(q, n + 1, e)
  BY DEF Scheduled
<1>4. \A k \in DOMAIN q : q[k].at <= t <=> k <= n
  <2>1. \A k \in DOMAIN q : k \in P <=> k \in 1 .. n
    BY <1>1
  <2> HIDE DEF n
  <2>2. QED
    BY <1>1, <2>1
<1> HIDE DEF e, r, P, n
<1>5. PICK c \in 1 .. Len(q) + 1 : c = n + 1
  BY <1>1
<1>6. /\ r \in Seq(Event) /\ Len(r) = Len(q) + 1 /\ DOMAIN r = 1 .. Len(q) + 1
      /\ \A j \in 1 .. c - 1 : r[j] = q[j]
      /\ r[c] = e
      /\ \A j \in c + 1 .. Len(q) + 1 : r[j] = q[j - 1]
  <2>1. r = InsertAt(q, c, e)
    BY <1>3, <1>5
  <2>2. /\ InsertAt(q, c, e) \in Seq(Event) /\ Len(InsertAt(q, c, e)) = Len(q) + 1
        /\ \A j \in 1 .. c - 1 : InsertAt(q, c, e)[j] = q[j]
        /\ InsertAt(q, c, e)[c] = e
        /\ \A j \in c + 1 .. Len(q) + 1 : InsertAt(q, c, e)[j] = q[j - 1]
    BY <1>2, <1>5, InsertAtEntries
  <2>3. DOMAIN InsertAt(q, c, e) = 1 .. Len(q) + 1
    BY <2>2
  <2>4. QED
    BY <2>1, <2>2, <2>3
<1>7. \A k \in DOMAIN q : q[k].at <= t <=> k < c
  BY <1>1, <1>4, <1>5
<1>8. DOMAIN q = 1 .. Len(q) /\ Len(q) \in Nat /\ c \in Nat /\ (\A k \in DOMAIN q : q[k] \in Event)
  OBVIOUS
<1>9. \A k \in DOMAIN q : q[k].at \in Int
  BY <1>8 DEF Event
<1>10. Sorted(r)
  <2> SUFFICES ASSUME NEW k \in DOMAIN r, NEW l \in DOMAIN r, k < l PROVE r[k].at <= r[l].at
    BY DEF Sorted
  <2>1. CASE l < c
    BY <1>6, <1>7, <1>8, <2>1 DEF Sorted
  <2>2. CASE l = c
    <3>1. k \in DOMAIN q /\ k < c /\ r[k] = q[k] /\ r[l].at = t
      BY <1>2, <1>6, <1>8, <2>2
    <3>2. QED
      BY <1>7, <3>1
  <2>3. CASE k = c
    <3>1. l - 1 \in DOMAIN q /\ ~(l - 1 < c) /\ r[l] = q[l - 1] /\ r[k].at = t
      BY <1>2, <1>6, <1>8, <2>3
    <3>2. QED
      BY <1>7, <1>9, <3>1
  <2>4. CASE k < c /\ l > c
    <3>1. k \in DOMAIN q /\ l - 1 \in DOMAIN q /\ k <= l - 1 /\ r[k] = q[k] /\ r[l] = q[l - 1]
      BY <1>6, <1>8, <2>4
    <3>2. q[k].at <= q[l - 1].at
      <4>1. CASE k = l - 1
        BY <1>9, <3>1, <4>1
      <4>2. CASE k < l - 1
        BY <3>1, <4>2 DEF Sorted
      <4>3. QED
        BY <1>8, <3>1, <4>1, <4>2
    <3>3. QED
      BY <3>1, <3>2
  <2>5. CASE k > c
    <3>1. k - 1 \in DOMAIN q /\ l - 1 \in DOMAIN q /\ k - 1 < l - 1 /\ r[k] = q[k - 1] /\ r[l] = q[l - 1]
      BY <1>6, <1>8, <2>5
    <3>2. QED
      BY <3>1 DEF Sorted
  <2>6. QED
    BY <1>6, <1>8, <2>1, <2>2, <2>3, <2>4, <2>5
<1>11. OneForOne(q, DOMAIN q, r, DOMAIN r \ {c})
  <2> DEFINE f == [k \in DOMAIN r \ {c} |-> IF k < c THEN k ELSE k - 1]
  <2>1. /\ f \in [DOMAIN r \ {c} -> DOMAIN q]
        /\ \A k \in DOMAIN r \ {c} : f[k] = IF k < c THEN k ELSE k - 1
    BY <1>6, <1>8
  <2> HIDE DEF f
  <2>2. \A k, l \in DOMAIN r \ {c} : f[k] = f[l] => k = l
    BY <1>6, <1>8, <2>1
  <2>3. \A s \in DOMAIN q : \E k \in DOMAIN r \ {c} : f[k] = s
    <3> SUFFICES ASSUME NEW s \in DOMAIN q PROVE \E k \in DOMAIN r \ {c} : f[k] = s
      OBVIOUS
    <3>1. CASE s < c
      <4>1. s \in DOMAIN r \ {c} /\ f[s] = s
        BY <1>6, <1>8, <2>1, <3>1
      <4>2. QED
        BY <4>1
    <3>2. CASE ~(s < c)
      <4>1. s + 1 \in DOMAIN r \ {c} /\ f[s + 1] = s
        BY <1>6, <1>8, <2>1, <3>2
      <4>2. QED
        BY <4>1
    <3>3. QED
      BY <3>1, <3>2
  <2>4. \A k \in DOMAIN r \ {c} : r[k] = q[f[k]]
    BY <1>6, <1>8, <2>1
  <2>5. QED
    BY <2>1, <2>2, <2>3, <2>4 DEF OneForOne
<1>12. r # <<>> /\ Tail(r) \in Seq(Event) /\ Len(Tail(r)) = Len(q) /\ DOMAIN Tail(r) = 1 .. Len(q)
       /\ \A k \in 1 .. Len(q) : Tail(r)[k] = r[k + 1]
  <2>1. r # <<>>
    BY <1>6, <1>8
  <2>2. /\ Tail(r) \in Seq(Event) /\ Len(Tail(r)) = Len(r) - 1
        /\ \A k \in 1 .. Len(Tail(r)) : Tail(r)[k] = r[k + 1]
    BY <1>6, <2>1, HeadTailProperties, ElementOfSeq
  <2>3. QED
    BY <1>6, <1>8, <2>1, <2>2
<1>13. Sorted(Tail(r))
  BY <1>6, <1>10, <1>12, TailEffect
<1>14. c = 1 => Tail(r) = q
  <2> SUFFICES ASSUME c = 1 PROVE Tail(r) = q
    OBVIOUS
  <2>1. \A k \in 1 .. Len(q) : Tail(r)[k] = q[k]
    BY <1>6, <1>8, <1>12
  <2>2. QED
    BY <1>12, <2>1, SeqEqual
<1>15. c # 1 => q # <<>>
  BY <1>6, <1>8
<1>16. q # <<>> /\ q[1].at <= t => c # 1
  BY <1>7, <1>8
<1>17. ASSUME c # 1
       PROVE  \E x \in DOMAIN Tail(r) : /\ Tail(r)[x] = e
                                        /\ OneForOne(q, DOMAIN q \ {1}, Tail(r), DOMAIN Tail(r) \ {x})
  <2>1. c - 1 \in DOMAIN Tail(r) /\ Tail(r)[c - 1] = e
    BY <1>6, <1>8, <1>12, <1>17
  <2> DEFINE f == [k \in DOMAIN Tail(r) \ {c - 1} |-> IF k < c - 1 THEN k + 1 ELSE k]
  <2>2. /\ f \in [DOMAIN Tail(r) \ {c - 1} -> DOMAIN q \ {1}]
        /\ \A k \in DOMAIN Tail(r) \ {c - 1} : f[k] = IF k < c - 1 THEN k + 1 ELSE k
    BY <1>8, <1>12, <1>17
  <2> HIDE DEF f
  <2>3. \A k, l \in DOMAIN Tail(r) \ {c - 1} : f[k] = f[l] => k = l
    BY <1>8, <1>12, <2>2
  <2>4. \A s \in DOMAIN q \ {1} : \E k \in DOMAIN Tail(r) \ {c - 1} : f[k] = s
    <3> SUFFICES ASSUME NEW s \in DOMAIN q \ {1} PROVE \E k \in DOMAIN Tail(r) \ {c - 1} : f[k] = s
      OBVIOUS
    <3>1. CASE s < c
      <4>1. s - 1 \in DOMAIN Tail(r) \ {c - 1} /\ f[s - 1] = s
        BY <1>8, <1>12, <2>2, <3>1
      <4>2. QED
        BY <4>1
    <3>2. CASE ~(s < c)
      <4>1. s \in DOMAIN Tail(r) \ {c - 1} /\ f[s] = s
        BY <1>8, <1>12, <2>2, <3>2
      <4>2. QED
        BY <4>1
    <3>3. QED
      BY <3>1, <3>2
  <2>5. \A k \in DOMAIN Tail(r) \ {c - 1} : Tail(r)[k] = q[f[k]]
    <3> SUFFICES ASSUME NEW k \in DOMAIN Tail(r) \ {c - 1} PROVE Tail(r)[k] = q[f[k]]
      OBVIOUS
    <3>1. k \in 1 .. Len(q) /\ k # c - 1 /\ Tail(r)[k] = r[k + 1]
      BY <1>12
    <3>2. CASE k < c - 1
      BY <1>6, <1>8, <2>2, <3>1, <3>2
    <3>3. CASE k > c - 1
      <4>1. k + 1 \in c + 1 .. Len(q) + 1 /\ (k + 1) - 1 = k
        BY <1>8, <3>1, <3>3
      <4>2. r[k + 1] = q[k] /\ f[k] = k
        BY <1>6, <2>2, <3>3, <4>1
      <4>3. QED
        BY <3>1, <4>2
    <3>4. QED
      BY <1>8, <3>1, <3>2, <3>3
  <2>6. OneForOne(q, DOMAIN q \ {1}, Tail(r), DOMAIN Tail(r) \ {c - 1})
    BY <2>2, <2>3, <2>4, <2>5 DEF OneForOne
  <2>7. QED
    BY <2>1, <2>6
<1>18. Inserted(q, r, e)
  <2>1. c \in DOMAIN r /\ e.at = t
    BY <1>2, <1>6
  <2>2. QED
    BY <2>1, <1>6, <1>11, <1>14, <1>15, <1>16, <1>17 DEF Inserted
<1>19. QED
  BY <1>6, <1>10, <1>12, <1>13, <1>18 DEF e, r

(* What removes an event takes the first of its id, and one of its time if *)
(* there is one.                                                           *)
LEMMA UnscheduledEffect ==
  ASSUME NEW q \in Seq(Event), Sorted(q), NEW t, NEW i
  PROVE  LET r == Unscheduled(q, t, i) IN
         /\ r \in Seq(Event) /\ Sorted(r)
         /\ Removed(q, r, i)
<1> DEFINE equal == {k \in DOMAIN q : q[k].id = i}
           exact == {k \in equal : q[k].at = t}
           T == IF exact # {} THEN exact ELSE equal
           r == Unscheduled(q, t, i)
<1>1. DOMAIN q = 1 .. Len(q) /\ Len(q) \in Nat
  OBVIOUS
<1>2. CASE equal = {}
  <2>1. r = q
    BY <1>2 DEF Unscheduled
  <2>2. Removed(q, q, i)
    BY <1>2 DEF Removed
  <2>3. QED
    BY <2>1, <2>2
<1>3. CASE equal # {}
  <2>1. T \in SUBSET Nat /\ T # {} /\ T \subseteq equal
    BY <1>1, <1>3
  <2>2. r = RemoveAt(q, Min(T))
    BY <1>3 DEF Unscheduled
  <2> HIDE DEF T, r
  <2>3. Min(T) \in equal
    BY <2>1, LeastNumber
  <2>4. PICK x \in 1 .. Len(q) : x = Min(T) /\ q[x].id = i
    BY <1>1, <2>3
  <2>5. /\ r \in Seq(Event) /\ Len(r) = Len(q) - 1
        /\ \A j \in 1 .. x - 1 : r[j] = q[j]
        /\ \A j \in x .. Len(q) - 1 : r[j] = q[j + 1]
    BY <2>2, <2>4, RemoveAtEntries
  <2>6. DOMAIN r = 1 .. Len(q) - 1 /\ x \in Nat
    BY <2>5
  <2> DEFINE f == [k \in DOMAIN r |-> IF k < x THEN k ELSE k + 1]
  <2>7. /\ f \in [DOMAIN r -> DOMAIN q \ {x}]
        /\ \A k \in DOMAIN r : f[k] = IF k < x THEN k ELSE k + 1
    BY <1>1, <2>6
  <2> HIDE DEF f
  <2>8. \A k, l \in DOMAIN r : f[k] = f[l] => k = l
    BY <1>1, <2>6, <2>7
  <2>9. \A s \in DOMAIN q \ {x} : \E k \in DOMAIN r : f[k] = s
    <3> SUFFICES ASSUME NEW s \in DOMAIN q \ {x} PROVE \E k \in DOMAIN r : f[k] = s
      OBVIOUS
    <3>1. CASE s < x
      <4>1. s \in DOMAIN r /\ f[s] = s
        BY <1>1, <2>6, <2>7, <3>1
      <4>2. QED
        BY <4>1
    <3>2. CASE ~(s < x)
      <4>1. s - 1 \in DOMAIN r /\ f[s - 1] = s
        BY <1>1, <2>6, <2>7, <3>2
      <4>2. QED
        BY <4>1
    <3>3. QED
      BY <3>1, <3>2
  <2>10. \A k \in DOMAIN r : r[k] = q[f[k]]
    BY <1>1, <2>5, <2>6, <2>7
  <2>11. OneForOne(q, DOMAIN q \ {x}, r, DOMAIN r)
    BY <2>7, <2>8, <2>9, <2>10 DEF OneForOne
  <2>12. Sorted(r)
    <3> SUFFICES ASSUME NEW k \in DOMAIN r, NEW l \in DOMAIN r, k < l PROVE r[k].at <= r[l].at
      BY DEF Sorted
    <3>1. f[k] \in DOMAIN q /\ f[l] \in DOMAIN q /\ f[k] < f[l]
      BY <1>1, <2>6, <2>7
    <3>2. QED
      BY <2>10, <3>1 DEF Sorted
  <2>13. x \in DOMAIN q /\ q[x].id = i
    BY <1>1, <2>4
  <2>14. QED
    BY <2>5, <2>11, <2>12, <2>13 DEF r, Removed
<1>4. QED
  BY <1>2, <1>3

LEMMA FiniteImage ==
  ASSUME NEW S, IsFiniteSet(S), NEW f, DOMAIN f = S, NEW T, T = {f[x] : x \in S}, f = [x \in S |-> f[x]]
  PROVE  IsFiniteSet(T)
<1>1. f \in [S -> T]
  OBVIOUS
<1>2. f \in Surjection(S, T)
  BY <1>1 DEF Surjection
<1>3. QED
  BY <1>2, FS_Surjection

(* The queue is loaded with the events of a finite set, each of them once. *)
LEMMA EnumerationEffect ==
  ASSUME NEW S \in SUBSET Event, IsFiniteSet(S), NEW q \in SetToSeqs(S)
  PROVE  /\ q \in Seq(Event)
         /\ \A k \in DOMAIN q : q[k] \in S
         /\ \A k, l \in DOMAIN q : q[k] = q[l] => k = l
         /\ \A e \in S : \E k \in DOMAIN q : q[k] = e
<1> DEFINE n == Cardinality(S)
<1>1. n \in Nat
  BY FS_CardinalityType
<1>2. q \in [1 .. n -> S] /\ \A k, l \in 1 .. n : k # l => q[k] # q[l]
  BY DEF SetToSeqs
<1>3. IsFiniteSet(1 .. n) /\ Cardinality(1 .. n) = n
  <2> HIDE DEF n
  <2>1. Cardinality(1 .. n) = IF 1 > n THEN 0 ELSE n - 1 + 1
    BY <1>1, FS_Interval
  <2>2. QED
    BY <1>1, <2>1, FS_Interval
<1>4. q \in Injection(1 .. n, S)
  BY <1>2 DEF Injection, IsInjective
<1>5. q \in Surjection(1 .. n, S)
  BY <1>3, <1>4, FS_Injection
<1> HIDE DEF n
<1>6. q \in Seq(Event)
  BY <1>1, <1>2
<1>7. QED
  BY <1>2, <1>5, <1>6 DEF Surjection

LEMMA DelayFacts ==
  /\ \A type \in 1 .. 4 : ResetTimeDelay[type] \in Nat
  /\ \A type \in 1 .. 3 : type + 1 \in 1 .. 4 /\ ResetTimeDelay[type] > ResetTimeDelay[type + 1]
  /\ ResetTimeDelay[1] = Hour /\ ResetTimeDelay[4] = Minute
<1>1. ResetTimeDelay \in Seq(Nat) /\ Len(ResetTimeDelay) = 4
  BY DelayAssumption
<1>2. \A type \in 1 .. 4 : ResetTimeDelay[type] \in Nat
  BY <1>1, ElementOfSeq
<1>3. QED
  BY <1>2, DelayAssumption

LEMMA FirstTypeTyped ==
  ASSUME NEW t \in Int, now \in Int PROVE FirstType(t) \in 1 .. 4
<1> DEFINE First(type) == /\ type = 4 \/ t - ResetTimeDelay[type] > now
                          /\ \A earlier \in 1 .. type - 1 : t - ResetTimeDelay[earlier] <= now
<1>1. \A type \in 1 .. 4 : ResetTimeDelay[type] \in Nat
  BY DelayFacts
<1>2. \A type \in 1 .. 4 : t - ResetTimeDelay[type] > now \/ t - ResetTimeDelay[type] <= now
  BY <1>1
<1>3. 1 .. 1 - 1 = {} /\ 1 .. 2 - 1 = {1} /\ 1 .. 3 - 1 = {1, 2} /\ 1 .. 4 - 1 = {1, 2, 3} /\ 1 .. 4 = {1, 2, 3, 4}
  OBVIOUS
<1>4. First(1) \/ First(2) \/ First(3) \/ First(4)
  BY <1>2, <1>3
<1>5. \E type \in 1 .. 4 : First(type)
  BY <1>3, <1>4
<1> HIDE DEF First
<1>6. FirstType(t) = CHOOSE type \in 1 .. 4 : First(type)
  BY DEF FirstType, First
<1>7. QED
  BY <1>5, <1>6

(* The events LoadResetTimes makes. *)
TimedEvent(table, i) == [at |-> table[i].resetTime, type |-> 0, map |-> table[i].map, id |-> i]
FirstEvent(reset, m, i) ==
  [at |-> reset[m] - ResetTimeDelay[FirstType(reset[m])], type |-> FirstType(reset[m]), map |-> m, id |-> i]

LEMMA LoadedEffect ==
  ASSUME NEW table \in [Id -> Row \cup {NoRow}], NEW reset \in [Global -> Int], now \in Int,
         NEW q \in SetToSeqs(LoadedEvents(table, reset))
  PROVE  LET timed == {i \in Id : table[i] # NoRow /\ table[i].resetTime > 0} IN
         /\ q \in Seq(Event)
         /\ \A k, l \in DOMAIN q : q[k] = q[l] => k = l
         /\ \A k \in DOMAIN q :
              \/ \E i \in timed : table[i].resetTime > now /\ q[k] = TimedEvent(table, i)
              \/ \E m \in Global : q[k] = FirstEvent(reset, m, NoId)
              \/ \E i \in timed : table[i].map \in Global /\ q[k] = FirstEvent(reset, table[i].map, i)
         /\ \A m \in Global : \E k \in DOMAIN q : q[k] = FirstEvent(reset, m, NoId)
         /\ \A i \in timed : table[i].resetTime > now =>
              \E k \in DOMAIN q : q[k] = TimedEvent(table, i)
<1> DEFINE timed == {i \in Id : table[i] # NoRow /\ table[i].resetTime > 0}
           ahead == {i \in timed : table[i].resetTime > now}
           ofMaps == {i \in timed : table[i].map \in Global}
           A == {TimedEvent(table, i) : i \in ahead}
           B == {FirstEvent(reset, m, NoId) : m \in Global}
           C == {FirstEvent(reset, table[i].map, i) : i \in ofMaps}
<1>1. LoadedEvents(table, reset) = A \cup B \cup C
  BY Zenon DEF LoadedEvents, TimedEvent, FirstEvent
<1>2. \A m \in Global, i \in Id \cup {NoId} : FirstEvent(reset, m, i) \in Event
  <2> SUFFICES ASSUME NEW m \in Global, NEW i \in Id \cup {NoId} PROVE FirstEvent(reset, m, i) \in Event
    OBVIOUS
  <2>1. reset[m] \in Int /\ FirstType(reset[m]) \in 1 .. 4 /\ m \in Map
    BY FirstTypeTyped, MapsAssumption
  <2>2. ResetTimeDelay[FirstType(reset[m])] \in Nat
    BY <2>1, DelayFacts
  <2>3. reset[m] - ResetTimeDelay[FirstType(reset[m])] \in Int /\ FirstType(reset[m]) \in 0 .. 4
    BY <2>1, <2>2
  <2>4. QED
    BY <2>1, <2>3 DEF FirstEvent, Event
<1>3. \A i \in timed : TimedEvent(table, i) \in Event
  BY DEF TimedEvent, Event, Row
<1>4. IsFiniteSet(ahead) /\ IsFiniteSet(ofMaps) /\ IsFiniteSet(Global)
  BY FS_Subset, MapsAssumption
<1>5. IsFiniteSet(A)
  <2> DEFINE f == [i \in ahead |-> TimedEvent(table, i)]
  <2>1. DOMAIN f = ahead /\ A = {f[i] : i \in ahead} /\ f = [i \in ahead |-> f[i]]
    BY Zenon
  <2> HIDE DEF A, f, ahead
  <2>2. QED
    BY <1>4, <2>1, FiniteImage
<1>6. IsFiniteSet(B)
  <2> DEFINE f == [m \in Global |-> FirstEvent(reset, m, NoId)]
  <2>1. DOMAIN f = Global /\ B = {f[i] : i \in Global} /\ f = [i \in Global |-> f[i]]
    BY Zenon
  <2> HIDE DEF B, f
  <2>2. QED
    BY <1>4, <2>1, FiniteImage
<1>7. IsFiniteSet(C)
  <2> DEFINE f == [i \in ofMaps |-> FirstEvent(reset, table[i].map, i)]
  <2>1. DOMAIN f = ofMaps /\ C = {f[i] : i \in ofMaps} /\ f = [i \in ofMaps |-> f[i]]
    BY Zenon
  <2> HIDE DEF C, f, ofMaps
  <2>2. QED
    BY <1>4, <2>1, FiniteImage
<1>8. A \cup B \cup C \in SUBSET Event
  BY <1>2, <1>3
<1>9. IsFiniteSet(A \cup B \cup C)
  <2> HIDE DEF A, B, C
  <2>1. QED
    BY <1>5, <1>6, <1>7, FS_Union
<1> DEFINE S == A \cup B \cup C
<1>10. S \in SUBSET Event /\ IsFiniteSet(S) /\ q \in SetToSeqs(S)
  BY <1>1, <1>8, <1>9
<1>11. (\A e \in A : e \in S) /\ (\A e \in B : e \in S) /\ (\A e \in S : e \in A \/ e \in B \/ e \in C)
  OBVIOUS
<1> HIDE DEF S
<1>12. /\ q \in Seq(Event)
       /\ \A k \in DOMAIN q : q[k] \in S
       /\ \A k, l \in DOMAIN q : q[k] = q[l] => k = l
       /\ \A e \in S : \E k \in DOMAIN q : q[k] = e
  BY <1>10, EnumerationEffect
<1>13. /\ \A i \in ahead : TimedEvent(table, i) \in A
       /\ \A m \in Global : FirstEvent(reset, m, NoId) \in B
       /\ \A e \in A : \E i \in ahead : e = TimedEvent(table, i)
       /\ \A e \in B : \E m \in Global : e = FirstEvent(reset, m, NoId)
       /\ \A e \in C : \E i \in ofMaps : e = FirstEvent(reset, table[i].map, i)
  OBVIOUS
<1> HIDE DEF A, B, C
<1>14. QED
  BY <1>11, <1>12, <1>13

-----------------------------------------------------------------------------
(* Reset times are at an hour of the day, and periods are whole days. *)

HourOfReset == ResetTimeHour * Hour
IsResetTime(t) == t \in Nat /\ t > 0 /\ AtResetHour(t) = t

LEMMA HourFacts ==
  /\ Day \in Nat /\ Day > 0 /\ Minute \in Nat /\ Minute > 0 /\ Hour \in Nat /\ Hour > 0 /\ Hour <= Day
  /\ HourOfReset \in Nat /\ HourOfReset + Minute < Day
<1>1. Day \in Nat /\ Minute \in Nat /\ Minute > 0 /\ Hour \in Nat /\ Hour > 0 /\ Hour <= Day /\ ResetTimeHour \in Nat
  BY HourAssumption
<1>2. HourOfReset \in Nat
  BY <1>1 DEF HourOfReset
<1>3. HourOfReset + Minute < Day
  BY HourAssumption DEF HourOfReset
<1>4. QED
  BY <1>1, <1>2, <1>3

LEMMA DivBounds ==
  ASSUME NEW t \in Nat, NEW d \in Nat, d > 0
  PROVE  t \div d \in Nat /\ (t \div d) * d <= t /\ t < (t \div d) * d + d
OBVIOUS

LEMMA DivOf ==
  ASSUME NEW n \in Nat, NEW h \in Nat, NEW d \in Nat, h < d
  PROVE  (n * d + h) \div d = n
OBVIOUS

LEMMA StartBounds ==
  ASSUME NEW t \in Nat
  PROVE  /\ StartOfDay(t) \in Nat /\ StartOfDay(t) <= t /\ t < StartOfDay(t) + Day
         /\ \E n \in Nat : StartOfDay(t) = n * Day
<1>1. t \div Day \in Nat /\ (t \div Day) * Day <= t /\ t < (t \div Day) * Day + Day
  BY HourFacts, DivBounds
<1>2. (t \div Day) * Day \in Nat
  BY <1>1, HourFacts
<1>3. QED
  BY <1>1, <1>2 DEF StartOfDay

LEMMA StartOf ==
  ASSUME NEW n \in Nat, NEW h \in Nat, h < Day
  PROVE  StartOfDay(n * Day + h) = n * Day /\ AtResetHour(n * Day + h) = n * Day + HourOfReset
<1>1. (n * Day + h) \div Day = n
  BY HourFacts, DivOf
<1>2. QED
  BY <1>1 DEF StartOfDay, AtResetHour, HourOfReset

(* Every time AtResetHour returns is some hour of some day. *)
LEMMA ResetHours ==
  ASSUME NEW t \in Nat
  PROVE  \E n \in Nat : AtResetHour(t) = n * Day + HourOfReset /\ StartOfDay(t) = n * Day
<1>1. PICK n \in Nat : StartOfDay(t) = n * Day
  BY StartBounds
<1>2. QED
  BY <1>1 DEF AtResetHour, HourOfReset

LEMMA PeriodFacts ==
  ASSUME NEW m \in Global
  PROVE  \E p \in Nat : p > 0 /\ Period(m) = p * Day /\ Period(m) \in Nat /\ Period(m) >= Day
<1>1. RaidDuration[m] \in Nat
  BY MapsAssumption
<1>2. PICK n \in Nat : StartOfDay(RaidDuration[m]) = n * Day
  BY <1>1, StartBounds
<1>3. CASE n * Day < Day
  <2>1. Period(m) = 1 * Day
    BY <1>2, <1>3, HourFacts DEF Period
  <2>2. QED
    BY <2>1, HourFacts
<1>4. CASE ~(n * Day < Day)
  <2>1. Period(m) = n * Day
    BY <1>2, <1>4 DEF Period
  <2>2. n > 0
    BY <1>4, HourFacts
  <2>3. n * Day \in Nat /\ n * Day >= Day
    BY <1>4, HourFacts
  <2>4. QED
    BY <2>1, <2>2, <2>3
<1>5. QED
  BY <1>3, <1>4

LEMMA HourIsResetTime ==
  ASSUME NEW n \in Nat, n > 0
  PROVE  IsResetTime(n * Day + HourOfReset)
<1>1. HourOfReset < Day
  BY HourFacts
<1>2. AtResetHour(n * Day + HourOfReset) = n * Day + HourOfReset
  BY <1>1, HourFacts, StartOf
<1>3. n * Day \in Nat /\ n * Day > 0
  BY HourFacts
<1>4. n * Day + HourOfReset \in Nat /\ n * Day + HourOfReset > 0
  BY <1>3, HourFacts
<1>5. QED
  BY <1>2, <1>4 DEF IsResetTime

LEMMA SubsequentReset ==
  ASSUME NEW m \in Global, NEW t \in Nat
  PROVE  /\ IsResetTime(GetSubsequentResetTime(m, t))
         /\ IsResetTime(t) => GetSubsequentResetTime(m, t) = t + Period(m)
<1>1. t + Minute \in Nat
  BY HourFacts
<1>2. PICK n \in Nat : AtResetHour(t + Minute) = n * Day + HourOfReset
  BY <1>1, ResetHours
<1>3. PICK p \in Nat : p > 0 /\ Period(m) = p * Day
  BY PeriodFacts
<1>4. GetSubsequentResetTime(m, t) = n * Day + HourOfReset + p * Day
  BY <1>2, <1>3 DEF GetSubsequentResetTime
<1>5. n * Day + HourOfReset + p * Day = (n + p) * Day + HourOfReset
  <2>1. \A x, y, d, h \in Nat : x * d + h + y * d = (x + y) * d + h
    OBVIOUS
  <2>2. QED
    BY <2>1, HourFacts
<1>6. n + p \in Nat /\ n + p > 0
  BY <1>3
<1>7. IsResetTime(GetSubsequentResetTime(m, t))
  BY <1>4, <1>5, <1>6, HourIsResetTime
<1>8. ASSUME IsResetTime(t) PROVE AtResetHour(t + Minute) = t
  <2>1. PICK d \in Nat : AtResetHour(t) = d * Day + HourOfReset
    BY ResetHours
  <2>2. t = d * Day + HourOfReset
    BY <1>8, <2>1 DEF IsResetTime
  <2>3. d * Day \in Nat
    BY HourFacts
  <2>4. t + Minute = d * Day + (HourOfReset + Minute) /\ HourOfReset + Minute \in Nat
    BY <2>2, <2>3, HourFacts
  <2>5. AtResetHour(d * Day + (HourOfReset + Minute)) = d * Day + HourOfReset
    BY <2>4, HourFacts, StartOf
  <2>6. QED
    BY <2>2, <2>4, <2>5
<1>9. QED
  BY <1>7, <1>8 DEF GetSubsequentResetTime

(* A time that is past is moved to a reset time, and one that is not stays. *)
LEMMA LoadedReset ==
  ASSUME NEW m \in Global, now \in Nat, resetRow[m] = 0 \/ IsResetTime(resetRow[m])
  PROVE  /\ IsResetTime(LoadedResetTime(m))
         /\ resetRow[m] # 0 /\ resetRow[m] >= now => LoadedResetTime(m) = resetRow[m]
<1> DEFINE today == StartOfDay(now)
           old == IF resetRow[m] = 0 THEN AtResetHour(today + Period(m)) ELSE AtResetHour(resetRow[m])
           missed == (today - StartOfDay(old)) \div Period(m)
<1>1. PICK p \in Nat : p > 0 /\ Period(m) = p * Day /\ Period(m) \in Nat /\ Period(m) >= Day
  BY PeriodFacts
<1>2. PICK n \in Nat : today = n * Day
  BY StartBounds
<1>3. \A x, y, d, h \in Nat : x * d + h + y * d = (x + y) * d + h /\ x * d + y * d = (x + y) * d + 0
  OBVIOUS
<1>4. \E c \in Nat : old = c * Day + HourOfReset
  <2>1. CASE resetRow[m] = 0
    <3>1. today + Period(m) = (n + p) * Day + 0
      BY <1>1, <1>2, <1>3, HourFacts
    <3>2. n + p \in Nat
      BY <1>1
    <3>3. AtResetHour((n + p) * Day + 0) = (n + p) * Day + HourOfReset
      BY <3>2, HourFacts, StartOf
    <3>4. QED
      BY <2>1, <3>1, <3>2, <3>3
  <2>2. CASE resetRow[m] # 0
    <3>1. PICK c \in Nat : AtResetHour(resetRow[m]) = c * Day + HourOfReset
      BY <2>2, ResetHours DEF IsResetTime
    <3>2. QED
      BY <2>2, <3>1
  <2>3. QED
    BY <2>1, <2>2
<1>5. IsResetTime(old) /\ (resetRow[m] # 0 => old = resetRow[m])
  <2>1. CASE resetRow[m] # 0
    BY <2>1 DEF IsResetTime
  <2>2. CASE resetRow[m] = 0
    <3>1. today + Period(m) = (n + p) * Day + 0
      BY <1>1, <1>2, <1>3, HourFacts
    <3>2. n + p \in Nat /\ n + p > 0
      BY <1>1
    <3>3. AtResetHour((n + p) * Day + 0) = (n + p) * Day + HourOfReset
      BY <3>2, HourFacts, StartOf
    <3>4. QED
      BY <2>2, <3>1, <3>2, <3>3, HourIsResetTime
  <2>3. QED
    BY <2>1, <2>2
<1>6. LoadedResetTime(m) = IF old < now THEN AtResetHour(old + (missed + 1) * Period(m)) ELSE old
  BY DEF LoadedResetTime
<1>7. PICK c \in Nat : old = c * Day + HourOfReset
  BY <1>4
<1>8. StartOfDay(old) = c * Day /\ today <= now /\ now < today + Day
  <2>1. HourOfReset \in Nat /\ HourOfReset < Day
    BY HourFacts
  <2>2. StartOfDay(c * Day + HourOfReset) = c * Day
    BY <2>1, StartOf
  <2>3. QED
    BY <1>7, <2>2, StartBounds
<1> HIDE DEF today, old
<1>9. ASSUME old < now PROVE IsResetTime(AtResetHour(old + (missed + 1) * Period(m)))
  <2>1. c <= n
    <3>1. c * Day < n * Day + Day
      <4>1. c * Day \in Nat /\ n * Day \in Nat
        BY HourFacts
      <4>2. QED
        BY <1>2, <1>7, <1>8, <1>9, <4>1, HourFacts
    <3>2. \A x, y, d \in Nat : x * d < y * d + d => x <= y
      <4> SUFFICES ASSUME NEW x \in Nat, NEW y \in Nat, NEW d \in Nat, x > y PROVE ~(x * d < y * d + d)
        OBVIOUS
      <4>1. PICK z \in Nat : x = y + 1 + z
        <5>1. x - y - 1 \in Nat /\ x = y + 1 + (x - y - 1)
          OBVIOUS
        <5>2. QED
          BY <5>1
      <4>2. x * d = y * d + d + z * d /\ z * d \in Nat /\ y * d \in Nat
        BY <4>1
      <4>3. QED
        BY <4>2
    <3>3. QED
      BY <3>1, <3>2, HourFacts
  <2>2. today - StartOfDay(old) \in Nat
    <3>1. PICK z \in Nat : n = c + z
      <4>1. n - c \in Nat /\ n = c + (n - c)
        BY <2>1
      <4>2. QED
        BY <4>1
    <3>2. n * Day = c * Day + z * Day /\ z * Day \in Nat /\ c * Day \in Nat
      BY <3>1, HourFacts
    <3>3. QED
      BY <1>2, <1>8, <3>2
  <2>3. missed \in Nat
    BY <1>1, <2>2, HourFacts, DivBounds
  <2> HIDE DEF missed
  <2>4. old + (missed + 1) * Period(m) = (c + (missed + 1) * p) * Day + HourOfReset
    <3>1. \A x, y, z, d, h \in Nat : x * d + h + y * (z * d) = (x + y * z) * d + h
      OBVIOUS
    <3>2. QED
      BY <1>1, <1>7, <2>3, <3>1, HourFacts
  <2>5. c + (missed + 1) * p \in Nat /\ c + (missed + 1) * p > 0
    <3>1. (missed + 1) * p \in Nat /\ (missed + 1) * p > 0
      BY <1>1, <2>3
    <3>2. QED
      BY <3>1
  <2>6. PICK z \in Nat : z > 0 /\ old + (missed + 1) * Period(m) = z * Day + HourOfReset
    BY <2>4, <2>5
  <2>7. AtResetHour(z * Day + HourOfReset) = z * Day + HourOfReset
    <3>1. HourOfReset \in Nat /\ HourOfReset < Day
      BY HourFacts
    <3>2. QED
      BY <3>1, StartOf
  <2>8. QED
    BY <2>6, <2>7, HourIsResetTime
<1> HIDE DEF missed
<1>10. resetRow[m] # 0 /\ resetRow[m] >= now => ~(old < now)
  BY <1>5 DEF IsResetTime
<1>11. QED
  BY <1>5, <1>6, <1>9, <1>10


-----------------------------------------------------------------------------
(* The writes, and the tables after each. *)

Write ==
  [op : {"insert"}, id : Id, row : Row] \cup [op : {"delete"}, id : Id]
    \cup [op : {"time"}, id : Id, time : Int] \cup [op : {"bind"}, id : Id, bind : Bind, limit : Int]
    \cup [op : {"expire"}, map : Global] \cup [op : {"schedule"}, map : Global, time : Int]

After(w, d) ==
  [rows |-> [i \in Id |-> RowAfter(w, i, d.rows[i])],
   reset |-> IF w.op = "schedule" THEN [d.reset EXCEPT ![w.map] = w.time] ELSE d.reset]

(* The write w changes, or may change, the row of instance i, of map m. *)
Concerns(w, i, m) == IF w.op \in {"expire", "schedule"} THEN w.map = m ELSE w.id = i

LEMMA RowAfterInsert ==
  ASSUME NEW i, NEW j, NEW new, NEW row
  PROVE  RowAfter([op |-> "insert", id |-> i, row |-> new], j, row) = IF i = j THEN new ELSE row
<1>1. CASE i = j
  BY <1>1, Zenon DEF RowAfter
<1>2. CASE i # j
  BY <1>2, Zenon DEF RowAfter
<1>3. QED
  BY <1>1, <1>2

LEMMA RowAfterDelete ==
  ASSUME NEW i, NEW j, NEW row
  PROVE  RowAfter([op |-> "delete", id |-> i], j, row) = IF i = j THEN NoRow ELSE row
<1>1. CASE i = j
  BY <1>1, Zenon DEF RowAfter
<1>2. CASE i # j
  BY <1>2, Zenon DEF RowAfter
<1>3. QED
  BY <1>1, <1>2

LEMMA RowAfterTime ==
  ASSUME NEW i, NEW j, NEW t, NEW row
  PROVE  RowAfter([op |-> "time", id |-> i, time |-> t], j, row)
           = IF i = j /\ row # NoRow THEN [row EXCEPT !.resetTime = t] ELSE row
<1>1. CASE i = j /\ row # NoRow
  BY <1>1, Zenon DEF RowAfter
<1>2. CASE i # j
  BY <1>2, Zenon DEF RowAfter
<1>3. CASE row = NoRow
  BY <1>3, Zenon DEF RowAfter
<1>4. QED
  BY <1>1, <1>2, <1>3

Bound(row, b, t) == [row EXCEPT !.bind = b, !.limit = t]

LEMMA RowAfterBind ==
  ASSUME NEW i, NEW j, NEW b, NEW t, NEW row
  PROVE  RowAfter([op |-> "bind", id |-> i, bind |-> b, limit |-> t], j, row)
           = IF i = j /\ row # NoRow THEN Bound(row, b, t) ELSE row
<1>1. CASE i = j /\ row # NoRow
  BY <1>1, Zenon DEF RowAfter, Bound
<1>2. CASE i # j
  BY <1>2, Zenon DEF RowAfter
<1>3. CASE row = NoRow
  BY <1>3, Zenon DEF RowAfter
<1>4. QED
  BY <1>1, <1>2, <1>3

LEMMA RowAfterExpire ==
  ASSUME NEW m, NEW j, NEW row
  PROVE  RowAfter([op |-> "expire", map |-> m], j, row)
           = IF row # NoRow /\ row.map = m
             THEN IF row.bind > Expired THEN [row EXCEPT !.bind = @ - 1] ELSE NoRow
             ELSE row
<1>1. CASE row # NoRow /\ row.map = m
  BY <1>1, Zenon DEF RowAfter
<1>2. CASE row = NoRow
  BY <1>2, Zenon DEF RowAfter
<1>3. CASE row # NoRow /\ row.map # m
  BY <1>3, Zenon DEF RowAfter
<1>4. QED
  BY <1>1, <1>2, <1>3

LEMMA RowAfterSchedule ==
  ASSUME NEW m, NEW t, NEW j, NEW row
  PROVE  RowAfter([op |-> "schedule", map |-> m, time |-> t], j, row) = row
BY Zenon DEF RowAfter

LEMMA RowAfterTyped ==
  ASSUME NEW w \in Write, NEW j \in Id, NEW row \in Row \cup {NoRow}
  PROVE  RowAfter(w, j, row) \in Row \cup {NoRow}
<1>1. ASSUME NEW i \in Id, NEW new \in Row, w = [op |-> "insert", id |-> i, row |-> new]
      PROVE  RowAfter(w, j, row) \in Row \cup {NoRow}
  BY <1>1, RowAfterInsert
<1>2. ASSUME NEW i \in Id, w = [op |-> "delete", id |-> i]
      PROVE  RowAfter(w, j, row) \in Row \cup {NoRow}
  BY <1>2, RowAfterDelete
<1>3. ASSUME NEW i \in Id, NEW t \in Int, w = [op |-> "time", id |-> i, time |-> t]
      PROVE  RowAfter(w, j, row) \in Row \cup {NoRow}
  <2>1. row # NoRow => [row EXCEPT !.resetTime = t] \in Row
    BY DEF Row
  <2>2. QED
    BY <1>3, <2>1, RowAfterTime
<1>4. ASSUME NEW i \in Id, NEW b \in Bind, NEW t \in Int, w = [op |-> "bind", id |-> i, bind |-> b, limit |-> t]
      PROVE  RowAfter(w, j, row) \in Row \cup {NoRow}
  <2>1. row # NoRow => Bound(row, b, t) \in Row
    BY DEF Row, Bound
  <2>2. QED
    BY <1>4, <2>1, RowAfterBind
<1>5. ASSUME NEW m \in Global, w = [op |-> "expire", map |-> m]
      PROVE  RowAfter(w, j, row) \in Row \cup {NoRow}
  <2>1. row # NoRow /\ row.bind > Expired => [row EXCEPT !.bind = @ - 1] \in Row
    <3> SUFFICES ASSUME row # NoRow, row.bind > Expired PROVE [row EXCEPT !.bind = @ - 1] \in Row
      OBVIOUS
    <3>1. row \in Row /\ row.bind - 1 \in Bind
      BY DEF Row, Bind, Temporary, Expired, Extended
    <3>2. QED
      BY <3>1 DEF Row
  <2>2. RowAfter(w, j, row) = IF row # NoRow /\ row.map = m
                              THEN IF row.bind > Expired THEN [row EXCEPT !.bind = @ - 1] ELSE NoRow
                              ELSE row
    BY <1>5, RowAfterExpire
  <2>3. QED
    BY <2>1, <2>2, Zenon
<1>6. ASSUME NEW m \in Global, NEW t \in Int, w = [op |-> "schedule", map |-> m, time |-> t]
      PROVE  RowAfter(w, j, row) \in Row \cup {NoRow}
  BY <1>6, RowAfterSchedule
<1>7. QED
  BY <1>1, <1>2, <1>3, <1>4, <1>5, <1>6 DEF Write

LEMMA Unconcerned ==
  ASSUME NEW w, NEW i, NEW row, row # NoRow, ~Concerns(w, i, row.map)
  PROVE  RowAfter(w, i, row) = row
<1>1. CASE w.op = "expire"
  BY <1>1, Zenon DEF RowAfter, Concerns
<1>2. CASE w.op = "schedule"
  BY <1>2, Zenon DEF RowAfter
<1>3. CASE w.op # "expire" /\ w.op # "schedule"
  <2>1. w.id # i
    BY <1>3 DEF Concerns
  <2>2. QED
    BY <1>3, <2>1, Zenon DEF RowAfter
<1>4. QED
  BY <1>1, <1>2, <1>3

-----------------------------------------------------------------------------
(* The tables as they are, and after each of the pending writes. *)

(* What is true of a row at any time; natural: no reset was forced. *)
RowOK(row, reset, natural) ==
  /\ row.map \in RaidOrHeroic => row.resetTime = 0
  /\ row.map \notin RaidOrHeroic => row.bind = Temporary
  /\ row.map \notin Global => row.resetTime > 0
  /\ row.map \in Global =>
       /\ reset[row.map] # 0
       /\ natural => row.limit >= Limit(row.map, row.bind, reset[row.map])

Tables == [rows : [Id -> Row \cup {NoRow}], reset : [Global -> Int]]

TablesOK(d, natural) ==
  /\ d \in Tables
  /\ \A m \in Global : d.reset[m] = 0 \/ IsResetTime(d.reset[m])
  /\ \A i \in Id : d.rows[i] # NoRow => RowOK(d.rows[i], d.reset, natural)

(* D[1] are the tables d, D[k + 1] those after the first k writes of p.  A  *)
(* row that no later write concerns stays.                                  *)
Stages(D, d, p, natural) ==
  /\ D[1] = d
  /\ \A k \in 1 .. Len(p) : D[k + 1] = After(p[k], D[k])
  /\ \A k \in 1 .. Len(p) + 1 : TablesOK(D[k], natural)
  /\ \A a \in 1 .. Len(p) + 1, i \in Id :
       D[a].rows[i] # NoRow /\ (\A k \in a .. Len(p) : ~Concerns(p[k], i, D[a].rows[i].map))
         => D[Len(p) + 1].rows[i] = D[a].rows[i]

(* Writes p turn the tables d into F. *)
Leads(d, p, F, natural) == \E D : Stages(D, d, p, natural) /\ F = D[Len(p) + 1]

LEMMA LeadsNowhere ==
  ASSUME NEW d, NEW natural, TablesOK(d, natural)
  PROVE  Leads(d, <<>>, d, natural)
<1> DEFINE D == [k \in 1 .. 1 |-> d]
<1>1. D[1] = d /\ Len(<<>>) = 0
  OBVIOUS
<1> HIDE DEF D
<1>2. \A k \in 1 .. 0 : FALSE
  OBVIOUS
<1>3. \A k \in 1 .. 0 + 1 : k = 1
  OBVIOUS
<1>4. 0 + 1 = 1
  OBVIOUS
<1>5. Stages(D, d, <<>>, natural)
  BY <1>1, <1>2, <1>3, <1>4 DEF Stages
<1>6. QED
  BY <1>1, <1>4, <1>5 DEF Leads

LEMMA LeadsEnds ==
  ASSUME NEW d, NEW p \in Seq(Write), NEW F, NEW natural, Leads(d, p, F, natural)
  PROVE  /\ TablesOK(d, natural) /\ TablesOK(F, natural)
         /\ p = <<>> => F = d
         /\ \A i \in Id : d.rows[i] # NoRow /\ (\A k \in DOMAIN p : ~Concerns(p[k], i, d.rows[i].map))
                            => F.rows[i] = d.rows[i]
<1>1. PICK D : Stages(D, d, p, natural) /\ F = D[Len(p) + 1]
  BY DEF Leads
<1>2. Len(p) \in Nat /\ DOMAIN p = 1 .. Len(p) /\ 1 \in 1 .. Len(p) + 1 /\ Len(p) + 1 \in 1 .. Len(p) + 1
  OBVIOUS
<1>3. p = <<>> => Len(p) + 1 = 1
  OBVIOUS
<1>4. QED
  BY <1>1, <1>2, <1>3 DEF Stages

LEMMA LeadsOn ==
  ASSUME NEW d, NEW p \in Seq(Write), NEW w \in Write, NEW F, NEW natural, Leads(d, p, F, natural),
         TablesOK(After(w, F), natural)
  PROVE  Leads(d, Append(p, w), After(w, F), natural)
<1>1. PICK D : Stages(D, d, p, natural) /\ F = D[Len(p) + 1]
  BY DEF Leads
<1> DEFINE E == [k \in 1 .. Len(p) + 2 |-> IF k <= Len(p) + 1 THEN D[k] ELSE After(w, F)]
           r == Append(p, w)
<1>2. PICK n \in Nat : n = Len(p)
  OBVIOUS
<1>3. /\ Len(r) = n + 1 /\ r[n + 1] = w
      /\ \A k \in 1 .. n : r[k] = p[k]
  BY <1>2
<1>4. (\A k \in 1 .. n + 1 : E[k] = D[k]) /\ E[n + 2] = After(w, F)
  BY <1>2
<1> HIDE DEF E, r
<1>5. \A k \in 1 .. n + 1 : E[k + 1] = After(r[k], E[k])
  <2> SUFFICES ASSUME NEW k \in 1 .. n + 1 PROVE E[k + 1] = After(r[k], E[k])
    OBVIOUS
  <2>1. CASE k = n + 1
    <3>1. E[n + 1] = F /\ (n + 1) + 1 = n + 2
      BY <1>1, <1>2, <1>4
    <3>2. QED
      BY <1>3, <1>4, <2>1, <3>1
  <2>2. CASE k # n + 1
    <3>1. k \in 1 .. n /\ k + 1 \in 1 .. n + 1
      BY <2>2
    <3>2. D[k + 1] = After(p[k], D[k])
      BY <1>1, <1>2, <3>1 DEF Stages
    <3>3. QED
      BY <1>3, <1>4, <3>1, <3>2
  <2>3. QED
    BY <2>1, <2>2
<1>6. \A k \in 1 .. (n + 1) + 1 : TablesOK(E[k], natural)
  <2> SUFFICES ASSUME NEW k \in 1 .. (n + 1) + 1 PROVE TablesOK(E[k], natural)
    OBVIOUS
  <2>1. CASE k = n + 2
    BY <1>4, <2>1
  <2>2. CASE k # n + 2
    <3>1. k \in 1 .. n + 1
      BY <2>2
    <3>2. QED
      BY <1>1, <1>2, <1>4, <3>1 DEF Stages
  <2>3. QED
    BY <2>1, <2>2
<1>7. ASSUME NEW a \in 1 .. (n + 1) + 1, NEW i \in Id,
             E[a].rows[i] # NoRow, \A k \in a .. n + 1 : ~Concerns(r[k], i, E[a].rows[i].map)
      PROVE  E[(n + 1) + 1].rows[i] = E[a].rows[i]
  <2>1. CASE a = n + 2
    BY <2>1
  <2>2. CASE a # n + 2
    <3>1. a \in 1 .. n + 1 /\ E[a] = D[a] /\ n + 1 \in a .. n + 1
      BY <1>4, <2>2
    <3>2. \A k \in a .. n : ~Concerns(p[k], i, D[a].rows[i].map)
      <4> SUFFICES ASSUME NEW k \in a .. n PROVE ~Concerns(p[k], i, D[a].rows[i].map)
        OBVIOUS
      <4>1. k \in a .. n + 1 /\ k \in 1 .. n
        BY <3>1
      <4>2. QED
        BY <1>3, <1>7, <3>1, <4>1
    <3>3. F.rows[i] = D[a].rows[i]
      BY <1>1, <1>2, <1>7, <3>1, <3>2 DEF Stages
    <3>4. ~Concerns(w, i, F.rows[i].map) /\ F.rows[i] # NoRow
      BY <1>3, <1>7, <3>1, <3>3
    <3>5. RowAfter(w, i, F.rows[i]) = F.rows[i]
      BY <3>4, Unconcerned
    <3>6. After(w, F).rows[i] = F.rows[i]
      BY <3>5 DEF After
    <3>7. (n + 1) + 1 = n + 2
      OBVIOUS
    <3>8. QED
      BY <1>4, <3>1, <3>3, <3>6, <3>7
  <2>3. QED
    BY <2>1, <2>2
<1>8. E[1] = d
  <2>1. 1 \in 1 .. n + 1
    OBVIOUS
  <2>2. QED
    BY <1>1, <1>4, <2>1 DEF Stages
<1>9. Stages(E, d, r, natural)
  <2>1. Len(r) = n + 1
    BY <1>3
  <2>2. QED
    BY <1>5, <1>6, <1>7, <1>8, <2>1 DEF Stages
<1>10. E[Len(r) + 1] = After(w, F)
  BY <1>3, <1>4
<1>11. QED
  BY <1>9, <1>10 DEF Leads, r

LEMMA LeadsFrom ==
  ASSUME NEW d, NEW p \in Seq(Write), p # <<>>, NEW F, NEW natural, Leads(d, p, F, natural)
  PROVE  Leads(After(Head(p), d), Tail(p), F, natural)
<1>1. PICK D : Stages(D, d, p, natural) /\ F = D[Len(p) + 1]
  BY DEF Leads
<1> DEFINE r == Tail(p)
           E == [k \in 1 .. Len(p) |-> D[k + 1]]
<1>2. PICK n \in Nat : Len(p) = n + 1
  <2>1. Len(p) \in Nat /\ Len(p) # 0
    OBVIOUS
  <2>2. Len(p) - 1 \in Nat /\ Len(p) = (Len(p) - 1) + 1
    BY <2>1
  <2>3. QED
    BY <2>2
<1>3. r \in Seq(Write) /\ Len(r) = n /\ Head(p) = p[1] /\ \A k \in 1 .. n : r[k] = p[k + 1]
  <2>1. Len(r) = Len(p) - 1 /\ r \in Seq(Write) /\ \A k \in 1 .. Len(r) : r[k] = p[k + 1]
    BY HeadTailProperties
  <2>2. QED
    BY <1>2, <2>1
<1>4. \A k \in 1 .. n + 1 : E[k] = D[k + 1]
  BY <1>2
<1> HIDE DEF r, E
<1>5. /\ \A k \in 1 .. n + 1 : D[k + 1] = After(p[k], D[k])
      /\ \A k \in 1 .. (n + 1) + 1 : TablesOK(D[k], natural)
      /\ D[1] = d /\ F = D[(n + 1) + 1]
  BY <1>1, <1>2 DEF Stages
<1>6. \A k \in 1 .. n : E[k + 1] = After(r[k], E[k])
  <2> SUFFICES ASSUME NEW k \in 1 .. n PROVE E[k + 1] = After(r[k], E[k])
    OBVIOUS
  <2>1. k + 1 \in 1 .. n + 1 /\ k \in 1 .. n + 1
    OBVIOUS
  <2>2. D[(k + 1) + 1] = After(p[k + 1], D[k + 1])
    BY <1>5, <2>1
  <2>3. QED
    BY <1>3, <1>4, <2>1, <2>2
<1>7. \A k \in 1 .. n + 1 : TablesOK(E[k], natural)
  <2> SUFFICES ASSUME NEW k \in 1 .. n + 1 PROVE TablesOK(E[k], natural)
    OBVIOUS
  <2>1. k + 1 \in 1 .. (n + 1) + 1
    OBVIOUS
  <2>2. QED
    BY <1>4, <1>5, <2>1
<1>8. ASSUME NEW a \in 1 .. n + 1, NEW i \in Id,
             E[a].rows[i] # NoRow, \A k \in a .. n : ~Concerns(r[k], i, E[a].rows[i].map)
      PROVE  E[n + 1].rows[i] = E[a].rows[i]
  <2>1. a + 1 \in 1 .. (n + 1) + 1 /\ n + 1 \in 1 .. n + 1
    OBVIOUS
  <2>2. \A k \in a + 1 .. n + 1 : ~Concerns(p[k], i, D[a + 1].rows[i].map)
    <3> SUFFICES ASSUME NEW k \in a + 1 .. n + 1 PROVE ~Concerns(p[k], i, D[a + 1].rows[i].map)
      OBVIOUS
    <3>1. k - 1 \in a .. n /\ k - 1 \in 1 .. n /\ (k - 1) + 1 = k
      OBVIOUS
    <3>2. r[k - 1] = p[k]
      BY <1>3, <3>1
    <3>3. QED
      BY <1>4, <1>8, <3>1, <3>2
  <2>3. D[(n + 1) + 1].rows[i] = D[a + 1].rows[i]
    BY <1>1, <1>2, <1>4, <1>8, <2>1, <2>2 DEF Stages
  <2>4. QED
    BY <1>4, <2>1, <2>3
<1>9. E[1] = After(Head(p), d) /\ E[n + 1] = F
  <2>1. 1 \in 1 .. n + 1 /\ n + 1 \in 1 .. n + 1
    OBVIOUS
  <2>2. D[1 + 1] = After(p[1], D[1])
    BY <1>5, <2>1
  <2>3. QED
    BY <1>3, <1>4, <1>5, <2>1, <2>2
<1>10. Stages(E, After(Head(p), d), r, natural)
  BY <1>3, <1>6, <1>7, <1>8, <1>9 DEF Stages
<1>11. QED
  BY <1>3, <1>9, <1>10 DEF Leads, r

(* A forced reset is only one more reason for a row to be there. *)
LEMMA LeadsForced ==
  ASSUME NEW d, NEW p, NEW F, NEW natural, Leads(d, p, F, natural)
  PROVE  Leads(d, p, F, FALSE)
<1>1. PICK D : Stages(D, d, p, natural) /\ F = D[Len(p) + 1]
  BY DEF Leads
<1>2. \A s : TablesOK(s, natural) => TablesOK(s, FALSE)
  BY DEF TablesOK, RowOK
<1>3. Stages(D, d, p, FALSE)
  BY <1>1, <1>2 DEF Stages
<1>4. QED
  BY <1>1, <1>3 DEF Leads


-----------------------------------------------------------------------------
(* The queue: what is true of its events, and the events of instances.  *)

(* The event of an instance reset alone, or one of a map reset as a whole. *)
GoodEvent(e) == IF e.type = 0 THEN e.id \in Id /\ e.map \notin RaidOrHeroic ELSE e.map \in Global

QueueOK(q) == q \in Seq(Event) /\ Sorted(q) /\ \A k \in DOMAIN q : GoodEvent(q[k])

IdEvents(q) == {e \in {q[k] : k \in DOMAIN q} : e.id \in Id}

(* No instance has two events. *)
Lone(q) == \A k, l \in DOMAIN q : q[k].id = q[l].id /\ q[k].id \in Id => k = l

LEMMA IdEventsOf ==
  ASSUME NEW q
  PROVE  /\ \A e \in IdEvents(q) : e.id \in Id /\ \E k \in DOMAIN q : q[k] = e
         /\ \A k \in DOMAIN q : q[k].id \in Id => q[k] \in IdEvents(q)
BY DEF IdEvents

(* Events of whole maps come and go without touching those of instances. *)
LEMMA SameIdEvents ==
  ASSUME NEW q, NEW S \in SUBSET DOMAIN q, NEW r, NEW R \in SUBSET DOMAIN r, OneForOne(q, S, r, R),
         \A k \in DOMAIN q \ S : q[k].id \notin Id, \A k \in DOMAIN r \ R : r[k].id \notin Id
  PROVE  IdEvents(r) = IdEvents(q) /\ (Lone(q) => Lone(r))
<1>1. PICK f \in [R -> S] :
        /\ \A k, l \in R : f[k] = f[l] => k = l
        /\ \A s \in S : \E k \in R : f[k] = s
        /\ \A k \in R : r[k] = q[f[k]]
  BY DEF OneForOne
<1>2. \A e : e \in IdEvents(r) => e \in IdEvents(q)
  <2> SUFFICES ASSUME NEW e \in IdEvents(r) PROVE e \in IdEvents(q)
    OBVIOUS
  <2>1. PICK k \in DOMAIN r : r[k] = e /\ e.id \in Id
    BY IdEventsOf
  <2>2. k \in R /\ f[k] \in DOMAIN q /\ q[f[k]] = e
    BY <1>1, <2>1
  <2>3. QED
    BY <2>1, <2>2, IdEventsOf
<1>3. \A e : e \in IdEvents(q) => e \in IdEvents(r)
  <2> SUFFICES ASSUME NEW e \in IdEvents(q) PROVE e \in IdEvents(r)
    OBVIOUS
  <2>1. PICK l \in DOMAIN q : q[l] = e /\ e.id \in Id
    BY IdEventsOf
  <2>2. PICK k \in R : f[k] = l
    BY <1>1, <2>1
  <2>3. k \in DOMAIN r /\ r[k] = e
    BY <1>1, <2>1, <2>2
  <2>4. QED
    BY <2>1, <2>3, IdEventsOf
<1>4. ASSUME Lone(q), NEW k \in DOMAIN r, NEW l \in DOMAIN r, r[k].id = r[l].id, r[k].id \in Id
      PROVE  k = l
  <2>1. k \in R /\ l \in R
    BY <1>4
  <2>2. f[k] \in DOMAIN q /\ f[l] \in DOMAIN q /\ q[f[k]].id = q[f[l]].id /\ q[f[k]].id \in Id
    BY <1>1, <1>4, <2>1
  <2>3. f[k] = f[l]
    BY <1>4, <2>2 DEF Lone
  <2>4. QED
    BY <1>1, <2>1, <2>3
<1>5. QED
  BY <1>2, <1>3, <1>4 DEF Lone

LEMMA AddedIdEvent ==
  ASSUME NEW q, NEW r, NEW p \in DOMAIN r, OneForOne(q, DOMAIN q, r, DOMAIN r \ {p}),
         r[p].id \in Id, \A e \in IdEvents(q) : e.id # r[p].id, Lone(q)
  PROVE  IdEvents(r) = IdEvents(q) \cup {r[p]} /\ Lone(r)
<1>1. PICK f \in [DOMAIN r \ {p} -> DOMAIN q] :
        /\ \A k, l \in DOMAIN r \ {p} : f[k] = f[l] => k = l
        /\ \A s \in DOMAIN q : \E k \in DOMAIN r \ {p} : f[k] = s
        /\ \A k \in DOMAIN r \ {p} : r[k] = q[f[k]]
  BY DEF OneForOne
<1>2. \A e : e \in IdEvents(r) => e \in IdEvents(q) \cup {r[p]}
  <2> SUFFICES ASSUME NEW e \in IdEvents(r), e # r[p] PROVE e \in IdEvents(q)
    OBVIOUS
  <2>1. PICK k \in DOMAIN r : r[k] = e /\ e.id \in Id
    BY IdEventsOf
  <2>2. f[k] \in DOMAIN q /\ q[f[k]] = e
    BY <1>1, <2>1
  <2>3. QED
    BY <2>1, <2>2, IdEventsOf
<1>3. \A e : e \in IdEvents(q) => e \in IdEvents(r)
  <2> SUFFICES ASSUME NEW e \in IdEvents(q) PROVE e \in IdEvents(r)
    OBVIOUS
  <2>1. PICK l \in DOMAIN q : q[l] = e /\ e.id \in Id
    BY IdEventsOf
  <2>2. PICK k \in DOMAIN r \ {p} : f[k] = l
    BY <1>1, <2>1
  <2>3. k \in DOMAIN r /\ r[k] = e
    BY <1>1, <2>1, <2>2
  <2>4. QED
    BY <2>1, <2>3, IdEventsOf
<1>4. r[p] \in IdEvents(r)
  BY IdEventsOf
<1>5. \A k \in DOMAIN r \ {p} : r[k].id # r[p].id
  <2> SUFFICES ASSUME NEW k \in DOMAIN r \ {p}, r[k].id = r[p].id PROVE FALSE
    OBVIOUS
  <2>1. f[k] \in DOMAIN q /\ q[f[k]] = r[k]
    BY <1>1
  <2>2. q[f[k]] \in IdEvents(q)
    BY <2>1, IdEventsOf
  <2>3. QED
    BY <2>1, <2>2
<1>6. ASSUME NEW k \in DOMAIN r, NEW l \in DOMAIN r, r[k].id = r[l].id, r[k].id \in Id
      PROVE  k = l
  <2>1. CASE k = p \/ l = p
    BY <1>5, <1>6, <2>1
  <2>2. CASE k # p /\ l # p
    <3>1. f[k] \in DOMAIN q /\ f[l] \in DOMAIN q /\ q[f[k]].id = q[f[l]].id /\ q[f[k]].id \in Id
      BY <1>1, <1>6, <2>2
    <3>2. f[k] = f[l]
      BY <3>1 DEF Lone
    <3>3. QED
      BY <1>1, <2>2, <3>2
  <2>3. QED
    BY <2>1, <2>2
<1>7. QED
  BY <1>2, <1>3, <1>4, <1>6 DEF Lone

LEMMA RemovedIdEvent ==
  ASSUME NEW q, NEW r, NEW x \in DOMAIN q, OneForOne(q, DOMAIN q \ {x}, r, DOMAIN r),
         q[x].id \in Id, Lone(q)
  PROVE  IdEvents(r) = {e \in IdEvents(q) : e.id # q[x].id} /\ Lone(r)
<1>1. PICK f \in [DOMAIN r -> DOMAIN q \ {x}] :
        /\ \A k, l \in DOMAIN r : f[k] = f[l] => k = l
        /\ \A s \in DOMAIN q \ {x} : \E k \in DOMAIN r : f[k] = s
        /\ \A k \in DOMAIN r : r[k] = q[f[k]]
  BY DEF OneForOne
<1>2. \A e : e \in IdEvents(r) => e \in IdEvents(q) /\ e.id # q[x].id
  <2> SUFFICES ASSUME NEW e \in IdEvents(r) PROVE e \in IdEvents(q) /\ e.id # q[x].id
    OBVIOUS
  <2>1. PICK k \in DOMAIN r : r[k] = e /\ e.id \in Id
    BY IdEventsOf
  <2>2. f[k] \in DOMAIN q /\ f[k] # x /\ q[f[k]] = e
    BY <1>1, <2>1
  <2>3. QED
    BY <2>1, <2>2, IdEventsOf DEF Lone
<1>3. \A e : e \in IdEvents(q) /\ e.id # q[x].id => e \in IdEvents(r)
  <2> SUFFICES ASSUME NEW e \in IdEvents(q), e.id # q[x].id PROVE e \in IdEvents(r)
    OBVIOUS
  <2>1. PICK l \in DOMAIN q : q[l] = e /\ e.id \in Id
    BY IdEventsOf
  <2>2. PICK k \in DOMAIN r : f[k] = l
    BY <1>1, <2>1
  <2>3. k \in DOMAIN r /\ r[k] = e
    BY <1>1, <2>1, <2>2
  <2>4. QED
    BY <2>1, <2>3, IdEventsOf
<1>4. ASSUME NEW k \in DOMAIN r, NEW l \in DOMAIN r, r[k].id = r[l].id, r[k].id \in Id
      PROVE  k = l
  <2>1. f[k] \in DOMAIN q /\ f[l] \in DOMAIN q /\ q[f[k]].id = q[f[l]].id /\ q[f[k]].id \in Id
    BY <1>1, <1>4
  <2>2. f[k] = f[l]
    BY <2>1 DEF Lone
  <2>3. QED
    BY <1>1, <2>2
<1>5. QED
  BY <1>2, <1>3, <1>4 DEF Lone

LEMMA OneForOneGood ==
  ASSUME NEW q, NEW S \in SUBSET DOMAIN q, NEW r, NEW R, OneForOne(q, S, r, R),
         \A k \in DOMAIN q : GoodEvent(q[k])
  PROVE  \A k \in R : GoodEvent(r[k])
BY DEF OneForOne

(* An event is added to the queue ... *)
LEMMA ScheduledOK ==
  ASSUME NEW q, QueueOK(q), NEW t \in Int, NEW type \in 0 .. 4, NEW m \in Map, NEW i \in Id \cup {NoId},
         GoodEvent([at |-> t, type |-> type, map |-> m, id |-> i])
  PROVE  QueueOK(Scheduled(q, t, type, m, i)) /\ QueueOK(Tail(Scheduled(q, t, type, m, i)))
<1> DEFINE r == Scheduled(q, t, type, m, i)
           e == [at |-> t, type |-> type, map |-> m, id |-> i]
<1>1. q \in Seq(Event) /\ Sorted(q) /\ \A k \in DOMAIN q : GoodEvent(q[k])
  BY DEF QueueOK
<1>2. /\ r \in Seq(Event) /\ Sorted(r) /\ Tail(r) \in Seq(Event) /\ Sorted(Tail(r))
      /\ Inserted(q, r, e)
  BY <1>1, ScheduledEffect
<1> HIDE DEF r, e
<1>3. PICK p \in DOMAIN r :
        /\ r[p] = e
        /\ OneForOne(q, DOMAIN q, r, DOMAIN r \ {p})
        /\ p = 1 => Tail(r) = q
        /\ p # 1 => \E x \in DOMAIN Tail(r) :
                      /\ Tail(r)[x] = e
                      /\ OneForOne(q, DOMAIN q \ {1}, Tail(r), DOMAIN Tail(r) \ {x})
  BY <1>2 DEF Inserted
<1>4. GoodEvent(e)
  BY DEF e
<1>5. \A k \in DOMAIN r \ {p} : GoodEvent(r[k])
  BY <1>1, <1>3, OneForOneGood
<1>6. \A k \in DOMAIN r : GoodEvent(r[k])
  BY <1>3, <1>4, <1>5
<1>7. \A k \in DOMAIN Tail(r) : GoodEvent(Tail(r)[k])
  <2>1. CASE p = 1
    BY <1>1, <1>3, <2>1
  <2>2. CASE p # 1
    <3>1. PICK x \in DOMAIN Tail(r) :
            /\ Tail(r)[x] = e
            /\ OneForOne(q, DOMAIN q \ {1}, Tail(r), DOMAIN Tail(r) \ {x})
      BY <1>3, <2>2
    <3>2. \A k \in DOMAIN Tail(r) \ {x} : GoodEvent(Tail(r)[k])
      <4>1. DOMAIN q \ {1} \in SUBSET DOMAIN q
        OBVIOUS
      <4>2. QED
        BY <1>1, <3>1, <4>1, OneForOneGood
    <3>3. QED
      BY <1>4, <3>1, <3>2
  <2>3. QED
    BY <2>1, <2>2
<1>8. QED
  BY <1>2, <1>6, <1>7 DEF QueueOK, r

(* ... and one removed. *)
LEMMA UnscheduledOK ==
  ASSUME NEW q, QueueOK(q), NEW t, NEW i
  PROVE  QueueOK(Unscheduled(q, t, i))
<1> DEFINE r == Unscheduled(q, t, i)
<1>1. q \in Seq(Event) /\ Sorted(q) /\ \A k \in DOMAIN q : GoodEvent(q[k])
  BY DEF QueueOK
<1>2. /\ r \in Seq(Event) /\ Sorted(r)
      /\ Removed(q, r, i)
  BY <1>1, UnscheduledEffect
<1> HIDE DEF r
<1>3. \A k \in DOMAIN r : GoodEvent(r[k])
  <2>1. CASE r = q
    BY <1>1, <2>1
  <2>2. ASSUME NEW x \in DOMAIN q, OneForOne(q, DOMAIN q \ {x}, r, DOMAIN r)
        PROVE  \A k \in DOMAIN r : GoodEvent(r[k])
    <3>1. DOMAIN q \ {x} \in SUBSET DOMAIN q
      OBVIOUS
    <3>2. QED
      BY <1>1, <2>2, <3>1, OneForOneGood
  <2>3. QED
    BY <1>2, <2>1, <2>2 DEF Removed
<1>4. QED
  BY <1>2, <1>3 DEF QueueOK, r

LEMMA TailOK ==
  ASSUME NEW q, QueueOK(q), q # <<>>
  PROVE  QueueOK(Tail(q))
<1>1. q \in Seq(Event) /\ Sorted(q) /\ \A k \in DOMAIN q : GoodEvent(q[k])
  BY DEF QueueOK
<1>2. /\ Tail(q) \in Seq(Event) /\ Sorted(Tail(q))
      /\ OneForOne(q, DOMAIN q \ {1}, Tail(q), DOMAIN Tail(q))
  BY <1>1, TailEffect
<1>3. DOMAIN q \ {1} \in SUBSET DOMAIN q
  OBVIOUS
<1>4. QED
  BY <1>1, <1>2, <1>3, OneForOneGood DEF QueueOK

LEMMA SetResetScheduleOK ==
  ASSUME NEW q, QueueOK(q), NEW on, NEW i \in Id, NEW m \in Map, NEW t \in Int
  PROVE  QueueOK(SetResetSchedule(q, on, i, m, t))
<1>1. CASE m \in RaidOrHeroic
  BY <1>1 DEF SetResetSchedule
<1>2. CASE m \notin RaidOrHeroic /\ on
  <2>1. GoodEvent([at |-> t, type |-> 0, map |-> m, id |-> i])
    BY <1>2 DEF GoodEvent
  <2>2. QED
    BY <1>2, <2>1, ScheduledOK DEF SetResetSchedule
<1>3. CASE m \notin RaidOrHeroic /\ ~on
  BY <1>3, UnscheduledOK DEF SetResetSchedule
<1>4. QED
  BY <1>1, <1>2, <1>3

(* The effects on the events of instances. *)
LEMMA ScheduledIdEvents ==
  ASSUME NEW q, QueueOK(q), NEW t \in Int, NEW m \in Map, NEW i \in Id,
         \A e \in IdEvents(q) : e.id # i, Lone(q)
  PROVE  LET r == Scheduled(q, t, 0, m, i) IN
         /\ IdEvents(r) = IdEvents(q) \cup {[at |-> t, type |-> 0, map |-> m, id |-> i]}
         /\ Lone(r)
<1> DEFINE r == Scheduled(q, t, 0, m, i)
           e == [at |-> t, type |-> 0, map |-> m, id |-> i]
<1>1. Inserted(q, r, e)
  <2>1. q \in Seq(Event) /\ Sorted(q)
    BY DEF QueueOK
  <2>2. QED
    BY <2>1, ScheduledEffect
<1>2. e.id = i
  OBVIOUS
<1> HIDE DEF r, e
<1>3. PICK p \in DOMAIN r : r[p] = e /\ OneForOne(q, DOMAIN q, r, DOMAIN r \ {p})
  BY <1>1 DEF Inserted
<1>4. r[p].id = i
  BY <1>2, <1>3
<1>5. IdEvents(r) = IdEvents(q) \cup {r[p]} /\ Lone(r)
  BY <1>3, <1>4, AddedIdEvent
<1>6. QED
  BY <1>3, <1>5 DEF r, e

LEMMA UnscheduledIdEvents ==
  ASSUME NEW q, QueueOK(q), NEW t, NEW i \in Id, Lone(q)
  PROVE  LET r == Unscheduled(q, t, i) IN
         IdEvents(r) = {e \in IdEvents(q) : e.id # i} /\ Lone(r)
<1> DEFINE r == Unscheduled(q, t, i)
<1>1. Removed(q, r, i)
  <2>1. q \in Seq(Event) /\ Sorted(q)
    BY DEF QueueOK
  <2>2. QED
    BY <2>1, UnscheduledEffect
<1> HIDE DEF r
<1>2. CASE r = q /\ \A k \in DOMAIN q : q[k].id # i
  <2>1. \A e \in IdEvents(q) : e.id # i
    BY <1>2, IdEventsOf
  <2>2. QED
    BY <1>2, <2>1 DEF r
<1>3. CASE \E x \in DOMAIN q : q[x].id = i /\ OneForOne(q, DOMAIN q \ {x}, r, DOMAIN r)
  BY <1>3, RemovedIdEvent DEF r
<1>4. QED
  BY <1>1, <1>2, <1>3 DEF Removed

(* Adding or removing an event of a whole map, with the first one dropped  *)
(* or not.                                                                 *)
LEMMA MapEventIdEvents ==
  ASSUME NEW q, QueueOK(q), NEW t \in Int, NEW type \in 0 .. 4, NEW m \in Map
  PROVE  /\ LET r == Scheduled(q, t, type, m, NoId) IN IdEvents(r) = IdEvents(q) /\ (Lone(q) => Lone(r))
         /\ q # <<>> /\ q[1].id \notin Id =>
              LET r == Tail(Scheduled(q, t, type, m, NoId)) IN IdEvents(r) = IdEvents(q) /\ (Lone(q) => Lone(r))
         /\ q = <<>> => LET r == Tail(Scheduled(q, t, type, m, NoId)) IN
                        IdEvents(r) = IdEvents(q) /\ (Lone(q) => Lone(r))
<1> DEFINE r == Scheduled(q, t, type, m, NoId)
           e == [at |-> t, type |-> type, map |-> m, id |-> NoId]
<1>1. Inserted(q, r, e)
  <2>1. q \in Seq(Event) /\ Sorted(q)
    BY DEF QueueOK
  <2>2. QED
    BY <2>1, ScheduledEffect
<1>2. e.id \notin Id
  BY MapsAssumption
<1> HIDE DEF r, e
<1>3. PICK p \in DOMAIN r :
        /\ r[p] = e
        /\ OneForOne(q, DOMAIN q, r, DOMAIN r \ {p})
        /\ p = 1 => Tail(r) = q
        /\ p # 1 => q # <<>>
        /\ p # 1 => \E x \in DOMAIN Tail(r) :
                      /\ Tail(r)[x] = e
                      /\ OneForOne(q, DOMAIN q \ {1}, Tail(r), DOMAIN Tail(r) \ {x})
  BY <1>1 DEF Inserted
<1>4. IdEvents(r) = IdEvents(q) /\ (Lone(q) => Lone(r))
  <2>1. DOMAIN q \in SUBSET DOMAIN q /\ DOMAIN r \ {p} \in SUBSET DOMAIN r
    OBVIOUS
  <2>2. (\A k \in DOMAIN q \ DOMAIN q : q[k].id \notin Id) /\ (\A k \in DOMAIN r \ (DOMAIN r \ {p}) : r[k].id \notin Id)
    BY <1>2, <1>3
  <2>3. QED
    BY <1>3, <2>1, <2>2, SameIdEvents
<1>5. ASSUME q # <<>> => q[1].id \notin Id
      PROVE  IdEvents(Tail(r)) = IdEvents(q) /\ (Lone(q) => Lone(Tail(r)))
  <2>1. CASE p = 1
    BY <1>3, <2>1
  <2>2. CASE p # 1
    <3>1. PICK x \in DOMAIN Tail(r) :
            /\ Tail(r)[x] = e
            /\ OneForOne(q, DOMAIN q \ {1}, Tail(r), DOMAIN Tail(r) \ {x})
      BY <1>3, <2>2
    <3>2. DOMAIN q \ {1} \in SUBSET DOMAIN q /\ DOMAIN Tail(r) \ {x} \in SUBSET DOMAIN Tail(r)
      OBVIOUS
    <3>3. /\ \A k \in DOMAIN q \ (DOMAIN q \ {1}) : q[k].id \notin Id
          /\ \A k \in DOMAIN Tail(r) \ (DOMAIN Tail(r) \ {x}) : Tail(r)[k].id \notin Id
      BY <1>2, <1>3, <1>5, <2>2, <3>1
    <3>4. QED
      BY <3>1, <3>2, <3>3, SameIdEvents
  <2>3. QED
    BY <2>1, <2>2
<1>6. QED
  BY <1>4, <1>5 DEF r

LEMMA UnscheduledMapIdEvents ==
  ASSUME NEW q, QueueOK(q), NEW t
  PROVE  LET r == Unscheduled(q, t, NoId) IN IdEvents(r) = IdEvents(q) /\ (Lone(q) => Lone(r))
<1> DEFINE r == Unscheduled(q, t, NoId)
<1>1. r = q \/ \E x \in DOMAIN q : q[x].id = NoId /\ OneForOne(q, DOMAIN q \ {x}, r, DOMAIN r)
  <2>1. q \in Seq(Event) /\ Sorted(q)
    BY DEF QueueOK
  <2>2. Removed(q, r, NoId)
    BY <2>1, UnscheduledEffect
  <2>3. QED
    BY <2>2 DEF Removed
<1> HIDE DEF r
<1>2. ASSUME NEW x \in DOMAIN q, q[x].id = NoId, OneForOne(q, DOMAIN q \ {x}, r, DOMAIN r)
      PROVE  IdEvents(r) = IdEvents(q) /\ (Lone(q) => Lone(r))
  <2>1. DOMAIN q \ {x} \in SUBSET DOMAIN q /\ DOMAIN r \in SUBSET DOMAIN r
    OBVIOUS
  <2>2. (\A k \in DOMAIN q \ (DOMAIN q \ {x}) : q[k].id \notin Id) /\ (\A k \in DOMAIN r \ DOMAIN r : r[k].id \notin Id)
    BY <1>2, MapsAssumption
  <2>3. QED
    BY <1>2, <2>1, <2>2, SameIdEvents
<1>3. QED
  BY <1>1, <1>2 DEF r


-----------------------------------------------------------------------------
(* The inductive invariant of the tables and the memory. *)

Here == [rows |-> rows, reset |-> resetRow]

DownInv ==
  ~up => /\ pending = <<>> /\ queue = <<>> /\ inside = {} /\ used = {}
         /\ \A i \in Id : ~Loaded(i)

TimesInv == up => \A m \in Global : IsResetTime(resetTime[m])

SavesInv ==
  \A i \in Id : Loaded(i) => /\ saves[i].map \notin RaidOrHeroic => saves[i].bind = Temporary
                             /\ saves[i].map \notin Global => saves[i].resetTime > 0

BaseInv ==
  /\ TypeOK /\ QueueOK(queue) /\ pending \in Seq(Write)
  /\ DownInv /\ TimesInv /\ SavesInv

(* F are the tables when all writes are executed. *)
Agrees(F) ==
  /\ up => F.reset = resetTime
  /\ \A i \in Id : Loaded(i) /\ F.rows[i] # NoRow => F.rows[i].map = saves[i].map

Matches(F) ==
  \A i \in Id : Loaded(i) => F.rows[i] # NoRow /\ F.rows[i].bind = saves[i].bind

OwnTime(F, i) == IF Loaded(i) THEN saves[i].resetTime ELSE F.rows[i].resetTime

EventsMatch(F) ==
  /\ Lone(queue)
  /\ \A e \in IdEvents(queue) :
       /\ e.type = 0 /\ e.id \notin inside
       /\ F.rows[e.id] # NoRow /\ F.rows[e.id].map \notin Global
       /\ e.at = OwnTime(F, e.id)

RowsMatch(F) ==
  \A i \in Id : F.rows[i] # NoRow =>
    /\ up => i \in used
    /\ F.rows[i].map \notin Global =>
         /\ i \in inside => Loaded(i)
         /\ up /\ i \notin inside /\ OwnTime(F, i) > now => \E e \in IdEvents(queue) : e.id = i

(* No dungeon but a raid or heroic one is reset with its map. *)
RaidsOnly == RaidOrHeroic = Global

AloneInv(F) == RaidsOnly => Matches(F) /\ EventsMatch(F) /\ RowsMatch(F)

TablesInv == \E F : Leads(Here, pending, F, ~forced) /\ Agrees(F) /\ AloneInv(F)

MemoryInv == BaseInv /\ TablesInv

LEMMA TypeFacts ==
  ASSUME TypeOK
  PROVE  /\ now \in Nat /\ now \in Int /\ queue \in Seq(Event) /\ Sorted(queue)
         /\ \A i \in Id : Loaded(i) => /\ saves[i] \in Save /\ saves[i].map \in Map
                                       /\ saves[i].resetTime \in Int /\ saves[i].bind \in Bind
         /\ \A i \in Id : rows[i] # NoRow => /\ rows[i] \in Row /\ rows[i].map \in Map
                                             /\ rows[i].resetTime \in Int /\ rows[i].bind \in Bind
BY DEF TypeOK, Loaded, Save, Row, Sorted

LEMMA AfterRows ==
  ASSUME NEW w, NEW d, NEW j \in Id
  PROVE  After(w, d).rows[j] = RowAfter(w, j, d.rows[j])
BY DEF After

LEMMA AfterTyped ==
  ASSUME NEW w \in Write, NEW d \in Tables
  PROVE  After(w, d) \in Tables
<1>1. \A j \in Id : RowAfter(w, j, d.rows[j]) \in Row \cup {NoRow}
  <2> SUFFICES ASSUME NEW j \in Id PROVE RowAfter(w, j, d.rows[j]) \in Row \cup {NoRow}
    OBVIOUS
  <2>1. d.rows[j] \in Row \cup {NoRow}
    BY DEF Tables
  <2>2. QED
    BY <2>1, RowAfterTyped
<1>2. [j \in Id |-> RowAfter(w, j, d.rows[j])] \in [Id -> Row \cup {NoRow}]
  BY <1>1
<1>3. d.reset \in [Global -> Int]
  BY DEF Tables
<1>4. w.op = "schedule" => w.map \in Global /\ w.time \in Int
  BY DEF Write
<1>5. (IF w.op = "schedule" THEN [d.reset EXCEPT ![w.map] = w.time] ELSE d.reset) \in [Global -> Int]
  BY <1>3, <1>4
<1>6. QED
  BY <1>2, <1>5 DEF After, Tables

LEMMA SameTables ==
  ASSUME UNCHANGED <<rows, resetRow, pending, forced>>, NEW F, Leads(Here, pending, F, ~forced)
  PROVE  Leads(Here', pending', F, ~forced')
<1>1. Here' = Here
  BY DEF Here
<1>2. QED
  BY <1>1

LEMMA OneWrite ==
  ASSUME UNCHANGED <<rows, resetRow, forced>>, pending \in Seq(Write), NEW w \in Write, pending' = pending \o <<w>>,
         NEW F, Leads(Here, pending, F, ~forced), TablesOK(After(w, F), ~forced)
  PROVE  pending' \in Seq(Write) /\ Leads(Here', pending', After(w, F), ~forced')
<1>1. Here' = Here
  BY DEF Here
<1>2. pending' = Append(pending, w)
  BY AppendIsConcat
<1>3. Leads(Here, Append(pending, w), After(w, F), ~forced)
  BY LeadsOn
<1>4. Append(pending, w) \in Seq(Write) /\ forced' = forced
  OBVIOUS
<1>5. PICK G : G = After(w, F)
  OBVIOUS
<1>6. Leads(Here, pending', G, ~forced)
  BY <1>2, <1>3, <1>5
<1>7. Leads(Here', pending', G, ~forced')
  BY <1>1, <1>4, <1>6
<1>8. QED
  BY <1>2, <1>4, <1>5, <1>7

LEMMA InitMemory == Init => MemoryInv
<1> SUFFICES ASSUME Init PROVE MemoryInv
  OBVIOUS
<1>1. TypeOK /\ queue = <<>> /\ pending = <<>> /\ ~up
  <2>1. /\ resetTime \in [Global -> Int] /\ resetRow \in [Global -> Int]
        /\ saves \in [Id -> Save \cup {NoSave}] /\ rows \in [Id -> Row \cup {NoRow}]
        /\ queue = <<>> /\ pending = <<>> /\ now = 0 /\ inside = {} /\ used = {}
    BY DEF Init
  <2>3. ~up /\ up \in BOOLEAN /\ forced \in BOOLEAN
    BY Zenon DEF Init
  <2>2. queue \in Seq(Event) /\ \A k \in DOMAIN queue : FALSE
    BY <2>1
  <2>4. QED
    BY <2>1, <2>2, <2>3 DEF TypeOK
<1>2. QueueOK(queue)
  <2>1. queue \in Seq(Event) /\ \A k \in DOMAIN queue : FALSE
    BY <1>1
  <2>2. QED
    BY <2>1 DEF QueueOK, Sorted
<1>3. \A i \in Id : ~Loaded(i)
  BY DEF Init, Loaded
<1>4. BaseInv
  BY <1>1, <1>2, <1>3 DEF Init, BaseInv, DownInv, TimesInv, SavesInv
<1>5. TablesOK(Here, ~forced)
  <2>1. \A m \in Global : resetRow[m] = 0
    BY DEF Init
  <2>2. \A i \in Id : rows[i] = NoRow
    BY DEF Init
  <2>3. QED
    BY <1>1, <2>1, <2>2 DEF TablesOK, Here, Tables, TypeOK
<1>6. Leads(Here, pending, Here, ~forced)
  BY <1>1, <1>5, LeadsNowhere
<1>7. Agrees(Here)
  BY <1>1, <1>3 DEF Agrees
<1>8. AloneInv(Here)
  <2>1. \A i \in Id : rows[i] = NoRow
    BY DEF Init
  <2>2. IdEvents(queue) = {} /\ Lone(queue)
    BY <1>1 DEF IdEvents, Lone
  <2>3. QED
    BY <1>3, <2>1, <2>2 DEF AloneInv, Matches, EventsMatch, RowsMatch, Here
<1>9. QED
  BY <1>4, <1>6, <1>7, <1>8 DEF MemoryInv, TablesInv

(* A player enters. *)
LEMMA EnterMemory ==
  ASSUME MemoryInv, NEW i \in Id, Enter(i)
  PROVE  MemoryInv'
<1>1. /\ up /\ i \notin inside /\ Loaded(i)
      /\ inside' = inside \cup {i}
      /\ queue' = SetResetSchedule(queue, FALSE, i, saves[i].map, saves[i].resetTime)
      /\ UNCHANGED <<now, up, resetTime, saves, used, rows, resetRow, pending, forced>>
  BY DEF Enter, PlayersAct, tableVars
<1>2. BaseInv
  BY DEF MemoryInv
<1>3. saves[i].map \in Map /\ saves[i].resetTime \in Int
  BY <1>1, <1>2, TypeFacts DEF BaseInv
<1>4. QueueOK(queue')
  BY <1>1, <1>2, <1>3, SetResetScheduleOK DEF BaseInv
<1>5. BaseInv'
  <2>1. TypeOK'
    BY <1>1, <1>2, <1>4 DEF BaseInv, TypeOK, QueueOK, Sorted
  <2>2. DownInv' /\ TimesInv' /\ SavesInv'
    BY <1>1, <1>2 DEF BaseInv, DownInv, TimesInv, SavesInv, Loaded
  <2>3. QED
    BY <1>1, <1>2, <1>4, <2>1, <2>2 DEF BaseInv
<1>6. PICK F : Leads(Here, pending, F, ~forced) /\ Agrees(F) /\ AloneInv(F)
  BY DEF MemoryInv, TablesInv
<1>7. Leads(Here', pending', F, ~forced')
  BY <1>1, <1>6, SameTables
<1>8. Agrees(F)'
  BY <1>1, <1>6 DEF Agrees, Loaded
<1>9. AloneInv(F)'
  <2> SUFFICES ASSUME RaidsOnly PROVE (Matches(F) /\ EventsMatch(F) /\ RowsMatch(F))'
    BY DEF AloneInv, RaidsOnly
  <2>1. Matches(F) /\ EventsMatch(F) /\ RowsMatch(F)
    BY <1>6 DEF AloneInv
  <2>2. IdEvents(queue') = {e \in IdEvents(queue) : e.id # i} /\ Lone(queue')
    <3>1. CASE saves[i].map \in RaidOrHeroic
      <4>1. queue' = queue
        BY <1>1, <3>1 DEF SetResetSchedule
      <4>2. F.rows[i] # NoRow /\ F.rows[i].map \in Global
        BY <1>1, <1>6, <2>1, <3>1 DEF Matches, Agrees, RaidsOnly
      <4>3. \A e \in IdEvents(queue) : e.id # i
        BY <2>1, <4>2 DEF EventsMatch
      <4>4. QED
        BY <2>1, <4>1, <4>3 DEF EventsMatch
    <3>2. CASE saves[i].map \notin RaidOrHeroic
      <4>1. queue' = Unscheduled(queue, saves[i].resetTime, i)
        BY <1>1, <3>2 DEF SetResetSchedule
      <4>2. Lone(queue) /\ QueueOK(queue)
        BY <1>2, <2>1 DEF EventsMatch, BaseInv
      <4>3. QED
        BY <4>1, <4>2, UnscheduledIdEvents
    <3>3. QED
      BY <3>1, <3>2
  <2>3. \A j \in Id : OwnTime(F, j)' = OwnTime(F, j) /\ Loaded(j)' = Loaded(j)
    BY <1>1 DEF OwnTime, Loaded
  <2>4. Matches(F)'
    BY <1>1, <2>1 DEF Matches, Loaded
  <2>5. EventsMatch(F)'
    BY <1>1, <2>1, <2>2, <2>3, IdEventsOf DEF EventsMatch
  <2>6. RowsMatch(F)'
    BY <1>1, <2>1, <2>2, <2>3 DEF RowsMatch
  <2>7. QED
    BY <2>4, <2>5, <2>6
<1>10. QED
  BY <1>5, <1>7, <1>8, <1>9 DEF MemoryInv, TablesInv

(* The last player leaves. *)
LEMMA LeaveMemory ==
  ASSUME MemoryInv, NEW i \in Id, Leave(i)
  PROVE  MemoryInv'
<1>1. /\ up /\ i \in inside
      /\ inside' = inside \ {i}
      /\ queue' = IF Loaded(i)
                  THEN SetResetSchedule(queue, TRUE, i, saves[i].map, saves[i].resetTime)
                  ELSE queue
      /\ UNCHANGED <<now, up, resetTime, saves, used, rows, resetRow, pending, forced>>
  BY DEF Leave, PlayersAct, tableVars
<1>2. BaseInv
  BY DEF MemoryInv
<1>3. Loaded(i) => saves[i].map \in Map /\ saves[i].resetTime \in Int
  BY <1>2, TypeFacts DEF BaseInv
<1>4. QueueOK(queue')
  <2>1. CASE Loaded(i)
    BY <1>1, <1>2, <1>3, <2>1, SetResetScheduleOK DEF BaseInv
  <2>2. CASE ~Loaded(i)
    BY <1>1, <1>2, <2>2 DEF BaseInv
  <2>3. QED
    BY <2>1, <2>2
<1>5. BaseInv'
  <2>1. TypeOK'
    BY <1>1, <1>2, <1>4 DEF BaseInv, TypeOK, QueueOK, Sorted
  <2>2. DownInv' /\ TimesInv' /\ SavesInv'
    BY <1>1, <1>2 DEF BaseInv, DownInv, TimesInv, SavesInv, Loaded
  <2>3. QED
    BY <1>1, <1>2, <1>4, <2>1, <2>2 DEF BaseInv
<1>6. PICK F : Leads(Here, pending, F, ~forced) /\ Agrees(F) /\ AloneInv(F)
  BY DEF MemoryInv, TablesInv
<1>7. Leads(Here', pending', F, ~forced')
  BY <1>1, <1>6, SameTables
<1>8. Agrees(F)'
  BY <1>1, <1>6 DEF Agrees, Loaded
<1>9. AloneInv(F)'
  <2> SUFFICES ASSUME RaidsOnly PROVE (Matches(F) /\ EventsMatch(F) /\ RowsMatch(F))'
    BY DEF AloneInv, RaidsOnly
  <2>1. Matches(F) /\ EventsMatch(F) /\ RowsMatch(F)
    BY <1>6 DEF AloneInv
  <2>2. \A j \in Id : OwnTime(F, j)' = OwnTime(F, j) /\ Loaded(j)' = Loaded(j)
    BY <1>1 DEF OwnTime, Loaded
  <2>3. Matches(F)'
    BY <1>1, <2>1 DEF Matches, Loaded
  <2>4. CASE Loaded(i) /\ saves[i].map \notin Global
    <3> DEFINE e0 == [at |-> saves[i].resetTime, type |-> 0, map |-> saves[i].map, id |-> i]
    <3>1. queue' = Scheduled(queue, saves[i].resetTime, 0, saves[i].map, i)
      BY <1>1, <2>4 DEF SetResetSchedule, RaidsOnly
    <3>2. \A e \in IdEvents(queue) : e.id # i
      BY <1>1, <2>1 DEF EventsMatch
    <3>3. IdEvents(queue') = IdEvents(queue) \cup {e0} /\ Lone(queue')
      <4>1. Lone(queue) /\ QueueOK(queue)
        BY <1>2, <2>1 DEF EventsMatch, BaseInv
      <4>2. QED
        BY <1>3, <2>4, <3>1, <3>2, <4>1, ScheduledIdEvents
    <3>4. e0.type = 0 /\ e0.id = i /\ e0.at = OwnTime(F, i)
      BY <2>4 DEF OwnTime
    <3>5. F.rows[i] # NoRow /\ F.rows[i].map \notin Global
      BY <1>6, <2>1, <2>4 DEF Matches, Agrees
    <3> HIDE DEF e0
    <3>6. EventsMatch(F)'
      BY <1>1, <2>1, <2>2, <3>3, <3>4, <3>5, IdEventsOf DEF EventsMatch
    <3>7. RowsMatch(F)'
      BY <1>1, <2>1, <2>2, <3>3, <3>4 DEF RowsMatch
    <3>8. QED
      BY <2>3, <3>6, <3>7
  <2>5. CASE ~(Loaded(i) /\ saves[i].map \notin Global)
    <3>1. queue' = queue
      BY <1>1, <2>5 DEF SetResetSchedule, RaidsOnly
    <3>2. ~(F.rows[i] # NoRow /\ F.rows[i].map \notin Global)
      BY <1>1, <1>6, <2>1, <2>5 DEF RowsMatch, Agrees
    <3>3. EventsMatch(F)'
      BY <1>1, <2>1, <2>2, <3>1, <3>2, IdEventsOf DEF EventsMatch
    <3>4. RowsMatch(F)'
      BY <1>1, <2>1, <2>2, <3>1, <3>2 DEF RowsMatch
    <3>5. QED
      BY <2>3, <3>3, <3>4
  <2>6. QED
    BY <2>4, <2>5
<1>10. QED
  BY <1>5, <1>7, <1>8, <1>9 DEF MemoryInv, TablesInv


(* Only the clock moves: fewer instances must have an event. *)
LEMMA TickMemory ==
  ASSUME MemoryInv, Tick
  PROVE  MemoryInv'
<1>1. now' = now + 1 /\ UNCHANGED <<up, resetTime, queue, saves, inside, used, rows, resetRow, pending, forced>>
  BY DEF Tick, memoryVars, tableVars
<1>2. BaseInv /\ now \in Nat
  BY DEF MemoryInv, BaseInv, TypeOK
<1>3. now' \in Nat /\ now' > now
  BY <1>1, <1>2
<1>4. BaseInv'
  <2>1. TypeOK'
    BY <1>1, <1>2, <1>3 DEF BaseInv, TypeOK
  <2>2. DownInv' /\ TimesInv' /\ SavesInv'
    BY <1>1, <1>2 DEF BaseInv, DownInv, TimesInv, SavesInv, Loaded
  <2>3. QED
    BY <1>1, <1>2, <2>1, <2>2 DEF BaseInv
<1>5. PICK F : Leads(Here, pending, F, ~forced) /\ Agrees(F) /\ AloneInv(F)
  BY DEF MemoryInv, TablesInv
<1>6. Leads(Here', pending', F, ~forced')
  BY <1>1, <1>5, SameTables
<1>7. Agrees(F)'
  BY <1>1, <1>5 DEF Agrees, Loaded
<1>8. AloneInv(F)'
  <2> SUFFICES ASSUME RaidsOnly PROVE (Matches(F) /\ EventsMatch(F) /\ RowsMatch(F))'
    BY DEF AloneInv, RaidsOnly
  <2>1. Matches(F) /\ EventsMatch(F) /\ RowsMatch(F)
    BY <1>5 DEF AloneInv
  <2>2. \A j \in Id : OwnTime(F, j)' = OwnTime(F, j) /\ Loaded(j)' = Loaded(j)
    BY <1>1 DEF OwnTime, Loaded
  <2>3. Matches(F)'
    BY <1>1, <2>1 DEF Matches, Loaded
  <2>4. EventsMatch(F)'
    BY <1>1, <2>1, <2>2, IdEventsOf DEF EventsMatch
  <2>5. RowsMatch(F)'
    <3>1. F \in Tables
      BY <1>2, <1>5, LeadsEnds DEF BaseInv, TablesOK
    <3>2. \A j \in Id : F.rows[j] # NoRow => OwnTime(F, j) \in Int
      BY <1>2, <3>1, TypeFacts DEF OwnTime, Tables, Row, BaseInv
    <3>3. \A j \in Id : F.rows[j] # NoRow /\ OwnTime(F, j) > now' => OwnTime(F, j) > now
      BY <1>2, <1>3, <3>2
    <3>4. QED
      BY <1>1, <2>1, <2>2, <3>3 DEF RowsMatch
  <2>6. QED
    BY <2>3, <2>4, <2>5
<1>9. QED
  BY <1>4, <1>6, <1>7, <1>8 DEF MemoryInv, TablesInv

(* The reset time of an instance moves while a player is inside. *)
LEMMA SetResetTimeMemory ==
  ASSUME MemoryInv, NEW i \in Id, SetResetTime(i)
  PROVE  MemoryInv'
<1>1. /\ up /\ i \in inside /\ Loaded(i) /\ saves[i].map \notin RaidOrHeroic
      /\ saves' = [saves EXCEPT ![i].resetTime = now + 2 * Hour]
      /\ UNCHANGED <<now, up, resetTime, queue, inside, used, rows, resetRow, pending, forced>>
  BY DEF SetResetTime, PlayersAct, tableVars
<1>2. BaseInv
  BY DEF MemoryInv
<1>3. now + 2 * Hour \in Int /\ now + 2 * Hour > 0
  BY <1>2, HourFacts DEF BaseInv, TypeOK
<1> DEFINE s == [saves[i] EXCEPT !.resetTime = now + 2 * Hour]
<1>4. /\ s \in Save /\ s # NoSave /\ s.map = saves[i].map /\ s.bind = saves[i].bind
      /\ s.resetTime = now + 2 * Hour
  <2>1. saves[i] \in Save
    BY <1>1, <1>2, TypeFacts DEF BaseInv
  <2>2. s \in Save /\ s.map = saves[i].map /\ s.bind = saves[i].bind /\ s.resetTime = now + 2 * Hour
    BY <1>3, <2>1 DEF Save
  <2>3. QED
    BY <2>2, NoneAssumption
<1> HIDE DEF s
<1>5. saves' = [saves EXCEPT ![i] = s]
  BY <1>1 DEF s
<1>6. saves \in [Id -> Save \cup {NoSave}]
  BY <1>2 DEF BaseInv, TypeOK
<1>7. saves'[i] = s /\ \A j \in Id : j # i => saves'[j] = saves[j]
  BY <1>5, <1>6
<1>8. \A j \in Id : /\ Loaded(j)' = Loaded(j)
                    /\ Loaded(j) => saves'[j].map = saves[j].map /\ saves'[j].bind = saves[j].bind
  <2> SUFFICES ASSUME NEW j \in Id
               PROVE  /\ Loaded(j)' = Loaded(j)
                      /\ Loaded(j) => saves'[j].map = saves[j].map /\ saves'[j].bind = saves[j].bind
    OBVIOUS
  <2>1. CASE j = i
    BY <1>1, <1>4, <1>7, <2>1 DEF Loaded
  <2>2. CASE j # i
    BY <1>7, <2>2 DEF Loaded
  <2>3. QED
    BY <2>1, <2>2
<1>9. BaseInv'
  <2>1. saves' \in [Id -> Save \cup {NoSave}]
    BY <1>4, <1>5, <1>6
  <2>2. TypeOK'
    BY <1>1, <1>2, <2>1 DEF BaseInv, TypeOK
  <2>3. DownInv' /\ TimesInv'
    BY <1>1, <1>2, <1>8 DEF BaseInv, DownInv, TimesInv
  <2>4. SavesInv'
    BY <1>2, <1>3, <1>4, <1>7, <1>8 DEF BaseInv, SavesInv
  <2>5. QED
    BY <1>1, <1>2, <2>2, <2>3, <2>4 DEF BaseInv
<1>10. PICK F : Leads(Here, pending, F, ~forced) /\ Agrees(F) /\ AloneInv(F)
  BY DEF MemoryInv, TablesInv
<1>11. Leads(Here', pending', F, ~forced')
  BY <1>1, <1>10, SameTables
<1>12. Agrees(F)'
  BY <1>1, <1>8, <1>10 DEF Agrees
<1>13. AloneInv(F)'
  <2> SUFFICES ASSUME RaidsOnly PROVE (Matches(F) /\ EventsMatch(F) /\ RowsMatch(F))'
    BY DEF AloneInv, RaidsOnly
  <2>1. Matches(F) /\ EventsMatch(F) /\ RowsMatch(F)
    BY <1>10 DEF AloneInv
  <2>2. \A j \in Id : j # i => OwnTime(F, j)' = OwnTime(F, j)
    BY <1>7, <1>8 DEF OwnTime
  <2>3. Matches(F)'
    BY <1>8, <2>1 DEF Matches
  <2>4. EventsMatch(F)'
    BY <1>1, <2>1, <2>2, IdEventsOf DEF EventsMatch
  <2>5. RowsMatch(F)'
    BY <1>1, <1>8, <2>1, <2>2 DEF RowsMatch
  <2>6. QED
    BY <2>3, <2>4, <2>5
<1>14. QED
  BY <1>9, <1>11, <1>12, <1>13 DEF MemoryInv, TablesInv

(* The character logs in: his row is as good as the one after the writes.  *)
LEMMA LoginMemory ==
  ASSUME MemoryInv, NEW i \in Id, Login(i)
  PROVE  MemoryInv'
<1> DEFINE alone == rows[i].map \notin Global
           t == rows[i].resetTime
           T == IF t # 0 THEN t ELSE IF alone THEN now + 2 * Hour ELSE resetTime[rows[i].map]
           s == [map |-> rows[i].map, resetTime |-> T, bind |-> rows[i].bind]
<1>1. /\ up /\ ~Loaded(i) /\ rows[i] # NoRow
      /\ \A k \in DOMAIN pending : ~Concerns(pending[k], i, rows[i].map)
      /\ saves' = [saves EXCEPT ![i] = AddInstanceSave(i, rows[i].map, rows[i].resetTime, rows[i].bind).save]
      /\ queue' = AddInstanceSave(i, rows[i].map, rows[i].resetTime, rows[i].bind).queue
      /\ UNCHANGED <<now, up, resetTime, inside, used, rows, resetRow, pending, forced>>
  BY DEF Login, PlayersAct, tableVars, Concerns
<1>2. BaseInv
  BY DEF MemoryInv
<1>3. PICK F : Leads(Here, pending, F, ~forced) /\ Agrees(F) /\ AloneInv(F)
  BY DEF MemoryInv, TablesInv
<1>4. /\ TablesOK(Here, ~forced) /\ TablesOK(F, ~forced)
      /\ \A j \in Id : Here.rows[j] # NoRow /\ (\A k \in DOMAIN pending : ~Concerns(pending[k], j, Here.rows[j].map))
                         => F.rows[j] = Here.rows[j]
  BY <1>2, <1>3, LeadsEnds DEF BaseInv
<1>5. F.rows[i] = rows[i] /\ RowOK(rows[i], resetRow, ~forced)
  BY <1>1, <1>4 DEF Here, TablesOK
<1>6. /\ rows[i].map \in Map /\ t \in Int /\ rows[i].bind \in Bind
      /\ alone => t > 0
      /\ rows[i].map \notin RaidOrHeroic => rows[i].bind = Temporary
  BY <1>1, <1>2, <1>5, TypeFacts DEF BaseInv, RowOK
<1>7. saves' = [saves EXCEPT ![i] = s] /\ queue' = queue
  BY <1>1, <1>6 DEF AddInstanceSave
<1>8. T \in Int /\ (alone => T = t /\ T > 0)
  BY <1>2, <1>6 DEF BaseInv, TypeOK
<1>9. s \in Save /\ s # NoSave /\ s.map = rows[i].map /\ s.bind = rows[i].bind /\ s.resetTime = T
  <2>1. s \in Save
    BY <1>6, <1>8 DEF Save
  <2>2. QED
    BY <2>1, NoneAssumption
<1> HIDE DEF s, T, alone
<1>10. saves \in [Id -> Save \cup {NoSave}]
  BY <1>2 DEF BaseInv, TypeOK
<1>11. saves'[i] = s /\ \A j \in Id : j # i => saves'[j] = saves[j]
  BY <1>7, <1>10
<1>12. Loaded(i)' /\ \A j \in Id : j # i => Loaded(j)' = Loaded(j)
  BY <1>9, <1>11 DEF Loaded
<1>13. BaseInv'
  <2>1. saves' \in [Id -> Save \cup {NoSave}]
    BY <1>7, <1>9, <1>10
  <2>2. TypeOK'
    BY <1>1, <1>2, <1>7, <2>1 DEF BaseInv, TypeOK
  <2>3. DownInv' /\ TimesInv'
    BY <1>1, <1>2 DEF BaseInv, DownInv, TimesInv
  <2>4. SavesInv'
    <3> SUFFICES ASSUME NEW j \in Id, Loaded(j)'
                 PROVE  /\ saves'[j].map \notin RaidOrHeroic => saves'[j].bind = Temporary
                        /\ saves'[j].map \notin Global => saves'[j].resetTime > 0
      BY DEF SavesInv
    <3>1. CASE j = i
      BY <1>6, <1>8, <1>9, <1>11, <3>1 DEF alone
    <3>2. CASE j # i
      BY <1>2, <1>11, <1>12, <3>2 DEF BaseInv, SavesInv
    <3>3. QED
      BY <3>1, <3>2
  <2>5. QED
    BY <1>1, <1>2, <1>7, <2>2, <2>3, <2>4 DEF BaseInv
<1>14. Leads(Here', pending', F, ~forced')
  BY <1>1, <1>3, SameTables
<1>15. Agrees(F)'
  <2>1. \A j \in Id : Loaded(j)' /\ F.rows[j] # NoRow => F.rows[j].map = saves'[j].map
    <3> SUFFICES ASSUME NEW j \in Id, Loaded(j)', F.rows[j] # NoRow PROVE F.rows[j].map = saves'[j].map
      OBVIOUS
    <3>1. CASE j = i
      BY <1>5, <1>9, <1>11, <3>1
    <3>2. CASE j # i
      BY <1>3, <1>11, <1>12, <3>2 DEF Agrees
    <3>3. QED
      BY <3>1, <3>2
  <2>2. QED
    BY <1>1, <1>3, <2>1 DEF Agrees
<1>16. AloneInv(F)'
  <2> SUFFICES ASSUME RaidsOnly PROVE (Matches(F) /\ EventsMatch(F) /\ RowsMatch(F))'
    BY DEF AloneInv, RaidsOnly
  <2>1. Matches(F) /\ EventsMatch(F) /\ RowsMatch(F)
    BY <1>3 DEF AloneInv
  <2>2. \A j \in Id : j # i => OwnTime(F, j)' = OwnTime(F, j)
    BY <1>11, <1>12 DEF OwnTime
  <2>3. F.rows[i].map \notin Global => OwnTime(F, i)' = OwnTime(F, i)
    BY <1>1, <1>5, <1>8, <1>9, <1>11, <1>12 DEF OwnTime, alone
  <2>4. Matches(F)'
    <3> SUFFICES ASSUME NEW j \in Id, Loaded(j)' PROVE F.rows[j] # NoRow /\ F.rows[j].bind = saves'[j].bind
      BY DEF Matches
    <3>1. CASE j = i
      BY <1>1, <1>5, <1>9, <1>11, <3>1
    <3>2. CASE j # i
      BY <1>11, <1>12, <2>1, <3>2 DEF Matches
    <3>3. QED
      BY <3>1, <3>2
  <2>5. EventsMatch(F)'
    BY <1>1, <1>7, <2>1, <2>2, <2>3, IdEventsOf DEF EventsMatch
  <2>6. RowsMatch(F)'
    BY <1>1, <1>7, <1>12, <2>1, <2>2, <2>3 DEF RowsMatch
  <2>7. QED
    BY <2>4, <2>5, <2>6
<1>17. QED
  BY <1>13, <1>14, <1>15, <1>16 DEF MemoryInv, TablesInv


LEMMA LimitFacts ==
  ASSUME NEW m \in Global, NEW b \in Bind, NEW r \in Int
  PROVE  /\ Limit(m, b, r) \in Int /\ Limit(m, b, r) >= r
         /\ Limit(m, Temporary, r) = r
         /\ b > Expired => /\ b - 1 \in Bind /\ b - 1 # Temporary
                           /\ Limit(m, b, r) = Limit(m, b - 1, r + Period(m))
                           /\ Limit(m, b - 1, r) <= Limit(m, b, r)
<1>1. PICK p \in Nat : p = Period(m)
  BY PeriodFacts
<1>2. \A c \in Bind, x \in Int : Limit(m, c, x) = IF c = -1 THEN x ELSE x + c * p
  BY <1>1 DEF Limit, Temporary
<1>3. Bind = {-1, 0, 1, 2} /\ Temporary = -1 /\ Expired = 0
  BY DEF Bind, Temporary, Expired, Extended
<1>4. r + p \in Int
  OBVIOUS
<1>5. CASE b = -1
  BY <1>2, <1>3, <1>5
<1>6. CASE b = 0
  BY <1>2, <1>3, <1>6
<1>7. CASE b = 1
  <2>1. Limit(m, b, r) = r + p /\ Limit(m, b - 1, r + p) = r + p /\ Limit(m, b - 1, r) = r
    BY <1>2, <1>3, <1>4, <1>7
  <2>2. QED
    BY <1>1, <1>2, <1>3, <1>7, <2>1
<1>8. CASE b = 2
  <2>1. Limit(m, b, r) = r + 2 * p /\ Limit(m, b - 1, r + p) = r + p + p /\ Limit(m, b - 1, r) = r + p
    BY <1>2, <1>3, <1>4, <1>8
  <2>2. QED
    BY <1>1, <1>2, <1>3, <1>8, <2>1
<1>9. QED
  BY <1>3, <1>5, <1>6, <1>7, <1>8

(* A new instance, its save and its row. *)
LEMMA NewInstanceMemory ==
  ASSUME MemoryInv, NEW i \in Id, NEW m \in Map, NewInstance(i, m)
  PROVE  MemoryInv'
<1> DEFINE T == IF m \notin Global THEN now + 2 * Hour ELSE resetTime[m]
           s == [map |-> m, resetTime |-> T, bind |-> Temporary]
           q == IF m \notin Global THEN Scheduled(queue, T, 0, m, i) ELSE queue
           row == [map |-> m, resetTime |-> GetResetTimeForDB(m, T), bind |-> Temporary,
                   limit |-> Limit(m, Temporary, T)]
           w == [op |-> "insert", id |-> i, row |-> row]
<1>1. AddInstanceSave(i, m, 0, Temporary) = [save |-> s, queue |-> q]
  BY Zenon DEF AddInstanceSave
<1>2. /\ up /\ i \notin used \cup inside /\ ~Loaded(i)
      /\ saves' = [saves EXCEPT ![i] = s]
      /\ queue' = SetResetSchedule(q, FALSE, i, m, T)
      /\ pending' = pending \o <<w>>
      /\ used' = used \cup {i} /\ inside' = inside \cup {i}
      /\ UNCHANGED <<now, up, resetTime, rows, resetRow, forced>>
  <2> HIDE DEF q
  <2>1. /\ AddInstanceSave(i, m, 0, Temporary).save = s /\ AddInstanceSave(i, m, 0, Temporary).queue = q
        /\ s.resetTime = T
    BY <1>1
  <2> HIDE DEF s, T
  <2>2. QED
    BY <2>1 DEF NewInstance, PlayersAct, tableVars, Queue
<1>3. BaseInv
  BY DEF MemoryInv
<1>4. T \in Int /\ (m \notin Global => T > 0)
  BY <1>3, HourFacts DEF BaseInv, TypeOK
<1>5. s \in Save /\ s # NoSave /\ s.map = m /\ s.bind = Temporary /\ s.resetTime = T
  <2>1. s \in Save
    BY <1>4 DEF Save, Bind, Temporary, Extended
  <2>2. QED
    BY <2>1, NoneAssumption
<1>6. Limit(m, Temporary, T) = T
  BY DEF Limit
<1>7. GetResetTimeForDB(m, T) = IF m \in RaidOrHeroic THEN 0 ELSE T
  BY DEF GetResetTimeForDB
<1>8. row \in Row /\ row # NoRow /\ row.map = m /\ row.bind = Temporary /\ row.limit = T
      /\ row.resetTime = IF m \in RaidOrHeroic THEN 0 ELSE T
  <2>1. row \in Row
    BY <1>4, <1>6, <1>7 DEF Row, Bind, Temporary, Extended
  <2>2. QED
    BY <1>6, <1>7, <2>1, NoneAssumption
<1> HIDE DEF row, s
<1>9. w \in Write
  BY <1>8 DEF Write
<1>10. saves \in [Id -> Save \cup {NoSave}]
  BY <1>3 DEF BaseInv, TypeOK
<1>11. saves'[i] = s /\ \A j \in Id : j # i => saves'[j] = saves[j]
  BY <1>2, <1>10
<1>12. Loaded(i)' /\ \A j \in Id : j # i => Loaded(j)' = Loaded(j)
  BY <1>5, <1>11 DEF Loaded
<1>13. QueueOK(q)
  <2>1. CASE m \in Global
    BY <1>3, <2>1 DEF BaseInv
  <2>2. CASE m \notin Global
    <3>1. GoodEvent([at |-> T, type |-> 0, map |-> m, id |-> i])
      BY <2>2, MapsAssumption DEF GoodEvent
    <3>2. QueueOK(queue)
      BY <1>3 DEF BaseInv
    <3> HIDE DEF T
    <3>3. QueueOK(Scheduled(queue, T, 0, m, i))
      BY <1>4, <3>1, <3>2, ScheduledOK
    <3>4. QED
      BY <2>2, <3>3
  <2>3. QED
    BY <2>1, <2>2
<1>14. QueueOK(queue')
  <2> HIDE DEF q, T
  <2>1. QED
    BY <1>2, <1>4, <1>13, SetResetScheduleOK
<1>15. PICK F : Leads(Here, pending, F, ~forced) /\ Agrees(F) /\ AloneInv(F)
  BY DEF MemoryInv, TablesInv
<1>16. TablesOK(F, ~forced)
  BY <1>3, <1>15, LeadsEnds DEF BaseInv
<1>17. PICK G : G = After(w, F)
  OBVIOUS
<1>18. /\ G \in Tables /\ G.reset = F.reset
       /\ G.rows[i] = row /\ \A j \in Id : j # i => G.rows[j] = F.rows[j]
  <2>1. G \in Tables
    BY <1>17, <1>9, <1>16, AfterTyped DEF TablesOK
  <2>2. \A j \in Id : G.rows[j] = IF i = j THEN row ELSE F.rows[j]
    BY <1>17, AfterRows, RowAfterInsert
  <2>3. w.op # "schedule"
    OBVIOUS
  <2>4. G.reset = F.reset
    BY <1>17, <2>3 DEF After
  <2>5. QED
    BY <2>1, <2>2, <2>4
<1> HIDE DEF w
<1>19. TablesOK(G, ~forced)
  <2>1. RowOK(row, F.reset, ~forced)
    <3>1. m \in Global => F.reset[m] = T /\ T # 0 /\ T >= Limit(m, Temporary, T)
      BY <1>2, <1>3, <1>4, <1>6, <1>15 DEF Agrees, BaseInv, TimesInv, IsResetTime
    <3> HIDE DEF T
    <3>2. m \in RaidOrHeroic => m \in Global
      BY MapsAssumption
    <3>3. QED
      BY <1>4, <1>8, <3>1, <3>2 DEF RowOK
  <2>2. \A j \in Id : G.rows[j] # NoRow => RowOK(G.rows[j], G.reset, ~forced)
    BY <1>16, <1>18, <2>1 DEF TablesOK
  <2>3. QED
    BY <1>16, <1>18, <2>2 DEF TablesOK
<1>20. pending' \in Seq(Write) /\ Leads(Here', pending', G, ~forced')
  BY <1>2, <1>3, <1>9, <1>15, <1>19, <1>17, OneWrite DEF BaseInv
<1>21. BaseInv'
  <2>1. saves' \in [Id -> Save \cup {NoSave}]
    BY <1>2, <1>5, <1>10
  <2>2. TypeOK'
    BY <1>2, <1>3, <1>14, <2>1 DEF BaseInv, TypeOK, QueueOK, Sorted
  <2>3. DownInv' /\ TimesInv'
    BY <1>2, <1>3 DEF BaseInv, DownInv, TimesInv
  <2>4. SavesInv'
    <3> SUFFICES ASSUME NEW j \in Id, Loaded(j)'
                 PROVE  /\ saves'[j].map \notin RaidOrHeroic => saves'[j].bind = Temporary
                        /\ saves'[j].map \notin Global => saves'[j].resetTime > 0
      BY DEF SavesInv
    <3>1. CASE j = i
      BY <1>4, <1>5, <1>11, <3>1
    <3>2. CASE j # i
      BY <1>3, <1>11, <1>12, <3>2 DEF BaseInv, SavesInv
    <3>3. QED
      BY <3>1, <3>2
  <2>5. QED
    BY <1>14, <1>20, <2>2, <2>3, <2>4 DEF BaseInv
<1>22. Agrees(G)'
  <2>1. \A j \in Id : Loaded(j)' /\ G.rows[j] # NoRow => G.rows[j].map = saves'[j].map
    <3> SUFFICES ASSUME NEW j \in Id, Loaded(j)', G.rows[j] # NoRow PROVE G.rows[j].map = saves'[j].map
      OBVIOUS
    <3>1. CASE j = i
      BY <1>5, <1>8, <1>11, <1>18, <3>1
    <3>2. CASE j # i
      BY <1>11, <1>12, <1>15, <1>18, <3>2 DEF Agrees
    <3>3. QED
      BY <3>1, <3>2
  <2>2. QED
    BY <1>2, <1>15, <1>18, <2>1 DEF Agrees
<1>23. AloneInv(G)'
  <2> SUFFICES ASSUME RaidsOnly PROVE (Matches(G) /\ EventsMatch(G) /\ RowsMatch(G))'
    BY DEF AloneInv, RaidsOnly
  <2>1. Matches(F) /\ EventsMatch(F) /\ RowsMatch(F)
    BY <1>15 DEF AloneInv
  <2>2. \A j \in Id : j # i => OwnTime(G, j)' = OwnTime(F, j)
    BY <1>11, <1>12, <1>18 DEF OwnTime
  <2>3. \A e \in IdEvents(queue) : e.id # i
    BY <1>2, <2>1, IdEventsOf DEF EventsMatch, RowsMatch
  <2>4. IdEvents(queue') = IdEvents(queue) /\ Lone(queue')
    <3>1. Lone(queue) /\ QueueOK(queue)
      BY <1>3, <2>1 DEF EventsMatch, BaseInv
    <3>2. CASE m \in Global
      <4>1. queue' = queue
        BY <1>2, <3>2 DEF SetResetSchedule, RaidsOnly
      <4>2. QED
        BY <3>1, <4>1
    <3>3. CASE m \notin Global
      <4> HIDE DEF T
      <4> DEFINE e0 == [at |-> T, type |-> 0, map |-> m, id |-> i]
      <4>1. IdEvents(q) = IdEvents(queue) \cup {e0} /\ Lone(q)
        BY <1>4, <2>3, <3>1, <3>3, ScheduledIdEvents
      <4>2. e0.id = i
        OBVIOUS
      <4> HIDE DEF q, e0
      <4>3. queue' = Unscheduled(q, T, i)
        BY <1>2, <3>3 DEF SetResetSchedule, RaidsOnly
      <4>4. IdEvents(queue') = {e \in IdEvents(q) : e.id # i} /\ Lone(queue')
        BY <1>13, <4>1, <4>3, UnscheduledIdEvents
      <4>5. QED
        BY <2>3, <4>1, <4>2, <4>4
    <3>4. QED
      BY <3>2, <3>3
  <2>5. Matches(G)'
    <3> SUFFICES ASSUME NEW j \in Id, Loaded(j)' PROVE G.rows[j] # NoRow /\ G.rows[j].bind = saves'[j].bind
      BY DEF Matches
    <3>1. CASE j = i
      BY <1>5, <1>8, <1>11, <1>18, <3>1
    <3>2. CASE j # i
      BY <1>11, <1>12, <1>18, <2>1, <3>2 DEF Matches
    <3>3. QED
      BY <3>1, <3>2
  <2>6. EventsMatch(G)'
    <3> SUFFICES ASSUME NEW e \in IdEvents(queue)
                 PROVE  /\ e.type = 0 /\ e.id \notin inside'
                        /\ G.rows[e.id] # NoRow /\ G.rows[e.id].map \notin Global
                        /\ e.at = OwnTime(G, e.id)'
      BY <2>4 DEF EventsMatch
    <3>1. e.id \in Id /\ e.id # i
      BY <2>3, IdEventsOf
    <3>2. G.rows[e.id] = F.rows[e.id] /\ OwnTime(G, e.id)' = OwnTime(F, e.id)
      BY <1>18, <2>2, <3>1
    <3>3. QED
      BY <1>2, <2>1, <3>1, <3>2 DEF EventsMatch
  <2>7. RowsMatch(G)'
    <3> SUFFICES ASSUME NEW j \in Id, G.rows[j] # NoRow
                 PROVE  /\ up' => j \in used'
                        /\ G.rows[j].map \notin Global =>
                             /\ j \in inside' => Loaded(j)'
                             /\ up' /\ j \notin inside' /\ OwnTime(G, j)' > now' => \E e \in IdEvents(queue') : e.id = j
      BY DEF RowsMatch
    <3>1. CASE j = i
      BY <1>2, <1>12, <3>1
    <3>2. CASE j # i
      BY <1>2, <1>12, <1>18, <2>1, <2>2, <2>4, <3>2 DEF RowsMatch
    <3>3. QED
      BY <3>1, <3>2
  <2>8. QED
    BY <2>5, <2>6, <2>7
<1>24. QED
  BY <1>20, <1>21, <1>22, <1>23 DEF MemoryInv, TablesInv

(* The bind of a character changes, in memory and in a write. *)
LEMMA RebindMemory ==
  ASSUME MemoryInv, NEW i \in Id, NEW b \in Bind, up, Loaded(i), saves[i].map \in RaidOrHeroic, Rebind(i, b)
  PROVE  MemoryInv'
<1> DEFINE m == saves[i].map
           t == Limit(m, b, resetTime[m])
           s == [saves[i] EXCEPT !.bind = b]
           w == [op |-> "bind", id |-> i, bind |-> b, limit |-> t]
<1>1. /\ saves' = [saves EXCEPT ![i] = s]
      /\ pending' = pending \o <<w>>
      /\ UNCHANGED <<now, up, resetTime, queue, inside, used, rows, resetRow, forced>>
  BY DEF Rebind, Queue, tableVars
<1>2. BaseInv
  BY DEF MemoryInv
<1>3. m \in Global /\ resetTime[m] \in Int /\ t \in Int
  BY <1>2, LimitFacts, MapsAssumption DEF BaseInv, TypeOK
<1>4. s \in Save /\ s # NoSave /\ s.map = m /\ s.bind = b /\ s.resetTime = saves[i].resetTime
  <2>1. saves[i] \in Save
    BY <1>2, TypeFacts DEF BaseInv
  <2>2. s \in Save /\ s.map = m /\ s.bind = b /\ s.resetTime = saves[i].resetTime
    BY <2>1 DEF Save
  <2>3. QED
    BY <2>2, NoneAssumption
<1>5. w \in Write
  <2> HIDE DEF t, m
  <2>1. QED
    BY <1>3 DEF Write
<1>6. saves \in [Id -> Save \cup {NoSave}]
  BY <1>2 DEF BaseInv, TypeOK
<1> HIDE DEF s
<1>7. saves'[i] = s /\ \A j \in Id : j # i => saves'[j] = saves[j]
  BY <1>1, <1>6
<1>8. Loaded(i)' /\ \A j \in Id : Loaded(j)' = Loaded(j)
  BY <1>4, <1>7 DEF Loaded
<1>9. PICK F : Leads(Here, pending, F, ~forced) /\ Agrees(F) /\ AloneInv(F)
  BY DEF MemoryInv, TablesInv
<1>10. TablesOK(F, ~forced)
  BY <1>2, <1>9, LeadsEnds DEF BaseInv
<1>11. PICK G : G = After(w, F)
  OBVIOUS
<1>12. /\ G \in Tables /\ G.reset = F.reset
       /\ G.rows[i] = IF F.rows[i] # NoRow THEN Bound(F.rows[i], b, t) ELSE NoRow
       /\ \A j \in Id : j # i => G.rows[j] = F.rows[j]
  <2>1. G \in Tables
    BY <1>11, <1>5, <1>10, AfterTyped DEF TablesOK
  <2> HIDE DEF t
  <2>2. \A j \in Id : G.rows[j] = IF i = j /\ F.rows[j] # NoRow THEN Bound(F.rows[j], b, t) ELSE F.rows[j]
    BY <1>11, AfterRows, RowAfterBind
  <2>3. w.op # "schedule"
    OBVIOUS
  <2>4. G.reset = F.reset
    BY <1>11, <2>3 DEF After
  <2> HIDE DEF w
  <2>5. QED
    BY <2>1, <2>2, <2>4
<1> HIDE DEF w
<1>13. F.rows[i] # NoRow =>
         /\ G.rows[i] # NoRow /\ G.rows[i].map = m /\ F.rows[i].map = m
         /\ G.rows[i].bind = b /\ G.rows[i].limit = t
         /\ G.rows[i].resetTime = F.rows[i].resetTime
  <2> SUFFICES ASSUME F.rows[i] # NoRow
               PROVE  /\ G.rows[i] # NoRow /\ G.rows[i].map = m /\ F.rows[i].map = m
                      /\ G.rows[i].bind = b /\ G.rows[i].limit = t
                      /\ G.rows[i].resetTime = F.rows[i].resetTime
    OBVIOUS
  <2>1. F.rows[i] \in Row /\ F.rows[i].map = m
    BY <1>9, <1>10 DEF TablesOK, Tables, Agrees
  <2>2. t \in Int
    BY <1>3
  <2> HIDE DEF t, m
  <2>3. /\ Bound(F.rows[i], b, t) \in Row /\ Bound(F.rows[i], b, t).map = F.rows[i].map
        /\ Bound(F.rows[i], b, t).bind = b /\ Bound(F.rows[i], b, t).limit = t
        /\ Bound(F.rows[i], b, t).resetTime = F.rows[i].resetTime
    BY <2>1, <2>2 DEF Bound, Row
  <2>4. QED
    BY <1>12, <2>1, <2>3, NoneAssumption
<1>14. TablesOK(G, ~forced)
  <2>1. \A j \in Id : G.rows[j] # NoRow => RowOK(G.rows[j], G.reset, ~forced)
    <3> SUFFICES ASSUME NEW j \in Id, G.rows[j] # NoRow PROVE RowOK(G.rows[j], G.reset, ~forced)
      OBVIOUS
    <3>1. CASE j = i
      <4>1. F.rows[i] # NoRow
        BY <1>12, <3>1
      <4>2. RowOK(F.rows[i], F.reset, ~forced)
        BY <1>10, <4>1 DEF TablesOK
      <4>3. F.reset[m] = resetTime[m]
        BY <1>9 DEF Agrees
      <4>4. t >= Limit(m, b, F.reset[m])
        BY <1>3, <4>3
      <4>5. m \in RaidOrHeroic /\ m \in Global
        BY <1>3
      <4> HIDE DEF t, m
      <4>6. QED
        BY <1>12, <1>13, <3>1, <4>1, <4>2, <4>4, <4>5 DEF RowOK
    <3>2. CASE j # i
      BY <1>10, <1>12, <3>2 DEF TablesOK
    <3>3. QED
      BY <3>1, <3>2
  <2>2. QED
    BY <1>10, <1>12, <2>1 DEF TablesOK
<1>15. pending' \in Seq(Write) /\ Leads(Here', pending', G, ~forced')
  BY <1>1, <1>2, <1>5, <1>9, <1>14, <1>11, OneWrite DEF BaseInv
<1>16. BaseInv'
  <2>1. saves' \in [Id -> Save \cup {NoSave}]
    BY <1>1, <1>4, <1>6
  <2>2. TypeOK'
    BY <1>1, <1>2, <2>1 DEF BaseInv, TypeOK
  <2>3. DownInv' /\ TimesInv'
    BY <1>1, <1>2 DEF BaseInv, DownInv, TimesInv
  <2>4. SavesInv'
    BY <1>2, <1>3, <1>4, <1>7, <1>8 DEF BaseInv, SavesInv
  <2>5. QED
    BY <1>1, <1>2, <1>15, <2>2, <2>3, <2>4 DEF BaseInv
<1>17. \A j \in Id : G.rows[j] # NoRow <=> F.rows[j] # NoRow
  BY <1>12, <1>13
<1>18. Agrees(G)'
  <2>1. \A j \in Id : Loaded(j)' /\ G.rows[j] # NoRow => G.rows[j].map = saves'[j].map
    BY <1>4, <1>7, <1>8, <1>9, <1>12, <1>13, <1>17 DEF Agrees
  <2>2. QED
    BY <1>1, <1>9, <1>12, <2>1 DEF Agrees
<1>19. AloneInv(G)'
  <2> SUFFICES ASSUME RaidsOnly PROVE (Matches(G) /\ EventsMatch(G) /\ RowsMatch(G))'
    BY DEF AloneInv, RaidsOnly
  <2>1. Matches(F) /\ EventsMatch(F) /\ RowsMatch(F)
    BY <1>9 DEF AloneInv
  <2>2. F.rows[i] # NoRow
    BY <2>1 DEF Matches
  <2>3. \A j \in Id : j # i => OwnTime(G, j)' = OwnTime(F, j)
    BY <1>7, <1>8, <1>12 DEF OwnTime
  <2>4. Matches(G)'
    BY <1>4, <1>7, <1>8, <1>12, <1>13, <2>1, <2>2 DEF Matches
  <2>5. EventsMatch(G)'
    BY <1>1, <1>3, <1>12, <1>13, <2>1, <2>2, <2>3, IdEventsOf DEF EventsMatch
  <2>6. RowsMatch(G)'
    BY <1>1, <1>3, <1>8, <1>12, <1>13, <2>1, <2>2, <2>3 DEF RowsMatch
  <2>7. QED
    BY <2>4, <2>5, <2>6
<1>20. QED
  BY <1>15, <1>16, <1>18, <1>19 DEF MemoryInv, TablesInv

LEMMA PermBindMemory ==
  ASSUME MemoryInv, NEW i \in Id, PermBind(i)
  PROVE  MemoryInv'
<1>1. up /\ Loaded(i) /\ saves[i].map \in RaidOrHeroic /\ Rebind(i, Normal) /\ Normal \in Bind
  BY DEF PermBind, PlayersAct, Normal, Bind, Temporary, Extended
<1>2. QED
  BY <1>1, RebindMemory

LEMMA ExtendMemory ==
  ASSUME MemoryInv, NEW i \in Id, Extend(i)
  PROVE  MemoryInv'
<1>1. /\ up /\ Loaded(i) /\ Normal \in Bind /\ Extended \in Bind
      /\ Rebind(i, Extended) \/ Rebind(i, Normal)
      /\ saves[i].bind # Temporary
  BY DEF Extend, PlayersAct, Normal, Bind, Temporary, Expired, Extended
<1>2. saves[i].map \in RaidOrHeroic
  BY <1>1 DEF MemoryInv, BaseInv, SavesInv
<1>3. QED
  BY <1>1, <1>2, RebindMemory


(* The character logs out: the time of his instance goes to its row. *)
LEMMA LogoutMemory ==
  ASSUME MemoryInv, NEW i \in Id, Logout(i)
  PROVE  MemoryInv'
<1> DEFINE m == saves[i].map
           t == GetResetTimeForDB(m, saves[i].resetTime)
           w == [op |-> "time", id |-> i, time |-> t]
<1>1. /\ up /\ Loaded(i) /\ i \notin inside
      /\ saves' = [saves EXCEPT ![i] = NoSave]
      /\ pending' = pending \o (IF t = 0 THEN <<>> ELSE <<w>>)
      /\ UNCHANGED <<now, up, resetTime, queue, inside, used, rows, resetRow, forced>>
  BY DEF Logout, PlayersAct, Queue, tableVars
<1>2. BaseInv
  BY DEF MemoryInv
<1>3. saves \in [Id -> Save \cup {NoSave}] /\ pending \in Seq(Write) /\ saves[i].resetTime \in Int
  BY <1>1, <1>2, TypeFacts DEF BaseInv, TypeOK
<1>4. ~Loaded(i)' /\ \A j \in Id : j # i => saves'[j] = saves[j] /\ Loaded(j)' = Loaded(j)
  BY <1>1, <1>3 DEF Loaded
<1>5. t \in Int /\ (m \notin Global => t = saves[i].resetTime /\ t > 0) /\ (t # 0 => m \notin RaidOrHeroic)
  BY <1>1, <1>2, <1>3, MapsAssumption DEF GetResetTimeForDB, BaseInv, SavesInv
<1> HIDE DEF t, m
<1>6. w \in Write
  BY <1>5 DEF Write
<1>7. PICK F : Leads(Here, pending, F, ~forced) /\ Agrees(F) /\ AloneInv(F)
  BY DEF MemoryInv, TablesInv
<1>8. TablesOK(F, ~forced) /\ (F.rows[i] # NoRow => F.rows[i].map = m)
  BY <1>1, <1>2, <1>7, LeadsEnds DEF BaseInv, Agrees, m
<1>9. PICK G :
        /\ pending' \in Seq(Write) /\ Leads(Here', pending', G, ~forced')
        /\ G.reset = F.reset
        /\ \A j \in Id : j # i => G.rows[j] = F.rows[j]
        /\ G.rows[i] # NoRow <=> F.rows[i] # NoRow
        /\ G.rows[i] # NoRow => /\ G.rows[i].map = m /\ G.rows[i].bind = F.rows[i].bind
                                /\ m \notin Global => G.rows[i].resetTime = saves[i].resetTime
  <2>1. CASE t = 0
    <3>1. pending' = pending
      BY <1>1, <1>3, <2>1, ConcatEmptySeq
    <3>2. Leads(Here', pending', F, ~forced')
      BY <1>1, <1>7, <3>1, SameTables
    <3>3. QED
      BY <1>3, <1>5, <1>8, <2>1, <3>1, <3>2
  <2>2. CASE t # 0
    <3>1. PICK G : G = After(w, F)
      OBVIOUS
    <3>2. G \in Tables
      BY <1>6, <1>8, <3>1, AfterTyped DEF TablesOK
    <3>3. \A j \in Id : G.rows[j] = IF i = j /\ F.rows[j] # NoRow THEN [F.rows[j] EXCEPT !.resetTime = t] ELSE F.rows[j]
      BY <3>1, AfterRows, RowAfterTime
    <3>4. G.reset = F.reset
      <4>1. w.op # "schedule"
        OBVIOUS
      <4>2. QED
        BY <3>1, <4>1 DEF After
    <3> HIDE DEF w
    <3>5. F.rows[i] # NoRow =>
            /\ G.rows[i] # NoRow /\ G.rows[i].map = m /\ G.rows[i].bind = F.rows[i].bind
            /\ G.rows[i].resetTime = t /\ G.rows[i].limit = F.rows[i].limit
      <4> SUFFICES ASSUME F.rows[i] # NoRow
                   PROVE  /\ G.rows[i] # NoRow /\ G.rows[i].map = m /\ G.rows[i].bind = F.rows[i].bind
                          /\ G.rows[i].resetTime = t /\ G.rows[i].limit = F.rows[i].limit
        OBVIOUS
      <4>1. F.rows[i] \in Row
        BY <1>8 DEF TablesOK, Tables
      <4>2. PICK x : x = [F.rows[i] EXCEPT !.resetTime = t]
        OBVIOUS
      <4>3. x \in Row /\ x.map = F.rows[i].map /\ x.bind = F.rows[i].bind /\ x.resetTime = t /\ x.limit = F.rows[i].limit
        BY <1>5, <4>1, <4>2 DEF Row
      <4>4. G.rows[i] = x
        BY <3>3, <4>2
      <4>5. QED
        BY <1>8, <4>3, <4>4, NoneAssumption
    <3>6. \A j \in Id : G.rows[j] # NoRow => RowOK(G.rows[j], G.reset, ~forced)
      <4> SUFFICES ASSUME NEW j \in Id, G.rows[j] # NoRow PROVE RowOK(G.rows[j], G.reset, ~forced)
        OBVIOUS
      <4>1. CASE j = i
        <5>1. F.rows[i] # NoRow
          BY <3>3, <4>1
        <5>2. RowOK(F.rows[i], F.reset, ~forced)
          BY <1>8, <5>1 DEF TablesOK
        <5>3. QED
          BY <1>5, <1>8, <2>2, <3>4, <3>5, <4>1, <5>1, <5>2 DEF RowOK
      <4>2. CASE j # i
        BY <1>8, <3>3, <3>4, <4>2 DEF TablesOK
      <4>3. QED
        BY <4>1, <4>2
    <3>7. TablesOK(G, ~forced)
      BY <1>8, <3>2, <3>4, <3>6 DEF TablesOK
    <3>8. pending' \in Seq(Write) /\ Leads(Here', pending', G, ~forced')
      <4>1. pending' = pending \o <<w>>
        BY <1>1, <2>2
      <4>2. QED
        BY <1>1, <1>3, <1>6, <1>7, <3>1, <3>7, <4>1, OneWrite
    <3>9. QED
      BY <1>5, <3>3, <3>4, <3>5, <3>8
  <2>3. QED
    BY <2>1, <2>2
<1> HIDE DEF w
<1>10. BaseInv'
  <2>1. saves' \in [Id -> Save \cup {NoSave}]
    BY <1>1, <1>3
  <2>2. TypeOK'
    BY <1>1, <1>2, <2>1 DEF BaseInv, TypeOK
  <2>3. DownInv' /\ TimesInv' /\ SavesInv'
    BY <1>1, <1>2, <1>4 DEF BaseInv, DownInv, TimesInv, SavesInv
  <2>4. QED
    BY <1>1, <1>2, <1>9, <2>2, <2>3 DEF BaseInv
<1>11. Agrees(G)'
  <2>1. \A j \in Id : Loaded(j)' /\ G.rows[j] # NoRow => G.rows[j].map = saves'[j].map
    BY <1>4, <1>7, <1>9 DEF Agrees
  <2>2. QED
    BY <1>1, <1>7, <1>9, <2>1 DEF Agrees
<1>12. AloneInv(G)'
  <2> SUFFICES ASSUME RaidsOnly PROVE (Matches(G) /\ EventsMatch(G) /\ RowsMatch(G))'
    BY DEF AloneInv, RaidsOnly
  <2>1. Matches(F) /\ EventsMatch(F) /\ RowsMatch(F)
    BY <1>7 DEF AloneInv
  <2>2. \A j \in Id : j # i => OwnTime(G, j)' = OwnTime(F, j)
    BY <1>4, <1>9 DEF OwnTime
  <2>3. G.rows[i] # NoRow /\ F.rows[i] # NoRow /\ F.rows[i].map = m /\ G.rows[i].map = m
    BY <1>1, <1>8, <1>9, <2>1 DEF Matches
  <2>4. m \notin Global => OwnTime(G, i)' = OwnTime(F, i)
    BY <1>1, <1>4, <1>9, <2>3 DEF OwnTime
  <2>5. Matches(G)'
    BY <1>4, <1>9, <2>1 DEF Matches
  <2>6. EventsMatch(G)'
    BY <1>1, <1>9, <2>1, <2>2, <2>3, <2>4, IdEventsOf DEF EventsMatch
  <2>7. RowsMatch(G)'
    <3> SUFFICES ASSUME NEW j \in Id, G.rows[j] # NoRow
                 PROVE  /\ up' => j \in used'
                        /\ G.rows[j].map \notin Global =>
                             /\ j \in inside' => Loaded(j)'
                             /\ up' /\ j \notin inside' /\ OwnTime(G, j)' > now' => \E e \in IdEvents(queue') : e.id = j
      BY DEF RowsMatch
    <3>1. CASE j = i
      BY <1>1, <2>1, <2>3, <2>4, <3>1 DEF RowsMatch
    <3>2. CASE j # i
      BY <1>1, <1>4, <1>9, <2>1, <2>2, <3>2 DEF RowsMatch
    <3>3. QED
      BY <3>1, <3>2
  <2>8. QED
    BY <2>5, <2>6, <2>7
<1>13. QED
  BY <1>9, <1>10, <1>11, <1>12 DEF MemoryInv, TablesInv

(* What _ResetSave leaves of a save. *)
LEMMA ResetSaveFacts ==
  ASSUME NEW s \in Save
  PROVE  /\ ResetSave(s) \in Save \cup {NoSave}
         /\ ResetSave(s) # NoSave <=> s.bind > Expired
         /\ s.bind > Expired => /\ ResetSave(s).map = s.map /\ ResetSave(s).bind = s.bind - 1
                                /\ ResetSave(s).resetTime = s.resetTime
<1>1. CASE s.bind > Expired
  <2>1. s.bind - 1 \in Bind
    BY <1>1 DEF Save, Bind, Temporary, Expired, Extended
  <2>2. PICK x : x = [s EXCEPT !.bind = @ - 1]
    OBVIOUS
  <2>3. x \in Save /\ x.map = s.map /\ x.bind = s.bind - 1 /\ x.resetTime = s.resetTime
    BY <2>1, <2>2 DEF Save
  <2>4. ResetSave(s) = x
    BY <1>1, <2>2 DEF ResetSave
  <2>5. QED
    BY <1>1, <2>3, <2>4, NoneAssumption
<1>2. CASE ~(s.bind > Expired)
  BY <1>2 DEF ResetSave
<1>3. QED
  BY <1>1, <1>2

(* An instance reset alone is deleted, with its event. *)
LEMMA UpdateAloneMemory ==
  ASSUME MemoryInv, UpdateAlone
  PROVE  MemoryInv'
<1>1. PICK i : i = queue[1].id
  OBVIOUS
<1> DEFINE s == IF Loaded(i) THEN ResetSave(saves[i]) ELSE NoSave
           w == [op |-> "delete", id |-> i]
<1>2. /\ up /\ queue # <<>> /\ queue[1].type = 0
      /\ saves' = [saves EXCEPT ![i] = s]
      /\ pending' = pending \o <<w>>
      /\ queue' = Tail(queue) /\ used' = used \ {i}
      /\ UNCHANGED <<now, up, resetTime, inside, rows, resetRow, forced>>
  BY <1>1 DEF UpdateAlone, Due, ResetInstance, Queue, tableVars
<1>3. BaseInv
  BY DEF MemoryInv
<1>4. /\ queue \in Seq(Event) /\ Sorted(queue) /\ QueueOK(queue')
      /\ 1 \in DOMAIN queue /\ OneForOne(queue, DOMAIN queue \ {1}, queue', DOMAIN queue')
  <2>1. queue \in Seq(Event) /\ Sorted(queue) /\ QueueOK(queue)
    BY <1>3 DEF BaseInv, QueueOK
  <2>2. QED
    BY <1>2, <2>1, TailEffect, TailOK
<1>5. i \in Id
  BY <1>1, <1>2, <1>3, <1>4 DEF BaseInv, QueueOK, GoodEvent
<1>6. saves \in [Id -> Save \cup {NoSave}] /\ pending \in Seq(Write) /\ s \in Save \cup {NoSave}
  <2>1. saves \in [Id -> Save \cup {NoSave}] /\ pending \in Seq(Write)
    BY <1>3 DEF BaseInv, TypeOK
  <2>2. Loaded(i) => saves[i] \in Save
    BY <1>5, <2>1 DEF Loaded
  <2>3. QED
    BY <2>1, <2>2, ResetSaveFacts
<1>7. saves'[i] = s /\ \A j \in Id : j # i => saves'[j] = saves[j] /\ Loaded(j)' = Loaded(j)
  BY <1>2, <1>5, <1>6 DEF Loaded
<1>8. s # NoSave => s.map \in RaidOrHeroic /\ saves[i].map \in RaidOrHeroic /\ Loaded(i)
  <2> SUFFICES ASSUME s # NoSave PROVE s.map \in RaidOrHeroic /\ saves[i].map \in RaidOrHeroic /\ Loaded(i)
    OBVIOUS
  <2>1. Loaded(i) /\ saves[i] \in Save
    BY <1>5, <1>6 DEF Loaded
  <2>2. saves[i].bind > Expired /\ s.map = saves[i].map
    BY <2>1, ResetSaveFacts
  <2>3. saves[i].bind # Temporary
    BY <2>2 DEF Expired, Temporary
  <2>4. QED
    BY <1>3, <1>5, <2>1, <2>2, <2>3 DEF BaseInv, SavesInv
<1> HIDE DEF s
<1>9. PICK F : Leads(Here, pending, F, ~forced) /\ Agrees(F) /\ AloneInv(F)
  BY DEF MemoryInv, TablesInv
<1>10. TablesOK(F, ~forced)
  BY <1>3, <1>9, LeadsEnds DEF BaseInv
<1>11. PICK G : G = After(w, F)
  OBVIOUS
<1>12. w \in Write
  BY <1>5 DEF Write
<1>13. /\ G \in Tables /\ G.reset = F.reset
       /\ G.rows[i] = NoRow /\ \A j \in Id : j # i => G.rows[j] = F.rows[j]
  <2>1. G \in Tables
    BY <1>10, <1>11, <1>12, AfterTyped DEF TablesOK
  <2>2. \A j \in Id : G.rows[j] = IF i = j THEN NoRow ELSE F.rows[j]
    BY <1>11, AfterRows, RowAfterDelete
  <2>3. w.op # "schedule"
    OBVIOUS
  <2>4. G.reset = F.reset
    BY <1>11, <2>3 DEF After
  <2>5. QED
    BY <1>5, <2>1, <2>2, <2>4
<1> HIDE DEF w
<1>14. TablesOK(G, ~forced)
  <2>1. \A j \in Id : G.rows[j] # NoRow => RowOK(G.rows[j], G.reset, ~forced)
    BY <1>10, <1>13 DEF TablesOK
  <2>2. QED
    BY <1>10, <1>13, <2>1 DEF TablesOK
<1>15. pending' \in Seq(Write) /\ Leads(Here', pending', G, ~forced')
  BY <1>2, <1>6, <1>9, <1>11, <1>12, <1>14, OneWrite
<1>16. BaseInv'
  <2>1. saves' \in [Id -> Save \cup {NoSave}]
    BY <1>2, <1>6
  <2>2. TypeOK'
    BY <1>2, <1>3, <1>4, <2>1 DEF BaseInv, TypeOK, QueueOK, Sorted
  <2>3. DownInv' /\ TimesInv'
    BY <1>2, <1>3 DEF BaseInv, DownInv, TimesInv
  <2>4. SavesInv'
    <3> SUFFICES ASSUME NEW j \in Id, Loaded(j)'
                 PROVE  /\ saves'[j].map \notin RaidOrHeroic => saves'[j].bind = Temporary
                        /\ saves'[j].map \notin Global => saves'[j].resetTime > 0
      BY DEF SavesInv
    <3>1. CASE j = i
      BY <1>7, <1>8, <3>1, MapsAssumption DEF Loaded
    <3>2. CASE j # i
      BY <1>3, <1>7, <3>2 DEF BaseInv, SavesInv
    <3>3. QED
      BY <3>1, <3>2
  <2>5. QED
    BY <1>4, <1>15, <2>2, <2>3, <2>4 DEF BaseInv
<1>17. Agrees(G)'
  <2>1. \A j \in Id : Loaded(j)' /\ G.rows[j] # NoRow => G.rows[j].map = saves'[j].map
    BY <1>7, <1>9, <1>13 DEF Agrees
  <2>2. QED
    BY <1>2, <1>9, <1>13, <2>1 DEF Agrees
<1>18. AloneInv(G)'
  <2> SUFFICES ASSUME RaidsOnly PROVE (Matches(G) /\ EventsMatch(G) /\ RowsMatch(G))'
    BY DEF AloneInv, RaidsOnly
  <2>1. Matches(F) /\ EventsMatch(F) /\ RowsMatch(F)
    BY <1>9 DEF AloneInv
  <2>2. \A j \in Id : j # i => OwnTime(G, j)' = OwnTime(F, j)
    BY <1>7, <1>13 DEF OwnTime
  <2>3. ~Loaded(i)'
    <3>1. queue[1] \in IdEvents(queue)
      BY <1>1, <1>4, <1>5, IdEventsOf
    <3>2. F.rows[i] # NoRow /\ F.rows[i].map \notin Global
      BY <1>1, <2>1, <3>1 DEF EventsMatch
    <3>3. Loaded(i) => saves[i].map \notin RaidOrHeroic
      BY <1>5, <1>9, <3>2 DEF Agrees, RaidsOnly
    <3>4. QED
      BY <1>7, <1>8, <3>3 DEF Loaded
  <2>4. IdEvents(queue') = {e \in IdEvents(queue) : e.id # i} /\ Lone(queue')
    BY <1>1, <1>4, <1>5, <2>1, RemovedIdEvent DEF EventsMatch
  <2>5. Matches(G)'
    BY <1>7, <1>13, <2>1, <2>3 DEF Matches
  <2>6. EventsMatch(G)'
    BY <1>2, <1>13, <2>1, <2>2, <2>4, IdEventsOf DEF EventsMatch
  <2>7. RowsMatch(G)'
    <3> SUFFICES ASSUME NEW j \in Id, G.rows[j] # NoRow
                 PROVE  /\ up' => j \in used'
                        /\ G.rows[j].map \notin Global =>
                             /\ j \in inside' => Loaded(j)'
                             /\ up' /\ j \notin inside' /\ OwnTime(G, j)' > now' => \E e \in IdEvents(queue') : e.id = j
      BY DEF RowsMatch
    <3>1. j # i
      BY <1>13
    <3>2. QED
      BY <1>2, <1>7, <1>13, <2>1, <2>2, <2>4, <3>1 DEF RowsMatch
  <2>8. QED
    BY <2>5, <2>6, <2>7
<1>19. QED
  BY <1>15, <1>16, <1>17, <1>18 DEF MemoryInv, TablesInv


(* The first event is replaced by one of the same time. *)
LEMMA HeadReplaced ==
  ASSUME NEW q, QueueOK(q), q # <<>>, NEW e \in Event, GoodEvent(e), e.at = q[1].at,
         NEW r, r = [q EXCEPT ![1] = e]
  PROVE  /\ QueueOK(r) /\ r # <<>> /\ 1 \in DOMAIN q /\ r[1] = e /\ DOMAIN r = DOMAIN q
         /\ OneForOne(q, DOMAIN q \ {1}, r, DOMAIN r \ {1})
<1>1. q \in Seq(Event) /\ Sorted(q) /\ \A k \in DOMAIN q : GoodEvent(q[k])
  BY DEF QueueOK
<1>2. /\ r \in Seq(Event) /\ DOMAIN r = DOMAIN q /\ 1 \in DOMAIN q /\ r # <<>>
      /\ r[1] = e /\ \A k \in DOMAIN q : k # 1 => r[k] = q[k]
  BY <1>1
<1>3. \A k \in DOMAIN q : r[k].at = q[k].at /\ GoodEvent(r[k])
  BY <1>1, <1>2
<1>4. Sorted(r)
  BY <1>1, <1>2, <1>3 DEF Sorted
<1>5. OneForOne(q, DOMAIN q \ {1}, q, DOMAIN q \ {1})
  BY SameOneForOne
<1>6. OneForOne(q, DOMAIN q \ {1}, r, DOMAIN r \ {1})
  <2>1. PICK S : S = DOMAIN q \ {1}
    OBVIOUS
  <2>2. PICK f \in [S -> S] :
          /\ \A k, l \in S : f[k] = f[l] => k = l
          /\ \A s \in S : \E k \in S : f[k] = s
          /\ \A k \in S : q[k] = q[f[k]]
    BY <1>5, <2>1 DEF OneForOne
  <2>3. \A k \in S : r[k] = q[f[k]]
    BY <1>2, <2>1, <2>2
  <2>4. OneForOne(q, S, r, S)
    BY <2>2, <2>3 DEF OneForOne
  <2>5. QED
    BY <1>2, <2>1, <2>4
<1>7. QED
  BY <1>2, <1>3, <1>4, <1>6 DEF QueueOK

(* The event of a warning, and the one it turns into. *)
Warning == [queue[1] EXCEPT !.type = @ + 1]
Warned == [queue EXCEPT ![1] = Warning]
NextWarning == resetTime[Warning.map] - ResetTimeDelay[Warning.type]

LEMMA WarningFacts ==
  ASSUME BaseInv, UpdateWarn
  PROVE  /\ queue' = Tail(Scheduled(Warned, NextWarning, Warning.type, Warning.map, Warning.id))
         /\ UNCHANGED <<now, up, resetTime, saves, inside, used, rows, resetRow, pending, forced>>
         /\ up /\ queue # <<>> /\ queue \in Seq(Event) /\ Sorted(queue) /\ queue[1] \in Event
         /\ queue[1].type \in 1 .. 3 /\ queue[1].map \in Global /\ 1 \in DOMAIN queue
         /\ Warning \in Event /\ Warning.type = queue[1].type + 1 /\ Warning.type \in 2 .. 4
         /\ Warning.at = queue[1].at /\ Warning.map = queue[1].map /\ Warning.id = queue[1].id
         /\ GoodEvent(Warning) /\ NextWarning \in Int
         /\ QueueOK(Warned) /\ Warned # <<>> /\ Warned[1] = Warning /\ DOMAIN Warned = DOMAIN queue
         /\ OneForOne(queue, DOMAIN queue \ {1}, Warned, DOMAIN Warned \ {1})
<1>1. /\ queue' = Tail(Scheduled(Warned, NextWarning, Warning.type, Warning.map, Warning.id))
      /\ UNCHANGED <<now, up, resetTime, saves, inside, used, rows, resetRow, pending, forced>>
      /\ up /\ queue # <<>> /\ queue[1].type \in 1 .. 3
  BY DEF UpdateWarn, Due, Warned, Warning, NextWarning, tableVars
<1>2. QueueOK(queue) /\ queue \in Seq(Event) /\ Sorted(queue) /\ \A k \in DOMAIN queue : GoodEvent(queue[k])
  BY DEF BaseInv, QueueOK
<1>3. 1 \in DOMAIN queue /\ queue[1] \in Event /\ GoodEvent(queue[1])
  BY <1>1, <1>2
<1>4. queue[1].map \in Global
  BY <1>1, <1>3 DEF GoodEvent
<1>5. /\ Warning \in Event /\ Warning.type = queue[1].type + 1 /\ Warning.type \in 2 .. 4
      /\ Warning.at = queue[1].at /\ Warning.map = queue[1].map /\ Warning.id = queue[1].id
  <2>1. queue[1].type + 1 \in 2 .. 4 /\ queue[1].type + 1 \in 0 .. 4
    BY <1>1
  <2>2. QED
    BY <1>3, <2>1 DEF Warning, Event
<1>6. GoodEvent(Warning)
  BY <1>4, <1>5 DEF GoodEvent
<1>7. NextWarning \in Int
  <2>1. resetTime[Warning.map] \in Int
    BY <1>4, <1>5 DEF BaseInv, TypeOK
  <2>2. ResetTimeDelay[Warning.type] \in Nat
    BY <1>5, DelayFacts
  <2>3. QED
    BY <2>1, <2>2 DEF NextWarning
<1>8. /\ QueueOK(Warned) /\ Warned # <<>> /\ Warned[1] = Warning /\ DOMAIN Warned = DOMAIN queue
      /\ OneForOne(queue, DOMAIN queue \ {1}, Warned, DOMAIN Warned \ {1})
  BY <1>1, <1>2, <1>5, <1>6, HeadReplaced DEF Warned
<1>9. QED
  BY <1>1, <1>2, <1>3, <1>4, <1>5, <1>6, <1>7, <1>8

(* A warning changes no event of an instance. *)
LEMMA UpdateWarnMemory ==
  ASSUME MemoryInv, UpdateWarn
  PROVE  MemoryInv'
<1>1. BaseInv
  BY DEF MemoryInv
<1>2. PICK e : e = Warning
  OBVIOUS
<1>3. PICK q : q = Warned
  OBVIOUS
<1>4. PICK t : t = NextWarning
  OBVIOUS
<1>5. /\ queue' = Tail(Scheduled(q, t, e.type, e.map, e.id))
      /\ UNCHANGED <<now, up, resetTime, saves, inside, used, rows, resetRow, pending, forced>>
      /\ QueueOK(q) /\ t \in Int /\ e \in Event /\ GoodEvent(e) /\ e.type \in 2 .. 4
      /\ q # <<>> /\ q[1] = e /\ DOMAIN q = DOMAIN queue
      /\ OneForOne(queue, DOMAIN queue \ {1}, q, DOMAIN q \ {1})
      /\ 1 \in DOMAIN queue /\ queue[1].type \in 1 .. 3 /\ queue[1].id = e.id
  BY <1>1, <1>2, <1>3, <1>4, WarningFacts
<1>6. e.map \in Map /\ e.type \in 0 .. 4 /\ e.id \in Id \cup {NoId}
  BY <1>5 DEF Event
<1>7. QueueOK(queue')
  <2>1. GoodEvent([at |-> t, type |-> e.type, map |-> e.map, id |-> e.id])
    BY <1>5 DEF GoodEvent
  <2>2. QED
    BY <1>5, <1>6, <2>1, ScheduledOK
<1>8. BaseInv'
  <2>1. TypeOK'
    BY <1>1, <1>5, <1>7 DEF BaseInv, TypeOK, QueueOK, Sorted
  <2>2. DownInv' /\ TimesInv' /\ SavesInv'
    <3>1. up
      BY DEF UpdateWarn, Due
    <3>2. QED
      BY <1>1, <1>5, <3>1 DEF BaseInv, DownInv, TimesInv, SavesInv, Loaded
  <2>3. QED
    BY <1>1, <1>5, <1>7, <2>1, <2>2 DEF BaseInv
<1>9. PICK F : Leads(Here, pending, F, ~forced) /\ Agrees(F) /\ AloneInv(F)
  BY DEF MemoryInv, TablesInv
<1>10. Leads(Here', pending', F, ~forced')
  BY <1>5, <1>9, SameTables
<1>11. Agrees(F)'
  BY <1>5, <1>9 DEF Agrees, Loaded
<1>12. AloneInv(F)'
  <2> SUFFICES ASSUME RaidsOnly PROVE (Matches(F) /\ EventsMatch(F) /\ RowsMatch(F))'
    BY DEF AloneInv, RaidsOnly
  <2>1. Matches(F) /\ EventsMatch(F) /\ RowsMatch(F)
    BY <1>9 DEF AloneInv
  <2>2. e.id \notin Id /\ e.id = NoId
    <3>1. queue[1].id \in Id => queue[1] \in IdEvents(queue)
      BY <1>5, IdEventsOf
    <3>2. QED
      BY <1>5, <1>6, <2>1, <3>1 DEF EventsMatch
  <2>3. IdEvents(q) = IdEvents(queue) /\ (Lone(queue) => Lone(q))
    <3>1. /\ DOMAIN queue \ {1} \in SUBSET DOMAIN queue /\ DOMAIN q \ {1} \in SUBSET DOMAIN q
          /\ \A k \in DOMAIN queue \ (DOMAIN queue \ {1}) : queue[k].id \notin Id
          /\ \A k \in DOMAIN q \ (DOMAIN q \ {1}) : q[k].id \notin Id
      BY <1>5, <2>2
    <3>2. QED
      BY <1>5, <3>1, SameIdEvents
  <2>4. IdEvents(queue') = IdEvents(q) /\ (Lone(q) => Lone(queue'))
    BY <1>5, <1>6, <2>2, MapEventIdEvents
  <2>5. \A j \in Id : OwnTime(F, j)' = OwnTime(F, j) /\ Loaded(j)' = Loaded(j)
    BY <1>5 DEF OwnTime, Loaded
  <2>6. Matches(F)'
    BY <1>5, <2>1 DEF Matches, Loaded
  <2>7. EventsMatch(F)'
    BY <1>5, <2>1, <2>3, <2>4, <2>5, IdEventsOf DEF EventsMatch
  <2>8. RowsMatch(F)'
    BY <1>5, <2>1, <2>3, <2>4, <2>5 DEF RowsMatch
  <2>9. QED
    BY <2>6, <2>7, <2>8
<1>13. QED
  BY <1>8, <1>10, <1>11, <1>12 DEF MemoryInv, TablesInv

(* The row of an instance after the transaction of a reset. *)
LEMMA ExpiredRow ==
  ASSUME NEW m \in Global, NEW row \in Row, NEW new, row.map = m,
         new = IF row.bind > Expired THEN [row EXCEPT !.bind = @ - 1] ELSE NoRow
  PROVE  /\ new \in Row \cup {NoRow} /\ (new # NoRow <=> row.bind > Expired)
         /\ new # NoRow => /\ new.map = m /\ new.bind = row.bind - 1
                           /\ new.limit = row.limit /\ new.resetTime = row.resetTime
<1>1. CASE row.bind > Expired
  <2>1. row.bind - 1 \in Bind
    BY <1>1 DEF Row, Bind, Temporary, Expired, Extended
  <2>2. new = [row EXCEPT !.bind = @ - 1]
    BY <1>1
  <2>3. new \in Row /\ new.map = m /\ new.bind = row.bind - 1 /\ new.limit = row.limit /\ new.resetTime = row.resetTime
    BY <2>1, <2>2 DEF Row
  <2>4. QED
    BY <1>1, <2>3, NoneAssumption
<1>2. CASE ~(row.bind > Expired)
  BY <1>2
<1>3. QED
  BY <1>1, <1>2

(* The two writes of a reset: a promoted bind was long enough for it. *)
LEMMA ResetTables ==
  ASSUME NEW m \in Global, NEW t \in Nat, NEW F, NEW natural, TablesOK(F, natural),
         natural => t = F.reset[m] /\ IsResetTime(t), NEW later, later = GetSubsequentResetTime(m, t),
         NEW G, G = After([op |-> "expire", map |-> m], F),
         NEW H, H = After([op |-> "schedule", map |-> m, time |-> later], G)
  PROVE  /\ TablesOK(G, natural) /\ TablesOK(H, natural) /\ H.reset = [F.reset EXCEPT ![m] = later]
         /\ \A j \in Id :
              /\ H.rows[j] # NoRow <=> F.rows[j] # NoRow /\ (F.rows[j].map = m => F.rows[j].bind > Expired)
              /\ H.rows[j] # NoRow =>
                   IF F.rows[j].map = m THEN H.rows[j].map = m /\ H.rows[j].bind = F.rows[j].bind - 1
                                        ELSE H.rows[j] = F.rows[j]
<1> DEFINE w1 == [op |-> "expire", map |-> m]
           w2 == [op |-> "schedule", map |-> m, time |-> later]
<1>1. IsResetTime(later) /\ later \in Int /\ later # 0 /\ (IsResetTime(t) => later = t + Period(m))
  BY SubsequentReset DEF IsResetTime
<1>2. w1 \in Write /\ w2 \in Write
  BY <1>1 DEF Write
<1>3. F \in Tables /\ F.reset[m] \in Int /\ F.reset \in [Global -> Int] /\ \A j \in Id : F.rows[j] \in Row \cup {NoRow}
  BY DEF TablesOK, Tables
<1>4. G \in Tables /\ G.reset = F.reset
  <2>1. w1.op # "schedule"
    OBVIOUS
  <2>2. G.reset = F.reset
    BY <2>1 DEF After
  <2>3. QED
    BY <1>2, <1>3, <2>2, AfterTyped
<1>5. H \in Tables /\ H.reset = [F.reset EXCEPT ![m] = later]
  <2>1. w2.op = "schedule" /\ w2.map = m /\ w2.time = later
    OBVIOUS
  <2>2. H.reset = [G.reset EXCEPT ![m] = later]
    BY <2>1 DEF After
  <2>3. QED
    BY <1>2, <1>4, <2>2, AfterTyped
<1>6. H.reset[m] = later /\ \A n \in Global : n # m => H.reset[n] = F.reset[n]
  BY <1>3, <1>5
<1>7. \A j \in Id : H.rows[j] = G.rows[j]
  BY AfterRows, RowAfterSchedule
<1>8. \A j \in Id : G.rows[j] = IF F.rows[j] # NoRow /\ F.rows[j].map = m
                                THEN IF F.rows[j].bind > Expired THEN [F.rows[j] EXCEPT !.bind = @ - 1] ELSE NoRow
                                ELSE F.rows[j]
  BY AfterRows, RowAfterExpire
<1> HIDE DEF w1, w2
<1>9. \A j \in Id : ~(F.rows[j] # NoRow /\ F.rows[j].map = m) => G.rows[j] = F.rows[j]
  BY <1>8
<1>10. ASSUME NEW j \in Id, F.rows[j] # NoRow, F.rows[j].map = m
       PROVE  /\ G.rows[j] # NoRow <=> F.rows[j].bind > Expired
              /\ G.rows[j] # NoRow =>
                   /\ G.rows[j].map = m /\ G.rows[j].bind = F.rows[j].bind - 1
                   /\ RowOK(G.rows[j], G.reset, natural) /\ RowOK(G.rows[j], H.reset, natural)
  <2>1. PICK row \in Row : row = F.rows[j]
    BY <1>3, <1>10
  <2>2. PICK new : new = G.rows[j]
    OBVIOUS
  <2>3. new = IF row.bind > Expired THEN [row EXCEPT !.bind = @ - 1] ELSE NoRow
    BY <1>8, <1>10, <2>1, <2>2
  <2>4. /\ new # NoRow <=> row.bind > Expired
        /\ new # NoRow => /\ new.map = m /\ new.bind = row.bind - 1
                          /\ new.limit = row.limit /\ new.resetTime = row.resetTime
    BY <1>10, <2>1, <2>3, ExpiredRow
  <2>5. row.bind \in Bind /\ row.limit \in Int /\ row.map = m
    BY <1>10, <2>1 DEF Row
  <2>6. RowOK(row, F.reset, natural)
    BY <1>10, <2>1 DEF TablesOK
  <2>7. ASSUME new # NoRow
        PROVE  RowOK(new, G.reset, natural) /\ RowOK(new, H.reset, natural)
    <3>1. row.bind > Expired /\ row.bind # Temporary
      BY <2>4, <2>5, <2>7 DEF Expired, Temporary
    <3>2. m \in RaidOrHeroic /\ new.resetTime = 0 /\ new.map = m
      BY <2>4, <2>5, <2>6, <2>7, <3>1 DEF RowOK
    <3>3. natural => new.limit >= Limit(m, new.bind, F.reset[m])
      <4> SUFFICES ASSUME natural PROVE row.limit >= Limit(m, row.bind - 1, F.reset[m])
        BY <2>4, <2>7
      <4>1. row.limit >= Limit(m, row.bind, F.reset[m])
        BY <2>5, <2>6 DEF RowOK
      <4>2. /\ Limit(m, row.bind - 1, F.reset[m]) <= Limit(m, row.bind, F.reset[m])
            /\ Limit(m, row.bind, F.reset[m]) \in Int /\ Limit(m, row.bind - 1, F.reset[m]) \in Int
        BY <1>3, <2>5, <3>1, LimitFacts
      <4>3. \A x, y, z \in Int : x >= y /\ z <= y => x >= z
        OBVIOUS
      <4>4. QED
        BY <2>5, <4>1, <4>2, <4>3
    <3>4. natural => new.limit >= Limit(m, new.bind, H.reset[m])
      <4> SUFFICES ASSUME natural PROVE row.limit >= Limit(m, row.bind - 1, later)
        BY <1>6, <2>4, <2>7
      <4>1. row.limit >= Limit(m, row.bind, F.reset[m])
        BY <2>5, <2>6 DEF RowOK
      <4>2. later = F.reset[m] + Period(m)
        BY <1>1
      <4>3. QED
        BY <1>3, <2>5, <3>1, <4>1, <4>2, LimitFacts
    <3>5. RowOK(new, G.reset, natural)
      BY <1>4, <2>5, <2>6, <3>2, <3>3 DEF RowOK
    <3>6. RowOK(new, H.reset, natural)
      BY <1>1, <1>6, <3>2, <3>4 DEF RowOK
    <3>7. QED
      BY <3>5, <3>6
  <2>8. QED
    BY <2>1, <2>2, <2>4, <2>7
<1>11. ASSUME NEW j \in Id, F.rows[j] # NoRow, F.rows[j].map # m
       PROVE  RowOK(G.rows[j], G.reset, natural) /\ RowOK(G.rows[j], H.reset, natural)
  <2>1. G.rows[j] = F.rows[j] /\ RowOK(F.rows[j], F.reset, natural)
    BY <1>9, <1>11 DEF TablesOK
  <2>2. QED
    BY <1>4, <1>6, <1>11, <2>1 DEF RowOK
<1>12. TablesOK(G, natural)
  <2>1. \A j \in Id : G.rows[j] # NoRow => RowOK(G.rows[j], G.reset, natural)
    BY <1>9, <1>10, <1>11
  <2>2. \A n \in Global : F.reset[n] = 0 \/ IsResetTime(F.reset[n])
    BY DEF TablesOK
  <2>3. QED
    BY <1>4, <2>1, <2>2 DEF TablesOK
<1>13. TablesOK(H, natural)
  <2>1. \A j \in Id : H.rows[j] # NoRow => RowOK(H.rows[j], H.reset, natural)
    BY <1>7, <1>9, <1>10, <1>11
  <2>2. \A n \in Global : H.reset[n] = 0 \/ IsResetTime(H.reset[n])
    BY <1>1, <1>6 DEF TablesOK
  <2>3. QED
    BY <1>5, <2>1, <2>2 DEF TablesOK
<1>14. QED
  BY <1>5, <1>7, <1>9, <1>10, <1>12, <1>13


(* All instances of a map are reset. *)
LEMMA ResetAllMemory ==
  ASSUME MemoryInv, up, NEW m \in Global, NEW t \in Nat, ResetAll(m, t),
         UNCHANGED <<now, up, inside, used, rows, resetRow>>,
         forced' \in BOOLEAN, ~forced' => ~forced /\ t = resetTime[m],
         QueueOK(queue'),
         RaidsOnly => IdEvents(queue') = IdEvents(queue) /\ (Lone(queue) => Lone(queue'))
  PROVE  MemoryInv'
<1>1. PICK later : later = GetSubsequentResetTime(m, t)
  OBVIOUS
<1>2. PICK w1 : w1 = [op |-> "expire", map |-> m]
  OBVIOUS
<1>3. PICK w2 : w2 = [op |-> "schedule", map |-> m, time |-> later]
  OBVIOUS
<1>4. /\ pending' = pending \o <<w1, w2>>
      /\ saves' = [j \in Id |-> IF Loaded(j) /\ saves[j].map = m THEN ResetSave(saves[j]) ELSE saves[j]]
      /\ resetTime' = [resetTime EXCEPT ![m] = later]
  BY <1>1, <1>2, <1>3 DEF ResetAll, Queue
<1>5. BaseInv
  BY DEF MemoryInv
<1>6. IsResetTime(later) /\ later \in Int
  BY <1>1, SubsequentReset DEF IsResetTime
<1>7. w1 \in Write /\ w2 \in Write
  BY <1>2, <1>3, <1>6 DEF Write
<1>8. /\ saves \in [Id -> Save \cup {NoSave}] /\ resetTime \in [Global -> Int] /\ pending \in Seq(Write)
      /\ \A n \in Global : IsResetTime(resetTime[n])
  BY <1>5 DEF BaseInv, TypeOK, TimesInv
<1>9. /\ resetTime' \in [Global -> Int] /\ resetTime'[m] = later
      /\ \A n \in Global : IsResetTime(resetTime'[n])
  BY <1>4, <1>6, <1>8
<1>10. \A j \in Id :
         /\ ~(Loaded(j) /\ saves[j].map = m) => saves'[j] = saves[j] /\ Loaded(j)' = Loaded(j)
         /\ Loaded(j) /\ saves[j].map = m =>
              /\ saves'[j] \in Save \cup {NoSave}
              /\ Loaded(j)' <=> saves[j].bind > Expired
              /\ Loaded(j)' => saves'[j].map = m /\ saves'[j].bind = saves[j].bind - 1
  <2> SUFFICES ASSUME NEW j \in Id
               PROVE  /\ ~(Loaded(j) /\ saves[j].map = m) => saves'[j] = saves[j] /\ Loaded(j)' = Loaded(j)
                      /\ Loaded(j) /\ saves[j].map = m =>
                           /\ saves'[j] \in Save \cup {NoSave}
                           /\ Loaded(j)' <=> saves[j].bind > Expired
                           /\ Loaded(j)' => saves'[j].map = m /\ saves'[j].bind = saves[j].bind - 1
    OBVIOUS
  <2>1. CASE ~(Loaded(j) /\ saves[j].map = m)
    BY <1>4, <2>1 DEF Loaded
  <2>2. CASE Loaded(j) /\ saves[j].map = m
    <3>1. saves[j] \in Save
      BY <1>8, <2>2 DEF Loaded
    <3>2. saves'[j] = ResetSave(saves[j])
      BY <1>4, <2>2
    <3>3. QED
      BY <2>2, <3>1, <3>2, ResetSaveFacts DEF Loaded
  <2>3. QED
    BY <2>1, <2>2
<1>11. PICK F : Leads(Here, pending, F, ~forced) /\ Agrees(F) /\ AloneInv(F)
  BY DEF MemoryInv, TablesInv
<1>12. PICK natural : natural = ~forced'
  OBVIOUS
<1>13. Leads(Here, pending, F, natural)
  <2>1. CASE forced'
    <3>1. Leads(Here, pending, F, FALSE)
      BY <1>11, LeadsForced
    <3>2. natural = FALSE
      BY <1>12, <2>1
    <3>3. QED
      BY <3>1, <3>2
  <2>2. CASE ~forced'
    <3>1. natural = TRUE /\ ~forced
      BY <1>12, <2>2
    <3>2. (~forced) = TRUE
      BY <3>1
    <3>3. QED
      BY <1>11, <3>1, <3>2
  <2>3. QED
    BY <2>1, <2>2
<1>14. TablesOK(F, natural)
  BY <1>5, <1>13, LeadsEnds DEF BaseInv
<1>15. F.reset = resetTime
  BY <1>11 DEF Agrees
<1>16. natural => t = F.reset[m] /\ IsResetTime(t)
  BY <1>8, <1>12, <1>15
<1>17. PICK G : G = After(w1, F)
  OBVIOUS
<1>18. PICK H : H = After(w2, G)
  OBVIOUS
<1>19. /\ TablesOK(G, natural) /\ TablesOK(H, natural) /\ H.reset = [F.reset EXCEPT ![m] = later]
       /\ \A j \in Id :
            /\ H.rows[j] # NoRow <=> F.rows[j] # NoRow /\ (F.rows[j].map = m => F.rows[j].bind > Expired)
            /\ H.rows[j] # NoRow =>
                 IF F.rows[j].map = m THEN H.rows[j].map = m /\ H.rows[j].bind = F.rows[j].bind - 1
                                      ELSE H.rows[j] = F.rows[j]
  BY <1>1, <1>2, <1>3, <1>14, <1>16, <1>17, <1>18, ResetTables
<1>20. pending' \in Seq(Write) /\ Leads(Here', pending', H, ~forced')
  <2>1. pending' = Append(Append(pending, w1), w2)
    BY <1>4, <1>7, <1>8
  <2>2. Append(pending, w1) \in Seq(Write) /\ pending' \in Seq(Write)
    BY <1>7, <1>8, <2>1
  <2>3. Leads(Here, Append(pending, w1), G, natural)
    BY <1>7, <1>8, <1>13, <1>17, <1>19, LeadsOn
  <2>4. Leads(Here, Append(Append(pending, w1), w2), H, natural)
    BY <1>7, <1>18, <1>19, <2>2, <2>3, LeadsOn
  <2>5. Here' = Here
    BY DEF Here
  <2>6. QED
    BY <1>12, <2>1, <2>2, <2>4, <2>5
<1>21. BaseInv'
  <2>1. saves' \in [Id -> Save \cup {NoSave}]
    <3>1. \A j \in Id : saves'[j] \in Save \cup {NoSave}
      BY <1>8, <1>10
    <3>2. QED
      BY <1>4, <3>1
  <2>2. TypeOK'
    BY <1>5, <1>9, <2>1 DEF BaseInv, TypeOK, QueueOK, Sorted
  <2>3. DownInv' /\ TimesInv'
    BY <1>9 DEF DownInv, TimesInv
  <2>4. SavesInv'
    <3> SUFFICES ASSUME NEW j \in Id, Loaded(j)'
                 PROVE  /\ saves'[j].map \notin RaidOrHeroic => saves'[j].bind = Temporary
                        /\ saves'[j].map \notin Global => saves'[j].resetTime > 0
      BY DEF SavesInv
    <3>1. CASE Loaded(j) /\ saves[j].map = m
      <4>1. saves[j].bind # Temporary /\ saves'[j].map = m
        BY <1>10, <3>1 DEF Expired, Temporary
      <4>2. m \in RaidOrHeroic
        BY <1>5, <3>1, <4>1 DEF BaseInv, SavesInv
      <4>3. QED
        BY <4>1, <4>2
    <3>2. CASE ~(Loaded(j) /\ saves[j].map = m)
      BY <1>5, <1>10, <3>2 DEF BaseInv, SavesInv
    <3>3. QED
      BY <3>1, <3>2
  <2>5. QED
    BY <1>20, <2>2, <2>3, <2>4 DEF BaseInv
<1>22. Agrees(H)'
  <2>1. \A j \in Id : Loaded(j)' /\ H.rows[j] # NoRow => H.rows[j].map = saves'[j].map
    <3> SUFFICES ASSUME NEW j \in Id, Loaded(j)', H.rows[j] # NoRow PROVE H.rows[j].map = saves'[j].map
      OBVIOUS
    <3>1. Loaded(j) /\ F.rows[j] # NoRow
      BY <1>10, <1>19
    <3>2. F.rows[j].map = saves[j].map
      BY <1>11, <3>1 DEF Agrees
    <3>3. QED
      BY <1>10, <1>19, <3>1, <3>2
  <2>2. H.reset = resetTime'
    BY <1>4, <1>15, <1>19
  <2>3. QED
    BY <2>1, <2>2 DEF Agrees
<1>23. AloneInv(H)'
  <2> SUFFICES ASSUME RaidsOnly PROVE (Matches(H) /\ EventsMatch(H) /\ RowsMatch(H))'
    BY DEF AloneInv, RaidsOnly
  <2>1. Matches(F) /\ EventsMatch(F) /\ RowsMatch(F)
    BY <1>11 DEF AloneInv
  <2>2. IdEvents(queue') = IdEvents(queue) /\ Lone(queue')
    BY <2>1 DEF EventsMatch
  <2>3. ASSUME NEW j \in Id, F.rows[j] # NoRow, F.rows[j].map \notin Global
        PROVE  H.rows[j] = F.rows[j] /\ Loaded(j)' = Loaded(j) /\ OwnTime(H, j)' = OwnTime(F, j)
    <3>1. ~(Loaded(j) /\ saves[j].map = m)
      BY <1>11, <2>3 DEF Agrees
    <3>2. H.rows[j] = F.rows[j]
      BY <1>19, <2>3
    <3>3. saves'[j] = saves[j] /\ Loaded(j)' = Loaded(j)
      BY <1>10, <3>1
    <3>4. QED
      BY <3>2, <3>3 DEF OwnTime
  <2>4. Matches(H)'
    <3> SUFFICES ASSUME NEW j \in Id, Loaded(j)' PROVE H.rows[j] # NoRow /\ H.rows[j].bind = saves'[j].bind
      BY DEF Matches
    <3>1. Loaded(j)
      BY <1>10
    <3>2. F.rows[j] # NoRow /\ F.rows[j].bind = saves[j].bind /\ F.rows[j].map = saves[j].map
      BY <1>11, <2>1, <3>1 DEF Matches, Agrees
    <3>3. QED
      BY <1>10, <1>19, <3>1, <3>2
  <2>5. EventsMatch(H)'
    <3> SUFFICES ASSUME NEW e \in IdEvents(queue)
                 PROVE  /\ e.type = 0 /\ e.id \notin inside'
                        /\ H.rows[e.id] # NoRow /\ H.rows[e.id].map \notin Global
                        /\ e.at = OwnTime(H, e.id)'
      BY <2>2 DEF EventsMatch
    <3>1. e.id \in Id
      BY IdEventsOf
    <3>2. QED
      BY <2>1, <2>3, <3>1 DEF EventsMatch
  <2>6. RowsMatch(H)'
    <3> SUFFICES ASSUME NEW j \in Id, H.rows[j] # NoRow
                 PROVE  /\ up' => j \in used'
                        /\ H.rows[j].map \notin Global =>
                             /\ j \in inside' => Loaded(j)'
                             /\ up' /\ j \notin inside' /\ OwnTime(H, j)' > now' => \E e \in IdEvents(queue') : e.id = j
      BY DEF RowsMatch
    <3>1. F.rows[j] # NoRow /\ (H.rows[j].map \notin Global => F.rows[j].map \notin Global)
      BY <1>19
    <3>2. QED
      BY <2>1, <2>2, <2>3, <3>1 DEF RowsMatch
  <2>7. QED
    BY <2>4, <2>5, <2>6
<1>24. QED
  BY <1>20, <1>21, <1>22, <1>23 DEF MemoryInv, TablesInv

LEMMA UpdateResetMemory ==
  ASSUME MemoryInv, UpdateReset
  PROVE  MemoryInv'
<1>1. PICK m : m = queue[1].map
  OBVIOUS
<1>2. /\ up /\ queue # <<>> /\ queue[1].type = 4
      /\ ResetAll(m, resetTime[m]) /\ queue' = Tail(AfterReset(queue, m, resetTime[m]))
      /\ UNCHANGED <<now, up, inside, used, rows, resetRow, forced>>
  BY <1>1 DEF UpdateReset, Due, tableVars
<1>3. BaseInv
  BY DEF MemoryInv
<1>4. QueueOK(queue) /\ 1 \in DOMAIN queue /\ m \in Global /\ m \in Map
  <2>1. QueueOK(queue) /\ queue \in Seq(Event)
    BY <1>3 DEF BaseInv, QueueOK
  <2>2. 1 \in DOMAIN queue
    BY <1>2, <2>1
  <2>3. QED
    BY <1>1, <1>2, <2>1, <2>2, MapsAssumption DEF QueueOK, GoodEvent
<1>5. resetTime[m] \in Nat
  BY <1>2, <1>3, <1>4 DEF BaseInv, TimesInv, IsResetTime
<1>6. PICK t : t = GetSubsequentResetTime(m, resetTime[m]) - Hour
  OBVIOUS
<1>7. t \in Int /\ queue' = Tail(Scheduled(queue, t, 1, m, NoId))
  <2>1. GetSubsequentResetTime(m, resetTime[m]) \in Int
    BY <1>4, <1>5, SubsequentReset DEF IsResetTime
  <2>2. QED
    BY <1>2, <1>6, <2>1, HourFacts DEF AfterReset
<1>8. QueueOK(queue')
  <2>1. GoodEvent([at |-> t, type |-> 1, map |-> m, id |-> NoId])
    BY <1>4 DEF GoodEvent
  <2>2. QED
    BY <1>4, <1>7, <2>1, ScheduledOK
<1>9. RaidsOnly => IdEvents(queue') = IdEvents(queue) /\ (Lone(queue) => Lone(queue'))
  <2> SUFFICES ASSUME RaidsOnly PROVE IdEvents(queue') = IdEvents(queue) /\ (Lone(queue) => Lone(queue'))
    OBVIOUS
  <2>1. \A e \in IdEvents(queue) : e.type = 0
    BY DEF MemoryInv, TablesInv, AloneInv, EventsMatch
  <2>2. queue[1].id \notin Id
    BY <1>2, <1>4, <2>1, IdEventsOf
  <2>3. LET r == Tail(Scheduled(queue, t, 1, m, NoId)) IN IdEvents(r) = IdEvents(queue) /\ (Lone(queue) => Lone(r))
    <3>1. 1 \in 0 .. 4
      OBVIOUS
    <3>2. QED
      BY <1>2, <1>4, <1>7, <2>2, <3>1, MapEventIdEvents, Zenon
  <2>4. QED
    BY <1>7, <2>3
<1>10. forced \in BOOLEAN /\ forced' \in BOOLEAN
  BY <1>2, <1>3 DEF BaseInv, TypeOK
<1>11. QED
  BY <1>2, <1>4, <1>5, <1>8, <1>9, <1>10, ResetAllMemory

LEMMA ForceGlobalResetMemory ==
  ASSUME MemoryInv, NEW m \in Map, ForceGlobalReset(m)
  PROVE  MemoryInv'
<1>1. PICK q1 : q1 = Unscheduled(queue, 0, NoId)
  OBVIOUS
<1>2. PICK q : q = Unscheduled(q1, 0, NoId)
  OBVIOUS
<1>3. /\ up /\ forced' = TRUE /\ UNCHANGED <<now, up, inside, used, rows, resetRow>>
      /\ IF m \in Global
         THEN ResetAll(m, now) /\ queue' = AfterReset(q, m, now)
         ELSE queue' = q /\ UNCHANGED <<pending, saves, resetTime>>
  BY <1>1, <1>2 DEF ForceGlobalReset, tableVars
<1>4. BaseInv /\ now \in Nat
  BY DEF MemoryInv, BaseInv, TypeOK
<1>5. QueueOK(q1) /\ QueueOK(q)
  BY <1>1, <1>2, <1>4, UnscheduledOK DEF BaseInv
<1>6. IdEvents(q) = IdEvents(queue) /\ (Lone(queue) => Lone(q))
  <2>1. IdEvents(q1) = IdEvents(queue) /\ (Lone(queue) => Lone(q1))
    BY <1>1, <1>4, UnscheduledMapIdEvents DEF BaseInv
  <2>2. IdEvents(q) = IdEvents(q1) /\ (Lone(q1) => Lone(q))
    BY <1>2, <1>5, UnscheduledMapIdEvents
  <2>3. QED
    BY <2>1, <2>2
<1>7. CASE m \in Global
  <2>1. PICK t : t = GetSubsequentResetTime(m, now) - Hour
    OBVIOUS
  <2>2. t \in Int /\ queue' = Scheduled(q, t, 1, m, NoId)
    <3>1. GetSubsequentResetTime(m, now) \in Int
      BY <1>4, <1>7, SubsequentReset DEF IsResetTime
    <3>2. QED
      BY <1>3, <1>7, <2>1, <3>1, HourFacts DEF AfterReset
  <2>3. QueueOK(queue')
    <3>1. GoodEvent([at |-> t, type |-> 1, map |-> m, id |-> NoId])
      BY <1>7 DEF GoodEvent
    <3>2. QED
      BY <1>5, <2>2, <3>1, ScheduledOK
  <2>4. IdEvents(queue') = IdEvents(queue) /\ (Lone(queue) => Lone(queue'))
    BY <1>5, <1>6, <2>2, MapEventIdEvents
  <2>5. QED
    BY <1>3, <1>4, <1>7, <2>3, <2>4, ResetAllMemory
<1>8. CASE m \notin Global
  <2>1. queue' = q /\ UNCHANGED <<pending, saves, resetTime>>
    BY <1>3, <1>8
  <2>2. BaseInv'
    <3>1. TypeOK'
      BY <1>3, <1>4, <1>5, <2>1 DEF BaseInv, TypeOK, QueueOK, Sorted
    <3>2. DownInv' /\ TimesInv' /\ SavesInv'
      BY <1>3, <1>4, <2>1 DEF BaseInv, DownInv, TimesInv, SavesInv, Loaded
    <3>3. QED
      BY <1>4, <1>5, <2>1, <3>1, <3>2 DEF BaseInv
  <2>3. PICK F : Leads(Here, pending, F, ~forced) /\ Agrees(F) /\ AloneInv(F)
    BY DEF MemoryInv, TablesInv
  <2>4. Leads(Here', pending', F, ~forced')
    <3>1. Leads(Here, pending, F, FALSE)
      BY <2>3, LeadsForced
    <3>2. Here' = Here /\ pending' = pending /\ (~forced') = FALSE
      BY <1>3, <2>1 DEF Here
    <3>3. QED
      BY <3>1, <3>2
  <2>5. Agrees(F)'
    BY <1>3, <2>1, <2>3 DEF Agrees, Loaded
  <2>6. AloneInv(F)'
    <3> SUFFICES ASSUME RaidsOnly PROVE (Matches(F) /\ EventsMatch(F) /\ RowsMatch(F))'
      BY DEF AloneInv, RaidsOnly
    <3>1. Matches(F) /\ EventsMatch(F) /\ RowsMatch(F)
      BY <2>3 DEF AloneInv
    <3>2. \A j \in Id : OwnTime(F, j)' = OwnTime(F, j) /\ Loaded(j)' = Loaded(j)
      BY <2>1 DEF OwnTime, Loaded
    <3>3. Matches(F)'
      BY <2>1, <3>1 DEF Matches, Loaded
    <3>4. EventsMatch(F)'
      BY <1>3, <1>6, <2>1, <3>1, <3>2, IdEventsOf DEF EventsMatch
    <3>5. RowsMatch(F)'
      BY <1>3, <1>6, <2>1, <3>1, <3>2 DEF RowsMatch
    <3>6. QED
      BY <3>3, <3>4, <3>5
  <2>7. QED
    BY <2>2, <2>4, <2>5, <2>6 DEF MemoryInv, TablesInv
<1>9. QED
  BY <1>7, <1>8


(* The database worker executes the first write. *)
LEMMA StoreMemory ==
  ASSUME MemoryInv, Store
  PROVE  MemoryInv'
<1>1. PICK w : w = Head(pending)
  OBVIOUS
<1>2. /\ pending # <<>> /\ pending' = Tail(pending)
      /\ rows' = [i \in Id |-> RowAfter(w, i, rows[i])]
      /\ resetRow' = IF w.op = "schedule" THEN [resetRow EXCEPT ![w.map] = w.time] ELSE resetRow
      /\ UNCHANGED <<now, up, resetTime, queue, saves, inside, used, forced>>
  BY <1>1 DEF Store, memoryVars
<1>3. BaseInv /\ pending \in Seq(Write)
  BY DEF MemoryInv, BaseInv
<1>4. PICK F : Leads(Here, pending, F, ~forced) /\ Agrees(F) /\ AloneInv(F)
  BY DEF MemoryInv, TablesInv
<1>5. PICK d : d = Here
  OBVIOUS
<1>6. Here' = After(w, d)
  BY <1>2, <1>5 DEF Here, After
<1>7. PICK p : p = Tail(pending)
  OBVIOUS
<1>8. Leads(After(w, d), p, F, ~forced) /\ p \in Seq(Write)
  BY <1>1, <1>2, <1>3, <1>4, <1>5, <1>7, LeadsFrom
<1>9. Leads(Here', pending', F, ~forced')
  BY <1>2, <1>6, <1>7, <1>8
<1>10. After(w, d) \in Tables
  BY <1>8, LeadsEnds DEF TablesOK
<1>11. BaseInv'
  <2>1. Here' \in Tables
    BY <1>6, <1>10
  <2>2. rows' \in [Id -> Row \cup {NoRow}] /\ resetRow' \in [Global -> Int]
    BY <2>1 DEF Here, Tables
  <2>3. TypeOK'
    BY <1>2, <1>3, <2>2 DEF BaseInv, TypeOK
  <2>4. DownInv' /\ TimesInv' /\ SavesInv'
    BY <1>2, <1>3 DEF BaseInv, DownInv, TimesInv, SavesInv, Loaded
  <2>5. QED
    BY <1>2, <1>3, <1>7, <1>8, <2>3, <2>4 DEF BaseInv
<1>12. Agrees(F)'
  BY <1>2, <1>4 DEF Agrees, Loaded
<1>13. AloneInv(F)'
  <2> SUFFICES ASSUME RaidsOnly PROVE (Matches(F) /\ EventsMatch(F) /\ RowsMatch(F))'
    BY DEF AloneInv, RaidsOnly
  <2>1. Matches(F) /\ EventsMatch(F) /\ RowsMatch(F)
    BY <1>4 DEF AloneInv
  <2>2. \A j \in Id : OwnTime(F, j)' = OwnTime(F, j) /\ Loaded(j)' = Loaded(j)
    BY <1>2 DEF OwnTime, Loaded
  <2>3. Matches(F)'
    BY <1>2, <2>1 DEF Matches, Loaded
  <2>4. EventsMatch(F)'
    BY <1>2, <2>1, <2>2, IdEventsOf DEF EventsMatch
  <2>5. RowsMatch(F)'
    BY <1>2, <2>1, <2>2 DEF RowsMatch
  <2>6. QED
    BY <2>3, <2>4, <2>5
<1>14. QED
  BY <1>9, <1>11, <1>12, <1>13 DEF MemoryInv, TablesInv

(* The process ends: only the tables are left. *)
LEMMA StopMemory ==
  ASSUME MemoryInv, Stop
  PROVE  MemoryInv'
<1>1. /\ up' = FALSE /\ queue' = <<>> /\ pending' = <<>> /\ inside' = {} /\ used' = {}
      /\ resetTime' = [m \in Global |-> 0] /\ saves' = [i \in Id |-> NoSave]
      /\ UNCHANGED <<now, rows, resetRow, forced>>
  BY DEF Stop, tableVars
<1>2. BaseInv
  BY DEF MemoryInv
<1>3. PICK F : Leads(Here, pending, F, ~forced)
  BY DEF MemoryInv, TablesInv
<1>4. TablesOK(Here, ~forced)
  BY <1>2, <1>3, LeadsEnds DEF BaseInv
<1>5. PICK d : d = Here
  OBVIOUS
<1>6. Here' = d
  BY <1>1, <1>5 DEF Here
<1>7. Leads(Here', pending', d, ~forced')
  <2>1. Leads(d, <<>>, d, ~forced)
    BY <1>4, <1>5, LeadsNowhere
  <2>2. QED
    BY <1>1, <1>6, <2>1
<1>8. \A j \in Id : ~Loaded(j)'
  BY <1>1 DEF Loaded
<1>9. QueueOK(queue') /\ IdEvents(queue') = {} /\ Lone(queue')
  <2>1. queue' \in Seq(Event) /\ \A k \in DOMAIN queue' : FALSE
    BY <1>1
  <2>2. QED
    BY <2>1 DEF QueueOK, Sorted, IdEvents, Lone
<1>10. BaseInv'
  <2>1. saves' \in [Id -> Save \cup {NoSave}] /\ resetTime' \in [Global -> Int]
    BY <1>1
  <2>2. TypeOK'
    BY <1>1, <1>2, <1>9, <2>1 DEF BaseInv, TypeOK, QueueOK, Sorted
  <2>3. pending' \in Seq(Write)
    BY <1>1
  <2>4. DownInv' /\ TimesInv' /\ SavesInv'
    BY <1>1, <1>8 DEF DownInv, TimesInv, SavesInv
  <2>5. QED
    BY <1>9, <2>2, <2>3, <2>4 DEF BaseInv
<1>11. Agrees(d)'
  BY <1>1, <1>8 DEF Agrees
<1>12. AloneInv(d)'
  BY <1>1, <1>8, <1>9 DEF AloneInv, Matches, EventsMatch, RowsMatch
<1>13. QED
  BY <1>7, <1>10, <1>11, <1>12 DEF MemoryInv, TablesInv

(* The tables at startup: what is kept of them is good for the times loaded. *)
LEMMA StartTables ==
  ASSUME MemoryInv, Start
  PROVE  /\ TablesOK(Here', ~forced) /\ \A m \in Global : IsResetTime(resetTime'[m])
         /\ resetRow' = resetTime' /\ resetTime' \in [Global -> Int]
         /\ \A i \in Id : rows'[i] # NoRow => Kept(i)
<1>1. PICK respawned \in SUBSET {i \in Id : Kept(i) /\ rows[i].resetTime > 0} :
        rows' = [i \in Id |->
                   IF i \in respawned THEN [rows[i] EXCEPT !.resetTime = now + 2 * Hour]
                   ELSE IF Kept(i) THEN rows[i] ELSE NoRow]
  BY DEF Start
<1>2. resetTime' = [m \in Global |-> LoadedResetTime(m)] /\ resetRow' = resetTime'
  BY DEF Start
<1>3. BaseInv
  BY DEF MemoryInv
<1>4. PICK F : Leads(Here, pending, F, ~forced)
  BY DEF MemoryInv, TablesInv
<1>5. TablesOK(Here, ~forced)
  BY <1>3, <1>4, LeadsEnds DEF BaseInv
<1>6. \A m \in Global : resetRow[m] = 0 \/ IsResetTime(resetRow[m])
  BY <1>5 DEF TablesOK, Here
<1>7. now \in Nat /\ now + 2 * Hour \in Int /\ now + 2 * Hour > 0
  BY <1>3, HourFacts DEF BaseInv, TypeOK
<1>8. \A m \in Global :
        /\ IsResetTime(resetTime'[m]) /\ resetTime'[m] \in Int /\ resetTime'[m] # 0
        /\ resetRow[m] # 0 /\ resetRow[m] >= now => resetTime'[m] = resetRow[m]
  BY <1>2, <1>6, <1>7, LoadedReset DEF IsResetTime
<1>9. resetTime' \in [Global -> Int]
  BY <1>2, <1>8
<1>10. ASSUME NEW i \in Id, rows'[i] # NoRow
       PROVE  Kept(i) /\ rows'[i] \in Row /\ RowOK(rows'[i], resetTime', ~forced)
  <2>1. Kept(i)
    BY <1>1, <1>10
  <2>2. rows[i] # NoRow /\ rows[i] \in Row /\ RowOK(rows[i], resetRow, ~forced)
    BY <1>5, <2>1 DEF Kept, TablesOK, Here, Tables
  <2>3. rows[i].map \in Global => resetTime'[rows[i].map] = resetRow[rows[i].map]
    BY <1>8, <2>1, <2>2 DEF Kept, RowOK
  <2>4. RowOK(rows[i], resetTime', ~forced)
    BY <1>8, <2>2, <2>3 DEF RowOK
  <2>5. CASE i \in respawned
    <3>1. rows[i].resetTime > 0 /\ rows'[i] = [rows[i] EXCEPT !.resetTime = now + 2 * Hour]
      BY <1>1, <2>5
    <3>2. PICK x : x = [rows[i] EXCEPT !.resetTime = now + 2 * Hour]
      OBVIOUS
    <3>3. /\ x \in Row /\ x.map = rows[i].map /\ x.bind = rows[i].bind /\ x.limit = rows[i].limit
          /\ x.resetTime = now + 2 * Hour
      BY <1>7, <2>2, <3>2 DEF Row
    <3>4. rows[i].map \notin RaidOrHeroic
      BY <2>2, <3>1 DEF RowOK
    <3>5. RowOK(x, resetTime', ~forced)
      BY <1>7, <2>4, <3>3, <3>4 DEF RowOK
    <3>6. QED
      BY <2>1, <3>1, <3>2, <3>3, <3>5
  <2>6. CASE i \notin respawned
    BY <1>1, <2>1, <2>2, <2>4, <2>6
  <2>7. QED
    BY <2>5, <2>6
<1>11. rows' \in [Id -> Row \cup {NoRow}]
  <2>1. \A i \in Id : rows'[i] \in Row \cup {NoRow}
    BY <1>10
  <2>2. QED
    BY <1>1, <2>1
<1>12. TablesOK(Here', ~forced)
  <2>1. Here'.rows = rows' /\ Here'.reset = resetTime'
    BY <1>2 DEF Here
  <2>2. Here' \in Tables
    BY <1>2, <1>9, <1>11 DEF Here, Tables
  <2>3. PICK d : d = Here'
    OBVIOUS
  <2>4. d.rows = rows' /\ d.reset = resetTime' /\ d \in Tables
    BY <2>1, <2>2, <2>3
  <2>5. TablesOK(d, ~forced)
    BY <1>8, <1>10, <2>4 DEF TablesOK
  <2>6. QED
    BY <2>3, <2>5
<1>13. QED
  BY <1>2, <1>8, <1>9, <1>10, <1>12

(* The events at startup. *)
LEMMA StartEvents ==
  ASSUME MemoryInv, Start
  PROVE  LET timed == {i \in Id : rows'[i] # NoRow /\ rows'[i].resetTime > 0} IN
         /\ QueueOK(queue') /\ now \in Nat
         /\ \A k, l \in DOMAIN queue' : queue'[k] = queue'[l] => k = l
         /\ \A k \in DOMAIN queue' :
              \/ \E i \in timed : rows'[i].resetTime > now /\ queue'[k] = TimedEvent(rows', i)
              \/ \E m \in Global : queue'[k] = FirstEvent(resetTime', m, NoId)
              \/ \E i \in timed : rows'[i].map \in Global /\ queue'[k] = FirstEvent(resetTime', rows'[i].map, i)
         /\ \A m \in Global : \E k \in DOMAIN queue' : queue'[k] = FirstEvent(resetTime', m, NoId)
         /\ \A i \in timed : rows'[i].resetTime > now =>
              \E k \in DOMAIN queue' : queue'[k] = TimedEvent(rows', i)
<1>1. PICK table : table = rows'
  OBVIOUS
<1>2. PICK reset : reset = resetTime'
  OBVIOUS
<1>3. PICK q \in SetToSeqs(LoadedEvents(table, reset)) : Sorted(q) /\ queue' = q
  BY <1>1, <1>2 DEF Start, Sorted
<1>4. /\ table \in [Id -> Row \cup {NoRow}] /\ reset \in [Global -> Int]
      /\ \A i \in Id : table[i] # NoRow => RowOK(table[i], reset, ~forced)
  <2>1. TablesOK(Here', ~forced) /\ resetRow' = resetTime'
    BY StartTables
  <2>2. Here'.rows = table /\ Here'.reset = reset
    BY <1>1, <1>2, <2>1 DEF Here
  <2>3. PICK d : d = Here'
    OBVIOUS
  <2>4. d.rows = table /\ d.reset = reset /\ TablesOK(d, ~forced)
    BY <2>1, <2>2, <2>3
  <2>5. QED
    BY <2>4 DEF TablesOK, Tables
<1>5. now \in Nat /\ now \in Int
  BY DEF MemoryInv, BaseInv, TypeOK
<1> DEFINE timed == {i \in Id : table[i] # NoRow /\ table[i].resetTime > 0}
<1>6. /\ q \in Seq(Event)
      /\ \A k, l \in DOMAIN q : q[k] = q[l] => k = l
      /\ \A k \in DOMAIN q :
           \/ \E i \in timed : table[i].resetTime > now /\ q[k] = TimedEvent(table, i)
           \/ \E m \in Global : q[k] = FirstEvent(reset, m, NoId)
           \/ \E i \in timed : table[i].map \in Global /\ q[k] = FirstEvent(reset, table[i].map, i)
      /\ \A m \in Global : \E k \in DOMAIN q : q[k] = FirstEvent(reset, m, NoId)
      /\ \A i \in timed : table[i].resetTime > now =>
           \E k \in DOMAIN q : q[k] = TimedEvent(table, i)
  BY <1>4, <1>5, LoadedEffect
<1>7. \A i \in timed : GoodEvent(TimedEvent(table, i))
  BY <1>4 DEF TimedEvent, GoodEvent, RowOK
<1>8. \A m \in Global : FirstType(reset[m]) \in 1 .. 4
  BY <1>4, <1>5, FirstTypeTyped
<1>9. \A m \in Global, i \in Id \cup {NoId} : GoodEvent(FirstEvent(reset, m, i))
  BY <1>8 DEF FirstEvent, GoodEvent
<1>10. \A k \in DOMAIN q : GoodEvent(q[k])
  BY <1>6, <1>7, <1>9
<1>11. QueueOK(q)
  BY <1>3, <1>6, <1>10 DEF QueueOK
<1>12. QED
  BY <1>1, <1>2, <1>3, <1>5, <1>6, <1>11

LEMMA StartMemory ==
  ASSUME MemoryInv, Start
  PROVE  MemoryInv'
<1>1. ~up /\ up' = TRUE /\ used' = {i \in Id : Kept(i)} /\ UNCHANGED <<now, saves, inside, pending, forced>>
  BY DEF Start
<1>2. BaseInv
  BY DEF MemoryInv
<1>3. pending' = <<>> /\ inside' = {} /\ \A j \in Id : ~Loaded(j)'
  BY <1>1, <1>2 DEF BaseInv, DownInv, Loaded
<1>4. /\ TablesOK(Here', ~forced) /\ \A m \in Global : IsResetTime(resetTime'[m])
      /\ resetRow' = resetTime' /\ resetTime' \in [Global -> Int]
      /\ \A i \in Id : rows'[i] # NoRow => Kept(i)
  BY StartTables
<1>5. PICK d : d = Here'
  OBVIOUS
<1>6. d.rows = rows' /\ d.reset = resetRow' /\ TablesOK(d, ~forced)
  BY <1>4, <1>5 DEF Here
<1>7. QueueOK(queue')
  BY StartEvents
<1>8. BaseInv'
  <2>1. rows' \in [Id -> Row \cup {NoRow}] /\ resetRow' \in [Global -> Int]
    BY <1>6 DEF TablesOK, Tables
  <2>2. TypeOK'
    <3>1. now' \in Nat /\ up' \in BOOLEAN /\ forced' \in BOOLEAN
      BY <1>1, <1>2 DEF BaseInv, TypeOK
    <3>2. saves' \in [Id -> Save \cup {NoSave}] /\ inside' \subseteq Id /\ used' \subseteq Id
      BY <1>1, <1>2 DEF BaseInv, TypeOK
    <3>3. QED
      BY <1>4, <1>7, <2>1, <3>1, <3>2 DEF TypeOK, QueueOK, Sorted
  <2>3. DownInv' /\ TimesInv' /\ SavesInv'
    BY <1>1, <1>3, <1>4 DEF DownInv, TimesInv, SavesInv
  <2>4. QED
    BY <1>1, <1>2, <1>7, <2>2, <2>3 DEF BaseInv
<1>9. Leads(Here', pending', d, ~forced')
  <2>1. Leads(d, <<>>, d, ~forced)
    BY <1>6, LeadsNowhere
  <2>2. QED
    BY <1>1, <1>3, <1>5, <2>1
<1>10. Agrees(d)'
  BY <1>3, <1>4, <1>6 DEF Agrees
<1>11. AloneInv(d)'
  <2> SUFFICES ASSUME RaidsOnly PROVE (Matches(d) /\ EventsMatch(d) /\ RowsMatch(d))'
    BY DEF AloneInv, RaidsOnly
  <2>1. \A i \in Id : d.rows[i] # NoRow => RowOK(d.rows[i], d.reset, ~forced)
    BY <1>6 DEF TablesOK
  <2>2. \A i \in Id : OwnTime(d, i)' = rows'[i].resetTime
    BY <1>3, <1>6 DEF OwnTime
  <2> DEFINE timed == {i \in Id : rows'[i] # NoRow /\ rows'[i].resetTime > 0}
  <2>3. \A i \in timed : rows'[i].map \notin Global
    BY <1>6, <2>1 DEF RowOK, RaidsOnly
  <2>4. \A i \in Id : rows'[i] # NoRow /\ rows'[i].map \notin Global => i \in timed
    BY <1>6, <2>1 DEF RowOK
  <2>5. ASSUME NEW k \in DOMAIN queue', queue'[k].id \in Id
        PROVE  \E i \in timed : queue'[k] = TimedEvent(rows', i) /\ queue'[k].id = i
    <3>1. \A m \in Global : FirstEvent(resetTime', m, NoId).id \notin Id
      BY MapsAssumption DEF FirstEvent
    <3>2. \A i \in timed : TimedEvent(rows', i).id = i
      BY DEF TimedEvent
    <3>3. \/ \E i \in timed : rows'[i].resetTime > now /\ queue'[k] = TimedEvent(rows', i)
          \/ \E m \in Global : queue'[k] = FirstEvent(resetTime', m, NoId)
          \/ \E i \in timed : rows'[i].map \in Global /\ queue'[k] = FirstEvent(resetTime', rows'[i].map, i)
      BY StartEvents
    <3> HIDE DEF timed
    <3>4. QED
      BY <2>3, <2>5, <3>1, <3>2, <3>3
  <2>6. Lone(queue')
    <3> SUFFICES ASSUME NEW k \in DOMAIN queue', NEW l \in DOMAIN queue',
                        queue'[k].id = queue'[l].id, queue'[k].id \in Id
                 PROVE  k = l
      BY DEF Lone
    <3>1. PICK i \in timed : queue'[k] = TimedEvent(rows', i) /\ queue'[k].id = i
      BY <2>5
    <3>2. PICK j \in timed : queue'[l] = TimedEvent(rows', j) /\ queue'[l].id = j
      BY <2>5
    <3>3. queue'[k] = queue'[l]
      BY <3>1, <3>2
    <3>4. QED
      BY <3>3, StartEvents
  <2>7. \A e \in IdEvents(queue') : e.id \in timed /\ e = TimedEvent(rows', e.id)
    BY <2>5, IdEventsOf
  <2>8. EventsMatch(d)'
    <3> SUFFICES ASSUME NEW e \in IdEvents(queue')
                 PROVE  /\ e.type = 0 /\ e.id \notin inside'
                        /\ d.rows[e.id] # NoRow /\ d.rows[e.id].map \notin Global
                        /\ e.at = OwnTime(d, e.id)'
      BY <2>6 DEF EventsMatch
    <3>1. e.id \in timed /\ e = TimedEvent(rows', e.id)
      BY <2>7
    <3>2. e.type = 0 /\ e.at = rows'[e.id].resetTime
      BY <3>1 DEF TimedEvent
    <3>3. QED
      BY <1>3, <1>6, <2>2, <2>3, <3>1, <3>2
  <2>9. RowsMatch(d)'
    <3> SUFFICES ASSUME NEW i \in Id, d.rows[i] # NoRow
                 PROVE  /\ up' => i \in used'
                        /\ d.rows[i].map \notin Global =>
                             /\ i \in inside' => Loaded(i)'
                             /\ up' /\ i \notin inside' /\ OwnTime(d, i)' > now' => \E e \in IdEvents(queue') : e.id = i
      BY DEF RowsMatch
    <3>1. i \in used'
      BY <1>1, <1>4, <1>6
    <3>2. ASSUME d.rows[i].map \notin Global, OwnTime(d, i)' > now'
          PROVE  \E e \in IdEvents(queue') : e.id = i
      <4>1. i \in timed /\ rows'[i].resetTime > now
        BY <1>1, <1>6, <2>2, <2>4, <3>2
      <4>2. PICK k \in DOMAIN queue' : queue'[k] = TimedEvent(rows', i)
        BY <4>1, StartEvents
      <4>3. queue'[k].id = i
        BY <4>2 DEF TimedEvent
      <4>4. QED
        BY <4>3, IdEventsOf
    <3>3. QED
      BY <1>3, <3>1, <3>2
  <2>10. Matches(d)'
    BY <1>3 DEF Matches
  <2>11. QED
    BY <2>8, <2>9, <2>10
<1>12. QED
  BY <1>8, <1>9, <1>10, <1>11 DEF MemoryInv, TablesInv

LEMMA SameMemory ==
  ASSUME MemoryInv, UNCHANGED vars
  PROVE  MemoryInv'
<1>1. UNCHANGED <<now, up, resetTime, queue, saves, inside, used, rows, resetRow, pending, forced>>
  BY DEF vars, memoryVars, tableVars
<1>2. BaseInv'
  BY <1>1 DEF MemoryInv, BaseInv, TypeOK, DownInv, TimesInv, SavesInv, Loaded
<1>3. PICK F : Leads(Here, pending, F, ~forced) /\ Agrees(F) /\ AloneInv(F)
  BY DEF MemoryInv, TablesInv
<1>4. Leads(Here', pending', F, ~forced')
  BY <1>1, <1>3, SameTables
<1>5. Agrees(F)' /\ AloneInv(F)'
  <2>1. \A j \in Id : OwnTime(F, j)' = OwnTime(F, j) /\ Loaded(j)' = Loaded(j)
    BY <1>1 DEF OwnTime, Loaded
  <2>2. Agrees(F)' /\ (RaidsOnly => Matches(F)')
    BY <1>1, <1>3, <2>1 DEF Agrees, AloneInv, Matches
  <2>3. RaidsOnly => EventsMatch(F)' /\ RowsMatch(F)'
    BY <1>1, <1>3, <2>1, IdEventsOf DEF AloneInv, EventsMatch, RowsMatch
  <2>4. QED
    BY <2>2, <2>3 DEF AloneInv, RaidsOnly
<1>6. QED
  BY <1>2, <1>4, <1>5 DEF MemoryInv, TablesInv

LEMMA NextMemory ==
  ASSUME MemoryInv, [Next]_vars
  PROVE  MemoryInv'
<1>1. CASE Players
  <2>1. PICK i \in Id :
          \/ \E m \in Map : NewInstance(i, m)
          \/ Enter(i) \/ Leave(i) \/ SetResetTime(i) \/ PermBind(i) \/ Extend(i) \/ Login(i) \/ Logout(i)
    BY <1>1 DEF Players
  <2>2. QED
    BY <2>1, NewInstanceMemory, EnterMemory, LeaveMemory, SetResetTimeMemory, PermBindMemory,
       ExtendMemory, LoginMemory, LogoutMemory
<1>2. CASE Update
  BY <1>2, UpdateAloneMemory, UpdateWarnMemory, UpdateResetMemory DEF Update
<1>3. CASE \E m \in Map : ForceGlobalReset(m)
  BY <1>3, ForceGlobalResetMemory
<1>4. CASE Store \/ Tick \/ Stop \/ Start
  BY <1>4, StoreMemory, TickMemory, StopMemory, StartMemory
<1>5. CASE UNCHANGED vars
  BY <1>5, SameMemory
<1>6. QED
  BY <1>1, <1>2, <1>3, <1>4, <1>5 DEF Next


-----------------------------------------------------------------------------
(* The resets of whole maps: reset[m] is the reset time of map m. *)

(* The event is not later than its warning or reset is due, ... *)
Early(e, reset) == e.type # 0 => e.at <= reset[e.map] - ResetTimeDelay[e.type]

(* ... and is just then. *)
InStep(e, reset) == /\ e.type # 0 /\ e.id = NoId
                    /\ e.at = reset[e.map] - ResetTimeDelay[e.type]

(* The events at the places S of q: a raid or heroic map has one at most. *)
ChainsOK(q, S, reset) ==
  /\ \A k \in S : Early(q[k], reset) /\ (q[k].map \in RaidOrHeroic => InStep(q[k], reset))
  /\ \A k, l \in S : q[k].map = q[l].map /\ q[k].map \in RaidOrHeroic => k = l

WholeMap(e, m) == e.map = m /\ e.type # 0 /\ e.id = NoId
Covered(q) == \A m \in Global : \E k \in DOMAIN q : WholeMap(q[k], m)

ChainsInv == ~forced => ChainsOK(queue, DOMAIN queue, resetTime) /\ (up => Covered(queue))

LEMMA ChainsKept ==
  ASSUME NEW q, NEW S, NEW r, NEW R, NEW reset, OneForOne(q, S, r, R), ChainsOK(q, S, reset)
  PROVE  ChainsOK(r, R, reset)
<1>1. PICK f \in [R -> S] :
        /\ \A k, l \in R : f[k] = f[l] => k = l
        /\ \A k \in R : r[k] = q[f[k]]
  BY DEF OneForOne
<1>2. ASSUME NEW k \in R
      PROVE  Early(r[k], reset) /\ (r[k].map \in RaidOrHeroic => InStep(r[k], reset))
  <2>1. f[k] \in S /\ r[k] = q[f[k]]
    BY <1>1
  <2>2. QED
    BY <2>1 DEF ChainsOK
<1>3. ASSUME NEW k \in R, NEW l \in R, r[k].map = r[l].map, r[k].map \in RaidOrHeroic
      PROVE  k = l
  <2>1. f[k] \in S /\ r[k] = q[f[k]] /\ f[l] \in S /\ r[l] = q[f[l]]
    BY <1>1
  <2>2. f[k] = f[l]
    BY <1>3, <2>1 DEF ChainsOK
  <2>3. QED
    BY <1>1, <2>2
<1>4. QED
  BY <1>2, <1>3 DEF ChainsOK

(* One event more, of the map whose reset time moved on. *)
LEMMA ChainsAdded ==
  ASSUME NEW q, QueueOK(q), NEW S \in SUBSET DOMAIN q, NEW r, NEW x \in DOMAIN r,
         OneForOne(q, S, r, DOMAIN r \ {x}),
         NEW reset \in [Global -> Int], NEW later \in [Global -> Int], ChainsOK(q, S, reset),
         NEW m, m \in RaidOrHeroic => \A k \in S : q[k].map # m,
         \A n \in Global : IF n = m THEN later[n] >= reset[n] ELSE later[n] = reset[n],
         Early(r[x], later),
         r[x].map \in RaidOrHeroic => r[x].map = m /\ InStep(r[x], later)
  PROVE  ChainsOK(r, DOMAIN r, later)
<1>1. \A k \in S : GoodEvent(q[k]) /\ q[k] \in Event
  BY DEF QueueOK
<1>2. \A k \in S : Early(q[k], later) /\ (q[k].map \in RaidOrHeroic => InStep(q[k], later))
  <2> SUFFICES ASSUME NEW k \in S
               PROVE  Early(q[k], later) /\ (q[k].map \in RaidOrHeroic => InStep(q[k], later))
    OBVIOUS
  <2>1. Early(q[k], reset) /\ (q[k].map \in RaidOrHeroic => InStep(q[k], reset))
    BY DEF ChainsOK
  <2>2. q[k].map \in RaidOrHeroic => later[q[k].map] = reset[q[k].map]
    BY MapsAssumption
  <2>3. q[k].map \in RaidOrHeroic => InStep(q[k], later)
    BY <2>1, <2>2 DEF InStep
  <2>4. ASSUME q[k].type # 0 PROVE q[k].at <= later[q[k].map] - ResetTimeDelay[q[k].type]
    <3>1. q[k].map \in Global /\ q[k].type \in 1 .. 4 /\ q[k].at \in Int
      BY <1>1, <2>4 DEF GoodEvent, Event
    <3>2. PICK a \in Int : a = reset[q[k].map]
      BY <3>1
    <3>3. PICK b \in Int : b = later[q[k].map]
      BY <3>1
    <3>4. PICK c \in Nat : c = ResetTimeDelay[q[k].type]
      BY <3>1, DelayFacts
    <3>5. a <= b /\ q[k].at <= a - c
      BY <2>1, <2>4, <3>1, <3>2, <3>3, <3>4 DEF Early
    <3>6. QED
      BY <3>1, <3>3, <3>4, <3>5
  <2>5. QED
    BY <2>3, <2>4 DEF Early
<1>3. ChainsOK(q, S, later)
  BY <1>2 DEF ChainsOK
<1>4. ChainsOK(r, DOMAIN r \ {x}, later)
  BY <1>3, ChainsKept
<1>5. ASSUME NEW k \in DOMAIN r \ {x}, r[x].map \in RaidOrHeroic
      PROVE  r[k].map # r[x].map
  <2>1. PICK l \in S : r[k] = q[l]
    BY DEF OneForOne
  <2>2. QED
    BY <1>5, <2>1
<1>6. \A k \in DOMAIN r : Early(r[k], later) /\ (r[k].map \in RaidOrHeroic => InStep(r[k], later))
  BY <1>4 DEF ChainsOK
<1>7. ASSUME NEW k \in DOMAIN r, NEW l \in DOMAIN r, r[k].map = r[l].map, r[k].map \in RaidOrHeroic
      PROVE  k = l
  <2>1. CASE k = x
    BY <1>5, <1>7, <2>1
  <2>2. CASE l = x
    BY <1>5, <1>7, <2>2
  <2>3. CASE k # x /\ l # x
    BY <1>4, <1>7, <2>3 DEF ChainsOK
  <2>4. QED
    BY <2>1, <2>2, <2>3
<1>8. QED
  BY <1>6, <1>7 DEF ChainsOK

(* A map loses its only event of the map as a whole to no other. *)
LEMMA CoverKept ==
  ASSUME NEW q, Covered(q), NEW S, NEW r, NEW R \in SUBSET DOMAIN r, OneForOne(q, S, r, R),
         \A y \in DOMAIN q \ S, m \in Global : WholeMap(q[y], m) => \E x \in DOMAIN r : WholeMap(r[x], m)
  PROVE  Covered(r)
<1> SUFFICES ASSUME NEW m \in Global PROVE \E x \in DOMAIN r : WholeMap(r[x], m)
  BY DEF Covered
<1>1. PICK y \in DOMAIN q : WholeMap(q[y], m)
  BY DEF Covered
<1>2. CASE y \in S
  <2>1. PICK f \in [R -> S] : (\A s \in S : \E k \in R : f[k] = s) /\ \A k \in R : r[k] = q[f[k]]
    BY DEF OneForOne
  <2>2. PICK k \in R : f[k] = y
    BY <1>2, <2>1
  <2>3. k \in DOMAIN r /\ r[k] = q[y]
    BY <2>1, <2>2
  <2>4. QED
    BY <1>1, <2>3
<1>3. CASE y \notin S
  BY <1>1, <1>3
<1>4. QED
  BY <1>2, <1>3

(* The events of instances reset alone change nothing of all this. *)
LEMMA ScheduledChains ==
  ASSUME NEW q, QueueOK(q), NEW reset \in [Global -> Int], ChainsOK(q, DOMAIN q, reset),
         NEW t \in Int, NEW m \in Map, m \notin RaidOrHeroic, NEW i \in Id
  PROVE  LET r == Scheduled(q, t, 0, m, i) IN
         /\ QueueOK(r) /\ ChainsOK(r, DOMAIN r, reset)
         /\ Covered(q) => Covered(r)
<1> DEFINE r == Scheduled(q, t, 0, m, i)
           e == [at |-> t, type |-> 0, map |-> m, id |-> i]
<1>1. GoodEvent(e)
  BY DEF GoodEvent
<1>2. QueueOK(r)
  BY <1>1, ScheduledOK
<1>3. Inserted(q, r, e)
  <2>1. q \in Seq(Event) /\ Sorted(q)
    BY DEF QueueOK
  <2>2. QED
    BY <2>1, ScheduledEffect
<1>4. e.type = 0 /\ e.map = m
  OBVIOUS
<1> HIDE DEF r, e
<1>5. PICK p \in DOMAIN r : r[p] = e /\ OneForOne(q, DOMAIN q, r, DOMAIN r \ {p})
  BY <1>3 DEF Inserted
<1>6. ChainsOK(r, DOMAIN r, reset)
  <2>1. Early(r[p], reset) /\ r[p].map \notin RaidOrHeroic
    BY <1>4, <1>5 DEF Early
  <2>2. \A n \in Global : IF n = m THEN reset[n] >= reset[n] ELSE reset[n] = reset[n]
    OBVIOUS
  <2>3. DOMAIN q \in SUBSET DOMAIN q
    OBVIOUS
  <2>4. QED
    BY <1>5, <2>1, <2>2, <2>3, ChainsAdded
<1>7. Covered(q) => Covered(r)
  <2>1. DOMAIN r \ {p} \in SUBSET DOMAIN r
    OBVIOUS
  <2>2. QED
    BY <1>5, <2>1, CoverKept
<1>8. QED
  BY <1>2, <1>6, <1>7 DEF r

LEMMA UnscheduledChains ==
  ASSUME NEW q, QueueOK(q), NEW reset, ChainsOK(q, DOMAIN q, reset), NEW t, NEW i \in Id
  PROVE  LET r == Unscheduled(q, t, i) IN
         ChainsOK(r, DOMAIN r, reset) /\ (Covered(q) => Covered(r))
<1> DEFINE r == Unscheduled(q, t, i)
<1>1. Removed(q, r, i)
  <2>1. q \in Seq(Event) /\ Sorted(q)
    BY DEF QueueOK
  <2>2. QED
    BY <2>1, UnscheduledEffect
<1> HIDE DEF r
<1>2. CASE r = q
  BY <1>2 DEF r
<1>3. ASSUME NEW x \in DOMAIN q, q[x].id = i, OneForOne(q, DOMAIN q \ {x}, r, DOMAIN r)
      PROVE  ChainsOK(r, DOMAIN r, reset) /\ (Covered(q) => Covered(r))
  <2>1. ChainsOK(q, DOMAIN q \ {x}, reset)
    BY DEF ChainsOK
  <2>2. ChainsOK(r, DOMAIN r, reset)
    BY <1>3, <2>1, ChainsKept
  <2>3. \A m : ~WholeMap(q[x], m)
    BY <1>3, MapsAssumption DEF WholeMap
  <2>4. DOMAIN r \in SUBSET DOMAIN r /\ \A y \in DOMAIN q \ (DOMAIN q \ {x}) : y = x
    OBVIOUS
  <2>5. QED
    BY <1>3, <2>2, <2>3, <2>4, CoverKept
<1>4. QED
  BY <1>1, <1>2, <1>3 DEF Removed, r

LEMMA SetResetScheduleChains ==
  ASSUME NEW q, QueueOK(q), NEW reset \in [Global -> Int], ChainsOK(q, DOMAIN q, reset),
         NEW on, NEW i \in Id, NEW m \in Map, NEW t \in Int
  PROVE  LET r == SetResetSchedule(q, on, i, m, t) IN
         ChainsOK(r, DOMAIN r, reset) /\ (Covered(q) => Covered(r))
<1>1. CASE m \in RaidOrHeroic
  BY <1>1 DEF SetResetSchedule
<1>2. CASE m \notin RaidOrHeroic /\ on
  BY <1>2, ScheduledChains DEF SetResetSchedule
<1>3. CASE m \notin RaidOrHeroic /\ ~on
  BY <1>3, UnscheduledChains DEF SetResetSchedule
<1>4. QED
  BY <1>1, <1>2, <1>3

LEMMA AddInstanceSaveChains ==
  ASSUME BaseInv, ChainsOK(queue, DOMAIN queue, resetTime), NEW i \in Id, NEW m \in Map, NEW t \in Int, NEW bind,
         NEW q, q = AddInstanceSave(i, m, t, bind).queue
  PROVE  /\ QueueOK(q) /\ ChainsOK(q, DOMAIN q, resetTime) /\ (Covered(queue) => Covered(q))
         /\ AddInstanceSave(i, m, t, bind).save.resetTime \in Int
<1> DEFINE T == IF t # 0 THEN t ELSE IF m \notin Global THEN now + 2 * Hour ELSE resetTime[m]
<1>1. q = IF t = 0 /\ m \notin Global THEN Scheduled(queue, T, 0, m, i) ELSE queue
  BY DEF AddInstanceSave
<1>2. AddInstanceSave(i, m, t, bind).save.resetTime = T
  BY DEF AddInstanceSave
<1>3. T \in Int /\ QueueOK(queue) /\ resetTime \in [Global -> Int]
  BY HourFacts DEF BaseInv, TypeOK
<1> HIDE DEF T
<1>4. QueueOK(q) /\ ChainsOK(q, DOMAIN q, resetTime) /\ (Covered(queue) => Covered(q))
  <2>1. CASE t = 0 /\ m \notin Global
    <3>1. m \notin RaidOrHeroic
      BY <2>1, MapsAssumption
    <3>2. QED
      BY <1>1, <1>3, <2>1, <3>1, ScheduledChains
  <2>2. CASE ~(t = 0 /\ m \notin Global)
    BY <1>1, <1>3, <2>2
  <2>3. QED
    BY <2>1, <2>2
<1>5. QED
  BY <1>2, <1>3, <1>4


(* No step of a player touches them. *)
LEMMA PlayersChains ==
  ASSUME BaseInv, ChainsInv, Players
  PROVE  ChainsInv'
<1>1. PICK i \in Id :
        \/ \E m \in Map : NewInstance(i, m)
        \/ Enter(i) \/ Leave(i) \/ SetResetTime(i) \/ PermBind(i) \/ Extend(i) \/ Login(i) \/ Logout(i)
  BY DEF Players
<1>2. QueueOK(queue) /\ resetTime \in [Global -> Int]
  BY DEF BaseInv, TypeOK
<1>3. Loaded(i) => saves[i].map \in Map /\ saves[i].resetTime \in Int
  BY TypeFacts DEF BaseInv
<1>4. ASSUME NEW q, queue' = q, UNCHANGED <<up, resetTime, forced>>,
             ~forced => ChainsOK(q, DOMAIN q, resetTime) /\ (Covered(queue) => Covered(q))
      PROVE  ChainsInv'
  BY <1>4 DEF ChainsInv
<1>5. CASE \E m \in Map : NewInstance(i, m)
  <2>1. PICK m \in Map : NewInstance(i, m)
    BY <1>5
  <2>2. PICK new : new = AddInstanceSave(i, m, 0, Temporary)
    OBVIOUS
  <2>3. /\ queue' = SetResetSchedule(new.queue, FALSE, i, m, new.save.resetTime)
        /\ UNCHANGED <<up, resetTime, forced>>
    BY <2>1, <2>2 DEF NewInstance
  <2>4. PICK q : q = new.queue
    OBVIOUS
  <2>5. ~forced => /\ QueueOK(q) /\ ChainsOK(q, DOMAIN q, resetTime) /\ (Covered(queue) => Covered(q))
                   /\ new.save.resetTime \in Int
    BY <2>2, <2>4, AddInstanceSaveChains DEF ChainsInv
  <2>6. PICK r : r = SetResetSchedule(q, FALSE, i, m, new.save.resetTime)
    OBVIOUS
  <2>7. ~forced => ChainsOK(r, DOMAIN r, resetTime) /\ (Covered(q) => Covered(r))
    BY <1>2, <2>5, <2>6, SetResetScheduleChains
  <2>8. QED
    BY <1>4, <2>3, <2>4, <2>5, <2>6, <2>7
<1>6. CASE Enter(i)
  <2>1. /\ Loaded(i) /\ UNCHANGED <<up, resetTime, forced>>
        /\ queue' = SetResetSchedule(queue, FALSE, i, saves[i].map, saves[i].resetTime)
    BY <1>6 DEF Enter
  <2>2. PICK q : q = SetResetSchedule(queue, FALSE, i, saves[i].map, saves[i].resetTime)
    OBVIOUS
  <2>3. ~forced => ChainsOK(q, DOMAIN q, resetTime) /\ (Covered(queue) => Covered(q))
    BY <1>2, <1>3, <2>1, <2>2, SetResetScheduleChains DEF ChainsInv
  <2>4. QED
    BY <1>4, <2>1, <2>2, <2>3
<1>7. CASE Leave(i)
  <2>1. /\ UNCHANGED <<up, resetTime, forced>>
        /\ queue' = IF Loaded(i)
                    THEN SetResetSchedule(queue, TRUE, i, saves[i].map, saves[i].resetTime)
                    ELSE queue
    BY <1>7 DEF Leave
  <2>2. CASE Loaded(i)
    <3>1. PICK q : q = SetResetSchedule(queue, TRUE, i, saves[i].map, saves[i].resetTime)
      OBVIOUS
    <3>2. ~forced => ChainsOK(q, DOMAIN q, resetTime) /\ (Covered(queue) => Covered(q))
      BY <1>2, <1>3, <2>2, <3>1, SetResetScheduleChains DEF ChainsInv
    <3>3. QED
      BY <1>4, <2>1, <2>2, <3>1, <3>2
  <2>3. CASE ~Loaded(i)
    BY <2>1, <2>3 DEF ChainsInv
  <2>4. QED
    BY <2>2, <2>3
<1>8. CASE Login(i)
  <2>1. /\ rows[i] # NoRow /\ UNCHANGED <<up, resetTime, forced>>
        /\ queue' = AddInstanceSave(i, rows[i].map, rows[i].resetTime, rows[i].bind).queue
    BY <1>8 DEF Login
  <2>2. rows[i].map \in Map /\ rows[i].resetTime \in Int
    BY <2>1, TypeFacts DEF BaseInv
  <2>3. PICK q : q = AddInstanceSave(i, rows[i].map, rows[i].resetTime, rows[i].bind).queue
    OBVIOUS
  <2>4. ~forced => ChainsOK(q, DOMAIN q, resetTime) /\ (Covered(queue) => Covered(q))
    BY <2>2, <2>3, AddInstanceSaveChains DEF ChainsInv
  <2>5. QED
    BY <1>4, <2>1, <2>3, <2>4
<1>9. CASE SetResetTime(i) \/ PermBind(i) \/ Extend(i) \/ Logout(i)
  <2>1. UNCHANGED <<up, resetTime, queue, forced>>
    BY <1>9 DEF SetResetTime, PermBind, Extend, Rebind, Logout
  <2>2. QED
    BY <2>1 DEF ChainsInv
<1>10. QED
  BY <1>1, <1>5, <1>6, <1>7, <1>8, <1>9

LEMMA UpdateAloneChains ==
  ASSUME BaseInv, ChainsInv, UpdateAlone
  PROVE  ChainsInv'
<1>1. /\ queue # <<>> /\ queue[1].type = 0 /\ queue' = Tail(queue)
      /\ UNCHANGED <<up, resetTime, forced>>
  BY DEF UpdateAlone, Due
<1>2. PICK q : q = Tail(queue)
  OBVIOUS
<1>3. queue \in Seq(Event) /\ OneForOne(queue, DOMAIN queue \ {1}, q, DOMAIN q)
  BY <1>1, <1>2, TailEffect DEF BaseInv, QueueOK
<1>4. ASSUME ~forced PROVE ChainsOK(q, DOMAIN q, resetTime) /\ (Covered(queue) => Covered(q))
  <2>1. ChainsOK(queue, DOMAIN queue \ {1}, resetTime)
    BY <1>4 DEF ChainsInv, ChainsOK
  <2>2. \A m : ~WholeMap(queue[1], m)
    BY <1>1 DEF WholeMap
  <2>3. DOMAIN q \in SUBSET DOMAIN q /\ \A y \in DOMAIN queue \ (DOMAIN queue \ {1}) : y = 1
    OBVIOUS
  <2>4. QED
    BY <1>3, <2>1, <2>2, <2>3, ChainsKept, CoverKept
<1>5. QED
  BY <1>1, <1>2, <1>4 DEF ChainsInv

(* A warning is followed by the next: the new event is behind the one that  *)
(* Update erases.                                                           *)
LEMMA UpdateWarnChains ==
  ASSUME BaseInv, ChainsInv, UpdateWarn
  PROVE  ChainsInv'
<1>1. PICK e : e = Warning
  OBVIOUS
<1>2. PICK q : q = Warned
  OBVIOUS
<1>3. PICK t : t = NextWarning
  OBVIOUS
<1>4. PICK r : r = Tail(Scheduled(q, t, e.type, e.map, e.id))
  OBVIOUS
<1>5. /\ queue' = r /\ UNCHANGED <<up, resetTime, forced>>
      /\ queue \in Seq(Event) /\ queue[1] \in Event /\ queue[1].type \in 1 .. 3 /\ queue[1].map \in Global
      /\ 1 \in DOMAIN queue
      /\ e \in Event /\ e.type = queue[1].type + 1 /\ e.type \in 2 .. 4
      /\ e.at = queue[1].at /\ e.map = queue[1].map /\ e.id = queue[1].id
      /\ GoodEvent(e) /\ t \in Int
      /\ QueueOK(q) /\ q # <<>> /\ q[1] = e /\ DOMAIN q = DOMAIN queue
      /\ \A k \in DOMAIN queue \ {1} : q[k] = queue[k]
  BY <1>1, <1>2, <1>3, <1>4, WarningFacts DEF Warned
<1>6. PICK m \in Global : m = e.map
  BY <1>5
<1>7. SUFFICES ASSUME ~forced PROVE ChainsOK(r, DOMAIN r, resetTime) /\ (Covered(queue) => Covered(r))
  BY <1>5 DEF ChainsInv
<1>8. ChainsOK(queue, DOMAIN queue, resetTime)
  BY <1>7 DEF ChainsInv
<1>9. resetTime \in [Global -> Int] /\ resetTime[m] \in Int
  BY DEF BaseInv, TypeOK
<1>10. t = resetTime[m] - ResetTimeDelay[e.type]
  BY <1>1, <1>3, <1>6 DEF NextWarning
<1>11. q[1].at <= t
  <2>1. PICK type \in 1 .. 3 : type = queue[1].type
    BY <1>5
  <2>2. PICK c \in Nat : c = ResetTimeDelay[type]
    BY <2>1, DelayFacts
  <2>3. PICK d \in Nat : d = ResetTimeDelay[e.type]
    BY <1>5, DelayFacts
  <2>4. c > d
    BY <1>5, <2>1, <2>2, <2>3, DelayFacts
  <2>5. PICK a \in Int : a = resetTime[m]
    BY <1>9
  <2>6. e.at \in Int /\ e.at <= a - c
    <3>1. Early(queue[1], resetTime)
      BY <1>5, <1>8 DEF ChainsOK
    <3>2. e.at \in Int
      BY <1>5 DEF Event
    <3>3. QED
      BY <1>5, <1>6, <2>1, <2>2, <2>5, <3>1, <3>2 DEF Early
  <2>7. \A x, y \in Int : x <= y - c => x <= y - d
    BY <2>4
  <2>8. QED
    BY <1>5, <1>10, <2>3, <2>5, <2>6, <2>7
<1>12. PICK n : n = [at |-> t, type |-> e.type, map |-> e.map, id |-> e.id]
  OBVIOUS
<1>13. PICK x \in DOMAIN r : r[x] = n /\ OneForOne(q, DOMAIN q \ {1}, r, DOMAIN r \ {x})
  <2>1. q \in Seq(Event) /\ Sorted(q) /\ e.type \in 0 .. 4 /\ e.map \in Map /\ e.id \in Id \cup {NoId}
    BY <1>5 DEF QueueOK, Event
  <2>2. PICK s : s = Scheduled(q, t, e.type, e.map, e.id)
    OBVIOUS
  <2>3. Inserted(q, s, n)
    BY <1>5, <1>12, <2>1, <2>2, ScheduledEffect
  <2>4. n.at = t
    BY <1>12
  <2>5. PICK p \in DOMAIN s :
          /\ p # 1
          /\ \E y \in DOMAIN Tail(s) : Tail(s)[y] = n /\ OneForOne(q, DOMAIN q \ {1}, Tail(s), DOMAIN Tail(s) \ {y})
    BY <1>5, <1>11, <2>3, <2>4 DEF Inserted
  <2>6. QED
    BY <1>4, <2>2, <2>5
<1>14. ChainsOK(q, DOMAIN q \ {1}, resetTime)
  BY <1>5, <1>8 DEF ChainsOK
<1>15. n.type = e.type /\ n.map = m /\ n.id = e.id /\ n.at = resetTime[m] - ResetTimeDelay[e.type] /\ n.type # 0
  BY <1>5, <1>6, <1>10, <1>12
<1>16. ChainsOK(r, DOMAIN r, resetTime)
  <2>1. Early(n, resetTime)
    <3>1. n.at \in Int
      BY <1>5, <1>10, <1>15
    <3>2. n.at = resetTime[n.map] - ResetTimeDelay[n.type]
      BY <1>15
    <3>3. QED
      BY <3>1, <3>2 DEF Early
  <2>2. n.map \in RaidOrHeroic => InStep(n, resetTime)
    BY <1>5, <1>6, <1>8, <1>15 DEF ChainsOK, InStep
  <2>3. m \in RaidOrHeroic => \A k \in DOMAIN q \ {1} : q[k].map # m
    BY <1>5, <1>6, <1>8 DEF ChainsOK
  <2>4. \A j \in Global : IF j = m THEN resetTime[j] >= resetTime[j] ELSE resetTime[j] = resetTime[j]
    BY <1>9
  <2>5. DOMAIN q \ {1} \in SUBSET DOMAIN q
    OBVIOUS
  <2>6. QED
    BY <1>5, <1>9, <1>13, <1>14, <1>15, <2>1, <2>2, <2>3, <2>4, <2>5, ChainsAdded
<1>17. Covered(queue) => Covered(r)
  <2> SUFFICES ASSUME Covered(queue) PROVE Covered(r)
    OBVIOUS
  <2>1. Covered(q)
    <3> SUFFICES ASSUME NEW j \in Global PROVE \E k \in DOMAIN q : WholeMap(q[k], j)
      BY DEF Covered
    <3>1. PICK k \in DOMAIN queue : WholeMap(queue[k], j)
      BY DEF Covered
    <3>2. CASE k = 1
      BY <1>5, <3>1, <3>2 DEF WholeMap
    <3>3. CASE k # 1
      BY <1>5, <3>1, <3>3
    <3>4. QED
      BY <3>2, <3>3
  <2>2. \A y \in DOMAIN q \ (DOMAIN q \ {1}), j \in Global : WholeMap(q[y], j) => WholeMap(r[x], j)
    BY <1>5, <1>6, <1>13, <1>15 DEF WholeMap
  <2>3. DOMAIN r \ {x} \in SUBSET DOMAIN r
    OBVIOUS
  <2>4. QED
    BY <1>13, <2>1, <2>2, <2>3, CoverKept
<1>18. QED
  BY <1>16, <1>17

(* A reset is followed by the first warning of the next, which is behind it *)
(* as well: the period is at least a day.                                   *)
LEMMA UpdateResetChains ==
  ASSUME BaseInv, ChainsInv, UpdateReset
  PROVE  ChainsInv'
<1>1. PICK m : m = queue[1].map
  OBVIOUS
<1>2. PICK later : later = GetSubsequentResetTime(m, resetTime[m])
  OBVIOUS
<1>3. PICK t : t = later - Hour
  OBVIOUS
<1>4. PICK r : r = Tail(Scheduled(queue, t, 1, m, NoId))
  OBVIOUS
<1>5. PICK times : times = [resetTime EXCEPT ![m] = later]
  OBVIOUS
<1>6. /\ up /\ queue # <<>> /\ queue[1].type = 4
      /\ queue' = r /\ resetTime' = times /\ UNCHANGED <<up, forced>>
  BY <1>1, <1>2, <1>3, <1>4, <1>5 DEF UpdateReset, Due, ResetAll, AfterReset
<1>7. SUFFICES ASSUME ~forced PROVE ChainsOK(r, DOMAIN r, times) /\ (Covered(queue) => Covered(r))
  BY <1>6 DEF ChainsInv
<1>8. ChainsOK(queue, DOMAIN queue, resetTime)
  BY <1>7 DEF ChainsInv
<1>9. QueueOK(queue) /\ queue \in Seq(Event) /\ Sorted(queue) /\ resetTime \in [Global -> Int]
  BY DEF BaseInv, TypeOK, QueueOK
<1>10. 1 \in DOMAIN queue /\ queue[1] \in Event /\ GoodEvent(queue[1])
  BY <1>6, <1>9 DEF QueueOK
<1>11. m \in Global /\ m \in Map
  BY <1>1, <1>6, <1>10, MapsAssumption DEF GoodEvent
<1>12. PICK reset \in Nat : reset = resetTime[m] /\ IsResetTime(reset)
  BY <1>6, <1>11 DEF BaseInv, TimesInv, IsResetTime
<1>13. PICK period \in Nat : period = Period(m) /\ period >= Day
  BY <1>11, PeriodFacts
<1>14. later = reset + period /\ later \in Int /\ t \in Int /\ later >= reset /\ t = later - ResetTimeDelay[1]
  <2>1. later = reset + period
    BY <1>2, <1>11, <1>12, <1>13, SubsequentReset
  <2>2. QED
    BY <1>3, <2>1, HourFacts, DelayFacts
<1>15. queue[1].at <= t
  <2>1. queue[1].at \in Int /\ queue[1].at <= reset - Minute
    <3>1. Early(queue[1], resetTime) /\ queue[1].at \in Int
      BY <1>8, <1>10 DEF ChainsOK, Event
    <3>2. QED
      BY <1>1, <1>6, <1>12, <3>1, DelayFacts DEF Early
  <2>2. QED
    BY <1>3, <1>13, <1>14, <2>1, HourFacts
<1>16. PICK n : n = [at |-> t, type |-> 1, map |-> m, id |-> NoId]
  OBVIOUS
<1>17. PICK x \in DOMAIN r : r[x] = n /\ OneForOne(queue, DOMAIN queue \ {1}, r, DOMAIN r \ {x})
  <2>1. PICK s : s = Scheduled(queue, t, 1, m, NoId)
    OBVIOUS
  <2>2. Inserted(queue, s, n)
    BY <1>9, <1>11, <1>14, <1>16, <2>1, ScheduledEffect
  <2>3. n.at = t
    BY <1>16
  <2>4. PICK p \in DOMAIN s :
          /\ p # 1
          /\ \E y \in DOMAIN Tail(s) : /\ Tail(s)[y] = n
                                       /\ OneForOne(queue, DOMAIN queue \ {1}, Tail(s), DOMAIN Tail(s) \ {y})
    BY <1>6, <1>15, <2>2, <2>3 DEF Inserted
  <2>5. QED
    BY <1>4, <2>1, <2>4
<1>18. ChainsOK(queue, DOMAIN queue \ {1}, resetTime)
  BY <1>8 DEF ChainsOK
<1>19. n.type = 1 /\ n.map = m /\ n.id = NoId /\ n.at = t
  BY <1>16
<1>20. times \in [Global -> Int] /\ times[m] = later /\ \A j \in Global : j # m => times[j] = resetTime[j]
  BY <1>5, <1>9, <1>11, <1>14
<1>21. ChainsOK(r, DOMAIN r, times)
  <2>1. Early(n, times) /\ InStep(n, times)
    BY <1>14, <1>19, <1>20 DEF Early, InStep
  <2>2. m \in RaidOrHeroic => \A k \in DOMAIN queue \ {1} : queue[k].map # m
    BY <1>1, <1>8, <1>10 DEF ChainsOK
  <2>3. \A j \in Global : IF j = m THEN times[j] >= resetTime[j] ELSE times[j] = resetTime[j]
    BY <1>12, <1>14, <1>20
  <2>4. DOMAIN queue \ {1} \in SUBSET DOMAIN queue
    OBVIOUS
  <2>5. QED
    BY <1>9, <1>17, <1>18, <1>19, <1>20, <2>1, <2>2, <2>3, <2>4, ChainsAdded
<1>22. Covered(queue) => Covered(r)
  <2>1. \A y \in DOMAIN queue \ (DOMAIN queue \ {1}), j \in Global : WholeMap(queue[y], j) => WholeMap(r[x], j)
    BY <1>1, <1>17, <1>19 DEF WholeMap
  <2>2. DOMAIN r \ {x} \in SUBSET DOMAIN r
    OBVIOUS
  <2>3. QED
    BY <1>17, <2>1, <2>2, CoverKept
<1>23. QED
  BY <1>21, <1>22

(* At startup there is one event for every map, and more only for others. *)
LEMMA StartChains ==
  ASSUME MemoryInv, Start
  PROVE  ChainsInv'
<1>1. PICK q : q = queue'
  OBVIOUS
<1>2. PICK reset : reset = resetTime'
  OBVIOUS
<1>3. PICK table : table = rows'
  OBVIOUS
<1> DEFINE timed == {i \in Id : table[i] # NoRow /\ table[i].resetTime > 0}
<1>4. /\ \A k, l \in DOMAIN q : q[k] = q[l] => k = l
      /\ \A k \in DOMAIN q :
           \/ \E i \in timed : q[k] = TimedEvent(table, i)
           \/ \E m \in Global : q[k] = FirstEvent(reset, m, NoId)
           \/ \E i \in timed : table[i].map \in Global /\ q[k] = FirstEvent(reset, table[i].map, i)
      /\ \A m \in Global : \E k \in DOMAIN q : q[k] = FirstEvent(reset, m, NoId)
  BY <1>1, <1>2, <1>3, StartEvents
<1>5. reset \in [Global -> Int] /\ now \in Int
  <2>1. now \in Int
    BY DEF MemoryInv, BaseInv, TypeOK
  <2>2. QED
    BY <1>2, <2>1, StartTables
<1>6. \A i \in timed : table[i].map \notin RaidOrHeroic
  <2>1. TablesOK(Here', ~forced)
    BY StartTables
  <2>2. PICK d : d = Here'
    OBVIOUS
  <2>3. d.rows = table /\ TablesOK(d, ~forced)
    BY <1>3, <2>1, <2>2 DEF Here
  <2>4. QED
    BY <2>3 DEF TablesOK, RowOK
<1>7. ASSUME NEW m \in Global, NEW i
      PROVE  LET e == FirstEvent(reset, m, i) IN
             /\ e.map = m /\ e.id = i /\ e.type # 0 /\ Early(e, reset)
             /\ i = NoId => InStep(e, reset) /\ WholeMap(e, m)
  <2>1. PICK type \in 1 .. 4 : type = FirstType(reset[m])
    BY <1>5, FirstTypeTyped
  <2>2. PICK a \in Int : a = reset[m]
    BY <1>5
  <2>3. PICK c \in Nat : c = ResetTimeDelay[type]
    BY DelayFacts
  <2>4. PICK e : e = FirstEvent(reset, m, i)
    OBVIOUS
  <2>5. e.map = m /\ e.id = i /\ e.type = type /\ e.at = a - c
    BY <2>1, <2>2, <2>3, <2>4 DEF FirstEvent
  <2>6. QED
    BY <2>1, <2>2, <2>3, <2>4, <2>5 DEF Early, InStep, WholeMap
<1>8. \A i \in timed : TimedEvent(table, i).type = 0 /\ TimedEvent(table, i).map = table[i].map
  BY DEF TimedEvent
<1> HIDE DEF timed
<1>9. ASSUME NEW k \in DOMAIN q
      PROVE  /\ Early(q[k], reset)
             /\ q[k].map \in RaidOrHeroic =>
                  InStep(q[k], reset) /\ q[k].map \in Global /\ q[k] = FirstEvent(reset, q[k].map, NoId)
  <2>1. CASE \E i \in timed : q[k] = TimedEvent(table, i)
    BY <1>6, <1>8, <2>1 DEF Early
  <2>2. CASE \E m \in Global : q[k] = FirstEvent(reset, m, NoId)
    BY <1>7, <2>2
  <2>3. CASE \E i \in timed : table[i].map \in Global /\ q[k] = FirstEvent(reset, table[i].map, i)
    BY <1>6, <1>7, <2>3
  <2>4. QED
    BY <1>4, <2>1, <2>2, <2>3
<1>10. ChainsOK(q, DOMAIN q, reset)
  <2>1. ASSUME NEW k \in DOMAIN q, NEW l \in DOMAIN q, q[k].map = q[l].map, q[k].map \in RaidOrHeroic
        PROVE  k = l
    <3>1. q[k] = q[l]
      BY <1>9, <2>1
    <3>2. QED
      BY <1>4, <3>1
  <2>2. QED
    BY <1>9, <2>1 DEF ChainsOK
<1>11. Covered(q)
  BY <1>4, <1>7 DEF Covered
<1>12. QED
  BY <1>1, <1>2, <1>10, <1>11 DEF ChainsInv

LEMMA NextChains ==
  ASSUME MemoryInv, ChainsInv, [Next]_vars
  PROVE  ChainsInv'
<1>1. BaseInv
  BY DEF MemoryInv
<1>2. CASE Players
  BY <1>1, <1>2, PlayersChains
<1>3. CASE Update
  BY <1>1, <1>3, UpdateAloneChains, UpdateWarnChains, UpdateResetChains DEF Update
<1>4. CASE \E m \in Map : ForceGlobalReset(m)
  BY <1>4 DEF ForceGlobalReset, ChainsInv
<1>5. CASE Store \/ Tick \/ UNCHANGED vars
  <2>1. UNCHANGED <<up, resetTime, queue, forced>>
    BY <1>5 DEF Store, Tick, vars, memoryVars
  <2>2. QED
    BY <2>1 DEF ChainsInv
<1>6. CASE Stop
  <2>1. ~up' /\ queue' = <<>>
    BY <1>6 DEF Stop
  <2>2. \A k \in DOMAIN queue' : FALSE
    BY <2>1
  <2>3. QED
    BY <2>1, <2>2 DEF ChainsInv, ChainsOK
<1>7. CASE Start
  BY <1>7, StartChains
<1>8. QED
  BY <1>2, <1>3, <1>4, <1>5, <1>6, <1>7 DEF Next


-----------------------------------------------------------------------------
(* The theorems. *)

LEMMA MemoryAndChains == Spec => [](MemoryInv /\ ChainsInv)
<1>1. Init => MemoryInv /\ ChainsInv
  <2>1. ASSUME Init PROVE ChainsInv
    <3>1. ~up /\ queue = <<>>
      BY <2>1, Zenon DEF Init
    <3>2. \A k \in DOMAIN queue : FALSE
      BY <3>1
    <3>3. QED
      BY <3>1, <3>2 DEF ChainsInv, ChainsOK
  <2>2. QED
    BY <2>1, InitMemory
<1>2. MemoryInv /\ ChainsInv /\ [Next]_vars => (MemoryInv /\ ChainsInv)'
  BY NextMemory, NextChains
<1>3. QED
  BY <1>1, <1>2, PTL DEF Spec

(***************************************************************************)
(* Type correctness of the instance saves and of the reset schedule: the   *)
(* times, the saves and the rows have their types, and m_resetTimeQueue     *)
(* stays in the order of the multimap.                                      *)
(***************************************************************************)
THEOREM ResetsTypeCorrect == Spec => []TypeOK
<1>1. MemoryInv => TypeOK
  BY DEF MemoryInv, BaseInv
<1>2. QED
  BY <1>1, MemoryAndChains, PTL

(***************************************************************************)
(* Exactly one event is scheduled for each raid or heroic map, in step with *)
(* the reset time of the map, whatever restarts and late updates came       *)
(* before, for any maps, periods, instances and players' steps: the chain   *)
(* of warnings of InstanceSaveManager::Update neither breaks nor forks.     *)
(***************************************************************************)
THEOREM RaidResetsAreScheduled == Spec => []ResetsAreScheduled
<1>1. ASSUME MemoryInv, ChainsInv PROVE ResetsAreScheduled
  <2> SUFFICES ASSUME up, ~forced, NEW m \in RaidOrHeroic
               PROVE  LET events == {k \in DOMAIN queue : queue[k].map = m} IN
                      /\ Cardinality(events) = 1
                      /\ \A k \in events : /\ queue[k].id = NoId /\ queue[k].type # 0
                                           /\ queue[k].at = resetTime[m] - ResetTimeDelay[queue[k].type]
    BY DEF ResetsAreScheduled
  <2> DEFINE events == {k \in DOMAIN queue : queue[k].map = m}
  <2>1. ChainsOK(queue, DOMAIN queue, resetTime) /\ Covered(queue)
    BY <1>1 DEF ChainsInv
  <2>2. PICK k \in DOMAIN queue : queue[k].map = m
    BY <2>1, MapsAssumption DEF Covered, WholeMap
  <2>3. events = {k}
    BY <2>1, <2>2 DEF ChainsOK
  <2>4. Cardinality(events) = 1
    BY <2>3, FS_Singleton
  <2>5. \A l \in events : InStep(queue[l], resetTime) /\ queue[l].map = m
    BY <2>1 DEF ChainsOK
  <2>6. QED
    BY <2>4, <2>5 DEF InStep
<1>2. QED
  BY <1>1, MemoryAndChains, PTL

(***************************************************************************)
(* No lockout of a map that is reset as a whole outlives its last reset,    *)
(* for any number of instances, extensions, restarts and lost writes: when  *)
(* Update has nothing to do and its writes are executed, the map's event is *)
(* still ahead, and so is the last reset of every row there is.             *)
(***************************************************************************)
THEOREM NoLockoutOutlivesItsReset == Spec => []LockoutsExpire
<1>1. ASSUME MemoryInv, ChainsInv PROVE LockoutsExpire
  <2> SUFFICES ASSUME up, ~Due, ~forced, pending = <<>>,
                      NEW i \in Id, rows[i] # NoRow, rows[i].map \in Global
               PROVE  now <= rows[i].limit
    BY DEF LockoutsExpire
  <2>1. BaseInv
    BY <1>1 DEF MemoryInv
  <2>2. PICK F : Leads(Here, pending, F, ~forced) /\ Agrees(F)
    BY <1>1 DEF MemoryInv, TablesInv
  <2>3. TablesOK(Here, ~forced) /\ F = Here
    BY <2>1, <2>2, LeadsEnds DEF BaseInv
  <2>4. PICK m \in Global : m = rows[i].map
    OBVIOUS
  <2>5. PICK reset \in Int : reset = resetTime[m] /\ reset = resetRow[m]
    BY <2>1, <2>2, <2>3 DEF BaseInv, TypeOK, Agrees, Here
  <2>6. rows[i] \in Row /\ RowOK(rows[i], resetRow, ~forced)
    BY <2>3 DEF TablesOK, Tables, Here
  <2>7. rows[i].bind \in Bind /\ rows[i].limit \in Int /\ rows[i].limit >= Limit(m, rows[i].bind, reset)
    BY <2>4, <2>5, <2>6 DEF RowOK, Row
  <2>8. Limit(m, rows[i].bind, reset) \in Int /\ Limit(m, rows[i].bind, reset) >= reset
    BY <2>7, LimitFacts
  <2>9. reset >= now
    <3>1. ChainsOK(queue, DOMAIN queue, resetTime) /\ Covered(queue)
      BY <1>1 DEF ChainsInv
    <3>2. PICK k \in DOMAIN queue : WholeMap(queue[k], m)
      BY <3>1 DEF Covered
    <3>3. queue \in Seq(Event) /\ Sorted(queue) /\ now \in Nat
      BY <2>1 DEF BaseInv, QueueOK, TypeOK
    <3>4. 1 \in DOMAIN queue /\ queue # <<>> /\ k \in Nat /\ (k = 1 \/ 1 < k)
      BY <3>2, <3>3
    <3>5. queue[1].at \in Int /\ queue[k].at \in Int /\ queue[k].type \in 1 .. 4 /\ queue[k].map = m
      <4>1. queue[1] \in Event /\ queue[k] \in Event /\ queue[k].type # 0 /\ queue[k].map = m
        BY <3>2, <3>3, <3>4 DEF WholeMap
      <4>2. queue[k].type \in 0 .. 4 /\ queue[1].at \in Int /\ queue[k].at \in Int
        BY <4>1 DEF Event
      <4>3. QED
        BY <4>1, <4>2
    <3>6. queue[1].at >= now
      BY <3>3, <3>4, <3>5 DEF Due
    <3>7. queue[1].at <= queue[k].at
      BY <3>2, <3>3, <3>4, <3>5 DEF Sorted
    <3>8. PICK c \in Nat : c = ResetTimeDelay[queue[k].type]
      BY <3>5, DelayFacts
    <3>9. queue[k].at <= reset - c
      <4>1. Early(queue[k], resetTime) /\ queue[k].type # 0
        BY <3>1, <3>2, <3>5 DEF ChainsOK
      <4>2. QED
        BY <2>5, <3>5, <3>8, <4>1 DEF Early
    <3>10. QED
      BY <3>3, <3>5, <3>6, <3>7, <3>8, <3>9
  <2>10. now \in Nat
    BY <2>1 DEF BaseInv, TypeOK
  <2>11. QED
    BY <2>7, <2>8, <2>9, <2>10
<1>2. QED
  BY <1>1, MemoryAndChains, PTL

(***************************************************************************)
(* Memory and tables agree once the queued writes are executed, for any     *)
(* interleaving of writes, resets, logins and crashes, if every map that is *)
(* reset as a whole is a raid or a heroic dungeon.                          *)
(***************************************************************************)
THEOREM TablesFollowMemory ==
  ASSUME RaidsOnly
  PROVE  Spec => []MemoryMatchesTables
<1>1. ASSUME MemoryInv PROVE MemoryMatchesTables
  <2> SUFFICES ASSUME up, pending = <<>>
               PROVE  /\ resetRow = resetTime
                      /\ \A i \in Id : Loaded(i) =>
                           /\ rows[i] # NoRow
                           /\ rows[i].map = saves[i].map /\ rows[i].bind = saves[i].bind
    BY DEF MemoryMatchesTables
  <2>1. PICK F : Leads(Here, pending, F, ~forced) /\ Agrees(F) /\ AloneInv(F)
    BY <1>1 DEF MemoryInv, TablesInv
  <2>2. F = Here
    BY <1>1, <2>1, LeadsEnds DEF MemoryInv, BaseInv
  <2>3. Here.rows = rows /\ Here.reset = resetRow
    BY DEF Here
  <2>4. QED
    BY <2>1, <2>2, <2>3 DEF AloneInv, Agrees, Matches
<1>2. QED
  BY <1>1, MemoryAndChains, PTL

(***************************************************************************)
(* An instance that is reset alone has no event while a player is inside,   *)
(* and exactly one, at its own reset time, while nobody is and the time is  *)
(* ahead, for any interleaving of players, resets and restarts, if every    *)
(* map that is reset as a whole is a raid or a heroic dungeon.              *)
(***************************************************************************)
THEOREM AloneInstancesAreScheduled ==
  ASSUME RaidsOnly
  PROVE  Spec => []EmptyInstancesAreScheduled
<1>1. ASSUME MemoryInv PROVE EmptyInstancesAreScheduled
  <2> SUFFICES ASSUME NEW i \in Id, IsAlone(i)
               PROVE  LET events == {k \in DOMAIN queue : queue[k].id = i /\ queue[k].type = 0} IN
                      IF i \in inside THEN events = {}
                      ELSE saves[i].resetTime > now =>
                             /\ Cardinality(events) = 1
                             /\ \A k \in events : queue[k].at = saves[i].resetTime
    BY DEF EmptyInstancesAreScheduled
  <2> DEFINE events == {k \in DOMAIN queue : queue[k].id = i /\ queue[k].type = 0}
  <2>1. PICK F : Agrees(F) /\ Matches(F) /\ EventsMatch(F) /\ RowsMatch(F)
    BY <1>1 DEF MemoryInv, TablesInv, AloneInv
  <2>2. Loaded(i) /\ F.rows[i] # NoRow /\ F.rows[i].map \notin Global /\ OwnTime(F, i) = saves[i].resetTime
    BY <2>1 DEF IsAlone, Agrees, Matches, OwnTime
  <2>3. \A k \in events : queue[k] \in IdEvents(queue) /\ queue[k].id = i
    BY IdEventsOf
  <2>4. CASE i \in inside
    <3>1. events = {}
      BY <2>1, <2>3, <2>4 DEF EventsMatch
    <3>2. QED
      BY <2>4, <3>1
  <2>5. CASE i \notin inside
    <3> SUFFICES ASSUME saves[i].resetTime > now
                 PROVE  /\ Cardinality(events) = 1
                        /\ \A k \in events : queue[k].at = saves[i].resetTime
      BY <2>5
    <3>1. up
      BY <1>1, <2>2 DEF MemoryInv, BaseInv, DownInv
    <3>2. PICK e \in IdEvents(queue) : e.id = i
      BY <2>1, <2>2, <2>5, <3>1 DEF RowsMatch
    <3>3. PICK k \in DOMAIN queue : queue[k] = e
      BY IdEventsOf
    <3>4. k \in events
      BY <2>1, <3>2, <3>3 DEF EventsMatch
    <3>5. \A l \in events : l = k
      BY <2>1, <3>2, <3>3 DEF EventsMatch, Lone
    <3>6. events = {k}
      BY <3>4, <3>5
    <3>7. Cardinality(events) = 1
      BY <3>6, FS_Singleton
    <3>8. \A l \in events : queue[l].at = saves[i].resetTime
      BY <2>1, <2>2, <2>3 DEF EventsMatch
    <3>9. QED
      BY <3>7, <3>8
  <2>6. QED
    BY <2>4, <2>5
<1>2. QED
  BY <1>1, MemoryAndChains, PTL

=============================================================================
