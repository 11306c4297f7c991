----------------------------- MODULE MapUpdater -----------------------------
(***************************************************************************)
(* The parallel map update of src/src/server/game/Maps: the world thread   *)
(* in MapManager::Update queues every base map with schedule_update and    *)
(* sleeps in wait() until pending_requests is zero; the worker threads of  *)
(* MapUpdater take requests from the shared ProducerConsumerQueue and run  *)
(* Map::Update; the update of an instanceable map (MapInstanced::Update)   *)
(* runs on a worker too, and queues its instances from there.  At shutdown *)
(* MapManager::UnloadAll deletes the maps and deactivates the updater.     *)
(*                                                                         *)
(* _lock is held for the whole of schedule_update and update_finished, so  *)
(* each is one step; wait() is one step per turn of its loop.              *)
(***************************************************************************)
EXTENDS Naturals, Sequences, FiniteSets

CONSTANTS Worker,       \* the threads of activate(num_threads)
          BaseMap,      \* maps of MapManager::i_maps
          Instance,     \* maps of MapInstanced::m_InstancedMaps
          Parent,       \* the base map of an instance
          NoMap         \* a null MapUpdateRequest*

Map == BaseMap \cup Instance

ASSUME WorkerAssumption == IsFiniteSet(Worker)
ASSUME MapAssumption ==
  /\ BaseMap \cap Instance = {}
  /\ NoMap \notin Map
  /\ Parent \in [Instance -> BaseMap]

VARIABLES queue, shutdown, pc, got,     \* the request queue; got[w] is the request of w
          bases,        \* i_maps
          live,         \* the instances in the m_InstancedMaps of all base maps
          pending,      \* pending_requests
          token,        \* _cancelationToken
          world,        \* where the world thread stands
          todo,         \* base maps its loop over i_maps has not reached
          phase,        \* where a worker stands
          kids,         \* instances its loop over m_InstancedMaps has not reached
          attended      \* maps this tick has updated, or kept because they are occupied

Requests == INSTANCE ProducerConsumerQueue WITH
  Consumer <- Worker, Value <- Map, NoValue <- NoMap

queueVars == <<queue, shutdown, pc, got>>
worldVars == <<world, todo, bases, token>>
workVars  == <<live, phase, kids, attended>>
vars == <<queueVars, worldVars, workVars, pending>>

Asleep == {"asleep", "drainAsleep"}
Quiet == {"delayed", "idle", "stopping", "cancel", "join", "stopped"}

TypeOK ==
  /\ Requests!TypeOK
  /\ bases \subseteq BaseMap /\ todo \subseteq BaseMap
  /\ live \subseteq Instance
  /\ pending \in Nat
  /\ token \in BOOLEAN
  /\ world \in {"idle", "schedule", "wait", "asleep", "delayed",
                "stopping", "drain", "drainAsleep", "cancel", "join", "stopped"}
  /\ phase \in [Worker -> {"idle", "fetch", "update", "children", "exited"}]
  /\ kids \in [Worker -> SUBSET Instance]
  /\ attended \subseteq Map

(* After activate(): every worker is at the top of its loop. *)
Init ==
  /\ Requests!Init
  /\ bases = {} /\ live = {} /\ todo = {} /\ attended = {}
  /\ pending = 0 /\ token = FALSE
  /\ world = "idle"
  /\ phase = [w \in Worker |-> "idle"]
  /\ kids = [w \in Worker |-> {}]

(* schedule_update: count the request, then queue it. *)
ScheduleUpdate(m) ==
  /\ pending' = pending + 1
  /\ Requests!Push(m)

-----------------------------------------------------------------------------
(* The world thread. *)

(* Between two ticks: MapManager::CreateBaseMap and the Create* of MapInstanced. *)
CreateBaseMap(m) ==
  /\ world = "idle" /\ m \notin bases
  /\ bases' = bases \cup {m}
  /\ UNCHANGED <<queueVars, world, todo, token, workVars, pending>>

CreateInstance(i) ==
  /\ world = "idle" /\ i \notin live /\ Parent[i] \in bases
  /\ live' = live \cup {i}
  /\ UNCHANGED <<queueVars, worldVars, phase, kids, attended, pending>>

(* MapManager::Update, when i_timer has passed. *)
BeginTick ==
  /\ world = "idle"
  /\ world' = "schedule" /\ todo' = bases /\ attended' = {}
  /\ UNCHANGED <<queueVars, bases, token, live, phase, kids, pending>>

ScheduleBase(m) ==
  /\ world = "schedule" /\ m \in todo
  /\ todo' = todo \ {m}
  /\ ScheduleUpdate(m)
  /\ UNCHANGED <<world, bases, token, workVars>>

EndSchedule ==
  /\ world = "schedule" /\ todo = {}
  /\ world' = "wait"
  /\ UNCHANGED <<queueVars, todo, bases, token, workVars, pending>>

(* Fault: the world thread waits until the queue is empty. *)
WaitForEmptyQueue ==
  /\ world \in {"wait", "drain"}
  /\ world' = CASE queue = <<>> /\ world = "wait"  -> "delayed"
                [] queue = <<>> /\ world = "drain" -> "cancel"
                [] queue # <<>> /\ world = "wait"  -> "asleep"
                [] queue # <<>> /\ world = "drain" -> "drainAsleep"
  /\ UNCHANGED <<queueVars, todo, bases, token, workVars, pending>>

(* wait(), from the tick or from deactivate(). *)
Wait ==
  /\ world \in {"wait", "drain"}
  /\ world' = CASE pending = 0 /\ world = "wait"  -> "delayed"
                [] pending = 0 /\ world = "drain" -> "cancel"
                [] pending # 0 /\ world = "wait"  -> "asleep"
                [] pending # 0 /\ world = "drain" -> "drainAsleep"
  /\ UNCHANGED <<queueVars, todo, bases, token, workVars, pending>>

Woken == CASE world = "asleep" -> "wait"
           [] world = "drainAsleep" -> "drain"
           [] OTHER -> world

WorldSpuriousWakeup ==
  /\ world \in Asleep
  /\ world' = Woken
  /\ UNCHANGED <<queueVars, todo, bases, token, workVars, pending>>

(* DelayedUpdate of every map, on the world thread. *)
DelayedUpdate ==
  /\ world = "delayed"
  /\ world' = "idle"
  /\ UNCHANGED <<queueVars, todo, bases, token, workVars, pending>>

(* UnloadAll deletes all maps and calls deactivate, which raises the token, *)
(* waits, cancels the queue and joins the workers.                          *)
UnloadAll ==
  /\ world = "idle"
  /\ world' = "stopping" /\ bases' = {} /\ live' = {}
  /\ UNCHANGED <<queueVars, todo, token, phase, kids, attended, pending>>

(* Fault: the token is forgotten. *)
DeactivateWithoutToken ==
  /\ world = "stopping"
  /\ world' = "drain"
  /\ UNCHANGED <<queueVars, todo, bases, token, workVars, pending>>

RaiseToken ==
  /\ world = "stopping"
  /\ world' = "drain" /\ token' = TRUE
  /\ UNCHANGED <<queueVars, todo, bases, workVars, pending>>

CancelQueue ==
  /\ world = "cancel"
  /\ world' = "join"
  /\ Requests!Cancel
  /\ UNCHANGED <<todo, bases, token, workVars, pending>>

Join ==
  /\ world = "join"
  /\ \A w \in Worker : phase[w] = "exited"
  /\ world' = "stopped"
  /\ UNCHANGED <<queueVars, todo, bases, token, workVars, pending>>

World ==
  \/ \E m \in BaseMap : CreateBaseMap(m) \/ ScheduleBase(m)
  \/ \E i \in Instance : CreateInstance(i)
  \/ BeginTick \/ EndSchedule \/ Wait \/ WorldSpuriousWakeup \/ DelayedUpdate
  \/ UnloadAll \/ RaiseToken \/ CancelQueue \/ Join

-----------------------------------------------------------------------------
(* A worker thread. *)

(* The loop of WorkerThread: ask for a request ... *)
Fetch(w) ==
  /\ phase[w] = "idle"
  /\ phase' = [phase EXCEPT ![w] = "fetch"]
  /\ Requests!Call(w)
  /\ UNCHANGED <<worldVars, live, kids, attended, pending>>

WaitAndPop(w) ==
  /\ Requests!WaitAndPop(w) \/ Requests!SpuriousWakeup(w)
  /\ UNCHANGED <<worldVars, workVars, pending>>

(* ... and leave, whatever was popped, when the token is raised. *)
CheckToken(w) ==
  /\ phase[w] = "fetch" /\ pc[w] = "out"
  /\ phase' = [phase EXCEPT ![w] = IF token THEN "exited" ELSE "update"]
  /\ UNCHANGED <<queueVars, worldVars, live, kids, attended, pending>>

(* Fault: the count drops when the map's own update is done, before its *)
(* instances are queued.                                                *)
FinishEarly(w) ==
  /\ phase[w] = "update"
  /\ attended' = attended \cup {got[w]}
  /\ kids' = [kids EXCEPT ![w] = {i \in live : Parent[i] = got[w]}]
  /\ phase' = [phase EXCEPT ![w] = "children"]
  /\ pending' = pending - 1
  /\ UNCHANGED <<queueVars, worldVars, live>>

(* MapUpdateRequest::call: the map's own update; then a MapInstanced goes *)
(* over its instances.                                                    *)
UpdateMap(w) ==
  /\ phase[w] = "update"
  /\ attended' = attended \cup {got[w]}
  /\ kids' = [kids EXCEPT ![w] = {i \in live : Parent[i] = got[w]}]
  /\ phase' = [phase EXCEPT ![w] = "children"]
  /\ UNCHANGED <<queueVars, worldVars, live, pending>>

(* Fault: the loop's iterator is not advanced past a scheduled instance. *)
ScheduleWithoutAdvance(w, i) ==
  /\ phase[w] = "children" /\ i \in kids[w]
  /\ kids' \in {kids, [kids EXCEPT ![w] = @ \ {i}]}
  /\ pending < 4
  /\ ScheduleUpdate(i)
  /\ UNCHANGED <<worldVars, live, phase, attended>>

(* CanUnload is false: queue the instance. *)
ScheduleInstance(w, i) ==
  /\ phase[w] = "children" /\ i \in kids[w]
  /\ kids' = [kids EXCEPT ![w] = @ \ {i}]
  /\ ScheduleUpdate(i)
  /\ UNCHANGED <<worldVars, live, phase, attended>>

(* Fault: the loop stops at the first destroyed instance. *)
DestroyAndBreak(w, i) ==
  /\ phase[w] = "children" /\ i \in kids[w]
  /\ kids' = [kids EXCEPT ![w] = {}]
  /\ live' = live \ {i}
  /\ UNCHANGED <<queueVars, worldVars, phase, attended, pending>>

(* CanUnload is true and DestroyInstance finds nobody inside. *)
DestroyInstance(w, i) ==
  /\ phase[w] = "children" /\ i \in kids[w]
  /\ kids' = [kids EXCEPT ![w] = @ \ {i}]
  /\ live' = live \ {i}
  /\ UNCHANGED <<queueVars, worldVars, phase, attended, pending>>

(* CanUnload is true but RemoveAllPlayers could not empty the instance: it is *)
(* neither destroyed nor updated.                                             *)
KeepInstance(w, i) ==
  /\ phase[w] = "children" /\ i \in kids[w]
  /\ kids' = [kids EXCEPT ![w] = @ \ {i}]
  /\ attended' = attended \cup {i}
  /\ UNCHANGED <<queueVars, worldVars, live, phase, pending>>

(* Fault: nobody is told that a request is finished. *)
FinishSilently(w) ==
  /\ phase[w] = "children" /\ kids[w] = {}
  /\ pending' = pending - 1
  /\ phase' = [phase EXCEPT ![w] = "idle"]
  /\ Requests!Release(w)
  /\ UNCHANGED <<worldVars, live, kids, attended>>

(* update_finished, and the deletion of the request. *)
UpdateFinished(w) ==
  /\ phase[w] = "children" /\ kids[w] = {}
  /\ pending' = pending - 1
  /\ world' = Woken
  /\ phase' = [phase EXCEPT ![w] = "idle"]
  /\ Requests!Release(w)
  /\ UNCHANGED <<todo, bases, token, live, kids, attended>>

Work(w) ==
  \/ Fetch(w) \/ WaitAndPop(w) \/ CheckToken(w) \/ UpdateMap(w) \/ UpdateFinished(w)
  \/ \E i \in Instance : ScheduleInstance(w, i) \/ DestroyInstance(w, i) \/ KeepInstance(w, i)

Next == World \/ \E w \in Worker : Work(w)

Safety == Init /\ [][Next]_vars

(***************************************************************************)
(* A thread that can go on does.  Nothing obliges the world thread to      *)
(* begin a tick, to create a map or to shut down, and no spurious wakeup   *)
(* is relied upon.                                                         *)
(***************************************************************************)
WorldProgress ==
  \/ \E m \in BaseMap : ScheduleBase(m)
  \/ EndSchedule \/ Wait \/ DelayedUpdate \/ RaiseToken \/ CancelQueue \/ Join

WorkerProgress(w) ==
  \/ Fetch(w) \/ CheckToken(w) \/ UpdateMap(w) \/ UpdateFinished(w)
  \/ Requests!WaitAndPop(w) /\ UNCHANGED <<worldVars, workVars, pending>>
  \/ \E i \in Instance : ScheduleInstance(w, i) \/ DestroyInstance(w, i) \/ KeepInstance(w, i)

Spec == Safety /\ WF_vars(WorldProgress) /\ \A w \in Worker : WF_vars(WorkerProgress(w))

-----------------------------------------------------------------------------
(* Workers that hold a request. *)
Busy == {w \in Worker : got[w] # NoMap}

(***************************************************************************)
(* pending_requests counts exactly the requests that are queued or being   *)
(* run, the nested ones included: wait() is only as good as this count.    *)
(***************************************************************************)
PendingExact == pending = Len(queue) + Cardinality(Busy)

(***************************************************************************)
(* When the world thread is past wait(), in DelayedUpdate, between ticks   *)
(* or deleting maps, no map is queued and no worker is inside one: all of  *)
(* World::Update outside the map update may touch maps without a lock.     *)
(***************************************************************************)
WorldAlone == world \in Quiet => queue = <<>> /\ Busy = {}

(* A worker that calls a request has one: the queue hands out null only after *)
(* Cancel, and by then the token is up.                                       *)
NoNullRequest == \A w \in Worker : phase[w] \in {"update", "children"} => got[w] # NoMap

(* A request in flight is for a map that exists, no map has two requests in   *)
(* flight, so that two workers are never inside one map, and a worker never   *)
(* calls through the null request that a cancelled queue hands out.           *)
InFlight == Requests!Queued \cup {got[w] : w \in Busy}

RequestsAreValid ==
  /\ InFlight \subseteq bases \cup live
  /\ Cardinality(InFlight) = Len(queue) + Cardinality(Busy)
  /\ NoNullRequest

(* The barrier: when DelayedUpdate runs, every base map and every instance *)
(* that still exists has had its turn in this tick.                        *)
EveryMapHadItsTurn == world = "delayed" => bases \cup live \subseteq attended

(* The request queue is used as it expects: no request is queued while the *)
(* same map is queued or being updated.                                    *)
QueueIsUsedWell == Requests!Safety

(* The server never hangs in the map update: every tick ends, and so does *)
(* the shutdown, with all workers joined.                                 *)
WorldIsNeverStuck ==
  /\ world = "schedule" ~> world = "delayed"
  /\ world = "stopping" ~> world = "stopped"
=============================================================================
