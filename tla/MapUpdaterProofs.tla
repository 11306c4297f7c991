-------------------------- MODULE MapUpdaterProofs --------------------------
(***************************************************************************)
(* For any number of workers, maps and instances: pending_requests counts  *)
(* the requests in flight, so the world thread is alone once it is past    *)
(* wait(), and a worker never calls a null request.                        *)
(*                                                                         *)
(* The count alone is not inductive.  A worker may queue instances at any  *)
(* time, so one must know that it holds a request itself while it does     *)
(* (HandsInv), hence that the count is not zero; and the null a worker     *)
(* gets from a cancelled queue is harmless only because the token is       *)
(* raised before the queue is cancelled (StopInv).                         *)
(*                                                                         *)
(* On top of that, FlightInv says where a request may be and what is yet   *)
(* to be scheduled: no map has two requests, so the queue is used as its   *)
(* own module expects (UpdaterUsesQueue), and what is proved there is      *)
(* taken from there.  TurnInv follows the turn of each map through a tick  *)
(* up to the barrier (NoMapIsSkipped).                                     *)
(***************************************************************************)
EXTENDS MapUpdater, FiniteSetTheorems, SequenceTheorems, TLAPS

(* What is proved of the request queue holds of any queue used as it expects. *)
Queue == INSTANCE ProducerConsumerQueueProofs WITH
  Consumer <- Worker, Value <- Map, NoValue <- NoMap

(* What a worker holds, by where it stands. *)
HandsInv ==
  \A w \in Worker :
    /\ phase[w] \in {"update", "children"} => got[w] # NoMap /\ pc[w] = "out"
    /\ phase[w] = "idle" => got[w] = NoMap
    /\ pc[w] # "out" => got[w] = NoMap /\ phase[w] = "fetch"
    /\ phase[w] = "fetch" /\ pc[w] = "out" /\ got[w] = NoMap => shutdown

(* The order of deactivate(): the token, then the cancelled queue. *)
StopInv ==
  /\ shutdown => token /\ world \in {"join", "stopped"}
  /\ world \in {"drain", "drainAsleep", "cancel", "join", "stopped"} => token

QuietInv == world \in Quiet => pending = 0

IInv == TypeOK /\ PendingExact /\ QuietInv /\ HandsInv /\ StopInv

-----------------------------------------------------------------------------
(* Counting the workers that hold a request. *)
LEMMA BusyCount ==
  /\ IsFiniteSet(Busy) /\ Cardinality(Busy) \in Nat
  /\ \A w \in Worker : \A S :
       S = Busy \cup {w} /\ w \notin Busy => Cardinality(S) = Cardinality(Busy) + 1
  /\ \A w \in Worker : \A S :
       S = Busy \ {w} /\ w \in Busy => Cardinality(S) = Cardinality(Busy) - 1
  /\ \A w \in Busy : Cardinality(Busy) > 0
<1>1. IsFiniteSet(Busy)
  BY WorkerAssumption, FS_Subset DEF Busy
<1>2. Cardinality(Busy) \in Nat
  BY <1>1, FS_CardinalityType
<1>3. ASSUME NEW w \in Busy PROVE Cardinality(Busy) > 0
  BY <1>1, <1>2, FS_EmptySet
<1>4. ASSUME NEW w \in Worker, NEW S, S = Busy \cup {w}, w \notin Busy
      PROVE  Cardinality(S) = Cardinality(Busy) + 1
  BY <1>1, <1>4, FS_AddElement
<1>5. ASSUME NEW w \in Worker, NEW S, S = Busy \ {w}, w \in Busy
      PROVE  Cardinality(S) = Cardinality(Busy) - 1
  BY <1>1, <1>5, FS_RemoveElement
<1>6. QED
  BY <1>1, <1>2, <1>3, <1>4, <1>5

(* The initial state. *)
LEMMA InitInv == Init => IInv
<1> SUFFICES ASSUME Init PROVE IInv
  OBVIOUS
<1> USE DEF Init, Requests!Init
<1>1. TypeOK
  BY EmptySeq DEF TypeOK, Requests!TypeOK
<1>2. PendingExact
  <2>1. Busy = {}
    BY DEF Busy
  <2>2. QED  BY <2>1, FS_EmptySet, EmptySeq DEF PendingExact
<1>3. QuietInv /\ HandsInv /\ StopInv
  BY DEF QuietInv, HandsInv, StopInv
<1>4. QED
  BY <1>1, <1>2, <1>3 DEF IInv

(* schedule_update: one request more in the queue, one more counted, and at  *)
(* most one sleeping worker sent back to the test of its loop.               *)
LEMMA ScheduleUpdateEffect ==
  ASSUME IInv, NEW m \in Map, ScheduleUpdate(m)
  PROVE  /\ pending' = pending + 1 /\ pending' \in Nat
         /\ Requests!TypeOK'
         /\ Len(queue') = Len(queue) + 1
         /\ got' = got /\ shutdown' = shutdown /\ Busy' = Busy
         /\ \A w \in Worker : pc'[w] = pc[w] \/ (pc[w] = "asleep" /\ pc'[w] = "testing")
         /\ PendingExact'
<1>1. /\ got' = got /\ shutdown' = shutdown
      /\ queue' = Append(queue, m) /\ pending' = pending + 1
      /\ Requests!NotifyOne
  BY DEF ScheduleUpdate, Requests!Push
<1>2. /\ \A w \in Worker : pc'[w] = pc[w] \/ (pc[w] = "asleep" /\ pc'[w] = "testing")
      /\ pc' \in [Worker -> {"out", "testing", "asleep"}]
  BY <1>1 DEF Requests!NotifyOne, Requests!Waiting, IInv, TypeOK, Requests!TypeOK
<1>3. queue' \in Seq(Map) /\ Len(queue') = Len(queue) + 1
  BY <1>1, AppendProperties DEF IInv, TypeOK, Requests!TypeOK
<1>4. Busy' = Busy
  BY <1>1 DEF Busy
<1>5. Len(queue) \in Nat /\ pending \in Nat
  BY LenProperties DEF IInv, TypeOK, Requests!TypeOK
<1>6. PendingExact'
  BY <1>1, <1>3, <1>4, <1>5, BusyCount DEF PendingExact, IInv
<1>7. QED
  BY <1>1, <1>2, <1>3, <1>4, <1>5, <1>6 DEF Requests!TypeOK, IInv, TypeOK

(***************************************************************************)
(* A step of the world thread.  It can queue a request only while it is in *)
(* its scheduling loop, which is not a quiet place.                        *)
(***************************************************************************)
LEMMA WorldStep == IInv /\ World => IInv'
<1> SUFFICES ASSUME IInv, World PROVE IInv'
  OBVIOUS
<1> USE DEF IInv
<1>1. ASSUME NEW m \in BaseMap, ScheduleBase(m) PROVE IInv'
  <2>1. /\ world = "schedule" /\ world' = world /\ token' = token
        /\ ScheduleUpdate(m) /\ m \in Map
        /\ todo' = todo \ {m}
        /\ UNCHANGED <<bases, live, phase, kids, attended>>
    BY <1>1 DEF ScheduleBase, Map, workVars
  <2>2. TypeOK'
    BY <2>1, ScheduleUpdateEffect DEF TypeOK
  <2>3. PendingExact'
    BY <2>1, ScheduleUpdateEffect
  <2>4. QuietInv'
    BY <2>1 DEF QuietInv, Quiet
  <2>5. HandsInv'
    BY <2>1, ScheduleUpdateEffect DEF HandsInv
  <2>6. StopInv'
    BY <2>1, ScheduleUpdateEffect DEF StopInv
  <2>7. QED  BY <2>2, <2>3, <2>4, <2>5, <2>6
<1>2. CASE CancelQueue
  <2>1. /\ world = "cancel" /\ world' = "join" /\ token = TRUE /\ token' = token
        /\ pending = 0 /\ pending' = pending
        /\ queue' = <<>> /\ shutdown' = TRUE /\ got' = got
        /\ \A w \in Worker : pc'[w] = IF pc[w] = "asleep" THEN "testing" ELSE pc[w]
        /\ UNCHANGED <<todo, bases, live, phase, kids, attended>>
    BY <1>2 DEF CancelQueue, Requests!Cancel, Requests!NotifyAll, StopInv, QuietInv, Quiet,
                workVars, TypeOK
  <2>2. TypeOK'
    <3>1. pc' \in [Worker -> {"out", "testing", "asleep"}]
      BY <1>2 DEF CancelQueue, Requests!Cancel, Requests!NotifyAll, TypeOK, Requests!TypeOK
    <3>2. QED  BY <2>1, <3>1, EmptySeq DEF TypeOK, Requests!TypeOK
  <2>3. PendingExact'
    <3>1. Busy' = Busy
      BY <2>1 DEF Busy
    <3>2. Len(queue) \in Nat /\ Len(queue') = 0
      BY <2>1, LenProperties, EmptySeq DEF TypeOK, Requests!TypeOK
    <3>3. QED  BY <2>1, <3>1, <3>2, BusyCount DEF PendingExact
  <2>4. QuietInv' /\ StopInv'
    BY <2>1 DEF QuietInv, StopInv
  <2>5. HandsInv'
    BY <2>1 DEF HandsInv, TypeOK, Requests!TypeOK
  <2>6. QED  BY <2>2, <2>3, <2>4, <2>5
<1>3. CASE \/ \E m \in BaseMap : CreateBaseMap(m)
           \/ \E i \in Instance : CreateInstance(i)
           \/ BeginTick \/ EndSchedule \/ Wait \/ WorldSpuriousWakeup \/ DelayedUpdate
           \/ UnloadAll \/ RaiseToken \/ Join
  <2> USE DEF CreateBaseMap, CreateInstance, BeginTick, EndSchedule, Wait, WorldSpuriousWakeup,
              Woken, Asleep, DelayedUpdate, UnloadAll, RaiseToken, Join,
              queueVars, worldVars, workVars
  <2>1. UNCHANGED <<queue, shutdown, pc, got, phase, kids, pending>>
    BY <1>3
  <2>2. TypeOK'
    BY <1>3, <2>1 DEF TypeOK, Requests!TypeOK
  <2>3. PendingExact'
    BY <2>1 DEF PendingExact, Busy
  <2>4. QuietInv'
    BY <1>3, <2>1 DEF QuietInv, Quiet
  <2>5. HandsInv'
    BY <2>1 DEF HandsInv
  <2>6. StopInv'
    BY <1>3, <2>1 DEF StopInv
  <2>7. QED  BY <2>2, <2>3, <2>4, <2>5, <2>6
<1>4. QED
  BY <1>1, <1>2, <1>3 DEF World

(***************************************************************************)
(* A step of a worker.                                                     *)
(***************************************************************************)
LEMMA WorkerStep == ASSUME IInv, NEW w \in Worker, Work(w) PROVE IInv'
<1> USE DEF IInv
<1>1. ASSUME NEW i \in Instance, ScheduleInstance(w, i) PROVE IInv'
  <2>1. /\ phase[w] = "children" /\ ScheduleUpdate(i) /\ i \in Map
        /\ kids' = [kids EXCEPT ![w] = @ \ {i}]
        /\ UNCHANGED <<world, token, todo, bases, live, phase, attended>>
    BY <1>1 DEF ScheduleInstance, Map, worldVars
  <2>2. TypeOK'
    BY <2>1, ScheduleUpdateEffect DEF TypeOK
  <2>3. PendingExact'
    BY <2>1, ScheduleUpdateEffect
  <2>4. world \notin Quiet
    <3>1. w \in Busy
      BY <2>1 DEF HandsInv, Busy
    <3>2. pending > 0
      BY <3>1, BusyCount, LenProperties DEF PendingExact, TypeOK, Requests!TypeOK
    <3>3. QED  BY <3>2 DEF QuietInv
  <2>5. QuietInv'
    BY <2>1, <2>4 DEF QuietInv, Quiet
  <2>6. HandsInv'
    BY <2>1, ScheduleUpdateEffect DEF HandsInv
  <2>7. StopInv'
    BY <2>1, ScheduleUpdateEffect DEF StopInv
  <2>8. QED  BY <2>2, <2>3, <2>5, <2>6, <2>7
<1>2. CASE Requests!Take(w) /\ UNCHANGED <<worldVars, workVars, pending>>
  <2>1. /\ pc[w] = "testing" /\ got[w] = NoMap /\ phase[w] = "fetch"
        /\ queue # <<>> /\ queue' = Tail(queue) /\ shutdown' = shutdown
        /\ got' = [got EXCEPT ![w] = Head(queue)]
        /\ pc' = [pc EXCEPT ![w] = "out"]
        /\ UNCHANGED <<world, todo, bases, token, live, phase, kids, attended, pending>>
    BY <1>2 DEF Requests!Take, HandsInv, worldVars, workVars
  <2>2. /\ Head(queue) \in Map /\ Tail(queue) \in Seq(Map)
        /\ Len(queue') = Len(queue) - 1 /\ Len(queue) \in Nat /\ Head(queue) # NoMap
    BY <2>1, HeadTailProperties, LenProperties, MapAssumption DEF TypeOK, Requests!TypeOK
  <2>3. TypeOK'
    BY <2>1, <2>2 DEF TypeOK, Requests!TypeOK
  <2>4. PendingExact'
    <3>1. Busy' = Busy \cup {w} /\ w \notin Busy
      BY <2>1, <2>2 DEF Busy, TypeOK, Requests!TypeOK
    <3>2. Cardinality(Busy') = Cardinality(Busy) + 1
      BY <3>1, BusyCount
    <3>3. QED  BY <2>1, <2>2, <3>2, BusyCount DEF PendingExact
  <2>5. QuietInv' /\ StopInv'
    BY <2>1 DEF QuietInv, StopInv
  <2>6. HandsInv'
    BY <2>1, <2>2 DEF HandsInv, TypeOK, Requests!TypeOK
  <2>7. QED  BY <2>3, <2>4, <2>5, <2>6
<1>3. CASE UpdateFinished(w)
  <2>1. /\ phase[w] = "children" /\ pending' = pending - 1 /\ world' = Woken
        /\ phase' = [phase EXCEPT ![w] = "idle"]
        /\ pc[w] = "out" /\ got[w] # NoMap /\ got' = [got EXCEPT ![w] = NoMap]
        /\ UNCHANGED <<queue, shutdown, pc, todo, bases, token, live, kids, attended>>
    BY <1>3 DEF UpdateFinished, Requests!Release
  <2>2. Busy' = Busy \ {w} /\ w \in Busy
    BY <2>1 DEF Busy, TypeOK, Requests!TypeOK
  <2>3. /\ Cardinality(Busy') = Cardinality(Busy) - 1 /\ pending > 0 /\ pending \in Nat
        /\ Len(queue) \in Nat /\ Cardinality(Busy) \in Nat
    BY <2>2, BusyCount, LenProperties DEF PendingExact, TypeOK, Requests!TypeOK
  <2>4. TypeOK'
    BY <2>1, <2>3 DEF TypeOK, Requests!TypeOK, Woken
  <2>5. PendingExact'
    BY <2>1, <2>3 DEF PendingExact
  <2>6. QuietInv'
    BY <2>1, <2>3 DEF QuietInv, Quiet, Woken, TypeOK
  <2>7. HandsInv'
    BY <2>1 DEF HandsInv, TypeOK, Requests!TypeOK
  <2>8. StopInv'
    BY <2>1 DEF StopInv, Woken, TypeOK
  <2>9. QED  BY <2>4, <2>5, <2>6, <2>7, <2>8
<1>4. CASE \/ Fetch(w) \/ CheckToken(w) \/ UpdateMap(w)
           \/ \E i \in Instance : DestroyInstance(w, i) \/ KeepInstance(w, i)
           \/ /\ Requests!Sleep(w) \/ Requests!GiveUp(w) \/ Requests!SpuriousWakeup(w)
              /\ UNCHANGED <<worldVars, workVars, pending>>
  <2> USE DEF Fetch, CheckToken, UpdateMap, DestroyInstance, KeepInstance,
              Requests!Call, Requests!Sleep, Requests!GiveUp, Requests!SpuriousWakeup,
              queueVars, worldVars, workVars
  <2>1. UNCHANGED <<queue, shutdown, got, world, todo, bases, token, pending>>
    BY <1>4
  <2>2. TypeOK'
    <3>1. Requests!TypeOK'
      BY <1>4, <2>1 DEF TypeOK, Requests!TypeOK
    <3>2. phase' \in [Worker -> {"idle", "fetch", "update", "children", "exited"}]
      BY <1>4 DEF TypeOK
    <3>3. live' \subseteq Instance /\ kids' \in [Worker -> SUBSET Instance]
      BY <1>4 DEF TypeOK
    <3>4. attended' \subseteq Map
      <4>1. CASE UpdateMap(w)
        <5>1. got[w] \in Map
          BY <4>1 DEF HandsInv, TypeOK, Requests!TypeOK
        <5>2. QED  BY <4>1, <5>1 DEF TypeOK
      <4>2. CASE ~UpdateMap(w)
        BY <1>4, <4>2 DEF TypeOK, Map
      <4>3. QED  BY <4>1, <4>2
    <3>5. QED  BY <2>1, <3>1, <3>2, <3>3, <3>4 DEF TypeOK
  <2>3. PendingExact'
    BY <2>1 DEF PendingExact, Busy
  <2>4. QuietInv' /\ StopInv'
    BY <2>1 DEF QuietInv, StopInv
  <2>5. HandsInv'
    BY <1>4, <2>1 DEF HandsInv, StopInv, TypeOK, Requests!TypeOK
  <2>6. QED  BY <2>2, <2>3, <2>4, <2>5
<1>5. QED
  BY <1>1, <1>2, <1>3, <1>4 DEF Work, WaitAndPop, Requests!WaitAndPop

-----------------------------------------------------------------------------
(* A step in which nothing changes keeps the invariant. *)
LEMMA StutterStep == IInv /\ UNCHANGED vars => IInv'
<1> SUFFICES ASSUME IInv, UNCHANGED vars PROVE IInv'
  OBVIOUS
<1> USE DEF vars, queueVars, worldVars, workVars
<1>1. TypeOK' /\ PendingExact'
  BY DEF IInv, TypeOK, Requests!TypeOK, PendingExact, Busy
<1>2. QuietInv' /\ HandsInv' /\ StopInv'
  BY DEF IInv, QuietInv, HandsInv, StopInv
<1>3. QED
  BY <1>1, <1>2 DEF IInv

(* The inductive invariant, for every number of workers and maps. *)
THEOREM Invariance == Safety => []IInv
<1>1. IInv /\ [Next]_vars => IInv'
  BY WorldStep, WorkerStep, StutterStep DEF Next
<1>2. QED
  BY InitInv, <1>1, PTL DEF Safety

(* All variables keep their types; in particular pending_requests is never *)
(* decremented below zero.                                                 *)
THEOREM TypeCorrect == Safety => []TypeOK
<1>1. IInv => TypeOK
  BY DEF IInv
<1>2. QED
  BY <1>1, Invariance, PTL

(* The count wait() sleeps on is the number of requests that are queued or *)
(* being run, however deep they were nested.                               *)
THEOREM CountIsExact == Safety => []PendingExact
<1>1. IInv => PendingExact
  BY DEF IInv
<1>2. QED
  BY <1>1, Invariance, PTL

(* Where the world thread is alone, nothing is in flight. *)
LEMMA Alone ==
  ASSUME IInv, world \in Quiet
  PROVE  /\ queue = <<>> /\ Busy = {} /\ Requests!Queued = {} /\ InFlight = {}
         /\ \A w \in Worker : got[w] = NoMap /\ phase[w] \notin {"update", "children"}
<1>1. Len(queue) \in Nat /\ Cardinality(Busy) \in Nat /\ pending = 0
  BY BusyCount, LenProperties DEF IInv, QuietInv, TypeOK, Requests!TypeOK
<1>2. Len(queue) = 0 /\ Cardinality(Busy) = 0
  BY <1>1 DEF IInv, PendingExact
<1>3. queue = <<>>
  BY <1>2, EmptySeq DEF IInv, TypeOK, Requests!TypeOK
<1>4. Busy = {}
  BY <1>2, BusyCount, FS_EmptySet
<1>5. Requests!Queued = {}
  BY <1>2 DEF Requests!Queued
<1>6. InFlight = {}
  BY <1>4, <1>5 DEF InFlight
<1>7. \A w \in Worker : got[w] = NoMap /\ phase[w] \notin {"update", "children"}
  BY <1>4 DEF Busy, IInv, HandsInv
<1>8. QED
  BY <1>3, <1>4, <1>5, <1>6, <1>7
(* Past wait() the world thread shares no map with a worker: mutual        *)
(* exclusion between the map update and the rest of the world's tick.      *)
THEOREM WorldIsAlone == Safety => []WorldAlone
<1>1. IInv => WorldAlone
  BY Alone DEF WorldAlone
<1>2. QED
  BY <1>1, Invariance, PTL

(* No worker calls through a null request, not even while the updater is   *)
(* being deactivated.                                                      *)
THEOREM RequestsAreNeverNull == Safety => []NoNullRequest
<1>1. IInv => NoNullRequest
  BY DEF IInv, HandsInv, NoNullRequest
<1>2. QED
  BY <1>1, Invariance, PTL
-----------------------------------------------------------------------------
(***************************************************************************)
(* Which maps are in flight.  A map is Ahead while its turn in this tick   *)
(* is to come: not yet queued, queued, or taken by a worker that has not   *)
(* called its request.                                                     *)
(***************************************************************************)
Ahead(m) ==
  \/ m \in todo \/ m \in Requests!Queued
  \/ \E w \in Worker : got[w] = m /\ phase[w] \in {"fetch", "update"}

(* What is yet to be scheduled is not in flight, neither the base maps of *)
(* the world's loop nor the instances of a worker's; and an instance is   *)
(* not in flight before its parent has had its turn.                      *)
FlightInv ==
  /\ Queue!OnePlace
  /\ InFlight \subseteq bases \cup live
  /\ todo \subseteq bases /\ todo \cap InFlight = {}
  /\ world # "schedule" => todo = {}
  /\ \A w \in Worker : \A i \in kids[w] :
       phase[w] = "children" /\ Parent[i] = got[w] /\ i \in live /\ i \notin InFlight
  /\ \A i \in Instance : i \in InFlight => ~Ahead(Parent[i])

(* While a tick is on, a map that had no turn has one to come. *)
Ticking == {"schedule", "wait", "asleep", "delayed"}

TurnInv ==
  /\ \A i \in live : Parent[i] \in bases
  /\ token => world \notin Ticking \cup {"idle", "stopping"}
  /\ world \in Ticking =>
       /\ \A m \in bases : m \in attended \/ Ahead(m)
       /\ \A i \in live : \/ i \in attended \/ Ahead(i) \/ Ahead(Parent[i])
                          \/ \E w \in Worker : i \in kids[w]

-----------------------------------------------------------------------------
(* The two instances of the queue's module have the same state. *)
LEMMA SameTypes == Requests!TypeOK <=> Queue!TypeOK
BY DEF Requests!TypeOK, Queue!TypeOK

LEMMA SameSteps == [Requests!Next]_queueVars => [Queue!Next]_(Queue!queueVars)
BY DEF queueVars, Queue!queueVars, Requests!Next, Queue!Next, Requests!Produce, Queue!Produce,
       Requests!Queued, Queue!Queued, Requests!Push, Queue!Push, Requests!NotifyOne, Queue!NotifyOne,
       Requests!Waiting, Queue!Waiting, Requests!Cancel, Queue!Cancel, Requests!NotifyAll,
       Queue!NotifyAll, Requests!Pop, Queue!Pop, Requests!Call, Queue!Call, Requests!WaitAndPop,
       Queue!WaitAndPop, Requests!Sleep, Queue!Sleep, Requests!Take, Queue!Take, Requests!GiveUp,
       Queue!GiveUp, Requests!SpuriousWakeup, Queue!SpuriousWakeup, Requests!Release, Queue!Release

(* So a step that uses the queue as it expects keeps each request in one place. *)
LEMMA StepOnePlace ==
  IInv /\ Queue!OnePlace /\ [Requests!Next]_queueVars => Queue!OnePlace'
<1>1. Queue!IsFiniteSet(Worker)
  BY WorkerAssumption DEF Queue!IsFiniteSet, IsFiniteSet
<1>2. NoMap \notin Map
  BY MapAssumption
<1>3. Queue!TypeOK /\ Queue!OnePlace /\ [Queue!Next]_(Queue!queueVars) => Queue!OnePlace'
  BY <1>1, <1>2, Queue!StepOnePlace
<1>4. QED
  BY <1>3, SameTypes, SameSteps DEF IInv, TypeOK
(* Being in flight, place by place. *)
LEMMA Flying ==
  \A m \in Map : m \in InFlight <=> m \in Requests!Queued \/ \E w \in Worker : got[w] = m
BY MapAssumption DEF InFlight, Busy

(* A request that is put at the end of the queue. *)
LEMMA Queueing ==
  ASSUME IInv, NEW m \in Map, ScheduleUpdate(m)
  PROVE  /\ got' = got /\ Requests!Queued' = Requests!Queued \cup {m}
         /\ InFlight' = InFlight \cup {m}
<1>1. got' = got /\ queue' = Append(queue, m) /\ queue \in Seq(Map)
  BY DEF ScheduleUpdate, Requests!Push, IInv, TypeOK, Requests!TypeOK
<1>2. /\ Len(queue') = Len(queue) + 1 /\ Len(queue) \in Nat /\ queue'[Len(queue) + 1] = m
      /\ \A i \in 1 .. Len(queue) : queue'[i] = queue[i]
  BY <1>1, AppendProperties
<1>3. Requests!Queued' = Requests!Queued \cup {m}
  BY <1>2 DEF Requests!Queued
<1>4. Busy' = Busy
  BY <1>1 DEF Busy
<1>5. QED
  BY <1>1, <1>3, <1>4 DEF InFlight

(* It is used as the queue expects when the map is not in flight. *)
LEMMA QueuedOnce ==
  ASSUME IInv, NEW m \in Map, ScheduleUpdate(m), m \notin InFlight
  PROVE  Requests!Next
BY Flying DEF ScheduleUpdate, Requests!Next, Requests!Produce

(* A request that a worker takes stays in flight. *)
LEMMA Taking ==
  ASSUME IInv, Queue!OnePlace, NEW w \in Worker, Requests!Take(w)
  PROVE  /\ queue # <<>> /\ got[w] = NoMap /\ pc[w] = "testing" /\ phase[w] = "fetch"
         /\ Head(queue) \in Map /\ Head(queue) \in Requests!Queued
         /\ got'[w] = Head(queue) /\ \A v \in Worker : v # w => got'[v] = got[v]
         /\ Requests!Queued' = Requests!Queued \ {Head(queue)}
         /\ InFlight' = InFlight
<1>1. /\ queue # <<>> /\ got[w] = NoMap /\ pc[w] = "testing" /\ phase[w] = "fetch"
      /\ got' = [got EXCEPT ![w] = Head(queue)] /\ queue' = Tail(queue)
      /\ queue \in Seq(Map) /\ got \in [Worker -> Map \cup {NoMap}]
  BY DEF Requests!Take, IInv, HandsInv, TypeOK, Requests!TypeOK
<1>2. /\ Head(queue) \in Map /\ Head(queue) = queue[1] /\ Len(queue) \in Nat \ {0}
      /\ Len(queue') = Len(queue) - 1 /\ \A i \in 1 .. Len(queue') : queue'[i] = queue[i + 1]
  BY <1>1, HeadTailProperties
<1>3. \A i, j \in 1 .. Len(queue) : queue[i] = queue[j] => i = j
  BY DEF Queue!OnePlace
<1>4. ASSUME NEW m PROVE m \in Requests!Queued' <=> m \in Requests!Queued /\ m # queue[1]
  <2>1. ASSUME NEW i \in 1 .. Len(queue') PROVE i + 1 \in 1 .. Len(queue) /\ queue'[i] = queue[i + 1] /\ queue[i + 1] # queue[1]
    <3>1. i + 1 \in 1 .. Len(queue) /\ 1 \in 1 .. Len(queue) /\ i + 1 # 1
      BY <1>2
    <3>2. QED
      BY <1>2, <1>3, <3>1
  <2>2. ASSUME NEW i \in 1 .. Len(queue), queue[i] # queue[1] PROVE \E j \in 1 .. Len(queue') : queue'[j] = queue[i]
    <3>1. i - 1 \in 1 .. Len(queue') /\ (i - 1) + 1 = i
      BY <1>2, <2>2
    <3>2. QED
      BY <1>2, <3>1
  <2>3. ASSUME m \in Requests!Queued' PROVE m \in Requests!Queued /\ m # queue[1]
    <3>1. PICK i \in 1 .. Len(queue') : m = queue'[i]
      BY <2>3 DEF Requests!Queued
    <3>2. QED
      BY <2>1, <3>1 DEF Requests!Queued
  <2>4. ASSUME m \in Requests!Queued, m # queue[1] PROVE m \in Requests!Queued'
    <3>1. PICK i \in 1 .. Len(queue) : m = queue[i]
      BY <2>4 DEF Requests!Queued
    <3>2. QED
      BY <2>2, <2>4, <3>1 DEF Requests!Queued
  <2>5. QED
    BY <2>3, <2>4
<1>5. Requests!Queued' = Requests!Queued \ {Head(queue)} /\ Head(queue) \in Requests!Queued
  <2>1. 1 \in 1 .. Len(queue)
    BY <1>2
  <2>2. queue[1] \in Requests!Queued
    BY <2>1 DEF Requests!Queued
  <2> HIDE DEF Requests!Queued
  <2>3. QED
    BY <1>2, <1>4, <2>2
<1>6. got'[w] = Head(queue) /\ \A v \in Worker : v # w => got'[v] = got[v]
  BY <1>1
<1>7. Busy' = Busy \cup {w} /\ w \notin Busy
  BY <1>1, <1>2, <1>6, MapAssumption DEF Busy
<1>8. {got'[v] : v \in Busy'} = {got[v] : v \in Busy} \cup {Head(queue)}
  <2>1. \A v \in Busy : got'[v] = got[v] /\ v \in Busy'
    BY <1>6, <1>7 DEF Busy
  <2>2. \A v \in Busy' : v = w \/ (v \in Busy /\ got'[v] = got[v])
    BY <1>7, <2>1
  <2>3. w \in Busy'
    BY <1>7
  <2> HIDE DEF Busy
  <2>4. QED
    BY <1>6, <2>1, <2>2, <2>3
<1>9. QED
  BY <1>1, <1>2, <1>5, <1>6, <1>8 DEF InFlight

(* A request that is done leaves. *)
LEMMA Releasing ==
  ASSUME IInv, Queue!OnePlace, NEW w \in Worker, Requests!Release(w)
  PROVE  /\ got'[w] = NoMap /\ \A v \in Worker : v # w => got'[v] = got[v]
         /\ Requests!Queued' = Requests!Queued
         /\ InFlight' = InFlight \ {got[w]}
<1>1. /\ got[w] # NoMap /\ got' = [got EXCEPT ![w] = NoMap] /\ queue' = queue
      /\ got \in [Worker -> Map \cup {NoMap}]
  BY DEF Requests!Release, IInv, TypeOK, Requests!TypeOK
<1>2. got'[w] = NoMap /\ \A v \in Worker : v # w => got'[v] = got[v]
  BY <1>1
<1>3. Busy' = Busy \ {w} /\ w \in Busy
  BY <1>1, <1>2 DEF Busy
<1>4. Requests!Queued' = Requests!Queued
  BY <1>1 DEF Requests!Queued
<1>5. got[w] \notin Requests!Queued
  BY DEF Queue!OnePlace, Requests!Queued
<1>6. \A v \in Busy : v # w => got[v] # got[w]
  BY <1>1 DEF Queue!OnePlace, Busy
<1>7. {got'[v] : v \in Busy'} = {got[v] : v \in Busy} \ {got[w]}
  BY <1>2, <1>3, <1>6 DEF Busy
<1>8. QED
  BY <1>2, <1>4, <1>5, <1>7 DEF InFlight

-----------------------------------------------------------------------------
JInv == IInv /\ FlightInv /\ TurnInv

(* No step queues a map that is queued or being updated. *)
LEMMA StepUsesQueue == JInv /\ [Next]_vars => [Requests!Next]_queueVars
<1> SUFFICES ASSUME JInv, [Next]_vars PROVE [Requests!Next]_queueVars
  OBVIOUS
<1>0. IInv /\ FlightInv
  BY DEF JInv
<1>1. ASSUME NEW m \in BaseMap, ScheduleBase(m) PROVE Requests!Next
  BY <1>0, <1>1, QueuedOnce DEF ScheduleBase, FlightInv, Map
<1>2. ASSUME NEW w \in Worker, NEW i \in Instance, ScheduleInstance(w, i) PROVE Requests!Next
  BY <1>0, <1>2, QueuedOnce DEF ScheduleInstance, FlightInv, Map
<1>3. CASE CancelQueue
  BY <1>3 DEF CancelQueue, Requests!Next
<1>4. ASSUME NEW w \in Worker, Fetch(w) \/ WaitAndPop(w) \/ UpdateFinished(w) PROVE Requests!Next
  BY <1>4 DEF Fetch, WaitAndPop, UpdateFinished, Requests!Next
<1>5. CASE \/ \E m \in BaseMap : CreateBaseMap(m)
           \/ \E i \in Instance : CreateInstance(i)
           \/ BeginTick \/ EndSchedule \/ Wait \/ WorldSpuriousWakeup \/ DelayedUpdate
           \/ UnloadAll \/ RaiseToken \/ Join
  BY <1>5 DEF CreateBaseMap, CreateInstance, BeginTick, EndSchedule, Wait, WorldSpuriousWakeup,
              DelayedUpdate, UnloadAll, RaiseToken, Join
<1>6. ASSUME NEW w \in Worker,
             \/ CheckToken(w) \/ UpdateMap(w)
             \/ \E i \in Instance : DestroyInstance(w, i) \/ KeepInstance(w, i)
      PROVE  UNCHANGED queueVars
  BY <1>6 DEF CheckToken, UpdateMap, DestroyInstance, KeepInstance
<1>7. CASE UNCHANGED vars
  BY <1>7 DEF vars
<1>8. QED
  BY <1>1, <1>2, <1>3, <1>4, <1>5, <1>6, <1>7 DEF Next, World, Work

(* The world thread's steps outside the tick start from an empty house. *)
LEMMA WorldFlight == JInv /\ World => FlightInv' /\ TurnInv'
<1> SUFFICES ASSUME JInv, World PROVE FlightInv' /\ TurnInv'
  OBVIOUS
<1>0. IInv /\ FlightInv /\ TurnInv /\ TypeOK
  BY DEF JInv, IInv
<1>a. Queue!OnePlace'
  BY <1>0, StepUsesQueue, StepOnePlace DEF Next, FlightInv
<1>1. ASSUME NEW m \in BaseMap, ScheduleBase(m) PROVE FlightInv' /\ TurnInv'
  <2>1. /\ world = "schedule" /\ world' = world /\ m \in todo /\ todo' = todo \ {m}
        /\ ScheduleUpdate(m) /\ m \in Map /\ token' = token
        /\ UNCHANGED <<bases, live, phase, kids, attended>>
    BY <1>1 DEF ScheduleBase, Map, workVars
  <2>2. /\ got' = got /\ Requests!Queued' = Requests!Queued \cup {m}
        /\ InFlight' = InFlight \cup {m}
    BY <1>0, <2>1, Queueing
  <2>3. \A x : Ahead(x)' <=> Ahead(x)
    BY <2>1, <2>2 DEF Ahead
  <2>4. /\ InFlight' \subseteq bases' \cup live' /\ todo' \subseteq bases'
        /\ todo' \cap InFlight' = {} /\ m \notin Instance
    BY <1>0, <2>1, <2>2, MapAssumption DEF FlightInv
  <2>5. \A w \in Worker : \A i \in kids'[w] : i # m
    BY <1>0, <2>1, <2>4 DEF TypeOK
  <2>6. FlightInv'
    BY <1>0, <1>a, <2>1, <2>2, <2>3, <2>4, <2>5 DEF FlightInv
  <2>7. TurnInv'
    BY <1>0, <2>1, <2>3 DEF TurnInv
  <2>8. QED  BY <2>6, <2>7
<1>2. CASE CancelQueue
  <2>1. /\ world = "cancel" /\ world' = "join" /\ queue' = <<>> /\ got' = got
        /\ UNCHANGED <<todo, bases, token, live, phase, kids, attended>>
    BY <1>2 DEF CancelQueue, Requests!Cancel, workVars
  <2>2. Requests!Queued' = {} /\ InFlight' \subseteq InFlight
    BY <2>1, EmptySeq DEF Requests!Queued, InFlight, Busy
  <2>3. \A x : Ahead(x)' => Ahead(x)
    BY <2>1, <2>2 DEF Ahead
  <2>4. FlightInv'
    BY <1>0, <1>a, <2>1, <2>2, <2>3 DEF FlightInv
  <2>5. TurnInv'
    BY <1>0, <2>1 DEF TurnInv, Ticking
  <2>6. QED  BY <2>4, <2>5
<1>3. CASE \/ \E m \in BaseMap : CreateBaseMap(m)
           \/ \E i \in Instance : CreateInstance(i)
           \/ BeginTick \/ UnloadAll
  <2>1. /\ world = "idle" /\ UNCHANGED <<queue, got, token, phase, kids>>
        /\ todo = {} /\ \A w \in Worker : kids[w] = {}
    <3>1. world = "idle" /\ UNCHANGED <<queue, got, token, phase, kids>>
      BY <1>3 DEF CreateBaseMap, CreateInstance, BeginTick, UnloadAll, queueVars, worldVars, workVars
    <3>2. todo = {} /\ \A w \in Worker : kids[w] = {}
      BY <1>0, <3>1, Alone DEF FlightInv, Quiet
    <3>3. QED  BY <3>1, <3>2
  <2>2. Requests!Queued' = {} /\ InFlight' = {} /\ \A w \in Worker : got'[w] = NoMap
    BY <1>0, <2>1, Alone DEF Requests!Queued, InFlight, Busy, Quiet
  <2>3. todo' \subseteq bases' /\ world' \in {"idle", "schedule", "stopping"}
        /\ (world' # "schedule" => todo' = {})
    BY <1>3, <2>1 DEF CreateBaseMap, CreateInstance, BeginTick, UnloadAll, worldVars
  <2>4. FlightInv'
    BY <1>a, <2>1, <2>2, <2>3 DEF FlightInv
  <2>5. \A i \in live' : Parent[i] \in bases'
    BY <1>0, <1>3 DEF CreateBaseMap, CreateInstance, BeginTick, UnloadAll, TurnInv, worldVars,
                      workVars
  <2>6. world' \in Ticking => todo' = bases'
    BY <1>3, <2>1 DEF CreateBaseMap, CreateInstance, BeginTick, UnloadAll, Ticking, worldVars
  <2>7. TurnInv'
    BY <1>0, <2>1, <2>3, <2>5, <2>6 DEF TurnInv, Ahead, Ticking
  <2>8. QED  BY <2>4, <2>7
<1>4. CASE EndSchedule \/ Wait \/ WorldSpuriousWakeup \/ DelayedUpdate \/ RaiseToken \/ Join
  <2>1. /\ UNCHANGED <<queue, got, phase, kids, todo, bases, live, attended>>
        /\ world = "schedule" => todo = {}
        /\ world' # "schedule"
        /\ world' \in Ticking => world \in Ticking
        /\ token' = token \/ world' = "drain"
        /\ world \notin Ticking \cup {"idle", "stopping"} => world' \notin Ticking \cup {"idle", "stopping"}
    BY <1>0, <1>4 DEF EndSchedule, Wait, WorldSpuriousWakeup, DelayedUpdate, RaiseToken, Join,
              Woken, Asleep, Ticking, queueVars, worldVars, workVars
  <2>2. Requests!Queued' = Requests!Queued /\ InFlight' = InFlight
    BY <2>1 DEF Requests!Queued, InFlight, Busy
  <2>3. \A x : Ahead(x)' <=> Ahead(x)
    BY <2>1, <2>2 DEF Ahead
  <2>4. FlightInv'
    BY <1>0, <1>a, <2>1, <2>2, <2>3 DEF FlightInv
  <2>5. token' => world' \notin Ticking \cup {"idle", "stopping"}
    BY <1>0, <2>1 DEF TurnInv, Ticking
  <2>6. TurnInv'
    BY <1>0, <2>1, <2>3, <2>5 DEF TurnInv
  <2>7. QED  BY <2>4, <2>6
<1>5. QED
  BY <1>1, <1>2, <1>3, <1>4 DEF World
(* A worker's steps: the turn of a map passes from the queue into the      *)
(* worker's hand, from there to the instances it finds, and is over.       *)
LEMMA WorkerFlight == ASSUME JInv, NEW w \in Worker, Work(w) PROVE FlightInv' /\ TurnInv'
<1>0. IInv /\ FlightInv /\ TurnInv /\ TypeOK /\ HandsInv
  BY DEF JInv, IInv
<1>a. Queue!OnePlace /\ Queue!OnePlace'
  BY <1>0, StepUsesQueue, StepOnePlace DEF Next, FlightInv
<1>1. ASSUME NEW i \in Instance, ScheduleInstance(w, i) PROVE FlightInv' /\ TurnInv'
  <2>1. /\ phase[w] = "children" /\ i \in kids[w] /\ ScheduleUpdate(i) /\ i \in Map
        /\ kids' = [kids EXCEPT ![w] = @ \ {i}]
        /\ UNCHANGED <<world, token, todo, bases, live, phase, attended>>
    BY <1>1 DEF ScheduleInstance, Map, worldVars
  <2>2. /\ got' = got /\ Requests!Queued' = Requests!Queued \cup {i}
        /\ InFlight' = InFlight \cup {i}
    BY <1>0, <2>1, Queueing
  <2>3. /\ kids'[w] = kids[w] \ {i} /\ \A v \in Worker : v # w => kids'[v] = kids[v]
        /\ Parent[i] = got[w] /\ i \in live /\ i \notin InFlight /\ Parent[i] \in BaseMap
        /\ Parent[i] \in InFlight
    BY <1>0, <2>1, MapAssumption DEF FlightInv, TypeOK, InFlight, Busy, Map
  <2>4. \A x : Ahead(x)' <=> Ahead(x) \/ x = i
    BY <2>1, <2>2 DEF Ahead
  <2>5. ~Ahead(Parent[i])
    <3>1. Parent[i] \notin todo /\ Parent[i] \notin Requests!Queued
      BY <1>0, <1>a, <2>3 DEF FlightInv, Queue!OnePlace, Requests!Queued
    <3>2. \A v \in Worker : got[v] = Parent[i] => v = w
      BY <1>a, <2>1, <2>3, <1>0 DEF Queue!OnePlace, HandsInv
    <3>3. QED  BY <2>1, <3>1, <3>2 DEF Ahead
  <2>6. \A j \in Instance : Parent[j] # i
    BY MapAssumption
  <2>7. \A v \in Worker : \A j \in kids'[v] : j # i /\ j \in kids[v]
    <3>1. \A v \in Worker : v # w => i \notin kids[v]
      BY <1>0, <1>a, <2>1, <2>3 DEF FlightInv, Queue!OnePlace, HandsInv
    <3>2. QED  BY <2>3, <3>1
  <2>8. i \notin todo
    BY <1>0, <2>1, MapAssumption DEF TypeOK
  <2>9. /\ InFlight' \subseteq bases' \cup live' /\ todo' \subseteq bases'
        /\ todo' \cap InFlight' = {}
    BY <1>0, <2>1, <2>2, <2>3, <2>8 DEF FlightInv
  <2>10. \A j \in Instance : j \in InFlight' => ~Ahead(Parent[j])'
    BY <1>0, <2>2, <2>4, <2>5, <2>6 DEF FlightInv
  <2>11. \A v \in Worker : \A j \in kids'[v] :
           phase'[v] = "children" /\ Parent[j] = got'[v] /\ j \in live' /\ j \notin InFlight'
    BY <1>0, <2>1, <2>2, <2>7 DEF FlightInv
  <2>12. FlightInv'
    BY <1>0, <1>a, <2>1, <2>9, <2>10, <2>11 DEF FlightInv
  <2>13. \A j \in live : (\E v \in Worker : j \in kids[v]) => j = i \/ \E v \in Worker : j \in kids'[v]
    BY <2>3
  <2>14. TurnInv'
    BY <1>0, <2>1, <2>4, <2>13 DEF TurnInv
  <2>15. QED  BY <2>12, <2>14
<1>2. CASE Requests!Take(w) /\ UNCHANGED <<worldVars, workVars, pending>>
  <2>1. UNCHANGED <<world, todo, bases, token, live, phase, kids, attended>>
    BY <1>2 DEF worldVars, workVars
  <2> DEFINE h == Head(queue)
  <2>2. /\ got[w] = NoMap /\ phase[w] = "fetch" /\ h \in Map /\ h \in Requests!Queued
        /\ got'[w] = h /\ \A v \in Worker : v # w => got'[v] = got[v]
        /\ Requests!Queued' = Requests!Queued \ {h} /\ InFlight' = InFlight
    BY <1>0, <1>a, <1>2, Taking
  <2> HIDE DEF h
  <2>3. \A x \in Map : Ahead(x)' <=> Ahead(x)
    BY <2>1, <2>2, MapAssumption DEF Ahead
  <2>4. \A v \in Worker : \A j \in kids[v] : v # w
    BY <1>0, <2>2 DEF FlightInv
  <2>5. \A j \in Instance : Parent[j] \in Map
    BY MapAssumption DEF Map
  <2>6. FlightInv'
    BY <1>0, <1>a, <2>1, <2>2, <2>3, <2>4, <2>5 DEF FlightInv
  <2>7. bases \subseteq Map /\ live \subseteq Map /\ live \subseteq Instance
    BY <1>0 DEF TypeOK, Map
  <2>8. TurnInv'
    BY <1>0, <2>1, <2>3, <2>5, <2>7 DEF TurnInv
  <2>9. QED  BY <2>6, <2>8
<1>3. CASE UpdateFinished(w)
  <2>1. /\ phase[w] = "children" /\ kids[w] = {} /\ world' = Woken
        /\ phase' = [phase EXCEPT ![w] = "idle"] /\ Requests!Release(w)
        /\ UNCHANGED <<todo, bases, token, live, kids, attended>>
    BY <1>3 DEF UpdateFinished
  <2>2. /\ got'[w] = NoMap /\ \A v \in Worker : v # w => got'[v] = got[v]
        /\ Requests!Queued' = Requests!Queued /\ InFlight' = InFlight \ {got[w]}
        /\ phase'[w] = "idle" /\ \A v \in Worker : v # w => phase'[v] = phase[v]
    BY <1>0, <1>a, <2>1, Releasing DEF TypeOK
  <2>3. \A x \in Map : Ahead(x)' <=> Ahead(x)
    BY <2>1, <2>2 DEF Ahead
  <2>4. /\ world' # "schedule" => world # "schedule"
        /\ world' \in Ticking <=> world \in Ticking
        /\ world' \in {"idle", "stopping"} => world \in {"idle", "stopping"}
    BY <2>1 DEF Woken, Ticking
  <2>5. \A j \in Instance : Parent[j] \in Map
    BY MapAssumption DEF Map
  <2>6. \A v \in Worker : \A j \in kids[v] : v # w
    BY <2>1
  <2>7. FlightInv'
    BY <1>0, <1>a, <2>1, <2>2, <2>3, <2>4, <2>5, <2>6 DEF FlightInv
  <2>8. bases \subseteq Map /\ live \subseteq Map /\ live \subseteq Instance
    BY <1>0 DEF TypeOK, Map
  <2>9. TurnInv'
    BY <1>0, <2>1, <2>3, <2>4, <2>5, <2>8 DEF TurnInv
  <2>10. QED  BY <2>7, <2>9
<1>4. CASE UpdateMap(w)
  <2>1. /\ phase[w] = "update" /\ attended' = attended \cup {got[w]}
        /\ kids' = [kids EXCEPT ![w] = {i \in live : Parent[i] = got[w]}]
        /\ phase' = [phase EXCEPT ![w] = "children"]
        /\ UNCHANGED <<queue, got, world, todo, bases, token, live>>
    BY <1>4 DEF UpdateMap, queueVars, worldVars
  <2>2. /\ Requests!Queued' = Requests!Queued /\ InFlight' = InFlight
        /\ got[w] # NoMap /\ got[w] \in InFlight /\ Ahead(got[w])
        /\ phase'[w] = "children" /\ \A v \in Worker : v # w => phase'[v] = phase[v]
        /\ kids'[w] = {i \in live : Parent[i] = got[w]}
        /\ \A v \in Worker : v # w => kids'[v] = kids[v]
    BY <1>0, <2>1 DEF Requests!Queued, InFlight, Busy, HandsInv, Ahead, TypeOK
  <2>3. \A x \in Map : Ahead(x) => Ahead(x)' \/ x = got[w]
    BY <2>1, <2>2 DEF Ahead
  <2>4. \A x : Ahead(x)' => Ahead(x)
    BY <2>1, <2>2 DEF Ahead
  <2>5. \A j \in kids'[w] : j \in live /\ Parent[j] = got[w] /\ j \notin InFlight
    BY <1>0, <2>2 DEF FlightInv, TypeOK
  <2>6. FlightInv'
    BY <1>0, <1>a, <2>1, <2>2, <2>4, <2>5 DEF FlightInv
  <2>7. kids[w] = {}
    BY <1>0, <2>1 DEF FlightInv
  <2>8. bases \subseteq Map /\ live \subseteq Map /\ \A j \in live : Parent[j] \in Map
    BY <1>0, MapAssumption DEF TypeOK, Map
  <2>9. TurnInv'
    <3>1. \A m \in bases : m \in attended \/ Ahead(m) => m \in attended' \/ Ahead(m)'
      BY <2>1, <2>3, <2>8
    <3>2. ASSUME NEW i \in live, \/ i \in attended \/ Ahead(i) \/ Ahead(Parent[i])
                                 \/ \E v \in Worker : i \in kids[v]
          PROVE  \/ i \in attended' \/ Ahead(i)' \/ Ahead(Parent[i])'
                 \/ \E v \in Worker : i \in kids'[v]
      <4>1. CASE i \in attended \/ Ahead(i)
        BY <2>1, <2>3, <2>8, <4>1
      <4>2. CASE Ahead(Parent[i])
        BY <2>2, <2>3, <2>8, <4>2
      <4>3. CASE \E v \in Worker : i \in kids[v]
        BY <2>2, <2>7, <4>3
      <4>4. QED  BY <3>2, <4>1, <4>2, <4>3
    <3>3. QED  BY <1>0, <2>1, <3>1, <3>2 DEF TurnInv
  <2>10. QED  BY <2>6, <2>9
<1>5. ASSUME NEW i \in Instance, DestroyInstance(w, i) \/ KeepInstance(w, i)
      PROVE  FlightInv' /\ TurnInv'
  <2>1. /\ i \in kids[w] /\ kids' = [kids EXCEPT ![w] = @ \ {i}]
        /\ UNCHANGED <<queue, got, world, todo, bases, token, phase>>
        /\ \/ live' = live \ {i} /\ attended' = attended
           \/ live' = live /\ attended' = attended \cup {i}
    BY <1>5 DEF DestroyInstance, KeepInstance, queueVars, worldVars
  <2>2. /\ Requests!Queued' = Requests!Queued /\ InFlight' = InFlight
        /\ i \notin InFlight /\ Parent[i] = got[w] /\ i \notin BaseMap /\ got[w] # NoMap
        /\ kids'[w] = kids[w] \ {i} /\ \A v \in Worker : v # w => kids'[v] = kids[v]
    BY <1>0, <2>1, MapAssumption DEF Requests!Queued, InFlight, Busy, FlightInv, HandsInv, TypeOK
  <2>3. \A x : Ahead(x)' <=> Ahead(x)
    BY <2>1, <2>2 DEF Ahead
  <2>4. \A v \in Worker : \A j \in kids'[v] : j # i /\ j \in kids[v]
    <3>1. \A v \in Worker : v # w => i \notin kids[v]
      BY <1>0, <1>a, <2>1, <2>2 DEF FlightInv, Queue!OnePlace
    <3>2. QED  BY <2>2, <3>1
  <2>5. InFlight' \subseteq bases' \cup live'
    BY <1>0, <2>1, <2>2 DEF FlightInv
  <2>6. FlightInv'
    BY <1>0, <1>a, <2>1, <2>2, <2>3, <2>4, <2>5 DEF FlightInv
  <2>7. \A j \in live' : (\E v \in Worker : j \in kids[v])
                           => j \in attended' \/ \E v \in Worker : j \in kids'[v]
    BY <2>1, <2>2
  <2>8. live' \subseteq live /\ attended \subseteq attended'
    BY <2>1
  <2>9. TurnInv'
    BY <1>0, <2>1, <2>3, <2>7, <2>8 DEF TurnInv
  <2>10. QED  BY <2>6, <2>9
<1>6. CASE \/ Fetch(w) \/ CheckToken(w)
           \/ /\ Requests!Sleep(w) \/ Requests!GiveUp(w) \/ Requests!SpuriousWakeup(w)
              /\ UNCHANGED <<worldVars, workVars, pending>>
  <2>1. /\ UNCHANGED <<queue, got, world, todo, bases, token, live, kids, attended>>
        /\ \A v \in Worker : v # w => phase'[v] = phase[v]
        /\ phase[w] # "children"
    BY <1>6, <1>0 DEF Fetch, CheckToken, Requests!Call, Requests!Sleep, Requests!GiveUp,
                Requests!SpuriousWakeup, worldVars, workVars, queueVars, TypeOK, HandsInv
  <2>2. Requests!Queued' = Requests!Queued /\ InFlight' = InFlight
    BY <2>1 DEF Requests!Queued, InFlight, Busy
  <2>3. \/ phase'[w] \in {"fetch", "update"} /\ phase[w] \in {"fetch", "update"}
        \/ phase'[w] = phase[w]
        \/ got[w] = NoMap
        \/ token /\ phase'[w] = "exited"
    BY <1>6, <1>0 DEF Fetch, CheckToken, worldVars, workVars, TypeOK, HandsInv
  <2>4. \A x \in Map : Ahead(x)' => Ahead(x)
    BY <2>1, <2>2, <2>3, MapAssumption DEF Ahead
  <2>5. ~token => \A x \in Map : Ahead(x) => Ahead(x)'
    BY <2>1, <2>2, <2>3, MapAssumption DEF Ahead
  <2>6. \A j \in Instance : Parent[j] \in Map
    BY MapAssumption DEF Map
  <2>7. \A v \in Worker : \A j \in kids[v] : v # w
    BY <1>0, <2>1 DEF FlightInv
  <2>8. FlightInv'
    BY <1>0, <1>a, <2>1, <2>2, <2>4, <2>6, <2>7 DEF FlightInv
  <2>9. bases \subseteq Map /\ live \subseteq Map /\ live \subseteq Instance
    BY <1>0 DEF TypeOK, Map
  <2>10. world \in Ticking => ~token
    BY <1>0 DEF TurnInv
  <2>11. TurnInv'
    BY <1>0, <2>1, <2>5, <2>6, <2>9, <2>10 DEF TurnInv
  <2>12. QED  BY <2>8, <2>11
<1>7. QED
  BY <1>1, <1>2, <1>3, <1>4, <1>5, <1>6 DEF Work, WaitAndPop, Requests!WaitAndPop
-----------------------------------------------------------------------------
(* The initial state, and a step of any kind. *)
LEMMA InitFlight == Init => FlightInv /\ TurnInv
<1> SUFFICES ASSUME Init PROVE FlightInv /\ TurnInv
  OBVIOUS
<1> USE DEF Init, Requests!Init
<1>1. Len(queue) = 0 /\ Requests!Queued = {} /\ InFlight = {}
  BY EmptySeq DEF Requests!Queued, InFlight, Busy
<1>2. FlightInv
  BY <1>1 DEF FlightInv, Queue!OnePlace
<1>3. TurnInv
  BY DEF TurnInv, Ticking
<1>4. QED
  BY <1>2, <1>3

LEMMA StepFlight == JInv /\ [Next]_vars => JInv'
<1> SUFFICES ASSUME JInv, [Next]_vars PROVE JInv'
  OBVIOUS
<1>1. IInv'
  BY WorldStep, WorkerStep, StutterStep DEF JInv, Next
<1>2. CASE UNCHANGED vars
  <2>1. /\ UNCHANGED <<queue, pc, got, world, todo, bases, token, live, phase, kids, attended>>
        /\ FlightInv /\ TurnInv
    BY <1>2 DEF vars, queueVars, worldVars, workVars, JInv
  <2>2. Requests!Queued' = Requests!Queued /\ InFlight' = InFlight
    BY <2>1 DEF Requests!Queued, InFlight, Busy
  <2>3. \A x : Ahead(x)' <=> Ahead(x)
    BY <2>1, <2>2 DEF Ahead
  <2>4. FlightInv'
    BY <2>1, <2>2, <2>3 DEF FlightInv, Queue!OnePlace
  <2>5. TurnInv'
    BY <2>1, <2>3 DEF TurnInv
  <2>6. QED  BY <1>1, <2>4, <2>5 DEF JInv
<1>3. QED
  BY <1>1, <1>2, WorldFlight, WorkerFlight DEF Next, JInv

(* What is in flight, and whose turn is still to come, at every moment of  *)
(* a tick.                                                                 *)
THEOREM FlightInvariance == Safety => []JInv
<1>1. Init => JInv
  BY InitInv, InitFlight DEF JInv
<1>2. QED
  BY <1>1, StepFlight, PTL DEF Safety

(* The request queue is used as ProducerConsumerQueue expects, so what is  *)
(* proved of the queue alone holds of it inside the map update: the tick   *)
(* implements the abstract use of the queue, step by step.                 *)
THEOREM UpdaterUsesQueue == Safety => QueueIsUsedWell
<1>1. Init => Requests!Init
  BY DEF Init
<1>2. QED
  BY <1>1, StepUsesQueue, FlightInvariance, PTL
  DEF Safety, QueueIsUsedWell, Requests!Safety, queueVars, Requests!queueVars

(* Counting a set by a function that enumerates it once. *)
LEMMA Enumerated ==
  ASSUME NEW S, NEW T, NEW f \in [S -> T], IsFiniteSet(S),
         \A x, y \in S : f[x] = f[y] => x = y, \A z \in T : \E x \in S : f[x] = z
  PROVE  IsFiniteSet(T) /\ Cardinality(T) = Cardinality(S)
<1>1. f \in Bijection(S, T)
  BY DEF Bijection, Injection, Surjection, IsInjective
<1>2. QED
  BY <1>1, FS_Bijection DEF ExistsBijection

(* As many maps in flight as requests: no map has two. *)
LEMMA FlightCount ==
  ASSUME TypeOK, Queue!OnePlace
  PROVE  Cardinality(InFlight) = Len(queue) + Cardinality(Busy)
<1> DEFINE Q == Requests!Queued
           H == {got[w] : w \in Busy}
           f == [w \in Busy |-> got[w]]
<1>1. queue \in Seq(Map) /\ Len(queue) \in Nat /\ queue \in [1 .. Len(queue) -> Q]
  BY DEF TypeOK, Requests!TypeOK, Requests!Queued
<1>2. IsFiniteSet(1 .. Len(queue)) /\ Cardinality(1 .. Len(queue)) = Len(queue)
  BY <1>1, FS_Interval
<1>3. /\ \A i, j \in 1 .. Len(queue) : queue[i] = queue[j] => i = j
      /\ \A m \in Q : \E i \in 1 .. Len(queue) : queue[i] = m
  BY DEF Queue!OnePlace, Requests!Queued
<1>4. IsFiniteSet(Q) /\ Cardinality(Q) = Len(queue)
  <2> HIDE DEF Q
  <2>1. QED
    BY <1>1, <1>2, <1>3, Enumerated
<1>5. /\ f \in [Busy -> H] /\ \A v, w \in Busy : f[v] = f[w] => v = w
      /\ \A m \in H : \E w \in Busy : f[w] = m
  BY DEF Queue!OnePlace, Busy
<1>6. IsFiniteSet(H) /\ Cardinality(H) = Cardinality(Busy)
  <2> HIDE DEF H, f
  <2>1. QED
    BY <1>5, BusyCount, Enumerated
<1>7. Q \cap H = {}
  BY DEF Queue!OnePlace, Requests!Queued, Busy
<1>8. InFlight = Q \cup H
  BY DEF InFlight
<1> HIDE DEF Q, H
<1>9. QED
  BY <1>4, <1>6, <1>7, <1>8, BusyCount, FS_Union, FS_EmptySet, <1>1

(* For any number of workers and maps: a request in flight is for a map    *)
(* that exists, two workers are never inside one map, and the map of a     *)
(* request is not destroyed under it.                                      *)
THEOREM RequestsStayValid == Safety => []RequestsAreValid
<1>1. JInv => RequestsAreValid
  BY FlightCount DEF JInv, IInv, FlightInv, RequestsAreValid, NoNullRequest, HandsInv
<1>2. QED
  BY <1>1, FlightInvariance, PTL

(* For any number of workers, base maps and instances: when wait() returns *)
(* in a tick, no map is left out, those that workers found on the way      *)
(* included.                                                               *)
THEOREM NoMapIsSkipped == Safety => []EveryMapHadItsTurn
<1>1. JInv => EveryMapHadItsTurn
  <2> SUFFICES ASSUME JInv, world = "delayed", NEW m \in bases \cup live PROVE m \in attended
    BY DEF EveryMapHadItsTurn
  <2>1. IInv /\ FlightInv /\ TurnInv /\ TypeOK
    BY DEF JInv, IInv
  <2>2. /\ Requests!Queued = {} /\ todo = {}
        /\ \A w \in Worker : got[w] = NoMap /\ phase[w] # "children"
    BY <2>1, Alone DEF FlightInv, Quiet
  <2>3. \A w \in Worker : kids[w] = {}
    BY <2>1, <2>2 DEF FlightInv
  <2>4. \A x \in Map : ~Ahead(x)
    BY <2>2, MapAssumption DEF Ahead
  <2>5. m \in Map /\ (m \in live => Parent[m] \in Map)
    BY <2>1, MapAssumption DEF TypeOK, Map
  <2>6. QED
    BY <2>1, <2>3, <2>4, <2>5 DEF TurnInv, Ticking
<1>2. QED
  BY <1>1, FlightInvariance, PTL
=============================================================================
