# A formal model of BFA-HavenCore's server core

BFA-HavenCore is a World of Warcraft server of the TrinityCore family: a
`worldserver` that runs the game, a `bnetserver` that logs clients in, a MySQL
layer, and several hundred thousand lines of C++ for the game itself. This directory
models the part in which threads meet (the queues, the map update, the database
workers, the sockets and the sessions) and the first protocols of the game that run
on top of it: the packets of a session, the transfer of a player between maps, the
event queue of a unit and the boarding of vehicles.

- [1. The system](#1-the-system) — inventory of the components and of what is hard in each
- [2. The modules](#2-the-modules) — which module models what, state and actions against the code
- [3. The runs](#3-the-runs) — what TLC checks, on which instance, and what it shows
- [4. The proofs](#4-the-proofs) — what TLAPS proves, and along which argument
- [5. Where the code departs from what it says](#5-where-the-code-departs-from-what-it-says)
- [6. What is left out, and why](#6-what-is-left-out-and-why)
- [7. The plan](#7-the-plan)
- [8. Running it](#8-running-it)

Paths below are relative to `src/src/` unless they begin with `src/`.
`PROJECT.json` has, for every definition, the lines it was translated from
(`map`), and for every hazard the line where it bites and the properties that
watch it.

## 1. The system

### Threads of the worldserver

| Thread | Runs | Talks to |
|---|---|---|
| world thread | `World::Update` once per tick: sessions, maps, battlegrounds, timers | map workers (waits for them), network threads (locked and lock-free queues), database workers (callbacks it polls) |
| map workers (`MapUpdate.Threads`, default 1) | `MapUpdater::WorkerThread`: the update of one map at a time, and the packets of its players | the world thread (a counter and a condition variable), each other (static managers, instance ids), sockets |
| network threads (`Network.Threads`, default 1) | an `io_context` each: `NetworkThread::Update` every 10 ms, completions of reads and writes | the world thread (new sessions, instance sockets to link), database workers |
| accepting threads (`ThreadPool`, code default 1, configured 2) | the acceptor, signals, realm list timer, freeze detector | network threads (`AddSocket`) |
| database workers (1 per pool) | `DatabaseWorker::WorkerThread` | every other thread, through one queue per pool |

### Components

For each: what it keeps, what it does, what is hard about it, and what makes it
correct. "Modelled" names the module; the others are in section 6 or 7.

**ProducerConsumerQueue** (`common/Threading/ProducerConsumerQueue.h`). Keeps a
queue, a shutdown flag, a mutex and a condition variable. `Push`, `Pop`,
`WaitAndPop`, `Cancel`. Hard: sleepers, newcomers that take what a woken sleeper
was woken for, one `notify_one` per push, a cancel between the test and the
sleep. Correct when no wakeup is lost, every value goes to one consumer in
order, and nobody is left asleep by `Cancel`. *Modelled: `ProducerConsumerQueue`.*

**Map update** (`server/game/Maps/MapUpdater.cpp`, `MapManager.cpp`,
`MapInstanced.cpp`). Keeps `pending_requests`, the request queue, a cancellation
token, the base maps and the instances of each instanceable map. The world
thread queues a request per base map and waits; the update of an instanceable
map runs on a worker and queues its instances from there, while the world thread
is already waiting; shutdown cancels the queue and joins. Hard: nested requests
against the count that `wait()` sleeps on; an empty request handed out by a
cancelled queue. Correct when the world thread never runs beside a worker, no
map is updated twice at once or missed, and neither a tick nor the shutdown
hangs. *Modelled: `MapUpdater` on top of `ProducerConsumerQueue`.*

**Instance ids** (`MapManager.cpp:333-388`, `InstanceSaveMgr.cpp`,
`MapInstanced.cpp`, `BattlegroundMgr.cpp`). Keeps a bitset of free ids and the
lowest free one. Dungeons hold an id until their save is reset, battlegrounds
until their map is destroyed — on a map worker, with no lock. Hard: ids loaded
at startup with gaps, a bitset that grows at its end, frees that race with each
other. Correct when no id has two owners, none is lost, and the next id is the
lowest. *Modelled: `InstanceIds`.*

**Instance saves and resets** (`Instances/InstanceSaveMgr.cpp`). Keeps the saves
of the instances somebody online is bound to, the reset times of the raid and
heroic maps, and a queue of reset and warning events; in the database the tables
`instance`, `character_instance` and `instance_reset`. Saves are made when a
dungeon is entered, loaded at a login, unloaded at a logout; events chain from
warning to warning to reset, and a reset promotes extended lockouts. Hard: memory
and tables are changed apart, the tables later and not at all if the process ends;
events are cancelled by a time that may have changed; downtime over a reset.
Correct when each raid map has one chain of events that ends at its reset time, a
dungeon is scheduled exactly while nobody is inside, a restart changes no lockout
and none outlives its last reset. *Modelled: `InstanceResets`.*

**Database layer** (`server/database/Database`). Keeps one queue per pool, a
connection with a MySQL session per worker, connections for synchronous calls.
Asynchronous and direct operations and transactions, retries of deadlock
victims under a global lock, reconnects in the middle of anything, `Close`. Hard:
failing, retried, interrupted transactions; the close of the pool against what
is queued. Correct when a transaction is all or nothing, its promise tells the
truth, calls are executed in order, everything ends. *Modelled:
`DatabaseWorkerPool`.*

**MPSCQueue** (`common/Threading/MPSCQueue.h`). A lock-free list between the
threads that send packets to a socket and the network thread that writes them.
Hard: a producer between its exchange and its link hides everything behind it,
from a consumer that deletes nodes. Correct when it is a FIFO queue, uses no
deleted node and leaks none. *Modelled: `MPSCQueue`, refining `FifoQueue`.*

**Sessions and the login queue** (`server/game/World/World.cpp`,
`server/game/Server/WorldSession.cpp`). Keeps `m_sessions` by account, the queue
of sessions in front of a full server, the recent disconnects; a session keeps
its queue flag, its expiry, the state of its initialization and its player.
Sessions are added, refused, replaced by a second login, kicked, popped,
dropped; the limit may change. Hard: raw pointers in two containers, a count of
active sessions derived from both, queries answered at any time. Correct when no
container points to a deleted session, the limit holds, nobody waits beside a
free place, the order is kept, shutdown saves every player. *Modelled:
`WorldSessions`.*

**Sockets and network threads** (`server/shared/Networking`,
`server/game/Server/WorldSocket.cpp`, `WorldSocketMgr.cpp`). Keeps, per socket,
two stages of the write queue, the flags of a pending write and of closing, the
read under way, the login phase and a session pointer guarded by a mutex of its
own. A network thread interleaves `Update`, reads and writes; the world thread
sends, closes, links instance sockets and deletes sessions meanwhile. Hard:
almost everything — partial writes, double closes, callbacks that come after the
session is gone, the stop of the network. Correct when packets arrive once and in
order, no thread uses a deleted session, a socket has one read at a time, what
waits is sent or the connection ends, `StopNetwork` returns. *Modelled:
`WorldSockets`.*

**Packet dispatch** (`WorldSession.cpp:334-549`, filters at 67-108,
`common/Threading/LockedQueue.h`). A session's received packets are handled
partly by the world thread, partly by the thread of the player's map, from one
queue whose head decides who may go on; packets that come before their player go
back to the front. Hard: head-of-line blocking, packets of a character that has
just left, what is put back against what arrives meanwhile, the limit of about 100
per update. Correct when packets are done with in order, once and for the character
they were sent for, and nothing stays in the queue. *Modelled: `PacketDispatch`.*

**Teleports and map transfer** (`Player::TeleportTo`, `MovementHandler.cpp`). A
player who changes maps is taken out of the world at once and put into the new map
when its client has answered two messages; a dungeon may refuse it on arrival, and a
logout has to finish the transfer by itself. Hard: the answers wait in the queue
above, behind and between everything else. Correct when a player out of the world
always has an answer under way that brings it further. *Modelled: `PacketDispatch`.*

**EventProcessor** (`common/Utilities/EventProcessor.cpp`). Timed events per unit,
executed by `Update` and aborted by `KillAllEvents`, whose callbacks add and abort
other events, and may kill the very queue that runs them. Hard: entries that are
added under an iterator, events that may not be deleted yet, aborts of events that
are gone. Correct when each event is in one queue until it is deleted, none runs
after its abort, and a kill reaches all. *Modelled: `EventProcessor`.*
`TaskScheduler` and `EventMap`, which scripts use: *planned.*

**Vehicles** (`Entities/Vehicle/Vehicle.cpp`). A seat is taken by an event planned
by an aura's handler. Passenger, vehicle, seat, aura and event point at each other,
and end in any order. Hard: bare pointers to events of other units' queues, a state
checked when the join is planned and assumed when it is executed. Correct when no
abort is scheduled for an event that is gone, what `Execute` asserts holds, and seats
and riders agree. *Modelled: `VehicleJoin` on top of `EventProcessor`.*

**Groups, loot, dungeon finder, battleground queue, auction house, black market,
trade, guild banks, channels, pools, grid states, transports, threat, movement**
(all under `server/game`). Game rules on the world thread or a map worker, each
with a protocol between a client, a timer and a table. Correctness is mostly
agreement of two tables (members and their map of
member to group, an invitation and the player it was sent to, money held and
bids) under timeouts and leaving players. *Planned, see section 7.*

**bnetserver** (`server/bnetserver`): TLS sessions and a REST login. *Planned.*

**Content and data**: spells, scripts, AI, quests, static stores, collision,
cryptography, packets, tools, third-party code. *Not modelled, see section 6.*

### How the modelled components interact

```
 clients ──accept──> WorldSockets ──AddSession_──> WorldSessions ──player──> (maps)
    ^                  |   ^  ^                        |   |                    ^
    │ packets          |   │  └─── SendPacket, Close, delete ───┘               │
    └── MPSCQueue <────┘   └─ link instance socket                              │
                                                       v                        │
        DatabaseWorkerPool <──queries, saves── world thread ──tick──> MapUpdater┘
              │                                                  │        │
              └────────── ProducerConsumerQueue ─────────────────┘   InstanceIds
```

`MapUpdater` instantiates `ProducerConsumerQueue` and uses its operations as they
are. `DatabaseWorkerPool` takes `WaitAndPop` as one step, and `WorldSockets` its
buffer queue as a sequence: the modules `ProducerConsumerQueue` and `MPSCQueue`
justify that, the first by its properties, the second by a proved refinement.
`WorldSessions` sees a session's sockets as one flag that may fall at any time,
`WorldSockets` a session as four states (`none`, `made`, `world`, `deleted`) that
the world thread advances at any time: each of the two modules replaces the other
by something that may do more. `PacketDispatch` looks into one of those sessions: what
`WorldSessions` lets a player do at any time (`PlayerStep`) is what its packets and
transfers do here, and its sockets are again one flag. `VehicleJoin` extends
`EventProcessor` and owns its state; that every step of it is one that
`EventProcessor` allows is a checked and proved property.

## 2. The modules

Each component has a module `M`, an `MCM` module with the values of its constants
and one `.cfg` per question (`FifoQueue` and `EventProcessor`, which others implement,
are checked with these); `MProofs` holds what is proved about `M`. The proofs about
`EventProcessor` are in `VehicleJoinProofs`, which needs them, those about
`MPSCQueue` in `WorldSocketsProofs`, as that queue is a part of a socket, and those about
`InstanceIds` and `InstanceResets` together in `InstanceProofs`; for this
reason `MPSCQueue` calls its `Init`, `Next` and `Spec` `QueueInit`, `QueueNext` and
`QueueSpec`, and `InstanceIds` calls them `IdsInit`, `IdsNext` and `IdsSpec`. A module
begins with a comment that says which code it stands for and where it draws its
steps. Operators named in a comment beginning with `Fault:` are not part of a
specification: each is a plausible bug in the code that the definition below it
translates, kept to see that the property it is meant for really breaks.

| Module | Code | Composition |
|---|---|---|
| `ProducerConsumerQueue` | `common/Threading/ProducerConsumerQueue.h` | |
| `MapUpdater` | `Maps/MapUpdater.cpp`, `MapManager::Update`, `UnloadAll`, `MapInstanced.cpp` | `Requests == INSTANCE ProducerConsumerQueue`; `Requests!Safety` is a property |
| `InstanceIds` | `MapManager.cpp:333-388` and its callers | |
| `InstanceResets` | `InstanceSaveMgr.cpp`, `InstanceSaveMgr.h`, and their callers | |
| `DatabaseWorkerPool` | `database/Database` | |
| `FifoQueue` | what `MPSCQueue` promises | abstract |
| `MPSCQueue` | `common/Threading/MPSCQueue.h` | `Promised == INSTANCE FifoQueue WITH entries <- Entries` |
| `WorldSessions` | `World.cpp`, `WorldSession.cpp` | |
| `WorldSockets` | `shared/Networking`, `WorldSocket.cpp`, `WorldSocketMgr.cpp` | |
| `PacketDispatch` | `WorldSession::Update`, `LockedQueue.h`, `MovementHandler.cpp`, `Player::TeleportTo`, logins and logouts of `CharacterHandler.cpp`, `MiscHandler.cpp` | |
| `EventProcessor` | `common/Utilities/EventProcessor.cpp` | abstract: any caller |
| `VehicleJoin` | `Vehicle.cpp` and its callers in `Unit.cpp`, `SpellAuraEffects.cpp` | `EXTENDS EventProcessor`; `UsesEvents == EventSpec` is a property |

### ProducerConsumerQueue

Every operation holds the mutex from its first line to its last, so it is one
step; `WaitAndPop` gives the mutex up when it sleeps, so it is one step per turn
of its loop (`Sleep`, `Take`, `GiveUp`), with `pc` saying whether a consumer is
outside, about to test the condition, or asleep. `NotifyOne` wakes any sleeper,
`SpuriousWakeup` one that nobody notified. `Push` still works after `Cancel`, and
`Pop` is refused then, as in the code. Values stand for the heap objects that are
queued: one is not pushed again while it is queued or held.

### MapUpdater

The world thread goes `idle` → `schedule` (one `ScheduleBase` per base map) →
`wait`/`asleep` → `delayed` (`DelayedUpdate` of all maps) → `idle`, or to the
shutdown: `stopping` (`UnloadAll` deletes maps and calls `deactivate`), the token,
the wait for pending requests (`drain`), `Cancel`, `join`. A worker goes `idle` →
`fetch` (inside `WaitAndPop`) → `update` → `children` (the loop of
`MapInstanced::Update` over its instances: `ScheduleInstance`, `DestroyInstance`
or `KeepInstance`) → `UpdateFinished`. The condition variable of `wait()` is in
the states `asleep` and `drainAsleep`, which `Woken` leaves. `attended` is a
history of the maps that had their turn.

### InstanceIds

`free` is the bitset as the set of its ones, `size` its length. The tables read at
startup come from `InstanceTable`: `RegisterInstanceId` is called row by row.
`GenerateInstanceId` is one step of the world thread (entering a new dungeon,
creating a battleground), with its scan and its growth. `FreeInstanceId` is not
one step: a map worker that destroys an instance in `DestroyInstance` stores
`next` and then loads and stores the word of the bitset in steps of its own, with
what it read before in `oldNext` and `oldFree`. Dungeon ids live as long as their
save save (`saved`), in memory or not (`ResetDungeon` ends it); battleground ids
(`matches`, later `arenas`) until their map goes. (`matches`, later `arenas`)
until their map goes.

### InstanceResets

`resetTime`, `queue` and `saves` are `m_resetTimeByMapDifficulty`,
`m_resetTimeQueue` and `m_instanceSaveById`; a save has the bind of the one player
the model follows, `Temporary` or a `BindExtensionState`. `rows` and `resetRow` are
the tables and `pending` the writes on their way to them, which `Store` executes in
order (`DatabaseWorkerPool`'s `StoredInOrder`, with its default of one worker) and
`Stop` drops. The world thread's steps are those of players (`NewInstance`, `Enter`, `Leave`,
`SetResetTime`, `PermBind`, `Extend`, `Login`, `Logout`), one round of the loop of
`Update` (`UpdateAlone`, `UpdateWarn`, `UpdateReset`), and `ForceGlobalReset`.
`Start` is `LoadInstances` with `LoadResetTimes`. The clock runs in units of which a
minute is one; `Tick` may fall anywhere, so updates may be late by any amount. The
callers in `Map.cpp`, `Player.cpp` and `Unit.cpp` are named at the actions they
take part in. `limit` in a row is a history of the latest reset its bind may survive.
`SetResetSchedule` cancels by `Unscheduled`, the two searches of `ScheduleReset`: first
for the event with that time, then for any event of the instance. Events that are due at
the same time come in any order after a start, since `LoadResetTimes` fills the queue
in the order of an unordered map. The assumptions on the constants say that
raid and heroic maps are among those that are reset as a whole (`MapsAssumption`), that
the four delays fall (`DelayAssumption`: the array `ResetTimeDelay`), and that a minute
after the configured hour it is still the same day (`HourAssumption`; the hour is 23 at most).

### DatabaseWorkerPool

An operation is a record of what the code does differently for it: a transaction
or not, direct or queued, with a promise or without, and its number of
statements. A connection goes `wait` → `popped` → `begin` → `run` → `commit`, one
step per statement, so that deadlocks, rejected statements and lost connections
can come between any two. `Fail` is the loop of `TransactionTask::Execute` and of
`DirectCommitTransaction`: only a first attempt that met a deadlock is repeated;
then whatever fails is. The MySQL server is external: `inTx` and `open` are the
transaction of each session, `stored` and `log` what was committed. `hit` has the
operations during which a connection was lost, for the properties that hold only
without such a loss.

### MPSCQueue and FifoQueue

One step per atomic access: `Enqueue` ends with the exchange of `_head`, `Link`
stores the link, `LoadNext` and `Advance` are the two halves of `Dequeue`. Nodes
come from a finite memory in which deleted ones are used again, so a stale
pointer is not harmless by construction. `chain` is a history variable, the nodes
in the order of the exchanges. `FifoQueue` is the queue the users of
`MPSCQueue` think of, with the one weakness they have to live with: an entry is
`ready` only when its producer has linked it, and nothing behind an entry that is
not ready can be taken.

### WorldSessions

The world thread alternates between two phases: `add`, which takes
sessions out of `addSessQueue` (`RefuseSession`, `AdmitSession`), and `update`,
which updates each live session once (`KeepSession`, `DropSession`). Between any
two steps a network thread adds a session or closes a socket, and a database
thread answers the queries of `InitializeSession`. `RemoveQueuedPlayer` is an
operator that yields the rest of the queue and who was popped, as the code calls
it from three places and twice in a row from one. `player` is what the packets
and the login callback make of a session's player; a packet of a queued session
has no effect. `HasRecentlyDisconnected` has the code's sign (section 5).

### WorldSockets

`sock[s]` has the fields of a socket: the two stages of what waits (`out` is
`_bufferQueue`, `queue` is `_writeQueue`), the flags, the reads and writes under
way, the phase of the login, whether `_worldSession` is set, what the peer has
received (`wire`) and how many packets `SendPacket` took. A network thread's `job`
says what it is in the middle of: `BeginUpdate`, then per socket
`UpdateSocket`, `Write`, the callbacks, `OnClose`; a completion begins with
`ReadHandler`, `ReadError` or `WriteHandlerWrapper`. Writes are complete, partial,
would-block or failed. The world thread sends, closes, logs out, deletes a session
and links an instance socket, in steps that fall between any two of those; the
mutex `_worldSessionLock` makes one step of what it covers and separates the rest.

### PacketDispatch

`stage` says which thread has the session: the world thread before and in the
session's update (`sessions`, `world`), the maps before and in the update of the
player's map (`maps`, `map`). An update is `BeginUpdate`, a `Requeue` or `TakePacket`
per turn of the loop, and `EndUpdate`, which puts `requeue` back in front, polls the
login's queries, logs out and cleans up. Between any two steps the client acts, an
instance socket is linked or (`Teleport`) a spell, a script or another session
teleports the player. The opcodes of the model are one for each combination of
status and place that the dispatch tells apart and those whose handlers change the
session; `cast` and `attack` are two of the many without an effect here. A handler
is an operator from a session to the sessions it may leave, as the code composes
them: `LogoutPlayer` calls the arrival handler until the player is in a map, and the
arrival handler may begin another teleport. `session.out` is what is on its way to
the client, which answers in that order. `n`, `character`, `sent`, `handled` and
`givenUp` are history.

### EventProcessor

A queue is the sequence of the multimap's entries; times are relative to the
queue's own, with everything overdue at 0. `Update` is one step per turn of its loop
and a second one when the callback has returned (`Pop`, then `Finish`, `Again`,
`FinishAbort` or `RetryAbort`), with the event in `hand` meanwhile;
`KillAllEvents` is `BeginKill`, `KillAbort` and `KillDispose` per entry, and
`EndKill`, with the iterator as the number of entries it left behind. All other code
is in the callbacks and between the loops (`Callable`): `EventNext` lets it make any
call at any of these points, so that `EventSpec` is what the queues promise to any
caller that schedules the abort of running events only.

### VehicleJoin

A unit's ride aura is the vehicle it is on (`aura`, `amount`), which is not yet the
seat (`riding`, `seats`). `AddPassenger` plans the join, `Board` is its `Execute`,
`FindDead` the same for a dead passenger, `AbortJoin` its `Abort`. Everything that
ends a ride is there with the handlers it sets off, as one step, as the code does
all of it before it returns: the aura that is removed takes the joins off the
vehicle's list and the passenger off its seat. Such a step can be taken
between two updates, in the callback of a spell (`Free`), and so in the middle of an
`Update` or a `KillAllEvents` of the same unit. `status` follows a passenger out
of the world and
back (a far teleport, which keeps the queue), to its removal, which kills the queue, and to its
destructor, which kills it again by force.

## 3. The runs

| Run | Instance | States | Shows |
|---|---|---|---|
| `queue` | 3 consumers, 3 values | 944 | wakeups, order, cancel |
| `map_update` | 2 workers, 1 plain map, 1 instanceable with 2 instances | 6,445 | barrier, count, shutdown; the request queue is used as `ProducerConsumerQueue` expects |
| `instance_ids` | 1 worker, ids to 4, tables {}, {1}, {2}, {1,3} | 68,066 | unique, lowest, none lost |
| `resets` | 1 instance at a time of a raid or a dungeon, 24 units of 4 days, 2 writes in flight | 6,310,612 | schedule, tables and memory agree across restarts; lockouts expire |
| `database` | 2 workers, 1 direct connection, 2 operations of 5 kinds, 2 retries, 3 deadlocks, 1 lost connection | 355,170 | atomicity, honest promises, order, progress |
| `mpsc` | 2 producers, 4 nodes, 2 values | 68,160 | refinement of `FifoQueue`, memory, delivery |
| `sessions` | 4 sessions of 3 accounts, 1 place, 1 account that skips the queue | 969,705 | pointers, limit, order, shutdown |
| `sessions_live` | 2 sessions, limit switched between 1 and none, 1 tick of tolerance | 60,650 | nobody is stuck in a closed or an admitted session |
| `network` | 1 network thread, a realm and an instance socket, 4 packets each | 5,301,332 | order, session pointers, reads |
| `network_live` | the same with a realm socket alone | 64,948 | progress of writes, closes and `StopNetwork` |
| `packets` | 2 characters, 3 maps (1 a dungeon, 1 pair of them seamless), 1 + 1 packets an update, 2 logins, 2 teleports, 2 packets of play | 771,920 | order, characters, transfers, progress |
| `vehicles` | 2 passengers, 2 joins and a spell between them, 2 vehicles | 761,947 | the event protocol, seats, aborts |

What each property says is the comment above it in its module. In short:

- `queue`: `NoLostWakeup` (while one sleeps, each queued value has an awake consumer
  of its own), `HandedOutInOrder` (an action property:
  one consumer per value, in order, discarded only by `Cancel`), `EveryWaitEnds`.
- `map_update`: `PendingExact` (`pending_requests` is the number of queued and
  running requests), `WorldAlone` (the world thread past `wait()` shares no map
  with a worker), `RequestsAreValid` (no request for a deleted map, no map twice,
  no null request), `EveryMapHadItsTurn`, `QueueIsUsedWell`, `WorldIsNeverStuck`.
- `instance_ids`: `NoIdHasTwoOwners`, `NoIdIsLost` (each id is free or in use, and
  the next to be handed out is the lowest free one).
- `resets`: `ResetsAreScheduled` (one chain of events per raid map, at the map's
  own reset time), `EmptyInstancesAreScheduled` (a dungeon has its reset scheduled
  exactly while nobody is inside), `MemoryMatchesTables` (once the writes are
  executed), `LockoutsExpire`.
- `database`: `AllOrNothing`, `AnswersAreTrue`, `GivenUpForAReason` (a transaction
  is given up only after 1 + Retries deadlocks), `StoredInOrder` (with one
  worker, and a default pool has one), `NothingIsStuck`.
- `mpsc`: `IsFifo` (the refinement), `NoUseAfterDelete`, `NothingIsLost` (the
  allocated nodes are those of the list), `EveryValueArrives`.
- `sessions`: `PointersAreLive`, `LimitHolds` (the limit is not exceeded, and nobody
  waits beside a free place), `AdmittedInOrder`; `sessions_live`: `SessionsGoOn`.
- `network`: `SentInOrder`, `SessionPointerIsLive`, `OneReadAtATime`;
  `network_live`: `SocketsAreServed`.

- `packets`: `PacketsStayWithTheirCharacter`, `GamePacketsInOrder`,
  `TransfersCanFinish` (a player out of the world has exactly one message under way
  that brings it further), `PacketsAreTaken` (what needs no player in the world
  leaves the queue, unless an update's worth of kept packets is in front of it).
- `vehicles`: `UsesEvents` (each step is one that `EventProcessor` allows: no abort of
  an event that is aborted, or gone), `JoinsCanExecute`, `SeatsAgree`,
  `AbortsUnseatNobody`.

Each module has a type invariant (`TypeOK`, `EventTypeOK`). It is part of the proved
inductive invariant of `ProducerConsumerQueue`, `MapUpdater`, `InstanceIds`,
`InstanceResets`, `DatabaseWorkerPool`, `MPSCQueue`, `WorldSessions`, `WorldSockets`,
`EventProcessor`, `VehicleJoin` and `PacketDispatch`. No run spends a property on it.

### Bounds, and why they are enough

- *queue*: three consumers are the least with a sleeper, a woken one and a
  newcomer at once; three values let a push come between two others.
- *map_update*: two workers and two instances let one worker queue an instance
  while the other finishes, takes one, or sleeps. Ticks are not bounded.
- *instance_ids*: the tables are an empty one, a dense one and two with gaps. With
  ids to 4 the bitset grows twice and the server reaches the id at which it stops.
- *resets*: the units are shrunk, a minute to 1, an hour to 4 and a day to 6, with
  the warnings 4, 3, 2 and 1 units ahead, so that every test of the code keeps its
  outcome (`DelayAssumption` and `HourAssumption` say what it relies on) and a
  lockout that is extended is seen through its three resets. Instances of
  different ids share nothing but the order of the queue: one at a time is
  followed, of either map, and its id is used again. Players act while fewer
  than two writes are queued; resets and shutdown do so always. The hour of the
  configuration is constant, and a reset is forced once at most.
- *database*: two operations are enough for every interference of two
  connections; three deadlocks are one more than the retries, so that a
  transaction is given up and another still retried. `Retries` is 2 and not 5
  (nothing but the length of a loop depends on it, and the proof leaves it open).
- *mpsc*: four nodes let a node be deleted and reused while another producer holds
  a pointer to its neighbour, and leave both producers inside `Enqueue`.
- *sessions*: the fourth session is a second login of an account that has one, and
  that one may be queued, popped, playing or closed; one account skips the queue.
  The limit is fixed there, as `LimitHolds` is about a fixed one; `sessions_live`
  changes it. Sessions `s1` and `s2`, which differ in
  nothing, are symmetric; the liveness run uses no symmetry.
- *network*: a realm and an instance socket are one complete login. Four packets
  are those of the login and one or two of play, enough to make two buffers and a
  partial write of each.
- *packets*: two characters are a logout and another login; two teleports let one
  cross another; with a dungeon that is not home, and one pair of maps that allows a
  seamless teleport, each branch of the arrival is taken. An update that takes two packets is
  exceeded by the three or four that a client may have sent (`MAX_PROCESSED...` is 100: the
  loop compares one number with it).
- *vehicles*: two passengers compete for a seat and eject each other; two joins are a
  superseded and a succeeding attempt; a spell is any event in which other code
  runs, and one that
  is not deletable. One vehicle has two seats, one of them not usable, the other vehicle one:
  the ride aura moves between them. An event is planned one unit ahead at most, which is
  enough to be overdue together or apart. Passengers and joins are symmetric
  (the run has no liveness property), and what nothing reads any more, the rest of
  deleted events and of destroyed units, is left out of the fingerprint (`View`).

### Fairness

- A thread that can go on does (weak fairness of the consumers, workers, world
  thread, network threads): operating system threads with a fair enough scheduler.
- Nobody has to produce, to call, to connect, to close, to begin a tick or to shut
  down, no spurious wakeup is relied upon, no deadlock or disconnection has to
  happen or to stop.
- `MPSCQueue`: a producer between its exchange and its link goes on. Without that
  the queue is blocked for ever, which is known of this algorithm.
- `WorldSockets`: strong fairness of `BeginUpdate`, `ReadError` and
  `WriteHandlerWrapper`. An `io_context` serves its handlers in the order in which
  they became ready, so the timer and a completion that are ready again and
  again are not passed over for ever. A write that keeps returning would-block is a
  stuttering step; a peer that stays connected is assumed to read on.
- `DatabaseWorkerPool`: a `Close` that has begun goes on.
- `PacketDispatch`: the server's updates go on (`UpdateNext`), and a client that is
  connected reads what it is sent. No login, packet, teleport or disconnection has to
  happen, and no query has to be answered.

`CHECK_DEADLOCK FALSE` is used where the modelled system ends: the pool after
`Close`, the map updater after `UnloadAll`, the sessions after `KickAll`, the
network threads after `StopNetwork`, the resets where the bounded clock has run
out, the packets of a session that is deleted. The other runs check for deadlock.

## 4. The proofs

The theorems hold for every value of the constants that satisfies the named
assumptions in the modules: any finite number of threads, any number of maps,
operations, retries, nodes or values. All are about safety and have the same
shape: an inductive invariant `IInv`, a lemma per action or group of actions, and
a last step in temporal logic. The invariants were checked by TLC before they were proved
(`MemoryInv` with the tables after each pending write computed instead of quantified).

**ProducerConsumerQueueProofs.** `TypeCorrect`, `CancelWakesEverybody`,
`NoWakeupIsLost`. `NoLostWakeup` is inductive once it is known that nobody sleeps
after `Cancel`: a consumer that takes a value lowers both sides by one, and one
that goes to sleep finds the queue empty. `AwakeSet` has the counting.
`NothingIsShared` (`OnePlace`: a value is queued once or in one thread's hands) and
`OrderIsKept` follow from the guard on `Push`, which its callers have to keep: it is an
assumption on them here, and `MapUpdater` proves it of its own pushes.

**MapUpdaterProofs.** `CountIsExact`, `WorldIsAlone`, `RequestsAreNeverNull`,
`TypeCorrect`. `PendingExact` alone is not inductive: a worker could hold no
request and still decrement. `HandsInv` says which phase of a worker has a
request in its hands, `StopInv` that the queue is cancelled only under the token
and after the drain, `QuietInv` that the count is zero wherever the world thread
is past `wait()`; `WorldAlone` then follows from count zero.

A second invariant `JInv` is about *which* requests are in flight, not how many.
`FlightInv`: each is in one place, the queue or one worker's hands, for a map that exists;
what the world thread or a worker is yet to schedule is not in flight, and no instance is
while its base map is yet to be updated. `TurnInv`: a map that had no turn in this tick is
in flight, or on the list of the world thread or of a worker, or its base map is. `RequestsStayValid` and `NoMapIsSkipped` are read off it, and so is the
refinement `UpdaterUsesQueue`: `Push` is only called with a map that nobody holds.

**InstanceProofs**, first part: `IdsHaveOneOwner`, for any number of workers that race in
`FreeInstanceId`. `RaceInv` is the heart: what a worker has read and not yet
written back holds no id in use, since during a map tick nobody hands out ids.
`RangeInv` and `LoadInv` keep the ids within the bitset, and loaded ones above
those registered. `NoIdIsLost` does *not* hold for several workers
(section 5). `OneWorkerLosesNoId` proves it for one: `KeepInv` says that the id a worker
is giving back is the only one that may be missing in the bitset, and that `next` is the
lowest of the free ids together with it.

Second part, about `InstanceResets`: `RaidResetsAreScheduled`, `NoLockoutOutlivesItsReset`,
`TablesFollowMemory`, `AloneInstancesAreScheduled`. The memory is ahead of the tables by
the writes that are pending, and a crash may come after any of them. So the invariant cannot
speak of the tables as they are, nor of the last ones only. `Leads` runs through the tables
after each pending write, one write at a time; all of them are such as a restart can work from
(`TablesOK`, through `RowOK`: no row of a map is older than its limit allows). `MemoryInv` says that
the last of these tables agrees with the memory (`Agrees`), that it has a row for each
save in memory with its bind (`Matches`), and that the events of instances that are reset alone and the rows
without a player inside correspond to each other (`EventsMatch`, `RowsMatch`): each event has a row
and is at its reset time (the save's, if one is in memory), each row that needs an event has one, and no instance has two. That
makes the cancellation exact: by time it finds the event it means or there is none. `ChainsInv`
is about the maps that are reset as a whole: a raid or heroic map has one event, in step with its reset time
(`InStep`); every other one has at least one that is early enough (`Early`, `Covered`). It rests on
the arithmetic of `GetSubsequentResetTime`: a reset at a reset hour schedules the next a whole
period later (`IsResetTime`), which is also what an extension adds to the limit of a lockout. The
lemmas under these are about the queue, a sequence that stays sorted while events are
inserted and removed (`Inserted`, `Removed`, `OneForOne`), and about one write on one row.

The first two theorems hold for all maps; the other two assume `RaidsOnly`: the maps that are
reset as a whole are exactly the raid and heroic ones. That is not a convenience.
With a map that is global and neither (mythic) both properties are false of the code
(section 5, 7), and TLC finds it so. `RaidsOnly` holds in the run `resets`.

**DatabaseWorkerPoolProofs.** `TransactionsAreAtomic`. `OwnerInv`: an operation
is queued, in the hands of one connection, or gone; `SessionInv`: what a
connection is doing agrees with the transaction its MySQL session has open,
unless the connection was lost. Both need each other, since a statement goes into
the transaction or straight into the tables.

`PromisesAreTrue`, `RetriesAreUsed` and `OneWorkerKeepsOrder` need `JInv` on top, which
relates the histories (what was stored, answered and given up) to the state: by
`AnswerInv` only what is gone has an answer; by `RetryInv` an operation that is being tried
again, and met no other error, was a deadlock's victim once for each retry so far; by
`OrderInv`, when one worker has taken all operations so far, nothing was stored that
comes after what it is at, and nothing is queued that comes before.

**VehicleJoinProofs**, first part: `HeldOnce`, `TimeOrder`, `KillReaches`, `Final`, for any
number of queues and events and any calls of the callbacks. `IInv` adds to the four
what ties them together: the event in the hand of `Update` or under the iterator of
`KillAllEvents`, how far that iterator has come, and in which of its states an event
can be where. The facts about sequences that change under an
iterator (`InsertAt`, `RemoveAt`) are lemmas of their own.

Second part: `VehiclesUseEvents` is a refinement: `Spec => EventSpec`, so
that the four theorems above hold of the vehicle code. It needs to know that whatever the
pending lists point at is running, which is `JoinsExecute`; its invariant `JInv` ties each
running join to its passenger's queue, the aura, the seat and the one list it is on.

`SeatsAndRidersAgree` and `AbortsComeInTime` need three more parts (`SInv`).
`SeatInv`: who sits on a seat rides that vehicle, on that seat only, and as many usable seats
are free as `UsableSeatNum` says; `FreeInv`: the seat of a join that is still running is
free; `TurnInv`: in the queue of a passenger only the last join can be running, and
who rides has none left. The last is what makes late aborts harmless: they are
executed before the join that superseded them. That free seats are counted needs
finitely many per vehicle (`VehicleAssumption`; there are eight in `Vehicle.dbc`).

**PacketDispatchProofs.** `GameOrder`. `GamePacketsInOrder` is inductive with
`OnlyWithoutPlayer`: while packets are kept there is no player, so that none of those
behind them is handled first; and with the numbers of the waiting packets, which are
at most `sent`.

`NoForeignPackets` and `TransfersGoOn` rest on what client and server know of each other
(`JInv`). `Dialogue`: one of them is to speak, so that there is at most one message that
moves the client on (list, failed, entered, logged out) or one packet that asks for the
next (`CMSG_ENUM_CHARACTERS`, `CMSG_PLAYER_LOGIN`), and where the client is says whose
player there can be. `Leftovers`: packets of an earlier player come before the next
request, which the queue therefore reaches only when they are gone. `Transfers`: which
message or packet a transfer waits for, and that those of a transfer that a logout
cut off are in front of the message that tells the client of it.

**WorldSessionsProofs.** `EveryPointerIsLive`, `AdmissionKeepsOrder`, `PlayersWithinLimit`.
`PointersAreLive` is inductive with `Incoming` (who is handed over is in no
container yet), `Visits` (the loop of `UpdateSessions` deletes only members of `m_sessions`)
and `OnlyActive` (who waits was not initialized). `Served` says what one call of
`RemoveQueuedPlayer`, or the two of `UpdateSessions`, leave of the queue and whom they admit;
the order follows from it alone. `LimitHolds` needs the numbers as well: that
`GetActiveSessionCount` counts who is not queued, and that after a first call that admits
somebody the second finds the server full again. The theorem assumes what the property does,
a limit that is not changed and no disconnect tolerance (`Tolerance = 0`, the default:
`World.cpp:714`); the other two hold for all limits and tolerances.

**WorldSocketsProofs**, first part: `PacketsInOrder`, `SessionsStayLive`, `OneReader`, for
any number of network threads and sockets, any length of traffic, and any mixture of the
`Packings` of the packets into buffers. None of the three properties is inductive, and they
share what makes them so. `HomeInv`: a socket is with one thread, whose job and list are
about its own sockets only; hence two handlers of one socket never overlap. `LoginInv` ties
the phase of a realm socket to its session, `LinkInv` says which instance sockets the world
has yet to link and that none of them has the pointer before. `PointerInv`: a socket whose session is deleted was closed
before it. `JobInv` is about a close by the world while the thread goes on in
its read loop: then the world takes the pointer before it does anything else, so that it
cannot delete the session under the loop. `ReadInv` counts the reads, of which the one
a thread is handling is not one any more. `SentInv` is `SentInOrder` in a form that can be
reasoned about without recursion over the buffers: `Starts` numbers the
packet at which each buffer begins, and one lemma per operation on the queues
(`StartsNext`, `StartsPop`, `StartsPart`, `StartsInsert`...) says what becomes of these numbers
when a packet is appended, a buffer is sent, cut or queued.

Second part, about `MPSCQueue`: `NodesAreAlive`, `NoNodeLeaks`, `QueueImplementation` (the
refinement of `FifoQueue`: initial states map to initial states, each action to an
action of `FifoQueue` or a stutter). `QueueInv` has four parts beside the types. `ChainInv`: the chain runs from tail to head
and is exactly the allocated nodes; `GapInv`: each of its links is there, or has
one producer that is about to store it; `OwnerInv` says the converse;
`FoundInv` is about the consumer between its two steps.

Only model-checked: liveness (progress under fairness is beyond the prover used
here), that is `EveryWaitEnds`, `WorldIsNeverStuck`, `NothingIsStuck`, `EveryValueArrives`,
`SessionsGoOn`, `SocketsAreServed` and `PacketsAreTaken`. Every other property of a run
is stated by a theorem.

## 5. Where the code departs from what it says

These were met while modelling. The models do what the code does, and the properties
except exactly these cases, each by a condition that is named here; no run is
kept for a violation.

1. **A transaction can be stored in part.** `MySQLConnection::Execute` reconnects
   inside a transaction and repeats only its own statement, on a session in autocommit
   mode (`MySQLConnection.cpp:183`, 513-548, 147). What came before is rolled back
   by the server, what comes after is stored a statement at a time.
   `DatabaseWorkerPool.h:169` promises "automatically rollback if not commited".
   `AllOrNothing` excepts the operations during which a connection was lost (`hit`).
2. **A refused connection is not closed.** `DelayedCloseSocket` (`Socket.h:156`) is to
   close "after write buffer becomes empty"; with a buffer that is empty already
   `HandleQueue` (`Socket.h:242`) returns before the close (`WorldSocket.cpp:116`, 672, 709,
   920). `SocketsAreServed` promises the close only of a socket that has something to send.
3. **Ids with several map threads.** With `MapUpdate.Threads` above 1 the two
   assignments of `FreeInstanceId` (`MapManager.cpp:386`) race, and a freed id may
   be lost or passed over, so "the current NextInstanceId (which should be the
   lowest...)" (line 370) fails. No id gets two owners even then: that is the
   theorem `IdsHaveOneOwner`.
4. **An id is reused under a map that still exists.** `_ResetInstance`
   (`InstanceSaveMgr.cpp:640`) frees the id of a dungeon while its map may still be
   loaded, waiting for its players to leave; the next dungeon of that id finds the
   old map (`MapInstanced.cpp:185-191`).
5. **The disconnect tolerance has the wrong sign.** `difftime(i->second,
   time(nullptr))` (`World.cpp:368`) is never positive, so an account that ever
   disconnected passes the queue, whatever the tolerance.
6. **Saves queued at shutdown can be dropped.** `Main.cpp:313` says "save and kick
   all players"; the saves are queued, and `~DatabaseWorker`
   (`DatabaseWorker.cpp:34`) cancels the queue and deletes what is in it. `Close`
   of `DatabaseWorkerPool` does the same.
7. **Dungeons that are neither raid nor heroic but reset with their map** (mythic):
   `GetResetTimeForDB` (`InstanceSaveMgr.cpp:237`) stores a reset time for them,
   although "resettime = 0 in the DB for raid/heroic instances" (line 322), so that
   after a restart the map has an event chain per instance (line 454), each of
   which moves its reset time by a period, and a second event resets the instance
   alone (line 376), players inside or not. `InstanceResets` keeps `RaidOrHeroic`
   and `Global` apart for this reason: with `RaidOrHeroic = {}` TLC finds
   `EmptyInstancesAreScheduled` violated (events of such an instance outlive it, and
   the next dungeon with its id cancels one of them instead of its own). With a raid, a
   mythic and a normal map `MemoryMatchesTables` fails as well, in some thirty steps: the
   second event of a mythic instance outlives it, a raid gets its id and is reset alone, so
   that its row is deleted while the lockout stays in memory. The run `resets` has no
   such map, and the two theorems assume there is none.
8. **A forced reset cancels the wrong events.** `ForceGlobalReset` (line 526) means
   to "remove currently scheduled reset times" of one map, but
   `InstResetEvent::operator==` (`InstanceSaveMgr.h:187`) compares the instance ids
   alone, and those of all events of whole maps are 0: the first two events of
   whichever maps go, and the map's own chain may stay. The properties of the
   schedule are claimed until a reset is forced (`forced`).
9. **A lockout that was extended is lost if its reset falls into a downtime.**
   `LoadInstances` (line 283) deletes every instance whose map was to be reset,
   whatever its binds, while a reset of a running server promotes extended ones.
10. **A lockout may be promoted twice.** The transaction that promotes the binds and
   the statement with the next reset time (lines 683 and 704) are separate; a
   crash between them leaves the old time, and the reset is repeated or its
   instances deleted after the restart. `LockoutsExpire` holds all the same:
   lockouts end early, never late.

11. **A player who is sent home from home is stranded.** A dungeon that refuses an
   arriving player ("porting player to homebind", `MovementHandler.cpp:88`) calls
   `TeleportTo`, which compares the homebind with the map the player came from
   (`Player.cpp:1558`). If they are the same it sends a teleport within the map; the answer
   is for a player in the world and is dropped (`WorldSession.cpp:376`), like the request to
   log out, and the player stays out of every map until the client disconnects.
   `TransfersCanFinish` excepts `session.near /\ session.map = Home`.
12. **Packets of an aborted login go to the next character.** `AbortLogin` leaves what
   was kept for the player in the queue. `PacketsStayWithTheirCharacter` excepts the
   characters in `givenUp`. `AbortLogin` runs in a network thread and is not synchronized
   with `ProcessLinkInstanceSocket`.
13. **Kept packets may clog the queue.** "Any leftover will be processed in next
   update" (`WorldSession.cpp:489`) fails if more packets are kept than an update
   takes: they are
   put back in front, whereas line 367 speaks of "the bottom of the queue".
   `PacketsAreTaken` excepts that state (`Clogged`).
14. **A logout on the loading screen blocks the next login.** `LogoutPlayer` does not
   clear `m_playerLoading`, which only the timed logout waits for (line 518), and the next
   `CMSG_PLAYER_LOGIN` is taken for a second one and kicked. `HandleMoveTeleportAck` does
   not compare `AckIndex`, so that the answer to an earlier teleport ends a later one.
15. **A stale abort may undo a new boarding.** When a passenger asks again while its join
   is pending, the old join is aborted in the next update and removes the passenger's aura
   (`Vehicle.cpp:924`), which belongs to the new join by then; that one is aborted as well,
   and the passenger boards nothing. No one who sits is unseated by it
   (theorem `AbortsComeInTime`).
16. **Races and a leak.** `MapManager::Update` iterates over `i_maps` without the lock
   under which `CreateBaseMap` inserts (`MapManager.cpp:104`), and `SetResetSchedule` changes
   the queue of resets from map workers (`Map.cpp:3916`): data races with several map threads,
   without defined outcomes to enumerate. So is the choice of an accept socket by two
   acceptors at once (`AsyncAcceptor.h:56`). A session whose socket closes between its
   making and `CMSG_ENTER_ENCRYPTED_MODE_ACK` is owned by nobody (`WorldSocket.cpp:851`).

## 6. What is left out, and why

Of the modelled components: queries that only read, query holders and pings of
the database layer; the population counters, the idle timer and the failures of
`InitializeSession`; of a socket's life encryption, compression, the rate of pings
(`HandlePing` answers each) and the client's failure to connect the instance
socket; the Windows branch of `Socket.h`; the choice of the network thread for a
new socket (any may be chosen, the code reads the counters without a lock). Clients
of `WorldSockets` acknowledge the encrypted mode after they were told to, and open
the instance socket after they were invited.

Of packets: opcodes that are allowed shortly after a logout, unhandled ones, the flood
protection, malformed packets, the wait in the login queue, the order between two
sockets (the model's client has one connection). Of transfers: delayed teleports,
invalid coordinates, the eviction from an instance the player may not be in, a
character that is not the account's, the exact time of a logout and of the
expiry of a closed session (any time), the entrance of a dungeon as the place a
refused login goes to (home in the model).

Of events: a `KillAllEvents` inside another; calls that add events to a queue that is
killed by force (the code would leak them, `EventProcessor.cpp:109`); a time in the past
given to `ModifyEventTime` ties with what is overdue. Of vehicles: accessories and
minions, hooks of scripts and their `KillAllEvents(true)` on a unit that lives, ride spells of
another kind, vehicles that ride, players as vehicles that fight. `CanEnterOrExit` and
`IsUsableByOverride` are one kind of usable seat. A join that
is aborted already keeps its pointer to the vehicle (`Vehicle.cpp:912`); the model lets it
read that the vehicle has no kit.

Of instance saves: the binds of groups, several players bound to one instance (a
permanent bind of one of them keeps the save of all), the data of the instance
script in the row, changes of the configured hour between restarts, and the answer
of a login's query that is older than a reset.

Of the rest of the server:

- *planned* (section 7): script timers, groups, loot, dungeon finder, battleground
  queue, auction house, black market, trade, guild banks, channels, pools, grids,
  transports, threat, movement, bnetserver, the shutdown as a whole.
- *content and arithmetic*: spells, auras, creature AI, scripts, quests,
  achievements, reputation, scenarios, conditions. Their states are data of the
  world database, and their rules are per spell, per creature or per boss.
- *tables read at startup*: static stores, the loader and updater of the database.
- *encoding and output*: packets, cryptography, chat formatting, logs, metrics,
  configuration. The order and the multiplicity of packets is in `WorldSockets`.
- *geometry*: collision, pathfinding, grids as far as they are spatial.
- *needs the operating system*: hot reload of scripts, console, remote access.

## 7. The plan

Built, in this order: the blocking queue and the map update on top of it (what
the game's whole concurrency rests on), instance ids (what workers share without a
lock), instance saves and resets, the database, the lock-free queue, sessions, sockets;
then packets and transfers, events, and vehicles on top of these.

Next, the protocols of the game, the most concurrent first:

1. `TaskScheduler` and `EventMap` in the style of `EventProcessor`: tasks that repeat,
   cancel and delay themselves and their groups.
2. `BattlegroundQueue`, then the dungeon finder: invitations that are
   answered, expire or are withdrawn while the player logs out. Abstract
   specification: a player is invited to at most one place, a place to at most one
   player. To prove: the invited count is the number of invited players.
3. `Trade` (`TradeHandler.cpp`, `TradeData.cpp`): an acceptance is withdrawn by every
   change of what is offered, and ends with both players' items or neither's.
4. `Groups` with ready check, loot rolls and the group binds that `InstanceResets`
   leaves out; `AuctionHouse` and `GuildBank`
   (money is neither made nor lost across a failing transaction, on top of
   `DatabaseWorkerPool`'s operations).
5. `Shutdown`: the order of `Main.cpp:250-340` over `WorldSessions`, `WorldSockets`,
   `MapUpdater` and `DatabaseWorkerPool`.

To prove next, with these: that what the group binds of `InstanceResets` keep loaded
agrees with their table, in the way `TablesFollowMemory` does for a player's binds.

## 8. Running it

```
tlasany MapUpdater.tla
tlc -workers 2 -config MCMapUpdater.cfg MCMapUpdater
tlapm MapUpdaterProofs.tla
```

On two workers `packets` takes about 155 s, `network`, `resets`, `sessions` and
`vehicles` about 90 s, `database` about 60 s, the others seconds.
