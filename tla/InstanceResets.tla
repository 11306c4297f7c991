---------------------------- MODULE InstanceResets ----------------------------
(***************************************************************************)
(* The instance saves and reset schedule of                                *)
(* src/src/server/game/Instances/InstanceSaveMgr.cpp and .h, across        *)
(* restarts of the server.                                                 *)
(*                                                                         *)
(* A map here is a pair of a dungeon map and a difficulty.  A raid, or a   *)
(* dungeon above normal difficulty, is Global: all its instances are reset *)
(* at one time, kept in memory and in the table instance_reset, and        *)
(* announced by warnings (events of types 1 to 3) before the reset itself  *)
(* (type 4).  An instance of any other map is reset alone (type 0), after  *)
(* nobody was in it for long enough.                                       *)
(*                                                                         *)
(* The world thread changes memory and queues the writes; they are         *)
(* executed in order and later, and those still queued are lost when the   *)
(* process ends.  One character is bound to an instance: the tables        *)
(* instance and character_instance are one table of rows here, and group   *)
(* binds are left out.  Time is counted in units of which Minute, Hour and *)
(* Day name the amounts.                                                   *)
(***************************************************************************)
EXTENDS Integers, FiniteSets, SequencesExt

CONSTANTS Id, NoId,          \* instance ids; the id of an event for a whole map
          Map,               \* pairs of map and difficulty
          Global,            \* those with a MapDifficultyEntry::GetRaidDuration
          RaidOrHeroic,      \* those for which GetResetTimeForDB returns 0
          RaidDuration,      \* GetRaidDuration times RATE_INSTANCE_RESET_TIME
          ResetTimeHour,     \* CONFIG_INSTANCE_RESET_TIME_HOUR
          ResetTimeDelay,    \* how long before the reset each of types 1 to 4 happens
          Minute, Hour, Day,
          LastTime,          \* bound: the clock stops here
          MaxPending,        \* bound: players act only while fewer writes are queued
          NoSave, NoRow

ASSUME MapsAssumption ==
  /\ RaidOrHeroic \subseteq Global /\ Global \subseteq Map /\ RaidDuration \in [Global -> Nat]
  /\ IsFiniteSet(Id) /\ IsFiniteSet(Map) /\ NoId \notin Id
ASSUME DelayAssumption ==
  /\ ResetTimeDelay \in Seq(Nat) /\ Len(ResetTimeDelay) = 4
  /\ \A t \in 1 .. 3 : ResetTimeDelay[t] > ResetTimeDelay[t + 1]
  /\ ResetTimeDelay[1] = Hour /\ ResetTimeDelay[4] = Minute
ASSUME HourAssumption ==
  /\ {ResetTimeHour, Minute, Hour, Day} \subseteq Nat /\ Minute > 0 /\ Hour > 0
  /\ ResetTimeHour * Hour + Minute < Day /\ Hour <= Day

VARIABLES now,
          up,          \* the server runs
          resetTime,   \* m_resetTimeByMapDifficulty
          queue,       \* m_resetTimeQueue, in the order of the multimap
          saves,       \* m_instanceSaveById, with the bind of the character online
          inside,      \* instances with a player inside
          used,        \* instance ids in use (MapManager::_freeInstanceIds)
          rows,        \* the tables instance and character_instance
          resetRow,    \* the table instance_reset; 0: no row
          pending,     \* writes queued for the database
          forced       \* a game master has forced a reset (bound: once)

memoryVars == <<resetTime, queue, saves, inside, used>>
tableVars == <<rows, resetRow>>
vars == <<now, up, memoryVars, tableVars, pending, forced>>

(* A bind: not permanent, or permanent with its BindExtensionState. *)
Temporary == -1
Expired == 0
Normal == 1
Extended == 2
Bind == Temporary .. Extended

Event == [at : Int, type : 0 .. 4, map : Map, id : Id \cup {NoId}]
Save == [map : Map, resetTime : Int, bind : Bind]
Row == [map : Map, resetTime : Int, bind : Bind, limit : Int]

ASSUME NoneAssumption == NoSave \notin Save /\ NoRow \notin Row

TypeOK ==
  /\ now \in Nat /\ up \in BOOLEAN /\ forced \in BOOLEAN
  /\ resetTime \in [Global -> Int] /\ resetRow \in [Global -> Int]
  /\ queue \in Seq(Event)
  /\ \A k, l \in DOMAIN queue : k < l => queue[k].at <= queue[l].at
  /\ saves \in [Id -> Save \cup {NoSave}]
  /\ rows \in [Id -> Row \cup {NoRow}]
  /\ inside \subseteq Id /\ used \subseteq Id

Init ==
  /\ now = 0 /\ up = FALSE /\ forced = FALSE
  /\ resetTime = [m \in Global |-> 0] /\ resetRow = [m \in Global |-> 0]
  /\ queue = <<>> /\ pending = <<>>
  /\ saves = [i \in Id |-> NoSave] /\ rows = [i \in Id |-> NoRow]
  /\ inside = {} /\ used = {}

Loaded(i) == saves[i] # NoSave
IsAlone(i) == Loaded(i) /\ saves[i].map \notin Global

-----------------------------------------------------------------------------
(* The reset times. *)

StartOfDay(t) == (t \div Day) * Day
AtResetHour(t) == StartOfDay(t) + ResetTimeHour * Hour

(* "the reset_delay must be at least one day" *)
Period(m) ==
  LET days == StartOfDay(RaidDuration[m]) IN IF days < Day THEN Day ELSE days

(* A bind, extended as it is now, goes at the reset of this time at the latest. *)
Limit(m, bind, reset) == IF bind = Temporary THEN reset ELSE reset + bind * Period(m)

GetSubsequentResetTime(m, t) == AtResetHour(t + Minute) + Period(m)

(* The reset time of a map after LoadResetTimes, from that of its row: that *)
(* of a past reset is moved by periods into the future.                     *)
LoadedResetTime(m) ==
  LET today == StartOfDay(now)
      old == IF resetRow[m] = 0 THEN AtResetHour(today + Period(m)) ELSE AtResetHour(resetRow[m])
      missed == (today - StartOfDay(old)) \div Period(m)
  IN  IF old < now THEN AtResetHour(old + (missed + 1) * Period(m)) ELSE old

GetResetTimeForDB(m, t) == IF m \in RaidOrHeroic THEN 0 ELSE t

(* ScheduleReset(true, ...): after the events of the same time. *)
Scheduled(q, t, type, m, i) ==
  InsertAt(q, Cardinality({k \in DOMAIN q : q[k].at <= t}) + 1,
           [at |-> t, type |-> type, map |-> m, id |-> i])

(* ScheduleReset(false, ...): the first event that is equal, which compares *)
(* the instance ids alone, among those of this time or else among all.      *)
Unscheduled(q, t, i) ==
  LET equal == {k \in DOMAIN q : q[k].id = i}
      exact == {k \in equal : q[k].at = t}
  IN  IF equal = {} THEN q ELSE RemoveAt(q, Min(IF exact # {} THEN exact ELSE equal))

(* The calls of InstanceMap::SetResetSchedule (Map.cpp:3908) when the first *)
(* player enters (Map.cpp:3693) and the last one has left (Map.cpp:3738).   *)
SetResetSchedule(q, on, i, m, t) ==
  IF m \in RaidOrHeroic THEN q ELSE IF on THEN Scheduled(q, t, 0, m, i) ELSE Unscheduled(q, t, i)

-----------------------------------------------------------------------------
(* The world thread, for its players. *)

PlayersAct == up /\ Len(pending) < MaxPending
Queue(writes) == pending' = pending \o writes

(* AddInstanceSave of an instance that has no save: the save, with the     *)
(* reset time of its map unless one is given, and when an instance reset   *)
(* alone has no time yet, an event.                                        *)
AddInstanceSave(i, m, t, bind) ==
  LET alone == m \notin Global
      reset == IF t # 0 THEN t ELSE IF alone THEN now + 2 * Hour ELSE resetTime[m]
      q == IF t = 0 /\ alone THEN Scheduled(queue, reset, 0, m, i) ELSE queue
  IN  [save |-> [map |-> m, resetTime |-> reset, bind |-> bind], queue |-> q]

(* InstanceMap::AddPlayerToMap (Map.cpp:3593) of a player without a bind in *)
(* a new instance, to which he is bound: the save, then the bind, then      *)
(* SetResetSchedule.                                                        *)
NewInstance(i, m) ==
  /\ PlayersAct /\ i \notin used \cup inside /\ ~Loaded(i)
  /\ LET new == AddInstanceSave(i, m, 0, Temporary)
         t == new.save.resetTime
     IN  /\ saves' = [saves EXCEPT ![i] = new.save]
         /\ queue' = SetResetSchedule(new.queue, FALSE, i, m, t)
         /\ Queue(<<[op |-> "insert", id |-> i,
                     row |-> [map |-> m, resetTime |-> GetResetTimeForDB(m, t),
                              bind |-> Temporary, limit |-> Limit(m, Temporary, t)]]>>)
  /\ used' = used \cup {i} /\ inside' = inside \cup {i}
  /\ UNCHANGED <<now, up, resetTime, tableVars, forced>>

(* A player enters the instance he is bound to. *)
Enter(i) ==
  /\ PlayersAct /\ i \notin inside /\ Loaded(i) /\ saves[i].bind # Expired
  /\ inside' = inside \cup {i}
  /\ queue' = SetResetSchedule(queue, FALSE, i, saves[i].map, saves[i].resetTime)
  /\ UNCHANGED <<now, up, resetTime, saves, used, tableVars, pending, forced>>

(* The last player leaves; his save may be gone since a reset. *)
Leave(i) ==
  /\ PlayersAct /\ i \in inside
  /\ inside' = inside \ {i}
  /\ queue' = IF Loaded(i)
              THEN SetResetSchedule(queue, TRUE, i, saves[i].map, saves[i].resetTime)
              ELSE queue
  /\ UNCHANGED <<now, up, resetTime, saves, used, tableVars, pending, forced>>

(* A creature of an instance that binds nobody for good is killed: the      *)
(* reset is at least two hours after its respawn (Unit.cpp:11652).          *)
SetResetTime(i) ==
  /\ PlayersAct /\ i \in inside /\ Loaded(i) /\ saves[i].map \notin RaidOrHeroic
  /\ saves[i].resetTime < now + 2 * Hour
  /\ saves' = [saves EXCEPT ![i].resetTime = now + 2 * Hour]
  /\ UNCHANGED <<now, up, resetTime, queue, inside, used, tableVars, pending, forced>>

(* Player::BindToInstance (Player.cpp:21167) when it changes his bind. *)
Rebind(i, bind) ==
  /\ saves' = [saves EXCEPT ![i].bind = bind]
  /\ Queue(<<[op |-> "bind", id |-> i, bind |-> bind,
              limit |-> Limit(saves[i].map, bind, resetTime[saves[i].map])]>>)
  /\ UNCHANGED <<now, up, resetTime, queue, inside, used, tableVars, forced>>

(* PermBindAllPlayers (Map.cpp:3841), when a boss is killed. *)
PermBind(i) ==
  /\ PlayersAct /\ i \in inside /\ Loaded(i)
  /\ saves[i].map \in RaidOrHeroic /\ saves[i].bind = Temporary
  /\ Rebind(i, Normal)

(* The player extends his lockout, revives an expired one, or takes the     *)
(* extension back.                                                          *)
Extend(i) ==
  /\ PlayersAct /\ Loaded(i)
  /\ \/ saves[i].bind = Normal /\ Rebind(i, Extended)
     \/ saves[i].bind \in {Expired, Extended} /\ Rebind(i, Normal)

(* _LoadBoundInstances of a character (Player.cpp:21005), from the answer   *)
(* of a query that ran after the writes queued about the instance.          *)
Login(i) ==
  /\ PlayersAct /\ ~Loaded(i) /\ rows[i] # NoRow
  /\ \A k \in DOMAIN pending :
       IF pending[k].op \in {"expire", "schedule"} THEN pending[k].map # rows[i].map
       ELSE pending[k].id # i
  /\ LET new == AddInstanceSave(i, rows[i].map, rows[i].resetTime, rows[i].bind)
     IN  saves' = [saves EXCEPT ![i] = new.save] /\ queue' = new.queue
  /\ UNCHANGED <<now, up, resetTime, inside, used, tableVars, pending, forced>>

(* Fault: the reset time of an instance is not saved when it is unloaded. *)
LogoutUnsaved(i) ==
  /\ PlayersAct /\ Loaded(i) /\ i \notin inside
  /\ saves' = [saves EXCEPT ![i] = NoSave]
  /\ UNCHANGED <<now, up, resetTime, queue, inside, used, tableVars, pending, forced>>

(* The character goes offline: RemovePlayer, UnloadIfEmpty, RemoveInstanceSave. *)
Logout(i) ==
  /\ PlayersAct /\ Loaded(i) /\ i \notin inside
  /\ saves' = [saves EXCEPT ![i] = NoSave]
  /\ LET t == GetResetTimeForDB(saves[i].map, saves[i].resetTime)
     IN  Queue(IF t = 0 THEN <<>> ELSE <<[op |-> "time", id |-> i, time |-> t]>>)
  /\ UNCHANGED <<now, up, resetTime, queue, inside, used, tableVars, forced>>

-----------------------------------------------------------------------------
(* The world thread: InstanceSaveManager::Update. *)

(* Fault: extended lockouts are not promoted in memory. *)
ResetSaveUnpromoted(save) == IF save.bind > Expired THEN save ELSE NoSave

(* _ResetSave: permanent binds that have not expired are promoted and keep *)
(* the save, which loses the others.                                       *)
ResetSave(save) ==
  IF save.bind > Expired THEN [save EXCEPT !.bind = @ - 1] ELSE NoSave

(* _ResetInstance of an instance reset alone. *)
ResetInstance(i) ==
  /\ saves' = [saves EXCEPT ![i] = IF Loaded(i) THEN ResetSave(saves[i]) ELSE NoSave]
  /\ Queue(<<[op |-> "delete", id |-> i]>>)
  /\ used' = used \ {i}

(* _ResetOrWarnAll with its reset: the binds are deleted or promoted by one *)
(* transaction and then in memory, the next reset is scheduled, and its     *)
(* time is written apart.  What is done with the queue is left to the       *)
(* caller, which goes on from q.                                            *)
ResetAll(m, t) ==
  LET nextReset == GetSubsequentResetTime(m, t) IN
  /\ Queue(<<[op |-> "expire", map |-> m], [op |-> "schedule", map |-> m, time |-> nextReset]>>)
  /\ saves' = [i \in Id |-> IF Loaded(i) /\ saves[i].map = m THEN ResetSave(saves[i]) ELSE saves[i]]
  /\ resetTime' = [resetTime EXCEPT ![m] = nextReset]

(* The queue after that reset, which schedules the first warning of the next. *)
AfterReset(q, m, t) == Scheduled(q, GetSubsequentResetTime(m, t) - Hour, 1, m, NoId)

Due == up /\ queue # <<>> /\ queue[1].at < now

(* One round of Update: the event is handled, and the first event of the   *)
(* queue is erased.                                                        *)
UpdateAlone ==
  /\ Due /\ queue[1].type = 0
  /\ ResetInstance(queue[1].id)
  /\ queue' = Tail(queue)
  /\ UNCHANGED <<now, up, resetTime, inside, tableVars, forced>>

(* Fault: the next event is scheduled with the delay of the last one. *)
WarnAgain ==
  /\ Due /\ queue[1].type \in 1 .. 3
  /\ LET e == queue[1]
     IN  queue' = Tail(Scheduled(queue, resetTime[e.map] - ResetTimeDelay[e.type],
                                 e.type + 1, e.map, e.id))
  /\ UNCHANGED <<now, up, resetTime, saves, inside, used, tableVars, pending, forced>>

UpdateWarn ==
  /\ Due /\ queue[1].type \in 1 .. 3
  /\ LET e == [queue[1] EXCEPT !.type = @ + 1]
         q == [queue EXCEPT ![1] = e]
     IN  queue' = Tail(Scheduled(q, resetTime[e.map] - ResetTimeDelay[e.type], e.type, e.map, e.id))
  /\ UNCHANGED <<now, up, resetTime, saves, inside, used, tableVars, pending, forced>>

UpdateReset ==
  /\ Due /\ queue[1].type = 4
  /\ LET m == queue[1].map IN
       /\ ResetAll(m, resetTime[m])
       /\ queue' = Tail(AfterReset(queue, m, resetTime[m]))
  /\ UNCHANGED <<now, up, inside, used, tableVars, forced>>

(* ForceGlobalReset, by a command of a game master: two events whose       *)
(* instance id is that of a whole map are removed, whatever their map, and *)
(* the map is reset now.                                                   *)
ForceGlobalReset(m) ==
  /\ up /\ ~forced
  /\ forced' = TRUE
  /\ LET q == Unscheduled(Unscheduled(queue, 0, NoId), 0, NoId) IN
       IF m \in Global
       THEN ResetAll(m, now) /\ queue' = AfterReset(q, m, now)
       ELSE queue' = q /\ UNCHANGED <<pending, saves, resetTime>>
  /\ UNCHANGED <<now, up, inside, used, tableVars>>

-----------------------------------------------------------------------------
(* The database worker, the clock, and the process. *)

(* The row of an instance after a write; "expire" is the transaction of    *)
(* _ResetOrWarnAll, whose four statements delete or promote the binds.      *)
RowAfter(w, i, row) ==
  CASE w.op = "insert" /\ w.id = i -> w.row
    [] w.op = "delete" /\ w.id = i -> NoRow
    [] w.op = "time" /\ w.id = i /\ row # NoRow -> [row EXCEPT !.resetTime = w.time]
    [] w.op = "bind" /\ w.id = i /\ row # NoRow -> [row EXCEPT !.bind = w.bind, !.limit = w.limit]
    [] w.op = "expire" /\ row # NoRow /\ row.map = w.map ->
         IF row.bind > Expired THEN [row EXCEPT !.bind = @ - 1] ELSE NoRow
    [] OTHER -> row

Store ==
  /\ pending # <<>>
  /\ LET w == Head(pending) IN
       /\ rows' = [i \in Id |-> RowAfter(w, i, rows[i])]
       /\ resetRow' = IF w.op = "schedule" THEN [resetRow EXCEPT ![w.map] = w.time] ELSE resetRow
  /\ pending' = Tail(pending)
  /\ UNCHANGED <<now, up, memoryVars, forced>>

Tick ==
  /\ now < LastTime
  /\ now' = now + 1
  /\ UNCHANGED <<up, memoryVars, tableVars, pending, forced>>

(* The process ends, and with it what is in memory: it crashed, or it was  *)
(* shut down after Logout of its players and Unload of the other saves.     *)
Stop ==
  /\ up /\ up' = FALSE
  /\ resetTime' = [m \in Global |-> 0] /\ queue' = <<>>
  /\ saves' = [i \in Id |-> NoSave] /\ inside' = {} /\ used' = {}
  /\ pending' = <<>>
  /\ UNCHANGED <<now, tableVars, forced>>

(* Fault: the instances whose reset was missed are kept. *)
KeptUnlessOld(i) ==
  LET row == rows[i] IN row # NoRow /\ ~(row.resetTime > 0 /\ row.resetTime < now)

(* LoadInstances keeps the instances whose reset time, and whose map's, is *)
(* not past.                                                               *)
Kept(i) ==
  LET row == rows[i] IN
  /\ row # NoRow
  /\ ~(row.resetTime > 0 /\ row.resetTime < now)
  /\ row.map \in Global => resetRow[row.map] = 0 \/ resetRow[row.map] >= now

(* The type of the first event of a map: the first warning still ahead, or the reset. *)
FirstType(reset) ==
  CHOOSE type \in 1 .. 4 :
    /\ type = 4 \/ reset - ResetTimeDelay[type] > now
    /\ \A earlier \in 1 .. type - 1 : reset - ResetTimeDelay[earlier] <= now

(* The events of LoadResetTimes: one of each instance with a reset time of *)
(* its own, one of each global map, and one more of that map for each of    *)
(* its instances with a reset time.                                         *)
LoadedEvents(table, reset) ==
  LET timed == {i \in Id : table[i] # NoRow /\ table[i].resetTime > 0}
      ofMap(m, i) == [at |-> reset[m] - ResetTimeDelay[FirstType(reset[m])],
                      type |-> FirstType(reset[m]), map |-> m, id |-> i]
  IN  {[at |-> table[i].resetTime, type |-> 0, map |-> table[i].map, id |-> i] :
         i \in {j \in timed : table[j].resetTime > now}}
      \cup {ofMap(m, NoId) : m \in Global}
      \cup {ofMap(table[i].map, i) : i \in {j \in timed : table[j].map \in Global}}

(* LoadInstances at startup; a creature that respawned just now may have    *)
(* moved the reset time of an instance that has one.                        *)
Start ==
  /\ ~up /\ up' = TRUE
  /\ \E respawned \in SUBSET {i \in Id : Kept(i) /\ rows[i].resetTime > 0} :
       rows' = [i \in Id |->
                  IF i \in respawned THEN [rows[i] EXCEPT !.resetTime = now + 2 * Hour]
                  ELSE IF Kept(i) THEN rows[i] ELSE NoRow]
  /\ resetTime' = [m \in Global |-> LoadedResetTime(m)]
  /\ resetRow' = resetTime'
  /\ \E q \in SetToSeqs(LoadedEvents(rows', resetTime')) :
       /\ \A k, l \in DOMAIN q : k < l => q[k].at <= q[l].at
       /\ queue' = q
  /\ used' = {i \in Id : Kept(i)}
  /\ UNCHANGED <<now, saves, inside, pending, forced>>

Players ==
  \E i \in Id :
    \/ \E m \in Map : NewInstance(i, m)
    \/ Enter(i) \/ Leave(i) \/ SetResetTime(i) \/ PermBind(i) \/ Extend(i) \/ Login(i) \/ Logout(i)

Update == UpdateAlone \/ UpdateWarn \/ UpdateReset

Next ==
  \/ Players \/ Update \/ \E m \in Map : ForceGlobalReset(m)
  \/ Store \/ Tick \/ Stop \/ Start

Spec == Init /\ [][Next]_vars

-----------------------------------------------------------------------------
(***************************************************************************)
(* "resetTime is a global property of each (raid/heroic) map all instances *)
(* of that map reset at the same time": while the server runs, exactly one *)
(* event is scheduled for each raid or heroic map, as long before the      *)
(* map's reset time as its type says, whatever restarts and late updates   *)
(* came before, unless a reset was forced.  (A global map whose instances  *)
(* have a time in the table has an event for each of them after a restart.) *)
(***************************************************************************)
ResetsAreScheduled ==
  up /\ ~forced =>
    \A m \in RaidOrHeroic :
      LET events == {k \in DOMAIN queue : queue[k].map = m} IN
      /\ Cardinality(events) = 1
      /\ \A k \in events : /\ queue[k].id = NoId /\ queue[k].type # 0
                           /\ queue[k].at = resetTime[m] - ResetTimeDelay[queue[k].type]

(***************************************************************************)
(* An instance that is reset alone is never scheduled for a reset while a  *)
(* player is inside, and always while nobody is, at its own reset time.    *)
(***************************************************************************)
EmptyInstancesAreScheduled ==
  \A i \in Id :
    LET events == {k \in DOMAIN queue : queue[k].id = i /\ queue[k].type = 0} IN
    IsAlone(i) => IF i \in inside THEN events = {}
                  ELSE saves[i].resetTime > now =>
                         /\ Cardinality(events) = 1
                         /\ \A k \in events : queue[k].at = saves[i].resetTime

(***************************************************************************)
(* "actual promotion in DB already happened in caller": once the writes    *)
(* are executed, the reset times in memory are those of the tables, and    *)
(* the save and bind of a character online are those of his row, so that a *)
(* restart changes no lockout.                                             *)
(***************************************************************************)
MemoryMatchesTables ==
  up /\ pending = <<>> =>
    /\ resetRow = resetTime
    /\ \A i \in Id : Loaded(i) /\ (IsAlone(i) \/ saves[i].map \in RaidOrHeroic) =>
         /\ rows[i] # NoRow
         /\ rows[i].map = saves[i].map /\ rows[i].bind = saves[i].bind

(***************************************************************************)
(* No lockout outlives its last reset: when Update has nothing to do and   *)
(* its writes are executed, no row of a global map is older than the reset *)
(* that should have deleted it, whatever restarts, lost writes and         *)
(* extensions came between.                                                *)
(***************************************************************************)
LockoutsExpire ==
  up /\ ~Due /\ ~forced /\ pending = <<>> =>
    \A i \in Id : rows[i] # NoRow /\ rows[i].map \in Global => now <= rows[i].limit
=============================================================================
