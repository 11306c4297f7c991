---------------------------- MODULE WorldSessions ----------------------------
(***************************************************************************)
(* The sessions of the world server: their way from the network thread     *)
(* into m_sessions, the queue in front of a full server, and their end.    *)
(*   src/src/server/game/World/World.cpp, Server/WorldSession.cpp          *)
(*                                                                         *)
(* The world thread runs UpdateSessions once per tick: it first takes the  *)
(* new sessions out of addSessQueue and then updates the live ones; the    *)
(* network threads add sessions and close sockets, and the database        *)
(* threads answer the queries of InitializeSession, between any two steps. *)
(* A session object is a member of Session and never used again; which     *)
(* account it belongs to is fixed.                                         *)
(***************************************************************************)
EXTENDS Integers, Sequences, SequencesExt

CONSTANTS Session, Account, AccountOf,
          SkipQueue,       \* accounts with RBAC_PERM_SKIP_QUEUE
          Limits,          \* the values of m_playerLimit, the first of which is
          InitialLimit,    \*   set by the configuration
          Tolerance,       \* CONFIG_INTERVAL_DISCONNECT_TOLERANCE, in ticks
          ExpireTime,      \* how long a player outlives its socket, in ticks
          MaxTime,         \* bound: the clock stops there
          NoSession, Never

ASSUME SessionAssumption ==
  /\ AccountOf \in [Session -> Account] /\ SkipQueue \subseteq Account
  /\ NoSession \notin Session
ASSUME NumbersAssumption ==
  /\ Limits \subseteq Nat /\ InitialLimit \in Limits
  /\ {Tolerance, ExpireTime, MaxTime} \subseteq Nat /\ Never \notin Nat

VARIABLES
  addSessQueue,    \* sessions handed over by the network threads
  sessions,        \* m_sessions
  queued,          \* m_QueuedPlayer
  limit,           \* m_playerLimit
  disconnects,     \* m_disconnects
  time,
  phase, todo,     \* where the world thread is, and whom it still has to update
  running,         \* FALSE once KickAll was called
  made, deleted,   \* the session objects that were created, and that were deleted
  open,            \* the socket of the session is open
  inQueue,         \* m_inQueue
  forceExit, expire,
  init,            \* InitializeSession: not called, waiting for the database, answered, done
  player           \* no player, m_playerLoading, a login query without it, or in the world

perSession == <<made, deleted, open, inQueue, forceExit, expire, init, player>>
vars == <<addSessQueue, sessions, queued, limit, disconnects, time, phase, todo, running, perSession>>

(* A deleted object has no fields any more: they go back to their initial values. *)
Freed(f, dead, v) == [s \in Session |-> IF s \in dead THEN v ELSE f[s]]

Live == {sessions[a] : a \in Account} \ {NoSession}
QueuedSet == ToSet(queued)
Active == Live \ QueuedSet

TypeOK ==
  /\ addSessQueue \in Seq(Session) /\ queued \in Seq(Session)
  /\ sessions \in [Account -> Session \cup {NoSession}]
  /\ limit \in Limits /\ time \in 0 .. MaxTime
  /\ disconnects \in [Account -> 0 .. MaxTime \cup {Never}]
  /\ phase \in {"add", "update", "stopped"} /\ todo \subseteq Session /\ running \in BOOLEAN
  /\ made \subseteq Session /\ deleted \subseteq made
  /\ open \in [Session -> BOOLEAN] /\ inQueue \in [Session -> BOOLEAN]
  /\ forceExit \in [Session -> BOOLEAN] /\ expire \in [Session -> 0 .. ExpireTime]
  /\ init \in [Session -> {"no", "waiting", "ready", "done"}]
  /\ player \in [Session -> {"none", "loading", "unmarked", "world"}]

Init ==
  /\ addSessQueue = <<>> /\ queued = <<>>
  /\ sessions = [a \in Account |-> NoSession]
  /\ limit = InitialLimit /\ time = 0
  /\ disconnects = [a \in Account |-> Never]
  /\ phase = "add" /\ todo = {} /\ running = TRUE
  /\ made = {} /\ deleted = {}
  /\ open = [s \in Session |-> TRUE] /\ inQueue = [s \in Session |-> FALSE]
  /\ forceExit = [s \in Session |-> FALSE] /\ expire = [s \in Session |-> ExpireTime]
  /\ init = [s \in Session |-> "no"] /\ player = [s \in Session |-> "none"]

-----------------------------------------------------------------------------
(* World::AddSession, called by the network thread that authenticated s.   *)
AddSession(s) ==
  /\ s \notin made
  /\ made' = made \cup {s}
  /\ addSessQueue' = Append(addSessQueue, s)
  /\ UNCHANGED <<sessions, queued, limit, disconnects, time, phase, todo, running,
                 deleted, open, inQueue, forceExit, expire, init, player>>

(* A socket is closed: by its client, by an error, or because nothing was  *)
(* received for too long (IsConnectionIdle).                               *)
CloseSocket(s) ==
  /\ s \in made \ deleted /\ open[s]
  /\ open' = [open EXCEPT ![s] = FALSE]
  /\ UNCHANGED <<addSessQueue, sessions, queued, limit, disconnects, time, phase, todo, running,
                 made, deleted, inQueue, forceExit, expire, init, player>>

(* Both query holders of InitializeSession were executed. *)
Answer(s) ==
  /\ init[s] = "waiting"
  /\ init' = [init EXCEPT ![s] = "ready"]
  /\ UNCHANGED <<addSessQueue, sessions, queued, limit, disconnects, time, phase, todo, running,
                 made, deleted, open, inQueue, forceExit, expire, player>>

Tick ==
  /\ time < MaxTime
  /\ time' = time + 1
  /\ UNCHANGED <<addSessQueue, sessions, queued, limit, disconnects, phase, todo, running, perSession>>

-----------------------------------------------------------------------------
(* GetActiveSessionCount, with n sessions of which those of q are queued. *)
ActiveCount(n, q) == n - Len(q)

(* Fault: the newest session is admitted. *)
RemoveQueuedPlayerNewest(s, n, q) ==
  LET found == s \in ToSet(q)
      rest == RemoveFirst(q, s)
      count == IF found \/ ActiveCount(n, q) = 0 THEN ActiveCount(n, q) ELSE ActiveCount(n, q) - 1
      pops == rest # <<>> /\ (limit = 0 \/ count < limit)
  IN  [found |-> found,
       queued |-> IF pops THEN Front(rest) ELSE rest,
       popped |-> IF pops THEN {Last(rest)} ELSE {}]

(* Fault: when somebody leaves, the next one is admitted, full or not. *)
RemoveQueuedPlayerAlways(s, n, q) ==
  LET rest == RemoveFirst(q, s)
  IN  [found |-> s \in ToSet(q),
       queued |-> IF rest # <<>> THEN Tail(rest) ELSE rest,
       popped |-> IF rest # <<>> THEN {Head(rest)} ELSE {}]

(* RemoveQueuedPlayer(s): s leaves the queue, and if there is room then the *)
(* first of the rest leaves it too and is initialized.  A session that was  *)
(* not queued is one that is about to free its place.                       *)
RemoveQueuedPlayer(s, n, q) ==
  LET found == s \in ToSet(q)
      rest == RemoveFirst(q, s)
      count == IF found \/ ActiveCount(n, q) = 0 THEN ActiveCount(n, q) ELSE ActiveCount(n, q) - 1
      pops == rest # <<>> /\ (limit = 0 \/ count < limit)
  IN  [found |-> found,
       queued |-> IF pops THEN Tail(rest) ELSE rest,
       popped |-> IF pops THEN {Head(rest)} ELSE {}]

Initialized(popped) == [s \in Session |-> IF s \in popped THEN "waiting" ELSE init[s]]

(* HasRecentlyDisconnected: difftime(i->second, time(nullptr)) < tolerance. *)
HasRecentlyDisconnected(a) ==
  Tolerance > 0 /\ disconnects[a] # Never /\ disconnects[a] - time < Tolerance

-----------------------------------------------------------------------------
PlayerLoading(old) == old \in {s \in Session : player[s] = "loading"}

(* AddSession_(s) while a player of the account is loading: s is deleted. *)
RefuseSession ==
  /\ phase = "add" /\ addSessQueue # <<>>
  /\ LET s == Head(addSessQueue)
     IN  /\ PlayerLoading(sessions[AccountOf[s]])
         /\ deleted' = deleted \cup {s}
         /\ open' = Freed(open, {s}, TRUE)
  /\ addSessQueue' = Tail(addSessQueue)
  /\ UNCHANGED <<sessions, queued, limit, disconnects, time, phase, todo, running,
                 made, inQueue, forceExit, expire, init, player>>

(* Fault: what m_sessions held before is queued instead of the new session. *)
AdmitSessionQueuesOld ==
  /\ phase = "add" /\ addSessQueue # <<>>
  /\ LET s == Head(addSessQueue)
         old == sessions[AccountOf[s]]
         full == limit > 0 /\ Cardinality(Live) >= limit
     IN  /\ ~PlayerLoading(old)
         /\ sessions' = [sessions EXCEPT ![AccountOf[s]] = s]
         /\ deleted' = deleted \cup ({old} \ {NoSession})
         /\ queued' = IF full THEN Append(queued, old) ELSE queued
         /\ init' = IF full THEN init ELSE [init EXCEPT ![s] = "waiting"]
  /\ addSessQueue' = Tail(addSessQueue)
  /\ UNCHANGED <<limit, disconnects, time, phase, todo, running,
                 made, open, inQueue, forceExit, expire, player>>

(* Otherwise s replaces the session its account has, which is kicked, taken *)
(* out of the queue and deleted, its player logged out by the destructor; s *)
(* is queued if the server is full.                                         *)
AdmitSession ==
  /\ phase = "add" /\ addSessQueue # <<>>
  /\ LET s == Head(addSessQueue)
         a == AccountOf[s]
         old == sessions[a]
         n == Cardinality(Live)
         removed == IF old = NoSession
                    THEN [found |-> FALSE, queued |-> queued, popped |-> {}]
                    ELSE RemoveQueuedPlayer(old, n, queued)
         all == IF old = NoSession THEN n + 1 ELSE n
         others == IF removed.found THEN all ELSE all - 1
         waits == limit > 0 /\ others >= limit /\ a \notin SkipQueue /\ ~HasRecentlyDisconnected(a)
     IN  /\ ~PlayerLoading(old)
         /\ sessions' = [sessions EXCEPT ![a] = s]
         /\ deleted' = deleted \cup ({old} \ {NoSession})
         /\ queued' = IF waits THEN Append(removed.queued, s) ELSE removed.queued
         /\ inQueue' = [Freed(inQueue, {old}, FALSE) EXCEPT ![s] = waits]
         /\ init' = Freed(Initialized(removed.popped \cup IF waits THEN {} ELSE {s}), {old}, "no")
         /\ open' = Freed(open, {old}, TRUE)
         /\ forceExit' = Freed(forceExit, {old}, FALSE)
         /\ expire' = Freed(expire, {old}, ExpireTime)
         /\ player' = Freed(player, {old}, "none")
  /\ addSessQueue' = Tail(addSessQueue)
  /\ UNCHANGED <<limit, disconnects, time, phase, todo, running, made>>

(* Nothing is left in addSessQueue: the loop over m_sessions begins. *)
BeginUpdates ==
  /\ phase = "add" /\ addSessQueue = <<>>
  /\ phase' = "update" /\ todo' = Live
  /\ UNCHANGED <<addSessQueue, sessions, queued, limit, disconnects, time, running, perSession>>

-----------------------------------------------------------------------------
(* What the packets and the login callback make of the player.  A queued   *)
(* session's CMSG_PLAYER_LOGIN is ignored; CMSG_LOADING_SCREEN_NOTIFY may  *)
(* clear m_playerLoading while the login query is on its way (the handlers *)
(* are those of CharacterHandler.cpp:869-951).                             *)
PlayerStep(s) ==
  CASE player[s] = "none" -> IF inQueue[s] THEN {"none"} ELSE {"none", "loading"}
    [] player[s] = "loading" -> {"none", "loading", "unmarked", "world"}
    [] player[s] = "unmarked" -> {"none", "loading", "unmarked", "world"}
    [] player[s] = "world" -> {"none", "world"}

(* The callback of InitializeSession runs in the session's own Update. *)
Callback(s) ==
  IF init[s] = "ready"
  THEN /\ init' = [init EXCEPT ![s] = "done"]
       /\ inQueue' = [inQueue EXCEPT ![s] = FALSE]
  ELSE UNCHANGED <<init, inQueue>>

(* expireTime after an Update, and whether it gives the sockets up. *)
ExpireAfter(s) == IF open[s] \/ expire[s] = 0 THEN expire[s] ELSE expire[s] - 1

(* Fault: a session with a player waits for the client to come back. *)
GivesUpUnlessPlaying(s, p) == ~open[s] /\ (forceExit[s] \/ p # "world")

GivesUp(s, p) == ~open[s] /\ (ExpireAfter(s) = 0 \/ forceExit[s] \/ p # "world")

(* Update returns TRUE: the session stays. *)
KeepSession(s) ==
  /\ phase = "update" /\ s \in todo
  /\ \E p \in PlayerStep(s) :
       /\ ~GivesUp(s, p)
       /\ player' = [player EXCEPT ![s] = p]
  /\ Callback(s)
  /\ expire' = [expire EXCEPT ![s] = ExpireAfter(s)]
  /\ todo' = todo \ {s}
  /\ UNCHANGED <<addSessQueue, sessions, queued, limit, disconnects, time, phase, running,
                 made, deleted, open, forceExit>>

(* Update returns FALSE: the session is taken out of the queue, twice,     *)
(* the second time to no effect on itself, and out of m_sessions, and is   *)
(* deleted.  Its destructor logs the player out.                           *)
DropSession(s) ==
  /\ phase = "update" /\ s \in todo
  /\ \E p \in PlayerStep(s) : GivesUp(s, p)
  /\ LET n == Cardinality(Live)
         first == RemoveQueuedPlayer(s, n, queued)
         second == RemoveQueuedPlayer(s, n, first.queued)
         a == AccountOf[s]
     IN  /\ queued' = second.queued
         /\ init' = Freed(Initialized(first.popped \cup second.popped), {s}, "no")
         /\ disconnects' = IF ~first.found /\ Tolerance > 0
                           THEN [disconnects EXCEPT ![a] = time] ELSE disconnects
         /\ sessions' = [sessions EXCEPT ![a] = NoSession]
  /\ deleted' = deleted \cup {s}
  /\ inQueue' = Freed(inQueue, {s}, FALSE)
  /\ open' = Freed(open, {s}, TRUE)
  /\ forceExit' = Freed(forceExit, {s}, FALSE)
  /\ expire' = Freed(expire, {s}, ExpireTime)
  /\ player' = Freed(player, {s}, "none")
  /\ todo' = todo \ {s}
  /\ UNCHANGED <<addSessQueue, limit, time, phase, running, made>>

EndUpdates ==
  /\ phase = "update" /\ todo = {}
  /\ phase' = IF running THEN "add" ELSE "stopped"
  /\ UNCHANGED <<addSessQueue, sessions, queued, limit, disconnects, time, todo, running, perSession>>

-----------------------------------------------------------------------------
(* Commands run in the Update of a session or after all of them.           *)
(* World::RemoveSession and the commands that kick: KickPlayer.            *)
Kick(s) ==
  /\ phase = "update" /\ s \in Live
  /\ ~forceExit[s]
  /\ open' = [open EXCEPT ![s] = FALSE]
  /\ forceExit' = [forceExit EXCEPT ![s] = TRUE]
  /\ UNCHANGED <<addSessQueue, sessions, queued, limit, disconnects, time, phase, todo, running,
                 made, deleted, inQueue, expire, init, player>>

(* The command .server plimit. *)
SetPlayerAmountLimit(l) ==
  /\ phase = "update" /\ l # limit
  /\ limit' = l
  /\ UNCHANGED <<addSessQueue, sessions, queued, disconnects, time, phase, todo, running, perSession>>

(* The end of the world loop: KickAll, and then UpdateSessions once more. *)
KickAll ==
  /\ phase = "update" /\ todo = {} /\ running
  /\ queued' = <<>>
  /\ open' = [s \in Session |-> open[s] /\ s \notin Live]
  /\ forceExit' = [s \in Session |-> forceExit[s] \/ s \in Live]
  /\ running' = FALSE /\ phase' = "add"
  /\ UNCHANGED <<addSessQueue, sessions, limit, disconnects, time, todo,
                 made, deleted, inQueue, expire, init, player>>

WorldStep ==
  RefuseSession \/ AdmitSession \/ BeginUpdates \/ EndUpdates
  \/ \E s \in Session : KeepSession(s) \/ DropSession(s)

Next ==
  \/ WorldStep \/ KickAll \/ Tick
  \/ \E s \in Session : AddSession(s) \/ CloseSocket(s) \/ Answer(s) \/ Kick(s)
  \/ \E l \in Limits : SetPlayerAmountLimit(l)

(* The world thread goes on ticking, and the database threads answer. *)
Spec == Init /\ [][Next]_vars /\ WF_vars(WorldStep) /\ \A s \in Session : WF_vars(Answer(s))

-----------------------------------------------------------------------------
(* No session object leaks, and none is deleted while a container points to *)
(* it: who was added and not deleted waits in addSessQueue or is in         *)
(* m_sessions, under its account, and m_QueuedPlayer holds sessions of      *)
(* m_sessions, none of them twice, whatever is kicked, replaced or dropped. *)
PointersAreLive ==
  /\ IsInjective(queued) /\ QueuedSet \subseteq Live
  /\ \A s \in made \ deleted : s \in Live \/ s \in ToSet(addSessQueue)
  /\ (Live \cup ToSet(addSessQueue)) \cap deleted = {}
  /\ \A a \in Account : sessions[a] # NoSession => AccountOf[sessions[a]] = a

(* PlayerLimit "Maximum number of players in the world. Excluding Mods, GMs *)
(* and Admins": no more are in, and nobody waits while there is room, as    *)
(* long as the limit is not changed, whatever leaves the middle of the      *)
(* queue and however often RemoveQueuedPlayer is called for one session.    *)
LimitHolds ==
  /\ limit > 0 =>
       Cardinality({s \in Live : init[s] # "no" /\ AccountOf[s] \notin SkipQueue}) <= limit
  /\ queued # <<>> => limit > 0 /\ Cardinality(Active) >= limit

(* Sessions are admitted in the order in which they were queued: who leaves *)
(* the queue and stays has nobody in front that stays in the queue, and the *)
(* queue is never reordered.                                                *)
AdmittedInOrder ==
  [][\A i, j \in 1 .. Len(queued) : i < j /\ queued[i] \in QueuedSet' =>
       \/ queued[j] \notin Live'
       \/ \E k, l \in 1 .. Len(queued') : k < l /\ queued'[k] = queued[i] /\ queued'[l] = queued[j]]_vars

(* A session whose socket is closed is deleted, also from within the queue, *)
(* and one that need not wait any longer gets its answer.                   *)
SessionsGoOn ==
  \A s \in Session :
    /\ s \in made /\ ~open[s] ~> s \in deleted \/ phase = "stopped"
    /\ s \in Active ~> s \in QueuedSet \/ init[s] = "done" \/ s \in deleted \/ phase = "stopped"
=============================================================================
