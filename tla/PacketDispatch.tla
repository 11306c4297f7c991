---------------------------- MODULE PacketDispatch ----------------------------
(***************************************************************************)
(* The packets of one session and the transfers of its player between maps *)
(*   src/src/server/game/Server/WorldSession.cpp, Handlers/MovementHandler.cpp, *)
(*   Entities/Player/Player.cpp (TeleportTo)                               *)
(*                                                                         *)
(* The network threads put packets into _recvQueue at any time.  They are  *)
(* taken out by WorldSession::Update, which runs once per tick in the      *)
(* world thread and, when the player is in the world, once more in the map *)
(* thread; the filter of each stops at the first packet that is not for    *)
(* it.  A player who leaves for another map is out of the world until the  *)
(* client has answered two messages, and its answers wait in that queue.   *)
(*                                                                         *)
(* The client is one that follows the protocol, over one connection that   *)
(* keeps the order in both directions; how long its messages travel is how *)
(* long they stay in session.out.                                          *)
(***************************************************************************)
EXTENDS Naturals, Sequences, FiniteSets

CONSTANTS Character, NoOne,
          Map, Home,       \* maps, and the one of the homebind
          Dungeon,         \* maps that may refuse a player who arrives
          Cosmetic,        \* pairs of maps between which a teleport may be seamless
          MaxProcessed,    \* MAX_PROCESSED_PACKETS_IN_SAME_WORLDSESSION_UPDATE
          MaxPackets,      \* bounds: packets the client sends of its own accord,
          MaxLogins,       \*   how often it logs in,
          MaxTeleports     \*   and teleports

ASSUME PacketAssumption ==
  /\ NoOne \notin Character
  /\ Home \in Map \ Dungeon /\ Dungeon \subseteq Map
  /\ {MaxProcessed, MaxPackets, MaxLogins, MaxTeleports} \subseteq Nat

VARIABLES
  queue,       \* _recvQueue
  requeue,     \* requeuePackets, local to Update
  taken,       \* processedPackets
  stage,       \* what the server does: UpdateSessions or this session's update in it, then
               \*   the maps or this session's update in its map
  session,     \* the WorldSession and its Player
  client,      \* what the client does: the character list, or a character, on the loading screen
               \*   or beyond it
  sent,        \* packets for a player in the world that were sent
  handled,     \* of those, the last that is done with
  givenUp,     \* characters whose login was given up
  budget       \* what is left of the bounds

serverVars == <<requeue, taken, stage, session, handled, givenUp>>
vars == <<queue, client, sent, budget, serverVars>>

-----------------------------------------------------------------------------
(* The opcode table: one opcode for each Status and ProcessingPlace that    *)
(* the dispatch tells apart, and those whose handler changes this state.    *)
LoggedIn == {"cast", "attack", "landed", "logout"}
Transfer == {"suspended", "ported"}
Authed == {"enum", "login", "screen"}
Opcode == LoggedIn \cup Transfer \cup Authed

Place(op) ==
  CASE op = "attack" -> "inplace"
    [] op \in {"cast", "landed"} -> "threadsafe"
    [] OTHER -> "threadunsafe"

Packet == [op : Opcode, n : Nat, character : Character \cup {NoOne}]
Message == {"list", "failed", "entered", "teleport", "suspend", "newworld", "loggedout"}

Session == [player : Character \cup {NoOne}, inWorld : BOOLEAN, map : Map,
            far : {"no", "normal", "seamless"}, dest : Map, near : BOOLEAN,
            loading : Character \cup {NoOne},    \* m_playerLoading
            connect : BOOLEAN,                   \* the client is to open the instance socket
            query : Character \cup {NoOne},      \* whose rows _charLoginCallback waits for
            recent : BOOLEAN, asked : BOOLEAN,
            socket : {"open", "closed", "kicked", "gone"}, out : Seq(Message)]

TypeOK ==
  /\ queue \in Seq(Packet) /\ requeue \in Seq(Packet)
  /\ taken \in 0 .. MaxProcessed + 1
  /\ stage \in {"sessions", "world", "maps", "map"}
  /\ session \in Session
  /\ client \in [at : {"start", "waiting", "list", "loading", "world"}, as : Character \cup {NoOne}]
  /\ sent \in Nat /\ handled \in Nat /\ givenUp \subseteq Character
  /\ budget \in [packets : 0 .. MaxPackets, logins : 0 .. MaxLogins, teleports : 0 .. MaxTeleports]

NoPlayer(s) == [s EXCEPT !.player = NoOne, !.inWorld = FALSE, !.map = Home,
                         !.far = "no", !.dest = Home, !.near = FALSE]

Init ==
  /\ queue = <<>> /\ requeue = <<>> /\ taken = 0 /\ stage = "sessions"
  /\ session = [player |-> NoOne, inWorld |-> FALSE, map |-> Home,
                far |-> "no", dest |-> Home, near |-> FALSE,
                loading |-> NoOne, connect |-> FALSE, query |-> NoOne, recent |-> FALSE, asked |-> FALSE,
                socket |-> "open", out |-> <<>>]
  /\ client = [at |-> "start", as |-> NoOne] /\ sent = 0 /\ handled = 0 /\ givenUp = {}
  /\ budget = [packets |-> MaxPackets, logins |-> MaxLogins, teleports |-> MaxTeleports]

Waiting == requeue \o queue

-----------------------------------------------------------------------------
(* What the handlers do to the session.                                    *)

Sending(s, m) == [s EXCEPT !.out = Append(@, m)]

(* KickPlayer *)
Kicked(s) == [s EXCEPT !.socket = "kicked"]

(* Player::TeleportTo, when nothing forbids it. *)
Teleported(s, m, option) ==
  IF m = s.map
    THEN Sending([s EXCEPT !.far = "no", !.dest = m, !.near = TRUE], "teleport")
    ELSE Sending([s EXCEPT !.near = FALSE, !.inWorld = FALSE, !.dest = m,
                           !.far = IF s.inWorld /\ <<s.map, m>> \in Cosmetic THEN option ELSE "normal"],
                 "suspend")

(* Fault: the semaphore is taken down after the player was sent home. *)
PortedLate(s) ==
  {[s EXCEPT !.far = "no", !.map = s.dest, !.inWorld = TRUE]}
    \cup {[Teleported(s, Home, "normal") EXCEPT !.far = "no"] : d \in Dungeon \cap {s.dest}}

(* HandleMoveWorldportAck of a player who is being teleported far.  If the  *)
(* map is full, has a fight going on or does not take the player's bind by  *)
(* now then the player is sent home, from the map it came from.             *)
Ported(s) ==
  {[s EXCEPT !.far = "no", !.map = s.dest, !.inWorld = TRUE]}
    \cup {Teleported([s EXCEPT !.far = "no"], Home, "normal") : d \in Dungeon \cap {s.dest}}

(* The first loop of LogoutPlayer; the second map cannot refuse. *)
Landed(s) ==
  IF s.far = "no" THEN {s}
  ELSE UNION {IF t.far = "no" THEN {t} ELSE Ported(t) : t \in Ported(s)}

(* Fault: the session does not remember that somebody has just logged out. *)
LoggedOutForgotten(s) ==
  {Sending([NoPlayer(t) EXCEPT !.asked = FALSE], "loggedout") : t \in Landed(s)}

(* LogoutPlayer, with a player *)
LoggedOut(s) ==
  {Sending([NoPlayer(t) EXCEPT !.asked = FALSE, !.recent = TRUE], "loggedout") : t \in Landed(s)}

(* HandlePlayerLogin, once the queries were executed.  The character may be *)
(* refused by the data base, or by the dungeon it was saved in.             *)
Entered(s) ==
  LET t == [s EXCEPT !.query = NoOne, !.player = s.query]
  IN  {Kicked([s EXCEPT !.query = NoOne, !.loading = NoOne])}
        \cup {Sending([t EXCEPT !.map = m, !.inWorld = TRUE], "entered") : m \in Map}
        \cup {Teleported(Sending([t EXCEPT !.map = m], "entered"), Home, "normal") : m \in Dungeon}

(* HandlePlayerLoginOpcode *)
LoginAsked(s, c) ==
  IF s.loading # NoOne \/ s.player # NoOne THEN Kicked(s) ELSE [s EXCEPT !.loading = c, !.connect = TRUE]

(* HandleLogoutRequestOpcode refuses it, which also calls off an earlier    *)
(* one, as HandleLogoutCancelOpcode does; or logs out at once, or later.    *)
LogoutAsked(s) == {[s EXCEPT !.asked = a] : a \in BOOLEAN} \cup LoggedOut(s)

Suspended(s) ==
  CASE s.far = "no" -> {s}
    [] s.far = "normal" -> {Sending(s, "newworld")}
    [] s.far = "seamless" -> Ported(s)

(* opHandle->Call *)
Handled(p, s) ==
  CASE p.op \in {"cast", "attack"} -> {s}
    [] p.op = "landed" -> {[s EXCEPT !.near = FALSE]}
    [] p.op = "logout" -> LogoutAsked(s)
    [] p.op = "suspended" -> Suspended(s)
    [] p.op = "ported" -> IF s.far = "no" THEN {s} ELSE Ported(s)
    [] p.op = "enum" -> {Sending([s EXCEPT !.recent = FALSE], "list")}
    [] p.op = "login" -> {LoginAsked(s, p.character)}
    [] p.op = "screen" -> {[s EXCEPT !.loading = NoOne]}

-----------------------------------------------------------------------------
(* The network threads. *)

(* WorldSession::QueuePacket *)
Queued(op, c) == Append(queue, [op |-> op, n |-> IF op \in LoggedIn THEN sent + 1 ELSE 0, character |-> c])

Sends(op, c) ==
  /\ queue' = Queued(op, c)
  /\ sent' = IF op \in LoggedIn THEN sent + 1 ELSE sent

(* What the client does of its own accord. *)
ClientLists ==
  /\ session.socket = "open" /\ client.at = "start"
  /\ Sends("enum", NoOne)
  /\ client' = [client EXCEPT !.at = "waiting"]
  /\ UNCHANGED <<budget, serverVars>>

ClientLogsIn(c) ==
  /\ session.socket = "open" /\ client.at = "list" /\ budget.logins > 0
  /\ Sends("login", c)
  /\ client' = [at |-> "loading", as |-> c]
  /\ budget' = [budget EXCEPT !.logins = @ - 1]
  /\ UNCHANGED serverVars

ClientPlays(op) ==
  /\ session.socket = "open" /\ budget.packets > 0
  /\ client.at = "world" \/ (client.at = "loading" /\ op # "logout")
  /\ Sends(op, client.as)
  /\ budget' = [budget EXCEPT !.packets = @ - 1]
  /\ UNCHANGED <<client, serverVars>>

(* The client receives a message and answers it. *)
Answer(m) ==
  CASE m = "entered" -> {"screen"} [] m = "teleport" -> {"landed"}
    [] m = "suspend" -> {"suspended"} [] m = "newworld" -> {"ported"}
    [] OTHER -> {}

Informed(m) ==
  CASE m \in {"list", "failed"} -> [at |-> "list", as |-> NoOne]
    [] m = "loggedout" -> [at |-> "start", as |-> NoOne]
    [] m = "entered" -> [client EXCEPT !.at = "world"]
    [] OTHER -> client

ClientReceives ==
  /\ session.socket = "open" /\ session.out # <<>>
  /\ LET m == Head(session.out)
     IN  /\ client' = Informed(m)
         /\ IF Answer(m) = {} THEN UNCHANGED <<queue, sent>>
            ELSE \E op \in Answer(m) : Sends(op, client.as)
  /\ session' = [session EXCEPT !.out = Tail(@)]
  /\ UNCHANGED <<budget, requeue, taken, stage, handled, givenUp>>

(* HandleConnectToFailed of the fifth attempt, and AbortLogin. *)
AbortLogin ==
  /\ session.socket = "open" /\ session.connect /\ session.loading # NoOne
  /\ session' = IF session.player # NoOne THEN Kicked(session)
                ELSE Sending([session EXCEPT !.loading = NoOne, !.connect = FALSE], "failed")
  /\ givenUp' = givenUp \cup {session.loading}
  /\ UNCHANGED <<queue, client, sent, budget, requeue, taken, stage, handled>>

CloseSocket ==
  /\ session.socket = "open"
  /\ session' = [session EXCEPT !.socket = "closed"]
  /\ UNCHANGED <<queue, client, sent, budget, requeue, taken, stage, handled, givenUp>>

-----------------------------------------------------------------------------
(* The world thread and the map thread. *)

(* World::ProcessLinkInstanceSocket and HandleContinuePlayerLogin *)
LinkInstanceSocket ==
  /\ stage = "sessions" /\ session.socket = "open" /\ session.connect
  /\ LET s == [session EXCEPT !.connect = FALSE]
     IN  session' = IF s.loading = NoOne \/ s.player # NoOne THEN Kicked(s) ELSE [s EXCEPT !.query = s.loading]
  /\ UNCHANGED <<queue, client, sent, budget, requeue, taken, stage, handled, givenUp>>

(* A player in the world is teleported: by a handler of a packet, by a      *)
(* spell or script of the map, or by another session.                       *)
Teleport(m, option) ==
  /\ session.inWorld /\ budget.teleports > 0
  /\ session' = Teleported(session, m, option)
  /\ budget' = [budget EXCEPT !.teleports = @ - 1]
  /\ UNCHANGED <<queue, client, sent, requeue, taken, stage, handled, givenUp>>

(* The filter of the world thread, and that of the map. *)
WorldSessionFilter(p) ==
  Place(p.op) = "threadsafe" => session.player = NoOne \/ ~session.inWorld

MapSessionFilter(p) ==
  \/ Place(p.op) = "inplace"
  \/ Place(p.op) = "threadsafe" /\ session.player # NoOne /\ session.inWorld

Process(p) == IF stage = "world" THEN WorldSessionFilter(p) ELSE MapSessionFilter(p)

BeginUpdate ==
  /\ \/ stage = "sessions" /\ session.socket # "gone" /\ stage' = "world"
     \/ stage = "maps" /\ session.player # NoOne /\ session.inWorld /\ stage' = "map"
     \/ stage = "maps" /\ ~session.inWorld /\ stage' = "sessions"
  /\ UNCHANGED <<queue, client, sent, budget, requeue, taken, session, handled, givenUp>>

(* Fault: one packet fewer per update. *)
HasNextButOne ==
  /\ stage \in {"world", "map"} /\ taken < MaxProcessed
  /\ queue # <<>> /\ Process(Head(queue))

(* The head of the loop: the last update of the count breaks it. *)
HasNext ==
  /\ stage \in {"world", "map"} /\ taken <= MaxProcessed
  /\ queue # <<>> /\ Process(Head(queue))

(* A packet for a player in the world that comes before there is one is     *)
(* kept for later, unless one has just left.                                *)
Requeue ==
  /\ HasNext
  /\ Head(queue).op \in LoggedIn /\ session.player = NoOne /\ ~session.recent
  /\ requeue' = Append(requeue, Head(queue))
  /\ queue' = Tail(queue) /\ taken' = taken + 1
  /\ UNCHANGED <<client, sent, budget, stage, session, handled, givenUp>>

(* Everything else is handled, or dropped in a state it is not meant for. *)
Accepts(p) ==
  /\ p.op \in LoggedIn => session.player # NoOne /\ session.inWorld
  /\ p.op \in Transfer => session.player # NoOne /\ ~session.inWorld

TakePacket ==
  /\ HasNext
  /\ LET p == Head(queue)
     IN  /\ ~(p.op \in LoggedIn /\ session.player = NoOne /\ ~session.recent)
         /\ handled' = IF p.op \in LoggedIn THEN p.n ELSE handled
         /\ IF Accepts(p) THEN session' \in Handled(p, session) ELSE UNCHANGED session
  /\ queue' = Tail(queue) /\ taken' = taken + 1
  /\ UNCHANGED <<client, sent, budget, requeue, stage, givenUp>>

(* Fault: what was kept for later goes to the bottom of the queue. *)
ReaddAtBottom == queue \o requeue

(* LockedQueue::readd *)
Readd == requeue \o queue

(* ProcessQueryCallbacks; LogoutPlayer, once the logout is due. *)
AfterCallbacks(s) == {s} \cup UNION {Entered(s) : c \in {s.query} \ {NoOne}}
AfterLogout(s) == {s} \cup IF s.asked /\ s.loading = NoOne THEN LoggedOut(s) ELSE {}

(* A session without sockets is deleted, with its player. *)
Deleted(s) ==
  [NoPlayer(s) EXCEPT !.loading = NoOne, !.connect = FALSE, !.query = NoOne, !.recent = FALSE, !.asked = FALSE,
                      !.socket = "gone", !.out = <<>>]

(* The sockets are cleaned up if one is closed: at once after a kick or     *)
(* without a player, else when expireTime is over.                          *)
CleanedUp(s) ==
  CASE s.socket = "open" -> {s}
    [] s.socket = "kicked" \/ s.player = NoOne -> {Deleted(s)}
    [] OTHER -> {s, Deleted(s)}

EndUpdate ==
  /\ stage \in {"world", "map"} /\ ~HasNext
  /\ taken' = 0 /\ requeue' = <<>>
  /\ \/ /\ stage = "world"
        /\ \E s \in AfterCallbacks(session) : \E t \in AfterLogout(s) : session' \in CleanedUp(t)
        /\ queue' = IF session'.socket = "gone" THEN <<>> ELSE Readd
        /\ stage' = IF session'.socket = "gone" THEN "sessions" ELSE "maps"
     \/ /\ stage = "map"
        /\ queue' = Readd /\ stage' = "sessions"
        /\ UNCHANGED session
  /\ UNCHANGED <<client, sent, budget, handled, givenUp>>
-----------------------------------------------------------------------------
ClientNext ==
  \/ ClientLists \/ ClientReceives \/ AbortLogin \/ CloseSocket
  \/ \E c \in Character : ClientLogsIn(c)
  \/ \E op \in {"cast", "attack", "logout"} : ClientPlays(op)

UpdateNext == BeginUpdate \/ Requeue \/ TakePacket \/ EndUpdate

Next ==
  \/ ClientNext \/ UpdateNext \/ LinkInstanceSocket
  \/ \E m \in Map, option \in {"normal", "seamless"} : Teleport(m, option)

(* The server goes on updating, and the client reads what it is sent. *)
Fairness == WF_vars(UpdateNext) /\ WF_vars(ClientReceives)

Spec == Init /\ [][Next]_vars /\ Fairness

-----------------------------------------------------------------------------
(* A packet for a player in the world that was sent while the client played *)
(* one character never waits for, and is never given to, another one:       *)
(* neither the packets that were under way at a logout, nor those that were *)
(* kept for a player who was still to come.  A login that was given up is   *)
(* the exception: what was kept for it goes to the next character.          *)
PacketsStayWithTheirCharacter ==
  session.inWorld =>
    \A i \in 1 .. Len(Waiting) :
      Waiting[i].op \in LoggedIn => Waiting[i].character \in {session.player} \cup givenUp

(* Packets for a player in the world are done with in the order they were  *)
(* sent in, also those that were put back, and none twice.                  *)
GamePacketsInOrder ==
  \A i \in 1 .. Len(Waiting) : Waiting[i].op \in LoggedIn =>
    /\ Waiting[i].n > handled
    /\ \A j \in 1 .. i - 1 : Waiting[j].op \in LoggedIn => Waiting[j].n < Waiting[i].n

(* A player who is out of the world is on the way to a map, and exactly one *)
(* message that brings it further is under way, to the client or in the     *)
(* queue: none is lost, refused or left over from an earlier transfer.  The *)
(* exception is one who was sent home from where home is: TeleportTo takes  *)
(* that for a teleport within the map.                                      *)
Outgoing == {i \in 1 .. Len(session.out) : session.out[i] \in {"suspend", "newworld"}}
Incoming == {i \in 1 .. Len(Waiting) : Waiting[i].op \in Transfer}
UnderWay == Cardinality(Outgoing) + Cardinality(Incoming)

TransfersCanFinish ==
  session.player # NoOne /\ ~session.inWorld /\ session.socket = "open" =>
    \/ session.far # "no" /\ UnderWay = 1
    \/ session.near /\ session.map = Home

(* A packet that needs no player in the world leaves the queue, as long as  *)
(* fewer packets are kept in front of it than an update takes out.          *)
Clogged ==
  /\ session.player = NoOne /\ ~session.recent
  /\ Len(Waiting) > MaxProcessed
  /\ \A i \in 1 .. MaxProcessed + 1 : Waiting[i].op \in LoggedIn
PacketsAreTaken ==
  \A op \in Authed \cup Transfer :
    (\E i \in 1 .. Len(Waiting) : Waiting[i].op = op)
      ~> (Clogged \/ session.socket = "gone" \/ \A i \in 1 .. Len(Waiting) : Waiting[i].op # op)
=============================================================================
