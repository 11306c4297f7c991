----------------------------- MODULE WorldSockets -----------------------------
(***************************************************************************)
(* The connections of the world server.                                    *)
(*   src/src/server/shared/Networking/Socket.h, NetworkThread.h,           *)
(*   SocketMgr.h, AsyncAcceptor.h; src/src/server/game/Server/             *)
(*   WorldSocket.cpp, WorldSocketMgr.cpp; World::ProcessLinkInstanceSocket *)
(*                                                                         *)
(* A network thread runs one handler of its io_context at a time: the      *)
(* Update of all its sockets every 10 ms, or the completion of a read or   *)
(* of a write.  The world thread sends packets to a socket, closes it and  *)
(* deletes the session it points to between any two steps of that handler, *)
(* and another thread accepts connections.  A client logs in on a realm    *)
(* socket, which makes a session, and then connects an instance socket to  *)
(* that session.  Packets are numbered as SendPacket accepts them.         *)
(***************************************************************************)
EXTENDS Integers, Sequences

CONSTANTS Thread, Realm, Instance,
          SessionOf,      \* the realm socket of the login a socket belongs to
          MaxPackets,     \* bound: no packet or pong is sent beyond that packet of a socket
          NoSocket

Socket == Realm \cup Instance

ASSUME SocketAssumption ==
  /\ Realm \cap Instance = {} /\ NoSocket \notin Socket
  /\ SessionOf \in [Socket -> Realm] /\ \A r \in Realm : SessionOf[r] = r
ASSUME MaxPacketsAssumption == MaxPackets \in Nat

VARIABLES
  listening,       \* the threads that accept connections run
  stopped, ended,  \* network threads told to stop, and those that have
  job,             \* what each network thread is doing, and to which socket
  todo,            \* the sockets its Update has still to visit
  newSockets,      \* _newSockets and _sockets of each network thread
  sockets,
  sock,            \* the sockets
  session,         \* the session of a login: none, made, given to the world, deleted
  instance,        \* m_Socket[CONNECTION_TYPE_INSTANCE]
  links,           \* _linkSocketQueue
  world            \* what the world thread is doing, and to which socket

netVars == <<listening, stopped, ended>>
heldVars == <<newSockets, sockets>>
worldVars == <<session, instance, links, world>>
vars == <<netVars, heldVars, job, todo, sock, worldVars>>

Idle == <<"idle", NoSocket>>
Phases == {"ip", "hello", "auth", "account", "rights", "ack", "play", "refused"}
Packets == Seq(Nat)

(***************************************************************************)
(* A socket: its peer; how far the login is; _closed, _closing,            *)
(* _isWritingAsync; the asynchronous writes and reads that are under way;  *)
(* whether _worldSession is set; the packets in _bufferQueue, the buffers  *)
(* of packets in _writeQueue, what the peer was given, and the number of   *)
(* packets SendPacket took.                                                *)
(***************************************************************************)
SocketState ==
  [client : {"absent", "up", "down"}, phase : Phases, closed : BOOLEAN, closing : BOOLEAN,
   writing : BOOLEAN, writes : Nat, reads : Nat, pointer : BOOLEAN,
   out : Packets, queue : Seq(Packets), wire : Packets, accepted : Nat]

TypeOK ==
  /\ listening \in BOOLEAN /\ stopped \subseteq Thread /\ ended \subseteq stopped
  /\ job \in [Thread -> {"idle", "update", "write", "callbacks", "read", "onCloseInUpdate",
                         "onCloseInHandler"} \X (Socket \cup {NoSocket})]
  /\ {todo, newSockets, sockets} \subseteq [Thread -> SUBSET Socket]
  /\ sock \in [Socket -> SocketState]
  /\ session \in [Realm -> {"none", "made", "world", "deleted"}]
  /\ instance \in [Realm -> Instance \cup {NoSocket}]
  /\ links \subseteq Instance
  /\ world \in {"idle", "onClose", "link", "refuse"} \X (Socket \cup {NoSocket})

Init ==
  /\ listening = TRUE /\ stopped = {} /\ ended = {} /\ links = {} /\ world = Idle
  /\ job = [t \in Thread |-> Idle] /\ todo = [t \in Thread |-> {}]
  /\ newSockets = [t \in Thread |-> {}] /\ sockets = [t \in Thread |-> {}]
  /\ sock = [s \in Socket |->
               [client |-> "absent", phase |-> "ip", closed |-> FALSE, closing |-> FALSE,
                writing |-> FALSE, writes |-> 0, reads |-> 0, pointer |-> FALSE, out |-> <<>>, queue |-> <<>>, wire |-> <<>>, accepted |-> 0]]
  /\ session = [r \in Realm |-> "none"] /\ instance = [r \in Realm |-> NoSocket]

-----------------------------------------------------------------------------
(* Operations on the state x of a socket. *)

IsOpen(x) == ~x.closed /\ ~x.closing

AsyncRead(x) == IF IsOpen(x) THEN [x EXCEPT !.reads = @ + 1] ELSE x

AsyncProcessQueue(x) == IF x.writing THEN x ELSE [x EXCEPT !.writing = TRUE, !.writes = @ + 1]

DelayedCloseSocket(x) == [x EXCEPT !.closing = TRUE, !.phase = "refused"]

SendPacket(x) ==
  IF IsOpen(x)
  THEN [x EXCEPT !.out = Append(@, x.accepted + 1), !.accepted = @ + 1]
  ELSE x

(* The ways in which Update packs packets into buffers: all of them fit    *)
(* into one, or each fills its own, and a packet larger than a buffer is   *)
(* preceded by the empty buffer it did not fit into.                       *)
Packings(packets) ==
  LET single == [i \in DOMAIN packets |-> <<packets[i]>>] IN
  IF packets = <<>> THEN {<<>>} ELSE {<<packets>>, single, <<<<>>>> \o single}

(* What is still queued goes with the socket. *)
Released(x) == [x EXCEPT !.out = <<>>, !.queue = <<>>, !.writes = 0, !.reads = 0]

Change(s, x) == sock' = [sock EXCEPT ![s] = x]
Do(t, what, s) == job' = [job EXCEPT ![t] = <<what, s>>]

(* CloseSocket: only the first call goes on to OnClose, a step later. *)
CloseThen(t, s, x, onClose, done) ==
  /\ Change(s, [x EXCEPT !.closed = TRUE])
  /\ IF x.closed THEN job' = [job EXCEPT ![t] = done] ELSE Do(t, onClose, s)

-----------------------------------------------------------------------------
(* The acceptor and the clients. *)

(* A client connects; its socket starts with a query for its address and   *)
(* is given to the thread SelectThreadWithMinConnections took when the     *)
(* accept was armed, which by now may be any.  An instance socket comes    *)
(* when the client was given SMSG_CONNECT_TO, here the last packet of the  *)
(* realm socket.                                                           *)
Accept(s, t) ==
  /\ listening /\ sock[s].client = "absent"
  /\ s \in Instance => Len(sock[SessionOf[s]].wire) = MaxPackets
  /\ Change(s, [sock[s] EXCEPT !.client = "up"])
  /\ newSockets' = [newSockets EXCEPT ![t] = @ \cup {s}]
  /\ UNCHANGED <<netVars, sockets, job, todo, worldVars>>

(* The peer closes the connection, or it is lost. *)
Disconnect(s) ==
  /\ sock[s].client = "up"
  /\ Change(s, [sock[s] EXCEPT !.client = "down"])
  /\ UNCHANGED <<netVars, heldVars, job, todo, worldVars>>

-----------------------------------------------------------------------------
(* NetworkThread::Update. *)

BeginUpdate(t) ==
  /\ job[t] = Idle /\ t \notin stopped
  /\ LET all == sockets[t] \cup {s \in newSockets[t] : IsOpen(sock[s])} IN
       /\ sockets' = [sockets EXCEPT ![t] = all] /\ todo' = [todo EXCEPT ![t] = all]
  /\ newSockets' = [newSockets EXCEPT ![t] = {}]
  /\ Do(t, "update", NoSocket)
  /\ UNCHANGED <<netVars, sock, worldVars>>

(* WorldSocket::Update packs the packets it finds into buffers, and then   *)
(* BaseSocket::Update tests the flags: a closed socket is removed, there   *)
(* may be nothing to write, or a write is already waiting.                 *)
UpdateSocket(t, s) ==
  /\ job[t] = <<"update", NoSocket>> /\ s \in todo[t]
  /\ todo' = [todo EXCEPT ![t] = @ \ {s}]
  /\ \E buffers \in Packings(sock[s].out) :
       LET x == [sock[s] EXCEPT !.out = <<>>, !.queue = @ \o buffers] IN
       IF x.closed
       THEN Change(s, Released(x)) /\ UNCHANGED job
       ELSE /\ Change(s, x)
            /\ IF x.writing \/ (x.queue = <<>> /\ ~x.closing) THEN Do(t, "callbacks", s)
               ELSE Do(t, "write", s)
  /\ sockets' = [sockets EXCEPT ![t] = IF sock[s].closed THEN @ \ {s} ELSE @]
  /\ UNCHANGED <<netVars, newSockets, worldVars>>

EndUpdate(t) ==
  /\ job[t] = <<"update", NoSocket>> /\ todo[t] = {}
  /\ job' = [job EXCEPT ![t] = Idle]
  /\ UNCHANGED <<netVars, heldVars, todo, sock, worldVars>>

(* HandleQueue on the state x of socket s: nothing to write; the front     *)
(* buffer is written, empty, or fails, and is dropped, after which an      *)
(* empty queue closes a socket that is closing; or only a part of it is    *)
(* written and the rest waits until the socket can be written again.       *)
Pop(t, s, x, onClose, again, done) ==
  LET rest == [x EXCEPT !.queue = Tail(@)] IN
  IF rest.queue = <<>> /\ x.closing THEN CloseThen(t, s, rest, onClose, done)
  ELSE Change(s, rest) /\ job' = [job EXCEPT ![t] = IF rest.queue = <<>> THEN done ELSE again]

Broken(x) == x.client = "down" \/ x.closed

NothingToWrite(t, s, x, done) ==
  x.queue = <<>> /\ Change(s, x) /\ job' = [job EXCEPT ![t] = done]

WriteAll(t, s, x, onClose, again, done) ==
  /\ x.queue # <<>> /\ Head(x.queue) # <<>> /\ ~Broken(x)
  /\ Pop(t, s, [x EXCEPT !.wire = @ \o Head(x.queue)], onClose, again, done)

WriteNothing(t, s, x, onClose, done) ==
  /\ x.queue # <<>> /\ (Head(x.queue) = <<>> \/ Broken(x))
  /\ Pop(t, s, x, onClose, done, done)

(* Fault: the part that was written stays in the buffer. *)
WritePartAgain(t, s, x, done) ==
  /\ x.queue # <<>> /\ ~Broken(x)
  /\ \E n \in 0 .. Len(Head(x.queue)) - 1 :
       Change(s, AsyncProcessQueue([x EXCEPT !.wire = @ \o SubSeq(Head(x.queue), 1, n)]))
  /\ job' = [job EXCEPT ![t] = done]

WritePart(t, s, x, done) ==
  /\ x.queue # <<>> /\ ~Broken(x)
  /\ \E n \in 0 .. Len(Head(x.queue)) - 1 :
       Change(s, AsyncProcessQueue([x EXCEPT !.wire = @ \o SubSeq(Head(x.queue), 1, n),
                                             !.queue[1] = SubSeq(@, n + 1, Len(@))]))
  /\ job' = [job EXCEPT ![t] = done]

HandleQueue(t, s, x, onClose, again, done) ==
  \/ NothingToWrite(t, s, x, done)
  \/ WriteAll(t, s, x, onClose, again, done)
  \/ WriteNothing(t, s, x, onClose, done)
  \/ WritePart(t, s, x, done)

(* One turn of the loop of BaseSocket::Update. *)
Write(t, s) ==
  /\ job[t] = <<"write", s>>
  /\ HandleQueue(t, s, sock[s], "onCloseInUpdate", job[t], <<"callbacks", s>>)
  /\ UNCHANGED <<netVars, heldVars, todo, worldVars>>

(* The rest of CloseSocket: OnClose takes _worldSessionLock, which nobody  *)
(* holds between two steps.                                                *)
OnClose(t, s) ==
  /\ Change(s, [sock[s] EXCEPT !.pointer = FALSE])
  /\ \/ job[t] = <<"onCloseInUpdate", s>> /\ Do(t, "callbacks", s)
     \/ job[t] = <<"onCloseInHandler", s>> /\ job' = [job EXCEPT ![t] = Idle]
  /\ UNCHANGED <<netVars, heldVars, todo, worldVars>>

-----------------------------------------------------------------------------
(* The query callbacks, at the end of WorldSocket::Update of a socket that  *)
(* was not removed: the query of the socket may have been answered by now.  *)

Called(t, s, phase) ==
  /\ job[t] = <<"callbacks", s>> /\ sock[s].phase = phase
  /\ Do(t, "update", NoSocket)
  /\ UNCHANGED <<netVars, heldVars, todo, instance, links, world>>

NoCallback(t, s) ==
  /\ job[t] = <<"callbacks", s>>
  /\ Do(t, "update", NoSocket)
  /\ UNCHANGED <<netVars, heldVars, todo, sock, worldVars>>

(* The address is banned, or the socket reads, and greets the client past  *)
(* _bufferQueue.                                                           *)
CheckIpCallback(t, s) ==
  /\ Called(t, s, "ip")
  /\ LET n == sock[s].accepted + 1 IN
       \/ Change(s, DelayedCloseSocket(sock[s]))
       \/ Change(s, [AsyncRead(sock[s]) EXCEPT !.phase = "hello", !.accepted = n,
                                               !.queue = Append(@, <<n>>)])
  /\ UNCHANGED session

(* A login is refused without a word or with one, or goes on: on a realm   *)
(* socket with a new session and a query for its rights.                   *)
Refuse(s) ==
  \E x \in {sock[s], SendPacket(sock[s])} : Change(s, DelayedCloseSocket(x))

HandleAuthSessionCallback(t, s) ==
  /\ s \in Realm /\ Called(t, s, "account")
  /\ \/ Refuse(s) /\ UNCHANGED session
     \/ /\ session' = [session EXCEPT ![s] = "made"]
        /\ Change(s, AsyncRead([sock[s] EXCEPT !.phase = "rights", !.pointer = TRUE]))

HandleAuthContinuedSessionCallback(t, s) ==
  /\ s \in Instance /\ Called(t, s, "account")
  /\ \/ Refuse(s)
     \/ Change(s, AsyncRead([SendPacket(sock[s]) EXCEPT !.phase = "ack"]))
  /\ UNCHANGED session

LoadSessionPermissionsCallback(t, s) ==
  /\ Called(t, s, "rights")
  /\ Change(s, [SendPacket(sock[s]) EXCEPT !.phase = "ack"])
  /\ UNCHANGED session

-----------------------------------------------------------------------------
(* The completion handlers of a network thread. *)

(* A completed read or write of a socket is handled between two Updates. *)
Handles(t, s) == job[t] = Idle /\ t \notin stopped /\ s \in sockets[t]

ReadError(t, s) ==
  /\ Handles(t, s) /\ sock[s].reads > 0 /\ sock[s].client = "down"
  /\ CloseThen(t, s, [sock[s] EXCEPT !.reads = @ - 1], "onCloseInHandler", Idle)
  /\ UNCHANGED <<netVars, heldVars, todo, worldVars>>

(* The greeting of the client, which is answered with the challenge. *)
InitializeHandler(t, s) ==
  /\ Handles(t, s) /\ sock[s].reads > 0 /\ sock[s].client = "up" /\ sock[s].phase = "hello"
  /\ LET x == [sock[s] EXCEPT !.reads = @ - 1] IN
       \/ CloseThen(t, s, x, "onCloseInHandler", Idle)
       \/ Change(s, AsyncRead([SendPacket(x) EXCEPT !.phase = "auth"])) /\ UNCHANGED job
  /\ UNCHANGED <<netVars, heldVars, todo, worldVars>>

(* ReadHandler on data: nothing when the socket is not open. *)
ReadHandler(t, s) ==
  /\ Handles(t, s) /\ sock[s].reads > 0 /\ sock[s].client = "up" /\ sock[s].phase # "hello"
  /\ Change(s, [sock[s] EXCEPT !.reads = @ - 1])
  /\ IF IsOpen(sock[s]) THEN Do(t, "read", s) ELSE UNCHANGED job
  /\ UNCHANGED <<netVars, heldVars, todo, worldVars>>

(* Fault: the loop goes on after CMSG_AUTH_SESSION. *)
HandleAuthSessionAndRead(t, s) ==
  /\ job[t] = <<"read", s>> /\ sock[s].phase = "auth"
  /\ Change(s, [sock[s] EXCEPT !.phase = "account"])
  /\ UNCHANGED <<netVars, heldVars, job, todo, worldVars>>

(* The packets of its loop that change the state.  CMSG_AUTH_SESSION: the  *)
(* next read waits for the query.                                          *)
HandleAuthSession(t, s) ==
  /\ job[t] = <<"read", s>> /\ sock[s].phase = "auth"
  /\ Change(s, [sock[s] EXCEPT !.phase = "account"])
  /\ job' = [job EXCEPT ![t] = Idle]
  /\ UNCHANGED <<netVars, heldVars, todo, worldVars>>

(* The session or the instance socket is handed to the world. *)
HandleEnterEncryptedModeAck(t, s) ==
  /\ job[t] = <<"read", s>> /\ sock[s].phase = "ack"
  /\ Change(s, [sock[s] EXCEPT !.phase = "play"])
  /\ \/ s \in Realm /\ session' = [session EXCEPT ![s] = "world"] /\ UNCHANGED links
     \/ s \in Instance /\ links' = links \cup {s} /\ UNCHANGED session
  /\ UNCHANGED <<netVars, heldVars, job, todo, instance, world>>

(* A ping is answered past the world thread. *)
HandlePing(t, s) ==
  /\ job[t] = <<"read", s>> /\ sock[s].pointer /\ sock[s].accepted < MaxPackets
  /\ Change(s, SendPacket(sock[s]))
  /\ UNCHANGED <<netVars, heldVars, job, todo, worldVars>>

(* A packet that needs a session, when there is none or none any more; one *)
(* for a session that is there is queued in it, under the lock.            *)
NotAuthed(t, s) ==
  /\ job[t] = <<"read", s>> /\ ~sock[s].pointer
  /\ CloseThen(t, s, sock[s], "onCloseInHandler", Idle)
  /\ UNCHANGED <<netVars, heldVars, todo, worldVars>>

EndRead(t, s) ==
  /\ job[t] = <<"read", s>>
  /\ Change(s, AsyncRead(sock[s]))
  /\ job' = [job EXCEPT ![t] = Idle]
  /\ UNCHANGED <<netVars, heldVars, todo, worldVars>>

(* Fault: the flag of the waiting write stays set. *)
WriteHandlerKeepingFlag(t, s) ==
  /\ Handles(t, s) /\ sock[s].writes > 0
  /\ HandleQueue(t, s, [sock[s] EXCEPT !.writes = @ - 1], "onCloseInHandler", Idle, Idle)
  /\ UNCHANGED <<netVars, heldVars, todo, worldVars>>

(* The socket can be written again. *)
WriteHandlerWrapper(t, s) ==
  /\ Handles(t, s) /\ sock[s].writes > 0
  /\ LET x == [sock[s] EXCEPT !.writing = FALSE, !.writes = @ - 1] IN
       HandleQueue(t, s, x, "onCloseInHandler", Idle, Idle)
  /\ UNCHANGED <<netVars, heldVars, todo, worldVars>>

(* Run returns when the io_context was stopped. *)
EndThread(t) ==
  /\ t \in stopped \ ended /\ job[t] = Idle
  /\ ended' = ended \cup {t}
  /\ newSockets' = [newSockets EXCEPT ![t] = {}] /\ sockets' = [sockets EXCEPT ![t] = {}]
  /\ UNCHANGED <<listening, stopped, job, todo, sock, worldVars>>

-----------------------------------------------------------------------------
(* The world thread. *)

SocketsOf(r) == {r, instance[r]} \ {NoSocket}
Uses(s) == world = Idle /\ session[SessionOf[s]] = "world" /\ s \in SocketsOf(SessionOf[s])

WorldSendPacket(s) ==
  /\ Uses(s) /\ IsOpen(sock[s]) /\ sock[s].accepted < MaxPackets
  /\ Change(s, SendPacket(sock[s]))
  /\ UNCHANGED <<netVars, heldVars, job, todo, worldVars>>

(* CloseSocket, by KickPlayer, LogoutPlayer, Update or the destructor of   *)
(* the session.                                                            *)
CloseSocket(s) ==
  /\ Uses(s) /\ ~sock[s].closed
  /\ Change(s, [sock[s] EXCEPT !.closed = TRUE])
  /\ world' = <<"onClose", s>>
  /\ UNCHANGED <<netVars, heldVars, job, todo, session, instance, links>>

WorldOnClose(s) ==
  /\ world = <<"onClose", s>>
  /\ Change(s, [sock[s] EXCEPT !.pointer = FALSE])
  /\ world' = Idle
  /\ UNCHANGED <<netVars, heldVars, job, todo, session, instance, links>>

(* LogoutPlayer drops the instance socket it has closed. *)
LogoutPlayer(r) ==
  /\ world = Idle /\ instance[r] # NoSocket /\ sock[instance[r]].closed
  /\ instance' = [instance EXCEPT ![r] = NoSocket]
  /\ UNCHANGED <<netVars, heldVars, job, todo, sock, session, links, world>>

(* Fault: the instance socket is not closed. *)
DeleteWithOpenInstance(r) ==
  /\ world = Idle /\ session[r] = "world" /\ sock[r].closed
  /\ session' = [session EXCEPT ![r] = "deleted"]
  /\ instance' = [instance EXCEPT ![r] = NoSocket]
  /\ UNCHANGED <<netVars, heldVars, job, todo, sock, links, world>>

(* The session is deleted after a CloseSocket of each of its sockets. *)
DeleteSession(r) ==
  /\ world = Idle /\ session[r] = "world" /\ \A s \in SocketsOf(r) : sock[s].closed
  /\ session' = [session EXCEPT ![r] = "deleted"]
  /\ instance' = [instance EXCEPT ![r] = NoSocket]
  /\ UNCHANGED <<netVars, heldVars, job, todo, sock, links, world>>

(* ProcessLinkInstanceSocket: a socket that is not open is forgotten; then *)
(* the session is found by its key, or the socket is refused.              *)
TakeLink(i) ==
  /\ world = Idle /\ i \in links
  /\ links' = links \ {i}
  /\ world' = IF IsOpen(sock[i]) THEN <<"link", i>> ELSE Idle
  /\ UNCHANGED <<netVars, heldVars, job, todo, sock, session, instance>>

SetWorldSession(i) ==
  /\ world = <<"link", i>>
  /\ session[SessionOf[i]] = "world" /\ instance[SessionOf[i]] = NoSocket
  /\ Change(i, [sock[i] EXCEPT !.pointer = TRUE])
  /\ instance' = [instance EXCEPT ![SessionOf[i]] = i]
  /\ world' = Idle
  /\ UNCHANGED <<netVars, heldVars, job, todo, session, links>>

RefuseLink(i) ==
  /\ \/ world = <<"link", i>> /\ Change(i, SendPacket(sock[i])) /\ world' = <<"refuse", i>>
     \/ world = <<"refuse", i>> /\ Change(i, DelayedCloseSocket(sock[i])) /\ world' = Idle
  /\ UNCHANGED <<netVars, heldVars, job, todo, session, instance, links>>

(* Shutdown: no accept any more, and then StopNetwork. *)
StopListening ==
  /\ listening /\ listening' = FALSE
  /\ UNCHANGED <<stopped, ended, heldVars, job, todo, sock, worldVars>>

Stop(t) ==
  /\ world = Idle /\ ~listening /\ t \notin stopped
  /\ stopped' = stopped \cup {t}
  /\ UNCHANGED <<listening, ended, heldVars, job, todo, sock, worldVars>>

-----------------------------------------------------------------------------
Clients ==
  \E s \in Socket : Disconnect(s) \/ \E t \in Thread : Accept(s, t)

Continue(t) ==
  \/ EndUpdate(t)
  \/ \E s \in Socket :
       \/ UpdateSocket(t, s) \/ Write(t, s) \/ OnClose(t, s) \/ NoCallback(t, s)
       \/ CheckIpCallback(t, s) \/ HandleAuthSessionCallback(t, s)
       \/ HandleAuthContinuedSessionCallback(t, s) \/ LoadSessionPermissionsCallback(t, s)
       \/ HandleAuthSession(t, s) \/ HandleEnterEncryptedModeAck(t, s) \/ HandlePing(t, s)
       \/ NotAuthed(t, s) \/ EndRead(t, s)

Handle(t) ==
  \/ BeginUpdate(t) \/ EndThread(t)
  \/ \E s \in Socket :
       ReadError(t, s) \/ InitializeHandler(t, s) \/ ReadHandler(t, s) \/ WriteHandlerWrapper(t, s)

World ==
  \/ StopListening \/ \E t \in Thread : Stop(t)
  \/ \E r \in Realm : LogoutPlayer(r) \/ DeleteSession(r)
  \/ \E s \in Socket : WorldSendPacket(s) \/ CloseSocket(s) \/ WorldOnClose(s)
  \/ \E i \in Instance : TakeLink(i) \/ SetWorldSession(i) \/ RefuseLink(i)

Next == Clients \/ World \/ \E t \in Thread : Continue(t) \/ Handle(t)

(***************************************************************************)
(* A network thread finishes what it does, and its io_context serves the   *)
(* timer and the completions in the order they came, so none waits for     *)
(* ever; a peer that stays connected goes on reading, so that a write is   *)
(* not put off for ever (one that writes nothing is a stuttering step);    *)
(* and the world thread goes on.                                           *)
(***************************************************************************)
Fairness ==
  /\ \A t \in Thread :
       /\ WF_vars(Continue(t)) /\ SF_vars(BeginUpdate(t)) /\ WF_vars(EndThread(t))
       /\ WF_vars(Stop(t))
  /\ \A s \in Socket, t \in Thread :
       /\ SF_vars(ReadError(t, s)) /\ SF_vars(WriteHandlerWrapper(t, s))
  /\ \A s \in Socket : WF_vars(WorldOnClose(s))
  /\ \A i \in Instance : WF_vars(TakeLink(i)) /\ WF_vars(SetWorldSession(i) \/ RefuseLink(i))

Spec == Init /\ [][Next]_vars /\ Fairness

-----------------------------------------------------------------------------
(***************************************************************************)
(* The peer is given the packets in the order in which SendPacket took     *)
(* them, none twice and none left out; and while the connection is whole,  *)
(* what it was not given yet waits in the two queues, in that order.       *)
(***************************************************************************)
Numbers(n) == [i \in 1 .. n |-> i]

(* Read one after the other, the buffers hold the packets first .. last.   *)
Hold(buffers, first, last) ==
  /\ \A b \in DOMAIN buffers : \A i \in DOMAIN buffers[b] :
       buffers[b][i] \in first .. last /\ buffers[b][i] = buffers[b][1] + i - 1
  /\ \A b, c \in DOMAIN buffers : b < c =>
       \A i \in DOMAIN buffers[b], j \in DOMAIN buffers[c] : buffers[b][i] < buffers[c][j]
  /\ \A n \in first .. last : \E b \in DOMAIN buffers : \E i \in DOMAIN buffers[b] : buffers[b][i] = n

SentInOrder ==
  \A s \in Socket :
    LET x == sock[s] IN
    /\ x.wire = Numbers(Len(x.wire))
    /\ ~Broken(x) => Hold(Append(x.queue, x.out), Len(x.wire) + 1, x.accepted)

(***************************************************************************)
(* A network thread that is about to use the session of a socket finds one *)
(* that is not deleted: in a callback, which takes no lock and needs it to *)
(* be there, and in ReadHandler's loop, whatever the world closes, links   *)
(* and deletes meanwhile.                                                  *)
(***************************************************************************)
SessionPointerIsLive ==
  \A t \in Thread, s \in Socket :
    LET x == sock[s]  alive == session[SessionOf[s]] \in {"made", "world"} IN
    /\ job[t] = <<"callbacks", s>> /\ x.phase = "rights" => x.pointer /\ alive
    /\ job[t] = <<"read", s>> /\ x.pointer => alive
    /\ job[t] = <<"read", s>> /\ x.phase = "ack" /\ s \in Realm => x.pointer

(* A socket has one read at a time, since all fill the same buffer; and no *)
(* open socket is forgotten: unless its thread is working on it, a read is *)
(* under way or a query whose callback will start one.                     *)
OneReadAtATime ==
  \A t \in Thread : \A s \in sockets[t] :
    /\ sock[s].reads <= 1
    /\ IsOpen(sock[s]) /\ job[t][2] # s =>
         sock[s].reads = IF sock[s].phase \in {"ip", "account"} THEN 0 ELSE 1

(***************************************************************************)
(* What waits to be sent is sent or the connection ends; a closed socket   *)
(* is removed; a socket that is to close after its last packet does; and   *)
(* StopNetwork returns.                                                    *)
(***************************************************************************)
Waits(s) == sock[s].out # <<>> \/ sock[s].queue # <<>>
Held(s) == \E t \in Thread : s \in newSockets[t] \cup sockets[t]
SocketsAreServed ==
  /\ \A s \in Socket :
       /\ Waits(s) ~> ~Waits(s) \/ Broken(sock[s]) \/ ~listening
       /\ sock[s].closed ~> ~Held(s)
       /\ sock[s].closing /\ Waits(s) ~> sock[s].closed \/ ~Held(s)
  /\ ~listening ~> ended = Thread
=============================================================================
