------------------------- MODULE PacketDispatchProofs -------------------------
(***************************************************************************)
(* Proofs about PacketDispatch.tla for any limit of packets per update and *)
(* any bounds: the packets for a player in the world are done with in the  *)
(* order they were sent in, none is given to another character, and a      *)
(* transfer between maps always has what it waits for under way.           *)
(*                                                                         *)
(* The order is not inductive: were a packet handled while earlier ones of *)
(* its kind are kept in requeuePackets, then those would be overtaken.     *)
(* What rules it out is OnlyWithoutPlayer: as long as anything is kept,    *)
(* there is no player and none has just left, so that a further packet of  *)
(* the kind is kept, too.  A player comes or goes only when the loop has   *)
(* ended, or in the handler of a packet that is not taken before then.     *)
(*                                                                         *)
(* For the other two see Dialogue, Leftovers and Transfers: what client    *)
(* and server know of each other.                                          *)
(***************************************************************************)
EXTENDS PacketDispatch, SequenceTheorems, FiniteSetTheorems, TLAPS

(* A player in the world is a player. *)
InWorldHasPlayer == session.inWorld => session.player # NoOne

OnlyWithoutPlayer == requeue # <<>> => session.player = NoOne /\ ~session.recent

(* No packet has a number that was not given to it yet. *)
Numbered == \A i \in 1 .. Len(Waiting) : Waiting[i].op \in LoggedIn => Waiting[i].n <= sent

IInv == TypeOK /\ InWorldHasPlayer /\ OnlyWithoutPlayer /\ Numbered /\ handled <= sent /\ GamePacketsInOrder

-----------------------------------------------------------------------------
(* What the handlers make of a session. *)

SessionOK(s) == s \in Session /\ (s.inWorld => s.player # NoOne)

LEMMA SendingOK ==
  ASSUME NEW s \in Session, NEW m \in Message
  PROVE  /\ Sending(s, m) \in Session
         /\ Sending(s, m).player = s.player /\ Sending(s, m).inWorld = s.inWorld
         /\ Sending(s, m).recent = s.recent
<1>1. Append(s.out, m) \in Seq(Message)
  BY DEF Session
<1>2. QED
  BY <1>1 DEF Sending, Session

LEMMA TeleportedOK ==
  ASSUME NEW s \in Session, NEW m \in Map, NEW option \in {"normal", "seamless"}
  PROVE  /\ Teleported(s, m, option) \in Session
         /\ Teleported(s, m, option).player = s.player /\ Teleported(s, m, option).recent = s.recent
         /\ Teleported(s, m, option).inWorld => s.inWorld
<1> DEFINE near == [s EXCEPT !.far = "no", !.dest = m, !.near = TRUE]
           far == [s EXCEPT !.near = FALSE, !.inWorld = FALSE, !.dest = m,
                            !.far = IF s.inWorld /\ <<s.map, m>> \in Cosmetic THEN option ELSE "normal"]
<1>1. near \in Session /\ near.player = s.player /\ near.recent = s.recent /\ near.inWorld = s.inWorld
  BY DEF Session
<1>2. far \in Session /\ far.player = s.player /\ far.recent = s.recent /\ far.inWorld = FALSE
  <2> DEFINE f == IF s.inWorld /\ <<s.map, m>> \in Cosmetic THEN option ELSE "normal"
  <2>1. f \in {"normal", "seamless"}
    OBVIOUS
  <2> HIDE DEF f
  <2>2. QED
    BY <2>1, ZenonT(30) DEF Session
<1> HIDE DEF near, far
<1>3. {"teleport", "suspend"} \subseteq Message
  BY DEF Message
<1>4. Teleported(s, m, option) = IF m = s.map THEN Sending(near, "teleport") ELSE Sending(far, "suspend")
  BY DEF Teleported, near, far
<1>5. CASE m = s.map
  BY <1>1, <1>3, <1>4, <1>5, SendingOK
<1>6. CASE m # s.map
  BY <1>2, <1>3, <1>4, <1>6, SendingOK
<1>7. QED
  BY <1>5, <1>6

LEMMA PortedOK ==
  ASSUME NEW s \in Session, NEW t \in Ported(s)
  PROVE  t \in Session /\ t.player = s.player
<1>1. CASE t = [s EXCEPT !.far = "no", !.map = s.dest, !.inWorld = TRUE]
  BY <1>1 DEF Session
<1>2. CASE t = Teleported([s EXCEPT !.far = "no"], Home, "normal")
  <2> DEFINE u == [s EXCEPT !.far = "no"]
  <2>1. u \in Session /\ u.player = s.player
    BY DEF Session
  <2> HIDE DEF u
  <2>2. QED
    BY <1>2, <2>1, TeleportedOK, PacketAssumption DEF u
<1>3. QED
  BY <1>1, <1>2 DEF Ported

LEMMA LandedOK ==
  ASSUME NEW s \in Session, NEW t \in Landed(s)
  PROVE  t \in Session
<1>1. CASE s.far = "no"
  BY <1>1 DEF Landed
<1>2. CASE s.far # "no"
  <2>1. PICK u \in Ported(s) : t \in IF u.far = "no" THEN {u} ELSE Ported(u)
    BY <1>2 DEF Landed
  <2>2. u \in Session
    BY PortedOK
  <2>3. QED
    BY <2>1, <2>2, PortedOK
<1>3. QED
  BY <1>1, <1>2

LEMMA LoggedOutOK ==
  ASSUME NEW s \in Session, NEW t \in LoggedOut(s)
  PROVE  SessionOK(t)
<1>1. PICK u \in Landed(s) : t = Sending([NoPlayer(u) EXCEPT !.asked = FALSE, !.recent = TRUE], "loggedout")
  BY DEF LoggedOut
<1> DEFINE w == [NoPlayer(u) EXCEPT !.asked = FALSE, !.recent = TRUE]
<1>2. u \in Session
  BY LandedOK
<1>3. w \in Session /\ w.inWorld = FALSE
  BY <1>2, PacketAssumption DEF Session, NoPlayer
<1> HIDE DEF w
<1>4. "loggedout" \in Message
  BY DEF Message
<1>5. QED
  BY <1>1, <1>3, <1>4, SendingOK DEF w, SessionOK

LEMMA EnteredOK ==
  ASSUME NEW s, SessionOK(s), s.query # NoOne, NEW t \in Entered(s)
  PROVE  SessionOK(t)
<1> DEFINE u == [s EXCEPT !.query = NoOne, !.player = s.query]
           k == [s EXCEPT !.query = NoOne, !.loading = NoOne]
           at(m) == [u EXCEPT !.map = m]
           in(m) == [u EXCEPT !.map = m, !.inWorld = TRUE]
<1>1. SessionOK(Kicked(k))
  BY DEF SessionOK, Session, Kicked
<1>2. "entered" \in Message
  BY DEF Message
<1>3. ASSUME NEW m \in Map PROVE SessionOK(Sending(in(m), "entered"))
  <2>1. in(m) \in Session /\ in(m).player # NoOne
    BY DEF SessionOK, Session
  <2> HIDE DEF in
  <2>2. QED
    BY <1>2, <2>1, SendingOK DEF SessionOK
<1>4. ASSUME NEW m \in Dungeon PROVE SessionOK(Teleported(Sending(at(m), "entered"), Home, "normal"))
  <2>1. at(m) \in Session /\ at(m).player # NoOne
    BY PacketAssumption DEF SessionOK, Session
  <2> HIDE DEF at
  <2> DEFINE x == Sending(at(m), "entered")
  <2>2. x \in Session /\ x.player # NoOne
    BY <1>2, <2>1, SendingOK
  <2> HIDE DEF x
  <2>3. Teleported(x, Home, "normal") \in Session /\ Teleported(x, Home, "normal").player # NoOne
    BY <2>2, TeleportedOK, PacketAssumption
  <2>4. QED
    BY <2>3 DEF SessionOK, x
<1>5. Entered(s) = {Kicked(k)} \cup {Sending(in(m), "entered") : m \in Map}
                     \cup {Teleported(Sending(at(m), "entered"), Home, "normal") : m \in Dungeon}
  BY DEF Entered
<1> HIDE DEF u, k, at, in
<1>6. QED
  BY <1>1, <1>3, <1>4, <1>5

(* A handler leaves a session, and one that is called without a player      *)
(* brings none and forgets that one has just left.                          *)
LEMMA HandledOK ==
  ASSUME NEW s, SessionOK(s), NEW p \in Packet, NEW t \in Handled(p, s),
         p.op \in LoggedIn \cup Transfer => s.player # NoOne
  PROVE  /\ SessionOK(t)
         /\ s.player = NoOne /\ ~s.recent => t.player = NoOne /\ ~t.recent
<1> USE DEF SessionOK
<1>1. CASE p.op \in {"cast", "attack"}
  BY <1>1 DEF Handled
<1>2. CASE p.op = "landed"
  <2>1. t = [s EXCEPT !.near = FALSE]
    BY <1>2 DEF Handled
  <2>2. QED
    BY <2>1 DEF Session
<1>3. CASE p.op = "logout"
  <2>1. t \in LogoutAsked(s) /\ s.player # NoOne
    BY <1>3 DEF Handled, LoggedIn
  <2>2. CASE t \in LoggedOut(s)
    BY <2>1, <2>2, LoggedOutOK
  <2>3. CASE t \in {[s EXCEPT !.asked = a] : a \in BOOLEAN}
    BY <2>1, <2>3 DEF Session
  <2>4. QED
    BY <2>1, <2>2, <2>3 DEF LogoutAsked
<1>4. CASE p.op = "suspended"
  <2>1. t \in Suspended(s) /\ s.player # NoOne
    BY <1>4 DEF Handled, Transfer
  <2>2. CASE s.far = "no"
    BY <2>1, <2>2 DEF Suspended
  <2>3. CASE s.far = "normal"
    <3>1. t = Sending(s, "newworld")
      BY <2>1, <2>3 DEF Suspended
    <3>2. "newworld" \in Message
      BY DEF Message
    <3>3. QED
      BY <2>1, <3>1, <3>2, SendingOK
  <2>4. CASE s.far = "seamless"
    <3>1. t \in Ported(s)
      BY <2>1, <2>4 DEF Suspended
    <3>2. QED
      BY <2>1, <3>1, PortedOK
  <2>5. QED
    BY <2>2, <2>3, <2>4 DEF Session
<1>5. CASE p.op = "ported"
  <2>1. t \in (IF s.far = "no" THEN {s} ELSE Ported(s)) /\ s.player # NoOne
    BY <1>5 DEF Handled, Transfer
  <2>2. QED
    BY <2>1, PortedOK
<1>6. CASE p.op = "enum"
  <2> DEFINE u == [s EXCEPT !.recent = FALSE]
  <2>1. t = Sending(u, "list")
    BY <1>6 DEF Handled
  <2>2. u \in Session /\ u.inWorld = s.inWorld /\ u.player = s.player /\ u.recent = FALSE
    BY DEF Session
  <2>3. "list" \in Message
    BY DEF Message
  <2> HIDE DEF u
  <2>4. QED
    BY <2>1, <2>2, <2>3, SendingOK
<1>7. CASE p.op = "login"
  <2>1. t = LoginAsked(s, p.character)
    BY <1>7 DEF Handled
  <2>2. p.character \in Character \cup {NoOne}
    BY DEF Packet
  <2>3. QED
    BY <2>1, <2>2 DEF LoginAsked, Kicked, Session
<1>8. CASE p.op = "screen"
  <2>1. t = [s EXCEPT !.loading = NoOne]
    BY <1>8 DEF Handled
  <2>2. QED
    BY <2>1 DEF Session
<1>9. QED
  BY <1>1, <1>2, <1>3, <1>4, <1>5, <1>6, <1>7, <1>8 DEF Packet, Opcode, LoggedIn, Transfer, Authed

(* What the end of an update in the world thread does. *)
LEMMA EndOfUpdateOK ==
  ASSUME NEW s, SessionOK(s), NEW t \in AfterCallbacks(s), NEW u \in AfterLogout(t),
         NEW w \in CleanedUp(u)
  PROVE  SessionOK(w)
<1>1. SessionOK(t)
  <2>1. CASE t = s
    BY <2>1
  <2>2. CASE s.query # NoOne /\ t \in Entered(s)
    BY <2>2, EnteredOK
  <2>3. QED
    BY <2>1, <2>2 DEF AfterCallbacks
<1>2. SessionOK(u)
  BY <1>1, LoggedOutOK DEF AfterLogout, SessionOK
<1>3. SessionOK(Deleted(u))
  <2>1. NoPlayer(u) \in Session /\ NoPlayer(u).inWorld = FALSE
    BY <1>2, PacketAssumption DEF SessionOK, Session, NoPlayer
  <2>2. <<>> \in Seq(Message)
    OBVIOUS
  <2>3. QED
    BY <2>1, <2>2 DEF SessionOK, Session, Deleted
<1>4. w \in {u, Deleted(u)}
  BY DEF CleanedUp
<1>5. QED
  BY <1>2, <1>3, <1>4

-----------------------------------------------------------------------------
(* What the steps make of the packets that wait. *)

LEMMA NumbersAreNatural ==
  ASSUME NEW s \in Seq(Packet)
  PROVE  \A i \in 1 .. Len(s) : s[i].n \in Nat
<1>1. TAKE i \in 1 .. Len(s)
<1>2. s[i] \in Packet
  BY ElementOfSeq
<1>3. QED
  BY <1>2 DEF Packet

LEMMA ConcatAppend ==
  ASSUME NEW T, NEW r \in Seq(T), NEW q \in Seq(T), NEW e \in T
  PROVE  r \o Append(q, e) = Append(r \o q, e)
<1>1. Append(q, e) = q \o <<e>> /\ r \o q \in Seq(T) /\ <<e>> \in Seq(T)
  OBVIOUS
<1>2. Append(r \o q, e) = (r \o q) \o <<e>>
  BY <1>1
<1>3. QED
  BY <1>1, <1>2, ConcatAssociative

(* Sends puts the packet at the end. *)
LEMMA SendsWaiting ==
  ASSUME IInv, NEW op \in Opcode, NEW c \in Character \cup {NoOne}, Sends(op, c),
         requeue' = requeue, handled' = handled
  PROVE  /\ queue' \in Seq(Packet) /\ sent' \in Nat
         /\ Numbered' /\ handled' <= sent' /\ GamePacketsInOrder'
<1> DEFINE new == [op |-> op, n |-> IF op \in LoggedIn THEN sent + 1 ELSE 0, character |-> c]
<1> USE DEF IInv, TypeOK
<1>1. new \in Packet /\ new.op = op /\ (op \in LoggedIn => new.n = sent + 1)
  BY DEF Packet
<1>2. queue' = Append(queue, new)
  BY DEF Sends, Queued
<1> HIDE DEF new
<1>3. queue' \in Seq(Packet) /\ sent' \in Nat /\ sent <= sent' /\ (op \in LoggedIn => sent' = sent + 1)
  BY <1>1, <1>2 DEF Sends
<1>4. Waiting' = Append(Waiting, new) /\ Waiting \in Seq(Packet)
  BY <1>1, <1>2, ConcatAppend DEF Waiting
<1> DEFINE l == Len(Waiting)
<1>5. l \in Nat /\ Len(Waiting') = l + 1 /\ Waiting'[l + 1] = new
      /\ \A i \in 1 .. l : Waiting'[i] = Waiting[i]
  BY <1>1, <1>4, AppendProperties
<1>6. \A i \in 1 .. l : Waiting[i].n \in Nat
  BY <1>4, NumbersAreNatural
<1>7. \A i \in 1 .. l + 1 : i \in 1 .. l \/ i = l + 1
  BY <1>5
<1>8. Numbered' /\ handled' <= sent'
  <2>1. handled' <= sent'
    BY <1>3
  <2> SUFFICES ASSUME NEW i \in 1 .. l + 1, Waiting'[i].op \in LoggedIn
               PROVE  Waiting'[i].n <= sent'
    BY <1>5, <2>1 DEF Numbered
  <2>2. CASE i \in 1 .. l
    <3>1. Waiting'[i] = Waiting[i] /\ Waiting[i].n \in Nat
      BY <1>5, <1>6, <2>2
    <3>2. Waiting[i].n <= sent
      BY <2>2, <3>1 DEF Numbered
    <3>3. QED
      BY <1>3, <3>1, <3>2
  <2>3. CASE i = l + 1
    BY <1>1, <1>3, <1>5, <2>3
  <2>4. QED
    BY <1>7, <2>2, <2>3
<1>9. GamePacketsInOrder'
  <2> SUFFICES ASSUME NEW i \in 1 .. l + 1, Waiting'[i].op \in LoggedIn
               PROVE  /\ Waiting'[i].n > handled
                      /\ \A j \in 1 .. i - 1 : Waiting'[j].op \in LoggedIn => Waiting'[j].n < Waiting'[i].n
    BY <1>5 DEF GamePacketsInOrder
  <2>1. CASE i \in 1 .. l
    <3>1. Waiting'[i] = Waiting[i] /\ \A j \in 1 .. i - 1 : j \in 1 .. l /\ Waiting'[j] = Waiting[j]
      BY <1>5, <2>1
    <3>2. QED
      BY <2>1, <3>1 DEF GamePacketsInOrder
  <2>2. CASE i = l + 1
    <3>1. \A j \in 1 .. i - 1 : j \in 1 .. l /\ Waiting'[j] = Waiting[j]
      BY <1>5, <2>2
    <3>2. \A j \in 1 .. i - 1 : Waiting'[j].op \in LoggedIn => Waiting'[j].n <= sent /\ Waiting'[j].n \in Nat
      BY <1>6, <3>1 DEF Numbered
    <3>3. Waiting'[i].n = sent + 1
      BY <1>1, <1>5, <2>2
    <3>4. QED
      BY <3>2, <3>3
  <2>3. QED
    BY <1>7, <2>1, <2>2
<1>10. QED
  BY <1>3, <1>8, <1>9

(* As long as the packets that wait stay the same, so does their order. *)
LEMMA SameWaiting ==
  ASSUME IInv, Waiting' = Waiting, sent' = sent, handled' = handled
  PROVE  Numbered' /\ handled' <= sent' /\ GamePacketsInOrder'
  BY DEF IInv, Numbered, GamePacketsInOrder

(* A packet that is kept, and what was kept when it is put back, stay where *)
(* they were.                                                               *)
LEMMA KeptWaiting ==
  ASSUME TypeOK, queue # <<>>
  PROVE  Append(requeue, Head(queue)) \o Tail(queue) = Waiting
<1> DEFINE h == Head(queue)
           t == Tail(queue)
<1>1. h \in Packet /\ t \in Seq(Packet) /\ queue = <<h>> \o t /\ requeue \in Seq(Packet)
  BY DEF TypeOK
<1> HIDE DEF h, t
<1>2. Append(requeue, h) = requeue \o <<h>> /\ <<h>> \in Seq(Packet)
  BY <1>1
<1>3. (requeue \o <<h>>) \o t = requeue \o (<<h>> \o t)
  BY <1>1, <1>2, ConcatAssociative
<1>4. QED
  BY <1>1, <1>2, <1>3 DEF Waiting, h, t

(* A packet that is taken leaves those before and behind it. *)
LEMMA TakenWaiting ==
  ASSUME TypeOK, queue # <<>>, queue' = Tail(queue), requeue' = requeue, NEW k, k = Len(requeue)
  PROVE  /\ k \in Nat /\ Len(Waiting) \in Nat /\ k + 1 <= Len(Waiting) /\ Waiting[k + 1] = Head(queue)
         /\ Len(Waiting') = Len(Waiting) - 1
         /\ \A i \in 1 .. k : Waiting'[i] = Waiting[i]
         /\ \A i \in k + 1 .. Len(Waiting) - 1 : Waiting'[i] = Waiting[i + 1]
         /\ \A i \in 1 .. Len(Waiting) : Waiting[i].n \in Nat
<1>1. /\ requeue \in Seq(Packet) /\ queue \in Seq(Packet) /\ Tail(queue) \in Seq(Packet)
      /\ Len(Tail(queue)) = Len(queue) - 1 /\ Len(queue) \in Nat \ {0}
      /\ \A i \in 1 .. Len(queue) - 1 : Tail(queue)[i] = queue[i + 1]
      /\ Head(queue) = queue[1]
  BY DEF TypeOK
<1>2. /\ Waiting \in Seq(Packet) /\ Len(Waiting) = k + Len(queue) /\ k \in Nat
      /\ \A i \in 1 .. k : Waiting[i] = requeue[i]
      /\ \A i \in k + 1 .. k + Len(queue) : Waiting[i] = queue[i - k]
  BY <1>1 DEF Waiting
<1>3. Waiting' = requeue \o Tail(queue)
  BY DEF Waiting
<1>4. /\ Len(Waiting') = k + Len(queue) - 1
      /\ \A i \in 1 .. k : Waiting'[i] = requeue[i]
      /\ \A i \in k + 1 .. k + Len(queue) - 1 : Waiting'[i] = Tail(queue)[i - k]
  BY <1>1, <1>2, <1>3
<1>5. ASSUME NEW i \in k + 1 .. Len(Waiting) - 1 PROVE Waiting'[i] = Waiting[i + 1]
  <2>1. i - k \in 1 .. Len(queue) - 1 /\ (i + 1) - k = (i - k) + 1 /\ i + 1 \in k + 1 .. k + Len(queue)
    BY <1>1, <1>2
  <2>2. i \in k + 1 .. k + Len(queue) - 1 /\ i + 1 \in k + 1 .. k + Len(queue)
    BY <1>1, <1>2
  <2>3. Waiting'[i] = Tail(queue)[i - k]
    BY <1>4, <2>2
  <2>4. Waiting[i + 1] = queue[(i + 1) - k]
    BY <1>2, <2>2
  <2>5. Tail(queue)[i - k] = queue[(i - k) + 1]
    BY <1>1, <2>1
  <2>6. QED
    BY <2>1, <2>3, <2>4, <2>5
<1>6. \A i \in 1 .. Len(Waiting) : Waiting[i].n \in Nat
  BY <1>2, NumbersAreNatural
<1>7. Waiting[k + 1] = Head(queue)
  BY <1>1, <1>2
<1>8. QED
  BY <1>1, <1>2, <1>4, <1>5, <1>6, <1>7

(* A packet that is taken while others of its kind are kept would overtake *)
(* them; but then there are none.                                          *)
LEMMA TakenInOrder ==
  ASSUME IInv, TakePacket
  PROVE  Numbered' /\ handled' \in Nat /\ handled' <= sent' /\ GamePacketsInOrder'
<1> DEFINE p == Head(queue)
           k == Len(requeue)
<1>1. /\ queue # <<>> /\ queue' = Tail(queue) /\ requeue' = requeue /\ sent' = sent
      /\ handled' = IF p.op \in LoggedIn THEN p.n ELSE handled
      /\ p.op \in LoggedIn => session.player # NoOne \/ session.recent
  BY DEF TakePacket, HasNext
<1>2. TypeOK
  BY DEF IInv
<1>3. p.op \in LoggedIn => requeue = <<>> /\ k = 0
  BY <1>1 DEF IInv, OnlyWithoutPlayer
<1> HIDE DEF p, k
<1>4. /\ k \in Nat /\ Len(Waiting) \in Nat /\ k + 1 <= Len(Waiting) /\ Waiting[k + 1] = p
      /\ Len(Waiting') = Len(Waiting) - 1
      /\ \A i \in 1 .. k : Waiting'[i] = Waiting[i]
      /\ \A i \in k + 1 .. Len(Waiting) - 1 : Waiting'[i] = Waiting[i + 1]
      /\ \A i \in 1 .. Len(Waiting) : Waiting[i].n \in Nat
  BY <1>1, <1>2, TakenWaiting DEF k, p
<1> DEFINE old(i) == IF i <= k THEN i ELSE i + 1
<1>5. \A i \in 1 .. Len(Waiting') :
        /\ old(i) \in 1 .. Len(Waiting) /\ Waiting'[i] = Waiting[old(i)] /\ old(i) # k + 1
        /\ \A j \in 1 .. i - 1 : old(j) \in 1 .. old(i) - 1 /\ Waiting'[j] = Waiting[old(j)]
  <2> TAKE i \in 1 .. Len(Waiting')
  <2>1. old(i) \in 1 .. Len(Waiting) /\ old(i) # k + 1 /\ i \in Nat
    BY <1>4
  <2>2. ASSUME NEW j \in 1 .. i PROVE Waiting'[j] = Waiting[old(j)]
    <3>1. CASE j <= k
      BY <1>4, <3>1
    <3>2. CASE ~(j <= k)
      <4>1. j \in k + 1 .. Len(Waiting) - 1
        BY <1>4, <3>2
      <4>2. QED
        BY <1>4, <3>2, <4>1
    <3>3. QED
      BY <3>1, <3>2
  <2>3. \A j \in 1 .. i - 1 : j \in 1 .. i /\ old(j) \in 1 .. old(i) - 1
    BY <1>4, <2>1
  <2>4. i \in 1 .. i
    BY <2>1
  <2> HIDE DEF old
  <2>5. QED
    BY <2>1, <2>2, <2>3, <2>4
<1>6. p.op \in LoggedIn => \A i \in 1 .. Len(Waiting') : 1 \in 1 .. old(i) - 1 /\ Waiting[1] = p
  BY <1>3, <1>4
<1> HIDE DEF old
<1>7. sent \in Nat /\ handled \in Nat /\ handled <= sent /\ Numbered /\ GamePacketsInOrder
  BY DEF IInv, TypeOK
<1>8. p.op \in LoggedIn => p.n \in Nat /\ p.n <= sent
  BY <1>4, <1>7 DEF Numbered
<1>9. Numbered'
  BY <1>1, <1>5, <1>7 DEF Numbered
<1>10. GamePacketsInOrder'
  <2> SUFFICES ASSUME NEW i \in 1 .. Len(Waiting'), Waiting'[i].op \in LoggedIn
               PROVE  /\ Waiting'[i].n > handled'
                      /\ \A j \in 1 .. i - 1 : Waiting'[j].op \in LoggedIn => Waiting'[j].n < Waiting'[i].n
    BY DEF GamePacketsInOrder
  <2>1. /\ Waiting[old(i)].n > handled /\ Waiting[old(i)].n \in Nat
        /\ \A j \in 1 .. old(i) - 1 : Waiting[j].op \in LoggedIn => Waiting[j].n < Waiting[old(i)].n
    BY <1>4, <1>5, <1>7 DEF GamePacketsInOrder
  <2>2. Waiting'[i].n > handled'
    BY <1>1, <1>5, <1>6, <1>8, <2>1
  <2>3. QED
    BY <1>5, <2>1, <2>2
<1>11. QED
  BY <1>1, <1>7, <1>8, <1>9, <1>10

-----------------------------------------------------------------------------
(* The inductive invariant. *)

LEMMA InitIInv == Init => IInv
<1> SUFFICES ASSUME Init PROVE IInv
  OBVIOUS
<1>1. session \in Session /\ session.inWorld = FALSE
  BY PacketAssumption DEF Init, Session
<1>2. TypeOK
  BY <1>1, PacketAssumption DEF Init, TypeOK
<1>3. Waiting = <<>> /\ Len(Waiting) = 0
  BY DEF Init, Waiting
<1>4. QED
  BY <1>1, <1>2, <1>3 DEF IInv, InWorldHasPlayer, OnlyWithoutPlayer, Numbered, GamePacketsInOrder, Init

(* A packet or a login less is within the bounds. *)
LEMMA BudgetLowered ==
  ASSUME NEW b \in [packets : 0 .. MaxPackets, logins : 0 .. MaxLogins, teleports : 0 .. MaxTeleports]
  PROVE  /\ b.packets > 0 => [b EXCEPT !.packets = @ - 1]
              \in [packets : 0 .. MaxPackets, logins : 0 .. MaxLogins, teleports : 0 .. MaxTeleports]
         /\ b.logins > 0 => [b EXCEPT !.logins = @ - 1]
              \in [packets : 0 .. MaxPackets, logins : 0 .. MaxLogins, teleports : 0 .. MaxTeleports]
<1>1. MaxPackets \in Nat /\ MaxLogins \in Nat
  BY PacketAssumption
<1>2. b.packets > 0 => b.packets - 1 \in 0 .. MaxPackets
  BY <1>1
<1>3. b.logins > 0 => b.logins - 1 \in 0 .. MaxLogins
  BY <1>1
<1>4. QED
  BY <1>2, <1>3

(* The steps of the network threads and of the client. *)
LEMMA ClientStepIInv ==
  ASSUME IInv, ClientNext
  PROVE  IInv'
<1> USE DEF IInv, TypeOK
<1>1. CASE ClientLists
  <2>1. "enum" \in Opcode /\ Sends("enum", NoOne) /\ requeue' = requeue /\ session' = session
        /\ handled' = handled /\ client' \in [at : {"start", "waiting", "list", "loading", "world"}, as : Character \cup {NoOne}]
    BY <1>1 DEF ClientLists, serverVars, Opcode, Authed
  <2>2. Numbered' /\ handled' <= sent' /\ GamePacketsInOrder' /\ queue' \in Seq(Packet) /\ sent' \in Nat
    BY <2>1, SendsWaiting
  <2>3. QED
    BY <1>1, <2>1, <2>2 DEF ClientLists, serverVars, InWorldHasPlayer, OnlyWithoutPlayer
<1>2. ASSUME NEW c \in Character, ClientLogsIn(c) PROVE IInv'
  <2>1. "login" \in Opcode /\ Sends("login", c) /\ requeue' = requeue /\ session' = session /\ handled' = handled
    BY <1>2 DEF ClientLogsIn, serverVars, Opcode, Authed
  <2>2. Numbered' /\ handled' <= sent' /\ GamePacketsInOrder' /\ queue' \in Seq(Packet) /\ sent' \in Nat
    BY <2>1, SendsWaiting
  <2>3. budget' \in [packets : 0 .. MaxPackets, logins : 0 .. MaxLogins, teleports : 0 .. MaxTeleports]
    BY <1>2, BudgetLowered DEF ClientLogsIn
  <2>4. QED
    BY <1>2, <2>1, <2>2, <2>3 DEF ClientLogsIn, serverVars, InWorldHasPlayer, OnlyWithoutPlayer
<1>3. ASSUME NEW op \in {"cast", "attack", "logout"}, ClientPlays(op) PROVE IInv'
  <2>1. op \in Opcode /\ client.as \in Character \cup {NoOne} /\ Sends(op, client.as)
        /\ requeue' = requeue /\ session' = session /\ handled' = handled
    BY <1>3 DEF ClientPlays, serverVars, Opcode, LoggedIn
  <2>2. Numbered' /\ handled' <= sent' /\ GamePacketsInOrder' /\ queue' \in Seq(Packet) /\ sent' \in Nat
    BY <2>1, SendsWaiting
  <2>3. budget' \in [packets : 0 .. MaxPackets, logins : 0 .. MaxLogins, teleports : 0 .. MaxTeleports]
    BY <1>3, BudgetLowered DEF ClientPlays
  <2>4. QED
    BY <1>3, <2>1, <2>2, <2>3 DEF ClientPlays, serverVars, InWorldHasPlayer, OnlyWithoutPlayer
<1>4. CASE ClientReceives
  <2> DEFINE m == Head(session.out)
  <2>1. /\ requeue' = requeue /\ handled' = handled
        /\ UNCHANGED <<budget, requeue, taken, stage, handled, givenUp>>
        /\ client' = Informed(m)
        /\ \/ UNCHANGED <<queue, sent>>
           \/ \E op \in Answer(m) : Sends(op, client.as)
    BY <1>4 DEF ClientReceives
  <2>2. session' \in Session /\ session'.player = session.player /\ session'.recent = session.recent
        /\ session'.inWorld = session.inWorld
    <3>1. Tail(session.out) \in Seq(Message)
      BY <1>4 DEF ClientReceives, Session
    <3>2. session' = [session EXCEPT !.out = Tail(@)]
      BY <1>4 DEF ClientReceives
    <3>3. QED
      BY <3>1, <3>2 DEF Session
  <2>3. client' \in [at : {"start", "waiting", "list", "loading", "world"}, as : Character \cup {NoOne}]
    BY <2>1 DEF Informed
  <2>4. Numbered' /\ handled' <= sent' /\ GamePacketsInOrder' /\ queue' \in Seq(Packet) /\ sent' \in Nat
    <3>1. CASE UNCHANGED <<queue, sent>>
      BY <2>1, <3>1, SameWaiting DEF Waiting
    <3>2. ASSUME NEW op \in Answer(m), Sends(op, client.as)
          PROVE  Numbered' /\ handled' <= sent' /\ GamePacketsInOrder' /\ queue' \in Seq(Packet) /\ sent' \in Nat
      <4>1. op \in Opcode
        BY DEF Answer, Opcode, LoggedIn, Authed, Transfer
      <4>2. client.as \in Character \cup {NoOne}
        OBVIOUS
      <4>3. QED
        BY <2>1, <3>2, <4>1, <4>2, SendsWaiting
    <3>3. QED
      BY <2>1, <3>1, <3>2
  <2> HIDE DEF m
  <2>5. QED
    BY <2>1, <2>2, <2>3, <2>4 DEF InWorldHasPlayer, OnlyWithoutPlayer
<1>5. CASE AbortLogin
  <2> DEFINE s == [session EXCEPT !.loading = NoOne, !.connect = FALSE]
             k == Kicked(session)
  <2>1. /\ s \in Session /\ s.player = session.player /\ s.inWorld = session.inWorld /\ s.recent = session.recent
        /\ k \in Session /\ k.player = session.player /\ k.inWorld = session.inWorld /\ k.recent = session.recent
    BY DEF Session, Kicked
  <2>2. session' = (IF session.player # NoOne THEN k ELSE Sending(s, "failed")) /\ "failed" \in Message
    BY <1>5 DEF AbortLogin, Message
  <2> HIDE DEF s, k
  <2>3. session' \in Session /\ session'.player = session.player /\ session'.recent = session.recent
        /\ session'.inWorld = session.inWorld
    BY <2>1, <2>2, SendingOK
  <2>4. givenUp' \subseteq Character
    <3>1. session.loading \in Character
      BY <1>5 DEF AbortLogin, Session
    <3>2. QED
      BY <1>5, <3>1 DEF AbortLogin
  <2>5. Waiting' = Waiting /\ sent' = sent /\ handled' = handled
    BY <1>5 DEF AbortLogin, Waiting
  <2>6. QED
    BY <1>5, <2>3, <2>4, <2>5, SameWaiting DEF AbortLogin, InWorldHasPlayer, OnlyWithoutPlayer
<1>6. CASE CloseSocket
  <2>1. session' \in Session /\ session'.player = session.player /\ session'.recent = session.recent
        /\ session'.inWorld = session.inWorld
    BY <1>6 DEF CloseSocket, Session
  <2>2. Waiting' = Waiting /\ sent' = sent /\ handled' = handled
    BY <1>6 DEF CloseSocket, Waiting
  <2>3. QED
    BY <1>6, <2>1, <2>2, SameWaiting DEF CloseSocket, InWorldHasPlayer, OnlyWithoutPlayer
<1>7. QED
  BY <1>1, <1>2, <1>3, <1>4, <1>5, <1>6 DEF ClientNext

(* The steps of the server that leave the queue alone. *)
LEMMA SessionStepIInv ==
  ASSUME IInv, LinkInstanceSocket \/ BeginUpdate \/ \E m \in Map, option \in {"normal", "seamless"} : Teleport(m, option)
  PROVE  IInv'
<1> USE DEF IInv, TypeOK
<1>1. CASE LinkInstanceSocket
  <2> DEFINE s == [session EXCEPT !.connect = FALSE]
             q == [s EXCEPT !.query = s.loading]
             k == Kicked(s)
  <2>1. /\ k \in Session /\ k.player = session.player /\ k.inWorld = session.inWorld /\ k.recent = session.recent
        /\ q \in Session /\ q.player = session.player /\ q.inWorld = session.inWorld /\ q.recent = session.recent
    BY DEF Session, Kicked
  <2>2. session' \in {k, q}
    BY <1>1 DEF LinkInstanceSocket
  <2> HIDE DEF s, q, k
  <2>3. Waiting' = Waiting /\ sent' = sent /\ handled' = handled
    BY <1>1 DEF LinkInstanceSocket, Waiting
  <2>4. QED
    BY <1>1, <2>1, <2>2, <2>3, SameWaiting DEF LinkInstanceSocket, InWorldHasPlayer, OnlyWithoutPlayer
<1>2. CASE BeginUpdate
  <2>1. Waiting' = Waiting /\ sent' = sent /\ handled' = handled
    BY <1>2 DEF BeginUpdate, Waiting
  <2>2. QED
    BY <1>2, <2>1, SameWaiting DEF BeginUpdate, InWorldHasPlayer, OnlyWithoutPlayer
<1>3. ASSUME NEW m \in Map, NEW option \in {"normal", "seamless"}, Teleport(m, option) PROVE IInv'
  <2>1. session' = Teleported(session, m, option) /\ session.inWorld
    BY <1>3 DEF Teleport
  <2>2. session' \in Session /\ session'.player = session.player /\ session'.recent = session.recent
    BY <2>1, TeleportedOK, ZenonT(30)
  <2>3. Waiting' = Waiting /\ sent' = sent /\ handled' = handled
    BY <1>3 DEF Teleport, Waiting
  <2>4. budget' \in [packets : 0 .. MaxPackets, logins : 0 .. MaxLogins, teleports : 0 .. MaxTeleports]
    BY <1>3, PacketAssumption, SMTT(30) DEF Teleport
  <2>5. QED
    BY <1>3, <2>1, <2>2, <2>3, <2>4, SameWaiting DEF Teleport, InWorldHasPlayer, OnlyWithoutPlayer
<1>4. QED
  BY <1>1, <1>2, <1>3

(* The loop over the packets. *)
LEMMA LoopIInv ==
  ASSUME IInv, Requeue \/ TakePacket
  PROVE  IInv'
<1> USE DEF IInv
<1>1. queue # <<>> /\ queue' = Tail(queue) /\ taken' = taken + 1 /\ taken <= MaxProcessed
      /\ UNCHANGED <<client, sent, budget, stage, givenUp>>
  BY DEF Requeue, TakePacket, HasNext
<1>2. /\ Head(queue) \in Packet /\ queue' \in Seq(Packet) /\ taken' \in 0 .. MaxProcessed + 1
  BY <1>1, PacketAssumption DEF TypeOK
<1>3. CASE Requeue
  <2>1. requeue' = Append(requeue, Head(queue)) /\ UNCHANGED <<session, handled>>
        /\ session.player = NoOne /\ ~session.recent
    BY <1>3 DEF Requeue
  <2>2. Waiting' = Waiting
    BY <1>1, <2>1, KeptWaiting DEF Waiting
  <2>3. requeue' \in Seq(Packet)
    BY <1>2, <2>1 DEF TypeOK
  <2>4. TypeOK'
    BY <1>1, <1>2, <2>1, <2>3 DEF TypeOK
  <2>5. QED
    BY <1>1, <2>1, <2>2, <2>4, SameWaiting DEF InWorldHasPlayer, OnlyWithoutPlayer
<1>4. CASE TakePacket
  <2> DEFINE p == Head(queue)
  <2>1. requeue' = requeue /\ (p.op \in LoggedIn => session.player # NoOne \/ session.recent)
        /\ session' \in (IF Accepts(p) THEN Handled(p, session) ELSE {session})
    BY <1>4 DEF TakePacket
  <2>2. Accepts(p) => (p.op \in LoggedIn \cup Transfer => session.player # NoOne)
    BY DEF Accepts
  <2>3. SessionOK(session)
    BY DEF TypeOK, InWorldHasPlayer, SessionOK
  <2>4. /\ SessionOK(session')
        /\ session.player = NoOne /\ ~session.recent => session'.player = NoOne /\ ~session'.recent
    BY <1>2, <2>1, <2>2, <2>3, HandledOK
  <2>5. Numbered' /\ handled' \in Nat /\ handled' <= sent' /\ GamePacketsInOrder'
    BY <1>4, TakenInOrder
  <2>6. TypeOK'
    BY <1>1, <1>2, <2>1, <2>4, <2>5 DEF TypeOK, SessionOK
  <2>7. QED
    BY <2>1, <2>4, <2>5, <2>6 DEF InWorldHasPlayer, OnlyWithoutPlayer, SessionOK
<1>5. QED
  BY <1>3, <1>4

LEMMA EndUpdateIInv ==
  ASSUME IInv, EndUpdate
  PROVE  IInv'
<1> USE DEF IInv
<1>1. requeue' = <<>> /\ taken' = 0 /\ UNCHANGED <<client, sent, budget, handled, givenUp>>
  BY DEF EndUpdate
<1>2. queue' \in {<<>>, requeue \o queue} /\ stage' \in {"sessions", "maps"}
  BY DEF EndUpdate, Readd
<1>3. SessionOK(session)
  BY DEF TypeOK, InWorldHasPlayer, SessionOK
<1>4. SessionOK(session')
  <2>1. CASE session' = session
    BY <1>3, <2>1
  <2>2. ASSUME NEW s \in AfterCallbacks(session), NEW t \in AfterLogout(s), session' \in CleanedUp(t)
        PROVE  SessionOK(session')
    BY <1>3, <2>2, EndOfUpdateOK
  <2>3. QED
    BY <2>1, <2>2 DEF EndUpdate
<1>5. queue' \in Seq(Packet)
  <2>1. <<>> \in Seq(Packet) /\ requeue \o queue \in Seq(Packet)
    BY ConcatProperties DEF TypeOK
  <2>2. QED
    BY <1>2, <2>1
<1>6. Waiting' = queue'
  BY <1>1, <1>5 DEF Waiting
<1>7. Numbered' /\ handled' <= sent' /\ GamePacketsInOrder'
  <2>1. CASE queue' = <<>>
    <3>1. Len(Waiting') = 0
      BY <1>6, <2>1
    <3>2. QED
      BY <1>1, <3>1 DEF Numbered, GamePacketsInOrder
  <2>2. CASE queue' = requeue \o queue
    BY <1>1, <1>6, <2>2, SameWaiting DEF Waiting
  <2>3. QED
    BY <1>2, <2>1, <2>2
<1>8. TypeOK'
  BY <1>1, <1>2, <1>4, <1>5, PacketAssumption DEF TypeOK, SessionOK
<1>9. QED
  BY <1>1, <1>4, <1>7, <1>8 DEF InWorldHasPlayer, OnlyWithoutPlayer, SessionOK

LEMMA NextIInv ==
  ASSUME IInv, [Next]_vars
  PROVE  IInv'
<1>1. CASE UNCHANGED vars
  BY <1>1 DEF vars, serverVars, IInv, TypeOK, InWorldHasPlayer, OnlyWithoutPlayer, Numbered,
              GamePacketsInOrder, Waiting
<1>2. CASE ClientNext
  BY <1>2, ClientStepIInv
<1>3. CASE LinkInstanceSocket \/ BeginUpdate \/ \E m \in Map, option \in {"normal", "seamless"} : Teleport(m, option)
  BY <1>3, SessionStepIInv
<1>4. CASE Requeue \/ TakePacket
  BY <1>4, LoopIInv
<1>5. CASE EndUpdate
  BY <1>5, EndUpdateIInv
<1>6. QED
  BY <1>1, <1>2, <1>3, <1>4, <1>5 DEF Next, UpdateNext

-----------------------------------------------------------------------------
(* The state has its types, and while packets are kept for a player who is  *)
(* still to come, there is none and none has just left.                     *)
THEOREM Invariance == Spec => []IInv
  BY InitIInv, NextIInv, PTL DEF Spec

(* However the packets of a client arrive and whatever is kept and put back *)
(* while its player is not there yet, those for a player in the world are   *)
(* done with in the order they were sent in, none of them twice.            *)
THEOREM GameOrder == Spec => []GamePacketsInOrder
<1>1. IInv => GamePacketsInOrder
  BY DEF IInv
<1>2. QED
  BY <1>1, Invariance, PTL
-----------------------------------------------------------------------------
(* Sequences of which one entry is added or taken.  Absent: no entry is in  *)
(* S; Single: one entry is in S, and it is in E; Ahead: those in S come     *)
(* before those in C; Followed: each in S has one in C behind it.           *)

Absent(x, S) == \A i \in 1 .. Len(x) : x[i] \notin S

Single(x, E, S) ==
  \E i \in 1 .. Len(x) : x[i] \in E /\ \A j \in 1 .. Len(x) : x[j] \in S => j = i

Ahead(x, S, C) == \A i \in 1 .. Len(x) : x[i] \in S => \A j \in 1 .. i - 1 : x[j] \notin C

Followed(x, S, C) == \A i \in 1 .. Len(x) : x[i] \in S => \E j \in i + 1 .. Len(x) : x[j] \in C

Appended(x, y, e) ==
  /\ Len(x) \in Nat /\ Len(y) = Len(x) + 1 /\ y[Len(x) + 1] = e
  /\ \A i \in 1 .. Len(x) : y[i] = x[i]

Removed(x, y, m) ==
  /\ Len(x) \in Nat /\ m \in 1 .. Len(x) /\ Len(y) = Len(x) - 1
  /\ \A i \in 1 .. m - 1 : y[i] = x[i]
  /\ \A i \in m .. Len(x) - 1 : y[i] = x[i + 1]

LEMMA AppendIsAppended ==
  ASSUME NEW T, NEW x \in Seq(T), NEW e \in T
  PROVE  Appended(x, Append(x, e), e)
  BY AppendProperties DEF Appended

LEMMA TailIsRemoved ==
  ASSUME NEW T, NEW x \in Seq(T), x # <<>>
  PROVE  Removed(x, Tail(x), 1) /\ x[1] = Head(x)
<1>1. Len(x) \in Nat /\ Len(x) # 0 /\ x[1] = Head(x)
  OBVIOUS
<1>2. Len(Tail(x)) = Len(x) - 1 /\ \A i \in 1 .. Len(Tail(x)) : Tail(x)[i] = x[i + 1]
  BY HeadTailProperties
<1>3. QED
  BY <1>1, <1>2 DEF Removed

LEMMA AppendedKeeps ==
  ASSUME NEW x, NEW y, NEW e, Appended(x, y, e)
  PROVE  /\ \A S : e \notin S => /\ Absent(x, S) => Absent(y, S)
                                 /\ \A E : Single(x, E, S) => Single(y, E, S)
                                 /\ \A C : Ahead(x, S, C) => Ahead(y, S, C)
                                 /\ \A C : Followed(x, S, C) => Followed(y, S, C)
         /\ \A E, S : e \in E /\ Absent(x, S) => Single(y, E, S)
         /\ \A S, C : Absent(x, C) => Ahead(y, S, C)
         /\ \A S, C : e \in C \ S => Followed(y, S, C)
<1> DEFINE l == Len(x)
<1>1. /\ l \in Nat /\ Len(y) = l + 1 /\ y[l + 1] = e /\ \A i \in 1 .. l : y[i] = x[i]
      /\ \A i \in 1 .. l + 1 : i \in 1 .. l \/ i = l + 1
  BY DEF Appended
<1>2. ASSUME NEW S, e \notin S, Absent(x, S) PROVE Absent(y, S)
  BY <1>1, <1>2 DEF Absent
<1>3. ASSUME NEW S, NEW E, e \notin S, Single(x, E, S) PROVE Single(y, E, S)
  <2>1. PICK i \in 1 .. l : x[i] \in E /\ \A j \in 1 .. l : x[j] \in S => j = i
    BY <1>3 DEF Single
  <2>2. i \in 1 .. l + 1 /\ y[i] \in E
    BY <1>1, <2>1
  <2>3. \A j \in 1 .. l + 1 : y[j] \in S => j = i
    BY <1>1, <1>3, <2>1
  <2>4. QED
    BY <1>1, <2>2, <2>3 DEF Single
<1>4. ASSUME NEW S, NEW C, e \notin S, Ahead(x, S, C) PROVE Ahead(y, S, C)
  <2> SUFFICES ASSUME NEW i \in 1 .. l + 1, y[i] \in S, NEW j \in 1 .. i - 1 PROVE y[j] \notin C
    BY <1>1 DEF Ahead
  <2>1. i \in 1 .. l /\ j \in 1 .. l
    BY <1>1, <1>4
  <2>2. QED
    BY <1>1, <1>4, <2>1 DEF Ahead
<1>5. ASSUME NEW S, NEW C, e \notin S, Followed(x, S, C) PROVE Followed(y, S, C)
  <2> SUFFICES ASSUME NEW i \in 1 .. l + 1, y[i] \in S PROVE \E j \in i + 1 .. l + 1 : y[j] \in C
    BY <1>1 DEF Followed
  <2>1. i \in 1 .. l
    BY <1>1, <1>5
  <2>2. PICK j \in i + 1 .. l : x[j] \in C
    BY <1>1, <1>5, <2>1 DEF Followed
  <2>3. j \in i + 1 .. l + 1 /\ j \in 1 .. l
    BY <1>1, <2>1
  <2>4. QED
    BY <1>1, <2>2, <2>3
<1>6. ASSUME NEW E, NEW S, e \in E, Absent(x, S) PROVE Single(y, E, S)
  <2>1. l + 1 \in 1 .. l + 1 /\ y[l + 1] \in E
    BY <1>1, <1>6
  <2>2. \A j \in 1 .. l + 1 : y[j] \in S => j = l + 1
    BY <1>1, <1>6 DEF Absent
  <2>3. QED
    BY <1>1, <2>1, <2>2 DEF Single
<1>7. ASSUME NEW S, NEW C, Absent(x, C) PROVE Ahead(y, S, C)
  <2> SUFFICES ASSUME NEW i \in 1 .. l + 1, NEW j \in 1 .. i - 1 PROVE y[j] \notin C
    BY <1>1 DEF Ahead
  <2>1. j \in 1 .. l
    BY <1>1
  <2>2. QED
    BY <1>1, <1>7, <2>1 DEF Absent
<1>8. ASSUME NEW S, NEW C, e \in C \ S PROVE Followed(y, S, C)
  <2> SUFFICES ASSUME NEW i \in 1 .. l + 1, y[i] \in S PROVE \E j \in i + 1 .. l + 1 : y[j] \in C
    BY <1>1 DEF Followed
  <2>1. i \in 1 .. l
    BY <1>1, <1>8
  <2>2. l + 1 \in i + 1 .. l + 1 /\ y[l + 1] \in C
    BY <1>1, <1>8, <2>1
  <2>3. QED
    BY <2>2
<1>9. QED
  BY <1>2, <1>3, <1>4, <1>5, <1>6, <1>7, <1>8

LEMMA RemovedKeeps ==
  ASSUME NEW x, NEW y, NEW m, Removed(x, y, m)
  PROVE  /\ \A S : Absent(x, S) => Absent(y, S)
         /\ \A E, S : Single(x, E, S) /\ x[m] \notin S /\ E \subseteq S => Single(y, E, S)
         /\ \A E, S : Single(x, E, S) /\ x[m] \in S => x[m] \in E /\ Absent(y, S)
         /\ \A S, C : Ahead(x, S, C) => Ahead(y, S, C)
         /\ \A S, C : Ahead(x, S, C) /\ m = 1 /\ x[m] \in C => Absent(y, S)
         /\ \A S, C : m = 1 /\ Followed(x, S, C) => Followed(y, S, C)
<1> DEFINE l == Len(x)
           old(i) == IF i < m THEN i ELSE i + 1
<1>1. l \in Nat /\ m \in 1 .. l /\ Len(y) = l - 1
  BY DEF Removed
<1>2. \A i \in 1 .. l - 1 : old(i) \in 1 .. l /\ old(i) # m /\ y[i] = x[old(i)]
  <2> TAKE i \in 1 .. l - 1
  <2>1. CASE i < m
    <3>1. i \in 1 .. m - 1
      BY <1>1, <2>1
    <3>2. QED
      BY <1>1, <2>1, <3>1 DEF Removed
  <2>2. CASE ~(i < m)
    <3>1. i \in m .. l - 1
      BY <1>1, <2>2
    <3>2. QED
      BY <1>1, <2>2, <3>1 DEF Removed
  <2>3. QED
    BY <2>1, <2>2
<1>3. \A i \in 1 .. l - 1 : \A j \in 1 .. i - 1 : j \in 1 .. l - 1 /\ old(j) \in 1 .. old(i) - 1
  BY <1>1
<1>4. \A k \in 1 .. l : k # m => \E i \in 1 .. l - 1 : old(i) = k
  <2> TAKE k \in 1 .. l
  <2> HAVE k # m
  <2>1. CASE k < m
    <3>1. k \in 1 .. l - 1 /\ old(k) = k
      BY <1>1, <2>1
    <3>2. QED
      BY <3>1
  <2>2. CASE ~(k < m)
    <3>1. k - 1 \in 1 .. l - 1 /\ old(k - 1) = k
      BY <1>1, <2>2
    <3>2. QED
      BY <3>1
  <2>3. QED
    BY <2>1, <2>2
<1>5. \A i, j \in 1 .. l - 1 : old(i) = old(j) => i = j
  BY <1>1
<1>6. m = 1 => \A i \in 1 .. l - 1 : old(i) = i + 1 /\ 1 \in 1 .. old(i) - 1
  BY <1>1
<1> HIDE DEF old
<1>7. ASSUME NEW S, Absent(x, S) PROVE Absent(y, S)
  BY <1>1, <1>2, <1>7 DEF Absent
<1>8. ASSUME NEW E, NEW S, Single(x, E, S), x[m] \notin S, E \subseteq S PROVE Single(y, E, S)
  <2>1. PICK k \in 1 .. l : x[k] \in E /\ \A j \in 1 .. l : x[j] \in S => j = k
    BY <1>8 DEF Single
  <2>2. k # m
    BY <1>8, <2>1
  <2>3. PICK i \in 1 .. l - 1 : old(i) = k
    BY <1>4, <2>2
  <2>4. y[i] \in E
    BY <1>2, <2>1, <2>3
  <2>5. \A j \in 1 .. l - 1 : y[j] \in S => j = i
    BY <1>2, <1>5, <2>1, <2>3
  <2>6. QED
    BY <1>1, <2>4, <2>5 DEF Single
<1>9. ASSUME NEW E, NEW S, Single(x, E, S), x[m] \in S PROVE x[m] \in E /\ Absent(y, S)
  <2>1. PICK k \in 1 .. l : x[k] \in E /\ \A j \in 1 .. l : x[j] \in S => j = k
    BY <1>9 DEF Single
  <2>2. k = m
    BY <1>1, <1>9, <2>1
  <2>3. QED
    BY <1>1, <1>2, <2>1, <2>2 DEF Absent
<1>10. ASSUME NEW S, NEW C, Ahead(x, S, C) PROVE Ahead(y, S, C)
  <2> SUFFICES ASSUME NEW i \in 1 .. l - 1, y[i] \in S, NEW j \in 1 .. i - 1 PROVE y[j] \notin C
    BY <1>1 DEF Ahead
  <2>1. j \in 1 .. l - 1 /\ old(j) \in 1 .. old(i) - 1 /\ old(i) \in 1 .. l /\ x[old(i)] \in S
    BY <1>2, <1>3
  <2>2. x[old(j)] \notin C
    BY <1>10, <2>1 DEF Ahead
  <2>3. QED
    BY <1>2, <2>1, <2>2
<1>11. ASSUME NEW S, NEW C, Ahead(x, S, C), m = 1, x[m] \in C PROVE Absent(y, S)
  <2> SUFFICES ASSUME NEW i \in 1 .. l - 1, y[i] \in S PROVE FALSE
    BY <1>1 DEF Absent
  <2>1. old(i) \in 1 .. l /\ x[old(i)] \in S /\ 1 \in 1 .. old(i) - 1
    BY <1>2, <1>6, <1>11
  <2>2. QED
    BY <1>11, <2>1 DEF Ahead
<1>12. ASSUME NEW S, NEW C, m = 1, Followed(x, S, C) PROVE Followed(y, S, C)
  <2> SUFFICES ASSUME NEW i \in 1 .. l - 1, y[i] \in S PROVE \E j \in i + 1 .. l - 1 : y[j] \in C
    BY <1>1 DEF Followed
  <2>1. i + 1 \in 1 .. l /\ x[i + 1] \in S
    BY <1>1, <1>2, <1>6, <1>12
  <2>2. PICK k \in (i + 1) + 1 .. l : x[k] \in C
    BY <1>12, <2>1 DEF Followed
  <2>3. k - 1 \in i + 1 .. l - 1 /\ k - 1 \in 1 .. l - 1 /\ (k - 1) + 1 = k
    BY <1>1
  <2>4. y[k - 1] = x[k]
    BY <1>2, <1>6, <1>12, <2>3
  <2>5. QED
    BY <2>2, <2>3, <2>4
<1>13. QED
  BY <1>7, <1>8, <1>9, <1>10, <1>11, <1>12

-----------------------------------------------------------------------------
(* The conversation of the client and the server.  c stands for the client, *)
(* g for the logins that were given up, s for the session and w for the     *)
(* packets that wait.                                                       *)
(*                                                                          *)
(* Dialogue: one of the two is to speak.  Either one message of Turn is on  *)
(* the way to the client, or one packet of Asking on the way back, or the   *)
(* server has something to do, or the client has, and where the client is   *)
(* says whose player there can be.                                          *)
(* Leftovers: packets of an earlier player (Stale) are there only while no  *)
(* new one is asked for, and come before the packets that will ask for it.  *)
(* Transfers: the one message or packet that brings a transfer further, and *)
(* those of earlier transfers, which come before the message that tells the *)
(* client of the logout.                                                    *)
Turn == {"list", "failed", "entered", "loggedout"}
Moving == {"suspend", "newworld"}

PacketsOf(ops) == {p \in Packet : p.op \in ops}
Enums == PacketsOf({"enum"})
Logins(a) == {p \in Packet : p.op = "login" /\ p.character = a}
Logouts == PacketsOf({"logout"})
Asking == PacketsOf({"enum", "login"})
Acks == PacketsOf(Transfer)
Stale(c, g, s) ==
  {p \in Packet : \/ p.op \in LoggedIn /\ p.character \notin ({c.as} \ {NoOne}) \cup g
                  \/ p.op \in Transfer \cup {"logout"} /\ s.player = NoOne}

Linked(s) == s.socket \in {"open", "closed"}
Free(s) == s.player = NoOne /\ s.query = NoOne /\ ~s.connect
Plays(c, s) == s.player = c.as /\ s.query = NoOne /\ ~s.connect
LoggingIn(c, s) ==
  /\ s.player = NoOne
  /\ \/ s.connect /\ s.query = NoOne /\ s.loading \in {c.as, NoOne}
     \/ ~s.connect /\ s.query = c.as

Quiet(s, w) == Absent(s.out, Turn) /\ Absent(w, Asking)
Told(s, w, m) == Single(s.out, {m}, Turn) /\ Absent(w, Asking)
Asked(s, w, E) == Absent(s.out, Turn) /\ Single(w, E, Asking)

Dialogue(c, g, s, w) ==
  \/ c.at \in {"start", "list"} /\ c.as = NoOne /\ Free(s) /\ Quiet(s, w)
  \/ c.at = "waiting" /\ c.as = NoOne /\ Free(s) /\ Asked(s, w, Enums)
  \/ c.at = "waiting" /\ c.as = NoOne /\ Free(s) /\ Told(s, w, "list")
  \/ c.at = "loading" /\ c.as # NoOne /\ Free(s) /\ Asked(s, w, Logins(c.as))
  \/ c.at = "loading" /\ c.as # NoOne /\ LoggingIn(c, s) /\ Quiet(s, w)
  \/ c.at = "loading" /\ c.as # NoOne /\ Free(s) /\ c.as \in g /\ Told(s, w, "failed")
  \/ c.at = "loading" /\ c.as # NoOne /\ Plays(c, s) /\ ~s.asked /\ Absent(w, Logouts) /\ Told(s, w, "entered")
  \/ c.at = "world" /\ c.as # NoOne /\ Plays(c, s) /\ Quiet(s, w)
  \/ c.at = "world" /\ c.as # NoOne /\ Free(s) /\ s.recent /\ Told(s, w, "loggedout")

Leftovers(c, g, s, w) ==
  /\ \/ Absent(w, Stale(c, g, s))
     \/ Free(s) /\ s.recent
  /\ Ahead(w, Stale(c, g, s), Asking)

Transfers(s, w) ==
  /\ s.player = NoOne =>
       s.far = "no" /\ ~s.asked /\ Followed(s.out, Moving \cup {"teleport"}, {"loggedout"})
  /\ s.player # NoOne /\ s.far = "no" =>
       /\ Absent(s.out, Moving) /\ Absent(w, Acks)
       /\ \/ s.inWorld
          \/ s.near /\ s.map = Home
  /\ s.player # NoOne /\ s.far # "no" =>
       /\ ~s.inWorld
       /\ \/ Single(s.out, Moving, Moving) /\ Absent(w, Acks)
          \/ Absent(s.out, Moving) /\ Single(w, Acks, Acks)

Coherent(c, g, s, w) ==
  IF Linked(s) THEN Dialogue(c, g, s, w) /\ Leftovers(c, g, s, w) /\ Transfers(s, w)
               ELSE s.player = NoOne /\ s.query = NoOne

JInv == IInv /\ Coherent(client, givenUp, session, Waiting)

(* What is shared between the parts. *)
LEMMA WhoPlays ==
  ASSUME NEW c, NEW g, NEW s, NEW w, Linked(s), Dialogue(c, g, s, w), s.player # NoOne
  PROVE  /\ c.as # NoOne /\ Plays(c, s) /\ Absent(w, Asking)
         /\ c.at \in {"loading", "world"}
         /\ c.at = "loading" => ~s.asked /\ Absent(w, Logouts)
         /\ c.at = "world" => Quiet(s, w)
  BY DEF Dialogue, Free, Plays, LoggingIn, Quiet, Told, Asked

LEMMA ToldWhere ==
  ASSUME NEW c, NEW g, NEW s, NEW w, Dialogue(c, g, s, w), NEW i \in 1 .. Len(s.out), s.out[i] \in Turn
  PROVE  /\ s.out[i] = "list" => c.at = "waiting" /\ c.as = NoOne /\ Free(s) /\ Told(s, w, "list")
         /\ s.out[i] = "failed" =>
              c.at = "loading" /\ c.as # NoOne /\ Free(s) /\ c.as \in g /\ Told(s, w, "failed")
         /\ s.out[i] = "entered" =>
              c.at = "loading" /\ c.as # NoOne /\ Plays(c, s) /\ Told(s, w, "entered")
         /\ s.out[i] = "loggedout" =>
              c.at = "world" /\ c.as # NoOne /\ Free(s) /\ s.recent /\ Told(s, w, "loggedout")
<1>1. ~Absent(s.out, Turn)
  BY DEF Absent
<1>2. \A m : Single(s.out, {m}, Turn) => s.out[i] = m
  BY DEF Single
<1>3. QED
  BY <1>1, <1>2 DEF Dialogue, Quiet, Told, Asked

LEMMA AskedWhere ==
  ASSUME NEW c, NEW g, NEW s, NEW w, Dialogue(c, g, s, w), NEW i \in 1 .. Len(w), w[i] \in Asking
  PROVE  /\ w[i].op = "enum" => c.at = "waiting" /\ c.as = NoOne /\ Free(s) /\ Asked(s, w, Enums)
         /\ w[i].op = "login" =>
              c.at = "loading" /\ c.as # NoOne /\ Free(s) /\ Asked(s, w, Logins(c.as))
              /\ w[i].character = c.as
<1>1. ~Absent(w, Asking)
  BY DEF Absent
<1>2. \A E : Single(w, E, Asking) => w[i] \in E
  BY DEF Single
<1>3. QED
  BY <1>1, <1>2 DEF Dialogue, Quiet, Told, Asked, Enums, Logins, PacketsOf

(* Messages that only move the player do not change the conversation. *)
SameTalk(s, t) ==
  /\ t.player = s.player /\ t.query = s.query /\ t.connect = s.connect /\ t.loading = s.loading
  /\ t.recent = s.recent /\ t.asked = s.asked /\ t.socket = s.socket
  /\ Absent(s.out, Turn) => Absent(t.out, Turn)
  /\ \A E \in SUBSET Turn : Single(s.out, E, Turn) => Single(t.out, E, Turn)

LEMMA SameTalkKeeps ==
  ASSUME NEW c, NEW g, NEW s, NEW t, NEW w, SameTalk(s, t)
  PROVE  /\ Linked(t) <=> Linked(s)
         /\ Dialogue(c, g, s, w) => Dialogue(c, g, t, w)
         /\ Leftovers(c, g, s, w) => Leftovers(c, g, t, w)
<1>1. Linked(t) <=> Linked(s)
  BY DEF SameTalk, Linked
<1>2. Dialogue(c, g, s, w) => Dialogue(c, g, t, w)
  <2>1. /\ Free(t) <=> Free(s)
        /\ Plays(c, t) <=> Plays(c, s)
        /\ LoggingIn(c, t) <=> LoggingIn(c, s)
    BY DEF SameTalk, Free, Plays, LoggingIn
  <2>2. /\ Quiet(s, w) => Quiet(t, w)
        /\ \A m \in Turn : Told(s, w, m) => Told(t, w, m)
        /\ \A E : Asked(s, w, E) => Asked(t, w, E)
    BY DEF SameTalk, Quiet, Told, Asked
  <2>3. (t.asked <=> s.asked) /\ (t.recent <=> s.recent)
    BY DEF SameTalk
  <2>4. QED
    BY <2>1, <2>2, <2>3 DEF Dialogue, Turn
<1>3. Leftovers(c, g, s, w) => Leftovers(c, g, t, w)
  BY DEF SameTalk, Leftovers, Free, Stale
<1>4. QED
  BY <1>1, <1>2, <1>3

LEMMA SendingTalk ==
  ASSUME NEW s \in Session, NEW t \in Session, NEW m \in Message \ Turn, SameTalk(s, t), t.out = s.out
  PROVE  SameTalk(s, Sending(t, m)) /\ Appended(s.out, Sending(t, m).out, m)
<1>1. Sending(t, m).out = Append(s.out, m) /\ s.out \in Seq(Message)
  BY DEF Sending, Session
<1>2. Appended(s.out, Append(s.out, m), m)
  BY <1>1, AppendIsAppended
<1>3. /\ Absent(s.out, Turn) => Absent(Append(s.out, m), Turn)
      /\ \A E : Single(s.out, E, Turn) => Single(Append(s.out, m), E, Turn)
  BY <1>2, AppendedKeeps
<1>4. Sending(t, m) = [t EXCEPT !.out = Append(s.out, m)]
  BY DEF Sending
<1>5. QED
  BY <1>1, <1>2, <1>3, <1>4 DEF SameTalk, Session

LEMMA TeleportedTalk ==
  ASSUME NEW s \in Session, NEW m \in Map, NEW option \in {"normal", "seamless"}, NEW t,
         t = Teleported(s, m, option)
  PROVE  /\ SameTalk(s, t) /\ t \in Session
         /\ m = s.map => /\ t.far = "no" /\ (t.inWorld <=> s.inWorld) /\ t.near /\ t.map = m
                         /\ Appended(s.out, t.out, "teleport")
         /\ m # s.map => t.far # "no" /\ ~t.inWorld /\ Appended(s.out, t.out, "suspend")
<1> DEFINE near == [s EXCEPT !.far = "no", !.dest = m, !.near = TRUE]
           f == IF s.inWorld /\ <<s.map, m>> \in Cosmetic THEN option ELSE "normal"
           far == [s EXCEPT !.near = FALSE, !.inWorld = FALSE, !.dest = m, !.far = f]
<1>1. near \in Session /\ SameTalk(s, near) /\ near.out = s.out
      /\ near.far = "no" /\ (near.inWorld <=> s.inWorld) /\ near.near /\ near.map = s.map
  BY DEF Session, SameTalk
<1>2. f \in {"normal", "seamless"}
  OBVIOUS
<1>3. t = IF m = s.map THEN Sending(near, "teleport") ELSE Sending(far, "suspend")
  BY DEF Teleported, near, far, f
<1> HIDE DEF f
<1>4. far \in Session /\ SameTalk(s, far) /\ far.out = s.out /\ far.far # "no" /\ ~far.inWorld
  BY <1>2, ZenonT(30) DEF Session, SameTalk
<1> HIDE DEF near, far
<1>5. {"teleport", "suspend"} \subseteq Message \ Turn
  BY DEF Message, Turn
<1>6. CASE m = s.map
  <2>1. SameTalk(s, t) /\ Appended(s.out, t.out, "teleport") /\ t \in Session
    BY <1>1, <1>3, <1>5, <1>6, SendingTalk, SendingOK
  <2>2. t = [near EXCEPT !.out = Append(near.out, "teleport")]
    BY <1>3, <1>6 DEF Sending
  <2>3. t.far = near.far /\ t.inWorld = near.inWorld /\ t.near = near.near /\ t.map = near.map
    BY <1>1, <2>2 DEF Session
  <2>4. QED
    BY <1>1, <1>6, <2>1, <2>3
<1>7. CASE m # s.map
  <2>1. SameTalk(s, t) /\ Appended(s.out, t.out, "suspend") /\ t \in Session
    BY <1>4, <1>3, <1>5, <1>7, SendingTalk, SendingOK
  <2>2. t = [far EXCEPT !.out = Append(far.out, "suspend")]
    BY <1>3, <1>7 DEF Sending
  <2>3. t.far = far.far /\ t.inWorld = far.inWorld
    BY <1>4, <2>2 DEF Session
  <2>4. QED
    BY <1>4, <1>7, <2>1, <2>3
<1>8. QED
  BY <1>6, <1>7

LEMMA AbsentAhead ==
  ASSUME NEW w \in Seq(Packet), NEW S, NEW C, Absent(w, C)
  PROVE  Ahead(w, S, C)
<1> SUFFICES ASSUME NEW i \in 1 .. Len(w), NEW j \in 1 .. i - 1 PROVE w[j] \notin C
  BY DEF Ahead
<1>1. j \in 1 .. Len(w)
  OBVIOUS
<1>2. QED
  BY <1>1 DEF Absent

(* A teleport begins when no other is going on. *)
LEMMA TeleportedCoherent ==
  ASSUME NEW c, NEW g, NEW s \in Session, NEW w, Linked(s), Dialogue(c, g, s, w), Leftovers(c, g, s, w),
         s.player # NoOne, Absent(s.out, Moving), Absent(w, Acks),
         NEW m \in Map, NEW option \in {"normal", "seamless"}, m = s.map => s.inWorld \/ m = Home
  PROVE  Coherent(c, g, Teleported(s, m, option), w)
<1> DEFINE t == Teleported(s, m, option)
<1>1. /\ SameTalk(s, t) /\ t \in Session
      /\ m = s.map => /\ t.far = "no" /\ (t.inWorld <=> s.inWorld) /\ t.near /\ t.map = m
                      /\ Appended(s.out, t.out, "teleport")
      /\ m # s.map => t.far # "no" /\ ~t.inWorld /\ Appended(s.out, t.out, "suspend")
  BY TeleportedTalk
<1> HIDE DEF t
<1>2. Linked(t) /\ Dialogue(c, g, t, w) /\ Leftovers(c, g, t, w) /\ t.player # NoOne
  <2>1. t.player = s.player
    BY <1>1 DEF SameTalk
  <2>2. QED
    BY <1>1, <2>1, SameTalkKeeps
<1>3. Transfers(t, w)
  <2>1. CASE m = s.map
    <3>1. Absent(t.out, Moving)
      <4>1. "teleport" \notin Moving
        BY DEF Moving
      <4>2. QED
        BY <1>1, <2>1, <4>1, AppendedKeeps
    <3>2. QED
      BY <1>1, <1>2, <2>1, <3>1 DEF Transfers
  <2>2. CASE m # s.map
    <3>1. Single(t.out, Moving, Moving)
      <4>1. "suspend" \in Moving
        BY DEF Moving
      <4>2. QED
        BY <1>1, <2>2, <4>1, AppendedKeeps
    <3>2. QED
      BY <1>1, <1>2, <2>2, <3>1 DEF Transfers
  <2>3. QED
    BY <2>1, <2>2
<1>4. QED
  BY <1>2, <1>3 DEF Coherent, t

LEMMA PortedTalk ==
  ASSUME NEW s \in Session, NEW t \in Ported(s)
  PROVE  SameTalk(s, t) /\ t \in Session
<1>1. CASE t = [s EXCEPT !.far = "no", !.map = s.dest, !.inWorld = TRUE]
  BY <1>1 DEF Session, SameTalk
<1>2. CASE t = Teleported([s EXCEPT !.far = "no"], Home, "normal")
  <2> DEFINE u == [s EXCEPT !.far = "no"]
  <2>1. u \in Session /\ SameTalk(s, u)
    BY DEF Session, SameTalk
  <2> HIDE DEF u
  <2>2. SameTalk(u, t) /\ t \in Session
    BY <1>2, <2>1, TeleportedTalk, PacketAssumption DEF u
  <2>3. QED
    BY <2>1, <2>2 DEF SameTalk
<1>3. QED
  BY <1>1, <1>2 DEF Ported

(* A transfer ends in the world, or begins anew. *)
LEMMA PortedCoherent ==
  ASSUME NEW c, NEW g, NEW s \in Session, NEW w, Linked(s), Dialogue(c, g, s, w), Leftovers(c, g, s, w),
         s.player # NoOne, Absent(s.out, Moving), Absent(w, Acks), NEW t \in Ported(s)
  PROVE  Coherent(c, g, t, w)
<1>1. CASE t = [s EXCEPT !.far = "no", !.map = s.dest, !.inWorld = TRUE]
  <2>1. SameTalk(s, t) /\ t.player # NoOne /\ t.out = s.out /\ t.far = "no" /\ t.inWorld
    BY <1>1, PortedTalk DEF Session
  <2>2. Linked(t) /\ Dialogue(c, g, t, w) /\ Leftovers(c, g, t, w)
    BY <2>1, SameTalkKeeps
  <2>3. QED
    BY <2>1, <2>2 DEF Coherent, Transfers
<1>2. CASE t = Teleported([s EXCEPT !.far = "no"], Home, "normal")
  <2> DEFINE u == [s EXCEPT !.far = "no"]
  <2>1. u \in Session /\ SameTalk(s, u) /\ u.player # NoOne /\ u.out = s.out
    BY DEF Session, SameTalk
  <2> HIDE DEF u
  <2>2. Linked(u) /\ Dialogue(c, g, u, w) /\ Leftovers(c, g, u, w)
    BY <2>1, SameTalkKeeps
  <2>3. QED
    BY <1>2, <2>1, <2>2, TeleportedCoherent, PacketAssumption DEF u
<1>3. QED
  BY <1>1, <1>2 DEF Ported

LEMMA LandedTalk ==
  ASSUME NEW s \in Session, NEW t \in Landed(s)
  PROVE  SameTalk(s, t) /\ t \in Session
<1>1. CASE s.far = "no"
  BY <1>1 DEF Landed, SameTalk
<1>2. CASE s.far # "no"
  <2>1. PICK u \in Ported(s) : t \in IF u.far = "no" THEN {u} ELSE Ported(u)
    BY <1>2 DEF Landed
  <2>2. SameTalk(s, u) /\ u \in Session
    BY PortedTalk
  <2>3. CASE u.far = "no"
    BY <2>1, <2>2, <2>3
  <2>4. CASE u.far # "no"
    <3>1. SameTalk(u, t) /\ t \in Session
      BY <2>1, <2>2, <2>4, PortedTalk
    <3>2. QED
      BY <2>2, <3>1 DEF SameTalk
  <2>5. QED
    BY <2>3, <2>4
<1>3. QED
  BY <1>1, <1>2

(* After a logout everything that waits is left over, and the client knows   *)
(* of it after all it was told before.                                       *)
LEMMA LoggedOutCoherent ==
  ASSUME NEW c, NEW g, NEW s \in Session, NEW w \in Seq(Packet), Linked(s), Dialogue(c, g, s, w),
         s.player # NoOne, c.at = "world", NEW t \in LoggedOut(s)
  PROVE  Coherent(c, g, t, w)
<1>1. PICK u \in Landed(s) : t = Sending([NoPlayer(u) EXCEPT !.asked = FALSE, !.recent = TRUE], "loggedout")
  BY DEF LoggedOut
<1> DEFINE v == [NoPlayer(u) EXCEPT !.asked = FALSE, !.recent = TRUE]
<1>2. SameTalk(s, u) /\ u \in Session
  BY LandedTalk
<1>3. /\ v \in Session /\ v.player = NoOne /\ v.query = u.query /\ v.connect = u.connect /\ v.far = "no"
      /\ v.asked = FALSE /\ v.recent = TRUE /\ v.out = u.out /\ v.socket = u.socket
  BY <1>2, PacketAssumption DEF Session, NoPlayer
<1>4. t = Sending(v, "loggedout")
  BY <1>1
<1> HIDE DEF v
<1>5. t = [v EXCEPT !.out = Append(u.out, "loggedout")] /\ u.out \in Seq(Message) /\ "loggedout" \in Message
  BY <1>2, <1>3, <1>4 DEF Sending, Session, Message
<1>6. /\ t.player = NoOne /\ t.query = u.query /\ t.connect = u.connect /\ t.far = "no"
      /\ t.asked = FALSE /\ t.recent = TRUE /\ t.socket = u.socket /\ t.out = Append(u.out, "loggedout")
  BY <1>3, <1>5 DEF Session
<1>7. Appended(u.out, t.out, "loggedout")
  BY <1>5, <1>6, AppendIsAppended
<1>8. Linked(u) /\ Dialogue(c, g, u, w) /\ u.player # NoOne
  <2>1. u.player = s.player
    BY <1>2 DEF SameTalk
  <2>2. QED
    BY <1>2, <2>1, SameTalkKeeps
<1>9. c.as # NoOne /\ Plays(c, u) /\ Absent(w, Asking) /\ Absent(u.out, Turn)
  BY <1>8, WhoPlays DEF Quiet
<1>10. Free(t) /\ Linked(t)
  BY <1>6, <1>8, <1>9 DEF Free, Plays, Linked
<1>11. "loggedout" \in {"loggedout"} \ (Moving \cup {"teleport"})
  BY DEF Moving
<1>12. Single(t.out, {"loggedout"}, Turn) /\ Followed(t.out, Moving \cup {"teleport"}, {"loggedout"})
  BY <1>7, <1>9, <1>11, AppendedKeeps
<1>13. Dialogue(c, g, t, w)
  BY <1>6, <1>9, <1>10, <1>12 DEF Dialogue, Told
<1>14. Leftovers(c, g, t, w)
  BY <1>6, <1>9, <1>10, AbsentAhead DEF Leftovers
<1>15. Transfers(t, w)
  BY <1>6, <1>12 DEF Transfers
<1>16. QED
  BY <1>10, <1>13, <1>14, <1>15 DEF Coherent

(* What waits when a new player enters is none of an earlier one's. *)
LEMMA EnteredCoherent ==
  ASSUME NEW c, NEW g, NEW s \in Session, NEW w \in Seq(Packet), Coherent(c, g, s, w), s.query # NoOne,
         NEW t \in Entered(s)
  PROVE  Coherent(c, g, t, w) /\ t \in Session /\ ~t.asked
<1> DEFINE u == [s EXCEPT !.query = NoOne, !.player = s.query]
           k == [s EXCEPT !.query = NoOne, !.loading = NoOne]
           at(m) == [u EXCEPT !.map = m]
           in(m) == [u EXCEPT !.map = m, !.inWorld = TRUE]
<1>1. /\ Linked(s) /\ Dialogue(c, g, s, w) /\ Leftovers(c, g, s, w) /\ Transfers(s, w)
  BY DEF Coherent
<1>2. /\ c.at = "loading" /\ c.as # NoOne /\ s.player = NoOne /\ ~s.connect /\ s.query = c.as
      /\ Absent(s.out, Turn) /\ Absent(w, Asking)
  BY <1>1 DEF Dialogue, Free, Plays, LoggingIn, Quiet
<1>3. s.far = "no" /\ ~s.asked /\ Followed(s.out, Moving \cup {"teleport"}, {"loggedout"})
  BY <1>1, <1>2 DEF Transfers
<1>4. Absent(s.out, Moving)
  <2> SUFFICES ASSUME NEW i \in 1 .. Len(s.out), s.out[i] \in Moving PROVE FALSE
    BY DEF Absent
  <2>1. PICK j \in i + 1 .. Len(s.out) : s.out[j] = "loggedout"
    BY <1>3 DEF Followed
  <2>2. j \in 1 .. Len(s.out)
    OBVIOUS
  <2>3. QED
    BY <1>2, <2>1, <2>2 DEF Absent, Turn
<1>5. Absent(w, Stale(c, g, s)) /\ Absent(w, Acks) /\ Absent(w, Logouts)
  <2>1. Absent(w, Stale(c, g, s))
    BY <1>1, <1>2 DEF Leftovers, Free
  <2>2. Acks \subseteq Stale(c, g, s) /\ Logouts \subseteq Stale(c, g, s)
    BY <1>2 DEF Acks, Logouts, PacketsOf, Stale
  <2>3. QED
    BY <2>1, <2>2 DEF Absent
<1>6. Kicked(k) \in Session /\ ~Kicked(k).asked /\ Coherent(c, g, Kicked(k), w)
  <2>1. /\ Kicked(k) \in Session /\ Kicked(k).asked = s.asked /\ Kicked(k).socket = "kicked"
        /\ Kicked(k).player = s.player /\ Kicked(k).query = NoOne
    BY PacketAssumption DEF Session, Kicked
  <2> HIDE DEF k
  <2>2. QED
    BY <1>2, <1>3, <2>1 DEF Coherent, Linked
<1>7. ASSUME NEW v \in Session, NEW x, x = Sending(v, "entered"),
             v.player = s.query, v.query = NoOne, v.connect = s.connect, v.asked = s.asked, v.socket = s.socket,
             v.out = s.out, v.far = "no"
      PROVE  /\ x \in Session /\ Linked(x) /\ Dialogue(c, g, x, w) /\ Leftovers(c, g, x, w) /\ ~x.asked
             /\ x.player # NoOne /\ x.far = "no" /\ x.map = v.map /\ x.inWorld = v.inWorld
             /\ Absent(x.out, Moving)
  <2>1. "entered" \in Message /\ "entered" \notin Moving /\ s.out \in Seq(Message)
    BY DEF Message, Moving, Session
  <2>2. x \in Session
    BY <1>7, <2>1, SendingOK
  <2>3. x = [v EXCEPT !.out = Append(s.out, "entered")]
    BY <1>7 DEF Sending
  <2>4. /\ x.player = s.query /\ x.query = NoOne /\ x.connect = s.connect /\ x.asked = s.asked
        /\ x.socket = s.socket /\ x.out = Append(s.out, "entered") /\ x.far = "no" /\ x.map = v.map
        /\ x.inWorld = v.inWorld
    BY <1>7, <2>3 DEF Session
  <2>5. Appended(s.out, x.out, "entered")
    BY <2>1, <2>4, AppendIsAppended
  <2>6. Single(x.out, {"entered"}, Turn) /\ Absent(x.out, Moving)
    BY <1>2, <1>4, <2>1, <2>5, AppendedKeeps
  <2>7. Dialogue(c, g, x, w)
    BY <1>2, <1>3, <1>5, <2>4, <2>6 DEF Dialogue, Plays, Told
  <2>8. Leftovers(c, g, x, w)
    <3>1. Stale(c, g, x) \subseteq Stale(c, g, s)
      BY <1>2, <2>4 DEF Stale
    <3>2. Absent(w, Stale(c, g, x))
      BY <1>5, <3>1 DEF Absent
    <3>3. QED
      BY <1>2, <3>2, AbsentAhead DEF Leftovers
  <2>9. QED
    BY <1>1, <1>2, <1>3, <2>2, <2>4, <2>6, <2>7, <2>8 DEF Linked
<1>8. ASSUME NEW m \in Map PROVE LET x == Sending(in(m), "entered")
                                 IN  x \in Session /\ ~x.asked /\ Coherent(c, g, x, w)
  <2> DEFINE v == in(m)
             x == Sending(v, "entered")
  <2>1. /\ v \in Session /\ v.player = s.query /\ v.query = NoOne /\ v.connect = s.connect /\ v.asked = s.asked
        /\ v.socket = s.socket /\ v.out = s.out /\ v.far = "no" /\ v.inWorld
    BY <1>3, PacketAssumption DEF Session
  <2> HIDE DEF v
  <2>2. /\ x \in Session /\ Linked(x) /\ Dialogue(c, g, x, w) /\ Leftovers(c, g, x, w) /\ ~x.asked
        /\ x.player # NoOne /\ x.far = "no" /\ x.inWorld /\ Absent(x.out, Moving)
    BY <1>7, <2>1
  <2> HIDE DEF x
  <2>3. Coherent(c, g, x, w)
    BY <1>5, <2>2 DEF Coherent, Transfers
  <2>4. QED
    BY <2>2, <2>3 DEF x, v
<1>9. ASSUME NEW m \in Dungeon PROVE LET x == Teleported(Sending(at(m), "entered"), Home, "normal")
                                     IN  x \in Session /\ ~x.asked /\ Coherent(c, g, x, w)
  <2> DEFINE v == at(m)
             y == Sending(v, "entered")
             x == Teleported(y, Home, "normal")
  <2>1. /\ v \in Session /\ v.player = s.query /\ v.query = NoOne /\ v.connect = s.connect /\ v.asked = s.asked
        /\ v.socket = s.socket /\ v.out = s.out /\ v.far = "no"
    BY <1>3, PacketAssumption DEF Session
  <2> HIDE DEF v
  <2>2. /\ y \in Session /\ Linked(y) /\ Dialogue(c, g, y, w) /\ Leftovers(c, g, y, w) /\ ~y.asked
        /\ y.player # NoOne /\ Absent(y.out, Moving)
    BY <1>7, <2>1
  <2> HIDE DEF y
  <2>3. Coherent(c, g, x, w)
    BY <1>5, <2>2, TeleportedCoherent, PacketAssumption
  <2>4. x \in Session /\ SameTalk(y, x)
    BY <2>2, TeleportedTalk, PacketAssumption
  <2>5. QED
    BY <2>2, <2>3, <2>4 DEF x, y, v, SameTalk
<1>10. Entered(s) = {Kicked(k)} \cup {Sending(in(m), "entered") : m \in Map}
                     \cup {Teleported(Sending(at(m), "entered"), Home, "normal") : m \in Dungeon}
  BY DEF Entered
<1> HIDE DEF u, k, at, in
<1>11. QED
  BY <1>6, <1>8, <1>9, <1>10

-----------------------------------------------------------------------------
(* The client. *)

LEMMA SendsAppended ==
  ASSUME TypeOK, NEW op \in Opcode, NEW a \in Character \cup {NoOne}, Sends(op, a), requeue' = requeue
  PROVE  \E p \in Packet : p.op = op /\ p.character = a /\ Appended(Waiting, Waiting', p)
<1> DEFINE p == [op |-> op, n |-> IF op \in LoggedIn THEN sent + 1 ELSE 0, character |-> a]
<1>1. p \in Packet /\ p.op = op /\ p.character = a
  BY DEF Packet, TypeOK
<1>2. queue' = Append(queue, p)
  BY DEF Sends, Queued
<1> HIDE DEF p
<1>3. Waiting' = Append(Waiting, p) /\ Waiting \in Seq(Packet)
  BY <1>1, <1>2, ConcatAppend DEF Waiting, TypeOK
<1>4. QED
  BY <1>1, <1>3, AppendIsAppended

(* A packet that neither asks nor answers anything. *)
LEMMA AppendedCoherent ==
  ASSUME NEW c, NEW g, NEW s, NEW w, NEW v, NEW p \in Packet, Appended(w, v, p),
         Linked(s), Coherent(c, g, s, w), p.op \notin Transfer \cup {"enum", "login"},
         \/ p \notin Stale(c, g, s)
         \/ Free(s) /\ s.recent /\ Absent(w, Asking),
         p.op = "logout" => c.at = "world"
  PROVE  Coherent(c, g, s, v)
<1>1. p \notin Asking /\ p \notin Acks /\ (c.at = "loading" => p \notin Logouts)
  BY DEF Asking, Acks, Logouts, PacketsOf
<1>2. Dialogue(c, g, s, w) /\ Leftovers(c, g, s, w) /\ Transfers(s, w)
  BY DEF Coherent
<1>3. /\ Absent(w, Asking) => Absent(v, Asking)
      /\ \A E : Single(w, E, Asking) => Single(v, E, Asking)
      /\ c.at = "loading" /\ Absent(w, Logouts) => Absent(v, Logouts)
      /\ Absent(w, Acks) => Absent(v, Acks)
      /\ Single(w, Acks, Acks) => Single(v, Acks, Acks)
  BY <1>1, AppendedKeeps
<1>4. Dialogue(c, g, s, v)
  <2>1. /\ Quiet(s, w) => Quiet(s, v)
        /\ \A m : Told(s, w, m) => Told(s, v, m)
        /\ \A E : Asked(s, w, E) => Asked(s, v, E)
    BY <1>3 DEF Quiet, Told, Asked
  <2>2. QED
    BY <1>2, <1>3, <2>1 DEF Dialogue
<1>5. Leftovers(c, g, s, v)
  <2> DEFINE S == Stale(c, g, s)
  <2> HIDE DEF S
  <2>1. CASE p \notin S
    <3>1. /\ Absent(w, S) => Absent(v, S)
          /\ Ahead(w, S, Asking) => Ahead(v, S, Asking)
      BY <2>1, AppendedKeeps
    <3>2. QED
      BY <1>2, <3>1 DEF Leftovers, S
  <2>2. CASE Free(s) /\ s.recent /\ Absent(w, Asking)
    <3>1. Ahead(v, S, Asking)
      BY <2>2, AppendedKeeps
    <3>2. QED
      BY <2>2, <3>1 DEF Leftovers, S
  <2>3. QED
    BY <2>1, <2>2 DEF S
<1>6. Transfers(s, v)
  BY <1>2, <1>3 DEF Transfers
<1>7. QED
  BY <1>4, <1>5, <1>6 DEF Coherent

(* A packet that waits for its turn does not disturb what is stale. *)
LEMMA AppendedLeftovers ==
  ASSUME NEW c, NEW d, NEW g, NEW s, NEW w, NEW v, NEW p \in Packet, Appended(w, v, p),
         Leftovers(c, g, s, w), p \notin Stale(d, g, s), Stale(d, g, s) \subseteq Stale(c, g, s)
  PROVE  Leftovers(d, g, s, v)
<1>1. /\ Absent(w, Stale(c, g, s)) => Absent(w, Stale(d, g, s))
      /\ Ahead(w, Stale(c, g, s), Asking) => Ahead(w, Stale(d, g, s), Asking)
  BY DEF Absent, Ahead
<1> DEFINE S == Stale(d, g, s)
<1> HIDE DEF S
<1>2. /\ Absent(w, S) => Absent(v, S)
      /\ Ahead(w, S, Asking) => Ahead(v, S, Asking)
  BY AppendedKeeps DEF S
<1>3. QED
  BY <1>1, <1>2 DEF Leftovers, S

LEMMA ListsCoherent ==
  ASSUME TypeOK, Coherent(client, givenUp, session, Waiting), ClientLists
  PROVE  Coherent(client, givenUp, session, Waiting)'
<1> DEFINE s == session
           g == givenUp
<1>1. /\ "enum" \in Opcode /\ Sends("enum", NoOne) /\ requeue' = requeue /\ session' = session
      /\ givenUp' = givenUp /\ client' = [client EXCEPT !.at = "waiting"] /\ client.at = "start" /\ Linked(s)
  BY DEF ClientLists, serverVars, Opcode, Authed, Linked
<1>2. PICK p \in Packet : p.op = "enum" /\ p.character = NoOne /\ Appended(Waiting, Waiting', p)
  BY <1>1, SendsAppended
<1>3. client'.at = "waiting" /\ client'.as = client.as
  BY <1>1 DEF TypeOK
<1>4. client.as = NoOne /\ Free(s) /\ Quiet(s, Waiting) /\ Leftovers(client, g, s, Waiting) /\ Transfers(s, Waiting)
  BY <1>1 DEF Coherent, Dialogue
<1>5. p \in Enums /\ p \notin Stale(client', g, s)
  BY <1>2 DEF Enums, PacketsOf, Stale, LoggedIn, Transfer
<1>6. Asked(s, Waiting', Enums)
  BY <1>2, <1>4, <1>5, AppendedKeeps DEF Quiet, Asked
<1>7. Dialogue(client', g, s, Waiting')
  BY <1>3, <1>4, <1>6 DEF Dialogue
<1>8. Stale(client', g, s) = Stale(client, g, s)
  BY <1>3 DEF Stale
<1>9. Leftovers(client', g, s, Waiting')
  BY <1>2, <1>4, <1>5, <1>8, AppendedLeftovers
<1>10. Transfers(s, Waiting')
  BY <1>4 DEF Transfers, Free
<1>11. QED
  BY <1>1, <1>7, <1>9, <1>10 DEF Coherent

LEMMA LogsInCoherent ==
  ASSUME TypeOK, Coherent(client, givenUp, session, Waiting), NEW a \in Character, ClientLogsIn(a)
  PROVE  Coherent(client, givenUp, session, Waiting)'
<1> DEFINE s == session
           g == givenUp
<1>1. /\ "login" \in Opcode /\ Sends("login", a) /\ requeue' = requeue /\ session' = session
      /\ givenUp' = givenUp /\ client' = [at |-> "loading", as |-> a] /\ client.at = "list" /\ Linked(s)
  BY DEF ClientLogsIn, serverVars, Opcode, Authed, Linked
<1>2. PICK p \in Packet : p.op = "login" /\ p.character = a /\ Appended(Waiting, Waiting', p)
  BY <1>1, SendsAppended
<1>3. client'.at = "loading" /\ client'.as = a /\ a # NoOne
  BY <1>1, PacketAssumption
<1>4. client.as = NoOne /\ Free(s) /\ Quiet(s, Waiting) /\ Leftovers(client, g, s, Waiting) /\ Transfers(s, Waiting)
  BY <1>1 DEF Coherent, Dialogue
<1>5. p \in Logins(a) /\ p \notin Stale(client', g, s)
  BY <1>2 DEF Logins, PacketsOf, Stale, LoggedIn, Transfer
<1>6. Asked(s, Waiting', Logins(client'.as))
  BY <1>2, <1>3, <1>4, <1>5, AppendedKeeps DEF Quiet, Asked
<1>7. Dialogue(client', g, s, Waiting')
  BY <1>3, <1>4, <1>6 DEF Dialogue
<1>8. Stale(client', g, s) \subseteq Stale(client, g, s)
  BY <1>3, <1>4 DEF Stale
<1>9. Leftovers(client', g, s, Waiting')
  BY <1>2, <1>4, <1>5, <1>8, AppendedLeftovers
<1>10. Transfers(s, Waiting')
  BY <1>4 DEF Transfers, Free
<1>11. QED
  BY <1>1, <1>7, <1>9, <1>10 DEF Coherent

LEMMA PlaysCoherent ==
  ASSUME TypeOK, Coherent(client, givenUp, session, Waiting),
         NEW op \in {"cast", "attack", "logout"}, ClientPlays(op)
  PROVE  Coherent(client, givenUp, session, Waiting)'
<1> DEFINE s == session
           g == givenUp
<1>1. /\ op \in Opcode /\ Sends(op, client.as) /\ requeue' = requeue /\ session' = session
      /\ givenUp' = givenUp /\ client' = client /\ Linked(s)
      /\ client.at = "world" \/ (client.at = "loading" /\ op # "logout")
  BY DEF ClientPlays, serverVars, Opcode, LoggedIn, Linked
<1>2. PICK p \in Packet : p.op = op /\ p.character = client.as /\ Appended(Waiting, Waiting', p)
  BY <1>1, SendsAppended DEF TypeOK
<1>3. Dialogue(client, g, s, Waiting)
  BY <1>1 DEF Coherent
<1>4. client.as # NoOne
  BY <1>1, <1>3 DEF Dialogue
<1>5. op \notin Transfer \cup {"enum", "login"}
  BY DEF Transfer
<1>6. CASE op = "logout" /\ s.player = NoOne
  <2>1. Free(s) /\ s.recent /\ Absent(Waiting, Asking)
    BY <1>1, <1>3, <1>4, <1>6 DEF Dialogue, Plays, Told
  <2>2. QED
    BY <1>1, <1>2, <1>5, <2>1, AppendedCoherent
<1>7. CASE ~(op = "logout" /\ s.player = NoOne)
  <2>1. p \notin Stale(client, g, s)
    BY <1>2, <1>4, <1>5, <1>7 DEF Stale, Transfer
  <2>2. QED
    BY <1>1, <1>2, <1>5, <2>1, AppendedCoherent
<1>8. QED
  BY <1>6, <1>7

(* The client takes a message. *)
Read(s, t) ==
  /\ t.player = s.player /\ t.query = s.query /\ t.connect = s.connect /\ t.loading = s.loading
  /\ t.recent = s.recent /\ t.asked = s.asked /\ t.socket = s.socket
  /\ t.far = s.far /\ t.near = s.near /\ t.map = s.map /\ t.inWorld = s.inWorld
  /\ Removed(s.out, t.out, 1)

LEMMA ReadOut ==
  ASSUME NEW s \in Session, s.out # <<>>
  PROVE  /\ Read(s, [s EXCEPT !.out = Tail(@)])
         /\ s.out[1] = Head(s.out) /\ Head(s.out) \in Message /\ 1 \in 1 .. Len(s.out)
<1> DEFINE t == [s EXCEPT !.out = Tail(@)]
<1>1. /\ t.player = s.player /\ t.query = s.query /\ t.connect = s.connect /\ t.loading = s.loading
      /\ t.recent = s.recent /\ t.asked = s.asked /\ t.socket = s.socket
      /\ t.far = s.far /\ t.near = s.near /\ t.map = s.map /\ t.inWorld = s.inWorld
      /\ t.out = Tail(s.out) /\ s.out \in Seq(Message)
  BY DEF Session
<1>2. Removed(s.out, t.out, 1) /\ s.out[1] = Head(s.out)
  BY <1>1, TailIsRemoved
<1>3. QED
  BY <1>1, <1>2 DEF Read, Removed

LEMMA ReadKeeps ==
  ASSUME NEW c, NEW g, NEW s, NEW t, NEW w, Read(s, t)
  PROVE  /\ Linked(t) <=> Linked(s)
         /\ \A d : (d.as = c.as) => (Leftovers(c, g, s, w) => Leftovers(d, g, t, w))
         /\ Transfers(s, w) /\ s.out[1] \notin Moving => Transfers(t, w)
         /\ s.out[1] \notin Turn /\ Dialogue(c, g, s, w) => Dialogue(c, g, t, w)
<1>1. Linked(t) <=> Linked(s)
  BY DEF Read, Linked
<1>2. ASSUME NEW d, d.as = c.as, Leftovers(c, g, s, w) PROVE Leftovers(d, g, t, w)
  BY <1>2 DEF Read, Leftovers, Free, Stale
<1>3. ASSUME Transfers(s, w), s.out[1] \notin Moving PROVE Transfers(t, w)
  <2>1. Moving \subseteq Moving
    OBVIOUS
  <2>2. /\ Absent(s.out, Moving) => Absent(t.out, Moving)
        /\ Single(s.out, Moving, Moving) => Single(t.out, Moving, Moving)
        /\ Followed(s.out, Moving \cup {"teleport"}, {"loggedout"})
             => Followed(t.out, Moving \cup {"teleport"}, {"loggedout"})
    BY <1>3, <2>1, RemovedKeeps DEF Read
  <2>3. QED
    BY <1>3, <2>2 DEF Transfers, Read
<1>4. ASSUME s.out[1] \notin Turn, Dialogue(c, g, s, w) PROVE Dialogue(c, g, t, w)
  <2>1. /\ Absent(s.out, Turn) => Absent(t.out, Turn)
        /\ \A m \in Turn : Single(s.out, {m}, Turn) => Single(t.out, {m}, Turn)
    <3>1. \A m \in Turn : {m} \subseteq Turn
      OBVIOUS
    <3>2. QED
      BY <1>4, <3>1, RemovedKeeps DEF Read
  <2>2. /\ Quiet(s, w) => Quiet(t, w)
        /\ \A m \in Turn : Told(s, w, m) => Told(t, w, m)
        /\ \A E : Asked(s, w, E) => Asked(t, w, E)
    BY <2>1 DEF Quiet, Told, Asked
  <2>3. /\ Free(t) <=> Free(s)
        /\ Plays(c, t) <=> Plays(c, s)
        /\ LoggingIn(c, t) <=> LoggingIn(c, s)
        /\ t.asked = s.asked /\ t.recent = s.recent
    BY DEF Read, Free, Plays, LoggingIn
  <2>4. QED
    BY <1>4, <2>2, <2>3 DEF Dialogue, Turn
<1>5. QED
  BY <1>1, <1>2, <1>3, <1>4

(* A message of Turn was the only one of them. *)
LEMMA ReadTurn ==
  ASSUME NEW s, NEW t, NEW w, NEW m \in Turn, Read(s, t), s.out[1] = m, Told(s, w, m)
  PROVE  Quiet(t, w)
  BY RemovedKeeps DEF Read, Told, Quiet

(* The messages of the character list and of logins and logouts. *)
LEMMA ToldCoherent ==
  ASSUME NEW c, NEW d, NEW g, NEW s, NEW t, NEW w \in Seq(Packet), Read(s, t), 1 \in 1 .. Len(s.out),
         Linked(s), Coherent(c, g, s, w), s.out[1] \in {"list", "failed", "loggedout"},
         d = IF s.out[1] = "loggedout" THEN [at |-> "start", as |-> NoOne] ELSE [at |-> "list", as |-> NoOne]
  PROVE  Coherent(d, g, t, w)
<1>1. Dialogue(c, g, s, w) /\ Leftovers(c, g, s, w) /\ Transfers(s, w)
  BY DEF Coherent
<1>2. s.out[1] \in Turn /\ s.out[1] \notin Moving
  BY DEF Turn, Moving
<1>3. /\ Free(s) /\ Told(s, w, s.out[1])
      /\ s.out[1] = "list" => c.as = NoOne
      /\ s.out[1] = "failed" => c.as \in g
      /\ s.out[1] = "loggedout" => s.recent
  BY <1>1, <1>2, ToldWhere
<1>4. Quiet(t, w) /\ Free(t) /\ (t.recent <=> s.recent) /\ (Linked(t) <=> Linked(s)) /\ Transfers(t, w)
  BY <1>1, <1>2, <1>3, ReadTurn, ReadKeeps DEF Read, Free
<1>5. d.as = NoOne /\ d.at \in {"start", "list"}
  OBVIOUS
<1>6. Dialogue(d, g, t, w)
  BY <1>4, <1>5 DEF Dialogue
<1>7. Leftovers(d, g, t, w)
  <2>1. CASE s.out[1] = "loggedout"
    BY <1>3, <1>4, <2>1, AbsentAhead DEF Leftovers, Quiet
  <2>2. CASE s.out[1] \in {"list", "failed"}
    <3>1. Stale(d, g, t) = Stale(c, g, s)
      BY <1>3, <1>5, <2>2 DEF Stale, Read
    <3>2. QED
      BY <1>1, <1>3, <1>4, <3>1 DEF Leftovers
  <2>3. QED
    BY <2>1, <2>2
<1>8. QED
  BY <1>4, <1>6, <1>7 DEF Coherent

LEMMA EnteredWorldCoherent ==
  ASSUME NEW c, NEW d, NEW g, NEW s, NEW t, NEW w \in Seq(Packet), Read(s, t), 1 \in 1 .. Len(s.out),
         Linked(s), Coherent(c, g, s, w), s.out[1] = "entered", d.at = "world", d.as = c.as,
         NEW v, NEW p \in Packet, Appended(w, v, p), p.op = "screen"
  PROVE  Coherent(d, g, t, v)
<1>1. Dialogue(c, g, s, w) /\ Leftovers(c, g, s, w) /\ Transfers(s, w)
  BY DEF Coherent
<1>2. s.out[1] \in Turn /\ s.out[1] \notin Moving
  BY DEF Turn, Moving
<1>3. c.as # NoOne /\ Plays(c, s) /\ Told(s, w, "entered")
  BY <1>1, <1>2, ToldWhere
<1>4. Quiet(t, w) /\ Plays(d, t) /\ (Linked(t) <=> Linked(s)) /\ Transfers(t, w) /\ Leftovers(d, g, t, w)
  BY <1>1, <1>2, <1>3, ReadTurn, ReadKeeps DEF Read, Plays
<1>5. Dialogue(d, g, t, w)
  BY <1>3, <1>4 DEF Dialogue
<1>6. p \notin Stale(d, g, t) /\ p.op \notin Transfer \cup {"enum", "login"} /\ p.op # "logout"
  BY DEF Stale, LoggedIn, Transfer
<1>7. QED
  BY <1>4, <1>5, <1>6, AppendedCoherent DEF Coherent

(* The messages of a teleport, and their answers. *)
LEMMA MovedCoherent ==
  ASSUME NEW c, NEW g, NEW s, NEW t, NEW w \in Seq(Packet), Read(s, t), 1 \in 1 .. Len(s.out),
         Linked(s), Coherent(c, g, s, w), s.out[1] \in Moving \cup {"teleport"},
         NEW v, NEW p \in Packet, Appended(w, v, p), p.character = c.as,
         IF s.out[1] = "teleport" THEN p.op = "landed" ELSE p.op \in Transfer
  PROVE  Coherent(c, g, t, v) /\ c.as # NoOne
<1>1. Dialogue(c, g, s, w) /\ Leftovers(c, g, s, w) /\ Transfers(s, w)
  BY DEF Coherent
<1>2. s.out[1] \notin Turn
  BY DEF Turn, Moving
<1>3. Dialogue(c, g, t, w) /\ Leftovers(c, g, t, w) /\ Linked(t)
  BY <1>1, <1>2, ReadKeeps
<1>4. c.as # NoOne /\ (s.player = NoOne => Free(s) /\ s.recent /\ Absent(w, Asking))
  <2>1. CASE s.player # NoOne
    BY <1>1, <2>1, WhoPlays
  <2>2. CASE s.player = NoOne
    <3>1. PICK j \in 1 + 1 .. Len(s.out) : s.out[j] = "loggedout"
      BY <1>1, <2>2 DEF Transfers, Followed
    <3>2. j \in 1 .. Len(s.out) /\ s.out[j] \in Turn
      BY <3>1 DEF Turn
    <3>3. QED
      BY <1>1, <3>1, <3>2, ToldWhere DEF Told
  <2>3. QED
    BY <2>1, <2>2
<1>5. (Free(t) <=> Free(s)) /\ t.recent = s.recent /\ t.player = s.player
  BY DEF Read, Free
<1>6. CASE s.out[1] = "teleport"
  <2>1. s.out[1] \notin Moving /\ p.op \notin Transfer \cup {"enum", "login", "logout"}
    BY <1>6 DEF Moving, Transfer
  <2>2. Transfers(t, w)
    BY <1>1, <2>1, ReadKeeps
  <2>3. p \notin Stale(c, g, t)
    BY <1>4, <1>6, <2>1 DEF Stale
  <2>4. QED
    BY <1>3, <1>4, <2>1, <2>2, <2>3, AppendedCoherent DEF Coherent
<1>7. CASE s.out[1] \in Moving
  <2>1. p \in Acks /\ p \notin Asking /\ p \notin Logouts
    BY <1>7 DEF Moving, Acks, Asking, Logouts, PacketsOf, Transfer
  <2>2. Dialogue(c, g, t, v)
    <3>1. /\ Absent(w, Asking) => Absent(v, Asking)
          /\ \A E : Single(w, E, Asking) => Single(v, E, Asking)
          /\ Absent(w, Logouts) => Absent(v, Logouts)
      BY <2>1, AppendedKeeps
    <3>2. /\ Quiet(t, w) => Quiet(t, v)
          /\ \A m : Told(t, w, m) => Told(t, v, m)
          /\ \A E : Asked(t, w, E) => Asked(t, v, E)
      BY <3>1 DEF Quiet, Told, Asked
    <3>3. QED
      BY <1>3, <3>1, <3>2 DEF Dialogue
  <2>3. Leftovers(c, g, t, v)
    <3>1. CASE s.player = NoOne
      <4>1. Ahead(v, Stale(c, g, t), Asking)
        BY <1>4, <3>1, AppendedKeeps
      <4>2. QED
        BY <1>4, <1>5, <3>1, <4>1 DEF Leftovers
    <3>2. CASE s.player # NoOne
      <4>1. p \notin Stale(c, g, t)
        BY <1>5, <2>1, <3>2 DEF Stale, Acks, PacketsOf, LoggedIn, Transfer
      <4>2. QED
        BY <1>3, <4>1, AppendedLeftovers
    <3>3. QED
      BY <3>1, <3>2
  <2>4. Transfers(t, v)
    <3>1. CASE s.player = NoOne
      <4>1. Followed(t.out, Moving \cup {"teleport"}, {"loggedout"})
        BY <1>1, <3>1, RemovedKeeps DEF Transfers, Read
      <4>2. QED
        BY <1>1, <3>1, <4>1 DEF Transfers, Read
    <3>2. CASE s.player # NoOne
      <4>1. ~Absent(s.out, Moving)
        BY <1>7 DEF Absent
      <4>2. s.far # "no" /\ ~s.inWorld /\ Single(s.out, Moving, Moving) /\ Absent(w, Acks)
        BY <1>1, <3>2, <4>1 DEF Transfers
      <4>3. Absent(t.out, Moving) /\ Single(v, Acks, Acks)
        BY <1>7, <2>1, <4>2, AppendedKeeps, RemovedKeeps DEF Read
      <4>4. QED
        BY <3>2, <4>2, <4>3 DEF Transfers, Read
    <3>3. QED
      BY <3>1, <3>2
  <2>5. QED
    BY <1>3, <1>4, <2>2, <2>3, <2>4 DEF Coherent
<1>8. QED
  BY <1>6, <1>7

LEMMA ReceivesCoherent ==
  ASSUME TypeOK, Coherent(client, givenUp, session, Waiting), ClientReceives
  PROVE  Coherent(client, givenUp, session, Waiting)'
<1> DEFINE m == Head(session.out)
<1>1. /\ session \in Session /\ Waiting \in Seq(Packet)
      /\ client \in [at : {"start", "waiting", "list", "loading", "world"}, as : Character \cup {NoOne}]
  BY ConcatProperties DEF TypeOK, Waiting
<1>2. /\ Linked(session) /\ session.out # <<>> /\ requeue' = requeue /\ givenUp' = givenUp
      /\ client' = Informed(m) /\ session' = [session EXCEPT !.out = Tail(@)]
      /\ IF Answer(m) = {} THEN UNCHANGED <<queue, sent>> ELSE \E op \in Answer(m) : Sends(op, client.as)
  BY DEF ClientReceives, Linked
<1>3. Read(session, session') /\ session.out[1] = m /\ m \in Message /\ 1 \in 1 .. Len(session.out)
  BY <1>1, <1>2, ReadOut
<1> HIDE DEF m
<1>4. ASSUME NEW op, Answer(m) = {op}, op \in Opcode
      PROVE  \E p \in Packet : p.op = op /\ p.character = client.as /\ Appended(Waiting, Waiting', p)
  <2>1. Sends(op, client.as)
    BY <1>2, <1>4
  <2>2. QED
    BY <1>1, <1>2, <1>4, <2>1, SendsAppended
<1>5. CASE m \in {"list", "failed", "loggedout"}
  <2>1. Answer(m) = {} /\ Informed(m) = IF m = "loggedout" THEN [at |-> "start", as |-> NoOne]
                                                          ELSE [at |-> "list", as |-> NoOne]
    BY <1>5 DEF Answer, Informed
  <2>2. Waiting' = Waiting
    BY <1>2, <2>1 DEF Waiting
  <2>3. QED
    BY <1>1, <1>2, <1>3, <1>5, <2>1, <2>2, ToldCoherent
<1>6. CASE m = "entered"
  <2>1. Answer(m) = {"screen"} /\ Informed(m) = [client EXCEPT !.at = "world"] /\ "screen" \in Opcode
    BY <1>6 DEF Answer, Informed, Opcode, Authed
  <2>2. PICK p \in Packet : p.op = "screen" /\ p.character = client.as /\ Appended(Waiting, Waiting', p)
    BY <1>4, <2>1
  <2>3. client'.at = "world" /\ client'.as = client.as
    BY <1>1, <1>2, <2>1
  <2>4. QED
    BY <1>1, <1>2, <1>3, <1>6, <2>2, <2>3, EnteredWorldCoherent
<1>7. CASE m \in Moving \cup {"teleport"}
  <2>1. /\ client' = client
        /\ \E op \in Opcode : Answer(m) = {op} /\ IF m = "teleport" THEN op = "landed" ELSE op \in Transfer
    BY <1>2, <1>7 DEF Moving, Answer, Informed, Opcode, LoggedIn, Transfer
  <2>2. PICK op \in Opcode : Answer(m) = {op} /\ IF m = "teleport" THEN op = "landed" ELSE op \in Transfer
    BY <2>1
  <2>3. PICK p \in Packet : p.op = op /\ p.character = client.as /\ Appended(Waiting, Waiting', p)
    BY <1>4, <2>2
  <2>4. IF m = "teleport" THEN p.op = "landed" ELSE p.op \in Transfer
    BY <2>2, <2>3
  <2>5. QED
    BY <1>1, <1>2, <1>3, <1>7, <2>1, <2>3, <2>4, MovedCoherent
<1>8. QED
  BY <1>3, <1>5, <1>6, <1>7 DEF Message, Moving

LEMMA AbortLoginCoherent ==
  ASSUME TypeOK, Coherent(client, givenUp, session, Waiting), AbortLogin
  PROVE  Coherent(client, givenUp, session, Waiting)'
<1> DEFINE s == session
           u == [s EXCEPT !.loading = NoOne, !.connect = FALSE]
<1>1. /\ session \in Session /\ Waiting \in Seq(Packet) /\ Waiting' = Waiting /\ client' = client
      /\ Linked(s) /\ s.connect /\ s.loading # NoOne /\ givenUp' = givenUp \cup {s.loading}
      /\ session' = IF s.player # NoOne THEN Kicked(s) ELSE Sending(u, "failed")
  BY ConcatProperties DEF AbortLogin, TypeOK, Waiting, Linked
<1>2. Dialogue(client, givenUp, s, Waiting) /\ Leftovers(client, givenUp, s, Waiting) /\ Transfers(s, Waiting)
  BY <1>1 DEF Coherent
<1>3. /\ client.at = "loading" /\ client.as # NoOne /\ s.player = NoOne /\ s.query = NoOne
      /\ s.loading = client.as /\ Quiet(s, Waiting)
  BY <1>1, <1>2 DEF Dialogue, Free, Plays, LoggingIn
<1>4. /\ u \in Session /\ u.out = s.out /\ u.player = s.player /\ u.query = s.query /\ ~u.connect
      /\ u.far = s.far /\ u.asked = s.asked /\ u.socket = s.socket
  BY <1>1, PacketAssumption DEF Session
<1> HIDE DEF u
<1>5. session' = [u EXCEPT !.out = Append(s.out, "failed")] /\ s.out \in Seq(Message) /\ "failed" \in Message
  BY <1>1, <1>3, <1>4 DEF Sending, Session, Message
<1> DEFINE t == session'
<1>6. /\ t.out = Append(s.out, "failed") /\ t.player = NoOne /\ t.query = NoOne /\ ~t.connect
      /\ t.far = s.far /\ t.asked = s.asked /\ t.socket = s.socket
  BY <1>3, <1>4, <1>5 DEF Session
<1>7. Appended(s.out, t.out, "failed")
  BY <1>5, <1>6, AppendIsAppended
<1>8. "failed" \notin Moving \cup {"teleport"} /\ "failed" \in {"failed"}
  BY DEF Moving
<1>9. Told(t, Waiting, "failed")
  BY <1>3, <1>7, <1>8, AppendedKeeps DEF Quiet, Told
<1>10. Dialogue(client, givenUp', t, Waiting)
  BY <1>1, <1>3, <1>6, <1>9 DEF Dialogue, Free
<1>11. Leftovers(client, givenUp', t, Waiting)
  <2>1. Stale(client, givenUp', t) \subseteq Stale(client, givenUp, s)
    BY <1>1, <1>3, <1>6 DEF Stale
  <2>2. Absent(Waiting, Stale(client, givenUp, s))
    BY <1>1, <1>2 DEF Leftovers, Free
  <2>3. Absent(Waiting, Stale(client, givenUp', t))
    BY <2>1, <2>2 DEF Absent
  <2>4. QED
    BY <1>1, <1>3, <2>3, AbsentAhead DEF Leftovers, Quiet
<1>12. Transfers(t, Waiting)
  <2>1. Followed(t.out, Moving \cup {"teleport"}, {"loggedout"})
    BY <1>2, <1>3, <1>7, <1>8, AppendedKeeps DEF Transfers
  <2>2. QED
    BY <1>2, <1>3, <1>6, <2>1 DEF Transfers
<1>13. Linked(t)
  BY <1>1, <1>6 DEF Linked
<1>14. QED
  BY <1>1, <1>10, <1>11, <1>12, <1>13 DEF Coherent

-----------------------------------------------------------------------------
(* The server. *)

LEMMA LinkCoherent ==
  ASSUME TypeOK, Coherent(client, givenUp, session, Waiting), LinkInstanceSocket
  PROVE  Coherent(client, givenUp, session, Waiting)'
<1> DEFINE s == [session EXCEPT !.connect = FALSE]
           q == [s EXCEPT !.query = s.loading]
<1>1. /\ session \in Session /\ Waiting \in Seq(Packet) /\ Waiting' = Waiting /\ client' = client
      /\ givenUp' = givenUp /\ Linked(session) /\ session.connect
      /\ session' = IF s.loading = NoOne \/ s.player # NoOne THEN Kicked(s) ELSE q
  BY ConcatProperties DEF LinkInstanceSocket, TypeOK, Waiting, Linked
<1>2. /\ Dialogue(client, givenUp, session, Waiting) /\ Leftovers(client, givenUp, session, Waiting)
      /\ Transfers(session, Waiting)
  BY <1>1 DEF Coherent
<1>3. /\ client.at = "loading" /\ client.as # NoOne /\ session.player = NoOne /\ session.query = NoOne
      /\ session.loading \in {client.as, NoOne} /\ Quiet(session, Waiting)
  BY <1>1, <1>2 DEF Dialogue, Free, Plays, LoggingIn
<1>4. /\ s.loading = session.loading /\ s.player = NoOne /\ Kicked(s).socket = "kicked"
      /\ Kicked(s).player = NoOne /\ Kicked(s).query = NoOne
      /\ q.player = NoOne /\ q.query = session.loading /\ ~q.connect /\ q.far = session.far
      /\ q.asked = session.asked /\ q.out = session.out /\ q.socket = session.socket
      /\ q.recent = session.recent
  BY <1>1, <1>3 DEF Session, Kicked
<1> HIDE DEF s, q
<1>5. CASE session.loading = NoOne
  BY <1>1, <1>4, <1>5 DEF Coherent, Linked
<1>6. CASE session.loading # NoOne
  <2>1. session' = q /\ session.loading = client.as
    BY <1>1, <1>3, <1>4, <1>6
  <2>2. Dialogue(client, givenUp, q, Waiting)
    BY <1>3, <1>4, <2>1 DEF Dialogue, LoggingIn, Quiet
  <2>3. Leftovers(client, givenUp, q, Waiting)
    <3>1. Stale(client, givenUp, q) = Stale(client, givenUp, session)
      BY <1>3, <1>4 DEF Stale
    <3>2. QED
      BY <1>1, <1>2, <3>1 DEF Leftovers, Free
  <2>4. Transfers(q, Waiting) /\ Linked(q)
    BY <1>1, <1>2, <1>3, <1>4 DEF Transfers, Linked
  <2>5. QED
    BY <1>1, <2>1, <2>2, <2>3, <2>4 DEF Coherent
<1>7. QED
  BY <1>5, <1>6

LEMMA TeleportCoherent ==
  ASSUME IInv, Coherent(client, givenUp, session, Waiting),
         NEW m \in Map, NEW option \in {"normal", "seamless"}, Teleport(m, option)
  PROVE  Coherent(client, givenUp, session, Waiting)'
<1>1. /\ session \in Session /\ Waiting' = Waiting /\ client' = client /\ givenUp' = givenUp
      /\ session.inWorld /\ session.player # NoOne /\ session' = Teleported(session, m, option)
  BY DEF Teleport, IInv, TypeOK, Waiting, InWorldHasPlayer
<1>2. /\ Linked(session) /\ Dialogue(client, givenUp, session, Waiting)
      /\ Leftovers(client, givenUp, session, Waiting) /\ Transfers(session, Waiting)
  BY <1>1 DEF Coherent
<1>3. Absent(session.out, Moving) /\ Absent(Waiting, Acks)
  BY <1>1, <1>2 DEF Transfers
<1>4. Coherent(client, givenUp, Teleported(session, m, option), Waiting)
  BY <1>1, <1>2, <1>3, TeleportedCoherent
<1>5. QED
  BY <1>1, <1>4

(* A packet is taken that is dropped, or whose handler is not concerned with *)
(* the conversation.                                                         *)
LEMMA RemovedCoherent ==
  ASSUME NEW c, NEW g, NEW s, NEW w, NEW v, NEW i, Removed(w, v, i), w[i] \notin Asking,
         Linked(s), Coherent(c, g, s, w),
         w[i] \in Acks => s.player = NoOne \/ s.inWorld
  PROVE  Coherent(c, g, s, v)
<1>1. Dialogue(c, g, s, w) /\ Leftovers(c, g, s, w) /\ Transfers(s, w)
  BY DEF Coherent
<1>2. /\ \A S : Absent(w, S) => Absent(v, S)
      /\ \A S, C : Ahead(w, S, C) => Ahead(v, S, C)
  BY RemovedKeeps
<1>3. Dialogue(c, g, s, v)
  <2>1. Enums \subseteq Asking /\ Logins(c.as) \subseteq Asking
    BY DEF Enums, Logins, Asking, PacketsOf
  <2>2. \A E : Single(w, E, Asking) /\ E \subseteq Asking => Single(v, E, Asking)
    BY RemovedKeeps
  <2>3. /\ Quiet(s, w) => Quiet(s, v)
        /\ \A m : Told(s, w, m) => Told(s, v, m)
        /\ Asked(s, w, Enums) => Asked(s, v, Enums)
        /\ Asked(s, w, Logins(c.as)) => Asked(s, v, Logins(c.as))
    BY <1>2, <2>1, <2>2 DEF Quiet, Told, Asked
  <2>4. QED
    BY <1>1, <1>2, <2>3 DEF Dialogue
<1>4. Leftovers(c, g, s, v)
  BY <1>1, <1>2 DEF Leftovers
<1>5. Transfers(s, v)
  <2>1. w[i] \notin Acks /\ Single(w, Acks, Acks) => Single(v, Acks, Acks)
    <3>1. Acks \subseteq Acks
      OBVIOUS
    <3>2. QED
      BY <3>1, RemovedKeeps
  <2>2. QED
    BY <1>1, <1>2, <2>1 DEF Transfers
<1>6. QED
  BY <1>3, <1>4, <1>5 DEF Coherent

(* A session that differs only in fields the conversation does not have. *)
SameBut(s, t) ==
  /\ t.player = s.player /\ t.query = s.query /\ t.connect = s.connect
  /\ t.recent = s.recent /\ t.socket = s.socket /\ t.out = s.out
  /\ t.far = s.far /\ t.map = s.map /\ t.inWorld = s.inWorld
  /\ t.loading \in {s.loading, NoOne}

LEMMA SameButKeeps ==
  ASSUME NEW c, NEW g, NEW s, NEW t, NEW w, SameBut(s, t), Coherent(c, g, s, w),
         \/ t.asked = s.asked /\ t.near = s.near
         \/ c.at = "world" /\ s.player # NoOne /\ s.inWorld
         \/ s.player # NoOne /\ s.inWorld /\ t.asked = s.asked
  PROVE  Coherent(c, g, t, w)
<1>1. Linked(t) <=> Linked(s)
  BY DEF SameBut, Linked
<1>2. CASE Linked(s)
  <2>1. Dialogue(c, g, s, w) /\ Leftovers(c, g, s, w) /\ Transfers(s, w)
    BY <1>2 DEF Coherent
  <2>2. /\ Free(t) <=> Free(s)
        /\ Plays(c, t) <=> Plays(c, s)
        /\ LoggingIn(c, s) => LoggingIn(c, t)
        /\ Quiet(t, w) <=> Quiet(s, w)
        /\ \A m : Told(t, w, m) <=> Told(s, w, m)
        /\ \A E : Asked(t, w, E) <=> Asked(s, w, E)
        /\ t.recent = s.recent
        /\ c.at = "loading" => t.asked = s.asked \/ s.player = NoOne
    BY DEF SameBut, Free, Plays, LoggingIn, Quiet, Told, Asked
  <2>3. Dialogue(c, g, t, w)
    BY <2>1, <2>2 DEF Dialogue, Plays
  <2>4. Leftovers(c, g, t, w)
    BY <2>1 DEF SameBut, Leftovers, Free, Stale
  <2>5. Transfers(t, w)
    BY <2>1 DEF SameBut, Transfers
  <2>6. QED
    BY <1>1, <1>2, <2>3, <2>4, <2>5 DEF Coherent
<1>3. CASE ~Linked(s)
  BY <1>1, <1>3 DEF Coherent, SameBut
<1>4. QED
  BY <1>2, <1>3

(* The packet that a transfer waits for. *)
LEMMA AckCoherent ==
  ASSUME NEW c, NEW g, NEW s \in Session, NEW w, NEW v, NEW i \in 1 .. Len(w), Removed(w, v, i), w[i] \in Acks,
         Linked(s), Coherent(c, g, s, w), s.player # NoOne, ~s.inWorld
  PROVE  /\ Absent(s.out, Moving) /\ Absent(v, Acks) /\ Dialogue(c, g, s, v) /\ Leftovers(c, g, s, v)
         /\ s.far # "no"
         /\ LET t == Sending(s, "newworld") IN s.far = "normal" => Coherent(c, g, t, v)
<1>1. Dialogue(c, g, s, w) /\ Leftovers(c, g, s, w) /\ Transfers(s, w)
  BY DEF Coherent
<1>2. ~Absent(w, Acks)
  BY DEF Absent
<1>3. s.far # "no" /\ Absent(s.out, Moving) /\ Single(w, Acks, Acks)
  BY <1>1, <1>2 DEF Transfers
<1>4. /\ \A S : Absent(w, S) => Absent(v, S)
      /\ \A S, C : Ahead(w, S, C) => Ahead(v, S, C)
      /\ Absent(v, Acks)
  BY <1>3, RemovedKeeps
<1>5. Dialogue(c, g, s, v)
  <2>1. c.as # NoOne /\ Plays(c, s) /\ Absent(w, Asking)
    BY <1>1, WhoPlays
  <2>2. /\ Quiet(s, w) => Quiet(s, v)
        /\ \A m : Told(s, w, m) => Told(s, v, m)
    BY <1>4 DEF Quiet, Told
  <2>3. ~Free(s) /\ ~LoggingIn(c, s)
    BY DEF Free, LoggingIn
  <2>4. QED
    BY <1>1, <1>4, <2>2, <2>3 DEF Dialogue
<1>6. Leftovers(c, g, s, v)
  BY <1>1, <1>4 DEF Leftovers
<1>7. ASSUME NEW t, t = Sending(s, "newworld"), s.far = "normal" PROVE Coherent(c, g, t, v)
  <2>1. "newworld" \in Message \ Turn /\ "newworld" \in Moving /\ SameTalk(s, s)
    BY DEF Message, Turn, Moving, SameTalk
  <2>2. SameTalk(s, t) /\ Appended(s.out, t.out, "newworld")
    BY <1>7, <2>1, SendingTalk
  <2>3. Linked(t) /\ Dialogue(c, g, t, v) /\ Leftovers(c, g, t, v) /\ t.player # NoOne
    <3>1. t.player = s.player
      BY <2>2 DEF SameTalk
    <3>2. QED
      BY <1>5, <1>6, <2>2, <3>1, SameTalkKeeps
  <2>4. Single(t.out, Moving, Moving)
    BY <1>3, <2>1, <2>2, AppendedKeeps
  <2>5. t.far = s.far /\ t.inWorld = s.inWorld
    BY <1>7 DEF Sending, Session
  <2>6. QED
    BY <1>3, <1>4, <2>3, <2>4, <2>5 DEF Coherent, Transfers
<1>8. QED
  BY <1>3, <1>4, <1>5, <1>6, <1>7

(* Those that ask for the characters or for one of them find nothing left    *)
(* over behind them.                                                         *)
LEMMA AskingCoherent ==
  ASSUME NEW c, NEW g, NEW s \in Session, NEW w \in Seq(Packet), NEW v \in Seq(Packet),
         NEW i \in 1 .. Len(w), Removed(w, v, i), s.recent => i = 1, Linked(s), Coherent(c, g, s, w),
         w[i] \in Asking, NEW t \in Handled(w[i], s)
  PROVE  Coherent(c, g, t, v)
<1>1. Dialogue(c, g, s, w) /\ Leftovers(c, g, s, w) /\ Transfers(s, w)
  BY DEF Coherent
<1>2. /\ w[i].op = "enum" => c.at = "waiting" /\ c.as = NoOne /\ Free(s) /\ Asked(s, w, Enums)
      /\ w[i].op = "login" =>
           c.at = "loading" /\ c.as # NoOne /\ Free(s) /\ Asked(s, w, Logins(c.as)) /\ w[i].character = c.as
  BY <1>1, AskedWhere
<1>3. w[i].op \in {"enum", "login"} /\ w[i] \in Packet
  BY DEF Asking, PacketsOf
<1>4. Free(s) /\ Absent(s.out, Turn) /\ Absent(v, Asking)
  BY <1>2, <1>3, RemovedKeeps DEF Asked
<1>5. Absent(v, Stale(c, g, s))
  <2>1. CASE Absent(w, Stale(c, g, s))
    BY <2>1, RemovedKeeps
  <2>2. CASE s.recent
    <3>1. Ahead(w, Stale(c, g, s), Asking) /\ i = 1
      BY <1>1, <2>2 DEF Leftovers
    <3>2. QED
      BY <3>1, RemovedKeeps
  <2>3. QED
    BY <1>1, <2>1, <2>2 DEF Leftovers
<1>6. ASSUME NEW x, x.player = NoOne PROVE Leftovers(c, g, x, v)
  <2>1. Stale(c, g, x) = Stale(c, g, s)
    BY <1>4, <1>6 DEF Stale, Free
  <2>2. QED
    BY <1>4, <1>5, <2>1, AbsentAhead DEF Leftovers
<1>7. s.player = NoOne /\ s.far = "no" /\ ~s.asked /\ Followed(s.out, Moving \cup {"teleport"}, {"loggedout"})
  BY <1>1, <1>4 DEF Free, Transfers
<1>8. CASE w[i].op = "enum"
  <2> DEFINE u == [s EXCEPT !.recent = FALSE]
  <2>1. t = Sending(u, "list") /\ "list" \in Message /\ s.out \in Seq(Message)
    BY <1>8 DEF Handled, Message, Session
  <2>2. /\ t.player = NoOne /\ t.query = s.query /\ t.connect = s.connect /\ t.far = "no"
        /\ t.asked = s.asked /\ t.socket = s.socket /\ t.out = Append(s.out, "list")
    BY <1>7, <2>1 DEF Sending, Session
  <2>3. Appended(s.out, t.out, "list")
    BY <2>1, <2>2, AppendIsAppended
  <2>4. "list" \notin Moving \cup {"teleport"} /\ "list" \in {"list"}
    BY DEF Moving
  <2>5. Single(t.out, {"list"}, Turn) /\ Followed(t.out, Moving \cup {"teleport"}, {"loggedout"})
    BY <1>4, <1>7, <2>3, <2>4, AppendedKeeps
  <2>6. Free(t) /\ Linked(t)
    BY <1>4, <2>2 DEF Free, Linked
  <2>7. Dialogue(c, g, t, v)
    BY <1>2, <1>4, <1>8, <2>5, <2>6 DEF Dialogue, Told
  <2>8. QED
    BY <1>6, <1>7, <2>2, <2>5, <2>6, <2>7 DEF Coherent, Transfers
<1>9. CASE w[i].op = "login"
  <2>1. t = LoginAsked(s, c.as)
    BY <1>2, <1>9 DEF Handled
  <2>2. CASE s.loading # NoOne
    <3>1. t.player = NoOne /\ t.query = NoOne /\ t.socket = "kicked"
      BY <1>4, <2>1, <2>2 DEF LoginAsked, Kicked, Free, Session
    <3>2. QED
      BY <3>1 DEF Coherent, Linked
  <2>3. CASE s.loading = NoOne
    <3>1. /\ t.player = NoOne /\ t.query = NoOne /\ t.connect /\ t.loading = c.as /\ t.far = "no"
          /\ t.asked = s.asked /\ t.socket = s.socket /\ t.out = s.out
      BY <1>4, <1>7, <2>1, <2>3 DEF LoginAsked, Free, Session
    <3>2. Dialogue(c, g, t, v)
      BY <1>2, <1>4, <1>9, <3>1 DEF Dialogue, LoggingIn, Quiet
    <3>3. Transfers(t, v) /\ Linked(t)
      BY <1>7, <3>1 DEF Transfers, Linked
    <3>4. QED
      BY <1>6, <3>1, <3>2, <3>3 DEF Coherent
  <2>4. QED
    BY <2>2, <2>3
<1>10. QED
  BY <1>3, <1>8, <1>9

LEMMA TakenCoherent ==
  ASSUME IInv, Coherent(client, givenUp, session, Waiting), TakePacket
  PROVE  Coherent(client, givenUp, session, Waiting)'
<1> DEFINE p == Head(queue)
           i == Len(requeue) + 1
           w == Waiting
           v == Waiting'
           s == session
           t == session'
<1>1. /\ queue # <<>> /\ queue' = Tail(queue) /\ requeue' = requeue /\ client' = client /\ givenUp' = givenUp
      /\ p.op \in LoggedIn => s.player # NoOne \/ s.recent
      /\ IF Accepts(p) THEN t \in Handled(p, s) ELSE t = s
  BY DEF TakePacket, HasNext
<1>2. /\ s \in Session /\ w \in Seq(Packet) /\ v \in Seq(Packet) /\ p \in Packet
      /\ s.inWorld => s.player # NoOne
  <2>1. queue \in Seq(Packet) /\ requeue \in Seq(Packet) /\ Tail(queue) \in Seq(Packet) /\ p \in Packet
    BY <1>1 DEF IInv, TypeOK
  <2>2. QED
    BY <1>1, <2>1, ConcatProperties DEF IInv, TypeOK, Waiting, InWorldHasPlayer
<1>3. Removed(w, v, i) /\ i \in 1 .. Len(w) /\ w[i] = p /\ (s.recent => i = 1)
  <2>1. /\ Len(requeue) \in Nat /\ Len(w) \in Nat /\ Len(requeue) + 1 <= Len(w)
        /\ w[Len(requeue) + 1] = p /\ Len(v) = Len(w) - 1
        /\ \A j \in 1 .. Len(requeue) : v[j] = w[j]
        /\ \A j \in Len(requeue) + 1 .. Len(w) - 1 : v[j] = w[j + 1]
    BY <1>1, TakenWaiting DEF IInv
  <2>2. s.recent => Len(requeue) = 0
    BY DEF IInv, OnlyWithoutPlayer
  <2>3. i - 1 = Len(requeue)
    BY <2>1
  <2>4. QED
    BY <2>1, <2>2, <2>3 DEF Removed
<1> HIDE DEF i, p, v, w
<1>4. Linked(s) => Coherent(client, givenUp, t, v)
  <2> SUFFICES ASSUME Linked(s) PROVE Coherent(client, givenUp, t, v)
    OBVIOUS
  <2>1. Coherent(client, givenUp, s, w) /\ Dialogue(client, givenUp, s, w) /\ Transfers(s, w)
    BY DEF Coherent, w
  <2>2. CASE p \in Asking
    <3>1. Accepts(p)
      BY <2>2 DEF Accepts, Asking, PacketsOf, LoggedIn, Transfer
    <3>2. QED
      BY <1>1, <1>2, <1>3, <2>1, <2>2, <3>1, AskingCoherent
  <2>3. CASE p \notin Asking /\ ~Accepts(p)
    <3>1. t = s /\ (p \in Acks => s.player = NoOne \/ s.inWorld)
      BY <1>1, <2>3 DEF Accepts, Acks, PacketsOf, LoggedIn, Transfer
    <3>2. QED
      BY <1>3, <2>1, <2>3, <3>1, RemovedCoherent
  <2>4. CASE p \in Acks /\ Accepts(p)
    <3>1. s.player # NoOne /\ ~s.inWorld /\ p.op \in {"suspended", "ported"} /\ t \in Handled(p, s)
      BY <1>1, <2>4 DEF Accepts, Acks, PacketsOf, Transfer
    <3>2. /\ Absent(s.out, Moving) /\ Absent(v, Acks) /\ Dialogue(client, givenUp, s, v)
          /\ Leftovers(client, givenUp, s, v) /\ s.far # "no"
          /\ s.far = "normal" => Coherent(client, givenUp, Sending(s, "newworld"), v)
      BY <1>2, <1>3, <2>1, <2>4, <3>1, AckCoherent
    <3>3. \/ s.far = "normal" /\ t = Sending(s, "newworld")
          \/ t \in Ported(s)
      <4>1. s.far \in {"no", "normal", "seamless"}
        BY <1>2 DEF Session
      <4>2. CASE p.op = "ported"
        BY <3>1, <3>2, <4>2 DEF Handled
      <4>3. CASE p.op = "suspended"
        <5>1. t \in Suspended(s)
          BY <3>1, <4>3 DEF Handled
        <5>2. CASE s.far = "normal"
          BY <5>1, <5>2 DEF Suspended
        <5>3. CASE s.far = "seamless"
          BY <5>1, <5>3 DEF Suspended
        <5>4. QED
          BY <3>2, <4>1, <5>2, <5>3
      <4>4. QED
        BY <3>1, <4>2, <4>3
    <3>4. CASE t \in Ported(s)
      BY <1>2, <3>1, <3>2, <3>4, PortedCoherent
    <3>5. QED
      BY <3>2, <3>3, <3>4
  <2>5. CASE p \notin Asking /\ p \notin Acks /\ Accepts(p)
    <3>1. Coherent(client, givenUp, s, v)
      BY <1>3, <2>1, <2>5, RemovedCoherent
    <3>2. t \in Handled(p, s) /\ (p.op \in LoggedIn => s.player # NoOne /\ s.inWorld)
      BY <1>1, <2>5 DEF Accepts
    <3>3. CASE p.op \in {"cast", "attack"}
      <4>1. t = s
        BY <3>2, <3>3 DEF Handled
      <4>2. QED
        BY <3>1, <4>1
    <3>4. CASE p.op = "landed"
      <4>1. t = [s EXCEPT !.near = FALSE]
        BY <3>2, <3>4 DEF Handled
      <4>2. SameBut(s, t) /\ t.asked = s.asked /\ s.player # NoOne /\ s.inWorld
        BY <1>2, <3>2, <3>4, <4>1 DEF SameBut, Session, LoggedIn
      <4>3. QED
        BY <3>1, <4>2, SameButKeeps
    <3>5. CASE p.op = "logout"
      <4>1. t \in LogoutAsked(s) /\ s.player # NoOne /\ s.inWorld
        BY <3>2, <3>5 DEF Handled, LoggedIn
      <4>2. client.at = "world"
        <5>1. p \in Logouts
          BY <1>2, <3>5 DEF Logouts, PacketsOf
        <5>2. ~Absent(w, Logouts)
          BY <1>3, <5>1 DEF Absent
        <5>3. QED
          BY <2>1, <4>1, <5>2, WhoPlays
      <4>3. CASE t \in LoggedOut(s)
        <5>1. Dialogue(client, givenUp, s, v)
          BY <3>1 DEF Coherent
        <5>2. QED
          BY <1>2, <4>1, <4>2, <4>3, <5>1, LoggedOutCoherent
      <4>4. CASE t \in {[s EXCEPT !.asked = a] : a \in BOOLEAN}
        <5>1. SameBut(s, t)
          BY <1>2, <4>4 DEF SameBut, Session
        <5>2. QED
          BY <3>1, <4>1, <4>2, <5>1, SameButKeeps
      <4>5. QED
        BY <4>1, <4>3, <4>4 DEF LogoutAsked
    <3>6. CASE p.op = "screen"
      <4>1. t = [s EXCEPT !.loading = NoOne]
        BY <3>2, <3>6 DEF Handled
      <4>2. SameBut(s, t) /\ t.asked = s.asked /\ t.near = s.near
        BY <1>2, <4>1, PacketAssumption DEF SameBut, Session
      <4>3. QED
        BY <3>1, <4>2, SameButKeeps
    <3>7. p.op \in {"cast", "attack", "landed", "logout", "screen"}
      BY <1>2, <2>5 DEF Packet, Opcode, LoggedIn, Transfer, Authed, Asking, Acks, PacketsOf
    <3>8. QED
      BY <3>3, <3>4, <3>5, <3>6, <3>7
  <2>6. QED
    BY <2>2, <2>3, <2>4, <2>5
<1>5. ~Linked(s) => Coherent(client, givenUp, t, v)
  <2> SUFFICES ASSUME ~Linked(s) PROVE Coherent(client, givenUp, t, v)
    OBVIOUS
  <2>1. s.player = NoOne /\ s.query = NoOne /\ ~s.inWorld
    BY <1>2 DEF Coherent
  <2>2. t.player = NoOne /\ t.query = NoOne /\ t.socket \notin {"open", "closed"}
    <3>1. CASE ~Accepts(p)
      BY <1>1, <2>1, <3>1 DEF Linked
    <3>2. CASE Accepts(p)
      <4>1. t \in Handled(p, s) /\ p.op \in {"enum", "login", "screen"}
        BY <1>1, <1>2, <2>1, <3>2 DEF Accepts, Packet, Opcode, LoggedIn, Transfer, Authed
      <4>2. CASE p.op = "enum"
        BY <1>2, <2>1, <4>1, <4>2 DEF Handled, Sending, Session, Linked
      <4>3. CASE p.op = "login"
        BY <1>2, <2>1, <4>1, <4>3 DEF Handled, LoginAsked, Kicked, Session, Linked
      <4>4. CASE p.op = "screen"
        BY <1>2, <2>1, <4>1, <4>4 DEF Handled, Session, Linked
      <4>5. QED
        BY <4>1, <4>2, <4>3, <4>4
    <3>3. QED
      BY <3>1, <3>2
  <2>3. QED
    BY <2>2 DEF Coherent, Linked
<1>6. QED
  BY <1>1, <1>4, <1>5 DEF v

LEMMA EndUpdateCoherent ==
  ASSUME IInv, Coherent(client, givenUp, session, Waiting), EndUpdate
  PROVE  Coherent(client, givenUp, session, Waiting)'
<1> DEFINE w == Waiting
<1>1. client' = client /\ givenUp' = givenUp /\ requeue' = <<>>
  BY DEF EndUpdate
<1>2. session \in Session /\ w \in Seq(Packet)
  BY ConcatProperties DEF IInv, TypeOK, Waiting
<1>3. queue' = Readd => Waiting' = w
  BY <1>1, <1>2 DEF Readd, Waiting
<1>4. CASE session' = session /\ queue' = Readd
  BY <1>1, <1>3, <1>4
<1>5. ASSUME NEW s \in AfterCallbacks(session), NEW t \in AfterLogout(s), session' \in CleanedUp(t),
             queue' = IF session'.socket = "gone" THEN <<>> ELSE Readd
      PROVE  Coherent(client, givenUp, session, Waiting)'
  <2> HIDE DEF w
  <2>1. s \in Session /\ Coherent(client, givenUp, s, w)
    <3>1. CASE s = session
      BY <1>2, <3>1 DEF w
    <3>2. CASE session.query # NoOne /\ s \in Entered(session)
      BY <1>2, <3>2, EnteredCoherent DEF w
    <3>3. QED
      BY <3>1, <3>2 DEF AfterCallbacks
  <2>2. t \in Session /\ Coherent(client, givenUp, t, w)
    <3>1. CASE t = s
      BY <2>1, <3>1
    <3>2. CASE s.asked /\ t \in LoggedOut(s)
      <4>1. t \in Session
        BY <2>1, <3>2, LoggedOutOK DEF SessionOK
      <4>2. CASE Linked(s)
        <5>1. Dialogue(client, givenUp, s, w) /\ Transfers(s, w)
          BY <2>1, <4>2 DEF Coherent
        <5>2. s.player # NoOne
          BY <3>2, <5>1 DEF Transfers
        <5>3. client.at = "world"
          BY <3>2, <4>2, <5>1, <5>2, WhoPlays
        <5>4. QED
          BY <1>2, <2>1, <3>2, <4>1, <4>2, <5>1, <5>2, <5>3, LoggedOutCoherent
      <4>3. CASE ~Linked(s)
        <5>1. PICK u \in Landed(s) :
                t = Sending([NoPlayer(u) EXCEPT !.asked = FALSE, !.recent = TRUE], "loggedout")
          BY <3>2 DEF LoggedOut
        <5>2. u \in Session /\ SameTalk(s, u)
          BY <2>1, LandedTalk
        <5>3. t.player = NoOne /\ t.query = u.query /\ t.socket = u.socket
          BY <5>1, <5>2 DEF Sending, NoPlayer, Session
        <5>4. s.query = NoOne
          BY <2>1, <4>3 DEF Coherent
        <5>5. QED
          BY <4>1, <4>3, <5>2, <5>3, <5>4 DEF SameTalk, Coherent, Linked
      <4>4. QED
        BY <4>2, <4>3
    <3>3. QED
      BY <3>1, <3>2 DEF AfterLogout
  <2>3. CASE session' = t /\ t.socket # "gone"
    BY <1>1, <1>3, <1>5, <2>2, <2>3 DEF w
  <2>4. CASE session' = Deleted(t)
    <3>1. session'.player = NoOne /\ session'.query = NoOne /\ session'.socket = "gone"
      BY <2>2, <2>4 DEF Deleted, NoPlayer, Session
    <3>2. QED
      BY <3>1 DEF Coherent, Linked
  <2>5. CASE session' = t /\ t.socket = "gone"
    <3>1. t.player = NoOne /\ t.query = NoOne
      BY <2>2, <2>5 DEF Coherent, Linked
    <3>2. QED
      BY <2>5, <3>1 DEF Coherent, Linked
  <2>6. QED
    BY <1>5, <2>3, <2>4, <2>5 DEF CleanedUp
<1>6. QED
  BY <1>4, <1>5 DEF EndUpdate

LEMMA InitCoherent == Init => Coherent(client, givenUp, session, Waiting)
<1> SUFFICES ASSUME Init PROVE Coherent(client, givenUp, session, Waiting)
  OBVIOUS
<1>1. Waiting = <<>> /\ session.out = <<>> /\ client.at = "start" /\ client.as = NoOne
  BY DEF Init, Waiting
<1>2. /\ session.player = NoOne /\ session.query = NoOne /\ ~session.connect /\ session.far = "no"
      /\ ~session.asked /\ session.socket = "open"
  BY DEF Init
<1>3. \A S : Absent(<<>>, S) /\ (\A C : Ahead(<<>>, S, C) /\ Followed(<<>>, S, C))
  BY DEF Absent, Ahead, Followed
<1>4. QED
  BY <1>1, <1>2, <1>3 DEF Coherent, Linked, Dialogue, Free, Quiet, Leftovers, Transfers

LEMMA NextCoherent ==
  ASSUME JInv, [Next]_vars
  PROVE  Coherent(client, givenUp, session, Waiting)'
<1> USE DEF JInv
<1>1. TypeOK
  BY DEF IInv
<1>2. CASE UNCHANGED vars \/ BeginUpdate
  <2>1. Waiting' = Waiting /\ client' = client /\ givenUp' = givenUp /\ session' = session
    BY <1>2 DEF vars, serverVars, BeginUpdate, Waiting
  <2>2. QED
    BY <2>1
<1>3. CASE ClientNext
  <2>1. CASE CloseSocket
    <3>1. /\ Waiting' = Waiting /\ client' = client /\ givenUp' = givenUp /\ Linked(session)
          /\ session' = [session EXCEPT !.socket = "closed"]
      BY <2>1 DEF CloseSocket, Waiting, Linked
    <3> DEFINE s == session
               t == session'
    <3>3. /\ t.player = s.player /\ t.query = s.query /\ t.connect = s.connect /\ t.loading = s.loading
          /\ t.recent = s.recent /\ t.asked = s.asked /\ t.socket = "closed" /\ t.far = s.far
          /\ t.near = s.near /\ t.map = s.map /\ t.inWorld = s.inWorld /\ t.out = s.out
      BY <1>1, <3>1 DEF TypeOK, Session
    <3> HIDE DEF s, t
    <3>4. Dialogue(client, givenUp, t, Waiting)
      BY <3>1, <3>3 DEF Coherent, Dialogue, Free, Plays, LoggingIn, Quiet, Told, Asked, s
    <3>5. Leftovers(client, givenUp, t, Waiting) /\ Transfers(t, Waiting)
      BY <3>1, <3>3 DEF Coherent, Leftovers, Free, Stale, Transfers, s
    <3>6. QED
      BY <3>1, <3>3, <3>4, <3>5 DEF Coherent, Linked, t
  <2>2. QED
    BY <1>1, <1>3, <2>1, ListsCoherent, LogsInCoherent, PlaysCoherent, ReceivesCoherent, AbortLoginCoherent
    DEF ClientNext
<1>4. CASE Requeue
  <2>1. Waiting' = Waiting /\ client' = client /\ givenUp' = givenUp /\ session' = session
    BY <1>1, <1>4, KeptWaiting DEF Requeue, HasNext, Waiting
  <2>2. QED
    BY <2>1
<1>5. QED
  BY <1>1, <1>2, <1>3, <1>4, LinkCoherent, TeleportCoherent, TakenCoherent, EndUpdateCoherent DEF Next, UpdateNext

(* Client and server agree on who plays, and what an earlier player left in  *)
(* the queue is ahead of all that the next one's login needs.                *)
THEOREM TalkInvariance == Spec => []JInv
<1>1. Init => JInv
  BY InitIInv, InitCoherent DEF JInv
<1>2. JInv /\ [Next]_vars => JInv'
  <2>1. JInv /\ [Next]_vars => IInv'
    BY NextIInv DEF JInv
  <2>2. JInv /\ [Next]_vars => Coherent(client, givenUp, session, Waiting)'
    BY NextCoherent
  <2>3. QED
    BY <2>1, <2>2 DEF JInv
<1>3. QED
  BY <1>1, <1>2, PTL DEF Spec

(* No character is given a packet that was sent for another one, however the *)
(* packets of a logout, of a login that is still to come and of the next     *)
(* login overlap; those of a login that was given up excepted.               *)
THEOREM NoForeignPackets == Spec => []PacketsStayWithTheirCharacter
<1>1. JInv => PacketsStayWithTheirCharacter
  <2> SUFFICES ASSUME JInv, session.inWorld,
                      NEW i \in 1 .. Len(Waiting), Waiting[i].op \in LoggedIn
               PROVE  Waiting[i].character \in {session.player} \cup givenUp
    BY DEF PacketsStayWithTheirCharacter
  <2>1. session.player # NoOne /\ Waiting \in Seq(Packet)
    BY ConcatProperties DEF JInv, IInv, InWorldHasPlayer, TypeOK, Waiting
  <2>2. /\ Linked(session) /\ Dialogue(client, givenUp, session, Waiting)
        /\ Leftovers(client, givenUp, session, Waiting)
    BY <2>1 DEF JInv, Coherent
  <2>3. Plays(client, session) /\ Absent(Waiting, Stale(client, givenUp, session))
    BY <2>1, <2>2, WhoPlays DEF Leftovers, Free
  <2>4. Waiting[i] \in Packet /\ Waiting[i] \notin Stale(client, givenUp, session)
    BY <2>1, <2>3, ElementOfSeq DEF Absent
  <2>5. QED
    BY <2>3, <2>4 DEF Stale, Plays
<1>2. QED
  BY <1>1, TalkInvariance, PTL

(* A transfer has exactly one message or packet under way that brings it     *)
(* further, in every interleaving of logins, logouts, refusals of dungeons   *)
(* and the delays of the network; none is left over from an earlier one.     *)
THEOREM TransfersGoOn == Spec => []TransfersCanFinish
<1>1. ASSUME NEW x, NEW S
      PROVE  LET at == {i \in 1 .. Len(x) : x[i] \in S}
             IN  /\ Absent(x, S) => Cardinality(at) = 0
                 /\ Single(x, S, S) => Cardinality(at) = 1
  <2> DEFINE at == {i \in 1 .. Len(x) : x[i] \in S}
  <2>1. Absent(x, S) => at = {}
    BY DEF Absent
  <2>2. Single(x, S, S) => \E i \in 1 .. Len(x) : at = {i}
    BY DEF Single
  <2> HIDE DEF at
  <2>3. Absent(x, S) => Cardinality(at) = 0
    BY <2>1, FS_EmptySet
  <2>4. Single(x, S, S) => Cardinality(at) = 1
    BY <2>2, FS_Singleton
  <2>5. QED
    BY <2>3, <2>4 DEF at
<1>2. JInv => TransfersCanFinish
  <2> SUFFICES ASSUME JInv, session.player # NoOne, ~session.inWorld, session.socket = "open"
               PROVE  \/ session.far # "no" /\ UnderWay = 1
                      \/ session.near /\ session.map = Home
    BY DEF TransfersCanFinish
  <2>1. Transfers(session, Waiting)
    BY DEF JInv, Coherent, Linked
  <2>2. CASE session.far = "no"
    BY <2>1, <2>2 DEF Transfers
  <2>3. CASE session.far # "no"
    <3>1. \/ Single(session.out, Moving, Moving) /\ Absent(Waiting, Acks)
          \/ Absent(session.out, Moving) /\ Single(Waiting, Acks, Acks)
      BY <2>1, <2>3 DEF Transfers
    <3> DEFINE in == {i \in 1 .. Len(Waiting) : Waiting[i] \in Acks}
               out == {i \in 1 .. Len(session.out) : session.out[i] \in Moving}
    <3>2. \/ Cardinality(out) = 1 /\ Cardinality(in) = 0
          \/ Cardinality(out) = 0 /\ Cardinality(in) = 1
      BY <1>1, <3>1
    <3>3. in = Incoming
      <4>1. Waiting \in Seq(Packet)
        BY ConcatProperties DEF JInv, IInv, TypeOK, Waiting
      <4>2. \A i \in 1 .. Len(Waiting) : Waiting[i] \in Packet
        BY <4>1, ElementOfSeq
      <4>3. QED
        BY <4>2 DEF Incoming, Acks, PacketsOf
    <3>4. out = Outgoing
      BY DEF Outgoing, Moving
    <3> HIDE DEF in, out
    <3>5. UnderWay = 1
      BY <3>2, <3>3, <3>4 DEF UnderWay
    <3>6. QED
      BY <2>3, <3>5
  <2>4. QED
    BY <2>2, <2>3
<1>3. QED
  BY <1>2, TalkInvariance, PTL
=============================================================================
