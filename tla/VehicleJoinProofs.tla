-------------------------- MODULE VehicleJoinProofs --------------------------
(***************************************************************************)
(* Proofs about EventProcessor.tla, for any number of queues and events,   *)
(* and about VehicleJoin.tla, which uses them, for any number of units,    *)
(* joins, vehicles and seats.                                              *)
(*                                                                         *)
(* The first part is about the queues alone, whoever calls them: an event  *)
(* is held once or deleted, a queue is in the order of its times,          *)
(* KillAllEvents reaches every event that was there when it began, and an  *)
(* aborted event is never called again.  Its inductive invariant IInv adds *)
(* to them where the two loops stand: the hand of Update holds a running   *)
(* or scheduled event of no queue, and the iterator of KillAllEvents       *)
(* stands inside of its queue.                                             *)
(*                                                                         *)
(* The second part: VehicleJoin implements these queues, what              *)
(* VehicleJoinEvent::Execute asserts holds, seats and riders agree, and    *)
(* the abort of a join unseats nobody.  Its invariant JInv is IInv with    *)
(* VInv: a join is on the pending list of its vehicle exactly while it is  *)
(* running, and while it is, its passenger keeps the aura on that vehicle. *)
(* Each step is proved to keep VInv and to be a step of the queues; the    *)
(* queues' own invariant follows from the latter.  SInv adds the seats: a  *)
(* running join has a free seat, and is the last one in the queue of its   *)
(* passenger.                                                              *)
(***************************************************************************)
EXTENDS VehicleJoin, SequenceTheorems, FiniteSetTheorems, WellFoundedInduction, TLAPS

(* What InsertAt and RemoveAt of SequencesExt do to the entries. *)

LEMMA InsertAtEntries ==
  ASSUME NEW T, NEW s \in Seq(T), NEW i \in 1 .. Len(s) + 1, NEW e \in T
  PROVE  /\ InsertAt(s, i, e) \in Seq(T)
         /\ Len(InsertAt(s, i, e)) = Len(s) + 1
         /\ \A j \in 1 .. i - 1 : InsertAt(s, i, e)[j] = s[j]
         /\ InsertAt(s, i, e)[i] = e
         /\ \A j \in i + 1 .. Len(s) + 1 : InsertAt(s, i, e)[j] = s[j - 1]
<1> DEFINE a == SubSeq(s, 1, i - 1)
           b == SubSeq(s, i, Len(s))
           c == a \o <<e>>
<1>1. a \in Seq(T) /\ Len(a) = i - 1 /\ \A j \in 1 .. i - 1 : a[j] = s[j]
  OBVIOUS
<1>2. b \in Seq(T) /\ Len(b) = Len(s) - i + 1 /\ \A j \in 1 .. Len(s) - i + 1 : b[j] = s[j + i - 1]
  OBVIOUS
<1> HIDE DEF a, b
<1>3. c \in Seq(T) /\ Len(c) = i /\ c[i] = e /\ \A j \in 1 .. i - 1 : c[j] = a[j]
  BY <1>1
<1> HIDE DEF c
<1>4. /\ c \o b \in Seq(T) /\ Len(c \o b) = Len(s) + 1
      /\ \A j \in 1 .. i : (c \o b)[j] = c[j]
      /\ \A j \in i + 1 .. Len(s) + 1 : (c \o b)[j] = b[j - i]
  BY <1>2, <1>3
<1>5. \A j \in i + 1 .. Len(s) + 1 : (c \o b)[j] = s[j - 1]
  BY <1>2, <1>4
<1>6. InsertAt(s, i, e) = c \o b
  BY DEF InsertAt, a, b, c
<1>7. QED
  BY <1>1, <1>3, <1>4, <1>5, <1>6

LEMMA RemoveAtEntries ==
  ASSUME NEW T, NEW s \in Seq(T), NEW i \in 1 .. Len(s)
  PROVE  /\ RemoveAt(s, i) \in Seq(T)
         /\ Len(RemoveAt(s, i)) = Len(s) - 1
         /\ \A j \in 1 .. i - 1 : RemoveAt(s, i)[j] = s[j]
         /\ \A j \in i .. Len(s) - 1 : RemoveAt(s, i)[j] = s[j + 1]
<1> DEFINE a == SubSeq(s, 1, i - 1)
           b == SubSeq(s, i + 1, Len(s))
<1>1. a \in Seq(T) /\ Len(a) = i - 1 /\ \A j \in 1 .. i - 1 : a[j] = s[j]
  OBVIOUS
<1>2. b \in Seq(T) /\ Len(b) = Len(s) - i /\ \A j \in 1 .. Len(s) - i : b[j] = s[j + i]
  OBVIOUS
<1> HIDE DEF a, b
<1>3. /\ a \o b \in Seq(T) /\ Len(a \o b) = Len(a) + Len(b)
      /\ \A j \in 1 .. Len(a) + Len(b) : (a \o b)[j] = IF j <= Len(a) THEN a[j] ELSE b[j - Len(a)]
  BY <1>1, <1>2, ConcatProperties
<1>4. ASSUME NEW j \in i .. Len(s) - 1 PROVE (a \o b)[j] = s[j + 1]
  <2>1. (a \o b)[j] = b[j - (i - 1)]
    BY <1>1, <1>2, <1>3
  <2>2. j - (i - 1) \in 1 .. Len(s) - i /\ (j - (i - 1)) + i = j + 1
    OBVIOUS
  <2>3. QED
    BY <1>2, <2>1, <2>2
<1>5. RemoveAt(s, i) = a \o b
  BY DEF RemoveAt, a, b
<1>6. Len(a \o b) = Len(s) - 1 /\ a \o b \in Seq(T)
  BY <1>1, <1>2, <1>3
<1>7. \A j \in 1 .. i - 1 : (a \o b)[j] = s[j]
  BY <1>1, <1>2, <1>3
<1>8. QED
  BY <1>4, <1>5, <1>6, <1>7

-----------------------------------------------------------------------------
(* One queue: its entries are distinct and in the order of a time d. *)

Distinct(s) == \A i, j \in 1 .. Len(s) : s[i] = s[j] => i = j
Ordered(s, d) == \A i, j \in 1 .. Len(s) : i < j => d[s[i]] <= d[s[j]]

LEMMA Members ==
  ASSUME NEW T, NEW s \in Seq(T)
  PROVE  /\ \A x : x \in ToSet(s) <=> \E i \in 1 .. Len(s) : s[i] = x
         /\ ToSet(s) \subseteq T
BY DEF ToSet

(* Inserting an event that is not there, where multimap::insert does. *)
Later(e, t) == [due EXCEPT ![e] = t]

CanInsert(s, e, t, i) ==
  /\ s \in Seq(Event) /\ e \in Event /\ t \in Offset /\ i \in 1 .. Len(s) + 1
  /\ Distinct(s) /\ Ordered(s, due) /\ e \notin ToSet(s) /\ PlaceOf(s, t, i)

LEMMA InsertQueue ==
  ASSUME due \in [Event -> Offset], MaxOffset \in Nat,
         NEW s, NEW e, NEW t, NEW i, CanInsert(s, e, t, i)
  PROVE  /\ InsertAt(s, i, e) \in Seq(Event)
         /\ Len(InsertAt(s, i, e)) = Len(s) + 1
         /\ InsertAt(s, i, e)[i] = e
         /\ \A j \in 1 .. i - 1 : InsertAt(s, i, e)[j] = s[j]
         /\ \A j \in i + 1 .. Len(s) + 1 : InsertAt(s, i, e)[j] = s[j - 1]
         /\ Distinct(InsertAt(s, i, e))
         /\ Ordered(InsertAt(s, i, e), Later(e, t))
         /\ ToSet(InsertAt(s, i, e)) = ToSet(s) \cup {e}
<1> DEFINE q == InsertAt(s, i, e)
           d == Later(e, t)
<1>h. /\ s \in Seq(Event) /\ e \in Event /\ t \in Offset /\ i \in 1 .. Len(s) + 1
      /\ Distinct(s) /\ Ordered(s, due) /\ e \notin ToSet(s) /\ PlaceOf(s, t, i)
  BY DEF CanInsert
<1> USE <1>h
<1>0. q \in Seq(Event)
  BY InsertAtEntries
<1>1. /\ q \in Seq(Event) /\ Len(q) = Len(s) + 1 /\ q[i] = e
      /\ \A j \in 1 .. i - 1 : q[j] = s[j]
      /\ \A j \in i + 1 .. Len(s) + 1 : q[j] = s[j - 1]
  BY InsertAtEntries
<1> HIDE DEF q
<1>2. \A j \in 1 .. Len(s) : s[j] # e /\ s[j] \in Event
  BY Members
<1>3. ASSUME NEW j \in 1 .. Len(q), NEW k \in 1 .. Len(q), j < k PROVE q[j] # q[k]
  <2>1. CASE k < i
    <3>1. q[j] = s[j] /\ q[k] = s[k] /\ j \in 1 .. Len(s) /\ k \in 1 .. Len(s) /\ j # k
      BY <1>1, <1>3, <2>1
    <3>2. QED
      BY <3>1 DEF Distinct
  <2>2. CASE k = i
    <3>1. q[k] = e /\ q[j] = s[j] /\ j \in 1 .. Len(s)
      BY <1>1, <1>3, <2>2
    <3>2. QED
      BY <1>2, <3>1
  <2>3. CASE k > i /\ j = i
    <3>1. q[j] = e /\ q[k] = s[k - 1] /\ k - 1 \in 1 .. Len(s)
      BY <1>1, <2>3
    <3>2. QED
      BY <1>2, <3>1
  <2>4. CASE k > i /\ j > i
    <3>1. q[j] = s[j - 1] /\ q[k] = s[k - 1] /\ j - 1 \in 1 .. Len(s) /\ k - 1 \in 1 .. Len(s) /\ j - 1 # k - 1
      BY <1>1, <1>3, <2>4
    <3>2. QED
      BY <3>1 DEF Distinct
  <2>5. CASE k > i /\ j < i
    <3>1. q[j] = s[j] /\ q[k] = s[k - 1] /\ j \in 1 .. Len(s) /\ k - 1 \in 1 .. Len(s) /\ j <= k - 1
      BY <1>1, <2>5
    <3>2. CASE j < k - 1
      BY <3>1, <3>2 DEF Distinct
    <3>3. CASE j = k - 1
      BY <2>5, <3>3
    <3>4. QED
      BY <3>1, <3>2, <3>3
  <2>6. QED
    BY <2>1, <2>2, <2>3, <2>4, <2>5
<1>4. d[e] = t /\ \A j \in 1 .. Len(s) : d[s[j]] = due[s[j]] /\ due[s[j]] \in Int
  BY <1>2 DEF Offset, Later
<1> HIDE DEF d
<1>5. t \in Int
  BY DEF Offset
<1>6. ASSUME NEW j \in 1 .. Len(q), NEW k \in 1 .. Len(q), j < k PROVE d[q[j]] <= d[q[k]]
  <2>1. CASE k < i
    <3>1. q[j] = s[j] /\ q[k] = s[k] /\ j \in 1 .. Len(s) /\ k \in 1 .. Len(s)
      BY <1>1, <1>6, <2>1
    <3>2. due[s[j]] <= due[s[k]]
      BY <3>1, <1>6 DEF Ordered
    <3>3. QED
      BY <1>4, <3>1, <3>2
  <2>2. CASE k = i
    <3>1. q[k] = e /\ q[j] = s[j] /\ j \in 1 .. i - 1 /\ j \in 1 .. Len(s)
      BY <1>1, <1>6, <2>2
    <3>2. due[s[j]] <= t
      BY <3>1 DEF PlaceOf
    <3>3. QED
      BY <1>4, <3>1, <3>2
  <2>3. CASE k > i /\ j = i
    <3>1. q[j] = e /\ q[k] = s[k - 1] /\ k - 1 \in i .. Len(s) /\ k - 1 \in 1 .. Len(s)
      BY <1>1, <2>3
    <3>2. due[s[k - 1]] > t
      BY <3>1 DEF PlaceOf
    <3>3. QED
      BY <1>4, <1>5, <3>1, <3>2
  <2>4. CASE k > i /\ j > i
    <3>1. q[j] = s[j - 1] /\ q[k] = s[k - 1] /\ j - 1 \in 1 .. Len(s) /\ k - 1 \in 1 .. Len(s) /\ j - 1 < k - 1
      BY <1>1, <1>6, <2>4
    <3>2. QED
      BY <1>4, <3>1 DEF Ordered
  <2>5. CASE k > i /\ j < i
    <3>1. q[j] = s[j] /\ q[k] = s[k - 1] /\ j \in 1 .. Len(s) /\ k - 1 \in 1 .. Len(s) /\ j <= k - 1
      BY <1>1, <2>5
    <3>2. j = k - 1 \/ j < k - 1
      BY <3>1
    <3>3. QED
      BY <1>4, <3>1, <3>2 DEF Ordered
  <2>6. QED
    BY <2>1, <2>2, <2>3, <2>4, <2>5
<1>7. ToSet(q) \subseteq ToSet(s) \cup {e}
  <2>1. ASSUME NEW j \in 1 .. Len(q) PROVE q[j] \in ToSet(s) \cup {e}
    <3>1. CASE j < i
      BY <1>1, <3>1, Members
    <3>2. CASE j > i
      <4>1. j - 1 \in 1 .. Len(s) /\ q[j] = s[j - 1]
        BY <1>1, <3>2
      <4>2. QED
        BY <4>1, Members
    <3>3. QED
      BY <1>1, <3>1, <3>2
  <2>2. QED
    BY <1>1, <2>1, Members
<1>8. ToSet(s) \cup {e} \subseteq ToSet(q)
  <2>1. ASSUME NEW j \in 1 .. Len(s) PROVE s[j] \in ToSet(q)
    <3>1. CASE j < i
      <4>1. j \in 1 .. i - 1 /\ j \in 1 .. Len(s) + 1
        BY <1>0, <3>1
      <4>2. j \in 1 .. Len(q) /\ q[j] = s[j]
        BY <1>1, <4>1
      <4>3. QED
        BY <1>0, <4>2, Members
    <3>2. CASE j >= i
      <4>1. j + 1 \in i + 1 .. Len(s) + 1 /\ (j + 1) - 1 = j
        BY <3>2
      <4>2. q[j + 1] = s[j] /\ j + 1 \in 1 .. Len(q)
        BY <1>1, <4>1
      <4>3. QED
        BY <1>0, <4>2, Members
    <3>3. QED
      BY <3>1, <3>2
  <2>2. e \in ToSet(q)
    BY <1>1, Members
  <2>3. QED
    BY <2>1, <2>2, Members
<1>9. Distinct(q)
  BY <1>1, <1>3 DEF Distinct
<1>10. QED
  BY <1>1, <1>6, <1>7, <1>8, <1>9 DEF Ordered, q, d

(* Taking an entry out. *)
LEMMA RemoveQueue ==
  ASSUME NEW s \in Seq(Event), NEW i \in 1 .. Len(s), Distinct(s), Ordered(s, due)
  PROVE  LET q == RemoveAt(s, i)
         IN  Distinct(q) /\ Ordered(q, due) /\ ToSet(q) = ToSet(s) \ {s[i]}
<1> DEFINE q == RemoveAt(s, i)
<1>1. /\ q \in Seq(Event) /\ Len(q) = Len(s) - 1
      /\ \A j \in 1 .. i - 1 : q[j] = s[j]
      /\ \A j \in i .. Len(s) - 1 : q[j] = s[j + 1]
  BY RemoveAtEntries
<1> HIDE DEF q
<1> DEFINE at(j) == IF j < i THEN j ELSE j + 1
<1>2. /\ \A j \in 1 .. Len(q) : at(j) \in 1 .. Len(s) /\ at(j) # i /\ q[j] = s[at(j)]
      /\ \A j, k \in 1 .. Len(q) : (j < k => at(j) < at(k)) /\ (at(j) = at(k) => j = k)
      /\ \A k \in 1 .. Len(s) : k # i => \E j \in 1 .. Len(q) : at(j) = k
  <2>1. ASSUME NEW j \in 1 .. Len(q)
        PROVE  at(j) \in 1 .. Len(s) /\ at(j) # i /\ q[j] = s[at(j)]
    <3>1. CASE j < i
      BY <1>1, <3>1
    <3>2. CASE ~(j < i)
      <4>1. j \in i .. Len(s) - 1 /\ at(j) = j + 1 /\ j + 1 \in 1 .. Len(s) /\ j + 1 # i
        BY <1>1, <3>2
      <4>2. q[j] = s[j + 1]
        BY <1>1, <4>1
      <4>3. QED
        BY <4>1, <4>2
    <3>3. QED
      BY <3>1, <3>2
  <2>2. \A j, k \in 1 .. Len(q) : (j < k => at(j) < at(k)) /\ (at(j) = at(k) => j = k)
    BY <1>1
  <2>3. ASSUME NEW k \in 1 .. Len(s), k # i PROVE \E j \in 1 .. Len(q) : at(j) = k
    <3>1. CASE k < i
      <4>1. k \in 1 .. Len(q) /\ at(k) = k
        BY <1>1, <3>1
      <4>2. QED
        BY <4>1
    <3>2. CASE k > i
      <4>1. k - 1 \in 1 .. Len(q) /\ ~(k - 1 < i) /\ (k - 1) + 1 = k
        BY <1>1, <3>2
      <4>2. at(k - 1) = k
        BY <4>1
      <4>3. QED
        BY <4>1, <4>2
    <3>3. QED
      BY <2>3, <3>1, <3>2
  <2>4. QED
    BY <2>1, <2>2, <2>3
<1> HIDE DEF at
<1>3. Distinct(q)
  BY <1>2 DEF Distinct
<1>4. Ordered(q, due)
  BY <1>2 DEF Ordered
<1>5. ToSet(q) = ToSet(s) \ {s[i]}
  <2>1. ToSet(q) \subseteq ToSet(s) \ {s[i]}
    <3>1. ASSUME NEW j \in 1 .. Len(q) PROVE q[j] \in ToSet(s) /\ q[j] # s[i]
      BY <1>2, Members DEF Distinct
    <3>2. QED
      BY <1>1, <3>1, Members
  <2>2. ASSUME NEW k \in 1 .. Len(s), s[k] # s[i] PROVE s[k] \in ToSet(q)
    <3>1. PICK j \in 1 .. Len(q) : at(j) = k
      BY <1>2, <2>2
    <3>2. q[j] = s[k]
      BY <1>2, <3>1
    <3>3. QED
      BY <1>1, <3>2, Members
  <2>3. QED
    BY <2>1, <2>2, Members
<1>6. QED
  BY <1>3, <1>4, <1>5 DEF q

(* Taking the first entry out. *)
LEMMA TailQueue ==
  ASSUME NEW s \in Seq(Event), s # <<>>, Distinct(s), Ordered(s, due)
  PROVE  /\ Tail(s) \in Seq(Event) /\ Head(s) \in Event /\ Head(s) \in ToSet(s)
         /\ Distinct(Tail(s)) /\ Ordered(Tail(s), due) /\ ToSet(Tail(s)) = ToSet(s) \ {Head(s)}
<1>1. /\ Tail(s) \in Seq(Event) /\ Len(Tail(s)) = Len(s) - 1 /\ Len(s) >= 1 /\ Head(s) = s[1]
      /\ \A j \in 1 .. Len(s) - 1 : Tail(s)[j] = s[j + 1]
  OBVIOUS
<1>2. Distinct(Tail(s)) /\ Ordered(Tail(s), due)
  BY <1>1 DEF Distinct, Ordered
<1>3. ToSet(Tail(s)) \subseteq ToSet(s) \ {Head(s)}
  <2>1. ASSUME NEW j \in 1 .. Len(Tail(s)) PROVE Tail(s)[j] \in ToSet(s) /\ Tail(s)[j] # Head(s)
    BY <1>1, Members DEF Distinct
  <2>2. ASSUME NEW x \in ToSet(Tail(s)) PROVE x \in ToSet(s) \ {Head(s)}
    <3>1. PICK j \in 1 .. Len(Tail(s)) : Tail(s)[j] = x
      BY DEF ToSet
    <3>2. QED
      BY <2>1, <3>1
  <2>3. QED
    BY <2>2
<1>4. ASSUME NEW k \in 1 .. Len(s), s[k] # Head(s) PROVE s[k] \in ToSet(Tail(s))
  <2>1. k - 1 \in 1 .. Len(s) - 1 /\ (k - 1) + 1 = k
    BY <1>1, <1>4
  <2>2. Tail(s)[k - 1] = s[k]
    BY <1>1, <2>1
  <2>3. k - 1 \in 1 .. Len(Tail(s))
    BY <1>1, <2>1
  <2>4. QED
    BY <1>1, <2>2, <2>3, Members
<1>5. ToSet(s) \ {Head(s)} \subseteq ToSet(Tail(s))
  BY <1>4, Members
<1>6. Head(s) \in ToSet(s)
  BY <1>1, Members
<1>7. QED
  BY <1>1, <1>2, <1>3, <1>5, <1>6
-----------------------------------------------------------------------------
(* The invariant: what is held where, and where the two loops stand. *)

QueueInv == \A o \in Owner : Distinct(events[o]) /\ Ordered(events[o], due)

ApartInv ==
  /\ \A o, q \in Owner : o # q => Held(o) \cap Held(q) = {}
  /\ \A o \in Owner : hand.event \notin Held(o)

AllocInv ==
  \A e \in Event : abortState[e] # "none" <=> (e = hand.event \/ \E o \in Owner : e \in Held(o))

LoopInv ==
  /\ hand.event = NoEvent => hand = NoHand
  /\ hand.event # NoEvent => updating # NoOwner /\ hand.call # "none"
  /\ kill.owner = NoOwner => kill = NoKill
  /\ kill.owner # NoOwner => /\ kill.passed <= Len(events[kill.owner])
                             /\ updating = NoOwner \/ hand.event # NoEvent

HandInv == hand.event # NoEvent => abortState[hand.event] \in {"running", "scheduled"}

IInv ==
  EventTypeOK /\ QueueInv /\ ApartInv /\ AllocInv /\ LoopInv /\ HandInv /\ KillReachesEveryEvent

AbortStates == {"none", "running", "scheduled", "aborted"}
KillRecord == [owner : Owner \cup {NoOwner}, force : BOOLEAN, passed : Nat,
               event : Event \cup {NoEvent}, fresh : SUBSET Event]

LEMMA HeldTyped ==
  ASSUME EventTypeOK, NEW o \in Owner
  PROVE  /\ Held(o) \subseteq Event /\ events[o] \in Seq(Event) /\ Len(events[o]) \in Nat
         /\ \A i \in 1 .. Len(events[o]) : events[o][i] \in Held(o)
         /\ \A e \in Held(o) : \E i \in 1 .. Len(events[o]) : events[o][i] = e
<1>1. events[o] \in Seq(Event)
  BY DEF EventTypeOK
<1>2. QED
  BY <1>1, Members DEF Held

(* What an insertion does to the queues and to a KillAllEvents on its way. *)
LEMMA InsertInv ==
  ASSUME EventTypeOK, QueueInv, KillReachesEveryEvent,
         NEW o \in Owner, NEW s \in Seq(Event), NEW e \in Event, NEW t \in Offset,
         Distinct(s), Ordered(s, due), e \notin ToSet(s),
         \A q \in Owner \ {o} : e \notin Held(q),
         kill.owner = o => s = events[o],
         kill.owner \in Owner => kill.passed <= Len(events[kill.owner]),
         Insert(o, s, e, t)
  PROVE  /\ events' \in [Owner -> Seq(Event)] /\ due' \in [Event -> Offset]
         /\ kill' \in KillRecord
         /\ QueueInv'
         /\ \A q \in Owner : Held(q)' = IF q = o THEN ToSet(s) \cup {e} ELSE Held(q)
         /\ \A q \in Owner \ {o} : events'[q] = events[q]
         /\ kill.owner # o => kill' = kill
         /\ kill'.owner = kill.owner
         /\ kill.owner = o => kill'.passed <= Len(events'[o])
         /\ (\A x \in Event \ {e} : abortState[x] = "aborted" => abortState'[x] = "aborted")
               => KillReachesEveryEvent'
<1>1. PICK i \in 1 .. Len(s) + 1 :
        /\ PlaceOf(s, t, i)
        /\ events' = [events EXCEPT ![o] = InsertAt(s, i, e)]
        /\ due' = [due EXCEPT ![e] = t]
        /\ kill' = IF kill.owner # o THEN kill
                   ELSE [kill EXCEPT !.passed = IF i <= @ + 1 THEN @ + 1 ELSE @,
                                     !.fresh = @ \cup {e}]
  BY DEF Insert
<1> DEFINE n == InsertAt(s, i, e)
<1>2. due \in [Event -> Offset] /\ MaxOffset \in Nat
  BY EventAssumption DEF EventTypeOK
<1>3. /\ n \in Seq(Event) /\ Len(n) = Len(s) + 1 /\ n[i] = e
      /\ \A j \in 1 .. i - 1 : n[j] = s[j]
      /\ \A j \in i + 1 .. Len(s) + 1 : n[j] = s[j - 1]
      /\ Distinct(n) /\ Ordered(n, Later(e, t)) /\ ToSet(n) = ToSet(s) \cup {e}
  <2>1. CanInsert(s, e, t, i)
    BY <1>1 DEF CanInsert
  <2>2. /\ InsertAt(s, i, e) \in Seq(Event)
        /\ Len(InsertAt(s, i, e)) = Len(s) + 1
        /\ InsertAt(s, i, e)[i] = e
        /\ \A j \in 1 .. i - 1 : InsertAt(s, i, e)[j] = s[j]
        /\ \A j \in i + 1 .. Len(s) + 1 : InsertAt(s, i, e)[j] = s[j - 1]
        /\ Distinct(InsertAt(s, i, e))
        /\ Ordered(InsertAt(s, i, e), Later(e, t))
        /\ ToSet(InsertAt(s, i, e)) = ToSet(s) \cup {e}
    <3> HIDE DEF n
    <3>1. QED
      BY <1>2, <2>1, InsertQueue
  <2>3. QED
    BY <2>2
<1>4. Distinct(n) /\ Ordered(n, due') /\ ToSet(n) = ToSet(s) \cup {e}
  BY <1>1, <1>3 DEF Later
<1> HIDE DEF n
<1>5. events' = [events EXCEPT ![o] = n] /\ events \in [Owner -> Seq(Event)]
  BY <1>1 DEF n, EventTypeOK
<1>6. events' \in [Owner -> Seq(Event)] /\ events'[o] = n /\ \A q \in Owner \ {o} : events'[q] = events[q]
  BY <1>3, <1>5
<1>7. due' \in [Event -> Offset] /\ \A x \in Event \ {e} : due'[x] = due[x]
  BY <1>1, <1>2
<1>8. kill \in KillRecord
  BY DEF EventTypeOK, KillRecord
<1> USE DEF KillRecord
<1>9. kill' \in KillRecord
  <2>1. CASE kill.owner # o
    BY <1>1, <1>8, <2>1
  <2>2. CASE kill.owner = o
    <3> DEFINE p == IF i <= kill.passed + 1 THEN kill.passed + 1 ELSE kill.passed
    <3>1. p \in Nat /\ kill.fresh \cup {e} \in SUBSET Event
      BY <1>8
    <3>2. kill' = [kill EXCEPT !.passed = p, !.fresh = kill.fresh \cup {e}]
      BY <1>1, <2>2
    <3> HIDE DEF p
    <3>3. QED
      BY <1>8, <3>1, <3>2
  <2>3. QED
    BY <2>1, <2>2
<1>10. \A q \in Owner : Held(q)' = IF q = o THEN ToSet(s) \cup {e} ELSE Held(q)
  BY <1>4, <1>6 DEF Held
<1>11. QueueInv'
  <2>1. ASSUME NEW q \in Owner, q # o PROVE Distinct(events'[q]) /\ Ordered(events'[q], due')
    <3>1. Distinct(events[q]) /\ Ordered(events[q], due) /\ events'[q] = events[q]
      BY <1>6, <2>1 DEF QueueInv
    <3>2. \A j \in 1 .. Len(events[q]) : events[q][j] \in Event /\ events[q][j] # e
      BY <2>1, HeldTyped
    <3>3. \A j \in 1 .. Len(events[q]) : due'[events[q][j]] = due[events[q][j]]
      BY <1>7, <3>2
    <3>4. QED
      BY <3>1, <3>3 DEF Ordered
  <2>2. QED
    BY <1>4, <1>6, <2>1 DEF QueueInv
<1>12. kill.owner # o => kill' = kill
  BY <1>1
<1>13. kill'.owner = kill.owner
  BY <1>1, <1>8
<1>14. kill.owner = o => kill'.passed <= Len(events'[o])
  <2> SUFFICES ASSUME kill.owner = o PROVE kill'.passed <= Len(n)
    BY <1>6
  <2>1. s = events[o] /\ kill.passed <= Len(s) /\ kill.passed \in Nat
    BY <1>8
  <2>2. kill'.passed = IF i <= kill.passed + 1 THEN kill.passed + 1 ELSE kill.passed
    BY <1>1, <1>8
  <2>3. QED
    BY <1>3, <2>1, <2>2
<1>15. ASSUME \A x \in Event \ {e} : abortState[x] = "aborted" => abortState'[x] = "aborted"
       PROVE  KillReachesEveryEvent'
  <2>1. ASSUME NEW q \in Owner, kill.owner = q, NEW j \in 1 .. kill'.passed
        PROVE  abortState'[events'[q][j]] = "aborted" \/ events'[q][j] \in kill'.fresh
    <3>1. CASE q # o
      <4>1. kill' = kill /\ events'[q] = events[q] /\ kill.passed \in Nat
        BY <1>1, <1>6, <1>8, <2>1, <3>1
      <4>2. abortState[events[q][j]] = "aborted" \/ events[q][j] \in kill.fresh
        BY <2>1, <4>1 DEF KillReachesEveryEvent
      <4>3. events[q] \in Seq(Event) /\ (j \in 1 .. Len(events[q]) => events[q][j] \in Held(q))
        BY HeldTyped
      <4>4. j \in 1 .. Len(events[q])
        BY <2>1, <4>1, HeldTyped
      <4>5. events[q][j] \in Event \ {e}
        BY <3>1, <4>3, <4>4, HeldTyped
      <4>6. QED
        BY <1>15, <4>1, <4>2, <4>5
    <3>2. CASE q = o
      <4>1. s = events[o] /\ kill.passed <= Len(s) /\ kill.passed \in Nat
        BY <1>8, <2>1, <3>2
      <4>2. /\ kill'.passed = IF i <= kill.passed + 1 THEN kill.passed + 1 ELSE kill.passed
            /\ kill'.fresh = kill.fresh \cup {e}
        BY <1>1, <1>8, <2>1, <3>2
      <4>3. \A k \in 1 .. kill.passed : s[k] \in Event \ {e}
                                      /\ (abortState[s[k]] = "aborted" \/ s[k] \in kill.fresh)
        <5>1. \A k \in 1 .. kill.passed : s[k] \in ToSet(s) /\ s[k] \in Event
          BY <4>1, Members
        <5>2. QED
          BY <2>1, <3>2, <4>1, <5>1 DEF KillReachesEveryEvent
      <4>4. n[j] = e \/ \E k \in 1 .. kill.passed : n[j] = s[k]
        <5>1. CASE j < i
          <6>1. j \in 1 .. kill.passed /\ n[j] = s[j]
            BY <1>3, <4>1, <4>2, <5>1
          <6>2. QED
            BY <6>1
        <5>2. CASE j > i
          <6>1. j - 1 \in 1 .. kill.passed /\ n[j] = s[j - 1]
            BY <1>3, <4>1, <4>2, <5>2
          <6>2. QED
            BY <6>1
        <5>3. QED
          BY <1>3, <5>1, <5>2
      <4>5. QED
        BY <1>6, <1>15, <3>2, <4>2, <4>3, <4>4
    <3>3. QED
      BY <3>1, <3>2
  <2>2. QED
    BY <1>13, <2>1 DEF KillReachesEveryEvent
<1>16. QED
  BY <1>6, <1>7, <1>9, <1>10, <1>11, <1>12, <1>13, <1>14, <1>15

-----------------------------------------------------------------------------
(* The steps that leave every queue as it is. *)

LEMMA ScheduledStates ==
  ASSUME EventTypeOK, NEW S \in SUBSET Running
  PROVE  /\ Scheduled(S) \in [Event -> AbortStates]
         /\ \A e \in Event : Scheduled(S)[e] = "none" <=> abortState[e] = "none"
         /\ \A e \in Event : abortState[e] = "aborted" => Scheduled(S)[e] = "aborted"
         /\ \A e \in Event : abortState[e] \in {"running", "scheduled"} =>
                               Scheduled(S)[e] \in {"running", "scheduled"}
BY DEF EventTypeOK, Scheduled, Running, AbortStates

LEMMA SameQueues ==
  ASSUME IInv, UNCHANGED <<events, due, hand>>, abortState' \in [Event -> AbortStates],
         \A e \in Event : abortState'[e] = "none" <=> abortState[e] = "none"
  PROVE  QueueInv' /\ ApartInv' /\ AllocInv'
<1>1. \A o \in Owner : Held(o)' = Held(o) /\ events'[o] = events[o]
  BY DEF Held
<1>2. QueueInv'
  BY <1>1 DEF IInv, QueueInv, Ordered
<1>3. ApartInv'
  BY <1>1 DEF IInv, ApartInv
<1>4. AllocInv'
  BY <1>1 DEF IInv, AllocInv
<1>5. QED
  BY <1>2, <1>3, <1>4

LEMMA ScheduleInv ==
  ASSUME IInv, NEW S \in SUBSET Running, Schedule(S)
  PROVE  IInv'
<1>1. /\ abortState' = Scheduled(S)
      /\ UNCHANGED <<events, due, busy, updating, hand, kill>>
  BY DEF Schedule, ScheduleAborts
<1>2. /\ abortState' \in [Event -> AbortStates]
      /\ \A e \in Event : abortState'[e] = "none" <=> abortState[e] = "none"
      /\ \A e \in Event : abortState[e] = "aborted" => abortState'[e] = "aborted"
      /\ \A e \in Event : abortState[e] \in {"running", "scheduled"} =>
                            abortState'[e] \in {"running", "scheduled"}
  BY <1>1, ScheduledStates DEF IInv
<1>3. QueueInv' /\ ApartInv' /\ AllocInv'
  BY <1>1, <1>2, SameQueues
<1>4. EventTypeOK' /\ LoopInv'
  BY <1>1, <1>2 DEF IInv, EventTypeOK, LoopInv, AbortStates
<1>5. HandInv'
  BY <1>1, <1>2 DEF IInv, HandInv, EventTypeOK
<1>6. KillReachesEveryEvent'
  <2>1. ASSUME NEW o \in Owner, kill.owner = o, NEW i \in 1 .. kill.passed
        PROVE  abortState'[events[o][i]] = "aborted" \/ events[o][i] \in kill.fresh
    <3>1. /\ Len(events[o]) \in Nat /\ kill.passed \in Nat /\ kill.passed <= Len(events[o])
          /\ \A j \in 1 .. Len(events[o]) : events[o][j] \in Event
      BY <2>1, HeldTyped, EventAssumption DEF IInv, LoopInv, EventTypeOK
    <3>2. events[o][i] \in Event
      BY <3>1
    <3>3. QED
      BY <1>2, <2>1, <3>2 DEF IInv, KillReachesEveryEvent
  <2>2. QED
    BY <1>1, <2>1 DEF KillReachesEveryEvent
<1>7. QED
  BY <1>3, <1>4, <1>5, <1>6 DEF IInv

LEMMA BusyInv ==
  ASSUME IInv, NEW e \in Event, SetBusy(e) \/ ClearBusy(e)
  PROVE  IInv'
<1>1. /\ UNCHANGED <<events, due, abortState, updating, hand, kill>>
      /\ busy' \subseteq Deferrable
  BY DEF SetBusy, ClearBusy, IInv, EventTypeOK
<1>2. QueueInv' /\ ApartInv' /\ AllocInv'
  BY <1>1, SameQueues DEF IInv, EventTypeOK, AbortStates
<1>3. EventTypeOK' /\ LoopInv' /\ HandInv' /\ KillReachesEveryEvent'
  BY <1>1 DEF IInv, EventTypeOK, LoopInv, HandInv, KillReachesEveryEvent
<1>4. QED
  BY <1>2, <1>3 DEF IInv

LEMMA EndUpdateInv ==
  ASSUME IInv, NEW o \in Owner, EndUpdate(o)
  PROVE  IInv'
<1>1. /\ UNCHANGED <<events, due, abortState, busy, hand, kill>>
      /\ updating' = NoOwner /\ hand = NoHand /\ kill = NoKill
  BY DEF EndUpdate, Updating
<1>2. QueueInv' /\ ApartInv' /\ AllocInv'
  BY <1>1, SameQueues DEF IInv, EventTypeOK, AbortStates
<1>3. EventTypeOK' /\ LoopInv' /\ HandInv' /\ KillReachesEveryEvent'
  BY <1>1 DEF IInv, EventTypeOK, LoopInv, HandInv, KillReachesEveryEvent, NoHand
<1>4. QED
  BY <1>2, <1>3 DEF IInv

LEMMA BeginKillInv ==
  ASSUME IInv, NEW o \in Owner, NEW force \in BOOLEAN, NEW S \in SUBSET Running, BeginKill(o, force, S)
  PROVE  IInv'
<1>1. /\ kill' = [NoKill EXCEPT !.owner = o, !.force = force]
      /\ abortState' = Scheduled(S)
      /\ busy' \subseteq busy
      /\ UNCHANGED <<events, due, updating, hand>>
      /\ kill = NoKill
      /\ updating = NoOwner \/ hand.event # NoEvent
  BY DEF BeginKill, StartKill
<1>2. /\ abortState' \in [Event -> AbortStates]
      /\ \A e \in Event : abortState'[e] = "none" <=> abortState[e] = "none"
      /\ \A e \in Event : abortState[e] \in {"running", "scheduled"} =>
                            abortState'[e] \in {"running", "scheduled"}
  BY <1>1, ScheduledStates DEF IInv
<1>3. QueueInv' /\ ApartInv' /\ AllocInv'
  BY <1>1, <1>2, SameQueues
<1>4. kill' \in KillRecord /\ kill'.owner = o /\ kill'.passed = 0
  BY <1>1 DEF NoKill, KillRecord
<1>5. EventTypeOK'
  BY <1>1, <1>2, <1>4 DEF IInv, EventTypeOK, AbortStates, KillRecord
<1>6. LoopInv' /\ HandInv'
  <2>1. Len(events[o]) \in Nat
    BY HeldTyped DEF IInv
  <2>2. o # NoOwner
    BY EventAssumption
  <2>3. QED
    BY <1>1, <1>2, <1>4, <2>1, <2>2 DEF IInv, LoopInv, HandInv, EventTypeOK
<1>7. KillReachesEveryEvent'
  BY <1>4 DEF KillReachesEveryEvent
<1>8. QED
  BY <1>3, <1>5, <1>6, <1>7 DEF IInv

LEMMA EndKillInv ==
  ASSUME IInv, NEW o \in Owner, EndKill(o)
  PROVE  IInv'
<1>1. UNCHANGED <<events, due, abortState, busy, updating, hand>> /\ kill' = NoKill
  BY DEF EndKill
<1>2. QueueInv' /\ ApartInv' /\ AllocInv'
  BY <1>1, SameQueues DEF IInv, EventTypeOK, AbortStates
<1>3. kill' \in KillRecord /\ kill'.owner = NoOwner
  BY <1>1 DEF NoKill, KillRecord
<1>4. EventTypeOK' /\ LoopInv' /\ HandInv'
  BY <1>1, <1>3 DEF IInv, EventTypeOK, LoopInv, HandInv, KillRecord
<1>5. KillReachesEveryEvent'
  BY <1>3, EventAssumption DEF KillReachesEveryEvent
<1>6. QED
  BY <1>2, <1>4, <1>5 DEF IInv

LEMMA CurrentTyped ==
  ASSUME IInv, NEW o \in Owner, Walking(o)
  PROVE  /\ kill.passed + 1 \in 1 .. Len(events[o])
         /\ Current(o) \in Event /\ Current(o) \in Held(o)
         /\ \A i \in 1 .. kill.passed : i \in 1 .. Len(events[o]) /\ events[o][i] \in Event
                                      /\ events[o][i] # Current(o)
<1>1. events[o] \in Seq(Event) /\ kill.passed \in Nat /\ kill.passed < Len(events[o])
  BY DEF Walking, IInv, EventTypeOK
<1>2. kill.passed + 1 \in 1 .. Len(events[o])
  BY <1>1
<1>3. Current(o) \in Event /\ Current(o) \in Held(o)
  BY <1>2, HeldTyped DEF Current, IInv
<1>4. ASSUME NEW i \in 1 .. kill.passed
      PROVE  i \in 1 .. Len(events[o]) /\ events[o][i] \in Event /\ events[o][i] # Current(o)
  <2>1. i \in 1 .. Len(events[o]) /\ i # kill.passed + 1
    BY <1>1, <1>4
  <2>2. QED
    BY <1>1, <1>2, <2>1 DEF IInv, QueueInv, Distinct, Current
<1>5. QED
  BY <1>2, <1>3, <1>4

LEMMA KillAbortInv ==
  ASSUME IInv, NEW o \in Owner, NEW S \in SUBSET Running, KillAbort(o, S)
  PROVE  IInv'
<1>1. /\ kill' = [kill EXCEPT !.event = Current(o)]
      /\ abortState' = [e \in Event |-> IF e = Current(o) /\ e \notin S THEN "aborted" ELSE Scheduled(S)[e]]
      /\ UNCHANGED <<events, due, busy, updating, hand>>
      /\ Walking(o)
  BY DEF KillAbort, CallAbort
<1>2. Current(o) \in Event /\ Current(o) \in Held(o)
  BY <1>1, CurrentTyped
<1>3. Current(o) # hand.event /\ abortState[Current(o)] # "none"
  BY <1>2 DEF IInv, ApartInv, AllocInv
<1>4. /\ Scheduled(S) \in [Event -> AbortStates]
      /\ \A e \in Event : Scheduled(S)[e] = "none" <=> abortState[e] = "none"
      /\ \A e \in Event : abortState[e] = "aborted" => Scheduled(S)[e] = "aborted"
      /\ \A e \in Event : abortState[e] \in {"running", "scheduled"} =>
                            Scheduled(S)[e] \in {"running", "scheduled"}
  BY ScheduledStates DEF IInv
<1>5. /\ abortState' \in [Event -> AbortStates]
      /\ \A e \in Event : abortState'[e] = "none" <=> abortState[e] = "none"
      /\ \A e \in Event : abortState[e] = "aborted" => abortState'[e] = "aborted"
  BY <1>1, <1>3, <1>4 DEF AbortStates
<1>6. QueueInv' /\ ApartInv' /\ AllocInv'
  BY <1>1, <1>5, SameQueues
<1>7. /\ kill' \in KillRecord /\ kill'.owner = kill.owner /\ kill'.passed = kill.passed
      /\ kill'.fresh = kill.fresh
  BY <1>1, <1>2 DEF IInv, EventTypeOK, KillRecord
<1>8. EventTypeOK'
  BY <1>1, <1>5, <1>7 DEF IInv, EventTypeOK, AbortStates, KillRecord
<1>9. LoopInv'
  BY <1>1, <1>7 DEF IInv, LoopInv, Walking
<1>10. HandInv'
  <2>1. hand.event # NoEvent => hand.event \in Event /\ abortState'[hand.event] = Scheduled(S)[hand.event]
    BY <1>1, <1>3 DEF IInv, EventTypeOK
  <2>2. QED
    BY <1>1, <1>4, <2>1 DEF IInv, HandInv
<1>11. KillReachesEveryEvent'
  <2>1. \A i \in 1 .. kill.passed : abortState'[events[o][i]] = "aborted" \/ events[o][i] \in kill.fresh
    BY <1>1, <1>5, CurrentTyped DEF IInv, KillReachesEveryEvent, Walking
  <2>2. QED
    BY <1>1, <1>7, <2>1 DEF KillReachesEveryEvent, Walking
<1>12. QED
  BY <1>6, <1>8, <1>9, <1>10, <1>11 DEF IInv

(* The time of a queue passes. *)
LEMMA BeginUpdateInv ==
  ASSUME IInv, NEW o \in Owner, NEW d \in Offset, BeginUpdate(o, d)
  PROVE  IInv'
<1>1. /\ updating = NoOwner /\ kill = NoKill /\ updating' = o
      /\ UNCHANGED <<events, abortState, busy, hand, kill>>
      /\ due' = [e \in Event |-> IF e \notin Held(o) THEN due[e]
                                 ELSE IF due[e] > d THEN due[e] - d ELSE 0]
  BY DEF BeginUpdate
<1>2. MaxOffset \in Nat /\ due \in [Event -> 0 .. MaxOffset] /\ d \in 0 .. MaxOffset
  BY EventAssumption DEF IInv, EventTypeOK, Offset
<1>3. due' \in [Event -> 0 .. MaxOffset]
  BY <1>1, <1>2
<1>4. \A q \in Owner : Held(q)' = Held(q) /\ events'[q] = events[q]
  BY <1>1 DEF Held
<1>5. ASSUME NEW q \in Owner PROVE Ordered(events[q], due')
  <2>1. ASSUME NEW i \in 1 .. Len(events[q]), NEW j \in 1 .. Len(events[q]), i < j
        PROVE  due'[events[q][i]] <= due'[events[q][j]]
    <3> DEFINE x == events[q][i]
               y == events[q][j]
    <3>1. x \in Event /\ y \in Event /\ x \in Held(q) /\ y \in Held(q)
      BY HeldTyped DEF IInv
    <3>2. due[x] <= due[y]
      BY <2>1 DEF IInv, QueueInv, Ordered
    <3>3. q # o => x \notin Held(o) /\ y \notin Held(o)
      BY <3>1 DEF IInv, ApartInv
    <3> HIDE DEF x, y
    <3>4. due'[x] <= due'[y]
      BY <1>1, <1>2, <3>1, <3>2, <3>3
    <3>5. QED
      BY <3>4 DEF x, y
  <2>2. QED
    BY <2>1 DEF Ordered
<1>6. QueueInv'
  BY <1>4, <1>5 DEF IInv, QueueInv
<1>7. ApartInv' /\ AllocInv'
  BY <1>1, <1>4 DEF IInv, ApartInv, AllocInv
<1>8. EventTypeOK'
  BY <1>1, <1>3 DEF IInv, EventTypeOK, Offset
<1>9. LoopInv' /\ HandInv' /\ KillReachesEveryEvent'
  <2>1. hand = NoHand
    BY <1>1 DEF IInv, LoopInv
  <2>2. QED
    BY <1>1, <2>1, EventAssumption DEF IInv, LoopInv, HandInv, KillReachesEveryEvent, NoHand, NoKill
<1>10. QED
  BY <1>6, <1>7, <1>8, <1>9 DEF IInv

-----------------------------------------------------------------------------
(* The steps that take events out. *)

(* The queue of o becomes s, without the event x. *)
LEMMA TakenOut ==
  ASSUME IInv, NEW o \in Owner, NEW s \in Seq(Event), NEW x,
         Distinct(s), Ordered(s, due), ToSet(s) = Held(o) \ {x},
         events' = [events EXCEPT ![o] = s], UNCHANGED due
  PROVE  /\ events' \in [Owner -> Seq(Event)] /\ events'[o] = s
         /\ QueueInv'
         /\ \A q \in Owner : Held(q)' = IF q = o THEN Held(o) \ {x} ELSE Held(q)
<1>1. events \in [Owner -> Seq(Event)]
  BY DEF IInv, EventTypeOK
<1>2. /\ events' \in [Owner -> Seq(Event)] /\ events'[o] = s
      /\ \A q \in Owner \ {o} : events'[q] = events[q]
  BY <1>1
<1>3. QueueInv'
  BY <1>2 DEF IInv, QueueInv
<1>4. \A q \in Owner : Held(q)' = IF q = o THEN Held(o) \ {x} ELSE Held(q)
  BY <1>2 DEF Held
<1>5. QED
  BY <1>2, <1>3, <1>4

LEMMA HeadTaken ==
  ASSUME IInv, NEW o \in Owner, events[o] # <<>>
  PROVE  /\ Tail(events[o]) \in Seq(Event) /\ Head(events[o]) \in Event /\ Head(events[o]) \in Held(o)
         /\ Distinct(Tail(events[o])) /\ Ordered(Tail(events[o]), due)
         /\ ToSet(Tail(events[o])) = Held(o) \ {Head(events[o])}
<1>1. events[o] \in Seq(Event) /\ Distinct(events[o]) /\ Ordered(events[o], due)
  BY DEF IInv, EventTypeOK, QueueInv
<1>2. QED
  BY <1>1, TailQueue DEF Held

LEMMA PopInv ==
  ASSUME IInv, NEW o \in Owner, NEW S \in SUBSET Running, NEW state \in {"running", "scheduled"},
         NEW call \in {"Execute", "Abort"}, FirstIs(o, state), Pop(o, call, S)
  PROVE  IInv' /\ \A q \in Owner : Held(q)' \subseteq Held(q)
<1> DEFINE x == Head(events[o])
           s == Tail(events[o])
<1>1. /\ s \in Seq(Event) /\ x \in Event /\ x \in Held(o)
      /\ Distinct(s) /\ Ordered(s, due) /\ ToSet(s) = Held(o) \ {x}
  BY HeadTaken DEF FirstIs
<1>2. /\ events' = [events EXCEPT ![o] = s]
      /\ hand' = [event |-> x, call |-> call]
      /\ abortState' = Scheduled(S)
      /\ UNCHANGED <<due, busy, updating, kill>>
      /\ abortState[x] = state
      /\ updating = o /\ o # NoOwner /\ hand = NoHand /\ kill = NoKill
  BY DEF Pop, FirstIs, Updating
<1> HIDE DEF x, s
<1>3. /\ events' \in [Owner -> Seq(Event)]
      /\ QueueInv'
      /\ \A q \in Owner : Held(q)' = IF q = o THEN Held(o) \ {x} ELSE Held(q)
  BY <1>1, <1>2, TakenOut
<1>4. /\ abortState' \in [Event -> AbortStates]
      /\ \A e \in Event : abortState'[e] = "none" <=> abortState[e] = "none"
      /\ \A e \in Event : abortState[e] \in {"running", "scheduled"} =>
                            abortState'[e] \in {"running", "scheduled"}
  BY <1>2, ScheduledStates DEF IInv
<1>5. hand'.event = x /\ hand'.call = call /\ hand.event = NoEvent
  BY <1>2 DEF NoHand
<1>6. EventTypeOK'
  BY <1>1, <1>2, <1>3, <1>4 DEF IInv, EventTypeOK, AbortStates, Callback
<1>7. ApartInv'
  BY <1>1, <1>3, <1>5 DEF IInv, ApartInv
<1>8. AllocInv'
  <2>1. ASSUME NEW e \in Event
        PROVE  abortState'[e] # "none" <=> (e = hand'.event \/ \E q \in Owner : e \in Held(q)')
    <3>1. CASE e = x
      BY <1>2, <1>4, <1>5, <3>1
    <3>2. CASE e # x
      <4>1. (\E q \in Owner : e \in Held(q)') <=> (\E q \in Owner : e \in Held(q))
        BY <1>3, <3>2
      <4>2. e # NoEvent
        BY EventAssumption
      <4>3. QED
        BY <1>4, <1>5, <3>2, <4>1, <4>2 DEF IInv, AllocInv
    <3>3. QED
      BY <3>1, <3>2
  <2>2. QED
    BY <2>1 DEF AllocInv
<1>9. LoopInv' /\ HandInv' /\ KillReachesEveryEvent'
  BY <1>1, <1>2, <1>4, <1>5, EventAssumption
  DEF IInv, LoopInv, HandInv, KillReachesEveryEvent, NoKill
<1>10. \A q \in Owner : Held(q)' \subseteq Held(q)
  BY <1>3
<1>11. QED
  BY <1>3, <1>6, <1>7, <1>8, <1>9, <1>10 DEF IInv

(* The event x, which was in no queue but that of o or in the hand, is deleted. *)
LEMMA DeleteInv ==
  ASSUME IInv, NEW o \in Owner, NEW s \in Seq(Event), NEW x \in Event,
         Distinct(s), Ordered(s, due), ToSet(s) = Held(o) \ {x},
         x \in Held(o) \/ x = hand.event, hand' = NoHand, hand.event # x => hand = NoHand,
         events' = [events EXCEPT ![o] = s], abortState' = [abortState EXCEPT ![x] = "none"],
         UNCHANGED <<due, busy, updating, kill>>, kill = NoKill
  PROVE  IInv' /\ \A q \in Owner : Held(q)' \subseteq Held(q)
<1>1. /\ events' \in [Owner -> Seq(Event)]
      /\ QueueInv'
      /\ \A q \in Owner : Held(q)' = IF q = o THEN Held(o) \ {x} ELSE Held(q)
  BY TakenOut
<1>2. /\ abortState' \in [Event -> AbortStates] /\ abortState'[x] = "none"
      /\ \A e \in Event \ {x} : abortState'[e] = abortState[e]
  BY DEF IInv, EventTypeOK, AbortStates
<1>3. EventTypeOK'
  BY <1>1, <1>2 DEF IInv, EventTypeOK, AbortStates, Callback, NoHand
<1>4. hand'.event = NoEvent
  BY DEF NoHand
<1>5. ApartInv'
  <2>1. \A q \in Owner : NoEvent \notin Held(q)
    BY HeldTyped, EventAssumption DEF IInv
  <2>2. QED
    BY <1>1, <1>4, <2>1 DEF IInv, ApartInv
<1>6. \A q \in Owner : q # o => x \notin Held(q)
  BY DEF IInv, ApartInv
<1>7. AllocInv'
  <2>1. ASSUME NEW e \in Event
        PROVE  abortState'[e] # "none" <=> (e = hand'.event \/ \E q \in Owner : e \in Held(q)')
    <3>1. e # NoEvent
      BY EventAssumption
    <3>2. CASE e = x
      BY <1>1, <1>2, <1>4, <1>6, <3>1, <3>2
    <3>3. CASE e # x
      <4>1. (\E q \in Owner : e \in Held(q)') <=> (\E q \in Owner : e \in Held(q))
        BY <1>1, <3>3
      <4>2. hand.event # e
        BY <3>1, <3>3 DEF NoHand
      <4>3. QED
        BY <1>2, <1>4, <3>1, <3>3, <4>1, <4>2 DEF IInv, AllocInv
    <3>4. QED
      BY <3>2, <3>3
  <2>2. QED
    BY <2>1 DEF AllocInv
<1>8. LoopInv' /\ HandInv' /\ KillReachesEveryEvent'
  BY <1>4, EventAssumption DEF LoopInv, HandInv, KillReachesEveryEvent, NoKill
<1>9. \A q \in Owner : Held(q)' \subseteq Held(q)
  BY <1>1
<1>10. QED
  BY <1>1, <1>3, <1>5, <1>7, <1>8, <1>9 DEF IInv

LEMMA HandTyped ==
  ASSUME IInv, hand.event # NoEvent
  PROVE  /\ hand.event \in Event /\ updating \in Owner
         /\ \A o \in Owner : hand.event \notin Held(o)
         /\ hand.event # NoEvent /\ abortState[hand.event] \in {"running", "scheduled"}
BY DEF IInv, EventTypeOK, LoopInv, HandInv, ApartInv

LEMMA SameQueue ==
  ASSUME IInv, NEW o \in Owner
  PROVE  /\ events[o] \in Seq(Event) /\ Distinct(events[o]) /\ Ordered(events[o], due)
         /\ ToSet(events[o]) = Held(o)
         /\ [events EXCEPT ![o] = events[o]] = events
BY DEF IInv, EventTypeOK, QueueInv, Held

LEMMA FinishInv ==
  ASSUME IInv, Finish \/ FinishAbort
  PROVE  IInv' /\ \A q \in Owner : Held(q)' \subseteq Held(q)
<1>1. /\ hand.call \in {"Execute", "Abort"} /\ kill = NoKill /\ hand' = NoHand
      /\ abortState' = [abortState EXCEPT ![hand.event] = "none"]
      /\ events' = events \/ events' = [events EXCEPT ![updating] = events[updating]]
      /\ UNCHANGED <<due, busy, updating, kill>>
  BY DEF Finish, FinishAbort, Returns, Delete
<1>2. hand.event # NoEvent
  BY <1>1 DEF IInv, LoopInv, NoHand
<1>3. hand.event \in Event /\ updating \in Owner /\ hand.event \notin Held(updating)
  BY <1>2, HandTyped
<1>4. /\ events[updating] \in Seq(Event) /\ Distinct(events[updating]) /\ Ordered(events[updating], due)
      /\ ToSet(events[updating]) = Held(updating) \ {hand.event}
      /\ events' = [events EXCEPT ![updating] = events[updating]]
  BY <1>1, <1>3, SameQueue
<1>5. QED
  BY <1>1, <1>3, <1>4, DeleteInv

LEMMA DiscardDeleteInv ==
  ASSUME IInv, NEW o \in Owner, FirstIs(o, "aborted"),
         Delete(o, Tail(events[o]), Head(events[o])), UNCHANGED <<busy, updating, hand>>
  PROVE  IInv' /\ \A q \in Owner : Held(q)' \subseteq Held(q)
<1> DEFINE x == Head(events[o])
           s == Tail(events[o])
<1>1. /\ s \in Seq(Event) /\ x \in Event /\ x \in Held(o)
      /\ Distinct(s) /\ Ordered(s, due) /\ ToSet(s) = Held(o) \ {x}
  BY HeadTaken DEF FirstIs
<1>2. /\ events' = [events EXCEPT ![o] = s]
      /\ abortState' = [abortState EXCEPT ![x] = "none"]
      /\ UNCHANGED <<due, kill>> /\ hand = NoHand /\ kill = NoKill /\ hand' = NoHand
  BY DEF Delete, FirstIs, Updating
<1> HIDE DEF x, s
<1>3. QED
  BY <1>1, <1>2, DeleteInv

(* KillAllEvents deletes an event, or passes one that is not deletable. *)
LEMMA KillDisposeInv ==
  ASSUME IInv, NEW o \in Owner, KillDispose(o)
  PROVE  IInv' /\ \A q \in Owner : Held(q)' \subseteq Held(q)
<1> DEFINE x == Current(o)
           i == kill.passed + 1
           s == RemoveAt(events[o], i)
<1>1. /\ Walking(o) /\ abortState[x] = "aborted" /\ UNCHANGED <<due, busy, updating, hand>>
      /\ kill.owner = o /\ o # NoOwner
  BY DEF KillDispose, Walking
<1>2. /\ i \in 1 .. Len(events[o]) /\ x \in Event /\ x \in Held(o) /\ events[o][i] = x
      /\ \A j \in 1 .. kill.passed : j \in 1 .. Len(events[o]) /\ events[o][j] \in Event
                                   /\ events[o][j] # x
  BY <1>1, CurrentTyped DEF Current
<1>3. /\ events[o] \in Seq(Event) /\ kill \in KillRecord /\ kill.passed \in Nat
      /\ Distinct(events[o]) /\ Ordered(events[o], due) /\ Len(events[o]) \in Nat
  BY DEF IInv, EventTypeOK, KillRecord, QueueInv
<1>4. hand.event # x
  BY <1>2 DEF IInv, ApartInv
<1>5. \A j \in 1 .. kill.passed : abortState[events[o][j]] = "aborted" \/ events[o][j] \in kill.fresh
  BY <1>1 DEF IInv, KillReachesEveryEvent
<1>6. CASE /\ events' = [events EXCEPT ![o] = s]
           /\ abortState' = [abortState EXCEPT ![x] = "none"]
           /\ kill' = [kill EXCEPT !.event = NoEvent, !.fresh = @ \ {x}]
  <2>1. /\ s \in Seq(Event) /\ Len(s) = Len(events[o]) - 1
        /\ \A j \in 1 .. kill.passed : s[j] = events[o][j]
    <3>1. /\ s \in Seq(Event) /\ Len(s) = Len(events[o]) - 1
          /\ \A j \in 1 .. i - 1 : s[j] = events[o][j]
      <4> HIDE DEF i
      <4>1. QED
        BY <1>2, <1>3, RemoveAtEntries
    <3>2. i - 1 = kill.passed
      BY <1>3
    <3>3. QED
      BY <3>1, <3>2
  <2>2. Distinct(s) /\ Ordered(s, due) /\ ToSet(s) = Held(o) \ {x}
    BY <1>2, <1>3, RemoveQueue DEF Held
  <2> HIDE DEF x, i, s
  <2>3. /\ events' \in [Owner -> Seq(Event)] /\ events'[o] = s
        /\ QueueInv'
        /\ \A q \in Owner : Held(q)' = IF q = o THEN Held(o) \ {x} ELSE Held(q)
    BY <1>1, <1>6, <2>1, <2>2, TakenOut
  <2>4. /\ abortState' \in [Event -> AbortStates] /\ abortState'[x] = "none"
        /\ \A e \in Event \ {x} : abortState'[e] = abortState[e]
    BY <1>2, <1>6 DEF IInv, EventTypeOK, AbortStates
  <2>5. /\ kill' \in KillRecord /\ kill'.owner = o /\ kill'.passed = kill.passed
        /\ kill'.fresh = kill.fresh \ {x}
    BY <1>1, <1>3, <1>6 DEF KillRecord
  <2>6. EventTypeOK'
    <3>1. UNCHANGED <<due, busy, updating, hand>> /\ EventTypeOK
      BY <1>1 DEF IInv
    <3> HIDE DEF IInv
    <3>2. QED
      BY <2>3, <2>4, <2>5, <3>1 DEF EventTypeOK, AbortStates, KillRecord
  <2>7. ApartInv'
    BY <1>1, <2>3, ZenonT(30) DEF IInv, ApartInv
  <2>8. AllocInv'
    <3>1. \A q \in Owner : q # o => x \notin Held(q)
      BY <1>2 DEF IInv, ApartInv
    <3>2. ASSUME NEW e \in Event
          PROVE  abortState'[e] # "none" <=> (e = hand'.event \/ \E q \in Owner : e \in Held(q)')
      <4>1. CASE e = x
        BY <1>1, <1>4, <2>3, <2>4, <3>1, <4>1
      <4>2. CASE e # x
        <5>1. (\E q \in Owner : e \in Held(q)') <=> (\E q \in Owner : e \in Held(q))
          BY <2>3, <4>2
        <5>2. QED
          BY <1>1, <2>4, <4>2, <5>1 DEF IInv, AllocInv
      <4>3. QED
        BY <4>1, <4>2
    <3>3. QED
      BY <3>2 DEF AllocInv
  <2>9. LoopInv'
    <3>1. kill.passed <= Len(s)
      BY <1>2, <1>3, <2>1 DEF i
    <3>2. QED
      BY <1>1, <2>3, <2>5, <3>1 DEF IInv, LoopInv
  <2>10. HandInv'
    <3>1. hand.event # NoEvent => hand.event \in Event /\ abortState'[hand.event] = abortState[hand.event]
      BY <1>4, <2>4 DEF IInv, EventTypeOK
    <3>2. QED
      BY <1>1, <3>1 DEF IInv, HandInv
  <2>11. KillReachesEveryEvent'
    <3>1. \A j \in 1 .. kill.passed : abortState'[s[j]] = "aborted" \/ s[j] \in kill.fresh \ {x}
      BY <1>2, <1>5, <2>1, <2>4
    <3>2. QED
      BY <2>3, <2>5, <3>1 DEF KillReachesEveryEvent
  <2>12. \A q \in Owner : Held(q)' \subseteq Held(q)
    BY <2>3
  <2>13. QED
    BY <2>3, <2>6, <2>7, <2>8, <2>9, <2>10, <2>11, <2>12 DEF IInv
<1>7. CASE /\ kill' = [kill EXCEPT !.event = NoEvent, !.passed = @ + 1]
           /\ UNCHANGED <<events, abortState>>
  <2>1. QueueInv' /\ ApartInv' /\ AllocInv'
    BY <1>1, <1>7, SameQueues DEF IInv, EventTypeOK, AbortStates
  <2>2. /\ kill' \in KillRecord /\ kill'.owner = o /\ kill'.passed = i
        /\ kill'.fresh = kill.fresh
    <3>1. i \in Nat
      BY <1>3
    <3>2. kill' = [kill EXCEPT !.event = NoEvent, !.passed = i]
      BY <1>7
    <3> HIDE DEF i
    <3>3. QED
      BY <1>1, <1>3, <3>1, <3>2 DEF KillRecord
  <2>3. EventTypeOK'
    BY <1>1, <1>7, <2>2 DEF IInv, EventTypeOK, KillRecord
  <2>4. LoopInv' /\ HandInv'
    BY <1>1, <1>2, <1>3, <1>7, <2>2 DEF IInv, LoopInv, HandInv
  <2>5. KillReachesEveryEvent'
    <3>1. ASSUME NEW j \in 1 .. i PROVE abortState[events[o][j]] = "aborted" \/ events[o][j] \in kill.fresh
      <4>1. j = i \/ j \in 1 .. kill.passed
        BY <1>3
      <4>2. QED
        BY <1>1, <1>2, <1>5, <4>1
    <3>2. QED
      BY <1>7, <2>2, <3>1 DEF KillReachesEveryEvent
  <2>6. \A q \in Owner : Held(q)' = Held(q)
    BY <1>7 DEF Held
  <2>7. QED
    BY <2>1, <2>3, <2>4, <2>5, <2>6 DEF IInv
<1>8. QED
  BY <1>6, <1>7 DEF KillDispose

-----------------------------------------------------------------------------
(* The steps that put an event in. *)

(* The queue of o is s and then has e as well; e is new, was in that queue or *)
(* in the hand.                                                              *)
LEMMA InsertedInv ==
  ASSUME IInv, NEW o \in Owner, NEW s \in Seq(Event), NEW e \in Event, NEW t \in Offset,
         Distinct(s), Ordered(s, due), ToSet(s) = Held(o) \ {e},
         \A q \in Owner \ {o} : e \notin Held(q),
         kill.owner = o => s = events[o],
         Insert(o, s, e, t),
         abortState' \in [Event -> AbortStates], abortState'[e] # "none",
         \A x \in Event \ {e} : /\ abortState'[x] = "none" <=> abortState[x] = "none"
                                /\ abortState[x] = "aborted" => abortState'[x] = "aborted"
                                /\ abortState[x] \in {"running", "scheduled"} =>
                                     abortState'[x] \in {"running", "scheduled"},
         UNCHANGED <<busy, updating>>,
         \/ hand' = hand /\ hand.event # e
         \/ hand' = NoHand /\ kill = NoKill /\ (hand.event = e \/ hand = NoHand)
  PROVE  IInv' /\ \A q \in Owner : Held(q)' = IF q = o THEN Held(o) \cup {e} ELSE Held(q)
<1>1. kill.owner \in Owner => kill.passed <= Len(events[kill.owner])
  BY EventAssumption DEF IInv, LoopInv
<1>2. e \notin ToSet(s)
  OBVIOUS
<1>3. /\ events' \in [Owner -> Seq(Event)] /\ due' \in [Event -> Offset]
      /\ kill' \in KillRecord
      /\ QueueInv'
      /\ \A q \in Owner : Held(q)' = IF q = o THEN ToSet(s) \cup {e} ELSE Held(q)
      /\ \A q \in Owner \ {o} : events'[q] = events[q]
      /\ kill.owner # o => kill' = kill
      /\ kill'.owner = kill.owner
      /\ kill.owner = o => kill'.passed <= Len(events'[o])
      /\ KillReachesEveryEvent'
  BY <1>1, <1>2, InsertInv DEF IInv
<1>4. \A q \in Owner : Held(q)' = IF q = o THEN Held(o) \cup {e} ELSE Held(q)
  BY <1>3
<1>5. hand' \in [event : Event \cup {NoEvent}, call : Callback]
  BY DEF IInv, EventTypeOK, NoHand, Callback
<1>6. EventTypeOK'
  BY <1>3, <1>5 DEF IInv, EventTypeOK, AbortStates, KillRecord
<1>7. \A q \in Owner : NoEvent \notin Held(q)
  BY HeldTyped, EventAssumption DEF IInv
<1>8. e # NoEvent
  BY EventAssumption
<1>9. hand'.event # e /\ (hand'.event = hand.event \/ hand'.event = NoEvent)
  BY <1>8 DEF NoHand
<1>10. ApartInv'
  BY <1>4, <1>7, <1>9 DEF IInv, ApartInv
<1>11. AllocInv'
  <2>1. ASSUME NEW x \in Event
        PROVE  abortState'[x] # "none" <=> (x = hand'.event \/ \E q \in Owner : x \in Held(q)')
    <3>1. CASE x = e
      BY <1>4, <3>1
    <3>2. CASE x # e
      <4>1. (\E q \in Owner : x \in Held(q)') <=> (\E q \in Owner : x \in Held(q))
        BY <1>4, <3>2
      <4>2. x = hand'.event <=> x = hand.event
        BY <3>2, EventAssumption DEF NoHand
      <4>3. QED
        BY <3>2, <4>1, <4>2 DEF IInv, AllocInv
    <3>3. QED
      BY <3>1, <3>2
  <2>2. QED
    BY <2>1 DEF AllocInv
<1>12. kill = NoKill => kill' = NoKill
  BY <1>3, EventAssumption DEF NoKill
<1>13. LoopInv'
  <2>1. kill'.owner # NoOwner => kill'.passed <= Len(events'[kill'.owner])
    <3>1. CASE kill.owner = o
      BY <1>3, <3>1
    <3>2. CASE kill.owner # o
      <4>1. kill.owner # NoOwner => kill.owner \in Owner \ {o}
        BY <3>2 DEF IInv, EventTypeOK
      <4>2. QED
        BY <1>3, <3>2, <4>1 DEF IInv, LoopInv
    <3>3. QED
      BY <3>1, <3>2
  <2>2. CASE hand' = hand /\ hand.event # e
    <3>1. kill.owner = NoOwner => kill' = NoKill
      BY <1>12 DEF IInv, LoopInv
    <3>2. QED
      BY <1>3, <2>1, <2>2, <3>1 DEF IInv, LoopInv
  <2>3. CASE hand' = NoHand /\ kill = NoKill
    BY <1>12, <2>3 DEF LoopInv, NoHand, NoKill
  <2>4. QED
    BY <2>2, <2>3
<1>14. HandInv'
  <2>1. CASE hand' = hand /\ hand.event # e
    <3>1. hand.event # NoEvent => hand.event \in Event \ {e}
      BY <2>1 DEF IInv, EventTypeOK
    <3>2. QED
      BY <2>1, <3>1 DEF IInv, HandInv
  <2>2. CASE hand' = NoHand
    BY <2>2 DEF HandInv, NoHand
  <2>3. QED
    BY <2>1, <2>2
<1>15. QED
  BY <1>3, <1>4, <1>6, <1>10, <1>11, <1>13, <1>14 DEF IInv

LEMMA AddInv ==
  ASSUME IInv, NEW o \in Owner, NEW e \in Event, NEW t \in Offset,
         NEW S \in SUBSET (Running \cup {e}), Add(o, e, t, S)
  PROVE  IInv' /\ \A q \in Owner : Held(q)' = IF q = o THEN Held(o) \cup {e} ELSE Held(q)
<1> DEFINE R == S \ {e}
<1>1. /\ abortState[e] = "none" /\ R \in SUBSET Running
      /\ abortState' = [Scheduled(S) EXCEPT ![e] = IF e \in S THEN "scheduled" ELSE "running"]
      /\ Insert(o, events[o], e, t)
      /\ UNCHANGED <<busy, updating, hand>>
  BY DEF Add, AddEvent
<1>2. hand.event # e /\ \A q \in Owner : e \notin Held(q)
  BY <1>1 DEF IInv, AllocInv
<1>3. /\ events[o] \in Seq(Event) /\ Distinct(events[o]) /\ Ordered(events[o], due)
      /\ ToSet(events[o]) = Held(o) \ {e}
  BY <1>2, SameQueue
<1>4. /\ abortState' \in [Event -> AbortStates] /\ abortState'[e] # "none"
      /\ \A x \in Event \ {e} : abortState'[x] = Scheduled(R)[x]
  <2>1. Scheduled(S) \in [Event -> AbortStates] /\ \A x \in Event \ {e} : Scheduled(S)[x] = Scheduled(R)[x]
    BY DEF Scheduled, IInv, EventTypeOK, AbortStates
  <2>2. QED
    BY <1>1, <2>1 DEF AbortStates
<1> HIDE DEF R
<1>5. \A x \in Event \ {e} : /\ abortState'[x] = "none" <=> abortState[x] = "none"
                             /\ abortState[x] = "aborted" => abortState'[x] = "aborted"
                             /\ abortState[x] \in {"running", "scheduled"} =>
                                  abortState'[x] \in {"running", "scheduled"}
  BY <1>1, <1>4, ScheduledStates DEF IInv
<1>6. QED
  BY <1>1, <1>2, <1>3, <1>4, <1>5, InsertedInv

LEMMA ModifyEventTimeInv ==
  ASSUME IInv, NEW o \in Owner, NEW e \in Event, NEW t \in Offset, ModifyEventTime(o, e, t)
  PROVE  IInv'
<1>1. kill.owner # o /\ UNCHANGED <<abortState, busy, updating, hand>>
  BY DEF ModifyEventTime
<1>2. PICK i \in 1 .. Len(events[o]) : events[o][i] = e /\ Insert(o, RemoveAt(events[o], i), e, t)
  BY DEF ModifyEventTime
<1> DEFINE s == RemoveAt(events[o], i)
<1>3. /\ events[o] \in Seq(Event) /\ Distinct(events[o]) /\ Ordered(events[o], due)
      /\ ToSet(events[o]) = Held(o)
  BY SameQueue
<1>4. e \in Held(o)
  BY <1>2, HeldTyped DEF IInv
<1>5. s \in Seq(Event) /\ Distinct(s) /\ Ordered(s, due) /\ ToSet(s) = Held(o) \ {e}
  BY <1>2, <1>3, RemoveAtEntries, RemoveQueue
<1> HIDE DEF s
<1>6. hand.event # e /\ \A q \in Owner \ {o} : e \notin Held(q)
  BY <1>4 DEF IInv, ApartInv
<1>7. abortState' \in [Event -> AbortStates] /\ abortState'[e] # "none"
  BY <1>1, <1>4 DEF IInv, EventTypeOK, AbortStates, AllocInv
<1>8. Insert(o, s, e, t)
  BY <1>2 DEF s
<1>9. QED
  BY <1>1, <1>5, <1>6, <1>7, <1>8, InsertedInv

(* Execute or Abort has returned, and its event goes back. *)
LEMMA ReturnedInv ==
  ASSUME IInv, NEW t \in Offset, hand.call \in {"Execute", "Abort"}, hand' = NoHand, kill = NoKill,
         Insert(updating, events[updating], hand.event, t), UNCHANGED <<busy, updating>>,
         abortState' = abortState \/ abortState' = [abortState EXCEPT ![hand.event] = "aborted"]
  PROVE  IInv' /\ \A q \in Owner : Held(q)' = IF q = updating THEN Held(updating) \cup {hand.event} ELSE Held(q)
<1>1. hand.event # NoEvent
  BY DEF IInv, LoopInv, NoHand
<1>2. /\ hand.event \in Event /\ updating \in Owner /\ \A o \in Owner : hand.event \notin Held(o)
      /\ abortState[hand.event] \in {"running", "scheduled"}
  BY <1>1, HandTyped
<1>3. /\ events[updating] \in Seq(Event) /\ Distinct(events[updating]) /\ Ordered(events[updating], due)
      /\ ToSet(events[updating]) = Held(updating) \ {hand.event}
  BY <1>2, SameQueue
<1>4. /\ abortState' \in [Event -> AbortStates] /\ abortState'[hand.event] # "none"
      /\ \A x \in Event \ {hand.event} : abortState'[x] = abortState[x]
  BY <1>2 DEF IInv, EventTypeOK, AbortStates
<1>5. QED
  BY <1>2, <1>3, <1>4, InsertedInv

LEMMA AgainInv ==
  ASSUME IInv, NEW t \in Offset, Again(t)
  PROVE  IInv' /\ \A q \in Owner : Held(q)' = IF q = updating THEN Held(updating) \cup {hand.event} ELSE Held(q)
BY ReturnedInv DEF Again, Returns

LEMMA RetryAbortInv ==
  ASSUME IInv, RetryAbort
  PROVE  IInv'
<1>1. 1 \in Offset
  BY EventAssumption DEF Offset
<1>2. QED
  BY <1>1, ReturnedInv DEF RetryAbort, Retry, Returns

LEMMA DiscardRetryInv ==
  ASSUME IInv, NEW o \in Owner, FirstIs(o, "aborted"),
         Retry(o, Tail(events[o]), Head(events[o])), UNCHANGED <<busy, updating, hand>>
  PROVE  IInv' /\ \A q \in Owner : Held(q)' \subseteq Held(q)
<1> DEFINE x == Head(events[o])
           s == Tail(events[o])
<1>1. /\ s \in Seq(Event) /\ x \in Event /\ x \in Held(o)
      /\ Distinct(s) /\ Ordered(s, due) /\ ToSet(s) = Held(o) \ {x}
  BY HeadTaken DEF FirstIs
<1>2. /\ Insert(o, s, x, 1) /\ abortState' = [abortState EXCEPT ![x] = "aborted"]
      /\ hand = NoHand /\ kill = NoKill /\ hand' = hand
  BY DEF Retry, FirstIs, Updating
<1> HIDE DEF x, s
<1>3. 1 \in Offset /\ kill.owner # o
  BY <1>2, EventAssumption DEF Offset, NoKill
<1>4. hand.event # x /\ \A q \in Owner \ {o} : x \notin Held(q)
  BY <1>1 DEF IInv, ApartInv
<1>5. /\ abortState' \in [Event -> AbortStates] /\ abortState'[x] # "none"
      /\ \A y \in Event \ {x} : abortState'[y] = abortState[y]
  BY <1>1, <1>2 DEF IInv, EventTypeOK, AbortStates
<1>6. QED
  BY <1>1, <1>2, <1>3, <1>4, <1>5, InsertedInv

-----------------------------------------------------------------------------
(* The invariant in every behaviour, and what it implies. *)

LEMMA InitInv == EventInit => IInv
<1> SUFFICES ASSUME EventInit PROVE IInv
  OBVIOUS
<1>1. /\ events = [o \in Owner |-> <<>>] /\ due = [e \in Event |-> 0]
      /\ abortState = [e \in Event |-> "none"] /\ busy = {}
      /\ updating = NoOwner /\ hand = NoHand /\ kill = NoKill
  BY DEF EventInit
<1>2. \A o \in Owner : events[o] = <<>> /\ Held(o) = {}
  BY <1>1 DEF Held, ToSet
<1>3. EventTypeOK
  BY <1>1, EventAssumption DEF EventTypeOK, Offset, NoHand, NoKill, Callback
<1>4. QueueInv /\ ApartInv
  BY <1>2 DEF QueueInv, Distinct, Ordered, ApartInv
<1>5. AllocInv
  BY <1>1, <1>2, EventAssumption DEF AllocInv, NoHand
<1>6. LoopInv /\ HandInv /\ KillReachesEveryEvent
  BY <1>1, EventAssumption DEF LoopInv, HandInv, KillReachesEveryEvent, NoHand, NoKill
<1>7. QED
  BY <1>3, <1>4, <1>5, <1>6 DEF IInv

LEMMA NextInv == IInv /\ [EventNext]_eventVars => IInv'
<1> SUFFICES ASSUME IInv, [EventNext]_eventVars PROVE IInv'
  OBVIOUS
<1>1. CASE UNCHANGED eventVars
  <2>1. \A o \in Owner : Held(o)' = Held(o)
    BY <1>1 DEF eventVars, Held
  <2>2. ApartInv' /\ AllocInv'
    BY <1>1, <2>1 DEF eventVars, IInv, ApartInv, AllocInv
  <2>3. QED
    BY <1>1, <2>2
    DEF eventVars, IInv, EventTypeOK, QueueInv, LoopInv, HandInv, KillReachesEveryEvent, Ordered
<1>2. ASSUME NEW S \in SUBSET Running, Schedule(S) PROVE IInv'
  BY <1>2, ScheduleInv
<1>3. ASSUME NEW e \in Event, SetBusy(e) \/ ClearBusy(e) PROVE IInv'
  BY <1>3, BusyInv
<1>4. ASSUME NEW t \in Offset, Again(t) PROVE IInv'
  BY <1>4, AgainInv
<1>5. CASE Finish \/ FinishAbort
  BY <1>5, FinishInv
<1>6. CASE RetryAbort
  BY <1>6, RetryAbortInv
<1>7. ASSUME NEW o \in Owner, NEW e \in Event, NEW t \in Offset,
             NEW S \in SUBSET (Running \cup {e}), Add(o, e, t, S)
      PROVE  IInv'
  BY <1>7, AddInv
<1>8. ASSUME NEW o \in Owner, NEW e \in Event, NEW t \in Offset, ModifyEventTime(o, e, t) PROVE IInv'
  BY <1>8, ModifyEventTimeInv
<1>9. ASSUME NEW o \in Owner, NEW d \in Offset, BeginUpdate(o, d) PROVE IInv'
  BY <1>9, BeginUpdateInv
<1>10. ASSUME NEW o \in Owner, NEW S \in SUBSET Running, Execute(o, S) PROVE IInv'
  BY <1>10, PopInv DEF Execute
<1>11. ASSUME NEW o \in Owner, NEW S \in SUBSET Running, Abort(o, S) PROVE IInv'
  BY <1>11, PopInv DEF Abort
<1>12. ASSUME NEW o \in Owner, NEW S \in SUBSET Running, KillAbort(o, S) PROVE IInv'
  BY <1>12, KillAbortInv
<1>13. ASSUME NEW o \in Owner, NEW force \in BOOLEAN, NEW S \in SUBSET Running, BeginKill(o, force, S)
       PROVE  IInv'
  BY <1>13, BeginKillInv
<1>14. ASSUME NEW o \in Owner, Discard(o) PROVE IInv'
  BY <1>14, DiscardDeleteInv, DiscardRetryInv DEF Discard
<1>15. ASSUME NEW o \in Owner, EndUpdate(o) \/ KillDispose(o) \/ EndKill(o) PROVE IInv'
  BY <1>15, EndUpdateInv, KillDisposeInv, EndKillInv
<1>16. QED
  BY <1>1, <1>2, <1>3, <1>4, <1>5, <1>6, <1>7, <1>8, <1>9, <1>10, <1>11, <1>12, <1>13, <1>14, <1>15
  DEF EventNext

(* Every state of the queues has its type and satisfies the invariant: the  *)
(* calls of EventProcessor.cpp keep it, in any order the callbacks make them. *)
THEOREM Invariance == EventSpec => []IInv
BY InitInv, NextInv, PTL DEF EventSpec

(* An event is in one queue, once, or in the hand of Update, until it is    *)
(* deleted: neither Update nor KillAllEvents deletes it twice or leaks it.  *)
THEOREM HeldOnce == EventSpec => []EventsAreHeldOnce
<1>1. IInv => EventsAreHeldOnce
  BY DEF IInv, QueueInv, Distinct, ApartInv, AllocInv, EventsAreHeldOnce
<1>2. QED
  BY <1>1, Invariance, PTL

(* m_events is in the order of the times, so that Update, which looks only  *)
(* at the first entry, leaves nothing behind that is due.                   *)
THEOREM TimeOrder == EventSpec => []InTimeOrder
<1>1. IInv => InTimeOrder
  BY DEF IInv, QueueInv, Ordered, InTimeOrder
<1>2. QED
  BY <1>1, Invariance, PTL

(* KillAllEvents leaves behind only aborted events, and those its callbacks *)
(* have added.                                                              *)
THEOREM KillReaches == EventSpec => []KillReachesEveryEvent
<1>1. IInv => KillReachesEveryEvent
  BY DEF IInv
<1>2. QED
  BY <1>1, Invariance, PTL

(* Each step, for an event that is aborted. *)
LEMMA FinalStep ==
  ASSUME IInv, [EventNext]_eventVars, NEW e \in Event, abortState[e] = "aborted"
  PROVE  abortState'[e] \in {"aborted", "none"} /\ hand'.event # e
<1>1. hand.event # e /\ e # NoEvent /\ NoHand.event # e
  BY EventAssumption DEF IInv, HandInv, NoHand
<1>2. abortState \in [Event -> AbortStates]
  BY DEF IInv, EventTypeOK, AbortStates
<1>3. \A S : S \ {e} \subseteq Running /\ e \notin S => Scheduled(S)[e] = "aborted"
  BY DEF Scheduled
<1>4. \A S \in SUBSET Running : Scheduled(S)[e] = "aborted"
  BY DEF Scheduled, Running
<1>5. CASE UNCHANGED eventVars
  BY <1>1, <1>5 DEF eventVars
<1>6. ASSUME NEW S \in SUBSET Running, Schedule(S)
      PROVE  abortState'[e] \in {"aborted", "none"} /\ hand'.event # e
  BY <1>1, <1>4, <1>6 DEF Schedule, ScheduleAborts
<1>7. ASSUME NEW x \in Event, SetBusy(x) \/ ClearBusy(x)
      PROVE  abortState'[e] \in {"aborted", "none"} /\ hand'.event # e
  BY <1>1, <1>7 DEF SetBusy, ClearBusy
<1>8. ASSUME NEW t \in Offset, Again(t)
      PROVE  abortState'[e] \in {"aborted", "none"} /\ hand'.event # e
  BY <1>1, <1>8 DEF Again, Returns
<1>9. CASE Finish \/ FinishAbort \/ RetryAbort
  BY <1>1, <1>2, <1>9 DEF Finish, FinishAbort, RetryAbort, Returns, Delete, Retry
<1>10. ASSUME NEW o \in Owner, NEW x \in Event, NEW t \in Offset,
              NEW S \in SUBSET (Running \cup {x}), Add(o, x, t, S)
       PROVE  abortState'[e] \in {"aborted", "none"} /\ hand'.event # e
  <2>1. /\ abortState[x] = "none" /\ hand' = hand
        /\ abortState' = [Scheduled(S) EXCEPT ![x] = IF x \in S THEN "scheduled" ELSE "running"]
    BY <1>10 DEF Add, AddEvent
  <2>2. x # e /\ e \notin S
    BY <2>1 DEF Running
  <2>3. Scheduled(S)[e] = "aborted" /\ abortState'[e] = Scheduled(S)[e]
    BY <2>1, <2>2 DEF Scheduled
  <2>4. QED
    BY <1>1, <2>1, <2>3
<1>11. ASSUME NEW o \in Owner, NEW x \in Event, NEW t \in Offset, ModifyEventTime(o, x, t)
       PROVE  abortState'[e] \in {"aborted", "none"} /\ hand'.event # e
  BY <1>1, <1>11 DEF ModifyEventTime
<1>12. ASSUME NEW o \in Owner, NEW d \in Offset, BeginUpdate(o, d)
       PROVE  abortState'[e] \in {"aborted", "none"} /\ hand'.event # e
  BY <1>1, <1>12 DEF BeginUpdate
<1>13. ASSUME NEW o \in Owner, NEW S \in SUBSET Running, Execute(o, S) \/ Abort(o, S)
       PROVE  abortState'[e] \in {"aborted", "none"} /\ hand'.event # e
  <2>1. abortState' = Scheduled(S) /\ hand'.event = Head(events[o]) /\ Head(events[o]) # e
    BY <1>13 DEF Execute, Abort, FirstIs, Pop
  <2>2. QED
    BY <1>4, <2>1
<1>14. ASSUME NEW o \in Owner, NEW S \in SUBSET Running, KillAbort(o, S)
       PROVE  abortState'[e] \in {"aborted", "none"} /\ hand'.event # e
  BY <1>1, <1>4, <1>14 DEF KillAbort, CallAbort
<1>15. ASSUME NEW o \in Owner, NEW force \in BOOLEAN, NEW S \in SUBSET Running, BeginKill(o, force, S)
       PROVE  abortState'[e] \in {"aborted", "none"} /\ hand'.event # e
  BY <1>1, <1>4, <1>15 DEF BeginKill, StartKill
<1>16. ASSUME NEW o \in Owner, Discard(o)
       PROVE  abortState'[e] \in {"aborted", "none"} /\ hand'.event # e
  BY <1>1, <1>2, <1>16 DEF Discard, Delete, Retry
<1>17. ASSUME NEW o \in Owner, EndUpdate(o) \/ KillDispose(o) \/ EndKill(o)
       PROVE  abortState'[e] \in {"aborted", "none"} /\ hand'.event # e
  BY <1>1, <1>2, <1>17 DEF EndUpdate, KillDispose, EndKill
<1>18. QED
  BY <1>5, <1>6, <1>7, <1>8, <1>9, <1>10, <1>11, <1>12, <1>13, <1>14, <1>15, <1>16, <1>17
  DEF EventNext

(* After SetAborted an event is only deleted: Update and KillAllEvents call *)
(* neither its Execute nor its Abort again.                                 *)
THEOREM Final == EventSpec => AbortIsFinal
<1>1. IInv /\ [EventNext]_eventVars =>
        [\A e \in Event : abortState[e] = "aborted" =>
           abortState'[e] \in {"aborted", "none"} /\ hand'.event # e]_eventVars
  BY FinalStep
<1>2. QED
  BY <1>1, Invariance, PTL DEF EventSpec, AbortIsFinal

-----------------------------------------------------------------------------
(* The second part: vehicles.  The invariant of the joins. *)

JoinTypeOK ==
  /\ status \in [Owner -> {"in", "out", "removed", "gone"}]
  /\ riding \in [Owner -> Vehicle \cup {NoVehicle}]
  /\ aura \in [Owner -> Vehicle \cup {NoVehicle}]
  /\ kit \subseteq Vehicle
  /\ DOMAIN seats = Vehicle
  /\ \A v \in Vehicle : seats[v] \in [Seats[v] -> Owner \cup {NoOwner}]
  /\ pending \in [Vehicle -> SUBSET Event]
  /\ join \in [Event -> Join]

(* A join is pending exactly when it is running, and then its passenger is *)
(* in the world, rides nothing and has its aura on the vehicle.            *)
Live(e) == IsJoin(e) /\ abortState[e] = "running"

Coherent(e) ==
  /\ \A v \in Vehicle : e \in pending[v] <=> Live(e) /\ join[e].base = v
  /\ Live(e) => /\ join[e].passenger \in Owner /\ status[join[e].passenger] = "in"
                /\ join[e].base \in kit /\ aura[join[e].passenger] = join[e].base
                /\ riding[join[e].passenger] = NoVehicle
                /\ join[e].seat \in Seats[join[e].base]

RideInv ==
  \A p \in Owner : /\ riding[p] # NoVehicle => aura[p] = riding[p]
                   /\ aura[p] # NoVehicle => aura[p] \in kit

(* A join is in the queue of its passenger, and in the hand it is not running. *)
PlaceInv ==
  /\ \A p \in Owner : \A e \in Held(p) : IsJoin(e) => join[e].passenger = p
  /\ IsJoin(hand.event) => abortState[hand.event] # "running"

ForceInv == kill.owner # NoOwner /\ kill.force => status[kill.owner] = "gone"

VInv == JoinTypeOK /\ (\A e \in Event : Coherent(e)) /\ RideInv /\ PlaceInv /\ ForceInv
JInv == IInv /\ VInv

(* An event that no step touches stays coherent, and so does one that is no *)
(* longer running and pending.                                              *)
LEMMA StaysCoherent ==
  ASSUME NEW e \in Event, Coherent(e),
         Live(e)' <=> Live(e),
         \A v \in Vehicle : e \in pending'[v] <=> e \in pending[v],
         Live(e) => /\ join'[e] = join[e]
                    /\ status'[join[e].passenger] = "in"
                    /\ join[e].base \in kit'
                    /\ aura'[join[e].passenger] = aura[join[e].passenger]
                    /\ riding'[join[e].passenger] = NoVehicle
  PROVE  Coherent(e)'
BY DEF Coherent

LEMMA LeavesCoherent ==
  ASSUME NEW e \in Event, ~Live(e)', \A v \in Vehicle : e \notin pending'[v]
  PROVE  Coherent(e)'
BY DEF Coherent

LEMMA JoinsAreRunning ==
  ASSUME JInv, NEW L \in SUBSET Owner
  PROVE  /\ JoinsOf(L) \in SUBSET Running
         /\ \A e \in Event : e \in JoinsOf(L) <=> Live(e) /\ join[e].passenger \in L
<1>1. /\ aura \in [Owner -> Vehicle \cup {NoVehicle}] /\ kit \subseteq Vehicle /\ NoVehicle \notin Vehicle
      /\ \A e \in Event : Coherent(e)
  BY VehicleAssumption DEF JInv, VInv, JoinTypeOK
<1>2. ASSUME NEW e \in Event, e \in JoinsOf(L) PROVE Live(e) /\ join[e].passenger \in L
  <2>1. PICK p \in L : aura[p] # NoVehicle /\ e \in pending[aura[p]] /\ join[e].passenger = p
    BY <1>2 DEF JoinsOf
  <2>2. aura[p] \in Vehicle
    BY <1>1, <2>1
  <2>3. QED
    BY <1>1, <2>1, <2>2 DEF Coherent
<1>3. ASSUME NEW e \in Event, Live(e), join[e].passenger \in L PROVE e \in JoinsOf(L)
  <2>1. aura[join[e].passenger] \in Vehicle /\ e \in pending[aura[join[e].passenger]]
    BY <1>1, <1>3 DEF Coherent
  <2>2. QED
    BY <1>1, <1>3, <2>1 DEF JoinsOf
<1>4. JoinsOf(L) \subseteq Event
  BY DEF JoinsOf
<1>5. QED
  BY <1>2, <1>3, <1>4 DEF Live, Running

(* The types of what the auras of L leave behind. *)
LEMMA WithoutTyped ==
  ASSUME JInv, NEW L
  PROVE  /\ RidingWithout(L) \in [Owner -> Vehicle \cup {NoVehicle}]
         /\ DOMAIN SeatsWithout(L) = Vehicle
         /\ \A v \in Vehicle : SeatsWithout(L)[v] \in [Seats[v] -> Owner \cup {NoOwner}]
         /\ PendingWithout(L) \in [Vehicle -> SUBSET Event]
         /\ \A v \in Vehicle : PendingWithout(L)[v] = pending[v] \ JoinsOf(L)
         /\ \A p \in Owner : RidingWithout(L)[p] = IF p \in L THEN NoVehicle ELSE riding[p]
BY DEF JInv, VInv, JoinTypeOK, RidingWithout, SeatsWithout, PendingWithout

(* Auras are removed. *)
LEMMA RemoveAurasInv ==
  ASSUME JInv, NEW L \in SUBSET Owner, RemoveAuras(L), abortState' = Scheduled(JoinsOf(L)),
         UNCHANGED <<events, hand, kit, join>>,
         status' \in [Owner -> {"in", "out", "removed", "gone"}],
         \A p \in Owner : status'[p] = status[p] \/ p \in L \/ aura[p] = NoVehicle
  PROVE  JoinTypeOK' /\ (\A e \in Event : Coherent(e)') /\ RideInv' /\ PlaceInv'
<1>1. /\ riding' = RidingWithout(L) /\ seats' = SeatsWithout(L) /\ pending' = PendingWithout(L)
      /\ aura' = [p \in Owner |-> IF p \in L THEN NoVehicle ELSE aura[p]]
  BY DEF RemoveAuras
<1>2. /\ JoinTypeOK /\ RideInv /\ PlaceInv /\ \A e \in Event : Coherent(e)
  BY DEF JInv, VInv
<1>3. /\ JoinsOf(L) \in SUBSET Running
      /\ \A e \in Event : e \in JoinsOf(L) <=> Live(e) /\ join[e].passenger \in L
  BY JoinsAreRunning
<1>4. \A e \in Event : abortState'[e] = IF e \in JoinsOf(L) THEN "scheduled" ELSE abortState[e]
  BY DEF Scheduled
<1>5. JoinTypeOK'
  BY <1>1, <1>2, WithoutTyped DEF JoinTypeOK
<1>6. RideInv'
  BY <1>1, <1>2, WithoutTyped DEF RideInv
<1>7. PlaceInv'
  <2>1. \A p \in Owner : Held(p)' = Held(p)
    BY DEF Held
  <2>2. IsJoin(hand.event) => abortState'[hand.event] # "running"
    BY <1>2, <1>4 DEF PlaceInv, IsJoin
  <2>3. QED
    BY <1>2, <2>1, <2>2 DEF PlaceInv, IsJoin
<1>8. ASSUME NEW e \in Event PROVE Coherent(e)'
  <2>1. CASE e \in JoinsOf(L)
    <3>1. ~Live(e)'
      BY <1>4, <2>1 DEF Live
    <3>2. \A v \in Vehicle : e \notin pending'[v]
      BY <1>1, <2>1, WithoutTyped
    <3>3. QED
      BY <3>1, <3>2, LeavesCoherent
  <2>2. CASE e \notin JoinsOf(L)
    <3>1. Live(e)' <=> Live(e)
      BY <1>4, <2>2 DEF Live, IsJoin
    <3>2. \A v \in Vehicle : e \in pending'[v] <=> e \in pending[v]
      BY <1>1, <2>2, WithoutTyped
    <3>3. Live(e) => join[e].passenger \in Owner \ L /\ aura[join[e].passenger] # NoVehicle
      BY <1>2, <1>3, <2>2, VehicleAssumption DEF Coherent, JoinTypeOK
    <3>4. Live(e) => /\ status'[join[e].passenger] = "in"
                     /\ aura'[join[e].passenger] = aura[join[e].passenger]
                     /\ riding'[join[e].passenger] = NoVehicle
      BY <1>1, <1>2, <3>3, WithoutTyped DEF Coherent
    <3>5. Coherent(e)
      BY <1>2
    <3>6. Live(e) => join[e].base \in kit'
      BY <3>5 DEF Coherent
    <3>7. QED
      BY <3>1, <3>2, <3>4, <3>5, <3>6, StaysCoherent
  <2>3. QED
    BY <2>1, <2>2
<1>9. QED
  BY <1>5, <1>6, <1>7, <1>8

LEMMA ExitingTyped ==
  ASSUME NEW L \in SUBSET Owner
  PROVE  Exiting(L) \in SUBSET Owner
BY DEF Exiting

(* Each step keeps the invariant, and is a step of the event queues. *)
LEMMA RemoveAuraStep ==
  ASSUME JInv, NEW p \in Owner, RemoveAura(p) \/ ExitVehicle(p) \/ Die(p)
  PROVE  EventNext /\ VInv'
<1>1. PICK L \in SUBSET Owner :
        /\ Callable /\ RemoveAuras(L) /\ ScheduleAborts(JoinsOf(L)) /\ UNCHANGED <<status, kit, join>>
  BY ExitingTyped DEF RemoveAura, ExitVehicle, Die, Free
<1>2. JoinsOf(L) \in SUBSET Running
  BY JoinsAreRunning
<1>3. Schedule(JoinsOf(L))
  BY <1>1, <1>2 DEF Schedule
<1>4. abortState' = Scheduled(JoinsOf(L)) /\ UNCHANGED <<events, hand, kill>>
  BY <1>1 DEF ScheduleAborts
<1>5. JoinTypeOK' /\ (\A e \in Event : Coherent(e)') /\ RideInv' /\ PlaceInv'
  BY <1>1, <1>4, RemoveAurasInv DEF JInv, VInv, JoinTypeOK
<1>6. ForceInv'
  BY <1>1, <1>4 DEF JInv, VInv, ForceInv
<1>7. EventNext
  BY <1>2, <1>3 DEF EventNext
<1>8. QED
  BY <1>5, <1>6, <1>7 DEF VInv

LEMMA AuraElsewhereTyped ==
  ASSUME NEW p \in Owner
  PROVE  AuraElsewhere(p) \in SUBSET Owner /\ (p \in AuraElsewhere(p) \/ aura[p] = NoVehicle)
BY DEF AuraElsewhere

LEMMA RemoveFromWorldStep ==
  ASSUME JInv, NEW p \in Owner, RemoveFromWorld(p)
  PROVE  EventNext /\ VInv'
<1> DEFINE L == AuraElsewhere(p)
<1>1. /\ Callable /\ RemoveAuras(L) /\ ScheduleAborts(JoinsOf(L)) /\ UNCHANGED <<kit, join>>
      /\ status[p] = "in" /\ status' = [status EXCEPT ![p] = "out"]
  BY DEF RemoveFromWorld, Free
<1>2. L \in SUBSET Owner /\ (p \in L \/ aura[p] = NoVehicle)
  BY AuraElsewhereTyped
<1> HIDE DEF L
<1>3. JoinsOf(L) \in SUBSET Running
  BY <1>2, JoinsAreRunning
<1>4. Schedule(JoinsOf(L))
  BY <1>1, <1>3 DEF Schedule
<1>5. abortState' = Scheduled(JoinsOf(L)) /\ UNCHANGED <<events, hand, kill>>
  BY <1>1 DEF ScheduleAborts
<1>6. /\ status' \in [Owner -> {"in", "out", "removed", "gone"}]
      /\ \A q \in Owner : status'[q] = status[q] \/ q \in L \/ aura[q] = NoVehicle
  BY <1>1, <1>2 DEF JInv, VInv, JoinTypeOK
<1>7. JoinTypeOK' /\ (\A e \in Event : Coherent(e)') /\ RideInv' /\ PlaceInv'
  BY <1>1, <1>2, <1>5, <1>6, RemoveAurasInv
<1>8. ForceInv'
  BY <1>1, <1>5 DEF JInv, IInv, EventTypeOK, VInv, ForceInv, JoinTypeOK
<1>9. EventNext
  BY <1>3, <1>4 DEF EventNext
<1>10. QED
  BY <1>7, <1>8, <1>9 DEF VInv

LEMMA CleanupStep ==
  ASSUME JInv, NEW p \in Owner, CleanupBeforeRemoveFromMap(p)
  PROVE  EventNext /\ VInv'
<1> DEFINE L == AuraElsewhere(p)
<1>1. /\ Callable /\ kill = NoKill
      /\ RemoveAuras(L) /\ StartKill(p, FALSE, JoinsOf(L)) /\ UNCHANGED <<kit, join>>
      /\ status' = [status EXCEPT ![p] = "removed"]
  BY DEF CleanupBeforeRemoveFromMap, Free
<1>2. L \in SUBSET Owner /\ (p \in L \/ aura[p] = NoVehicle)
  BY AuraElsewhereTyped
<1> HIDE DEF L
<1>3. JoinsOf(L) \in SUBSET Running
  BY <1>2, JoinsAreRunning
<1>4. updating = NoOwner \/ hand.event # NoEvent
  BY <1>1 DEF Callable, NoKill
<1>5. BeginKill(p, FALSE, JoinsOf(L))
  BY <1>1, <1>3, <1>4 DEF BeginKill
<1>6. /\ abortState' = Scheduled(JoinsOf(L)) /\ UNCHANGED <<events, hand>>
      /\ kill'.force = FALSE
  BY <1>1 DEF StartKill, NoKill
<1>7. /\ status' \in [Owner -> {"in", "out", "removed", "gone"}]
      /\ \A q \in Owner : status'[q] = status[q] \/ q \in L \/ aura[q] = NoVehicle
  BY <1>1, <1>2 DEF JInv, VInv, JoinTypeOK
<1>8. JoinTypeOK' /\ (\A e \in Event : Coherent(e)') /\ RideInv' /\ PlaceInv'
  BY <1>1, <1>2, <1>6, <1>7, RemoveAurasInv
<1>9. ForceInv'
  BY <1>6 DEF ForceInv
<1>10. EventNext
  BY <1>3, <1>5 DEF EventNext
<1>11. QED
  BY <1>8, <1>9, <1>10 DEF VInv

(* Everybody leaves a vehicle, which may go itself. *)
LEMMA RemoveAllStep ==
  ASSUME JInv, NEW v \in Vehicle, RemoveAllPassengers(v) \/ RemoveVehicleKit(v)
  PROVE  EventNext /\ VInv'
<1> DEFINE L == On(v)
<1>1. /\ Callable /\ v \in kit /\ RemoveAll(v) /\ UNCHANGED status
      /\ kit' = kit \/ kit' = kit \ {v}
      /\ \/ join' = join
         \/ join' = [e \in Event |-> IF e \in pending[v] THEN [join[e] EXCEPT !.base = NoVehicle] ELSE join[e]]
  BY DEF RemoveAllPassengers, RemoveVehicleKit, Free
<1>2. /\ riding' = RidingWithout(L) /\ seats' = SeatsWithout(L)
      /\ pending' = [pending EXCEPT ![v] = {}]
      /\ aura' = [p \in Owner |-> IF aura[p] = v THEN NoVehicle ELSE aura[p]]
      /\ ScheduleAborts(pending[v])
  BY <1>1 DEF RemoveAll
<1>3. \A p \in Owner : p \in L <=> (aura[p] = v \/ \E s \in Seats[v] : seats[v][s] = p)
  BY DEF On
<1> HIDE DEF L
<1>4. /\ JoinTypeOK /\ RideInv /\ PlaceInv /\ ForceInv /\ \A e \in Event : Coherent(e)
  BY DEF JInv, VInv
<1>5. pending[v] \in SUBSET Running /\ \A e \in pending[v] : Live(e) /\ join[e].base = v
  BY <1>4 DEF JoinTypeOK, Coherent, Running, Live
<1>6. Schedule(pending[v])
  BY <1>1, <1>2, <1>5 DEF Schedule
<1>7. /\ \A e \in Event : abortState'[e] = IF e \in pending[v] THEN "scheduled" ELSE abortState[e]
      /\ UNCHANGED <<events, hand, kill>>
  BY <1>2 DEF ScheduleAborts, Scheduled
<1>8. /\ \A e \in Event : /\ e \notin pending[v] => join'[e] = join[e]
                          /\ join'[e].passenger = join[e].passenger
      /\ join' \in [Event -> Join]
  BY <1>1, <1>4 DEF JoinTypeOK, Join
<1>9. JoinTypeOK'
  BY <1>1, <1>2, <1>4, <1>8, WithoutTyped DEF JoinTypeOK
<1>10. RideInv'
  BY <1>1, <1>2, <1>3, <1>4, WithoutTyped DEF RideInv
<1>11. PlaceInv'
  <2>1. \A p \in Owner : Held(p)' = Held(p) /\ Held(p) \subseteq Event
    BY <1>7, HeldTyped DEF Held, JInv, IInv
  <2>2. IsJoin(hand.event) => abortState'[hand.event] # "running"
    BY <1>4, <1>7 DEF PlaceInv, IsJoin
  <2>3. QED
    BY <1>4, <1>7, <1>8, <2>1, <2>2 DEF PlaceInv, IsJoin
<1>12. ForceInv'
  BY <1>1, <1>4, <1>7 DEF ForceInv
<1>13. ASSUME NEW e \in Event PROVE Coherent(e)'
  <2>1. CASE e \in pending[v]
    <3>1. ~Live(e)'
      BY <1>7, <2>1 DEF Live
    <3>2. \A w \in Vehicle : e \notin pending'[w]
      BY <1>2, <1>4, <1>5, <2>1 DEF Coherent, JoinTypeOK
    <3>3. QED
      BY <3>1, <3>2, LeavesCoherent
  <2>2. CASE e \notin pending[v]
    <3>1. Coherent(e)
      BY <1>4
    <3>2. Live(e)' <=> Live(e)
      BY <1>7, <2>2 DEF Live, IsJoin
    <3>3. \A w \in Vehicle : e \in pending'[w] <=> e \in pending[w]
      BY <1>2, <1>4, <2>2 DEF JoinTypeOK
    <3>4. Live(e) => join[e].base # v /\ join[e].passenger \in Owner
      BY <2>2, <3>1 DEF Coherent
    <3>5. Live(e) => /\ join'[e] = join[e]
                     /\ status'[join[e].passenger] = "in"
                     /\ join[e].base \in kit'
                     /\ aura'[join[e].passenger] = aura[join[e].passenger]
                     /\ riding'[join[e].passenger] = NoVehicle
      BY <1>1, <1>2, <1>8, <2>2, <3>1, <3>4, WithoutTyped DEF Coherent
    <3>6. QED
      BY <3>1, <3>2, <3>3, <3>5, StaysCoherent
  <2>3. QED
    BY <2>1, <2>2
<1>14. EventNext
  BY <1>5, <1>6 DEF EventNext
<1>15. QED
  BY <1>9, <1>10, <1>11, <1>12, <1>13, <1>14 DEF VInv

(* The steps that touch no join: what the joins look at stays the same. *)
LEMMA QuietInv ==
  ASSUME JInv, UNCHANGED <<riding, aura, seats, pending, join, kit>>,
         status' \in [Owner -> {"in", "out", "removed", "gone"}],
         \A p \in Owner : status[p] = "in" => status'[p] = "in",
         \A e \in Event : IsJoin(e) => (abortState'[e] = "running" <=> abortState[e] = "running"),
         \A p \in Owner : \A e \in Held(p)' : IsJoin(e) => join[e].passenger = p,
         IsJoin(hand'.event) => abortState'[hand'.event] # "running"
  PROVE  JoinTypeOK' /\ (\A e \in Event : Coherent(e)') /\ RideInv' /\ PlaceInv'
<1>1. JoinTypeOK /\ RideInv /\ PlaceInv /\ \A e \in Event : Coherent(e)
  BY DEF JInv, VInv
<1>2. JoinTypeOK' /\ RideInv' /\ PlaceInv'
  BY <1>1 DEF JoinTypeOK, RideInv, PlaceInv, IsJoin
<1>3. ASSUME NEW e \in Event PROVE Coherent(e)'
  <2>1. Coherent(e) /\ (Live(e)' <=> Live(e))
    BY <1>1 DEF Live, IsJoin
  <2>2. QED
    BY <2>1, StaysCoherent DEF Coherent
<1>4. QED
  BY <1>2, <1>3

LEMMA LifeStep ==
  ASSUME JInv, NEW p \in Owner,
         Revive(p) \/ AddToWorld(p) \/ UnloadResetScript(p) \/ Destroy(p)
  PROVE  (EventNext \/ UNCHANGED eventVars) /\ VInv'
<1>1. /\ JoinTypeOK /\ PlaceInv /\ ForceInv /\ EventTypeOK
  BY DEF JInv, VInv, IInv
<1>2. UNCHANGED <<events, hand, riding, aura, seats, pending, join, kit>>
  BY DEF Revive, AddToWorld, UnloadResetScript, Destroy, vehicleVars, rideVars, eventVars, StartKill
<1>3. \A q \in Owner : Held(q)' = Held(q)
  BY <1>2 DEF Held
<1>4. CASE Revive(p) \/ AddToWorld(p)
  <2>1. /\ UNCHANGED eventVars
        /\ status' \in [Owner -> {"in", "out", "removed", "gone"}]
        /\ \A q \in Owner : status[q] = "in" => status'[q] = "in"
        /\ \A q \in Owner : status[q] = "gone" /\ kill.owner = q => status'[q] = "gone"
    BY <1>1, <1>4 DEF Revive, AddToWorld, JoinTypeOK
  <2>2. JoinTypeOK' /\ (\A e \in Event : Coherent(e)') /\ RideInv' /\ PlaceInv'
    BY <1>1, <1>2, <1>3, <2>1, QuietInv DEF eventVars, PlaceInv
  <2>3. ForceInv'
    BY <1>1, <2>1 DEF eventVars, ForceInv, EventTypeOK
  <2>4. QED
    BY <1>1, <2>1, <2>2, <2>3 DEF VInv
<1>5. ASSUME NEW force \in BOOLEAN, kill = NoKill, updating = NoOwner, StartKill(p, force, {}),
             status' \in [Owner -> {"in", "out", "removed", "gone"}],
             \A q \in Owner : status[q] = "in" => status'[q] = "in",
             force => status'[p] = "gone"
      PROVE  EventNext /\ VInv'
  <2>1. BeginKill(p, force, {})
    BY <1>5 DEF BeginKill
  <2>2. abortState' = abortState /\ kill'.owner = p /\ kill'.force = force
    BY <1>1, <1>5 DEF StartKill, Scheduled, NoKill, EventTypeOK
  <2>3. JoinTypeOK' /\ (\A e \in Event : Coherent(e)') /\ RideInv' /\ PlaceInv'
    BY <1>1, <1>2, <1>3, <1>5, <2>2, QuietInv DEF PlaceInv
  <2>4. ForceInv'
    BY <1>5, <2>2 DEF ForceInv
  <2>5. {} \in SUBSET Running
    OBVIOUS
  <2>6. EventNext
    BY <2>1, <2>5 DEF EventNext
  <2>7. QED
    BY <2>3, <2>4, <2>6 DEF VInv
<1>6. CASE UnloadResetScript(p)
  BY <1>1, <1>5, <1>6 DEF UnloadResetScript, vehicleVars, JoinTypeOK
<1>7. CASE Destroy(p)
  BY <1>1, <1>5, <1>7 DEF Destroy, JoinTypeOK
<1>8. QED
  BY <1>4, <1>6, <1>7

LEMMA CreateVehicleKitStep ==
  ASSUME JInv, NEW v \in Vehicle, CreateVehicleKit(v)
  PROVE  UNCHANGED eventVars /\ VInv'
<1>1. /\ v \notin kit /\ kit' = kit \cup {v}
      /\ seats' = [seats EXCEPT ![v] = [s \in Seats[v] |-> NoOwner]]
      /\ pending' = [pending EXCEPT ![v] = {}]
      /\ UNCHANGED <<eventVars, status, riding, aura, join>>
  BY DEF CreateVehicleKit
<1>2. JoinTypeOK /\ RideInv /\ PlaceInv /\ ForceInv /\ \A e \in Event : Coherent(e)
  BY DEF JInv, VInv
<1>3. JoinTypeOK'
  BY <1>1, <1>2 DEF JoinTypeOK
<1>4. RideInv' /\ ForceInv'
  BY <1>1, <1>2 DEF RideInv, ForceInv, eventVars
<1>5. PlaceInv'
  BY <1>1, <1>2 DEF PlaceInv, eventVars, Held, IsJoin
<1>6. pending' = pending
  BY <1>1, <1>2 DEF JoinTypeOK, Coherent
<1>7. ASSUME NEW e \in Event PROVE Coherent(e)'
  <2>1. Coherent(e) /\ (Live(e)' <=> Live(e))
    BY <1>1, <1>2 DEF Live, IsJoin, eventVars
  <2>2. QED
    BY <1>1, <1>6, <2>1, StaysCoherent DEF Coherent
<1>8. QED
  BY <1>1, <1>3, <1>4, <1>5, <1>7 DEF VInv

(* What the event queues do to the joins by themselves: nothing. *)
LEMMA QueueStepStep ==
  ASSUME JInv, NEW p \in Owner, QueueStep(p)
  PROVE  EventNext /\ VInv'
<1>1. JoinTypeOK /\ PlaceInv /\ ForceInv /\ EventTypeOK /\ LoopInv
  BY DEF JInv, VInv, IInv
<1>2. UNCHANGED <<status, riding, aura, seats, pending, join, kit>>
  BY DEF QueueStep, vehicleVars, rideVars
<1>3. SUFFICES /\ EventNext /\ ForceInv'
               /\ \A e \in Event : IsJoin(e) => (abortState'[e] = "running" <=> abortState[e] = "running")
               /\ \A q \in Owner : Held(q)' \subseteq Held(q)
               /\ IsJoin(hand'.event) => abortState'[hand'.event] # "running"
  <2>1. JoinTypeOK' /\ (\A e \in Event : Coherent(e)') /\ RideInv' /\ PlaceInv'
    BY <1>1, <1>2, <1>3, QuietInv DEF PlaceInv, JoinTypeOK
  <2>2. QED
    BY <1>3, <2>1 DEF VInv
<1>4. ASSUME NEW d \in 1 .. MaxOffset, BeginUpdate(p, d) PROVE EventNext
  BY <1>4, EventAssumption DEF EventNext, Offset
<1>5. CASE \/ \E d \in 1 .. MaxOffset : BeginUpdate(p, d)
           \/ EndUpdate(p) \/ EndKill(p)
  <2>1. /\ UNCHANGED <<events, abortState, hand>>
        /\ kill' = kill \/ kill' = NoKill
    BY <1>5 DEF BeginUpdate, EndUpdate, EndKill
  <2>2. EventNext
    BY <1>4, <1>5 DEF EventNext
  <2>3. ForceInv'
    BY <1>1, <1>2, <2>1 DEF ForceInv, NoKill
  <2>4. QED
    BY <1>1, <2>1, <2>2, <2>3 DEF Held, PlaceInv
<1>6. CASE Finish \/ FinishAbort
  <2>1. \A q \in Owner : Held(q)' \subseteq Held(q)
    BY <1>6, FinishInv DEF JInv
  <2>2. /\ hand' = NoHand /\ kill' = kill
        /\ abortState' = [abortState EXCEPT ![hand.event] = "none"]
    BY <1>6 DEF Finish, FinishAbort, Returns, Delete
  <2>3. ~IsJoin(hand'.event)
    BY <2>2, EventAssumption DEF NoHand, IsJoin
  <2>4. \A e \in Event : IsJoin(e) => (abortState'[e] = "running" <=> abortState[e] = "running")
    BY <1>1, <2>2 DEF PlaceInv, EventTypeOK
  <2>5. EventNext /\ ForceInv'
    BY <1>1, <1>2, <1>6, <2>2 DEF EventNext, ForceInv
  <2>6. QED
    BY <2>1, <2>3, <2>4, <2>5
<1>7. CASE Discard(p)
  <2>1. \A q \in Owner : Held(q)' \subseteq Held(q)
    BY <1>7, DiscardDeleteInv, DiscardRetryInv DEF JInv, Discard
  <2>2. /\ FirstIs(p, "aborted") /\ hand' = hand /\ hand = NoHand /\ kill = NoKill
        /\ \/ abortState' = [abortState EXCEPT ![Head(events[p])] = "none"]
           \/ abortState' = [abortState EXCEPT ![Head(events[p])] = "aborted"]
    BY <1>7 DEF Discard, Delete, Retry, FirstIs, Updating
  <2>3. \A e \in Event : abortState'[e] = "running" <=> abortState[e] = "running"
    BY <1>1, <2>2 DEF FirstIs, EventTypeOK
  <2>4. ~IsJoin(hand'.event)
    BY <2>2, EventAssumption DEF NoHand, IsJoin
  <2>5. kill' = NoKill
    <3>1. kill.owner # p
      BY <2>2, EventAssumption DEF NoKill
    <3>2. kill' = kill
      BY <1>7, <3>1 DEF Discard, Delete, Retry, Insert
    <3>3. QED
      BY <2>2, <3>2
  <2>6. EventNext /\ ForceInv'
    BY <1>7, <2>5 DEF EventNext, ForceInv, NoKill
  <2>7. QED
    BY <2>1, <2>3, <2>4, <2>6
<1>8. CASE KillDispose(p)
  <2>1. \A q \in Owner : Held(q)' \subseteq Held(q)
    BY <1>8, KillDisposeInv DEF JInv
  <2>2. /\ hand' = hand /\ kill'.owner = kill.owner /\ kill'.force = kill.force
        /\ abortState[Current(p)] = "aborted"
        /\ abortState' = abortState \/ abortState' = [abortState EXCEPT ![Current(p)] = "none"]
    BY <1>1, <1>8 DEF KillDispose, EventTypeOK
  <2>3. \A e \in Event : abortState'[e] = "running" <=> abortState[e] = "running"
    BY <1>1, <2>2 DEF EventTypeOK
  <2>4. IsJoin(hand'.event) => abortState'[hand'.event] # "running"
    BY <1>1, <2>2, <2>3 DEF PlaceInv, IsJoin
  <2>5. EventNext /\ ForceInv'
    BY <1>1, <1>2, <1>8, <2>2 DEF EventNext, ForceInv
  <2>6. QED
    BY <2>1, <2>3, <2>4, <2>5
<1>9. QED
  BY <1>5, <1>6, <1>7, <1>8 DEF QueueStep

LEMMA SpellStepStep ==
  ASSUME JInv, NEW p \in Owner, NEW x \in Spell, SpellStep(p, x)
  PROVE  EventNext /\ VInv'
<1>1. JoinTypeOK /\ PlaceInv /\ ForceInv /\ EventTypeOK /\ LoopInv /\ x \in Event
  BY EventAssumption DEF JInv, VInv, IInv, Spell
<1>2. UNCHANGED <<status, riding, aura, seats, pending, join, kit>>
  BY DEF SpellStep, vehicleVars, rideVars
<1>3. SUFFICES /\ EventNext
               /\ kill' = kill \/ (kill'.owner = kill.owner /\ kill'.force = kill.force)
               /\ \A e \in Event : IsJoin(e) => (abortState'[e] = "running" <=> abortState[e] = "running")
               /\ \A q \in Owner : Held(q)' \subseteq Held(q) \cup {x}
               /\ IsJoin(hand'.event) => abortState'[hand'.event] # "running"
  <2>1. \A q \in Owner : \A e \in Held(q)' : IsJoin(e) => join[e].passenger = q
    BY <1>1, <1>3 DEF PlaceInv, IsJoin
  <2>2. JoinTypeOK' /\ (\A e \in Event : Coherent(e)') /\ RideInv' /\ PlaceInv'
    BY <1>1, <1>2, <1>3, <2>1, QuietInv DEF JoinTypeOK
  <2>3. ForceInv'
    BY <1>1, <1>2, <1>3 DEF ForceInv
  <2>4. QED
    BY <1>3, <2>2, <2>3 DEF VInv
<1>4. {} \in SUBSET Running /\ {} \in SUBSET (Running \cup {x}) /\ Scheduled({}) = abortState
  BY <1>1 DEF Scheduled, EventTypeOK
<1>5. ~IsJoin(x)
  BY DEF IsJoin, Spell
<1>6. CASE Add(p, x, 1, {})
  <2>1. 1 \in Offset
    BY EventAssumption DEF Offset
  <2>2. \A q \in Owner : Held(q)' \subseteq Held(q) \cup {x}
    BY <1>1, <1>4, <1>6, <2>1, AddInv DEF JInv
  <2>3. /\ abortState' = [abortState EXCEPT ![x] = "running"] /\ hand' = hand
        /\ kill'.owner = kill.owner /\ kill'.force = kill.force
    BY <1>1, <1>4, <1>6 DEF Add, AddEvent, Insert, EventTypeOK
  <2>4. \A e \in Event : IsJoin(e) => abortState'[e] = abortState[e]
    BY <1>1, <1>5, <2>3 DEF EventTypeOK
  <2>5. EventNext
    BY <1>1, <1>4, <1>6, <2>1 DEF EventNext
  <2>6. QED
    BY <1>1, <2>2, <2>3, <2>4, <2>5 DEF PlaceInv, IsJoin
<1>7. CASE SetBusy(x) \/ ClearBusy(x)
  BY <1>1, <1>7 DEF SetBusy, ClearBusy, EventNext, Held, PlaceInv
<1>8. CASE Execute(p, {}) /\ x = Head(events[p])
  <2>1. FirstIs(p, "running") /\ Pop(p, "Execute", {})
    BY <1>8 DEF Execute
  <2>2. \A q \in Owner : Held(q)' \subseteq Held(q)
    BY <1>4, <2>1, PopInv DEF JInv
  <2>3. hand'.event = x /\ abortState' = abortState /\ kill' = kill
    BY <1>4, <1>8, <2>1 DEF Pop
  <2>4. EventNext
    BY <1>4, <1>8 DEF EventNext
  <2>5. QED
    BY <1>5, <2>2, <2>3, <2>4
<1>9. ASSUME updating = p, x = hand.event, NEW d \in Offset, Again(d)
      PROVE  /\ EventNext
             /\ kill' = kill
             /\ \A e \in Event : IsJoin(e) => (abortState'[e] = "running" <=> abortState[e] = "running")
             /\ \A q \in Owner : Held(q)' \subseteq Held(q) \cup {x}
             /\ IsJoin(hand'.event) => abortState'[hand'.event] # "running"
  <2>1. \A q \in Owner : Held(q)' \subseteq Held(q) \cup {x}
    BY <1>9, AgainInv DEF JInv
  <2>2. kill.owner # updating
    BY <1>9, EventAssumption DEF Again, Returns, NoKill
  <2>3. hand' = NoHand /\ abortState' = abortState /\ kill' = kill
    BY <1>9, <2>2 DEF Again, Returns, Insert
  <2>4. ~IsJoin(hand'.event)
    BY <2>3, EventAssumption DEF NoHand, IsJoin
  <2>5. EventNext
    BY <1>9 DEF EventNext
  <2>6. QED
    BY <2>1, <2>3, <2>4, <2>5
<1>10. CASE KillAbort(p, {}) /\ x = Current(p)
  <2>1. /\ abortState' = [e \in Event |-> IF e = x THEN "aborted" ELSE abortState[e]]
        /\ UNCHANGED <<events, hand>> /\ kill'.owner = kill.owner /\ kill'.force = kill.force
    BY <1>1, <1>4, <1>10 DEF KillAbort, CallAbort, EventTypeOK
  <2>2. \A e \in Event : IsJoin(e) => abortState'[e] = abortState[e]
    BY <1>5, <2>1
  <2>3. \A q \in Owner : Held(q)' = Held(q)
    BY <2>1 DEF Held
  <2>4. EventNext
    BY <1>4, <1>10 DEF EventNext
  <2>5. QED
    BY <1>1, <2>1, <2>2, <2>3, <2>4 DEF PlaceInv, IsJoin
<1>11. QED
  BY <1>6, <1>7, <1>8, <1>9, <1>10 DEF SpellStep

-----------------------------------------------------------------------------
(* Boarding. *)

(* A set of numbers that is not empty has a least one. *)
LEMMA LeastSeat ==
  ASSUME NEW T \in SUBSET Nat, T # {}
  PROVE  Min(T) \in T
<1>1. PICK n \in T : TRUE
  OBVIOUS
<1> DEFINE below(m) == T \cap (0 .. m)
           W == {below(m) : m \in T \cap (0 .. n)}
           R == StrictSubsetOrdering(Nat)
<1>2. IsWellFoundedOn(R, FiniteSubsetsOf(Nat))
  BY FS_StrictSubsetOrderingWellFounded
<1>3. \A m \in Nat : IsFiniteSet(below(m)) /\ below(m) \in SUBSET Nat
  <2> SUFFICES ASSUME NEW m \in Nat PROVE IsFiniteSet(below(m)) /\ below(m) \in SUBSET Nat
    OBVIOUS
  <2>1. IsFiniteSet(0 .. m) /\ below(m) \in SUBSET (0 .. m) /\ below(m) \in SUBSET Nat
    BY FS_Interval
  <2> HIDE DEF below
  <2>2. QED
    BY <2>1, FS_Subset
<1>4. W \subseteq FiniteSubsetsOf(Nat) /\ W # {}
  <2>1. \A m \in T \cap (0 .. n) : below(m) \in FiniteSubsetsOf(Nat)
    BY <1>3 DEF FiniteSubsetsOf
  <2>2. n \in T \cap (0 .. n)
    BY <1>1
  <2> HIDE DEF below
  <2>3. QED
    BY <2>1, <2>2
<1> HIDE DEF W, R
<1>5. PICK A \in W : \A B \in W : ~(<<B, A>> \in R)
  BY <1>2, <1>4, WFMin
<1>6. PICK m \in T \cap (0 .. n) : A = below(m)
  BY DEF W
<1>7. \A k \in T : m <= k
  <2> SUFFICES ASSUME NEW k \in T, k < m PROVE FALSE
    OBVIOUS
  <2>1. k \in 0 .. n /\ m \in Nat /\ k \in Nat /\ m \in T
    BY <1>1, <1>6
  <2>2. below(k) \in W
    BY <2>1 DEF W
  <2>3. below(k) \subseteq below(m) /\ m \in below(m) /\ m \notin below(k)
    BY <2>1
  <2>4. <<below(k), below(m)>> \in R
    BY <2>3 DEF R, StrictSubsetOrdering
  <2>5. QED
    BY <1>5, <1>6, <2>2, <2>4
<1>8. QED
  BY <1>6, <1>7 DEF Min

LEMMA SeatForTyped ==
  ASSUME NEW v \in Vehicle, NEW s, NEW L, SeatFor(v, s, L) # {}
  PROVE  Min(SeatFor(v, s, L)) \in Seats[v]
<1>1. Seats[v] \in SUBSET Nat /\ UsableSeats[v] \in SUBSET Seats[v]
  BY VehicleAssumption
<1>2. SeatFor(v, s, L) \in SUBSET Seats[v]
  <2> DEFINE T == {x \in UsableSeats[v] : seats[v][x] = NoOwner \/ IsLeft(v, x, L)}
  <2>1. T \in SUBSET Nat /\ T \in SUBSET Seats[v]
    BY <1>1
  <2>2. T # {} => Min(T) \in T
    BY <2>1, LeastSeat
  <2>3. SeatFor(v, s, L) = IF s # AnySeat THEN Seats[v] \cap {s} ELSE IF T = {} THEN {} ELSE {Min(T)}
    BY DEF SeatFor
  <2> HIDE DEF T
  <2>4. QED
    BY <2>1, <2>2, <2>3
<1>3. QED
  BY <1>1, <1>2, LeastSeat

(* A new join: those of L, who leave for it, include its passenger. *)
LEMMA AddPassengerInv ==
  ASSUME JInv, NEW p \in Owner, NEW v \in kit, NEW s, NEW e \in Event, NEW L \in SUBSET Owner,
         Callable, IsJoin(e), status[p] = "in", p \in L \/ aura[p] = NoVehicle,
         AddPassenger(p, v, s, e, L)
  PROVE  EventNext /\ VInv'
<1> DEFINE all == L \cup Ejected(v, s, L)
           seat == SeatFor(v, s, L)
           S == JoinsOf(all) \cup (IF seat = {} THEN {e} ELSE {})
<1>1. JoinTypeOK /\ RideInv /\ PlaceInv /\ ForceInv /\ EventTypeOK /\ v \in Vehicle
  BY DEF JInv, VInv, IInv, JoinTypeOK
<1>2. /\ abortState[e] = "none"
      /\ AddEvent(p, e, 0, S)
      /\ join' = [join EXCEPT ![e] = [passenger |-> p, base |-> v,
                                      seat |-> IF seat = {} THEN AnySeat ELSE Min(seat)]]
      /\ riding' = RidingWithout(all) /\ seats' = SeatsWithout(all)
      /\ pending' = [PendingWithout(all) EXCEPT ![v] = IF seat = {} THEN @ ELSE @ \cup {e}]
      /\ aura' = [q \in Owner |-> IF q = p THEN v ELSE IF q \in all THEN NoVehicle ELSE aura[q]]
      /\ UNCHANGED <<status, kit>>
  BY DEF AddPassenger
<1>3. all \in SUBSET Owner /\ L \subseteq all
  <2>1. \A x \in Seats[v] : seats[v][x] \in Owner \cup {NoOwner}
    BY <1>1 DEF JoinTypeOK
  <2>2. Ejected(v, s, L) \in SUBSET Owner
    BY <2>1 DEF Ejected, Exiting
  <2>3. QED
    BY <2>2
<1>4. seat # {} => Min(seat) \in Seats[v]
  BY <1>1, SeatForTyped
<1> HIDE DEF all, seat
<1>5. /\ JoinsOf(all) \in SUBSET Running
      /\ \A x \in Event : x \in JoinsOf(all) <=> Live(x) /\ join[x].passenger \in all
  BY <1>3, JoinsAreRunning
<1>6. e \notin JoinsOf(all)
  BY <1>2, <1>5 DEF Running
<1>7. S \in SUBSET (Running \cup {e}) /\ S \ {e} \subseteq Running /\ (e \in S <=> seat = {})
      /\ \A x \in Event \ {e} : x \in S <=> x \in JoinsOf(all)
  BY <1>5, <1>6
<1> HIDE DEF S
<1>8. ~(kill.owner = p /\ kill.force)
  BY <1>1, EventAssumption DEF ForceInv
<1>9. 0 \in Offset
  BY EventAssumption DEF Offset
<1>10. Add(p, e, 0, S)
  BY <1>2, <1>7, <1>8 DEF Add
<1>11. EventNext
  BY <1>7, <1>9, <1>10 DEF EventNext
<1>12. \A q \in Owner : Held(q)' = IF q = p THEN Held(p) \cup {e} ELSE Held(q)
  BY <1>7, <1>9, <1>10, AddInv DEF JInv
<1>13. /\ hand' = hand /\ kill'.owner = kill.owner /\ kill'.force = kill.force
       /\ abortState'[e] = IF seat = {} THEN "scheduled" ELSE "running"
       /\ \A x \in Event \ {e} :
            abortState'[x] = IF x \in JoinsOf(all) THEN "scheduled" ELSE abortState[x]
  BY <1>1, <1>2, <1>7 DEF AddEvent, Insert, Scheduled, EventTypeOK
<1>14. \A q \in Owner : riding'[q] = IF q \in all THEN NoVehicle ELSE riding[q]
  BY <1>2, WithoutTyped
<1>15. riding'[p] = NoVehicle /\ (p \in all \/ aura[p] = NoVehicle)
  BY <1>1, <1>3, <1>14 DEF RideInv
<1>16. \A w \in Vehicle : pending'[w] = IF w = v /\ seat # {} THEN (pending[w] \ JoinsOf(all)) \cup {e}
                                        ELSE pending[w] \ JoinsOf(all)
  <2> DEFINE P == PendingWithout(all)
             n == IF seat = {} THEN P[v] ELSE P[v] \cup {e}
  <2>1. P \in [Vehicle -> SUBSET Event] /\ \A w \in Vehicle : P[w] = pending[w] \ JoinsOf(all)
    BY WithoutTyped
  <2>2. pending' = [P EXCEPT ![v] = n]
    BY <1>2
  <2>3. n = IF seat = {} THEN pending[v] \ JoinsOf(all) ELSE (pending[v] \ JoinsOf(all)) \cup {e}
    BY <1>1, <2>1
  <2> HIDE DEF P, n
  <2>4. \A w \in Vehicle : pending'[w] = IF w = v THEN n ELSE P[w]
    BY <1>1, <2>1, <2>2
  <2>5. QED
    BY <2>1, <2>3, <2>4
<1>17. /\ \A x \in Event \ {e} : join'[x] = join[x]
       /\ join'[e] = [passenger |-> p, base |-> v, seat |-> IF seat = {} THEN AnySeat ELSE Min(seat)]
  BY <1>1, <1>2 DEF JoinTypeOK
<1>18. JoinTypeOK'
  <2> DEFINE n == IF seat = {} THEN AnySeat ELSE Min(seat)
  <2>0. n \in SeatNumber
    <3>1. AnySeat \in SeatNumber /\ \A x \in Seats[v] : x \in SeatNumber
      BY <1>1 DEF SeatNumber
    <3>2. QED
      BY <1>4, <3>1
  <2>1. join'[e] \in Join
    <3>1. join'[e] = [passenger |-> p, base |-> v, seat |-> n]
      BY <1>17
    <3> HIDE DEF n
    <3>2. QED
      BY <1>1, <2>0, <3>1 DEF Join
  <2>2. join' \in [Event -> Join]
    BY <1>1, <1>2, <1>17, <2>1 DEF JoinTypeOK
  <2>3. pending' \in [Vehicle -> SUBSET Event]
    <3>1. DOMAIN pending' = Vehicle /\ pending' = [w \in Vehicle |-> pending'[w]]
      BY <1>2, WithoutTyped, ZenonT(30)
    <3>2. \A w \in Vehicle : pending'[w] \in SUBSET Event
      BY <1>1, <1>16, ZenonT(30) DEF JoinTypeOK
    <3>3. QED
      BY <3>1, <3>2
  <2>4. aura' \in [Owner -> Vehicle \cup {NoVehicle}]
    BY <1>1, <1>2 DEF JoinTypeOK
  <2>5. /\ riding' \in [Owner -> Vehicle \cup {NoVehicle}]
        /\ DOMAIN seats' = Vehicle
        /\ \A w \in Vehicle : seats'[w] \in [Seats[w] -> Owner \cup {NoOwner}]
    BY <1>2, WithoutTyped
  <2>6. QED
    BY <1>1, <1>2, <2>2, <2>3, <2>4, <2>5 DEF JoinTypeOK
<1>19. RideInv'
  BY <1>1, <1>2, <1>14, <1>15 DEF RideInv
<1>20. PlaceInv'
  <2>1. hand.event # e /\ \A q \in Owner : e \notin Held(q)
    BY <1>2 DEF JInv, IInv, AllocInv
  <2>2. \A q \in Owner : Held(q) \subseteq Event
    BY HeldTyped DEF JInv, IInv
  <2>3. \A q \in Owner : \A x \in Held(q)' : IsJoin(x) => join'[x].passenger = q
    BY <1>1, <1>12, <1>17, <2>1, <2>2 DEF PlaceInv
  <2>4. IsJoin(hand.event) => abortState'[hand.event] # "running"
    BY <1>1, <1>13, <2>1 DEF PlaceInv, IsJoin
  <2>5. QED
    BY <1>13, <2>3, <2>4 DEF PlaceInv, IsJoin
<1>21. ForceInv'
  BY <1>1, <1>2, <1>13 DEF ForceInv
<1>22. ASSUME NEW x \in Event PROVE Coherent(x)'
  <2>0. Coherent(x)
    BY DEF JInv, VInv
  <2>1. CASE x \in JoinsOf(all)
    <3>1. ~Live(x)'
      BY <1>6, <1>13, <2>1 DEF Live
    <3>2. \A w \in Vehicle : x \notin pending'[w]
      BY <1>6, <1>16, <2>1
    <3>3. QED
      BY <3>1, <3>2, LeavesCoherent
  <2>2. CASE x \notin JoinsOf(all) /\ x # e
    <3>1. Live(x)' <=> Live(x)
      BY <1>13, <2>2 DEF Live, IsJoin
    <3>2. \A w \in Vehicle : x \in pending'[w] <=> x \in pending[w]
      BY <1>16, <2>2
    <3>3. Live(x) => /\ join[x].passenger \in Owner \ all
                     /\ aura[join[x].passenger] # NoVehicle /\ join[x].base \in kit
      BY <1>1, <1>5, <2>0, <2>2, VehicleAssumption DEF Coherent, JoinTypeOK
    <3>4. Live(x) => join[x].passenger # p
      BY <1>15, <3>3
    <3>5. Live(x) => /\ join'[x] = join[x]
                     /\ status'[join[x].passenger] = "in"
                     /\ join[x].base \in kit'
                     /\ aura'[join[x].passenger] = aura[join[x].passenger]
                     /\ riding'[join[x].passenger] = NoVehicle
      BY <1>2, <1>14, <1>17, <2>0, <2>2, <3>3, <3>4 DEF Coherent
    <3>6. QED
      BY <2>0, <3>1, <3>2, <3>5, StaysCoherent
  <2>3. CASE x = e
    <3>1. \A w \in Vehicle : e \notin pending[w]
      BY <1>2, <2>0, <2>3 DEF Coherent, Live
    <3>2. CASE seat = {}
      <4>1. ~Live(e)' /\ \A w \in Vehicle : e \notin pending'[w]
        BY <1>13, <1>16, <3>1, <3>2 DEF Live
      <4>2. QED
        BY <2>3, <4>1, LeavesCoherent
    <3>3. CASE seat # {}
      <4>1. Live(e)'
        BY <1>13, <3>3 DEF Live, IsJoin
      <4>2. \A w \in Vehicle : e \in pending'[w] <=> w = v
        BY <1>16, <3>1, <3>3
      <4>3. /\ join'[e].passenger = p /\ join'[e].base = v /\ join'[e].seat \in Seats[v]
            /\ status'[p] = "in" /\ v \in kit' /\ aura'[p] = v /\ riding'[p] = NoVehicle
        BY <1>2, <1>4, <1>15, <1>17, <3>3
      <4>4. QED
        BY <2>3, <4>1, <4>2, <4>3 DEF Coherent
    <3>4. QED
      BY <3>2, <3>3
  <2>4. QED
    BY <2>1, <2>2, <2>3
<1>23. QED
  BY <1>11, <1>18, <1>19, <1>20, <1>21, <1>22 DEF VInv

LEMMA RideStep ==
  ASSUME JInv, NEW p \in Owner, NEW v \in Vehicle, NEW s \in SeatNumber, NEW e \in Event,
         Ride(p, v, s, e) \/ RideAgain(p, s, e) \/ ChangeSeat(p, s, e)
  PROVE  EventNext /\ VInv'
<1>1. CASE Ride(p, v, s, e)
  <2>1. PICK K \in SUBSET Owner : AddPassenger(p, v, s, e, K \cup {q \in {p} : aura[q] # NoVehicle})
    BY <1>1 DEF Ride
  <2> DEFINE L == K \cup {q \in {p} : aura[q] # NoVehicle}
  <2>2. L \in SUBSET Owner /\ (p \in L \/ aura[p] = NoVehicle)
    OBVIOUS
  <2>3. AddPassenger(p, v, s, e, L)
    BY <2>1
  <2> HIDE DEF L
  <2>4. Callable /\ IsJoin(e) /\ status[p] = "in" /\ v \in kit
    BY <1>1 DEF Ride, Free
  <2>5. QED
    BY <2>2, <2>3, <2>4, AddPassengerInv
<1>2. CASE RideAgain(p, s, e) \/ ChangeSeat(p, s, e)
  <2>1. aura[p] \in kit
    BY <1>2 DEF RideAgain, ChangeSeat, JInv, VInv, RideInv
  <2>2. AskAgain(p, s, e)
    BY <1>2 DEF RideAgain, ChangeSeat
  <2>3. /\ AddPassenger(p, aura[p], s, e, {p})
        /\ Callable /\ IsJoin(e) /\ status[p] = "in"
    BY <2>2 DEF AskAgain, Free
  <2>4. {p} \in SUBSET Owner /\ p \in {p}
    OBVIOUS
  <2>5. QED
    BY <2>1, <2>3, <2>4, AddPassengerInv
<1>3. QED
  BY <1>1, <1>2

-----------------------------------------------------------------------------
(* The callbacks of a join. *)

LEMMA FirstJoinHeld ==
  ASSUME JInv, NEW p \in Owner, FirstJoin(p)
  PROVE  LET e == Head(events[p])
         IN  /\ e \in Event /\ e \in Held(p) /\ IsJoin(e)
             /\ join[e].passenger = p
<1>1. events[p] # <<>> /\ IsJoin(Head(events[p]))
  BY DEF FirstJoin
<1>2. Head(events[p]) \in Event /\ Head(events[p]) \in Held(p)
  BY <1>1, HeadTaken DEF JInv
<1>3. QED
  BY <1>1, <1>2 DEF JInv, VInv, PlaceInv

(* The other joins that leave the list for a running one: all of its passenger. *)
LEMMA RivalsOf ==
  ASSUME JInv, NEW e \in Event, Live(e)
  PROVE  /\ Rivals(e) \in SUBSET Running /\ e \in Rivals(e)
         /\ \A x \in Rivals(e) : Live(x) /\ join[x].base = join[e].base
         /\ \A x \in Event : Live(x) /\ join[x].passenger = join[e].passenger => x \in Rivals(e)
<1>1. (\A x \in Event : Coherent(x)) /\ kit \subseteq Vehicle /\ pending \in [Vehicle -> SUBSET Event]
  BY DEF JInv, VInv, JoinTypeOK
<1> DEFINE v == join[e].base
<1>2. v \in Vehicle /\ e \in pending[v]
  BY <1>1 DEF Coherent
<1>3. \A x \in Rivals(e) : x \in Event /\ Live(x) /\ join[x].base = v
  BY <1>1, <1>2 DEF Coherent, Rivals
<1>4. ASSUME NEW x \in Event, Live(x), join[x].passenger = join[e].passenger PROVE x \in Rivals(e)
  <2>1. join[x].base = v
    BY <1>1, <1>4 DEF Coherent
  <2>2. QED
    BY <1>1, <1>2, <1>4, <2>1 DEF Coherent, Rivals
<1>5. e \in Rivals(e)
  BY <1>2 DEF Rivals
<1>6. QED
  BY <1>3, <1>4, <1>5 DEF Live, Running

LEMMA BoardStep ==
  ASSUME JInv, NEW p \in Owner, Board(p)
  PROVE  EventNext /\ VInv'
<1> DEFINE e == Head(events[p])
           v == join[e].base
           s == join[e].seat
           L == Exiting({p})
           R == Rivals(e)
<1>1. /\ FirstJoin(p) /\ FirstIs(p, "running") /\ Pop(p, "Execute", R)
      /\ pending' = [PendingWithout(L) EXCEPT ![v] = @ \ R]
      /\ riding' = [riding EXCEPT ![p] = v]
      /\ seats' = [SeatsWithout(L) EXCEPT ![v][s] = p]
      /\ aura' = [q \in Owner |-> IF q \in L THEN NoVehicle ELSE aura[q]]
      /\ UNCHANGED <<status, kit, join>>
  BY DEF Board
<1>2. JoinTypeOK /\ RideInv /\ PlaceInv /\ ForceInv /\ EventTypeOK /\ \A x \in Event : Coherent(x)
  BY DEF JInv, VInv, IInv
<1>3. e \in Event /\ Live(e) /\ join[e].passenger = p /\ IsJoin(e)
  BY <1>1, FirstJoinHeld DEF Live, FirstIs
<1>4. /\ v \in kit /\ v \in Vehicle /\ s \in Seats[v] /\ aura[p] = v /\ riding[p] = NoVehicle
      /\ status[p] = "in"
  BY <1>2, <1>3 DEF Coherent, JoinTypeOK
<1>5. /\ R \in SUBSET Running /\ e \in R
      /\ \A x \in R : Live(x) /\ join[x].base = v
      /\ \A x \in Event : Live(x) /\ join[x].passenger = p => x \in R
  BY <1>3, RivalsOf
<1>6. L = {}
  BY <1>4 DEF Exiting
<1>7. Execute(p, R)
  BY <1>1, <1>5 DEF Execute
<1>8. EventNext
  BY <1>5, <1>7 DEF EventNext
<1>9. \A q \in Owner : Held(q)' \subseteq Held(q)
  BY <1>1, <1>5, PopInv DEF JInv
<1>10. /\ hand'.event = e /\ kill' = kill
       /\ \A x \in Event : abortState'[x] = IF x \in R THEN "scheduled" ELSE abortState[x]
  BY <1>1 DEF Pop, Scheduled
<1> HIDE DEF e, v, s, L, R
<1>11. JoinsOf(L) = {}
  BY <1>6 DEF JoinsOf
<1>12. \A w \in Vehicle : pending'[w] = IF w = v THEN pending[w] \ R ELSE pending[w]
  <2> DEFINE P == PendingWithout(L)
  <2>1. P \in [Vehicle -> SUBSET Event] /\ \A w \in Vehicle : P[w] = pending[w]
    <3>1. P \in [Vehicle -> SUBSET Event] /\ \A w \in Vehicle : P[w] = pending[w] \ JoinsOf(L)
      BY WithoutTyped
    <3>2. \A w \in Vehicle : pending[w] \ {} = pending[w]
      BY <1>2 DEF JoinTypeOK
    <3> HIDE DEF P
    <3>3. QED
      BY <1>11, <3>1, <3>2
  <2>2. pending' = [P EXCEPT ![v] = P[v] \ R]
    BY <1>1
  <2> HIDE DEF P
  <2>3. QED
    BY <1>4, <2>1, <2>2
<1>13. JoinTypeOK'
  <2>1. pending' \in [Vehicle -> SUBSET Event]
    <3>1. DOMAIN pending' = Vehicle /\ pending' = [w \in Vehicle |-> pending'[w]]
      BY <1>1, WithoutTyped, ZenonT(30)
    <3>2. \A w \in Vehicle : pending'[w] \in SUBSET Event
      BY <1>2, <1>12 DEF JoinTypeOK
    <3>3. QED
      BY <3>1, <3>2
  <2>2. DOMAIN seats' = Vehicle /\ \A w \in Vehicle : seats'[w] \in [Seats[w] -> Owner \cup {NoOwner}]
    <3> DEFINE T == SeatsWithout(L)
    <3>1. DOMAIN T = Vehicle /\ \A w \in Vehicle : T[w] \in [Seats[w] -> Owner \cup {NoOwner}]
      BY WithoutTyped
    <3>2. [T[v] EXCEPT ![s] = p] \in [Seats[v] -> Owner \cup {NoOwner}]
      BY <1>4, <3>1
    <3>3. seats' = [T EXCEPT ![v] = [T[v] EXCEPT ![s] = p]]
      BY <1>1
    <3> HIDE DEF T
    <3>4. QED
      BY <3>1, <3>2, <3>3
  <2>3. riding' \in [Owner -> Vehicle \cup {NoVehicle}] /\ aura' \in [Owner -> Vehicle \cup {NoVehicle}]
    BY <1>1, <1>2, <1>4 DEF JoinTypeOK
  <2>4. QED
    BY <1>1, <1>2, <2>1, <2>2, <2>3 DEF JoinTypeOK
<1>14. /\ \A q \in Owner : aura'[q] = aura[q]
       /\ \A q \in Owner : riding'[q] = IF q = p THEN v ELSE riding[q]
  BY <1>1, <1>2, <1>6 DEF JoinTypeOK
<1>15. RideInv'
  BY <1>1, <1>2, <1>4, <1>14 DEF RideInv
<1>16. PlaceInv'
  BY <1>1, <1>2, <1>5, <1>9, <1>10 DEF PlaceInv, IsJoin
<1>17. ForceInv'
  BY <1>1, <1>2, <1>10 DEF ForceInv
<1>18. ASSUME NEW x \in Event PROVE Coherent(x)'
  <2>0. Coherent(x)
    BY <1>2
  <2>1. CASE x \in R
    <3>1. ~Live(x)'
      BY <1>10, <2>1 DEF Live
    <3>2. \A w \in Vehicle : x \notin pending'[w]
      BY <1>5, <1>12, <2>0, <2>1 DEF Coherent
    <3>3. QED
      BY <3>1, <3>2, LeavesCoherent
  <2>2. CASE x \notin R
    <3>1. Live(x)' <=> Live(x)
      BY <1>10, <2>2 DEF Live, IsJoin
    <3>2. \A w \in Vehicle : x \in pending'[w] <=> x \in pending[w]
      BY <1>12, <2>2
    <3>3. Live(x) => join[x].passenger # p /\ join[x].passenger \in Owner
      BY <1>5, <2>0, <2>2 DEF Coherent
    <3>4. Live(x) => /\ join'[x] = join[x]
                     /\ status'[join[x].passenger] = "in"
                     /\ join[x].base \in kit'
                     /\ aura'[join[x].passenger] = aura[join[x].passenger]
                     /\ riding'[join[x].passenger] = NoVehicle
      BY <1>1, <1>14, <2>0, <3>3 DEF Coherent
    <3>5. QED
      BY <2>0, <3>1, <3>2, <3>4, StaysCoherent
  <2>3. QED
    BY <2>1, <2>2
<1>19. QED
  BY <1>8, <1>13, <1>15, <1>16, <1>17, <1>18 DEF VInv

(* An abort of e, which takes the joins of S off the lists. *)
LEMMA AbortJoinInv ==
  ASSUME JInv, NEW p \in Owner, NEW e \in Event, IsJoin(e), join[e].passenger = p,
         NEW S \in SUBSET Running, AbortJoin(e, S),
         \A x \in S : Live(x),
         \A x \in Event : x # e /\ Live(x) /\ join[x].passenger \in AbortedAura(e) => x \in S,
         abortState'[e] # "running",
         \A x \in Event \ {e} : abortState'[x] = IF x \in S THEN "scheduled" ELSE abortState[x]
  PROVE  JoinTypeOK' /\ RideInv' /\ \A x \in Event : Coherent(x)'
<1> DEFINE L == AbortedAura(e)
           D == S \cup (IF join[e].base \in kit THEN {e} ELSE {})
<1>1. /\ riding' = RidingWithout(L) /\ seats' = SeatsWithout(L)
      /\ pending' = [v \in Vehicle |-> pending[v] \ D]
      /\ aura' = [q \in Owner |-> IF q \in L THEN NoVehicle ELSE aura[q]]
      /\ UNCHANGED <<status, kit, join>>
  BY DEF AbortJoin
<1>2. JoinTypeOK /\ RideInv /\ PlaceInv /\ ForceInv /\ EventTypeOK /\ \A x \in Event : Coherent(x)
  BY DEF JInv, VInv, IInv
<1>3. L \in SUBSET Owner
  BY DEF AbortedAura
<1> HIDE DEF L
<1>4. \A q \in Owner : riding'[q] = IF q \in L THEN NoVehicle ELSE riding[q]
  BY <1>1, WithoutTyped
<1>5. Live(e) => e \in D
  BY <1>2 DEF Coherent
<1>6. \A x \in Event \ {e} : x \in D <=> x \in S
  OBVIOUS
<1> HIDE DEF D
<1>7. JoinTypeOK'
  BY <1>1, <1>2, WithoutTyped DEF JoinTypeOK
<1>8. RideInv'
  BY <1>1, <1>2, <1>4 DEF RideInv
<1>9. ASSUME NEW x \in Event PROVE Coherent(x)'
  <2>0. Coherent(x)
    BY <1>2
  <2>1. CASE x = e \/ x \in S
    <3>1. ~Live(x)'
      BY <2>1 DEF Live
    <3>2. \A w \in Vehicle : x \notin pending'[w]
      BY <1>1, <1>5, <1>6, <2>0, <2>1 DEF Coherent
    <3>3. QED
      BY <3>1, <3>2, LeavesCoherent
  <2>2. CASE x # e /\ x \notin S
    <3>1. Live(x)' <=> Live(x)
      BY <2>2 DEF Live, IsJoin
    <3>2. \A w \in Vehicle : x \in pending'[w] <=> x \in pending[w]
      BY <1>1, <1>6, <2>2
    <3>3. Live(x) => join[x].passenger \in Owner \ L
      BY <2>0, <2>2 DEF Coherent, L
    <3>4. Live(x) => /\ join'[x] = join[x]
                     /\ status'[join[x].passenger] = "in"
                     /\ join[x].base \in kit'
                     /\ aura'[join[x].passenger] = aura[join[x].passenger]
                     /\ riding'[join[x].passenger] = NoVehicle
      BY <1>1, <1>4, <2>0, <3>3 DEF Coherent
    <3>5. QED
      BY <2>0, <3>1, <3>2, <3>4, StaysCoherent
  <2>3. QED
    BY <2>1, <2>2
<1>10. QED
  BY <1>7, <1>8, <1>9

LEMMA OtherJoinsTyped ==
  ASSUME JInv, NEW p \in Owner, NEW e \in Event, join[e].passenger = p
  PROVE  /\ AbortedAura(e) \in SUBSET Owner
         /\ OtherJoinsOf(e) \in SUBSET Running /\ e \notin OtherJoinsOf(e)
         /\ \A x \in OtherJoinsOf(e) : Live(x)
         /\ \A x \in Event : x # e /\ Live(x) /\ join[x].passenger \in AbortedAura(e) => x \in OtherJoinsOf(e)
<1>1. AbortedAura(e) \in SUBSET Owner
  BY DEF AbortedAura
<1>2. /\ JoinsOf(AbortedAura(e)) \in SUBSET Running
      /\ \A x \in Event : x \in JoinsOf(AbortedAura(e)) <=> Live(x) /\ join[x].passenger \in AbortedAura(e)
  BY <1>1, JoinsAreRunning
<1>3. QED
  BY <1>1, <1>2 DEF OtherJoinsOf, Running

LEMMA FindDeadStep ==
  ASSUME JInv, NEW p \in Owner, FindDead(p)
  PROVE  EventNext /\ VInv'
<1> DEFINE e == Head(events[p])
           R == Rivals(e)
<1>1. /\ FirstJoin(p) /\ FirstIs(p, "running") /\ Pop(p, "Execute", R) /\ AbortJoin(e, R)
  BY DEF FindDead
<1>2. PlaceInv /\ ForceInv
  BY DEF JInv, VInv
<1>3. e \in Event /\ Live(e) /\ join[e].passenger = p /\ IsJoin(e)
  BY <1>1, FirstJoinHeld DEF Live, FirstIs
<1>4. /\ R \in SUBSET Running /\ e \in R /\ \A x \in R : Live(x)
      /\ \A x \in Event : Live(x) /\ join[x].passenger = p => x \in R
  BY <1>3, RivalsOf
<1>5. EventNext
  BY <1>1, <1>4 DEF EventNext, Execute
<1>6. \A q \in Owner : Held(q)' \subseteq Held(q)
  BY <1>1, <1>4, PopInv DEF JInv
<1>7. /\ hand'.event = e /\ kill' = kill
      /\ \A x \in Event : abortState'[x] = IF x \in R THEN "scheduled" ELSE abortState[x]
  BY <1>1 DEF Pop, Scheduled
<1> HIDE DEF e, R
<1>8. \A x \in Event : x # e /\ Live(x) /\ join[x].passenger \in AbortedAura(e) => x \in R
  BY <1>3, <1>4 DEF AbortedAura
<1>9. JoinTypeOK' /\ RideInv' /\ \A x \in Event : Coherent(x)'
  BY <1>1, <1>3, <1>4, <1>7, <1>8, AbortJoinInv
<1>10. UNCHANGED <<status, join>>
  BY <1>1 DEF AbortJoin
<1>11. PlaceInv' /\ ForceInv'
  BY <1>2, <1>3, <1>4, <1>6, <1>7, <1>10 DEF PlaceInv, ForceInv, IsJoin
<1>12. QED
  BY <1>5, <1>9, <1>11 DEF VInv

LEMMA AbortFirstStep ==
  ASSUME JInv, NEW p \in Owner, AbortFirst(p)
  PROVE  EventNext /\ VInv'
<1> DEFINE e == Head(events[p])
           R == OtherJoinsOf(e)
<1>1. /\ FirstJoin(p) /\ FirstIs(p, "scheduled") /\ Pop(p, "Abort", R) /\ AbortJoin(e, R)
  BY DEF AbortFirst
<1>2. PlaceInv /\ ForceInv
  BY DEF JInv, VInv
<1>3. e \in Event /\ abortState[e] = "scheduled" /\ join[e].passenger = p /\ IsJoin(e)
  BY <1>1, FirstJoinHeld DEF FirstIs
<1>4. /\ R \in SUBSET Running /\ e \notin R /\ \A x \in R : Live(x)
      /\ \A x \in Event : x # e /\ Live(x) /\ join[x].passenger \in AbortedAura(e) => x \in R
  BY <1>3, OtherJoinsTyped
<1>5. EventNext
  BY <1>1, <1>4 DEF EventNext, Abort
<1>6. \A q \in Owner : Held(q)' \subseteq Held(q)
  BY <1>1, <1>4, PopInv DEF JInv
<1>7. /\ hand'.event = e /\ kill' = kill
      /\ \A x \in Event : abortState'[x] = IF x \in R THEN "scheduled" ELSE abortState[x]
  BY <1>1 DEF Pop, Scheduled
<1> HIDE DEF e, R
<1>8. abortState'[e] = "scheduled"
  BY <1>3, <1>4, <1>7
<1>9. JoinTypeOK' /\ RideInv' /\ \A x \in Event : Coherent(x)'
  BY <1>1, <1>3, <1>4, <1>7, <1>8, AbortJoinInv
<1>10. UNCHANGED <<status, join>>
  BY <1>1 DEF AbortJoin
<1>11. PlaceInv' /\ ForceInv'
  BY <1>2, <1>6, <1>7, <1>8, <1>10 DEF PlaceInv, ForceInv, IsJoin
<1>12. QED
  BY <1>5, <1>9, <1>11 DEF VInv

LEMMA KillJoinStep ==
  ASSUME JInv, NEW p \in Owner, KillJoin(p)
  PROVE  EventNext /\ VInv'
<1> DEFINE e == Current(p)
           R == OtherJoinsOf(e)
<1>1. /\ Walking(p) /\ kill.event = NoEvent /\ IsJoin(e) /\ abortState[e] # "aborted"
      /\ CallAbort(p, R) /\ AbortJoin(e, R)
  BY DEF KillJoin
<1>2. PlaceInv /\ ForceInv /\ EventTypeOK
  BY DEF JInv, VInv, IInv
<1>3. e \in Event /\ e \in Held(p) /\ join[e].passenger = p
  BY <1>1, <1>2, CurrentTyped DEF JInv, PlaceInv
<1>4. /\ R \in SUBSET Running /\ e \notin R /\ \A x \in R : Live(x)
      /\ \A x \in Event : x # e /\ Live(x) /\ join[x].passenger \in AbortedAura(e) => x \in R
  BY <1>3, OtherJoinsTyped
<1>5. KillAbort(p, R)
  BY <1>1, <1>4 DEF KillAbort
<1>6. EventNext
  BY <1>4, <1>5 DEF EventNext
<1>7. /\ UNCHANGED <<events, hand>> /\ kill'.owner = kill.owner /\ kill'.force = kill.force
      /\ abortState'[e] = "aborted"
      /\ \A x \in Event \ {e} : abortState'[x] = IF x \in R THEN "scheduled" ELSE abortState[x]
  BY <1>1, <1>2, <1>3, <1>4 DEF CallAbort, Scheduled, EventTypeOK
<1>8. \A q \in Owner : Held(q)' = Held(q)
  BY <1>7 DEF Held
<1> HIDE DEF e, R
<1>9. JoinTypeOK' /\ RideInv' /\ \A x \in Event : Coherent(x)'
  BY <1>1, <1>3, <1>4, <1>7, AbortJoinInv
<1>10. UNCHANGED <<status, join>>
  BY <1>1 DEF AbortJoin
<1>11. IsJoin(hand.event) => abortState'[hand.event] # "running"
  BY <1>2, <1>3, <1>7 DEF PlaceInv, IsJoin
<1>12. PlaceInv' /\ ForceInv'
  BY <1>2, <1>7, <1>8, <1>10, <1>11 DEF PlaceInv, ForceInv, IsJoin
<1>13. QED
  BY <1>6, <1>9, <1>12 DEF VInv

-----------------------------------------------------------------------------
(* The invariant in every behaviour, and what it implies. *)

LEMMA VehicleInit == Init => EventInit /\ JInv
<1> SUFFICES ASSUME Init PROVE EventInit /\ JInv
  OBVIOUS
<1>1. EventInit /\ IInv
  BY InitInv DEF Init
<1>2. /\ status = [p \in Owner |-> "gone"]
      /\ riding = [p \in Owner |-> NoVehicle] /\ aura = [p \in Owner |-> NoVehicle]
      /\ kit = {} /\ seats = [v \in Vehicle |-> [s \in Seats[v] |-> NoOwner]]
      /\ pending = [v \in Vehicle |-> {}]
      /\ join = [e \in Event |-> [passenger |-> NoOwner, base |-> NoVehicle, seat |-> AnySeat]]
  BY DEF Init
<1>3. /\ abortState = [e \in Event |-> "none"] /\ hand = NoHand /\ kill = NoKill
      /\ events = [o \in Owner |-> <<>>]
  BY <1>1 DEF EventInit
<1>4. AnySeat \in SeatNumber
  BY DEF SeatNumber
<1>5. JoinTypeOK
  BY <1>2, <1>4 DEF JoinTypeOK, Join
<1>6. (\A e \in Event : Coherent(e)) /\ RideInv
  BY <1>2, <1>3 DEF Coherent, Live, RideInv
<1>7. PlaceInv /\ ForceInv
  BY <1>3, EventAssumption DEF PlaceInv, ForceInv, Held, ToSet, NoHand, NoKill, IsJoin
<1>8. QED
  BY <1>1, <1>5, <1>6, <1>7 DEF JInv, VInv

LEMMA VehicleStep ==
  ASSUME JInv, [Next]_vars
  PROVE  [EventNext]_eventVars /\ JInv'
<1>1. SUFFICES [EventNext]_eventVars /\ VInv'
  BY <1>1, NextInv DEF JInv
<1>2. CASE UNCHANGED vars
  <2>1. UNCHANGED eventVars
    BY <1>2 DEF vars
  <2>2. \A e \in Event : Coherent(e)'
    BY <1>2, StaysCoherent DEF vars, eventVars, vehicleVars, rideVars, JInv, VInv, Coherent, Live, IsJoin
  <2>3. JoinTypeOK' /\ RideInv' /\ PlaceInv' /\ ForceInv'
    BY <1>2
    DEF vars, eventVars, vehicleVars, rideVars, JInv, VInv, JoinTypeOK, RideInv, PlaceInv, ForceInv,
        Held, IsJoin
  <2>4. QED
    BY <2>1, <2>2, <2>3 DEF VInv
<1>3. CASE Next
  <2>1. PICK p \in Owner :
          \/ \E v \in Vehicle, s \in SeatNumber, e \in Event : Ride(p, v, s, e)
          \/ \E s \in SeatNumber, e \in Event : RideAgain(p, s, e) \/ ChangeSeat(p, s, e)
          \/ RemoveAura(p) \/ ExitVehicle(p) \/ Die(p) \/ Revive(p)
          \/ \E v \in Vehicle : RemoveAllPassengers(v) \/ RemoveVehicleKit(v) \/ CreateVehicleKit(v)
          \/ Board(p) \/ FindDead(p) \/ AbortFirst(p) \/ KillJoin(p)
          \/ RemoveFromWorld(p) \/ AddToWorld(p) \/ CleanupBeforeRemoveFromMap(p)
          \/ UnloadResetScript(p) \/ Destroy(p)
          \/ QueueStep(p)
          \/ \E e \in Spell : SpellStep(p, e)
    BY <1>3 DEF Next
  <2>2. CASE \E v \in Vehicle, s \in SeatNumber, e \in Event : Ride(p, v, s, e)
    BY <2>2, RideStep
  <2>3. CASE \E s \in SeatNumber, e \in Event : RideAgain(p, s, e) \/ ChangeSeat(p, s, e)
    <3>1. PICK s \in SeatNumber, e \in Event : RideAgain(p, s, e) \/ ChangeSeat(p, s, e)
      BY <2>3
    <3>2. aura[p] \in Vehicle
      BY <3>1 DEF RideAgain, ChangeSeat, JInv, VInv, RideInv, JoinTypeOK
    <3>3. QED
      BY <3>1, <3>2, RideStep
  <2>4. CASE RemoveAura(p) \/ ExitVehicle(p) \/ Die(p)
    BY <2>4, RemoveAuraStep
  <2>5. CASE Revive(p) \/ AddToWorld(p) \/ UnloadResetScript(p) \/ Destroy(p)
    BY <2>5, LifeStep
  <2>6. CASE \E v \in Vehicle : RemoveAllPassengers(v) \/ RemoveVehicleKit(v) \/ CreateVehicleKit(v)
    BY <2>6, RemoveAllStep, CreateVehicleKitStep
  <2>7. CASE Board(p) \/ FindDead(p) \/ AbortFirst(p) \/ KillJoin(p)
    BY <2>7, BoardStep, FindDeadStep, AbortFirstStep, KillJoinStep
  <2>8. CASE RemoveFromWorld(p) \/ CleanupBeforeRemoveFromMap(p)
    BY <2>8, RemoveFromWorldStep, CleanupStep
  <2>9. CASE QueueStep(p)
    BY <2>9, QueueStepStep
  <2>10. CASE \E e \in Spell : SpellStep(p, e)
    BY <2>10, SpellStepStep
  <2>11. QED
    BY <2>1, <2>2, <2>3, <2>4, <2>5, <2>6, <2>7, <2>8, <2>9, <2>10
<1>4. QED
  BY <1>2, <1>3

(* The vehicle code calls the event queues only as they allow: an event     *)
(* whose abort it schedules, through the bare pointers of the pending list, *)
(* is there and neither aborted nor scheduled already, and no event is      *)
(* added twice.  With the theorems about EventSpec, joins are never lost,   *)
(* deleted twice or called after their abort.                               *)
THEOREM VehiclesUseEvents == Spec => UsesEvents
<1>1. Init => EventInit /\ JInv
  BY VehicleInit
<1>2. JInv /\ [Next]_vars => [EventNext]_eventVars /\ JInv'
  BY VehicleStep
<1>3. QED
  BY <1>1, <1>2, PTL DEF Spec, UsesEvents, EventSpec

(* The joins of Vehicle.cpp and the calls of Unit.cpp keep the invariant in *)
(* any order.                                                               *)
THEOREM VehicleInvariance == Spec => []JInv
<1>1. Init => JInv
  BY VehicleInit
<1>2. JInv /\ [Next]_vars => JInv'
  BY VehicleStep
<1>3. QED
  BY <1>1, <1>2, PTL DEF Spec

(* What VehicleJoinEvent::Execute asserts holds for every join that is still *)
(* to be executed, and the pending lists hold exactly these joins.           *)
THEOREM JoinsExecute == Spec => []JoinsCanExecute
<1>1. JInv => JoinsCanExecute
  <2> SUFFICES ASSUME JInv PROVE JoinsCanExecute
    OBVIOUS
  <2>1. (\A e \in Event : Coherent(e)) /\ pending \in [Vehicle -> SUBSET Event] /\ PlaceInv
        /\ kit \subseteq Vehicle /\ AllocInv
    BY DEF JInv, VInv, IInv, JoinTypeOK
  <2>2. ASSUME NEW e \in Event, IsJoin(e), abortState[e] = "running", e # hand.event
        PROVE  LET p == join[e].passenger
                   v == join[e].base
               IN  /\ status[p] = "in" /\ e \in Held(p)
                   /\ v \in kit /\ aura[p] = v /\ riding[p] = NoVehicle
                   /\ join[e].seat \in Seats[v]
                   /\ e \in pending[v]
    <3>1. PICK o \in Owner : e \in Held(o)
      BY <2>1, <2>2 DEF AllocInv
    <3>2. join[e].passenger = o
      BY <2>1, <2>2, <3>1 DEF PlaceInv
    <3>3. Live(e)
      BY <2>2 DEF Live
    <3>4. QED
      BY <2>1, <3>1, <3>2, <3>3 DEF Coherent
  <2>3. ASSUME NEW v \in Vehicle, NEW e \in pending[v]
        PROVE  abortState[e] = "running" /\ join[e].base = v
    BY <2>1 DEF Coherent, Live
  <2>4. QED
    BY <2>2, <2>3 DEF JoinsCanExecute
<1>2. QED
  BY <1>1, VehicleInvariance, PTL

-----------------------------------------------------------------------------
(***************************************************************************)
(* Seats and riders.  Who rides has one seat of the vehicle and is alive   *)
(* in the world, and who has a seat rides (SeatInv); the seat of a running *)
(* join stays free for it (FreeInv).  That an abort comes too late for the *)
(* seat needs the order of the queue: of the joins in the queue of a       *)
(* passenger only the last one can be running, and who rides has none      *)
(* (TurnInv).                                                              *)
(***************************************************************************)
Rider(p) ==
  riding[p] # NoVehicle => /\ status[p] = "in" /\ alive[p]
                           /\ \E s \in Seats[riding[p]] : seats[riding[p]][s] = p

Sitter(v, s) ==
  seats[v][s] # NoOwner => /\ riding[seats[v][s]] = v
                           /\ \A t \in Seats[v] : seats[v][t] = seats[v][s] => t = s

EmptySeats(v) == {s \in UsableSeats[v] : seats[v][s] = NoOwner}

SeatTypeOK ==
  /\ alive \in [Owner -> BOOLEAN] /\ usable \in [Vehicle -> Int]
  /\ seats = [v \in Vehicle |-> seats[v]]

SeatInv ==
  /\ \A p \in Owner : Rider(p)
  /\ \A v \in Vehicle : \A s \in Seats[v] : Sitter(v, s)
  /\ \A v \in Vehicle : usable[v] = Cardinality(EmptySeats(v))

FreeInv == \A e \in Event : Live(e) => seats[join[e].base][join[e].seat] = NoOwner

TurnInv ==
  \A p \in Owner :
    /\ \A e \in Held(p) : IsJoin(e) => due[e] = 0 /\ riding[p] = NoVehicle
    /\ \A i, j \in 1 .. Len(events[p]) :
         i < j /\ IsJoin(events[p][i]) /\ IsJoin(events[p][j]) => abortState[events[p][i]] # "running"

SInv == JInv /\ SeatTypeOK /\ SeatInv /\ FreeInv /\ TurnInv

(* What most steps do: L leave, no join begins to run, and no join changes *)
(* its place in a queue.                                                   *)
Leaves(L) ==
  /\ riding' = RidingWithout(L) /\ seats' = SeatsWithout(L) /\ usable' = UsableWithout(L)
  /\ alive' \in [Owner -> BOOLEAN]
  /\ \A p \in Owner \ L : riding[p] # NoVehicle => status'[p] = "in" /\ alive'[p]

NoneStarts == \A e \in Event : Live(e)' => Live(e) /\ join'[e] = join[e]

Kept(s, q) ==
  \A i, j \in 1 .. Len(s) : i < j /\ IsJoin(s[i]) /\ IsJoin(s[j]) =>
    \E k, l \in 1 .. Len(q) : k < l /\ q[k] = s[i] /\ q[l] = s[j]

Steady ==
  \A p \in Owner : /\ Kept(events'[p], events[p])
                   /\ \A e \in Held(p)' : IsJoin(e) => e \in Held(p) /\ due'[e] = 0

LEMMA SeatsTyped ==
  ASSUME JInv, NEW v \in Vehicle
  PROVE  /\ seats[v] \in [Seats[v] -> Owner \cup {NoOwner}] /\ NoOwner \notin Owner
         /\ UsableSeats[v] \subseteq Seats[v] /\ IsFiniteSet(UsableSeats[v])
         /\ IsFiniteSet(EmptySeats(v)) /\ Cardinality(EmptySeats(v)) \in Int
<1>1. /\ UsableSeats[v] \subseteq Seats[v] /\ IsFiniteSet(Seats[v]) /\ NoOwner \notin Owner
      /\ seats[v] \in [Seats[v] -> Owner \cup {NoOwner}]
  BY VehicleAssumption, EventAssumption DEF JInv, VInv, JoinTypeOK
<1>2. IsFiniteSet(UsableSeats[v])
  BY <1>1, FS_Subset
<1>3. EmptySeats(v) \in SUBSET UsableSeats[v]
  BY DEF EmptySeats
<1>4. IsFiniteSet(EmptySeats(v)) /\ Cardinality(EmptySeats(v)) \in Int
  BY <1>2, <1>3, FS_Subset, FS_CardinalityType
<1>5. QED
  BY <1>1, <1>2, <1>4

(* The seats of L are empty, those of the others are theirs. *)
LEMMA LeavingSeats ==
  ASSUME JInv, SeatInv, SeatTypeOK, NEW L \in SUBSET Owner, Leaves(L)
  PROVE  /\ SeatInv' /\ SeatTypeOK'
         /\ \A v \in Vehicle : \A s \in Seats[v] :
              seats'[v][s] = IF seats[v][s] \in L THEN NoOwner ELSE seats[v][s]
<1>1. \A v \in Vehicle : \A s \in Seats[v] :
        seats'[v][s] = IF seats[v][s] \in L THEN NoOwner ELSE seats[v][s]
  BY DEF Leaves, SeatsWithout, IsLeft
<1>2. \A p \in Owner : riding'[p] = IF p \in L THEN NoVehicle ELSE riding[p]
  BY DEF Leaves, RidingWithout
<1>a. \A p \in Owner : riding[p] \in Vehicle \cup {NoVehicle}
  BY DEF JInv, VInv, JoinTypeOK
<1>3. ASSUME NEW p \in Owner PROVE Rider(p)'
  <2>1. SUFFICES ASSUME riding'[p] # NoVehicle
                 PROVE  /\ status'[p] = "in" /\ alive'[p]
                        /\ \E s \in Seats[riding'[p]] : seats'[riding'[p]][s] = p
    BY DEF Rider
  <2>2. p \notin L /\ riding'[p] = riding[p] /\ riding[p] \in Vehicle
    BY <1>2, <1>a, <2>1
  <2>3. PICK s \in Seats[riding[p]] : seats[riding[p]][s] = p
    BY <2>1, <2>2 DEF SeatInv, Rider
  <2>4. seats'[riding[p]][s] = p
    BY <1>1, <2>2, <2>3
  <2>5. status'[p] = "in" /\ alive'[p]
    BY <2>1, <2>2 DEF Leaves
  <2>6. QED
    BY <2>2, <2>4, <2>5
<1>4. ASSUME NEW v \in Vehicle, NEW s \in Seats[v] PROVE Sitter(v, s)'
  <2>1. SUFFICES ASSUME seats'[v][s] # NoOwner
                 PROVE  /\ riding'[seats'[v][s]] = v
                        /\ \A t \in Seats[v] : seats'[v][t] = seats'[v][s] => t = s
    BY DEF Sitter
  <2>2. /\ seats[v][s] \notin L /\ seats'[v][s] = seats[v][s] /\ seats[v][s] # NoOwner
        /\ seats[v][s] \in Owner
    BY <1>1, <2>1, SeatsTyped
  <2>3. \A t \in Seats[v] : seats'[v][t] = seats[v][s] => seats[v][t] = seats[v][s]
    BY <1>1, <2>2
  <2>4. QED
    BY <1>2, <2>2, <2>3 DEF SeatInv, Sitter
<1>5. ASSUME NEW v \in Vehicle
      PROVE  usable'[v] = Cardinality(EmptySeats(v)') /\ usable'[v] \in Int
  <2> DEFINE left == {s \in UsableSeats[v] : IsLeft(v, s, L)}
  <2>1. usable'[v] = usable[v] + Cardinality(left)
    BY DEF Leaves, UsableWithout
  <2>2. /\ IsFiniteSet(UsableSeats[v]) /\ IsFiniteSet(EmptySeats(v)) /\ UsableSeats[v] \subseteq Seats[v]
        /\ NoOwner \notin L
    BY SeatsTyped
  <2>3. left \in SUBSET UsableSeats[v]
    OBVIOUS
  <2>4. IsFiniteSet(left)
    BY <2>2, <2>3, FS_Subset
  <2>5. EmptySeats(v) \cap left = {}
    BY <2>2 DEF EmptySeats, IsLeft
  <2>6. EmptySeats(v)' = EmptySeats(v) \cup left
    BY <1>1, <2>2 DEF EmptySeats, IsLeft
  <2> HIDE DEF left
  <2>7. /\ Cardinality(EmptySeats(v)) \in Int /\ Cardinality(left) \in Int
        /\ Cardinality(EmptySeats(v) \cup left) =
             Cardinality(EmptySeats(v)) + Cardinality(left) - Cardinality(EmptySeats(v) \cap left)
    BY <2>2, <2>4, FS_Union, FS_CardinalityType
  <2>8. Cardinality(EmptySeats(v) \cup left) = Cardinality(EmptySeats(v)) + Cardinality(left)
    BY <2>5, <2>7, FS_EmptySet
  <2>9. usable[v] = Cardinality(EmptySeats(v))
    BY DEF SeatInv
  <2>10. QED
    BY <2>1, <2>6, <2>7, <2>8, <2>9
<1>6. usable' \in [Vehicle -> Int]
  BY <1>5 DEF Leaves, UsableWithout
<1>7. seats' = [v \in Vehicle |-> seats'[v]]
  BY DEF Leaves, SeatsWithout
<1>8. QED
  BY <1>1, <1>3, <1>4, <1>5, <1>6, <1>7 DEF SeatInv, SeatTypeOK, Leaves

(* The joins that are left in a queue are in the same order. *)
LEMMA SteadyTurn ==
  ASSUME SInv, Steady, NoneStarts,
         \A p \in Owner : riding[p] = NoVehicle => riding'[p] = NoVehicle,
         events' \in [Owner -> Seq(Event)]
  PROVE  TurnInv'
<1>1. ASSUME NEW p \in Owner, NEW e \in Held(p)', IsJoin(e)
      PROVE  due'[e] = 0 /\ riding'[p] = NoVehicle
  BY <1>1 DEF SInv, TurnInv, Steady
<1>2. ASSUME NEW p \in Owner, NEW i \in 1 .. Len(events'[p]), NEW j \in 1 .. Len(events'[p]), i < j,
             IsJoin(events'[p][i]), IsJoin(events'[p][j])
      PROVE  abortState'[events'[p][i]] # "running"
  <2>1. PICK k \in 1 .. Len(events[p]), l \in 1 .. Len(events[p]) :
          k < l /\ events[p][k] = events'[p][i] /\ events[p][l] = events'[p][j]
    BY <1>2 DEF Steady, Kept
  <2>2. abortState[events'[p][i]] # "running"
    BY <1>2, <2>1 DEF SInv, TurnInv
  <2>3. events'[p][i] \in Event
    BY <1>2
  <2>4. QED
    BY <1>2, <2>2, <2>3 DEF NoneStarts, Live, IsJoin
<1>3. QED
  BY <1>1, <1>2 DEF TurnInv, IsJoin

LEMMA LeavingStep ==
  ASSUME SInv, JInv', NEW L \in SUBSET Owner, Leaves(L), NoneStarts, Steady
  PROVE  SInv'
<1>1. /\ SeatInv' /\ SeatTypeOK'
      /\ \A v \in Vehicle : \A s \in Seats[v] :
           seats'[v][s] = IF seats[v][s] \in L THEN NoOwner ELSE seats[v][s]
  BY LeavingSeats DEF SInv
<1>2. FreeInv'
  <2>1. SUFFICES ASSUME NEW e \in Event, Live(e)'
                 PROVE  seats'[join'[e].base][join'[e].seat] = NoOwner
    BY DEF FreeInv
  <2>2. Live(e) /\ join'[e] = join[e]
    BY <2>1 DEF NoneStarts
  <2>3. join[e].base \in Vehicle /\ join[e].seat \in Seats[join[e].base]
    BY <2>2 DEF SInv, JInv, VInv, JoinTypeOK, Coherent
  <2>4. seats[join[e].base][join[e].seat] = NoOwner
    BY <2>2 DEF SInv, FreeInv
  <2>5. QED
    BY <1>1, <2>2, <2>3, <2>4
<1>3. TurnInv'
  <2>1. \A p \in Owner : riding[p] = NoVehicle => riding'[p] = NoVehicle
    BY DEF Leaves, RidingWithout
  <2>2. events' \in [Owner -> Seq(Event)]
    BY DEF JInv, IInv, EventTypeOK
  <2>3. QED
    BY <2>1, <2>2, SteadyTurn
<1>4. QED
  BY <1>1, <1>2, <1>3 DEF SInv
(* What keeps the joins of a queue in their order. *)
LEMMA KeptSame ==
  ASSUME NEW q \in Seq(Event)
  PROVE  Kept(q, q)
BY DEF Kept

LEMMA KeptTail ==
  ASSUME NEW q \in Seq(Event), q # <<>>
  PROVE  Kept(Tail(q), q) /\ Tail(q) \in Seq(Event) /\ ToSet(Tail(q)) \subseteq ToSet(q)
<1>1. /\ Tail(q) \in Seq(Event) /\ Len(Tail(q)) = Len(q) - 1
      /\ \A j \in 1 .. Len(q) - 1 : Tail(q)[j] = q[j + 1]
  OBVIOUS
<1>2. ASSUME NEW i \in 1 .. Len(Tail(q)), NEW j \in 1 .. Len(Tail(q)), i < j
      PROVE  \E k, l \in 1 .. Len(q) : k < l /\ q[k] = Tail(q)[i] /\ q[l] = Tail(q)[j]
  <2>1. i + 1 \in 1 .. Len(q) /\ j + 1 \in 1 .. Len(q) /\ i + 1 < j + 1
    BY <1>1, <1>2
  <2>2. q[i + 1] = Tail(q)[i] /\ q[j + 1] = Tail(q)[j]
    BY <1>1
  <2>3. QED
    BY <2>1, <2>2
<1>3. ASSUME NEW x \in ToSet(Tail(q)) PROVE x \in ToSet(q)
  <2>1. PICK i \in 1 .. Len(Tail(q)) : Tail(q)[i] = x
    BY <1>1, Members
  <2>2. i + 1 \in 1 .. Len(q) /\ q[i + 1] = x
    BY <1>1, <2>1
  <2>3. QED
    BY <2>2, Members
<1>4. Kept(Tail(q), q)
  BY <1>2 DEF Kept
<1>5. QED
  BY <1>1, <1>3, <1>4

LEMMA KeptRemoved ==
  ASSUME NEW q \in Seq(Event), NEW n \in 1 .. Len(q)
  PROVE  Kept(RemoveAt(q, n), q) /\ ToSet(RemoveAt(q, n)) \subseteq ToSet(q)
<1> DEFINE r == RemoveAt(q, n)
           at(i) == IF i < n THEN i ELSE i + 1
<1>1. /\ r \in Seq(Event) /\ Len(r) = Len(q) - 1
      /\ \A j \in 1 .. n - 1 : r[j] = q[j]
      /\ \A j \in n .. Len(q) - 1 : r[j] = q[j + 1]
  BY RemoveAtEntries
<1> HIDE DEF r
<1>2. ASSUME NEW i \in 1 .. Len(r) PROVE at(i) \in 1 .. Len(q) /\ r[i] = q[at(i)]
  <2>1. CASE i < n
    BY <1>1, <2>1
  <2>2. CASE ~(i < n)
    <3>1. i \in n .. Len(q) - 1
      BY <1>1, <2>2
    <3>2. QED
      BY <1>1, <2>2, <3>1
  <2>3. QED
    BY <2>1, <2>2
<1>3. \A i, j \in 1 .. Len(r) : i < j => at(i) < at(j)
  BY <1>1
<1> HIDE DEF at
<1>4. Kept(r, q)
  BY <1>2, <1>3 DEF Kept
<1>5. ToSet(r) \subseteq ToSet(q)
  BY <1>1, <1>2, Members
<1>6. QED
  BY <1>4, <1>5 DEF r

(* An event that is no join goes somewhere into a queue. *)
LEMMA KeptInserted ==
  ASSUME NEW q \in Seq(Event), NEW s \in Seq(Event), Kept(s, q), NEW x \in Event, ~IsJoin(x),
         NEW n \in 1 .. Len(s) + 1
  PROVE  Kept(InsertAt(s, n, x), q) /\ ToSet(InsertAt(s, n, x)) \subseteq ToSet(s) \cup {x}
<1> DEFINE r == InsertAt(s, n, x)
           at(i) == IF i < n THEN i ELSE i - 1
<1>0. r \in Seq(Event)
  BY InsertAtEntries
<1>1. /\ r \in Seq(Event) /\ Len(r) = Len(s) + 1 /\ r[n] = x
      /\ \A j \in 1 .. n - 1 : r[j] = s[j]
      /\ \A j \in n + 1 .. Len(s) + 1 : r[j] = s[j - 1]
  BY <1>0, InsertAtEntries
<1> HIDE DEF r
<1>2. ASSUME NEW i \in 1 .. Len(r), i # n PROVE at(i) \in 1 .. Len(s) /\ r[i] = s[at(i)]
  <2>1. CASE i < n
    BY <1>1, <2>1
  <2>2. CASE ~(i < n)
    <3>1. i \in n + 1 .. Len(s) + 1
      BY <1>1, <1>2, <2>2
    <3>2. QED
      BY <1>1, <2>2, <3>1
  <2>3. QED
    BY <2>1, <2>2
<1>3. \A i, j \in 1 .. Len(r) : i < j /\ i # n /\ j # n => at(i) < at(j)
  BY <1>1
<1> HIDE DEF at
<1>4. Kept(r, q)
  <2>1. SUFFICES ASSUME NEW i \in 1 .. Len(r), NEW j \in 1 .. Len(r), i < j, IsJoin(r[i]), IsJoin(r[j])
                 PROVE  \E k, l \in 1 .. Len(q) : k < l /\ q[k] = r[i] /\ q[l] = r[j]
    BY DEF Kept
  <2>2. i # n /\ j # n
    BY <1>1, <2>1
  <2>3. at(i) \in 1 .. Len(s) /\ at(j) \in 1 .. Len(s) /\ at(i) < at(j) /\ r[i] = s[at(i)] /\ r[j] = s[at(j)]
    BY <1>2, <1>3, <2>1, <2>2
  <2>4. QED
    BY <2>1, <2>3 DEF Kept
<1>5. ToSet(r) \subseteq ToSet(s) \cup {x}
  BY <1>1, <1>2, Members
<1>6. QED
  BY <1>4, <1>5 DEF r

(* What that makes of a step on the queues. *)
LEMMA SteadySame ==
  ASSUME JInv, TurnInv, UNCHANGED <<events, due>>
  PROVE  Steady
<1>1. \A p \in Owner : events[p] \in Seq(Event) /\ Kept(events[p], events[p])
  BY KeptSame DEF JInv, IInv, EventTypeOK
<1>2. \A p \in Owner : Held(p)' = Held(p)
  BY DEF Held
<1>3. QED
  BY <1>1, <1>2 DEF Steady, TurnInv

LEMMA SteadyShorter ==
  ASSUME JInv, TurnInv, NEW o \in Owner, NEW s \in Seq(Event), Kept(s, events[o]), ToSet(s) \subseteq Held(o),
         events' = [events EXCEPT ![o] = s], UNCHANGED due
  PROVE  Steady
<1>1. \A p \in Owner : events[p] \in Seq(Event) /\ Kept(events[p], events[p])
  BY KeptSame DEF JInv, IInv, EventTypeOK
<1>2. \A p \in Owner : events'[p] = IF p = o THEN s ELSE events[p]
  BY DEF JInv, IInv, EventTypeOK
<1>3. \A p \in Owner : Kept(events'[p], events[p]) /\ Held(p)' \subseteq Held(p)
  BY <1>1, <1>2 DEF Held
<1>4. QED
  BY <1>3 DEF Steady, TurnInv

LEMMA SteadyInsert ==
  ASSUME JInv, TurnInv, NEW o \in Owner, NEW s \in Seq(Event), Kept(s, events[o]), ToSet(s) \subseteq Held(o),
         NEW x \in Event, ~IsJoin(x), NEW t, Insert(o, s, x, t)
  PROVE  Steady
<1>1. PICK i \in 1 .. Len(s) + 1 : /\ events' = [events EXCEPT ![o] = InsertAt(s, i, x)]
                                   /\ due' = [due EXCEPT ![x] = t]
  BY DEF Insert
<1>2. /\ Kept(InsertAt(s, i, x), events[o])
      /\ ToSet(InsertAt(s, i, x)) \subseteq ToSet(s) \cup {x}
  <2>1. events[o] \in Seq(Event)
    BY DEF JInv, IInv, EventTypeOK
  <2>2. QED
    BY <2>1, KeptInserted
<1>3. \A p \in Owner : events'[p] = IF p = o THEN InsertAt(s, i, x) ELSE events[p]
  BY <1>1 DEF JInv, IInv, EventTypeOK
<1>4. \A e \in Event : IsJoin(e) => due'[e] = due[e]
  BY <1>1 DEF JInv, IInv, EventTypeOK
<1>5. \A p \in Owner : events[p] \in Seq(Event) /\ Kept(events[p], events[p])
  BY KeptSame DEF JInv, IInv, EventTypeOK
<1>6. \A p \in Owner : Kept(events'[p], events[p]) /\ Held(p)' \subseteq Held(p) \cup {x}
  BY <1>2, <1>3, <1>5 DEF Held
<1>7. QED
  BY <1>4, <1>6 DEF Steady, TurnInv, IsJoin

LEMMA NobodyLeaves ==
  ASSUME JInv, SeatTypeOK
  PROVE  riding = RidingWithout({}) /\ seats = SeatsWithout({}) /\ usable = UsableWithout({})
<1>1. /\ riding \in [Owner -> Vehicle \cup {NoVehicle}]
      /\ DOMAIN seats = Vehicle /\ \A v \in Vehicle : seats[v] \in [Seats[v] -> Owner \cup {NoOwner}]
      /\ usable \in [Vehicle -> Int]
  BY DEF JInv, VInv, JoinTypeOK, SeatTypeOK
<1>2. riding = RidingWithout({})
  BY <1>1 DEF RidingWithout
<1>3. seats = SeatsWithout({})
  <2>1. seats = [v \in Vehicle |-> [s \in Seats[v] |-> seats[v][s]]]
    <3>1. \A v \in Vehicle : seats[v] = [s \in Seats[v] |-> seats[v][s]]
      BY <1>1
    <3>2. seats = [v \in Vehicle |-> seats[v]]
      BY DEF SeatTypeOK
    <3>3. QED
      BY <3>1, <3>2
  <2>2. QED
    BY <2>1 DEF SeatsWithout, IsLeft
<1>4. usable = UsableWithout({})
  <2>1. \A v \in Vehicle : {s \in UsableSeats[v] : IsLeft(v, s, {})} = {}
    BY DEF IsLeft
  <2>2. Cardinality({}) = 0
    BY FS_EmptySet
  <2>3. UsableWithout({}) = [v \in Vehicle |-> usable[v] + 0]
    BY <2>1, <2>2 DEF UsableWithout
  <2>4. \A v \in Vehicle : usable[v] + 0 = usable[v]
    BY <1>1
  <2>5. QED
    BY <1>1, <2>3, <2>4
<1>5. QED
  BY <1>2, <1>3, <1>4
(* Auras go, and the joins of those who had them are to be aborted. *)
LEMMA AurasSeats ==
  ASSUME SInv, JInv', NEW L \in SUBSET Owner, RemoveAuras(L), NEW S, abortState' = Scheduled(S),
         UNCHANGED <<events, due, join>>,
         alive' \in [Owner -> BOOLEAN],
         \A p \in Owner \ L : riding[p] # NoVehicle => status'[p] = status[p] /\ alive'[p] = alive[p]
  PROVE  SInv'
<1>1. Leaves(L)
  BY DEF Leaves, RemoveAuras, SInv, SeatInv, Rider
<1>2. NoneStarts
  BY DEF NoneStarts, Live, IsJoin, Scheduled
<1>3. Steady
  BY SteadySame DEF SInv
<1>4. QED
  BY <1>1, <1>2, <1>3, LeavingStep

LEMMA AuraSeats ==
  ASSUME SInv, JInv', NEW p \in Owner,
         \/ RemoveAura(p) \/ ExitVehicle(p) \/ Die(p)
         \/ RemoveFromWorld(p) \/ CleanupBeforeRemoveFromMap(p)
  PROVE  SInv'
<1>1. alive \in [Owner -> BOOLEAN] /\ status \in [Owner -> {"in", "out", "removed", "gone"}]
  BY DEF SInv, SeatTypeOK, JInv, VInv, JoinTypeOK
<1>2. riding[p] # NoVehicle => p \in Exiting({p}) /\ p \in AuraElsewhere(p)
  BY DEF SInv, JInv, VInv, RideInv, Exiting, AuraElsewhere
<1>3. Exiting({p}) \in SUBSET Owner /\ AuraElsewhere(p) \in SUBSET Owner
  BY DEF Exiting, AuraElsewhere
<1>4. CASE RemoveAura(p)
  <2>1. RemoveAuras({p}) /\ ScheduleAborts(JoinsOf({p})) /\ UNCHANGED <<status, alive, join>>
    BY <1>4 DEF RemoveAura
  <2>2. QED
    BY <1>1, <2>1, AurasSeats DEF ScheduleAborts
<1>5. CASE ExitVehicle(p) \/ Die(p)
  <2>1. /\ RemoveAuras(Exiting({p})) /\ ScheduleAborts(JoinsOf(Exiting({p}))) /\ UNCHANGED <<status, join>>
        /\ alive' = alive \/ alive' = [alive EXCEPT ![p] = FALSE]
    BY <1>5 DEF ExitVehicle, Die
  <2>2. \A q \in Owner \ Exiting({p}) : riding[q] # NoVehicle => alive'[q] = alive[q]
    BY <1>1, <1>2, <2>1
  <2>3. alive' \in [Owner -> BOOLEAN]
    BY <1>1, <2>1
  <2>4. QED
    BY <1>3, <2>1, <2>2, <2>3, AurasSeats DEF ScheduleAborts
<1>6. CASE RemoveFromWorld(p)
  <2>1. /\ RemoveAuras(AuraElsewhere(p)) /\ ScheduleAborts(JoinsOf(AuraElsewhere(p)))
        /\ UNCHANGED <<alive, join>> /\ status' = [status EXCEPT ![p] = "out"]
    BY <1>6 DEF RemoveFromWorld
  <2>2. \A q \in Owner \ AuraElsewhere(p) : riding[q] # NoVehicle => status'[q] = status[q]
    BY <1>1, <1>2, <2>1
  <2>3. QED
    BY <1>1, <1>3, <2>1, <2>2, AurasSeats DEF ScheduleAborts
<1>7. CASE CleanupBeforeRemoveFromMap(p)
  <2>1. /\ RemoveAuras(AuraElsewhere(p)) /\ StartKill(p, FALSE, JoinsOf(AuraElsewhere(p)))
        /\ UNCHANGED <<alive, join>> /\ status' = [status EXCEPT ![p] = "removed"]
    BY <1>7 DEF CleanupBeforeRemoveFromMap
  <2>2. \A q \in Owner \ AuraElsewhere(p) : riding[q] # NoVehicle => status'[q] = status[q]
    BY <1>1, <1>2, <2>1
  <2>3. QED
    BY <1>1, <1>3, <2>1, <2>2, AurasSeats DEF StartKill
<1>8. QED
  BY <1>4, <1>5, <1>6, <1>7

LEMMA RemoveAllSeats ==
  ASSUME SInv, JInv', NEW v \in Vehicle, RemoveAllPassengers(v) \/ RemoveVehicleKit(v)
  PROVE  SInv'
<1>1. /\ riding' = RidingWithout(On(v)) /\ seats' = SeatsWithout(On(v)) /\ usable' = UsableWithout(On(v))
      /\ UNCHANGED <<status, alive, events, due>>
      /\ abortState' = Scheduled(pending[v])
      /\ \A e \in Event : e \notin pending[v] => join'[e] = join[e]
  BY DEF RemoveAllPassengers, RemoveVehicleKit, RemoveAll, ScheduleAborts
<1>2. On(v) \in SUBSET Owner
  BY DEF On
<1>3. Leaves(On(v))
  BY <1>1 DEF Leaves, SInv, SeatInv, SeatTypeOK, Rider
<1>4. NoneStarts
  BY <1>1 DEF NoneStarts, Live, IsJoin, Scheduled
<1>5. Steady
  BY <1>1, SteadySame DEF SInv
<1>6. QED
  BY <1>2, <1>3, <1>4, <1>5, LeavingStep

(* A step in which nobody leaves. *)
LEMMA NobodyLeavesStep ==
  ASSUME SInv, JInv', UNCHANGED <<riding, seats, usable>>, NoneStarts, Steady,
         alive' \in [Owner -> BOOLEAN],
         \A p \in Owner : riding[p] # NoVehicle => status'[p] = "in" /\ alive'[p]
  PROVE  SInv'
<1>1. riding' = RidingWithout({}) /\ seats' = SeatsWithout({}) /\ usable' = UsableWithout({})
  BY NobodyLeaves DEF SInv
<1>2. Leaves({}) /\ {} \in SUBSET Owner
  BY <1>1 DEF Leaves
<1>3. QED
  BY <1>2, LeavingStep

LEMMA LifeSeats ==
  ASSUME SInv, JInv', NEW p \in Owner, Revive(p) \/ AddToWorld(p) \/ UnloadResetScript(p) \/ Destroy(p)
  PROVE  SInv'
<1>1. alive \in [Owner -> BOOLEAN] /\ status \in [Owner -> {"in", "out", "removed", "gone"}]
  BY DEF SInv, SeatTypeOK, JInv, VInv, JoinTypeOK
<1>2. \A q \in Owner : riding[q] # NoVehicle => status[q] = "in" /\ alive[q]
  BY DEF SInv, SeatInv, Rider
<1>3. UNCHANGED <<riding, seats, usable, join, events, due>>
  BY DEF Revive, AddToWorld, UnloadResetScript, Destroy, vehicleVars, rideVars, eventVars, StartKill
<1>4. abortState' = abortState \/ abortState' = Scheduled({})
  BY DEF Revive, AddToWorld, UnloadResetScript, Destroy, eventVars, StartKill
<1>5. NoneStarts
  BY <1>3, <1>4 DEF NoneStarts, Live, IsJoin, Scheduled
<1>6. Steady
  BY <1>3, SteadySame DEF SInv
<1>7. /\ alive' = alive \/ alive' = [alive EXCEPT ![p] = TRUE]
         \/ alive' = [alive EXCEPT ![p] = alive[p] \/ status[p] = "gone"]
      /\ \/ status' = status \/ status' = [status EXCEPT ![p] = "in"]
         \/ status[p] = "removed" /\ status' = [status EXCEPT ![p] = "gone"]
  BY DEF Revive, AddToWorld, UnloadResetScript, Destroy, vehicleVars
<1>8. alive' \in [Owner -> BOOLEAN] /\ \A q \in Owner : alive[q] => alive'[q]
  <2>1. (alive[p] \/ status[p] = "gone") \in BOOLEAN
    OBVIOUS
  <2>2. alive' \in [Owner -> BOOLEAN]
    BY <1>1, <1>7, <2>1
  <2>3. ASSUME NEW q \in Owner, alive[q] PROVE alive'[q]
    BY <1>1, <1>7, <2>3
  <2>4. QED
    BY <2>2, <2>3
<1>9. \A q \in Owner : riding[q] # NoVehicle => status'[q] = "in"
  BY <1>1, <1>2, <1>7
<1>10. QED
  BY <1>2, <1>3, <1>5, <1>6, <1>8, <1>9, NobodyLeavesStep
LEMMA QueueSeats ==
  ASSUME SInv, JInv', NEW p \in Owner, QueueStep(p)
  PROVE  SInv'
<1>1. /\ JInv /\ TurnInv /\ EventTypeOK /\ alive \in [Owner -> BOOLEAN]
      /\ \A q \in Owner : riding[q] # NoVehicle => status[q] = "in" /\ alive[q]
  BY DEF SInv, JInv, IInv, SeatTypeOK, SeatInv, Rider
<1>2. UNCHANGED <<riding, seats, usable, join, status, alive>>
  BY DEF QueueStep, vehicleVars, rideVars
<1>3. SUFFICES Steady /\ \A e \in Event : abortState'[e] = "running" => abortState[e] = "running"
  <2>1. NoneStarts
    BY <1>2, <1>3 DEF NoneStarts, Live, IsJoin
  <2>2. QED
    BY <1>1, <1>2, <1>3, <2>1, NobodyLeavesStep
<1>4. \A e \in Event : [abortState EXCEPT ![e] = "none"] \in [Event -> AbortStates]
  BY <1>1 DEF EventTypeOK, AbortStates
<1>5. \A q \in Owner : events[q] \in Seq(Event) /\ Kept(events[q], events[q]) /\ ToSet(events[q]) \subseteq Held(q)
  BY <1>1, KeptSame DEF EventTypeOK, Held
<1>6. CASE \E d \in 1 .. MaxOffset : BeginUpdate(p, d)
  <2>1. PICK d \in 1 .. MaxOffset : BeginUpdate(p, d)
    BY <1>6
  <2>2. UNCHANGED <<events, abortState>>
    BY <2>1 DEF BeginUpdate
  <2>3. \A e \in Event : due[e] = 0 => due'[e] = 0
    BY <2>1, EventAssumption DEF BeginUpdate
  <2>4. \A q \in Owner : Held(q)' = Held(q) /\ Held(q) \subseteq Event
    BY <1>1, <2>2, HeldTyped DEF Held
  <2>5. Steady
    BY <1>1, <1>5, <2>2, <2>3, <2>4 DEF Steady, TurnInv
  <2>6. QED
    BY <2>2, <2>5
<1>7. CASE EndUpdate(p) \/ EndKill(p)
  BY <1>1, <1>7, SteadySame DEF EndUpdate, EndKill
<1>8. CASE updating = p /\ (Finish \/ FinishAbort)
  <2>1. /\ UNCHANGED due /\ abortState' = [abortState EXCEPT ![hand.event] = "none"]
        /\ events' = events \/ events' = [events EXCEPT ![p] = events[p]]
    BY <1>8 DEF Finish, FinishAbort, Delete
  <2>2. events' = [events EXCEPT ![p] = events[p]] \/ events' = events
    BY <2>1
  <2>3. Steady
    BY <1>1, <1>5, <2>1, <2>2, SteadySame, SteadyShorter
  <2>4. QED
    BY <1>1, <2>1, <2>3 DEF EventTypeOK
<1>9. CASE Discard(p)
  <2>1. events[p] # <<>> /\ FirstIs(p, "aborted")
    BY <1>9 DEF Discard, FirstIs
  <2>2. Kept(Tail(events[p]), events[p]) /\ Tail(events[p]) \in Seq(Event) /\ ToSet(Tail(events[p])) \subseteq Held(p)
    BY <1>5, <2>1, KeptTail DEF Held
  <2>3. CASE Delete(p, Tail(events[p]), Head(events[p]))
    <3>1. /\ events' = [events EXCEPT ![p] = Tail(events[p])] /\ UNCHANGED due
          /\ abortState' = [abortState EXCEPT ![Head(events[p])] = "none"]
      BY <2>3 DEF Delete
    <3>2. Steady
      BY <1>1, <2>2, <3>1, SteadyShorter
    <3>3. QED
      BY <1>1, <3>1, <3>2 DEF EventTypeOK
  <2>4. CASE Retry(p, Tail(events[p]), Head(events[p]))
    <3>1. /\ Insert(p, Tail(events[p]), Head(events[p]), 1) /\ Head(events[p]) \in busy
          /\ abortState' = [abortState EXCEPT ![Head(events[p])] = "aborted"]
      BY <2>4 DEF Retry
    <3>2. Head(events[p]) \in Event /\ ~IsJoin(Head(events[p]))
      BY <1>1, <3>1, EventAssumption DEF EventTypeOK, IsJoin, Spell
    <3>3. Steady
      BY <1>1, <2>2, <3>1, <3>2, SteadyInsert
    <3>4. QED
      BY <1>1, <3>1, <3>3 DEF EventTypeOK
  <2>5. QED
    BY <1>9, <2>3, <2>4 DEF Discard
<1>10. CASE KillDispose(p)
  <2>1. kill.passed + 1 \in 1 .. Len(events[p])
    BY <1>1, <1>10, CurrentTyped DEF KillDispose, JInv
  <2>2. Kept(RemoveAt(events[p], kill.passed + 1), events[p])
        /\ ToSet(RemoveAt(events[p], kill.passed + 1)) \subseteq Held(p)
    BY <1>5, <2>1, KeptRemoved DEF Held
  <2>3. RemoveAt(events[p], kill.passed + 1) \in Seq(Event)
    BY <1>5, <2>1, RemoveAtEntries
  <2>4. /\ UNCHANGED due
        /\ \/ /\ events' = [events EXCEPT ![p] = RemoveAt(events[p], kill.passed + 1)]
              /\ abortState' = [abortState EXCEPT ![Current(p)] = "none"]
           \/ UNCHANGED <<events, abortState>>
    BY <1>10 DEF KillDispose
  <2>5. Steady
    BY <1>1, <2>2, <2>3, <2>4, SteadySame, SteadyShorter
  <2>6. QED
    BY <1>1, <2>4, <2>5 DEF EventTypeOK
<1>11. QED
  BY <1>6, <1>7, <1>8, <1>9, <1>10 DEF QueueStep

LEMMA SpellSeats ==
  ASSUME SInv, JInv', NEW p \in Owner, NEW x \in Spell, SpellStep(p, x)
  PROVE  SInv'
<1>1. /\ JInv /\ TurnInv /\ EventTypeOK /\ alive \in [Owner -> BOOLEAN]
      /\ \A q \in Owner : riding[q] # NoVehicle => status[q] = "in" /\ alive[q]
  BY DEF SInv, JInv, IInv, SeatTypeOK, SeatInv, Rider
<1>2. UNCHANGED <<riding, seats, usable, join, status, alive>>
  BY DEF SpellStep, vehicleVars, rideVars
<1>3. x \in Event /\ ~IsJoin(x)
  BY EventAssumption DEF Spell, IsJoin
<1>4. SUFFICES Steady /\ \A e \in Event \ {x} : abortState'[e] = "running" => abortState[e] = "running"
  <2>1. NoneStarts
    BY <1>2, <1>3, <1>4 DEF NoneStarts, Live, IsJoin
  <2>2. QED
    BY <1>1, <1>2, <1>4, <2>1, NobodyLeavesStep
<1>5. \A q \in Owner : events[q] \in Seq(Event) /\ Kept(events[q], events[q]) /\ ToSet(events[q]) \subseteq Held(q)
  BY <1>1, KeptSame DEF EventTypeOK, Held
<1>6. \A e \in Event : Scheduled({})[e] = abortState[e]
  BY DEF Scheduled
<1>7. CASE Add(p, x, 1, {})
  <2>1. /\ abortState' = [Scheduled({}) EXCEPT ![x] = "running"]
        /\ Insert(p, events[p], x, 1)
    BY <1>7 DEF Add, AddEvent
  <2>2. Steady
    BY <1>1, <1>3, <1>5, <2>1, SteadyInsert
  <2>3. \A e \in Event \ {x} : abortState'[e] = abortState[e]
    BY <2>1 DEF Scheduled
  <2>4. QED
    BY <2>2, <2>3
<1>8. CASE SetBusy(x) \/ ClearBusy(x)
  BY <1>1, <1>8, SteadySame DEF SetBusy, ClearBusy
<1>9. CASE FirstIs(p, "running") /\ x = Head(events[p]) /\ Execute(p, {})
  <2>1. /\ events[p] # <<>> /\ events' = [events EXCEPT ![p] = Tail(events[p])] /\ UNCHANGED due
        /\ abortState' = Scheduled({})
    BY <1>9 DEF Execute, Pop, FirstIs
  <2>2. Kept(Tail(events[p]), events[p]) /\ Tail(events[p]) \in Seq(Event) /\ ToSet(Tail(events[p])) \subseteq Held(p)
    BY <1>5, <2>1, KeptTail DEF Held
  <2>3. Steady
    BY <1>1, <2>1, <2>2, SteadyShorter
  <2>4. QED
    BY <1>6, <2>1, <2>3
<1>10. CASE updating = p /\ x = hand.event /\ \E t \in Offset : Again(t)
  <2>1. PICK t \in Offset : Insert(p, events[p], x, t) /\ UNCHANGED abortState
    BY <1>10 DEF Again
  <2>2. Steady
    BY <1>1, <1>3, <1>5, <2>1, SteadyInsert
  <2>3. QED
    BY <2>1, <2>2
<1>11. CASE Walking(p) /\ x = Current(p) /\ KillAbort(p, {})
  <2>1. /\ UNCHANGED <<events, due>>
        /\ abortState' = [e \in Event |-> IF e = x /\ e \notin {} THEN "aborted" ELSE Scheduled({})[e]]
    BY <1>11 DEF KillAbort, CallAbort
  <2>2. Steady
    BY <1>1, <2>1, SteadySame
  <2>3. QED
    BY <1>6, <2>1, <2>2
<1>12. QED
  BY <1>7, <1>8, <1>9, <1>10, <1>11 DEF SpellStep
(* The aborts. *)
LEMMA AbortSeats ==
  ASSUME SInv, JInv', NEW p \in Owner, FindDead(p) \/ AbortFirst(p) \/ KillJoin(p)
  PROVE  SInv'
<1>1. PICK e, R : /\ e \in Event /\ AbortJoin(e, R) /\ join[e].passenger = p
                  /\ \A f \in Event : abortState'[f] = "running" => abortState[f] = "running"
                  /\ UNCHANGED due
                  /\ \/ events' = events
                     \/ events[p] # <<>> /\ events' = [events EXCEPT ![p] = Tail(events[p])]
  <2>1. CASE FindDead(p) \/ AbortFirst(p)
    <3>1. FirstJoin(p)
      BY <2>1 DEF FindDead, AbortFirst
    <3>2. Head(events[p]) \in Event /\ join[Head(events[p])].passenger = p /\ events[p] # <<>>
      BY <3>1, FirstJoinHeld DEF FirstJoin, SInv
    <3>3. PICK R : AbortJoin(Head(events[p]), R) /\ (Pop(p, "Execute", R) \/ Pop(p, "Abort", R))
      BY <2>1 DEF FindDead, AbortFirst
    <3>4. QED
      BY <3>2, <3>3 DEF Pop, Scheduled
  <2>2. CASE KillJoin(p)
    <3>1. Current(p) \in Event /\ join[Current(p)].passenger = p
      BY <2>2, CurrentTyped DEF KillJoin, SInv, JInv, VInv, PlaceInv
    <3>2. PICK R : AbortJoin(Current(p), R) /\ CallAbort(p, R)
      BY <2>2 DEF KillJoin
    <3>3. QED
      BY <3>1, <3>2 DEF CallAbort, Scheduled
  <2>3. QED
    BY <2>1, <2>2
<1>2. JInv /\ TurnInv /\ events \in [Owner -> Seq(Event)]
  BY DEF SInv, JInv, IInv, EventTypeOK
<1>3. /\ AbortedAura(e) \in SUBSET Owner
      /\ Leaves(AbortedAura(e))
  <2>1. AbortedAura(e) \in SUBSET Owner
    BY <1>1 DEF AbortedAura
  <2>2. /\ riding' = RidingWithout(AbortedAura(e)) /\ seats' = SeatsWithout(AbortedAura(e))
        /\ usable' = UsableWithout(AbortedAura(e)) /\ UNCHANGED <<status, alive>>
    BY <1>1 DEF AbortJoin
  <2>3. QED
    BY <2>1, <2>2 DEF Leaves, SInv, SeatTypeOK, SeatInv, Rider
<1>4. NoneStarts
  BY <1>1 DEF NoneStarts, Live, AbortJoin, IsJoin
<1>5. Steady
  <2>1. CASE events' = events
    BY <1>1, <1>2, <2>1, SteadySame
  <2>2. CASE events[p] # <<>> /\ events' = [events EXCEPT ![p] = Tail(events[p])]
    <3>1. events[p] \in Seq(Event)
      BY <1>2
    <3>2. Kept(Tail(events[p]), events[p]) /\ Tail(events[p]) \in Seq(Event) /\ ToSet(Tail(events[p])) \subseteq Held(p)
      BY <2>2, <3>1, KeptTail DEF Held
    <3>3. QED
      BY <1>1, <1>2, <2>2, <3>2, SteadyShorter
  <2>3. QED
    BY <1>1, <2>1, <2>2
<1>6. QED
  BY <1>3, <1>4, <1>5, LeavingStep

LEMMA CreateVehicleKitSeats ==
  ASSUME SInv, JInv', NEW v \in Vehicle, CreateVehicleKit(v)
  PROVE  SInv'
<1>1. /\ v \notin kit
      /\ seats' = [seats EXCEPT ![v] = [s \in Seats[v] |-> NoOwner]]
      /\ usable' = [usable EXCEPT ![v] = Cardinality(UsableSeats[v])]
      /\ UNCHANGED <<eventVars, status, alive, riding, join>>
  BY DEF CreateVehicleKit
<1>2. /\ JoinTypeOK /\ RideInv /\ SeatTypeOK /\ SeatInv /\ FreeInv /\ TurnInv
      /\ \A e \in Event : Coherent(e)
  BY DEF SInv, JInv, VInv
<1>3. /\ \A w \in Vehicle \ {v} : seats'[w] = seats[w] /\ usable'[w] = usable[w]
      /\ \A s \in Seats[v] : seats'[v][s] = NoOwner
      /\ usable'[v] = Cardinality(UsableSeats[v])
      /\ seats' = [w \in Vehicle |-> seats'[w]]
  BY <1>1, <1>2 DEF JoinTypeOK, SeatTypeOK
<1>4. \A p \in Owner : riding[p] # v
  BY <1>1, <1>2, VehicleAssumption DEF RideInv
<1>5. ASSUME NEW p \in Owner PROVE Rider(p)'
  <2>1. riding[p] # NoVehicle => riding[p] \in Vehicle \ {v}
    BY <1>2, <1>4 DEF JoinTypeOK
  <2>2. QED
    BY <1>1, <1>2, <1>3, <2>1 DEF SeatInv, Rider
<1>6. ASSUME NEW w \in Vehicle, NEW s \in Seats[w] PROVE Sitter(w, s)'
  <2>1. CASE w = v
    BY <1>3, <2>1 DEF Sitter
  <2>2. CASE w # v
    <3>1. Sitter(w, s)
      BY <1>2 DEF SeatInv
    <3>2. seats'[w] = seats[w] /\ riding' = riding
      BY <1>1, <1>3, <2>2
    <3>3. QED
      BY <3>1, <3>2 DEF Sitter
  <2>3. QED
    BY <2>1, <2>2
<1>7. ASSUME NEW w \in Vehicle PROVE usable'[w] = Cardinality(EmptySeats(w)') /\ usable'[w] \in Int
  <2>1. CASE w = v
    <3>1. UsableSeats[v] \subseteq Seats[v] /\ IsFiniteSet(UsableSeats[v])
      BY SeatsTyped DEF SInv
    <3>2. EmptySeats(v)' = UsableSeats[v]
      BY <1>3, <3>1 DEF EmptySeats
    <3>3. Cardinality(UsableSeats[v]) \in Int
      BY <3>1, FS_CardinalityType
    <3>4. QED
      BY <1>3, <2>1, <3>2, <3>3
  <2>2. CASE w # v
    <3>1. EmptySeats(w)' = EmptySeats(w)
      BY <1>3, <2>2 DEF EmptySeats
    <3>2. QED
      BY <1>2, <1>3, <2>2, <3>1 DEF SeatInv, SeatTypeOK
  <2>3. QED
    BY <2>1, <2>2
<1>8. FreeInv'
  <2>1. \A e \in Event : Live(e)' => Live(e) /\ join'[e] = join[e]
    BY <1>1 DEF Live, eventVars, IsJoin
  <2>2. \A e \in Event : Live(e) => join[e].base \in Vehicle \ {v}
    BY <1>1, <1>2 DEF Coherent, JoinTypeOK
  <2>3. QED
    BY <1>2, <1>3, <2>1, <2>2 DEF FreeInv
<1>9. TurnInv'
  BY <1>1, <1>2 DEF TurnInv, eventVars, Held, IsJoin
<1>10. usable' \in [Vehicle -> Int]
  BY <1>1, <1>2, <1>3, <1>7 DEF SeatTypeOK
<1>11. SeatTypeOK'
  BY <1>1, <1>2, <1>3, <1>10 DEF SeatTypeOK
<1>12. QED
  BY <1>5, <1>6, <1>7, <1>8, <1>9, <1>11 DEF SInv, SeatInv
(* The seat a new join gets is empty when those who leave for it are gone: *)
(* who sits in a seat that is asked for has the aura he is ejected by.     *)
LEMMA SeatIsFree ==
  ASSUME SInv, NEW v \in Vehicle, NEW s, NEW L \in SUBSET Owner, SeatFor(v, s, L) # {}
  PROVE  LET m == Min(SeatFor(v, s, L))
         IN  m \in Seats[v] /\ (seats[v][m] = NoOwner \/ seats[v][m] \in L \cup Ejected(v, s, L))
<1> DEFINE m == Min(SeatFor(v, s, L))
           empty == {x \in UsableSeats[v] : seats[v][x] = NoOwner \/ IsLeft(v, x, L)}
<1>1. Seats[v] \in SUBSET Nat /\ UsableSeats[v] \in SUBSET Seats[v] /\ NoVehicle # v
  BY VehicleAssumption
<1>2. \A x \in Seats[v] : seats[v][x] \in Owner \cup {NoOwner}
  BY DEF SInv, JInv, VInv, JoinTypeOK
<1>3. CASE s # AnySeat
  <2>1. SeatFor(v, s, L) = Seats[v] \cap {s} /\ SeatFor(v, s, L) \in SUBSET Nat
    BY <1>1, <1>3 DEF SeatFor
  <2>2. m \in SeatFor(v, s, L)
    BY <2>1, LeastSeat
  <2>3. m = s /\ s \in Seats[v]
    BY <2>1, <2>2
  <2>4. ASSUME seats[v][s] # NoOwner, seats[v][s] \notin L PROVE seats[v][s] \in Ejected(v, s, L)
    <3>1. seats[v][s] \in Owner /\ riding[seats[v][s]] = v
      BY <1>2, <2>3, <2>4 DEF SInv, SeatInv, Sitter
    <3>2. aura[seats[v][s]] = v
      BY <1>1, <3>1 DEF SInv, JInv, VInv, RideInv
    <3>3. seats[v][s] \in {seats[v][x] : x \in Seats[v] \cap {s}} \ (L \cup {NoOwner})
      BY <2>3, <2>4
    <3>4. QED
      BY <1>1, <3>1, <3>2, <3>3 DEF Ejected, Exiting
  <2>5. QED
    BY <2>3, <2>4
<1>4. CASE s = AnySeat
  <2>1. SeatFor(v, s, L) = IF empty = {} THEN {} ELSE {Min(empty)}
    BY <1>4 DEF SeatFor
  <2>2. empty \in SUBSET Nat /\ empty \in SUBSET Seats[v]
    BY <1>1
  <2>3. Min(empty) \in empty /\ SeatFor(v, s, L) = {Min(empty)}
    BY <2>1, <2>2, LeastSeat
  <2>4. {Min(empty)} \in SUBSET Nat
    BY <2>2, <2>3
  <2>5. m = Min(empty)
    BY <2>3, <2>4, LeastSeat
  <2>6. QED
    BY <2>2, <2>3, <2>5 DEF IsLeft
<1>5. QED
  BY <1>3, <1>4

(* A new join of p goes behind the ones p has, which are to be aborted. *)
LEMMA NewJoinTurn ==
  ASSUME SInv, NEW p \in Owner, NEW e \in Event, IsJoin(e), abortState[e] = "none",
         Insert(p, events[p], e, 0),
         \A q \in Owner : riding[q] = NoVehicle => riding'[q] = NoVehicle,
         riding'[p] = NoVehicle,
         \A x \in Event \ {e} : abortState'[x] = "running" => abortState[x] = "running",
         \A x \in Held(p) : IsJoin(x) => abortState'[x] # "running"
  PROVE  TurnInv'
<1>1. PICK n \in 1 .. Len(events[p]) + 1 :
        /\ PlaceOf(events[p], 0, n)
        /\ events' = [events EXCEPT ![p] = InsertAt(events[p], n, e)]
        /\ due' = [due EXCEPT ![e] = 0]
  BY DEF Insert
<1>2. TurnInv /\ EventTypeOK /\ events[p] \in Seq(Event) /\ \A q \in Owner : Held(q) \subseteq Event
  BY HeldTyped DEF SInv, JInv, IInv, EventTypeOK
<1> DEFINE s == events[p]
           r == InsertAt(s, n, e)
<1>3. /\ r \in Seq(Event) /\ Len(r) = Len(s) + 1 /\ r[n] = e
      /\ \A j \in 1 .. n - 1 : r[j] = s[j]
      /\ \A j \in n + 1 .. Len(s) + 1 : r[j] = s[j - 1]
  <2>1. s \in Seq(Event) /\ n \in 1 .. Len(s) + 1
    BY <1>2
  <2> HIDE DEF r, s
  <2>2. /\ InsertAt(s, n, e) \in Seq(Event)
        /\ Len(InsertAt(s, n, e)) = Len(s) + 1
        /\ \A j \in 1 .. n - 1 : InsertAt(s, n, e)[j] = s[j]
        /\ InsertAt(s, n, e)[n] = e
        /\ \A j \in n + 1 .. Len(s) + 1 : InsertAt(s, n, e)[j] = s[j - 1]
    BY <2>1, InsertAtEntries
  <2>3. QED
    BY <2>2 DEF r
<1>4. events'[p] = r /\ \A q \in Owner \ {p} : events'[q] = events[q]
  BY <1>1, <1>2 DEF EventTypeOK
<1>5. \A q \in Owner : e \notin Held(q)
  BY DEF SInv, JInv, IInv, AllocInv
<1>6. \A x \in Event : due'[x] = IF x = e THEN 0 ELSE due[x]
  BY <1>1, <1>2 DEF EventTypeOK
<1>7. \A j \in 1 .. Len(s) : s[j] \in Held(p) /\ s[j] \in Event
  BY <1>2, Members DEF Held
<1>8. \A j \in n .. Len(s) : ~IsJoin(s[j])
  <2>1. SUFFICES ASSUME NEW j \in n .. Len(s), IsJoin(s[j]) PROVE FALSE
    OBVIOUS
  <2>2. j \in 1 .. Len(s)
    BY <2>1
  <2>3. due[s[j]] = 0
    BY <1>2, <1>7, <2>1, <2>2 DEF TurnInv
  <2>4. due[s[j]] > 0
    BY <1>1, <2>1 DEF PlaceOf
  <2>5. QED
    BY <2>3, <2>4
<1> HIDE DEF r
<1>9. ASSUME NEW q \in Owner, NEW x \in Held(q)', IsJoin(x) PROVE due'[x] = 0 /\ riding'[q] = NoVehicle
  <2>1. CASE q # p
    <3>1. x \in Held(q)
      BY <1>4, <1>9, <2>1 DEF Held
    <3>2. QED
      BY <1>2, <1>5, <1>6, <1>9, <3>1 DEF TurnInv
  <2>2. CASE q = p
    <3>1. x \in ToSet(r)
      BY <1>4, <1>9, <2>2 DEF Held
    <3>2. PICK j \in 1 .. Len(r) : r[j] = x
      BY <1>3, <3>1, Members
    <3>3. x = e \/ x \in Held(p)
      <4>1. CASE j < n
        BY <1>3, <1>7, <3>2, <4>1
      <4>2. CASE j > n
        <5>1. j \in n + 1 .. Len(s) + 1 /\ j - 1 \in 1 .. Len(s)
          BY <1>3, <4>2
        <5>2. QED
          BY <1>3, <1>7, <3>2, <5>1
      <4>3. CASE j = n
        BY <1>3, <3>2, <4>3
      <4>4. n \in Nat /\ j \in Nat
        BY <1>2
      <4>5. QED
        BY <4>1, <4>2, <4>3, <4>4
    <3>4. QED
      BY <1>2, <1>6, <1>9, <2>2, <3>3 DEF TurnInv
  <2>3. QED
    BY <2>1, <2>2
<1>10. ASSUME NEW q \in Owner, NEW i \in 1 .. Len(events'[q]), NEW j \in 1 .. Len(events'[q]), i < j,
              IsJoin(events'[q][i]), IsJoin(events'[q][j])
       PROVE  abortState'[events'[q][i]] # "running"
  <2>1. CASE q # p
    <3>1. events'[q] = events[q] /\ events[q] \in Seq(Event)
      BY <1>2, <1>4, <2>1 DEF EventTypeOK
    <3>2. events[q][i] \in Held(q) /\ events[q][i] \in Event
      BY <1>10, <3>1, Members DEF Held
    <3>3. abortState[events[q][i]] # "running"
      BY <1>2, <1>10, <3>1 DEF TurnInv
    <3>4. QED
      BY <1>5, <3>1, <3>2, <3>3
  <2>2. CASE q = p
    <3>1. i \in 1 .. Len(r) /\ j \in 1 .. Len(r) /\ IsJoin(r[i]) /\ IsJoin(r[j])
      BY <1>4, <1>10, <2>2
    <3>2. ~(j > n)
      <4>1. SUFFICES ASSUME j > n PROVE FALSE
        OBVIOUS
      <4>2. j \in n + 1 .. Len(s) + 1 /\ j - 1 \in n .. Len(s)
        BY <1>3, <3>1, <4>1
      <4>3. QED
        BY <1>3, <1>8, <3>1, <4>2
    <3>3. i \in 1 .. n - 1 /\ i \in 1 .. Len(s)
      BY <1>2, <1>10, <3>1, <3>2
    <3>4. r[i] = s[i] /\ s[i] \in Held(p)
      BY <1>3, <1>7, <3>3
    <3>5. QED
      BY <1>4, <2>2, <3>1, <3>4
  <2>3. QED
    BY <2>1, <2>2
<1>11. QED
  BY <1>9, <1>10 DEF TurnInv, IsJoin
LEMMA AddPassengerSeats ==
  ASSUME SInv, JInv', NEW p \in Owner, NEW v \in kit, NEW s, NEW e \in Event, NEW L \in SUBSET Owner,
         IsJoin(e), p \in L \/ aura[p] = NoVehicle,
         AddPassenger(p, v, s, e, L)
  PROVE  SInv'
<1> DEFINE all == L \cup Ejected(v, s, L)
           seat == SeatFor(v, s, L)
           S == JoinsOf(all) \cup (IF seat = {} THEN {e} ELSE {})
<1>1. JInv /\ JoinTypeOK /\ RideInv /\ EventTypeOK /\ SeatInv /\ SeatTypeOK /\ FreeInv /\ v \in Vehicle
  BY DEF SInv, JInv, VInv, IInv, JoinTypeOK
<1>2. /\ abortState[e] = "none"
      /\ AddEvent(p, e, 0, S)
      /\ join' = [join EXCEPT ![e] = [passenger |-> p, base |-> v,
                                      seat |-> IF seat = {} THEN AnySeat ELSE Min(seat)]]
      /\ riding' = RidingWithout(all) /\ seats' = SeatsWithout(all) /\ usable' = UsableWithout(all)
      /\ UNCHANGED <<status, alive>>
  BY DEF AddPassenger
<1>3. all \in SUBSET Owner /\ L \subseteq all
  <2>1. \A x \in Seats[v] : seats[v][x] \in Owner \cup {NoOwner}
    BY <1>1 DEF JoinTypeOK
  <2>2. Ejected(v, s, L) \in SUBSET Owner
    BY <2>1 DEF Ejected, Exiting
  <2>3. QED
    BY <2>2
<1>4. seat # {} => Min(seat) \in Seats[v] /\ (seats[v][Min(seat)] = NoOwner \/ seats[v][Min(seat)] \in all)
  BY <1>1, SeatIsFree
<1> HIDE DEF all, seat
<1>5. \A x \in Event : x \in JoinsOf(all) <=> Live(x) /\ join[x].passenger \in all
  BY <1>1, <1>3, JoinsAreRunning
<1>6. /\ abortState'[e] = "running" => seat # {}
      /\ \A x \in Event \ {e} : abortState'[x] = "running" => abortState[x] = "running" /\ x \notin JoinsOf(all)
  BY <1>1, <1>2, <1>5 DEF AddEvent, Scheduled, EventTypeOK, Live
<1> HIDE DEF S
<1>7. Leaves(all)
  BY <1>1, <1>2 DEF Leaves, SeatTypeOK, SeatInv, Rider
<1>8. /\ SeatInv' /\ SeatTypeOK'
      /\ \A w \in Vehicle : \A x \in Seats[w] :
           seats'[w][x] = IF seats[w][x] \in all THEN NoOwner ELSE seats[w][x]
  BY <1>1, <1>3, <1>7, LeavingSeats
<1>9. \A q \in Owner : riding'[q] = IF q \in all THEN NoVehicle ELSE riding[q]
  BY <1>2 DEF RidingWithout
<1>10. FreeInv'
  <2>1. SUFFICES ASSUME NEW x \in Event, Live(x)'
                 PROVE  seats'[join'[x].base][join'[x].seat] = NoOwner
    BY DEF FreeInv
  <2>2. CASE x = e
    <3>1. seat # {} /\ join'[e] = [passenger |-> p, base |-> v, seat |-> Min(seat)]
      BY <1>1, <1>2, <1>6, <2>1, <2>2 DEF Live, JoinTypeOK
    <3>2. seats'[v][Min(seat)] = NoOwner
      BY <1>1, <1>4, <1>8, <3>1
    <3>3. QED
      BY <2>2, <3>1, <3>2
  <2>3. CASE x # e
    <3>1. Live(x) /\ join'[x] = join[x]
      BY <1>1, <1>2, <1>6, <2>1, <2>3 DEF Live, JoinTypeOK, IsJoin
    <3>2. join[x].base \in Vehicle /\ join[x].seat \in Seats[join[x].base]
      BY <1>1, <3>1 DEF JInv, VInv, JoinTypeOK, Coherent
    <3>3. seats[join[x].base][join[x].seat] = NoOwner
      BY <1>1, <3>1 DEF FreeInv
    <3>4. QED
      BY <1>8, <3>1, <3>2, <3>3
  <2>4. QED
    BY <2>2, <2>3
<1>11. TurnInv'
  <2>1. Insert(p, events[p], e, 0)
    BY <1>2 DEF AddEvent
  <2>2. riding'[p] = NoVehicle /\ \A q \in Owner : riding[q] = NoVehicle => riding'[q] = NoVehicle
    BY <1>1, <1>3, <1>9 DEF RideInv
  <2>3. ASSUME NEW x \in Held(p), IsJoin(x) PROVE abortState'[x] # "running"
    <3>1. SUFFICES ASSUME abortState'[x] = "running" PROVE FALSE
      OBVIOUS
    <3>2. x \in Event /\ x # e
      BY <1>2, <2>3 DEF SInv, JInv, IInv, AllocInv, IsJoin
    <3>3. Live(x) /\ x \notin JoinsOf(all)
      BY <1>6, <2>3, <3>1, <3>2 DEF Live
    <3>4. join[x].passenger = p
      BY <1>1, <2>3 DEF JInv, VInv, PlaceInv
    <3>5. Coherent(x)
      BY <1>1, <3>2 DEF JInv, VInv
    <3>6. aura[p] # NoVehicle
      BY <1>1, <3>3, <3>4, <3>5, VehicleAssumption DEF Coherent, JoinTypeOK
    <3>7. QED
      BY <1>3, <1>5, <3>2, <3>3, <3>4, <3>6
  <2>4. QED
    BY <1>2, <1>6, <2>1, <2>2, <2>3, NewJoinTurn
<1>12. QED
  BY <1>8, <1>10, <1>11 DEF SInv

LEMMA RideSeats ==
  ASSUME SInv, JInv', NEW p \in Owner, NEW v \in Vehicle, NEW s \in SeatNumber, NEW e \in Event,
         Ride(p, v, s, e) \/ RideAgain(p, s, e) \/ ChangeSeat(p, s, e)
  PROVE  SInv'
<1>1. CASE Ride(p, v, s, e)
  <2>1. PICK K \in SUBSET Owner : AddPassenger(p, v, s, e, K \cup {q \in {p} : aura[q] # NoVehicle})
    BY <1>1 DEF Ride
  <2> DEFINE L == K \cup {q \in {p} : aura[q] # NoVehicle}
  <2>2. L \in SUBSET Owner /\ (p \in L \/ aura[p] = NoVehicle)
    OBVIOUS
  <2>3. AddPassenger(p, v, s, e, L)
    BY <2>1
  <2> HIDE DEF L
  <2>4. IsJoin(e) /\ v \in kit
    BY <1>1 DEF Ride
  <2>5. QED
    BY <2>2, <2>3, <2>4, AddPassengerSeats
<1>2. CASE RideAgain(p, s, e) \/ ChangeSeat(p, s, e)
  <2>1. aura[p] \in kit
    BY <1>2 DEF RideAgain, ChangeSeat, SInv, JInv, VInv, RideInv
  <2>2. AskAgain(p, s, e)
    BY <1>2 DEF RideAgain, ChangeSeat
  <2>3. AddPassenger(p, aura[p], s, e, {p}) /\ IsJoin(e)
    BY <2>2 DEF AskAgain
  <2>4. {p} \in SUBSET Owner /\ p \in {p}
    OBVIOUS
  <2>5. QED
    BY <2>1, <2>3, <2>4, AddPassengerSeats
<1>3. QED
  BY <1>1, <1>2

(* The passenger takes the seat: it was free, the joins for it are to be    *)
(* aborted, and the passenger has no other join.                            *)
LEMMA BoardSeats ==
  ASSUME SInv, JInv', NEW p \in Owner, Board(p)
  PROVE  SInv'
<1> DEFINE e == Head(events[p])
           v == join[e].base
           s == join[e].seat
           L == Exiting({p})
           R == Rivals(e)
<1>1. /\ FirstJoin(p) /\ FirstIs(p, "running") /\ alive[p] /\ Pop(p, "Execute", R)
      /\ riding' = [riding EXCEPT ![p] = v]
      /\ seats' = [SeatsWithout(L) EXCEPT ![v][s] = p]
      /\ usable' = [UsableWithout(L) EXCEPT ![v] = IF s \in UsableSeats[v] THEN @ - 1 ELSE @]
      /\ UNCHANGED <<status, alive, join>>
  BY DEF Board
<1>2. /\ JInv /\ JoinTypeOK /\ RideInv /\ SeatTypeOK /\ SeatInv /\ FreeInv /\ TurnInv /\ EventTypeOK
      /\ \A x \in Event : Coherent(x)
  BY DEF SInv, JInv, VInv, IInv
<1>3. e \in Event /\ Live(e) /\ join[e].passenger = p /\ IsJoin(e) /\ events[p] # <<>>
  BY <1>1, <1>2, FirstJoinHeld DEF Live, FirstIs
<1>4. /\ v \in Vehicle /\ s \in Seats[v] /\ riding[p] = NoVehicle /\ status[p] = "in"
      /\ seats[v][s] = NoOwner
  BY <1>2, <1>3 DEF Coherent, JoinTypeOK, FreeInv
<1>5. L = {}
  BY <1>4 DEF Exiting
<1>6. \A x \in Event : Live(x) /\ join[x].base = v /\ join[x].seat = s => x \in R
  BY <1>2, <1>4 DEF Coherent, Rivals
<1>7. /\ events' = [events EXCEPT ![p] = Tail(events[p])] /\ UNCHANGED due
      /\ \A x \in Event : abortState'[x] = IF x \in R THEN "scheduled" ELSE abortState[x]
  BY <1>1 DEF Pop, Scheduled
<1>8. \A j \in 2 .. Len(events[p]) : ~IsJoin(events[p][j])
  <2>1. events[p] \in Seq(Event) /\ events[p][1] = e /\ abortState[e] = "running"
    BY <1>2, <1>3 DEF EventTypeOK, Live
  <2>2. SUFFICES ASSUME NEW j \in 2 .. Len(events[p]), IsJoin(events[p][j]) PROVE FALSE
    OBVIOUS
  <2>3. 1 \in 1 .. Len(events[p]) /\ j \in 1 .. Len(events[p]) /\ 1 < j
    BY <2>1
  <2>4. QED
    BY <1>2, <1>3, <2>1, <2>2, <2>3 DEF TurnInv
<1> HIDE DEF e, v, s, L, R
<1>9. /\ SeatsWithout(L) = seats /\ UsableWithout(L) = usable
  BY <1>2, <1>5, NobodyLeaves
<1>10. /\ \A w \in Vehicle : \A t \in Seats[w] : seats'[w][t] = IF w = v /\ t = s THEN p ELSE seats[w][t]
       /\ seats' = [w \in Vehicle |-> seats'[w]]
  <2>1. seats' = [seats EXCEPT ![v] = [seats[v] EXCEPT ![s] = p]]
    BY <1>1, <1>9
  <2>2. seats[v] \in [Seats[v] -> Owner \cup {NoOwner}]
    BY <1>2, <1>4 DEF JoinTypeOK
  <2> DEFINE n == [seats[v] EXCEPT ![s] = p]
  <2>3. \A t \in Seats[v] : n[t] = IF t = s THEN p ELSE seats[v][t]
    BY <1>4, <2>2
  <2> HIDE DEF n
  <2>4. seats' = [seats EXCEPT ![v] = n] /\ seats = [w \in Vehicle |-> seats[w]]
    BY <1>2, <2>1 DEF n, SeatTypeOK
  <2>5. seats' = [w \in Vehicle |-> IF w = v THEN n ELSE seats[w]]
    BY <1>4, <2>4
  <2>6. QED
    BY <1>4, <2>3, <2>5
<1>11. \A q \in Owner : riding'[q] = IF q = p THEN v ELSE riding[q]
  BY <1>1, <1>2 DEF JoinTypeOK
<1>12. \A w \in Vehicle : \A t \in Seats[w] : seats[w][t] # p /\ seats[w][t] \in Owner \cup {NoOwner}
  <2>1. p # NoOwner /\ NoVehicle \notin Vehicle
    BY EventAssumption, VehicleAssumption
  <2>2. QED
    BY <1>2, <1>4, <2>1 DEF SeatInv, Sitter, JoinTypeOK
<1>13. ASSUME NEW q \in Owner PROVE Rider(q)'
  <2>1. CASE q = p
    <3>1. seats'[v][s] = p
      BY <1>4, <1>10
    <3>2. QED
      BY <1>1, <1>4, <1>11, <2>1, <3>1 DEF Rider
  <2>2. CASE q # p
    <3>1. SUFFICES ASSUME riding[q] # NoVehicle
                   PROVE  /\ status[q] = "in" /\ alive[q]
                          /\ \E t \in Seats[riding[q]] : seats'[riding[q]][t] = q
      BY <1>1, <1>11, <2>2 DEF Rider
    <3>2. riding[q] \in Vehicle /\ status[q] = "in" /\ alive[q]
      BY <1>2, <3>1 DEF JoinTypeOK, SeatInv, Rider
    <3>3. PICK t \in Seats[riding[q]] : seats[riding[q]][t] = q
      BY <1>2, <3>1 DEF SeatInv, Rider
    <3>4. seats'[riding[q]][t] = q
      BY <1>4, <1>10, <3>2, <3>3, EventAssumption
    <3>5. QED
      BY <3>2, <3>4
  <2>3. QED
    BY <2>1, <2>2
<1>14. ASSUME NEW w \in Vehicle, NEW t \in Seats[w] PROVE Sitter(w, t)'
  <2>1. CASE w = v /\ t = s
    BY <1>10, <1>11, <1>12, <2>1 DEF Sitter
  <2>2. CASE ~(w = v /\ t = s)
    <3>1. seats'[w][t] = seats[w][t] /\ seats[w][t] # p
      BY <1>10, <1>12, <2>2
    <3>2. Sitter(w, t)
      BY <1>2 DEF SeatInv
    <3>3. \A x \in Seats[w] : seats'[w][x] = seats[w][t] => seats[w][x] = seats[w][t]
      BY <1>10, <3>1
    <3>4. seats[w][t] # NoOwner => riding'[seats[w][t]] = riding[seats[w][t]]
      BY <1>11, <1>12, <3>1
    <3>5. QED
      BY <3>1, <3>2, <3>3, <3>4 DEF Sitter
  <2>3. QED
    BY <2>1, <2>2
<1>15. ASSUME NEW w \in Vehicle PROVE usable'[w] = Cardinality(EmptySeats(w)') /\ usable'[w] \in Int
  <2>1. /\ usable[w] = Cardinality(EmptySeats(w)) /\ usable[w] \in Int
        /\ IsFiniteSet(EmptySeats(w)) /\ UsableSeats[w] \subseteq Seats[w]
    BY <1>2, SeatsTyped DEF SeatInv, SeatTypeOK
  <2>2. usable'[w] = IF w = v /\ s \in UsableSeats[v] THEN usable[w] - 1 ELSE usable[w]
    BY <1>1, <1>2, <1>9 DEF SeatTypeOK
  <2>3. CASE w = v /\ s \in UsableSeats[v]
    <3>1. s \in EmptySeats(w) /\ EmptySeats(w)' = EmptySeats(w) \ {s}
      BY <1>4, <1>10, <2>1, <2>3, EventAssumption DEF EmptySeats
    <3>2. Cardinality(EmptySeats(w) \ {s}) = Cardinality(EmptySeats(w)) - 1
      BY <2>1, <3>1, FS_RemoveElement
    <3>3. QED
      BY <2>1, <2>2, <2>3, <3>1, <3>2
  <2>4. CASE ~(w = v /\ s \in UsableSeats[v])
    <3>1. EmptySeats(w)' = EmptySeats(w)
      BY <1>10, <2>1, <2>4 DEF EmptySeats
    <3>2. QED
      BY <2>1, <2>2, <2>4, <3>1
  <2>5. QED
    BY <2>3, <2>4
<1>16. FreeInv'
  <2>1. SUFFICES ASSUME NEW x \in Event, Live(x)'
                 PROVE  seats'[join[x].base][join[x].seat] = NoOwner
    BY <1>1 DEF FreeInv
  <2>2. Live(x) /\ x \notin R
    BY <1>7, <2>1 DEF Live, IsJoin
  <2>3. /\ join[x].base \in Vehicle /\ join[x].seat \in Seats[join[x].base]
        /\ seats[join[x].base][join[x].seat] = NoOwner
    BY <1>2, <2>2 DEF Coherent, JoinTypeOK, FreeInv
  <2>4. QED
    BY <1>6, <1>10, <2>2, <2>3
<1>17. TurnInv'
  <2>1. events[p] \in Seq(Event) /\ events'[p] = Tail(events[p]) /\ \A q \in Owner \ {p} : events'[q] = events[q]
    BY <1>2, <1>7 DEF EventTypeOK
  <2>2. \A j \in 1 .. Len(events'[p]) : ~IsJoin(events'[p][j])
    BY <1>3, <1>8, <2>1
  <2>3. \A x \in Held(p)' : ~IsJoin(x)
    <3>1. events'[p] \in Seq(Event)
      BY <1>3, <2>1
    <3>2. QED
      BY <2>2, <3>1, Members DEF Held
  <2>4. ASSUME NEW q \in Owner, q # p
        PROVE  /\ \A x \in Held(q)' : IsJoin(x) => due'[x] = 0 /\ riding'[q] = NoVehicle
               /\ \A i, j \in 1 .. Len(events'[q]) :
                    i < j /\ IsJoin(events'[q][i]) /\ IsJoin(events'[q][j]) => abortState'[events'[q][i]] # "running"
    <3>1. events'[q] = events[q] /\ Held(q)' = Held(q) /\ events[q] \in Seq(Event) /\ riding'[q] = riding[q]
      BY <1>2, <1>11, <2>1, <2>4 DEF Held, EventTypeOK
    <3>2. \A i \in 1 .. Len(events[q]) : abortState[events[q][i]] # "running" => abortState'[events[q][i]] # "running"
      BY <1>7, <3>1
    <3>3. QED
      BY <1>2, <1>7, <3>1, <3>2 DEF TurnInv
  <2>5. QED
    BY <2>2, <2>3, <2>4 DEF TurnInv, IsJoin
<1>18. usable' \in [Vehicle -> Int]
  BY <1>1, <1>2, <1>9, <1>15 DEF SeatTypeOK
<1>19. SeatTypeOK'
  BY <1>1, <1>2, <1>10, <1>18 DEF SeatTypeOK
<1>20. QED
  BY <1>13, <1>14, <1>15, <1>16, <1>17, <1>19 DEF SInv, SeatInv
-----------------------------------------------------------------------------
(* The seats in every behaviour. *)

LEMMA SeatInit == Init => SInv
<1> SUFFICES ASSUME Init PROVE SInv
  OBVIOUS
<1>1. JInv /\ EventInit
  BY VehicleInit
<1>2. /\ alive = [p \in Owner |-> TRUE] /\ riding = [p \in Owner |-> NoVehicle]
      /\ seats = [v \in Vehicle |-> [s \in Seats[v] |-> NoOwner]]
      /\ usable = [v \in Vehicle |-> Cardinality(UsableSeats[v])]
  BY DEF Init
<1>3. events = [o \in Owner |-> <<>>] /\ abortState = [e \in Event |-> "none"]
  BY <1>1 DEF EventInit
<1>4. ASSUME NEW v \in Vehicle PROVE usable[v] = Cardinality(EmptySeats(v)) /\ usable[v] \in Int
  <2>1. UsableSeats[v] \subseteq Seats[v] /\ IsFiniteSet(UsableSeats[v])
    BY <1>1, SeatsTyped
  <2>2. EmptySeats(v) = UsableSeats[v]
    BY <1>2, <2>1 DEF EmptySeats
  <2>3. QED
    BY <1>2, <2>1, <2>2, FS_CardinalityType
<1>5. SeatTypeOK
  BY <1>2, <1>4 DEF SeatTypeOK
<1>6. SeatInv
  BY <1>2, <1>4 DEF SeatInv, Rider, Sitter
<1>7. FreeInv
  BY <1>3 DEF FreeInv, Live, IsJoin
<1>8. TurnInv
  BY <1>3 DEF TurnInv, Held, ToSet
<1>9. QED
  BY <1>1, <1>5, <1>6, <1>7, <1>8 DEF SInv

LEMMA SeatStep ==
  ASSUME SInv, [Next]_vars
  PROVE  SInv'
<1>1. JInv'
  BY VehicleStep DEF SInv
<1>2. CASE UNCHANGED vars
  BY <1>1, <1>2
  DEF vars, eventVars, vehicleVars, rideVars, SInv, SeatTypeOK, SeatInv, Rider, Sitter, EmptySeats,
      FreeInv, TurnInv, Live, Held, IsJoin
<1>3. CASE Next
  <2>1. PICK p \in Owner :
          \/ \E v \in Vehicle, s \in SeatNumber, e \in Event : Ride(p, v, s, e)
          \/ \E s \in SeatNumber, e \in Event : RideAgain(p, s, e) \/ ChangeSeat(p, s, e)
          \/ RemoveAura(p) \/ ExitVehicle(p) \/ Die(p) \/ Revive(p)
          \/ \E v \in Vehicle : RemoveAllPassengers(v) \/ RemoveVehicleKit(v) \/ CreateVehicleKit(v)
          \/ Board(p) \/ FindDead(p) \/ AbortFirst(p) \/ KillJoin(p)
          \/ RemoveFromWorld(p) \/ AddToWorld(p) \/ CleanupBeforeRemoveFromMap(p)
          \/ UnloadResetScript(p) \/ Destroy(p)
          \/ QueueStep(p)
          \/ \E e \in Spell : SpellStep(p, e)
    BY <1>3 DEF Next
  <2>2. CASE \E v \in Vehicle, s \in SeatNumber, e \in Event : Ride(p, v, s, e)
    BY <1>1, <2>2, RideSeats
  <2>3. CASE \E s \in SeatNumber, e \in Event : RideAgain(p, s, e) \/ ChangeSeat(p, s, e)
    <3>1. PICK s \in SeatNumber, e \in Event : RideAgain(p, s, e) \/ ChangeSeat(p, s, e)
      BY <2>3
    <3>2. aura[p] \in Vehicle
      BY <3>1 DEF RideAgain, ChangeSeat, SInv, JInv, VInv, RideInv, JoinTypeOK
    <3>3. QED
      BY <1>1, <3>1, <3>2, RideSeats
  <2>4. CASE \/ RemoveAura(p) \/ ExitVehicle(p) \/ Die(p)
             \/ RemoveFromWorld(p) \/ CleanupBeforeRemoveFromMap(p)
    BY <1>1, <2>4, AuraSeats
  <2>5. CASE Revive(p) \/ AddToWorld(p) \/ UnloadResetScript(p) \/ Destroy(p)
    BY <1>1, <2>5, LifeSeats
  <2>6. CASE \E v \in Vehicle : RemoveAllPassengers(v) \/ RemoveVehicleKit(v) \/ CreateVehicleKit(v)
    BY <1>1, <2>6, RemoveAllSeats, CreateVehicleKitSeats
  <2>7. CASE Board(p) \/ FindDead(p) \/ AbortFirst(p) \/ KillJoin(p)
    BY <1>1, <2>7, BoardSeats, AbortSeats
  <2>8. CASE QueueStep(p)
    BY <1>1, <2>8, QueueSeats
  <2>9. CASE \E e \in Spell : SpellStep(p, e)
    BY <1>1, <2>9, SpellSeats
  <2>10. QED
    BY <2>1, <2>2, <2>3, <2>4, <2>5, <2>6, <2>7, <2>8, <2>9
<1>4. QED
  BY <1>2, <1>3

(* Seats, riders, the seats kept for joins and the order of the joins stay *)
(* coherent in every behaviour.                                            *)
THEOREM SeatInvariance == Spec => []SInv
<1>1. Init => SInv
  BY SeatInit
<1>2. SInv /\ [Next]_vars => SInv'
  BY SeatStep
<1>3. QED
  BY <1>1, <1>2, PTL DEF Spec

(* m_vehicle of a unit, the seats of the vehicles and UsableSeatNum agree, *)
(* whoever leaves, dies, ejects or boards, and when.                       *)
THEOREM SeatsAndRidersAgree == Spec => []SeatsAgree
<1>1. SInv => SeatsAgree
  <2> SUFFICES ASSUME SInv PROVE SeatsAgree
    OBVIOUS
  <2>1. JInv /\ SeatInv /\ RideInv /\ JoinTypeOK /\ NoVehicle \notin Vehicle
    BY VehicleAssumption DEF SInv, JInv, VInv
  <2>2. ASSUME NEW p \in Owner, riding[p] # NoVehicle
        PROVE  /\ aura[p] = riding[p] /\ status[p] = "in" /\ alive[p]
               /\ Cardinality({s \in Seats[riding[p]] : seats[riding[p]][s] = p}) = 1
    <3> DEFINE mine == {s \in Seats[riding[p]] : seats[riding[p]][s] = p}
    <3>1. riding[p] \in Vehicle /\ p # NoOwner
      BY <2>1, <2>2, EventAssumption DEF JoinTypeOK
    <3>2. PICK s \in Seats[riding[p]] : seats[riding[p]][s] = p
      BY <2>1, <2>2 DEF SeatInv, Rider
    <3>3. mine = {s}
      BY <2>1, <3>1, <3>2 DEF SeatInv, Sitter
    <3>4. Cardinality({s}) = 1
      BY FS_Singleton
    <3>5. QED
      BY <2>1, <2>2, <3>3, <3>4 DEF SeatInv, Rider, RideInv
  <2>3. ASSUME NEW v \in Vehicle, NEW s \in Seats[v], seats[v][s] # NoOwner
        PROVE  riding[seats[v][s]] = v /\ v \in kit
    <3>1. riding[seats[v][s]] = v /\ seats[v][s] \in Owner
      BY <2>1, <2>3 DEF SeatInv, Sitter, JoinTypeOK
    <3>2. QED
      BY <2>1, <3>1 DEF RideInv
  <2>4. ASSUME NEW v \in Vehicle
        PROVE  usable[v] = Cardinality({s \in UsableSeats[v] : seats[v][s] = NoOwner})
    BY <2>1 DEF SeatInv, EmptySeats
  <2>5. QED
    BY <2>2, <2>3, <2>4 DEF SeatsAgree
<1>2. QED
  BY <1>1, SeatInvariance, PTL

LEMMA AbortLeavesSeats ==
  ASSUME SInv, NEW p \in Owner, AbortFirst(p) \/ KillJoin(p)
  PROVE  seats' = seats
<1>1. /\ JInv /\ TurnInv /\ SeatInv /\ JoinTypeOK /\ PlaceInv /\ seats = [v \in Vehicle |-> seats[v]]
      /\ NoVehicle \notin Vehicle /\ NoOwner \notin Owner
  BY VehicleAssumption, EventAssumption DEF SInv, JInv, VInv, SeatTypeOK
<1>2. PICK e \in Held(p) : IsJoin(e) /\ join[e].passenger = p /\ seats' = SeatsWithout(AbortedAura(e))
  <2>1. CASE AbortFirst(p)
    <3>1. FirstJoin(p) /\ seats' = SeatsWithout(AbortedAura(Head(events[p])))
      BY <2>1 DEF AbortFirst, AbortJoin
    <3>2. QED
      BY <1>1, <3>1, FirstJoinHeld
  <2>2. CASE KillJoin(p)
    <3>1. Walking(p) /\ IsJoin(Current(p)) /\ seats' = SeatsWithout(AbortedAura(Current(p)))
      BY <2>2 DEF KillJoin, AbortJoin
    <3>2. Current(p) \in Held(p)
      BY <1>1, <3>1, CurrentTyped DEF JInv
    <3>3. QED
      BY <1>1, <3>1, <3>2 DEF PlaceInv
  <2>3. QED
    BY <2>1, <2>2
<1>3. riding[p] = NoVehicle
  BY <1>1, <1>2 DEF TurnInv
<1>4. AbortedAura(e) \subseteq {p}
  BY <1>2 DEF AbortedAura
<1>5. \A v \in Vehicle : \A s \in Seats[v] : seats[v][s] \notin AbortedAura(e)
  BY <1>1, <1>3, <1>4 DEF SeatInv, Sitter
<1>6. SeatsWithout(AbortedAura(e)) = [v \in Vehicle |-> [s \in Seats[v] |-> seats[v][s]]]
  BY <1>5 DEF SeatsWithout, IsLeft
<1>7. \A v \in Vehicle : seats[v] = [s \in Seats[v] |-> seats[v][s]]
  BY <1>1 DEF JoinTypeOK
<1>8. QED
  BY <1>1, <1>2, <1>6, <1>7

(* The abort of a join finds its passenger on foot: joins stand in the queue *)
(* in the order they were added, only the last of them can run, and so who   *)
(* has got a seat has no join left that could be aborted late.               *)
THEOREM AbortsComeInTime == Spec => AbortsUnseatNobody
<1>1. SInv /\ [Next]_vars => [\A p \in Owner : AbortFirst(p) \/ KillJoin(p) => seats' = seats]_vars
  BY AbortLeavesSeats
<1>2. QED
  BY <1>1, SeatInvariance, PTL DEF Spec, AbortsUnseatNobody
=============================================================================
