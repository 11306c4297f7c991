------------------------- MODULE WorldSessionsProofs -------------------------
(***************************************************************************)
(* Proofs about WorldSessions.tla for any number of sessions and accounts: *)
(* the pointers of m_sessions, m_QueuedPlayer and addSessQueue are live    *)
(* and complete, the queue in front of a full server is first in, first    *)
(* out, and a limit that is not changed is kept.                           *)
(*                                                                         *)
(* PointersAreLive is not inductive.  What it needs besides is Incoming:   *)
(* who is handed over is in no container yet, so that AddSession_ cannot    *)
(* delete a session as the predecessor of itself; Visits: the loop of       *)
(* UpdateSessions deletes only members of m_sessions; and OnlyActive: who   *)
(* is queued was not initialized.                                          *)
(*                                                                         *)
(* RemoveQueuedPlayer is called up to twice for a session that leaves.     *)
(* Served says of one call or both what becomes of the queue, and the      *)
(* numbers of LimitHolds show that both together admit one session at      *)
(* most: the second call finds the server full again.                      *)
(***************************************************************************)
EXTENDS WorldSessions, FiniteSetTheorems, SequenceTheorems, TLAPS

-----------------------------------------------------------------------------
(* Sequences without repetition, such as m_QueuedPlayer. *)

LEMMA ToSetOfSeq ==
  ASSUME NEW S, NEW q \in Seq(S)
  PROVE  /\ ToSet(q) \subseteq S
         /\ \A x : x \in ToSet(q) <=> \E i \in 1 .. Len(q) : q[i] = x
         /\ q = <<>> => ToSet(q) = {}
  BY DEF ToSet

LEMMA LenIsCardinality ==
  ASSUME NEW S, NEW q \in Seq(S), IsInjective(q)
  PROVE  IsFiniteSet(ToSet(q)) /\ Cardinality(ToSet(q)) = Len(q)
<1>1. Len(q) \in Nat /\ DOMAIN q = 1 .. Len(q)
  OBVIOUS
<1>2. q \in Injection(1 .. Len(q), ToSet(q)) /\ q \in Surjection(1 .. Len(q), ToSet(q))
  BY <1>1 DEF Injection, Surjection, IsInjective, ToSet
<1>3. IsFiniteSet(1 .. Len(q)) /\ Cardinality(1 .. Len(q)) = Len(q)
  BY <1>1, FS_Interval
<1>4. QED
  BY <1>2, <1>3, FS_Surjection

LEMMA RemovedAt ==
  ASSUME NEW S, NEW q \in Seq(S), NEW p \in 1 .. Len(q)
  PROVE  /\ RemoveAt(q, p) \in Seq(S)
         /\ Len(RemoveAt(q, p)) = Len(q) - 1
         /\ \A k \in 1 .. Len(q) - 1 : RemoveAt(q, p)[k] = IF k < p THEN q[k] ELSE q[k + 1]
<1> DEFINE left == SubSeq(q, 1, p - 1)
           right == SubSeq(q, p + 1, Len(q))
<1>1. left \in Seq(S) /\ Len(left) = p - 1 /\ \A k \in 1 .. p - 1 : left[k] = q[k]
  BY SubSeqProperties
<1>2. right \in Seq(S) /\ Len(right) = Len(q) - p /\ \A k \in 1 .. Len(q) - p : right[k] = q[p + k]
  BY SubSeqProperties
<1> HIDE DEF left, right
<1>3. RemoveAt(q, p) = left \o right
  BY DEF RemoveAt, left, right
<1>4. left \o right \in Seq(S) /\ Len(left \o right) = Len(q) - 1
  BY <1>1, <1>2, ConcatProperties
<1>5. ASSUME NEW k \in 1 .. Len(q) - 1
      PROVE  RemoveAt(q, p)[k] = IF k < p THEN q[k] ELSE q[k + 1]
  <2>1. Len(left) = p - 1 /\ k \in 1 .. Len(left) + Len(right)
    BY <1>1, <1>2
  <2>2. (left \o right)[k] = IF k <= Len(left) THEN left[k] ELSE right[k - Len(left)]
    BY <1>1, <1>2, <2>1, ConcatProperties
  <2>3. CASE k < p
    BY <1>1, <1>3, <2>1, <2>2, <2>3
  <2>4. CASE k >= p
    <3>1. k - (p - 1) \in 1 .. Len(q) - p /\ p + (k - (p - 1)) = k + 1
      BY <2>4
    <3>2. RemoveAt(q, p)[k] = right[k - (p - 1)]
      BY <1>3, <2>1, <2>2, <2>4
    <3>3. QED
      BY <1>2, <2>4, <3>1, <3>2
  <2>5. QED
    BY <2>3, <2>4
<1>6. QED
  BY <1>3, <1>4, <1>5

LEMMA RemovedFirst ==
  ASSUME NEW S, NEW q \in Seq(S), IsInjective(q), NEW e
  PROVE  /\ e \notin ToSet(q) => RemoveFirst(q, e) = q
         /\ e \in ToSet(q) =>
              \E p \in 1 .. Len(q) : q[p] = e /\ RemoveFirst(q, e) = RemoveAt(q, p)
<1>1. CASE e \notin ToSet(q)
  BY <1>1, ToSetOfSeq DEF RemoveFirst
<1>2. CASE e \in ToSet(q)
  <2> DEFINE I == {i \in 1 .. Len(q) : q[i] = e}
  <2>1. PICK p \in 1 .. Len(q) : q[p] = e
    BY <1>2, ToSetOfSeq
  <2>2. I = {p}
    BY <2>1 DEF IsInjective
  <2>3. Min(I) = p
    BY <2>1, <2>2 DEF Min
  <2>4. RemoveFirst(q, e) = RemoveAt(q, p)
    BY <2>1, <2>2, <2>3 DEF RemoveFirst, SelectInSeq
  <2>5. QED
    BY <1>2, <2>1, <2>4
<1>3. QED
  BY <1>1, <1>2

(* What is left of q, in the order it had there. *)
KeepsOrder(r, q) ==
  \A k, l \in 1 .. Len(r), i, j \in 1 .. Len(q) : r[k] = q[i] /\ r[l] = q[j] /\ i < j => k < l

LEMMA RestOfQueue ==
  ASSUME NEW S, NEW q \in Seq(S), IsInjective(q), NEW e
  PROVE  LET r == RemoveFirst(q, e) IN
         /\ r \in Seq(S) /\ IsInjective(r)
         /\ ToSet(r) = ToSet(q) \ {e}
         /\ Len(r) = IF e \in ToSet(q) THEN Len(q) - 1 ELSE Len(q)
         /\ KeepsOrder(r, q)
<1> DEFINE r == RemoveFirst(q, e)
<1>1. CASE e \notin ToSet(q)
  <2>1. r = q
    BY <1>1, RemovedFirst
  <2>2. KeepsOrder(q, q)
    BY DEF KeepsOrder, IsInjective
  <2>3. QED
    BY <1>1, <2>1, <2>2
<1>2. CASE e \in ToSet(q)
  <2>1. PICK p \in 1 .. Len(q) : q[p] = e /\ r = RemoveAt(q, p)
    BY <1>2, RemovedFirst
  <2> HIDE DEF r
  <2>2. /\ r \in Seq(S) /\ Len(r) = Len(q) - 1
        /\ \A k \in 1 .. Len(r) : r[k] = IF k < p THEN q[k] ELSE q[k + 1]
    BY <2>1, RemovedAt
  <2> DEFINE from(k) == IF k < p THEN k ELSE k + 1
  <2>3. \A k \in 1 .. Len(r) : from(k) \in 1 .. Len(q) /\ from(k) # p /\ r[k] = q[from(k)]
    BY <2>2
  <2>4. \A i \in 1 .. Len(q) : i # p => \E k \in 1 .. Len(r) : from(k) = i
    <3> TAKE i \in 1 .. Len(q)
    <3>1. CASE i < p
      BY <2>2, <3>1
    <3>2. CASE i > p
      <4>1. i - 1 \in 1 .. Len(r) /\ from(i - 1) = i
        BY <2>2, <3>2
      <4>2. QED
        BY <4>1
    <3>3. QED
      BY <3>1, <3>2
  <2>5. \A k, l \in 1 .. Len(r) : k < l <=> from(k) < from(l)
    BY <2>2
  <2>6. \A k, l \in 1 .. Len(r) : from(k) = from(l) => k = l
    BY <2>2
  <2>7. \A i, j \in 1 .. Len(q) : q[i] = q[j] => i = j
    BY DEF IsInjective
  <2> HIDE DEF from
  <2>8. IsInjective(r)
    BY <2>2, <2>3, <2>6, <2>7 DEF IsInjective
  <2>9. ToSet(r) = ToSet(q) \ {e}
    <3>1. \A x : x \in ToSet(r) <=> \E k \in 1 .. Len(r) : r[k] = x
      BY <2>2, ToSetOfSeq
    <3>2. \A x : x \in ToSet(q) <=> \E i \in 1 .. Len(q) : q[i] = x
      BY ToSetOfSeq
    <3>3. \A x : x \in ToSet(r) => x \in ToSet(q) /\ x # e
      BY <2>1, <2>3, <2>7, <3>1, <3>2
    <3>4. \A x : x \in ToSet(q) /\ x # e => x \in ToSet(r)
      BY <2>1, <2>3, <2>4, <3>1, <3>2
    <3>5. QED
      BY <3>3, <3>4
  <2>10. KeepsOrder(r, q)
    BY <2>3, <2>5, <2>7 DEF KeepsOrder
  <2>11. QED
    BY <1>2, <2>2, <2>8, <2>9, <2>10 DEF r
<1>3. QED
  BY <1>1, <1>2

LEMMA TailOfQueue ==
  ASSUME NEW S, NEW q \in Seq(S), IsInjective(q), q # <<>>
  PROVE  /\ Tail(q) \in Seq(S) /\ IsInjective(Tail(q)) /\ Len(Tail(q)) = Len(q) - 1
         /\ Head(q) \in ToSet(q) /\ Head(q) = q[1]
         /\ ToSet(Tail(q)) = ToSet(q) \ {Head(q)}
         /\ KeepsOrder(Tail(q), q)
<1>1. Len(q) > 0 /\ Head(q) = q[1] /\ DOMAIN q = 1 .. Len(q)
  OBVIOUS
<1>2. /\ Tail(q) \in Seq(S) /\ Len(Tail(q)) = Len(q) - 1
      /\ \A k \in 1 .. Len(Tail(q)) : Tail(q)[k] = q[k + 1]
  BY HeadTailProperties
<1> DEFINE t == Tail(q)
<1>3. \A i, j \in 1 .. Len(q) : q[i] = q[j] => i = j
  BY DEF IsInjective
<1> HIDE DEF t
<1>4. IsInjective(t)
  BY <1>1, <1>2, <1>3 DEF IsInjective, t
<1>5. ToSet(t) = ToSet(q) \ {q[1]}
  <2>1. \A x : x \in ToSet(t) <=> \E k \in 1 .. Len(t) : t[k] = x
    BY <1>2, ToSetOfSeq DEF t
  <2>2. \A x : x \in ToSet(q) <=> \E i \in 1 .. Len(q) : q[i] = x
    BY ToSetOfSeq
  <2>3. \A x : x \in ToSet(t) => x \in ToSet(q) /\ x # q[1]
    BY <1>1, <1>2, <1>3, <2>1, <2>2 DEF t
  <2>4. ASSUME NEW x \in ToSet(q), x # q[1]
        PROVE  x \in ToSet(t)
    <3>1. PICK i \in 1 .. Len(q) : q[i] = x
      BY <2>2
    <3>2. i - 1 \in 1 .. Len(t) /\ t[i - 1] = x
      BY <1>2, <2>4, <3>1 DEF t
    <3>3. QED
      BY <2>1, <3>2
  <2>5. QED
    BY <2>3, <2>4
<1>6. KeepsOrder(t, q)
  BY <1>1, <1>2, <1>3 DEF KeepsOrder, t
<1>7. q[1] \in ToSet(q)
  BY <1>1, ToSetOfSeq
<1>8. QED
  BY <1>1, <1>2, <1>4, <1>5, <1>6, <1>7 DEF t

LEMMA AppendedQueue ==
  ASSUME NEW S, NEW q \in Seq(S), IsInjective(q), NEW e \in S, e \notin ToSet(q)
  PROVE  /\ Append(q, e) \in Seq(S) /\ IsInjective(Append(q, e))
         /\ ToSet(Append(q, e)) = ToSet(q) \cup {e}
         /\ Len(Append(q, e)) = Len(q) + 1
         /\ \A i \in 1 .. Len(q) : Append(q, e)[i] = q[i]
<1> DEFINE a == Append(q, e)
<1>1. /\ a \in Seq(S) /\ Len(a) = Len(q) + 1 /\ a[Len(q) + 1] = e
      /\ \A i \in 1 .. Len(q) : a[i] = q[i]
  BY AppendProperties
<1>2. DOMAIN a = 1 .. Len(q) + 1 /\ DOMAIN q = 1 .. Len(q) /\ Len(q) \in Nat
  BY <1>1
<1> HIDE DEF a
<1>3. \A i \in 1 .. Len(q) : q[i] # e
  BY ToSetOfSeq
<1>4. IsInjective(a)
  BY <1>1, <1>2, <1>3 DEF IsInjective
<1>5. ToSet(a) = ToSet(q) \cup {e}
  <2>1. \A x : x \in ToSet(a) <=> \E k \in 1 .. Len(a) : a[k] = x
    BY <1>1, ToSetOfSeq
  <2>2. \A x : x \in ToSet(q) <=> \E i \in 1 .. Len(q) : q[i] = x
    BY ToSetOfSeq
  <2>3. Len(q) + 1 \in 1 .. Len(a) /\ \A i \in 1 .. Len(q) : i \in 1 .. Len(a)
    BY <1>1, <1>2
  <2>4. \A k \in 1 .. Len(a) : k = Len(q) + 1 \/ k \in 1 .. Len(q)
    BY <1>1, <1>2
  <2>5. QED
    BY <1>1, <2>1, <2>2, <2>3, <2>4
<1>6. QED
  BY <1>1, <1>4, <1>5 DEF a

-----------------------------------------------------------------------------
(* RemoveQueuedPlayer. *)

(* r is what is left of the queue q when s has left it and those of out    *)
(* were admitted: nobody who stays was in front of one of them.             *)
Served(q, s, r, out) ==
  /\ r \in Seq(Session) /\ IsInjective(r)
  /\ out \subseteq ToSet(q) \ {s}
  /\ ToSet(r) = ToSet(q) \ ({s} \cup out)
  /\ KeepsOrder(r, q)
  /\ \A i, j \in 1 .. Len(q) : i < j /\ q[j] \in out => q[i] \notin ToSet(r)

LEMMA NobodyServed ==
  ASSUME NEW q \in Seq(Session), IsInjective(q)
  PROVE  Served(q, NoSession, q, {})
<1>1. KeepsOrder(q, q)
  BY DEF KeepsOrder, IsInjective
<1>2. NoSession \notin ToSet(q)
  BY ToSetOfSeq, SessionAssumption
<1>3. QED
  BY <1>1, <1>2 DEF Served

LEMMA ServedInOrder ==
  ASSUME NEW q \in Seq(Session), IsInjective(q), NEW s, NEW r, NEW out, Served(q, s, r, out),
         NEW i \in 1 .. Len(q), NEW j \in 1 .. Len(q), i < j, q[i] \in ToSet(r)
  PROVE  \/ q[j] = s
         \/ \E k, l \in 1 .. Len(r) : k < l /\ r[k] = q[i] /\ r[l] = q[j]
<1>1. q[j] \in ToSet(q) /\ q[j] \notin out
  BY ToSetOfSeq DEF Served
<1>2. CASE q[j] # s
  <2>1. q[j] \in ToSet(r) /\ r \in Seq(Session)
    BY <1>1, <1>2 DEF Served
  <2>2. PICK k, l \in 1 .. Len(r) : r[k] = q[i] /\ r[l] = q[j]
    BY <2>1, ToSetOfSeq
  <2>3. k < l
    BY <2>2 DEF Served, KeepsOrder
  <2>4. QED
    BY <2>2, <2>3
<1>3. QED
  BY <1>2

LEMMA ServedAgain ==
  ASSUME NEW q \in Seq(Session), IsInjective(q), NEW s,
         NEW r, NEW out, Served(q, s, r, out),
         NEW t, NEW more, Served(r, s, t, more)
  PROVE  Served(q, s, t, out \cup more)
<1>1. t \in Seq(Session) /\ r \in Seq(Session) /\ IsInjective(t) /\ IsInjective(r)
  BY DEF Served
<1>2. out \cup more \subseteq ToSet(q) \ {s} /\ ToSet(t) = ToSet(q) \ ({s} \cup (out \cup more))
  BY DEF Served
<1>3. ToSet(t) \subseteq ToSet(r) /\ s \notin ToSet(r) /\ more \subseteq ToSet(r)
  BY DEF Served
<1>4. KeepsOrder(t, q)
  <2> SUFFICES ASSUME NEW k \in 1 .. Len(t), NEW l \in 1 .. Len(t),
                      NEW i \in 1 .. Len(q), NEW j \in 1 .. Len(q),
                      t[k] = q[i], t[l] = q[j], i < j
               PROVE  k < l
    BY DEF KeepsOrder
  <2>1. q[i] \in ToSet(r) /\ q[j] # s
    BY <1>1, <1>3, ToSetOfSeq
  <2>2. PICK m, n \in 1 .. Len(r) : m < n /\ r[m] = q[i] /\ r[n] = q[j]
    BY <2>1, ServedInOrder
  <2>3. KeepsOrder(t, r)
    BY DEF Served
  <2>4. QED
    BY <2>2, <2>3 DEF KeepsOrder
<1>5. ASSUME NEW i \in 1 .. Len(q), NEW j \in 1 .. Len(q), i < j, q[j] \in out \cup more
      PROVE  q[i] \notin ToSet(t)
  <2>1. CASE q[j] \in out
    BY <1>3, <1>5, <2>1 DEF Served
  <2>2. CASE q[j] \in more /\ q[i] \in ToSet(r)
    <3>1. q[j] # s
      BY <1>3, <2>2
    <3>2. PICK m, n \in 1 .. Len(r) : m < n /\ r[m] = q[i] /\ r[n] = q[j]
      BY <1>5, <2>2, <3>1, ServedInOrder
    <3>3. QED
      BY <2>2, <3>2 DEF Served
  <2>3. CASE q[i] \notin ToSet(r)
    BY <1>3, <2>3
  <2>4. QED
    BY <1>5, <2>1, <2>2, <2>3
<1>6. QED
  BY <1>1, <1>2, <1>4, <1>5 DEF Served

(* How many are left, and whether somebody was admitted, of q with n live sessions. *)
Left(s, q) == IF s \in ToSet(q) THEN Len(q) - 1 ELSE Len(q)
Others(s, n, q) == IF s \in ToSet(q) \/ n = Len(q) THEN n - Len(q) ELSE n - Len(q) - 1
Pops(s, n, q) == Left(s, q) > 0 /\ (limit = 0 \/ Others(s, n, q) < limit)

LEMMA RemovedQueuedPlayer ==
  ASSUME NEW s \in Session, NEW n \in Nat, NEW q \in Seq(Session), IsInjective(q)
  PROVE  LET r == RemoveQueuedPlayer(s, n, q) IN
         /\ r.found <=> s \in ToSet(q)
         /\ Served(q, s, r.queued, r.popped)
         /\ Len(r.queued) = IF Pops(s, n, q) THEN Left(s, q) - 1 ELSE Left(s, q)
         /\ Pops(s, n, q) => \E x : r.popped = {x}
         /\ ~Pops(s, n, q) => r.popped = {}
<1> DEFINE rest == RemoveFirst(q, s)
           r == RemoveQueuedPlayer(s, n, q)
<1>1. /\ rest \in Seq(Session) /\ IsInjective(rest)
      /\ ToSet(rest) = ToSet(q) \ {s} /\ Len(rest) = Left(s, q) /\ KeepsOrder(rest, q)
  BY RestOfQueue DEF Left
<1> HIDE DEF rest
<1>2. rest # <<>> <=> Left(s, q) > 0
  BY <1>1
<1>3. Others(s, n, q) = IF s \in ToSet(q) \/ ActiveCount(n, q) = 0 THEN ActiveCount(n, q)
                        ELSE ActiveCount(n, q) - 1
  BY DEF Others, ActiveCount
<1>4. /\ r.found = (s \in ToSet(q))
      /\ r.queued = IF Pops(s, n, q) THEN Tail(rest) ELSE rest
      /\ r.popped = IF Pops(s, n, q) THEN {Head(rest)} ELSE {}
  BY <1>2, <1>3 DEF RemoveQueuedPlayer, Pops, rest
<1> HIDE DEF r
<1>5. Served(q, s, rest, {})
  BY <1>1 DEF Served
<1>6. CASE ~Pops(s, n, q)
  BY <1>1, <1>4, <1>5, <1>6 DEF r
<1>7. CASE Pops(s, n, q)
  <2>1. rest # <<>>
    BY <1>2, <1>7 DEF Pops
  <2>2. /\ Tail(rest) \in Seq(Session) /\ IsInjective(Tail(rest)) /\ Len(Tail(rest)) = Len(rest) - 1
        /\ Head(rest) \in ToSet(rest) /\ Head(rest) = rest[1]
        /\ ToSet(Tail(rest)) = ToSet(rest) \ {Head(rest)}
        /\ KeepsOrder(Tail(rest), rest)
    BY <1>1, <2>1, TailOfQueue
  <2>3. \A i, j \in 1 .. Len(rest) : i < j => rest[j] # Head(rest)
    BY <1>1, <2>2 DEF IsInjective
  <2>4. s \notin ToSet(rest)
    BY <1>1
  <2>5. Served(rest, s, Tail(rest), {Head(rest)})
    BY <2>2, <2>3, <2>4 DEF Served
  <2>6. Served(q, s, Tail(rest), {} \cup {Head(rest)})
    BY <1>5, <2>5, ServedAgain
  <2>7. {} \cup {Head(rest)} = {Head(rest)}
    OBVIOUS
  <2>8. r.queued = Tail(rest) /\ r.popped = {Head(rest)}
    BY <1>4, <1>7
  <2>9. Served(q, s, r.queued, r.popped)
    BY <2>6, <2>7, <2>8
  <2>10. QED
    BY <1>1, <1>4, <1>7, <2>2, <2>8, <2>9 DEF r
<1>8. QED
  BY <1>6, <1>7

-----------------------------------------------------------------------------
(* The containers. *)

(* Every session object is in one container at most, and in that once. *)
Incoming ==
  /\ IsInjective(addSessQueue) /\ ToSet(addSessQueue) \subseteq made \ Live
  /\ Live \subseteq made

(* Update visits only sessions of m_sessions. *)
Visits == todo \subseteq Live /\ (phase # "update" => todo = {})

(* Only who has left the queue, or never was in it, is initialized. *)
OnlyActive == \A s \in Session : init[s] # "no" => s \in Active

IInv == TypeOK /\ PointersAreLive /\ Incoming /\ Visits /\ OnlyActive /\ IsFiniteSet(Live)

Accounts == \A a \in Account : sessions[a] # NoSession => AccountOf[sessions[a]] = a

LEMMA LiveSessions ==
  ASSUME sessions \in [Account -> Session \cup {NoSession}], Accounts
  PROVE  /\ \A x : x \in Live <=> x \in Session /\ sessions[AccountOf[x]] = x
         /\ Live \subseteq Session
  BY SessionAssumption DEF Live, Accounts

LEMMA Replaced ==
  ASSUME sessions \in [Account -> Session \cup {NoSession}], Accounts,
         NEW s \in Session, s \notin Live,
         sessions' = [sessions EXCEPT ![AccountOf[s]] = s]
  PROVE  LET old == sessions[AccountOf[s]] IN
         /\ sessions' \in [Account -> Session \cup {NoSession}] /\ Accounts'
         /\ Live' = (Live \ {old}) \cup {s}
         /\ old # NoSession => old \in Live
<1> DEFINE old == sessions[AccountOf[s]]
<1>1. AccountOf[s] \in Account /\ s # NoSession
  BY SessionAssumption
<1>2. /\ sessions' \in [Account -> Session \cup {NoSession}]
      /\ \A a \in Account : sessions'[a] = IF a = AccountOf[s] THEN s ELSE sessions[a]
  BY <1>1
<1>3. Accounts'
  BY <1>1, <1>2 DEF Accounts
<1>4. \A x : x \in Live <=> x \in Session /\ sessions[AccountOf[x]] = x
  BY LiveSessions
<1>5. \A x : x \in Live' <=> \E a \in Account : sessions'[a] = x /\ x # NoSession
  BY DEF Live
<1>6. old # NoSession => old \in Live /\ AccountOf[old] = AccountOf[s]
  BY <1>1, <1>4 DEF Accounts
<1>7. \A x \in Session : AccountOf[x] \in Account
  BY SessionAssumption
<1>8. \A x : x \in Live' => x \in (Live \ {old}) \cup {s}
  <2> SUFFICES ASSUME NEW x, x \in Live'
               PROVE  x = s \/ (x \in Live /\ x # old)
    OBVIOUS
  <2>1. PICK a \in Account : sessions'[a] = x /\ x # NoSession
    BY <1>5
  <2>2. CASE a = AccountOf[s]
    BY <1>2, <2>1, <2>2
  <2>3. CASE a # AccountOf[s]
    <3>1. sessions[a] = x /\ x \in Live /\ AccountOf[x] = a
      BY <1>2, <2>1, <2>3 DEF Live, Accounts
    <3>2. QED
      BY <1>6, <2>1, <2>3, <3>1
  <2>4. QED
    BY <2>2, <2>3
<1>9. \A x : x \in (Live \ {old}) \cup {s} => x \in Live'
  <2>1. s \in Live'
    BY <1>1, <1>2, <1>5
  <2>2. ASSUME NEW x \in Live, x # old
        PROVE  x \in Live'
    <3>1. x \in Session /\ sessions[AccountOf[x]] = x /\ AccountOf[x] # AccountOf[s]
      BY <1>4, <2>2
    <3>2. sessions'[AccountOf[x]] = x /\ x # NoSession
      BY <1>2, <1>7, <3>1, SessionAssumption
    <3>3. QED
      BY <1>5, <1>7, <3>1, <3>2
  <2>3. QED
    BY <2>1, <2>2
<1>10. QED
  BY <1>2, <1>3, <1>6, <1>8, <1>9

LEMMA Erased ==
  ASSUME sessions \in [Account -> Session \cup {NoSession}], Accounts,
         NEW s \in Live,
         sessions' = [sessions EXCEPT ![AccountOf[s]] = NoSession]
  PROVE  /\ sessions' \in [Account -> Session \cup {NoSession}] /\ Accounts'
         /\ Live' = Live \ {s}
<1>1. \A x : x \in Live <=> x \in Session /\ sessions[AccountOf[x]] = x
  BY LiveSessions
<1>2. \A x \in Session : AccountOf[x] \in Account /\ x # NoSession
  BY SessionAssumption
<1>3. s \in Session /\ sessions[AccountOf[s]] = s
  BY <1>1
<1>4. /\ sessions' \in [Account -> Session \cup {NoSession}]
      /\ \A a \in Account : sessions'[a] = IF a = AccountOf[s] THEN NoSession ELSE sessions[a]
  BY <1>2, <1>3
<1>5. Accounts'
  BY <1>4 DEF Accounts
<1>6. \A x : x \in Live' <=> \E a \in Account : sessions'[a] = x /\ x # NoSession
  BY DEF Live
<1>7. ASSUME NEW x \in Live'
      PROVE  x \in Live /\ x # s
  <2>1. PICK a \in Account : sessions'[a] = x /\ x # NoSession
    BY <1>6
  <2>2. a # AccountOf[s] /\ sessions[a] = x
    BY <1>4, <2>1
  <2>3. x \in Live /\ AccountOf[x] = a
    BY <2>1, <2>2 DEF Live, Accounts
  <2>4. QED
    BY <2>2, <2>3
<1>8. ASSUME NEW x \in Live, x # s
      PROVE  x \in Live'
  <2>1. x \in Session /\ sessions[AccountOf[x]] = x /\ AccountOf[x] # AccountOf[s]
    BY <1>1, <1>3, <1>8
  <2>2. sessions'[AccountOf[x]] = x
    BY <1>2, <1>4, <2>1
  <2>3. QED
    BY <1>2, <1>6, <2>1, <2>2
<1>9. QED
  BY <1>4, <1>5, <1>7, <1>8

LEMMA FieldsFreed ==
  ASSUME NEW T, NEW f \in [Session -> T], NEW dead, NEW v \in T
  PROVE  /\ Freed(f, dead, v) \in [Session -> T]
         /\ \A x \in Session : Freed(f, dead, v)[x] = IF x \in dead THEN v ELSE f[x]
  BY DEF Freed

InitStates == {"no", "waiting", "ready", "done"}
PlayerStates == {"none", "loading", "unmarked", "world"}

LEMMA InitializedStates ==
  ASSUME init \in [Session -> InitStates], NEW out
  PROVE  /\ Initialized(out) \in [Session -> InitStates]
         /\ \A x \in Session : Initialized(out)[x] = IF x \in out THEN "waiting" ELSE init[x]
  BY DEF Initialized, InitStates

(* A step that moves no session between the containers. *)
LEMMA NothingMoves ==
  ASSUME PointersAreLive, Incoming, IsFiniteSet(Live),
         UNCHANGED <<addSessQueue, sessions, queued, made, deleted>>
  PROVE  PointersAreLive' /\ Incoming' /\ IsFiniteSet(Live)' /\ Live' = Live /\ Active' = Active
<1>1. Live' = Live /\ QueuedSet' = QueuedSet
  BY DEF Live, QueuedSet
<1>2. Active' = Active
  BY <1>1 DEF Active
<1>3. PointersAreLive'
  BY <1>1 DEF PointersAreLive
<1>4. Incoming'
  BY <1>1 DEF Incoming
<1>5. QED
  BY <1>1, <1>2, <1>3, <1>4

THEOREM InvInit == Init => IInv
<1> SUFFICES ASSUME Init
             PROVE  IInv
  OBVIOUS
<1> USE DEF Init
<1>1. Live = {} /\ ToSet(<<>>) = {} /\ IsInjective(<<>>)
  BY DEF Live, ToSet, IsInjective
<1>2. TypeOK
  BY NumbersAssumption DEF TypeOK
<1>3. PointersAreLive
  BY <1>1 DEF PointersAreLive, QueuedSet
<1>4. Incoming /\ Visits /\ OnlyActive
  BY <1>1 DEF Incoming, Visits, OnlyActive
<1>5. QED
  BY <1>1, <1>2, <1>3, <1>4, FS_EmptySet DEF IInv

-----------------------------------------------------------------------------
(* The steps that move no session. *)

LEMMA QuietSteps ==
  ASSUME IInv,
         \/ \E s \in Session : CloseSocket(s) \/ Answer(s) \/ Kick(s) \/ KeepSession(s)
         \/ \E l \in Limits : SetPlayerAmountLimit(l)
         \/ Tick \/ BeginUpdates \/ EndUpdates
  PROVE  IInv'
<1> USE DEF IInv
<1>1. UNCHANGED <<addSessQueue, sessions, queued, made, deleted>>
  BY DEF CloseSocket, Answer, Kick, KeepSession, SetPlayerAmountLimit, Tick, BeginUpdates, EndUpdates, perSession
<1>2. PointersAreLive' /\ Incoming' /\ IsFiniteSet(Live)' /\ Live' = Live /\ Active' = Active
  BY <1>1, NothingMoves
<1>3. Accounts /\ sessions \in [Account -> Session \cup {NoSession}]
  BY DEF PointersAreLive, Accounts, TypeOK
<1>4. Live \subseteq Session
  BY <1>3, LiveSessions
<1> HIDE DEF IInv
<1>5. TypeOK /\ Visits /\ OnlyActive
  BY DEF IInv
<1>6. ASSUME NEW s \in Session, CloseSocket(s)
      PROVE  TypeOK' /\ Visits' /\ OnlyActive'
  BY <1>2, <1>5, <1>6 DEF CloseSocket, TypeOK, Visits, OnlyActive
<1>7. ASSUME NEW s \in Session, Answer(s)
      PROVE  TypeOK' /\ Visits' /\ OnlyActive'
  <2>1. TypeOK' /\ Visits'
    BY <1>2, <1>5, <1>7 DEF Answer, TypeOK, Visits
  <2>2. \A x \in Session : init'[x] # "no" => init[x] # "no"
    BY <1>5, <1>7 DEF Answer, TypeOK
  <2>3. QED
    BY <1>2, <1>5, <2>1, <2>2 DEF OnlyActive
<1>8. ASSUME NEW s \in Session, Kick(s)
      PROVE  TypeOK' /\ Visits' /\ OnlyActive'
  BY <1>2, <1>5, <1>8 DEF Kick, TypeOK, Visits, OnlyActive
<1>9. ASSUME NEW s \in Session, KeepSession(s)
      PROVE  TypeOK' /\ Visits' /\ OnlyActive'
  <2>1. PICK p \in PlayerStep(s) : player' = [player EXCEPT ![s] = p]
    BY <1>9 DEF KeepSession
  <2>2. player[s] \in {"none", "loading", "unmarked", "world"}
    BY <1>5 DEF TypeOK
  <2>3. PlayerStep(s) \subseteq PlayerStates
    <3>1. CASE player[s] = "none"
      BY <3>1 DEF PlayerStep, PlayerStates
    <3>2. CASE player[s] = "loading"
      BY <3>2 DEF PlayerStep, PlayerStates
    <3>3. CASE player[s] = "unmarked"
      BY <3>3 DEF PlayerStep, PlayerStates
    <3>4. CASE player[s] = "world"
      BY <3>4 DEF PlayerStep, PlayerStates
    <3>5. QED
      BY <2>2, <3>1, <3>2, <3>3, <3>4
  <2>4. player' \in [Session -> {"none", "loading", "unmarked", "world"}]
    BY <1>5, <2>1, <2>3 DEF TypeOK, PlayerStates
  <2>5. /\ init' \in [Session -> {"no", "waiting", "ready", "done"}] /\ inQueue' \in [Session -> BOOLEAN]
        /\ \A x \in Session : init'[x] # "no" => init[x] # "no"
    BY <1>5, <1>9 DEF KeepSession, Callback, TypeOK
  <2>6. expire' \in [Session -> 0 .. ExpireTime]
    <3>1. expire' = [expire EXCEPT ![s] = ExpireAfter(s)] /\ expire \in [Session -> 0 .. ExpireTime]
      BY <1>5, <1>9 DEF KeepSession, TypeOK
    <3>2. ExpireAfter(s) \in 0 .. ExpireTime
      BY <3>1, NumbersAssumption DEF ExpireAfter
    <3>3. QED
      BY <3>1, <3>2
  <2>7. todo' = todo \ {s} /\ phase = "update"
        /\ UNCHANGED <<addSessQueue, sessions, queued, limit, disconnects, time, phase, running,
                       made, deleted, open, forceExit>>
    BY <1>9 DEF KeepSession
  <2>8. TypeOK'
    BY <1>5, <2>4, <2>5, <2>6, <2>7 DEF TypeOK
  <2>9. Visits' /\ OnlyActive'
    BY <1>2, <1>5, <2>5, <2>7 DEF Visits, OnlyActive
  <2>10. QED
    BY <2>8, <2>9
<1>10. ASSUME NEW l \in Limits, SetPlayerAmountLimit(l)
       PROVE  TypeOK' /\ Visits' /\ OnlyActive'
  BY <1>2, <1>5, <1>10 DEF SetPlayerAmountLimit, perSession, TypeOK, Visits, OnlyActive
<1>11. ASSUME Tick
       PROVE  TypeOK' /\ Visits' /\ OnlyActive'
  BY <1>2, <1>5, <1>11, NumbersAssumption DEF Tick, perSession, TypeOK, Visits, OnlyActive
<1>12. ASSUME BeginUpdates
       PROVE  TypeOK' /\ Visits' /\ OnlyActive'
  BY <1>2, <1>4, <1>5, <1>12 DEF BeginUpdates, perSession, TypeOK, Visits, OnlyActive
<1>13. ASSUME EndUpdates
       PROVE  TypeOK' /\ Visits' /\ OnlyActive'
  BY <1>2, <1>5, <1>13 DEF EndUpdates, perSession, TypeOK, Visits, OnlyActive
<1>14. TypeOK' /\ Visits' /\ OnlyActive'
  BY <1>6, <1>7, <1>8, <1>9, <1>10, <1>11, <1>12, <1>13
<1>15. QED
  BY <1>2, <1>14 DEF IInv

(* A network thread adds a session. *)
LEMMA AddSessionStep ==
  ASSUME IInv, NEW s \in Session, AddSession(s)
  PROVE  IInv'
<1>1. /\ addSessQueue \in Seq(Session) /\ IsInjective(addSessQueue)
      /\ ToSet(addSessQueue) \subseteq made \ Live /\ Live \subseteq made
      /\ deleted \subseteq made /\ s \notin made
  BY DEF IInv, TypeOK, Incoming, AddSession
<1>2. /\ addSessQueue' = Append(addSessQueue, s) /\ made' = made \cup {s}
      /\ UNCHANGED <<sessions, queued, limit, disconnects, time, phase, todo, running,
                     deleted, open, inQueue, forceExit, expire, init, player>>
  BY DEF AddSession
<1>3. /\ addSessQueue' \in Seq(Session) /\ IsInjective(addSessQueue')
      /\ ToSet(addSessQueue') = ToSet(addSessQueue) \cup {s}
  BY <1>1, <1>2, AppendedQueue
<1>4. Live' = Live /\ QueuedSet' = QueuedSet /\ Active' = Active
  BY <1>2 DEF Live, QueuedSet, Active
<1>5. TypeOK'
  <2>1. TypeOK
    BY DEF IInv
  <2>2. QED
    BY <1>2, <1>3, <2>1 DEF TypeOK
<1>6. PointersAreLive'
  <2>1. PointersAreLive
    BY DEF IInv
  <2>2. (Live \cup ToSet(addSessQueue)) \cap deleted = {}
    BY <2>1 DEF PointersAreLive
  <2>3. (Live \cup ToSet(addSessQueue') ) \cap deleted = {}
    BY <1>1, <1>3, <2>2
  <2>4. \A x \in made \ deleted : x \in Live \/ x \in ToSet(addSessQueue)
    BY <2>1 DEF PointersAreLive
  <2>5. \A x \in made' \ deleted : x \in Live \/ x \in ToSet(addSessQueue')
    BY <1>2, <1>3, <2>4
  <2>6. QED
    BY <1>2, <1>4, <2>1, <2>3, <2>5 DEF PointersAreLive
<1>7. Incoming'
  BY <1>1, <1>2, <1>3, <1>4 DEF Incoming
<1>8. Visits' /\ OnlyActive' /\ IsFiniteSet(Live)'
  BY <1>2, <1>4 DEF IInv, Visits, OnlyActive
<1>9. QED
  BY <1>5, <1>6, <1>7, <1>8 DEF IInv

(* KickAll empties the queue. *)
LEMMA KickAllStep ==
  ASSUME IInv, KickAll
  PROVE  IInv'
<1>1. /\ queued' = <<>> /\ phase' = "add" /\ todo = {}
      /\ UNCHANGED <<addSessQueue, sessions, limit, disconnects, time, todo,
                     made, deleted, inQueue, expire, init, player>>
  BY DEF KickAll
<1>2. TypeOK /\ PointersAreLive /\ Incoming /\ OnlyActive
  BY DEF IInv
<1>3. Live' = Live /\ QueuedSet' = {} /\ IsInjective(queued')
  BY <1>1 DEF Live, QueuedSet, ToSet, IsInjective
<1>4. TypeOK'
  <2>1. open' = [s \in Session |-> open[s] /\ s \notin Live] /\ forceExit' = [s \in Session |-> forceExit[s] \/ s \in Live]
    BY DEF KickAll
  <2>2. open' \in [Session -> BOOLEAN] /\ forceExit' \in [Session -> BOOLEAN]
    BY <2>1
  <2>3. queued' \in Seq(Session)
    BY <1>1
  <2>4. running' \in BOOLEAN
    BY DEF KickAll
  <2>5. QED
    BY <1>1, <1>2, <2>2, <2>3, <2>4 DEF TypeOK
<1>5. PointersAreLive' /\ Incoming'
  BY <1>1, <1>2, <1>3 DEF PointersAreLive, Incoming
<1>6. Visits' /\ OnlyActive' /\ IsFiniteSet(Live)'
  BY <1>1, <1>2, <1>3 DEF IInv, Visits, OnlyActive, Active
<1>7. QED
  BY <1>4, <1>5, <1>6 DEF IInv

-----------------------------------------------------------------------------
(* The steps that move a session. *)

LEMMA FirstIncoming ==
  ASSUME IInv, addSessQueue # <<>>
  PROVE  LET s == Head(addSessQueue) IN
         /\ s \in Session /\ s \in made \ Live /\ s \notin deleted /\ AccountOf[s] \in Account
         /\ s \notin QueuedSet /\ init[s] = "no"
         /\ Tail(addSessQueue) \in Seq(Session) /\ IsInjective(Tail(addSessQueue))
         /\ ToSet(Tail(addSessQueue)) = ToSet(addSessQueue) \ {s} /\ s \in ToSet(addSessQueue)
<1> DEFINE s == Head(addSessQueue)
<1>1. /\ addSessQueue \in Seq(Session) /\ IsInjective(addSessQueue)
      /\ ToSet(addSessQueue) \subseteq made \ Live /\ made \subseteq Session
  BY DEF IInv, TypeOK, Incoming
<1>2. /\ Tail(addSessQueue) \in Seq(Session) /\ IsInjective(Tail(addSessQueue))
      /\ s \in ToSet(addSessQueue) /\ ToSet(Tail(addSessQueue)) = ToSet(addSessQueue) \ {s}
  BY <1>1, TailOfQueue
<1>3. s \in made \ Live /\ s \in Session
  BY <1>1, <1>2
<1>4. s \notin deleted /\ s \notin QueuedSet
  BY <1>2, <1>3 DEF IInv, PointersAreLive
<1>5. init[s] = "no"
  BY <1>3 DEF IInv, OnlyActive, Active
<1>6. QED
  BY <1>2, <1>3, <1>4, <1>5, SessionAssumption

LEMMA RefuseSessionStep ==
  ASSUME IInv, RefuseSession
  PROVE  IInv'
<1> DEFINE s == Head(addSessQueue)
<1>1. /\ addSessQueue # <<>> /\ deleted' = deleted \cup {s} /\ open' = Freed(open, {s}, TRUE)
      /\ addSessQueue' = Tail(addSessQueue)
      /\ UNCHANGED <<sessions, queued, limit, disconnects, time, phase, todo, running,
                     made, inQueue, forceExit, expire, init, player>>
  BY DEF RefuseSession
<1>2. /\ s \in Session /\ s \in made \ Live /\ s \notin deleted
      /\ addSessQueue' \in Seq(Session) /\ IsInjective(addSessQueue')
      /\ ToSet(addSessQueue') = ToSet(addSessQueue) \ {s} /\ s \in ToSet(addSessQueue)
  BY <1>1, FirstIncoming
<1> HIDE DEF s
<1>3. Live' = Live /\ QueuedSet' = QueuedSet /\ Active' = Active
  BY <1>1 DEF Live, QueuedSet, Active
<1>4. TypeOK'
  <2>1. TypeOK
    BY DEF IInv
  <2>2. open' \in [Session -> BOOLEAN]
    BY <1>1, <2>1 DEF TypeOK, Freed
  <2>3. QED
    BY <1>1, <1>2, <2>1, <2>2 DEF TypeOK
<1>5. PointersAreLive'
  <2>1. PointersAreLive
    BY DEF IInv
  <2>2. (Live \cup ToSet(addSessQueue)) \cap deleted = {}
    BY <2>1 DEF PointersAreLive
  <2>3. (Live \cup ToSet(addSessQueue')) \cap deleted' = {}
    BY <1>1, <1>2, <2>2
  <2>4. \A x \in made \ deleted : x \in Live \/ x \in ToSet(addSessQueue)
    BY <2>1 DEF PointersAreLive
  <2>5. \A x \in made \ deleted' : x \in Live \/ x \in ToSet(addSessQueue')
    BY <1>1, <1>2, <2>4
  <2>6. QED
    BY <1>1, <1>3, <2>1, <2>3, <2>5 DEF PointersAreLive
<1>6. Incoming'
  BY <1>1, <1>2, <1>3 DEF IInv, Incoming
<1>7. Visits' /\ OnlyActive' /\ IsFiniteSet(Live)'
  BY <1>1, <1>3 DEF IInv, Visits, OnlyActive
<1>8. QED
  BY <1>4, <1>5, <1>6, <1>7 DEF IInv

(* The parts of AdmitSession. *)
Newcomer == Head(addSessQueue)
Old == sessions[AccountOf[Newcomer]]
Removed ==
  IF Old = NoSession THEN [found |-> FALSE, queued |-> queued, popped |-> {}]
  ELSE RemoveQueuedPlayer(Old, Cardinality(Live), queued)
AllSessions == IF Old = NoSession THEN Cardinality(Live) + 1 ELSE Cardinality(Live)
OtherSessions == IF Removed.found THEN AllSessions ELSE AllSessions - 1
Waits ==
  /\ limit > 0 /\ OtherSessions >= limit /\ AccountOf[Newcomer] \notin SkipQueue
  /\ ~HasRecentlyDisconnected(AccountOf[Newcomer])

LEMMA AdmitSessionParts ==
  ASSUME AdmitSession
  PROVE  /\ phase = "add" /\ addSessQueue # <<>> /\ addSessQueue' = Tail(addSessQueue)
         /\ sessions' = [sessions EXCEPT ![AccountOf[Newcomer]] = Newcomer]
         /\ deleted' = deleted \cup ({Old} \ {NoSession})
         /\ queued' = IF Waits THEN Append(Removed.queued, Newcomer) ELSE Removed.queued
         /\ inQueue' = [Freed(inQueue, {Old}, FALSE) EXCEPT ![Newcomer] = Waits]
         /\ init' = Freed(Initialized(Removed.popped \cup IF Waits THEN {} ELSE {Newcomer}), {Old}, "no")
         /\ open' = Freed(open, {Old}, TRUE)
         /\ forceExit' = Freed(forceExit, {Old}, FALSE)
         /\ expire' = Freed(expire, {Old}, ExpireTime)
         /\ player' = Freed(player, {Old}, "none")
         /\ UNCHANGED <<limit, disconnects, time, phase, todo, running, made>>
  BY Zenon DEF AdmitSession, Newcomer, Old, Removed, AllSessions, OtherSessions, Waits

LEMMA RemovedServed ==
  ASSUME IInv, addSessQueue # <<>>
  PROVE  /\ Served(queued, Old, Removed.queued, Removed.popped)
         /\ Removed.found <=> Old \in QueuedSet
         /\ Old # NoSession => Old \in Live
         /\ Cardinality(Live) \in Nat /\ Cardinality(Active) = Cardinality(Live) - Len(queued)
         /\ IsFiniteSet(Active) /\ Cardinality(Active) \in Nat
<1>1. /\ queued \in Seq(Session) /\ IsInjective(queued) /\ QueuedSet \subseteq Live /\ IsFiniteSet(Live)
      /\ sessions \in [Account -> Session \cup {NoSession}] /\ Accounts
  BY DEF IInv, TypeOK, PointersAreLive, Accounts
<1>2. Cardinality(Live) \in Nat
  BY <1>1, FS_CardinalityType
<1>3. IsFiniteSet(QueuedSet) /\ Cardinality(QueuedSet) = Len(queued)
  BY <1>1, LenIsCardinality DEF QueuedSet
<1>4. Live \cap QueuedSet = QueuedSet
  BY <1>1
<1>5. IsFiniteSet(Active) /\ Cardinality(Active) = Cardinality(Live) - Len(queued)
  <2>1. /\ IsFiniteSet(Live \ QueuedSet)
        /\ Cardinality(Live \ QueuedSet) = Cardinality(Live) - Cardinality(Live \cap QueuedSet)
    BY <1>1, FS_Difference
  <2>2. QED
    BY <1>3, <1>4, <2>1 DEF Active
<1>6. Cardinality(Active) \in Nat
  BY <1>5, FS_CardinalityType
<1>7. AccountOf[Newcomer] \in Account
  BY FirstIncoming DEF Newcomer
<1>8. Old # NoSession => Old \in Live /\ Old \in Session
  BY <1>1, <1>7 DEF Old, Live
<1>9. CASE Old = NoSession
  <2>1. Removed = [found |-> FALSE, queued |-> queued, popped |-> {}]
    BY <1>9 DEF Removed
  <2>2. Old \notin QueuedSet
    BY <1>1, <1>9, ToSetOfSeq, SessionAssumption DEF QueuedSet
  <2>3. Served(queued, Old, queued, {})
    BY <1>1, <1>9, NobodyServed
  <2>4. Removed.found = FALSE /\ Removed.queued = queued /\ Removed.popped = {}
    BY <2>1
  <2>5. QED
    BY <1>2, <1>5, <1>6, <1>9, <2>2, <2>3, <2>4
<1>10. CASE Old # NoSession
  <2>1. Removed = RemoveQueuedPlayer(Old, Cardinality(Live), queued)
    BY <1>10 DEF Removed
  <2>2. QED
    BY <1>1, <1>2, <1>5, <1>6, <1>8, <1>10, <2>1, RemovedQueuedPlayer DEF QueuedSet
<1>11. QED
  BY <1>9, <1>10

LEMMA AdmitSessionStep ==
  ASSUME IInv, AdmitSession
  PROVE  /\ IInv'
         /\ Old \notin Live'
         /\ Live' = (Live \ {Old}) \cup {Newcomer} /\ Newcomer \notin Live
         /\ \A x \in Session : init'[x] # "no" =>
              x \in Removed.popped \/ (x = Newcomer /\ ~Waits) \/ (init[x] # "no" /\ x # Old)
<1>1. /\ phase = "add" /\ addSessQueue # <<>> /\ addSessQueue' = Tail(addSessQueue)
      /\ sessions' = [sessions EXCEPT ![AccountOf[Newcomer]] = Newcomer]
      /\ deleted' = deleted \cup ({Old} \ {NoSession})
      /\ queued' = IF Waits THEN Append(Removed.queued, Newcomer) ELSE Removed.queued
      /\ init' = Freed(Initialized(Removed.popped \cup IF Waits THEN {} ELSE {Newcomer}), {Old}, "no")
      /\ UNCHANGED <<limit, disconnects, time, phase, todo, running, made>>
  BY AdmitSessionParts
<1>2. /\ Newcomer \in Session /\ Newcomer \in made \ Live /\ Newcomer \notin deleted
      /\ Newcomer \notin QueuedSet /\ init[Newcomer] = "no"
      /\ addSessQueue' \in Seq(Session) /\ IsInjective(addSessQueue')
      /\ ToSet(addSessQueue') = ToSet(addSessQueue) \ {Newcomer} /\ Newcomer \in ToSet(addSessQueue)
  BY <1>1, FirstIncoming DEF Newcomer
<1>3. /\ TypeOK /\ PointersAreLive /\ Incoming /\ Visits /\ OnlyActive /\ IsFiniteSet(Live)
      /\ sessions \in [Account -> Session \cup {NoSession}] /\ Accounts
  BY DEF IInv, TypeOK, PointersAreLive, Accounts
<1>4. Served(queued, Old, Removed.queued, Removed.popped) /\ (Old # NoSession => Old \in Live)
  BY <1>1, RemovedServed
<1>5. /\ sessions' \in [Account -> Session \cup {NoSession}] /\ Accounts'
      /\ Live' = (Live \ {Old}) \cup {Newcomer}
  BY <1>1, <1>2, <1>3, Replaced DEF Old
<1>6. Old # Newcomer /\ Old \notin Live'
  <2>1. NoSession \notin Live'
    BY DEF Live
  <2>2. Old # NoSession => Old # Newcomer
    BY <1>2, <1>4
  <2>3. QED
    BY <1>2, <1>5, <2>1, <2>2, SessionAssumption
<1>7. /\ Removed.queued \in Seq(Session) /\ IsInjective(Removed.queued)
      /\ Removed.popped \subseteq QueuedSet \ {Old}
      /\ ToSet(Removed.queued) = QueuedSet \ ({Old} \cup Removed.popped)
  BY <1>4 DEF Served, QueuedSet
<1>8. /\ queued' \in Seq(Session) /\ IsInjective(queued')
      /\ QueuedSet' = ToSet(Removed.queued) \cup (IF Waits THEN {Newcomer} ELSE {})
  <2>1. CASE Waits
    <3>1. Newcomer \notin ToSet(Removed.queued)
      BY <1>2, <1>7
    <3>2. QED
      BY <1>1, <1>2, <1>7, <2>1, <3>1, AppendedQueue DEF QueuedSet
  <2>2. CASE ~Waits
    BY <1>1, <1>7, <2>2 DEF QueuedSet
  <2>3. QED
    BY <2>1, <2>2
<1>9. /\ init' \in [Session -> InitStates]
      /\ \A x \in Session : init'[x] # "no" =>
           x \in Removed.popped \/ (x = Newcomer /\ ~Waits) \/ (init[x] # "no" /\ x # Old)
  <2> DEFINE out == Removed.popped \cup IF Waits THEN {} ELSE {Newcomer}
  <2>1. init \in [Session -> InitStates] /\ "no" \in InitStates
    BY <1>3 DEF TypeOK, InitStates
  <2>2. init' = Freed(Initialized(out), {Old}, "no")
    BY <1>1
  <2>3. \A x \in out : x \in Removed.popped \/ (x = Newcomer /\ ~Waits)
    OBVIOUS
  <2> HIDE DEF out
  <2>4. /\ Initialized(out) \in [Session -> InitStates]
        /\ \A x \in Session : Initialized(out)[x] = IF x \in out THEN "waiting" ELSE init[x]
    BY <2>1, InitializedStates
  <2>5. /\ init' \in [Session -> InitStates]
        /\ \A x \in Session : init'[x] = IF x \in {Old} THEN "no" ELSE Initialized(out)[x]
    BY <2>1, <2>2, <2>4, FieldsFreed
  <2>6. QED
    BY <2>3, <2>4, <2>5
<1>10. TypeOK'
  <2>1. /\ inQueue' = [Freed(inQueue, {Old}, FALSE) EXCEPT ![Newcomer] = Waits]
        /\ open' = Freed(open, {Old}, TRUE)
        /\ forceExit' = Freed(forceExit, {Old}, FALSE)
        /\ expire' = Freed(expire, {Old}, ExpireTime)
        /\ player' = Freed(player, {Old}, "none")
    BY AdmitSessionParts
  <2>2. open' \in [Session -> BOOLEAN] /\ forceExit' \in [Session -> BOOLEAN]
    BY <1>3, <2>1 DEF TypeOK, Freed
  <2>3. inQueue' \in [Session -> BOOLEAN]
    <3>1. Waits \in BOOLEAN
      BY DEF Waits
    <3>2. Freed(inQueue, {Old}, FALSE) \in [Session -> BOOLEAN]
      BY <1>3 DEF TypeOK, Freed
    <3>3. QED
      BY <2>1, <3>1, <3>2
  <2>4. expire' \in [Session -> 0 .. ExpireTime]
    BY <1>3, <2>1, NumbersAssumption DEF TypeOK, Freed
  <2>5. player' \in [Session -> {"none", "loading", "unmarked", "world"}]
    BY <1>3, <2>1 DEF TypeOK, Freed
  <2>6. made' \subseteq Session /\ deleted' \subseteq made'
    BY <1>1, <1>3, <1>4 DEF TypeOK, Incoming
  <2>7. QED
    BY <1>1, <1>2, <1>3, <1>5, <1>8, <1>9, <2>2, <2>3, <2>4, <2>5, <2>6 DEF TypeOK, InitStates
<1>11. PointersAreLive'
  <2>1. QueuedSet \subseteq Live /\ (Live \cup ToSet(addSessQueue)) \cap deleted = {}
    BY <1>3 DEF PointersAreLive
  <2>2. ToSet(addSessQueue) \cap Live = {}
    BY <1>3 DEF Incoming
  <2>3. QueuedSet' \subseteq Live'
    BY <1>5, <1>7, <1>8, <2>1
  <2>4. (Live' \cup ToSet(addSessQueue')) \cap deleted' = {}
    <3>1. Live' \cap deleted' = {}
      BY <1>1, <1>2, <1>5, <1>6, <2>1
    <3>2. ToSet(addSessQueue') \cap deleted' = {}
      BY <1>1, <1>2, <1>4, <2>1, <2>2
    <3>3. QED
      BY <3>1, <3>2
  <2>5. \A x \in made' \ deleted' : x \in Live' \/ x \in ToSet(addSessQueue')
    <3>1. \A x \in made \ deleted : x \in Live \/ x \in ToSet(addSessQueue)
      BY <1>3 DEF PointersAreLive
    <3>2. Old # NoSession => Old \in deleted'
      BY <1>1
    <3>3. NoSession \notin made
      BY <1>3, SessionAssumption DEF TypeOK
    <3>4. QED
      BY <1>1, <1>2, <1>5, <3>1, <3>2, <3>3
  <2>6. QED
    BY <1>5, <1>8, <2>3, <2>4, <2>5 DEF PointersAreLive, Accounts
<1>12. Incoming'
  <2>1. ToSet(addSessQueue) \subseteq made \ Live /\ Live \subseteq made
    BY <1>3 DEF Incoming
  <2>2. ToSet(addSessQueue') \subseteq made' \ Live' /\ Live' \subseteq made'
    BY <1>1, <1>2, <1>5, <2>1
  <2>3. QED
    BY <1>2, <2>2 DEF Incoming
<1>13. Visits'
  BY <1>1, <1>3 DEF Visits
<1>14. OnlyActive'
  <2> SUFFICES ASSUME NEW x \in Session, init'[x] # "no"
               PROVE  x \in Live' /\ x \notin QueuedSet'
    BY DEF OnlyActive, Active
  <2>1. CASE x \in Removed.popped
    <3>1. x \in QueuedSet /\ x # Old /\ x \in Live
      BY <1>3, <1>7, <2>1 DEF PointersAreLive
    <3>2. QED
      BY <1>2, <1>5, <1>7, <1>8, <2>1, <3>1
  <2>2. CASE x = Newcomer /\ ~Waits
    BY <1>2, <1>5, <1>7, <1>8, <2>2
  <2>3. CASE init[x] # "no" /\ x # Old
    <3>1. x \in Live /\ x \notin QueuedSet
      BY <1>3, <2>3 DEF OnlyActive, Active
    <3>2. QED
      BY <1>2, <1>5, <1>7, <1>8, <2>3, <3>1
  <2>4. QED
    BY <1>9, <2>1, <2>2, <2>3
<1>15. IsFiniteSet(Live)'
  <2>1. IsFiniteSet(Live \ {Old})
    BY <1>3, FS_RemoveElement
  <2>2. IsFiniteSet((Live \ {Old}) \cup {Newcomer})
    BY <2>1, FS_AddElement
  <2>3. QED
    BY <1>5, <2>2
<1>16. QED
  BY <1>2, <1>5, <1>6, <1>9, <1>10, <1>11, <1>12, <1>13, <1>14, <1>15 DEF IInv

(* The parts of DropSession. *)
First(s) == RemoveQueuedPlayer(s, Cardinality(Live), queued)
Second(s) == RemoveQueuedPlayer(s, Cardinality(Live), First(s).queued)
Popped(s) == First(s).popped \cup Second(s).popped

LEMMA DropSessionParts ==
  ASSUME NEW s \in Session, DropSession(s)
  PROVE  /\ phase = "update" /\ s \in todo /\ queued' = Second(s).queued
         /\ init' = Freed(Initialized(Popped(s)), {s}, "no")
         /\ disconnects' = IF ~First(s).found /\ Tolerance > 0
                           THEN [disconnects EXCEPT ![AccountOf[s]] = time] ELSE disconnects
         /\ sessions' = [sessions EXCEPT ![AccountOf[s]] = NoSession]
         /\ deleted' = deleted \cup {s}
         /\ inQueue' = Freed(inQueue, {s}, FALSE)
         /\ open' = Freed(open, {s}, TRUE)
         /\ forceExit' = Freed(forceExit, {s}, FALSE)
         /\ expire' = Freed(expire, {s}, ExpireTime)
         /\ player' = Freed(player, {s}, "none")
         /\ todo' = todo \ {s}
         /\ UNCHANGED <<addSessQueue, limit, time, phase, running, made>>
  BY Zenon DEF DropSession, First, Second, Popped

LEMMA DropServed ==
  ASSUME IInv, NEW s \in Session
  PROVE  /\ Served(queued, s, First(s).queued, First(s).popped)
         /\ Served(First(s).queued, s, Second(s).queued, Second(s).popped)
         /\ Served(queued, s, Second(s).queued, Popped(s))
<1>1. queued \in Seq(Session) /\ IsInjective(queued) /\ Cardinality(Live) \in Nat
  BY FS_CardinalityType DEF IInv, TypeOK, PointersAreLive
<1>2. Served(queued, s, First(s).queued, First(s).popped)
  BY <1>1, RemovedQueuedPlayer DEF First
<1>3. First(s).queued \in Seq(Session) /\ IsInjective(First(s).queued)
  BY <1>2 DEF Served
<1>4. Served(First(s).queued, s, Second(s).queued, Second(s).popped)
  BY <1>1, <1>3, RemovedQueuedPlayer DEF Second
<1>5. Served(queued, s, Second(s).queued, Popped(s))
  BY <1>1, <1>2, <1>4, ServedAgain DEF Popped
<1>6. QED
  BY <1>2, <1>4, <1>5

LEMMA DropSessionStep ==
  ASSUME IInv, NEW s \in Session, DropSession(s)
  PROVE  /\ IInv'
         /\ Live' = Live \ {s} /\ s \in Live
         /\ \A x \in Session : init'[x] # "no" => x # s /\ (x \in Popped(s) \/ init[x] # "no")
<1>1. /\ phase = "update" /\ s \in todo /\ queued' = Second(s).queued
      /\ init' = Freed(Initialized(Popped(s)), {s}, "no")
      /\ sessions' = [sessions EXCEPT ![AccountOf[s]] = NoSession]
      /\ deleted' = deleted \cup {s} /\ todo' = todo \ {s}
      /\ UNCHANGED <<addSessQueue, limit, time, phase, running, made>>
  BY DropSessionParts
<1>2. /\ TypeOK /\ PointersAreLive /\ Incoming /\ Visits /\ OnlyActive /\ IsFiniteSet(Live)
      /\ sessions \in [Account -> Session \cup {NoSession}] /\ Accounts
  BY DEF IInv, TypeOK, PointersAreLive, Accounts
<1>3. s \in Live
  BY <1>1, <1>2 DEF Visits
<1>4. /\ sessions' \in [Account -> Session \cup {NoSession}] /\ Accounts'
      /\ Live' = Live \ {s}
  BY <1>1, <1>2, <1>3, Erased
<1>5. /\ queued' \in Seq(Session) /\ IsInjective(queued')
      /\ Popped(s) \subseteq QueuedSet \ {s}
      /\ QueuedSet' = QueuedSet \ ({s} \cup Popped(s))
  BY <1>1, DropServed DEF Served, QueuedSet
<1>6. /\ init' \in [Session -> InitStates]
      /\ \A x \in Session : init'[x] # "no" => x # s /\ (x \in Popped(s) \/ init[x] # "no")
  <2>1. init \in [Session -> InitStates] /\ "no" \in InitStates
    BY <1>2 DEF TypeOK, InitStates
  <2>2. /\ Initialized(Popped(s)) \in [Session -> InitStates]
        /\ \A x \in Session : Initialized(Popped(s))[x] = IF x \in Popped(s) THEN "waiting" ELSE init[x]
    BY <2>1, InitializedStates
  <2>3. /\ init' \in [Session -> InitStates]
        /\ \A x \in Session : init'[x] = IF x \in {s} THEN "no" ELSE Initialized(Popped(s))[x]
    BY <1>1, <2>1, <2>2 DEF Freed
  <2>4. QED
    BY <2>2, <2>3
<1>7. TypeOK'
  <2>1. /\ inQueue' = Freed(inQueue, {s}, FALSE)
        /\ open' = Freed(open, {s}, TRUE)
        /\ forceExit' = Freed(forceExit, {s}, FALSE)
        /\ expire' = Freed(expire, {s}, ExpireTime)
        /\ player' = Freed(player, {s}, "none")
        /\ disconnects' = IF ~First(s).found /\ Tolerance > 0
                          THEN [disconnects EXCEPT ![AccountOf[s]] = time] ELSE disconnects
    BY DropSessionParts
  <2>2. /\ open' \in [Session -> BOOLEAN] /\ forceExit' \in [Session -> BOOLEAN]
        /\ inQueue' \in [Session -> BOOLEAN]
    BY <1>2, <2>1 DEF TypeOK, Freed
  <2>3. expire' \in [Session -> 0 .. ExpireTime]
    BY <1>2, <2>1, NumbersAssumption DEF TypeOK, Freed
  <2>4. player' \in [Session -> {"none", "loading", "unmarked", "world"}]
    BY <1>2, <2>1 DEF TypeOK, Freed
  <2>5. disconnects' \in [Account -> 0 .. MaxTime \cup {Never}]
    BY <1>2, <2>1 DEF TypeOK
  <2>6. made' \subseteq Session /\ deleted' \subseteq made' /\ todo' \subseteq Session
    BY <1>1, <1>2, <1>3 DEF TypeOK, Incoming
  <2>7. QED
    BY <1>1, <1>2, <1>4, <1>5, <1>6, <2>2, <2>3, <2>4, <2>5, <2>6 DEF TypeOK, InitStates
<1>8. PointersAreLive'
  <2>1. QueuedSet \subseteq Live /\ (Live \cup ToSet(addSessQueue)) \cap deleted = {}
    BY <1>2 DEF PointersAreLive
  <2>2. QueuedSet' \subseteq Live'
    BY <1>4, <1>5, <2>1
  <2>3. ToSet(addSessQueue) \cap Live = {} /\ addSessQueue' = addSessQueue
    BY <1>1, <1>2 DEF Incoming
  <2>4. (Live' \cup ToSet(addSessQueue')) \cap deleted' = {}
    BY <1>1, <1>3, <1>4, <2>1, <2>3
  <2>5. \A x \in made' \ deleted' : x \in Live' \/ x \in ToSet(addSessQueue')
    BY <1>1, <1>2, <1>4, <2>3 DEF PointersAreLive
  <2>6. QED
    BY <1>4, <1>5, <2>2, <2>4, <2>5 DEF PointersAreLive, Accounts
<1>9. Incoming' /\ Visits'
  BY <1>1, <1>2, <1>4 DEF Incoming, Visits
<1>10. OnlyActive'
  <2> SUFFICES ASSUME NEW x \in Session, init'[x] # "no"
               PROVE  x \in Live' /\ x \notin QueuedSet'
    BY DEF OnlyActive, Active
  <2>1. x # s /\ (x \in Popped(s) \/ init[x] # "no")
    BY <1>6
  <2>2. CASE x \in Popped(s)
    BY <1>2, <1>4, <1>5, <2>1, <2>2 DEF PointersAreLive
  <2>3. CASE init[x] # "no"
    BY <1>2, <1>4, <1>5, <2>1, <2>3 DEF OnlyActive, Active
  <2>4. QED
    BY <2>1, <2>2, <2>3
<1>11. IsFiniteSet(Live)'
  BY <1>2, <1>4, FS_RemoveElement
<1>12. QED
  BY <1>3, <1>4, <1>6, <1>7, <1>8, <1>9, <1>10, <1>11 DEF IInv

-----------------------------------------------------------------------------
LEMMA StepKeepsInv == IInv /\ [Next]_vars => IInv'
<1> SUFFICES ASSUME IInv, [Next]_vars
             PROVE  IInv'
  OBVIOUS
<1>1. CASE RefuseSession
  BY <1>1, RefuseSessionStep
<1>2. CASE AdmitSession
  BY <1>2, AdmitSessionStep
<1>3. CASE KickAll
  BY <1>3, KickAllStep
<1>4. ASSUME NEW s \in Session, AddSession(s)
      PROVE  IInv'
  BY <1>4, AddSessionStep
<1>5. ASSUME NEW s \in Session, DropSession(s)
      PROVE  IInv'
  BY <1>5, DropSessionStep
<1>6. CASE \/ \E s \in Session : CloseSocket(s) \/ Answer(s) \/ Kick(s) \/ KeepSession(s)
           \/ \E l \in Limits : SetPlayerAmountLimit(l)
           \/ Tick \/ BeginUpdates \/ EndUpdates
  BY <1>6, QuietSteps
<1>7. CASE UNCHANGED vars
  <2>1. UNCHANGED <<addSessQueue, sessions, queued, limit, disconnects, time, phase, todo, running,
                    made, deleted, open, inQueue, forceExit, expire, init, player>>
    BY <1>7 DEF vars, perSession
  <2>2. PointersAreLive' /\ Incoming' /\ IsFiniteSet(Live)' /\ Live' = Live /\ Active' = Active
    BY <2>1, NothingMoves DEF IInv
  <2>3. TypeOK' /\ Visits' /\ OnlyActive'
    BY <2>1, <2>2 DEF IInv, TypeOK, Visits, OnlyActive
  <2>4. QED
    BY <2>2, <2>3 DEF IInv
<1>8. QED
  BY <1>1, <1>2, <1>3, <1>4, <1>5, <1>6, <1>7 DEF Next, WorldStep

(* The type invariant. *)
THEOREM TypeCorrect == Spec => []TypeOK
<1>1. Init => IInv
  BY InvInit
<1>2. IInv /\ [Next]_vars => IInv'
  BY StepKeepsInv
<1>3. IInv => TypeOK
  BY DEF IInv
<1>4. QED
  BY <1>1, <1>2, <1>3, PTL DEF Spec

(* Every session object that was added and not deleted is in exactly one   *)
(* container, where it is found under its account, and none that was       *)
(* deleted is, for any number of sessions and accounts, whatever limits     *)
(* are set.                                                                *)
THEOREM EveryPointerIsLive == Spec => []PointersAreLive
<1>1. Init => IInv
  BY InvInit
<1>2. IInv /\ [Next]_vars => IInv'
  BY StepKeepsInv
<1>3. IInv => PointersAreLive
  BY DEF IInv
<1>4. QED
  BY <1>1, <1>2, <1>3, PTL DEF Spec

-----------------------------------------------------------------------------
(* The order of the queue. *)

LEMMA StepKeepsOrder ==
  ASSUME IInv, [Next]_vars, NEW i \in 1 .. Len(queued), NEW j \in 1 .. Len(queued),
         i < j, queued[i] \in QueuedSet'
  PROVE  \/ queued[j] \notin Live'
         \/ \E k, l \in 1 .. Len(queued') : k < l /\ queued'[k] = queued[i] /\ queued'[l] = queued[j]
<1>1. queued \in Seq(Session) /\ IsInjective(queued)
  BY DEF IInv, TypeOK, PointersAreLive
<1>2. queued[i] \in QueuedSet /\ queued[j] \in QueuedSet
  BY <1>1, ToSetOfSeq DEF QueuedSet
<1>3. CASE AdmitSession
  <2>1. /\ addSessQueue # <<>>
        /\ queued' = IF Waits THEN Append(Removed.queued, Newcomer) ELSE Removed.queued
    BY <1>3, AdmitSessionParts
  <2>2. Served(queued, Old, Removed.queued, Removed.popped) /\ Newcomer \notin QueuedSet /\ Newcomer \in Session
    BY <2>1, RemovedServed, FirstIncoming DEF Newcomer
  <2>3. Removed.queued \in Seq(Session) /\ IsInjective(Removed.queued)
        /\ ToSet(Removed.queued) \subseteq QueuedSet
    BY <2>2 DEF Served, QueuedSet
  <2>4. /\ QueuedSet' \subseteq ToSet(Removed.queued) \cup {Newcomer}
        /\ Len(queued') >= Len(Removed.queued) /\ Len(queued') \in Nat
        /\ \A k \in 1 .. Len(Removed.queued) : queued'[k] = Removed.queued[k]
    <3>1. CASE Waits
      <4>1. queued' = Append(Removed.queued, Newcomer) /\ Newcomer \notin ToSet(Removed.queued)
        BY <2>1, <2>2, <2>3, <3>1
      <4>2. QED
        BY <2>2, <2>3, <4>1, AppendedQueue DEF QueuedSet
    <3>2. CASE ~Waits
      BY <2>1, <2>3, <3>2 DEF QueuedSet
    <3>3. QED
      BY <3>1, <3>2
  <2>5. queued[i] \in ToSet(Removed.queued)
    BY <1>2, <2>2, <2>4
  <2>6. \/ queued[j] = Old
        \/ \E k, l \in 1 .. Len(Removed.queued) :
             k < l /\ Removed.queued[k] = queued[i] /\ Removed.queued[l] = queued[j]
    BY <1>1, <2>2, <2>5, ServedInOrder
  <2>7. Old \notin Live'
    BY <1>3, AdmitSessionStep
  <2>8. \A k \in 1 .. Len(Removed.queued) : k \in 1 .. Len(queued')
    BY <2>3, <2>4
  <2>9. QED
    BY <2>4, <2>6, <2>7, <2>8
<1>4. ASSUME NEW s \in Session, DropSession(s)
      PROVE  \/ queued[j] \notin Live'
             \/ \E k, l \in 1 .. Len(queued') : k < l /\ queued'[k] = queued[i] /\ queued'[l] = queued[j]
  <2>1. queued' = Second(s).queued /\ Served(queued, s, Second(s).queued, Popped(s))
    BY <1>4, DropSessionParts, DropServed
  <2>2. \/ queued[j] = s
        \/ \E k, l \in 1 .. Len(queued') : k < l /\ queued'[k] = queued[i] /\ queued'[l] = queued[j]
    BY <1>1, <2>1, ServedInOrder DEF QueuedSet
  <2>3. s \notin Live'
    BY <1>4, DropSessionStep
  <2>4. QED
    BY <2>2, <2>3
<1>5. CASE KickAll
  <2>1. QueuedSet' = {}
    BY <1>5 DEF KickAll, QueuedSet, ToSet
  <2>2. QED
    BY <2>1
<1>6. CASE queued' = queued
  BY <1>6
<1>7. \/ queued' = queued \/ AdmitSession \/ KickAll
      \/ \E s \in Session : DropSession(s)
  BY DEF Next, WorldStep, vars, perSession, RefuseSession, BeginUpdates, EndUpdates, KeepSession, Tick,
         AddSession, CloseSocket, Answer, Kick, SetPlayerAmountLimit
<1>8. QED
  BY <1>3, <1>4, <1>5, <1>6, <1>7

(* Whoever leaves the middle of the queue, and however many leave its head *)
(* in one step, the others stay in their order, and nobody is admitted     *)
(* before one who goes on waiting in front of him.                         *)
THEOREM AdmissionKeepsOrder == Spec => AdmittedInOrder
<1>1. Init => IInv
  BY InvInit
<1>2. IInv /\ [Next]_vars => IInv'
  BY StepKeepsInv
<1> DEFINE InOrder ==
      \A i, j \in 1 .. Len(queued) : i < j /\ queued[i] \in QueuedSet' =>
        \/ queued[j] \notin Live'
        \/ \E k, l \in 1 .. Len(queued') : k < l /\ queued'[k] = queued[i] /\ queued'[l] = queued[j]
<1>3. IInv /\ [Next]_vars => InOrder
  BY StepKeepsOrder
<1>4. IInv /\ [Next]_vars => [InOrder]_vars
  BY <1>3
<1>5. AdmittedInOrder <=> [][InOrder]_vars
  BY DEF AdmittedInOrder
<1> HIDE DEF InOrder
<1>6. QED
  BY <1>1, <1>2, <1>4, <1>5, PTL DEF Spec

-----------------------------------------------------------------------------
(* The limit. *)

Admitted == {s \in Live : init[s] # "no" /\ AccountOf[s] \notin SkipQueue}

LEMMA LimitIsLimit ==
  /\ LimitHolds <=>
       /\ limit > 0 => Cardinality(Admitted) <= limit
       /\ queued # <<>> => limit > 0 /\ Cardinality(Active) >= limit
  BY DEF LimitHolds, Admitted

LEMMA Counts ==
  ASSUME IInv
  PROVE  /\ Cardinality(Live) \in Nat /\ limit \in Nat /\ Len(queued) \in Nat
         /\ IsFiniteSet(Active) /\ Cardinality(Active) \in Nat
         /\ Cardinality(Active) = Cardinality(Live) - Len(queued)
         /\ Admitted \subseteq Active
         /\ IsFiniteSet(Admitted) /\ Cardinality(Admitted) \in Nat
         /\ queued \in Seq(Session) /\ IsInjective(queued)
<1>1. /\ queued \in Seq(Session) /\ IsInjective(queued) /\ QueuedSet \subseteq Live /\ IsFiniteSet(Live)
      /\ limit \in Nat
  BY NumbersAssumption DEF IInv, TypeOK, PointersAreLive
<1>2. IsFiniteSet(QueuedSet) /\ Cardinality(QueuedSet) = Len(queued)
  BY <1>1, LenIsCardinality DEF QueuedSet
<1>3. Live \cap QueuedSet = QueuedSet
  BY <1>1
<1>4. /\ IsFiniteSet(Live \ QueuedSet)
      /\ Cardinality(Live \ QueuedSet) = Cardinality(Live) - Cardinality(Live \cap QueuedSet)
  BY <1>1, FS_Difference
<1>5. Admitted \subseteq Active
  BY <1>1, LiveSessions DEF IInv, TypeOK, PointersAreLive, Accounts, OnlyActive, Admitted
<1>6. IsFiniteSet(Active)
  BY <1>4 DEF Active
<1>7. IsFiniteSet(Admitted)
  BY <1>5, <1>6, FS_Subset
<1>8. Cardinality(Live) \in Nat /\ Cardinality(Active) \in Nat /\ Cardinality(Admitted) \in Nat
  BY <1>1, <1>6, <1>7, FS_CardinalityType
<1>9. Cardinality(Active) = Cardinality(Live) - Len(queued)
  BY <1>2, <1>3, <1>4 DEF Active
<1>10. Len(queued) \in Nat
  BY <1>1
<1>11. QED
  BY <1>1, <1>5, <1>6, <1>7, <1>8, <1>9, <1>10

Counted ==
  /\ IsFiniteSet(Live) /\ Cardinality(Active) = Cardinality(Live) - Len(queued)
  /\ Cardinality(Admitted) \in Nat /\ Len(queued) \in Nat
  /\ queued # <<>> => Len(queued) > 0

LEMMA CountsNext == IInv' => Counted'
<1>1. IInv => Counted
  <2> SUFFICES ASSUME IInv
               PROVE  Counted
    OBVIOUS
  <2>1. queued \in Seq(Session) /\ IsFiniteSet(Live)
    BY DEF IInv, TypeOK
  <2>2. queued # <<>> => Len(queued) > 0
    BY <2>1
  <2>3. QED
    BY <2>1, <2>2, Counts DEF Counted
<1>2. QED
  BY <1>1, PTL

LEMMA OneForOne ==
  ASSUME NEW S, IsFiniteSet(S), NEW gone \in S, NEW new, NEW T, T \subseteq (S \ {gone}) \cup {new}
  PROVE  Cardinality(T) <= Cardinality(S)
<1> DEFINE rest == S \ {gone}
<1>1. IsFiniteSet(rest) /\ Cardinality(rest) = Cardinality(S) - 1
  BY FS_RemoveElement
<1>2. /\ IsFiniteSet(rest \cup {new})
      /\ Cardinality(rest \cup {new}) <= Cardinality(rest) + 1
  BY <1>1, FS_AddElement, FS_CardinalityType
<1>3. Cardinality(T) <= Cardinality(rest \cup {new})
  BY <1>2, FS_Subset
<1>4. IsFiniteSet(T) /\ Cardinality(S) \in Nat
  BY <1>2, FS_Subset, FS_CardinalityType
<1>5. Cardinality(T) \in Nat /\ Cardinality(rest) \in Nat /\ Cardinality(rest \cup {new}) \in Nat
  BY <1>1, <1>2, <1>4, FS_CardinalityType
<1>6. QED
  BY <1>1, <1>2, <1>3, <1>4, <1>5

(* The first player in and everybody who waits are as many as before, or   *)
(* fewer have been initialized: the limit holds as it did.                 *)
LEMMA NobodyAdmitted ==
  ASSUME IInv, LimitHolds, limit' = limit, UNCHANGED <<sessions, queued>> \/ (UNCHANGED sessions /\ queued' = <<>>),
         \A x \in Live : init'[x] # "no" => init[x] # "no"
  PROVE  LimitHolds'
<1>1. Live' = Live
  BY DEF Live
<1>2. Admitted' \subseteq Admitted
  BY <1>1 DEF Admitted
<1>3. Cardinality(Admitted') <= Cardinality(Admitted) /\ Cardinality(Admitted') \in Nat
  BY <1>2, Counts, FS_Subset, FS_CardinalityType
<1>4. limit' > 0 => Cardinality(Admitted') <= limit'
  BY <1>3, Counts, LimitIsLimit
<1>5. queued' # <<>> => limit' > 0 /\ Cardinality(Active') >= limit'
  <2>1. SUFFICES ASSUME queued' = queued, queued # <<>>
                 PROVE  limit' > 0 /\ Cardinality(Active') >= limit'
    OBVIOUS
  <2>2. Active' = Active
    BY <1>1, <2>1 DEF Active, QueuedSet
  <2>3. QED
    BY <2>1, <2>2, LimitIsLimit
<1>6. LimitHolds' <=>
        /\ limit' > 0 => Cardinality(Admitted') <= limit'
        /\ queued' # <<>> => limit' > 0 /\ Cardinality(Active') >= limit'
  BY DEF LimitHolds, Admitted
<1>7. QED
  BY <1>4, <1>5, <1>6

LEMMA AdmitSessionLimit ==
  ASSUME IInv, LimitHolds, Tolerance = 0, AdmitSession
  PROVE  LimitHolds'
<1> DEFINE n == Cardinality(Live)
           len == Len(queued)
           active == Cardinality(Active)
           left == Len(Removed.queued)
<1>1. /\ addSessQueue # <<>> /\ limit' = limit
      /\ queued' = IF Waits THEN Append(Removed.queued, Newcomer) ELSE Removed.queued
  BY AdmitSessionParts
<1>2. /\ IInv' /\ Live' = (Live \ {Old}) \cup {Newcomer} /\ Newcomer \notin Live
      /\ \A x \in Session : init'[x] # "no" =>
           x \in Removed.popped \/ (x = Newcomer /\ ~Waits) \/ (init[x] # "no" /\ x # Old)
  BY AdmitSessionStep
<1>3. /\ Served(queued, Old, Removed.queued, Removed.popped)
      /\ Removed.found <=> Old \in QueuedSet
      /\ Old # NoSession => Old \in Live
  BY <1>1, RemovedServed
<1>4. /\ n \in Nat /\ limit \in Nat /\ len \in Nat /\ active \in Nat /\ active = n - len
      /\ IsFiniteSet(Active) /\ Admitted \subseteq Active /\ IsFiniteSet(Admitted)
      /\ Cardinality(Admitted) \in Nat /\ queued \in Seq(Session) /\ IsInjective(queued)
  BY Counts
<1>5. /\ limit > 0 => Cardinality(Admitted) <= limit
      /\ len > 0 => limit > 0 /\ active >= limit
  BY <1>4, LimitIsLimit
<1>6. Cardinality(Live') = AllSessions /\ IsFiniteSet(Live')
  <2>1. IsFiniteSet(Live) /\ NoSession \notin Live
    BY DEF IInv, Live
  <2>2. /\ IsFiniteSet(Live \ {Old})
        /\ Cardinality(Live \ {Old}) = IF Old \in Live THEN n - 1 ELSE n
    BY <2>1, FS_RemoveElement
  <2>3. Newcomer \notin Live \ {Old}
    BY <1>2
  <2>4. /\ IsFiniteSet((Live \ {Old}) \cup {Newcomer})
        /\ Cardinality((Live \ {Old}) \cup {Newcomer}) = Cardinality(Live \ {Old}) + 1
    BY <2>2, <2>3, FS_AddElement
  <2>5. Old \in Live <=> Old # NoSession
    BY <1>3, <2>1
  <2>6. QED
    BY <1>2, <1>4, <2>2, <2>4, <2>5 DEF AllSessions
<1> DEFINE pops == Old # NoSession /\ Pops(Old, n, queued)
<1>7. /\ left \in Nat
      /\ left = IF pops THEN Left(Old, queued) - 1 ELSE Left(Old, queued)
      /\ pops => \E x : Removed.popped = {x}
      /\ ~pops => Removed.popped = {}
  <2>1. CASE Old = NoSession
    <3>1. Removed.queued = queued /\ Removed.popped = {}
      BY <2>1 DEF Removed
    <3>2. Old \notin ToSet(queued)
      BY <1>4, <2>1, ToSetOfSeq, SessionAssumption
    <3>3. QED
      BY <1>4, <2>1, <3>1, <3>2 DEF Left
  <2>2. CASE Old # NoSession
    <3>1. Removed = RemoveQueuedPlayer(Old, n, queued) /\ Old \in Session
      BY <1>3, <2>2, LiveSessions DEF Removed, IInv, TypeOK, PointersAreLive, Accounts
    <3>2. Removed.queued \in Seq(Session)
      BY <1>3 DEF Served
    <3>3. /\ left = IF Pops(Old, n, queued) THEN Left(Old, queued) - 1 ELSE Left(Old, queued)
          /\ Pops(Old, n, queued) => \E x : Removed.popped = {x}
          /\ ~Pops(Old, n, queued) => Removed.popped = {}
      BY <1>4, <3>1, RemovedQueuedPlayer
    <3>4. left \in Nat
      BY <3>2
    <3>5. QED
      BY <2>2, <3>3, <3>4
  <2>3. QED
    BY <2>1, <2>2
<1>8. Len(queued') = IF Waits THEN left + 1 ELSE left
  <2>1. Removed.queued \in Seq(Session)
    BY <1>3 DEF Served
  <2>2. QED
    BY <1>1, <2>1
<1>9. Old \in QueuedSet => len > 0 /\ Old \in Live /\ Old # NoSession
  <2>1. QueuedSet \subseteq Live /\ NoSession \notin Live
    BY DEF IInv, PointersAreLive, Live
  <2>2. Old \in QueuedSet => queued # <<>>
    BY <1>4, ToSetOfSeq DEF QueuedSet
  <2>3. QED
    BY <1>4, <2>1, <2>2
<1>10. Old # NoSession /\ Old \notin QueuedSet => Old \in Active /\ active > 0
  <2> SUFFICES ASSUME Old # NoSession, Old \notin QueuedSet
               PROVE  Old \in Active /\ active > 0
    OBVIOUS
  <2>1. Old \in Active
    BY <1>3 DEF Active
  <2>2. active # 0
    BY <1>4, <2>1, FS_EmptySet
  <2>3. QED
    BY <1>4, <2>1, <2>2
<1>11. Left(Old, queued) = IF Old \in QueuedSet THEN len - 1 ELSE len
  BY DEF Left, QueuedSet
<1>12. /\ AllSessions = IF Old = NoSession THEN n + 1 ELSE n
       /\ OtherSessions = IF Old \in QueuedSet THEN AllSessions ELSE AllSessions - 1
       /\ Waits => limit > 0 /\ OtherSessions >= limit
       /\ ~Waits /\ limit > 0 /\ AccountOf[Newcomer] \notin SkipQueue => OtherSessions < limit
  <2>1. ~HasRecentlyDisconnected(AccountOf[Newcomer])
    BY DEF HasRecentlyDisconnected
  <2>2. n \in Int /\ limit \in Int /\ OtherSessions \in Int
    BY <1>4 DEF OtherSessions, AllSessions
  <2>3. QED
    BY <1>3, <2>1, <2>2 DEF AllSessions, OtherSessions, Waits
<1>13. pops => Old \notin QueuedSet /\ (limit > 0 => active - 1 < limit)
  BY <1>4, <1>5, <1>9, <1>10 DEF Pops, Others, QueuedSet
<1>14. limit > 0 => Cardinality(Admitted') <= limit
  <2> SUFFICES ASSUME limit > 0
               PROVE  Cardinality(Admitted') <= limit
    OBVIOUS
  <2>1. CASE ~Waits /\ AccountOf[Newcomer] \notin SkipQueue
    <3>1. AllSessions <= limit
      BY <1>4, <1>9, <1>12, <2>1
    <3>2. Admitted' \subseteq Live'
      BY DEF Admitted
    <3>3. Cardinality(Admitted') <= Cardinality(Live') /\ Cardinality(Admitted') \in Nat
      BY <1>6, <3>2, FS_Subset, FS_CardinalityType
    <3>4. QED
      BY <1>4, <1>6, <1>12, <3>1, <3>3
  <2>2. CASE Waits \/ AccountOf[Newcomer] \in SkipQueue
    <3>1. Admitted' \subseteq (Admitted \ {Old}) \cup Removed.popped
      <4> SUFFICES ASSUME NEW x \in Admitted'
                   PROVE  x \in Removed.popped \/ (x \in Admitted /\ x # Old)
        OBVIOUS
      <4>1. x \in Live' /\ init'[x] # "no" /\ AccountOf[x] \notin SkipQueue
        BY DEF Admitted
      <4>2. x \in Session
        <5>1. Live \subseteq Session
          BY LiveSessions DEF IInv, TypeOK, PointersAreLive, Accounts
        <5>2. Newcomer \in Session
          BY <1>1, FirstIncoming DEF Newcomer
        <5>3. QED
          BY <1>2, <4>1, <5>1, <5>2
      <4>3. x = Newcomer => Waits
        BY <2>2, <4>1
      <4>4. x \in Removed.popped \/ (init[x] # "no" /\ x # Old)
        BY <1>2, <4>1, <4>2, <4>3
      <4>5. init[x] # "no" => x \in Live
        BY <4>2 DEF IInv, OnlyActive, Active
      <4>6. QED
        BY <4>1, <4>4, <4>5 DEF Admitted
    <3>2. CASE ~pops
      <4>1. Admitted' \subseteq Admitted
        BY <1>7, <3>1, <3>2
      <4>2. Cardinality(Admitted') <= Cardinality(Admitted) /\ Cardinality(Admitted') \in Nat
        BY <1>4, <4>1, FS_Subset, FS_CardinalityType
      <4>3. QED
        BY <1>4, <1>5, <4>2
    <3>3. CASE pops
      <4>1. PICK p : Removed.popped = {p}
        BY <1>7, <3>3
      <4>2. Admitted' \subseteq (Active \ {Old}) \cup {p}
        BY <1>4, <3>1, <4>1
      <4>3. Old \in Active
        BY <1>10, <1>13, <3>3
      <4>4. Cardinality(Admitted') <= active
        BY <1>4, <4>2, <4>3, OneForOne
      <4>5. Cardinality(Admitted') \in Nat
        BY <1>2, CountsNext DEF Counted
      <4>6. QED
        BY <1>4, <1>13, <3>3, <4>4, <4>5
    <3>4. QED
      BY <3>2, <3>3
  <2>3. QED
    BY <2>1, <2>2
<1>15. Cardinality(Active') = AllSessions - Len(queued')
  BY <1>2, <1>6, CountsNext DEF Counted
<1>16. queued' # <<>> => Len(queued') > 0
  BY <1>2, CountsNext DEF Counted
<1>17. Len(queued') > 0 => limit > 0 /\ AllSessions - Len(queued') >= limit
  <2> HIDE DEF n, len, active, left
  <2>1. CASE Old = NoSession
    <3>1. Old \notin QueuedSet /\ ~pops
      BY <1>9, <2>1
    <3>2. left = len /\ AllSessions = n + 1 /\ OtherSessions = n
      BY <1>4, <1>7, <1>11, <1>12, <2>1, <3>1
    <3>3. QED
      BY <1>4, <1>5, <1>8, <1>12, <3>2
  <2>2. CASE Old # NoSession /\ Old \in QueuedSet
    <3>1. ~pops /\ left = len - 1 /\ AllSessions = n /\ OtherSessions = n
      BY <1>4, <1>7, <1>11, <1>12, <1>13, <2>2
    <3>2. QED
      BY <1>4, <1>5, <1>8, <1>9, <1>12, <2>2, <3>1
  <2>3. CASE Old # NoSession /\ Old \notin QueuedSet
    <3>1. AllSessions = n /\ OtherSessions = n - 1 /\ left = IF pops THEN len - 1 ELSE len
      BY <1>4, <1>7, <1>11, <1>12, <2>3
    <3>2. pops <=> len > 0 /\ (limit = 0 \/ active - 1 < limit)
      BY <1>4, <1>10, <1>11, <2>3 DEF Pops, Others, QueuedSet, n, len, active
    <3>3. CASE len = 0
      BY <1>4, <1>8, <1>12, <3>1, <3>2, <3>3
    <3>4. CASE len > 0
      BY <1>4, <1>5, <1>8, <1>12, <3>1, <3>2, <3>4
    <3>5. QED
      BY <1>4, <3>3, <3>4
  <2>4. QED
    BY <2>1, <2>2, <2>3
<1>18. LimitHolds' <=>
        /\ limit' > 0 => Cardinality(Admitted') <= limit'
        /\ queued' # <<>> => limit' > 0 /\ Cardinality(Active') >= limit'
  BY DEF LimitHolds, Admitted
<1>19. QED
  BY <1>1, <1>14, <1>15, <1>16, <1>17, <1>18

LEMMA DropSessionLimit ==
  ASSUME IInv, LimitHolds, NEW s \in Session, DropSession(s)
  PROVE  LimitHolds'
<1> DEFINE n == Cardinality(Live)
           len == Len(queued)
           active == Cardinality(Active)
           q == First(s).queued
<1>1. queued' = Second(s).queued /\ limit' = limit
  BY DropSessionParts
<1>2. /\ IInv' /\ Live' = Live \ {s} /\ s \in Live
      /\ \A x \in Session : init'[x] # "no" => x # s /\ (x \in Popped(s) \/ init[x] # "no")
  BY DropSessionStep
<1>3. /\ n \in Nat /\ limit \in Nat /\ len \in Nat /\ active \in Nat /\ active = n - len
      /\ IsFiniteSet(Active) /\ Admitted \subseteq Active /\ IsFiniteSet(Admitted)
      /\ Cardinality(Admitted) \in Nat /\ queued \in Seq(Session) /\ IsInjective(queued)
  BY Counts
<1>4. /\ limit > 0 => Cardinality(Admitted) <= limit
      /\ len > 0 => limit > 0 /\ active >= limit
  BY <1>3, LimitIsLimit
<1>5. Cardinality(Live') = n - 1
  BY <1>2, FS_RemoveElement DEF IInv
<1>6. /\ Served(queued, s, q, First(s).popped)
      /\ q \in Seq(Session) /\ IsInjective(q) /\ s \notin ToSet(q) /\ Len(q) \in Nat
  BY DropServed DEF Served
<1>7. /\ Len(q) = IF Pops(s, n, queued) THEN Left(s, queued) - 1 ELSE Left(s, queued)
      /\ Pops(s, n, queued) => \E x : First(s).popped = {x}
      /\ ~Pops(s, n, queued) => First(s).popped = {}
  BY <1>3, RemovedQueuedPlayer DEF First
<1>8. /\ Len(queued') = IF Pops(s, n, q) THEN Left(s, q) - 1 ELSE Left(s, q)
      /\ ~Pops(s, n, q) => Second(s).popped = {}
  BY <1>1, <1>3, <1>6, RemovedQueuedPlayer DEF Second
<1>9. s \in QueuedSet => len > 0
  <2>1. s \in QueuedSet => queued # <<>>
    BY <1>3, ToSetOfSeq DEF QueuedSet
  <2>2. QED
    BY <1>3, <2>1
<1>10. s \notin QueuedSet => s \in Active /\ active > 0
  <2> SUFFICES ASSUME s \notin QueuedSet
               PROVE  s \in Active /\ active > 0
    OBVIOUS
  <2>1. s \in Active
    BY <1>2 DEF Active
  <2>2. active # 0
    BY <1>3, <2>1, FS_EmptySet
  <2>3. QED
    BY <1>3, <2>1, <2>2
<1>11. /\ Left(s, queued) = IF s \in QueuedSet THEN len - 1 ELSE len
       /\ Left(s, q) = Len(q)
  BY <1>6 DEF Left, QueuedSet
<1>12. /\ Others(s, n, queued) = IF s \in QueuedSet \/ active = 0 THEN active ELSE active - 1
       /\ Others(s, n, q) = IF n = Len(q) THEN n - Len(q) ELSE n - Len(q) - 1
  BY <1>3, <1>6 DEF Others, QueuedSet
<1> HIDE DEF n, len, active, q
<1>13. /\ Pops(s, n, queued) => s \notin QueuedSet /\ limit > 0 /\ active - 1 < limit
       /\ ~Pops(s, n, queued) /\ len > 0 /\ s \notin QueuedSet => active - 1 >= limit
  BY <1>3, <1>4, <1>9, <1>10, <1>11, <1>12 DEF Pops
<1>14. ~Pops(s, n, q)
  <2> SUFFICES ASSUME Len(q) > 0, limit = 0 \/ Others(s, n, q) < limit
               PROVE  FALSE
    BY <1>11 DEF Pops
  <2>1. CASE s \in QueuedSet
    <3>1. Len(q) = len - 1 /\ len > 0
      BY <1>7, <1>9, <1>11, <1>13, <2>1
    <3>2. Others(s, n, q) = active
      BY <1>3, <1>12, <3>1
    <3>3. QED
      BY <1>3, <1>4, <3>1, <3>2
  <2>2. CASE s \notin QueuedSet
    <3>1. CASE Pops(s, n, queued)
      <4>1. Len(q) = len - 1 /\ len > 0
        BY <1>3, <1>7, <1>11, <2>2, <3>1 DEF Pops
      <4>2. Others(s, n, q) = active
        BY <1>3, <1>12, <4>1
      <4>3. QED
        BY <1>3, <1>4, <4>1, <4>2
    <3>2. CASE ~Pops(s, n, queued)
      <4>1. Len(q) = len
        BY <1>7, <1>11, <2>2, <3>2
      <4>2. Others(s, n, q) = active - 1 /\ active - 1 >= limit /\ limit > 0
        BY <1>3, <1>4, <1>10, <1>12, <1>13, <2>2, <3>2, <4>1
      <4>3. QED
        BY <1>3, <4>2
    <3>3. QED
      BY <3>1, <3>2
  <2>3. QED
    BY <2>1, <2>2
<1>15. Popped(s) = First(s).popped /\ Len(queued') = Len(q)
  BY <1>8, <1>11, <1>14 DEF Popped
<1>16. limit > 0 => Cardinality(Admitted') <= limit
  <2> SUFFICES ASSUME limit > 0
               PROVE  Cardinality(Admitted') <= limit
    OBVIOUS
  <2>1. Admitted' \subseteq (Admitted \ {s}) \cup First(s).popped
    <3>1. Live \subseteq Session
      BY LiveSessions DEF IInv, TypeOK, PointersAreLive, Accounts
    <3>2. QED
      BY <1>2, <1>15, <3>1 DEF Admitted
  <2>2. Cardinality(Admitted') \in Nat
    BY <1>2, CountsNext DEF Counted
  <2>3. CASE ~Pops(s, n, queued)
    <3>1. Admitted' \subseteq Admitted
      BY <1>7, <2>1, <2>3
    <3>2. Cardinality(Admitted') <= Cardinality(Admitted)
      BY <1>3, <3>1, FS_Subset
    <3>3. QED
      BY <1>3, <1>4, <2>2, <3>2
  <2>4. CASE Pops(s, n, queued)
    <3>1. PICK p : First(s).popped = {p}
      BY <1>7, <2>4
    <3>2. Admitted' \subseteq (Active \ {s}) \cup {p} /\ s \in Active
      BY <1>3, <1>10, <1>13, <2>1, <2>4, <3>1
    <3>3. Cardinality(Admitted') <= active
      BY <1>3, <3>2, OneForOne DEF active
    <3>4. QED
      BY <1>3, <1>13, <2>2, <2>4, <3>3
  <2>5. QED
    BY <2>3, <2>4
<1>17. Len(queued') > 0 => limit > 0 /\ Cardinality(Active') >= limit
  <2> SUFFICES ASSUME Len(q) > 0
               PROVE  limit > 0 /\ Cardinality(Active') >= limit
    BY <1>15
  <2>1. Cardinality(Active') = n - 1 - Len(q)
    BY <1>2, <1>5, <1>15, CountsNext DEF Counted
  <2>2. CASE s \in QueuedSet
    <3>1. Len(q) = len - 1 /\ len > 0
      BY <1>7, <1>9, <1>11, <1>13, <2>2
    <3>2. QED
      BY <1>3, <1>4, <2>1, <3>1
  <2>3. CASE s \notin QueuedSet /\ Pops(s, n, queued)
    <3>1. Len(q) = len - 1 /\ len > 0
      BY <1>3, <1>7, <1>11, <2>3 DEF Pops
    <3>2. QED
      BY <1>3, <1>4, <2>1, <3>1
  <2>4. CASE s \notin QueuedSet /\ ~Pops(s, n, queued)
    <3>1. Len(q) = len
      BY <1>7, <1>11, <2>4
    <3>2. QED
      BY <1>3, <1>4, <1>13, <2>1, <2>4, <3>1
  <2>5. QED
    BY <2>2, <2>3, <2>4
<1>18. queued' # <<>> => Len(queued') > 0
  BY <1>2, CountsNext DEF Counted
<1>19. LimitHolds' <=>
        /\ limit' > 0 => Cardinality(Admitted') <= limit'
        /\ queued' # <<>> => limit' > 0 /\ Cardinality(Active') >= limit'
  BY DEF LimitHolds, Admitted
<1>20. QED
  BY <1>1, <1>16, <1>17, <1>18, <1>19

LEMMA StepKeepsLimit ==
  ASSUME Tolerance = 0, Limits = {InitialLimit}, IInv, LimitHolds, [Next]_vars
  PROVE  LimitHolds'
<1>1. limit = InitialLimit /\ init \in [Session -> InitStates] /\ Live \subseteq Session
  BY LiveSessions DEF IInv, TypeOK, InitStates, PointersAreLive, Accounts
<1>2. CASE AdmitSession
  BY <1>2, AdmitSessionLimit
<1>3. ASSUME NEW s \in Session, DropSession(s)
      PROVE  LimitHolds'
  BY <1>3, DropSessionLimit
<1>4. CASE KickAll
  BY <1>4, NobodyAdmitted DEF KickAll
<1>5. ASSUME NEW s \in Session, KeepSession(s)
      PROVE  LimitHolds'
  <2>1. UNCHANGED <<sessions, queued, limit>> /\ Callback(s)
    BY <1>5 DEF KeepSession
  <2>2. \A x \in Live : init'[x] # "no" => init[x] # "no"
    BY <1>1, <2>1 DEF Callback
  <2>3. QED
    BY <2>1, <2>2, NobodyAdmitted
<1>6. ASSUME NEW s \in Session, Answer(s)
      PROVE  LimitHolds'
  <2>1. UNCHANGED <<sessions, queued, limit>>
    BY <1>6 DEF Answer
  <2>2. \A x \in Live : init'[x] # "no" => init[x] # "no"
    BY <1>1, <1>6 DEF Answer
  <2>3. QED
    BY <2>1, <2>2, NobodyAdmitted
<1>7. CASE UNCHANGED <<sessions, queued, limit, init>>
  BY <1>7, NobodyAdmitted
<1>8. ASSUME NEW l \in Limits, SetPlayerAmountLimit(l)
      PROVE  FALSE
  BY <1>1, <1>8 DEF SetPlayerAmountLimit
<1>9. \/ AdmitSession \/ KickAll
      \/ \E s \in Session : DropSession(s) \/ KeepSession(s) \/ Answer(s)
      \/ \E l \in Limits : SetPlayerAmountLimit(l)
      \/ UNCHANGED <<sessions, queued, limit, init>>
  BY DEF Next, WorldStep, vars, perSession, RefuseSession, BeginUpdates, EndUpdates, Tick,
         AddSession, CloseSocket, Kick
<1>10. QED
  BY <1>2, <1>3, <1>4, <1>5, <1>6, <1>7, <1>8, <1>9

(* With a limit that is not changed, and no tolerance for those who were    *)
(* disconnected (CONFIG_INTERVAL_DISCONNECT_TOLERANCE is 0 unless it is     *)
(* set), no more players than that are in, those not counted who skip the   *)
(* queue, and nobody waits while there is room.                            *)
THEOREM PlayersWithinLimit ==
  ASSUME Tolerance = 0, Limits = {InitialLimit}
  PROVE  Spec => []LimitHolds
<1>1. Init => IInv /\ LimitHolds
  <2> SUFFICES ASSUME Init
               PROVE  IInv /\ LimitHolds
    OBVIOUS
  <2>1. Live = {} /\ queued = <<>> /\ limit \in Nat
    BY NumbersAssumption DEF Init, Live
  <2>2. Admitted = {}
    BY <2>1 DEF Admitted
  <2>3. LimitHolds
    BY <2>1, <2>2, FS_EmptySet, LimitIsLimit
  <2>4. QED
    BY <2>3, InvInit
<1>2. (IInv /\ LimitHolds) /\ [Next]_vars => (IInv /\ LimitHolds)'
  BY StepKeepsInv, StepKeepsLimit
<1>3. QED
  BY <1>1, <1>2, PTL DEF Spec
=============================================================================
