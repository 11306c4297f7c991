-------------------------- MODULE WorldSocketsProofs --------------------------
(***************************************************************************)
(* The connections of the world server for any number of network threads,  *)
(* sockets and packets, and the queue of a socket for any number of        *)
(* producers and nodes.                                                    *)
(*                                                                         *)
(* The sockets.  What is under way on a socket is told by the job of the   *)
(* one thread that has it (HomeInv, JobInv) and by how far the login is    *)
(* (LoginInv): a read, a query, or nothing any more (ReadInv).  A session  *)
(* that a socket points to is there, or the socket was closed before it    *)
(* was deleted (PointerInv), and an instance socket is pointed to a        *)
(* session by the world only (LinkInv).  What the two queues of a socket   *)
(* hold is told by the number of the packet at which each buffer starts    *)
(* (Starts, SentInv).                                                      *)
(***************************************************************************)
EXTENDS MPSCQueue, WorldSockets, SequenceTheorems, TLAPS

(***************************************************************************)
(* What the buffers w hold, by the number f[b] of the packet at which each *)
(* of them starts: a packet is in the buffer between whose start and the   *)
(* next one it lies.                                                       *)
(***************************************************************************)
Run(k, m) == [i \in 1 .. m |-> k + i - 1]

Starts(w, f, first, last) ==
  /\ f \in [1 .. Len(w) + 1 -> Nat] /\ f[1] = first /\ f[Len(w) + 1] = last + 1
  /\ \A b \in 1 .. Len(w) : f[b + 1] = f[b] + Len(w[b]) /\ w[b] = Run(f[b], Len(w[b]))
  /\ \A b, c \in 1 .. Len(w) + 1 : b <= c => f[b] <= f[c]
  /\ \A n \in first .. last : \E b \in 1 .. Len(w) : f[b] <= n /\ n < f[b + 1]

(* What Seq(Packets) is made of. *)
LEMMA Buffers ==
  ASSUME NEW q \in Seq(Packets)
  PROVE  /\ Len(q) \in Nat /\ DOMAIN q = 1 .. Len(q)
         /\ \A b \in 1 .. Len(q) : q[b] \in Seq(Nat) /\ DOMAIN q[b] = 1 .. Len(q[b]) /\ Len(q[b]) \in Nat
BY DEF Packets

(* The buffers hold the packets in the sense of SentInOrder. *)
LEMMA StartsHold ==
  ASSUME NEW w \in Seq(Packets), NEW f, NEW first \in Nat, NEW last \in Nat, Starts(w, f, first, last)
  PROVE  Hold(w, first, last)
<1>1. /\ Len(w) \in Nat /\ DOMAIN w = 1 .. Len(w)
      /\ \A b \in 1 .. Len(w) : w[b] \in Seq(Nat) /\ DOMAIN w[b] = 1 .. Len(w[b]) /\ Len(w[b]) \in Nat
  BY Buffers
<1>2. /\ \A b \in 1 .. Len(w) + 1 : f[b] \in Nat
      /\ f[1] = first /\ f[Len(w) + 1] = last + 1
  BY DEF Starts
<1>3. \A b \in 1 .. Len(w) : f[b + 1] = f[b] + Len(w[b]) /\ \A i \in 1 .. Len(w[b]) : w[b][i] = f[b] + i - 1
  <2> SUFFICES ASSUME NEW b \in 1 .. Len(w), NEW i \in 1 .. Len(w[b]) PROVE w[b][i] = f[b] + i - 1
    BY DEF Starts
  <2>1. w[b] = Run(f[b], Len(w[b]))
    BY DEF Starts
  <2>2. Run(f[b], Len(w[b]))[i] = f[b] + i - 1
    BY DEF Run
  <2>3. QED
    BY <2>1, <2>2
<1>4. \A b, c \in 1 .. Len(w) + 1 : b <= c => f[b] <= f[c]
  BY DEF Starts
<1>5. ASSUME NEW b \in 1 .. Len(w), NEW i \in 1 .. Len(w[b])
      PROVE  w[b][i] \in first .. last /\ w[b][i] = w[b][1] + i - 1 /\ f[b] <= w[b][i] /\ w[b][i] < f[b + 1]
  <2>1. /\ 1 \in 1 .. Len(w) + 1 /\ b \in 1 .. Len(w) + 1
        /\ b + 1 \in 1 .. Len(w) + 1 /\ Len(w) + 1 \in 1 .. Len(w) + 1
    BY <1>1
  <2>2. first <= f[b] /\ f[b + 1] <= last + 1 /\ f[b] \in Nat /\ f[b + 1] \in Nat
    BY <1>1, <1>2, <1>4, <2>1
  <2>3. w[b][i] = f[b] + i - 1 /\ w[b][1] = f[b] + 1 - 1 /\ f[b + 1] = f[b] + Len(w[b]) /\ Len(w[b]) \in Nat
    BY <1>1, <1>3
  <2>4. QED
    BY <2>2, <2>3
<1>6. ASSUME NEW b \in 1 .. Len(w), NEW c \in 1 .. Len(w), b < c,
             NEW i \in 1 .. Len(w[b]), NEW j \in 1 .. Len(w[c])
      PROVE  w[b][i] < w[c][j]
  <2>1. b + 1 \in 1 .. Len(w) + 1 /\ c \in 1 .. Len(w) + 1 /\ b + 1 <= c
    BY <1>1, <1>6
  <2>2. f[b + 1] <= f[c] /\ f[b + 1] \in Nat /\ f[c] \in Nat
    BY <1>2, <1>4, <2>1
  <2>3. w[b][i] < f[b + 1] /\ f[c] <= w[c][j] /\ w[b][i] \in first .. last /\ w[c][j] \in first .. last
    BY <1>5
  <2>4. \A x, p, q, y \in Int : x < p /\ p <= q /\ q <= y => x < y
    OBVIOUS
  <2>5. w[b][i] \in Int /\ w[c][j] \in Int /\ f[b + 1] \in Int /\ f[c] \in Int
    BY <2>2, <2>3
  <2>6. QED
    BY <2>2, <2>3, <2>4, <2>5
<1>7. ASSUME NEW n \in first .. last PROVE \E b \in 1 .. Len(w) : \E i \in 1 .. Len(w[b]) : w[b][i] = n
  <2>1. PICK b \in 1 .. Len(w) : f[b] <= n /\ n < f[b + 1]
    BY DEF Starts
  <2>2. /\ f[b + 1] = f[b] + Len(w[b]) /\ f[b] \in Nat /\ Len(w[b]) \in Nat
        /\ \A i \in 1 .. Len(w[b]) : w[b][i] = f[b] + i - 1
    BY <1>1, <1>2, <1>3
  <2>3. n - f[b] + 1 \in 1 .. Len(w[b])
    BY <2>1, <2>2
  <2>4. w[b][n - f[b] + 1] = n
    BY <2>2, <2>3
  <2>5. QED
    BY <2>3, <2>4
<1>8. QED
  BY <1>1, <1>5, <1>6, <1>7 DEF Hold

-----------------------------------------------------------------------------
(* A packet is appended to the last buffer. *)
LEMMA StartsNext ==
  ASSUME NEW w \in Seq(Packets), NEW v \in Seq(Packets), NEW f, NEW first \in Nat, NEW last \in Nat,
         Starts(w, f, first, last), Len(w) >= 1, Len(v) = Len(w),
         \A b \in 1 .. Len(w) - 1 : v[b] = w[b],
         v[Len(w)] = Append(w[Len(w)], last + 1)
  PROVE  Starts(v, [f EXCEPT ![Len(w) + 1] = last + 2], first, last + 1)
<1> DEFINE g == [f EXCEPT ![Len(w) + 1] = last + 2]
           l == Len(w)
<1>1. l \in Nat
  OBVIOUS
<1>0. \A b \in 1 .. l : w[b] \in Seq(Nat) /\ Len(w[b]) \in Nat
  BY Buffers
<1>2. f \in [1 .. l + 1 -> Nat] /\ f[1] = first /\ f[l + 1] = last + 1
  BY DEF Starts
<1>3. g \in [1 .. l + 1 -> Nat] /\ g[l + 1] = last + 2 /\ \A b \in 1 .. l : g[b] = f[b] /\ f[b] \in Nat
  BY <1>1, <1>2
<1>4. /\ \A b \in 1 .. l : f[b + 1] = f[b] + Len(w[b]) /\ w[b] = Run(f[b], Len(w[b]))
      /\ \A b, c \in 1 .. l + 1 : b <= c => f[b] <= f[c]
      /\ \A n \in first .. last : \E b \in 1 .. l : f[b] <= n /\ n < f[b + 1]
  BY DEF Starts
<1>12. v[l] = Append(w[l], last + 1) /\ l >= 1 /\ \A b \in 1 .. l - 1 : v[b] = w[b]
  OBVIOUS
<1>14. l >= 1
  OBVIOUS
<1>13. Len(v) = l
  OBVIOUS
<1> HIDE DEF g, l
<1>5. g[l + 1] = g[l] + Len(v[l]) /\ v[l] = Run(g[l], Len(v[l]))
  <2>1. /\ l \in 1 .. l /\ f[l + 1] = f[l] + Len(w[l]) /\ w[l] = Run(f[l], Len(w[l])) /\ Len(v[l]) = Len(w[l]) + 1
        /\ f[l] \in Nat /\ Len(w[l]) \in Nat /\ w[l] \in Seq(Nat)
    BY <1>0, <1>1, <1>3, <1>4, <1>12
  <2>2. Append(w[l], last + 1) = [i \in 1 .. Len(w[l]) + 1 |-> IF i \in 1 .. Len(w[l]) THEN w[l][i] ELSE last + 1]
    BY <2>1
  <2>3. \A i \in 1 .. Len(w[l]) : w[l][i] = f[l] + i - 1
    BY <2>1 DEF Run
  <2>4. last + 1 = f[l] + Len(w[l])
    BY <1>2, <2>1
  <2>5. v[l] = Run(f[l], Len(w[l]) + 1)
    BY <1>12, <2>1, <2>2, <2>3, <2>4 DEF Run
  <2>6. g[l] = f[l] /\ g[l + 1] = last + 2 /\ Len(v[l]) = Len(w[l]) + 1
    BY <1>3, <2>1
  <2>7. last + 2 = f[l] + (Len(w[l]) + 1)
    BY <2>1, <2>4
  <2>8. QED
    BY <2>5, <2>6, <2>7
<1>6. ASSUME NEW b \in 1 .. l PROVE g[b + 1] = g[b] + Len(v[b]) /\ v[b] = Run(g[b], Len(v[b]))
  <2>1. CASE b = l
    BY <1>5, <2>1
  <2>2. CASE b # l
    <3>1. b \in 1 .. l - 1 /\ b + 1 \in 1 .. l
      BY <1>1, <2>2
    <3>2. QED
      BY <1>3, <1>4, <1>12, <3>1
  <2>3. QED
    BY <2>1, <2>2
<1>7. ASSUME NEW b \in 1 .. l + 1, NEW c \in 1 .. l + 1, b <= c PROVE g[b] <= g[c]
  <2>1. f[b] <= f[c] /\ f[b] \in Nat /\ f[c] \in Nat /\ f[b] <= f[l + 1]
    <3>1. l + 1 \in 1 .. l + 1 /\ b <= l + 1
      BY <1>1
    <3>2. QED
      BY <1>2, <1>4, <1>7, <3>1
  <2>2. CASE c = l + 1
    BY <1>1, <1>2, <1>3, <2>1, <2>2
  <2>3. CASE c # l + 1
    <3>1. b \in 1 .. l /\ c \in 1 .. l
      BY <1>1, <1>7, <2>3
    <3>2. QED
      BY <1>3, <2>1, <3>1
  <2>4. QED
    BY <2>2, <2>3
<1>8. ASSUME NEW n \in first .. last + 1 PROVE \E b \in 1 .. l : g[b] <= n /\ n < g[b + 1]
  <2>1. CASE n = last + 1
    <3>1. l \in 1 .. l + 1 /\ l + 1 \in 1 .. l + 1 /\ l \in 1 .. l
      BY <1>1, <1>14
    <3>2. f[l] <= last + 1
      BY <1>1, <1>2, <1>4, <3>1
    <3>3. g[l] <= n /\ n < g[l + 1]
      BY <1>3, <2>1, <3>1, <3>2
    <3>4. QED
      BY <3>1, <3>3
  <2>2. CASE n # last + 1
    <3>5. n \in first .. last
      BY <1>8, <2>2
    <3>1. PICK b \in 1 .. l : f[b] <= n /\ n < f[b + 1]
      BY <1>4, <3>5
    <3>2. CASE b = l
      BY <1>2, <1>3, <3>1, <3>2
    <3>3. CASE b # l
      <4>1. b + 1 \in 1 .. l
        BY <1>1, <3>3
      <4>2. QED
        BY <1>3, <3>1, <4>1
    <3>4. QED
      BY <3>2, <3>3
  <2>3. QED
    BY <2>1, <2>2
<1>9. g[1] = first /\ g[l + 1] = last + 1 + 1
  BY <1>1, <1>2, <1>3, <1>12
<1>10. Starts(v, g, first, last + 1)
  BY <1>3, <1>6, <1>7, <1>8, <1>9, <1>13 DEF Starts
<1>11. QED
  BY <1>10 DEF g, l

(* An empty buffer is added at the end. *)
LEMMA StartsEmpty ==
  ASSUME NEW w \in Seq(Packets), NEW v \in Seq(Packets), NEW f, NEW first \in Nat, NEW last \in Nat,
         Starts(w, f, first, last), Len(v) = Len(w) + 1,
         \A b \in 1 .. Len(w) : v[b] = w[b],
         v[Len(w) + 1] = <<>>
  PROVE  \E g : Starts(v, g, first, last)
<1> DEFINE l == Len(w)
           g == [b \in 1 .. l + 2 |-> IF b <= l + 1 THEN f[b] ELSE last + 1]
<1>1. l \in Nat
  OBVIOUS
<1>2. f \in [1 .. l + 1 -> Nat] /\ f[1] = first /\ f[l + 1] = last + 1
  BY DEF Starts
<1>3. /\ \A b \in 1 .. l : f[b + 1] = f[b] + Len(w[b]) /\ w[b] = Run(f[b], Len(w[b]))
      /\ \A b, c \in 1 .. l + 1 : b <= c => f[b] <= f[c]
      /\ \A n \in first .. last : \E b \in 1 .. l : f[b] <= n /\ n < f[b + 1]
  BY DEF Starts
<1>4. Len(v) = l + 1 /\ v[l + 1] = <<>> /\ \A b \in 1 .. l : v[b] = w[b]
  OBVIOUS
<1> HIDE DEF l
<1>5. /\ g \in [1 .. l + 2 -> Nat] /\ g[l + 2] = last + 1
      /\ \A b \in 1 .. l + 1 : g[b] = f[b] /\ f[b] \in Nat
  BY <1>1, <1>2
<1> HIDE DEF g
<1>6. ASSUME NEW b \in 1 .. l + 1 PROVE g[b + 1] = g[b] + Len(v[b]) /\ v[b] = Run(g[b], Len(v[b]))
  <2>1. CASE b = l + 1
    <3>1. g[b + 1] = last + 1 /\ g[b] = last + 1 /\ Len(v[b]) = 0
      BY <1>1, <1>2, <1>4, <1>5, <2>1
    <3>2. v[b] = Run(g[b], 0)
      BY <1>4, <2>1 DEF Run
    <3>3. QED
      BY <3>1, <3>2
  <2>2. CASE b # l + 1
    <3>1. b \in 1 .. l /\ b + 1 \in 1 .. l + 1 /\ b \in 1 .. l + 1
      BY <1>1, <2>2
    <3>2. QED
      BY <1>3, <1>4, <1>5, <3>1
  <2>3. QED
    BY <2>1, <2>2
<1>7. ASSUME NEW b \in 1 .. l + 2, NEW c \in 1 .. l + 2, b <= c PROVE g[b] <= g[c]
  <2>1. CASE c = l + 2 /\ b = l + 2
    BY <1>5, <2>1
  <2>2. CASE c = l + 2 /\ b # l + 2
    <3>1. b \in 1 .. l + 1 /\ l + 1 \in 1 .. l + 1 /\ b <= l + 1
      BY <1>1, <2>2
    <3>2. f[b] <= last + 1
      BY <1>2, <1>3, <3>1
    <3>3. QED
      BY <1>5, <2>2, <3>1, <3>2
  <2>3. CASE c # l + 2
    <3>1. b \in 1 .. l + 1 /\ c \in 1 .. l + 1
      BY <1>1, <1>7, <2>3
    <3>2. QED
      BY <1>3, <1>5, <1>7, <3>1
  <2>4. QED
    BY <2>1, <2>2, <2>3
<1>8. ASSUME NEW n \in first .. last PROVE \E b \in 1 .. l + 1 : g[b] <= n /\ n < g[b + 1]
  <2>1. PICK b \in 1 .. l : f[b] <= n /\ n < f[b + 1]
    BY <1>3
  <2>2. b \in 1 .. l + 1 /\ b + 1 \in 1 .. l + 1
    BY <1>1
  <2>3. QED
    BY <1>5, <2>1, <2>2
<1>9. g[1] = first
  BY <1>1, <1>2, <1>5
<1>10. Starts(v, g, first, last)
  <2>1. Len(v) + 1 = l + 2
    BY <1>1, <1>4
  <2>2. QED
    BY <1>4, <1>5, <1>6, <1>7, <1>8, <1>9, <2>1 DEF Starts
<1>11. QED
  BY <1>10

(* The first buffer is taken out. *)
LEMMA StartsPop ==
  ASSUME NEW w \in Seq(Packets), NEW v \in Seq(Packets), NEW f, NEW first \in Nat, NEW last \in Nat,
         Starts(w, f, first, last), Len(w) >= 1, Len(v) = Len(w) - 1,
         \A b \in 1 .. Len(w) - 1 : v[b] = w[b + 1]
  PROVE  \E g : Starts(v, g, first + Len(w[1]), last)
<1> DEFINE l == Len(w)
           g == [b \in 1 .. l |-> f[b + 1]]
<1>1. l \in Nat
  OBVIOUS
<1>12. l >= 1
  OBVIOUS
<1>2. f \in [1 .. l + 1 -> Nat] /\ f[1] = first /\ f[l + 1] = last + 1
  BY DEF Starts
<1>3. /\ \A b \in 1 .. l : f[b + 1] = f[b] + Len(w[b]) /\ w[b] = Run(f[b], Len(w[b]))
      /\ \A b, c \in 1 .. l + 1 : b <= c => f[b] <= f[c]
      /\ \A n \in first .. last : \E b \in 1 .. l : f[b] <= n /\ n < f[b + 1]
  BY DEF Starts
<1>4. Len(v) = l - 1 /\ \A b \in 1 .. l - 1 : v[b] = w[b + 1]
  OBVIOUS
<1> HIDE DEF l
<1>5. g \in [1 .. l -> Nat] /\ \A b \in 1 .. l : g[b] = f[b + 1] /\ f[b + 1] \in Nat
  BY <1>1, <1>2
<1> HIDE DEF g
<1>6. ASSUME NEW b \in 1 .. l - 1 PROVE g[b + 1] = g[b] + Len(v[b]) /\ v[b] = Run(g[b], Len(v[b]))
  <2>1. b \in 1 .. l /\ b + 1 \in 1 .. l
    BY <1>1
  <2>2. v[b] = w[b + 1] /\ g[b] = f[b + 1] /\ g[b + 1] = f[(b + 1) + 1]
    BY <1>4, <1>5, <2>1
  <2>3. QED
    BY <1>3, <2>1, <2>2
<1>7. ASSUME NEW b \in 1 .. l, NEW c \in 1 .. l, b <= c PROVE g[b] <= g[c]
  <2>1. b + 1 \in 1 .. l + 1 /\ c + 1 \in 1 .. l + 1 /\ b + 1 <= c + 1
    BY <1>1, <1>7
  <2>2. QED
    BY <1>3, <1>5, <2>1
<1>8. g[1] = first + Len(w[1])
  <2>1. 1 \in 1 .. l
    BY <1>1, <1>12
  <2>2. QED
    BY <1>2, <1>3, <1>5, <2>1
<1>9. ASSUME NEW n \in first + Len(w[1]) .. last PROVE \E b \in 1 .. l - 1 : g[b] <= n /\ n < g[b + 1]
  <2>1. n \in Int /\ n >= g[1] /\ n <= last
    BY <1>8
  <2>2. g[1] >= first /\ 1 \in 1 .. l /\ g[1] = f[2] /\ f[2] \in Nat
    <3>1. 1 \in 1 .. l + 1 /\ 1 + 1 \in 1 .. l + 1 /\ 1 \in 1 .. l
      BY <1>1, <1>12
    <3>2. g[1] = f[1 + 1] /\ f[1] <= f[1 + 1]
      BY <1>3, <1>5, <3>1
    <3>3. QED
      BY <1>2, <1>5, <3>1, <3>2
  <2>3. n \in first .. last
    BY <2>1, <2>2
  <2>4. PICK b \in 1 .. l : f[b] <= n /\ n < f[b + 1]
    BY <1>3, <2>3
  <2>5. b # 1
    BY <2>1, <2>2, <2>4
  <2>6. b - 1 \in 1 .. l - 1 /\ b - 1 \in 1 .. l /\ (b - 1) + 1 = b /\ b \in 1 .. l
    BY <1>1, <2>5
  <2>7. g[b - 1] = f[b] /\ g[(b - 1) + 1] = f[b + 1]
    BY <1>5, <2>6
  <2>8. QED
    BY <2>4, <2>6, <2>7
<1>10. Starts(v, g, first + Len(w[1]), last)
  <2>1. Len(v) + 1 = l /\ g[l] = last + 1
    BY <1>1, <1>2, <1>4, <1>5, <1>12
  <2>2. QED
    BY <1>4, <1>5, <1>6, <1>7, <1>8, <1>9, <2>1 DEF Starts
<1>11. QED
  BY <1>10

(* The first n packets of the first buffer are taken out. *)
LEMMA StartsPart ==
  ASSUME NEW w \in Seq(Packets), NEW v \in Seq(Packets), NEW f, NEW first \in Nat, NEW last \in Nat,
         Starts(w, f, first, last), Len(w) >= 1, Len(v) = Len(w),
         NEW n \in Nat, n <= Len(w[1]),
         \A b \in 2 .. Len(w) : v[b] = w[b],
         v[1] = SubSeq(w[1], n + 1, Len(w[1]))
  PROVE  \E g : Starts(v, g, first + n, last)
<1> DEFINE l == Len(w)
           g == [f EXCEPT ![1] = first + n]
<1>1. l \in Nat
  OBVIOUS
<1>12. l >= 1
  OBVIOUS
<1>13. w[1] \in Seq(Nat) /\ Len(w[1]) \in Nat
  BY Buffers
<1>2. f \in [1 .. l + 1 -> Nat] /\ f[1] = first /\ f[l + 1] = last + 1
  BY DEF Starts
<1>3. /\ \A b \in 1 .. l : f[b + 1] = f[b] + Len(w[b]) /\ w[b] = Run(f[b], Len(w[b]))
      /\ \A b, c \in 1 .. l + 1 : b <= c => f[b] <= f[c]
      /\ \A m \in first .. last : \E b \in 1 .. l : f[b] <= m /\ m < f[b + 1]
  BY DEF Starts
<1>4. /\ Len(v) = l /\ \A b \in 2 .. l : v[b] = w[b]
      /\ v[1] = SubSeq(w[1], n + 1, Len(w[1])) /\ n <= Len(w[1])
  OBVIOUS
<1> HIDE DEF l
<1>5. /\ g \in [1 .. l + 1 -> Nat] /\ g[1] = first + n
      /\ \A b \in 2 .. l + 1 : g[b] = f[b] /\ f[b] \in Nat
  BY <1>1, <1>2
<1> HIDE DEF g
<1>14. f[2] = first + Len(w[1]) /\ w[1] = Run(first, Len(w[1])) /\ g[2] = f[2]
  <2>1. 1 \in 1 .. l /\ 2 \in 2 .. l + 1
    BY <1>1, <1>12
  <2>2. f[1 + 1] = f[1] + Len(w[1]) /\ w[1] = Run(f[1], Len(w[1]))
    BY <1>3, <2>1
  <2>3. QED
    BY <1>2, <1>5, <2>1, <2>2
<1>15. Len(v[1]) = Len(w[1]) - n /\ v[1] = Run(first + n, Len(w[1]) - n)
  <2>1. SubSeq(w[1], n + 1, Len(w[1])) = [i \in 1 .. Len(w[1]) - n |-> w[1][i + n]]
    BY <1>4, <1>13
  <2>2. Len(v[1]) = Len(w[1]) - n
    BY <1>4, <1>13
  <2>3. \A i \in 1 .. Len(w[1]) : w[1][i] = first + i - 1
    BY <1>14 DEF Run
  <2>4. \A i \in 1 .. Len(w[1]) - n : w[1][i + n] = first + n + i - 1
    BY <1>13, <2>3
  <2>5. QED
    BY <1>4, <2>1, <2>2, <2>4 DEF Run
<1>6. ASSUME NEW b \in 1 .. l PROVE g[b + 1] = g[b] + Len(v[b]) /\ v[b] = Run(g[b], Len(v[b]))
  <2>1. CASE b = 1
    <3>1. \A k \in Nat : first + k = (first + n) + (k - n)
      OBVIOUS
    <3>2. g[2] = g[1] + Len(v[1])
      BY <1>5, <1>13, <1>14, <1>15, <3>1
    <3>3. v[1] = Run(g[1], Len(v[1]))
      BY <1>5, <1>15
    <3>4. b + 1 = 2
      BY <2>1
    <3>5. QED
      BY <2>1, <3>2, <3>3, <3>4
  <2>2. CASE b # 1
    <3>1. b \in 2 .. l /\ b \in 2 .. l + 1 /\ b + 1 \in 2 .. l + 1
      BY <1>1, <2>2
    <3>2. QED
      BY <1>3, <1>4, <1>5, <3>1
  <2>3. QED
    BY <2>1, <2>2
<1>7. ASSUME NEW b \in 1 .. l + 1, NEW c \in 1 .. l + 1, b <= c PROVE g[b] <= g[c]
  <2>1. CASE b = 1 /\ c = 1
    BY <1>5, <2>1
  <2>2. CASE b = 1 /\ c # 1
    <3>1. c \in 2 .. l + 1 /\ 2 \in 1 .. l + 1 /\ 2 <= c
      BY <1>1, <1>12, <2>2
    <3>2. f[2] <= f[c] /\ f[c] = g[c] /\ f[c] \in Nat
      BY <1>3, <1>5, <3>1
    <3>3. QED
      BY <1>4, <1>5, <1>13, <1>14, <2>2, <3>2
  <2>3. CASE b # 1
    <3>1. b \in 2 .. l + 1 /\ c \in 2 .. l + 1
      BY <1>1, <1>7, <2>3
    <3>2. QED
      BY <1>3, <1>5, <1>7, <3>1
  <2>4. QED
    BY <2>1, <2>2, <2>3
<1>8. ASSUME NEW m \in first + n .. last PROVE \E b \in 1 .. l : g[b] <= m /\ m < g[b + 1]
  <2>0. m \in first .. last
    OBVIOUS
  <2>1. PICK b \in 1 .. l : f[b] <= m /\ m < f[b + 1]
    BY <1>3, <2>0
  <2>2. CASE b = 1
    BY <1>5, <1>14, <2>1, <2>2
  <2>3. CASE b # 1
    <3>1. b \in 2 .. l + 1 /\ b + 1 \in 2 .. l + 1
      BY <1>1, <2>3
    <3>2. QED
      BY <1>5, <2>1, <3>1
  <2>4. QED
    BY <2>2, <2>3
<1>9. g[l + 1] = last + 1
  <2>1. l + 1 \in 2 .. l + 1
    BY <1>1, <1>12
  <2>2. QED
    BY <1>2, <1>5, <2>1
<1>10. Starts(v, g, first + n, last)
  BY <1>4, <1>5, <1>6, <1>7, <1>8, <1>9 DEF Starts
<1>11. QED
  BY <1>10

(* An empty buffer is put before the last one, which is o. *)
LEMMA StartsInsert ==
  ASSUME NEW q \in Seq(Packets), NEW o \in Seq(Nat), NEW f, NEW first \in Nat, NEW last \in Nat,
         Starts(Append(q, o), f, first, last)
  PROVE  \E g : Starts(Append(Append(q, <<>>), o), g, first, last)
<1> DEFINE w == Append(q, o)
           v == Append(Append(q, <<>>), o)
           k == Len(q)
           g == [b \in 1 .. k + 3 |-> IF b <= k + 1 THEN f[b] ELSE IF b = k + 2 THEN f[k + 1] ELSE last + 1]
<1>1. k \in Nat
  OBVIOUS
<1>2. Len(w) = k + 1 /\ Len(v) = k + 2
  BY DEF Packets
<1>3. w[k + 1] = o /\ v[k + 1] = <<>> /\ v[k + 2] = o
  BY DEF Packets
<1>4. \A b \in 1 .. k : w[b] = q[b] /\ v[b] = q[b]
  BY DEF Packets
<1>5. f \in [1 .. k + 2 -> Nat] /\ f[1] = first /\ f[k + 2] = last + 1
  <2>1. Len(w) + 1 = k + 2
    BY <1>1, <1>2
  <2>2. QED
    BY <2>1 DEF Starts
<1>6. /\ \A b \in 1 .. k + 1 : f[b + 1] = f[b] + Len(w[b]) /\ w[b] = Run(f[b], Len(w[b]))
      /\ \A n \in first .. last : \E b \in 1 .. k + 1 : f[b] <= n /\ n < f[b + 1]
  BY <1>2 DEF Starts
<1>7. \A b, c \in 1 .. k + 2 : b <= c => f[b] <= f[c]
  <2>1. Len(w) + 1 = k + 2
    BY <1>1, <1>2
  <2>2. QED
    BY <2>1 DEF Starts
<1> HIDE DEF w, v, k
<1>8. /\ g \in [1 .. k + 3 -> Nat] /\ g[k + 2] = f[k + 1] /\ g[k + 3] = last + 1
      /\ \A b \in 1 .. k + 1 : g[b] = f[b] /\ f[b] \in Nat
  BY <1>1, <1>5
<1> HIDE DEF g
<1>14. k + 1 \in 1 .. k + 1 /\ k + 1 \in 1 .. k + 2
  BY <1>1
<1>9. last + 1 = f[k + 1] + Len(o) /\ o = Run(f[k + 1], Len(o))
  <2>1. f[(k + 1) + 1] = f[k + 1] + Len(w[k + 1]) /\ w[k + 1] = Run(f[k + 1], Len(w[k + 1]))
    BY <1>6, <1>14
  <2>2. (k + 1) + 1 = k + 2
    BY <1>1
  <2>3. QED
    BY <1>3, <1>5, <2>1, <2>2
<1>10. ASSUME NEW b \in 1 .. k + 2 PROVE g[b + 1] = g[b] + Len(v[b]) /\ v[b] = Run(g[b], Len(v[b]))
  <2>1. CASE b = k + 2
    <3>1. b + 1 = k + 3
      BY <1>1, <2>1
    <3>2. QED
      BY <1>3, <1>8, <1>9, <2>1, <3>1
  <2>2. CASE b = k + 1
    <3>1. b + 1 = k + 2 /\ g[b] = f[k + 1] /\ f[k + 1] \in Nat
      BY <1>1, <1>8, <1>14, <2>2
    <3>2. Len(v[b]) = 0 /\ v[b] = Run(g[b], 0)
      BY <1>3, <2>2 DEF Run
    <3>3. g[b + 1] = g[b] + 0
      BY <1>8, <3>1
    <3>4. QED
      BY <3>2, <3>3
  <2>3. CASE b # k + 1 /\ b # k + 2
    <3>1. b \in 1 .. k /\ b \in 1 .. k + 1 /\ b + 1 \in 1 .. k + 1
      BY <1>1, <2>3
    <3>2. v[b] = w[b]
      BY <1>4, <3>1
    <3>3. QED
      BY <1>6, <1>8, <3>1, <3>2
  <2>4. QED
    BY <2>1, <2>2, <2>3
<1>11. ASSUME NEW b \in 1 .. k + 3, NEW c \in 1 .. k + 3, b <= c PROVE g[b] <= g[c]
  <2>1. \A d \in 1 .. k + 1 : f[d] <= f[k + 1] /\ f[k + 1] <= f[k + 2]
    <3>1. ASSUME NEW d \in 1 .. k + 1 PROVE d \in 1 .. k + 2 /\ d <= k + 1 /\ k + 2 \in 1 .. k + 2 /\ k + 1 <= k + 2
      BY <1>1
    <3>2. QED
      BY <1>7, <1>14, <3>1
  <2>2. f[k + 1] \in Nat /\ f[k + 1] <= last + 1
    BY <1>5, <1>8, <1>14, <2>1
  <2>3. CASE b \in 1 .. k + 1 /\ c \in 1 .. k + 1
    <3>1. b \in 1 .. k + 2 /\ c \in 1 .. k + 2
      BY <1>1, <2>3
    <3>2. QED
      BY <1>7, <1>8, <1>11, <2>3, <3>1
  <2>4. CASE b \in 1 .. k + 1 /\ c = k + 2
    BY <1>8, <2>1, <2>4
  <2>5. CASE b \in 1 .. k + 1 /\ c = k + 3
    <3>1. f[b] <= f[k + 1] /\ f[b] \in Nat /\ g[b] = f[b]
      BY <1>8, <2>1, <2>5
    <3>2. QED
      BY <1>8, <2>2, <2>5, <3>1
  <2>6. CASE b = k + 2 /\ c = k + 2
    BY <1>8, <2>2, <2>6
  <2>7. CASE b = k + 2 /\ c = k + 3
    BY <1>8, <2>2, <2>7
  <2>8. CASE b = k + 3 /\ c = k + 3
    BY <1>8, <2>8
  <2>9. QED
    BY <1>1, <1>11, <2>3, <2>4, <2>5, <2>6, <2>7, <2>8
<1>12. ASSUME NEW n \in first .. last PROVE \E b \in 1 .. k + 2 : g[b] <= n /\ n < g[b + 1]
  <2>1. PICK b \in 1 .. k + 1 : f[b] <= n /\ n < f[b + 1]
    BY <1>6
  <2>2. CASE b = k + 1
    <3>1. b + 1 = k + 2 /\ (k + 2) + 1 = k + 3 /\ k + 2 \in 1 .. k + 2
      BY <1>1, <2>2
    <3>2. g[k + 2] <= n /\ n < g[(k + 2) + 1]
      BY <1>5, <1>8, <2>1, <2>2, <3>1
    <3>3. QED
      BY <3>1, <3>2
  <2>3. CASE b # k + 1
    <3>1. b \in 1 .. k + 2 /\ b + 1 \in 1 .. k + 1
      BY <1>1, <2>3
    <3>2. QED
      BY <1>8, <2>1, <3>1
  <2>4. QED
    BY <2>2, <2>3
<1>13. Starts(v, g, first, last)
  <2>1. Len(v) + 1 = k + 3
    BY <1>1, <1>2
  <2>2. 1 \in 1 .. k + 1
    BY <1>1
  <2>3. g[1] = first
    BY <1>5, <1>8, <2>2
  <2>4. QED
    BY <1>2, <1>8, <1>10, <1>11, <1>12, <2>1, <2>3 DEF Starts
<1>15. QED
  BY <1>13 DEF v

(* The last buffer of w, o, is split in v into buffers of a packet each. *)
Split(w, v, k, o) ==
  /\ Len(w) = k + 1 /\ w[k + 1] = o /\ Len(v) = k + Len(o) + 1 /\ v[k + Len(o) + 1] = <<>>
  /\ \A b \in 1 .. k : v[b] = w[b]
  /\ \A i \in 1 .. Len(o) : v[k + i] = <<o[i]>>

LEMMA StartsSingle ==
  ASSUME NEW w \in Seq(Packets), NEW v \in Seq(Packets), NEW f, NEW first \in Nat, NEW last \in Nat,
         NEW k \in Nat, NEW o \in Seq(Nat), Starts(w, f, first, last), Split(w, v, k, o)
  PROVE  \E g : Starts(v, g, first, last)
<1> DEFINE m == Len(o)
           g == [b \in 1 .. k + m + 2 |->
                   IF b <= k + 1 THEN f[b] ELSE IF b <= k + m + 1 THEN f[k + 1] + (b - k - 1) ELSE last + 1]
<1>0. /\ Len(w) = k + 1 /\ w[k + 1] = o
      /\ Len(v) = k + Len(o) + 1 /\ v[k + Len(o) + 1] = <<>>
      /\ \A b \in 1 .. k : v[b] = w[b]
      /\ \A i \in 1 .. Len(o) : v[k + i] = <<o[i]>>
  BY DEF Split
<1>1. m \in Nat
  OBVIOUS
<1>2. f \in [1 .. k + 2 -> Nat] /\ f[1] = first /\ f[k + 2] = last + 1
  <2>1. Len(w) + 1 = k + 2
    BY <1>0
  <2>2. QED
    BY <2>1 DEF Starts
<1>3. /\ \A b \in 1 .. k + 1 : f[b + 1] = f[b] + Len(w[b]) /\ w[b] = Run(f[b], Len(w[b]))
      /\ \A n \in first .. last : \E b \in 1 .. k + 1 : f[b] <= n /\ n < f[b + 1]
  BY <1>0 DEF Starts
<1>4. \A b, c \in 1 .. k + 2 : b <= c => f[b] <= f[c]
  <2>1. Len(w) + 1 = k + 2
    BY <1>0
  <2>2. QED
    BY <2>1 DEF Starts
<1>5. k + 1 \in 1 .. k + 1 /\ k + 1 \in 1 .. k + 2 /\ k + 2 \in 1 .. k + 2 /\ (k + 1) + 1 = k + 2
  OBVIOUS
<1>6. last + 1 = f[k + 1] + m /\ f[k + 1] \in Nat /\ \A i \in 1 .. m : o[i] = f[k + 1] + i - 1
  <2>1. f[(k + 1) + 1] = f[k + 1] + Len(w[k + 1]) /\ w[k + 1] = Run(f[k + 1], Len(w[k + 1]))
    BY <1>3, <1>5
  <2>2. f[k + 2] = f[k + 1] + m /\ o = Run(f[k + 1], m)
    BY <1>0, <1>5, <2>1
  <2>3. QED
    BY <1>2, <1>5, <2>2 DEF Run
<1>7. /\ Len(v) = k + m + 1 /\ v[k + m + 1] = <<>>
      /\ \A b \in 1 .. k : v[b] = w[b]
      /\ \A i \in 1 .. m : v[k + i] = <<o[i]>>
  BY <1>0
<1> HIDE DEF m
<1>14. \A b \in 1 .. k + 1 : b \in 1 .. k + m + 2 /\ g[b] = f[b] /\ f[b] \in Nat
  BY <1>1, <1>2
<1>15. \A b \in k + 1 .. k + m + 1 : g[b] = f[k + 1] + (b - k - 1)
  <2> SUFFICES ASSUME NEW b \in k + 1 .. k + m + 1 PROVE g[b] = f[k + 1] + (b - k - 1)
    OBVIOUS
  <2>1. CASE b = k + 1
    BY <1>1, <1>6, <1>14, <2>1
  <2>2. CASE b # k + 1
    <3>1. b \in 1 .. k + m + 2 /\ ~(b <= k + 1) /\ b <= k + m + 1
      BY <1>1, <2>2
    <3>2. QED
      BY <3>1
  <2>3. QED
    BY <2>1, <2>2
<1>16. k + m + 2 \in 1 .. k + m + 2 /\ ~(k + m + 2 <= k + 1) /\ ~(k + m + 2 <= k + m + 1)
  BY <1>1
<1>17. g[k + m + 2] = last + 1
  BY <1>16
<1>18. \A b \in 1 .. k + m + 2 : g[b] \in Nat
  <2> SUFFICES ASSUME NEW b \in 1 .. k + m + 2 PROVE g[b] \in Nat
    OBVIOUS
  <2>1. CASE b = k + m + 2
    BY <1>17, <2>1
  <2>2. CASE b \in 1 .. k + 1
    BY <1>14, <2>2
  <2>3. CASE b \in k + 1 .. k + m + 1
    <3> HIDE DEF g
    <3>1. b - k - 1 \in Nat
      BY <1>1, <2>3
    <3>2. g[b] = f[k + 1] + (b - k - 1)
      BY <1>15, <2>3
    <3>3. QED
      BY <1>6, <3>1, <3>2
  <2>4. QED
    BY <1>1, <2>1, <2>2, <2>3
<1>8. /\ g \in [1 .. k + m + 2 -> Nat] /\ g[k + m + 2] = last + 1
      /\ \A b \in 1 .. k + 1 : g[b] = f[b] /\ f[b] \in Nat
      /\ \A b \in k + 1 .. k + m + 1 : g[b] = f[k + 1] + (b - k - 1)
  BY <1>14, <1>15, <1>17, <1>18
<1> HIDE DEF g
<1>9. ASSUME NEW b \in 1 .. k + m + 1 PROVE g[b + 1] = g[b] + Len(v[b]) /\ v[b] = Run(g[b], Len(v[b]))
  <2>1. CASE b = k + m + 1
    <3>1. b + 1 = k + m + 2 /\ b \in k + 1 .. k + m + 1
      BY <1>1, <2>1
    <3>2. g[b] = last + 1 /\ g[b + 1] = last + 1
      BY <1>1, <1>6, <1>8, <2>1, <3>1
    <3>3. Len(v[b]) = 0 /\ v[b] = Run(g[b], 0)
      BY <1>7, <2>1 DEF Run
    <3>4. QED
      BY <3>2, <3>3
  <2>2. CASE b \in k + 1 .. k + m
    <3>1. b - k \in 1 .. m /\ k + (b - k) = b /\ b \in k + 1 .. k + m + 1 /\ b + 1 \in k + 1 .. k + m + 1
      BY <1>1, <2>2
    <3>2. v[b] = <<o[b - k]>> /\ o[b - k] = f[k + 1] + (b - k) - 1
      BY <1>6, <1>7, <3>1
    <3>3. g[b] = f[k + 1] + (b - k) - 1 /\ g[b + 1] = g[b] + 1
      BY <1>6, <1>8, <3>1
    <3>4. v[b] = <<g[b]>>
      BY <3>2, <3>3
    <3>7. g[b] \in Nat
      BY <1>1, <1>8, <3>1
    <3>5. Len(v[b]) = 1 /\ v[b] = Run(g[b], 1)
      BY <3>4, <3>7 DEF Run
    <3>6. QED
      BY <3>3, <3>5
  <2>3. CASE b \in 1 .. k
    <3>1. b \in 1 .. k + 1 /\ b + 1 \in 1 .. k + 1
      BY <2>3
    <3>2. QED
      BY <1>3, <1>7, <1>8, <2>3, <3>1
  <2>4. b \in 1 .. k \/ b \in k + 1 .. k + m \/ b = k + m + 1
    BY <1>1
  <2>5. QED
    BY <2>1, <2>2, <2>3, <2>4
<1>10. ASSUME NEW b \in 1 .. k + m + 2, NEW c \in 1 .. k + m + 2, b <= c PROVE g[b] <= g[c]
  <2>1. \A d \in 1 .. k + 1 : f[d] <= f[k + 1] /\ g[d] = f[d] /\ f[d] \in Nat
    BY <1>4, <1>5, <1>8
  <2>2. \A d \in k + 1 .. k + m + 2 : f[k + 1] <= g[d] /\ g[d] <= last + 1
    <3> SUFFICES ASSUME NEW d \in k + 1 .. k + m + 2 PROVE f[k + 1] <= g[d] /\ g[d] <= last + 1
      OBVIOUS
    <3>1. CASE d = k + m + 2
      BY <1>1, <1>6, <1>8, <3>1
    <3>2. CASE d # k + m + 2
      <4>1. d \in k + 1 .. k + m + 1
        BY <1>1, <3>2
      <4>2. QED
        BY <1>1, <1>6, <1>8, <4>1
    <3>3. QED
      BY <3>1, <3>2
  <2>3. CASE b \in 1 .. k + 1 /\ c \in 1 .. k + 1
    <3>1. b \in 1 .. k + 2 /\ c \in 1 .. k + 2
      BY <2>3
    <3>2. QED
      BY <1>4, <1>10, <2>1, <2>3, <3>1
  <2>4. CASE b \in 1 .. k + 1 /\ c \in k + 1 .. k + m + 2
    <3>1. g[b] <= f[k + 1] /\ g[b] \in Nat
      BY <2>1, <2>4
    <3>2. f[k + 1] <= g[c] /\ g[c] \in Nat
      BY <1>8, <2>2, <2>4
    <3>3. QED
      BY <1>6, <3>1, <3>2
  <2>5. CASE b \in k + 1 .. k + m + 1 /\ c \in k + 1 .. k + m + 1
    BY <1>1, <1>6, <1>8, <1>10, <2>5
  <2>6. CASE b \in k + 1 .. k + m + 2 /\ c = k + m + 2
    BY <1>8, <2>2, <2>6
  <2>7. QED
    BY <1>1, <1>10, <2>3, <2>4, <2>5, <2>6
<1>11. ASSUME NEW n \in first .. last PROVE \E b \in 1 .. k + m + 1 : g[b] <= n /\ n < g[b + 1]
  <2>1. PICK b \in 1 .. k + 1 : f[b] <= n /\ n < f[b + 1]
    BY <1>3
  <2>2. CASE b = k + 1
    <3>1. f[k + 1] <= n /\ n < f[k + 1] + m
      BY <1>2, <1>5, <1>6, <2>1, <2>2
    <3>2. PICK d \in Int : d = k + 1 + (n - f[k + 1])
      BY <1>6
    <3>3. d \in k + 1 .. k + m
      BY <1>1, <1>6, <3>1, <3>2
    <3>4. d \in k + 1 .. k + m + 1 /\ d + 1 \in k + 1 .. k + m + 1 /\ d \in 1 .. k + m + 1
      BY <1>1, <3>3
    <3>5. g[d] = f[k + 1] + (d - k - 1) /\ g[d + 1] = f[k + 1] + ((d + 1) - k - 1)
      BY <1>8, <3>4
    <3>8. f[k + 1] + (d - k - 1) = n /\ f[k + 1] + ((d + 1) - k - 1) = n + 1
      <4>1. n \in Int
        BY <1>6, <3>1
      <4>2. PICK x \in Nat : x = f[k + 1]
        BY <1>6
      <4>3. d = k + 1 + (n - x)
        BY <3>2, <4>2
      <4>4. x + (d - k - 1) = n /\ x + ((d + 1) - k - 1) = n + 1
        BY <4>1, <4>3
      <4>5. QED
        BY <4>2, <4>4
    <3>6. g[d] = n /\ g[d + 1] = n + 1
      BY <3>5, <3>8
    <3>7. QED
      BY <3>3, <3>4, <3>6
  <2>3. CASE b # k + 1
    <3>1. b \in 1 .. k + m + 1 /\ b + 1 \in 1 .. k + 1 /\ b \in 1 .. k + 1
      BY <1>1, <2>3
    <3>2. QED
      BY <1>8, <2>1, <3>1
  <2>4. QED
    BY <2>2, <2>3
<1>12. Starts(v, g, first, last)
  <2>1. Len(v) + 1 = k + m + 2
    BY <1>1, <1>7
  <2>2. 1 \in 1 .. k + 1
    OBVIOUS
  <2>3. g[1] = first
    BY <1>2, <1>8, <2>2
  <2>4. QED
    BY <1>7, <1>8, <1>9, <1>10, <1>11, <2>1, <2>3 DEF Starts
<1>13. QED
  BY <1>12

-----------------------------------------------------------------------------
(***************************************************************************)
(* The operations on the state of a socket.  SentOf implies the clause of  *)
(* SentInOrder for a socket; Like: nothing changed but the queues of       *)
(* packets, the writes and whether it is closed.                           *)
(***************************************************************************)
SentOf(x) ==
  /\ x.wire = Numbers(Len(x.wire))
  /\ ~Broken(x) => \E f : Starts(Append(x.queue, x.out), f, Len(x.wire) + 1, x.accepted)

Like(x, y) ==
  /\ y.client = x.client /\ y.phase = x.phase /\ y.closing = x.closing
  /\ y.pointer = x.pointer /\ y.reads = x.reads

LEMMA Fields ==
  ASSUME NEW x \in SocketState
  PROVE  /\ x.client \in {"absent", "up", "down"} /\ x.phase \in Phases
         /\ x.closed \in BOOLEAN /\ x.closing \in BOOLEAN /\ x.writing \in BOOLEAN
         /\ x.pointer \in BOOLEAN /\ x.writes \in Nat /\ x.reads \in Nat
         /\ x.out \in Seq(Nat) /\ x.queue \in Seq(Packets) /\ x.wire \in Seq(Nat) /\ x.accepted \in Nat
BY DEF SocketState, Packets

(* A packet of the front buffer is the next one for the peer. *)
LEMMA WireGrows ==
  ASSUME NEW wire \in Seq(Nat), NEW h \in Seq(Nat), NEW n \in Nat, n <= Len(h),
         wire = Numbers(Len(wire)), h = Run(Len(wire) + 1, Len(h))
  PROVE  /\ wire \o SubSeq(h, 1, n) = Numbers(Len(wire) + n)
         /\ Len(wire \o SubSeq(h, 1, n)) = Len(wire) + n
         /\ wire \o SubSeq(h, 1, n) \in Seq(Nat)
<1> DEFINE p == SubSeq(h, 1, n)
           k == Len(wire)
<1>1. k \in Nat /\ Len(h) \in Nat
  OBVIOUS
<1>2. p \in Seq(Nat) /\ Len(p) = n /\ \A i \in 1 .. n : p[i] = h[i]
  OBVIOUS
<1>3. \A i \in 1 .. n : p[i] = k + i
  <2>1. \A i \in 1 .. Len(h) : h[i] = k + 1 + i - 1
    BY DEF Run
  <2>2. QED
    BY <1>1, <1>2, <2>1
<1>4. \A i \in 1 .. k : wire[i] = i
  BY DEF Numbers
<1> HIDE DEF p
<1>10. k + n \in Nat
  BY <1>1
<1>5. /\ wire \o p \in Seq(Nat) /\ Len(wire \o p) = k + n
      /\ \A i \in 1 .. k + n : (wire \o p)[i] = IF i <= k THEN wire[i] ELSE p[i - k]
  BY <1>1, <1>2, ConcatProperties
<1>6. \A i \in 1 .. k + n : (IF i <= k THEN wire[i] ELSE p[i - k]) = i
  <2> SUFFICES ASSUME NEW i \in 1 .. k + n PROVE (IF i <= k THEN wire[i] ELSE p[i - k]) = i
    OBVIOUS
  <2>1. CASE i <= k
    BY <1>1, <1>4, <2>1
  <2>2. CASE ~(i <= k)
    <3>1. i - k \in 1 .. n
      BY <1>1, <2>2
    <3>2. QED
      BY <1>1, <1>3, <2>2, <3>1
  <2>3. QED
    BY <2>1, <2>2
<1>7. wire \o p = Numbers(k + n)
  <2>1. \A s \in Seq(Nat) : s = [i \in 1 .. Len(s) |-> s[i]]
    OBVIOUS
  <2>3. wire \o p = [i \in 1 .. Len(wire \o p) |-> (wire \o p)[i]]
    BY <1>5, <2>1
  <2>2. QED
    BY <1>5, <1>6, <2>3 DEF Numbers
<1>9. QED
  BY <1>5, <1>7 DEF p

(* Only the queues, the wire and the number of packets matter to SentOf,   *)
(* and a broken connection stays broken.                                   *)
LEMMA SentSame ==
  ASSUME NEW x, NEW y, SentOf(x), y.wire = x.wire,
         Broken(x) => Broken(y),
         ~Broken(y) => y.queue = x.queue /\ y.out = x.out /\ y.accepted = x.accepted
  PROVE  SentOf(y)
BY DEF SentOf

(* The front buffer goes to the peer, or is empty. *)
LEMMA PopSent ==
  ASSUME NEW x \in SocketState, NEW y \in SocketState, SentOf(x), ~Broken(x), x.queue # <<>>,
         y.queue = Tail(x.queue), y.wire = x.wire \o Head(x.queue), y.out = x.out,
         y.accepted = x.accepted
  PROVE  SentOf(y)
<1> DEFINE w == Append(x.queue, x.out)
           v == Append(Tail(x.queue), x.out)
           h == Head(x.queue)
           k == Len(x.queue)
<1>1. /\ x.out \in Seq(Nat) /\ x.queue \in Seq(Packets) /\ x.wire \in Seq(Nat) /\ x.accepted \in Nat
      /\ y.wire \in Seq(Nat)
  BY Fields
<1>2. k \in Nat /\ k >= 1 /\ h \in Seq(Nat) /\ h = x.queue[1] /\ Tail(x.queue) \in Seq(Packets)
  BY <1>1 DEF Packets
<1>3. w \in Seq(Packets) /\ Len(w) = k + 1 /\ v \in Seq(Packets) /\ Len(v) = k
  BY <1>1, <1>2 DEF Packets
<1>4. w[1] = h
  BY <1>1, <1>2
<1>5. \A b \in 1 .. k : v[b] = w[b + 1]
  <2> SUFFICES ASSUME NEW b \in 1 .. k PROVE v[b] = w[b + 1]
    OBVIOUS
  <2>1. Len(Tail(x.queue)) = k - 1 /\ \A i \in 1 .. k - 1 : Tail(x.queue)[i] = x.queue[i + 1]
    BY <1>1, <1>2
  <2>2. CASE b = k
    BY <1>1, <1>2, <2>1, <2>2
  <2>3. CASE b # k
    <3>1. b \in 1 .. k - 1 /\ b + 1 \in 1 .. k
      BY <1>2, <2>3
    <3>2. v[b] = Tail(x.queue)[b] /\ w[b + 1] = x.queue[b + 1]
      BY <1>1, <1>2, <2>1, <3>1
    <3>3. QED
      BY <2>1, <3>1, <3>2
  <2>4. QED
    BY <2>2, <2>3
<1>6. PICK f : Starts(w, f, Len(x.wire) + 1, x.accepted)
  BY DEF SentOf
<1> HIDE DEF w, v, k, h
<1>7. PICK g : Starts(v, g, (Len(x.wire) + 1) + Len(w[1]), x.accepted)
  <2>1. Len(w) >= 1 /\ Len(v) = Len(w) - 1 /\ Len(w) - 1 = k /\ Len(x.wire) + 1 \in Nat
    BY <1>1, <1>2, <1>3
  <2>2. QED
    BY <1>1, <1>3, <1>5, <1>6, <2>1, StartsPop
<1>8. h = Run(Len(x.wire) + 1, Len(h))
  <2>1. 1 \in 1 .. Len(w)
    BY <1>2, <1>3
  <2>2. w[1] = Run(f[1], Len(w[1])) /\ f[1] = Len(x.wire) + 1
    BY <1>6, <2>1 DEF Starts
  <2>3. QED
    BY <1>4, <2>2
<1>9. x.wire = Numbers(Len(x.wire))
  BY DEF SentOf
<1>10. SubSeq(h, 1, Len(h)) = h /\ Len(h) \in Nat /\ Len(h) <= Len(h)
  BY <1>2
<1>17. /\ x.wire \o SubSeq(h, 1, Len(h)) = Numbers(Len(x.wire) + Len(h))
       /\ Len(x.wire \o SubSeq(h, 1, Len(h))) = Len(x.wire) + Len(h)
  <2>1. x.wire \in Seq(Nat) /\ h \in Seq(Nat)
    BY <1>1, <1>2
  <2>2. QED
    BY <1>8, <1>9, <1>10, <2>1, WireGrows
<1>11. x.wire \o h = Numbers(Len(x.wire) + Len(h)) /\ Len(x.wire \o h) = Len(x.wire) + Len(h)
  BY <1>10, <1>17
<1>12. y.wire = x.wire \o h
  BY DEF h
<1>13. Append(y.queue, y.out) = v
  BY DEF v
<1>14. Len(x.wire) \in Nat
  BY <1>1
<1>15. Len(y.wire) + 1 = (Len(x.wire) + 1) + Len(w[1])
  <2>1. Len(y.wire) = Len(x.wire) + Len(w[1])
    BY <1>4, <1>11, <1>12
  <2>2. \A i, j \in Nat : (i + j) + 1 = (i + 1) + j
    OBVIOUS
  <2>3. Len(w[1]) \in Nat
    BY <1>4, <1>10
  <2>4. (Len(x.wire) + Len(w[1])) + 1 = (Len(x.wire) + 1) + Len(w[1])
    BY <1>14, <2>2, <2>3
  <2>5. QED
    BY <2>1, <2>4
<1>16. QED
  BY <1>7, <1>11, <1>12, <1>13, <1>15 DEF SentOf

(* The first n packets of the front buffer go to the peer. *)
LEMMA PartSent ==
  ASSUME NEW x \in SocketState, NEW y \in SocketState, SentOf(x), ~Broken(x), x.queue # <<>>,
         NEW n \in 0 .. Len(Head(x.queue)) - 1,
         y.queue = [x.queue EXCEPT ![1] = SubSeq(@, n + 1, Len(@))],
         y.wire = x.wire \o SubSeq(Head(x.queue), 1, n), y.out = x.out, y.accepted = x.accepted
  PROVE  SentOf(y)
<1> DEFINE w == Append(x.queue, x.out)
           v == Append(y.queue, x.out)
           h == Head(x.queue)
           k == Len(x.queue)
<1>1. /\ x.out \in Seq(Nat) /\ x.queue \in Seq(Packets) /\ x.wire \in Seq(Nat) /\ x.accepted \in Nat
      /\ y.wire \in Seq(Nat) /\ y.queue \in Seq(Packets)
  BY Fields
<1>2. k \in Nat /\ k >= 1 /\ h \in Seq(Nat) /\ h = x.queue[1]
  BY <1>1 DEF Packets
<1>16. Len(h) \in Nat /\ n \in Nat /\ n <= Len(h)
  BY <1>2
<1>17. DOMAIN y.queue = 1 .. k
  BY <1>1
<1>18. Len(y.queue) = k
  BY <1>1, <1>2, <1>17
<1>3. w \in Seq(Packets) /\ Len(w) = k + 1 /\ v \in Seq(Packets) /\ Len(v) = k + 1
  BY <1>1, <1>2, <1>18 DEF Packets
<1>4. w[1] = h
  BY <1>1, <1>2
<1>5. v[1] = SubSeq(w[1], n + 1, Len(w[1]))
  <2>1. 1 \in 1 .. k /\ y.queue[1] = SubSeq(x.queue[1], n + 1, Len(x.queue[1]))
    BY <1>1, <1>2
  <2>2. v[1] = y.queue[1]
    BY <1>1, <1>2, <1>18, <2>1
  <2>3. QED
    BY <1>2, <1>4, <2>1, <2>2
<1>19. \A b \in 2 .. k + 1 : v[b] = w[b]
  <2> SUFFICES ASSUME NEW b \in 2 .. k + 1 PROVE v[b] = w[b]
    OBVIOUS
  <2>1. CASE b = k + 1
    BY <1>1, <1>2, <1>18, <2>1
  <2>2. CASE b # k + 1
    <3>1. b \in 1 .. k /\ b # 1
      BY <1>2, <2>2
    <3>2. y.queue[b] = x.queue[b]
      BY <1>1, <3>1
    <3>3. v[b] = y.queue[b] /\ w[b] = x.queue[b]
      BY <1>1, <1>18, <3>1
    <3>4. QED
      BY <3>2, <3>3
  <2>3. QED
    BY <2>1, <2>2
<1>6. PICK f : Starts(w, f, Len(x.wire) + 1, x.accepted)
  BY DEF SentOf
<1>12. y.wire = x.wire \o SubSeq(h, 1, n)
  OBVIOUS
<1>13. Append(y.queue, y.out) = v
  OBVIOUS
<1> HIDE DEF w, v, k, h
<1>7. PICK g : Starts(v, g, (Len(x.wire) + 1) + n, x.accepted)
  <2>1. Len(w) >= 1 /\ Len(v) = Len(w) /\ Len(x.wire) + 1 \in Nat /\ n <= Len(w[1])
    BY <1>1, <1>2, <1>3, <1>4, <1>16
  <2>2. QED
    BY <1>1, <1>3, <1>5, <1>6, <1>16, <1>19, <2>1, StartsPart
<1>8. h = Run(Len(x.wire) + 1, Len(h))
  <2>1. 1 \in 1 .. Len(w)
    BY <1>2, <1>3
  <2>2. w[1] = Run(f[1], Len(w[1])) /\ f[1] = Len(x.wire) + 1
    BY <1>6, <2>1 DEF Starts
  <2>3. QED
    BY <1>4, <2>2
<1>9. x.wire = Numbers(Len(x.wire))
  BY DEF SentOf
<1>11. y.wire = Numbers(Len(x.wire) + n) /\ Len(y.wire) = Len(x.wire) + n
  <2>1. x.wire \in Seq(Nat) /\ h \in Seq(Nat)
    BY <1>1, <1>2
  <2>2. /\ x.wire \o SubSeq(h, 1, n) = Numbers(Len(x.wire) + n)
        /\ Len(x.wire \o SubSeq(h, 1, n)) = Len(x.wire) + n
    BY <1>8, <1>9, <1>16, <2>1, WireGrows
  <2>3. QED
    BY <1>12, <2>2
<1>14. Len(x.wire) \in Nat
  BY <1>1
<1>15. Len(y.wire) + 1 = (Len(x.wire) + 1) + n
  <2>1. \A i, j \in Nat : (i + j) + 1 = (i + 1) + j
    OBVIOUS
  <2>2. (Len(x.wire) + n) + 1 = (Len(x.wire) + 1) + n
    BY <1>14, <1>16, <2>1
  <2>3. QED
    BY <1>11, <2>2
<1>20. QED
  BY <1>7, <1>11, <1>13, <1>15 DEF SentOf

(* A packet more waits in the last buffer. *)
LEMMA NextSent ==
  ASSUME NEW x \in SocketState, NEW y \in SocketState, SentOf(x), Broken(x) => Broken(y),
         y.wire = x.wire, y.queue = x.queue, y.out = Append(x.out, x.accepted + 1),
         y.accepted = x.accepted + 1
  PROVE  SentOf(y)
<1> DEFINE w == Append(x.queue, x.out)
           v == Append(x.queue, y.out)
           k == Len(x.queue)
<1> SUFFICES ASSUME ~Broken(y) PROVE \E g : Starts(v, g, Len(x.wire) + 1, x.accepted + 1)
  BY DEF SentOf
<1>1. /\ x.out \in Seq(Nat) /\ x.queue \in Seq(Packets) /\ x.wire \in Seq(Nat) /\ x.accepted \in Nat
      /\ y.out \in Seq(Nat)
  BY Fields
<1>2. k \in Nat /\ Len(x.wire) + 1 \in Nat
  BY <1>1
<1>3. w \in Seq(Packets) /\ Len(w) = k + 1 /\ v \in Seq(Packets) /\ Len(v) = k + 1
  BY <1>1, <1>2 DEF Packets
<1>4. w[k + 1] = x.out /\ v[k + 1] = Append(w[k + 1], x.accepted + 1) /\ \A b \in 1 .. k : v[b] = w[b]
  BY <1>1, <1>2
<1>5. PICK f : Starts(w, f, Len(x.wire) + 1, x.accepted)
  BY DEF SentOf
<1> HIDE DEF w, v, k
<1>6. Len(w) >= 1 /\ Len(v) = Len(w) /\ Len(w) - 1 = k
  BY <1>2, <1>3
<1>7. (\A b \in 1 .. Len(w) - 1 : v[b] = w[b]) /\ v[Len(w)] = Append(w[Len(w)], x.accepted + 1)
  BY <1>3, <1>4, <1>6
<1>8. Starts(v, [f EXCEPT ![Len(w) + 1] = x.accepted + 2], Len(x.wire) + 1, x.accepted + 1)
  BY <1>1, <1>2, <1>3, <1>5, <1>6, <1>7, StartsNext
<1>9. QED
  BY <1>8

LEMMA PackingsType ==
  ASSUME NEW o \in Seq(Nat), NEW p \in Packings(o)
  PROVE  p \in Seq(Packets)
<1> DEFINE single == [i \in DOMAIN o |-> <<o[i]>>]
<1>1. single \in Seq(Packets) /\ <<>> \in Seq(Packets) /\ <<o>> \in Seq(Packets) /\ <<<<>>>> \in Seq(Packets)
  <2>1. DOMAIN o = 1 .. Len(o) /\ Len(o) \in Nat /\ \A i \in 1 .. Len(o) : <<o[i]>> \in Seq(Nat)
    OBVIOUS
  <2>2. single \in Seq(Packets)
    BY <2>1 DEF Packets
  <2>3. QED
    BY <2>2 DEF Packets
<1>2. p = <<>> \/ p = <<o>> \/ p = single \/ p = <<<<>>>> \o single
  BY DEF Packings
<1>3. <<<<>>>> \o single \in Seq(Packets)
  BY <1>1, ConcatProperties
<1>4. QED
  BY <1>1, <1>2, <1>3

(* The buffers single of a packet each follow those of q. *)
LEMMA SingleSent ==
  ASSUME NEW q \in Seq(Packets), NEW o \in Seq(Nat), NEW f, NEW first \in Nat, NEW last \in Nat,
         Starts(Append(q, o), f, first, last)
  PROVE  \E g : Starts(Append(q \o [i \in DOMAIN o |-> <<o[i]>>], <<>>), g, first, last)
<1> DEFINE single == [i \in DOMAIN o |-> <<o[i]>>]
           w == Append(q, o)
           r == q \o single
           v == Append(r, <<>>)
           k == Len(q)
           m == Len(o)
<1>1. k \in Nat /\ m \in Nat /\ DOMAIN o = 1 .. m
  OBVIOUS
<1>2. single \in Seq(Packets)
  <2>1. \A i \in 1 .. m : <<o[i]>> \in Packets
    BY DEF Packets
  <2>2. QED
    BY <1>1, <2>1
<1>3. Len(single) = m /\ \A i \in 1 .. m : single[i] = <<o[i]>>
  BY <1>1
<1> HIDE DEF single
<1>4. /\ r \in Seq(Packets) /\ Len(r) = k + m
      /\ \A i \in 1 .. k + m : r[i] = IF i <= k THEN q[i] ELSE single[i - k]
  <2>1. /\ q \o single \in Seq(Packets) /\ Len(q \o single) = Len(q) + Len(single)
        /\ \A i \in 1 .. Len(q) + Len(single) :
             (q \o single)[i] = IF i <= Len(q) THEN q[i] ELSE single[i - Len(q)]
    BY <1>2, ConcatProperties
  <2>2. QED
    BY <1>3, <2>1
<1> HIDE DEF r
<1>5. w \in Seq(Packets) /\ Len(w) = k + 1 /\ w[k + 1] = o /\ \A b \in 1 .. k : w[b] = q[b]
  BY DEF Packets
<1>6. <<>> \in Packets
  BY DEF Packets
<1> HIDE DEF k, m
<1>7. v \in Seq(Packets) /\ Len(v) = (k + m) + 1 /\ v[(k + m) + 1] = <<>> /\ \A b \in 1 .. k + m : v[b] = r[b]
  <2>1. \A u \in Seq(Packets), e \in Packets :
          /\ Append(u, e) \in Seq(Packets) /\ Len(Append(u, e)) = Len(u) + 1
          /\ Append(u, e)[Len(u) + 1] = e /\ \A b \in 1 .. Len(u) : Append(u, e)[b] = u[b]
    OBVIOUS
  <2>2. QED
    BY <1>4, <1>6, <2>1
<1>11. Starts(w, f, first, last)
  OBVIOUS
<1> HIDE DEF w, v
<1>8. \A b \in 1 .. k : v[b] = w[b]
  <2> SUFFICES ASSUME NEW b \in 1 .. k PROVE v[b] = w[b]
    OBVIOUS
  <2>1. b \in 1 .. k + m /\ b <= k
    BY <1>1
  <2>2. v[b] = r[b] /\ r[b] = q[b]
    BY <1>4, <1>7, <2>1
  <2>3. QED
    BY <1>5, <2>2
<1>9. \A i \in 1 .. m : v[k + i] = <<o[i]>>
  <2> SUFFICES ASSUME NEW i \in 1 .. m PROVE v[k + i] = <<o[i]>>
    OBVIOUS
  <2>1. k + i \in 1 .. k + m /\ ~(k + i <= k) /\ (k + i) - k = i
    BY <1>1
  <2>2. v[k + i] = r[k + i] /\ r[k + i] = single[i]
    BY <1>4, <1>7, <2>1
  <2>3. QED
    BY <1>3, <2>2
<1>10. \E g : Starts(v, g, first, last)
  <2>1. m = Len(o)
    BY DEF m
  <2>2. /\ Len(v) = k + Len(o) + 1 /\ v[k + Len(o) + 1] = <<>>
        /\ \A i \in 1 .. Len(o) : v[k + i] = <<o[i]>>
    BY <1>7, <1>9, <2>1
  <2>3. Len(w) = k + 1 /\ w[k + 1] = o /\ w \in Seq(Packets) /\ v \in Seq(Packets) /\ k \in Nat
    BY <1>1, <1>5, <1>7
  <2>4. QED
    <3>1. Split(w, v, k, o)
      BY <1>8, <2>2, <2>3 DEF Split
    <3>2. QED
      BY <1>11, <2>3, <3>1, StartsSingle
<1>12. QED
  BY <1>10 DEF v, r, single

(* The packets that wait are packed into buffers. *)
LEMMA PackSent ==
  ASSUME NEW x \in SocketState, NEW y \in SocketState, SentOf(x), Broken(x) => Broken(y),
         NEW p \in Packings(x.out), y.wire = x.wire, y.queue = x.queue \o p, y.out = <<>>,
         y.accepted = x.accepted
  PROVE  SentOf(y)
<1> DEFINE q == x.queue
           o == x.out
           first == Len(x.wire) + 1
           last == x.accepted
           single == [i \in DOMAIN o |-> <<o[i]>>]
<1> SUFFICES ASSUME ~Broken(y) PROVE \E g : Starts(Append(q \o p, <<>>), g, first, last)
  BY DEF SentOf
<1>1. o \in Seq(Nat) /\ q \in Seq(Packets) /\ first \in Nat /\ last \in Nat
  BY Fields
<1>2. PICK f : Starts(Append(q, o), f, first, last)
  BY DEF SentOf
<1>3. (o = <<>> /\ p = <<>>) \/ p = <<o>> \/ p = single \/ p = (<<<<>>>> \o single)
  BY DEF Packings
<1> HIDE DEF q, o, first, last
<1>4. CASE o = <<>> /\ p = <<>>
  <2>1. q \o p = q
    BY <1>1, <1>4
  <2>2. QED
    BY <1>2, <1>4, <2>1
<1>5. CASE p = <<o>>
  <2>1. q \o p = Append(q, o)
    BY <1>1, <1>5 DEF Packets
  <2>2. /\ Append(q, o) \in Seq(Packets) /\ Append(Append(q, o), <<>>) \in Seq(Packets)
        /\ Len(Append(Append(q, o), <<>>)) = Len(Append(q, o)) + 1
        /\ Append(Append(q, o), <<>>)[Len(Append(q, o)) + 1] = <<>>
        /\ \A b \in 1 .. Len(Append(q, o)) : Append(Append(q, o), <<>>)[b] = Append(q, o)[b]
    <3>1. o \in Packets /\ <<>> \in Packets
      BY <1>1 DEF Packets
    <3>2. Append(q, o) \in Seq(Packets)
      BY <1>1, <3>1
    <3>3. QED
      BY <3>1, <3>2
  <2>3. \E g : Starts(Append(Append(q, o), <<>>), g, first, last)
    BY <1>1, <1>2, <2>2, StartsEmpty
  <2>4. QED
    BY <2>1, <2>3
<1>6. CASE p = single
  BY <1>1, <1>2, <1>6, SingleSent
<1>7. CASE p = <<<<>>>> \o single
  <2>1. <<>> \in Packets /\ Append(q, <<>>) \in Seq(Packets)
    BY <1>1 DEF Packets
  <2>2. PICK h : Starts(Append(Append(q, <<>>), o), h, first, last)
    BY <1>1, <1>2, StartsInsert
  <2>3. PICK g : Starts(Append(Append(q, <<>>) \o single, <<>>), g, first, last)
    BY <1>1, <2>1, <2>2, SingleSent
  <2>4. single \in Seq(Packets)
    <3>1. \A i \in DOMAIN o : <<o[i]>> \in Packets
      BY <1>1 DEF Packets
    <3>2. DOMAIN o = 1 .. Len(o) /\ Len(o) \in Nat
      BY <1>1
    <3>3. QED
      BY <3>1, <3>2
  <2>5. Append(q, <<>>) \o single = q \o (<<<<>>>> \o single)
    <3>1. <<<<>>>> \in Seq(Packets) /\ Append(q, <<>>) = q \o <<<<>>>>
      BY <1>1, <2>1
    <3>2. QED
      BY <1>1, <2>4, <3>1, ConcatAssociative
  <2>6. QED
    BY <1>7, <2>3, <2>5
<1>8. QED
  BY <1>3, <1>4, <1>5, <1>6, <1>7

(* A packet goes to the buffers when nothing else waits. *)
LEMMA GreetSent ==
  ASSUME NEW x \in SocketState, NEW y \in SocketState, SentOf(x), Broken(x) => Broken(y),
         x.out = <<>>, y.wire = x.wire, y.queue = Append(x.queue, <<x.accepted + 1>>),
         y.out = <<>>, y.accepted = x.accepted + 1
  PROVE  SentOf(y)
<1> DEFINE q == x.queue
           n == x.accepted
           first == Len(x.wire) + 1
           w == Append(q, <<>>)
           u == Append(q, <<n + 1>>)
           v == Append(u, <<>>)
<1> SUFFICES ASSUME ~Broken(y) PROVE \E g : Starts(v, g, first, n + 1)
  BY DEF SentOf
<1>1. n \in Nat /\ q \in Seq(Packets) /\ first \in Nat
  BY Fields
<1>2. PICK f : Starts(w, f, first, n)
  BY DEF SentOf
<1> HIDE DEF q, n, first
<1>3. <<>> \in Packets /\ <<n + 1>> \in Packets /\ Append(<<>>, n + 1) = <<n + 1>>
  BY <1>1 DEF Packets
<1>4. \A z \in Seq(Packets), e \in Packets :
        /\ Append(z, e) \in Seq(Packets) /\ Len(Append(z, e)) = Len(z) + 1
        /\ Append(z, e)[Len(z) + 1] = e /\ \A b \in 1 .. Len(z) : Append(z, e)[b] = z[b]
  OBVIOUS
<1>5. w \in Seq(Packets) /\ Len(w) = Len(q) + 1 /\ w[Len(q) + 1] = <<>> /\ \A b \in 1 .. Len(q) : w[b] = q[b]
  BY <1>1, <1>3, <1>4
<1>6. u \in Seq(Packets) /\ Len(u) = Len(q) + 1 /\ u[Len(q) + 1] = <<n + 1>> /\ \A b \in 1 .. Len(q) : u[b] = q[b]
  BY <1>1, <1>3, <1>4
<1> HIDE DEF w, u
<1>7. v \in Seq(Packets) /\ Len(v) = Len(u) + 1 /\ v[Len(u) + 1] = <<>> /\ \A b \in 1 .. Len(u) : v[b] = u[b]
  BY <1>3, <1>4, <1>6
<1> HIDE DEF v
<1>8. Len(q) \in Nat /\ Len(w) >= 1 /\ Len(u) = Len(w) /\ Len(w) - 1 = Len(q)
  BY <1>1, <1>5, <1>6
<1>9. (\A b \in 1 .. Len(w) - 1 : u[b] = w[b]) /\ u[Len(w)] = Append(w[Len(w)], n + 1)
  BY <1>3, <1>5, <1>6, <1>8
<1>10. PICK g : Starts(u, g, first, n + 1)
  BY <1>1, <1>2, <1>5, <1>6, <1>8, <1>9, StartsNext
<1>11. n + 1 \in Nat
  BY <1>1
<1>12. QED
  BY <1>1, <1>6, <1>7, <1>10, <1>11, StartsEmpty

LEMMA SendFacts ==
  ASSUME NEW x \in SocketState
  PROVE  LET y == SendPacket(x) IN
         /\ y \in SocketState /\ Like(x, y) /\ y.closed = x.closed /\ (SentOf(x) => SentOf(y))
<1> DEFINE y == SendPacket(x)
<1>1. CASE ~IsOpen(x)
  BY <1>1 DEF SendPacket, Like
<1>2. CASE IsOpen(x)
  <2>1. /\ x.out \in Seq(Nat) /\ x.accepted \in Nat /\ x.accepted + 1 \in Nat
        /\ Append(x.out, x.accepted + 1) \in Seq(Nat)
    BY Fields
  <2>2. y = [x EXCEPT !.out = Append(@, x.accepted + 1), !.accepted = @ + 1]
    BY <1>2 DEF SendPacket
  <2>3. y \in SocketState
    BY <2>1, <2>2 DEF SocketState, Packets
  <2>4. /\ Like(x, y) /\ y.closed = x.closed /\ y.wire = x.wire /\ y.queue = x.queue
        /\ y.out = Append(x.out, x.accepted + 1) /\ y.accepted = x.accepted + 1
    BY <2>2 DEF SocketState, Like
  <2>5. SentOf(x) => SentOf(y)
    <3>1. Broken(x) => Broken(y)
      BY <2>4 DEF Broken, Like
    <3>2. QED
      BY <2>3, <2>4, <3>1, NextSent
  <2>6. QED
    BY <2>3, <2>4, <2>5
<1>3. QED
  BY <1>1, <1>2

LEMMA DelayedFacts ==
  ASSUME NEW x \in SocketState
  PROVE  LET y == DelayedCloseSocket(x) IN
         /\ y \in SocketState /\ y.closing /\ y.phase = "refused" /\ (SentOf(x) => SentOf(y))
         /\ y.client = x.client /\ y.closed = x.closed /\ y.pointer = x.pointer /\ y.reads = x.reads
<1> DEFINE y == DelayedCloseSocket(x)
<1>1. y = [x EXCEPT !.closing = TRUE, !.phase = "refused"]
  BY DEF DelayedCloseSocket
<1>2. y \in SocketState
  BY <1>1 DEF SocketState, Phases
<1>3. /\ y.closing /\ y.phase = "refused" /\ y.client = x.client /\ y.closed = x.closed
      /\ y.pointer = x.pointer /\ y.reads = x.reads
      /\ y.wire = x.wire /\ y.queue = x.queue /\ y.out = x.out /\ y.accepted = x.accepted
  BY <1>1 DEF SocketState
<1> HIDE DEF y
<1>4. SentOf(x) => SentOf(y)
  BY <1>3, SentSame DEF Broken
<1>5. QED
  BY <1>2, <1>3, <1>4 DEF y

LEMMA ReadFacts ==
  ASSUME NEW x \in SocketState
  PROVE  LET y == AsyncRead(x) IN
         /\ y \in SocketState /\ (SentOf(x) => SentOf(y))
         /\ y.client = x.client /\ y.phase = x.phase /\ y.closed = x.closed /\ y.closing = x.closing
         /\ y.pointer = x.pointer /\ y.out = x.out
         /\ y.reads = IF IsOpen(x) THEN x.reads + 1 ELSE x.reads
<1> DEFINE y == AsyncRead(x)
<1>1. CASE ~IsOpen(x)
  BY <1>1 DEF AsyncRead
<1>2. CASE IsOpen(x)
  <2>1. y = [x EXCEPT !.reads = @ + 1]
    BY <1>2 DEF AsyncRead
  <2>2. y \in SocketState
    <3>1. x.reads + 1 \in Nat
      BY Fields
    <3>2. QED
      BY <2>1, <3>1 DEF SocketState
  <2>3. /\ y.client = x.client /\ y.phase = x.phase /\ y.closed = x.closed /\ y.closing = x.closing
        /\ y.pointer = x.pointer /\ y.out = x.out /\ y.reads = x.reads + 1
        /\ y.wire = x.wire /\ y.queue = x.queue /\ y.accepted = x.accepted
    BY <2>1 DEF SocketState
  <2> HIDE DEF y
  <2>4. SentOf(x) => SentOf(y)
    BY <2>3, SentSame DEF Broken
  <2>5. QED
    BY <1>2, <2>2, <2>3, <2>4 DEF y
<1>3. QED
  BY <1>1, <1>2

LEMMA ProcessFacts ==
  ASSUME NEW x \in SocketState
  PROVE  LET y == AsyncProcessQueue(x) IN
         /\ y \in SocketState /\ Like(x, y) /\ y.closed = x.closed /\ y.out = x.out
         /\ (SentOf(x) => SentOf(y))
<1> DEFINE y == AsyncProcessQueue(x)
<1>1. CASE x.writing
  BY <1>1 DEF AsyncProcessQueue, Like
<1>2. CASE ~x.writing
  <2>1. y = [x EXCEPT !.writing = TRUE, !.writes = @ + 1]
    BY <1>2 DEF AsyncProcessQueue
  <2>2. y \in SocketState
    <3>1. x.writes + 1 \in Nat
      BY Fields
    <3>2. QED
      BY <2>1, <3>1 DEF SocketState
  <2>3. /\ Like(x, y) /\ y.closed = x.closed /\ y.out = x.out
        /\ y.wire = x.wire /\ y.queue = x.queue /\ y.accepted = x.accepted
    BY <2>1 DEF SocketState, Like
  <2> HIDE DEF y
  <2>4. SentOf(x) => SentOf(y)
    BY <2>3, SentSame DEF Broken, Like
  <2>5. QED
    BY <2>2, <2>3, <2>4 DEF y
<1>3. QED
  BY <1>1, <1>2

LEMMA ClosedFacts ==
  ASSUME NEW x \in SocketState
  PROVE  LET y == [x EXCEPT !.closed = TRUE] IN
         /\ y \in SocketState /\ Like(x, y) /\ y.closed /\ y.out = x.out /\ (SentOf(x) => SentOf(y))
<1> DEFINE y == [x EXCEPT !.closed = TRUE]
<1>1. y \in SocketState
  BY DEF SocketState
<1>2. /\ Like(x, y) /\ y.closed /\ y.out = x.out
      /\ y.wire = x.wire /\ y.queue = x.queue /\ y.accepted = x.accepted
  BY DEF SocketState, Like
<1> HIDE DEF y
<1>3. SentOf(x) => SentOf(y)
  BY <1>2, SentSame DEF Broken, Like
<1>4. QED
  BY <1>1, <1>2, <1>3 DEF y

(* What a handler of thread t leaves of the state x of socket s: it goes on *)
(* in one of the ways goOn, or has closed the socket, which was closing.   *)
Handled(t, s, x, onClose, goOn) ==
  \E y \in SocketState :
    /\ Change(s, y) /\ Like(x, y) /\ y.out = x.out /\ (SentOf(x) => SentOf(y))
    /\ \/ y.closed = x.closed /\ \E k \in goOn : job' = [job EXCEPT ![t] = k]
       \/ ~x.closed /\ y.closed /\ x.closing /\ Do(t, onClose, s)

(* The front buffer of z is dropped. *)
LEMMA PopFacts ==
  ASSUME NEW t, NEW s, NEW x \in SocketState, NEW z \in SocketState, NEW onClose, NEW again, NEW done,
         Like(x, z), z.closed = x.closed, z.out = x.out, z.queue # <<>>, Pop(t, s, z, onClose, again, done),
         SentOf(x) => SentOf([z EXCEPT !.queue = Tail(@)])
  PROVE  Handled(t, s, x, onClose, {again, done})
<1> DEFINE y == [z EXCEPT !.queue = Tail(@)]
           u == [y EXCEPT !.closed = TRUE]
<1>1. y \in SocketState
  <2>1. z.queue \in Seq(Packets)
    BY Fields
  <2>2. Tail(z.queue) \in Seq(Packets)
    BY <2>1
  <2>3. QED
    BY <2>2 DEF SocketState
<1>2. Like(x, y) /\ y.closed = x.closed /\ y.out = x.out /\ y.closing = x.closing
  BY DEF SocketState, Like
<1>3. SentOf(x) => SentOf(y)
  OBVIOUS
<1>4. /\ (y.queue = <<>> /\ y.closing => CloseThen(t, s, y, onClose, done))
      /\ (~(y.queue = <<>> /\ y.closing) =>
            Change(s, y) /\ job' = [job EXCEPT ![t] = IF y.queue = <<>> THEN done ELSE again])
  BY DEF Pop
<1> HIDE DEF y
<1>5. CASE ~(y.queue = <<>> /\ y.closing)
  <2>1. Change(s, y)
    BY <1>4, <1>5
  <2>2. \E k \in {again, done} : job' = [job EXCEPT ![t] = k]
    BY <1>4, <1>5
  <2>3. QED
    BY <1>1, <1>2, <1>3, <2>1, <2>2 DEF Handled
<1>6. CASE y.queue = <<>> /\ y.closing
  <2>1. u \in SocketState /\ Like(y, u) /\ u.closed /\ u.out = y.out /\ (SentOf(y) => SentOf(u))
    BY <1>1, ClosedFacts
  <2>2. Change(s, u) /\ IF y.closed THEN job' = [job EXCEPT ![t] = done] ELSE Do(t, onClose, s)
    BY <1>4, <1>6 DEF CloseThen
  <2> HIDE DEF u
  <2>3. Like(x, u) /\ u.out = x.out /\ (SentOf(x) => SentOf(u))
    BY <1>2, <1>3, <2>1 DEF Like
  <2>4. CASE y.closed
    <3>1. u.closed = x.closed
      BY <1>1, <1>2, <2>1, <2>4, Fields
    <3>2. \E k \in {again, done} : job' = [job EXCEPT ![t] = k]
      BY <2>2, <2>4
    <3>3. QED
      BY <2>1, <2>2, <2>3, <3>1, <3>2 DEF Handled
  <2>5. CASE ~y.closed
    <3>1. ~x.closed /\ x.closing
      BY <1>2, <1>6, <2>5
    <3>2. QED
      BY <2>1, <2>2, <2>3, <2>5, <3>1 DEF Handled
  <2>6. QED
    BY <2>4, <2>5
<1>7. QED
  BY <1>5, <1>6

LEMMA HandleQueueFacts ==
  ASSUME NEW t, NEW s, NEW x \in SocketState, NEW onClose, NEW again, NEW done,
         HandleQueue(t, s, x, onClose, again, done)
  PROVE  Handled(t, s, x, onClose, {again, done})
<1>0. /\ x.queue \in Seq(Packets) /\ x.wire \in Seq(Nat) /\ x.accepted \in Nat /\ x.out \in Seq(Nat)
  BY Fields
<1>1. CASE NothingToWrite(t, s, x, done)
  <2>1. Change(s, x) /\ \E k \in {again, done} : job' = [job EXCEPT ![t] = k]
    BY <1>1 DEF NothingToWrite
  <2>2. Like(x, x)
    BY DEF Like
  <2>3. QED
    BY <2>1, <2>2 DEF Handled
<1>2. CASE WriteAll(t, s, x, onClose, again, done)
  <2> DEFINE z == [x EXCEPT !.wire = @ \o Head(x.queue)]
             y == [z EXCEPT !.queue = Tail(@)]
  <2>1. x.queue # <<>> /\ ~Broken(x) /\ Pop(t, s, z, onClose, again, done)
    BY <1>2 DEF WriteAll
  <2>2. Head(x.queue) \in Seq(Nat) /\ Tail(x.queue) \in Seq(Packets)
    BY <1>0, <2>1 DEF Packets
  <2>3. x.wire \o Head(x.queue) \in Seq(Nat)
    BY <1>0, <2>2
  <2>4. z \in SocketState
    BY <2>3 DEF SocketState, Packets
  <2>5. Like(x, z) /\ z.closed = x.closed /\ z.out = x.out /\ z.queue = x.queue /\ z.accepted = x.accepted
        /\ z.wire = x.wire \o Head(x.queue)
    BY DEF SocketState, Like
  <2> HIDE DEF z
  <2>6. y \in SocketState
    BY <2>2, <2>4, <2>5 DEF SocketState
  <2>7. y.queue = Tail(x.queue) /\ y.wire = x.wire \o Head(x.queue) /\ y.out = x.out /\ y.accepted = x.accepted
    BY <2>4, <2>5 DEF SocketState
  <2>8. SentOf(x) => SentOf(y)
    BY <2>1, <2>6, <2>7, PopSent
  <2>9. QED
    BY <2>1, <2>4, <2>5, <2>8, PopFacts
<1>3. CASE WriteNothing(t, s, x, onClose, done)
  <2> DEFINE y == [x EXCEPT !.queue = Tail(@)]
  <2>1. x.queue # <<>> /\ (Head(x.queue) = <<>> \/ Broken(x)) /\ Pop(t, s, x, onClose, done, done)
    BY <1>3 DEF WriteNothing
  <2>2. Tail(x.queue) \in Seq(Packets)
    BY <1>0, <2>1
  <2>3. y \in SocketState
    BY <2>2 DEF SocketState
  <2>4. /\ y.queue = Tail(x.queue) /\ y.wire = x.wire /\ y.out = x.out /\ y.accepted = x.accepted
        /\ y.client = x.client /\ y.closed = x.closed
    BY DEF SocketState
  <2>5. SentOf(x) => SentOf(y)
    <3>1. CASE Broken(x)
      <4>1. Broken(y)
        BY <2>4, <3>1 DEF Broken
      <4>2. QED
        BY <2>4, <4>1, SentSame
    <3>2. CASE ~Broken(x)
      <4>1. x.wire \o <<>> = x.wire
        BY <1>0, ConcatEmptySeq
      <4>2. QED
        BY <2>1, <2>3, <2>4, <3>2, <4>1, PopSent
    <3>3. QED
      BY <3>1, <3>2
  <2>6. Handled(t, s, x, onClose, {done, done})
    <3>1. Like(x, x)
      BY DEF Like
    <3>2. QED
      BY <2>1, <2>5, <3>1, PopFacts
  <2>7. \A k \in {done, done} : k \in {again, done}
    OBVIOUS
  <2>8. QED
    BY <2>6, <2>7 DEF Handled
<1>4. CASE WritePart(t, s, x, done)
  <2>1. x.queue # <<>> /\ ~Broken(x)
    BY <1>4 DEF WritePart
  <2>2. PICK n \in 0 .. Len(Head(x.queue)) - 1 :
          Change(s, AsyncProcessQueue([x EXCEPT !.wire = @ \o SubSeq(Head(x.queue), 1, n),
                                                !.queue[1] = SubSeq(@, n + 1, Len(@))]))
    BY <1>4 DEF WritePart
  <2> DEFINE y == [x EXCEPT !.wire = @ \o SubSeq(Head(x.queue), 1, n),
                            !.queue[1] = SubSeq(@, n + 1, Len(@))]
             q == [x.queue EXCEPT ![1] = SubSeq(@, n + 1, Len(@))]
             z == AsyncProcessQueue(y)
  <2>3. Head(x.queue) \in Seq(Nat) /\ Head(x.queue) = x.queue[1] /\ n \in Nat /\ 1 \in DOMAIN x.queue
    BY <1>0, <2>1 DEF Packets
  <2>4. x.wire \o SubSeq(Head(x.queue), 1, n) \in Seq(Nat) /\ q \in Seq(Packets)
    <3>1. SubSeq(Head(x.queue), 1, n) \in Seq(Nat) /\ SubSeq(x.queue[1], n + 1, Len(x.queue[1])) \in Seq(Nat)
      BY <2>3
    <3>2. q \in Seq(Packets)
      BY <1>0, <2>3, <3>1 DEF Packets
    <3>3. QED
      BY <1>0, <3>1, <3>2
  <2>5. y.queue = q /\ y.wire = x.wire \o SubSeq(Head(x.queue), 1, n)
    BY DEF SocketState
  <2>6. y \in SocketState
    BY <2>4 DEF SocketState, Packets
  <2>7. Like(x, y) /\ y.closed = x.closed /\ y.out = x.out /\ y.accepted = x.accepted
    BY DEF SocketState, Like
  <2>8. SentOf(x) => SentOf(y)
    BY <2>1, <2>5, <2>6, <2>7, PartSent
  <2>11. Change(s, z)
    BY <2>2
  <2> HIDE DEF y, q
  <2>9. z \in SocketState /\ Like(y, z) /\ z.closed = y.closed /\ z.out = y.out /\ (SentOf(y) => SentOf(z))
    BY <2>6, ProcessFacts
  <2> HIDE DEF z
  <2>10. Like(x, z) /\ z.closed = x.closed /\ z.out = x.out /\ (SentOf(x) => SentOf(z))
    BY <2>7, <2>8, <2>9 DEF Like
  <2>12. \E k \in {again, done} : job' = [job EXCEPT ![t] = k]
    BY <1>4 DEF WritePart
  <2>13. QED
    BY <2>9, <2>10, <2>11, <2>12 DEF Handled
<1>5. QED
  BY <1>1, <1>2, <1>3, <1>4 DEF HandleQueue

-----------------------------------------------------------------------------
(***************************************************************************)
(* The inductive invariant.                                                *)
(***************************************************************************)
(* Every socket is with one thread, which works on its own sockets only.   *)
Owned(t) == newSockets[t] \cup sockets[t]
HomeInv ==
  /\ \A t, u \in Thread : t # u => Owned(t) \cap Owned(u) = {}
  /\ \A t \in Thread : \A s \in Owned(t) : sock[s].client # "absent"
  /\ \A t \in Thread :
       /\ todo[t] \subseteq sockets[t]
       /\ job[t][1] \in {"idle", "read", "onCloseInHandler"} => todo[t] = {}
       /\ job[t][1] \in {"idle", "update"} => job[t][2] = NoSocket
       /\ job[t][1] \notin {"idle", "update"} => job[t][2] \in sockets[t]

(* The session of a login follows its realm socket; the world has a socket *)
(* to link until it has linked it or refused it, and uses it from then on. *)
Awaited(i) == i \in links \/ world \in {<<"link", i>>, <<"refuse", i>>}
LoginInv ==
  /\ \A s \in Socket : sock[s].closing <=> sock[s].phase = "refused"
  /\ \A r \in Realm :
       /\ session[r] = "none" <=> sock[r].phase \in {"ip", "hello", "auth", "account", "refused"}
       /\ session[r] = "made" <=> sock[r].phase \in {"rights", "ack"}
  /\ \A i \in Instance : sock[i].phase # "rights"

LinkInv ==
  /\ \A s \in Socket : Awaited(s) =>
       s \in Instance /\ sock[s].phase = "play" /\ ~sock[s].pointer /\ instance[SessionOf[s]] # s
  /\ \A i \in links : world[2] # i
  /\ \A r \in Realm : instance[r] # NoSocket =>
       SessionOf[instance[r]] = r /\ session[r] = "world" /\ sock[instance[r]].phase = "play"
  /\ world[1] = "idle" <=> world[2] = NoSocket
  /\ world[1] = "onClose" => session[SessionOf[world[2]]] = "world" /\ sock[world[2]].phase = "play"

(* A session that a socket points to is there, or was deleted after the    *)
(* socket was closed; a realm socket that is logging in has its session    *)
(* until it is closed.                                                     *)
PointerInv ==
  /\ \A s \in Socket : sock[s].pointer =>
       /\ sock[s].phase \in {"rights", "ack", "play"}
       /\ session[SessionOf[s]] \in {"made", "world"} \/ (sock[s].closed /\ session[SessionOf[s]] = "deleted")
       /\ s \in Instance =>
            sock[s].phase = "play" /\ (sock[s].closed \/ instance[SessionOf[s]] = s)
  /\ \A r \in Realm : sock[r].phase \in {"rights", "ack"} /\ ~sock[r].pointer => sock[r].closed

(* Only the world closes a socket on which its thread goes on working, and *)
(* it takes the session from it before it does anything else.              *)
JobInv ==
  \A t \in Thread, s \in Socket : job[t][2] = s =>
    /\ sock[s].closed /\ sock[s].phase \notin {"play", "refused"} => job[t][1] = "onCloseInHandler"
    /\ job[t][1] \in {"onCloseInHandler", "onCloseInUpdate"} => sock[s].closed
    /\ job[t][1] = "read" /\ sock[s].closed =>
         ~Awaited(s) /\ (sock[s].pointer => world = <<"onClose", s>>)

Reading(s) == \E t \in Thread : job[t] = <<"read", s>>
ReadInv ==
  \A s \in Socket :
    /\ sock[s].reads <= 1 /\ (Reading(s) => sock[s].reads = 0)
    /\ IsOpen(sock[s]) => (sock[s].reads = 0 <=> sock[s].phase \in {"ip", "account"} \/ Reading(s))
    /\ IsOpen(sock[s]) /\ Reading(s) => sock[s].phase \notin {"ip", "account"}

SentInv == \A s \in Socket : SentOf(sock[s]) /\ (sock[s].phase = "ip" => sock[s].out = <<>>)

IInv == TypeOK /\ HomeInv /\ LoginInv /\ LinkInv /\ PointerInv /\ JobInv /\ ReadInv /\ SentInv

Jobs == {"idle", "update", "write", "callbacks", "read", "onCloseInUpdate", "onCloseInHandler"}

(* The state of one socket changes, or the job of one thread. *)
LEMMA ChangeFacts ==
  ASSUME TypeOK, NEW s \in Socket, NEW y \in SocketState, Change(s, y)
  PROVE  /\ sock' \in [Socket -> SocketState] /\ sock'[s] = y
         /\ \A u \in Socket : u # s => sock'[u] = sock[u]
BY DEF TypeOK, Change

LEMMA DoFacts ==
  ASSUME TypeOK, NEW t \in Thread, NEW k \in Jobs \X (Socket \cup {NoSocket}),
         job' = [job EXCEPT ![t] = k]
  PROVE  /\ job' \in [Thread -> Jobs \X (Socket \cup {NoSocket})] /\ job'[t] = k
         /\ \A u \in Thread : u # t => job'[u] = job[u]
<1>1. job \in [Thread -> Jobs \X (Socket \cup {NoSocket})]
  BY DEF TypeOK, Jobs
<1>2. QED
  BY <1>1

LEMMA Types ==
  ASSUME TypeOK
  PROVE  /\ sock \in [Socket -> SocketState] /\ job \in [Thread -> Jobs \X (Socket \cup {NoSocket})]
         /\ session \in [Realm -> {"none", "made", "world", "deleted"}]
         /\ instance \in [Realm -> Instance \cup {NoSocket}]
         /\ world \in {"idle", "onClose", "link", "refuse"} \X (Socket \cup {NoSocket})
         /\ links \subseteq Instance
         /\ todo \in [Thread -> SUBSET Socket] /\ newSockets \in [Thread -> SUBSET Socket]
         /\ sockets \in [Thread -> SUBSET Socket]
         /\ \A s \in Socket : SessionOf[s] \in Realm
BY SocketAssumption DEF TypeOK, Jobs

LEMMA TypeStep ==
  ASSUME TypeOK,
         sock' \in [Socket -> SocketState], job' \in [Thread -> Jobs \X (Socket \cup {NoSocket})],
         UNCHANGED <<netVars, heldVars, todo, worldVars>>
  PROVE  TypeOK'
BY DEF TypeOK, Jobs, netVars, heldVars, worldVars

(* No thread works on the socket of another one. *)
LEMMA OneWorker ==
  ASSUME TypeOK, HomeInv, NEW t \in Thread, NEW u \in Thread, NEW s \in Socket,
         s \in sockets[t], job[u][2] = s
  PROVE  t = u
<1>1. s # NoSocket
  BY SocketAssumption
<1>2. s \in sockets[u]
  BY <1>1 DEF HomeInv
<1>3. QED
  BY <1>2 DEF HomeInv, Owned

(* Steps in which no socket comes or goes. *)
LEMMA HomeSame ==
  ASSUME TypeOK, HomeInv, NEW s \in Socket, NEW y \in SocketState, Change(s, y),
         y.client = "absent" => sock[s].client = "absent",
         UNCHANGED <<heldVars, todo, job>>
  PROVE  HomeInv'
<1>1. /\ sock'[s] = y /\ \A u \in Socket : u # s => sock'[u] = sock[u]
  BY ChangeFacts
<1>2. \A t \in Thread : Owned(t)' = Owned(t) /\ Owned(t) \subseteq Socket
  BY Types DEF Owned, heldVars
<1>3. \A t \in Thread : \A u \in Owned(t)' : sock'[u].client # "absent"
  BY <1>1, <1>2 DEF HomeInv
<1>4. QED
  BY <1>2, <1>3 DEF HomeInv, heldVars

WorkOn(t, s, k) ==
  /\ k \in Jobs \X (Socket \cup {NoSocket})
  /\ IF k[1] \in {"idle", "update"} THEN k[2] = NoSocket ELSE k[2] = s
  /\ k[1] \in {"idle", "read", "onCloseInHandler"} => todo[t] = {}

LEMMA HomeStep ==
  ASSUME TypeOK, HomeInv, NEW t \in Thread, NEW s \in Socket, s \in sockets[t], NEW y \in SocketState,
         Change(s, y), y.client = sock[s].client, NEW k, WorkOn(t, s, k), job' = [job EXCEPT ![t] = k],
         UNCHANGED <<heldVars, todo>>
  PROVE  HomeInv'
<1>1. /\ sock'[s] = y /\ \A u \in Socket : u # s => sock'[u] = sock[u]
  BY ChangeFacts
<1>2. \A u \in Thread : Owned(u)' = Owned(u) /\ Owned(u) \subseteq Socket
  BY Types DEF Owned, heldVars
<1>3. \A u \in Thread : \A v \in Owned(u)' : sock'[v].client # "absent"
  BY <1>1, <1>2 DEF HomeInv
<1>4. job'[t] = k /\ \A u \in Thread : u # t => job'[u] = job[u]
  BY DoFacts DEF WorkOn
<1>5. ASSUME NEW u \in Thread
      PROVE  /\ todo'[u] \subseteq sockets'[u]
             /\ job'[u][1] \in {"idle", "read", "onCloseInHandler"} => todo'[u] = {}
             /\ job'[u][1] \in {"idle", "update"} => job'[u][2] = NoSocket
             /\ job'[u][1] \notin {"idle", "update"} => job'[u][2] \in sockets'[u]
  <2>1. CASE u = t
    BY <1>4, <2>1 DEF HomeInv, WorkOn, heldVars
  <2>2. CASE u # t
    BY <1>4, <2>2 DEF HomeInv, heldVars
  <2>3. QED
    BY <2>1, <2>2
<1>6. \A u, v \in Thread : u # v => Owned(u)' \cap Owned(v)' = {}
  BY <1>2 DEF HomeInv
<1>7. QED
  BY <1>3, <1>5, <1>6 DEF HomeInv

(* Steps that change the queues of a socket or close it. *)
LEMMA LikeStep ==
  ASSUME IInv, NEW s \in Socket, NEW y \in SocketState, Change(s, y),
         y.phase = sock[s].phase, y.closing = sock[s].closing, y.pointer = sock[s].pointer,
         sock[s].closed => y.closed, SentOf(sock[s]) => SentOf(y),
         sock[s].phase = "ip" => y.out = <<>>,
         UNCHANGED <<session, instance, links>>,
         world' = world
  PROVE  LoginInv' /\ LinkInv' /\ PointerInv' /\ SentInv'
<1>0. TypeOK
  BY DEF IInv
<1>1. sock'[s] = y /\ \A u \in Socket : u # s => sock'[u] = sock[u]
  BY <1>0, ChangeFacts
<1>2. ASSUME NEW u \in Socket
      PROVE  /\ sock'[u].phase = sock[u].phase /\ sock'[u].closing = sock[u].closing
             /\ sock'[u].pointer = sock[u].pointer /\ (sock[u].closed => sock'[u].closed)
  BY <1>1
<1>3. Realm \subseteq Socket /\ Instance \subseteq Socket
  BY DEF Socket
<1>4. LoginInv'
  BY <1>2, <1>3 DEF IInv, LoginInv
<1>5. LinkInv'
  <2>1. /\ \A r \in Realm : instance[r] # NoSocket => instance[r] \in Socket
        /\ world[1] = "onClose" => world[2] \in Socket
    BY <1>0, Types, SocketAssumption DEF IInv, LinkInv, Socket
  <2>2. QED
    BY <1>2, <2>1 DEF IInv, LinkInv, Awaited
<1>6. PointerInv'
  BY <1>2, <1>3 DEF IInv, PointerInv
<1>7. SentInv'
  <2>1. \A u \in Socket : SentOf(sock[u]) /\ (sock[u].phase = "ip" => sock[u].out = <<>>)
    BY DEF IInv, SentInv
  <2>2. SentOf(y) /\ (y.phase = "ip" => y.out = <<>>)
    BY <2>1
  <2>3. \A u \in Socket : SentOf(sock'[u]) /\ (sock'[u].phase = "ip" => sock'[u].out = <<>>)
    BY <1>1, <2>1, <2>2
  <2>4. QED
    BY <2>3 DEF SentInv, SentOf, Broken
<1>8. QED
  BY <1>4, <1>5, <1>6, <1>7

LEMMA ReadSame ==
  ASSUME TypeOK, ReadInv,
         \A u \in Socket :
           /\ sock'[u].reads <= 1 /\ (sock[u].reads = 0 => sock'[u].reads = 0)
           /\ IsOpen(sock'[u]) =>
                IsOpen(sock[u]) /\ sock'[u].phase = sock[u].phase /\ sock'[u].reads = sock[u].reads
           /\ Reading(u)' <=> Reading(u)
  PROVE  ReadInv'
BY DEF ReadInv, IsOpen

(* A thread takes the job k on one of its sockets. *)
LEMMA JobStep ==
  ASSUME IInv, NEW t \in Thread, NEW s \in Socket, s \in sockets[t], NEW y \in SocketState,
         Change(s, y), NEW k, WorkOn(t, s, k), job' = [job EXCEPT ![t] = k],
         world' = world, \A u \in Socket : u # s => (Awaited(u)' => Awaited(u)),
         k[2] = s =>
           /\ y.closed /\ y.phase \notin {"play", "refused"} => k[1] = "onCloseInHandler"
           /\ k[1] \in {"onCloseInHandler", "onCloseInUpdate"} => y.closed
           /\ k[1] = "read" /\ y.closed => ~Awaited(s)' /\ (y.pointer => world = <<"onClose", s>>)
  PROVE  JobInv'
<1>0. TypeOK /\ HomeInv /\ JobInv
  BY DEF IInv
<1>1. sock'[s] = y /\ \A u \in Socket : u # s => sock'[u] = sock[u]
  BY <1>0, ChangeFacts
<1>2. job'[t] = k /\ \A u \in Thread : u # t => job'[u] = job[u]
  BY <1>0, DoFacts DEF WorkOn
<1>3. ASSUME NEW u \in Thread, NEW v \in Socket, job'[u][2] = v
      PROVE  /\ sock'[v].closed /\ sock'[v].phase \notin {"play", "refused"} => job'[u][1] = "onCloseInHandler"
             /\ job'[u][1] \in {"onCloseInHandler", "onCloseInUpdate"} => sock'[v].closed
             /\ job'[u][1] = "read" /\ sock'[v].closed =>
                  ~Awaited(v)' /\ (sock'[v].pointer => world' = <<"onClose", v>>)
  <2>1. CASE u = t
    <3>1. v = s
      BY <1>2, <1>3, <2>1, SocketAssumption DEF WorkOn
    <3>2. QED
      BY <1>1, <1>2, <1>3, <2>1, <3>1
  <2>2. CASE u # t
    <3>1. job'[u] = job[u] /\ job[u][2] = v
      BY <1>2, <1>3, <2>2
    <3>2. v # s
      BY <1>0, <2>2, <3>1, OneWorker
    <3>3. sock'[v] = sock[v] /\ (Awaited(v)' => Awaited(v))
      BY <1>1, <3>2
    <3>4. QED
      BY <1>0, <3>1, <3>3 DEF JobInv
  <2>3. QED
    BY <2>1, <2>2
<1>4. QED
  BY <1>3 DEF JobInv

(* Nobody but its thread reads from a socket. *)
LEMMA ReadingStep ==
  ASSUME TypeOK, HomeInv, NEW t \in Thread, NEW s \in Socket, s \in sockets[t],
         NEW k, WorkOn(t, s, k), job' = [job EXCEPT ![t] = k]
  PROVE  /\ Reading(s)' <=> k = <<"read", s>>
         /\ Reading(s) <=> job[t] = <<"read", s>>
         /\ \A u \in Socket : u # s => (Reading(u)' <=> Reading(u) /\ job[t] # <<"read", u>>)
         /\ \A u \in Socket : u # s => (job[t] = <<"read", u>> => job[t][2] # s)
<1>1. job'[t] = k /\ \A u \in Thread : u # t => job'[u] = job[u]
  BY DoFacts DEF WorkOn
<1>2. \A u \in Thread : job[u] = <<"read", s>> => u = t
  BY OneWorker
<1>3. Reading(s) <=> job[t] = <<"read", s>>
  BY <1>2 DEF Reading
<1>4. Reading(s)' <=> k = <<"read", s>>
  BY <1>1, <1>2 DEF Reading
<1>5. \A u \in Socket : k = <<"read", u>> => u = s
  BY DEF WorkOn
<1>6. \A u \in Socket : u # s => (Reading(u)' <=> Reading(u) /\ job[t] # <<"read", u>>)
  <2> SUFFICES ASSUME NEW u \in Socket, u # s PROVE Reading(u)' <=> Reading(u) /\ job[t] # <<"read", u>>
    OBVIOUS
  <2>1. ASSUME Reading(u)' PROVE Reading(u) /\ job[t] # <<"read", u>>
    <3>1. PICK w \in Thread : job'[w] = <<"read", u>>
      BY <2>1 DEF Reading
    <3>2. w # t
      BY <1>1, <1>5, <3>1
    <3>3. job[w] = <<"read", u>>
      BY <1>1, <3>1, <3>2
    <3>4. job[t] # <<"read", u>>
      <4>1. SUFFICES ASSUME job[t] = <<"read", u>> PROVE FALSE
        OBVIOUS
      <4>2. u # NoSocket
        BY SocketAssumption
      <4>3. u \in sockets[t]
        BY <4>1, <4>2 DEF HomeInv
      <4>4. QED
        BY <3>2, <3>3, <4>3, OneWorker
    <3>5. QED
      BY <3>3, <3>4 DEF Reading
  <2>2. ASSUME Reading(u), job[t] # <<"read", u>> PROVE Reading(u)'
    BY <1>1, <2>2 DEF Reading
  <2>3. QED
    BY <2>1, <2>2
<1>7. QED
  BY <1>3, <1>4, <1>6

-----------------------------------------------------------------------------
(* NetworkThread::Update and the writes. *)

(* A step that is Handled, while the thread does not read from s. *)
LEMMA HandledInv ==
  ASSUME IInv, NEW t \in Thread, NEW s \in Socket, s \in sockets[t],
         NEW x \in SocketState, NEW onClose, NEW goOn,
         Like(sock[s], x), x.closed = sock[s].closed, x.out = sock[s].out, SentOf(sock[s]) => SentOf(x),
         Handled(t, s, x, onClose, goOn),
         job[t][1] # "read",
         WorkOn(t, s, <<onClose, s>>), onClose \in {"onCloseInHandler", "onCloseInUpdate"},
         \A k \in goOn :
           WorkOn(t, s, k) /\ k[1] \notin {"onCloseInHandler", "onCloseInUpdate", "read"}
           /\ (k[2] = s => ~(sock[s].closed /\ sock[s].phase \notin {"play", "refused"})),
         UNCHANGED <<netVars, heldVars, todo, worldVars>>
  PROVE  IInv'
<1>0. TypeOK /\ HomeInv /\ LoginInv /\ ReadInv
  BY DEF IInv
<1>1. PICK y \in SocketState :
        /\ Change(s, y) /\ Like(x, y) /\ y.out = x.out /\ (SentOf(x) => SentOf(y))
        /\ \/ y.closed = x.closed /\ \E k \in goOn : job' = [job EXCEPT ![t] = k]
           \/ ~x.closed /\ y.closed /\ x.closing /\ Do(t, onClose, s)
  BY DEF Handled
<1>2. /\ Like(sock[s], y) /\ (sock[s].closed => y.closed) /\ (SentOf(sock[s]) => SentOf(y))
      /\ y.out = sock[s].out
  BY <1>1 DEF Like
<1>3. \E k : /\ job' = [job EXCEPT ![t] = k] /\ WorkOn(t, s, k) /\ k[1] # "read"
             /\ k[2] = s =>
                  /\ y.closed /\ y.phase \notin {"play", "refused"} => k[1] = "onCloseInHandler"
                  /\ k[1] \in {"onCloseInHandler", "onCloseInUpdate"} => y.closed
  <2>1. CASE y.closed = x.closed /\ \E k \in goOn : job' = [job EXCEPT ![t] = k]
    BY <1>2, <2>1 DEF Like
  <2>2. CASE y.closed /\ x.closing /\ Do(t, onClose, s)
    <3>1. y.phase = "refused"
      BY <1>0, <1>1, <2>2 DEF LoginInv, Like
    <3>2. job' = [job EXCEPT ![t] = <<onClose, s>>]
      BY <2>2 DEF Do
    <3>3. <<onClose, s>>[1] = onClose /\ <<onClose, s>>[2] = s
      OBVIOUS
    <3>4. QED
      BY <2>2, <3>1, <3>2, <3>3
  <2>3. QED
    BY <1>1, <2>1, <2>2
<1>4. PICK k : /\ job' = [job EXCEPT ![t] = k] /\ WorkOn(t, s, k) /\ k[1] # "read"
               /\ k[2] = s =>
                    /\ y.closed /\ y.phase \notin {"play", "refused"} => k[1] = "onCloseInHandler"
                    /\ k[1] \in {"onCloseInHandler", "onCloseInUpdate"} => y.closed
  BY <1>3
<1>5. /\ sock' \in [Socket -> SocketState] /\ sock'[s] = y
      /\ \A u \in Socket : u # s => sock'[u] = sock[u]
  BY <1>0, <1>1, ChangeFacts
<1>6. TypeOK'
  <2>1. job' \in [Thread -> Jobs \X (Socket \cup {NoSocket})]
    BY <1>0, <1>4, DoFacts DEF WorkOn
  <2>2. QED
    BY <1>0, <1>5, <2>1, TypeStep
<1>7. HomeInv'
  BY <1>0, <1>1, <1>2, <1>4, HomeStep DEF Like
<1>8. LoginInv' /\ LinkInv' /\ PointerInv' /\ SentInv'
  <2>1. sock[s].phase = "ip" => y.out = <<>>
    BY <1>2 DEF IInv, SentInv
  <2>2. QED
    BY <1>1, <1>2, <2>1, LikeStep DEF worldVars, Like
<1>9. JobInv'
  <2>1. world' = world /\ \A u \in Socket : u # s => (Awaited(u)' => Awaited(u))
    BY DEF worldVars, Awaited
  <2>2. QED
    BY <1>1, <1>4, <2>1, JobStep
<1>10. ReadInv'
  <2>1. \A u \in Socket : Reading(u)' <=> Reading(u)
    <3>1. job[t] # <<"read", s>> /\ k # <<"read", s>> /\ \A u \in Socket : job[t] # <<"read", u>>
      BY <1>4
    <3>2. /\ Reading(s)' <=> k = <<"read", s>>
          /\ Reading(s) <=> job[t] = <<"read", s>>
          /\ \A u \in Socket : u # s => (Reading(u)' <=> Reading(u) /\ job[t] # <<"read", u>>)
      BY <1>0, <1>4, ReadingStep
    <3>3. QED
      BY <3>1, <3>2
  <2>2. ASSUME NEW u \in Socket
        PROVE  /\ sock'[u].reads <= 1 /\ (sock[u].reads = 0 => sock'[u].reads = 0)
               /\ IsOpen(sock'[u]) =>
                    IsOpen(sock[u]) /\ sock'[u].phase = sock[u].phase /\ sock'[u].reads = sock[u].reads
    <3>1. sock'[u].phase = sock[u].phase /\ sock'[u].reads = sock[u].reads /\ (IsOpen(sock'[u]) => IsOpen(sock[u]))
      BY <1>2, <1>5 DEF Like, IsOpen
    <3>2. QED
      BY <1>0, <3>1 DEF ReadInv
  <2>3. QED
    BY <1>0, <2>1, <2>2, ReadSame
<1>11. QED
  BY <1>6, <1>7, <1>8, <1>9, <1>10 DEF IInv

LEMMA WriteInv ==
  ASSUME IInv, NEW t \in Thread, NEW s \in Socket, Write(t, s)
  PROVE  IInv'
<1>0. TypeOK /\ HomeInv /\ JobInv /\ sock[s] \in SocketState /\ s # NoSocket
  BY Types, SocketAssumption DEF IInv
<1>1. /\ job[t] = <<"write", s>> /\ UNCHANGED <<netVars, heldVars, todo, worldVars>>
      /\ HandleQueue(t, s, sock[s], "onCloseInUpdate", job[t], <<"callbacks", s>>)
  BY DEF Write
<1>2. s \in sockets[t] /\ ~(sock[s].closed /\ sock[s].phase \notin {"play", "refused"})
  BY <1>0, <1>1 DEF HomeInv, JobInv
<1>3. Handled(t, s, sock[s], "onCloseInUpdate", {job[t], <<"callbacks", s>>})
  BY <1>0, <1>1, HandleQueueFacts
<1>4. Like(sock[s], sock[s])
  BY DEF Like
<1>5. /\ WorkOn(t, s, <<"onCloseInUpdate", s>>) /\ WorkOn(t, s, <<"write", s>>)
      /\ WorkOn(t, s, <<"callbacks", s>>)
  BY DEF WorkOn, Jobs
<1>6. \A k \in {job[t], <<"callbacks", s>>} :
        WorkOn(t, s, k) /\ k[1] \notin {"onCloseInHandler", "onCloseInUpdate", "read"}
  BY <1>1, <1>5
<1>7. QED
  BY <1>0, <1>1, <1>2, <1>3, <1>4, <1>5, <1>6, HandledInv

LEMMA WriteHandlerInv ==
  ASSUME IInv, NEW t \in Thread, NEW s \in Socket, WriteHandlerWrapper(t, s)
  PROVE  IInv'
<1>0. TypeOK /\ HomeInv /\ JobInv /\ sock[s] \in SocketState /\ s # NoSocket
  BY Types, SocketAssumption DEF IInv
<1> DEFINE x == [sock[s] EXCEPT !.writing = FALSE, !.writes = @ - 1]
<1>1. /\ job[t] = Idle /\ s \in sockets[t] /\ sock[s].writes > 0
      /\ UNCHANGED <<netVars, heldVars, todo, worldVars>>
      /\ HandleQueue(t, s, x, "onCloseInHandler", Idle, Idle)
  BY DEF WriteHandlerWrapper, Handles
<1>2. x \in SocketState
  <2>1. sock[s].writes - 1 \in Nat
    BY <1>0, <1>1, Fields
  <2>2. QED
    BY <1>0, <2>1 DEF SocketState
<1>3. /\ Like(sock[s], x) /\ x.closed = sock[s].closed /\ x.out = sock[s].out /\ x.queue = sock[s].queue
      /\ x.wire = sock[s].wire /\ x.accepted = sock[s].accepted
  BY <1>0 DEF SocketState, Like
<1> HIDE DEF x
<1>4. SentOf(sock[s]) => SentOf(x)
  BY <1>3, SentSame DEF Broken, Like
<1>5. Handled(t, s, x, "onCloseInHandler", {Idle, Idle})
  BY <1>1, <1>2, HandleQueueFacts
<1>6. WorkOn(t, s, <<"onCloseInHandler", s>>) /\ WorkOn(t, s, Idle)
  BY <1>0, <1>1 DEF WorkOn, Jobs, Idle, HomeInv
<1>7. \A k \in {Idle, Idle} :
        WorkOn(t, s, k) /\ k[1] \notin {"onCloseInHandler", "onCloseInUpdate", "read"} /\ k[2] # s
  BY <1>0, <1>6 DEF Idle
<1>8. job[t][1] # "read"
  BY <1>1 DEF Idle
<1>9. QED
  BY <1>1, <1>2, <1>3, <1>4, <1>5, <1>6, <1>7, <1>8, HandledInv

-----------------------------------------------------------------------------
(***************************************************************************)
(* A step in which thread t leaves its socket s in the state y and goes on *)
(* with the job k; the login of s may make a session or give it to the     *)
(* world.                                                                  *)
(***************************************************************************)
TurnState(s, y) ==
  /\ y.client = sock[s].client /\ (sock[s].closed => y.closed)
  /\ SentOf(sock[s]) => SentOf(y)
  /\ y.phase = "ip" => y.out = <<>>
  /\ y.closing <=> y.phase = "refused"
  /\ sock[s].phase = "play" => y.phase = "play"
  /\ s \in Instance => y.phase # "rights"

TurnSession(s, y) ==
  /\ session' \in [Realm -> {"none", "made", "world", "deleted"}]
  /\ \A r \in Realm : r # s => session'[r] = session[r]
  /\ s \in Realm =>
       /\ session'[s] = session[s] \/ (session[s] \in {"none", "made"} /\ session'[s] \in {"made", "world"})
       /\ session'[s] = "none" <=> y.phase \in {"ip", "hello", "auth", "account", "refused"}
       /\ session'[s] = "made" <=> y.phase \in {"rights", "ack"}

TurnPointer(s, y) ==
  /\ y.pointer => /\ y.phase \in {"rights", "ack", "play"}
                  /\ sock[s].pointer \/ (s \in Realm /\ session'[s] = "made")
  /\ s \in Realm /\ y.phase \in {"rights", "ack"} /\ ~y.pointer => y.closed

TurnJob(s, y, k) ==
  k[2] = s =>
    /\ y.closed /\ y.phase \notin {"play", "refused"} => k[1] = "onCloseInHandler"
    /\ k[1] \in {"onCloseInHandler", "onCloseInUpdate"} => y.closed
    /\ k[1] = "read" /\ y.closed => ~Awaited(s) /\ (y.pointer => world = <<"onClose", s>>)

TurnRead(s, y, k) ==
  /\ y.reads <= 1 /\ (k = <<"read", s>> => y.reads = 0)
  /\ IsOpen(y) => (y.reads = 0 <=> y.phase \in {"ip", "account"} \/ k = <<"read", s>>)
  /\ IsOpen(y) /\ k = <<"read", s>> => y.phase \notin {"ip", "account"}

(* The instance socket of a login waits for the world from then on. *)
TurnLinks(s, y) ==
  \/ links' = links
  \/ s \in Instance /\ links' = links \cup {s} /\ sock[s].phase = "ack" /\ y.phase = "play" /\ ~y.closed

LEMMA TurnStep ==
  ASSUME IInv, NEW t \in Thread, NEW s \in Socket, s \in sockets[t], NEW y \in SocketState, Change(s, y),
         NEW k, WorkOn(t, s, k), job' = [job EXCEPT ![t] = k],
         job[t][2] \in {s, NoSocket},
         TurnState(s, y), TurnSession(s, y), TurnPointer(s, y), TurnJob(s, y, k), TurnRead(s, y, k),
         TurnLinks(s, y), UNCHANGED <<netVars, heldVars, todo, instance, world>>
  PROVE  IInv'
<1>0. TypeOK /\ HomeInv /\ LoginInv /\ LinkInv /\ PointerInv /\ JobInv /\ ReadInv /\ SentInv
  BY DEF IInv
<1>1. /\ sock' \in [Socket -> SocketState] /\ sock'[s] = y
      /\ \A u \in Socket : u # s => sock'[u] = sock[u]
  BY <1>0, ChangeFacts
<1>2. Realm \subseteq Socket /\ Instance \subseteq Socket /\ \A u \in Socket : SessionOf[u] \in Realm
  BY SocketAssumption DEF Socket
<1>3. /\ instance' = instance /\ world' = world
      /\ \A u \in Socket : u # s => (Awaited(u)' <=> Awaited(u))
      /\ \/ links' = links /\ (Awaited(s)' <=> Awaited(s))
         \/ /\ s \in Instance /\ links' = links \cup {s} /\ sock[s].phase = "ack"
            /\ y.phase = "play" /\ ~y.closed
  BY DEF TurnLinks, Awaited
<1>4. \A r \in Realm : session[r] \in {"world", "deleted"} => session'[r] = session[r]
  BY <1>0, Types DEF TurnSession
<1>12. \A r \in Realm : session[r] \in {"made", "world"} => session'[r] \in {"made", "world"}
  <2>1. \A r \in Realm : session'[r] \in {"none", "made", "world", "deleted"}
    BY DEF TurnSession
  <2>2. QED
    BY <2>1 DEF TurnSession
<1>5. TypeOK'
  <2>1. job' \in [Thread -> Jobs \X (Socket \cup {NoSocket})]
    BY <1>0, DoFacts DEF WorkOn
  <2>2. session' \in [Realm -> {"none", "made", "world", "deleted"}]
    BY DEF TurnSession
  <2>3. QED
    BY <1>0, <1>1, <1>3, <2>1, <2>2 DEF TypeOK, Jobs, netVars, heldVars
<1>6. HomeInv'
  <2>1. y.client = sock[s].client
    BY DEF TurnState
  <2>2. QED
    BY <1>0, <2>1, HomeStep
<1>7. LoginInv'
  <2>1. \A u \in Socket : sock'[u].closing <=> sock'[u].phase = "refused"
    BY <1>0, <1>1 DEF LoginInv, TurnState
  <2>2. ASSUME NEW r \in Realm
        PROVE  /\ session'[r] = "none" <=> sock'[r].phase \in {"ip", "hello", "auth", "account", "refused"}
               /\ session'[r] = "made" <=> sock'[r].phase \in {"rights", "ack"}
    <3>1. CASE r = s
      BY <1>1, <3>1 DEF TurnSession
    <3>2. CASE r # s
      BY <1>0, <1>1, <1>2, <3>2 DEF LoginInv, TurnSession
    <3>3. QED
      BY <3>1, <3>2
  <2>3. \A i \in Instance : sock'[i].phase # "rights"
    BY <1>0, <1>1, <1>2 DEF LoginInv, TurnState
  <2>4. QED
    BY <2>1, <2>2, <2>3 DEF LoginInv
<1>8. LinkInv'
  <2>1. \A u \in Socket : sock[u].phase = "play" => sock'[u].phase = "play"
    BY <1>1 DEF TurnState
  <2>8. ASSUME NEW u \in Socket, Awaited(u)
        PROVE  u \in Instance /\ sock'[u].phase = "play" /\ ~sock'[u].pointer /\ instance[SessionOf[u]] # u
    <3>1. u \in Instance /\ sock[u].phase = "play" /\ ~sock[u].pointer /\ instance[SessionOf[u]] # u
      BY <1>0, <2>8 DEF LinkInv
    <3>2. u \notin Realm
      BY <3>1, SocketAssumption
    <3>3. ~sock'[u].pointer
      BY <1>1, <3>1, <3>2 DEF TurnPointer
    <3>4. QED
      BY <2>1, <3>1, <3>3
  <2>3. /\ \A r \in Realm : instance[r] # NoSocket => instance[r] \in Socket
        /\ world[1] = "onClose" => world[2] \in Socket
    BY <1>0, Types, SocketAssumption DEF LinkInv, Socket
  <2>9. ASSUME s \in Instance, sock[s].phase = "ack"
        PROVE  ~y.pointer /\ instance[SessionOf[s]] # s /\ world[2] # s
    <3>1. s \notin Realm /\ s # NoSocket
      BY <2>9, SocketAssumption
    <3>2. ~sock[s].pointer
      BY <1>0, <2>9 DEF PointerInv
    <3>3. instance[SessionOf[s]] # s
      BY <1>0, <1>2, <2>9, <3>1 DEF LinkInv
    <3>4. world[2] # s
      <4>1. world = <<"link", s>> \/ world = <<"refuse", s>> => sock[s].phase = "play"
        BY <1>0 DEF LinkInv, Awaited
      <4>2. world[1] = "onClose" /\ world[2] = s => sock[s].phase = "play"
        BY <1>0 DEF LinkInv
      <4>3. world[1] = "idle" /\ world[2] = s => FALSE
        BY <1>0, <3>1 DEF LinkInv
      <4>4. world \in {"idle", "onClose", "link", "refuse"} \X (Socket \cup {NoSocket})
        BY <1>0, Types
      <4>5. QED
        BY <2>9, <4>1, <4>2, <4>3, <4>4
    <3>5. QED
      BY <3>1, <3>2, <3>3, <3>4 DEF TurnPointer
  <2>2. ASSUME NEW u \in Socket, Awaited(u)'
        PROVE  u \in Instance /\ sock'[u].phase = "play" /\ ~sock'[u].pointer /\ instance[SessionOf[u]] # u
    BY <1>1, <1>3, <2>2, <2>8, <2>9
  <2>4. \A r \in Realm : instance[r] # NoSocket =>
          SessionOf[instance[r]] = r /\ session'[r] = "world" /\ sock'[instance[r]].phase = "play"
    BY <1>0, <1>4, <2>1, <2>3 DEF LinkInv
  <2>5. world[1] = "onClose" => session'[SessionOf[world[2]]] = "world" /\ sock'[world[2]].phase = "play"
    BY <1>0, <1>2, <1>4, <2>1, <2>3 DEF LinkInv
  <2>6. (\A i \in links' : world[2] # i) /\ (world[1] = "idle" <=> world[2] = NoSocket)
    BY <1>0, <1>3, <2>9 DEF LinkInv
  <2>7. QED
    BY <1>3, <2>2, <2>4, <2>5, <2>6 DEF LinkInv
<1>9. PointerInv'
  <2>1. ASSUME NEW u \in Socket, sock'[u].pointer
        PROVE  /\ sock'[u].phase \in {"rights", "ack", "play"}
               /\ \/ session'[SessionOf[u]] \in {"made", "world"}
                  \/ sock'[u].closed /\ session'[SessionOf[u]] = "deleted"
               /\ u \in Instance => sock'[u].phase = "play" /\ (sock'[u].closed \/ instance[SessionOf[u]] = u)
    <3>1. CASE sock[u].pointer
      <4>1. /\ session[SessionOf[u]] \in {"made", "world"} \/ (sock[u].closed /\ session[SessionOf[u]] = "deleted")
            /\ u \in Instance => sock[u].phase = "play" /\ (sock[u].closed \/ instance[SessionOf[u]] = u)
            /\ sock[u].phase \in {"rights", "ack", "play"}
        BY <1>0, <3>1 DEF PointerInv
      <4>2. sock[u].closed => sock'[u].closed
        BY <1>1 DEF TurnState
      <4>3. sock'[u].phase \in {"rights", "ack", "play"}
        BY <1>1, <2>1, <4>1 DEF TurnPointer
      <4>4. sock[u].phase = "play" => sock'[u].phase = "play"
        BY <1>1 DEF TurnState
      <4>5. QED
        BY <1>2, <1>4, <1>12, <4>1, <4>2, <4>3, <4>4
    <3>2. CASE ~sock[u].pointer
      <4>1. u = s /\ y.pointer
        BY <1>1, <2>1, <3>2
      <4>2. y.phase \in {"rights", "ack", "play"} /\ s \in Realm /\ session'[s] = "made"
        BY <3>2, <4>1 DEF TurnPointer
      <4>3. SessionOf[s] = s /\ s \notin Instance
        BY <4>2, SocketAssumption
      <4>4. QED
        BY <1>1, <4>1, <4>2, <4>3
    <3>3. QED
      BY <3>1, <3>2
  <2>2. \A r \in Realm : sock'[r].phase \in {"rights", "ack"} /\ ~sock'[r].pointer => sock'[r].closed
    BY <1>0, <1>1, <1>2 DEF PointerInv, TurnPointer
  <2>3. QED
    BY <1>3, <2>1, <2>2 DEF PointerInv
<1>10. JobInv'
  <2>1. \A u \in Socket : u # s => (Awaited(u)' => Awaited(u))
    BY <1>3
  <2>2. k[2] = s =>
           /\ y.closed /\ y.phase \notin {"play", "refused"} => k[1] = "onCloseInHandler"
           /\ k[1] \in {"onCloseInHandler", "onCloseInUpdate"} => y.closed
           /\ k[1] = "read" /\ y.closed => ~Awaited(s)' /\ (y.pointer => world = <<"onClose", s>>)
    <3>1. TurnJob(s, y, k)
      OBVIOUS
    <3>2. y.closed => (Awaited(s)' <=> Awaited(s))
      BY <1>3
    <3>3. QED
      BY <3>1, <3>2 DEF TurnJob
  <2>3. QED
    BY <1>3, <2>1, <2>2, JobStep
<1>11. ReadInv'
  <2>1. /\ Reading(s)' <=> k = <<"read", s>>
        /\ \A u \in Socket : u # s => (Reading(u)' <=> Reading(u) /\ job[t] # <<"read", u>>)
    BY <1>0, ReadingStep
  <2>2. \A u \in Socket : u # s => job[t] # <<"read", u>>
    <3>1. \A u \in Socket : u # NoSocket
      BY SocketAssumption
    <3>2. QED
      BY <3>1
  <2>3. ASSUME NEW u \in Socket
        PROVE  /\ sock'[u].reads <= 1 /\ (Reading(u)' => sock'[u].reads = 0)
               /\ IsOpen(sock'[u]) => (sock'[u].reads = 0 <=> sock'[u].phase \in {"ip", "account"} \/ Reading(u)')
               /\ IsOpen(sock'[u]) /\ Reading(u)' => sock'[u].phase \notin {"ip", "account"}
    <3>1. CASE u = s
      BY <1>1, <2>1, <3>1 DEF TurnRead
    <3>2. CASE u # s
      <4>1. sock'[u] = sock[u] /\ (Reading(u)' <=> Reading(u))
        BY <1>1, <2>1, <2>2, <3>2
      <4>2. QED
        BY <1>0, <4>1 DEF ReadInv
    <3>3. QED
      BY <3>1, <3>2
  <2>4. QED
    BY <2>3 DEF ReadInv, IsOpen
<1>13. SentInv'
  <2>1. \A u \in Socket : SentOf(sock'[u]) /\ (sock'[u].phase = "ip" => sock'[u].out = <<>>)
    BY <1>0, <1>1 DEF SentInv, TurnState
  <2>2. QED
    BY <2>1 DEF SentInv, SentOf, Broken
<1>14. QED
  BY <1>5, <1>6, <1>7, <1>8, <1>9, <1>10, <1>11, <1>13 DEF IInv

(* What is known of a socket before its thread takes a step. *)
LEMMA SocketFacts ==
  ASSUME IInv, NEW t \in Thread, NEW s \in Socket, s \in sockets[t]
  PROVE  LET x == sock[s] IN
         /\ x \in SocketState /\ x.reads \in Nat /\ s # NoSocket
         /\ x.closing <=> x.phase = "refused"
         /\ SentOf(x) /\ (x.phase = "ip" => x.out = <<>>)
         /\ x.reads <= 1 /\ (job[t] = <<"read", s>> => x.reads = 0)
         /\ IsOpen(x) => (x.reads = 0 <=> x.phase \in {"ip", "account"} \/ job[t] = <<"read", s>>)
         /\ IsOpen(x) /\ job[t] = <<"read", s>> => x.phase \notin {"ip", "account"}
         /\ x.pointer => x.phase \in {"rights", "ack", "play"}
         /\ s \in Realm /\ x.phase \in {"rights", "ack"} /\ ~x.pointer => x.closed
         /\ s \in Instance => x.phase # "rights"
         /\ job[t][2] = s =>
              /\ x.closed /\ x.phase \notin {"play", "refused"} => job[t][1] = "onCloseInHandler"
              /\ job[t][1] \in {"onCloseInHandler", "onCloseInUpdate"} => x.closed
              /\ job[t][1] = "read" /\ x.closed => ~Awaited(s) /\ (x.pointer => world = <<"onClose", s>>)
<1>1. TypeOK /\ HomeInv /\ LoginInv /\ PointerInv /\ JobInv /\ ReadInv /\ SentInv
  BY DEF IInv
<1>2. sock[s] \in SocketState /\ s # NoSocket
  BY <1>1, Types, SocketAssumption
<1>3. sock[s].reads \in Nat
  BY <1>2, Fields
<1>4. Reading(s) <=> job[t] = <<"read", s>>
  <2>1. \A u \in Thread : job[u] = <<"read", s>> => u = t
    BY <1>1, OneWorker
  <2>2. QED
    BY <2>1 DEF Reading
<1>5. Realm \subseteq Socket /\ Instance \subseteq Socket
  BY DEF Socket
<1>6. /\ SentOf(sock[s]) /\ (sock[s].phase = "ip" => sock[s].out = <<>>)
      /\ sock[s].closing <=> sock[s].phase = "refused"
      /\ s \in Instance => sock[s].phase # "rights"
  BY <1>1 DEF SentInv, LoginInv
<1>7. /\ sock[s].pointer => sock[s].phase \in {"rights", "ack", "play"}
      /\ s \in Realm /\ sock[s].phase \in {"rights", "ack"} /\ ~sock[s].pointer => sock[s].closed
  BY <1>1 DEF PointerInv
<1>8. /\ sock[s].reads <= 1 /\ (job[t] = <<"read", s>> => sock[s].reads = 0)
      /\ IsOpen(sock[s]) => (sock[s].reads = 0 <=> sock[s].phase \in {"ip", "account"} \/ job[t] = <<"read", s>>)
      /\ IsOpen(sock[s]) /\ job[t] = <<"read", s>> => sock[s].phase \notin {"ip", "account"}
  BY <1>1, <1>4 DEF ReadInv
<1>9. job[t][2] = s =>
              /\ sock[s].closed /\ sock[s].phase \notin {"play", "refused"} => job[t][1] = "onCloseInHandler"
              /\ job[t][1] \in {"onCloseInHandler", "onCloseInUpdate"} => sock[s].closed
              /\ job[t][1] = "read" /\ sock[s].closed =>
                   ~Awaited(s) /\ (sock[s].pointer => world = <<"onClose", s>>)
  BY <1>1 DEF JobInv
<1>10. QED
  BY <1>2, <1>3, <1>6, <1>7, <1>8, <1>9

LEMMA SameSession ==
  ASSUME IInv, NEW s \in Socket, NEW y, session' = session,
         y.phase \in {"rights", "ack"} <=> sock[s].phase \in {"rights", "ack"},
         y.phase \in {"ip", "hello", "auth", "account", "refused"}
           <=> sock[s].phase \in {"ip", "hello", "auth", "account", "refused"}
  PROVE  TurnSession(s, y)
<1>1. session \in [Realm -> {"none", "made", "world", "deleted"}]
  BY Types DEF IInv
<1>2. QED
  BY <1>1 DEF IInv, LoginInv, TurnSession

LEMMA Same ==
  ASSUME TypeOK, NEW s \in Socket, UNCHANGED sock
  PROVE  Change(s, sock[s])
BY DEF TypeOK, Change

(* A thread that works on a socket, or that handles one, has it. *)
LEMMA Works ==
  ASSUME IInv, NEW t \in Thread, NEW s \in Socket,
         job[t][2] = s
  PROVE  s \in sockets[t] /\ (job[t][1] \in {"read", "onCloseInHandler"} => todo[t] = {})
BY SocketAssumption DEF IInv, HomeInv

(* The jobs after a step on s. *)
LEMMA NextJobs ==
  ASSUME IInv, NEW t \in Thread, NEW s \in Socket
  PROVE  /\ WorkOn(t, s, <<"update", NoSocket>>) /\ WorkOn(t, s, <<"callbacks", s>>)
         /\ WorkOn(t, s, <<"write", s>>)
         /\ job[t][1] \in {"idle", "read", "onCloseInHandler"} =>
              /\ WorkOn(t, s, Idle) /\ WorkOn(t, s, <<"read", s>>)
              /\ WorkOn(t, s, <<"onCloseInHandler", s>>)
         /\ NoSocket # s
BY SocketAssumption DEF WorkOn, Jobs, Idle, IInv, HomeInv

Turn(t, s, y, k) ==
  /\ Change(s, y) /\ job' = [job EXCEPT ![t] = k]
  /\ TurnLinks(s, y) /\ UNCHANGED <<netVars, heldVars, todo, instance, world>>

LEMMA TurnInv ==
  ASSUME IInv, NEW t \in Thread, NEW s \in Socket, s \in sockets[t], job[t][2] \in {s, NoSocket},
         NEW y \in SocketState, NEW k, Turn(t, s, y, k), WorkOn(t, s, k),
         TurnState(s, y), TurnSession(s, y), TurnPointer(s, y), TurnJob(s, y, k), TurnRead(s, y, k)
  PROVE  IInv'
BY TurnStep DEF Turn

-----------------------------------------------------------------------------
(* The end of a close, and the callbacks. *)

LEMMA NoCallbackInv ==
  ASSUME IInv, NEW t \in Thread, NEW s \in Socket, NoCallback(t, s)
  PROVE  IInv'
<1> DEFINE x == sock[s]
           k == <<"update", NoSocket>>
<1>1. /\ job[t] = <<"callbacks", s>> /\ session' = session
      /\ job' = [job EXCEPT ![t] = k] /\ UNCHANGED <<netVars, heldVars, todo, sock, worldVars>>
  BY DEF NoCallback, Do, worldVars
<1>2. s \in sockets[t] /\ WorkOn(t, s, k) /\ Change(s, x) /\ k[2] # s /\ job[t][2] = s
  <2>1. job[t][2] = s
    BY <1>1
  <2>2. WorkOn(t, s, k) /\ k[2] # s
    BY NextJobs
  <2>3. Change(s, x)
    BY <1>1, Same DEF IInv
  <2>4. QED
    BY <2>1, <2>2, <2>3, Works
<1>3. TurnState(s, x) /\ TurnPointer(s, x) /\ TurnJob(s, x, k) /\ TurnRead(s, x, k)
  BY <1>1, <1>2, SocketFacts DEF TurnState, TurnPointer, TurnJob, TurnRead
<1>4. TurnSession(s, x)
  BY <1>1, SameSession
<1>5. x \in SocketState
  BY <1>2, SocketFacts
<1>6. Turn(t, s, x, k)
  BY <1>1, <1>2 DEF Turn, TurnLinks, worldVars
<1>7. QED
  BY <1>2, <1>3, <1>4, <1>5, <1>6, TurnInv

LEMMA OnCloseInv ==
  ASSUME IInv, NEW t \in Thread, NEW s \in Socket, OnClose(t, s)
  PROVE  IInv'
<1> DEFINE x == sock[s]
           y == [x EXCEPT !.pointer = FALSE]
<1>1. Change(s, y)
  BY DEF OnClose
<1>2. \/ job[t] = <<"onCloseInUpdate", s>> /\ job' = [job EXCEPT ![t] = <<"callbacks", s>>]
      \/ job[t] = <<"onCloseInHandler", s>> /\ job' = [job EXCEPT ![t] = Idle]
  BY DEF OnClose, Do
<1>3. UNCHANGED <<netVars, heldVars, todo, instance, links, world>> /\ session' = session
  BY DEF OnClose, worldVars
<1>4. s \in sockets[t] /\ job[t][2] = s /\ job[t][1] \in {"onCloseInUpdate", "onCloseInHandler"}
  BY <1>2, Works
<1>5. x \in SocketState /\ x.closed /\ SentOf(x)
  BY <1>4, SocketFacts
<1>6. y \in SocketState
  BY <1>5 DEF SocketState
<1>7. /\ y.client = x.client /\ y.phase = x.phase /\ y.closed = x.closed /\ y.closing = x.closing
      /\ ~y.pointer /\ y.reads = x.reads /\ y.out = x.out
      /\ y.queue = x.queue /\ y.wire = x.wire /\ y.accepted = x.accepted
  BY <1>5 DEF SocketState
<1> HIDE DEF y
<1>8. SentOf(x) => SentOf(y)
  BY <1>7, SentSame DEF Broken
<1>9. TurnState(s, y) /\ TurnPointer(s, y)
  BY <1>4, <1>5, <1>7, <1>8, SocketFacts DEF TurnState, TurnPointer
<1>10. TurnSession(s, y)
  BY <1>3, <1>7, SameSession
<1>11. \A k : k # <<"read", s>> => TurnRead(s, y, k)
  BY <1>4, <1>5, <1>7, SocketFacts DEF TurnRead, IsOpen
<1>12. CASE job[t] = <<"onCloseInUpdate", s>> /\ job' = [job EXCEPT ![t] = <<"callbacks", s>>]
  <2>1. ~(x.closed /\ x.phase \notin {"play", "refused"})
    BY <1>4, <1>12, SocketFacts
  <2>2. TurnJob(s, y, <<"callbacks", s>>) /\ TurnRead(s, y, <<"callbacks", s>>)
    BY <1>7, <1>11, <2>1 DEF TurnJob
  <2>3. WorkOn(t, s, <<"callbacks", s>>)
    BY NextJobs
  <2>4. Turn(t, s, y, <<"callbacks", s>>)
    BY <1>1, <1>3, <1>12 DEF Turn, TurnLinks
  <2>5. QED
    BY <1>4, <1>6, <1>9, <1>10, <2>2, <2>3, <2>4, TurnInv
<1>13. CASE job[t] = <<"onCloseInHandler", s>> /\ job' = [job EXCEPT ![t] = Idle]
  <2>1. WorkOn(t, s, Idle)
    <3>1. job[t][1] = "onCloseInHandler"
      BY <1>13
    <3>2. QED
      BY <3>1, NextJobs
  <2>2. Idle[2] # s /\ Idle # <<"read", s>>
    BY SocketAssumption DEF Idle
  <2>3. TurnJob(s, y, Idle) /\ TurnRead(s, y, Idle)
    BY <1>11, <2>2 DEF TurnJob
  <2>4. Turn(t, s, y, Idle)
    BY <1>1, <1>3, <1>13 DEF Turn, TurnLinks
  <2>5. QED
    BY <1>4, <1>6, <1>9, <1>10, <2>1, <2>3, <2>4, TurnInv
<1>14. QED
  BY <1>2, <1>12, <1>13


LEMMA PhaseFacts ==
  ASSUME NEW x \in SocketState, NEW p \in Phases, NEW b \in BOOLEAN
  PROVE  LET y == [x EXCEPT !.phase = p, !.pointer = b] IN
         /\ y \in SocketState /\ y.phase = p /\ y.pointer = b /\ (SentOf(x) => SentOf(y))
         /\ y.client = x.client /\ y.closed = x.closed /\ y.closing = x.closing
         /\ y.reads = x.reads /\ y.out = x.out
<1> DEFINE y == [x EXCEPT !.phase = p, !.pointer = b]
<1>1. y \in SocketState
  BY DEF SocketState
<1>2. /\ y.phase = p /\ y.pointer = b
      /\ y.client = x.client /\ y.closed = x.closed /\ y.closing = x.closing
      /\ y.reads = x.reads /\ y.out = x.out
      /\ y.queue = x.queue /\ y.wire = x.wire /\ y.accepted = x.accepted
  BY DEF SocketState
<1> HIDE DEF y
<1>3. SentOf(x) => SentOf(y)
  BY <1>2, SentSame DEF Broken
<1>4. QED
  BY <1>1, <1>2, <1>3 DEF y

LEMMA OnlyPhase ==
  ASSUME NEW x \in SocketState, NEW p \in Phases
  PROVE  LET y == [x EXCEPT !.phase = p] IN
         /\ y \in SocketState /\ y.phase = p /\ y.pointer = x.pointer /\ (SentOf(x) => SentOf(y))
         /\ y.client = x.client /\ y.closed = x.closed /\ y.closing = x.closing
         /\ y.reads = x.reads /\ y.out = x.out
<1> DEFINE y == [x EXCEPT !.phase = p]
<1>1. y \in SocketState
  BY DEF SocketState
<1>2. /\ y.phase = p /\ y.pointer = x.pointer
      /\ y.client = x.client /\ y.closed = x.closed /\ y.closing = x.closing
      /\ y.reads = x.reads /\ y.out = x.out
      /\ y.queue = x.queue /\ y.wire = x.wire /\ y.accepted = x.accepted
  BY DEF SocketState
<1> HIDE DEF y
<1>3. SentOf(x) => SentOf(y)
  BY <1>2, SentSame DEF Broken
<1>4. QED
  BY <1>1, <1>2, <1>3 DEF y

(* A socket whose query was answered: it is open. *)
LEMMA CalledFacts ==
  ASSUME IInv, NEW t \in Thread, NEW s \in Socket, job[t] = <<"callbacks", s>>,
         sock[s].phase \notin {"play", "refused"}
  PROVE  LET x == sock[s] IN
         /\ x \in SocketState /\ ~x.closed /\ ~x.closing /\ IsOpen(x) /\ SentOf(x)
         /\ x.reads \in Nat /\ x.reads <= 1 /\ (x.reads = 0 <=> x.phase \in {"ip", "account"})
         /\ x.phase = "ip" => x.out = <<>>
         /\ x.pointer => x.phase \in {"rights", "ack"}
         /\ s \in Realm /\ x.phase \in {"rights", "ack"} => x.pointer
         /\ s \in Instance => x.phase # "rights"
         /\ s \in sockets[t] /\ job[t][2] = s
<1>1. job[t][2] = s /\ job[t][1] = "callbacks" /\ job[t] # <<"read", s>>
  OBVIOUS
<1>2. s \in sockets[t]
  BY <1>1, Works
<1>3. sock[s] \in SocketState /\ sock[s].closed \in BOOLEAN
  BY <1>2, SocketFacts, Fields
<1>4. ~sock[s].closed
  BY <1>1, <1>2, <1>3, SocketFacts
<1>5. ~sock[s].closing
  BY <1>2, SocketFacts
<1>6. IsOpen(sock[s])
  BY <1>4, <1>5 DEF IsOpen
<1>7. QED
  BY <1>1, <1>2, <1>3, <1>4, <1>5, <1>6, SocketFacts

LEMMA CallbackInv ==
  ASSUME IInv, NEW t \in Thread, NEW s \in Socket, job[t] = <<"callbacks", s>>,
         NEW y \in SocketState, Turn(t, s, y, <<"update", NoSocket>>),
         TurnState(s, y), TurnSession(s, y), TurnPointer(s, y),
         y.reads <= 1, IsOpen(y) => (y.reads = 0 <=> y.phase \in {"ip", "account"})
  PROVE  IInv'
<1> DEFINE k == <<"update", NoSocket>>
<1>1. job[t][2] = s
  OBVIOUS
<1>2. k[2] # s /\ k # <<"read", s>>
  BY NextJobs
<1>3. WorkOn(t, s, k) /\ s \in sockets[t]
  BY <1>1, NextJobs, Works
<1>4. TurnJob(s, y, k) /\ TurnRead(s, y, k)
  BY <1>2 DEF TurnJob, TurnRead
<1>5. QED
  BY <1>1, <1>3, <1>4, TurnInv

(* The login on s is refused. *)
LEMMA RefusedInv ==
  ASSUME IInv, NEW t \in Thread, NEW s \in Socket, job[t] = <<"callbacks", s>>,
         sock[s].phase \in {"ip", "account"},
         NEW z \in SocketState, Like(sock[s], z), z.closed = sock[s].closed, SentOf(sock[s]) => SentOf(z),
         Turn(t, s, DelayedCloseSocket(z), <<"update", NoSocket>>), session' = session
  PROVE  IInv'
<1> DEFINE x == sock[s]
           y == DelayedCloseSocket(z)
<1>1. /\ x \in SocketState /\ ~x.closed /\ SentOf(x) /\ x.reads <= 1 /\ ~x.pointer
  BY CalledFacts
<1>2. /\ y \in SocketState /\ y.closing /\ y.phase = "refused" /\ SentOf(y)
      /\ y.client = x.client /\ y.closed = x.closed /\ y.pointer = x.pointer /\ y.reads = x.reads
  BY <1>1, DelayedFacts DEF Like
<1> HIDE DEF y
<1>3. TurnState(s, y) /\ TurnPointer(s, y)
  BY <1>1, <1>2 DEF TurnState, TurnPointer
<1>4. TurnSession(s, y)
  BY <1>2, SameSession
<1>5. Turn(t, s, y, <<"update", NoSocket>>)
  BY DEF y
<1>6. y.reads <= 1 /\ ~IsOpen(y)
  BY <1>1, <1>2 DEF IsOpen
<1>7. QED
  BY <1>2, <1>3, <1>4, <1>5, <1>6, CallbackInv

LEMMA CalledTurn ==
  ASSUME NEW t, NEW s, NEW y, NEW phase, Called(t, s, phase), Change(s, y)
  PROVE  job[t] = <<"callbacks", s>> /\ sock[s].phase = phase /\ Turn(t, s, y, <<"update", NoSocket>>)
BY DEF Called, Turn, TurnLinks, Do

LEMMA CheckIpInv ==
  ASSUME IInv, NEW t \in Thread, NEW s \in Socket, CheckIpCallback(t, s)
  PROVE  IInv'
<1> DEFINE x == sock[s]
           x1 == AsyncRead(x)
           n == x.accepted + 1
           y == [x1 EXCEPT !.phase = "hello", !.accepted = n, !.queue = Append(@, <<n>>)]
<1>1. Called(t, s, "ip") /\ session' = session
  BY DEF CheckIpCallback
<1>2. job[t] = <<"callbacks", s>> /\ x.phase = "ip"
  BY <1>1 DEF Called
<1>3. Change(s, DelayedCloseSocket(x)) \/ Change(s, y)
  BY DEF CheckIpCallback
<1>4. /\ x \in SocketState /\ ~x.closed /\ ~x.closing /\ IsOpen(x) /\ SentOf(x) /\ x.reads = 0
      /\ x.out = <<>> /\ ~x.pointer
  BY <1>2, CalledFacts
<1>5. CASE Change(s, DelayedCloseSocket(x))
  <2>1. Turn(t, s, DelayedCloseSocket(x), <<"update", NoSocket>>)
    BY <1>1, <1>5, CalledTurn
  <2>2. Like(x, x)
    BY DEF Like
  <2>3. QED
    BY <1>1, <1>2, <1>4, <2>1, <2>2, RefusedInv
<1>6. CASE Change(s, y)
  <2>0. x1 = [x EXCEPT !.reads = @ + 1]
    BY <1>4 DEF AsyncRead
  <2>1. /\ x1 \in SocketState /\ SentOf(x1) /\ x1.client = x.client /\ x1.closed = x.closed
        /\ x1.closing = x.closing /\ x1.pointer = x.pointer /\ x1.out = x.out /\ x1.reads = 1
    BY <1>4, ReadFacts
  <2>2. x1.accepted = x.accepted
    BY <1>4, <2>0 DEF SocketState
  <2>3. Turn(t, s, y, <<"update", NoSocket>>)
    BY <1>1, <1>6, CalledTurn
  <2> HIDE DEF x1
  <2>4. x1.accepted \in Nat /\ x1.queue \in Seq(Packets)
    BY <2>1, Fields
  <2>5. n \in Nat /\ Append(x1.queue, <<n>>) \in Seq(Packets) /\ "hello" \in Phases
    BY <2>2, <2>4 DEF Packets, Phases
  <2>6. y \in SocketState
    BY <2>1, <2>5 DEF SocketState
  <2>7. /\ y.client = x1.client /\ y.closed = x1.closed /\ y.closing = x1.closing /\ y.pointer = x1.pointer
        /\ y.reads = x1.reads /\ y.out = x1.out /\ y.wire = x1.wire /\ y.phase = "hello"
        /\ y.queue = Append(x1.queue, <<x1.accepted + 1>>) /\ y.accepted = x1.accepted + 1
    BY <2>1, <2>2 DEF SocketState
  <2> HIDE DEF y
  <2>8. SentOf(y)
    BY <1>4, <2>1, <2>6, <2>7, GreetSent DEF Broken
  <2>9. TurnState(s, y) /\ TurnPointer(s, y)
    BY <1>2, <1>4, <2>1, <2>7, <2>8 DEF TurnState, TurnPointer
  <2>10. TurnSession(s, y)
    BY <1>1, <1>2, <2>7, SameSession
  <2>11. y.reads = 1
    BY <2>1, <2>7
  <2>12. QED
    BY <1>2, <2>3, <2>6, <2>7, <2>9, <2>10, <2>11, CallbackInv
<1>7. QED
  BY <1>3, <1>5, <1>6

LEMMA RefuseInv ==
  ASSUME IInv, NEW t \in Thread, NEW s \in Socket, Called(t, s, "account"), Refuse(s), session' = session
  PROVE  IInv'
<1>1. PICK z \in {sock[s], SendPacket(sock[s])} : Change(s, DelayedCloseSocket(z))
  BY DEF Refuse
<1>2. job[t] = <<"callbacks", s>> /\ sock[s].phase = "account"
      /\ Turn(t, s, DelayedCloseSocket(z), <<"update", NoSocket>>)
  BY <1>1, CalledTurn
<1>3. sock[s] \in SocketState
  BY <1>2, CalledFacts
<1>4. z \in SocketState /\ Like(sock[s], z) /\ z.closed = sock[s].closed /\ (SentOf(sock[s]) => SentOf(z))
  <2>1. CASE z = sock[s]
    BY <1>3, <2>1 DEF Like
  <2>2. CASE z = SendPacket(sock[s])
    BY <1>3, <2>2, SendFacts
  <2>3. QED
    BY <1>1, <2>1, <2>2
<1>5. QED
  BY <1>2, <1>4, RefusedInv

LEMMA AuthSessionInv ==
  ASSUME IInv, NEW t \in Thread, NEW s \in Socket, HandleAuthSessionCallback(t, s)
  PROVE  IInv'
<1> DEFINE x == sock[s]
           x1 == [x EXCEPT !.phase = "rights", !.pointer = TRUE]
           y == AsyncRead(x1)
<1>1. s \in Realm /\ Called(t, s, "account")
  BY DEF HandleAuthSessionCallback
<1>2. \/ Refuse(s) /\ session' = session
      \/ session' = [session EXCEPT ![s] = "made"] /\ Change(s, y)
  BY DEF HandleAuthSessionCallback
<1>3. CASE Refuse(s) /\ session' = session
  BY <1>1, <1>3, RefuseInv
<1>4. CASE session' = [session EXCEPT ![s] = "made"] /\ Change(s, y)
  <2>1. job[t] = <<"callbacks", s>> /\ x.phase = "account" /\ Turn(t, s, y, <<"update", NoSocket>>)
    BY <1>1, <1>4, CalledTurn
  <2>2. /\ x \in SocketState /\ ~x.closed /\ ~x.closing /\ SentOf(x) /\ x.reads = 0
    BY <2>1, CalledFacts
  <2>3. "rights" \in Phases /\ TRUE \in BOOLEAN
    BY DEF Phases
  <2>4. /\ x1 \in SocketState /\ x1.phase = "rights" /\ x1.pointer = TRUE /\ SentOf(x1) /\ x1.client = x.client
        /\ ~x1.closed /\ ~x1.closing /\ x1.reads = 0
    BY <2>2, <2>3, PhaseFacts
  <2> HIDE DEF x1
  <2>5. IsOpen(x1)
    BY <2>4 DEF IsOpen
  <2>6. /\ y \in SocketState /\ SentOf(y) /\ y.client = x.client /\ y.phase = "rights" /\ ~y.closed /\ ~y.closing
        /\ y.pointer /\ y.reads = 1
    BY <2>4, <2>5, ReadFacts
  <2> HIDE DEF y
  <2>7. session \in [Realm -> {"none", "made", "world", "deleted"}] /\ session[s] = "none"
    <3>1. session \in [Realm -> {"none", "made", "world", "deleted"}]
      BY Types DEF IInv
    <3>2. session[s] = "none"
      BY <1>1, <2>1 DEF IInv, LoginInv
    <3>3. QED
      BY <3>1, <3>2
  <2>8. session' \in [Realm -> {"none", "made", "world", "deleted"}] /\ session'[s] = "made"
        /\ \A r \in Realm : r # s => session'[r] = session[r]
    BY <1>1, <1>4, <2>7
  <2>9. TurnSession(s, y)
    BY <2>6, <2>7, <2>8 DEF TurnSession
  <2>10. TurnState(s, y) /\ TurnPointer(s, y)
    BY <1>1, <2>1, <2>2, <2>6, <2>8, SocketAssumption DEF TurnState, TurnPointer
  <2>11. QED
    BY <2>1, <2>6, <2>9, <2>10, CallbackInv
<1>5. QED
  BY <1>2, <1>3, <1>4

LEMMA ContinuedInv ==
  ASSUME IInv, NEW t \in Thread, NEW s \in Socket, HandleAuthContinuedSessionCallback(t, s)
  PROVE  IInv'
<1> DEFINE x == sock[s]
           x1 == SendPacket(x)
           x2 == [x1 EXCEPT !.phase = "ack"]
           y == AsyncRead(x2)
<1>1. s \in Instance /\ Called(t, s, "account") /\ session' = session
  BY DEF HandleAuthContinuedSessionCallback
<1>2. Refuse(s) \/ Change(s, y)
  BY DEF HandleAuthContinuedSessionCallback
<1>3. CASE Refuse(s)
  BY <1>1, <1>3, RefuseInv
<1>4. CASE Change(s, y)
  <2>1. job[t] = <<"callbacks", s>> /\ x.phase = "account" /\ Turn(t, s, y, <<"update", NoSocket>>)
    BY <1>1, <1>4, CalledTurn
  <2>2. /\ x \in SocketState /\ ~x.closed /\ ~x.closing /\ SentOf(x) /\ x.reads = 0 /\ ~x.pointer
    BY <2>1, CalledFacts
  <2>3. /\ x1 \in SocketState /\ SentOf(x1) /\ Like(x, x1) /\ x1.closed = x.closed
    BY <2>2, SendFacts
  <2> HIDE DEF x1
  <2>5. "ack" \in Phases
    BY DEF Phases
  <2>6. /\ x2 \in SocketState /\ x2.phase = "ack" /\ ~x2.pointer /\ SentOf(x2) /\ x2.client = x.client
        /\ ~x2.closed /\ ~x2.closing /\ x2.reads = 0
    BY <2>2, <2>3, <2>5, OnlyPhase DEF Like
  <2> HIDE DEF x2
  <2>7. IsOpen(x2)
    BY <2>6 DEF IsOpen
  <2>8. /\ y \in SocketState /\ SentOf(y) /\ y.client = x.client /\ y.phase = "ack" /\ ~y.closed /\ ~y.closing
        /\ ~y.pointer /\ y.reads = 1
    BY <2>6, <2>7, ReadFacts
  <2> HIDE DEF y
  <2>9. s \notin Realm
    BY <1>1, SocketAssumption
  <2>10. TurnSession(s, y)
    <3>1. session \in [Realm -> {"none", "made", "world", "deleted"}]
      BY Types DEF IInv
    <3>2. QED
      BY <1>1, <2>9, <3>1 DEF TurnSession
  <2>11. TurnState(s, y) /\ TurnPointer(s, y)
    BY <2>1, <2>2, <2>8, <2>9 DEF TurnState, TurnPointer
  <2>12. QED
    BY <2>1, <2>8, <2>10, <2>11, CallbackInv
<1>5. QED
  BY <1>2, <1>3, <1>4

LEMMA PermissionsInv ==
  ASSUME IInv, NEW t \in Thread, NEW s \in Socket, LoadSessionPermissionsCallback(t, s)
  PROVE  IInv'
<1> DEFINE x == sock[s]
           x1 == SendPacket(x)
           y == [x1 EXCEPT !.phase = "ack"]
<1>1. Called(t, s, "rights") /\ session' = session /\ Change(s, y)
  BY DEF LoadSessionPermissionsCallback
<1>2. job[t] = <<"callbacks", s>> /\ x.phase = "rights" /\ Turn(t, s, y, <<"update", NoSocket>>)
  BY <1>1, CalledTurn
<1>3. /\ x \in SocketState /\ ~x.closed /\ ~x.closing /\ SentOf(x) /\ x.reads \in Nat /\ x.reads <= 1 /\ x.reads # 0
      /\ s \notin Instance /\ (s \in Realm => x.pointer)
  BY <1>2, CalledFacts
<1>4. /\ x1 \in SocketState /\ SentOf(x1) /\ Like(x, x1) /\ x1.closed = x.closed
  BY <1>3, SendFacts
<1> HIDE DEF x1
<1>5. "ack" \in Phases
  BY DEF Phases
<1>7. /\ y \in SocketState /\ y.phase = "ack" /\ y.pointer = x.pointer /\ SentOf(y) /\ y.client = x.client
      /\ ~y.closed /\ ~y.closing /\ y.reads = x.reads
  BY <1>3, <1>4, <1>5, OnlyPhase DEF Like
<1> HIDE DEF y
<1>8. TurnState(s, y) /\ TurnPointer(s, y)
  BY <1>2, <1>3, <1>7 DEF TurnState, TurnPointer, Socket
<1>9. TurnSession(s, y)
  BY <1>1, <1>2, <1>7, SameSession
<1>10. QED
  BY <1>2, <1>3, <1>7, <1>8, <1>9, CallbackInv


-----------------------------------------------------------------------------
(* The completed reads. *)

LEMMA ReadsFacts ==
  ASSUME NEW x \in SocketState, x.reads > 0
  PROVE  LET y == [x EXCEPT !.reads = @ - 1] IN
         /\ y \in SocketState /\ y.reads = x.reads - 1 /\ (SentOf(x) => SentOf(y))
         /\ y.client = x.client /\ y.phase = x.phase /\ y.pointer = x.pointer
         /\ y.closed = x.closed /\ y.closing = x.closing /\ y.out = x.out
<1> DEFINE y == [x EXCEPT !.reads = @ - 1]
<1>1. x.reads - 1 \in Nat
  BY Fields
<1>2. y \in SocketState
  BY <1>1 DEF SocketState
<1>3. /\ y.reads = x.reads - 1
      /\ y.client = x.client /\ y.phase = x.phase /\ y.pointer = x.pointer
      /\ y.closed = x.closed /\ y.closing = x.closing /\ y.out = x.out
      /\ y.queue = x.queue /\ y.wire = x.wire /\ y.accepted = x.accepted
  BY DEF SocketState
<1> HIDE DEF y
<1>4. SentOf(x) => SentOf(y)
  BY <1>3, SentSame DEF Broken
<1>5. QED
  BY <1>2, <1>3, <1>4 DEF y

(* A handler closes the socket, after a read at most. *)
LEMMA ClosedInv ==
  ASSUME IInv, NEW t \in Thread, NEW s \in Socket, s \in sockets[t], job[t] \in {Idle, <<"read", s>>},
         NEW x \in SocketState, x.reads <= 1, x.client = sock[s].client, x.phase = sock[s].phase,
         x.pointer = sock[s].pointer, x.closed = sock[s].closed, x.closing = sock[s].closing,
         x.out = sock[s].out, SentOf(sock[s]) => SentOf(x),
         CloseThen(t, s, x, "onCloseInHandler", Idle),
         UNCHANGED <<netVars, heldVars, todo, worldVars>>
  PROVE  IInv'
<1> DEFINE y == [x EXCEPT !.closed = TRUE]
<1>1. /\ y \in SocketState /\ Like(x, y) /\ y.closed /\ y.out = x.out /\ (SentOf(x) => SentOf(y))
  BY ClosedFacts
<1>2. Change(s, y) /\ IF x.closed THEN job' = [job EXCEPT ![t] = Idle]
                      ELSE job' = [job EXCEPT ![t] = <<"onCloseInHandler", s>>]
  BY DEF CloseThen, Do
<1> HIDE DEF y
<1>3. UNCHANGED <<netVars, heldVars, todo, instance, links, world>> /\ session' = session
  BY DEF worldVars
<1>4. job[t][2] \in {s, NoSocket} /\ job[t][1] \in {"idle", "read"}
  BY DEF Idle
<1>5. WorkOn(t, s, Idle) /\ WorkOn(t, s, <<"onCloseInHandler", s>>) /\ NoSocket # s
  BY <1>4, NextJobs
<1>6. TurnState(s, y) /\ TurnPointer(s, y)
  BY <1>1, SocketFacts DEF TurnState, TurnPointer, Like
<1>7. TurnSession(s, y)
  BY <1>1, <1>3, SameSession DEF Like
<1>8. ~IsOpen(y) /\ y.reads <= 1
  BY <1>1 DEF IsOpen, Like
<1>9. TurnJob(s, y, Idle) /\ TurnRead(s, y, Idle)
  BY <1>5, <1>8 DEF TurnJob, TurnRead, Idle
<1>10. TurnJob(s, y, <<"onCloseInHandler", s>>) /\ TurnRead(s, y, <<"onCloseInHandler", s>>)
  BY <1>1, <1>8 DEF TurnJob, TurnRead
<1>11. Turn(t, s, y, Idle) \/ Turn(t, s, y, <<"onCloseInHandler", s>>)
  BY <1>2, <1>3 DEF Turn, TurnLinks
<1>12. QED
  <2>1. ASSUME Turn(t, s, y, Idle) PROVE IInv'
    BY <1>1, <1>4, <1>5, <1>6, <1>7, <1>9, <2>1, TurnInv
  <2>2. ASSUME Turn(t, s, y, <<"onCloseInHandler", s>>) PROVE IInv'
    BY <1>1, <1>4, <1>5, <1>6, <1>7, <1>10, <2>2, TurnInv
  <2>3. QED
    BY <1>11, <2>1, <2>2

LEMMA HandlesFacts ==
  ASSUME IInv, NEW t \in Thread, NEW s \in Socket, Handles(t, s)
  PROVE  /\ job[t] = Idle /\ s \in sockets[t] /\ job[t] # <<"read", s>> /\ sock[s] \in SocketState
         /\ job' = job => job' = [job EXCEPT ![t] = Idle]
<1>1. job[t] = Idle /\ s \in sockets[t]
  BY DEF Handles
<1>2. job \in [Thread -> Jobs \X (Socket \cup {NoSocket})]
  BY Types DEF IInv
<1>3. QED
  BY <1>1, <1>2, SocketFacts DEF Idle

LEMMA ReadErrorInv ==
  ASSUME IInv, NEW t \in Thread, NEW s \in Socket, ReadError(t, s)
  PROVE  IInv'
<1> DEFINE x == [sock[s] EXCEPT !.reads = @ - 1]
<1>1. /\ Handles(t, s) /\ sock[s].reads > 0 /\ CloseThen(t, s, x, "onCloseInHandler", Idle)
      /\ UNCHANGED <<netVars, heldVars, todo, worldVars>>
  BY DEF ReadError
<1>2. job[t] = Idle /\ s \in sockets[t] /\ sock[s] \in SocketState
  BY <1>1, HandlesFacts
<1>3. sock[s].reads <= 1
  BY <1>2, SocketFacts
<1>4. /\ x \in SocketState /\ x.reads = sock[s].reads - 1 /\ (SentOf(sock[s]) => SentOf(x))
      /\ x.client = sock[s].client /\ x.phase = sock[s].phase /\ x.pointer = sock[s].pointer
      /\ x.closed = sock[s].closed /\ x.closing = sock[s].closing /\ x.out = sock[s].out
  BY <1>1, <1>2, ReadsFacts
<1>5. x.reads <= 1
  BY <1>2, <1>3, <1>4, Fields
<1> HIDE DEF x
<1>6. QED
  BY <1>1, <1>2, <1>4, <1>5, ClosedInv

LEMMA NotAuthedInv ==
  ASSUME IInv, NEW t \in Thread, NEW s \in Socket, NotAuthed(t, s)
  PROVE  IInv'
<1>1. /\ job[t] = <<"read", s>> /\ CloseThen(t, s, sock[s], "onCloseInHandler", Idle)
      /\ UNCHANGED <<netVars, heldVars, todo, worldVars>>
  BY DEF NotAuthed
<1>2. job[t][2] = s
  BY <1>1
<1>3. s \in sockets[t]
  BY <1>2, Works
<1>4. sock[s] \in SocketState /\ sock[s].reads <= 1
  BY <1>3, SocketFacts
<1>5. QED
  BY <1>1, <1>3, <1>4, ClosedInv

LEMMA InitializeInv ==
  ASSUME IInv, NEW t \in Thread, NEW s \in Socket, InitializeHandler(t, s)
  PROVE  IInv'
<1> DEFINE x0 == sock[s]
           x == [x0 EXCEPT !.reads = @ - 1]
           x1 == SendPacket(x)
           x2 == [x1 EXCEPT !.phase = "auth"]
           y == AsyncRead(x2)
<1>1. Handles(t, s) /\ x0.reads > 0 /\ x0.phase = "hello"
      /\ UNCHANGED <<netVars, heldVars, todo, worldVars>>
  BY DEF InitializeHandler
<1>2. CloseThen(t, s, x, "onCloseInHandler", Idle) \/ (Change(s, y) /\ job' = job)
  BY DEF InitializeHandler
<1>3. job[t] = Idle /\ s \in sockets[t] /\ x0 \in SocketState /\ (job' = job => job' = [job EXCEPT ![t] = Idle])
  BY <1>1, HandlesFacts
<1>4. x0.reads \in Nat /\ x0.reads <= 1 /\ SentOf(x0) /\ ~x0.pointer
  BY <1>1, <1>3, SocketFacts
<1>5. x0.reads = 1
  BY <1>1, <1>4
<1>6. /\ x \in SocketState /\ x.reads = 0 /\ SentOf(x)
      /\ x.client = x0.client /\ x.phase = x0.phase /\ x.pointer = x0.pointer
      /\ x.closed = x0.closed /\ x.closing = x0.closing /\ x.out = x0.out
  BY <1>3, <1>4, <1>5, ReadsFacts
<1> HIDE DEF x
<1>7. CASE CloseThen(t, s, x, "onCloseInHandler", Idle)
  <2>1. x.reads <= 1
    BY <1>6
  <2>2. QED
    BY <1>1, <1>3, <1>6, <1>7, <2>1, ClosedInv
<1>8. CASE Change(s, y) /\ job' = job
  <2>1. x1 \in SocketState /\ SentOf(x1) /\ Like(x, x1) /\ x1.closed = x.closed
    BY <1>6, SendFacts
  <2> HIDE DEF x1
  <2>2. "auth" \in Phases
    BY DEF Phases
  <2>3. /\ x2 \in SocketState /\ x2.phase = "auth" /\ ~x2.pointer /\ SentOf(x2) /\ x2.client = x0.client
        /\ x2.closed = x0.closed /\ x2.closing = x0.closing /\ x2.reads = 0
    BY <1>4, <1>6, <2>1, <2>2, OnlyPhase DEF Like
  <2> HIDE DEF x2
  <2>4. /\ y \in SocketState /\ SentOf(y) /\ y.client = x0.client /\ y.phase = "auth"
        /\ y.closed = x0.closed /\ y.closing = x0.closing /\ ~y.pointer
        /\ y.reads = IF IsOpen(x2) THEN 1 ELSE 0
    BY <2>3, ReadFacts
  <2>5. Change(s, y)
    BY <1>8
  <2> HIDE DEF y
  <2>6. UNCHANGED <<netVars, heldVars, todo, instance, links, world>> /\ session' = session
    BY <1>1 DEF worldVars
  <2>7. Turn(t, s, y, Idle)
    BY <1>3, <1>8, <2>5, <2>6 DEF Turn, TurnLinks
  <2>8. TurnState(s, y) /\ TurnPointer(s, y)
    BY <1>1, <1>3, <2>4, SocketFacts DEF TurnState, TurnPointer
  <2>9. TurnSession(s, y)
    BY <1>1, <2>4, <2>6, SameSession
  <2>10. job[t][2] \in {s, NoSocket} /\ job[t][1] = "idle"
    BY <1>3 DEF Idle
  <2>11. WorkOn(t, s, Idle) /\ Idle[2] # s /\ Idle # <<"read", s>>
    BY <2>10, NextJobs DEF Idle
  <2>12. IsOpen(y) => IsOpen(x2)
    BY <2>3, <2>4 DEF IsOpen
  <2>13. y.reads <= 1 /\ (IsOpen(y) => y.reads # 0)
    BY <2>4, <2>12
  <2>14. TurnJob(s, y, Idle) /\ TurnRead(s, y, Idle)
    BY <2>4, <2>11, <2>13 DEF TurnJob, TurnRead
  <2>15. QED
    BY <1>3, <2>4, <2>7, <2>8, <2>9, <2>10, <2>11, <2>14, TurnInv
<1>9. QED
  BY <1>2, <1>7, <1>8

LEMMA ReadHandlerInv ==
  ASSUME IInv, NEW t \in Thread, NEW s \in Socket, ReadHandler(t, s)
  PROVE  IInv'
<1> DEFINE x == sock[s]
           y == [x EXCEPT !.reads = @ - 1]
<1>1. /\ Handles(t, s) /\ x.reads > 0 /\ Change(s, y)
      /\ UNCHANGED <<netVars, heldVars, todo, worldVars>>
  BY DEF ReadHandler
<1>2. job[t] = Idle /\ s \in sockets[t] /\ x \in SocketState /\ (job' = job => job' = [job EXCEPT ![t] = Idle])
  BY <1>1, HandlesFacts
<1>3. \/ IsOpen(x) /\ job' = [job EXCEPT ![t] = <<"read", s>>]
      \/ ~IsOpen(x) /\ job' = [job EXCEPT ![t] = Idle]
  BY <1>2 DEF ReadHandler, Do
<1>4. x.reads \in Nat /\ x.reads <= 1 /\ SentOf(x) /\ (IsOpen(x) => (x.reads = 0 <=> x.phase \in {"ip", "account"}))
  BY <1>2, SocketFacts DEF Idle
<1>5. /\ y \in SocketState /\ y.reads = 0 /\ SentOf(y)
      /\ y.client = x.client /\ y.phase = x.phase /\ y.pointer = x.pointer
      /\ y.closed = x.closed /\ y.closing = x.closing /\ y.out = x.out
  BY <1>1, <1>2, <1>4, ReadsFacts
<1> HIDE DEF y
<1>6. UNCHANGED <<netVars, heldVars, todo, instance, links, world>> /\ session' = session
  BY <1>1 DEF worldVars
<1>7. TurnState(s, y) /\ TurnPointer(s, y)
  BY <1>2, <1>5, SocketFacts DEF TurnState, TurnPointer
<1>8. TurnSession(s, y)
  BY <1>5, <1>6, SameSession
<1>9. job[t][2] \in {s, NoSocket} /\ job[t][1] = "idle"
  BY <1>2 DEF Idle
<1>10. /\ WorkOn(t, s, Idle) /\ Idle[2] # s /\ Idle # <<"read", s>> /\ WorkOn(t, s, <<"read", s>>)
  BY <1>9, NextJobs DEF Idle
<1>11. CASE IsOpen(x) /\ job' = [job EXCEPT ![t] = <<"read", s>>]
  <2>1. ~y.closed
    BY <1>5, <1>11 DEF IsOpen
  <2>2. IsOpen(x) /\ x.reads > 0
    BY <1>1, <1>11
  <2>3. x.phase \notin {"ip", "account"}
    BY <1>4, <2>2
  <2>4. TurnJob(s, y, <<"read", s>>) /\ TurnRead(s, y, <<"read", s>>)
    BY <1>5, <2>1, <2>3 DEF TurnJob, TurnRead
  <2>5. Turn(t, s, y, <<"read", s>>)
    BY <1>1, <1>6, <1>11 DEF Turn, TurnLinks
  <2>6. QED
    BY <1>2, <1>5, <1>7, <1>8, <1>9, <1>10, <2>4, <2>5, TurnInv
<1>12. CASE ~IsOpen(x) /\ job' = [job EXCEPT ![t] = Idle]
  <2>1. ~IsOpen(y)
    BY <1>5, <1>12 DEF IsOpen
  <2>2. TurnJob(s, y, Idle) /\ TurnRead(s, y, Idle)
    BY <1>5, <1>10, <2>1 DEF TurnJob, TurnRead
  <2>3. Turn(t, s, y, Idle)
    BY <1>1, <1>6, <1>12 DEF Turn, TurnLinks
  <2>4. QED
    BY <1>2, <1>5, <1>7, <1>8, <1>9, <1>10, <2>2, <2>3, TurnInv
<1>13. QED
  BY <1>3, <1>11, <1>12


-----------------------------------------------------------------------------
(* The packets of a read. *)

LEMMA ReadsFrom ==
  ASSUME IInv, NEW t \in Thread, NEW s \in Socket, job[t] = <<"read", s>>
  PROVE  /\ s \in sockets[t] /\ job[t][2] = s /\ job[t][1] = "read" /\ sock[s] \in SocketState
         /\ sock[s].reads = 0 /\ SentOf(sock[s])
         /\ sock[s].closed => sock[s].phase \in {"play", "refused"}
         /\ WorkOn(t, s, Idle) /\ WorkOn(t, s, <<"read", s>>) /\ Idle[2] # s /\ Idle # <<"read", s>>
         /\ job' = job => job' = [job EXCEPT ![t] = <<"read", s>>]
<1>1. job[t][2] = s /\ job[t][1] = "read"
  OBVIOUS
<1>2. s \in sockets[t]
  BY <1>1, Works
<1>3. sock[s] \in SocketState /\ sock[s].reads = 0 /\ SentOf(sock[s])
  BY <1>2, SocketFacts
<1>4. sock[s].closed => sock[s].phase \in {"play", "refused"}
  BY <1>1, <1>2, SocketFacts
<1>5. WorkOn(t, s, Idle) /\ WorkOn(t, s, <<"read", s>>) /\ Idle[2] # s /\ Idle # <<"read", s>>
  BY <1>1, NextJobs DEF Idle
<1>6. job \in [Thread -> Jobs \X (Socket \cup {NoSocket})]
  BY Types DEF IInv
<1>7. job' = job => job' = [job EXCEPT ![t] = <<"read", s>>]
  BY <1>6
<1>8. QED
  BY <1>1, <1>2, <1>3, <1>4, <1>5, <1>7

LEMMA HandleAuthSessionInv ==
  ASSUME IInv, NEW t \in Thread, NEW s \in Socket, HandleAuthSession(t, s)
  PROVE  IInv'
<1> DEFINE x == sock[s]
           y == [x EXCEPT !.phase = "account"]
<1>1. /\ job[t] = <<"read", s>> /\ x.phase = "auth"
      /\ UNCHANGED <<netVars, heldVars, todo, instance, links, world>> /\ session' = session
  BY DEF HandleAuthSession, worldVars
<1>2. Turn(t, s, y, Idle)
  BY DEF HandleAuthSession, Turn, TurnLinks, worldVars
<1>3. /\ s \in sockets[t] /\ job[t][2] = s /\ x \in SocketState /\ x.reads = 0 /\ SentOf(x)
      /\ WorkOn(t, s, Idle) /\ Idle[2] # s /\ Idle # <<"read", s>>
  BY <1>1, ReadsFrom
<1>4. "account" \in Phases
  BY DEF Phases
<1>5. /\ y \in SocketState /\ y.phase = "account" /\ y.pointer = x.pointer /\ SentOf(y)
      /\ y.client = x.client /\ y.closed = x.closed /\ y.closing = x.closing /\ y.reads = 0
  BY <1>3, <1>4, OnlyPhase
<1> HIDE DEF y
<1>6. TurnState(s, y) /\ TurnPointer(s, y)
  BY <1>1, <1>3, <1>5, SocketFacts DEF TurnState, TurnPointer
<1>7. TurnSession(s, y)
  BY <1>1, <1>5, SameSession
<1>8. TurnJob(s, y, Idle) /\ TurnRead(s, y, Idle)
  BY <1>3, <1>5 DEF TurnJob, TurnRead
<1>9. QED
  BY <1>2, <1>3, <1>5, <1>6, <1>7, <1>8, TurnInv

LEMMA EnterEncryptedInv ==
  ASSUME IInv, NEW t \in Thread, NEW s \in Socket, HandleEnterEncryptedModeAck(t, s)
  PROVE  IInv'
<1> DEFINE x == sock[s]
           y == [x EXCEPT !.phase = "play"]
           k == <<"read", s>>
<1>1. /\ job[t] = k /\ x.phase = "ack" /\ Change(s, y)
      /\ UNCHANGED <<netVars, heldVars, todo, instance, world>> /\ job' = job
  BY DEF HandleEnterEncryptedModeAck
<1>2. \/ s \in Realm /\ session' = [session EXCEPT ![s] = "world"] /\ links' = links
      \/ s \in Instance /\ links' = links \cup {s} /\ session' = session
  BY DEF HandleEnterEncryptedModeAck
<1>3. /\ s \in sockets[t] /\ job[t][2] = s /\ x \in SocketState /\ x.reads = 0 /\ SentOf(x)
      /\ (x.closed => x.phase \in {"play", "refused"}) /\ WorkOn(t, s, k)
      /\ job' = [job EXCEPT ![t] = k]
  BY <1>1, ReadsFrom
<1>4. "play" \in Phases
  BY DEF Phases
<1>5. /\ y \in SocketState /\ y.phase = "play" /\ y.pointer = x.pointer /\ SentOf(y)
      /\ y.client = x.client /\ y.closed = x.closed /\ y.closing = x.closing /\ y.reads = 0
  BY <1>3, <1>4, OnlyPhase
<1>6. Change(s, y)
  BY <1>1
<1> HIDE DEF y, k
<1>7. ~y.closed /\ TurnState(s, y)
  BY <1>1, <1>3, <1>5, SocketFacts DEF TurnState
<1>8. TurnJob(s, y, k) /\ TurnRead(s, y, k)
  BY <1>5, <1>7 DEF TurnJob, TurnRead, k
<1>9. TurnPointer(s, y)
  BY <1>5 DEF TurnPointer
<1>10. session \in [Realm -> {"none", "made", "world", "deleted"}]
  BY Types DEF IInv
<1>11. CASE s \in Realm /\ session' = [session EXCEPT ![s] = "world"] /\ links' = links
  <2>1. session[s] = "made"
    BY <1>1, <1>11 DEF IInv, LoginInv
  <2>2. session' \in [Realm -> {"none", "made", "world", "deleted"}] /\ session'[s] = "world"
        /\ \A r \in Realm : r # s => session'[r] = session[r]
    BY <1>10, <1>11
  <2>3. TurnSession(s, y)
    BY <1>5, <2>1, <2>2 DEF TurnSession
  <2>4. Turn(t, s, y, k)
    BY <1>1, <1>3, <1>6, <1>11 DEF Turn, TurnLinks
  <2>5. QED
    BY <1>3, <1>5, <1>7, <1>8, <1>9, <2>3, <2>4, TurnInv
<1>12. CASE s \in Instance /\ links' = links \cup {s} /\ session' = session
  <2>1. TurnSession(s, y)
    BY <1>10, <1>12, SocketAssumption DEF TurnSession
  <2>2. Turn(t, s, y, k)
    BY <1>1, <1>3, <1>5, <1>6, <1>7, <1>12 DEF Turn, TurnLinks
  <2>3. QED
    BY <1>3, <1>5, <1>7, <1>8, <1>9, <2>1, <2>2, TurnInv
<1>13. QED
  BY <1>2, <1>11, <1>12

LEMMA HandlePingInv ==
  ASSUME IInv, NEW t \in Thread, NEW s \in Socket, HandlePing(t, s)
  PROVE  IInv'
<1> DEFINE x == sock[s]
           y == SendPacket(x)
           k == <<"read", s>>
<1>1. /\ job[t] = k /\ x.pointer /\ Change(s, y)
      /\ UNCHANGED <<netVars, heldVars, todo, instance, links, world>> /\ session' = session /\ job' = job
  BY DEF HandlePing, worldVars
<1>2. /\ s \in sockets[t] /\ job[t][2] = s /\ x \in SocketState /\ x.reads = 0 /\ SentOf(x)
      /\ job[t][1] = "read" /\ WorkOn(t, s, k) /\ job' = [job EXCEPT ![t] = k]
      /\ (x.closed => x.phase \in {"play", "refused"})
  BY <1>1, ReadsFrom
<1>3. y \in SocketState /\ Like(x, y) /\ y.closed = x.closed /\ SentOf(y)
  BY <1>2, SendFacts
<1>4. Turn(t, s, y, k)
  BY <1>1, <1>2 DEF Turn, TurnLinks
<1> HIDE DEF y, k
<1>5. x.phase \in {"rights", "ack", "play"}
  BY <1>1, <1>2, SocketFacts
<1>6. TurnState(s, y) /\ TurnPointer(s, y)
  BY <1>2, <1>3, <1>5, SocketFacts DEF TurnState, TurnPointer, Like
<1>7. TurnSession(s, y)
  BY <1>1, <1>3, SameSession DEF Like
<1>8. x.closed => ~Awaited(s) /\ (x.pointer => world = <<"onClose", s>>)
  BY <1>2, SocketFacts
<1>9. TurnJob(s, y, k)
  BY <1>2, <1>3, <1>8 DEF TurnJob, Like, k
<1>10. TurnRead(s, y, k)
  BY <1>2, <1>3, <1>5 DEF TurnRead, Like, k
<1>11. QED
  BY <1>2, <1>3, <1>4, <1>6, <1>7, <1>9, <1>10, TurnInv

LEMMA EndReadInv ==
  ASSUME IInv, NEW t \in Thread, NEW s \in Socket, EndRead(t, s)
  PROVE  IInv'
<1> DEFINE x == sock[s]
           y == AsyncRead(x)
<1>1. /\ job[t] = <<"read", s>>
      /\ UNCHANGED <<netVars, heldVars, todo, instance, links, world>> /\ session' = session
  BY DEF EndRead, worldVars
<1>2. Turn(t, s, y, Idle)
  BY DEF EndRead, Turn, TurnLinks, worldVars
<1>3. /\ s \in sockets[t] /\ job[t][2] = s /\ x \in SocketState /\ x.reads = 0 /\ SentOf(x)
      /\ WorkOn(t, s, Idle) /\ Idle[2] # s /\ Idle # <<"read", s>>
  BY <1>1, ReadsFrom
<1>4. /\ y \in SocketState /\ SentOf(y) /\ y.client = x.client /\ y.phase = x.phase /\ y.closed = x.closed
      /\ y.closing = x.closing /\ y.pointer = x.pointer /\ y.out = x.out
      /\ y.reads = IF IsOpen(x) THEN 1 ELSE 0
  BY <1>3, ReadFacts
<1> HIDE DEF y
<1>5. TurnState(s, y) /\ TurnPointer(s, y)
  BY <1>3, <1>4, SocketFacts DEF TurnState, TurnPointer
<1>6. TurnSession(s, y)
  BY <1>1, <1>4, SameSession
<1>7. IsOpen(y) => IsOpen(x) /\ x.phase \notin {"ip", "account"}
  BY <1>1, <1>3, <1>4, SocketFacts DEF IsOpen
<1>8. TurnJob(s, y, Idle) /\ TurnRead(s, y, Idle)
  BY <1>3, <1>4, <1>7 DEF TurnJob, TurnRead
<1>9. QED
  BY <1>2, <1>3, <1>4, <1>5, <1>6, <1>8, TurnInv


-----------------------------------------------------------------------------
(* NetworkThread::Update. *)

(* A thread takes up or ends an Update. *)
LEMMA BetweenSockets ==
  ASSUME IInv, NEW t \in Thread, NEW k \in {Idle, <<"update", NoSocket>>}, job[t][2] = NoSocket,
         job' = [job EXCEPT ![t] = k], UNCHANGED <<sock, worldVars>>, TypeOK', HomeInv'
  PROVE  IInv'
<1>0. TypeOK /\ LoginInv /\ LinkInv /\ PointerInv /\ JobInv /\ ReadInv /\ SentInv
  BY DEF IInv
<1>1. LoginInv' /\ LinkInv' /\ PointerInv' /\ SentInv'
  BY <1>0 DEF worldVars, LoginInv, LinkInv, Awaited, PointerInv, SentInv, SentOf, Broken
<1>2. job \in [Thread -> Jobs \X (Socket \cup {NoSocket})] /\ k[2] = NoSocket
      /\ \A s \in Socket : s # NoSocket
  BY <1>0, Types, SocketAssumption DEF Idle
<1>3. job'[t] = k /\ \A u \in Thread : u # t => job'[u] = job[u]
  BY <1>2
<1>4. \A u \in Thread, s \in Socket : job'[u][2] = s => job'[u] = job[u] /\ job[u][2] = s
  BY <1>2, <1>3
<1>5. JobInv'
  BY <1>0, <1>4 DEF JobInv, Awaited, worldVars
<1>6. \A s \in Socket : Reading(s)' <=> Reading(s)
  <2> SUFFICES ASSUME NEW s \in Socket, NEW u \in Thread PROVE job'[u] = <<"read", s>> <=> job[u] = <<"read", s>>
    BY DEF Reading
  <2>1. CASE u = t
    BY <1>2, <1>3, <2>1
  <2>2. CASE u # t
    BY <1>3, <2>2
  <2>3. QED
    BY <2>1, <2>2
<1>7. ReadInv'
  BY <1>0, <1>6 DEF ReadInv, IsOpen
<1>8. QED
  BY <1>1, <1>5, <1>7 DEF IInv

LEMMA EndUpdateInv ==
  ASSUME IInv, NEW t \in Thread, EndUpdate(t)
  PROVE  IInv'
<1>0. TypeOK /\ HomeInv /\ job \in [Thread -> Jobs \X (Socket \cup {NoSocket})]
  BY Types DEF IInv
<1>1. /\ job[t] = <<"update", NoSocket>> /\ todo[t] = {} /\ job' = [job EXCEPT ![t] = Idle]
      /\ UNCHANGED <<netVars, heldVars, todo, sock, worldVars>>
  BY DEF EndUpdate
<1>2. Idle \in Jobs \X (Socket \cup {NoSocket})
  BY DEF Idle, Jobs
<1>3. job' \in [Thread -> Jobs \X (Socket \cup {NoSocket})] /\ job'[t] = Idle
      /\ \A u \in Thread : u # t => job'[u] = job[u]
  BY <1>0, <1>1, <1>2
<1>4. TypeOK'
  BY <1>0, <1>1, <1>3 DEF TypeOK, Jobs, netVars, heldVars, worldVars
<1>5. HomeInv'
  <2>1. \A u \in Thread : Owned(u)' = Owned(u)
    BY <1>1 DEF Owned, heldVars
  <2>2. ASSUME NEW u \in Thread
        PROVE  /\ todo'[u] \subseteq sockets'[u]
               /\ job'[u][1] \in {"idle", "read", "onCloseInHandler"} => todo'[u] = {}
               /\ job'[u][1] \in {"idle", "update"} => job'[u][2] = NoSocket
               /\ job'[u][1] \notin {"idle", "update"} => job'[u][2] \in sockets'[u]
    <3>1. CASE u = t
      BY <1>0, <1>1, <1>3, <3>1 DEF HomeInv, heldVars, Idle
    <3>2. CASE u # t
      BY <1>0, <1>1, <1>3, <3>2 DEF HomeInv, heldVars
    <3>3. QED
      BY <3>1, <3>2
  <2>3. QED
    BY <1>0, <1>1, <2>1, <2>2 DEF HomeInv
<1>6. job[t][2] = NoSocket
  BY <1>1
<1>7. QED
  BY <1>1, <1>4, <1>5, <1>6, BetweenSockets

LEMMA BeginUpdateInv ==
  ASSUME IInv, NEW t \in Thread, BeginUpdate(t)
  PROVE  IInv'
<1> DEFINE all == sockets[t] \cup {s \in newSockets[t] : IsOpen(sock[s])}
           k == <<"update", NoSocket>>
<1>0. /\ TypeOK /\ HomeInv /\ job \in [Thread -> Jobs \X (Socket \cup {NoSocket})]
      /\ todo \in [Thread -> SUBSET Socket] /\ newSockets \in [Thread -> SUBSET Socket]
      /\ sockets \in [Thread -> SUBSET Socket]
  BY Types DEF IInv
<1>1. /\ job[t] = Idle /\ job' = [job EXCEPT ![t] = k]
      /\ sockets' = [sockets EXCEPT ![t] = all] /\ todo' = [todo EXCEPT ![t] = all]
      /\ newSockets' = [newSockets EXCEPT ![t] = {}]
      /\ UNCHANGED <<netVars, sock, worldVars>>
  BY DEF BeginUpdate, Do
<1>2. k \in Jobs \X (Socket \cup {NoSocket}) /\ all \subseteq Socket /\ all \subseteq Owned(t)
  BY <1>0 DEF Jobs, Owned
<1>3. job' \in [Thread -> Jobs \X (Socket \cup {NoSocket})] /\ job'[t] = k
      /\ \A u \in Thread : u # t => job'[u] = job[u]
  BY <1>0, <1>1, <1>2
<1> HIDE DEF all
<1>4. /\ sockets' \in [Thread -> SUBSET Socket] /\ todo' \in [Thread -> SUBSET Socket]
      /\ newSockets' \in [Thread -> SUBSET Socket]
      /\ sockets'[t] = all /\ todo'[t] = all /\ newSockets'[t] = {}
      /\ \A u \in Thread : u # t =>
           sockets'[u] = sockets[u] /\ todo'[u] = todo[u] /\ newSockets'[u] = newSockets[u]
  BY <1>0, <1>1, <1>2
<1>5. TypeOK'
  BY <1>0, <1>1, <1>3, <1>4 DEF TypeOK, Jobs, netVars, worldVars
<1>6. HomeInv'
  <2>1. \A u \in Thread : Owned(u)' \subseteq Owned(u)
    BY <1>2, <1>4 DEF Owned
  <2>2. ASSUME NEW u \in Thread
        PROVE  /\ todo'[u] \subseteq sockets'[u]
               /\ job'[u][1] \in {"idle", "read", "onCloseInHandler"} => todo'[u] = {}
               /\ job'[u][1] \in {"idle", "update"} => job'[u][2] = NoSocket
               /\ job'[u][1] \notin {"idle", "update"} => job'[u][2] \in sockets'[u]
    <3>1. CASE u = t
      BY <1>3, <1>4, <3>1
    <3>2. CASE u # t
      BY <1>0, <1>3, <1>4, <3>2 DEF HomeInv
    <3>3. QED
      BY <3>1, <3>2
  <2>3. \A u, v \in Thread : u # v => Owned(u)' \cap Owned(v)' = {}
    BY <1>0, <2>1 DEF HomeInv
  <2>4. \A u \in Thread : \A s \in Owned(u)' : sock'[s].client # "absent"
    BY <1>0, <1>1, <2>1 DEF HomeInv
  <2>5. QED
    BY <2>2, <2>3, <2>4 DEF HomeInv
<1>7. job[t][2] = NoSocket
  BY <1>1 DEF Idle
<1>8. QED
  BY <1>1, <1>5, <1>6, <1>7, BetweenSockets

LEMMA EndThreadInv ==
  ASSUME IInv, NEW t \in Thread, EndThread(t)
  PROVE  IInv'
<1>0. /\ TypeOK /\ HomeInv /\ job \in [Thread -> Jobs \X (Socket \cup {NoSocket})]
      /\ newSockets \in [Thread -> SUBSET Socket] /\ sockets \in [Thread -> SUBSET Socket]
  BY Types DEF IInv
<1>1. /\ job[t] = Idle /\ t \in stopped /\ ended' = ended \cup {t} /\ job' = job
      /\ sockets' = [sockets EXCEPT ![t] = {}] /\ newSockets' = [newSockets EXCEPT ![t] = {}]
      /\ UNCHANGED <<listening, stopped, todo, sock, worldVars>>
  BY DEF EndThread
<1>2. job' = [job EXCEPT ![t] = Idle]
  BY <1>0, <1>1
<1>3. /\ sockets' \in [Thread -> SUBSET Socket] /\ newSockets' \in [Thread -> SUBSET Socket]
      /\ sockets'[t] = {} /\ newSockets'[t] = {}
      /\ \A u \in Thread : u # t => sockets'[u] = sockets[u] /\ newSockets'[u] = newSockets[u]
  BY <1>0, <1>1
<1>4. TypeOK'
  BY <1>0, <1>1, <1>3 DEF TypeOK, worldVars
<1>5. HomeInv'
  <2>1. \A u \in Thread : Owned(u)' \subseteq Owned(u)
    BY <1>3 DEF Owned
  <2>2. ASSUME NEW u \in Thread
        PROVE  /\ todo'[u] \subseteq sockets'[u]
               /\ job'[u][1] \in {"idle", "read", "onCloseInHandler"} => todo'[u] = {}
               /\ job'[u][1] \in {"idle", "update"} => job'[u][2] = NoSocket
               /\ job'[u][1] \notin {"idle", "update"} => job'[u][2] \in sockets'[u]
    <3>1. CASE u = t
      BY <1>0, <1>1, <3>1 DEF HomeInv, Idle
    <3>2. CASE u # t
      BY <1>0, <1>1, <1>3, <3>2 DEF HomeInv
    <3>3. QED
      BY <3>1, <3>2
  <2>3. \A u, v \in Thread : u # v => Owned(u)' \cap Owned(v)' = {}
    BY <1>0, <2>1 DEF HomeInv
  <2>4. \A u \in Thread : \A s \in Owned(u)' : sock'[s].client # "absent"
    BY <1>0, <1>1, <2>1 DEF HomeInv
  <2>5. QED
    BY <2>2, <2>3, <2>4 DEF HomeInv
<1>6. job[t][2] = NoSocket
  BY <1>1 DEF Idle
<1>7. QED
  BY <1>1, <1>2, <1>4, <1>5, <1>6, BetweenSockets

(* The buffers are packed; a closed socket is removed with what it holds.  *)
LEMMA UpdateSocketInv ==
  ASSUME IInv, NEW t \in Thread, NEW s \in Socket, UpdateSocket(t, s)
  PROVE  IInv'
<1> DEFINE x == sock[s]
<1>0. /\ TypeOK /\ HomeInv /\ ReadInv /\ job \in [Thread -> Jobs \X (Socket \cup {NoSocket})]
      /\ todo \in [Thread -> SUBSET Socket] /\ newSockets \in [Thread -> SUBSET Socket]
      /\ sockets \in [Thread -> SUBSET Socket] /\ x \in SocketState /\ s # NoSocket
  BY Types, SocketAssumption DEF IInv
<1>1. /\ job[t] = <<"update", NoSocket>> /\ s \in todo[t] /\ todo' = [todo EXCEPT ![t] = @ \ {s}]
      /\ sockets' = [sockets EXCEPT ![t] = IF x.closed THEN @ \ {s} ELSE @]
      /\ UNCHANGED <<netVars, newSockets, worldVars>>
  BY DEF UpdateSocket
<1>2. PICK buffers \in Packings(x.out) :
        LET z == [x EXCEPT !.out = <<>>, !.queue = @ \o buffers] IN
        IF z.closed
        THEN Change(s, Released(z)) /\ UNCHANGED job
        ELSE /\ Change(s, z)
             /\ IF z.writing \/ (z.queue = <<>> /\ ~z.closing) THEN Do(t, "callbacks", s)
                ELSE Do(t, "write", s)
  BY DEF UpdateSocket
<1> DEFINE z == [x EXCEPT !.out = <<>>, !.queue = @ \o buffers]
<1>3. x.out \in Seq(Nat) /\ x.queue \in Seq(Packets)
  BY <1>0, Fields
<1>4. buffers \in Seq(Packets)
  BY <1>3, PackingsType
<1>5. x.queue \o buffers \in Seq(Packets) /\ <<>> \in Seq(Nat)
  BY <1>3, <1>4
<1>6. z \in SocketState
  BY <1>0, <1>5 DEF SocketState, Packets
<1>7. /\ Like(x, z) /\ z.closed = x.closed /\ z.out = <<>> /\ z.queue = x.queue \o buffers /\ z.wire = x.wire
      /\ z.accepted = x.accepted
  BY <1>0 DEF SocketState, Like
<1>8. SentOf(x) => SentOf(z)
  <2>1. Broken(x) => Broken(z)
    BY <1>7 DEF Like, Broken
  <2>2. QED
    BY <1>0, <1>6, <1>7, <2>1, PackSent
<1>9. /\ z.closed => Change(s, Released(z)) /\ job' = job
      /\ ~z.closed => Change(s, z) /\ \E k \in {<<"callbacks", s>>, <<"write", s>>} : job' = [job EXCEPT ![t] = k]
  BY <1>2 DEF Do
<1> HIDE DEF z
<1>10. \E y \in SocketState, k \in {<<"update", NoSocket>>, <<"callbacks", s>>, <<"write", s>>} :
         /\ Change(s, y) /\ job' = [job EXCEPT ![t] = k]
         /\ y.client = x.client /\ y.phase = x.phase /\ y.closing = x.closing /\ y.pointer = x.pointer
         /\ y.closed = x.closed /\ y.out = <<>> /\ (SentOf(x) => SentOf(y))
         /\ IF x.closed THEN y.reads = 0 /\ k[2] = NoSocket ELSE y.reads = x.reads /\ k[2] = s
  <2>1. CASE ~z.closed
    <3>1. PICK k \in {<<"callbacks", s>>, <<"write", s>>} : job' = [job EXCEPT ![t] = k]
      BY <1>9, <2>1
    <3>2. k[2] = s
      OBVIOUS
    <3>3. Change(s, z) /\ ~x.closed
      BY <1>7, <1>9, <2>1
    <3>4. QED
      BY <1>6, <1>7, <1>8, <3>1, <3>2, <3>3 DEF Like
  <2>2. CASE z.closed
    <3> DEFINE y == Released(z)
               k == <<"update", NoSocket>>
    <3>0. y = [z EXCEPT !.out = <<>>, !.queue = <<>>, !.writes = 0, !.reads = 0]
      BY DEF Released
    <3>1. <<>> \in Seq(Packets) /\ <<>> \in Packets
      BY DEF Packets
    <3>2. y \in SocketState
      <4>1. \A p \in Packets, q \in Seq(Packets) :
              [z EXCEPT !.out = p, !.queue = q, !.writes = 0, !.reads = 0] \in SocketState
        BY <1>6 DEF SocketState
      <4>2. QED
        BY <3>0, <3>1, <4>1
    <3>3. /\ y.client = z.client /\ y.phase = z.phase /\ y.closing = z.closing /\ y.pointer = z.pointer
          /\ y.closed = z.closed /\ y.out = <<>> /\ y.reads = 0 /\ y.wire = z.wire
      BY <1>6, <3>0 DEF SocketState
    <3>4. Change(s, y) /\ job' = job
      BY <1>9, <2>2
    <3> HIDE DEF y
    <3>5. SentOf(z) => SentOf(y)
      BY <2>2, <3>3, SentSame DEF Broken
    <3>6. job' = [job EXCEPT ![t] = k]
      BY <1>0, <1>1, <3>4
    <3>7. k[2] = NoSocket /\ x.closed
      BY <1>7, <2>2
    <3>8. QED
      BY <1>7, <1>8, <3>2, <3>3, <3>4, <3>5, <3>6, <3>7 DEF Like
  <2>3. QED
    BY <2>1, <2>2
<1>11. PICK y \in SocketState, k \in {<<"update", NoSocket>>, <<"callbacks", s>>, <<"write", s>>} :
         /\ Change(s, y) /\ job' = [job EXCEPT ![t] = k]
         /\ y.client = x.client /\ y.phase = x.phase /\ y.closing = x.closing /\ y.pointer = x.pointer
         /\ y.closed = x.closed /\ y.out = <<>> /\ (SentOf(x) => SentOf(y))
         /\ IF x.closed THEN y.reads = 0 /\ k[2] = NoSocket ELSE y.reads = x.reads /\ k[2] = s
  BY <1>10
<1>12. s \in sockets[t]
  BY <1>0, <1>1 DEF HomeInv
<1>13. /\ sock' \in [Socket -> SocketState] /\ sock'[s] = y
       /\ \A u \in Socket : u # s => sock'[u] = sock[u]
  BY <1>0, <1>11, ChangeFacts
<1>14. /\ k[1] \in {"update", "callbacks", "write"} /\ (k[1] = "update" <=> k[2] = NoSocket)
       /\ k[2] \in {s, NoSocket}
  BY <1>0
<1>15. WorkOn(t, s, k)
  BY NextJobs
<1>16. /\ job' \in [Thread -> Jobs \X (Socket \cup {NoSocket})] /\ job'[t] = k
       /\ \A u \in Thread : u # t => job'[u] = job[u]
  BY <1>0, <1>11, <1>15, DoFacts DEF WorkOn
<1>17. /\ sockets' \in [Thread -> SUBSET Socket] /\ todo' \in [Thread -> SUBSET Socket]
       /\ todo'[t] = todo[t] \ {s} /\ sockets'[t] = IF x.closed THEN sockets[t] \ {s} ELSE sockets[t]
       /\ \A u \in Thread : u # t => sockets'[u] = sockets[u] /\ todo'[u] = todo[u]
  BY <1>0, <1>1
<1>18. TypeOK'
  BY <1>0, <1>1, <1>13, <1>16, <1>17 DEF TypeOK, Jobs, netVars, worldVars
<1>19. HomeInv'
  <2>1. \A u \in Thread : Owned(u)' \subseteq Owned(u) /\ Owned(u) \subseteq Socket
    BY <1>0, <1>1, <1>17 DEF Owned
  <2>2. ASSUME NEW u \in Thread
        PROVE  /\ todo'[u] \subseteq sockets'[u]
               /\ job'[u][1] \in {"idle", "read", "onCloseInHandler"} => todo'[u] = {}
               /\ job'[u][1] \in {"idle", "update"} => job'[u][2] = NoSocket
               /\ job'[u][1] \notin {"idle", "update"} => job'[u][2] \in sockets'[u]
    <3>1. CASE u = t
      <4>1. todo[t] \subseteq sockets[t]
        BY <1>0 DEF HomeInv
      <4>2. k[2] = s => s \in sockets'[t]
        BY <1>0, <1>11, <1>12, <1>17
      <4>3. QED
        BY <1>14, <1>16, <1>17, <3>1, <4>1, <4>2
    <3>2. CASE u # t
      BY <1>0, <1>16, <1>17, <3>2 DEF HomeInv
    <3>3. QED
      BY <3>1, <3>2
  <2>3. \A u, v \in Thread : u # v => Owned(u)' \cap Owned(v)' = {}
    BY <1>0, <2>1 DEF HomeInv
  <2>4. \A u \in Thread : \A v \in Owned(u)' : sock'[v].client # "absent"
    BY <1>0, <1>11, <1>13, <2>1 DEF HomeInv
  <2>5. QED
    BY <2>2, <2>3, <2>4 DEF HomeInv
<1>20. LoginInv' /\ LinkInv' /\ PointerInv' /\ SentInv'
  BY <1>1, <1>11, LikeStep DEF worldVars
<1>21. JobInv'
  <2>1. world' = world /\ \A u \in Socket : u # s => (Awaited(u)' => Awaited(u))
    BY <1>1 DEF worldVars, Awaited
  <2>2. k[2] = s => ~y.closed /\ k[1] # "read"
    BY <1>0, <1>11, <1>14
  <2>3. k[1] \notin {"onCloseInHandler", "onCloseInUpdate", "read"}
    BY <1>14
  <2>4. QED
    BY <1>11, <1>12, <1>15, <2>1, <2>2, <2>3, JobStep
<1>22. ReadInv'
  <2>1. \A u \in Socket : Reading(u)' <=> Reading(u)
    <3>1. job[t] # <<"read", s>> /\ k # <<"read", s>> /\ \A u \in Socket : job[t] # <<"read", u>>
      BY <1>1, <1>14
    <3>2. /\ Reading(s)' <=> k = <<"read", s>>
          /\ Reading(s) <=> job[t] = <<"read", s>>
          /\ \A u \in Socket : u # s => (Reading(u)' <=> Reading(u) /\ job[t] # <<"read", u>>)
      BY <1>0, <1>11, <1>12, <1>15, ReadingStep
    <3>3. QED
      BY <3>1, <3>2
  <2>2. ASSUME NEW u \in Socket
        PROVE  /\ sock'[u].reads <= 1 /\ (sock[u].reads = 0 => sock'[u].reads = 0)
               /\ IsOpen(sock'[u]) =>
                    IsOpen(sock[u]) /\ sock'[u].phase = sock[u].phase /\ sock'[u].reads = sock[u].reads
    <3>1. sock[u].reads <= 1
      BY <1>0 DEF ReadInv
    <3>2. CASE u = s
      BY <1>11, <1>13, <3>1, <3>2 DEF IsOpen
    <3>3. CASE u # s
      BY <1>13, <3>1, <3>3
    <3>4. QED
      BY <3>2, <3>3
  <2>3. QED
    BY <1>0, <2>1, <2>2, ReadSame
<1>23. QED
  BY <1>18, <1>19, <1>20, <1>21, <1>22 DEF IInv


-----------------------------------------------------------------------------
(* The acceptor, the clients and the world. *)

(* What holds whatever the world does to the sessions and the links. *)
LEMMA WorldStep ==
  ASSUME IInv, NEW s \in Socket, NEW y \in SocketState, Change(s, y),
         UNCHANGED <<heldVars, todo, job>>,
         y.client = "absent" => sock[s].client = "absent",
         SentOf(sock[s]) => SentOf(y), y.reads = sock[s].reads, y.phase = "ip" => y.out = <<>>,
         IsOpen(y) => IsOpen(sock[s]) /\ y.phase = sock[s].phase
  PROVE  /\ HomeInv' /\ ReadInv' /\ SentInv'
         /\ sock' \in [Socket -> SocketState] /\ sock'[s] = y
         /\ \A u \in Socket : u # s => sock'[u] = sock[u]
<1>0. TypeOK /\ HomeInv /\ ReadInv /\ SentInv
  BY DEF IInv
<1>1. /\ sock' \in [Socket -> SocketState] /\ sock'[s] = y
      /\ \A u \in Socket : u # s => sock'[u] = sock[u]
  BY <1>0, ChangeFacts
<1>2. HomeInv'
  BY <1>0, HomeSame
<1>3. ReadInv'
  <2>1. \A u \in Socket : Reading(u)' <=> Reading(u)
    BY DEF Reading
  <2>2. ASSUME NEW u \in Socket
        PROVE  /\ sock'[u].reads <= 1 /\ (sock[u].reads = 0 => sock'[u].reads = 0)
               /\ IsOpen(sock'[u]) =>
                    IsOpen(sock[u]) /\ sock'[u].phase = sock[u].phase /\ sock'[u].reads = sock[u].reads
    <3>1. sock[u].reads <= 1
      BY <1>0 DEF ReadInv
    <3>2. CASE u = s
      BY <1>1, <3>1, <3>2
    <3>3. CASE u # s
      BY <1>1, <3>1, <3>3
    <3>4. QED
      BY <3>2, <3>3
  <2>3. QED
    BY <1>0, <2>1, <2>2, ReadSame
<1>4. SentInv'
  <2>1. \A u \in Socket : SentOf(sock[u]) /\ (sock[u].phase = "ip" => sock[u].out = <<>>)
    BY <1>0 DEF SentInv
  <2>2. \A u \in Socket : SentOf(sock'[u]) /\ (sock'[u].phase = "ip" => sock'[u].out = <<>>)
    BY <1>1, <2>1
  <2>3. QED
    BY <2>2 DEF SentInv, SentOf, Broken
<1>5. QED
  BY <1>1, <1>2, <1>3, <1>4

(* A step on a socket that changes neither its login nor the world.        *)
LEMMA QuietStep ==
  ASSUME IInv, NEW s \in Socket, NEW y \in SocketState, Change(s, y),
         UNCHANGED <<netVars, todo, job, worldVars>>, HomeInv',
         newSockets' \in [Thread -> SUBSET Socket], sockets' = sockets,
         y.phase = sock[s].phase, y.closing = sock[s].closing, y.pointer = sock[s].pointer,
         y.closed = sock[s].closed, y.reads = sock[s].reads,
         SentOf(sock[s]) => SentOf(y), y.phase = "ip" => y.out = <<>>
  PROVE  IInv'
<1>0. TypeOK /\ JobInv /\ ReadInv
  BY DEF IInv
<1>1. /\ sock' \in [Socket -> SocketState] /\ sock'[s] = y
      /\ \A u \in Socket : u # s => sock'[u] = sock[u]
  BY <1>0, ChangeFacts
<1>2. TypeOK'
  BY <1>0, <1>1 DEF TypeOK, netVars, worldVars
<1>3. LoginInv' /\ LinkInv' /\ PointerInv' /\ SentInv'
  BY LikeStep DEF worldVars
<1>4. \A u \in Socket : /\ sock'[u].phase = sock[u].phase /\ sock'[u].closed = sock[u].closed
                        /\ sock'[u].closing = sock[u].closing
                        /\ sock'[u].pointer = sock[u].pointer /\ sock'[u].reads = sock[u].reads
  BY <1>1
<1>5. JobInv'
  BY <1>0, <1>4 DEF JobInv, Awaited, worldVars
<1>6. ReadInv'
  BY <1>0, <1>4 DEF ReadInv, Reading, IsOpen
<1>7. QED
  BY <1>2, <1>3, <1>5, <1>6 DEF IInv

LEMMA ClientFacts ==
  ASSUME NEW x \in SocketState, NEW c \in {"up", "down"},
         c = "up" => x.client = "absent"
  PROVE  LET y == [x EXCEPT !.client = c] IN
         /\ y \in SocketState /\ y.client = c /\ (SentOf(x) => SentOf(y))
         /\ y.phase = x.phase /\ y.closing = x.closing /\ y.pointer = x.pointer
         /\ y.closed = x.closed /\ y.reads = x.reads /\ y.out = x.out
<1> DEFINE y == [x EXCEPT !.client = c]
<1>1. y \in SocketState
  BY DEF SocketState
<1>2. /\ y.client = c /\ y.phase = x.phase /\ y.closing = x.closing /\ y.pointer = x.pointer
      /\ y.closed = x.closed /\ y.reads = x.reads /\ y.out = x.out
      /\ y.queue = x.queue /\ y.wire = x.wire /\ y.accepted = x.accepted
  BY DEF SocketState
<1> HIDE DEF y
<1>3. SentOf(x) => SentOf(y)
  BY <1>2, SentSame DEF Broken
<1>4. QED
  BY <1>1, <1>2, <1>3 DEF y

LEMMA DisconnectInv ==
  ASSUME IInv, NEW s \in Socket, Disconnect(s)
  PROVE  IInv'
<1> DEFINE x == sock[s]
           y == [x EXCEPT !.client = "down"]
<1>0. /\ TypeOK /\ HomeInv /\ x \in SocketState /\ newSockets \in [Thread -> SUBSET Socket]
  BY Types DEF IInv
<1>1. x.client = "up" /\ Change(s, y) /\ UNCHANGED <<netVars, heldVars, todo, job, worldVars>>
  BY DEF Disconnect
<1>2. /\ y \in SocketState /\ y.client = "down" /\ (SentOf(x) => SentOf(y))
      /\ y.phase = x.phase /\ y.closing = x.closing /\ y.pointer = x.pointer
      /\ y.closed = x.closed /\ y.reads = x.reads /\ y.out = x.out
  BY <1>0, ClientFacts
<1> HIDE DEF y
<1>3. HomeInv'
  BY <1>0, <1>1, <1>2, HomeSame
<1>4. sockets' = sockets /\ newSockets' \in [Thread -> SUBSET Socket]
  BY <1>0, <1>1 DEF heldVars
<1>5. y.phase = "ip" => y.out = <<>>
  BY <1>2 DEF IInv, SentInv
<1>6. QED
  BY <1>1, <1>2, <1>3, <1>4, <1>5, QuietStep

LEMMA AcceptInv ==
  ASSUME IInv, NEW s \in Socket, NEW t \in Thread, Accept(s, t)
  PROVE  IInv'
<1> DEFINE x == sock[s]
           y == [x EXCEPT !.client = "up"]
<1>0. /\ TypeOK /\ HomeInv /\ x \in SocketState /\ newSockets \in [Thread -> SUBSET Socket]
  BY Types DEF IInv
<1>1. /\ x.client = "absent" /\ Change(s, y) /\ newSockets' = [newSockets EXCEPT ![t] = @ \cup {s}]
      /\ UNCHANGED <<netVars, sockets, todo, job, worldVars>>
  BY DEF Accept
<1>2. /\ y \in SocketState /\ y.client = "up" /\ (SentOf(x) => SentOf(y))
      /\ y.phase = x.phase /\ y.closing = x.closing /\ y.pointer = x.pointer
      /\ y.closed = x.closed /\ y.reads = x.reads /\ y.out = x.out
  BY <1>0, <1>1, ClientFacts
<1>3. newSockets' \in [Thread -> SUBSET Socket] /\ newSockets'[t] = newSockets[t] \cup {s}
      /\ \A u \in Thread : u # t => newSockets'[u] = newSockets[u]
  BY <1>0, <1>1
<1>4. sock'[s] = y /\ \A u \in Socket : u # s => sock'[u] = sock[u]
  BY <1>0, <1>1, <1>2, ChangeFacts
<1> HIDE DEF y
<1>5. HomeInv'
  <2>1. \A u \in Thread : s \notin Owned(u)
    BY <1>0, <1>1 DEF HomeInv
  <2>2. Owned(t)' = Owned(t) \cup {s} /\ \A u \in Thread : u # t => Owned(u)' = Owned(u)
    BY <1>1, <1>3 DEF Owned
  <2>3. \A u, v \in Thread : u # v => Owned(u) \cap Owned(v) = {}
    BY <1>0 DEF HomeInv
  <2>4. \A u, v \in Thread : u # v => Owned(u)' \cap Owned(v)' = {}
    <3> SUFFICES ASSUME NEW u \in Thread, NEW v \in Thread, u # v PROVE Owned(u)' \cap Owned(v)' = {}
      OBVIOUS
    <3>1. Owned(u)' \subseteq Owned(u) \cup {s} /\ Owned(v)' \subseteq Owned(v) \cup {s}
      BY <2>2
    <3>2. u = t \/ s \notin Owned(u)'
      BY <2>1, <2>2
    <3>3. v = t \/ s \notin Owned(v)'
      BY <2>1, <2>2
    <3>4. QED
      BY <2>3, <3>1, <3>2, <3>3
  <2>5. \A u \in Thread : Owned(u)' \subseteq Owned(u) \cup {s}
    BY <2>2
  <2>6. \A u \in Thread : \A v \in Owned(u)' : sock'[v].client # "absent"
    <3> SUFFICES ASSUME NEW u \in Thread, NEW v \in Owned(u)' PROVE sock'[v].client # "absent"
      OBVIOUS
    <3>1. CASE v = s
      BY <1>2, <1>4, <3>1
    <3>2. CASE v # s
      <4>1. v \in Owned(u) /\ v \in Socket
        BY <1>0, <2>5, <3>2, Types DEF Owned
      <4>2. QED
        BY <1>0, <1>4, <3>2, <4>1 DEF HomeInv
    <3>3. QED
      BY <3>1, <3>2
  <2>7. QED
    BY <1>0, <1>1, <2>4, <2>6 DEF HomeInv
<1>6. y.phase = "ip" => y.out = <<>>
  BY <1>2 DEF IInv, SentInv
<1>7. QED
  BY <1>1, <1>2, <1>3, <1>5, <1>6, QuietStep

(* A socket the world uses has finished its login. *)
LEMMA UsedFacts ==
  ASSUME IInv, NEW s \in Socket, Uses(s)
  PROVE  /\ sock[s].phase = "play" /\ world = Idle /\ session[SessionOf[s]] = "world" /\ ~Awaited(s)
<1>1. /\ world = Idle /\ session[SessionOf[s]] = "world"
      /\ s \in {SessionOf[s], instance[SessionOf[s]]}
  BY DEF Uses, SocketsOf
<1>2. /\ LoginInv /\ LinkInv /\ sock[s] \in SocketState /\ SessionOf[s] \in Realm /\ s # NoSocket
  BY Types, SocketAssumption DEF IInv
<1>3. CASE s = SessionOf[s]
  <2>1. s \in Realm /\ s \notin Instance
    BY <1>2, <1>3, SocketAssumption
  <2>2. sock[s].phase \in Phases
    BY <1>2, Fields
  <2>3. sock[s].phase \notin {"ip", "hello", "auth", "account", "refused", "rights", "ack"}
    BY <1>1, <1>2, <1>3, <2>1 DEF LoginInv
  <2>4. QED
    BY <1>1, <1>2, <2>1, <2>2, <2>3 DEF Phases, LinkInv
<1>4. CASE s = instance[SessionOf[s]]
  BY <1>1, <1>2, <1>4 DEF LinkInv
<1>5. QED
  BY <1>1, <1>3, <1>4

LEMMA WorldSendInv ==
  ASSUME IInv, NEW s \in Socket, WorldSendPacket(s)
  PROVE  IInv'
<1> DEFINE x == sock[s]
           y == SendPacket(x)
<1>0. /\ TypeOK /\ HomeInv /\ x \in SocketState /\ newSockets \in [Thread -> SUBSET Socket]
  BY Types DEF IInv
<1>1. Uses(s) /\ Change(s, y) /\ UNCHANGED <<netVars, heldVars, todo, job, worldVars>>
  BY DEF WorldSendPacket
<1>2. y \in SocketState /\ Like(x, y) /\ y.closed = x.closed /\ (SentOf(x) => SentOf(y))
  BY <1>0, SendFacts
<1> HIDE DEF y
<1>3. /\ y.client = x.client /\ y.phase = x.phase /\ y.closing = x.closing
      /\ y.pointer = x.pointer /\ y.reads = x.reads
  BY <1>2 DEF Like
<1>4. HomeInv'
  BY <1>0, <1>1, <1>2, <1>3, HomeSame
<1>5. sockets' = sockets /\ newSockets' \in [Thread -> SUBSET Socket]
  BY <1>0, <1>1 DEF heldVars
<1>6. y.phase = "play"
  BY <1>1, <1>3, UsedFacts
<1>7. QED
  BY <1>1, <1>2, <1>3, <1>4, <1>5, <1>6, QuietStep


(* The type invariant, of a step of the world. *)
LEMMA WorldType ==
  ASSUME TypeOK, UNCHANGED <<netVars, heldVars, todo, job>>, sock' \in [Socket -> SocketState],
         session' \in [Realm -> {"none", "made", "world", "deleted"}],
         instance' \in [Realm -> Instance \cup {NoSocket}], links' \subseteq Instance,
         world' \in {"idle", "onClose", "link", "refuse"} \X (Socket \cup {NoSocket})
  PROVE  TypeOK'
BY DEF TypeOK, netVars, heldVars

LEMMA CloseSocketInv ==
  ASSUME IInv, NEW s \in Socket, CloseSocket(s)
  PROVE  IInv'
<1> DEFINE x == sock[s]
           y == [x EXCEPT !.closed = TRUE]
<1>0. /\ TypeOK /\ LoginInv /\ LinkInv /\ PointerInv /\ JobInv /\ x \in SocketState /\ SessionOf[s] \in Realm
  BY Types DEF IInv
<1>1. /\ Uses(s) /\ Change(s, y) /\ world' = <<"onClose", s>>
      /\ UNCHANGED <<netVars, heldVars, job, todo, session, instance, links>>
  BY DEF CloseSocket
<1>2. /\ y \in SocketState /\ Like(x, y) /\ y.closed /\ y.out = x.out /\ (SentOf(x) => SentOf(y))
  BY <1>0, ClosedFacts
<1> HIDE DEF y
<1>3. /\ y.client = x.client /\ y.phase = x.phase /\ y.closing = x.closing /\ y.pointer = x.pointer
      /\ y.reads = x.reads
  BY <1>2 DEF Like
<1>4. x.phase = "play" /\ world = Idle /\ session[SessionOf[s]] = "world" /\ ~Awaited(s)
  BY <1>1, UsedFacts
<1>5. (y.phase = "ip" => y.out = <<>>) /\ ~IsOpen(y)
  BY <1>2, <1>3, <1>4 DEF IsOpen
<1>6. /\ HomeInv' /\ ReadInv' /\ SentInv' /\ sock' \in [Socket -> SocketState] /\ sock'[s] = y
      /\ \A u \in Socket : u # s => sock'[u] = sock[u]
  BY <1>1, <1>2, <1>3, <1>5, WorldStep
<1>7. world' \in {"idle", "onClose", "link", "refuse"} \X (Socket \cup {NoSocket})
  BY <1>1
<1>8. TypeOK'
  BY <1>0, <1>1, <1>6, <1>7, Types, WorldType
<1>9. \A u \in Socket : (Awaited(u)' <=> Awaited(u)) /\ world # <<"onClose", u>>
  BY <1>1, <1>4 DEF Awaited, Idle
<1>10. \A u \in Socket : /\ sock'[u].phase = sock[u].phase /\ sock'[u].closing = sock[u].closing
                         /\ sock'[u].pointer = sock[u].pointer /\ (sock[u].closed => sock'[u].closed)
  BY <1>2, <1>3, <1>6
<1>11. Realm \subseteq Socket /\ Instance \subseteq Socket /\ s # NoSocket
  BY SocketAssumption DEF Socket
<1>12. LoginInv'
  BY <1>0, <1>1, <1>10, <1>11 DEF LoginInv
<1>13. LinkInv'
  <2>1. \A u \in Socket : Awaited(u)' =>
          u \in Instance /\ sock'[u].phase = "play" /\ ~sock'[u].pointer /\ instance'[SessionOf[u]] # u
    BY <1>0, <1>1, <1>9, <1>10 DEF LinkInv
  <2>2. \A i \in links' : world'[2] # i
    BY <1>1, <1>4 DEF Awaited
  <2>3. \A r \in Realm : instance'[r] # NoSocket =>
          SessionOf[instance'[r]] = r /\ session'[r] = "world" /\ sock'[instance'[r]].phase = "play"
    <3>1. \A r \in Realm : instance[r] # NoSocket => instance[r] \in Socket
      BY <1>0, <1>11, Types
    <3>2. QED
      BY <1>0, <1>1, <1>10, <3>1 DEF LinkInv
  <2>4. /\ world'[1] = "idle" <=> world'[2] = NoSocket
        /\ world'[1] = "onClose" => session'[SessionOf[world'[2]]] = "world" /\ sock'[world'[2]].phase = "play"
    BY <1>1, <1>4, <1>10, <1>11
  <2>5. QED
    BY <2>1, <2>2, <2>3, <2>4 DEF LinkInv
<1>14. PointerInv'
  BY <1>0, <1>1, <1>10, <1>11 DEF PointerInv
<1>15. JobInv'
  <2>1. ASSUME NEW t \in Thread, NEW u \in Socket, job'[t][2] = u
        PROVE  /\ sock'[u].closed /\ sock'[u].phase \notin {"play", "refused"} => job'[t][1] = "onCloseInHandler"
               /\ job'[t][1] \in {"onCloseInHandler", "onCloseInUpdate"} => sock'[u].closed
               /\ job'[t][1] = "read" /\ sock'[u].closed =>
                    ~Awaited(u)' /\ (sock'[u].pointer => world' = <<"onClose", u>>)
    <3>1. CASE u = s
      BY <1>1, <1>2, <1>3, <1>4, <1>6, <1>9, <3>1
    <3>2. CASE u # s
      BY <1>0, <1>1, <1>6, <1>9, <2>1, <3>2 DEF JobInv
    <3>3. QED
      BY <3>1, <3>2
  <2>2. QED
    BY <2>1 DEF JobInv
<1>16. QED
  BY <1>6, <1>8, <1>12, <1>13, <1>14, <1>15 DEF IInv

LEMMA WorldOnCloseInv ==
  ASSUME IInv, NEW s \in Socket, WorldOnClose(s)
  PROVE  IInv'
<1> DEFINE x == sock[s]
           y == [x EXCEPT !.pointer = FALSE]
<1>0. /\ TypeOK /\ LoginInv /\ LinkInv /\ PointerInv /\ JobInv /\ x \in SocketState /\ SessionOf[s] \in Realm
  BY Types DEF IInv
<1>1. /\ world = <<"onClose", s>> /\ Change(s, y) /\ world' = Idle
      /\ UNCHANGED <<netVars, heldVars, job, todo, session, instance, links>>
  BY DEF WorldOnClose
<1>2. y \in SocketState
  BY <1>0 DEF SocketState
<1>3. /\ y.client = x.client /\ y.phase = x.phase /\ y.closing = x.closing /\ ~y.pointer
      /\ y.closed = x.closed /\ y.reads = x.reads /\ y.out = x.out
      /\ y.queue = x.queue /\ y.wire = x.wire /\ y.accepted = x.accepted
  BY <1>0 DEF SocketState
<1> HIDE DEF y
<1>4. x.phase = "play"
  BY <1>0, <1>1 DEF LinkInv
<1>5. (SentOf(x) => SentOf(y)) /\ (y.phase = "ip" => y.out = <<>>) /\ (IsOpen(y) => IsOpen(x))
  BY <1>3, <1>4, SentSame DEF Broken, IsOpen
<1>6. /\ HomeInv' /\ ReadInv' /\ SentInv' /\ sock' \in [Socket -> SocketState] /\ sock'[s] = y
      /\ \A u \in Socket : u # s => sock'[u] = sock[u]
  BY <1>1, <1>2, <1>3, <1>5, WorldStep
<1>7. world' \in {"idle", "onClose", "link", "refuse"} \X (Socket \cup {NoSocket})
  BY <1>1 DEF Idle
<1>8. TypeOK'
  BY <1>0, <1>1, <1>6, <1>7, Types, WorldType
<1>9. \A u \in Socket : (Awaited(u)' <=> Awaited(u)) /\ (world = <<"onClose", u>> => u = s)
  BY <1>1 DEF Awaited, Idle
<1>10. \A u \in Socket : /\ sock'[u].phase = sock[u].phase /\ sock'[u].closing = sock[u].closing
                         /\ (sock'[u].pointer => sock[u].pointer) /\ (sock[u].closed <=> sock'[u].closed)
  BY <1>3, <1>6
<1>11. Realm \subseteq Socket /\ Instance \subseteq Socket /\ s # NoSocket
  BY SocketAssumption DEF Socket
<1>12. LoginInv'
  BY <1>0, <1>1, <1>10, <1>11 DEF LoginInv
<1>13. LinkInv'
  <2>1. \A u \in Socket : Awaited(u)' =>
          u \in Instance /\ sock'[u].phase = "play" /\ ~sock'[u].pointer /\ instance'[SessionOf[u]] # u
    BY <1>0, <1>1, <1>9, <1>10 DEF LinkInv
  <2>2. \A i \in links' : world'[2] # i
    BY <1>0, <1>1, SocketAssumption, Types DEF Idle, Socket
  <2>3. \A r \in Realm : instance'[r] # NoSocket =>
          SessionOf[instance'[r]] = r /\ session'[r] = "world" /\ sock'[instance'[r]].phase = "play"
    <3>1. \A r \in Realm : instance[r] # NoSocket => instance[r] \in Socket
      BY <1>0, <1>11, Types
    <3>2. QED
      BY <1>0, <1>1, <1>10, <3>1 DEF LinkInv
  <2>4. world'[1] = "idle" /\ world'[2] = NoSocket
    BY <1>1 DEF Idle
  <2>5. QED
    BY <2>1, <2>2, <2>3, <2>4 DEF LinkInv
<1>14. PointerInv'
  <2>1. \A r \in Realm : sock'[r].phase \in {"rights", "ack"} /\ ~sock'[r].pointer => sock'[r].closed
    BY <1>0, <1>3, <1>4, <1>6, <1>11 DEF PointerInv
  <2>2. QED
    BY <1>0, <1>1, <1>10, <1>11, <2>1 DEF PointerInv
<1>15. JobInv'
  <2>1. ASSUME NEW t \in Thread, NEW u \in Socket, job'[t][2] = u
        PROVE  /\ sock'[u].closed /\ sock'[u].phase \notin {"play", "refused"} => job'[t][1] = "onCloseInHandler"
               /\ job'[t][1] \in {"onCloseInHandler", "onCloseInUpdate"} => sock'[u].closed
               /\ job'[t][1] = "read" /\ sock'[u].closed =>
                    ~Awaited(u)' /\ (sock'[u].pointer => world' = <<"onClose", u>>)
    <3>1. CASE u = s
      BY <1>0, <1>1, <1>3, <1>6, <1>9, <2>1, <3>1 DEF JobInv
    <3>2. CASE u # s
      BY <1>0, <1>1, <1>6, <1>9, <2>1, <3>2 DEF JobInv
    <3>3. QED
      BY <3>1, <3>2
  <2>2. QED
    BY <2>1 DEF JobInv
<1>16. QED
  BY <1>6, <1>8, <1>12, <1>13, <1>14, <1>15 DEF IInv

(* Steps of the world that touch no socket. *)
LEMMA SocketsSame ==
  ASSUME IInv, UNCHANGED <<heldVars, todo, job, sock>>
  PROVE  HomeInv' /\ ReadInv' /\ SentInv'
<1>1. HomeInv'
  BY DEF IInv, HomeInv, Owned, heldVars
<1>2. ReadInv'
  BY DEF IInv, ReadInv, Reading, IsOpen
<1>3. SentInv'
  BY DEF IInv, SentInv, SentOf, Broken
<1>4. QED
  BY <1>1, <1>2, <1>3

(* A session ends or drops its instance socket. *)
LEMMA DropInv ==
  ASSUME IInv, NEW r \in Realm, world = Idle,
         instance' = [instance EXCEPT ![r] = NoSocket],
         instance[r] # NoSocket => sock[instance[r]].closed,
         \/ session' = session
         \/ session[r] = "world" /\ session' = [session EXCEPT ![r] = "deleted"] /\ sock[r].closed,
         UNCHANGED <<netVars, heldVars, job, todo, sock, links, world>>
  PROVE  IInv'
<1>0. /\ TypeOK /\ LoginInv /\ LinkInv /\ PointerInv /\ JobInv
      /\ session \in [Realm -> {"none", "made", "world", "deleted"}]
      /\ instance \in [Realm -> Instance \cup {NoSocket}]
  BY Types DEF IInv
<1>1. Realm \subseteq Socket /\ Instance \subseteq Socket /\ NoSocket \notin Socket
      /\ \A u \in Socket : SessionOf[u] \in Realm
  BY SocketAssumption DEF Socket
<1>2. /\ instance' \in [Realm -> Instance \cup {NoSocket}] /\ instance'[r] = NoSocket
      /\ \A p \in Realm : p # r => instance'[p] = instance[p]
  BY <1>0
<1>3. /\ session' \in [Realm -> {"none", "made", "world", "deleted"}]
      /\ \A p \in Realm : p # r => session'[p] = session[p]
      /\ session'[r] = session[r] \/ (session[r] = "world" /\ session'[r] = "deleted" /\ sock[r].closed)
  BY <1>0
<1>4. HomeInv' /\ ReadInv' /\ SentInv'
  BY SocketsSame
<1>5. TypeOK'
  BY <1>0, <1>2, <1>3, Types, WorldType
<1>6. LoginInv'
  <2>1. \A p \in Realm : /\ session'[p] = "none" <=> session[p] = "none"
                         /\ session'[p] = "made" <=> session[p] = "made"
    BY <1>3
  <2>2. QED
    BY <1>0, <2>1 DEF LoginInv
<1>7. \A u \in Socket : Awaited(u)' <=> Awaited(u)
  BY DEF Awaited
<1>8. LinkInv'
  <2>1. \A u \in Socket : Awaited(u)' =>
          u \in Instance /\ sock'[u].phase = "play" /\ ~sock'[u].pointer /\ instance'[SessionOf[u]] # u
    BY <1>0, <1>1, <1>2, <1>7 DEF LinkInv
  <2>2. \A p \in Realm : instance'[p] # NoSocket =>
          SessionOf[instance'[p]] = p /\ session'[p] = "world" /\ sock'[instance'[p]].phase = "play"
    BY <1>0, <1>2, <1>3 DEF LinkInv
  <2>3. world'[1] = "idle" /\ world'[2] = NoSocket
    BY DEF Idle
  <2>4. \A i \in links' : world'[2] # i
    BY <1>0 DEF LinkInv
  <2>5. QED
    BY <2>1, <2>2, <2>3, <2>4 DEF LinkInv
<1>9. PointerInv'
  <2>1. ASSUME NEW u \in Socket, sock'[u].pointer
        PROVE  /\ sock'[u].phase \in {"rights", "ack", "play"}
               /\ \/ session'[SessionOf[u]] \in {"made", "world"}
                  \/ sock'[u].closed /\ session'[SessionOf[u]] = "deleted"
               /\ u \in Instance => sock'[u].phase = "play" /\ (sock'[u].closed \/ instance'[SessionOf[u]] = u)
    <3>1. /\ sock[u].phase \in {"rights", "ack", "play"}
          /\ session[SessionOf[u]] \in {"made", "world"} \/ (sock[u].closed /\ session[SessionOf[u]] = "deleted")
          /\ u \in Instance => sock[u].phase = "play" /\ (sock[u].closed \/ instance[SessionOf[u]] = u)
      BY <1>0, <2>1 DEF PointerInv
    <3>2. CASE SessionOf[u] # r
      BY <1>1, <1>2, <1>3, <3>1, <3>2
    <3>3. CASE SessionOf[u] = r
      <4>1. u \in Instance => sock[u].closed
        BY <1>1, <3>1, <3>3
      <4>2. u \in Realm => u = r
        BY <3>3, SocketAssumption
      <4>3. u \in Realm \/ u \in Instance
        BY DEF Socket
      <4>4. QED
        BY <1>3, <3>1, <3>3, <4>1, <4>2, <4>3
    <3>4. QED
      BY <3>2, <3>3
  <2>2. \A p \in Realm : sock'[p].phase \in {"rights", "ack"} /\ ~sock'[p].pointer => sock'[p].closed
    BY <1>0 DEF PointerInv
  <2>3. QED
    BY <2>1, <2>2 DEF PointerInv
<1>10. JobInv'
  BY <1>0, <1>7 DEF JobInv
<1>11. QED
  BY <1>4, <1>5, <1>6, <1>8, <1>9, <1>10 DEF IInv

LEMMA LogoutInv ==
  ASSUME IInv, NEW r \in Realm, LogoutPlayer(r)
  PROVE  IInv'
BY DropInv DEF LogoutPlayer

LEMMA DeleteSessionInv ==
  ASSUME IInv, NEW r \in Realm, DeleteSession(r)
  PROVE  IInv'
<1>1. /\ world = Idle /\ session[r] = "world" /\ session' = [session EXCEPT ![r] = "deleted"]
      /\ instance' = [instance EXCEPT ![r] = NoSocket]
      /\ UNCHANGED <<netVars, heldVars, job, todo, sock, links, world>>
  BY DEF DeleteSession
<1>2. r # NoSocket
  BY SocketAssumption DEF Socket
<1>3. sock[r].closed /\ (instance[r] # NoSocket => sock[instance[r]].closed)
  BY <1>2 DEF DeleteSession, SocketsOf
<1>4. QED
  BY <1>1, <1>3, DropInv


LEMMA TakeLinkInv ==
  ASSUME IInv, NEW i \in Instance, TakeLink(i)
  PROVE  IInv'
<1>0. TypeOK /\ LoginInv /\ LinkInv /\ PointerInv /\ JobInv /\ i \in Socket /\ i # NoSocket
  BY SocketAssumption DEF IInv, Socket
<1>1. /\ world = Idle /\ i \in links /\ links' = links \ {i} /\ world' \in {<<"link", i>>, Idle}
      /\ UNCHANGED <<netVars, heldVars, job, todo, sock, session, instance>>
  BY DEF TakeLink
<1>2. HomeInv' /\ ReadInv' /\ SentInv'
  BY <1>1, SocketsSame
<1>3. world' \in {"idle", "onClose", "link", "refuse"} \X (Socket \cup {NoSocket})
  BY <1>0, <1>1 DEF Idle
<1>4. TypeOK'
  BY <1>0, <1>1, <1>3, Types, WorldType
<1>5. \A u \in Socket : Awaited(u)' => Awaited(u)
  BY <1>1 DEF Awaited, Idle
<1>6. LoginInv'
  BY <1>0, <1>1 DEF LoginInv
<1>7. LinkInv'
  <2>1. \A u \in Socket : Awaited(u)' =>
          u \in Instance /\ sock'[u].phase = "play" /\ ~sock'[u].pointer /\ instance'[SessionOf[u]] # u
    BY <1>0, <1>1, <1>5 DEF LinkInv
  <2>2. \A r \in Realm : instance'[r] # NoSocket =>
          SessionOf[instance'[r]] = r /\ session'[r] = "world" /\ sock'[instance'[r]].phase = "play"
    BY <1>0, <1>1 DEF LinkInv
  <2>3. (world'[1] = "idle" <=> world'[2] = NoSocket) /\ world'[1] # "onClose" /\ world'[2] \in {i, NoSocket}
    BY <1>0, <1>1 DEF Idle
  <2>4. \A j \in links' : j # i /\ j # NoSocket
    BY <1>0, <1>1, Types, SocketAssumption DEF Socket
  <2>5. QED
    BY <2>1, <2>2, <2>3, <2>4 DEF LinkInv
<1>8. PointerInv'
  BY <1>0, <1>1 DEF PointerInv
<1>9. JobInv'
  <2>1. \A u \in Socket : world # <<"onClose", u>>
    BY <1>1 DEF Idle
  <2>2. QED
    BY <1>0, <1>1, <1>5, <2>1 DEF JobInv
<1>10. QED
  BY <1>2, <1>4, <1>6, <1>7, <1>8, <1>9 DEF IInv

LEMMA SetWorldSessionInv ==
  ASSUME IInv, NEW i \in Instance, SetWorldSession(i)
  PROVE  IInv'
<1> DEFINE x == sock[i]
           y == [x EXCEPT !.pointer = TRUE]
           r == SessionOf[i]
<1>0. /\ TypeOK /\ LoginInv /\ LinkInv /\ PointerInv /\ JobInv /\ i \in Socket /\ i # NoSocket
      /\ x \in SocketState /\ r \in Realm /\ instance \in [Realm -> Instance \cup {NoSocket}]
  BY Types, SocketAssumption DEF IInv, Socket
<1>1. /\ world = <<"link", i>> /\ session[r] = "world" /\ instance[r] = NoSocket
      /\ Change(i, y) /\ instance' = [instance EXCEPT ![r] = i] /\ world' = Idle
      /\ UNCHANGED <<netVars, heldVars, job, todo, session, links>>
  BY DEF SetWorldSession
<1>2. y \in SocketState
  BY <1>0 DEF SocketState
<1>3. /\ y.client = x.client /\ y.phase = x.phase /\ y.closing = x.closing /\ y.pointer
      /\ y.closed = x.closed /\ y.reads = x.reads /\ y.out = x.out
      /\ y.queue = x.queue /\ y.wire = x.wire /\ y.accepted = x.accepted
  BY <1>0 DEF SocketState
<1> HIDE DEF y
<1>4. Awaited(i) /\ x.phase = "play"
  BY <1>0, <1>1 DEF LinkInv, Awaited
<1>5. (SentOf(x) => SentOf(y)) /\ (y.phase = "ip" => y.out = <<>>) /\ (IsOpen(y) => IsOpen(x))
  BY <1>3, <1>4, SentSame DEF Broken, IsOpen
<1>6. /\ HomeInv' /\ ReadInv' /\ SentInv' /\ sock' \in [Socket -> SocketState] /\ sock'[i] = y
      /\ \A u \in Socket : u # i => sock'[u] = sock[u]
  BY <1>0, <1>1, <1>2, <1>3, <1>5, WorldStep
<1>7. instance' \in [Realm -> Instance \cup {NoSocket}] /\ instance'[r] = i
      /\ \A p \in Realm : p # r => instance'[p] = instance[p]
  BY <1>0, <1>1
<1>8. TypeOK'
  <2>1. world' \in {"idle", "onClose", "link", "refuse"} \X (Socket \cup {NoSocket})
    BY <1>1 DEF Idle
  <2>2. QED
    BY <1>0, <1>1, <1>6, <1>7, <2>1, Types, WorldType
<1>9. \A u \in Socket : (Awaited(u)' => Awaited(u) /\ u # i) /\ world # <<"onClose", u>>
  <2>1. i \notin links
    BY <1>0, <1>1 DEF LinkInv
  <2>2. QED
    BY <1>1, <2>1 DEF Awaited, Idle
<1>10. \A u \in Socket : /\ sock'[u].phase = sock[u].phase /\ sock'[u].closing = sock[u].closing
                         /\ (sock[u].closed <=> sock'[u].closed) /\ (sock[u].pointer => sock'[u].pointer)
                         /\ (u # i => sock'[u].pointer = sock[u].pointer)
  BY <1>3, <1>6
<1>11. Realm \subseteq Socket /\ Instance \subseteq Socket /\ NoSocket \notin Socket /\ Realm \cap Instance = {}
  BY SocketAssumption DEF Socket
<1>12. LoginInv'
  BY <1>0, <1>1, <1>10, <1>11 DEF LoginInv
<1>13. LinkInv'
  <2>1. ASSUME NEW u \in Socket, Awaited(u)'
        PROVE  u \in Instance /\ sock'[u].phase = "play" /\ ~sock'[u].pointer /\ instance'[SessionOf[u]] # u
    <3>1. Awaited(u) /\ u # i
      BY <1>9, <2>1
    <3>2. u \in Instance /\ sock[u].phase = "play" /\ ~sock[u].pointer /\ instance[SessionOf[u]] # u
      BY <1>0, <3>1 DEF LinkInv
    <3>3. instance'[SessionOf[u]] # u
      BY <1>7, <3>1, <3>2, Types, <1>0
    <3>4. QED
      BY <1>10, <3>1, <3>2, <3>3
  <2>2. \A p \in Realm : instance'[p] # NoSocket =>
          SessionOf[instance'[p]] = p /\ session'[p] = "world" /\ sock'[instance'[p]].phase = "play"
    <3> SUFFICES ASSUME NEW p \in Realm, instance'[p] # NoSocket
                 PROVE SessionOf[instance'[p]] = p /\ session'[p] = "world" /\ sock'[instance'[p]].phase = "play"
      OBVIOUS
    <3>1. CASE p = r
      BY <1>1, <1>3, <1>4, <1>6, <1>7, <3>1
    <3>2. CASE p # r
      <4>1. instance[p] # NoSocket /\ instance[p] \in Socket /\ instance'[p] = instance[p]
        BY <1>0, <1>7, <1>11, <3>2
      <4>2. SessionOf[instance[p]] = p /\ session[p] = "world" /\ sock[instance[p]].phase = "play"
        BY <1>0, <4>1 DEF LinkInv
      <4>3. QED
        BY <1>1, <1>10, <4>1, <4>2
    <3>3. QED
      BY <3>1, <3>2
  <2>3. world'[1] = "idle" /\ world'[2] = NoSocket
    BY <1>1 DEF Idle
  <2>4. \A j \in links' : world'[2] # j
    BY <1>0, <1>1, <1>11, <2>3, Types
  <2>5. QED
    BY <2>1, <2>2, <2>3, <2>4 DEF LinkInv
<1>14. PointerInv'
  <2>1. ASSUME NEW u \in Socket, sock'[u].pointer
        PROVE  /\ sock'[u].phase \in {"rights", "ack", "play"}
               /\ \/ session'[SessionOf[u]] \in {"made", "world"}
                  \/ sock'[u].closed /\ session'[SessionOf[u]] = "deleted"
               /\ u \in Instance => sock'[u].phase = "play" /\ (sock'[u].closed \/ instance'[SessionOf[u]] = u)
    <3>1. CASE u = i
      BY <1>1, <1>3, <1>4, <1>6, <1>7, <3>1
    <3>2. CASE u # i
      <4>1. /\ sock[u].phase \in {"rights", "ack", "play"}
            /\ session[SessionOf[u]] \in {"made", "world"} \/ (sock[u].closed /\ session[SessionOf[u]] = "deleted")
            /\ u \in Instance => sock[u].phase = "play" /\ (sock[u].closed \/ instance[SessionOf[u]] = u)
        BY <1>0, <1>10, <2>1, <3>2 DEF PointerInv
      <4>2. u \in Instance /\ instance[SessionOf[u]] = u => instance'[SessionOf[u]] = u
        BY <1>0, <1>1, <1>7, <1>11, Types
      <4>3. QED
        BY <1>1, <1>6, <3>2, <4>1, <4>2
    <3>3. QED
      BY <3>1, <3>2
  <2>2. \A p \in Realm : sock'[p].phase \in {"rights", "ack"} /\ ~sock'[p].pointer => sock'[p].closed
    BY <1>0, <1>6, <1>11 DEF PointerInv
  <2>3. QED
    BY <2>1, <2>2 DEF PointerInv
<1>15. JobInv'
  <2>1. ASSUME NEW t \in Thread, NEW u \in Socket, job'[t][2] = u
        PROVE  /\ sock'[u].closed /\ sock'[u].phase \notin {"play", "refused"} => job'[t][1] = "onCloseInHandler"
               /\ job'[t][1] \in {"onCloseInHandler", "onCloseInUpdate"} => sock'[u].closed
               /\ job'[t][1] = "read" /\ sock'[u].closed =>
                    ~Awaited(u)' /\ (sock'[u].pointer => world' = <<"onClose", u>>)
    <3>1. CASE u = i
      BY <1>0, <1>1, <1>3, <1>4, <1>6, <2>1, <3>1 DEF JobInv
    <3>2. CASE u # i
      BY <1>0, <1>1, <1>6, <1>9, <2>1, <3>2 DEF JobInv
    <3>3. QED
      BY <3>1, <3>2
  <2>2. QED
    BY <2>1 DEF JobInv
<1>16. QED
  BY <1>6, <1>8, <1>12, <1>13, <1>14, <1>15 DEF IInv

LEMMA RefuseLinkInv ==
  ASSUME IInv, NEW i \in Instance, RefuseLink(i)
  PROVE  IInv'
<1> DEFINE x == sock[i]
<1>0. /\ TypeOK /\ LoginInv /\ LinkInv /\ PointerInv /\ JobInv /\ i \in Socket /\ i # NoSocket
      /\ x \in SocketState /\ i \notin Realm
  BY Types, SocketAssumption DEF IInv, Socket
<1>1. /\ world \in {<<"link", i>>, <<"refuse", i>>}
      /\ UNCHANGED <<netVars, heldVars, job, todo, session, instance, links>>
  BY DEF RefuseLink
<1>2. Awaited(i) /\ x.phase = "play" /\ ~x.pointer /\ instance[SessionOf[i]] # i /\ i \notin links
  BY <1>0, <1>1 DEF LinkInv, Awaited
<1>3. PICK y \in SocketState :
        /\ Change(i, y) /\ y.client = x.client /\ y.closed = x.closed /\ ~y.pointer /\ y.reads = x.reads
        /\ (SentOf(x) => SentOf(y))
        /\ \/ y.phase = "play" /\ y.closing = x.closing /\ world' = <<"refuse", i>>
           \/ y.phase = "refused" /\ y.closing /\ world' = Idle
  <2>1. CASE Change(i, SendPacket(x)) /\ world' = <<"refuse", i>>
    BY <1>0, <1>2, <2>1, SendFacts DEF Like
  <2>2. CASE Change(i, DelayedCloseSocket(x)) /\ world' = Idle
    BY <1>0, <1>2, <2>2, DelayedFacts
  <2>3. QED
    BY <2>1, <2>2 DEF RefuseLink
<1>4. /\ y.phase # "ip" /\ (y.closing <=> y.phase = "refused")
      /\ IsOpen(y) => IsOpen(x) /\ y.phase = x.phase
  BY <1>0, <1>2, <1>3 DEF LoginInv, IsOpen
<1>5. /\ HomeInv' /\ ReadInv' /\ SentInv' /\ sock' \in [Socket -> SocketState] /\ sock'[i] = y
      /\ \A u \in Socket : u # i => sock'[u] = sock[u]
  BY <1>0, <1>1, <1>3, <1>4, WorldStep
<1>6. TypeOK'
  <2>1. world' \in {"idle", "onClose", "link", "refuse"} \X (Socket \cup {NoSocket})
    BY <1>0, <1>3 DEF Idle
  <2>2. QED
    BY <1>0, <1>1, <1>5, <2>1, Types, WorldType
<1>7. \A u \in Socket : /\ Awaited(u)' => Awaited(u) /\ (u = i => y.phase = "play")
                        /\ world # <<"onClose", u>>
  BY <1>1, <1>2, <1>3 DEF Awaited, Idle
<1>8. Realm \subseteq Socket /\ Instance \subseteq Socket /\ NoSocket \notin Socket
  BY SocketAssumption DEF Socket
<1>9. LoginInv'
  <2>1. \A u \in Socket : sock'[u].closing <=> sock'[u].phase = "refused"
    BY <1>0, <1>4, <1>5 DEF LoginInv
  <2>2. \A r \in Realm : sock'[r] = sock[r]
    BY <1>0, <1>5, <1>8
  <2>3. \A j \in Instance : sock'[j].phase # "rights"
    BY <1>0, <1>3, <1>5, <1>8 DEF LoginInv
  <2>4. QED
    BY <1>0, <1>1, <2>1, <2>2, <2>3 DEF LoginInv
<1>10. LinkInv'
  <2>1. ASSUME NEW u \in Socket, Awaited(u)'
        PROVE  u \in Instance /\ sock'[u].phase = "play" /\ ~sock'[u].pointer /\ instance'[SessionOf[u]] # u
    <3>1. Awaited(u) /\ (u = i => y.phase = "play")
      BY <1>7, <2>1
    <3>2. u \in Instance /\ sock[u].phase = "play" /\ ~sock[u].pointer /\ instance[SessionOf[u]] # u
      BY <1>0, <3>1 DEF LinkInv
    <3>3. QED
      BY <1>1, <1>3, <1>5, <3>1, <3>2
  <2>2. \A p \in Realm : instance'[p] # NoSocket =>
          SessionOf[instance'[p]] = p /\ session'[p] = "world" /\ sock'[instance'[p]].phase = "play"
    <3> SUFFICES ASSUME NEW p \in Realm, instance[p] # NoSocket
                 PROVE SessionOf[instance[p]] = p /\ session[p] = "world" /\ sock'[instance[p]].phase = "play"
      BY <1>1
    <3>1. SessionOf[instance[p]] = p /\ session[p] = "world" /\ sock[instance[p]].phase = "play"
      BY <1>0 DEF LinkInv
    <3>2. instance[p] # i
      BY <1>2, <3>1
    <3>3. instance[p] \in Socket
      BY <1>0, <1>8, Types
    <3>4. QED
      BY <1>5, <3>1, <3>2, <3>3
  <2>3. (world'[1] = "idle" <=> world'[2] = NoSocket) /\ world'[1] # "onClose" /\ world'[2] \in {i, NoSocket}
    BY <1>0, <1>3 DEF Idle
  <2>4. \A j \in links' : world'[2] # j
    <3>1. \A j \in links : j # i /\ j # NoSocket
      BY <1>0, <1>2, <1>8, Types
    <3>2. QED
      BY <1>1, <2>3, <3>1
  <2>5. QED
    BY <2>1, <2>2, <2>3, <2>4 DEF LinkInv
<1>11. PointerInv'
  <2>1. ASSUME NEW u \in Socket, sock'[u].pointer
        PROVE  sock'[u] = sock[u]
    BY <1>3, <1>5, <2>1
  <2>2. \A p \in Realm : sock'[p] = sock[p]
    BY <1>0, <1>5, <1>8
  <2>3. QED
    BY <1>0, <1>1, <2>1, <2>2 DEF PointerInv
<1>12. JobInv'
  <2>1. ASSUME NEW t \in Thread, NEW u \in Socket, job'[t][2] = u
        PROVE  /\ sock'[u].closed /\ sock'[u].phase \notin {"play", "refused"} => job'[t][1] = "onCloseInHandler"
               /\ job'[t][1] \in {"onCloseInHandler", "onCloseInUpdate"} => sock'[u].closed
               /\ job'[t][1] = "read" /\ sock'[u].closed =>
                    ~Awaited(u)' /\ (sock'[u].pointer => world' = <<"onClose", u>>)
    <3>1. CASE u = i
      BY <1>0, <1>1, <1>2, <1>3, <1>5, <2>1, <3>1 DEF JobInv
    <3>2. CASE u # i
      BY <1>0, <1>1, <1>5, <1>7, <2>1, <3>2 DEF JobInv
    <3>3. QED
      BY <3>1, <3>2
  <2>2. QED
    BY <2>1 DEF JobInv
<1>13. QED
  BY <1>5, <1>6, <1>9, <1>10, <1>11, <1>12 DEF IInv

(* Steps of the shutdown. *)
LEMMA ShutdownInv ==
  ASSUME IInv, UNCHANGED <<ended, heldVars, job, todo, sock, worldVars>>,
         listening' \in BOOLEAN, stopped' \subseteq Thread, stopped \subseteq stopped'
  PROVE  IInv'
<1>1. HomeInv' /\ ReadInv' /\ SentInv'
  BY SocketsSame
<1>2. LoginInv' /\ LinkInv' /\ PointerInv' /\ JobInv'
  BY DEF IInv, LoginInv, LinkInv, PointerInv, JobInv, Awaited, worldVars
<1>3. TypeOK'
  BY DEF IInv, TypeOK, heldVars, worldVars
<1>4. QED
  BY <1>1, <1>2, <1>3 DEF IInv


-----------------------------------------------------------------------------
LEMMA InitInv == Init => IInv
<1> SUFFICES ASSUME Init PROVE IInv
  OBVIOUS
<1> DEFINE x0 == [client |-> "absent", phase |-> "ip", closed |-> FALSE, closing |-> FALSE,
                  writing |-> FALSE, writes |-> 0, reads |-> 0, pointer |-> FALSE,
                  out |-> <<>>, queue |-> <<>>, wire |-> <<>>, accepted |-> 0]
<1>1. /\ listening = TRUE /\ stopped = {} /\ ended = {} /\ links = {} /\ world = Idle
      /\ job = [t \in Thread |-> Idle] /\ todo = [t \in Thread |-> {}]
      /\ newSockets = [t \in Thread |-> {}] /\ sockets = [t \in Thread |-> {}]
      /\ sock = [s \in Socket |-> x0]
      /\ session = [r \in Realm |-> "none"] /\ instance = [r \in Realm |-> NoSocket]
  BY DEF Init
<1>2. x0 \in SocketState
  <2>1. <<>> \in Packets /\ <<>> \in Seq(Packets)
    BY DEF Packets
  <2>2. QED
    BY <2>1 DEF SocketState, Phases
<1>3. /\ x0.client = "absent" /\ x0.phase = "ip" /\ ~x0.closed /\ ~x0.closing /\ ~x0.pointer /\ x0.reads = 0
      /\ x0.out = <<>> /\ x0.queue = <<>> /\ x0.wire = <<>> /\ x0.accepted = 0
  OBVIOUS
<1> HIDE DEF x0
<1>4. \A s \in Socket : sock[s] = x0
  BY <1>1
<1>5. Realm \subseteq Socket /\ Instance \subseteq Socket /\ NoSocket \notin Socket
  BY SocketAssumption DEF Socket
<1>6. TypeOK
  <2>1. job \in [Thread -> Jobs \X (Socket \cup {NoSocket})]
    BY <1>1 DEF Jobs, Idle
  <2>2. world \in {"idle", "onClose", "link", "refuse"} \X (Socket \cup {NoSocket})
    BY <1>1 DEF Idle
  <2>3. sock \in [Socket -> SocketState]
    BY <1>1, <1>2
  <2>4. QED
    BY <1>1, <2>1, <2>2, <2>3 DEF TypeOK, Jobs
<1>7. HomeInv
  BY <1>1 DEF HomeInv, Owned, Idle
<1>8. LoginInv
  BY <1>1, <1>3, <1>4, <1>5 DEF LoginInv
<1>9. LinkInv
  BY <1>1, <1>3, <1>4, <1>5 DEF LinkInv, Awaited, Idle
<1>10. PointerInv
  BY <1>3, <1>4, <1>5 DEF PointerInv
<1>11. JobInv
  BY <1>1, <1>5 DEF JobInv, Idle
<1>12. ReadInv
  BY <1>1, <1>3, <1>4, <1>5 DEF ReadInv, Reading, Idle
<1>13. SentInv
  <2>1. SentOf(x0)
    <3>1. x0.wire = Numbers(Len(x0.wire)) /\ Len(x0.wire) = 0
      BY <1>3 DEF Numbers
    <3>2. \E f : Starts(Append(<<>>, <<>>), f, 1, 0)
      <4> DEFINE w == Append(<<>>, <<>>)
                 f == [b \in 1 .. 2 |-> 1]
      <4>1. Len(w) = 1 /\ w[1] = <<>>
        OBVIOUS
      <4>2. Len(w[1]) = 0 /\ w[1] = Run(f[1], 0)
        BY <4>1 DEF Run
      <4> HIDE DEF w
      <4>3. Starts(w, f, 1, 0)
        BY <4>1, <4>2 DEF Starts
      <4>4. QED
        BY <4>3 DEF w
    <3>3. QED
      BY <1>3, <3>1, <3>2 DEF SentOf
  <2>2. QED
    BY <1>3, <1>4, <2>1 DEF SentInv
<1>14. QED
  BY <1>6, <1>7, <1>8, <1>9, <1>10, <1>11, <1>12, <1>13 DEF IInv

LEMMA NextInv == IInv /\ [Next]_vars => IInv'
<1> SUFFICES ASSUME IInv, [Next]_vars PROVE IInv'
  OBVIOUS
<1>1. CASE UNCHANGED vars
  <2>1. HomeInv' /\ ReadInv' /\ SentInv'
    BY <1>1, SocketsSame DEF vars
  <2>2. LoginInv' /\ LinkInv' /\ PointerInv' /\ JobInv' /\ TypeOK'
    BY <1>1 DEF IInv, LoginInv, LinkInv, PointerInv, JobInv, Awaited, TypeOK, vars, netVars, heldVars, worldVars
  <2>3. QED
    BY <2>1, <2>2 DEF IInv
<1>2. ASSUME Clients PROVE IInv'
  BY <1>2, DisconnectInv, AcceptInv DEF Clients
<1>3. ASSUME World PROVE IInv'
  <2>1. ASSUME StopListening PROVE IInv'
    BY <2>1, ShutdownInv DEF StopListening, IInv, TypeOK
  <2>2. ASSUME NEW t \in Thread, Stop(t) PROVE IInv'
    BY <2>2, ShutdownInv DEF Stop, IInv, TypeOK
  <2>3. ASSUME NEW r \in Realm, LogoutPlayer(r) \/ DeleteSession(r) PROVE IInv'
    BY <2>3, LogoutInv, DeleteSessionInv
  <2>4. ASSUME NEW s \in Socket, WorldSendPacket(s) \/ CloseSocket(s) \/ WorldOnClose(s) PROVE IInv'
    BY <2>4, WorldSendInv, CloseSocketInv, WorldOnCloseInv
  <2>5. ASSUME NEW i \in Instance, TakeLink(i) \/ SetWorldSession(i) \/ RefuseLink(i) PROVE IInv'
    BY <2>5, TakeLinkInv, SetWorldSessionInv, RefuseLinkInv
  <2>6. QED
    BY <1>3, <2>1, <2>2, <2>3, <2>4, <2>5 DEF World
<1>4. ASSUME NEW t \in Thread, Continue(t) PROVE IInv'
  <2>1. ASSUME NEW s \in Socket,
               \/ UpdateSocket(t, s) \/ Write(t, s) \/ OnClose(t, s) \/ NoCallback(t, s)
               \/ CheckIpCallback(t, s) \/ HandleAuthSessionCallback(t, s)
               \/ HandleAuthContinuedSessionCallback(t, s) \/ LoadSessionPermissionsCallback(t, s)
        PROVE  IInv'
    BY <2>1, UpdateSocketInv, WriteInv, OnCloseInv, NoCallbackInv, CheckIpInv, AuthSessionInv, ContinuedInv,
       PermissionsInv
  <2>2. ASSUME NEW s \in Socket,
               \/ HandleAuthSession(t, s) \/ HandleEnterEncryptedModeAck(t, s) \/ HandlePing(t, s)
               \/ NotAuthed(t, s) \/ EndRead(t, s)
        PROVE  IInv'
    BY <2>2, HandleAuthSessionInv, EnterEncryptedInv, HandlePingInv, NotAuthedInv, EndReadInv
  <2>3. QED
    BY <1>4, <2>1, <2>2, EndUpdateInv DEF Continue
<1>5. ASSUME NEW t \in Thread, Handle(t) PROVE IInv'
  BY <1>5, BeginUpdateInv, EndThreadInv, ReadErrorInv, InitializeInv, ReadHandlerInv, WriteHandlerInv DEF Handle
<1>6. QED
  BY <1>1, <1>2, <1>3, <1>4, <1>5 DEF Next

(* The inductive invariant holds in every state. *)
THEOREM SocketInvariance == Spec => []IInv
BY InitInv, NextInv, PTL DEF Spec

(***************************************************************************)
(* The variables keep their types: SendPacket, the handlers and the world  *)
(* leave every socket in a state of the model, for any threads and sockets.*)
(***************************************************************************)
THEOREM SocketTypes == Spec => []TypeOK
<1>1. IInv => TypeOK
  BY DEF IInv
<1>2. QED
  BY <1>1, SocketInvariance, PTL

(***************************************************************************)
(* What _writeQueue and _bufferQueue hold goes to the peer in the order of *)
(* SendPacket, whatever fits into a buffer, however often a write is only  *)
(* half done and whoever closes the socket: none twice, none left out.     *)
(***************************************************************************)
THEOREM PacketsInOrder == Spec => []SentInOrder
<1>1. IInv => SentInOrder
  <2> SUFFICES ASSUME IInv, NEW s \in Socket
               PROVE  LET x == sock[s] IN
                      /\ x.wire = Numbers(Len(x.wire))
                      /\ ~Broken(x) => Hold(Append(x.queue, x.out), Len(x.wire) + 1, x.accepted)
    BY DEF SentInOrder
  <2>1. sock[s] \in SocketState /\ SentOf(sock[s])
    BY Types DEF IInv, SentInv
  <2>2. /\ sock[s].out \in Seq(Nat) /\ sock[s].queue \in Seq(Packets) /\ sock[s].wire \in Seq(Nat)
        /\ sock[s].accepted \in Nat
    BY <2>1, Fields
  <2>3. Append(sock[s].queue, sock[s].out) \in Seq(Packets) /\ Len(sock[s].wire) + 1 \in Nat
    BY <2>2 DEF Packets
  <2>4. QED
    BY <2>1, <2>2, <2>3, StartsHold DEF SentOf
<1>2. QED
  BY <1>1, SocketInvariance, PTL

(***************************************************************************)
(* A network thread uses no session the world has deleted: CloseSocket     *)
(* takes the pointer away before the world goes on to delete the session,  *)
(* and an instance socket is given the pointer only while the world holds  *)
(* it in the session.                                                      *)
(***************************************************************************)
THEOREM SessionsStayLive == Spec => []SessionPointerIsLive
<1>1. IInv => SessionPointerIsLive
  <2> SUFFICES ASSUME IInv, NEW t \in Thread, NEW s \in Socket
               PROVE  LET x == sock[s]  alive == session[SessionOf[s]] \in {"made", "world"} IN
                      /\ job[t] = <<"callbacks", s>> /\ x.phase = "rights" => x.pointer /\ alive
                      /\ job[t] = <<"read", s>> /\ x.pointer => alive
                      /\ job[t] = <<"read", s>> /\ x.phase = "ack" /\ s \in Realm => x.pointer
    BY DEF SessionPointerIsLive
  <2>0. /\ sock[s].pointer => \/ session[SessionOf[s]] \in {"made", "world"}
                              \/ sock[s].closed /\ session[SessionOf[s]] = "deleted"
        /\ s \in Realm /\ sock[s].phase \in {"rights", "ack"} /\ ~sock[s].pointer => sock[s].closed
    BY DEF IInv, PointerInv
  <2>1. ASSUME job[t] = <<"callbacks", s>>, sock[s].phase = "rights"
        PROVE  sock[s].pointer /\ session[SessionOf[s]] \in {"made", "world"}
    <3>1. ~sock[s].closed
      BY <2>1, CalledFacts
    <3>2. s \notin Instance
      BY <2>1 DEF IInv, LoginInv
    <3>3. QED
      BY <2>0, <2>1, <3>1, <3>2 DEF Socket
  <2>2. ASSUME job[t] = <<"read", s>>, sock[s].pointer
        PROVE  session[SessionOf[s]] \in {"made", "world"}
    <3>1. sock[s].closed => world = <<"onClose", s>>
      BY <2>2 DEF IInv, JobInv
    <3>2. world = <<"onClose", s>> => session[SessionOf[s]] = "world"
      BY DEF IInv, LinkInv
    <3>3. QED
      BY <2>0, <2>2, <3>1, <3>2
  <2>3. ASSUME job[t] = <<"read", s>>, sock[s].phase = "ack", s \in Realm
        PROVE  sock[s].pointer
    <3>1. ~sock[s].closed
      BY <2>3, ReadsFrom
    <3>2. QED
      BY <2>0, <2>3, <3>1
  <2>4. QED
    BY <2>1, <2>2, <2>3
<1>2. QED
  BY <1>1, SocketInvariance, PTL

(***************************************************************************)
(* A socket has one asynchronous read at most, which fills its buffer; and *)
(* an open one that its thread does not work on has one, unless a query    *)
(* will start it: no connection is left that nobody listens to.            *)
(***************************************************************************)
THEOREM OneReader == Spec => []OneReadAtATime
<1>1. IInv => OneReadAtATime
  <2> SUFFICES ASSUME IInv, NEW t \in Thread, NEW s \in sockets[t]
               PROVE  /\ sock[s].reads <= 1
                      /\ IsOpen(sock[s]) /\ job[t][2] # s =>
                           sock[s].reads = IF sock[s].phase \in {"ip", "account"} THEN 0 ELSE 1
    BY DEF OneReadAtATime
  <2>1. s \in Socket
    BY Types DEF IInv
  <2>2. /\ sock[s].reads \in Nat /\ sock[s].reads <= 1
        /\ IsOpen(sock[s]) => (sock[s].reads = 0 <=> sock[s].phase \in {"ip", "account"} \/ job[t] = <<"read", s>>)
    BY <2>1, SocketFacts
  <2>3. job[t][2] # s => job[t] # <<"read", s>>
    OBVIOUS
  <2>4. QED
    BY <2>2, <2>3
<1>2. QED
  BY <1>1, SocketInvariance, PTL

-----------------------------------------------------------------------------
(***************************************************************************)
(* The queue.  The nodes from tail to head form a chain of distinct nodes  *)
(* that are exactly the allocated ones; a link of it that is missing       *)
(* belongs to the one producer that is about to store it, and that         *)
(* producer holds both of its ends (GapInv, OwnerInv).  The consumer only  *)
(* advances over a link that is there, so the node it deletes is no        *)
(* producer's former head.                                                 *)
(***************************************************************************)
ChainInv ==
  /\ Len(chain) >= 1 /\ chain[1] = tail /\ chain[Len(chain)] = head
  /\ \A i, j \in 1 .. Len(chain) : chain[i] = chain[j] => i = j
  /\ allocated = {chain[i] : i \in 1 .. Len(chain)}

(* Producer p is about to store the link from the i-th node of the chain. *)
Owns(p, i) == prevHead[p] = chain[i] /\ mine[p] = chain[i + 1]

GapInv ==
  /\ next[head] = NoNode
  /\ \A i \in 1 .. Len(chain) - 1 :
       \/ next[chain[i]] = chain[i + 1]
       \/ next[chain[i]] = NoNode /\ \E p \in Producer : Owns(p, i)

OwnerInv ==
  /\ \A p \in Producer : Linking(p) =>
       \E i \in 1 .. Len(chain) - 1 : Owns(p, i) /\ next[chain[i]] = NoNode
  /\ \A p, q \in Producer : Linking(p) /\ Linking(q) /\ prevHead[p] = prevHead[q] => p = q

FoundInv == found # NoNode => Len(chain) > 1 /\ found = chain[2] /\ next[tail] = found

QueueInv == QueueTypeOK /\ ChainInv /\ GapInv /\ OwnerInv /\ FoundInv

(* What a chain's positions hold. *)
LEMMA ChainNodes ==
  ASSUME QueueTypeOK, ChainInv
  PROVE  /\ Len(chain) \in Nat
         /\ \A i \in 1 .. Len(chain) : chain[i] \in Node /\ chain[i] # NoNode /\ chain[i] \in allocated
BY NoneAssumption DEF QueueTypeOK, ChainInv

(* The invariant holds initially. *)
LEMMA QueueInitInv == QueueInit => QueueInv
<1> SUFFICES ASSUME QueueInit PROVE QueueInv
  OBVIOUS
<1>1. PICK stub \in Node :
    /\ head = stub /\ tail = stub /\ chain = <<stub>> /\ allocated = {stub}
    /\ next = [n \in Node |-> NoNode]
    /\ data \in [Node -> Value]
    /\ mine = [p \in Producer |-> NoNode] /\ prevHead = [p \in Producer |-> NoNode]
    /\ found = NoNode /\ result = NoValue
  BY DEF QueueInit
<1>2. Len(chain) = 1 /\ chain[1] = stub /\ chain \in Seq(Node)
  BY <1>1
<1>3. QueueTypeOK
  BY <1>1, <1>2 DEF QueueTypeOK
<1>4. ChainInv /\ GapInv /\ FoundInv
  BY <1>1, <1>2 DEF ChainInv, GapInv, FoundInv
<1>5. OwnerInv
  BY <1>1, <1>2 DEF OwnerInv, Linking
<1>6. QED
  BY <1>3, <1>4, <1>5 DEF QueueInv

(* Enqueue puts a fresh node at the end, and the producer owns the gap before it. *)
LEMMA EnqueueInv ==
  ASSUME QueueInv, NEW p \in Producer, NEW n \in Node, NEW v \in Value, Enqueue(p, n, v)
  PROVE  QueueInv'
<1> DEFINE len == Len(chain)
<1>1. /\ ~Linking(p) /\ n \notin allocated /\ allocated' = allocated \cup {n}
      /\ next' = [next EXCEPT ![n] = NoNode] /\ data' = [data EXCEPT ![n] = v]
      /\ mine' = [mine EXCEPT ![p] = n] /\ prevHead' = [prevHead EXCEPT ![p] = head]
      /\ head' = n /\ chain' = Append(chain, n)
      /\ tail' = tail /\ found' = found /\ result' = result
  BY DEF Enqueue
<1>2. QueueTypeOK /\ ChainInv /\ GapInv /\ OwnerInv /\ FoundInv
  BY DEF QueueInv
<1>3. /\ len \in Nat /\ len >= 1
      /\ \A i \in 1 .. len : chain[i] \in Node /\ chain[i] # NoNode /\ chain[i] \in allocated
  BY <1>2, ChainNodes DEF ChainInv
<1>4. /\ chain' \in Seq(Node) /\ Len(chain') = len + 1 /\ chain'[len + 1] = n
      /\ \A i \in 1 .. len : chain'[i] = chain[i]
  BY <1>1, <1>2, <1>3 DEF QueueTypeOK
<1>5. n # NoNode /\ \A i \in 1 .. len : chain[i] # n
  BY <1>1, <1>3, NoneAssumption
<1>6. QueueTypeOK'
  BY <1>1, <1>2, <1>4, NoneAssumption DEF QueueTypeOK
<1>7. /\ next'[n] = NoNode /\ \A m \in Node : m # n => next'[m] = next[m]
      /\ mine'[p] = n /\ prevHead'[p] = head
      /\ \A q \in Producer : q # p => mine'[q] = mine[q] /\ prevHead'[q] = prevHead[q]
  BY <1>1, <1>2 DEF QueueTypeOK
<1>8. ChainInv'
  <2>1. \A i, j \in 1 .. len + 1 : chain'[i] = chain'[j] => i = j
    BY <1>2, <1>3, <1>4, <1>5 DEF ChainInv
  <2>2. allocated' = {chain'[i] : i \in 1 .. len + 1}
    BY <1>1, <1>2, <1>3, <1>4 DEF ChainInv
  <2>3. QED
    BY <1>1, <1>2, <1>3, <1>4, <2>1, <2>2 DEF ChainInv
<1>9. GapInv'
  <2>1. ASSUME NEW i \in 1 .. len
        PROVE  \/ next'[chain'[i]] = chain'[i + 1]
               \/ next'[chain'[i]] = NoNode /\ \E q \in Producer : Owns(q, i)'
    <3>1. next'[chain'[i]] = next[chain[i]]
      BY <1>3, <1>4, <1>5, <1>7
    <3>2. CASE i = len
      BY <3>1, <3>2, <1>2, <1>3, <1>4, <1>7 DEF GapInv, ChainInv, Owns
    <3>3. CASE i < len
      <4>1. i \in 1 .. len - 1 /\ i + 1 \in 1 .. len
        BY <3>3, <1>3
      <4>2. CASE next[chain[i]] = chain[i + 1]
        BY <3>1, <4>1, <4>2, <1>4
      <4>3. ASSUME NEW q \in Producer, next[chain[i]] = NoNode, Owns(q, i)
            PROVE  q # p /\ Owns(q, i)'
        BY <4>1, <4>3, <1>1, <1>3, <1>4, <1>7 DEF Owns, Linking
      <4>4. QED
        BY <3>1, <4>1, <4>2, <4>3, <1>2 DEF GapInv
    <3>4. QED
      BY <3>2, <3>3, <1>3
  <2>2. QED
    BY <2>1, <1>1, <1>3, <1>4, <1>7 DEF GapInv
<1>10. OwnerInv'
  <2>1. ASSUME NEW q \in Producer, q # p, Linking(q)'
        PROVE  \E i \in 1 .. len - 1 : Owns(q, i)' /\ next'[chain'[i]] = NoNode
                                       /\ prevHead'[q] = chain[i]
    <3>1. PICK i \in 1 .. len - 1 : Owns(q, i) /\ next[chain[i]] = NoNode
      BY <2>1, <1>2, <1>7 DEF OwnerInv, Linking
    <3>2. i \in 1 .. len /\ i + 1 \in 1 .. len
      BY <1>3
    <3>3. QED
      BY <2>1, <3>1, <3>2, <1>3, <1>4, <1>5, <1>7 DEF Owns
  <2>2. prevHead'[p] = chain'[len] /\ mine'[p] = chain'[len + 1] /\ next'[chain'[len]] = NoNode
    <3>1. len \in 1 .. len /\ chain[len] = head /\ next[head] = NoNode
      BY <1>2, <1>3 DEF ChainInv, GapInv
    <3>2. chain'[len] = head /\ next'[head] = NoNode
      BY <3>1, <1>3, <1>4, <1>5, <1>7
    <3>3. QED
      BY <3>2, <1>4, <1>7
  <2>3. ASSUME NEW q \in Producer, q # p, Linking(q)'
        PROVE  prevHead'[q] # head
    BY <2>1, <2>3, <1>2, <1>3 DEF ChainInv
  <2>4. ASSUME NEW q \in Producer, Linking(q)'
        PROVE  \E i \in 1 .. len : Owns(q, i)' /\ next'[chain'[i]] = NoNode
    <3>1. CASE q = p
      BY <3>1, <2>2, <1>3 DEF Owns
    <3>2. CASE q # p
      BY <3>2, <2>1, <2>4, <1>3
    <3>3. QED
      BY <3>1, <3>2
  <2>5. ASSUME NEW q \in Producer, NEW r \in Producer, Linking(q)', Linking(r)',
               prevHead'[q] = prevHead'[r]
        PROVE  q = r
    <3>1. CASE q # p /\ r # p
      BY <3>1, <2>5, <1>2, <1>7 DEF OwnerInv, Linking
    <3>2. CASE q = p \/ r = p
      BY <3>2, <2>5, <2>3, <1>7
    <3>3. QED
      BY <3>1, <3>2
  <2>6. QED
    BY <2>4, <2>5, <1>3, <1>4 DEF OwnerInv
<1>11. FoundInv'
  BY <1>1, <1>2, <1>3, <1>4, <1>5, <1>7 DEF FoundInv, ChainInv
<1>12. QED
  BY <1>6, <1>8, <1>9, <1>10, <1>11 DEF QueueInv

(* Link closes the producer's own gap and no other. *)
LEMMA LinkStoreInv == ASSUME QueueInv, NEW p \in Producer, Link(p) PROVE QueueInv'
<1> DEFINE len == Len(chain)
<1>1. /\ Linking(p)
      /\ next' = [next EXCEPT ![prevHead[p]] = mine[p]]
      /\ mine' = [mine EXCEPT ![p] = NoNode]
      /\ prevHead' = [prevHead EXCEPT ![p] = NoNode]
      /\ UNCHANGED <<head, tail, data, allocated, found, result, chain>>
  BY DEF Link
<1>2. QueueTypeOK /\ ChainInv /\ GapInv /\ OwnerInv /\ FoundInv
  BY DEF QueueInv
<1>3. /\ len \in Nat /\ len >= 1
      /\ \A i \in 1 .. len : chain[i] \in Node /\ chain[i] # NoNode
  BY <1>2, ChainNodes DEF ChainInv
<1>4. PICK k \in 1 .. len - 1 : Owns(p, k) /\ next[chain[k]] = NoNode
  BY <1>1, <1>2 DEF OwnerInv
<1>5. k \in 1 .. len /\ k + 1 \in 1 .. len /\ len \in 1 .. len /\ 1 \in 1 .. len
  BY <1>3
<1>6. /\ next'[chain[k]] = chain[k + 1]
      /\ \A m \in Node : m # chain[k] => next'[m] = next[m]
      /\ mine'[p] = NoNode
      /\ \A q \in Producer : q # p => mine'[q] = mine[q] /\ prevHead'[q] = prevHead[q]
  BY <1>1, <1>2, <1>3, <1>4, <1>5 DEF QueueTypeOK, Owns
<1>7. QueueTypeOK'
  BY <1>1, <1>2, NoneAssumption DEF QueueTypeOK
<1>8. ChainInv'
  BY <1>1, <1>2 DEF ChainInv
<1>9. GapInv'
  <2>1. ASSUME NEW i \in 1 .. len - 1
        PROVE  \/ next'[chain[i]] = chain[i + 1]
               \/ next'[chain[i]] = NoNode /\ \E q \in Producer : Owns(q, i)'
    <3>1. i \in 1 .. len /\ i + 1 \in 1 .. len
      BY <1>3
    <3>2. CASE i = k
      BY <3>2, <1>6
    <3>3. CASE i # k
      <4>1. chain[i] # chain[k]
        BY <3>1, <3>3, <1>2, <1>5 DEF ChainInv
      <4>2. next'[chain[i]] = next[chain[i]]
        BY <3>1, <4>1, <1>3, <1>6
      <4>3. ASSUME NEW q \in Producer, Owns(q, i)
            PROVE  Owns(q, i)'
        BY <4>1, <4>3, <1>1, <1>4, <1>6 DEF Owns
      <4>4. QED
        BY <4>2, <4>3, <1>2 DEF GapInv
    <3>4. QED
      BY <3>2, <3>3
  <2>2. head # chain[k]
    BY <1>2, <1>3, <1>5 DEF ChainInv
  <2>3. QED
    BY <2>1, <2>2, <1>1, <1>2, <1>6 DEF GapInv, QueueTypeOK
<1>10. OwnerInv'
  <2>1. ASSUME NEW q \in Producer, Linking(q)'
        PROVE  q # p /\ Linking(q)
    BY <2>1, <1>6 DEF Linking
  <2>2. ASSUME NEW q \in Producer, Linking(q)'
        PROVE  \E i \in 1 .. len - 1 : Owns(q, i)' /\ next'[chain[i]] = NoNode
    <3>1. PICK i \in 1 .. len - 1 : Owns(q, i) /\ next[chain[i]] = NoNode
      BY <2>1, <2>2, <1>2 DEF OwnerInv
    <3>2. i \in 1 .. len
      BY <1>3
    <3>3. chain[i] # chain[k]
      BY <2>1, <2>2, <3>1, <1>1, <1>2, <1>4 DEF OwnerInv, Owns
    <3>4. QED
      BY <2>1, <2>2, <3>1, <3>2, <3>3, <1>1, <1>3, <1>6 DEF Owns
  <2>3. ASSUME NEW q \in Producer, NEW r \in Producer, Linking(q)', Linking(r)',
               prevHead'[q] = prevHead'[r]
        PROVE  q = r
    BY <2>1, <2>3, <1>2, <1>6 DEF OwnerInv
  <2>4. QED
    BY <2>2, <2>3, <1>1 DEF OwnerInv
<1>11. FoundInv'
  BY <1>1, <1>2, <1>3, <1>4, <1>5, <1>6 DEF FoundInv, ChainInv
<1>12. QED
  BY <1>7, <1>8, <1>9, <1>10, <1>11 DEF QueueInv

(* LoadNext remembers the second node of the chain if the first link is there. *)
LEMMA LoadNextInv == ASSUME QueueInv, LoadNext PROVE QueueInv'
<1>1. /\ found' = next[tail]
      /\ result' = IF next[tail] = NoNode THEN NoValue ELSE result
      /\ UNCHANGED <<head, tail, next, data, allocated, mine, prevHead, chain>>
  BY DEF LoadNext, memVars
<1>2. QueueTypeOK /\ ChainInv /\ GapInv /\ OwnerInv
  BY DEF QueueInv
<1>3. QueueTypeOK'
  BY <1>1, <1>2 DEF QueueTypeOK
<1>4. ChainInv' /\ GapInv' /\ OwnerInv'
  <2>1. ChainInv'
    BY <1>1, <1>2 DEF ChainInv
  <2>2. GapInv'
    BY <1>1, <1>2 DEF GapInv, Owns
  <2>3. OwnerInv'
    BY <1>1, <1>2 DEF OwnerInv, Owns, Linking
  <2>4. QED
    BY <2>1, <2>2, <2>3
<1>5. FoundInv'
  <2>1. CASE Len(chain) = 1
    BY <2>1, <1>1, <1>2 DEF FoundInv, ChainInv, GapInv
  <2>2. CASE Len(chain) > 1
    <3>1. 1 \in 1 .. Len(chain) - 1 /\ 1 + 1 = 2 /\ chain[1] = tail
      BY <2>2, <1>2, ChainNodes DEF ChainInv
    <3>2. next[tail] = chain[2] \/ next[tail] = NoNode
      BY <3>1, <1>2 DEF GapInv
    <3>3. QED
      BY <2>2, <3>2, <1>1, NoneAssumption DEF FoundInv
  <2>3. Len(chain) = 1 \/ Len(chain) > 1
    <3>1. Len(chain) \in Nat /\ Len(chain) >= 1
      BY <1>2, ChainNodes DEF ChainInv
    <3>2. \A n \in Nat : n >= 1 => n = 1 \/ n > 1
      OBVIOUS
    <3>3. QED
      BY <3>1, <3>2, Zenon
  <2>4. QED
    BY <2>1, <2>2, <2>3
<1>6. QED
  BY <1>3, <1>4, <1>5 DEF QueueInv

(* Advance drops the first node of the chain, whose link no producer owns. *)
LEMMA AdvanceInv == ASSUME QueueInv, Advance PROVE QueueInv'
<1> DEFINE len == Len(chain)
<1>1. /\ found # NoNode /\ result' = data[found] /\ tail' = found
      /\ allocated' = allocated \ {tail} /\ chain' = Tail(chain) /\ found' = NoNode
      /\ UNCHANGED <<head, next, data, mine, prevHead>>
  BY DEF Advance
<1>2. QueueTypeOK /\ ChainInv /\ GapInv /\ OwnerInv /\ FoundInv
  BY DEF QueueInv
<1>3. /\ len \in Nat /\ len > 1 /\ found = chain[2] /\ next[chain[1]] # NoNode
      /\ \A i \in 1 .. len : chain[i] \in Node /\ chain[i] # NoNode
  BY <1>1, <1>2, ChainNodes DEF FoundInv, ChainInv
<1>4. /\ chain' \in Seq(Node) /\ Len(chain') = len - 1
      /\ \A i \in 1 .. len - 1 : chain'[i] = chain[i + 1]
  BY <1>1, <1>2, <1>3 DEF QueueTypeOK
<1>5. QueueTypeOK'
  BY <1>1, <1>2, <1>3, <1>4 DEF QueueTypeOK
<1>6. ChainInv'
  <2>1. chain'[1] = tail' /\ chain'[len - 1] = head'
    BY <1>1, <1>2, <1>3, <1>4 DEF ChainInv
  <2>2. \A i, j \in 1 .. len - 1 : chain'[i] = chain'[j] => i = j
    BY <1>2, <1>3, <1>4 DEF ChainInv
  <2>3. allocated' = {chain'[i] : i \in 1 .. len - 1}
    <3>1. ASSUME NEW m \in allocated' PROVE \E i \in 1 .. len - 1 : m = chain'[i]
      <4>1. PICK i \in 1 .. len : m = chain[i]
        BY <3>1, <1>1, <1>2 DEF ChainInv
      <4>2. i # 1
        BY <3>1, <4>1, <1>1, <1>2 DEF ChainInv
      <4>3. i - 1 \in 1 .. len - 1 /\ (i - 1) + 1 = i
        BY <4>2, <1>3
      <4>4. QED
        BY <4>1, <4>3, <1>4
    <3>2. ASSUME NEW i \in 1 .. len - 1 PROVE chain'[i] \in allocated'
      <4>1. i + 1 \in 1 .. len /\ 1 \in 1 .. len /\ i + 1 # 1
        BY <1>3
      <4>2. chain[i + 1] \in allocated /\ chain[i + 1] # tail
        BY <4>1, <1>2 DEF ChainInv
      <4>3. QED
        BY <4>2, <1>1, <1>4
    <3>3. QED
      BY <3>1, <3>2
  <2>4. QED
    BY <2>1, <2>2, <2>3, <1>3, <1>4 DEF ChainInv
<1>7. ASSUME NEW q \in Producer, NEW i \in 1 .. len - 2
      PROVE  Owns(q, i)' <=> Owns(q, i + 1)
  BY <1>1, <1>3, <1>4 DEF Owns
<1>8. GapInv'
  <2>1. ASSUME NEW i \in 1 .. len - 2
        PROVE  \/ next'[chain'[i]] = chain'[i + 1]
               \/ next'[chain'[i]] = NoNode /\ \E q \in Producer : Owns(q, i)'
    <3>1. i + 1 \in 1 .. len - 1 /\ i \in 1 .. len - 1
      BY <1>3
    <3>2. \/ next[chain[i + 1]] = chain[(i + 1) + 1]
          \/ next[chain[i + 1]] = NoNode /\ \E q \in Producer : Owns(q, i + 1)
      BY <3>1, <1>2 DEF GapInv
    <3>3. QED
      BY <3>1, <3>2, <1>1, <1>4, <1>7
  <2>2. QED
    <3>1. Len(chain') - 1 = len - 2 /\ next'[head'] = NoNode
      BY <1>1, <1>2, <1>3, <1>4 DEF GapInv
    <3>2. QED
      BY <2>1, <3>1 DEF GapInv
<1>9. OwnerInv'
  <2>1. ASSUME NEW q \in Producer, Linking(q)'
        PROVE  \E i \in 1 .. len - 2 : Owns(q, i)' /\ next'[chain'[i]] = NoNode
    <3>1. PICK i \in 1 .. len - 1 : Owns(q, i) /\ next[chain[i]] = NoNode
      BY <2>1, <1>1, <1>2 DEF OwnerInv, Linking
    <3>2. i # 1
      BY <3>1, <1>3
    <3>3. i - 1 \in 1 .. len - 2 /\ (i - 1) + 1 = i /\ i - 1 \in 1 .. len - 1
      BY <3>2, <1>3
    <3>4. QED
      BY <3>1, <3>3, <1>1, <1>4, <1>7
  <2>2. QED
    BY <2>1, <1>1, <1>2, <1>3, <1>4 DEF OwnerInv, Linking
<1>10. FoundInv'
  BY <1>1 DEF FoundInv
<1>11. QED
  BY <1>5, <1>6, <1>8, <1>9, <1>10 DEF QueueInv

(* Every step preserves the invariant. *)
LEMMA StepInv == QueueInv /\ [QueueNext]_queueVars => QueueInv'
<1> SUFFICES ASSUME QueueInv, [QueueNext]_queueVars PROVE QueueInv'
  OBVIOUS
<1>1. ASSUME NEW p \in Producer, Link(p) PROVE QueueInv'
  BY <1>1, LinkStoreInv
<1>2. ASSUME NEW p \in Producer, NEW n \in Node, NEW v \in Value, Enqueue(p, n, v) PROVE QueueInv'
  BY <1>2, EnqueueInv
<1>3. CASE LoadNext
  BY <1>3, LoadNextInv
<1>4. CASE Advance
  BY <1>4, AdvanceInv
<1>5. CASE UNCHANGED queueVars
  BY <1>5 DEF QueueInv, QueueTypeOK, ChainInv, GapInv, OwnerInv, FoundInv, Owns, Linking, queueVars, memVars
<1>6. QED
  BY <1>1, <1>2, <1>3, <1>4, <1>5 DEF QueueNext, Consume

(* The inductive invariant holds of every reachable state. *)
THEOREM QueueInvariance == QueueSpec => []QueueInv
<1>1. QueueInit => QueueInv
  BY QueueInitInv
<1>2. QueueInv /\ [QueueNext]_queueVars => QueueInv'
  BY StepInv
<1>3. QED
  BY <1>1, <1>2, PTL DEF QueueSpec

(* Every variable keeps its type. *)
THEOREM QueueTypes == QueueSpec => []QueueTypeOK
<1>1. QueueInv => QueueTypeOK
  BY DEF QueueInv
<1>2. QED
  BY <1>1, QueueInvariance, PTL

(* No producer and not the consumer touches a node after its delete. *)
THEOREM NodesAreAlive == QueueSpec => []NoUseAfterDelete
<1>1. QueueInv => NoUseAfterDelete
  <2> SUFFICES ASSUME QueueInv PROVE NoUseAfterDelete
    OBVIOUS
  <2>1. QueueTypeOK /\ ChainInv /\ OwnerInv /\ FoundInv
    BY DEF QueueInv
  <2>2. /\ Len(chain) \in Nat /\ Len(chain) >= 1
        /\ \A i \in 1 .. Len(chain) : chain[i] \in allocated
    BY <2>1, ChainNodes DEF ChainInv
  <2>3. head \in allocated /\ tail \in allocated
    BY <2>1, <2>2 DEF ChainInv
  <2>4. ASSUME NEW p \in Producer, Linking(p)
        PROVE  mine[p] \in allocated /\ prevHead[p] \in allocated
    <3>1. PICK i \in 1 .. Len(chain) - 1 : Owns(p, i)
      BY <2>1, <2>4 DEF OwnerInv
    <3>2. i \in 1 .. Len(chain) /\ i + 1 \in 1 .. Len(chain)
      BY <2>2
    <3>3. QED
      BY <2>2, <3>1, <3>2 DEF Owns
  <2>5. found # NoNode => found \in allocated
    BY <2>1, <2>2 DEF FoundInv
  <2>6. QED
    BY <2>3, <2>4, <2>5 DEF NoUseAfterDelete
<1>2. QED
  BY <1>1, QueueInvariance, PTL

(* The allocated nodes are the chain's, and all linked when no producer is inside Enqueue. *)
THEOREM NoNodeLeaks == QueueSpec => []NothingIsLost
<1>1. QueueInv => NothingIsLost
  <2> SUFFICES ASSUME QueueInv PROVE NothingIsLost
    OBVIOUS
  <2>1. QueueTypeOK /\ ChainInv /\ GapInv
    BY DEF QueueInv
  <2>2. /\ Len(chain) \in Nat
        /\ \A i \in 1 .. Len(chain) : chain[i] # NoNode
    BY <2>1, ChainNodes
  <2>3. ASSUME \A p \in Producer : ~Linking(p), NEW i \in 1 .. Len(chain) - 1
        PROVE  next[chain[i]] = chain[i + 1]
    <3>1. i + 1 \in 1 .. Len(chain)
      BY <2>2
    <3>2. \A p \in Producer : ~Owns(p, i)
      BY <2>2, <2>3, <3>1 DEF Owns, Linking
    <3>3. QED
      BY <2>1, <3>2 DEF GapInv
  <2>4. QED
    BY <2>1, <2>3 DEF NothingIsLost, ChainInv
<1>2. QED
  BY <1>1, QueueInvariance, PTL

-----------------------------------------------------------------------------
(* The queue implements FifoQueue: the facts about a mapped chain, once for *)
(* the state before and once for the state after a step.                    *)
Entry == [value : Value, ready : BOOLEAN]
EntriesOf(c, d, n) ==
  [i \in 1 .. Len(c) - 1 |-> [value |-> d[c[i + 1]], ready |-> n[c[i]] = c[i + 1]]]

LEMMA EntriesProperties ==
  ASSUME NEW c \in Seq(Node), NEW d \in [Node -> Value], NEW n, Len(c) >= 1
  PROVE  /\ EntriesOf(c, d, n) \in Seq(Entry)
         /\ Len(EntriesOf(c, d, n)) = Len(c) - 1
         /\ \A i \in 1 .. Len(c) - 1 :
              EntriesOf(c, d, n)[i] = [value |-> d[c[i + 1]], ready |-> n[c[i]] = c[i + 1]]
<1> DEFINE len == Len(c) - 1
<1>1. len \in Nat /\ \A i \in 1 .. len : c[i + 1] \in Node
  OBVIOUS
<1>2. \A i \in 1 .. len : [value |-> d[c[i + 1]], ready |-> n[c[i]] = c[i + 1]] \in Entry
  BY <1>1 DEF Entry
<1>3. EntriesOf(c, d, n) \in [1 .. len -> Entry]
  BY <1>2 DEF EntriesOf
<1>4. EntriesOf(c, d, n) \in Seq(Entry) /\ Len(EntriesOf(c, d, n)) = len
  BY <1>1, <1>3
<1>5. QED
  BY <1>4 DEF EntriesOf

LEMMA MappedEntries ==
  ASSUME QueueInv, QueueInv'
  PROVE  /\ Entries \in Seq(Entry) /\ Entries' \in Seq(Entry)
         /\ Len(Entries) = Len(chain) - 1 /\ Len(Entries') = Len(chain') - 1
         /\ Len(chain) \in Nat \ {0}
         /\ \A i \in 1 .. Len(chain) - 1 :
              Entries[i] = [value |-> data[chain[i + 1]], ready |-> next[chain[i]] = chain[i + 1]]
         /\ \A i \in 1 .. Len(chain') - 1 :
              Entries'[i] = [value |-> data'[chain'[i + 1]],
                             ready |-> next'[chain'[i]] = chain'[i + 1]]
<1>1. chain \in Seq(Node) /\ data \in [Node -> Value] /\ Len(chain) >= 1
  BY DEF QueueInv, QueueTypeOK, ChainInv
<1>2. chain' \in Seq(Node) /\ data' \in [Node -> Value] /\ Len(chain') >= 1
  BY DEF QueueInv, QueueTypeOK, ChainInv
<1>3. Entries = EntriesOf(chain, data, next) /\ Entries' = EntriesOf(chain', data', next')
  BY DEF Entries, EntriesOf
<1>4. Len(chain) \in Nat \ {0}
  BY <1>1
<1>5. /\ Entries \in Seq(Entry) /\ Len(Entries) = Len(chain) - 1
      /\ \A i \in 1 .. Len(chain) - 1 :
           Entries[i] = [value |-> data[chain[i + 1]], ready |-> next[chain[i]] = chain[i + 1]]
  BY <1>1, <1>3, EntriesProperties
<1>6. /\ Entries' \in Seq(Entry) /\ Len(Entries') = Len(chain') - 1
      /\ \A i \in 1 .. Len(chain') - 1 :
           Entries'[i] = [value |-> data'[chain'[i + 1]],
                          ready |-> next'[chain'[i]] = chain'[i + 1]]
  BY <1>2, <1>3, EntriesProperties
<1>7. QED
  BY <1>4, <1>5, <1>6

(* The exchange of _head is Enqueue of the abstract queue. *)
LEMMA EnqueueImplements ==
  ASSUME QueueInv, QueueInv', NEW p \in Producer, NEW n \in Node, NEW v \in Value, Enqueue(p, n, v)
  PROVE  Promised!Enqueue
<1> DEFINE len == Len(chain)
<1> DEFINE new == [value |-> v, ready |-> FALSE]
<1>1. /\ len \in Nat \ {0} /\ chain' = Append(chain, n) /\ chain \in Seq(Node)
      /\ n \notin allocated /\ result' = result
      /\ next' = [next EXCEPT ![n] = NoNode] /\ data' = [data EXCEPT ![n] = v]
      /\ chain[len] = head /\ next[head] = NoNode /\ n # NoNode
      /\ next \in [Node -> Node \cup {NoNode}] /\ data \in [Node -> Value]
  BY MappedEntries, NoneAssumption DEF Enqueue, QueueInv, QueueTypeOK, ChainInv, GapInv
<1>2. Len(chain') = len + 1 /\ chain'[len + 1] = n /\ \A i \in 1 .. len : chain'[i] = chain[i]
  BY <1>1
<1>3. \A i \in 1 .. len : chain[i] \in Node /\ chain[i] # n
  BY <1>1, ChainNodes DEF QueueInv
<1>4. data'[n] = v /\ \A i \in 1 .. len : /\ next'[chain[i]] = next[chain[i]]
                                          /\ data'[chain[i]] = data[chain[i]]
  BY <1>1, <1>3
<1>5. new \in Entry
  BY DEF Entry
<1>6. /\ Append(Entries, new) \in Seq(Entry) /\ Len(Append(Entries, new)) = len
      /\ \A i \in 1 .. len - 1 : Append(Entries, new)[i] = Entries[i]
      /\ Append(Entries, new)[len] = new
  BY <1>1, <1>5, MappedEntries
<1>7. ASSUME NEW i \in 1 .. len PROVE Entries'[i] = Append(Entries, new)[i]
  <2>1. CASE i = len
    <3>1. (next'[chain'[len]] = chain'[len + 1]) = FALSE
      BY <1>1, <1>2, <1>4
    <3>2. Entries'[len] = [value |-> data'[chain'[len + 1]],
                           ready |-> next'[chain'[len]] = chain'[len + 1]]
      BY <1>1, <1>2, MappedEntries
    <3>3. QED
      BY <2>1, <3>1, <3>2, <1>2, <1>4, <1>6
  <2>2. CASE i # len
    <3>1. i \in 1 .. len - 1 /\ i + 1 \in 1 .. len /\ i \in 1 .. (len + 1) - 1
      BY <2>2, <1>1
    <3>2. Entries'[i] = [value |-> data'[chain'[i + 1]], ready |-> next'[chain'[i]] = chain'[i + 1]]
      BY <3>1, <1>2, MappedEntries
    <3>3. Entries[i] = [value |-> data[chain[i + 1]], ready |-> next[chain[i]] = chain[i + 1]]
      BY <3>1, MappedEntries
    <3>4. /\ chain'[i] = chain[i] /\ chain'[i + 1] = chain[i + 1]
          /\ next'[chain[i]] = next[chain[i]] /\ data'[chain[i + 1]] = data[chain[i + 1]]
      BY <3>1, <1>2, <1>4
    <3>5. QED
      BY <3>1, <3>2, <3>3, <3>4, <1>6
  <2>3. QED
    BY <2>1, <2>2
<1>8. Entries' \in Seq(Entry) /\ Len(Entries') = len
  BY <1>1, <1>2, MappedEntries
<1>9. Entries' = Append(Entries, new)
  BY <1>6, <1>7, <1>8, SeqEqual
<1>10. QED
  BY <1>1, <1>9 DEF Promised!Enqueue

(* The store of the link makes the entry behind it ready. *)
LEMMA LinkImplements ==
  ASSUME QueueInv, QueueInv', NEW p \in Producer, Link(p)
  PROVE  Promised!Ready
<1> DEFINE len == Len(chain)
<1>1. /\ len \in Nat \ {0} /\ chain' = chain /\ data' = data /\ result' = result /\ Linking(p)
      /\ next' = [next EXCEPT ![prevHead[p]] = mine[p]]
      /\ next \in [Node -> Node \cup {NoNode}]
  BY MappedEntries DEF Link, QueueInv, QueueTypeOK
<1>2. \A i \in 1 .. len : chain[i] \in Node /\ chain[i] # NoNode
  BY ChainNodes DEF QueueInv
<1>3. PICK k \in 1 .. len - 1 : Owns(p, k) /\ next[chain[k]] = NoNode
  BY <1>1 DEF QueueInv, OwnerInv
<1>4. k \in 1 .. len /\ k + 1 \in 1 .. len
  BY <1>1
<1>5. /\ next'[chain[k]] = chain[k + 1] /\ next[chain[k]] # chain[k + 1]
      /\ \A i \in 1 .. len : i # k => next'[chain[i]] = next[chain[i]]
  BY <1>1, <1>2, <1>3, <1>4 DEF QueueInv, ChainInv, Owns
<1>6. Entries[k] = [value |-> data[chain[k + 1]], ready |-> FALSE]
  <2>1. (next[chain[k]] = chain[k + 1]) = FALSE
    BY <1>5
  <2>2. QED
    BY <2>1, MappedEntries
<1>7. PICK e \in Entry : e = [value |-> data[chain[k + 1]], ready |-> TRUE]
  <2>1. data[chain[k + 1]] \in Value
    BY <1>2, <1>4 DEF QueueInv, QueueTypeOK
  <2>2. QED
    BY <2>1 DEF Entry
<1>8. Entries \in Seq(Entry) /\ Len(Entries) = len - 1 /\ k \in 1 .. Len(Entries)
  BY MappedEntries
<1>9. /\ [Entries EXCEPT ![k] = e] \in Seq(Entry)
      /\ Len([Entries EXCEPT ![k] = e]) = Len(Entries)
      /\ \A i \in 1 .. Len(Entries) :
           [Entries EXCEPT ![k] = e][i] = IF i = k THEN e ELSE Entries[i]
  BY <1>8, ExceptSeq
<1>10. ASSUME NEW i \in 1 .. Len(Entries) PROVE Entries'[i] = [Entries EXCEPT ![k] = e][i]
  <2>1. Entries'[i] = [value |-> data[chain[i + 1]], ready |-> next'[chain[i]] = chain[i + 1]]
    BY <1>1, <1>8, MappedEntries
  <2>2. CASE i = k
    <3>1. (next'[chain[k]] = chain[k + 1]) = TRUE
      BY <1>5
    <3>2. QED
      BY <2>1, <2>2, <3>1, <1>7, <1>9
  <2>3. CASE i # k
    <3>1. i \in 1 .. len /\ i \in 1 .. len - 1
      BY <1>1, <1>8
    <3>2. next'[chain[i]] = next[chain[i]]
      BY <2>3, <3>1, <1>5
    <3>3. Entries[i] = [value |-> data[chain[i + 1]], ready |-> next[chain[i]] = chain[i + 1]]
      BY <3>1, MappedEntries
    <3>4. QED
      BY <2>1, <2>3, <3>2, <3>3, <1>9
  <2>4. QED
    BY <2>2, <2>3
<1>11. Entries' = [Entries EXCEPT ![k] = e]
  <2>1. Entries' \in Seq(Entry) /\ Len(Entries') = Len(Entries)
    BY <1>1, <1>8, MappedEntries
  <2>2. QED
    BY <2>1, <1>9, <1>10, SeqEqual
<1>12. ~Entries[k].ready /\ e = [value |-> Entries[k].value, ready |-> TRUE]
  BY <1>6, <1>7
<1>13. QED
  BY <1>1, <1>8, <1>11, <1>12 DEF Promised!Ready

(* A load without a link is a Dequeue that fails, and one with a link a stutter. *)
LEMMA LoadNextImplements ==
  ASSUME QueueInv, QueueInv', LoadNext
  PROVE  Promised!DequeueFails \/ UNCHANGED <<Entries, result>>
<1>1. /\ result' = IF next[tail] = NoNode THEN NoValue ELSE result
      /\ chain' = chain /\ next' = next /\ data' = data
  BY DEF LoadNext, memVars
<1>2. Entries' = Entries
  BY <1>1 DEF Entries
<1>3. CASE next[tail] # NoNode
  BY <1>1, <1>2, <1>3
<1>4. CASE next[tail] = NoNode
  <2>1. ASSUME Entries # <<>> PROVE ~Entries[1].ready
    <3>1. 1 \in 1 .. Len(chain) - 1
      BY <2>1, MappedEntries, EmptySeq
    <3>2. chain[1] = tail /\ chain[1 + 1] # NoNode
      BY <3>1, MappedEntries, ChainNodes DEF QueueInv, ChainInv
    <3>3. (next[chain[1]] = chain[1 + 1]) = FALSE
      BY <3>2, <1>4
    <3>4. Entries[1] = [value |-> data[chain[1 + 1]], ready |-> next[chain[1]] = chain[1 + 1]]
      BY <3>1, MappedEntries
    <3>5. Entries[1].ready = (next[chain[1]] = chain[1 + 1])
      BY <3>4
    <3>6. QED
      BY <3>3, <3>5
  <2>2. result' = NoValue
    BY <1>1, <1>4
  <2>3. QED
    BY <2>1, <2>2, <1>2 DEF Promised!DequeueFails
<1>5. QED
  BY <1>3, <1>4

(* The consumer's second step is a Dequeue that succeeds. *)
LEMMA AdvanceImplements ==
  ASSUME QueueInv, QueueInv', Advance
  PROVE  Promised!Dequeue
<1> DEFINE len == Len(chain)
<1>1. /\ found # NoNode /\ result' = data[found] /\ chain' = Tail(chain)
      /\ next' = next /\ data' = data /\ chain \in Seq(Node)
  BY DEF Advance, QueueInv, QueueTypeOK
<1>2. len \in Nat /\ len > 1 /\ found = chain[2] /\ next[chain[1]] = chain[2]
  BY <1>1, MappedEntries DEF QueueInv, FoundInv, ChainInv
<1>3. Len(chain') = len - 1 /\ \A i \in 1 .. len - 1 : chain'[i] = chain[i + 1]
  BY <1>1, <1>2
<1>4. 1 \in 1 .. len - 1 /\ 1 + 1 = 2
  BY <1>2
<1>5. Entries[1] = [value |-> data[found], ready |-> TRUE]
  <2>1. (next[chain[1]] = chain[1 + 1]) = TRUE
    BY <1>2, <1>4
  <2>2. QED
    BY <2>1, <1>2, <1>4, MappedEntries
<1>6. Entries # <<>> /\ Entries \in Seq(Entry) /\ Len(Entries) = len - 1
  BY <1>2, MappedEntries, EmptySeq
<1>7. /\ Tail(Entries) \in Seq(Entry) /\ Len(Tail(Entries)) = len - 2
      /\ \A i \in 1 .. len - 2 : Tail(Entries)[i] = Entries[i + 1]
  BY <1>2, <1>6, HeadTailProperties
<1>8. ASSUME NEW i \in 1 .. len - 2 PROVE Entries'[i] = Tail(Entries)[i]
  <2>1. /\ i + 1 \in 1 .. len - 1 /\ i \in 1 .. len - 1
        /\ i \in 1 .. (len - 1) - 1
    BY <1>2
  <2>2. Entries'[i] = [value |-> data[chain'[i + 1]], ready |-> next[chain'[i]] = chain'[i + 1]]
    BY <2>1, <1>1, <1>3, MappedEntries
  <2>3. Entries[i + 1] = [value |-> data[chain[(i + 1) + 1]],
                          ready |-> next[chain[i + 1]] = chain[(i + 1) + 1]]
    BY <2>1, MappedEntries
  <2>4. chain'[i] = chain[i + 1] /\ chain'[i + 1] = chain[(i + 1) + 1]
    BY <2>1, <1>3
  <2>5. QED
    BY <2>2, <2>3, <2>4, <1>7
<1>9. Entries' = Tail(Entries)
  <2>1. Entries' \in Seq(Entry) /\ Len(Entries') = len - 2
    BY <1>2, <1>3, MappedEntries
  <2>2. QED
    BY <2>1, <1>7, <1>8, SeqEqual
<1>10. QED
  BY <1>1, <1>5, <1>6, <1>9 DEF Promised!Dequeue

(* The lock-free queue is a FIFO queue: it implements FifoQueue. *)
THEOREM QueueImplementation == QueueSpec => IsFifo
<1>1. QueueInit => Promised!Init
  <2> SUFFICES ASSUME QueueInit PROVE Entries = <<>> /\ result = NoValue
    BY DEF Promised!Init
  <2>1. Len(chain) = 1 /\ result = NoValue
    BY DEF QueueInit
  <2>2. QueueInv
    BY QueueInitInv
  <2>3. chain \in Seq(Node) /\ data \in [Node -> Value]
    BY <2>2 DEF QueueInv, QueueTypeOK
  <2>4. Entries = EntriesOf(chain, data, next)
    BY DEF Entries, EntriesOf
  <2>5. Entries \in Seq(Entry) /\ Len(Entries) = 0
    <3>1. Len(chain) >= 1 /\ Len(chain) - 1 = 0
      BY <2>1
    <3>2. QED
      BY <3>1, <2>3, <2>4, EntriesProperties
  <2>6. QED
    BY <2>1, <2>5, EmptySeq
<1>2. QueueInv /\ QueueInv' /\ [QueueNext]_queueVars => [Promised!Next]_<<Entries, result>>
  <2> SUFFICES ASSUME QueueInv, QueueInv', [QueueNext]_queueVars PROVE Promised!Next \/ UNCHANGED <<Entries, result>>
    OBVIOUS
  <2>1. ASSUME NEW p \in Producer, Link(p) PROVE Promised!Next
    BY <2>1, LinkImplements DEF Promised!Next
  <2>2. ASSUME NEW p \in Producer, NEW n \in Node, NEW v \in Value, Enqueue(p, n, v)
        PROVE  Promised!Next
    BY <2>2, EnqueueImplements DEF Promised!Next
  <2>3. CASE LoadNext
    BY <2>3, LoadNextImplements DEF Promised!Next
  <2>4. CASE Advance
    BY <2>4, AdvanceImplements DEF Promised!Next
  <2>5. CASE UNCHANGED queueVars
    BY <2>5 DEF queueVars, memVars, Entries
  <2>6. QED
    BY <2>1, <2>2, <2>3, <2>4, <2>5 DEF QueueNext, Consume
<1>3. QED
  BY <1>1, <1>2, QueueInvariance, PTL DEF QueueSpec, IsFifo, Promised!Spec
=============================================================================
