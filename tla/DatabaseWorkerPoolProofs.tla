----------------------- MODULE DatabaseWorkerPoolProofs -----------------------
(***************************************************************************)
(* Operations are stored completely or not at all.  An operation is in one *)
(* place at a time: in the queue, on one connection, or gone (OwnerInv);   *)
(* until it is gone nothing of it is stored, and what a session has in its *)
(* transaction is what its thread has executed so far (SessionInv).  The   *)
(* operations whose connection was lost are exempt from both.              *)
(*                                                                         *)
(* The second part, from Histories on, is about what the callers see of    *)
(* this: promises, retries and the order of what is stored.                *)
(***************************************************************************)
EXTENDS DatabaseWorkerPool, SequenceTheorems, TLAPS

Executing(c) == pc[c] \in {"run", "commit"}
Prefix(i) == [j \in 1 .. i - 1 |-> j]

Types ==
  /\ issued \in Nat
  /\ kind \in [1 .. issued -> Kind] /\ stored \in [1 .. issued -> Seq(Nat)]
  /\ queue \in Seq(Nat) /\ \A i \in 1 .. Len(queue) : queue[i] \in 1 .. issued
  /\ pc \in [Conn -> {"wait", "popped", "begin", "run", "commit", "lock", "out"}]
  /\ op \in [Conn -> 0 .. issued] /\ \A c \in Conn : Busy(c) => op[c] # 0
  /\ stmt \in [Conn -> Nat \ {0}]
  /\ open \in [Conn -> Seq(Nat)] /\ inTx \subseteq Conn
  /\ hit \subseteq 1 .. issued /\ gone \subseteq 1 .. issued
  /\ token \subseteq Worker

(* Every operation has one owner. *)
OwnerInv ==
  /\ \A i, j \in 1 .. Len(queue) : i # j => queue[i] # queue[j]
  /\ \A i \in 1 .. Len(queue) : /\ queue[i] \notin gone /\ stored[queue[i]] = <<>>
                                /\ \A c \in Conn : Busy(c) => op[c] # queue[i]
  /\ \A c, d \in Conn : Busy(c) /\ Busy(d) /\ op[c] = op[d] => c = d
  /\ \A c \in Conn : Busy(c) => op[c] \notin gone

(* A session's transaction is what its thread has executed of the operation. *)
SessionInv ==
  \A c \in Conn :
    /\ Busy(c) /\ op[c] \notin hit => stored[op[c]] = <<>>
    /\ pc[c] \in {"begin", "lock", "commit"} => kind[op[c]].tx
    /\ pc[c] = "run" => stmt[c] <= kind[op[c]].size
    /\ pc[c] = "commit" => stmt[c] = kind[op[c]].size + 1
    /\ Executing(c) /\ kind[op[c]].tx /\ op[c] \notin hit => c \in inTx
    /\ c \in inTx => Executing(c) /\ kind[op[c]].tx
    /\ c \in inTx /\ op[c] \notin hit => open[c] = Prefix(stmt[c])
    /\ c \notin inTx => open[c] = <<>>

IInv == Types /\ OwnerInv /\ SessionInv /\ AllOrNothing

LEMMA InitInv == Init => IInv
<1> SUFFICES ASSUME Init PROVE IInv
  OBVIOUS
<1>1. Types
  <2>1. queue \in Seq(Nat) /\ Len(queue) = 0 /\ \A c \in Conn : open[c] \in Seq(Nat)
    BY DEF Init
  <2>2. kind \in [1 .. issued -> Kind] /\ stored \in [1 .. issued -> Seq(Nat)]
    BY DEF Init
  <2>3. QED
    BY <2>1, <2>2 DEF Init, Types, Busy
<1>2. OwnerInv /\ SessionInv
  BY DEF Init, OwnerInv, SessionInv, Busy, Executing
<1>3. AllOrNothing
  BY DEF Init, AllOrNothing, Tasks
<1>4. QED
  BY <1>1, <1>2, <1>3 DEF IInv

(* A new operation: nobody has it yet, and nothing of it is stored. *)
LEMMA NewEffect ==
  ASSUME IInv, NEW k \in Kind, New(k)
  PROVE  /\ issued' = issued + 1 /\ issued' \in Nat
         /\ kind' \in [1 .. issued' -> Kind] /\ kind'[issued'] = k
         /\ stored' \in [1 .. issued' -> Seq(Nat)] /\ stored'[issued'] = <<>>
         /\ \A n \in 1 .. issued : n \in 1 .. issued' /\ kind'[n] = kind[n] /\ stored'[n] = stored[n]
         /\ token' = token /\ inTx' = inTx /\ open' = open /\ hit' = hit /\ gone' = gone
         /\ AllOrNothing'
<1> USE DEF IInv, Types
<1>1. /\ issued' = issued + 1 /\ issued' \in Nat
      /\ kind' = [n \in 1 .. issued + 1 |-> IF n <= issued THEN kind[n] ELSE k]
      /\ stored' = [n \in 1 .. issued + 1 |-> IF n <= issued THEN stored[n] ELSE <<>>]
      /\ token' = token /\ inTx' = inTx /\ open' = open /\ hit' = hit /\ gone' = gone
  BY DEF New, Extend
<1>2. <<>> \in Seq(Nat)
  OBVIOUS
<1>3. \A n \in 1 .. issued : n \in 1 .. issued' /\ kind'[n] = kind[n] /\ stored'[n] = stored[n]
  BY <1>1
<1>4. kind' \in [1 .. issued' -> Kind] /\ kind'[issued'] = k
  BY <1>1
<1>5. stored' \in [1 .. issued' -> Seq(Nat)] /\ stored'[issued'] = <<>>
  BY <1>1, <1>2
<1>6. AllOrNothing'
  BY <1>1, <1>3, <1>5 DEF AllOrNothing, Tasks, Full
<1>7. QED
  BY <1>1, <1>3, <1>4, <1>5, <1>6

LEMMA EnqueueStep == ASSUME IInv, NEW k \in Kind, Enqueue(k) PROVE IInv'
<1> USE DEF IInv
<1>1. /\ New(k) /\ queue' = Append(queue, issued')
      /\ pc' = pc /\ op' = op /\ stmt' = stmt
  BY DEF Enqueue
<1>2. \A c \in Conn : Busy(c) => op[c] \in 1 .. issued
  BY DEF Types, Busy
<1>3. issued \in Nat /\ issued' = issued + 1
  BY <1>1, NewEffect DEF Types
<1>a. /\ queue' \in Seq(Nat) /\ Len(queue) \in Nat
      /\ Len(queue') = Len(queue) + 1 /\ queue'[Len(queue) + 1] = issued'
      /\ \A i \in 1 .. Len(queue) : queue'[i] = queue[i] /\ queue[i] \in 1 .. issued
  BY <1>1, <1>3 DEF Types
<1>4. Types'
  <2>1. \A i \in 1 .. Len(queue') : queue'[i] \in 1 .. issued'
    BY <1>3, <1>a
  <2>2. \A c \in Conn : op[c] \in 0 .. issued'
    BY <1>3 DEF Types
  <2>3. hit \subseteq 1 .. issued' /\ gone \subseteq 1 .. issued'
    BY <1>3 DEF Types
  <2>4. QED
    BY <1>1, <1>a, <2>1, <2>2, <2>3, NewEffect DEF Types, Busy
<1>5. OwnerInv'
  <2>1. \A i \in 1 .. Len(queue') : i \in 1 .. Len(queue) \/ i = Len(queue) + 1
    BY <1>a
  <2>2. issued' \notin 1 .. issued /\ gone \subseteq 1 .. issued
    BY <1>3 DEF Types
  <2>3. /\ gone' = gone /\ stored'[issued'] = <<>>
        /\ \A n \in 1 .. issued : stored'[n] = stored[n]
    BY <1>1, NewEffect
  <2>4. \A i, j \in 1 .. Len(queue') : i # j => queue'[i] # queue'[j]
    BY <1>a, <2>1, <2>2 DEF OwnerInv
  <2>5. ASSUME NEW i \in 1 .. Len(queue')
        PROVE  /\ queue'[i] \notin gone' /\ stored'[queue'[i]] = <<>>
               /\ \A c \in Conn : Busy(c)' => op'[c] # queue'[i]
    <3>1. CASE i \in 1 .. Len(queue)
      BY <1>1, <1>a, <2>3, <3>1, SMTT(30) DEF OwnerInv, Busy
    <3>2. CASE i = Len(queue) + 1
      BY <1>1, <1>2, <1>a, <2>2, <2>3, <3>2 DEF Busy
    <3>3. QED  BY <2>1, <3>1, <3>2
  <2>6. QED
    BY <1>1, <2>3, <2>4, <2>5 DEF OwnerInv, Busy
<1>6. SessionInv'
  BY <1>1, <1>2, NewEffect, ZenonT(30) DEF SessionInv, Busy, Executing, Types
<1>7. QED
  BY <1>4, <1>5, <1>6, <1>1, NewEffect

LEMMA DirectStep == ASSUME IInv, NEW k \in Kind, NEW s \in Sync, Direct(s, k) PROVE IInv'
<1> USE DEF IInv
<1> s \in Conn /\ s \notin token
  BY ConnAssumption DEF Conn, Types
<1>1. /\ New(k) /\ queue' = queue /\ pc[s] = "wait"
      /\ pc' = [pc EXCEPT ![s] = Start(k)]
      /\ op' = [op EXCEPT ![s] = issued'] /\ stmt' = [stmt EXCEPT ![s] = 1]
  BY DEF Direct, Goto
<1>2. \A c \in Conn : Busy(c) => op[c] \in 1 .. issued
  BY DEF Types, Busy
<1>3. Start(k) \in {"begin", "run"} /\ (Start(k) = "begin" <=> k.tx) /\ (~k.tx => k.size = 1)
  BY KindAssumption DEF Start
<1>a. issued \in Nat /\ issued' = issued + 1 /\ issued' \notin 1 .. issued
  BY <1>1, NewEffect DEF Types
<1>4. Types'
  <2>1. \A i \in 1 .. Len(queue') : queue'[i] \in 1 .. issued'
    BY <1>1, <1>a DEF Types
  <2>2. \A c \in Conn : op'[c] \in 0 .. issued' /\ (Busy(c)' => op'[c] # 0)
    BY <1>1, <1>a DEF Types, Busy
  <2>3. hit \subseteq 1 .. issued' /\ gone \subseteq 1 .. issued'
    BY <1>a DEF Types
  <2>4. pc' \in [Conn -> {"wait", "popped", "begin", "run", "commit", "lock", "out"}]
        /\ op' \in [Conn -> 0 .. issued'] /\ stmt' \in [Conn -> Nat \ {0}]
    BY <1>1, <1>3, <2>2 DEF Types
  <2>5. QED
    BY <1>1, <2>1, <2>2, <2>3, <2>4, NewEffect DEF Types
<1>5. OwnerInv'
  <2>1. gone \subseteq 1 .. issued /\ \A i \in 1 .. Len(queue) : queue[i] \in 1 .. issued
    BY DEF Types
  <2>2. \A c \in Conn : Busy(c)' => IF c = s THEN op'[c] = issued' ELSE Busy(c) /\ op'[c] = op[c]
    BY <1>1, <1>3 DEF Busy, Types
  <2>3. gone' = gone /\ \A n \in 1 .. issued : stored'[n] = stored[n]
    BY <1>1, NewEffect
  <2>4. QED
    BY <1>1, <1>2, <1>a, <2>1, <2>2, <2>3 DEF OwnerInv
<1>6. SessionInv'
  <2>1. ASSUME NEW c \in Conn, c # s
        PROVE  pc'[c] = pc[c] /\ op'[c] = op[c] /\ stmt'[c] = stmt[c]
    BY <1>1, <2>1 DEF Types
  <2>2. pc'[s] = Start(k) /\ op'[s] = issued' /\ stmt'[s] = 1 /\ s \notin inTx
    BY <1>1 DEF Types, SessionInv, Executing
  <2>3. /\ issued' \notin hit /\ stored'[issued'] = <<>> /\ kind'[issued'] = k
        /\ \A n \in 1 .. issued : stored'[n] = stored[n] /\ kind'[n] = kind[n]
        /\ hit' = hit /\ inTx' = inTx /\ open' = open
    BY <1>1, <1>a, NewEffect DEF Types
  <2>4. QED
    BY <1>2, <1>3, <2>1, <2>2, <2>3 DEF SessionInv, Busy, Executing
<1>7. QED
  BY <1>1, <1>4, <1>5, <1>6, NewEffect

(* Close empties the queue and touches no connection. *)
LEMMA CloseStep == ASSUME IInv, NEW w \in Worker, Close(w) PROVE IInv'
<1> USE DEF IInv
<1>1. /\ queue' = <<>> /\ token' = token \cup {w}
      /\ gone' = gone \cup {queue[i] : i \in 1 .. Len(queue)}
      /\ issued' = issued /\ kind' = kind
      /\ UNCHANGED threadVars /\ UNCHANGED serverVars /\ hit' = hit
  BY DEF Close, historyVars
<1>2. Types'
  <2>1. \A i \in 1 .. Len(queue) : queue[i] \in 1 .. issued
    BY DEF Types
  <2>2. <<>> \in Seq(Nat) /\ Len(<<>>) = 0
    OBVIOUS
  <2>3. gone' \subseteq 1 .. issued
    BY <1>1, <2>1 DEF Types
  <2>4. queue' \in Seq(Nat) /\ \A i \in 1 .. Len(queue') : queue'[i] \in 1 .. issued
    BY <1>1, <2>2
  <2>5. QED
    BY <1>1, <2>3, <2>4 DEF Types, Busy, threadVars, serverVars
<1>3. OwnerInv'
  BY <1>1 DEF OwnerInv, Busy, threadVars, serverVars
<1>4. SessionInv' /\ AllOrNothing'
  BY <1>1 DEF SessionInv, Busy, Executing, threadVars, serverVars, AllOrNothing, Tasks
<1>5. QED
  BY <1>2, <1>3, <1>4

(* The operation at the head of the queue gets a new owner, a worker. *)
LEMMA PopStep == ASSUME IInv, NEW w \in Worker, WaitAndPop(w) PROVE IInv'
<1> USE DEF IInv
<1> w \in Conn
  BY DEF Conn
<1>1. /\ pc[w] = "wait" /\ queue # <<>>
      /\ op' = [op EXCEPT ![w] = Head(queue)] /\ queue' = Tail(queue)
      /\ pc' = [pc EXCEPT ![w] = "popped"]
      /\ issued' = issued /\ kind' = kind /\ token' = token /\ stmt' = stmt
      /\ UNCHANGED serverVars /\ hit' = hit /\ gone' = gone
  BY DEF WaitAndPop, Goto, historyVars
<1>2. /\ Head(queue) = queue[1] /\ queue[1] \in 1 .. issued /\ 1 \in 1 .. Len(queue)
      /\ \A i \in 1 .. Len(queue') : /\ queue'[i] = queue[i + 1]
                                     /\ i + 1 \in 1 .. Len(queue) /\ i + 1 # 1
      /\ queue' \in Seq(Nat)
  BY <1>1 DEF Types
<1>3. Types'
  <2>1. \A i \in 1 .. Len(queue') : queue'[i] \in 1 .. issued
    BY <1>2 DEF Types
  <2>2. op' \in [Conn -> 0 .. issued] /\ \A c \in Conn : Busy(c)' => op'[c] # 0
    BY <1>1, <1>2 DEF Types, Busy
  <2>3. QED
    BY <1>1, <1>2, <2>1, <2>2 DEF Types, serverVars
<1>4. \A c \in Conn : Busy(c)' => IF c = w THEN op'[c] = queue[1] ELSE Busy(c) /\ op'[c] = op[c]
  BY <1>1, <1>2 DEF Busy, Types
<1>5. OwnerInv'
  <2>1. ASSUME NEW i \in 1 .. Len(queue'), NEW j \in 1 .. Len(queue'), i # j
        PROVE  queue'[i] # queue'[j]
    <3>1. i + 1 # j + 1
      BY <2>1
    <3>2. /\ queue'[i] = queue[i + 1] /\ queue'[j] = queue[j + 1]
          /\ i + 1 \in 1 .. Len(queue) /\ j + 1 \in 1 .. Len(queue)
      BY <1>2
    <3>3. QED  BY <3>1, <3>2 DEF OwnerInv
  <2>2. ASSUME NEW i \in 1 .. Len(queue')
        PROVE  /\ queue'[i] \notin gone' /\ stored'[queue'[i]] = <<>>
               /\ \A c \in Conn : Busy(c)' => op'[c] # queue'[i]
    BY <1>1, <1>2, <1>4 DEF OwnerInv, serverVars
  <2>3. \A c, d \in Conn : Busy(c)' /\ Busy(d)' /\ op'[c] = op'[d] => c = d
    BY <1>2, <1>4, SMTT(30) DEF OwnerInv
  <2>4. \A c \in Conn : Busy(c)' => op'[c] \notin gone'
    BY <1>1, <1>2, <1>4 DEF OwnerInv
  <2>5. QED  BY <2>1, <2>2, <2>3, <2>4 DEF OwnerInv
<1>6. SessionInv'
  <2>1. \A c \in Conn : c # w => pc'[c] = pc[c] /\ op'[c] = op[c]
    BY <1>1 DEF Types
  <2>2. pc'[w] = "popped" /\ op'[w] = queue[1] /\ stored[queue[1]] = <<>> /\ w \notin inTx
    BY <1>1, <1>2 DEF Types, SessionInv, OwnerInv, Executing
  <2>3. QED
    BY <1>1, <2>1, <2>2 DEF SessionInv, Busy, Executing, serverVars
<1>7. AllOrNothing'
  BY <1>1 DEF AllOrNothing, Tasks, serverVars
<1>8. QED
  BY <1>3, <1>5, <1>6, <1>7

(* The other steps of a worker outside of its operation. *)
LEMMA ThreadStep ==
  ASSUME IInv, NEW w \in Worker,
         ReturnOnNull(w) \/ ReturnOnToken(w) \/ CallOperation(w) \/ LockDeadlock(w)
  PROVE  IInv'
<1> USE DEF IInv
<1> w \in Conn
  BY DEF Conn
<1>1. CASE ReturnOnNull(w) \/ ReturnOnToken(w)
  <2>1. /\ pc' = [pc EXCEPT ![w] = "out"] /\ pc[w] \in {"wait", "popped"}
        /\ issued' = issued /\ kind' = kind /\ queue' = queue /\ token' = token
        /\ op' = op /\ stmt' = stmt /\ UNCHANGED serverVars /\ hit' = hit
        /\ \/ gone' = gone
           \/ pc[w] = "popped" /\ gone' = gone \cup {op[w]}
    BY <1>1 DEF ReturnOnNull, ReturnOnToken, Goto, poolVars, historyVars
  <2>2. \A c \in Conn : IF c = w THEN pc'[c] = "out" ELSE pc'[c] = pc[c]
    BY <2>1 DEF Types
  <2>3. Types'
    <3>a. pc[w] = "popped" => op[w] \in 1 .. issued
      BY DEF Types, Busy
    <3>1. gone' \subseteq 1 .. issued
      BY <2>1, <3>a DEF Types
    <3>2. QED
      BY <2>1, <2>2, <3>1 DEF Types, Busy, serverVars
  <2>4. OwnerInv'
    BY <2>1, <2>2 DEF OwnerInv, Busy, serverVars
  <2>5. SessionInv' /\ AllOrNothing'
    BY <2>1, <2>2 DEF SessionInv, Busy, Executing, serverVars, AllOrNothing, Tasks
  <2>6. QED  BY <2>3, <2>4, <2>5
<1>2. CASE CallOperation(w) \/ LockDeadlock(w)
  <2>a. /\ issued' = issued /\ kind' = kind /\ queue' = queue /\ token' = token
        /\ op' = op /\ UNCHANGED serverVars /\ hit' = hit /\ gone' = gone
    BY <1>2 DEF CallOperation, LockDeadlock, poolVars, historyVars
  <2>1. /\ pc' = [pc EXCEPT ![w] = pc'[w]] /\ pc[w] \in {"popped", "lock"}
        /\ pc'[w] \in {"begin", "run"} /\ (pc'[w] = "begin" <=> kind[op[w]].tx)
        /\ (pc'[w] = "run" => stmt'[w] = 1)
        /\ stmt' \in [Conn -> Nat \ {0}] /\ \A c \in Conn : c # w => stmt'[c] = stmt[c]
    <3>1. CASE CallOperation(w)
      BY <3>1 DEF CallOperation, Goto, Start, Types
    <3>2. CASE LockDeadlock(w)
      BY <3>2 DEF LockDeadlock, Goto, Types, SessionInv
    <3>3. QED  BY <1>2, <3>1, <3>2
  <2>2. \A c \in Conn : c # w => pc'[c] = pc[c]
    BY <2>1 DEF Types
  <2>3. op[w] \in 1 .. issued /\ kind[op[w]] \in Kind
    BY <2>1 DEF Types, Busy
  <2>4. Types'
    BY <2>a, <2>1, <2>2, ZenonT(30) DEF Types, Busy, serverVars
  <2>5. OwnerInv'
    BY <2>a, <2>1, <2>2 DEF OwnerInv, Busy, serverVars
  <2>6. SessionInv' /\ AllOrNothing'
    <3>1. pc'[w] = "run" => stmt'[w] <= kind[op[w]].size
      BY <2>1, <2>3, KindAssumption
    <3>2. QED
      BY <2>a, <2>1, <2>2, <3>1 DEF SessionInv, Busy, Executing, serverVars, AllOrNothing, Tasks
  <2>7. QED  BY <2>4, <2>5, <2>6
<1>3. QED
  BY <1>1, <1>2

-----------------------------------------------------------------------------
(* The steps of an operation on connection c. *)

(* An attempt that failed: the operation is gone, or tried again. *)
LEMMA FailEffect ==
  ASSUME IInv, NEW c \in Conn, NEW d \in BOOLEAN, Busy(c), Fail(c, d)
  PROVE  /\ op' = op /\ pc' = [pc EXCEPT ![c] = pc'[c]]
         /\ \/ pc'[c] = "wait" /\ gone' = gone \cup {op[c]}
            \/ pc'[c] \in {"lock", "begin"} /\ kind[op[c]].tx /\ gone' = gone
BY DEF Fail, Finish, Goto, IInv, Types

(* What the steps of an operation leave alone. *)
Frame(c) ==
  /\ issued' = issued /\ kind' = kind /\ queue' = queue /\ token' = token
  /\ op' = op /\ pc' = [pc EXCEPT ![c] = pc'[c]]
  /\ pc'[c] \in {"wait", "lock", "begin", "run", "commit"}
  /\ gone' = IF pc'[c] = "wait" THEN gone \cup {op[c]} ELSE gone
  /\ stmt' = [stmt EXCEPT ![c] = stmt'[c]] /\ stmt'[c] \in Nat \ {0}
  /\ inTx' \subseteq Conn /\ open' \in [Conn -> Seq(Nat)]
  /\ \A d \in Conn : d # c => open'[d] = open[d] /\ (d \in inTx' <=> d \in inTx)
  /\ stored' \in [1 .. issued -> Seq(Nat)]
  /\ \A n \in 1 .. issued : n # op[c] => stored'[n] = stored[n]
  /\ hit \subseteq hit' /\ hit' \subseteq hit \cup {op[c]}

(* The session of c after a step of its operation. *)
Session(c) ==
  /\ Busy(c)' /\ op[c] \notin hit' => stored'[op[c]] = <<>>
  /\ pc'[c] \in {"begin", "lock", "commit"} => kind[op[c]].tx
  /\ pc'[c] = "run" => stmt'[c] <= kind[op[c]].size
  /\ pc'[c] = "commit" => stmt'[c] = kind[op[c]].size + 1
  /\ Executing(c)' /\ kind[op[c]].tx /\ op[c] \notin hit' => c \in inTx'
  /\ c \in inTx' => Executing(c)' /\ kind[op[c]].tx
  /\ c \in inTx' /\ op[c] \notin hit' => open'[c] = Prefix(stmt'[c])
  /\ c \notin inTx' => open'[c] = <<>>

(* An operation that keeps to its own connection preserves the invariant. *)
LEMMA FrameStep ==
  ASSUME IInv, NEW c \in Conn, Busy(c), Frame(c), Session(c),
         op[c] \notin hit' => stored'[op[c]] \in {<<>>, Full(kind[op[c]])}
  PROVE  IInv'
<1> USE DEF IInv
<1>1. /\ op[c] \in 1 .. issued /\ op[c] \notin gone
      /\ \A d \in Conn : Busy(d) => op[d] \in 1 .. issued
      /\ \A d \in Conn : d # c /\ Busy(d) => op[d] # op[c]
  BY DEF Types, Busy, OwnerInv
<1>2. \A d \in Conn : d # c => pc'[d] = pc[d] /\ stmt'[d] = stmt[d]
  BY DEF Frame, Types
<1>3. Types'
  <2>1. gone' \subseteq 1 .. issued /\ hit' \subseteq 1 .. issued
    BY <1>1 DEF Frame, Types
  <2>a. stmt' \in [Conn -> Nat \ {0}]
    BY DEF Frame, Types
  <2>b. pc'[c] \in {"wait", "popped", "begin", "run", "commit", "lock", "out"}
    BY DEF Frame
  <2>2. pc' \in [Conn -> {"wait", "popped", "begin", "run", "commit", "lock", "out"}]
    <3>1. pc' = [pc EXCEPT ![c] = pc'[c]]
      BY DEF Frame
    <3>2. pc \in [Conn -> {"wait", "popped", "begin", "run", "commit", "lock", "out"}]
      BY DEF Types
    <3>3. QED  BY <2>b, <3>1, <3>2
  <2>3. \A d \in Conn : Busy(d)' => op'[d] # 0
    BY <1>1, <1>2 DEF Frame, Busy, Types
  <2>4. QED
    BY <2>1, <2>a, <2>2, <2>3 DEF Frame, Types
<1>4. OwnerInv'
  <2>1. \A d \in Conn : Busy(d)' => Busy(d)
    BY <1>2 DEF Busy
  <2>2. \A i \in 1 .. Len(queue) : queue[i] \in 1 .. issued /\ queue[i] # op[c]
    BY DEF Types, OwnerInv
  <2>3. \A d \in Conn : Busy(d)' => op[d] \notin gone'
    BY <1>1, <2>1 DEF Frame, OwnerInv, Busy
  <2>4. \A i \in 1 .. Len(queue) : queue[i] \notin gone' /\ stored'[queue[i]] = <<>>
    BY <2>2 DEF Frame, OwnerInv
  <2>5. QED
    BY <2>1, <2>2, <2>3, <2>4 DEF Frame, OwnerInv
<1>5. SessionInv'
  <2>1. ASSUME NEW d \in Conn, d # c
        PROVE  /\ pc'[d] = pc[d] /\ stmt'[d] = stmt[d] /\ op'[d] = op[d] /\ kind' = kind
               /\ open'[d] = open[d] /\ (d \in inTx' <=> d \in inTx)
               /\ Busy(d) => /\ stored'[op[d]] = stored[op[d]]
                             /\ op[d] \in hit' <=> op[d] \in hit
    BY <1>1, <1>2, <2>1 DEF Frame
  <2>2. op'[c] = op[c] /\ kind' = kind
    BY DEF Frame
  <2>3. QED
    BY <2>1, <2>2 DEF SessionInv, Session, Busy, Executing
<1>6. AllOrNothing'
  BY <1>1 DEF AllOrNothing, Tasks, Frame
<1>7. QED
  BY <1>3, <1>4, <1>5, <1>6

(* A failed attempt leaves the session without a transaction. *)
LEMMA RollbackStep ==
  ASSUME IInv, NEW c \in Conn, Busy(c), NEW d \in BOOLEAN, Fail(c, d),
         UNCHANGED <<poolVars, stmt, stored, hit>>,
         inTx' = inTx \ {c}, open' = [open EXCEPT ![c] = <<>>]
  PROVE  Frame(c) /\ IInv'
<1>1. Frame(c)
  BY FailEffect, EmptySeq, SMTT(30) DEF Frame, IInv, Types, poolVars
<1>2. Session(c)
  BY FailEffect, ZenonT(30) DEF Session, IInv, Types, SessionInv, Busy, Executing
<1>3. op[c] \notin hit' => stored'[op[c]] \in {<<>>, Full(kind[op[c]])}
  BY DEF IInv, SessionInv
<1>4. QED
  BY <1>1, <1>2, <1>3, FrameStep

LEMMA FailedStep ==
  ASSUME IInv, NEW c \in Conn, EmptyTransaction(c) \/ Reject(c) \/ Deadlock(c)
  PROVE  Frame(c) /\ IInv'
<1>1. CASE EmptyTransaction(c)
  <2>1. Busy(c) /\ c \notin inTx /\ open[c] = <<>>
    BY <1>1 DEF EmptyTransaction, IInv, SessionInv, Busy, Executing
  <2>2. inTx' = inTx \ {c} /\ open' = [open EXCEPT ![c] = <<>>]
    BY <1>1, <2>1 DEF EmptyTransaction, serverVars, IInv, Types
  <2>3. Fail(c, FALSE) /\ UNCHANGED <<poolVars, stmt, stored, hit>>
    BY <1>1 DEF EmptyTransaction, serverVars, historyVars
  <2>4. QED  BY <2>1, <2>2, <2>3, RollbackStep
<1>2. CASE Reject(c) \/ Deadlock(c)
  <2>1. Busy(c) /\ inTx' = inTx \ {c} /\ open' = [open EXCEPT ![c] = <<>>]
        /\ UNCHANGED <<poolVars, stmt, stored, hit>> /\ \E d \in BOOLEAN : Fail(c, d)
    BY <1>2 DEF Reject, Deadlock, Busy
  <2>2. QED  BY <2>1, RollbackStep
<1>3. QED  BY <1>1, <1>2

LEMMA BeginStep == ASSUME IInv, NEW c \in Conn, Begin(c) PROVE Frame(c) /\ IInv'
<1> USE DEF IInv
<1>1. /\ pc[c] = "begin" /\ kind[op[c]].size > 0 /\ kind[op[c]].tx /\ Busy(c)
      /\ pc' = [pc EXCEPT ![c] = "run"] /\ stmt' = [stmt EXCEPT ![c] = 1]
      /\ inTx' = inTx \cup {c} /\ open' = open /\ open[c] = <<>> /\ stored' = stored
      /\ issued' = issued /\ kind' = kind /\ queue' = queue /\ token' = token
      /\ op' = op /\ gone' = gone /\ hit' = hit
  BY DEF Begin, Goto, Busy, SessionInv, Executing, poolVars, historyVars
<1>2. op[c] \in 1 .. issued /\ kind[op[c]].size \in Nat
  BY <1>1, KindAssumption DEF Types, Busy
<1>3. Frame(c)
  BY <1>1, SMTT(30) DEF Frame, Types
<1>4. Session(c)
  <2>1. Prefix(1) = <<>>
    BY DEF Prefix
  <2>2. QED
    BY <1>1, <1>2, <2>1 DEF Session, SessionInv, Busy, Executing, Types
<1>5. QED
  BY <1>1, <1>3, <1>4, FrameStep DEF SessionInv

(* A transaction's statement joins the prefix its session has; any other *)
(* operation is stored by its only statement.                            *)
LEMMA StatementStep ==
  ASSUME IInv, NEW c \in Conn, Statement(c)
  PROVE  /\ Frame(c) /\ IInv'
         /\ ~kind[op[c]].tx /\ op[c] \notin hit => stored'[op[c]] = Full(kind[op[c]])
<1> USE DEF IInv
<1> DEFINE n == op[c]
<1>1. /\ pc[c] = "run" /\ Busy(c) /\ n \in 1 .. issued /\ kind[n] \in Kind
      /\ stmt[c] \in Nat \ {0} /\ stmt[c] <= kind[n].size /\ kind[n].size \in Nat
      /\ (~kind[n].tx => kind[n].size = 1)
  BY KindAssumption DEF Statement, Types, Busy, SessionInv
<1>2. /\ issued' = issued /\ kind' = kind /\ queue' = queue /\ token' = token
      /\ hit' = hit /\ inTx' = inTx /\ stmt' = [stmt EXCEPT ![c] = stmt[c] + 1]
  BY DEF Statement, poolVars, historyVars
<1>3. /\ op' = op /\ pc' = [pc EXCEPT ![c] = pc'[c]]
      /\ pc'[c] = IF ~kind[n].tx THEN "wait"
                  ELSE IF stmt[c] = kind[n].size THEN "commit" ELSE "run"
      /\ gone' = IF pc'[c] = "wait" THEN gone \cup {n} ELSE gone
  BY DEF Statement, Finish, Goto, Types
<1>4. CASE c \in inTx
  <2>1. open' = [open EXCEPT ![c] = Append(open[c], stmt[c])] /\ stored' = stored /\ kind[n].tx
    BY <1>4 DEF Statement, Store, SessionInv
  <2>2. open'[c] = Append(open[c], stmt[c]) /\ open'[c] \in Seq(Nat)
    BY <1>1, <2>1 DEF Types
  <2>3. Frame(c)
    BY <1>1, <1>2, <1>3, <2>1, <2>2 DEF Frame, Types
  <2>4. n \notin hit => open'[c] = Prefix(stmt[c] + 1)
    <3>1. SUFFICES ASSUME n \notin hit PROVE Append(open[c], stmt[c]) = Prefix(stmt[c] + 1)
      BY <2>2
    <3>2. open[c] = Prefix(stmt[c])
      BY <1>4, <3>1 DEF SessionInv
    <3>3. Append(Prefix(stmt[c]), stmt[c]) = Prefix(stmt[c] + 1)
      BY <1>1 DEF Prefix
    <3>4. QED  BY <3>2, <3>3
  <2>5. Session(c)
    <3>1. /\ stmt'[c] = stmt[c] + 1 /\ c \in inTx' /\ kind[n].tx
          /\ \/ pc'[c] = "commit" /\ stmt[c] = kind[n].size
             \/ pc'[c] = "run" /\ stmt[c] # kind[n].size
      BY <1>2, <1>3, <1>4, <2>1 DEF Types
    <3>2. pc'[c] = "run" => stmt'[c] <= kind[n].size
      BY <1>1, <3>1
    <3>3. n \notin hit' => stored'[n] = <<>>
      BY <1>1, <1>2, <2>1 DEF SessionInv
    <3>4. QED
      BY <1>2, <2>4, <3>1, <3>2, <3>3 DEF Session, Executing
  <2>6. IInv'
    BY <1>1, <2>1, <2>3, <2>5, <1>2, FrameStep DEF SessionInv
  <2>7. QED
    BY <2>1, <2>3, <2>6
<1>5. CASE c \notin inTx
  <2>1. stored' = [stored EXCEPT ![n] = Append(stored[n], stmt[c])] /\ open' = open
    BY <1>5 DEF Statement, Store
  <2>2. stored'[n] = Append(stored[n], stmt[c]) /\ stored'[n] \in Seq(Nat)
    BY <1>1, <2>1 DEF Types
  <2>3. Frame(c)
    BY <1>1, <1>2, <1>3, <2>1, <2>2 DEF Frame, Types
  <2>4. n \notin hit => ~kind[n].tx /\ stored[n] = <<>>
    BY <1>1, <1>5 DEF SessionInv, Executing
  <2>5. Session(c)
    <3>1. /\ stmt'[c] = stmt[c] + 1 /\ c \notin inTx' /\ open'[c] = <<>>
      BY <1>2, <1>5, <2>1 DEF Types, SessionInv
    <3>2. CASE ~kind[n].tx
      BY <1>3, <3>1, <3>2 DEF Session, Executing, Busy
    <3>3. CASE kind[n].tx
      <4>1. n \in hit'
        BY <1>2, <2>4, <3>3
      <4>2. \/ pc'[c] = "commit" /\ stmt[c] = kind[n].size
            \/ pc'[c] = "run" /\ stmt[c] # kind[n].size
        BY <1>3, <3>3
      <4>3. pc'[c] = "run" => stmt'[c] <= kind[n].size
        BY <1>1, <3>1, <4>2
      <4>4. QED
        BY <3>1, <3>3, <4>1, <4>2, <4>3 DEF Session
    <3>4. QED  BY <3>2, <3>3
  <2>6. n \notin hit => stored'[n] = Full(kind[n])
    <3>1. SUFFICES ASSUME n \notin hit PROVE stored'[n] = Full(kind[n])
      OBVIOUS
    <3>2. stmt[c] = 1 /\ kind[n].size = 1 /\ stored'[n] = Append(<<>>, 1)
      <4>1. ~kind[n].tx /\ stored[n] = <<>>
        BY <2>4, <3>1
      <4>2. kind[n].size = 1
        BY <1>1, <4>1
      <4>3. stmt[c] = 1
        BY <1>1, <4>2
      <4>4. QED  BY <2>2, <4>1, <4>2, <4>3
    <3>3. Append(<<>>, 1) = [i \in 1 .. 1 |-> i]
      OBVIOUS
    <3>4. QED  BY <3>2, <3>3 DEF Full
  <2>7. IInv'
    BY <1>1, <1>2, <2>3, <2>5, <2>6, FrameStep
  <2>8. QED
    BY <2>3, <2>6, <2>7
<1>6. QED
  BY <1>4, <1>5

LEMMA CommitStep ==
  ASSUME IInv, NEW c \in Conn, Commit(c)
  PROVE  /\ Frame(c) /\ IInv'
         /\ op[c] \notin hit => stored'[op[c]] = Full(kind[op[c]])
<1> USE DEF IInv
<1> DEFINE n == op[c]
<1>1. /\ pc[c] = "commit" /\ Busy(c) /\ n \in 1 .. issued /\ kind[n] \in Kind
      /\ kind[n].tx /\ stmt[c] = kind[n].size + 1 /\ kind[n].size \in Nat
  BY KindAssumption DEF Commit, Types, Busy, SessionInv
<1>2. /\ issued' = issued /\ kind' = kind /\ queue' = queue /\ token' = token /\ stmt' = stmt
      /\ hit' = hit /\ inTx' = inTx \ {c} /\ open' = [open EXCEPT ![c] = <<>>]
      /\ op' = op /\ pc' = [pc EXCEPT ![c] = "wait"] /\ gone' = gone \cup {n}
      /\ stored' = IF c \in inTx THEN [stored EXCEPT ![n] = stored[n] \o open[c]] ELSE stored
  BY DEF Commit, Finish, Goto, poolVars, historyVars
<1>3. Frame(c)
  <2>1. stored' \in [1 .. issued -> Seq(Nat)] /\ open' \in [Conn -> Seq(Nat)]
    BY <1>1, <1>2, EmptySeq DEF Types
  <2>2. QED
    BY <1>1, <1>2, <2>1 DEF Frame, Types
<1>4. Session(c)
  BY <1>1, <1>2 DEF Session, Busy, Executing, Types
<1>5. n \notin hit => stored'[n] = Full(kind[n])
  <2>1. SUFFICES ASSUME n \notin hit PROVE stored'[n] = Full(kind[n])
    OBVIOUS
  <2>2. c \in inTx /\ stored[n] = <<>> /\ open[c] = Prefix(kind[n].size + 1)
    BY <1>1, <2>1 DEF SessionInv, Executing
  <2>3. stored'[n] = <<>> \o open[c] /\ open[c] \in Seq(Nat)
    BY <1>1, <1>2, <2>2 DEF Types
  <2>4. <<>> \o open[c] = open[c]
    BY <2>3
  <2>5. Prefix(kind[n].size + 1) = Full(kind[n])
    BY <1>1 DEF Prefix, Full
  <2>6. QED  BY <2>2, <2>3, <2>4, <2>5
<1>6. IInv'
  BY <1>1, <1>2, <1>3, <1>4, <1>5, FrameStep
<1>7. QED
  BY <1>3, <1>5, <1>6

(* A lost connection exempts its operation. *)
LEMMA LoseStep ==
  ASSUME IInv, NEW c \in Conn, LoseConnection(c) \/ LoseReply(c)
  PROVE  Frame(c) /\ IInv'
<1> USE DEF IInv
<1>1. /\ Executing(c) /\ Busy(c) /\ op[c] \in 1 .. issued /\ pc[c] \in {"run", "commit"}
  BY DEF LoseConnection, LoseReply, Executing, Busy, Types
<1>2. /\ issued' = issued /\ kind' = kind /\ queue' = queue /\ token' = token /\ stmt' = stmt
      /\ op' = op /\ pc' = pc /\ gone' = gone /\ hit' = hit \cup {op[c]}
  BY DEF LoseConnection, LoseReply, poolVars, threadVars
<1>3. /\ inTx' = inTx \ {c} /\ open' \in [Conn -> Seq(Nat)] /\ open'[c] = <<>>
      /\ \A d \in Conn : d # c => open'[d] = open[d]
      /\ stored' \in [1 .. issued -> Seq(Nat)]
      /\ \A m \in 1 .. issued : m # op[c] => stored'[m] = stored[m]
  <2>1. CASE LoseConnection(c)
    BY <2>1, EmptySeq DEF LoseConnection, Types
  <2>2. CASE LoseReply(c)
    <3>1. /\ inTx' = inTx /\ open' = open /\ c \notin inTx
          /\ stored' = [stored EXCEPT ![op[c]] = Append(stored[op[c]], stmt[c])]
      BY <2>2 DEF LoseReply, Store
    <3>2. Append(stored[op[c]], stmt[c]) \in Seq(Nat)
      BY <1>1 DEF Types
    <3>3. QED
      BY <1>1, <3>1, <3>2 DEF Types, SessionInv
  <2>3. QED  BY <2>1, <2>2
<1>4. Frame(c)
  BY <1>1, <1>2, <1>3 DEF Frame, Types
<1>5. Session(c)
  BY <1>1, <1>2, <1>3 DEF Session, SessionInv, Busy, Executing
<1>6. QED
  BY <1>1, <1>2, <1>4, <1>5, FrameStep

(* The inductive invariant, for any connections, kinds and bounds. *)
THEOREM Invariance == Spec => []IInv
<1>1. IInv /\ UNCHANGED vars => IInv'
  BY DEF IInv, Types, OwnerInv, SessionInv, AllOrNothing, Tasks, Busy, Executing,
         vars, poolVars, threadVars, serverVars, historyVars
<1>2. ASSUME IInv, Next PROVE IInv'
  <2>1. ASSUME NEW k \in Kind, Enqueue(k) \/ \E s \in Sync : Direct(s, k) PROVE IInv'
    BY <1>2, <2>1, EnqueueStep, DirectStep
  <2>2. ASSUME NEW w \in Worker, Close(w) \/ Thread(w) PROVE IInv'
    BY <1>2, <2>2, CloseStep, PopStep, ThreadStep DEF Thread
  <2>3. ASSUME NEW c \in Conn, Run(c) \/ Server(c) PROVE IInv'
    BY <1>2, <2>3, FailedStep, BeginStep, StatementStep, CommitStep, LoseStep DEF Run, Server
  <2>4. QED
    BY <1>2, <2>1, <2>2, <2>3 DEF Next
<1>3. QED
  BY InitInv, <1>1, <1>2, PTL DEF Spec

(* Through deadlocks, retries, rejected statements and Close, whatever the *)
(* number of workers: ExecuteTransaction stores all the statements of a    *)
(* transaction, in the order of the Append calls, or none.                 *)
THEOREM TransactionsAreAtomic == Spec => []AllOrNothing
<1>1. IInv => AllOrNothing
  BY DEF IInv
<1>2. QED
  BY <1>1, Invariance, PTL
-----------------------------------------------------------------------------
(***************************************************************************)
(* What is told about the operations.  The promise of an operation is set  *)
(* only when the operation is gone (AnswerInv); while it is attempted it   *)
(* met as many deadlocks as there were attempts before (RetryInv); and     *)
(* when one worker has taken every operation so far, nothing is in the log *)
(* that comes after what this worker is at, and nothing in the queue that  *)
(* comes before (OrderInv).                                                *)
(***************************************************************************)
Attempting(c) == pc[c] \in {"begin", "run", "commit", "lock"}

Histories ==
  /\ answer \in [1 .. issued -> {"none", "pending", "true", "false", "broken"}]
  /\ victims \in [1 .. issued -> Nat] /\ rejected \subseteq 1 .. issued
  /\ try \in [Conn -> 0 .. Retries]
  /\ log \in Seq(Nat) /\ \A i \in 1 .. Len(log) : log[i] \in 1 .. issued

AnswerInv ==
  /\ \A n \in 1 .. issued : answer[n] \in {"true", "false", "broken"} => n \in gone
  /\ AnswersAreTrue

RetryInv ==
  /\ \A c \in Conn :
       Attempting(c) /\ kind[op[c]].size > 0 /\ op[c] \notin rejected \cup hit
         => victims[op[c]] >= try[c]
  /\ GivenUpForAReason

OnlyWorker(w) == \A v \in Worker \ {w} : op[v] = 0

Ordered(w) ==
  /\ \A i \in 1 .. Len(log) : ~kind[log[i]].direct => log[i] <= op[w]
  /\ \A i, j \in 1 .. Len(log) :
       i < j /\ ~kind[log[i]].direct /\ ~kind[log[j]].direct => log[i] <= log[j]
  /\ \A i \in 1 .. Len(queue) : op[w] < queue[i]

OrderInv ==
  /\ \A s \in Sync : Busy(s) => kind[op[s]].direct
  /\ \A i, j \in 1 .. Len(queue) : i < j => queue[i] < queue[j]
  /\ \A w \in Worker : OnlyWorker(w) => Ordered(w)

JInv == IInv /\ Histories /\ AnswerInv /\ RetryInv /\ OrderInv

(* What a step of the operation on c does to the histories. *)
Note(c) ==
  /\ answer' \in [1 .. issued -> {"none", "pending", "true", "false", "broken"}]
  /\ victims' \in [1 .. issued -> Nat]
  /\ \A n \in 1 .. issued : n # op[c] => answer'[n] = answer[n] /\ victims'[n] = victims[n]
  /\ rejected \subseteq rejected' /\ rejected' \subseteq rejected \cup {op[c]}
  /\ try' = [try EXCEPT ![c] = try'[c]] /\ try'[c] \in 0 .. Retries
  /\ log' = log \/ log' = Append(log, op[c])

Told(c) ==
  /\ pc'[c] # "wait" => answer'[op[c]] = answer[op[c]]
  /\ pc'[c] = "wait" /\ op[c] \notin hit' =>
       /\ answer'[op[c]] = "true" => stored'[op[c]] = Full(kind[op[c]])
       /\ answer'[op[c]] \in {"false", "broken"} => stored'[op[c]] = <<>>

Counted(c) ==
  kind[op[c]].size > 0 /\ op[c] \notin rejected' \cup hit' =>
    /\ pc'[c] # "wait" => victims'[op[c]] >= try'[c]
    /\ pc'[c] = "wait" /\ kind[op[c]].tx /\ stored'[op[c]] = <<>> => victims'[op[c]] > Retries

LEMMA NoteHistories ==
  ASSUME JInv, NEW c \in Conn, Attempting(c), Frame(c), Note(c)
  PROVE  Histories'
<1>1. op[c] \in 1 .. issued
  BY DEF JInv, IInv, Types, Busy, Attempting
<1>2. rejected' \subseteq 1 .. issued /\ try' \in [Conn -> 0 .. Retries]
  BY <1>1 DEF Note, JInv, Histories
<1>3. log' \in Seq(Nat) /\ \A i \in 1 .. Len(log') : log'[i] \in 1 .. issued
  <2>1. log \in Seq(Nat) /\ \A i \in 1 .. Len(log) : log[i] \in 1 .. issued
    BY DEF JInv, Histories
  <2>2. CASE log' = Append(log, op[c])
    BY <1>1, <2>1, <2>2
  <2>3. QED  BY <2>1, <2>2 DEF Note
<1>4. QED
  BY <1>2, <1>3 DEF Frame, Note, Histories

(* Nobody else's operation is touched, and this one had no answer yet. *)
LEMMA NoteAnswers ==
  ASSUME JInv, NEW c \in Conn, Attempting(c), Frame(c), Note(c), Told(c)
  PROVE  AnswerInv'
<1>1. op[c] \in 1 .. issued /\ op[c] \notin gone
  BY DEF JInv, IInv, Types, OwnerInv, Busy, Attempting
<1>2. /\ issued' = issued /\ kind' = kind /\ hit \subseteq hit'
      /\ gone' = IF pc'[c] = "wait" THEN gone \cup {op[c]} ELSE gone
      /\ \A n \in 1 .. issued : n # op[c] => stored'[n] = stored[n] /\ answer'[n] = answer[n]
  BY DEF Frame, Note
<1>3. answer[op[c]] \notin {"true", "false", "broken"}
  BY <1>1 DEF JInv, AnswerInv
<1>a. pc'[c] # "wait" => answer'[op[c]] = answer[op[c]]
  BY DEF Told
<1>b. \A n \in 1 .. issued : answer[n] \in {"true", "false", "broken"} => n \in gone
  BY DEF JInv, AnswerInv
<1>4. ASSUME NEW n \in 1 .. issued, answer'[n] \in {"true", "false", "broken"}
      PROVE  n \in gone'
  <2>1. CASE n = op[c]
    BY <1>2, <1>3, <1>4, <1>a, <2>1
  <2>2. CASE n # op[c]
    BY <1>2, <1>4, <1>b, <2>2
  <2>3. QED  BY <2>1, <2>2
<1>5. AnswersAreTrue'
  <2>1. SUFFICES ASSUME NEW n \in 1 .. issued, n \notin hit'
                 PROVE  /\ answer'[n] = "true" => stored'[n] = Full(kind[n])
                        /\ answer'[n] \in {"false", "broken"} => stored'[n] = <<>>
    BY <1>2 DEF AnswersAreTrue, Tasks, Full
  <2>2. CASE n = op[c] /\ pc'[c] = "wait"
    BY <2>1, <2>2 DEF Told
  <2>3. CASE n = op[c] /\ pc'[c] # "wait"
    <3>1. answer'[n] \notin {"true", "false", "broken"}
      BY <1>3, <1>a, <2>3
    <3>2. QED  BY <3>1
  <2>4. CASE n # op[c]
    <3>1. n \in Tasks \ hit /\ stored'[n] = stored[n] /\ answer'[n] = answer[n]
      BY <1>2, <2>1, <2>4 DEF Tasks
    <3>2. QED
      BY <3>1 DEF JInv, AnswerInv, AnswersAreTrue
  <2>5. QED  BY <2>2, <2>3, <2>4
<1>6. QED
  BY <1>2, <1>4, <1>5 DEF AnswerInv

LEMMA NoteRetries ==
  ASSUME JInv, NEW c \in Conn, Attempting(c), Frame(c), Note(c), Counted(c)
  PROVE  RetryInv'
<1>1. /\ \A d \in Conn : Attempting(d) => op[d] \in 1 .. issued /\ (d # c => op[d] # op[c])
      /\ gone \subseteq 1 .. issued /\ op[c] \notin gone
  BY DEF JInv, IInv, Types, OwnerInv, Busy, Attempting
<1>2. /\ issued' = issued /\ kind' = kind /\ op' = op /\ token' = token /\ hit \subseteq hit'
      /\ gone' = IF pc'[c] = "wait" THEN gone \cup {op[c]} ELSE gone
      /\ rejected \subseteq rejected'
      /\ \A n \in 1 .. issued : n # op[c] => stored'[n] = stored[n] /\ victims'[n] = victims[n]
      /\ \A d \in Conn : d # c => pc'[d] = pc[d] /\ try'[d] = try[d]
  BY DEF Frame, Note, JInv, IInv, Types, Histories
<1>3. ASSUME NEW d \in Conn, Attempting(d)', kind'[op'[d]].size > 0, op'[d] \notin rejected' \cup hit'
      PROVE  victims'[op'[d]] >= try'[d]
  <2>1. CASE d = c
    BY <1>2, <1>3, <2>1 DEF Counted, Attempting
  <2>2. CASE d # c
    BY <1>1, <1>2, <1>3, <2>2 DEF JInv, RetryInv, Attempting
  <2>3. QED  BY <2>1, <2>2
<1>4. GivenUpForAReason'
  <2>1. SUFFICES ASSUME NEW n \in gone', kind[n].tx, kind[n].size > 0, token = {},
                        stored'[n] = <<>>, n \notin rejected' \cup hit'
                 PROVE  victims'[n] > Retries
    BY <1>2 DEF GivenUpForAReason
  <2>2. CASE n = op[c]
    BY <1>1, <1>2, <2>1, <2>2 DEF Counted
  <2>3. CASE n # op[c]
    <3>1. n \in gone /\ n \in 1 .. issued /\ n \notin rejected \cup hit
      BY <1>1, <1>2, <2>1, <2>3
    <3>2. stored[n] = <<>> /\ victims'[n] = victims[n]
      BY <1>2, <2>1, <2>3, <3>1
    <3>3. QED
      BY <2>1, <3>1, <3>2 DEF JInv, RetryInv, GivenUpForAReason
  <2>4. QED  BY <2>2, <2>3
<1>5. QED
  BY <1>3, <1>4 DEF RetryInv

(* What the only worker stores is the latest of what it took. *)
LEMMA NoteOrder ==
  ASSUME JInv, NEW c \in Conn, Attempting(c), Frame(c), Note(c)
  PROVE  OrderInv'
<1>1. /\ Busy(c) /\ op[c] \in 1 .. issued /\ op[c] # 0
      /\ log \in Seq(Nat) /\ \A i \in 1 .. Len(log) : log[i] \in 1 .. issued
      /\ op \in [Conn -> 0 .. issued] /\ issued \in Nat
  BY DEF JInv, IInv, Types, Histories, Busy, Attempting
<1>2. /\ kind' = kind /\ queue' = queue /\ op' = op
      /\ \A d \in Conn : Busy(d)' => Busy(d)
  BY <1>1 DEF Frame, Busy, JInv, IInv, Types
<1>3. ASSUME NEW w \in Worker, OnlyWorker(w)' PROVE Ordered(w)'
  <2>1. OnlyWorker(w) /\ Ordered(w) /\ w \in Conn
    BY <1>2, <1>3 DEF OnlyWorker, JInv, OrderInv, Conn
  <2>2. CASE log' = log
    BY <1>2, <2>1, <2>2 DEF Ordered
  <2>3. CASE log' = Append(log, op[c])
    <3>1. kind[op[c]].direct \/ c = w
      BY <1>1, <2>1 DEF Conn, OnlyWorker, JInv, OrderInv
    <3>2. /\ Len(log') = Len(log) + 1 /\ log'[Len(log) + 1] = op[c] /\ Len(log) \in Nat
          /\ \A i \in 1 .. Len(log) : log'[i] = log[i]
      BY <1>1, <2>3
    <3>3. \A i \in 1 .. Len(log') : i \in 1 .. Len(log) \/ i = Len(log) + 1
      BY <3>2
    <3>4. \A i \in 1 .. Len(log') : ~kind[log'[i]].direct => log'[i] <= op[w]
      BY <1>1, <2>1, <3>1, <3>2, <3>3 DEF Ordered
    <3>5. ASSUME NEW i \in 1 .. Len(log'), NEW j \in 1 .. Len(log'), i < j,
                 ~kind[log'[i]].direct, ~kind[log'[j]].direct
          PROVE  log'[i] <= log'[j]
      <4>1. i \in 1 .. Len(log)
        BY <3>2, <3>3, <3>5
      <4>2. CASE j \in 1 .. Len(log)
        BY <2>1, <3>2, <3>5, <4>1, <4>2 DEF Ordered
      <4>3. CASE j = Len(log) + 1
        BY <3>1, <3>2, <3>4, <3>5, <4>3
      <4>4. QED  BY <3>3, <4>2, <4>3
    <3>6. QED
      BY <1>2, <2>1, <3>4, <3>5 DEF Ordered
  <2>4. QED  BY <2>2, <2>3 DEF Note
<1>4. \A s \in Sync : Busy(s)' => kind'[op'[s]].direct
  BY <1>2 DEF JInv, OrderInv, Conn
<1>5. \A i, j \in 1 .. Len(queue') : i < j => queue'[i] < queue'[j]
  BY <1>2 DEF JInv, OrderInv
<1>6. QED
  BY <1>3, <1>4, <1>5 DEF OrderInv

LEMMA NoteStep ==
  ASSUME JInv, NEW c \in Conn, Attempting(c), Frame(c), IInv', Note(c), Told(c), Counted(c)
  PROVE  JInv'
BY NoteHistories, NoteAnswers, NoteRetries, NoteOrder DEF JInv

(* An attempt that failed: a deadlock counts, a rejected statement exempts, *)
(* and an empty transaction has no size.                                    *)
LEMMA FailedNote ==
  ASSUME JInv, NEW c \in Conn, EmptyTransaction(c) \/ Reject(c) \/ Deadlock(c)
  PROVE  JInv'
<1> USE DEF JInv
<1>a. /\ answer \in [1 .. issued -> {"none", "pending", "true", "false", "broken"}]
      /\ victims \in [1 .. issued -> Nat] /\ try \in [Conn -> 0 .. Retries]
  BY DEF Histories
<1>b. Attempting(c) /\ Busy(c) /\ op[c] \in 1 .. issued
  <2>1. pc[c] \in {"begin", "run"}
    BY DEF EmptyTransaction, Reject, Deadlock
  <2>2. QED
    BY <2>1 DEF Attempting, Busy, IInv, Types
<1>1. /\ Attempting(c) /\ Busy(c) /\ op[c] \in 1 .. issued
      /\ try[c] \in 0 .. Retries /\ victims[op[c]] \in Nat /\ Retries \in Nat
      /\ op[c] \notin hit => stored[op[c]] = <<>>
  BY <1>a, <1>b, BoundAssumption DEF IInv, SessionInv
<1>2. Frame(c) /\ IInv'
  BY FailedStep
<1>3. /\ log' = log /\ stored' = stored /\ hit' = hit
      /\ rejected \subseteq rejected' /\ rejected' \subseteq rejected \cup {op[c]}
  BY DEF EmptyTransaction, Reject, Deadlock, serverVars, historyVars
<1>4. PICK d \in BOOLEAN :
        /\ Fail(c, d)
        /\ \/ kind[op[c]].size = 0 /\ victims' = victims
           \/ op[c] \in rejected' /\ victims' = victims
           \/ d /\ victims' = [victims EXCEPT ![op[c]] = victims[op[c]] + 1]
  BY <1>1 DEF EmptyTransaction, Reject, Deadlock, historyVars, Histories
<1>5. \/ /\ pc'[c] = "wait" /\ try' = try
         /\ ~kind[op[c]].tx \/ try[c] = Retries \/ (try[c] = 0 /\ ~d)
         /\ answer' = [answer EXCEPT ![op[c]] = IF kind[op[c]].promise THEN "false" ELSE answer[op[c]]]
      \/ /\ pc'[c] # "wait" /\ try' = [try EXCEPT ![c] = try[c] + 1]
         /\ try[c] # Retries /\ ~(try[c] = 0 /\ ~d) /\ answer' = answer
  BY <1>4 DEF Fail, Finish, Goto, IInv, Types, Histories
<1>6. victims' \in [1 .. issued -> Nat] /\ \A n \in 1 .. issued : n # op[c] => victims'[n] = victims[n]
  <2>1. victims' = victims \/ victims' = [victims EXCEPT ![op[c]] = victims[op[c]] + 1]
    BY <1>4
  <2>2. victims[op[c]] + 1 \in Nat
    BY <1>1
  <2>3. QED  BY <1>a, <2>1, <2>2
<1>7. Note(c)
  <2>1. /\ answer' \in [1 .. issued -> {"none", "pending", "true", "false", "broken"}]
        /\ \A n \in 1 .. issued : n # op[c] => answer'[n] = answer[n]
    BY <1>1, <1>5 DEF Histories
  <2>2. try' = [try EXCEPT ![c] = try'[c]] /\ try'[c] \in 0 .. Retries
    BY <1>1, <1>5 DEF Histories
  <2>3. QED
    BY <1>3, <1>6, <2>1, <2>2 DEF Note
<1>8. Told(c)
  <2>1. answer[op[c]] # "true"
    BY <1>1 DEF AnswerInv, IInv, OwnerInv
  <2>2. pc'[c] = "wait" => answer'[op[c]] # "true"
    BY <1>1, <1>5, <2>1 DEF Histories
  <2>3. QED
    BY <1>1, <1>3, <1>5, <2>2 DEF Told
<1>9. Counted(c)
  <2>1. SUFFICES ASSUME kind[op[c]].size > 0, op[c] \notin rejected' \cup hit'
                 PROVE  /\ pc'[c] # "wait" => victims'[op[c]] >= try'[c]
                        /\ pc'[c] = "wait" /\ kind[op[c]].tx => victims'[op[c]] > Retries
    BY DEF Counted
  <2>2. d /\ victims'[op[c]] = victims[op[c]] + 1 /\ victims[op[c]] >= try[c]
    <3>1. victims[op[c]] >= try[c]
      BY <1>1, <1>3, <2>1 DEF RetryInv
    <3>2. kind[op[c]].size # 0
      BY <2>1
    <3>3. d /\ victims' = [victims EXCEPT ![op[c]] = victims[op[c]] + 1]
      BY <1>4, <2>1, <3>2
    <3>4. QED
      BY <1>1, <1>a, <3>1, <3>3
  <2>3. pc'[c] # "wait" => try'[c] = try[c] + 1
    BY <1>5 DEF Histories
  <2>4. pc'[c] = "wait" /\ kind[op[c]].tx => try[c] = Retries
    BY <1>5, <2>2
  <2>5. QED
    BY <1>1, <2>2, <2>3, <2>4
<1>10. QED
  BY <1>1, <1>2, <1>7, <1>8, <1>9, NoteStep

LEMMA BeginNote == ASSUME JInv, NEW c \in Conn, Begin(c) PROVE JInv'
<1> USE DEF JInv
<1>1. /\ Attempting(c) /\ pc'[c] = "run" /\ log' = log /\ answer' = answer /\ try' = try
      /\ victims' = victims /\ rejected' = rejected /\ hit' = hit
  BY DEF Begin, Goto, Attempting, IInv, Types, historyVars
<1>2. Frame(c) /\ IInv'
  BY BeginStep
<1>3. Note(c) /\ Told(c) /\ Counted(c)
  BY <1>1 DEF Note, Told, Counted, Histories, RetryInv
<1>4. QED
  BY <1>1, <1>2, <1>3, NoteStep

(* The end of an operation that was carried out. *)
LEMMA FinishNote ==
  ASSUME JInv, NEW c \in Conn, Attempting(c), op[c] \in 1 .. issued,
         Finish(c, "true"), UNCHANGED historyVars,
         log' = log \/ log' = Append(log, op[c]),
         op[c] \notin hit => stored'[op[c]] = Full(kind[op[c]])
  PROVE  Note(c) /\ Told(c) /\ Counted(c)
<1> USE DEF JInv
<1>1. /\ pc'[c] = "wait" /\ try' = try /\ victims' = victims /\ rejected' = rejected /\ hit' = hit
      /\ answer' = [answer EXCEPT ![op[c]] = IF kind[op[c]].promise THEN "true" ELSE answer[op[c]]]
  BY DEF Finish, Goto, historyVars, IInv, Types
<1>2. Note(c)
  BY <1>1 DEF Note, Histories
<1>3. Told(c)
  <2>1. answer[op[c]] \notin {"false", "broken"}
    BY DEF AnswerInv, IInv, OwnerInv, Attempting, Busy
  <2>2. answer'[op[c]] \notin {"false", "broken"}
    BY <1>1, <2>1 DEF Histories
  <2>3. QED
    BY <1>1, <2>2 DEF Told
<1>4. Counted(c)
  <2>1. ASSUME kind[op[c]].size > 0 PROVE Full(kind[op[c]]) # <<>>
    <3>1. kind[op[c]].size \in Nat
      BY KindAssumption DEF IInv, Types
    <3>2. 1 \in DOMAIN Full(kind[op[c]])
      BY <2>1, <3>1 DEF Full
    <3>3. QED  BY <3>2
  <2>2. QED
    BY <1>1, <2>1 DEF Counted
<1>5. QED
  BY <1>2, <1>3, <1>4

LEMMA StatementNote == ASSUME JInv, NEW c \in Conn, Statement(c) PROVE JInv'
<1> USE DEF JInv
<1>1. /\ Attempting(c) /\ op[c] \in 1 .. issued /\ UNCHANGED historyVars
      /\ log' = log \/ log' = Append(log, op[c])
  BY DEF Statement, Store, Attempting, Busy, IInv, Types
<1>2. /\ Frame(c) /\ IInv'
      /\ ~kind[op[c]].tx /\ op[c] \notin hit => stored'[op[c]] = Full(kind[op[c]])
  BY StatementStep
<1>3. CASE kind[op[c]].tx
  <2>1. /\ pc'[c] # "wait" /\ try' = try /\ answer' = answer
        /\ victims' = victims /\ rejected' = rejected /\ hit' = hit
    BY <1>1, <1>3 DEF Statement, Goto, IInv, Types, historyVars
  <2>2. Note(c) /\ Told(c) /\ Counted(c)
    BY <1>1, <2>1 DEF Note, Told, Counted, Histories, RetryInv
  <2>3. QED
    BY <1>1, <1>2, <2>2, NoteStep
<1>4. CASE ~kind[op[c]].tx
  <2>1. Finish(c, "true")
    BY <1>4 DEF Statement
  <2>2. QED
    BY <1>1, <1>2, <1>4, <2>1, FinishNote, NoteStep
<1>5. QED  BY <1>3, <1>4

LEMMA CommitNote == ASSUME JInv, NEW c \in Conn, Commit(c) PROVE JInv'
<1> USE DEF JInv
<1>1. /\ Attempting(c) /\ op[c] \in 1 .. issued /\ UNCHANGED historyVars /\ Finish(c, "true")
      /\ log' = log \/ log' = Append(log, op[c])
  BY DEF Commit, Attempting, Busy, IInv, Types
<1>2. QED
  BY <1>1, CommitStep, FinishNote, NoteStep

LEMMA LoseNote ==
  ASSUME JInv, NEW c \in Conn, LoseConnection(c) \/ LoseReply(c) PROVE JInv'
<1> USE DEF JInv
<1>1. /\ Attempting(c) /\ pc'[c] # "wait" /\ try' = try /\ answer' = answer /\ op[c] \in 1 .. issued
      /\ victims' = victims /\ rejected' = rejected /\ hit' = hit \cup {op[c]}
      /\ log' = log \/ log' = Append(log, op[c])
  BY DEF LoseConnection, LoseReply, Store, Attempting, Busy, threadVars, IInv, Types
<1>2. Note(c) /\ Told(c) /\ Counted(c)
  BY <1>1 DEF Note, Told, Counted, Histories
<1>3. QED
  BY <1>1, <1>2, LoseStep, NoteStep

-----------------------------------------------------------------------------
(* The steps outside of an operation. *)

(* A new operation has no answer, no deadlock and no place in the log. *)
LEMMA NewNote ==
  ASSUME JInv, NEW k \in Kind, New(k)
  PROVE  /\ try' \in [Conn -> 0 .. Retries] => Histories'
         /\ AnswerInv' /\ GivenUpForAReason'
         /\ \A n \in 1 .. issued : victims'[n] = victims[n]
         /\ victims'[issued'] = 0 /\ rejected' = rejected /\ log' = log
<1> USE DEF JInv
<1>1. /\ answer' = [n \in 1 .. issued + 1 |-> IF n <= issued THEN answer[n]
                                              ELSE IF k.promise THEN "pending" ELSE "none"]
      /\ victims' = [n \in 1 .. issued + 1 |-> IF n <= issued THEN victims[n] ELSE 0]
      /\ rejected' = rejected /\ log' = log /\ token = {}
  BY DEF New, Extend
<1>2. /\ issued \in Nat /\ issued' = issued + 1 /\ issued' \notin 1 .. issued
      /\ kind'[issued'] = k /\ stored'[issued'] = <<>>
      /\ \A n \in 1 .. issued : n \in 1 .. issued' /\ kind'[n] = kind[n] /\ stored'[n] = stored[n]
      /\ token' = token /\ hit' = hit /\ gone' = gone
      /\ gone \subseteq 1 .. issued /\ hit \subseteq 1 .. issued
  BY NewEffect DEF IInv, Types
<1>a. /\ answer \in [1 .. issued -> {"none", "pending", "true", "false", "broken"}]
      /\ victims \in [1 .. issued -> Nat] /\ rejected \subseteq 1 .. issued
      /\ log \in Seq(Nat) /\ \A i \in 1 .. Len(log) : log[i] \in 1 .. issued
  BY DEF Histories
<1>3. \A n \in 1 .. issued : answer'[n] = answer[n] /\ victims'[n] = victims[n]
  BY <1>1, <1>2
<1>4. answer'[issued'] \in {"none", "pending"} /\ victims'[issued'] = 0
  BY <1>1, <1>2
<1>5. \A n \in 1 .. issued' : n \in 1 .. issued \/ n = issued'
  BY <1>2
<1>6. try' \in [Conn -> 0 .. Retries] => Histories'
  <2>1. answer' \in [1 .. issued' -> {"none", "pending", "true", "false", "broken"}]
    BY <1>1, <1>2, <1>a
  <2>2. victims' \in [1 .. issued' -> Nat]
    BY <1>1, <1>2, <1>a
  <2>3. rejected' \subseteq 1 .. issued' /\ \A i \in 1 .. Len(log') : log'[i] \in 1 .. issued'
    BY <1>1, <1>2, <1>a
  <2>4. QED
    BY <1>1, <1>a, <2>1, <2>2, <2>3 DEF Histories
<1>7. AnswerInv'
  <2>1. \A n \in 1 .. issued' : answer'[n] \in {"true", "false", "broken"} => n \in gone'
    BY <1>2, <1>3, <1>4, <1>5 DEF AnswerInv
  <2>2. AnswersAreTrue'
    <3>1. SUFFICES ASSUME NEW n \in 1 .. issued', n \notin hit'
                   PROVE  /\ answer'[n] = "true" => stored'[n] = Full(kind'[n])
                          /\ answer'[n] \in {"false", "broken"} => stored'[n] = <<>>
      BY DEF AnswersAreTrue, Tasks, Full
    <3>2. CASE n = issued'
      BY <1>4, <3>2
    <3>3. CASE n \in 1 .. issued
      <4>1. /\ n \in Tasks \ hit /\ answer'[n] = answer[n]
            /\ stored'[n] = stored[n] /\ kind'[n] = kind[n]
        BY <1>2, <1>3, <3>1, <3>3 DEF Tasks
      <4>2. QED  BY <4>1 DEF AnswerInv, AnswersAreTrue
    <3>4. QED  BY <1>5, <3>2, <3>3
  <2>3. QED  BY <2>1, <2>2 DEF AnswerInv
<1>8. GivenUpForAReason'
  BY <1>1, <1>2, <1>3 DEF RetryInv, GivenUpForAReason
<1>9. QED
  BY <1>1, <1>3, <1>4, <1>6, <1>7, <1>8

(* The order is kept by an operation that gets the next number. *)
LEMMA NewOrdered ==
  ASSUME JInv, NEW k \in Kind, New(k), NEW w \in Worker, Ordered(w), op'[w] = op[w],
         \A i \in 1 .. Len(queue') : op[w] < queue'[i]
  PROVE  Ordered(w)'
<1>1. /\ log' = log /\ \A i \in 1 .. Len(log) : log[i] \in 1 .. issued
      /\ \A n \in 1 .. issued : kind'[n] = kind[n]
  BY NewEffect DEF New, JInv, Histories
<1>2. QED
  BY <1>1 DEF Ordered

LEMMA EnqueueNote == ASSUME JInv, NEW k \in Kind, Enqueue(k) PROVE JInv'
<1> USE DEF JInv
<1>1. /\ New(k) /\ queue' = Append(queue, issued')
      /\ pc' = pc /\ op' = op /\ try' = try
  BY DEF Enqueue
<1>2. /\ issued \in Nat /\ issued' = issued + 1
      /\ \A n \in 1 .. issued : kind'[n] = kind[n] /\ stored'[n] = stored[n]
      /\ hit' = hit /\ gone' = gone
  BY <1>1, NewEffect DEF IInv, Types
<1>3. IInv' /\ Histories' /\ AnswerInv' /\ GivenUpForAReason'
  BY <1>1, EnqueueStep, NewNote DEF Histories
<1>4. \A c \in Conn : Busy(c) => op[c] \in 1 .. issued
  BY DEF IInv, Types, Busy
<1>5. RetryInv'
  BY <1>1, <1>2, <1>3, <1>4, NewNote DEF RetryInv, Attempting, Busy
<1>6. /\ Len(queue) \in Nat /\ Len(queue') = Len(queue) + 1 /\ queue'[Len(queue) + 1] = issued'
      /\ \A i \in 1 .. Len(queue) : queue'[i] = queue[i] /\ queue[i] \in 1 .. issued
      /\ \A i \in 1 .. Len(queue') : i \in 1 .. Len(queue) \/ i = Len(queue) + 1
  BY <1>1, <1>2 DEF IInv, Types
<1>7. \A i, j \in 1 .. Len(queue') : i < j => queue'[i] < queue'[j]
  BY <1>2, <1>6 DEF OrderInv
<1>8. \A w \in Worker : OnlyWorker(w)' => Ordered(w)'
  <2>1. SUFFICES ASSUME NEW w \in Worker, OnlyWorker(w)' PROVE Ordered(w)'
    OBVIOUS
  <2>2. Ordered(w) /\ op[w] \in 0 .. issued
    BY <1>1, <2>1 DEF OrderInv, OnlyWorker, IInv, Types, Conn
  <2>3. \A i \in 1 .. Len(queue') : op[w] < queue'[i]
    BY <1>2, <1>6, <2>2 DEF Ordered
  <2>4. QED
    BY <1>1, <2>2, <2>3, NewOrdered
<1>9. \A s \in Sync : Busy(s)' => kind'[op'[s]].direct
  BY <1>1, <1>2, <1>4 DEF OrderInv, Busy, Conn
<1>10. QED
  BY <1>3, <1>5, <1>7, <1>8, <1>9 DEF OrderInv

LEMMA DirectNote == ASSUME JInv, NEW k \in Kind, NEW s \in Sync, Direct(s, k) PROVE JInv'
<1> USE DEF JInv
<1> s \in Conn /\ s \notin Worker
  BY ConnAssumption DEF Conn
<1>1. /\ New(k) /\ queue' = queue /\ k.direct
      /\ pc' = [pc EXCEPT ![s] = Start(k)] /\ op' = [op EXCEPT ![s] = issued']
      /\ try' = [try EXCEPT ![s] = 0]
  BY DEF Direct, Goto
<1>2. /\ issued \in Nat /\ issued' = issued + 1 /\ kind'[issued'] = k
      /\ \A n \in 1 .. issued : kind'[n] = kind[n] /\ stored'[n] = stored[n]
      /\ hit' = hit /\ gone' = gone
  BY <1>1, NewEffect DEF IInv, Types
<1>3. try' \in [Conn -> 0 .. Retries]
  BY <1>1, BoundAssumption DEF Histories
<1>4. IInv' /\ Histories' /\ AnswerInv' /\ GivenUpForAReason'
  BY <1>1, <1>3, DirectStep, NewNote
<1>5. \A c \in Conn : Busy(c) => op[c] \in 1 .. issued
  BY DEF IInv, Types, Busy
<1>6. /\ op'[s] = issued' /\ try'[s] = 0
      /\ \A c \in Conn : c # s => pc'[c] = pc[c] /\ op'[c] = op[c] /\ try'[c] = try[c]
  BY <1>1 DEF IInv, Types, Histories
<1>7. ASSUME NEW c \in Conn, Attempting(c)', kind'[op'[c]].size > 0, op'[c] \notin rejected' \cup hit'
      PROVE  victims'[op'[c]] >= try'[c]
  <2>1. CASE c = s
    BY <1>1, <1>6, <2>1, NewNote
  <2>2. CASE c # s
    <3>1. Attempting(c) /\ op[c] \in 1 .. issued
      BY <1>5, <1>6, <1>7, <2>2 DEF Attempting, Busy
    <3>2. QED
      BY <1>1, <1>2, <1>6, <1>7, <2>2, <3>1, NewNote DEF RetryInv
  <2>3. QED  BY <2>1, <2>2
<1>8. \A w \in Worker : OnlyWorker(w)' => Ordered(w)'
  <2>1. SUFFICES ASSUME NEW w \in Worker, OnlyWorker(w)' PROVE Ordered(w)'
    OBVIOUS
  <2>2. Ordered(w) /\ op'[w] = op[w]
    BY <1>6, <2>1 DEF OrderInv, OnlyWorker, Conn
  <2>3. \A i \in 1 .. Len(queue') : op[w] < queue'[i]
    BY <1>1, <2>2 DEF Ordered
  <2>4. QED
    BY <1>1, <2>2, <2>3, NewOrdered
<1>9. ASSUME NEW t \in Sync, Busy(t)' PROVE kind'[op'[t]].direct
  <2>1. CASE t = s
    BY <1>1, <1>2, <1>6, <2>1
  <2>2. CASE t # s
    <3>1. t \in Conn /\ Busy(t)
      BY <1>6, <1>9, <2>2 DEF Conn, Busy
    <3>2. QED
      BY <1>2, <1>5, <1>6, <2>2, <3>1 DEF OrderInv
  <2>3. QED  BY <2>1, <2>2
<1>10. RetryInv'
  BY <1>4, <1>7 DEF RetryInv
<1>11. OrderInv'
  BY <1>1, <1>8, <1>9 DEF OrderInv
<1>12. QED
  BY <1>4, <1>10, <1>11

(* What Close drops was not stored: its promise is broken. *)
LEMMA CloseNote == ASSUME JInv, NEW w \in Worker, Close(w) PROVE JInv'
<1> USE DEF JInv
<1> DEFINE dropped == {queue[i] : i \in 1 .. Len(queue)}
<1>1. /\ queue' = <<>> /\ token' = token \cup {w} /\ gone' = gone \cup dropped
      /\ answer' = [n \in 1 .. issued |-> IF n \in dropped /\ kind[n].promise THEN "broken" ELSE answer[n]]
      /\ issued' = issued /\ kind' = kind
      /\ UNCHANGED threadVars /\ UNCHANGED serverVars /\ UNCHANGED historyVars
  BY DEF Close, Tasks
<1>2. \A n \in dropped : n \in 1 .. issued /\ n \notin gone /\ stored[n] = <<>>
  BY DEF IInv, Types, OwnerInv
<1>3. Histories'
  <2>1. answer' \in [1 .. issued -> {"none", "pending", "true", "false", "broken"}]
    BY <1>1 DEF Histories
  <2>2. QED
    BY <1>1, <2>1 DEF Histories, threadVars, serverVars, historyVars
<1>4. AnswerInv'
  <2>1. \A n \in 1 .. issued : answer'[n] \in {"true", "false", "broken"} => n \in gone'
    BY <1>1 DEF AnswerInv
  <2>2. AnswersAreTrue'
    <3>1. SUFFICES ASSUME NEW n \in 1 .. issued, n \notin hit
                   PROVE  /\ answer'[n] = "true" => stored[n] = Full(kind[n])
                          /\ answer'[n] \in {"false", "broken"} => stored[n] = <<>>
      BY <1>1 DEF AnswersAreTrue, Tasks, Full, serverVars, historyVars
    <3>2. /\ answer[n] = "true" => stored[n] = Full(kind[n])
          /\ answer[n] \in {"false", "broken"} => stored[n] = <<>>
      BY <3>1 DEF AnswerInv, AnswersAreTrue, Tasks
    <3>3. n \in dropped => stored[n] = <<>>
      BY <1>2
    <3>4. QED
      BY <1>1, <3>2, <3>3
  <2>3. QED  BY <1>1, <2>1, <2>2 DEF AnswerInv
<1>5. RetryInv'
  <2>1. GivenUpForAReason'
    BY <1>1 DEF GivenUpForAReason
  <2>2. QED
    BY <1>1, <2>1 DEF RetryInv, Attempting, threadVars, historyVars
<1>6. OrderInv'
  BY <1>1 DEF OrderInv, OnlyWorker, Ordered, Busy, threadVars, serverVars
<1>7. QED
  BY <1>3, <1>4, <1>5, <1>6, CloseStep

(* The worker that takes an operation is from then on at this operation. *)
LEMMA PopNote == ASSUME JInv, NEW w \in Worker, WaitAndPop(w) PROVE JInv'
<1> USE DEF JInv
<1> w \in Conn /\ w \notin Sync
  BY ConnAssumption DEF Conn
<1>1. /\ pc[w] = "wait" /\ queue # <<>>
      /\ op' = [op EXCEPT ![w] = Head(queue)] /\ queue' = Tail(queue)
      /\ pc' = [pc EXCEPT ![w] = "popped"]
      /\ issued' = issued /\ kind' = kind /\ token' = token /\ try' = try
      /\ answer' = answer /\ gone' = gone /\ UNCHANGED serverVars /\ UNCHANGED historyVars
  BY DEF WaitAndPop, Goto
<1>2. /\ Head(queue) = queue[1] /\ queue[1] \in 1 .. issued /\ 1 \in 1 .. Len(queue)
      /\ \A i \in 1 .. Len(queue') : queue'[i] = queue[i + 1] /\ i + 1 \in 1 .. Len(queue) /\ 1 < i + 1
  BY <1>1 DEF IInv, Types
<1>3. /\ pc'[w] = "popped" /\ op'[w] = queue[1]
      /\ \A c \in Conn : c # w => pc'[c] = pc[c] /\ op'[c] = op[c]
  BY <1>1, <1>2 DEF IInv, Types
<1>4. Histories' /\ AnswerInv'
  BY <1>1 DEF Histories, AnswerInv, AnswersAreTrue, Tasks, serverVars, historyVars
<1>5. RetryInv'
  BY <1>1, <1>3 DEF RetryInv, GivenUpForAReason, Attempting, serverVars, historyVars
<1>6. \A s \in Sync : Busy(s)' => kind'[op'[s]].direct
  BY <1>1, <1>3 DEF OrderInv, Busy, Conn
<1>7. ASSUME NEW i \in 1 .. Len(queue'), NEW j \in 1 .. Len(queue'), i < j
      PROVE  queue'[i] < queue'[j]
  <2>1. i + 1 < j + 1
    BY <1>7
  <2>2. QED
    BY <1>2, <2>1 DEF OrderInv
<1>8. ASSUME NEW v \in Worker, OnlyWorker(v)' PROVE Ordered(v)'
  <2>1. v = w
    <3>1. v # w => op'[w] = 0
      BY <1>8 DEF OnlyWorker
    <3>2. QED  BY <1>2, <1>3, <3>1
  <2>2. OnlyWorker(w)
    BY <1>3, <1>8, <2>1 DEF OnlyWorker, Conn
  <2>3. Ordered(w)
    BY <2>2 DEF OrderInv
  <2>4. op[w] < queue[1] /\ op[w] \in 0 .. issued
    BY <1>2, <2>3 DEF Ordered, IInv, Types
  <2>5. log' = log /\ issued \in Nat /\ \A i \in 1 .. Len(log) : log[i] \in 1 .. issued
    BY <1>1 DEF serverVars, Histories, IInv, Types
  <2>6. \A i \in 1 .. Len(log') : ~kind[log'[i]].direct => log'[i] <= op'[w]
    BY <1>2, <1>3, <2>3, <2>4, <2>5 DEF Ordered
  <2>7. \A i \in 1 .. Len(queue') : op'[w] < queue'[i]
    BY <1>2, <1>3 DEF OrderInv
  <2>8. QED
    BY <1>1, <2>1, <2>3, <2>5, <2>6, <2>7 DEF Ordered
<1>9. OrderInv'
  BY <1>6, <1>7, <1>8 DEF OrderInv
<1>10. QED
  BY <1>4, <1>5, <1>9, PopStep

(* The other steps of a worker outside of its operation: an attempt begins *)
(* with the first try, and Close came before a step that ends a worker.    *)
LEMMA ThreadNote ==
  ASSUME JInv, NEW w \in Worker,
         ReturnOnNull(w) \/ ReturnOnToken(w) \/ CallOperation(w) \/ LockDeadlock(w)
  PROVE  JInv'
<1> USE DEF JInv
<1> w \in Conn
  BY DEF Conn
<1>1. /\ issued' = issued /\ kind' = kind /\ queue' = queue /\ token' = token /\ op' = op
      /\ answer' = answer /\ UNCHANGED serverVars /\ UNCHANGED historyVars
      /\ pc' = [pc EXCEPT ![w] = pc'[w]]
      /\ \/ gone' = gone
         \/ w \in token /\ gone' = gone \cup {op[w]}
      /\ \/ try' = try
         \/ try' = [try EXCEPT ![w] = 0]
      /\ \/ pc'[w] = "out" /\ pc[w] \in {"wait", "popped"}
         \/ Attempting(w) /\ try' = try
         \/ pc[w] = "popped" /\ try' = [try EXCEPT ![w] = 0]
  BY DEF ReturnOnNull, ReturnOnToken, CallOperation, LockDeadlock, Goto, poolVars, Attempting, IInv, Types
<1>2. \A c \in Conn : c # w => pc'[c] = pc[c]
  BY <1>1 DEF IInv, Types
<1>3. Histories'
  <2>1. try \in [Conn -> 0 .. Retries] /\ 0 \in 0 .. Retries
    BY BoundAssumption DEF Histories
  <2>2. try' \in [Conn -> 0 .. Retries]
    BY <1>1, <2>1
  <2>3. QED
    BY <1>1, <2>2 DEF Histories, serverVars, historyVars
<1>4. AnswerInv'
  BY <1>1 DEF AnswerInv, AnswersAreTrue, Tasks, Full, serverVars, historyVars
<1>5. RetryInv'
  <2>1. GivenUpForAReason'
    BY <1>1 DEF RetryInv, GivenUpForAReason, serverVars, historyVars
  <2>2. ASSUME NEW c \in Conn, Attempting(c)', kind[op[c]].size > 0, op[c] \notin rejected \cup hit
        PROVE  victims[op[c]] >= try'[c]
    <3>1. CASE Attempting(c) /\ try'[c] = try[c]
      BY <2>2, <3>1 DEF RetryInv
    <3>2. CASE c = w /\ pc[c] = "popped" /\ try' = [try EXCEPT ![w] = 0]
      <4>1. try'[c] = 0 /\ op[c] \in 1 .. issued
        BY <3>2 DEF Histories, IInv, Types, Busy
      <4>2. victims[op[c]] \in Nat
        BY <4>1 DEF Histories
      <4>3. QED  BY <4>1, <4>2
    <3>3. QED
      BY <1>1, <1>2, <2>2, <3>1, <3>2 DEF Attempting, Histories
  <2>3. QED
    BY <1>1, <2>1, <2>2 DEF RetryInv, historyVars
<1>6. OrderInv'
  <2>1. \A c \in Conn : Busy(c)' => Busy(c)
    BY <1>1, <1>2 DEF Busy, Attempting
  <2>2. QED
    BY <1>1, <2>1 DEF OrderInv, OnlyWorker, Ordered, Conn, serverVars
<1>7. QED
  BY <1>3, <1>4, <1>5, <1>6, ThreadStep

(* The histories agree with what was stored, for any number of workers. *)
THEOREM HistoryInvariance == Spec => []JInv
<1>1. Init => JInv
  <2>1. SUFFICES ASSUME Init PROVE JInv
    OBVIOUS
  <2>2. Histories
    <3>1. log \in Seq(Nat) /\ Len(log) = 0
      BY <2>1 DEF Init
    <3>2. QED
      BY <2>1, <3>1, BoundAssumption DEF Init, Histories
  <2>3. AnswerInv /\ RetryInv
    BY <2>1, BoundAssumption DEF Init, AnswerInv, AnswersAreTrue, Tasks, RetryInv, GivenUpForAReason,
                                 Attempting
  <2>4. OrderInv
    BY <2>1 DEF Init, OrderInv, Ordered, Busy, Conn
  <2>5. QED
    BY <2>1, <2>2, <2>3, <2>4, InitInv DEF JInv
<1>2. JInv /\ UNCHANGED vars => JInv'
  <2>1. SUFFICES ASSUME JInv, UNCHANGED vars PROVE JInv'
    OBVIOUS
  <2>2. UNCHANGED <<poolVars, threadVars, serverVars, answer, historyVars, gone>>
    BY <2>1 DEF vars
  <2>3. IInv'
    BY <2>1, <2>2 DEF JInv, IInv, Types, OwnerInv, SessionInv, AllOrNothing, Tasks, Busy, Executing,
                      poolVars, threadVars, serverVars, historyVars
  <2>4. Histories' /\ AnswerInv' /\ RetryInv'
    BY <2>1, <2>2 DEF JInv, Histories, AnswerInv, AnswersAreTrue, RetryInv, GivenUpForAReason,
                      Attempting, Tasks, poolVars, threadVars, serverVars, historyVars
  <2>5. OrderInv'
    BY <2>1, <2>2 DEF JInv, OrderInv, OnlyWorker, Ordered, Busy,
                      poolVars, threadVars, serverVars, historyVars
  <2>6. QED  BY <2>3, <2>4, <2>5 DEF JInv
<1>3. ASSUME JInv, Next PROVE JInv'
  <2>1. ASSUME NEW k \in Kind, Enqueue(k) \/ \E s \in Sync : Direct(s, k) PROVE JInv'
    BY <1>3, <2>1, EnqueueNote, DirectNote
  <2>2. ASSUME NEW w \in Worker, Close(w) \/ Thread(w) PROVE JInv'
    BY <1>3, <2>2, CloseNote, PopNote, ThreadNote DEF Thread
  <2>3. ASSUME NEW c \in Conn, Run(c) \/ Server(c) PROVE JInv'
    BY <1>3, <2>3, FailedNote, BeginNote, StatementNote, CommitNote, LoseNote DEF Run, Server
  <2>4. QED
    BY <1>3, <2>1, <2>2, <2>3 DEF Next
<1>4. QED
  BY <1>1, <1>2, <1>3, PTL DEF Spec

(* The future of AsyncCommitTransaction says what became of the           *)
(* transaction, whichever worker executed it and however often it was     *)
(* tried; only a connection lost on the way leaves it open.               *)
THEOREM PromisesAreTrue == Spec => []AnswersAreTrue
<1>1. JInv => AnswersAreTrue
  BY DEF JInv, AnswerInv
<1>2. QED
  BY <1>1, HistoryInvariance, PTL

(* TransactionTask::Execute and DirectCommitTransaction give a transaction *)
(* up only after loopBreaker retries that all met a deadlock, whatever the *)
(* value of loopBreaker.                                                   *)
THEOREM RetriesAreUsed == Spec => []GivenUpForAReason
<1>1. JInv => GivenUpForAReason
  BY DEF JInv, RetryInv
<1>2. QED
  BY <1>1, HistoryInvariance, PTL

(* As long as one worker has taken all that was queued, the database sees *)
(* the queued operations in the order of the calls: a transaction that is *)
(* retried holds up those behind it.                                      *)
THEOREM OneWorkerKeepsOrder == Spec => []StoredInOrder
<1>1. JInv => StoredInOrder
  BY DEF JInv, OrderInv, OnlyWorker, Ordered, StoredInOrder
<1>2. QED
  BY <1>1, HistoryInvariance, PTL
=============================================================================
