--------------------- MODULE ProducerConsumerQueueProofs ---------------------
(***************************************************************************)
(* What holds of ProducerConsumerQueue for every finite set of consumers   *)
(* and every set of values.                                                *)
(*                                                                         *)
(* The invariant is inductive together with the types: a sleeper goes to   *)
(* sleep only on an empty queue, a push that finds a sleeper sends one     *)
(* consumer towards the value it queues, and only a consumer that is awake *)
(* takes a value.                                                          *)
(***************************************************************************)
EXTENDS ProducerConsumerQueue, FiniteSetTheorems, SequenceTheorems, TLAPS

(* One consumer more, or one less, in the set of those that are awake.     *)
LEMMA AwakeSet ==
  ASSUME TypeOK
  PROVE  /\ IsFiniteSet(Awake)
         /\ Cardinality(Awake) \in Nat
         /\ \A c \in Consumer : \A S :
              S = Awake \cup {c} /\ c \notin Awake
                => IsFiniteSet(S) /\ Cardinality(S) = Cardinality(Awake) + 1
         /\ \A c \in Consumer : \A S :
              S = Awake \ {c} /\ c \in Awake
                => IsFiniteSet(S) /\ Cardinality(S) = Cardinality(Awake) - 1
<1>1. IsFiniteSet(Awake)
  BY ConsumerAssumption, FS_Subset DEF Awake
<1>2. Cardinality(Awake) \in Nat
  BY <1>1, FS_CardinalityType
<1>3. QED
  BY <1>1, <1>2, FS_AddElement, FS_RemoveElement

(* The initial state has the declared types. *)
LEMMA InitTypeOK == Init => TypeOK
BY EmptySeq DEF Init, TypeOK

(* Every step keeps the declared types. *)
LEMMA StepTypeOK == TypeOK /\ [Next]_queueVars => TypeOK'
<1> SUFFICES ASSUME TypeOK, [Next]_queueVars PROVE TypeOK'
  OBVIOUS
<1> USE DEF TypeOK
<1>1. CASE Produce
  BY <1>1 DEF Produce, Push, NotifyOne, Waiting
<1>2. CASE Cancel
  BY <1>2 DEF Cancel, NotifyAll
<1>3. ASSUME NEW c \in Consumer, Pop(c) PROVE TypeOK'
  <2>1. Head(queue) \in Value /\ Tail(queue) \in Seq(Value)
    BY <1>3, HeadTailProperties DEF Pop
  <2>2. QED  BY <1>3, <2>1 DEF Pop
<1>4. ASSUME NEW c \in Consumer, Call(c) \/ Release(c) PROVE TypeOK'
  BY <1>4 DEF Call, Release
<1>5. ASSUME NEW c \in Consumer, WaitAndPop(c) PROVE TypeOK'
  <2>1. CASE Sleep(c)
    BY <2>1 DEF Sleep
  <2>2. CASE Take(c)
    <3>1. Head(queue) \in Value /\ Tail(queue) \in Seq(Value)
      BY <2>2, HeadTailProperties DEF Take
    <3>2. QED  BY <2>2, <3>1 DEF Take
  <2>3. CASE GiveUp(c)
    BY <2>3 DEF GiveUp
  <2>4. QED  BY <1>5, <2>1, <2>2, <2>3 DEF WaitAndPop
<1>6. ASSUME NEW c \in Consumer, SpuriousWakeup(c) PROVE TypeOK'
  BY <1>6 DEF SpuriousWakeup
<1>7. CASE UNCHANGED queueVars
  BY <1>7 DEF queueVars
<1>8. QED
  BY <1>1, <1>2, <1>3, <1>4, <1>5, <1>6, <1>7 DEF Next

(* The state always has the declared types: whatever is handed out is a    *)
(* queued pointer or nothing.                                              *)
THEOREM TypeCorrect == Safety => []TypeOK
BY InitTypeOK, StepTypeOK, PTL DEF Safety

-----------------------------------------------------------------------------
(* The flag that Cancel raises and the broadcast that goes with it are one *)
(* critical section, and a consumer tests the flag in the critical section *)
(* in which it goes to sleep.                                              *)
LEMMA StepNobodySleeps ==
  TypeOK /\ NobodySleepsAfterCancel /\ [Next]_queueVars => NobodySleepsAfterCancel'
<1> SUFFICES ASSUME TypeOK, NobodySleepsAfterCancel, [Next]_queueVars, shutdown'
             PROVE  Waiting' = {}
  BY DEF NobodySleepsAfterCancel
<1> USE DEF NobodySleepsAfterCancel, TypeOK, Waiting
<1>1. CASE Produce
  BY <1>1 DEF Produce, Push, NotifyOne
<1>2. CASE Cancel
  BY <1>2 DEF Cancel, NotifyAll
<1>3. ASSUME NEW c \in Consumer,
             Pop(c) \/ Call(c) \/ WaitAndPop(c) \/ SpuriousWakeup(c) \/ Release(c)
      PROVE  Waiting' = {}
  BY <1>3 DEF Pop, Call, Release, WaitAndPop, Sleep, Take, GiveUp, SpuriousWakeup
<1>4. CASE UNCHANGED queueVars
  BY <1>4 DEF queueVars
<1>5. QED
  BY <1>1, <1>2, <1>3, <1>4 DEF Next

(* Once Cancel has run no consumer is left asleep, for any number of       *)
(* consumers: the destructor that joins the worker thread does not hang.   *)
THEOREM CancelWakesEverybody == Safety => []NobodySleepsAfterCancel
<1>1. Init => NobodySleepsAfterCancel
  BY DEF Init, NobodySleepsAfterCancel
<1>2. QED
  BY <1>1, StepNobodySleeps, TypeCorrect, PTL DEF Safety

-----------------------------------------------------------------------------
(* A consumer that joins the awake ones only helps the invariant. *)
LEMMA StepNoLostWakeup ==
  TypeOK /\ NobodySleepsAfterCancel /\ NoLostWakeup /\ [Next]_queueVars => NoLostWakeup'
<1> SUFFICES ASSUME TypeOK, NobodySleepsAfterCancel, NoLostWakeup, [Next]_queueVars,
                    Waiting' # {}
             PROVE  Len(queue') <= Cardinality(Awake')
  BY DEF NoLostWakeup
<1>0. /\ Cardinality(Awake) \in Nat
      /\ Len(queue) \in Nat
  BY AwakeSet, LenProperties DEF TypeOK
<1>1. CASE Produce
  <2>1. PICK v \in Value : Push(v)
    BY <1>1 DEF Produce
  <2>2. Len(queue') = Len(queue) + 1
    BY <2>1, AppendProperties DEF Push, TypeOK
  <2>3. PICK c \in Waiting : pc' = [pc EXCEPT ![c] = "testing"]
    <3>1. Waiting # {}
      BY <2>1 DEF Push, NotifyOne, Waiting, TypeOK
    <3>2. QED  BY <2>1, <3>1 DEF Push, NotifyOne
  <2>4. Awake' = Awake \cup {c} /\ c \notin Awake /\ c \in Consumer
    BY <2>3 DEF Awake, Waiting, TypeOK
  <2>5. Cardinality(Awake') = Cardinality(Awake) + 1
    BY <2>4, AwakeSet
  <2>6. Len(queue) <= Cardinality(Awake)
    BY <2>3 DEF NoLostWakeup
  <2>7. QED  BY <1>0, <2>2, <2>5, <2>6
<1>2. CASE Cancel
  <2>1. Waiting' = {}
    BY <1>2 DEF Cancel, NotifyAll, Waiting, TypeOK
  <2>2. QED  BY <2>1
<1>3. ASSUME NEW c \in Consumer, Pop(c) \/ Release(c) PROVE Len(queue') <= Cardinality(Awake')
  <2>1. Waiting' = Waiting /\ Awake' = Awake
    BY <1>3 DEF Pop, Release, Waiting, Awake
  <2>2. Len(queue') <= Len(queue) /\ Len(queue') \in Nat
    BY <1>0, <1>3, HeadTailProperties DEF Pop, Release, TypeOK
  <2>3. Len(queue) <= Cardinality(Awake)
    BY <2>1 DEF NoLostWakeup
  <2>4. QED  BY <1>0, <2>1, <2>2, <2>3
<1>4. ASSUME NEW c \in Consumer, Call(c) \/ SpuriousWakeup(c)
      PROVE  Len(queue') <= Cardinality(Awake')
  <2>1. Awake' = Awake \cup {c} /\ c \notin Awake /\ queue' = queue
    BY <1>4 DEF Call, SpuriousWakeup, Awake, TypeOK
  <2>2. Waiting # {}
    BY <1>4 DEF Call, SpuriousWakeup, Waiting, TypeOK
  <2>3. Cardinality(Awake') = Cardinality(Awake) + 1
    BY <2>1, AwakeSet
  <2>4. QED  BY <1>0, <2>1, <2>2, <2>3 DEF NoLostWakeup
<1>5. ASSUME NEW c \in Consumer, WaitAndPop(c)
      PROVE  Len(queue') <= Cardinality(Awake')
  <2>1. Awake' = Awake \ {c} /\ c \in Awake
    BY <1>5 DEF WaitAndPop, Sleep, Take, GiveUp, Awake, TypeOK
  <2>2. Cardinality(Awake') = Cardinality(Awake) - 1 /\ Cardinality(Awake') \in Nat
    BY <1>0, <2>1, AwakeSet, FS_CardinalityType
  <2>3. CASE Sleep(c)
    <3>1. Len(queue') = 0
      BY <2>3, EmptySeq DEF Sleep
    <3>2. QED  BY <2>2, <3>1
  <2>4. CASE Take(c)
    <3>1. Len(queue') = Len(queue) - 1
      BY <2>4, HeadTailProperties DEF Take, TypeOK
    <3>2. Waiting # {}
      BY <2>4 DEF Take, Waiting, TypeOK
    <3>3. QED  BY <1>0, <2>2, <3>1, <3>2 DEF NoLostWakeup
  <2>5. CASE GiveUp(c)
    <3>1. Waiting' = {}
      BY <2>5 DEF GiveUp, Waiting, NobodySleepsAfterCancel, TypeOK
    <3>2. QED  BY <3>1
  <2>6. QED  BY <1>5, <2>3, <2>4, <2>5 DEF WaitAndPop
<1>6. CASE UNCHANGED queueVars
  BY <1>6 DEF queueVars, NoLostWakeup, Waiting, Awake
<1>7. QED
  BY <1>1, <1>2, <1>3, <1>4, <1>5, <1>6 DEF Next

(* For any number of consumers, a single notify_one per Push never leaves  *)
(* a queued value without a consumer on its way to it while others sleep.  *)
THEOREM NoWakeupIsLost == Safety => []NoLostWakeup
<1>1. Init => NoLostWakeup
  BY DEF Init, NoLostWakeup, Waiting
<1>2. QED
  BY <1>1, StepNoLostWakeup, CancelWakesEverybody, TypeCorrect, PTL DEF Safety
-----------------------------------------------------------------------------
(* A pointer has one place: one position of the queue, or the hands of one *)
(* consumer; a consumer that is inside WaitAndPop has nothing in hand.     *)
OnePlace ==
  /\ \A i, j \in 1 .. Len(queue) : queue[i] = queue[j] => i = j
  /\ \A c \in Consumer : \A i \in 1 .. Len(queue) : got[c] # queue[i]
  /\ \A c, d \in Consumer : got[c] = got[d] /\ got[c] # NoValue => c = d
  /\ \A c \in Consumer : pc[c] # "out" => got[c] = NoValue

(* What the front of the queue is, and what is left behind it. *)
LEMMA FrontTaken ==
  ASSUME TypeOK, queue # <<>>
  PROVE  /\ Head(queue) = queue[1] /\ Head(queue) \in Value /\ 1 \in 1 .. Len(queue)
         /\ Tail(queue) \in Seq(Value) /\ Len(Tail(queue)) = Len(queue) - 1 /\ Len(queue) \in Nat
         /\ \A i \in 1 .. Len(Tail(queue)) : Tail(queue)[i] = queue[i + 1] /\ i + 1 \in 1 .. Len(queue)
BY HeadTailProperties DEF TypeOK

(* The front moves from the queue into an empty hand. *)
LEMMA FrontMoves ==
  ASSUME TypeOK, OnePlace, NEW c \in Consumer, queue # <<>>, got[c] = NoValue,
         queue' = Tail(queue), got' = [got EXCEPT ![c] = Head(queue)],
         pc' \in {pc, [pc EXCEPT ![c] = "out"]}, pc'[c] = "out"
  PROVE  OnePlace'
<1> USE FrontTaken
<1>1. /\ got'[c] = queue[1] /\ \A d \in Consumer : d # c => got'[d] = got[d]
      /\ \A d \in Consumer : d # c => pc'[d] = pc[d]
  BY DEF TypeOK
<1>2. \A i, j \in 1 .. Len(queue') : queue'[i] = queue'[j] => i = j
  BY DEF OnePlace
<1>3. ASSUME NEW d \in Consumer, NEW i \in 1 .. Len(queue') PROVE got'[d] # queue'[i]
  BY <1>1 DEF OnePlace
<1>4. ASSUME NEW d \in Consumer, NEW e \in Consumer, got'[d] = got'[e], got'[d] # NoValue PROVE d = e
  BY <1>1, <1>4 DEF OnePlace
<1>5. \A d \in Consumer : pc'[d] # "out" => got'[d] = NoValue
  BY <1>1 DEF OnePlace
<1>6. QED
  BY <1>2, <1>3, <1>4, <1>5 DEF OnePlace

(* Every step keeps each pointer in one place. *)
LEMMA StepOnePlace == TypeOK /\ OnePlace /\ [Next]_queueVars => OnePlace'
<1> SUFFICES ASSUME TypeOK, OnePlace, [Next]_queueVars PROVE OnePlace'
  OBVIOUS
<1>1. CASE Produce
  <2>1. PICK v \in Value : v \notin Queued /\ (\A c \in Consumer : got[c] # v) /\ Push(v)
    BY <1>1 DEF Produce
  <2>2. /\ Len(queue') = Len(queue) + 1 /\ Len(queue) \in Nat /\ queue'[Len(queue) + 1] = v
        /\ \A i \in 1 .. Len(queue) : queue'[i] = queue[i] /\ queue[i] # v
        /\ got' = got
    BY <2>1, AppendProperties DEF Push, TypeOK, Queued
  <2>3. \A c \in Consumer : pc'[c] # "out" => pc[c] # "out"
    BY <2>1 DEF Push, NotifyOne, Waiting, TypeOK
  <2>4. \A i \in 1 .. Len(queue') : i \in 1 .. Len(queue) \/ i = Len(queue) + 1
    BY <2>2
  <2>5. QED
    BY <2>1, <2>2, <2>3, <2>4 DEF OnePlace
<1>2. CASE Cancel
  <2>1. Len(queue') = 0 /\ got' = got /\ \A c \in Consumer : pc'[c] # "out" => pc[c] # "out"
    BY <1>2, EmptySeq DEF Cancel, NotifyAll, TypeOK
  <2>2. QED
    BY <2>1 DEF OnePlace
<1>3. ASSUME NEW c \in Consumer, Pop(c) PROVE OnePlace'
  BY <1>3, FrontMoves DEF Pop
<1>4. ASSUME NEW c \in Consumer, Take(c) PROVE OnePlace'
  <2>1. got[c] = NoValue /\ pc'[c] = "out"
    BY <1>4 DEF Take, OnePlace, TypeOK
  <2>2. QED
    BY <1>4, <2>1, FrontMoves DEF Take
<1>5. ASSUME NEW c \in Consumer, Release(c) PROVE OnePlace'
  <2>1. /\ got'[c] = NoValue /\ \A d \in Consumer : d # c => got'[d] = got[d]
        /\ queue' = queue /\ pc' = pc /\ queue \in Seq(Value)
    BY <1>5 DEF Release, TypeOK
  <2>2. \A i \in 1 .. Len(queue) : queue[i] # NoValue
    BY <2>1, NoValueAssumption
  <2>3. QED
    BY <2>1, <2>2 DEF OnePlace
<1>6. ASSUME NEW c \in Consumer, Call(c) \/ Sleep(c) \/ GiveUp(c) \/ SpuriousWakeup(c)
      PROVE  OnePlace'
  <2>1. /\ queue' = queue /\ got' = got /\ got[c] = NoValue
        /\ \A d \in Consumer : d # c => pc'[d] = pc[d]
    BY <1>6 DEF Call, Sleep, GiveUp, SpuriousWakeup, OnePlace, TypeOK
  <2>2. QED
    BY <2>1 DEF OnePlace
<1>7. CASE UNCHANGED queueVars
  BY <1>7 DEF queueVars, OnePlace
<1>8. QED
  BY <1>1, <1>2, <1>3, <1>4, <1>5, <1>6, <1>7 DEF Next, WaitAndPop

(* A queued object is never queued twice, nor in the hands of two threads, *)
(* nor queued while a thread runs it, as long as its producer keeps to     *)
(* pushing what nobody holds.                                              *)
THEOREM NothingIsShared == Safety => []OnePlace
<1>1. Init => OnePlace
  BY EmptySeq DEF Init, OnePlace
<1>2. QED
  BY <1>1, StepOnePlace, TypeCorrect, PTL DEF Safety

(* The two ways to take the front. *)
LEMMA TakenIsHandOut ==
  ASSUME TypeOK, OnePlace, NEW c \in Consumer, queue # <<>>, ~shutdown, got[c] = NoValue,
         queue' = Tail(queue), got' = [got EXCEPT ![c] = Head(queue)]
  PROVE  HandOut
<1>1. got'[c] = Head(queue) /\ \A d \in Consumer : d # c => got'[d] = got[d] /\ got[d] # Head(queue)
  BY FrontTaken DEF TypeOK, OnePlace
<1>2. QED
  BY <1>1 DEF HandOut

(* A push, and every step that takes nothing. *)
LEMMA StepHandOut == TypeOK /\ OnePlace /\ [Next]_queueVars => [HandOut]_queueVars
<1> SUFFICES ASSUME TypeOK, OnePlace, [Next]_queueVars PROVE [HandOut]_queueVars
  OBVIOUS
<1>1. CASE Produce
  <2>1. PICK v \in Value : queue' = Append(queue, v) /\ got' = got
    BY <1>1 DEF Produce, Push
  <2>2. Len(queue') >= Len(queue) /\ SubSeq(queue', 1, Len(queue)) = queue
    BY <2>1 DEF TypeOK
  <2>3. QED
    BY <2>1, <2>2 DEF HandOut
<1>2. CASE Cancel
  BY <1>2 DEF Cancel, HandOut
<1>3. ASSUME NEW c \in Consumer, Pop(c) PROVE HandOut
  BY <1>3, TakenIsHandOut DEF Pop
<1>4. ASSUME NEW c \in Consumer, Take(c) PROVE HandOut
  BY <1>4, TakenIsHandOut DEF Take, OnePlace
<1>5. ASSUME NEW c \in Consumer,
             Call(c) \/ Sleep(c) \/ GiveUp(c) \/ SpuriousWakeup(c) \/ Release(c)
      PROVE  HandOut
  <2>1. queue' = queue /\ \A d \in Consumer : got'[d] \in {got[d], NoValue}
    BY <1>5 DEF Call, Sleep, GiveUp, SpuriousWakeup, Release, TypeOK
  <2>2. Len(queue') >= Len(queue) /\ SubSeq(queue', 1, Len(queue)) = queue
    BY <2>1 DEF TypeOK
  <2>3. QED
    BY <2>1, <2>2 DEF HandOut
<1>6. QED
  BY <1>1, <1>2, <1>3, <1>4, <1>5 DEF Next, WaitAndPop

(* Values are handed out in the order they were queued, each to one        *)
(* consumer, for any number of consumers and however they interleave.      *)
THEOREM OrderIsKept == Safety => HandedOutInOrder
BY StepHandOut, NothingIsShared, TypeCorrect, PTL DEF Safety, HandedOutInOrder
=============================================================================
