------------------------ MODULE ProducerConsumerQueue ------------------------
(***************************************************************************)
(* The blocking queue of src/src/common/Threading/ProducerConsumerQueue.h: *)
(* a std::queue behind a mutex, with one condition variable on which the   *)
(* consumers sleep.  Each operation holds the mutex from its first line to *)
(* its last, so an operation is one step, except WaitAndPop, which gives   *)
(* the mutex up while it sleeps: it is one step per turn of its loop.      *)
(*                                                                         *)
(* The queued values are pointers to objects allocated by the producer and *)
(* deleted by the consumer: a value is not pushed again while it is queued *)
(* or in a consumer's hands.                                               *)
(***************************************************************************)
EXTENDS Naturals, Sequences, FiniteSets

CONSTANTS Consumer,     \* the threads that call WaitAndPop or Pop
          Value,        \* the queued pointers
          NoValue       \* what a caller's variable holds when nothing was popped

ASSUME ConsumerAssumption == IsFiniteSet(Consumer)
ASSUME NoValueAssumption == NoValue \notin Value

VARIABLES queue,        \* _queue
          shutdown,     \* _shutdown
          pc,           \* where a consumer stands: out of WaitAndPop, at the loop's
                        \* test (wanting the mutex), or asleep on _condition
          got           \* the variable a consumer passes to WaitAndPop or Pop

queueVars == <<queue, shutdown, pc, got>>

Queued == {queue[i] : i \in 1 .. Len(queue)}
Waiting == {c \in Consumer : pc[c] = "asleep"}
Awake == {c \in Consumer : pc[c] = "testing"}

TypeOK ==
  /\ queue \in Seq(Value)
  /\ shutdown \in BOOLEAN
  /\ pc \in [Consumer -> {"out", "testing", "asleep"}]
  /\ got \in [Consumer -> Value \cup {NoValue}]

Init ==
  /\ queue = <<>>
  /\ shutdown = FALSE
  /\ pc = [c \in Consumer |-> "out"]
  /\ got = [c \in Consumer |-> NoValue]

(***************************************************************************)
(* _condition.notify_one(): one sleeper, if there is one, goes back to the *)
(* test.  _condition.notify_all(): all of them do.                         *)
(***************************************************************************)
NotifyOne ==
  \/ Waiting = {} /\ UNCHANGED pc
  \/ \E c \in Waiting : pc' = [pc EXCEPT ![c] = "testing"]

NotifyAll ==
  pc' = [c \in Consumer |-> IF pc[c] = "asleep" THEN "testing" ELSE pc[c]]

(* Fault: only a push into an empty queue notifies. *)
PushNotifiesWhenEmpty(v) ==
  /\ queue' = Append(queue, v)
  /\ IF queue = <<>> THEN NotifyOne ELSE UNCHANGED pc
  /\ UNCHANGED <<shutdown, got>>

(* Fault: nobody is notified. *)
PushWithoutNotify(v) ==
  queue' = Append(queue, v) /\ UNCHANGED <<shutdown, got, pc>>

(* Push(value): the queue accepts values after Cancel too. *)
Push(v) ==
  /\ queue' = Append(queue, v)
  /\ NotifyOne
  /\ UNCHANGED <<shutdown, got>>

(* A producer pushes an object that nobody else holds. *)
Produce ==
  \E v \in Value :
    /\ v \notin Queued
    /\ \A c \in Consumer : got[c] # v
    /\ Push(v)

(* bool Pop(T&): takes the front if there is one, never sleeps. *)
Pop(c) ==
  /\ pc[c] = "out" /\ got[c] = NoValue
  /\ queue # <<>> /\ ~shutdown
  /\ got' = [got EXCEPT ![c] = Head(queue)]
  /\ queue' = Tail(queue)
  /\ UNCHANGED <<shutdown, pc>>

(* A consumer with an empty variable calls WaitAndPop. *)
Call(c) ==
  /\ pc[c] = "out" /\ got[c] = NoValue
  /\ pc' = [pc EXCEPT ![c] = "testing"]
  /\ UNCHANGED <<queue, shutdown, got>>

(* A consumer has run the object it was handed and deletes it. *)
Release(c) ==
  /\ pc[c] = "out" /\ got[c] # NoValue
  /\ got' = [got EXCEPT ![c] = NoValue]
  /\ UNCHANGED <<queue, shutdown, pc>>

(* Fault: the front is read and not removed. *)
TakeWithoutPop(c) ==
  /\ pc[c] = "testing"
  /\ queue # <<>> /\ ~shutdown
  /\ got' = [got EXCEPT ![c] = Head(queue)]
  /\ pc' = [pc EXCEPT ![c] = "out"]
  /\ UNCHANGED <<queue, shutdown>>

(* One turn of WaitAndPop's loop, with the mutex held. *)
Sleep(c) ==
  /\ pc[c] = "testing"
  /\ queue = <<>> /\ ~shutdown
  /\ pc' = [pc EXCEPT ![c] = "asleep"]
  /\ UNCHANGED <<queue, shutdown, got>>

Take(c) ==
  /\ pc[c] = "testing"
  /\ queue # <<>> /\ ~shutdown
  /\ got' = [got EXCEPT ![c] = Head(queue)]
  /\ queue' = Tail(queue)
  /\ pc' = [pc EXCEPT ![c] = "out"]
  /\ UNCHANGED shutdown

GiveUp(c) ==
  /\ pc[c] = "testing"
  /\ shutdown
  /\ pc' = [pc EXCEPT ![c] = "out"]
  /\ UNCHANGED <<queue, shutdown, got>>

WaitAndPop(c) == Sleep(c) \/ Take(c) \/ GiveUp(c)

(* A condition variable may wake a sleeper that nobody notified. *)
SpuriousWakeup(c) ==
  /\ pc[c] = "asleep"
  /\ pc' = [pc EXCEPT ![c] = "testing"]
  /\ UNCHANGED <<queue, shutdown, got>>

(* Cancel(): delete what is queued, raise the flag, wake everybody. *)
Cancel ==
  /\ queue' = <<>>
  /\ shutdown' = TRUE
  /\ NotifyAll
  /\ UNCHANGED got

Next ==
  \/ Produce
  \/ Cancel
  \/ \E c \in Consumer :
       Pop(c) \/ Call(c) \/ WaitAndPop(c) \/ SpuriousWakeup(c) \/ Release(c)

Safety == Init /\ [][Next]_queueVars

(***************************************************************************)
(* A consumer whose thread is running gets the mutex and goes on.  Nobody  *)
(* is obliged to call, to push or to cancel.                               *)
(***************************************************************************)
Spec == Safety /\ \A c \in Consumer : WF_queueVars(WaitAndPop(c))

-----------------------------------------------------------------------------
(***************************************************************************)
(* No lost wakeup: while somebody sleeps, every queued value has a         *)
(* consumer of its own on the way to it.  notify_one in Push is enough     *)
(* although two pushes may find the same consumers asleep, and although a  *)
(* consumer on its way may find its value taken by a newcomer.             *)
(***************************************************************************)
NoLostWakeup == Waiting # {} => Len(queue) <= Cardinality(Awake)

(* Nobody sleeps once Cancel has run: a consumer that was about to sleep   *)
(* when the flag rose would be missed by notify_all and never joined.      *)
NobodySleepsAfterCancel == shutdown => Waiting = {}

(* The step of a queue whose values leave at the front: each goes into the *)
(* hands of one consumer, and only Cancel throws one away.                 *)
HandOut ==
  /\ \/ Len(queue') >= Len(queue) /\ SubSeq(queue', 1, Len(queue)) = queue
     \/ queue' = Tail(queue) /\ \E c \in Consumer : got'[c] = Head(queue) /\ got[c] = NoValue
     \/ queue' = <<>> /\ shutdown'
  /\ \A c \in Consumer :
       got'[c] \notin {got[c], NoValue} =>
         /\ ~shutdown /\ queue' = Tail(queue) /\ got'[c] = Head(queue)
         /\ \A d \in Consumer : got'[d] = got'[c] => d = c

(* Values leave in the order they were queued, each into the hands of one  *)
(* consumer, and only Cancel throws a value away that nobody received: two *)
(* threads never run and delete the same object.                           *)
HandedOutInOrder == [][HandOut]_queueVars

(* Nobody stays in WaitAndPop with something to return for: a value queued *)
(* while every consumer is inside leaves the queue, and Cancel releases    *)
(* everybody.                                                              *)
EveryWaitEnds ==
  /\ \A v \in Value :
       (v \in Queued /\ Waiting \cup Awake = Consumer) ~> v \notin Queued \/ shutdown
  /\ \A c \in Consumer : (shutdown /\ pc[c] # "out") ~> pc[c] = "out"
=============================================================================
