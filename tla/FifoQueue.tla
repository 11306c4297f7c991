------------------------------ MODULE FifoQueue ------------------------------
(***************************************************************************)
(* What src/src/common/Threading/MPSCQueue.h promises its callers: a value *)
(* takes its place in the queue when Enqueue is called and becomes ready   *)
(* when Enqueue returns; Dequeue takes the first value if it is ready and  *)
(* fails otherwise, even if values behind it are ready.                    *)
(***************************************************************************)
EXTENDS Sequences, Naturals

CONSTANTS Value, NoValue

VARIABLES entries,      \* the values in the order of the calls, and whether they are ready
          result        \* what the last Dequeue returned

Init == entries = <<>> /\ result = NoValue

Enqueue ==
  \E v \in Value :
    /\ entries' = Append(entries, [value |-> v, ready |-> FALSE])
    /\ UNCHANGED result

Ready ==
  \E i \in 1 .. Len(entries) :
    /\ ~entries[i].ready
    /\ entries' = [entries EXCEPT ![i] = [value |-> entries[i].value, ready |-> TRUE]]
    /\ UNCHANGED result

Dequeue ==
  /\ entries # <<>> /\ entries[1].ready
  /\ result' = entries[1].value
  /\ entries' = Tail(entries)

DequeueFails ==
  /\ entries # <<>> => ~entries[1].ready
  /\ result' = NoValue
  /\ UNCHANGED entries

Next == Enqueue \/ Ready \/ Dequeue \/ DequeueFails

Spec == Init /\ [][Next]_<<entries, result>>
=============================================================================
