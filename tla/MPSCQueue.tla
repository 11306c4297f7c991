------------------------------ MODULE MPSCQueue ------------------------------
(***************************************************************************)
(* The lock-free queue of src/src/common/Threading/MPSCQueue.h, in which   *)
(* the map workers and the world thread put the packets of a WorldSocket   *)
(* and from which its network thread sends them.  It is a linked list of   *)
(* nodes: producers exchange _head for their node and then link it to the  *)
(* one before; the consumer moves _tail along the links and deletes the    *)
(* node it leaves.                                                         *)
(*                                                                         *)
(* The exchange is acquire-release, and a link is stored with release and  *)
(* loaded with acquire, so that a step per atomic access is enough; what a *)
(* producer does to its node before the exchange nobody else can see.      *)
(* Nodes come from a finite memory in which a deleted node is used again.  *)
(***************************************************************************)
EXTENDS Naturals, Sequences

CONSTANTS Producer, Node, Value, NoNode, NoValue

ASSUME NoneAssumption == NoNode \notin Node /\ NoValue \notin Value

VARIABLES head, tail,           \* _head, _tail
          next, data,           \* a node's Next and Data
          allocated,            \* nodes that were created and not deleted
          mine, prevHead,       \* a producer inside Enqueue: its node and the one before
          found,                \* the consumer inside Dequeue: what it loaded from tail->Next
          result,               \* what Dequeue returned last
          chain                 \* history: the nodes from tail to head in the order of the exchanges

memVars == <<next, data, allocated>>
queueVars == <<head, tail, memVars, mine, prevHead, found, result, chain>>

Linking(p) == mine[p] # NoNode
InChain(n) == \E i \in 1 .. Len(chain) : chain[i] = n

QueueTypeOK ==
  /\ head \in Node /\ tail \in Node
  /\ next \in [Node -> Node \cup {NoNode}] /\ data \in [Node -> Value]
  /\ allocated \subseteq Node
  /\ mine \in [Producer -> Node \cup {NoNode}] /\ prevHead \in [Producer -> Node \cup {NoNode}]
  /\ found \in Node \cup {NoNode}
  /\ result \in Value \cup {NoValue}
  /\ chain \in Seq(Node)

(* The constructor: one node, whose Data is never read. *)
QueueInit ==
  \E stub \in Node :
    /\ head = stub /\ tail = stub /\ chain = <<stub>> /\ allocated = {stub}
    /\ next = [n \in Node |-> NoNode]
    /\ data \in [Node -> Value]
    /\ mine = [p \in Producer |-> NoNode] /\ prevHead = [p \in Producer |-> NoNode]
    /\ found = NoNode /\ result = NoValue

(* Fault: _head is loaded and stored, and another producer may have loaded *)
(* the same value: here, one that has not linked its node yet.             *)
EnqueueLoadStore(p, n, v) ==
  /\ ~Linking(p)
  /\ n \notin allocated
  /\ allocated' = allocated \cup {n}
  /\ data' = [data EXCEPT ![n] = v]
  /\ next' = [next EXCEPT ![n] = NoNode]
  /\ mine' = [mine EXCEPT ![p] = n]
  /\ \E old \in {head} \cup {prevHead[q] : q \in {r \in Producer : Linking(r)}} :
       prevHead' = [prevHead EXCEPT ![p] = old]
  /\ head' = n
  /\ chain' = Append(chain, n)
  /\ UNCHANGED <<tail, found, result>>

(* Enqueue(input): a new node, and the exchange of _head. *)
Enqueue(p, n, v) ==
  /\ ~Linking(p)
  /\ n \notin allocated
  /\ allocated' = allocated \cup {n}
  /\ data' = [data EXCEPT ![n] = v]
  /\ next' = [next EXCEPT ![n] = NoNode]
  /\ mine' = [mine EXCEPT ![p] = n]
  /\ prevHead' = [prevHead EXCEPT ![p] = head]
  /\ head' = n
  /\ chain' = Append(chain, n)
  /\ UNCHANGED <<tail, found, result>>

(* Fault: the node is linked to what is the head now, unless that is the node itself. *)
LinkToHead(p) ==
  /\ Linking(p)
  /\ next' = [next EXCEPT ![IF head = mine[p] THEN prevHead[p] ELSE head] = mine[p]]
  /\ mine' = [mine EXCEPT ![p] = NoNode]
  /\ prevHead' = [prevHead EXCEPT ![p] = NoNode]
  /\ UNCHANGED <<head, tail, data, allocated, found, result, chain>>

(* prevHead->Next.store(node), after which Enqueue returns. *)
Link(p) ==
  /\ Linking(p)
  /\ next' = [next EXCEPT ![prevHead[p]] = mine[p]]
  /\ mine' = [mine EXCEPT ![p] = NoNode]
  /\ prevHead' = [prevHead EXCEPT ![p] = NoNode]
  /\ UNCHANGED <<head, tail, data, allocated, found, result, chain>>

(* Dequeue: without a link it returns false, whatever is queued behind the *)
(* missing link.                                                           *)
LoadNext ==
  /\ found = NoNode
  /\ found' = next[tail]
  /\ result' = IF next[tail] = NoNode THEN NoValue ELSE result
  /\ UNCHANGED <<head, tail, memVars, mine, prevHead, chain>>

(* Fault: the node whose data was returned is deleted, and stays the tail. *)
AdvanceDeletingNext ==
  /\ found # NoNode
  /\ result' = data[found]
  /\ tail' = found
  /\ allocated' = allocated \ {found}
  /\ chain' = Tail(chain)
  /\ found' = NoNode
  /\ UNCHANGED <<head, next, data, mine, prevHead>>

(* Fault: the data of the old tail is returned. *)
AdvanceReadingTail ==
  /\ found # NoNode
  /\ result' = data[tail]
  /\ tail' = found
  /\ allocated' = allocated \ {tail}
  /\ chain' = Tail(chain)
  /\ found' = NoNode
  /\ UNCHANGED <<head, next, data, mine, prevHead>>

(* With one, it returns the data of the next node, which becomes the tail. *)
Advance ==
  /\ found # NoNode
  /\ result' = data[found]
  /\ tail' = found
  /\ allocated' = allocated \ {tail}
  /\ chain' = Tail(chain)
  /\ found' = NoNode
  /\ UNCHANGED <<head, next, data, mine, prevHead>>

Consume == LoadNext \/ Advance

QueueNext ==
  \/ \E p \in Producer : Link(p) \/ \E n \in Node, v \in Value : Enqueue(p, n, v)
  \/ Consume

(* A producer that began Enqueue goes on, and the network thread polls. *)
QueueSpec == QueueInit /\ [][QueueNext]_queueVars /\ WF_queueVars(Consume) /\ \A p \in Producer : WF_queueVars(Link(p))

-----------------------------------------------------------------------------
(* Nobody touches a deleted node: neither the consumer, nor a producer that *)
(* is about to link its node to the former head, nor the next exchange.     *)
NoUseAfterDelete ==
  /\ {head, tail} \subseteq allocated
  /\ \A p \in Producer : Linking(p) => {mine[p], prevHead[p]} \subseteq allocated
  /\ found \in allocated \cup {NoNode}

(* Every node that was created is reachable from the tail once the         *)
(* producers are done: nothing is lost, and the destructor, which dequeues *)
(* until it fails, deletes every node.                                     *)
NothingIsLost ==
  /\ allocated = {chain[i] : i \in 1 .. Len(chain)}
  /\ (\A p \in Producer : ~Linking(p)) =>
       \A i \in 1 .. Len(chain) - 1 : next[chain[i]] = chain[i + 1]

(* The values between tail and head, ready when the link to their node is there. *)
Entries ==
  [i \in 1 .. Len(chain) - 1 |->
    [value |-> data[chain[i + 1]], ready |-> next[chain[i]] = chain[i + 1]]]

Promised == INSTANCE FifoQueue WITH entries <- Entries

(* What the consumer gets is what was enqueued, in that order. *)
IsFifo == Promised!Spec

(* A packet that was enqueued reaches the consumer, although a producer    *)
(* that stands between its exchange and its link hides all that follow.    *)
EveryValueArrives == \A n \in Node : InChain(n) ~> tail = n
=============================================================================
