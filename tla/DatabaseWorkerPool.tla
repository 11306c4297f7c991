-------------------------- MODULE DatabaseWorkerPool --------------------------
(***************************************************************************)
(* DatabaseWorkerPool, DatabaseWorker, TransactionTask and MySQLConnection *)
(* of src/src/server/database/Database: operations queued by the game      *)
(* threads are executed by worker threads, each on a connection of its     *)
(* own; DirectCommitTransaction and DirectExecute run in the caller on a   *)
(* synchronous connection.  A transaction that MySQL chose as a deadlock   *)
(* victim is tried again, one worker at a time; a lost connection is       *)
(* replaced inside Execute, which then repeats its statement.              *)
(*                                                                         *)
(* WaitAndPop is one step here: that it loses no wakeup and no value is    *)
(* the subject of ProducerConsumerQueue.  The MySQL server is external: a  *)
(* session with a transaction that is committed, rolled back, killed by a  *)
(* deadlock or lost with its connection.  Operations are numbered as they  *)
(* are issued, their statements from 1.                                    *)
(***************************************************************************)
EXTENDS Naturals, Sequences

CONSTANTS Worker, Sync,   \* asynchronous and synchronous connections
          NoConn,         \* holds the lock when nobody does
          Kind,           \* what may be issued: [tx, direct, promise: BOOLEAN, size: Nat]
          Retries,        \* loopBreaker, 5 in the code
          MaxIssued, MaxVictims, MaxLost  \* bounds: operations, deadlocks, lost connections

ASSUME ConnAssumption == Worker \cap Sync = {} /\ NoConn \notin Worker \cup Sync
ASSUME KindAssumption ==
  \A k \in Kind : /\ k.tx \in BOOLEAN /\ k.direct \in BOOLEAN /\ k.promise \in BOOLEAN
                  /\ k.size \in Nat /\ (~k.tx => k.size = 1)
ASSUME BoundAssumption == Retries \in Nat \ {0} /\ MaxIssued \in Nat

Conn == Worker \cup Sync

VARIABLES issued, kind,         \* number of operations so far, and the kind of each
          queue, shutdown,      \* _queue and its _shutdown
          token,                \* workers whose _cancelationToken is raised
          pc, op, stmt, try,    \* what a connection's thread executes, the next statement,
                                \* and the number of the attempt (0, then retries)
          deadlockLock,         \* TransactionTask::_deadlockLock
          inTx, open,           \* MySQL: sessions in a transaction, its statements so far
          stored, log,          \* MySQL: committed statements of each operation; order of commits
          answer,               \* the promise of an operation
          victims, lost,        \* deadlocks each operation met, connections lost so far
          hit, rejected, gone   \* operations during which the connection was lost, that
                                \* had a failing statement, that were executed or dropped

poolVars == <<issued, kind, queue, shutdown, token>>
threadVars == <<pc, op, stmt, try, deadlockLock>>
serverVars == <<inTx, open, stored, log>>
historyVars == <<victims, lost, hit, rejected>>
vars == <<poolVars, threadVars, serverVars, answer, historyVars, gone>>

Tasks == 1 .. issued
Full(k) == [i \in 1 .. k.size |-> i]
Busy(c) == pc[c] \in {"popped", "begin", "run", "commit", "lock"}
Goto(c, l) == pc' = [pc EXCEPT ![c] = l]

TypeOK ==
  /\ issued \in 0 .. MaxIssued /\ kind \in [Tasks -> Kind]
  /\ queue \in Seq(Tasks) /\ shutdown \in BOOLEAN /\ token \subseteq Worker
  /\ pc \in [Conn -> {"wait", "popped", "begin", "run", "commit", "lock", "out"}]
  /\ op \in [Conn -> 0 .. issued] /\ \A c \in Conn : Busy(c) => op[c] \in Tasks
  /\ stmt \in [Conn -> Nat] /\ try \in [Conn -> 0 .. Retries]
  /\ deadlockLock \in Worker \cup {NoConn}
  /\ inTx \subseteq Conn /\ open \in [Conn -> Seq(Nat)]
  /\ stored \in [Tasks -> Seq(Nat)] /\ log \in Seq(Tasks)
  /\ answer \in [Tasks -> {"none", "pending", "true", "false", "broken"}]
  /\ victims \in [Tasks -> Nat] /\ lost \in Nat
  /\ hit \subseteq Tasks /\ rejected \subseteq Tasks /\ gone \subseteq Tasks

Init ==
  /\ issued = 0 /\ kind = <<>> /\ queue = <<>> /\ shutdown = FALSE /\ token = {}
  /\ pc = [c \in Conn |-> "wait"] /\ op = [c \in Conn |-> 0]
  /\ stmt = [c \in Conn |-> 1] /\ try = [c \in Conn |-> 0]
  /\ deadlockLock = NoConn
  /\ inTx = {} /\ open = [c \in Conn |-> <<>>] /\ stored = <<>> /\ log = <<>>
  /\ answer = <<>> /\ victims = <<>> /\ lost = 0
  /\ hit = {} /\ rejected = {} /\ gone = {}

-----------------------------------------------------------------------------
(* The game threads. *)

Extend(f, v) == [n \in 1 .. issued + 1 |-> IF n <= issued THEN f[n] ELSE v]

New(k) ==
  /\ issued < MaxIssued /\ token = {}
  /\ issued' = issued + 1
  /\ kind' = Extend(kind, k)
  /\ answer' = Extend(answer, IF k.promise THEN "pending" ELSE "none")
  /\ stored' = Extend(stored, <<>>) /\ victims' = Extend(victims, 0)
  /\ UNCHANGED <<shutdown, token, deadlockLock, inTx, open, log, lost, hit, rejected, gone>>

(* Execute, CommitTransaction, AsyncCommitTransaction: the future is taken *)
(* before the task is queued.                                              *)
Enqueue(k) ==
  /\ ~k.direct
  /\ New(k)
  /\ queue' = Append(queue, issued')
  /\ UNCHANGED <<pc, op, stmt, try>>

(* The first step of an operation on a connection. *)
Start(k) == IF k.tx THEN "begin" ELSE "run"

(* DirectExecute, DirectCommitTransaction: GetFreeConnection finds one that *)
(* is not locked by another thread.                                         *)
Direct(s, k) ==
  /\ k.direct
  /\ pc[s] = "wait"
  /\ New(k)
  /\ Goto(s, Start(k))
  /\ op' = [op EXCEPT ![s] = issued']
  /\ stmt' = [stmt EXCEPT ![s] = 1] /\ try' = [try EXCEPT ![s] = 0]
  /\ UNCHANGED queue

(* Close destroys the asynchronous connections one after the other, when    *)
(* nobody issues operations any more: ~DatabaseWorker raises the token,     *)
(* cancels the queue that all workers share, deleting what is in it with    *)
(* its promises, and joins the thread.                                      *)
Close(w) ==
  /\ w \notin token
  /\ \A s \in Sync : pc[s] = "wait"
  /\ \A v \in token : pc[v] = "out"
  /\ token' = token \cup {w}
  /\ shutdown' = TRUE
  /\ queue' = <<>>
  /\ LET dropped == {queue[i] : i \in 1 .. Len(queue)} IN
       /\ gone' = gone \cup dropped
       /\ answer' = [n \in Tasks |-> IF n \in dropped /\ kind[n].promise THEN "broken" ELSE answer[n]]
  /\ UNCHANGED <<issued, kind, threadVars, serverVars, historyVars>>

-----------------------------------------------------------------------------
(* DatabaseWorker::WorkerThread. *)

(* Fault: the newest operation first. *)
PopNewest(w) ==
  /\ pc[w] = "wait"
  /\ queue # <<>>
  /\ op' = [op EXCEPT ![w] = queue[Len(queue)]]
  /\ queue' = SubSeq(queue, 1, Len(queue) - 1)
  /\ Goto(w, "popped")
  /\ UNCHANGED <<issued, kind, shutdown, token, stmt, try, deadlockLock, serverVars, answer, historyVars, gone>>

WaitAndPop(w) ==
  /\ pc[w] = "wait"
  /\ queue # <<>>
  /\ op' = [op EXCEPT ![w] = Head(queue)]
  /\ queue' = Tail(queue)
  /\ Goto(w, "popped")
  /\ UNCHANGED <<issued, kind, shutdown, token, stmt, try, deadlockLock, serverVars, answer, historyVars, gone>>

(* A cancelled queue returns no operation, and the worker returns. *)
ReturnOnNull(w) ==
  /\ pc[w] = "wait" /\ shutdown /\ queue = <<>>
  /\ Goto(w, "out")
  /\ UNCHANGED <<poolVars, op, stmt, try, deadlockLock, serverVars, answer, historyVars, gone>>

(* The token was raised after the pop: the operation is neither executed   *)
(* nor deleted, and its promise is never set.                              *)
ReturnOnToken(w) ==
  /\ pc[w] = "popped" /\ w \in token
  /\ Goto(w, "out")
  /\ gone' = gone \cup {op[w]}
  /\ UNCHANGED <<poolVars, op, stmt, try, deadlockLock, serverVars, answer, historyVars>>

CallOperation(w) ==
  /\ pc[w] = "popped" /\ w \notin token
  /\ Goto(w, Start(kind[op[w]]))
  /\ stmt' = [stmt EXCEPT ![w] = 1] /\ try' = [try EXCEPT ![w] = 0]
  /\ UNCHANGED <<poolVars, op, deadlockLock, serverVars, answer, historyVars, gone>>

-----------------------------------------------------------------------------
(* ExecuteTransaction and Execute on connection c, and the loops of         *)
(* TransactionTask::Execute and DirectCommitTransaction around them.        *)

(* Fault: the lock is kept by an operation that is given up. *)
FinishKeepingLock(c, outcome) ==
  /\ Goto(c, "wait")
  /\ deadlockLock' = IF deadlockLock = c /\ outcome = "true" THEN NoConn ELSE deadlockLock
  /\ answer' = [answer EXCEPT ![op[c]] = IF kind[op[c]].promise THEN outcome ELSE @]
  /\ gone' = gone \cup {op[c]}
  /\ UNCHANGED <<op, try>>

(* Fault: the promise is told of the end, whatever it was. *)
FinishWithTrue(c, outcome) ==
  /\ Goto(c, "wait")
  /\ deadlockLock' = IF deadlockLock = c THEN NoConn ELSE deadlockLock
  /\ answer' = [answer EXCEPT ![op[c]] = IF kind[op[c]].promise THEN "true" ELSE @]
  /\ gone' = gone \cup {op[c]}
  /\ UNCHANGED <<op, try>>

Finish(c, outcome) ==
  /\ Goto(c, "wait")
  /\ deadlockLock' = IF deadlockLock = c THEN NoConn ELSE deadlockLock
  /\ answer' = [answer EXCEPT ![op[c]] = IF kind[op[c]].promise THEN outcome ELSE @]
  /\ gone' = gone \cup {op[c]}
  /\ UNCHANGED <<op, try>>

(* Fault: one retry fewer. *)
FailEarly(c, deadlock) ==
  IF ~kind[op[c]].tx \/ try[c] >= Retries - 1 \/ (try[c] = 0 /\ ~deadlock)
  THEN Finish(c, "false")
  ELSE /\ try' = [try EXCEPT ![c] = @ + 1]
       /\ Goto(c, IF try[c] = 0 /\ c \in Worker THEN "lock" ELSE "begin")
       /\ UNCHANGED <<op, deadlockLock, answer, gone>>

(* An attempt failed.  Only a first attempt that met a deadlock enters the *)
(* loop of retries, and whatever fails in there is tried again.            *)
Fail(c, deadlock) ==
  IF ~kind[op[c]].tx \/ try[c] = Retries \/ (try[c] = 0 /\ ~deadlock)
  THEN Finish(c, "false")
  ELSE /\ try' = [try EXCEPT ![c] = @ + 1]
       /\ Goto(c, IF try[c] = 0 /\ c \in Worker THEN "lock" ELSE "begin")
       /\ UNCHANGED <<op, deadlockLock, answer, gone>>

LockDeadlock(w) ==
  /\ pc[w] = "lock" /\ deadlockLock = NoConn
  /\ deadlockLock' = w
  /\ Goto(w, "begin")
  /\ UNCHANGED <<poolVars, op, stmt, try, serverVars, answer, historyVars, gone>>

(* Fault: no transaction is started. *)
BeginNothing(c) ==
  /\ pc[c] = "begin" /\ kind[op[c]].size > 0
  /\ stmt' = [stmt EXCEPT ![c] = 1]
  /\ Goto(c, "run")
  /\ UNCHANGED <<poolVars, op, try, deadlockLock, serverVars, answer, historyVars, gone>>

Begin(c) ==
  /\ pc[c] = "begin" /\ kind[op[c]].size > 0
  /\ inTx' = inTx \cup {c}
  /\ stmt' = [stmt EXCEPT ![c] = 1]
  /\ Goto(c, "run")
  /\ UNCHANGED <<poolVars, op, try, deadlockLock, open, stored, log, answer, historyVars, gone>>

(* ExecuteTransaction returns -1 for a transaction without statements. *)
EmptyTransaction(c) ==
  /\ pc[c] = "begin" /\ kind[op[c]].size = 0
  /\ Fail(c, FALSE)
  /\ UNCHANGED <<poolVars, stmt, serverVars, historyVars>>

(* MySQL keeps a statement in the open transaction, or commits it at once. *)
Store(c) ==
  IF c \in inTx
  THEN open' = [open EXCEPT ![c] = Append(@, stmt[c])] /\ UNCHANGED <<stored, log>>
  ELSE /\ stored' = [stored EXCEPT ![op[c]] = Append(@, stmt[c])]
       /\ log' = Append(log, op[c])
       /\ UNCHANGED open

Statement(c) ==
  /\ pc[c] = "run"
  /\ Store(c)
  /\ stmt' = [stmt EXCEPT ![c] = @ + 1]
  /\ IF ~kind[op[c]].tx THEN Finish(c, "true")
     ELSE /\ Goto(c, IF stmt[c] = kind[op[c]].size THEN "commit" ELSE "run")
          /\ UNCHANGED <<op, try, deadlockLock, answer, gone>>
  /\ UNCHANGED <<poolVars, inTx, historyVars>>

(* A statement is rejected (a duplicate key, a wrong value): ROLLBACK. *)
Reject(c) ==
  /\ pc[c] = "run"
  /\ rejected' = rejected \cup {op[c]}
  /\ inTx' = inTx \ {c} /\ open' = [open EXCEPT ![c] = <<>>]
  /\ Fail(c, FALSE)
  /\ UNCHANGED <<poolVars, stmt, stored, log, victims, lost, hit>>

(* MySQL rolls back a statement that deadlocks with another session's      *)
(* transaction, and the transaction it is in.                              *)
Deadlock(c) ==
  /\ pc[c] = "run"
  /\ victims[op[c]] < MaxVictims
  /\ \E d \in Conn \ {c} : open[d] # <<>>
  /\ victims' = [victims EXCEPT ![op[c]] = @ + 1]
  /\ inTx' = inTx \ {c} /\ open' = [open EXCEPT ![c] = <<>>]
  /\ Fail(c, TRUE)
  /\ UNCHANGED <<poolVars, stmt, stored, log, lost, hit, rejected>>

(* COMMIT; a session without a transaction has nothing to commit. *)
Commit(c) ==
  /\ pc[c] = "commit"
  /\ IF c \in inTx
     THEN /\ stored' = [stored EXCEPT ![op[c]] = @ \o open[c]]
          /\ log' = Append(log, op[c])
     ELSE UNCHANGED <<stored, log>>
  /\ inTx' = inTx \ {c} /\ open' = [open EXCEPT ![c] = <<>>]
  /\ Finish(c, "true")
  /\ UNCHANGED <<poolVars, stmt, historyVars>>

-----------------------------------------------------------------------------
(* _HandleMySQLErrno: the connection is lost between two statements.  It   *)
(* is opened again in autocommit mode and the statement repeated on it;    *)
(* what the old session had in a transaction is rolled back by MySQL.      *)
LoseConnection(c) ==
  /\ pc[c] \in {"run", "commit"} /\ lost < MaxLost
  /\ lost' = lost + 1
  /\ hit' = hit \cup {op[c]}
  /\ inTx' = inTx \ {c} /\ open' = [open EXCEPT ![c] = <<>>]
  /\ UNCHANGED <<poolVars, threadVars, stored, log, answer, victims, rejected, gone>>

(* The same after MySQL executed the statement: it is executed again. *)
LoseReply(c) ==
  /\ pc[c] = "run" /\ c \notin inTx /\ lost < MaxLost
  /\ lost' = lost + 1
  /\ hit' = hit \cup {op[c]}
  /\ Store(c)
  /\ UNCHANGED <<poolVars, threadVars, inTx, answer, victims, rejected, gone>>

Server(c) == Deadlock(c) \/ Reject(c) \/ LoseConnection(c) \/ LoseReply(c)

Thread(w) == WaitAndPop(w) \/ ReturnOnNull(w) \/ ReturnOnToken(w) \/ CallOperation(w) \/ LockDeadlock(w)

Run(c) == Begin(c) \/ EmptyTransaction(c) \/ Statement(c) \/ Commit(c)

Next ==
  \/ \E k \in Kind : Enqueue(k) \/ \E s \in Sync : Direct(s, k)
  \/ \E w \in Worker : Close(w) \/ Thread(w)
  \/ \E c \in Conn : Run(c) \/ Server(c)

(* The threads keep running.  Nobody has to issue operations or to close   *)
(* the pool, and nothing has to fail.                                      *)
Fairness ==
  /\ \A w \in Worker : WF_vars(Thread(w))
  /\ \A c \in Conn : WF_vars(Run(c))
  /\ \A w \in Worker : WF_vars(token # {} /\ Close(w))

Spec == Init /\ [][Next]_vars /\ Fairness

-----------------------------------------------------------------------------
(***************************************************************************)
(* A transaction is all or nothing, its statements in the order in which   *)
(* they were appended, and any other operation executed at most once,      *)
(* through deadlocks, retries, failing statements and the close of the     *)
(* pool.  Operations that met a lost connection (hit) are the exception:   *)
(* what Execute repeats on a new connection is outside of the transaction. *)
(***************************************************************************)
AllOrNothing ==
  \A n \in Tasks \ hit : stored[n] \in {<<>>, Full(kind[n])}

(* What a promise says is what happened: true when the operation is        *)
(* stored, false when nothing of it is, a broken promise when it was       *)
(* deleted by Close before a worker took it.                               *)
AnswersAreTrue ==
  \A n \in Tasks \ hit : /\ answer[n] = "true" => stored[n] = Full(kind[n])
                         /\ answer[n] \in {"false", "broken"} => stored[n] = <<>>

(* A transaction without failing statements is given up only after         *)
(* 1 + Retries deadlocks; operations outside of one fail at the first.     *)
GivenUpForAReason ==
  \A n \in gone :
    kind[n].tx /\ kind[n].size > 0 /\ token = {} /\ stored[n] = <<>> /\ n \notin rejected \cup hit
      => victims[n] > Retries

(* As long as one worker does the work, and it does with the default of    *)
(* one worker per pool, what is queued is stored in the order of the       *)
(* calls, a transaction that is retried included.                          *)
StoredInOrder ==
  (\E w \in Worker : \A v \in Worker \ {w} : op[v] = 0) =>
    \A i, j \in 1 .. Len(log) :
      i < j /\ ~kind[log[i]].direct /\ ~kind[log[j]].direct => log[i] <= log[j]

(* Every operation is executed or, by Close, dropped: no worker waits for  *)
(* ever for the lock; and a close that began ends, with all workers        *)
(* joined.                                                                 *)
NothingIsStuck ==
  /\ \A n \in 1 .. MaxIssued : n \in Tasks ~> n \in gone
  /\ token # {} ~> \A w \in Worker : pc[w] = "out"
=============================================================================
