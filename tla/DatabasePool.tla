---------------------------- MODULE DatabasePool ----------------------------
(***************************************************************************)
(* One DatabaseWorkerPool: the queue of asynchronous operations and the    *)
(* workers that execute them, the synchronous connections that are locked  *)
(* for one caller at a time, the execution of a transaction with its       *)
(* rollback and its retries after a deadlock, the reconnection when the    *)
(* server is lost, the futures of queries and the QueryCallbackProcessor   *)
(* that runs their callbacks, and the end of the pool.                     *)
(*                                                                         *)
(* The MySQL server is external: a connection is in autocommit mode or in  *)
(* a transaction whose statements are pending until COMMIT; it answers     *)
(* with success, with an error, or breaks.  The sleeping and waking of     *)
(* ProducerConsumerQueue is modelled in MapUpdater; here a worker simply   *)
(* pops when there is something to pop.                                    *)
(***************************************************************************)
EXTENDS Integers, Sequences, FiniteSets

CONSTANTS
  Workers,       \* asynchronous connections, each with its thread
  Synchronous,   \* synchronous connections
  Ops,           \* operations
  Kind,          \* of an operation: "transaction", "execute" or "query"
  Size,          \* statements of an operation; queries of a holder
  Directly,      \* operations whose caller waits for them
  Follower,      \* the query a callback chains, or None
  LoopBreaker,   \* retries after a deadlock
  MaxLosses,     \* bound: lost connections
  None

Connections == Workers \cup Synchronous

ASSUME ConstantsAssumption ==
  /\ Workers \cap Synchronous = {}
  /\ IsFiniteSet(Workers)
  /\ Kind \in [Ops -> {"transaction", "execute", "query"}]
  /\ Size \in [Ops -> Nat \ {0}]
  /\ Directly \subseteq {o \in Ops : Kind[o] # "query"}
  /\ Follower \in [Ops -> Ops \cup {None}]
  \* A callback creates the query it asks.
  /\ \A o, p \in Ops : Follower[o] # None =>
       Kind[Follower[o]] = "query" /\ (Follower[p] = Follower[o] => p = o)
  /\ LoopBreaker \in Nat \ {0}
  /\ MaxLosses \in Nat
  /\ None \notin Ops \cup Connections

VARIABLES
  queue,          \* _queue
  pool,           \* "open", "closing": in Close, "closed"
  token,          \* _cancelationToken of a worker
  worker,         \* "wait", "popped", "busy" or "exited"
  held,           \* the operation a worker popped
  task,           \* how far an operation has got
  _deadlockLock,  \* the operation that holds it, or None
  m_Mutex,        \* synchronous connections that are locked
  \* the processor of callbacks
  callbacks,      \* _callbacks, by query
  updating,       \* updateCallbacks still to be looked at
  kept,           \* updateCallbacks that were not ready
  processing,     \* inside ProcessReadyQueries
  future,         \* of a query: "none", "ready", "taken" or "broken"
  \* the server
  link,           \* of a connection: "up", "lost", or "closed": m_Mysql is null
  session,        \* statements pending in the transaction, or None
  db,             \* statements that took effect
  \* history
  submitted,      \* asynchronous operations in the order of Enqueue
  called,         \* how often a query's callback ran
  lost,           \* operations whose connection broke under them
  losses,
  aborted         \* std::abort was called

poolVars == <<queue, pool, token, worker, held, m_Mutex, submitted>>
callbackVars == <<callbacks, updating, kept, processing, called>>
serverVars == <<link, session, db>>
lossVars == <<lost, losses, aborted>>
vars == <<poolVars, callbackVars, serverVars, lossVars, task, _deadlockLock, future>>

Settled == {"executed", "failed", "dropped"}
Running == {"begin", "execute", "commit", "rollback"}

Statements(o) == IF Kind[o] = "query" THEN <<>> ELSE [i \in 1 .. Size[o] |-> <<o, i>>]

\* An operation that is not being executed.
Idle(phase) == [phase |-> phase, conn |-> None, at |-> 1, tries |-> 0, error |-> "none"]

-----------------------------------------------------------------------------
Init ==
  /\ queue = <<>>
  /\ pool = "open"
  /\ token = [w \in Workers |-> FALSE]
  /\ worker = [w \in Workers |-> "wait"]
  /\ held = [w \in Workers |-> None]
  /\ task = [o \in Ops |-> Idle("new")]
  /\ _deadlockLock = None
  /\ m_Mutex = {}
  /\ callbacks = <<>>
  /\ updating = <<>>
  /\ kept = <<>>
  /\ processing = FALSE
  /\ future = [o \in Ops |-> "none"]
  /\ link = [c \in Connections |-> "up"]
  /\ session = [c \in Connections |-> None]
  /\ db = <<>>
  /\ submitted = <<>>
  /\ called = [o \in Ops |-> 0]
  /\ lost = {}
  /\ losses = 0
  /\ aborted = FALSE

-----------------------------------------------------------------------------
(* Callers.                                                                 *)

\* The first state of an operation on connection c.
Started(o, c) ==
  [phase |-> IF Kind[o] = "transaction" THEN "begin" ELSE "execute",
   conn |-> c, at |-> 1, tries |-> 0, error |-> "none"]

Push(o) ==
  /\ queue' = Append(queue, o)
  /\ submitted' = Append(submitted, o)
  /\ task' = [task EXCEPT ![o].phase = "queued"]

IsFollower(o) == \E p \in Ops : Follower[p] = o

\* Execute and CommitTransaction; AsyncQuery with AddQuery.  The callers stop
\* before the pool is closed.
Enqueue(o) ==
  /\ pool = "open"
  /\ task[o].phase = "new"
  /\ o \notin Directly
  /\ ~IsFollower(o)
  /\ Push(o)
  /\ callbacks' = IF Kind[o] = "query" THEN Append(callbacks, o) ELSE callbacks
  /\ UNCHANGED <<pool, token, worker, held, m_Mutex, updating, kept, processing,
                 called, serverVars, lossVars, _deadlockLock, future>>

\* GetFreeConnection: a synchronous connection whose mutex try_lock takes.
GetFreeConnection(c) == c \notin m_Mutex

\* DirectExecute, DirectCommitTransaction.
Direct(o, c) ==
  /\ pool = "open"
  /\ task[o].phase = "new"
  /\ o \in Directly
  /\ GetFreeConnection(c)
  /\ m_Mutex' = m_Mutex \cup {c}
  /\ task' = [task EXCEPT ![o] = Started(o, c)]
  /\ UNCHANGED <<queue, pool, token, worker, held, submitted, callbackVars,
                 serverVars, lossVars, _deadlockLock, future>>

-----------------------------------------------------------------------------
(* DatabaseWorker::WorkerThread.                                            *)

\* WaitAndPop; after Cancel it returns without an operation.
WaitAndPop(w) ==
  /\ worker[w] = "wait"
  /\ queue # <<>> \/ pool # "open"
  /\ worker' = [worker EXCEPT ![w] = "popped"]
  /\ IF queue = <<>> \/ pool # "open"
       THEN UNCHANGED <<queue, held, task>>
       ELSE /\ held' = [held EXCEPT ![w] = Head(queue)]
            /\ queue' = Tail(queue)
            /\ task' = [task EXCEPT ![Head(queue)].phase = "popped"]
  /\ UNCHANGED <<pool, token, m_Mutex, submitted, callbackVars, serverVars, lossVars,
                 _deadlockLock, future>>

\* Mutant: a worker without an operation goes on waiting, whatever its token.
LoopOn(w) ==
  /\ worker[w] = "popped"
  /\ token[w] \/ held[w] = None
  /\ worker' = [worker EXCEPT ![w] = "wait"]
  /\ task' = IF held[w] = None THEN task ELSE [task EXCEPT ![held[w]] = Idle("dropped")]
  /\ held' = [held EXCEPT ![w] = None]
  /\ UNCHANGED <<queue, pool, token, m_Mutex, submitted, callbackVars, serverVars,
                 lossVars, _deadlockLock, future>>

\* The worker leaves when it is told to or has nothing; an operation it popped
\* meanwhile is never executed.
Leave(w) ==
  /\ worker[w] = "popped"
  /\ token[w] \/ held[w] = None
  /\ worker' = [worker EXCEPT ![w] = "exited"]
  /\ task' = IF held[w] = None THEN task
             ELSE [task EXCEPT ![held[w]].phase = "dropped"]
  /\ UNCHANGED <<queue, pool, token, held, m_Mutex, submitted, callbackVars,
                 serverVars, lossVars, _deadlockLock, future>>

Call(w) ==
  /\ worker[w] = "popped"
  /\ ~token[w] /\ held[w] # None
  /\ worker' = [worker EXCEPT ![w] = "busy"]
  /\ task' = [task EXCEPT ![held[w]] = Started(held[w], w)]
  /\ UNCHANGED <<queue, pool, token, held, m_Mutex, submitted, callbackVars,
                 serverVars, lossVars, _deadlockLock, future>>

-----------------------------------------------------------------------------
(* MySQLConnection, executing operation o.                                  *)

\* The operation ends: its worker deletes it, or its caller unlocks the
\* connection; the lock of the retries is released.
Finish(o, outcome) ==
  LET c == task[o].conn IN
  /\ task' = [task EXCEPT ![o] = Idle(outcome)]
  /\ IF c \in Workers
       THEN /\ worker' = [worker EXCEPT ![c] = "wait"]
            /\ held' = [held EXCEPT ![c] = None]
            /\ UNCHANGED m_Mutex
       ELSE /\ m_Mutex' = m_Mutex \ {c}
            /\ UNCHANGED <<worker, held>>
  /\ _deadlockLock' = IF _deadlockLock = o THEN None ELSE _deadlockLock
  /\ future' = IF Kind[o] = "query" THEN [future EXCEPT ![o] = "ready"] ELSE future
  /\ UNCHANGED <<queue, pool, token, submitted>>

Goto(o, t) ==
  /\ task' = [task EXCEPT ![o] = t]
  /\ UNCHANGED <<queue, pool, token, worker, held, m_Mutex, submitted,
                 _deadlockLock, future>>

Conn(o) == task[o].conn
InTransaction(c) == session[c] # None

\* What the server does with each command on connection c.
Start(c) ==                 \* START TRANSACTION commits what is open
  /\ session' = [session EXCEPT ![c] = <<>>]
  /\ db' = IF InTransaction(c) THEN db \o session[c] ELSE db
End(c) ==                   \* COMMIT
  /\ session' = [session EXCEPT ![c] = None]
  /\ db' = IF InTransaction(c) THEN db \o session[c] ELSE db
Undo(c) ==                  \* ROLLBACK, and what a deadlock or a loss does
  /\ session' = [session EXCEPT ![c] = None]
  /\ UNCHANGED db
Apply(o, c) ==              \* the statement the operation is at
  IF Kind[o] = "query" THEN UNCHANGED <<session, db>>
  ELSE IF InTransaction(c)
    THEN /\ session' = [session EXCEPT ![c] = Append(@, <<o, task[o].at>>)]
         /\ UNCHANGED db
    ELSE /\ db' = Append(db, <<o, task[o].at>>)
         /\ UNCHANGED session

\* What follows a statement that was executed: the next statement, the commit
\* of a transaction, or the end.
Advance(o) ==
  IF task[o].at < Size[o] THEN Goto(o, [task[o] EXCEPT !.at = @ + 1])
  ELSE IF Kind[o] = "transaction" THEN Goto(o, [task[o] EXCEPT !.phase = "commit"])
  ELSE Finish(o, "executed")

BeginTransaction(o) ==
  /\ task[o].phase = "begin"
  /\ link[Conn(o)] = "up"
  /\ Start(Conn(o))
  /\ Goto(o, [task[o] EXCEPT !.phase = "execute", !.at = 1])
  /\ UNCHANGED <<callbackVars, link, lossVars>>

Execute(o) ==
  /\ task[o].phase = "execute"
  /\ link[Conn(o)] = "up"
  /\ Apply(o, Conn(o))
  /\ Advance(o)
  /\ UNCHANGED <<callbackVars, link, lossVars>>

\* What follows a statement that failed: a transaction is rolled back, a query
\* has an empty result, and any other statement is given up.
Fail(o, error) ==
  CASE Kind[o] = "transaction" -> Goto(o, [task[o] EXCEPT !.phase = "rollback", !.error = error])
    [] Kind[o] = "query" -> Advance(o)
    [] Kind[o] = "execute" -> Finish(o, "failed")

\* An error of the statement itself (ER_DUP_ENTRY, ER_WRONG_VALUE_COUNT, ...).
StatementError(o) ==
  /\ task[o].phase = "execute"
  /\ link[Conn(o)] = "up"
  /\ Fail(o, "other")
  /\ UNCHANGED <<callbackVars, serverVars, lossVars>>

\* ER_LOCK_DEADLOCK: the server ends the transaction of one of two connections
\* that wait for each other.
Deadlock(o) ==
  /\ task[o].phase = "execute"
  /\ link[Conn(o)] = "up"
  /\ \E c \in Connections \ {Conn(o)} : InTransaction(c) /\ session[c] # <<>>
  /\ Undo(Conn(o))
  /\ Fail(o, "deadlock")
  /\ UNCHANGED <<callbackVars, link, lossVars>>

\* Mutant: a worker puts the transaction back in the queue.
AfterRollbackRequeue(o) ==
  IF task[o].error = "deadlock" /\ Conn(o) \in Workers
    THEN /\ queue' = Append(queue, o)
         /\ task' = [task EXCEPT ![o] = Idle("queued")]
         /\ worker' = [worker EXCEPT ![Conn(o)] = "wait"]
         /\ held' = [held EXCEPT ![Conn(o)] = None]
         /\ UNCHANGED <<pool, token, m_Mutex, submitted, _deadlockLock, future>>
    ELSE Finish(o, "failed")

\* ExecuteTransaction returns the error: after a deadlock the transaction is
\* tried again, and in those retries after any error.
AfterRollback(o) ==
  IF task[o].tries = 0 /\ task[o].error = "deadlock"
    THEN Goto(o, [task[o] EXCEPT !.phase = "retry"])
  ELSE IF task[o].tries \in 1 .. LoopBreaker - 1
    THEN Goto(o, [task[o] EXCEPT !.phase = "begin", !.tries = @ + 1])
  ELSE Finish(o, "failed")

RollbackTransaction(o) ==
  /\ task[o].phase = "rollback"
  /\ link[Conn(o)] = "up"
  /\ Undo(Conn(o))
  /\ AfterRollback(o)
  /\ UNCHANGED <<callbackVars, link, lossVars>>

\* Mutant: only the statement that failed is tried again.
RetryStatement(o) ==
  /\ task[o].phase = "retry"
  /\ task' = [task EXCEPT ![o].phase = "execute", ![o].tries = 1]
  /\ UNCHANGED <<poolVars, callbackVars, serverVars, lossVars, _deadlockLock, future>>

\* The first retry; workers take _deadlockLock for it.
Retry(o) ==
  /\ task[o].phase = "retry"
  /\ IF Conn(o) \in Workers
       THEN _deadlockLock = None /\ _deadlockLock' = o
       ELSE UNCHANGED _deadlockLock
  /\ task' = [task EXCEPT ![o].phase = "begin", ![o].tries = 1]
  /\ UNCHANGED <<poolVars, callbackVars, serverVars, lossVars, future>>

\* The result of COMMIT is not looked at.
CommitTransaction(o) ==
  /\ task[o].phase = "commit"
  /\ link[Conn(o)] = "up"
  /\ End(Conn(o))
  /\ Finish(o, "executed")
  /\ UNCHANGED <<callbackVars, link, lossVars>>

-----------------------------------------------------------------------------
(* The server is lost, and _HandleMySQLErrno.                               *)

Users(c) == {o \in Ops : task[o].phase \in Running /\ Conn(o) = c}

\* A connection breaks, and the server rolls back what is open on it.
Lose(c) ==
  /\ link[c] = "up"
  /\ losses < MaxLosses
  /\ losses' = losses + 1
  /\ link' = [link EXCEPT ![c] = "lost"]
  /\ Undo(c)
  /\ lost' = IF InTransaction(c) THEN lost \cup Users(c) ELSE lost
  /\ UNCHANGED <<poolVars, callbackVars, task, _deadlockLock, future, aborted>>

\* The connection breaks between the command and its answer.
LoseAnswer(o) ==
  LET c == Conn(o) IN
  /\ task[o].phase \in {"execute", "commit"}
  /\ link[c] = "up"
  /\ losses < MaxLosses
  /\ losses' = losses + 1
  /\ link' = [link EXCEPT ![c] = "lost"]
  /\ \/ /\ task[o].phase = "commit"
        /\ End(c)
        /\ UNCHANGED lost
     \/ /\ task[o].phase = "execute"
        /\ ~InTransaction(c)
        /\ Apply(o, c)
        /\ lost' = lost \cup {o}
  /\ UNCHANGED <<poolVars, callbackVars, task, _deadlockLock, future, aborted>>

\* The command fails, one of five attempts to connect succeeds, the statements
\* are prepared again, and the command is repeated: a new session of the server
\* in autocommit mode.
Reconnect(o) ==
  /\ task[o].phase \in Running
  /\ link[Conn(o)] = "lost"
  /\ link' = [link EXCEPT ![Conn(o)] = "up"]
  /\ UNCHANGED <<poolVars, callbackVars, session, db, lossVars, task, _deadlockLock,
                 future>>

\* An attempt fails with an error that is not one of those handled here, as a
\* refused local socket does: the connection stays closed.
GiveUp(o) ==
  /\ task[o].phase \in Running
  /\ link[Conn(o)] = "lost"
  /\ link' = [link EXCEPT ![Conn(o)] = "closed"]
  /\ UNCHANGED <<poolVars, callbackVars, session, db, lossVars, task, _deadlockLock,
                 future>>

\* On a closed connection every command fails at once, and the results of START
\* TRANSACTION, COMMIT and ROLLBACK are not looked at.
Unconnected(o) ==
  /\ task[o].phase \in Running
  /\ link[Conn(o)] = "closed"
  /\ \/ /\ task[o].phase = "begin"
        /\ Goto(o, [task[o] EXCEPT !.phase = "execute", !.at = 1])
     \/ task[o].phase = "execute" /\ Fail(o, "other")
     \/ task[o].phase = "rollback" /\ AfterRollback(o)
     \/ task[o].phase = "commit" /\ Finish(o, "executed")
  /\ UNCHANGED <<callbackVars, serverVars, lossVars>>

\* All five attempts fail: the process ends, and with it every connection.
Abort(o) ==
  /\ task[o].phase \in Running
  /\ link[Conn(o)] = "lost"
  /\ aborted' = TRUE
  /\ session' = [c \in Connections |-> None]
  /\ UNCHANGED <<poolVars, callbackVars, link, db, lost, losses, task, _deadlockLock,
                 future>>

-----------------------------------------------------------------------------
(* QueryCallbackProcessor::ProcessReadyQueries.                             *)

BeginProcess ==
  /\ pool = "open"
  /\ ~processing
  /\ callbacks # <<>>
  /\ processing' = TRUE
  /\ updating' = callbacks
  /\ callbacks' = <<>>
  /\ UNCHANGED <<poolVars, kept, called, serverVars, lossVars, task, _deadlockLock,
                 future>>

NotReady ==
  /\ processing
  /\ updating # <<>>
  /\ future[Head(updating)] # "ready"
  /\ kept' = Append(kept, Head(updating))
  /\ updating' = Tail(updating)
  /\ UNCHANGED <<poolVars, callbacks, processing, called, serverVars, lossVars, task,
                 _deadlockLock, future>>

\* InvokeIfReady: the callback takes the result.  It may chain one more query,
\* and the entry then stays for that query; it may add one with AddQuery; or it
\* ends the chain.
InvokeIfReady ==
  LET q == Head(updating) IN
  /\ processing
  /\ updating # <<>>
  /\ future[q] = "ready"
  /\ future' = [future EXCEPT ![q] = "taken"]
  /\ called' = [called EXCEPT ![q] = @ + 1]
  /\ updating' = Tail(updating)
  /\ \/ /\ Follower[q] # None
        /\ Push(Follower[q])
        /\ \/ kept' = Append(kept, Follower[q]) /\ UNCHANGED callbacks
           \/ callbacks' = Append(callbacks, Follower[q]) /\ UNCHANGED kept
     \/ UNCHANGED <<queue, submitted, task, kept, callbacks>>
  /\ UNCHANGED <<pool, token, worker, held, m_Mutex, processing, serverVars,
                 lossVars, _deadlockLock>>

\* Mutant: they replace those added meanwhile.
RemainingOnly == kept

\* The callbacks that remain go behind those added meanwhile.
Remaining == callbacks \o kept

EndProcess ==
  /\ processing
  /\ updating = <<>>
  /\ processing' = FALSE
  /\ callbacks' = Remaining
  /\ kept' = <<>>
  /\ UNCHANGED <<poolVars, updating, called, serverVars, lossVars, task,
                 _deadlockLock, future>>

-----------------------------------------------------------------------------
(* Close, when the other threads of the core have stopped.                  *)

\* The next worker is stopped: ~DatabaseWorker sets the token, cancels the
\* queue, whose operations are deleted, and joins the thread.
Close(w) ==
  /\ ~processing /\ m_Mutex = {}
  /\ ~token[w]
  /\ \A v \in Workers : token[v] => worker[v] = "exited"
  /\ token' = [token EXCEPT ![w] = TRUE]
  /\ pool' = "closing"
  /\ queue' = <<>>
  /\ task' = [o \in Ops |-> IF task[o].phase = "queued"
                            THEN [task[o] EXCEPT !.phase = "dropped"] ELSE task[o]]
  /\ future' = [o \in Ops |-> IF task[o].phase = "queued" /\ Kind[o] = "query"
                              THEN "broken" ELSE future[o]]
  /\ UNCHANGED <<worker, held, m_Mutex, submitted, callbackVars, serverVars,
                 lossVars, _deadlockLock>>

Closed ==
  /\ pool = "closing"
  /\ \A w \in Workers : token[w] /\ worker[w] = "exited"
  /\ pool' = "closed"
  /\ UNCHANGED <<queue, token, worker, held, m_Mutex, submitted, callbackVars,
                 serverVars, lossVars, task, _deadlockLock, future>>

-----------------------------------------------------------------------------
WorkerThread(w) == WaitAndPop(w) \/ Leave(w) \/ Call(w)

Run(o) ==
  \/ BeginTransaction(o)
  \/ Execute(o)
  \/ StatementError(o)
  \/ Deadlock(o)
  \/ RollbackTransaction(o)
  \/ Retry(o)
  \/ CommitTransaction(o)
  \/ Reconnect(o)
  \/ GiveUp(o)
  \/ Unconnected(o)
  \/ Abort(o)

ProcessReadyQueries == BeginProcess \/ NotReady \/ InvokeIfReady \/ EndProcess

Step ==
  \/ \E o \in Ops : \/ Enqueue(o)
                    \/ \E c \in Synchronous : Direct(o, c)
                    \/ Run(o)
                    \/ LoseAnswer(o)
  \/ \E w \in Workers : WorkerThread(w) \/ Close(w)
  \/ \E c \in Connections : Lose(c)
  \/ ProcessReadyQueries
  \/ Closed

Stopped == (aborted \/ pool = "closed") /\ UNCHANGED vars

Next == (~aborted /\ Step) \/ Stopped

Spec == Init /\ [][Next]_vars

\* Threads are scheduled, the server answers or breaks, the world thread looks
\* for callbacks in every update, and Close goes on once it has begun.
FairSpec ==
  /\ Spec
  /\ \A w \in Workers : WF_vars(~aborted /\ WorkerThread(w))
  /\ \A o \in Ops : WF_vars(~aborted /\ Run(o))
  /\ WF_vars(~aborted /\ ProcessReadyQueries)
  /\ WF_vars(~aborted /\ pool = "closing" /\ (Closed \/ \E w \in Workers : Close(w)))

-----------------------------------------------------------------------------
(* Properties.                                                              *)

TypeOK ==
  /\ queue \in Seq(Ops) /\ submitted \in Seq(Ops)
  /\ pool \in {"open", "closing", "closed"}
  /\ token \in [Workers -> BOOLEAN]
  /\ worker \in [Workers -> {"wait", "popped", "busy", "exited"}]
  /\ held \in [Workers -> Ops \cup {None}]
  /\ task \in [Ops -> [phase : {"new", "queued", "popped"} \cup Running \cup {"retry"} \cup Settled,
                       conn : Connections \cup {None}, at : Nat, tries : 0 .. LoopBreaker,
                       error : {"none", "deadlock", "other"}]]
  /\ _deadlockLock \in Ops \cup {None}
  /\ m_Mutex \subseteq Synchronous
  /\ callbacks \in Seq(Ops) /\ updating \in Seq(Ops) /\ kept \in Seq(Ops)
  /\ processing \in BOOLEAN
  /\ future \in [Ops -> {"none", "ready", "taken", "broken"}]
  /\ link \in [Connections -> {"up", "lost", "closed"}]
  /\ session \in [Connections -> Seq(Ops \X Nat) \cup {None}]
  /\ db \in Seq(Ops \X Nat)
  /\ called \in [Ops -> Nat]
  /\ lost \subseteq Ops /\ losses \in 0 .. MaxLosses /\ aborted \in BOOLEAN

\* Deadlocks, failed statements, retries, competing connections and a shutdown
\* in the middle: an operation takes effect as a whole, in order and once, or
\* not at all (Journal), unless its connection broke while it was under way.
Written == {db[i][1] : i \in DOMAIN db}
J == INSTANCE Journal WITH
       journal <- SelectSeq(db, LAMBDA e : e[1] \notin lost),
       settled <- {o \in Ops \ lost : task[o].phase \in Settled \/ o \in Written}
ImplementsJournal == J!Spec

\* With one worker, the default, a query is executed after everything that was
\* handed to the pool before it has taken effect or failed for good: a
\* character is loaded with what its last logout saved.
SeesEarlierWrites ==
  Cardinality(Workers) = 1 =>
    \A i, j \in DOMAIN submitted :
      i < j /\ task[submitted[j]].phase \in Running \cup {"retry", "executed", "failed"}
        => task[submitted[i]].phase \in Settled

\* Every query that was handed to the pool is answered, and its callback runs,
\* unless the pool is closed or the process ends first.
QueryAnswered ==
  \A q \in {o \in Ops : Kind[o] = "query"} :
    task[q].phase = "queued"
      ~> (called[q] > 0 \/ pool # "open" \/ aborted)

\* Close gets to its end: every worker can be joined.
CloseEnds == pool = "closing" ~> (pool = "closed" \/ aborted)

\* What DatabaseWorkerPool::BeginTransaction says of a transaction: without
\* autocommit, it is rolled back when it is not committed, so once it is over its
\* statements have taken effect together or not at all.
TransactionAtomic ==
  \A o \in Ops :
    (Kind[o] = "transaction" /\ task[o].phase \in Settled) =>
      SelectSeq(db, LAMBDA e : e[1] = o) \in {<<>>, Statements(o)}
=============================================================================
