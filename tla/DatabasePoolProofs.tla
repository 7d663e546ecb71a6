------------------------ MODULE DatabasePoolProofs --------------------------
(* Proofs about DatabasePool, for any operations, connections, statements,  *)
(* retries and losses of connections.                                       *)
EXTENDS DatabasePool, FiniteSetTheorems, TLAPS

Doing == Running \cup {"retry"}

Task == [phase : {"new", "queued", "popped"} \cup Running \cup {"retry"} \cup Settled,
         conn : Connections \cup {None}, at : Nat, tries : 0 .. LoopBreaker,
         error : {"none", "deadlock", "other"}]

\* An operation is handed to the queue at most once, and only one that nobody
\* waits for.
SubmittedInv ==
  /\ \A i, j \in 1 .. Len(submitted) : submitted[i] = submitted[j] => i = j
  /\ \A i \in 1 .. Len(submitted) :
       submitted[i] \notin Directly /\ task[submitted[i]].phase # "new"
  /\ \A o \in Directly : task[o].phase \notin {"queued", "popped"}

\* What is queued is what was submitted last.
QueueInv ==
  /\ Len(queue) <= Len(submitted)
  /\ \A i \in 1 .. Len(queue) : queue[i] = submitted[Len(submitted) - Len(queue) + i]
  /\ \A i \in 1 .. Len(submitted) :
       task[submitted[i]].phase = "queued" <=> i > Len(submitted) - Len(queue)

\* An operation that was popped and is not over is in the hands of one worker,
\* or of the connection its caller locked.
HeldInv ==
  /\ \A w \in Workers : worker[w] = "wait" => held[w] = None
  /\ \A w \in Workers :
       worker[w] = "popped" /\ held[w] # None => task[held[w]].phase = "popped"
  /\ \A v, w \in Workers :
       worker[v] = "popped" /\ worker[w] = "popped" /\ held[v] = held[w]
         => v = w \/ held[w] = None
  /\ \A o \in Ops : task[o].phase = "popped" =>
       \E w \in Workers : worker[w] = "popped" /\ held[w] = o
  /\ \A o \in Ops : task[o].phase \in Doing =>
       IF o \in Directly THEN task[o].conn \in Synchronous
       ELSE /\ task[o].conn \in Workers
            /\ held[task[o].conn] = o
            /\ worker[task[o].conn] = "busy"

\* A query has no result before it is over, and its follower does not exist
\* before its result was taken.
FutureInv ==
  \A o \in Ops :
    /\ Kind[o] = "query" /\ task[o].phase \notin Settled => future[o] = "none"
    /\ Follower[o] # None /\ task[Follower[o]].phase # "new" => future[o] = "taken"

\* Callbacks run before the pool is closed.
ProcessInv == processing => pool = "open"

\* The types, apart.
PoolType ==
  /\ queue \in Seq(Ops) /\ submitted \in Seq(Ops)
  /\ pool \in {"open", "closing", "closed"}
  /\ token \in [Workers -> BOOLEAN]
  /\ worker \in [Workers -> {"wait", "popped", "busy", "exited"}]
  /\ held \in [Workers -> Ops \cup {None}]
  /\ task \in [Ops -> Task]
  /\ _deadlockLock \in Ops \cup {None}
  /\ m_Mutex \subseteq Synchronous
  /\ future \in [Ops -> {"none", "ready", "taken", "broken"}]

CallbackType ==
  /\ callbacks \in Seq(Ops) /\ updating \in Seq(Ops) /\ kept \in Seq(Ops)
  /\ processing \in BOOLEAN
  /\ called \in [Ops -> Nat]

ServerType ==
  /\ link \in [Connections -> {"up", "lost", "closed"}]
  /\ session \in [Connections -> Seq(Ops \X Nat) \cup {None}]
  /\ db \in Seq(Ops \X Nat)
  /\ lost \subseteq Ops /\ losses \in 0 .. MaxLosses /\ aborted \in BOOLEAN

\* What concerns the queue, the workers and the operations.
CoreInv ==
  /\ PoolType
  /\ SubmittedInv
  /\ QueueInv
  /\ HeldInv
  /\ FutureInv
  /\ ProcessInv
  /\ SeesEarlierWrites

\* The inductive invariant of the pool.
PoolInv == CoreInv /\ CallbackType /\ ServerType

-----------------------------------------------------------------------------
(* Steps of the core.                                                       *)

USE DEF Running, Settled, Doing

\* The phases of an operation that was executed, or is being executed.
Begun == Doing \cup {"executed", "failed"}

LEMMA SubmittedPlace ==
  ASSUME PoolType
  PROVE  /\ DOMAIN submitted = 1 .. Len(submitted)
         /\ Len(submitted) \in Nat
         /\ \A i \in 1 .. Len(submitted) : submitted[i] \in Ops
  BY DEF PoolType

\* An operation changes its phase.
WithPhase(f, o, phase) == [f EXCEPT ![o].phase = phase]

LEMMA PhaseType ==
  ASSUME NEW f \in [Ops -> Task], NEW o \in Ops, NEW phase \in {"queued", "popped", "dropped"}
  PROVE  /\ WithPhase(f, o, phase) \in [Ops -> Task]
         /\ WithPhase(f, o, phase)[o].phase = phase
         /\ \A p \in Ops \ {o} : WithPhase(f, o, phase)[p] = f[p]
  <1>1. f[o] \in Task
    OBVIOUS
  <1>2. [f[o] EXCEPT !.phase = phase] \in Task /\ [f[o] EXCEPT !.phase = phase].phase = phase
    BY <1>1 DEF Task
  <1>3. WithPhase(f, o, phase) = [f EXCEPT ![o] = [f[o] EXCEPT !.phase = phase]]
    BY DEF WithPhase
  <1> QED
    BY <1>2, <1>3

\* The order in which operations take effect is kept by a step that begins none
\* and brings none that is over back.
LEMMA OrderFrame ==
  ASSUME PoolType, SeesEarlierWrites, submitted' = submitted,
         \A o \in Ops : /\ task'[o].phase \in Begun => task[o].phase \in Begun
                        /\ task[o].phase \in Settled => task'[o].phase \in Settled
  PROVE  SeesEarlierWrites'
  BY SubmittedPlace DEF SeesEarlierWrites, Begun

\* A step that touches neither the queue nor an operation.
LEMMA CoreFrame ==
  ASSUME CoreInv, UNCHANGED <<poolVars, task, _deadlockLock, future>>,
         processing' => pool = "open"
  PROVE  CoreInv'
  <1>1. PoolType'
    BY DEF CoreInv, PoolType, poolVars
  <1>2. SubmittedInv' /\ QueueInv' /\ HeldInv' /\ FutureInv' /\ ProcessInv'
    BY DEF CoreInv, SubmittedInv, QueueInv, HeldInv, FutureInv, ProcessInv, poolVars
  <1>3. SeesEarlierWrites'
    BY DEF CoreInv, SeesEarlierWrites, poolVars
  <1> QED
    BY <1>1, <1>2, <1>3 DEF CoreInv

\* An operation goes from one command to the next.
LEMMA GotoStep ==
  ASSUME CoreInv, NEW o \in Ops, NEW t \in Task,
         task[o].phase \in Doing, t.phase \in Doing, t.conn = task[o].conn,
         task' = [task EXCEPT ![o] = t],
         UNCHANGED <<queue, pool, token, worker, held, m_Mutex, submitted, future,
                     processing>>,
         _deadlockLock' \in Ops \cup {None}
  PROVE  CoreInv'
  <1>1. PoolType'
    BY DEF CoreInv, PoolType
  <1>2. /\ task'[o] = t
        /\ \A p \in Ops \ {o} : task'[p] = task[p]
    BY DEF CoreInv, PoolType
  <1>3. /\ \A i \in 1 .. Len(submitted) : submitted[i] \in Ops
        /\ \A w \in Workers : held[w] # None => held[w] \in Ops
        /\ \A p \in Ops : Follower[p] # None => Follower[p] \in Ops
    BY SubmittedPlace, ConstantsAssumption DEF CoreInv, PoolType
  <1>4. SubmittedInv'
    BY <1>2, <1>3, ConstantsAssumption DEF CoreInv, SubmittedInv
  <1>5. QueueInv'
    BY <1>2, <1>3 DEF CoreInv, QueueInv
  <1>6. HeldInv'
    BY <1>2, <1>3 DEF CoreInv, HeldInv
  <1>7. FutureInv' /\ ProcessInv'
    BY <1>2, <1>3 DEF CoreInv, FutureInv, ProcessInv
  <1>8. SeesEarlierWrites'
    BY <1>2, OrderFrame DEF CoreInv, Begun
  <1> QED
    BY <1>1, <1>4, <1>5, <1>6, <1>7, <1>8 DEF CoreInv

\* An operation is over.
LEMMA FinishStep ==
  ASSUME CoreInv, NEW o \in Ops, NEW outcome \in {"executed", "failed"},
         task[o].phase \in Doing, Finish(o, outcome), UNCHANGED processing
  PROVE  CoreInv'
  <1> PICK c : c = task[o].conn
    OBVIOUS
  <1>1. /\ c \in Connections
        /\ o \notin Directly => c \in Workers /\ held[c] = o /\ worker[c] = "busy"
        /\ o \in Directly => c \in Synchronous /\ c \notin Workers
    BY ConstantsAssumption DEF CoreInv, HeldInv, Connections
  <1>2. /\ task'[o] = Idle(outcome)
        /\ \A p \in Ops \ {o} : task'[p] = task[p]
        /\ Idle(outcome) \in Task /\ Idle(outcome).phase = outcome
    BY ConstantsAssumption DEF CoreInv, PoolType, Finish, Idle, Task
  <1>3. /\ \A i \in 1 .. Len(submitted) : submitted[i] \in Ops
        /\ \A w \in Workers : held[w] # None => held[w] \in Ops
        /\ \A p \in Ops : Follower[p] # None => Follower[p] \in Ops
    BY SubmittedPlace, ConstantsAssumption DEF CoreInv, PoolType
  <1>4. UNCHANGED <<queue, pool, token, submitted>>
    BY DEF Finish
  <1>5. /\ worker' \in [Workers -> {"wait", "popped", "busy", "exited"}]
        /\ held' \in [Workers -> Ops \cup {None}]
        /\ m_Mutex' \subseteq Synchronous
    BY DEF CoreInv, PoolType, Finish
  <1>6. future' = IF Kind[o] = "query" THEN [future EXCEPT ![o] = "ready"] ELSE future
    BY DEF Finish
  <1>7. PoolType'
    <2>1. _deadlockLock' \in Ops \cup {None}
      BY DEF CoreInv, PoolType, Finish
    <2>2. task' \in [Ops -> Task]
      BY <1>2 DEF CoreInv, PoolType, Finish
    <2>3. future' \in [Ops -> {"none", "ready", "taken", "broken"}]
      BY <1>6 DEF CoreInv, PoolType
    <2> QED
      BY <1>4, <1>5, <2>1, <2>2, <2>3 DEF CoreInv, PoolType
  <1>8. SubmittedInv'
    BY <1>2, <1>3, <1>4, ConstantsAssumption DEF CoreInv, SubmittedInv
  <1>9. QueueInv'
    BY <1>2, <1>3, <1>4 DEF CoreInv, QueueInv
  <1>10. HeldInv'
    <2>1. \A w \in Workers : \/ w = c /\ worker'[w] = "wait" /\ held'[w] = None
                             \/ w # c /\ worker'[w] = worker[w] /\ held'[w] = held[w]
      BY <1>1 DEF CoreInv, PoolType, Finish
    <2>2. \A w \in Workers : worker'[w] = "wait" => held'[w] = None
      BY <2>1 DEF CoreInv, HeldInv
    <2>3. ASSUME NEW w \in Workers, worker'[w] = "popped", held'[w] # None
          PROVE  task'[held'[w]].phase = "popped"
      BY <1>2, <1>3, <2>1, <2>3 DEF CoreInv, HeldInv
    <2>4. ASSUME NEW p \in Ops, task'[p].phase = "popped"
          PROVE  \E w \in Workers : worker'[w] = "popped" /\ held'[w] = p
      <3>1. p # o /\ task[p].phase = "popped"
        BY <1>2, <2>4
      <3> PICK w \in Workers : worker[w] = "popped" /\ held[w] = p
        BY <3>1 DEF CoreInv, HeldInv
      <3>2. w # c
        BY <1>1
      <3> QED
        BY <2>1, <3>2
    <2>5. ASSUME NEW p \in Ops, task'[p].phase \in Doing
          PROVE  IF p \in Directly THEN task'[p].conn \in Synchronous
                 ELSE /\ task'[p].conn \in Workers
                      /\ held'[task'[p].conn] = p
                      /\ worker'[task'[p].conn] = "busy"
      <3>1. p # o /\ task'[p] = task[p]
        BY <1>2, <2>5
      <3>2. p \notin Directly => task[p].conn # c
        BY <1>1, <2>5, <3>1, ConstantsAssumption DEF CoreInv, HeldInv
      <3> QED
        BY <2>1, <2>5, <3>1, <3>2 DEF CoreInv, HeldInv
    <2>6. \A v, x \in Workers :
            worker'[v] = "popped" /\ worker'[x] = "popped" /\ held'[v] = held'[x]
              => v = x \/ held'[x] = None
      BY <2>1 DEF CoreInv, HeldInv
    <2> QED
      BY <2>2, <2>3, <2>4, <2>5, <2>6 DEF HeldInv
  <1>11. FutureInv'
    BY <1>2, <1>3, <1>6 DEF CoreInv, PoolType, FutureInv
  <1>12. ProcessInv'
    BY <1>4 DEF CoreInv, ProcessInv
  <1>13. SeesEarlierWrites'
    BY <1>2, <1>4, OrderFrame DEF CoreInv, Begun
  <1> QED
    BY <1>7, <1>8, <1>9, <1>10, <1>11, <1>12, <1>13 DEF CoreInv
\* An operation is handed to the queue.
LEMMA PushStep ==
  ASSUME CoreInv, NEW o \in Ops, o \notin Directly, task[o].phase = "new", Push(o)
  PROVE  /\ queue' \in Seq(Ops) /\ submitted' \in Seq(Ops) /\ task' \in [Ops -> Task]
         /\ task'[o].phase = "queued"
         /\ \A p \in Ops \ {o} : task'[p] = task[p]
         /\ SubmittedInv' /\ QueueInv' /\ SeesEarlierWrites'
  <1> PICK L \in Nat : L = Len(submitted)
    BY DEF CoreInv, PoolType
  <1> PICK k \in Nat : k = Len(queue)
    BY DEF CoreInv, PoolType
  <1>1. queue \in Seq(Ops) /\ submitted \in Seq(Ops) /\ task \in [Ops -> Task]
    BY DEF CoreInv, PoolType
  <1>2. /\ queue' = Append(queue, o) /\ submitted' = Append(submitted, o)
        /\ task' = [task EXCEPT ![o].phase = "queued"]
    BY DEF Push
  <1>3. /\ queue' \in Seq(Ops) /\ Len(queue') = k + 1
        /\ \A i \in 1 .. k : queue'[i] = queue[i]
        /\ queue'[k + 1] = o
    BY <1>1, <1>2
  <1>4. /\ submitted' \in Seq(Ops) /\ Len(submitted') = L + 1
        /\ \A i \in 1 .. L : submitted'[i] = submitted[i] /\ submitted[i] \in Ops
        /\ submitted'[L + 1] = o
    BY <1>1, <1>2
  <1>5. /\ task' \in [Ops -> Task] /\ task'[o].phase = "queued"
        /\ \A p \in Ops \ {o} : task'[p] = task[p]
    <2>1. task' = WithPhase(task, o, "queued")
      BY <1>2 DEF WithPhase
    <2> QED
      BY <1>1, <2>1, PhaseType
  <1>6. \A i \in 1 .. L : submitted[i] # o
    BY DEF CoreInv, SubmittedInv
  <1>7. SubmittedInv'
    <2>1. \A i, j \in 1 .. (L + 1) : submitted'[i] = submitted'[j] => i = j
      BY <1>4, <1>6 DEF CoreInv, SubmittedInv
    <2>2. \A i \in 1 .. (L + 1) :
            submitted'[i] \notin Directly /\ task'[submitted'[i]].phase # "new"
      BY <1>4, <1>5, <1>6 DEF CoreInv, SubmittedInv
    <2>3. \A p \in Directly : task'[p].phase \notin {"queued", "popped"}
      BY <1>5, ConstantsAssumption DEF CoreInv, SubmittedInv
    <2> QED
      BY <1>4, <2>1, <2>2, <2>3 DEF SubmittedInv
  <1>8. QueueInv'
    <2>1. k <= L /\ \A i \in 1 .. k : queue[i] = submitted[L - k + i]
      BY DEF CoreInv, QueueInv
    <2>2. ASSUME NEW i \in 1 .. (k + 1)
          PROVE  queue'[i] = submitted'[(L + 1) - (k + 1) + i]
      <3>1. CASE i = k + 1
        <4>1. (L + 1) - (k + 1) + i = L + 1
          BY <3>1
        <4> QED
          BY <1>3, <1>4, <3>1, <4>1
      <3>2. CASE i # k + 1
        <4>1. i \in 1 .. k /\ (L + 1) - (k + 1) + i = L - k + i /\ L - k + i \in 1 .. L
          BY <2>1, <3>2
        <4> QED
          BY <1>3, <1>4, <2>1, <4>1
      <3> QED
        BY <3>1, <3>2
    <2>3. ASSUME NEW i \in 1 .. (L + 1)
          PROVE  task'[submitted'[i]].phase = "queued" <=> i > (L + 1) - (k + 1)
      <3>1. CASE i = L + 1
        BY <1>4, <1>5, <2>1, <3>1
      <3>2. CASE i # L + 1
        <4>1. i \in 1 .. L /\ (L + 1) - (k + 1) = L - k
          BY <3>2
        <4>2. task'[submitted'[i]] = task[submitted[i]]
          BY <1>4, <1>5, <1>6, <4>1
        <4> QED
          BY <4>1, <4>2 DEF CoreInv, QueueInv
      <3> QED
        BY <3>1, <3>2
    <2> QED
      BY <1>3, <1>4, <2>1, <2>2, <2>3 DEF QueueInv
  <1>9. SeesEarlierWrites'
    <2> SUFFICES ASSUME Cardinality(Workers) = 1,
                        NEW i \in 1 .. (L + 1), NEW j \in 1 .. (L + 1), i < j,
                        task'[submitted'[j]].phase \in Begun
                 PROVE  task'[submitted'[i]].phase \in Settled
      BY <1>4 DEF SeesEarlierWrites, Begun
    <2>1. j \in 1 .. L /\ i \in 1 .. L
      BY <1>4, <1>5 DEF Begun
    <2>2. task'[submitted'[i]] = task[submitted[i]] /\ task'[submitted'[j]] = task[submitted[j]]
      BY <1>4, <1>5, <1>6, <2>1
    <2>3. DOMAIN submitted = 1 .. L
      BY <1>1
    <2>4. task[submitted[i]].phase \in Settled
      BY <2>1, <2>2, <2>3 DEF CoreInv, SeesEarlierWrites, Begun
    <2> QED
      BY <2>2, <2>4
  <1> QED
    BY <1>3, <1>4, <1>5, <1>7, <1>8, <1>9

\* The rest of the core after a push that is not the work of a second callback.
LEMMA PushCore ==
  ASSUME CoreInv, NEW o \in Ops, o \notin Directly, task[o].phase = "new", Push(o),
         UNCHANGED <<pool, token, worker, held, m_Mutex, _deadlockLock>>,
         future' \in [Ops -> {"none", "ready", "taken", "broken"}],
         processing' => pool = "open",
         FutureInv'
  PROVE  CoreInv'
  <1>1. /\ queue' \in Seq(Ops) /\ submitted' \in Seq(Ops) /\ task' \in [Ops -> Task]
        /\ task'[o].phase = "queued"
        /\ \A p \in Ops \ {o} : task'[p] = task[p]
        /\ SubmittedInv' /\ QueueInv' /\ SeesEarlierWrites'
    BY PushStep
  <1>2. PoolType'
    BY <1>1 DEF CoreInv, PoolType
  <1>3. \A w \in Workers : held[w] # None => held[w] \in Ops
    BY DEF CoreInv, PoolType
  <1>4. HeldInv'
    BY <1>1, <1>3 DEF CoreInv, HeldInv
  <1>5. ProcessInv'
    BY DEF ProcessInv
  <1> QED
    BY <1>1, <1>2, <1>4, <1>5 DEF CoreInv

LEMMA EnqueueStep ==
  ASSUME PoolInv, NEW o \in Ops, Enqueue(o)
  PROVE  PoolInv'
  <1>1. /\ o \notin Directly /\ task[o].phase = "new" /\ Push(o)
        /\ \A p \in Ops : Follower[p] # o
        /\ UNCHANGED <<pool, token, worker, held, m_Mutex, _deadlockLock, future, processing>>
    BY DEF Enqueue, IsFollower
  <1>2. /\ task'[o].phase = "queued"
        /\ \A p \in Ops \ {o} : task'[p] = task[p]
    BY <1>1, PushStep DEF PoolInv
  <1>3. FutureInv'
    BY <1>1, <1>2, ConstantsAssumption DEF PoolInv, CoreInv, FutureInv
  <1>4. CoreInv'
    <2>1. future' \in [Ops -> {"none", "ready", "taken", "broken"}]
      BY <1>1 DEF PoolInv, CoreInv, PoolType
    <2>2. processing' => pool = "open"
      BY <1>1 DEF PoolInv, CoreInv, ProcessInv
    <2> QED
      BY <1>1, <1>3, <2>1, <2>2, PushCore DEF PoolInv
  <1>5. CallbackType' /\ ServerType'
    BY DEF PoolInv, CallbackType, ServerType, Enqueue, serverVars, lossVars
  <1> QED
    BY <1>4, <1>5 DEF PoolInv

LEMMA InvokeStep ==
  ASSUME PoolInv, InvokeIfReady
  PROVE  PoolInv'
  <1> PICK q : q = Head(updating)
    OBVIOUS
  <1>1. q \in Ops /\ Tail(updating) \in Seq(Ops)
    BY DEF PoolInv, CallbackType, InvokeIfReady
  <1>2. /\ future[q] = "ready" /\ future' = [future EXCEPT ![q] = "taken"]
        /\ called' = [called EXCEPT ![q] = @ + 1]
        /\ updating' = Tail(updating)
        /\ processing
        /\ UNCHANGED <<pool, token, worker, held, m_Mutex, processing, serverVars,
                       lossVars, _deadlockLock>>
    BY DEF InvokeIfReady
  <1>3. future \in [Ops -> {"none", "ready", "taken", "broken"}] /\ called \in [Ops -> Nat]
    BY DEF PoolInv, CoreInv, PoolType, CallbackType
  <1>4. ServerType'
    BY <1>2 DEF PoolInv, ServerType, serverVars, lossVars
  <1>5. pool = "open"
    BY <1>2 DEF PoolInv, CoreInv, ProcessInv
  <1>6. CASE UNCHANGED <<queue, submitted, task, kept, callbacks>>
    <2>1. CallbackType'
      BY <1>1, <1>2, <1>3, <1>6 DEF PoolInv, CallbackType
    <2>2. PoolType'
      BY <1>1, <1>2, <1>3, <1>6 DEF PoolInv, CoreInv, PoolType
    <2>3. FutureInv'
      BY <1>1, <1>2, <1>3, <1>6 DEF PoolInv, CoreInv, FutureInv
    <2>4. SubmittedInv' /\ QueueInv' /\ HeldInv' /\ ProcessInv'
      BY <1>2, <1>6 DEF PoolInv, CoreInv, SubmittedInv, QueueInv, HeldInv, ProcessInv
    <2>5. SeesEarlierWrites'
      BY <1>6 DEF PoolInv, CoreInv, SeesEarlierWrites
    <2> QED
      BY <1>4, <2>1, <2>2, <2>3, <2>4, <2>5 DEF PoolInv, CoreInv
  <1>7. CASE /\ Follower[q] # None
             /\ Push(Follower[q])
             /\ \/ kept' = Append(kept, Follower[q]) /\ UNCHANGED callbacks
                \/ callbacks' = Append(callbacks, Follower[q]) /\ UNCHANGED kept
    <2> PICK f : f = Follower[q]
      OBVIOUS
    <2>1. f \in Ops /\ f # None /\ Kind[f] = "query" /\ f \notin Directly
      BY <1>1, <1>7, ConstantsAssumption
    <2>2. \A p \in Ops : Follower[p] = f => p = q
      BY <1>1, <1>7, ConstantsAssumption
    <2>3. task[f].phase = "new"
      BY <1>1, <1>2, <2>1 DEF PoolInv, CoreInv, FutureInv
    <2>4. f # q
      BY <1>2, <2>1, <2>3 DEF PoolInv, CoreInv, FutureInv
    <2>5. /\ task'[f].phase = "queued"
          /\ \A p \in Ops \ {f} : task'[p] = task[p]
      BY <1>7, <2>1, <2>3, PushStep DEF PoolInv
    <2>6. FutureInv'
      <3>1. ASSUME NEW p \in Ops, Kind[p] = "query", task'[p].phase \notin Settled
            PROVE  future'[p] = "none"
        <4>1. task[p].phase \notin Settled
          BY <2>3, <2>5, <3>1
        <4>2. future[p] = "none"
          BY <3>1, <4>1 DEF PoolInv, CoreInv, FutureInv
        <4> QED
          BY <1>2, <1>3, <4>2
      <3>2. ASSUME NEW p \in Ops, Follower[p] # None, task'[Follower[p]].phase # "new"
            PROVE  future'[p] = "taken"
        <4>1. CASE p = q
          BY <1>1, <1>2, <1>3, <4>1
        <4>2. CASE p # q
          <5>1. Follower[p] \in Ops /\ Follower[p] # f
            BY <2>2, <3>2, <4>2, ConstantsAssumption
          <5> QED
            BY <1>2, <1>3, <2>5, <3>2, <4>2, <5>1 DEF PoolInv, CoreInv, FutureInv
        <4> QED
          BY <4>1, <4>2
      <3> QED
        BY <3>1, <3>2 DEF FutureInv
    <2>7. CoreInv'
      <3>1. future' \in [Ops -> {"none", "ready", "taken", "broken"}]
        BY <1>1, <1>2, <1>3
      <3> QED
        BY <1>2, <1>5, <1>7, <2>1, <2>3, <2>6, <3>1, PushCore DEF PoolInv
    <2>8. CallbackType'
      <3>1. kept \in Seq(Ops) /\ callbacks \in Seq(Ops) /\ processing \in BOOLEAN
        BY DEF PoolInv, CallbackType
      <3>2. Append(kept, f) \in Seq(Ops) /\ Append(callbacks, f) \in Seq(Ops)
        BY <2>1, <3>1
      <3>3. kept' \in Seq(Ops) /\ callbacks' \in Seq(Ops)
        BY <1>7, <3>1, <3>2
      <3>4. called' \in [Ops -> Nat]
        BY <1>1, <1>2, <1>3
      <3> QED
        BY <1>1, <1>2, <3>1, <3>3, <3>4 DEF CallbackType
    <2> QED
      BY <1>4, <2>7, <2>8 DEF PoolInv
  <1> QED
    BY <1>6, <1>7 DEF InvokeIfReady
\* A caller locks a synchronous connection.
LEMMA DirectStep ==
  ASSUME PoolInv, NEW o \in Ops, NEW c \in Synchronous, Direct(o, c)
  PROVE  PoolInv'
  <1>1. /\ o \in Directly /\ task[o].phase = "new"
        /\ task' = [task EXCEPT ![o] = Started(o, c)]
        /\ UNCHANGED <<queue, pool, token, worker, held, submitted, _deadlockLock,
                       future, processing>>
    BY DEF Direct, callbackVars
  <1>2. /\ Started(o, c) \in Task /\ Started(o, c).phase \in Doing
        /\ Started(o, c).conn = c
    BY ConstantsAssumption DEF Started, Task, Connections
  <1>3. /\ task'[o] = Started(o, c)
        /\ \A p \in Ops \ {o} : task'[p] = task[p]
    BY <1>1 DEF PoolInv, CoreInv, PoolType
  <1>4. PoolType'
    BY <1>1, <1>2 DEF PoolInv, CoreInv, PoolType, Direct
  <1>5. /\ \A i \in 1 .. Len(submitted) : submitted[i] \in Ops /\ submitted[i] # o
        /\ \A w \in Workers : held[w] # None => held[w] \in Ops
        /\ \A p \in Ops : Follower[p] # None => Follower[p] \in Ops /\ Follower[p] # o
        /\ Kind[o] # "query"
    BY <1>1, SubmittedPlace, ConstantsAssumption DEF PoolInv, CoreInv, PoolType, SubmittedInv
  <1>6. SubmittedInv' /\ QueueInv'
    BY <1>1, <1>2, <1>3, <1>5, ConstantsAssumption
       DEF PoolInv, CoreInv, SubmittedInv, QueueInv
  <1>7. HeldInv'
    BY <1>1, <1>2, <1>3, <1>5 DEF PoolInv, CoreInv, HeldInv
  <1>8. FutureInv' /\ ProcessInv'
    BY <1>1, <1>3, <1>5 DEF PoolInv, CoreInv, FutureInv, ProcessInv
  <1>9. SeesEarlierWrites'
    BY <1>1, <1>3, <1>5, SubmittedPlace DEF PoolInv, CoreInv, SeesEarlierWrites
  <1>10. CallbackType' /\ ServerType'
    BY DEF PoolInv, CallbackType, ServerType, Direct, callbackVars, serverVars, lossVars
  <1> QED
    BY <1>4, <1>6, <1>7, <1>8, <1>9, <1>10 DEF PoolInv, CoreInv

\* A worker takes the operation at the front, which is the first of those
\* submitted that is still queued.
LEMMA PopStep ==
  ASSUME PoolInv, NEW w \in Workers, WaitAndPop(w), queue # <<>>, pool = "open"
  PROVE  PoolInv'
  <1> PICK L \in Nat : L = Len(submitted)
    BY DEF PoolInv, CoreInv, PoolType
  <1> PICK k \in Nat : k = Len(queue)
    BY DEF PoolInv, CoreInv, PoolType
  <1> PICK o : o = Head(queue)
    OBVIOUS
  <1>1. /\ worker[w] = "wait" /\ worker' = [worker EXCEPT ![w] = "popped"]
        /\ held' = [held EXCEPT ![w] = o] /\ queue' = Tail(queue)
        /\ task' = [task EXCEPT ![o].phase = "popped"]
        /\ UNCHANGED <<pool, token, m_Mutex, submitted, processing, _deadlockLock, future>>
    BY DEF WaitAndPop, callbackVars
  <1>2. /\ k > 0 /\ o \in Ops /\ o = queue[1]
        /\ queue' \in Seq(Ops) /\ Len(queue') = k - 1
        /\ \A i \in 1 .. (k - 1) : queue'[i] = queue[i + 1]
    BY <1>1 DEF PoolInv, CoreInv, PoolType
  <1>3. /\ k <= L /\ \A i \in 1 .. k : queue[i] = submitted[L - k + i]
        /\ \A i \in 1 .. L : task[submitted[i]].phase = "queued" <=> i > L - k
        /\ L - k + 1 \in 1 .. L
    BY <1>2 DEF PoolInv, CoreInv, QueueInv
  <1>4. o = submitted[L - k + 1] /\ task[o].phase = "queued"
    BY <1>2, <1>3
  <1>5. /\ task' \in [Ops -> Task] /\ task'[o].phase = "popped"
        /\ \A p \in Ops \ {o} : task'[p] = task[p]
    <2>1. task \in [Ops -> Task]
      BY DEF PoolInv, CoreInv, PoolType
    <2>2. task' = WithPhase(task, o, "popped")
      BY <1>1 DEF WithPhase
    <2> QED
      BY <1>2, <2>1, <2>2, PhaseType
  <1>6. PoolType'
    BY <1>1, <1>2, <1>5 DEF PoolInv, CoreInv, PoolType
  <1>7. /\ \A i \in 1 .. L : submitted[i] \in Ops
        /\ \A x \in Workers : held[x] # None => held[x] \in Ops
        /\ \A p \in Ops : Follower[p] # None => Follower[p] \in Ops
        /\ o \notin Directly
    BY <1>3, <1>4, SubmittedPlace, ConstantsAssumption
       DEF PoolInv, CoreInv, PoolType, SubmittedInv
  <1>8. SubmittedInv'
    BY <1>1, <1>5, <1>7, ConstantsAssumption DEF PoolInv, CoreInv, SubmittedInv
  <1>9. QueueInv'
    <2>1. ASSUME NEW i \in 1 .. (k - 1)
          PROVE  queue'[i] = submitted[L - (k - 1) + i]
      <3>1. i + 1 \in 1 .. k /\ L - (k - 1) + i = L - k + (i + 1)
        BY <1>2
      <3> QED
        BY <1>2, <1>3, <3>1
    <2>2. ASSUME NEW i \in 1 .. L
          PROVE  task'[submitted[i]].phase = "queued" <=> i > L - (k - 1)
      <3>1. CASE i = L - k + 1
        BY <1>4, <1>5, <3>1
      <3>2. CASE i # L - k + 1
        <4>1. submitted[i] # o
          BY <1>3, <1>4, <3>2 DEF PoolInv, CoreInv, SubmittedInv
        <4>2. task'[submitted[i]] = task[submitted[i]]
          BY <1>5, <1>7, <4>1
        <4>3. i > L - k <=> i > L - (k - 1)
          BY <3>2
        <4> QED
          BY <1>3, <4>2, <4>3
      <3> QED
        BY <3>1, <3>2
    <2> QED
      BY <1>1, <1>2, <1>3, <2>1, <2>2 DEF QueueInv
  <1>10. HeldInv'
    <2>1. /\ worker'[w] = "popped" /\ held'[w] = o
          /\ \A x \in Workers \ {w} : worker'[x] = worker[x] /\ held'[x] = held[x]
      BY <1>1 DEF PoolInv, CoreInv, PoolType
    <2>2. \A x \in Workers : worker'[x] = "wait" => held'[x] = None
      BY <2>1 DEF PoolInv, CoreInv, HeldInv
    <2>3. \A x \in Workers : worker'[x] = "popped" /\ held'[x] # None
                               => task'[held'[x]].phase = "popped"
      BY <1>5, <1>7, <2>1 DEF PoolInv, CoreInv, HeldInv
    <2>4. ASSUME NEW p \in Ops, task'[p].phase = "popped"
          PROVE  \E x \in Workers : worker'[x] = "popped" /\ held'[x] = p
      <3>1. CASE p = o
        BY <2>1, <3>1
      <3>2. CASE p # o
        <4> PICK x \in Workers : worker[x] = "popped" /\ held[x] = p
          BY <1>5, <2>4, <3>2 DEF PoolInv, CoreInv, HeldInv
        <4> QED
          BY <1>1, <2>1
      <3> QED
        BY <3>1, <3>2
    <2>5. ASSUME NEW p \in Ops, task'[p].phase \in Doing
          PROVE  IF p \in Directly THEN task'[p].conn \in Synchronous
                 ELSE /\ task'[p].conn \in Workers
                      /\ held'[task'[p].conn] = p
                      /\ worker'[task'[p].conn] = "busy"
      <3>1. task'[p] = task[p]
        BY <1>5, <2>5
      <3> QED
        BY <1>1, <2>1, <2>5, <3>1 DEF PoolInv, CoreInv, HeldInv
    <2>6. ASSUME NEW v \in Workers, NEW x \in Workers, worker'[v] = "popped",
                 worker'[x] = "popped", held'[v] = held'[x], held'[x] # None
          PROVE  v = x
      <3>1. \A y \in Workers \ {w} : worker[y] = "popped" => held[y] # o
        BY <1>2, <1>4, ConstantsAssumption DEF PoolInv, CoreInv, HeldInv
      <3>2. CASE v = w \/ x = w
        BY <2>1, <2>6, <3>1, <3>2
      <3>3. CASE v # w /\ x # w
        <4>1. /\ worker[v] = "popped" /\ worker[x] = "popped"
              /\ held[v] = held[x] /\ held[x] # None
          BY <2>1, <2>6, <3>3
        <4> QED
          BY <4>1 DEF PoolInv, CoreInv, HeldInv
      <3> QED
        BY <3>2, <3>3
    <2> QED
      BY <2>2, <2>3, <2>4, <2>5, <2>6 DEF HeldInv
  <1>11. FutureInv' /\ ProcessInv'
    BY <1>1, <1>4, <1>5, <1>7 DEF PoolInv, CoreInv, FutureInv, ProcessInv
  <1>12. SeesEarlierWrites'
    BY <1>1, <1>4, <1>5, OrderFrame DEF PoolInv, CoreInv, Begun
  <1>13. CallbackType' /\ ServerType'
    BY DEF PoolInv, CallbackType, ServerType, WaitAndPop, callbackVars, serverVars, lossVars
  <1> QED
    BY <1>6, <1>8, <1>9, <1>10, <1>11, <1>12, <1>13 DEF PoolInv, CoreInv

\* WaitAndPop returns without an operation.
LEMMA PopNothingStep ==
  ASSUME PoolInv, NEW w \in Workers, WaitAndPop(w), queue = <<>> \/ pool # "open"
  PROVE  PoolInv'
  <1>1. /\ worker[w] = "wait" /\ worker' = [worker EXCEPT ![w] = "popped"]
        /\ UNCHANGED <<queue, held, task, pool, token, m_Mutex, submitted, processing,
                       _deadlockLock, future>>
    BY DEF WaitAndPop, callbackVars
  <1>2. PoolType'
    BY <1>1 DEF PoolInv, CoreInv, PoolType
  <1>3. SubmittedInv' /\ QueueInv' /\ FutureInv' /\ ProcessInv'
    BY <1>1 DEF PoolInv, CoreInv, SubmittedInv, QueueInv, FutureInv, ProcessInv
  <1>4. HeldInv'
    <2>1. /\ worker'[w] = "popped" /\ held[w] = None /\ worker[w] = "wait"
          /\ \A x \in Workers \ {w} : worker'[x] = worker[x]
      BY <1>1 DEF PoolInv, CoreInv, PoolType, HeldInv
    <2>2. None \notin Ops
      BY ConstantsAssumption
    <2> QED
      BY <1>1, <2>1, <2>2 DEF PoolInv, CoreInv, HeldInv
  <1>5. SeesEarlierWrites'
    BY <1>1 DEF PoolInv, CoreInv, SeesEarlierWrites
  <1>6. CallbackType' /\ ServerType'
    BY DEF PoolInv, CallbackType, ServerType, WaitAndPop, callbackVars, serverVars, lossVars
  <1> QED
    BY <1>2, <1>3, <1>4, <1>5, <1>6 DEF PoolInv, CoreInv

\* A worker leaves, perhaps with an operation nobody will execute.
LEMMA LeaveStep ==
  ASSUME PoolInv, NEW w \in Workers, Leave(w)
  PROVE  PoolInv'
  <1> PICK o : o = held[w]
    OBVIOUS
  <1>1. /\ worker[w] = "popped" /\ worker' = [worker EXCEPT ![w] = "exited"]
        /\ task' = IF o = None THEN task ELSE [task EXCEPT ![o].phase = "dropped"]
        /\ UNCHANGED <<queue, held, pool, token, m_Mutex, submitted, processing,
                       _deadlockLock, future>>
    BY DEF Leave, callbackVars
  <1>2. o = None \/ (o \in Ops /\ task[o].phase = "popped")
    BY <1>1 DEF PoolInv, CoreInv, PoolType, HeldInv
  <1>3. /\ task' \in [Ops -> Task]
        /\ \A p \in Ops : \/ p # o /\ task'[p] = task[p]
                          \/ p = o /\ task'[p].phase = "dropped" /\ task[p].phase = "popped"
    <2>1. CASE o = None
      BY <1>1, <2>1, ConstantsAssumption DEF PoolInv, CoreInv, PoolType
    <2>2. CASE o \in Ops /\ task[o].phase = "popped"
      <3>1. o # None
        BY <2>2, ConstantsAssumption
      <3>2. task \in [Ops -> Task]
        BY DEF PoolInv, CoreInv, PoolType
      <3>3. task' = WithPhase(task, o, "dropped")
        BY <1>1, <3>1 DEF WithPhase
      <3>4. /\ task' \in [Ops -> Task] /\ task'[o].phase = "dropped"
            /\ \A p \in Ops \ {o} : task'[p] = task[p]
        BY <2>2, <3>2, <3>3, PhaseType
      <3> QED
        BY <2>2, <3>4
    <2> QED
      BY <1>2, <2>1, <2>2
  <1>4. PoolType'
    BY <1>1, <1>3 DEF PoolInv, CoreInv, PoolType
  <1>5. /\ \A i \in 1 .. Len(submitted) : submitted[i] \in Ops
        /\ \A x \in Workers : held[x] # None => held[x] \in Ops
        /\ \A p \in Ops : Follower[p] # None => Follower[p] \in Ops
    BY SubmittedPlace, ConstantsAssumption DEF PoolInv, CoreInv, PoolType
  <1>6. SubmittedInv' /\ QueueInv'
    BY <1>1, <1>3, <1>5, ConstantsAssumption DEF PoolInv, CoreInv, SubmittedInv, QueueInv
  <1>7. HeldInv'
    <2>1. \A x \in Workers \ {w} : worker'[x] = worker[x]
      BY <1>1 DEF PoolInv, CoreInv, PoolType
    <2>2. worker'[w] = "exited"
      BY <1>1 DEF PoolInv, CoreInv, PoolType
    <2>3. held' = held
      BY <1>1
    <2>4. \A x \in Workers : worker'[x] = "wait" => held[x] = None
      BY <2>1, <2>2 DEF PoolInv, CoreInv, HeldInv
    <2>5. ASSUME NEW x \in Workers, worker'[x] = "popped", held[x] # None
          PROVE  task'[held[x]].phase = "popped"
      <3>1. x # w /\ worker[x] = "popped" /\ held[x] \in Ops
        BY <1>5, <2>1, <2>2, <2>5
      <3>2. held[x] # o
        BY <1>1, <2>5, <3>1 DEF PoolInv, CoreInv, HeldInv
      <3>3. task[held[x]].phase = "popped"
        BY <2>5, <3>1 DEF PoolInv, CoreInv, HeldInv
      <3> QED
        BY <1>3, <3>1, <3>2, <3>3
    <2>6. \A v, x \in Workers :
            worker'[v] = "popped" /\ worker'[x] = "popped" /\ held[v] = held[x]
              => v = x \/ held[x] = None
      BY <2>1, <2>2 DEF PoolInv, CoreInv, HeldInv
    <2>7. ASSUME NEW p \in Ops, task'[p].phase = "popped"
          PROVE  \E x \in Workers : worker'[x] = "popped" /\ held[x] = p
      <3>1. p # o /\ task[p].phase = "popped"
        BY <1>3, <2>7
      <3> PICK x \in Workers : worker[x] = "popped" /\ held[x] = p
        BY <3>1 DEF PoolInv, CoreInv, HeldInv
      <3> QED
        BY <2>1, <3>1
    <2>8. ASSUME NEW p \in Ops, task'[p].phase \in Doing
          PROVE  IF p \in Directly THEN task'[p].conn \in Synchronous
                 ELSE /\ task'[p].conn \in Workers
                      /\ held[task'[p].conn] = p
                      /\ worker'[task'[p].conn] = "busy"
      <3>1. task'[p] = task[p]
        BY <1>3, <2>8
      <3> QED
        BY <1>1, <2>1, <2>8, <3>1 DEF PoolInv, CoreInv, HeldInv
    <2> QED
      BY <2>3, <2>4, <2>5, <2>6, <2>7, <2>8 DEF HeldInv
  <1>8. FutureInv' /\ ProcessInv'
    BY <1>1, <1>3, <1>5 DEF PoolInv, CoreInv, FutureInv, ProcessInv
  <1>9. SeesEarlierWrites'
    BY <1>1, <1>3, OrderFrame DEF PoolInv, CoreInv, Begun
  <1>10. CallbackType' /\ ServerType'
    BY DEF PoolInv, CallbackType, ServerType, Leave, callbackVars, serverVars, lossVars
  <1> QED
    BY <1>4, <1>6, <1>7, <1>8, <1>9, <1>10 DEF PoolInv, CoreInv
\* A worker begins the operation it popped.  With one worker nothing that was
\* submitted before is still queued, popped or under way.
LEMMA CallStep ==
  ASSUME PoolInv, NEW w \in Workers, Call(w)
  PROVE  PoolInv'
  <1> PICK o : o = held[w]
    OBVIOUS
  <1>1. /\ worker[w] = "popped" /\ o # None
        /\ worker' = [worker EXCEPT ![w] = "busy"]
        /\ task' = [task EXCEPT ![o] = Started(o, w)]
        /\ UNCHANGED <<queue, held, pool, token, m_Mutex, submitted, processing,
                       _deadlockLock, future>>
    BY DEF Call, callbackVars
  <1>2. o \in Ops /\ task[o].phase = "popped" /\ o \notin Directly
    BY <1>1 DEF PoolInv, CoreInv, PoolType, HeldInv, SubmittedInv
  <1>3. /\ Started(o, w) \in Task /\ Started(o, w).phase \in Doing
        /\ Started(o, w).conn = w
    BY <1>2, ConstantsAssumption DEF Started, Task, Connections
  <1>4. /\ task' \in [Ops -> Task] /\ task'[o] = Started(o, w)
        /\ \A p \in Ops \ {o} : task'[p] = task[p]
    BY <1>1, <1>2, <1>3 DEF PoolInv, CoreInv, PoolType
  <1>5. /\ worker' \in [Workers -> {"wait", "popped", "busy", "exited"}]
        /\ worker'[w] = "busy"
        /\ \A x \in Workers \ {w} : worker'[x] = worker[x]
    BY <1>1 DEF PoolInv, CoreInv, PoolType
  <1>6. PoolType'
    BY <1>1, <1>4, <1>5 DEF PoolInv, CoreInv, PoolType
  <1>7. /\ \A i \in 1 .. Len(submitted) : submitted[i] \in Ops
        /\ \A x \in Workers : held[x] # None => held[x] \in Ops
        /\ \A p \in Ops : Follower[p] # None => Follower[p] \in Ops
    BY SubmittedPlace, ConstantsAssumption DEF PoolInv, CoreInv, PoolType
  <1>8. SubmittedInv' /\ QueueInv'
    BY <1>1, <1>2, <1>3, <1>4, <1>7, ConstantsAssumption
       DEF PoolInv, CoreInv, SubmittedInv, QueueInv
  <1>9. HeldInv'
    <2>1. held' = held
      BY <1>1
    <2>2. \A x \in Workers : worker'[x] = "wait" => held[x] = None
      BY <1>5 DEF PoolInv, CoreInv, HeldInv
    <2>3. ASSUME NEW x \in Workers, worker'[x] = "popped", held[x] # None
          PROVE  task'[held[x]].phase = "popped"
      <3>1. x # w /\ worker[x] = "popped" /\ held[x] \in Ops
        BY <1>5, <1>7, <2>3
      <3>2. held[x] # o
        BY <1>1, <2>3, <3>1 DEF PoolInv, CoreInv, HeldInv
      <3>3. task[held[x]].phase = "popped"
        BY <2>3, <3>1 DEF PoolInv, CoreInv, HeldInv
      <3> QED
        BY <1>4, <3>1, <3>2, <3>3
    <2>4. \A v, x \in Workers :
            worker'[v] = "popped" /\ worker'[x] = "popped" /\ held[v] = held[x]
              => v = x \/ held[x] = None
      BY <1>5 DEF PoolInv, CoreInv, HeldInv
    <2>5. ASSUME NEW p \in Ops, task'[p].phase = "popped"
          PROVE  \E x \in Workers : worker'[x] = "popped" /\ held[x] = p
      <3>1. p # o /\ task[p].phase = "popped"
        BY <1>3, <1>4, <2>5
      <3> PICK x \in Workers : worker[x] = "popped" /\ held[x] = p
        BY <3>1 DEF PoolInv, CoreInv, HeldInv
      <3> QED
        BY <1>5, <3>1
    <2>6. ASSUME NEW p \in Ops, task'[p].phase \in Doing
          PROVE  IF p \in Directly THEN task'[p].conn \in Synchronous
                 ELSE /\ task'[p].conn \in Workers
                      /\ held[task'[p].conn] = p
                      /\ worker'[task'[p].conn] = "busy"
      <3>1. CASE p = o
        BY <1>2, <1>3, <1>4, <1>5, <3>1
      <3>2. CASE p # o
        <4>1. task'[p] = task[p]
          BY <1>4, <3>2
        <4> QED
          BY <1>1, <1>5, <2>6, <4>1 DEF PoolInv, CoreInv, HeldInv
      <3> QED
        BY <3>1, <3>2
    <2> QED
      BY <2>1, <2>2, <2>3, <2>4, <2>5, <2>6 DEF HeldInv
  <1>10. FutureInv' /\ ProcessInv'
    BY <1>1, <1>2, <1>4, <1>7 DEF PoolInv, CoreInv, FutureInv, ProcessInv
  <1>11. SeesEarlierWrites'
    <2> PICK L \in Nat : L = Len(submitted)
      BY SubmittedPlace DEF PoolInv, CoreInv
    <2>1. DOMAIN submitted = 1 .. L
      BY SubmittedPlace DEF PoolInv, CoreInv
    <2> SUFFICES ASSUME Cardinality(Workers) = 1,
                        NEW i \in 1 .. L, NEW j \in 1 .. L, i < j,
                        task'[submitted[j]].phase \in Begun
                 PROVE  task'[submitted[i]].phase \in Settled
      BY <1>1, <2>1 DEF SeesEarlierWrites, Begun
    <2>2. \A x \in Workers : x = w
      <3> PICK x : Workers = {x}
        BY FS_Singleton, ConstantsAssumption
      <3> QED
        OBVIOUS
    <2>3. submitted[i] \in Ops /\ submitted[j] \in Ops /\ submitted[i] # submitted[j]
      BY <1>7 DEF PoolInv, CoreInv, SubmittedInv
    <2>4. CASE submitted[j] # o
      <3>1. task[submitted[j]].phase \in Begun
        BY <1>4, <2>3, <2>4
      <3>2. task[submitted[i]].phase \in Settled
        BY <2>1, <3>1 DEF PoolInv, CoreInv, SeesEarlierWrites, Begun
      <3> QED
        BY <1>2, <1>4, <2>3, <3>2
    <2>5. CASE submitted[j] = o
      <3>1. task'[submitted[i]] = task[submitted[i]]
        BY <1>4, <2>3, <2>5
      <3>2. task[submitted[i]].phase # "new" /\ submitted[i] \notin Directly
        BY DEF PoolInv, CoreInv, SubmittedInv
      <3>3. task[submitted[i]].phase # "queued"
        <4>1. Len(queue) \in Nat
          BY DEF PoolInv, CoreInv, PoolType
        <4>2. ~(j > L - Len(queue))
          BY <1>2, <2>5 DEF PoolInv, CoreInv, QueueInv
        <4>3. ~(i > L - Len(queue))
          BY <4>1, <4>2
        <4> QED
          BY <4>3 DEF PoolInv, CoreInv, QueueInv
      <3>4. task[submitted[i]].phase # "popped"
        BY <2>2, <2>3, <2>5 DEF PoolInv, CoreInv, HeldInv
      <3>5. task[submitted[i]].phase \notin Doing
        BY <1>1, <2>2, <2>3, <3>2 DEF PoolInv, CoreInv, HeldInv
      <3>6. task[submitted[i]] \in Task
        BY <2>3 DEF PoolInv, CoreInv, PoolType
      <3> QED
        BY <3>1, <3>2, <3>3, <3>4, <3>5, <3>6 DEF Task
    <2> QED
      BY <2>4, <2>5
  <1>12. CallbackType' /\ ServerType'
    BY DEF PoolInv, CallbackType, ServerType, Call, callbackVars, serverVars, lossVars
  <1> QED
    BY <1>6, <1>8, <1>9, <1>10, <1>11, <1>12 DEF PoolInv, CoreInv

\* The next worker is stopped, and what is queued is deleted.
LEMMA CloseStep ==
  ASSUME PoolInv, NEW w \in Workers, Close(w)
  PROVE  PoolInv'
  <1>1. /\ queue' = <<>> /\ ~processing
        /\ token' = [token EXCEPT ![w] = TRUE] /\ pool' = "closing"
        /\ UNCHANGED <<worker, held, m_Mutex, submitted, processing, _deadlockLock>>
    BY DEF Close, callbackVars
  <1>2. task \in [Ops -> Task]
    BY DEF PoolInv, CoreInv, PoolType
  <1>3. task' \in [Ops -> Task]
    <2>1. \A o \in Ops : [task[o] EXCEPT !.phase = "dropped"] \in Task
      BY <1>2 DEF Task
    <2> QED
      BY <1>2, <2>1 DEF Close
  <1>4. \A o \in Ops : \/ task[o].phase # "queued" /\ task'[o] = task[o]
                       \/ task[o].phase = "queued" /\ task'[o].phase = "dropped"
    BY <1>2 DEF Close, Task
  <1>5. future' \in [Ops -> {"none", "ready", "taken", "broken"}]
    BY DEF PoolInv, CoreInv, PoolType, Close
  <1>6. \A o \in Ops : \/ future'[o] = future[o]
                       \/ Kind[o] = "query" /\ task[o].phase = "queued" /\ future'[o] = "broken"
    BY DEF Close
  <1>7. PoolType'
    BY <1>1, <1>3, <1>5 DEF PoolInv, CoreInv, PoolType
  <1>8. /\ \A i \in 1 .. Len(submitted) : submitted[i] \in Ops
        /\ Len(submitted) \in Nat
        /\ \A x \in Workers : held[x] # None => held[x] \in Ops
        /\ \A p \in Ops : Follower[p] # None => Follower[p] \in Ops
    BY SubmittedPlace, ConstantsAssumption DEF PoolInv, CoreInv, PoolType
  <1>9. SubmittedInv'
    BY <1>1, <1>4, <1>8, ConstantsAssumption DEF PoolInv, CoreInv, SubmittedInv
  <1>10. QueueInv'
    <2>1. Len(queue') = 0
      BY <1>1
    <2>2. \A i \in 1 .. Len(submitted) : task'[submitted[i]].phase # "queued"
      BY <1>4, <1>8
    <2> QED
      BY <1>1, <1>8, <2>1, <2>2 DEF QueueInv
  <1>11. HeldInv'
    BY <1>1, <1>4, <1>8 DEF PoolInv, CoreInv, HeldInv
  <1>12. FutureInv'
    <2>1. ASSUME NEW o \in Ops, Kind[o] = "query", task'[o].phase \notin Settled
          PROVE  future'[o] = "none"
      BY <1>4, <1>6, <2>1 DEF PoolInv, CoreInv, FutureInv
    <2>2. ASSUME NEW o \in Ops, Follower[o] # None, task'[Follower[o]].phase # "new"
          PROVE  future'[o] = "taken"
      <3>1. task[Follower[o]].phase # "new"
        BY <1>4, <1>8, <2>2
      <3>2. future[o] = "taken"
        BY <2>2, <3>1 DEF PoolInv, CoreInv, FutureInv
      <3> QED
        BY <1>6, <3>2 DEF PoolInv, CoreInv, FutureInv
    <2> QED
      BY <2>1, <2>2 DEF FutureInv
  <1>13. ProcessInv'
    BY <1>1 DEF ProcessInv
  <1>14. SeesEarlierWrites'
    BY <1>1, <1>4, OrderFrame DEF PoolInv, CoreInv, Begun
  <1>15. CallbackType' /\ ServerType'
    BY DEF PoolInv, CallbackType, ServerType, Close, callbackVars, serverVars, lossVars
  <1> QED
    BY <1>7, <1>9, <1>10, <1>11, <1>12, <1>13, <1>14, <1>15 DEF PoolInv, CoreInv

LEMMA ClosedStep ==
  ASSUME PoolInv, Closed
  PROVE  PoolInv'
  <1>1. /\ pool = "closing" /\ pool' = "closed"
        /\ UNCHANGED <<queue, token, worker, held, m_Mutex, submitted, processing,
                       task, _deadlockLock, future>>
    BY DEF Closed, callbackVars
  <1>2. PoolType' /\ ProcessInv'
    BY <1>1 DEF PoolInv, CoreInv, PoolType, ProcessInv
  <1>3. SubmittedInv' /\ QueueInv' /\ HeldInv' /\ FutureInv' /\ SeesEarlierWrites'
    BY <1>1 DEF PoolInv, CoreInv, SubmittedInv, QueueInv, HeldInv, FutureInv,
                SeesEarlierWrites
  <1>4. CallbackType' /\ ServerType'
    BY DEF PoolInv, CallbackType, ServerType, Closed, callbackVars, serverVars, lossVars
  <1> QED
    BY <1>2, <1>3, <1>4 DEF PoolInv, CoreInv

-----------------------------------------------------------------------------
(* Steps of the callbacks and of the server, which leave the core alone.    *)

LEMMA CallbackSteps ==
  ASSUME PoolInv, BeginProcess \/ NotReady \/ EndProcess
  PROVE  PoolInv'
  <1>1. CoreInv'
    <2>1. UNCHANGED <<poolVars, task, _deadlockLock, future>>
      BY DEF BeginProcess, NotReady, EndProcess
    <2>2. processing' => pool = "open"
      BY DEF PoolInv, CoreInv, ProcessInv, BeginProcess, NotReady, EndProcess
    <2> QED
      BY <2>1, <2>2, CoreFrame DEF PoolInv
  <1>2. CallbackType'
    <2>1. callbacks \in Seq(Ops) /\ updating \in Seq(Ops) /\ kept \in Seq(Ops)
      BY DEF PoolInv, CallbackType
    <2>2. CASE BeginProcess
      BY <2>1, <2>2 DEF PoolInv, CallbackType, BeginProcess
    <2>3. CASE NotReady
      <3>1. Head(updating) \in Ops /\ Tail(updating) \in Seq(Ops)
        BY <2>1, <2>3 DEF NotReady
      <3>2. Append(kept, Head(updating)) \in Seq(Ops)
        BY <2>1, <3>1
      <3> QED
        BY <2>1, <2>3, <3>1, <3>2 DEF PoolInv, CallbackType, NotReady
    <2>4. CASE EndProcess
      <3>1. callbacks \o kept \in Seq(Ops) /\ <<>> \in Seq(Ops)
        BY <2>1
      <3> QED
        BY <2>1, <2>4, <3>1 DEF PoolInv, CallbackType, EndProcess, Remaining
    <2> QED
      BY <2>2, <2>3, <2>4
  <1>3. ServerType'
    BY DEF PoolInv, ServerType, BeginProcess, NotReady, EndProcess, serverVars, lossVars
  <1> QED
    BY <1>1, <1>2, <1>3 DEF PoolInv

\* What each command does to the sessions and to the data.
LEMMA CommandType ==
  ASSUME ServerType, NEW c \in Connections, Start(c) \/ End(c) \/ Undo(c)
  PROVE  /\ session' \in [Connections -> Seq(Ops \X Nat) \cup {None}]
         /\ db' \in Seq(Ops \X Nat)
  <1>1. /\ session \in [Connections -> Seq(Ops \X Nat) \cup {None}]
        /\ db \in Seq(Ops \X Nat)
        /\ <<>> \in Seq(Ops \X Nat)
    BY DEF ServerType
  <1>2. InTransaction(c) => db \o session[c] \in Seq(Ops \X Nat)
    <2>1. InTransaction(c) => session[c] \in Seq(Ops \X Nat)
      BY <1>1 DEF InTransaction
    <2> QED
      BY <1>1, <2>1
  <1>3. db' \in Seq(Ops \X Nat)
    BY <1>1, <1>2 DEF Start, End, Undo
  <1>4. session' \in [Connections -> Seq(Ops \X Nat) \cup {None}]
    BY <1>1 DEF Start, End, Undo
  <1> QED
    BY <1>3, <1>4

LEMMA ApplyType ==
  ASSUME ServerType, PoolType, NEW o \in Ops, NEW c \in Connections, Apply(o, c)
  PROVE  /\ session' \in [Connections -> Seq(Ops \X Nat) \cup {None}]
         /\ db' \in Seq(Ops \X Nat)
  <1>1. /\ session \in [Connections -> Seq(Ops \X Nat) \cup {None}]
        /\ db \in Seq(Ops \X Nat)
    BY DEF ServerType
  <1>2. <<o, task[o].at>> \in Ops \X Nat
    BY DEF PoolType, Task
  <1>3. Append(db, <<o, task[o].at>>) \in Seq(Ops \X Nat)
    BY <1>1, <1>2
  <1>4. InTransaction(c) => Append(session[c], <<o, task[o].at>>) \in Seq(Ops \X Nat)
    <2>1. InTransaction(c) => session[c] \in Seq(Ops \X Nat)
      BY <1>1 DEF InTransaction
    <2> QED
      BY <1>2, <2>1
  <1>5. CASE Kind[o] = "query"
    BY <1>1, <1>5 DEF Apply
  <1>6. CASE Kind[o] # "query" /\ InTransaction(c)
    <2>1. session' = [session EXCEPT ![c] = Append(session[c], <<o, task[o].at>>)] /\ db' = db
      BY <1>6 DEF Apply
    <2> QED
      BY <1>1, <1>4, <1>6, <2>1
  <1>7. CASE Kind[o] # "query" /\ ~InTransaction(c)
    <2>1. db' = Append(db, <<o, task[o].at>>) /\ session' = session
      BY <1>7 DEF Apply
    <2> QED
      BY <1>1, <1>3, <2>1
  <1> QED
    BY <1>5, <1>6, <1>7

\* An operation that is being executed has a connection.
LEMMA ConnType ==
  ASSUME CoreInv, NEW o \in Ops, task[o].phase \in Doing
  PROVE  Conn(o) \in Connections /\ task[o] \in Task
  BY ConstantsAssumption DEF CoreInv, PoolType, HeldInv, Connections, Conn

LEMMA LossSteps ==
  ASSUME PoolInv, \/ \E c \in Connections : Lose(c)
                  \/ \E o \in Ops : LoseAnswer(o) \/ Reconnect(o) \/ GiveUp(o) \/ Abort(o)
  PROVE  PoolInv'
  <1>1. /\ UNCHANGED <<poolVars, task, _deadlockLock, future>>
        /\ UNCHANGED callbackVars
    BY DEF Lose, LoseAnswer, Reconnect, GiveUp, Abort
  <1>2. CoreInv'
    <2>1. processing' => pool = "open"
      BY <1>1 DEF PoolInv, CoreInv, ProcessInv, callbackVars
    <2> QED
      BY <1>1, <2>1, CoreFrame DEF PoolInv
  <1>3. CallbackType'
    BY <1>1 DEF PoolInv, CallbackType, callbackVars
  <1>4. /\ link \in [Connections -> {"up", "lost", "closed"}]
        /\ session \in [Connections -> Seq(Ops \X Nat) \cup {None}]
        /\ db \in Seq(Ops \X Nat)
        /\ lost \subseteq Ops /\ losses \in 0 .. MaxLosses /\ aborted \in BOOLEAN
        /\ MaxLosses \in Nat
    BY ConstantsAssumption DEF PoolInv, ServerType
  <1>5. ASSUME NEW c \in Connections, Lose(c)
        PROVE  ServerType'
    <2>1. /\ session' \in [Connections -> Seq(Ops \X Nat) \cup {None}]
          /\ db' \in Seq(Ops \X Nat)
      BY <1>5, CommandType DEF PoolInv, Lose
    <2>2. /\ link' = [link EXCEPT ![c] = "lost"] /\ losses < MaxLosses
          /\ losses' = losses + 1 /\ aborted' = aborted
          /\ lost' = IF InTransaction(c) THEN lost \cup Users(c) ELSE lost
      BY <1>5 DEF Lose
    <2>3. lost' \subseteq Ops
      BY <1>4, <2>2 DEF Users
    <2>4. losses' \in 0 .. MaxLosses
      BY <1>4, <2>2
    <2> QED
      BY <1>4, <2>1, <2>2, <2>3, <2>4 DEF ServerType
  <1>6. ASSUME NEW o \in Ops, LoseAnswer(o)
        PROVE  ServerType'
    <2> PICK c : c = Conn(o)
      OBVIOUS
    <2>1. c \in Connections
      BY <1>6, ConnType DEF PoolInv, LoseAnswer
    <2>2. /\ session' \in [Connections -> Seq(Ops \X Nat) \cup {None}]
          /\ db' \in Seq(Ops \X Nat)
      <3>1. End(c) \/ Apply(o, c)
        BY <1>6 DEF LoseAnswer
      <3> QED
        BY <2>1, <3>1, CommandType, ApplyType DEF PoolInv, CoreInv
    <2>3. /\ link' = [link EXCEPT ![c] = "lost"] /\ losses < MaxLosses
          /\ losses' = losses + 1 /\ aborted' = aborted
          /\ lost' = lost \/ lost' = lost \cup {o}
      BY <1>6 DEF LoseAnswer
    <2>4. losses' \in 0 .. MaxLosses
      BY <1>4, <2>3
    <2>5. lost' \subseteq Ops
      BY <1>4, <2>3
    <2> QED
      BY <1>4, <2>1, <2>2, <2>3, <2>4, <2>5 DEF ServerType
  <1>7. ASSUME NEW o \in Ops, Reconnect(o) \/ GiveUp(o) \/ Abort(o)
        PROVE  ServerType'
    <2>1. Conn(o) \in Connections
      BY <1>7, ConnType DEF PoolInv, Reconnect, GiveUp, Abort
    <2> QED
      BY <1>4, <1>7, <2>1 DEF ServerType, Reconnect, GiveUp, Abort, lossVars
  <1> QED
    BY <1>2, <1>3, <1>5, <1>6, <1>7 DEF PoolInv

-----------------------------------------------------------------------------
(* Steps of an operation that is being executed.                            *)

LEMMA AdvanceStep ==
  ASSUME CoreInv, NEW o \in Ops, task[o].phase = "execute", Advance(o),
         UNCHANGED processing
  PROVE  CoreInv'
  <1>1. task[o] \in Task
    BY DEF CoreInv, PoolType
  <1>2. CASE task[o].at < Size[o]
    <2> PICK t : t = [task[o] EXCEPT !.at = @ + 1]
      OBVIOUS
    <2>1. t \in Task /\ t.phase \in Doing /\ t.conn = task[o].conn
      BY <1>1 DEF Task
    <2>2. Goto(o, t)
      BY <1>2 DEF Advance
    <2> QED
      BY <2>1, <2>2, GotoStep DEF Goto, CoreInv, PoolType
  <1>3. CASE ~(task[o].at < Size[o]) /\ Kind[o] = "transaction"
    <2> PICK t : t = [task[o] EXCEPT !.phase = "commit"]
      OBVIOUS
    <2>1. t \in Task /\ t.phase \in Doing /\ t.conn = task[o].conn
      BY <1>1 DEF Task
    <2>2. Goto(o, t)
      BY <1>3 DEF Advance
    <2> QED
      BY <2>1, <2>2, GotoStep DEF Goto, CoreInv, PoolType
  <1>4. CASE ~(task[o].at < Size[o]) /\ Kind[o] # "transaction"
    <2>1. Finish(o, "executed")
      BY <1>4 DEF Advance
    <2> QED
      BY <2>1, FinishStep
  <1> QED
    BY <1>2, <1>3, <1>4

LEMMA FailStep ==
  ASSUME CoreInv, NEW o \in Ops, NEW e \in {"deadlock", "other"},
         task[o].phase = "execute", Fail(o, e), UNCHANGED processing
  PROVE  CoreInv'
  <1>1. task[o] \in Task /\ Kind[o] \in {"transaction", "execute", "query"}
    BY ConstantsAssumption DEF CoreInv, PoolType
  <1>2. CASE Kind[o] = "transaction"
    <2> PICK t : t = [task[o] EXCEPT !.phase = "rollback", !.error = e]
      OBVIOUS
    <2>1. t \in Task /\ t.phase \in Doing /\ t.conn = task[o].conn
      BY <1>1 DEF Task
    <2>2. Goto(o, t)
      BY <1>2 DEF Fail
    <2> QED
      BY <2>1, <2>2, GotoStep DEF Goto, CoreInv, PoolType
  <1>3. CASE Kind[o] = "query"
    BY <1>3, AdvanceStep DEF Fail
  <1>4. CASE Kind[o] = "execute"
    <2>1. Finish(o, "failed")
      BY <1>4 DEF Fail
    <2> QED
      BY <2>1, FinishStep
  <1> QED
    BY <1>1, <1>2, <1>3, <1>4

LEMMA AfterRollbackStep ==
  ASSUME CoreInv, NEW o \in Ops, task[o].phase = "rollback", AfterRollback(o),
         UNCHANGED processing
  PROVE  CoreInv'
  <1>1. task[o] \in Task /\ LoopBreaker \in Nat
    BY ConstantsAssumption DEF CoreInv, PoolType
  <1>2. CASE task[o].tries = 0 /\ task[o].error = "deadlock"
    <2> PICK t : t = [task[o] EXCEPT !.phase = "retry"]
      OBVIOUS
    <2>1. t \in Task /\ t.phase \in Doing /\ t.conn = task[o].conn
      BY <1>1 DEF Task
    <2>2. Goto(o, t)
      BY <1>2 DEF AfterRollback
    <2> QED
      BY <2>1, <2>2, GotoStep DEF Goto, CoreInv, PoolType
  <1>3. CASE /\ ~(task[o].tries = 0 /\ task[o].error = "deadlock")
             /\ task[o].tries \in 1 .. LoopBreaker - 1
    <2> PICK t : t = [task[o] EXCEPT !.phase = "begin", !.tries = @ + 1]
      OBVIOUS
    <2>1. t \in Task /\ t.phase \in Doing /\ t.conn = task[o].conn
      <3>1. task[o].tries + 1 \in 0 .. LoopBreaker
        BY <1>1, <1>3
      <3> QED
        BY <1>1, <3>1 DEF Task
    <2>2. Goto(o, t)
      BY <1>3 DEF AfterRollback
    <2> QED
      BY <2>1, <2>2, GotoStep DEF Goto, CoreInv, PoolType
  <1>4. CASE /\ ~(task[o].tries = 0 /\ task[o].error = "deadlock")
             /\ task[o].tries \notin 1 .. LoopBreaker - 1
    <2>1. Finish(o, "failed")
      BY <1>4 DEF AfterRollback
    <2> QED
      BY <2>1, FinishStep
  <1> QED
    BY <1>2, <1>3, <1>4

LEMMA BeginStep ==
  ASSUME CoreInv, NEW o \in Ops, task[o].phase = "begin", UNCHANGED processing,
         Goto(o, [task[o] EXCEPT !.phase = "execute", !.at = 1])
  PROVE  CoreInv'
  <1> PICK t : t = [task[o] EXCEPT !.phase = "execute", !.at = 1]
    OBVIOUS
  <1>1. t \in Task /\ t.phase \in Doing /\ t.conn = task[o].conn
    BY DEF Task, CoreInv, PoolType
  <1> QED
    BY <1>1, GotoStep DEF Goto, CoreInv, PoolType

LEMMA RetryStep ==
  ASSUME PoolInv, NEW o \in Ops, Retry(o)
  PROVE  PoolInv'
  <1> PICK t : t = [task[o] EXCEPT !.phase = "begin", !.tries = 1]
    OBVIOUS
  <1>1. task \in [Ops -> Task] /\ 1 \in 0 .. LoopBreaker
    BY ConstantsAssumption DEF PoolInv, CoreInv, PoolType
  <1>2. t \in Task /\ t.phase \in Doing /\ t.conn = task[o].conn
    BY <1>1 DEF Task
  <1>3. task' = [task EXCEPT ![o] = t]
    BY <1>1 DEF Retry, Task
  <1>4. _deadlockLock' \in Ops \cup {None}
    BY DEF Retry, PoolInv, CoreInv, PoolType
  <1>5. /\ task[o].phase \in Doing
        /\ UNCHANGED <<queue, pool, token, worker, held, m_Mutex, submitted, future,
                       processing>>
    BY DEF Retry, poolVars, callbackVars
  <1>6. CoreInv'
    BY <1>2, <1>3, <1>4, <1>5, GotoStep DEF PoolInv
  <1>7. CallbackType' /\ ServerType'
    BY DEF PoolInv, CallbackType, ServerType, Retry, callbackVars, serverVars, lossVars
  <1> QED
    BY <1>6, <1>7 DEF PoolInv

\* A command that is sent and answered.
LEMMA CommandStep ==
  ASSUME PoolInv, NEW o \in Ops,
         \/ BeginTransaction(o) \/ Execute(o) \/ Deadlock(o)
         \/ RollbackTransaction(o) \/ CommitTransaction(o)
  PROVE  PoolInv'
  <1>1. CoreInv /\ Conn(o) \in Connections
    BY ConnType DEF PoolInv, BeginTransaction, Execute, Deadlock, RollbackTransaction,
                    CommitTransaction
  <1>2. UNCHANGED <<callbackVars, link, lossVars>>
    BY DEF BeginTransaction, Execute, Deadlock, RollbackTransaction, CommitTransaction
  <1>3. processing' = processing
    BY <1>2 DEF callbackVars
  <1>4. CoreInv'
    <2>1. CASE BeginTransaction(o)
      BY <1>1, <1>3, <2>1, BeginStep DEF BeginTransaction
    <2>2. CASE Execute(o)
      BY <1>1, <1>3, <2>2, AdvanceStep DEF Execute
    <2>3. CASE Deadlock(o)
      BY <1>1, <1>3, <2>3, FailStep DEF Deadlock
    <2>4. CASE RollbackTransaction(o)
      BY <1>1, <1>3, <2>4, AfterRollbackStep DEF RollbackTransaction
    <2>5. CASE CommitTransaction(o)
      BY <1>1, <1>3, <2>5, FinishStep DEF CommitTransaction
    <2> QED
      BY <2>1, <2>2, <2>3, <2>4, <2>5
  <1>5. /\ session' \in [Connections -> Seq(Ops \X Nat) \cup {None}]
        /\ db' \in Seq(Ops \X Nat)
    <2>1. Start(Conn(o)) \/ End(Conn(o)) \/ Undo(Conn(o)) \/ Apply(o, Conn(o))
      BY DEF BeginTransaction, Execute, Deadlock, RollbackTransaction, CommitTransaction
    <2> QED
      BY <1>1, <2>1, CommandType, ApplyType DEF PoolInv, CoreInv
  <1>6. CallbackType'
    BY <1>2 DEF PoolInv, CallbackType, callbackVars
  <1>7. ServerType'
    BY <1>2, <1>5 DEF PoolInv, ServerType, lossVars
  <1> QED
    BY <1>4, <1>6, <1>7 DEF PoolInv

\* A command that fails at once, or a statement that is refused.
LEMMA RefusedStep ==
  ASSUME PoolInv, NEW o \in Ops, StatementError(o) \/ Unconnected(o)
  PROVE  PoolInv'
  <1>1. UNCHANGED <<callbackVars, serverVars, lossVars>> /\ CoreInv
    BY DEF StatementError, Unconnected, PoolInv
  <1>2. processing' = processing
    BY <1>1 DEF callbackVars
  <1>3. CoreInv'
    <2>1. CASE task[o].phase = "execute" /\ Fail(o, "other")
      BY <1>1, <1>2, <2>1, FailStep
    <2>2. CASE task[o].phase = "begin"
               /\ Goto(o, [task[o] EXCEPT !.phase = "execute", !.at = 1])
      BY <1>1, <1>2, <2>2, BeginStep
    <2>3. CASE task[o].phase = "rollback" /\ AfterRollback(o)
      BY <1>1, <1>2, <2>3, AfterRollbackStep
    <2>4. CASE task[o].phase = "commit" /\ Finish(o, "executed")
      BY <1>1, <1>2, <2>4, FinishStep
    <2> QED
      BY <2>1, <2>2, <2>3, <2>4 DEF StatementError, Unconnected
  <1>4. CallbackType' /\ ServerType'
    BY <1>1 DEF PoolInv, CallbackType, ServerType, callbackVars, serverVars, lossVars
  <1> QED
    BY <1>3, <1>4 DEF PoolInv

LEMMA PoolInit ==
  ASSUME Init
  PROVE  PoolInv
  <1>1. Idle("new") \in Task /\ Idle("new").phase = "new"
    BY ConstantsAssumption DEF Idle, Task
  <1>2. /\ queue = <<>> /\ submitted = <<>> /\ Len(queue) = 0 /\ Len(submitted) = 0
        /\ <<>> \in Seq(Ops) /\ <<>> \in Seq(Ops \X Nat)
        /\ task = [o \in Ops |-> Idle("new")]
    BY DEF Init
  <1>3. PoolType
    BY <1>1, <1>2 DEF Init, PoolType
  <1>4. SubmittedInv /\ QueueInv
    BY <1>1, <1>2, ConstantsAssumption DEF SubmittedInv, QueueInv
  <1>5. HeldInv
    BY <1>1, <1>2 DEF Init, HeldInv
  <1>6. FutureInv /\ ProcessInv
    BY <1>1, <1>2, ConstantsAssumption DEF Init, FutureInv, ProcessInv
  <1>7. SeesEarlierWrites
    BY <1>2, <1>3, SubmittedPlace DEF SeesEarlierWrites
  <1>8. CallbackType /\ ServerType
    <2>1. callbacks = <<>> /\ updating = <<>> /\ kept = <<>> /\ db = <<>>
      BY DEF Init
    <2>2. processing \in BOOLEAN /\ called \in [Ops -> Nat]
      BY DEF Init
    <2>3. /\ link \in [Connections -> {"up", "lost", "closed"}]
          /\ session \in [Connections -> Seq(Ops \X Nat) \cup {None}]
      BY DEF Init
    <2>4. lost = {} /\ losses = 0 /\ aborted = FALSE
      BY DEF Init
    <2>5. 0 \in 0 .. MaxLosses
      BY ConstantsAssumption
    <2> QED
      BY <1>2, <2>1, <2>2, <2>3, <2>4, <2>5 DEF CallbackType, ServerType
  <1> QED
    BY <1>3, <1>4, <1>5, <1>6, <1>7, <1>8 DEF PoolInv, CoreInv

LEMMA PoolStep ==
  ASSUME PoolInv, [Next]_vars
  PROVE  PoolInv'
  <1>1. ASSUME NEW o \in Ops, \/ Enqueue(o)
                              \/ \E c \in Synchronous : Direct(o, c)
                              \/ Run(o)
                              \/ LoseAnswer(o)
        PROVE  PoolInv'
    <2>1. CASE Run(o)
      <3>1. CASE \/ BeginTransaction(o) \/ Execute(o) \/ Deadlock(o)
                 \/ RollbackTransaction(o) \/ CommitTransaction(o)
        BY <3>1, CommandStep
      <3>2. CASE StatementError(o) \/ Unconnected(o)
        BY <3>2, RefusedStep
      <3>3. CASE Retry(o)
        BY <3>3, RetryStep
      <3>4. CASE Reconnect(o) \/ GiveUp(o) \/ Abort(o)
        BY <3>4, LossSteps
      <3> QED
        BY <2>1, <3>1, <3>2, <3>3, <3>4 DEF Run
    <2> QED
      BY <1>1, <2>1, EnqueueStep, DirectStep, LossSteps
  <1>2. ASSUME NEW w \in Workers, WorkerThread(w) \/ Close(w)
        PROVE  PoolInv'
    BY <1>2, PopStep, PopNothingStep, LeaveStep, CallStep, CloseStep DEF WorkerThread
  <1>3. CASE \E c \in Connections : Lose(c)
    BY <1>3, LossSteps
  <1>4. CASE ProcessReadyQueries
    BY <1>4, CallbackSteps, InvokeStep DEF ProcessReadyQueries
  <1>5. CASE Closed
    BY <1>5, ClosedStep
  <1>6. CASE UNCHANGED vars
    <2>1. CoreInv'
      BY <1>6, CoreFrame DEF PoolInv, CoreInv, ProcessInv, vars, poolVars, callbackVars
    <2>2. CallbackType' /\ ServerType'
      BY <1>6 DEF PoolInv, CallbackType, ServerType, vars, callbackVars, serverVars,
                  lossVars
    <2> QED
      BY <2>1, <2>2 DEF PoolInv
  <1> QED
    BY <1>1, <1>2, <1>3, <1>4, <1>5, <1>6 DEF Next, Step, Stopped

\* The invariant holds in every reachable state: what is queued is the tail of
\* what was submitted, and an operation under way is in one pair of hands.
THEOREM PoolInvariant == Spec => []PoolInv
  <1>1. Init => PoolInv
    BY PoolInit
  <1>2. PoolInv /\ [Next]_vars => PoolInv'
    BY PoolStep
  <1> QED
    BY <1>1, <1>2, PTL DEF Spec

\* The variables of the pool keep their types.
THEOREM TypeCorrect == Spec => []TypeOK
  <1>1. PoolInv => TypeOK
    BY DEF PoolInv, CoreInv, PoolType, CallbackType, ServerType, TypeOK, Task
  <1> QED
    BY <1>1, PoolInvariant, PTL

\* With one worker, nothing the pool executes overtakes what was handed to
\* Enqueue before it, through retries after deadlocks, lost connections and
\* callbacks that chain queries.
THEOREM SeesEarlierWritesHolds == Spec => []SeesEarlierWrites
  <1>1. PoolInv => SeesEarlierWrites
    BY DEF PoolInv, CoreInv
  <1> QED
    BY <1>1, PoolInvariant, PTL
=============================================================================
