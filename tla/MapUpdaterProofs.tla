-------------------------- MODULE MapUpdaterProofs --------------------------
(* Proofs about MapUpdater, for any number of workers, maps and instances. *)
EXTENDS MapUpdater, FiniteSetTheorems, TLAPS

Updating == main \in {"schedule", "wait", "asleep"}
Stopping == main \in {"deactivateWait", "deactivateAsleep", "cancel", "join", "stopped"}

\* What the location of a worker says about its request.
WorkerInv ==
  \A w \in Workers :
    /\ worker[w] \in {"pop", "asleep", "exited"} => request[w] = NoMap
    /\ worker[w] \in {"call", "instances"} => request[w] # NoMap
    /\ worker[w] = "popped" /\ request[w] = NoMap => _shutdown
    /\ kids[w] # {} => worker[w] = "instances"

\* The two flags are set in order, and only while the pool shuts down.
StopInv ==
  /\ _cancelationToken <=> Stopping
  /\ _shutdown => _cancelationToken

Quiet == ~Updating => pending_requests = 0

\* The inductive invariant of the counter and the barrier.
PoolInv == TypeOK /\ PendingExact /\ Quiet /\ WorkerInv /\ StopInv

-----------------------------------------------------------------------------
\* A queue that grows at its end (Push).
LEMMA AppendQueue ==
  ASSUME NEW S, NEW q \in Seq(S), NEW m \in S
  PROVE  /\ Append(q, m) \in Seq(S)
         /\ Len(Append(q, m)) = Len(q) + 1
         /\ DOMAIN Append(q, m) = 1 .. Len(q) + 1
         /\ DOMAIN q = 1 .. Len(q)
         /\ Append(q, m)[Len(q) + 1] = m
         /\ \A n \in DOMAIN q : Append(q, m)[n] = q[n]
  OBVIOUS

\* A queue that loses its front (WaitAndPop).
LEMMA TailQueue ==
  ASSUME NEW S, NEW q \in Seq(S), q # <<>>
  PROVE  /\ Head(q) \in S
         /\ Head(q) = q[1]
         /\ Tail(q) \in Seq(S)
         /\ Len(Tail(q)) = Len(q) - 1
         /\ Len(q) \in Nat /\ Len(q) > 0
         /\ DOMAIN q = 1 .. Len(q)
         /\ DOMAIN Tail(q) = 1 .. Len(q) - 1
         /\ \A n \in 1 .. Len(q) - 1 : Tail(q)[n] = q[n + 1]
  OBVIOUS

\* The number of busy workers is a number, positive if somebody is busy.
LEMMA BusyCount ==
  ASSUME TypeOK
  PROVE  /\ IsFiniteSet(Busy)
         /\ Cardinality(Busy) \in Nat
         /\ (Busy = {}) <=> (Cardinality(Busy) = 0)
  <1>1. IsFiniteSet(Busy)
    BY ConstantsAssumption, FS_Subset DEF Busy
  <1> QED
    BY <1>1, FS_CardinalityType, FS_EmptySet

\* While a worker is busy the world thread is inside the update.
LEMMA BusyUpdating ==
  ASSUME PoolInv, NEW w \in Workers, request[w] # NoMap
  PROVE  Updating /\ pending_requests > 0
  <1>1. w \in Busy
    BY DEF Busy
  <1>2. Cardinality(Busy) > 0
    BY <1>1, BusyCount DEF PoolInv
  <1>3. Len(queue) \in Nat
    BY DEF PoolInv, TypeOK
  <1> QED
    BY <1>2, <1>3, BusyCount DEF PoolInv, PendingExact, Quiet, TypeOK

\* Without pending requests nothing is queued and nobody holds a request.
LEMMA QuietFacts ==
  ASSUME PoolInv, pending_requests = 0
  PROVE  /\ queue = <<>>
         /\ Busy = {}
         /\ \A w \in Workers : request[w] = NoMap /\ kids[w] = {}
  <1>1. Len(queue) \in Nat
    BY DEF PoolInv, TypeOK
  <1>2. Len(queue) = 0 /\ Cardinality(Busy) = 0
    BY <1>1, BusyCount DEF PoolInv, PendingExact
  <1>3. queue = <<>>
    BY <1>2 DEF PoolInv, TypeOK
  <1>4. Busy = {}
    BY <1>2, BusyCount DEF PoolInv
  <1>5. \A w \in Workers : request[w] = NoMap
    BY <1>4 DEF Busy
  <1> QED
    BY <1>3, <1>4, <1>5 DEF PoolInv, WorkerInv

-----------------------------------------------------------------------------
\* schedule_update, whoever calls it, keeps the type and the count; at is the
\* same pool, so nobody but a sleeper changes its location.
LEMMA ScheduleUpdate ==
  ASSUME PoolInv, NEW m \in Maps, schedule_update(m, worker),
         UNCHANGED request
  PROVE  /\ pending_requests' \in Nat
         /\ queue' \in Seq(Maps)
         /\ worker' \in [Workers -> Places]
         /\ UNCHANGED <<_shutdown, _cancelationToken>>
         /\ PendingExact'
         /\ \A w \in Workers : \/ worker'[w] = worker[w]
                               \/ worker[w] = "asleep" /\ worker'[w] = "pop"
  <1>1. /\ pending_requests' = pending_requests + 1
        /\ queue' = Append(queue, m)
        /\ UNCHANGED <<_shutdown, _cancelationToken>>
        /\ NotifyOne(worker)
    BY DEF schedule_update
  <1>2. queue' \in Seq(Maps) /\ Len(queue') = Len(queue) + 1
    BY <1>1, AppendQueue DEF PoolInv, TypeOK
  <1>3. Busy' = Busy
    BY DEF Busy
  <1>4. PendingExact'
    BY <1>1, <1>2, <1>3, BusyCount DEF PoolInv, TypeOK, PendingExact
  <1>5. /\ worker' \in [Workers -> Places]
        /\ \A w \in Workers : \/ worker'[w] = worker[w]
                              \/ worker[w] = "asleep" /\ worker'[w] = "pop"
    <2>1. CASE {w \in Workers : worker[w] = "asleep"} = {}
      BY <1>1, <2>1 DEF NotifyOne, PoolInv, TypeOK
    <2>2. CASE {w \in Workers : worker[w] = "asleep"} # {}
      <3>1. PICK w \in {w \in Workers : worker[w] = "asleep"} :
              worker' = [worker EXCEPT ![w] = "pop"]
        BY <1>1, <2>2 DEF NotifyOne
      <3> QED
        BY <3>1 DEF PoolInv, TypeOK, Places
    <2> QED
      BY <2>1, <2>2
  <1> QED
    BY <1>1, <1>2, <1>4, <1>5 DEF PoolInv, TypeOK

\* Steps that leave the requests, the queue and the count alone.
LEMMA CountUnchanged ==
  ASSUME PoolInv, UNCHANGED <<pending_requests, queue, request>>
  PROVE  PendingExact'
  BY DEF PoolInv, PendingExact, Busy

\* The pool starts with an empty queue and idle workers.
LEMMA PoolInit ==
  Init => PoolInv
  <1> SUFFICES ASSUME Init PROVE PoolInv
    OBVIOUS
  <1>1. TypeOK
    <2>1. queue \in Seq(Maps)
      BY DEF Init
    <2>2. worker \in [Workers -> Places] /\ request \in [Workers -> Maps \cup {NoMap}]
      BY DEF Init, Places
    <2>3. kids \in [Workers -> SUBSET Instances]
      BY DEF Init
    <2> QED
      BY <2>1, <2>2, <2>3 DEF Init, TypeOK
  <1>2. Busy = {}
    BY DEF Init, Busy
  <1>3. PendingExact
    BY <1>2, FS_EmptySet DEF Init, PendingExact
  <1> QED
    BY <1>1, <1>3 DEF Init, PoolInv, Quiet, WorkerInv, StopInv, Stopping

\* The steps of the world thread.
LEMMA PoolMain ==
  ASSUME PoolInv,
         \/ \E m \in BaseMaps : CreateBaseMap(m)
         \/ \E i \in Instances : CreateInstance(i)
         \/ BeginUpdate
         \/ UnloadAll
         \/ MainStep
  PROVE  PoolInv'
  <1>1. ASSUME NEW m \in BaseMaps, CreateBaseMap(m) PROVE PoolInv'
    BY <1>1, CountUnchanged
    DEF CreateBaseMap, poolVars, PoolInv, TypeOK, Quiet, WorkerInv, StopInv, Updating, Stopping
  <1>2. ASSUME NEW i \in Instances, CreateInstance(i) PROVE PoolInv'
    BY <1>2, CountUnchanged
    DEF CreateInstance, poolVars, PoolInv, TypeOK, Quiet, WorkerInv, StopInv, Updating, Stopping
  <1>3. CASE BeginUpdate
    BY <1>3, CountUnchanged
    DEF BeginUpdate, poolVars, PoolInv, TypeOK, Quiet, WorkerInv, StopInv, Updating, Stopping
  <1>4. CASE UnloadAll
    BY <1>4, CountUnchanged
    DEF UnloadAll, poolVars, PoolInv, TypeOK, Quiet, WorkerInv, StopInv, Updating, Stopping
  <1>5. ASSUME NEW m \in BaseMaps, Schedule(m) PROVE PoolInv'
    <2>1. m \in Maps
      BY DEF Maps
    <2>2. schedule_update(m, worker) /\ UNCHANGED <<mapVars, main, request, kids>>
          /\ todo' = todo \ {m} /\ main = "schedule"
      BY <1>5 DEF Schedule
    <2>3. TypeOK'
      BY <2>1, <2>2, ScheduleUpdate DEF PoolInv, TypeOK, mapVars
    <2>4. PendingExact'
      BY <2>1, <2>2, ScheduleUpdate
    <2>5. Quiet'
      BY <2>2 DEF Quiet, Updating
    <2>6. WorkerInv'
      BY <2>1, <2>2, ScheduleUpdate DEF PoolInv, WorkerInv
    <2>7. StopInv'
      BY <2>1, <2>2, ScheduleUpdate DEF PoolInv, StopInv, Stopping
    <2> QED
      BY <2>3, <2>4, <2>5, <2>6, <2>7 DEF PoolInv
  <1>6. CASE CallWait
    BY <1>6, CountUnchanged
    DEF CallWait, poolVars, mapVars, PoolInv, TypeOK, Quiet, WorkerInv, StopInv, Updating, Stopping
  <1>7. CASE Wait
    BY <1>7, CountUnchanged
    DEF Wait, wait, MayReturn, poolVars, mapVars, PoolInv, TypeOK, Quiet, WorkerInv, StopInv,
        Updating, Stopping
  <1>8. CASE DelayedUpdate
    BY <1>8, CountUnchanged
    DEF DelayedUpdate, poolVars, mapVars, PoolInv, TypeOK, Quiet, WorkerInv, StopInv, Updating, Stopping
  <1>9. CASE SetToken
    BY <1>9, CountUnchanged
    DEF SetToken, mapVars, PoolInv, TypeOK, Quiet, WorkerInv, StopInv, Updating, Stopping
  <1>10. CASE DeactivateWait
    BY <1>10, CountUnchanged
    DEF DeactivateWait, wait, MayReturn, poolVars, mapVars, PoolInv, TypeOK, Quiet, WorkerInv,
        StopInv, Updating, Stopping
  <1>11. CASE Cancel
    <2>1. pending_requests = 0
      BY <1>11 DEF Cancel, PoolInv, Quiet, Updating
    <2>2. queue = <<>>
      BY <2>1, QuietFacts
    <2>3. PendingExact'
      BY <1>11, <2>2, CountUnchanged DEF Cancel
    <2>4. _cancelationToken
      BY <1>11 DEF Cancel, PoolInv, StopInv, Stopping
    <2>5. TypeOK'
      BY <1>11 DEF Cancel, CancelWakes, mapVars, PoolInv, TypeOK, Places
    <2>6. WorkerInv'
      BY <1>11 DEF Cancel, CancelWakes, PoolInv, WorkerInv, TypeOK
    <2> QED
      BY <1>11, <2>1, <2>3, <2>4, <2>5, <2>6
      DEF Cancel, PoolInv, Quiet, StopInv, Stopping, Updating
  <1>12. CASE Join
    BY <1>12, CountUnchanged
    DEF Join, poolVars, mapVars, PoolInv, TypeOK, Quiet, WorkerInv, StopInv, Updating, Stopping
  <1> QED
    BY <1>1, <1>2, <1>3, <1>4, <1>5, <1>6, <1>7, <1>8, <1>9, <1>10, <1>11, <1>12 DEF MainStep

\* The steps of a worker.
LEMMA PoolWorker ==
  ASSUME PoolInv, NEW w \in Workers, WorkerStep(w)
  PROVE  PoolInv'
  <1>1. CASE Sleep(w)
    BY <1>1, CountUnchanged
    DEF Sleep, poolVars, mapVars, PoolInv, TypeOK, Places, Quiet, WorkerInv, StopInv, Updating, Stopping
  <1>2. CASE Pop(w)
    <2>1. CASE _shutdown
      BY <1>2, <2>1, CountUnchanged
      DEF Pop, mapVars, PoolInv, TypeOK, Places, Quiet, WorkerInv, StopInv, Updating, Stopping
    <2>2. CASE ~_shutdown
      <3>1. /\ worker[w] = "pop" /\ queue # <<>>
            /\ worker' = [worker EXCEPT ![w] = "popped"]
            /\ queue' = Tail(queue)
            /\ request' = [request EXCEPT ![w] = Head(queue)]
            /\ UNCHANGED <<mapVars, main, todo, pending_requests, _shutdown,
                           _cancelationToken, kids>>
        BY <1>2, <2>2 DEF Pop
      <3>2. /\ Head(queue) \in Maps /\ queue' \in Seq(Maps)
            /\ Len(queue') = Len(queue) - 1 /\ Len(queue) \in Nat
        BY <3>1, TailQueue DEF PoolInv, TypeOK
      <3>3. TypeOK'
        BY <3>1, <3>2 DEF mapVars, PoolInv, TypeOK, Places
      <3>4. w \notin Busy /\ Busy' = Busy \cup {w}
        BY <3>1, <3>2, ConstantsAssumption DEF Busy, PoolInv, WorkerInv, TypeOK
      <3>5. Cardinality(Busy') = Cardinality(Busy) + 1
        BY <3>4, BusyCount, FS_AddElement DEF PoolInv
      <3>6. PendingExact'
        BY <3>1, <3>2, <3>5, BusyCount DEF PoolInv, PendingExact, TypeOK
      <3>7. WorkerInv'
        BY <3>1, <3>2, ConstantsAssumption DEF PoolInv, WorkerInv, TypeOK
      <3> QED
        BY <3>1, <3>3, <3>6, <3>7 DEF PoolInv, Quiet, StopInv, Updating, Stopping
    <2> QED
      BY <2>1, <2>2
  <1>3. CASE CheckToken(w)
    <2>1. ASSUME _cancelationToken PROVE request[w] = NoMap
      BY <2>1, QuietFacts DEF PoolInv, StopInv, Quiet, Stopping, Updating
    <2>2. ASSUME ~_cancelationToken PROVE request[w] # NoMap
      BY <1>3, <2>2 DEF CheckToken, PoolInv, StopInv, WorkerInv
    <2>3. TypeOK'
      BY <1>3 DEF CheckToken, AfterPop, poolVars, mapVars, PoolInv, TypeOK, Places
    <2>4. WorkerInv'
      BY <1>3, <2>1, <2>2 DEF CheckToken, AfterPop, poolVars, PoolInv, TypeOK, WorkerInv
    <2> QED
      BY <1>3, <2>3, <2>4, CountUnchanged
      DEF CheckToken, poolVars, PoolInv, Quiet, StopInv, Updating, Stopping
  <1>4. CASE Update(w)
    <2>1. TypeOK'
      BY <1>4 DEF Update, poolVars, PoolInv, TypeOK, Places
    <2>2. WorkerInv'
      BY <1>4 DEF Update, poolVars, PoolInv, TypeOK, WorkerInv
    <2> QED
      BY <1>4, <2>1, <2>2, CountUnchanged
      DEF Update, poolVars, PoolInv, Quiet, StopInv, Updating, Stopping
  <1>5. ASSUME NEW i \in Instances, DestroyInstance(w, i) PROVE PoolInv'
    BY <1>5, CountUnchanged
    DEF DestroyInstance, poolVars, PoolInv, TypeOK, Quiet, WorkerInv, StopInv, Updating, Stopping
  <1>6. ASSUME NEW i \in Instances, SpareInstance(w, i) PROVE PoolInv'
    <2>1. TypeOK'
      BY <1>6 DEF SpareInstance, poolVars, PoolInv, TypeOK, Maps
    <2> QED
      BY <1>6, <2>1, CountUnchanged
      DEF SpareInstance, poolVars, PoolInv, TypeOK, Quiet, WorkerInv, StopInv, Updating, Stopping
  <1>7. ASSUME NEW i \in Instances, ScheduleInstance(w, i) PROVE PoolInv'
    <2>1. i \in Maps
      BY DEF Maps
    <2>2. /\ worker[w] = "instances"
          /\ kids' = [kids EXCEPT ![w] = @ \ {i}]
          /\ schedule_update(i, worker)
          /\ UNCHANGED <<mapVars, main, todo, request>>
      BY <1>7 DEF ScheduleInstance
    <2>3. Updating
      BY <2>2, BusyUpdating DEF PoolInv, WorkerInv
    <2>4. TypeOK'
      BY <2>1, <2>2, ScheduleUpdate DEF PoolInv, TypeOK, mapVars
    <2>5. PendingExact'
      BY <2>1, <2>2, ScheduleUpdate
    <2>6. WorkerInv'
      BY <2>1, <2>2, ScheduleUpdate DEF PoolInv, WorkerInv, TypeOK
    <2> QED
      BY <2>1, <2>2, <2>3, <2>4, <2>5, <2>6, ScheduleUpdate
      DEF PoolInv, Quiet, StopInv, Stopping, Updating
  <1>8. CASE update_finished(w)
    <2>1. /\ worker[w] = "instances" /\ kids[w] = {}
          /\ pending_requests' = pending_requests - 1
          /\ main' = NotifyAll
          /\ worker' = [worker EXCEPT ![w] = "pop"]
          /\ request' = [request EXCEPT ![w] = NoMap]
          /\ UNCHANGED <<mapVars, todo, queue, _shutdown, _cancelationToken, kids>>
      BY <1>8 DEF update_finished, Done
    <2>2. request[w] # NoMap
      BY <2>1 DEF PoolInv, WorkerInv
    <2>3. Updating /\ pending_requests > 0
      BY <2>2, BusyUpdating
    <2>4. Updating'
      BY <2>1, <2>3 DEF NotifyAll, Updating
    <2>5. TypeOK'
      BY <2>1, <2>3, <2>4 DEF mapVars, PoolInv, TypeOK, Places, Updating
    <2>6. w \in Busy /\ Busy' = Busy \ {w}
      BY <2>1, <2>2 DEF Busy, PoolInv, TypeOK
    <2>7. Cardinality(Busy') = Cardinality(Busy) - 1
      BY <2>6, BusyCount, FS_RemoveElement DEF PoolInv
    <2>8. PendingExact'
      BY <2>1, <2>7, BusyCount DEF PoolInv, PendingExact, TypeOK
    <2>9. WorkerInv'
      BY <2>1 DEF PoolInv, WorkerInv, TypeOK
    <2> QED
      BY <2>1, <2>3, <2>4, <2>5, <2>8, <2>9 DEF PoolInv, Quiet, StopInv, Stopping, Updating
  <1> QED
    BY <1>1, <1>2, <1>3, <1>4, <1>5, <1>6, <1>7, <1>8 DEF WorkerStep

\* Every step of the system keeps the pool's invariant.
LEMMA PoolNext ==
  PoolInv /\ [Next]_vars => PoolInv'
  <1> SUFFICES ASSUME PoolInv, [Next]_vars PROVE PoolInv'
    OBVIOUS
  <1>1. CASE SpuriousWakeup
    <2>1. CASE main' = main
      BY <1>1, <2>1, CountUnchanged
      DEF SpuriousWakeup, poolVars, mapVars, PoolInv, TypeOK, Places, Quiet, WorkerInv, StopInv,
          Updating, Stopping
    <2>2. CASE main' # main
      BY <1>1, <2>2, CountUnchanged
      DEF SpuriousWakeup, poolVars, mapVars, PoolInv, TypeOK, Places, Quiet, WorkerInv, StopInv,
          Updating, Stopping
    <2> QED
      BY <2>1, <2>2
  <1>2. CASE UNCHANGED vars
    BY <1>2, CountUnchanged
    DEF vars, poolVars, mapVars, PoolInv, TypeOK, Quiet, WorkerInv, StopInv, Updating, Stopping
  <1> QED
    BY <1>1, <1>2, PoolMain, PoolWorker DEF Next, Stopped

\* The inductive invariant of MapUpdater holds in every reachable state.
THEOREM PoolInvariant ==
  Spec => []PoolInv
  BY PoolInit, PoolNext, PTL DEF Spec

\* Every variable keeps its type, with any number of workers and maps: in
\* particular pending_requests never drops below zero.
THEOREM TypeCorrect ==
  Spec => []TypeOK
  <1>1. PoolInv => TypeOK
    BY DEF PoolInv
  <1> QED
    BY <1>1, PoolInvariant, PTL

\* pending_requests is the number of requests queued or being served.
THEOREM PendingCorrect ==
  Spec => []PendingExact
  <1>1. PoolInv => PendingExact
    BY DEF PoolInv
  <1> QED
    BY <1>1, PoolInvariant, PTL

\* When MapUpdater::wait has returned nothing is queued and no worker touches
\* a map.
THEOREM BarrierHolds ==
  Spec => []Barrier
  <1>1. PoolInv => Barrier
    BY QuietFacts DEF PoolInv, Quiet, Updating, Barrier
  <1> QED
    BY <1>1, PoolInvariant, PTL

\* No worker calls a null request, whatever the order of SetToken, Cancel and
\* the workers' steps.
THEOREM CallsHaveRequest ==
  Spec => []NoNullCall
  <1>1. PoolInv => NoNullCall
    BY DEF PoolInv, WorkerInv, NoNullCall
  <1> QED
    BY <1>1, PoolInvariant, PTL

-----------------------------------------------------------------------------
(* Where each map is during an update.  A map that was not handled yet is in *)
(* exactly one place: to be scheduled, queued, in the hands of a worker that *)
(* has not called it, among the instances a worker goes through, or behind   *)
(* a parent that was not handled yet.                                        *)

InQueue(m) == \E n \in DOMAIN queue : queue[n] = m
InHand(m) == \E w \in Workers : request[w] = m

TodoInv ==
  /\ main # "schedule" => todo = {}
  /\ todo \subseteq i_maps
  /\ todo \cap visited = {}

QueueInv ==
  /\ \A n \in DOMAIN queue : queue[n] \in Existing /\ queue[n] \notin visited \cup todo
  /\ \A n1, n2 \in DOMAIN queue : queue[n1] = queue[n2] => n1 = n2

HandInv ==
  /\ \A w \in Workers : request[w] # NoMap =>
       /\ request[w] \in Existing
       /\ worker[w] = "instances" => request[w] \in visited
       /\ worker[w] # "instances" => request[w] \notin visited
       /\ request[w] \notin todo
       /\ ~InQueue(request[w])
  /\ \A w1, w2 \in Workers : request[w1] # NoMap /\ request[w1] = request[w2] => w1 = w2

KidsInv ==
  \A w \in Workers : \A i \in kids[w] :
    /\ i \in m_InstancedMaps
    /\ i \notin visited
    /\ Parent[i] = request[w]
    /\ ~InQueue(i)
    /\ ~InHand(i)

ParentInv ==
  \A i \in m_InstancedMaps :
    /\ Parent[i] \in i_maps
    /\ Updating /\ Parent[i] \notin visited => i \notin visited /\ ~InQueue(i) /\ ~InHand(i)

CompleteInv ==
  Updating =>
    /\ visited \subseteq Existing
    /\ \A m \in Existing \ visited :
         \/ m \in todo
         \/ InQueue(m)
         \/ InHand(m)
         \/ \E w \in Workers : m \in kids[w]
         \/ m \in m_InstancedMaps /\ Parent[m] \notin visited

TickInv == TodoInv /\ QueueInv /\ HandInv /\ KidsInv /\ ParentInv /\ CompleteInv

\* Outside an update there is nothing anywhere.
LEMMA QuietTick ==
  ASSUME PoolInv, TickInv, ~Updating
  PROVE  /\ todo = {} /\ queue = <<>> /\ DOMAIN queue = {}
         /\ \A w \in Workers : request[w] = NoMap /\ kids[w] = {}
  BY QuietFacts DEF PoolInv, Quiet, Updating, TickInv, TodoInv

\* No map exists when the server starts.
LEMMA TickInit ==
  Init => TickInv
  <1> SUFFICES ASSUME Init PROVE TickInv
    OBVIOUS
  <1>1. DOMAIN queue = {}
    BY DEF Init
  <1> QED
    BY <1>1 DEF Init, TickInv, TodoInv, QueueInv, HandInv, KidsInv, ParentInv, CompleteInv,
               Updating, Existing

\* Steps that move no map.
LEMMA TickUnmoved ==
  ASSUME PoolInv, TickInv,
         UNCHANGED <<mapVars, todo, queue, request, kids>>,
         main # "schedule" => main' # "schedule",
         main = "schedule" /\ main' # "schedule" => todo = {},
         Updating' => Updating,
         \A w \in Workers : request[w] # NoMap => ((worker'[w] = "instances") <=> (worker[w] = "instances"))
  PROVE  TickInv'
  <1>1. TodoInv' /\ QueueInv'
    BY DEF TickInv, TodoInv, QueueInv, mapVars, Existing
  <1>2. HandInv'
    BY DEF TickInv, HandInv, InQueue, mapVars, Existing
  <1>3. KidsInv' /\ ParentInv'
    BY DEF TickInv, KidsInv, ParentInv, InQueue, InHand, mapVars
  <1>4. CompleteInv'
    BY DEF TickInv, CompleteInv, InQueue, InHand, mapVars, Existing
  <1> QED
    BY <1>1, <1>2, <1>3, <1>4 DEF TickInv

\* CreateBaseMap and CreateInstance run between two updates, when nothing is
\* queued.
LEMMA TickCreate ==
  ASSUME PoolInv, TickInv,
         \/ \E m \in BaseMaps : CreateBaseMap(m)
         \/ \E i \in Instances : CreateInstance(i)
  PROVE  TickInv'
  <1>1. /\ main = "idle" /\ UNCHANGED <<visited, main, todo, queue, request, kids>>
        /\ i_maps \subseteq i_maps' /\ m_InstancedMaps \subseteq m_InstancedMaps'
        /\ \A i \in m_InstancedMaps' : i \in m_InstancedMaps \/ Parent[i] \in i_maps
    BY DEF CreateBaseMap, CreateInstance, poolVars
  <1>2. ~Updating /\ ~Updating'
    BY <1>1 DEF Updating
  <1>3. /\ todo = {} /\ DOMAIN queue = {}
        /\ \A w \in Workers : request[w] = NoMap /\ kids[w] = {}
    BY <1>2, QuietTick
  <1>4. ParentInv'
    BY <1>1, <1>2 DEF TickInv, ParentInv
  <1> QED
    BY <1>1, <1>2, <1>3, <1>4 DEF TickInv, TodoInv, QueueInv, HandInv, KidsInv, CompleteInv

\* The start of MapManager::Update puts every base map on the world thread's list.
LEMMA TickBegin ==
  ASSUME PoolInv, TickInv, BeginUpdate
  PROVE  TickInv'
  <1>1. /\ main = "idle" /\ main' = "schedule" /\ todo' = i_maps /\ visited' = {}
        /\ UNCHANGED <<i_maps, m_InstancedMaps, queue, worker, request, kids>>
    BY DEF BeginUpdate, poolVars
  <1>2. /\ DOMAIN queue = {}
        /\ \A w \in Workers : request[w] = NoMap /\ kids[w] = {}
    BY <1>1, QuietTick DEF Updating
  <1>3. TodoInv' /\ QueueInv' /\ KidsInv' /\ HandInv'
    BY <1>1, <1>2 DEF TodoInv, QueueInv, KidsInv, HandInv
  <1>4. NoMap \notin m_InstancedMaps
    BY ConstantsAssumption DEF PoolInv, TypeOK, Maps
  <1>5. ParentInv'
    BY <1>1, <1>2, <1>4 DEF TickInv, ParentInv, InQueue, InHand
  <1>6. CompleteInv'
    BY <1>1 DEF CompleteInv, Existing
  <1> QED
    BY <1>3, <1>5, <1>6 DEF TickInv

\* UnloadAll deletes the maps while no worker holds one.
LEMMA TickUnload ==
  ASSUME PoolInv, TickInv, UnloadAll
  PROVE  TickInv'
  <1>1. /\ main = "idle" /\ main' = "deactivate" /\ m_InstancedMaps' = {}
        /\ UNCHANGED <<todo, queue, request, kids>>
    BY DEF UnloadAll, poolVars
  <1>2. /\ DOMAIN queue = {} /\ todo = {}
        /\ \A w \in Workers : request[w] = NoMap /\ kids[w] = {}
    BY <1>1, QuietTick DEF Updating
  <1> QED
    BY <1>1, <1>2 DEF TickInv, TodoInv, QueueInv, HandInv, KidsInv, ParentInv, CompleteInv, Updating

\* The world thread schedules a base map that is nowhere else.
LEMMA TickSchedule ==
  ASSUME PoolInv, TickInv, NEW m \in BaseMaps, Schedule(m)
  PROVE  TickInv'
  <1>1. /\ main = "schedule" /\ m \in todo /\ todo' = todo \ {m}
        /\ schedule_update(m, worker)
        /\ UNCHANGED <<i_maps, m_InstancedMaps, visited, main, request, kids>>
    BY DEF Schedule, mapVars
  <1>2. m \in Maps /\ m # NoMap /\ m \notin Instances
    BY ConstantsAssumption DEF Maps
  <1>3. queue' = Append(queue, m)
    BY <1>1 DEF schedule_update
  <1>4. /\ DOMAIN queue' = 1 .. Len(queue) + 1 /\ DOMAIN queue = 1 .. Len(queue)
        /\ Len(queue) \in Nat
        /\ queue'[Len(queue) + 1] = m
        /\ \A n \in DOMAIN queue : queue'[n] = queue[n]
    BY <1>2, <1>3, AppendQueue DEF PoolInv, TypeOK
  <1>5. \A x : InQueue(x)' <=> InQueue(x) \/ x = m
    BY <1>4 DEF InQueue
  <1>6. \A x : InHand(x)' <=> InHand(x)
    BY <1>1 DEF InHand
  <1>7. m \in i_maps /\ m \notin visited /\ ~InQueue(m) /\ m \in Existing
    BY <1>1 DEF TickInv, TodoInv, QueueInv, InQueue, Existing
  <1>8. TodoInv'
    BY <1>1 DEF TickInv, TodoInv
  <1>9. QueueInv'
    BY <1>1, <1>4, <1>7 DEF TickInv, QueueInv, InQueue, Existing
  <1>10. HandInv'
    <2>1. \A w \in Workers : request[w] # NoMap =>
            ((worker'[w] = "instances") <=> (worker[w] = "instances"))
      BY <1>1, <1>2, ScheduleUpdate DEF PoolInv, WorkerInv
    <2> QED
      BY <1>1, <1>5, <2>1 DEF TickInv, HandInv, Existing
  <1>11. KidsInv'
    BY <1>1, <1>2, <1>5, <1>6 DEF TickInv, KidsInv, PoolInv, TypeOK
  <1>12. ParentInv'
    BY <1>1, <1>2, <1>5, <1>6 DEF TickInv, ParentInv, PoolInv, TypeOK, Updating
  <1>13. CompleteInv'
    BY <1>1, <1>5, <1>6 DEF TickInv, CompleteInv, Existing, Updating
  <1> QED
    BY <1>8, <1>9, <1>10, <1>11, <1>12, <1>13 DEF TickInv

\* WaitAndPop moves the front of the queue into the hands of one worker.
LEMMA TickPop ==
  ASSUME PoolInv, TickInv, NEW w \in Workers, Pop(w)
  PROVE  TickInv'
  <1>1. CASE _shutdown
    <2>1. /\ UNCHANGED <<mapVars, todo, queue, request, kids, main>>
          /\ worker' = [worker EXCEPT ![w] = "popped"] /\ worker[w] = "pop"
      BY <1>1 DEF Pop
    <2>2. \A v \in Workers : request[v] # NoMap =>
            ((worker'[v] = "instances") <=> (worker[v] = "instances"))
      BY <2>1 DEF PoolInv, TypeOK
    <2> QED
      BY <2>1, <2>2, TickUnmoved DEF Updating
  <1>2. CASE ~_shutdown
    <2> DEFINE m == Head(queue)
    <2>1. /\ worker[w] = "pop" /\ queue # <<>>
          /\ worker' = [worker EXCEPT ![w] = "popped"]
          /\ queue' = Tail(queue)
          /\ request' = [request EXCEPT ![w] = m]
          /\ UNCHANGED <<i_maps, m_InstancedMaps, visited, main, todo, kids>>
      BY <1>2 DEF Pop, mapVars
    <2>2. /\ m = queue[1] /\ m \in Maps /\ m # NoMap
          /\ DOMAIN queue = 1 .. Len(queue) /\ DOMAIN queue' = 1 .. Len(queue) - 1
          /\ Len(queue) \in Nat /\ Len(queue) > 0
          /\ \A n \in 1 .. Len(queue) - 1 : queue'[n] = queue[n + 1]
      BY <2>1, TailQueue, ConstantsAssumption DEF PoolInv, TypeOK
    <2>3. request[w] = NoMap
      BY <2>1 DEF PoolInv, WorkerInv
    <2>4. /\ worker'[w] = "popped" /\ request'[w] = m
          /\ \A v \in Workers \ {w} : worker'[v] = worker[v] /\ request'[v] = request[v]
      BY <2>1 DEF PoolInv, TypeOK
    <2>5. \A x : InQueue(x)' => InQueue(x) /\ x # m
      BY <2>2 DEF TickInv, QueueInv, InQueue
    <2>6. \A x : InQueue(x) => x = m \/ InQueue(x)'
      <3> SUFFICES ASSUME NEW x, NEW n \in DOMAIN queue, queue[n] = x, x # m
                   PROVE  InQueue(x)'
        BY DEF InQueue
      <3>1. n - 1 \in DOMAIN queue' /\ queue'[n - 1] = x
        BY <2>2
      <3> QED
        BY <3>1 DEF InQueue
    <2>7. \A x : x # NoMap => (InHand(x)' <=> InHand(x) \/ x = m)
      BY <2>3, <2>4 DEF InHand
    <2>8. m \in Existing /\ m \notin visited /\ m \notin todo /\ InQueue(m)
      BY <2>2 DEF TickInv, QueueInv, InQueue
    <2>9. QueueInv'
      BY <2>1, <2>2 DEF TickInv, QueueInv, Existing
    <2>10. HandInv'
      <3>1. ASSUME NEW v \in Workers, request'[v] # NoMap
            PROVE  /\ request'[v] \in Existing'
                   /\ worker'[v] = "instances" => request'[v] \in visited'
                   /\ worker'[v] # "instances" => request'[v] \notin visited'
                   /\ request'[v] \notin todo'
                   /\ ~InQueue(request[v])'
        <4>1. CASE v = w
          BY <2>1, <2>4, <2>5, <2>8, <4>1 DEF Existing
        <4>2. CASE v # w
          <5>1. ~InQueue(request[v]) /\ request'[v] = request[v]
            BY <2>4, <3>1, <4>2 DEF TickInv, HandInv
          <5>2. ~InQueue(request[v])'
            BY <2>5, <5>1
          <5> QED
            BY <2>1, <2>4, <3>1, <4>2, <5>1, <5>2 DEF TickInv, HandInv, Existing
        <4> QED
          BY <4>1, <4>2
      <3>2. ASSUME NEW w1 \in Workers, NEW w2 \in Workers,
                   request'[w1] # NoMap, request'[w1] = request'[w2]
            PROVE  w1 = w2
        BY <2>4, <2>8, <3>2 DEF TickInv, HandInv
      <3> QED
        BY <3>1, <3>2 DEF HandInv
    <2>11. KidsInv'
      <3> SUFFICES ASSUME NEW v \in Workers, NEW i \in kids[v]
                   PROVE  /\ i \in m_InstancedMaps'
                          /\ i \notin visited'
                          /\ Parent[i] = request'[v]
                          /\ ~InQueue(i)'
                          /\ ~InHand(i)'
        BY <2>1 DEF KidsInv
      <3>1. v # w
        BY <2>1 DEF PoolInv, WorkerInv
      <3>2. /\ i \in m_InstancedMaps /\ i \notin visited
            /\ Parent[i] = request[v] /\ ~InQueue(i) /\ ~InHand(i)
        BY DEF TickInv, KidsInv
      <3>3. i # NoMap
        BY <3>2, ConstantsAssumption DEF PoolInv, TypeOK, Maps
      <3> QED
        BY <2>1, <2>4, <2>5, <2>7, <2>8, <3>1, <3>2, <3>3
    <2>12. ParentInv'
      <3>1. NoMap \notin m_InstancedMaps
        BY ConstantsAssumption DEF PoolInv, TypeOK, Maps
      <3> QED
        BY <2>1, <2>5, <2>7, <2>8, <3>1 DEF TickInv, ParentInv, Updating
    <2>13. CompleteInv'
      <3>1. NoMap \notin Existing
        BY ConstantsAssumption DEF PoolInv, TypeOK, Maps, Existing
      <3> QED
        BY <2>1, <2>6, <2>7, <3>1 DEF TickInv, CompleteInv, Updating, Existing
    <2>14. TodoInv'
      BY <2>1 DEF TickInv, TodoInv
    <2> QED
      BY <2>9, <2>10, <2>11, <2>12, <2>13, <2>14 DEF TickInv
  <1> QED
    BY <1>1, <1>2

\* Map::Update of a map, and the start of the loop over its instances.
LEMMA TickUpdate ==
  ASSUME PoolInv, TickInv, NEW w \in Workers, Update(w)
  PROVE  TickInv'
  <1> DEFINE m == request[w]
  <1>1. /\ worker[w] = "call" /\ m # NoMap
        /\ worker' = [worker EXCEPT ![w] = "instances"]
        /\ kids' = [kids EXCEPT ![w] = {i \in m_InstancedMaps : Parent[i] = m}]
        /\ visited' = visited \cup {m}
        /\ UNCHANGED <<i_maps, m_InstancedMaps, main, todo, queue, request>>
    BY DEF Update, poolVars
  <1>2. Updating /\ Updating'
    BY <1>1, BusyUpdating DEF Updating
  <1>3. m \in Existing /\ m \notin visited /\ m \notin todo /\ ~InQueue(m)
    BY <1>1 DEF TickInv, HandInv
  <1>4. /\ worker'[w] = "instances" /\ kids'[w] = {i \in m_InstancedMaps : Parent[i] = m}
        /\ \A v \in Workers \ {w} : worker'[v] = worker[v] /\ kids'[v] = kids[v]
    BY <1>1 DEF PoolInv, TypeOK
  <1>5. \A x : (InQueue(x)' <=> InQueue(x)) /\ (InHand(x)' <=> InHand(x))
    BY <1>1 DEF InQueue, InHand
  <1>6. TodoInv'
    BY <1>1, <1>3 DEF TickInv, TodoInv
  <1>7. QueueInv'
    BY <1>1, <1>3 DEF TickInv, QueueInv, InQueue, Existing
  <1>8. HandInv'
    BY <1>1, <1>4, <1>5 DEF TickInv, HandInv, Existing
  <1>9. InHand(m)
    BY DEF InHand
  <1>10. KidsInv'
    <2> SUFFICES ASSUME NEW v \in Workers, NEW i \in kids'[v]
                 PROVE  /\ i \in m_InstancedMaps
                        /\ i \notin visited'
                        /\ Parent[i] = request[v]
                        /\ ~InQueue(i)
                        /\ ~InHand(i)
      BY <1>1, <1>5 DEF KidsInv
    <2>1. CASE v = w
      BY <1>1, <1>2, <1>3, <1>4, <1>9, <2>1 DEF TickInv, ParentInv
    <2>2. CASE v # w
      BY <1>1, <1>4, <1>9, <2>2 DEF TickInv, KidsInv
    <2> QED
      BY <2>1, <2>2
  <1>11. ParentInv'
    BY <1>1, <1>2, <1>5, <1>9 DEF TickInv, ParentInv
  <1>12. CompleteInv'
    <2>1. visited' \subseteq Existing'
      BY <1>1, <1>2, <1>3 DEF TickInv, CompleteInv, Existing
    <2> SUFFICES ASSUME NEW x \in Existing \ visited'
                 PROVE  \/ x \in todo
                        \/ InQueue(x)
                        \/ InHand(x)
                        \/ \E v \in Workers : x \in kids'[v]
                        \/ x \in m_InstancedMaps /\ Parent[x] \notin visited'
      BY <1>1, <1>5, <2>1 DEF CompleteInv, Existing
    <2>2. x \in Existing \ visited
      BY <1>1
    <2>3. CASE \E v \in Workers : x \in kids[v]
      <3>1. PICK v \in Workers : x \in kids[v]
        BY <2>3
      <3>2. v # w
        BY <1>1, <3>1 DEF PoolInv, WorkerInv
      <3> QED
        BY <1>4, <3>1, <3>2
    <2>4. CASE x \in m_InstancedMaps /\ Parent[x] \notin visited
      BY <1>1, <1>4, <2>4
    <2> QED
      BY <1>2, <2>2, <2>3, <2>4 DEF TickInv, CompleteInv
  <1> QED
    BY <1>6, <1>7, <1>8, <1>10, <1>11, <1>12 DEF TickInv

\* What is known of an instance that a worker is about to deal with.
LEMMA KidFacts ==
  ASSUME PoolInv, TickInv, NEW w \in Workers, NEW i \in kids[w]
  PROVE  /\ worker[w] = "instances" /\ request[w] # NoMap /\ Updating
         /\ i \in m_InstancedMaps /\ i \in Instances /\ i \in Maps /\ i # NoMap
         /\ i \notin visited /\ i \notin i_maps /\ i \notin todo
         /\ Parent[i] = request[w] /\ Parent[i] \in visited /\ Parent[i] \in i_maps
         /\ ~InQueue(i) /\ ~InHand(i)
         /\ \A v \in Workers \ {w} : i \notin kids[v]
         /\ \A j \in m_InstancedMaps : Parent[j] # i
  <1>1. worker[w] = "instances" /\ request[w] # NoMap
    BY DEF PoolInv, WorkerInv
  <1>2. Updating
    BY <1>1, BusyUpdating
  <1>3. /\ i \in m_InstancedMaps /\ i \notin visited /\ Parent[i] = request[w]
        /\ ~InQueue(i) /\ ~InHand(i)
    BY DEF TickInv, KidsInv
  <1>4. i \in Instances /\ i \in Maps /\ i # NoMap /\ i \notin BaseMaps
    BY <1>3, ConstantsAssumption DEF PoolInv, TypeOK, Maps
  <1>5. i \notin i_maps /\ i \notin todo
    BY <1>4 DEF PoolInv, TypeOK
  <1>6. Parent[i] \in visited /\ Parent[i] \in i_maps
    BY <1>1, <1>3 DEF TickInv, HandInv, ParentInv
  <1>7. \A v \in Workers \ {w} : i \notin kids[v]
    BY <1>1, <1>3 DEF TickInv, KidsInv, HandInv
  <1>8. \A j \in m_InstancedMaps : Parent[j] # i
    BY <1>4, ConstantsAssumption DEF PoolInv, TypeOK
  <1> QED
    BY <1>1, <1>2, <1>3, <1>4, <1>5, <1>6, <1>7, <1>8

\* A destroyed instance is in nobody's hands and not queued.
LEMMA TickDestroy ==
  ASSUME PoolInv, TickInv, NEW w \in Workers, NEW i \in Instances, DestroyInstance(w, i)
  PROVE  TickInv'
  <1>1. /\ i \in kids[w]
        /\ kids' = [kids EXCEPT ![w] = @ \ {i}]
        /\ m_InstancedMaps' = m_InstancedMaps \ {i}
        /\ UNCHANGED <<i_maps, visited, main, todo, queue, worker, request>>
    BY DEF DestroyInstance, poolVars
  <1>2. /\ kids'[w] = kids[w] \ {i}
        /\ \A v \in Workers \ {w} : kids'[v] = kids[v] /\ i \notin kids[v]
    BY <1>1, KidFacts DEF PoolInv, TypeOK
  <1>3. \A x : (InQueue(x)' <=> InQueue(x)) /\ (InHand(x)' <=> InHand(x))
    BY <1>1 DEF InQueue, InHand
  <1>4. Existing' = Existing \ {i}
    BY <1>1, KidFacts DEF Existing
  <1>5. TodoInv'
    BY <1>1 DEF TickInv, TodoInv
  <1>6. QueueInv'
    BY <1>1, <1>4, KidFacts DEF TickInv, QueueInv, InQueue
  <1>7. HandInv'
    BY <1>1, <1>3, <1>4, KidFacts DEF TickInv, HandInv, InHand
  <1>8. KidsInv'
    BY <1>1, <1>2, <1>3 DEF TickInv, KidsInv
  <1>9. ParentInv'
    BY <1>1, <1>3 DEF TickInv, ParentInv, Updating
  <1>10. CompleteInv'
    <2>1. visited' \subseteq Existing'
      BY <1>1, <1>4, KidFacts DEF TickInv, CompleteInv
    <2>2. \A x \in Existing' : x \in Existing /\ x # i
      BY <1>4
    <2>3. \A x : x # i => ((\E v \in Workers : x \in kids[v]) => (\E v \in Workers : x \in kids'[v]))
      BY <1>2
    <2> QED
      BY <1>1, <1>3, <2>1, <2>2, <2>3, KidFacts DEF TickInv, CompleteInv
  <1> QED
    BY <1>5, <1>6, <1>7, <1>8, <1>9, <1>10 DEF TickInv

\* An instance that is passed over counts as handled.
LEMMA TickSpare ==
  ASSUME PoolInv, TickInv, NEW w \in Workers, NEW i \in Instances, SpareInstance(w, i)
  PROVE  TickInv'
  <1>1. /\ i \in kids[w]
        /\ kids' = [kids EXCEPT ![w] = @ \ {i}]
        /\ visited' = visited \cup {i}
        /\ UNCHANGED <<i_maps, m_InstancedMaps, main, todo, queue, worker, request>>
    BY DEF SpareInstance, poolVars
  <1>2. /\ kids'[w] = kids[w] \ {i}
        /\ \A v \in Workers \ {w} : kids'[v] = kids[v] /\ i \notin kids[v]
    BY <1>1, KidFacts DEF PoolInv, TypeOK
  <1>3. \A x : (InQueue(x)' <=> InQueue(x)) /\ (InHand(x)' <=> InHand(x))
    BY <1>1 DEF InQueue, InHand
  <1>4. Existing' = Existing /\ i \in Existing
    BY <1>1, KidFacts DEF Existing
  <1>5. TodoInv'
    BY <1>1, KidFacts DEF TickInv, TodoInv
  <1>6. QueueInv'
    BY <1>1, <1>4, KidFacts DEF TickInv, QueueInv, InQueue
  <1>7. HandInv'
    BY <1>1, <1>3, <1>4, KidFacts DEF TickInv, HandInv, InHand
  <1>8. KidsInv'
    BY <1>1, <1>2, <1>3 DEF TickInv, KidsInv
  <1>9. ParentInv'
    BY <1>1, <1>3, KidFacts DEF TickInv, ParentInv, Updating
  <1>10. CompleteInv'
    <2>1. visited' \subseteq Existing'
      BY <1>1, <1>4, KidFacts DEF TickInv, CompleteInv
    <2>2. \A x \in Existing' \ visited' : x \in Existing \ visited /\ x # i
      BY <1>1, <1>4
    <2>3. \A x : x # i => ((\E v \in Workers : x \in kids[v]) => (\E v \in Workers : x \in kids'[v]))
      BY <1>2
    <2> QED
      BY <1>1, <1>3, <2>1, <2>2, <2>3, KidFacts DEF TickInv, CompleteInv
  <1> QED
    BY <1>5, <1>6, <1>7, <1>8, <1>9, <1>10 DEF TickInv

\* A worker schedules an instance that is nowhere else.
LEMMA TickScheduleInstance ==
  ASSUME PoolInv, TickInv, NEW w \in Workers, NEW i \in Instances, ScheduleInstance(w, i)
  PROVE  TickInv'
  <1>1. /\ i \in kids[w]
        /\ kids' = [kids EXCEPT ![w] = @ \ {i}]
        /\ schedule_update(i, worker)
        /\ UNCHANGED <<i_maps, m_InstancedMaps, visited, main, todo, request>>
    BY DEF ScheduleInstance, mapVars
  <1>2. /\ kids'[w] = kids[w] \ {i}
        /\ \A v \in Workers \ {w} : kids'[v] = kids[v] /\ i \notin kids[v]
    BY <1>1, KidFacts DEF PoolInv, TypeOK
  <1>3. queue' = Append(queue, i)
    BY <1>1 DEF schedule_update
  <1>4. /\ DOMAIN queue' = 1 .. Len(queue) + 1 /\ DOMAIN queue = 1 .. Len(queue)
        /\ Len(queue) \in Nat
        /\ queue'[Len(queue) + 1] = i
        /\ \A n \in DOMAIN queue : queue'[n] = queue[n]
    BY <1>1, <1>3, AppendQueue, KidFacts DEF PoolInv, TypeOK
  <1>5. \A x : InQueue(x)' <=> InQueue(x) \/ x = i
    BY <1>4 DEF InQueue
  <1>6. \A x : InHand(x)' <=> InHand(x)
    BY <1>1 DEF InHand
  <1>7. Existing' = Existing /\ i \in Existing
    BY <1>1, KidFacts DEF Existing
  <1>8. TodoInv'
    BY <1>1 DEF TickInv, TodoInv
  <1>9. QueueInv'
    BY <1>1, <1>4, <1>7, KidFacts DEF TickInv, QueueInv, InQueue
  <1>10. HandInv'
    <2>1. \A v \in Workers : request[v] # NoMap =>
            ((worker'[v] = "instances") <=> (worker[v] = "instances"))
      BY <1>1, ScheduleUpdate, KidFacts DEF PoolInv, WorkerInv
    <2>2. \A v \in Workers : request[v] # i
      BY <1>1, KidFacts DEF InHand
    <2> QED
      BY <1>1, <1>5, <1>7, <2>1, <2>2 DEF TickInv, HandInv
  <1>11. KidsInv'
    BY <1>1, <1>2, <1>5, <1>6 DEF TickInv, KidsInv
  <1>12. ParentInv'
    BY <1>1, <1>5, <1>6, KidFacts DEF TickInv, ParentInv, Updating
  <1>13. CompleteInv'
    <2>1. \A x : x # i => ((\E v \in Workers : x \in kids[v]) => (\E v \in Workers : x \in kids'[v]))
      BY <1>2
    <2> QED
      BY <1>1, <1>5, <1>6, <1>7, <2>1, KidFacts DEF TickInv, CompleteInv
  <1> QED
    BY <1>8, <1>9, <1>10, <1>11, <1>12, <1>13 DEF TickInv

\* update_finished: the request that is given up was handled.
LEMMA TickFinished ==
  ASSUME PoolInv, TickInv, NEW w \in Workers, update_finished(w)
  PROVE  TickInv'
  <1>1. /\ worker[w] = "instances" /\ kids[w] = {}
        /\ main' = NotifyAll
        /\ worker' = [worker EXCEPT ![w] = "pop"]
        /\ request' = [request EXCEPT ![w] = NoMap]
        /\ UNCHANGED <<i_maps, m_InstancedMaps, visited, todo, queue, kids>>
    BY DEF update_finished, Done, mapVars
  <1>2. request[w] # NoMap /\ Updating
    BY <1>1, BusyUpdating DEF PoolInv, WorkerInv
  <1>3. Updating' /\ (main # "schedule" => main' # "schedule")
        /\ (main = "schedule" => main' = "schedule")
    BY <1>1, <1>2 DEF NotifyAll, Updating
  <1>4. /\ worker'[w] = "pop" /\ request'[w] = NoMap
        /\ \A v \in Workers \ {w} : worker'[v] = worker[v] /\ request'[v] = request[v]
    BY <1>1 DEF PoolInv, TypeOK
  <1>5. \A x : InQueue(x)' <=> InQueue(x)
    BY <1>1 DEF InQueue
  <1>6. \A x : x # NoMap => (InHand(x)' => InHand(x))
    BY <1>4 DEF InHand
  <1>7. \A x : InHand(x) => InHand(x)' \/ x = request[w]
    BY <1>4 DEF InHand
  <1>8. request[w] \in visited
    BY <1>1, <1>2 DEF TickInv, HandInv
  <1>9. NoMap \notin Instances /\ \A v \in Workers : kids[v] \subseteq Instances
        /\ m_InstancedMaps \subseteq Instances
    BY ConstantsAssumption DEF PoolInv, TypeOK, Maps
  <1>10. TodoInv' /\ QueueInv'
    BY <1>1, <1>3 DEF TickInv, TodoInv, QueueInv, Existing
  <1>11. HandInv'
    BY <1>1, <1>4, <1>5 DEF TickInv, HandInv, Existing
  <1>12. KidsInv'
    BY <1>1, <1>4, <1>5, <1>6, <1>9 DEF TickInv, KidsInv
  <1>13. ParentInv'
    BY <1>1, <1>2, <1>5, <1>6, <1>9 DEF TickInv, ParentInv
  <1>14. CompleteInv'
    BY <1>1, <1>2, <1>5, <1>7, <1>8 DEF TickInv, CompleteInv, Existing
  <1> QED
    BY <1>10, <1>11, <1>12, <1>13, <1>14 DEF TickInv

\* The other steps of the world thread move no map.
LEMMA TickMain ==
  ASSUME PoolInv, TickInv,
         \/ CallWait
         \/ Wait
         \/ DelayedUpdate
         \/ SetToken
         \/ DeactivateWait
         \/ Cancel
         \/ Join
  PROVE  TickInv'
  <1>1. CASE Cancel
    <2>1. queue = <<>> /\ \A w \in Workers : request[w] = NoMap
      BY <1>1, QuietTick DEF Cancel, Updating
    <2>2. UNCHANGED <<mapVars, todo, queue, request, kids>> /\ main = "cancel" /\ main' = "join"
      BY <1>1, <2>1 DEF Cancel
    <2> QED
      BY <2>1, <2>2, TickUnmoved DEF Updating
  <1>2. CASE CallWait
    BY <1>2, TickUnmoved DEF CallWait, poolVars, Updating
  <1>3. CASE Wait
    BY <1>3, TickUnmoved DEF Wait, wait, poolVars, Updating
  <1>4. CASE DelayedUpdate
    BY <1>4, TickUnmoved DEF DelayedUpdate, poolVars, Updating
  <1>5. CASE SetToken
    BY <1>5, TickUnmoved DEF SetToken, Updating
  <1>6. CASE DeactivateWait
    BY <1>6, TickUnmoved DEF DeactivateWait, wait, poolVars, Updating
  <1>7. CASE Join
    BY <1>7, TickUnmoved DEF Join, poolVars, Updating
  <1> QED
    BY <1>1, <1>2, <1>3, <1>4, <1>5, <1>6, <1>7

\* Every step of the system keeps each map in its one place.
LEMMA TickNext ==
  PoolInv /\ TickInv /\ [Next]_vars => TickInv'
  <1> SUFFICES ASSUME PoolInv, TickInv, [Next]_vars PROVE TickInv'
    OBVIOUS
  <1>1. CASE MainStep
    BY <1>1, TickMain, TickSchedule DEF MainStep
  <1>2. ASSUME NEW w \in Workers, Sleep(w) \/ CheckToken(w) PROVE TickInv'
    <2>1. /\ UNCHANGED <<mapVars, main, todo, queue, request, kids>>
          /\ worker[w] # "instances" /\ worker'[w] # "instances"
          /\ \A v \in Workers \ {w} : worker'[v] = worker[v]
      BY <1>2 DEF Sleep, CheckToken, AfterPop, poolVars, PoolInv, TypeOK
    <2>2. \A v \in Workers : (worker'[v] = "instances") <=> (worker[v] = "instances")
      BY <2>1
    <2> QED
      BY <2>1, <2>2, TickUnmoved DEF Updating
  <1>3. ASSUME NEW w \in Workers, WorkerStep(w) PROVE TickInv'
    BY <1>2, <1>3, TickPop, TickUpdate, TickDestroy, TickSpare, TickScheduleInstance, TickFinished
    DEF WorkerStep
  <1>4. CASE SpuriousWakeup
    <2>1. /\ UNCHANGED <<mapVars, todo, queue, request, kids>>
          /\ main' = main \/ (main = "asleep" /\ main' = "wait")
      BY <1>4 DEF SpuriousWakeup, poolVars
    <2>2. \A v \in Workers : (worker'[v] = "instances") <=> (worker[v] = "instances")
      BY <1>4 DEF SpuriousWakeup, PoolInv, TypeOK
    <2> QED
      BY <2>1, <2>2, TickUnmoved DEF Updating
  <1>5. CASE UNCHANGED vars
    BY <1>5, TickUnmoved DEF vars, poolVars, Updating
  <1> QED
    BY <1>1, <1>3, <1>4, <1>5, TickCreate, TickBegin, TickUnload DEF Next, Stopped

\* Both invariants together hold in every reachable state.
THEOREM TickInvariant ==
  Spec => [](PoolInv /\ TickInv)
  <1>1. Init => PoolInv /\ TickInv
    BY PoolInit, TickInit
  <1>2. PoolInv /\ TickInv /\ [Next]_vars => (PoolInv /\ TickInv)'
    BY PoolNext, TickNext
  <1> QED
    BY <1>1, <1>2, PTL DEF Spec

\* No request, queued or being served, refers to a map that DestroyInstance
\* or UnloadAll deleted.
THEOREM NoDeletedMapHolds ==
  Spec => []NoDeletedMap
  <1>1. PoolInv /\ TickInv => NoDeletedMap
    BY DEF TickInv, QueueInv, HandInv, NoDeletedMap, Busy
  <1> QED
    BY <1>1, TickInvariant, PTL

-----------------------------------------------------------------------------
\* When wait returns every map was handled: a base map has nowhere else to be,
\* and an instance could only be behind a base map that was not.
LEMMA WaitComplete ==
  ASSUME PoolInv, TickInv, Updating, main # "schedule", pending_requests = 0
  PROVE  visited = Existing
  <1>1. /\ todo = {} /\ DOMAIN queue = {}
        /\ \A w \in Workers : request[w] = NoMap /\ kids[w] = {}
    BY QuietFacts DEF TickInv, TodoInv
  <1>2. NoMap \notin Existing
    BY ConstantsAssumption DEF PoolInv, TypeOK, Maps, Existing
  <1>3. \A m \in Existing \ visited : m \in m_InstancedMaps /\ Parent[m] \notin visited
    BY <1>1, <1>2 DEF TickInv, CompleteInv, InQueue, InHand
  <1>4. \A m \in m_InstancedMaps : Parent[m] \in i_maps
    BY DEF TickInv, ParentInv
  <1>5. \A m \in i_maps : m \notin m_InstancedMaps
    BY ConstantsAssumption DEF PoolInv, TypeOK
  <1>6. i_maps \subseteq visited
    BY <1>3, <1>5 DEF Existing
  <1>7. Existing \subseteq visited
    BY <1>3, <1>4, <1>6
  <1> QED
    BY <1>7 DEF TickInv, CompleteInv

\* The stages of the abstract specification by the location of the world
\* thread.
LEMMA StageFacts ==
  ASSUME TypeOK
  PROVE  /\ Updating <=> Stage = "updating"
         /\ main = "idle" <=> Stage = "idle"
         /\ main = "delayed" <=> Stage = "delayed"
         /\ Stopping \/ main = "deactivate" <=> Stage = "stopped"
  BY DEF TypeOK, Updating, Stopping, Stage

\* Steps that handle no map and leave the stage alone are stutters.
LEMMA TickStutter ==
  ASSUME UNCHANGED <<mapVars>>, Stage' = Stage
  PROVE  [Tick!Next]_(Tick!tickVars)
  BY DEF Tick!tickVars, mapVars, Existing
\* Every step of the pool is a step of MapTick or leaves it unchanged.
LEMMA TickStep ==
  PoolInv /\ TickInv /\ [Next]_vars => [Tick!Next]_(Tick!tickVars)
  <1> SUFFICES ASSUME PoolInv, TickInv, [Next]_vars PROVE [Tick!Next]_(Tick!tickVars)
    OBVIOUS
  <1> USE DEF Tick!Next, Tick!tickVars
  <1>1. ASSUME NEW m \in BaseMaps, CreateBaseMap(m) PROVE Tick!Next
    <2>1. m \in Maps /\ m \notin Instances
      BY ConstantsAssumption DEF Maps
    <2>2. Tick!Create(m)
      BY <1>1, <2>1 DEF CreateBaseMap, Tick!Create, Stage, Existing, PoolInv, TypeOK
    <2> QED
      BY <2>1, <2>2
  <1>2. ASSUME NEW i \in Instances, CreateInstance(i) PROVE Tick!Next
    <2>1. i \in Maps /\ i \notin BaseMaps
      BY ConstantsAssumption DEF Maps
    <2>2. Tick!Create(i)
      BY <1>2, <2>1 DEF CreateInstance, Tick!Create, Stage, Existing, PoolInv, TypeOK
    <2> QED
      BY <2>1, <2>2
  <1>3. CASE BeginUpdate
    <2>1. Tick!Begin
      BY <1>3 DEF BeginUpdate, Tick!Begin, Stage, Existing
    <2> QED
      BY <2>1
  <1>4. CASE UnloadAll
    <2>1. Tick!Unload
      BY <1>4 DEF UnloadAll, Tick!Unload, Stage, Existing
    <2> QED
      BY <2>1
  <1>5. CASE Wait
    <2>1. CASE pending_requests = 0
      <3>1. visited = Existing
        BY <1>5, <2>1, WaitComplete DEF Wait, wait, Updating
      <3>2. Tick!BeginDelayed
        BY <1>5, <2>1, <3>1
        DEF Wait, wait, MayReturn, mapVars, Tick!BeginDelayed, Stage, Existing
      <3> QED
        BY <3>2
    <2>2. CASE pending_requests # 0
      BY <1>5, <2>2, TickStutter DEF Wait, wait, MayReturn, Stage
    <2> QED
      BY <2>1, <2>2
  <1>6. CASE DelayedUpdate
    <2>1. Tick!EndDelayed
      BY <1>6 DEF DelayedUpdate, mapVars, Tick!EndDelayed, Stage, Existing
    <2> QED
      BY <2>1
  <1>7. CASE \/ \E m \in BaseMaps : Schedule(m)
             \/ CallWait
             \/ SetToken
             \/ DeactivateWait
             \/ Cancel
             \/ Join
             \/ SpuriousWakeup
    <2>1. UNCHANGED <<mapVars>>
      BY <1>7 DEF Schedule, CallWait, SetToken, DeactivateWait, wait, Cancel, Join, SpuriousWakeup
    <2>2. Stage' = Stage
      BY <1>7 DEF Schedule, CallWait, SetToken, DeactivateWait, wait, Cancel, Join,
                  SpuriousWakeup, Stage
    <2> QED
      BY <2>1, <2>2, TickStutter
  <1>8. ASSUME NEW w \in Workers, Sleep(w) \/ Pop(w) \/ CheckToken(w)
        PROVE  UNCHANGED Tick!tickVars
    BY <1>8 DEF Sleep, Pop, CheckToken, mapVars, Stage, Existing
  <1>9. ASSUME NEW w \in Workers, Update(w) PROVE Tick!Next
    <2>1. request[w] # NoMap
      BY <1>9 DEF Update
    <2>2. request[w] \in Existing \ visited /\ request[w] \in Maps
      BY <1>9, <2>1 DEF Update, TickInv, HandInv, PoolInv, TypeOK
    <2>3. Stage = "updating"
      BY <2>1, BusyUpdating, StageFacts DEF PoolInv
    <2>4. Tick!Handle(request[w])
      BY <1>9, <2>2, <2>3 DEF Update, Tick!Handle, Stage, Existing
    <2> QED
      BY <2>2, <2>4
  <1>10. ASSUME NEW w \in Workers, NEW i \in Instances, DestroyInstance(w, i) PROVE Tick!Next
    <2>1. i \in kids[w]
      BY <1>10 DEF DestroyInstance
    <2>2. i \in Existing \ visited /\ i \notin i_maps /\ i \in Maps
      BY <2>1, KidFacts DEF Existing
    <2>3. Stage = "updating"
      BY <2>1, KidFacts, StageFacts DEF PoolInv
    <2>4. Tick!Destroy(i)
      BY <1>10, <2>2, <2>3 DEF DestroyInstance, Tick!Destroy, Stage, Existing
    <2> QED
      BY <2>2, <2>4
  <1>11. ASSUME NEW w \in Workers, NEW i \in Instances, SpareInstance(w, i) PROVE Tick!Next
    <2>1. i \in kids[w]
      BY <1>11 DEF SpareInstance
    <2>2. i \in Existing \ visited /\ i \in Maps
      BY <2>1, KidFacts DEF Existing
    <2>3. Stage = "updating"
      BY <2>1, KidFacts, StageFacts DEF PoolInv
    <2>4. Tick!Handle(i)
      BY <1>11, <2>2, <2>3 DEF SpareInstance, Tick!Handle, Stage, Existing
    <2> QED
      BY <2>2, <2>4
  <1>12. ASSUME NEW w \in Workers, NEW i \in Instances, ScheduleInstance(w, i)
         PROVE  UNCHANGED Tick!tickVars
    BY <1>12 DEF ScheduleInstance, mapVars, Stage, Existing
  <1>13. ASSUME NEW w \in Workers, update_finished(w) PROVE UNCHANGED Tick!tickVars
    <2>1. UNCHANGED mapVars /\ main' = NotifyAll
      BY <1>13 DEF update_finished
    <2> QED
      BY <2>1 DEF mapVars, NotifyAll, Stage, Existing
  <1>14. CASE UNCHANGED vars
    BY <1>14 DEF vars, mapVars, Stage, Existing
  <1>15. ASSUME NEW w \in Workers, WorkerStep(w) PROVE [Tick!Next]_(Tick!tickVars)
    BY <1>8, <1>9, <1>10, <1>11, <1>12, <1>13, <1>15 DEF WorkerStep
  <1> QED
    BY <1>1, <1>2, <1>3, <1>4, <1>5, <1>6, <1>7, <1>14, <1>15 DEF Next, MainStep, Stopped

\* MapUpdater, with any number of threads, implements MapTick: between the
\* start of MapManager::Update and its delayed part every map that exists is
\* handled exactly once, and none is created or handled at any other time.
THEOREM PoolImplementsTick ==
  Spec => ImplementsTick
  <1>1. Init => Tick!Init
    BY DEF Init, Tick!Init, Stage, Existing
  <1> QED
    BY <1>1, TickStep, TickInvariant, PTL DEF Spec, ImplementsTick, Tick!Spec
=============================================================================
