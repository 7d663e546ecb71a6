----------------------------- MODULE MapUpdater -----------------------------
(***************************************************************************)
(* The worker pool that updates maps in parallel: MapUpdater, the          *)
(* ProducerConsumerQueue it draws from, and its users, the world thread in *)
(* MapManager (Update, UnloadAll) and the workers in MapInstanced::Update, *)
(* which put the instances of a map on the very queue they serve.          *)
(*                                                                         *)
(* A critical section is one step.  _lock and _queueLock are only ever     *)
(* nested in that order (schedule_update calls Push), and the two waits    *)
(* release the lock they hold, so a wait is a location of its own: a       *)
(* thread that sleeps in it goes on when it is notified, or spuriously.    *)
(***************************************************************************)
EXTENDS Integers, Sequences, FiniteSets

CONSTANTS
  Workers,     \* the threads of activate(num_threads)
  BaseMaps,    \* the keys of MapManager::i_maps
  Instances,   \* the keys of MapInstanced::m_InstancedMaps
  Parent,      \* the MapInstanced an instance belongs to
  NoMap        \* the null request

Maps == BaseMaps \cup Instances

ASSUME ConstantsAssumption ==
  /\ IsFiniteSet(Workers)
  /\ Workers # {}
  /\ Parent \in [Instances -> BaseMaps]
  /\ BaseMaps \cap Instances = {}
  /\ NoMap \notin Maps

VARIABLES
  i_maps,            \* the base maps that exist
  m_InstancedMaps,   \* the instances that exist
  main,              \* where the world thread is
  todo,              \* base maps Update has still to schedule
  pending_requests,
  queue,             \* _queue._queue, by the map of each request
  _shutdown,         \* _queue._shutdown
  _cancelationToken,
  worker,            \* where each worker thread is
  request,           \* its request
  kids,              \* instances its MapInstanced::Update has still to visit
  visited            \* history: the maps handled in this update

mapVars == <<i_maps, m_InstancedMaps, visited>>
poolVars == <<pending_requests, queue, _shutdown, _cancelationToken>>
vars == <<mapVars, main, todo, poolVars, worker, request, kids>>

Existing == i_maps \cup m_InstancedMaps

\* The workers between WaitAndPop and update_finished, with a request.
Busy == {w \in Workers : request[w] # NoMap}

-----------------------------------------------------------------------------
Init ==
  /\ i_maps = {}
  /\ m_InstancedMaps = {}
  /\ main = "idle"
  /\ todo = {}
  /\ pending_requests = 0
  /\ queue = <<>>
  /\ _shutdown = FALSE
  /\ _cancelationToken = FALSE
  /\ worker = [w \in Workers |-> "pop"]
  /\ request = [w \in Workers |-> NoMap]
  /\ kids = [w \in Workers |-> {}]
  /\ visited = {}

-----------------------------------------------------------------------------
(* MapUpdater and ProducerConsumerQueue, as steps of their callers.         *)

\* notify_one: at is where the threads of the pool are apart from the caller.
NotifyOne(at) ==
  LET asleep == {w \in Workers : at[w] = "asleep"}
  IN IF asleep = {} THEN worker' = at
     ELSE \E w \in asleep : worker' = [at EXCEPT ![w] = "pop"]

schedule_uncounted(m, at) ==
  /\ queue' = Append(queue, m)
  /\ NotifyOne(at)
  /\ UNCHANGED <<pending_requests, _shutdown, _cancelationToken>>

schedule_update(m, at) ==
  /\ pending_requests' = pending_requests + 1
  /\ queue' = Append(queue, m)
  /\ NotifyOne(at)
  /\ UNCHANGED <<_shutdown, _cancelationToken>>

\* One turn of the loop of wait, called at location here.
MayReturnOne == pending_requests <= 1
MayReturn == pending_requests = 0

wait(here, asleep, next) ==
  /\ main = here
  /\ main' = IF MayReturn THEN next ELSE asleep
  /\ UNCHANGED <<mapVars, todo, poolVars, worker, request, kids>>

\* _condition.notify_all() of update_finished.
NotifyNobody == main
NotifyAll == CASE main = "asleep" -> "wait"
               [] main = "deactivateAsleep" -> "deactivateWait"
               [] OTHER -> main

-----------------------------------------------------------------------------
(* The world thread.                                                        *)

\* Between two updates packet handlers and scripts create maps.
CreateBaseMap(m) ==
  /\ main = "idle"
  /\ m \notin i_maps
  /\ i_maps' = i_maps \cup {m}
  /\ UNCHANGED <<m_InstancedMaps, visited, main, todo, poolVars, worker,
                 request, kids>>

CreateInstance(i) ==
  /\ main = "idle"
  /\ Parent[i] \in i_maps
  /\ i \notin m_InstancedMaps
  /\ m_InstancedMaps' = m_InstancedMaps \cup {i}
  /\ UNCHANGED <<i_maps, visited, main, todo, poolVars, worker, request, kids>>

\* MapManager::Update, once its timer has passed.
BeginUpdate ==
  /\ main = "idle"
  /\ main' = "schedule"
  /\ todo' = i_maps
  /\ visited' = {}
  /\ UNCHANGED <<i_maps, m_InstancedMaps, poolVars, worker, request, kids>>

Schedule(m) ==
  /\ main = "schedule"
  /\ m \in todo
  /\ todo' = todo \ {m}
  /\ schedule_update(m, worker)
  /\ UNCHANGED <<mapVars, main, request, kids>>

CallWait ==
  /\ main = "schedule"
  /\ todo = {}
  /\ main' = "wait"
  /\ UNCHANGED <<mapVars, todo, poolVars, worker, request, kids>>

Wait == wait("wait", "asleep", "delayed")

\* The loop over DelayedUpdate, and the end of Update.
DelayedUpdate ==
  /\ main = "delayed"
  /\ main' = "idle"
  /\ UNCHANGED <<mapVars, todo, poolVars, worker, request, kids>>

\* MapManager::UnloadAll deletes the maps and calls deactivate.
UnloadAll ==
  /\ main = "idle"
  /\ i_maps' = {}
  /\ m_InstancedMaps' = {}
  /\ main' = "deactivate"
  /\ UNCHANGED <<visited, todo, poolVars, worker, request, kids>>

SetToken ==
  /\ main = "deactivate"
  /\ _cancelationToken' = TRUE
  /\ main' = "deactivateWait"
  /\ UNCHANGED <<mapVars, todo, pending_requests, queue, _shutdown, worker,
                 request, kids>>

DeactivateWait == wait("deactivateWait", "deactivateAsleep", "cancel")

\* _queue.Cancel(): the queued requests are deleted, everybody is woken.
CancelNobody(w) == worker[w]
CancelWakes(w) == IF worker[w] = "asleep" THEN "pop" ELSE worker[w]

Cancel ==
  /\ main = "cancel"
  /\ queue' = <<>>
  /\ _shutdown' = TRUE
  /\ worker' = [w \in Workers |-> CancelWakes(w)]
  /\ main' = "join"
  /\ UNCHANGED <<mapVars, todo, pending_requests, _cancelationToken, request,
                 kids>>

Join ==
  /\ main = "join"
  /\ \A w \in Workers : worker[w] = "exited"
  /\ main' = "stopped"
  /\ UNCHANGED <<mapVars, todo, poolVars, worker, request, kids>>

-----------------------------------------------------------------------------
(* WorkerThread of worker w.                                                *)

\* The test of WaitAndPop finds nothing and no shutdown.
Sleep(w) ==
  /\ worker[w] = "pop"
  /\ queue = <<>>
  /\ ~_shutdown
  /\ worker' = [worker EXCEPT ![w] = "asleep"]
  /\ UNCHANGED <<mapVars, main, todo, poolVars, request, kids>>

\* WaitAndPop returns with a request, or with none after Cancel.
Pop(w) ==
  /\ worker[w] = "pop"
  /\ queue # <<>> \/ _shutdown
  /\ worker' = [worker EXCEPT ![w] = "popped"]
  /\ IF _shutdown
     THEN UNCHANGED <<queue, request>>
     ELSE /\ queue' = Tail(queue)
          /\ request' = [request EXCEPT ![w] = Head(queue)]
  /\ UNCHANGED <<mapVars, main, todo, pending_requests, _shutdown,
                 _cancelationToken, kids>>

\* The test of the token after WaitAndPop.
AfterPopAlways == "call"
AfterPop == IF _cancelationToken THEN "exited" ELSE "call"

CheckToken(w) ==
  /\ worker[w] = "popped"
  /\ worker' = [worker EXCEPT ![w] = AfterPop]
  /\ UNCHANGED <<mapVars, main, todo, poolVars, request, kids>>

\* call(): Map::Update of the map, which for a MapInstanced goes on with a
\* loop over its instances.
Update(w) ==
  /\ worker[w] = "call"
  /\ request[w] # NoMap
  /\ worker' = [worker EXCEPT ![w] = "instances"]
  /\ kids' = [kids EXCEPT ![w] =
                {i \in m_InstancedMaps : Parent[i] = request[w]}]
  /\ visited' = visited \cup {request[w]}
  /\ UNCHANGED <<i_maps, m_InstancedMaps, main, todo, poolVars, request>>

\* CanUnload, and DestroyInstance removed its players.
DestroyInstance(w, i) ==
  /\ worker[w] = "instances"
  /\ i \in kids[w]
  /\ kids' = [kids EXCEPT ![w] = @ \ {i}]
  /\ m_InstancedMaps' = m_InstancedMaps \ {i}
  /\ UNCHANGED <<i_maps, visited, main, todo, poolVars, worker, request>>

\* CanUnload, but DestroyInstance found players left: it is not updated.
SpareInstance(w, i) ==
  /\ worker[w] = "instances"
  /\ i \in kids[w]
  /\ kids' = [kids EXCEPT ![w] = @ \ {i}]
  /\ visited' = visited \cup {i}
  /\ UNCHANGED <<i_maps, m_InstancedMaps, main, todo, poolVars, worker, request>>

ScheduleInstance(w, i) ==
  /\ worker[w] = "instances"
  /\ i \in kids[w]
  /\ kids' = [kids EXCEPT ![w] = @ \ {i}]
  /\ schedule_update(i, worker)
  /\ UNCHANGED <<mapVars, main, todo, request>>

\* The loop of MapInstanced::Update ends when every instance was visited.
DoneEarly(w) == worker[w] = "instances"
Done(w) == worker[w] = "instances" /\ kids[w] = {}

\* update_finished(), and the request is deleted.
update_finished(w) ==
  /\ Done(w)
  /\ pending_requests' = pending_requests - 1
  /\ main' = NotifyAll
  /\ worker' = [worker EXCEPT ![w] = "pop"]
  /\ request' = [request EXCEPT ![w] = NoMap]
  /\ UNCHANGED <<mapVars, todo, queue, _shutdown, _cancelationToken, kids>>

\* A condition variable may wake a sleeper without a notification.
SpuriousWakeup ==
  \/ /\ \E w \in Workers : /\ worker[w] = "asleep"
                           /\ worker' = [worker EXCEPT ![w] = "pop"]
     /\ UNCHANGED main
     /\ UNCHANGED <<mapVars, todo, poolVars, request, kids>>
  \/ /\ main = "asleep"
     /\ main' = "wait"
     /\ UNCHANGED <<mapVars, todo, poolVars, worker, request, kids>>

-----------------------------------------------------------------------------
\* The steps the world thread takes by itself once Update or UnloadAll began.
MainStep ==
  \/ \E m \in BaseMaps : Schedule(m)
  \/ CallWait
  \/ Wait
  \/ DelayedUpdate
  \/ SetToken
  \/ DeactivateWait
  \/ Cancel
  \/ Join

WorkerStep(w) ==
  \/ Sleep(w)
  \/ Pop(w)
  \/ CheckToken(w)
  \/ Update(w)
  \/ \E i \in Instances : \/ DestroyInstance(w, i)
                          \/ SpareInstance(w, i)
                          \/ ScheduleInstance(w, i)
  \/ update_finished(w)

Stopped == main = "stopped" /\ UNCHANGED vars

Next ==
  \/ \E m \in BaseMaps : CreateBaseMap(m)
  \/ \E i \in Instances : CreateInstance(i)
  \/ BeginUpdate
  \/ UnloadAll
  \/ MainStep
  \/ \E w \in Workers : WorkerStep(w)
  \/ SpuriousWakeup
  \/ Stopped

Spec == Init /\ [][Next]_vars

\* The operating system runs every thread that can run.  A thread asleep in a
\* wait is promised nothing: no fairness for spurious wake-ups.
FairSpec == /\ Spec
            /\ WF_vars(MainStep)
            /\ \A w \in Workers : WF_vars(WorkerStep(w))

-----------------------------------------------------------------------------
(* Properties.                                                              *)

Places == {"pop", "asleep", "popped", "call", "instances", "exited"}

\* Every variable keeps its type; pending_requests, a size_t, never wraps.
TypeOK ==
  /\ i_maps \subseteq BaseMaps
  /\ m_InstancedMaps \subseteq Instances
  /\ main \in {"idle", "schedule", "wait", "asleep", "delayed", "deactivate",
               "deactivateWait", "deactivateAsleep", "cancel", "join", "stopped"}
  /\ todo \subseteq BaseMaps
  /\ pending_requests \in Nat
  /\ queue \in Seq(Maps)
  /\ _shutdown \in BOOLEAN
  /\ _cancelationToken \in BOOLEAN
  /\ worker \in [Workers -> Places]
  /\ request \in [Workers -> Maps \cup {NoMap}]
  /\ kids \in [Workers -> SUBSET Instances]
  /\ visited \subseteq Maps

\* pending_requests counts the requests that are queued or being served: a
\* MapInstanced puts its instances on the queue before it reports itself
\* finished, so the count cannot touch zero while there is work to come.
PendingExact == pending_requests = Len(queue) + Cardinality(Busy)

\* The barrier of MapManager::Update: outside the part between the first
\* schedule_update and the return of wait, no request is queued and no worker
\* touches a map, so DelayedUpdate and the packet handlers run alone.
Barrier ==
  main \notin {"schedule", "wait", "asleep"} =>
    queue = <<>> /\ Busy = {} /\ \A w \in Workers : kids[w] = {}

\* No request refers to a deleted map: an instance is destroyed only by the
\* worker that would otherwise have scheduled it.
NoDeletedMap ==
  /\ \A n \in DOMAIN queue : queue[n] \in Existing
  /\ \A w \in Busy : request[w] \in Existing

\* A worker calls only a request it has: WaitAndPop returns without one after
\* Cancel, and then the token is set.
NoNullCall == \A w \in Workers : worker[w] = "call" => request[w] # NoMap

Stage == CASE main \in {"schedule", "wait", "asleep"} -> "updating"
           [] main = "delayed" -> "delayed"
           [] main = "idle" -> "idle"
           [] OTHER -> "stopped"

\* The pool implements MapTick: with any number of workers and any order of
\* their steps, every map is handled exactly once between the start of Update
\* and its delayed part.
Tick == INSTANCE MapTick WITH stage <- Stage, maps <- Existing, handled <- visited
ImplementsTick == Tick!Spec

\* Every update of the maps comes to an end: no wake-up is lost, neither to
\* the workers nor to the world thread.
UpdateEnds == (main = "schedule") ~> (main = "idle")

\* UnloadAll comes to an end: every worker thread exits and is joined.
DeactivateEnds == (main = "deactivate") ~> (main = "stopped")
=============================================================================
