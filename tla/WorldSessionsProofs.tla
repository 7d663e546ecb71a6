------------------------ MODULE WorldSessionsProofs -------------------------
(* Proofs about WorldSessions, for any number of accounts and sessions, any *)
(* player limits and any disconnect tolerance.                              *)
EXTENDS WorldSessions, FiniteSetTheorems, TLAPS

\* No session stands in a queue twice.
Distinct(q) == \A i, j \in 1 .. Len(q) : q[i] = q[j] => i = j

\* A session object is in the map while it is live, and in addSessQueue, once,
\* before that.
LifeInv ==
  /\ \A s \in Sessions : s \in m_sessions <=> life[s] = "live"
  /\ \A i \in 1 .. Len(addSessQueue) : life[addSessQueue[i]] = "new"
  /\ Distinct(addSessQueue)
  /\ todo \subseteq m_sessions

\* An account has one session.
AccountInv ==
  \A s, x \in m_sessions : AccountOf[s] = AccountOf[x] => s = x

\* Nothing has happened yet to a session that is not in the map, and nothing is
\* left of it.
IdleInv ==
  \A s \in Sessions \ m_sessions :
    ~inQueue[s] /\ ~initPending[s] /\ ~loading[s] /\ ~charLogin[s] /\ ~player[s]

\* The login queue lists sessions of the map, none of them twice.
QueueInv ==
  /\ Distinct(m_QueuedPlayer)
  /\ Elements(m_QueuedPlayer) \subseteq m_sessions

\* Nobody has begun to let in a session that waits.
WaitInv ==
  \A s \in Elements(m_QueuedPlayer) :
    inQueue[s] /\ ~initPending[s] /\ ~loading[s] /\ ~charLogin[s] /\ ~player[s]

\* The clients know their places.
Known(q, t) == t \in [Sessions -> Nat] /\ \A i \in 1 .. Len(q) : t[q[i]] = i
ToldInv == Known(m_QueuedPlayer, told)

\* Outside of the loop of UpdateSessions nothing is left to visit.
LoopInv == phase # "update" => todo = {}

\* The invariant of the session table, inductive together with LoopInv.
TableInv ==
  /\ TypeOK
  /\ LifeInv
  /\ AccountInv
  /\ IdleInv
  /\ QueueInv
  /\ WaitInv
  /\ ToldInv
  /\ NoSecondCharacter
-----------------------------------------------------------------------------
(* Queues without repetition.                                               *)

\* A place of a queue holds one of its elements.
LEMMA PlaceElement ==
  ASSUME NEW q \in Seq(Sessions)
  PROVE  /\ DOMAIN q = 1 .. Len(q)
         /\ \A i \in 1 .. Len(q) : q[i] \in Elements(q) /\ q[i] \in Sessions
         /\ \A s \in Elements(q) : \E i \in 1 .. Len(q) : q[i] = s
         /\ Elements(q) \subseteq Sessions
         /\ Len(q) \in Nat
  <1>1. DOMAIN q = 1 .. Len(q) /\ Len(q) \in Nat
    OBVIOUS
  <1>2. \A i \in 1 .. Len(q) : q[i] \in Sessions
    OBVIOUS
  <1> QED
    BY <1>1, <1>2 DEF Elements

\* GetQueuePos finds the place of an element.
LEMMA PositionFound ==
  ASSUME NEW q \in Seq(Sessions), Distinct(q), NEW i \in 1 .. Len(q)
  PROVE  GetQueuePos(q, q[i]) = i
  <1>1. DOMAIN q = 1 .. Len(q)
    OBVIOUS
  <1>2. \A j \in DOMAIN q : q[j] = q[i] => j = i
    BY <1>1 DEF Distinct
  <1> QED
    BY <1>1, <1>2 DEF GetQueuePos

\* What m_QueuedPlayer.erase leaves.
LEMMA ErasePlaces ==
  ASSUME NEW q \in Seq(Sessions), Distinct(q), NEW k \in 1 .. Len(q)
  PROVE  /\ Erase(q, k) \in Seq(Sessions)
         /\ Len(Erase(q, k)) = Len(q) - 1
         /\ \A i \in 1 .. (Len(q) - 1) : Erase(q, k)[i] = IF i < k THEN q[i] ELSE q[i + 1]
         /\ Distinct(Erase(q, k))
         /\ Elements(Erase(q, k)) = Elements(q) \ {q[k]}
  <1> PICK L \in Nat : L = Len(q)
    OBVIOUS
  <1> PICK e : e = Erase(q, k)
    OBVIOUS
  <1>1. \A i \in 1 .. L : q[i] \in Sessions
    OBVIOUS
  <1>2. e = [i \in 1 .. (L - 1) |-> IF i < k THEN q[i] ELSE q[i + 1]]
    BY DEF Erase
  <1>3. L - 1 \in Nat
    OBVIOUS
  <1>4. e \in [1 .. (L - 1) -> Sessions]
    BY <1>1, <1>2, <1>3
  <1>5. e \in Seq(Sessions) /\ Len(e) = L - 1
    BY <1>3, <1>4
  <1>6. \A i \in 1 .. (L - 1) : e[i] = IF i < k THEN q[i] ELSE q[i + 1]
    BY <1>2
  <1>7. Distinct(e)
    <2> SUFFICES ASSUME NEW i \in 1 .. (L - 1), NEW j \in 1 .. (L - 1), e[i] = e[j]
                 PROVE  i = j
      BY <1>5 DEF Distinct
    <2> PICK u \in 1 .. L : u = IF i < k THEN i ELSE i + 1
      OBVIOUS
    <2> PICK v \in 1 .. L : v = IF j < k THEN j ELSE j + 1
      OBVIOUS
    <2>1. q[u] = q[v]
      BY <1>6
    <2>2. u = v
      BY <2>1 DEF Distinct
    <2> QED
      BY <2>2
  <1>8. Elements(e) \subseteq Elements(q) \ {q[k]}
    <2> SUFFICES ASSUME NEW i \in 1 .. (L - 1)
                 PROVE  e[i] \in Elements(q) \ {q[k]}
      BY <1>4 DEF Elements
    <2> PICK j \in 1 .. L : j = IF i < k THEN i ELSE i + 1
      OBVIOUS
    <2>1. e[i] = q[j] /\ j # k
      BY <1>6
    <2> QED
      BY <2>1, PlaceElement DEF Distinct
  <1>9. Elements(q) \ {q[k]} \subseteq Elements(e)
    <2> SUFFICES ASSUME NEW j \in 1 .. L, j # k
                 PROVE  q[j] \in Elements(e)
      BY PlaceElement
    <2> PICK i \in 1 .. (L - 1) : i = IF j < k THEN j ELSE j - 1
      OBVIOUS
    <2>1. e[i] = q[j]
      BY <1>6
    <2> QED
      BY <2>1, <1>5, PlaceElement
  <1> QED
    BY <1>5, <1>6, <1>7, <1>8, <1>9

\* What m_QueuedPlayer.pop_front leaves.
LEMMA TailPlaces ==
  ASSUME NEW q \in Seq(Sessions), Distinct(q), q # <<>>
  PROVE  /\ Tail(q) \in Seq(Sessions)
         /\ Len(q) > 0
         /\ Len(Tail(q)) = Len(q) - 1
         /\ \A i \in 1 .. (Len(q) - 1) : Tail(q)[i] = q[i + 1]
         /\ Distinct(Tail(q))
         /\ Elements(Tail(q)) = Elements(q) \ {Head(q)}
         /\ Head(q) \in Elements(q)
         /\ Head(q) = q[1]
  <1> PICK L \in Nat : L = Len(q)
    OBVIOUS
  <1>1. L > 0 /\ Head(q) = q[1]
    OBVIOUS
  <1>2. Tail(q) \in Seq(Sessions) /\ Len(Tail(q)) = L - 1
    BY <1>1
  <1>3. \A i \in 1 .. (L - 1) : Tail(q)[i] = q[i + 1]
    BY <1>1
  <1>4. Distinct(Tail(q))
    BY <1>2, <1>3 DEF Distinct
  <1>5. Elements(Tail(q)) \subseteq Elements(q) \ {q[1]}
    <2> SUFFICES ASSUME NEW i \in 1 .. (L - 1)
                 PROVE  Tail(q)[i] \in Elements(q) \ {q[1]}
      <3>1. \A s \in Elements(Tail(q)) : \E i \in 1 .. (L - 1) : Tail(q)[i] = s
        BY <1>2, PlaceElement
      <3> QED
        BY <3>1
    <2> QED
      BY <1>1, <1>3, PlaceElement DEF Distinct
  <1>6. Elements(q) \ {q[1]} \subseteq Elements(Tail(q))
    <2> SUFFICES ASSUME NEW j \in 1 .. L, j # 1
                 PROVE  q[j] \in Elements(Tail(q))
      BY PlaceElement
    <2>1. Tail(q)[j - 1] = q[j] /\ j - 1 \in 1 .. (L - 1)
      BY <1>3
    <2> QED
      BY <2>1, <1>2, PlaceElement
  <1> QED
    BY <1>1, <1>2, <1>3, <1>4, <1>5, <1>6, PlaceElement

\* A session joins the back of the queue.
LEMMA AppendPlaces ==
  ASSUME NEW q \in Seq(Sessions), Distinct(q),
         NEW s \in Sessions, s \notin Elements(q)
  PROVE  /\ Append(q, s) \in Seq(Sessions)
         /\ Len(Append(q, s)) = Len(q) + 1
         /\ \A i \in 1 .. Len(q) : Append(q, s)[i] = q[i]
         /\ Append(q, s)[Len(q) + 1] = s
         /\ Distinct(Append(q, s))
         /\ Elements(Append(q, s)) = Elements(q) \cup {s}
  <1> PICK L \in Nat : L = Len(q)
    OBVIOUS
  <1> PICK e : e = Append(q, s)
    OBVIOUS
  <1>1. e \in Seq(Sessions) /\ Len(e) = L + 1
    OBVIOUS
  <1>2. (\A i \in 1 .. L : e[i] = q[i]) /\ e[L + 1] = s
    OBVIOUS
  <1>3. \A i \in 1 .. L : q[i] # s
    BY PlaceElement
  <1>4. Distinct(e)
    BY <1>1, <1>2, <1>3 DEF Distinct
  <1>5. Elements(e) \subseteq Elements(q) \cup {s}
    <2> SUFFICES ASSUME NEW i \in 1 .. (L + 1)
                 PROVE  e[i] \in Elements(q) \cup {s}
      BY <1>1, PlaceElement
    <2> QED
      BY <1>2, PlaceElement
  <1>6. \A i \in 1 .. L : q[i] \in Elements(e)
    <2> TAKE i \in 1 .. L
    <2>1. i \in 1 .. (L + 1)
      OBVIOUS
    <2> QED
      BY <2>1, <1>1, <1>2, PlaceElement
  <1>7. s \in Elements(e)
    <2>1. L + 1 \in 1 .. (L + 1)
      OBVIOUS
    <2> QED
      BY <2>1, <1>1, <1>2, PlaceElement
  <1> QED
    BY <1>1, <1>2, <1>4, <1>5, <1>6, <1>7, PlaceElement

\* The length of a queue without repetition is the number of its sessions.
LEMMA QueueCount ==
  ASSUME NEW q \in Seq(Sessions), Distinct(q)
  PROVE  IsFiniteSet(Elements(q)) /\ Cardinality(Elements(q)) = Len(q)
  <1> PICK L \in Nat : L = Len(q)
    OBVIOUS
  <1>1. q \in [1 .. L -> Elements(q)]
    <2>1. q = [i \in 1 .. L |-> q[i]]
      OBVIOUS
    <2> QED
      BY <2>1, PlaceElement
  <1>2. q \in Injection(1 .. L, Elements(q))
    BY <1>1 DEF Distinct, Injection, IsInjective
  <1>3. q \in Surjection(1 .. L, Elements(q))
    BY <1>1, PlaceElement DEF Surjection
  <1>4. ExistsBijection(1 .. L, Elements(q))
    BY <1>2, <1>3 DEF Bijection, ExistsBijection
  <1>5. IsFiniteSet(1 .. L) /\ Cardinality(1 .. L) = IF 1 > L THEN 0 ELSE L - 1 + 1
    <2>1. 1 \in Int /\ L \in Int
      OBVIOUS
    <2> QED
      BY <2>1, FS_Interval, Zenon
  <1>6. Cardinality(1 .. L) = L
    BY <1>5
  <1> QED
    BY <1>4, <1>5, <1>6, FS_Bijection

-----------------------------------------------------------------------------
(* RemoveQueuedPlayer.                                                      *)

\* The active sessions without sess.
Others(q, n, sess) == IF sess \in Elements(q) THEN n - Len(q) ELSE n - Len(q) - 1

\* The queue without sess.
Erased(q, sess) == IF sess \in Elements(q) THEN Erase(q, GetQueuePos(q, sess)) ELSE q

\* The front of that queue is let in.
Accepts(q, n, sess) ==
  HasRoom(Remaining(n - Len(q), sess \in Elements(q))) /\ Erased(q, sess) # <<>>

\* What a call leaves of the queue, whom it lets in and why, and that every
\* client knows its new place.
Removed(q, n, sess, r) ==
  /\ r.found <=> sess \in Elements(q)
  /\ r.queue \in Seq(Sessions)
  /\ Distinct(r.queue)
  /\ Elements(r.queue) = Elements(q) \ ({sess} \cup r.popped)
  /\ r.popped \subseteq Elements(q) \ {sess}
  /\ Known(r.queue, r.told)
  /\ \/ /\ r.popped = {}
        /\ n - Len(r.queue) - 1 = Others(q, n, sess)
        /\ r.queue = <<>> \/ ~HasRoom(Others(q, n, sess))
     \/ /\ r.popped # {}
        /\ n - Len(r.queue) - 1 = Others(q, n, sess) + 1
        /\ HasRoom(Others(q, n, sess))

\* Erasing sess from the queue, before anybody is let in.
LEMMA ErasedPlaces ==
  ASSUME NEW q \in Seq(Sessions), Distinct(q), NEW sess \in Sessions
  PROVE  /\ Erased(q, sess) \in Seq(Sessions)
         /\ Distinct(Erased(q, sess))
         /\ Elements(Erased(q, sess)) = Elements(q) \ {sess}
         /\ Len(Erased(q, sess)) = IF sess \in Elements(q) THEN Len(q) - 1 ELSE Len(q)
         /\ sess \notin Elements(q) => Erased(q, sess) = q
         /\ sess \in Elements(q) =>
              /\ GetQueuePos(q, sess) \in 1 .. Len(q)
              /\ \A i \in 1 .. (Len(q) - 1) :
                   i < GetQueuePos(q, sess) => Erased(q, sess)[i] = q[i]
  <1>1. CASE sess \in Elements(q)
    <2> PICK j \in 1 .. Len(q) : q[j] = sess
      BY <1>1, PlaceElement
    <2>1. GetQueuePos(q, sess) = j
      BY PositionFound
    <2>2. Erased(q, sess) = Erase(q, j)
      BY <1>1, <2>1 DEF Erased
    <2> QED
      BY <1>1, <2>1, <2>2, ErasePlaces
  <1>2. CASE sess \notin Elements(q)
    BY <1>2 DEF Erased
  <1> QED
    BY <1>1, <1>2

\* The clients are told their places in q from a given one on.
Announce(q, from, t) ==
  [s \in Sessions |-> IF \E i \in from .. Len(q) : q[i] = s
                      THEN GetQueuePos(q, s) ELSE t[s]]

\* The result of a call, case by case.
LEMMA RemoveFields ==
  ASSUME NEW q, NEW n, NEW sess, NEW t
  PROVE  LET r == RemoveQueuedPlayer(q, n, sess, t)
             e == Erased(q, sess)
         IN /\ r.found <=> sess \in Elements(q)
            /\ Accepts(q, n, sess) =>
                 r.queue = Tail(e) /\ r.popped = {Head(e)} /\ r.told = Announce(Tail(e), 1, t)
            /\ ~Accepts(q, n, sess) =>
                 /\ r.queue = e /\ r.popped = {}
                 /\ r.told = IF sess \in Elements(q)
                             THEN Announce(e, GetQueuePos(q, sess), t)
                             ELSE Announce(e, Len(e) + 1, t)
  BY DEF RemoveQueuedPlayer, Erased, Accepts, FirstMoved, Announce

\* The clients before a given place know theirs.
KnowBefore(q, from, t) == \A i \in 1 .. Len(q) : i < from => t[q[i]] = i

\* Announcing the places from a given one on is enough if the clients before it
\* know theirs.
LEMMA Announced ==
  ASSUME NEW q \in Seq(Sessions), Distinct(q), NEW from \in Nat, from > 0,
         NEW t \in [Sessions -> Nat],
         KnowBefore(q, from, t)
  PROVE  Known(q, Announce(q, from, t))
  <1> PICK u : u = Announce(q, from, t)
    OBVIOUS
  <1>0. u = [s \in Sessions |-> IF \E i \in from .. Len(q) : q[i] = s
                                THEN GetQueuePos(q, s) ELSE t[s]]
    BY DEF Announce
  <1>1. \A i \in 1 .. Len(q) : GetQueuePos(q, q[i]) = i /\ q[i] \in Sessions
    BY PositionFound, PlaceElement
  <1>2. Len(q) \in Nat
    OBVIOUS
  <1>3. \A i \in from .. Len(q) : i \in 1 .. Len(q)
    BY <1>2
  <1>4. \A s \in Sessions : u[s] \in Nat
    BY <1>0, <1>1, <1>3
  <1>5. ASSUME NEW i \in 1 .. Len(q)
        PROVE  u[q[i]] = i
    <2>1. CASE i \in from .. Len(q)
      BY <1>0, <1>1, <2>1
    <2>2. CASE i \notin from .. Len(q)
      <3>1. i < from
        BY <1>2, <2>2
      <3>2. ~\E j \in from .. Len(q) : q[j] = q[i]
        BY <1>3, <2>2 DEF Distinct
      <3> QED
        BY <1>0, <1>1, <3>1, <3>2 DEF KnowBefore
    <2> QED
      BY <2>1, <2>2
  <1> QED
    BY <1>0, <1>4, <1>5 DEF Known

\* The call as a whole.
LEMMA RemoveCorrect ==
  ASSUME NEW q \in Seq(Sessions), Distinct(q),
         NEW n \in Nat, NEW sess \in Sessions,
         sess \notin Elements(q) => n - Len(q) > 0,
         NEW t, Known(q, t),
         m_playerLimit \in Nat
  PROVE  Removed(q, n, sess, RemoveQueuedPlayer(q, n, sess, t))
  <1> PICK e : e = Erased(q, sess)
    OBVIOUS
  <1> PICK r : r = RemoveQueuedPlayer(q, n, sess, t)
    OBVIOUS
  <1>0. /\ r.found <=> sess \in Elements(q)
        /\ Accepts(q, n, sess) =>
             r.queue = Tail(e) /\ r.popped = {Head(e)} /\ r.told = Announce(Tail(e), 1, t)
        /\ ~Accepts(q, n, sess) =>
             /\ r.queue = e /\ r.popped = {}
             /\ r.told = IF sess \in Elements(q)
                         THEN Announce(e, GetQueuePos(q, sess), t)
                         ELSE Announce(e, Len(e) + 1, t)
    BY RemoveFields
  <1>1. /\ e \in Seq(Sessions) /\ Distinct(e)
        /\ Elements(e) = Elements(q) \ {sess}
        /\ Len(e) = IF sess \in Elements(q) THEN Len(q) - 1 ELSE Len(q)
    BY ErasedPlaces
  <1>2. Len(q) \in Nat /\ Len(e) \in Nat
    BY <1>1
  <1>3. Remaining(n - Len(q), sess \in Elements(q)) = Others(q, n, sess)
    BY <1>2 DEF Remaining, Others
  <1>4. t \in [Sessions -> Nat]
    BY DEF Known
  <1>5. CASE Accepts(q, n, sess)
    <2>1. e # <<>> /\ HasRoom(Others(q, n, sess))
      BY <1>3, <1>5 DEF Accepts
    <2>2. r.queue = Tail(e) /\ r.popped = {Head(e)} /\ r.told = Announce(Tail(e), 1, t)
      BY <1>0, <1>5
    <2>3. /\ Tail(e) \in Seq(Sessions) /\ Distinct(Tail(e))
          /\ Elements(Tail(e)) = Elements(e) \ {Head(e)}
          /\ Head(e) \in Elements(e)
          /\ Len(Tail(e)) = Len(e) - 1
      BY <1>1, <2>1, TailPlaces
    <2>4. Known(r.queue, r.told)
      <3> PICK d : d = Tail(e)
        OBVIOUS
      <3>1. KnowBefore(d, 1, t)
        BY DEF KnowBefore
      <3>2. d \in Seq(Sessions) /\ Distinct(d)
        BY <2>3
      <3>3. 1 \in Nat /\ 1 > 0
        OBVIOUS
      <3>4. Known(d, Announce(d, 1, t))
        BY <1>4, <3>1, <3>2, <3>3, Announced
      <3> QED
        BY <2>2, <3>4
    <2>5. n - Len(r.queue) - 1 = Others(q, n, sess) + 1
      <3>1. Len(r.queue) = Len(e) - 1
        BY <2>2, <2>3
      <3> QED
        BY <1>1, <1>2, <3>1 DEF Others
    <2>6. /\ Elements(r.queue) = Elements(q) \ ({sess} \cup r.popped)
          /\ r.popped \subseteq Elements(q) \ {sess} /\ r.popped # {}
      BY <1>1, <2>2, <2>3
    <2>7. r.queue \in Seq(Sessions) /\ Distinct(r.queue)
      BY <2>2, <2>3
    <2> QED
      BY <1>0, <2>1, <2>4, <2>5, <2>6, <2>7 DEF Removed
  <1>6. CASE ~Accepts(q, n, sess)
    <2>1. e = <<>> \/ ~HasRoom(Others(q, n, sess))
      BY <1>3, <1>6 DEF Accepts
    <2>2. r.queue = e /\ r.popped = {}
      BY <1>0, <1>6
    <2>3. Known(r.queue, r.told)
      <3>1. CASE sess \in Elements(q)
        <4> PICK k \in 1 .. Len(q) : k = GetQueuePos(q, sess)
          BY <3>1, ErasedPlaces
        <4>1. r.told = Announce(e, k, t)
          BY <1>0, <1>6, <3>1
        <4>2. KnowBefore(e, k, t)
          <5> SUFFICES ASSUME NEW i \in 1 .. Len(e), i < k
                       PROVE  t[e[i]] = i
            BY DEF KnowBefore
          <5>1. i \in 1 .. (Len(q) - 1) /\ i \in 1 .. Len(q)
            BY <1>1, <1>2, <3>1
          <5>2. e[i] = q[i]
            BY <3>1, <5>1, ErasedPlaces
          <5> QED
            BY <5>1, <5>2 DEF Known
        <4>3. k \in Nat /\ k > 0
          BY <1>2
        <4> QED
          BY <1>1, <1>4, <2>2, <4>1, <4>2, <4>3, Announced
      <3>2. CASE sess \notin Elements(q)
        <4>1. r.told = Announce(e, Len(e) + 1, t)
          BY <1>0, <1>6, <3>2
        <4>2. e = q
          BY <3>2, ErasedPlaces
        <4>3. Len(e) + 1 \in Nat /\ Len(e) + 1 > 0
          BY <1>2
        <4>4. KnowBefore(e, Len(e) + 1, t)
          BY <4>2 DEF KnowBefore, Known
        <4> QED
          BY <1>1, <1>4, <2>2, <4>1, <4>3, <4>4, Announced
      <3> QED
        BY <3>1, <3>2
    <2>4. n - Len(r.queue) - 1 = Others(q, n, sess)
      <3>1. Len(r.queue) = Len(e)
        BY <2>2
      <3> QED
        BY <1>1, <1>2, <3>1 DEF Others
    <2> QED
      BY <1>0, <1>1, <2>1, <2>2, <2>3, <2>4 DEF Removed
  <1> QED
    BY <1>5, <1>6

-----------------------------------------------------------------------------
(* Counting the active sessions.                                            *)

\* The players in the world are the sessions of the map without the queue.
LEMMA CountActive ==
  ASSUME NEW M \in SUBSET Sessions,
         NEW q \in Seq(Sessions), Distinct(q), Elements(q) \subseteq M
  PROVE  /\ IsFiniteSet(M)
         /\ Cardinality(M) \in Nat
         /\ IsFiniteSet(M \ Elements(q))
         /\ Cardinality(M \ Elements(q)) = Cardinality(M) - Len(q)
         /\ \A s \in M : s \notin Elements(q) => Cardinality(M) - Len(q) > 0
  <1>1. IsFiniteSet(M) /\ Cardinality(M) \in Nat
    <2>1. IsFiniteSet(M)
      BY ConstantsAssumption, FS_Subset
    <2> QED
      BY <2>1, FS_CardinalityType
  <1>2. Cardinality(Elements(q)) = Len(q) /\ Len(q) \in Nat
    BY QueueCount
  <1>3. M \cap Elements(q) = Elements(q)
    OBVIOUS
  <1>4. /\ IsFiniteSet(M \ Elements(q))
        /\ Cardinality(M \ Elements(q)) = Cardinality(M) - Cardinality(M \cap Elements(q))
    BY <1>1, FS_Difference, Zenon
  <1>5. Cardinality(M \ Elements(q)) = Cardinality(M) - Len(q)
    BY <1>2, <1>3, <1>4
  <1>6. Cardinality(M \ Elements(q)) \in Nat
    BY <1>4, FS_CardinalityType
  <1>7. M \ Elements(q) # {} => Cardinality(M \ Elements(q)) # 0
    BY <1>4, FS_EmptySet
  <1>8. ASSUME NEW s \in M, s \notin Elements(q)
        PROVE  Cardinality(M) - Len(q) > 0
    BY <1>5, <1>6, <1>7, <1>8
  <1> QED
    BY <1>1, <1>4, <1>5, <1>8

-----------------------------------------------------------------------------
(* Preservation of the invariant.                                           *)

LEMMA InitTable == Init => TableInv
  <1> SUFFICES ASSUME Init
               PROVE  TableInv
    OBVIOUS
  <1>1. TypeOK
    BY ConstantsAssumption DEF Init, TypeOK
  <1>2. LifeInv /\ AccountInv /\ IdleInv /\ NoSecondCharacter
    BY DEF Init, LifeInv, AccountInv, IdleInv, NoSecondCharacter, Distinct
  <1>3. QueueInv /\ WaitInv /\ ToldInv
    BY <1>1
       DEF Init, TypeOK, QueueInv, WaitInv, ToldInv, Known, Distinct, Elements
  <1> QED
    BY <1>1, <1>2, <1>3 DEF TableInv

\* A step that leaves the containers of World and the session objects alone.
LEMMA TableFrame ==
  ASSUME TableInv, UNCHANGED <<addSessQueue, m_sessions, m_QueuedPlayer, life>>,
         todo' \subseteq m_sessions
  PROVE  LifeInv' /\ AccountInv' /\ QueueInv'
  <1>1. LifeInv'
    BY DEF TableInv, LifeInv, Distinct
  <1>2. AccountInv' /\ QueueInv'
    BY DEF TableInv, AccountInv, QueueInv, Distinct, Elements
  <1> QED
    BY <1>1, <1>2

\* A step that touches no flag the invariant speaks of.
LEMMA FlagFrame ==
  ASSUME TableInv, UNCHANGED <<m_sessions, m_QueuedPlayer, inQueue, initPending,
                               loading, charLogin, player, told>>
  PROVE  IdleInv' /\ WaitInv' /\ ToldInv' /\ NoSecondCharacter'
  <1>1. IdleInv' /\ NoSecondCharacter'
    BY DEF TableInv, IdleInv, NoSecondCharacter
  <1>2. WaitInv' /\ ToldInv'
    BY DEF TableInv, WaitInv, ToldInv, Known, Elements
  <1> QED
    BY <1>1, <1>2

\* A connection is lost.
LEMMA DisconnectStep ==
  ASSUME TableInv, NEW s \in Sessions, Disconnect(s)
  PROVE  TableInv'
  <1>1. TypeOK'
    BY DEF TableInv, TypeOK, Disconnect, tableVars, sessionVars
  <1>2. todo' \subseteq m_sessions
    BY DEF TableInv, LifeInv, Disconnect, tableVars, sessionVars
  <1>3. LifeInv' /\ AccountInv' /\ QueueInv'
    BY <1>2, TableFrame DEF Disconnect, tableVars, sessionVars
  <1>4. IdleInv' /\ WaitInv' /\ ToldInv' /\ NoSecondCharacter'
    BY FlagFrame DEF Disconnect, tableVars, sessionVars
  <1> QED
    BY <1>1, <1>3, <1>4 DEF TableInv

\* The clock advances.
LEMMA TickStep ==
  ASSUME TableInv, Tick
  PROVE  TableInv'
  <1>1. TypeOK'
    BY DEF TableInv, TypeOK, Tick, tableVars, sessionVars
  <1>2. todo' \subseteq m_sessions
    BY DEF TableInv, LifeInv, Tick, tableVars, sessionVars
  <1>3. LifeInv' /\ AccountInv' /\ QueueInv'
    BY <1>2, TableFrame DEF Tick, tableVars, sessionVars
  <1>4. IdleInv' /\ WaitInv' /\ ToldInv' /\ NoSecondCharacter'
    BY FlagFrame DEF Tick, tableVars, sessionVars
  <1> QED
    BY <1>1, <1>3, <1>4 DEF TableInv

\* UpdateSessions begins.
LEMMA BeginUpdateSessionsStep ==
  ASSUME TableInv, BeginUpdateSessions
  PROVE  TableInv'
  <1>1. TypeOK'
    BY DEF TableInv, TypeOK, BeginUpdateSessions, tableVars, sessionVars
  <1>2. todo' \subseteq m_sessions
    BY DEF TableInv, LifeInv, BeginUpdateSessions, tableVars, sessionVars
  <1>3. LifeInv' /\ AccountInv' /\ QueueInv'
    BY <1>2, TableFrame DEF BeginUpdateSessions, tableVars, sessionVars
  <1>4. IdleInv' /\ WaitInv' /\ ToldInv' /\ NoSecondCharacter'
    BY FlagFrame DEF BeginUpdateSessions, tableVars, sessionVars
  <1> QED
    BY <1>1, <1>3, <1>4 DEF TableInv

\* The loop over the sessions begins.
LEMMA BeginLoopStep ==
  ASSUME TableInv, BeginLoop
  PROVE  TableInv'
  <1>1. TypeOK'
    BY DEF TableInv, TypeOK, BeginLoop, tableVars, sessionVars
  <1>2. todo' \subseteq m_sessions
    BY DEF TableInv, LifeInv, BeginLoop, tableVars, sessionVars
  <1>3. LifeInv' /\ AccountInv' /\ QueueInv'
    BY <1>2, TableFrame DEF BeginLoop, tableVars, sessionVars
  <1>4. IdleInv' /\ WaitInv' /\ ToldInv' /\ NoSecondCharacter'
    BY FlagFrame DEF BeginLoop, tableVars, sessionVars
  <1> QED
    BY <1>1, <1>3, <1>4 DEF TableInv

\* The loop over the sessions ends.
LEMMA EndLoopStep ==
  ASSUME TableInv, EndLoop
  PROVE  TableInv'
  <1>1. TypeOK'
    BY DEF TableInv, TypeOK, EndLoop, tableVars, sessionVars
  <1>2. todo' \subseteq m_sessions
    BY DEF TableInv, LifeInv, EndLoop, tableVars, sessionVars
  <1>3. LifeInv' /\ AccountInv' /\ QueueInv'
    BY <1>2, TableFrame DEF EndLoop, tableVars, sessionVars
  <1>4. IdleInv' /\ WaitInv' /\ ToldInv' /\ NoSecondCharacter'
    BY FlagFrame DEF EndLoop, tableVars, sessionVars
  <1> QED
    BY <1>1, <1>3, <1>4 DEF TableInv

\* An idle connection is closed.
LEMMA CloseIdleStep ==
  ASSUME TableInv, NEW s \in Sessions, CloseIdle(s)
  PROVE  TableInv'
  <1>1. TypeOK'
    BY DEF TableInv, TypeOK, CloseIdle, tableVars, sessionVars
  <1>2. todo' \subseteq m_sessions
    BY DEF TableInv, LifeInv, CloseIdle, tableVars, sessionVars
  <1>3. LifeInv' /\ AccountInv' /\ QueueInv'
    BY <1>2, TableFrame DEF CloseIdle, tableVars, sessionVars
  <1>4. IdleInv' /\ WaitInv' /\ ToldInv' /\ NoSecondCharacter'
    BY FlagFrame DEF CloseIdle, tableVars, sessionVars
  <1> QED
    BY <1>1, <1>3, <1>4 DEF TableInv

\* A session is kicked.
LEMMA KickStep ==
  ASSUME TableInv, NEW s \in Sessions, Kick(s)
  PROVE  TableInv'
  <1>1. TypeOK'
    BY DEF TableInv, TypeOK, Kick, tableVars, sessionVars, KickPlayer
  <1>2. todo' \subseteq m_sessions
    BY DEF TableInv, LifeInv, Kick, tableVars, sessionVars
  <1>3. LifeInv' /\ AccountInv' /\ QueueInv'
    BY <1>2, TableFrame DEF Kick, tableVars, sessionVars
  <1>4. IdleInv' /\ WaitInv' /\ ToldInv' /\ NoSecondCharacter'
    BY FlagFrame DEF Kick, tableVars, sessionVars
  <1> QED
    BY <1>1, <1>3, <1>4 DEF TableInv

\* The client gives up a login: it is not in the queue, for it was loading.
LEMMA AbortLoginStep ==
  ASSUME TableInv, NEW s \in Sessions, AbortLogin(s)
  PROVE  TableInv'
  <1>1. TypeOK'
    BY DEF TableInv, TypeOK, AbortLogin, tableVars
  <1>2. LifeInv' /\ AccountInv' /\ QueueInv'
    <2>1. todo' \subseteq m_sessions
      BY DEF TableInv, LifeInv, AbortLogin
    <2> QED
      BY <2>1, TableFrame DEF AbortLogin, tableVars
  <1>3. s \in m_sessions /\ s \notin Elements(m_QueuedPlayer)
    BY DEF TableInv, TypeOK, LifeInv, WaitInv, AbortLogin
  <1>4. IdleInv' /\ NoSecondCharacter'
    BY <1>3
       DEF TableInv, TypeOK, IdleInv, NoSecondCharacter, AbortLogin, tableVars
  <1>5. WaitInv' /\ ToldInv'
    BY <1>3, PlaceElement
       DEF TableInv, TypeOK, WaitInv, ToldInv, Known, AbortLogin, tableVars, Elements
  <1> QED
    BY <1>1, <1>2, <1>4, <1>5 DEF TableInv

\* A login request passes the filter, so its session does not wait.
LEMMA HandlePlayerLoginOpcodeStep ==
  ASSUME TableInv, NEW s \in Sessions, HandlePlayerLoginOpcode(s)
  PROVE  TableInv'
  <1>1. TypeOK'
    BY DEF TableInv, TypeOK, HandlePlayerLoginOpcode, tableVars, KickPlayer
  <1>2. LifeInv' /\ AccountInv' /\ QueueInv'
    <2>1. todo' \subseteq m_sessions
      BY DEF TableInv, LifeInv, HandlePlayerLoginOpcode
    <2> QED
      BY <2>1, TableFrame DEF HandlePlayerLoginOpcode, tableVars
  <1>3. s \in m_sessions /\ s \notin Elements(m_QueuedPlayer)
    BY
       DEF TableInv, TypeOK, LifeInv, WaitInv, HandlePlayerLoginOpcode, Updating, Authed
  <1>4. IdleInv' /\ NoSecondCharacter'
    BY <1>3
       DEF TableInv, TypeOK, IdleInv, NoSecondCharacter, HandlePlayerLoginOpcode, tableVars, KickPlayer
  <1>5. WaitInv' /\ ToldInv'
    <2>1. UNCHANGED <<m_QueuedPlayer, inQueue, initPending, charLogin, player, told>>
      BY DEF HandlePlayerLoginOpcode, tableVars
    <2>2. \A x \in Sessions \ {s} : loading'[x] = loading[x]
      BY DEF HandlePlayerLoginOpcode, TableInv, TypeOK
    <2>3. Elements(m_QueuedPlayer) \subseteq Sessions
      BY PlaceElement DEF TableInv, TypeOK
    <2>4. WaitInv'
      BY <1>3, <2>1, <2>2, <2>3 DEF TableInv, WaitInv, Elements
    <2>5. ToldInv'
      BY <2>1 DEF TableInv, ToldInv, Known
    <2> QED
      BY <2>4, <2>5
  <1> QED
    BY <1>1, <1>2, <1>4, <1>5 DEF TableInv

\* The character queries come back.
LEMMA HandlePlayerLoginStep ==
  ASSUME TableInv, NEW s \in Sessions, HandlePlayerLogin(s)
  PROVE  TableInv'
  <1>1. TypeOK'
    BY DEF TableInv, TypeOK, HandlePlayerLogin, tableVars, KickPlayer
  <1>2. LifeInv' /\ AccountInv' /\ QueueInv'
    <2>1. todo' \subseteq m_sessions
      BY DEF TableInv, LifeInv, HandlePlayerLogin
    <2> QED
      BY <2>1, TableFrame DEF HandlePlayerLogin, tableVars
  <1>3. s \in m_sessions /\ s \notin Elements(m_QueuedPlayer)
    BY DEF TableInv, TypeOK, LifeInv, WaitInv, HandlePlayerLogin, Updating
  <1>4. IdleInv' /\ NoSecondCharacter'
    BY <1>3
       DEF TableInv, TypeOK, IdleInv, NoSecondCharacter, HandlePlayerLogin, tableVars, KickPlayer
  <1>5. WaitInv' /\ ToldInv'
    BY <1>3, PlaceElement
       DEF TableInv, TypeOK, WaitInv, ToldInv, Known, HandlePlayerLogin, tableVars, Elements, KickPlayer
  <1> QED
    BY <1>1, <1>2, <1>4, <1>5 DEF TableInv

\* The character leaves the world.
LEMMA LogoutPlayerStep ==
  ASSUME TableInv, NEW s \in Sessions, LogoutPlayer(s)
  PROVE  TableInv'
  <1>1. TypeOK'
    BY DEF TableInv, TypeOK, LogoutPlayer, tableVars
  <1>2. LifeInv' /\ AccountInv' /\ QueueInv'
    <2>1. todo' \subseteq m_sessions
      BY DEF TableInv, LifeInv, LogoutPlayer
    <2> QED
      BY <2>1, TableFrame DEF LogoutPlayer, tableVars
  <1>3. s \in m_sessions /\ s \notin Elements(m_QueuedPlayer)
    BY DEF TableInv, TypeOK, LifeInv, WaitInv, LogoutPlayer, Updating
  <1>4. IdleInv' /\ NoSecondCharacter'
    BY <1>3
       DEF TableInv, TypeOK, IdleInv, NoSecondCharacter, LogoutPlayer, tableVars
  <1>5. WaitInv' /\ ToldInv'
    BY <1>3, PlaceElement
       DEF TableInv, TypeOK, WaitInv, ToldInv, Known, LogoutPlayer, tableVars, Elements
  <1> QED
    BY <1>1, <1>2, <1>4, <1>5 DEF TableInv

\* The account queries of a session that was let in come back.
LEMMA InitializeSessionCallbackStep ==
  ASSUME TableInv, NEW s \in Sessions, InitializeSessionCallback(s)
  PROVE  TableInv'
  <1>1. TypeOK'
    BY DEF TableInv, TypeOK, InitializeSessionCallback, tableVars
  <1>2. LifeInv' /\ AccountInv' /\ QueueInv'
    <2>1. todo' \subseteq m_sessions
      BY DEF TableInv, LifeInv, InitializeSessionCallback
    <2> QED
      BY <2>1, TableFrame DEF InitializeSessionCallback, tableVars
  <1>3. s \in m_sessions /\ s \notin Elements(m_QueuedPlayer)
    BY
       DEF TableInv, TypeOK, LifeInv, WaitInv, InitializeSessionCallback, Updating
  <1>4. IdleInv' /\ NoSecondCharacter'
    BY <1>3
       DEF TableInv, TypeOK, IdleInv, NoSecondCharacter, InitializeSessionCallback, tableVars
  <1>5. WaitInv' /\ ToldInv'
    BY <1>3, PlaceElement
       DEF TableInv, TypeOK, WaitInv, ToldInv, Known, InitializeSessionCallback, tableVars, Elements
  <1> QED
    BY <1>1, <1>2, <1>4, <1>5 DEF TableInv
\* An instance socket is linked to a session, which is kicked unless it is
\* loading a character and has none.
LEMMA ProcessLinkInstanceSocketStep ==
  ASSUME TableInv, NEW s \in Sessions, ProcessLinkInstanceSocket(s)
  PROVE  TableInv'
  <1>1. TypeOK'
    BY DEF TableInv, TypeOK, ProcessLinkInstanceSocket, KickPlayer, tableVars
  <1>2. LifeInv' /\ AccountInv' /\ QueueInv'
    <2>1. todo' \subseteq m_sessions
      BY DEF TableInv, LifeInv, ProcessLinkInstanceSocket
    <2> QED
      BY <2>1, TableFrame DEF ProcessLinkInstanceSocket, tableVars
  <1>3. UNCHANGED <<m_sessions, m_QueuedPlayer, inQueue, initPending, player, told>>
    BY DEF ProcessLinkInstanceSocket, tableVars
  <1>4. CASE MayContinue(s)
    <2>1. /\ s \in m_sessions /\ s \notin Elements(m_QueuedPlayer)
          /\ loading[s] /\ ~player[s]
      BY <1>4 DEF TableInv, WaitInv, ProcessLinkInstanceSocket, MayContinue
    <2>2. \A x \in Sessions \ {s} : loading'[x] = loading[x] /\ charLogin'[x] = charLogin[x]
      BY <1>4 DEF ProcessLinkInstanceSocket, TableInv, TypeOK
    <2>3. IdleInv' /\ NoSecondCharacter'
      BY <1>3, <2>1, <2>2 DEF TableInv, IdleInv, NoSecondCharacter
    <2>4. Elements(m_QueuedPlayer) \subseteq Sessions
      BY PlaceElement DEF TableInv, TypeOK
    <2>5. WaitInv'
      BY <1>3, <2>1, <2>2, <2>4 DEF TableInv, WaitInv, Elements
    <2>6. ToldInv'
      BY <1>3 DEF TableInv, ToldInv, Known
    <2> QED
      BY <1>1, <1>2, <2>3, <2>5, <2>6 DEF TableInv
  <1>5. CASE ~MayContinue(s)
    <2>1. UNCHANGED <<loading, charLogin>>
      BY <1>5 DEF ProcessLinkInstanceSocket
    <2>2. IdleInv' /\ WaitInv' /\ ToldInv' /\ NoSecondCharacter'
      BY <1>3, <2>1, FlagFrame
    <2> QED
      BY <1>1, <1>2, <2>2 DEF TableInv
  <1> QED
    BY <1>4, <1>5

\* The shutdown sequence empties the queue.
LEMMA KickAllStep ==
  ASSUME TableInv, KickAll
  PROVE  TableInv'
  <1>1. m_QueuedPlayer' = <<>> /\ m_QueuedPlayer' \in Seq(Sessions) /\ Len(m_QueuedPlayer') = 0
    BY DEF KickAll
  <1>2. TypeOK'
    BY <1>1 DEF TableInv, TypeOK, KickAll, KickPlayer
  <1>3. LifeInv' /\ AccountInv' /\ IdleInv' /\ NoSecondCharacter'
    BY DEF KickAll, TableInv, LifeInv, AccountInv, IdleInv, NoSecondCharacter, Distinct
  <1>4. Elements(m_QueuedPlayer)' = {}
    BY <1>1 DEF Elements
  <1>5. QueueInv' /\ WaitInv' /\ ToldInv'
    BY <1>1, <1>2, <1>4 DEF TypeOK, QueueInv, WaitInv, ToldInv, Known, Distinct
  <1> QED
    BY <1>2, <1>3, <1>5 DEF TableInv

\* The player limit is changed.
LEMMA SetPlayerAmountLimitStep ==
  ASSUME TableInv, NEW n \in Limits, SetPlayerAmountLimit(n)
  PROVE  TableInv'
  <1>1. TypeOK'
    BY DEF TableInv, TypeOK, SetPlayerAmountLimit, sessionVars
  <1>2. todo' \subseteq m_sessions
    BY DEF TableInv, LifeInv, SetPlayerAmountLimit
  <1>3. LifeInv' /\ AccountInv' /\ QueueInv'
    BY <1>2, TableFrame DEF SetPlayerAmountLimit, sessionVars
  <1>4. IdleInv' /\ WaitInv' /\ ToldInv' /\ NoSecondCharacter'
    BY FlagFrame DEF SetPlayerAmountLimit, sessionVars
  <1> QED
    BY <1>1, <1>3, <1>4 DEF TableInv

\* A network thread hands over a session.
LEMMA AddSessionStep ==
  ASSUME TableInv, NEW s \in Sessions, AddSession(s)
  PROVE  TableInv'
  <1>1. addSessQueue \in Seq(Sessions) /\ Distinct(addSessQueue) /\ life[s] = "none"
    BY DEF TableInv, TypeOK, LifeInv, AddSession
  <1>2. s \notin Elements(addSessQueue)
    BY <1>1, PlaceElement DEF TableInv, LifeInv
  <1>3. addSessQueue' = Append(addSessQueue, s)
    BY DEF AddSession
  <1>4. /\ addSessQueue' \in Seq(Sessions)
        /\ Distinct(addSessQueue')
        /\ Elements(addSessQueue') = Elements(addSessQueue) \cup {s}
    BY <1>1, <1>2, <1>3, AppendPlaces
  <1>5. TypeOK'
    BY <1>4 DEF TableInv, TypeOK, AddSession, tableVars
  <1>6. LifeInv'
    <2>1. UNCHANGED <<m_sessions, todo>> /\ life' = [life EXCEPT ![s] = "new"]
      BY DEF AddSession, tableVars
    <2>2. \A x \in Sessions : x \in m_sessions' <=> life'[x] = "live"
      BY <1>1, <2>1 DEF TableInv, TypeOK, LifeInv
    <2>3. \A x \in Elements(addSessQueue') : x \in Sessions /\ life'[x] = "new"
      <3>1. \A x \in Elements(addSessQueue) : x \in Sessions /\ life[x] = "new"
        BY <1>1, PlaceElement DEF TableInv, LifeInv
      <3> QED
        BY <1>4, <2>1, <3>1 DEF TableInv, TypeOK
    <2>4. \A i \in 1 .. Len(addSessQueue') : life'[addSessQueue'[i]] = "new"
      BY <1>4, <2>3, PlaceElement
    <2>5. Distinct(addSessQueue)'
      BY <1>4 DEF Distinct
    <2> QED
      BY <2>1, <2>2, <2>4, <2>5 DEF TableInv, LifeInv
  <1>7. AccountInv' /\ QueueInv'
    BY DEF AddSession, tableVars, TableInv, AccountInv, QueueInv, Distinct, Elements
  <1>8. IdleInv' /\ WaitInv' /\ ToldInv' /\ NoSecondCharacter'
    BY FlagFrame DEF AddSession, tableVars
  <1> QED
    BY <1>5, <1>6, <1>7, <1>8 DEF TableInv
-----------------------------------------------------------------------------
(* AddSession_.                                                             *)

\* The removal of the account's old session from the queue.
OldRemoval(s) ==
  LET olds == FindSession(AccountOf[s])
  IN IF olds = {}
     THEN [found |-> FALSE, queue |-> m_QueuedPlayer, popped |-> {}, told |-> told]
     ELSE RemoveQueuedPlayer(m_QueuedPlayer, Cardinality(m_sessions),
                             CHOOSE old \in olds : TRUE, told)

\* The map with the new session in the place of the old one.
Listed(s) == (m_sessions \ FindSession(AccountOf[s])) \cup {s}

\* The new session has to wait.
Waits(s) ==
  LET count == Cardinality(Listed(s))
  IN /\ m_playerLimit > 0
     /\ (IF OldRemoval(s).found THEN count ELSE count - 1) >= m_playerLimit
     /\ AccountOf[s] \notin SkipQueue
     /\ ~HasRecentlyDisconnected(AccountOf[s])

\* The step in these terms.
LEMMA AcceptEffect ==
  ASSUME NEW s, AcceptSession(s), NEW O, O = FindSession(AccountOf[s]),
         NEW r, r = OldRemoval(s)
  PROVE  /\ \A old \in O : ~loading[old]
         /\ m_sessions' = (m_sessions \ O) \cup {s}
         /\ m_QueuedPlayer' = IF Waits(s) THEN Append(r.queue, s) ELSE r.queue
         /\ life' = [x \in Sessions |-> IF x = s THEN "live"
                                        ELSE IF x \in O THEN "deleted" ELSE life[x]]
         /\ inQueue' = [x \in Sessions |-> IF x = s THEN Waits(s)
                                           ELSE x \notin O /\ inQueue[x]]
         /\ initPending' =
              [x \in Sessions |->
                 x \notin O /\ (\/ x \in (IF Waits(s) THEN r.popped ELSE r.popped \cup {s})
                                \/ initPending[x])]
         /\ told' = [x \in Sessions |-> IF x = s /\ Waits(s) THEN Len(r.queue) + 1
                                        ELSE IF x \in O THEN 0 ELSE r.told[x]]
         /\ sockOpen' = [x \in Sessions |-> x \notin O /\ sockOpen[x]]
         /\ forceExit' = [x \in Sessions |-> x \notin O /\ forceExit[x]]
         /\ charLogin' = [x \in Sessions |-> x \notin O /\ charLogin[x]]
         /\ player' = [x \in Sessions |-> x \notin O /\ player[x]]
         /\ expire' = [x \in Sessions |-> IF x \in O THEN ExpireTime ELSE expire[x]]
         /\ UNCHANGED <<m_disconnects, m_playerLimit, loading>>
  BY SMTT(60) DEF AcceptSession, OldRemoval, Listed, Waits

\* An account has at most one old session.
LEMMA OneOld ==
  ASSUME TableInv, NEW s \in Sessions, NEW O, O = FindSession(AccountOf[s])
  PROVE  /\ O \subseteq m_sessions
         /\ O # {} => \E old \in m_sessions : O = {old} /\ (CHOOSE x \in O : TRUE) = old
  <1>1. O \subseteq m_sessions
    BY DEF FindSession
  <1>2. ASSUME NEW old \in O
        PROVE  O = {old}
    BY <1>1, <1>2 DEF FindSession, TableInv, AccountInv
  <1> QED
    BY <1>1, <1>2

\* What is left of the queue then.
LEMMA OldRemoved ==
  ASSUME TableInv, NEW s \in Sessions, NEW O, O = FindSession(AccountOf[s]),
         NEW r, r = OldRemoval(s)
  PROVE  /\ r.queue \in Seq(Sessions)
         /\ Distinct(r.queue)
         /\ Elements(r.queue) = Elements(m_QueuedPlayer) \ (O \cup r.popped)
         /\ r.popped \subseteq Elements(m_QueuedPlayer) \ O
         /\ Known(r.queue, r.told)
         /\ O = {} => r.queue = m_QueuedPlayer /\ r.popped = {} /\ ~r.found
         /\ \A old \in O :
              Removed(m_QueuedPlayer, Cardinality(m_sessions), old, r)
  <1> PICK q : q = m_QueuedPlayer
    OBVIOUS
  <1>1. q \in Seq(Sessions) /\ Distinct(q) /\ Elements(q) \subseteq m_sessions
    BY DEF TableInv, TypeOK, QueueInv
  <1>2. Known(q, told) /\ m_playerLimit \in Nat /\ m_sessions \subseteq Sessions
    BY ConstantsAssumption DEF TableInv, TypeOK, ToldInv
  <1>3. CASE O = {}
    <2>1. r = [found |-> FALSE, queue |-> q, popped |-> {}, told |-> told]
      BY <1>3 DEF OldRemoval
    <2>2. r.queue = q /\ r.popped = {} /\ ~r.found /\ r.told = told
      BY <2>1
    <2> QED
      BY <1>1, <1>2, <1>3, <2>2
  <1>4. CASE O # {}
    <2> PICK old \in m_sessions : O = {old} /\ (CHOOSE x \in O : TRUE) = old
      BY <1>4, OneOld
    <2> PICK n : n = Cardinality(m_sessions)
      OBVIOUS
    <2>1. r = RemoveQueuedPlayer(q, n, old, told)
      BY <1>4 DEF OldRemoval
    <2>2. n \in Nat /\ (old \notin Elements(q) => n - Len(q) > 0)
      BY <1>1, <1>2, CountActive
    <2>3. Removed(q, n, old, r)
      BY <1>1, <1>2, <2>1, <2>2, RemoveCorrect
    <2> QED
      BY <2>3 DEF Removed
  <1> QED
    BY <1>3, <1>4
\* The front of addSessQueue, and what stays in it.
LEMMA TakeNew ==
  ASSUME TableInv, addSessQueue # <<>>, NEW s, s = Head(addSessQueue),
         addSessQueue' = Tail(addSessQueue)
  PROVE  /\ s \in Sessions /\ life[s] = "new" /\ s \notin m_sessions
         /\ addSessQueue' \in Seq(Sessions)
         /\ Distinct(addSessQueue)'
         /\ \A x \in Elements(addSessQueue') :
              x \in Sessions /\ life[x] = "new" /\ x # s /\ x \notin m_sessions
         /\ \A i \in 1 .. Len(addSessQueue') :
              addSessQueue'[i] \in Elements(addSessQueue')
  <1>1. addSessQueue \in Seq(Sessions) /\ Distinct(addSessQueue)
    BY DEF TableInv, TypeOK, LifeInv
  <1>2. \A x \in Elements(addSessQueue) :
          x \in Sessions /\ life[x] = "new" /\ x \notin m_sessions
    BY <1>1, PlaceElement DEF TableInv, LifeInv
  <1>3. /\ addSessQueue' \in Seq(Sessions) /\ Distinct(addSessQueue')
        /\ Elements(addSessQueue') = Elements(addSessQueue) \ {s}
        /\ s \in Elements(addSessQueue)
    BY <1>1, TailPlaces
  <1>4. Distinct(addSessQueue)'
    BY <1>3 DEF Distinct
  <1> QED
    BY <1>2, <1>3, <1>4, PlaceElement

\* The newcomer is refused.
LEMMA RefuseStep ==
  ASSUME TableInv, AddSession_, RefuseSession(Head(addSessQueue))
  PROVE  TableInv'
  <1> PICK s : s = Head(addSessQueue)
    OBVIOUS
  <1>1. /\ s \in Sessions /\ life[s] = "new" /\ s \notin m_sessions
        /\ addSessQueue' \in Seq(Sessions)
        /\ Distinct(addSessQueue)'
        /\ \A x \in Elements(addSessQueue') :
             x \in Sessions /\ life[x] = "new" /\ x # s /\ x \notin m_sessions
        /\ \A i \in 1 .. Len(addSessQueue') :
             addSessQueue'[i] \in Elements(addSessQueue')
    BY TakeNew DEF AddSession_
  <1>2. /\ life' = [life EXCEPT ![s] = "deleted"]
        /\ sockOpen' = [sockOpen EXCEPT ![s] = FALSE]
        /\ UNCHANGED <<m_sessions, m_QueuedPlayer, m_disconnects, m_playerLimit,
                       phase, todo, now, forceExit, inQueue, initPending, loading,
                       charLogin, player, expire, told>>
    BY DEF AddSession_, RefuseSession, tableVars
  <1>3. TypeOK'
    BY <1>1, <1>2 DEF TableInv, TypeOK
  <1>4. LifeInv'
    <2>1. \A x \in Sessions : x \in m_sessions' <=> life'[x] = "live"
      BY <1>1, <1>2 DEF TableInv, TypeOK, LifeInv
    <2>2. \A i \in 1 .. Len(addSessQueue') : life'[addSessQueue'[i]] = "new"
      BY <1>1, <1>2 DEF TableInv, TypeOK
    <2> QED
      BY <1>1, <1>2, <2>1, <2>2 DEF TableInv, LifeInv
  <1>5. AccountInv' /\ QueueInv'
    BY <1>2 DEF TableInv, AccountInv, QueueInv, Distinct, Elements
  <1>6. IdleInv' /\ WaitInv' /\ ToldInv' /\ NoSecondCharacter'
    BY <1>2, FlagFrame
  <1> QED
    BY <1>3, <1>4, <1>5, <1>6 DEF TableInv

\* The newcomer takes the place of the account's old session.
LEMMA AcceptStep ==
  ASSUME TableInv, LoopInv, AddSession_, AcceptSession(Head(addSessQueue))
  PROVE  TableInv'
  <1> PICK s : s = Head(addSessQueue)
    OBVIOUS
  <1> PICK O : O = FindSession(AccountOf[s])
    OBVIOUS
  <1> PICK r : r = OldRemoval(s)
    OBVIOUS
  <1> PICK q : q = m_QueuedPlayer
    OBVIOUS
  <1>1. /\ s \in Sessions /\ life[s] = "new" /\ s \notin m_sessions
        /\ addSessQueue' \in Seq(Sessions)
        /\ Distinct(addSessQueue)'
        /\ \A x \in Elements(addSessQueue') :
             x \in Sessions /\ life[x] = "new" /\ x # s /\ x \notin m_sessions
        /\ \A i \in 1 .. Len(addSessQueue') :
             addSessQueue'[i] \in Elements(addSessQueue')
    BY TakeNew DEF AddSession_
  <1>2. /\ r.queue \in Seq(Sessions) /\ Distinct(r.queue)
        /\ Elements(r.queue) = Elements(q) \ (O \cup r.popped)
        /\ r.popped \subseteq Elements(q) \ O
        /\ Known(r.queue, r.told)
    BY <1>1, OldRemoved
  <1>3. O \subseteq m_sessions
    BY DEF FindSession
  <1>4. /\ \A old \in O : ~loading[old]
        /\ m_sessions' = (m_sessions \ O) \cup {s}
        /\ m_QueuedPlayer' = IF Waits(s) THEN Append(r.queue, s) ELSE r.queue
        /\ life' = [x \in Sessions |-> IF x = s THEN "live"
                                       ELSE IF x \in O THEN "deleted" ELSE life[x]]
        /\ inQueue' = [x \in Sessions |-> IF x = s THEN Waits(s)
                                          ELSE x \notin O /\ inQueue[x]]
        /\ initPending' =
             [x \in Sessions |->
                x \notin O /\ (\/ x \in (IF Waits(s) THEN r.popped ELSE r.popped \cup {s})
                               \/ initPending[x])]
        /\ told' = [x \in Sessions |-> IF x = s /\ Waits(s) THEN Len(r.queue) + 1
                                       ELSE IF x \in O THEN 0 ELSE r.told[x]]
        /\ sockOpen' = [x \in Sessions |-> x \notin O /\ sockOpen[x]]
        /\ forceExit' = [x \in Sessions |-> x \notin O /\ forceExit[x]]
        /\ charLogin' = [x \in Sessions |-> x \notin O /\ charLogin[x]]
        /\ player' = [x \in Sessions |-> x \notin O /\ player[x]]
        /\ expire' = [x \in Sessions |-> IF x \in O THEN ExpireTime ELSE expire[x]]
        /\ UNCHANGED <<m_disconnects, m_playerLimit, loading>>
    BY AcceptEffect
  <1>5. UNCHANGED <<phase, todo, now>> /\ todo = {}
    BY DEF AddSession_, LoopInv
  <1>6. /\ q \in Seq(Sessions) /\ Distinct(q) /\ Elements(q) \subseteq m_sessions
        /\ m_sessions \subseteq Sessions
    BY DEF TableInv, TypeOK, QueueInv
  <1>7. s \notin O /\ s \notin Elements(r.queue) /\ s \notin r.popped
    BY <1>1, <1>2, <1>3, <1>6
  <1>8. /\ m_QueuedPlayer' \in Seq(Sessions)
        /\ Distinct(m_QueuedPlayer')
        /\ Elements(m_QueuedPlayer') = IF Waits(s) THEN Elements(r.queue) \cup {s}
                                       ELSE Elements(r.queue)
    <2>1. CASE Waits(s)
      BY <1>1, <1>2, <1>4, <1>7, <2>1, AppendPlaces
    <2>2. CASE ~Waits(s)
      BY <1>2, <1>4, <2>2
    <2> QED
      BY <2>1, <2>2
  <1>9. TypeOK'
    <2>1. r.told \in [Sessions -> Nat] /\ Len(r.queue) + 1 \in Nat
      BY <1>2 DEF Known
    <2>2. told' \in [Sessions -> Nat]
      BY <1>4, <2>1
    <2>3. expire' \in [Sessions -> Nat]
      BY <1>4, ConstantsAssumption DEF TableInv, TypeOK
    <2>4. life' \in [Sessions -> {"none", "new", "live", "deleted"}]
      BY <1>4 DEF TableInv, TypeOK
    <2>5. /\ sockOpen' \in [Sessions -> BOOLEAN]
          /\ forceExit' \in [Sessions -> BOOLEAN]
          /\ charLogin' \in [Sessions -> BOOLEAN]
          /\ player' \in [Sessions -> BOOLEAN]
          /\ loading' \in [Sessions -> BOOLEAN]
      BY <1>4 DEF TableInv, TypeOK
    <2>6. inQueue' \in [Sessions -> BOOLEAN]
      BY <1>4 DEF TableInv, TypeOK, Waits
    <2>7. initPending' \in [Sessions -> BOOLEAN]
      BY <1>4 DEF TableInv, TypeOK
    <2>8. m_sessions' \subseteq Sessions /\ todo' \subseteq Sessions
      BY <1>1, <1>4, <1>5, <1>6
    <2>9. /\ m_disconnects' \in [Accounts -> Nat \cup {NoTime}]
          /\ m_playerLimit' \in Limits
          /\ phase' \in {"idle", "add", "update"}
          /\ now' \in Nat
      BY <1>4, <1>5 DEF TableInv, TypeOK
    <2> QED
      BY <1>1, <1>8, <2>2, <2>3, <2>4, <2>5, <2>6, <2>7, <2>8, <2>9 DEF TypeOK
  <1>10. LifeInv'
    <2>1. \A x \in Sessions : x \in m_sessions' <=> life'[x] = "live"
      BY <1>1, <1>3, <1>4 DEF TableInv, LifeInv
    <2>2. \A x \in Elements(addSessQueue') : life'[x] = "new"
      BY <1>1, <1>3, <1>4
    <2>3. \A i \in 1 .. Len(addSessQueue') : life'[addSessQueue'[i]] = "new"
      BY <1>1, <2>2
    <2> QED
      BY <1>1, <1>5, <2>1, <2>3 DEF LifeInv
  <1>11. AccountInv'
    BY <1>4 DEF TableInv, AccountInv, FindSession
  <1>12. IdleInv'
    <2> SUFFICES ASSUME NEW x \in Sessions, x \notin m_sessions'
                 PROVE  /\ ~inQueue'[x] /\ ~initPending'[x] /\ ~loading'[x]
                        /\ ~charLogin'[x] /\ ~player'[x]
      BY DEF IdleInv
    <2>1. x # s /\ (x \in O \/ x \notin m_sessions) /\ (x \notin O => x \notin r.popped)
      BY <1>2, <1>4, <1>6
    <2> QED
      BY <1>4, <2>1 DEF TableInv, IdleInv
  <1>13. QueueInv'
    <2>1. Distinct(m_QueuedPlayer)'
      BY <1>8 DEF Distinct
    <2>2. Elements(m_QueuedPlayer') \subseteq m_sessions'
      BY <1>2, <1>4, <1>6, <1>8
    <2> QED
      BY <2>1, <2>2 DEF QueueInv, Elements
  <1>14. WaitInv'
    <2> SUFFICES ASSUME NEW x \in Elements(m_QueuedPlayer')
                 PROVE  /\ inQueue'[x] /\ ~initPending'[x] /\ ~loading'[x]
                        /\ ~charLogin'[x] /\ ~player'[x]
      BY DEF WaitInv, Elements
    <2>1. CASE x = s
      <3>1. Waits(s)
        BY <1>7, <1>8, <2>1
      <3> QED
        BY <1>1, <1>4, <1>7, <2>1, <3>1 DEF TableInv, IdleInv
    <2>2. CASE x # s
      <3>1. x \in Elements(q) /\ x \notin O /\ x \notin r.popped /\ x \in Sessions
        BY <1>2, <1>6, <1>8, <2>2
      <3> QED
        BY <1>4, <2>2, <3>1 DEF TableInv, WaitInv
    <2> QED
      BY <2>1, <2>2
  <1>15. ToldInv'
    <2>1. \A i \in 1 .. Len(r.queue) :
            /\ r.queue[i] \in Sessions /\ r.queue[i] # s /\ r.queue[i] \notin O
            /\ r.told[r.queue[i]] = i
      BY <1>2, <1>7, PlaceElement DEF Known
    <2>2. \A i \in 1 .. Len(r.queue) : told'[r.queue[i]] = i
      BY <1>4, <2>1
    <2>3. \A i \in 1 .. Len(m_QueuedPlayer') : told'[m_QueuedPlayer'[i]] = i
      <3>1. CASE Waits(s)
        <4>1. /\ Len(m_QueuedPlayer') = Len(r.queue) + 1
              /\ \A i \in 1 .. Len(r.queue) : m_QueuedPlayer'[i] = r.queue[i]
              /\ m_QueuedPlayer'[Len(r.queue) + 1] = s
          BY <1>1, <1>2, <1>4, <1>7, <3>1, AppendPlaces
        <4>2. told'[s] = Len(r.queue) + 1 /\ Len(r.queue) \in Nat
          BY <1>1, <1>2, <1>4, <3>1
        <4> QED
          BY <2>2, <4>1, <4>2
      <3>2. CASE ~Waits(s)
        BY <1>4, <2>2, <3>2
      <3> QED
        BY <3>1, <3>2
    <2> QED
      BY <1>9, <2>3 DEF ToldInv, Known, TypeOK
  <1>16. NoSecondCharacter'
    BY <1>4 DEF TableInv, NoSecondCharacter
  <1> QED
    BY <1>9, <1>10, <1>11, <1>12, <1>13, <1>14, <1>15, <1>16 DEF TableInv

-----------------------------------------------------------------------------
(* The end of an update.                                                    *)

\* The session stays.
LEMMA KeepStep ==
  ASSUME TableInv, NEW s \in Sessions, LeaveUpdate(s), KeepSession(s)
  PROVE  TableInv'
  <1>1. expire' \in [Sessions -> Nat]
    <2>1. expire \in [Sessions -> Nat]
      BY DEF TableInv, TypeOK
    <2>2. Expire(s) \in Nat
      BY <2>1 DEF KeepSession, Stays, Expire
    <2> QED
      BY <2>1, <2>2 DEF KeepSession
  <1>2. TypeOK'
    BY <1>1 DEF TableInv, TypeOK, LeaveUpdate, KeepSession, tableVars
  <1>3. todo' \subseteq m_sessions
    BY DEF TableInv, LifeInv, LeaveUpdate
  <1>4. LifeInv' /\ AccountInv' /\ QueueInv'
    BY <1>3, TableFrame DEF LeaveUpdate, KeepSession, tableVars
  <1>5. IdleInv' /\ WaitInv' /\ ToldInv' /\ NoSecondCharacter'
    BY FlagFrame DEF KeepSession, tableVars
  <1> QED
    BY <1>2, <1>4, <1>5 DEF TableInv

\* The two calls of RemoveQueuedPlayer in UpdateSessions for a session that
\* leaves.
FirstRemoval(s) ==
  RemoveQueuedPlayer(m_QueuedPlayer, Cardinality(m_sessions), s, told)
SecondRemoval(s) ==
  RemoveQueuedPlayer(FirstRemoval(s).queue, Cardinality(m_sessions), s,
                     FirstRemoval(s).told)

\* What they leave.
LEMMA DropRemoved ==
  ASSUME TableInv, NEW s \in m_sessions,
         NEW r1, r1 = FirstRemoval(s), NEW r2, r2 = SecondRemoval(s)
  PROVE  /\ Removed(m_QueuedPlayer, Cardinality(m_sessions), s, r1)
         /\ Removed(r1.queue, Cardinality(m_sessions), s, r2)
         /\ s \notin Elements(r1.queue)
         /\ r1.popped \cup r2.popped \subseteq Elements(m_QueuedPlayer) \ {s}
         /\ Elements(r2.queue) =
              Elements(m_QueuedPlayer) \ ({s} \cup r1.popped \cup r2.popped)
  <1> PICK q : q = m_QueuedPlayer
    OBVIOUS
  <1> PICK n : n = Cardinality(m_sessions)
    OBVIOUS
  <1>1. q \in Seq(Sessions) /\ Distinct(q) /\ Elements(q) \subseteq m_sessions
    BY DEF TableInv, TypeOK, QueueInv
  <1>2. Known(q, told) /\ m_playerLimit \in Nat /\ m_sessions \subseteq Sessions
    BY ConstantsAssumption DEF TableInv, TypeOK, ToldInv
  <1>3. Removed(q, n, s, r1)
    <2>1. r1 = RemoveQueuedPlayer(q, n, s, told)
      BY DEF FirstRemoval
    <2>2. n \in Nat /\ (s \notin Elements(q) => n - Len(q) > 0)
      BY <1>1, <1>2, CountActive
    <2> QED
      BY <1>1, <1>2, <2>1, <2>2, RemoveCorrect
  <1> PICK e : e = r1.queue
    OBVIOUS
  <1> PICK t : t = r1.told
    OBVIOUS
  <1>4. /\ e \in Seq(Sessions) /\ Distinct(e) /\ Known(e, t)
        /\ Elements(e) = Elements(q) \ ({s} \cup r1.popped)
        /\ r1.popped \subseteq Elements(q) \ {s}
    BY <1>3 DEF Removed
  <1>5. Removed(e, n, s, r2)
    <2>1. r2 = RemoveQueuedPlayer(e, n, s, t)
      BY DEF SecondRemoval
    <2>2. Elements(e) \subseteq m_sessions
      BY <1>1, <1>4
    <2>3. n \in Nat /\ (s \notin Elements(e) => n - Len(e) > 0)
      BY <1>2, <1>4, <2>2, CountActive
    <2> QED
      BY <1>2, <1>4, <2>1, <2>3, RemoveCorrect
  <1>6. /\ Elements(r2.queue) = Elements(e) \ ({s} \cup r2.popped)
        /\ r2.popped \subseteq Elements(e) \ {s}
    BY <1>5 DEF Removed
  <1>7. s \notin Elements(e)
    BY <1>4
  <1>8. /\ r1.popped \cup r2.popped \subseteq Elements(q) \ {s}
        /\ Elements(r2.queue) = Elements(q) \ ({s} \cup r1.popped \cup r2.popped)
    BY <1>4, <1>6
  <1> QED
    BY <1>3, <1>5, <1>7, <1>8

\* The session leaves.
LEMMA DropStep ==
  ASSUME TableInv, NEW s \in Sessions, LeaveUpdate(s), DropSession(s)
  PROVE  TableInv'
  <1> PICK r1 : r1 = FirstRemoval(s)
    OBVIOUS
  <1> PICK r2 : r2 = SecondRemoval(s)
    OBVIOUS
  <1> PICK q : q = m_QueuedPlayer
    OBVIOUS
  <1> PICK p : p = r1.popped \cup r2.popped
    OBVIOUS
  <1>1. s \in m_sessions
    BY DEF LeaveUpdate, Updating, TableInv, LifeInv
  <1>2. /\ r2.queue \in Seq(Sessions) /\ Distinct(r2.queue)
        /\ Known(r2.queue, r2.told)
    BY <1>1, DropRemoved DEF Removed
  <1>3. p \subseteq Elements(q) \ {s} /\ Elements(r2.queue) = Elements(q) \ ({s} \cup p)
    BY <1>1, DropRemoved
  <1>4. /\ m_sessions' = m_sessions \ {s}
        /\ m_QueuedPlayer' = r2.queue
        /\ m_disconnects' = IF ~r1.found /\ Tolerance > 0
                            THEN [m_disconnects EXCEPT ![AccountOf[s]] = now]
                            ELSE m_disconnects
        /\ life' = [life EXCEPT ![s] = "deleted"]
        /\ inQueue' = [inQueue EXCEPT ![s] = FALSE]
        /\ initPending' = [x \in Sessions |-> x # s /\ (x \in p \/ initPending[x])]
        /\ told' = [r2.told EXCEPT ![s] = 0]
        /\ forceExit' = [forceExit EXCEPT ![s] = FALSE]
        /\ loading' = [loading EXCEPT ![s] = FALSE]
        /\ charLogin' = [charLogin EXCEPT ![s] = FALSE]
        /\ player' = [player EXCEPT ![s] = FALSE]
        /\ expire' = [expire EXCEPT ![s] = ExpireTime]
        /\ UNCHANGED <<m_playerLimit, sockOpen>>
    BY DEF DropSession, FirstRemoval, SecondRemoval
  <1>5. todo' = todo \ {s} /\ UNCHANGED <<addSessQueue, phase, now>>
    BY DEF LeaveUpdate
  <1>6. /\ q \in Seq(Sessions) /\ Distinct(q) /\ Elements(q) \subseteq m_sessions
        /\ m_sessions \subseteq Sessions
    BY DEF TableInv, TypeOK, QueueInv
  <1>7. TypeOK'
    <2>1. told' \in [Sessions -> Nat]
      BY <1>2, <1>4 DEF Known
    <2>2. m_disconnects' \in [Accounts -> Nat \cup {NoTime}]
      BY <1>4 DEF TableInv, TypeOK
    <2>3. expire' \in [Sessions -> Nat]
      BY <1>4, ConstantsAssumption DEF TableInv, TypeOK
    <2>4. initPending' \in [Sessions -> BOOLEAN]
      BY <1>4 DEF TableInv, TypeOK
    <2>5. /\ life' \in [Sessions -> {"none", "new", "live", "deleted"}]
          /\ inQueue' \in [Sessions -> BOOLEAN]
          /\ forceExit' \in [Sessions -> BOOLEAN]
          /\ loading' \in [Sessions -> BOOLEAN]
          /\ charLogin' \in [Sessions -> BOOLEAN]
          /\ player' \in [Sessions -> BOOLEAN]
          /\ sockOpen' \in [Sessions -> BOOLEAN]
      BY <1>4 DEF TableInv, TypeOK
    <2>6. /\ addSessQueue' \in Seq(Sessions)
          /\ m_sessions' \subseteq Sessions /\ todo' \subseteq Sessions
          /\ m_QueuedPlayer' \in Seq(Sessions)
          /\ m_playerLimit' \in Limits
          /\ phase' \in {"idle", "add", "update"}
          /\ now' \in Nat
      BY <1>2, <1>4, <1>5 DEF TableInv, TypeOK
    <2> QED
      BY <2>1, <2>2, <2>3, <2>4, <2>5, <2>6 DEF TypeOK
  <1>8. LifeInv'
    <2>1. \A x \in Sessions : x \in m_sessions' <=> life'[x] = "live"
      BY <1>4 DEF TableInv, TypeOK, LifeInv
    <2>2. \A i \in 1 .. Len(addSessQueue) :
            addSessQueue[i] \in Sessions /\ life[addSessQueue[i]] = "new"
      BY PlaceElement DEF TableInv, TypeOK, LifeInv
    <2>3. \A i \in 1 .. Len(addSessQueue) : life'[addSessQueue[i]] = "new"
      BY <1>1, <1>4, <2>2 DEF TableInv, TypeOK, LifeInv
    <2>4. Distinct(addSessQueue)' /\ todo' \subseteq m_sessions'
      BY <1>4, <1>5 DEF TableInv, LifeInv, Distinct
    <2> QED
      BY <1>5, <2>1, <2>3, <2>4 DEF LifeInv
  <1>9. AccountInv'
    BY <1>4 DEF TableInv, AccountInv
  <1>10. IdleInv'
    <2> SUFFICES ASSUME NEW x \in Sessions, x \notin m_sessions'
                 PROVE  /\ ~inQueue'[x] /\ ~initPending'[x] /\ ~loading'[x]
                        /\ ~charLogin'[x] /\ ~player'[x]
      BY DEF IdleInv
    <2>1. x # s => x \notin m_sessions /\ x \notin p
      BY <1>3, <1>4, <1>6
    <2> QED
      BY <1>4, <2>1 DEF TableInv, TypeOK, IdleInv
  <1>11. QueueInv'
    <2>1. Distinct(m_QueuedPlayer)'
      BY <1>2, <1>4 DEF Distinct
    <2>2. Elements(m_QueuedPlayer') \subseteq m_sessions'
      BY <1>3, <1>4, <1>6
    <2> QED
      BY <2>1, <2>2 DEF QueueInv, Elements
  <1>12. WaitInv'
    <2> SUFFICES ASSUME NEW x \in Elements(m_QueuedPlayer')
                 PROVE  /\ inQueue'[x] /\ ~initPending'[x] /\ ~loading'[x]
                        /\ ~charLogin'[x] /\ ~player'[x]
      BY DEF WaitInv, Elements
    <2>1. x \in Elements(q) /\ x # s /\ x \notin p /\ x \in Sessions
      BY <1>3, <1>4, <1>6
    <2> QED
      BY <1>4, <2>1 DEF TableInv, TypeOK, WaitInv
  <1>13. ToldInv'
    <2>1. \A i \in 1 .. Len(r2.queue) :
            /\ r2.queue[i] \in Sessions /\ r2.queue[i] # s
            /\ r2.told[r2.queue[i]] = i
      BY <1>2, <1>3, PlaceElement DEF Known
    <2>2. r2.told \in [Sessions -> Nat]
      BY <1>2 DEF Known
    <2>3. \A i \in 1 .. Len(m_QueuedPlayer') : told'[m_QueuedPlayer'[i]] = i
      BY <1>4, <2>1, <2>2
    <2> QED
      BY <1>7, <2>3 DEF ToldInv, Known, TypeOK
  <1>14. NoSecondCharacter'
    BY <1>4 DEF TableInv, TypeOK, NoSecondCharacter
  <1> QED
    BY <1>7, <1>8, <1>9, <1>10, <1>11, <1>12, <1>13, <1>14 DEF TableInv
-----------------------------------------------------------------------------
(* The theorems.                                                            *)

\* The loop of UpdateSessions visits every session it began with.
LEMMA LoopStep == LoopInv /\ [Next]_vars => LoopInv'
  BY DEF LoopInv, Next, UpdateSessions, BeginUpdateSessions, AddSession_, BeginLoop,
         LeaveUpdate, EndLoop, AddSession, Disconnect, AbortLogin,
         ProcessLinkInstanceSocket, CloseIdle, HandlePlayerLoginOpcode,
         HandlePlayerLogin, LogoutPlayer, InitializeSessionCallback, Kick, Tick,
         KickAll, SetPlayerAmountLimit, Updating, vars

\* Every step keeps the invariant of the table.
LEMMA TableStep == TableInv /\ LoopInv /\ [Next]_vars => TableInv'
  <1> SUFFICES ASSUME TableInv, LoopInv, [Next]_vars
               PROVE  TableInv'
    OBVIOUS
  <1>1. CASE BeginUpdateSessions \/ BeginLoop \/ EndLoop \/ Tick \/ KickAll
    BY <1>1, BeginUpdateSessionsStep, BeginLoopStep, EndLoopStep, TickStep, KickAllStep
  <1>2. CASE AddSession_
    BY <1>2, RefuseStep, AcceptStep DEF AddSession_
  <1>3. CASE \E s \in Sessions : LeaveUpdate(s)
    BY <1>3, KeepStep, DropStep DEF LeaveUpdate
  <1>4. CASE \E s \in Sessions : AddSession(s) \/ Disconnect(s) \/ AbortLogin(s) \/ Kick(s)
    BY <1>4, AddSessionStep, DisconnectStep, AbortLoginStep, KickStep
  <1>5. CASE \E s \in Sessions : ProcessLinkInstanceSocket(s) \/ CloseIdle(s)
    BY <1>5, ProcessLinkInstanceSocketStep, CloseIdleStep
  <1>6. CASE \E s \in Sessions : \/ HandlePlayerLoginOpcode(s) \/ HandlePlayerLogin(s)
                                 \/ LogoutPlayer(s) \/ InitializeSessionCallback(s)
    BY <1>6, HandlePlayerLoginOpcodeStep, HandlePlayerLoginStep, LogoutPlayerStep,
       InitializeSessionCallbackStep
  <1>7. CASE \E n \in Limits : SetPlayerAmountLimit(n)
    BY <1>7, SetPlayerAmountLimitStep
  <1>8. CASE UNCHANGED vars
    <2>1. TypeOK'
      BY <1>8 DEF TableInv, TypeOK, vars, tableVars, sessionVars
    <2>2. todo' \subseteq m_sessions
      BY <1>8 DEF TableInv, LifeInv, vars, tableVars, sessionVars
    <2>3. LifeInv' /\ AccountInv' /\ QueueInv'
      BY <1>8, <2>2, TableFrame DEF vars, tableVars, sessionVars
    <2>4. IdleInv' /\ WaitInv' /\ ToldInv' /\ NoSecondCharacter'
      BY <1>8, FlagFrame DEF vars, tableVars, sessionVars
    <2> QED
      BY <2>1, <2>3, <2>4 DEF TableInv
  <1> QED
    BY <1>1, <1>2, <1>3, <1>4, <1>5, <1>6, <1>7, <1>8 DEF Next, UpdateSessions

\* The table and the queue stay consistent with each other and with the flags of
\* the sessions, whatever the network threads and the world thread do.
THEOREM TableInvariant == Spec => [](TableInv /\ LoopInv)
  <1>1. Init => TableInv /\ LoopInv
    BY InitTable DEF Init, LoopInv
  <1>2. TableInv /\ LoopInv /\ [Next]_vars => (TableInv /\ LoopInv)'
    BY TableStep, LoopStep
  <1> QED
    BY <1>1, <1>2, PTL DEF Spec

\* Every variable keeps its type.
THEOREM TypeCorrect == Spec => []TypeOK
  <1>1. TableInv => TypeOK
    BY DEF TableInv
  <1> QED
    BY <1>1, TableInvariant, PTL

\* World holds no pointer to a deleted session.
THEOREM NoDanglingHolds == Spec => []NoDanglingSession
  <1>1. ASSUME TableInv
        PROVE  NoDanglingSession
    <2>1. DOMAIN addSessQueue = 1 .. Len(addSessQueue)
      BY <1>1 DEF TableInv, TypeOK
    <2>2. Queued = Elements(m_QueuedPlayer)
      BY DEF Queued, Elements
    <2> QED
      BY <1>1, <2>1, <2>2 DEF TableInv, TypeOK, LifeInv, QueueInv, NoDanglingSession
  <1> QED
    BY <1>1, TableInvariant, PTL

\* GetActiveSessionCount does not wrap and is exact.
THEOREM ActiveCountHolds == Spec => []ActiveCountExact
  <1>1. ASSUME TableInv
        PROVE  ActiveCountExact
    <2>1. Active = m_sessions \ Elements(m_QueuedPlayer)
      BY DEF Active, Queued, Elements
    <2>2. Cardinality(m_sessions \ Elements(m_QueuedPlayer)) =
            Cardinality(m_sessions) - Len(m_QueuedPlayer)
      BY <1>1, CountActive DEF TableInv, TypeOK, QueueInv
    <2> QED
      BY <2>1, <2>2 DEF ActiveCountExact, GetActiveSessionCount
  <1> QED
    BY <1>1, TableInvariant, PTL

\* Every client in the queue was last told its present position.
THEOREM PositionsToldHolds == Spec => []PositionsTold
  <1>1. ASSUME TableInv
        PROVE  PositionsTold
    <2>1. DOMAIN m_QueuedPlayer = 1 .. Len(m_QueuedPlayer)
      BY <1>1 DEF TableInv, TypeOK
    <2> QED
      BY <1>1, <2>1 DEF TableInv, ToldInv, Known, PositionsTold
  <1> QED
    BY <1>1, TableInvariant, PTL

\* Who waits in the queue neither plays nor loads a character.
THEOREM QueuedNotPlayingHolds == Spec => []QueuedNotPlaying
  <1>1. TableInv => QueuedNotPlaying
    BY DEF TableInv, WaitInv, QueuedNotPlaying, Queued, Elements
  <1> QED
    BY <1>1, TableInvariant, PTL

\* No login callback runs for a session that has a character.
THEOREM NoSecondCharacterHolds == Spec => []NoSecondCharacter
  <1>1. TableInv => NoSecondCharacter
    BY DEF TableInv
  <1> QED
    BY <1>1, TableInvariant, PTL

-----------------------------------------------------------------------------
(* Admission.                                                               *)

\* The number of active sessions before and after a step.
LEMMA ActiveBefore ==
  ASSUME TableInv
  PROVE  /\ IsFiniteSet(Active) /\ Cardinality(Active) \in Nat
         /\ Cardinality(Active) = Cardinality(m_sessions) - Len(m_QueuedPlayer)
         /\ Cardinality(m_sessions) \in Nat /\ Len(m_QueuedPlayer) \in Nat
         /\ m_playerLimit \in Nat
  <1>1. Active = m_sessions \ Elements(m_QueuedPlayer)
    BY DEF Active, Queued, Elements
  <1>2. /\ IsFiniteSet(m_sessions \ Elements(m_QueuedPlayer))
        /\ Cardinality(m_sessions \ Elements(m_QueuedPlayer)) =
             Cardinality(m_sessions) - Len(m_QueuedPlayer)
        /\ Cardinality(m_sessions) \in Nat
    BY CountActive DEF TableInv, TypeOK, QueueInv
  <1>3. Cardinality(m_sessions \ Elements(m_QueuedPlayer)) \in Nat
    BY <1>2, FS_CardinalityType
  <1>4. Len(m_QueuedPlayer) \in Nat /\ m_playerLimit \in Nat
    BY ConstantsAssumption DEF TableInv, TypeOK
  <1> QED
    BY <1>1, <1>2, <1>3, <1>4

LEMMA ActiveAfter ==
  ASSUME TableInv'
  PROVE  /\ IsFiniteSet(Active') /\ Cardinality(Active') \in Nat
         /\ Cardinality(Active') = Cardinality(m_sessions') - Len(m_QueuedPlayer')
         /\ Cardinality(m_sessions') \in Nat /\ Len(m_QueuedPlayer') \in Nat
         /\ Active' = m_sessions' \ Elements(m_QueuedPlayer')
  <1>1. Active' = m_sessions' \ Elements(m_QueuedPlayer')
    BY DEF Active, Queued, Elements
  <1>2. /\ m_sessions' \in SUBSET Sessions /\ m_QueuedPlayer' \in Seq(Sessions)
        /\ Distinct(m_QueuedPlayer') /\ Elements(m_QueuedPlayer') \subseteq m_sessions'
    BY DEF TableInv, TypeOK, QueueInv, Distinct, Elements
  <1>3. /\ IsFiniteSet(m_sessions' \ Elements(m_QueuedPlayer'))
        /\ Cardinality(m_sessions' \ Elements(m_QueuedPlayer')) =
             Cardinality(m_sessions') - Len(m_QueuedPlayer')
        /\ Cardinality(m_sessions') \in Nat
    BY <1>2, CountActive
  <1>4. Cardinality(m_sessions' \ Elements(m_QueuedPlayer')) \in Nat
    BY <1>3, FS_CardinalityType
  <1>5. Len(m_QueuedPlayer') \in Nat
    BY <1>2
  <1> QED
    BY <1>1, <1>3, <1>4, <1>5

\* What both properties ask of a departure.
LEMMA DropCount ==
  ASSUME TableInv, TableInv', NEW s \in Sessions, LeaveUpdate(s), DropSession(s)
  PROVE  /\ Admitted # {} /\ m_playerLimit > 0 => Cardinality(Active') <= m_playerLimit
         /\ m_QueuedPlayer' # <<>> /\ Cardinality(Active') < Cardinality(Active)
              => Cardinality(Active') >= m_playerLimit
  <1> PICK r1 : r1 = FirstRemoval(s)
    OBVIOUS
  <1> PICK r2 : r2 = SecondRemoval(s)
    OBVIOUS
  <1> PICK q : q = m_QueuedPlayer
    OBVIOUS
  <1> PICK n : n = Cardinality(m_sessions)
    OBVIOUS
  <1> PICK a : a = Others(q, n, s)
    OBVIOUS
  <1> PICK b : b = Others(r1.queue, n, s)
    OBVIOUS
  <1> PICK l : l = Len(r2.queue)
    OBVIOUS
  <1>1. s \in m_sessions
    BY DEF LeaveUpdate, Updating, TableInv, LifeInv
  <1>2. /\ Removed(q, n, s, r1) /\ Removed(r1.queue, n, s, r2)
        /\ s \notin Elements(r1.queue)
    BY <1>1, DropRemoved
  <1>3. /\ m_sessions' = m_sessions \ {s}
        /\ m_QueuedPlayer' = r2.queue
        /\ initPending' = [x \in Sessions |->
                             x # s /\ (x \in r1.popped \cup r2.popped \/ initPending[x])]
    BY DEF DropSession, FirstRemoval, SecondRemoval
  <1>4. IsFiniteSet(m_sessions) /\ n \in Nat /\ Len(q) \in Nat /\ m_playerLimit \in Nat
    BY ActiveBefore, CountActive DEF TableInv, TypeOK, QueueInv
  <1>5. Cardinality(m_sessions') = n - 1
    BY <1>1, <1>3, <1>4, FS_RemoveElement
  <1>6. Cardinality(Active') = n - 1 - l /\ l \in Nat
    BY <1>3, <1>5, ActiveAfter
  <1>7. Cardinality(Active) = n - Len(q)
    BY ActiveBefore
  <1>8. a \in Int /\ (a = n - Len(q) \/ a = n - Len(q) - 1)
    BY <1>4 DEF Others
  <1>9. b = n - Len(r1.queue) - 1
    BY <1>2 DEF Others
  <1>10. \/ r1.popped = {} /\ b = a
         \/ r1.popped # {} /\ b = a + 1 /\ HasRoom(a)
    BY <1>2, <1>9 DEF Removed
  <1>11. \/ r2.popped = {} /\ n - l - 1 = b /\ (r2.queue = <<>> \/ ~HasRoom(b))
         \/ r2.popped # {} /\ n - l - 1 = b + 1 /\ HasRoom(b)
    BY <1>2 DEF Removed
  <1>12. n - l - 1 = n - 1 - l
    BY <1>4, <1>6
  <1>13. ASSUME Admitted # {}, m_playerLimit > 0
         PROVE  Cardinality(Active') <= m_playerLimit
    <2>1. r1.popped # {} \/ r2.popped # {}
      BY <1>3, <1>13 DEF Admitted
    <2>2. CASE r2.popped # {}
      BY <1>4, <1>6, <1>8, <1>10, <1>11, <1>12, <1>13, <2>2 DEF HasRoom
    <2>3. CASE r2.popped = {}
      BY <1>4, <1>6, <1>8, <1>10, <1>11, <1>12, <1>13, <2>1, <2>3 DEF HasRoom
    <2> QED
      BY <2>2, <2>3
  <1>14. ASSUME m_QueuedPlayer' # <<>>, Cardinality(Active') < Cardinality(Active)
         PROVE  Cardinality(Active') >= m_playerLimit
    <2>1. r2.popped = {} /\ r1.popped = {}
      BY <1>4, <1>6, <1>7, <1>8, <1>10, <1>11, <1>12, <1>14
    <2>2. ~HasRoom(b)
      BY <1>3, <1>11, <1>14, <2>1
    <2> QED
      BY <1>4, <1>6, <1>8, <1>10, <1>11, <1>12, <2>1, <2>2 DEF HasRoom
  <1> QED
    BY <1>13, <1>14
\* The sessions that may pass the player limit.
Free == {x \in Admitted : \/ AccountOf[x] \in SkipQueue
                          \/ HasRecentlyDisconnected(AccountOf[x])}

\* A session takes the place of another.
LEMMA SwapCount ==
  ASSUME NEW S, IsFiniteSet(S), NEW old \in S, NEW s, s \notin S
  PROVE  Cardinality((S \ {old}) \cup {s}) = Cardinality(S)
  <1> PICK n \in Nat : n = Cardinality(S)
    BY FS_CardinalityType
  <1> PICK T : T = S \ {old}
    OBVIOUS
  <1>1. IsFiniteSet(T) /\ Cardinality(T) = n - 1
    BY FS_RemoveElement
  <1>2. s \notin T
    OBVIOUS
  <1>3. Cardinality(T \cup {s}) = Cardinality(T) + 1
    BY <1>1, <1>2, FS_AddElement, Zenon
  <1>4. n - 1 + 1 = n
    OBVIOUS
  <1> QED
    BY <1>1, <1>3, <1>4

\* Somebody left and nobody was let in: of n sessions k waited and l wait, a
\* played without the one that left.
LEMMA LeftAlone ==
  ASSUME NEW n \in Int, NEW k \in Int, NEW l \in Int, NEW a \in Int,
         a = n - k \/ a = n - k - 1,
         n - l - 1 = a \/ n - l - 1 = a + 1
  PROVE  /\ ~(n - l < n - k)
         /\ n - (l + 1) < n - k => n - l - 1 = a /\ a # n - k
  OBVIOUS

\* What both properties ask of an arrival.
LEMMA AcceptCount ==
  ASSUME TableInv, TableInv', LoopInv, AddSession_, AcceptSession(Head(addSessQueue))
  PROVE  /\ Admitted \ Free # {} /\ m_playerLimit > 0
              => Cardinality(Active' \ Free) <= m_playerLimit
         /\ m_QueuedPlayer' # <<>> /\ Cardinality(Active') < Cardinality(Active)
              => Cardinality(Active') >= m_playerLimit
  <1> PICK s : s = Head(addSessQueue)
    OBVIOUS
  <1> PICK O : O = FindSession(AccountOf[s])
    OBVIOUS
  <1> PICK r : r = OldRemoval(s)
    OBVIOUS
  <1> PICK q : q = m_QueuedPlayer
    OBVIOUS
  <1> PICK n : n = Cardinality(m_sessions)
    OBVIOUS
  <1> PICK c : c = Cardinality(Listed(s))
    OBVIOUS
  <1> PICK l : l = Len(r.queue)
    OBVIOUS
  <1>1. s \in Sessions /\ s \notin m_sessions
    BY TakeNew DEF AddSession_
  <1>2. /\ r.queue \in Seq(Sessions)
        /\ O = {} => r.queue = q /\ r.popped = {} /\ ~r.found
        /\ \A old \in O : Removed(q, n, old, r)
        /\ Elements(r.queue) \subseteq Elements(q)
        /\ r.popped \subseteq Elements(q)
    BY <1>1, OldRemoved
  <1>3. /\ m_sessions' = Listed(s)
        /\ m_QueuedPlayer' = IF Waits(s) THEN Append(r.queue, s) ELSE r.queue
        /\ initPending' =
             [x \in Sessions |->
                x \notin O /\ (\/ x \in (IF Waits(s) THEN r.popped ELSE r.popped \cup {s})
                               \/ initPending[x])]
    BY AcceptEffect DEF Listed
  <1>4. IsFiniteSet(m_sessions) /\ n \in Nat /\ Len(q) \in Nat /\ m_playerLimit \in Nat
    BY ActiveBefore, CountActive DEF TableInv, TypeOK, QueueInv
  <1>5. Cardinality(Active) = n - Len(q)
    BY ActiveBefore
  <1>6. l \in Nat
    BY <1>2
  <1>7. c \in Nat /\ Cardinality(Active') = IF Waits(s) THEN c - (l + 1) ELSE c - l
    <2>1. Len(m_QueuedPlayer') = IF Waits(s) THEN l + 1 ELSE l
      BY <1>1, <1>2, <1>3
    <2> QED
      BY <1>3, <2>1, ActiveAfter
  <1>8. /\ O = {} => c = n + 1
        /\ \A old \in O : c = n
    <2>1. CASE O = {}
      <3>1. Listed(s) = m_sessions \cup {s}
        BY <2>1 DEF Listed
      <3> QED
        BY <1>1, <1>4, <2>1, <3>1, FS_AddElement
    <2>2. CASE O # {}
      <3> PICK old \in m_sessions : O = {old}
        BY <1>1, <2>2, OneOld
      <3>1. Listed(s) = (m_sessions \ {old}) \cup {s}
        BY DEF Listed
      <3>2. Cardinality((m_sessions \ {old}) \cup {s}) = n
        BY <1>1, <1>4, SwapCount
      <3> QED
        BY <2>2, <3>1, <3>2
    <2> QED
      BY <2>1, <2>2
  <1>9. Waits(s) => (IF r.found THEN c ELSE c - 1) >= m_playerLimit
    BY DEF Waits
  <1>10. ~Waits(s) => \/ ~(m_playerLimit > 0)
                      \/ ~((IF r.found THEN c ELSE c - 1) >= m_playerLimit)
                      \/ AccountOf[s] \in SkipQueue
                      \/ HasRecentlyDisconnected(AccountOf[s])
    BY DEF Waits
  <1>11. /\ Admitted \subseteq IF Waits(s) THEN r.popped ELSE r.popped \cup {s}
         /\ ~Waits(s) => s \in Admitted
    <2>1. ~initPending[s] /\ s \notin O
      BY <1>1 DEF TableInv, IdleInv, FindSession
    <2> QED
      BY <1>1, <1>3, <2>1 DEF Admitted
  <1>12. /\ IsFiniteSet(Active') /\ Cardinality(Active') \in Nat
         /\ ~Waits(s) => s \in Active'
    <2>1. s \notin Elements(r.queue)
      BY <1>1, <1>2 DEF TableInv, QueueInv
    <2>2. s \in Listed(s)
      BY DEF Listed
    <2> QED
      BY <1>3, <2>1, <2>2, ActiveAfter
  <1>13. ASSUME NEW S, S \subseteq Active'
         PROVE  Cardinality(S) \in Nat /\ Cardinality(S) <= Cardinality(Active')
    <2>1. IsFiniteSet(S) /\ Cardinality(S) <= Cardinality(Active')
      BY <1>12, <1>13, FS_Subset
    <2> QED
      BY <2>1, FS_CardinalityType
  <1>14. ASSUME Admitted \ Free # {}, m_playerLimit > 0
         PROVE  Cardinality(Active' \ Free) <= m_playerLimit
    <2>1. /\ Cardinality(Active' \ Free) \in Nat
          /\ Cardinality(Active' \ Free) <= Cardinality(Active')
      BY <1>13
    <2>2. CASE ~Waits(s) /\ s \notin Free
      <3>1. c <= m_playerLimit
        <4>1. ~((IF r.found THEN c ELSE c - 1) >= m_playerLimit)
          BY <1>10, <1>11, <1>14, <2>2 DEF Free
        <4> QED
          BY <1>4, <1>7, <4>1
      <3> QED
        BY <1>4, <1>6, <1>7, <1>12, <2>1, <2>2, <3>1
    <2>3. CASE Waits(s) \/ s \in Free
      <3>1. r.popped # {}
        BY <1>11, <1>14, <2>3
      <3> PICK old \in O : Removed(q, n, old, r) /\ c = n
        BY <1>2, <1>8, <3>1
      <3>2. n - l - 1 <= m_playerLimit
        <4>1. n - l - 1 = Others(q, n, old) + 1 /\ HasRoom(Others(q, n, old))
          BY <3>1 DEF Removed
        <4>2. Others(q, n, old) \in Int
          BY <1>4 DEF Others
        <4> QED
          BY <1>4, <1>14, <4>1, <4>2 DEF HasRoom
      <3>3. CASE Waits(s)
        BY <1>4, <1>6, <1>7, <1>12, <2>1, <3>2, <3>3
      <3>4. CASE ~Waits(s)
        <4>1. s \in Free /\ s \in Active'
          BY <1>12, <2>3, <3>4
        <4>2. IsFiniteSet(Active' \ {s}) /\ Cardinality(Active' \ {s}) = Cardinality(Active') - 1
          BY <1>12, <4>1, FS_RemoveElement
        <4>3. Active' \ Free \subseteq Active' \ {s}
          BY <4>1
        <4>4. Cardinality(Active' \ Free) <= Cardinality(Active' \ {s})
          BY <4>2, <4>3, FS_Subset
        <4> QED
          BY <1>4, <1>6, <1>7, <1>12, <2>1, <3>2, <3>4, <4>2, <4>4
      <3> QED
        BY <3>3, <3>4
    <2> QED
      BY <2>2, <2>3
  <1>15. ASSUME m_QueuedPlayer' # <<>>, Cardinality(Active') < Cardinality(Active)
         PROVE  Cardinality(Active') >= m_playerLimit
    <2>1. O # {}
      BY <1>2, <1>4, <1>5, <1>7, <1>8, <1>15
    <2> PICK old \in O : Removed(q, n, old, r) /\ c = n
      BY <1>2, <1>8, <2>1
    <2> PICK a : a = Others(q, n, old)
      OBVIOUS
    <2>2. /\ a \in Int
          /\ a = n - Len(q) \/ a = n - Len(q) - 1
          /\ ~r.found => a = n - Len(q) - 1
          /\ r.found => a = n - Len(q)
      BY <1>4 DEF Others, Removed
    <2>3. \/ n - l - 1 = a /\ (r.queue = <<>> \/ ~HasRoom(a))
          \/ n - l - 1 = a + 1
      BY DEF Removed
    <2>4. Waits(s) /\ n - l - 1 = a /\ ~r.found
      <3>1. /\ ~(n - l < n - Len(q))
            /\ n - (l + 1) < n - Len(q) => n - l - 1 = a /\ a # n - Len(q)
        <4>1. n \in Int /\ Len(q) \in Int /\ l \in Int
          BY <1>4, <1>6
        <4> QED
          BY <2>2, <2>3, <4>1, LeftAlone
      <3>2. Cardinality(Active') < n - Len(q)
        BY <1>5, <1>15
      <3>3. Cardinality(Active') = IF Waits(s) THEN n - (l + 1) ELSE n - l
        BY <1>7
      <3> QED
        BY <2>2, <3>1, <3>2, <3>3
    <2>5. Cardinality(Active') = a
      BY <1>4, <1>6, <1>7, <2>4
    <2>6. CASE r.queue = <<>>
      <3>1. l = 0
        BY <2>6
      <3>2. c - 1 >= m_playerLimit
        BY <1>9, <2>4
      <3> QED
        BY <1>4, <2>4, <2>5, <3>1, <3>2
    <2>7. CASE ~HasRoom(a)
      BY <1>4, <2>2, <2>5, <2>7 DEF HasRoom
    <2> QED
      BY <1>4, <1>6, <2>2, <2>3, <2>4, <2>6, <2>7
  <1> QED
    BY <1>14, <1>15

\* Every other step lets nobody in and leaves the number of players alone, or
\* empties the queue.
LEMMA OtherCount ==
  ASSUME TableInv, [Next]_vars,
         ~(AddSession_ /\ AcceptSession(Head(addSessQueue))),
         ~\E s \in Sessions : LeaveUpdate(s) /\ DropSession(s)
  PROVE  /\ Admitted = {}
         /\ m_QueuedPlayer' = <<>> \/ Active' = Active
  <1>1. CASE UNCHANGED <<initPending, m_sessions, m_QueuedPlayer>>
    BY <1>1 DEF Admitted, Active, Queued
  <1>2. CASE BeginUpdateSessions \/ BeginLoop \/ EndLoop \/ Tick
    BY <1>1, <1>2 DEF BeginUpdateSessions, BeginLoop, EndLoop, Tick, tableVars, sessionVars
  <1>3. CASE KickAll
    BY <1>3 DEF KickAll, Admitted
  <1>4. CASE AddSession_
    BY <1>1, <1>4 DEF AddSession_, RefuseSession, tableVars
  <1>5. CASE \E s \in Sessions : LeaveUpdate(s)
    BY <1>1, <1>5 DEF LeaveUpdate, KeepSession, tableVars
  <1>6. CASE \E s \in Sessions : \/ AddSession(s) \/ Disconnect(s) \/ AbortLogin(s)
                                 \/ Kick(s) \/ ProcessLinkInstanceSocket(s)
                                 \/ CloseIdle(s)
    BY <1>1, <1>6 DEF AddSession, Disconnect, AbortLogin, Kick,
       ProcessLinkInstanceSocket, CloseIdle, tableVars
  <1>7. CASE \E s \in Sessions : \/ HandlePlayerLoginOpcode(s) \/ HandlePlayerLogin(s)
                                 \/ LogoutPlayer(s)
    BY <1>1, <1>7 DEF HandlePlayerLoginOpcode, HandlePlayerLogin, LogoutPlayer, tableVars
  <1>8. CASE \E s \in Sessions : InitializeSessionCallback(s)
    BY <1>8 DEF InitializeSessionCallback, tableVars, Admitted, Active, Queued,
       TableInv, TypeOK
  <1>9. CASE \E n \in Limits : SetPlayerAmountLimit(n)
    BY <1>1, <1>9 DEF SetPlayerAmountLimit, sessionVars
  <1>10. CASE UNCHANGED vars
    BY <1>1, <1>10 DEF vars, tableVars, sessionVars
  <1> QED
    BY <1>2, <1>3, <1>4, <1>5, <1>6, <1>7, <1>8, <1>9, <1>10 DEF Next, UpdateSessions

\* A session that has no right to pass the queue is let in only below the player
\* limit.
THEOREM AdmissionHolds == Spec => AdmissionWithinLimit
  <1>1. ASSUME TableInv, LoopInv, TableInv', [Next]_vars,
               Admitted \ Free # {}, m_playerLimit > 0
        PROVE  Cardinality(Active' \ Free) <= m_playerLimit
    <2>1. CASE AddSession_ /\ AcceptSession(Head(addSessQueue))
      BY <1>1, <2>1, AcceptCount
    <2>2. CASE \E s \in Sessions : LeaveUpdate(s) /\ DropSession(s)
      <3>1. Cardinality(Active') <= m_playerLimit
        BY <1>1, <2>2, DropCount
      <3>2. IsFiniteSet(Active') /\ Cardinality(Active') \in Nat
        BY <1>1, ActiveAfter
      <3>3. IsFiniteSet(Active' \ Free) /\ Cardinality(Active' \ Free) <= Cardinality(Active')
        BY <3>2, FS_Subset
      <3>4. Cardinality(Active' \ Free) \in Nat /\ m_playerLimit \in Nat
        BY <1>1, <3>3, FS_CardinalityType, ActiveBefore
      <3> QED
        BY <3>1, <3>2, <3>3, <3>4
    <2> QED
      BY <1>1, <2>1, <2>2, OtherCount
  <1>2. TableInv /\ LoopInv /\ (TableInv /\ LoopInv)' /\ [Next]_vars =>
          [LET free == {s \in Admitted : \/ AccountOf[s] \in SkipQueue
                                         \/ HasRecentlyDisconnected(AccountOf[s])}
           IN Admitted \ free # {} /\ m_playerLimit > 0
                => Cardinality(Active' \ free) <= m_playerLimit]_vars
    BY <1>1 DEF Free
  <1> QED
    BY <1>2, TableInvariant, PTL DEF Spec, AdmissionWithinLimit

\* A place that becomes free while somebody waits is handed on in the same step,
\* unless the limit is still met.
THEOREM NoIdleSlotHolds == Spec => NoIdleSlot
  <1>1. ASSUME TableInv, LoopInv, TableInv', [Next]_vars,
               m_QueuedPlayer' # <<>>, Cardinality(Active') < Cardinality(Active)
        PROVE  Cardinality(Active') >= m_playerLimit
    <2>1. CASE AddSession_ /\ AcceptSession(Head(addSessQueue))
      BY <1>1, <2>1, AcceptCount
    <2>2. CASE \E s \in Sessions : LeaveUpdate(s) /\ DropSession(s)
      BY <1>1, <2>2, DropCount
    <2>3. Cardinality(Active) \in Nat
      BY <1>1, ActiveBefore
    <2> QED
      BY <1>1, <2>1, <2>2, <2>3, OtherCount
  <1>2. TableInv /\ LoopInv /\ (TableInv /\ LoopInv)' /\ [Next]_vars =>
          [m_QueuedPlayer' # <<>> /\ Cardinality(Active') < Cardinality(Active)
             => Cardinality(Active') >= m_playerLimit]_vars
    BY <1>1
  <1> QED
    BY <1>2, TableInvariant, PTL DEF Spec, NoIdleSlot
=============================================================================
