------------------------- MODULE NetworkThreadProofs ------------------------
(* Proofs about NetworkThread, for any finite set of sockets and any number *)
(* of packets and of writes a message takes.                                *)
EXTENDS NetworkThread, FiniteSetTheorems, TLAPS

\* Update visits sockets that it holds, and it is at one of them while it
\* writes or runs callbacks.
VisitInv ==
  /\ \A s \in todo : place[s] = "active"
  /\ phase \in {"idle", "exited"} => todo = {}
  /\ phase \in {"write", "callbacks"} => todo # {}

\* HandleQueue is called by Update only on a queue that is not empty and that
\* no asynchronous write is working on.
WriterInv ==
  phase = "write" => _writeQueue[Current] # <<>> /\ ~_isWritingAsync[Current]

\* Nothing has happened to a socket that was not accepted yet.
FreshInv ==
  \A s \in Sockets : place[s] = "none" =>
    _writeQueue[s] = <<>> /\ ~dropped[s] /\ handshake[s] = "none"

\* Only a socket whose client is known or refused is marked for closing.
ClosingInv == \A s \in Sockets : _closing[s] => handshake[s] \in {"known", "refused"}

\* Between the test of _closed and the callbacks nobody closes a socket that
\* waits for its permissions.
VisitedOpen ==
  phase \in {"write", "callbacks"} /\ handshake[Current] = "permissions"
    => ~_closed[Current]

\* The inductive invariant of the thread.
NetInv ==
  /\ TypeOK
  /\ ConnectionsExact
  /\ VisitInv
  /\ OneAsyncWrite
  /\ WriterInv
  /\ FreshInv
  /\ NoSilentDrop
  /\ ClosingInv
  /\ VisitedOpen

Held == {s \in Sockets : place[s] \in {"new", "active"}}

-----------------------------------------------------------------------------
\* The sockets a thread holds can be counted.
LEMMA HeldFinite ==
  /\ IsFiniteSet(Sockets)
  /\ \A S \in SUBSET Sockets : IsFiniteSet(S) /\ Cardinality(S) \in Nat
  BY ConstantsAssumption, FS_Subset, FS_CardinalityType

\* The loop of Update stands at a socket that it has still to finish.
LEMMA CurrentVisited ==
  ASSUME todo # {}
  PROVE  Current \in todo
  BY DEF Current

\* A queue that grows at its end.
LEMMA QueueGrows ==
  ASSUME NEW S, NEW q \in Seq(S), NEW k \in S
  PROVE  Append(q, k) \in Seq(S)
  OBVIOUS

\* A queue with a front.
LEMMA FrontAndRest ==
  ASSUME NEW S, NEW q \in Seq(S), q # <<>>
  PROVE  /\ Head(q) \in S
         /\ Tail(q) \in Seq(S)
         /\ \A k \in S : <<k>> \o Tail(q) \in Seq(S)
  OBVIOUS

\* What a call of HandleQueue may do to a queue that is not empty: the loop
\* goes on only with a rest that can be written, and a message is lost only on
\* a socket that is broken or closed.
LEMMA HandleQueueOutcome ==
  ASSUME TypeOK, NEW s \in Sockets, _writeQueue[s] # <<>>, NEW r \in HandleQueue(s)
  PROVE  /\ r.queue \in Seq(1 .. MaxParts)
         /\ r.async \in BOOLEAN
         /\ r.lost \in BOOLEAN
         /\ r.again => r.queue # <<>> /\ ~r.async
         /\ r.lost => ~peerUp[s] \/ _closed[s]
  <1> DEFINE q == _writeQueue[s]
  <1>1. q \in Seq(1 .. MaxParts)
    BY DEF TypeOK
  <1>2. /\ Head(q) \in 1 .. MaxParts
        /\ Tail(q) \in Seq(1 .. MaxParts)
        /\ \A k \in 1 .. MaxParts : <<k>> \o Tail(q) \in Seq(1 .. MaxParts)
    BY <1>1, FrontAndRest
  <1>3. MaxParts \in Nat
    BY ConstantsAssumption
  <1>4. \/ r = Pop(s, FALSE)
        \/ r = Pop(s, TRUE) /\ (~peerUp[s] \/ _closed[s])
        \/ \E k \in 1 .. MaxParts : r = Block(s, k)
    <2>1. CASE ~peerUp[s] \/ _closed[s]
      BY <2>1 DEF HandleQueue
    <2>2. CASE ~(~peerUp[s] \/ _closed[s])
      <3>1. \/ r = Pop(s, FALSE)
            \/ r = Block(s, Head(q))
            \/ \E k \in 1 .. (Head(q) - 1) : r = Block(s, k)
        BY <2>2 DEF HandleQueue
      <3>2. 1 .. (Head(q) - 1) \subseteq 1 .. MaxParts
        BY <1>2, <1>3
      <3> QED
        BY <1>2, <3>1, <3>2, Zenon
    <2> QED
      BY <2>1, <2>2
  <1> HIDE DEF q
  <1>5. CASE r = Pop(s, FALSE)
    BY <1>2, <1>5 DEF Pop, q
  <1>6. CASE r = Pop(s, TRUE) /\ (~peerUp[s] \/ _closed[s])
    BY <1>2, <1>6 DEF Pop, q
  <1>7. ASSUME NEW k \in 1 .. MaxParts, r = Block(s, k)
        PROVE  /\ r.queue \in Seq(1 .. MaxParts)
               /\ r.async \in BOOLEAN
               /\ r.lost \in BOOLEAN
               /\ r.again => r.queue # <<>> /\ ~r.async
               /\ r.lost => ~peerUp[s] \/ _closed[s]
    BY <1>2, <1>7 DEF Block, q
  <1> QED
    BY <1>4, <1>5, <1>6, <1>7

\* A call of HandleQueue that starts with no write outstanding keeps the types
\* and the facts about each socket.
LEMMA ApplyKeeps ==
  ASSUME NetInv, NEW s \in Sockets, _writeQueue[s] # <<>>,
         NEW r \in HandleQueue(s), ApplyHandleQueue(s, r, 0),
         UNCHANGED <<place, _connections, _stopped, todo>>,
         phase' \in {"idle", "collect", "write", "callbacks", "exited"}
  PROVE  /\ TypeOK' /\ OneAsyncWrite' /\ FreshInv' /\ NoSilentDrop' /\ ClosingInv'
         /\ \A t \in Sockets : handshake[t] = "permissions" => _closed'[t] = _closed[t]
         /\ _writeQueue'[s] = r.queue
         /\ _isWritingAsync'[s] = r.async
  <1>1. /\ r.queue \in Seq(1 .. MaxParts)
        /\ r.async \in BOOLEAN
        /\ r.lost \in BOOLEAN
        /\ r.lost => ~peerUp[s] \/ _closed[s]
    BY HandleQueueOutcome DEF NetInv
  <1>2. /\ _writeQueue' = [_writeQueue EXCEPT ![s] = r.queue]
        /\ _isWritingAsync' = [_isWritingAsync EXCEPT ![s] = r.async]
        /\ writeOps' = [writeOps EXCEPT ![s] = IF r.async THEN 1 ELSE 0]
        /\ dropped' = [dropped EXCEPT ![s] = @ \/ r.lost]
        /\ _closed' = [_closed EXCEPT ![s] = @ \/ ClosesWhenDone(s, r)]
        /\ UNCHANGED <<_closing, _bufferQueue, packets, reading, handshake, peerUp>>
    BY DEF ApplyHandleQueue, Set
  <1>3. ClosesWhenDone(s, r) \in BOOLEAN /\ (ClosesWhenDone(s, r) => _closing[s])
    BY DEF ClosesWhenDone, NetInv, TypeOK
  <1>4. TypeOK'
    BY <1>1, <1>2, <1>3 DEF NetInv, TypeOK
  <1>5. OneAsyncWrite'
    BY <1>1, <1>2 DEF NetInv, TypeOK, OneAsyncWrite
  <1>6. NoSilentDrop' /\ ClosingInv'
    BY <1>1, <1>2, <1>3 DEF NetInv, TypeOK, NoSilentDrop, ClosingInv
  <1>7. \A t \in Sockets : handshake[t] = "permissions" => _closed'[t] = _closed[t]
    BY <1>2, <1>3 DEF NetInv, TypeOK, ClosingInv
  <1>8. FreshInv'
    BY <1>1, <1>2 DEF NetInv, TypeOK, FreshInv
  <1> QED
    BY <1>1, <1>2, <1>4, <1>5, <1>6, <1>7, <1>8 DEF NetInv, TypeOK

-----------------------------------------------------------------------------
\* The thread starts without sockets.
LEMMA InitInv ==
  ASSUME Init
  PROVE  NetInv
  <1>1. TypeOK
    <2>1. <<>> \in Seq(1 .. MaxParts)
      OBVIOUS
    <2>2. _writeQueue \in [Sockets -> Seq(1 .. MaxParts)]
      BY <2>1 DEF Init
    <2>3. /\ todo \subseteq Sockets
          /\ _connections \in Nat
          /\ writeOps \in [Sockets -> Nat]
          /\ _bufferQueue \in [Sockets -> Nat]
          /\ packets \in [Sockets -> Nat]
      BY DEF Init
    <2>4. /\ _closed \in [Sockets -> BOOLEAN]
          /\ _closing \in [Sockets -> BOOLEAN]
          /\ _isWritingAsync \in [Sockets -> BOOLEAN]
          /\ dropped \in [Sockets -> BOOLEAN]
          /\ reading \in [Sockets -> BOOLEAN]
          /\ peerUp \in [Sockets -> BOOLEAN]
          /\ _stopped \in BOOLEAN
      BY DEF Init
    <2> QED
      BY <2>2, <2>3, <2>4 DEF Init, TypeOK
  <1>2. ConnectionsExact
    <2>1. {s \in Sockets : place[s] \in {"new", "active"}} = {}
      BY DEF Init
    <2> QED
      BY <2>1, FS_EmptySet DEF Init, ConnectionsExact
  <1>3. VisitInv /\ WriterInv /\ VisitedOpen
    BY DEF Init, VisitInv, WriterInv, VisitedOpen
  <1>4. OneAsyncWrite /\ FreshInv /\ NoSilentDrop /\ ClosingInv
    BY DEF Init, OneAsyncWrite, FreshInv, NoSilentDrop, ClosingInv
  <1> QED
    BY <1>1, <1>2, <1>3, <1>4 DEF NetInv

\* AddSocket counts the socket it adds.
LEMMA AddSocketInv ==
  ASSUME NetInv, NEW s \in Sockets, AddSocket(s)
  PROVE  NetInv'
  <1>1. /\ place[s] = "none"
        /\ place' = [place EXCEPT ![s] = "new"]
        /\ _connections' = _connections + 1
        /\ handshake' = [handshake EXCEPT ![s] = "checkIp"]
        /\ peerUp' = [peerUp EXCEPT ![s] = TRUE]
        /\ UNCHANGED <<_stopped, phase, todo, _closed, _closing, _isWritingAsync,
                       writeOps, _bufferQueue, _writeQueue, packets, dropped, reading>>
    BY DEF AddSocket, Set
  <1>2. Current' = Current
    BY <1>1 DEF Current
  <1>3. phase \in {"write", "callbacks"} => Current \in todo
    BY CurrentVisited DEF NetInv, VisitInv
  <1>4. s \notin todo
    BY <1>1 DEF NetInv, VisitInv
  <1>5. TypeOK'
    BY <1>1 DEF NetInv, TypeOK
  <1>6. ConnectionsExact'
    <2>1. Held' = Held \cup {s} /\ s \notin Held /\ Held \subseteq Sockets
      BY <1>1 DEF Held, NetInv, TypeOK
    <2>2. Cardinality(Held') = Cardinality(Held) + 1
      BY <2>1, HeldFinite, FS_AddElement
    <2> QED
      BY <1>1, <2>2 DEF NetInv, ConnectionsExact, Held
  <1>7. VisitInv' /\ FreshInv' /\ NoSilentDrop' /\ OneAsyncWrite'
    BY <1>1, <1>4
    DEF NetInv, TypeOK, VisitInv, FreshInv, NoSilentDrop, OneAsyncWrite
  <1>8. ClosingInv'
    <2>1. ~_closing[s]
      BY <1>1 DEF NetInv, TypeOK, ClosingInv, FreshInv
    <2> QED
      BY <1>1, <2>1 DEF NetInv, TypeOK, ClosingInv
  <1>9. WriterInv' /\ VisitedOpen'
    BY <1>1, <1>2, <1>3, <1>4 DEF NetInv, TypeOK, WriterInv, VisitedOpen
  <1> QED
    BY <1>5, <1>6, <1>7, <1>8, <1>9 DEF NetInv

\* SendPacket only adds to _bufferQueue.
LEMMA SendPacketInv ==
  ASSUME NetInv, NEW s \in Sockets, SendPacket(s)
  PROVE  NetInv'
  <1>1. TypeOK'
    BY DEF SendPacket, NetInv, TypeOK
  <1>2. ConnectionsExact'
    BY DEF SendPacket, NetInv, ConnectionsExact
  <1>3. Current' = Current
    BY DEF SendPacket, Current
  <1> QED
    BY <1>1, <1>2, <1>3
    DEF SendPacket, NetInv, VisitInv, OneAsyncWrite, WriterInv, FreshInv,
        NoSilentDrop, ClosingInv, VisitedOpen

\* The world thread closes only a socket whose client is known, so it never
\* closes one that waits for its permissions.
LEMMA CloseSocketInv ==
  ASSUME NetInv, NEW s \in Sockets, CloseSocket(s)
  PROVE  NetInv'
  <1>1. _closed' = [_closed EXCEPT ![s] = TRUE] /\ handshake[s] = "known"
    BY DEF CloseSocket, Set
  <1>2. TypeOK'
    BY <1>1 DEF CloseSocket, NetInv, TypeOK
  <1>3. ConnectionsExact'
    BY DEF CloseSocket, NetInv, ConnectionsExact
  <1>4. Current' = Current
    BY DEF CloseSocket, Current
  <1>5. phase \in {"write", "callbacks"} => Current \in Sockets
    BY CurrentVisited DEF NetInv, VisitInv, TypeOK
  <1>6. VisitedOpen' /\ NoSilentDrop'
    BY <1>1, <1>4, <1>5
    DEF CloseSocket, NetInv, TypeOK, VisitedOpen, NoSilentDrop
  <1> QED
    BY <1>2, <1>3, <1>4, <1>6
    DEF CloseSocket, NetInv, VisitInv, OneAsyncWrite, WriterInv, FreshInv, ClosingInv

\* DelayedCloseSocket marks a socket whose client is known.
LEMMA DelayedCloseSocketInv ==
  ASSUME NetInv, NEW s \in Sockets, DelayedCloseSocket(s)
  PROVE  NetInv'
  <1>1. _closing' = [_closing EXCEPT ![s] = TRUE] /\ handshake[s] = "known"
    BY DEF DelayedCloseSocket, Set
  <1>2. TypeOK' /\ ClosingInv'
    BY <1>1 DEF DelayedCloseSocket, NetInv, TypeOK, ClosingInv
  <1>3. ConnectionsExact'
    BY DEF DelayedCloseSocket, NetInv, ConnectionsExact
  <1>4. Current' = Current
    BY DEF DelayedCloseSocket, Current
  <1> QED
    BY <1>2, <1>3, <1>4
    DEF DelayedCloseSocket, NetInv, VisitInv, OneAsyncWrite, WriterInv, FreshInv,
        NoSilentDrop, VisitedOpen

\* A connection that breaks only excuses what was dropped.
LEMMA BreakInv ==
  ASSUME NetInv, NEW s \in Sockets, Break(s)
  PROVE  NetInv'
  <1>1. peerUp' = [peerUp EXCEPT ![s] = FALSE]
    BY DEF Break, Set
  <1>2. TypeOK' /\ NoSilentDrop'
    BY <1>1 DEF Break, NetInv, TypeOK, NoSilentDrop
  <1>3. ConnectionsExact'
    BY DEF Break, NetInv, ConnectionsExact
  <1>4. Current' = Current
    BY DEF Break, Current
  <1> QED
    BY <1>2, <1>3, <1>4
    DEF Break, NetInv, VisitInv, OneAsyncWrite, WriterInv, FreshInv, ClosingInv,
        VisitedOpen

\* Stop leaves the sockets alone.
LEMMA StopInv ==
  ASSUME NetInv, Stop
  PROVE  NetInv'
  <1>1. TypeOK' /\ ConnectionsExact'
    BY DEF Stop, socketVars, NetInv, TypeOK, ConnectionsExact
  <1>2. Current' = Current
    BY DEF Stop, Current
  <1> QED
    BY <1>1, <1>2
    DEF Stop, socketVars, NetInv, VisitInv, OneAsyncWrite, WriterInv, FreshInv,
        NoSilentDrop, ClosingInv, VisitedOpen

-----------------------------------------------------------------------------
\* AddNewSockets takes over the open new sockets and uncounts the others.
LEMMA BeginUpdateInv ==
  ASSUME NetInv, BeginUpdate
  PROVE  NetInv'
  <1> DEFINE new == {s \in Sockets : place[s] = "new"}
             entered == {s \in new : IsOpen(s)}
  <1>1. /\ phase = "idle"
        /\ place' = [s \in Sockets |-> IF s \in entered THEN "active"
                                       ELSE IF s \in new THEN "removed"
                                       ELSE place[s]]
        /\ _connections' = _connections - Cardinality(new \ entered)
        /\ todo' = {s \in Sockets : place'[s] = "active"}
        /\ phase' = "collect"
        /\ UNCHANGED <<_stopped, socketVars>>
    BY DEF BeginUpdate
  <1>2. /\ Held \subseteq Sockets
        /\ new \ entered \subseteq Held
        /\ Held' = Held \ (new \ entered)
    BY <1>1 DEF Held, NetInv, TypeOK
  <1>3. /\ Cardinality(Held') = Cardinality(Held) - Cardinality(new \ entered)
        /\ Cardinality(Held') \in Nat
    <2>1. IsFiniteSet(Held) /\ IsFiniteSet(Held')
      BY <1>2, HeldFinite
    <2>2. Held \cap (new \ entered) = new \ entered
      BY <1>2
    <2>3. Cardinality(Held \ (new \ entered))
            = Cardinality(Held) - Cardinality(Held \cap (new \ entered))
      BY <2>1, FS_Difference, Zenon
    <2>4. Cardinality(Held') \in Nat
      BY <2>1, FS_CardinalityType, Zenon
    <2> HIDE DEF new, entered
    <2> QED
      BY <1>2, <2>2, <2>3, <2>4
  <1>4. _connections = Cardinality(Held)
    BY <1>1 DEF Held, NetInv, ConnectionsExact
  <1>5. ConnectionsExact'
    BY <1>1, <1>3, <1>4 DEF ConnectionsExact, Held
  <1>6. TypeOK'
    <2>1. _connections' \in Nat
      BY <1>1, <1>3, <1>4
    <2>2. place' \in [Sockets -> {"none", "new", "active", "removed"}]
      BY <1>1 DEF NetInv, TypeOK
    <2>3. todo' \subseteq Sockets
      BY <1>1
    <2> QED
      BY <1>1, <2>1, <2>2, <2>3 DEF NetInv, TypeOK, socketVars
  <1>7. VisitInv' /\ WriterInv' /\ VisitedOpen'
    BY <1>1 DEF VisitInv, WriterInv, VisitedOpen
  <1>8. FreshInv'
    BY <1>1 DEF NetInv, FreshInv, socketVars
  <1> QED
    BY <1>1, <1>5, <1>6, <1>7, <1>8
    DEF NetInv, OneAsyncWrite, NoSilentDrop, ClosingInv, socketVars

\* The loop ends when every socket was visited.
LEMMA EndUpdateInv ==
  ASSUME NetInv, EndUpdate
  PROVE  NetInv'
  <1>1. TypeOK' /\ ConnectionsExact'
    BY DEF EndUpdate, socketVars, NetInv, TypeOK, ConnectionsExact
  <1> QED
    BY <1>1
    DEF EndUpdate, socketVars, NetInv, VisitInv, OneAsyncWrite, WriterInv, FreshInv,
        NoSilentDrop, ClosingInv, VisitedOpen

\* Collecting the packets, and removing a closed socket.
LEMMA UpdateInv ==
  ASSUME NetInv, Update
  PROVE  NetInv'
  <1> DEFINE s == Current
  <1>1. /\ phase = "collect"
        /\ todo # {}
        /\ _bufferQueue' = [_bufferQueue EXCEPT ![s] = 0]
        /\ UNCHANGED <<_stopped, _closed, _closing, _isWritingAsync, writeOps,
                       packets, dropped, reading, handshake, peerUp>>
    BY DEF Update, Set
  <1>2. PICK parts \in 1 .. MaxParts :
          /\ _writeQueue' = [_writeQueue EXCEPT ![s] = Collected(s, parts)]
          /\ phase' = IF Gone(s) THEN "collect"
                      ELSE IF MustWait(s, Collected(s, parts)) \/ Collected(s, parts) = <<>>
                           THEN "callbacks"
                      ELSE "write"
    BY DEF Update, Set
  <1>3. IF Gone(s)
        THEN /\ place' = [place EXCEPT ![s] = "removed"]
             /\ _connections' = _connections - 1
             /\ todo' = todo \ {s}
        ELSE UNCHANGED <<place, _connections, todo>>
    BY DEF Update, Set, RemainingConnections
  <1>4. s \in todo /\ s \in Sockets /\ place[s] = "active"
    BY <1>1, CurrentVisited DEF NetInv, VisitInv, TypeOK
  <1>5. Collected(s, parts) \in Seq(1 .. MaxParts)
    <2>1. _writeQueue[s] \in Seq(1 .. MaxParts)
      BY <1>4 DEF NetInv, TypeOK
    <2> QED
      BY <2>1, QueueGrows DEF Collected
  <1> HIDE DEF s
  <1>6. TypeOK' /\ ConnectionsExact'
    <2>1. CASE Gone(s)
      <3>1. Held' = Held \ {s} /\ s \in Held /\ Held \subseteq Sockets
        BY <1>3, <1>4, <2>1 DEF Held, NetInv, TypeOK
      <3>2. Cardinality(Held') = Cardinality(Held) - 1 /\ Cardinality(Held') \in Nat
        BY <3>1, HeldFinite, FS_RemoveElement
      <3>3. _connections = Cardinality(Held)
        BY <1>1 DEF Held, NetInv, ConnectionsExact
      <3>4. _connections' \in Nat /\ ConnectionsExact'
        BY <1>3, <2>1, <3>2, <3>3 DEF ConnectionsExact, Held
      <3> QED
        BY <1>1, <1>2, <1>3, <1>4, <1>5, <2>1, <3>4 DEF NetInv, TypeOK
    <2>2. CASE ~Gone(s)
      <3>1. TypeOK'
        BY <1>1, <1>2, <1>3, <1>4, <1>5, <2>2 DEF NetInv, TypeOK
      <3> QED
        BY <1>1, <1>3, <2>2, <3>1 DEF NetInv, ConnectionsExact
    <2> QED
      BY <2>1, <2>2
  <1>7. VisitInv'
    BY <1>1, <1>2, <1>3, <1>4 DEF NetInv, TypeOK, VisitInv
  <1>8. WriterInv' /\ VisitedOpen'
    <2>1. CASE Gone(s)
      BY <1>2, <2>1 DEF WriterInv, VisitedOpen
    <2>2. CASE ~Gone(s)
      <3>1. Current' = s
        BY <1>3, <2>2 DEF Current, s
      <3>2. ~_closed[s]
        BY <2>2 DEF Gone
      <3>3. phase' = "write" => Collected(s, parts) # <<>> /\ ~_isWritingAsync[s]
        BY <1>2, <2>2 DEF MustWait
      <3> QED
        BY <1>1, <1>2, <1>4, <3>1, <3>2, <3>3
        DEF NetInv, TypeOK, WriterInv, VisitedOpen
    <2> QED
      BY <2>1, <2>2
  <1>9. FreshInv'
    BY <1>1, <1>2, <1>3, <1>4 DEF NetInv, TypeOK, FreshInv
  <1> QED
    BY <1>1, <1>6, <1>7, <1>8, <1>9
    DEF NetInv, OneAsyncWrite, NoSilentDrop, ClosingInv

\* HandleQueue in the loop of Update starts with no write outstanding.
LEMMA WriteInv ==
  ASSUME NetInv, Write
  PROVE  NetInv'
  <1> DEFINE s == Current
  <1>1. phase = "write" /\ UNCHANGED <<place, _connections, _stopped, todo>>
    BY DEF Write
  <1>2. PICK r \in HandleQueue(s) :
          /\ ApplyHandleQueue(s, r, writeOps[s])
          /\ phase' = IF r.again THEN "write" ELSE "callbacks"
    BY DEF Write
  <1>3. s \in Sockets /\ todo # {}
    BY <1>1, CurrentVisited DEF NetInv, VisitInv, TypeOK
  <1>4. _writeQueue[s] # <<>> /\ ~_isWritingAsync[s] /\ writeOps[s] = 0
    BY <1>1, <1>3 DEF NetInv, WriterInv, OneAsyncWrite, TypeOK
  <1>5. Current' = s
    BY <1>1 DEF Current
  <1>6. r.again => r.queue # <<>> /\ ~r.async
    BY <1>3, <1>4, HandleQueueOutcome DEF NetInv
  <1> HIDE DEF s
  <1>7. /\ TypeOK' /\ OneAsyncWrite' /\ FreshInv' /\ NoSilentDrop' /\ ClosingInv'
        /\ \A t \in Sockets : handshake[t] = "permissions" => _closed'[t] = _closed[t]
        /\ _writeQueue'[s] = r.queue
        /\ _isWritingAsync'[s] = r.async
    BY <1>1, <1>2, <1>3, <1>4, ApplyKeeps
  <1>8. ConnectionsExact' /\ VisitInv'
    BY <1>1, <1>2, <1>3 DEF NetInv, ConnectionsExact, VisitInv
  <1>9. WriterInv'
    BY <1>2, <1>5, <1>6, <1>7 DEF WriterInv
  <1>10. VisitedOpen'
    BY <1>1, <1>2, <1>3, <1>5, <1>7
    DEF NetInv, VisitedOpen, ApplyHandleQueue, s
  <1> QED
    BY <1>7, <1>8, <1>9, <1>10 DEF NetInv

\* A reply in a handler keeps the types.
LEMMA ReplyType ==
  ASSUME TypeOK, NEW s \in Sockets, Reply(s) \/ NoReply
  PROVE  packets' \in [Sockets -> Nat] /\ _bufferQueue' \in [Sockets -> Nat]
  <1>1. CASE NoReply
    BY <1>1 DEF TypeOK, NoReply
  <1>2. CASE Reply(s)
    <2> DEFINE n == IF IsOpen(s) /\ packets[s] < MaxPackets THEN 1 ELSE 0
    <2>1. /\ packets' = [packets EXCEPT ![s] = @ + n]
          /\ _bufferQueue' = [_bufferQueue EXCEPT ![s] = @ + n]
      BY <1>2 DEF Reply
    <2>2. n \in Nat
      OBVIOUS
    <2> HIDE DEF n
    <2> QED
      BY <2>1, <2>2 DEF TypeOK
  <1> QED
    BY <1>1, <1>2

\* A callback touches one socket, and marks it for closing only when it refuses
\* the client.
LEMMA CallbackEffects ==
  ASSUME NetInv, NEW s \in Sockets,
         \/ Greet(s) \/ Accept(s) \/ LoadPermissions(s) \/ Refuse(s)
         \/ UNCHANGED <<handshake, packets, _bufferQueue, _writeQueue, reading, _closing>>
  PROVE  /\ packets' \in [Sockets -> Nat] /\ _bufferQueue' \in [Sockets -> Nat]
         /\ _writeQueue' \in [Sockets -> Seq(1 .. MaxParts)]
         /\ reading' \in [Sockets -> BOOLEAN]
         /\ _closing' \in [Sockets -> BOOLEAN]
         /\ handshake' \in [Sockets -> {"none", "checkIp", "greeted", "auth",
                                        "permissions", "known", "refused"}]
         /\ \A t \in Sockets \ {s} :
              _writeQueue'[t] = _writeQueue[t] /\ handshake'[t] = handshake[t]
         /\ ClosingInv'
  <1>1. TypeOK /\ ClosingInv
    BY DEF NetInv
  <1>2. CASE Greet(s)
    <2>1. Append(_writeQueue[s], 1) \in Seq(1 .. MaxParts)
      BY <1>1, ConstantsAssumption, QueueGrows DEF TypeOK
    <2>2. /\ handshake' = [handshake EXCEPT ![s] = "greeted"]
          /\ reading' = [reading EXCEPT ![s] = @ \/ IsOpen(s)]
          /\ _writeQueue' = [_writeQueue EXCEPT ![s] = Append(@, 1)]
          /\ handshake[s] = "checkIp"
          /\ UNCHANGED <<packets, _bufferQueue, _closing>>
      BY <1>2 DEF Greet, AsyncRead, NoReply, Set
    <2>3. IsOpen(s) \in BOOLEAN
      BY DEF IsOpen
    <2> QED
      BY <1>1, <2>1, <2>2, <2>3 DEF TypeOK, ClosingInv
  <1>3. CASE Accept(s)
    <2>1. packets' \in [Sockets -> Nat] /\ _bufferQueue' \in [Sockets -> Nat]
      BY <1>1, <1>3, ReplyType DEF Accept
    <2>2. /\ reading' = [reading EXCEPT ![s] = @ \/ IsOpen(s)]
          /\ \/ handshake' = [handshake EXCEPT ![s] = "permissions"]
             \/ handshake' = [handshake EXCEPT ![s] = "known"]
          /\ handshake[s] = "auth"
          /\ UNCHANGED <<_writeQueue, _closing>>
      BY <1>3 DEF Accept, AsyncRead, Set
    <2>3. IsOpen(s) \in BOOLEAN
      BY DEF IsOpen
    <2> QED
      BY <1>1, <2>1, <2>2, <2>3 DEF TypeOK, ClosingInv
  <1>4. CASE LoadPermissions(s)
    <2>1. packets' \in [Sockets -> Nat] /\ _bufferQueue' \in [Sockets -> Nat]
      BY <1>1, <1>4, ReplyType DEF LoadPermissions
    <2>2. /\ handshake' = [handshake EXCEPT ![s] = "known"]
          /\ UNCHANGED <<_writeQueue, _closing, reading>>
      BY <1>4 DEF LoadPermissions, Set
    <2> QED
      BY <1>1, <2>1, <2>2 DEF TypeOK, ClosingInv
  <1>5. CASE Refuse(s)
    <2>1. packets' \in [Sockets -> Nat] /\ _bufferQueue' \in [Sockets -> Nat]
      BY <1>1, <1>5, ReplyType DEF Refuse
    <2>2. /\ handshake' = [handshake EXCEPT ![s] = "refused"]
          /\ _closing' = [_closing EXCEPT ![s] = TRUE]
          /\ UNCHANGED <<_writeQueue, reading>>
      BY <1>5 DEF Refuse, Set
    <2> QED
      BY <1>1, <2>1, <2>2 DEF TypeOK, ClosingInv
  <1>6. CASE UNCHANGED <<handshake, packets, _bufferQueue, _writeQueue, reading, _closing>>
    BY <1>1, <1>6 DEF TypeOK, ClosingInv
  <1> QED
    BY <1>2, <1>3, <1>4, <1>5, <1>6

\* ProcessReadyQueries ends the visit of a socket.
LEMMA CallbacksInv ==
  ASSUME NetInv, Callbacks
  PROVE  NetInv'
  <1> DEFINE s == Current
  <1>1. /\ phase = "callbacks"
        /\ phase' = "collect"
        /\ todo' = todo \ {s}
        /\ UNCHANGED <<place, _connections, _stopped, _closed, _isWritingAsync,
                       writeOps, dropped, peerUp>>
    BY DEF Callbacks
  <1>2. \/ Greet(s) \/ Accept(s) \/ LoadPermissions(s) \/ Refuse(s)
        \/ UNCHANGED <<handshake, packets, _bufferQueue, _writeQueue, reading, _closing>>
    BY DEF Callbacks
  <1>3. s \in Sockets /\ place[s] = "active"
    BY <1>1, CurrentVisited DEF NetInv, VisitInv, TypeOK
  <1> HIDE DEF s
  <1>4. /\ packets' \in [Sockets -> Nat] /\ _bufferQueue' \in [Sockets -> Nat]
        /\ _writeQueue' \in [Sockets -> Seq(1 .. MaxParts)]
        /\ reading' \in [Sockets -> BOOLEAN]
        /\ _closing' \in [Sockets -> BOOLEAN]
        /\ handshake' \in [Sockets -> {"none", "checkIp", "greeted", "auth",
                                       "permissions", "known", "refused"}]
        /\ \A t \in Sockets \ {s} :
             _writeQueue'[t] = _writeQueue[t] /\ handshake'[t] = handshake[t]
        /\ ClosingInv'
    BY <1>2, <1>3, CallbackEffects
  <1>5. TypeOK'
    BY <1>1, <1>4 DEF NetInv, TypeOK
  <1>6. ConnectionsExact' /\ VisitInv' /\ WriterInv' /\ VisitedOpen'
    BY <1>1 DEF NetInv, ConnectionsExact, VisitInv, WriterInv, VisitedOpen
  <1>7. FreshInv'
    BY <1>1, <1>3, <1>4 DEF NetInv, FreshInv
  <1> QED
    BY <1>1, <1>4, <1>5, <1>6, <1>7 DEF NetInv, OneAsyncWrite, NoSilentDrop

-----------------------------------------------------------------------------
\* The write handler ends the one write that was outstanding before it starts
\* another.
LEMMA WriteHandlerInv ==
  ASSUME NetInv, NEW s \in Sockets, WriteHandlerWrapper(s)
  PROVE  NetInv'
  <1>1. /\ phase = "idle"
        /\ writeOps[s] > 0
        /\ UNCHANGED <<place, _connections, _stopped, phase, todo>>
    BY DEF WriteHandlerWrapper
  <1>2. writeOps[s] = 1
    BY <1>1 DEF NetInv, OneAsyncWrite, TypeOK
  <1>3. ConnectionsExact' /\ VisitInv' /\ WriterInv' /\ VisitedOpen'
    BY <1>1 DEF NetInv, ConnectionsExact, VisitInv, WriterInv, VisitedOpen
  <1>4. CASE _writeQueue[s] # <<>>
    <2>1. PICK r \in HandleQueue(s) : ApplyHandleQueue(s, r, writeOps[s] - 1)
      BY <1>4 DEF WriteHandlerWrapper
    <2>2. ApplyHandleQueue(s, r, 0)
      BY <1>2, <2>1
    <2>3. TypeOK' /\ OneAsyncWrite' /\ FreshInv' /\ NoSilentDrop' /\ ClosingInv'
      BY <1>1, <1>4, <2>2, ApplyKeeps
    <2> QED
      BY <1>3, <2>3 DEF NetInv
  <1>5. CASE _writeQueue[s] = <<>>
    <2>1. /\ writeOps' = [writeOps EXCEPT ![s] = @ - 1]
          /\ _isWritingAsync' = [_isWritingAsync EXCEPT ![s] = FALSE]
          /\ UNCHANGED <<_closed, _closing, _bufferQueue, _writeQueue, packets,
                         dropped, reading, handshake, peerUp>>
      BY <1>5 DEF WriteHandlerWrapper, Set
    <2>2. TypeOK' /\ OneAsyncWrite'
      BY <1>1, <1>2, <2>1 DEF NetInv, TypeOK, OneAsyncWrite
    <2> QED
      BY <1>1, <1>3, <2>1, <2>2 DEF NetInv, FreshInv, NoSilentDrop, ClosingInv
  <1> QED
    BY <1>4, <1>5

\* A read handler closes the socket, moves the handshake on or refuses.
LEMMA ReadHandlerInv ==
  ASSUME NetInv, NEW s \in Sockets, ReadHandler(s)
  PROVE  NetInv'
  <1>1. /\ phase = "idle"
        /\ reading' = [reading EXCEPT ![s] = FALSE]
        /\ UNCHANGED <<place, _connections, _stopped, phase, todo, _isWritingAsync,
                       writeOps, _writeQueue, dropped, peerUp>>
    BY DEF ReadHandler, Set
  <1>2. ConnectionsExact' /\ VisitInv' /\ WriterInv' /\ VisitedOpen'
    BY <1>1 DEF NetInv, ConnectionsExact, VisitInv, WriterInv, VisitedOpen
  <1>3. OneAsyncWrite'
    BY <1>1 DEF NetInv, OneAsyncWrite
  <1>4. CASE /\ _closed' = [_closed EXCEPT ![s] = TRUE]
             /\ UNCHANGED <<_closing, handshake, packets, _bufferQueue>>
    <2>1. TypeOK' /\ NoSilentDrop'
      BY <1>1, <1>4 DEF NetInv, TypeOK, NoSilentDrop
    <2> QED
      BY <1>1, <1>2, <1>3, <1>4, <2>1 DEF NetInv, FreshInv, ClosingInv
  <1>5. CASE /\ handshake[s] = "greeted"
             /\ handshake' = [handshake EXCEPT ![s] = "auth"]
             /\ UNCHANGED <<_closed, _closing, packets, _bufferQueue>>
    BY <1>1, <1>2, <1>3, <1>5 DEF NetInv, TypeOK, FreshInv, NoSilentDrop, ClosingInv
  <1>6. CASE /\ handshake[s] = "greeted"
             /\ handshake' = [handshake EXCEPT ![s] = "refused"]
             /\ Reply(s)
             /\ _closing' = [_closing EXCEPT ![s] = TRUE]
             /\ UNCHANGED _closed
    <2>1. packets' \in [Sockets -> Nat] /\ _bufferQueue' \in [Sockets -> Nat]
      BY <1>6, ReplyType DEF NetInv
    <2> QED
      BY <1>1, <1>2, <1>3, <1>6, <2>1
      DEF NetInv, TypeOK, FreshInv, NoSilentDrop, ClosingInv
  <1>7. CASE UNCHANGED <<_closed, _closing, handshake, packets, _bufferQueue>>
    BY <1>1, <1>2, <1>3, <1>7 DEF NetInv, TypeOK, FreshInv, NoSilentDrop, ClosingInv
  <1> QED
    BY <1>4, <1>5, <1>6, <1>7 DEF ReadHandler, Set

\* The thread exits between two handlers.
LEMMA ExitInv ==
  ASSUME NetInv, Exit
  PROVE  NetInv'
  <1>1. /\ phase = "idle"
        /\ phase' = "exited"
        /\ place' = [s \in Sockets |-> IF place[s] = "none" THEN "none" ELSE "removed"]
        /\ UNCHANGED <<_connections, _stopped, todo, socketVars>>
    BY DEF Exit
  <1>2. TypeOK'
    BY <1>1 DEF NetInv, TypeOK, socketVars
  <1>3. ConnectionsExact' /\ VisitInv' /\ WriterInv' /\ VisitedOpen'
    BY <1>1 DEF NetInv, ConnectionsExact, VisitInv, WriterInv, VisitedOpen
  <1>4. FreshInv'
    BY <1>1 DEF NetInv, TypeOK, FreshInv, socketVars
  <1> QED
    BY <1>1, <1>2, <1>3, <1>4 DEF NetInv, OneAsyncWrite, NoSilentDrop, ClosingInv, socketVars

-----------------------------------------------------------------------------
\* Every step of every thread keeps the invariant.
LEMMA NextInv ==
  ASSUME NetInv, [Next]_vars
  PROVE  NetInv'
  <1>1. CASE UNCHANGED vars
    <2>1. Current' = Current
      BY <1>1 DEF Current, vars
    <2>2. TypeOK' /\ ConnectionsExact'
      BY <1>1 DEF NetInv, TypeOK, ConnectionsExact, vars, socketVars
    <2> QED
      BY <1>1, <2>1, <2>2
      DEF vars, socketVars, NetInv, VisitInv, OneAsyncWrite, WriterInv, FreshInv,
          NoSilentDrop, ClosingInv, VisitedOpen
  <1>2. ASSUME NEW s \in Sockets,
               \/ AddSocket(s) \/ SendPacket(s) \/ CloseSocket(s)
               \/ DelayedCloseSocket(s) \/ Break(s)
               \/ WriteHandlerWrapper(s) \/ ReadHandler(s)
        PROVE  NetInv'
    BY <1>2, AddSocketInv, SendPacketInv, CloseSocketInv, DelayedCloseSocketInv,
       BreakInv, WriteHandlerInv, ReadHandlerInv
  <1>3. CASE ThreadUpdate
    BY <1>3, BeginUpdateInv, UpdateInv, WriteInv, CallbacksInv, EndUpdateInv
    DEF ThreadUpdate
  <1>4. CASE Stop \/ Exit
    BY <1>4, StopInv, ExitInv
  <1> QED
    BY <1>1, <1>2, <1>3, <1>4 DEF Next, Exited

\* The invariant holds in every behaviour of the network thread.
THEOREM NetInvariant == Spec => []NetInv
  <1>1. Init => NetInv
    BY InitInv
  <1>2. NetInv /\ [Next]_vars => NetInv'
    BY NextInv
  <1> QED
    BY <1>1, <1>2, PTL DEF Spec

\* Every variable keeps its type; in particular the count of connections, which
\* AddNewSockets and Update decrease, never goes below zero.
THEOREM TypeCorrect == Spec => []TypeOK
  BY NetInvariant, PTL DEF NetInv

\* The count by which SocketMgr balances new sockets over the threads is exact,
\* whatever AddSocket, AddNewSockets and Update interleave.
THEOREM ConnectionsCounted == Spec => []ConnectionsExact
  BY NetInvariant, PTL DEF NetInv

\* Update and WriteHandlerWrapper never have two writes outstanding on a socket.
THEOREM OneWriter == Spec => []OneAsyncWrite
  BY NetInvariant, PTL DEF NetInv

\* HandleQueue drops a message only on a connection that is lost or closed.
THEOREM DropsExcused == Spec => []NoSilentDrop
  BY NetInvariant, PTL DEF NetInv

\* LoadSessionPermissionsCallback runs only on a socket that is not closed, so
\* the session it uses without a test is still there.
THEOREM PermissionsSafe == Spec => []PermissionsHaveSession
  <1>1. NetInv => PermissionsHaveSession
    BY DEF NetInv, VisitedOpen, PermissionsHaveSession
  <1> QED
    BY <1>1, NetInvariant, PTL

\* What can close a socket that is marked for closing and not being read:
\* HandleQueue, with an empty queue.
LEMMA ClosedWhenFlushed ==
  ASSUME NetInv, [Next]_vars, NEW s \in Sockets,
         _closing[s], ~reading[s], ~_closed[s], _closed'[s]
  PROVE  _writeQueue'[s] = <<>>
  <1>1. ASSUME NEW t \in Sockets, NEW r, NEW ops, ApplyHandleQueue(t, r, ops)
        PROVE  _writeQueue'[s] = <<>>
    <2>1. /\ _writeQueue' = [_writeQueue EXCEPT ![t] = r.queue]
          /\ _closed' = [_closed EXCEPT ![t] = @ \/ ClosesWhenDone(t, r)]
      BY <1>1 DEF ApplyHandleQueue, Set
    <2>2. t = s /\ ClosesWhenDone(t, r)
      BY <2>1 DEF NetInv, TypeOK
    <2>3. r.queue = <<>>
      BY <2>2 DEF ClosesWhenDone
    <2> QED
      BY <2>1, <2>2, <2>3 DEF NetInv, TypeOK
  <1>2. _closed' # _closed
    OBVIOUS
  <1>3. CASE \E t \in Sockets : CloseSocket(t)
    BY <1>3 DEF CloseSocket, IsOpen, Set, NetInv, TypeOK
  <1>4. CASE \E t \in Sockets : ReadHandler(t)
    BY <1>2, <1>4 DEF ReadHandler, Set, NetInv, TypeOK
  <1>5. CASE \E t \in Sockets : WriteHandlerWrapper(t)
    BY <1>1, <1>2, <1>5 DEF WriteHandlerWrapper
  <1>6. CASE Write
    <2>1. Current \in Sockets
      BY <1>6, CurrentVisited DEF Write, NetInv, VisitInv, TypeOK
    <2> QED
      BY <1>1, <1>6, <2>1 DEF Write
  <1>7. \/ \E t \in Sockets : CloseSocket(t)
        \/ \E t \in Sockets : ReadHandler(t)
        \/ \E t \in Sockets : WriteHandlerWrapper(t)
        \/ Write
    BY <1>2 DEF Next, ThreadUpdate, vars, socketVars, AddSocket, SendPacket,
      DelayedCloseSocket, Break, BeginUpdate, EndUpdate, Update, Callbacks, Stop,
      Exit, Exited
  <1> QED
    BY <1>3, <1>4, <1>5, <1>6, <1>7

\* A delayed close waits for the write queue, in every behaviour.
THEOREM DelayedCloseWaits == Spec => DelayedCloseFlushes
  <1> DEFINE Flushes == \A s \in Sockets :
               _closing[s] /\ ~reading[s] /\ ~_closed[s] /\ _closed'[s]
                 => _writeQueue'[s] = <<>>
  <1>1. NetInv /\ [Next]_vars => [Flushes]_vars
    BY ClosedWhenFlushed
  <1> QED
    BY <1>1, NetInvariant, PTL DEF Spec, DelayedCloseFlushes
=============================================================================
