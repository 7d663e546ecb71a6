--------------------------- MODULE NetworkThread ----------------------------
(***************************************************************************)
(* One network thread of the world server and the sockets it serves:       *)
(* NetworkThread (AddSocket, AddNewSockets, Update, Stop), the base class  *)
(* Socket (write queue, asynchronous writes, both ways to close) and the   *)
(* part of WorldSocket that feeds them (SendPacket, Update, and the query  *)
(* callbacks that accept or reject a client).                              *)
(*                                                                         *)
(* The handlers of a network thread run one after another on its           *)
(* io_context; Update is a handler with many steps.  The acceptor's thread *)
(* adds sockets, and the world thread sends packets and closes sockets,    *)
(* between any two of those steps.  A socket stays with its thread, so one *)
(* thread is enough.                                                       *)
(***************************************************************************)
EXTENDS Integers, Sequences, FiniteSets

CONSTANTS
  Sockets,
  MaxPackets,   \* bound: packets sent on one socket
  MaxParts      \* a message takes 1 .. MaxParts calls of write_some

ASSUME ConstantsAssumption ==
  /\ IsFiniteSet(Sockets)
  /\ MaxPackets \in Nat
  /\ MaxParts \in Nat \ {0}

VARIABLES
  place,           \* which container of the thread holds the socket
  _connections,
  _stopped,
  phase,           \* where the thread is in Update
  todo,            \* the sockets the remove_if of Update has still to visit
  _closed,
  _closing,
  _isWritingAsync,
  writeOps,        \* asynchronous writes the io_context has outstanding
  _bufferQueue,    \* packets of WorldSocket::SendPacket, not yet collected
  _writeQueue,     \* messages, by the number of writes they still need
  packets,         \* history: packets sent so far
  dropped,         \* history: a message was dropped on a write error
  reading,         \* an asynchronous read is outstanding
  handshake,       \* how far WorldSocket has got with its client
  peerUp           \* the connection works

socketVars == <<_closed, _closing, _isWritingAsync, writeOps, _bufferQueue,
                _writeQueue, packets, dropped, reading, handshake, peerUp>>
vars == <<place, _connections, _stopped, phase, todo, socketVars>>

IsOpen(s) == ~_closed[s] /\ ~_closing[s]

Set(f, s, v) == [f EXCEPT ![s] = v]

-----------------------------------------------------------------------------
Init ==
  /\ place = [s \in Sockets |-> "none"]
  /\ _connections = 0
  /\ _stopped = FALSE
  /\ phase = "idle"
  /\ todo = {}
  /\ _closed = [s \in Sockets |-> FALSE]
  /\ _closing = [s \in Sockets |-> FALSE]
  /\ _isWritingAsync = [s \in Sockets |-> FALSE]
  /\ writeOps = [s \in Sockets |-> 0]
  /\ _bufferQueue = [s \in Sockets |-> 0]
  /\ _writeQueue = [s \in Sockets |-> <<>>]
  /\ packets = [s \in Sockets |-> 0]
  /\ dropped = [s \in Sockets |-> FALSE]
  /\ reading = [s \in Sockets |-> FALSE]
  /\ handshake = [s \in Sockets |-> "none"]
  /\ peerUp = [s \in Sockets |-> FALSE]

-----------------------------------------------------------------------------
(* Other threads.                                                           *)

\* The acceptor: OnSocketOpen constructs and starts the socket, whose first
\* query is then under way, and AddSocket hands it to the thread.
AddSocket(s) ==
  /\ place[s] = "none"
  /\ ~_stopped
  /\ place' = Set(place, s, "new")
  /\ _connections' = _connections + 1
  /\ handshake' = Set(handshake, s, "checkIp")
  /\ peerUp' = Set(peerUp, s, TRUE)
  /\ UNCHANGED <<_stopped, phase, todo, _closed, _closing, _isWritingAsync,
                 writeOps, _bufferQueue, _writeQueue, packets, dropped, reading>>

\* WorldSocket::SendPacket, by the world thread once the client is known, and
\* by the socket's own read handler.
SendPacket(s) ==
  /\ reading[s]
  /\ handshake[s] \in {"greeted", "known"}
  /\ IsOpen(s)
  /\ packets[s] < MaxPackets
  /\ packets' = [packets EXCEPT ![s] = @ + 1]
  /\ _bufferQueue' = [_bufferQueue EXCEPT ![s] = @ + 1]
  /\ UNCHANGED <<place, _connections, _stopped, phase, todo, _closed, _closing,
                 _isWritingAsync, writeOps, _writeQueue, dropped, reading, handshake,
                 peerUp>>

\* CloseSocket, by the world thread: a session is kicked or deleted.  A socket
\* that was refused never got a session.
CloseSocket(s) ==
  /\ handshake[s] = "known"
  /\ IsOpen(s)
  /\ _closed' = Set(_closed, s, TRUE)
  /\ UNCHANGED <<place, _connections, _stopped, phase, todo, _closing,
                 _isWritingAsync, writeOps, _bufferQueue, _writeQueue, packets,
                 dropped, reading, handshake, peerUp>>

\* DelayedCloseSocket, by the world thread: ProcessLinkInstanceSocket has sent
\* a response to a socket it does not link.
DelayedCloseSocket(s) ==
  /\ handshake[s] = "known"
  /\ IsOpen(s)
  /\ packets[s] > 0
  /\ _closing' = Set(_closing, s, TRUE)
  /\ UNCHANGED <<place, _connections, _stopped, phase, todo, _closed,
                 _isWritingAsync, writeOps, _bufferQueue, _writeQueue, packets,
                 dropped, reading, handshake, peerUp>>

\* The peer goes away.
Break(s) ==
  /\ peerUp[s]
  /\ peerUp' = Set(peerUp, s, FALSE)
  /\ UNCHANGED <<place, _connections, _stopped, phase, todo, _closed, _closing,
                 _isWritingAsync, writeOps, _bufferQueue, _writeQueue, packets,
                 dropped, reading, handshake>>

\* SocketMgr::StopNetwork stops the thread, whatever it is doing.
Stop ==
  /\ ~_stopped
  /\ _stopped' = TRUE
  /\ UNCHANGED <<place, _connections, phase, todo, socketVars>>

-----------------------------------------------------------------------------
(* Socket::HandleQueue for socket s, on a queue that is not empty: the new  *)
(* queue, whether a message is dropped, and whether the call returns true.  *)

Pop(s, lost) == [queue |-> Tail(_writeQueue[s]), async |-> FALSE, lost |-> lost,
                 again |-> ~lost /\ Tail(_writeQueue[s]) # <<>>]
Block(s, rest) == [queue |-> <<rest>> \o Tail(_writeQueue[s]), async |-> TRUE,
                   lost |-> FALSE, again |-> FALSE]

HandleQueueDropsBlocked(s) ==
  IF ~peerUp[s] \/ _closed[s] THEN {Pop(s, TRUE)} ELSE {Pop(s, FALSE), Pop(s, TRUE)}

\* write_some fails once the peer is gone or the socket is shut down.
HandleQueue(s) ==
  LET front == Head(_writeQueue[s])
  IN IF ~peerUp[s] \/ _closed[s]
     THEN {Pop(s, TRUE)}
     ELSE {Pop(s, FALSE), Block(s, front)} \cup {Block(s, k) : k \in 1 .. (front - 1)}

ClosesAnyway(s, r) == _closing[s]
ClosesWhenDone(s, r) == _closing[s] /\ ~r.async /\ r.queue = <<>>

\* The effects of a call of HandleQueue with outcome r; ops is the number of
\* writes outstanding when it starts.
ApplyHandleQueue(s, r, ops) ==
  /\ _writeQueue' = Set(_writeQueue, s, r.queue)
  /\ _isWritingAsync' = Set(_isWritingAsync, s, r.async)
  /\ writeOps' = Set(writeOps, s, IF r.async THEN ops + 1 ELSE ops)
  /\ dropped' = [dropped EXCEPT ![s] = @ \/ r.lost]
  /\ _closed' = [_closed EXCEPT ![s] = @ \/ ClosesWhenDone(s, r)]
  /\ UNCHANGED <<_closing, _bufferQueue, packets, reading, handshake, peerUp>>

-----------------------------------------------------------------------------
(* Handlers of the network thread.                                          *)

\* The timer's handler, NetworkThread::Update: AddNewSockets first.
BeginUpdate ==
  LET new == {s \in Sockets : place[s] = "new"}
      entered == {s \in new : IsOpen(s)}
  IN /\ phase = "idle"
     /\ ~_stopped
     /\ place' = [s \in Sockets |-> IF s \in entered THEN "active"
                                    ELSE IF s \in new THEN "removed"
                                    ELSE place[s]]
     /\ _connections' = _connections - Cardinality(new \ entered)
     /\ todo' = {s \in Sockets : place'[s] = "active"}
     /\ phase' = "collect"
     /\ UNCHANGED <<_stopped, socketVars>>

EndUpdate ==
  /\ phase = "collect"
  /\ todo = {}
  /\ phase' = "idle"
  /\ UNCHANGED <<place, _connections, _stopped, todo, socketVars>>

\* The loop goes on with one socket at a time.
Current == CHOOSE s \in todo : TRUE

\* WorldSocket::Update collects the packets of _bufferQueue into a message of
\* 1 .. MaxParts writes.
Collected(s, parts) ==
  IF _bufferQueue[s] = 0 THEN _writeQueue[s] ELSE Append(_writeQueue[s], parts)

RemainingConnectionsForgotten == _connections
RemainingConnections == _connections - 1

\* Socket::Update returns false.
GoneIfIdle(s) == _closed[s] /\ ~_isWritingAsync[s]
GoneUnlessDelayed(s) == _closed[s] /\ ~_closing[s]
Gone(s) == _closed[s]

\* Then Socket::Update: a closed socket is removed, one that may write goes on
\* to HandleQueue, any other to its query callbacks.
MustWaitForgotten(s, q) == q = <<>> /\ ~_closing[s]
MustWait(s, q) == _isWritingAsync[s] \/ (q = <<>> /\ ~_closing[s])

Update ==
  LET s == Current
  IN /\ phase = "collect"
     /\ todo # {}
     /\ _bufferQueue' = Set(_bufferQueue, s, 0)
     /\ \E parts \in 1 .. MaxParts :
          LET q == Collected(s, parts)
          IN /\ _writeQueue' = Set(_writeQueue, s, q)
             /\ phase' = IF Gone(s) THEN "collect"
                         ELSE IF MustWait(s, q) \/ q = <<>> THEN "callbacks"
                         ELSE "write"
     /\ IF Gone(s)
        THEN /\ place' = Set(place, s, "removed")
             /\ _connections' = RemainingConnections
             /\ todo' = todo \ {s}
        ELSE UNCHANGED <<place, _connections, todo>>
     /\ UNCHANGED <<_stopped, _closed, _closing, _isWritingAsync, writeOps,
                    packets, dropped, reading, handshake, peerUp>>

\* for (; HandleQueue();)
Write ==
  LET s == Current
  IN /\ phase = "write"
     /\ \E r \in HandleQueue(s) :
          /\ ApplyHandleQueue(s, r, writeOps[s])
          /\ phase' = IF r.again THEN "write" ELSE "callbacks"
     /\ UNCHANGED <<place, _connections, _stopped, todo>>

\* SendPacket in a handler of the handshake: nothing on a socket not open.
Reply(s) ==
  LET n == IF IsOpen(s) /\ packets[s] < MaxPackets THEN 1 ELSE 0
  IN /\ packets' = [packets EXCEPT ![s] = @ + n]
     /\ _bufferQueue' = [_bufferQueue EXCEPT ![s] = @ + n]

NoReply == UNCHANGED <<packets, _bufferQueue>>

\* AsyncRead, or AsyncReadWithCallback.
AsyncRead(s) == reading' = [reading EXCEPT ![s] = @ \/ IsOpen(s)]

\* CheckIpCallback for an address that is not banned: it reads the client's
\* first line and queues its own.
Greet(s) ==
  /\ handshake[s] = "checkIp"
  /\ handshake' = Set(handshake, s, "greeted")
  /\ AsyncRead(s)
  /\ _writeQueue' = [_writeQueue EXCEPT ![s] = Append(@, 1)]
  /\ NoReply
  /\ UNCHANGED _closing

\* HandleAuthSessionCallback goes on with a query for permissions while it
\* reads; HandleAuthContinuedSessionCallback is done.
Accept(s) ==
  /\ handshake[s] = "auth"
  /\ AsyncRead(s)
  /\ \/ handshake' = Set(handshake, s, "permissions") /\ NoReply
     \/ handshake' = Set(handshake, s, "known") /\ Reply(s)
  /\ UNCHANGED <<_writeQueue, _closing>>

\* LoadSessionPermissionsCallback.
LoadPermissions(s) ==
  /\ handshake[s] = "permissions"
  /\ handshake' = Set(handshake, s, "known")
  /\ Reply(s)
  /\ UNCHANGED <<_writeQueue, _closing, reading>>

\* The callbacks reject a client, most of them after a response.
Refuse(s) ==
  /\ handshake[s] \in {"checkIp", "auth"}
  /\ handshake' = Set(handshake, s, "refused")
  /\ NoReply \/ (handshake[s] = "auth" /\ Reply(s))
  /\ _closing' = Set(_closing, s, TRUE)
  /\ UNCHANGED <<_writeQueue, reading>>

\* ProcessReadyQueries: a query may also be still running.
Callbacks ==
  LET s == Current
  IN /\ phase = "callbacks"
     /\ phase' = "collect"
     /\ todo' = todo \ {s}
     /\ \/ Greet(s)
        \/ Accept(s)
        \/ LoadPermissions(s)
        \/ Refuse(s)
        \/ UNCHANGED <<handshake, packets, _bufferQueue, _writeQueue, reading, _closing>>
     /\ UNCHANGED <<place, _connections, _stopped, _closed, _isWritingAsync,
                    writeOps, dropped, peerUp>>

\* WriteHandlerWrapper: the socket is writable again, or broken.
WriteHandlerKeepsFlag(s) ==
  /\ phase = "idle"
  /\ writeOps[s] > 0
  /\ writeOps' = [writeOps EXCEPT ![s] = @ - 1]
  /\ UNCHANGED <<place, _connections, _stopped, phase, todo, _closed, _closing,
                 _isWritingAsync, _bufferQueue, _writeQueue, packets, dropped,
                 reading, handshake, peerUp>>

WriteHandlerWrapper(s) ==
  /\ phase = "idle"
  /\ ~_stopped
  /\ writeOps[s] > 0
  /\ \/ /\ _writeQueue[s] # <<>>
        /\ \E r \in HandleQueue(s) : ApplyHandleQueue(s, r, writeOps[s] - 1)
     \/ /\ _writeQueue[s] = <<>>
        /\ writeOps' = [writeOps EXCEPT ![s] = @ - 1]
        /\ _isWritingAsync' = Set(_isWritingAsync, s, FALSE)
        /\ UNCHANGED <<_closed, _closing, _bufferQueue, _writeQueue, packets,
                       dropped, reading, handshake, peerUp>>
  /\ UNCHANGED <<place, _connections, _stopped, phase, todo>>

\* InitializeHandler, ReadHandlerInternal and ReadHandler: an error or data that
\* does not parse closes the socket.  Other data is handled and the next read
\* started, except when the client asks to be authenticated, which waits for a
\* query or is refused at once, or when the socket was refused meanwhile.
ReadHandler(s) ==
  /\ phase = "idle"
  /\ ~_stopped
  /\ reading[s]
  /\ reading' = Set(reading, s, FALSE)
  /\ \/ /\ _closed' = Set(_closed, s, TRUE)
        /\ UNCHANGED <<_closing, handshake, packets, _bufferQueue>>
     \/ /\ peerUp[s]
        /\ IsOpen(s)
        /\ handshake[s] = "greeted"
        /\ \/ /\ handshake' = Set(handshake, s, "auth")
              /\ UNCHANGED <<_closing, packets, _bufferQueue>>
           \/ /\ handshake' = Set(handshake, s, "refused")
              /\ Reply(s)
              /\ _closing' = Set(_closing, s, TRUE)
        /\ UNCHANGED _closed
     \/ /\ peerUp[s]
        /\ _closing[s]
        /\ UNCHANGED <<_closed, _closing, handshake, packets, _bufferQueue>>
  /\ UNCHANGED <<place, _connections, _stopped, phase, todo, _isWritingAsync,
                 writeOps, _writeQueue, dropped, peerUp>>

\* run() returns after Stop and the thread forgets its sockets.
Exit ==
  /\ phase = "idle"
  /\ _stopped
  /\ phase' = "exited"
  /\ place' = [s \in Sockets |-> IF place[s] = "none" THEN "none" ELSE "removed"]
  /\ UNCHANGED <<_connections, _stopped, todo, socketVars>>

Exited == phase = "exited" /\ UNCHANGED vars

-----------------------------------------------------------------------------
ThreadUpdate == BeginUpdate \/ Update \/ Write \/ Callbacks \/ EndUpdate

Next ==
  \/ \E s \in Sockets : \/ AddSocket(s)
                        \/ SendPacket(s)
                        \/ CloseSocket(s)
                        \/ DelayedCloseSocket(s)
                        \/ Break(s)
                        \/ WriteHandlerWrapper(s)
                        \/ ReadHandler(s)
  \/ ThreadUpdate
  \/ Stop
  \/ Exit
  \/ Exited

Spec == Init /\ [][Next]_vars

\* The timer re-arms itself for as long as the thread runs.  The kernel reports
\* a blocked socket writable or broken, and the io_context runs every handler
\* that is ready once the one before returns: strong fairness, because the
\* handler is disabled while Update runs.
FairSpec == /\ Spec
            /\ WF_vars(ThreadUpdate)
            /\ WF_vars(Exit)
            /\ \A s \in Sockets : SF_vars(WriteHandlerWrapper(s))

-----------------------------------------------------------------------------
(* Properties.                                                              *)

\* Every variable keeps its type.
TypeOK ==
  /\ place \in [Sockets -> {"none", "new", "active", "removed"}]
  /\ _connections \in Nat
  /\ _stopped \in BOOLEAN
  /\ phase \in {"idle", "collect", "write", "callbacks", "exited"}
  /\ todo \subseteq Sockets
  /\ _closed \in [Sockets -> BOOLEAN]
  /\ _closing \in [Sockets -> BOOLEAN]
  /\ _isWritingAsync \in [Sockets -> BOOLEAN]
  /\ writeOps \in [Sockets -> Nat]
  /\ _bufferQueue \in [Sockets -> Nat]
  /\ _writeQueue \in [Sockets -> Seq(1 .. MaxParts)]
  /\ packets \in [Sockets -> Nat]
  /\ dropped \in [Sockets -> BOOLEAN]
  /\ reading \in [Sockets -> BOOLEAN]
  /\ handshake \in [Sockets -> {"none", "checkIp", "greeted", "auth",
                                "permissions", "known", "refused"}]
  /\ peerUp \in [Sockets -> BOOLEAN]

\* GetConnectionCount, by which SocketMgr balances new sockets over threads,
\* counts exactly the sockets the thread holds, new ones included.
ConnectionsExact ==
  phase # "exited" =>
    _connections = Cardinality({s \in Sockets : place[s] \in {"new", "active"}})

\* At most one asynchronous write per socket, and _isWritingAsync says whether
\* it is outstanding: Update and WriteHandlerWrapper never interleave two
\* writers on one queue.
OneAsyncWrite ==
  \A s \in Sockets : writeOps[s] = IF _isWritingAsync[s] THEN 1 ELSE 0

\* A socket that was marked by DelayedCloseSocket, and whose peer can no longer
\* close it by what it sends, is closed only when its write queue is empty.
DelayedCloseFlushes ==
  [][\A s \in Sockets :
       _closing[s] /\ ~reading[s] /\ ~_closed[s] /\ _closed'[s]
         => _writeQueue'[s] = <<>>]_vars

\* A message is dropped only on a connection that is lost or closed.
NoSilentDrop == \A s \in Sockets : dropped[s] => ~peerUp[s] \/ _closed[s]

\* LoadSessionPermissionsCallback uses _worldSession, which CloseSocket clears,
\* without a test: no socket that is closed gets to its callbacks with that
\* query, since Update returns before them and the world thread, which could
\* close the socket in between, does not know it yet.
PermissionsHaveSession ==
  phase = "callbacks" /\ handshake[Current] = "permissions" => ~_closed[Current]

\* A closed socket leaves the thread's containers.
ClosedIsRemoved ==
  \A s \in Sockets : (_closed[s] /\ place[s] = "active") ~> (place[s] = "removed")

\* What is queued on a socket is written or dropped, or the socket is closed,
\* or the thread stops: no message waits for a wake-up that never comes.
QueueDrains ==
  \A s \in Sockets :
    (_writeQueue[s] # <<>>) ~> (_writeQueue[s] = <<>> \/ _closed[s] \/ _stopped)

\* What Socket.h says of DelayedCloseSocket: the socket is closed once its
\* write buffer is empty.
DelayedCloseCloses ==
  \A s \in Sockets : _closing[s] ~> (_closed[s] \/ _stopped)
=============================================================================
