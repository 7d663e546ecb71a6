--------------------------- MODULE SessionPackets ---------------------------
(***************************************************************************)
(* The packets of one WorldSession, from the socket to the handler: the    *)
(* network threads that put them in _recvQueue (a LockedQueue), the two    *)
(* filters through which the world thread and a map's worker take them     *)
(* out again, the packets WorldSession::Update puts back, and the end of   *)
(* the session while its sockets are still being read.                     *)
(*                                                                         *)
(* A session has a realm and an instance socket, each served by a network  *)
(* thread.  World thread and map workers never overlap (MapUpdater proves  *)
(* the barrier), so they are one actor here, the engine.  A socket's       *)
(* _worldSessionLock is held where network[c] is "locked".                 *)
(***************************************************************************)
EXTENDS Integers, Sequences, FiniteSets

CONSTANTS
  Opcodes,        \* the client opcodes that arrive
  MaxPackets,     \* bound: packets received in all
  MaxProcessed    \* MAX_PROCESSED_PACKETS_IN_SAME_WORLDSESSION_UPDATE

\* The entries of the opcode table that the instances draw from: the statuses a
\* packet may arrive with, and STATUS_LOGGEDIN with every processing place.
OpcodeTable ==
  [CMSG_ENUM_CHARACTERS     |-> <<"AUTHED", "THREADUNSAFE">>,
   CMSG_PLAYER_LOGIN        |-> <<"AUTHED", "THREADUNSAFE">>,
   CMSG_MOVE_HEARTBEAT      |-> <<"LOGGEDIN", "THREADSAFE">>,
   CMSG_ATTACK_STOP         |-> <<"LOGGEDIN", "INPLACE">>,
   CMSG_LOGOUT_REQUEST      |-> <<"LOGGEDIN", "THREADUNSAFE">>,
   CMSG_CANCEL_TRADE        |-> <<"LOGGEDIN_OR_RECENTLY_LOGGOUT", "THREADUNSAFE">>,
   CMSG_WORLD_PORT_RESPONSE |-> <<"TRANSFER", "THREADUNSAFE">>,
   CMSG_ADDON_LIST          |-> <<"UNHANDLED", "INPLACE">>]

Status(op) == OpcodeTable[op][1]
ProcessingPlace(op) == OpcodeTable[op][2]

ASSUME ConstantsAssumption ==
  /\ Opcodes \subseteq DOMAIN OpcodeTable
  /\ MaxPackets \in Nat
  /\ MaxProcessed \in Nat

Connections == {"realm", "instance"}

VARIABLES
  \* the sockets
  network,      \* where the network thread of a connection is
  closed,       \* Socket::_closed; also where there is no such socket
  linked,       \* WorldSocket::_worldSession is set
  \* the session
  alive,        \* it is not deleted
  attached,     \* _socket[c] is set
  forceExit,    \* _isForceExit
  inQueue,      \* _inQueue
  player,       \* "none", "inWorld", or "transfer": not in world
  loading,      \* _playerLoading: "no", "asked", or "queries" under way
  recentlyOut,  \* _playerRecentlyLogout
  logoutTime,   \* _logoutTime is set
  recvQueue,    \* _recvQueue, packets as records of their number and opcode
  \* WorldSession::Update
  phase,        \* where the engine is
  updater,      \* whose filter is in use
  processed,    \* processedPackets
  requeue,      \* requeuePackets
  \* history
  received,     \* packets received so far
  freed,        \* numbers of the deleted packets
  lastCalled    \* number of the STATUS_LOGGEDIN packet handled last

socketVars == <<network, closed, linked>>
sessionVars == <<attached, forceExit, player, loading, recentlyOut, logoutTime>>
updateVars == <<phase, updater, processed, requeue>>
packetVars == <<recvQueue, received, freed>>
vars == <<socketVars, alive, inQueue, sessionVars, updateVars, packetVars,
          lastCalled>>

Numbers(q) == {q[i].n : i \in DOMAIN q}

-----------------------------------------------------------------------------
\* A session World::AddSession_ has just listed; it may have to queue.
Init ==
  /\ network = [c \in Connections |-> "idle"]
  /\ closed = [c \in Connections |-> c = "instance"]
  /\ linked = [c \in Connections |-> c = "realm"]
  /\ alive = TRUE
  /\ attached = [c \in Connections |-> c = "realm"]
  /\ forceExit = FALSE
  /\ inQueue \in BOOLEAN
  /\ player = "none"
  /\ loading = "no"
  /\ recentlyOut = FALSE
  /\ logoutTime = FALSE
  /\ recvQueue = <<>>
  /\ phase = "idle"
  /\ updater = "world"
  /\ processed = 0
  /\ requeue = <<>>
  /\ received = 0
  /\ freed = {}
  /\ lastCalled = 0

-----------------------------------------------------------------------------
(* The network thread of connection c.                                      *)

At(c, from, to) == network[c] = from /\ network' = [network EXCEPT ![c] = to]

\* The client opens its instance connection, which waits to be linked.
Connect ==
  /\ network["instance"] = "idle"
  /\ closed["instance"]
  /\ ~attached["instance"]
  /\ closed' = [closed EXCEPT !["instance"] = FALSE]
  /\ linked' = [linked EXCEPT !["instance"] = FALSE]
  /\ UNCHANGED <<network, alive, inQueue, sessionVars, updateVars, packetVars,
                 lastCalled>>

\* ReadHandler tests IsOpen once for all the packets of its buffer.
BeginRead(c) ==
  /\ ~closed[c]
  /\ At(c, "idle", "reading")
  /\ UNCHANGED <<closed, linked, alive, inQueue, sessionVars, updateVars,
                 packetVars, lastCalled>>

EndRead(c) ==
  /\ At(c, "reading", "idle")
  /\ UNCHANGED <<closed, linked, alive, inQueue, sessionVars, updateVars,
                 packetVars, lastCalled>>

\* ReadDataHandler takes _worldSessionLock and finds the session.
Lock(c) ==
  /\ linked[c]
  /\ received + Cardinality({d \in Connections : network[d] = "locked"}) < MaxPackets
  /\ At(c, "reading", "locked")
  /\ UNCHANGED <<closed, linked, alive, inQueue, sessionVars, updateVars,
                 packetVars, lastCalled>>

\* WorldSession::QueuePacket, and the lock is released.
QueuePacket(c) ==
  /\ At(c, "locked", "reading")
  /\ \E op \in Opcodes :
       recvQueue' = Append(recvQueue, [n |-> received + 1, op |-> op])
  /\ received' = received + 1
  /\ UNCHANGED <<closed, linked, alive, inQueue, sessionVars, updateVars, freed,
                 lastCalled>>

\* CloseSocket by the network thread, after an error or a packet without a
\* session: the exchange of _closed, which may come second, and OnClose.
CloseSocket(c) ==
  /\ network[c] \in {"idle", "reading"}
  /\ network[c] = "idle" => ~closed[c]
  /\ network' = [network EXCEPT ![c] = IF closed[c] THEN "idle" ELSE "closing"]
  /\ closed' = [closed EXCEPT ![c] = TRUE]
  /\ UNCHANGED <<linked, alive, inQueue, sessionVars, updateVars, packetVars,
                 lastCalled>>

OnClose(c) ==
  /\ At(c, "closing", "idle")
  /\ linked' = [linked EXCEPT ![c] = FALSE]
  /\ UNCHANGED <<closed, alive, inQueue, sessionVars, updateVars, packetVars,
                 lastCalled>>

-----------------------------------------------------------------------------
(* What the engine's handlers call.                                         *)

\* OnClose waits for the lock, unless another thread closed the socket.
MayCloseUnlocked(C) == TRUE
MayClose(C) == \A c \in C : network[c] = "locked" => closed[c]

\* CloseSocket on the sockets of C, by the engine.
Close(C) ==
  /\ MayClose(C)
  /\ closed' = [c \in Connections |-> closed[c] \/ c \in C]
  /\ linked' = [c \in Connections |-> linked[c] /\ (c \in C => closed[c])]

Sockets == {c \in Connections : attached[c]}

KickPlayer ==
  /\ Close(Sockets)
  /\ forceExit' = (forceExit \/ Sockets # {})
  /\ UNCHANGED attached

\* The instance connection goes with the character.
LogoutPlayer ==
  /\ player' = "none"
  /\ logoutTime' = FALSE
  /\ recentlyOut' = TRUE
  /\ Close(Sockets \cap {"instance"})
  /\ attached' = [attached EXCEPT !["instance"] = FALSE]
  /\ UNCHANGED <<forceExit, loading>>

Nothing == UNCHANGED <<closed, linked, sessionVars>>

-----------------------------------------------------------------------------
(* The handlers, as far as they change how the next packets are treated.    *)

HandlePlayerLoginOpcode ==
  \/ /\ loading = "no"
     /\ player = "none"
     /\ loading' = "asked"
     /\ UNCHANGED <<closed, linked, attached, forceExit, player, recentlyOut,
                    logoutTime>>
  \/ /\ loading' = IF loading = "no" /\ player = "none" THEN "asked" ELSE loading
     /\ KickPlayer
     /\ UNCHANGED <<player, recentlyOut, logoutTime>>

\* A step onto a trigger starts a far teleport.
HandleMovementOpcodes ==
  /\ player' \in {"inWorld", "transfer"}
  /\ UNCHANGED <<closed, linked, attached, forceExit, loading, recentlyOut,
                 logoutTime>>

\* Refused, or timed, or at once.
HandleLogoutRequestOpcode ==
  \/ /\ logoutTime' \in BOOLEAN
     /\ UNCHANGED <<closed, linked, attached, forceExit, player, loading,
                    recentlyOut>>
  \/ LogoutPlayer

\* The transfer ends, or the player is sent home, or the destination is not valid.
HandleMoveWorldportAck ==
  \/ /\ player' \in {"inWorld", "transfer"}
     /\ UNCHANGED <<closed, linked, attached, forceExit, loading, recentlyOut,
                    logoutTime>>
  \/ LogoutPlayer

\* HandleCharEnumOpcode, behind the reset of _playerRecentlyLogout.
HandleCharEnumOpcode ==
  /\ recentlyOut' = FALSE
  /\ UNCHANGED <<closed, linked, attached, forceExit, player, loading, logoutTime>>

\* The packet's handler runs or throws, or AntiDOS kicks the session instead.
Call(op) ==
  \/ op = "CMSG_PLAYER_LOGIN" /\ HandlePlayerLoginOpcode
  \/ op = "CMSG_MOVE_HEARTBEAT" /\ HandleMovementOpcodes
  \/ op = "CMSG_LOGOUT_REQUEST" /\ HandleLogoutRequestOpcode
  \/ op = "CMSG_WORLD_PORT_RESPONSE" /\ HandleMoveWorldportAck
  \/ op = "CMSG_ENUM_CHARACTERS" /\ HandleCharEnumOpcode
  \/ op # "CMSG_ENUM_CHARACTERS" /\ Nothing
  \/ /\ KickPlayer
     /\ recentlyOut' = (recentlyOut /\ op # "CMSG_ENUM_CHARACTERS")
     /\ UNCHANGED <<player, loading, logoutTime>>

-----------------------------------------------------------------------------
(* WorldSession::Update.                                                    *)

MapProcess(op) ==
  \/ ProcessingPlace(op) = "INPLACE"
  \/ ProcessingPlace(op) = "THREADSAFE" /\ player = "inWorld"

WorldProcessBoth(op) == ProcessingPlace(op) # "THREADSAFE" /\ player # "inWorld"
WorldProcess(op) == ProcessingPlace(op) # "THREADSAFE" \/ player # "inWorld"

\* updater.Process.
Process(op) == IF updater = "map" THEN MapProcess(op) ELSE WorldProcess(op)

\* The condition of the loop, and the limit at its end.
TakesNext ==
  /\ attached["realm"]
  /\ recvQueue # <<>>
  /\ Process(Head(recvQueue).op)
  /\ processed <= MaxProcessed

\* STATUS_LOGGEDIN for a character that is not there yet.
PutBack(op) == Status(op) = "LOGGEDIN" /\ player = "none" /\ ~recentlyOut

\* The tests of the switch; _isPlayerLogout is up only inside LogoutPlayer.
Reaches(op) ==
  CASE Status(op) = "LOGGEDIN" -> player = "inWorld"
    [] Status(op) = "LOGGEDIN_OR_RECENTLY_LOGGOUT" -> player # "none" \/ recentlyOut
    [] Status(op) = "TRANSFER" -> player = "transfer"
    [] Status(op) = "AUTHED" -> ~inQueue
    [] OTHER -> FALSE

\* Whether the packet is deleted at the end of its round: deletePacket.
DeletesAlways(op) == TRUE
Deletes(op) == ~PutBack(op)

ProcessPacket ==
  LET p == Head(recvQueue)
  IN /\ phase = "loop"
     /\ TakesNext
     /\ recvQueue' = Tail(recvQueue)
     /\ processed' = processed + 1
     /\ requeue' = IF PutBack(p.op) THEN Append(requeue, p) ELSE requeue
     /\ freed' = IF Deletes(p.op) THEN freed \cup {p.n} ELSE freed
     /\ \/ Reaches(p.op) /\ Call(p.op)
        \/ ~Reaches(p.op) /\ Nothing
     /\ lastCalled' = IF Reaches(p.op) /\ Status(p.op) = "LOGGEDIN"
                      THEN p.n ELSE lastCalled
     /\ UNCHANGED <<network, alive, inQueue, phase, updater, received>>

\* _recvQueue.readd.
ReaddAtBack == recvQueue \o requeue
ReaddNothing == recvQueue
Readd == requeue \o recvQueue

EndLoop ==
  /\ phase = "loop"
  /\ ~TakesNext
  /\ recvQueue' = Readd
  /\ requeue' = <<>>
  /\ phase' = "callbacks"
  /\ UNCHANGED <<socketVars, alive, inQueue, sessionVars, updater, processed,
                 received, freed, lastCalled>>

\* ProcessQueryCallbacks: HandlePlayerLogin, which kicks when the character
\* does not load, InitializeSessionCallback, or no answer yet.
ProcessQueryCallbacks ==
  /\ phase = "callbacks"
  /\ phase' = IF updater = "world" THEN "finish" ELSE "idle"
  /\ \/ /\ loading = "queries"
        /\ loading' = "no"
        /\ \/ /\ player' = "inWorld"
              /\ UNCHANGED <<closed, linked, attached, forceExit>>
           \/ UNCHANGED player /\ KickPlayer
        /\ UNCHANGED <<inQueue, recentlyOut, logoutTime>>
     \/ inQueue' = FALSE /\ Nothing
     \/ UNCHANGED inQueue /\ Nothing
  /\ UNCHANGED <<network, alive, updater, processed, requeue, packetVars, lastCalled>>

\* ShouldLogOut, in the part of Update that only the world thread runs.
TimedLogout ==
  /\ phase = "finish"
  /\ logoutTime
  /\ loading = "no"
  /\ LogoutPlayer
  /\ UNCHANGED <<network, alive, inQueue, updateVars, packetVars, lastCalled>>

\* A socket of the session is closed and its time is up.
Ends(timeUp) ==
  /\ \E c \in Sockets : closed[c]
  /\ timeUp \/ forceExit \/ player = "none"

\* Update returns: the sockets are closed and forgotten and UpdateSessions
\* removes the session, or it stays and the maps are next.
Finish ==
  /\ phase = "finish"
  /\ \E timeUp \in BOOLEAN :
       \/ /\ Ends(timeUp)
          /\ Close(Sockets)
          /\ attached' = [c \in Connections |-> FALSE]
          /\ phase' = "dropped"
       \/ /\ ~Ends(timeUp)
          /\ phase' = "maps"
          /\ UNCHANGED <<closed, linked, attached>>
  /\ UNCHANGED <<network, alive, inQueue, forceExit, player, loading, recentlyOut,
                 logoutTime, updater, processed, requeue, packetVars, lastCalled>>

\* The destructor: the character is logged out, the queue emptied.
Destroy ==
  /\ phase = "dropped"
  /\ alive
  /\ alive' = FALSE
  /\ Close(Sockets)
  /\ attached' = [c \in Connections |-> FALSE]
  /\ player' = "none"
  /\ freed' = freed \cup Numbers(recvQueue)
  /\ recvQueue' = <<>>
  /\ UNCHANGED <<network, inQueue, forceExit, loading, recentlyOut, logoutTime,
                 updateVars, received, lastCalled>>

-----------------------------------------------------------------------------
(* The engine around Update.                                                *)

\* Update starts.  It closes the realm socket when IsConnectionIdle.
Enter(who) ==
  /\ phase' = "loop"
  /\ updater' = who
  /\ processed' = 0
  /\ \/ UNCHANGED <<closed, linked>>
     \/ ~inQueue /\ Close({"realm"})
  /\ UNCHANGED <<network, alive, inQueue, sessionVars, requeue, packetVars,
                 lastCalled>>

\* World::UpdateSessions reaches the session.
BeginWorldUpdate == phase = "idle" /\ Enter("world")

\* Map::Update of the map the player is in.
BeginMapUpdate == phase = "maps" /\ player = "inWorld" /\ Enter("map")

\* Or the timer of the map manager has not passed.
SkipMaps ==
  /\ phase = "maps"
  /\ phase' = "idle"
  /\ UNCHANGED <<socketVars, alive, inQueue, sessionVars, updater, processed,
                 requeue, packetVars, lastCalled>>

\* World::AddSession_ replaces the session by a new one of its account.
Replace ==
  /\ phase = "idle"
  /\ loading = "no"
  /\ KickPlayer
  /\ phase' = "dropped"
  /\ UNCHANGED <<network, alive, inQueue, player, loading, recentlyOut, logoutTime,
                 updater, processed, requeue, packetVars, lastCalled>>

\* ProcessLinkInstanceSocket finds the socket open.  A client with an instance
\* connection does not open a second one.
BeginLink ==
  /\ phase = "idle"
  /\ ~closed["instance"]
  /\ ~attached["instance"]
  /\ phase' = "link"
  /\ UNCHANGED <<socketVars, alive, inQueue, sessionVars, updater, processed,
                 requeue, packetVars, lastCalled>>

\* SetWorldSession, AddInstanceConnection and HandleContinuePlayerLogin; the
\* socket may have been closed since.
EndLink ==
  /\ phase = "link"
  /\ network["instance"] # "locked"
  /\ phase' = "idle"
  /\ attached' = [attached EXCEPT !["instance"] = TRUE]
  /\ IF loading # "no" /\ player = "none"
     THEN /\ linked' = [linked EXCEPT !["instance"] = TRUE]
          /\ loading' \in {"queries", "no"}
          /\ UNCHANGED <<closed, forceExit>>
     ELSE /\ MayClose(Connections)
          /\ closed' = [c \in Connections |-> TRUE]
          /\ linked' = [c \in Connections |->
                          closed[c] /\ (linked[c] \/ c = "instance")]
          /\ forceExit' = TRUE
          /\ UNCHANGED loading
  /\ UNCHANGED <<network, alive, inQueue, player, recentlyOut, logoutTime, updater,
                 processed, requeue, packetVars, lastCalled>>

Deleted == ~alive /\ UNCHANGED vars

-----------------------------------------------------------------------------
NetworkStep(c) ==
  BeginRead(c) \/ EndRead(c) \/ Lock(c) \/ QueuePacket(c) \/ CloseSocket(c) \/ OnClose(c)

Update ==
  \/ BeginWorldUpdate
  \/ ProcessPacket
  \/ EndLoop
  \/ ProcessQueryCallbacks
  \/ Finish
  \/ Destroy
  \/ SkipMaps
  \/ EndLink

Next ==
  \/ Connect
  \/ \E c \in Connections : NetworkStep(c)
  \/ Update
  \/ TimedLogout
  \/ BeginMapUpdate
  \/ Replace
  \/ BeginLink
  \/ Deleted

Spec == Init /\ [][Next]_vars

\* The world loop goes on, the maps are updated time and again, and a network
\* thread does not keep the lock.
FairSpec == /\ Spec
            /\ WF_vars(Update)
            /\ SF_vars(BeginMapUpdate)
            /\ \A c \in Connections : WF_vars(QueuePacket(c))

-----------------------------------------------------------------------------
(* Properties.                                                              *)

Packets == [n : 1 .. MaxPackets, op : Opcodes]

\* Every variable keeps its type.
TypeOK ==
  /\ network \in [Connections -> {"idle", "reading", "locked", "closing"}]
  /\ closed \in [Connections -> BOOLEAN]
  /\ linked \in [Connections -> BOOLEAN]
  /\ alive \in BOOLEAN
  /\ attached \in [Connections -> BOOLEAN]
  /\ forceExit \in BOOLEAN
  /\ inQueue \in BOOLEAN
  /\ player \in {"none", "inWorld", "transfer"}
  /\ loading \in {"no", "asked", "queries"}
  /\ recentlyOut \in BOOLEAN
  /\ logoutTime \in BOOLEAN
  /\ recvQueue \in Seq(Packets)
  /\ phase \in {"idle", "link", "loop", "callbacks", "finish", "maps", "dropped"}
  /\ updater \in {"world", "map"}
  /\ processed \in 0 .. (MaxProcessed + 1)
  /\ requeue \in Seq(Packets)
  /\ received \in 0 .. MaxPackets
  /\ freed \subseteq 1 .. MaxPackets
  /\ lastCalled \in 0 .. MaxPackets

\* A network thread never uses a deleted session: whoever deletes it has closed
\* both sockets and so waited for the lock, or found a socket closed by its
\* own thread, which reads no further.
NoUseAfterDelete ==
  \A c \in Connections : network[c] = "locked" => alive

\* No packet that is queued or about to be put back has been deleted, and none
\* is there twice: deletePacket is false exactly for the packets put back.
NoFreedPacket ==
  LET all == requeue \o recvQueue
  IN /\ Numbers(all) \cap freed = {}
     /\ Cardinality(Numbers(all)) = Len(all)

\* No packet outlives its session, whatever the session was doing when it ended.
NoPacketLeak == ~alive => freed = 1 .. received

\* The packets for a character in the world are handled in the order they came,
\* those that were put back while it was loading included.
LoggedInOrder == [][lastCalled' >= lastCalled]_vars

InQueue(k) == k \in Numbers(recvQueue) \cup Numbers(requeue)

\* The two filters leave no packet between them: while the character stays in
\* the world, or stays in transfer, every packet in the queue gets its turn,
\* though each thread stops at the first packet that is not its own.
TurnWhilePlaying ==
  \A k \in 1 .. MaxPackets : \A p \in {"inWorld", "transfer"} :
    (InQueue(k) /\ player = p /\ attached["realm"])
      ~> (~InQueue(k) \/ player # p \/ ~attached["realm"])

\* What WorldSession::Update says of the packets its limit leaves in the queue:
\* they are processed in the next update.
LeftoverProcessed ==
  \A k \in 1 .. MaxPackets :
    (\E i \in DOMAIN recvQueue : recvQueue[i].n = k /\ Status(recvQueue[i].op) # "LOGGEDIN")
      ~> (~InQueue(k) \/ ~attached["realm"])
=============================================================================
