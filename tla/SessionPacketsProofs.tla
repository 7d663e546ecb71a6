------------------------ MODULE SessionPacketsProofs ------------------------
(* Proofs about SessionPackets, for any opcodes of the table, any number of *)
(* packets and any limit of an update.                                      *)
EXTENDS SessionPackets, FiniteSetTheorems, TLAPS

Locked == {c \in Connections : network[c] = "locked"}

\* The bound on the packets counts those whose thread holds the lock already.
BoundInv == received + Cardinality(Locked) <= MaxPackets

\* A network thread that may still find the session reads an open socket.
ReadInv ==
  \A c \in Connections :
    /\ network[c] \in {"reading", "locked"} /\ linked[c] => ~closed[c]
    /\ network[c] = "locked" => linked[c]

\* An open socket knows the session only while the session knows the socket.
AttachInv == \A c \in Connections : linked[c] /\ ~closed[c] => attached[c]

\* The socket an instance connection is linked over was open when that began.
LinkInv ==
  phase = "link" /\ network["instance"] \in {"reading", "locked"} => ~closed["instance"]

\* No open socket knows a session that is to be deleted.
DropInv ==
  /\ phase = "dropped" => \A c \in Connections : linked[c] => closed[c]
  /\ ~alive => phase = "dropped" /\ recvQueue = <<>>

\* Packets stand in the order they came.
Sorted(q) == \A i, j \in 1 .. Len(q) : i < j => q[i].n < q[j].n

\* Those put back stand before those still queued, and are put back only while
\* there is no character.
OrderInv ==
  /\ Sorted(requeue)
  /\ Sorted(recvQueue)
  /\ \A a \in Numbers(requeue), b \in Numbers(recvQueue) : a < b
  /\ requeue # <<>> => phase = "loop" /\ player = "none"

\* Every packet that was received is in one of the queues or deleted, not both,
\* and what waits came after the packet that was handled last.
PacketInv ==
  /\ freed \cup Numbers(requeue) \cup Numbers(recvQueue) = 1 .. received
  /\ freed \cap (Numbers(requeue) \cup Numbers(recvQueue)) = {}
  /\ \A a \in Numbers(requeue) \cup Numbers(recvQueue) : lastCalled < a
  /\ lastCalled <= received

\* The inductive invariant of the session.
SessionInv ==
  /\ TypeOK
  /\ BoundInv
  /\ ReadInv /\ AttachInv /\ LinkInv /\ DropInv
  /\ OrderInv /\ PacketInv

\* The part of the type that handlers may change.
HandlerType ==
  /\ closed \in [Connections -> BOOLEAN]
  /\ linked \in [Connections -> BOOLEAN]
  /\ attached \in [Connections -> BOOLEAN]
  /\ forceExit \in BOOLEAN
  /\ player \in {"none", "inWorld", "transfer"}
  /\ loading \in {"no", "asked", "queries"}
  /\ recentlyOut \in BOOLEAN
  /\ logoutTime \in BOOLEAN

-----------------------------------------------------------------------------
(* Queues of packets.                                                       *)

\* A packet has a number.
LEMMA PacketNumber ==
  ASSUME NEW p \in Packets
  PROVE  p.n \in 1 .. MaxPackets /\ p.n \in Nat /\ p.op \in Opcodes
  BY DEF Packets

\* A place of a queue holds one of its numbers.
LEMMA PlaceNumber ==
  ASSUME NEW q \in Seq(Packets), NEW i \in 1 .. Len(q)
  PROVE  q[i].n \in Numbers(q) /\ q[i].n \in Nat
  <1>1. q[i] \in Packets /\ i \in DOMAIN q
    OBVIOUS
  <1> QED
    BY <1>1, PacketNumber DEF Numbers

\* The numbers in a queue that grows at its end, loses its front, or is put
\* before another.
LEMMA NumbersOf ==
  ASSUME NEW q \in Seq(Packets)
  PROVE  /\ Numbers(<<>>) = {}
         /\ Numbers(q) \subseteq 1 .. MaxPackets
         /\ \A p \in Packets : /\ Append(q, p) \in Seq(Packets)
                               /\ Numbers(Append(q, p)) = Numbers(q) \cup {p.n}
         /\ q # <<>> => /\ Head(q) \in Packets
                        /\ Tail(q) \in Seq(Packets)
                        /\ Numbers(q) = {Head(q).n} \cup Numbers(Tail(q))
         /\ \A r \in Seq(Packets) : /\ q \o r \in Seq(Packets)
                                    /\ Numbers(q \o r) = Numbers(q) \cup Numbers(r)
  <1>1. Numbers(<<>>) = {}
    BY DEF Numbers
  <1>2. Numbers(q) \subseteq 1 .. MaxPackets
    <2>1. \A i \in DOMAIN q : q[i] \in Packets
      OBVIOUS
    <2> QED
      BY <2>1, PacketNumber DEF Numbers
  <1>3. ASSUME NEW p \in Packets
        PROVE  Append(q, p) \in Seq(Packets) /\ Numbers(Append(q, p)) = Numbers(q) \cup {p.n}
    <2>1. /\ Append(q, p) \in Seq(Packets)
          /\ DOMAIN Append(q, p) = 1 .. Len(q) + 1 /\ DOMAIN q = 1 .. Len(q)
          /\ Append(q, p)[Len(q) + 1] = p
          /\ \A i \in 1 .. Len(q) : Append(q, p)[i] = q[i]
          /\ Len(q) \in Nat
      OBVIOUS
    <2>2. 1 .. Len(q) + 1 = (1 .. Len(q)) \cup {Len(q) + 1}
      BY <2>1
    <2> QED
      BY <2>1, <2>2 DEF Numbers
  <1>4. ASSUME q # <<>>
        PROVE  /\ Head(q) \in Packets
               /\ Tail(q) \in Seq(Packets)
               /\ Numbers(q) = {Head(q).n} \cup Numbers(Tail(q))
    <2> DEFINE t == Tail(q)
    <2>1. /\ Head(q) \in Packets /\ Head(q) = q[1]
          /\ t \in Seq(Packets)
          /\ DOMAIN q = 1 .. Len(q) /\ DOMAIN t = 1 .. Len(q) - 1
          /\ \A i \in 1 .. Len(q) - 1 : t[i] = q[i + 1]
          /\ Len(q) \in Nat /\ Len(q) >= 1
      BY <1>4
    <2> HIDE DEF t
    <2>2. ASSUME NEW a \in Numbers(q)
          PROVE  a \in {Head(q).n} \cup Numbers(t)
      <3>1. PICK i \in 1 .. Len(q) : a = q[i].n
        BY <2>1 DEF Numbers
      <3>2. CASE i = 1
        BY <2>1, <3>1, <3>2
      <3>3. CASE i # 1
        <4>1. i - 1 \in 1 .. Len(q) - 1 /\ t[i - 1] = q[i]
          BY <2>1, <3>3
        <4> QED
          BY <2>1, <3>1, <4>1 DEF Numbers
      <3> QED
        BY <3>2, <3>3
    <2>3. ASSUME NEW a \in Numbers(t)
          PROVE  a \in Numbers(q)
      <3>1. PICK i \in 1 .. Len(q) - 1 : a = t[i].n
        BY <2>1 DEF Numbers
      <3>2. i + 1 \in 1 .. Len(q) /\ a = q[i + 1].n
        BY <2>1, <3>1
      <3> QED
        BY <2>1, <3>2 DEF Numbers
    <2>4. Head(q).n \in Numbers(q)
      <3>1. 1 \in 1 .. Len(q)
        BY <2>1
      <3> QED
        BY <2>1, <3>1 DEF Numbers
    <2> QED
      BY <2>1, <2>2, <2>3, <2>4 DEF t
  <1>5. ASSUME NEW r \in Seq(Packets)
        PROVE  q \o r \in Seq(Packets) /\ Numbers(q \o r) = Numbers(q) \cup Numbers(r)
    <2> DEFINE s == q \o r
    <2>1. /\ s \in Seq(Packets)
          /\ Len(q) \in Nat /\ Len(r) \in Nat
          /\ DOMAIN q = 1 .. Len(q) /\ DOMAIN r = 1 .. Len(r)
          /\ DOMAIN s = 1 .. Len(q) + Len(r)
          /\ \A i \in 1 .. Len(q) : s[i] = q[i]
          /\ \A i \in 1 .. Len(r) : s[Len(q) + i] = r[i]
      OBVIOUS
    <2> HIDE DEF s
    <2>2. ASSUME NEW a \in Numbers(s)
          PROVE  a \in Numbers(q) \cup Numbers(r)
      <3>1. PICK i \in 1 .. Len(q) + Len(r) : a = s[i].n
        BY <2>1 DEF Numbers
      <3>2. CASE i <= Len(q)
        <4>1. i \in 1 .. Len(q)
          BY <2>1, <3>2
        <4> QED
          BY <2>1, <3>1, <4>1 DEF Numbers
      <3>3. CASE ~(i <= Len(q))
        <4>1. i - Len(q) \in 1 .. Len(r) /\ Len(q) + (i - Len(q)) = i
          BY <2>1, <3>3
        <4> QED
          BY <2>1, <3>1, <4>1 DEF Numbers
      <3> QED
        BY <3>2, <3>3
    <2>3. ASSUME NEW a \in Numbers(q) \cup Numbers(r)
          PROVE  a \in Numbers(s)
      <3>1. CASE a \in Numbers(q)
        <4>1. PICK i \in 1 .. Len(q) : a = q[i].n
          BY <2>1, <3>1 DEF Numbers
        <4>2. i \in DOMAIN s
          BY <2>1
        <4> QED
          BY <2>1, <4>1, <4>2 DEF Numbers
      <3>2. CASE a \in Numbers(r)
        <4>1. PICK i \in 1 .. Len(r) : a = r[i].n
          BY <2>1, <3>2 DEF Numbers
        <4>2. Len(q) + i \in DOMAIN s
          BY <2>1
        <4> QED
          BY <2>1, <4>1, <4>2 DEF Numbers
      <3> QED
        BY <3>1, <3>2
    <2> QED
      BY <2>1, <2>2, <2>3 DEF s
  <1> QED
    BY <1>1, <1>2, <1>3, <1>4, <1>5

\* Adding a later packet keeps the order.
LEMMA SortedAppend ==
  ASSUME NEW q \in Seq(Packets), Sorted(q), NEW p \in Packets,
         \A a \in Numbers(q) : a < p.n
  PROVE  Sorted(Append(q, p))
  <1> DEFINE s == Append(q, p)
  <1>1. /\ Len(s) = Len(q) + 1 /\ Len(q) \in Nat
        /\ s[Len(q) + 1] = p
        /\ \A i \in 1 .. Len(q) : s[i] = q[i]
    OBVIOUS
  <1> HIDE DEF s
  <1>2. ASSUME NEW i \in 1 .. Len(q) + 1, NEW j \in 1 .. Len(q) + 1, i < j
        PROVE  s[i].n < s[j].n
    <2>1. i \in 1 .. Len(q) /\ (j \in 1 .. Len(q) \/ j = Len(q) + 1)
      BY <1>1, <1>2
    <2>2. CASE j \in 1 .. Len(q)
      BY <1>1, <1>2, <2>1, <2>2 DEF Sorted
    <2>3. CASE j = Len(q) + 1
      BY <1>1, <2>1, <2>3, PlaceNumber
    <2> QED
      BY <2>1, <2>2, <2>3
  <1> QED
    BY <1>1, <1>2 DEF Sorted, s

\* The front is before the rest, which stays in order.
LEMMA SortedTail ==
  ASSUME NEW q \in Seq(Packets), Sorted(q), q # <<>>
  PROVE  Sorted(Tail(q)) /\ \A a \in Numbers(Tail(q)) : Head(q).n < a
  <1> DEFINE t == Tail(q)
  <1>1. /\ Head(q) = q[1] /\ t \in Seq(Packets)
        /\ Len(t) = Len(q) - 1 /\ DOMAIN t = 1 .. Len(q) - 1
        /\ \A i \in 1 .. Len(q) - 1 : t[i] = q[i + 1]
        /\ Len(q) \in Nat /\ Len(q) >= 1
    OBVIOUS
  <1> HIDE DEF t
  <1>2. ASSUME NEW i \in 1 .. Len(q) - 1, NEW j \in 1 .. Len(q) - 1, i < j
        PROVE  t[i].n < t[j].n
    <2>1. i + 1 \in 1 .. Len(q) /\ j + 1 \in 1 .. Len(q) /\ i + 1 < j + 1
      BY <1>1, <1>2
    <2> QED
      BY <1>1, <2>1 DEF Sorted
  <1>3. ASSUME NEW a \in Numbers(t)
        PROVE  Head(q).n < a
    <2>1. PICK i \in 1 .. Len(q) - 1 : a = t[i].n
      BY <1>1 DEF Numbers
    <2>2. i + 1 \in 1 .. Len(q) /\ 1 \in 1 .. Len(q) /\ 1 < i + 1 /\ a = q[i + 1].n
      BY <1>1, <2>1
    <2> QED
      BY <1>1, <2>2 DEF Sorted
  <1> QED
    BY <1>1, <1>2, <1>3 DEF Sorted, t

\* A queue put before a later one.
LEMMA SortedConcat ==
  ASSUME NEW q \in Seq(Packets), Sorted(q), NEW r \in Seq(Packets), Sorted(r),
         \A a \in Numbers(q), b \in Numbers(r) : a < b
  PROVE  Sorted(q \o r)
  <1> DEFINE s == q \o r
  <1>1. /\ Len(q) \in Nat /\ Len(r) \in Nat
        /\ Len(s) = Len(q) + Len(r)
        /\ \A i \in 1 .. Len(q) : s[i] = q[i]
        /\ \A i \in 1 .. Len(r) : s[Len(q) + i] = r[i]
    OBVIOUS
  <1> HIDE DEF s
  <1>2. ASSUME NEW i \in 1 .. Len(q) + Len(r), NEW j \in 1 .. Len(q) + Len(r), i < j
        PROVE  s[i].n < s[j].n
    <2>1. CASE j <= Len(q)
      <3>1. i \in 1 .. Len(q) /\ j \in 1 .. Len(q)
        BY <1>1, <1>2, <2>1
      <3> QED
        BY <1>1, <1>2, <3>1 DEF Sorted
    <2>2. CASE i <= Len(q) /\ ~(j <= Len(q))
      <3>1. i \in 1 .. Len(q) /\ j - Len(q) \in 1 .. Len(r) /\ Len(q) + (j - Len(q)) = j
        BY <1>1, <2>2
      <3>2. s[i] = q[i] /\ s[j] = r[j - Len(q)]
        BY <1>1, <3>1
      <3>3. q[i].n \in Numbers(q) /\ r[j - Len(q)].n \in Numbers(r)
        BY <3>1, PlaceNumber
      <3> QED
        BY <3>2, <3>3
    <2>3. CASE ~(i <= Len(q))
      <3>1. /\ i - Len(q) \in 1 .. Len(r) /\ Len(q) + (i - Len(q)) = i
            /\ j - Len(q) \in 1 .. Len(r) /\ Len(q) + (j - Len(q)) = j
            /\ i - Len(q) < j - Len(q)
        BY <1>1, <1>2, <2>3
      <3>2. s[i] = r[i - Len(q)] /\ s[j] = r[j - Len(q)]
        BY <1>1, <3>1
      <3> QED
        BY <3>1, <3>2 DEF Sorted
    <2> QED
      BY <2>1, <2>2, <2>3
  <1> QED
    BY <1>1, <1>2 DEF Sorted, s

\* No number occurs twice in a queue that is in order.
LEMMA SortedCount ==
  ASSUME NEW q \in Seq(Packets), Sorted(q)
  PROVE  Cardinality(Numbers(q)) = Len(q)
  <1> DEFINE D == 1 .. Len(q)
             f == [i \in D |-> q[i].n]
  <1>1. Len(q) \in Nat /\ DOMAIN q = D
    OBVIOUS
  <1>2. \A i \in D : q[i].n \in Nat /\ q[i].n \in Numbers(q)
    BY PlaceNumber
  <1>3. f \in Injection(D, Numbers(q))
    <2>1. f \in [D -> Numbers(q)]
      BY <1>2
    <2>2. ASSUME NEW i \in D, NEW j \in D, f[i] = f[j]
          PROVE  i = j
      <3>1. q[i].n = q[j].n /\ q[i].n \in Nat
        BY <1>2, <2>2
      <3>2. ~(i < j) /\ ~(j < i)
        BY <3>1 DEF Sorted
      <3> QED
        BY <3>2
    <2> QED
      BY <2>1, <2>2 DEF Injection, IsInjective
  <1>4. f \in Surjection(D, Numbers(q))
    BY <1>1, <1>2 DEF Surjection, Numbers
  <1>5. f \in Bijection(D, Numbers(q))
    BY <1>3, <1>4 DEF Bijection
  <1>6. ExistsBijection(D, Numbers(q))
    BY <1>5 DEF ExistsBijection
  <1>7. IsFiniteSet(D) /\ Cardinality(D) = Len(q)
    BY <1>1, FS_Interval
  <1> HIDE DEF D, f
  <1> QED
    BY <1>6, <1>7, FS_Bijection

-----------------------------------------------------------------------------
(* The sockets under the engine's handlers.                                 *)

\* Closing sockets, and perhaps forgetting them: a thread that holds the lock
\* keeps its session, and the closed sockets that still know it are past
\* reading.
LEMMA CloseKeeps ==
  ASSUME TypeOK, ReadInv, AttachInv, NEW C \in SUBSET Connections, Close(C),
         UNCHANGED network,
         \A c \in Connections \ C : attached'[c] = attached[c]
  PROVE  /\ closed' \in [Connections -> BOOLEAN]
         /\ linked' \in [Connections -> BOOLEAN]
         /\ ReadInv' /\ AttachInv'
         /\ \A c \in C : closed'[c]
         /\ \A c \in Connections : linked'[c] => linked[c]
         /\ \A c \in Connections \ C : closed'[c] = closed[c]
  <1>1. /\ \A c \in C : network[c] = "locked" => closed[c]
        /\ closed' = [c \in Connections |-> closed[c] \/ c \in C]
        /\ linked' = [c \in Connections |-> linked[c] /\ (c \in C => closed[c])]
    BY DEF Close, MayClose
  <1>2. \A c \in Connections : /\ closed'[c] <=> closed[c] \/ c \in C
                               /\ linked'[c] <=> linked[c] /\ (c \in C => closed[c])
    BY <1>1
  <1>3. /\ closed' \in [Connections -> BOOLEAN]
        /\ linked' \in [Connections -> BOOLEAN]
    BY <1>1 DEF TypeOK
  <1>4. \A c \in Connections \ C : closed'[c] = closed[c]
    BY <1>2, <1>3 DEF TypeOK
  <1>5. ReadInv' /\ AttachInv'
    BY <1>1, <1>2 DEF ReadInv, AttachInv
  <1> QED
    BY <1>2, <1>3, <1>4, <1>5

\* KickPlayer closes both sockets.
LEMMA KickKeeps ==
  ASSUME TypeOK, ReadInv, AttachInv, KickPlayer, UNCHANGED network
  PROVE  /\ closed' \in [Connections -> BOOLEAN]
         /\ linked' \in [Connections -> BOOLEAN]
         /\ attached' \in [Connections -> BOOLEAN]
         /\ forceExit' \in BOOLEAN
         /\ ReadInv' /\ AttachInv'
         /\ \A c \in Connections : linked'[c] => closed'[c]
  <1>1. /\ Close(Sockets) /\ attached' = attached
        /\ forceExit' = (forceExit \/ Sockets # {})
    BY DEF KickPlayer
  <1>2. Sockets \in SUBSET Connections
    BY DEF Sockets
  <1>3. /\ closed' \in [Connections -> BOOLEAN]
        /\ linked' \in [Connections -> BOOLEAN]
        /\ ReadInv' /\ AttachInv'
        /\ \A c \in Sockets : closed'[c]
        /\ \A c \in Connections : linked'[c] => linked[c]
        /\ \A c \in Connections \ Sockets : closed'[c] = closed[c]
    BY <1>1, <1>2, CloseKeeps
  <1>4. \A c \in Connections : linked'[c] => closed'[c]
    BY <1>3 DEF AttachInv, Sockets
  <1> QED
    BY <1>1, <1>3, <1>4 DEF TypeOK

\* LogoutPlayer closes and forgets the instance socket.
LEMMA LogoutKeeps ==
  ASSUME TypeOK, ReadInv, AttachInv, LogoutPlayer, UNCHANGED network
  PROVE  HandlerType' /\ ReadInv' /\ AttachInv' /\ player' = "none"
  <1>1. /\ player' = "none" /\ logoutTime' = FALSE /\ recentlyOut' = TRUE
        /\ Close(Sockets \cap {"instance"})
        /\ attached' = [attached EXCEPT !["instance"] = FALSE]
        /\ UNCHANGED <<forceExit, loading>>
    BY DEF LogoutPlayer
  <1>2. Sockets \cap {"instance"} \in SUBSET Connections
    BY DEF Sockets
  <1>3. attached' \in [Connections -> BOOLEAN]
    BY <1>1 DEF TypeOK
  <1>4. \A c \in Connections \ (Sockets \cap {"instance"}) : attached'[c] = attached[c]
    BY <1>1 DEF TypeOK, Sockets
  <1>5. /\ closed' \in [Connections -> BOOLEAN]
        /\ linked' \in [Connections -> BOOLEAN]
        /\ ReadInv' /\ AttachInv'
    BY <1>1, <1>2, <1>4, CloseKeeps
  <1> QED
    BY <1>1, <1>3, <1>5 DEF HandlerType, TypeOK

\* A handler that leaves the session alone.
LEMMA NothingKeeps ==
  ASSUME TypeOK, ReadInv, AttachInv, Nothing, UNCHANGED network
  PROVE  HandlerType' /\ ReadInv' /\ AttachInv' /\ player' = player
  BY DEF TypeOK, ReadInv, AttachInv, Nothing, sessionVars, HandlerType

\* Without a character no handler brings one: those that may set player are
\* reached only with a character in the world or in transfer.
LEMMA CallKeeps ==
  ASSUME TypeOK, ReadInv, AttachInv, NEW op, Reaches(op), Call(op), UNCHANGED network
  PROVE  HandlerType' /\ ReadInv' /\ AttachInv' /\ (player = "none" => player' = "none")
  <1>1. CASE KickPlayer /\ UNCHANGED <<player, logoutTime>>
             /\ loading' \in {"no", "asked", "queries"} /\ recentlyOut' \in BOOLEAN
    BY <1>1, KickKeeps DEF HandlerType, TypeOK
  <1>2. CASE LogoutPlayer
    BY <1>2, LogoutKeeps
  <1>3. CASE op # "CMSG_ENUM_CHARACTERS" /\ Nothing
    BY <1>3, NothingKeeps
  <1>4. CASE /\ UNCHANGED <<closed, linked, attached, forceExit, player>>
             /\ loading' \in {"no", "asked", "queries"}
             /\ recentlyOut' \in BOOLEAN
             /\ logoutTime' \in BOOLEAN
    BY <1>4 DEF TypeOK, ReadInv, AttachInv, HandlerType
  <1>5. CASE /\ player # "none"
             /\ player' \in {"inWorld", "transfer"}
             /\ UNCHANGED <<closed, linked, attached, forceExit, loading, recentlyOut,
                            logoutTime>>
    BY <1>5 DEF TypeOK, ReadInv, AttachInv, HandlerType
  <1>6. op = "CMSG_MOVE_HEARTBEAT" => player # "none"
    <2>1. Status("CMSG_MOVE_HEARTBEAT") = "LOGGEDIN"
      BY DEF Status, OpcodeTable
    <2> QED
      BY <2>1 DEF Reaches
  <1>7. op = "CMSG_WORLD_PORT_RESPONSE" => player # "none"
    <2>1. Status("CMSG_WORLD_PORT_RESPONSE") = "TRANSFER"
      BY DEF Status, OpcodeTable
    <2> QED
      BY <2>1 DEF Reaches
  <1>8. CASE op = "CMSG_PLAYER_LOGIN" /\ HandlePlayerLoginOpcode
    BY <1>1, <1>4, <1>8 DEF HandlePlayerLoginOpcode, TypeOK
  <1>9. CASE op = "CMSG_MOVE_HEARTBEAT" /\ HandleMovementOpcodes
    BY <1>5, <1>6, <1>9 DEF HandleMovementOpcodes
  <1>10. CASE op = "CMSG_LOGOUT_REQUEST" /\ HandleLogoutRequestOpcode
    BY <1>2, <1>4, <1>10 DEF HandleLogoutRequestOpcode, TypeOK
  <1>11. CASE op = "CMSG_WORLD_PORT_RESPONSE" /\ HandleMoveWorldportAck
    BY <1>2, <1>5, <1>7, <1>11 DEF HandleMoveWorldportAck
  <1>12. CASE op = "CMSG_ENUM_CHARACTERS" /\ HandleCharEnumOpcode
    BY <1>4, <1>12 DEF HandleCharEnumOpcode, TypeOK
  <1>13. CASE /\ KickPlayer
              /\ recentlyOut' = (recentlyOut /\ op # "CMSG_ENUM_CHARACTERS")
              /\ UNCHANGED <<player, loading, logoutTime>>
    BY <1>1, <1>13 DEF TypeOK
  <1> QED
    BY <1>3, <1>8, <1>9, <1>10, <1>11, <1>12, <1>13 DEF Call

-----------------------------------------------------------------------------
(* The steps of the network threads.                                        *)

\* Steps that leave the packets alone.
LEMMA PacketsKeep ==
  ASSUME OrderInv, PacketInv,
         UNCHANGED <<requeue, recvQueue, freed, received, lastCalled>>,
         requeue # <<>> => phase' = "loop" /\ player' = "none"
  PROVE  OrderInv' /\ PacketInv'
  BY DEF OrderInv, PacketInv, Numbers, Sorted

\* The threads that hold a lock can be counted.
LEMMA LockedFinite ==
  /\ IsFiniteSet(Connections)
  /\ \A S \in SUBSET Connections : IsFiniteSet(S) /\ Cardinality(S) \in Nat
  <1>1. IsFiniteSet(Connections)
    <2>1. IsFiniteSet({}) /\ Connections = ({} \cup {"realm"}) \cup {"instance"}
      BY FS_EmptySet DEF Connections
    <2>2. IsFiniteSet({} \cup {"realm"})
      BY <2>1, FS_AddElement
    <2> QED
      BY <2>1, <2>2, FS_AddElement
  <1> QED
    BY <1>1, FS_Subset, FS_CardinalityType

\* The session starts with its realm socket and without packets.
LEMMA InitInv ==
  ASSUME Init
  PROVE  SessionInv
  <1>1. TypeOK
    <2>1. recvQueue \in Seq(Packets) /\ requeue \in Seq(Packets)
      BY DEF Init
    <2>2. /\ received \in 0 .. MaxPackets /\ lastCalled \in 0 .. MaxPackets
          /\ processed \in 0 .. (MaxProcessed + 1)
      BY ConstantsAssumption DEF Init
    <2>3. /\ network \in [Connections -> {"idle", "reading", "locked", "closing"}]
          /\ closed \in [Connections -> BOOLEAN]
          /\ linked \in [Connections -> BOOLEAN]
          /\ attached \in [Connections -> BOOLEAN]
      BY DEF Init
    <2> QED
      BY <2>1, <2>2, <2>3 DEF Init, TypeOK
  <1>2. BoundInv
    <2>1. Locked = {}
      BY DEF Init, Locked
    <2> QED
      BY <2>1, FS_EmptySet, ConstantsAssumption DEF Init, BoundInv
  <1>3. ReadInv /\ AttachInv /\ LinkInv /\ DropInv
    BY DEF Init, ReadInv, AttachInv, LinkInv, DropInv
  <1>4. OrderInv /\ PacketInv
    <2>1. Numbers(requeue) = {} /\ Numbers(recvQueue) = {}
      BY DEF Init, Numbers
    <2>2. Sorted(requeue) /\ Sorted(recvQueue)
      BY DEF Init, Sorted
    <2>3. 1 .. received = {}
      BY DEF Init
    <2> QED
      BY <2>1, <2>2, <2>3 DEF Init, OrderInv, PacketInv
  <1> QED
    BY <1>1, <1>2, <1>3, <1>4 DEF SessionInv

\* A new instance connection does not know the session.
LEMMA ConnectInv ==
  ASSUME SessionInv, Connect
  PROVE  SessionInv'
  <1>1. /\ network["instance"] = "idle"
        /\ closed' = [closed EXCEPT !["instance"] = FALSE]
        /\ linked' = [linked EXCEPT !["instance"] = FALSE]
        /\ UNCHANGED <<network, alive, inQueue, sessionVars, updateVars, packetVars,
                       lastCalled>>
    BY DEF Connect
  <1>2. TypeOK'
    <2>1. closed' \in [Connections -> BOOLEAN] /\ linked' \in [Connections -> BOOLEAN]
      BY <1>1 DEF SessionInv, TypeOK
    <2> QED
      BY <1>1, <2>1 DEF SessionInv, TypeOK, sessionVars, updateVars, packetVars
  <1>3. BoundInv'
    BY <1>1 DEF SessionInv, BoundInv, Locked, packetVars
  <1>4. ReadInv' /\ AttachInv' /\ LinkInv' /\ DropInv'
    BY <1>1 DEF SessionInv, TypeOK, ReadInv, AttachInv, LinkInv, DropInv, sessionVars,
       updateVars, packetVars, Connections
  <1>5. OrderInv' /\ PacketInv'
    BY <1>1, PacketsKeep DEF SessionInv, OrderInv, sessionVars, updateVars, packetVars
  <1> QED
    BY <1>2, <1>3, <1>4, <1>5 DEF SessionInv

\* Steps of a network thread that only move it, to a place without the lock.
LEMMA MoveInv ==
  ASSUME SessionInv, NEW c \in Connections, network[c] # "locked",
         NEW place \in {"idle", "reading", "closing"},
         network' = [network EXCEPT ![c] = place],
         place = "reading" => ~closed[c],
         closed' \in [Connections -> BOOLEAN],
         \A d \in Connections \ {c} : closed'[d] = closed[d],
         closed[c] => closed'[c],
         place = "reading" => closed'[c] = closed[c],
         linked' \in [Connections -> BOOLEAN],
         \A d \in Connections : linked'[d] => linked[d],
         \A d \in Connections \ {c} : linked'[d] = linked[d],
         UNCHANGED <<alive, inQueue, sessionVars, updateVars, packetVars, lastCalled>>
  PROVE  SessionInv'
  <1>1. TypeOK'
    <2>1. network' \in [Connections -> {"idle", "reading", "locked", "closing"}]
      BY DEF SessionInv, TypeOK
    <2> QED
      BY <2>1 DEF SessionInv, TypeOK, sessionVars, updateVars, packetVars
  <1>2. BoundInv'
    <2>1. Locked' = Locked
      BY DEF Locked, SessionInv, TypeOK
    <2> QED
      BY <2>1 DEF SessionInv, BoundInv, packetVars
  <1>3. \A d \in Connections \ {c} : network'[d] = network[d]
    BY DEF SessionInv, TypeOK
  <1>4. network'[c] = place
    BY DEF SessionInv, TypeOK
  <1>5. ReadInv' /\ AttachInv' /\ DropInv'
    BY <1>3, <1>4 DEF SessionInv, TypeOK, ReadInv, AttachInv, DropInv, sessionVars,
       updateVars, packetVars
  <1>6. LinkInv'
    BY <1>3, <1>4 DEF SessionInv, TypeOK, LinkInv, updateVars, Connections
  <1>7. OrderInv' /\ PacketInv'
    BY PacketsKeep DEF SessionInv, OrderInv, sessionVars, updateVars, packetVars
  <1> QED
    BY <1>1, <1>2, <1>5, <1>6, <1>7 DEF SessionInv

\* The steps without the lock are such moves.
LEMMA UnlockedInv ==
  ASSUME SessionInv, NEW c \in Connections,
         BeginRead(c) \/ EndRead(c) \/ CloseSocket(c) \/ OnClose(c)
  PROVE  SessionInv'
  <1>0. TypeOK
    BY DEF SessionInv
  <1>1. CASE BeginRead(c)
    <2>1. network[c] = "idle" /\ network' = [network EXCEPT ![c] = "reading"] /\ ~closed[c]
      BY <1>1 DEF BeginRead, At
    <2> QED
      BY <1>0, <1>1, <2>1, MoveInv DEF BeginRead, TypeOK
  <1>2. CASE EndRead(c)
    <2>1. network[c] = "reading" /\ network' = [network EXCEPT ![c] = "idle"]
      BY <1>2 DEF EndRead, At
    <2> QED
      BY <1>0, <1>2, <2>1, MoveInv DEF EndRead, TypeOK
  <1>3. CASE CloseSocket(c)
    <2> DEFINE place == IF closed[c] THEN "idle" ELSE "closing"
    <2>1. /\ network[c] # "locked"
          /\ network' = [network EXCEPT ![c] = place]
          /\ place \in {"idle", "reading", "closing"} /\ place # "reading"
          /\ closed' = [closed EXCEPT ![c] = TRUE]
          /\ UNCHANGED <<linked, alive, inQueue, sessionVars, updateVars, packetVars,
                         lastCalled>>
      BY <1>3 DEF CloseSocket
    <2>2. /\ closed' \in [Connections -> BOOLEAN] /\ closed'[c]
          /\ \A d \in Connections \ {c} : closed'[d] = closed[d]
      BY <1>0, <2>1 DEF TypeOK
    <2> HIDE DEF place
    <2> QED
      BY <1>0, <2>1, <2>2, MoveInv DEF TypeOK
  <1>4. CASE OnClose(c)
    <2>1. /\ network[c] = "closing" /\ network' = [network EXCEPT ![c] = "idle"]
          /\ linked' = [linked EXCEPT ![c] = FALSE]
          /\ UNCHANGED <<closed, alive, inQueue, sessionVars, updateVars, packetVars,
                         lastCalled>>
      BY <1>4 DEF OnClose, At
    <2>2. /\ linked' \in [Connections -> BOOLEAN]
          /\ \A d \in Connections : linked'[d] => linked[d]
          /\ \A d \in Connections \ {c} : linked'[d] = linked[d]
      BY <1>0, <2>1 DEF TypeOK
    <2> QED
      BY <1>0, <2>1, <2>2, MoveInv DEF TypeOK
  <1> QED
    BY <1>1, <1>2, <1>3, <1>4

\* ReadDataHandler takes the lock of a socket that knows the session.
LEMMA LockInv ==
  ASSUME SessionInv, NEW c \in Connections, Lock(c)
  PROVE  SessionInv'
  <1>1. /\ linked[c] /\ network[c] = "reading"
        /\ received + Cardinality({d \in Connections : network[d] = "locked"}) < MaxPackets
        /\ network' = [network EXCEPT ![c] = "locked"]
        /\ UNCHANGED <<closed, linked, alive, inQueue, sessionVars, updateVars,
                       packetVars, lastCalled>>
    BY DEF Lock, At
  <1>2. TypeOK'
    BY <1>1 DEF SessionInv, TypeOK, sessionVars, updateVars, packetVars
  <1>3. BoundInv'
    <2>1. Locked' = Locked \cup {c} /\ c \notin Locked /\ Locked \in SUBSET Connections
      BY <1>1 DEF Locked, SessionInv, TypeOK
    <2>2. Cardinality(Locked') = Cardinality(Locked) + 1 /\ Cardinality(Locked) \in Nat
      BY <2>1, LockedFinite, FS_AddElement
    <2>3. received + Cardinality(Locked) < MaxPackets
      BY <1>1 DEF Locked
    <2> QED
      BY <1>1, <2>2, <2>3, ConstantsAssumption DEF BoundInv, SessionInv, TypeOK, packetVars
  <1>4. ReadInv' /\ AttachInv' /\ LinkInv' /\ DropInv'
    BY <1>1 DEF SessionInv, TypeOK, ReadInv, AttachInv, LinkInv, DropInv, sessionVars,
       updateVars, packetVars
  <1>5. OrderInv' /\ PacketInv'
    BY <1>1, PacketsKeep DEF SessionInv, OrderInv, sessionVars, updateVars, packetVars
  <1> QED
    BY <1>2, <1>3, <1>4, <1>5 DEF SessionInv

\* QueuePacket runs on a session that is not deleted and appends the packet with
\* the next number.
LEMMA QueuePacketInv ==
  ASSUME SessionInv, NEW c \in Connections, QueuePacket(c)
  PROVE  SessionInv'
  <1>1. /\ network[c] = "locked"
        /\ network' = [network EXCEPT ![c] = "reading"]
        /\ received' = received + 1
        /\ UNCHANGED <<closed, linked, alive, inQueue, sessionVars, updateVars, freed,
                       lastCalled>>
    BY DEF QueuePacket, At
  <1>2. PICK op \in Opcodes : recvQueue' = Append(recvQueue, [n |-> received + 1, op |-> op])
    BY DEF QueuePacket
  <1>3. TypeOK /\ BoundInv /\ ReadInv /\ OrderInv /\ PacketInv
    BY DEF SessionInv
  <1> DEFINE p == [n |-> received + 1, op |-> op]
  <1>4. /\ Locked' = Locked \ {c} /\ c \in Locked /\ Locked \in SUBSET Connections
    BY <1>1, <1>3 DEF Locked, TypeOK
  <1>5. /\ Cardinality(Locked') = Cardinality(Locked) - 1
        /\ Cardinality(Locked) \in Nat /\ Cardinality(Locked') \in Nat
    BY <1>4, LockedFinite, FS_RemoveElement
  <1>6. received + 1 \in 1 .. MaxPackets
    BY <1>3, <1>5, ConstantsAssumption DEF BoundInv, TypeOK
  <1>7. p \in Packets /\ p.n = received + 1
    BY <1>6 DEF Packets
  <1> HIDE DEF p
  <1>8. /\ recvQueue' \in Seq(Packets)
        /\ Numbers(recvQueue') = Numbers(recvQueue) \cup {received + 1}
    BY <1>2, <1>3, <1>7, NumbersOf DEF TypeOK, p
  <1>9. TypeOK'
    BY <1>1, <1>3, <1>6, <1>8 DEF TypeOK, sessionVars, updateVars
  <1>10. BoundInv'
    BY <1>1, <1>3, <1>5, ConstantsAssumption DEF BoundInv, TypeOK
  <1>11. ReadInv' /\ AttachInv' /\ LinkInv' /\ DropInv'
    <2>1. linked[c] /\ ~closed[c]
      BY <1>1, <1>3 DEF ReadInv
    <2>2. alive
      BY <2>1 DEF SessionInv, DropInv
    <2> QED
      BY <1>1, <2>1, <2>2 DEF SessionInv, TypeOK, ReadInv, AttachInv, LinkInv, DropInv,
         sessionVars, updateVars
  <1>12. /\ \A a \in Numbers(requeue) \cup Numbers(recvQueue) : a \in 1 .. received
         /\ freed \subseteq 1 .. received
    BY <1>3 DEF PacketInv
  <1>13. OrderInv'
    <2>1. Sorted(recvQueue')
      <3>1. \A a \in Numbers(recvQueue) : a < p.n
        BY <1>3, <1>7, <1>12 DEF TypeOK
      <3> QED
        BY <1>2, <1>3, <1>7, <3>1, SortedAppend DEF OrderInv, TypeOK, p
    <2>2. \A a \in Numbers(requeue), b \in Numbers(recvQueue') : a < b
      BY <1>3, <1>8, <1>12 DEF OrderInv, TypeOK
    <2> QED
      BY <1>1, <1>3, <2>1, <2>2 DEF OrderInv, updateVars, sessionVars
  <1>14. PacketInv'
    <2>1. 1 .. received + 1 = (1 .. received) \cup {received + 1}
      BY <1>3 DEF TypeOK
    <2>2. received + 1 \notin 1 .. received
      BY <1>3 DEF TypeOK
    <2>3. lastCalled < received + 1 /\ lastCalled <= received + 1
      BY <1>3 DEF PacketInv, TypeOK
    <2> QED
      BY <1>1, <1>3, <1>8, <1>12, <2>1, <2>2, <2>3 DEF PacketInv, updateVars
  <1> QED
    BY <1>9, <1>10, <1>11, <1>13, <1>14 DEF SessionInv

-----------------------------------------------------------------------------
(* The steps of the engine.                                                 *)

\* The type follows from the handlers' part and the rest.
LEMMA EngineType ==
  ASSUME TypeOK, HandlerType', UNCHANGED <<network, recvQueue, requeue, received, freed,
                                           lastCalled>>,
         alive' \in BOOLEAN, inQueue' \in BOOLEAN,
         phase' \in {"idle", "link", "loop", "callbacks", "finish", "maps", "dropped"},
         updater' \in {"world", "map"},
         processed' \in 0 .. (MaxProcessed + 1)
  PROVE  TypeOK'
  BY DEF TypeOK, HandlerType

\* The engine moves no network thread and receives nothing.
LEMMA BoundKeeps ==
  ASSUME BoundInv, UNCHANGED <<network, received>>
  PROVE  BoundInv'
  BY DEF BoundInv, Locked

\* A packet is taken: it is put back, or handled and deleted.
LEMMA ProcessPacketInv ==
  ASSUME SessionInv, ProcessPacket
  PROVE  SessionInv' /\ lastCalled' >= lastCalled
  <1> DEFINE p == Head(recvQueue)
  <1>1. /\ phase = "loop" /\ recvQueue # <<>> /\ processed <= MaxProcessed
        /\ recvQueue' = Tail(recvQueue)
        /\ processed' = processed + 1
        /\ requeue' = IF PutBack(p.op) THEN Append(requeue, p) ELSE requeue
        /\ freed' = IF PutBack(p.op) THEN freed ELSE freed \cup {p.n}
        /\ lastCalled' = IF Reaches(p.op) /\ Status(p.op) = "LOGGEDIN"
                         THEN p.n ELSE lastCalled
        /\ UNCHANGED <<network, alive, inQueue, phase, updater, received>>
    BY DEF ProcessPacket, TakesNext, Deletes
  <1>2. \/ Reaches(p.op) /\ Call(p.op)
        \/ ~Reaches(p.op) /\ Nothing
    BY Zenon DEF ProcessPacket
  <1>3. TypeOK /\ BoundInv /\ ReadInv /\ AttachInv /\ DropInv /\ OrderInv /\ PacketInv
    BY DEF SessionInv
  <1>4. /\ p \in Packets /\ p.n \in 1 .. MaxPackets /\ p.n \in Nat
        /\ Tail(recvQueue) \in Seq(Packets)
        /\ Numbers(recvQueue) = {p.n} \cup Numbers(recvQueue')
        /\ Append(requeue, p) \in Seq(Packets)
        /\ Numbers(Append(requeue, p)) = Numbers(requeue) \cup {p.n}
    BY <1>1, <1>3, NumbersOf, PacketNumber DEF TypeOK
  <1>5. Sorted(recvQueue') /\ \A a \in Numbers(recvQueue') : p.n < a
    BY <1>1, <1>3, SortedTail DEF OrderInv, TypeOK
  <1>6. /\ Numbers(requeue) \subseteq Nat /\ Numbers(recvQueue') \subseteq Nat
        /\ p.n \in 1 .. received
    <2>1. Numbers(requeue) \cup Numbers(recvQueue) \subseteq 1 .. received
      BY <1>3 DEF PacketInv
    <2> QED
      BY <1>4, <2>1
  <1> HIDE DEF p
  <1>7. HandlerType' /\ ReadInv' /\ AttachInv' /\ (player = "none" => player' = "none")
    BY <1>1, <1>2, <1>3, CallKeeps, NothingKeeps
  <1>8. PutBack(p.op) => player = "none" /\ ~(Reaches(p.op) /\ Status(p.op) = "LOGGEDIN")
    BY DEF PutBack, Reaches
  <1>9. Reaches(p.op) /\ Status(p.op) = "LOGGEDIN" => player = "inWorld"
    BY DEF Reaches
  <1>10. processed' \in 0 .. (MaxProcessed + 1)
    BY <1>1, <1>3, ConstantsAssumption DEF TypeOK
  <1>11. LinkInv' /\ DropInv'
    BY <1>1, <1>3 DEF LinkInv, DropInv
  <1>12. BoundInv'
    BY <1>1, <1>3, BoundKeeps
  <1>13. CASE PutBack(p.op)
    <2>1. /\ requeue' = Append(requeue, p) /\ freed' = freed /\ lastCalled' = lastCalled
          /\ player' = "none"
      BY <1>1, <1>7, <1>8, <1>13
    <2>2. TypeOK'
      BY <1>1, <1>3, <1>4, <1>7, <1>10, <2>1 DEF TypeOK, HandlerType
    <2>3. OrderInv'
      <3>1. \A a \in Numbers(requeue) : a < p.n
        BY <1>3, <1>4 DEF OrderInv
      <3>2. Sorted(requeue')
        BY <1>3, <1>4, <2>1, <3>1, SortedAppend DEF OrderInv, TypeOK
      <3>3. \A a \in Numbers(requeue'), b \in Numbers(recvQueue') : a < b
        BY <1>3, <1>4, <1>5, <2>1 DEF OrderInv
      <3> QED
        BY <1>1, <1>5, <2>1, <3>2, <3>3 DEF OrderInv
    <2>4. PacketInv'
      <3>1. Numbers(requeue') \cup Numbers(recvQueue') = Numbers(requeue) \cup Numbers(recvQueue)
        BY <1>4, <2>1
      <3> QED
        BY <1>1, <1>3, <2>1, <3>1 DEF PacketInv
    <2> QED
      BY <1>3, <1>7, <1>11, <1>12, <2>1, <2>2, <2>3, <2>4 DEF SessionInv, TypeOK
  <1>14. CASE ~PutBack(p.op)
    <2>1. requeue' = requeue /\ freed' = freed \cup {p.n}
      BY <1>1, <1>14
    <2>2. lastCalled' = lastCalled \/ (lastCalled' = p.n /\ requeue = <<>>)
      BY <1>1, <1>3, <1>9 DEF OrderInv
    <2>3. lastCalled < p.n /\ lastCalled' \in {lastCalled, p.n}
      BY <1>3, <1>4, <2>2 DEF PacketInv
    <2>4. TypeOK'
      <3>1. p.n \in 0 .. MaxPackets
        BY <1>4, ConstantsAssumption
      <3>2. lastCalled' \in 0 .. MaxPackets
        BY <1>3, <2>3, <3>1 DEF TypeOK
      <3>3. freed' \subseteq 1 .. MaxPackets
        BY <1>3, <1>4, <2>1 DEF TypeOK
      <3> QED
        BY <1>1, <1>3, <1>4, <1>7, <1>10, <2>1, <3>2, <3>3 DEF TypeOK, HandlerType
    <2>5. OrderInv'
      BY <1>1, <1>3, <1>4, <1>5, <1>7, <2>1 DEF OrderInv
    <2>6. PacketInv'
      <3>1. p.n \notin Numbers(requeue) /\ p.n \notin Numbers(recvQueue')
        <4>1. ~(p.n < p.n) /\ p.n \in Numbers(recvQueue)
          BY <1>4
        <4> QED
          BY <1>3, <1>5, <4>1 DEF OrderInv
      <3>2. freed' \cup Numbers(requeue') \cup Numbers(recvQueue') = 1 .. received'
        BY <1>1, <1>3, <1>4, <2>1 DEF PacketInv
      <3>3. freed' \cap (Numbers(requeue') \cup Numbers(recvQueue')) = {}
        BY <1>3, <1>4, <2>1, <3>1 DEF PacketInv
      <3>4. \A a \in Numbers(requeue') \cup Numbers(recvQueue') : lastCalled' < a
        <4>1. CASE lastCalled' = lastCalled
          BY <1>3, <1>4, <2>1, <4>1 DEF PacketInv
        <4>2. CASE lastCalled' = p.n /\ requeue = <<>>
          <5>1. Numbers(requeue') = {}
            BY <2>1, <4>2 DEF Numbers
          <5> QED
            BY <1>5, <4>2, <5>1
        <4> QED
          BY <2>2, <4>1, <4>2
      <3>5. lastCalled' <= received'
        BY <1>1, <1>3, <1>6, <2>3 DEF PacketInv, TypeOK
      <3> QED
        BY <3>2, <3>3, <3>4, <3>5 DEF PacketInv
    <2>7. lastCalled' >= lastCalled
      BY <1>3, <1>4, <2>3 DEF TypeOK
    <2> QED
      BY <1>7, <1>11, <1>12, <2>4, <2>5, <2>6, <2>7 DEF SessionInv
  <1> QED
    BY <1>13, <1>14

\* readd puts the packets back where they stood.
LEMMA EndLoopInv ==
  ASSUME SessionInv, EndLoop
  PROVE  SessionInv'
  <1>1. /\ phase = "loop" /\ phase' = "callbacks"
        /\ recvQueue' = requeue \o recvQueue
        /\ requeue' = <<>>
        /\ UNCHANGED <<network, closed, linked, alive, inQueue, sessionVars, updater,
                       processed, received, freed, lastCalled>>
    BY DEF EndLoop, Readd, socketVars
  <1>2. TypeOK /\ BoundInv /\ ReadInv /\ AttachInv /\ DropInv /\ OrderInv /\ PacketInv
    BY DEF SessionInv
  <1>3. /\ recvQueue' \in Seq(Packets)
        /\ Numbers(recvQueue') = Numbers(requeue) \cup Numbers(recvQueue)
        /\ Numbers(requeue') = {}
        /\ requeue' \in Seq(Packets)
    BY <1>1, <1>2, NumbersOf DEF TypeOK
  <1>4. Sorted(recvQueue') /\ Sorted(requeue')
    <2>1. Sorted(recvQueue')
      BY <1>1, <1>2, SortedConcat DEF OrderInv, TypeOK
    <2> QED
      BY <1>1, <2>1 DEF Sorted
  <1>5. TypeOK'
    BY <1>1, <1>2, <1>3 DEF TypeOK, sessionVars
  <1>6. ReadInv' /\ AttachInv' /\ LinkInv' /\ DropInv'
    BY <1>1, <1>2 DEF ReadInv, AttachInv, LinkInv, DropInv, sessionVars
  <1>7. OrderInv' /\ PacketInv'
    BY <1>1, <1>2, <1>3, <1>4 DEF OrderInv, PacketInv
  <1> QED
    BY <1>1, <1>2, <1>5, <1>6, <1>7, BoundKeeps DEF SessionInv

\* A character is loaded only when nothing is put back any more.
LEMMA ProcessQueryCallbacksInv ==
  ASSUME SessionInv, ProcessQueryCallbacks
  PROVE  SessionInv'
  <1>1. /\ phase = "callbacks"
        /\ phase' \in {"finish", "idle"}
        /\ UNCHANGED <<network, alive, updater, processed, requeue, recvQueue, received,
                       freed, lastCalled>>
    BY DEF ProcessQueryCallbacks, packetVars
  <1>2. TypeOK /\ BoundInv /\ ReadInv /\ AttachInv /\ DropInv /\ OrderInv /\ PacketInv
    BY DEF SessionInv
  <1>3. HandlerType' /\ ReadInv' /\ AttachInv' /\ inQueue' \in BOOLEAN
    <2>1. CASE /\ loading' = "no" /\ player' = "inWorld"
               /\ UNCHANGED <<closed, linked, attached, forceExit, inQueue, recentlyOut,
                              logoutTime>>
      BY <1>1, <1>2, <2>1 DEF TypeOK, HandlerType, ReadInv, AttachInv
    <2>2. CASE /\ loading' = "no" /\ KickPlayer
               /\ UNCHANGED <<player, inQueue, recentlyOut, logoutTime>>
      BY <1>1, <1>2, <2>2, KickKeeps DEF TypeOK, HandlerType
    <2>3. CASE inQueue' \in BOOLEAN /\ Nothing
      BY <1>1, <1>2, <2>3, NothingKeeps
    <2> QED
      BY <1>2, <2>1, <2>2, <2>3 DEF ProcessQueryCallbacks, TypeOK
  <1>4. TypeOK'
    BY <1>1, <1>2, <1>3, EngineType DEF TypeOK
  <1>5. LinkInv' /\ DropInv'
    BY <1>1, <1>2 DEF LinkInv, DropInv
  <1>6. OrderInv' /\ PacketInv'
    BY <1>1, <1>2, PacketsKeep DEF OrderInv
  <1> QED
    BY <1>1, <1>2, <1>3, <1>4, <1>5, <1>6, BoundKeeps DEF SessionInv

\* The timed logout.
LEMMA TimedLogoutInv ==
  ASSUME SessionInv, TimedLogout
  PROVE  SessionInv'
  <1>1. /\ phase = "finish" /\ LogoutPlayer
        /\ UNCHANGED <<network, alive, inQueue, phase, updater, processed, requeue,
                       recvQueue, received, freed, lastCalled>>
    BY DEF TimedLogout, updateVars, packetVars
  <1>2. TypeOK /\ BoundInv /\ ReadInv /\ AttachInv /\ DropInv /\ OrderInv /\ PacketInv
    BY DEF SessionInv
  <1>3. HandlerType' /\ ReadInv' /\ AttachInv'
    BY <1>1, <1>2, LogoutKeeps
  <1>4. TypeOK'
    BY <1>1, <1>2, <1>3, EngineType DEF TypeOK
  <1>5. LinkInv' /\ DropInv'
    BY <1>1, <1>2 DEF LinkInv, DropInv
  <1>6. OrderInv' /\ PacketInv'
    BY <1>1, <1>2, PacketsKeep DEF OrderInv
  <1> QED
    BY <1>1, <1>2, <1>3, <1>4, <1>5, <1>6, BoundKeeps DEF SessionInv

\* Update returns: a session that is to be deleted has closed its sockets.
LEMMA FinishInv ==
  ASSUME SessionInv, Finish
  PROVE  SessionInv'
  <1>1. /\ phase = "finish"
        /\ UNCHANGED <<network, alive, inQueue, forceExit, player, loading, recentlyOut,
                       logoutTime, updater, processed, requeue, recvQueue, received,
                       freed, lastCalled>>
    BY DEF Finish, packetVars
  <1>2. TypeOK /\ BoundInv /\ ReadInv /\ AttachInv /\ DropInv /\ OrderInv /\ PacketInv
    BY DEF SessionInv
  <1>3. CASE /\ Close(Sockets)
             /\ attached' = [c \in Connections |-> FALSE]
             /\ phase' = "dropped"
    <2>1. /\ Sockets \in SUBSET Connections
          /\ \A c \in Connections \ Sockets : attached'[c] = attached[c]
      BY <1>2, <1>3 DEF Sockets, TypeOK
    <2>2. /\ closed' \in [Connections -> BOOLEAN]
          /\ linked' \in [Connections -> BOOLEAN]
          /\ ReadInv' /\ AttachInv'
          /\ \A c \in Sockets : closed'[c]
          /\ \A c \in Connections : linked'[c] => linked[c]
          /\ \A c \in Connections \ Sockets : closed'[c] = closed[c]
      BY <1>1, <1>2, <1>3, <2>1, CloseKeeps
    <2>3. \A c \in Connections : linked'[c] => closed'[c]
      BY <1>2, <2>2 DEF AttachInv, Sockets
    <2>4. TypeOK'
      BY <1>1, <1>2, <1>3, <2>2, EngineType DEF TypeOK, HandlerType
    <2>5. LinkInv' /\ DropInv'
      BY <1>1, <1>2, <1>3, <2>3 DEF LinkInv, DropInv
    <2>6. OrderInv' /\ PacketInv'
      BY <1>1, <1>2, PacketsKeep DEF OrderInv
    <2> QED
      BY <1>1, <1>2, <2>2, <2>4, <2>5, <2>6, BoundKeeps DEF SessionInv
  <1>4. CASE phase' = "maps" /\ UNCHANGED <<closed, linked, attached>>
    <2>1. TypeOK'
      BY <1>1, <1>2, <1>4, EngineType DEF TypeOK, HandlerType
    <2>2. ReadInv' /\ AttachInv' /\ LinkInv' /\ DropInv'
      BY <1>1, <1>2, <1>4 DEF ReadInv, AttachInv, LinkInv, DropInv
    <2>3. OrderInv' /\ PacketInv'
      BY <1>1, <1>2, PacketsKeep DEF OrderInv
    <2> QED
      BY <1>1, <1>2, <2>1, <2>2, <2>3, BoundKeeps DEF SessionInv
  <1> QED
    BY <1>3, <1>4 DEF Finish

\* The destructor deletes what is still queued.
LEMMA DestroyInv ==
  ASSUME SessionInv, Destroy
  PROVE  SessionInv'
  <1>1. /\ phase = "dropped" /\ alive /\ alive' = FALSE
        /\ Close(Sockets)
        /\ attached' = [c \in Connections |-> FALSE]
        /\ player' = "none"
        /\ freed' = freed \cup Numbers(recvQueue)
        /\ recvQueue' = <<>>
        /\ UNCHANGED <<network, inQueue, forceExit, loading, recentlyOut, logoutTime,
                       phase, updater, processed, requeue, received, lastCalled>>
    BY DEF Destroy, updateVars
  <1>2. TypeOK /\ BoundInv /\ ReadInv /\ AttachInv /\ DropInv /\ OrderInv /\ PacketInv
    BY DEF SessionInv
  <1>3. /\ Sockets \in SUBSET Connections
        /\ \A c \in Connections \ Sockets : attached'[c] = attached[c]
    BY <1>1, <1>2 DEF Sockets, TypeOK
  <1>4. /\ closed' \in [Connections -> BOOLEAN]
        /\ linked' \in [Connections -> BOOLEAN]
        /\ ReadInv' /\ AttachInv'
        /\ \A c \in Sockets : closed'[c]
        /\ \A c \in Connections : linked'[c] => linked[c]
        /\ \A c \in Connections \ Sockets : closed'[c] = closed[c]
    BY <1>1, <1>2, <1>3, CloseKeeps
  <1>5. requeue = <<>> /\ Numbers(requeue) = {} /\ Numbers(recvQueue') = {}
    BY <1>1, <1>2 DEF OrderInv, Numbers
  <1>6. TypeOK'
    <2>1. Numbers(recvQueue) \subseteq 1 .. MaxPackets
      BY <1>2, NumbersOf DEF TypeOK
    <2>2. freed' \subseteq 1 .. MaxPackets
      BY <1>1, <1>2, <2>1 DEF TypeOK
    <2>3. recvQueue' \in Seq(Packets)
      BY <1>1
    <2> QED
      BY <1>1, <1>2, <1>4, <2>2, <2>3 DEF TypeOK
  <1>7. LinkInv' /\ DropInv'
    <2>1. \A c \in Connections : linked'[c] => closed'[c]
      BY <1>1, <1>2, <1>4 DEF DropInv
    <2> QED
      BY <1>1, <2>1 DEF LinkInv, DropInv
  <1>8. OrderInv'
    BY <1>1, <1>2, <1>5 DEF OrderInv, Sorted
  <1>9. PacketInv'
    <2>1. Numbers(requeue') = {}
      BY <1>1, <1>5 DEF Numbers
    <2> QED
      BY <1>1, <1>2, <1>5, <2>1 DEF PacketInv
  <1> QED
    BY <1>1, <1>2, <1>4, <1>6, <1>7, <1>8, <1>9, BoundKeeps DEF SessionInv

\* Update starts, and may close the realm socket.
LEMMA EnterInv ==
  ASSUME SessionInv, NEW who \in {"world", "map"}, Enter(who), phase \in {"idle", "maps"}
  PROVE  SessionInv'
  <1>1. /\ phase' = "loop" /\ updater' = who /\ processed' = 0
        /\ UNCHANGED <<network, alive, inQueue, sessionVars, requeue, recvQueue, received,
                       freed, lastCalled>>
    BY DEF Enter, packetVars
  <1>2. TypeOK /\ BoundInv /\ ReadInv /\ AttachInv /\ DropInv /\ OrderInv /\ PacketInv
    BY DEF SessionInv
  <1>3. /\ closed' \in [Connections -> BOOLEAN]
        /\ linked' \in [Connections -> BOOLEAN]
        /\ ReadInv' /\ AttachInv'
    <2>1. CASE UNCHANGED <<closed, linked>>
      BY <1>1, <1>2, <2>1 DEF TypeOK, ReadInv, AttachInv, sessionVars
    <2>2. CASE Close({"realm"})
      <3>1. {"realm"} \in SUBSET Connections
        BY DEF Connections
      <3> QED
        BY <1>1, <1>2, <2>2, <3>1, CloseKeeps DEF sessionVars
    <2> QED
      BY <2>1, <2>2 DEF Enter
  <1>4. TypeOK'
    <2>1. processed' \in 0 .. (MaxProcessed + 1)
      BY <1>1, ConstantsAssumption
    <2> QED
      BY <1>1, <1>2, <1>3, <2>1, EngineType DEF TypeOK, HandlerType, sessionVars
  <1>5. LinkInv' /\ DropInv'
    BY <1>1, <1>2 DEF LinkInv, DropInv
  <1>6. OrderInv' /\ PacketInv'
    BY <1>1, <1>2, PacketsKeep DEF OrderInv
  <1> QED
    BY <1>1, <1>2, <1>3, <1>4, <1>5, <1>6, BoundKeeps DEF SessionInv

\* AddSession_ kicks the session it replaces, which closes both sockets.
LEMMA ReplaceInv ==
  ASSUME SessionInv, Replace
  PROVE  SessionInv'
  <1>1. /\ phase = "idle" /\ KickPlayer /\ phase' = "dropped"
        /\ UNCHANGED <<network, alive, inQueue, player, loading, recentlyOut, logoutTime,
                       updater, processed, requeue, recvQueue, received, freed, lastCalled>>
    BY DEF Replace, packetVars
  <1>2. TypeOK /\ BoundInv /\ ReadInv /\ AttachInv /\ DropInv /\ OrderInv /\ PacketInv
    BY DEF SessionInv
  <1>3. /\ closed' \in [Connections -> BOOLEAN]
        /\ linked' \in [Connections -> BOOLEAN]
        /\ attached' \in [Connections -> BOOLEAN]
        /\ forceExit' \in BOOLEAN
        /\ ReadInv' /\ AttachInv'
        /\ \A c \in Connections : linked'[c] => closed'[c]
    BY <1>1, <1>2, KickKeeps
  <1>4. TypeOK'
    BY <1>1, <1>2, <1>3, EngineType DEF TypeOK, HandlerType
  <1>5. LinkInv' /\ DropInv'
    BY <1>1, <1>2, <1>3 DEF LinkInv, DropInv
  <1>6. OrderInv' /\ PacketInv'
    BY <1>1, <1>2, PacketsKeep DEF OrderInv
  <1> QED
    BY <1>1, <1>2, <1>3, <1>4, <1>5, <1>6, BoundKeeps DEF SessionInv

\* The maps are skipped, or the linking of an open instance socket begins.
LEMMA PhaseInv ==
  ASSUME SessionInv, SkipMaps \/ BeginLink
  PROVE  SessionInv'
  <1>1. /\ phase \in {"maps", "idle"}
        /\ phase' = "idle" \/ (phase' = "link" /\ ~closed["instance"])
        /\ UNCHANGED <<network, closed, linked, alive, inQueue, sessionVars, updater,
                       processed, requeue, recvQueue, received, freed, lastCalled>>
    BY DEF SkipMaps, BeginLink, socketVars, packetVars
  <1>2. TypeOK /\ BoundInv /\ ReadInv /\ AttachInv /\ DropInv /\ OrderInv /\ PacketInv
    BY DEF SessionInv
  <1>3. TypeOK'
    BY <1>1, <1>2, EngineType DEF TypeOK, HandlerType, sessionVars
  <1>4. ReadInv' /\ AttachInv' /\ LinkInv' /\ DropInv'
    BY <1>1, <1>2 DEF ReadInv, AttachInv, LinkInv, DropInv, sessionVars
  <1>5. OrderInv' /\ PacketInv'
    BY <1>1, <1>2, PacketsKeep DEF OrderInv
  <1> QED
    BY <1>1, <1>2, <1>3, <1>4, <1>5, BoundKeeps DEF SessionInv

\* The instance socket is linked; if its thread has closed it since, that thread
\* reads no more.
LEMMA EndLinkInv ==
  ASSUME SessionInv, EndLink
  PROVE  SessionInv'
  <1>1. /\ phase = "link" /\ network["instance"] # "locked" /\ phase' = "idle"
        /\ attached' = [attached EXCEPT !["instance"] = TRUE]
        /\ UNCHANGED <<network, alive, inQueue, player, recentlyOut, logoutTime, updater,
                       processed, requeue, recvQueue, received, freed, lastCalled>>
    BY DEF EndLink, packetVars
  <1>2. TypeOK /\ BoundInv /\ ReadInv /\ AttachInv /\ LinkInv /\ DropInv /\ OrderInv /\ PacketInv
    BY DEF SessionInv
  <1>3. attached' \in [Connections -> BOOLEAN]
    BY <1>1, <1>2 DEF TypeOK
  <1>4. attached'["instance"] /\ \A c \in Connections \ {"instance"} : attached'[c] = attached[c]
    BY <1>1, <1>2 DEF TypeOK, Connections
  <1>5. network["instance"] = "reading" => ~closed["instance"]
    BY <1>1, <1>2 DEF LinkInv
  <1>6. /\ closed' \in [Connections -> BOOLEAN]
        /\ linked' \in [Connections -> BOOLEAN]
        /\ forceExit' \in BOOLEAN
        /\ loading' \in {"no", "asked", "queries"}
        /\ ReadInv' /\ AttachInv'
    <2>1. CASE /\ linked' = [linked EXCEPT !["instance"] = TRUE]
               /\ loading' \in {"queries", "no"}
               /\ UNCHANGED <<closed, forceExit>>
      BY <1>1, <1>2, <1>4, <1>5, <2>1 DEF TypeOK, ReadInv, AttachInv
    <2>2. CASE /\ MayClose(Connections)
               /\ closed' = [c \in Connections |-> TRUE]
               /\ linked' = [c \in Connections |->
                               closed[c] /\ (linked[c] \/ c = "instance")]
               /\ forceExit' = TRUE
               /\ UNCHANGED loading
      <3>1. /\ \A c \in Connections : closed'[c]
            /\ \A c \in Connections :
                 linked'[c] <=> closed[c] /\ (linked[c] \/ c = "instance")
        BY <2>2
      <3>2. \A c \in Connections : network[c] = "locked" => closed[c]
        BY <2>2 DEF MayClose
      <3>3. \A c \in Connections : network[c] # "locked"
        BY <1>2, <3>2 DEF ReadInv
      <3>4. \A c \in Connections : network[c] = "reading" => ~linked'[c]
        BY <1>2, <1>5, <3>1 DEF ReadInv
      <3>5. ReadInv' /\ AttachInv'
        BY <1>1, <3>1, <3>3, <3>4 DEF ReadInv, AttachInv
      <3> QED
        BY <1>2, <2>2, <3>5 DEF TypeOK
    <2> QED
      BY <2>1, <2>2 DEF EndLink
  <1>7. TypeOK'
    BY <1>1, <1>2, <1>3, <1>6, EngineType DEF TypeOK, HandlerType
  <1>8. LinkInv' /\ DropInv'
    BY <1>1, <1>2 DEF LinkInv, DropInv
  <1>9. OrderInv' /\ PacketInv'
    BY <1>1, <1>2, PacketsKeep DEF OrderInv
  <1> QED
    BY <1>1, <1>2, <1>6, <1>7, <1>8, <1>9, BoundKeeps DEF SessionInv

-----------------------------------------------------------------------------
\* Every step of every thread keeps the invariant, and handles no packet for the
\* character after a later one.
LEMMA NextInv ==
  ASSUME SessionInv, [Next]_vars
  PROVE  SessionInv' /\ lastCalled' >= lastCalled
  <1>1. CASE UNCHANGED vars
    <2> USE <1>1 DEF vars, socketVars, sessionVars, updateVars, packetVars
    <2>1. TypeOK'
      BY DEF SessionInv, TypeOK
    <2>2. BoundInv'
      BY BoundKeeps DEF SessionInv
    <2>3. ReadInv' /\ AttachInv' /\ LinkInv' /\ DropInv'
      BY DEF SessionInv, ReadInv, AttachInv, LinkInv, DropInv
    <2>4. OrderInv' /\ PacketInv'
      BY PacketsKeep DEF SessionInv, OrderInv
    <2>5. lastCalled' >= lastCalled
      BY DEF SessionInv, TypeOK
    <2> QED
      BY <2>1, <2>2, <2>3, <2>4, <2>5 DEF SessionInv
  <1>2. CASE ProcessPacket
    BY <1>2, ProcessPacketInv
  <1>3. ASSUME lastCalled' = lastCalled
        PROVE  lastCalled' >= lastCalled
    BY <1>3 DEF SessionInv, TypeOK
  <1>4. ASSUME NEW c \in Connections, NetworkStep(c)
        PROVE  SessionInv' /\ lastCalled' = lastCalled
    <2>1. SessionInv'
      BY <1>4, UnlockedInv, LockInv, QueuePacketInv DEF NetworkStep
    <2> QED
      BY <1>4, <2>1 DEF NetworkStep, BeginRead, EndRead, Lock, QueuePacket, CloseSocket, OnClose
  <1>5. ASSUME Connect \/ EndLoop \/ ProcessQueryCallbacks \/ Finish \/ Destroy
        PROVE  SessionInv' /\ lastCalled' = lastCalled
    <2>1. SessionInv'
      BY <1>5, ConnectInv, EndLoopInv, ProcessQueryCallbacksInv, FinishInv, DestroyInv
    <2> QED
      BY <1>5, <2>1 DEF Connect, EndLoop, ProcessQueryCallbacks, Finish, Destroy
  <1>6. ASSUME BeginWorldUpdate \/ BeginMapUpdate
        PROVE  SessionInv' /\ lastCalled' = lastCalled
    <2>1. SessionInv'
      BY <1>6, EnterInv DEF BeginWorldUpdate, BeginMapUpdate
    <2> QED
      BY <1>6, <2>1 DEF BeginWorldUpdate, BeginMapUpdate, Enter
  <1>7. ASSUME SkipMaps \/ EndLink \/ TimedLogout \/ Replace \/ BeginLink
        PROVE  SessionInv' /\ lastCalled' = lastCalled
    <2>1. SessionInv'
      BY <1>7, PhaseInv, EndLinkInv, TimedLogoutInv, ReplaceInv
    <2> QED
      BY <1>7, <2>1 DEF SkipMaps, EndLink, TimedLogout, Replace, BeginLink
  <1> QED
    BY <1>1, <1>2, <1>3, <1>4, <1>5, <1>6, <1>7 DEF Next, Update, Deleted

\* The invariant holds in every behaviour of the session.
THEOREM SessionInvariant == Spec => []SessionInv
  <1>1. Init => SessionInv
    BY InitInv
  <1>2. SessionInv /\ [Next]_vars => SessionInv'
    BY NextInv
  <1> QED
    BY <1>1, <1>2, PTL DEF Spec

\* Every variable keeps its type.
THEOREM TypeCorrect == Spec => []TypeOK
  BY SessionInvariant, PTL DEF SessionInv

\* A network thread that holds _worldSessionLock uses a session that is not
\* deleted, whichever thread closed its socket.
THEOREM NoUseAfterDeleteHolds == Spec => []NoUseAfterDelete
  <1>1. SessionInv => NoUseAfterDelete
    BY DEF SessionInv, ReadInv, DropInv, NoUseAfterDelete
  <1> QED
    BY <1>1, SessionInvariant, PTL

\* No packet in the queues was deleted and none is there twice.
THEOREM NoFreedPacketHolds == Spec => []NoFreedPacket
  <1>1. ASSUME SessionInv
        PROVE  NoFreedPacket
    <2>1. TypeOK /\ OrderInv /\ PacketInv
      BY <1>1 DEF SessionInv
    <2>2. /\ requeue \o recvQueue \in Seq(Packets)
          /\ Numbers(requeue \o recvQueue) = Numbers(requeue) \cup Numbers(recvQueue)
      BY <2>1, NumbersOf DEF TypeOK
    <2>3. Sorted(requeue \o recvQueue)
      BY <2>1, SortedConcat DEF TypeOK, OrderInv
    <2>4. Cardinality(Numbers(requeue \o recvQueue)) = Len(requeue \o recvQueue)
      BY <2>2, <2>3, SortedCount
    <2> QED
      BY <2>1, <2>2, <2>4 DEF PacketInv, NoFreedPacket
  <1> QED
    BY <1>1, SessionInvariant, PTL

\* The destructor deletes every packet that was received and not handled.
THEOREM NoPacketLeakHolds == Spec => []NoPacketLeak
  <1>1. ASSUME SessionInv
        PROVE  NoPacketLeak
    <2>1. ~alive => Numbers(requeue) = {} /\ Numbers(recvQueue) = {}
      BY <1>1 DEF SessionInv, DropInv, OrderInv, Numbers
    <2> QED
      BY <1>1, <2>1 DEF SessionInv, PacketInv, NoPacketLeak
  <1> QED
    BY <1>1, SessionInvariant, PTL

\* The packets for a character in the world are handled in the order they came.
THEOREM LoggedInOrderHolds == Spec => LoggedInOrder
  <1>1. SessionInv /\ [Next]_vars => [lastCalled' >= lastCalled]_vars
    BY NextInv
  <1> QED
    BY <1>1, SessionInvariant, PTL DEF Spec, LoggedInOrder
=============================================================================
