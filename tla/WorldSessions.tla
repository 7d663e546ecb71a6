--------------------------- MODULE WorldSessions ---------------------------
(***************************************************************************)
(* The session table and the login queue of the world server: World's      *)
(* m_sessions, m_QueuedPlayer, addSessQueue and m_disconnects, the loop of *)
(* World::UpdateSessions, and the part of WorldSession that decides when a *)
(* session leaves the table.                                               *)
(*                                                                         *)
(* Two actors share this state.  Network threads construct sessions, put   *)
(* them in addSessQueue and close sockets at any moment; the world thread  *)
(* does everything else.  A session's realm and instance connections are   *)
(* one flag, sockOpen: Update treats the loss of either one alike.  The    *)
(* fields of a session that is deleted go back to their initial values.    *)
(***************************************************************************)
EXTENDS Integers, Sequences, FiniteSets

CONSTANTS
  Accounts,     \* game account ids
  Sessions,     \* WorldSession objects: each is constructed at most once
  AccountOf,    \* WorldSession::_accountId
  SkipQueue,    \* accounts with RBAC_PERM_SKIP_QUEUE
  Limits,       \* values of m_playerLimit (0: unlimited)
  Tolerance,    \* CONFIG_INTERVAL_DISCONNECT_TOLERANCE, in clock ticks
  ExpireTime,   \* _expireTime of a new session, in world updates
  MaxTime,      \* bound on the clock
  NoTime        \* an account with no entry in m_disconnects

ASSUME ConstantsAssumption ==
  /\ IsFiniteSet(Sessions)
  /\ AccountOf \in [Sessions -> Accounts]
  /\ SkipQueue \subseteq Accounts
  /\ Limits \subseteq Nat
  /\ Tolerance \in Nat
  /\ ExpireTime \in Nat
  /\ MaxTime \in Nat
  /\ NoTime \notin Nat

VARIABLES
  addSessQueue,   \* sessions handed over by the network threads
  m_sessions,     \* the sessions of the map, at most one per account
  m_QueuedPlayer, \* the login queue
  m_disconnects,  \* account -> time of its last disconnection
  m_playerLimit,
  phase,          \* where the world thread is in UpdateSessions
  todo,           \* sessions the loop of UpdateSessions has still to visit
  now,            \* time(NULL)
  life,           \* whether a session object exists
  sockOpen,       \* its sockets are open
  forceExit,      \* _isForceExit
  inQueue,        \* _inQueue
  initPending,    \* the account queries of InitializeSession are running
  loading,        \* _playerLoading is set
  charLogin,      \* the character queries of _charLoginCallback are running
  player,         \* _player is set
  expire,         \* _expireTime
  told            \* the last queue position sent to the client

sessionVars == <<life, sockOpen, forceExit, inQueue, initPending, loading,
                 charLogin, player, expire, told>>
tableVars == <<m_sessions, m_QueuedPlayer, m_disconnects, m_playerLimit>>
vars == <<addSessQueue, tableVars, phase, todo, now, sessionVars>>

Queued == {m_QueuedPlayer[i] : i \in DOMAIN m_QueuedPlayer}

\* The sessions that hold a place in the world: listed and not queued.
Active == m_sessions \ Queued

\* World::FindSession, as the set of the matching session.
FindSession(a) == {s \in m_sessions : AccountOf[s] = a}

GetActiveSessionCount == Cardinality(m_sessions) - Len(m_QueuedPlayer)

-----------------------------------------------------------------------------
(* The queue operators work on a queue q, so that RemoveQueuedPlayer can be *)
(* applied twice in one step, as UpdateSessions does.                       *)

Elements(q) == {q[i] : i \in DOMAIN q}

\* GetQueuePos, for a session that is in the queue.
GetQueuePos(q, s) == CHOOSE i \in DOMAIN q : q[i] = s

EraseNext(q, k) == [i \in 1 .. (Len(q) - 1) |-> IF i <= k THEN q[i] ELSE q[i + 1]]

\* m_QueuedPlayer.erase(iter).
Erase(q, k) == [i \in 1 .. (Len(q) - 1) |-> IF i < k THEN q[i] ELSE q[i + 1]]

\* The sessions that remain active without sess, which counts as active
\* unless it was in the queue.
RemainingCounted(counted, found) == counted
Remaining(counted, found) == IF ~found /\ counted > 0 THEN counted - 1 ELSE counted

HasRoomAtLimit(sessions) == m_playerLimit = 0 \/ sessions <= m_playerLimit
HasRoom(sessions) == m_playerLimit = 0 \/ sessions < m_playerLimit

\* The first queue position whose owner is told its number again, after the
\* removal of position k if found, and of the front if accept.
FirstMovedIgnoresFront(q, found, k, accept) == IF found THEN k ELSE Len(q) + 1
FirstMoved(q, found, k, accept) ==
  IF accept THEN 1 ELSE IF found THEN k ELSE Len(q) + 1

\* World::RemoveQueuedPlayer(sess) on the queue q of a table of n sessions:
\* the queue it leaves, the session it lets in (if any), whether sess was in
\* the queue, and the positions it announces.
RemoveQueuedPlayer(q, n, sess, t) ==
  LET found    == sess \in Elements(q)
      k        == GetQueuePos(q, sess)
      q1       == IF found THEN Erase(q, k) ELSE q
      accept   == HasRoom(Remaining(n - Len(q), found)) /\ q1 # <<>>
      q2       == IF accept THEN Tail(q1) ELSE q1
      from     == FirstMoved(q2, found, k, accept)
  IN [found |-> found,
      queue |-> q2,
      popped |-> IF accept THEN {Head(q1)} ELSE {},
      told  |-> [s \in Sessions |->
                   IF \E i \in from .. Len(q2) : q2[i] = s
                   THEN GetQueuePos(q2, s) ELSE t[s]]]

\* World::HasRecentlyDisconnected.  The erasing branch of its loop needs
\* difftime(i->second, time(NULL)) >= tolerance, a disconnection in the
\* future, which no clock that only advances produces.
HasRecentlyDisconnected(a) ==
  /\ Tolerance > 0
  /\ m_disconnects[a] # NoTime
  /\ m_disconnects[a] - now < Tolerance

-----------------------------------------------------------------------------
Init ==
  /\ addSessQueue = <<>>
  /\ m_sessions = {}
  /\ m_QueuedPlayer = <<>>
  /\ m_disconnects = [a \in Accounts |-> NoTime]
  /\ m_playerLimit \in Limits
  /\ phase = "idle"
  /\ todo = {}
  /\ now = 0
  /\ life = [s \in Sessions |-> "none"]
  /\ sockOpen = [s \in Sessions |-> FALSE]
  /\ forceExit = [s \in Sessions |-> FALSE]
  /\ inQueue = [s \in Sessions |-> FALSE]
  /\ initPending = [s \in Sessions |-> FALSE]
  /\ loading = [s \in Sessions |-> FALSE]
  /\ charLogin = [s \in Sessions |-> FALSE]
  /\ player = [s \in Sessions |-> FALSE]
  /\ expire = [s \in Sessions |-> ExpireTime]
  /\ told = [s \in Sessions |-> 0]

-----------------------------------------------------------------------------
(* The network threads.                                                     *)

\* A socket that finished its handshake hands its new session to the world:
\* the constructor, then World::AddSession from HandleEnableEncryptionAck.
AddSession(s) ==
  /\ life[s] = "none"
  /\ life' = [life EXCEPT ![s] = "new"]
  /\ sockOpen' = [sockOpen EXCEPT ![s] = TRUE]
  /\ addSessQueue' = Append(addSessQueue, s)
  /\ UNCHANGED <<tableVars, phase, todo, now, forceExit, inQueue, initPending,
                 loading, charLogin, player, expire, told>>

\* The connection of a session is lost.
Disconnect(s) ==
  /\ life[s] \in {"new", "live"}
  /\ sockOpen[s]
  /\ sockOpen' = [sockOpen EXCEPT ![s] = FALSE]
  /\ UNCHANGED <<addSessQueue, tableVars, phase, todo, now, life, forceExit,
                 inQueue, initPending, loading, charLogin, player, expire, told>>

\* WorldSocket::HandleConnectToFailed, when the last attempt to reach the
\* instance port failed, and its AbortLogin: it may come when the character
\* queries are already running.
AbortLogin(s) ==
  /\ life[s] = "live"
  /\ sockOpen[s]
  /\ loading[s]
  /\ loading' = [loading EXCEPT ![s] = FALSE]
  /\ UNCHANGED <<addSessQueue, tableVars, phase, todo, now, life, sockOpen,
                 forceExit, inQueue, initPending, charLogin, player, expire, told>>

Tick ==
  /\ now < MaxTime
  /\ now' = now + 1
  /\ UNCHANGED <<addSessQueue, tableVars, phase, todo, sessionVars>>

-----------------------------------------------------------------------------
(* The world thread.                                                        *)

BeginUpdateSessions ==
  /\ phase = "idle"
  /\ phase' = "add"
  /\ UNCHANGED <<addSessQueue, tableVars, todo, now, sessionVars>>

\* AddSession_ when RemoveSession returns false: the account is loading a
\* character, so the newcomer is kicked and deleted.
RefuseSession(s) ==
  /\ \E old \in FindSession(AccountOf[s]) : loading[old]
  /\ life' = [life EXCEPT ![s] = "deleted"]
  /\ sockOpen' = [sockOpen EXCEPT ![s] = FALSE]
  /\ UNCHANGED <<tableVars, forceExit, inQueue, initPending, loading, charLogin,
                 player, expire, told>>

\* AddSession_ otherwise: the old session of the account is kicked, taken out
\* of the queue and deleted, and the new one is listed, then queued or let in.
AcceptSession(s) ==
  LET a        == AccountOf[s]
      olds     == FindSession(a)
      total    == Cardinality(m_sessions)
      none     == [found |-> FALSE, queue |-> m_QueuedPlayer, popped |-> {},
                   told |-> told]
      r        == IF olds = {} THEN none
                  ELSE RemoveQueuedPlayer(m_QueuedPlayer, total,
                                          CHOOSE old \in olds : TRUE, told)
      listed   == (m_sessions \ olds) \cup {s}
      count    == Cardinality(listed)
      sessions == IF r.found THEN count ELSE count - 1
      queueIt  == /\ m_playerLimit > 0
                  /\ sessions >= m_playerLimit
                  /\ a \notin SkipQueue
                  /\ ~HasRecentlyDisconnected(a)
      admitted == IF queueIt THEN r.popped ELSE r.popped \cup {s}
  IN /\ \A old \in olds : ~loading[old]
     /\ m_sessions' = listed
     /\ m_QueuedPlayer' = IF queueIt THEN Append(r.queue, s) ELSE r.queue
     /\ life' = [x \in Sessions |-> IF x = s THEN "live"
                                    ELSE IF x \in olds THEN "deleted"
                                    ELSE life[x]]
     /\ inQueue' = [x \in Sessions |-> IF x = s THEN queueIt
                                       ELSE x \notin olds /\ inQueue[x]]
     /\ initPending' = [x \in Sessions |->
                          x \notin olds /\ (x \in admitted \/ initPending[x])]
     /\ told' = [x \in Sessions |-> IF x = s /\ queueIt THEN Len(r.queue) + 1
                                    ELSE IF x \in olds THEN 0
                                    ELSE r.told[x]]
     /\ sockOpen' = [x \in Sessions |-> x \notin olds /\ sockOpen[x]]
     /\ forceExit' = [x \in Sessions |-> x \notin olds /\ forceExit[x]]
     /\ charLogin' = [x \in Sessions |-> x \notin olds /\ charLogin[x]]
     /\ player' = [x \in Sessions |-> x \notin olds /\ player[x]]
     /\ expire' = [x \in Sessions |-> IF x \in olds THEN ExpireTime ELSE expire[x]]
     /\ UNCHANGED <<m_disconnects, m_playerLimit, loading>>

\* World::AddSession_, for the session at the front of addSessQueue.
AddSession_ ==
  /\ phase = "add"
  /\ addSessQueue # <<>>
  /\ addSessQueue' = Tail(addSessQueue)
  /\ \/ RefuseSession(Head(addSessQueue))
     \/ AcceptSession(Head(addSessQueue))
  /\ UNCHANGED <<phase, todo, now>>

BeginLoop ==
  /\ phase = "add"
  /\ addSessQueue = <<>>
  /\ phase' = "update"
  /\ todo' = m_sessions
  /\ UNCHANGED <<addSessQueue, tableVars, now, sessionVars>>

EndLoop ==
  /\ phase = "update"
  /\ todo = {}
  /\ phase' = "idle"
  /\ UNCHANGED <<addSessQueue, tableVars, todo, now, sessionVars>>

-----------------------------------------------------------------------------
(* Inside WorldSession::Update of a session the loop has not left yet: the  *)
(* packet handlers and query callbacks, any number of them, then LeaveUpdate *)

Updating(s) == phase = "update" /\ s \in todo

\* The sets of flags KickPlayer writes.
KickPlayer(S) ==
  /\ sockOpen' = [x \in Sessions |-> sockOpen[x] /\ x \notin S]
  /\ forceExit' = [x \in Sessions |-> forceExit[x] \/ x \in S]

\* The idle check at the start of Update.
CloseIdle(s) ==
  /\ Updating(s)
  /\ sockOpen[s]
  /\ ~inQueue[s]
  /\ sockOpen' = [sockOpen EXCEPT ![s] = FALSE]
  /\ UNCHANGED <<addSessQueue, tableVars, phase, todo, now, life, forceExit,
                 inQueue, initPending, loading, charLogin, player, expire, told>>

\* Update hands a STATUS_AUTHED packet to its handler unless _inQueue.
AuthedNoQueueCheck(s) == TRUE
Authed(s) == ~inQueue[s]

\* HandlePlayerLoginOpcode, a STATUS_AUTHED opcode.
\* legit is IsLegitCharacterForAccount; a second request kicks the session.
HandlePlayerLoginOpcode(s) ==
  /\ Updating(s)
  /\ Authed(s)
  /\ \E legit \in BOOLEAN :
       LET again == loading[s] \/ player[s]
       IN /\ loading' = [loading EXCEPT ![s] = @ \/ ~again]
          /\ KickPlayer(IF again \/ ~legit THEN {s} ELSE {})
  /\ UNCHANGED <<addSessQueue, tableVars, phase, todo, now, life, inQueue,
                 initPending, charLogin, player, expire, told>>

\* HandlePlayerLogin, the callback of the character queries: the character
\* loads, or the session is kicked.
HandlePlayerLogin(s) ==
  /\ Updating(s)
  /\ charLogin[s]
  /\ charLogin' = [charLogin EXCEPT ![s] = FALSE]
  /\ loading' = [loading EXCEPT ![s] = FALSE]
  /\ \/ player' = [player EXCEPT ![s] = TRUE] /\ KickPlayer({})
     \/ UNCHANGED player /\ KickPlayer({s})
  /\ UNCHANGED <<addSessQueue, tableVars, phase, todo, now, life, inQueue,
                 initPending, expire, told>>

\* LogoutPlayer, once the logout timer has run out and nothing is loading.
LogoutPlayer(s) ==
  /\ Updating(s)
  /\ player[s]
  /\ ~loading[s]
  /\ player' = [player EXCEPT ![s] = FALSE]
  /\ UNCHANGED <<addSessQueue, tableVars, phase, todo, now, life, sockOpen,
                 forceExit, inQueue, initPending, loading, charLogin, expire, told>>

\* InitializeSessionCallback, when both account queries have come back.
InitializeSessionCallback(s) ==
  /\ Updating(s)
  /\ initPending[s]
  /\ initPending' = [initPending EXCEPT ![s] = FALSE]
  /\ inQueue' = [inQueue EXCEPT ![s] = FALSE]
  /\ told' = [told EXCEPT ![s] = 0]
  /\ UNCHANGED <<addSessQueue, tableVars, phase, todo, now, life, sockOpen,
                 forceExit, loading, charLogin, player, expire>>

\* Update leaves a session in the table while its sockets are open, or for
\* ExpireTime updates after they closed if its character is in the world and
\* nobody kicked it.
Stays(s) == \/ sockOpen[s]
            \/ expire[s] > 1 /\ ~forceExit[s] /\ player[s]

ExpireNever(s) == expire[s]
Expire(s) == IF sockOpen[s] THEN expire[s] ELSE expire[s] - 1

KeepSession(s) ==
  /\ Stays(s)
  /\ expire' = [expire EXCEPT ![s] = Expire(s)]
  /\ UNCHANGED <<tableVars, life, sockOpen, forceExit, inQueue, initPending,
                 loading, charLogin, player, told>>

\* Update returned false: UpdateSessions takes the session out of the queue,
\* twice, out of the map, and deletes it.
DropSession(s) ==
  LET n  == Cardinality(m_sessions)
      r1 == RemoveQueuedPlayer(m_QueuedPlayer, n, s, told)
      r2 == RemoveQueuedPlayer(r1.queue, n, s, r1.told)
      admitted == r1.popped \cup r2.popped
  IN /\ ~Stays(s)
     /\ m_sessions' = m_sessions \ {s}
     /\ m_QueuedPlayer' = r2.queue
     /\ m_disconnects' = IF ~r1.found /\ Tolerance > 0
                         THEN [m_disconnects EXCEPT ![AccountOf[s]] = now]
                         ELSE m_disconnects
     /\ life' = [life EXCEPT ![s] = "deleted"]
     /\ inQueue' = [inQueue EXCEPT ![s] = FALSE]
     /\ initPending' = [x \in Sessions |->
                          x # s /\ (x \in admitted \/ initPending[x])]
     /\ told' = [r2.told EXCEPT ![s] = 0]
     /\ forceExit' = [forceExit EXCEPT ![s] = FALSE]
     /\ loading' = [loading EXCEPT ![s] = FALSE]
     /\ charLogin' = [charLogin EXCEPT ![s] = FALSE]
     /\ player' = [player EXCEPT ![s] = FALSE]
     /\ expire' = [expire EXCEPT ![s] = ExpireTime]
     /\ UNCHANGED <<m_playerLimit, sockOpen>>

\* The end of WorldSession::Update and of one round of the loop.
LeaveUpdate(s) ==
  /\ Updating(s)
  /\ todo' = todo \ {s}
  /\ KeepSession(s) \/ DropSession(s)
  /\ UNCHANGED <<addSessQueue, phase, now>>

-----------------------------------------------------------------------------
(* Between two loops of UpdateSessions the world thread runs commands, bans *)
(* and the shutdown sequence, and UpdateSessions begins with the sockets    *)
(* that ask to be linked to a session.                                      *)

\* ProcessLinkInstanceSocket for an open socket with the session's key, and
\* HandleContinuePlayerLogin: the character queries start, or cannot be set up.
MayContinueAlways(s) == TRUE
MayContinue(s) == loading[s] /\ ~player[s]

ProcessLinkInstanceSocket(s) ==
  /\ phase = "idle"
  /\ s \in m_sessions
  /\ \/ /\ MayContinue(s)
        /\ KickPlayer({})
        /\ \/ charLogin' = [charLogin EXCEPT ![s] = TRUE] /\ UNCHANGED loading
           \/ loading' = [loading EXCEPT ![s] = FALSE] /\ UNCHANGED charLogin
     \/ ~MayContinue(s) /\ KickPlayer({s}) /\ UNCHANGED <<loading, charLogin>>
  /\ UNCHANGED <<addSessQueue, tableVars, phase, todo, now, life, inQueue,
                 initPending, player, expire, told>>

\* A command or a ban kicks one session.
Kick(s) ==
  /\ phase = "idle"
  /\ s \in m_sessions
  /\ KickPlayer({s})
  /\ UNCHANGED <<addSessQueue, tableVars, phase, todo, now, life, inQueue,
                 initPending, loading, charLogin, player, expire, told>>

\* World::KickAll, from the shutdown sequence.
KickAll ==
  /\ phase = "idle"
  /\ m_sessions # {}
  /\ m_QueuedPlayer' = <<>>
  /\ KickPlayer(m_sessions)
  /\ UNCHANGED <<addSessQueue, m_sessions, m_disconnects, m_playerLimit, phase,
                 todo, now, life, inQueue, initPending, loading, charLogin, player,
                 expire, told>>

\* World::SetPlayerAmountLimit, from a configuration reload or a command.
SetPlayerAmountLimit(n) ==
  /\ phase = "idle"
  /\ n # m_playerLimit
  /\ m_playerLimit' = n
  /\ UNCHANGED <<addSessQueue, m_sessions, m_QueuedPlayer, m_disconnects, phase,
                 todo, now, sessionVars>>

-----------------------------------------------------------------------------
\* World::UpdateSessions, whatever step it is at.
UpdateSessions ==
  \/ BeginUpdateSessions
  \/ AddSession_
  \/ BeginLoop
  \/ \E s \in Sessions : LeaveUpdate(s)
  \/ EndLoop

Next ==
  \/ UpdateSessions
  \/ \E s \in Sessions :
       \/ AddSession(s)
       \/ Disconnect(s)
       \/ AbortLogin(s)
       \/ ProcessLinkInstanceSocket(s)
       \/ CloseIdle(s)
       \/ HandlePlayerLoginOpcode(s)
       \/ HandlePlayerLogin(s)
       \/ LogoutPlayer(s)
       \/ InitializeSessionCallback(s)
       \/ Kick(s)
  \/ Tick
  \/ KickAll
  \/ \E n \in Limits : SetPlayerAmountLimit(n)

Spec == Init /\ [][Next]_vars

\* The world loop calls UpdateSessions for as long as the server runs.  Some
\* disjunct of UpdateSessions is enabled in every phase, so this is weak
\* fairness, in the form that spares TLC the evaluation of ENABLED.
FairSpec == Spec /\ []<><<UpdateSessions>>_vars

-----------------------------------------------------------------------------
(* Properties.                                                              *)

\* Every variable keeps its type.
TypeOK ==
  /\ addSessQueue \in Seq(Sessions)
  /\ m_sessions \subseteq Sessions
  /\ m_QueuedPlayer \in Seq(Sessions)
  /\ m_disconnects \in [Accounts -> Nat \cup {NoTime}]
  /\ m_playerLimit \in Limits
  /\ phase \in {"idle", "add", "update"}
  /\ todo \subseteq Sessions
  /\ now \in Nat
  /\ life \in [Sessions -> {"none", "new", "live", "deleted"}]
  /\ sockOpen \in [Sessions -> BOOLEAN]
  /\ forceExit \in [Sessions -> BOOLEAN]
  /\ inQueue \in [Sessions -> BOOLEAN]
  /\ initPending \in [Sessions -> BOOLEAN]
  /\ loading \in [Sessions -> BOOLEAN]
  /\ charLogin \in [Sessions -> BOOLEAN]
  /\ player \in [Sessions -> BOOLEAN]
  /\ expire \in [Sessions -> Nat]
  /\ told \in [Sessions -> Nat]

\* No container of World holds a pointer to a deleted WorldSession: the map,
\* the login queue and the rest of the running loop of UpdateSessions refer to
\* live sessions, and addSessQueue to sessions nobody has deleted.
NoDanglingSession ==
  /\ \A s \in m_sessions : life[s] = "live"
  /\ Queued \subseteq m_sessions
  /\ todo \subseteq m_sessions
  /\ \A i \in DOMAIN addSessQueue : life[addSessQueue[i]] = "new"

\* GetActiveSessionCount, the unsigned difference of two container sizes,
\* never wraps and counts exactly the listed sessions that are not queued.
ActiveCountExact == GetActiveSessionCount = Cardinality(Active)

\* Every client in the login queue was last told its present position, though
\* RemoveQueuedPlayer announces only the positions it thinks have changed.
PositionsTold ==
  \A i \in DOMAIN m_QueuedPlayer : told[m_QueuedPlayer[i]] = i

\* A session in the login queue has neither a character nor one loading: the
\* _inQueue flag, which the opcode filter reads and the asynchronous
\* InitializeSessionCallback clears, is up for as long as the session waits.
QueuedNotPlaying ==
  \A s \in Queued : inQueue[s] /\ ~loading[s] /\ ~player[s]

\* No login callback is under way for a session that already has a character,
\* which it would replace: not though the client may give up an attempt, ask
\* for another login or link a second socket while the queries run.
NoSecondCharacter == \A s \in Sessions : charLogin[s] => ~player[s]

\* The sessions on which a step calls InitializeSession.
Admitted == {s \in Sessions : initPending'[s] /\ ~initPending[s]}

\* A session let in without the permission to skip the queue and without the
\* tolerance for recent disconnections finds a place below the player limit,
\* both when it is listed and when a departure promotes it out of the queue.
AdmissionWithinLimit ==
  [][LET free == {s \in Admitted : \/ AccountOf[s] \in SkipQueue
                                   \/ HasRecentlyDisconnected(AccountOf[s])}
     IN Admitted \ free # {} /\ m_playerLimit > 0
          => Cardinality(Active' \ free) <= m_playerLimit]_vars

\* A place that becomes free is handed on in the same step: the number of
\* active sessions drops while somebody waits only if the limit is still met.
NoIdleSlot ==
  [][m_QueuedPlayer' # <<>> /\ Cardinality(Active') < Cardinality(Active)
       => Cardinality(Active') >= m_playerLimit]_vars

\* A listed session whose connection is lost is deleted in the end, whether it
\* was queued, loading, playing or kicked.
DisconnectedLeave ==
  \A s \in Sessions :
    (life[s] = "live" /\ ~sockOpen[s]) ~> (life[s] = "deleted")

\* What worldserver.conf.dist says of DisconnectToleranceInterval: only a
\* disconnection less than that many seconds ago lets an account past the
\* queue.
ToleranceHonoured ==
  [][LET recent(a) == m_disconnects[a] # NoTime /\ now - m_disconnects[a] < Tolerance
         free == {s \in Admitted : \/ AccountOf[s] \in SkipQueue
                                   \/ recent(AccountOf[s])}
     IN Admitted \ free # {} /\ m_playerLimit > 0
          => Cardinality(Active' \ free) <= m_playerLimit]_vars
=============================================================================
