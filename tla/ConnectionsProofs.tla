--------------------------- MODULE ConnectionsProofs ---------------------------
(***************************************************************************)
(* What the registries of a connection hold for any number of sessions,    *)
(* users and cells, however many goroutines disconnect the same client.    *)
(***************************************************************************)
EXTENDS Connections, TLAPS

-------------------------------------------------------------------------------
(* Types.                                                                  *)

LEMMA InitType == Init => TypeOK
BY ConnectionsAssumption DEF Init, TypeOK, Users, DisconnectPcs

\* The part of the types that a disconnect can touch.
RegistryType ==
  /\ sockets \subseteq Sids /\ conns \subseteq Sids
  /\ members \subseteq Sids \X Rooms
  /\ infoRooms \in [Sids -> SUBSET Rooms]
  /\ userSessions \in [Users -> Sids \cup {NoSid}]
  /\ quiet \subseteq Sids /\ limited \subseteq Sids
  /\ violations \in [Sids -> 0 .. MaxViolations]

\* A step of a disconnect keeps the registries' types, whichever goroutine does it.
LEMMA DisconnectStepType ==
  ASSUME TypeOK, NEW s \in Sids, NEW from, NEW to, DisconnectStep(s, from, to)
  PROVE  RegistryType' /\ from \in DisconnectPcs /\ to \in {"idle"} \cup DisconnectPcs
<1>. USE DEF TypeOK, RegistryType, DisconnectPcs
<1>1. CASE HasSocket(s, from, to)
  BY <1>1 DEF HasSocket, registry
<1>2. CASE DropSocket(s, from, to)
  BY <1>2 DEF DropSocket
<1>3. CASE LeaveAllRooms(s, from, to)
  BY <1>3 DEF LeaveAllRooms, RoomSets!LeaveAll
<1>4. CASE RemoveConn(s, from, to)
  BY <1>4 DEF RemoveConn, Remove
<1>5. CASE ForgetLimits(s, from, to)
  BY <1>5, ConnectionsAssumption DEF ForgetLimits
<1>. QED
  BY <1>1, <1>2, <1>3, <1>4, <1>5 DEF DisconnectStep

LEMMA HandlingType ==
  ASSUME TypeOK, NEW s \in Sids, Handling(s)
  PROVE  TypeOK'
<1>. USE DEF TypeOK, Goto, registry, link, msgVars, reapVars,
         ConnectPcs, EventPcs, DisconnectPcs
<1>1. CASE Register(s)
  BY <1>1 DEF Register, Add, Users
<1>2. CASE SetPrevious(s)
  BY <1>2 DEF SetPrevious, SetRooms
<1>3. CASE Restore(s)
  BY <1>3 DEF Restore, RoomSets!Join
<1>4. CASE JoinNamespace(s)
  BY <1>4 DEF JoinNamespace
<1>5. CASE GetRooms(s)
  BY <1>5 DEF GetRooms, InfoRooms
<1>6. CASE LeaveOld(s)
  BY <1>6 DEF LeaveOld, RoomSets!Leave
<1>7. CASE EnterNew(s)
  BY <1>7 DEF EnterNew, RoomSets!Join
<1>8. CASE TrackRooms(s)
  BY <1>8 DEF TrackRooms, SetRooms
<1>9. CASE ChatEnter(s)
  BY <1>9 DEF ChatEnter, RoomSets!Join, Rooms
<1>10. CASE ChatTrack(s)
  BY <1>10 DEF ChatTrack, Rooms
<1>11. CASE ChatLeaveRoom(s)
  BY <1>11 DEF ChatLeaveRoom, RoomSets!Leave
<1>12. CASE ChatUntrack(s)
  BY <1>12 DEF ChatUntrack
<1>13. CASE MsgDisconnect(s)
  <2>1. PICK to \in {"idle"} \cup DisconnectPcs :
          /\ DisconnectStep(s, msgPc[s], to)
          /\ msgPc' = [msgPc EXCEPT ![s] = to]
          /\ UNCHANGED <<link, todo, want, netPc, reapVars, events, latest, strayed>>
    BY <1>13 DEF MsgDisconnect
  <2>2. RegistryType'
    BY <2>1, DisconnectStepType
  <2>. QED
    BY <2>1, <2>2 DEF RegistryType
<1>. QED
  BY <1>1, <1>2, <1>3, <1>4, <1>5, <1>6, <1>7, <1>8, <1>9, <1>10, <1>11, <1>12,
     <1>13 DEF Handling

LEMMA ArrivalType ==
  ASSUME TypeOK, NEW s \in Sids, Arrival(s)
  PROVE  TypeOK'
<1>. USE DEF TypeOK, Goto, registry, link, msgVars, reapVars,
         ConnectPcs, EventPcs, DisconnectPcs
<1>1. CASE Open(s)
  BY <1>1 DEF Open
<1>2. CASE HangUp(s)
  BY <1>2 DEF HangUp
<1>3. CASE Connect(s)
  BY <1>3, ConnectionsAssumption DEF Connect, PreviousRooms, Users
<1>4. CASE Disconnect(s)
  BY <1>4 DEF Disconnect
<1>5. CASE Heartbeat(s)
  BY <1>5 DEF Heartbeat
<1>6. CASE Quiet(s)
  BY <1>6 DEF Quiet
<1>7. CASE Subscribe(s)
  BY <1>7 DEF Subscribe, Event, Rooms
<1>8. CASE Send(s)
  BY <1>8 DEF Send, Event
<1>9. CASE Reject(s)
  BY <1>9, ConnectionsAssumption DEF Reject, Event
<1>10. CASE ChatJoin(s)
  BY <1>10 DEF ChatJoin, Event
<1>11. CASE ChatLeave(s)
  BY <1>11 DEF ChatLeave, Event
<1>12. CASE SessionCloses(s)
  BY <1>12 DEF SessionCloses
<1>13. CASE ReadLoopEnds(s)
  BY <1>13 DEF ReadLoopEnds
<1>. QED
  BY <1>1, <1>2, <1>3, <1>4, <1>5, <1>6, <1>7, <1>8, <1>9, <1>10, <1>11, <1>12,
     <1>13 DEF Arrival

LEMMA NetDisconnectType ==
  ASSUME TypeOK, NEW s \in Sids, NetDisconnect(s)
  PROVE  TypeOK'
<1>1. PICK to \in {"idle"} \cup DisconnectPcs :
        /\ DisconnectStep(s, netPc[s], to)
        /\ netPc' = [netPc EXCEPT ![s] = to]
        /\ MarkStray(s, netPc[s])
        /\ UNCHANGED <<link, msgVars, reapVars, events, latest>>
  BY DEF NetDisconnect
<1>2. RegistryType'
  BY <1>1, DisconnectStepType
<1>3. strayed' \subseteq Sids
  BY <1>1 DEF MarkStray, TypeOK
<1>. QED
  BY <1>1, <1>2, <1>3 DEF RegistryType, TypeOK, link, msgVars, reapVars

LEMMA ReaperType ==
  ASSUME TypeOK, Reaper
  PROVE  TypeOK'
<1>1. CASE ReapStart
  BY <1>1 DEF ReapStart, TypeOK, DisconnectPcs, registry, link, msgVars
<1>2. CASE ReapNext
  BY <1>2 DEF ReapNext, TypeOK, DisconnectPcs, registry, link, msgVars
<1>3. CASE ReapDisconnect
  <2>1. PICK to \in {"idle"} \cup DisconnectPcs :
          /\ reapSid # NoSid
          /\ DisconnectStep(reapSid, reapPc, to)
          /\ reapPc' = IF to = "idle" THEN "next" ELSE to
          /\ reapSid' = IF to = "idle" THEN NoSid ELSE reapSid
          /\ MarkStray(reapSid, reapPc)
          /\ UNCHANGED <<link, msgVars, netPc, reapTodo, events, latest>>
    BY <1>3 DEF ReapDisconnect
  <2>2. reapSid \in Sids
    BY <2>1 DEF TypeOK
  <2>3. RegistryType'
    BY <2>1, <2>2, DisconnectStepType
  <2>4. strayed' \subseteq Sids
    BY <2>1, <2>2 DEF MarkStray, TypeOK
  <2>. QED
    BY <2>1, <2>2, <2>3, <2>4 DEF RegistryType, TypeOK, link, msgVars, DisconnectPcs
<1>. QED
  BY <1>1, <1>2, <1>3 DEF Reaper

LEMMA NextType == TypeOK /\ [Next]_vars => TypeOK'
<1>. SUFFICES ASSUME TypeOK, [Next]_vars PROVE TypeOK'
  OBVIOUS
<1>1. CASE UNCHANGED vars
  BY <1>1 DEF TypeOK, vars, link, registry, msgVars, reapVars
<1>. QED
  BY <1>1, ArrivalType, HandlingType, NetDisconnectType, ReaperType DEF Next

\* Every variable keeps its type: the reaper has a session wherever it disconnects
\* one, and nobody is rejected more often than MaxViolations without being
\* disconnected. (RateLimiter.Allow, Reaper.reap.)
THEOREM TypeCorrect == Spec => []TypeOK
BY InitType, NextType, PTL DEF Spec

-------------------------------------------------------------------------------
(* SocketsRegistered.  A session enters ns.sockets once, at the end of its *)
(* CONNECT.  The strengthening says what that protects: nobody is inside   *)
(* HandleDisconnect for a session whose CONNECT is not over, and whoever   *)
(* has gone past the removal of the socket finds it gone for good.         *)

Past   == {"leaveAll", "remove", "cleanup"}
Inside == {"drop"} \cup Past

Connected(s) == client[s] \notin {"none", "new"} /\ msgPc[s] \notin ConnectPcs

\* A goroutine in HandleDisconnect for session s with program counter pc.
SafeInside(s, pc) ==
  /\ pc \in Inside => Connected(s)
  /\ pc \in Past => s \notin sockets

SessionInv(s) ==
  /\ client[s] \in {"none", "new"} => msgPc[s] = "idle"
  /\ s \in sockets => Connected(s) /\ s \in conns
  /\ msgPc[s] \in {"setPrevious", "restore", "join"} => s \in conns
  /\ SafeInside(s, msgPc[s])
  /\ SafeInside(s, netPc[s])
  /\ reapSid = s => SafeInside(s, reapPc)

RegisteredInv == TypeOK /\ \A s \in Sids : SessionInv(s)

\* The state a session's invariant speaks of, for all sessions but s.
OthersKeep(s) ==
  \A t \in Sids \ {s} :
    /\ client'[t] = client[t] /\ msgPc'[t] = msgPc[t] /\ netPc'[t] = netPc[t]
    /\ (t \in sockets') = (t \in sockets)
    /\ (t \in conns') = (t \in conns)
    /\ reapSid' = t => reapSid = t /\ reapPc' = reapPc

LEMMA OthersKeepInv ==
  ASSUME RegisteredInv, NEW s \in Sids, OthersKeep(s)
  PROVE  \A t \in Sids \ {s} : SessionInv(t)'
BY DEF RegisteredInv, OthersKeep, SessionInv, SafeInside, Connected

\* A disconnect, one critical section further: what it does to the socket and to
\* the entry of the table, and what its new program counter may rely on.
LEMMA DisconnectStepSafe ==
  ASSUME RegisteredInv, NEW s \in Sids, NEW from, NEW to,
         SafeInside(s, from), DisconnectStep(s, from, to)
  PROVE  /\ sockets' \subseteq sockets /\ sockets \ sockets' \subseteq {s}
         /\ conns' \subseteq conns /\ conns \ conns' \subseteq {s}
         /\ s \in sockets' => s \in conns'
         /\ s \notin conns' => s \notin conns \/ Connected(s)
         /\ to \in Inside => Connected(s)
         /\ to \in Past => s \notin sockets'
<1>. USE DEF RegisteredInv, SessionInv, SafeInside, Inside, Past
<1>1. CASE HasSocket(s, from, to)
  BY <1>1 DEF HasSocket, registry
<1>2. CASE DropSocket(s, from, to)
  BY <1>2 DEF DropSocket
<1>3. CASE LeaveAllRooms(s, from, to)
  BY <1>3 DEF LeaveAllRooms
<1>4. CASE RemoveConn(s, from, to)
  BY <1>4 DEF RemoveConn, Remove
<1>5. CASE ForgetLimits(s, from, to)
  BY <1>5 DEF ForgetLimits
<1>. QED
  BY <1>1, <1>2, <1>3, <1>4, <1>5 DEF DisconnectStep

LEMMA HandlingSafe ==
  ASSUME RegisteredInv, NEW s \in Sids, Handling(s)
  PROVE  OthersKeep(s) /\ SessionInv(s)'
<1>. USE DEF RegisteredInv, SessionInv, SafeInside, Connected, OthersKeep, TypeOK, Goto,
         registry, link, msgVars, reapVars, Inside, Past, ConnectPcs
<1>1. CASE Register(s)
  BY <1>1 DEF Register, Add
<1>2. CASE SetPrevious(s) \/ Restore(s)
  BY <1>2 DEF SetPrevious, Restore
<1>3. CASE JoinNamespace(s)
  BY <1>3 DEF JoinNamespace
<1>4. CASE GetRooms(s) \/ LeaveOld(s) \/ EnterNew(s) \/ TrackRooms(s)
  BY <1>4 DEF GetRooms, LeaveOld, EnterNew, TrackRooms
<1>5. CASE ChatEnter(s) \/ ChatTrack(s) \/ ChatLeaveRoom(s) \/ ChatUntrack(s)
  BY <1>5 DEF ChatEnter, ChatTrack, ChatLeaveRoom, ChatUntrack
<1>6. CASE MsgDisconnect(s)
  <2>1. PICK to \in {"idle"} \cup DisconnectPcs :
          /\ DisconnectStep(s, msgPc[s], to)
          /\ msgPc' = [msgPc EXCEPT ![s] = to]
          /\ UNCHANGED <<link, todo, want, netPc, reapVars, events, latest, strayed>>
    BY <1>6 DEF MsgDisconnect
  <2>2. /\ sockets' \subseteq sockets /\ sockets \ sockets' \subseteq {s}
        /\ conns' \subseteq conns /\ conns \ conns' \subseteq {s}
        /\ s \in sockets' => s \in conns'
        /\ to \in Inside => Connected(s)
        /\ to \in Past => s \notin sockets'
    BY <2>1, DisconnectStepSafe
  <2>3. msgPc[s] \in DisconnectPcs
    BY <2>1, DisconnectStepType
  <2>4. to \notin ConnectPcs /\ msgPc'[s] = to
    BY <2>1 DEF DisconnectPcs
  <2>. QED
    BY <2>1, <2>2, <2>3, <2>4 DEF DisconnectPcs
<1>. QED
  BY <1>1, <1>2, <1>3, <1>4, <1>5, <1>6 DEF Handling

LEMMA ArrivalSafe ==
  ASSUME RegisteredInv, NEW s \in Sids, Arrival(s)
  PROVE  OthersKeep(s) /\ SessionInv(s)'
<1>. USE DEF RegisteredInv, SessionInv, SafeInside, Connected, OthersKeep, TypeOK, Goto,
         registry, link, msgVars, reapVars, Inside, Past, ConnectPcs
<1>1. CASE Open(s) \/ HangUp(s)
  BY <1>1 DEF Open, HangUp
<1>2. CASE Connect(s)
  BY <1>2 DEF Connect
<1>3. CASE Disconnect(s)
  BY <1>3 DEF Disconnect
<1>4. CASE Heartbeat(s) \/ Quiet(s)
  BY <1>4 DEF Heartbeat, Quiet
<1>5. CASE Subscribe(s) \/ Send(s) \/ Reject(s)
  BY <1>5 DEF Subscribe, Send, Reject, Event
<1>6. CASE ChatJoin(s) \/ ChatLeave(s)
  BY <1>6 DEF ChatJoin, ChatLeave, Event
<1>7. CASE SessionCloses(s) \/ ReadLoopEnds(s)
  BY <1>7 DEF SessionCloses, ReadLoopEnds
<1>. QED
  BY <1>1, <1>2, <1>3, <1>4, <1>5, <1>6, <1>7 DEF Arrival

LEMMA NetDisconnectSafe ==
  ASSUME RegisteredInv, NEW s \in Sids, NetDisconnect(s)
  PROVE  OthersKeep(s) /\ SessionInv(s)'
<1>. USE DEF RegisteredInv, SessionInv, SafeInside, Connected, OthersKeep, TypeOK,
         link, msgVars, reapVars, Inside, Past, ConnectPcs
<1>1. PICK to \in {"idle"} \cup DisconnectPcs :
        /\ DisconnectStep(s, netPc[s], to)
        /\ netPc' = [netPc EXCEPT ![s] = to]
        /\ UNCHANGED <<link, msgVars, reapVars, events, latest>>
  BY DEF NetDisconnect
<1>2. /\ sockets' \subseteq sockets /\ sockets \ sockets' \subseteq {s}
      /\ conns' \subseteq conns /\ conns \ conns' \subseteq {s}
      /\ s \in sockets' => s \in conns'
      /\ s \notin conns' => s \notin conns \/ Connected(s)
      /\ to \in Inside => Connected(s)
      /\ to \in Past => s \notin sockets'
  BY <1>1, DisconnectStepSafe
<1>. QED
  BY <1>1, <1>2

LEMMA ReaperSafe ==
  ASSUME RegisteredInv, Reaper
  PROVE  \A s \in Sids : SessionInv(s)'
<1>. USE DEF RegisteredInv, SessionInv, SafeInside, Connected, TypeOK,
         registry, link, msgVars, Inside, Past, ConnectPcs
<1>1. CASE ReapStart
  BY <1>1 DEF ReapStart
<1>2. CASE ReapNext
  BY <1>2 DEF ReapNext
<1>3. CASE ReapDisconnect
  <2>1. PICK to \in {"idle"} \cup DisconnectPcs :
          /\ reapSid # NoSid
          /\ DisconnectStep(reapSid, reapPc, to)
          /\ reapPc' = IF to = "idle" THEN "next" ELSE to
          /\ reapSid' = IF to = "idle" THEN NoSid ELSE reapSid
          /\ UNCHANGED <<link, msgVars, netPc, reapTodo, events, latest>>
    BY <1>3 DEF ReapDisconnect
  <2>2. reapSid \in Sids
    BY <2>1
  <2>3. /\ sockets' \subseteq sockets /\ sockets \ sockets' \subseteq {reapSid}
        /\ conns' \subseteq conns /\ conns \ conns' \subseteq {reapSid}
        /\ reapSid \in sockets' => reapSid \in conns'
        /\ reapSid \notin conns' => reapSid \notin conns \/ Connected(reapSid)
        /\ to \in Inside => Connected(reapSid)
        /\ to \in Past => reapSid \notin sockets'
    BY <2>1, <2>2, DisconnectStepSafe
  <2>4. TAKE s \in Sids
  <2>5. CASE s = reapSid
    BY <2>1, <2>2, <2>3, <2>5, ConnectionsAssumption
  <2>6. CASE s # reapSid
    BY <2>1, <2>2, <2>3, <2>6, ConnectionsAssumption
  <2>. QED
    BY <2>5, <2>6
<1>. QED
  BY <1>1, <1>2, <1>3 DEF Reaper

LEMMA RegisteredInit == Init => RegisteredInv
BY InitType, ConnectionsAssumption
   DEF Init, RegisteredInv, SessionInv, SafeInside, Connected, Inside, Past

LEMMA RegisteredNext == RegisteredInv /\ [Next]_vars => RegisteredInv'
<1>. SUFFICES ASSUME RegisteredInv, [Next]_vars PROVE RegisteredInv'
  OBVIOUS
<1>1. TypeOK'
  BY NextType DEF RegisteredInv
<1>2. CASE UNCHANGED vars
  BY <1>1, <1>2 DEF RegisteredInv, SessionInv, SafeInside, Connected,
                    vars, link, registry, msgVars, reapVars
<1>3. ASSUME NEW s \in Sids, Arrival(s) \/ Handling(s) \/ NetDisconnect(s)
      PROVE  RegisteredInv'
  <2>1. OthersKeep(s) /\ SessionInv(s)'
    BY <1>3, ArrivalSafe, HandlingSafe, NetDisconnectSafe
  <2>2. \A t \in Sids \ {s} : SessionInv(t)'
    BY <2>1, OthersKeepInv
  <2>. QED
    BY <1>1, <2>1, <2>2 DEF RegisteredInv
<1>4. CASE Reaper
  BY <1>1, <1>4, ReaperSafe DEF RegisteredInv
<1>. QED
  BY <1>2, <1>3, <1>4 DEF Next

\* Every socket of the namespace has an entry in the manager's table, for any
\* number of sessions, whichever goroutines connect and disconnect them.
\* (HandleConnect, HandleDisconnect, ConnectionManager.)
THEOREM BroadcastsGoToRegistered == Spec => []SocketsRegistered
<1>1. RegisteredInv => SocketsRegistered
  BY DEF RegisteredInv, SessionInv, TypeOK, SocketsRegistered
<1>. QED
  BY <1>1, RegisteredInit, RegisteredNext, PTL DEF Spec

-------------------------------------------------------------------------------
(* SessionTableSound.  Only Add and Remove touch the table of users.       *)

SessionTableInv ==
  /\ TypeOK
  /\ SessionTableSound
  /\ \A u \in Users :
       /\ userSessions[u] # NoSid => UserOf[userSessions[u]] = u
       /\ latest[u] # NoSid => UserOf[latest[u]] = u

\* What a step may do to the table of users.
TableStep ==
  \/ UNCHANGED <<conns, userSessions, latest>>
  \/ \E s \in Sids : Add(s) /\ latest' = [latest EXCEPT ![UserOf[s]] = s]
  \/ \E s \in Sids : Remove(s) /\ UNCHANGED latest

LEMMA DisconnectTableStep ==
  ASSUME NEW s \in Sids, NEW from, NEW to, DisconnectStep(s, from, to)
  PROVE  Remove(s) \/ UNCHANGED <<conns, userSessions>>
BY DEF DisconnectStep, HasSocket, DropSocket, LeaveAllRooms, RemoveConn, ForgetLimits,
       registry

LEMMA NextTableStep == TypeOK /\ [Next]_vars => TableStep
<1>. SUFFICES ASSUME TypeOK, [Next]_vars PROVE TableStep
  OBVIOUS
<1>. USE DEF TableStep, link, registry, msgVars, reapVars
<1>1. CASE UNCHANGED vars
  BY <1>1 DEF vars
<1>2. ASSUME NEW s \in Sids, Arrival(s) PROVE TableStep
  BY <1>2 DEF Arrival, Open, HangUp, Connect, Disconnect, Heartbeat, Quiet, Subscribe,
              Send, Reject, ChatJoin, ChatLeave, SessionCloses, ReadLoopEnds
<1>3. ASSUME NEW s \in Sids, Handling(s) PROVE TableStep
  <2>1. CASE Register(s)
    BY <2>1 DEF Register
  <2>2. CASE MsgDisconnect(s)
    BY <2>2, DisconnectTableStep DEF MsgDisconnect
  <2>. QED
    BY <1>3, <2>1, <2>2
       DEF Handling, SetPrevious, Restore, JoinNamespace, GetRooms, LeaveOld, EnterNew,
           TrackRooms, ChatEnter, ChatTrack, ChatLeaveRoom, ChatUntrack
<1>4. ASSUME NEW s \in Sids, NetDisconnect(s) PROVE TableStep
  BY <1>4, DisconnectTableStep DEF NetDisconnect
<1>5. CASE Reaper
  <2>1. CASE ReapStart \/ ReapNext
    BY <2>1 DEF ReapStart, ReapNext
  <2>2. CASE ReapDisconnect
    <3>1. reapSid \in Sids
      BY <2>2 DEF ReapDisconnect, TypeOK
    <3>. QED
      BY <2>2, <3>1, DisconnectTableStep DEF ReapDisconnect
  <2>. QED
    BY <1>5, <2>1, <2>2 DEF Reaper
<1>. QED
  BY <1>1, <1>2, <1>3, <1>4, <1>5 DEF Next

LEMMA SessionTableNext ==
  ASSUME SessionTableInv, [Next]_vars
  PROVE  SessionTableInv'
<1>1. TypeOK' /\ TableStep
  BY NextType, NextTableStep DEF SessionTableInv
<1>. USE DEF SessionTableInv, SessionTableSound, TypeOK
<1>2. CASE UNCHANGED <<conns, userSessions, latest>>
  BY <1>1, <1>2
<1>3. ASSUME NEW s \in Sids, Add(s), latest' = [latest EXCEPT ![UserOf[s]] = s]
      PROVE  SessionTableInv'
  BY <1>1, <1>3, ConnectionsAssumption DEF Add
<1>4. ASSUME NEW s \in Sids, Remove(s), UNCHANGED latest
      PROVE  SessionTableInv'
  BY <1>1, <1>4, ConnectionsAssumption DEF Remove
<1>. QED
  BY <1>1, <1>2, <1>3, <1>4 DEF TableStep

\* However many sessions of a user overlap, in whatever order they are added and
\* removed, the user's entry is never dangling and belongs to the session added
\* last while that one is connected. (ConnectionManager.Add and Remove.)
THEOREM LatestSessionKeepsEntry == Spec => []SessionTableSound
<1>1. Init => SessionTableInv
  BY InitType, ConnectionsAssumption DEF Init, SessionTableInv, SessionTableSound
<1>2. SessionTableInv /\ [Next]_vars => SessionTableInv'
  BY SessionTableNext
<1>3. SessionTableInv => SessionTableSound
  BY DEF SessionTableInv
<1>. QED
  BY <1>1, <1>2, <1>3, PTL DEF Spec

-------------------------------------------------------------------------------
(* TrackedRoomsMatch.  The rooms of a client and the record of them change *)
(* in different critical sections; RoomsInv says how they differ at each   *)
(* point of a handler.  It says nothing once a goroutine has taken the     *)
(* client out of its rooms: that one takes it off the table next, and a    *)
(* session never comes back to the table.                                  *)

At(s, pcs) ==
  msgPc[s] \in pcs \/ netPc[s] \in pcs \/ (reapSid = s /\ reapPc \in pcs)

RoomsInv(s) ==
  /\ netPc[s] # "idle" => s \in closed
  /\ client[s] \in {"none", "new"} => msgPc[s] = "idle" /\ s \notin conns
  /\ client[s] \in {"none", "new"} \/ msgPc[s] = "add" => RoomsIn(s) = {}
  /\ msgPc[s] = "strayLeave" => s \notin conns
  /\ s \in conns /\ ~At(s, {"remove"}) =>
       /\ msgPc[s] \in {"idle", "join", "get", "chatEnter", "chatLeave"} \cup DisconnectPcs
            => RoomsIn(s) = infoRooms[s]
       /\ msgPc[s] = "setPrevious" => RoomsIn(s) = {}
       /\ msgPc[s] = "restore" => infoRooms[s] = want[s] /\ RoomsIn(s) \cup todo[s] = want[s]
       /\ msgPc[s] = "leaveOld" => RoomsIn(s) = todo[s]
       /\ msgPc[s] = "enterNew" => RoomsIn(s) \cup todo[s] = want[s]
       /\ msgPc[s] = "chatTrack" => RoomsIn(s) = infoRooms[s] \cup {ChatRoom}
       /\ msgPc[s] = "chatUntrack" => RoomsIn(s) = infoRooms[s] \ {ChatRoom}

TrackedInv == TypeOK /\ \A s \in Sids : RoomsInv(s)

\* What the other sessions' invariants speak of.
OthersSame(s) ==
  \A t \in Sids \ {s} :
    /\ client'[t] = client[t] /\ (t \in closed') = (t \in closed)
    /\ msgPc'[t] = msgPc[t] /\ netPc'[t] = netPc[t]
    /\ want'[t] = want[t] /\ todo'[t] = todo[t]
    /\ RoomsIn(t)' = RoomsIn(t) /\ infoRooms'[t] = infoRooms[t]
    /\ (t \in sockets') = (t \in sockets) /\ (t \in conns') = (t \in conns)
    /\ (t \in limited') = (t \in limited) /\ (t \in strayed') = (t \in strayed)
    /\ (reapSid' = t) = (reapSid = t)
    /\ reapSid = t => reapPc' = reapPc

LEMMA JoinRooms ==
  ASSUME NEW s \in Sids, NEW r \in Rooms, RoomSets!Join(s, r)
  PROVE  /\ RoomsIn(s)' = RoomsIn(s) \cup {r}
         /\ \A t \in Sids \ {s} : RoomsIn(t)' = RoomsIn(t)
BY DEF RoomSets!Join, RoomsIn, RoomSets!RoomsOf

LEMMA LeaveRooms ==
  ASSUME NEW s \in Sids, NEW r \in Rooms, RoomSets!Leave(s, r)
  PROVE  /\ RoomsIn(s)' = RoomsIn(s) \ {r}
         /\ \A t \in Sids \ {s} : RoomsIn(t)' = RoomsIn(t)
BY DEF RoomSets!Leave, RoomsIn, RoomSets!RoomsOf

LEMMA SameRooms ==
  ASSUME UNCHANGED members
  PROVE  \A t \in Sids : RoomsIn(t)' = RoomsIn(t)
BY DEF RoomsIn, RoomSets!RoomsOf

\* One critical section of a disconnect: what it does to its session, and that it
\* does nothing to the others.
LEMMA DisconnectEffect ==
  ASSUME TypeOK, NEW s \in Sids, NEW from, NEW to, DisconnectStep(s, from, to)
  PROVE  /\ from \in DisconnectPcs /\ to \in {"idle"} \cup DisconnectPcs
         /\ infoRooms' = infoRooms
         /\ from = "drop" => to = "leaveAll" /\ s \notin sockets'
         /\ from # "drop" => sockets' = sockets /\ to # "leaveAll"
         /\ from = "leaveAll" => to = "remove" /\ RoomsIn(s)' = {}
         /\ from # "leaveAll" => RoomsIn(s)' = RoomsIn(s)
         /\ from = "remove" => to = "cleanup" /\ s \notin conns'
         /\ from # "remove" => conns' = conns
         /\ from = "cleanup" => s \notin limited'
         /\ from # "cleanup" => limited' = limited
         /\ \A t \in Sids \ {s} :
              /\ RoomsIn(t)' = RoomsIn(t)
              /\ (t \in sockets') = (t \in sockets) /\ (t \in conns') = (t \in conns)
              /\ (t \in limited') = (t \in limited)
<1>1. CASE HasSocket(s, from, to)
  BY <1>1, SameRooms DEF HasSocket, registry, DisconnectPcs
<1>2. CASE DropSocket(s, from, to)
  BY <1>2, SameRooms DEF DropSocket, DisconnectPcs
<1>3. CASE LeaveAllRooms(s, from, to)
  <2>1. RoomsIn(s)' = {} /\ \A t \in Sids \ {s} : RoomsIn(t)' = RoomsIn(t)
    BY <1>3 DEF LeaveAllRooms, RoomSets!LeaveAll, RoomsIn, RoomSets!RoomsOf
  <2>. QED
    BY <1>3, <2>1 DEF LeaveAllRooms, DisconnectPcs
<1>4. CASE RemoveConn(s, from, to)
  BY <1>4, SameRooms DEF RemoveConn, Remove, DisconnectPcs
<1>5. CASE ForgetLimits(s, from, to)
  BY <1>5, SameRooms DEF ForgetLimits, DisconnectPcs
<1>. QED
  BY <1>1, <1>2, <1>3, <1>4, <1>5 DEF DisconnectStep

LEMMA RoomTypes ==
  ASSUME TypeOK, NEW s \in Sids
  PROVE  /\ RoomsIn(s) \subseteq Rooms /\ ChatRoom \in Rooms
         /\ infoRooms[s] \subseteq Rooms /\ todo[s] \subseteq Rooms /\ want[s] \subseteq Rooms
BY DEF TypeOK, RoomsIn, RoomSets!RoomsOf, Rooms

\* The handlers, except for a disconnect.
LEMMA HandlingRooms ==
  ASSUME TrackedInv, NEW s \in Sids, Handling(s), ~MsgDisconnect(s)
  PROVE  OthersSame(s) /\ RoomsInv(s)'
<1>. USE RoomTypes DEF TrackedInv, RoomsInv, OthersSame, TypeOK, Goto, At, registry, link,
         msgVars, reapVars, DisconnectPcs
<1>1. CASE Register(s)
  BY <1>1, SameRooms DEF Register, Add
<1>2. CASE SetPrevious(s)
  BY <1>2, SameRooms DEF SetPrevious, SetRooms
<1>3. CASE Restore(s)
  <2>1. PICK r \in todo[s] :
          /\ Goto(s, "restore", IF todo[s] = {r} THEN "join" ELSE "restore")
          /\ RoomSets!Join(s, r)
          /\ todo' = [todo EXCEPT ![s] = @ \ {r}]
    BY <1>3 DEF Restore
  <2>2. /\ RoomsIn(s)' = RoomsIn(s) \cup {r}
        /\ \A t \in Sids \ {s} : RoomsIn(t)' = RoomsIn(t)
    BY <2>1, JoinRooms
  <2>. QED
    BY <1>3, <2>1, <2>2 DEF Restore
<1>4. CASE JoinNamespace(s)
  BY <1>4, SameRooms DEF JoinNamespace
<1>5. CASE GetRooms(s)
  BY <1>5, SameRooms DEF GetRooms, InfoRooms
<1>6. CASE LeaveOld(s)
  <2>1. PICK r \in todo[s] :
          /\ Goto(s, "leaveOld", IF todo[s] = {r} THEN "enterNew" ELSE "leaveOld")
          /\ RoomSets!Leave(s, r)
          /\ todo' = [todo EXCEPT ![s] = IF @ = {r} THEN want[s] ELSE @ \ {r}]
    BY <1>6 DEF LeaveOld
  <2>2. /\ RoomsIn(s)' = RoomsIn(s) \ {r}
        /\ \A t \in Sids \ {s} : RoomsIn(t)' = RoomsIn(t)
    BY <2>1, LeaveRooms
  <2>. QED
    BY <1>6, <2>1, <2>2 DEF LeaveOld
<1>7. CASE EnterNew(s)
  <2>1. PICK r \in todo[s] :
          /\ Goto(s, "enterNew", "enterNew")
          /\ RoomSets!Join(s, r)
          /\ todo' = [todo EXCEPT ![s] = @ \ {r}]
    BY <1>7 DEF EnterNew
  <2>2. /\ RoomsIn(s)' = RoomsIn(s) \cup {r}
        /\ \A t \in Sids \ {s} : RoomsIn(t)' = RoomsIn(t)
    BY <2>1, JoinRooms
  <2>. QED
    BY <1>7, <2>1, <2>2 DEF EnterNew
<1>8. CASE TrackRooms(s)
  <2>1. OthersSame(s)
    BY <1>8, SameRooms DEF TrackRooms, SetRooms
  <2>2. s \in conns /\ ~At(s, {"remove"}) => RoomsIn(s) = want[s]
    BY <1>8 DEF TrackRooms
  <2>3. s \in conns' => infoRooms'[s] = want[s]
    BY <1>8 DEF TrackRooms, SetRooms
  <2>. QED
    BY <1>8, <2>1, <2>2, <2>3, SameRooms DEF TrackRooms
<1>9. CASE ChatEnter(s)
  BY <1>9, JoinRooms DEF ChatEnter
<1>10. CASE ChatTrack(s)
  BY <1>10, SameRooms DEF ChatTrack
<1>11. CASE ChatLeaveRoom(s)
  BY <1>11, LeaveRooms DEF ChatLeaveRoom
<1>12. CASE ChatUntrack(s)
  BY <1>12, SameRooms DEF ChatUntrack
<1>. QED
  BY <1>1, <1>2, <1>3, <1>4, <1>5, <1>6, <1>7, <1>8, <1>9, <1>10, <1>11, <1>12 DEF Handling

LEMMA ArrivalRooms ==
  ASSUME TrackedInv, NEW s \in Sids, Arrival(s)
  PROVE  OthersSame(s) /\ RoomsInv(s)'
<1>. USE SameRooms DEF TrackedInv, RoomsInv, OthersSame, TypeOK, Goto, At, registry, link,
         msgVars, reapVars, DisconnectPcs
<1>1. CASE Open(s) \/ HangUp(s)
  BY <1>1 DEF Open, HangUp
<1>2. CASE Connect(s)
  BY <1>2 DEF Connect
<1>3. CASE Disconnect(s)
  BY <1>3 DEF Disconnect
<1>4. CASE Heartbeat(s) \/ Quiet(s)
  BY <1>4 DEF Heartbeat, Quiet
<1>5. CASE Subscribe(s) \/ Send(s)
  BY <1>5 DEF Subscribe, Send, Event
<1>6. CASE Reject(s)
  BY <1>6 DEF Reject, Event
<1>7. CASE ChatJoin(s) \/ ChatLeave(s)
  BY <1>7 DEF ChatJoin, ChatLeave, Event
<1>8. CASE SessionCloses(s) \/ ReadLoopEnds(s)
  BY <1>8 DEF SessionCloses, ReadLoopEnds
<1>. QED
  BY <1>1, <1>2, <1>3, <1>4, <1>5, <1>6, <1>7, <1>8 DEF Arrival

\* A disconnect by any of its three goroutines.
LEMMA MsgDisconnectRooms ==
  ASSUME TrackedInv, NEW s \in Sids, MsgDisconnect(s)
  PROVE  OthersSame(s) /\ RoomsInv(s)'
<1>. USE DEF TrackedInv, RoomsInv, OthersSame, TypeOK, At, link, reapVars
<1>1. PICK to \in {"idle"} \cup DisconnectPcs :
        /\ DisconnectStep(s, msgPc[s], to)
        /\ msgPc' = [msgPc EXCEPT ![s] = to]
        /\ UNCHANGED <<link, todo, want, netPc, reapVars, events, latest, strayed>>
  BY DEF MsgDisconnect
<1>2. OthersSame(s)
  BY <1>1, DisconnectEffect
<1>3. RoomsInv(s)'
  BY <1>1, DisconnectEffect DEF DisconnectPcs
<1>. QED
  BY <1>2, <1>3

LEMMA NetDisconnectRooms ==
  ASSUME TrackedInv, NEW s \in Sids, NetDisconnect(s)
  PROVE  OthersSame(s) /\ RoomsInv(s)'
<1>. USE DEF TrackedInv, RoomsInv, OthersSame, TypeOK, At, link, msgVars, reapVars
<1>1. PICK to \in {"idle"} \cup DisconnectPcs :
        /\ DisconnectStep(s, netPc[s], to)
        /\ netPc' = [netPc EXCEPT ![s] = to]
        /\ MarkStray(s, netPc[s])
        /\ UNCHANGED <<link, msgVars, reapVars, events, latest>>
  BY DEF NetDisconnect
<1>2. OthersSame(s)
  BY <1>1, DisconnectEffect DEF MarkStray
<1>3. RoomsInv(s)'
  BY <1>1, DisconnectEffect DEF DisconnectPcs
<1>. QED
  BY <1>2, <1>3

LEMMA ReapDisconnectRooms ==
  ASSUME TrackedInv, ReapDisconnect, NEW s \in Sids, s = reapSid
  PROVE  OthersSame(s) /\ RoomsInv(s)'
<1>. USE DEF TrackedInv, RoomsInv, OthersSame, TypeOK, At, link, msgVars
<1>1. PICK to \in {"idle"} \cup DisconnectPcs :
        /\ DisconnectStep(s, reapPc, to)
        /\ reapPc' = IF to = "idle" THEN "next" ELSE to
        /\ reapSid' = IF to = "idle" THEN NoSid ELSE reapSid
        /\ MarkStray(s, reapPc)
        /\ UNCHANGED <<link, msgVars, netPc, reapTodo, events, latest>>
  BY DEF ReapDisconnect
<1>2. OthersSame(s)
  BY <1>1, DisconnectEffect, ConnectionsAssumption DEF MarkStray
<1>3. RoomsInv(s)'
  BY <1>1, DisconnectEffect, ConnectionsAssumption DEF DisconnectPcs
<1>. QED
  BY <1>2, <1>3

LEMMA ReaperHasSession == TypeOK /\ ReapDisconnect => \E s \in Sids : s = reapSid
BY DEF TypeOK, ReapDisconnect

LEMMA OthersSameRooms ==
  ASSUME TrackedInv, NEW s \in Sids, OthersSame(s)
  PROVE  \A t \in Sids \ {s} : RoomsInv(t)'
BY DEF TrackedInv, OthersSame, RoomsInv, At

LEMMA TrackedNext == TrackedInv /\ [Next]_vars => TrackedInv'
<1>. SUFFICES ASSUME TrackedInv, [Next]_vars PROVE TrackedInv'
  OBVIOUS
<1>1. TypeOK'
  BY NextType DEF TrackedInv
<1>2. ASSUME NEW s \in Sids, OthersSame(s), RoomsInv(s)'
      PROVE  TrackedInv'
  BY <1>1, <1>2, OthersSameRooms DEF TrackedInv
<1>3. CASE UNCHANGED vars
  BY <1>1, <1>3, SameRooms DEF TrackedInv, RoomsInv, At, vars, link, registry, msgVars, reapVars
<1>4. ASSUME NEW s \in Sids, Arrival(s) \/ Handling(s) \/ NetDisconnect(s)
      PROVE  TrackedInv'
  BY <1>2, <1>4, ArrivalRooms, HandlingRooms, MsgDisconnectRooms, NetDisconnectRooms
<1>5. CASE ReapStart \/ ReapNext
  BY <1>1, <1>5, SameRooms
     DEF ReapStart, ReapNext, TrackedInv, RoomsInv, At, TypeOK, link, registry, msgVars
<1>6. CASE ReapDisconnect
  <2>1. PICK s \in Sids : s = reapSid
    BY <1>6, ReaperHasSession DEF TrackedInv
  <2>. QED
    BY <1>2, <1>6, <2>1, ReapDisconnectRooms
<1>. QED
  BY <1>3, <1>4, <1>5, <1>6 DEF Next, Reaper

\* Whatever the interleaving of viewport, chat, reconnect and disconnects, a client
\* on the table and between two messages is in exactly the rooms on its record.
\* (joinViewportRooms, chat:join, chat:leave, HandleConnect, HandleDisconnect.)
THEOREM RecordsMatchRooms == Spec => []TrackedRoomsMatch
<1>1. Init => TrackedInv
  BY InitType DEF Init, TrackedInv, RoomsInv, RoomsIn, RoomSets!RoomsOf
<1>2. TrackedInv => TrackedRoomsMatch
  BY DEF TrackedInv, TypeOK, RoomsInv, At, TrackedRoomsMatch, Disconnecting, DisconnectPcs
<1>. QED
  BY <1>1, <1>2, TrackedNext, PTL DEF Spec

-------------------------------------------------------------------------------
(* OnlyStraysLeaveTraces.  As long as no event of a client strays, whoever *)
(* drops its socket finds no event being handled and none comes after it,  *)
(* so that what is left is on its way out: TracesInv.                      *)

TracesInv(s) ==
  /\ client[s] \in {"none", "new"} \/ msgPc[s] \in ConnectPcs => s \notin limited
  /\ s \notin strayed /\ s \notin sockets /\ msgPc[s] \notin ConnectPcs =>
       /\ msgPc[s] \notin EventPcs
       /\ RoomsIn(s) = {} \/ At(s, {"leaveAll"})
       /\ s \notin limited \/ At(s, {"leaveAll", "remove", "cleanup"})

CleanInv == TrackedInv /\ \A s \in Sids : TracesInv(s)

LEMMA HandlingTraces ==
  ASSUME CleanInv, NEW s \in Sids, Handling(s), ~MsgDisconnect(s)
  PROVE  TracesInv(s)'
<1>. USE SameRooms DEF CleanInv, TrackedInv, RoomsInv, TracesInv, TypeOK, Goto, At, registry,
         link, msgVars, reapVars, ConnectPcs, EventPcs
<1>1. CASE Register(s)
  BY <1>1 DEF Register, Add
<1>2. CASE SetPrevious(s) \/ Restore(s)
  BY <1>2 DEF SetPrevious, Restore
<1>3. CASE JoinNamespace(s)
  BY <1>3 DEF JoinNamespace
<1>4. CASE GetRooms(s) \/ LeaveOld(s) \/ EnterNew(s) \/ TrackRooms(s)
  BY <1>4 DEF GetRooms, LeaveOld, EnterNew, TrackRooms
<1>5. CASE ChatEnter(s) \/ ChatTrack(s) \/ ChatLeaveRoom(s) \/ ChatUntrack(s)
  BY <1>5 DEF ChatEnter, ChatTrack, ChatLeaveRoom, ChatUntrack
<1>. QED
  BY <1>1, <1>2, <1>3, <1>4, <1>5 DEF Handling

LEMMA ArrivalTraces ==
  ASSUME CleanInv, NEW s \in Sids, Arrival(s)
  PROVE  TracesInv(s)'
<1>. USE SameRooms DEF CleanInv, TrackedInv, RoomsInv, TracesInv, TypeOK, Goto, At, registry,
         link, msgVars, reapVars, ConnectPcs, EventPcs
<1>1. CASE Open(s) \/ HangUp(s)
  BY <1>1 DEF Open, HangUp
<1>2. CASE Connect(s)
  BY <1>2 DEF Connect
<1>3. CASE Disconnect(s)
  BY <1>3 DEF Disconnect
<1>4. CASE Heartbeat(s) \/ Quiet(s)
  BY <1>4 DEF Heartbeat, Quiet
<1>5. CASE Subscribe(s) \/ Send(s)
  BY <1>5 DEF Subscribe, Send, Event
<1>6. CASE Reject(s)
  BY <1>6 DEF Reject, Event
<1>7. CASE ChatJoin(s) \/ ChatLeave(s)
  BY <1>7 DEF ChatJoin, ChatLeave, Event
<1>8. CASE SessionCloses(s) \/ ReadLoopEnds(s)
  BY <1>8 DEF SessionCloses, ReadLoopEnds
<1>. QED
  BY <1>1, <1>2, <1>3, <1>4, <1>5, <1>6, <1>7, <1>8 DEF Arrival

LEMMA MsgDisconnectTraces ==
  ASSUME CleanInv, NEW s \in Sids, MsgDisconnect(s)
  PROVE  TracesInv(s)'
<1>1. PICK to \in {"idle"} \cup DisconnectPcs :
        /\ DisconnectStep(s, msgPc[s], to)
        /\ msgPc' = [msgPc EXCEPT ![s] = to]
        /\ UNCHANGED <<link, todo, want, netPc, reapVars, events, latest, strayed>>
  BY DEF MsgDisconnect
<1>. QED
  BY <1>1, DisconnectEffect DEF CleanInv, TrackedInv, TracesInv, TypeOK, At, link, reapVars,
     ConnectPcs, EventPcs, DisconnectPcs

LEMMA NetDisconnectTraces ==
  ASSUME CleanInv, NEW s \in Sids, NetDisconnect(s)
  PROVE  TracesInv(s)'
<1>1. PICK to \in {"idle"} \cup DisconnectPcs :
        /\ DisconnectStep(s, netPc[s], to)
        /\ netPc' = [netPc EXCEPT ![s] = to]
        /\ MarkStray(s, netPc[s])
        /\ UNCHANGED <<link, msgVars, reapVars, events, latest>>
  BY DEF NetDisconnect
<1>. QED
  BY <1>1, DisconnectEffect DEF CleanInv, TrackedInv, TracesInv, TypeOK, At, link, msgVars,
     reapVars, MarkStray, DisconnectPcs

LEMMA ReapDisconnectTraces ==
  ASSUME CleanInv, ReapDisconnect, NEW s \in Sids, s = reapSid
  PROVE  TracesInv(s)'
<1>1. PICK to \in {"idle"} \cup DisconnectPcs :
        /\ DisconnectStep(s, reapPc, to)
        /\ reapPc' = IF to = "idle" THEN "next" ELSE to
        /\ reapSid' = IF to = "idle" THEN NoSid ELSE reapSid
        /\ MarkStray(s, reapPc)
        /\ UNCHANGED <<link, msgVars, netPc, reapTodo, events, latest>>
  BY DEF ReapDisconnect
<1>. QED
  BY <1>1, DisconnectEffect DEF CleanInv, TrackedInv, TracesInv, TypeOK, At, link, msgVars,
     MarkStray, DisconnectPcs

LEMMA OthersSameTraces ==
  ASSUME CleanInv, NEW s \in Sids, OthersSame(s)
  PROVE  \A t \in Sids \ {s} : TracesInv(t)'
BY DEF CleanInv, OthersSame, TracesInv, At

LEMMA CleanNext == CleanInv /\ [Next]_vars => CleanInv'
<1>. SUFFICES ASSUME CleanInv, [Next]_vars PROVE CleanInv'
  OBVIOUS
<1>1. TrackedInv /\ TrackedInv'
  BY TrackedNext DEF CleanInv
<1>2. ASSUME NEW s \in Sids, OthersSame(s), TracesInv(s)'
      PROVE  CleanInv'
  BY <1>1, <1>2, OthersSameTraces DEF CleanInv
<1>3. CASE UNCHANGED vars
  BY <1>1, <1>3, SameRooms DEF CleanInv, TracesInv, At, vars, link, registry, msgVars, reapVars
<1>4. ASSUME NEW s \in Sids, Arrival(s) \/ Handling(s) \/ NetDisconnect(s)
      PROVE  CleanInv'
  <2>1. OthersSame(s)
    BY <1>1, <1>4, ArrivalRooms, HandlingRooms, MsgDisconnectRooms, NetDisconnectRooms
  <2>2. TracesInv(s)'
    BY <1>4, ArrivalTraces, HandlingTraces, MsgDisconnectTraces, NetDisconnectTraces
  <2>. QED
    BY <1>2, <2>1, <2>2
<1>5. CASE ReapStart \/ ReapNext
  BY <1>1, <1>5, SameRooms
     DEF ReapStart, ReapNext, CleanInv, TracesInv, At, TrackedInv, TypeOK, link, registry,
         msgVars
<1>6. CASE ReapDisconnect
  <2>1. PICK s \in Sids : s = reapSid
    BY <1>1, <1>6, ReaperHasSession DEF TrackedInv
  <2>. QED
    BY <1>1, <1>2, <1>6, <2>1, ReapDisconnectRooms, ReapDisconnectTraces
<1>. QED
  BY <1>3, <1>4, <1>5, <1>6 DEF Next, Reaper

\* A connection that has ended leaves no room and no bucket behind, except through an
\* event that was handled while or after it was disconnected, whichever of the three
\* goroutines did that. (HandleDisconnect, RateLimiter.Remove.)
THEOREM EndedLeavesNothing == Spec => []OnlyStraysLeaveTraces
<1>1. Init => CleanInv
  BY InitType DEF Init, CleanInv, TrackedInv, RoomsInv, TracesInv, RoomsIn, RoomSets!RoomsOf,
     ConnectPcs, EventPcs
<1>2. CleanInv => OnlyStraysLeaveTraces
  BY DEF CleanInv, TracesInv, At, OnlyStraysLeaveTraces, AtRest, Forgotten, Disconnecting,
     DisconnectPcs, ConnectPcs
<1>. QED
  BY <1>1, <1>2, CleanNext, PTL DEF Spec

===============================================================================
