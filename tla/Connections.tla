------------------------------ MODULE Connections ------------------------------
(***************************************************************************)
(* The life of a client connection in hwarr: Socket.IO CONNECT, viewport   *)
(* subscription, chat membership, heartbeats, and the three ways out (a    *)
(* message of the client, the closing of its Engine.IO session, the reaper *)
(* of silent connections).                                                 *)
(*                                                                         *)
(* Four structures, each with a lock of its own, describe a connection:    *)
(* the sockets of the namespace, its rooms, the ConnectionManager, and the *)
(* rate limiter.  A handler visits them one after the other.  The messages *)
(* of one client are handled one after the other, but next to them a       *)
(* second goroutine (the session's ping or write loop) and the reaper may  *)
(* disconnect the same client.  Each action is one critical section with   *)
(* the code that follows it up to the next one.                            *)
(*                                                                         *)
(* A closed session still delivers what the client sends: Close does not   *)
(* stop the WebSocket read loop.  A client sends CONNECT once in a session *)
(* (socket.disconnect() of the client library also ends the session), and  *)
(* no event before the answer to it: the library holds them back, the      *)
(* server does not check (namespace.go:156).  A CONNECT whose token is     *)
(* refused changes no state and is left out.                               *)
(* Emitted events (connected, users:count, chat:presence) change no state  *)
(* of the server and are left out.                                         *)
(***************************************************************************)
EXTENDS Naturals, FiniteSets

CONSTANTS
  Sids,            \* Engine.IO sessions
  UserOf,          \* UserOf[s]: the user whose token session s presents
  Cells,           \* grid rooms
  ChatRoom,        \* "chat:global"
  NoSid,           \* "no session"
  MaxViolations,   \* rejected events after which the next one disconnects
  MaxEvents        \* bound: viewport and chat events of all clients together

ASSUME ConnectionsAssumption ==
  /\ ChatRoom \notin Cells
  /\ NoSid \notin Sids
  /\ MaxViolations \in Nat /\ MaxEvents \in Nat

Rooms == Cells \cup {ChatRoom}
Users == {UserOf[s] : s \in Sids}

VARIABLES
  client,          \* the client's end of a session
  closed,          \* sessions closed on the server
  sockets,         \* ns.sockets
  members,         \* ns.Rooms: pairs <<sid, room>>
  conns,           \* the keys of manager.connections
  infoRooms,       \* ConnectionInfo.Rooms; the object outlives its table entry
  userSessions,    \* manager.userSessions, a user's entry named by its session
  quiet,           \* no heartbeat for HeartbeatTimeoutSec
  limited,         \* sessions with a token bucket in the rate limiter
  violations,      \* rl.violations
  msgPc, todo, want,       \* the message handler of a session and its locals
  netPc,                   \* the goroutine that closes the session
  reapPc, reapTodo, reapSid,   \* the reaper
  events,          \* events left to send
  latest,          \* history: the session of a user added last
  strayed          \* history: sessions with an event handled during a disconnect

registry  == <<sockets, members, conns, infoRooms, userSessions, limited, violations>>
msgVars   == <<msgPc, todo, want>>
reapVars  == <<reapPc, reapTodo, reapSid>>
link      == <<client, closed>>
vars == <<link, registry, quiet, msgVars, netPc, reapVars, events, latest, strayed>>

RoomSets == INSTANCE RoomMembership

ConnectPcs    == {"add", "setPrevious", "restore", "join"}
EventPcs      == {"get", "leaveOld", "enterNew", "setRooms",
                  "chatEnter", "chatTrack", "chatLeave", "chatUntrack", "strayLeave"}
DisconnectPcs == {"has", "drop", "leaveAll", "remove", "cleanup"}

TypeOK ==
  /\ client \in [Sids -> {"none", "new", "in", "out", "gone"}]
  /\ closed \subseteq Sids /\ sockets \subseteq Sids /\ conns \subseteq Sids
  /\ members \subseteq Sids \X Rooms
  /\ infoRooms \in [Sids -> SUBSET Rooms]
  /\ userSessions \in [Users -> Sids \cup {NoSid}]
  /\ quiet \subseteq Sids /\ limited \subseteq Sids
  /\ violations \in [Sids -> 0 .. MaxViolations]
  /\ msgPc \in [Sids -> {"idle"} \cup ConnectPcs \cup EventPcs \cup DisconnectPcs]
  /\ todo \in [Sids -> SUBSET Rooms] /\ want \in [Sids -> SUBSET Rooms]
  /\ netPc \in [Sids -> {"idle"} \cup DisconnectPcs]
  /\ reapPc \in {"idle", "next"} \cup DisconnectPcs
  /\ reapTodo \subseteq Sids /\ reapSid \in Sids \cup {NoSid}
  /\ reapPc \in DisconnectPcs => reapSid \in Sids
  /\ events \in Nat
  /\ latest \in [Users -> Sids \cup {NoSid}]
  /\ strayed \subseteq Sids

Init ==
  /\ client = [s \in Sids |-> "none"] /\ closed = {}
  /\ sockets = {} /\ members = {} /\ conns = {}
  /\ infoRooms = [s \in Sids |-> {}]
  /\ userSessions = [u \in Users |-> NoSid]
  /\ quiet = {} /\ limited = {} /\ violations = [s \in Sids |-> 0]
  /\ msgPc = [s \in Sids |-> "idle"]
  /\ todo = [s \in Sids |-> {}] /\ want = [s \in Sids |-> {}]
  /\ netPc = [s \in Sids |-> "idle"]
  /\ reapPc = "idle" /\ reapTodo = {} /\ reapSid = NoSid
  /\ events = MaxEvents
  /\ latest = [u \in Users |-> NoSid]
  /\ strayed = {}

Goto(s, from, to) == msgPc[s] = from /\ msgPc' = [msgPc EXCEPT ![s] = to]

-------------------------------------------------------------------------------
(* The ConnectionManager.                                                  *)

InfoRooms(s) == IF s \in conns THEN infoRooms[s] ELSE {}      \* GetRooms

PreviousRooms(u) ==                                           \* GetPreviousSession
  IF userSessions[u] = NoSid THEN {} ELSE infoRooms[userSessions[u]]

Add(s) ==
  /\ conns' = conns \cup {s}
  /\ infoRooms' = [infoRooms EXCEPT ![s] = {}]
  /\ quiet' = quiet \ {s}
  /\ userSessions' = [userSessions EXCEPT ![UserOf[s]] = s]

Remove_AnySession(s) ==
  /\ conns' = conns \ {s}
  /\ quiet' = quiet \ {s}
  /\ userSessions' = IF s \in conns THEN [userSessions EXCEPT ![UserOf[s]] = NoSid]
                                    ELSE userSessions

\* The user's entry goes too, unless a newer session of the user has taken it.
Remove(s) ==
  /\ conns' = conns \ {s}
  /\ quiet' = quiet \ {s}
  /\ userSessions' = IF s \in conns /\ userSessions[UserOf[s]] = s
                       THEN [userSessions EXCEPT ![UserOf[s]] = NoSid]
                       ELSE userSessions

SetRooms(s, rooms) ==
  infoRooms' = IF s \in conns THEN [infoRooms EXCEPT ![s] = rooms] ELSE infoRooms

\* The reaper's clock and the client's heartbeats.
Quiet(s) ==
  /\ s \in conns \ quiet
  /\ quiet' = quiet \cup {s}
  /\ UNCHANGED <<link, registry, msgVars, netPc, reapVars, events, latest, strayed>>

Heartbeat(s) ==
  /\ client[s] = "in" /\ msgPc[s] = "idle" /\ s \in conns
  /\ quiet' = quiet \ {s}
  /\ UNCHANGED <<link, registry, msgVars, netPc, reapVars, events, latest, strayed>>

-------------------------------------------------------------------------------
(* The sessions.                                                           *)

Open(s) ==
  /\ client[s] = "none"
  /\ client' = [client EXCEPT ![s] = "new"]
  /\ UNCHANGED <<closed, registry, quiet, msgVars, netPc, reapVars, events, latest, strayed>>

\* The client is lost, at any point.
HangUp(s) ==
  /\ client[s] \notin {"none", "gone"}
  /\ client' = [client EXCEPT ![s] = "gone"]
  /\ UNCHANGED <<closed, registry, quiet, msgVars, netPc, reapVars, events, latest, strayed>>

\* Close by the goroutine that reads from the client, between two messages.
ReadLoopEnds(s) ==
  /\ client[s] = "gone" /\ s \notin closed
  /\ Goto(s, "idle", "has")
  /\ closed' = closed \cup {s}
  /\ UNCHANGED <<client, registry, quiet, todo, want, netPc, reapVars, events,
                 latest, strayed>>

\* Close by the ping loop or the write loop, whatever the client is doing.
SessionCloses(s) ==
  /\ client[s] # "none" /\ s \notin closed
  /\ closed' = closed \cup {s}
  /\ netPc' = [netPc EXCEPT ![s] = "has"]
  /\ UNCHANGED <<client, registry, quiet, msgVars, reapVars, events, latest, strayed>>

-------------------------------------------------------------------------------
(* CONNECT (handleConnect, then HandleConnect's entry in ns.sockets).      *)

\* The previous session is looked up and its rooms are copied.
Connect(s) ==
  /\ client[s] = "new"
  /\ client' = [client EXCEPT ![s] = "in"]
  /\ Goto(s, "idle", "add")
  /\ want' = [want EXCEPT ![s] = PreviousRooms(UserOf[s])]
  /\ UNCHANGED <<closed, registry, quiet, todo, netPc, reapVars, events, latest, strayed>>

Register(s) ==
  /\ Goto(s, "add", IF want[s] = {} THEN "join" ELSE "setPrevious")
  /\ Add(s)
  /\ latest' = [latest EXCEPT ![UserOf[s]] = s]
  /\ UNCHANGED <<link, sockets, members, limited, violations, todo, want, netPc,
                 reapVars, events, strayed>>

SetPrevious(s) ==
  /\ Goto(s, "setPrevious", "restore")
  /\ SetRooms(s, want[s])
  /\ todo' = [todo EXCEPT ![s] = want[s]]
  /\ UNCHANGED <<link, sockets, members, conns, userSessions, limited, violations,
                 quiet, want, netPc, reapVars, events, latest, strayed>>

Restore(s) ==
  \E r \in todo[s] :
    /\ Goto(s, "restore", IF todo[s] = {r} THEN "join" ELSE "restore")
    /\ RoomSets!Join(s, r)
    /\ todo' = [todo EXCEPT ![s] = @ \ {r}]
    /\ UNCHANGED <<link, sockets, conns, infoRooms, userSessions, limited, violations,
                   quiet, want, netPc, reapVars, events, latest, strayed>>

JoinNamespace(s) ==
  /\ Goto(s, "join", "idle")
  /\ sockets' = sockets \cup {s}
  /\ want' = [want EXCEPT ![s] = {}]
  /\ UNCHANGED <<link, members, conns, infoRooms, userSessions, limited, violations,
                 quiet, todo, netPc, reapVars, events, latest, strayed>>

-------------------------------------------------------------------------------
(* Events.  An event of a client that a disconnect has already taken out    *)
(* of the namespace is handled all the same.                                *)

Event(s) ==
  /\ client[s] = "in" /\ events > 0
  /\ events' = events - 1
  /\ strayed' = IF s \in sockets THEN strayed ELSE strayed \cup {s}

\* RateLimiter.Allow lets subscribe:viewport pass.
Subscribe(s) ==
  \E cells \in SUBSET Cells :
    /\ Event(s)
    /\ Goto(s, "idle", "get")
    /\ limited' = limited \cup {s}
    /\ want' = [want EXCEPT ![s] = cells]
    /\ UNCHANGED <<link, sockets, members, conns, infoRooms, userSessions, violations,
                   quiet, todo, netPc, reapVars, latest>>

\* fire:ignite and chat:send, let through, touch nothing else here.
Send(s) ==
  /\ Event(s)
  /\ msgPc[s] = "idle"
  /\ limited' = limited \cup {s}
  /\ UNCHANGED <<link, sockets, members, conns, infoRooms, userSessions, violations,
                 quiet, msgVars, netPc, reapVars, latest>>

Reject_OneTooMany(s) ==
  /\ Event(s)
  /\ s \in limited
  /\ IF violations[s] <= MaxViolations
       THEN /\ violations' = [violations EXCEPT ![s] = @ + 1]
            /\ UNCHANGED <<limited, msgPc>> /\ msgPc[s] = "idle"
       ELSE /\ violations' = [violations EXCEPT ![s] = 0]
            /\ limited' = limited \ {s}
            /\ Goto(s, "idle", "has")
  /\ UNCHANGED <<link, sockets, members, conns, infoRooms, userSessions, quiet, todo,
                 want, netPc, reapVars, latest>>

\* RateLimiter.Allow rejects the event (the bucket, maybe created by an earlier
\* one, is empty); one rejection too many disconnects the client.
Reject(s) ==
  /\ Event(s)
  /\ s \in limited
  /\ IF violations[s] < MaxViolations
       THEN /\ violations' = [violations EXCEPT ![s] = @ + 1]
            /\ UNCHANGED <<limited, msgPc>> /\ msgPc[s] = "idle"
       ELSE /\ violations' = [violations EXCEPT ![s] = 0]
            /\ limited' = limited \ {s}
            /\ Goto(s, "idle", "has")
  /\ UNCHANGED <<link, sockets, members, conns, infoRooms, userSessions, quiet, todo,
                 want, netPc, reapVars, latest>>

\* joinViewportRooms: GetRooms, LeaveRoom for each, EnterRoom for each, SetRooms.
GetRooms_None(s) ==
  /\ Goto(s, "get", "enterNew")
  /\ todo' = [todo EXCEPT ![s] = want[s]]
  /\ UNCHANGED <<link, registry, quiet, want, netPc, reapVars, events, latest, strayed>>

GetRooms(s) ==
  /\ Goto(s, "get", IF InfoRooms(s) = {} THEN "enterNew" ELSE "leaveOld")
  /\ todo' = [todo EXCEPT ![s] = IF InfoRooms(s) = {} THEN want[s] ELSE InfoRooms(s)]
  /\ UNCHANGED <<link, registry, quiet, want, netPc, reapVars, events, latest, strayed>>

LeaveOld(s) ==
  \E r \in todo[s] :
    /\ Goto(s, "leaveOld", IF todo[s] = {r} THEN "enterNew" ELSE "leaveOld")
    /\ RoomSets!Leave(s, r)
    /\ todo' = [todo EXCEPT ![s] = IF @ = {r} THEN want[s] ELSE @ \ {r}]
    /\ UNCHANGED <<link, sockets, conns, infoRooms, userSessions, limited, violations,
                   quiet, want, netPc, reapVars, events, latest, strayed>>

EnterNew(s) ==
  \E r \in todo[s] :
    /\ Goto(s, "enterNew", "enterNew")
    /\ RoomSets!Join(s, r)
    /\ todo' = [todo EXCEPT ![s] = @ \ {r}]
    /\ UNCHANGED <<link, sockets, conns, infoRooms, userSessions, limited, violations,
                   quiet, want, netPc, reapVars, events, latest, strayed>>

TrackRooms(s) ==
  /\ todo[s] = {}
  /\ Goto(s, "enterNew", "idle")
  /\ SetRooms(s, want[s])
  /\ want' = [want EXCEPT ![s] = {}]
  /\ UNCHANGED <<link, sockets, members, conns, userSessions, limited, violations,
                 quiet, todo, netPc, reapVars, events, latest, strayed>>

\* chat:join looks the connection up and answers unknown_sid if there is none.
ChatJoin(s) ==
  /\ Event(s)
  /\ s \in conns
  /\ Goto(s, "idle", "chatEnter")
  /\ UNCHANGED <<link, registry, quiet, todo, want, netPc, reapVars, latest>>

ChatEnter(s) ==
  /\ Goto(s, "chatEnter", "chatTrack")
  /\ RoomSets!Join(s, ChatRoom)
  /\ UNCHANGED <<link, sockets, conns, infoRooms, userSessions, limited, violations,
                 quiet, todo, want, netPc, reapVars, events, latest, strayed>>

\* The object found above is written, in the table or not any more.
ChatTrack(s) ==
  /\ Goto(s, "chatTrack", "idle")
  /\ infoRooms' = [infoRooms EXCEPT ![s] = @ \cup {ChatRoom}]
  /\ UNCHANGED <<link, sockets, members, conns, userSessions, limited, violations,
                 quiet, todo, want, netPc, reapVars, events, latest, strayed>>

\* chat:leave leaves the room for an unknown connection too.
ChatLeave(s) ==
  /\ Event(s)
  /\ Goto(s, "idle", IF s \in conns THEN "chatLeave" ELSE "strayLeave")
  /\ UNCHANGED <<link, registry, quiet, todo, want, netPc, reapVars, latest>>

ChatLeaveRoom(s) ==
  /\ \/ Goto(s, "chatLeave", "chatUntrack")
     \/ Goto(s, "strayLeave", "idle")
  /\ RoomSets!Leave(s, ChatRoom)
  /\ UNCHANGED <<link, sockets, conns, infoRooms, userSessions, limited, violations,
                 quiet, todo, want, netPc, reapVars, events, latest, strayed>>

ChatUntrack(s) ==
  /\ Goto(s, "chatUntrack", "idle")
  /\ infoRooms' = [infoRooms EXCEPT ![s] = @ \ {ChatRoom}]
  /\ UNCHANGED <<link, sockets, members, conns, userSessions, limited, violations,
                 quiet, todo, want, netPc, reapVars, events, latest, strayed>>

\* A DISCONNECT packet goes to HandleDisconnect without asking HasSocket.
Disconnect(s) ==
  /\ client[s] = "in"
  /\ client' = [client EXCEPT ![s] = "out"]
  /\ Goto(s, "idle", "drop")
  /\ UNCHANGED <<closed, registry, quiet, todo, want, netPc, reapVars, events,
                 latest, strayed>>

-------------------------------------------------------------------------------
(* DisconnectAll and HandleDisconnect, one critical section after another, *)
(* for session s by a goroutine that goes from one program counter to the  *)
(* next.                                                                   *)

HasSocket(s, from, to) ==
  /\ from = "has" /\ to = (IF s \in sockets THEN "drop" ELSE "idle")
  /\ UNCHANGED <<registry, quiet>>

DropSocket_Forgets(s, from, to) ==
  /\ from = "drop" /\ to = "leaveAll"
  /\ UNCHANGED <<registry, quiet>>

DropSocket(s, from, to) ==
  /\ from = "drop" /\ to = "leaveAll"
  /\ sockets' = sockets \ {s}
  /\ UNCHANGED <<members, conns, infoRooms, userSessions, limited, violations, quiet>>

LeaveAllRooms(s, from, to) ==
  /\ from = "leaveAll" /\ to = "remove"
  /\ RoomSets!LeaveAll(s)
  /\ UNCHANGED <<sockets, conns, infoRooms, userSessions, limited, violations, quiet>>

RemoveConn(s, from, to) ==
  /\ from = "remove" /\ to = "cleanup"
  /\ Remove(s)
  /\ UNCHANGED <<sockets, members, infoRooms, limited, violations>>

ForgetLimits_ViolationsOnly(s, from, to) ==
  /\ from = "cleanup" /\ to = "idle"
  /\ violations' = [violations EXCEPT ![s] = 0]
  /\ UNCHANGED <<sockets, members, conns, infoRooms, userSessions, limited, quiet>>

\* onCleanup: RateLimiter.Remove
ForgetLimits(s, from, to) ==
  /\ from = "cleanup" /\ to = "idle"
  /\ limited' = limited \ {s}
  /\ violations' = [violations EXCEPT ![s] = 0]
  /\ UNCHANGED <<sockets, members, conns, infoRooms, userSessions, quiet>>

DisconnectStep(s, from, to) ==
  \/ HasSocket(s, from, to) \/ DropSocket(s, from, to) \/ LeaveAllRooms(s, from, to)
  \/ RemoveConn(s, from, to) \/ ForgetLimits(s, from, to)

\* A disconnect by another goroutine than the one that handles the messages.
MarkStray(s, from) ==
  strayed' = IF from = "drop" /\ msgPc[s] \in EventPcs THEN strayed \cup {s} ELSE strayed

MsgDisconnect(s) ==
  \E to \in {"idle"} \cup DisconnectPcs :
    /\ DisconnectStep(s, msgPc[s], to)
    /\ msgPc' = [msgPc EXCEPT ![s] = to]
    /\ UNCHANGED <<link, todo, want, netPc, reapVars, events, latest, strayed>>

NetDisconnect(s) ==
  \E to \in {"idle"} \cup DisconnectPcs :
    /\ DisconnectStep(s, netPc[s], to)
    /\ netPc' = [netPc EXCEPT ![s] = to]
    /\ MarkStray(s, netPc[s])
    /\ UNCHANGED <<link, msgVars, reapVars, events, latest>>

-------------------------------------------------------------------------------
(* The reaper.                                                             *)

ReapStart_OpenOnly ==
  /\ reapPc = "idle" /\ quiet \ closed # {}
  /\ reapPc' = "next" /\ reapTodo' = quiet \ closed
  /\ UNCHANGED <<link, registry, quiet, msgVars, netPc, reapSid, events, latest, strayed>>

\* reap: GetStaleSIDs
ReapStart ==
  /\ reapPc = "idle" /\ quiet # {}
  /\ reapPc' = "next" /\ reapTodo' = quiet
  /\ UNCHANGED <<link, registry, quiet, msgVars, netPc, reapSid, events, latest, strayed>>

ReapNext ==
  /\ reapPc = "next"
  /\ \/ /\ reapTodo = {}
        /\ reapPc' = "idle" /\ UNCHANGED <<reapTodo, reapSid>>
     \/ \E s \in reapTodo :
          /\ reapPc' = "has" /\ reapSid' = s /\ reapTodo' = reapTodo \ {s}
  /\ UNCHANGED <<link, registry, quiet, msgVars, netPc, events, latest, strayed>>

\* The callback is DisconnectAll and never fails, so nothing is removed by force.
ReapDisconnect ==
  \E to \in {"idle"} \cup DisconnectPcs :
    /\ reapSid # NoSid
    /\ DisconnectStep(reapSid, reapPc, to)
    /\ reapPc' = IF to = "idle" THEN "next" ELSE to
    /\ reapSid' = IF to = "idle" THEN NoSid ELSE reapSid
    /\ MarkStray(reapSid, reapPc)
    /\ UNCHANGED <<link, msgVars, netPc, reapTodo, events, latest>>

Reaper == ReapStart \/ ReapNext \/ ReapDisconnect

-------------------------------------------------------------------------------
\* What the goroutines of session s have begun and go on with by themselves.
Handling(s) ==
  \/ Register(s) \/ SetPrevious(s) \/ Restore(s) \/ JoinNamespace(s)
  \/ GetRooms(s) \/ LeaveOld(s) \/ EnterNew(s) \/ TrackRooms(s)
  \/ ChatEnter(s) \/ ChatTrack(s) \/ ChatLeaveRoom(s) \/ ChatUntrack(s)
  \/ MsgDisconnect(s)

\* What the client, or time, decides.
Arrival(s) ==
  \/ Open(s) \/ HangUp(s) \/ Connect(s) \/ Disconnect(s) \/ Heartbeat(s) \/ Quiet(s)
  \/ Subscribe(s) \/ Send(s) \/ Reject(s) \/ ChatJoin(s) \/ ChatLeave(s)
  \/ SessionCloses(s) \/ ReadLoopEnds(s)

Next == (\E s \in Sids : Arrival(s) \/ Handling(s) \/ NetDisconnect(s)) \/ Reaper

Spec == Init /\ [][Next]_vars

\* The same before anyone has been silent for long: the reaper finds nothing.
LivelyNext ==
  \E s \in Sids : (Arrival(s) /\ quiet' = {}) \/ Handling(s) \/ NetDisconnect(s)

LivelySpec == Init /\ [][LivelyNext]_vars

\* Handlers run to their end, the reaper keeps ticking, the end of a connection
\* is noticed, and silence becomes a stale heartbeat.
Fairness ==
  /\ \A s \in Sids : /\ WF_vars(Handling(s)) /\ WF_vars(NetDisconnect(s))
                     /\ WF_vars(ReadLoopEnds(s)) /\ WF_vars(Quiet(s))
  /\ WF_vars(Reaper)

FairSpec == Spec /\ Fairness

-------------------------------------------------------------------------------
(* Properties.                                                             *)

RoomsIn(s) == RoomSets!RoomsOf(s)

Disconnecting(s) ==
  \/ msgPc[s] \in DisconnectPcs \/ netPc[s] \in DisconnectPcs
  \/ reapSid = s

\* A user's entry never points to a session that is gone, and of two sessions of
\* a user the one registered last holds it, in whatever order they disconnect.
\* (ConnectionManager.Add and Remove.)
SessionTableSound ==
  \A u \in Users :
    /\ userSessions[u] # NoSid => userSessions[u] \in conns
    /\ latest[u] \in conns => userSessions[u] = latest[u]

\* Whoever receives the broadcasts of the namespace is known to the manager, so
\* that its heartbeats count and the reaper can find it.  (HandleConnect enters
\* ns.sockets last, HandleDisconnect leaves it first.)
SocketsRegistered == sockets \subseteq conns

\* Between two messages, the rooms that the manager has on record for a client
\* are the rooms it is in: nothing is left behind by the next viewport, and a
\* reconnect restores all of them.  (joinViewportRooms, chat:join, chat:leave.)
TrackedRoomsMatch ==
  \A s \in conns :
    msgPc[s] = "idle" /\ ~Disconnecting(s) => RoomsIn(s) = infoRooms[s]

Forgotten(s) == s \notin sockets /\ s \notin conns

AtRest(s) == msgPc[s] = "idle" /\ ~Disconnecting(s) /\ client[s] \in {"out", "gone"}

\* A connection that has ended leaves no room membership and no rate-limit state,
\* unless one of its events was handled while or after it was disconnected.
\* (HandleDisconnect and its onCleanup.)
OnlyStraysLeaveTraces ==
  \A s \in Sids : AtRest(s) /\ Forgotten(s) /\ s \notin strayed
                    => RoomsIn(s) = {} /\ s \notin limited

\* A client that is gone is taken off the books in the end, also when its session
\* was closed while its CONNECT was being handled and the disconnect found no
\* socket to drop: the reaper gets it.  (DisconnectAll against HandleConnect.)
EventuallyForgotten ==
  \A s \in Sids : client[s] = "gone" ~> Forgotten(s)

-------------------------------------------------------------------------------
(* Claims of the documentation that the code does not keep.                *)

\* docs/explanation/realtime-strategy.md: a reconnecting user gets the rooms of
\* the last session back.
RoomsRestored ==
  [][\A s \in Sids :
       LET last == latest[UserOf[s]]
       IN  client[s] = "new" /\ client'[s] = "in" /\ last # NoSid
             => want'[s] = infoRooms[last]]_vars

\* subscribe_viewport.go: the chat room is not left when the viewport changes.
ChatKept ==
  [][\A s \in Sids :
       msgPc[s] = "leaveOld" /\ ChatRoom \in RoomsIn(s) /\ ~Disconnecting(s)
         => <<s, ChatRoom>> \in members']_vars

===============================================================================
