------------------------------- MODULE RoomIndex -------------------------------
(***************************************************************************)
(* RoomManager (server/pkg/socketio/room.go): two maps of sets, each the   *)
(* inverse of the other, so that a disconnecting socket finds its rooms    *)
(* without a search.  Every method holds the mutex from its first line to  *)
(* its return, so each is one action.                                      *)
(*                                                                         *)
(* A Go map is a function on the keys it holds; reading an absent key      *)
(* gives the nil set, which is Entry.                                      *)
(***************************************************************************)
EXTENDS FiniteSets, Naturals

CONSTANTS Sids, Rooms

VARIABLES
  rooms,        \* rm.rooms: room -> set of sids
  sids          \* rm.sids:  sid -> set of rooms

vars == <<rooms, sids>>

Maps(K, V) == UNION {[D -> SUBSET V] : D \in SUBSET K}

TypeOK == rooms \in Maps(Rooms, Sids) /\ sids \in Maps(Sids, Rooms)

Entry(m, k) == IF k \in DOMAIN m THEN m[k] ELSE {}

\* m[k] = S, and delete(m, k) when nothing is left of the set.
Put(m, k, S)     == [x \in DOMAIN m \cup {k} |-> IF x = k THEN S ELSE m[x]]
Delete(m, k)     == [x \in DOMAIN m \ {k} |-> m[x]]
PutOrDelete(m, k, S) ==
  IF k \notin DOMAIN m THEN m ELSE IF S = {} THEN Delete(m, k) ELSE Put(m, k, S)

Init == rooms = [r \in {} |-> {}] /\ sids = [s \in {} |-> {}]

Join(sid, room) ==
  /\ rooms' = Put(rooms, room, Entry(rooms, room) \cup {sid})
  /\ sids'  = Put(sids, sid, Entry(sids, sid) \cup {room})

Leave_OneWay(sid, room) ==
  /\ rooms' = PutOrDelete(rooms, room, Entry(rooms, room) \ {sid})
  /\ UNCHANGED sids

Leave_DropsLast(sid, room) ==
  /\ rooms' = IF Cardinality(Entry(rooms, room)) <= 2 THEN Delete(rooms, room)
              ELSE PutOrDelete(rooms, room, Entry(rooms, room) \ {sid})
  /\ sids'  = PutOrDelete(sids, sid, Entry(sids, sid) \ {room})

Leave(sid, room) ==
  /\ rooms' = PutOrDelete(rooms, room, Entry(rooms, room) \ {sid})
  /\ sids'  = PutOrDelete(sids, sid, Entry(sids, sid) \ {room})

LeaveAll_KeepsEmpty(sid) ==
  /\ rooms' = [r \in DOMAIN rooms |-> rooms[r] \ {sid}]
  /\ sids' = Delete(sids, sid)

\* The room sets are reached through the reverse index only.
LeaveAll(sid) ==
  /\ rooms' = [r \in {q \in DOMAIN rooms : q \in Entry(sids, sid) => rooms[q] # {sid}}
                 |-> IF r \in Entry(sids, sid) THEN rooms[r] \ {sid} ELSE rooms[r]]
  /\ sids' = Delete(sids, sid)

Members(room) == Entry(rooms, room)
RoomsOf(sid)  == Entry(sids, sid)

Next ==
  \E sid \in Sids :
    \/ LeaveAll(sid)
    \/ \E room \in Rooms : Join(sid, room) \/ Leave(sid, room)

Spec == Init /\ [][Next]_vars

-------------------------------------------------------------------------------
\* Each index is the inverse of the other: a broadcast to a room reaches exactly
\* the sockets whose own list has that room.  (room.go, the two maps of
\* RoomManager.)
MutuallyInverse ==
  \A s \in Sids, r \in Rooms : s \in Members(r) <=> r \in RoomsOf(s)

NoEmpty(m) == \A k \in DOMAIN m : m[k] # {}

\* Nothing is kept for an empty room or a socket that is in no room, however
\* memberships came and went.  (room.go: "Empty rooms are cleaned up".)
NoEmptyEntries == NoEmpty(rooms) /\ NoEmpty(sids)

\* The two maps together behave as one relation.
Membership == INSTANCE RoomMembership
                WITH members <- {p \in Sids \X Rooms : p[1] \in Members(p[2])}

ImplementsMembership == Membership!Spec

===============================================================================
