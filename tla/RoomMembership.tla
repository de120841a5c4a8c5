---------------------------- MODULE RoomMembership ----------------------------
(***************************************************************************)
(* What the room manager of a namespace promises its callers: one relation *)
(* between sockets and rooms, and operations that take effect at once.     *)
(***************************************************************************)
CONSTANTS Sids, Rooms

VARIABLE members        \* the pairs <<sid, room>>

Init == members = {}

Join(sid, room)  == members' = members \cup {<<sid, room>>}
Leave(sid, room) == members' = members \ {<<sid, room>>}
LeaveAll(sid)    == members' = members \ ({sid} \X Rooms)

RoomsOf(sid)    == {r \in Rooms : <<sid, r>> \in members}
MembersOf(room) == {s \in Sids : <<s, room>> \in members}

Next ==
  \E sid \in Sids : LeaveAll(sid) \/ \E room \in Rooms : Join(sid, room) \/ Leave(sid, room)

Spec == Init /\ [][Next]_members

===============================================================================
