----------------------------- MODULE SocketioProofs -----------------------------
(***************************************************************************)
(* Proofs about the Socket.IO package's parts.  For any sets of sockets    *)
(* and rooms, the two maps of RoomIndex stay inverse to each other, keep   *)
(* no empty set, and behave as one relation.  For any sets of requests and *)
(* keys, the registry of acknowledgements forgets no request, keeps        *)
(* nothing it should not, and answers once.  For any events, any burst and *)
(* any number of rejections, a limited event gets through no more often    *)
(* than the limit allows.                                                  *)
(***************************************************************************)
EXTENDS RoomIndex, AckRegistry, Dispatch, TLAPS

-------------------------------------------------------------------------------
(* RoomIndex.                                                              *)

\* What the two ways of writing a map do to its type and to its entries.
LEMMA EntryPut ==
  ASSUME NEW K, NEW V, NEW m \in Maps(K, V), NEW k \in K, NEW S \in SUBSET V
  PROVE  /\ Put(m, k, S) \in Maps(K, V)
         /\ \A x : Entry(Put(m, k, S), x) = IF x = k THEN S ELSE Entry(m, x)
<1>1. PICK D \in SUBSET K : m \in [D -> SUBSET V]
  BY DEF Maps
<1>2. Put(m, k, S) \in [D \cup {k} -> SUBSET V]
  BY <1>1 DEF Put
<1>3. D \cup {k} \in SUBSET K
  BY <1>1
<1>4. Put(m, k, S) \in Maps(K, V)
  BY <1>2, <1>3 DEF Maps
<1> QED
  BY <1>4 DEF Put, Entry

LEMMA EntryDeleted ==
  ASSUME NEW K, NEW V, NEW m \in Maps(K, V), NEW k
  PROVE  /\ Delete(m, k) \in Maps(K, V)
         /\ \A x : Entry(Delete(m, k), x) = IF x = k THEN {} ELSE Entry(m, x)
<1>1. PICK D \in SUBSET K : m \in [D -> SUBSET V]
  BY DEF Maps
<1>2. Delete(m, k) \in [D \ {k} -> SUBSET V]
  BY <1>1 DEF Delete
<1>3. D \ {k} \in SUBSET K
  BY <1>1
<1>4. Delete(m, k) \in Maps(K, V)
  BY <1>2, <1>3 DEF Maps
<1> QED
  BY <1>4 DEF Delete, Entry

LEMMA EntryType ==
  ASSUME NEW K, NEW V, NEW m \in Maps(K, V), NEW k
  PROVE  Entry(m, k) \in SUBSET V
<1>1. PICK D \in SUBSET K : m \in [D -> SUBSET V]
  BY DEF Maps
<1> QED
  BY <1>1 DEF Entry

\* A leave shrinks one entry, and drops it when nothing is left.
LEMMA ShrinkEntry ==
  ASSUME NEW K, NEW V, NEW m \in Maps(K, V), NEW k \in K, NEW v \in V, NoEmpty(m)
  PROVE  /\ PutOrDelete(m, k, Entry(m, k) \ {v}) \in Maps(K, V)
         /\ NoEmpty(PutOrDelete(m, k, Entry(m, k) \ {v}))
         /\ \A x : Entry(PutOrDelete(m, k, Entry(m, k) \ {v}), x)
                   = IF x = k THEN Entry(m, k) \ {v} ELSE Entry(m, x)
<1> DEFINE S == Entry(m, k) \ {v}
<1>1. S \in SUBSET V
  BY EntryType
<1>2. CASE k \notin DOMAIN m
  BY <1>2 DEF PutOrDelete, Entry
<1>3. CASE k \in DOMAIN m /\ S = {}
  <2>1. PutOrDelete(m, k, S) = Delete(m, k)
    BY <1>3 DEF PutOrDelete
  <2>2. NoEmpty(Delete(m, k))
    BY DEF Delete, NoEmpty
  <2>3. /\ Delete(m, k) \in Maps(K, V)
        /\ \A x : Entry(Delete(m, k), x) = IF x = k THEN {} ELSE Entry(m, x)
    BY EntryDeleted
  <2>4. \A x : Entry(Delete(m, k), x) = IF x = k THEN S ELSE Entry(m, x)
    BY <1>3, <2>3
  <2> QED
    BY <2>1, <2>2, <2>3, <2>4
<1>4. CASE k \in DOMAIN m /\ S # {}
  <2>1. PutOrDelete(m, k, S) = Put(m, k, S)
    BY <1>4 DEF PutOrDelete
  <2>2. NoEmpty(Put(m, k, S))
    BY <1>4 DEF Put, NoEmpty
  <2>3. /\ Put(m, k, S) \in Maps(K, V)
        /\ \A x : Entry(Put(m, k, S), x) = IF x = k THEN S ELSE Entry(m, x)
    BY <1>1, EntryPut
  <2> QED
    BY <2>1, <2>2, <2>3
<1> QED
  BY <1>2, <1>3, <1>4

-------------------------------------------------------------------------------
\* Neither index is correct without the other: LeaveAll reaches the room sets
\* through the reverse index alone.
IndexInv == TypeOK /\ MutuallyInverse /\ NoEmptyEntries

\* The relation the two maps stand for.
Pairs == {p \in Sids \X Rooms : p[1] \in Members(p[2])}

LEMMA JoinStep ==
  ASSUME IndexInv, NEW sid \in Sids, NEW room \in Rooms, Join(sid, room)
  PROVE  IndexInv' /\ Pairs' = Pairs \cup {<<sid, room>>}
<1> USE DEF IndexInv
<1>1. /\ Entry(rooms, room) \cup {sid} \in SUBSET Sids
      /\ Entry(sids, sid) \cup {room} \in SUBSET Rooms
  BY EntryType DEF TypeOK
<1>2. /\ rooms' \in Maps(Rooms, Sids)
      /\ \A x : Entry(rooms', x) = IF x = room THEN Entry(rooms, room) \cup {sid}
                                               ELSE Entry(rooms, x)
  BY <1>1, EntryPut DEF TypeOK, Join
<1>3. /\ sids' \in Maps(Sids, Rooms)
      /\ \A x : Entry(sids', x) = IF x = sid THEN Entry(sids, sid) \cup {room}
                                             ELSE Entry(sids, x)
  BY <1>1, EntryPut DEF TypeOK, Join
<1>4. MutuallyInverse'
  BY <1>2, <1>3 DEF MutuallyInverse, Members, RoomsOf
<1>5. NoEmptyEntries'
  BY DEF NoEmptyEntries, NoEmpty, Join, Put
<1>6. Pairs' = Pairs \cup {<<sid, room>>}
  BY <1>2 DEF Pairs, Members
<1> QED
  BY <1>2, <1>3, <1>4, <1>5, <1>6 DEF TypeOK

LEMMA LeaveStep ==
  ASSUME IndexInv, NEW sid \in Sids, NEW room \in Rooms, Leave(sid, room)
  PROVE  IndexInv' /\ Pairs' = Pairs \ {<<sid, room>>}
<1>0. /\ rooms \in Maps(Rooms, Sids) /\ NoEmpty(rooms)
      /\ sids \in Maps(Sids, Rooms) /\ NoEmpty(sids)
  BY DEF IndexInv, TypeOK, NoEmptyEntries
<1> USE DEF IndexInv
<1>1. /\ rooms' \in Maps(Rooms, Sids)
      /\ \A x : Entry(rooms', x) = IF x = room THEN Entry(rooms, room) \ {sid}
                                               ELSE Entry(rooms, x)
      /\ NoEmpty(rooms')
  BY <1>0, ShrinkEntry DEF Leave
<1>2. /\ sids' \in Maps(Sids, Rooms)
      /\ \A x : Entry(sids', x) = IF x = sid THEN Entry(sids, sid) \ {room}
                                             ELSE Entry(sids, x)
      /\ NoEmpty(sids')
  BY <1>0, ShrinkEntry DEF Leave
<1>3. MutuallyInverse'
  BY <1>1, <1>2 DEF MutuallyInverse, Members, RoomsOf
<1>4. Pairs' = Pairs \ {<<sid, room>>}
  BY <1>1 DEF Pairs, Members
<1> QED
  BY <1>1, <1>2, <1>3, <1>4 DEF TypeOK, NoEmptyEntries

LEMMA LeaveAllStep ==
  ASSUME IndexInv, NEW sid \in Sids, LeaveAll(sid)
  PROVE  IndexInv' /\ Pairs' = Pairs \ ({sid} \X Rooms)
<1> USE DEF IndexInv
<1>1. PICK D \in SUBSET Rooms : rooms \in [D -> SUBSET Sids]
  BY DEF TypeOK, Maps
<1>2. PICK E \in SUBSET D : rooms' \in [E -> SUBSET Sids]
  <2> DEFINE E == {q \in DOMAIN rooms : q \in Entry(sids, sid) => rooms[q] # {sid}}
  <2>1. E \in SUBSET D
    BY <1>1
  <2>2. rooms' \in [E -> SUBSET Sids]
    BY <1>1 DEF LeaveAll
  <2> QED
    BY <2>1, <2>2
<1>3. rooms' \in Maps(Rooms, Sids)
  BY <1>2 DEF Maps
<1>4. /\ sids' \in Maps(Sids, Rooms)
      /\ \A x : Entry(sids', x) = IF x = sid THEN {} ELSE Entry(sids, x)
  BY EntryDeleted DEF TypeOK, LeaveAll
<1>5. \A r \in Rooms : Entry(rooms', r) = Entry(rooms, r) \ {sid}
  <2> SUFFICES ASSUME NEW r \in Rooms
               PROVE  Entry(rooms', r) = Entry(rooms, r) \ {sid}
    OBVIOUS
  <2>1. sid \in Entry(rooms, r) <=> r \in Entry(sids, sid)
    BY DEF MutuallyInverse, Members, RoomsOf
  <2> QED
    BY <2>1 DEF LeaveAll, Entry
<1>6. MutuallyInverse'
  BY <1>4, <1>5 DEF MutuallyInverse, Members, RoomsOf
<1>7. NoEmptyEntries'
  BY DEF NoEmptyEntries, NoEmpty, LeaveAll, Delete
<1>8. Pairs' = Pairs \ ({sid} \X Rooms)
  BY <1>5 DEF Pairs, Members
<1> QED
  BY <1>3, <1>4, <1>6, <1>7, <1>8 DEF TypeOK

LEMMA IndexInvHolds == Spec => []IndexInv
<1>1. Init => IndexInv
  <2> SUFFICES ASSUME Init PROVE IndexInv
    OBVIOUS
  <2>1. DOMAIN rooms = {} /\ DOMAIN sids = {}
    BY DEF Init
  <2>2. rooms \in [{} -> SUBSET Sids] /\ sids \in [{} -> SUBSET Rooms]
    BY DEF Init
  <2>3. TypeOK
    BY <2>2 DEF TypeOK, Maps
  <2> QED
    BY <2>1, <2>3 DEF IndexInv, MutuallyInverse, NoEmptyEntries, NoEmpty, Members, RoomsOf, Entry
<1>2. IndexInv /\ [Next]_vars => IndexInv'
  <2> SUFFICES ASSUME IndexInv, [Next]_vars PROVE IndexInv'
    OBVIOUS
  <2>1. CASE UNCHANGED vars
    BY <2>1 DEF vars, IndexInv, TypeOK, MutuallyInverse, NoEmptyEntries, Members, RoomsOf
  <2>2. CASE Next
    BY <2>2, JoinStep, LeaveStep, LeaveAllStep DEF Next
  <2> QED
    BY <2>1, <2>2
<1> QED
  BY <1>1, <1>2, PTL DEF Spec

\* The two maps always hold sets of sockets by room and sets of rooms by socket.
\* (room.go, the struct RoomManager.)
THEOREM IndexTypeCorrect == Spec => []TypeOK
  BY IndexInvHolds, PTL DEF IndexInv

\* Whatever the joins, leaves and disconnects, a socket is listed in a room
\* exactly when the room is listed for the socket.  (room.go:28-76, 137-153.)
THEOREM MapsAreInverse == Spec => []MutuallyInverse
  BY IndexInvHolds, PTL DEF IndexInv

\* No operation leaves an empty room or an empty reverse entry behind.
\* (room.go:64-75, 139-152.)
THEOREM NoEmptyRooms == Spec => []NoEmptyEntries
  BY IndexInvHolds, PTL DEF IndexInv

\* The manager's two maps implement the one relation of RoomMembership: each
\* method has exactly its effect on the pairs.  (room.go:28-76.)
THEOREM IndexRefinesMembership == Spec => ImplementsMembership
<1>1. Init => Membership!Init
  BY DEF Init, Membership!Init, Members, Entry
<1>2. IndexInv /\ [Next]_vars => [Membership!Next]_Pairs
  <2> SUFFICES ASSUME IndexInv, [Next]_vars PROVE [Membership!Next]_Pairs
    OBVIOUS
  <2>1. CASE UNCHANGED vars
    BY <2>1 DEF vars, Pairs, Members
  <2>2. ASSUME NEW sid \in Sids, LeaveAll(sid) PROVE Membership!Next
    BY <2>2, LeaveAllStep DEF Membership!Next, Membership!LeaveAll, Pairs
  <2>3. ASSUME NEW sid \in Sids, NEW room \in Rooms, Join(sid, room)
        PROVE  Membership!Next
    BY <2>3, JoinStep DEF Membership!Next, Membership!Join, Pairs
  <2>4. ASSUME NEW sid \in Sids, NEW room \in Rooms, Leave(sid, room)
        PROVE  Membership!Next
    BY <2>4, LeaveStep DEF Membership!Next, Membership!Leave, Pairs
  <2> QED
    BY <2>1, <2>2, <2>3, <2>4 DEF Next
<1> QED
  BY <1>1, <1>2, IndexInvHolds, PTL DEF Spec, ImplementsMembership, Membership!Spec, Pairs

-------------------------------------------------------------------------------
(* AckRegistry.                                                            *)

\* Entries are under their own keys and no map is empty.
MapOf(s, m) ==
  /\ DOMAIN m \subseteq Ids /\ DOMAIN m # {}
  /\ \A i \in DOMAIN m : m[i] \in Requests /\ SidOf[m[i]] = s /\ IdOf[m[i]] = i

WellKept ==
  /\ DOMAIN pending \subseteq Sockets
  /\ \A s \in DOMAIN pending : MapOf(s, pending[s])

SameKey(q, r) == SidOf[q] = SidOf[r] /\ IdOf[q] = IdOf[r]

\* The three ways of writing the map, as what they do to the set of pending
\* requests.  Two pending requests never have the same key, so that a deletion
\* by key takes one request.
LEMMA DeleteTakesOne ==
  ASSUME WellKept, NEW r \in Requests, Pending(r), DeleteEntry(r)
  PROVE  /\ WellKept'
         /\ \A q \in Requests : Pending(q)' <=> Pending(q) /\ q # r
<1> DEFINE s == SidOf[r]
           i == IdOf[r]
<1>1. s \in DOMAIN pending /\ i \in DOMAIN pending[s] /\ pending[s][i] = r
  BY DEF Pending
<1>2. CASE DOMAIN pending[s] = {i}
  <2>1. /\ DOMAIN pending' = DOMAIN pending \ {s}
        /\ \A t \in DOMAIN pending \ {s} : pending'[t] = pending[t]
    BY <1>2 DEF DeleteEntry, Restrict
  <2>2. WellKept'
    BY <2>1 DEF WellKept
  <2>3. ASSUME NEW q \in Requests
        PROVE  Pending(q)' <=> Pending(q) /\ q # r
    BY <1>1, <1>2, <2>1 DEF Pending
  <2> QED
    BY <2>2, <2>3
<1>3. CASE DOMAIN pending[s] # {i}
  <2>1. /\ DOMAIN pending' = DOMAIN pending
        /\ \A t \in DOMAIN pending \ {s} : pending'[t] = pending[t]
        /\ pending'[s] = Restrict(pending[s], DOMAIN pending[s] \ {i})
    BY <1>1, <1>3 DEF DeleteEntry
  <2>2. /\ DOMAIN pending'[s] = DOMAIN pending[s] \ {i}
        /\ \A j \in DOMAIN pending[s] \ {i} : pending'[s][j] = pending[s][j]
    BY <2>1 DEF Restrict
  <2>3. WellKept'
    <3>1. DOMAIN pending[s] \ {i} # {}
      BY <1>1, <1>3
    <3>2. MapOf(s, pending[s])
      BY <1>1 DEF WellKept
    <3>3. MapOf(s, pending'[s])
      BY <2>2, <3>1, <3>2 DEF MapOf
    <3>4. ASSUME NEW t \in DOMAIN pending'
          PROVE  MapOf(t, pending'[t])
      BY <2>1, <3>3 DEF WellKept
    <3> QED
      BY <2>1, <3>4 DEF WellKept
  <2>4. ASSUME NEW q \in Requests
        PROVE  Pending(q)' <=> Pending(q) /\ q # r
    <3>1. CASE SidOf[q] = s
      BY <1>1, <2>1, <2>2, <3>1 DEF Pending
    <3>2. CASE SidOf[q] # s
      BY <1>1, <2>1, <3>2 DEF Pending
    <3> QED
      BY <3>1, <3>2
  <2> QED
    BY <2>3, <2>4
<1> QED
  BY <1>2, <1>3

LEMMA RemoveAllTakesSocket ==
  ASSUME WellKept, NEW s \in Sockets, RemoveAll(s)
  PROVE  /\ WellKept'
         /\ \A q \in Requests : Pending(q)' <=> Pending(q) /\ SidOf[q] # s
<1>1. /\ DOMAIN pending' = DOMAIN pending \ {s}
      /\ \A t \in DOMAIN pending \ {s} : pending'[t] = pending[t]
  BY DEF RemoveAll, Restrict
<1>2. WellKept'
  BY <1>1 DEF WellKept
<1>3. ASSUME NEW q \in Requests
      PROVE  Pending(q)' <=> Pending(q) /\ SidOf[q] # s
  BY <1>1 DEF Pending
<1> QED
  BY <1>2, <1>3

LEMMA RegisterTakesKey ==
  ASSUME WellKept, NEW r \in Requests, Register(r)
  PROVE  /\ WellKept'
         /\ \A q \in Requests : Pending(q)' <=> q = r \/ (Pending(q) /\ ~SameKey(q, r))
         /\ replaced' = replaced \cup {q \in Requests : Pending(q) /\ SameKey(q, r)}
<1> DEFINE s   == SidOf[r]
           i   == IdOf[r]
           old == IF s \in DOMAIN pending THEN pending[s] ELSE [j \in {} |-> r]
<1>1. /\ DOMAIN pending' = DOMAIN pending \cup {s}
      /\ \A t \in DOMAIN pending : t # s => pending'[t] = pending[t]
      /\ pending'[s] = [j \in DOMAIN old \cup {i} |-> IF j = i THEN r ELSE old[j]]
  BY DEF Register
<1>2. /\ DOMAIN pending'[s] = DOMAIN old \cup {i}
      /\ pending'[s][i] = r
      /\ \A j \in DOMAIN old : j # i => pending'[s][j] = old[j]
  BY <1>1
<1>3. CASE s \notin DOMAIN pending
  <2>1. DOMAIN old = {}
    BY <1>3
  <2> HIDE DEF old
  <2>2. MapOf(s, pending'[s])
    BY <1>2, <2>1 DEF MapOf, Ids
  <2>3. WellKept'
    BY <1>1, <2>2 DEF WellKept, Sockets
  <2>4. ASSUME NEW q \in Requests
        PROVE  Pending(q)' <=> q = r \/ (Pending(q) /\ ~SameKey(q, r))
    <3>1. CASE SidOf[q] = s
      BY <1>1, <1>2, <1>3, <2>1, <3>1 DEF Pending
    <3>2. CASE SidOf[q] # s
      BY <1>1, <3>2 DEF Pending, SameKey
    <3> QED
      BY <3>1, <3>2
  <2>5. replaced' = replaced
    BY <2>1 DEF Register, old
  <2>6. \A q \in Requests : ~(Pending(q) /\ SameKey(q, r))
    BY <1>3 DEF Pending, SameKey
  <2> QED
    BY <2>3, <2>4, <2>5, <2>6
<1>4. CASE s \in DOMAIN pending
  <2>1. old = pending[s]
    BY <1>4
  <2>2. MapOf(s, old)
    BY <1>4, <2>1 DEF WellKept
  <2>3. replaced' = replaced \cup (IF i \in DOMAIN old THEN {old[i]} ELSE {})
    BY DEF Register
  <2> HIDE DEF old
  <2>4. MapOf(s, pending'[s])
    BY <1>2, <2>2 DEF MapOf, Ids
  <2>5. WellKept'
    BY <1>1, <2>4 DEF WellKept, Sockets
  <2>6. ASSUME NEW q \in Requests
        PROVE  Pending(q)' <=> q = r \/ (Pending(q) /\ ~SameKey(q, r))
    <3>1. CASE SidOf[q] # s
      BY <1>1, <3>1 DEF Pending, SameKey
    <3>2. CASE SidOf[q] = s /\ IdOf[q] = i
      <4>1. Pending(q)' <=> q = r
        BY <1>1, <1>2, <3>2 DEF Pending
      <4>2. SameKey(q, r)
        BY <3>2 DEF SameKey
      <4> QED
        BY <4>1, <4>2
    <3>3. CASE SidOf[q] = s /\ IdOf[q] # i
      BY <1>1, <1>2, <1>4, <2>1, <3>3 DEF Pending, SameKey
    <3> QED
      BY <3>1, <3>2, <3>3
  <2>7. ASSUME NEW q
        PROVE  q \in Requests /\ Pending(q) /\ SameKey(q, r) <=> i \in DOMAIN old /\ q = old[i]
    BY <1>4, <2>1, <2>2 DEF Pending, SameKey, MapOf
  <2>8. replaced' = replaced \cup {q \in Requests : Pending(q) /\ SameKey(q, r)}
    BY <2>3, <2>7
  <2> QED
    BY <2>5, <2>6, <2>8
<1> QED
  BY <1>3, <1>4

-------------------------------------------------------------------------------
\* The life of a request.  A pending one has neither been answered for nor given up,
\* and a Resolve holds only what it took out of the map: this is what keeps a second
\* ACK packet, a cancel and a replacement away from it.
Life(r) ==
  /\ Pending(r) => /\ r \in registered \ (given \cup replaced)
                   /\ resolver[r] = "none"
  /\ r \notin registered => timer[r] = "none" /\ resolver[r] = "none"
  /\ resolver[r] # "none" => r \notin given \cup replaced
  /\ "answer" \in calls[r] => resolver[r] = "over"
  /\ "second answer" \notin calls[r]
  /\ r \in registered => Pending(r) \/ Over(r) \/ r \in replaced
  /\ r \in given => timer[r] # "armed"

Rest ==
  /\ timer \in [Requests -> {"none", "armed", "fired", "calling", "over", "stopped"}]
  /\ resolver \in [Requests -> {"none", "took", "calling", "over"}]
  /\ registered \subseteq Requests /\ given \subseteq registered
  /\ replaced \subseteq registered
  /\ calls \in [Requests -> SUBSET {"answer", "second answer", "timeout"}]

RegistryInv == WellKept /\ Rest /\ \A r \in Requests : Life(r)

LEMMA RegistryInit == AckInit => RegistryInv
BY DEF AckInit, RegistryInv, WellKept, Rest, Life, Pending

LEMMA RegisterSafe ==
  ASSUME RegistryInv, NEW r \in Requests, Register(r)
  PROVE  RegistryInv'
<1> USE DEF RegistryInv
<1>1. /\ WellKept'
      /\ \A q \in Requests : Pending(q)' <=> q = r \/ (Pending(q) /\ ~SameKey(q, r))
      /\ replaced' = replaced \cup {q \in Requests : Pending(q) /\ SameKey(q, r)}
  BY RegisterTakesKey
<1>2. /\ r \notin registered
      /\ registered' = registered \cup {r}
      /\ timer' = [timer EXCEPT ![r] = IF r \in Timed THEN "armed" ELSE @]
      /\ resolver' = resolver /\ given' = given /\ calls' = calls
  BY DEF Register
<1>3. {q \in Requests : Pending(q) /\ SameKey(q, r)} \subseteq registered
  BY DEF Life
<1>4. Rest'
  BY <1>1, <1>2, <1>3 DEF Rest
<1>5. ASSUME NEW q \in Requests
      PROVE  Life(q)'
  <2>1. CASE q = r
    <3>1. ~Pending(r) /\ resolver[r] = "none" /\ timer[r] = "none" /\ "answer" \notin calls[r]
          /\ "second answer" \notin calls[r]
      BY <1>2 DEF Life
    <3>2. r \notin given /\ r \notin replaced
      BY <1>2 DEF Rest
    <3>3. r \notin replaced'
      BY <1>1, <3>1, <3>2
    <3>4. Pending(r)' /\ r \in registered'
      BY <1>1, <1>2
    <3> QED
      BY <1>2, <2>1, <3>1, <3>2, <3>3, <3>4 DEF Life
  <2>2. CASE q # r
    <3>1. timer'[q] = timer[q] /\ (q \in registered' <=> q \in registered)
      BY <1>2, <2>2 DEF Rest
    <3>2. Pending(q)' <=> Pending(q) /\ ~SameKey(q, r)
      BY <1>1, <2>2
    <3>5. q \in replaced' <=> q \in replaced \/ (Pending(q) /\ SameKey(q, r))
      BY <1>1
    <3>3. Over(q)' <=> Over(q)
      BY <1>2, <3>1 DEF Over
    <3>4. Life(q)
      OBVIOUS
    <3> QED
      BY <1>2, <3>1, <3>2, <3>3, <3>4, <3>5 DEF Life
  <2> QED
    BY <2>1, <2>2
<1> QED
  BY <1>1, <1>4, <1>5

\* What leaves the map alone leaves the pending requests alone.
LEMMA SameMap ==
  ASSUME WellKept, pending' = pending
  PROVE  WellKept' /\ \A q \in Requests : Pending(q)' <=> Pending(q)
BY DEF WellKept, Pending

LEMMA TimerSafe ==
  ASSUME RegistryInv, NEW r \in Requests, TimerStep(r)
  PROVE  RegistryInv'
<1> USE DEF RegistryInv
<1>1. CASE TimerFires(r)
  <2>1. WellKept' /\ \A q \in Requests : Pending(q)' <=> Pending(q)
    BY <1>1, SameMap DEF TimerFires
  <2>2. Rest'
    BY <1>1 DEF TimerFires, Rest
  <2>3. \A q \in Requests : Life(q)'
    BY <1>1, <2>1 DEF TimerFires, Rest, Life, Over
  <2> QED
    BY <2>1, <2>2, <2>3
<1>2. CASE TimerTakes(r)
  <2>1. WellKept' /\ \A q \in Requests : Pending(q)' <=> Pending(q) /\ q # r
    <3>1. CASE Pending(r)
      BY <1>2, <3>1, DeleteTakesOne DEF TimerTakes
    <3>2. CASE ~Pending(r)
      BY <1>2, <3>2, SameMap DEF TimerTakes
    <3> QED
      BY <3>1, <3>2
  <2>2. Rest'
    BY <1>2 DEF TimerTakes, Rest
  <2>3. \A q \in Requests : Life(q)'
    BY <1>2, <2>1 DEF TimerTakes, Rest, Life, Over
  <2> QED
    BY <2>1, <2>2, <2>3
<1>3. CASE TimerCalls(r)
  <2>1. WellKept' /\ \A q \in Requests : Pending(q)' <=> Pending(q)
    BY <1>3, SameMap DEF TimerCalls
  <2>2. Rest'
    BY <1>3 DEF TimerCalls, Rest
  <2>3. \A q \in Requests : Life(q)'
    BY <1>3, <2>1 DEF TimerCalls, Rest, Life, Over
  <2> QED
    BY <2>1, <2>2, <2>3
<1> QED
  BY <1>1, <1>2, <1>3 DEF TimerStep

LEMMA ResolveSafe ==
  ASSUME RegistryInv, NEW r \in Requests, ResolveTakes(r) \/ ResolveStep(r)
  PROVE  RegistryInv'
<1> USE DEF RegistryInv
<1>1. CASE ResolveTakes(r)
  <2>1. WellKept' /\ \A q \in Requests : Pending(q)' <=> Pending(q) /\ q # r
    BY <1>1, DeleteTakesOne DEF ResolveTakes
  <2>2. Rest'
    BY <1>1 DEF ResolveTakes, Rest
  <2>3. \A q \in Requests : Life(q)'
    BY <1>1, <2>1 DEF ResolveTakes, Rest, Life, Over
  <2> QED
    BY <2>1, <2>2, <2>3
<1>2. CASE ResolveStops(r)
  <2>1. WellKept' /\ \A q \in Requests : Pending(q)' <=> Pending(q)
    BY <1>2, SameMap DEF ResolveStops
  <2>2. Rest'
    BY <1>2 DEF ResolveStops, StopTimers, Rest
  <2>3. \A q \in Requests : Life(q)'
    BY <1>2, <2>1 DEF ResolveStops, StopTimers, Rest, Life, Over
  <2> QED
    BY <2>1, <2>2, <2>3
<1>3. CASE ResolveCalls(r)
  <2>1. WellKept' /\ \A q \in Requests : Pending(q)' <=> Pending(q)
    BY <1>3, SameMap DEF ResolveCalls
  <2>2. "answer" \notin calls[r]
    <3>1. resolver[r] # "over" /\ Life(r)
      BY <1>3 DEF ResolveCalls
    <3> QED
      BY <3>1, Zenon DEF Life
  <2>3. calls' = [calls EXCEPT ![r] = @ \cup {"answer"}]
    <3> DEFINE kind == IF "answer" \in calls[r] THEN "second answer" ELSE "answer"
    <3>1. calls' = [calls EXCEPT ![r] = calls[r] \cup {kind}]
      BY <1>3, Zenon DEF ResolveCalls
    <3>2. kind = "answer"
      BY <2>2
    <3> HIDE DEF kind
    <3> QED
      BY <3>1, <3>2, Zenon
  <2>4. Rest'
    <3>1. calls' \in [Requests -> SUBSET {"answer", "second answer", "timeout"}]
      <4>1. calls[r] \cup {"answer"} \in SUBSET {"answer", "second answer", "timeout"}
        BY DEF Rest
      <4> QED
        BY <2>3, <4>1 DEF Rest
    <3>2. resolver' = [resolver EXCEPT ![r] = "over"]
          /\ UNCHANGED <<timer, registered, given, replaced>>
      BY <1>3 DEF ResolveCalls
    <3> QED
      BY <3>1, <3>2 DEF Rest
  <2>5. ASSUME NEW q \in Requests
        PROVE  Life(q)'
    <3>1. CASE q = r
      <4>1. resolver'[r] = "over" /\ calls'[r] = calls[r] \cup {"answer"}
        BY <1>3, <2>3 DEF ResolveCalls, Rest
      <4>2. ~Pending(r) /\ r \in registered /\ r \notin given \cup replaced
            /\ "second answer" \notin calls[r]
        BY <1>3 DEF ResolveCalls, Life
      <4>3. "second answer" \notin calls'[r]
        BY <4>1, <4>2
      <4>4. ~Pending(r)' /\ r \in registered' /\ r \notin (given \cup replaced)'
        BY <1>3, <2>1, <4>2 DEF ResolveCalls
      <4> QED
        BY <3>1, <4>1, <4>3, <4>4 DEF Life, Over
    <3>2. CASE q # r
      <4>1. resolver'[q] = resolver[q] /\ calls'[q] = calls[q]
        BY <1>3, <2>3, <3>2 DEF ResolveCalls, Rest
      <4> QED
        BY <1>3, <2>1, <4>1 DEF ResolveCalls, Life, Over
    <3> QED
      BY <3>1, <3>2
  <2> QED
    BY <2>1, <2>4, <2>5
<1> QED
  BY <1>1, <1>2, <1>3 DEF ResolveStep

LEMMA GiveUpSafe ==
  ASSUME RegistryInv,
         (\E r \in Requests : Cancel(r)) \/ (\E s \in Sockets : RemoveAll(s))
  PROVE  RegistryInv'
<1> USE DEF RegistryInv
<1>1. ASSUME NEW r \in Requests, Cancel(r)
      PROVE  RegistryInv'
  <2>1. WellKept' /\ \A q \in Requests : Pending(q)' <=> Pending(q) /\ q # r
    BY <1>1, DeleteTakesOne DEF Cancel
  <2>2. r \in registered
    BY <1>1 DEF Cancel, Life
  <2>3. Rest'
    BY <1>1, <2>2 DEF Cancel, StopTimers, Rest
  <2>4. \A q \in Requests : Life(q)'
    BY <1>1, <2>1 DEF Cancel, StopTimers, Rest, Life, Over
  <2> QED
    BY <2>1, <2>3, <2>4
<1>2. ASSUME NEW s \in Sockets, RemoveAll(s)
      PROVE  RegistryInv'
  <2> DEFINE rs == {r \in Requests : SidOf[r] = s /\ Pending(r)}
  <2>1. WellKept' /\ \A q \in Requests : Pending(q)' <=> Pending(q) /\ SidOf[q] # s
    BY <1>2, RemoveAllTakesSocket
  <2>2. /\ given' = given \cup rs
        /\ timer' = [r \in Requests |-> IF r \in rs /\ timer[r] = "armed"
                                        THEN "stopped" ELSE timer[r]]
        /\ UNCHANGED <<resolver, registered, replaced, calls>>
    BY <1>2 DEF RemoveAll, StopTimers
  <2>3. rs \subseteq registered
    BY DEF Life
  <2>4. Rest'
    BY <2>2, <2>3 DEF Rest
  <2>5. \A q \in Requests : Life(q)'
    BY <2>1, <2>2 DEF Rest, Life, Over
  <2> QED
    BY <2>1, <2>4, <2>5
<1> QED
  BY <1>1, <1>2

LEMMA RegistryNext == RegistryInv /\ [AckNext]_ackVars => RegistryInv'
<1> SUFFICES ASSUME RegistryInv, [AckNext]_ackVars
             PROVE  RegistryInv'
  OBVIOUS
<1>1. CASE UNCHANGED ackVars
  <2>1. WellKept' /\ \A q \in Requests : Pending(q)' <=> Pending(q)
    BY <1>1, SameMap DEF ackVars, RegistryInv
  <2> QED
    BY <1>1, <2>1 DEF ackVars, RegistryInv, Rest, Life, Over
<1>2. CASE AckNext
  BY <1>2, RegisterSafe, TimerSafe, ResolveSafe, GiveUpSafe DEF AckNext
<1> QED
  BY <1>1, <1>2

LEMMA RegistryInvHolds == AckSpec => []RegistryInv
BY RegistryInit, RegistryNext, PTL DEF AckSpec

-------------------------------------------------------------------------------
\* The types of the registry's maps, timers and callbacks.  (ack.go, AckRegistry.)
THEOREM AckTypeCorrect == AckSpec => []AckTypeOK
<1>1. RegistryInv => AckTypeOK
  BY DEF RegistryInv, WellKept, MapOf, Rest, AckTypeOK
<1> QED
  BY <1>1, RegistryInvHolds, PTL

\* No request is lost: it is in the registry until its answer, its timer, a cancel
\* or a later request with its key has taken it.  (ack.go, Register and Resolve.)
THEOREM RequestsAreKept == AckSpec => []NoneForgotten
<1>1. RegistryInv => NoneForgotten
  BY DEF RegistryInv, Life, NoneForgotten, Rest
<1> QED
  BY <1>1, RegistryInvHolds, PTL

\* Neither an empty map nor the running timer of a request that was given up is left
\* over.  (ack.go, cancel and RemoveAll.)
THEOREM NothingIsLeft == AckSpec => []NothingLeaks
<1>1. RegistryInv => NothingLeaks
  BY DEF RegistryInv, Life, NothingLeaks, WellKept, MapOf, Rest
<1> QED
  BY <1>1, RegistryInvHolds, PTL

\* One answer at most, and none for a request that was given up or replaced, however
\* many ACK packets race with its timer, a cancel and RemoveAll.  (ack.go, Resolve.)
THEOREM OneAnswer == AckSpec => []AnsweredOnce
<1>1. RegistryInv => AnsweredOnce
  BY DEF RegistryInv, Life, AnsweredOnce
<1> QED
  BY <1>1, RegistryInvHolds, PTL

-------------------------------------------------------------------------------
(* Dispatch.                                                               *)

Packets  == [type : {"CONNECT", "CONNECT_ERROR", "ACK"}, id : Nat]

(* Tokens left are part of what the bound still allows.                    *)
Allowance == \A e \in Limited : accepted[e] + Tokens(e) <= Burst * (1 + drops) + refilled[e]

DispatchInv == DispatchTypeOK /\ Allowance

-------------------------------------------------------------------------------
(* The rate limiter.                                                       *)

LEMMA AnotherBurst ==
  ASSUME NEW n \in Nat, NEW d \in Nat
  PROVE  n * (1 + (d + 1)) = n * (1 + d) + n
OBVIOUS

LEMMA BoundIsNat ==
  ASSUME DispatchTypeOK
  PROVE  Burst * (1 + drops) \in Nat
BY DispatchAssumption DEF DispatchTypeOK

LEMMA TokensRange ==
  ASSUME DispatchTypeOK, NEW e \in Limited
  PROVE  Tokens(e) \in 0 .. Burst
BY DispatchAssumption DEF DispatchTypeOK, Tokens, Fresh

(* A disconnect renews every bucket, and the bound grows by a burst.       *)
LEMMA RemoveKeepsAllowance ==
  ASSUME DispatchTypeOK, Allowance, RemoveClient, drops' = drops + 1,
         UNCHANGED <<accepted, refilled>>
  PROVE  Allowance'
<1> SUFFICES ASSUME NEW e \in Limited
             PROVE  accepted[e] + Tokens(e)' <= Burst * (1 + drops') + refilled[e]
  BY DEF Allowance
<1>1. Tokens(e)' = Burst
  BY DEF RemoveClient, Tokens, Fresh
<1>2. accepted[e] + Tokens(e) <= Burst * (1 + drops) + refilled[e]
  BY DEF Allowance
<1>3. Burst * (1 + drops') = Burst * (1 + drops) + Burst
  BY AnotherBurst, DispatchAssumption DEF DispatchTypeOK
<1>4. accepted[e] \in Nat /\ refilled[e] \in Nat
  BY DispatchAssumption DEF DispatchTypeOK
<1> QED
  BY <1>1, <1>2, <1>3, <1>4, BoundIsNat, TokensRange, DispatchAssumption

LEMMA SameAllowance ==
  ASSUME Allowance, UNCHANGED <<accepted, refilled, drops, bucket>>
  PROVE  Allowance'
BY DEF Allowance, Tokens

LEMMA AllowKeepsAllowance ==
  ASSUME DispatchTypeOK, Allowance, NEW e \in Limited, NEW id, Allow(e, id)
  PROVE  Allowance'
<1> SUFFICES ASSUME NEW d \in Limited
             PROVE  accepted'[d] + Tokens(d)' <= Burst * (1 + drops) + refilled[d]
  BY DEF Allowance, Allow
<1>1. accepted[d] + Tokens(d) <= Burst * (1 + drops) + refilled[d]
  BY DEF Allowance
<1>2. CASE d = e
  <2>1. Tokens(d)' = Tokens(e) - 1
    BY <1>2, TokensRange, DispatchAssumption DEF Allow, Tokens, Fresh, DispatchTypeOK
  <2>2. accepted'[d] = accepted[d] + 1
    BY <1>2 DEF Allow, DispatchTypeOK
  <2>3. accepted[d] \in Nat
    BY DEF DispatchTypeOK
  <2>4. Tokens(e) \in Nat
    BY TokensRange
  <2> QED
    BY <1>1, <1>2, <2>1, <2>2, <2>3, <2>4
<1>3. CASE d # e
  BY <1>1, <1>3 DEF Allow, Tokens, DispatchTypeOK
<1> QED
  BY <1>2, <1>3

LEMMA RefillKeepsAllowance ==
  ASSUME DispatchTypeOK, Allowance, NEW e \in Limited, Refill(e)
  PROVE  Allowance'
<1> SUFFICES ASSUME NEW d \in Limited
             PROVE  accepted[d] + Tokens(d)' <= Burst * (1 + drops) + refilled'[d]
  BY DEF Allowance, Refill
<1>1. accepted[d] + Tokens(d) <= Burst * (1 + drops) + refilled[d]
  BY DEF Allowance
<1>2. CASE d = e
  <2>1. Tokens(d)' = Tokens(d) + 1
    BY <1>2, DispatchAssumption DEF Refill, Tokens, Fresh, DispatchTypeOK
  <2>2. refilled'[d] = refilled[d] + 1
    BY <1>2 DEF Refill, DispatchTypeOK
  <2>3. accepted[d] \in Nat /\ refilled[d] \in Nat
    BY DispatchAssumption DEF DispatchTypeOK
  <2> QED
    BY <1>1, <2>1, <2>2, <2>3, BoundIsNat, TokensRange
<1>3. CASE d # e
  BY <1>1, <1>3 DEF Refill, Tokens, DispatchTypeOK
<1> QED
  BY <1>2, <1>3

-------------------------------------------------------------------------------
(* What was sent back.                                                     *)

(* What RunHandler does with the event, whichever way it was let through.  *)
LEMMA HandlerType ==
  ASSUME DispatchTypeOK, NEW e, NEW id \in {NoId, requests + 1}, RunHandler(e, id)
  PROVE  sent' \in Seq(Packets) /\ requests' \in Nat
<1>1. sent \in Seq(Packets) /\ id \in Nat
  BY DEF DispatchTypeOK, Packets, NoId
<1>2. BuildAckPacket(id) \in Seq(Packets)
  <2>1. Reply("ACK", id) \in Packets
    BY <1>1 DEF Reply, Packets
  <2> QED
    BY <2>1 DEF BuildAckPacket
<1>3. sent' \in Seq(Packets)
  BY <1>1, <1>2 DEF RunHandler
<1> QED
  BY <1>3 DEF RunHandler, DispatchTypeOK

-------------------------------------------------------------------------------
(* The invariant.                                                          *)

LEMMA DispatchInitial == DispatchInit => DispatchInv
<1> SUFFICES ASSUME DispatchInit PROVE DispatchInv
  OBVIOUS
<1>1. DispatchTypeOK
  <2>1. socket \in BOOLEAN
    BY Zenon DEF DispatchInit
  <2>2. /\ bucket = [e \in Limited |-> Fresh] /\ violations = 0 /\ sent = <<>> /\ requests = 0
        /\ accepted = Zero /\ refilled = Zero /\ drops = 0
    BY DEF DispatchInit
  <2> QED
    BY <2>1, <2>2, DispatchAssumption DEF DispatchTypeOK, Zero, Fresh
<1>2. Allowance
  BY DispatchAssumption DEF DispatchInit, Allowance, Tokens, Zero, Fresh
<1> QED
  BY <1>1, <1>2 DEF DispatchInv

LEMMA RefuseKeeps ==
  ASSUME DispatchInv, Refuse
  PROVE  DispatchInv'
<1> USE DEF DispatchInv
<1>1. requests' \in Nat
  BY DEF Refuse, DispatchTypeOK
<1>2. DispatchTypeOK'
  BY <1>1 DEF Refuse, DispatchTypeOK, limiter
<1> QED
  BY <1>2, SameAllowance DEF Refuse, limiter

LEMMA PassKeeps ==
  ASSUME DispatchInv, NEW e, NEW id \in {NoId, requests + 1}, Pass(e, id)
  PROVE  DispatchInv'
<1> USE DEF DispatchInv
<1>1. sent' \in Seq(Packets) /\ requests' \in Nat
  BY HandlerType DEF Pass
<1>2. DispatchTypeOK'
  BY <1>1 DEF Pass, DispatchTypeOK, Packets, limiter
<1> QED
  BY <1>2, SameAllowance DEF Pass, limiter

LEMMA AllowKeeps ==
  ASSUME DispatchInv, NEW e, NEW id \in {NoId, requests + 1}, Allow(e, id)
  PROVE  DispatchInv'
<1> USE DEF DispatchInv
<1>1. e \in Limited
  BY DEF Allow
<1>2. sent' \in Seq(Packets) /\ requests' \in Nat
  BY HandlerType DEF Allow
<1>3. Tokens(e) - 1 \in 0 .. Fresh
  BY <1>1, TokensRange, DispatchAssumption DEF Allow, Fresh
<1>4. DispatchTypeOK'
  BY <1>1, <1>2, <1>3 DEF Allow, DispatchTypeOK, Packets
<1> QED
  BY <1>1, <1>4, AllowKeepsAllowance

LEMMA RejectKeeps ==
  ASSUME DispatchInv, NEW e, Reject(e)
  PROVE  DispatchInv'
<1> USE DEF DispatchInv
<1>1. requests' \in Nat
  BY DEF Reject, DispatchTypeOK
<1>2. CASE violations < MaxRejections
  <2>1. violations' = violations + 1 /\ UNCHANGED <<bucket, socket, drops, accepted, refilled, sent>>
    BY <1>2 DEF Reject
  <2>2. DispatchTypeOK'
    BY <1>1, <1>2, <2>1, DispatchAssumption DEF DispatchTypeOK
  <2> QED
    BY <2>1, <2>2, SameAllowance
<1>3. CASE ~(violations < MaxRejections)
  <2>1. RemoveClient /\ drops' = drops + 1 /\ UNCHANGED <<accepted, refilled, sent>>
    BY <1>3 DEF Reject
  <2>2. socket' \in BOOLEAN
    BY <1>3, Zenon DEF Reject
  <2>3. DispatchTypeOK'
    BY <1>1, <2>1, <2>2, DispatchAssumption DEF DispatchTypeOK, RemoveClient, Fresh
  <2> QED
    BY <2>1, <2>3, RemoveKeepsAllowance
<1> QED
  BY <1>2, <1>3

LEMMA DisconnectKeeps ==
  ASSUME DispatchInv, Disconnect
  PROVE  DispatchInv'
<1> USE DEF DispatchInv
<1>1. DispatchTypeOK'
  <2>1. socket' \in BOOLEAN
    BY Zenon DEF Disconnect
  <2>2. RemoveClient /\ drops' = drops + 1 /\ UNCHANGED <<sent, requests, accepted, refilled>>
    BY DEF Disconnect
  <2> QED
    BY <2>1, <2>2, DispatchAssumption DEF RemoveClient, DispatchTypeOK, Fresh
<1> QED
  BY <1>1, RemoveKeepsAllowance DEF Disconnect

LEMMA ConnectKeeps ==
  ASSUME DispatchInv, NEW ns, NEW valid \in BOOLEAN, ConnectPacket(ns, valid)
  PROVE  DispatchInv'
<1> USE DEF DispatchInv
<1>1. PICK type \in {"CONNECT", "CONNECT_ERROR"} : sent' = Append(sent, Reply(type, NoId))
  BY DEF ConnectPacket
<1>2. sent \in Seq(Packets) /\ Reply(type, NoId) \in Packets
  BY DEF DispatchTypeOK, Packets, Reply, NoId
<1>3. sent' \in Seq(Packets)
  BY <1>1, <1>2
<1>4. UNCHANGED <<bucket, violations, requests, accepted, refilled, drops>>
  BY DEF ConnectPacket, limiter, outcomes
<1>5. socket' \in BOOLEAN
  BY Zenon DEF ConnectPacket, DispatchTypeOK
<1>6. DispatchTypeOK'
  BY <1>3, <1>4, <1>5 DEF DispatchTypeOK, Packets
<1> QED
  BY <1>4, <1>6, SameAllowance

LEMMA RefillKeeps ==
  ASSUME DispatchInv, NEW e \in Limited, Refill(e)
  PROVE  DispatchInv'
<1> USE DEF DispatchInv
<1>1. DispatchTypeOK'
  <2>1. bucket' \in [Limited -> 0 .. Fresh] /\ refilled' \in [Limited -> 0 .. MaxRefills]
    BY DispatchAssumption DEF Refill, DispatchTypeOK, Fresh
  <2>2. UNCHANGED <<socket, violations, sent, requests, accepted, drops>>
    BY DEF Refill
  <2> QED
    BY <2>1, <2>2 DEF DispatchTypeOK
<1>2. Allowance'
  BY RefillKeepsAllowance
<1> QED
  BY <1>1, <1>2

LEMMA DispatchStutter ==
  ASSUME DispatchInv, UNCHANGED dispatchVars
  PROVE  DispatchInv'
<1> USE DEF DispatchInv, dispatchVars, limiter, outcomes
<1>1. DispatchTypeOK'
  BY DEF DispatchTypeOK
<1>2. Allowance'
  BY SameAllowance
<1> QED
  BY <1>1, <1>2

LEMMA DispatchInductive == DispatchInv /\ [DispatchNext]_dispatchVars => DispatchInv'
<1> SUFFICES ASSUME DispatchInv, [DispatchNext]_dispatchVars
             PROVE  DispatchInv'
  OBVIOUS
<1>1. ASSUME NEW wanted \in BOOLEAN,
             \E e \in Events : Pass(e, Id(wanted)) \/ Allow(e, Id(wanted))
      PROVE  DispatchInv'
  <2>1. Id(wanted) \in {NoId, requests + 1}
    BY DEF Id
  <2> QED
    BY <1>1, <2>1, PassKeeps, AllowKeeps
<1>2. ASSUME NEW ns \in {"/", "/other"}, NEW valid \in BOOLEAN, ConnectPacket(ns, valid)
      PROVE  DispatchInv'
  BY <1>2, ConnectKeeps
<1>3. CASE Disconnect
  BY <1>3, DisconnectKeeps
<1>4. ASSUME NEW e \in Limited, Refill(e)
      PROVE  DispatchInv'
  BY <1>4, RefillKeeps
<1>5. CASE UNCHANGED dispatchVars
  BY <1>5, DispatchStutter
<1>6. CASE Refuse \/ \E e \in Events : Reject(e)
  BY <1>6, RefuseKeeps, RejectKeeps
<1> QED
  BY <1>1, <1>2, <1>3, <1>4, <1>5, <1>6 DEF DispatchNext

LEMMA DispatchInvariant == DispatchSpec => []DispatchInv
BY DispatchInitial, DispatchInductive, PTL DEF DispatchSpec

-------------------------------------------------------------------------------
(* A limited event gets through no more often than a burst, the tokens     *)
(* regained and a burst for each disconnect: what Allow stores, Remove     *)
(* throws away.  (RateLimiter.Allow, Remove.)                              *)
THEOREM RateIsBounded == DispatchSpec => []RateBounded
<1>1. DispatchInv => RateBounded
  <2> SUFFICES ASSUME DispatchInv, NEW e \in Limited
               PROVE  accepted[e] <= Burst * (1 + drops) + refilled[e]
    BY DEF RateBounded
  <2>1. accepted[e] + Tokens(e) <= Burst * (1 + drops) + refilled[e]
    BY DEF DispatchInv, Allowance
  <2>2. accepted[e] \in Nat /\ refilled[e] \in Nat
    BY DispatchAssumption DEF DispatchInv, DispatchTypeOK
  <2> QED
    BY <2>1, <2>2, TokensRange, BoundIsNat DEF DispatchInv
<1> QED
  BY <1>1, DispatchInvariant, PTL

===============================================================================
