------------------------------- MODULE FireFeed -------------------------------
(***************************************************************************)
(* How the count of a cell reaches the map of a client: the broadcasts of  *)
(* the fire handlers (server/internal/sio/fire_ignite.go, fire_compat.go,  *)
(* handler/demo_fire.go), of the progression engine and of the FireBatcher *)
(* (sio/fire_batcher.go), and the queries get_fires and fire:state.        *)
(*                                                                         *)
(* Registering a fire is one step here (module FireLifecycle takes it      *)
(* apart).  What the server sends one socket arrives in the order it was   *)
(* sent (property Delivered of module EngineSession), and only the last    *)
(* message of a cell matters to the map, so a message is applied when it   *)
(* is sent.  The scan announces any new count here, not only a new stage.  *)
(***************************************************************************)
EXTENDS Integers, FiniteSets, Functions

CONSTANTS
  Cells, Fires, CellOf,         \* the cell each fire lands in
  Igniting, Demo,               \* fires of fire:ignite and of POST /api/demo/fire
  MaxEvents                     \* bound: expiries, scans, queries and lost connections

ASSUME FeedAssumption ==
  /\ CellOf \in [Fires -> Cells]
  /\ Igniting \subseteq Fires /\ Demo \subseteq Fires /\ Igniting \intersect Demo = {}
  /\ MaxEvents \in Nat

VARIABLES
  burning,        \* ZCOUNT of each cell
  work, count,    \* the handler of each fire: its step and the count it took
  pending, batch, \* the updates of the batcher and those its flush has in hand
  scan,           \* the count the progression scan is announcing, if any
  read,           \* the query in progress, if any
  online, shown,  \* the client: its connection and its map of fires
  lastAdded,      \* history: the count last given to the batcher, per cell
  disturbed,      \* history: cells with another change of the map since then
  events          \* expiries, scans, queries and lost connections so far

map     == <<online, shown>>
batcher == <<pending, batch>>
given   == <<lastAdded, disturbed>>
feedVars == <<burning, work, count, batcher, scan, read, map, given, events>>

Empty == [c \in {} |-> 0]
Put(m, c, n) == [x \in DOMAIN m \cup {c} |-> IF x = c THEN n ELSE m[x]]
Delete(m, c) == Restrict(m, DOMAIN m \ {c})
Idle == [kind |-> "idle"]

FeedInit ==
  /\ burning = [c \in Cells |-> 0]
  /\ work = [f \in Fires |-> "idle"] /\ count = [f \in Fires |-> 0]
  /\ pending = Empty /\ batch = Empty
  /\ scan = Empty
  /\ read = Idle
  /\ online = FALSE /\ shown = Empty
  /\ lastAdded = Empty /\ disturbed = {}
  /\ events = 0

Event == events < MaxEvents /\ events' = events + 1

-------------------------------------------------------------------------------
(* The client's store, and a fire:update that reaches it.                  *)

updateFire(c, n) == IF n > 0 THEN Put(shown, c, n) ELSE Delete(shown, c)

Broadcast(c, n) == shown' = IF online THEN updateFire(c, n) ELSE shown

(* A change of a cell while a query runs: what it may and must report.     *)
Noted(b) ==
  read' = IF read = Idle THEN Idle
          ELSE [read EXCEPT !.lit  = {c \in @ : b[c] > 0},
                            !.dark = {c \in @ : b[c] = 0}]

-------------------------------------------------------------------------------
(* The handlers.                                                           *)

Register(f) ==
  /\ work[f] = "idle"
  /\ burning' = [burning EXCEPT ![CellOf[f]] = @ + 1]
  /\ count' = [count EXCEPT ![f] = burning'[CellOf[f]]]
  /\ work' = [work EXCEPT ![f] = IF f \in Igniting \cup Demo THEN "telling" ELSE "adding"]
  /\ Noted(burning')
  /\ UNCHANGED <<batcher, scan, map, given, events>>

(* fire:ignite broadcasts the count before it gives it to the batcher.  The
   update of the demo endpoint goes to the room of the cell and has no
   gridId: the store deletes a key of no cell.                             *)
Tell(f) ==
  /\ work[f] = "telling" /\ f \in Igniting
  /\ Broadcast(CellOf[f], count[f])
  /\ work' = [work EXCEPT ![f] = "adding"]
  /\ UNCHANGED <<burning, count, batcher, scan, read, online, given, events>>

TellRoom(f) ==
  /\ work[f] = "telling" /\ f \in Demo
  /\ work' = [work EXCEPT ![f] = "done"]
  /\ UNCHANGED <<burning, count, batcher, scan, read, map, given, events>>

Added_KeepsFirst(m, c, n) == IF c \in DOMAIN m THEN m ELSE Put(m, c, n)
Added(m, c, n) == Put(m, c, n)

Enqueue(c, n) ==
  /\ pending' = Added(pending, c, n)
  /\ lastAdded' = Put(lastAdded, c, n) /\ disturbed' = disturbed \ {c}

Add(f) ==
  /\ work[f] = "adding"
  /\ Enqueue(CellOf[f], count[f])
  /\ work' = [work EXCEPT ![f] = "done"]
  /\ UNCHANGED <<burning, count, batch, scan, read, map, events>>

-------------------------------------------------------------------------------
(* The batcher's tick: what it holds is swapped out, then sent.            *)

FlushTakes ==
  /\ batch = Empty /\ pending # Empty
  /\ batch' = pending /\ pending' = Empty
  /\ UNCHANGED <<burning, work, count, scan, read, map, given, events>>

FlushSends ==
  \E c \in DOMAIN batch :
    /\ Broadcast(c, batch[c])
    /\ batch' = Delete(batch, c)
    /\ disturbed' = IF online THEN disturbed ELSE disturbed \cup {c}
    /\ UNCHANGED <<burning, work, count, pending, scan, read, online, lastAdded, events>>

-------------------------------------------------------------------------------
(* Time and the progression scan, which broadcasts what it counted.        *)

Expire(c) ==
  /\ burning[c] > 0 /\ Event
  /\ burning' = [burning EXCEPT ![c] = @ - 1]
  /\ Noted(burning')
  /\ UNCHANGED <<work, count, batcher, scan, map, given>>

ScanCounts(c) ==
  /\ scan = Empty /\ Event
  /\ scan' = Put(Empty, c, burning[c])
  /\ UNCHANGED <<burning, work, count, batcher, read, map, given>>

ScanAnnounces ==
  \E c \in DOMAIN scan :
    /\ Broadcast(c, scan[c])
    /\ disturbed' = disturbed \cup {c} /\ scan' = Empty
    /\ UNCHANGED <<burning, work, count, batcher, read, online, lastAdded, events>>

-------------------------------------------------------------------------------
(* Queries: the members of active_grids, or the cells the client names,    *)
(* then one ZCOUNT per cell; every command may fail.  They only read, so   *)
(* one at a time is enough.  lit and dark are the cells that have burned,  *)
(* or not, ever since.                                                     *)

Reading(k, todo) == [kind |-> k, asked |-> todo, left |-> todo, list |-> Empty, failed |-> {},
                     lit  |-> {c \in Cells : burning[c] > 0},
                     dark |-> {c \in Cells : burning[c] = 0}]

Active == {c \in Cells : burning[c] > 0}

Begin(r) ==
  /\ read = Idle /\ Event
  /\ read' = r
  /\ UNCHANGED <<burning, work, count, batcher, scan, map, given>>

MembersFail(k) == Begin([Reading(k, {}) EXCEPT !.failed = Cells])

Collecting(c) == read # Idle /\ c \in read.left

ReadCell(c) ==
  /\ Collecting(c)
  /\ read' = [read EXCEPT !.left = @ \ {c},
                          !.list = IF burning[c] > 0 THEN Put(@, c, burning[c]) ELSE @]
  /\ UNCHANGED <<burning, work, count, batcher, scan, map, given, events>>

Skip_GivesUp(r, c) == [r EXCEPT !.left = {}, !.failed = @ \cup {c}]
Skip(r, c) == [r EXCEPT !.left = @ \ {c}, !.failed = @ \cup {c}]

ReadFails(c) ==
  /\ Collecting(c)
  /\ read' = Skip(read, c)
  /\ UNCHANGED <<burning, work, count, batcher, scan, map, given, events>>

Finished == read # Idle /\ read.left = {}

(* get_fires sends fires:sync, which replaces the map of the client.       *)
AnswerSync ==
  /\ Finished /\ read.kind = "get_fires"
  /\ IF online
     THEN shown' = read.list /\ disturbed' = Cells
     ELSE UNCHANGED <<shown, disturbed>>
  /\ read' = Idle
  /\ UNCHANGED <<burning, work, count, batcher, scan, online, lastAdded, events>>

AnswerState ==
  /\ Finished /\ read.kind = "fire:state"
  /\ read' = Idle
  /\ UNCHANGED <<burning, work, count, batcher, scan, map, given, events>>

-------------------------------------------------------------------------------
(* The client connects, and asks for the list with it, or loses its        *)
(* connection and keeps its map.                                           *)

Connect ==
  /\ ~online /\ online' = TRUE
  /\ read = Idle /\ read' = Reading("get_fires", Active)
  /\ UNCHANGED <<burning, work, count, batcher, scan, shown, given, events>>

Drop ==
  /\ online /\ Event /\ online' = FALSE
  /\ UNCHANGED <<burning, work, count, batcher, scan, read, shown, given>>

-------------------------------------------------------------------------------
FeedNext ==
  \/ \E f \in Fires : Register(f) \/ Tell(f) \/ TellRoom(f) \/ Add(f)
  \/ FlushTakes \/ FlushSends
  \/ \E c \in Cells : Expire(c) \/ ScanCounts(c)
  \/ ScanAnnounces
  \/ \E k \in {"get_fires", "fire:state"} : MembersFail(k)
  \/ \E named \in {Active} \cup {{c} : c \in Cells} : Begin(Reading("fire:state", named))
  \/ \E c \in Cells : ReadCell(c) \/ ReadFails(c)
  \/ AnswerSync \/ AnswerState \/ Connect \/ Drop

FeedSpec == FeedInit /\ [][FeedNext]_feedVars

-------------------------------------------------------------------------------
(* Properties.                                                             *)

FeedAtRest ==
  /\ pending = Empty /\ batch = Empty /\ scan = Empty /\ online
  /\ \A f \in Fires : work[f] \in {"idle", "done"}
  /\ read = Idle

(* However the direct broadcasts of concurrent handlers and an older batch
   overtake each other, once all is sent the client shows the count last
   given to the batcher for a cell: a flush of what fire_batcher.go:49-55
   kept repairs what a stale broadcast did.  Only a scan's announcement, a
   list or a broadcast missed offline since then changes that.             *)
LastAddedShown ==
  FeedAtRest => \A c \in DOMAIN lastAdded \ disturbed :
                  c \in DOMAIN shown /\ shown[c] = lastAdded[c]

(* A list is not a snapshot (get_fires_compat.go:57-74, fire_state.go:69-82):
   cells change while it is collected and single ZCOUNTs fail.  Still it has
   every cell asked for that burned all along and whose own command did not
   fail, and no cell that was out all along.                               *)
ListsHonest ==
  Finished => /\ DOMAIN read.list \cap read.dark = {}
              /\ (read.asked \cap read.lit) \ read.failed \subseteq DOMAIN read.list
===============================================================================
