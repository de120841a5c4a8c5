----------------------------- MODULE FireLifecycle -----------------------------
(***************************************************************************)
(* The life of a fire in hwarr: the handlers that register it in Redis     *)
(* (fire:ignite and POST /api/demo/fire), the 2 s progression scan that    *)
(* follows the stage of every cell, and the 60 s cleanup that deletes what *)
(* has expired.                                                            *)
(*                                                                         *)
(* Redis executes one command at a time; a handler or an engine issues     *)
(* several, and between two of them every other goroutine may run.  Each   *)
(* action below is one Redis command with the Go code that follows it up   *)
(* to the next command.  A command may fail, whether or not the server     *)
(* executed it, and a command whose reply was lost may be executed again   *)
(* (go-redis sends it up to three times more, NewClient leaves MaxRetries  *)
(* at its default): faults counts the failures left to happen.  What is    *)
(* not modelled of a resend is where doing it twice equals doing it once.  *)
(*                                                                         *)
(* Scores and captured times are whole Unix seconds.  The progression scan *)
(* reads a millisecond clock: midSecond says that the current second has   *)
(* begun but is past its first millisecond, in which case a fire that      *)
(* expires at this very second is not counted any more by that scan.       *)
(***************************************************************************)
EXTENDS FireStages, FiniteSets

CONSTANTS
  Grids,           \* cells of the map
  Neighbors,       \* Neighbors[g]: the cells GetNeighbors8 returns
  Events,          \* fires; an event ID also names the handler that lights it
  Threshold,       \* FireSpreadThreshold: active fires at which a cell is full
  MaxDepth,        \* FireMaxCascadeDepth: hops a fire makes at most
  TTL,             \* FireTTLSec
  NoGrid,          \* "no cell"
  MaxInFlight,     \* bound: handlers running at the same time
  MaxTime,         \* bound: the last second of the clock
  MaxFaults        \* bound: Redis commands that fail

ASSUME ConstantsAssumption ==
  /\ Neighbors \in [Grids -> (SUBSET Grids) \ {{}}]
  /\ NoGrid \notin Grids
  /\ IsFiniteSet(Events)
  /\ Threshold \in Nat \ {0}
  /\ MaxDepth \in Nat \ {0}
  /\ TTL \in Nat \ {0}
  /\ MaxInFlight \in Nat \ {0}
  /\ MaxTime \in Nat
  /\ MaxFaults \in Nat

VARIABLES
  now, midSecond,                   \* the clock
  fires,                            \* fire:{g}, the members of the sorted set
  expireAt,                         \* the score a fire gets in its sorted set
  activeGrids,                      \* active_grids
  totalFires, dailyFires, ranked,   \* stats:total_fires, :daily_fires, :daily_ranking
  igPc, igGrid, igHops, igNow, igCount,        \* the handlers
  pgPc, pgTodo, pgGrid, pgFrom, pgCount, pgPrev,  \* the progression scan
  gridStages,                       \* FireProgressionEngine.gridStages
  announced,                        \* last new_stage of a fire:stage_transition
  forgotten,                        \* history: cells the cleanup has dropped from
                                    \* gridStages since their last announcement
  clPc, clTodo, clGrid, clNow,      \* the cleanup pass
  faults,                           \* Redis failures left
  raced                             \* history: fires registered in a window (below)

clock    == <<now, midSecond>>
stats    == <<totalFires, dailyFires, ranked>>
igVars   == <<expireAt, igPc, igGrid, igHops, igNow, igCount>>
pgVars   == <<pgPc, pgTodo, pgGrid, pgFrom, pgCount, pgPrev>>
clVars   == <<clPc, clTodo, clGrid, clNow>>
vars     == <<clock, fires, activeGrids, stats, igVars, pgVars, gridStages,
              announced, forgotten, clVars, faults, raced>>

IgPcs == {"idle", "enter", "check", "zadd", "sadd", "incrTotal", "incrDaily",
          "zincrby", "final", "done", "failed"}
PgPcs == {"idle", "smembers", "next", "compare", "apply", "announce", "srem"}
ClPcs == {"idle", "smembers", "zrem", "zcard", "del", "srem", "remove"}

TypeOK ==
  /\ now \in Nat /\ midSecond \in BOOLEAN
  /\ fires \in [Grids -> SUBSET Events]
  /\ expireAt \in [Events -> Nat]
  /\ activeGrids \subseteq Grids
  /\ totalFires \in Nat /\ dailyFires \in Nat /\ ranked \in Nat
  /\ igPc \in [Events -> IgPcs]
  /\ igGrid \in [Events -> Grids \cup {NoGrid}]
  /\ igHops \in [Events -> Nat]
  /\ igNow \in [Events -> Nat]
  /\ igCount \in [Events -> Nat]
  /\ pgPc \in PgPcs /\ pgTodo \subseteq Grids /\ pgGrid \in Grids \cup {NoGrid}
  /\ pgFrom \in Nat /\ pgCount \in Nat /\ pgPrev \in Stages
  /\ gridStages \in [Grids -> Stages]
  /\ announced \in [Grids -> Stages] /\ forgotten \subseteq Grids
  /\ clPc \in ClPcs /\ clTodo \subseteq Grids /\ clGrid \in Grids \cup {NoGrid}
  /\ clNow \in Nat
  /\ faults \in Nat
  /\ raced \subseteq Events
  \* a cell variable is set wherever the code uses it
  /\ \A e \in Events : igPc[e] # "idle" => igGrid[e] \in Grids
  /\ pgPc \in {"compare", "apply", "announce", "srem"} => pgGrid \in Grids
  /\ clPc \in {"zcard", "del", "srem", "remove"} => clGrid \in Grids

Init ==
  /\ now = 0 /\ midSecond = FALSE
  /\ fires = [g \in Grids |-> {}]
  /\ expireAt = [e \in Events |-> 0]
  /\ activeGrids = {}
  /\ totalFires = 0 /\ dailyFires = 0 /\ ranked = 0
  /\ igPc = [e \in Events |-> "idle"]
  /\ igGrid = [e \in Events |-> NoGrid]
  /\ igHops = [e \in Events |-> 0]
  /\ igNow = [e \in Events |-> 0]
  /\ igCount = [e \in Events |-> 0]
  /\ pgPc = "idle" /\ pgTodo = {} /\ pgGrid = NoGrid
  /\ pgFrom = 0 /\ pgCount = 0 /\ pgPrev = StageNone
  /\ gridStages = [g \in Grids |-> StageNone]
  /\ announced = [g \in Grids |-> StageNone] /\ forgotten = {}
  /\ clPc = "idle" /\ clTodo = {} /\ clGrid = NoGrid /\ clNow = 0
  /\ faults = MaxFaults
  /\ raced = {}

-------------------------------------------------------------------------------
(* Time and Redis.                                                         *)

Tick ==
  /\ now < MaxTime \/ ~midSecond
  /\ midSecond' = ~midSecond
  /\ now' = IF midSecond THEN now + 1 ELSE now
  /\ UNCHANGED <<fires, activeGrids, stats, igVars, pgVars, gridStages,
                 announced, forgotten, clVars, faults, raced>>

\* The least whole-second score a ZCOUNT from the millisecond clock counts.
MilliCutoff == IF midSecond THEN now + 1 ELSE now

\* ZCOUNT fire:{g} from +inf
ZCount(g, from) == Cardinality({e \in fires[g] : expireAt[e] >= from})

\* ZADD fire:{g} expireAt[e] e
ZAdd(g, e) == fires' = [fires EXCEPT ![g] = @ \cup {e}]

ZRemRangeByScore_Late(g, upto) ==
  fires' = [fires EXCEPT ![g] = {e \in @ : expireAt[e] > upto + 1}]

ZRemRangeByScore_Exclusive(g, upto) ==
  fires' = [fires EXCEPT ![g] = {e \in @ : expireAt[e] >= upto}]

\* ZREMRANGEBYSCORE fire:{g} -inf upto
ZRemRangeByScore(g, upto) ==
  fires' = [fires EXCEPT ![g] = {e \in @ : expireAt[e] > upto}]

Fault == faults > 0 /\ faults' = faults - 1

-------------------------------------------------------------------------------
(* Registration of fire e (registerFireEvent / registerFire).              *)

InFlight == {e \in Events : igPc[e] \notin {"idle", "done", "failed"}}

Goto(e, from, to) ==
  /\ igPc[e] = from
  /\ igPc' = [igPc EXCEPT ![e] = to]

\* The scanner that has just found g empty and is about to unindex it.
ProgressionWindow(g) ==
  /\ pgPc \in {"compare", "apply", "announce", "srem"}
  /\ pgGrid = g
  /\ pgCount = 0

CleanupWindow(g) ==
  /\ clPc \in {"del", "srem"}
  /\ clGrid = g

Window(g) == ProgressionWindow(g) \/ CleanupWindow(g)

RecordRace(e) == raced' = IF Window(igGrid[e]) THEN raced \cup {e} ELSE raced

\* fire:ignite or /api/demo/fire arrives for cell g: the event gets its score.
Arrive(e, g) ==
  /\ Cardinality(InFlight) < MaxInFlight
  /\ Goto(e, "idle", "enter")
  /\ igGrid' = [igGrid EXCEPT ![e] = g]
  /\ expireAt' = [expireAt EXCEPT ![e] = now + TTL]
  /\ UNCHANGED <<clock, fires, activeGrids, stats, igHops, igNow, igCount,
                 pgVars, gridStages, announced, forgotten, clVars, faults,
                 raced>>

\* registerFireEvent reads the clock once for all its counts.
Enter(e) ==
  /\ Goto(e, "enter", "check")
  /\ igNow' = [igNow EXCEPT ![e] = now]
  /\ UNCHANGED <<clock, fires, activeGrids, stats, expireAt, igGrid, igHops,
                 igCount, pgVars, gridStages, announced, forgotten, clVars,
                 faults, raced>>

CheckRoom_AtThreshold(e) ==
  /\ Goto(e, "check", "zadd")
  /\ ZCount(igGrid[e], igNow[e]) <= Threshold
  /\ UNCHANGED <<clock, fires, activeGrids, stats, expireAt, igGrid, igHops,
                 igNow, igCount, pgVars, gridStages, announced, forgotten,
                 clVars, faults, raced>>

\* The cell has room: the fire lands here.
CheckRoom(e) ==
  /\ Goto(e, "check", "zadd")
  /\ ZCount(igGrid[e], igNow[e]) < Threshold
  /\ UNCHANGED <<clock, fires, activeGrids, stats, expireAt, igGrid, igHops,
                 igNow, igCount, pgVars, gridStages, announced, forgotten,
                 clVars, faults, raced>>

CheckSpread_Uncounted(e) ==
  /\ Goto(e, "check", "check")
  /\ ZCount(igGrid[e], igNow[e]) >= Threshold
  /\ \E n \in Neighbors[igGrid[e]] : igGrid' = [igGrid EXCEPT ![e] = n]
  /\ UNCHANGED <<clock, fires, activeGrids, stats, expireAt, igHops, igNow,
                 igCount, pgVars, gridStages, announced, forgotten, clVars,
                 faults, raced>>

\* The cell is full: hop to a random neighbour; the last hop lands unchecked.  (The
\* error of GetNeighbors8 is for malformed cells; those that reach it are not.)
CheckSpread(e) ==
  /\ Goto(e, "check", IF igHops[e] + 1 = MaxDepth THEN "zadd" ELSE "check")
  /\ ZCount(igGrid[e], igNow[e]) >= Threshold
  /\ \E n \in Neighbors[igGrid[e]] : igGrid' = [igGrid EXCEPT ![e] = n]
  /\ igHops' = [igHops EXCEPT ![e] = @ + 1]
  /\ UNCHANGED <<clock, fires, activeGrids, stats, expireAt, igNow, igCount,
                 pgVars, gridStages, announced, forgotten, clVars, faults,
                 raced>>

Landing(e) ==
  /\ Goto(e, "zadd", "sadd")
  /\ ZAdd(igGrid[e], e)
  /\ RecordRace(e)
  /\ UNCHANGED <<clock, activeGrids, stats, expireAt, igGrid, igHops, igNow,
                 igCount, pgVars, gridStages, announced, forgotten, clVars,
                 faults>>

TrackActive(e) ==
  /\ Goto(e, "sadd", "incrTotal")
  /\ activeGrids' = activeGrids \cup {igGrid[e]}
  /\ RecordRace(e)
  /\ UNCHANGED <<clock, fires, stats, expireAt, igGrid, igHops, igNow, igCount,
                 pgVars, gridStages, announced, forgotten, clVars, faults>>

IncrTotal(e) ==
  /\ Goto(e, "incrTotal", "incrDaily")
  /\ totalFires' = totalFires + 1
  /\ UNCHANGED <<clock, fires, activeGrids, dailyFires, ranked, expireAt,
                 igGrid, igHops, igNow, igCount, pgVars, gridStages, announced,
                 forgotten, clVars, faults, raced>>

IncrDaily_PerHop(e) ==
  /\ Goto(e, "incrDaily", "zincrby")
  /\ dailyFires' = dailyFires + 1 + igHops[e]
  /\ UNCHANGED <<clock, fires, activeGrids, totalFires, ranked, expireAt,
                 igGrid, igHops, igNow, igCount, pgVars, gridStages, announced,
                 forgotten, clVars, faults, raced>>

\* INCR of today's counter; the EXPIRE that follows only sets its 48 h TTL.
IncrDaily(e) ==
  /\ Goto(e, "incrDaily", "zincrby")
  /\ dailyFires' = dailyFires + 1
  /\ UNCHANGED <<clock, fires, activeGrids, totalFires, ranked, expireAt,
                 igGrid, igHops, igNow, igCount, pgVars, gridStages, announced,
                 forgotten, clVars, faults, raced>>

\* ZINCRBY of the region: its error is ignored, with or without effect.
IncrRanking(e) ==
  /\ Goto(e, "zincrby", "final")
  /\ \/ ranked' = ranked + 1 /\ UNCHANGED faults
     \/ ranked' \in {ranked, ranked + 1} /\ Fault
  /\ UNCHANGED <<clock, fires, activeGrids, totalFires, dailyFires, expireAt,
                 igGrid, igHops, igNow, igCount, pgVars, gridStages, announced,
                 forgotten, clVars, raced>>

FinalCount_OthersOnly(e) ==
  /\ Goto(e, "final", "done")
  /\ igCount' = [igCount EXCEPT ![e] =
       Cardinality({f \in fires[igGrid[e]] \ {e} : expireAt[f] >= igNow[e]})]
  /\ UNCHANGED <<clock, fires, activeGrids, stats, expireAt, igGrid, igHops,
                 igNow, pgVars, gridStages, announced, forgotten, clVars,
                 faults, raced>>

\* The count that the acknowledgement and the broadcasts carry.
FinalCount(e) ==
  /\ Goto(e, "final", "done")
  /\ igCount' = [igCount EXCEPT ![e] = ZCount(igGrid[e], igNow[e])]
  /\ UNCHANGED <<clock, fires, activeGrids, stats, expireAt, igGrid, igHops,
                 igNow, pgVars, gridStages, announced, forgotten, clVars,
                 faults, raced>>

\* The write of the command e is at, as Redis executes it.
Write(e) ==
  \/ /\ igPc[e] = "zadd"
     /\ ZAdd(igGrid[e], e)
     /\ UNCHANGED <<activeGrids, stats>>
  \/ /\ igPc[e] = "sadd"
     /\ activeGrids' = activeGrids \cup {igGrid[e]}
     /\ UNCHANGED <<fires, stats>>
  \/ /\ igPc[e] = "incrTotal"
     /\ totalFires' = totalFires + 1
     /\ UNCHANGED <<fires, activeGrids, dailyFires, ranked>>
  \/ /\ igPc[e] = "incrDaily"
     /\ dailyFires' = dailyFires + 1
     /\ UNCHANGED <<fires, activeGrids, totalFires, ranked>>
  \/ /\ igPc[e] = "zincrby"
     /\ ranked' = ranked + 1
     /\ UNCHANGED <<fires, activeGrids, totalFires, dailyFires>>

\* A command whose error is returned fails: the handler stops where it is, and
\* nothing undoes the commands before it, nor its own write if only the reply
\* was lost.
CommandFails(e) ==
  /\ igPc[e] \in {"check", "zadd", "sadd", "incrTotal", "incrDaily", "final"}
  /\ Fault
  /\ igPc' = [igPc EXCEPT ![e] = "failed"]
  /\ Write(e) \/ UNCHANGED <<fires, activeGrids, stats>>
  /\ UNCHANGED <<clock, expireAt, igGrid, igHops, igNow, igCount, pgVars,
                 gridStages, announced, forgotten, clVars, raced>>

\* The reply of a write is lost and the client library sends the command again.
CommandResent(e) ==
  /\ Write(e)
  /\ Fault
  /\ UNCHANGED <<clock, igVars, pgVars, gridStages, announced, forgotten,
                 clVars, raced>>

\* What handler e does next; only its arrival is the choice of a client.
Handler(e) ==
  \/ Enter(e) \/ CheckRoom(e) \/ CheckSpread(e) \/ Landing(e) \/ TrackActive(e)
  \/ IncrTotal(e) \/ IncrDaily(e) \/ IncrRanking(e) \/ FinalCount(e)
  \/ CommandFails(e) \/ CommandResent(e)

-------------------------------------------------------------------------------
(* The progression scan (scanAndUpdateStages).                             *)

\* Go on with the next cell of the SMEMBERS reply, or end the scan; locals that
\* go out of scope are reset.
ScanOn(todo) ==
  /\ pgTodo' = todo
  /\ pgPc' = IF todo = {} THEN "idle" ELSE "next"
  /\ pgGrid' = NoGrid
  /\ pgCount' = 0 /\ pgPrev' = StageNone
  /\ pgFrom' = IF todo = {} THEN 0 ELSE pgFrom

ScanStart ==
  /\ pgPc = "idle"
  /\ pgPc' = "smembers"
  /\ pgFrom' = MilliCutoff
  /\ UNCHANGED <<clock, fires, activeGrids, stats, igVars, pgTodo, pgGrid,
                 pgCount, pgPrev, gridStages, announced, forgotten, clVars,
                 faults, raced>>

ScanMembers ==
  /\ pgPc = "smembers"
  /\ \/ ScanOn(activeGrids) /\ UNCHANGED faults
     \/ ScanOn({}) /\ Fault
  /\ UNCHANGED <<clock, fires, activeGrids, stats, igVars, gridStages,
                 announced, forgotten, clVars, raced>>

ScanCount(g) ==
  /\ pgPc = "next" /\ g \in pgTodo
  /\ \/ /\ pgPc' = "compare" /\ pgGrid' = g
        /\ pgCount' = ZCount(g, pgFrom)
        /\ UNCHANGED <<pgTodo, pgFrom, pgPrev, faults>>
     \/ ScanOn(pgTodo \ {g}) /\ Fault
  /\ UNCHANGED <<clock, fires, activeGrids, stats, igVars, gridStages,
                 announced, forgotten, clVars, raced>>

ScanCompare_RisesOnly ==
  /\ pgPc = "compare"
  /\ IF GetStage(pgCount) > gridStages[pgGrid]
       THEN /\ pgPc' = "apply" /\ pgPrev' = gridStages[pgGrid]
            /\ UNCHANGED <<pgTodo, pgGrid, pgFrom, pgCount>>
       ELSE IF GetStage(pgCount) = StageNone
              THEN /\ pgPc' = "srem"
                   /\ UNCHANGED <<pgTodo, pgGrid, pgFrom, pgCount, pgPrev>>
              ELSE ScanOn(pgTodo \ {pgGrid})
  /\ UNCHANGED <<clock, fires, activeGrids, stats, igVars, gridStages,
                 announced, forgotten, clVars, faults, raced>>

\* Read the tracked stage under the read lock.
ScanCompare ==
  /\ pgPc = "compare"
  /\ IF GetStage(pgCount) # gridStages[pgGrid]
       THEN /\ pgPc' = "apply" /\ pgPrev' = gridStages[pgGrid]
            /\ UNCHANGED <<pgTodo, pgGrid, pgFrom, pgCount>>
       ELSE IF GetStage(pgCount) = StageNone
              THEN /\ pgPc' = "srem"
                   /\ UNCHANGED <<pgTodo, pgGrid, pgFrom, pgCount, pgPrev>>
              ELSE ScanOn(pgTodo \ {pgGrid})
  /\ UNCHANGED <<clock, fires, activeGrids, stats, igVars, gridStages,
                 announced, forgotten, clVars, faults, raced>>

ScanApply_Unrecorded ==
  /\ pgPc = "apply"
  /\ pgPc' = "announce"
  /\ UNCHANGED <<clock, fires, activeGrids, stats, igVars, pgTodo, pgGrid,
                 pgFrom, pgCount, pgPrev, gridStages, announced, forgotten,
                 clVars, faults, raced>>

\* Record the new stage under the lock.
ScanApply ==
  /\ pgPc = "apply"
  /\ gridStages' = [gridStages EXCEPT ![pgGrid] = GetStage(pgCount)]
  /\ pgPc' = "announce"
  /\ UNCHANGED <<clock, fires, activeGrids, stats, igVars, pgTodo, pgGrid,
                 pgFrom, pgCount, pgPrev, announced, forgotten, clVars, faults,
                 raced>>

\* Outside the lock: broadcast fire:update, fire:stage_transition from pgPrev and,
\* for a stage that calls the firefighters, firefighter:spawn.  An entry of
\* StageNone is deleted next, which leaves it StageNone.
ScanAnnounce ==
  /\ pgPc = "announce"
  /\ announced' = [announced EXCEPT ![pgGrid] = GetStage(pgCount)]
  /\ forgotten' = IF gridStages[pgGrid] = GetStage(pgCount)
                     THEN forgotten \ {pgGrid} ELSE forgotten
  /\ IF GetStage(pgCount) = StageNone
       THEN /\ pgPc' = "srem"
            /\ UNCHANGED <<pgTodo, pgGrid, pgFrom, pgCount, pgPrev>>
       ELSE ScanOn(pgTodo \ {pgGrid})
  /\ UNCHANGED <<clock, fires, activeGrids, stats, igVars, gridStages, clVars,
                 faults, raced>>

\* removeActiveGrid: the error is ignored.
ScanUnindex ==
  /\ pgPc = "srem"
  /\ \/ activeGrids' = activeGrids \ {pgGrid}
        /\ ScanOn(pgTodo \ {pgGrid}) /\ UNCHANGED faults
     \/ activeGrids' \in {activeGrids, activeGrids \ {pgGrid}}
        /\ ScanOn(pgTodo \ {pgGrid}) /\ Fault
     \/ activeGrids' = activeGrids \ {pgGrid}          \* executed, to be resent
        /\ UNCHANGED pgVars /\ Fault
  /\ UNCHANGED <<clock, fires, stats, igVars, gridStages, announced, forgotten,
                 clVars, raced>>

Progression ==
  \/ ScanStart \/ ScanMembers \/ (\E g \in Grids : ScanCount(g))
  \/ ScanCompare \/ ScanApply \/ ScanAnnounce \/ ScanUnindex

-------------------------------------------------------------------------------
(* The cleanup pass (RunCleanup).                                          *)

CleanOn(todo) ==
  /\ clTodo' = todo
  /\ clPc' = IF todo = {} THEN "idle" ELSE "zrem"
  /\ clGrid' = NoGrid
  /\ clNow' = IF todo = {} THEN 0 ELSE clNow

CleanStart ==
  /\ clPc = "idle"
  /\ clPc' = "smembers"
  /\ clNow' = now
  /\ UNCHANGED <<clock, fires, activeGrids, stats, igVars, pgVars, gridStages,
                 announced, forgotten, clTodo, clGrid, faults, raced>>

CleanMembers ==
  /\ clPc = "smembers"
  /\ \/ CleanOn(activeGrids) /\ UNCHANGED faults
     \/ CleanOn({}) /\ Fault
  /\ UNCHANGED <<clock, fires, activeGrids, stats, igVars, pgVars, gridStages,
                 announced, forgotten, raced>>

CleanRemove(g) ==
  /\ clPc = "zrem" /\ g \in clTodo
  /\ \/ /\ ZRemRangeByScore(g, clNow)
        /\ clPc' = "zcard" /\ clGrid' = g
        /\ UNCHANGED <<clTodo, clNow, faults>>
     \/ /\ ZRemRangeByScore(g, clNow) \/ UNCHANGED fires
        /\ CleanOn(clTodo \ {g}) /\ Fault
  /\ UNCHANGED <<clock, activeGrids, stats, igVars, pgVars, gridStages,
                 announced, forgotten, raced>>

CleanCard ==
  /\ clPc = "zcard"
  /\ \/ /\ fires[clGrid] = {}
        /\ clPc' = "del"
        /\ UNCHANGED <<clTodo, clGrid, clNow, faults>>
     \/ fires[clGrid] # {} /\ CleanOn(clTodo \ {clGrid}) /\ UNCHANGED faults
     \/ CleanOn(clTodo \ {clGrid}) /\ Fault
  /\ UNCHANGED <<clock, fires, activeGrids, stats, igVars, pgVars, gridStages,
                 announced, forgotten, raced>>

CleanDelete_ForgetsGrid ==
  /\ clPc = "del"
  /\ fires' = [fires EXCEPT ![clGrid] = {}]
  /\ clPc' = "srem" /\ clGrid' = NoGrid
  /\ UNCHANGED <<clock, activeGrids, stats, igVars, pgVars, gridStages,
                 announced, forgotten, clTodo, clNow, faults, raced>>

\* DEL and SREM: an error is logged and the pass goes on.
CleanDelete ==
  /\ clPc = "del"
  /\ \/ fires' = [fires EXCEPT ![clGrid] = {}]
        /\ clPc' = "srem" /\ UNCHANGED faults
     \/ fires' \in {fires, [fires EXCEPT ![clGrid] = {}]}
        /\ clPc' = "srem" /\ Fault
     \/ fires' = [fires EXCEPT ![clGrid] = {}]          \* executed, to be resent
        /\ UNCHANGED clPc /\ Fault
  /\ UNCHANGED <<clock, activeGrids, stats, igVars, pgVars, gridStages,
                 announced, forgotten, clTodo, clGrid, clNow, raced>>

CleanUnindex ==
  /\ clPc = "srem"
  /\ \/ activeGrids' = activeGrids \ {clGrid}
        /\ clPc' = "remove" /\ UNCHANGED faults
     \/ activeGrids' \in {activeGrids, activeGrids \ {clGrid}}
        /\ clPc' = "remove" /\ Fault
     \/ activeGrids' = activeGrids \ {clGrid}          \* executed, to be resent
        /\ UNCHANGED clPc /\ Fault
  /\ UNCHANGED <<clock, fires, stats, igVars, pgVars, gridStages, announced,
                 forgotten, clTodo, clGrid, clNow, raced>>

\* tracker.RemoveStage: forgets the stage, tells no client.
CleanRemoveStage ==
  /\ clPc = "remove"
  /\ gridStages' = [gridStages EXCEPT ![clGrid] = StageNone]
  /\ CleanOn(clTodo \ {clGrid})
  /\ forgotten' = IF gridStages[clGrid] = StageNone
                     THEN forgotten ELSE forgotten \cup {clGrid}
  /\ UNCHANGED <<clock, fires, activeGrids, stats, igVars, pgVars, announced,
                 faults, raced>>

Cleanup ==
  \/ CleanStart \/ CleanMembers \/ (\E g \in Grids : CleanRemove(g))
  \/ CleanCard \/ CleanDelete \/ CleanUnindex \/ CleanRemoveStage

-------------------------------------------------------------------------------
Next ==
  \/ Tick
  \/ \E e \in Events : \/ \E g \in Grids : Arrive(e, g)
                       \/ Handler(e)
  \/ Progression
  \/ Cleanup

Spec == Init /\ [][Next]_vars

\* The same system watched while neither engine ticks: handlers and the clock.
RegistrationNext ==
  \/ Tick
  \/ \E e \in Events : (\E g \in Grids : Arrive(e, g)) \/ Handler(e)

RegistrationSpec ==
  Init /\ [][RegistrationNext]_vars /\ \A e \in Events : WF_vars(Handler(e))

\* A handler that has started runs to its end, and both engines keep ticking:
\* goroutines are scheduled, and every Redis call returns (it has timeouts).
Fairness ==
  /\ \A e \in Events : WF_vars(Handler(e))
  /\ WF_vars(Progression)
  /\ WF_vars(Cleanup)

FairSpec == Spec /\ Fairness

-------------------------------------------------------------------------------
(* Properties.                                                             *)

Live(e)  == expireAt[e] > now
Stored(e)  == igPc[e] \in {"sadd", "incrTotal", "incrDaily", "zincrby", "final", "done"}
Tracked(e) == igPc[e] \in {"incrTotal", "incrDaily", "zincrby", "final", "done"}
Forced(e)  == igHops[e] = MaxDepth
LiveIn(g)  == {e \in fires[g] : Live(e)}

\* A registered fire that has not expired is in the sorted set of its cell, and
\* once tracked its cell is in active_grids, whatever the two engines do - unless
\* it was registered between an engine's finding the cell empty and its SREM.
\* (registerFireEvent against scanAndUpdateStages and RunCleanup.)
RegistrationDurable ==
  \A e \in Events \ raced : Live(e) =>
    /\ Stored(e)  => e \in fires[igGrid[e]]
    /\ Tracked(e) => igGrid[e] \in activeGrids

\* The spread threshold is a check made before the ZADD, so concurrent handlers
\* can overshoot it, but only by one fire per other handler in flight; the fires
\* that land unchecked after MaxDepth hops do not count.
OvershootBounded ==
  \A g \in Grids :
    Cardinality({e \in LiveIn(g) : ~Forced(e)}) <= Threshold - 1 + MaxInFlight

\* Every fire:stage_transition takes a cell from the stage the clients were last
\* told to another one: no change is told twice, or from a stage no one was shown.
\* Only where the cleanup has dropped the cell's entry in the meantime, be it
\* between the scan's write and its broadcast, may one start at StageNone again.
TransitionsChain ==
  [][pgPc = "announce" /\ pgPc' # "announce" =>
       \/ pgPrev = announced[pgGrid] /\ announced'[pgGrid] # pgPrev
       \/ pgPrev = StageNone /\ pgGrid \in forgotten]_vars

\* The statistics trail the store and lead the acknowledgements, also when
\* commands fail half-way: no acknowledged fire is missing from the counters,
\* and a counter is ahead of the fires that were written by resends only.
StatsBracketed ==
  LET done    == Cardinality({e \in Events : igPc[e] = "done"})
      lit     == Cardinality({e \in Events : igPc[e] = "failed" \/ Stored(e)})
      resends == MaxFaults - faults
  IN  /\ done <= totalFires /\ totalFires <= lit + resends
      /\ done <= dailyFires /\ dailyFires <= lit + resends
      /\ done <= ranked + resends /\ ranked <= lit + resends

\* The count sent in the acknowledgement and in fire:update includes the fire
\* being acknowledged, if it is still burning and was not lost to a race.
AckSeesOwnFire ==
  [][\A e \in Events :
       igPc[e] = "final" /\ igPc'[e] = "done" /\ Live(e) /\ e \notin raced
         => igCount'[e] > 0]_vars

\* Every registration ends, however full the map is: the cascade of hops is
\* bounded and the last cell is taken unchecked.
IgniteTerminates ==
  \A e \in Events : igPc[e] = "enter" ~> igPc[e] \in {"done", "failed"}

\* A change of the stage of an indexed cell, up or down, does not go unnoticed:
\* the scan records it and tells the clients, unless the cell leaves the index.
StageEventuallyTold ==
  \A g \in Grids :
    g \in activeGrids
      ~> LET stage == GetStage(ZCount(g, MilliCutoff))
         IN  \/ gridStages[g] = stage /\ announced[g] = stage
             \/ g \notin activeGrids

\* What has expired is deleted, also from a cell that still burns, unless the cell
\* leaves the index: the scan may be first to find it empty and takes it out of the
\* cleanup's sight (cleanup.go:165-187, fire_progression.go:222-226).
ExpiredReclaimed ==
  \A e \in Events, g \in Grids :
    (e \in fires[g] /\ ~Live(e)) ~> (e \notin fires[g] \/ g \notin activeGrids)

-------------------------------------------------------------------------------
(* Claims of the documentation that the code does not keep.                *)

\* docs/reference/redis-schema.md: active_grids is kept in step with the fires.
IndexInStep ==
  \A e \in Events : Live(e) /\ Tracked(e) => igGrid[e] \in activeGrids

\* docs/reference/fire-stages.md: a stage that falls because fires expire is
\* caught by the periodic scan - so a cell that has left both the store and the
\* scan's list was announced to be out.
FallsAnnounced ==
  \A g \in Grids :
    fires[g] = {} /\ g \notin (activeGrids \cup pgTodo) => announced[g] = StageNone

===============================================================================
