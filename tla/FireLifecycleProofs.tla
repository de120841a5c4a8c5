-------------------------- MODULE FireLifecycleProofs --------------------------
(***************************************************************************)
(* Proofs about FireLifecycle for every map, every number of fires and     *)
(* concurrent handlers, every threshold and time to live, and any number   *)
(* of failing Redis commands.                                              *)
(***************************************************************************)
EXTENDS FireLifecycle, FiniteSetTheorems, TLAPS

-------------------------------------------------------------------------------
(* GetStage, for every table of thresholds that satisfies                  *)
(* StageMinAssumption.                                                     *)

\* Every count has a stage, and that stage is the highest one it reaches
\* (the loop of GetStage always returns from inside its body).
LEMMA GetStageSpec ==
  ASSUME NEW n \in Nat
  PROVE  /\ GetStage(n) \in Stages
         /\ n >= StageMin[GetStage(n)]
         /\ \A t \in Stages : t > GetStage(n) => n < StageMin[t]
<1> DEFINE P(s) == /\ n >= StageMin[s]
                   /\ \A t \in Stages : t > s => n < StageMin[t]
<1>1. \E s \in Stages : P(s)
  <2> USE StageMinAssumption DEF Stages, StageNone, StageJeonso, StageBulsssi
  <2>1. n >= StageMin[0] /\ 0 \in Stages
    OBVIOUS
  <2>2. CASE n >= StageMin[5]
    <3>1. P(5) /\ 5 \in Stages
      BY <2>2
    <3> QED BY <3>1
  <2>3. CASE n < StageMin[5] /\ n >= StageMin[4]
    <3>1. P(4) /\ 4 \in Stages
      BY <2>3
    <3> QED BY <3>1
  <2>4. CASE n < StageMin[5] /\ n < StageMin[4] /\ n >= StageMin[3]
    <3>1. P(3) /\ 3 \in Stages
      BY <2>4
    <3> QED BY <3>1
  <2>5. CASE /\ n < StageMin[5] /\ n < StageMin[4] /\ n < StageMin[3]
             /\ n >= StageMin[2]
    <3>1. P(2) /\ 2 \in Stages
      BY <2>5
    <3> QED BY <3>1
  <2>6. CASE /\ n < StageMin[5] /\ n < StageMin[4] /\ n < StageMin[3]
             /\ n < StageMin[2] /\ n >= StageMin[1]
    <3>1. P(1) /\ 1 \in Stages
      BY <2>6
    <3> QED BY <3>1
  <2>7. CASE /\ n < StageMin[5] /\ n < StageMin[4] /\ n < StageMin[3]
             /\ n < StageMin[2] /\ n < StageMin[1]
    <3>1. P(0) /\ 0 \in Stages
      BY <2>7, <2>1
    <3> QED BY <3>1
  <2> QED
    BY <2>2, <2>3, <2>4, <2>5, <2>6, <2>7
<1>2. GetStage(n) \in Stages /\ P(GetStage(n))
  BY <1>1 DEF GetStage
<1> QED
  BY <1>2

\* A cell is of StageNone exactly when it has no active fire: the test
\* "newStage == StageNone" of the scan is the test "activeCount == 0".
THEOREM StageNoneMeansEmpty ==
  ASSUME NEW n \in Nat
  PROVE  GetStage(n) = StageNone <=> n = 0
<1>1. /\ GetStage(n) \in Stages
      /\ n >= StageMin[GetStage(n)]
      /\ \A t \in Stages : t > GetStage(n) => n < StageMin[t]
  BY GetStageSpec
<1>2. CASE n = 0
  BY <1>1, <1>2, StageMinAssumption
     DEF Stages, StageNone, StageJeonso, StageBulsssi
<1>3. CASE n # 0
  BY <1>1, <1>3, StageMinAssumption
     DEF Stages, StageNone, StageJeonso, StageBulsssi
<1> QED
  BY <1>2, <1>3

\* More active fires never mean a lower stage.
THEOREM GetStageMonotone ==
  ASSUME NEW m \in Nat, NEW n \in Nat, m <= n
  PROVE  GetStage(m) <= GetStage(n)
<1>1. /\ GetStage(m) \in Stages /\ GetStage(n) \in Stages
      /\ m >= StageMin[GetStage(m)]
      /\ \A t \in Stages : t > GetStage(n) => n < StageMin[t]
  BY GetStageSpec
<1>2. ASSUME GetStage(m) > GetStage(n) PROVE FALSE
  <2>1. n < StageMin[GetStage(m)]
    BY <1>1, <1>2
  <2>2. StageMin[GetStage(m)] \in Nat
    BY <1>1, StageMinAssumption
  <2> QED
    BY <1>1, <2>1, <2>2
<1> QED
  BY <1>1, <1>2 DEF Stages, StageNone, StageJeonso

-------------------------------------------------------------------------------
(* The counts of a cell.                                                   *)

\* A ZCOUNT is a natural number.
LEMMA ZCountType ==
  ASSUME TypeOK, NEW g \in Grids, NEW from \in Nat
  PROVE  ZCount(g, from) \in Nat
<1>1. IsFiniteSet({e \in fires[g] : expireAt[e] >= from})
  BY ConstantsAssumption, FS_Subset DEF TypeOK
<1> QED
  BY <1>1, FS_CardinalityType DEF ZCount

\* A ZCOUNT of zero means that no member has a score in the range.
LEMMA ZCountZero ==
  ASSUME TypeOK, NEW g \in Grids, NEW from \in Nat, ZCount(g, from) = 0,
         NEW e \in fires[g]
  PROVE  expireAt[e] < from
<1> DEFINE S == {f \in fires[g] : expireAt[f] >= from}
<1>1. IsFiniteSet(S)
  BY ConstantsAssumption, FS_Subset DEF TypeOK
<1>2. S = {}
  BY <1>1, FS_EmptySet DEF ZCount
<1>3. expireAt[e] \in Nat
  BY DEF TypeOK
<1> QED
  BY <1>2, <1>3

USE DEF clock, stats, igVars, pgVars, clVars

-------------------------------------------------------------------------------
(* Type correctness.                                                       *)

LEMMA InitType == Init => TypeOK
<1> SUFFICES ASSUME Init
             PROVE  TypeOK
  OBVIOUS
<1> USE DEF Init
<1>1. /\ now \in Nat /\ midSecond \in BOOLEAN
      /\ fires \in [Grids -> SUBSET Events] /\ expireAt \in [Events -> Nat]
      /\ activeGrids \subseteq Grids
      /\ totalFires \in Nat /\ dailyFires \in Nat /\ ranked \in Nat
  OBVIOUS
<1>2. /\ igPc \in [Events -> IgPcs] /\ igGrid \in [Events -> Grids \cup {NoGrid}]
      /\ igHops \in [Events -> Nat] /\ igNow \in [Events -> Nat]
      /\ igCount \in [Events -> Nat]
      /\ \A e \in Events : igPc[e] = "idle"
  BY DEF IgPcs
<1>3. /\ pgPc \in PgPcs /\ pgTodo \subseteq Grids
      /\ pgGrid \in Grids \cup {NoGrid}
      /\ pgFrom \in Nat /\ pgCount \in Nat /\ pgPrev \in Stages
      /\ gridStages \in [Grids -> Stages] /\ announced \in [Grids -> Stages]
      /\ forgotten \subseteq Grids
  BY DEF PgPcs, Stages, StageNone, StageJeonso
<1>4. /\ clPc \in ClPcs /\ clTodo \subseteq Grids
      /\ clGrid \in Grids \cup {NoGrid} /\ clNow \in Nat
  BY DEF ClPcs
<1>5. faults \in Nat /\ raced \subseteq Events
  BY ConstantsAssumption
<1> QED
  BY <1>1, <1>2, <1>3, <1>4, <1>5 DEF TypeOK

LEMMA HandlerType ==
  ASSUME TypeOK, NEW e \in Events, Handler(e)
  PROVE  TypeOK'
<1> USE DEF TypeOK, IgPcs, Goto
<1>1. CASE Enter(e)
  BY <1>1 DEF Enter
<1>2. CASE CheckRoom(e)
  BY <1>2 DEF CheckRoom
<1>3. CASE CheckSpread(e)
  <2>1. PICK n \in Neighbors[igGrid[e]] : igGrid' = [igGrid EXCEPT ![e] = n]
    BY <1>3 DEF CheckSpread
  <2>2. n \in Grids
    BY <1>3, <2>1, ConstantsAssumption DEF CheckSpread
  <2> QED
    BY <1>3, <2>1, <2>2 DEF CheckSpread
<1>4. CASE Landing(e)
  BY <1>4 DEF Landing, ZAdd, RecordRace
<1>5. CASE TrackActive(e)
  BY <1>5 DEF TrackActive, RecordRace
<1>6. CASE IncrTotal(e)
  BY <1>6 DEF IncrTotal
<1>7. CASE IncrDaily(e)
  BY <1>7 DEF IncrDaily
<1>8. CASE IncrRanking(e)
  BY <1>8 DEF IncrRanking, Fault
<1>9. CASE FinalCount(e)
  <2>1. ZCount(igGrid[e], igNow[e]) \in Nat
    BY <1>9, ZCountType DEF FinalCount
  <2> QED
    BY <1>9, <2>1 DEF FinalCount
<1>10. ASSUME Write(e)
       PROVE  /\ fires' \in [Grids -> SUBSET Events] /\ activeGrids' \subseteq Grids
              /\ totalFires' \in Nat /\ dailyFires' \in Nat /\ ranked' \in Nat
  BY <1>10 DEF Write, ZAdd
<1>11. CASE CommandFails(e)
  <2>1. faults' \in Nat
    BY <1>11 DEF CommandFails, Fault
  <2>2. igGrid[e] \in Grids
    BY <1>11 DEF CommandFails
  <2>3. /\ fires' \in [Grids -> SUBSET Events] /\ activeGrids' \subseteq Grids
        /\ totalFires' \in Nat /\ dailyFires' \in Nat /\ ranked' \in Nat
    BY <1>10, <1>11 DEF CommandFails
  <2>4. /\ igPc' = [igPc EXCEPT ![e] = "failed"]
        /\ UNCHANGED <<now, midSecond, expireAt, igGrid, igHops, igNow,
                       igCount, pgVars, gridStages, announced, forgotten, clVars,
                       raced>>
    BY <1>11 DEF CommandFails
  <2> QED
    BY <2>1, <2>2, <2>3, <2>4
<1>12. CASE CommandResent(e)
  BY <1>10, <1>12 DEF CommandResent, Fault
<1> QED
  BY <1>1, <1>2, <1>3, <1>4, <1>5, <1>6, <1>7, <1>8, <1>9, <1>11, <1>12 DEF Handler

LEMMA ArriveType ==
  ASSUME TypeOK, NEW e \in Events, NEW g \in Grids, Arrive(e, g)
  PROVE  TypeOK'
BY ConstantsAssumption DEF TypeOK, IgPcs, Goto, Arrive

LEMMA TickType == TypeOK /\ Tick => TypeOK'
  BY DEF TypeOK, Tick

\* The scan's locals after it has gone on to another cell.
LEMMA ScanOnType ==
  ASSUME TypeOK, NEW todo \in SUBSET Grids, ScanOn(todo)
  PROVE  /\ pgPc' \in PgPcs /\ pgPc' \notin {"compare", "apply", "announce", "srem"}
         /\ pgTodo' \subseteq Grids /\ pgGrid' \in Grids \cup {NoGrid}
         /\ pgFrom' \in Nat /\ pgCount' \in Nat /\ pgPrev' \in Stages
BY DEF TypeOK, ScanOn, PgPcs, Stages, StageNone, StageJeonso

LEMMA ProgressionType == TypeOK /\ Progression => TypeOK'
<1> SUFFICES ASSUME TypeOK, Progression
             PROVE  TypeOK'
  OBVIOUS
<1> USE DEF TypeOK
<1>1. CASE ScanStart
  BY <1>1 DEF ScanStart, MilliCutoff, PgPcs
<1>2. CASE ScanMembers
  BY <1>2, ScanOnType DEF ScanMembers, Fault
<1>3. ASSUME NEW g \in Grids, ScanCount(g)
      PROVE  TypeOK'
  <2>1. CASE ScanOn(pgTodo \ {g}) /\ Fault
    BY <1>3, <2>1, ScanOnType DEF ScanCount, Fault
  <2>2. CASE ~(ScanOn(pgTodo \ {g}) /\ Fault)
    <3>1. ZCount(g, pgFrom) \in Nat
      BY ZCountType
    <3> QED
      BY <1>3, <2>2, <3>1 DEF ScanCount, PgPcs
  <2> QED
    BY <2>1, <2>2
<1>4. CASE ScanCompare
  <2>1. CASE ScanOn(pgTodo \ {pgGrid})
    BY <1>4, <2>1, ScanOnType DEF ScanCompare
  <2>2. CASE ~ScanOn(pgTodo \ {pgGrid})
    BY <1>4, <2>2 DEF ScanCompare, PgPcs
  <2> QED
    BY <2>1, <2>2
<1>5. CASE ScanApply
  BY <1>5, GetStageSpec DEF ScanApply, PgPcs
<1>6. CASE ScanAnnounce
  <2>1. /\ GetStage(pgCount) \in Stages
        /\ forgotten' \subseteq Grids
    BY <1>6, GetStageSpec DEF ScanAnnounce
  <2>2. CASE ScanOn(pgTodo \ {pgGrid})
    BY <1>6, <2>1, <2>2, ScanOnType DEF ScanAnnounce
  <2>3. CASE ~ScanOn(pgTodo \ {pgGrid})
    BY <1>6, <2>1, <2>3 DEF ScanAnnounce, PgPcs
  <2> QED
    BY <2>2, <2>3
<1>7. CASE ScanUnindex
  <2>1. activeGrids' \subseteq Grids /\ faults' \in Nat
    BY <1>7 DEF ScanUnindex, Fault
  <2>2. CASE ScanOn(pgTodo \ {pgGrid})
    BY <1>7, <2>1, <2>2, ScanOnType DEF ScanUnindex
  <2>3. CASE UNCHANGED pgVars
    BY <1>7, <2>1, <2>3 DEF ScanUnindex
  <2> QED
    BY <1>7, <2>2, <2>3 DEF ScanUnindex
<1> QED
  BY <1>1, <1>2, <1>3, <1>4, <1>5, <1>6, <1>7 DEF Progression

\* The pass's locals after it has gone on to another cell.
LEMMA CleanOnType ==
  ASSUME TypeOK, NEW todo \in SUBSET Grids, CleanOn(todo)
  PROVE  /\ clPc' \in ClPcs
         /\ clPc' \notin {"zcard", "del", "srem", "remove"}
         /\ clTodo' \subseteq Grids /\ clGrid' \in Grids \cup {NoGrid}
         /\ clNow' \in Nat
BY DEF TypeOK, CleanOn, ClPcs

LEMMA CleanupType == TypeOK /\ Cleanup => TypeOK'
<1> SUFFICES ASSUME TypeOK, Cleanup
             PROVE  TypeOK'
  OBVIOUS
<1> USE DEF TypeOK
<1>1. CASE CleanStart
  BY <1>1 DEF CleanStart, ClPcs
<1>2. CASE CleanMembers
  BY <1>2, CleanOnType DEF CleanMembers, Fault
<1>3. ASSUME NEW g \in Grids, CleanRemove(g)
      PROVE  TypeOK'
  <2>1. fires' \in [Grids -> SUBSET Events]
    BY <1>3 DEF CleanRemove, ZRemRangeByScore
  <2>2. CASE CleanOn(clTodo \ {g}) /\ Fault
    BY <1>3, <2>1, <2>2, CleanOnType DEF CleanRemove, Fault
  <2>3. CASE ~(CleanOn(clTodo \ {g}) /\ Fault)
    BY <1>3, <2>1, <2>3 DEF CleanRemove, ClPcs
  <2> QED
    BY <2>2, <2>3
<1>4. CASE CleanCard
  <2>1. CASE CleanOn(clTodo \ {clGrid})
    BY <1>4, <2>1, CleanOnType DEF CleanCard, Fault
  <2>2. CASE ~CleanOn(clTodo \ {clGrid})
    BY <1>4, <2>2 DEF CleanCard, ClPcs
  <2> QED
    BY <2>1, <2>2
<1>5. CASE CleanDelete
  BY <1>5 DEF CleanDelete, ClPcs, Fault
<1>6. CASE CleanUnindex
  BY <1>6 DEF CleanUnindex, ClPcs, Fault
<1>7. CASE CleanRemoveStage
  BY <1>7, CleanOnType DEF CleanRemoveStage, Stages, StageNone, StageJeonso
<1> QED
  BY <1>1, <1>2, <1>3, <1>4, <1>5, <1>6, <1>7 DEF Cleanup

LEMMA NextType == TypeOK /\ [Next]_vars => TypeOK'
<1>1. TypeOK /\ UNCHANGED vars => TypeOK'
  BY DEF TypeOK, vars
<1> QED
  BY <1>1, TickType, ArriveType, HandlerType, ProgressionType, CleanupType DEF Next

\* Type correctness: the state of Redis, of the handlers and of both engines
\* stays within the declared sets, and a cell variable is set where it is used.
THEOREM TypeCorrect == Spec => []TypeOK
<1> QED
  BY InitType, NextType, PTL DEF Spec

-------------------------------------------------------------------------------
(* Registered fires are durable.                                           *)

\* No captured time is ahead of the clock.
CutoffsPast ==
  /\ pgPc # "idle" => pgFrom <= MilliCutoff
  /\ clPc # "idle" => clNow <= now

\* An engine about to unindex a cell has no live registered fire to lose there,
\* but for those that arrived since it looked.
WindowsClean ==
  \A e \in Events \ raced : Live(e) /\ Stored(e) => ~Window(igGrid[e])

\* The scan removes only cells it has counted zero fires in.
UnindexEmptyOnly == pgPc = "srem" => pgCount = 0

DurableInv ==
  TypeOK /\ RegistrationDurable /\ CutoffsPast /\ WindowsClean /\ UnindexEmptyOnly

LEMMA DurableInit == Init => DurableInv
<1> SUFFICES ASSUME Init
             PROVE  DurableInv
  OBVIOUS
<1>1. TypeOK
  BY InitType
<1> QED
  BY <1>1 DEF Init, DurableInv, RegistrationDurable, CutoffsPast, WindowsClean,
              UnindexEmptyOnly, Stored, Tracked

\* A handler's step: the only ones that add obligations are Landing and
\* TrackActive, and they fulfil them or record a race.
LEMMA HandlerDurable ==
  ASSUME DurableInv, NEW h \in Events, Handler(h)
  PROVE  DurableInv'
<1> USE DEF DurableInv
<1>1. TypeOK'
  BY HandlerType
<1>2. /\ UNCHANGED <<now, midSecond, pgVars, clVars, expireAt>>
      /\ raced \subseteq raced'
      /\ \A g \in Grids : fires[g] \subseteq fires'[g]
      /\ activeGrids \subseteq activeGrids'
      /\ \A e \in Events \ {h} : igPc'[e] = igPc[e] /\ igGrid'[e] = igGrid[e]
  BY DEF Handler, Enter, CheckRoom, CheckSpread, Landing, TrackActive, IncrTotal,
         IncrDaily, IncrRanking, FinalCount, CommandFails, CommandResent, Write, Goto, ZAdd, RecordRace,
         TypeOK
<1>3. CutoffsPast' /\ UnindexEmptyOnly'
  BY <1>2 DEF CutoffsPast, UnindexEmptyOnly, MilliCutoff
<1>4. \A g \in Grids : Window(g)' = Window(g)
  BY <1>2 DEF Window, ProgressionWindow, CleanupWindow
<1>5. Stored(h)' =>
        \/ Stored(h) /\ igGrid'[h] = igGrid[h]
        \/ /\ Landing(h) /\ h \in fires'[igGrid[h]] /\ igGrid'[h] = igGrid[h]
           /\ h \notin raced' => ~Window(igGrid[h])
  BY DEF Handler, Enter, CheckRoom, CheckSpread, Landing, TrackActive, IncrTotal,
         IncrDaily, IncrRanking, FinalCount, CommandFails, CommandResent, Write, Goto, ZAdd, RecordRace,
         TypeOK, Stored
<1>6. Tracked(h)' => Tracked(h) \/ igGrid[h] \in activeGrids'
  BY DEF Handler, Enter, CheckRoom, CheckSpread, Landing, TrackActive, IncrTotal,
         IncrDaily, IncrRanking, FinalCount, CommandFails, CommandResent, Write, Goto, TypeOK, Tracked
<1>7. Tracked(h)' => Stored(h)'
  BY DEF Tracked, Stored
<1>8. \A e \in Events : Stored(e) => igGrid[e] \in Grids
  BY DEF Stored, TypeOK
<1>9. RegistrationDurable'
  <2> SUFFICES ASSUME NEW e \in Events, e \notin raced', Live(e)'
               PROVE  /\ Stored(e)' => e \in fires'[igGrid'[e]]
                      /\ Tracked(e)' => igGrid'[e] \in activeGrids'
    BY DEF RegistrationDurable
  <2>1. e \notin raced /\ Live(e)
    BY <1>2 DEF Live
  <2>2. CASE e = h
    BY <1>2, <1>5, <1>6, <1>7, <1>8, <2>1, <2>2 DEF RegistrationDurable
  <2>3. CASE e # h
    BY <1>2, <1>8, <2>1, <2>3 DEF RegistrationDurable, Stored, Tracked
  <2> QED
    BY <2>2, <2>3
<1>10. WindowsClean'
  <2> SUFFICES ASSUME NEW e \in Events, e \notin raced', Live(e)', Stored(e)'
               PROVE  ~Window(igGrid[e])' 
    BY DEF WindowsClean
  <2>1. e \notin raced /\ Live(e)
    BY <1>2 DEF Live
  <2>2. igGrid'[e] \in Grids
    BY <1>1 DEF Stored, TypeOK
  <2>3. ~Window(igGrid'[e])
    BY <1>2, <1>5, <2>1 DEF WindowsClean, Stored
  <2> QED
    BY <1>2, <2>2, <2>3 DEF Window, ProgressionWindow, CleanupWindow
<1> QED
  BY <1>1, <1>3, <1>9, <1>10

LEMMA ArriveDurable ==
  ASSUME DurableInv, NEW h \in Events, NEW g \in Grids, Arrive(h, g)
  PROVE  DurableInv'
<1>1. TypeOK'
  BY ArriveType DEF DurableInv
<1>2. /\ UNCHANGED <<now, midSecond, pgVars, clVars, fires, activeGrids, raced>>
      /\ \A e \in Events \ {h} : /\ igPc'[e] = igPc[e] /\ igGrid'[e] = igGrid[e]
                                 /\ expireAt'[e] = expireAt[e]
      /\ igPc'[h] = "enter"
  BY DEF DurableInv, TypeOK, Arrive, Goto
<1>3. CutoffsPast' /\ UnindexEmptyOnly'
  BY <1>2 DEF DurableInv, CutoffsPast, UnindexEmptyOnly, MilliCutoff
<1>4. RegistrationDurable' /\ WindowsClean'
  BY <1>2 DEF DurableInv, RegistrationDurable, WindowsClean, Stored, Tracked, Live,
              Window, ProgressionWindow, CleanupWindow
<1> QED
  BY <1>1, <1>3, <1>4 DEF DurableInv

LEMMA TickDurable == DurableInv /\ Tick => DurableInv'
<1> SUFFICES ASSUME DurableInv, Tick
             PROVE  DurableInv'
  OBVIOUS
<1>1. TypeOK'
  BY TickType DEF DurableInv
<1>2. now <= now' /\ MilliCutoff <= MilliCutoff'
  BY DEF DurableInv, TypeOK, Tick, MilliCutoff
<1>3. \A e \in Events : Live(e)' => Live(e)
  BY <1>2 DEF Live, Tick, DurableInv, TypeOK
<1>4. CutoffsPast' /\ UnindexEmptyOnly'
  BY <1>1, <1>2 DEF DurableInv, CutoffsPast, UnindexEmptyOnly, Tick, TypeOK,
                    MilliCutoff
<1>5. RegistrationDurable' /\ WindowsClean'
  BY <1>3 DEF DurableInv, RegistrationDurable, WindowsClean, Stored, Tracked, Tick,
              Window, ProgressionWindow, CleanupWindow
<1> QED
  BY <1>1, <1>4, <1>5 DEF DurableInv

\* The scan opens a window only on a cell with no live fire, and unindexes only
\* through the window.
LEMMA ProgressionDurable == DurableInv /\ Progression => DurableInv'
<1> SUFFICES ASSUME DurableInv, Progression
             PROVE  DurableInv'
  OBVIOUS
<1>1. TypeOK'
  BY ProgressionType DEF DurableInv
<1>2. UNCHANGED <<clock, fires, igVars, clVars, raced>>
  BY DEF Progression, ScanStart, ScanMembers, ScanCount, ScanCompare, ScanApply,
         ScanAnnounce, ScanUnindex
<1>3. \A e \in Events : Live(e)' = Live(e) /\ Stored(e)' = Stored(e)
                      /\ Tracked(e)' = Tracked(e)
  BY <1>2 DEF Live, Stored, Tracked
<1>4. \A g \in Grids : CleanupWindow(g)' = CleanupWindow(g)
  BY <1>2 DEF CleanupWindow
<1>5. \A e \in Events : Stored(e) => igGrid[e] \in Grids
  BY DEF DurableInv, TypeOK, Stored
<1>6. CutoffsPast'
  <2>1. MilliCutoff' = MilliCutoff
    BY <1>2 DEF MilliCutoff
  <2>2. pgPc' # "idle" => pgFrom' <= MilliCutoff
    BY DEF DurableInv, TypeOK, CutoffsPast, Progression, ScanStart, ScanMembers,
           ScanCount, ScanCompare, ScanApply, ScanAnnounce, ScanUnindex, ScanOn, MilliCutoff
  <2> QED
    BY <1>2, <2>1, <2>2 DEF DurableInv, CutoffsPast
<1>7. UnindexEmptyOnly'
  <2> SUFFICES ASSUME pgPc' = "srem"
               PROVE  pgCount' = 0
    BY DEF UnindexEmptyOnly
  <2>1. \/ GetStage(pgCount) = StageNone /\ pgCount' = pgCount
        \/ pgPc = "srem" /\ pgCount' = pgCount
    BY DEF Progression, ScanStart, ScanMembers, ScanCount, ScanCompare, ScanApply,
           ScanAnnounce, ScanUnindex, ScanOn
  <2> QED
    BY <2>1, StageNoneMeansEmpty DEF DurableInv, TypeOK, UnindexEmptyOnly
<1>8. ASSUME NEW g \in Grids, ProgressionWindow(g)'
      PROVE  ProgressionWindow(g) \/ (ScanCount(g) /\ ZCount(g, pgFrom) = 0)
  BY <1>8 DEF ProgressionWindow, Progression, ScanStart, ScanMembers, ScanCount,
              ScanCompare, ScanApply, ScanAnnounce, ScanUnindex, ScanOn
<1>9. WindowsClean'
  <2> SUFFICES ASSUME NEW e \in Events, e \notin raced, Live(e), Stored(e),
                      NEW g \in Grids, igGrid[e] = g, Window(g)'
               PROVE  FALSE
    BY <1>2, <1>3, <1>5 DEF WindowsClean, Window, ProgressionWindow, CleanupWindow
  <2>1. e \in fires[g]
    BY DEF DurableInv, RegistrationDurable
  <2>2. ~Window(g)
    BY DEF DurableInv, WindowsClean
  <2>3. ScanCount(g) /\ ZCount(g, pgFrom) = 0
    <3>1. ProgressionWindow(g)' \/ CleanupWindow(g)'
      BY DEF Window
    <3>2. ~ProgressionWindow(g) /\ ~CleanupWindow(g)
      BY <2>2 DEF Window
    <3>3. ~CleanupWindow(g)'
      BY <1>4, <3>2
    <3> QED
      BY <1>8, <3>1, <3>2, <3>3
  <2>4. expireAt[e] < pgFrom
    BY <2>1, <2>3, ZCountZero DEF DurableInv, TypeOK
  <2>5. pgFrom <= now + 1
    BY <2>3 DEF DurableInv, TypeOK, CutoffsPast, MilliCutoff, ScanCount
  <2> QED
    BY <2>4, <2>5 DEF DurableInv, TypeOK, Live
<1>10. RegistrationDurable'
  <2> SUFFICES ASSUME NEW e \in Events, e \notin raced, Live(e)
               PROVE  /\ Stored(e)  => e \in fires[igGrid[e]]
                      /\ Tracked(e) => igGrid[e] \in activeGrids'
    BY <1>2, <1>3 DEF RegistrationDurable
  <2>1. Stored(e) => e \in fires[igGrid[e]]
    BY DEF DurableInv, RegistrationDurable
  <2>2. ASSUME Tracked(e)
        PROVE  igGrid[e] \in activeGrids'
    <3>1. igGrid[e] \in activeGrids /\ ~Window(igGrid[e])
      BY <2>2 DEF DurableInv, RegistrationDurable, WindowsClean, Stored, Tracked
    <3>2. \/ activeGrids' = activeGrids
          \/ pgPc = "srem" /\ activeGrids' = activeGrids \ {pgGrid}
      BY DEF Progression, ScanStart, ScanMembers, ScanCount, ScanCompare, ScanApply,
             ScanAnnounce, ScanUnindex
    <3> QED
      BY <3>1, <3>2 DEF DurableInv, UnindexEmptyOnly, Window, ProgressionWindow
  <2> QED
    BY <2>1, <2>2
<1> QED
  BY <1>1, <1>6, <1>7, <1>9, <1>10 DEF DurableInv

\* The cleanup pass removes only what has expired, opens a window only on an
\* empty sorted set, and deletes and unindexes only through the window.
LEMMA CleanupDurable == DurableInv /\ Cleanup => DurableInv'
<1> SUFFICES ASSUME DurableInv, Cleanup
             PROVE  DurableInv'
  OBVIOUS
<1>1. TypeOK'
  BY CleanupType DEF DurableInv
<1>2. UNCHANGED <<clock, igVars, pgVars, raced>>
  BY DEF Cleanup, CleanStart, CleanMembers, CleanRemove, CleanCard, CleanDelete,
         CleanUnindex, CleanRemoveStage
<1>3. \A e \in Events : Live(e)' = Live(e) /\ Stored(e)' = Stored(e)
                      /\ Tracked(e)' = Tracked(e)
  BY <1>2 DEF Live, Stored, Tracked
<1>4. \A g \in Grids : ProgressionWindow(g)' = ProgressionWindow(g)
  BY <1>2 DEF ProgressionWindow
<1>5. \A e \in Events : Stored(e) => igGrid[e] \in Grids
  BY DEF DurableInv, TypeOK, Stored
<1>6. CutoffsPast' /\ UnindexEmptyOnly'
  <2>1. clPc' # "idle" => clNow' <= now
    BY DEF DurableInv, TypeOK, CutoffsPast, Cleanup, CleanStart, CleanMembers,
           CleanRemove, CleanCard, CleanDelete, CleanUnindex, CleanRemoveStage, CleanOn
  <2> QED
    BY <1>2, <2>1 DEF DurableInv, CutoffsPast, UnindexEmptyOnly, MilliCutoff
<1>7. ASSUME NEW g \in Grids, CleanupWindow(g)'
      PROVE  CleanupWindow(g) \/ fires[g] = {}
  BY <1>7 DEF CleanupWindow, Cleanup, CleanStart, CleanMembers, CleanRemove,
              CleanCard, CleanDelete, CleanUnindex, CleanRemoveStage, CleanOn
<1>8. WindowsClean'
  <2> SUFFICES ASSUME NEW e \in Events, e \notin raced, Live(e), Stored(e),
                      Window(igGrid[e])'
               PROVE  FALSE
    BY <1>2, <1>3 DEF WindowsClean
  <2>1. igGrid[e] \in Grids /\ e \in fires[igGrid[e]] /\ ~Window(igGrid[e])
    BY <1>5 DEF DurableInv, RegistrationDurable, WindowsClean
  <2>2. ProgressionWindow(igGrid[e])' \/ CleanupWindow(igGrid[e])'
    BY <1>2 DEF Window
  <2> QED
    BY <1>2, <1>4, <1>7, <2>1, <2>2 DEF Window, ProgressionWindow, CleanupWindow
<1>9. ASSUME NEW e \in Events, e \notin raced, Live(e), Stored(e)
      PROVE  e \in fires'[igGrid[e]]
  <2>1. igGrid[e] \in Grids /\ e \in fires[igGrid[e]] /\ ~Window(igGrid[e])
    BY <1>5, <1>9 DEF DurableInv, RegistrationDurable, WindowsClean
  <2>2. CASE UNCHANGED fires
    BY <2>1, <2>2
  <2>3. CASE \E g \in Grids : ZRemRangeByScore(g, clNow) /\ clPc = "zrem"
    BY <1>9, <2>1, <2>3
       DEF ZRemRangeByScore, Live, DurableInv, TypeOK, CutoffsPast
  <2>4. CASE clPc = "del" /\ fires' = [fires EXCEPT ![clGrid] = {}]
    BY <2>1, <2>4 DEF Window, CleanupWindow, DurableInv, TypeOK
  <2> QED
    BY <2>2, <2>3, <2>4
       DEF Cleanup, CleanStart, CleanMembers, CleanRemove, CleanCard, CleanDelete,
           CleanUnindex, CleanRemoveStage
<1>10. ASSUME NEW e \in Events, e \notin raced, Live(e), Tracked(e)
       PROVE  igGrid[e] \in activeGrids'
  <2>1. igGrid[e] \in activeGrids /\ ~Window(igGrid[e])
    BY <1>10 DEF DurableInv, RegistrationDurable, WindowsClean, Stored, Tracked
  <2>2. \/ activeGrids' = activeGrids
        \/ clPc = "srem" /\ activeGrids' = activeGrids \ {clGrid}
    BY DEF Cleanup, CleanStart, CleanMembers, CleanRemove, CleanCard, CleanDelete,
           CleanUnindex, CleanRemoveStage
  <2>3. ~(clPc = "srem" /\ clGrid = igGrid[e])
    BY <2>1 DEF Window, CleanupWindow
  <2> QED
    BY <2>1, <2>2, <2>3
<1>11. RegistrationDurable'
  BY <1>2, <1>3, <1>9, <1>10 DEF RegistrationDurable
<1> QED
  BY <1>1, <1>6, <1>8, <1>11 DEF DurableInv

LEMMA NextDurable == DurableInv /\ [Next]_vars => DurableInv'
<1>1. DurableInv /\ UNCHANGED vars => DurableInv'
  BY DEF vars, DurableInv, TypeOK, RegistrationDurable, CutoffsPast, WindowsClean,
         UnindexEmptyOnly, Live, Stored, Tracked, Window, ProgressionWindow,
         CleanupWindow, MilliCutoff
<1> QED
  BY <1>1, TickDurable, ArriveDurable, HandlerDurable, ProgressionDurable,
     CleanupDurable DEF Next

\* A fire that was registered, has not expired and did not arrive inside an
\* engine's check-then-remove window is in its sorted set and in the index,
\* for every interleaving and every failing command.
THEOREM FiresDurable == Spec => []RegistrationDurable
<1>3. DurableInv => RegistrationDurable
  BY DEF DurableInv
<1> QED
  BY DurableInit, NextDurable, <1>3, PTL DEF Spec

===============================================================================
