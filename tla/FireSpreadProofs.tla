---------------------------- MODULE FireSpreadProofs ----------------------------
(***************************************************************************)
(* The spread threshold under concurrency: how far handlers that check a   *)
(* cell before they write to it can overfill it; the stages announced     *)
(* one after the other; the count in an acknowledgement; and the           *)
(* statistics against the fires.  For every number of cells, fires and     *)
(* failing Redis commands.                                                 *)
(***************************************************************************)
EXTENDS FireLifecycleProofs

USE DEF clock, stats, igVars, pgVars, clVars

\* The fires that count against the limit of g: burning there, or on their way
\* to its sorted set after a check; not the ones that land there by force.
Claims(g) ==
  {e \in Events : /\ ~Forced(e)
                  /\ \/ e \in fires[g] /\ Live(e)
                     \/ igPc[e] = "zadd" /\ igGrid[e] = g}

ClaimsBounded ==
  \A g \in Grids : Cardinality(Claims(g)) <= Threshold - 1 + MaxInFlight

InFlightBounded == Cardinality(InFlight) <= MaxInFlight

\* A handler reads its clock before it counts, and writes only after it counted.
CountsPast == \A e \in Events : igNow[e] <= now
Unlit ==
  \A e \in Events, g \in Grids :
    igPc[e] \in {"idle", "enter", "check"} => e \notin fires[g]

OvershootInv == TypeOK /\ InFlightBounded /\ CountsPast /\ Unlit /\ ClaimsBounded

\* A union has at most as many elements as its parts together.
LEMMA UnionBound ==
  ASSUME NEW S, IsFiniteSet(S), NEW T, IsFiniteSet(T)
  PROVE  /\ IsFiniteSet(S \cup T) /\ Cardinality(S \cup T) \in Nat
         /\ Cardinality(S \cup T) <= Cardinality(S) + Cardinality(T)
<1>1. IsFiniteSet(S \cap T)
  BY FS_Subset
<1>2. /\ Cardinality(S) \in Nat /\ Cardinality(T) \in Nat
      /\ Cardinality(S \cap T) \in Nat
  BY <1>1, FS_CardinalityType
<1>3. /\ IsFiniteSet(S \cup T)
      /\ Cardinality(S \cup T)
           = Cardinality(S) + Cardinality(T) - Cardinality(S \cap T)
  BY FS_Union
<1>4. Cardinality(S \cup T) \in Nat
  BY <1>3, FS_CardinalityType
<1> QED
  BY <1>2, <1>3, <1>4

\* The sets the bound speaks of are finite.
LEMMA ClaimsFinite ==
  /\ IsFiniteSet(InFlight) /\ Cardinality(InFlight) \in Nat
  /\ \A g \in Grids : IsFiniteSet(Claims(g)) /\ Cardinality(Claims(g)) \in Nat
  /\ \A g \in Grids : \A S \in SUBSET Claims(g) : Cardinality(S) <= Cardinality(Claims(g))
<1>1. InFlight \in SUBSET Events /\ \A g \in Grids : Claims(g) \in SUBSET Events
  BY DEF InFlight, Claims
<1>2. IsFiniteSet(InFlight) /\ \A g \in Grids : IsFiniteSet(Claims(g))
  BY <1>1, ConstantsAssumption, FS_Subset
<1> QED
  BY <1>2, FS_CardinalityType, FS_Subset

\* Where no step adds a claim or a handler, both bounds are kept.
LEMMA FewerClaims ==
  ASSUME ClaimsBounded, InFlightBounded,
         \A g \in Grids : Claims(g)' \subseteq Claims(g),
         InFlight' \subseteq InFlight
  PROVE  ClaimsBounded' /\ InFlightBounded'
<1>1. ClaimsBounded'
  <2> SUFFICES ASSUME NEW g \in Grids
               PROVE  Cardinality(Claims(g))' <= Threshold - 1 + MaxInFlight
    BY DEF ClaimsBounded
  <2>1. Cardinality(Claims(g)') <= Cardinality(Claims(g))
    BY ClaimsFinite
  <2>2. Cardinality(Claims(g)') \in Nat /\ Cardinality(Claims(g)) \in Nat
    <3>1. IsFiniteSet(Claims(g)')
      BY ClaimsFinite, FS_Subset
    <3> QED
      BY <3>1, ClaimsFinite, FS_CardinalityType
  <2> QED
    BY <2>1, <2>2, ConstantsAssumption DEF ClaimsBounded
<1>2. InFlightBounded'
  <2>1. IsFiniteSet(InFlight') /\ Cardinality(InFlight') <= Cardinality(InFlight)
    BY ClaimsFinite, FS_Subset
  <2>2. Cardinality(InFlight') \in Nat
    BY <2>1, FS_CardinalityType
  <2> QED
    BY <2>1, <2>2, ClaimsFinite, ConstantsAssumption DEF InFlightBounded
<1> QED
  BY <1>1, <1>2

LEMMA OvershootInit == Init => OvershootInv
<1> SUFFICES ASSUME Init
             PROVE  OvershootInv
  OBVIOUS
<1>1. TypeOK
  BY InitType
<1>2. InFlight = {} /\ \A g \in Grids : Claims(g) = {}
  BY DEF Init, InFlight, Claims
<1>3. CountsPast /\ Unlit
  BY DEF Init, CountsPast, Unlit
<1> QED
  BY <1>1, <1>2, <1>3, FS_EmptySet, ConstantsAssumption
     DEF OvershootInv, ClaimsBounded, InFlightBounded

\* The check: e lands in g only if fewer than Threshold unexpired fires are in
\* its sorted set, and every other claim on g is a handler in flight.
LEMMA CheckRoomBounded ==
  ASSUME OvershootInv, NEW e \in Events, CheckRoom(e)
  PROVE  ClaimsBounded'
<1> SUFFICES ASSUME NEW g \in Grids
             PROVE  Cardinality(Claims(g))' <= Threshold - 1 + MaxInFlight
  BY DEF ClaimsBounded
<1>1. UNCHANGED <<now, fires, expireAt, igGrid, igHops>>
      /\ igPc' = [igPc EXCEPT ![e] = "zadd"] /\ igPc[e] = "check"
  BY DEF CheckRoom, Goto
<1>2. CASE igGrid[e] # g
  <2>1. Claims(g)' \subseteq Claims(g)
    BY <1>1, <1>2 DEF Claims, Forced, Live, OvershootInv, TypeOK
  <2> QED
    <3>1. IsFiniteSet(Claims(g)') /\ Cardinality(Claims(g)') <= Cardinality(Claims(g))
      BY <2>1, ClaimsFinite, FS_Subset
    <3>2. Cardinality(Claims(g)') \in Nat /\ Cardinality(Claims(g)) \in Nat
      BY <3>1, ClaimsFinite, FS_CardinalityType
    <3> QED
      BY <3>1, <3>2, ConstantsAssumption DEF OvershootInv, ClaimsBounded
<1>3. CASE igGrid[e] = g
  <2> DEFINE A == {f \in fires[g] : expireAt[f] >= igNow[e]}
  <2>1. IsFiniteSet(A) /\ Cardinality(A) \in Nat /\ Cardinality(A) <= Threshold - 1
    <3>1. A \in SUBSET Events
      BY DEF OvershootInv, TypeOK
    <3>2. IsFiniteSet(A)
      BY <3>1, ConstantsAssumption, FS_Subset
    <3>3. Cardinality(A) \in Nat
      BY <3>2, FS_CardinalityType
    <3>4. Cardinality(A) < Threshold
      BY <1>3 DEF CheckRoom, ZCount
    <3> QED
      BY <3>2, <3>3, <3>4, ConstantsAssumption
  <2>2. IsFiniteSet(InFlight) /\ Cardinality(InFlight) \in Nat
        /\ Cardinality(InFlight) <= MaxInFlight
    BY ClaimsFinite DEF OvershootInv, InFlightBounded
  <2>3. Claims(g)' \subseteq A \cup InFlight
    <3> SUFFICES ASSUME NEW f \in Events, f \in Claims(g)', f \notin InFlight
                 PROVE  f \in A
      BY DEF Claims
    <3>1. f # e
      BY <1>1 DEF InFlight
    <3>2. igPc'[f] = igPc[f] /\ igPc[f] # "zadd"
      BY <1>1, <3>1 DEF InFlight, OvershootInv, TypeOK
    <3>3. f \in fires[g] /\ expireAt[f] > now
      BY <1>1, <3>2 DEF Claims, Live
    <3> QED
      BY <3>3 DEF OvershootInv, CountsPast, TypeOK
  <2>4. IsFiniteSet(A \cup InFlight)
        /\ Cardinality(A \cup InFlight) <= Threshold - 1 + MaxInFlight
    <3>1. Cardinality(A \cup InFlight) <= Cardinality(A) + Cardinality(InFlight)
      BY <2>1, <2>2, UnionBound
    <3>2. IsFiniteSet(A \cup InFlight) /\ Cardinality(A \cup InFlight) \in Nat
      BY <2>1, <2>2, UnionBound
    <3> QED
      BY <2>1, <2>2, <3>1, <3>2, ConstantsAssumption
  <2>5. IsFiniteSet(Claims(g)')
        /\ Cardinality(Claims(g)') <= Cardinality(A \cup InFlight)
    BY <2>3, <2>4, FS_Subset
  <2>6. Cardinality(Claims(g)') \in Nat /\ Cardinality(A \cup InFlight) \in Nat
    BY <2>4, <2>5, FS_CardinalityType
  <2> QED
    BY <2>4, <2>5, <2>6, ConstantsAssumption
<1> QED
  BY <1>2, <1>3

LEMMA HandlerBounded ==
  ASSUME OvershootInv, NEW e \in Events, Handler(e)
  PROVE  OvershootInv'
<1>1. TypeOK'
  BY HandlerType DEF OvershootInv
<1>2. /\ UNCHANGED <<now, expireAt>>
      /\ \A f \in Events \ {e} : /\ igPc'[f] = igPc[f] /\ igGrid'[f] = igGrid[f]
                                 /\ igHops'[f] = igHops[f] /\ igNow'[f] = igNow[f]
      /\ igNow'[e] \in {igNow[e], now}
      /\ igPc[e] \notin {"idle", "done", "failed"} /\ igPc'[e] # "idle"
  BY DEF Handler, Enter, CheckRoom, CheckSpread, Landing, TrackActive, IncrTotal,
         IncrDaily, IncrRanking, FinalCount, CommandFails, CommandResent, Write, Goto,
         OvershootInv, TypeOK
<1>3. CountsPast'
  BY <1>2 DEF CountsPast, OvershootInv, TypeOK
<1>4. InFlight' \subseteq InFlight
  BY <1>2 DEF InFlight
<1>5. \A g \in Grids : \/ fires'[g] = fires[g]
                       \/ /\ fires'[g] = fires[g] \cup {e}
                          /\ igPc[e] = "zadd" /\ igGrid[e] = g /\ igHops'[e] = igHops[e]
                          /\ igPc'[e] # "enter" /\ igPc'[e] # "check"
  BY DEF Handler, Enter, CheckRoom, CheckSpread, Landing, TrackActive, IncrTotal,
         IncrDaily, IncrRanking, FinalCount, CommandFails, CommandResent, Write, Goto,
         ZAdd, OvershootInv, TypeOK
<1>6. igPc'[e] \in {"enter", "check"} => igPc[e] \in {"enter", "check"}
  BY DEF Handler, Enter, CheckRoom, CheckSpread, Landing, TrackActive, IncrTotal,
         IncrDaily, IncrRanking, FinalCount, CommandFails, CommandResent, Goto,
         OvershootInv, TypeOK
<1>7. Unlit'
  BY <1>2, <1>5, <1>6 DEF Unlit, OvershootInv
<1>8. CASE CheckRoom(e)
  <2>1. InFlightBounded'
    <3>1. IsFiniteSet(InFlight') /\ Cardinality(InFlight') <= Cardinality(InFlight)
      BY <1>4, ClaimsFinite, FS_Subset
    <3>2. Cardinality(InFlight') \in Nat
      BY <3>1, FS_CardinalityType
    <3> QED
      BY <3>1, <3>2, ClaimsFinite, ConstantsAssumption DEF OvershootInv, InFlightBounded
  <2> QED
    BY <1>1, <1>3, <1>7, <1>8, <2>1, CheckRoomBounded DEF OvershootInv
<1>9. CASE ~CheckRoom(e)
  <2>1. /\ igPc'[e] = "zadd" => \/ igPc[e] = "zadd" /\ igGrid'[e] = igGrid[e]
                                \/ igHops'[e] = MaxDepth
        /\ igHops'[e] = igHops[e] \/ igPc[e] = "check"
    BY <1>9 DEF Handler, Enter, CheckSpread, Landing, TrackActive, IncrTotal,
           IncrDaily, IncrRanking, FinalCount, CommandFails, CommandResent, Goto,
           OvershootInv, TypeOK
  <2>2. \A g \in Grids : Claims(g)' \subseteq Claims(g)
    <3> SUFFICES ASSUME NEW g \in Grids, NEW f \in Events, f \in Claims(g)'
                 PROVE  f \in Claims(g)
      BY DEF Claims
    <3>1. CASE f # e
      BY <1>2, <1>5, <3>1 DEF Claims, Forced, Live
    <3>2. CASE f = e
      BY <1>2, <1>5, <2>1, <3>2 DEF Claims, Forced, Live, Unlit, OvershootInv
    <3> QED
      BY <3>1, <3>2
  <2> QED
    BY <1>1, <1>3, <1>4, <1>7, <2>2, FewerClaims DEF OvershootInv
<1> QED
  BY <1>8, <1>9

LEMMA ArriveBounded ==
  ASSUME OvershootInv, NEW e \in Events, NEW c \in Grids, Arrive(e, c)
  PROVE  OvershootInv'
<1>1. TypeOK'
  BY ArriveType DEF OvershootInv
<1>2. /\ UNCHANGED <<now, fires, igHops, igNow>>
      /\ igPc[e] = "idle" /\ igPc' = [igPc EXCEPT ![e] = "enter"]
      /\ \A f \in Events \ {e} : igGrid'[f] = igGrid[f] /\ expireAt'[f] = expireAt[f]
  BY DEF Arrive, Goto, OvershootInv, TypeOK
<1>3. CountsPast' /\ Unlit'
  BY <1>2 DEF CountsPast, Unlit, OvershootInv, TypeOK
<1>4. \A g \in Grids : Claims(g)' \subseteq Claims(g)
  BY <1>2 DEF Claims, Forced, Live, Unlit, OvershootInv, TypeOK
<1>5. ClaimsBounded'
  <2> SUFFICES ASSUME NEW g \in Grids
               PROVE  Cardinality(Claims(g))' <= Threshold - 1 + MaxInFlight
    BY DEF ClaimsBounded
  <2>1. IsFiniteSet(Claims(g)') /\ Cardinality(Claims(g)') <= Cardinality(Claims(g))
    BY <1>4, ClaimsFinite, FS_Subset
  <2>2. Cardinality(Claims(g)') \in Nat /\ Cardinality(Claims(g)) \in Nat
    BY <2>1, ClaimsFinite, FS_CardinalityType
  <2> QED
    BY <2>1, <2>2, ConstantsAssumption DEF OvershootInv, ClaimsBounded
<1>6. InFlightBounded'
  <2>1. InFlight' = InFlight \cup {e} /\ e \notin InFlight
    BY <1>2 DEF InFlight, OvershootInv, TypeOK
  <2>2. Cardinality(InFlight') = Cardinality(InFlight) + 1
    BY <2>1, ClaimsFinite, FS_AddElement
  <2> QED
    BY <2>2, ClaimsFinite, ConstantsAssumption DEF Arrive, InFlightBounded
<1> QED
  BY <1>1, <1>3, <1>5, <1>6 DEF OvershootInv

\* Time and the engines only take claims away.
LEMMA RestBounded ==
  ASSUME OvershootInv, Tick \/ Progression \/ Cleanup
  PROVE  OvershootInv'
<1>1. TypeOK'
  BY TickType, ProgressionType, CleanupType DEF OvershootInv
<1>2. /\ UNCHANGED igVars /\ now <= now' /\ now' \in Nat
      /\ \A g \in Grids : fires'[g] \subseteq fires[g]
  <2>1. CASE Tick
    BY <2>1 DEF Tick, OvershootInv, TypeOK
  <2>2. CASE Progression
    <3>1. UNCHANGED <<now, fires, igVars>>
      BY <2>2 DEF Progression, ScanStart, ScanMembers, ScanCount, ScanCompare,
             ScanApply, ScanAnnounce, ScanUnindex
    <3> QED
      BY <3>1 DEF OvershootInv, TypeOK
  <2>3. CASE Cleanup
    <3>1. UNCHANGED <<now, igVars>>
      BY <2>3 DEF Cleanup, CleanStart, CleanMembers, CleanRemove, CleanCard,
             CleanDelete, CleanUnindex, CleanRemoveStage
    <3>2. \/ UNCHANGED fires
          \/ \E g \in Grids : ZRemRangeByScore(g, clNow)
          \/ fires' = [fires EXCEPT ![clGrid] = {}]
      BY <2>3 DEF Cleanup, CleanStart, CleanMembers, CleanRemove, CleanCard,
             CleanDelete, CleanUnindex, CleanRemoveStage
    <3>3. \A g \in Grids : fires'[g] \subseteq fires[g]
      BY <3>2 DEF ZRemRangeByScore, OvershootInv, TypeOK
    <3> QED
      BY <3>1, <3>3 DEF OvershootInv, TypeOK
  <2> QED
    BY <2>1, <2>2, <2>3
<1>3. CountsPast' /\ Unlit'
  BY <1>2 DEF CountsPast, Unlit, OvershootInv, TypeOK
<1>4. InFlight' \subseteq InFlight /\ \A g \in Grids : Claims(g)' \subseteq Claims(g)
  BY <1>2 DEF InFlight, Claims, Forced, Live, OvershootInv, TypeOK
<1> QED
  BY <1>1, <1>3, <1>4, FewerClaims DEF OvershootInv

LEMMA NextBounded == OvershootInv /\ [Next]_vars => OvershootInv'
<1>1. OvershootInv /\ UNCHANGED vars => OvershootInv'
  BY DEF vars, OvershootInv, TypeOK, InFlightBounded, CountsPast, Unlit,
         ClaimsBounded, InFlight, Claims, Forced, Live
<1> QED
  BY <1>1, HandlerBounded, ArriveBounded, RestBounded DEF Next

\* However many handlers fill a cell at once, from whichever cells the fires
\* spread, the burning fires that were let in by a check stay below the
\* threshold plus the number of handlers that can run at the same time.
THEOREM OvershootIsBounded == Spec => []OvershootBounded
<1>3. OvershootInv => OvershootBounded
  <2> SUFFICES ASSUME OvershootInv, NEW g \in Grids
               PROVE  Cardinality({e \in LiveIn(g) : ~Forced(e)})
                        <= Threshold - 1 + MaxInFlight
    BY DEF OvershootBounded
  <2>1. {e \in LiveIn(g) : ~Forced(e)} \in SUBSET Claims(g)
    BY DEF LiveIn, Claims, OvershootInv, TypeOK
  <2>2. /\ IsFiniteSet({e \in LiveIn(g) : ~Forced(e)})
        /\ Cardinality({e \in LiveIn(g) : ~Forced(e)}) <= Cardinality(Claims(g))
    BY <2>1, ClaimsFinite, FS_Subset
  <2>3. Cardinality({e \in LiveIn(g) : ~Forced(e)}) \in Nat
    BY <2>2, FS_CardinalityType
  <2> QED
    BY <2>2, <2>3, ClaimsFinite, ConstantsAssumption DEF OvershootInv, ClaimsBounded
<1> QED
  BY OvershootInit, NextBounded, <1>3, PTL DEF Spec

-------------------------------------------------------------------------------
\* The scan is between its write to the table and the broadcast for g.
Announcing(g) == pgPc = "announce" /\ pgGrid = g

\* Between its rounds the table holds what was announced last, or nothing where
\* the cleanup dropped the entry since.
TableTold ==
  \A g \in Grids : ~Announcing(g) =>
    \/ gridStages[g] = announced[g]
    \/ gridStages[g] = StageNone /\ g \in forgotten

\* The transition under way: where it starts, and what its write left behind.
TransitionStart ==
  pgPc \in {"apply", "announce"} =>
    /\ pgPrev # GetStage(pgCount)
    /\ \/ pgPrev = announced[pgGrid]
       \/ pgPrev = StageNone /\ pgGrid \in forgotten

WriteStands ==
  pgPc = "announce" =>
    \/ gridStages[pgGrid] = GetStage(pgCount)
    \/ gridStages[pgGrid] = StageNone /\ pgGrid \in forgotten

ChainInv == TypeOK /\ TableTold /\ TransitionStart /\ WriteStands

\* The scan's own steps.
LEMMA ProgressionChained == ChainInv /\ Progression => ChainInv'
<1> SUFFICES ASSUME ChainInv, Progression
             PROVE  ChainInv'
  OBVIOUS
<1>1. TypeOK'
  BY ProgressionType DEF ChainInv
<1> USE DEF ChainInv, TypeOK
<1>2. CASE ScanCompare
  BY <1>1, <1>2 DEF ScanCompare, ScanOn, TableTold, TransitionStart, WriteStands,
                    Announcing
<1>3. CASE ScanApply
  BY <1>1, <1>3, GetStageSpec DEF ScanApply, TableTold, TransitionStart, WriteStands,
                                  Announcing
<1>4. CASE ScanAnnounce
  <2>1. pgPc' \notin {"apply", "announce"}
    BY <1>4 DEF ScanAnnounce, ScanOn
  <2>2. TableTold'
    BY <1>4, <2>1, GetStageSpec DEF ScanAnnounce, TableTold, WriteStands, Announcing
  <2> QED
    BY <1>1, <2>1, <2>2 DEF TransitionStart, WriteStands
<1>5. CASE \/ ScanStart \/ ScanMembers \/ (\E g \in Grids : ScanCount(g))
           \/ ScanUnindex
  <2>1. UNCHANGED <<gridStages, announced, forgotten>>
    BY <1>5 DEF ScanStart, ScanMembers, ScanCount, ScanUnindex
  <2>2. pgPc # "announce" /\ pgPc' \notin {"apply", "announce"}
    BY <1>5 DEF ScanStart, ScanMembers, ScanCount, ScanUnindex, ScanOn
  <2> QED
    BY <1>1, <2>1, <2>2 DEF TableTold, TransitionStart, WriteStands, Announcing
<1> QED
  BY <1>2, <1>3, <1>4, <1>5 DEF Progression

\* Everyone else leaves the scan alone, and only the cleanup touches its table.
LEMMA OthersChained ==
  ASSUME ChainInv, TypeOK',
         \/ Tick \/ Cleanup \/ UNCHANGED vars
         \/ \E e \in Events : Handler(e) \/ \E g \in Grids : Arrive(e, g)
  PROVE  ChainInv'
<1>1. CASE CleanRemoveStage
  BY <1>1 DEF CleanRemoveStage, ChainInv, TypeOK, TableTold, TransitionStart,
              WriteStands, Announcing
<1>2. CASE UNCHANGED <<pgVars, gridStages, announced, forgotten>>
  BY <1>2 DEF ChainInv, TableTold, TransitionStart, WriteStands, Announcing
<1>3. CASE \E e \in Events : Handler(e) \/ \E g \in Grids : Arrive(e, g)
  <2>1. UNCHANGED <<pgVars, gridStages, announced, forgotten>>
    BY <1>3 DEF Arrive, Handler, Enter, CheckRoom, CheckSpread, Landing, TrackActive,
                IncrTotal, IncrDaily, IncrRanking, FinalCount, CommandFails,
                CommandResent
  <2> QED
    BY <1>2, <2>1
<1> QED
  BY <1>1, <1>2, <1>3 DEF Tick, Cleanup, CleanStart, CleanMembers, CleanRemove,
                          CleanCard, CleanDelete, CleanUnindex, vars

\* However the scan and the cleanup interleave, in however many cells: the stages
\* announced for a cell form a chain, each transition starting where the one before
\* it ended, except where the cleanup has dropped the cell from the table.
\* (fire_progression.go:204-213 against cleanup.go:205-208.)
THEOREM TransitionsChained == Spec => TransitionsChain
<1> DEFINE Chain == pgPc = "announce" /\ pgPc' # "announce" =>
                      \/ pgPrev = announced[pgGrid] /\ announced'[pgGrid] # pgPrev
                      \/ pgPrev = StageNone /\ pgGrid \in forgotten
<1>1. Init => ChainInv
  BY InitType DEF Init, ChainInv, TableTold, TransitionStart, WriteStands
<1>2. ChainInv /\ [Next]_vars => ChainInv'
  <2>1. ChainInv /\ [Next]_vars => TypeOK'
    BY NextType DEF ChainInv
  <2> QED
    BY <2>1, ProgressionChained, OthersChained DEF Next
<1>3. ChainInv /\ [Next]_vars => [Chain]_vars
  <2> SUFFICES ASSUME ChainInv, Next, pgPc = "announce", pgPc' # "announce"
               PROVE  \/ pgPrev = announced[pgGrid] /\ announced'[pgGrid] # pgPrev
                      \/ pgPrev = StageNone /\ pgGrid \in forgotten
    BY DEF vars
  <2>1. Progression
    BY DEF Next, Tick, Arrive, Handler, Enter, CheckRoom, CheckSpread, Landing,
           TrackActive, IncrTotal, IncrDaily, IncrRanking, FinalCount, CommandFails,
           CommandResent, Cleanup, CleanStart, CleanMembers, CleanRemove, CleanCard,
           CleanDelete, CleanUnindex, CleanRemoveStage
  <2>2. announced' = [announced EXCEPT ![pgGrid] = GetStage(pgCount)]
    BY <2>1 DEF Progression, ScanStart, ScanMembers, ScanCount, ScanCompare, ScanApply,
                ScanAnnounce, ScanUnindex
  <2>3. announced'[pgGrid] = GetStage(pgCount)
    BY <2>2 DEF ChainInv, TypeOK
  <2> QED
    BY <2>3 DEF ChainInv, TransitionStart
<1> QED
  BY <1>1, <1>2, <1>3, PTL DEF Spec, TransitionsChain

-------------------------------------------------------------------------------
\* The count in an acknowledgement is at least one while its fire burns: the fire is
\* in the cell that is counted, and its handler read the clock before the fire could
\* expire.  (fire_ignite.go:323-335.)
THEOREM AckCountsOwnFire == Spec => AckSeesOwnFire
<1> DEFINE Sees == \A e \in Events :
             igPc[e] = "final" /\ igPc'[e] = "done" /\ Live(e) /\ e \notin raced
               => igCount'[e] > 0
<1>1. DurableInv /\ CountsPast /\ [Next]_vars => [Sees]_vars
  <2> SUFFICES ASSUME DurableInv, CountsPast, Next, NEW e \in Events,
                      igPc[e] = "final", igPc'[e] = "done", Live(e), e \notin raced
               PROVE  igCount'[e] > 0
    BY DEF vars
  <2>1. FinalCount(e)
    <3>1. \E h \in Events : Handler(h)
      BY DEF Next, Tick, Arrive, Goto, Progression, ScanStart, ScanMembers, ScanCount,
             ScanCompare, ScanApply, ScanAnnounce, ScanUnindex, Cleanup, CleanStart, CleanMembers,
             CleanRemove, CleanCard, CleanDelete, CleanUnindex, CleanRemoveStage,
             DurableInv, TypeOK
    <3>2. PICK h \in Events : Handler(h)
      BY <3>1
    <3>3. h = e
      BY <3>2 DEF Handler, Enter, CheckRoom, CheckSpread, Landing, TrackActive, IncrTotal,
             IncrDaily, IncrRanking, FinalCount, CommandFails, CommandResent, Goto,
             DurableInv, TypeOK
    <3> QED
      BY <3>2, <3>3 DEF Handler, Enter, CheckRoom, CheckSpread, Landing, TrackActive,
             IncrTotal, IncrDaily, IncrRanking, CommandFails, CommandResent, Goto,
             DurableInv, TypeOK
  <2>2. igGrid[e] \in Grids /\ igNow[e] \in Nat /\ expireAt[e] \in Nat /\ now \in Nat
    BY DEF DurableInv, TypeOK
  <2>3. e \in fires[igGrid[e]]
    BY DEF DurableInv, RegistrationDurable, Stored
  <2>4. expireAt[e] >= igNow[e]
    BY <2>2 DEF Live, CountsPast
  <2>5. ZCount(igGrid[e], igNow[e]) # 0
    BY <2>2, <2>3, <2>4, ZCountZero DEF DurableInv
  <2>6. ZCount(igGrid[e], igNow[e]) \in Nat
    BY <2>2, ZCountType DEF DurableInv
  <2>7. igCount'[e] = ZCount(igGrid[e], igNow[e])
    BY <2>1 DEF FinalCount, DurableInv, TypeOK
  <2> QED
    BY <2>5, <2>6, <2>7
<1>2. OvershootInv => CountsPast
  BY DEF OvershootInv
<1> QED
  BY <1>1, <1>2, DurableInit, NextDurable, OvershootInit, NextBounded, PTL
     DEF Spec, AckSeesOwnFire

-------------------------------------------------------------------------------
(* The counters.                                                           *)

Past(pcs) == {e \in Events : igPc[e] \in pcs}

\* The handlers past each of the three increments; with those that failed, which may
\* have been past it.
AfterTotal == {"incrDaily", "zincrby", "final", "done"}
AfterDaily == {"zincrby", "final", "done"}
AfterRank  == {"final", "done"}

\* A counter between its handlers and its handlers with the failed and the resent.
\* The error of the ranking is ignored, so that a failure may also lose one there.
Between(n, after, lost) ==
  /\ Cardinality(Past(after)) <= n + lost
  /\ n <= Cardinality(Past(after \cup {"failed"})) + (MaxFaults - faults)

StatsInv ==
  /\ TypeOK /\ faults <= MaxFaults
  /\ Between(totalFires, AfterTotal, 0)
  /\ Between(dailyFires, AfterDaily, 0)
  /\ Between(ranked, AfterRank, MaxFaults - faults)

LEMMA PastFinite ==
  ASSUME NEW S \in SUBSET Events
  PROVE  /\ IsFiniteSet(S) /\ Cardinality(S) \in Nat
         /\ \A T \in SUBSET S : Cardinality(T) <= Cardinality(S)
<1>1. IsFiniteSet(S)
  BY ConstantsAssumption, FS_Subset
<1> QED
  BY <1>1, FS_CardinalityType, FS_Subset

\* One more handler past an increment, or one failure more, pays for a counter that
\* was raised; and a counter that was raised, or a failure, for one more handler.
LEMMA UpperKept ==
  ASSUME NEW S \in SUBSET Events, NEW T \in SUBSET Events, S \subseteq T,
         NEW h, NEW n \in Nat, NEW m \in Nat, NEW d \in Nat, NEW f \in Nat,
         n <= Cardinality(S) + d, d <= f,
         m = n \/ m = n + 1,
         m = n + 1 => (h \in T \ S) \/ (f = d + 1)
  PROVE  m <= Cardinality(T) + f
<1>1. Cardinality(S) \in Nat /\ Cardinality(T) \in Nat /\ Cardinality(S) <= Cardinality(T)
  BY PastFinite
<1>2. CASE m = n \/ f = d + 1
  BY <1>1, <1>2
<1>3. CASE m = n + 1 /\ h \in T \ S
  <2>1. Cardinality(S \cup {h}) = Cardinality(S) + 1
    BY <1>3, PastFinite, FS_AddElement
  <2>2. S \cup {h} \in SUBSET T
    BY <1>3
  <2>3. Cardinality(S \cup {h}) <= Cardinality(T)
    BY <2>2, PastFinite
  <2> QED
    BY <1>1, <1>3, <2>1, <2>3
<1> QED
  BY <1>2, <1>3

LEMMA LowerKept ==
  ASSUME NEW S \in SUBSET Events, NEW T \in SUBSET Events,
         NEW h \in Events, NEW n \in Nat, NEW m \in Nat, NEW d \in Nat, NEW f \in Nat,
         Cardinality(S) <= n + d, n <= m, d <= f,
         T \subseteq S \cup {h}, (T \subseteq S) \/ (m = n + 1) \/ (f = d + 1)
  PROVE  Cardinality(T) <= m + f
<1>1. Cardinality(S) \in Nat /\ Cardinality(T) \in Nat
  BY PastFinite
<1>2. CASE T \subseteq S
  <2>1. Cardinality(T) <= Cardinality(S)
    BY <1>2, PastFinite
  <2> QED
    BY <1>1, <2>1
<1>3. CASE m = n + 1 \/ f = d + 1
  <2>1. S \cup {h} \in SUBSET Events
    OBVIOUS
  <2>2. Cardinality(T) <= Cardinality(S \cup {h}) /\ Cardinality(S \cup {h}) \in Nat
    BY <2>1, PastFinite
  <2>3. Cardinality(S \cup {h}) <= Cardinality(S) + 1
    BY <1>1, PastFinite, FS_AddElement
  <2> QED
    BY <1>1, <1>3, <2>2, <2>3
<1> QED
  BY <1>2, <1>3

\* What a handler's step does to one counter n and the handlers past its increment.
Counted(n, m, after, h, lossy) ==
  /\ Past(after)' \subseteq Past(after) \cup {h}
  /\ Past(after \cup {"failed"}) \subseteq Past(after \cup {"failed"})'
  /\ \/ m = n /\ Past(after)' \subseteq Past(after)
     \/ m = n /\ lossy /\ faults' = faults - 1
     \/ /\ m = n + 1
        /\ \/ h \in Past(after \cup {"failed"})' \ Past(after \cup {"failed"})
           \/ faults' = faults - 1

LEMMA HandlerCounts ==
  ASSUME TypeOK, NEW h \in Events, Handler(h)
  PROVE  /\ faults' \in {faults, faults - 1}
         /\ Counted(totalFires, totalFires', AfterTotal, h, FALSE)
         /\ Counted(dailyFires, dailyFires', AfterDaily, h, FALSE)
         /\ Counted(ranked, ranked', AfterRank, h, TRUE)
<1> USE DEF TypeOK, Counted, Past, AfterTotal, AfterDaily, AfterRank, Goto, Fault
<1>1. CASE Enter(h) \/ CheckRoom(h) \/ CheckSpread(h)
  BY <1>1 DEF Enter, CheckRoom, CheckSpread
<1>2. CASE Landing(h) \/ TrackActive(h) \/ FinalCount(h)
  BY <1>2 DEF Landing, TrackActive, FinalCount
<1>3. CASE IncrTotal(h)
  BY <1>3 DEF IncrTotal
<1>4. CASE IncrDaily(h)
  BY <1>4 DEF IncrDaily
<1>5. CASE IncrRanking(h)
  BY <1>5 DEF IncrRanking
<1>6. CASE CommandFails(h)
  BY <1>6 DEF CommandFails, Write
<1>7. CASE CommandResent(h)
  BY <1>7 DEF CommandResent, Write
<1> QED
  BY <1>1, <1>2, <1>3, <1>4, <1>5, <1>6, <1>7 DEF Handler

LEMMA BetweenKept ==
  ASSUME NEW h \in Events, NEW n \in Nat, NEW m \in Nat, NEW after, NEW lossy \in BOOLEAN,
         faults \in Nat, faults' \in Nat, faults <= MaxFaults,
         faults' \in {faults, faults - 1},
         Between(n, after, IF lossy THEN MaxFaults - faults ELSE 0),
         Counted(n, m, after, h, lossy)
  PROVE  /\ Cardinality(Past(after)') <= m + (IF lossy THEN MaxFaults - faults' ELSE 0)
         /\ m <= Cardinality(Past(after \cup {"failed"})') + (MaxFaults - faults')
<1> DEFINE d == MaxFaults - faults
           f == MaxFaults - faults'
<1>1. d \in Nat /\ f \in Nat /\ d <= f /\ (faults' = faults - 1 => f = d + 1)
  <2>1. MaxFaults \in Nat
    BY ConstantsAssumption
  <2>2. \A a, b, c \in Nat : a <= c /\ b \in {a, a - 1} =>
           /\ c - a \in Nat /\ c - b \in Nat /\ c - a <= c - b
           /\ (b = a - 1 => c - b = c - a + 1)
    OBVIOUS
  <2> QED
    BY <2>1, <2>2
<1>2. /\ Past(after) \in SUBSET Events /\ Past(after)' \in SUBSET Events
      /\ Past(after \cup {"failed"}) \in SUBSET Events
      /\ Past(after \cup {"failed"})' \in SUBSET Events
  BY DEF Past
<1>3. /\ Past(after)' \subseteq Past(after) \cup {h}
      /\ Past(after \cup {"failed"}) \subseteq Past(after \cup {"failed"})'
      /\ \/ m = n /\ Past(after)' \subseteq Past(after)
         \/ m = n /\ lossy /\ f = d + 1
         \/ m = n + 1 /\ (\/ h \in Past(after \cup {"failed"})' \ Past(after \cup {"failed"})
                          \/ f = d + 1)
  BY <1>1 DEF Counted
<1>4. /\ Cardinality(Past(after)) <= n + (IF lossy THEN d ELSE 0)
      /\ n <= Cardinality(Past(after \cup {"failed"})) + d
  BY DEF Between
<1> HIDE DEF d, f
<1>5. m <= Cardinality(Past(after \cup {"failed"})') + f
  <2>1. /\ m = n \/ m = n + 1
        /\ m = n + 1 => \/ h \in Past(after \cup {"failed"})' \ Past(after \cup {"failed"})
                        \/ f = d + 1
    BY <1>3
  <2>2. \A S, T \in SUBSET Events : S \subseteq T /\ n <= Cardinality(S) + d
           /\ (m = n + 1 => (h \in T \ S) \/ (f = d + 1)) => m <= Cardinality(T) + f
    BY <1>1, <2>1, UpperKept
  <2> QED
    BY <1>2, <1>3, <1>4, <2>1, <2>2
<1>6. CASE lossy
  <2>1. Past(after)' \subseteq Past(after) \/ m = n + 1 \/ f = d + 1
    BY <1>3
  <2>2. Cardinality(Past(after)) <= n + d /\ n <= m
    BY <1>3, <1>4, <1>6
  <2>3. Cardinality(Past(after)') <= m + f
    BY <1>1, <1>2, <1>3, <2>1, <2>2, LowerKept
  <2> QED
    BY <1>5, <1>6, <2>3 DEF f
<1>7. CASE ~lossy
  <2>1. Past(after)' \subseteq Past(after) \/ m = n + 1
    BY <1>3, <1>7
  <2>2. Cardinality(Past(after)) <= n + 0 /\ n <= m /\ 0 <= 0 /\ 0 \in Nat
    BY <1>3, <1>4, <1>7
  <2>3. Cardinality(Past(after)') <= m + 0
    BY <1>2, <1>3, <2>1, <2>2, LowerKept
  <2> QED
    BY <1>5, <1>7, <2>3 DEF f
<1> QED
  BY <1>6, <1>7

LEMMA HandlerStats ==
  ASSUME StatsInv, NEW h \in Events, Handler(h)
  PROVE  StatsInv'
<1>1. TypeOK'
  BY HandlerType DEF StatsInv
<1>2. /\ faults \in Nat /\ faults' \in Nat /\ faults' \in {faults, faults - 1}
      /\ faults <= MaxFaults /\ faults' <= MaxFaults
      /\ totalFires \in Nat /\ totalFires' \in Nat
      /\ dailyFires \in Nat /\ dailyFires' \in Nat /\ ranked \in Nat /\ ranked' \in Nat
  <2>1. faults' \in {faults, faults - 1}
    BY HandlerCounts DEF StatsInv
  <2>2. faults \in Nat /\ faults' \in Nat /\ faults <= MaxFaults /\ MaxFaults \in Nat
    BY <1>1, ConstantsAssumption DEF StatsInv, TypeOK
  <2>3. faults' <= MaxFaults
    BY <2>1, <2>2
  <2> QED
    BY <1>1, <2>1, <2>2, <2>3 DEF StatsInv, TypeOK
<1>3. /\ Counted(totalFires, totalFires', AfterTotal, h, FALSE)
      /\ Counted(dailyFires, dailyFires', AfterDaily, h, FALSE)
      /\ Counted(ranked, ranked', AfterRank, h, TRUE)
  BY HandlerCounts DEF StatsInv
<1>4. /\ Between(totalFires, AfterTotal, IF FALSE THEN MaxFaults - faults ELSE 0)
      /\ Between(dailyFires, AfterDaily, IF FALSE THEN MaxFaults - faults ELSE 0)
      /\ Between(ranked, AfterRank, IF TRUE THEN MaxFaults - faults ELSE 0)
  BY DEF StatsInv
<1>5. /\ Cardinality(Past(AfterTotal)') <= totalFires' + (IF FALSE THEN MaxFaults - faults' ELSE 0)
      /\ totalFires' <= Cardinality(Past(AfterTotal \cup {"failed"})') + (MaxFaults - faults')
  BY <1>2, <1>3, <1>4, BetweenKept
<1>6. /\ Cardinality(Past(AfterDaily)') <= dailyFires' + (IF FALSE THEN MaxFaults - faults' ELSE 0)
      /\ dailyFires' <= Cardinality(Past(AfterDaily \cup {"failed"})') + (MaxFaults - faults')
  BY <1>2, <1>3, <1>4, BetweenKept
<1>7. /\ Cardinality(Past(AfterRank)') <= ranked' + (IF TRUE THEN MaxFaults - faults' ELSE 0)
      /\ ranked' <= Cardinality(Past(AfterRank \cup {"failed"})') + (MaxFaults - faults')
  BY <1>2, <1>3, <1>4, BetweenKept
<1> QED
  BY <1>1, <1>2, <1>5, <1>6, <1>7 DEF StatsInv, Between, AfterTotal, AfterDaily, AfterRank

\* Nobody else counts or moves a handler past an increment.
LEMMA OthersStats ==
  ASSUME StatsInv, TypeOK',
         \/ Tick \/ Progression \/ Cleanup \/ UNCHANGED vars
         \/ \E h \in Events, g \in Grids : Arrive(h, g)
  PROVE  StatsInv'
<1> DEFINE Still == /\ UNCHANGED stats
                    /\ faults' \in {faults, faults - 1}
                    /\ \A e \in Events : \/ igPc'[e] = igPc[e]
                                          \/ (igPc[e] = "idle" /\ igPc'[e] = "enter")
<1>1. Still
  <2>1. CASE Tick
    BY <2>1 DEF Tick, igVars
  <2>2. CASE UNCHANGED vars
    BY <2>2 DEF vars, igVars
  <2>3. CASE Progression
    <3>1. stats' = stats /\ igPc' = igPc
      BY <2>3 DEF Progression, ScanStart, ScanMembers, ScanCount, ScanCompare, ScanApply,
                  ScanAnnounce, ScanUnindex, igVars
    <3>2. faults' \in {faults, faults - 1}
      BY <2>3 DEF Progression, ScanStart, ScanMembers, ScanCount, ScanCompare, ScanApply,
                  ScanAnnounce, ScanUnindex, Fault
    <3> QED
      BY <3>1, <3>2
  <2>4. CASE Cleanup
    <3>1. stats' = stats /\ igPc' = igPc
      BY <2>4 DEF Cleanup, CleanStart, CleanMembers, CleanRemove, CleanCard, CleanDelete,
                  CleanUnindex, CleanRemoveStage, igVars
    <3>2. faults' \in {faults, faults - 1}
      BY <2>4 DEF Cleanup, CleanStart, CleanMembers, CleanRemove, CleanCard, CleanDelete,
                  CleanUnindex, CleanRemoveStage, Fault
    <3> QED
      BY <3>1, <3>2
  <2>5. ASSUME NEW h \in Events, NEW g \in Grids, Arrive(h, g)
        PROVE  Still
    <3>1. igPc \in [Events -> IgPcs]
      BY DEF StatsInv, TypeOK
    <3> QED
      BY <2>5, <3>1 DEF Arrive, Goto
  <2> QED
    BY <2>1, <2>2, <2>3, <2>4, <2>5
<1>5. faults' \in Nat
  BY DEF TypeOK
<1>2. /\ Past(AfterTotal)' = Past(AfterTotal)
      /\ Past(AfterTotal \cup {"failed"})' = Past(AfterTotal \cup {"failed"})
      /\ Past(AfterDaily)' = Past(AfterDaily)
      /\ Past(AfterDaily \cup {"failed"})' = Past(AfterDaily \cup {"failed"})
      /\ Past(AfterRank)' = Past(AfterRank)
      /\ Past(AfterRank \cup {"failed"})' = Past(AfterRank \cup {"failed"})
  BY <1>1 DEF Past, AfterTotal, AfterDaily, AfterRank
<1>3. /\ Cardinality(Past(AfterTotal)) \in Nat
      /\ Cardinality(Past(AfterTotal \cup {"failed"})) \in Nat
      /\ Cardinality(Past(AfterDaily)) \in Nat
      /\ Cardinality(Past(AfterDaily \cup {"failed"})) \in Nat
      /\ Cardinality(Past(AfterRank)) \in Nat
      /\ Cardinality(Past(AfterRank \cup {"failed"})) \in Nat
  BY PastFinite DEF Past
<1>4. /\ totalFires \in Nat /\ dailyFires \in Nat /\ ranked \in Nat /\ faults \in Nat
      /\ MaxFaults \in Nat
  BY ConstantsAssumption DEF StatsInv, TypeOK
<1> QED
  <2>1. /\ faults' <= MaxFaults /\ MaxFaults - faults \in Nat
        /\ MaxFaults - faults' \in Nat /\ MaxFaults - faults <= MaxFaults - faults'
    <3>1. faults' \in {faults, faults - 1} /\ faults <= MaxFaults
      BY <1>1 DEF StatsInv
    <3>2. \A a, b, c \in Nat : a <= c /\ b \in {a, a - 1} =>
             /\ b <= c /\ c - a \in Nat /\ c - b \in Nat /\ c - a <= c - b
      OBVIOUS
    <3> QED
      BY <1>4, <1>5, <3>1, <3>2
  <2>2. totalFires' = totalFires /\ dailyFires' = dailyFires /\ ranked' = ranked
    BY <1>1 DEF stats
  <2> HIDE DEF Still
  <2>3. Between(totalFires, AfterTotal, 0)'
    BY <1>2, <1>3, <1>4, <2>1, <2>2 DEF StatsInv, Between
  <2>4. Between(dailyFires, AfterDaily, 0)'
    BY <1>2, <1>3, <1>4, <2>1, <2>2 DEF StatsInv, Between
  <2>5. Between(ranked, AfterRank, MaxFaults - faults)'
    BY <1>2, <1>3, <1>4, <2>1, <2>2 DEF StatsInv, Between
  <2> QED
    BY <2>1, <2>3, <2>4, <2>5 DEF StatsInv

\* The counters lie between the acknowledged fires and the fires that were written,
\* give or take the commands that failed, for any number of handlers and failures.
\* (fire_ignite.go:304-321.)
THEOREM StatisticsBracketed == Spec => []StatsBracketed
<1>1. Init => StatsInv
  <2> SUFFICES ASSUME Init PROVE StatsInv
    OBVIOUS
  <2>1. TypeOK
    BY InitType
  <2>2. \A pcs : "idle" \notin pcs => Past(pcs) = {}
    BY DEF Init, Past
  <2>3. /\ Past(AfterTotal) = {} /\ Past(AfterTotal \cup {"failed"}) = {}
        /\ Past(AfterDaily) = {} /\ Past(AfterDaily \cup {"failed"}) = {}
        /\ Past(AfterRank) = {} /\ Past(AfterRank \cup {"failed"}) = {}
    BY <2>2 DEF AfterTotal, AfterDaily, AfterRank
  <2>4. /\ Cardinality(Past(AfterTotal)) = 0
        /\ Cardinality(Past(AfterTotal \cup {"failed"})) = 0
        /\ Cardinality(Past(AfterDaily)) = 0
        /\ Cardinality(Past(AfterDaily \cup {"failed"})) = 0
        /\ Cardinality(Past(AfterRank)) = 0
        /\ Cardinality(Past(AfterRank \cup {"failed"})) = 0
    BY <2>3, FS_EmptySet, Zenon
  <2>5. faults <= MaxFaults /\ MaxFaults - faults = 0
    BY ConstantsAssumption DEF Init
  <2>6. totalFires = 0 /\ dailyFires = 0 /\ ranked = 0
    BY DEF Init
  <2>7. Between(totalFires, AfterTotal, 0) /\ Between(dailyFires, AfterDaily, 0)
    BY <2>4, <2>5, <2>6 DEF Between
  <2>8. Between(ranked, AfterRank, MaxFaults - faults)
    BY <2>4, <2>5, <2>6 DEF Between
  <2> QED
    BY <2>1, <2>5, <2>7, <2>8 DEF StatsInv
<1>2. StatsInv /\ [Next]_vars => StatsInv'
  <2>1. StatsInv /\ [Next]_vars => TypeOK'
    BY NextType DEF StatsInv
  <2> QED
    BY <2>1, HandlerStats, OthersStats DEF Next
<1>3. StatsInv => StatsBracketed
  <2> SUFFICES ASSUME StatsInv PROVE StatsBracketed
    OBVIOUS
  <2> DEFINE D == {e \in Events : igPc[e] = "done"}
             L == {e \in Events : igPc[e] = "failed" \/ Stored(e)}
  <2>1. D \in SUBSET Events /\ L \in SUBSET Events
    OBVIOUS
  <2>2. /\ Past(AfterTotal) \in SUBSET Events /\ D \in SUBSET Past(AfterTotal)
        /\ Past(AfterDaily) \in SUBSET Events /\ D \in SUBSET Past(AfterDaily)
        /\ Past(AfterRank) \in SUBSET Events /\ D \in SUBSET Past(AfterRank)
    BY DEF Past, AfterTotal, AfterDaily, AfterRank
  <2>3. /\ Past(AfterTotal \cup {"failed"}) \in SUBSET L
        /\ Past(AfterDaily \cup {"failed"}) \in SUBSET L
        /\ Past(AfterRank \cup {"failed"}) \in SUBSET L
    BY DEF Past, Stored, AfterTotal, AfterDaily, AfterRank
  <2> HIDE DEF D, L
  <2>4. /\ Cardinality(D) \in Nat /\ Cardinality(L) \in Nat
        /\ Cardinality(D) <= Cardinality(Past(AfterTotal))
        /\ Cardinality(D) <= Cardinality(Past(AfterDaily))
        /\ Cardinality(D) <= Cardinality(Past(AfterRank))
        /\ Cardinality(Past(AfterTotal)) \in Nat
        /\ Cardinality(Past(AfterDaily)) \in Nat
        /\ Cardinality(Past(AfterRank)) \in Nat
    BY <2>1, <2>2, PastFinite
  <2>5. /\ Past(AfterTotal \cup {"failed"}) \in SUBSET Events
        /\ Past(AfterDaily \cup {"failed"}) \in SUBSET Events
        /\ Past(AfterRank \cup {"failed"}) \in SUBSET Events
    BY <2>1, <2>3
  <2>6. /\ Cardinality(Past(AfterTotal \cup {"failed"})) <= Cardinality(L)
        /\ Cardinality(Past(AfterDaily \cup {"failed"})) <= Cardinality(L)
        /\ Cardinality(Past(AfterRank \cup {"failed"})) <= Cardinality(L)
        /\ Cardinality(Past(AfterTotal \cup {"failed"})) \in Nat
        /\ Cardinality(Past(AfterDaily \cup {"failed"})) \in Nat
        /\ Cardinality(Past(AfterRank \cup {"failed"})) \in Nat
    BY <2>1, <2>3, <2>5, PastFinite
  <2>7. /\ totalFires \in Nat /\ dailyFires \in Nat /\ ranked \in Nat
        /\ MaxFaults - faults \in Nat
    BY ConstantsAssumption DEF StatsInv, TypeOK
  <2>8. /\ Cardinality(D) <= totalFires
        /\ totalFires <= Cardinality(L) + (MaxFaults - faults)
        /\ Cardinality(D) <= dailyFires
        /\ dailyFires <= Cardinality(L) + (MaxFaults - faults)
        /\ Cardinality(D) <= ranked + (MaxFaults - faults)
        /\ ranked <= Cardinality(L) + (MaxFaults - faults)
    BY <2>4, <2>6, <2>7 DEF StatsInv, Between
  <2> QED
    BY <2>8 DEF StatsBracketed, D, L
<1> QED
  BY <1>1, <1>2, <1>3, PTL DEF Spec

===============================================================================
