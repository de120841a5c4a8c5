------------------------------ MODULE FireStages ------------------------------
(***************************************************************************)
(* Fire stages of a grid cell: how the number of active fires in a cell    *)
(* is turned into one of six stages (server/internal/model/fire.go).       *)
(***************************************************************************)
EXTENDS Naturals

CONSTANT StageMin    \* StageMin[s]: least number of active fires of stage s

StageNone      == 0
StageBulsssi   == 1
StageJeonso    == 5

Stages == StageNone .. StageJeonso

\* stageThresholds lists the stages in descending order of their thresholds,
\* ending with {0, StageNone}; an empty cell is the only one of StageNone.
ASSUME StageMinAssumption ==
  /\ StageMin \in [Stages -> Nat]
  /\ StageMin[StageNone] = 0
  /\ StageMin[StageBulsssi] = 1
  /\ \A s, t \in Stages : s < t => StageMin[s] < StageMin[t]

\* The first entry of the descending table that activeCount reaches.
GetStage(activeCount) ==
  CHOOSE s \in Stages :
    /\ activeCount >= StageMin[s]
    /\ \A t \in Stages : t > s => activeCount < StageMin[t]

===============================================================================
