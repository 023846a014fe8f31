------------------------------ MODULE MCDataPath ------------------------------
(***************************************************************************)
(* The plant of the data path: a measurement "pv" and, at the register     *)
(* after it, its set point "sp", and the questions asked of DataPipeline.  *)
(***************************************************************************)
EXTENDS DataPipeline

BothTags == {"pv", "sp"}
PvAndSp == [t \in BothTags |-> IF t = "pv" THEN "sp" ELSE NoSp]
Registers == [t \in BothTags |-> IF t = "pv" THEN 1 ELSE 2]
FourLimits == [kind \in Kinds |-> CASE kind = "HighHigh" -> 6 [] kind = "High" -> 5
                                    [] kind = "Low" -> 3 [] kind = "LowLow" -> 2]

(* Any limits switched on, every value at any time.                         *)
LimitsNext ==
  /\ \E raw \in Raws, dt \in Gaps : Accept("pv", RegisterToValue(raw), dt)
  /\ UNCHANGED <<buffer, shown, autoMode, command, setPoint, asked>>

(* Every set point that can be entered.                                     *)
ScaleNext == \E value \in Requests : WriteSetPoint("pv", value)

(* Set points, outputs and measurements that differ from each other.        *)
ModeNext ==
  \/ Commit
  \/ \E t \in PlantTags : Parse(t, MaxRaw, 1) \/ ToggleAutoMode(t)
  \/ WriteOutput("pv", 7)
  \/ WriteSetPoint("pv", 3) \/ WriteSetPoint("pv", 4) \/ WriteSetPoint("sp", 5)

(* Every operation, no limit switched on.                                   *)
OperateSpec == /\ PipelineInit /\ \A t \in PlantTags : enabled[t] = {}
               /\ [][PipelineNext]_pipelineVars
=============================================================================
