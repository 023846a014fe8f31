----------------------------- MODULE DataPipeline -----------------------------
(***************************************************************************)
(* DataPipeline.cpp around the parse thread: measurements and the          *)
(* operator's set points, outputs and modes meet in the double buffer,     *)
(* which is a SnapshotStore here (DoubleBuffer implements it), and the set *)
(* points go to the field bus.  The calls of the main thread fall between  *)
(* two registers of the parse thread: when their writes to the buffer      *)
(* overlap the C++ is undefined and nothing holds.                         *)
(***************************************************************************)
EXTENDS DataParseThread

CONSTANT Register   \* the register of each tag

VARIABLES
  buffer,     \* m_writeBuffer of the double buffer
  shown,      \* its published snapshot
  autoMode,   \* the mode kept with the tag
  command,    \* the last write handed to the field bus
  setPoint,   \* ghost: the last set point accepted for each tag
  asked       \* ghost: all of them

pipelineVars == <<parseVars, buffer, shown, autoMode, command, setPoint, asked>>

(* DoubleBuffer::Snapshot with its defaults.                                *)
Blank == [value |-> 0, setPoint |-> 0, output |-> 0]
Absent == [value |-> None, setPoint |-> None, output |-> None]
NotSent == [by |-> "none", tag |-> NoSp, register |-> 0, raw |-> 0, value |-> None]

Requests == EngLow - 1 .. EngHigh + 1   \* set points an operator enters

(* The double buffer, of whose readers only setAutoMode matters.            *)
Snapshots == [value : Values \cup {0}, setPoint : Values \cup {0}, output : Int]
Buffer == INSTANCE SnapshotStore
            WITH Tags <- PlantTags, Values <- Snapshots, Readers <- {}, Closed <- Absent,
                 written <- buffer, current <- shown, seen <- << >>

PipelineInit ==
  /\ ParseInit
  /\ Buffer!Init
  /\ autoMode = [t \in PlantTags |-> TRUE]
  /\ command = NotSent
  /\ setPoint = [t \in PlantTags |-> None]
  /\ asked = [t \in PlantTags |-> {}]

-----------------------------------------------------------------------------
(* The parse thread.                                                        *)

Parse(t, raw, dt) ==
  /\ Accept(t, RegisterToValue(raw), dt)
  /\ Buffer!Write(t, [Blank EXCEPT !.value = RegisterToValue(raw)])
  /\ UNCHANGED <<autoMode, command, setPoint, asked>>

Commit ==
  /\ Buffer!Commit
  /\ UNCHANGED <<parseVars, autoMode, command, setPoint, asked>>

-----------------------------------------------------------------------------
(* The main thread.                                                         *)

(* validateWriteValue.                                                      *)
InRange(value) == EngLow <= value /\ value <= EngHigh

(* The register value, cut to its 16 bits.                                  *)
(* Faulty variant: the full range of the register taken for its largest     *)
(* value.                                                                   *)
ScaleByCount(value) == ((value - EngLow) * (MaxRaw + 1)) \div (EngHigh - EngLow)
Scale(value) == ((value - EngLow) * MaxRaw) \div (EngHigh - EngLow)
RawOf(value) == Scale(value) % (MaxRaw + 1)

Sending(by, t, register, value) ==
  [by |-> by, tag |-> t, register |-> register, raw |-> RawOf(value), value |-> value]

WriteSetPoint(t, value) ==
  /\ InRange(value)
  /\ Buffer!Write(t, [Blank EXCEPT !.setPoint = value])
  /\ command' = Sending("operator", t, Register[t], value)
  /\ setPoint' = [setPoint EXCEPT ![t] = value]
  /\ asked' = [asked EXCEPT ![t] = @ \cup {value}]
  /\ UNCHANGED <<parseVars, autoMode>>

WriteOutput(t, value) ==
  /\ Buffer!Write(t, [Blank EXCEPT !.output = value])
  /\ UNCHANGED <<parseVars, autoMode, command, setPoint, asked>>

(* readTag, the part that setAutoMode uses.                                 *)
(* Faulty variant: the measured value taken for the set point.              *)
ReadValue(t) == IF shown[t] = Absent THEN 0 ELSE shown[t].value
ReadSetPoint(t) == IF shown[t] = Absent THEN 0 ELSE shown[t].setPoint

(* The mode is stored before the set point is tested.                       *)
SetAutoMode(t, mode) ==
  /\ autoMode' = [autoMode EXCEPT ![t] = mode]
  /\ command' = IF mode /\ InRange(ReadSetPoint(t))
             THEN Sending("auto", t, Register[t] + 1, ReadSetPoint(t))
             ELSE command
  /\ UNCHANGED <<parseVars, buffer, shown, setPoint, asked>>

ToggleAutoMode(t) == SetAutoMode(t, ~ autoMode[t])

Operate == \E t \in PlantTags :
  \/ \E value \in Requests : WriteSetPoint(t, value) \/ WriteOutput(t, value)
  \/ ToggleAutoMode(t)

PipelineNext ==
  \/ \E t \in PlantTags, raw \in Raws, dt \in Gaps : Parse(t, raw, dt)
  \/ Commit
  \/ Operate

PipelineSpec == PipelineInit /\ [][PipelineNext]_pipelineVars

-----------------------------------------------------------------------------
(* Properties.                                                              *)

(* Whatever measurements, outputs and commits come in between, switching to *)
(* automatic sends a set point of this very tag, or the 0 of a snapshot     *)
(* without one: never a measurement, an output or another tag's value       *)
(* (DataPipeline.cpp:118-147).                                              *)
AutoSendsOwnSetPoint ==
  command.by = "auto" => command.value \in asked[command.tag] \cup {0}

(* The register value of a set point, read back as a measurement, is the    *)
(* set point up to the rounding of the scale: at neither end of the range   *)
(* does the conversion wrap in its 16 bits (DataPipeline.cpp:98,            *)
(* DataParseThread.cpp:133).                                                *)
SentReadsBack ==
  command # NotSent => RegisterToValue(command.raw) \in {command.value - 1, command.value}

(* Switching to automatic sends the current set point                       *)
(* (DataPipeline.cpp:118 and DataPipeline.h:57).                            *)
AutoModeSendsSetPoint ==
  [][\A t \in PlantTags :
       ~ autoMode[t] /\ autoMode'[t] /\ setPoint[t] # None
         => command'.by = "auto" /\ command'.value = setPoint[t]]_pipelineVars
=============================================================================
