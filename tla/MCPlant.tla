------------------------------- MODULE MCPlant -------------------------------
(***************************************************************************)
(* The parts around the alarm engine, side by side: the hub that loads the *)
(* plugins, a Modbus device, the gateway to the broker, the ring buffer    *)
(* the samples go through, the parts of the path from the registers to the *)
(* archive, the database behind it, the log of parameter changes, and the  *)
(* end of the application.  No state is shared between them here: an       *)
(* instance explores one of them, while the others rest.                   *)
(***************************************************************************)
EXTENDS RingBuffer, ModbusDevice, MqttGateway, PluginHub, Lifecycle,
        MCDataPath, TagManager, HistorySampler, Persistence, ChangeLog

(* Two plugins for the field bus, one that a switch must win against and    *)
(* one it would win against anyway, and one for each other service.         *)
HubFiles == {"modbus", "simulator", "alarms", "archive", "broker"}
Declared ==
  [f \in HubFiles |->
     CASE f = "alarms" -> "alarm" [] f = "archive" -> "history"
       [] f = "broker" -> "mqtt" [] OTHER -> "fieldbus"]
Companions == [f \in HubFiles |-> IF f = "modbus" THEN 2 * SwitchPriority ELSE 10]

CONSTANT MaxPos   \* the producers of the ring buffer stop after so many samples

VARIABLE question

Questions == {"ring", "device", "gateway", "hub", "exit", "tags", "archive",
              "limits", "scale", "modes", "database", "changes"}

RingNext == \/ \E s \in Samples : enqueuePos < MaxPos /\ LockEnqueue(s)
            \/ CheckFree \/ WriteData \/ Publish \/ AdvanceEnqueue
            \/ Dequeue

(* At run time the field bus is replaced.                                   *)
ReplaceNext ==
  \/ ScanAll \/ WithFieldbus \/ WithDatabase \/ WithMqtt \/ UnloadAll
  \/ Resolve("fieldbus") \/ UnloadPlugin("fieldbus")
  \/ \E file \in Files : SwitchPlugin("fieldbus", file)

fieldVars == <<vars, deviceVars, gatewayVars>>
hostVars == <<hubVars, lifecycleVars>>
pathVars == <<tagVars, samplerVars, pipelineVars>>
recordVars == <<persistenceVars, changeVars>>
plantVars == <<fieldVars, hostVars, pathVars, recordVars, question>>

FieldNext ==
  /\ UNCHANGED <<hostVars, pathVars, recordVars>>
  /\ \/ question = "ring" /\ RingNext /\ UNCHANGED <<deviceVars, gatewayVars>>
     \/ question = "device" /\ DeviceNext /\ UNCHANGED <<vars, gatewayVars>>
     \/ question = "gateway" /\ GatewayNext /\ UNCHANGED <<vars, deviceVars>>

HostNext ==
  /\ UNCHANGED <<fieldVars, pathVars, recordVars>>
  /\ \/ question = "hub" /\ ReplaceNext /\ UNCHANGED lifecycleVars
     \/ question = "exit" /\ LifecycleNext /\ UNCHANGED hubVars

PathNext ==
  /\ UNCHANGED <<fieldVars, hostVars, recordVars>>
  /\ \/ question = "tags" /\ TagNext /\ UNCHANGED <<samplerVars, pipelineVars>>
     \/ question = "archive" /\ SamplerNext /\ UNCHANGED <<tagVars, pipelineVars>>
     \/ question = "limits" /\ LimitsNext /\ UNCHANGED <<tagVars, samplerVars>>
     \/ question = "scale" /\ ScaleNext /\ UNCHANGED <<tagVars, samplerVars>>
     \/ question = "modes" /\ ModeNext /\ UNCHANGED <<tagVars, samplerVars>>

RecordNext ==
  /\ UNCHANGED <<fieldVars, hostVars, pathVars>>
  /\ \/ question = "database" /\ PersistenceNext /\ UNCHANGED changeVars
     \/ question = "changes" /\ ChangeNext /\ UNCHANGED persistenceVars

PlantNext == UNCHANGED question /\ (FieldNext \/ HostNext \/ PathNext \/ RecordNext)

(* What a part may begin with matters to its own question only; one of the  *)
(* libraries is good.                                                       *)
Unless(q, fixed) == IF question = q THEN TRUE ELSE fixed

PlantInit ==
  /\ question \in Questions
  /\ Unless("hub", content = [f \in Files |-> "good"])
  /\ Unless("exit", servedBy = [s \in HostServices |-> "null"])
  /\ Unless("limits", enabled = [t \in PlantTags |-> {}])
  /\ Unless("database", base = [plugin |-> "mysql", canOpen |-> FALSE, tables |-> {}])
  /\ Init /\ DeviceInit /\ GatewayInit /\ HubInit /\ LifecycleInit
  /\ TagInit /\ SamplerInit /\ PipelineInit /\ PersistenceInit /\ ChangeInit
  /\ content["broker"] = "good" /\ enabled["sp"] = {}

PlantSpec ==
  /\ PlantInit /\ [][PlantNext]_plantVars
  /\ SamplerFairness
  /\ WF_vars(question = "ring" /\ Dequeue)
  /\ WF_deviceVars(question = "device" /\ HandlePosted)
  /\ WF_deviceVars(question = "device" /\ Reconnecting)
  /\ WF_deviceVars(question = "device" /\ (HeartbeatAnswered \/ HeartbeatFails))
  /\ WF_gatewayVars(question = "gateway" /\ OnReconnect)
  /\ WF_gatewayVars(question = "gateway" /\ OnHeartbeat)

(* No sample that was accepted stays in the buffer: once the producers have *)
(* stopped, the parse thread gets to the last position                      *)
(* (LockFreeRingBuffer.h:54-66).                                            *)
EverySampleTaken == <>[](dequeuePos >= enqueuePos)
=============================================================================
