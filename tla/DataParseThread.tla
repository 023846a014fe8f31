---------------------------- MODULE DataParseThread ----------------------------
(***************************************************************************)
(* DataParseThread.cpp: what the parse thread makes of one register of a   *)
(* sample.  A raw value becomes an engineering value, a spike is dropped,  *)
(* and the limits, the deviation from the set point and the rate of change *)
(* turn it into calls of the alarm engine.  Engineering values are         *)
(* integers: the float rounded down.  Every check is enabled but the four  *)
(* limits, which are switched on one by one.                               *)
(***************************************************************************)
EXTENDS Integers, Sequences

CONSTANTS
  PlantTags,       \* the tags whose registers are read
  SpTag,           \* the tag at the register after a tag's own, or NoSp
  NoSp,
  EngLow, EngHigh, \* the range
  MaxRaw,          \* the largest register value, 65535 in the code
  Threshold,       \* highHighLimit, highLimit, lowLimit, lowLowLimit
  Deadband,
  RocLimit,        \* rateOfChangeLimit for one loop of the thread, 0 for none
  Gaps,            \* loops between two samples of a tag: 0 in one batch, 25 at 500 ms
  DeviationLimit,
  None             \* no value

Highs == {"HighHigh", "High"}
Lows == {"Low", "LowLow"}
Kinds == Highs \cup Lows

ASSUME ParseAssumption ==
  /\ EngLow \in Int /\ EngHigh \in Int /\ EngLow < EngHigh
  /\ MaxRaw \in Nat /\ MaxRaw >= EngHigh - EngLow
  /\ Threshold \in [Kinds -> Int] /\ Deadband \in Nat
  /\ RocLimit \in Nat /\ Gaps \subseteq Nat
  /\ SpTag \in [PlantTags -> PlantTags \cup {NoSp}] /\ None \notin Int

VARIABLES
  enabled,   \* the limits of each tag that are switched on
  prev,      \* m_prevValues
  rocLast,   \* lastValue of m_rocChecker
  calls,     \* the calls that the last sample of each tag made of the engine
  calmAt     \* ghost: the value at the last clearAlarm for each tag

parseVars == <<enabled, prev, rocLast, calls, calmAt>>

Raws == 0 .. MaxRaw
Values == EngLow .. EngHigh

ParseInit ==
  /\ enabled \in [PlantTags -> SUBSET Kinds]
  /\ prev = [t \in PlantTags |-> None]
  /\ rocLast = [t \in PlantTags |-> 0]
  /\ calls = [t \in PlantTags |-> << >>]
  /\ calmAt = [t \in PlantTags |-> None]

-----------------------------------------------------------------------------
(* registerToValue; the range is not empty.                                 *)
RegisterToValue(raw) == EngLow + (raw * (EngHigh - EngLow)) \div MaxRaw

Distance(a, b) == IF a < b THEN b - a ELSE a - b

(* validateRateOfChange.                                                    *)
IsSpike(t, value) ==
  RocLimit > 0 /\ prev[t] # None /\ Distance(value, prev[t]) > 3 * RocLimit

(* exceedsDeadbaud and returnsToNormal.                                     *)
Exceeds(kind, value, before) ==
  LET limit == Threshold[kind] IN
  \/ kind \in Highs /\ (value > limit + Deadband \/ (value > limit /\ before <= limit))
  \/ kind \in Lows  /\ (value < limit - Deadband \/ (value < limit /\ before >= limit))

(* Faulty variant: the dead band on the wrong side of the limit.            *)
ReturnsBeyond(kind, value) ==
  \/ kind \in Highs /\ value <= Threshold[kind] + Deadband
  \/ kind \in Lows  /\ value >= Threshold[kind] - Deadband

Returns(kind, value) ==
  \/ kind \in Highs /\ value <= Threshold[kind] - Deadband
  \/ kind \in Lows  /\ value >= Threshold[kind] + Deadband

(* The previous value that checkAlarmLimits compares with.  It is read back *)
(* after the new value has replaced it, so that no crossing of a limit is   *)
(* ever seen: a limit is exceeded only beyond its dead band.                *)
Before(t, value) == value

(* checkAlarmLimits: the first limit of the chain that is exceeded.         *)
(* Faulty variant: the two limits on the high side in the other order.      *)
ChainLowerFirst == <<"High", "HighHigh", "Low", "LowLow">>
Chain == <<"HighHigh", "High", "Low", "LowLow">>

Hit(t, value, i) == Chain[i] \in enabled[t] /\ Exceeds(Chain[i], value, Before(t, value))

LimitCalls(t, value) ==
  LET hits == {i \in 1 .. 4 : Hit(t, value, i)} IN
  IF hits # {} THEN <<Chain[CHOOSE i \in hits : \A j \in hits : i <= j]>>
  ELSE IF \A kind \in enabled[t] : Returns(kind, value) THEN <<"clear">>
  ELSE << >>

(* The deviation check.  A set point never read, or not configured, is 0.   *)
SetPointRead(t) ==
  IF SpTag[t] = NoSp \/ prev'[SpTag[t]] = None THEN 0 ELSE prev'[SpTag[t]]

DeviationCalls(t, value) ==
  IF Distance(value, SetPointRead(t)) > DeviationLimit THEN <<"Deviation">> ELSE << >>

(* exceedsLimit, dt loops of the thread after the call before.  A last      *)
(* value of 0 counts as none.                                               *)
ExceedsRoc(t, value, dt) ==
  rocLast[t] # 0 /\ dt > 0 /\ Distance(value, rocLast[t]) > RocLimit * dt

RocCalls(t, value, dt) == IF ExceedsRoc(t, value, dt) THEN <<"RateOfChange">> ELSE << >>

(* processBatch, one register.                                              *)
Accept(t, value, dt) ==
  /\ ~ IsSpike(t, value)
  /\ prev' = [prev EXCEPT ![t] = value]
  /\ rocLast' = [rocLast EXCEPT ![t] = IF rocLast[t] # 0 /\ dt = 0 THEN @ ELSE value]
  /\ calls' = [calls EXCEPT ![t] = LimitCalls(t, value) \o DeviationCalls(t, value)
                                                        \o RocCalls(t, value, dt)]
  /\ calmAt' = [calmAt EXCEPT ![t] = IF LimitCalls(t, value) = <<"clear">>
                                     THEN value ELSE @]
  /\ UNCHANGED enabled

-----------------------------------------------------------------------------
(* The dead band keeps a signal near its threshold from raising alarms      *)
(* often (user-manual.md:292): between a clear and the next raise by a      *)
(* limit the value moves by more than the dead band, whatever came between  *)
(* and whichever limits are switched on.  So it does in the code, and so it *)
(* would if the crossing of a limit were seen, as it is meant to            *)
(* (DeadbandFilter.h:5-27, DataParseThread.cpp:150-174).                    *)
Raised(t) == {kind \in Kinds : \E i \in 1 .. Len(calls[t]) : calls[t][i] = kind}

NoChatterInBand ==
  \A t \in PlantTags : \A kind \in Raised(t) : calmAt[t] # None =>
    /\ kind \in Highs => prev[t] - calmAt[t] > Deadband
    /\ kind \in Lows => calmAt[t] - prev[t] > Deadband
=============================================================================
