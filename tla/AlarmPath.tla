------------------------------ MODULE AlarmPath ------------------------------
(***************************************************************************)
(* From a sample to an alarm: the parse thread of DataParseThread.cpp      *)
(* makes the calls that it derives from a sample one after the other, each *)
(* a critical section of the alarm engine, and the main thread goes on     *)
(* between any two of them.  The calls name the limit they report; the     *)
(* engine compares limits by their numbers.                                *)
(***************************************************************************)
EXTENDS AlarmEngine, DataParseThread

ASSUME PathAssumption == PlantTags = Tags

VARIABLE toCall   \* the tag processBatch has come to, and the calls left to make

pathVars == <<vars, parseVars, toCall>>

PathInit == Init /\ ParseInit /\ toCall = [tag |-> NoTag, calls |-> << >>]

(* enum class AlarmLimit.                                                   *)
LimitNumber(kind) ==
  CASE kind = "LowLow" -> 1 [] kind = "Low" -> 2 [] kind = "High" -> 3
    [] kind = "HighHigh" -> 4 [] kind = "Deviation" -> 5 [] kind = "RateOfChange" -> 6

(* processBatch takes up the next register; a spike is passed over.         *)
TakeSample(t, raw, dt) ==
  /\ toCall.calls = << >>
  /\ Accept(t, RegisterToValue(raw), dt)
  /\ toCall' = [tag |-> t, calls |-> calls'[t]]
  /\ UNCHANGED vars

(* The next call of the engine.  "masked" is the answer of the suppression  *)
(* rules.                                                                   *)
CallEngine(masked) ==
  /\ toCall.calls # << >>
  /\ toCall' = [toCall EXCEPT !.calls = Tail(@)]
  /\ IF Head(toCall.calls) = "clear" THEN ClearAlarm(toCall.tag)
     ELSE TriggerAlarm(toCall.tag, LimitNumber(Head(toCall.calls)), masked)
  /\ UNCHANGED parseVars

(* The main thread and the delays.                                          *)
RestOfEngine ==
  /\ Timers \/ Acknowledging \/ Masking \/ Time
  /\ UNCHANGED <<parseVars, toCall>>

PathNext ==
  \/ \E t \in PlantTags, raw \in Raws, dt \in Gaps : TakeSample(t, raw, dt)
  \/ \E masked \in BOOLEAN : CallEngine(masked)
  \/ RestOfEngine

PathSpec == PathInit /\ [][PathNext]_pathVars

-----------------------------------------------------------------------------
(* Properties.                                                              *)

(* A value beyond a limit and its dead band.                                *)
Beyond(t, kind) ==
  /\ kind \in enabled[t] /\ prev[t] # None
  /\ IF kind \in Highs THEN prev[t] > Threshold[kind] + Deadband
                       ELSE prev[t] < Threshold[kind] - Deadband

ShownCritical(t) == IsActive(alarm[t]) /\ Critical(alarm[t].limit)

Hidden(t) == alarm[t].state \in MaskedStates \/ floodSuppressed[t] # "none"

(* A value that has gone beyond HighHigh and stays there is shown as a      *)
(* Critical alarm, or hidden by a protection or the operator, also when it  *)
(* first raised a High alarm, when the raise was under way with the lower   *)
(* limit, and when a flood or the chattering protection took the raise      *)
(* (DataParseThread.cpp:150-174, AlarmEngine.cpp:94-159).                   *)
HighHighShown ==
  \A t \in Tags : <>[]Beyond(t, "HighHigh") => []<>(ShownCritical(t) \/ Hidden(t))

(* The same of LowLow: the limits are checked from the highest priority to  *)
(* the lowest (DataParseThread.cpp:154), and LowLow is Critical             *)
(* (user-manual.md:282).                                                    *)
LowLowShown ==
  \A t \in Tags : <>[]Beyond(t, "LowLow") => []<>(ShownCritical(t) \/ Hidden(t))
=============================================================================
