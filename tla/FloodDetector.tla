---------------------------- MODULE FloodDetector ----------------------------
(***************************************************************************)
(* FloodDetector.h: counts the alarms raised in a window and declares an   *)
(* alarm flood.  The detector compares millisecond timestamps with the     *)
(* wall clock only to ask whether a span has passed, so a detector here is *)
(* a record of the answers:                                                *)
(*   count - m_windowCount, capped at the threshold; 0 when no window is   *)
(*           open (m_windowStart = 0, or older than FLOOD_WINDOW_MS);      *)
(*   phase - m_inFlood with the age of m_floodStartTime, m_lastAlarmTime   *)
(*           and m_floodEndTime.                                           *)
(***************************************************************************)
EXTENDS Naturals

CONSTANT FloodThreshold  \* FLOOD_THRESHOLD, 10 in the code

ASSUME FloodThresholdAssumption == FloodThreshold \in Nat /\ FloodThreshold >= 2

(* "young"  - in flood for less than MIN_FLOOD_DURATION_MS                  *)
(* "mature" - in flood for at least that long                               *)
(* "quiet"  - and no alarm was counted for longer than FLOOD_WINDOW_MS      *)
FloodPhases == {"young", "mature", "quiet"}

Detectors == [count : 0 .. FloodThreshold,
              phase : FloodPhases \cup {"calm", "cooldown"}]

NoFlood == [count |-> 0, phase |-> "calm"]

InFlood(f) == f.phase \in FloodPhases
(* Faulty variant: once a flood has ended, the cooldown never does.          *)
CooldownForEver(f) == f.phase \in {"cooldown", "calm"}
InCooldown(f) == f.phase = "cooldown"

(* endFlood refuses a flood that is younger than MIN_FLOOD_DURATION_MS.     *)
EndFlood(f) ==
  IF f.phase \in {"mature", "quiet"} THEN [f EXCEPT !.phase = "cooldown"] ELSE f

(* recordAlarm, no window open: the alarm opens one, and is the only event  *)
(* of it.  m_lastAlarmTime is not updated on this path.                     *)
OpenWindow(f) == [EndFlood(f) EXCEPT !.count = 1]

(* recordAlarm inside a window.                                             *)
CountAlarm(f) ==
  LET reached == f.count + 1 >= FloodThreshold IN
  [ count |-> IF reached THEN FloodThreshold ELSE f.count + 1,
    phase |-> IF reached /\ ~ InFlood(f) THEN "young"
              ELSE IF f.phase = "quiet" THEN "mature" ELSE f.phase ]

RecordAlarm(f) == IF f.count = 0 THEN OpenWindow(f) ELSE CountAlarm(f)

(* checkExpired: the periodic test that ends a flood without a new alarm.   *)
(* Faulty variant: only a new alarm ends a flood, as before the check.      *)
CheckNothing(f) == f
CheckFloodExpired(f) == IF f.phase = "quiet" THEN EndFlood(f) ELSE f

(* The spans that may pass next, each as the detector after it.             *)
WindowLapses(f, g) == f.count > 0 /\ g = [f EXCEPT !.count = 0]

PhaseLapses(f, g) ==
  /\ f.phase # "calm" /\ f.phase # "quiet"
  /\ g = [f EXCEPT !.phase = CASE f.phase = "young"    -> "mature"
                              [] f.phase = "mature"   -> "quiet"
                              [] f.phase = "cooldown" -> "calm"]
=============================================================================
