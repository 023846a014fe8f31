---------------------------- MODULE MCAlarmEngine ----------------------------
(***************************************************************************)
(* Instances of AlarmEngine for TLC.  The product of every operation, mask *)
(* and delay of the engine is too large even for one tag, so each instance *)
(* below keeps all timers, the parse thread and the operations that bear   *)
(* on its question, and leaves the others out.                             *)
(***************************************************************************)
EXTENDS AlarmEngine

HighOnly == {3}
CriticalOnly == {4}
HighAndCritical == {3, 4}

Report(limits) ==
  \E t \in Tags : ClearAlarm(t) \/ \E limit \in limits : TriggerAlarm(t, limit, FALSE)

(* Every masking operation, on Critical alarms.  No flood suppresses them,  *)
(* so a flood is without effect and its later phases are left out.          *)
MaskNext ==
  \/ \E t \in Tags, masked \in BOOLEAN :
       \/ ClearAlarm(t)
       \/ \E limit \in Limits : Critical(limit) /\ TriggerAlarm(t, limit, masked)
  \/ Timers \/ Acknowledging \/ Masking
  \/ FloodWindowExpires
  \/ \E t \in Tags :
       \/ OnDelayExpires(t) \/ OffDelayExpires(t)
       \/ ShelveExpires(t) \/ ReshelveWindowExpires(t) \/ ChatterWindowExpires(t)

MaskSpec == Init /\ [][MaskNext]_vars

(* Floods over one tag whose alarm is High or Critical, with the masks the  *)
(* flood protection meets.                                                  *)
FloodNext ==
  \/ Report(Limits) \/ Timers \/ Acknowledging
  \/ \E t \in Tags : ShelveAlarm(t, "timed") \/ OperatorUnshelve(t) \/ SuppressByDesign(t)
  \/ FloodWindowExpires \/ FloodPhaseExpires
  \/ \E t \in Tags : OnDelayExpires(t) \/ ShelveExpires(t) \/ ChatterWindowExpires(t)

(* Floods over two tags, restored one per tick.  The chatter windows stay   *)
(* open, so a tag is raised at most ChatterLimit - 1 times.  Only the       *)
(* fairness that the restoration needs is assumed.                          *)
PairNext ==
  \/ Report(HighOnly) \/ Timers
  \/ \E t \in Tags : AcknowledgeReturns({t}) \/ OnDelayExpires(t)
  \/ FloodWindowExpires \/ FloodPhaseExpires

PairFairness ==
  WF_vars(Handlers) /\ SF_vars(ShelveTick) /\ WF_vars(FloodPhaseDue)

(* Liveness over one tag: the operator shelves no alarm that is already     *)
(* shelved, and may stop acting altogether.                                 *)
LiveNext ==
  \/ Report(Limits) \/ Timers \/ Acknowledging
  \/ \E t \in Tags : ~ IsShelved(alarm[t]) /\ ShelveAlarm(t, "timed")
  \/ FloodWindowExpires \/ FloodPhaseExpires
  \/ \E t \in Tags : \/ OnDelayExpires(t) \/ OffDelayExpires(t)
                     \/ ShelveExpires(t) \/ ChatterWindowExpires(t)

LiveSpec == Init /\ [][LiveNext]_vars /\ Fairness

(* Two tags, with an operator who acknowledges and ends flood suppressions  *)
(* by hand.  The long spans of the flood pass between handlers only.        *)
StaleNext ==
  \/ Report(Limits) \/ Timers
  \/ \E t \in Tags : AcknowledgeAlarms({t}) \/ OperatorUnshelve(t) \/ OnDelayExpires(t)
  \/ MainIdle /\ (FloodWindowExpires \/ FloodPhaseExpires)

StaleSpec == Init /\ [][StaleNext]_vars
=============================================================================
