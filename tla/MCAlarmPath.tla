----------------------------- MODULE MCAlarmPath -----------------------------
(***************************************************************************)
(* Two questions side by side: the restoration of two tags after floods,   *)
(* with a parse thread that reports anything, and one tag whose reports    *)
(* are derived from its samples.  An instance answers one of them.  The    *)
(* operator of the second acknowledges only alarms that have returned, and *)
(* no suppression rule applies.                                            *)
(***************************************************************************)
EXTENDS MCAlarmEngine, AlarmPath

NoSetPoints == [t \in PlantTags |-> NoSp]
HighSide == {3, 5, 6}
LowSide == {0, 1, 3}
LowAndLowLow == {1, 2}
SampledLimits ==
  [kind \in Kinds |-> CASE kind = "HighHigh" -> 5 [] kind = "High" -> 4
                         [] kind = "Low" -> 2 [] kind = "LowLow" -> 1]

CONSTANTS
  First,       \* the tag that is sampled
  Samples,     \* its registers, of the high or of the low side
  Configured   \* the limits that are switched on

VARIABLE question

TakeAnySample(t) == \E raw \in Samples, dt \in Gaps : TakeSample(t, raw, dt)

Sampled(t) ==
  \/ TakeAnySample(t) \/ CallEngine(FALSE)
  \/ /\ UNCHANGED <<parseVars, toCall>>
     /\ \/ Timers \/ AcknowledgeReturns({t})
        \/ FloodWindowExpires \/ FloodPhaseExpires
        \/ OnDelayExpires(t) \/ ShelveExpires(t) \/ ChatterWindowExpires(t)

AnswerNext ==
  /\ UNCHANGED question
  /\ \/ question = "pair" /\ PairNext /\ UNCHANGED <<parseVars, toCall>>
     \/ question = "path" /\ Sampled(First)

AnswerInit ==
  /\ PathInit /\ question \in {"pair", "path"}
  /\ enabled = [t \in PlantTags |-> Configured]

(* The main thread goes on, the delays of the sampled tag pass, the parse   *)
(* thread goes on and samples keep coming.                                  *)
AnswerFairness ==
  /\ PairFairness
  /\ SF_vars(question = "path" /\ OnDelayScan)
  /\ WF_vars(question = "path" /\ FloodWindowExpires)
  /\ WF_vars(question = "path" /\ OnDelayExpires(First))
  /\ WF_vars(question = "path" /\ ShelveExpires(First))
  /\ WF_vars(question = "path" /\ ChatterWindowExpires(First))
  /\ WF_pathVars(question = "path" /\ (TakeAnySample(First) \/ CallEngine(FALSE)))

AnswerSpec ==
  AnswerInit /\ [][AnswerNext]_<<pathVars, question>> /\ AnswerFairness

(* The second question alone.                                               *)
SampledSpec ==
  /\ AnswerInit /\ question = "path"
  /\ [][Sampled(First) /\ UNCHANGED question]_<<pathVars, question>>
  /\ AnswerFairness
=============================================================================
