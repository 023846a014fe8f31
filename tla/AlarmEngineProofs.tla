-------------------------- MODULE AlarmEngineProofs --------------------------
(***************************************************************************)
(* The invariants of AlarmEngine, for any tags, limits and bounds.  With   *)
(* them: every change of an alarm against the table of allowed             *)
(* transitions, and the engine behind the parse thread (AlarmPath), which  *)
(* makes no call that the engine's own parse thread could not make.        *)
(***************************************************************************)
EXTENDS AlarmPath, AlarmStateMachine, TLAPS

-----------------------------------------------------------------------------
(* What the helpers return.                                                 *)

(* The detector stays in its range: the count is capped at the threshold.   *)
LEMMA DetectorType ==
  ASSUME NEW f \in Detectors
  PROVE  /\ NoFlood \in Detectors
         /\ RecordAlarm(f) \in Detectors
         /\ CheckFloodExpired(f) \in Detectors
<1>1. FloodThreshold \in Nat /\ FloodThreshold >= 2
  BY FloodThresholdAssumption
<1>2. EndFlood(f) \in Detectors
  BY DEF EndFlood, Detectors, FloodPhases
<1>3. CountAlarm(f) \in Detectors
  BY <1>1 DEF CountAlarm, Detectors, FloodPhases, InFlood
<1>4. OpenWindow(f) \in Detectors
  BY <1>1, <1>2 DEF OpenWindow, Detectors
<1> QED
  BY <1>1, <1>2, <1>3, <1>4 DEF NoFlood, RecordAlarm, CheckFloodExpired, Detectors

(* So do the deadlines.                                                     *)
LEMMA ShelfType ==
  ASSUME NEW s \in Shelves
  PROVE  /\ NotShelved \in Shelves
         /\ \A duration \in Durations, isAuto \in BOOLEAN :
              AfterShelve(s, duration, isAuto) \in Shelves
         /\ AfterUnshelve(s) \in Shelves
         /\ AfterExpiryCheck(s) \in Shelves
<1>1. MaxAutoShelve \in Nat \ {0}
  BY MaxAutoShelveAssumption
<1>2. \A n \in 0 .. MaxAutoShelve : Bump(n) \in 0 .. MaxAutoShelve
  BY <1>1 DEF Bump
<1>3. NotShelved \in Shelves
  BY <1>1 DEF NotShelved, Shelves
<1>4. \A duration \in Durations, isAuto \in BOOLEAN :
        AfterShelve(s, duration, isAuto) \in Shelves
  BY <1>1, <1>2 DEF AfterShelve, Shelves, Durations
<1>5. AfterUnshelve(s) \in Shelves
  BY DEF AfterUnshelve, Shelves
<1>6. AfterExpiryCheck(s) \in Shelves
  BY <1>1, <1>2 DEF AfterExpiryCheck, Shelves, ExtendsOnExpiry, ReleasedOnExpiry
<1> QED
  BY <1>3, <1>4, <1>5, <1>6

(* An alarm the engine may hold: a state that hides it has its flag, and an *)
(* absent one is blank.                                                     *)
Sound(e) ==
  /\ e \in Alarms
  /\ e.state = "Shelved" => IsShelved(e)
  /\ e.state = "outOfService" => e.outOfService
  /\ ~ Present(e) => e = NoAlarm

LEMMA LimitsAreNotNormal ==
  \A limit \in Limits : limit # NormalLimit /\ limit \in 1 .. 6
BY LimitsAssumption DEF NormalLimit

LEMMA NewAlarmSound ==
  /\ Sound(NoAlarm)
  /\ \A limit \in Limits \cup {NormalLimit} :
       Sound(NewAlarm(limit)) /\ NewAlarm(limit).state = "ActiveUnack"
                            /\ NewAlarm(limit).shelve = "none"
                            /\ NewAlarm(limit).limit = limit
BY DEF Sound, Alarms, NoAlarm, NewAlarm, Present, IsShelved, UnmaskedStates,
       ActiveStates, MaskedStates, ShelveReasons

(* Every change that the operations make to a single alarm keeps it sound.  *)
LEMMA AlarmChanges ==
  ASSUME NEW e, Sound(e)
  PROVE  /\ \A limit \in Limits \cup {NormalLimit} :
              Sound([e EXCEPT !.state = "ActiveUnack", !.limit = limit,
                              !.acknowledged = FALSE])
         /\ Sound([e EXCEPT !.state = "ReturnToNormalunack"])
         /\ Sound([e EXCEPT !.state = "SuppressedByDesign"])
         /\ Sound([e EXCEPT !.state = "outOfService", !.outOfService = TRUE])
         /\ \A why \in ShelveReasons :
              Sound([e EXCEPT !.state = "Shelved", !.shelve = why])
         /\ \A s \in UnmaskedStates :
              Sound([e EXCEPT !.state = s, !.shelve = "none"])
         /\ ReleasedState(e) \in {"ActiveUnack", "ReturnToNormalunack"}
         /\ Sound([e EXCEPT !.state = ReleasedState(e)])
         /\ Sound([e EXCEPT !.shelve = "none", !.state = ReleasedState(e)])
         /\ Sound([e EXCEPT !.outOfService = FALSE, !.state = ReleasedState(e)])
         /\ Sound(AcknowledgedAlarm(e))
         /\ Sound(ErasedAlarm(e))
<1> USE DEF Sound, Alarms, Present, IsShelved, UnmaskedStates, ActiveStates,
            MaskedStates, ShelveReasons
<1>1. \A limit \in Limits \cup {NormalLimit} :
        Sound([e EXCEPT !.state = "ActiveUnack", !.limit = limit,
                        !.acknowledged = FALSE])
  OBVIOUS
<1>2. /\ Sound([e EXCEPT !.state = "ReturnToNormalunack"])
      /\ Sound([e EXCEPT !.state = "SuppressedByDesign"])
  OBVIOUS
<1>3. Sound([e EXCEPT !.state = "outOfService", !.outOfService = TRUE])
  OBVIOUS
<1>4. \A why \in ShelveReasons : Sound([e EXCEPT !.state = "Shelved", !.shelve = why])
  OBVIOUS
<1>5. \A s \in UnmaskedStates : Sound([e EXCEPT !.state = s, !.shelve = "none"])
  OBVIOUS
<1>6. ReleasedState(e) \in {"ActiveUnack", "ReturnToNormalunack"}
  BY DEF ReleasedState
<1>7. /\ Sound([e EXCEPT !.state = ReleasedState(e)])
      /\ Sound([e EXCEPT !.shelve = "none", !.state = ReleasedState(e)])
      /\ Sound([e EXCEPT !.outOfService = FALSE, !.state = ReleasedState(e)])
  BY <1>6
<1>8. Sound(AcknowledgedAlarm(e))
  BY DEF AcknowledgedAlarm
<1>9. Sound(ErasedAlarm(e))
  BY NewAlarmSound DEF ErasedAlarm
<1> QED
  BY <1>1, <1>2, <1>3, <1>4, <1>5, <1>6, <1>7, <1>8, <1>9

-----------------------------------------------------------------------------
(* The parse thread.                                                        *)

AlarmsSound == alarm \in [Tags -> Alarms] /\ \A t \in Tags : Sound(alarm[t])

LEMMA SoundAlarms == TypeOK /\ NoOrphanMask /\ AbsentIsBlank <=> TypeOK /\ AlarmsSound
BY DEF AlarmsSound, Sound, TypeOK, NoOrphanMask, AbsentIsBlank

(* The alarm of one tag is replaced by a sound one.                         *)
LEMMA OneAlarmChanges ==
  ASSUME AlarmsSound, NEW t \in Tags, NEW e, Sound(e), alarm' = [alarm EXCEPT ![t] = e]
  PROVE  AlarmsSound' /\ alarm'[t] = e /\ \A u \in Tags \ {t} : alarm'[u] = alarm[u]
BY DEF AlarmsSound, Sound

LEMMA TriggerAlarmStep ==
  ASSUME IInv, NEW t \in Tags, NEW limit \in Limits, NEW masked \in BOOLEAN,
         TriggerAlarm(t, limit, masked)
  PROVE  IInv'
<1> DEFINE e == [alarm[t] EXCEPT !.state = "ActiveUnack", !.limit = limit,
                                 !.acknowledged = FALSE]
<1>1. TypeOK /\ AlarmsSound /\ limit # NormalLimit
  BY SoundAlarms, LimitsAreNotNormal DEF IInv
<1>2. \/ UNCHANGED alarm
      \/ ~ IsShelved(alarm[t]) /\ alarm' = [alarm EXCEPT ![t] = e]
  <2>1. ASSUME Announce(t, limit), ~ Blocked(t, masked)
        PROVE  ~ IsShelved(alarm[t]) /\ alarm' = [alarm EXCEPT ![t] = e]
    BY <2>1, <1>1 DEF Announce, Blocked, AlarmsSound
  <2> QED
    BY <2>1 DEF TriggerAlarm, Escalate, Refresh, Reactivate, StartOnDelay
<1>3. AlarmsSound'
  <2>1. Sound(e)
    BY <1>1, AlarmChanges DEF AlarmsSound
  <2>2. CASE UNCHANGED alarm
    BY <2>2, <1>1 DEF AlarmsSound, Sound, Present, IsShelved
  <2> QED
    BY <1>1, <1>2, <2>1, <2>2, OneAlarmChanges
<1>4. /\ onDelay' \in [Tags -> Delays]
      /\ offDelay' \in [Tags -> {"none", "running", "due"}]
      /\ \A u \in Tags \ {t} : onDelay'[u] = onDelay[u]
      /\ signal' = [signal EXCEPT ![t] = limit]
  <2>1. /\ onDelay \in [Tags -> Delays]
        /\ offDelay \in [Tags -> {"none", "running", "due"}]
        /\ signal' = [signal EXCEPT ![t] = limit]
    BY <1>1 DEF TypeOK, TriggerAlarm
  <2>2. CASE UNCHANGED <<onDelay, offDelay>>
    BY <2>1, <2>2
  <2>3. CASE StartOnDelay(t, limit)
    <3>1. [onDelay[t] EXCEPT !.limit = IF limit > @ THEN limit ELSE @] \in Delays
      BY <2>1 DEF Delays
    <3>2. [limit |-> limit, due |-> FALSE] \in Delays
      BY DEF Delays
    <3> QED
      BY <2>1, <2>3, <3>1, <3>2 DEF StartOnDelay
  <2> QED
    BY <2>1, <2>2, <2>3 DEF TriggerAlarm, Escalate, Refresh, Reactivate
<1>5. UNCHANGED <<shelf, chatter, flood, floodVars, main>>
  BY DEF TriggerAlarm
<1>6. \A u \in Tags : IsShelved(alarm'[u]) => alarm'[u] = alarm[u]
  BY <1>1, <1>2 DEF AlarmsSound, IsShelved, Alarms
<1>7. TypeOK' /\ NoOrphanMask' /\ AbsentIsBlank'
  BY <1>1, <1>3, <1>4, <1>5 DEF TypeOK, floodVars, SoundAlarms, AlarmsSound, Sound,
     NoOrphanMask, AbsentIsBlank
<1>8. PendingImpliesViolating'
  BY <1>1, <1>4 DEF IInv, PendingImpliesViolating, Delayed, TypeOK
<1>9. HandlerHasTag' /\ RecoveryTracked'
  BY <1>5 DEF IInv, HandlerHasTag, RecoveryTracked, Tagged, floodVars
<1>10. ShelvedHasRelease' /\ CriticalNotFloodShelved'
  BY <1>5, <1>6 DEF IInv, ShelvedHasRelease, CriticalNotFloodShelved, Released,
     IsShelved, floodVars
<1> QED
  BY <1>7, <1>8, <1>9, <1>10 DEF IInv

LEMMA ClearAlarmStep ==
  ASSUME IInv, NEW t \in Tags, ClearAlarm(t)
  PROVE  IInv'
<1> DEFINE e == [alarm[t] EXCEPT !.state = "ReturnToNormalunack"]
<1>1. TypeOK /\ AlarmsSound
  BY SoundAlarms DEF IInv
<1>2. \/ UNCHANGED alarm
      \/ ~ IsShelved(alarm[t]) /\ alarm' = [alarm EXCEPT ![t] = e]
  <2>1. ReturnToNormal(t) => alarm' = [alarm EXCEPT ![t] = e]
    BY <1>1 DEF ReturnToNormal, AlarmsSound
  <2> QED
    BY <2>1 DEF ClearAlarm
<1>3. AlarmsSound'
  <2>1. Sound(e)
    BY <1>1, AlarmChanges DEF AlarmsSound
  <2>2. CASE UNCHANGED alarm
    BY <2>2, <1>1 DEF AlarmsSound, Sound, Present, IsShelved
  <2> QED
    BY <1>1, <1>2, <2>1, <2>2, OneAlarmChanges
<1>4. /\ onDelay' = [onDelay EXCEPT ![t] = NoDelay]
      /\ signal' = [signal EXCEPT ![t] = NormalLimit]
      /\ offDelay' \in [Tags -> {"none", "running", "due"}]
  BY <1>1 DEF ClearAlarm, Withdraw, TypeOK
<1>5. UNCHANGED <<shelf, chatter, flood, floodVars, main>>
  BY DEF ClearAlarm
<1>6. \A u \in Tags : IsShelved(alarm'[u]) => alarm'[u] = alarm[u]
  BY <1>1, <1>2 DEF AlarmsSound, IsShelved, Alarms
<1>7. TypeOK' /\ NoOrphanMask' /\ AbsentIsBlank'
  BY <1>1, <1>3, <1>4, <1>5 DEF TypeOK, floodVars, AlarmsSound, Sound,
     NoOrphanMask, AbsentIsBlank, NoDelay, Delays
<1>8. PendingImpliesViolating'
  BY <1>1, <1>4 DEF IInv, PendingImpliesViolating, Delayed, TypeOK, NoDelay
<1>9. HandlerHasTag' /\ RecoveryTracked'
  BY <1>5 DEF IInv, HandlerHasTag, RecoveryTracked, Tagged, floodVars
<1>10. ShelvedHasRelease' /\ CriticalNotFloodShelved'
  BY <1>5, <1>6 DEF IInv, ShelvedHasRelease, CriticalNotFloodShelved, Released,
     IsShelved, floodVars
<1> QED
  BY <1>7, <1>8, <1>9, <1>10 DEF IInv

-----------------------------------------------------------------------------
(* The timers.                                                              *)

(* What of the invariant a step keeps that leaves most variables alone.     *)
LEMMA KeepsPending ==
  ASSUME PendingImpliesViolating, UNCHANGED signal,
         \A t \in Tags : onDelay'[t].limit \in {onDelay[t].limit, NormalLimit}
  PROVE  PendingImpliesViolating'
BY DEF PendingImpliesViolating, Delayed

LEMMA KeepsRecovery ==
  ASSUME RecoveryTracked, UNCHANGED <<pending, recoveryPending>>
  PROVE  RecoveryTracked'
BY DEF RecoveryTracked, Tagged

LEMMA LoopType ==
  ASSUME NEW job \in Jobs, NEW todo \in SUBSET Tags
  PROVE  /\ Loop(job, todo) \in [job : Jobs, todo : SUBSET Tags, tag : Tags \cup {NoTag},
                                  limit : Limits \cup {NormalLimit}]
         /\ Loop(job, todo).job \in {"idle", job}
         /\ Loop(job, todo).todo = todo
         /\ todo # {} => Loop(job, todo).job = job
BY DEF Loop, Idle, Jobs

(* A step of a handler that is not the unshelving one, and that leaves the  *)
(* alarms alone.                                                            *)
LEMMA HandlerStep ==
  ASSUME IInv, ~ (main.job = "unshelve"),
         UNCHANGED <<signal, alarm, shelf, chatter, flood, floodVars>>,
         main' \in [job : Jobs, todo : SUBSET Tags, tag : Tags \cup {NoTag},
                   limit : Limits \cup {NormalLimit}],
         HandlerHasTag',
         onDelay' \in [Tags -> Delays],
         \A t \in Tags : onDelay'[t].limit \in {onDelay[t].limit, NormalLimit},
         offDelay' \in [Tags -> {"none", "running", "due"}]
  PROVE  IInv'
<1>1. TypeOK' /\ NoOrphanMask' /\ AbsentIsBlank'
  BY DEF IInv, TypeOK, NoOrphanMask, AbsentIsBlank, floodVars, IsShelved, Present
<1>2. PendingImpliesViolating' /\ RecoveryTracked'
  BY KeepsPending, KeepsRecovery DEF IInv, floodVars
<1>3. ShelvedHasRelease' /\ CriticalNotFloodShelved'
  BY DEF IInv, ShelvedHasRelease, CriticalNotFloodShelved, Released, floodVars
<1> QED
  BY <1>1, <1>2, <1>3 DEF IInv

LEMMA OnDelayScanStep ==
  ASSUME IInv, OnDelayScan
  PROVE  IInv'
<1>1. "onDelay" \in Jobs /\ {t \in Tags : onDelay[t].due} \in SUBSET Tags
  BY DEF Jobs
<1>2. HandlerHasTag' /\ main.job # "unshelve"
  BY <1>1, LoopType DEF OnDelayScan, HandlerHasTag, MainIdle
<1> QED
  BY <1>1, <1>2, LoopType, HandlerStep DEF OnDelayScan, IInv, TypeOK

LEMMA OnDelayTakeStep ==
  ASSUME IInv, NEW t \in Tags, OnDelayTake(t)
  PROVE  IInv'
<1>1. TypeOK /\ main.job = "onDelay" /\ main.todo \ {t} \in SUBSET Tags
  BY DEF IInv, TypeOK, OnDelayTake
<1>2. NoDelay \in Delays /\ NoDelay.limit = NormalLimit
  BY DEF NoDelay, Delays
<1>3. /\ onDelay' \in [Tags -> Delays]
      /\ \A u \in Tags : onDelay'[u].limit \in {onDelay[u].limit, NormalLimit}
  BY <1>1, <1>2 DEF OnDelayTake, TypeOK
<1>4. /\ main' \in [job : Jobs, todo : SUBSET Tags, tag : Tags \cup {NoTag},
                    limit : Limits \cup {NormalLimit}]
      /\ HandlerHasTag'
  <2>1. CASE Delayed(t)
    BY <2>1, <1>1 DEF OnDelayTake, TypeOK, Delays, Jobs, HandlerHasTag
  <2>2. CASE ~ Delayed(t)
    <3>1. main' = Loop("onDelay", main.todo \ {t}) /\ "onDelay" \in Jobs
      BY <2>2 DEF OnDelayTake, Jobs
    <3> QED
      BY <3>1, <1>1, LoopType DEF HandlerHasTag
  <2> QED
    BY <2>1, <2>2
<1> QED
  BY <1>1, <1>3, <1>4, HandlerStep DEF OnDelayTake, TypeOK

LEMMA OffDelayScanStep ==
  ASSUME IInv, OffDelayScan
  PROVE  IInv'
<1>1. "offDelay" \in Jobs /\ {t \in Tags : offDelay[t] = "due"} \in SUBSET Tags
  BY DEF Jobs
<1>2. HandlerHasTag' /\ main.job # "unshelve"
  BY <1>1, LoopType DEF OffDelayScan, HandlerHasTag, MainIdle
<1> QED
  BY <1>1, <1>2, LoopType, HandlerStep DEF OffDelayScan, IInv, TypeOK

LEMMA OffDelayRemoveStep ==
  ASSUME IInv, NEW t \in Tags, OffDelayRemove(t)
  PROVE  IInv'
<1>1. /\ main' \in [job : Jobs, todo : SUBSET Tags, tag : Tags \cup {NoTag},
                    limit : Limits \cup {NormalLimit}]
      /\ HandlerHasTag'
  BY DEF IInv, OffDelayRemove, TypeOK, Jobs, HandlerHasTag
<1>2. offDelay' \in [Tags -> {"none", "running", "due"}]
  BY DEF IInv, OffDelayRemove, TypeOK
<1> QED
  BY <1>1, <1>2, HandlerStep DEF OffDelayRemove, IInv, TypeOK

(* A step that changes alarms and deadlines, of a handler or the operator.  *)
(* An alarm that is shelved afterwards was shelved before in the same way,  *)
(* or is newly given a deadline, or is shelved without a time.              *)
LEMMA AlarmStep ==
  ASSUME IInv,
         UNCHANGED <<signal, onDelay, offDelay, flood, floodVars>>,
         main' \in [job : Jobs, todo : SUBSET Tags, tag : Tags \cup {NoTag},
                   limit : Limits \cup {NormalLimit}],
         HandlerHasTag', main.job = "unshelve" => main' = main,
         AlarmsSound', shelf' \in [Tags -> Shelves],
         chatter' \in [Tags -> 0 .. ChatterLimit],
         \A t \in Tags :
           \/ ~ IsShelved(alarm'[t])
           \/ /\ alarm'[t].shelve = alarm[t].shelve
              /\ alarm'[t].limit = alarm[t].limit
              /\ shelf'[t].deadline = shelf[t].deadline
           \/ alarm'[t].shelve \in {"timed", "chatter"} /\ shelf'[t].deadline # "none"
           \/ alarm'[t].shelve = "open"
  PROVE  IInv'
<1>1. TypeOK' /\ NoOrphanMask' /\ AbsentIsBlank'
  BY DEF IInv, TypeOK, NoOrphanMask, AbsentIsBlank, floodVars, AlarmsSound, Sound
<1>2. PendingImpliesViolating' /\ RecoveryTracked'
  BY KeepsPending, KeepsRecovery DEF IInv, floodVars
<1>3. ShelvedHasRelease'
  BY DEF IInv, ShelvedHasRelease, Released, floodVars, IsShelved
<1>4. CriticalNotFloodShelved'
  BY DEF IInv, CriticalNotFloodShelved, IsShelved
<1> QED
  BY <1>1, <1>2, <1>3, <1>4 DEF IInv

LEMMA OffDelayTimeoutStep ==
  ASSUME IInv, OffDelayTimeout
  PROVE  IInv'
<1> DEFINE e == [alarm[main.tag] EXCEPT !.state = "ReturnToNormalunack"]
<1>1. /\ TypeOK /\ AlarmsSound /\ main.job = "return" /\ main.tag \in Tags
      /\ main.todo \in SUBSET Tags
  BY SoundAlarms DEF IInv, OffDelayTimeout, HandlerHasTag, TypeOK
<1>2. /\ main' \in [job : Jobs, todo : SUBSET Tags, tag : Tags \cup {NoTag},
                    limit : Limits \cup {NormalLimit}]
      /\ HandlerHasTag'
  <2>1. main' = Loop("offDelay", main.todo) /\ "offDelay" \in Jobs
    BY DEF OffDelayTimeout, Jobs
  <2> QED
    BY <2>1, <1>1, LoopType DEF HandlerHasTag
<1>3. \/ UNCHANGED alarm
      \/ alarm' = [alarm EXCEPT ![main.tag] = e]
  <2>1. ReturnToNormal(main.tag) => alarm' = [alarm EXCEPT ![main.tag] = e]
    BY <1>1 DEF ReturnToNormal, AlarmsSound
  <2> QED
    BY <2>1 DEF OffDelayTimeout
<1>4. Sound(e) /\ e.shelve = alarm[main.tag].shelve /\ e.limit = alarm[main.tag].limit
  BY <1>1, AlarmChanges DEF AlarmsSound, Alarms
<1>5. /\ AlarmsSound'
      /\ \A t \in Tags : /\ alarm'[t].shelve = alarm[t].shelve
                         /\ alarm'[t].limit = alarm[t].limit
  <2>1. CASE UNCHANGED alarm
    BY <2>1, <1>1 DEF AlarmsSound, Sound, Present, IsShelved
  <2>2. CASE alarm' = [alarm EXCEPT ![main.tag] = e]
    <3> HIDE DEF e
    <3> QED
      BY <2>2, <1>1, <1>4, OneAlarmChanges
  <2> QED
    BY <1>3, <2>1, <2>2
<1>6. /\ UNCHANGED <<signal, onDelay, offDelay, shelf, chatter, flood, floodVars>>
      /\ shelf \in [Tags -> Shelves] /\ chatter \in [Tags -> 0 .. ChatterLimit]
  BY <1>1 DEF OffDelayTimeout, TypeOK
<1> QED
  BY <1>1, <1>2, <1>5, <1>6, AlarmStep

(* What checkFloodCondition makes of sound alarms: it leaves one alone, or  *)
(* saves its state and shelves it, which no Critical alarm suffers.         *)
LEMMA FloodCheck ==
  ASSUME TypeOK, NEW f, NEW al \in [Tags -> Alarms], \A t \in Tags : Sound(al[t])
  PROVE  /\ AlarmsAfterCheck(f, al) \in [Tags -> Alarms]
         /\ SuppressedAfterCheck(f, al) \in [Tags -> SavedStates]
         /\ PendingAfterCheck(f) \in [Tags -> SavedStates]
         /\ StartsRecovery(f) \in BOOLEAN
         /\ \A t \in Tags :
              /\ Sound(AlarmsAfterCheck(f, al)[t])
              /\ \/ /\ AlarmsAfterCheck(f, al)[t] = al[t]
                    /\ SuppressedAfterCheck(f, al)[t] = floodSuppressed[t]
                 \/ /\ AlarmsAfterCheck(f, al)[t].shelve = "flood"
                    /\ ~ Critical(AlarmsAfterCheck(f, al)[t].limit)
                    /\ SuppressedAfterCheck(f, al)[t] # "none"
<1>1. ASSUME NEW t \in Tags, Victim(f, al, t)
      PROVE  /\ al[t].state \in UnmaskedStates
             /\ ~ Critical(al[t].limit)
  BY <1>1 DEF Victim, Exempt, Sound, Alarms, MaskedStates, IsSuppressed, Present
<1>2. ASSUME NEW t \in Tags
      PROVE  /\ AlarmsAfterCheck(f, al)[t] \in Alarms
             /\ Sound(AlarmsAfterCheck(f, al)[t])
             /\ Victim(f, al, t) => /\ AlarmsAfterCheck(f, al)[t].shelve = "flood"
                                    /\ AlarmsAfterCheck(f, al)[t].limit = al[t].limit
             /\ ~ Victim(f, al, t) => AlarmsAfterCheck(f, al)[t] = al[t]
  <2>1. Sound([al[t] EXCEPT !.state = "Shelved", !.shelve = "flood"])
    BY AlarmChanges DEF ShelveReasons
  <2> QED
    BY <2>1 DEF AlarmsAfterCheck, Sound, Alarms
<1>3. AlarmsAfterCheck(f, al) \in [Tags -> Alarms]
  BY <1>2 DEF AlarmsAfterCheck
<1>4. ASSUME NEW t \in Tags
      PROVE  /\ SuppressedAfterCheck(f, al)[t] \in SavedStates
             /\ Victim(f, al, t) => SuppressedAfterCheck(f, al)[t] # "none"
             /\ ~ Victim(f, al, t) => SuppressedAfterCheck(f, al)[t] = floodSuppressed[t]
  BY <1>1 DEF SuppressedAfterCheck, SavedStates, TypeOK, UnmaskedStates, ActiveStates
<1>5. SuppressedAfterCheck(f, al) \in [Tags -> SavedStates]
  BY <1>4 DEF SuppressedAfterCheck
<1>6. PendingAfterCheck(f) \in [Tags -> SavedStates] /\ StartsRecovery(f) \in BOOLEAN
  BY DEF PendingAfterCheck, StartsRecovery, TypeOK
<1> QED
  BY <1>1, <1>2, <1>3, <1>4, <1>5, <1>6

LEMMA RecoveryStarts ==
  ASSUME RecoveryTracked, NEW f
  PROVE  /\ recoveryPending \/ StartsRecovery(f) <=> Tagged(PendingAfterCheck(f)) # {}
BY DEF RecoveryTracked, StartsRecovery, PendingAfterCheck, Tagged

LEMMA ShelveChatteringStep ==
  ASSUME IInv, OnDelayTimeout, ShelveChattering(main.tag), HandlerHasTag',
         UNCHANGED <<signal, onDelay, offDelay>>, main.tag \in Tags,
         main.job = "raise",
         main' \in [job : Jobs, todo : SUBSET Tags, tag : Tags \cup {NoTag},
                   limit : Limits \cup {NormalLimit}],
         chatter' \in [Tags -> 0 .. ChatterLimit]
  PROVE  IInv'
<1> DEFINE t == main.tag
           e == [alarm[t] EXCEPT !.state = "Shelved", !.shelve = "chatter"]
           s == AfterShelve(shelf[t], "timed", TRUE)
<1>1. TypeOK /\ AlarmsSound
  BY SoundAlarms DEF IInv
<1>2. Sound(e) /\ e.shelve = "chatter"
  BY <1>1, AlarmChanges DEF AlarmsSound, ShelveReasons, Alarms
<1>3. s \in Shelves /\ s.deadline # "none"
  BY <1>1, ShelfType DEF TypeOK, Durations, AfterShelve
<1>4. UNCHANGED <<flood, floodVars>>
  BY DEF ShelveChattering
<1>5. CASE Present(alarm[t])
  <2>1. alarm' = [alarm EXCEPT ![t] = e] /\ shelf' = [shelf EXCEPT ![t] = s]
    BY <1>1, <1>5 DEF ShelveChattering, AlarmsSound
  <2>2. AlarmsSound' /\ alarm'[t] = e /\ \A u \in Tags \ {t} : alarm'[u] = alarm[u]
    <3> HIDE DEF e
    <3> QED
      BY <2>1, <1>1, <1>2, OneAlarmChanges
  <2>3. /\ shelf' \in [Tags -> Shelves] /\ shelf'[t].deadline # "none"
        /\ \A u \in Tags \ {t} : shelf'[u] = shelf[u]
    BY <2>1, <1>1, <1>3 DEF TypeOK
  <2> HIDE DEF t, e, s
  <2> QED
    BY <2>2, <2>3, <1>2, <1>4, AlarmStep
<1>6. CASE ~ Present(alarm[t])
  <2>1. UNCHANGED <<alarm, shelf>>
    BY <1>6 DEF ShelveChattering
  <2>2. AlarmsSound' /\ shelf' \in [Tags -> Shelves]
    BY <2>1, <1>1 DEF AlarmsSound, TypeOK, Sound, Present, IsShelved
  <2> QED
    BY <2>1, <2>2, <1>4, AlarmStep
<1> QED
  BY <1>5, <1>6

(* What remains of the invariant after checkFloodCondition has run on       *)
(* alarms "al" that are, or have become, sound.                             *)
LEMMA RaiseStep ==
  ASSUME IInv, Raise(main.tag, main.limit), HandlerHasTag',
         UNCHANGED <<signal, onDelay, offDelay>>, main.tag \in Tags,
         main.job = "raise",
         main' \in [job : Jobs, todo : SUBSET Tags, tag : Tags \cup {NoTag},
                   limit : Limits \cup {NormalLimit}],
         chatter' \in [Tags -> 0 .. ChatterLimit]
  PROVE  IInv'
<1> DEFINE f == RecordAlarm(flood)
           al == [alarm EXCEPT ![main.tag] = NewAlarm(main.limit)]
<1>1. TypeOK /\ AlarmsSound /\ main.limit \in Limits \cup {NormalLimit}
  BY SoundAlarms DEF IInv, TypeOK
<1>2. /\ al \in [Tags -> Alarms] /\ al[main.tag].shelve = "none"
      /\ \A t \in Tags : Sound(al[t]) /\ (al[t] = alarm[t] \/ al[t].shelve = "none")
  BY <1>1, NewAlarmSound DEF AlarmsSound, Sound
<1>3. f \in Detectors
  BY <1>1, DetectorType DEF TypeOK
<1>4. /\ flood' = f /\ UNCHANGED shelf
      /\ alarm' = AlarmsAfterCheck(f, al)
      /\ floodSuppressed' = SuppressedAfterCheck(f, al)
      /\ pending' = PendingAfterCheck(f)
      /\ recoveryPending' = (recoveryPending \/ StartsRecovery(f))
  BY DEF Raise
<1> HIDE DEF f, al
<1>5. AlarmsSound' /\ floodSuppressed' \in [Tags -> SavedStates]
      /\ pending' \in [Tags -> SavedStates] /\ recoveryPending' \in BOOLEAN
  BY <1>1, <1>2, <1>4, FloodCheck DEF AlarmsSound, TypeOK
<1>6. TypeOK' /\ NoOrphanMask' /\ AbsentIsBlank'
  BY <1>1, <1>3, <1>4, <1>5 DEF TypeOK, NoOrphanMask, AbsentIsBlank, AlarmsSound, Sound
<1>7. PendingImpliesViolating'
  BY KeepsPending DEF IInv
<1>8. RecoveryTracked'
  <2>1. Tagged(pending') = Tagged(PendingAfterCheck(f))
    BY <1>4
  <2>2. recoveryPending' <=> recoveryPending \/ StartsRecovery(f)
    BY <1>4
  <2>3. RecoveryTracked
    BY DEF IInv
  <2>4. recoveryPending \/ StartsRecovery(f) <=> Tagged(PendingAfterCheck(f)) # {}
    BY <2>3, RecoveryStarts
  <2>5. recoveryPending' <=> Tagged(pending') # {}
    BY <2>1, <2>2, <2>4
  <2> QED
    BY <2>5 DEF RecoveryTracked, Tagged
<1>9. ASSUME NEW t \in Tags
      PROVE  \/ alarm'[t] = al[t] /\ floodSuppressed'[t] = floodSuppressed[t]
             \/ /\ alarm'[t].shelve = "flood" /\ ~ Critical(alarm'[t].limit)
                /\ floodSuppressed'[t] # "none"
  BY <1>1, <1>2, <1>4, FloodCheck
<1>10. ShelvedHasRelease'
  BY <1>2, <1>4, <1>9 DEF IInv, ShelvedHasRelease, Released
<1>11. CriticalNotFloodShelved'
  BY <1>2, <1>9 DEF IInv, CriticalNotFloodShelved
<1> QED
  BY <1>6, <1>7, <1>8, <1>10, <1>11 DEF IInv

LEMMA OnDelayTimeoutStep ==
  ASSUME IInv, OnDelayTimeout
  PROVE  IInv'
<1>1. /\ TypeOK /\ main.job = "raise" /\ main.tag \in Tags
      /\ main.todo \in SUBSET Tags
  BY DEF IInv, OnDelayTimeout, HandlerHasTag, TypeOK
<1>2. /\ main' \in [job : Jobs, todo : SUBSET Tags, tag : Tags \cup {NoTag},
                    limit : Limits \cup {NormalLimit}]
      /\ HandlerHasTag'
  <2>1. main' = Loop("onDelay", main.todo) /\ "onDelay" \in Jobs
    BY DEF OnDelayTimeout, Jobs
  <2> QED
    BY <2>1, <1>1, LoopType DEF HandlerHasTag
<1>3. UNCHANGED <<signal, onDelay, offDelay>> /\ main.job # "unshelve"
  BY <1>1 DEF OnDelayTimeout
<1>4. CASE UNCHANGED <<alarm, shelf, chatter, flood, floodVars>>
  BY <1>1, <1>2, <1>3, <1>4, HandlerStep DEF TypeOK
<1>5. CASE chatter' = [chatter EXCEPT ![main.tag] = Repeats(main.tag)]
           /\ (ShelveChattering(main.tag) \/ Raise(main.tag, main.limit))
  <2>1. Repeats(main.tag) \in 0 .. ChatterLimit
    BY <1>1, CountsAssumption DEF Repeats, TypeOK
  <2>2. chatter' \in [Tags -> 0 .. ChatterLimit]
    BY <1>1, <1>5, <2>1 DEF TypeOK
  <2> QED
    BY <1>1, <1>2, <1>3, <1>5, <2>2, ShelveChatteringStep, RaiseStep
<1> QED
  BY <1>4, <1>5 DEF OnDelayTimeout

(* A deadline the expiry check removes is one it hands to the tick.         *)
LEMMA DeadlineKept ==
  ASSUME NEW s \in Shelves, s.deadline # "none"
  PROVE  AfterExpiryCheck(s).deadline # "none" \/ ReleasedOnExpiry(s)
BY DEF AfterExpiryCheck, ExtendsOnExpiry, ReleasedOnExpiry, Shelves

(* One batch is given back its saved states.                                *)
LEMMA BatchRestored ==
  ASSUME NEW al \in [Tags -> Alarms], \A t \in Tags : Sound(al[t]),
         NEW saved \in [Tags -> SavedStates], NEW done \in SUBSET Tagged(saved),
         NEW t \in Tags
  PROVE  /\ Restored(al, saved, done)[t] \in Alarms
         /\ Sound(Restored(al, saved, done)[t])
         /\ \/ t \notin done /\ Restored(al, saved, done)[t] = al[t]
            \/ Restored(al, saved, done)[t].shelve = "none"
<1>1. CASE t \in done /\ Present(al[t])
  <2>1. saved[t] \in UnmaskedStates
    BY <1>1 DEF Tagged, SavedStates
  <2>2. Sound([al[t] EXCEPT !.state = saved[t], !.shelve = "none"])
    BY <2>1, AlarmChanges
  <2>3. Restored(al, saved, done)[t] = [al[t] EXCEPT !.state = saved[t], !.shelve = "none"]
    BY <1>1 DEF Restored
  <2> QED
    BY <2>2, <2>3 DEF Alarms, Sound
<1>2. CASE ~ (t \in done /\ Present(al[t]))
  <2>1. Restored(al, saved, done)[t] = al[t]
    BY <1>2 DEF Restored
  <2>2. ~ Present(al[t]) => al[t].shelve = "none"
    BY DEF Sound, NoAlarm, NewAlarm
  <2> QED
    BY <1>2, <2>1, <2>2
<1> QED
  BY <1>1, <1>2

LEMMA WithoutType ==
  ASSUME NEW saved \in [Tags -> SavedStates], NEW done \in SUBSET Tags
  PROVE  /\ Without(saved, done) \in [Tags -> SavedStates]
         /\ done = {} => Without(saved, done) = saved
         /\ \A t \in Tags \ done : Without(saved, done)[t] = saved[t]
BY DEF Without, SavedStates

LEMMA ShelveTickStep ==
  ASSUME IInv, ShelveTick
  PROVE  IInv'
<1> DEFINE f == CheckFloodExpired(flood)
           al == AlarmsAfterCheck(f, alarm)
           saved == PendingAfterCheck(f)
           held == SuppressedAfterCheck(f, alarm)
           expired == {t \in Tags : ReleasedOnExpiry(shelf[t])}
<1>1. TypeOK /\ AlarmsSound /\ main.job = "idle"
  BY SoundAlarms DEF IInv, ShelveTick, MainIdle
<1>2. /\ f \in Detectors
      /\ al \in [Tags -> Alarms] /\ \A t \in Tags : Sound(al[t])
      /\ saved \in [Tags -> SavedStates] /\ held \in [Tags -> SavedStates]
      /\ \A t \in Tags : \/ al[t] = alarm[t] /\ held[t] = floodSuppressed[t]
                         \/ /\ al[t].shelve = "flood" /\ ~ Critical(al[t].limit)
                            /\ held[t] # "none"
  BY <1>1, FloodCheck, DetectorType DEF AlarmsSound, TypeOK
<1>3. PICK done \in SUBSET Tagged(saved) :
        /\ ~ (recoveryPending \/ StartsRecovery(f)) => done = {}
        /\ alarm' = Restored(al, saved, done)
        /\ floodSuppressed' = Without(held, done)
        /\ pending' = Without(saved, done)
  BY DEF ShelveTick
<1>4. /\ shelf' = [t \in Tags |-> AfterExpiryCheck(shelf[t])]
      /\ flood' = f /\ main' = Loop("unshelve", expired)
      /\ UNCHANGED <<signal, onDelay, offDelay, chatter>>
      /\ recoveryPending' = /\ recoveryPending \/ StartsRecovery(f)
                            /\ Tagged(pending') # {}
  BY DEF ShelveTick
<1>5. expired \in SUBSET Tags /\ "unshelve" \in Jobs
  BY DEF Jobs
<1>6. done \in SUBSET Tags
  BY DEF Tagged
<1>7. recoveryPending \/ StartsRecovery(f) <=> Tagged(saved) # {}
  BY RecoveryStarts DEF IInv
<1> HIDE DEF f, al, saved, held, expired
<1>8. AlarmsSound' /\ \A t \in Tags : \/ t \notin done /\ alarm'[t] = al[t]
                                      \/ alarm'[t].shelve = "none"
  <2>1. alarm' \in [Tags -> Alarms]
    BY <1>2, <1>3, BatchRestored DEF Restored
  <2> QED
    BY <1>2, <1>3, <2>1, BatchRestored DEF AlarmsSound
<1>9. /\ main' \in [job : Jobs, todo : SUBSET Tags, tag : Tags \cup {NoTag},
                    limit : Limits \cup {NormalLimit}]
      /\ main'.job \in {"idle", "unshelve"} /\ main'.todo = expired
      /\ expired # {} => main'.job = "unshelve"
  BY <1>4, <1>5, LoopType
<1>10. /\ floodSuppressed' \in [Tags -> SavedStates] /\ pending' \in [Tags -> SavedStates]
       /\ \A t \in Tags \ done : floodSuppressed'[t] = held[t]
  BY <1>2, <1>3, <1>6, WithoutType
<1>11. shelf' \in [Tags -> Shelves]
  BY <1>1, <1>4, ShelfType DEF TypeOK
<1>12. TypeOK' /\ NoOrphanMask' /\ AbsentIsBlank'
  BY <1>1, <1>2, <1>4, <1>8, <1>9, <1>10, <1>11
     DEF TypeOK, NoOrphanMask, AbsentIsBlank, AlarmsSound, Sound
<1>13. HandlerHasTag'
  BY <1>9 DEF HandlerHasTag
<1>14. PendingImpliesViolating'
  BY <1>4, KeepsPending DEF IInv
<1>15. RecoveryTracked'
  <2>1. ~ (recoveryPending \/ StartsRecovery(f)) => Tagged(pending') = {}
    BY <1>2, <1>3, <1>6, <1>7, WithoutType
  <2>2. recoveryPending' <=> Tagged(pending') # {}
    BY <1>4, <2>1
  <2> QED
    BY <2>2 DEF RecoveryTracked, Tagged
<1>16. ShelvedHasRelease'
  <2> SUFFICES ASSUME NEW t \in Tags
               PROVE  /\ alarm'[t].shelve \in {"timed", "chatter"} =>
                           shelf'[t].deadline # "none" \/ Released(t)'
                      /\ alarm'[t].shelve = "flood" => floodSuppressed'[t] # "none"
    BY DEF ShelvedHasRelease
  <2>1. ASSUME alarm'[t].shelve \in {"timed", "chatter"}
        PROVE  shelf'[t].deadline # "none" \/ Released(t)'
    <3>1. alarm[t].shelve \in {"timed", "chatter"}
      BY <2>1, <1>2, <1>8
    <3>2. shelf[t].deadline # "none" /\ shelf[t] \in Shelves
      BY <3>1, <1>1 DEF IInv, ShelvedHasRelease, Released, TypeOK
    <3>3. AfterExpiryCheck(shelf[t]).deadline # "none" \/ t \in expired
      BY <3>2, DeadlineKept DEF expired
    <3> QED
      BY <3>3, <1>4, <1>9 DEF Released
  <2>2. ASSUME alarm'[t].shelve = "flood"
        PROVE  floodSuppressed'[t] # "none"
    BY <2>2, <1>2, <1>8, <1>10 DEF IInv, ShelvedHasRelease
  <2> QED
    BY <2>1, <2>2
<1>17. CriticalNotFloodShelved'
  BY <1>2, <1>8 DEF IInv, CriticalNotFloodShelved
<1> QED
  BY <1>12, <1>13, <1>14, <1>15, <1>16, <1>17 DEF IInv

(* unshelveAlarm, on the tick or by the operator: "main" may drop t from    *)
(* the tags to unshelve, and no other.                                      *)
LEMMA UnshelveStep ==
  ASSUME IInv, NEW t \in Tags, UnshelveAlarm(t), HandlerHasTag',
         main' \in [job : Jobs, todo : SUBSET Tags, tag : Tags \cup {NoTag},
                   limit : Limits \cup {NormalLimit}],
         \A u \in Tags \ {t} : Released(u) => Released(u)'
  PROVE  IInv'
<1> DEFINE e == [alarm[t] EXCEPT !.shelve = "none", !.state = ReleasedState(alarm[t])]
<1>1. TypeOK /\ AlarmsSound
  BY SoundAlarms DEF IInv
<1>2. Sound(e) /\ e.shelve = "none"
  BY <1>1, AlarmChanges DEF AlarmsSound, Alarms
<1>3. \/ UNCHANGED alarm /\ ~ IsShelved(alarm[t])
      \/ alarm' = [alarm EXCEPT ![t] = e]
  <2>1. CASE IsShelved(alarm[t])
    BY <2>1, <1>1 DEF UnshelveAlarm, AlarmsSound
  <2>2. CASE ~ IsShelved(alarm[t])
    BY <2>2 DEF UnshelveAlarm
  <2> QED
    BY <2>1, <2>2
<1> HIDE DEF e
<1>4. /\ AlarmsSound' /\ alarm'[t].shelve = "none"
      /\ \A u \in Tags \ {t} : alarm'[u] = alarm[u]
  <2>1. CASE UNCHANGED alarm /\ ~ IsShelved(alarm[t])
    BY <2>1, <1>1 DEF AlarmsSound, Sound, Present, IsShelved
  <2>2. CASE alarm' = [alarm EXCEPT ![t] = e]
    BY <2>2, <1>1, <1>2, OneAlarmChanges
  <2> QED
    BY <1>3, <2>1, <2>2
<1>5. /\ shelf' \in [Tags -> Shelves] /\ floodSuppressed' \in [Tags -> SavedStates]
      /\ \A u \in Tags \ {t} : /\ shelf'[u] = shelf[u]
                               /\ floodSuppressed'[u] = floodSuppressed[u]
  BY <1>1, ShelfType DEF UnshelveAlarm, TypeOK, SavedStates
<1>6. UNCHANGED <<signal, onDelay, offDelay, chatter, flood, pending, recoveryPending>>
  BY DEF UnshelveAlarm
<1>7. TypeOK' /\ NoOrphanMask' /\ AbsentIsBlank'
  BY <1>1, <1>4, <1>5, <1>6 DEF TypeOK, NoOrphanMask, AbsentIsBlank, AlarmsSound, Sound
<1>8. PendingImpliesViolating' /\ RecoveryTracked'
  BY <1>6, KeepsPending, KeepsRecovery DEF IInv
<1>9. ShelvedHasRelease' /\ CriticalNotFloodShelved'
  BY <1>4, <1>5 DEF IInv, ShelvedHasRelease, CriticalNotFloodShelved
<1> QED
  BY <1>7, <1>8, <1>9 DEF IInv

LEMMA TickUnshelveStep ==
  ASSUME IInv, NEW t \in Tags, TickUnshelve(t)
  PROVE  IInv'
<1>1. /\ main.job = "unshelve" /\ main.todo \ {t} \in SUBSET Tags
      /\ main' = Loop("unshelve", main.todo \ {t}) /\ "unshelve" \in Jobs
  BY DEF IInv, TypeOK, TickUnshelve, Jobs
<1>2. \A u \in Tags \ {t} : Released(u) => Released(u)'
  BY <1>1, LoopType DEF Released
<1> QED
  BY <1>1, <1>2, LoopType, UnshelveStep DEF TickUnshelve, HandlerHasTag

LEMMA OperatorUnshelveStep ==
  ASSUME IInv, NEW t \in Tags, OperatorUnshelve(t)
  PROVE  IInv'
<1>1. UNCHANGED main
  BY DEF OperatorUnshelve
<1> QED
  BY <1>1, UnshelveStep DEF OperatorUnshelve, IInv, TypeOK, HandlerHasTag, Released

-----------------------------------------------------------------------------
(* The operator.                                                            *)

LEMMA OperatorLeaves ==
  ASSUME IInv, Operator
  PROVE  /\ UNCHANGED <<signal, onDelay, offDelay, flood, main>> /\ HandlerHasTag'
         /\ main' \in [job : Jobs, todo : SUBSET Tags, tag : Tags \cup {NoTag},
                       limit : Limits \cup {NormalLimit}]
         /\ shelf \in [Tags -> Shelves]
         /\ chatter' \in [Tags -> 0 .. ChatterLimit]
BY DEF IInv, TypeOK, Operator, HandlerHasTag

LEMMA AcknowledgeStep ==
  ASSUME IInv, NEW some \in SUBSET Tags,
         AcknowledgeAlarms(some) \/ AcknowledgeReturns(some)
  PROVE  IInv'
<1>1. AlarmsSound /\ Operator /\ UNCHANGED <<shelf, floodVars>>
  BY SoundAlarms DEF IInv, AcknowledgeAlarms, AcknowledgeReturns
<1>2. ASSUME NEW t \in Tags
      PROVE  /\ Sound(AcknowledgedAlarm(alarm[t])) /\ Sound(ErasedAlarm(alarm[t]))
             /\ AcknowledgedAlarm(alarm[t]).shelve = alarm[t].shelve
             /\ AcknowledgedAlarm(alarm[t]).limit = alarm[t].limit
             /\ \/ ErasedAlarm(alarm[t]) = alarm[t]
                \/ ~ IsShelved(ErasedAlarm(alarm[t]))
  <2>1. Sound(AcknowledgedAlarm(alarm[t])) /\ Sound(ErasedAlarm(alarm[t]))
    BY <1>1, AlarmChanges DEF AlarmsSound
  <2>2. /\ AcknowledgedAlarm(alarm[t]).shelve = alarm[t].shelve
        /\ AcknowledgedAlarm(alarm[t]).limit = alarm[t].limit
    BY <1>1 DEF AlarmsSound, Alarms, AcknowledgedAlarm
  <2>3. ErasedAlarm(alarm[t]) = alarm[t] \/ ~ IsShelved(ErasedAlarm(alarm[t]))
    BY DEF ErasedAlarm, NoAlarm, NewAlarm, IsShelved
  <2> QED
    BY <2>1, <2>2, <2>3
<1>3. AlarmsSound'
      /\ \A t \in Tags : \/ ~ IsShelved(alarm'[t])
                         \/ /\ alarm'[t].shelve = alarm[t].shelve
                            /\ alarm'[t].limit = alarm[t].limit
  <2>1. /\ alarm' = [t \in Tags |-> alarm'[t]]
        /\ \A t \in Tags :
             alarm'[t] \in {alarm[t], AcknowledgedAlarm(alarm[t]), ErasedAlarm(alarm[t])}
    <3>1. CASE AcknowledgeAlarms(some)
      BY <3>1 DEF AcknowledgeAlarms
    <3>2. CASE AcknowledgeReturns(some)
      BY <3>2 DEF AcknowledgeReturns
    <3> QED
      BY <3>1, <3>2
  <2>2. ASSUME NEW t \in Tags
        PROVE  /\ alarm'[t] \in Alarms /\ Sound(alarm'[t])
               /\ \/ ~ IsShelved(alarm'[t])
                  \/ /\ alarm'[t].shelve = alarm[t].shelve
                     /\ alarm'[t].limit = alarm[t].limit
    BY <1>1, <1>2, <2>1 DEF AlarmsSound, Sound
  <2> QED
    BY <2>1, <2>2 DEF AlarmsSound
<1> QED
  BY <1>1, <1>3, OperatorLeaves, AlarmStep

LEMMA ShelveAlarmStep ==
  ASSUME IInv, NEW t \in Tags, NEW duration \in Durations, ShelveAlarm(t, duration)
  PROVE  IInv'
<1> DEFINE why == IF duration = "open" THEN "open" ELSE "timed"
           e == [alarm[t] EXCEPT !.state = "Shelved", !.shelve = why]
           s == AfterShelve(shelf[t], duration, FALSE)
<1>1. /\ TypeOK /\ AlarmsSound /\ Operator /\ UNCHANGED floodVars
      /\ shelf' = [shelf EXCEPT ![t] = s]
  BY SoundAlarms DEF IInv, ShelveAlarm
<1>2. Sound(e) /\ e.shelve = why
  BY <1>1, AlarmChanges DEF AlarmsSound, ShelveReasons, Alarms
<1>3. s \in Shelves /\ (duration # "open" => s.deadline # "none")
  BY <1>1, ShelfType DEF TypeOK, Durations, AfterShelve
<1>4. alarm' = [alarm EXCEPT ![t] = e]
  BY <1>1 DEF ShelveAlarm, AlarmsSound
<1>5. AlarmsSound' /\ alarm'[t] = e /\ \A u \in Tags \ {t} : alarm'[u] = alarm[u]
  <2> HIDE DEF e
  <2> QED
    BY <1>1, <1>2, <1>4, OneAlarmChanges
<1>6. /\ shelf' \in [Tags -> Shelves] /\ shelf'[t] = s
      /\ \A u \in Tags \ {t} : shelf'[u] = shelf[u]
  <2> HIDE DEF s
  <2> QED
    BY <1>1, <1>3 DEF TypeOK
<1>7. ASSUME NEW u \in Tags
      PROVE  \/ /\ alarm'[u].shelve = alarm[u].shelve
                /\ alarm'[u].limit = alarm[u].limit
                /\ shelf'[u].deadline = shelf[u].deadline
             \/ alarm'[u].shelve \in {"timed", "chatter"} /\ shelf'[u].deadline # "none"
             \/ alarm'[u].shelve = "open"
  BY <1>2, <1>3, <1>5, <1>6
<1> QED
  BY <1>1, <1>5, <1>6, <1>7, OperatorLeaves, AlarmStep

(* The operations that mask an alarm, or end its mask, and have no time.    *)
LEMMA MaskStep ==
  ASSUME IInv, NEW t \in Tags,
         \/ SuppressByDesign(t) \/ UnsuppressByDesign(t)
         \/ SetOutOfService(t) \/ ReturnToService(t)
  PROVE  IInv'
<1>1. AlarmsSound /\ Operator /\ UNCHANGED <<shelf, floodVars>>
  BY SoundAlarms DEF IInv, SuppressByDesign, UnsuppressByDesign, SetOutOfService,
     ReturnToService
<1>2. PICK e : /\ Sound(e) /\ alarm' = [alarm EXCEPT ![t] = e]
               /\ e.shelve = alarm[t].shelve /\ e.limit = alarm[t].limit
  <2>1. CASE SuppressByDesign(t)
    <3> DEFINE e == [alarm[t] EXCEPT !.state = "SuppressedByDesign"]
    <3>1. Sound(e) /\ e.shelve = alarm[t].shelve /\ e.limit = alarm[t].limit
      BY <1>1, AlarmChanges DEF AlarmsSound, Alarms
    <3>2. alarm' = [alarm EXCEPT ![t] = e]
      BY <2>1, <1>1 DEF SuppressByDesign, AlarmsSound
    <3> QED
      BY <3>1, <3>2
  <2>2. CASE UnsuppressByDesign(t)
    <3> DEFINE e == [alarm[t] EXCEPT !.state = ReleasedState(alarm[t])]
    <3>1. Sound(e) /\ e.shelve = alarm[t].shelve /\ e.limit = alarm[t].limit
      BY <1>1, AlarmChanges DEF AlarmsSound, Alarms
    <3>2. alarm' = [alarm EXCEPT ![t] = e]
      BY <2>2, <1>1 DEF UnsuppressByDesign, AlarmsSound
    <3> QED
      BY <3>1, <3>2
  <2>3. CASE SetOutOfService(t)
    <3> DEFINE e == [alarm[t] EXCEPT !.state = "outOfService", !.outOfService = TRUE]
    <3>1. Sound(e) /\ e.shelve = alarm[t].shelve /\ e.limit = alarm[t].limit
      BY <1>1, AlarmChanges DEF AlarmsSound, Alarms
    <3>2. alarm' = [alarm EXCEPT ![t] = e]
      BY <2>3, <1>1 DEF SetOutOfService, AlarmsSound
    <3> QED
      BY <3>1, <3>2
  <2>4. CASE ReturnToService(t)
    <3> DEFINE e == [alarm[t] EXCEPT !.outOfService = FALSE,
                                     !.state = ReleasedState(alarm[t])]
    <3>1. Sound(e) /\ e.shelve = alarm[t].shelve /\ e.limit = alarm[t].limit
      BY <1>1, AlarmChanges DEF AlarmsSound, Alarms
    <3>2. alarm' = [alarm EXCEPT ![t] = e]
      BY <2>4, <1>1 DEF ReturnToService, AlarmsSound
    <3> QED
      BY <3>1, <3>2
  <2> QED
    BY <2>1, <2>2, <2>3, <2>4
<1>3. AlarmsSound' /\ alarm'[t] = e /\ \A u \in Tags \ {t} : alarm'[u] = alarm[u]
  BY <1>1, <1>2, OneAlarmChanges
<1>4. \A u \in Tags : /\ alarm'[u].shelve = alarm[u].shelve
                      /\ alarm'[u].limit = alarm[u].limit
                      /\ shelf'[u].deadline = shelf[u].deadline
  BY <1>1, <1>2, <1>3
<1> QED
  BY <1>1, <1>3, <1>4, OperatorLeaves, AlarmStep

-----------------------------------------------------------------------------
(* Time.                                                                    *)

LEMMA TimeStep ==
  ASSUME IInv, Time
  PROVE  IInv'
<1>1. TypeOK /\ UNCHANGED <<signal, alarm, floodVars, main>>
  BY DEF IInv, Time, Lapse, FloodWindowExpires, FloodPhaseExpires, OnDelayExpires,
     OffDelayExpires, ShelveExpires, ReshelveWindowExpires, ChatterWindowExpires
<1>2. /\ onDelay' \in [Tags -> Delays]
      /\ \A t \in Tags : onDelay'[t].limit \in {onDelay[t].limit, NormalLimit}
      /\ offDelay' \in [Tags -> {"none", "running", "due"}]
      /\ shelf' \in [Tags -> Shelves]
      /\ \A t \in Tags : shelf[t].deadline # "none" => shelf'[t].deadline # "none"
      /\ chatter' \in [Tags -> 0 .. ChatterLimit]
      /\ flood' \in Detectors
  <2>1. CASE FloodWindowExpires \/ FloodPhaseExpires
    BY <1>1, <2>1, FloodThresholdAssumption DEF FloodWindowExpires, FloodPhaseExpires,
       WindowLapses, PhaseLapses, TypeOK, Detectors, FloodPhases
  <2>2. CASE \E t \in Tags : OnDelayExpires(t) \/ OffDelayExpires(t)
    <3>1. PICK t \in Tags : OnDelayExpires(t) \/ OffDelayExpires(t)
      BY <2>2
    <3>2. /\ onDelay \in [Tags -> Delays]
          /\ [onDelay[t] EXCEPT !.due = TRUE] \in Delays
          /\ [onDelay[t] EXCEPT !.due = TRUE].limit = onDelay[t].limit
      <4>1. onDelay \in [Tags -> Delays] /\ onDelay[t] \in Delays
        BY <1>1, <3>1 DEF TypeOK
      <4> QED
        BY <4>1 DEF Delays
    <3>3. /\ onDelay' \in [Tags -> Delays]
          /\ \A u \in Tags : onDelay'[u].limit \in {onDelay[u].limit, NormalLimit}
      BY <3>1, <3>2 DEF OnDelayExpires, OffDelayExpires
    <3>4. /\ offDelay' \in [Tags -> {"none", "running", "due"}]
          /\ UNCHANGED <<shelf, chatter, flood>>
      BY <1>1, <3>1 DEF OnDelayExpires, OffDelayExpires, TypeOK
    <3> QED
      BY <1>1, <3>3, <3>4 DEF TypeOK
  <2>3. CASE \E t \in Tags : ShelveExpires(t) \/ ReshelveWindowExpires(t)
    <3>1. PICK t \in Tags : ShelveExpires(t) \/ ReshelveWindowExpires(t)
      BY <2>3
    <3>2. PICK s \in Shelves : /\ shelf' = [shelf EXCEPT ![t] = s]
                               /\ shelf[t].deadline # "none" => s.deadline # "none"
      <4>1. /\ [shelf[t] EXCEPT !.deadline = "due"] \in Shelves
            /\ [shelf[t] EXCEPT !.recent = FALSE] \in Shelves
            /\ shelf \in [Tags -> Shelves]
        <5>1. shelf \in [Tags -> Shelves] /\ shelf[t] \in Shelves
          BY <1>1, <3>1 DEF TypeOK
        <5> QED
          BY <5>1 DEF Shelves
      <4>2. CASE ShelveExpires(t)
        BY <4>1, <4>2 DEF ShelveExpires, Shelves
      <4>3. CASE ReshelveWindowExpires(t)
        BY <4>1, <4>3 DEF ReshelveWindowExpires, Shelves
      <4> QED
        BY <3>1, <4>2, <4>3
    <3>3. UNCHANGED <<onDelay, offDelay, chatter, flood>>
      BY <3>1 DEF ShelveExpires, ReshelveWindowExpires
    <3> QED
      <4>1. /\ shelf' \in [Tags -> Shelves]
            /\ \A u \in Tags : shelf[u].deadline # "none" => shelf'[u].deadline # "none"
        <5>1. shelf \in [Tags -> Shelves]
          BY <1>1 DEF TypeOK
        <5> QED
          BY <5>1, <3>1, <3>2
      <4> QED
        BY <1>1, <3>3, <4>1 DEF TypeOK
  <2>4. CASE \E t \in Tags : ChatterWindowExpires(t)
    BY <1>1, <2>4, CountsAssumption DEF ChatterWindowExpires, TypeOK
  <2> QED
    BY <2>1, <2>2, <2>3, <2>4 DEF Time
<1>3. TypeOK' /\ NoOrphanMask' /\ AbsentIsBlank' /\ HandlerHasTag'
  BY <1>1, <1>2 DEF IInv, TypeOK, NoOrphanMask, AbsentIsBlank, HandlerHasTag, floodVars,
     IsShelved, Present
<1>4. PendingImpliesViolating' /\ RecoveryTracked'
  BY <1>1, <1>2, KeepsPending, KeepsRecovery DEF IInv, floodVars
<1>5. ShelvedHasRelease' /\ CriticalNotFloodShelved'
  BY <1>1, <1>2 DEF IInv, ShelvedHasRelease, CriticalNotFloodShelved, Released, floodVars
<1> QED
  BY <1>3, <1>4, <1>5 DEF IInv

-----------------------------------------------------------------------------
(* The invariant, and what it gives.                                        *)

LEMMA InitIInv == Init => IInv
<1> SUFFICES ASSUME Init PROVE IInv
  OBVIOUS
<1>1. TypeOK
  <2>1. NoAlarm \in Alarms /\ NoDelay \in Delays /\ NoFlood \in Detectors
    BY NewAlarmSound, FloodThresholdAssumption
       DEF Sound, NoDelay, Delays, NoFlood, Detectors
  <2>2. NotShelved \in Shelves
    BY MaxAutoShelveAssumption DEF NotShelved, Shelves
  <2>3. Idle \in [job : Jobs, todo : SUBSET Tags, tag : Tags \cup {NoTag},
                  limit : Limits \cup {NormalLimit}]
    BY DEF Idle, Jobs
  <2>4. 0 \in 0 .. ChatterLimit
    BY CountsAssumption
  <2> QED
    BY <2>1, <2>2, <2>3, <2>4 DEF Init, TypeOK, SavedStates
<1>2. NoOrphanMask /\ AbsentIsBlank
  BY DEF Init, NoOrphanMask, AbsentIsBlank, NoAlarm, NewAlarm
<1>3. HandlerHasTag /\ PendingImpliesViolating /\ RecoveryTracked
  BY DEF Init, HandlerHasTag, PendingImpliesViolating, RecoveryTracked, Idle,
     Delayed, NoDelay, Tagged
<1>4. ShelvedHasRelease /\ CriticalNotFloodShelved
  BY DEF Init, ShelvedHasRelease, CriticalNotFloodShelved, NoAlarm, NewAlarm
<1> QED
  BY <1>1, <1>2, <1>3, <1>4 DEF IInv

LEMMA NextIInv == IInv /\ [Next]_vars => IInv'
<1> SUFFICES ASSUME IInv, [Next]_vars PROVE IInv'
  OBVIOUS
<1>1. CASE Parse
  BY <1>1, TriggerAlarmStep, ClearAlarmStep DEF Parse
<1>2. CASE Timers
  BY <1>2, OnDelayScanStep, OnDelayTakeStep, OnDelayTimeoutStep, OffDelayScanStep,
     OffDelayRemoveStep, OffDelayTimeoutStep, ShelveTickStep, TickUnshelveStep DEF Timers
<1>3. CASE Acknowledging
  <2>1. PICK some \in {{t} : t \in Tags} \cup {Tags} :
          AcknowledgeAlarms(some) \/ AcknowledgeReturns(some)
    BY <1>3 DEF Acknowledging
  <2>2. some \in SUBSET Tags
    OBVIOUS
  <2> QED
    BY <2>1, <2>2, AcknowledgeStep
<1>4. CASE Masking
  BY <1>4, ShelveAlarmStep, OperatorUnshelveStep, MaskStep DEF Masking
<1>5. CASE Time
  BY <1>5, TimeStep
<1>6. CASE UNCHANGED vars
  BY <1>6 DEF vars, floodVars, IInv, TypeOK, NoOrphanMask, AbsentIsBlank, HandlerHasTag,
     PendingImpliesViolating, RecoveryTracked, ShelvedHasRelease,
     CriticalNotFloodShelved, Delayed, Tagged, Released, IsShelved, Present
<1> QED
  BY <1>1, <1>2, <1>3, <1>4, <1>5, <1>6 DEF Next

LEMMA Invariance == Spec => []IInv
BY InitIInv, NextIInv, PTL DEF Spec

(* Every variable keeps its type: in particular the flood protection saves  *)
(* only states that can be given back (checkFloodCondition, lines 312-352). *)
THEOREM TypeCorrect == Spec => []TypeOK
<1>1. IInv => TypeOK
  BY DEF IInv
<1> QED
  BY <1>1, Invariance, PTL

(* No alarm counts down to being raised after the parse thread has cleared  *)
(* its signal (clearAlarm, line 261).                                       *)
THEOREM NothingPendingWithoutViolation == Spec => []PendingImpliesViolating
<1>1. IInv => PendingImpliesViolating
  BY DEF IInv
<1> QED
  BY <1>1, Invariance, PTL

(* No alarm is in a masked state that its release would not find: the flag  *)
(* that unshelveAlarm and returnToService test is set with the state.       *)
THEOREM EveryMaskCanBeLeft == Spec => []NoOrphanMask
<1>1. IInv => NoOrphanMask
  BY DEF IInv
<1> QED
  BY <1>1, Invariance, PTL

(* A shelved alarm is on a list that gives it back, unless the operator     *)
(* shelved it without a time.                                               *)
THEOREM EveryShelveHasRelease == Spec => []ShelvedHasRelease
<1>1. IInv => ShelvedHasRelease
  BY DEF IInv
<1> QED
  BY <1>1, Invariance, PTL

(* The flood protection never hides a Critical alarm.                       *)
THEOREM CriticalAlarmsShown == Spec => []CriticalNotFloodShelved
<1>1. IInv => CriticalNotFloodShelved
  BY DEF IInv
<1> QED
  BY <1>1, Invariance, PTL

(* The flag of a flood recovery and the list it works off agree.            *)
THEOREM RecoveryAgrees == Spec => []RecoveryTracked
<1>1. IInv => RecoveryTracked
  BY DEF IInv
<1> QED
  BY <1>1, Invariance, PTL

-----------------------------------------------------------------------------
(* The states of an alarm, against the table of AlarmStateMachine.h.        *)

(* Where the engine leaves the table: a present alarm is masked from any    *)
(* state; the acknowledgement of a return erases the alarm at once; a flood *)
(* takes an alarm in the moment it is raised; and what the flood saved as   *)
(* acknowledged is given back as such, whatever became of it since.         *)
OffTheTable(t) ==
  LET from == alarm[t].state
      to == alarm'[t].state
  IN  \/ from # "Normal" /\ to \in MaskedStates
      \/ from = "ReturnToNormalunack" /\ to = "Normal"
      \/ from = "Normal" /\ to = "Shelved" /\ alarm'[t].shelve = "flood"
      \/ to = "Activeack" /\ "Activeack" \in {floodSuppressed[t], pending[t]}

MovesByTable(t) ==
  \/ alarm'[t].state = alarm[t].state
  \/ CanTransition(alarm[t].state, alarm'[t].state)
  \/ OffTheTable(t)

(* Every change of every alarm is an arrow of the table or one of these: no *)
(* alarm that is active or masked disappears, none appears but by a raise,  *)
(* and none is shown as acknowledged that was neither acknowledged from     *)
(* ActiveUnack nor saved as acknowledged by a flood                         *)
(* (AlarmStateMachine.h:7-31).                                              *)
StatesMoveByTable == \A t \in Tags : MovesByTable(t)

(* The rows that the engine uses: every state that is not Normal may become *)
(* active or returned.                                                      *)
LEMMA TableRows ==
  /\ CanTransition("Normal", "ActiveUnack")
  /\ CanTransition("ActiveUnack", "Activeack")
  /\ \A from \in (UnmaskedStates \cup MaskedStates) \ {"ActiveUnack"} :
       CanTransition(from, "ActiveUnack")
  /\ \A from \in (UnmaskedStates \cup MaskedStates) \ {"ReturnToNormalunack"} :
       CanTransition(from, "ReturnToNormalunack")
BY DEF CanTransition, Successors, UnmaskedStates, ActiveStates, MaskedStates

(* A present alarm that becomes active or returned, or is masked, and one   *)
(* that stays as it is.                                                     *)
LEMMA OneMove ==
  ASSUME AlarmsSound, NEW t \in Tags, NEW e, alarm' = [alarm EXCEPT ![t] = e],
         \/ e.state = alarm[t].state
         \/ /\ Present(alarm[t])
            /\ e.state \in {"ActiveUnack", "ReturnToNormalunack"} \cup MaskedStates
  PROVE  StatesMoveByTable
<1>1. alarm'[t] = e /\ \A u \in Tags \ {t} : alarm'[u] = alarm[u]
  BY DEF AlarmsSound
<1>2. Present(alarm[t]) => alarm[t].state \in UnmaskedStates \cup MaskedStates
  BY DEF AlarmsSound, Alarms, Present
<1>3. MovesByTable(t)
  BY <1>1, <1>2, TableRows DEF MovesByTable, OffTheTable, Present
<1> QED BY <1>1, <1>3 DEF StatesMoveByTable, MovesByTable

LEMMA ParseMoves ==
  ASSUME IInv, Parse
  PROVE  StatesMoveByTable
<1>1. AlarmsSound
  BY SoundAlarms DEF IInv
<1>2. ASSUME NEW t \in Tags, NEW limit, Announce(t, limit), Present(alarm[t])
      PROVE  StatesMoveByTable
  <2> DEFINE e == [alarm[t] EXCEPT !.state = "ActiveUnack", !.limit = limit,
                                   !.acknowledged = FALSE]
  <2>1. alarm' = [alarm EXCEPT ![t] = e] /\ e.state = "ActiveUnack"
    BY <1>1, <1>2 DEF Announce, AlarmsSound, Alarms
  <2> HIDE DEF e
  <2> QED BY <1>1, <1>2, <2>1, OneMove
<1>3. ASSUME NEW t \in Tags, ReturnToNormal(t), Present(alarm[t])
      PROVE  StatesMoveByTable
  <2> DEFINE e == [alarm[t] EXCEPT !.state = "ReturnToNormalunack"]
  <2>1. alarm' = [alarm EXCEPT ![t] = e] /\ e.state = "ReturnToNormalunack"
    BY <1>1, <1>3 DEF ReturnToNormal, AlarmsSound, Alarms
  <2> HIDE DEF e
  <2> QED BY <1>1, <1>3, <2>1, OneMove
<1>4. UNCHANGED alarm => StatesMoveByTable
  BY DEF StatesMoveByTable, MovesByTable
<1>5. ASSUME NEW t \in Tags, ClearAlarm(t) PROVE StatesMoveByTable
  BY <1>3, <1>4, <1>5 DEF ClearAlarm
<1>6. ASSUME NEW t \in Tags, NEW limit \in Limits, NEW masked \in BOOLEAN,
             TriggerAlarm(t, limit, masked)
      PROVE  StatesMoveByTable
  <2>1. CASE UNCHANGED alarm
    BY <1>4, <2>1
  <2>2. CASE Escalate(t, limit) \/ Reactivate(t, limit)
    BY <1>2, <2>2 DEF Escalate, Reactivate, IsActive, ActiveStates, Present
  <2> QED
    BY <1>6, <2>1, <2>2 DEF TriggerAlarm, Refresh, StartOnDelay
<1> QED BY <1>5, <1>6 DEF Parse

(* A raise replaces what the tag had, and may be taken by the flood in the  *)
(* same section, together with the alarms of other tags.                    *)
LEMMA RaiseMoves ==
  ASSUME IInv, main.tag \in Tags, Raise(main.tag, main.limit)
  PROVE  StatesMoveByTable
<1> DEFINE f == RecordAlarm(flood)
           al == [alarm EXCEPT ![main.tag] = NewAlarm(main.limit)]
<1>1. AlarmsSound /\ alarm' = AlarmsAfterCheck(f, al)
  BY SoundAlarms DEF IInv, Raise
<1>2. /\ al[main.tag].state = "ActiveUnack"
      /\ \A u \in Tags \ {main.tag} : al[u] = alarm[u]
      /\ al \in [Tags -> Alarms]
  BY <1>1, NewAlarmSound DEF AlarmsSound, NewAlarm, Sound, IInv, TypeOK
<1> HIDE DEF f, al
<1> SUFFICES ASSUME NEW t \in Tags PROVE MovesByTable(t)
  BY DEF StatesMoveByTable
<1>3. \/ alarm'[t] = al[t]
      \/ /\ alarm'[t].state = "Shelved" /\ alarm'[t].shelve = "flood"
         /\ Present(al[t])
  <2>1. al[t] \in Alarms
    BY <1>2
  <2>2. CASE Victim(f, al, t)
    <3>1. alarm'[t] = [al[t] EXCEPT !.state = "Shelved", !.shelve = "flood"]
      BY <1>1, <2>2 DEF AlarmsAfterCheck
    <3> QED BY <2>1, <2>2, <3>1 DEF Victim, Exempt, Alarms
  <2>3. CASE ~ Victim(f, al, t)
    BY <1>1, <2>3 DEF AlarmsAfterCheck
  <2> QED BY <2>2, <2>3
<1>4. alarm[t].state \in UnmaskedStates \cup MaskedStates \cup {"Normal"}
  BY <1>1 DEF AlarmsSound, Alarms
<1>5. CASE alarm'[t] = al[t]
  BY <1>2, <1>4, <1>5, TableRows DEF MovesByTable
<1>6. CASE /\ alarm'[t].state = "Shelved" /\ alarm'[t].shelve = "flood"
  BY <1>6 DEF MovesByTable, OffTheTable, MaskedStates
<1> QED BY <1>3, <1>5, <1>6

(* A tick shelves what a flood takes and gives back a batch of what one     *)
(* took.                                                                    *)
LEMMA TickMoves ==
  ASSUME IInv, ShelveTick
  PROVE  StatesMoveByTable
<1> DEFINE f == CheckFloodExpired(flood)
           al == AlarmsAfterCheck(f, alarm)
           saved == PendingAfterCheck(f)
<1>1. TypeOK /\ AlarmsSound
  BY SoundAlarms DEF IInv
<1>2. PICK done \in SUBSET Tagged(saved) : alarm' = Restored(al, saved, done)
  BY DEF ShelveTick
<1> SUFFICES ASSUME NEW t \in Tags PROVE MovesByTable(t)
  BY DEF StatesMoveByTable
<1>3. alarm[t] \in Alarms /\ al[t] \in Alarms
  BY <1>1, FloodCheck DEF AlarmsSound
<1>4. \/ al[t] = alarm[t]
      \/ al[t].state = "Shelved" /\ Present(alarm[t])
  BY <1>3 DEF AlarmsAfterCheck, Victim, Exempt, Alarms
<1>5. saved[t] \in {floodSuppressed[t], pending[t]} /\ saved[t] \in SavedStates
  BY <1>1 DEF PendingAfterCheck, TypeOK
<1>6. t \in done => saved[t] # "none"
  BY <1>2 DEF Tagged
<1> HIDE DEF f, al, saved
<1>7. CASE t \in done /\ Present(al[t])
  <2>1. alarm'[t].state = saved[t]
    BY <1>2, <1>3, <1>7 DEF Restored, Alarms
  <2>2. saved[t] \in {"ActiveUnack", "Activeack", "ReturnToNormalunack"}
    BY <1>5, <1>6, <1>7 DEF SavedStates, UnmaskedStates, ActiveStates
  <2>3. Present(alarm[t]) /\ alarm[t].state \in UnmaskedStates \cup MaskedStates
    BY <1>3, <1>4, <1>7 DEF Alarms, Present
  <2> QED BY <1>5, <2>1, <2>2, <2>3, TableRows DEF MovesByTable, OffTheTable
<1>8. CASE ~ (t \in done /\ Present(al[t]))
  <2>1. alarm'[t] = al[t]
    BY <1>2, <1>8 DEF Restored
  <2> QED BY <1>4, <2>1 DEF MovesByTable, OffTheTable, MaskedStates, Present
<1> QED BY <1>7, <1>8

LEMMA UnshelveMoves ==
  ASSUME IInv, NEW t \in Tags, UnshelveAlarm(t)
  PROVE  StatesMoveByTable
<1>1. AlarmsSound
  BY SoundAlarms DEF IInv
<1>2. CASE IsShelved(alarm[t])
  <2> DEFINE e == [alarm[t] EXCEPT !.shelve = "none", !.state = ReleasedState(alarm[t])]
  <2>1. alarm' = [alarm EXCEPT ![t] = e] /\ e.state = ReleasedState(alarm[t])
    BY <1>1, <1>2 DEF UnshelveAlarm, AlarmsSound, Alarms
  <2>2. ReleasedState(alarm[t]) \in {"ActiveUnack", "ReturnToNormalunack"}
    BY DEF ReleasedState
  <2>3. Present(alarm[t])
    BY <1>1, <1>2 DEF AlarmsSound, Sound, IsShelved, NoAlarm, NewAlarm
  <2> HIDE DEF e
  <2> QED BY <1>1, <2>1, <2>2, <2>3, OneMove
<1>3. CASE ~ IsShelved(alarm[t])
  BY <1>3 DEF UnshelveAlarm, StatesMoveByTable, MovesByTable
<1> QED BY <1>2, <1>3

LEMMA TimerMoves ==
  ASSUME IInv, Timers
  PROVE  StatesMoveByTable
<1>1. AlarmsSound
  BY SoundAlarms DEF IInv
<1>2. UNCHANGED alarm => StatesMoveByTable
  BY DEF StatesMoveByTable, MovesByTable
<1>3. CASE OnDelayTimeout
  <2>1. main.tag \in Tags
    BY <1>3 DEF OnDelayTimeout, IInv, HandlerHasTag
  <2>2. CASE UNCHANGED alarm
    BY <1>2, <2>2
  <2>3. CASE ShelveChattering(main.tag) /\ Present(alarm[main.tag])
    <3> DEFINE e == [alarm[main.tag] EXCEPT !.state = "Shelved", !.shelve = "chatter"]
    <3>1. alarm' = [alarm EXCEPT ![main.tag].state = "Shelved",
                                 ![main.tag].shelve = "chatter"]
      BY <2>3 DEF ShelveChattering
    <3>2. alarm \in [Tags -> Alarms] /\ alarm[main.tag] \in Alarms
      BY <1>1, <2>1 DEF AlarmsSound
    <3>3. alarm' = [alarm EXCEPT ![main.tag] = e]
      BY <2>1, <3>1, <3>2
    <3>4. e.state = "Shelved"
      BY <3>2 DEF Alarms
    <3> HIDE DEF e
    <3> QED BY <1>1, <2>1, <2>3, <3>3, <3>4, OneMove DEF MaskedStates
  <2>4. CASE Raise(main.tag, main.limit)
    BY <2>1, <2>4, RaiseMoves
  <2> QED BY <1>3, <2>2, <2>3, <2>4 DEF OnDelayTimeout, ShelveChattering
<1>4. CASE OffDelayTimeout
  <2>1. main.tag \in Tags
    BY <1>4 DEF OffDelayTimeout, IInv, HandlerHasTag
  <2>2. CASE UNCHANGED alarm
    BY <1>2, <2>2
  <2>3. CASE IsActive(alarm[main.tag]) /\ ReturnToNormal(main.tag)
    <3> DEFINE e == [alarm[main.tag] EXCEPT !.state = "ReturnToNormalunack"]
    <3>1. alarm' = [alarm EXCEPT ![main.tag] = e] /\ e.state = "ReturnToNormalunack"
      BY <1>1, <2>1, <2>3 DEF ReturnToNormal, AlarmsSound, Alarms
    <3>2. Present(alarm[main.tag])
      BY <2>3 DEF IsActive, ActiveStates, Present
    <3> HIDE DEF e
    <3> QED BY <1>1, <2>1, <3>1, <3>2, OneMove
  <2> QED BY <1>4, <2>2, <2>3 DEF OffDelayTimeout
<1>5. CASE OnDelayScan \/ OffDelayScan
  BY <1>2, <1>5 DEF OnDelayScan, OffDelayScan
<1>6. ASSUME NEW t \in Tags, OnDelayTake(t) \/ OffDelayRemove(t) PROVE StatesMoveByTable
  BY <1>2, <1>6 DEF OnDelayTake, OffDelayRemove
<1> QED
  BY <1>3, <1>4, <1>5, <1>6, TickMoves, UnshelveMoves DEF Timers, TickUnshelve

LEMMA AcknowledgementMoves ==
  ASSUME IInv, Acknowledging
  PROVE  StatesMoveByTable
<1>1. AlarmsSound
  BY SoundAlarms DEF IInv
<1> SUFFICES ASSUME NEW t \in Tags PROVE MovesByTable(t)
  BY DEF StatesMoveByTable
<1>2. \/ alarm'[t] = alarm[t]
      \/ alarm'[t] = AcknowledgedAlarm(alarm[t])
      \/ alarm'[t] = ErasedAlarm(alarm[t])
  BY DEF Acknowledging, AcknowledgeAlarms, AcknowledgeReturns
<1>3. \/ AcknowledgedAlarm(alarm[t]).state = alarm[t].state
      \/ /\ alarm[t].state = "ActiveUnack"
         /\ AcknowledgedAlarm(alarm[t]).state = "Activeack"
  BY <1>1 DEF AcknowledgedAlarm, AlarmsSound, Alarms
<1>4. \/ ErasedAlarm(alarm[t]).state = alarm[t].state
      \/ /\ alarm[t].state = "ReturnToNormalunack"
         /\ ErasedAlarm(alarm[t]).state = "Normal"
  BY DEF ErasedAlarm, NoAlarm, NewAlarm
<1> QED BY <1>2, <1>3, <1>4, TableRows DEF MovesByTable, OffTheTable

LEMMA MaskMoves ==
  ASSUME IInv, Masking
  PROVE  StatesMoveByTable
<1>1. AlarmsSound
  BY SoundAlarms DEF IInv
<1>2. ASSUME NEW t \in Tags, NEW duration \in Durations, ShelveAlarm(t, duration)
      PROVE  StatesMoveByTable
  <2> DEFINE e == [alarm[t] EXCEPT !.state = "Shelved",
                     !.shelve = IF duration = "open" THEN "open" ELSE "timed"]
  <2>1. alarm' = [alarm EXCEPT ![t] = e] /\ e.state = "Shelved" /\ Present(alarm[t])
    BY <1>1, <1>2 DEF ShelveAlarm, AlarmsSound, Alarms
  <2> HIDE DEF e
  <2> QED BY <1>1, <2>1, OneMove DEF MaskedStates
<1>3. ASSUME NEW t \in Tags, SuppressByDesign(t) PROVE StatesMoveByTable
  <2> DEFINE e == [alarm[t] EXCEPT !.state = "SuppressedByDesign"]
  <2>1. /\ alarm' = [alarm EXCEPT ![t] = e] /\ e.state = "SuppressedByDesign"
        /\ Present(alarm[t])
    BY <1>1, <1>3 DEF SuppressByDesign, AlarmsSound, Alarms
  <2> HIDE DEF e
  <2> QED BY <1>1, <2>1, OneMove DEF MaskedStates
<1>4. ASSUME NEW t \in Tags, SetOutOfService(t) PROVE StatesMoveByTable
  <2> DEFINE e == [alarm[t] EXCEPT !.state = "outOfService", !.outOfService = TRUE]
  <2>1. /\ alarm' = [alarm EXCEPT ![t] = e] /\ e.state = "outOfService"
        /\ Present(alarm[t])
    BY <1>1, <1>4 DEF SetOutOfService, AlarmsSound, Alarms
  <2> HIDE DEF e
  <2> QED BY <1>1, <2>1, OneMove DEF MaskedStates
<1>5. ASSUME NEW t \in Tags, UnsuppressByDesign(t) PROVE StatesMoveByTable
  <2> DEFINE e == [alarm[t] EXCEPT !.state = ReleasedState(alarm[t])]
  <2>1. /\ alarm' = [alarm EXCEPT ![t] = e] /\ Present(alarm[t])
        /\ e.state \in {"ActiveUnack", "ReturnToNormalunack"}
    BY <1>1, <1>5 DEF UnsuppressByDesign, AlarmsSound, Alarms, ReleasedState, Present
  <2> HIDE DEF e
  <2> QED BY <1>1, <2>1, OneMove
<1>6. ASSUME NEW t \in Tags, ReturnToService(t) PROVE StatesMoveByTable
  <2> DEFINE e == [alarm[t] EXCEPT !.outOfService = FALSE,
                                   !.state = ReleasedState(alarm[t])]
  <2>1. /\ alarm' = [alarm EXCEPT ![t] = e]
        /\ e.state \in {"ActiveUnack", "ReturnToNormalunack"}
    BY <1>1, <1>6 DEF ReturnToService, AlarmsSound, Alarms, ReleasedState
  <2>2. Present(alarm[t])
    BY <1>1, <1>6 DEF ReturnToService, AlarmsSound, Sound, NoAlarm, NewAlarm
  <2> HIDE DEF e
  <2> QED BY <1>1, <2>1, <2>2, OneMove
<1> QED
  BY <1>2, <1>3, <1>4, <1>5, <1>6, UnshelveMoves DEF Masking, OperatorUnshelve

THEOREM AlarmsMoveByTable == Spec => [][StatesMoveByTable]_vars
<1>1. IInv /\ [Next]_vars => [StatesMoveByTable]_vars
  <2> SUFFICES ASSUME IInv, Next PROVE StatesMoveByTable
    OBVIOUS
  <2>1. CASE Time
    <3>1. UNCHANGED alarm
      BY <2>1 DEF Time, Lapse, FloodWindowExpires, FloodPhaseExpires, OnDelayExpires,
         OffDelayExpires, ShelveExpires, ReshelveWindowExpires, ChatterWindowExpires
    <3> QED BY <3>1 DEF StatesMoveByTable, MovesByTable
  <2> QED
    BY <2>1, ParseMoves, TimerMoves, AcknowledgementMoves, MaskMoves DEF Next
<1> QED BY <1>1, Invariance, PTL DEF Spec

-----------------------------------------------------------------------------
(* The parse thread of AlarmPath makes only calls that the parse thread of  *)
(* AlarmEngine may make, one at a time: what holds of the engine holds of   *)
(* the engine behind the samples.                                           *)

CallNames == Kinds \cup {"clear", "Deviation", "RateOfChange"}

CallsOK ==
  /\ toCall \in [tag : Tags \cup {NoTag}, calls : Seq(CallNames)]
  /\ toCall.calls # << >> => toCall.tag \in Tags
  /\ calls \in [Tags -> Seq(CallNames)]

LEMMA CallSequences ==
  /\ << >> \in Seq(CallNames)
  /\ <<"clear">> \in Seq(CallNames)
  /\ <<"Deviation">> \in Seq(CallNames)
  /\ <<"RateOfChange">> \in Seq(CallNames)
<1>1. "clear" \in CallNames /\ "Deviation" \in CallNames /\ "RateOfChange" \in CallNames
  BY DEF CallNames
<1> QED BY <1>1

LEMMA LimitsOfSample ==
  ASSUME NEW t, NEW value
  PROVE  LimitCalls(t, value) \in Seq(CallNames)
<1> DEFINE hits == {i \in 1 .. 4 : Hit(t, value, i)}
<1>1. CASE hits # {}
  <2>1. \E i \in hits : \A j \in hits : i <= j
    <3>1. PICK i \in hits : TRUE
      BY <1>1
    <3>2. i \in 1 .. 4 /\ hits \subseteq 1 .. 4
      OBVIOUS
    <3> HIDE DEF hits
    <3>3. (1 \in hits) \/ (1 \notin hits /\ 2 \in hits)
          \/ (1 \notin hits /\ 2 \notin hits /\ 3 \in hits)
          \/ (1 \notin hits /\ 2 \notin hits /\ 3 \notin hits /\ 4 \in hits)
      <4>1. i = 1 \/ i = 2 \/ i = 3 \/ i = 4
        BY <3>1, <3>2
      <4> QED BY <3>1, <4>1
    <3>4. \A j \in hits : j = 1 \/ j = 2 \/ j = 3 \/ j = 4
      BY <3>2
    <3> QED BY <3>3, <3>4
  <2> DEFINE first == CHOOSE i \in hits : \A j \in hits : i <= j
  <2>2. first \in 1 .. 4
    BY <2>1
  <2>3. Chain[first] \in CallNames
    <3> HIDE DEF first
    <3> QED BY <2>2 DEF Chain, CallNames, Kinds, Highs, Lows
  <2>4. LimitCalls(t, value) = <<Chain[first]>>
    BY <1>1 DEF LimitCalls
  <2> HIDE DEF first
  <2> QED BY <2>3, <2>4
<1>2. CASE hits = {}
  <2>1. LimitCalls(t, value) = <<"clear">> \/ LimitCalls(t, value) = << >>
    BY <1>2 DEF LimitCalls
  <2> HIDE DEF hits
  <2> QED BY <2>1, CallSequences
<1> QED BY <1>1, <1>2

LEMMA SampleCalls ==
  ASSUME NEW t \in Tags, NEW raw \in Raws, NEW dt \in Gaps, CallsOK,
         TakeSample(t, raw, dt)
  PROVE  CallsOK'
<1> DEFINE value == RegisterToValue(raw)
           made == LimitCalls(t, value) \o DeviationCalls(t, value) \o RocCalls(t, value, dt)
<1>1. LimitCalls(t, value) \in Seq(CallNames)
  BY LimitsOfSample
<1>2. DeviationCalls(t, value) \in Seq(CallNames) /\ RocCalls(t, value, dt) \in Seq(CallNames)
  <2>1. DeviationCalls(t, value) \in {<<"Deviation">>, << >>}
    BY DEF DeviationCalls
  <2>2. RocCalls(t, value, dt) \in {<<"RateOfChange">>, << >>}
    BY DEF RocCalls
  <2> QED BY <2>1, <2>2, CallSequences
<1>3. made \in Seq(CallNames)
  BY <1>1, <1>2
<1>4. calls' = [calls EXCEPT ![t] = made] /\ toCall' = [tag |-> t, calls |-> calls'[t]]
  BY DEF TakeSample, Accept
<1> HIDE DEF made
<1> QED BY <1>3, <1>4 DEF CallsOK

LEMMA CallStep ==
  ASSUME 1 .. 6 \subseteq Limits, NEW masked \in BOOLEAN, CallsOK, CallEngine(masked)
  PROVE  Parse /\ CallsOK'
<1>1. /\ toCall.calls # << >> /\ toCall.tag \in Tags /\ toCall.calls \in Seq(CallNames)
      /\ toCall' = [toCall EXCEPT !.calls = Tail(@)] /\ calls' = calls
  BY DEF CallEngine, CallsOK, parseVars
<1>2. Head(toCall.calls) \in CallNames /\ Tail(toCall.calls) \in Seq(CallNames)
  BY <1>1
<1>3. CallsOK'
  BY <1>1, <1>2 DEF CallsOK
<1>4. CASE Head(toCall.calls) = "clear"
  BY <1>1, <1>3, <1>4 DEF CallEngine, Parse
<1>5. CASE Head(toCall.calls) # "clear"
  <2>1. LimitNumber(Head(toCall.calls)) \in Limits
    BY <1>2, <1>5 DEF LimitNumber, CallNames, Kinds, Highs, Lows
  <2>2. TriggerAlarm(toCall.tag, LimitNumber(Head(toCall.calls)), masked)
    BY <1>5 DEF CallEngine
  <2> QED BY <1>1, <1>3, <2>1, <2>2 DEF Parse
<1> QED BY <1>4, <1>5

(* Whatever is sampled, the alarms behave as AlarmEngine says               *)
(* (DataParseThread.cpp:79-174).                                            *)
THEOREM PathImplementsEngine ==
  ASSUME 1 .. 6 \subseteq Limits
  PROVE  PathSpec => Spec
<1>1. PathInit => Init /\ CallsOK
  BY PathAssumption DEF PathInit, ParseInit, CallsOK
<1>2. CallsOK /\ [PathNext]_pathVars => [Next]_vars /\ CallsOK'
  <2> SUFFICES ASSUME CallsOK, [PathNext]_pathVars
               PROVE  [Next]_vars /\ CallsOK'
    OBVIOUS
  <2>1. ASSUME NEW t \in PlantTags, NEW raw \in Raws, NEW dt \in Gaps,
               TakeSample(t, raw, dt)
        PROVE  [Next]_vars /\ CallsOK'
    BY <2>1, SampleCalls, PathAssumption DEF TakeSample
  <2>2. ASSUME NEW masked \in BOOLEAN, CallEngine(masked) PROVE [Next]_vars /\ CallsOK'
    BY <2>2, CallStep DEF Next
  <2>3. CASE RestOfEngine
    BY <2>3 DEF RestOfEngine, Next, CallsOK, parseVars
  <2>4. CASE UNCHANGED pathVars
    BY <2>4 DEF pathVars, parseVars, CallsOK
  <2> QED BY <2>1, <2>2, <2>3, <2>4 DEF PathNext
<1> QED BY <1>1, <1>2, PTL DEF PathSpec, Spec

(* What holds of the engine therefore holds behind the samples of any       *)
(* registers, polled at any intervals: no alarm counts down after its value *)
(* has returned, none stays masked without a way back, and the flood        *)
(* protection hides no Critical one                                         *)
(* (DataParseThread.cpp:150-174, AlarmEngine.cpp:94-159, 312-352).          *)
THEOREM ProtectionsHoldBehindSamples ==
  ASSUME 1 .. 6 \subseteq Limits
  PROVE  PathSpec => [](/\ PendingImpliesViolating /\ NoOrphanMask
                        /\ ShelvedHasRelease /\ CriticalNotFloodShelved)
BY PathImplementsEngine, NothingPendingWithoutViolation, EveryMaskCanBeLeft,
   EveryShelveHasRelease, CriticalAlarmsShown, PTL
=============================================================================
