----------------------------- MODULE AlarmEngine -----------------------------
(***************************************************************************)
(* AlarmEngine.cpp, the ISA-18.2 alarm core.  Two threads drive it: the    *)
(* parse thread (DataParseThread.cpp), which calls triggerAlarm and        *)
(* clearAlarm for every sample, and the main thread, which runs the        *)
(* operator's calls (AlarmController.cpp) and the engine's three QTimers.  *)
(* Each action is one critical section.  A timer handler that takes its    *)
(* locks more than once is a sequence of actions whose local variables are *)
(* in "main", so the parse thread runs between them; the operator's calls  *)
(* do not, because they need the main thread.                              *)
(*                                                                         *)
(* Time is the answer to "has this delay expired": every running delay has *)
(* an action that lets it expire.                                          *)
(***************************************************************************)
EXTENDS FloodDetector, ShelveManager, FiniteSets

CONSTANTS
  Tags,           \* tag ids
  Limits,         \* the AlarmLimit values the parse thread reports
  OffDelayTags,   \* the tags configured with offDelayMs > 0
  ChatterLimit,   \* repeats per minute that count as chattering, 3 in the code
  BatchSize,      \* flood-suppressed alarms restored per tick, 5 in the code
  NoTag

ASSUME TagsAssumption ==
  /\ IsFiniteSet(Tags) /\ Tags # {} /\ NoTag \notin Tags
  /\ OffDelayTags \subseteq Tags
ASSUME LimitsAssumption == Limits # {} /\ Limits \subseteq 1 .. 6
ASSUME CountsAssumption ==
  /\ ChatterLimit \in Nat /\ ChatterLimit >= 2
  /\ BatchSize \in Nat \ {0}

(* AlarmLimit::Normal; the parse thread passes Critical with LowLow (1) and *)
(* HighHigh (4), Major with every other limit.                              *)
NormalLimit == 0
Critical(limit) == limit \in {1, 4}

VARIABLES
  signal,           \* ghost: the limit last reported for a tag, 0 after clear
  alarm,            \* m_activeAlarms; state "Normal" is an absent entry
  onDelay,          \* m_onDelayEntries; limit 0 is an absent entry
  offDelay,         \* m_offDelayEntries: "none", "running" or "due"
  shelf,            \* m_shelveManager
  chatter,          \* m_chatteringGuard: count in the open window, else 0
  flood,            \* m_floodDetector
  floodSuppressed,  \* m_floodSuppressedAlarms: the saved state, or "none"
  pending,          \* m_pendingFloodRestoration, likewise
  recoveryPending,  \* m_floodRecoveryPending
  main              \* the timer handler the main thread is in, and its locals

vars == <<signal, alarm, onDelay, offDelay, shelf, chatter, flood,
          floodSuppressed, pending, recoveryPending, main>>

floodVars == <<floodSuppressed, pending, recoveryPending>>

-----------------------------------------------------------------------------
(* Alarms (AlarmEvent.h).                                                   *)

ActiveStates == {"ActiveUnack", "Activeack"}
UnmaskedStates == ActiveStates \cup {"ReturnToNormalunack"}
MaskedStates == {"Shelved", "SuppressedByDesign", "outOfService"}

(* AlarmEvent.shelved, with the reason the code records beside it:          *)
(* shelved for a time by the operator, without a time, by the flood         *)
(* protection, by the chattering protection.                                *)
ShelveReasons == {"timed", "open", "flood", "chatter"}

Alarms == [state : UnmaskedStates \cup MaskedStates \cup {"Normal"},
           limit : Limits \cup {NormalLimit},
           acknowledged : BOOLEAN,
           shelve : ShelveReasons \cup {"none"},
           outOfService : BOOLEAN]

NewAlarm(limit) == [state |-> "ActiveUnack", limit |-> limit,
                    acknowledged |-> FALSE, shelve |-> "none",
                    outOfService |-> FALSE]

NoAlarm == [NewAlarm(NormalLimit) EXCEPT !.state = "Normal"]

Present(e) == e.state # "Normal"
(* Faulty variant: an acknowledged alarm no longer counts as active.        *)
IsActiveUnackOnly(e) == e.state = "ActiveUnack"
IsActive(e) == e.state \in ActiveStates
IsSuppressed(e) == e.state \in {"SuppressedByDesign", "outOfService"}
IsShelved(e) == e.shelve # "none"

NoDelay == [limit |-> NormalLimit, due |-> FALSE]
Delays == [limit : Limits \cup {NormalLimit}, due : BOOLEAN]
Delayed(t) == onDelay[t].limit # NormalLimit

SavedStates == UnmaskedStates \cup {"none"}

-----------------------------------------------------------------------------
(* The main thread.                                                         *)

Idle == [job |-> "idle", todo |-> {}, tag |-> NoTag, limit |-> NormalLimit]
MainIdle == main.job = "idle"

(* The loop of a handler over "todo" ends when nothing is left.             *)
Loop(job, todo) == IF todo = {} THEN Idle ELSE [Idle EXCEPT !.job = job, !.todo = todo]

Jobs == {"idle", "onDelay", "raise", "offDelay", "return", "unshelve"}
-----------------------------------------------------------------------------
(* The parse thread: triggerAlarm.  "masked" is the answer of               *)
(* SuppressionEngine::evaluate, which the rules and live values decide.     *)

Blocked(t, masked) ==
  \/ masked
  \/ IsShelved(alarm[t])
  \/ alarm[t].outOfService
  \/ floodSuppressed[t] # "none"

Announce(t, limit) ==
  alarm' = [alarm EXCEPT ![t].state = "ActiveUnack", ![t].limit = limit,
                         ![t].acknowledged = FALSE]

Escalate(t, limit) ==
  /\ IsActive(alarm[t]) /\ limit > alarm[t].limit
  /\ Announce(t, limit)
  /\ UNCHANGED <<onDelay, offDelay>>

(* Only the trigger value of the alarm is updated.                          *)
Refresh(t, limit) ==
  /\ IsActive(alarm[t]) /\ limit <= alarm[t].limit
  /\ UNCHANGED <<alarm, onDelay, offDelay>>

Reactivate(t, limit) ==
  /\ alarm[t].state = "ReturnToNormalunack"
  /\ Announce(t, limit)
  /\ UNCHANGED <<onDelay, offDelay>>

StartOnDelay(t, limit) ==
  /\ alarm[t].state \notin UnmaskedStates
  /\ UNCHANGED alarm
  /\ IF Delayed(t)
     THEN /\ onDelay' = [onDelay EXCEPT ![t].limit = IF limit > @ THEN limit ELSE @]
          /\ UNCHANGED offDelay
     ELSE /\ onDelay' = [onDelay EXCEPT ![t] = [limit |-> limit, due |-> FALSE]]
          /\ offDelay' = [offDelay EXCEPT ![t] = "none"]

TriggerAlarm(t, limit, masked) ==
  /\ signal' = [signal EXCEPT ![t] = limit]
  /\ \/ Blocked(t, masked) /\ UNCHANGED <<alarm, onDelay, offDelay>>
     \/ /\ ~ Blocked(t, masked)
        /\ \/ Escalate(t, limit)
           \/ Refresh(t, limit)
           \/ Reactivate(t, limit)
           \/ StartOnDelay(t, limit)
  /\ UNCHANGED <<shelf, chatter, flood, floodVars, main>>

(* clearAlarm: the pending raise goes first, whatever the alarm is.         *)
ReturnToNormal(t) == alarm' = [alarm EXCEPT ![t].state = "ReturnToNormalunack"]

(* Faulty variant: the entry goes only with an alarm, after the return of   *)
(* line 263.                                                                *)
WithdrawWithAlarm(t) == [onDelay EXCEPT ![t] = IF Present(alarm[t]) THEN NoDelay ELSE @]
Withdraw(t) == [onDelay EXCEPT ![t] = NoDelay]

ClearAlarm(t) ==
  /\ signal' = [signal EXCEPT ![t] = NormalLimit]
  /\ onDelay' = Withdraw(t)
  /\ IF ~ Present(alarm[t]) \/ IsShelved(alarm[t])
     THEN UNCHANGED <<alarm, offDelay>>
     ELSE IF t \in OffDelayTags
     THEN /\ offDelay' = [offDelay EXCEPT ![t] = IF @ = "none" THEN "running" ELSE @]
          /\ UNCHANGED alarm
     ELSE ReturnToNormal(t) /\ UNCHANGED offDelay
  /\ UNCHANGED <<shelf, chatter, flood, floodVars, main>>

-----------------------------------------------------------------------------
(* checkFloodCondition, called with the alarm lock held: what it makes of   *)
(* alarms "al" when the detector is "f".                                    *)

(* Faulty variants: the test of the priority, or of the shelved flag,       *)
(* forgotten.                                                               *)
ExemptNotCritical(e) == ~ Present(e) \/ IsShelved(e) \/ e.outOfService \/ IsSuppressed(e)
ExemptNotShelved(e) ==
  ~ Present(e) \/ e.outOfService \/ IsSuppressed(e) \/ Critical(e.limit)

Exempt(e) ==
  ~ Present(e) \/ IsShelved(e) \/ e.outOfService \/ IsSuppressed(e) \/ Critical(e.limit)

Victim(f, al, t) == InFlood(f) /\ ~ Exempt(al[t]) /\ floodSuppressed[t] = "none"

AlarmsAfterCheck(f, al) ==
  [t \in Tags |-> IF Victim(f, al, t)
                  THEN [al[t] EXCEPT !.state = "Shelved", !.shelve = "flood"]
                  ELSE al[t]]

SuppressedAfterCheck(f, al) ==
  [t \in Tags |-> IF Victim(f, al, t) THEN al[t].state ELSE floodSuppressed[t]]

StartsRecovery(f) ==
  /\ ~ InFlood(f) /\ ~ InCooldown(f) /\ ~ recoveryPending
  /\ \E t \in Tags : floodSuppressed[t] # "none"

PendingAfterCheck(f) == IF StartsRecovery(f) THEN floodSuppressed ELSE pending

-----------------------------------------------------------------------------
(* The main thread: the on-delay timer.  The expired entries are listed     *)
(* under the lock; each is then taken out, whatever it is by then, and      *)
(* raised in a third critical section.  A scan that lists nothing changes   *)
(* nothing.                                                                 *)

OnDelayScan ==
  LET expired == {t \in Tags : onDelay[t].due} IN
  /\ MainIdle /\ expired # {}
  /\ main' = Loop("onDelay", expired)
  /\ UNCHANGED <<signal, alarm, onDelay, offDelay, shelf, chatter, flood, floodVars>>

OnDelayTake(t) ==
  /\ main.job = "onDelay" /\ t \in main.todo
  /\ IF Delayed(t)
     THEN /\ main' = [job |-> "raise", todo |-> main.todo \ {t}, tag |-> t,
                      limit |-> onDelay[t].limit]
          /\ onDelay' = [onDelay EXCEPT ![t] = NoDelay]
     ELSE /\ main' = Loop("onDelay", main.todo \ {t})
          /\ UNCHANGED onDelay
  /\ UNCHANGED <<signal, alarm, offDelay, shelf, chatter, flood, floodVars>>

(* ChatteringGuard::check.                                                  *)
Repeats(t) == IF chatter[t] < ChatterLimit THEN chatter[t] + 1 ELSE ChatterLimit
(* Faulty variant: off by one, and the open window not asked for.           *)
ChattersAtOnce(t) == Repeats(t) >= ChatterLimit - 1
Chatters(t) == chatter[t] > 0 /\ Repeats(t) >= ChatterLimit

(* onOnDelayTimeout.  A chattering tag raises nothing; its entry, when      *)
(* there is one, is shelved.  Any other raise replaces the entry.           *)
ShelveChattering(t) ==
  /\ Chatters(t)
  /\ IF Present(alarm[t])
     THEN /\ alarm' = [alarm EXCEPT ![t].state = "Shelved", ![t].shelve = "chatter"]
          /\ shelf' = [shelf EXCEPT ![t] = AfterShelve(@, "timed", TRUE)]
     ELSE UNCHANGED <<alarm, shelf>>
  /\ UNCHANGED <<flood, floodVars>>

Raise(t, limit) ==
  LET f == RecordAlarm(flood)
      al == [alarm EXCEPT ![t] = NewAlarm(limit)]
  IN  /\ ~ Chatters(t)
      /\ flood' = f
      /\ alarm' = AlarmsAfterCheck(f, al)
      /\ floodSuppressed' = SuppressedAfterCheck(f, al)
      /\ pending' = PendingAfterCheck(f)
      /\ recoveryPending' = (recoveryPending \/ StartsRecovery(f))
      /\ UNCHANGED shelf

OnDelayTimeout ==
  /\ main.job = "raise"
  /\ main' = Loop("onDelay", main.todo)
  /\ \/ /\ IsActive(alarm[main.tag])
        /\ UNCHANGED <<alarm, shelf, chatter, flood, floodVars>>
     \/ /\ ~ IsActive(alarm[main.tag])
        /\ chatter' = [chatter EXCEPT ![main.tag] = Repeats(main.tag)]
        /\ ShelveChattering(main.tag) \/ Raise(main.tag, main.limit)
  /\ UNCHANGED <<signal, onDelay, offDelay>>
-----------------------------------------------------------------------------
(* The main thread: the off-delay timer.  Each listed entry is removed,     *)
(* also one that was inserted meanwhile, and its alarm returned.            *)

OffDelayScan ==
  LET expired == {t \in Tags : offDelay[t] = "due"} IN
  /\ MainIdle /\ expired # {}
  /\ main' = Loop("offDelay", expired)
  /\ UNCHANGED <<signal, alarm, onDelay, offDelay, shelf, chatter, flood, floodVars>>

OffDelayRemove(t) ==
  /\ main.job = "offDelay" /\ t \in main.todo
  /\ offDelay' = [offDelay EXCEPT ![t] = "none"]
  /\ main' = [main EXCEPT !.job = "return", !.todo = @ \ {t}, !.tag = t]
  /\ UNCHANGED <<signal, alarm, onDelay, shelf, chatter, flood, floodVars>>

OffDelayTimeout ==
  /\ main.job = "return"
  /\ main' = Loop("offDelay", main.todo)
  /\ IF IsActive(alarm[main.tag]) THEN ReturnToNormal(main.tag) ELSE UNCHANGED alarm
  /\ UNCHANGED <<signal, onDelay, offDelay, shelf, chatter, flood, floodVars>>

-----------------------------------------------------------------------------
(* The main thread: onShelveTimerTick.  The first critical section expires  *)
(* shelves, lets the detector end a flood, runs checkFloodCondition and     *)
(* restores one batch; the tags whose shelve expired are then unshelved one *)
(* by one.  The KPI snapshot it saves, and the text an extended shelve is   *)
(* given, are outside the model.                                            *)

Tagged(saved) == {t \in Tags : saved[t] # "none"}
Without(saved, done) == [t \in Tags |-> IF t \in done THEN "none" ELSE saved[t]]

(* The loop over the pending tags stops when it has restored BatchSize of   *)
(* them; a tag without an alarm is dropped and not counted.  The order is   *)
(* that of a hash table.                                                    *)
IsBatch(done, saved, al) ==
  LET live == {t \in Tagged(saved) : Present(al[t])}
      left == Cardinality(live)
      size == IF Cardinality(Tagged(saved)) < BatchSize
              THEN Cardinality(Tagged(saved)) ELSE BatchSize
  IN  IF left < size THEN done = Tagged(saved) ELSE Cardinality(done \cap live) = size

(* Faulty variant: the shelved flag is not reset with the state.            *)
RestoredStillShelved(al, saved, done) ==
  [t \in Tags |-> IF t \in done /\ Present(al[t])
                  THEN [al[t] EXCEPT !.state = saved[t]] ELSE al[t]]

Restored(al, saved, done) ==
  [t \in Tags |-> IF t \in done /\ Present(al[t])
                  THEN [al[t] EXCEPT !.state = saved[t], !.shelve = "none"]
                  ELSE al[t]]

ShelveTick ==
  LET f       == CheckFloodExpired(flood)
      al      == AlarmsAfterCheck(f, alarm)
      saved   == PendingAfterCheck(f)
      expired == {t \in Tags : ReleasedOnExpiry(shelf[t])}
  IN  /\ MainIdle
      /\ shelf' = [t \in Tags |-> AfterExpiryCheck(shelf[t])]
      /\ flood' = f
      /\ \E done \in SUBSET Tagged(saved) :
           /\ IF recoveryPending \/ StartsRecovery(f)
              THEN IsBatch(done, saved, al) ELSE done = {}
           /\ alarm' = Restored(al, saved, done)
           /\ floodSuppressed' = Without(SuppressedAfterCheck(f, alarm), done)
           /\ pending' = Without(saved, done)
      /\ recoveryPending' = /\ recoveryPending \/ StartsRecovery(f)
                            /\ Tagged(pending') # {}
      /\ main' = Loop("unshelve", expired)
      /\ UNCHANGED <<signal, onDelay, offDelay, chatter>>

(* unshelveAlarm, called by the tick and by the operator.  Whatever the     *)
(* alarm was before it was shelved, it comes back as returned to normal:    *)
(* isActive() is asked while the state is still Shelved.                    *)
(* Faulty variant: a suppressed alarm keeps its state when it is released.  *)
ReleasedStateKept(e) == IF IsSuppressed(e) THEN e.state ELSE "ReturnToNormalunack"
ReleasedState(e) == IF IsActive(e) THEN "ActiveUnack" ELSE "ReturnToNormalunack"

UnshelveAlarm(t) ==
  /\ shelf' = [shelf EXCEPT ![t] = AfterUnshelve(@)]
  /\ floodSuppressed' = [floodSuppressed EXCEPT ![t] = "none"]
  /\ alarm' = IF IsShelved(alarm[t])
              THEN [alarm EXCEPT ![t].shelve = "none", ![t].state = ReleasedState(alarm[t])]
              ELSE alarm
  /\ UNCHANGED <<signal, onDelay, offDelay, chatter, flood, pending, recoveryPending>>

TickUnshelve(t) ==
  /\ main.job = "unshelve" /\ t \in main.todo
  /\ main' = Loop("unshelve", main.todo \ {t})
  /\ UnshelveAlarm(t)

-----------------------------------------------------------------------------
(* The operator, on the main thread between the timers.                     *)

Operator == MainIdle /\ UNCHANGED <<signal, onDelay, offDelay, chatter, flood, main>>

AcknowledgedAlarm(e) ==
  IF e.state = "ActiveUnack" THEN [e EXCEPT !.state = "Activeack", !.acknowledged = TRUE]
  ELSE e

ErasedAlarm(e) == IF e.state = "ReturnToNormalunack" THEN NoAlarm ELSE e

(* One alarm (by id or by tag) or all of them.                              *)
AcknowledgeAlarms(some) ==
  /\ Operator
  /\ alarm' = [t \in Tags |-> IF t \in some THEN AcknowledgedAlarm(alarm[t]) ELSE alarm[t]]
  /\ UNCHANGED <<shelf, floodVars>>

AcknowledgeReturns(some) ==
  /\ Operator
  /\ alarm' = [t \in Tags |-> IF t \in some THEN ErasedAlarm(alarm[t]) ELSE alarm[t]]
  /\ UNCHANGED <<shelf, floodVars>>

ShelveAlarm(t, duration) ==
  /\ Operator
  /\ Present(alarm[t])
  /\ alarm' = [alarm EXCEPT ![t].state = "Shelved",
                 ![t].shelve = IF duration = "open" THEN "open" ELSE "timed"]
  /\ shelf' = [shelf EXCEPT ![t] = AfterShelve(@, duration, FALSE)]
  /\ UNCHANGED floodVars

OperatorUnshelve(t) == MainIdle /\ UNCHANGED main /\ UnshelveAlarm(t)

SuppressByDesign(t) ==
  /\ Operator
  /\ Present(alarm[t])
  /\ alarm' = [alarm EXCEPT ![t].state = "SuppressedByDesign"]
  /\ UNCHANGED <<shelf, floodVars>>

UnsuppressByDesign(t) ==
  /\ Operator
  /\ alarm[t].state = "SuppressedByDesign"
  /\ alarm' = [alarm EXCEPT ![t].state = ReleasedState(alarm[t])]
  /\ UNCHANGED <<shelf, floodVars>>

SetOutOfService(t) ==
  /\ Operator
  /\ Present(alarm[t])
  /\ alarm' = [alarm EXCEPT ![t].state = "outOfService", ![t].outOfService = TRUE]
  /\ UNCHANGED <<shelf, floodVars>>

ReturnToService(t) ==
  /\ Operator
  /\ alarm[t].outOfService
  /\ alarm' = [alarm EXCEPT ![t].outOfService = FALSE,
                            ![t].state = ReleasedState(alarm[t])]
  /\ UNCHANGED <<shelf, floodVars>>

-----------------------------------------------------------------------------
(* Delays that expire.                                                      *)

Lapse == UNCHANGED <<signal, alarm, floodVars, main>>

OnDelayExpires(t) ==
  /\ Lapse /\ Delayed(t) /\ ~ onDelay[t].due
  /\ onDelay' = [onDelay EXCEPT ![t].due = TRUE]
  /\ UNCHANGED <<offDelay, shelf, chatter, flood>>

OffDelayExpires(t) ==
  /\ Lapse /\ offDelay[t] = "running"
  /\ offDelay' = [offDelay EXCEPT ![t] = "due"]
  /\ UNCHANGED <<onDelay, shelf, chatter, flood>>

ShelveExpires(t) ==
  /\ Lapse /\ shelf[t].deadline = "pending"
  /\ shelf' = [shelf EXCEPT ![t].deadline = "due"]
  /\ UNCHANGED <<onDelay, offDelay, chatter, flood>>

ReshelveWindowExpires(t) ==
  /\ Lapse /\ shelf[t].recent
  /\ shelf' = [shelf EXCEPT ![t].recent = FALSE]
  /\ UNCHANGED <<onDelay, offDelay, chatter, flood>>

ChatterWindowExpires(t) ==
  /\ Lapse /\ chatter[t] > 0
  /\ chatter' = [chatter EXCEPT ![t] = 0]
  /\ UNCHANGED <<onDelay, offDelay, shelf, flood>>

FloodWindowExpires ==
  Lapse /\ WindowLapses(flood, flood') /\ UNCHANGED <<onDelay, offDelay, shelf, chatter>>

FloodPhaseExpires ==
  Lapse /\ PhaseLapses(flood, flood') /\ UNCHANGED <<onDelay, offDelay, shelf, chatter>>

-----------------------------------------------------------------------------
Init ==
  /\ signal = [t \in Tags |-> NormalLimit]
  /\ alarm = [t \in Tags |-> NoAlarm]
  /\ onDelay = [t \in Tags |-> NoDelay]
  /\ offDelay = [t \in Tags |-> "none"]
  /\ shelf = [t \in Tags |-> NotShelved]
  /\ chatter = [t \in Tags |-> 0]
  /\ flood = NoFlood
  /\ floodSuppressed = [t \in Tags |-> "none"]
  /\ pending = [t \in Tags |-> "none"]
  /\ recoveryPending = FALSE
  /\ main = Idle

Parse ==
  \E t \in Tags :
    \/ \E limit \in Limits, masked \in BOOLEAN : TriggerAlarm(t, limit, masked)
    \/ ClearAlarm(t)

Timers ==
  \/ OnDelayScan \/ OnDelayTimeout
  \/ OffDelayScan \/ OffDelayTimeout
  \/ ShelveTick
  \/ \E t \in Tags : OnDelayTake(t) \/ OffDelayRemove(t) \/ TickUnshelve(t)

Acknowledging ==
  \E some \in {{t} : t \in Tags} \cup {Tags} :
    AcknowledgeAlarms(some) \/ AcknowledgeReturns(some)

Masking ==
  \E t \in Tags :
    \/ \E duration \in Durations : ShelveAlarm(t, duration)
    \/ OperatorUnshelve(t)
    \/ SuppressByDesign(t) \/ UnsuppressByDesign(t)
    \/ SetOutOfService(t) \/ ReturnToService(t)

Time ==
  \/ FloodWindowExpires \/ FloodPhaseExpires
  \/ \E t \in Tags :
       \/ OnDelayExpires(t) \/ OffDelayExpires(t)
       \/ ShelveExpires(t) \/ ReshelveWindowExpires(t) \/ ChatterWindowExpires(t)

Next == Parse \/ Timers \/ Acknowledging \/ Masking \/ Time

Spec == Init /\ [][Next]_vars

(* What the code's scheduling guarantees.  The Qt event loop runs every     *)
(* timer again and again, also when other handlers come first (strong       *)
(* fairness), and a handler that has begun goes on.  The parse thread       *)
(* evaluates every sample, so it repeats its last word on a signal.  Spans  *)
(* pass, except that a mature flood needs a time without alarms: that it    *)
(* comes is certain only while the counting window has lapsed and no alarm  *)
(* has opened another.                                                      *)
Resample(t) ==
  \/ signal[t] # NormalLimit /\ TriggerAlarm(t, signal[t], FALSE)
  \/ signal[t] = NormalLimit /\ ClearAlarm(t)

FloodPhaseDue == (flood.phase = "mature" => flood.count = 0) /\ FloodPhaseExpires

Handlers == OnDelayTimeout \/ OffDelayTimeout
            \/ \E t \in Tags : OnDelayTake(t) \/ OffDelayRemove(t) \/ TickUnshelve(t)

EngineFairness ==
  /\ WF_vars(Handlers)
  /\ SF_vars(OnDelayScan) /\ SF_vars(OffDelayScan) /\ SF_vars(ShelveTick)
  /\ WF_vars(FloodPhaseDue) /\ WF_vars(FloodWindowExpires)
  /\ \A t \in Tags :
       /\ WF_vars(OnDelayExpires(t)) /\ WF_vars(OffDelayExpires(t))
       /\ WF_vars(ShelveExpires(t)) /\ WF_vars(ChatterWindowExpires(t))

Fairness == EngineFairness /\ \A t \in Tags : WF_vars(Resample(t))
-----------------------------------------------------------------------------
(* Properties.                                                              *)

(* The type of every variable.                                              *)
TypeOK ==
  /\ signal \in [Tags -> Limits \cup {NormalLimit}]
  /\ alarm \in [Tags -> Alarms]
  /\ onDelay \in [Tags -> Delays]
  /\ offDelay \in [Tags -> {"none", "running", "due"}]
  /\ shelf \in [Tags -> Shelves]
  /\ chatter \in [Tags -> 0 .. ChatterLimit]
  /\ flood \in Detectors
  /\ floodSuppressed \in [Tags -> SavedStates]
  /\ pending \in [Tags -> SavedStates]
  /\ recoveryPending \in BOOLEAN
  /\ main \in [job : Jobs, todo : SUBSET Tags, tag : Tags \cup {NoTag},
               limit : Limits \cup {NormalLimit}]

(* An alarm counts down to being raised only while the parse thread's last  *)
(* word on its signal was a violation: a clear, however early it returns,   *)
(* has withdrawn the entry (AlarmEngine.cpp:261).                           *)
PendingImpliesViolating == \A t \in Tags : Delayed(t) => signal[t] # NormalLimit

(* Every masked state can be left: the release operations test the flag     *)
(* (shelved, outOfService) and not the state, so a state without its flag,  *)
(* for instance one that the flood protection saved and gave back, would    *)
(* stay masked for ever.                                                    *)
NoOrphanMask ==
  \A t \in Tags :
    /\ alarm[t].state = "Shelved" => IsShelved(alarm[t])
    /\ alarm[t].state = "outOfService" => alarm[t].outOfService

(* A shelved alarm is on somebody's list to be given back: the deadlines,   *)
(* the tags the tick still has to unshelve, or the flood-suppressed tags.   *)
(* Only a shelve that the operator asked for without a time has no release. *)
Released(t) == main.job = "unshelve" /\ t \in main.todo

ShelvedHasRelease ==
  \A t \in Tags :
    /\ alarm[t].shelve \in {"timed", "chatter"} =>
         shelf[t].deadline # "none" \/ Released(t)
    /\ alarm[t].shelve = "flood" => floodSuppressed[t] # "none"

(* The flood protection hides no Critical alarm, also when the alarm        *)
(* escalated, was saved, restored or replaced in the meantime               *)
(* (AlarmEngine.cpp:331).                                                   *)
CriticalNotFloodShelved ==
  \A t \in Tags : alarm[t].shelve = "flood" => ~ Critical(alarm[t].limit)

(* The restoration in progress and its list agree: a tag on a list that     *)
(* nobody works off would stay suppressed.                                  *)
RecoveryTracked == recoveryPending <=> Tagged(pending) # {}

(* What makes these invariants inductive.  An absent entry is blank, so     *)
(* nothing of an erased alarm survives in the next one; a handler in the    *)
(* middle of a tag has one.                                                 *)
AbsentIsBlank == \A t \in Tags : ~ Present(alarm[t]) => alarm[t] = NoAlarm

HandlerHasTag == main.job \in {"raise", "return"} => main.tag \in Tags

IInv == /\ TypeOK /\ NoOrphanMask /\ AbsentIsBlank /\ HandlerHasTag
        /\ PendingImpliesViolating /\ RecoveryTracked
        /\ ShelvedHasRelease /\ CriticalNotFloodShelved

(* A flood ends: the alarms stop, or the first alarm after the counting     *)
(* window ends it (FloodDetector.h:20).                                     *)
FloodEnds == InFlood(flood) ~> ~ InFlood(flood)

(* Once no flood comes any more, no tag stays flood-suppressed.             *)
SuppressedReleased ==
  <>[](~ InFlood(flood)) =>
    \A t \in Tags : (floodSuppressed[t] # "none") ~> (floodSuppressed[t] = "none")

(* A shelve with a time ends.                                               *)
TimedShelveEnds ==
  \A t \in Tags : (alarm[t].shelve = "timed") ~> (alarm[t].shelve # "timed")

(* A signal that keeps violating its limit is announced, or hidden by a     *)
(* protection that is itself released: neither a raise dropped as           *)
(* chattering nor one that met a mask is the last word.                     *)
ViolationAnnounced ==
  \A t \in Tags :
    (signal[t] # NormalLimit) ~>
      \/ signal[t] = NormalLimit
      \/ Present(alarm[t])
      \/ floodSuppressed[t] # "none"

(* An alarm whose signal has returned for good does not stay active, also   *)
(* when the clear came while it was hidden and it is restored as active.    *)
ReturnNoticed ==
  \A t \in Tags :
    <>[](signal[t] = NormalLimit) => <>[](alarm[t].state \notin ActiveStates)
-----------------------------------------------------------------------------
(* What comments and manual say of the engine and the code does not keep.   *)

(* Releasing a shelved alarm restores the state it had                      *)
(* (AlarmController.cpp:31): while the signal still violates its limit, the *)
(* alarm does not come back as returned to normal.                          *)
ReleasedAsItWas ==
  [][\A t \in Tags :
       IsShelved(alarm[t]) /\ ~ IsShelved(alarm'[t]) /\ signal[t] # NormalLimit
         => alarm'[t].state # "ReturnToNormalunack"]_vars

(* An active alarm is cleared only after the signal has stayed normal for   *)
(* the off-delay (user-manual.md:291): a violation reported during the      *)
(* delay calls the clearing off.                                            *)
ClearedOnlyWhenNormal ==
  [][\A t \in Tags :
       IsActive(alarm[t]) /\ alarm'[t].state = "ReturnToNormalunack"
         => signal'[t] = NormalLimit]_vars

(* An alarm shown as acknowledged was acknowledged by an operator           *)
(* (AlarmEvent.h:104).                                                      *)
AcknowledgedByOperator ==
  \A t \in Tags : alarm[t].state = "Activeack" => alarm[t].acknowledged
=============================================================================
