------------------------------ MODULE ChangeLog ------------------------------
(***************************************************************************)
(* The changes of alarm parameters: AlarmEngine::setAlarmLimit and         *)
(* setAlarmPriority, which change a tag of the tag manager and record what *)
(* they did, and alarmchangelog.cpp, which keeps the records, approves     *)
(* them, and writes them to a file and back.  The host calls none of it    *)
(* yet; it is modelled as the interface offers it to one thread.           *)
(*                                                                         *)
(* Limits are in hundredths.  A record shows the old and the new value     *)
(* rounded to a tenth; a delay is kept as an integer.  Names, times and    *)
(* reasons are left out.                                                   *)
(***************************************************************************)
EXTENDS Integers, Sequences

CONSTANTS
  KnownTags, UnknownTags, \* tags that the tag manager has and has not
  FloatFields,  \* the four limits and the dead band, or some of them
  DelayFields,  \* onDelayMs and offDelayMs
  OtherFields,  \* names of no parameter
  Entered,      \* what the operator enters, in hundredths
  Priorities,   \* the priorities of alarms
  MaxChanges,   \* the records that are kept, 10000 in the code
  MaxMade       \* a bound on the changes and approvals

Fields == FloatFields \cup DelayFields

ASSUME ChangeAssumption ==
  /\ KnownTags \cap UnknownTags = {} /\ FloatFields \cap DelayFields = {}
  /\ OtherFields \cap (Fields \cup {"priority"}) = {} /\ "priority" \notin Fields
  /\ Entered \subseteq Nat /\ MaxChanges \in Nat \ {0}
  /\ Priorities \subseteq Nat /\ MaxMade \in Nat

VARIABLES
  parameter,  \* the parameters of the known tags, in hundredths
  changes,    \* m_records, the latest first
  onDisk,     \* the file: its records, or none that can be read
  own,        \* ghost: how many of the latest records belong to the present tags
  made        \* ghost: the changes and approvals

changeVars == <<parameter, changes, onDisk, own, made>>

NoFile == [readable |-> FALSE, records |-> << >>]

ChangeInit ==
  /\ parameter = [t \in KnownTags |-> [f \in Fields \cup {"priority"} |-> 0]]
  /\ changes = << >> /\ onDisk = NoFile
  /\ own = 0 /\ made = 0

-----------------------------------------------------------------------------
(* QString::number(value, 'f', 1), in tenths, and static_cast<int>.         *)
Shown(value) == (value + 5) \div 10
Whole(value) == 100 * (value \div 100)

(* getTag answers with a default tag for one that is not there.             *)
ParameterOf(t, f) == IF t \in KnownTags THEN parameter[t][f] ELSE 0

(* recordChange: the oldest record makes room.                              *)
(* Faulty variant: the latest record makes room.                            *)
DropLatest(records) == IF Len(records) > MaxChanges THEN Tail(records) ELSE records
DropOldest(records) ==
  IF Len(records) > MaxChanges THEN SubSeq(records, 1, MaxChanges) ELSE records

RecordChange(t, f, old, new) ==
  LET entry == [tag |-> t, field |-> f, old |-> old, new |-> new, approved |-> FALSE] IN
  /\ changes' = DropOldest(<<entry>> \o changes)
  /\ own' = IF own < MaxChanges THEN own + 1 ELSE own
  /\ made < MaxMade /\ made' = made + 1

(* updateTag refuses a tag that is not there.                               *)
Assign(t, f, value) ==
  parameter' = IF t \in KnownTags THEN [parameter EXCEPT ![t][f] = value] ELSE parameter

(* setAlarmLimit: the record is made whatever became of the change, also    *)
(* when the tag or the field is not known.                                  *)
SetAlarmLimit(t, f, value) ==
  /\ IF f \in Fields
     THEN /\ Assign(t, f, IF f \in DelayFields THEN Whole(value) ELSE value)
          /\ RecordChange(t, f, Shown(ParameterOf(t, f)), Shown(value))
     ELSE /\ UNCHANGED parameter
          /\ RecordChange(t, f, 0, Shown(value))
  /\ UNCHANGED onDisk

SetAlarmPriority(t, priority) ==
  /\ Assign(t, "priority", priority)
  /\ RecordChange(t, "priority", ParameterOf(t, "priority"), priority)
  /\ UNCHANGED onDisk

-----------------------------------------------------------------------------
(* AlarmChangeLog.                                                          *)

(* An index that is not in the list changes nothing.                        *)
Approve(i) ==
  /\ i \in DOMAIN changes
  /\ made < MaxMade /\ made' = made + 1
  /\ changes' = [changes EXCEPT ![i].approved = TRUE]
  /\ UNCHANGED <<parameter, onDisk, own>>

(* The file is opened or not; that it could not be written is not seen.     *)
SaveToFile ==
  /\ onDisk' \in {[readable |-> TRUE, records |-> changes], NoFile}
  /\ UNCHANGED <<parameter, changes, own, made>>

(* A file that holds no list leaves the records as they are.                *)
LoadFromFile ==
  /\ onDisk.readable
  /\ changes' = onDisk.records /\ own' = 0
  /\ UNCHANGED <<parameter, onDisk, made>>

ChangeNext ==
  \/ \E t \in KnownTags \cup UnknownTags :
       \/ \E f \in Fields \cup OtherFields, value \in Entered : SetAlarmLimit(t, f, value)
       \/ \E priority \in Priorities : SetAlarmPriority(t, priority)
  \/ \E i \in 1 .. MaxChanges : Approve(i)
  \/ SaveToFile \/ LoadFromFile

ChangeSpec == ChangeInit /\ [][ChangeNext]_changeVars

-----------------------------------------------------------------------------
(* Properties.                                                              *)

(* queryChanges of a tag and a field, among the records of the present      *)
(* tags: where they are, the latest first.                                  *)
Places(t, f) == {i \in 1 .. own : changes[i].tag = t /\ changes[i].field = f}

(* The log tells the whole story of a limit and of a priority: each change  *)
(* goes on from the value the one before it left, and the latest one shows  *)
(* what the tag has now, whatever changes of other tags and fields, known   *)
(* or not, come in between and however many records have been dropped.  Of  *)
(* the delays it does not (AlarmEngine.cpp:572-630, alarmchangelog.cpp:13). *)
Display(f, value) == IF f = "priority" THEN value ELSE Shown(value)

ChangesChained ==
  \A t \in KnownTags, f \in FloatFields \cup {"priority"} :
    LET places == Places(t, f) IN
    /\ \A i, j \in places :
         (i < j /\ \A k \in places : ~ (i < k /\ k < j)) => changes[i].old = changes[j].new
    /\ \A i \in places :
         (\A k \in places : i <= k) => changes[i].new = Display(f, parameter[t][f])
=============================================================================
