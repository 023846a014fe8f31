----------------------------- MODULE ModbusDevice -----------------------------
(***************************************************************************)
(* ModbusComm with its entry in ModbusImpl: the connection to one device,  *)
(* its heartbeat, the reconnecting after a loss and the queue of writes.   *)
(* Everything of ModbusComm runs in the event loop of the device's own     *)
(* thread, so that each handler is one action; the main thread only posts  *)
(* to it.  What a call to the device returns is free: the device may       *)
(* answer or not at any time.  The heartbeat's interval is a setting, no   *)
(* order between it and the delays of the reconnecting is assumed.  No     *)
(* part of the host is connected to the signals, they are left out.        *)
(***************************************************************************)
EXTENDS Naturals, Sequences

CONSTANTS
  MaxFail,      \* HEARTBEAT_MAX_FAIL, 3 in the code
  MaxAttempts,  \* MAX_RECONNECT_ATTEMPTS, 20 in the code
  MaxWrites     \* a bound on the writes of the operator

ASSUME DeviceAssumption ==
  MaxFail \in Nat \ {0} /\ MaxAttempts \in Nat \ {0} /\ MaxWrites \in Nat

VARIABLES
  opened,       \* m_ctx is not null
  connected,    \* m_connected
  polling,      \* m_polling and m_pollTimer
  heartbeat,    \* m_heartbeatTimer runs
  failCount,    \* m_heartbeatFailCount, as far as it is compared
  reconnecting, \* m_reconnecting
  attempts,     \* m_reconnectAttempts
  connectShots, \* the single-shot timers under way that will connect,
  retryShots,   \* and those that will call attemptReconnect
  fresh,        \* the first call, posted by addDevice, is still in the event queue
  posted,       \* the writes behind it in the event queue of the thread, by number
  writeQueue,   \* m_writeQueue
  offered,      \* ghost: the writes put to the device, taken by it or refused
  issued,       \* ghost: the number of writes the operator asked for
  failures,     \* ghost: the connects that failed since the last one that did not
  stopped       \* ghost: stopAll has been called

shots == <<connectShots, retryShots>>
link == <<opened, connected, polling, heartbeat, failCount, reconnecting, attempts,
          shots, failures>>
deviceVars == <<link, fresh, posted, writeQueue, offered, issued, stopped>>

NoShots == connectShots = 0 /\ retryShots = 0

DeviceInit ==
  /\ opened = FALSE /\ connected = FALSE /\ polling = FALSE /\ heartbeat = FALSE
  /\ reconnecting = FALSE /\ stopped = FALSE
  /\ failCount = 0 /\ attempts = 0 /\ failures = 0 /\ issued = 0
  /\ NoShots
  /\ fresh = TRUE /\ posted = << >> /\ writeQueue = << >> /\ offered = << >>

-----------------------------------------------------------------------------
(* connectToHost, whose result is ok.                                       *)
ConnectToHost(ok) ==
  \/ /\ ok
     /\ opened' = TRUE /\ connected' = TRUE /\ heartbeat' = TRUE
     /\ failCount' = 0 /\ failures' = 0
  \/ /\ ~ok
     /\ opened' = FALSE /\ failures' = failures + 1
     /\ UNCHANGED <<connected, heartbeat, failCount>>

(* attemptReconnect.                                                        *)
GivesUp(count) == count > MaxAttempts
AttemptReconnect ==
  \/ reconnecting /\ UNCHANGED <<reconnecting, attempts, connectShots>>
  \/ /\ ~reconnecting
     /\ attempts' = attempts + 1
     /\ \/ GivesUp(attempts') /\ UNCHANGED <<reconnecting, connectShots>>
        \/ /\ ~GivesUp(attempts')
           /\ connectShots' = connectShots + 1
           /\ reconnecting' = TRUE

-----------------------------------------------------------------------------
(* The device thread.                                                       *)

(* The call that addDevice posts: the polling is started whether or not the *)
(* device could be reached.                                                 *)
Connect(ok) ==
  /\ fresh
  /\ fresh' = FALSE
  /\ ConnectToHost(ok)
  /\ polling' = TRUE
  /\ UNCHANGED <<reconnecting, attempts, shots, posted, writeQueue, offered, issued, stopped>>

(* Only a context and, for a successful read, a connection are asked for.   *)
(* Faulty variant: the heartbeat goes on without a context.                 *)
BeatsAlways == heartbeat
Beats == heartbeat /\ opened

HeartbeatAnswered ==
  /\ Beats /\ connected
  /\ failCount' = 0
  /\ UNCHANGED <<opened, connected, polling, heartbeat, reconnecting, attempts, shots,
                 failures, fresh, posted, writeQueue, offered, issued, stopped>>

(* Faulty variant: the polling is not stopped.                              *)
KeepPolling == polling
StopPoll == FALSE

HeartbeatFails ==
  /\ Beats
  /\ UNCHANGED <<opened, heartbeat, failures, fresh, posted, writeQueue, offered, issued,
                 stopped>>
  /\ \/ /\ failCount + 1 < MaxFail
        /\ failCount' = failCount + 1
        /\ UNCHANGED <<connected, polling, reconnecting, attempts, shots>>
     \/ /\ failCount + 1 >= MaxFail
        /\ failCount' = MaxFail
        /\ connected' = FALSE
        /\ polling' = StopPoll
        /\ AttemptReconnect /\ UNCHANGED retryShots

(* Faulty variants: the flag stays set when the connect failed; the count   *)
(* of attempts is not reset by a success.                                   *)
StillReconnecting(ok) == IF ok THEN FALSE ELSE reconnecting
ReconnectingAfter(ok) == FALSE
AttemptsKept(ok) == attempts
AttemptsAfter(ok) == IF ok THEN 0 ELSE attempts

(* The single shot of attemptReconnect.                                     *)
Reconnect(ok) ==
  /\ connectShots > 0
  /\ connectShots' = connectShots - 1
  /\ retryShots' = IF ok THEN retryShots ELSE retryShots + 1
  /\ ConnectToHost(ok)
  /\ reconnecting' = ReconnectingAfter(ok)
  /\ attempts' = AttemptsAfter(ok)
  /\ polling' = (ok \/ polling)
  /\ UNCHANGED <<fresh, posted, writeQueue, offered, issued, stopped>>

(* The single shot of a reconnect that failed.                              *)
Retry ==
  /\ retryShots > 0
  /\ retryShots' = retryShots - 1
  /\ AttemptReconnect
  /\ UNCHANGED <<opened, connected, polling, heartbeat, failCount, failures, fresh,
                 posted, writeQueue, offered, issued, stopped>>

(* writeHoldingRegisters and processWriteQueue for write w: if there is a   *)
(* connection the whole queue is put to the device, and a task that it      *)
(* refuses is dropped.  Nothing but the next write works off a backlog.     *)
(* Faulty variant: the new write goes first, the backlog after it.          *)
NewestFirst(w) == <<w>> \o writeQueue
Enqueued(w) == Append(writeQueue, w)

HandleWrite ==
  /\ ~fresh /\ posted # << >>
  /\ posted' = Tail(posted)
  /\ LET queue == Enqueued(Head(posted)) IN
     \/ /\ connected /\ opened
        /\ offered' = offered \o queue /\ writeQueue' = << >>
     \/ /\ ~(connected /\ opened)
        /\ writeQueue' = queue /\ UNCHANGED offered
  /\ UNCHANGED <<link, fresh, issued, stopped>>

-----------------------------------------------------------------------------
(* The main thread.                                                         *)

WriteRegister ==
  /\ issued < MaxWrites
  /\ issued' = issued + 1
  /\ posted' = Append(posted, issued')
  /\ UNCHANGED <<link, fresh, writeQueue, offered, stopped>>

(* stopAll asks the meta object for a method by the name "stopPoll".  It    *)
(* knows the slots and the invokable methods of a class, and stopPoll is    *)
(* neither: the call fails and nothing is posted.  So does startAll.        *)
StopAll ==
  /\ stopped' = TRUE
  /\ UNCHANGED <<link, fresh, posted, writeQueue, offered, issued>>

-----------------------------------------------------------------------------
Reconnecting == (\E ok \in BOOLEAN : Reconnect(ok)) \/ Retry
HandlePosted == (\E ok \in BOOLEAN : Connect(ok)) \/ HandleWrite

DeviceNext == \/ HandlePosted \/ Reconnecting
              \/ HeartbeatAnswered \/ HeartbeatFails
              \/ WriteRegister \/ StopAll

DeviceSpec == DeviceInit /\ [][DeviceNext]_deviceVars

(* The event loop runs the posted calls and the shots that are due, the     *)
(* heartbeat's interval passes again and again.                             *)
FairDeviceSpec ==
  /\ DeviceSpec
  /\ WF_deviceVars(HandlePosted) /\ WF_deviceVars(Reconnecting)
  /\ WF_deviceVars(HeartbeatAnswered \/ HeartbeatFails)

-----------------------------------------------------------------------------
(* Properties.                                                              *)

FlagsOK ==
  /\ opened \in BOOLEAN /\ connected \in BOOLEAN /\ polling \in BOOLEAN
  /\ heartbeat \in BOOLEAN /\ reconnecting \in BOOLEAN
  /\ fresh \in BOOLEAN /\ stopped \in BOOLEAN
CountsOK ==
  /\ failCount \in 0 .. MaxFail /\ attempts \in 0 .. MaxAttempts + 1
  /\ connectShots \in Nat /\ retryShots \in Nat
  /\ failures \in Nat /\ issued \in Nat
WritesOK == posted \in Seq(Nat) /\ writeQueue \in Seq(Nat) /\ offered \in Seq(Nat)

(* There is at most one reconnect under way, the flag says so, and the      *)
(* connection, while it stands, has none (ModbusComm.cpp:254-280), although *)
(* the heartbeat goes on meanwhile.                                         *)
OneReconnect ==
  /\ connectShots + retryShots <= 1
  /\ reconnecting <=> connectShots = 1
  /\ connected => opened /\ NoShots
  /\ opened /\ ~connected => reconnecting

(* A device that was connected once is polled exactly while the connection  *)
(* stands (ModbusComm.cpp:161-178, 266-274).                                *)
PolledWhileConnected == heartbeat => (polling <=> connected)

(* The device is given up when MaxAttempts connects in a row have failed,   *)
(* and not before (ModbusComm.cpp:258-265).                                 *)
GivesUpAfterMaxFailures ==
  GivesUp(attempts) => failures = MaxAttempts

(* Writes are put to the device in the order the operator made them and     *)
(* each once, also those that found no connection and waited through losses *)
(* and reconnects.  That the device takes them is not said: a write that it *)
(* refuses is dropped (ModbusComm.cpp:240-248) and not put to it again; nor *)
(* how long a backlog waits, for only the next write works it off           *)
(* (ModbusComm.cpp:111-125, 220-252).                                       *)
WritesInOrder ==
  offered \o writeQueue \o posted = [i \in 1 .. issued |-> i]

(* A connection that was lost comes back or is given up: the reconnecting   *)
(* does not stop in between (ModbusComm.cpp:254-280).                       *)
LostIsRetried == (heartbeat /\ ~connected) ~> (connected \/ GivesUp(attempts))

(* Stopping the field bus stops the polling (DataPipeline.h:47).            *)
StopStopsPolling == stopped ~> ~polling
=============================================================================
