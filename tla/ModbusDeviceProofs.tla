-------------------------- MODULE ModbusDeviceProofs --------------------------
(***************************************************************************)
(* The safety properties of ModbusDevice for every limit.  What connects   *)
(* them is Counting: with a reconnect under way, m_reconnectAttempts is    *)
(* one more than the connects that failed in a row, between two of them it *)
(* is as many; and before the first connection nothing has happened.       *)
(***************************************************************************)
EXTENDS ModbusDevice, SequenceTheorems, TLAPS

Counting ==
  /\ ~heartbeat => ~opened /\ ~connected /\ NoShots /\ attempts = 0
  /\ fresh => ~heartbeat /\ failures = 0
  /\ connected => attempts = 0 /\ failures = 0
  /\ heartbeat /\ NoShots => connected \/ GivesUp(attempts)
  /\ connectShots = 1 => attempts = failures + 1 /\ attempts <= MaxAttempts
  /\ retryShots = 1 => attempts = failures /\ attempts <= MaxAttempts
  /\ GivesUp(attempts) => failures = MaxAttempts /\ NoShots /\ ~opened

LinkInv == OneReconnect /\ PolledWhileConnected /\ Counting

IInv == FlagsOK /\ CountsOK /\ LinkInv /\ WritesOK /\ WritesInOrder

LEMMA InitIInv == DeviceInit => IInv
<1> SUFFICES ASSUME DeviceInit PROVE IInv
  OBVIOUS
<1>1. FlagsOK
  BY DEF DeviceInit, FlagsOK
<1>2. CountsOK /\ LinkInv
  BY DeviceAssumption DEF DeviceInit, CountsOK, LinkInv, OneReconnect, PolledWhileConnected,
     Counting, NoShots, GivesUp
<1>3. WritesOK /\ WritesInOrder
  BY DEF DeviceInit, WritesOK, WritesInOrder
<1>4. QED
  BY <1>1, <1>2, <1>3 DEF IInv

-----------------------------------------------------------------------------
(* The connection.  None of its steps touches the writes.                   *)

LEMMA ConnectKeeps ==
  ASSUME IInv, NEW ok \in BOOLEAN, Connect(ok) PROVE IInv'
<1> USE DEF IInv
<1>1. FlagsOK'
  BY DEF FlagsOK, Connect, ConnectToHost
<1>2. (CountsOK /\ LinkInv)'
  BY DeviceAssumption DEF CountsOK, LinkInv, OneReconnect, PolledWhileConnected, Counting,
     NoShots, GivesUp, shots, Connect, ConnectToHost
<1>3. (WritesOK /\ WritesInOrder)'
  BY DEF WritesOK, WritesInOrder, Connect, ConnectToHost
<1>4. QED
  BY <1>1, <1>2, <1>3

LEMMA HeartbeatAnsweredKeeps ==
  ASSUME IInv, HeartbeatAnswered PROVE IInv'
<1> USE DEF IInv
<1>1. FlagsOK'
  BY DEF FlagsOK, HeartbeatAnswered
<1>2. (CountsOK /\ LinkInv)'
  BY DeviceAssumption DEF CountsOK, LinkInv, OneReconnect, PolledWhileConnected, Counting,
     NoShots, GivesUp, shots, HeartbeatAnswered
<1>3. (WritesOK /\ WritesInOrder)'
  BY DEF WritesOK, WritesInOrder, HeartbeatAnswered
<1>4. QED
  BY <1>1, <1>2, <1>3

LEMMA HeartbeatFailsKeeps ==
  ASSUME IInv, HeartbeatFails PROVE IInv'
<1> USE DEF IInv
<1>1. FlagsOK'
  BY DEF FlagsOK, HeartbeatFails, Beats, StopPoll, AttemptReconnect
<1>2. (CountsOK /\ LinkInv)'
  BY DeviceAssumption DEF CountsOK, LinkInv, OneReconnect, PolledWhileConnected, Counting,
     NoShots, GivesUp, shots, HeartbeatFails, Beats, StopPoll, AttemptReconnect
<1>3. (WritesOK /\ WritesInOrder)'
  BY DEF WritesOK, WritesInOrder, HeartbeatFails, Beats, StopPoll, AttemptReconnect
<1>4. QED
  BY <1>1, <1>2, <1>3

LEMMA ReconnectKeeps ==
  ASSUME IInv, NEW ok \in BOOLEAN, Reconnect(ok) PROVE IInv'
<1> USE DEF IInv
<1>1. FlagsOK'
  BY DEF FlagsOK, Reconnect, ConnectToHost, ReconnectingAfter, AttemptsAfter
<1>2. (CountsOK /\ LinkInv)'
  BY DeviceAssumption DEF CountsOK, LinkInv, OneReconnect, PolledWhileConnected, Counting,
     NoShots, GivesUp, shots, Reconnect, ConnectToHost, ReconnectingAfter, AttemptsAfter
<1>3. (WritesOK /\ WritesInOrder)'
  BY DEF WritesOK, WritesInOrder, Reconnect, ConnectToHost, ReconnectingAfter, AttemptsAfter
<1>4. QED
  BY <1>1, <1>2, <1>3

LEMMA RetryKeeps ==
  ASSUME IInv, Retry PROVE IInv'
<1> USE DEF IInv
<1>1. FlagsOK'
  BY DEF FlagsOK, Retry, AttemptReconnect
<1>2. (CountsOK /\ LinkInv)'
  BY DeviceAssumption DEF CountsOK, LinkInv, OneReconnect, PolledWhileConnected, Counting,
     NoShots, GivesUp, shots, Retry, AttemptReconnect
<1>3. (WritesOK /\ WritesInOrder)'
  BY DEF WritesOK, WritesInOrder, Retry, AttemptReconnect
<1>4. QED
  BY <1>1, <1>2, <1>3

-----------------------------------------------------------------------------
(* The writes.  None of their steps touches the connection.                 *)

LEMMA LinkUnchanged ==
  ASSUME IInv, UNCHANGED <<link, fresh>> PROVE LinkInv'
  BY DEF IInv, LinkInv, OneReconnect, PolledWhileConnected, Counting, link, shots, NoShots,
     GivesUp

LEMMA AppendMoves ==
  ASSUME NEW s \in Seq(Nat), NEW q \in Seq(Nat), NEW p \in Seq(Nat), p # << >>
  PROVE  s \o Append(q, Head(p)) \o Tail(p) = s \o q \o p
<1> DEFINE moved == s \o Append(q, Head(p)) \o Tail(p)
           whole == s \o q \o p
<1>1. Len(moved) = Len(whole)
  OBVIOUS
<1>2. moved \in Seq(Nat) /\ whole \in Seq(Nat)
  OBVIOUS
<1>3. ASSUME NEW i \in 1 .. Len(whole) PROVE moved[i] = whole[i]
  BY <1>1, SMTT(60)
<1>4. QED
  <2> HIDE DEF moved, whole
  <2>1. moved = whole
    BY <1>1, <1>2, <1>3, SeqEqual
  <2>2. QED BY <2>1 DEF moved, whole

LEMMA HandleWriteKeeps ==
  ASSUME IInv, HandleWrite PROVE IInv'
<1> DEFINE queue == Append(writeQueue, Head(posted))
<1>1. /\ posted \in Seq(Nat) /\ writeQueue \in Seq(Nat) /\ offered \in Seq(Nat)
      /\ posted # << >>
  BY DEF IInv, WritesOK, HandleWrite
<1>2. Tail(posted) \in Seq(Nat) /\ queue \in Seq(Nat) /\ offered \o queue \in Seq(Nat)
  BY <1>1, HeadTailProperties
<1>3. WritesOK'
  <2>1. << >> \in Seq(Nat)
    OBVIOUS
  <2>2. CASE connected /\ opened
    BY <1>2, <2>1, <2>2 DEF WritesOK, HandleWrite, Enqueued
  <2>3. CASE ~(connected /\ opened)
    BY <1>1, <1>2, <2>3 DEF WritesOK, HandleWrite, Enqueued
  <2>4. QED BY <2>2, <2>3
<1>4. offered \o queue \o Tail(posted) = offered \o writeQueue \o posted
  BY <1>1, AppendMoves
<1>5. (offered \o queue) \o << >> = offered \o queue
  BY <1>1, <1>2
<1>6. WritesInOrder'
  BY <1>4, <1>5 DEF IInv, WritesInOrder, HandleWrite, Enqueued
<1>7. (FlagsOK /\ CountsOK)'
  BY DEF IInv, FlagsOK, CountsOK, HandleWrite, link, shots
<1>8. QED
  BY <1>3, <1>6, <1>7, LinkUnchanged DEF HandleWrite, IInv

LEMMA WriteRegisterKeeps ==
  ASSUME IInv, WriteRegister PROVE IInv'
<1>1. /\ posted \in Seq(Nat) /\ writeQueue \in Seq(Nat) /\ offered \in Seq(Nat)
      /\ issued \in Nat
  BY DEF IInv, WritesOK, CountsOK
<1>2. WritesOK'
  BY <1>1 DEF WritesOK, WriteRegister
<1>3. offered \o writeQueue \o Append(posted, issued + 1)
        = Append(offered \o writeQueue \o posted, issued + 1)
  BY <1>1
<1>4. Append([i \in 1 .. issued |-> i], issued + 1) = [i \in 1 .. issued + 1 |-> i]
  BY <1>1
<1>5. WritesInOrder'
  BY <1>3, <1>4 DEF IInv, WritesInOrder, WriteRegister
<1>6. FlagsOK'
  BY DEF IInv, FlagsOK, WriteRegister, link
<1>7. CountsOK'
  BY DEF IInv, CountsOK, WriteRegister, link, shots
<1>8. QED
  BY <1>2, <1>5, <1>6, <1>7, LinkUnchanged DEF WriteRegister, IInv

LEMMA StopAllKeeps ==
  ASSUME IInv, StopAll PROVE IInv'
<1>1. (FlagsOK /\ WritesOK /\ WritesInOrder)'
  BY DEF IInv, FlagsOK, WritesOK, WritesInOrder, StopAll, link
<1>2. CountsOK'
  BY DEF IInv, CountsOK, StopAll, link, shots
<1>3. QED
  BY <1>1, <1>2, LinkUnchanged DEF StopAll, IInv

LEMMA NextIInv == IInv /\ [DeviceNext]_deviceVars => IInv'
<1>1. ASSUME IInv, UNCHANGED deviceVars PROVE IInv'
  <2>1. (FlagsOK /\ CountsOK /\ WritesOK /\ WritesInOrder)'
    BY <1>1 DEF IInv, FlagsOK, CountsOK, WritesOK, WritesInOrder, deviceVars, link, shots
  <2>2. QED BY <1>1, <2>1, LinkUnchanged DEF IInv, deviceVars
<1>2. QED
  BY <1>1, ConnectKeeps, HeartbeatAnsweredKeeps, HeartbeatFailsKeeps, ReconnectKeeps,
     RetryKeeps, HandleWriteKeeps, WriteRegisterKeeps, StopAllKeeps
     DEF DeviceNext, HandlePosted, Reconnecting

LEMMA Invariance == DeviceSpec => []IInv
  BY InitIInv, NextIInv, PTL DEF DeviceSpec

-----------------------------------------------------------------------------
(* Never two reconnects at a time, though the heartbeat goes on while one   *)
(* is under way and the flag is reset before the retry (ModbusComm.cpp:     *)
(* 254-280).                                                                *)
THEOREM NeverTwoReconnects == DeviceSpec => []OneReconnect
<1>1. IInv => OneReconnect
  BY DEF IInv, LinkInv
<1>2. QED
  BY Invariance, <1>1, PTL

(* A device that was connected is polled exactly while it is connected.     *)
THEOREM PollingFollowsConnection == DeviceSpec => []PolledWhileConnected
<1>1. IInv => PolledWhileConnected
  BY DEF IInv, LinkInv
<1>2. QED
  BY Invariance, <1>1, PTL

(* The device is given up after exactly MaxAttempts failures in a row.      *)
THEOREM GivenUpInTime == DeviceSpec => []GivesUpAfterMaxFailures
<1>1. IInv => GivesUpAfterMaxFailures
  BY DEF IInv, LinkInv, Counting, GivesUpAfterMaxFailures
<1>2. QED
  BY Invariance, <1>1, PTL

(* Until it is put to the device no write is dropped or overtaken, and none *)
(* is put to it twice; whether the device takes it is another matter.       *)
THEOREM WritesKeepOrder == DeviceSpec => []WritesInOrder
<1>1. IInv => WritesInOrder
  BY DEF IInv, LinkInv
<1>2. QED
  BY Invariance, <1>1, PTL
=============================================================================
