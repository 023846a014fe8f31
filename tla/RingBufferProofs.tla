--------------------------- MODULE RingBufferProofs ---------------------------
(***************************************************************************)
(* The ring buffer is a bounded queue, for every capacity and every set of *)
(* samples.  The slots from First to Beyond are filled and the rest of the *)
(* round is free (SlotsInTurn); the arithmetic behind it is that positions *)
(* less than a round apart never share a slot.                             *)
(***************************************************************************)
EXTENDS RingBuffer, SequenceTheorems, TLAPS

(* Two positions less than a round apart use different slots; a round later *)
(* the slot is the same.                                                    *)
LEMMA SlotsDiffer ==
  ASSUME NEW p \in Nat, NEW q \in Nat, p < q, q < p + Capacity
  PROVE  Slot(p) # Slot(q)
<1> DEFINE dp == p \div Capacity  dq == q \div Capacity
<1>1. /\ dp \in Int /\ dq \in Int
      /\ p = Capacity * dp + Slot(p)
      /\ q = Capacity * dq + Slot(q)
  BY CapacityAssumption DEF Slot
<1>2. ASSUME Slot(p) = Slot(q) PROVE FALSE
  <2>1. q - p = Capacity * (dq - dp)
    BY <1>1, <1>2, CapacityAssumption DEF Slot
  <2>2. dq - dp <= 0 \/ dq - dp >= 1
    BY <1>1
  <2>3. QED
    BY <2>1, <2>2, <1>1, CapacityAssumption
<1>3. QED
  BY <1>2

LEMMA SlotRepeats ==
  ASSUME NEW p \in Nat PROVE Slot(p + Capacity) = Slot(p)
<1> DEFINE q == p + Capacity  dp == p \div Capacity  dq == q \div Capacity
<1>1. /\ dp \in Int /\ dq \in Int
      /\ p = Capacity * dp + Slot(p)
      /\ q = Capacity * dq + Slot(q)
      /\ Slot(p) \in 0 .. Capacity - 1 /\ Slot(q) \in 0 .. Capacity - 1
  BY CapacityAssumption DEF Slot
<1>2. Slot(p) - Slot(q) = Capacity * (dq - dp - 1)
  BY <1>1, CapacityAssumption DEF Slot
<1>3. dq - dp - 1 <= -1 \/ dq - dp - 1 = 0 \/ dq - dp - 1 >= 1
  BY <1>1
<1>4. CASE dq - dp - 1 = 0
  BY <1>1, <1>2, <1>4, CapacityAssumption
<1>5. CASE dq - dp - 1 >= 1
  <2>1. Capacity * (dq - dp - 1) >= Capacity
    BY <1>1, <1>5, CapacityAssumption
  <2>2. QED BY <1>1, <1>2, <2>1, CapacityAssumption
<1>6. CASE dq - dp - 1 <= -1
  <2>1. Capacity * (dq - dp - 1) <= - Capacity
    BY <1>1, <1>6, CapacityAssumption
  <2>2. QED BY <1>1, <1>2, <2>1, CapacityAssumption
<1>7. QED
  BY <1>3, <1>4, <1>5, <1>6

LEMMA SlotType ==
  ASSUME NEW p \in Nat PROVE Slot(p) \in Slots
  BY CapacityAssumption DEF Slot, Slots

-----------------------------------------------------------------------------
(* The inductive invariant.                                                 *)

(* The two ends of the contents are positions.                              *)
LEMMA EndsType ==
  ASSUME TypeOK PROVE First \in Nat /\ Beyond \in Nat
  BY DEF TypeOK, First, Beyond

LEMMA InitIInv == Init => IInv
<1> SUFFICES ASSUME Init PROVE IInv
  OBVIOUS
<1>1. TypeOK
  BY CapacityAssumption DEF Init, TypeOK, Idle, Slots
<1>2. First = 0 /\ Beyond = 0
  BY DEF Init, First, Beyond, Idle
<1>3. \A pos \in 0 .. Capacity - 1 : Slot(pos) = pos
  BY CapacityAssumption DEF Slot
<1>4. SlotsInTurn
  <2>1. ASSUME NEW pos \in 0 .. Capacity - 1
        PROVE  sequence[Slot(pos)] = pos /\ ~ (pos < 0)
    BY <1>3, <2>1, CapacityAssumption DEF Init, Slots
  <2>2. QED BY <1>2, <2>1, CapacityAssumption DEF SlotsInTurn
<1>5. SidesOwnTheirSlot
  BY DEF SidesOwnTheirSlot, Init, Idle
<1>6. QED
  BY <1>1, <1>4, <1>5 DEF IInv

(* The producer takes the slot beyond the contents only when it is free:    *)
(* a full buffer has the mark of the previous round there.                  *)
LEMMA FreeMeansRoom ==
  ASSUME IInv, producer.at = "check"
  PROVE  sequence[Slot(enqueuePos)] = enqueuePos <=> Beyond < First + Capacity
<1>1. First \in Nat /\ Beyond \in Nat /\ enqueuePos = Beyond
  BY EndsType DEF IInv, Beyond
<1>2. First <= Beyond /\ Beyond <= First + Capacity
  BY DEF IInv, SlotsInTurn
<1>3. CASE Beyond < First + Capacity
  <2>1. Beyond \in First .. First + Capacity - 1
    BY <1>1, <1>2, <1>3, CapacityAssumption
  <2>2. sequence[Slot(Beyond)] = Beyond
    BY <1>1, <2>1 DEF IInv, SlotsInTurn
  <2>3. QED BY <1>1, <1>3, <2>2
<1>4. CASE Beyond = First + Capacity
  <2>1. First \in First .. First + Capacity - 1 /\ First < Beyond
    BY <1>1, <1>4, CapacityAssumption
  <2>2. sequence[Slot(First)] = First + 1
    BY <1>1, <2>1 DEF IInv, SlotsInTurn, Filled
  <2>3. Slot(Beyond) = Slot(First)
    BY <1>1, <1>4, SlotRepeats
  <2>4. First + 1 # First + Capacity
    BY <1>1, CapacityAssumption
  <2>5. QED BY <1>1, <1>4, <2>2, <2>3, <2>4, CapacityAssumption
<1>5. QED
  BY <1>1, <1>2, <1>3, <1>4, CapacityAssumption

(* The consumer finds its slot filled exactly when the contents are not     *)
(* empty.                                                                   *)
LEMMA FilledMeansContents ==
  ASSUME IInv, consumer.at = "idle"
  PROVE  /\ sequence[Slot(dequeuePos)] > dequeuePos <=> First < Beyond
         /\ sequence[Slot(dequeuePos)] <= dequeuePos <=> First = Beyond
<1>1. First \in Nat /\ Beyond \in Nat /\ dequeuePos = First
  BY EndsType DEF IInv, First
<1>2. First <= Beyond /\ First \in First .. First + Capacity - 1
  BY <1>1, CapacityAssumption DEF IInv, SlotsInTurn
<1>3. sequence[Slot(First)] = IF First < Beyond THEN First + 1 ELSE First
  BY <1>2 DEF IInv, SlotsInTurn, Filled
<1>4. QED
  BY <1>1, <1>2, <1>3

-----------------------------------------------------------------------------
(* One lemma per action that changes a slot or an end of the contents.      *)

LEMMA WriteKeeps ==
  ASSUME IInv, WriteData PROVE IInv'
<1>1. TypeOK'
  BY SlotType DEF IInv, TypeOK, WriteData, SidesOwnTheirSlot
<1>2. First' = First /\ Beyond' = Beyond
  BY DEF IInv, TypeOK, WriteData, First, Beyond
<1>3. SlotsInTurn'
  BY <1>2 DEF IInv, SlotsInTurn, WriteData
<1>4. First \in Nat /\ Beyond \in Nat /\ Slot(enqueuePos) \in Slots
  BY EndsType, SlotType DEF IInv, TypeOK
<1>5. ASSUME consumer'.at = "free"
      PROVE  consumer'.sample = data'[Slot(dequeuePos')]
  <2>1. dequeuePos = First /\ enqueuePos = Beyond /\ First < Beyond
        /\ Beyond < First + Capacity
    BY <1>5 DEF IInv, SidesOwnTheirSlot, WriteData, First, Beyond
  <2>2. Slot(dequeuePos) # Slot(enqueuePos)
    BY <1>4, <2>1, SlotsDiffer
  <2>3. data'[Slot(dequeuePos)] = data[Slot(dequeuePos)]
    BY <1>4, <2>1, <2>2, SlotType DEF IInv, TypeOK, WriteData
  <2>4. QED BY <1>5, <2>3 DEF IInv, SidesOwnTheirSlot, WriteData
<1>6. SidesOwnTheirSlot'
  BY <1>2, <1>4, <1>5 DEF IInv, SidesOwnTheirSlot, WriteData, TypeOK
<1>7. QED
  BY <1>1, <1>3, <1>6 DEF IInv

LEMMA PublishKeeps ==
  ASSUME IInv, Publish PROVE IInv' /\ First' = First /\ Beyond' = Beyond + 1
<1>1. First \in Nat /\ Beyond \in Nat /\ Beyond = enqueuePos
      /\ First <= Beyond /\ Beyond < First + Capacity
  BY EndsType DEF IInv, Publish, Beyond, SlotsInTurn, SidesOwnTheirSlot
<1>2. First' = First /\ Beyond' = Beyond + 1
  BY <1>1 DEF IInv, TypeOK, Publish, First, Beyond
<1>3. TypeOK'
  BY <1>1, SlotType DEF IInv, TypeOK, Publish, Filled
<1>4. ASSUME NEW pos \in First .. First + Capacity - 1
      PROVE  sequence'[Slot(pos)] = IF pos < Beyond + 1 THEN Filled(pos) ELSE pos
  <2>1. pos \in Nat /\ Slot(pos) \in Slots
    BY <1>1, SlotType, CapacityAssumption
  <2>2. CASE pos = Beyond
    BY <1>1, <2>1, <2>2 DEF IInv, TypeOK, Publish
  <2>3. CASE pos < Beyond
    <3>1. Slot(pos) # Slot(Beyond)
      BY <1>1, <2>1, <2>3, SlotsDiffer, CapacityAssumption
    <3>2. sequence'[Slot(pos)] = sequence[Slot(pos)]
      BY <1>1, <2>1, <3>1 DEF IInv, TypeOK, Publish
    <3>3. QED BY <1>1, <2>1, <2>3, <3>2 DEF IInv, SlotsInTurn
  <2>4. CASE pos > Beyond
    <3>1. Slot(pos) # Slot(Beyond)
      BY <1>1, <2>1, <2>4, SlotsDiffer, CapacityAssumption
    <3>2. sequence'[Slot(pos)] = sequence[Slot(pos)]
      BY <1>1, <2>1, <3>1 DEF IInv, TypeOK, Publish
    <3>3. QED BY <1>1, <2>1, <2>4, <3>2 DEF IInv, SlotsInTurn
  <2>5. QED BY <1>1, <2>1, <2>2, <2>3, <2>4
<1>5. SlotsInTurn'
  BY <1>1, <1>2, <1>4, CapacityAssumption DEF SlotsInTurn, Filled, Slot
<1>6. SidesOwnTheirSlot'
  BY <1>1, <1>2 DEF IInv, SidesOwnTheirSlot, Publish, TypeOK
<1>7. QED
  BY <1>2, <1>3, <1>5, <1>6 DEF IInv

LEMMA FreeKeeps ==
  ASSUME IInv, Free PROVE IInv' /\ First' = First + 1 /\ Beyond' = Beyond
<1>1. First \in Nat /\ Beyond \in Nat /\ First = dequeuePos
      /\ First < Beyond /\ Beyond <= First + Capacity
  BY EndsType DEF IInv, Free, First, SlotsInTurn, SidesOwnTheirSlot
<1>2. First' = First + 1 /\ Beyond' = Beyond
  BY <1>1 DEF IInv, TypeOK, Free, First, Beyond
<1>3. TypeOK'
  BY <1>1, SlotType, CapacityAssumption DEF IInv, TypeOK, Free, Freed
<1>4. ASSUME NEW pos \in First + 1 .. First + Capacity
      PROVE  sequence'[Slot(pos)] = IF pos < Beyond THEN Filled(pos) ELSE pos
  <2>1. pos \in Nat /\ Slot(pos) \in Slots /\ Slot(First) \in Slots
    BY <1>1, SlotType, CapacityAssumption
  <2>2. CASE pos = First + Capacity
    <3>1. Slot(pos) = Slot(First)
      BY <1>1, <2>2, SlotRepeats
    <3>2. sequence'[Slot(First)] = First + Capacity
      BY <1>1, <2>1 DEF IInv, TypeOK, Free, Freed
    <3>3. QED BY <1>1, <2>1, <2>2, <3>1, <3>2, CapacityAssumption
  <2>3. CASE pos < First + Capacity
    <3>1. Slot(First) # Slot(pos)
      BY <1>1, <2>1, <2>3, SlotsDiffer, CapacityAssumption
    <3>2. sequence'[Slot(pos)] = sequence[Slot(pos)]
      BY <1>1, <2>1, <3>1 DEF IInv, TypeOK, Free
    <3>3. pos \in First .. First + Capacity - 1
      BY <1>1, <2>1, <2>3, CapacityAssumption
    <3>4. QED BY <3>2, <3>3 DEF IInv, SlotsInTurn
  <2>4. QED BY <1>1, <2>1, <2>2, <2>3, CapacityAssumption
<1>5. SlotsInTurn'
  BY <1>1, <1>2, <1>4, CapacityAssumption DEF SlotsInTurn, Filled, Slot
<1>6. SidesOwnTheirSlot'
  BY <1>1, <1>2, CapacityAssumption DEF IInv, SidesOwnTheirSlot, Free, TypeOK
<1>7. QED
  BY <1>2, <1>3, <1>5, <1>6 DEF IInv

(* Every other action leaves the slots and the ends of the contents alone.  *)
Quiet ==
  \/ \E s \in Samples : LockEnqueue(s)
  \/ CheckFree \/ AdvanceEnqueue \/ CheckFilled \/ ReadData \/ AdvanceDequeue

LEMMA QuietKeeps ==
  ASSUME IInv, Quiet
  PROVE  IInv' /\ First' = First /\ Beyond' = Beyond /\ data' = data
<1>1. First \in Nat /\ Beyond \in Nat
  BY EndsType DEF IInv
<1>2. First' = First /\ Beyond' = Beyond /\ sequence' = sequence /\ data' = data
  <2>1. CASE (\E s \in Samples : LockEnqueue(s)) \/ CheckFree
    BY <2>1 DEF IInv, TypeOK, First, Beyond, LockEnqueue, CheckFree, Idle
  <2>2. CASE AdvanceEnqueue
    BY <2>2 DEF IInv, TypeOK, First, Beyond, AdvanceEnqueue, Idle
  <2>3. CASE CheckFilled \/ ReadData
    BY <2>3 DEF IInv, TypeOK, First, Beyond, CheckFilled, ReadData
  <2>4. CASE AdvanceDequeue
    BY <2>4 DEF IInv, TypeOK, First, Beyond, AdvanceDequeue, Idle
  <2>5. QED
    BY <2>1, <2>2, <2>3, <2>4 DEF Quiet
<1>3. SlotsInTurn'
  BY <1>2 DEF IInv, SlotsInTurn
<1>4. TypeOK'
  <2>1. CASE \E s \in Samples : LockEnqueue(s)
    BY <2>1 DEF IInv, TypeOK, LockEnqueue
  <2>2. CASE AdvanceEnqueue \/ AdvanceDequeue
    BY <2>2 DEF IInv, TypeOK, AdvanceEnqueue, AdvanceDequeue, Idle
  <2>6. CASE CheckFree
    <3>1. accepted' \in BOOLEAN
      BY <2>6, Zenon DEF IInv, TypeOK, CheckFree
    <3>2. producer' = [producer EXCEPT !.at = "write"] \/ producer' = Idle
      BY <2>6, Zenon DEF CheckFree
    <3>3. producer' \in [at : {"idle", "check", "write", "publish", "advance"},
                         sample : Samples \cup {NoSample}]
      BY <3>2 DEF IInv, TypeOK, Idle
    <3>4. UNCHANGED <<sequence, data, enqueuePos, dequeuePos, consumer, taken>>
      BY <2>6 DEF CheckFree
    <3>5. QED
      BY <3>1, <3>3, <3>4 DEF IInv, TypeOK
  <2>3. CASE CheckFilled
    BY <2>3 DEF IInv, TypeOK, CheckFilled
  <2>4. CASE ReadData
    BY <2>4, SlotType DEF IInv, TypeOK, ReadData
  <2>5. QED
    BY <2>1, <2>2, <2>3, <2>4, <2>6 DEF Quiet
<1>5. SidesOwnTheirSlot'
  <2>1. CASE \E s \in Samples : LockEnqueue(s)
    BY <1>2, <2>1 DEF IInv, SidesOwnTheirSlot, LockEnqueue
  <2>2. CASE CheckFree
    <3>1. producer.at = "check"
      BY <2>2 DEF CheckFree
    <3>2. producer'.at = "write" => Beyond < First + Capacity
      BY <2>2, <3>1, FreeMeansRoom DEF CheckFree, Idle
    <3>3. QED
      BY <1>2, <2>2, <3>2 DEF IInv, TypeOK, SidesOwnTheirSlot, CheckFree, Idle
  <2>3. CASE AdvanceEnqueue
    BY <1>2, <2>3 DEF IInv, SidesOwnTheirSlot, AdvanceEnqueue, Idle
  <2>4. CASE CheckFilled
    <3>1. consumer.at = "idle"
      BY <2>4 DEF CheckFilled
    <3>2. consumer'.at = "read" => First < Beyond
      BY <2>4, <3>1, FilledMeansContents DEF CheckFilled
    <3>3. QED
      BY <1>2, <2>4, <3>1, <3>2 DEF IInv, TypeOK, SidesOwnTheirSlot, CheckFilled
  <2>5. CASE ReadData
    BY <1>2, <2>5 DEF IInv, SidesOwnTheirSlot, ReadData
  <2>6. CASE AdvanceDequeue
    BY <1>2, <2>6 DEF IInv, SidesOwnTheirSlot, AdvanceDequeue, Idle
  <2>7. QED
    BY <2>1, <2>2, <2>3, <2>4, <2>5, <2>6 DEF Quiet
<1>6. QED
  BY <1>2, <1>3, <1>4, <1>5 DEF IInv

LEMMA NextCases == Next <=> Quiet \/ WriteData \/ Publish \/ Free
  BY DEF Next, Enqueue, Dequeue, Quiet

LEMMA NextIInv == IInv /\ [Next]_vars => IInv'
<1>1. ASSUME IInv, UNCHANGED vars PROVE IInv'
  BY <1>1 DEF IInv, TypeOK, SlotsInTurn, SidesOwnTheirSlot, First, Beyond, vars
<1>2. QED
  BY <1>1, NextCases, QuietKeeps, WriteKeeps, PublishKeeps, FreeKeeps

LEMMA Invariance == Spec => []IInv
  BY InitIInv, NextIInv, PTL DEF Spec

-----------------------------------------------------------------------------
(* The buffer is a bounded queue.                                           *)

LEMMA ContentsLen ==
  ASSUME IInv
  PROVE  /\ Contents \in Seq(Samples \cup {NoSample})
         /\ Len(Contents) = Beyond - First
         /\ Len(Contents) <= Capacity
         /\ \A i \in 1 .. Beyond - First : Contents[i] = data[Slot(First + i - 1)]
<1>1. First \in Nat /\ Beyond \in Nat /\ Beyond - First \in Nat
      /\ Beyond - First <= Capacity
  BY EndsType, CapacityAssumption DEF IInv, SlotsInTurn
<1>2. \A i \in 1 .. Beyond - First :
        data[Slot(First + i - 1)] \in Samples \cup {NoSample}
  <2> TAKE i \in 1 .. Beyond - First
  <2>1. First + i - 1 \in Nat
    BY <1>1
  <2>2. QED BY <2>1, SlotType DEF IInv, TypeOK
<1>3. QED
  BY <1>1, <1>2 DEF Contents

LEMMA InitQueue == Init => Queue!Init
<1> SUFFICES ASSUME Init PROVE Queue!Init
  OBVIOUS
<1>1. Contents = << >>
  <2>1. Beyond - First = 0
    BY DEF Init, First, Beyond, Idle
  <2>2. QED BY <2>1 DEF Contents
<1>2. QED
  BY <1>1 DEF Init, Queue!Init

LEMMA PublishAccepts ==
  ASSUME IInv, Publish PROVE \E s \in Samples : Queue!Accept(s)
<1> DEFINE s == producer.sample  n == Beyond - First
<1>1. First \in Nat /\ Beyond \in Nat /\ n \in Nat /\ n < Capacity
      /\ s \in Samples /\ data[Slot(Beyond)] = s
  <2>1. Beyond = enqueuePos
    BY DEF Publish, Beyond
  <2>2. s \in Samples /\ data[Slot(Beyond)] = s /\ Beyond < First + Capacity
    BY <2>1 DEF IInv, Publish, SidesOwnTheirSlot
  <2>3. QED
    BY <2>2, EndsType, CapacityAssumption DEF IInv, SlotsInTurn
<1>2. First' = First /\ Beyond' = Beyond + 1 /\ data' = data
  BY PublishKeeps DEF Publish
<1>3. Contents' = [i \in 1 .. n + 1 |-> data[Slot(First + i - 1)]]
  BY <1>1, <1>2 DEF Contents, Slot
<1>4. Append(Contents, s) = [i \in 1 .. n + 1 |-> IF i = n + 1 THEN s ELSE Contents[i]]
  BY <1>1, ContentsLen
<1>5. \A i \in 1 .. n + 1 :
        data[Slot(First + i - 1)] = IF i = n + 1 THEN s ELSE Contents[i]
  BY <1>1, ContentsLen
<1>6. Contents' = Append(Contents, s)
  BY <1>3, <1>4, <1>5
<1>7. Queue!Accept(s)
  BY <1>1, <1>6, ContentsLen DEF Queue!Accept, Publish
<1>8. QED
  BY <1>1, <1>7

LEMMA FreeTakes ==
  ASSUME IInv, Free PROVE Queue!Take
<1> DEFINE n == Beyond - First
<1>1. First \in Nat /\ Beyond \in Nat /\ n \in Nat /\ n >= 1
      /\ First = dequeuePos /\ consumer.sample = data[Slot(First)]
  BY EndsType DEF IInv, Free, First, SlotsInTurn, SidesOwnTheirSlot
<1>2. First' = First + 1 /\ Beyond' = Beyond /\ data' = data
  BY FreeKeeps DEF Free
<1>3. Contents' = [i \in 1 .. n - 1 |-> data[Slot(First + 1 + i - 1)]]
  <2>1. Beyond - (First + 1) = n - 1
    BY <1>1
  <2>2. QED BY <1>2, <2>1 DEF Contents, Slot
<1>4. Len(Contents) = n /\ Contents # << >>
  BY <1>1, ContentsLen
<1>5. Head(Contents) = data[Slot(First)]
  BY <1>1, <1>4, ContentsLen
<1>6. Tail(Contents) = [i \in 1 .. n - 1 |-> Contents[i + 1]]
  <2>1. /\ Tail(Contents) \in Seq(Samples \cup {NoSample})
        /\ Len(Tail(Contents)) = n - 1
        /\ \A i \in 1 .. n - 1 : Tail(Contents)[i] = Contents[i + 1]
    BY <1>4, ContentsLen, HeadTailProperties
  <2> DEFINE rest == [i \in 1 .. n - 1 |-> Contents[i + 1]]
  <2>2. \A i \in 1 .. n - 1 : Contents[i + 1] \in Samples \cup {NoSample}
    BY <1>1, <1>4, ContentsLen
  <2>3. rest \in Seq(Samples \cup {NoSample}) /\ Len(rest) = n - 1
    <3>1. n - 1 \in Nat
      BY <1>1
    <3>2. QED BY <3>1, <2>2
  <2>4. \A i \in 1 .. n - 1 : Tail(Contents)[i] = rest[i]
    BY <2>1
  <2> HIDE DEF rest
  <2>5. Tail(Contents) = rest
    BY <2>1, <2>3, <2>4, SeqEqual
  <2>6. QED
    BY <2>5 DEF rest
<1>7. \A i \in 1 .. n - 1 : data[Slot(First + 1 + i - 1)] = Contents[i + 1]
  BY <1>1, ContentsLen
<1>8. Contents' = Tail(Contents)
  BY <1>3, <1>6, <1>7
<1>9. QED
  BY <1>1, <1>4, <1>5, <1>8 DEF Queue!Take, Free

LEMMA WriteUnseen ==
  ASSUME IInv, WriteData PROVE UNCHANGED Queue!vars
<1>1. First \in Nat /\ Beyond \in Nat /\ Beyond = enqueuePos
      /\ First <= Beyond /\ Beyond < First + Capacity
  BY EndsType DEF IInv, WriteData, Beyond, SlotsInTurn, SidesOwnTheirSlot
<1>2. First' = First /\ Beyond' = Beyond
  BY DEF IInv, TypeOK, WriteData, First, Beyond
<1>3. ASSUME NEW i \in 1 .. Beyond - First
      PROVE  data'[Slot(First + i - 1)] = data[Slot(First + i - 1)]
  <2>1. First + i - 1 \in Nat /\ First + i - 1 < Beyond
        /\ Beyond < First + i - 1 + Capacity
    BY <1>1, CapacityAssumption
  <2>2. Slot(First + i - 1) # Slot(Beyond)
    BY <1>1, <2>1, SlotsDiffer
  <2>3. QED BY <1>1, <2>1, <2>2, SlotType DEF IInv, TypeOK, WriteData
<1>4. Contents' = Contents
  BY <1>2, <1>3 DEF Contents, Slot
<1>5. QED
  BY <1>4 DEF WriteData, Queue!vars

LEMMA QuietStep ==
  ASSUME IInv, Quiet PROVE [Queue!Next]_(Queue!vars)
<1>1. Contents' = Contents
  BY QuietKeeps DEF Contents, Slot
<1>2. CASE CheckFree
  <2>1. CASE sequence[Slot(enqueuePos)] = enqueuePos
    BY <1>1, <1>2, <2>1 DEF CheckFree, Queue!vars
  <2>2. CASE sequence[Slot(enqueuePos)] # enqueuePos
    <3>1. ~ (Beyond < First + Capacity)
      BY <1>2, <2>2, FreeMeansRoom DEF CheckFree
    <3>2. Len(Contents) = Capacity
      BY <3>1, ContentsLen, EndsType, CapacityAssumption DEF IInv, SlotsInTurn
    <3>3. Queue!Refuse
      BY <1>1, <1>2, <2>2, <3>2 DEF CheckFree, Queue!Refuse
    <3>4. QED BY <3>3 DEF Queue!Next
  <2>3. QED BY <2>1, <2>2
<1>3. CASE CheckFilled
  <2>1. CASE sequence[Slot(dequeuePos)] > dequeuePos
    <3>1. ~ (sequence[Slot(dequeuePos)] <= dequeuePos)
      BY <2>1, SlotType DEF IInv, TypeOK
    <3>2. QED BY <1>1, <1>3, <3>1 DEF CheckFilled, Queue!vars
  <2>2. CASE sequence[Slot(dequeuePos)] <= dequeuePos
    <3>1. First = Beyond
      BY <1>3, <2>2, FilledMeansContents DEF CheckFilled
    <3>2. Contents = << >>
      BY <3>1, ContentsLen, EndsType DEF IInv
    <3>3. ~ (sequence[Slot(dequeuePos)] > dequeuePos)
      BY <2>2, SlotType DEF IInv, TypeOK
    <3>4. Queue!TakeNothing
      BY <1>1, <1>3, <3>2, <3>3 DEF CheckFilled, Queue!TakeNothing
    <3>5. QED BY <3>4 DEF Queue!Next
  <2>3. QED BY <1>3, <2>1, <2>2 DEF CheckFilled
<1>4. CASE (\E s \in Samples : LockEnqueue(s)) \/ AdvanceEnqueue
  BY <1>1, <1>4 DEF LockEnqueue, AdvanceEnqueue, Queue!vars
<1>5. CASE ReadData \/ AdvanceDequeue
  BY <1>1, <1>5 DEF ReadData, AdvanceDequeue, Queue!vars
<1>6. QED
  BY <1>2, <1>3, <1>4, <1>5 DEF Quiet

(* LockFreeRingBuffer implements the bounded queue: first in, first out,    *)
(* nothing lost or taken twice, refusals and failures only when full and    *)
(* when empty, for every capacity from 2 on.                                *)
THEOREM RingBufferIsBoundedQueue == Spec => ImplementsQueue
<1>1. IInv /\ [Next]_vars => [Queue!Next]_(Queue!vars)
  <2>1. ASSUME UNCHANGED vars PROVE UNCHANGED Queue!vars
    BY <2>1 DEF vars, Queue!vars, Contents, First, Beyond, Slot
  <2>2. QED
    BY <2>1, NextCases, QuietStep, WriteUnseen, PublishAccepts, FreeTakes DEF Queue!Next
<1>2. QED
  BY InitQueue, Invariance, <1>1, PTL DEF Spec, ImplementsQueue, Queue!Spec

(* size() differs from the number of waiting samples by at most one.        *)
THEOREM SizeIsNearlyRight == Spec => []SizeOffByOne
<1>1. IInv => SizeOffByOne
  <2> SUFFICES ASSUME IInv PROVE SizeOffByOne
    OBVIOUS
  <2>1. Len(Contents) = Beyond - First /\ First <= Beyond
    BY ContentsLen DEF IInv, SlotsInTurn
  <2>2. QED
    BY <2>1 DEF IInv, TypeOK, First, Beyond, SizeOffByOne, Size
<1>2. QED
  BY Invariance, <1>1, PTL
=============================================================================
