------------------------------ MODULE RingBuffer ------------------------------
(***************************************************************************)
(* LockFreeRingBuffer.h: the queue of samples between the device threads   *)
(* (producers, one at a time under m_enqueueMutex) and the parse thread    *)
(* (the one consumer, without a lock).  A slot's sequence number says      *)
(* whose turn it is: pos - the producer of position pos may write it;      *)
(* pos + 1 - the consumer may read it.  Each action is one access to       *)
(* memory that the other side can see; the acquire and release orders make *)
(* a slot's data visible with its sequence number.  Positions are 64-bit   *)
(* and do not wrap in the life of a process.                               *)
(***************************************************************************)
EXTENDS Integers, Sequences

CONSTANTS
  Capacity,   \* a power of two, 8192 in the code
  Samples,    \* RawModbusData values
  NoSample    \* no data

ASSUME CapacityAssumption == Capacity \in Nat /\ Capacity >= 2
ASSUME SamplesAssumption == NoSample \notin Samples

VARIABLES
  sequence,   \* m_slots[i].sequence
  data,       \* m_slots[i].data
  enqueuePos, \* m_enqueuePos
  dequeuePos, \* m_dequeuePos
  producer,   \* the enqueue that holds m_enqueueMutex: next step, its sample
  consumer,   \* the dequeue in progress: next step, the sample it moved out
  accepted,   \* what the last enqueue returned
  taken       \* what the last dequeue returned

vars == <<sequence, data, enqueuePos, dequeuePos, producer, consumer, accepted, taken>>

Slots == 0 .. Capacity - 1

(* pos & m_mask *)
Slot(pos) == pos % Capacity

(* The sequence number that hands the slot to the consumer, and the one     *)
(* that hands it to the producer of the next round.                         *)
(* Faulty variant: the slot is not handed over.                             *)
FilledForNobody(pos) == pos
Filled(pos) == pos + 1
(* Faulty variant: the mask forgotten, the slot is free at once.            *)
FreedForThisRound(pos) == pos + 1 + 1
Freed(pos) == pos + Capacity

Idle == [at |-> "idle", sample |-> NoSample]

Init ==
  /\ sequence = [i \in Slots |-> i]
  /\ data = [i \in Slots |-> NoSample]
  /\ enqueuePos = 0 /\ dequeuePos = 0
  /\ producer = Idle /\ consumer = Idle
  /\ accepted = TRUE /\ taken = NoSample

-----------------------------------------------------------------------------
(* enqueue                                                                  *)

LockEnqueue(s) ==
  /\ producer.at = "idle"
  /\ producer' = [at |-> "check", sample |-> s]
  /\ UNCHANGED <<sequence, data, enqueuePos, dequeuePos, consumer, accepted, taken>>

CheckFree ==
  /\ producer.at = "check"
  /\ \/ /\ sequence[Slot(enqueuePos)] = enqueuePos
        /\ producer' = [producer EXCEPT !.at = "write"]
        /\ UNCHANGED accepted
     \/ /\ sequence[Slot(enqueuePos)] # enqueuePos
        /\ producer' = Idle
        /\ accepted' = FALSE
  /\ UNCHANGED <<sequence, data, enqueuePos, dequeuePos, consumer, taken>>

WriteData ==
  /\ producer.at = "write"
  /\ data' = [data EXCEPT ![Slot(enqueuePos)] = producer.sample]
  /\ producer' = [producer EXCEPT !.at = "publish"]
  /\ UNCHANGED <<sequence, enqueuePos, dequeuePos, consumer, accepted, taken>>

Publish ==
  /\ producer.at = "publish"
  /\ sequence' = [sequence EXCEPT ![Slot(enqueuePos)] = Filled(enqueuePos)]
  /\ producer' = [producer EXCEPT !.at = "advance"]
  /\ accepted' = TRUE
  /\ UNCHANGED <<data, enqueuePos, dequeuePos, consumer, taken>>

AdvanceEnqueue ==
  /\ producer.at = "advance"
  /\ enqueuePos' = enqueuePos + 1
  /\ producer' = Idle
  /\ UNCHANGED <<sequence, data, dequeuePos, consumer, accepted, taken>>

-----------------------------------------------------------------------------
(* dequeue, which dequeueBatch repeats until it fails.                      *)

CheckFilled ==
  /\ consumer.at = "idle"
  /\ \/ /\ sequence[Slot(dequeuePos)] > dequeuePos
        /\ consumer' = [consumer EXCEPT !.at = "read"]
        /\ UNCHANGED taken
     \/ /\ sequence[Slot(dequeuePos)] <= dequeuePos
        /\ taken' = NoSample
        /\ UNCHANGED consumer
  /\ UNCHANGED <<sequence, data, enqueuePos, dequeuePos, producer, accepted>>

ReadData ==
  /\ consumer.at = "read"
  /\ consumer' = [at |-> "free", sample |-> data[Slot(dequeuePos)]]
  /\ UNCHANGED <<sequence, data, enqueuePos, dequeuePos, producer, accepted, taken>>

Free ==
  /\ consumer.at = "free"
  /\ sequence' = [sequence EXCEPT ![Slot(dequeuePos)] = Freed(dequeuePos)]
  /\ taken' = consumer.sample
  /\ consumer' = [at |-> "advance", sample |-> NoSample]
  /\ UNCHANGED <<data, enqueuePos, dequeuePos, producer, accepted>>

AdvanceDequeue ==
  /\ consumer.at = "advance"
  /\ dequeuePos' = dequeuePos + 1
  /\ consumer' = Idle
  /\ UNCHANGED <<sequence, data, enqueuePos, producer, accepted, taken>>

-----------------------------------------------------------------------------
Enqueue == (\E s \in Samples : LockEnqueue(s))
           \/ CheckFree \/ WriteData \/ Publish \/ AdvanceEnqueue
Dequeue == CheckFilled \/ ReadData \/ Free \/ AdvanceDequeue

Next == Enqueue \/ Dequeue

Spec == Init /\ [][Next]_vars

(* The parse thread polls for as long as it runs.                           *)
FairSpec == Spec /\ WF_vars(Dequeue)

-----------------------------------------------------------------------------
(* size() loads the two positions one after the other and takes a negative  *)
(* difference for 0.                                                        *)
Size == IF enqueuePos >= dequeuePos THEN enqueuePos - dequeuePos ELSE 0

(* The queue the buffer stands for: the positions published and not freed.  *)
First == IF consumer.at = "advance" THEN dequeuePos + 1 ELSE dequeuePos
Beyond == IF producer.at = "advance" THEN enqueuePos + 1 ELSE enqueuePos
Contents == [i \in 1 .. (Beyond - First) |-> data[Slot(First + i - 1)]]

Queue == INSTANCE BoundedQueue WITH queue <- Contents

-----------------------------------------------------------------------------
(* Properties.                                                              *)

TypeOK ==
  /\ sequence \in [Slots -> Nat]
  /\ data \in [Slots -> Samples \cup {NoSample}]
  /\ enqueuePos \in Nat /\ dequeuePos \in Nat
  /\ producer \in [at : {"idle", "check", "write", "publish", "advance"},
                   sample : Samples \cup {NoSample}]
  /\ consumer \in [at : {"idle", "read", "free", "advance"},
                   sample : Samples \cup {NoSample}]
  /\ accepted \in BOOLEAN
  /\ taken \in Samples \cup {NoSample}

(* The positions from First on for one round use each slot once: those      *)
(* before Beyond are filled and the others free.                            *)
SlotsInTurn ==
  /\ First <= Beyond /\ Beyond <= First + Capacity
  /\ \A pos \in First .. First + Capacity - 1 :
       sequence[Slot(pos)] = IF pos < Beyond THEN Filled(pos) ELSE pos

(* Between its check and its publication the producer owns the slot beyond  *)
(* the contents; between its check and its release the consumer owns the    *)
(* first one, and has taken its sample from there.                          *)
SidesOwnTheirSlot ==
  /\ producer.at \in {"write", "publish"} => Beyond < First + Capacity
  /\ producer.at \in {"check", "write", "publish"} => producer.sample \in Samples
  /\ producer.at = "publish" => data[Slot(enqueuePos)] = producer.sample
  /\ consumer.at \in {"read", "free"} => First < Beyond
  /\ consumer.at = "free" => consumer.sample = data[Slot(dequeuePos)]

IInv == TypeOK /\ SlotsInTurn /\ SidesOwnTheirSlot

(* The buffer is a bounded queue: every accepted sample is taken once, in   *)
(* order and with its own data, enqueue refuses only when Capacity samples  *)
(* wait and dequeue fails only when none does (LockFreeRingBuffer.h:24-66), *)
(* although the positions are moved after the slots change hands.           *)
ImplementsQueue == Queue!Spec

(* size() is never off by more than one (LockFreeRingBuffer.h:84-88).       *)
SizeOffByOne ==
  /\ Size <= Len(Contents) + 1
  /\ Len(Contents) <= Size + 1
=============================================================================
