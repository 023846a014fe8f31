------------------------- MODULE HistorySamplerProofs -------------------------
(***************************************************************************)
(* From the sampler into the database.                                     *)
(*                                                                         *)
(* Every round goes to the repository in order and at most once, for any   *)
(* tags, any size of the rings and any number of rounds, stops and         *)
(* restarts.  Inductive with it: only a thread at the insertion has a      *)
(* batch in hand, so that taking the cache overwrites none.                *)
(*                                                                         *)
(* The memory of a tag answers its latest records.  RingInv counts them    *)
(* through: the head is the number of records modulo the size of the ring, *)
(* and the record before the last i of them is i places behind it.         *)
(*                                                                         *)
(* A batch is a transaction, for any batches, any statements of the main   *)
(* thread in between and any losses of the connection.  Inductive with it: *)
(* what the session sees beyond the saved tables are the records of the    *)
(* batch that have been inserted, and a session that lost the transaction  *)
(* has lost the prepared statement with it.                                *)
(***************************************************************************)
EXTENDS HistorySampler, Persistence, SequenceTheorems, TLAPS

ArchiveTypeOK ==
  /\ cache \in Seq(Nat) /\ batch \in Seq(Nat) /\ handed \in Seq(Nat)
  /\ sampled \in Nat

BatchInHand == thread # "insert" => batch = << >>

ArchiveInv == ArchiveTypeOK /\ BatchInHand /\ ArchivedInOrder

(* The rounds counted so far, and one more.                                 *)
LEMMA OneMoreRound ==
  ASSUME NEW n \in Nat
  PROVE  /\ [i \in 1 .. n |-> i] \in Seq(Nat)
         /\ Append([i \in 1 .. n |-> i], n + 1) = [i \in 1 .. n + 1 |-> i]
OBVIOUS

(* The end of a chain of three.                                             *)
LEMMA AppendAtTheEnd ==
  ASSUME NEW a \in Seq(Nat), NEW b \in Seq(Nat), NEW c \in Seq(Nat), NEW e \in Nat
  PROVE  a \o b \o Append(c, e) = Append(a \o b \o c, e)
<1>1. a \o b \in Seq(Nat) /\ a \o b \o c \in Seq(Nat) /\ <<e>> \in Seq(Nat)
  OBVIOUS
<1>2. Append(c, e) = c \o <<e>> /\ Append(a \o b \o c, e) = (a \o b \o c) \o <<e>>
  BY <1>1, AppendIsConcat
<1>3. (a \o b) \o (c \o <<e>>) = ((a \o b) \o c) \o <<e>>
  BY <1>1, ConcatAssociative
<1> QED BY <1>2, <1>3

LEMMA SamplingKeepsOrder ==
  ASSUME ArchiveInv, NEW some \in SUBSET SampledTags, Sample(some)
  PROVE  ArchiveInv'
<1> USE DEF ArchiveInv, ArchiveTypeOK, BatchInHand, ArchivedInOrder, Sample, rounds
<1>1. CASE some = {} /\ UNCHANGED <<firstRecord, cache, recent, rounds, waiting>>
  BY <1>1
<1>2. CASE some # {}
  <2>1. /\ sampled' = sampled + 1 /\ cache' = Append(cache, sampled + 1)
        /\ UNCHANGED <<batch, handed>> /\ thread' = "age" /\ thread = "sample"
    BY <1>2
  <2>2. sampled \in Nat
    OBVIOUS
  <2>3. ArchivedInOrder'
    <3>1. handed \o batch \o Append(cache, sampled + 1)
            = Append(handed \o batch \o cache, sampled + 1)
      <4> HIDE DEF ArchiveInv, ArchiveTypeOK, BatchInHand, ArchivedInOrder, Sample
      <4>1. /\ handed \in Seq(Nat) /\ batch \in Seq(Nat) /\ cache \in Seq(Nat)
            /\ sampled + 1 \in Nat
        BY <2>2 DEF ArchiveInv, ArchiveTypeOK
      <4> QED BY <4>1, AppendAtTheEnd
    <3>2. @ = Append([i \in 1 .. sampled |-> i], sampled + 1)
      OBVIOUS
    <3>3. @ = [i \in 1 .. sampled' |-> i]
      BY <2>1, <2>2, OneMoreRound
    <3> QED BY <2>1, <3>1, <3>2, <3>3
  <2>4. ArchiveTypeOK'
    BY <2>1, <2>2
  <2> QED BY <2>1, <2>3, <2>4
<1> QED BY <1>1, <1>2

(* The rounds stay in their order (HistorySampler.cpp:47-107).              *)
THEOREM RoundsArchivedInOrder == SamplerSpec => []ArchivedInOrder
<1>1. SamplerInit => ArchiveInv
  BY DEF SamplerInit, ArchiveInv, ArchiveTypeOK, BatchInHand, ArchivedInOrder
<1>2. ArchiveInv /\ [SamplerNext]_samplerVars => ArchiveInv'
  <2> SUFFICES ASSUME ArchiveInv, [SamplerNext]_samplerVars PROVE ArchiveInv'
    OBVIOUS
  <2> USE DEF ArchiveInv, ArchiveTypeOK, BatchInHand, ArchivedInOrder
  <2>1. CASE Start \/ Stop \/ Enter \/ LoopTest \/ CheckAge \/ GetsOld
    BY <2>1 DEF Start, Stop, Enter, LoopTest, CheckAge, GetsOld, rounds
  <2>2. ASSUME NEW some \in SUBSET SampledTags, Sample(some) PROVE ArchiveInv'
    BY <2>2, SamplingKeepsOrder
  <2>3. CASE TakeCache
    BY <2>3 DEF TakeCache, CacheTaken, rounds
  <2>4. CASE Insert
    BY <2>4 DEF Insert, rounds
  <2>5. CASE UNCHANGED samplerVars
    BY <2>5 DEF samplerVars, rounds
  <2> QED BY <2>1, <2>2, <2>3, <2>4, <2>5 DEF SamplerNext, Loop
<1> QED BY <1>1, <1>2, PTL DEF SamplerSpec, ArchiveInv

-----------------------------------------------------------------------------
(* The rings of recent records.                                             *)

(* Positions that are whole turns of the ring apart are the same.           *)
LEMMA WholeTurns ==
  ASSUME NEW p \in Nat, NEW q \in Nat, NEW turns \in Int, p = q + MaxRecords * turns
  PROVE  p % MaxRecords = q % MaxRecords
<1> DEFINE dp == p \div MaxRecords  dq == q \div MaxRecords
           rp == p % MaxRecords  rq == q % MaxRecords
           more == turns + dq - dp
<1>1. /\ dp \in Int /\ dq \in Int
      /\ p = MaxRecords * dp + rp /\ q = MaxRecords * dq + rq
      /\ rp \in 0 .. MaxRecords - 1 /\ rq \in 0 .. MaxRecords - 1
  BY SamplerAssumption
<1>2. more \in Int /\ rp - rq = MaxRecords * more
  BY <1>1, SamplerAssumption
<1> HIDE DEF dp, dq, rp, rq, more
<1>3. CASE more >= 1
  <2>1. MaxRecords * more >= MaxRecords
    BY <1>2, <1>3, SamplerAssumption
  <2> QED BY <1>1, <1>2, <2>1, SamplerAssumption
<1>4. CASE more <= -1
  <2>1. MaxRecords * more <= - MaxRecords
    BY <1>2, <1>4, SamplerAssumption
  <2> QED BY <1>1, <1>2, <2>1, SamplerAssumption
<1>5. CASE more = 0
  BY <1>1, <1>2, <1>5, SamplerAssumption DEF rp, rq
<1> QED BY <1>2, <1>3, <1>4, <1>5

(* Positions less than a turn apart are not.                                *)
LEMMA WithinOneTurn ==
  ASSUME NEW p \in Nat, NEW q \in Nat, p < q, q < p + MaxRecords
  PROVE  p % MaxRecords # q % MaxRecords
<1> DEFINE dp == p \div MaxRecords  dq == q \div MaxRecords
           rp == p % MaxRecords  rq == q % MaxRecords
<1>1. /\ dp \in Int /\ dq \in Int
      /\ p = MaxRecords * dp + rp /\ q = MaxRecords * dq + rq
      /\ rp \in 0 .. MaxRecords - 1 /\ rq \in 0 .. MaxRecords - 1
  BY SamplerAssumption
<1> SUFFICES ASSUME rp = rq PROVE FALSE
  OBVIOUS
<1>2. q - p = MaxRecords * (dq - dp)
  BY <1>1, SamplerAssumption
<1>3. dq - dp <= 0 \/ dq - dp >= 1
  BY <1>1
<1> QED BY <1>1, <1>2, <1>3, SamplerAssumption

(* The position behind the head.                                            *)
LEMMA HeadGoesRound ==
  ASSUME NEW n \in Nat
  PROVE  NextHead(n % MaxRecords) = (n + 1) % MaxRecords
<1> DEFINE d == n \div MaxRecords  h == n % MaxRecords
<1>1. d \in Int /\ h \in 0 .. MaxRecords - 1 /\ n = MaxRecords * d + h
  BY SamplerAssumption
<1> HIDE DEF d, h
<1>2. n + 1 = (h + 1) + MaxRecords * d /\ h + 1 \in Nat /\ n + 1 \in Nat
  BY <1>1, SamplerAssumption
<1>3. (n + 1) % MaxRecords = (h + 1) % MaxRecords
  BY <1>1, <1>2, WholeTurns
<1> QED BY <1>3 DEF NextHead, h

(* What a ring holds after all the rounds that found its tag: as many of    *)
(* the last ones as it has room for, each at its place.                     *)
Kept(n) == IF n < MaxRecords THEN n ELSE MaxRecords

Holds(ring, found) ==
  /\ ring.records \in [Positions -> Nat]
  /\ ring.head = Len(found) % MaxRecords /\ ring.count = Kept(Len(found))
  /\ \A i \in 1 .. Len(found) :
       i > Len(found) - MaxRecords => ring.records[(i - 1) % MaxRecords] = found[i]

RingInv ==
  /\ sampled \in Nat
  /\ roundsOf \in [SampledTags -> Seq(Nat)]
  /\ \A t \in SampledTags : Holds(recent[t], roundsOf[t])

(* A record takes the place of the oldest one when the ring is full, and    *)
(* leaves the others alone.                                                 *)
LEMMA WrittenHolds ==
  ASSUME NEW ring, NEW found \in Seq(Nat), Holds(ring, found), NEW round \in Nat
  PROVE  Holds(Written(ring, round), Append(found, round))
<1> DEFINE n == Len(found)  after == Written(ring, round)  all == Append(found, round)
<1>1. n \in Nat /\ Len(all) = n + 1 /\ all[n + 1] = round
      /\ \A i \in 1 .. n : all[i] = found[i]
  OBVIOUS
<1>2. n % MaxRecords \in Positions
  BY <1>1, SamplerAssumption DEF Positions
<1>3. /\ after.records = [ring.records EXCEPT ![n % MaxRecords] = round]
      /\ after.head = NextHead(n % MaxRecords)
      /\ after.count = IF Kept(n) < MaxRecords THEN Kept(n) + 1 ELSE Kept(n)
  BY DEF Holds, Written
<1>4. after.records \in [Positions -> Nat]
  BY <1>3 DEF Holds
<1> HIDE DEF n, after, all
<1>5. after.head = (n + 1) % MaxRecords
  BY <1>1, <1>3, HeadGoesRound
<1>6. after.count = Kept(n + 1)
  BY <1>1, <1>3, SamplerAssumption DEF Kept
<1>7. ASSUME NEW i \in 1 .. n + 1, i > n + 1 - MaxRecords
      PROVE  after.records[(i - 1) % MaxRecords] = all[i]
  <2>1. CASE i = n + 1
    <3>1. i - 1 = n
      BY <1>1, <2>1
    <3> QED BY <1>1, <1>2, <1>3, <2>1, <3>1 DEF Holds
  <2>2. CASE i # n + 1
    <3>1. /\ i \in 1 .. n /\ i > n - MaxRecords /\ i - 1 \in Nat
          /\ i - 1 < n /\ n < (i - 1) + MaxRecords
      BY <1>1, <1>7, <2>2, SamplerAssumption
    <3>2. /\ (i - 1) % MaxRecords # n % MaxRecords
          /\ (i - 1) % MaxRecords \in Positions
      <4> DEFINE j == i - 1
      <4>1. j \in Nat /\ j < n /\ n < j + MaxRecords
        BY <3>1
      <4> HIDE DEF j
      <4>2. j % MaxRecords # n % MaxRecords
        BY <1>1, <4>1, WithinOneTurn
      <4>3. j % MaxRecords \in Positions
        BY <4>1, SamplerAssumption DEF Positions
      <4> QED BY <4>2, <4>3 DEF j
    <3>3. ring.records[(i - 1) % MaxRecords] = found[i]
      BY <3>1 DEF Holds, n
    <3> QED BY <1>1, <1>3, <3>1, <3>2, <3>3 DEF Holds
  <2> QED BY <2>1, <2>2
<1>8. Holds(after, all)
  <2>1. \A i \in 1 .. Len(all) :
          i > Len(all) - MaxRecords => after.records[(i - 1) % MaxRecords] = all[i]
    <3> DEFINE l == Len(all)
    <3>1. l = n + 1
      BY <1>1
    <3> HIDE DEF l
    <3>2. \A i \in 1 .. l :
            i > l - MaxRecords => after.records[(i - 1) % MaxRecords] = all[i]
      BY <1>1, <1>7, <3>1, SamplerAssumption
    <3> QED BY <3>2 DEF l
  <2> QED BY <1>1, <1>4, <1>5, <1>6, <2>1 DEF Holds
<1> QED BY <1>8 DEF after, all

(* Read back from the head, a ring gives the last rounds, oldest first.     *)
LEMMA RememberedIsLatest ==
  ASSUME NEW t, NEW found \in Seq(Nat), Holds(recent[t], found)
  PROVE  Remembered(t) = Latest(found)
<1> DEFINE n == Len(found)  ring == recent[t]  kept == Kept(n)
           at(i) == (ring.head + MaxRecords - 1 - (ring.count - i)) % MaxRecords
<1>1. n \in Nat /\ kept \in Nat /\ kept <= n /\ kept <= MaxRecords
      /\ ring.head = n % MaxRecords /\ ring.count = kept
  BY SamplerAssumption DEF Holds, Kept
<1>2. Remembered(t) = [i \in 1 .. kept |-> ring.records[at(i)]]
  BY <1>1 DEF Remembered
<1>3. Latest(found) = SubSeq(found, n - kept + 1, n)
  <2>1. kept = Kept(n) /\ Latest(found) =
          SubSeq(found, IF n > MaxRecords THEN n - MaxRecords + 1 ELSE 1, n)
    BY DEF Latest
  <2> HIDE DEF n, kept
  <2>2. n - kept + 1 = IF n > MaxRecords THEN n - MaxRecords + 1 ELSE 1
    BY <1>1, <2>1, SamplerAssumption DEF Kept
  <2> QED BY <2>1, <2>2
<1>4. Latest(found) = [i \in 1 .. kept |-> found[n - kept + i]]
  <2> DEFINE m == n - kept + 1
  <2>1. m \in 1 .. Len(found) + 1 /\ n \in (m - 1) .. Len(found)
    BY <1>1
  <2> HIDE DEF m
  <2>2. SubSeq(found, m, n) = [i \in 1 .. (n - m + 1) |-> found[m + i - 1]]
    BY <2>1
  <2>3. n - m + 1 = kept /\ \A i \in 1 .. kept : m + i - 1 = n - kept + i
    <3> HIDE DEF n, kept
    <3> QED BY <1>1 DEF m
  <2> QED BY <1>3, <2>2, <2>3 DEF m
<1>5. ASSUME NEW i \in 1 .. kept PROVE ring.records[at(i)] = found[n - kept + i]
  <2> DEFINE k == n - kept + i
  <2>1. k \in 1 .. n /\ k > n - MaxRecords
    <3> HIDE DEF n, kept
    <3> QED BY <1>1, SamplerAssumption
  <2>2. ring.records[(k - 1) % MaxRecords] = found[k]
    BY <2>1 DEF Holds
  <2>3. at(i) = (k - 1) % MaxRecords
    <3> DEFINE h == n % MaxRecords  d == n \div MaxRecords
    <3>1. h \in Nat /\ d \in Int /\ n = MaxRecords * d + h
      BY <1>1, SamplerAssumption
    <3>2. at(i) = (h + MaxRecords - 1 - (kept - i)) % MaxRecords
      BY <1>1
    <3> HIDE DEF h, d, at, n, kept
    <3>3. /\ h + MaxRecords - 1 - (kept - i) \in Nat /\ k - 1 \in Nat /\ d - 1 \in Int
          /\ k - 1 = (h + MaxRecords - 1 - (kept - i)) + MaxRecords * (d - 1)
      BY <1>1, <2>1, <3>1, SamplerAssumption
    <3> QED BY <3>2, <3>3, WholeTurns
  <2> QED BY <2>2, <2>3
<1> QED BY <1>2, <1>4, <1>5

(* What is remembered of a tag are its latest records, whatever rounds      *)
(* found it and however often its ring has gone round                       *)
(* (HistorySampler.cpp:110-144).                                            *)
THEOREM MemoryIsLatest == SamplerSpec => []RecentIsLatest
<1>1. SamplerInit => RingInv
  <2> SUFFICES ASSUME SamplerInit PROVE RingInv
    OBVIOUS
  <2>1. sampled \in Nat /\ roundsOf \in [SampledTags -> Seq(Nat)]
    BY DEF SamplerInit
  <2>2. ASSUME NEW t \in SampledTags PROVE Holds(recent[t], roundsOf[t])
    <3>1. recent[t] = EmptyRing /\ roundsOf[t] = << >> /\ Len(roundsOf[t]) = 0
      BY DEF SamplerInit
    <3>2. 0 % MaxRecords = 0 /\ 0 < MaxRecords
      BY SamplerAssumption
    <3> QED BY <3>1, <3>2 DEF EmptyRing, Holds, Kept
  <2> QED BY <2>1, <2>2 DEF RingInv
<1>2. RingInv /\ [SamplerNext]_samplerVars => RingInv'
  <2> SUFFICES ASSUME RingInv, [SamplerNext]_samplerVars PROVE RingInv'
    OBVIOUS
  <2>1. CASE UNCHANGED <<recent, rounds>>
    BY <2>1 DEF RingInv, rounds
  <2>2. ASSUME NEW some \in SUBSET SampledTags, Sample(some), ~ UNCHANGED <<recent, rounds>>
        PROVE  RingInv'
    <3>1. /\ sampled' = sampled + 1
          /\ roundsOf' = [t \in SampledTags |->
                            IF t \in some THEN Append(roundsOf[t], sampled + 1)
                                          ELSE roundsOf[t]]
          /\ recent' = [t \in SampledTags |->
                          IF t \in some THEN Written(recent[t], sampled + 1) ELSE recent[t]]
      BY <2>2 DEF Sample
    <3>2. sampled + 1 \in Nat /\ roundsOf' \in [SampledTags -> Seq(Nat)]
      BY <3>1 DEF RingInv
    <3>3. ASSUME NEW t \in SampledTags PROVE Holds(recent'[t], roundsOf'[t])
      <4>1. Holds(recent[t], roundsOf[t]) /\ roundsOf[t] \in Seq(Nat)
        BY DEF RingInv
      <4>2. t \in some => Holds(Written(recent[t], sampled + 1),
                                Append(roundsOf[t], sampled + 1))
        BY <3>2, <4>1, WrittenHolds
      <4> QED BY <3>1, <4>1, <4>2
    <3> QED BY <3>1, <3>2, <3>3 DEF RingInv, Holds
  <2>3. CASE Start \/ Stop \/ Enter \/ LoopTest \/ CheckAge \/ TakeCache \/ Insert \/ GetsOld
    BY <2>1, <2>3 DEF Start, Stop, Enter, LoopTest, CheckAge, TakeCache, Insert, GetsOld
  <2> QED BY <2>1, <2>2, <2>3 DEF SamplerNext, Loop, samplerVars
<1>3. RingInv => RecentIsLatest
  <2> SUFFICES ASSUME RingInv, NEW t \in SampledTags
               PROVE  Remembered(t) = Latest(roundsOf[t])
    BY DEF RecentIsLatest, Query
  <2> QED BY RememberedIsLatest DEF RingInv
<1> QED BY <1>1, <1>2, <1>3, PTL DEF SamplerSpec

-----------------------------------------------------------------------------
Stores ==
  [history : SUBSET (Nat \X Nat),
   events : [Events -> {"absent", "unacknowledged", "acknowledged"}],
   kpi : SUBSET KpiSnapshots, log : BOOLEAN]

DatabaseTypeOK ==
  /\ store \in Stores /\ saved \in Stores /\ open \in BOOLEAN
  /\ write \in [at : {"idle", "prepare", "rows", "commit"}, batch : Nat, record : Nat]
  /\ prepared \in BOOLEAN /\ handedOver \in Nat /\ cut \in SUBSET (1 .. handedOver)
  /\ write.at # "idle" => write.batch = handedOver /\ write.batch >= 1
  /\ write.at = "prepare" => write.record = 1
  /\ write.at = "rows" => write.record \in 1 .. BatchLength

(* The records of the batch that have been inserted.                        *)
Inserted ==
  IF write.at = "commit" THEN RecordsOf(write.batch)
  ELSE IF write.at = "rows" THEN {write.batch} \X (1 .. write.record - 1)
  ELSE {}

(* In the transaction, and after it has been lost.                          *)
InTransaction ==
  open => /\ write.at # "idle" /\ write.batch \notin cut
          /\ saved.history \cap RecordsOf(write.batch) = {}
          /\ store.history = saved.history \cup Inserted

WithoutTransaction ==
  ~ open /\ write.at # "idle" /\ write.batch \notin cut =>
    /\ write.at # "prepare" /\ (write.at = "rows" => ~ prepared)
    /\ store.history \cap RecordsOf(write.batch) = {}

EarlierBatches == \A b \in (1 .. handedOver) \ cut : WholeOrNot(b)
NoLaterBatches == \A b \in Nat : b > handedOver => Durable.history \cap RecordsOf(b) = {}

TransactionInv ==
  Mysql => /\ DatabaseTypeOK /\ InTransaction /\ WithoutTransaction
           /\ EarlierBatches /\ NoLaterBatches

LEMMA RecordsBelong ==
  ASSUME NEW b \in Nat, NEW c \in Nat, b # c
  PROVE  RecordsOf(b) \cap RecordsOf(c) = {} /\ RecordsOf(b) \subseteq Nat \X Nat
BY PersistenceAssumption DEF RecordsOf

(* A statement of the main thread touches no record.                        *)
LEMMA StatementStep ==
  ASSUME Mysql, TransactionInv, NEW after \in Stores, after.history = store.history,
         NEW table, ExecQuery(table, after)
  PROVE  TransactionInv'
<1>1. store' \in Stores /\ store'.history = store.history
  BY DEF ExecQuery, TransactionInv, DatabaseTypeOK
<1>2. Durable'.history = Durable.history
  BY <1>1 DEF ExecQuery, Durable
<1> QED
  BY <1>1, <1>2 DEF ExecQuery, TransactionInv, DatabaseTypeOK, InTransaction,
     WithoutTransaction, EarlierBatches, NoLaterBatches, WholeOrNot, Inserted, Mysql

LEMMA MainThreadKeepsBatch ==
  ASSUME Mysql, TransactionInv, MainThread
  PROVE  TransactionInv'
<1> USE DEF TransactionInv, DatabaseTypeOK, Stores
<1>1. ASSUME NEW e \in Events, InsertEvent(e) \/ UpdateAck(e) PROVE TransactionInv'
  <2>1. PICK as \in {"unacknowledged", "acknowledged"} :
          ExecQuery("alarm_events", [store EXCEPT !.events[e] = as])
    BY <1>1 DEF InsertEvent, UpdateAck
  <2>2. [store EXCEPT !.events[e] = as] \in Stores
    OBVIOUS
  <2>3. [store EXCEPT !.events[e] = as].history = store.history
    OBVIOUS
  <2> HIDE DEF TransactionInv, DatabaseTypeOK, Stores
  <2> QED BY <2>1, <2>2, <2>3, StatementStep
<1>2. ASSUME NEW s \in KpiSnapshots, InsertKpiSnapshot(s) PROVE TransactionInv'
  <2>1. ExecQuery("alarm_kpi_snapshots", [store EXCEPT !.kpi = @ \cup {s}])
    BY <1>2 DEF InsertKpiSnapshot
  <2>2. [store EXCEPT !.kpi = @ \cup {s}] \in Stores
    OBVIOUS
  <2>3. [store EXCEPT !.kpi = @ \cup {s}].history = store.history
    OBVIOUS
  <2> HIDE DEF TransactionInv, DatabaseTypeOK, Stores
  <2> QED BY <2>1, <2>2, <2>3, StatementStep
<1>3. ~ Log
  BY DEF Log, Mysql
<1> QED BY <1>1, <1>2, <1>3 DEF MainThread

LEMMA BeginStep ==
  ASSUME Mysql, TransactionInv, BeginBatch
  PROVE  TransactionInv'
<1> USE DEF TransactionInv, DatabaseTypeOK
<1>1. write.at = "idle" /\ ~ open /\ handedOver' = handedOver + 1 /\ handedOver \in Nat
  BY DEF BeginBatch, HandOver, InTransaction
<1>2. Durable'.history = Durable.history /\ store' = store /\ cut' = cut /\ Mysql'
  BY <1>1 DEF BeginBatch, Durable, Mysql
<1>3. Durable.history \cap RecordsOf(handedOver + 1) = {} /\ Durable = store
  BY <1>1 DEF NoLaterBatches, Durable
<1>4. EarlierBatches' /\ NoLaterBatches'
  <2>1. ASSUME NEW b \in (1 .. handedOver') \ cut' PROVE WholeOrNot(b)'
    <3>1. CASE b = handedOver + 1
      BY <3>1, <1>2, <1>3 DEF WholeOrNot
    <3>2. CASE b # handedOver + 1
      <4>1. b \in (1 .. handedOver) \ cut
        BY <3>2, <1>1, <1>2
      <4> QED BY <4>1, <1>2 DEF WholeOrNot, EarlierBatches
    <3> QED BY <3>1, <3>2
  <2>2. NoLaterBatches'
    BY <1>1, <1>2 DEF NoLaterBatches
  <2> QED BY <2>1, <2>2 DEF EarlierBatches
<1>5. handedOver' \in Nat /\ cut' \in SUBSET (1 .. handedOver') /\ handedOver' \notin cut'
  BY <1>1, <1>2
<1>6. CASE UNCHANGED <<saved, open, write>>
  <2>1. prepared' = prepared /\ ~ open' /\ write'.at = "idle"
    BY <1>1, <1>6 DEF BeginBatch
  <2> QED
    BY <1>1, <1>2, <1>4, <1>5, <1>6, <2>1 DEF InTransaction, WithoutTransaction
<1>7. CASE saved' = store /\ open'
           /\ write' = [at |-> "prepare", batch |-> handedOver', record |-> 1]
  <2>1. prepared' = prepared
    BY DEF BeginBatch
  <2>2. saved'.history \cap RecordsOf(handedOver') = {}
    BY <1>1, <1>3, <1>7
  <2>3. InTransaction'
    BY <1>2, <1>5, <1>7, <2>2 DEF InTransaction, Inserted
  <2> QED
    BY <1>1, <1>2, <1>4, <1>5, <1>7, <2>1, <2>3 DEF WithoutTransaction
<1> QED BY <1>6, <1>7 DEF BeginBatch

(* What a step has to keep that hands over no batch and stores nothing.     *)
LEMMA BatchesKept ==
  ASSUME Mysql, TransactionInv, UNCHANGED <<handedOver, cut>>,
         Durable'.history = Durable.history
  PROVE  EarlierBatches' /\ NoLaterBatches'
BY DEF TransactionInv, EarlierBatches, NoLaterBatches, WholeOrNot

LEMMA PrepareStep ==
  ASSUME Mysql, TransactionInv, PrepareInsert
  PROVE  TransactionInv'
<1> USE DEF TransactionInv, DatabaseTypeOK
<1>1. /\ write.at = "prepare" /\ write' = [write EXCEPT !.at = "rows"]
      /\ prepared' \in BOOLEAN
      /\ UNCHANGED <<base, store, saved, open, handedOver, cut>>
  BY DEF PrepareInsert, Accepts
<1>2. /\ write'.at = "rows" /\ write'.batch = write.batch /\ write'.record = 1
      /\ write' \in [at : {"idle", "prepare", "rows", "commit"}, batch : Nat, record : Nat]
  BY <1>1
<1>3. EarlierBatches' /\ NoLaterBatches'
  BY <1>1, BatchesKept DEF Durable
<1>4. Inserted = {} /\ Inserted' = {}
  BY <1>1, <1>2 DEF Inserted
<1>5. InTransaction' /\ WithoutTransaction'
  BY <1>1, <1>2, <1>4 DEF InTransaction, WithoutTransaction
<1>6. DatabaseTypeOK'
  BY <1>1, <1>2, PersistenceAssumption
<1> QED BY <1>3, <1>5, <1>6 DEF Mysql

LEMMA RollbackStep ==
  ASSUME Mysql, TransactionInv, Rollback,
         UNCHANGED <<base, saved, prepared, handedOver, cut>>
  PROVE  TransactionInv'
<1> USE DEF TransactionInv, DatabaseTypeOK
<1>1. store' = Durable /\ open' = FALSE /\ write' = NotWriting /\ Durable \in Stores
  BY DEF Rollback, Durable
<1>2. Durable' = Durable
  BY <1>1 DEF Durable
<1>3. EarlierBatches' /\ NoLaterBatches'
  BY <1>2, BatchesKept
<1>4. DatabaseTypeOK' /\ write'.at = "idle"
  BY <1>1 DEF NotWriting
<1> QED
  BY <1>1, <1>3, <1>4 DEF InTransaction, WithoutTransaction, Mysql

LEMMA RowStep ==
  ASSUME Mysql, TransactionInv, InsertRow
  PROVE  TransactionInv'
<1> USE DEF TransactionInv, DatabaseTypeOK
<1>1. write.at = "rows" /\ UNCHANGED <<base, saved, prepared, handedOver, cut>>
  BY DEF InsertRow
<1>2. CASE Rollback
  BY <1>1, <1>2, RollbackStep
<1>3. CASE prepared /\ UNCHANGED open
           /\ store' = [store EXCEPT !.history = @ \cup {<<write.batch, write.record>>}]
           /\ write' = IF write.record = BatchLength
                       THEN [write EXCEPT !.at = "commit"]
                       ELSE [write EXCEPT !.record = @ + 1]
  <2> DEFINE row == <<write.batch, write.record>>
  <2>1. /\ row \in RecordsOf(write.batch) /\ write.batch \in Nat /\ write.batch = handedOver
        /\ write.record \in 1 .. BatchLength /\ BatchLength \in Nat
    BY <1>1, PersistenceAssumption DEF RecordsOf
  <2>2. store' \in Stores /\ store'.history = store.history \cup {row}
    BY <1>3, <2>1 DEF Stores
  <2>3. /\ write' \in [at : {"idle", "prepare", "rows", "commit"}, batch : Nat, record : Nat]
        /\ write'.batch = write.batch /\ write'.at \in {"rows", "commit"}
        /\ write'.at = "rows" => /\ write'.record = write.record + 1
                                 /\ write'.record \in 1 .. BatchLength
        /\ write'.at = "commit" => write.record = BatchLength
    BY <1>1, <1>3, <2>1
  <2>4. Inserted' = Inserted \cup {row}
    <3>1. Inserted = {write.batch} \X (1 .. write.record - 1)
      BY <1>1 DEF Inserted
    <3>2. Inserted' = {write.batch} \X (1 .. write.record)
      BY <2>1, <2>3 DEF Inserted, RecordsOf
    <3>3. 1 .. write.record = (1 .. write.record - 1) \cup {write.record}
      BY <2>1
    <3> QED BY <3>1, <3>2, <3>3
  <2>5. DatabaseTypeOK'
    BY <1>1, <1>3, <2>2, <2>3
  <2>6. InTransaction'
    BY <1>1, <1>3, <2>2, <2>3, <2>4 DEF InTransaction
  <2>7. WithoutTransaction'
    BY <1>1, <1>3, <2>3 DEF WithoutTransaction
  <2>8. CASE open
    <3>1. Durable' = Durable
      BY <1>1, <1>3, <2>8 DEF Durable
    <3> QED BY <1>1, <2>5, <2>6, <2>7, <3>1, BatchesKept DEF Mysql
  <2>9. CASE ~ open
    <3>1. /\ write.batch \in cut
          /\ Durable'.history = Durable.history \cup {row}
      BY <1>1, <1>3, <2>2, <2>9 DEF Durable, WithoutTransaction
    <3>2. ASSUME NEW b \in Nat, b # write.batch
          PROVE  Durable'.history \cap RecordsOf(b) = Durable.history \cap RecordsOf(b)
      <4>1. row \notin RecordsOf(b)
        BY <2>1, <3>2, RecordsBelong
      <4> QED BY <3>1, <4>1
    <3>3. EarlierBatches'
      <4> SUFFICES ASSUME NEW b \in (1 .. handedOver) \ cut PROVE WholeOrNot(b)'
        BY <1>1 DEF EarlierBatches
      <4>1. WholeOrNot(b) /\ b # write.batch /\ b \in Nat
        BY <3>1 DEF EarlierBatches
      <4> QED BY <3>1, <3>2, <4>1 DEF WholeOrNot
    <3>4. NoLaterBatches'
      <4> SUFFICES ASSUME NEW b \in Nat, b > handedOver
                   PROVE  Durable'.history \cap RecordsOf(b) = {}
        BY <1>1 DEF NoLaterBatches
      <4>1. b # write.batch
        BY <2>1
      <4> QED BY <3>2, <4>1 DEF NoLaterBatches
    <3> QED BY <1>1, <2>5, <2>6, <2>7, <3>3, <3>4 DEF Mysql
  <2> QED BY <2>8, <2>9
<1> QED BY <1>2, <1>3 DEF InsertRow

LEMMA CommitStep ==
  ASSUME Mysql, TransactionInv, CommitBatch
  PROVE  TransactionInv'
<1> USE DEF TransactionInv, DatabaseTypeOK
<1>1. write.at = "commit" /\ UNCHANGED <<base, saved, prepared, handedOver, cut>>
  BY DEF CommitBatch
<1>2. CASE Rollback
  BY <1>1, <1>2, RollbackStep
<1>3. CASE open' = FALSE /\ write' = NotWriting /\ UNCHANGED store
  <2>1. write'.at = "idle" /\ DatabaseTypeOK' /\ Durable' = store
    BY <1>1, <1>3 DEF NotWriting, Durable
  <2>2. InTransaction' /\ WithoutTransaction'
    BY <1>3, <2>1 DEF InTransaction, WithoutTransaction
  <2>3. CASE ~ open
    <3>1. Durable' = Durable
      BY <2>1, <2>3 DEF Durable
    <3> QED BY <1>1, <2>1, <2>2, <3>1, BatchesKept DEF Mysql
  <2>4. CASE open
    <3>1. store.history = saved.history \cup RecordsOf(write.batch) /\ Durable = saved
      BY <1>1, <2>4 DEF InTransaction, Inserted, Durable
    <3>2. write.batch \in Nat /\ write.batch = handedOver
      BY <1>1
    <3>3. ASSUME NEW b \in Nat, b # write.batch
          PROVE  Durable'.history \cap RecordsOf(b) = Durable.history \cap RecordsOf(b)
      BY <2>1, <3>1, <3>2, <3>3, RecordsBelong
    <3>4. EarlierBatches'
      <4> SUFFICES ASSUME NEW b \in (1 .. handedOver) \ cut PROVE WholeOrNot(b)'
        BY <1>1 DEF EarlierBatches
      <4>1. CASE b = write.batch
        BY <2>1, <3>1, <4>1 DEF WholeOrNot
      <4>2. CASE b # write.batch
        <5>1. WholeOrNot(b) /\ b \in Nat
          BY DEF EarlierBatches
        <5> QED BY <3>3, <4>2, <5>1 DEF WholeOrNot
      <4> QED BY <4>1, <4>2
    <3>5. NoLaterBatches'
      <4> SUFFICES ASSUME NEW b \in Nat, b > handedOver
                   PROVE  Durable'.history \cap RecordsOf(b) = {}
        BY <1>1 DEF NoLaterBatches
      <4>1. b # write.batch
        BY <3>2
      <4> QED BY <3>3, <4>1 DEF NoLaterBatches
    <3> QED BY <1>1, <2>1, <2>2, <3>4, <3>5 DEF Mysql
  <2> QED BY <2>3, <2>4
<1> QED BY <1>2, <1>3 DEF CommitBatch

LEMMA LoseStep ==
  ASSUME Mysql, TransactionInv, Lose
  PROVE  TransactionInv'
<1> USE DEF TransactionInv, DatabaseTypeOK
<1>1. /\ store' = Durable /\ ~ open' /\ open' \in BOOLEAN /\ ~ prepared'
      /\ prepared' \in BOOLEAN /\ UNCHANGED <<base, saved, write, handedOver>>
      /\ cut' = IF write.at = "prepare" THEN cut \cup {write.batch} ELSE cut
  BY DEF Lose
<1>2. Durable' = Durable /\ Durable \in Stores
  BY <1>1 DEF Durable
<1>3. EarlierBatches' /\ NoLaterBatches'
  BY <1>1, <1>2 DEF EarlierBatches, NoLaterBatches, WholeOrNot
<1>4. cut' \in SUBSET (1 .. handedOver) /\ cut \subseteq cut'
  BY <1>1
<1>5. DatabaseTypeOK'
  BY <1>1, <1>2, <1>4
<1>6. ASSUME write.at # "idle", write.batch \notin cut'
      PROVE  /\ write.at # "prepare" /\ Durable.history \cap RecordsOf(write.batch) = {}
  BY <1>1, <1>6 DEF InTransaction, WithoutTransaction, Durable
<1>7. InTransaction' /\ WithoutTransaction'
  BY <1>1, <1>6 DEF InTransaction, WithoutTransaction
<1> QED BY <1>1, <1>3, <1>5, <1>7 DEF Mysql

(* A batch is one transaction, its transaction is the batch                 *)
(* (MysqlPersistencePlugin.cpp:181-209).                                    *)
THEOREM BatchesAreTransactions == PersistenceSpec => []BatchIsTransaction
<1>1. PersistenceInit => TransactionInv
  <2> SUFFICES ASSUME PersistenceInit PROVE TransactionInv
    OBVIOUS
  <2>1. EmptyStore \in Stores /\ EmptyStore.history = {}
    BY DEF EmptyStore, Stores
  <2>2. /\ store = EmptyStore /\ Durable = EmptyStore /\ ~ open /\ write.at = "idle"
        /\ handedOver = 0 /\ DatabaseTypeOK
    BY <2>1 DEF PersistenceInit, NotWriting, Durable, DatabaseTypeOK
  <2> QED
    BY <2>1, <2>2 DEF TransactionInv, InTransaction, WithoutTransaction, EarlierBatches,
       NoLaterBatches
<1>2. TransactionInv /\ [PersistenceNext]_persistenceVars => TransactionInv'
  <2> SUFFICES ASSUME TransactionInv, [PersistenceNext]_persistenceVars
               PROVE  TransactionInv'
    OBVIOUS
  <2>1. CASE ~ Mysql
    <3>1. base' = base
      BY DEF PersistenceNext, MainThread, BatchInsert, InsertEvent, UpdateAck,
         InsertKpiSnapshot, Log, ExecQuery, BeginBatch, PrepareInsert, InsertRow,
         CommitBatch, BeginSqlite, RowSqlite, Lose, persistenceVars
    <3> QED BY <2>1, <3>1 DEF TransactionInv, Mysql
  <2>2. CASE Mysql
    <3>1. CASE MainThread
      BY <2>2, <3>1, MainThreadKeepsBatch
    <3>2. CASE BatchInsert
      <4>1. ~ BeginSqlite /\ ~ RowSqlite
        BY <2>2 DEF BeginSqlite, RowSqlite, Mysql
      <4> QED
        BY <2>2, <3>2, <4>1, BeginStep, PrepareStep, RowStep, CommitStep DEF BatchInsert
    <3>3. CASE Lose
      BY <2>2, <3>3, LoseStep
    <3>4. CASE UNCHANGED persistenceVars
      BY <3>4 DEF persistenceVars, TransactionInv, DatabaseTypeOK, InTransaction,
         WithoutTransaction, EarlierBatches, NoLaterBatches, WholeOrNot, Durable,
         Inserted, Mysql
    <3> QED BY <3>1, <3>2, <3>3, <3>4 DEF PersistenceNext
  <2> QED BY <2>1, <2>2
<1>3. TransactionInv => BatchIsTransaction
  <2> SUFFICES ASSUME TransactionInv, Mysql
               PROVE  NothingLeftOpen /\ \A b \in (1 .. handedOver) \ cut : WholeOrNot(b)
    BY DEF BatchIsTransaction
  <2>1. write.at = "idle" => Durable = store
    BY DEF TransactionInv, InTransaction, Durable
  <2> QED
    BY <2>1 DEF TransactionInv, EarlierBatches, NothingLeftOpen, StoredRecords
<1> QED BY <1>1, <1>2, <1>3, PTL DEF PersistenceSpec
=============================================================================
