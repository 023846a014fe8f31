---------------------------- MODULE HistorySampler ----------------------------
(***************************************************************************)
(* HistorySampler.cpp: a thread that samples the published snapshot into   *)
(* an archive cache and into a ring of recent records per tag, and hands   *)
(* the cache to the history repository when its first record is old        *)
(* enough.  The main thread starts and stops it, again and again if the    *)
(* operator connects and disconnects.  A record is the number of the round *)
(* that took it: rounds are at least a sample interval apart, so their     *)
(* numbers are in the order of their time stamps.                          *)
(***************************************************************************)
EXTENDS Naturals, SequencesExt

CONSTANTS
  SampledTags,  \* the tags a snapshot may hold
  MaxRecords,   \* TagHistoryRing::MAX_RECORDS, 1800 in the code
  MaxRounds     \* a bound on the rounds that find data

ASSUME SamplerAssumption == MaxRecords \in Nat \ {0} /\ MaxRounds \in Nat

VARIABLES
  thread,       \* where the thread is: "off", "starting", or its next step
  running,      \* m_running
  firstRecord,  \* m_firstRecordTime: "none", "young", or "old" enough to archive
  cache,        \* m_cache, as the rounds in it
  batch,        \* records, the local of doArchive
  recent,       \* m_recentHistory
  sampled,      \* ghost: the number of rounds that found data
  roundsOf,     \* ghost: the rounds that found each tag
  handed,       \* ghost: the rounds given to the repository, stored or not
  waiting       \* ghost: the cache holds a round of the present run()

rounds == <<sampled, roundsOf>>
samplerVars == <<thread, running, firstRecord, cache, batch, recent, rounds, handed, waiting>>

Positions == 0 .. MaxRecords - 1
EmptyRing == [records |-> [i \in Positions |-> 0], head |-> 0, count |-> 0]

SamplerInit ==
  /\ thread = "off" /\ running = FALSE /\ firstRecord = "none"
  /\ cache = << >> /\ batch = << >>
  /\ recent = [t \in SampledTags |-> EmptyRing]
  /\ sampled = 0 /\ roundsOf = [t \in SampledTags |-> << >>]
  /\ handed = << >> /\ waiting = FALSE

-----------------------------------------------------------------------------
(* The main thread.                                                         *)

(* start() of a thread that has not finished does nothing.                  *)
Start ==
  /\ thread' = IF thread = "off" THEN "starting" ELSE thread
  /\ UNCHANGED <<running, firstRecord, cache, batch, recent, rounds, handed, waiting>>

(* stop() waits three seconds and returns also when the thread goes on.     *)
Stop ==
  /\ running' = FALSE
  /\ UNCHANGED <<thread, firstRecord, cache, batch, recent, rounds, handed, waiting>>

-----------------------------------------------------------------------------
(* The sampling thread.                                                     *)

Enter ==
  /\ thread = "starting"
  /\ thread' = "test" /\ running' = TRUE
  /\ firstRecord' = "none" /\ waiting' = FALSE
  /\ UNCHANGED <<cache, batch, recent, rounds, handed>>

LoopTest ==
  /\ thread = "test"
  /\ thread' = IF running THEN "sample" ELSE "off"
  /\ UNCHANGED <<running, firstRecord, cache, batch, recent, rounds, handed, waiting>>

(* writeToRecentCache.                                                      *)
(* Faulty variant: the position runs over the end before it wraps.          *)
NextHeadLate(head) == (head + 1) % (MaxRecords + 1)
NextHead(head) == (head + 1) % MaxRecords
Written(ring, round) ==
  [records |-> [ring.records EXCEPT ![ring.head] = round],
   head |-> NextHead(ring.head),
   count |-> IF ring.count < MaxRecords THEN ring.count + 1 ELSE ring.count]

(* Faulty variant: the time is set only by the round after a commit.        *)
FirstRecordLate(first) == IF cache = << >> THEN "young" ELSE first
FirstRecordAfter(first) == IF first = "none" THEN "young" ELSE first

(* A round over a snapshot that holds the tags some.                        *)
Sample(some) ==
  /\ thread = "sample" /\ thread' = "age"
  /\ \/ /\ some = {}
        /\ UNCHANGED <<firstRecord, cache, recent, rounds, waiting>>
     \/ /\ some # {} /\ sampled < MaxRounds
        /\ LET round == sampled + 1 IN
           /\ sampled' = round
           /\ roundsOf' = [t \in SampledTags |->
                             IF t \in some THEN Append(roundsOf[t], round) ELSE roundsOf[t]]
           /\ cache' = Append(cache, round)
           /\ recent' = [t \in SampledTags |->
                           IF t \in some THEN Written(recent[t], round) ELSE recent[t]]
        /\ firstRecord' = FirstRecordAfter(firstRecord)
        /\ waiting' = TRUE
  /\ UNCHANGED <<running, batch, handed>>

CheckAge ==
  /\ thread = "age"
  /\ thread' = IF firstRecord = "old" THEN "archive" ELSE "test"
  /\ UNCHANGED <<running, firstRecord, cache, batch, recent, rounds, handed, waiting>>

(* doArchive, up to the end of the lock.                                    *)
(* Faulty variant: the moved cache is not cleared.                          *)
CacheKept == cache
CacheTaken == << >>
TakeCache ==
  /\ thread = "archive"
  /\ batch' = cache /\ cache' = CacheTaken
  /\ firstRecord' = "none" /\ waiting' = FALSE
  /\ thread' = IF cache = << >> THEN "test" ELSE "insert"
  /\ UNCHANGED <<running, recent, rounds, handed>>

(* batchInsert returns or throws; the records are not kept either way.      *)
Insert ==
  /\ thread = "insert"
  /\ handed' = handed \o batch /\ batch' = << >>
  /\ thread' = "test"
  /\ UNCHANGED <<running, firstRecord, cache, recent, rounds, waiting>>

(* The archive interval passes.                                             *)
GetsOld ==
  /\ firstRecord = "young" /\ firstRecord' = "old"
  /\ UNCHANGED <<thread, running, cache, batch, recent, rounds, handed, waiting>>

Loop == LoopTest \/ CheckAge \/ TakeCache \/ Insert \/ \E some \in SUBSET SampledTags : Sample(some)

SamplerNext == Start \/ Stop \/ Enter \/ Loop \/ GetsOld

(* The thread runs and the interval passes.                                 *)
SamplerFairness ==
  WF_samplerVars(Enter \/ Loop) /\ WF_samplerVars(GetsOld)

SamplerSpec == SamplerInit /\ [][SamplerNext]_samplerVars /\ SamplerFairness

-----------------------------------------------------------------------------
(* Properties.                                                              *)

(* The rounds go to the repository in their order, each at most once and    *)
(* none left out, across any number of stops and restarts: what has been    *)
(* handed over, what is being handed over and what waits are all that was   *)
(* sampled (HistorySampler.cpp:47-83).                                      *)
ArchivedInOrder == handed \o batch \o cache = [i \in 1 .. sampled |-> i]

(* queryFromCache over the window first .. last: it goes back from the      *)
(* newest record and puts each one in front of those it has found.          *)
Remembered(t) ==
  LET ring == recent[t]
      record(i) == ring.records[(ring.head + MaxRecords - 1 - i) % MaxRecords]
  IN [i \in 1 .. ring.count |-> record(ring.count - i)]

InWindow(s, first, last) == SelectSeq(s, LAMBDA r : first <= r /\ r <= last)

Query(t, first, last) == InWindow(Remembered(t), first, last)

(* What the memory answers about a window are the latest records of the tag *)
(* in it, oldest first, as many as the ring has room for: also when the     *)
(* ring has gone round (HistorySampler.cpp:110-144).                        *)
Latest(s) == SubSeq(s, IF Len(s) > MaxRecords THEN Len(s) - MaxRecords + 1 ELSE 1, Len(s))

RecentIsLatest ==
  \A t \in SampledTags : \A first, last \in 1 .. MaxRounds :
    Query(t, first, last) = InWindow(Latest(roundsOf[t]), first, last)

(* A round goes to the repository in the end, unless the sampler is stopped *)
(* again and again: the time of the first record is neither lost nor left   *)
(* behind by a restart.                                                     *)
SampledIsArchived == <>[]running => (waiting ~> ~ waiting)
=============================================================================
