----------------------------- MODULE DoubleBuffer -----------------------------
(***************************************************************************)
(* DoubleBuffer.h: the parse thread collects snapshots of tags and commits *)
(* them; readers take the published map without a lock.  The maps are      *)
(* recycled: the last reference to one, wherever it is dropped, clears it  *)
(* and puts it back into a pool from which the next commit takes it.  The  *)
(* atomic operations on the pool and on the published pointer are the      *)
(* steps.  A compare_exchange_weak may fail although the slot has what it  *)
(* expects, so a commit may miss every map of the pool and a returned map  *)
(* may find no slot.                                                       *)
(***************************************************************************)
EXTENDS Naturals, FiniteSets

CONSTANTS
  BufferedTags, Values, Readers, Absent, Closed,  \* see SnapshotStore
  Maps,       \* the addresses of maps
  FirstMap,   \* the one that the constructor publishes, not of the pool
  NoMap,
  PoolSize    \* POOL_SIZE, 5 in the code

ASSUME BufferAssumption ==
  /\ Absent \notin Values /\ Closed \notin [BufferedTags -> Values \cup {Absent}]
  /\ FirstMap \in Maps /\ NoMap \notin Maps
  /\ IsFiniteSet(Maps) /\ IsFiniteSet(Readers) /\ PoolSize \in Nat

VARIABLES
  writeBuffer,  \* m_writeBuffer
  content,      \* what each map holds
  alive,        \* the maps allocated and not deleted
  pool,         \* those in m_pool
  published,    \* m_readOnlySnapshot
  commit,       \* commit(): its next step and the map it works on
  reader        \* each reader: "idle", "looking", or in the deleter of a map

bufferVars == <<writeBuffer, content, alive, pool, published, commit, reader>>

SnapshotMap == [BufferedTags -> Values \cup {Absent}]
Empty == [t \in BufferedTags |-> Absent]

NotRunning == [at |-> "idle", map |-> NoMap]

(* The reference counted by shared_ptr that a thread gives up is the last.  *)
Held(m, others) == \E r \in others : reader[r].at = "looking" /\ reader[r].map = m

(* Faulty variant: the other readers are not counted.                       *)
LastOfPublished(r, m) == published # m

LastOfReader(r, m) == published # m /\ ~ Held(m, Readers \ {r})

(* The deleter: the pool's maps are cleared and returned, the first one is  *)
(* deleted.                                                                 *)
AfterLast(m) == IF m = FirstMap THEN "delete" ELSE "clear"

BufferInit ==
  /\ writeBuffer = Empty
  /\ content = [m \in Maps |-> Empty]
  /\ published = FirstMap
  /\ pool \in SUBSET (Maps \ {FirstMap}) /\ Cardinality(pool) = PoolSize
  /\ alive = pool \cup {FirstMap}
  /\ commit = NotRunning
  /\ reader = [r \in Readers |-> NotRunning]

-----------------------------------------------------------------------------
(* The parse thread.                                                        *)

Write(t, v) ==
  /\ commit.at = "idle"
  /\ writeBuffer' = [writeBuffer EXCEPT ![t] = v]
  /\ UNCHANGED <<content, alive, pool, published, commit, reader>>

(* acquireFromPool: a map of the pool or a new one.                         *)
Acquire(m) ==
  /\ commit.at = "idle"
  /\ m \in pool \/ m \notin alive \cup {FirstMap}
  /\ pool' = pool \ {m}
  /\ alive' = alive \cup {m}
  /\ commit' = [at |-> "fill", map |-> m]
  /\ UNCHANGED <<writeBuffer, content, published, reader>>

(* The move leaves the write buffer valid and unspecified.                  *)
Fill ==
  /\ commit.at = "fill"
  /\ content' = [content EXCEPT ![commit.map] = writeBuffer]
  /\ writeBuffer' \in {writeBuffer, Empty}
  /\ commit' = [commit EXCEPT !.at = "publish"]
  /\ UNCHANGED <<alive, pool, published, reader>>

Publish ==
  /\ commit.at = "publish"
  /\ published' = commit.map
  /\ commit' = IF Held(published, Readers)
               THEN [at |-> "reset", map |-> NoMap]
               ELSE [at |-> AfterLast(published), map |-> published]
  /\ UNCHANGED <<writeBuffer, content, alive, pool, reader>>

(* Faulty variant: the moved-from buffer taken for empty.                   *)
BufferNotCleared == writeBuffer
BufferAfterCommit == Empty

Reset ==
  /\ commit.at = "reset"
  /\ writeBuffer' = BufferAfterCommit
  /\ commit' = NotRunning
  /\ UNCHANGED <<content, alive, pool, published, reader>>

-----------------------------------------------------------------------------
(* Readers: readAll, and the end of the shared_ptr it returned.             *)

Look(r) ==
  /\ reader[r].at = "idle"
  /\ reader' = [reader EXCEPT ![r] = [at |-> "looking", map |-> published]]
  /\ UNCHANGED <<writeBuffer, content, alive, pool, published, commit>>

Close(r) ==
  /\ reader[r].at = "looking"
  /\ LET m == reader[r].map IN
     reader' = [reader EXCEPT ![r] =
                  IF LastOfReader(r, m) THEN [at |-> AfterLast(m), map |-> m] ELSE NotRunning]
  /\ UNCHANGED <<writeBuffer, content, alive, pool, published, commit>>

-----------------------------------------------------------------------------
(* The deleter of map m, run by the committer or a reader, whose next step  *)
(* is "step" and is followed by "next".                                     *)

ClearMap(m) ==
  /\ content' = [content EXCEPT ![m] = Empty]
  /\ UNCHANGED <<writeBuffer, alive, pool, published>>

(* Faulty variant: the size of the pool is forgotten.                       *)
AlwaysRoom == TRUE
PoolHasRoom == Cardinality(pool) < PoolSize

ReturnMap(m) ==
  /\ \/ PoolHasRoom /\ pool' = pool \cup {m} /\ UNCHANGED alive
     \/ alive' = alive \ {m} /\ UNCHANGED pool
  /\ UNCHANGED <<writeBuffer, content, published>>

DeleteMap(m) ==
  /\ alive' = alive \ {m}
  /\ UNCHANGED <<writeBuffer, content, pool, published>>

CommitDrops ==
  /\ UNCHANGED reader
  /\ \/ /\ commit.at = "clear" /\ ClearMap(commit.map)
        /\ commit' = [commit EXCEPT !.at = "return"]
     \/ /\ commit.at = "return" /\ ReturnMap(commit.map)
        /\ commit' = [at |-> "reset", map |-> NoMap]
     \/ /\ commit.at = "delete" /\ DeleteMap(commit.map)
        /\ commit' = [at |-> "reset", map |-> NoMap]

ReaderDrops(r) ==
  /\ UNCHANGED commit
  /\ \/ /\ reader[r].at = "clear" /\ ClearMap(reader[r].map)
        /\ reader' = [reader EXCEPT ![r].at = "return"]
     \/ /\ reader[r].at = "return" /\ ReturnMap(reader[r].map)
        /\ reader' = [reader EXCEPT ![r] = NotRunning]
     \/ /\ reader[r].at = "delete" /\ DeleteMap(reader[r].map)
        /\ reader' = [reader EXCEPT ![r] = NotRunning]

-----------------------------------------------------------------------------
BufferNext ==
  \/ \E t \in BufferedTags, v \in Values : Write(t, v)
  \/ \E m \in Maps : Acquire(m)
  \/ Fill \/ Publish \/ CommitDrops \/ Reset
  \/ \E r \in Readers : Look(r) \/ Close(r) \/ ReaderDrops(r)

BufferSpec == BufferInit /\ [][BufferNext]_bufferVars

-----------------------------------------------------------------------------
(* Properties.                                                              *)

(* The store the buffer stands for.  Between its filling and its            *)
(* publication the committed map is what has been written; after it nothing *)
(* has.                                                                     *)
Written == CASE commit.at \in {"idle", "fill"} -> writeBuffer
             [] commit.at = "publish"          -> content[commit.map]
             [] OTHER                          -> Empty
Seen == [r \in Readers |-> IF reader[r].at = "looking" THEN content[reader[r].map]
                                                       ELSE Closed]

Store == INSTANCE SnapshotStore
           WITH Tags <- BufferedTags, written <- Written,
                current <- content[published], seen <- Seen

BufferTypeOK ==
  /\ writeBuffer \in SnapshotMap
  /\ content \in [Maps -> SnapshotMap]
  /\ alive \subseteq Maps /\ pool \subseteq Maps /\ published \in Maps
  /\ commit \in [at : {"idle", "fill", "publish", "clear", "return", "delete", "reset"},
                 map : Maps \cup {NoMap}]
  /\ reader \in [Readers -> [at : {"idle", "looking", "clear", "return", "delete"},
                             map : Maps \cup {NoMap}]]

(* Who may touch a map: the pool has the maps that nobody works on, and     *)
(* each of the others but the published one and those looked at has one     *)
(* thread that works on it.                                                 *)
Working(th) == th.at \in {"fill", "publish", "clear", "return", "delete"}

MapsHaveOneOwner ==
  /\ pool \subseteq alive /\ published \in alive \ pool
  /\ Working(commit) => commit.map \in alive \ (pool \cup {published})
  /\ \A r \in Readers : reader[r].at # "idle" =>
       /\ reader[r].map \in alive \ pool
       /\ Working(reader[r]) => reader[r].map # published
       /\ Working(commit) => reader[r].map # commit.map
       /\ \A q \in Readers \ {r} :
            Working(reader[q]) => reader[q].map # reader[r].map

(* Readers see whole commits that do not change while they look             *)
(* (DoubleBuffer.h:49-64), although the maps are reused.                    *)
ImplementsStore == Store!Spec

(* The maps do not pile up: beside the pool there is one per reader, the    *)
(* published one and the one of a commit (DoubleBuffer.h:76-96).            *)
MapsBounded == Cardinality(alive) <= PoolSize + Cardinality(Readers) + 2
=============================================================================
