-------------------------- MODULE DoubleBufferProofs --------------------------
(***************************************************************************)
(* Every map of the double buffer has one owner, and therefore the buffer  *)
(* implements the store of snapshots, for any number of readers and maps   *)
(* and any size of the pool.  None is forgotten either: each one alive has *)
(* a place to be, and the places are counted.                              *)
(***************************************************************************)
EXTENDS DoubleBuffer, FiniteSetTheorems, TLAPS

IInv == BufferTypeOK /\ MapsHaveOneOwner

LEMMA InitIInv == BufferInit => IInv
<1> SUFFICES ASSUME BufferInit PROVE IInv
  OBVIOUS
<1>1. BufferTypeOK
  BY BufferAssumption DEF BufferInit, BufferTypeOK, NotRunning, SnapshotMap, Empty
<1>2. MapsHaveOneOwner
  BY DEF BufferInit, MapsHaveOneOwner, NotRunning, Working
<1>3. QED
  BY <1>1, <1>2 DEF IInv

-----------------------------------------------------------------------------
(* The actions keep the invariant.                                          *)

LEMMA WriteKeeps ==
  ASSUME IInv, NEW t \in BufferedTags, NEW v \in Values, Write(t, v) PROVE IInv'
  BY DEF IInv, BufferTypeOK, SnapshotMap, MapsHaveOneOwner, Write, Working

LEMMA AcquireKeeps ==
  ASSUME IInv, NEW m \in Maps, Acquire(m) PROVE IInv'
<1>1. BufferTypeOK'
  BY DEF IInv, BufferTypeOK, Acquire
<1>2. MapsHaveOneOwner'
  BY DEF IInv, BufferTypeOK, MapsHaveOneOwner, Acquire, Working
<1>3. QED
  BY <1>1, <1>2 DEF IInv

LEMMA FillKeeps ==
  ASSUME IInv, Fill PROVE IInv'
<1>1. BufferTypeOK'
  BY DEF IInv, BufferTypeOK, Fill, SnapshotMap, Empty
<1>2. MapsHaveOneOwner'
  BY DEF IInv, BufferTypeOK, MapsHaveOneOwner, Fill, Working
<1>3. QED
  BY <1>1, <1>2 DEF IInv

LEMMA PublishKeeps ==
  ASSUME IInv, Publish PROVE IInv'
<1>1. BufferTypeOK'
  BY DEF IInv, BufferTypeOK, Publish, AfterLast, MapsHaveOneOwner, Working
<1>2. MapsHaveOneOwner'
  <2>1. Working(commit) /\ commit.map \in alive \ (pool \cup {published})
    BY DEF IInv, MapsHaveOneOwner, Publish, Working
  <2>2. CASE Held(published, Readers)
    <3>1. ~ Working(commit')
      BY <2>2 DEF Publish, Working
    <3>2. QED BY <2>1, <3>1 DEF IInv, BufferTypeOK, MapsHaveOneOwner, Publish, Working
  <2>3. CASE ~ Held(published, Readers)
    <3>1. commit'.map = published /\ Working(commit')
      BY <2>3 DEF Publish, AfterLast, Working
    <3>2. \A r \in Readers : reader[r].at # "idle" => reader[r].map # published
      BY <2>3 DEF IInv, BufferTypeOK, MapsHaveOneOwner, Held, Working
    <3>3. QED BY <2>1, <3>1, <3>2 DEF IInv, BufferTypeOK, MapsHaveOneOwner, Publish, Working
  <2>4. QED BY <2>2, <2>3
<1>3. QED
  BY <1>1, <1>2 DEF IInv

LEMMA ResetKeeps ==
  ASSUME IInv, Reset PROVE IInv'
<1>1. BufferTypeOK'
  BY DEF IInv, BufferTypeOK, Reset, BufferAfterCommit, SnapshotMap, Empty, NotRunning
<1>2. MapsHaveOneOwner'
  BY DEF IInv, MapsHaveOneOwner, Reset, Working, NotRunning
<1>3. QED
  BY <1>1, <1>2 DEF IInv

LEMMA CommitDropsKeeps ==
  ASSUME IInv, CommitDrops PROVE IInv'
<1>1. commit.map \in alive \ (pool \cup {published}) /\ Working(commit)
  BY DEF IInv, MapsHaveOneOwner, CommitDrops, Working
<1>2. CASE commit.at = "clear"
  <2>1. /\ commit' = [commit EXCEPT !.at = "return"]
        /\ ClearMap(commit.map) /\ UNCHANGED reader
    BY <1>2 DEF CommitDrops
  <2>2. BufferTypeOK'
    BY <2>1 DEF IInv, BufferTypeOK, ClearMap, SnapshotMap, Empty
  <2>3. MapsHaveOneOwner'
    BY <1>1, <1>2, <2>1 DEF IInv, BufferTypeOK, MapsHaveOneOwner, ClearMap, Working
  <2>4. QED BY <2>2, <2>3 DEF IInv
<1>3. CASE commit.at \in {"return", "delete"}
  <2>1. /\ commit' = [at |-> "reset", map |-> NoMap]
        /\ \/ pool' = pool \cup {commit.map} /\ alive' = alive
           \/ pool' = pool /\ alive' = alive \ {commit.map}
        /\ UNCHANGED <<writeBuffer, content, published, reader>>
    BY <1>3 DEF CommitDrops, ReturnMap, DeleteMap
  <2>2. BufferTypeOK'
    BY <1>1, <2>1 DEF IInv, BufferTypeOK
  <2>3. MapsHaveOneOwner'
    BY <1>1, <2>1 DEF IInv, BufferTypeOK, MapsHaveOneOwner, Working
  <2>4. QED BY <2>2, <2>3 DEF IInv
<1>4. QED
  BY <1>2, <1>3 DEF CommitDrops

LEMMA LookKeeps ==
  ASSUME IInv, NEW r \in Readers, Look(r) PROVE IInv'
<1>1. BufferTypeOK'
  BY DEF IInv, BufferTypeOK, Look
<1>2. MapsHaveOneOwner'
  BY DEF IInv, BufferTypeOK, MapsHaveOneOwner, Look, Working
<1>3. QED
  BY <1>1, <1>2 DEF IInv

LEMMA CloseKeeps ==
  ASSUME IInv, NEW r \in Readers, Close(r) PROVE IInv'
<1>1. BufferTypeOK'
  BY DEF IInv, BufferTypeOK, Close, AfterLast, NotRunning
<1> DEFINE m == reader[r].map
<1>2. CASE LastOfReader(r, m)
  <2>1. reader' = [reader EXCEPT ![r] = [at |-> AfterLast(m), map |-> m]]
    BY <1>2 DEF Close
  <2>2. m # published
        /\ \A q \in Readers \ {r} : reader[q].at # "idle" => reader[q].map # m
    BY <1>2 DEF IInv, BufferTypeOK, MapsHaveOneOwner, LastOfReader, Held, Close, Working
  <2>3. AfterLast(m) \in {"clear", "delete"}
    BY DEF AfterLast
  <2>4. MapsHaveOneOwner'
    BY <2>1, <2>2, <2>3 DEF IInv, BufferTypeOK, MapsHaveOneOwner, Close, Working
  <2>5. QED BY <1>1, <2>4 DEF IInv
<1>3. CASE ~ LastOfReader(r, m)
  <2>1. reader' = [reader EXCEPT ![r] = NotRunning]
    BY <1>3 DEF Close
  <2>2. MapsHaveOneOwner'
    BY <2>1 DEF IInv, BufferTypeOK, MapsHaveOneOwner, Close, Working, NotRunning
  <2>3. QED BY <1>1, <2>2 DEF IInv
<1>4. QED
  BY <1>2, <1>3

LEMMA ReaderDropsKeeps ==
  ASSUME IInv, NEW r \in Readers, ReaderDrops(r) PROVE IInv'
<1> DEFINE m == reader[r].map
<1>1. m \in alive \ (pool \cup {published}) /\ Working(reader[r])
      /\ (Working(commit) => m # commit.map)
      /\ \A q \in Readers \ {r} : reader[q].at # "idle" => reader[q].map # m
  BY DEF IInv, MapsHaveOneOwner, ReaderDrops, Working
<1>2. CASE reader[r].at = "clear"
  <2>1. /\ reader' = [reader EXCEPT ![r].at = "return"]
        /\ ClearMap(m) /\ UNCHANGED commit
    BY <1>2 DEF ReaderDrops
  <2>2. BufferTypeOK'
    BY <2>1 DEF IInv, BufferTypeOK, ClearMap, SnapshotMap, Empty
  <2>3. MapsHaveOneOwner'
    BY <1>1, <1>2, <2>1 DEF IInv, BufferTypeOK, MapsHaveOneOwner, ClearMap, Working
  <2>4. QED BY <2>2, <2>3 DEF IInv
<1>3. CASE reader[r].at \in {"return", "delete"}
  <2>1. /\ reader' = [reader EXCEPT ![r] = NotRunning]
        /\ \/ pool' = pool \cup {m} /\ alive' = alive
           \/ pool' = pool /\ alive' = alive \ {m}
        /\ UNCHANGED <<writeBuffer, content, published, commit>>
    BY <1>3 DEF ReaderDrops, ReturnMap, DeleteMap
  <2>2. BufferTypeOK'
    BY <1>1, <2>1 DEF IInv, BufferTypeOK, NotRunning
  <2>3. MapsHaveOneOwner'
    BY <1>1, <2>1 DEF IInv, BufferTypeOK, MapsHaveOneOwner, Working, NotRunning
  <2>4. QED BY <2>2, <2>3 DEF IInv
<1>4. QED
  BY <1>2, <1>3 DEF ReaderDrops

LEMMA NextIInv == IInv /\ [BufferNext]_bufferVars => IInv'
<1>1. ASSUME IInv, UNCHANGED bufferVars PROVE IInv'
  BY <1>1 DEF IInv, BufferTypeOK, MapsHaveOneOwner, Working, bufferVars
<1>2. QED
  BY <1>1, WriteKeeps, AcquireKeeps, FillKeeps, PublishKeeps, ResetKeeps,
     CommitDropsKeeps, LookKeeps, CloseKeeps, ReaderDropsKeeps DEF BufferNext

LEMMA Invariance == BufferSpec => []IInv
  BY InitIInv, NextIInv, PTL DEF BufferSpec

(* A map is in the pool, published, looked at, or in the hands of one       *)
(* thread that fills or recycles it; never two of these by mistake.         *)
THEOREM MapsAreOwned == BufferSpec => []MapsHaveOneOwner
<1>1. IInv => MapsHaveOneOwner
  BY DEF IInv
<1>2. QED
  BY Invariance, <1>1, PTL

-----------------------------------------------------------------------------
(* The maps do not pile up.  The strengthening: a map that is allocated and *)
(* not in the pool is published, worked on by the commit or held by a       *)
(* reader, so none is forgotten; and the pool never has more than its size. *)
PoolFits == Cardinality(pool) <= PoolSize

InUseBy(m) ==
  \/ m = published
  \/ Working(commit) /\ m = commit.map
  \/ \E r \in Readers : reader[r].at # "idle" /\ m = reader[r].map

NoneForgotten == \A m \in alive \ pool : InUseBy(m)

BoundInv == PoolFits /\ NoneForgotten

LEMMA OneMore ==
  ASSUME NEW S, IsFiniteSet(S), NEW x
  PROVE  /\ IsFiniteSet(S \cup {x}) /\ Cardinality(S \cup {x}) \in Nat
         /\ Cardinality(S) \in Nat /\ Cardinality(S \cup {x}) <= Cardinality(S) + 1
<1>1. /\ IsFiniteSet(S \cup {x})
      /\ Cardinality(S \cup {x}) = IF x \in S THEN Cardinality(S) ELSE Cardinality(S) + 1
  BY FS_AddElement
<1>2. Cardinality(S) \in Nat
  BY FS_CardinalityType
<1> QED BY <1>1, <1>2

(* A pool with room has it for one map; without a map it is no larger.      *)
LEMMA PoolAfterReturn ==
  ASSUME IInv, PoolFits, NEW m \in Maps, ReturnMap(m)
  PROVE  PoolFits'
<1>1. IsFiniteSet(pool)
  BY BufferAssumption, FS_Subset DEF IInv, BufferTypeOK
<1>2. /\ Cardinality(pool) \in Nat /\ Cardinality(pool \cup {m}) \in Nat
      /\ Cardinality(pool \cup {m}) <= Cardinality(pool) + 1
  BY <1>1, OneMore
<1>3. PoolSize \in Nat
  BY BufferAssumption
<1>4. Cardinality(pool') <= PoolSize
  <2>1. CASE pool' = pool \cup {m} /\ Cardinality(pool) < PoolSize
    BY <1>2, <1>3, <2>1
  <2>2. CASE pool' = pool
    BY <2>2 DEF PoolFits
  <2> QED BY <2>1, <2>2 DEF ReturnMap, PoolHasRoom
<1> QED
  BY <1>4 DEF PoolFits

LEMMA PoolStaysFit ==
  ASSUME IInv, PoolFits, [BufferNext]_bufferVars
  PROVE  PoolFits'
<1>1. CASE UNCHANGED pool
  BY <1>1 DEF PoolFits
<1>2. ASSUME NEW m \in Maps, Acquire(m) PROVE PoolFits'
  <2>1. IsFiniteSet(pool) /\ pool' \in SUBSET pool
    BY <1>2, BufferAssumption, FS_Subset DEF IInv, BufferTypeOK, Acquire
  <2>2. Cardinality(pool') <= Cardinality(pool)
        /\ Cardinality(pool) \in Nat /\ Cardinality(pool') \in Nat
    BY <2>1, FS_Subset, FS_CardinalityType
  <2> QED
    BY <2>2, BufferAssumption DEF PoolFits
<1>3. CASE CommitDrops
  <2>1. commit.map \in Maps
    BY <1>3 DEF IInv, BufferTypeOK, MapsHaveOneOwner, CommitDrops, Working
  <2> QED
    BY <1>1, <1>3, <2>1, PoolAfterReturn DEF CommitDrops, ClearMap, DeleteMap
<1>4. ASSUME NEW r \in Readers, ReaderDrops(r) PROVE PoolFits'
  <2>1. reader[r].map \in Maps
    BY <1>4 DEF IInv, BufferTypeOK, MapsHaveOneOwner, ReaderDrops, Working
  <2> QED
    BY <1>1, <1>4, <2>1, PoolAfterReturn DEF ReaderDrops, ClearMap, DeleteMap
<1> QED
  BY <1>1, <1>2, <1>3, <1>4
     DEF BufferNext, bufferVars, Write, Fill, Publish, Reset, Look, Close

LEMMA NoneGetsForgotten ==
  ASSUME IInv, NoneForgotten, [BufferNext]_bufferVars
  PROVE  NoneForgotten'
<1> USE DEF NoneForgotten, InUseBy, IInv, BufferTypeOK, Working
<1>1. ASSUME NEW t \in BufferedTags, NEW v \in Values, Write(t, v) PROVE NoneForgotten'
  BY <1>1 DEF Write
<1>2. ASSUME NEW m \in Maps, Acquire(m) PROVE NoneForgotten'
  BY <1>2 DEF Acquire
<1>3. CASE Fill \/ Reset
  BY <1>3 DEF Fill, Reset, NotRunning
<1>4. CASE Publish
  (* Who held the map that was published holds it on, or the commit does.   *)
  BY <1>4 DEF Publish, Held, AfterLast
<1>5. CASE CommitDrops
  BY <1>5 DEF CommitDrops, ClearMap, ReturnMap, DeleteMap
<1>6. ASSUME NEW r \in Readers, Look(r) PROVE NoneForgotten'
  BY <1>6 DEF Look
<1>7. ASSUME NEW r \in Readers, Close(r) PROVE NoneForgotten'
  (* Unless it was the last, the map is published or another one looks.     *)
  BY <1>7 DEF Close, LastOfReader, Held, AfterLast, NotRunning
<1>8. ASSUME NEW r \in Readers, ReaderDrops(r) PROVE NoneForgotten'
  BY <1>8 DEF ReaderDrops, ClearMap, ReturnMap, DeleteMap, NotRunning
<1>9. CASE UNCHANGED bufferVars
  BY <1>9 DEF bufferVars
<1> QED
  BY <1>1, <1>2, <1>3, <1>4, <1>5, <1>6, <1>7, <1>8, <1>9 DEF BufferNext

(* The readers hold no more maps than they are.                             *)
LEMMA MapsOfReaders ==
  ASSUME NEW map \in [Readers -> Maps \cup {NoMap}]
  PROVE  /\ IsFiniteSet({map[r] : r \in Readers})
         /\ Cardinality({map[r] : r \in Readers}) <= Cardinality(Readers)
         /\ Cardinality({map[r] : r \in Readers}) \in Nat
<1> DEFINE held == {map[r] : r \in Readers}
<1>1. map \in Surjection(Readers, held)
  BY DEF Surjection
<1>2. IsFiniteSet(held) /\ Cardinality(held) <= Cardinality(Readers)
  BY <1>1, BufferAssumption, FS_Surjection
<1> QED BY <1>2, FS_CardinalityType

LEMMA BoundFollows == IInv /\ BoundInv => MapsBounded
<1> SUFFICES ASSUME IInv, BoundInv PROVE MapsBounded
  OBVIOUS
<1> DEFINE map == [r \in Readers |-> reader[r].map]
           held == {map[r] : r \in Readers}
           working == pool \cup held
           most == (working \cup {published}) \cup {commit.map}
<1>1. IsFiniteSet(pool) /\ Cardinality(pool) \in Nat /\ Cardinality(pool) <= PoolSize
  BY BufferAssumption, FS_Subset, FS_CardinalityType DEF IInv, BufferTypeOK, BoundInv, PoolFits
<1>2. /\ IsFiniteSet(held) /\ Cardinality(held) <= Cardinality(Readers)
      /\ Cardinality(held) \in Nat
  BY MapsOfReaders DEF IInv, BufferTypeOK
<1>3. alive \in SUBSET most
  BY DEF BoundInv, NoneForgotten, InUseBy
<1> HIDE DEF map, held
<1>4. /\ IsFiniteSet(working) /\ Cardinality(working) \in Nat
      /\ Cardinality(working) <= Cardinality(pool) + Cardinality(held)
  <2>1. /\ IsFiniteSet(working)
        /\ Cardinality(working)
             = Cardinality(pool) + Cardinality(held) - Cardinality(pool \cap held)
    BY <1>1, <1>2, FS_Union
  <2>2. Cardinality(pool \cap held) \in Nat
    BY <1>1, FS_Intersection, FS_CardinalityType
  <2> QED BY <1>1, <1>2, <2>1, <2>2, FS_CardinalityType
<1> HIDE DEF working
<1>5. IsFiniteSet(working \cup {published})
      /\ Cardinality(working \cup {published}) \in Nat
      /\ Cardinality(working \cup {published}) <= Cardinality(working) + 1
  BY <1>4, OneMore
<1>6. IsFiniteSet(most) /\ Cardinality(most) \in Nat
      /\ Cardinality(most) <= Cardinality(working \cup {published}) + 1
  BY <1>5, OneMore
<1> HIDE DEF most
<1>7. Cardinality(alive) \in Nat /\ Cardinality(alive) <= Cardinality(most)
  BY <1>3, <1>6, FS_Subset, FS_CardinalityType
<1>8. PoolSize \in Nat /\ Cardinality(Readers) \in Nat
  BY BufferAssumption, FS_CardinalityType
<1> QED
  BY <1>1, <1>2, <1>4, <1>5, <1>6, <1>7, <1>8 DEF MapsBounded

(* Whatever is looked at for however long, there are never more maps than   *)
(* the pool has room for, one per reader, the published one and that of a   *)
(* commit (DoubleBuffer.h:49-96).                                           *)
THEOREM MapsDoNotPileUp == BufferSpec => []MapsBounded
<1>1. BufferInit => BoundInv
  <2> SUFFICES ASSUME BufferInit PROVE BoundInv
    OBVIOUS
  <2>1. Cardinality(pool) <= PoolSize
    BY BufferAssumption DEF BufferInit
  <2>2. NoneForgotten
    BY DEF BufferInit, NoneForgotten, InUseBy
  <2> QED
    BY <2>1, <2>2 DEF BoundInv, PoolFits
<1>2. IInv /\ BoundInv /\ [BufferNext]_bufferVars => BoundInv'
  BY PoolStaysFit, NoneGetsForgotten DEF BoundInv
<1> QED
  BY <1>1, <1>2, BoundFollows, Invariance, PTL DEF BufferSpec

-----------------------------------------------------------------------------
(* The buffer implements the store: Publish is the commit, and nothing that *)
(* is done to a map is visible through another one.                         *)

LEMMA InitRefines == BufferInit => Store!Init
<1> SUFFICES ASSUME BufferInit PROVE Store!Init
  OBVIOUS
<1>1. Written = Empty
  BY DEF BufferInit, Written, NotRunning
<1>2. content[published] = Empty
  BY BufferAssumption DEF BufferInit
<1>3. Seen = [r \in Readers |-> Closed]
  BY DEF BufferInit, Seen, NotRunning
<1>4. QED
  BY <1>1, <1>2, <1>3 DEF Store!Init, Store!Empty, Empty

(* Maps worked on are neither published nor looked at, so changing one      *)
(* changes nothing that readers see.                                        *)
LEMMA UnseenMap ==
  ASSUME IInv, NEW m \in Maps, m # published,
         \A r \in Readers : reader[r].at = "looking" => reader[r].map # m,
         NEW new \in SnapshotMap, content' = [content EXCEPT ![m] = new],
         published' = published,
         \A r \in Readers : /\ reader'[r].at = "looking" <=> reader[r].at = "looking"
                            /\ reader'[r].map = reader[r].map
  PROVE  content'[published'] = content[published] /\ Seen' = Seen
<1>1. \A k \in Maps \ {m} : content'[k] = content[k]
  BY DEF IInv, BufferTypeOK
<1>2. \A r \in Readers : reader[r].at = "looking" => reader[r].map \in Maps \ {m}
  BY DEF IInv, BufferTypeOK, MapsHaveOneOwner
<1>3. QED
  BY <1>1, <1>2 DEF IInv, BufferTypeOK, Seen

LEMMA WriteRefines ==
  ASSUME IInv, NEW t \in BufferedTags, NEW v \in Values, Write(t, v) PROVE Store!Write(t, v)
  BY DEF Write, Store!Write, Written, Seen

LEMMA AcquireRefines ==
  ASSUME IInv, NEW m \in Maps, Acquire(m) PROVE UNCHANGED Store!vars
  BY DEF Acquire, Store!vars, Written, Seen

LEMMA FillRefines ==
  ASSUME IInv, Fill PROVE UNCHANGED Store!vars
<1>1. /\ commit.map \in Maps /\ commit.map # published
      /\ \A r \in Readers : reader[r].at = "looking" => reader[r].map # commit.map
  BY DEF IInv, BufferTypeOK, MapsHaveOneOwner, Fill, Working
<1>2. content'[published'] = content[published] /\ Seen' = Seen
  BY <1>1, UnseenMap DEF IInv, BufferTypeOK, Fill
<1>3. Written' = Written
  <2>1. commit'.at = "publish" /\ commit'.map = commit.map
    BY DEF Fill, IInv, BufferTypeOK
  <2>2. content'[commit.map] = writeBuffer
    BY <1>1 DEF Fill, IInv, BufferTypeOK
  <2>3. QED BY <2>1, <2>2 DEF Fill, Written
<1>4. QED
  BY <1>2, <1>3 DEF Store!vars

LEMMA PublishRefines ==
  ASSUME IInv, Publish PROVE Store!Commit
<1>1. Written' = Empty
  BY DEF Publish, Written, AfterLast
<1>2. content'[published'] = Written
  BY DEF Publish, Written
<1>3. Seen' = Seen
  BY DEF Publish, Seen
<1>4. QED
  BY <1>1, <1>2, <1>3 DEF Store!Commit, Store!Empty, Empty

LEMMA ResetRefines ==
  ASSUME IInv, Reset PROVE UNCHANGED Store!vars
  BY DEF Reset, Store!vars, Written, Seen, NotRunning, BufferAfterCommit

LEMMA CommitDropsRefines ==
  ASSUME IInv, CommitDrops PROVE UNCHANGED Store!vars
<1>1. /\ commit.map \in Maps /\ commit.map # published
      /\ \A r \in Readers : reader[r].at = "looking" => reader[r].map # commit.map
  BY DEF IInv, BufferTypeOK, MapsHaveOneOwner, CommitDrops, Working
<1>2. Written' = Written
  BY DEF CommitDrops, Written, IInv, BufferTypeOK
<1>3. CASE commit.at = "clear"
  <2>1. content' = [content EXCEPT ![commit.map] = Empty] /\ UNCHANGED <<published, reader>>
    BY <1>3 DEF CommitDrops, ClearMap
  <2>2. Empty \in SnapshotMap
    BY DEF Empty, SnapshotMap
  <2>3. QED BY <1>1, <1>2, <2>1, <2>2, UnseenMap DEF Store!vars
<1>4. CASE commit.at # "clear"
  BY <1>2, <1>4 DEF CommitDrops, ReturnMap, DeleteMap, Store!vars, Seen
<1>5. QED
  BY <1>3, <1>4

LEMMA LookRefines ==
  ASSUME IInv, NEW r \in Readers, Look(r) PROVE Store!Look(r)
<1>1. Seen[r] = Closed /\ Written' = Written
  BY DEF Look, Seen, Written
<1>2. Seen' = [Seen EXCEPT ![r] = content[published]]
  BY DEF Look, Seen, IInv, BufferTypeOK
<1>3. QED
  BY <1>1, <1>2 DEF Look, Store!Look

LEMMA CloseRefines ==
  ASSUME IInv, NEW r \in Readers, Close(r) PROVE Store!Close(r)
<1>1. Seen[r] # Closed
  BY BufferAssumption DEF Close, Seen, IInv, BufferTypeOK, MapsHaveOneOwner, SnapshotMap
<1>2. reader'[r].at # "looking" /\ \A q \in Readers \ {r} : reader'[q] = reader[q]
  BY DEF Close, AfterLast, NotRunning, IInv, BufferTypeOK
<1>3. Seen' = [Seen EXCEPT ![r] = Closed]
  <2>1. content' = content
    BY DEF Close
  <2>2. QED BY <1>2, <2>1 DEF Seen
<1>4. Written' = Written /\ content'[published'] = content[published]
  BY DEF Close, Written
<1>5. QED
  BY <1>1, <1>3, <1>4 DEF Store!Close

LEMMA ReaderDropsRefines ==
  ASSUME IInv, NEW r \in Readers, ReaderDrops(r) PROVE UNCHANGED Store!vars
<1> DEFINE m == reader[r].map
<1>1. /\ m \in Maps /\ m # published /\ (commit.at = "publish" => commit.map # m)
      /\ \A q \in Readers : reader[q].at = "looking" => reader[q].map # m
  BY DEF IInv, BufferTypeOK, MapsHaveOneOwner, ReaderDrops, Working
<1>2. CASE reader[r].at = "clear"
  <2>1. /\ content' = [content EXCEPT ![m] = Empty]
        /\ reader' = [reader EXCEPT ![r].at = "return"]
        /\ UNCHANGED <<published, commit, writeBuffer>>
    BY <1>2 DEF ReaderDrops, ClearMap
  <2>2. Empty \in SnapshotMap
    BY DEF Empty, SnapshotMap
  <2>3. \A q \in Readers : /\ reader'[q].at = "looking" <=> reader[q].at = "looking"
                           /\ reader'[q].map = reader[q].map
    BY <1>2, <2>1 DEF IInv, BufferTypeOK
  <2>4. content'[published'] = content[published] /\ Seen' = Seen
    BY <1>1, <2>1, <2>2, <2>3, UnseenMap
  <2>5. Written' = Written
    BY <1>1, <2>1 DEF IInv, BufferTypeOK, Written
  <2>6. QED BY <2>4, <2>5 DEF Store!vars
<1>3. CASE reader[r].at # "clear"
  <2>1. /\ reader' = [reader EXCEPT ![r] = NotRunning]
        /\ UNCHANGED <<content, published, commit, writeBuffer>>
    BY <1>3 DEF ReaderDrops, ReturnMap, DeleteMap
  <2>2. reader[r].at # "looking" /\ Seen' = Seen
    BY <2>1 DEF ReaderDrops, NotRunning, Seen, IInv, BufferTypeOK
  <2>3. QED BY <2>1, <2>2 DEF Store!vars, Written
<1>4. QED
  BY <1>2, <1>3

LEMMA NextRefines == IInv /\ [BufferNext]_bufferVars => [Store!Next]_(Store!vars)
<1>1. ASSUME UNCHANGED bufferVars PROVE UNCHANGED Store!vars
  BY <1>1 DEF bufferVars, Store!vars, Written, Seen
<1>2. ASSUME IInv, BufferNext PROVE [Store!Next]_(Store!vars)
  BY <1>2, WriteRefines, AcquireRefines, FillRefines, PublishRefines, ResetRefines,
     CommitDropsRefines, LookRefines, CloseRefines, ReaderDropsRefines
     DEF BufferNext, Store!Next
<1>3. QED
  BY <1>1, <1>2

(* Readers see whole commits, which do not change while they look, however  *)
(* the maps are recycled (DoubleBuffer.h:49-96).                            *)
THEOREM DoubleBufferIsSnapshotStore == BufferSpec => ImplementsStore
<1>1. QED
  BY InitRefines, NextRefines, Invariance, PTL DEF BufferSpec, ImplementsStore, Store!Spec

(* A reader that goes on looking goes on seeing the same, also while the    *)
(* parse thread commits again and other readers give maps back for reuse:   *)
(* the map behind it is neither cleared nor filled                          *)
(* (DoubleBuffer.h:49-64, 86-96).                                           *)
LookingSeesTheSame ==
  \A r \in Readers : Seen[r] # Closed /\ Seen'[r] # Closed => Seen'[r] = Seen[r]

THEOREM SnapshotsDoNotChange == BufferSpec => [][LookingSeesTheSame]_bufferVars
<1>1. IInv /\ [BufferNext]_bufferVars => [LookingSeesTheSame]_bufferVars
  <2> SUFFICES ASSUME IInv, [BufferNext]_bufferVars, NEW r \in Readers,
                      Seen[r] # Closed, Seen'[r] # Closed
               PROVE  Seen'[r] = Seen[r]
    BY DEF LookingSeesTheSame
  <2>1. CASE Seen' = Seen
    BY <2>1
  <2>2. ASSUME NEW q \in Readers, Store!Look(q) \/ Store!Close(q)
        PROVE  Seen'[r] = Seen[r]
    <3>1. q # r
      BY <2>2 DEF Store!Look, Store!Close, Seen
    <3> QED BY <2>2, <3>1 DEF Store!Look, Store!Close, Seen
  <2> QED
    BY <2>1, <2>2, NextRefines DEF Store!Next, Store!vars, Store!Write, Store!Commit
<1> QED BY <1>1, Invariance, PTL DEF BufferSpec
=============================================================================
