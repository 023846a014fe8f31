--------------------------- MODULE TagManagerProofs ---------------------------
(***************************************************************************)
(* The indexes of TagManager agree with its tags, for any ids, names and   *)
(* addresses, also when tags share their keys.  TagsInv is inductive: that *)
(* no entry leads astray needs the types only, that a tag alone with its   *)
(* key is found needs that the entries lead to tags with that key, since   *)
(* a removal clears the entry of a key whoever it belongs to.  The lists   *)
(* of the devices have no keys to collide: DeviceInv is about what         *)
(* inserting an id into its list and taking one out leave of them.         *)
(* The second part is about the log of the changes that are made to the    *)
(* parameters of the tags.                                                 *)
(***************************************************************************)
EXTENDS TagManager, ChangeLog, TLAPS

TagsInv == TagsTypeOK /\ IndexesTruthful /\ UnsharedFound

(* Without tags every index is empty.                                       *)
LEMMA EmptyIsConsistent == TagInit => TagsInv
BY TagAssumption
   DEF TagInit, TagsInv, TagsTypeOK, IndexesTruthful, UnsharedFound, Present,
       PresentIds, NoId

(* The types and the truth of the indexes survive each operation.           *)
LEMMA IndexesStayTruthful ==
  ASSUME TagsTypeOK, IndexesTruthful, [TagNext]_tagVars
  PROVE  TagsTypeOK' /\ IndexesTruthful'
<1> USE TagAssumption DEF TagsTypeOK, IndexesTruthful, Present, NoId
<1>1. ASSUME NEW id \in Ids, NEW tag \in Configs, AddTag(id, tag)
      PROVE  TagsTypeOK' /\ IndexesTruthful'
  BY <1>1 DEF AddTag, Unknown, Configs
<1>2. ASSUME NEW id \in Ids, NEW tag \in Configs, UpdateTag(id, tag)
      PROVE  TagsTypeOK' /\ IndexesTruthful'
  BY <1>2 DEF UpdateTag, Moved, Configs
<1>3. ASSUME NEW id \in Ids, RemoveTag(id)
      PROVE  TagsTypeOK' /\ IndexesTruthful'
  BY <1>3 DEF RemoveTag, Configs
<1>4. CASE Clear
  BY <1>4 DEF Clear
<1>5. CASE UNCHANGED tagVars
  BY <1>5 DEF tagVars
<1> QED BY <1>1, <1>2, <1>3, <1>4, <1>5 DEF TagNext

(* So does the presence of a tag that is alone with its key.                *)
LEMMA UnsharedStaysFound ==
  ASSUME TagsInv, [TagNext]_tagVars
  PROVE  UnsharedFound'
<1> USE TagAssumption
    DEF TagsInv, TagsTypeOK, IndexesTruthful, UnsharedFound, Present, PresentIds, NoId,
        NoteShared, SharedAfter, Users, Name, Addr
<1>1. ASSUME NEW id \in Ids, NEW tag \in Configs, AddTag(id, tag)
      PROVE  UnsharedFound'
  (* Who has the key of the new tag shares it from now on.                  *)
  BY <1>1 DEF AddTag, Unknown, Configs
<1>2. ASSUME NEW id \in Ids, NEW tag \in Configs, UpdateTag(id, tag)
      PROVE  UnsharedFound'
  (* As above for the new key; who has the old one shared it before.        *)
  BY <1>2 DEF UpdateTag, Moved, Configs
<1>3. ASSUME NEW id \in Ids, RemoveTag(id)
      PROVE  UnsharedFound'
  BY <1>3 DEF RemoveTag, Configs
<1>4. CASE Clear
  BY <1>4 DEF Clear
<1>5. CASE UNCHANGED tagVars
  BY <1>5 DEF tagVars
<1> QED BY <1>1, <1>2, <1>3, <1>4, <1>5 DEF TagNext

LEMMA TagsInvariant == TagSpec => []TagsInv
<1>1. TagInit => TagsInv
  BY EmptyIsConsistent
<1>2. TagsInv /\ [TagNext]_tagVars => TagsInv'
  BY IndexesStayTruthful, UnsharedStaysFound DEF TagsInv
<1> QED BY <1>1, <1>2, PTL DEF TagSpec

(* An entry of an index leads to a tag that is there and has the key,       *)
(* whatever was added, renamed and removed (tagmanager.cpp:12-42, 88-105).  *)
THEOREM IndexesNeverLie == TagSpec => []IndexesTruthful
BY TagsInvariant, PTL DEF TagsInv

(* A tag that never shared its name or its address is found by it           *)
(* (tagmanager.cpp:49-53, 82-86).                                           *)
THEOREM TagsAreFound == TagSpec => []UnsharedFound
BY TagsInvariant, PTL DEF TagsInv
-----------------------------------------------------------------------------
(* The device index.  Inductive are its type and that every device lists    *)
(* exactly its tags, each once: since an id is listed once, the first place *)
(* where RemoveFirst finds it is the only one.                              *)
DeviceInv ==
  /\ TagsTypeOK /\ deviceIndex \in [Devices -> Seq(Ids)]
  /\ DeviceIndexExact

LEMMA SmallestOfOne ==
  ASSUME NEW k \in Int
  PROVE  Min({k}) = k
BY DEF Min

LEMMA RemoveFirstIsThatPlace ==
  ASSUME NEW s \in Seq(Ids), NEW k \in 1 .. Len(s), IsInjective(s)
  PROVE  RemoveFirst(s, s[k]) = SubSeq(s, 1, k - 1) \o SubSeq(s, k + 1, Len(s))
<1> DEFINE places == {i \in 1 .. Len(s) : s[i] = s[k]}
<1>1. places = {k}
  BY DEF IsInjective
<1>2. SelectInSeq(s, LAMBDA v : v = s[k]) = Min(places)
  BY <1>1 DEF SelectInSeq
<1>3. @ = k
  BY <1>1, SmallestOfOne
<1> QED BY <1>2, <1>3 DEF RemoveFirst, RemoveAt

(* A sequence without the entry at k.                                       *)
LEMMA AllButOne ==
  ASSUME NEW S, NEW s \in Seq(S), NEW k \in 1 .. Len(s),
         NEW r, r = SubSeq(s, 1, k - 1) \o SubSeq(s, k + 1, Len(s))
  PROVE  /\ r \in Seq(S) /\ Len(r) = Len(s) - 1
         /\ \A i \in 1 .. Len(r) : r[i] = IF i < k THEN s[i] ELSE s[i + 1]
<1> DEFINE before == SubSeq(s, 1, k - 1)
           after == SubSeq(s, k + 1, Len(s))
<1>1. Len(s) \in Nat /\ \A i \in 1 .. Len(s) : s[i] \in S
  OBVIOUS
<1>2. /\ before \in Seq(S) /\ Len(before) = k - 1
      /\ \A i \in 1 .. k - 1 : before[i] = s[i]
  BY <1>1
<1>3. /\ after \in Seq(S) /\ Len(after) = Len(s) - k
      /\ \A i \in 1 .. Len(s) - k : after[i] = s[i + k]
  BY <1>1
<1> HIDE DEF before, after
<1>4. /\ before \o after \in Seq(S) /\ Len(before \o after) = Len(s) - 1
      /\ \A i \in 1 .. Len(s) - 1 :
           (before \o after)[i] = IF i <= k - 1 THEN before[i] ELSE after[i - (k - 1)]
  BY <1>1, <1>2, <1>3
<1>5. ASSUME NEW i \in 1 .. Len(s) - 1
      PROVE  (before \o after)[i] = IF i < k THEN s[i] ELSE s[i + 1]
  <2>1. CASE i < k
    BY <1>1, <1>2, <1>4, <2>1
  <2>2. CASE ~ (i < k)
    <3>1. i - (k - 1) \in 1 .. Len(s) - k /\ i - (k - 1) + k = i + 1
      BY <1>1, <2>2
    <3> QED BY <1>1, <1>3, <1>4, <2>2, <3>1
  <2> QED BY <2>1, <2>2
<1> QED BY <1>4, <1>5 DEF before, after

(* Without the entry at k the others are there, each once.                  *)
LEMMA WithoutOne ==
  ASSUME NEW s \in Seq(Ids), NEW k \in 1 .. Len(s), IsInjective(s)
  PROVE  /\ RemoveFirst(s, s[k]) \in Seq(Ids)
         /\ ToSet(RemoveFirst(s, s[k])) = ToSet(s) \ {s[k]}
         /\ IsInjective(RemoveFirst(s, s[k]))
<1> DEFINE r == RemoveFirst(s, s[k])
<1>1. r = SubSeq(s, 1, k - 1) \o SubSeq(s, k + 1, Len(s))
  BY RemoveFirstIsThatPlace
<1> HIDE DEF r
<1>2. /\ r \in Seq(Ids) /\ Len(r) = Len(s) - 1
      /\ \A i \in 1 .. Len(r) : r[i] = IF i < k THEN s[i] ELSE s[i + 1]
  BY <1>1, AllButOne
<1>3. DOMAIN r = 1 .. Len(s) - 1 /\ DOMAIN s = 1 .. Len(s) /\ Len(s) \in Nat
  BY <1>2
<1>4. IsInjective(r)
  <2> SUFFICES ASSUME NEW i \in DOMAIN r, NEW j \in DOMAIN r, r[i] = r[j], i < j
               PROVE  FALSE
    BY <1>3 DEF IsInjective
  <2> DEFINE from(n) == IF n < k THEN n ELSE n + 1
  <2>1. from(i) \in DOMAIN s /\ from(j) \in DOMAIN s /\ from(i) # from(j)
    BY <1>3
  <2>2. r[i] = s[from(i)] /\ r[j] = s[from(j)]
    BY <1>2, <1>3
  <2> QED BY <2>1, <2>2 DEF IsInjective
<1>5. ASSUME NEW i \in DOMAIN r PROVE r[i] \in ToSet(s) \ {s[k]}
  <2>1. CASE i < k
    BY <1>2, <1>3, <2>1 DEF ToSet, IsInjective
  <2>2. CASE ~ (i < k)
    <3>1. i + 1 \in DOMAIN s /\ i + 1 # k /\ r[i] = s[i + 1]
      BY <1>2, <1>3, <2>2
    <3> QED BY <1>3, <3>1 DEF ToSet, IsInjective
  <2> QED BY <2>1, <2>2
<1>6. ASSUME NEW i \in DOMAIN s, s[i] # s[k] PROVE s[i] \in ToSet(r)
  <2>1. CASE i < k
    BY <1>2, <1>3, <2>1 DEF ToSet
  <2>2. CASE i > k
    <3>1. i - 1 \in DOMAIN r /\ r[i - 1] = s[i]
      BY <1>2, <1>3, <2>2
    <3> QED BY <3>1 DEF ToSet
  <2> QED BY <1>3, <1>6, <2>1, <2>2
<1>7. ToSet(r) = ToSet(s) \ {s[k]}
  BY <1>5, <1>6 DEF ToSet
<1> QED BY <1>2, <1>4, <1>7 DEF r

LEMMA WithOneMore ==
  ASSUME NEW s \in Seq(Ids), NEW id \in Ids, IsInjective(s), id \notin ToSet(s)
  PROVE  /\ Append(s, id) \in Seq(Ids)
         /\ ToSet(Append(s, id)) = ToSet(s) \cup {id}
         /\ IsInjective(Append(s, id))
<1> DEFINE r == Append(s, id)
<1>1. /\ r \in Seq(Ids) /\ DOMAIN s = 1 .. Len(s) /\ Len(s) \in Nat
      /\ DOMAIN r = 1 .. Len(s) + 1 /\ r[Len(s) + 1] = id
      /\ \A i \in 1 .. Len(s) : r[i] = s[i]
  OBVIOUS
<1> HIDE DEF r
<1>2. \A i \in DOMAIN s : s[i] # id
  BY DEF ToSet
<1>3. \A i \in DOMAIN r : i \in DOMAIN s \/ i = Len(s) + 1
  BY <1>1
<1>4. IsInjective(r)
  BY <1>1, <1>2, <1>3 DEF IsInjective
<1>5. ToSet(r) = ToSet(s) \cup {id}
  BY <1>1, <1>3 DEF ToSet
<1> QED BY <1>1, <1>4, <1>5 DEF r

(* An operation on one id changes the list of its device only.              *)
LEMMA OneDeviceChanges ==
  ASSUME DeviceInv, TagsTypeOK', NEW id \in Ids, NEW list \in Seq(Ids),
         deviceIndex' = [deviceIndex EXCEPT ![Device(id)] = list],
         IsInjective(list),
         ToSet(list) = {i \in Ids : tags'[i] # NoTag /\ Device(i) = Device(id)},
         \A i \in Ids \ {id} : tags'[i] = tags[i]
  PROVE  DeviceInv'
<1>1. deviceIndex' \in [Devices -> Seq(Ids)] /\ Device(id) \in Devices
  BY DEF DeviceInv, Devices
<1>2. ASSUME NEW d \in Devices
      PROVE  /\ ToSet(deviceIndex'[d]) = {i \in Ids : tags'[i] # NoTag /\ Device(i) = d}
             /\ IsInjective(deviceIndex'[d])
  <2>1. CASE d = Device(id)
    BY <1>1, <2>1 DEF DeviceInv
  <2>2. CASE d # Device(id)
    <3>1. deviceIndex'[d] = deviceIndex[d]
      BY <1>1, <2>2 DEF DeviceInv
    <3>2. /\ ToSet(deviceIndex[d]) = {i \in Ids : tags[i] # NoTag /\ Device(i) = d}
          /\ IsInjective(deviceIndex[d])
      BY DEF DeviceInv, DeviceIndexExact, PresentIds, Present
    <3> QED BY <2>2, <3>1, <3>2
  <2> QED BY <2>1, <2>2
<1>3. DeviceIndexExact'
  BY <1>2 DEF DeviceIndexExact, PresentIds, Present
<1> QED BY <1>1, <1>3 DEF DeviceInv

LEMMA DeviceListOf ==
  ASSUME DeviceInv, NEW id \in Ids
  PROVE  /\ deviceIndex[Device(id)] \in Seq(Ids) /\ IsInjective(deviceIndex[Device(id)])
         /\ ToSet(deviceIndex[Device(id)])
              = {i \in Ids : tags[i] # NoTag /\ Device(i) = Device(id)}
BY DEF DeviceInv, DeviceIndexExact, PresentIds, Present, Devices

LEMMA AddKeepsDevices ==
  ASSUME DeviceInv, TagsTypeOK', NEW id \in Ids, NEW tag \in Configs, AddTag(id, tag)
  PROVE  DeviceInv'
<1> DEFINE s == deviceIndex[Device(id)]
           list == Append(s, id)
<1>1. /\ s \in Seq(Ids) /\ IsInjective(s)
      /\ ToSet(s) = {i \in Ids : tags[i] # NoTag /\ Device(i) = Device(id)}
  BY DeviceListOf
<1>2. tags[id] = NoTag /\ tags' = [tags EXCEPT ![id] = tag] /\ tag # NoTag
      /\ deviceIndex' = [deviceIndex EXCEPT ![Device(id)] = list]
  BY TagAssumption DEF AddTag, Unknown, Present
<1> HIDE DEF s
<1>3. list \in Seq(Ids) /\ IsInjective(list) /\ ToSet(list) = ToSet(s) \cup {id}
  BY <1>1, <1>2, WithOneMore
<1> HIDE DEF list
<1>4. tags'[id] = tag /\ \A i \in Ids \ {id} : tags'[i] = tags[i]
  BY <1>2 DEF DeviceInv, TagsTypeOK
<1>5. ToSet(list) = {i \in Ids : tags'[i] # NoTag /\ Device(i) = Device(id)}
  BY <1>1, <1>2, <1>3, <1>4
<1> QED BY <1>2, <1>3, <1>4, <1>5, OneDeviceChanges

LEMMA RemoveKeepsDevices ==
  ASSUME DeviceInv, TagsTypeOK', NEW id \in Ids, RemoveTag(id)
  PROVE  DeviceInv'
<1> DEFINE s == deviceIndex[Device(id)]
           list == RemoveFirst(s, id)
<1>1. /\ s \in Seq(Ids) /\ IsInjective(s)
      /\ ToSet(s) = {i \in Ids : tags[i] # NoTag /\ Device(i) = Device(id)}
  BY DeviceListOf
<1>2. tags[id] # NoTag /\ tags' = [tags EXCEPT ![id] = NoTag]
      /\ deviceIndex' = [deviceIndex EXCEPT ![Device(id)] = list]
  BY DEF RemoveTag, Present
<1> HIDE DEF s
<1>3. PICK k \in 1 .. Len(s) : s[k] = id
  BY <1>1, <1>2 DEF ToSet
<1>4. list \in Seq(Ids) /\ IsInjective(list) /\ ToSet(list) = ToSet(s) \ {id}
  BY <1>1, <1>3, WithoutOne
<1> HIDE DEF list
<1>5. tags'[id] = NoTag /\ \A i \in Ids \ {id} : tags'[i] = tags[i]
  BY <1>2 DEF DeviceInv, TagsTypeOK
<1>6. ToSet(list) = {i \in Ids : tags'[i] # NoTag /\ Device(i) = Device(id)}
  BY <1>1, <1>4, <1>5
<1> QED BY <1>2, <1>4, <1>5, <1>6, OneDeviceChanges

(* Without tags the lists are empty.                                        *)
LEMMA NoTagsNoLists ==
  ASSUME TagsTypeOK, \A id \in Ids : tags[id] = NoTag,
         deviceIndex = [d \in Devices |-> << >>]
  PROVE  DeviceInv
<1>1. ToSet(<< >>) = {} /\ IsInjective(<< >>) /\ << >> \in Seq(Ids)
  BY DEF ToSet, IsInjective
<1> QED BY <1>1 DEF DeviceInv, DeviceIndexExact, PresentIds, Present

(* The list of a device has its tags, each once, whatever is added and      *)
(* removed (tagmanager.cpp:18-36, 139-144).                                 *)
THEOREM DevicesListTheirTags == TagSpec => []DeviceIndexExact
<1>1. TagInit => DeviceInv
  BY EmptyIsConsistent, NoTagsNoLists DEF TagInit, TagsInv
<1>2. DeviceInv /\ IndexesTruthful /\ [TagNext]_tagVars => DeviceInv'
  <2> SUFFICES ASSUME DeviceInv, IndexesTruthful, [TagNext]_tagVars PROVE DeviceInv'
    OBVIOUS
  <2>1. TagsTypeOK'
    BY IndexesStayTruthful DEF DeviceInv
  <2>2. ASSUME NEW id \in Ids, NEW tag \in Configs, UpdateTag(id, tag) PROVE DeviceInv'
    (* The tag is present before and after, and no list changes.            *)
    <3>1. deviceIndex' = deviceIndex /\ tags[id] # NoTag /\ tag # NoTag
          /\ tags' = [tags EXCEPT ![id] = tag]
      BY <2>2, TagAssumption DEF UpdateTag, Present
    <3>2. \A i \in Ids : tags'[i] # NoTag <=> tags[i] # NoTag
      BY <3>1 DEF DeviceInv, TagsTypeOK
    <3> QED BY <2>1, <3>1, <3>2 DEF DeviceInv, DeviceIndexExact, PresentIds, Present
  <2>3. CASE Clear
    <3>1. deviceIndex' = [d \in Devices |-> << >>] /\ \A id \in Ids : tags'[id] = NoTag
      BY <2>3 DEF Clear
    <3>2. ToSet(<< >>) = {} /\ IsInjective(<< >>) /\ << >> \in Seq(Ids)
      BY DEF ToSet, IsInjective
    <3> QED BY <2>1, <3>1, <3>2 DEF DeviceInv, DeviceIndexExact, PresentIds, Present
  <2>4. CASE UNCHANGED tagVars
    BY <2>1, <2>4 DEF tagVars, DeviceInv, DeviceIndexExact, PresentIds, Present
  <2> QED
    BY <2>1, <2>2, <2>3, <2>4, AddKeepsDevices, RemoveKeepsDevices DEF TagNext
<1> QED
  BY <1>1, <1>2, IndexesNeverLie, PTL DEF TagSpec, DeviceInv

-----------------------------------------------------------------------------
(* The log of parameter changes.                                            *)

Chained == FloatFields \cup {"priority"}

Entries == [tag : KnownTags \cup UnknownTags, field : Fields \cup OtherFields \cup {"priority"},
            old : Int, new : Int, approved : BOOLEAN]

Logs == {records \in Seq(Entries) : Len(records) <= MaxChanges}

ChangeTypeOK ==
  /\ parameter \in [KnownTags -> [Fields \cup {"priority"} -> Nat]]
  /\ changes \in Logs /\ onDisk \in [readable : BOOLEAN, records : Logs]
  /\ own \in 0 .. Len(changes)

(* One place after the other in the log of a tag and a field.               *)
Follows(i, j, places) == i < j /\ \A k \in places : ~ (i < k /\ k < j)

StoryOf(t, f) ==
  /\ \A i, j \in Places(t, f) : Follows(i, j, Places(t, f)) => changes[i].old = changes[j].new
  /\ \A i \in Places(t, f) :
       (\A k \in Places(t, f) : i <= k) => changes[i].new = Display(f, parameter[t][f])

LEMMA StoriesChain == ChangesChained <=> \A t \in KnownTags, f \in Chained : StoryOf(t, f)
BY DEF ChangesChained, StoryOf, Follows, Chained

LEMMA StoriesChainNext ==
  ChangesChained' <=> \A t \in KnownTags, f \in Chained : StoryOf(t, f)'
BY DEF ChangesChained, StoryOf, Follows, Chained

LEMMA LogLengths ==
  ASSUME NEW records \in Logs
  PROVE  records \in Seq(Entries) /\ Len(records) \in Nat /\ Len(records) <= MaxChanges
BY DEF Logs

LEMMA OwnIsNumber == ChangeTypeOK => own \in Nat /\ own \in 0 .. own /\ 0 \in 0 .. own
BY LogLengths DEF ChangeTypeOK

LEMMA ShownWhole ==
  ASSUME NEW value \in Nat
  PROVE  Shown(value) \in Int /\ Whole(value) \in Nat
<1>1. value \div 100 \in Nat /\ (value + 5) \div 10 \in Int
  OBVIOUS
<1> QED BY <1>1 DEF Shown, Whole

(* A new record is the first, the others move on by one place, and the last *)
(* may leave.                                                               *)
LEMMA NewRecord ==
  ASSUME ChangeTypeOK, NEW t \in KnownTags \cup UnknownTags,
         NEW f \in Fields \cup OtherFields \cup {"priority"},
         NEW old \in Int, NEW new \in Int, RecordChange(t, f, old, new)
  PROVE  /\ changes' \in Logs /\ own' \in 0 .. Len(changes')
         /\ own' \in Nat /\ own' >= 1 /\ own' <= own + 1
         /\ changes'[1] = [tag |-> t, field |-> f, old |-> old, new |-> new, approved |-> FALSE]
         /\ \A j \in 2 .. own' : changes'[j] = changes[j - 1]
<1> DEFINE entry == [tag |-> t, field |-> f, old |-> old, new |-> new, approved |-> FALSE]
           longer == <<entry>> \o changes
<1>1. MaxChanges \in Nat \ {0}
  BY ChangeAssumption
<1>2. entry \in Entries /\ changes \in Seq(Entries) /\ Len(changes) <= MaxChanges
      /\ Len(changes) \in Nat /\ own \in 0 .. Len(changes) /\ own \in Nat
  BY LogLengths, OwnIsNumber DEF ChangeTypeOK, Entries
<1>3. changes' = IF Len(longer) > MaxChanges THEN SubSeq(longer, 1, MaxChanges) ELSE longer
  BY DEF RecordChange, DropOldest
<1>4. own' = IF own < MaxChanges THEN own + 1 ELSE own
  BY DEF RecordChange
<1> HIDE DEF entry
<1>5. /\ longer \in Seq(Entries) /\ Len(longer) = Len(changes) + 1
      /\ longer[1] = entry
      /\ \A j \in 2 .. Len(longer) : longer[j] = changes[j - 1]
  BY <1>2
<1> HIDE DEF longer
<1>6. CASE Len(longer) > MaxChanges
  <2>1. /\ changes' \in Seq(Entries) /\ Len(changes') = MaxChanges
        /\ \A j \in 1 .. MaxChanges : changes'[j] = longer[j]
    BY <1>1, <1>3, <1>5, <1>6
  <2>2. own' \in 0 .. Len(changes') /\ own' \in Nat /\ own' >= 1 /\ own' <= own + 1
    BY <1>1, <1>2, <1>4, <1>5, <1>6, <2>1
  <2>3. 1 \in 1 .. MaxChanges /\ \A j \in 2 .. own' : j \in 1 .. MaxChanges /\ j \in 2 .. Len(longer)
    BY <1>1, <1>2, <1>5, <2>1, <2>2
  <2>4. changes' \in Logs
    BY <1>1, <2>1 DEF Logs
  <2>5. changes'[1] = entry
    BY <1>5, <2>1, <2>3
  <2>6. \A j \in 2 .. own' : changes'[j] = changes[j - 1]
    BY <1>5, <2>1, <2>3
  <2> QED BY <2>2, <2>4, <2>5, <2>6 DEF entry
<1>7. CASE ~ (Len(longer) > MaxChanges)
  <2>1. changes' = longer
    BY <1>3, <1>7
  <2>2. own' \in 0 .. Len(changes') /\ own' \in Nat /\ own' >= 1 /\ own' <= own + 1
    BY <1>1, <1>2, <1>4, <1>5, <1>7, <2>1
  <2>3. \A j \in 2 .. own' : j \in 2 .. Len(longer)
    BY <1>2, <1>5, <2>1, <2>2
  <2>4. Len(longer) <= MaxChanges
    BY <1>1, <1>2, <1>5, <1>7
  <2> QED BY <1>5, <2>1, <2>2, <2>3, <2>4 DEF Logs, entry
<1> QED BY <1>6, <1>7

(* The story of a tag and a field goes on when a record of them goes on     *)
(* from what the tag had, and is not touched by one of others.              *)
LEMMA StoryGoesOn ==
  ASSUME ChangeTypeOK, NEW u \in KnownTags, NEW g \in Chained, StoryOf(u, g),
         NEW t \in KnownTags \cup UnknownTags,
         NEW f \in Fields \cup OtherFields \cup {"priority"},
         NEW old \in Int, NEW new \in Int, RecordChange(t, f, old, new),
         t = u /\ f = g => /\ old = Display(g, parameter[u][g])
                           /\ new = Display(g, parameter'[u][g]),
         t # u \/ f # g => parameter'[u][g] = parameter[u][g]
  PROVE  StoryOf(u, g)'
<1> DEFINE mine == t = u /\ f = g
           before == Places(u, g)
           after == Places(u, g)'
<1>1. /\ own' \in Nat /\ own \in Nat /\ own' >= 1 /\ own' <= own + 1
      /\ changes'[1].tag = t /\ changes'[1].field = f
      /\ changes'[1].old = old /\ changes'[1].new = new
      /\ \A j \in 2 .. own' : changes'[j] = changes[j - 1]
  <2>1. changes'[1] = [tag |-> t, field |-> f, old |-> old, new |-> new, approved |-> FALSE]
    BY NewRecord
  <2> QED BY <2>1, NewRecord, OwnIsNumber
<1>2. after = {i \in 1 .. own' : changes'[i].tag = u /\ changes'[i].field = g}
  BY DEF Places
<1>3. before = {i \in 1 .. own : changes[i].tag = u /\ changes[i].field = g}
  BY DEF Places
<1>4. 1 \in after <=> mine
  BY <1>1, <1>2
<1>5. \A i \in 2 .. own' : i \in after <=> i - 1 \in before
  BY <1>1, <1>2, <1>3
<1>6. after \subseteq 1 .. own' /\ before \subseteq 1 .. own
  BY <1>2, <1>3
<1>7. \A i, j \in before : Follows(i, j, before) => changes[i].old = changes[j].new
  BY DEF StoryOf
<1>8. \A i \in before : (\A k \in before : i <= k) => changes[i].new = Display(g, parameter[u][g])
  BY DEF StoryOf
<1> HIDE DEF before, after
<1>9. ASSUME NEW i \in after, NEW j \in after, Follows(i, j, after)
      PROVE  changes'[i].old = changes'[j].new
  <2>1. i \in 1 .. own' /\ j \in 2 .. own' /\ i < j
    BY <1>1, <1>6, <1>9 DEF Follows
  <2>2. j - 1 \in before /\ changes'[j] = changes[j - 1]
    BY <1>1, <1>5, <2>1
  <2>3. CASE i = 1
    <3>1. \A k \in before : j - 1 <= k
      <4> SUFFICES ASSUME NEW k \in before, k < j - 1 PROVE FALSE
        BY <1>1, <1>6, <2>1
      <4>1. k + 1 \in 2 .. own' /\ (k + 1) - 1 = k
        BY <1>1, <1>6, <2>1
      <4>2. k + 1 \in after
        BY <1>5, <4>1
      <4> QED BY <1>6, <1>9, <2>3, <2>1, <4>1, <4>2 DEF Follows
    <3> QED BY <1>1, <1>4, <1>8, <2>2, <2>3, <3>1
  <2>4. CASE i # 1
    <3>1. i \in 2 .. own' /\ i - 1 \in before /\ changes'[i] = changes[i - 1]
      BY <1>1, <1>5, <2>1, <2>4
    <3>2. Follows(i - 1, j - 1, before)
      <4> SUFFICES ASSUME NEW k \in before, i - 1 < k, k < j - 1 PROVE FALSE
        BY <2>1 DEF Follows
      <4>1. k + 1 \in 2 .. own' /\ (k + 1) - 1 = k /\ i < k + 1 /\ k + 1 < j
        BY <1>1, <1>6, <2>1
      <4>2. k + 1 \in after
        BY <1>5, <4>1
      <4> QED BY <1>9, <4>1, <4>2 DEF Follows
    <3> QED BY <1>7, <2>2, <3>1, <3>2
  <2> QED BY <2>3, <2>4
<1>10. ASSUME NEW i \in after, \A k \in after : i <= k
       PROVE  changes'[i].new = Display(g, parameter'[u][g])
  <2>1. CASE i = 1
    BY <1>1, <1>4, <1>10, <2>1
  <2>2. CASE i # 1
    <3>1. i \in 2 .. own'
      BY <1>1, <1>6, <2>2
    <3>2. i - 1 \in before /\ changes'[i] = changes[i - 1]
      BY <1>1, <1>5, <3>1
    <3>3. \A k \in before : i - 1 <= k
      <4>3. i \in Nat /\ before \subseteq Nat
        BY <1>1, <1>6, <3>1
      <4> SUFFICES ASSUME NEW k \in before, k < i - 1 PROVE FALSE
        BY <4>3
      <4>1. k + 1 \in 2 .. own' /\ (k + 1) - 1 = k /\ k + 1 < i
        BY <1>1, <1>6, <3>1
      <4>2. k + 1 \in after
        BY <1>5, <4>1
      <4> QED BY <1>10, <1>6, <3>1, <4>1, <4>2
    <3>4. ~ mine
      <4>1. 1 \notin after
        BY <1>1, <1>10, <3>1
      <4> QED BY <1>4, <4>1
    <3> QED BY <1>8, <3>2, <3>3, <3>4
  <2> QED BY <2>1, <2>2
<1> QED BY <1>9, <1>10 DEF StoryOf, after

(* Only the length of the present story and the tags, fields and values in  *)
(* it matter.                                                               *)
LEMMA SameStory ==
  ASSUME ChangeTypeOK, ChangesChained, parameter' = parameter, own' \in 0 .. own,
         own' = own \/ own' = 0,
         own' # 0 => \A i \in 1 .. own :
           /\ changes'[i].tag = changes[i].tag /\ changes'[i].field = changes[i].field
           /\ changes'[i].old = changes[i].old /\ changes'[i].new = changes[i].new
  PROVE  ChangesChained'
<1> SUFFICES ASSUME NEW t \in KnownTags, NEW f \in Chained PROVE StoryOf(t, f)'
  BY StoriesChainNext
<1>1. StoryOf(t, f)
  BY StoriesChain
<1>2. CASE own' = 0
  <2>1. Places(t, f)' = {}
    BY <1>2 DEF Places
  <2> QED BY <2>1 DEF StoryOf
<1>3. CASE own' = own /\ own' # 0
  <2>1. Places(t, f)' = Places(t, f) /\ Places(t, f) \subseteq 1 .. own
    BY <1>3 DEF Places
  <2> QED BY <1>1, <1>3, <2>1 DEF StoryOf
<1> QED BY <1>2, <1>3 DEF ChangeTypeOK

LEMMA LimitStep ==
  ASSUME ChangeTypeOK, ChangesChained, NEW t \in KnownTags \cup UnknownTags,
         NEW f \in Fields \cup OtherFields, NEW value \in Entered, SetAlarmLimit(t, f, value)
  PROVE  ChangeTypeOK' /\ ChangesChained'
<1> DEFINE old == IF f \in Fields THEN Shown(ParameterOf(t, f)) ELSE 0
           kept == IF f \in DelayFields THEN Whole(value) ELSE value
<1>1. value \in Nat /\ Shown(value) \in Int /\ kept \in Nat
  BY ShownWhole, ChangeAssumption
<1>2. old \in Int
  <2>1. f \in Fields => ParameterOf(t, f) \in Nat
    BY DEF ParameterOf, ChangeTypeOK
  <2> QED BY <2>1, ShownWhole
<1>3. RecordChange(t, f, old, Shown(value)) /\ onDisk' = onDisk
  BY DEF SetAlarmLimit
<1>4. parameter' = IF f \in Fields /\ t \in KnownTags
                   THEN [parameter EXCEPT ![t][f] = kept] ELSE parameter
  BY DEF SetAlarmLimit, Assign
<1> HIDE DEF old, kept
<1>5. ChangeTypeOK'
  <2>1. changes' \in Logs /\ own' \in 0 .. Len(changes')
    BY <1>1, <1>2, <1>3, NewRecord
  <2>2. parameter' \in [KnownTags -> [Fields \cup {"priority"} -> Nat]]
    BY <1>1, <1>4 DEF ChangeTypeOK
  <2> QED BY <1>3, <2>1, <2>2 DEF ChangeTypeOK
<1>6. ASSUME NEW u \in KnownTags, NEW g \in Chained PROVE StoryOf(u, g)'
  <2>1. StoryOf(u, g)
    BY StoriesChain
  <2>2. t # u \/ f # g => parameter'[u][g] = parameter[u][g]
    BY <1>4 DEF ChangeTypeOK
  <2>3. ASSUME t = u, f = g
        PROVE  old = Display(g, parameter[u][g]) /\ Shown(value) = Display(g, parameter'[u][g])
    <3>1. g \in FloatFields /\ g # "priority" /\ f \in Fields /\ f \notin DelayFields
      BY <2>3, ChangeAssumption DEF Chained, Fields
    <3>2. old = Shown(parameter[u][g]) /\ kept = value
      BY <2>3, <3>1 DEF old, kept, ParameterOf
    <3>3. parameter'[u][g] = value
      BY <1>4, <2>3, <3>1, <3>2 DEF ChangeTypeOK
    <3> QED BY <3>1, <3>2, <3>3 DEF Display
  <2> QED BY <1>1, <1>2, <1>3, <2>1, <2>2, <2>3, StoryGoesOn
<1> QED BY <1>5, <1>6, StoriesChainNext

LEMMA PriorityStep ==
  ASSUME ChangeTypeOK, ChangesChained, NEW t \in KnownTags \cup UnknownTags,
         NEW priority \in Priorities, SetAlarmPriority(t, priority)
  PROVE  ChangeTypeOK' /\ ChangesChained'
<1>1. priority \in Nat /\ ParameterOf(t, "priority") \in Nat
  BY ChangeAssumption DEF ParameterOf, ChangeTypeOK
<1>2. RecordChange(t, "priority", ParameterOf(t, "priority"), priority) /\ onDisk' = onDisk
  BY DEF SetAlarmPriority
<1>3. parameter' = IF t \in KnownTags
                   THEN [parameter EXCEPT ![t]["priority"] = priority] ELSE parameter
  BY DEF SetAlarmPriority, Assign
<1>4. ChangeTypeOK'
  <2>1. changes' \in Logs /\ own' \in 0 .. Len(changes')
    <3>1. priority \in Int /\ ParameterOf(t, "priority") \in Int
      BY <1>1
    <3> QED BY <1>2, <3>1, NewRecord
  <2>2. parameter' \in [KnownTags -> [Fields \cup {"priority"} -> Nat]]
    BY <1>1, <1>3 DEF ChangeTypeOK
  <2> QED BY <1>2, <2>1, <2>2 DEF ChangeTypeOK
<1>5. ASSUME NEW u \in KnownTags, NEW g \in Chained PROVE StoryOf(u, g)'
  <2>1. StoryOf(u, g)
    BY StoriesChain
  <2>2. t # u \/ "priority" # g => parameter'[u][g] = parameter[u][g]
    BY <1>3 DEF ChangeTypeOK
  <2>3. t = u /\ "priority" = g => /\ ParameterOf(t, "priority") = Display(g, parameter[u][g])
                                   /\ priority = Display(g, parameter'[u][g])
    BY <1>3 DEF ParameterOf, Display, ChangeTypeOK
  <2> QED BY <1>1, <1>2, <2>1, <2>2, <2>3, StoryGoesOn
<1> QED BY <1>4, <1>5, StoriesChainNext

LEMMA ApproveStep ==
  ASSUME ChangeTypeOK, ChangesChained, NEW i \in Nat, Approve(i)
  PROVE  ChangeTypeOK' /\ ChangesChained'
<1>1. /\ changes \in Seq(Entries) /\ i \in 1 .. Len(changes)
      /\ changes' = [changes EXCEPT ![i].approved = TRUE]
      /\ parameter' = parameter /\ own' = own /\ onDisk' = onDisk
  BY DEF Approve, ChangeTypeOK, Logs
<1>2. [changes[i] EXCEPT !.approved = TRUE] \in Entries
  <2>1. changes[i] \in Entries
    BY <1>1
  <2> QED BY <2>1 DEF Entries
<1>3. changes' \in Seq(Entries) /\ Len(changes') = Len(changes)
  BY <1>1, <1>2
<1>4. \A j \in 1 .. Len(changes) :
        /\ changes'[j].tag = changes[j].tag /\ changes'[j].field = changes[j].field
        /\ changes'[j].old = changes[j].old /\ changes'[j].new = changes[j].new
  <2> SUFFICES ASSUME NEW j \in 1 .. Len(changes)
               PROVE  /\ changes'[j].tag = changes[j].tag /\ changes'[j].field = changes[j].field
                      /\ changes'[j].old = changes[j].old /\ changes'[j].new = changes[j].new
    OBVIOUS
  <2>1. CASE j # i
    <3>1. changes'[j] = changes[j]
      BY <1>1, <2>1
    <3> QED BY <3>1
  <2>2. CASE j = i
    <3>1. changes[i] \in Entries /\ DOMAIN changes = 1 .. Len(changes)
      BY <1>1
    <3>2. changes'[i] = [changes[i] EXCEPT !.approved = TRUE]
      BY <1>1, <3>1
    <3> QED BY <2>2, <3>1, <3>2 DEF Entries
  <2> QED BY <2>1, <2>2
<1>5. ChangeTypeOK'
  BY <1>1, <1>3 DEF ChangeTypeOK, Logs
<1>6. own \in 0 .. own /\ 1 .. own \subseteq 1 .. Len(changes)
  BY LogLengths, OwnIsNumber DEF ChangeTypeOK
<1> QED BY <1>1, <1>4, <1>5, <1>6, SameStory

(* The change log tells one story of every limit and of the priority, for   *)
(* any tags and fields, any number of changes and any number of records     *)
(* kept (AlarmEngine.cpp:572-630, alarmchangelog.cpp:13-22).                *)
THEOREM LimitsKeepTheirStory == ChangeSpec => []ChangesChained
<1>1. ChangeInit => ChangeTypeOK /\ ChangesChained
  <2> SUFFICES ASSUME ChangeInit PROVE ChangeTypeOK /\ ChangesChained
    OBVIOUS
  <2>1. << >> \in Logs
    BY ChangeAssumption DEF Logs
  <2>2. ChangeTypeOK
    BY <2>1 DEF ChangeInit, ChangeTypeOK, NoFile
  <2>3. \A t, f : Places(t, f) = {}
    BY DEF ChangeInit, Places
  <2> QED BY <2>2, <2>3 DEF ChangesChained
<1>2. ChangeTypeOK /\ ChangesChained /\ [ChangeNext]_changeVars
      => ChangeTypeOK' /\ ChangesChained'
  <2> SUFFICES ASSUME ChangeTypeOK, ChangesChained, [ChangeNext]_changeVars
               PROVE  ChangeTypeOK' /\ ChangesChained'
    OBVIOUS
  <2>1. CASE SaveToFile
    <3>1. parameter' = parameter /\ changes' = changes /\ own' = own
          /\ onDisk' \in [readable : BOOLEAN, records : Logs]
      <4>1. << >> \in Logs
        BY ChangeAssumption DEF Logs
      <4>2. [readable |-> TRUE, records |-> changes] \in [readable : BOOLEAN, records : Logs]
            /\ NoFile \in [readable : BOOLEAN, records : Logs]
        BY <4>1 DEF NoFile, ChangeTypeOK
      <4> QED BY <2>1, <4>2 DEF SaveToFile
    <3>2. ChangeTypeOK'
      BY <3>1 DEF ChangeTypeOK
    <3> QED BY <3>1, <3>2, OwnIsNumber, SameStory
  <2>2. CASE LoadFromFile
    <3>1. parameter' = parameter /\ changes' \in Logs /\ own' = 0 /\ onDisk' = onDisk
      BY <2>2 DEF LoadFromFile, ChangeTypeOK
    <3>2. 0 \in 0 .. Len(changes')
      BY <3>1, LogLengths
    <3>3. ChangeTypeOK'
      BY <3>1, <3>2 DEF ChangeTypeOK
    <3> QED BY <3>1, <3>3, OwnIsNumber, SameStory
  <2>3. CASE UNCHANGED changeVars
    <3>1. ChangeTypeOK'
      BY <2>3 DEF changeVars, ChangeTypeOK
    <3>2. parameter' = parameter /\ changes' = changes /\ own' = own
      BY <2>3 DEF changeVars
    <3> QED BY <3>1, <3>2, OwnIsNumber, SameStory
  <2>4. ASSUME NEW i \in 1 .. MaxChanges, Approve(i) PROVE ChangeTypeOK' /\ ChangesChained'
    BY <2>4, ApproveStep, ChangeAssumption
  <2> QED BY <2>1, <2>2, <2>3, <2>4, LimitStep, PriorityStep DEF ChangeNext
<1> QED BY <1>1, <1>2, PTL DEF ChangeSpec
=============================================================================
