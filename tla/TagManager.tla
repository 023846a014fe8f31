------------------------------ MODULE TagManager ------------------------------
(***************************************************************************)
(* tagmanager.cpp: the configured tags with three indexes, by name, by     *)
(* Modbus address and by device.  Each method holds the write lock from    *)
(* beginning to end and is one action.  Ids are unique; names and          *)
(* addresses come from a configuration file and may be used twice.  Of a   *)
(* tag only its keys are kept: an edit of limits, ranges or modes is an    *)
(* UpdateTag that keeps them.                                              *)
(***************************************************************************)
EXTENDS Naturals, SequencesExt

CONSTANTS
  Ids,           \* tag ids
  Names,         \* tagName
  Addresses,     \* modbusKey: server and register address packed into 32 bits
  IdsPerDevice,  \* 2^24 in the code, where the device is tagId >> 24
  NoTag          \* the tag of an id that is not configured

Configs == [name : Names, addr : Addresses]

ASSUME TagAssumption ==
  Ids \subseteq Nat \ {0} /\ IdsPerDevice \in Nat \ {0} /\ NoTag \notin Configs

VARIABLES
  tags,          \* m_tags
  nameIndex,     \* m_nameIndex
  addrIndex,     \* m_modbusAddrIndex
  deviceIndex,   \* m_deviceIndex
  sharedNames,   \* ghost: names that two tags had at once since nobody had them
  sharedAddrs    \* ghost: likewise for addresses

tagVars == <<tags, nameIndex, addrIndex, deviceIndex, sharedNames, sharedAddrs>>

(* What value(key, 0) of an index answers for a key it does not have.       *)
NoId == 0

Device(id) == id \div IdsPerDevice
Devices == {Device(id) : id \in Ids}

Present(id) == tags[id] # NoTag
PresentIds == {id \in Ids : Present(id)}

TagInit ==
  /\ tags = [id \in Ids |-> NoTag]
  /\ nameIndex = [n \in Names |-> NoId]
  /\ addrIndex = [a \in Addresses |-> NoId]
  /\ deviceIndex = [d \in Devices |-> << >>]
  /\ sharedNames = {} /\ sharedAddrs = {}

-----------------------------------------------------------------------------
(* The ghosts after a step: a key stays shared while somebody has it.       *)
Users(key(_), k) == {id \in Ids : tags'[id] # NoTag /\ key(tags'[id]) = k}
Name(tag) == tag.name
Addr(tag) == tag.addr

SharedAfter(key(_), Keys, shared) ==
  {k \in Keys : \E id \in Users(key, k) :
                  k \in shared \/ Users(key, k) # {id}}

NoteShared ==
  /\ sharedNames' = SharedAfter(Name, Names, sharedNames)
  /\ sharedAddrs' = SharedAfter(Addr, Addresses, sharedAddrs)

-----------------------------------------------------------------------------
(* Faulty variant: the id is not looked up first.                           *)
AnyId(id) == TRUE
Unknown(id) == ~ Present(id)

AddTag(id, tag) ==
  /\ Unknown(id)
  /\ tags' = [tags EXCEPT ![id] = tag]
  /\ nameIndex' = [nameIndex EXCEPT ![tag.name] = id]
  /\ addrIndex' = [addrIndex EXCEPT ![tag.addr] = id]
  /\ deviceIndex' = [deviceIndex EXCEPT ![Device(id)] = Append(@, id)]
  /\ NoteShared

RemoveTag(id) ==
  /\ Present(id)
  /\ tags' = [tags EXCEPT ![id] = NoTag]
  /\ nameIndex' = [nameIndex EXCEPT ![tags[id].name] = NoId]
  /\ addrIndex' = [addrIndex EXCEPT ![tags[id].addr] = NoId]
  /\ deviceIndex' = [deviceIndex EXCEPT ![Device(id)] = RemoveFirst(@, id)]
  /\ NoteShared

(* An index after the key of a tag went from old to new.                    *)
(* Faulty variants: the old key is left, the new one is not entered.        *)
MovedKeepingOld(index, old, new, id) == [index EXCEPT ![new] = id]
MovedWithoutNew(index, old, new, id) == [index EXCEPT ![old] = NoId]
Moved(index, old, new, id) ==
  IF old = new THEN index ELSE [index EXCEPT ![old] = NoId, ![new] = id]

UpdateTag(id, tag) ==
  /\ Present(id)
  /\ nameIndex' = Moved(nameIndex, tags[id].name, tag.name, id)
  /\ addrIndex' = Moved(addrIndex, tags[id].addr, tag.addr, id)
  /\ tags' = [tags EXCEPT ![id] = tag]
  /\ UNCHANGED deviceIndex
  /\ NoteShared

Clear ==
  /\ tags' = [id \in Ids |-> NoTag]
  /\ nameIndex' = [n \in Names |-> NoId]
  /\ addrIndex' = [a \in Addresses |-> NoId]
  /\ deviceIndex' = [d \in Devices |-> << >>]
  /\ NoteShared

TagNext ==
  \/ \E id \in Ids, tag \in Configs : AddTag(id, tag) \/ UpdateTag(id, tag)
  \/ \E id \in Ids : RemoveTag(id)
  \/ Clear

TagSpec == TagInit /\ [][TagNext]_tagVars

-----------------------------------------------------------------------------
(* Properties.                                                              *)

TagsTypeOK ==
  /\ tags \in [Ids -> Configs \cup {NoTag}]
  /\ nameIndex \in [Names -> Ids \cup {NoId}]
  /\ addrIndex \in [Addresses -> Ids \cup {NoId}]

(* An index never leads to a tag that is gone or has another key, also when *)
(* tags with equal keys were added, renamed and removed in any order: a     *)
(* value written to the register of one tag is not taken for another's      *)
(* (tagmanager.cpp:16-18, 30-32, 93-100).                                   *)
IndexesTruthful ==
  /\ \A n \in Names : nameIndex[n] # NoId =>
       Present(nameIndex[n]) /\ tags[nameIndex[n]].name = n
  /\ \A a \in Addresses : addrIndex[a] # NoId =>
       Present(addrIndex[a]) /\ tags[addrIndex[a]].addr = a

(* A tag is found by its key unless it had to share the key: the first of   *)
(* two to go takes the entry with it, and the other one is found no more.   *)
UnsharedFound ==
  \A id \in PresentIds :
    /\ tags[id].name \notin sharedNames => nameIndex[tags[id].name] = id
    /\ tags[id].addr \notin sharedAddrs => addrIndex[tags[id].addr] = id

(* A device lists its tags, each once.                                      *)
DeviceIndexExact ==
  \A d \in Devices :
    /\ ToSet(deviceIndex[d]) = {id \in PresentIds : Device(id) = d}
    /\ IsInjective(deviceIndex[d])
=============================================================================
