----------------------------- MODULE PluginProofs -----------------------------
(***************************************************************************)
(* Proofs about the gateway to the broker and the plugin hub, for every    *)
(* set of topics, delays, libraries and services, and about the end of the *)
(* application, for every moment at which the window is closed.            *)
(***************************************************************************)
EXTENDS MqttGateway, PluginHub, Lifecycle, FiniteSetTheorems, TLAPS

-----------------------------------------------------------------------------
(* The gateway.                                                             *)

(* Whatever was subscribed is delivered while the gateway is online.        *)
THEOREM SubscriptionsSurvive == GatewaySpec => []SubscribedWhileOnline
<1>1. GatewayInit => SubscribedWhileOnline
  BY DEF GatewayInit, SubscribedWhileOnline
<1>2. SubscribedWhileOnline /\ [GatewayNext]_gatewayVars => SubscribedWhileOnline'
  <2> SUFFICES ASSUME SubscribedWhileOnline, [GatewayNext]_gatewayVars
               PROVE  SubscribedWhileOnline'
    OBVIOUS
  <2> USE DEF SubscribedWhileOnline, timers, broker
  <2>1. CASE Accepted
    BY <2>1 DEF Accepted, Resubscribed
  <2>2. CASE Fails \/ Lost \/ ConnectTo \/ DisconnectFrom
    BY <2>2 DEF Fails, Lost, ConnectTo, DisconnectFrom
  <2>3. CASE OnReconnect
    BY <2>3 DEF OnReconnect
  <2>4. CASE OnHeartbeat \/ WillPublished
    BY <2>4 DEF OnHeartbeat, WillPublished
  <2>5. ASSUME NEW t \in Topics, Subscribe(t) PROVE SubscribedWhileOnline'
    BY <2>5 DEF Subscribe
  <2>6. CASE UNCHANGED gatewayVars
    BY <2>6 DEF gatewayVars
  <2> QED
    BY <2>1, <2>2, <2>3, <2>4, <2>5, <2>6 DEF GatewayNext
<1> QED
  BY <1>1, <1>2, PTL DEF GatewaySpec

(* No reconnect is pending while the gateway is online, and the heartbeat   *)
(* runs exactly then.                                                       *)
THEOREM TimersFollow == GatewaySpec => []TimersFollowConnection
<1>1. GatewayInit => TimersFollowConnection
  BY DEF GatewayInit, TimersFollowConnection
<1>2. TimersFollowConnection /\ [GatewayNext]_gatewayVars => TimersFollowConnection'
  <2> SUFFICES ASSUME TimersFollowConnection, [GatewayNext]_gatewayVars
               PROVE  TimersFollowConnection'
    OBVIOUS
  <2> USE DEF TimersFollowConnection, timers
  <2>1. CASE Accepted
    BY <2>1 DEF Accepted, Disarmed, BeatsFromNow
  <2>2. CASE Fails \/ Lost \/ DisconnectFrom
    BY <2>2 DEF Fails, Lost, DisconnectFrom, OnDisconnected
  <2>3. CASE ConnectTo
    BY <2>3 DEF ConnectTo
  <2>4. CASE OnReconnect
    BY <2>4 DEF OnReconnect
  <2>5. CASE OnHeartbeat \/ WillPublished
    BY <2>5 DEF OnHeartbeat, WillPublished
  <2>6. ASSUME NEW t \in Topics, Subscribe(t) PROVE TimersFollowConnection'
    BY <2>6 DEF Subscribe
  <2>7. CASE UNCHANGED gatewayVars
    BY <2>7 DEF gatewayVars
  <2> QED
    BY <2>1, <2>2, <2>3, <2>4, <2>5, <2>6, <2>7 DEF GatewayNext
<1> QED
  BY <1>1, <1>2, PTL DEF GatewaySpec

-----------------------------------------------------------------------------
(* The hub.                                                                 *)

(* The strengthening: after a switch there is no descriptor of another file *)
(* at all, whether it works or not.                                         *)
OnlySwitched ==
  /\ switched \in [Services -> Files \cup {NoPlugin}]
  /\ \A s \in Services :
       switched[s] # NoPlugin => \A d \in Candidates(s) : d.file = switched[s]

(* After a switch the service is never resolved to another file.            *)
THEOREM SwitchIsFinal == HubSpec => []SwitchedIsResolved
<1>1. HubInit => OnlySwitched
  BY DEF HubInit, OnlySwitched
<1>2. OnlySwitched /\ [HubNext]_hubVars => OnlySwitched'
  <2> SUFFICES ASSUME OnlySwitched, [HubNext]_hubVars
               PROVE  OnlySwitched'
    OBVIOUS
  <2>1. CASE UNCHANGED <<discovered, switched>>
    BY <2>1 DEF OnlySwitched, Candidates
  <2>2. CASE ScanAll
    BY <2>2 DEF ScanAll, OnlySwitched
  <2>3. ASSUME NEW s \in Services, NEW file \in Files, SwitchPlugin(s, file)
        PROVE  OnlySwitched'
    <3> DEFINE added == [file |-> file, iid |-> s, priority |-> SwitchPriority]
    <3>1. /\ switched' = [switched EXCEPT ![s] = file]
          /\ discovered' = (discovered \ Candidates(s)) \cup {added}
      BY <2>3 DEF SwitchPlugin, OfOthers
    <3>2. added.file = file /\ added.iid = s
      OBVIOUS
    <3>3. ASSUME NEW r \in Services, switched'[r] # NoPlugin,
                 NEW d \in discovered', d.iid = r
          PROVE  d.file = switched'[r]
      <4>1. CASE r = s
        <5>1. d = added
          BY <3>1, <3>3, <4>1 DEF Candidates
        <5> QED
          BY <5>1, <3>1, <3>2, <4>1 DEF OnlySwitched
      <4>2. CASE r # s
        <5>1. d \in discovered
          BY <3>1, <3>2, <3>3, <4>2
        <5>2. switched'[r] = switched[r]
          BY <3>1, <4>2 DEF OnlySwitched
        <5> QED
          BY <5>1, <5>2, <3>3 DEF OnlySwitched, Candidates
      <4> QED
        BY <4>1, <4>2
    <3>4. switched' \in [Services -> Files \cup {NoPlugin}]
      BY <3>1 DEF OnlySwitched
    <3> QED
      BY <3>3, <3>4 DEF OnlySwitched, Candidates
  <2>4. ASSUME HubNext PROVE ScanAll \/ UNCHANGED <<discovered, switched>>
                             \/ \E s \in Services, file \in Files : SwitchPlugin(s, file)
    BY <2>4 DEF HubNext, WithFieldbus, WithDatabase, WithMqtt, UnloadAll, Resolve,
                UnloadPlugin, ghosts
  <2> QED
    BY <2>1, <2>2, <2>3, <2>4 DEF hubVars, hub, ghosts
<1>3. OnlySwitched => SwitchedIsResolved
  BY DEF OnlySwitched, SwitchedIsResolved, Chosen
<1> QED
  BY <1>1, <1>2, <1>3, PTL DEF HubSpec
-----------------------------------------------------------------------------
(* The libraries that are held.                                             *)

LoadedPlugins == [file : Files, iid : Services]

(* How many entries of a list hold a library.                               *)
OfFile(list, f) == {i \in DOMAIN list : list[i].file = f}
HeldBy(list, f) == Cardinality(OfFile(list, f))

LEMMA EntriesAreFinite ==
  ASSUME NEW list \in Seq(LoadedPlugins), NEW f
  PROVE  IsFiniteSet(OfFile(list, f)) /\ HeldBy(list, f) \in Nat
<1>1. OfFile(list, f) \in SUBSET (1 .. Len(list)) /\ Len(list) \in Nat
  BY DEF OfFile
<1>2. IsFiniteSet(1 .. Len(list))
  BY <1>1, FS_Interval
<1>3. IsFiniteSet(OfFile(list, f))
  BY <1>1, <1>2, FS_Subset
<1> QED BY <1>3, FS_CardinalityType DEF HeldBy

(* Another entry counts for its library.                                    *)
LEMMA OneMoreHeld ==
  ASSUME NEW list \in Seq(LoadedPlugins), NEW e \in LoadedPlugins, NEW f
  PROVE  /\ list \o <<e>> \in Seq(LoadedPlugins)
         /\ HeldBy(list \o <<e>>, f) = HeldBy(list, f) + IF f = e.file THEN 1 ELSE 0
<1> DEFINE longer == list \o <<e>>
           n == Len(list)
<1>1. /\ longer \in Seq(LoadedPlugins) /\ n \in Nat /\ DOMAIN list = 1 .. n
      /\ DOMAIN longer = 1 .. n + 1 /\ longer[n + 1] = e
      /\ \A i \in 1 .. n : longer[i] = list[i]
  OBVIOUS
<1> HIDE DEF longer, n
<1>2. n + 1 \notin OfFile(list, f)
  BY <1>1 DEF OfFile
<1>3. IsFiniteSet(OfFile(list, f)) /\ HeldBy(list, f) \in Nat
  BY EntriesAreFinite
<1>4. CASE f = e.file
  <2>1. OfFile(longer, f) = OfFile(list, f) \cup {n + 1}
    BY <1>1, <1>4 DEF OfFile
  <2>2. Cardinality(OfFile(list, f) \cup {n + 1}) = Cardinality(OfFile(list, f)) + 1
    BY <1>2, <1>3, FS_AddElement
  <2> QED BY <1>1, <1>4, <2>1, <2>2 DEF HeldBy, longer
<1>5. CASE f # e.file
  <2>1. OfFile(longer, f) = OfFile(list, f)
    BY <1>1, <1>5 DEF OfFile
  <2> QED BY <1>1, <1>3, <1>5, <2>1 DEF HeldBy, longer
<1> QED BY <1>4, <1>5

(* A sequence without the entry at k.                                       *)
LEMMA AllButOne ==
  ASSUME NEW S, NEW s \in Seq(S), NEW k \in 1 .. Len(s),
         NEW r, r = SubSeq(s, 1, k - 1) \o SubSeq(s, k + 1, Len(s))
  PROVE  /\ r \in Seq(S) /\ Len(r) = Len(s) - 1
         /\ \A i \in 1 .. Len(r) : r[i] = IF i < k THEN s[i] ELSE s[i + 1]
<1> DEFINE before == SubSeq(s, 1, k - 1)
           after == SubSeq(s, k + 1, Len(s))
<1>1. Len(s) \in Nat /\ \A i \in 1 .. Len(s) : s[i] \in S
  OBVIOUS
<1>2. /\ before \in Seq(S) /\ Len(before) = k - 1
      /\ \A i \in 1 .. k - 1 : before[i] = s[i]
  BY <1>1
<1>3. /\ after \in Seq(S) /\ Len(after) = Len(s) - k
      /\ \A i \in 1 .. Len(s) - k : after[i] = s[i + k]
  BY <1>1
<1> HIDE DEF before, after
<1>4. /\ before \o after \in Seq(S) /\ Len(before \o after) = Len(s) - 1
      /\ \A i \in 1 .. Len(s) - 1 :
           (before \o after)[i] = IF i <= k - 1 THEN before[i] ELSE after[i - (k - 1)]
  BY <1>1, <1>2, <1>3
<1>5. ASSUME NEW i \in 1 .. Len(s) - 1
      PROVE  (before \o after)[i] = IF i < k THEN s[i] ELSE s[i + 1]
  <2>1. CASE i < k
    BY <1>1, <1>2, <1>4, <2>1
  <2>2. CASE ~ (i < k)
    <3>1. i - (k - 1) \in 1 .. Len(s) - k /\ i - (k - 1) + k = i + 1
      BY <1>1, <2>2
    <3> QED BY <1>1, <1>3, <1>4, <2>2, <3>1
  <2> QED BY <2>1, <2>2
<1> QED BY <1>4, <1>5 DEF before, after

(* An entry that goes counted for its library: the places of the others     *)
(* before and after are one to one.                                         *)
LEMMA OneLessHeld ==
  ASSUME NEW list \in Seq(LoadedPlugins), NEW k \in 1 .. Len(list), NEW f,
         NEW r \in Seq(LoadedPlugins), Len(r) = Len(list) - 1,
         \A i \in 1 .. Len(r) : r[i] = IF i < k THEN list[i] ELSE list[i + 1]
  PROVE  HeldBy(r, f) = HeldBy(list, f) - IF f = list[k].file THEN 1 ELSE 0
<1>1. \A i \in DOMAIN r : r[i] = IF i < k THEN list[i] ELSE list[i + 1]
  OBVIOUS
<1>2. /\ DOMAIN r = 1 .. Len(list) - 1 /\ DOMAIN list = 1 .. Len(list) /\ Len(list) \in Nat
  OBVIOUS
<1> DEFINE others == OfFile(list, f) \ {k}
           from == [i \in OfFile(r, f) |-> IF i < k THEN i ELSE i + 1]
<1>3. from \in [OfFile(r, f) -> others]
  BY <1>1, <1>2 DEF OfFile
<1>4. IsInjective(from)
  BY <1>2 DEF IsInjective, OfFile
<1>5. ASSUME NEW j \in others PROVE \E i \in OfFile(r, f) : from[i] = j
  <2>1. CASE j < k
    <3>1. j \in OfFile(r, f)
      BY <1>1, <1>2, <2>1 DEF OfFile
    <3> QED BY <2>1, <3>1
  <2>2. CASE j > k
    <3>1. j \in 1 .. Len(list) /\ list[j].file = f
      BY <1>2 DEF OfFile
    <3>2. j - 1 \in 1 .. Len(list) - 1 /\ ~ (j - 1 < k) /\ (j - 1) + 1 = j
      BY <1>2, <2>2, <3>1
    <3>3. j - 1 \in OfFile(r, f)
      BY <1>1, <1>2, <3>1, <3>2 DEF OfFile
    <3> QED BY <3>2, <3>3
  <2> QED BY <1>2, <2>1, <2>2 DEF OfFile
<1>6. from \in Bijection(OfFile(r, f), others)
  BY <1>3, <1>4, <1>5 DEF Bijection, Injection, Surjection
<1>7. IsFiniteSet(OfFile(r, f)) /\ IsFiniteSet(OfFile(list, f)) /\ HeldBy(list, f) \in Nat
  BY <1>1, EntriesAreFinite
<1>8. Cardinality(others) = Cardinality(OfFile(r, f))
  BY <1>6, <1>7, FS_Bijection DEF ExistsBijection
<1>9. Cardinality(others) = IF k \in OfFile(list, f) THEN Cardinality(OfFile(list, f)) - 1
                                                     ELSE Cardinality(OfFile(list, f))
  BY <1>7, FS_RemoveElement
<1>10. k \in OfFile(list, f) <=> f = list[k].file
  BY <1>2 DEF OfFile
<1> QED BY <1>7, <1>8, <1>9, <1>10 DEF HeldBy

Counted(list, held) ==
  /\ list \in Seq(LoadedPlugins) /\ held \in [Files -> Int]
  /\ \A f \in Files : held[f] = HeldBy(list, f)

Serves(list, s, file) == \E i \in DOMAIN list : list[i].iid = s /\ list[i].file = file

(* Behind a service that nobody asked to be unloaded there is an entry of   *)
(* its own, which no other service can take away.                           *)
ServicesBacked ==
  \A s \in Services \ released : service[s] # NoPlugin => Serves(loaded, s, service[s])

LoadedInv ==
  /\ Counted(loaded, holders) /\ ServicesBacked
  /\ \A d \in discovered : d.file \in Files /\ d.iid \in Services
  /\ service \in [Services -> Files \cup {NoPlugin}]

(* resolve adds an entry for what it found, if it found something.          *)
LEMMA ResolvedIsCounted ==
  ASSUME NEW list, NEW held, Counted(list, held),
         NEW s \in Services, NEW file \in Files \cup {NoPlugin}
  PROVE  /\ Counted(list \o Entry(s, file), HeldAfter(held, s, file))
         /\ \A r \in Services, g \in Files :
              Serves(list, r, g) => Serves(list \o Entry(s, file), r, g)
         /\ file # NoPlugin => Serves(list \o Entry(s, file), s, file)
<1> DEFINE longer == list \o Entry(s, file)
           heldNow == HeldAfter(held, s, file)
           e == [file |-> file, iid |-> s]
<1>1. list \in Seq(LoadedPlugins) /\ held \in [Files -> Int]
      /\ \A f \in Files : held[f] = HeldBy(list, f)
  BY DEF Counted
<1>2. heldNow = [f \in Files |-> held[f] + IF f = file THEN 1 ELSE 0]
  BY DEF HeldAfter, LeftLoaded
<1>3. CASE file = NoPlugin
  <2>1. longer = list
    BY <1>1, <1>3 DEF Entry
  <2>2. heldNow = held
    BY <1>1, <1>2, <1>3, HubAssumption
  <2> QED BY <1>1, <1>3, <2>1, <2>2 DEF Counted
<1>4. CASE file # NoPlugin
  <2>1. longer = list \o <<e>> /\ e \in LoadedPlugins /\ e.file = file /\ e.iid = s
    BY <1>4 DEF Entry, LoadedPlugins
  <2> HIDE DEF longer, e
  <2>2. /\ longer \in Seq(LoadedPlugins)
        /\ \A f : HeldBy(longer, f) = HeldBy(list, f) + IF f = file THEN 1 ELSE 0
    BY <1>1, <2>1, OneMoreHeld
  <2>3. Counted(longer, heldNow)
    <3>1. heldNow \in [Files -> Int]
      BY <1>1, <1>2
    <3>2. \A f \in Files : heldNow[f] = HeldBy(longer, f)
      BY <1>1, <1>2, <2>2
    <3> QED BY <2>2, <3>1, <3>2 DEF Counted
  <2>4. /\ DOMAIN list = 1 .. Len(list) /\ DOMAIN longer = 1 .. Len(list) + 1
        /\ Len(list) \in Nat /\ longer[Len(list) + 1] = e
        /\ \A i \in 1 .. Len(list) : longer[i] = list[i]
    BY <1>1, <2>1
  <2>5. \A r \in Services, g \in Files : Serves(list, r, g) => Serves(longer, r, g)
    BY <2>4 DEF Serves
  <2>6. Len(list) + 1 \in DOMAIN longer
    BY <2>4
  <2>7. Serves(longer, s, file)
    BY <2>1, <2>4, <2>6 DEF Serves
  <2> QED BY <2>3, <2>5, <2>7 DEF longer
<1> QED BY <1>3, <1>4

(* unloadPlugin takes an entry of the service itself.                       *)
LEMMA UnloadedIsCounted ==
  ASSUME Counted(loaded, holders), NEW s \in Services, Unload(s)
  PROVE  /\ Counted(loaded', holders')
         /\ \A r \in Services \ {s}, g \in Files :
              Serves(loaded, r, g) => Serves(loaded', r, g)
<1>1. loaded \in Seq(LoadedPlugins) /\ holders \in [Files -> Int]
      /\ \A f \in Files : holders[f] = HeldBy(loaded, f)
  BY DEF Counted
<1>2. CASE UNCHANGED <<loaded, holders>>
  BY <1>2
<1>3. ASSUME NEW k \in Entries(s),
             loaded' = SubSeq(loaded, 1, k - 1) \o SubSeq(loaded, k + 1, Len(loaded)),
             holders' = [holders EXCEPT ![loaded[k].file] = @ - 1]
      PROVE  /\ Counted(loaded', holders')
             /\ \A r \in Services \ {s}, g \in Files :
                  Serves(loaded, r, g) => Serves(loaded', r, g)
  <2>1. k \in 1 .. Len(loaded) /\ loaded[k].iid = s /\ loaded[k].file \in Files
    <3>1. k \in 1 .. Len(loaded) /\ loaded[k].iid = s
      BY <1>1 DEF Entries
    <3>2. loaded[k] \in LoadedPlugins
      BY <1>1, <3>1
    <3> QED BY <3>1, <3>2 DEF LoadedPlugins
  <2>2. /\ loaded' \in Seq(LoadedPlugins) /\ Len(loaded') = Len(loaded) - 1
        /\ \A i \in 1 .. Len(loaded') :
             loaded'[i] = IF i < k THEN loaded[i] ELSE loaded[i + 1]
    <3> DEFINE rest == SubSeq(loaded, 1, k - 1) \o SubSeq(loaded, k + 1, Len(loaded))
    <3>1. \A r : r = rest =>
            /\ r \in Seq(LoadedPlugins) /\ Len(r) = Len(loaded) - 1
            /\ \A i \in 1 .. Len(r) : r[i] = IF i < k THEN loaded[i] ELSE loaded[i + 1]
      BY <1>1, <2>1, AllButOne
    <3> HIDE DEF rest
    <3>2. loaded' = rest
      BY <1>3 DEF rest
    <3> QED BY <3>1, <3>2
  <2>3. ASSUME NEW f \in Files PROVE holders'[f] = HeldBy(loaded', f)
    <3>1. HeldBy(loaded', f) = HeldBy(loaded, f) - IF f = loaded[k].file THEN 1 ELSE 0
      BY <1>1, <2>1, <2>2, OneLessHeld
    <3>2. HeldBy(loaded, f) \in Nat
      BY <1>1, EntriesAreFinite
    <3> QED BY <1>1, <1>3, <3>1, <3>2
  <2>4. holders' \in [Files -> Int]
    BY <1>1, <1>3, <2>1
  <2>5. ASSUME NEW r \in Services \ {s}, NEW g \in Files, NEW i \in DOMAIN loaded,
               loaded[i].iid = r, loaded[i].file = g
        PROVE  Serves(loaded', r, g)
    <3>1. /\ i \in 1 .. Len(loaded) /\ i # k /\ Len(loaded) \in Nat
          /\ DOMAIN loaded' = 1 .. Len(loaded) - 1
      BY <1>1, <2>1, <2>2, <2>5
    <3>2. CASE i < k
      <4>1. i \in DOMAIN loaded' /\ loaded'[i] = loaded[i]
        BY <2>1, <2>2, <3>1, <3>2
      <4> QED BY <2>5, <4>1 DEF Serves
    <3>3. CASE i > k
      <4>1. i - 1 \in 1 .. Len(loaded) - 1 /\ ~ (i - 1 < k) /\ (i - 1) + 1 = i
        BY <2>1, <3>1, <3>3
      <4>2. loaded'[i - 1] = loaded[i]
        BY <2>2, <4>1
      <4> QED BY <2>5, <3>1, <4>1, <4>2 DEF Serves
    <3> QED BY <2>1, <3>1, <3>2, <3>3
  <2> QED BY <2>2, <2>3, <2>4, <2>5 DEF Counted, Serves
<1> QED BY <1>2, <1>3 DEF Unload

LEMMA FoundIsALibrary ==
  ASSUME LoadedInv, NEW s \in Services, NEW file \in Outcomes(s)
  PROVE  file \in Files \cup {NoPlugin}
BY DEF Outcomes, Chosen, Candidates, LoadedInv

(* What the builder and the interface do to the libraries.                  *)
LEMMA ResolveKeepsCount ==
  ASSUME LoadedInv, NEW s \in Services, NEW file \in Outcomes(s), ResolveTo(s, file),
         service' = [service EXCEPT ![s] = file] \/ service' = service,
         UNCHANGED <<discovered, released>>
  PROVE  LoadedInv'
<1>1. /\ Counted(loaded, holders)
      /\ service \in [Services -> Files \cup {NoPlugin}]
      /\ \A r \in Services \ released :
           service[r] # NoPlugin => Serves(loaded, r, service[r])
  BY DEF LoadedInv, ServicesBacked
<1>2. file \in Files \cup {NoPlugin}
  BY FoundIsALibrary
<1>3. loaded' = loaded \o Entry(s, file) /\ holders' = HeldAfter(holders, s, file)
  BY DEF ResolveTo
<1>4. /\ Counted(loaded', holders')
      /\ \A r \in Services, g \in Files : Serves(loaded, r, g) => Serves(loaded', r, g)
      /\ file # NoPlugin => Serves(loaded', s, file)
  BY <1>1, <1>2, <1>3, ResolvedIsCounted
<1>5. service' \in [Services -> Files \cup {NoPlugin}]
  BY <1>1, <1>2
<1>6. ASSUME NEW r \in Services \ released, service'[r] # NoPlugin
      PROVE  Serves(loaded', r, service'[r])
  <2>1. CASE service'[r] = service[r]
    BY <1>1, <1>4, <1>6, <2>1
  <2>2. CASE service'[r] # service[r]
    <3>1. r = s /\ service'[r] = file
      BY <1>1, <2>2
    <3> QED BY <1>4, <1>6, <3>1
  <2> QED BY <2>1, <2>2
<1> QED BY <1>4, <1>5, <1>6 DEF LoadedInv, ServicesBacked

LEMMA RepositoriesKeepCount ==
  ASSUME LoadedInv, WithDatabase
  PROVE  LoadedInv'
<1>1. PICK a \in Outcomes("alarm"), h \in Outcomes("history") :
        /\ loaded' = (loaded \o Entry("alarm", a)) \o Entry("history", h)
        /\ holders' = HeldAfter(HeldAfter(holders, "alarm", a), "history", h)
        /\ service' = IF NoPlugin \in {a, h} THEN service
                      ELSE [service EXCEPT !["alarm"] = a, !["history"] = h]
  BY DEF WithDatabase
<1>2. /\ Counted(loaded, holders)
      /\ service \in [Services -> Files \cup {NoPlugin}]
      /\ \A r \in Services \ released :
           service[r] # NoPlugin => Serves(loaded, r, service[r])
  BY DEF LoadedInv, ServicesBacked
<1>3. /\ "alarm" \in Services /\ "history" \in Services
      /\ a \in Files \cup {NoPlugin} /\ h \in Files \cup {NoPlugin}
  BY HubAssumption, FoundIsALibrary
<1> DEFINE list == loaded \o Entry("alarm", a)
           held == HeldAfter(holders, "alarm", a)
<1>4. /\ Counted(list, held)
      /\ \A r \in Services, g \in Files : Serves(loaded, r, g) => Serves(list, r, g)
      /\ a # NoPlugin => Serves(list, "alarm", a)
  BY <1>2, <1>3, ResolvedIsCounted
<1>5. loaded' = list \o Entry("history", h) /\ holders' = HeldAfter(held, "history", h)
  BY <1>1
<1> HIDE DEF list, held
<1>6. /\ Counted(loaded', holders')
      /\ \A r \in Services, g \in Files : Serves(list, r, g) => Serves(loaded', r, g)
      /\ h # NoPlugin => Serves(loaded', "history", h)
  BY <1>3, <1>4, <1>5, ResolvedIsCounted
<1>7. service' \in [Services -> Files \cup {NoPlugin}]
  BY <1>1, <1>2, <1>3
<1>8. ASSUME NEW r \in Services \ released, service'[r] # NoPlugin
      PROVE  Serves(loaded', r, service'[r])
  <2>1. CASE service'[r] = service[r]
    BY <1>2, <1>4, <1>6, <1>8, <2>1
  <2>2. CASE service'[r] # service[r]
    <3>1. service' = [service EXCEPT !["alarm"] = a, !["history"] = h]
      BY <1>1, <2>2
    <3>2. service'["alarm"] = a /\ service'["history"] = h
          /\ (r # "alarm" /\ r # "history" => service'[r] = service[r])
      BY <1>2, <1>3, <3>1
    <3>3. \/ r = "alarm" /\ service'[r] = a
          \/ r = "history" /\ service'[r] = h
      BY <2>2, <3>2
    <3> QED BY <1>3, <1>4, <1>6, <1>8, <3>3
  <2> QED BY <2>1, <2>2
<1>9. discovered' = discovered /\ released' = released
  BY DEF WithDatabase, ghosts
<1> QED BY <1>6, <1>7, <1>8, <1>9 DEF LoadedInv, ServicesBacked

LEMMA UnloadKeepsCount ==
  ASSUME LoadedInv, NEW s \in Services, Unload(s), service' = service,
         released' = released \cup {s},
         \A d \in discovered' : d.file \in Files /\ d.iid \in Services
  PROVE  LoadedInv'
<1>1. /\ Counted(loaded', holders')
      /\ \A r \in Services \ {s}, g \in Files :
           Serves(loaded, r, g) => Serves(loaded', r, g)
  BY UnloadedIsCounted DEF LoadedInv
<1> QED BY <1>1 DEF LoadedInv, ServicesBacked

LEMMA UnloadAllKeepsCount ==
  ASSUME LoadedInv, UnloadAll
  PROVE  LoadedInv'
<1>1. loaded' = << >> /\ released' = Services /\ discovered' = discovered /\ service' = service
      /\ holders' = [f \in Files |-> holders[f] - HeldBy(loaded, f)]
  BY DEF UnloadAll, HeldBy, OfFile
<1>2. ASSUME NEW f \in Files
      PROVE  holders'[f] = HeldBy(loaded', f) /\ holders'[f] \in Int
  <2>1. holders[f] = HeldBy(loaded, f) /\ HeldBy(loaded, f) \in Nat
    BY EntriesAreFinite DEF LoadedInv, Counted
  <2>2. OfFile(loaded', f) = {}
    BY <1>1 DEF OfFile
  <2>3. HeldBy(loaded', f) = 0
    BY <2>2, FS_EmptySet DEF HeldBy
  <2> QED BY <1>1, <2>1, <2>3
<1>3. Counted(loaded', holders')
  BY <1>1, <1>2 DEF Counted
<1> QED BY <1>1, <1>3 DEF LoadedInv, ServicesBacked

LEMMA LoadedInvStep ==
  ASSUME LoadedInv, [HubNext]_hubVars
  PROVE  LoadedInv'
<1>1. CASE ScanAll
  <2>1. \A d \in discovered' : d.file \in Files /\ d.iid \in Services
    BY <1>1, HubAssumption DEF ScanAll, Found
  <2> QED BY <1>1, <2>1 DEF ScanAll, LoadedInv, ServicesBacked
<1>2. CASE WithFieldbus
  <2>1. "fieldbus" \in Services
    BY HubAssumption
  <2> QED BY <1>2, <2>1, ResolveKeepsCount DEF WithFieldbus, ghosts
<1>3. CASE WithDatabase
  BY <1>3, RepositoriesKeepCount
<1>4. CASE WithMqtt
  <2>1. "mqtt" \in Services
    BY HubAssumption
  <2>2. CASE UNCHANGED <<loaded, holders, service>>
    BY <1>4, <2>2 DEF WithMqtt, ghosts, LoadedInv, ServicesBacked
  <2> QED BY <1>4, <2>1, <2>2, ResolveKeepsCount DEF WithMqtt, ghosts
<1>5. CASE UnloadAll
  BY <1>5, UnloadAllKeepsCount
<1>6. ASSUME NEW s \in Services, Resolve(s) PROVE LoadedInv'
  BY <1>6, ResolveKeepsCount DEF Resolve, ghosts
<1>7. ASSUME NEW s \in Services, UnloadPlugin(s) PROVE LoadedInv'
  BY <1>7, UnloadKeepsCount DEF UnloadPlugin, LoadedInv
<1>8. ASSUME NEW s \in Services, NEW file \in Files, SwitchPlugin(s, file) PROVE LoadedInv'
  <2>1. \A d \in discovered' : d.file \in Files /\ d.iid \in Services
    BY <1>8 DEF SwitchPlugin, OfOthers, LoadedInv
  <2> QED BY <1>8, <2>1, UnloadKeepsCount DEF SwitchPlugin
<1>9. CASE UNCHANGED hubVars
  BY <1>9 DEF hubVars, hub, ghosts, LoadedInv, ServicesBacked
<1> QED
  BY <1>1, <1>2, <1>3, <1>4, <1>5, <1>6, <1>7, <1>8, <1>9 DEF HubNext

LEMMA LoadedInvariant == HubSpec => []LoadedInv
<1>1. HubInit => LoadedInv
  <2> SUFFICES ASSUME HubInit PROVE LoadedInv
    OBVIOUS
  <2>1. loaded = << >> /\ holders = [f \in Files |-> 0] /\ discovered = {}
        /\ service = [s \in Services |-> NoPlugin]
    BY DEF HubInit
  <2>2. \A f \in Files : HeldBy(loaded, f) = 0
    <3>1. \A f \in Files : OfFile(loaded, f) = {}
      BY <2>1 DEF OfFile
    <3> QED BY <3>1, FS_EmptySet DEF HeldBy
  <2> QED BY <2>1, <2>2 DEF LoadedInv, Counted, ServicesBacked
<1> QED BY <1>1, LoadedInvStep, PTL DEF HubSpec

(* Every library in memory is one that the hub knows of, as often as it     *)
(* holds it, whatever candidates failed and whatever was switched and       *)
(* unloaded (PluginHub.h:73-96, PluginHub.cpp:54-67, 113-119).              *)
THEOREM NothingStaysLoaded == HubSpec => []LibrariesAccounted
<1>1. LoadedInv => LibrariesAccounted
  BY DEF LoadedInv, Counted, LibrariesAccounted, HeldBy, OfFile
<1> QED BY <1>1, LoadedInvariant, PTL

(* The object behind a service stays until its own plugin is unloaded.      *)
THEOREM ServicesOutliveOthers == HubSpec => []ServicesAlive
<1>1. LoadedInv => ServicesAlive
  <2> SUFFICES ASSUME LoadedInv, NEW s \in Services \ released, service[s] # NoPlugin
               PROVE  holders[service[s]] > 0
    BY DEF ServicesAlive
  <2> DEFINE f == service[s]
  <2>1. f \in Files /\ loaded \in Seq(LoadedPlugins) /\ holders[f] = HeldBy(loaded, f)
    BY DEF LoadedInv, Counted
  <2>2. OfFile(loaded, f) # {}
    BY DEF LoadedInv, ServicesBacked, Serves, OfFile
  <2>3. IsFiniteSet(OfFile(loaded, f)) /\ HeldBy(loaded, f) \in Nat
    BY <2>1, EntriesAreFinite
  <2>4. HeldBy(loaded, f) # 0
    BY <2>2, <2>3, FS_EmptySet DEF HeldBy
  <2> QED BY <2>1, <2>3, <2>4
<1> QED BY <1>1, LoadedInvariant, PTL

-----------------------------------------------------------------------------
(* The end of the application.                                              *)

(* What the main thread does once the window is closed, written out.        *)
Ending ==
  << <<"free", "pluginHub">>, <<"free", "historyRepo">>, <<"free", "alarmRepo">>,
     <<"free", "fieldbus">>,
     <<"clear", "parseThread">>, <<"wait", "parseThread">>,
     <<"clear", "historySampler">>, <<"wait", "historySampler">>,
     <<"stopAll", "fieldbus">>,
     <<"clear", "historySampler">>, <<"wait", "historySampler">>,
     <<"free", "historySampler">>,
     <<"clear", "parseThread">>, <<"wait", "parseThread">>, <<"free", "parseThread">>,
     <<"free", "doubleBuffer">>, <<"free", "messageBus">>,
     <<"free", "tagManager">>, <<"free", "alarmEngine">>, <<"free", "hub">> >>

Steps == {"start", "clear", "wait", "stopAll", "free"} \X Freeable

(* How many of them are done.                                               *)
Done == 20 - Len(todo)

(* The first wait for a thread, and the second order to stop, which the     *)
(* second wait follows.                                                     *)
FirstWait(t) == IF t = "parseThread" THEN 6 ELSE 8
SecondOrder(t) == IF t = "parseThread" THEN 13 ELSE 10

LEMMA ShortLists ==
  ASSUME NEW S
  PROVE  /\ \A a \in S : <<a>> \in Seq(S)
         /\ \A a, b \in S : <<a, b>> \in Seq(S)
         /\ \A a, b, c, d \in S : <<a, b, c, d>> \in Seq(S)
OBVIOUS

LEMMA StepsAreSteps ==
  /\ \A x \in Freeable : <<"free", x>> \in Steps
  /\ \A t \in HostThreads : /\ <<"start", t>> \in Steps /\ <<"clear", t>> \in Steps
                            /\ <<"wait", t>> \in Steps
  /\ <<"stopAll", "fieldbus">> \in Steps
BY DEF Steps, Freeable, HostServices

LEMMA StopIsSteps ==
  /\ \A t \in HostThreads : StopThread(t) \in Seq(Steps)
  /\ StopPipeline \in Seq(Steps)
<1>1. \A t \in HostThreads : StopThread(t) \in Seq(Steps)
  BY StepsAreSteps, ShortLists DEF StopThread
<1>2. << <<"stopAll", "fieldbus">> >> \in Seq(Steps)
  BY StepsAreSteps, ShortLists
<1>3. StopThread("parseThread") \o StopThread("historySampler") \in Seq(Steps)
  BY <1>1 DEF HostThreads
<1> QED BY <1>1, <1>2, <1>3 DEF StopPipeline

LEMMA ContextIsSteps == DestroyContext \in Seq(Steps)
<1>1. \A t \in HostThreads : DestroyThread(t) \in Seq(Steps)
  <2> SUFFICES ASSUME NEW t \in HostThreads PROVE DestroyThread(t) \in Seq(Steps)
    OBVIOUS
  <2>1. << <<"free", t>> >> \in Seq(Steps)
    BY StepsAreSteps, ShortLists DEF Freeable
  <2> QED BY <2>1, StopIsSteps DEF DestroyThread
<1>2. DestroyPipeline \in Seq(Steps)
  <2>1. << <<"free", "doubleBuffer">>, <<"free", "messageBus">> >> \in Seq(Steps)
    BY StepsAreSteps, ShortLists DEF Freeable
  <2>2. StopPipeline \o DestroyThread("historySampler") \in Seq(Steps)
    BY <1>1, StopIsSteps DEF HostThreads
  <2>3. StopPipeline \o DestroyThread("historySampler") \o DestroyThread("parseThread")
          \in Seq(Steps)
    BY <1>1, <2>2 DEF HostThreads
  <2> QED BY <2>1, <2>3 DEF DestroyPipeline
<1>3. << <<"free", "pluginHub">>, <<"free", "historyRepo">>,
         <<"free", "alarmRepo">>, <<"free", "fieldbus">> >> \in Seq(Steps)
  <2>1. /\ <<"free", "pluginHub">> \in Steps /\ <<"free", "historyRepo">> \in Steps
        /\ <<"free", "alarmRepo">> \in Steps /\ <<"free", "fieldbus">> \in Steps
    BY StepsAreSteps DEF Freeable, HostServices
  <2> QED BY <2>1, ShortLists
<1>4. << <<"free", "tagManager">>, <<"free", "alarmEngine">>, <<"free", "hub">> >>
        \in Seq(Steps)
  <2>1. /\ <<"free", "tagManager">> \in Steps /\ <<"free", "alarmEngine">> \in Steps
        /\ <<"free", "hub">> \in Steps
    BY StepsAreSteps DEF Freeable
  <2> QED BY <2>1
<1>5. << <<"free", "pluginHub">>, <<"free", "historyRepo">>,
         <<"free", "alarmRepo">>, <<"free", "fieldbus">> >> \o DestroyPipeline
        \in Seq(Steps)
  BY <1>2, <1>3
<1> QED BY <1>4, <1>5 DEF DestroyContext

LEMMA ContextIsEnding ==
  /\ DestroyContext \in Seq(Steps) /\ Len(DestroyContext) = 20
  /\ \A i \in 1 .. 20 : DestroyContext[i] = Ending[i]
<1> USE DEF DestroyContext, DestroyPipeline, StopPipeline, DestroyThread, StopThread
<1>1. Len(DestroyContext) = 20
  OBVIOUS
<1>2. /\ DestroyContext[1] = Ending[1] /\ DestroyContext[2] = Ending[2]
      /\ DestroyContext[3] = Ending[3] /\ DestroyContext[4] = Ending[4]
      /\ DestroyContext[5] = Ending[5] /\ DestroyContext[6] = Ending[6]
      /\ DestroyContext[7] = Ending[7] /\ DestroyContext[8] = Ending[8]
      /\ DestroyContext[9] = Ending[9] /\ DestroyContext[10] = Ending[10]
  BY DEF Ending
<1>3. /\ DestroyContext[11] = Ending[11] /\ DestroyContext[12] = Ending[12]
      /\ DestroyContext[13] = Ending[13] /\ DestroyContext[14] = Ending[14]
      /\ DestroyContext[15] = Ending[15] /\ DestroyContext[16] = Ending[16]
      /\ DestroyContext[17] = Ending[17] /\ DestroyContext[18] = Ending[18]
      /\ DestroyContext[19] = Ending[19] /\ DestroyContext[20] = Ending[20]
  BY DEF Ending
<1> HIDE DEF DestroyContext, DestroyPipeline, StopPipeline, DestroyThread, StopThread
<1>4. \A i \in 1 .. 20 : DestroyContext[i] = Ending[i]
  BY <1>2, <1>3
<1> QED BY <1>1, <1>4, ContextIsSteps

(* Where the steps that matter are.                                         *)
LEMMA EndingOrder ==
  /\ \A t \in HostThreads : /\ Ending[FirstWait(t)] = <<"wait", t>>
                            /\ Ending[SecondOrder(t)] = <<"clear", t>>
                            /\ Ending[SecondOrder(t) + 1] = <<"wait", t>>
  /\ \A i \in 1 .. 20 :
       /\ Ending[i][1] # "start"
       /\ Ending[i][1] = "stopAll" => i = 9
       /\ \A t \in HostThreads : Ending[i] = <<"free", t>> => i = SecondOrder(t) + 2
       /\ \A x \in {"doubleBuffer", "messageBus", "tagManager", "alarmEngine", "hub"} :
            Ending[i] = <<"free", x>> => i >= 16
<1>1. \A i \in 1 .. 20 : Ending[i][1] # "start" /\ (Ending[i][1] = "stopAll" => i = 9)
  BY DEF Ending
<1>2. \A t \in HostThreads : /\ Ending[FirstWait(t)] = <<"wait", t>>
                             /\ Ending[SecondOrder(t)] = <<"clear", t>>
                             /\ Ending[SecondOrder(t) + 1] = <<"wait", t>>
  BY DEF Ending, HostThreads, FirstWait, SecondOrder
<1>3. ASSUME NEW i \in 1 .. 20, NEW t \in HostThreads, Ending[i] = <<"free", t>>
      PROVE  i = SecondOrder(t) + 2
  BY <1>3 DEF Ending, HostThreads, SecondOrder
<1>4. ASSUME NEW i \in 1 .. 20,
             NEW x \in {"doubleBuffer", "messageBus", "tagManager", "alarmEngine", "hub"},
             Ending[i] = <<"free", x>>
      PROVE  i >= 16
  BY <1>4 DEF Ending
<1> QED BY <1>1, <1>2, <1>3, <1>4

ThreadsOK ==
  /\ activity \in [HostThreads -> {"off", "starting", "test", "work", "archive"}]
  /\ goOn \in [HostThreads -> BOOLEAN]
  /\ \A t \in HostThreads : activity[t] \in {"off", "starting"} => ~ goOn[t]

(* Nothing is destroyed as long as the event loop goes on.                  *)
WhileOpen ==
  ~ closed => freed = {} /\ \A i \in 1 .. Len(todo) : todo[i][1] # "free"

(* After the first wait a thread has set m_running for the last time, so    *)
(* that the second order to stop reaches it and the second wait sees it go. *)
Stopping(t) ==
  /\ Done >= FirstWait(t) => activity[t] # "starting"
  /\ Done >= SecondOrder(t) => ~ goOn[t]
  /\ Done >= SecondOrder(t) + 1 => activity[t] = "off"

WhileClosing ==
  closed =>
    /\ Len(todo) <= 20 /\ \A i \in 1 .. Len(todo) : todo[i] = Ending[Done + i]
    /\ \A x \in freed : \E i \in 1 .. Done : Ending[i] = <<"free", x>>
    /\ \A t \in HostThreads : Stopping(t)

EndInv ==
  /\ ThreadsOK /\ closed \in BOOLEAN /\ todo \in Seq(Steps)
  /\ WhileOpen /\ WhileClosing

(* A step of the main thread takes the head of its list.                    *)
LEMMA NextOfList ==
  ASSUME todo \in Seq(Steps), todo # << >>, todo' = Tail(todo)
  PROVE  /\ todo' \in Seq(Steps) /\ Len(todo') = Len(todo) - 1 /\ Len(todo) \in Nat \ {0}
         /\ \A i \in 1 .. Len(todo') : todo'[i] = todo[i + 1]
         /\ Head(todo) = todo[1]
OBVIOUS

LEMMA NextOfEnding ==
  ASSUME EndInv, closed, closed' = closed, NEW op, NEW x, Now(op, x)
  PROVE  /\ Done \in 0 .. 19 /\ Done' = Done + 1 /\ Ending[Done + 1] = <<op, x>>
         /\ todo' \in Seq(Steps) /\ Len(todo') <= 20
         /\ \A i \in 1 .. Len(todo') : todo'[i] = Ending[Done' + i]
<1>1. /\ todo' \in Seq(Steps) /\ Len(todo') = Len(todo) - 1 /\ Len(todo) \in Nat \ {0}
      /\ \A i \in 1 .. Len(todo') : todo'[i] = todo[i + 1]
      /\ todo[1] = <<op, x>>
  BY NextOfList DEF Now, EndInv
<1>2. Len(todo) <= 20 /\ \A i \in 1 .. Len(todo) : todo[i] = Ending[Done + i]
  BY DEF EndInv, WhileClosing
<1>3. Done \in 0 .. 19 /\ Done' = Done + 1 /\ Len(todo') <= 20
  <2> DEFINE n == Len(todo)
             left == Len(todo')
  <2>1. n \in Nat /\ n <= 20 /\ n # 0 /\ left = n - 1
    BY <1>1, <1>2
  <2>2. Done = 20 - n /\ Done' = 20 - left
    BY DEF Done
  <2> HIDE DEF n, left
  <2>3. Done \in 0 .. 19 /\ Done' = Done + 1 /\ left <= 20
    BY <2>1, <2>2
  <2> QED BY <2>3 DEF left
<1>4. Ending[Done + 1] = <<op, x>>
  BY <1>1, <1>2
<1>5. ASSUME NEW i \in 1 .. Len(todo') PROVE todo'[i] = Ending[Done' + i]
  <2>1. i + 1 \in 1 .. Len(todo) /\ Done + (i + 1) = Done' + i
    BY <1>1, <1>3
  <2> QED BY <1>1, <1>2, <2>1
<1> QED BY <1>1, <1>3, <1>4, <1>5

(* Before the window is closed no step frees anything.                      *)
LEMMA NextWhileOpen ==
  ASSUME EndInv, ~ closed, closed' = closed, NEW op, NEW x, Now(op, x), freed' = freed
  PROVE  todo' \in Seq(Steps) /\ WhileOpen' /\ WhileClosing' /\ op # "free"
<1>1. /\ todo' \in Seq(Steps) /\ Len(todo') = Len(todo) - 1 /\ Len(todo) \in Nat \ {0}
      /\ \A i \in 1 .. Len(todo') : todo'[i] = todo[i + 1]
      /\ todo[1] = <<op, x>>
  BY NextOfList DEF Now, EndInv
<1>2. freed = {} /\ \A i \in 1 .. Len(todo) : todo[i][1] # "free"
  BY DEF EndInv, WhileOpen
<1>3. \A i \in 1 .. Len(todo') : todo'[i][1] # "free"
  BY <1>1, <1>2
<1>4. op # "free"
  BY <1>1, <1>2
<1> QED BY <1>1, <1>2, <1>3, <1>4 DEF WhileOpen, WhileClosing

(* A step gets past one of the places that matter only if it is the one     *)
(* there.                                                                   *)
LEMMA AtThePlace ==
  ASSUME Done \in 0 .. 19, NEW op, NEW x, Ending[Done + 1] = <<op, x>>,
         NEW t \in HostThreads
  PROVE  /\ Done + 1 >= FirstWait(t) => Done >= FirstWait(t) \/ <<op, x>> = <<"wait", t>>
         /\ Done + 1 >= SecondOrder(t) =>
              Done >= SecondOrder(t) \/ <<op, x>> = <<"clear", t>>
         /\ Done + 1 >= SecondOrder(t) + 1 =>
              \/ Done >= SecondOrder(t) + 1
              \/ Done >= SecondOrder(t) /\ <<op, x>> = <<"wait", t>>
<1>1. FirstWait(t) \in 1 .. 20 /\ SecondOrder(t) \in 1 .. 19
  BY DEF FirstWait, SecondOrder
<1>2. /\ Ending[FirstWait(t)] = <<"wait", t>> /\ Ending[SecondOrder(t)] = <<"clear", t>>
      /\ Ending[SecondOrder(t) + 1] = <<"wait", t>>
  BY EndingOrder
<1>3. Done + 1 >= FirstWait(t) => Done >= FirstWait(t) \/ Done + 1 = FirstWait(t)
  BY <1>1
<1>4. Done + 1 >= SecondOrder(t) => Done >= SecondOrder(t) \/ Done + 1 = SecondOrder(t)
  BY <1>1
<1>5. Done + 1 >= SecondOrder(t) + 1 =>
        \/ Done >= SecondOrder(t) + 1
        \/ Done >= SecondOrder(t) /\ Done + 1 = SecondOrder(t) + 1
  BY <1>1
<1> QED BY <1>2, <1>3, <1>4, <1>5

(* The steps of the main thread while it destroys the context.              *)
LEMMA ClosingStep ==
  ASSUME EndInv, closed, closed' = closed, NEW op, NEW x, Now(op, x), ThreadsOK',
         \A y \in freed' : \E i \in 1 .. Done' : Ending[i] = <<"free", y>>,
         \A t \in HostThreads :
           /\ activity'[t] = activity[t]
           /\ ~ goOn[t] => ~ goOn'[t]
           /\ <<op, x>> = <<"clear", t>> => ~ goOn'[t]
           /\ <<op, x>> = <<"wait", t>> => activity[t] = "off" \/ goOn[t]
  PROVE  EndInv'
<1>1. /\ Done \in 0 .. 19 /\ Done' = Done + 1 /\ Ending[Done + 1] = <<op, x>>
      /\ todo' \in Seq(Steps) /\ Len(todo') <= 20
      /\ \A i \in 1 .. Len(todo') : todo'[i] = Ending[Done' + i]
  BY NextOfEnding
<1>2. ASSUME NEW t \in HostThreads PROVE Stopping(t)'
  <2>1. Stopping(t) /\ (activity[t] \in {"off", "starting"} => ~ goOn[t])
    BY DEF EndInv, WhileClosing, ThreadsOK
  <2>2. Done' >= FirstWait(t) => activity'[t] # "starting"
    BY <1>1, <2>1, AtThePlace DEF Stopping
  <2>3. Done' >= SecondOrder(t) => ~ goOn'[t]
    BY <1>1, <2>1, AtThePlace DEF Stopping
  <2>4. Done' >= SecondOrder(t) + 1 => activity'[t] = "off"
    BY <1>1, <2>1, AtThePlace DEF Stopping
  <2> QED BY <2>2, <2>3, <2>4 DEF Stopping
<1>3. WhileOpen' /\ WhileClosing'
  BY <1>1, <1>2 DEF WhileOpen, WhileClosing
<1> QED BY <1>1, <1>3 DEF EndInv

LEMMA MainStepKeeps ==
  ASSUME EndInv, NEW op, NEW x, Now(op, x), closed' = closed, ThreadsOK',
         freed' = IF op = "free" THEN freed \cup {x} ELSE freed,
         op # "start" =>
           \A t \in HostThreads :
             /\ activity'[t] = activity[t]
             /\ ~ goOn[t] => ~ goOn'[t]
             /\ <<op, x>> = <<"clear", t>> => ~ goOn'[t]
             /\ <<op, x>> = <<"wait", t>> => activity[t] = "off" \/ goOn[t]
  PROVE  EndInv'
<1>1. CASE ~ closed
  <2>1. op # "free"
    <3>1. todo # << >> /\ Head(todo) = <<op, x>> /\ todo \in Seq(Steps)
      BY DEF Now, EndInv
    <3>2. 1 \in 1 .. Len(todo) /\ Head(todo) = todo[1]
      BY <3>1
    <3>3. todo[1][1] # "free"
      BY <1>1, <3>2 DEF EndInv, WhileOpen
    <3> QED BY <3>1, <3>2, <3>3
  <2>2. todo' \in Seq(Steps) /\ WhileOpen' /\ WhileClosing'
    BY <1>1, <2>1, NextWhileOpen
  <2> QED BY <2>2 DEF EndInv
<1>2. CASE closed
  <2>1. /\ Done \in 0 .. 19 /\ Done' = Done + 1 /\ Ending[Done + 1] = <<op, x>>
    BY <1>2, NextOfEnding
  <2>2. op # "start"
    <3>1. Done + 1 \in 1 .. 20
      BY <2>1
    <3>2. Ending[Done + 1][1] # "start"
      BY <3>1, EndingOrder
    <3> QED BY <2>1, <3>2
  <2>3. \A y \in freed' : \E i \in 1 .. Done' : Ending[i] = <<"free", y>>
    <3>1. \A y \in freed : \E i \in 1 .. Done : Ending[i] = <<"free", y>>
      BY <1>2 DEF EndInv, WhileClosing
    <3>2. 1 .. Done \subseteq 1 .. Done' /\ Done + 1 \in 1 .. Done'
      BY <2>1
    <3> QED BY <2>1, <3>1, <3>2
  <2> QED BY <1>2, <2>2, <2>3, ClosingStep
<1> QED BY <1>1, <1>2

(* The threads run on; where they stand allows no more.                     *)
LEMMA ThreadStepKeeps ==
  ASSUME EndInv, NEW u \in HostThreads, ThreadStep(u)
  PROVE  EndInv'
<1>1. /\ todo' = todo /\ closed' = closed /\ freed' = freed /\ Done' = Done
      /\ ThreadsOK
  BY DEF ThreadStep, EnterRun, TestRunning, Work, Archive, Moves, EndInv, Done
<1>2. ThreadsOK'
  BY <1>1 DEF ThreadStep, EnterRun, TestRunning, Work, Archive, Moves, ThreadsOK
<1>3. ASSUME NEW t \in HostThreads, Done \in Int, Stopping(t) PROVE Stopping(t)'
  <2>1. FirstWait(t) < SecondOrder(t) /\ FirstWait(t) \in Int /\ SecondOrder(t) \in Int
    BY DEF FirstWait, SecondOrder
  <2>2. Done >= SecondOrder(t) + 1 => Done >= SecondOrder(t)
    BY <1>3, <2>1
  <2>3. Done >= SecondOrder(t) => Done >= FirstWait(t)
    BY <1>3, <2>1
  <2>4. CASE t # u
    <3>1. activity'[t] = activity[t] /\ goOn'[t] = goOn[t]
      BY <1>1, <2>4
         DEF ThreadStep, EnterRun, TestRunning, Work, Archive, Moves, ThreadsOK
    <3> QED BY <1>1, <1>3, <3>1 DEF Stopping
  <2>5. CASE t = u
    <3>1. CASE EnterRun(u)
      <4>1. activity[u] = "starting" /\ activity'[u] = "test"
        BY <1>1, <3>1 DEF EnterRun, Moves, ThreadsOK
      <4> QED BY <1>1, <1>3, <2>2, <2>3, <2>5, <4>1 DEF Stopping
    <3>2. CASE TestRunning(u) \/ Work(u) \/ Archive(u)
      <4>1. activity[u] # "off" /\ activity'[u] # "starting" /\ goOn' = goOn
        BY <1>1, <3>2 DEF TestRunning, Work, Archive, Moves, ThreadsOK
      <4> QED BY <1>1, <1>3, <2>5, <4>1 DEF Stopping
    <3> QED BY <3>1, <3>2 DEF ThreadStep
  <2> QED BY <2>4, <2>5
<1>4. Done \in Int
  <2> DEFINE n == Len(todo)
  <2>1. n \in Nat
    BY DEF EndInv
  <2> HIDE DEF n
  <2>2. 20 - n \in Int
    BY <2>1
  <2> QED BY <2>2 DEF Done, n
<1>5. WhileClosing'
  BY <1>1, <1>3, <1>4 DEF EndInv, WhileClosing
<1> QED BY <1>1, <1>2, <1>5 DEF EndInv, WhileOpen

(* The three things the operator can do.                                    *)
LEMMA OperatorKeeps ==
  ASSUME EndInv, ConnectAll \/ DisconnectAll \/ CloseWindow
  PROVE  EndInv'
<1>1. ThreadsOK' /\ freed' = freed
  BY DEF EndInv, ThreadsOK, ConnectAll, DisconnectAll, CloseWindow
<1>2. CASE ConnectAll
  <2>1. ~ closed /\ ~ closed' /\ todo' = StartPipeline
    BY <1>2 DEF ConnectAll, InEventLoop
  <2>2. StartPipeline \in Seq(Steps)
    BY StepsAreSteps, ShortLists DEF StartPipeline, HostThreads
  <2>3. \A i \in 1 .. Len(StartPipeline) : StartPipeline[i][1] # "free"
    BY DEF StartPipeline
  <2> QED BY <1>1, <1>2, <2>1, <2>2, <2>3 DEF EndInv, WhileOpen, WhileClosing, ConnectAll
<1>3. CASE DisconnectAll
  <2>1. ~ closed /\ ~ closed' /\ todo' = StopPipeline
    BY <1>3 DEF DisconnectAll, InEventLoop
  <2>2. StopPipeline \in Seq(Steps)
    BY StopIsSteps
  <2>3. \A i \in 1 .. Len(StopPipeline) : StopPipeline[i][1] # "free"
    <3>1. Len(StopPipeline) = 5
      BY DEF StopPipeline, StopThread
    <3>2. /\ StopPipeline[1] = <<"clear", "parseThread">>
          /\ StopPipeline[2] = <<"wait", "parseThread">>
          /\ StopPipeline[3] = <<"clear", "historySampler">>
          /\ StopPipeline[4] = <<"wait", "historySampler">>
          /\ StopPipeline[5] = <<"stopAll", "fieldbus">>
      BY DEF StopPipeline, StopThread
    <3>3. \A i \in 1 .. 5 : StopPipeline[i][1] # "free"
      BY <3>2
    <3> QED BY <3>1, <3>3
  <2> QED BY <1>1, <1>3, <2>1, <2>2, <2>3 DEF EndInv, WhileOpen, WhileClosing, DisconnectAll
<1>4. CASE CloseWindow
  <2>1. /\ ~ closed /\ closed' = TRUE /\ todo' = DestroyContext
    BY <1>4 DEF CloseWindow, InEventLoop
  <2>2. /\ todo' \in Seq(Steps) /\ Len(todo') = 20
        /\ \A i \in 1 .. 20 : todo'[i] = Ending[i]
    BY <2>1, ContextIsEnding
  <2>3. Done' = 0
    BY <2>2 DEF Done
  <2>4. \A i \in 1 .. 20 : Done' + i = i
    BY <2>3
  <2>5. freed' = {}
    BY <1>1, <2>1 DEF EndInv, WhileOpen
  <2>6. \A t \in HostThreads : Stopping(t)'
    BY <2>3 DEF Stopping, FirstWait, SecondOrder
  <2>7. WhileOpen' /\ WhileClosing'
    BY <2>1, <2>2, <2>4, <2>5, <2>6 DEF WhileOpen, WhileClosing
  <2> QED BY <1>1, <2>1, <2>2, <2>7 DEF EndInv
<1> QED BY <1>2, <1>3, <1>4

LEMMA EndInvStep ==
  ASSUME EndInv, [LifecycleNext]_lifecycleVars
  PROVE  EndInv'
<1>1. CASE ConnectAll \/ DisconnectAll \/ CloseWindow
  BY <1>1, OperatorKeeps
<1>2. CASE StopBus
  <2>1. ThreadsOK'
    BY <1>2 DEF StopBus, EndInv, ThreadsOK
  <2> QED BY <1>2, <2>1, MainStepKeeps DEF StopBus
<1>3. ASSUME NEW t \in HostThreads, StartThread(t) PROVE EndInv'
  <2>1. ThreadsOK'
    BY <1>3 DEF StartThread, EndInv, ThreadsOK
  <2> QED BY <1>3, <2>1, MainStepKeeps DEF StartThread
<1>4. ASSUME NEW t \in HostThreads, ClearRunning(t) PROVE EndInv'
  <2>1. ThreadsOK'
    BY <1>4 DEF ClearRunning, EndInv, ThreadsOK
  <2>2. \A u \in HostThreads : /\ ~ goOn[u] => ~ goOn'[u]
                               /\ <<"clear", t>> = <<"clear", u>> => ~ goOn'[u]
    BY <1>4 DEF ClearRunning, EndInv, ThreadsOK
  <2> QED BY <1>4, <2>1, <2>2, MainStepKeeps DEF ClearRunning
<1>5. ASSUME NEW t \in HostThreads, WaitForThread(t) PROVE EndInv'
  <2>1. ThreadsOK'
    BY <1>5 DEF WaitForThread, EndInv, ThreadsOK
  <2>2. \A u \in HostThreads :
          <<"wait", t>> = <<"wait", u>> => activity[u] = "off" \/ goOn[u]
    BY <1>5 DEF WaitForThread
  <2> QED BY <1>5, <2>1, <2>2, MainStepKeeps DEF WaitForThread
<1>6. ASSUME NEW x \in Freeable, Destroy(x) PROVE EndInv'
  <2>1. ThreadsOK'
    BY <1>6 DEF Destroy, EndInv, ThreadsOK
  <2> QED BY <1>6, <2>1, MainStepKeeps DEF Destroy
<1>7. ASSUME NEW t \in HostThreads, ThreadStep(t) PROVE EndInv'
  BY <1>7, ThreadStepKeeps
<1>8. CASE UNCHANGED lifecycleVars
  <2>1. Done' = Done
    BY <1>8 DEF lifecycleVars, Done
  <2> QED BY <1>8, <2>1
          DEF lifecycleVars, EndInv, ThreadsOK, WhileOpen, WhileClosing, Stopping
<1> QED
  BY <1>1, <1>2, <1>3, <1>4, <1>5, <1>6, <1>7, <1>8
     DEF LifecycleNext, MainThreadStep, Ended

LEMMA EndInvariant == LifecycleSpec => []EndInv
<1>1. LifecycleInit => EndInv
  <2> SUFFICES ASSUME LifecycleInit PROVE EndInv
    OBVIOUS
  <2>1. ThreadsOK
    BY DEF LifecycleInit, ThreadsOK
  <2>2. todo \in Seq(Steps) /\ Len(todo) = 0
    BY DEF LifecycleInit
  <2>3. WhileOpen /\ WhileClosing
    BY <2>2 DEF LifecycleInit, WhileOpen, WhileClosing
  <2> QED BY <2>1, <2>2, <2>3 DEF LifecycleInit, EndInv
<1>2. EndInv /\ [LifecycleNext]_lifecycleVars => EndInv'
  BY EndInvStep
<1> QED BY <1>1, <1>2, PTL DEF LifecycleSpec

(* Both threads have ended for good before anything behind them goes.       *)
LEMMA LateIsAfterThreads ==
  ASSUME EndInv, closed, NEW t \in HostThreads, NEW i \in 1 .. Done,
         i >= SecondOrder(t) + 1
  PROVE  activity[t] = "off"
<1>1. Done \in Int
  <2> DEFINE n == Len(todo)
  <2>1. n \in Nat
    BY DEF EndInv
  <2> HIDE DEF n
  <2>2. 20 - n \in Int
    BY <2>1
  <2> QED BY <2>2 DEF Done, n
<1>2. SecondOrder(t) + 1 \in Int
  BY DEF SecondOrder
<1>3. Done >= SecondOrder(t) + 1
  BY <1>1, <1>2
<1> QED BY <1>3 DEF EndInv, WhileClosing, Stopping

(* Nothing is freed before the window is closed, and only at its step of    *)
(* the ending after that.                                                   *)
LEMMA FreedAtItsStep ==
  ASSUME EndInv, NEW x \in freed
  PROVE  closed /\ \E i \in 1 .. Done : i \in 1 .. 20 /\ Ending[i] = <<"free", x>>
<1>1. closed
  BY DEF EndInv, WhileOpen
<1>2. Done <= 20 /\ Done \in Int
  <2> DEFINE n == Len(todo)
  <2>1. n \in Nat
    BY DEF EndInv
  <2> HIDE DEF n
  <2>2. 20 - n \in Int /\ 20 - n <= 20
    BY <2>1
  <2> QED BY <2>2 DEF Done, n
<1>3. 1 .. Done \subseteq 1 .. 20
  BY <1>2
<1> QED BY <1>1, <1>3 DEF EndInv, WhileClosing

(* No thread is under way when its object is destroyed: the second order to *)
(* stop reaches it and the wait that follows sees it go                     *)
(* (HistorySampler.cpp:22-30, DataParseThread.cpp:27-52).                   *)
THEOREM ThreadsEndBeforeTheyGo == LifecycleSpec => []DestroyedStopped
<1>1. EndInv => DestroyedStopped
  <2> SUFFICES ASSUME EndInv, NEW t \in HostThreads, t \in freed
               PROVE  activity[t] = "off"
    BY DEF DestroyedStopped
  <2>1. closed /\ \E i \in 1 .. Done : i \in 1 .. 20 /\ Ending[i] = <<"free", t>>
    BY FreedAtItsStep
  <2>2. PICK i \in 1 .. Done : i \in 1 .. 20 /\ Ending[i] = <<"free", t>>
    BY <2>1
  <2>3. i = SecondOrder(t) + 2
    BY <2>2, EndingOrder
  <2>4. i >= SecondOrder(t) + 1
    BY <2>3 DEF SecondOrder
  <2> QED BY <2>1, <2>2, <2>4, LateIsAfterThreads
<1> QED BY <1>1, EndInvariant, PTL

(* Once one of the things that the threads use is destroyed, or the hub,    *)
(* both threads have ended and no stop() is left to do.                     *)
LEMMA NothingUsedLate ==
  ASSUME EndInv,
         NEW x \in {"doubleBuffer", "messageBus", "tagManager", "alarmEngine", "hub"},
         x \in freed
  PROVE  InUse = {}
<1>1. closed /\ \E i \in 1 .. Done : i \in 1 .. 20 /\ Ending[i] = <<"free", x>>
  BY FreedAtItsStep
<1>2. PICK i \in 1 .. Done : i \in 1 .. 20 /\ Ending[i] = <<"free", x>>
  BY <1>1
<1>3. i >= 16
  BY <1>2, EndingOrder
<1>4. activity["parseThread"] = "off" /\ activity["historySampler"] = "off"
  <2>1. \A t \in HostThreads : i >= SecondOrder(t) + 1
    BY <1>2, <1>3 DEF SecondOrder
  <2> QED BY <1>1, <1>2, <2>1, LateIsAfterThreads DEF HostThreads
<1>5. ~ (todo # << >> /\ Head(todo)[1] = "stopAll")
  <2> SUFFICES ASSUME todo # << >>, Head(todo)[1] = "stopAll" PROVE FALSE
    OBVIOUS
  <2> DEFINE n == Len(todo)
  <2>1. n \in Nat /\ n # 0 /\ Head(todo) = todo[1] /\ 1 \in 1 .. Len(todo)
    BY DEF EndInv
  <2>2. n <= 20 /\ todo[1] = Ending[Done + 1]
    BY <1>1, <2>1 DEF EndInv, WhileClosing
  <2>3. Done = 20 - n
    BY DEF Done
  <2> HIDE DEF n
  <2>4. Done \in Int /\ Done + 1 \in 1 .. 20 /\ i <= Done
    BY <1>2, <2>1, <2>2, <2>3
  <2>5. Done + 1 # 9
    BY <1>2, <1>3, <2>4
  <2> QED BY <2>1, <2>2, <2>4, <2>5, EndingOrder
<1> QED BY <1>4, <1>5 DEF InUse

ServedByEither == servedBy \in [HostServices -> {"plugin", "null"}]

LEMMA BuilderServesAll == LifecycleSpec => []ServedByEither
<1>1. LifecycleInit => ServedByEither
  BY DEF LifecycleInit, ServedByEither
<1>2. ServedByEither /\ [LifecycleNext]_lifecycleVars => ServedByEither'
  BY DEF ServedByEither, LifecycleNext, MainThreadStep, ThreadStep, ConnectAll, DisconnectAll,
         CloseWindow, StopBus, Ended, StartThread, ClearRunning, WaitForThread,
         Destroy, EnterRun, TestRunning, Work, Archive, Moves, lifecycleVars
<1> QED BY <1>1, <1>2, PTL DEF LifecycleSpec

(* What the threads use of the pipeline goes after both have ended, and the *)
(* pointer that main holds keeps the plugins until then.                    *)
LEMMA UsedIsAliveOrNull == EndInv /\ ServedByEither => OnlyNullObjectsDangle
<1> SUFFICES ASSUME EndInv, ServedByEither, NEW x \in InUse,
                    ~ (x \in HostServices /\ servedBy[x] = "null")
             PROVE  Alive(x)
  BY DEF OnlyNullObjectsDangle
<1>1. \A y \in {"doubleBuffer", "messageBus", "tagManager", "alarmEngine", "hub"} :
        y \notin freed
  BY NothingUsedLate
<1>2. x \in {"doubleBuffer", "messageBus", "tagManager", "alarmEngine",
             "historyRepo", "fieldbus"}
  BY DEF InUse
<1>3. CASE x \in HostServices
  <2>1. servedBy[x] = "plugin"
    BY <1>3 DEF ServedByEither
  <2>2. "hub" \in HubOwners /\ "hub" \notin freed
    BY <1>1 DEF HubOwners
  <2> QED BY <1>3, <2>1, <2>2 DEF Alive
<1>4. CASE x \notin HostServices
  <2>1. x \notin freed
    BY <1>1, <1>2, <1>4 DEF HostServices
  <2> QED BY <1>4, <2>1 DEF Alive
<1> QED BY <1>3, <1>4

(* At most null objects are used after they were destroyed; nothing else    *)
(* is, whenever the window is closed                                        *)
(* (AppContext.h:18-32, DataPipeline.cpp:19,53, ApplicationBuilder.h:61).   *)
THEOREM OnlyNullUsedAfterItsEnd == LifecycleSpec => []OnlyNullObjectsDangle
  BY UsedIsAliveOrNull, EndInvariant, BuilderServesAll, PTL

(* So with a plugin behind every service nothing at all is used after it    *)
(* was destroyed: what the builder chose is never exchanged.                *)
PluginsOnly == servedBy = [s \in HostServices |-> "plugin"]

THEOREM PluginsLastToTheEnd == PluginsOnly /\ LifecycleSpec => []NoDanglingUse
<1>1. PluginsOnly /\ [LifecycleNext]_lifecycleVars => PluginsOnly'
  BY DEF PluginsOnly, LifecycleNext, MainThreadStep, ThreadStep, ConnectAll, DisconnectAll,
         CloseWindow, StopBus, Ended, StartThread, ClearRunning, WaitForThread,
         Destroy, EnterRun, TestRunning, Work, Archive, Moves, lifecycleVars
<1>2. PluginsOnly /\ OnlyNullObjectsDangle => NoDanglingUse
  BY DEF PluginsOnly, OnlyNullObjectsDangle, NoDanglingUse
<1> QED BY <1>1, <1>2, OnlyNullUsedAfterItsEnd, PTL DEF LifecycleSpec
=============================================================================
