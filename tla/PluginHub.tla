------------------------------ MODULE PluginHub ------------------------------
(***************************************************************************)
(* PluginHub and the part of ApplicationBuilder that asks it for services. *)
(* All of it runs on the main thread.  The calls that replace a plugin at  *)
(* run time are made by no part of the host; they are modelled as the      *)
(* interface offers them, in any order, once the application is built.     *)
(*                                                                         *)
(* External: Qt counts how many loaders hold a library and removes it, and *)
(* the object in it, when the last one lets go.  A service that is not     *)
(* found is served by a null object, NoPlugin.  canSwitch changes nothing: *)
(* its own loader lets go of what it took.  Logging, the audit trail and   *)
(* the signals are left out.                                               *)
(***************************************************************************)
EXTENDS Naturals, Sequences, FiniteSets

CONSTANTS
  Files,       \* the libraries in the directory
  Services,    \* the identifiers of the interfaces, IFieldBus_iid and so on
  IidOf,       \* the identifier that the metadata of a file declares
  Companion,   \* the priority in the companion file, 0 without one
  NoPlugin,
  MaxLoaded    \* a bound on m_loaded for the calls of resolve at run time

SwitchPriority == 100

ASSUME HubAssumption ==
  /\ IidOf \in [Files -> Services] /\ Companion \in [Files -> Nat]
  /\ NoPlugin \notin Files /\ MaxLoaded \in Nat
  /\ {"fieldbus", "alarm", "history", "mqtt"} \subseteq Services

VARIABLES
  content,     \* external: whether a library loads, and holds what it declares
  discovered,  \* m_discovered, the descriptors that passed
  loaded,      \* m_loaded
  holders,     \* external: the number of loaders that hold a library
  service,     \* the services of AppContext
  stage,       \* how far ApplicationBuilder is
  released,    \* ghost: the services whose plugin somebody asked to be unloaded
  switched     \* ghost: the file a service was switched to since the last scan

hub == <<discovered, loaded, holders>>
ghosts == <<released, switched>>
hubVars == <<content, hub, service, stage, ghosts>>

HubInit ==
  /\ content \in [Files -> {"good", "broken", "foreign"}]
  /\ discovered = {} /\ loaded = << >> /\ holders = [f \in Files |-> 0]
  /\ service = [s \in Services |-> NoPlugin]
  /\ stage = "scan"
  /\ released = {} /\ switched = [s \in Services |-> NoPlugin]

-----------------------------------------------------------------------------
(* resolve                                                                  *)

Candidates(s) == {d \in discovered : d.iid = s}
Loads(d) == content[d.file] # "broken"
Casts(d) == content[d.file] = "good" /\ IidOf[d.file] = d.iid

(* The first of the sorted candidates that works; the order of equals is    *)
(* not defined.                                                             *)
Chosen(s) ==
  {d \in Candidates(s) :
     Casts(d) /\ \A e \in Candidates(s) : Casts(e) => e.priority <= d.priority}

(* What resolve returns.                                                    *)
Outcomes(s) ==
  IF Chosen(s) = {} THEN {NoPlugin} ELSE {d.file : d \in Chosen(s)}

(* What the candidates that fail on the way leave loaded: nothing.          *)
(* Faulty variant: the loader of a library that does not cast is deleted    *)
(* without unloading it.                                                    *)
StaysLoaded(s) ==
  {e.file : e \in {c \in Candidates(s) :
     Loads(c) /\ ~Casts(c) /\ \A d \in Chosen(s) : c.priority > d.priority}}
LeftLoaded(s) == {}

Entry(s, file) == IF file = NoPlugin THEN << >> ELSE <<[file |-> file, iid |-> s]>>
HeldAfter(held, s, file) ==
  [f \in Files |-> held[f] + IF f = file \/ f \in LeftLoaded(s) THEN 1 ELSE 0]

ResolveTo(s, file) ==
  /\ file \in Outcomes(s)
  /\ loaded' = loaded \o Entry(s, file)
  /\ holders' = HeldAfter(holders, s, file)

-----------------------------------------------------------------------------
(* main and ApplicationBuilder.                                             *)

(* scanAll looks at the metadata only, and finds nothing if the directory   *)
(* is not there.                                                            *)
Found == {[file |-> f, iid |-> IidOf[f], priority |-> Companion[f]] : f \in Files}
ScanAll ==
  /\ stage \in {"scan", "built"}
  /\ discovered' \in {Found, {}}
  /\ stage' = IF stage = "scan" THEN "fieldbus" ELSE stage
  /\ switched' = [s \in Services |-> NoPlugin]
  /\ UNCHANGED <<content, loaded, holders, service, released>>

WithFieldbus ==
  /\ stage = "fieldbus" /\ stage' = "database"
  /\ \E file \in Outcomes("fieldbus") :
       /\ ResolveTo("fieldbus", file)
       /\ service' = [service EXCEPT !["fieldbus"] = file]
  /\ UNCHANGED <<content, discovered, ghosts>>

(* The two repositories come from plugins together or not at all; one that  *)
(* was found alone stays loaded.                                            *)
WithDatabase ==
  /\ stage = "database" /\ stage' = "mqtt"
  /\ \E a \in Outcomes("alarm"), h \in Outcomes("history") :
       /\ loaded' = loaded \o Entry("alarm", a) \o Entry("history", h)
       /\ holders' = HeldAfter(HeldAfter(holders, "alarm", a), "history", h)
       /\ service' = IF NoPlugin \in {a, h} THEN service
                     ELSE [service EXCEPT !["alarm"] = a, !["history"] = h]
  /\ UNCHANGED <<content, discovered, ghosts>>

WithMqtt ==
  /\ stage = "mqtt" /\ stage' = "built"
  /\ \/ UNCHANGED <<loaded, holders, service>>      \* it is not enabled
     \/ \E file \in Outcomes("mqtt") :
          /\ ResolveTo("mqtt", file)
          /\ service' = [service EXCEPT !["mqtt"] = file]
  /\ UNCHANGED <<content, discovered, ghosts>>

-----------------------------------------------------------------------------
(* The interface at run time.                                               *)

Resolve(s) ==
  /\ stage = "built" /\ Len(loaded) < MaxLoaded
  /\ \E file \in Outcomes(s) : ResolveTo(s, file)
  /\ UNCHANGED <<content, discovered, service, stage, ghosts>>

(* unloadPlugin: the oldest entry of the service goes.                      *)
(* Faulty variant: the oldest entry goes, whatever it serves.               *)
AnyEntries(s) == DOMAIN loaded
Entries(s) == {i \in DOMAIN loaded : loaded[i].iid = s}
Unload(s) ==
  \/ \E i \in Entries(s) :
       /\ \A j \in Entries(s) : i <= j
       /\ loaded' = SubSeq(loaded, 1, i - 1) \o SubSeq(loaded, i + 1, Len(loaded))
       /\ holders' = [holders EXCEPT ![loaded[i].file] = @ - 1]
  \/ Entries(s) = {} /\ UNCHANGED <<loaded, holders>>

UnloadPlugin(s) ==
  /\ stage = "built"
  /\ Unload(s)
  /\ released' = released \cup {s}
  /\ UNCHANGED <<content, discovered, service, stage, switched>>

(* switchPlugin: only the descriptors change, nothing is loaded.            *)
(* Faulty variant: the descriptors from the scan stay.                      *)
AllKept(s) == discovered
OfOthers(s) == discovered \ Candidates(s)
SwitchPlugin(s, file) ==
  /\ stage = "built"
  /\ Unload(s)
  /\ discovered' = OfOthers(s)
                     \cup {[file |-> file, iid |-> s, priority |-> SwitchPriority]}
  /\ released' = released \cup {s}
  /\ switched' = [switched EXCEPT ![s] = file]
  /\ UNCHANGED <<content, service, stage>>

UnloadAll ==
  /\ stage = "built"
  /\ loaded' = << >>
  /\ holders' = [f \in Files |->
                   holders[f] - Cardinality({i \in DOMAIN loaded : loaded[i].file = f})]
  /\ released' = Services
  /\ UNCHANGED <<content, discovered, service, stage, switched>>

-----------------------------------------------------------------------------
HubNext ==
  \/ ScanAll \/ WithFieldbus \/ WithDatabase \/ WithMqtt
  \/ UnloadAll
  \/ \E s \in Services :
       Resolve(s) \/ UnloadPlugin(s) \/ \E file \in Files : SwitchPlugin(s, file)

HubSpec == HubInit /\ [][HubNext]_hubVars

-----------------------------------------------------------------------------
(* Properties.                                                              *)

(* No library stays in memory that the hub does not know of, and none that  *)
(* it counts on has gone, whatever candidates failed on the way             *)
(* (PluginHub.h:73-96, PluginHub.cpp:54-67).                                *)
LibrariesAccounted ==
  \A f \in Files :
    holders[f] = Cardinality({i \in DOMAIN loaded : loaded[i].file = f})

(* The object behind a service is there until its plugin is unloaded:       *)
(* other plugins come and go (ApplicationBuilder.h:56-88, PluginHub.cpp:54). *)
ServicesAlive ==
  \A s \in Services \ released :
    service[s] # NoPlugin => holders[service[s]] > 0

(* After a switch the service is never resolved to another file, whatever   *)
(* priorities the scan found (PluginHub.cpp:87-96).                         *)
SwitchedIsResolved ==
  \A s \in Services :
    switched[s] # NoPlugin => \A d \in Chosen(s) : d.file = switched[s]
=============================================================================
