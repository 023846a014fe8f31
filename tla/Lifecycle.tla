------------------------------ MODULE Lifecycle ------------------------------
(***************************************************************************)
(* The end of the application: main.cpp, the owners that                   *)
(* ApplicationBuilder gives the services, the order in which AppContext    *)
(* and DataPipeline are destroyed, and the two threads of the pipeline     *)
(* that may still be under way then.  The operator connects and            *)
(* disconnects any number of times and closes the window at any moment.    *)
(*                                                                         *)
(* wait(3000) is taken to return in time from a thread that was told to    *)
(* stop: starting up and one pass of its loop take less than 3 seconds.    *)
(* The threads of Modbus devices, which nothing ends, are in ModbusDevice; *)
(* here the field bus is one that works in the main thread.                *)
(***************************************************************************)
EXTENDS Sequences

VARIABLES
  servedBy,   \* whether a plugin or a null object serves each service
  todo,       \* what the main thread has to do before the event loop goes on
  pressed,    \* m_connected of the main window
  closed,     \* app.exec() has returned
  freed,      \* what has been destroyed; "hub" is the pointer that main holds
  activity,   \* where each thread is: "off", "starting", or its next step
  goOn        \* m_running of each thread

lifecycleVars == <<servedBy, todo, pressed, closed, freed, activity, goOn>>

HostThreads == {"parseThread", "historySampler"}
HostServices == {"fieldbus", "alarmRepo", "historyRepo"}

(* The builder: a plugin or a null object, and both repositories alike.     *)
LifecycleInit ==
  /\ servedBy \in [HostServices -> {"plugin", "null"}]
  /\ servedBy["alarmRepo"] = servedBy["historyRepo"]
  /\ todo = << >> /\ pressed = FALSE /\ closed = FALSE /\ freed = {}
  /\ activity = [t \in HostThreads |-> "off"]
  /\ goOn = [t \in HostThreads |-> FALSE]

-----------------------------------------------------------------------------
(* Who keeps the hub, and with it the objects of the plugins: the pointer   *)
(* of main, the one of AppContext, and every service that shares it.        *)
(* Faulty variant: main hands its pointer over to the builder.              *)
ContextOwners == {"pluginHub"} \cup {s \in HostServices : servedBy[s] = "plugin"}
HubOwners == {"hub", "pluginHub"} \cup {s \in HostServices : servedBy[s] = "plugin"}

Alive(x) ==
  IF x \in HostServices /\ servedBy[x] = "plugin"
  THEN ~ HubOwners \subseteq freed
  ELSE x \notin freed

-----------------------------------------------------------------------------
(* What the main thread does, as sequences of steps.                        *)

StopThread(t) == << <<"clear", t>>, <<"wait", t>> >>

StartPipeline == << <<"start", "parseThread">>, <<"start", "historySampler">> >>

StopPipeline ==
  StopThread("parseThread") \o StopThread("historySampler")
    \o << <<"stopAll", "fieldbus">> >>

(* Each thread stops once more before it is destroyed.                      *)
(* Faulty variant: it is left to the pipeline that owns it.                 *)
DestroyAtOnce(t) == << <<"free", t>> >>
DestroyThread(t) == StopThread(t) \o << <<"free", t>> >>

DestroyPipeline ==
  StopPipeline \o DestroyThread("historySampler") \o DestroyThread("parseThread")
    \o << <<"free", "doubleBuffer">>, <<"free", "messageBus">> >>

(* The members of AppContext from the last to the first, then the hub.      *)
DestroyContext ==
  << <<"free", "pluginHub">>, <<"free", "historyRepo">>,
     <<"free", "alarmRepo">>, <<"free", "fieldbus">> >>
    \o DestroyPipeline
    \o << <<"free", "tagManager">>, <<"free", "alarmEngine">>, <<"free", "hub">> >>

InEventLoop == todo = << >> /\ ~ closed

ConnectAll ==
  /\ InEventLoop /\ ~ pressed
  /\ pressed' = TRUE /\ todo' = StartPipeline
  /\ UNCHANGED <<servedBy, closed, freed, activity, goOn>>

DisconnectAll ==
  /\ InEventLoop /\ pressed
  /\ pressed' = FALSE /\ todo' = StopPipeline
  /\ UNCHANGED <<servedBy, closed, freed, activity, goOn>>

CloseWindow ==
  /\ InEventLoop
  /\ closed' = TRUE /\ todo' = DestroyContext
  /\ UNCHANGED <<servedBy, pressed, freed, activity, goOn>>

-----------------------------------------------------------------------------
(* The steps of the main thread.                                            *)

Now(op, x) == todo # << >> /\ Head(todo) = <<op, x>> /\ todo' = Tail(todo)

(* start() of a thread that has not finished does nothing.                  *)
StartThread(t) ==
  /\ Now("start", t)
  /\ activity' = [activity EXCEPT ![t] = IF @ = "off" THEN "starting" ELSE @]
  /\ UNCHANGED <<servedBy, pressed, closed, freed, goOn>>

ClearRunning(t) ==
  /\ Now("clear", t)
  /\ goOn' = [goOn EXCEPT ![t] = FALSE]
  /\ UNCHANGED <<servedBy, pressed, closed, freed, activity>>

(* The three seconds pass only over a thread that has set m_running after   *)
(* it was cleared.                                                          *)
WaitForThread(t) ==
  /\ Now("wait", t)
  /\ activity[t] = "off" \/ goOn[t]
  /\ UNCHANGED <<servedBy, pressed, closed, freed, activity, goOn>>

StopBus ==
  /\ Now("stopAll", "fieldbus")
  /\ UNCHANGED <<servedBy, pressed, closed, freed, activity, goOn>>

Destroy(x) ==
  /\ Now("free", x)
  /\ freed' = freed \cup {x}
  /\ UNCHANGED <<servedBy, pressed, closed, activity, goOn>>

Ended == closed /\ todo = << >> /\ UNCHANGED lifecycleVars

-----------------------------------------------------------------------------
(* The threads.                                                             *)

Moves(t, from, to) ==
  /\ activity[t] = from /\ activity' = [activity EXCEPT ![t] = to]
  /\ UNCHANGED <<servedBy, todo, pressed, closed, freed>>

EnterRun(t) ==
  /\ Moves(t, "starting", "test")
  /\ goOn' = [goOn EXCEPT ![t] = TRUE]

TestRunning(t) ==
  /\ Moves(t, "test", IF goOn[t] THEN "work" ELSE "off")
  /\ UNCHANGED goOn

(* One pass over the queue, or a round of samples, which may be the one     *)
(* that archives.                                                           *)
Work(t) ==
  /\ \/ Moves(t, "work", "test")
     \/ t = "historySampler" /\ Moves(t, "work", "archive")
  /\ UNCHANGED goOn

Archive(t) == Moves(t, "archive", "test") /\ UNCHANGED goOn

-----------------------------------------------------------------------------
Freeable == HostServices \cup HostThreads \cup
            {"hub", "pluginHub", "doubleBuffer", "messageBus", "tagManager", "alarmEngine"}

MainThreadStep ==
  \/ ConnectAll \/ DisconnectAll \/ CloseWindow \/ StopBus \/ Ended
  \/ \E t \in HostThreads : StartThread(t) \/ ClearRunning(t) \/ WaitForThread(t)
  \/ \E x \in Freeable : Destroy(x)

ThreadStep(t) == EnterRun(t) \/ TestRunning(t) \/ Work(t) \/ Archive(t)

LifecycleNext == MainThreadStep \/ \E t \in HostThreads : ThreadStep(t)

LifecycleSpec == LifecycleInit /\ [][LifecycleNext]_lifecycleVars

-----------------------------------------------------------------------------
(* Properties.                                                              *)

(* What is about to be used: by a pass of the parse thread, by a round of   *)
(* the sampler, by its archiving, and by the main thread in stop().         *)
InUse ==
  UNION {IF activity["parseThread"] = "work"
         THEN {"messageBus", "doubleBuffer", "tagManager", "alarmEngine"} ELSE {},
         IF activity["historySampler"] = "work" THEN {"doubleBuffer"} ELSE {},
         IF activity["historySampler"] = "archive" THEN {"historyRepo"} ELSE {},
         IF todo # << >> /\ Head(todo)[1] = "stopAll" THEN {"fieldbus"} ELSE {}}

(* Without plugins the program works with null objects and does not crash   *)
(* (user-manual.md:243): nothing is used after it was destroyed, whenever   *)
(* the window is closed and whatever serves each service.                   *)
NoDanglingUse == \A x \in InUse : Alive(x)

(* Whenever the window is closed, however the threads have come that far,   *)
(* and also when a stop() in the past went unnoticed: what is used after it *)
(* was destroyed is at most the null object of a service, which has no      *)
(* owner but AppContext and goes before the pipeline.  The pipeline's own   *)
(* parts are there to the last use, and a plugin outlives the service that  *)
(* stood for it (AppContext.h:18-32, DataPipeline.cpp:19,53,                *)
(* ApplicationBuilder.h:61).                                                *)
OnlyNullObjectsDangle ==
  \A x \in InUse : Alive(x) \/ (x \in HostServices /\ servedBy[x] = "null")

(* A thread is not under way when its object is destroyed, which would      *)
(* abort the program, also when run() had set m_running after the first     *)
(* stop() (HistorySampler.cpp:22-30, DataParseThread.cpp:27-52).            *)
DestroyedStopped == \A t \in HostThreads \cap freed : activity[t] = "off"
=============================================================================
