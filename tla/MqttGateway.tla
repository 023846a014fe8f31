----------------------------- MODULE MqttGateway -----------------------------
(***************************************************************************)
(* QtMqttPlugin: the connection to an MQTT broker, with a retained status  *)
(* message, subscriptions that outlive a connection and a reconnect whose  *)
(* delay doubles.  Everything runs in the event loop of the main thread,   *)
(* each slot is one action.                                                *)
(*                                                                         *)
(* QMqttClient and the broker are external and taken as the plugin uses    *)
(* them: a connection under way is accepted or fails, one that stands may  *)
(* be lost; each return to "offline" emits disconnected() in the same step;*)
(* a new connection starts without subscriptions (the clean session that   *)
(* the plugin never changes); the will of a lost connection is published   *)
(* when the broker notices the loss, perhaps long after the client is back.*)
(* The payloads, QoS, host and TLS settings are left out, and publish,     *)
(* which changes nothing here.                                             *)
(***************************************************************************)
EXTENDS Integers

CONSTANTS
  Topics,
  BaseMs, MaxMs,   \* the arguments of setReconnectInterval
  MaxInt,          \* the largest int
  HeartbeatSecs,   \* the argument of setHeartbeatInterval
  MaxTries,        \* a bound on the connects that fail in a row
  MaxWills         \* a bound on the wills that are still to come

ASSUME GatewayAssumption ==
  /\ BaseMs \in Int /\ MaxMs \in Int /\ MaxInt \in Nat \ {0}
  /\ HeartbeatSecs \in Int /\ MaxTries \in Nat /\ MaxWills \in Nat

VARIABLES
  client,           \* the state of m_client
  armed,            \* m_reconnectTimer runs,
  delay,            \* and its interval
  reconnectAttempt, \* m_reconnectAttempt
  beating,          \* m_heartbeatTimer runs
  subscriptions,    \* m_subscriptions
  session,          \* external: what the broker delivers on the connection
  status,           \* external: the retained message of the status topic
  wills             \* external: lost connections whose will is still to come

timers == <<armed, delay, reconnectAttempt, beating>>
broker == <<session, status, wills>>
gatewayVars == <<client, timers, subscriptions, broker>>

GatewayInit ==
  /\ client = "offline"
  /\ armed = FALSE /\ delay = 0 /\ reconnectAttempt = 0 /\ beating = FALSE
  /\ subscriptions = {} /\ session = {} /\ status = "none" /\ wills = 0

-----------------------------------------------------------------------------
(* The delay before reconnect n.                                            *)

(* setReconnectInterval                                                     *)
AtLeast(low, ms) == IF ms < low THEN low ELSE ms
ReconnectBase == AtLeast(1000, BaseMs)
ReconnectMax == AtLeast(ReconnectBase, MaxMs)

(* Neither the shift nor the product leaves an int.                         *)
Fits(n) == n <= 30 /\ ReconnectBase <= MaxInt \div 2^n

(* An overflow is undefined.  The builds wrap: what is then compared with   *)
(* the maximum is negative, zero, or above it.                              *)
Delays(n) ==
  IF ~Fits(n) THEN {-1, 0, ReconnectMax}
  ELSE IF ReconnectBase * 2^n > ReconnectMax THEN {ReconnectMax}
  ELSE {ReconnectBase * 2^n}

-----------------------------------------------------------------------------
(* The slots.                                                               *)

(* onDisconnected, after n attempts.  Qt starts no timer with a negative    *)
(* interval.                                                                *)
(* Faulty variant: the timer is started for the first attempt only.         *)
RearmedOnce(ms) == ms >= 0 /\ reconnectAttempt = 0
Rearmed(ms) == ms >= 0
OnDisconnected(n) ==
  /\ beating' = FALSE
  /\ delay' \in Delays(n)
  /\ armed' = Rearmed(delay')
  /\ reconnectAttempt' = n + 1

(* onConnected                                                              *)
(* Faulty variants: the topics are not subscribed again; the heartbeat is   *)
(* not started.                                                             *)
Forgotten == {}
Resubscribed == subscriptions
BeatsNever == FALSE
BeatsFromNow == HeartbeatSecs > 0
Disarmed == FALSE

Accepted ==
  /\ client = "connecting"
  /\ client' = "online"
  /\ armed' = Disarmed /\ reconnectAttempt' = 0
  /\ session' = Resubscribed
  /\ status' = "ONLINE"
  /\ beating' = BeatsFromNow
  /\ UNCHANGED <<delay, subscriptions, wills>>

Fails ==
  /\ client = "connecting" /\ reconnectAttempt < MaxTries
  /\ client' = "offline"
  /\ OnDisconnected(reconnectAttempt)
  /\ UNCHANGED <<subscriptions, broker>>

Lost ==
  /\ client = "online" /\ wills < MaxWills
  /\ client' = "offline" /\ session' = {} /\ wills' = wills + 1
  /\ OnDisconnected(reconnectAttempt)
  /\ UNCHANGED <<subscriptions, status>>

(* onReconnect.  A client that is connecting starts over.                   *)
OnReconnect ==
  /\ armed
  /\ armed' = FALSE
  /\ client' = IF client = "online" THEN client ELSE "connecting"
  /\ UNCHANGED <<delay, reconnectAttempt, beating, subscriptions, broker>>

OnHeartbeat ==
  /\ beating
  /\ status' = IF client = "online" THEN "ONLINE" ELSE status
  /\ UNCHANGED <<client, timers, subscriptions, session, wills>>

(* The broker notices that a connection is lost.                            *)
WillPublished ==
  /\ wills > 0
  /\ wills' = wills - 1
  /\ status' = "OFFLINE"
  /\ UNCHANGED <<client, timers, subscriptions, session>>

-----------------------------------------------------------------------------
(* The calls of the host.                                                   *)

(* connectTo, connectEncrypted.  The client refuses while it is connected.  *)
ConnectTo ==
  /\ client # "online"
  /\ client' = "connecting"
  /\ UNCHANGED <<timers, subscriptions, broker>>

(* Before it is online the topic is only noted.                             *)
Subscribe(t) ==
  /\ subscriptions' = subscriptions \cup {t}
  /\ session' = IF client = "online" THEN session \cup {t} ELSE session
  /\ UNCHANGED <<client, timers, status, wills>>

(* disconnectFrom.  The client that is not offline emits disconnected()     *)
(* while the call is still running, and the timer is armed again.           *)
DisconnectFrom ==
  /\ client' = "offline" /\ session' = {}
  /\ \/ client = "offline"
        /\ armed' = FALSE /\ beating' = FALSE /\ reconnectAttempt' = 0
        /\ UNCHANGED delay
     \/ client # "offline" /\ OnDisconnected(0)
  /\ UNCHANGED <<subscriptions, status, wills>>

-----------------------------------------------------------------------------
GatewayNext ==
  \/ Accepted \/ Fails \/ Lost \/ OnReconnect \/ OnHeartbeat \/ WillPublished
  \/ ConnectTo \/ DisconnectFrom
  \/ \E t \in Topics : Subscribe(t)

(* Timers run out.                                                          *)
GatewayFairness == WF_gatewayVars(OnReconnect) /\ WF_gatewayVars(OnHeartbeat)

GatewaySpec == GatewayInit /\ [][GatewayNext]_gatewayVars
FairGatewaySpec == GatewaySpec /\ GatewayFairness

-----------------------------------------------------------------------------
(* Properties.                                                              *)

(* Whatever was subscribed, before the connection, during an earlier one or *)
(* on this one, is delivered while the gateway is online                    *)
(* (QtMqttPlugin.cpp:123-130, 144-146).                                     *)
SubscribedWhileOnline == client = "online" => session = subscriptions

(* No reconnect is pending while the gateway is online, although connectTo  *)
(* may be called while one is (QtMqttPlugin.cpp:141), and the heartbeat     *)
(* runs exactly then (QtMqttPlugin.cpp:109, 152-154, 160).                  *)
TimersFollowConnection ==
  /\ armed => client # "online"
  /\ beating <=> (client = "online" /\ HeartbeatSecs > 0)

(* A will that comes late does not leave a gateway shown as OFFLINE that is *)
(* online: the heartbeat repeats the status (QtMqttPlugin.cpp:186-190).     *)
OnlineIsShown ==
  (client = "online" /\ HeartbeatSecs > 0) ~> (client # "online" \/ status = "ONLINE")

(* A gateway that lost its connection tries again, unless it was told to    *)
(* stay offline, as long as the delay can be computed                       *)
(* (QtMqttPlugin.cpp:163-167, 181-184).                                     *)
LossIsRetried ==
  (client = "offline" /\ reconnectAttempt > 0 /\ Fits(reconnectAttempt - 1))
     ~> (client # "offline" \/ reconnectAttempt = 0)

(* The delay doubles from the base up to the maximum: "base * 2^attempt,    *)
(* at most max" (QtMqttPlugin.cpp:163).                                     *)
DelayInBounds ==
  reconnectAttempt > 0 => delay \in ReconnectBase .. ReconnectMax
=============================================================================
