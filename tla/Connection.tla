----------------------------- MODULE Connection -----------------------------
(***************************************************************************)
(* The MQTT connection: the application's connect and disconnect calls,    *)
(* the two handlers that the platform's MQTT task calls, and the flag      *)
(* is_connected that they share without a lock.                            *)
(*                                                                         *)
(* The platform layer is external.  As anedya_interface.h describes it, a  *)
(* connect call answers at once with success or failure; a connection made *)
(* or lost is reported to the handlers later, in order, by the MQTT task.  *)
(***************************************************************************)
EXTENDS Naturals, Sequences

CONSTANTS AppReconnects,    \* TRUE: on_disconnect calls anedya_client_connect
          ZeroedClient,     \* TRUE: the client's memory was zeroed before use
          MaxQueue          \* bound of the event queue, for model checking

ASSUME ConnectionAssumption ==
  /\ AppReconnects \in BOOLEAN
  /\ ZeroedClient \in BOOLEAN
  /\ MaxQueue \in Nat \ {0}

Topics == 1 .. 4    \* _message_topics: response, errors, commands, updates

VARIABLES is_connected,  \* client->is_connected
          link,          \* the platform's connection: "down" or "up"
          events,        \* events of the platform the MQTT task has not handled
          subs,          \* topics subscribed in the current session
          apc,           \* the application thread: "idle" or inside a call
          npc,           \* the MQTT task: "idle" or inside a handler
          topic,         \* loop of the four subscribe calls
          wanted,        \* the application has connected and not disconnected
          overlapped     \* the last disconnect began while a handler ran or a
                         \* connect event was waiting

appVars == <<wanted, overlapped>>
connVars == <<is_connected, link, events, subs, apc, npc, topic, appVars>>

ConnInit ==
  /\ is_connected \in IF ZeroedClient THEN {0} ELSE {0, 1}
  /\ link = "down"
  /\ events = <<>>
  /\ subs = {}
  /\ apc = "idle"
  /\ npc = "idle"
  /\ topic = 1
  /\ wanted = FALSE
  /\ overlapped = FALSE

HasRoom == Len(events) < MaxQueue

-----------------------------------------------------------------------------
(* The platform (external).                                                *)

\* anedya_interface_mqtt_connect: a new session, or an error.
MqttConnectOk ==
  /\ link = "down" /\ HasRoom
  /\ link' = "up"
  /\ subs' = {}
  /\ events' = Append(events, "connected")

MqttConnectError == UNCHANGED <<link, subs, events>>

\* anedya_interface_mqtt_disconnect, which may also fail.
MqttDisconnect ==
  \/ /\ link = "up" /\ HasRoom
     /\ link' = "down"
     /\ events' = Append(events, "disconnected")
  \/ UNCHANGED <<link, events>>

LinkLost ==
  /\ link = "up" /\ HasRoom
  /\ link' = "down"
  /\ events' = Append(events, "disconnected")
  /\ UNCHANGED <<is_connected, subs, apc, npc, topic, appVars>>

-----------------------------------------------------------------------------
(* The application's calls.                                                *)

AppConnectOk ==
  /\ apc = "idle"
  /\ MqttConnectOk
  /\ wanted' = TRUE
  /\ UNCHANGED <<is_connected, apc, npc, topic, overlapped>>

\* A failed connect returns the platform's error and changes nothing.
anedya_client_connect == AppConnectOk

HandlersBusy ==
  \/ npc # "idle"
  \/ \E i \in 1 .. Len(events) : events[i] = "connected"

\* Variant: the flag is left to the disconnect handler.
DisconnectFlag_KeepsFlag ==
  /\ apc = "idle"
  /\ wanted' = FALSE /\ overlapped' = HandlersBusy
  /\ apc' = "disconnect"
  /\ UNCHANGED <<is_connected, link, events, subs, npc, topic>>

\* anedya_client_disconnect: the flag first ...
DisconnectFlag ==
  /\ apc = "idle"
  /\ is_connected' = 0
  /\ wanted' = FALSE /\ overlapped' = HandlersBusy
  /\ apc' = "disconnect"
  /\ UNCHANGED <<link, events, subs, npc, topic>>

\* ... then the connection.
DisconnectLink ==
  /\ apc = "disconnect"
  /\ MqttDisconnect
  /\ apc' = "idle"
  /\ UNCHANGED <<is_connected, subs, npc, topic, appVars>>

-----------------------------------------------------------------------------
(* The handlers, run by the MQTT task.                                     *)

TakeEvent(e, where) ==
  /\ npc = "idle"
  /\ events # <<>> /\ Head(events) = e
  /\ events' = Tail(events)
  /\ npc' = where
  /\ topic' = 1
  /\ UNCHANGED <<is_connected, link, subs, apc, appVars>>

OnConnectStart == TakeEvent("connected", "subscribe")

\* Variants: the loop of the subscribe calls is one too short, or one too long.
Subscribe_Three ==
  /\ npc = "subscribe"
  /\ \/ link = "up" /\ subs' = subs \cup {topic}
     \/ link = "down" /\ UNCHANGED subs
  /\ IF topic < 3 THEN topic' = topic + 1 /\ UNCHANGED npc
                  ELSE npc' = "set" /\ UNCHANGED topic
  /\ UNCHANGED <<is_connected, link, events, apc, appVars>>

Subscribe_Five ==
  /\ npc = "subscribe"
  /\ \/ link = "up" /\ subs' = subs \cup {topic}
     \/ link = "down" /\ UNCHANGED subs
  /\ IF topic < 5 THEN topic' = topic + 1 /\ UNCHANGED npc
                  ELSE npc' = "set" /\ UNCHANGED topic
  /\ UNCHANGED <<is_connected, link, events, apc, appVars>>

\* Variant: the loop does not advance.
Subscribe_Stays ==
  /\ npc = "subscribe"
  /\ \/ link = "up" /\ subs' = subs \cup {topic}
     \/ link = "down" /\ UNCHANGED subs
  /\ UNCHANGED <<is_connected, link, events, apc, npc, topic, appVars>>

\* One of the four subscribe calls; its result is not looked at.  On a live
\* connection it succeeds.
Subscribe ==
  /\ npc = "subscribe"
  /\ \/ link = "up" /\ subs' = subs \cup {topic}
     \/ link = "down" /\ UNCHANGED subs
  /\ IF topic < 4 THEN topic' = topic + 1 /\ UNCHANGED npc
                  ELSE npc' = "set" /\ UNCHANGED topic
  /\ UNCHANGED <<is_connected, link, events, apc, appVars>>

\* The flag is set and the on_connect callback is called.
SetConnected ==
  /\ npc = "set"
  /\ is_connected' = 1
  /\ npc' = "idle"
  /\ UNCHANGED <<link, events, subs, apc, topic, appVars>>

OnDisconnectStart == TakeEvent("disconnected", "callback")

\* The on_disconnect callback, before the flag is looked at.
DisconnectCallback ==
  /\ npc = "callback"
  /\ npc' = "test"
  /\ \/ AppReconnects /\ wanted /\ MqttConnectOk
     \/ MqttConnectError
  /\ UNCHANGED <<is_connected, apc, topic, appVars>>

\* Variant: the flag stays set while the connection is gone.
TestFlag_KeepsFlag ==
  /\ npc = "test"
  /\ npc' = IF is_connected = 1 THEN "reconnect" ELSE "idle"
  /\ UNCHANGED <<is_connected, link, events, subs, apc, topic, appVars>>

\* Variant: the core connects again after a close that was asked for.
TestFlag_Inverted ==
  /\ npc = "test"
  /\ IF is_connected = 1
       THEN is_connected' = 0 /\ npc' = "idle"
       ELSE npc' = "reconnect" /\ UNCHANGED is_connected
  /\ UNCHANGED <<link, events, subs, apc, topic, appVars>>

\* A flag that is still set means an unintentional close.
TestFlag ==
  /\ npc = "test"
  /\ IF is_connected = 1
       THEN is_connected' = 0 /\ npc' = "reconnect"
       ELSE npc' = "idle" /\ UNCHANGED is_connected
  /\ UNCHANGED <<link, events, subs, apc, topic, appVars>>

\* One attempt to connect again, its result not looked at.
ReconnectOk ==
  /\ npc = "reconnect" /\ npc' = "idle"
  /\ MqttConnectOk
  /\ UNCHANGED <<is_connected, apc, topic, appVars>>

ReconnectError ==
  /\ npc = "reconnect" /\ npc' = "idle"
  /\ MqttConnectError
  /\ UNCHANGED <<is_connected, apc, topic, appVars>>

TaskStep ==
  \/ OnConnectStart \/ Subscribe \/ SetConnected
  \/ OnDisconnectStart \/ DisconnectCallback \/ TestFlag
  \/ ReconnectOk \/ ReconnectError

ConnNext ==
  \/ LinkLost
  \/ anedya_client_connect
  \/ DisconnectFlag
  \/ DisconnectLink
  \/ TaskStep

ConnSpec == ConnInit /\ [][ConnNext]_connVars

\* The MQTT task is scheduled, and a call of the application ends.
ConnFairSpec == ConnSpec /\ WF_connVars(TaskStep) /\ WF_connVars(DisconnectLink)

-----------------------------------------------------------------------------
ConnTypeOK ==
  /\ is_connected \in {0, 1}
  /\ link \in {"down", "up"}
  /\ events \in Seq({"connected", "disconnected"}) /\ Len(events) <= MaxQueue
  /\ subs \subseteq Topics
  /\ apc \in {"idle", "disconnect"}
  /\ npc \in {"idle", "subscribe", "set", "callback", "test", "reconnect"}
  /\ topic \in Topics
  /\ wanted \in BOOLEAN /\ overlapped \in BOOLEAN

\* Nobody is inside a handler or a call, and no event is waiting.
Quiescent == events = <<>> /\ npc = "idle" /\ apc = "idle"

\* Once things have settled the flag is set only if there is a connection, so
\* the API functions do not accept work for a client that is offline ...
FlagMeansLink == Quiescent /\ is_connected = 1 => link = "up"

\* ... and a connection that the application wants is usable: the flag is set,
\* and all four topics are subscribed in this session, not in an earlier one.
LinkMeansReady ==
  Quiescent /\ link = "up" /\ wanted => is_connected = 1 /\ subs = Topics

\* The core, not the application, makes a new connection.
CoreReconnects == npc = "reconnect" /\ link' # link

\* The core connects again by itself only when the application has not asked
\* for the disconnection (client.c 105, 255).
ShutdownIsFinal == [][CoreReconnects => wanted]_connVars

\* A disconnect that began while no handler ran and no connect event was
\* waiting is never undone, whatever handlers run afterwards.
QuietShutdownIsFinal == [][CoreReconnects => wanted \/ overlapped]_connVars

\* A connection that was made is reported: the flag gets set, unless the
\* connection is lost or closed before.
ConnectionNoticed == link = "up" ~> (is_connected = 1 \/ link = "down" \/ ~wanted)

\* When a connection in use is lost, the core tries to connect again, at least
\* once, unless the application connects or disconnects first.
LossRetried ==
  (wanted /\ link = "down" /\ is_connected = 1) ~> (npc = "reconnect" \/ link = "up" \/ ~wanted)
=============================================================================
