-------------------------- MODULE ConnectionProofs --------------------------
(***************************************************************************)
(* Proofs about Connection, for every length of the event queue and with   *)
(* or without a callback that connects: the flag and the subscriptions     *)
(* agree with the connection whenever nothing is pending, and a disconnect *)
(* that overlaps no connect is final.                                      *)
(***************************************************************************)
EXTENDS Connection, SequenceTheorems, TLAPS

Events == {"connected", "disconnected"}

\* The last event that waits is the one that made the connection what it is.
EventsTellLink ==
  events # <<>> => (events[Len(events)] = "connected" <=> link = "up")

\* When the connection is gone and no event waits, no connect is being handled
\* and a flag that is still set is about to be looked at.
LossHandled ==
  link = "down" /\ events = <<>> =>
    /\ npc \notin {"subscribe", "set"}
    /\ is_connected = 1 => npc \in {"callback", "test"}

\* When there is a connection and no event waits, the last connect handler has
\* come as far as npc says.
ConnectHandled ==
  link = "up" /\ events = <<>> =>
    /\ npc \in {"subscribe", "set", "idle"}
    /\ npc = "subscribe" => 1 .. (topic - 1) \subseteq subs
    /\ npc \in {"set", "idle"} => subs = Topics
    /\ npc = "idle" /\ wanted => is_connected = 1

\* Whatever may still make the core connect was wanted, or is known to have
\* been overlapped by a disconnect.
ReconnectExcused ==
  \/ is_connected = 1
  \/ npc \in {"subscribe", "set", "reconnect"}
  \/ \E i \in 1 .. Len(events) : events[i] = "connected"
  => wanted \/ overlapped

ConnInv ==
  ConnTypeOK /\ EventsTellLink /\ LossHandled /\ ConnectHandled /\ ReconnectExcused

-----------------------------------------------------------------------------
\* What Append does to a queue of events.
LEMMA QueueAppend ==
  ASSUME NEW q \in Seq(Events), NEW e \in Events
  PROVE  /\ Append(q, e) \in Seq(Events)
         /\ Len(Append(q, e)) = Len(q) + 1
         /\ Append(q, e) # <<>>
         /\ Append(q, e)[Len(Append(q, e))] = e
         /\ \A i \in 1 .. Len(Append(q, e)) :
              Append(q, e)[i] = "connected"
                => e = "connected" \/ \E j \in 1 .. Len(q) : q[j] = "connected"
  OBVIOUS

\* What Tail does to one that is not empty.
LEMMA QueueTail ==
  ASSUME NEW q \in Seq(Events), q # <<>>
  PROVE  /\ Tail(q) \in Seq(Events)
         /\ Len(Tail(q)) = Len(q) - 1
         /\ Tail(q) # <<>> => Tail(q)[Len(Tail(q))] = q[Len(q)]
         /\ Tail(q) = <<>> => Head(q) = q[Len(q)]
         /\ Head(q) = q[1] /\ 1 \in 1 .. Len(q)
         /\ \A i \in 1 .. Len(Tail(q)) :
              Tail(q)[i] = "connected" => \E j \in 1 .. Len(q) : q[j] = "connected"
<1>1. /\ Tail(q) \in Seq(Events) /\ Len(Tail(q)) = Len(q) - 1
      /\ Head(q) = q[1] /\ 1 \in 1 .. Len(q)
  OBVIOUS
<1>2. \A i \in 1 .. Len(Tail(q)) : i + 1 \in 1 .. Len(q) /\ Tail(q)[i] = q[i + 1]
  OBVIOUS
<1>3. ASSUME Tail(q) # <<>>
      PROVE  Tail(q)[Len(Tail(q))] = q[Len(q)]
  <2>1. Len(Tail(q)) \in 1 .. Len(Tail(q))
    BY <1>1, <1>3
  <2>2. QED
    BY <1>1, <1>2, <2>1
<1>4. ASSUME Tail(q) = <<>>
      PROVE  Head(q) = q[Len(q)]
  <2>1. Len(<<>>) = 0
    OBVIOUS
  <2>2. Len(Tail(q)) = 0
    BY <1>4, <2>1, Zenon
  <2>3. Len(q) \in Nat
    OBVIOUS
  <2>4. Len(q) = 1
    <3>1. Len(q) - 1 = 0
      BY <1>1, <2>2, Zenon
    <3>2. QED
      BY <2>3, <3>1
  <2>5. QED
    BY <1>1, <2>4
<1>5. QED
  BY <1>1, <1>2, <1>3, <1>4

LEMMA ConnInvInit ==
  ASSUME ConnectionAssumption, ZeroedClient
  PROVE  ConnInit => ConnInv
<1> SUFFICES ASSUME ConnInit PROVE ConnInv
  OBVIOUS
<1>1. events = <<>> /\ events \in Seq(Events) /\ Len(events) = 0
  BY DEF ConnInit
<1>2. ConnTypeOK
  <2>1. 1 \in Topics /\ 0 <= MaxQueue
    BY DEF Topics, ConnectionAssumption
  <2>2. QED
    BY <1>1, <2>1 DEF ConnInit, ConnTypeOK, Events
<1>3. QED
  BY <1>1, <1>2 DEF ConnInit, ConnInv, EventsTellLink, LossHandled,
                    ConnectHandled, ReconnectExcused

\* A step that makes a connection.
LEMMA MadeKeeps ==
  ASSUME ConnectionAssumption, ConnInv, MqttConnectOk, wanted' \/ overlapped',
         npc' \in {"idle", "test", npc}, topic' = topic, apc' = apc,
         wanted' \in BOOLEAN, overlapped' \in BOOLEAN,
         is_connected' = is_connected
  PROVE  ConnInv'
<1> USE DEF ConnInv
<1>1. /\ events' \in Seq(Events) /\ Len(events') = Len(events) + 1
      /\ events' # <<>> /\ events'[Len(events')] = "connected"
  BY QueueAppend DEF MqttConnectOk, ConnTypeOK, Events
<1>2. ConnTypeOK'
  <2>1. Len(events') <= MaxQueue
    BY <1>1 DEF MqttConnectOk, ConnTypeOK, HasRoom, ConnectionAssumption
  <2>2. QED
    BY <1>1, <2>1 DEF MqttConnectOk, ConnTypeOK, Events
<1>3. QED
  BY <1>1, <1>2 DEF MqttConnectOk, EventsTellLink, LossHandled, ConnectHandled,
                    ReconnectExcused

\* A step that ends one.
LEMMA EndedKeeps ==
  ASSUME ConnInv, ConnectionAssumption,
         link = "up", HasRoom, link' = "down", events' = Append(events, "disconnected"),
         UNCHANGED <<is_connected, subs, npc, topic, appVars>>,
         apc' \in {"idle", "disconnect"}
  PROVE  ConnInv'
<1> USE DEF ConnInv
<1>1. /\ events' \in Seq(Events) /\ Len(events') = Len(events) + 1
      /\ events' # <<>> /\ events'[Len(events')] = "disconnected"
      /\ \A i \in 1 .. Len(events') : events'[i] = "connected"
           => \E j \in 1 .. Len(events) : events[j] = "connected"
  BY QueueAppend DEF ConnTypeOK, Events
<1>2. ConnTypeOK'
  <2>1. Len(events') <= MaxQueue
    BY <1>1 DEF ConnTypeOK, HasRoom, ConnectionAssumption
  <2>2. QED
    BY <1>1, <2>1 DEF ConnTypeOK, Events, appVars
<1>3. QED
  BY <1>1, <1>2 DEF EventsTellLink, LossHandled, ConnectHandled,
                    ReconnectExcused, appVars

\* The start of a handler.
LEMMA TakeKeeps ==
  ASSUME ConnInv, ConnectionAssumption,
         \/ TakeEvent("connected", "subscribe")
         \/ TakeEvent("disconnected", "callback")
  PROVE  ConnInv'
<1> USE DEF ConnInv, TakeEvent, appVars
<1>1. /\ events # <<>> /\ events' \in Seq(Events) /\ Len(events') = Len(events) - 1
      /\ events' # <<>> => events'[Len(events')] = events[Len(events)]
      /\ events' = <<>> => Head(events) = events[Len(events)]
      /\ Head(events) = events[1] /\ 1 \in 1 .. Len(events)
      /\ \A i \in 1 .. Len(events') : events'[i] = "connected"
           => \E j \in 1 .. Len(events) : events[j] = "connected"
  BY QueueTail DEF ConnTypeOK, Events
<1>2. ConnTypeOK'
  <2>1. Len(events') <= MaxQueue
    BY <1>1 DEF ConnTypeOK, ConnectionAssumption
  <2>2. 1 \in Topics
    BY DEF Topics
  <2>3. QED
    BY <1>1, <2>1, <2>2 DEF ConnTypeOK, Events
<1>3. EventsTellLink'
  BY <1>1 DEF EventsTellLink
<1>4. LossHandled' /\ ConnectHandled'
  BY <1>1 DEF EventsTellLink, LossHandled, ConnectHandled, ConnTypeOK, Topics
<1>5. ReconnectExcused'
  BY <1>1 DEF ReconnectExcused
<1>6. QED
  BY <1>2, <1>3, <1>4, <1>5

\* The other steps leave the queue and the connection alone.
LEMMA ConnInvNext ==
  ASSUME ConnectionAssumption
  PROVE  ConnInv /\ [ConnNext]_connVars => ConnInv'
<1> SUFFICES ASSUME ConnInv, [ConnNext]_connVars
             PROVE  ConnInv'
  OBVIOUS
<1> USE DEF ConnInv
<1>1. CASE LinkLost
  BY <1>1, EndedKeeps DEF LinkLost, ConnTypeOK
<1>2. CASE anedya_client_connect
  BY <1>2, MadeKeeps DEF anedya_client_connect, AppConnectOk, ConnTypeOK
<1>3. CASE DisconnectFlag
  <2>1. overlapped' \in BOOLEAN
    BY <1>3 DEF DisconnectFlag, HandlersBusy
  <2>2. ConnTypeOK'
    BY <1>3, <2>1 DEF DisconnectFlag, ConnTypeOK
  <2>3. ReconnectExcused'
    BY <1>3 DEF DisconnectFlag, HandlersBusy, ReconnectExcused
  <2>4. EventsTellLink' /\ LossHandled' /\ ConnectHandled'
    BY <1>3 DEF DisconnectFlag, ConnTypeOK, EventsTellLink, LossHandled, ConnectHandled
  <2>5. QED
    BY <2>2, <2>3, <2>4
<1>4. CASE DisconnectLink
  <2>1. CASE link' = "down" /\ link = "up"
    BY <1>4, <2>1, EndedKeeps DEF DisconnectLink, MqttDisconnect
  <2>2. CASE UNCHANGED <<link, events>>
    BY <1>4, <2>2 DEF DisconnectLink, appVars, ConnTypeOK, EventsTellLink,
                      LossHandled, ConnectHandled, ReconnectExcused
  <2>3. QED
    BY <1>4, <2>1, <2>2 DEF DisconnectLink, MqttDisconnect
<1>5. CASE OnConnectStart \/ OnDisconnectStart
  BY <1>5, TakeKeeps DEF OnConnectStart, OnDisconnectStart
<1>6. CASE Subscribe
  <2> USE DEF Subscribe, appVars, ConnTypeOK
  <2>1. ConnTypeOK'
    <3>1. topic \in Topics /\ topic' \in Topics
      BY <1>6 DEF Topics
    <3>2. QED
      BY <1>6, <3>1
  <2>2. ConnectHandled'
    <3>1. topic \in 1 .. 4
      BY DEF Topics
    <3>2. CASE link = "up" /\ events = <<>>
      <4>1. subs' = subs \cup {topic} /\ 1 .. (topic - 1) \subseteq subs
        BY <1>6, <3>2 DEF ConnectHandled
      <4>2. 1 .. topic \subseteq subs'
        BY <3>1, <4>1
      <4>3. CASE topic < 4
        <5>1. topic' = topic + 1 /\ npc' = "subscribe" /\ topic' - 1 = topic
          BY <1>6, <3>1, <4>3
        <5>2. QED
          BY <4>2, <5>1 DEF ConnectHandled
      <4>4. CASE topic = 4
        <5>1. npc' = "set"
          BY <1>6, <4>4
        <5>2. Topics \subseteq subs'
          BY <4>2, <4>4 DEF Topics
        <5>3. subs' = Topics
          BY <2>1, <5>2, Zenon
        <5>4. QED
          BY <5>1, <5>3 DEF ConnectHandled
      <4>5. QED
        BY <3>1, <4>3, <4>4
    <3>3. CASE ~(link = "up" /\ events = <<>>)
      BY <1>6, <3>3 DEF ConnectHandled
    <3>4. QED
      BY <3>2, <3>3
  <2>3. EventsTellLink' /\ LossHandled' /\ ReconnectExcused'
    BY <1>6 DEF Subscribe, appVars, EventsTellLink, LossHandled, ReconnectExcused
  <2>4. QED
    BY <2>1, <2>2, <2>3
<1>7. CASE SetConnected
  BY <1>7 DEF SetConnected, appVars, ConnTypeOK, EventsTellLink,
              LossHandled, ConnectHandled, ReconnectExcused
<1>8. CASE DisconnectCallback
  <2>1. CASE wanted /\ MqttConnectOk
    BY <1>8, <2>1, MadeKeeps DEF DisconnectCallback, appVars, ConnTypeOK
  <2>2. CASE MqttConnectError
    BY <1>8, <2>2 DEF DisconnectCallback, MqttConnectError, appVars, ConnTypeOK,
       EventsTellLink, LossHandled, ConnectHandled, ReconnectExcused
  <2>3. QED
    BY <1>8, <2>1, <2>2 DEF DisconnectCallback
<1>9. CASE TestFlag
  BY <1>9 DEF TestFlag, appVars, ConnTypeOK, EventsTellLink,
              LossHandled, ConnectHandled, ReconnectExcused
<1>10. CASE ReconnectOk
  BY <1>10, MadeKeeps DEF ReconnectOk, appVars, ConnTypeOK, ReconnectExcused
<1>11. CASE ReconnectError
  BY <1>11 DEF ReconnectError, MqttConnectError, appVars, ConnTypeOK,
     EventsTellLink, LossHandled, ConnectHandled, ReconnectExcused
<1>12. CASE UNCHANGED connVars
  BY <1>12 DEF connVars, appVars, ConnTypeOK, EventsTellLink,
     LossHandled, ConnectHandled, ReconnectExcused, HandlersBusy
<1>13. QED
  BY <1>1, <1>2, <1>3, <1>4, <1>5, <1>6, <1>7, <1>8, <1>9, <1>10, <1>11, <1>12
     DEF ConnNext, TaskStep

-----------------------------------------------------------------------------
\* When no handler runs and no event waits, is_connected is set only if the
\* platform has a connection, and a connection that is wanted has the flag and
\* its four subscriptions: the three races of flag, queue and callback settle.
THEOREM FlagFollowsLink ==
  ASSUME ConnectionAssumption, ZeroedClient
  PROVE  ConnSpec => [](ConnTypeOK /\ FlagMeansLink /\ LinkMeansReady)
<1>1. ConnInv => ConnTypeOK /\ FlagMeansLink /\ LinkMeansReady
  BY DEF ConnInv, FlagMeansLink, LinkMeansReady, Quiescent, LossHandled,
         ConnectHandled, ConnTypeOK
<1>2. QED
  BY <1>1, ConnInvInit, ConnInvNext, PTL DEF ConnSpec

\* The core makes a connection by itself only when the application's last word
\* was connect, or a disconnect that overlapped a connect or a handler.
THEOREM QuietShutdown ==
  ASSUME ConnectionAssumption, ZeroedClient
  PROVE  ConnSpec => QuietShutdownIsFinal
<1>1. ConnInv => [CoreReconnects => wanted \/ overlapped]_connVars
  BY DEF ConnInv, CoreReconnects, ReconnectExcused
<1>2. QED
  BY <1>1, ConnInvInit, ConnInvNext, PTL DEF ConnSpec, QuietShutdownIsFinal
=============================================================================
