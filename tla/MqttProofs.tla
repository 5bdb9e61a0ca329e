----------------------------- MODULE MqttProofs -----------------------------
(***************************************************************************)
(* Proofs about Mqtt, for all timeouts and with or without the watchdog.   *)
(*                                                                         *)
(* The safety properties are no invariants of single steps by themselves:  *)
(* that the two bits exclude each other depends on how far a branch of the *)
(* handler has got, and that a wait expires only after silence depends on  *)
(* what the bit was when it began.  IInv says both, for every step of the  *)
(* handler and every blocked wait.  TypeInvariant shows that the types are *)
(* kept; TaskStep, EventStep, SendStep and LocalStep show the rest of IInv *)
(* for the actions of one actor each; NextInv puts them together.          *)
(***************************************************************************)
EXTENDS Mqtt, TLAPS

USE DEF MqttTasks, MqttBits, MQTT_EVENT_CONNECTED, MQTT_EVENT_DISCONNECTED,
      Group!Forever

(* A restart brings every variable to a state in which the invariant holds, *)
(* whatever the state before it was.                                        *)
LEMMA ResetIsInit ==
    ASSUME NEW r \in {"ESP_RST_SW", "ESP_RST_PANIC"}, Reset(r)
    PROVE  IInv'
<1>1. first_connect' \in BOOLEAN /\ led' \in BOOLEAN
  BY Zenon DEF Reset
<1>2. TypeOK'
  BY <1>1, TimeoutAssumption
     DEF Reset, TypeOK, Group!GroupType, Group!Waiter, Group!Running, NoEvent, Events,
         Steps, QuietCap
<1>3. /\ OffInv' /\ NeverBothBits' /\ BitsFollowClient'
      /\ ConnectedMeansAnnounced' /\ StartupOncePerBoot'
  BY DEF Reset, OffInv, NeverBothBits, BitsFollowClient, ConnectedMeansAnnounced,
         StartupOncePerBoot
<1>4. ConnectBranch' /\ DisconnectBranch' /\ CommandBranch'
  BY DEF Reset, ConnectBranch, DisconnectBranch, CommandBranch
<1>5. ConnectedOnce' /\ WaiterInv'
  BY DEF Reset, ConnectedOnce, WaiterInv, Group!Running
<1>6. QED
  BY <1>2, <1>3, <1>4, <1>5 DEF IInv

(* No step of any task changes the type of a variable. *)
LEMMA TypeInvariant == TypeOK /\ [Next]_vars => TypeOK'
<1> SUFFICES ASSUME TypeOK, [Next]_vars PROVE TypeOK'
  OBVIOUS
<1>1. ASSUME NEW r \in {"ESP_RST_SW", "ESP_RST_PANIC"}, Reset(r) PROVE TypeOK'
  BY <1>1, ResetIsInit DEF IInv
<1> USE TimeoutAssumption
        DEF TypeOK, Group!GroupType, Group!Waiter, Group!Running, Group!Forever,
            Group!Blocked, Group!Woken, Group!Expired, QuietCap, NoEvent, Events,
            mqttVars
<1>2. CASE Boot
  BY <1>2 DEF Boot
<1>3. CASE StartTask
  <2>1. CASE StartClient
    BY <2>1 DEF StartClient
  <2>2. CASE CreateWatchdog
    BY <2>2 DEF CreateWatchdog
  <2>3. CASE WaitFirstConnect
    BY <2>3 DEF WaitFirstConnect, Group!WaitBits
  <2>4. CASE FirstWaitReturns
    <3>1. CASE MQTT_EVENT_CONNECTED \in waiter["run_app"].got
      <4>1. /\ run_app' = "app_run" /\ Group!Return("run_app")
            /\ UNCHANGED <<watchdog, client, handler, event, first_connect, led,
                           reset_reason, sent, startups, quiet>>
        BY <2>4, <3>1, Zenon DEF FirstWaitReturns
      <4>2. QED
        BY <4>1 DEF Group!Return
    <3>2. CASE MQTT_EVENT_CONNECTED \notin waiter["run_app"].got
      BY <1>1, <2>4, <3>2 DEF FirstWaitReturns
    <3>3. QED
      BY <3>1, <3>2
  <2>5. QED
    BY <1>3, <2>1, <2>2, <2>3, <2>4 DEF StartTask
<1>4. CASE WatchdogTask
  <2>1. ASSUME NEW place \in {"first", "connected", "disconnected"},
               NEW bit \in MqttBits, NEW ticks \in Nat \cup {Group!Forever},
               WatchdogWaits(place, bit, ticks)
        PROVE TypeOK'
     BY <2>1 DEF WatchdogWaits, Group!WaitBits
  <2>2. ASSUME NEW place, NEW bit \in MqttBits,
               NEW next \in {"connected", "disconnected"},
               WatchdogGoesOn(place, bit, next)
        PROVE TypeOK'
     BY <2>2 DEF WatchdogGoesOn, Group!Return
  <2>3. CASE WatchdogRestarts
    BY <2>3, <1>1 DEF WatchdogRestarts
  <2>4. QED
    BY <1>4, <2>1, <2>2, <2>3
       DEF WatchdogTask, AwaitFirstConnect, FirstConnectSeen, AwaitDisconnect,
           DisconnectSeen, AwaitReconnect, ReconnectSeen
<1>5. CASE ClientEvent
  <2>1. ASSUME NEW name \in DOMAIN EspEventId, NEW topic \in Topics \cup {"none"},
               Dispatch(name, topic),
               client' \in {"down", "up"}, sent' \subseteq Announcement
        PROVE TypeOK'
     <3>1. EspEventId[name] \in {0,1,2,3,5,6} /\ EspEventId.data = 6
       BY DEF EspEventId
     <3>2. FirstStep(EspEventId[name], topic) \in Steps
       BY <3>1 DEF FirstStep, Steps, Sending
     <3>3. event' \in Events
       BY <2>1 DEF Dispatch, Events
     <3>4. QED
       BY <2>1, <3>2, <3>3 DEF Dispatch
  <2>2. DOMAIN EspEventId = {"error", "connected", "disconnected", "subscribed",
  "published", "data"}
    BY DEF EspEventId
  <2>3. CASE BrokerAccepts
    BY <2>3, <2>1, <2>2 DEF BrokerAccepts
  <2>4. CASE ConnectFails
    BY <2>4, <2>1, <2>2 DEF ConnectFails
  <2>5. CASE ConnectionLost
    BY <2>5, <2>1, <2>2 DEF ConnectionLost
  <2>6. ASSUME NEW topic \in Topics, MessageArrives(topic) PROVE TypeOK'
    BY <2>6, <2>1, <2>2 DEF MessageArrives
  <2>7. ASSUME NEW name \in {"error", "subscribed", "published"}, OtherEvent(name)
        PROVE  TypeOK'
    BY <2>7, <2>1, <2>2 DEF OtherEvent
  <2>8. QED
    BY <1>5, <2>3, <2>4, <2>5, <2>6, <2>7 DEF ClientEvent
<1>6. CASE HandlerSends
  <2>1. ASSUME NEW step, NEW what \in SUBSET Announcement, NEW next \in Steps,
               Sends(step, what, next),
               first_connect' \in BOOLEAN, startups' \in Nat
        PROVE TypeOK'
    BY <2>1 DEF Sends
  <2>2. CASE SubscribePing
    BY <2>2, <2>1 DEF SubscribePing, Announcement, Steps, Sending
  <2>3. CASE SubscribeLocal
    BY <2>3, <2>1 DEF SubscribeLocal, Announcement, Steps, Sending
  <2>4. CASE PublishStatus
    BY <2>4, <2>1 DEF PublishStatus, Announcement, Steps, Sending
  <2>5. CASE PublishInfo
    BY <2>5, <2>1 DEF PublishInfo, Announcement, Steps, Sending
  <2>6. CASE PublishStartup
    <3>1. first_connect' \in BOOLEAN
      BY <2>6, Zenon DEF PublishStartup
    <3>2. Sends("publish_startup", {}, "led_on") /\ startups' = startups + 1
      BY <2>6, Zenon DEF PublishStartup
    <3>3. "led_on" \in Steps
      BY DEF Steps
    <3>4. startups' \in Nat
      BY <3>2
    <3>5. {} \in SUBSET Announcement OBVIOUS
    <3>6. QED
      BY <2>1, <3>1, <3>2, <3>3, <3>4, <3>5, Zenon
  <2>7. CASE Reply
    BY <2>7, <2>1 DEF Reply, Announcement, Steps
  <2>8. QED
    BY <1>6, <2>2, <2>3, <2>4, <2>5, <2>6, <2>7 DEF HandlerSends
<1>7. CASE HandlerLocal
  <2>1. CASE RestartCommand
    BY <2>1, <1>1 DEF RestartCommand
  <2>2. CASE SetLed
    <3>1. led' \in BOOLEAN
      BY <2>2, Zenon DEF SetLed
    <3>2. handler' \in Steps
      BY <2>2, Zenon DEF SetLed, Steps
    <3>3. UNCHANGED <<events, waiter, run_app, watchdog, client, event, first_connect,
                      reset_reason, sent, startups, quiet>>
      BY <2>2, Zenon DEF SetLed
    <3>4. QED
      BY <3>1, <3>2, <3>3
  <2>3. CASE ClearDisconnected
    BY <2>3 DEF ClearDisconnected, ClearsBit, Group!ClearBits, Steps
  <2>4. CASE ClearConnected
    BY <2>4 DEF ClearConnected, ClearsBit, Group!ClearBits, Steps
  <2>5. ASSUME NEW bit \in MqttBits, Group!SetBits({bit}) PROVE Group!GroupType'
     BY <2>5 DEF Group!SetBits
  <2>6. CASE SetConnected
    BY <2>6, <2>5 DEF SetConnected, SetsBit, Steps
  <2>7. CASE SetDisconnected
    BY <2>7, <2>5 DEF SetDisconnected, SetsBit, Steps
  <2>8. CASE Callback
    BY <2>8 DEF Callback, Steps
  <2>9. QED
    BY <1>7, <2>1, <2>2, <2>3, <2>4, <2>6, <2>7, <2>8 DEF HandlerLocal
<1>8. CASE HandlerCallFails \/ OtherTaskCallFails
  BY <1>8, <1>1 DEF HandlerCallFails, OtherTaskCallFails
<1>9. ASSUME NEW t \in MqttTasks, TimeoutRuns(t) PROVE TypeOK'
  BY <1>9 DEF TimeoutRuns, Group!ReadAfterTimeout
<1>10. CASE Tick
  BY <1>10 DEF Tick, Group!TickWaiters
<1>11. CASE UNCHANGED vars
  BY <1>11 DEF vars
<1>12. QED
  BY <1>2, <1>3, <1>4, <1>5, <1>6, <1>7, <1>8, <1>9, <1>10, <1>11 DEF Next

-----------------------------------------------------------------------------
(* What a step says nothing of when it leaves the handler and the bits alone. *)
LEMMA TaskFrame ==
    ASSUME IInv,
           UNCHANGED <<events, client, handler, led, first_connect, sent, startups>>
    PROVE  /\ NeverBothBits' /\ BitsFollowClient' /\ ConnectedMeansAnnounced'
           /\ ConnectBranch' /\ DisconnectBranch' /\ CommandBranch'
<1>1. NeverBothBits' /\ BitsFollowClient' /\ ConnectedMeansAnnounced'
  BY Zenon DEF IInv, NeverBothBits, BitsFollowClient, ConnectedMeansAnnounced
<1>2. ConnectBranch' /\ DisconnectBranch' /\ CommandBranch'
  BY Zenon DEF IInv, ConnectBranch, DisconnectBranch, CommandBranch
<1>3. QED
  BY <1>1, <1>2

(* What a step says nothing of when it leaves the two waiting tasks alone. *)
LEMMA HandlerFrame ==
    ASSUME IInv, UNCHANGED <<events, waiter, run_app, watchdog, quiet>>
    PROVE  WaiterInv'
BY Zenon DEF IInv, WaiterInv, BlockedOnConnected

(* The steps of the task in libiot_start_mqtt, of the watchdog and of the    *)
(* kernel's clock preserve the invariant: they touch neither the handler nor *)
(* what it has sent.                                                         *)
LEMMA TaskStep ==
    ASSUME IInv, TypeOK',
           \/ Boot \/ StartTask \/ WatchdogTask \/ Tick
           \/ \E t \in MqttTasks : TimeoutRuns(t)
    PROVE  IInv'
<1> USE DEF Group!Running
<1>1. TypeOK
  BY DEF IInv
<1>2. ASSUME OffInv', StartupOncePerBoot', ConnectedOnce', WaiterInv',
             UNCHANGED <<events, client, handler, led, first_connect, sent, startups>>
      PROVE  IInv'
  BY <1>2, TaskFrame DEF IInv
<1>3. ASSUME Reset("ESP_RST_SW") PROVE IInv'
  BY <1>3, ResetIsInit
<1>4. CASE Boot
  <2>1. OffInv'
    BY <1>4 DEF IInv, Boot, OffInv, TypeOK
  <2>2. StartupOncePerBoot' /\ ConnectedOnce'
    BY <1>4 DEF IInv, Boot, StartupOncePerBoot, ConnectedOnce
  <2>3. WaiterInv'
    BY <1>4, <1>1 DEF IInv, Boot, WaiterInv, BlockedOnConnected
  <2>4. QED
    BY <1>4, <1>2, <2>1, <2>2, <2>3 DEF Boot
<1>5. CASE StartClient
  <2>1. OffInv'
    BY <1>5 DEF IInv, StartClient, OffInv
  <2>2. StartupOncePerBoot' /\ ConnectedOnce'
    BY <1>5 DEF IInv, StartClient, StartupOncePerBoot, ConnectedOnce
  <2>3. WaiterInv'
    BY <1>5, <1>1 DEF IInv, StartClient, OffInv, WaiterInv, BlockedOnConnected
  <2>4. NeverBothBits' /\ BitsFollowClient' /\ ConnectedMeansAnnounced'
    BY <1>5
       DEF IInv, StartClient, NeverBothBits, BitsFollowClient, ConnectedMeansAnnounced,
           OffInv
  <2>5. ConnectBranch' /\ DisconnectBranch' /\ CommandBranch'
    BY <1>5
       DEF IInv, StartClient, ConnectBranch, DisconnectBranch, CommandBranch, OffInv
  <2>6. QED
    BY <2>1, <2>2, <2>3, <2>4, <2>5 DEF IInv
<1>6. CASE CreateWatchdog
  <2>1. OffInv'
    BY <1>6 DEF IInv, CreateWatchdog, OffInv
  <2>2. StartupOncePerBoot' /\ ConnectedOnce'
    BY <1>6 DEF IInv, CreateWatchdog, StartupOncePerBoot, ConnectedOnce
  <2>3. WaiterInv'
    BY <1>6, <1>1 DEF IInv, CreateWatchdog, WaiterInv, BlockedOnConnected
  <2>4. QED
    BY <1>6, <1>2, <2>1, <2>2, <2>3 DEF CreateWatchdog
<1>7. CASE WaitFirstConnect
  <2> USE <1>7, <1>1 DEF WaitFirstConnect, mqttVars, Group!WaitBits, Group!Blocked,
        Group!Woken
  <2>1. OffInv'
    BY DEF IInv, OffInv
  <2>2. StartupOncePerBoot' /\ ConnectedOnce'
    BY DEF IInv, StartupOncePerBoot, ConnectedOnce, TypeOK, Group!GroupType
  <2>3. WaiterInv'
    BY TimeoutAssumption
       DEF IInv, WaiterInv, BlockedOnConnected, TypeOK, Group!GroupType, Group!Waiter
  <2>4. QED
    BY <1>2, <2>1, <2>2, <2>3
<1>8. CASE FirstWaitReturns
  <2>1. CASE MQTT_EVENT_CONNECTED \in waiter["run_app"].got
    <3>1. /\ run_app = "first_wait" /\ run_app' = "app_run"
          /\ Group!Return("run_app")
          /\ UNCHANGED <<watchdog, client, handler, event, first_connect, led,
                         reset_reason, sent, startups, quiet>>
      BY <1>8, <2>1, Zenon DEF FirstWaitReturns
    <3> USE <1>1, <3>1 DEF Group!Return
    <3>2. OffInv'
      BY DEF IInv, OffInv
    <3>3. StartupOncePerBoot' /\ ConnectedOnce'
      BY <2>1 DEF IInv, StartupOncePerBoot, ConnectedOnce, TypeOK, Group!GroupType
    <3>4. WaiterInv'
      BY DEF IInv, WaiterInv, BlockedOnConnected, TypeOK, Group!GroupType, Group!Waiter
    <3>5. QED
      BY <1>2, <3>2, <3>3, <3>4
  <2>2. CASE MQTT_EVENT_CONNECTED \notin waiter["run_app"].got
    BY <1>8, <1>3, <2>2, Zenon DEF FirstWaitReturns
  <2>3. QED
    BY <2>1, <2>2
<1>9. ASSUME NEW place \in {"first", "connected", "disconnected"}, NEW bit \in MqttBits,
             NEW ticks \in Nat \cup {Group!Forever},
             ticks = (IF place = "disconnected" THEN WatchdogTimeout ELSE Group!Forever),
             place = "disconnected" => bit = MQTT_EVENT_CONNECTED,
             WatchdogWaits(place, bit, ticks)
      PROVE  IInv'
  <2> USE <1>9, <1>1 DEF WatchdogWaits, mqttVars, Group!WaitBits, Group!Blocked,
        Group!Woken
  <2>1. OffInv'
    BY DEF IInv, OffInv
  <2>2. StartupOncePerBoot' /\ ConnectedOnce'
    BY DEF IInv, StartupOncePerBoot, ConnectedOnce, TypeOK, Group!GroupType
  <2>3. WaiterInv'
    BY TimeoutAssumption
       DEF IInv, WaiterInv, BlockedOnConnected, TypeOK, Group!GroupType, Group!Waiter
  <2>4. QED
    BY <1>2, <2>1, <2>2, <2>3
<1>10. ASSUME NEW place \in {"first", "connected", "disconnected"}, NEW bit \in MqttBits,
             NEW next \in {"connected", "disconnected"},
             place = "first" => bit = MQTT_EVENT_CONNECTED,
             WatchdogGoesOn(place, bit, next)
      PROVE  IInv'
  <2> USE <1>10, <1>1 DEF WatchdogGoesOn, Group!Return
  <2>1. OffInv'
    BY DEF IInv, OffInv
  <2>2. StartupOncePerBoot' /\ ConnectedOnce'
    BY DEF IInv, StartupOncePerBoot, ConnectedOnce, TypeOK, Group!GroupType
  <2>3. WaiterInv'
    BY DEF IInv, WaiterInv, BlockedOnConnected, TypeOK, Group!GroupType, Group!Waiter
  <2>4. QED
    BY <1>2, <2>1, <2>2, <2>3
<1>11. CASE WatchdogRestarts
  BY <1>11, <1>3 DEF WatchdogRestarts
<1>12. CASE Tick
  <2> USE <1>12, <1>1 DEF Tick, Group!TickWaiters, Group!Expired
  <2>1. OffInv'
    <3>1. ASSUME client = "off" PROVE waiter' = [t \in MqttTasks |-> Group!Running]
      <4>1. \A t \in MqttTasks : waiter[t] = Group!Running
        BY <3>1 DEF IInv, OffInv
      <4>2. QED
        BY <4>1
    <3>2. QED
      BY <3>1 DEF IInv, OffInv
  <2>2. StartupOncePerBoot' /\ ConnectedOnce'
    BY DEF IInv, StartupOncePerBoot, ConnectedOnce, TypeOK, Group!GroupType,
           Group!Waiter
  <2>3. WaiterInv'
    BY TimeoutAssumption
       DEF IInv, WaiterInv, BlockedOnConnected, TypeOK, Group!GroupType, Group!Waiter,
           QuietCap
  <2>4. QED
    BY <1>2, <2>1, <2>2, <2>3
<1>13. ASSUME NEW t \in MqttTasks, TimeoutRuns(t) PROVE IInv'
  <2> USE <1>13, <1>1 DEF TimeoutRuns, mqttVars, Group!ReadAfterTimeout, Group!Woken
  <2>1. OffInv'
    BY DEF IInv, OffInv
  <2>2. StartupOncePerBoot' /\ ConnectedOnce'
    BY DEF IInv, StartupOncePerBoot, ConnectedOnce, TypeOK, Group!GroupType
  <2>3. WaiterInv'
    BY DEF IInv, WaiterInv, BlockedOnConnected, TypeOK, Group!GroupType, Group!Waiter
  <2>4. QED
    BY <1>2, <2>1, <2>2, <2>3
<1>14. CASE StartTask
  BY <1>5, <1>6, <1>7, <1>8, <1>14 DEF StartTask
<1>15. CASE WatchdogTask
  BY <1>9, <1>10, <1>11, <1>15, TimeoutAssumption
     DEF WatchdogTask, AwaitFirstConnect, FirstConnectSeen, AwaitDisconnect,
         DisconnectSeen, AwaitReconnect, ReconnectSeen
<1>16. QED
  BY <1>4, <1>12, <1>13, <1>14, <1>15

-----------------------------------------------------------------------------
(* An event of the client starts the handler in a state its branch expects. *)
LEMMA EventStep ==
    ASSUME IInv, TypeOK', ClientEvent
    PROVE  IInv'
<1>1. TypeOK
  BY DEF IInv
<1>2. ASSUME handler = "idle", handler' # "idle",
             handler' = "callback" => client = client',
             client # "off", client' # "off",
             UNCHANGED <<events, waiter, run_app, watchdog, first_connect, led,
                         startups, quiet>>
      PROVE  /\ OffInv' /\ NeverBothBits' /\ StartupOncePerBoot'
             /\ ConnectedOnce' /\ WaiterInv' /\ BitsFollowClient'
  <2>1. WaiterInv'
    BY <1>2, HandlerFrame
  <2>2. OffInv' /\ NeverBothBits'
    BY <1>2 DEF IInv, OffInv, NeverBothBits
  <2>3. BitsFollowClient'
    BY <1>2 DEF IInv, BitsFollowClient
  <2>4. StartupOncePerBoot' /\ ConnectedOnce'
    BY <1>2, Zenon DEF IInv, StartupOncePerBoot, ConnectedOnce
  <2>5. QED
    BY <2>1, <2>2, <2>3, <2>4
<1>3. /\ EspEventId.error = 0 /\ EspEventId.connected = 1 /\ EspEventId.disconnected = 2
      /\ EspEventId.subscribed = 3 /\ EspEventId.published = 5 /\ EspEventId.data = 6
  BY DEF EspEventId
<1>4. CASE BrokerAccepts
  <2>1. /\ client = "down" /\ client' = "up" /\ sent' = {} /\ handler = "idle"
        /\ handler' = "subscribe_ping"
        /\ UNCHANGED <<events, waiter, run_app, watchdog, first_connect, led, startups,
                       quiet>>
    BY <1>4, <1>3 DEF BrokerAccepts, Dispatch, FirstStep
  <2>2. ConnectedMeansAnnounced'
    BY <2>1 DEF IInv, ConnectedMeansAnnounced, BitsFollowClient
  <2>3. ConnectBranch' /\ DisconnectBranch' /\ CommandBranch'
    BY <2>1 DEF IInv, ConnectBranch, DisconnectBranch, CommandBranch, BitsFollowClient
  <2>4. QED
    BY <1>2, <2>1, <2>2, <2>3 DEF IInv
<1>5. CASE ConnectFails \/ ConnectionLost
  <2>1. /\ client # "off" /\ client' = "down" /\ handler = "idle" /\ handler' = "led_off"
        /\ UNCHANGED <<events, waiter, run_app, watchdog, first_connect, led, startups,
                       quiet, sent>>
    BY <1>5, <1>3 DEF ConnectFails, ConnectionLost, Dispatch, FirstStep
  <2>2. ConnectedMeansAnnounced'
    BY <2>1 DEF IInv, ConnectedMeansAnnounced
  <2>3. ConnectBranch' /\ DisconnectBranch' /\ CommandBranch'
    BY <2>1 DEF ConnectBranch, DisconnectBranch, CommandBranch
  <2>4. QED
    BY <1>2, <2>1, <2>2, <2>3 DEF IInv
<1>6. ASSUME NEW topic \in Topics, MessageArrives(topic) PROVE IInv'
  <2>1. /\ client = "up" /\ client' = "up" /\ handler = "idle"
        /\ handler' \in {"restart", "dispatch_ota", "reply_status", "reply_info",
                         "reply_mem_check", "callback"}
        /\ UNCHANGED <<events, waiter, run_app, watchdog, first_connect, led, startups,
                       quiet, sent>>
    BY <1>6, <1>3 DEF MessageArrives, Dispatch, FirstStep
  <2>2. ConnectedMeansAnnounced'
    BY <2>1 DEF IInv, ConnectedMeansAnnounced
  <2>3. ConnectBranch' /\ DisconnectBranch'
    BY <2>1 DEF ConnectBranch, DisconnectBranch
  <2>4. CommandBranch'
    BY <2>1 DEF IInv, CommandBranch, BitsFollowClient
  <2>5. QED
    BY <1>2, <2>1, <2>2, <2>3, <2>4 DEF IInv
<1>7. ASSUME NEW name \in {"error", "subscribed", "published"}, OtherEvent(name)
      PROVE  IInv'
  <2>1. /\ client # "off" /\ client' = client /\ handler = "idle" /\ handler' = "callback"
        /\ UNCHANGED <<events, waiter, run_app, watchdog, first_connect, led, startups,
                       quiet, sent>>
    BY <1>7, <1>3 DEF OtherEvent, Dispatch, FirstStep
  <2>2. ConnectedMeansAnnounced'
    BY <2>1 DEF IInv, ConnectedMeansAnnounced
  <2>3. ConnectBranch' /\ DisconnectBranch' /\ CommandBranch'
    BY <2>1 DEF ConnectBranch, DisconnectBranch, CommandBranch
  <2>4. QED
    BY <1>2, <2>1, <2>2, <2>3 DEF IInv
<1>8. QED
  BY <1>4, <1>5, <1>6, <1>7 DEF ClientEvent

(* A subscription or publication takes the handler to its next step. *)
LEMMA SendStep ==
    ASSUME IInv, TypeOK', HandlerSends
    PROVE  IInv'
<1>1. TypeOK
  BY DEF IInv
<1>2. ASSUME NEW step \in Sending, NEW what, NEW next \in Steps \ {"idle"}, Sends(step,
             what, next)
      PROVE  /\ OffInv' /\ NeverBothBits' /\ WaiterInv' /\ client # "off"
             /\ UNCHANGED <<events, waiter, run_app, watchdog, client, led>>
             /\ handler = step /\ handler' = next /\ sent' = sent \cup what
  <2>1. UNCHANGED <<events, waiter, run_app, watchdog, client, event, led,
                    reset_reason, quiet>>
    BY <1>2 DEF Sends
  <2>2. client # "off" /\ handler = step /\ handler' = next /\ sent' = sent \cup what
    BY <1>2 DEF Sends, Sending, IInv, OffInv
  <2>3. WaiterInv'
    BY <2>1, HandlerFrame
  <2>4. OffInv' /\ NeverBothBits'
    BY <2>1, <2>2 DEF IInv, OffInv, NeverBothBits
  <2>5. QED
    BY <2>1, <2>2, <2>3, <2>4
<1>3. ASSUME UNCHANGED <<waiter, run_app, watchdog, events, first_connect, startups>>
      PROVE  StartupOncePerBoot' /\ ConnectedOnce'
  BY <1>3, Zenon DEF IInv, StartupOncePerBoot, ConnectedOnce
<1>4. Sending \subseteq Steps /\ "idle" \notin Sending /\ "led_on" \in Steps /\ "callback" \in Steps
  BY DEF Sending, Steps
<1>5. CASE SubscribePing \/ SubscribeLocal \/ PublishStatus \/ PublishInfo
  <2>1. PICK step \in {"subscribe_ping", "subscribe_local", "publish_status",
        "publish_info"},
             what \in SUBSET Announcement,
             next \in {"subscribe_local", "publish_status", "publish_info",
             "publish_startup", "led_on"} :
           /\ Sends(step, what, next)
           /\ step = "subscribe_ping" => what = {"sub_ping"} /\ next = "subscribe_local"
           /\ step = "subscribe_local" => what = {"sub_local"} /\ next = "publish_status"
           /\ step = "publish_status" => what = {"status"} /\ next = "publish_info"
           /\ step = "publish_info" =>
                what = {"info"} /\ next = (IF first_connect THEN "publish_startup" ELSE "led_on")
    BY <1>5 DEF SubscribePing, SubscribeLocal, PublishStatus, PublishInfo, Announcement
  <2>2. UNCHANGED <<first_connect, startups>>
    BY <1>5 DEF SubscribePing, SubscribeLocal, PublishStatus, PublishInfo
  <2>3. next \in Steps \ {"idle"} /\ step \in Sending
    BY DEF Sending, Steps
  <2>4. /\ OffInv' /\ NeverBothBits' /\ WaiterInv' /\ client # "off"
        /\ UNCHANGED <<events, waiter, run_app, watchdog, client, led>>
        /\ handler = step /\ handler' = next /\ sent' = sent \cup what
    BY <1>2, <2>1, <2>3
  <2>5. StartupOncePerBoot' /\ ConnectedOnce'
    BY <1>3, <2>2, <2>4
  <2>6. BitsFollowClient' /\ DisconnectBranch' /\ CommandBranch'
    BY <2>4 DEF BitsFollowClient, DisconnectBranch, CommandBranch
  <2>7. ConnectBranch'
    BY <2>1, <2>2, <2>4 DEF IInv, ConnectBranch, Announcement
  <2>8. ConnectedMeansAnnounced'
    BY <2>4 DEF IInv, ConnectBranch, ConnectedMeansAnnounced
  <2>9. QED
    BY <2>4, <2>5, <2>6, <2>7, <2>8 DEF IInv
<1>6. CASE PublishStartup
  <2>1. Sends("publish_startup", {}, "led_on") /\ first_connect' = FALSE /\ startups' = startups + 1
    BY <1>6, Zenon DEF PublishStartup
  <2>2. ~first_connect' /\ startups' = startups + 1
    BY <2>1, Zenon
  <2>3. /\ OffInv' /\ NeverBothBits' /\ WaiterInv' /\ client # "off"
        /\ UNCHANGED <<events, waiter, run_app, watchdog, client, led>>
        /\ handler = "publish_startup" /\ handler' = "led_on" /\ sent' = sent
    <3>1. "publish_startup" \in Sending /\ "led_on" \in Steps \ {"idle"}
      BY DEF Sending, Steps
    <3>2. Sends("publish_startup", {}, "led_on")
      BY <2>1
    <3>3. /\ OffInv' /\ NeverBothBits' /\ WaiterInv' /\ client # "off"
          /\ UNCHANGED <<events, waiter, run_app, watchdog, client, led>>
          /\ handler = "publish_startup" /\ handler' = "led_on" /\ sent' = sent \cup {}
      BY <1>2, <3>1, <3>2, Zenon
    <3>4. QED
      BY <3>3
  <2>4. first_connect /\ startups = 0
    BY <2>3 DEF IInv, ConnectBranch, StartupOncePerBoot
  <2>5. StartupOncePerBoot'
    BY <2>2, <2>3, <2>4 DEF StartupOncePerBoot
  <2>6. ConnectedOnce' /\ BitsFollowClient' /\ DisconnectBranch' /\ CommandBranch'
    BY <2>2, <2>3 DEF ConnectedOnce, BitsFollowClient, DisconnectBranch, CommandBranch
  <2>7. ConnectBranch' /\ ConnectedMeansAnnounced'
    BY <2>2, <2>3 DEF IInv, ConnectBranch, ConnectedMeansAnnounced
  <2>8. QED
    BY <2>3, <2>5, <2>6, <2>7 DEF IInv
<1>7. CASE Reply
  <2>1. /\ OffInv' /\ NeverBothBits' /\ WaiterInv' /\ client # "off"
        /\ UNCHANGED <<events, waiter, run_app, watchdog, client, led>>
        /\ handler \in {"reply_status", "reply_info", "reply_mem_check", "dispatch_ota"}
        /\ handler' = "callback" /\ sent' = sent
    <3>1. handler \in Sending /\ "callback" \in Steps \ {"idle"}
      BY <1>7 DEF Reply, Sending, Steps
    <3>2. Sends(handler, {}, "callback")
      BY <1>7 DEF Reply
    <3>3. /\ OffInv' /\ NeverBothBits' /\ WaiterInv' /\ client # "off"
          /\ UNCHANGED <<events, waiter, run_app, watchdog, client, led>>
          /\ handler' = "callback" /\ sent' = sent \cup {}
      BY <1>2, <3>1, <3>2, Zenon
    <3>4. QED
      BY <1>7, <3>3 DEF Reply
  <2>2. UNCHANGED <<first_connect, startups>>
    BY <1>7 DEF Reply
  <2>3. StartupOncePerBoot' /\ ConnectedOnce'
    BY <1>3, <2>1, <2>2
  <2>4. ConnectedMeansAnnounced' /\ ConnectBranch' /\ DisconnectBranch' /\ CommandBranch'
    BY <2>1
       DEF IInv, ConnectedMeansAnnounced, ConnectBranch, DisconnectBranch, CommandBranch
  <2>5. BitsFollowClient'
    BY <2>1 DEF IInv, CommandBranch, BitsFollowClient
  <2>6. QED
    BY <2>1, <2>3, <2>4, <2>5 DEF IInv
<1>8. QED
  BY <1>5, <1>6, <1>7 DEF HandlerSends

(* The steps of the handler on the LED and on the two bits. *)
LEMMA LocalStep ==
    ASSUME IInv, TypeOK', HandlerLocal
    PROVE  IInv'
<1>1. TypeOK
  BY DEF IInv
<1>2. ASSUME UNCHANGED <<events, waiter, run_app, watchdog, client, first_connect,
             sent, startups, quiet>>,
             handler # "idle", client # "off"
      PROVE  /\ OffInv' /\ NeverBothBits' /\ ConnectedMeansAnnounced' /\ StartupOncePerBoot'
             /\ ConnectedOnce' /\ WaiterInv'
  <2>1. WaiterInv'
    BY <1>2, HandlerFrame
  <2>2. OffInv'
    BY <1>2 DEF IInv, OffInv
  <2>3. NeverBothBits' /\ ConnectedMeansAnnounced' /\ StartupOncePerBoot' /\ ConnectedOnce'
    BY <1>2, Zenon
       DEF IInv, NeverBothBits, ConnectedMeansAnnounced, StartupOncePerBoot,
           ConnectedOnce
  <2>4. QED
    BY <2>1, <2>2, <2>3
<1>3. CASE RestartCommand
  BY <1>3, ResetIsInit DEF RestartCommand
<1>4. CASE SetLed
  <2>1. /\ UNCHANGED <<events, waiter, run_app, watchdog, client, first_connect, sent,
                       startups, quiet>>
        /\ \/ handler = "led_on" /\ led' /\ handler' = "clear_disconnected"
           \/ handler = "led_off" /\ ~led' /\ handler' = "clear_connected"
    BY <1>4, Zenon DEF SetLed
  <2>2. client # "off" /\ handler # "idle"
    BY <2>1 DEF IInv, OffInv
  <2>3. BitsFollowClient' /\ CommandBranch'
    BY <2>1 DEF BitsFollowClient, CommandBranch
  <2>4. ConnectBranch' /\ DisconnectBranch'
    BY <2>1 DEF IInv, ConnectBranch, DisconnectBranch
  <2>5. QED
    BY <1>2, <2>1, <2>2, <2>3, <2>4 DEF IInv
<1>5. CASE ClearDisconnected \/ ClearConnected
  <2>1. /\ UNCHANGED <<waiter, run_app, watchdog, client, first_connect, led, sent,
                       startups, quiet>>
        /\ \/ /\ handler = "clear_disconnected" /\ handler' = "set_connected"
              /\ events' = events \ {MQTT_EVENT_DISCONNECTED}
           \/ /\ handler = "clear_connected" /\ handler' = "set_disconnected"
              /\ events' = events \ {MQTT_EVENT_CONNECTED}
    BY <1>5 DEF ClearDisconnected, ClearConnected, ClearsBit, Group!ClearBits
  <2>2. client # "off" /\ events' \subseteq events
    BY <2>1 DEF IInv, OffInv
  <2>3. /\ OffInv' /\ NeverBothBits' /\ ConnectedMeansAnnounced'
        /\ BitsFollowClient' /\ CommandBranch'
    BY <2>1, <2>2
       DEF IInv, OffInv, NeverBothBits, ConnectedMeansAnnounced, BitsFollowClient,
           CommandBranch
  <2>4. ConnectBranch' /\ DisconnectBranch'
    BY <1>1, <2>1 DEF IInv, ConnectBranch, DisconnectBranch, TypeOK, Group!GroupType
  <2>5. StartupOncePerBoot' /\ ConnectedOnce'
    BY <2>1, <2>2 DEF IInv, StartupOncePerBoot, ConnectedOnce
  <2>6. WaiterInv'
    BY <2>1, <2>2 DEF IInv, WaiterInv, BlockedOnConnected
  <2>7. QED
    BY <2>3, <2>4, <2>5, <2>6 DEF IInv
<1>6. CASE SetConnected
  <2> USE <1>1, <1>6 DEF SetConnected, SetsBit, Group!SetBits
  <2>1. /\ UNCHANGED <<run_app, watchdog, client, first_connect, led, sent, startups>>
        /\ handler = "set_connected" /\ handler' = "callback"
        /\ client = "up" /\ led /\ ~first_connect /\ sent = Announcement
        /\ events = {} /\ events' = {MQTT_EVENT_CONNECTED}
    BY DEF IInv, ConnectBranch
  <2>2. /\ OffInv' /\ NeverBothBits' /\ ConnectedMeansAnnounced'
        /\ BitsFollowClient' /\ CommandBranch'
    BY <2>1
       DEF IInv, OffInv, NeverBothBits, ConnectedMeansAnnounced, BitsFollowClient,
           CommandBranch
  <2>3. ConnectBranch' /\ DisconnectBranch'
    BY <2>1 DEF ConnectBranch, DisconnectBranch
  <2>4. StartupOncePerBoot' /\ ConnectedOnce'
    BY <2>1 DEF IInv, StartupOncePerBoot, ConnectedOnce
  <2>5. WaiterInv'
    BY <2>1
       DEF IInv, WaiterInv, BlockedOnConnected, TypeOK, Group!GroupType, Group!Waiter,
           Group!Woken
  <2>6. QED
    BY <2>2, <2>3, <2>4, <2>5 DEF IInv
<1>7. CASE SetDisconnected
  <2> USE <1>1, <1>7 DEF SetDisconnected, SetsBit, Group!SetBits
  <2>1. /\ UNCHANGED <<run_app, watchdog, client, first_connect, led, sent, startups,
                       quiet>>
        /\ handler = "set_disconnected" /\ handler' = "callback"
        /\ client = "down" /\ ~led
        /\ events' = {MQTT_EVENT_DISCONNECTED} /\ MQTT_EVENT_CONNECTED \notin events
    <3>1. /\ UNCHANGED <<run_app, watchdog, client, first_connect, led, sent, startups,
                         quiet>>
          /\ handler = "set_disconnected" /\ handler' = "callback"
          /\ client = "down" /\ ~led /\ MQTT_EVENT_CONNECTED \notin events
      BY DEF IInv, DisconnectBranch
    <3>2. events \subseteq MqttBits /\ events' = events \cup {MQTT_EVENT_DISCONNECTED}
      BY DEF TypeOK, Group!GroupType
    <3>3. events' = {MQTT_EVENT_DISCONNECTED}
      BY <3>1, <3>2
    <3>4. QED
      BY <3>1, <3>3
  <2>2. /\ OffInv' /\ NeverBothBits' /\ ConnectedMeansAnnounced'
        /\ BitsFollowClient' /\ CommandBranch'
    BY <2>1
       DEF IInv, OffInv, NeverBothBits, ConnectedMeansAnnounced, BitsFollowClient,
           CommandBranch
  <2>3. ConnectBranch' /\ DisconnectBranch'
    BY <2>1 DEF ConnectBranch, DisconnectBranch
  <2>4. StartupOncePerBoot' /\ ConnectedOnce'
    BY <2>1
       DEF IInv, StartupOncePerBoot, ConnectedOnce, TypeOK, Group!GroupType,
           Group!Waiter, Group!Woken
  <2>5. WaiterInv'
    BY <2>1
       DEF IInv, WaiterInv, BlockedOnConnected, TypeOK, Group!GroupType, Group!Waiter,
           Group!Woken
  <2>6. QED
    BY <2>2, <2>3, <2>4, <2>5 DEF IInv
<1>8. CASE Callback
  <2>1. /\ UNCHANGED <<events, waiter, run_app, watchdog, client, first_connect, led,
                       sent, startups, quiet>>
        /\ handler = "callback" /\ handler' = "idle"
    BY <1>8 DEF Callback
  <2>2. client # "off" /\ handler # "idle"
    BY <2>1 DEF IInv, OffInv
  <2>3. BitsFollowClient' /\ CommandBranch' /\ ConnectBranch' /\ DisconnectBranch'
    BY <2>1 DEF IInv, BitsFollowClient, CommandBranch, ConnectBranch, DisconnectBranch
  <2>4. QED
    BY <1>2, <2>1, <2>2, <2>3 DEF IInv
<1>9. QED
  BY <1>3, <1>4, <1>5, <1>6, <1>7, <1>8 DEF HandlerLocal

-----------------------------------------------------------------------------
(* The invariant holds when the device is first switched on. *)
LEMMA InitInv == Init => IInv
<1> SUFFICES ASSUME Init PROVE IInv
  OBVIOUS
<1>1. first_connect /\ ~led /\ first_connect \in BOOLEAN /\ led \in BOOLEAN
  BY Zenon DEF Init
<1>2. TypeOK
  BY <1>1, TimeoutAssumption
     DEF Init, TypeOK, Group!GroupInit, Group!GroupType, Group!Waiter, Group!Running,
         NoEvent, Events, Steps, QuietCap
<1>3. /\ OffInv /\ NeverBothBits /\ BitsFollowClient
      /\ ConnectedMeansAnnounced /\ StartupOncePerBoot
  BY <1>1
     DEF Init, Group!GroupInit, OffInv, NeverBothBits, BitsFollowClient,
         ConnectedMeansAnnounced, StartupOncePerBoot
<1>4. ConnectBranch /\ DisconnectBranch /\ CommandBranch
  BY DEF Init, ConnectBranch, DisconnectBranch, CommandBranch
<1>5. ConnectedOnce /\ WaiterInv
  BY <1>1 DEF Init, Group!GroupInit, Group!Running, ConnectedOnce, WaiterInv
<1>6. QED
  BY <1>2, <1>3, <1>4, <1>5 DEF IInv

(* Every step preserves the invariant: one case for each disjunct of Next. *)
LEMMA NextInv == IInv /\ [Next]_vars => IInv'
<1> SUFFICES ASSUME IInv, [Next]_vars PROVE IInv'
  OBVIOUS
<1>1. TypeOK'
  BY TypeInvariant DEF IInv
<1>2. CASE HandlerCallFails \/ OtherTaskCallFails
  BY <1>2, ResetIsInit DEF HandlerCallFails, OtherTaskCallFails
<1>3. CASE UNCHANGED vars
  <2>1. UNCHANGED <<events, waiter, run_app, watchdog, client, handler, event,
                    first_connect, led,
              reset_reason, sent, startups, quiet>>
    BY <1>3 DEF vars
  <2>2. NeverBothBits' /\ BitsFollowClient' /\ ConnectedMeansAnnounced' /\ ConnectBranch'
        /\ DisconnectBranch' /\ CommandBranch' /\ WaiterInv'
    BY <2>1, TaskFrame, HandlerFrame
  <2>3. OffInv' /\ StartupOncePerBoot' /\ ConnectedOnce'
    BY <2>1, Zenon DEF IInv, OffInv, StartupOncePerBoot, ConnectedOnce
  <2>4. QED
    BY <1>1, <2>2, <2>3 DEF IInv
<1>4. QED
  BY <1>1, <1>2, <1>3, TaskStep, EventStep, SendStep, LocalStep DEF Next

(* Every state a node reaches satisfies the inductive invariant. *)
THEOREM Inductive == Spec => []IInv
BY InitInv, NextInv, PTL DEF Spec

(* Every variable keeps its type, in every run of the node. *)
THEOREM TypeCorrect == Spec => []TypeOK
<1>1. IInv => TypeOK
  BY DEF IInv
<1>2. QED
  BY <1>1, Inductive, PTL

(* The two bits of mqtt.c are never both set, in every run of the node. *)
THEOREM BitsExclude == Spec => []NeverBothBits
<1>1. IInv => NeverBothBits
  BY DEF IInv
<1>2. QED
  BY <1>1, Inductive, PTL

(* Between two events the bits and the LED tell the state of the connection. *)
THEOREM BitsAgree == Spec => []BitsFollowClient
<1>1. IInv => BitsFollowClient
  BY DEF IInv
<1>2. QED
  BY <1>1, Inductive, PTL

(* A task woken by the connected bit finds the node subscribed and announced. *)
THEOREM Announced == Spec => []ConnectedMeansAnnounced
<1>1. IInv => ConnectedMeansAnnounced
  BY DEF IInv
<1>2. QED
  BY <1>1, Inductive, PTL

(* The startup message goes out once per boot, and before app_run() starts. *)
THEOREM OneStartup == Spec => []StartupOncePerBoot
<1>1. IInv => StartupOncePerBoot
  BY DEF IInv
<1>2. QED
  BY <1>1, Inductive, PTL

(* For all timeouts: no wait of libiot_start_mqtt or of the watchdog expires on *)
(* a node whose connected bit was set at any time during the wait, and neither  *)
(* restarts a node after a wait that came back with the bit.                    *)
THEOREM ExpiryIsSilence == Spec => ExpiryMeansSilence
<1> DEFINE Timeout(t) == IF t = "run_app" THEN FirstConnectTimeout ELSE WatchdogTimeout
           Expires(t) == waiter[t].state = "blocked" /\ waiter'[t].state = "expired"
           Found(t) == waiter[t].state = "expired" /\ FoundNoConnection(t)'
<1>1. ASSUME IInv, [Next]_vars, NEW t \in MqttTasks, Expires(t)
      PROVE  quiet' >= Timeout(t)
  <2>1. Tick
    <3> USE <1>1
    <3>1. waiter \in [MqttTasks -> Group!Waiter]
      BY DEF IInv, TypeOK, Group!GroupType
    <3>2. CASE StartTask
      BY <3>2, <3>1
         DEF StartTask, StartClient, CreateWatchdog, WaitFirstConnect,
             FirstWaitReturns, Reset,
             Group!WaitBits, Group!Return, Group!Running, Group!Blocked, Group!Woken
    <3>3. CASE WatchdogTask
      BY <3>3, <3>1
         DEF WatchdogTask, AwaitFirstConnect, FirstConnectSeen, AwaitDisconnect,
             DisconnectSeen,
             AwaitReconnect, ReconnectSeen, WatchdogRestarts, WatchdogWaits,
             WatchdogGoesOn, Reset,
             Group!WaitBits, Group!Return, Group!Running, Group!Blocked, Group!Woken
    <3>4. CASE HandlerLocal
      BY <3>4, <3>1
         DEF HandlerLocal, RestartCommand, Reset, SetLed, ClearDisconnected,
             ClearConnected,
             ClearsBit, SetConnected, SetDisconnected, SetsBit, Callback,
             Group!ClearBits, Group!SetBits, Group!Running, Group!Woken
    <3>5. CASE HandlerSends \/ ClientEvent \/ Boot \/ UNCHANGED vars
      BY <3>5
         DEF HandlerSends, SubscribePing, SubscribeLocal, PublishStatus, PublishInfo,
             PublishStartup, Reply, Sends, ClientEvent, BrokerAccepts, ConnectFails,
             ConnectionLost, MessageArrives, OtherEvent, Dispatch, Boot, vars
    <3>6. CASE HandlerCallFails \/ OtherTaskCallFails
      BY <3>6 DEF HandlerCallFails, OtherTaskCallFails, Reset, Group!Running
    <3>7. ASSUME NEW u \in MqttTasks, TimeoutRuns(u)
          PROVE  FALSE
      BY <3>7, <3>1 DEF TimeoutRuns, Group!ReadAfterTimeout, Group!Woken
    <3>8. QED
      BY <3>2, <3>3, <3>4, <3>5, <3>6, <3>7 DEF Next
  <2>2. waiter[t].left = 1
    BY <1>1, <2>1
       DEF Tick, Group!TickWaiters, Group!Expired, IInv, TypeOK, Group!GroupType
  <2>3. BlockedOnConnected(t, Timeout(t))
    BY <1>1, <2>2 DEF IInv, WaiterInv, BlockedOnConnected
  <2>4. quiet \in 0 .. QuietCap /\ quiet >= Timeout(t) - 1
    BY <1>1, <2>2, <2>3, TimeoutAssumption
       DEF BlockedOnConnected, IInv, TypeOK, QuietCap
  <2>5. QED
    BY <2>1, <2>3, <2>4, TimeoutAssumption DEF Tick, BlockedOnConnected, QuietCap
<1>2. ASSUME IInv, [Next]_vars, NEW t \in MqttTasks, Found(t)
      PROVE  MQTT_EVENT_CONNECTED \notin events
  <2>1. waiter \in [MqttTasks -> Group!Waiter]
    BY <1>2 DEF IInv, TypeOK, Group!GroupType
  <2>2. waiter[t].state = "expired" /\ waiter'[t].state = "woken"
    BY <1>2 DEF FoundNoConnection
  <2>3. PICK u \in MqttTasks : TimeoutRuns(u)
    <3>1. CASE StartTask
      BY <3>1, <2>1, <2>2
         DEF StartTask, StartClient, CreateWatchdog, WaitFirstConnect,
             FirstWaitReturns, Reset,
             Group!WaitBits, Group!Return, Group!Running, Group!Blocked, Group!Woken
    <3>2. CASE WatchdogTask
      BY <3>2, <2>1, <2>2
         DEF WatchdogTask, AwaitFirstConnect, FirstConnectSeen, AwaitDisconnect,
             DisconnectSeen,
             AwaitReconnect, ReconnectSeen, WatchdogRestarts, WatchdogWaits,
             WatchdogGoesOn, Reset,
             Group!WaitBits, Group!Return, Group!Running, Group!Blocked, Group!Woken
    <3>3. CASE HandlerLocal
      BY <3>3, <2>1, <2>2
         DEF HandlerLocal, RestartCommand, Reset, SetLed, ClearDisconnected,
             ClearConnected,
             ClearsBit, SetConnected, SetDisconnected, SetsBit, Callback,
             Group!ClearBits, Group!SetBits, Group!Running, Group!Woken
    <3>4. CASE HandlerSends \/ ClientEvent \/ Boot \/ UNCHANGED vars
      BY <3>4, <2>2
         DEF HandlerSends, SubscribePing, SubscribeLocal, PublishStatus, PublishInfo,
             PublishStartup, Reply, Sends, ClientEvent, BrokerAccepts, ConnectFails,
             ConnectionLost, MessageArrives, OtherEvent, Dispatch, Boot, vars
    <3>5. CASE HandlerCallFails \/ OtherTaskCallFails
      BY <3>5, <2>2 DEF HandlerCallFails, OtherTaskCallFails, Reset, Group!Running
    <3>6. CASE Tick
      BY <3>6, <2>1, <2>2 DEF Tick, Group!TickWaiters, Group!Expired
    <3>7. QED
      BY <1>2, <3>1, <3>2, <3>3, <3>4, <3>5, <3>6 DEF Next
  <2>4. u = t /\ waiter'[t] = Group!Woken(events)
    BY <2>1, <2>2, <2>3 DEF TimeoutRuns, Group!ReadAfterTimeout
  <2>5. QED
    BY <1>2, <2>4 DEF FoundNoConnection, Group!Woken
<1>3. ASSUME IInv, [Next]_vars, TimeoutStrikes
      PROVE  \E t \in MqttTasks : FoundNoConnection(t)
  <2>1. CASE FirstWaitReturns
    BY <1>3, <2>1 DEF TimeoutStrikes, FirstWaitReturns, FoundNoConnection, MqttTasks
  <2>2. CASE WatchdogRestarts
    BY <2>2 DEF WatchdogRestarts, FoundNoConnection, MqttTasks
  <2>3. CASE \/ StartClient \/ CreateWatchdog \/ WaitFirstConnect
             \/ AwaitFirstConnect \/ FirstConnectSeen
             \/ AwaitDisconnect \/ DisconnectSeen
             \/ AwaitReconnect \/ ReconnectSeen
    BY <1>3, <2>3
       DEF TimeoutStrikes, StartClient, CreateWatchdog, WaitFirstConnect,
           AwaitFirstConnect, FirstConnectSeen, AwaitDisconnect, DisconnectSeen,
           AwaitReconnect, ReconnectSeen, WatchdogWaits, WatchdogGoesOn, mqttVars
  <2>4. CASE HandlerLocal
    BY <1>3, <2>4
       DEF TimeoutStrikes, HandlerLocal, RestartCommand, SetLed, ClearDisconnected,
           ClearConnected, ClearsBit, SetConnected, SetDisconnected, SetsBit, Callback
  <2>5. CASE HandlerSends \/ ClientEvent \/ Boot \/ UNCHANGED vars
    BY <1>3, <2>5
       DEF TimeoutStrikes, HandlerSends, SubscribePing, SubscribeLocal, PublishStatus,
           PublishInfo, PublishStartup, Reply, Sends, ClientEvent, BrokerAccepts,
           ConnectFails, ConnectionLost, MessageArrives, OtherEvent, Dispatch, Boot, vars
  <2>6. CASE HandlerCallFails \/ OtherTaskCallFails
    BY <1>3, <2>6 DEF TimeoutStrikes, HandlerCallFails, OtherTaskCallFails, Reset
  <2>7. CASE Tick \/ \E t \in MqttTasks : TimeoutRuns(t)
    BY <1>3, <2>7 DEF TimeoutStrikes, Tick, TimeoutRuns, mqttVars
  <2>8. QED
    BY <1>3, <2>1, <2>2, <2>3, <2>4, <2>5, <2>6, <2>7 DEF Next, StartTask, WatchdogTask
<1>4. IInv /\ [Next]_vars =>
        [/\ \A t \in MqttTasks : Expires(t) => quiet' >= Timeout(t)
         /\ \A t \in MqttTasks : Found(t) => MQTT_EVENT_CONNECTED \notin events
         /\ TimeoutStrikes => \E t \in MqttTasks : FoundNoConnection(t)]_vars
  BY <1>1, <1>2, <1>3
<1>5. QED
  BY <1>4, Inductive, PTL DEF Spec, ExpiryMeansSilence
=============================================================================
