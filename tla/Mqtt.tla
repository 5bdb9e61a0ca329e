-------------------------------- MODULE Mqtt --------------------------------
(***************************************************************************)
(* The MQTT session of a node (src/src/libiot/mqtt.c), and the three tasks *)
(* that meet in it:                                                        *)
(*   - the esp-mqtt client task, which runs mqtt_event_handler for every   *)
(*     event, one event at a time;                                         *)
(*   - the task running libiot_start_mqtt, which blocks until the first    *)
(*     connection and restarts the device when none comes;                 *)
(*   - task_mqtt_watchdog, which restarts the device when a lost           *)
(*     connection does not come back.                                      *)
(* They synchronise through an event group of two bits (EventGroup).       *)
(*                                                                         *)
(* A step of a task is one call of the code that another task, the broker  *)
(* or the user can observe.  Time is a kernel tick.  esp_restart() and a   *)
(* failed assertion end in Reset, which loses the RAM; Boot starts again.  *)
(* A Mutant is a plausible bug in the definition that follows it; the      *)
(* specification does not use it.                                          *)
(***************************************************************************)
EXTENDS Integers

CONSTANTS
    FirstConnectTimeout,   \* FIRST_CONNECT_TIMEOUT_INTERVAL_MS, in ticks
    WatchdogTimeout,       \* WATCHDOG_CONNECT_TIMEOUT_INTERVAL_MS, in ticks
    WatchdogEnabled        \* LIBIOT_ENABLE_MQTT_WATCHDOG

ASSUME TimeoutAssumption ==
    /\ FirstConnectTimeout \in Nat \ {0}
    /\ WatchdogTimeout \in Nat \ {0}
    /\ WatchdogEnabled \in BOOLEAN

VARIABLES
    events, waiter,  \* the event group, and the calls waiting on it
    run_app,         \* where the task in libiot_start_mqtt is
    watchdog,        \* where task_mqtt_watchdog is
    client,          \* the esp-mqtt client: "off", "down" or "up"
    handler,         \* the next step of mqtt_event_handler, or "idle"
    event,           \* the event being handled
    first_connect,   \* the static variable of that name
    led,             \* the level of the LED pin
    reset_reason     \* what esp_reset_reason() is going to tell

(* History variables: the properties read them, no action does. *)
VARIABLES
    sent,      \* what the client was given since it last connected
    startups,  \* how many startup messages this boot has published
    quiet      \* ticks since the connected bit was last set, up to QuietCap

mqttVars == <<run_app, watchdog, client, handler, event, first_connect, led,
              reset_reason, sent, startups, quiet>>

vars == <<events, waiter, run_app, watchdog, client, handler, event,
          first_connect, led, reset_reason, sent, startups, quiet>>

-----------------------------------------------------------------------------
(* Constants of the code and of the esp-mqtt library *)

(* mqtt.c defines its two event bits under the names of two esp_mqtt_event_id_t *)
(* values, so that the `case` labels of the handler are the bits below while    *)
(* the events that arrive carry the numbers of EspEventId.                      *)
MQTT_EVENT_CONNECTED == 1       \* 1ULL << 0

MutantDisconnectedBit == 4

MQTT_EVENT_DISCONNECTED == 2    \* 1ULL << 1

(* esp_mqtt_event_id_t, in mqtt_client.h of esp-mqtt *)
EspEventId == [error |-> 0, connected |-> 1, disconnected |-> 2,
               subscribed |-> 3, published |-> 5, data |-> 6]

MqttBits == {MQTT_EVENT_CONNECTED, MQTT_EVENT_DISCONNECTED}

MqttTasks == {"run_app", "watchdog"}

Group == INSTANCE EventGroup WITH Tasks <- MqttTasks, Bits <- MqttBits

(* What a message's topic is, as far as the handler tells topics apart.  A     *)
(* message longer than the client's buffer arrives as several events; those    *)
(* after the first carry no topic (topic_len = 0), here "continuation".        *)
Topics == {"restart", "ota", "ping", "refresh", "mem_check", "continuation",
           "application"}

NoEvent == [id |-> -1, topic |-> "none"]

Events == [id : {EspEventId[n] : n \in DOMAIN EspEventId} \cup {-1},
           topic : Topics \cup {"none"}]

(* What a connection starts with: two subscriptions and two retained messages. *)
Announcement == {"sub_ping", "sub_local", "status", "info"}

QuietCap == FirstConnectTimeout + WatchdogTimeout

-----------------------------------------------------------------------------
(* Restarts *)

(* esp_restart(), or abort() after a failed assertion: RAM and GPIO are lost. *)
Reset(reason) ==
    /\ reset_reason' = reason
    /\ events' = {}
    /\ waiter' = [t \in MqttTasks |-> Group!Running]
    /\ run_app' = "off"
    /\ watchdog' = "none"
    /\ client' = "off"
    /\ handler' = "idle"
    /\ event' = NoEvent
    /\ first_connect' = TRUE
    /\ led' = FALSE
    /\ sent' = {}
    /\ startups' = 0
    /\ quiet' = 0

(* The device starts again and gets as far as libiot_start_mqtt. *)
Boot ==
    /\ run_app = "off"
    /\ run_app' = "start_mqtt"
    /\ UNCHANGED <<events, waiter, watchdog, client, handler, event,
                   first_connect, led, reset_reason, sent, startups, quiet>>

-----------------------------------------------------------------------------
(* libiot_start_mqtt *)

(* The event group is created and the client configured and started. *)
StartClient ==
    /\ run_app = "start_mqtt"
    /\ client' = "down"
    /\ run_app' = IF WatchdogEnabled THEN "create_watchdog" ELSE "first_wait"
    /\ UNCHANGED <<events, waiter, watchdog, handler, event, first_connect, led,
                   reset_reason, sent, startups, quiet>>

(* xTaskCreate: its result is not looked at, so that a node short of memory *)
(* goes on without a watchdog.                                              *)
CreateWatchdog ==
    /\ run_app = "create_watchdog"
    /\ run_app' = "first_wait"
    /\ watchdog' \in {"none", "first"}
    /\ UNCHANGED <<events, waiter, client, handler, event, first_connect, led,
                   reset_reason, sent, startups, quiet>>

WaitFirstConnect ==
    /\ run_app = "first_wait"
    /\ Group!WaitBits("run_app", {MQTT_EVENT_CONNECTED}, FirstConnectTimeout)
    /\ UNCHANGED mqttVars

MutantFirstWaitReturns ==
    /\ run_app = "first_wait"
    /\ waiter["run_app"].state = "woken"
    /\ run_app' = IF MQTT_EVENT_CONNECTED \in waiter["run_app"].got
                  THEN "app_run" ELSE "first_wait"
    /\ Group!Return("run_app")
    /\ UNCHANGED <<watchdog, client, handler, event, first_connect, led,
                   reset_reason, sent, startups, quiet>>

(* The wait is over: go on to app_run(), or restart for want of a connection. *)
FirstWaitReturns ==
    /\ run_app = "first_wait"
    /\ waiter["run_app"].state = "woken"
    /\ IF MQTT_EVENT_CONNECTED \in waiter["run_app"].got
       THEN /\ run_app' = "app_run"
            /\ Group!Return("run_app")
            /\ UNCHANGED <<watchdog, client, handler, event, first_connect, led,
                           reset_reason, sent, startups, quiet>>
       ELSE Reset("ESP_RST_SW")

-----------------------------------------------------------------------------
(* task_mqtt_watchdog.  Its place is "first" before the first connection,   *)
(* "connected" while it waits for a loss and "disconnected" while it waits  *)
(* for the connection to come back.                                         *)

WatchdogWaits(place, bit, ticks) ==
    /\ watchdog = place
    /\ Group!WaitBits("watchdog", {bit}, ticks)
    /\ UNCHANGED mqttVars

WatchdogGoesOn(place, bit, next) ==
    /\ watchdog = place
    /\ waiter["watchdog"].state = "woken"
    /\ bit \in waiter["watchdog"].got
    /\ watchdog' = next
    /\ Group!Return("watchdog")
    /\ UNCHANGED <<run_app, client, handler, event, first_connect, led,
                   reset_reason, sent, startups, quiet>>

AwaitFirstConnect == WatchdogWaits("first", MQTT_EVENT_CONNECTED, Group!Forever)

FirstConnectSeen == WatchdogGoesOn("first", MQTT_EVENT_CONNECTED, "connected")

AwaitDisconnect ==
    WatchdogWaits("connected", MQTT_EVENT_DISCONNECTED, Group!Forever)

DisconnectSeen ==
    WatchdogGoesOn("connected", MQTT_EVENT_DISCONNECTED, "disconnected")

MutantAwaitReconnectShort ==
    WatchdogWaits("disconnected", MQTT_EVENT_CONNECTED, WatchdogTimeout - 1)

MutantAwaitReconnectForever ==
    WatchdogWaits("disconnected", MQTT_EVENT_CONNECTED, Group!Forever)

AwaitReconnect ==
    WatchdogWaits("disconnected", MQTT_EVENT_CONNECTED, WatchdogTimeout)

ReconnectSeen ==
    WatchdogGoesOn("disconnected", MQTT_EVENT_CONNECTED, "connected")

WatchdogRestarts ==
    /\ watchdog = "disconnected"
    /\ waiter["watchdog"].state = "woken"
    /\ MQTT_EVENT_CONNECTED \notin waiter["watchdog"].got
    /\ Reset("ESP_RST_SW")

-----------------------------------------------------------------------------
(* Events of the esp-mqtt client.  mqtt_event_handler runs on the client's *)
(* task, so that the next event waits until the handler is idle.           *)

FirstStep(id, topic) ==
    CASE id = MQTT_EVENT_CONNECTED -> "subscribe_ping"
      [] id = MQTT_EVENT_DISCONNECTED -> "led_off"
      [] id = EspEventId.data ->
            (CASE topic = "restart" -> "restart"
               [] topic = "ota" -> "dispatch_ota"
                  \* strncmp(ping, topic, topic_len) = 0 also when topic_len = 0
               [] topic \in {"ping", "continuation"} -> "reply_status"
               [] topic = "refresh" -> "reply_info"
               [] topic = "mem_check" -> "reply_mem_check"
               [] OTHER -> "callback")
      [] OTHER -> "callback"

Dispatch(name, topic) ==
    /\ handler = "idle"
    /\ event' = [id |-> EspEventId[name], topic |-> topic]
    /\ handler' = FirstStep(EspEventId[name], topic)
    /\ UNCHANGED <<events, waiter, run_app, watchdog, first_connect, led,
                   reset_reason, startups, quiet>>

BrokerAccepts ==
    /\ client = "down"
    /\ client' = "up"
    /\ sent' = {}
    /\ Dispatch("connected", "none")

(* The client reports a failed attempt to reconnect as a disconnection too. *)
ConnectFails ==
    /\ client = "down"
    /\ UNCHANGED <<client, sent>>
    /\ Dispatch("disconnected", "none")

ConnectionLost ==
    /\ client = "up"
    /\ client' = "down"
    /\ UNCHANGED sent
    /\ Dispatch("disconnected", "none")

MessageArrives(topic) ==
    /\ client = "up"
    /\ UNCHANGED <<client, sent>>
    /\ Dispatch("data", topic)

OtherEvent(name) ==
    /\ client # "off"
    /\ UNCHANGED <<client, sent>>
    /\ Dispatch(name, "none")

-----------------------------------------------------------------------------
(* mqtt_event_handler *)

(* A subscription or publication accepted by the client: the handler gets   *)
(* from `step` to `next`.  It may take any time: the call blocks.           *)
Sends(step, what, next) ==
    /\ handler = step
    /\ handler' = next
    /\ sent' = sent \cup what
    /\ UNCHANGED <<events, waiter, run_app, watchdog, client, event, led,
                   reset_reason, quiet>>

MutantSubscribePing ==
    /\ Sends("subscribe_ping", {"sub_ping"}, "publish_status")
    /\ UNCHANGED <<first_connect, startups>>

SubscribePing ==
    /\ Sends("subscribe_ping", {"sub_ping"}, "subscribe_local")
    /\ UNCHANGED <<first_connect, startups>>

MutantSubscribeLocal ==
    /\ Sends("subscribe_local", {"sub_everything"}, "publish_status")
    /\ UNCHANGED <<first_connect, startups>>

SubscribeLocal ==
    /\ Sends("subscribe_local", {"sub_local"}, "publish_status")
    /\ UNCHANGED <<first_connect, startups>>

PublishStatus ==
    /\ Sends("publish_status", {"status"}, "publish_info")
    /\ UNCHANGED <<first_connect, startups>>

PublishInfo ==
    /\ Sends("publish_info", {"info"},
             IF first_connect THEN "publish_startup" ELSE "led_on")
    /\ UNCHANGED <<first_connect, startups>>

MutantPublishStartup ==
    /\ Sends("publish_startup", {}, "led_on")
    /\ UNCHANGED first_connect
    /\ startups' = startups + 1

PublishStartup ==
    /\ Sends("publish_startup", {}, "led_on")
    /\ first_connect' = FALSE
    /\ startups' = startups + 1

(* The answers to the ping, refresh and mem_check commands, and the hand-over *)
(* of a command to the OTA task, which may have an error to publish.          *)
Reply ==
    /\ handler \in {"reply_status", "reply_info", "reply_mem_check",
                    "dispatch_ota"}
    /\ Sends(handler, {}, "callback")
    /\ UNCHANGED <<first_connect, startups>>

Sending == {"subscribe_ping", "subscribe_local", "publish_status",
            "publish_info", "publish_startup", "reply_status", "reply_info",
            "reply_mem_check", "dispatch_ota"}

(* assert(esp_mqtt_client_subscribe(...) >= 0), the same for publish, and    *)
(* assert(msg) for a message there was no memory to build.                   *)
HandlerCallFails ==
    /\ handler \in Sending
    /\ Reset("ESP_RST_PANIC")

RestartCommand ==
    /\ handler = "restart"
    /\ Reset("ESP_RST_SW")

MutantSetLed ==
    /\ \/ handler = "led_on" /\ led' = TRUE /\ handler' = "clear_disconnected"
       \/ handler = "led_off" /\ led' = TRUE /\ handler' = "clear_connected"
    /\ UNCHANGED <<events, waiter, run_app, watchdog, client, event,
                   first_connect, reset_reason, sent, startups, quiet>>

SetLed ==
    /\ \/ handler = "led_on" /\ led' = TRUE /\ handler' = "clear_disconnected"
       \/ handler = "led_off" /\ led' = FALSE /\ handler' = "clear_connected"
    /\ UNCHANGED <<events, waiter, run_app, watchdog, client, event,
                   first_connect, reset_reason, sent, startups, quiet>>

ClearsBit(step, bit, next) ==
    /\ handler = step
    /\ handler' = next
    /\ Group!ClearBits({bit})
    /\ UNCHANGED <<run_app, watchdog, client, event, first_connect, led,
                   reset_reason, sent, startups, quiet>>

SetsBit(step, bit) ==
    /\ handler = step
    /\ handler' = "callback"
    /\ Group!SetBits({bit})
    /\ quiet' = IF bit = MQTT_EVENT_CONNECTED THEN 0 ELSE quiet
    /\ UNCHANGED <<run_app, watchdog, client, event, first_connect, led,
                   reset_reason, sent, startups>>

MutantClearDisconnected ==
    /\ handler = "clear_disconnected"
    /\ handler' = "set_connected"
    /\ UNCHANGED <<events, waiter, run_app, watchdog, client, event,
                   first_connect, led, reset_reason, sent, startups, quiet>>

ClearDisconnected ==
    ClearsBit("clear_disconnected", MQTT_EVENT_DISCONNECTED, "set_connected")

SetConnected == SetsBit("set_connected", MQTT_EVENT_CONNECTED)

ClearConnected ==
    ClearsBit("clear_connected", MQTT_EVENT_CONNECTED, "set_disconnected")

SetDisconnected == SetsBit("set_disconnected", MQTT_EVENT_DISCONNECTED)

(* mqtt_event_handler_cb, the application's own handler, and the return. *)
Callback ==
    /\ handler = "callback"
    /\ handler' = "idle"
    /\ event' = NoEvent
    /\ UNCHANGED <<events, waiter, run_app, watchdog, client, first_connect, led,
                   reset_reason, sent, startups, quiet>>

-----------------------------------------------------------------------------
(* Everything else *)

(* A subscribe, publish or enqueue of another task (the application, the OTA *)
(* task) that the client refuses, or that comes before there is a client: the *)
(* same assertions.                                                          *)
OtherTaskCallFails ==
    /\ run_app # "off"
    /\ Reset("ESP_RST_PANIC")

(* A wait whose time ran out gets to run. *)
TimeoutRuns(t) ==
    /\ Group!ReadAfterTimeout(t)
    /\ UNCHANGED mqttVars

Tick ==
    /\ run_app # "off"
    /\ Group!TickWaiters
    /\ quiet' = IF MQTT_EVENT_CONNECTED \in events THEN 0
                ELSE IF quiet < QuietCap THEN quiet + 1 ELSE quiet
    /\ UNCHANGED <<run_app, watchdog, client, handler, event, first_connect, led,
                   reset_reason, sent, startups>>

Init ==
    /\ Group!GroupInit
    /\ run_app = "off"
    /\ watchdog = "none"
    /\ client = "off"
    /\ handler = "idle"
    /\ event = NoEvent
    /\ first_connect = TRUE
    /\ led = FALSE
    /\ reset_reason = "ESP_RST_POWERON"
    /\ sent = {}
    /\ startups = 0
    /\ quiet = 0

StartTask == StartClient \/ CreateWatchdog \/ WaitFirstConnect \/ FirstWaitReturns

WatchdogTask ==
    \/ AwaitFirstConnect \/ FirstConnectSeen
    \/ AwaitDisconnect \/ DisconnectSeen
    \/ AwaitReconnect \/ ReconnectSeen \/ WatchdogRestarts

ClientEvent ==
    \/ BrokerAccepts \/ ConnectFails \/ ConnectionLost
    \/ \E topic \in Topics : MessageArrives(topic)
    \/ \E name \in {"error", "subscribed", "published"} : OtherEvent(name)

HandlerSends ==
    \/ SubscribePing \/ SubscribeLocal
    \/ PublishStatus \/ PublishInfo \/ PublishStartup
    \/ Reply

(* The steps of the handler that call nothing that may block *)
HandlerLocal ==
    \/ RestartCommand \/ SetLed
    \/ ClearDisconnected \/ SetConnected \/ ClearConnected \/ SetDisconnected
    \/ Callback

Next ==
    \/ Boot \/ StartTask \/ WatchdogTask
    \/ ClientEvent \/ HandlerSends \/ HandlerLocal \/ HandlerCallFails
    \/ OtherTaskCallFails \/ (\E t \in MqttTasks : TimeoutRuns(t)) \/ Tick

(* Time passes, and the scheduler gets to every task that can run.  Nothing is *)
(* assumed of the network: the broker may never accept, and a subscription or  *)
(* publication may block for ever.                                             *)
Fairness ==
    /\ WF_vars(StartTask)
    /\ WF_vars(WatchdogTask)
    /\ WF_vars(HandlerLocal)
    /\ \A t \in MqttTasks : WF_vars(TimeoutRuns(t))
    /\ WF_vars(Tick)

Spec == Init /\ [][Next]_vars /\ Fairness

-----------------------------------------------------------------------------
(* Properties *)

Steps == Sending \cup
         {"idle", "callback", "restart", "led_on", "clear_disconnected",
          "set_connected", "led_off", "clear_connected", "set_disconnected"}

(* The type of every variable. *)
TypeOK ==
    /\ Group!GroupType
    /\ run_app \in {"off", "start_mqtt", "create_watchdog", "first_wait", "app_run"}
    /\ watchdog \in {"none", "first", "connected", "disconnected"}
    /\ client \in {"off", "down", "up"}
    /\ handler \in Steps
    /\ event \in Events
    /\ first_connect \in BOOLEAN
    /\ led \in BOOLEAN
    /\ reset_reason \in {"ESP_RST_POWERON", "ESP_RST_SW", "ESP_RST_PANIC"}
    /\ sent \subseteq Announcement
    /\ startups \in Nat
    /\ quiet \in 0 .. QuietCap

(* The guarantee that mqtt.c states where it defines its two bits: they are *)
(* never both set.                                                          *)
NeverBothBits == ~ MqttBits \subseteq events

(* Between two events the bits and the LED tell the state of the connection:  *)
(* one bit, the right one, whatever series of events came before; none only   *)
(* as long as the client has reported neither a connection nor a failure.     *)
BitsFollowClient ==
    handler \in {"idle", "callback"} =>
        /\ client = "up" => events = {MQTT_EVENT_CONNECTED} /\ led
        /\ client # "up" => events \subseteq {MQTT_EVENT_DISCONNECTED} /\ ~led

(* Whoever waits for the connected bit finds the node announced: on this very *)
(* connection both subscriptions, the status and the info message went out.   *)
ConnectedMeansAnnounced ==
    MQTT_EVENT_CONNECTED \in events => sent = Announcement

(* The startup message goes out once per boot, whatever reconnections follow, *)
(* and before app_run() starts or the watchdog is armed.                      *)
StartupOncePerBoot ==
    /\ startups = IF first_connect THEN 0 ELSE 1
    /\ run_app = "app_run" => startups = 1
    /\ watchdog \in {"connected", "disconnected"} => startups = 1

(* A restart that nobody commanded and that is no failed assertion *)
TimeoutStrikes ==
    run_app # "off" /\ handler # "restart" /\ run_app' = "off" /\ reset_reason' = "ESP_RST_SW"

(* The task waits for the connection, and has read the bits without it. *)
FoundNoConnection(t) ==
    /\ IF t = "run_app" THEN run_app = "first_wait" ELSE watchdog = "disconnected"
    /\ waiter[t].state = "woken"
    /\ MQTT_EVENT_CONNECTED \notin waiter[t].got

(* Neither timeout strikes a node that was connected at any time in the whole  *)
(* interval: a wait expires only when the connected bit has been clear for as  *)
(* many ticks as the wait was to last.  A connection that comes between the    *)
(* expiry and the moment the task runs still saves the node: the task reads    *)
(* the bits then, and restarts only if the bit is missing (mqtt.c:215 and 297).*)
ExpiryMeansSilence ==
    [][/\ \A t \in MqttTasks :
            waiter[t].state = "blocked" /\ waiter'[t].state = "expired" =>
                quiet' >= (IF t = "run_app" THEN FirstConnectTimeout
                                            ELSE WatchdogTimeout)
       /\ \A t \in MqttTasks :
            waiter[t].state = "expired" /\ FoundNoConnection(t)' =>
                MQTT_EVENT_CONNECTED \notin events
       /\ TimeoutStrikes => \E t \in MqttTasks : FoundNoConnection(t)]_vars

(* libiot_start_mqtt ends: app_run() is reached, or the device restarts. *)
StartEnds ==
    run_app \in {"start_mqtt", "create_watchdog", "first_wait"}
        ~> run_app \in {"app_run", "off"}

(* With an armed watchdog a lost connection comes back or the device restarts, *)
(* even when the handler hangs in a publication on the way back.               *)
WatchdogRecovers ==
    (watchdog \in {"connected", "disconnected"} /\ MQTT_EVENT_DISCONNECTED \in events)
        ~> (MQTT_EVENT_CONNECTED \in events \/ run_app = "off")

-----------------------------------------------------------------------------
(* The inductive invariant behind the safety properties *)

(* Before libiot_start_mqtt starts the client nothing has happened. *)
OffInv ==
    /\ client = "off" <=> run_app \in {"off", "start_mqtt"}
    /\ client = "off" =>
        /\ handler = "idle"
        /\ watchdog = "none"
        /\ waiter = [t \in MqttTasks |-> Group!Running]
        /\ events = {}
        /\ ~led

(* How far the branch for a connection has got. *)
ConnectBranch ==
    /\ handler = "subscribe_ping" => sent = {}
    /\ handler = "subscribe_local" => sent = {"sub_ping"}
    /\ handler = "publish_status" => sent = {"sub_ping", "sub_local"}
    /\ handler = "publish_info" => sent = {"sub_ping", "sub_local", "status"}
    /\ handler = "publish_startup" => first_connect /\ sent = Announcement
    /\ handler \in {"led_on", "clear_disconnected", "set_connected"} =>
            ~first_connect /\ sent = Announcement
    /\ handler \in {"clear_disconnected", "set_connected"} => led
    /\ handler = "set_connected" => events = {}
    /\ handler \in {"subscribe_ping", "subscribe_local", "publish_status",
                    "publish_info", "publish_startup", "led_on",
                    "clear_disconnected", "set_connected"} =>
            /\ client = "up"
            /\ MQTT_EVENT_CONNECTED \notin events

(* How far the branch for a disconnection has got. *)
DisconnectBranch ==
    /\ handler \in {"led_off", "clear_connected", "set_disconnected"} =>
            client = "down"
    /\ handler \in {"clear_connected", "set_disconnected"} => ~led
    /\ handler = "set_disconnected" => MQTT_EVENT_CONNECTED \notin events

(* A command is handled between two events as far as the bits are concerned. *)
CommandBranch ==
    handler \in {"restart", "dispatch_ota", "reply_status", "reply_info",
                 "reply_mem_check"} =>
        client = "up" /\ events = {MQTT_EVENT_CONNECTED} /\ led

(* The connected bit was set at some time in this boot. *)
ConnectedOnce ==
    /\ MQTT_EVENT_CONNECTED \in events => ~first_connect
    /\ \A t \in MqttTasks :
          MQTT_EVENT_CONNECTED \in waiter[t].got => ~first_connect
    /\ watchdog \in {"connected", "disconnected"} => ~first_connect
    /\ run_app = "app_run" => ~first_connect

(* A blocked wait for the connected bit has seen it clear since it began. *)
BlockedOnConnected(t, ticks) ==
    /\ waiter[t].mask = {MQTT_EVENT_CONNECTED}
    /\ MQTT_EVENT_CONNECTED \notin events
    /\ waiter[t].left \in 1 .. ticks
    /\ quiet >= ticks - waiter[t].left

WaiterInv ==
    /\ \A t \in MqttTasks : waiter[t].state # "blocked" => waiter[t].left = Group!Forever
    /\ waiter["run_app"].state # "running" => run_app = "first_wait"
    /\ waiter["run_app"].state = "blocked" =>
            BlockedOnConnected("run_app", FirstConnectTimeout)
    /\ run_app = "create_watchdog" => watchdog = "none"
    /\ waiter["watchdog"].state # "running" => watchdog # "none"
    /\ waiter["watchdog"].state = "blocked" =>
            IF watchdog = "disconnected"
            THEN BlockedOnConnected("watchdog", WatchdogTimeout)
            ELSE waiter["watchdog"].left = Group!Forever

(* Holds initially and is preserved by every step (see MqttProofs). *)
IInv ==
    /\ TypeOK
    /\ OffInv
    /\ NeverBothBits
    /\ BitsFollowClient
    /\ ConnectedMeansAnnounced
    /\ StartupOncePerBoot
    /\ ConnectBranch
    /\ DisconnectBranch
    /\ CommandBranch
    /\ ConnectedOnce
    /\ WaiterInv

=============================================================================
