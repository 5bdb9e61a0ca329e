------------------------------ MODULE Startup ------------------------------
(***************************************************************************)
(* The start of a node: run_app (src/src/libiot/core.c) with the wait for  *)
(* the network's time (sntp.c) and the reset information (reset_info.c),   *)
(* over any number of boots.  WiFi and MQTT are what run_app sees of them: *)
(* a call that returns once there is a connection (see Wifi and Mqtt).     *)
(* Beside the task of run_app there are:                                   *)
(*   - the esp-mqtt client task, which announces the first connection with *)
(*     a status and a startup message;                                     *)
(*   - a task that app_init may have created, which asks for the start     *)
(*     time at any moment, before app_run() too.                           *)
(* Times are in ms.  A 64-bit variable is two words, each written and read *)
(* on its own and in any order.                                            *)
(* A Mutant is a plausible bug in the definition that follows it; the      *)
(* specification does not use it.                                          *)
(***************************************************************************)
EXTENDS Integers

CONSTANTS
    NetworkTimes,   \* what the time server may answer
    Causes,         \* bound: the reset reasons that occur
    WordSize,       \* how many values a word has, 2^32
    MaxUptime,      \* bound: how far the clocks run in a boot,
    MaxClock,       \* and over all boots
    MaxFaults       \* bound: how often things go wrong

ASSUME StartupAssumption ==
    /\ NetworkTimes \subseteq Nat
    /\ WordSize \in Nat \ {0, 1}
    /\ MaxUptime \in Nat /\ MaxClock \in Nat
    /\ MaxFaults \in Nat
    /\ Causes \subseteq {"ESP_RST_POWERON", "ESP_RST_SW", "ESP_RST_PANIC",
                         "ESP_RST_INT_WDT", "ESP_RST_TASK_WDT", "ESP_RST_WDT",
                         "ESP_RST_BROWNOUT", "ESP_RST_UNKNOWN", "ESP_RST_EXT",
                         "ESP_RST_SDIO", "ESP_RST_DEEPSLEEP"}

VARIABLES
    build,          \* the configuration of the library and of the node
    nvs,            \* what nvs_flash_init() makes of the flash
    cause,          \* what esp_reset_reason() tells
    uptime,         \* esp_timer_get_time() / 1000
    offset,         \* the clock, as its difference from uptime
    boots, faults,  \* how many there were; a boot's number is its instance
    run_app,        \* the next step of run_app
    reset_info,     \* the static variable, NotInited before it is set
    sync_status,    \* what sntp_get_sync_status() is going to return
    instance_uuid,
    current_ms,     \* the local variable of init_id
    start_epoch_time_ms,
    client,         \* the MQTT client: "NULL", "started" or "connected"
    will,           \* the instance named in the client's last will
    handler,        \* the next step of mqtt_event_handler
    read,           \* the words each reader of the start time has got
    reader,         \* the application's read: "idle", begun "early" (before
                    \* app_run) or "late"
    status,         \* the instance named in this boot's status message
    startup         \* this boot's startup message

deviceVars == <<build, nvs, cause, uptime, offset, boots, faults>>
idVars == <<instance_uuid, current_ms, start_epoch_time_ms>>
mqttVars == <<client, will, handler, status, startup>>
readVars == <<read, reader>>

vars == <<deviceVars, run_app, reset_info, sync_status, idVars, mqttVars, readVars>>

-----------------------------------------------------------------------------
(* Data *)

(* ESP_FAIL is any error that erasing is not tried for. *)
Erasable == {"ESP_ERR_NVS_NO_FREE_PAGES", "ESP_ERR_NVS_NEW_VERSION_FOUND"}
FlashStates == {"ESP_OK", "ESP_FAIL"} \cup Erasable

(* Whether LIBIOT_DISABLE_WIFI is not defined, and which of the fields of *)
(* node_config_t are set.                                                 *)
Builds == [wifi : BOOLEAN, ssid : BOOLEAN, uri : BOOLEAN]

NoInstance == 0
NoWill == -1

ResetInfo(reason, exceptional) == [reason |-> reason, exceptional |-> exceptional]

NotInited == ResetInfo("", FALSE)

MutantGenerateResetInfo(raw) ==
    CASE raw = "ESP_RST_POWERON" -> ResetInfo("Power on", FALSE)
      [] raw \in {"ESP_RST_SW", "ESP_RST_PANIC"} ->
            ResetInfo("Software commanded restart", FALSE)
      [] OTHER -> ResetInfo("<Unknown>", TRUE)

(* The reasons that the code takes to be impossible.  esp-idf has them all the same. *)
Impossible == {"ESP_RST_UNKNOWN", "ESP_RST_EXT", "ESP_RST_SDIO", "ESP_RST_DEEPSLEEP"}

generate_reset_info(raw) ==
    CASE raw = "ESP_RST_POWERON" -> ResetInfo("Power on", FALSE)
      [] raw = "ESP_RST_SW" -> ResetInfo("Software commanded restart", FALSE)
      [] raw = "ESP_RST_PANIC" -> ResetInfo("Software panic", TRUE)
      [] raw \in {"ESP_RST_INT_WDT", "ESP_RST_TASK_WDT", "ESP_RST_WDT"} ->
            ResetInfo("Watchdog violation", TRUE)
      [] raw = "ESP_RST_BROWNOUT" -> ResetInfo("Power brownout", TRUE)
      [] raw \in Impossible -> ResetInfo("Impossible cause", TRUE)
      [] OTHER -> ResetInfo("<Unknown>", TRUE)

(* An unsigned variable of 64 bits *)
Unsigned(n) == n % (WordSize * WordSize)

Words == {"low", "high"}

InWords(n) == [w \in Words |-> IF w = "low" THEN n % WordSize ELSE n \div WordSize]

Value(words) == words["low"] + words["high"] * WordSize

Unread == -1
NothingRead == [w \in Words |-> Unread]

NoStartup == [start |-> NothingRead, info |-> NotInited]

epoch_ms == uptime + offset

-----------------------------------------------------------------------------
(* The order of run_app *)

MutantAfter(step) ==
    CASE step = "reset_info" -> "nvs"
      [] step = "nvs" -> "ota"
      [] step = "ota" -> "app_init"
      [] step = "app_init" -> "wifi"
      [] step = "wifi" -> "sntp"
      [] step = "sntp" -> "poll"
      [] step = "poll" -> "start_mqtt"
      [] step = "start_mqtt" -> "uuid"
      [] step = "uuid" -> "read_epoch"
      [] step = "read_epoch" -> "read_uptime"
      [] step = "read_uptime" -> "store"
      [] step = "store" -> "first_connect"
      [] step = "first_connect" -> "app_run"

(* What comes after each step: "uuid" to "store" are init_id(), the last two *)
(* before app_run libiot_start_mqtt().                                       *)
After(step) ==
    CASE step = "reset_info" -> "nvs"
      [] step = "nvs" -> "ota"
      [] step = "ota" -> "app_init"
      [] step = "app_init" -> "wifi"
      [] step = "wifi" -> "sntp"
      [] step = "sntp" -> "poll"
      [] step = "poll" -> "uuid"
      [] step = "uuid" -> "read_epoch"
      [] step = "read_epoch" -> "read_uptime"
      [] step = "read_uptime" -> "store"
      [] step = "store" -> "start_mqtt"
      [] step = "start_mqtt" -> "first_connect"
      [] step = "first_connect" -> "app_run"

Does(step) ==
    /\ run_app = step
    /\ run_app' = After(step)

Init ==
    /\ build \in Builds
    /\ nvs \in FlashStates
    /\ cause = "ESP_RST_POWERON"
    /\ uptime = 0 /\ offset = 0
    /\ boots = 0 /\ faults = 0
    /\ run_app = "off"
    /\ reset_info = NotInited
    /\ sync_status = "off"
    /\ instance_uuid = NoInstance
    /\ current_ms = 0
    /\ start_epoch_time_ms = InWords(0)
    /\ client = "NULL" /\ will = NoWill /\ handler = "idle"
    /\ status = NoInstance /\ startup = NoStartup
    /\ read = [r \in {"handler", "app"} |-> NothingRead]
    /\ reader = "idle"

(* The boot ends.  The RAM is lost; the clock goes on unless the power failed, *)
(* which an impossible cause leaves open.                                      *)
Reset(reason) ==
    /\ cause' = reason
    /\ \/ reason \notin {"ESP_RST_POWERON", "ESP_RST_BROWNOUT"} /\ offset' = epoch_ms
       \/ reason \in {"ESP_RST_POWERON", "ESP_RST_BROWNOUT"} \cup Impossible /\ offset' = 0
    /\ uptime' = 0
    /\ run_app' = "off"
    /\ reset_info' = NotInited
    /\ sync_status' = "off"
    /\ instance_uuid' = NoInstance
    /\ current_ms' = 0
    /\ start_epoch_time_ms' = InWords(0)
    /\ client' = "NULL" /\ will' = NoWill /\ handler' = "idle"
    /\ status' = NoInstance /\ startup' = NoStartup
    /\ read' = [r \in {"handler", "app"} |-> NothingRead]
    /\ reader' = "idle"
    /\ UNCHANGED <<build, nvs, boots>>

Fault == faults < MaxFaults /\ faults' = faults + 1

(* At any time: an ESP_ERROR_CHECK or an assertion that fails, the timeout of the *)
(* first connection, the restart command, a watchdog, the power.                 *)
Ends(reason) ==
    /\ run_app # "off"
    /\ Fault
    /\ Reset(reason)

(* libiot_startup creates the task. *)
Boot ==
    /\ run_app = "off"
    /\ run_app' = "reset_info"
    /\ boots' = (boots % (MaxFaults + 1)) + 1      \* the numbers are used again
    /\ UNCHANGED <<build, nvs, cause, uptime, offset, faults, reset_info,
                   sync_status, idVars, mqttVars, readVars>>

-----------------------------------------------------------------------------
(* run_app *)

InitResetInfo ==
    /\ Does("reset_info")
    /\ reset_info' = generate_reset_info(cause)
    /\ UNCHANGED <<deviceVars, sync_status, idVars, mqttVars, readVars>>

MutantInitNvs ==
    \/ nvs = "ESP_OK" /\ Does("nvs")
       /\ UNCHANGED <<deviceVars, reset_info, sync_status, idVars, mqttVars, readVars>>
    \/ nvs \in Erasable /\ run_app = "nvs" /\ Reset("ESP_RST_PANIC") /\ UNCHANGED faults

(* init_nvs: flash that is full or of another version is erased and opened again. *)
InitNvs ==
    /\ run_app = "nvs"
    /\ \/ nvs = "ESP_OK" /\ run_app' = After("nvs")
       \/ nvs \in Erasable /\ run_app' = "erase_nvs"
    /\ UNCHANGED <<deviceVars, reset_info, sync_status, idVars, mqttVars, readVars>>

EraseNvs ==
    /\ run_app = "erase_nvs"
    /\ run_app' = "reopen_nvs"
    /\ nvs' \in FlashStates
    /\ UNCHANGED <<build, cause, uptime, offset, boots, faults, reset_info,
                   sync_status, idVars, mqttVars, readVars>>

ReopenNvs ==
    /\ run_app = "reopen_nvs" /\ nvs = "ESP_OK"
    /\ run_app' = After("nvs")
    /\ UNCHANGED <<deviceVars, reset_info, sync_status, idVars, mqttVars, readVars>>

(* The ESP_ERROR_CHECKs: the flash cannot be opened for another reason, or not be *)
(* erased, or not be opened even then; in the next boot it is tried again.        *)
NvsFails ==
    /\ \/ run_app = "nvs" /\ nvs = "ESP_FAIL"
       \/ run_app = "erase_nvs"
       \/ run_app = "reopen_nvs" /\ nvs # "ESP_OK"
    /\ Reset("ESP_RST_PANIC")
    /\ UNCHANGED faults

(* init_spiffs and libiot_init_ota, in the builds that have them, and *)
(* libiot_init_mqtt: they return or fail.                             *)
InitOta ==
    /\ Does("ota")
    /\ UNCHANGED <<deviceVars, reset_info, sync_status, idVars, mqttVars, readVars>>

AppInit ==
    /\ Does("app_init")
    /\ UNCHANGED <<deviceVars, reset_info, sync_status, idVars, mqttVars, readVars>>

(* app_init or app_run calls libiot_logf_error.  Without WiFi in the build the   *)
(* message is dropped; else it goes to the client, which may refuse it, and must *)
(* refuse it when it does not exist: the call ends the program.                  *)
LogError ==
    /\ run_app \in {"app_init", "app_run"}
    /\ Fault
    /\ \/ /\ ~build.wifi \/ client # "NULL"
          /\ UNCHANGED <<build, nvs, cause, uptime, offset, boots, run_app,
                         reset_info, sync_status, idVars, mqttVars, readVars>>
       \/ build.wifi /\ Reset("ESP_RST_PANIC")

(* libiot_start_wifi returns when the station has an address. *)
StartWifi ==
    /\ run_app = "wifi"
    /\ run_app' = IF build.wifi /\ build.ssid THEN After("wifi") ELSE "app_run"
    /\ UNCHANGED <<deviceVars, reset_info, sync_status, idVars, mqttVars, readVars>>

InitSntp ==
    /\ Does("sntp")
    /\ sync_status' = "RESET"
    /\ UNCHANGED <<deviceVars, reset_info, idVars, mqttVars, readVars>>

(* The server answers for the first time in this boot.  The clock is set at once *)
(* (SNTP_SYNC_MODE_IMMED); the next answer is a minute away.                     *)
TimeArrives ==
    /\ sync_status = "RESET" /\ run_app = "poll"
    /\ sync_status' = "COMPLETED"
    /\ \E now \in NetworkTimes : offset' = now - uptime
    /\ UNCHANGED <<build, nvs, cause, uptime, boots, faults, run_app, reset_info,
                   idVars, mqttVars, readVars>>

(* libiot_start_sntp polls without end; reading the status resets it. *)
PollSntp ==
    /\ sync_status = "COMPLETED"
    /\ Does("poll")
    /\ sync_status' = "RESET"
    /\ UNCHANGED <<deviceVars, reset_info, idVars, mqttVars, readVars>>

GenerateUuid ==
    /\ Does("uuid")
    /\ instance_uuid' = boots
    /\ UNCHANGED <<deviceVars, reset_info, sync_status, current_ms,
                   start_epoch_time_ms, mqttVars, readVars>>

MutantReadEpoch ==
    /\ Does("read_epoch")
    /\ current_ms' = Unsigned(epoch_ms)
    /\ start_epoch_time_ms' = InWords(current_ms')
    /\ UNCHANGED <<deviceVars, reset_info, sync_status, instance_uuid, mqttVars,
                   readVars>>

ReadEpoch ==
    /\ Does("read_epoch")
    /\ current_ms' = Unsigned(epoch_ms)
    /\ UNCHANGED <<deviceVars, reset_info, sync_status, instance_uuid,
                   start_epoch_time_ms, mqttVars, readVars>>

MutantReadUptime ==
    /\ Does("read_uptime")
    /\ current_ms' = Unsigned(current_ms - uptime)
    /\ UNCHANGED <<deviceVars, reset_info, sync_status, instance_uuid,
                   start_epoch_time_ms, mqttVars, readVars>>

MutantReadUptimeSigned ==
    /\ Does("read_uptime")
    /\ current_ms' = current_ms - uptime
    /\ UNCHANGED <<deviceVars, reset_info, sync_status, instance_uuid,
                   start_epoch_time_ms, mqttVars, readVars>>

ReadUptime ==
    /\ Does("read_uptime")
    /\ current_ms' = IF uptime > current_ms THEN 0
                                            ELSE Unsigned(current_ms - uptime)
    /\ UNCHANGED <<deviceVars, reset_info, sync_status, instance_uuid,
                   start_epoch_time_ms, mqttVars, readVars>>

(* One word of the assignment, the last of which ends it *)
StoreWord(w) ==
    /\ run_app = "store"
    /\ start_epoch_time_ms # InWords(current_ms)
    /\ start_epoch_time_ms' = [start_epoch_time_ms EXCEPT
                                  ![w] = InWords(current_ms)[w]]
    /\ UNCHANGED <<deviceVars, run_app, reset_info, sync_status, instance_uuid,
                   current_ms, mqttVars, readVars>>

Stored ==
    /\ start_epoch_time_ms = InWords(current_ms)
    /\ Does("store")
    /\ UNCHANGED <<deviceVars, reset_info, sync_status, idVars, mqttVars, readVars>>

(* libiot_start_mqtt builds the will, for which there may be no memory (nobody *)
(* looks), and starts the client.                                              *)
StartMqtt ==
    /\ run_app = "start_mqtt"
    /\ IF build.uri
       THEN /\ run_app' = After("start_mqtt")
            /\ client' = "started"
            /\ will' \in {instance_uuid, NoWill}
       ELSE /\ run_app' = "app_run"
            /\ UNCHANGED <<client, will>>
    /\ UNCHANGED <<deviceVars, reset_info, sync_status, idVars, handler, status,
                   startup, readVars>>

FirstConnect ==
    /\ handler = "announced"
    /\ Does("first_connect")
    /\ UNCHANGED <<deviceVars, reset_info, sync_status, idVars, mqttVars, readVars>>

AppRunReturns ==
    /\ run_app = "app_run"
    /\ run_app' = "returned"
    /\ UNCHANGED <<deviceVars, reset_info, sync_status, idVars, mqttVars, readVars>>

-----------------------------------------------------------------------------
(* The client task: the first connection *)

BrokerAccepts ==
    /\ client = "started"
    /\ client' = "connected"
    /\ handler' = "status"
    /\ UNCHANGED <<deviceVars, run_app, reset_info, sync_status, idVars, will,
                   status, startup, readVars>>

PublishStatus ==
    /\ handler = "status"
    /\ handler' = "startup"
    /\ status' = instance_uuid
    /\ UNCHANGED <<deviceVars, run_app, reset_info, sync_status, idVars, client,
                   will, startup, readVars>>

(* libiot_json_build_startup; libiot_reset_info_get asserts inited. *)
PublishStartup ==
    /\ handler = "startup"
    /\ \A w \in Words : read["handler"][w] # Unread
    /\ reset_info # NotInited
    /\ handler' = "announced"
    /\ startup' = [start |-> read["handler"], info |-> reset_info]
    /\ UNCHANGED <<deviceVars, run_app, reset_info, sync_status, idVars, client,
                   will, status, readVars>>

-----------------------------------------------------------------------------
(* libiot_get_start_epoch_time_ms *)

ReadWord(r, w) ==
    /\ IF r = "handler" THEN handler = "startup" ELSE reader # "idle"
    /\ read[r][w] = Unread
    /\ read' = [read EXCEPT ![r][w] = start_epoch_time_ms[w]]
    /\ UNCHANGED <<deviceVars, run_app, reset_info, sync_status, idVars, mqttVars,
                   reader>>

(* At any time: nothing in the code keeps a call from coming before app_run(). *)
AppAsks ==
    /\ reader = "idle"
    /\ run_app \notin {"off", "reset_info", "nvs", "erase_nvs", "reopen_nvs", "ota"}
    /\ reader' = IF run_app \in {"app_run", "returned"} THEN "late" ELSE "early"
    /\ UNCHANGED <<deviceVars, run_app, reset_info, sync_status, idVars, mqttVars,
                   read>>

AppHasRead ==
    /\ \A w \in Words : read["app"][w] # Unread
    /\ reader' = "idle"
    /\ read' = [read EXCEPT !["app"] = NothingRead]
    /\ UNCHANGED <<deviceVars, run_app, reset_info, sync_status, idVars, mqttVars>>

-----------------------------------------------------------------------------
Tick ==
    /\ run_app # "off" /\ uptime < MaxUptime /\ epoch_ms < MaxClock
    /\ uptime' = uptime + 1
    /\ UNCHANGED <<build, nvs, cause, offset, boots, faults, run_app, reset_info,
                   sync_status, idVars, mqttVars, readVars>>

RunApp ==
    \/ Boot \/ InitResetInfo \/ InitNvs \/ EraseNvs \/ ReopenNvs \/ NvsFails
    \/ InitOta \/ AppInit
    \/ StartWifi \/ InitSntp \/ PollSntp
    \/ GenerateUuid \/ ReadEpoch \/ ReadUptime \/ (\E w \in Words : StoreWord(w))
    \/ Stored \/ StartMqtt \/ FirstConnect \/ AppRunReturns

HandlerRuns ==
    \/ PublishStatus \/ PublishStartup
    \/ \E w \in Words : ReadWord("handler", w)

AppReads == AppAsks \/ AppHasRead \/ (\E w \in Words : ReadWord("app", w))

Next ==
    \/ RunApp \/ TimeArrives \/ BrokerAccepts \/ HandlerRuns \/ AppReads
    \/ LogError \/ (\E reason \in Causes : Ends(reason)) \/ Tick

(* Tasks that can run do, and the network is there: a time server answers in the *)
(* end, and a broker accepts (the calls for which Wifi and Mqtt stand return).   *)
Fairness ==
    /\ WF_vars(RunApp)
    /\ WF_vars(TimeArrives)
    /\ WF_vars(BrokerAccepts)
    /\ WF_vars(HandlerRuns)

Spec == Init /\ [][Next]_vars /\ Fairness

-----------------------------------------------------------------------------
(* Properties *)

Steps == {"off", "reset_info", "nvs", "erase_nvs", "reopen_nvs", "ota", "app_init",
          "wifi", "sntp", "poll", "uuid", "read_epoch", "read_uptime", "store", "start_mqtt",
          "first_connect", "app_run", "returned"}

Word == 0 .. WordSize - 1

MaybeRead == [Words -> Word \cup {Unread}]

Infos == {generate_reset_info(raw) : raw \in Causes \cup {"ESP_RST_POWERON", "ESP_RST_PANIC"}}

(* The type of every variable. *)
TypeOK ==
    /\ build \in Builds
    /\ nvs \in FlashStates
    /\ cause \in Causes \cup {"ESP_RST_POWERON", "ESP_RST_PANIC"}
    /\ uptime \in 0 .. MaxUptime /\ offset \in Int
    /\ boots \in 0 .. MaxFaults + 1 /\ faults \in 0 .. MaxFaults
    /\ run_app \in Steps
    /\ reset_info \in Infos \cup {NotInited}
    /\ sync_status \in {"off", "RESET", "COMPLETED"}
    /\ instance_uuid \in 0 .. MaxFaults + 1
    /\ current_ms \in 0 .. WordSize * WordSize - 1
    /\ start_epoch_time_ms \in [Words -> Word]
    /\ client \in {"NULL", "started", "connected"}
    /\ will \in -1 .. MaxFaults + 1
    /\ handler \in {"idle", "status", "startup", "announced"}
    /\ read \in [{"handler", "app"} -> MaybeRead]
    /\ reader \in {"idle", "early", "late"}
    /\ status \in 0 .. MaxFaults + 1
    /\ startup \in [start : MaybeRead, info : Infos \cup {NotInited}]

Identified == run_app \in {"start_mqtt", "first_connect"} \/ client # "NULL"

(* Nothing keeps the two words of the start time from being read between the two    *)
(* writes of core.c:43, and early reads are: each word is then 0 or the final one,   *)
(* never one of a value that init_id has still to correct.  Once app_run() runs, and *)
(* in the startup message, both words are final.                                     *)
StartTimeReads ==
    /\ reader # "idle" =>
          \A w \in Words : read["app"][w] \in {Unread, 0, InWords(current_ms)[w]}
    /\ reader = "late" =>
          \A w \in Words : read["app"][w] \in {Unread, InWords(current_ms)[w]}
    /\ startup # NoStartup => startup.start = InWords(current_ms)

(* The start time is never after the boot, and so never in the future, whatever *)
(* the server has answered and however long init_id is interrupted between its  *)
(* two clocks.                                                                  *)
StartTimeNotAfterBoot ==
    Identified => Value(start_epoch_time_ms) <= IF offset > 0 THEN offset ELSE 0

(* The last will, which the broker publishes long after, names the same instance *)
(* as the status message it takes back, and no earlier boot.                     *)
WillNamesInstance ==
    status # NoInstance \/ handler \in {"startup", "announced"} =>
        status = boots /\ will \in {status, NoWill}

(* The startup message tells how the last boot ended: an exception unless it was *)
(* the power or a restart by command, and never as unknown.                      *)
StartupTellsCause ==
    startup # NoStartup =>
        /\ startup.info.exceptional = (cause \notin {"ESP_RST_POWERON", "ESP_RST_SW"})
        /\ startup.info.reason # "<Unknown>"

(* When nothing goes wrong any more the node gets to app_run() and stays: no wait is *)
(* endless, and of the flash only one that fails in boot after boot (NvsFails) makes *)
(* the node restart for ever, not one that is full or of another version.            *)
Boots == <>[][~NvsFails]_vars => <>[](run_app \in {"app_run", "returned"})

(* What core.c:95-97 says of libiot_init_mqtt, which comes before app_init: it makes *)
(* the logging ready for calls during app_init.  Such a call is to return.           *)
InitMayLog ==
    [][LogError /\ run_app = "app_init" => run_app' = "app_init"]_vars

(* What libiot.h:83 says of libiot_get_start_epoch_time_ms: a call before app_run() *)
(* returns 0.  A task that app_init has created may make one at any time.           *)
EarlyReadIsZero ==
    reader = "early" /\ (\A w \in Words : read["app"][w] # Unread) =>
        read["app"] = InWords(0)

=============================================================================
