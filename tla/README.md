# libiot: a verification of its node

libiot is the firmware library of an ESP32 node: it boots the device, keeps it
on a WiFi network and connected to an MQTT broker, and lets the broker restart,
inspect and update it. This directory holds TLA+ models of its concurrent core,
the TLC runs that check them, and TLAPS proofs of what matters most.

Paths below are those of the repository (`src/libiot/...`, `include/libiot.h`).

## 1. The system

| component | state | operations | talks to |
|---|---|---|---|
| startup, `core.c` | `instance_uuid`, `start_epoch_time_ms` | `libiot_startup` creates the task that runs `run_app`: reset info, GPIO, NVS, OTA, `app_init`, WiFi, SNTP, the id, MQTT, `app_run` | calls every other component, in this order |
| MQTT session, `mqtt.c` | an event group of two bits, `first_connect`, `client` | `libiot_start_mqtt`, `mqtt_event_handler`, `task_mqtt_watchdog`, subscribe, publish, enqueue | esp-mqtt calls the handler; the bits wake the starting task and the watchdog; commands go to OTA |
| OTA, `ota.c` | a queue of pointers, the locals of `perform_update` | `libiot_ota_dispatch_request`, `ota_task`: update, validate, rollback | takes from the handler, publishes through MQTT, writes the boot partition |
| WiFi station, `wifi.c` | `local_ip` under a mutex, `retry_count`, an event group of two bits | `libiot_start_wifi`, `wifi_event_handler`, `libiot_get_local_ip` | the default event loop calls the handler; the application reads |
| SNTP, `sntp.c` | none of its own; the status that reading resets | `libiot_init_sntp`, `libiot_start_sntp` (polls without end) | blocks `run_app` |
| reset info, `reset_info.c` | `reset_info`, `inited` | set once, read by the startup message | startup, JSON |
| JSON builder, `json_builder.c` | a tree of cJSON nodes, an iterator over the partitions, for the length of a call | builds the status, info, startup and memory messages | MQTT |
| GPIO, certificates | the LED pin; constants | set the LED | MQTT |

Five kinds of tasks run in a node: `run_app`, the esp-mqtt client task (every
`mqtt_event_handler`), the watchdog, `ota_task` and the default event loop (every
`wifi_event_handler`), besides those of the application. What is hard:

- **Interleaving**: two bits changed by two calls, with tasks waiting on each; a
  shared pointer freed by one task while others copy it.
- **Timeouts** that restart the device while the connection may be coming back.
- **Blocking calls** inside the handler, which hold up every later event.
- **Failure by assertion**: nearly every error ends the program, at any time and
  on any task; RAM is lost, the boot partition is not.
- **A bounded queue** filled by a task that does not wait.
- **Chains of events**: the station tries again only because an event of the last
  attempt arrives.
- **The order of the start**: what the first messages tell (identity, start time,
  reset reason) must be there before the client is started, and nothing but the
  order of the calls in `run_app` sees to it. A 64-bit variable is read by other
  tasks without a lock.
- **Allocations** that fail in the middle of a message, three functions deep.
- **Two publishers** of one retained message.

What would make each component correct: the session's bits, LED and
announcements agree with the connection and its timeouts strike only nodes
without one; OTA is a bounded first-come-first-served service that installs whole
images only and tells the truth about it; the station always has exactly one
attempt under way and its address is neither stale nor freed under a reader; a
boot ends up in `app_run()`, and what it announces is of this boot and complete; a
message is complete or not sent, and building it leaks nothing. The hazards behind these are in `PROJECT.json`, each with its line.

## 2. Modules

| module | models | how |
|---|---|---|
| `EventGroup` | a FreeRTOS event group (external) | used by `Mqtt` and `Wifi` with `INSTANCE`; a task's call is `running`, `blocked`, `expired` or `woken` |
| `Mqtt` | `mqtt.c`: the three tasks of a session | see 2.1 |
| `OtaService` | what OTA promises | the abstract specification of `Ota` |
| `Ota` | `ota.c`, and the `ota` branch of the handler | see 2.2; implements `OtaService` |
| `Wifi` | `wifi.c` | see 2.3 |
| `Node` | `ota_task` and the client task as the two publishers of the info message | `EXTENDS Ota`; see 2.4 |
| `Startup` | `core.c`, `sntp.c`, `reset_info.c` over any number of boots | see 2.5 |
| `JsonBuilder` | `json_builder.c`, and `send_resp` of `mqtt.c` | see 2.6 |
| `MqttProofs`, `OtaProofs`, `NodeProofs`, `WifiProofs`, `StartupProofs`, `JsonBuilderProofs` | | theorems and proofs |
| `MCMqtt`, `MCOta`, `MCWifi`, `MCNode`, `MCStartup`, `MCJsonBuilder` | | values of the constants for TLC |

In the modules with a task that may fail, `Reset` is `esp_restart()`, a failed
`assert` or a failed `ESP_ERROR_CHECK`: the variables that are RAM go back to
their initial values (`JsonBuilder` has its one assertion as `AssertFails`).
A definition whose name starts with `Mutant` is a plausible bug in the one that
follows it. No specification uses it; it documents which bug a property is there
to catch, and `PROJECT.json` pairs them.

### 2.1 Mqtt

`handler` is the place in `mqtt_event_handler`, one value per call that another
task or the broker can observe: `SubscribePing`, `SubscribeLocal`,
`PublishStatus`, `PublishInfo`, `PublishStartup`, `SetLed`, `ClearDisconnected`,
`SetConnected` for a connection; `SetLed`, `ClearConnected`, `SetDisconnected`
for a loss; `RestartCommand` and `Reply` for a command; `Callback` for the
application's handler and the return. `Dispatch` starts the next event only when
the handler is idle, as esp-mqtt calls it from the client task. `FirstStep` is
the `switch`; its `case` labels are the values of the two macros, which shadow
the library's enumerators of the same names, and the events carry the
enumerators' values.

`run_app` is the place in `libiot_start_mqtt`, `watchdog` the one in
`task_mqtt_watchdog`. `Tick` is a kernel tick. A wait that expires reads the bits
once more when its task gets to run (`TimeoutRuns`), as the kernel does, so that
the last moment of a timeout is modelled and not rounded away. `client` is the
connection as esp-mqtt sees it; it may refuse any call (`HandlerCallFails`,
`OtherTaskCallFails`).

`sent`, `startups` and `quiet` are history variables.

### 2.2 Ota

`mqtt` and `dup` are the client task's place and pointer, `ota` and `cmd_json`
those of `ota_task`; `heap` and `content` are the memory of the commands;
`strndup` may return NULL, which is queued like any pointer and ends the program
in `process_cmd` (`ReadNull`). `perform_update` is modelled step by step from
`PublishStart` to `PublishOutcome`, with its two labels `abort` and `log_fail`.
A publication may succeed, be dropped for want of memory (`Publishes`), or end
the program (`PublishFails`). `perform` is what the last
`esp_https_ota_perform` and `..._is_complete_data_received` say, any
combination of the two. `Restart` may happen at any time.

The mapping to `OtaService`: pending are the commands in the queued buffers,
current is the one in `ota_task`'s buffer; a command there was no memory for is
`"lost"`.

### 2.3 Wifi

`queue` is the default event loop, `handler` the place in `wifi_event_handler`,
`mine` its local pointer, `reader` and `seen` the place of each application task
in `libiot_get_local_ip` and the pointer it has read. `station` is the driver; it
posts events in order. `esp_wifi_connect` may be refused, which the handler does
not notice (`refused` remembers it for the properties). `NUM_RETRIES` is a constant
because it is one of the code, "negative means infinite retries". `retry_count`
is compared with it and logged only, and stops counting at `RetryCap`.

### 2.4 Node

After each command `ota_task` builds the system message and publishes it to
`_info/info`, retained (`ota.c:198`); the client task does the same for a connection
and for a refresh command. `client_msg` and `ota_msg` are what each has built and not
published yet; of a message only its age matters, `"old"` once the partitions have
changed (`PartitionsChange`): by a validated image, or by an update (`Writes`), which
erases and writes one partition and chooses it for the next boot. Which call of
`esp_https_ota` erases depends on its configuration, so any step of `Writes` may or may
not be a change.
libiot has no lock for this. The order is kept by the lock of the esp-mqtt client
(external), which its task holds while it handles an event and every publishing
task takes: `Handling` keeps each publication of `ota_task` out of the handler.
Every other step is a step of `Ota`, conjoined with `UNCHANGED infoVars`.

### 2.5 Startup

`run_app` is the next step of the function of that name, in the order `After`; the
step `"wifi"` goes straight to `app_run` in a build without WiFi or a node without a
network, `"start_mqtt"` in one without a broker. `init_nvs` is three steps: `InitNvs`; for a
flash that is full or of another version `EraseNvs`, after which the flash may be in any
state, and `ReopenNvs`. Every error of theirs ends in an `ESP_ERROR_CHECK` (`core.c:52`,
`85`): `NvsFails`, a restart after which the flash is what it was. `init_id` is five steps: the id, the
two clocks one after the other, and the assignment, word by word (`StoreWord`). A
clock is `uptime`, which starts at 0 with each boot, plus `offset`, which
`TimeArrives` sets and which survives a restart but no loss of power. `Ends` and
`LogError` end a boot; `Boot` begins the next. The client task announces the first
connection (`PublishStatus`, `ReadWord`, `PublishStartup`; for the rest of the session
see `Mqtt`), and a task of the application, which `app_init` may have created, reads the
start time word by word whenever it likes (`AppAsks`), before `app_run()` too: nothing
in the code prevents it.
An instance id is modelled as the number of the boot that generated it.

### 2.6 JsonBuilder

A builder is a sequence of steps, `todo`: `insert` for each of the
`..._OR_GOTO` macros, with `InsertFails` as its other outcome, `obtain` and `report`
for the two reads of the heap, `find` and `next` for the iterator, `add` for
`cJSON_AddItemToObject`, and `print`. A node of the tree is its path, the names from
the root to it; the containers have the names of the C variables that hold them.
Leaves that follow each other in one container are one node: they fail alike.
`Deleted` is what the nested `json_fail` labels free. The two lists of partitions
share no name, as a partition has one type. The strings, numbers and names in the leaves are
left out, except the amounts in the memory check, which are what it is about.

## 3. Runs

| run | shows | bounds |
|---|---|---|
| `mqtt_session` | the invariants and action properties of the session, that `libiot_start_mqtt` ends and that the watchdog recovers a lost connection | timeouts of 3 and 2 ticks: different, so that neither stands in for the other, and long enough for a connection to come and go within one; `quiet` is capped at their sum |
| `ota_queue` | who owns which buffer; `Ota` implements `OtaService` | 4 buffers for a queue of 2: full queue, reuse and shortage all happen; images of one read; buffers are symmetric |
| `ota_update` | the course of an update; accepted commands are processed | images up to 9 bytes, milestones of 4, "kB" of 2: reads that pass no, one or two milestones, and amounts that round; a queue of 1 |
| `wifi_retry` | the address and its readers, the chain of retries, the start | 2 readers, 3 buffers (one shared, one in the handler, one left to reuse), 3 events in the loop |
| `wifi_give_up` | the chain and the start with a limit of 1 retry: the failure bit | 1 reader |
| `wifi_assert` | (violation) `assert(!local_ip)` | 1 reader |
| `node` | each change of the partitions is told, and no older message stays | 2 buffers and a queue of 1: a command waits while another is executed; images of one byte, as the course of an update is `ota_update`'s question |
| `startup` | what the announcements and the will say is this boot's and complete; the node gets to `app_run()` | all builds and configurations; 2 faults (3 boots) beside any number of restarts by a failing flash, for which the clock needs a bound of its own, 11: the server's time and two uptimes for each boot between faults; uptime up to 2; words of 4 values: a server whose time is 0, before the boot, and one whose time takes both words; 5 reset reasons beside the power, one of each row of the table and one of those the code calls impossible |
| `startup_log` | (violation) an error logged in `app_init` | 1 fault, the logged error; one answer of the server |
| `startup_early` | (violation) the start time read before `app_run()` | no fault and no tick; one answer, which takes both words |
| `json` | nothing leaks, a message is all or nothing | every message; 2 partitions of one type, so that a failure may strike between two rows and in the second, 1 of the other; 2 kinds of memory |
| `mem_check` | (violation) the memory check counts itself | the same |

### The properties

- `NeverBothBits`: the guarantee in the comment at `mqtt.c:23-25`.
- `BitsFollowClient`: between two events, bits and LED tell the connection.
- `ConnectedMeansAnnounced`: the bit is set only after both subscriptions and both
  retained messages went out *on this connection*.
- `StartupOncePerBoot`: one startup message per boot, before anyone goes on.
- `ExpiryMeansSilence`: a timeout expires only after that many ticks without the
  connected bit, and restarts the node only if the task, which runs later, still does
  not find the bit.
- `StartEnds`, `WatchdogRecovers`: nothing hangs, even with a handler hung in a
  blocking call.
- `OneOwner`, `HandleReleased`: memory and OTA handles balance on every path.
- `OutcomeIsTrue`, `InstallsWholeImage`, `ProgressGrows`: what an update, the first
  of a boot or a later one, does and says.
- `AcceptedIsProcessed`, `ImplementsService`: what the sender of commands may
  rely on.
- `NoUseAfterFree`, `AddressOwned`, `AddressFollowsStation`: the shared address.
- `OneAttempt`, `StartWifiReturns`: the chain of retries.
- `RefreshedIsCurrent`, `EveryChangeIsTold`: the retained info message.
- `StartTimeReads`: a read may fall between the two writes of the start time, but every
  word is 0 or final, never one `init_id` has still to correct; from `app_run()` on, and
  in the startup message, all are final.
- `StartTimeNotAfterBoot`: the unsigned difference of two clocks never wraps, and is
  never later than the boot.
- `WillNamesInstance`: the will, which is built long before it is published, and the
  status it takes back name the same boot.
- `StartupTellsCause`: a panic or a watchdog is not told as an ordinary restart.
- `Boots`: no wait is endless, and only a flash that fails in boot after boot keeps the
  node from `app_run()`, not one that is full or of another version.
- `NothingLeaks`, `AllOrNothing`: the failure paths of the messages.

### Fairness

*Mqtt.* Tasks that can run do (the kernel is preemptive and the handler's local
steps call nothing that blocks), and time passes. Nothing is assumed of the network
or of the blocking calls. *Ota.* `ota_task` runs: each read has a time limit
(`RECV_TIMEOUT_MS`), and publications return or end the program. The loop over the
reads has no limit in the code (`ota.c:55`), so `AcceptedIsProcessed` needs the
assumption that no server lets the device read nothing for ever. *Wifi.* Tasks run
and readers give the mutex back. The kernel gives the mutex to the waiting task of
the highest priority, which is the event loop, hence strong fairness of
`HandlerTakes`. An attempt to connect ends, and the access point does not refuse
every one of them for ever. *Node.* As *Ota*; besides, the client task ends each
event, and between two events it waits without the lock, so that `ota_task` gets it
in the end: strong fairness of `OtaRuns`. *Startup.* `run_app` and the client task
run; a time server answers and a broker accepts in the end, for which the code waits
without a limit or with one that restarts the node. Faults are bounded, as `Boots`
says nothing of a node that is restarted for ever. The restarts by a failing flash are
not bounded; `Boots` has their end as its premise, since nothing in the code brings it
about. *JsonBuilder.* None.

## 4. Findings

- `wifi_assert`: `wifi.c:86` asserts that no address is stored when one arrives;
  only a disconnection clears it, while the driver also reports a changed address
  on the same connection. The device then panics.
- `startup_log`: `core.c:95-97` says that `libiot_init_mqtt` makes the logging ready
  for calls during `app_init`. In a build with WiFi such a call publishes through a
  client that does not exist yet, and the assertion ends the program. (`app_init` is
  called in every boot, so what it logs unconditionally ends every boot.)
- `startup_early`: `libiot.h:83` says that the start time "Returns 0 if called before
  `app_run()` has been invoked". It is the stored value from `core.c:43` on, before the
  connection to the broker is even begun, and between the two writes of that line it is
  one word of each value, which is what the run shows. The same holds of the instance
  (`libiot.h:80`), which is there from `core.c:34` on.
- `mem_check`: `json_builder.c:155-156` says that the use of the heap is obtained
  before the message is allocated. It is, into an array that nobody reads; each row
  reports a second measurement (`:177`), which counts the message. The run finds the
  first such row; `MessageCountsItself` proves that there is no other kind: in any
  message, for any list of capabilities, each reported amount is larger than all that
  were obtained at first.

Other observations, with no run:

- both bits' macros of `mqtt.c:26-27` shadow library enumerators and work because the
  values agree;
- a full OTA queue leaks the command's buffer (`ota.c:209-211`; `leaked` in `Ota`);
  `ota.c:203-207` is dead code; the fragments of a long message are answered as
  pings (`mqtt.c:159`);
- a subscription or publication that esp-mqtt refuses ends the program (`mqtt.c:315`,
  `333`), although `libiot.h:97-98` and `106-107` speak of a call that returns when
  "there is a failure" (`HandlerCallFails`, `OtherTaskCallFails`);
- a flash that cannot be opened for another reason than being full or of another
  version, or cannot be erased, restarts the node in every boot (`NvsFails`);
- a restart by the MQTT watchdog (`mqtt.c:218`) or by the timeout of the first
  connection is told as "Software commanded restart", which is not exceptional; the
  reasons that `reset_info.c:46-57` calls impossible (an external reset among them) are
  told as "Impossible cause", which is;
- the result of `cJSON_AddItemToObject` is not looked at (`json_builder.c:379`): the
  message may go out without the type of a partition, whose nodes are leaked (`lost`);
- without memory for its iterator a list of partitions is empty and nobody can tell;
- without an access point `json_builder.c:16` publishes an uninitialised variable;
  without memory for it the last will is none (`mqtt.c:246`).

## 5. Proofs

TLAPS proves the following for all values of the constants that satisfy
`TimeoutAssumption` (positive timeouts, watchdog built in or not), `OtaAssumption`
(positive sizes, and a milestone that is a whole number of kB, as 100000 is of 1000),
`WifiAssumption` (NULL is no buffer, a reader is not called like a state of the mutex),
`StartupAssumption` (a word has more than one value; the reset reasons are esp-idf's) and `JsonAssumption` (names are strings, lists
are finite, a partition has one type).

`MqttProofs`: `Inductive` (`Spec => []IInv`), and from it `TypeCorrect`,
`BitsExclude`, `BitsAgree`, `Announced`, `OneStartup` and the action property
`ExpiryIsSilence`, of the kernel's expiry and of the task's decision after it. None of the properties is inductive: that the bits exclude each
other depends on the place of the handler between two calls; that a wait expires
after silence depends on what it saw when it began. `IInv` adds for each branch
of the handler what it has established at each place (`ConnectBranch`,
`DisconnectBranch`, `CommandBranch`), what is true before the client starts
(`OffInv`), what follows from a first connection (`ConnectedOnce`) and for a
blocked wait that it has lasted at most as long as the silence (`WaiterInv`).

`OtaProofs`: `Inductive`, and from it `TypeCorrect`, `HandlesBalance`,
`BuffersOwned`, `ReportsTrue`, the action properties `InstallsWhole` and
`ProgressIsMonotonic`, and `Refinement` (`Spec => ImplementsService`). `IInv` adds
which task holds which pointer (`PointerInv`), what an update has established at
each place (`UpdateInv`) and how milestone, bytes and published kB are related
(`ProgressInv`). The refinement maps sending to accepting, receiving to taking,
freeing to finishing, a successful finish to installing, and every restart to a
restart; all other steps stutter.

`NodeProofs`: every step of `Node` is a step of `Ota` or leaves its variables alone
(`NodeStepIsOtaStep`), so that `OtaKeptInNode` and `NodeImplementsService` follow from
the lemmas of `OtaProofs`. `NoOldInfo` (`RefreshedIsCurrent`) needs its own invariant,
`InfoInv`: an old message can only be the client task's, and then the change is not
told yet.

`WifiProofs`: `Invariant` (`Spec => []IInv`), and from it `TypeCorrect`,
`ReadsLiveAddress`, `NoAddressLost`, `AddressIsStations` and `OneAttemptAtATime`, for
any number of readers and retries and any length of the queue. `AddressFollowsStation`
speaks of an idle handler and an empty queue only; `StationInv` extends it to what the
events on their way are going to do: either the news of a lost connection waits at
the end of the queue behind nothing but addresses (`NewsWaits`), or the handler deals
with it (`NewsHandled`), or the chain has ended (`GivenUp`). That makes the set
`Attempts` a singleton or empty (`AttemptsOfStation`), which is `OneAttempt`.
`MutexInv` and `MineInv` keep readers and handler apart and give every buffer an owner.

`StartupProofs`: `Invariant`, and from it `TypeCorrect`, `ReadsOfStartTime`,
`StartTimeBounded`, `WillIsThisBoots` and `CauseIsTold`, for all words, clocks and
answers. `OrderInv` says what has happened where `run_app` is; `InstanceInv`,
`CauseInv`, `StartTimeInv` and `ClockInv` follow one quantity each from the step that
makes it to the message that tells it. `StartTimeInv` is about reads at any time: until
`init_id` stores its value no word but 0 is there to be read, and what it stores is not
changed again. The arithmetic is in `WordsOfValue` (two words
are the value) and `UnsignedBounds` (reducing a number that is not negative does not
enlarge it): that the clock is not before 1970 when `init_id` reads it, because the
wait for the network time is over, is what keeps the difference from wrapping.

`JsonBuilderProofs`: `Invariant`, and from it `TypeCorrect`, `NothingIsLeaked` and
`MessagesAreWhole`, for every partition table and every list of heap capabilities. The
properties speak of a builder that has returned, so they say nothing of the step
before; `IInv` says of a builder under way what a failure would leave behind and what
is still to come. `TodoInv`: the steps that are left are a `Block`, in which every step
finds its parent on the heap or has it inserted by an earlier one, and in which at
most one type of a partition is being built and one iterator is there at a time.
`HeapInv`: the heap is one tree and, between its creation and `add`, one type's, so
that what the `json_fail` labels delete is all there is. `IteratorInv`: an iterator
belongs to the loop under way. `FieldsInv`, `ListsInv`: what a message lacks is among
the steps to come, or the list is left out as a whole. Blocks may be shortened from the
front (`BlockTail`) and put together (`BlockConcat`); the five builders are blocks
(`ScriptSteps`), and so is a turn of the loop over the partitions (`TurnBlock`), which
is what makes the length of the lists irrelevant. `MessageCountsItself` needs one more
invariant, `CountInv`: what is obtained is obtained from an empty heap, what is reported
never is.

Only model-checked: the liveness properties (`StartEnds`, `WatchdogRecovers`,
`AcceptedIsProcessed`, `StartWifiReturns`, `EveryChangeIsTold`, `Boots`), which are out
of the prover's reach: it has no rules for fairness, which rests on ENABLED.

## 6. Not modelled

- What the leaves of the messages say, except the memory check's amounts; the efuse
  entry under `REPORT_MAC_CUSTOM_BLK3` (`json_builder.c:597-600`, `610-618`), which no
  build of the repository defines.
- Topics and payloads as strings: `Topics` are the branches of the handler they take.
  What a fragment of a long message contains is left out with them.
- The broker, except the last retained info message (`Node`), and the will as what is
  given to the client (`Startup`).
- The states of the partitions inside `esp_ota_ops` and the bootloader: a validation,
  a rollback or an update changes them (`Node`), or another image was chosen (`Ota`).
  What is in a partition after an update that failed or was cut off, and what the
  bootloader then makes of it, is esp-idf's.
- `init_spiffs`, `libiot_init_gpio` and `libiot_init_ota` in the start: they return or
  end the program. The later answers of the time server.
- `util_stack_overflow_check` (an end of the program like any other, after the
  handler and in the watchdog). Builds with `LIBIOT_DISABLE_WIFI` are in `Startup`
  only, where they leave out the calls; `LIBIOT_DISABLE_OTA` leaves out `Ota`.
- A failed `assert` is taken to end the program; with `NDEBUG` the calls inside
  the assertions would not be compiled at all.
- Certificates, metadata, the configuration of the pin: no behaviour.

## 7. Plan

Done: the session, OTA, the station, the composition `Node`, the start, the messages,
and the proofs of all invariants and action properties that the runs check, and of the
refinement. Left:

1. `Topics`: `matches_local_topic` and the prefix match of the ping topic against
   reference definitions over bounded topics; fragments.
2. `Presence`: `Mqtt` with a broker that keeps retained messages and sends the
   last will; the abstract specification is that a reader of the status topic
   eventually sees what the node is.
