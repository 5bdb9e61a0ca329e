-------------------------------- MODULE Wifi --------------------------------
(***************************************************************************)
(* The WiFi station of a node (src/src/libiot/wifi.c) and the address it   *)
(* keeps for the application:                                              *)
(*   - the task of the default event loop runs wifi_event_handler for the  *)
(*     events of the driver, one at a time and in their order;             *)
(*   - the task in libiot_start_wifi waits for the first address;          *)
(*   - any task of the application may ask for the address                 *)
(*     (libiot_get_local_ip) at any time.                                  *)
(* local_ip is shared by all of them under a mutex.  The driver, the       *)
(* access point and the event loop are external.                           *)
(* A Mutant is a plausible bug in the definition that follows it; the      *)
(* specification does not use it.                                          *)
(***************************************************************************)
EXTENDS Integers, Sequences, FiniteSets

CONSTANTS
    NUM_RETRIES,   \* how often to try again; negative: without end
    RetryCap,      \* bound: retry_count stops counting there
    QueueBound,    \* bound: the events the loop holds at a time
    Readers,       \* the application's tasks
    Buffers,       \* what malloc() may return
    NULL           \* no buffer

ASSUME WifiAssumption ==
    /\ NUM_RETRIES \in Int
    /\ RetryCap \in Nat /\ NUM_RETRIES <= RetryCap
    /\ QueueBound \in Nat \ {0}
    /\ NULL \notin Buffers
    /\ Readers \cap {"absent", "free", "handler"} = {}

VARIABLES
    events, waiter,   \* wifi_event_group, and the call waiting on it
    run_app,          \* where the task in libiot_start_wifi is
    station,          \* what the driver is doing
    queue,            \* the events that wait in the event loop
    handler, mine,    \* the next step of wifi_event_handler, and the buffer
                      \* its local variable (to_free or buff) points to
    local_ip,         \* the shared pointer
    mutex,            \* local_ip_mutex: absent, free, or who holds it
    reader, seen,     \* each reader's next step, and the pointer it read
    heap,             \* the buffers that are allocated
    retry_count

(* History variable: esp_wifi_connect has refused a call since the start. *)
VARIABLE refused

readerVars == <<reader, seen>>

vars == <<events, waiter, run_app, station, queue, handler, mine, local_ip,
          mutex, reader, seen, heap, retry_count, refused>>

-----------------------------------------------------------------------------
WIFI_CONNECTED_BIT == 1    \* 1ULL << 0
WIFI_FAIL_BIT == 2         \* 1ULL << 1

Group == INSTANCE EventGroup
    WITH Tasks <- {"run_app"}, Bits <- {WIFI_CONNECTED_BIT, WIFI_FAIL_BIT}

WifiEvents == {"sta_start", "sta_disconnected", "sta_got_ip"}

Init ==
    /\ Group!GroupInit
    /\ run_app = "start_wifi"
    /\ station = "off"
    /\ queue = <<>>
    /\ handler = "idle"
    /\ mine = NULL
    /\ local_ip = NULL
    /\ mutex = "absent"
    /\ reader = [r \in Readers |-> "idle"]
    /\ seen = [r \in Readers |-> NULL]
    /\ heap = {}
    /\ retry_count = 0
    /\ refused = FALSE

(* The device restarts, whatever the reason, and gets as far as libiot_start_wifi. *)
Reset ==
    /\ events' = {}
    /\ waiter' = [t \in {"run_app"} |-> Group!Running]
    /\ run_app' = "start_wifi"
    /\ station' = "off"
    /\ queue' = <<>>
    /\ handler' = "idle"
    /\ mine' = NULL
    /\ local_ip' = NULL
    /\ mutex' = "absent"
    /\ reader' = [r \in Readers |-> "idle"]
    /\ seen' = [r \in Readers |-> NULL]
    /\ heap' = {}
    /\ retry_count' = 0
    /\ refused' = FALSE

-----------------------------------------------------------------------------
(* libiot_start_wifi *)

(* The event group and the mutex are created, the handler registered and the *)
(* driver started; any of its ESP_ERROR_CHECKs may end the program instead.  *)
StartSta ==
    /\ run_app = "start_wifi"
    /\ \/ /\ run_app' = "wait"
          /\ mutex' = "free"
          /\ station' = "idle"
          /\ queue' = <<"sta_start">>
          /\ UNCHANGED <<events, waiter, handler, mine, local_ip, readerVars,
                         heap, retry_count, refused>>
       \/ Reset

WaitForBits ==
    /\ run_app = "wait"
    /\ Group!WaitBits("run_app", {WIFI_CONNECTED_BIT, WIFI_FAIL_BIT},
                      Group!Forever)
    /\ UNCHANGED <<run_app, station, queue, handler, mine, local_ip, mutex,
                   readerVars, heap, retry_count, refused>>

(* Whichever bit it was: libiot_start_wifi logs it and returns. *)
WaitReturns ==
    /\ run_app = "wait"
    /\ Group!Return("run_app")
    /\ run_app' = "started"
    /\ UNCHANGED <<station, queue, handler, mine, local_ip, mutex, readerVars,
                   heap, retry_count, refused>>

-----------------------------------------------------------------------------
(* The driver and the access point *)

Posts(from, to, event) ==
    /\ station = from
    /\ station' = to
    /\ Len(queue) < QueueBound
    /\ queue' = Append(queue, event)
    /\ UNCHANGED <<events, waiter, run_app, handler, mine, local_ip, mutex,
                   readerVars, heap, retry_count, refused>>

GetsAddress == Posts("connecting", "up", "sta_got_ip")

AttemptFails == Posts("connecting", "idle", "sta_disconnected")

ConnectionLost == Posts("up", "idle", "sta_disconnected")

(* The network hands out another address on the same connection. *)
AddressChanges == Posts("up", "up", "sta_got_ip")

(* esp_wifi_connect(): an attempt begins, or the call is refused, which the *)
(* handler does not look at.                                                *)
Connects ==
    \/ station = "idle" /\ station' = "connecting" /\ UNCHANGED refused
    \/ refused' = TRUE /\ UNCHANGED station

-----------------------------------------------------------------------------
(* wifi_event_handler *)

NextEvent ==
    /\ handler = "idle"
    /\ queue # <<>>
    /\ queue' = Tail(queue)
    /\ handler' = CASE Head(queue) = "sta_start" -> "hostname"
                    [] Head(queue) = "sta_disconnected" -> "take_to_clear"
                    [] Head(queue) = "sta_got_ip" -> "malloc"
    /\ UNCHANGED <<events, waiter, run_app, station, mine, local_ip, mutex,
                   readerVars, heap, retry_count, refused>>

(* The three ESP_ERROR_CHECKs for the hostname *)
SetHostname ==
    /\ handler = "hostname"
    /\ \/ /\ handler' = "connect"
          /\ UNCHANGED <<events, waiter, run_app, station, queue, mine, local_ip,
                         mutex, readerVars, heap, retry_count, refused>>
       \/ Reset

FirstConnect ==
    /\ handler = "connect"
    /\ handler' = "idle"
    /\ Connects
    /\ UNCHANGED <<events, waiter, run_app, queue, mine, local_ip, mutex,
                   readerVars, heap, retry_count>>

(* xSemaphoreTake and xSemaphoreGive in the two branches that use the mutex *)
MutantHandlerTakes ==
    /\ \/ handler = "take_to_clear" /\ handler' = "clear"
       \/ handler = "take_to_set" /\ handler' = "set"
    /\ mutex' = "handler"
    /\ UNCHANGED <<events, waiter, run_app, station, queue, mine, local_ip,
                   readerVars, heap, retry_count, refused>>

HandlerTakes ==
    /\ \/ handler = "take_to_clear" /\ handler' = "clear"
       \/ handler = "take_to_set" /\ handler' = "set"
    /\ mutex = "free" /\ mutex' = "handler"
    /\ UNCHANGED <<events, waiter, run_app, station, queue, mine, local_ip,
                   readerVars, heap, retry_count, refused>>

HandlerGives ==
    /\ \/ handler = "give_cleared" /\ handler' = "free"
       \/ handler = "give_set" /\ handler' = "set_connected"
    /\ mutex' = "free"
    /\ UNCHANGED <<events, waiter, run_app, station, queue, mine, local_ip,
                   readerVars, heap, retry_count, refused>>

MutantClearAddress ==
    /\ handler = "clear"
    /\ handler' = "give_cleared"
    /\ mine' = local_ip
    /\ UNCHANGED <<events, waiter, run_app, station, queue, local_ip, mutex,
                   readerVars, heap, retry_count, refused>>

ClearAddress ==
    /\ handler = "clear"
    /\ handler' = "give_cleared"
    /\ mine' = local_ip
    /\ local_ip' = NULL
    /\ UNCHANGED <<events, waiter, run_app, station, queue, mutex, readerVars,
                   heap, retry_count, refused>>

(* free(to_free), the end of its scope, and the choice between the retry and the *)
(* failure.                                                                      *)
FreeAddress ==
    /\ handler = "free"
    /\ handler' = IF NUM_RETRIES < 0 \/ retry_count < NUM_RETRIES
                  THEN "retry" ELSE "set_fail"
    /\ heap' = heap \ {mine}
    /\ mine' = NULL
    /\ UNCHANGED <<events, waiter, run_app, station, queue, local_ip, mutex,
                   readerVars, retry_count, refused>>

MutantRetry ==
    /\ handler = "retry"
    /\ handler' = "idle"
    /\ retry_count' = IF retry_count < RetryCap THEN retry_count + 1 ELSE RetryCap
    /\ IF retry_count = 0 THEN Connects ELSE UNCHANGED <<station, refused>>
    /\ UNCHANGED <<events, waiter, run_app, queue, mine, local_ip, mutex,
                   readerVars, heap>>

MutantRetryDown ==
    /\ handler = "retry"
    /\ handler' = "idle"
    /\ Connects
    /\ retry_count' = retry_count - 1
    /\ UNCHANGED <<events, waiter, run_app, queue, mine, local_ip, mutex,
                   readerVars, heap>>

Retry ==
    /\ handler = "retry"
    /\ handler' = "idle"
    /\ Connects
    /\ retry_count' = IF retry_count < RetryCap THEN retry_count + 1 ELSE RetryCap
    /\ UNCHANGED <<events, waiter, run_app, queue, mine, local_ip, mutex,
                   readerVars, heap>>

MutantSetFail ==
    /\ handler = "set_fail"
    /\ handler' = "idle"
    /\ UNCHANGED <<events, waiter, run_app, station, queue, mine, local_ip, mutex,
                   readerVars, heap, retry_count, refused>>

SetFail ==
    /\ handler = "set_fail"
    /\ handler' = "idle"
    /\ Group!SetBits({WIFI_FAIL_BIT})
    /\ UNCHANGED <<run_app, station, queue, mine, local_ip, mutex, readerVars,
                   heap, retry_count, refused>>

(* malloc(16), and the snprintf into whatever it returned *)
FormatAddress ==
    /\ handler = "malloc"
    /\ \/ \E b \in Buffers \ heap :
             /\ mine' = b
             /\ heap' = heap \cup {b}
             /\ handler' = "take_to_set"
             /\ UNCHANGED <<events, waiter, run_app, station, queue, local_ip,
                            mutex, readerVars, retry_count, refused>>
       \/ Reset

MutantSetAddress ==
    /\ handler = "set"
    /\ handler' = "give_set"
    /\ local_ip' = mine
    /\ mine' = NULL
    /\ UNCHANGED <<events, waiter, run_app, station, queue, mutex, readerVars,
                   heap, retry_count, refused>>

(* assert(!local_ip), then the buffer is the shared one. *)
SetAddress ==
    /\ handler = "set"
    /\ IF local_ip # NULL
       THEN Reset
       ELSE /\ handler' = "give_set"
            /\ local_ip' = mine
            /\ mine' = NULL
            /\ UNCHANGED <<events, waiter, run_app, station, queue, mutex,
                           readerVars, heap, retry_count, refused>>

MutantSetConnected ==
    /\ handler = "set_connected"
    /\ handler' = "idle"
    /\ retry_count' = 0
    /\ UNCHANGED <<events, waiter, run_app, station, queue, mine, local_ip, mutex,
                   readerVars, heap, refused>>

SetConnected ==
    /\ handler = "set_connected"
    /\ handler' = "idle"
    /\ retry_count' = 0
    /\ Group!SetBits({WIFI_CONNECTED_BIT})
    /\ UNCHANGED <<run_app, station, queue, mine, local_ip, mutex, readerVars,
                   heap, refused>>

-----------------------------------------------------------------------------
(* libiot_get_local_ip.  Before libiot_start_wifi there is no mutex, and the  *)
(* kernel's assertion on a semaphore that does not exist ends the program; so *)
(* does strdup(NULL), while the station has no address.                       *)

ReadTakes(r) ==
    /\ reader[r] = "idle"
    /\ \/ /\ mutex = "free"
          /\ mutex' = r
          /\ reader' = [reader EXCEPT ![r] = "strdup"]
          /\ UNCHANGED <<events, waiter, run_app, station, queue, handler, mine,
                         local_ip, seen, heap, retry_count, refused>>
       \/ mutex = "absent" /\ Reset

ReadPointer(r) ==
    /\ reader[r] = "strdup"
    /\ IF local_ip = NULL
       THEN Reset
       ELSE /\ seen' = [seen EXCEPT ![r] = local_ip]
            /\ reader' = [reader EXCEPT ![r] = "copy"]
            /\ UNCHANGED <<events, waiter, run_app, station, queue, handler, mine,
                           local_ip, mutex, heap, retry_count, refused>>

(* The bytes are copied, into a buffer that is the caller's from then on. *)
ReadCopies(r) ==
    /\ reader[r] = "copy"
    /\ reader' = [reader EXCEPT ![r] = "give"]
    /\ seen' = [seen EXCEPT ![r] = NULL]
    /\ UNCHANGED <<events, waiter, run_app, station, queue, handler, mine,
                   local_ip, mutex, heap, retry_count, refused>>

ReadGives(r) ==
    /\ reader[r] = "give"
    /\ reader' = [reader EXCEPT ![r] = "idle"]
    /\ mutex' = "free"
    /\ UNCHANGED <<events, waiter, run_app, station, queue, handler, mine,
                   local_ip, seen, heap, retry_count, refused>>

-----------------------------------------------------------------------------
StartTask == StartSta \/ WaitForBits \/ WaitReturns

Network == GetsAddress \/ AttemptFails \/ ConnectionLost \/ AddressChanges

(* The steps of the handler that wait for nobody *)
HandlerRuns ==
    \/ NextEvent \/ SetHostname \/ FirstConnect
    \/ ClearAddress \/ FreeAddress \/ Retry \/ SetFail
    \/ FormatAddress \/ SetAddress \/ SetConnected \/ HandlerGives

Reads(r) == ReadPointer(r) \/ ReadCopies(r) \/ ReadGives(r)

Next ==
    \/ StartTask \/ Network \/ HandlerRuns \/ HandlerTakes
    \/ \E r \in Readers : ReadTakes(r) \/ Reads(r)

(* Every task that can run gets to, and the kernel hands the mutex to the event *)
(* loop, the waiting task of the highest priority.  An attempt to connect ends; *)
(* and the access point does not turn down every one of them for ever.          *)
Fairness ==
    /\ WF_vars(StartTask)
    /\ WF_vars(HandlerRuns)
    /\ SF_vars(HandlerTakes)
    /\ \A r \in Readers : WF_vars(Reads(r))
    /\ WF_vars(GetsAddress \/ AttemptFails)
    /\ SF_vars(GetsAddress)

Spec == Init /\ [][Next]_vars /\ Fairness

-----------------------------------------------------------------------------
(* Properties *)

Steps == {"idle", "hostname", "connect", "take_to_clear", "clear", "give_cleared",
          "free", "retry", "set_fail", "malloc", "take_to_set", "set", "give_set",
          "set_connected"}

Pointers == Buffers \cup {NULL}

(* The type of every variable. *)
TypeOK ==
    /\ Group!GroupType
    /\ run_app \in {"start_wifi", "wait", "started"}
    /\ station \in {"off", "idle", "connecting", "up"}
    /\ queue \in Seq(WifiEvents) /\ Len(queue) <= QueueBound
    /\ handler \in Steps
    /\ mine \in Pointers
    /\ local_ip \in Pointers
    /\ mutex \in {"absent", "free", "handler"} \cup Readers
    /\ reader \in [Readers -> {"idle", "strdup", "copy", "give"}]
    /\ seen \in [Readers -> Pointers]
    /\ heap \subseteq Buffers
    /\ retry_count \in 0 .. RetryCap
    /\ refused \in BOOLEAN

(* A task that copies the address reads live memory, and the address the station  *)
(* has lost or is going to lose, never a buffer that an event frees meanwhile.    *)
NoUseAfterFree ==
    \A r \in Readers : reader[r] = "copy" => seen[r] \in heap /\ seen[r] = local_ip

(* Every buffer has one owner, local_ip or the handler: whatever series of events *)
(* arrives, none is lost and none freed twice.                                    *)
AddressOwned ==
    /\ heap = {local_ip, mine} \ {NULL}
    /\ local_ip = mine => mine = NULL

(* Once the events that have been posted are handled, the node has an address to  *)
(* tell exactly when its station has one.                                         *)
AddressFollowsStation ==
    handler = "idle" /\ queue = <<>> => (local_ip # NULL <=> station = "up")

(* What leads to an attempt to connect, or is one *)
Attempts ==
    {i \in DOMAIN queue : queue[i] \in {"sta_start", "sta_disconnected"}}
    \cup (IF handler \in {"hostname", "connect", "take_to_clear", "clear",
                          "give_cleared", "free", "retry", "set_fail"}
          THEN {0} ELSE {})
    \cup (IF station \in {"connecting", "up"} THEN {-1} ELSE {})

(* The chain of retries neither breaks nor forks: the station is connected or      *)
(* connecting, or exactly one event is under way that makes it connect; unless the *)
(* driver refused a call or the retries are used up.                               *)
OneAttempt ==
    run_app # "start_wifi" =>
        Cardinality(Attempts) = IF refused \/ WIFI_FAIL_BIT \in events THEN 0 ELSE 1

(* libiot_start_wifi comes back with an address or for want of retries, unless the *)
(* driver refused to connect, which nobody would notice.                           *)
StartWifiReturns == run_app = "wait" ~> run_app # "wait" \/ refused

(* The assertion in the handler: when an address arrives the last one was cleared. *)
NoAddressYet == handler = "set" => local_ip = NULL

=============================================================================
