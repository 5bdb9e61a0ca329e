-------------------------------- MODULE Ota --------------------------------
(***************************************************************************)
(* Over-the-air updates (src/src/libiot/ota.c) and the hand-over of a      *)
(* command to them in mqtt_event_handler (mqtt.c:148-157):                 *)
(*   - the client task copies a command into a buffer of its own and sends *)
(*     the pointer to a queue, without waiting;                            *)
(*   - ota_task takes one pointer at a time, executes the command, frees   *)
(*     the buffer and publishes the state of the partitions again.         *)
(* Whatever either task publishes may be refused by the client, and the    *)
(* assertion on the result then ends the program (see Mqtt).               *)
(* A Mutant is a plausible bug in the definition that follows it; the      *)
(* specification does not use it.                                          *)
(***************************************************************************)
EXTENDS Integers, Sequences, Functions

CONSTANTS
    Buffers,          \* what strndup() may return: the memory there is
    NULL,             \* what it returns when there is none
    QueueLength,      \* QUEUE_LENGTH
    MilestoneBytes,   \* MILESTONE_BYTES
    KB,               \* what rx_kb counts, 1000 bytes
    PartitionBytes    \* the size of the partition an image is written to

ASSUME OtaAssumption ==
    /\ NULL \notin Buffers
    /\ QueueLength \in Nat \ {0}
    /\ KB \in Nat \ {0}
    /\ MilestoneBytes \in Nat \ {0}
    /\ MilestoneBytes % KB = 0
    /\ PartitionBytes \in Nat \ {0}

VARIABLES
    heap,             \* the buffers that are allocated
    content,          \* the command in each buffer
    ota_cmd_queue,    \* the pointers that wait
    mqtt, dup,        \* the client task in the "ota" branch, and its buffer
    ota, cmd_json,    \* the next step of ota_task, and its buffer
    byte_count,       \* esp_https_ota_get_image_len_read()
    last_milestone_count,
    perform,          \* what the last esp_https_ota_perform() came to
    handles,          \* how many OTA handles are open
    switched          \* the boot partition is not the running one

(* History variables: the properties read them, no action does. *)
VARIABLES
    leaked,     \* buffers nobody is going to free
    installed,  \* esp_https_ota_finish() succeeded in this update
    reported,   \* the states this update has published
    rx_kb       \* the amount last published in this update

clientVars == <<mqtt, dup>>

updateVars == <<byte_count, last_milestone_count, perform, handles, switched,
                installed, reported, rx_kb>>

vars == <<heap, content, ota_cmd_queue, mqtt, dup, ota, cmd_json, byte_count,
          last_milestone_count, perform, handles, switched, leaked, installed,
          reported, rx_kb>>

-----------------------------------------------------------------------------
(* What a command is, as far as the code tells commands apart.  "malformed" is *)
(* any of those it refuses: no JSON (the first fragment of a longer message is *)
(* none either), no type, an unknown type, an update without a url or ca_cert. *)
Commands == {"malformed", "update", "validate", "rollback"}

Freed == "freed"

NotPerformed == [err |-> "none", complete |-> FALSE]

(* The steps of ota_task that publish *)
Publishing == {"log", "start", "log_fail", "fail", "done", "refresh"}

Pointers == Buffers \cup {NULL}

Init ==
    /\ heap = {}
    /\ content = [b \in Buffers |-> Freed]
    /\ ota_cmd_queue = <<>>
    /\ mqtt = "idle"
    /\ dup = NULL
    /\ ota = "receive"
    /\ cmd_json = NULL
    /\ byte_count = 0
    /\ last_milestone_count = -1
    /\ perform = NotPerformed
    /\ handles = 0
    /\ switched = FALSE
    /\ leaked = {}
    /\ installed = FALSE
    /\ reported = {}
    /\ rx_kb = -1

(* The device restarts and gets as far as libiot_init_ota: RAM is lost, and the *)
(* image that runs is the one that was chosen.                                  *)
Reset ==
    /\ heap' = {}
    /\ content' = [b \in Buffers |-> Freed]
    /\ ota_cmd_queue' = <<>>
    /\ mqtt' = "idle"
    /\ dup' = NULL
    /\ ota' = "receive"
    /\ cmd_json' = NULL
    /\ byte_count' = 0
    /\ last_milestone_count' = -1
    /\ perform' = NotPerformed
    /\ handles' = 0
    /\ switched' = FALSE
    /\ leaked' = {}
    /\ installed' = FALSE
    /\ reported' = {}
    /\ rx_kb' = -1

-----------------------------------------------------------------------------
(* The client task: mqtt_event_handler and libiot_ota_dispatch_request *)

(* strndup(event->data, event->data_len): NULL when there is no memory, which *)
(* nobody looks at.                                                           *)
CommandArrives(command) ==
    /\ mqtt = "idle"
    /\ mqtt' = "dispatch"
    /\ \/ /\ dup' = NULL
          /\ UNCHANGED <<heap, content>>
       \/ \E b \in Buffers \ heap :
             /\ dup' = b
             /\ heap' = heap \cup {b}
             /\ content' = [content EXCEPT ![b] = command]
    /\ UNCHANGED <<ota_cmd_queue, ota, cmd_json, leaked, updateVars>>

MutantQueueCommand ==
    /\ mqtt = "dispatch"
    /\ Len(ota_cmd_queue) < QueueLength
    /\ ota_cmd_queue' = <<dup>> \o ota_cmd_queue
    /\ mqtt' = "idle"
    /\ dup' = NULL
    /\ UNCHANGED <<heap, content, ota, cmd_json, leaked, updateVars>>

QueueCommand ==
    /\ mqtt = "dispatch"
    /\ Len(ota_cmd_queue) < QueueLength
    /\ ota_cmd_queue' = Append(ota_cmd_queue, dup)
    /\ mqtt' = "idle"
    /\ dup' = NULL
    /\ UNCHANGED <<heap, content, ota, cmd_json, leaked, updateVars>>

(* xQueueSend does not wait.  The error is published next; the buffer is lost. *)
QueueFull ==
    /\ mqtt = "dispatch"
    /\ Len(ota_cmd_queue) = QueueLength
    /\ mqtt' = "log_full"
    /\ dup' = NULL
    /\ leaked' = leaked \cup ({dup} \cap Buffers)
    /\ UNCHANGED <<heap, content, ota_cmd_queue, ota, cmd_json, updateVars>>

FullLogged ==
    /\ mqtt = "log_full"
    /\ mqtt' = "idle"
    /\ UNCHANGED <<heap, content, ota_cmd_queue, dup, ota, cmd_json, leaked,
                   updateVars>>

-----------------------------------------------------------------------------
(* ota_task: task_run and process_cmd *)

Receive ==
    /\ ota = "receive"
    /\ ota_cmd_queue # <<>>
    /\ cmd_json' = Head(ota_cmd_queue)
    /\ ota_cmd_queue' = Tail(ota_cmd_queue)
    /\ ota' = "process"
    /\ UNCHANGED <<heap, content, leaked, clientVars, updateVars>>

(* A step that changes nothing but ota_task's place and what is named beside. *)
Goes(from, to) ==
    /\ ota = from
    /\ ota' = to
    /\ UNCHANGED <<heap, content, ota_cmd_queue, cmd_json, leaked, clientVars>>

(* strlen(manifest_json) of a command there was no memory for *)
ReadNull ==
    /\ ota = "process"
    /\ cmd_json = NULL
    /\ Reset

(* cJSON_Parse also fails for any command when it gets no memory. *)
Refuse ==
    /\ cmd_json # NULL
    /\ Goes("process", "log")
    /\ UNCHANGED updateVars

ProcessUpdate ==
    /\ cmd_json # NULL /\ content[cmd_json] = "update"
    /\ Goes("process", "start")
    /\ UNCHANGED updateVars

(* esp_ota_mark_app_valid_cancel_rollback, or its error to be logged *)
ProcessValidate ==
    /\ cmd_json # NULL /\ content[cmd_json] = "validate"
    /\ Goes("process", "free") \/ Goes("process", "log")
    /\ UNCHANGED updateVars

(* esp_ota_mark_app_invalid_rollback_and_reboot returns only when it fails. *)
ProcessRollback ==
    /\ ota = "process"
    /\ cmd_json # NULL /\ content[cmd_json] = "rollback"
    /\ \/ Reset
       \/ Goes("process", "log") /\ UNCHANGED updateVars

MutantLogError ==
    /\ Goes("log", "receive")
    /\ UNCHANGED updateVars

LogError ==
    /\ Goes("log", "free")
    /\ UNCHANGED updateVars

MutantFree ==
    /\ Goes("free", "refresh")
    /\ installed' = FALSE /\ reported' = {} /\ rx_kb' = -1
    /\ UNCHANGED <<byte_count, last_milestone_count, perform, handles, switched>>

MutantFreeSkips ==
    /\ ota = "free"
    /\ ota' = "receive"
    /\ cmd_json' = NULL
    /\ heap' = heap \ {cmd_json}
    /\ content' = [content EXCEPT ![cmd_json] = Freed]
    /\ installed' = FALSE /\ reported' = {} /\ rx_kb' = -1
    /\ UNCHANGED <<ota_cmd_queue, leaked, clientVars, byte_count,
                   last_milestone_count, perform, handles, switched>>

(* The command is done, and with it what the histories say of an update. *)
Free ==
    /\ ota = "free"
    /\ ota' = "refresh"
    /\ heap' = heap \ {cmd_json}
    /\ content' = [content EXCEPT ![cmd_json] = Freed]
    /\ installed' = FALSE /\ reported' = {} /\ rx_kb' = -1
    /\ UNCHANGED <<ota_cmd_queue, cmd_json, leaked, clientVars, byte_count,
                   last_milestone_count, perform, handles, switched>>

(* libiot_mqtt_send_refresh_resp, and the end of cmd_json's scope *)
Refresh ==
    /\ ota = "refresh"
    /\ ota' = "receive"
    /\ cmd_json' = NULL
    /\ UNCHANGED <<heap, content, ota_cmd_queue, leaked, clientVars, updateVars>>

-----------------------------------------------------------------------------
(* perform_update *)

(* libiot_mqtt_publishf_local drops a message it has no memory for. *)
Publishes(state) ==
    \/ reported' = reported \cup {state}
    \/ UNCHANGED reported

PublishStart ==
    /\ Goes("start", "begin")
    /\ Publishes("start")
    /\ UNCHANGED <<byte_count, last_milestone_count, perform, handles, switched,
                   installed, rx_kb>>

Begin ==
    /\ \/ /\ Goes("begin", "perform")
          /\ handles' = handles + 1
       \/ /\ Goes("begin", "log_fail")
          /\ UNCHANGED handles
    /\ UNCHANGED <<byte_count, last_milestone_count, perform, switched,
                   installed, reported, rx_kb>>

(* ESP_ERR_HTTPS_OTA_IN_PROGRESS: the read brought some bytes, or none yet. *)
PerformReads ==
    /\ Goes("perform", "progress")
    /\ byte_count' \in byte_count .. PartitionBytes
    /\ UNCHANGED <<last_milestone_count, perform, handles, switched, installed,
                   reported, rx_kb>>

(* Anything else: ESP_OK or an error, with or without all data received. *)
PerformEnds ==
    /\ Goes("perform", "check")
    /\ perform' \in [err : {"ESP_OK", "ESP_FAIL"}, complete : BOOLEAN]
    /\ UNCHANGED <<byte_count, last_milestone_count, handles, switched,
                   installed, reported, rx_kb>>

milestone_count == byte_count \div MilestoneBytes

MutantPublishProgress ==
    /\ Goes("progress", "perform")
    /\ IF milestone_count > last_milestone_count
       THEN /\ reported' = reported \cup {"in_progress"}
            /\ rx_kb' = byte_count \div KB
       ELSE UNCHANGED <<reported, rx_kb>>
    /\ UNCHANGED <<byte_count, last_milestone_count, perform, handles, switched,
                   installed>>

PublishProgress ==
    /\ Goes("progress", "perform")
    /\ IF milestone_count > last_milestone_count
       THEN /\ last_milestone_count' = milestone_count
            /\ \/ /\ reported' = reported \cup {"in_progress"}
                  /\ rx_kb' = byte_count \div KB
               \/ UNCHANGED <<reported, rx_kb>>
       ELSE UNCHANGED <<last_milestone_count, reported, rx_kb>>
    /\ UNCHANGED <<byte_count, perform, handles, switched, installed>>

MutantCheckDownload ==
    /\ \/ perform.complete /\ Goes("check", "finish")
       \/ ~ perform.complete /\ Goes("check", "abort")
    /\ UNCHANGED updateVars

CheckDownload ==
    /\ \/ perform.complete /\ perform.err = "ESP_OK" /\ Goes("check", "finish")
       \/ ~ (perform.complete /\ perform.err = "ESP_OK") /\ Goes("check", "abort")
    /\ UNCHANGED updateVars

MutantFinishAborts ==
    /\ handles' = handles - 1
    /\ \/ /\ Goes("finish", "done")
          /\ switched' = TRUE
          /\ installed' = TRUE
       \/ /\ Goes("finish", "abort")
          /\ UNCHANGED <<switched, installed>>
    /\ UNCHANGED <<byte_count, last_milestone_count, perform, reported, rx_kb>>

MutantFinishUnchecked ==
    /\ handles' = handles - 1
    /\ Goes("finish", "done")
    /\ \/ switched' = TRUE /\ installed' = TRUE
       \/ UNCHANGED <<switched, installed>>
    /\ UNCHANGED <<byte_count, last_milestone_count, perform, reported, rx_kb>>

(* esp_https_ota_finish closes the handle whatever it returns, and switches the *)
(* boot partition when the image is valid.                                      *)
Finish ==
    /\ handles' = handles - 1
    /\ \/ /\ Goes("finish", "done")
          /\ switched' = TRUE
          /\ installed' = TRUE
       \/ /\ Goes("finish", "log_fail")
          /\ UNCHANGED <<switched, installed>>
    /\ UNCHANGED <<byte_count, last_milestone_count, perform, reported, rx_kb>>

MutantAbort ==
    /\ Goes("abort", "log_fail")
    /\ UNCHANGED updateVars

Abort ==
    /\ Goes("abort", "log_fail")
    /\ handles' = handles - 1
    /\ UNCHANGED <<byte_count, last_milestone_count, perform, switched,
                   installed, reported, rx_kb>>

LogFail ==
    /\ Goes("log_fail", "fail")
    /\ UNCHANGED updateVars

(* The last message, and the end of perform_update and of its locals *)
PublishOutcome(state) ==
    /\ Goes(state, "free")
    /\ Publishes(state)
    /\ byte_count' = 0 /\ last_milestone_count' = -1 /\ perform' = NotPerformed
    /\ UNCHANGED <<handles, switched, installed, rx_kb>>

PublishDone == PublishOutcome("done")

PublishFail == PublishOutcome("fail")

-----------------------------------------------------------------------------
(* Everything else *)

(* The client refuses what one of the two tasks publishes. *)
PublishFails ==
    /\ ota \in Publishing \/ mqtt = "log_full"
       \/ (ota = "progress" /\ milestone_count > last_milestone_count)
    /\ Reset

(* The restart command, a watchdog, a failure of the application: at any time. *)
Restart == Reset

ClientTask ==
    \/ \E command \in Commands : CommandArrives(command)
    \/ QueueCommand \/ QueueFull \/ FullLogged

OtaTask ==
    \/ Receive \/ ReadNull \/ Refuse
    \/ ProcessUpdate \/ ProcessValidate \/ ProcessRollback
    \/ LogError \/ Free \/ Refresh
    \/ PublishStart \/ Begin \/ PerformReads \/ PerformEnds \/ PublishProgress
    \/ CheckDownload \/ Finish \/ Abort \/ LogFail \/ PublishDone \/ PublishFail

Next == ClientTask \/ OtaTask \/ PublishFails \/ Restart

(* A read that brings bytes, or the end of the download *)
DownloadAdvances == PerformEnds \/ (PerformReads /\ byte_count' > byte_count)

(* ota_task gets to run: esp_https_ota_perform returns within RECV_TIMEOUT_MS, *)
(* and a publication ends one way or the other, as libiot.h says.  The code    *)
(* sets no limit to a download as a whole, so that one has to be assumed of    *)
(* the server: it does not keep the device reading nothing for ever.           *)
Fairness == WF_vars(OtaTask) /\ SF_vars(DownloadAdvances)

Spec == Init /\ [][Next]_vars /\ Fairness

-----------------------------------------------------------------------------
(* Properties *)

(* The steps between esp_https_ota_begin and the call that closes the handle *)
Downloading == {"perform", "progress", "check", "finish", "abort"}

Steps == Publishing \cup Downloading \cup {"receive", "process", "begin", "free"}

(* The type of every variable. *)
TypeOK ==
    /\ heap \subseteq Buffers
    /\ content \in [Buffers -> Commands \cup {Freed}]
    /\ ota_cmd_queue \in Seq(Pointers) /\ Len(ota_cmd_queue) <= QueueLength
    /\ mqtt \in {"idle", "dispatch", "log_full"}
    /\ dup \in Pointers
    /\ ota \in Steps
    /\ cmd_json \in Pointers
    /\ byte_count \in 0 .. PartitionBytes
    /\ last_milestone_count \in -1 .. PartitionBytes
    /\ perform \in [err : {"none", "ESP_OK", "ESP_FAIL"}, complete : BOOLEAN]
    /\ handles \in {0, 1}
    /\ switched \in BOOLEAN
    /\ leaked \subseteq Buffers
    /\ installed \in BOOLEAN
    /\ reported \subseteq {"start", "in_progress", "done", "fail"}
    /\ rx_kb \in -1 .. PartitionBytes

(* Whatever way an update takes through its gotos, it gives its handle back: one *)
(* is open exactly between a successful begin and the finish or abort that ends  *)
(* the update, and none when the task waits for a command.                       *)
HandleReleased == handles = IF ota \in Downloading THEN 1 ELSE 0

(* The buffer ota_task works on *)
InUse == IF ota \in {"receive", "refresh"} THEN {} ELSE {cmd_json} \cap Buffers

Queued == Range(ota_cmd_queue) \cap Buffers

Held == {dup} \cap Buffers

(* Every buffer has one owner at a time: the client task, one place of the queue,  *)
(* ota_task, or nobody when the queue was full.  None is freed early or twice, and *)
(* none is lost any other way.                                                     *)
OneOwner ==
    /\ heap = InUse \cup Queued \cup Held \cup leaked
    /\ InUse \cap (Queued \cup Held \cup leaked) = {}
    /\ Queued \cap (Held \cup leaked) = {}
    /\ Held \cap leaked = {}
    /\ \A i, j \in DOMAIN ota_cmd_queue :
          ota_cmd_queue[i] = ota_cmd_queue[j] /\ ota_cmd_queue[i] # NULL => i = j

(* What an update reports as its outcome is true of the boot partition, and it   *)
(* never reports both outcomes.                                                  *)
OutcomeIsTrue ==
    /\ "done" \in reported => installed /\ switched
    /\ "fail" \in reported => ~installed

(* The boot partition is switched only to an image of which every byte was     *)
(* received and written without an error, by the first update of a boot and by *)
(* each one after it.                                                          *)
InstallsWholeImage ==
    [][(switched' /\ ~switched) \/ (installed' /\ ~installed) =>
          perform = [err |-> "ESP_OK", complete |-> TRUE]]_vars

(* The progress an update reports only grows, by no less than a milestone's  *)
(* border each time, so that no more messages go out than milestones passed. *)
ProgressGrows ==
    [][rx_kb' # rx_kb /\ rx_kb' # -1 =>
          /\ rx_kb' > rx_kb
          /\ rx_kb >= 0 => rx_kb' \div (MilestoneBytes \div KB)
                              > rx_kb \div (MilestoneBytes \div KB)]_vars

(* An accepted command is executed and its buffer freed, or the device restarts: *)
(* ota_task never gets stuck on the commands before it, as long as no server     *)
(* lets a download hang for ever.                                                *)
AcceptedIsProcessed ==
    \A b \in Buffers : b \in Range(ota_cmd_queue) ~> b \notin heap

(* Ota implements the command service: what is pending are the commands in the *)
(* queued buffers, what is current is the command in the buffer in use.  A     *)
(* command there was no memory for is none of the service's: it is a restart.  *)
CommandAt(p) == IF p = NULL THEN "lost" ELSE content[p]

Service == INSTANCE OtaService
    WITH Commands <- Commands \cup {"lost"},
         Installing <- {"update"},
         Capacity <- QueueLength,
         pending <- [i \in DOMAIN ota_cmd_queue |-> CommandAt(ota_cmd_queue[i])],
         current <- IF ota \in {"receive", "refresh"} THEN <<>>
                    ELSE <<CommandAt(cmd_json)>>

ImplementsService == Service!Spec

-----------------------------------------------------------------------------
(* The inductive invariant behind the safety properties *)

(* Which task holds a pointer, and where. *)
PointerInv ==
    /\ mqtt # "dispatch" => dup = NULL
    /\ ota = "receive" => cmd_json = NULL
    /\ ota \notin {"receive", "process", "refresh"} => cmd_json \in Buffers
    /\ \A b \in Buffers : (b \in heap) = (content[b] # Freed)

(* What an update has established when it gets to one of its last steps. *)
UpdateInv ==
    /\ ota \in Downloading \cup {"start", "begin", "log_fail", "fail", "done"} =>
            content[cmd_json] = "update"
    /\ ota = "finish" => perform = [err |-> "ESP_OK", complete |-> TRUE]
    /\ ota = "done" => installed
    /\ installed => ota \in {"done", "free"} /\ switched
    /\ ota # "free" => reported \cap {"done", "fail"} = {}

(* The milestone that was last reported covers the amount last published, and *)
(* both belong to the update in progress.                                     *)
ProgressInv ==
    /\ last_milestone_count * MilestoneBytes <= byte_count
    /\ rx_kb * KB <= byte_count \/ ota = "free"
    /\ rx_kb >= 0 /\ ota # "free" =>
          rx_kb \div (MilestoneBytes \div KB) <= last_milestone_count
    /\ ota \notin Downloading \cup {"log_fail", "fail", "done"} =>
          /\ byte_count = 0
          /\ last_milestone_count = -1
          /\ rx_kb = -1 \/ ota = "free"

(* Holds initially and is preserved by every step (see OtaProofs). *)
IInv ==
    /\ TypeOK
    /\ HandleReleased
    /\ OneOwner
    /\ OutcomeIsTrue
    /\ PointerInv
    /\ UpdateInv
    /\ ProgressInv

=============================================================================
