-------------------------------- MODULE Node --------------------------------
(***************************************************************************)
(* The OTA component among the tasks of a node: Ota with the message in    *)
(* "_info/info", which tells among other things what state the partitions  *)
(* are in and which one boots next.  The broker retains the last one.  Two *)
(* tasks publish it, the client task for a connection or a refresh command *)
(* (mqtt.c) and ota_task after each command (ota.c:198), and each builds   *)
(* it first (libiot_json_build_system_id) and publishes it then, with      *)
(* nothing in libiot that keeps the other from doing so in between.  What  *)
(* does is the lock of the esp-mqtt client, which its task holds while it  *)
(* handles an event and every other task takes in order to publish.        *)
(* Of a message it matters only whether the partitions have changed since  *)
(* it was built.  A Mutant is a plausible bug in the definition that       *)
(* follows it.                                                             *)
(***************************************************************************)
EXTENDS Ota

VARIABLES
    client_msg,     \* what the client task has built and not yet published
    ota_msg,        \* ... and ota_task
    retained,       \* the message the broker has
    untold          \* history: a change that no published message tells yet

infoVars == <<client_msg, ota_msg, retained, untold>>

nodeVars == <<vars, infoVars>>

Messages == {"none", "old", "current"}

(* The first connection is announced before the first command is handled (see *)
(* Mqtt): until then the broker has what an earlier boot told.                *)
NodeInit ==
    /\ Init
    /\ client_msg = "current" /\ ota_msg = "none"
    /\ retained = "old" /\ untold = FALSE

Outdated(m) == IF m = "current" THEN "old" ELSE m

(* The partitions change: what is built and published is old from now on. *)
Outdates ==
    /\ client_msg' = Outdated(client_msg)
    /\ ota_msg' = Outdated(ota_msg)
    /\ retained' = Outdated(retained)
    /\ untold' = TRUE

(* esp_mqtt_client_publish of an info message *)
Publish(m) ==
    /\ retained' = m
    /\ untold' = (untold /\ m # "current")

(* The client task handles an event. *)
Handling == mqtt # "idle" \/ client_msg # "none"

-----------------------------------------------------------------------------
(* The client task: one event at a time *)

NodeClientTask ==
    /\ client_msg = "none"
    /\ ClientTask
    /\ UNCHANGED infoVars

(* MQTT_EVENT_CONNECTED, or a message in "_cmd/refresh" *)
ClientBuilds ==
    /\ ~Handling
    /\ client_msg' = "current"
    /\ UNCHANGED <<vars, ota_msg, retained, untold>>

ClientPublishes ==
    /\ client_msg # "none"
    /\ Publish(client_msg)
    /\ client_msg' = "none"
    /\ UNCHANGED <<vars, ota_msg>>

-----------------------------------------------------------------------------
(* ota_task *)

(* What writes an image: the partition is erased at the beginning (whether by begin *)
(* or with the first read is up to esp_https_ota) and checked at the end.           *)
Writes == Begin \/ PerformReads \/ PerformEnds \/ Finish

(* A validated image, an image under way, or one chosen for the next boot *)
PartitionsChange ==
    /\ (ProcessValidate /\ ota' = "free") \/ Writes
    /\ Outdates

PublishesProgress == ota = "progress" /\ milestone_count > last_milestone_count

NodeOtaTask ==
    /\ ota \in Publishing \/ PublishesProgress => ~Handling
    /\ \/ Receive \/ Refuse \/ ProcessUpdate \/ LogError \/ Free
       \/ (ProcessValidate /\ ota' = "log")
       \/ (ProcessRollback /\ ota' = "log")
       \/ (Writes /\ ota' # "done")
       \/ PublishStart \/ PublishProgress \/ CheckDownload \/ Abort \/ LogFail
       \/ PublishDone \/ PublishFail
    /\ UNCHANGED infoVars

(* The message is built before the command is executed. *)
MutantOtaBuilds ==
    /\ ota = "process" /\ ota_msg = "none"
    /\ ota_msg' = "current"
    /\ UNCHANGED <<vars, client_msg, retained, untold>>

OtaBuilds ==
    /\ ota = "refresh" /\ ota_msg = "none"
    /\ ota_msg' = "current"
    /\ UNCHANGED <<vars, client_msg, retained, untold>>

NodeRefresh ==
    /\ ota_msg # "none" /\ ~Handling
    /\ Refresh
    /\ Publish(ota_msg)
    /\ ota_msg' = "none"
    /\ UNCHANGED client_msg

-----------------------------------------------------------------------------
(* A restart: the bootloader may change the partitions, and the next connection *)
(* is going to tell.                                                             *)
InfoLost ==
    /\ client_msg' = "current" /\ ota_msg' = "none"
    /\ retained' = "old" /\ untold' = FALSE

NodeReadNull == ReadNull /\ InfoLost

(* For any other cause: a rollback, a message that is refused, a command *)
NodeRestart == Restart /\ InfoLost

OtaRuns == NodeOtaTask \/ PartitionsChange \/ OtaBuilds \/ NodeRefresh \/ NodeReadNull

NodeNext ==
    \/ NodeClientTask \/ ClientBuilds \/ ClientPublishes
    \/ OtaRuns \/ NodeRestart

(* As for Ota.  The client task ends each event, and gives the lock away while it *)
(* waits for the next, so that ota_task gets it in the end.                       *)
NodeFairness ==
    /\ WF_nodeVars(ClientPublishes \/ (mqtt # "idle" /\ NodeClientTask))
    /\ SF_nodeVars(OtaRuns)
    /\ SF_nodeVars((NodeOtaTask \/ PartitionsChange) /\ DownloadAdvances)

NodeSpec == NodeInit /\ [][NodeNext]_nodeVars /\ NodeFairness

-----------------------------------------------------------------------------
(* Properties *)

(* A validated image, a partition erased or written and a new boot partition are     *)
(* told: each change is followed by a message that was built after it, or by a       *)
(* restart.                                                                          *)
EveryChangeIsTold == untold ~> ~untold

(* What the broker keeps is as fresh as what was told: between a refresh and the *)
(* next change no older message arrives last, whichever task published it.       *)
RefreshedIsCurrent ==
    client_msg = "none" /\ ~untold => retained = "current"

=============================================================================
