----------------------------- MODULE NodeProofs -----------------------------
(***************************************************************************)
(* Proofs about Node.  Every step of it is a step of Ota or one that leaves *)
(* Ota's variables alone, so that what OtaProofs has shown of Ota holds in  *)
(* the composition.  That the older message never arrives last needs the   *)
(* invariant InfoInv, which says where an old message can be.              *)
(***************************************************************************)
EXTENDS Node, OtaProofs

(* An old message is the client task's, whose lock keeps ota_task from telling *)
(* the change meanwhile; ota_task's own message is always current.             *)
InfoInv ==
    /\ client_msg \in Messages
    /\ ota_msg # "none" => ota = "refresh" /\ ota_msg = "current"
    /\ untold \in BOOLEAN
    /\ client_msg = "old" => untold
    /\ RefreshedIsCurrent

(* The steps of ota_task that leave the messages alone leave "refresh" alone too. *)
LEMMA OtaStepsOutsideRefresh ==
    ASSUME NodeOtaTask
    PROVE  ota # "refresh"
BY DEF NodeOtaTask, Receive, Refuse, ProcessUpdate, LogError, Free, ProcessValidate,
       ProcessRollback, PublishStart, Writes, Begin, PerformReads, PerformEnds,
       PublishProgress, CheckDownload, Finish, Abort, LogFail, PublishDone,
       PublishFail, PublishOutcome, Goes

(* The client task does not move ota_task. *)
LEMMA ClientLeavesOta ==
    ASSUME ClientTask
    PROVE  ota' = ota
BY DEF ClientTask, CommandArrives, QueueCommand, QueueFull, FullLogged

(* The composition takes no step that Ota does not allow. *)
LEMMA NodeStepIsOtaStep == [NodeNext]_nodeVars => [Next]_vars
<1> SUFFICES ASSUME [NodeNext]_nodeVars PROVE Next \/ UNCHANGED vars
  OBVIOUS
<1>1. CASE NodeClientTask
  BY <1>1 DEF NodeClientTask, Next
<1>2. CASE ClientBuilds \/ ClientPublishes \/ OtaBuilds
  BY <1>2 DEF ClientBuilds, ClientPublishes, OtaBuilds
<1>3. CASE NodeOtaTask
  BY <1>3 DEF NodeOtaTask, Writes, Next, OtaTask
<1>4. CASE PartitionsChange
  BY <1>4 DEF PartitionsChange, Writes, Next, OtaTask
<1>5. CASE NodeRefresh \/ NodeReadNull
  BY <1>5 DEF NodeRefresh, NodeReadNull, Next, OtaTask
<1>6. CASE NodeRestart
  BY <1>6 DEF NodeRestart, Next
<1>7. CASE UNCHANGED nodeVars
  BY <1>7 DEF nodeVars
<1>8. QED
  BY <1>1, <1>2, <1>3, <1>4, <1>5, <1>6, <1>7 DEF NodeNext, OtaRuns

(* Among the tasks of the node the OTA component keeps its inductive invariant, *)
(* and with it the ownership of the buffers and the truth of its reports.       *)
THEOREM OtaKeptInNode == NodeSpec => [](IInv /\ OneOwner /\ OutcomeIsTrue)
<1>1. NodeInit => IInv
  BY InitInv DEF NodeInit
<1>2. IInv /\ [NodeNext]_nodeVars => IInv'
  BY NextInv, NodeStepIsOtaStep
<1>3. IInv => OneOwner /\ OutcomeIsTrue
  BY DEF IInv
<1>4. QED
  BY <1>1, <1>2, <1>3, PTL DEF NodeSpec

(* Among the other tasks, too, the component is the bounded first-come-first-served *)
(* service that OtaService promises.                                               *)
THEOREM NodeImplementsService == NodeSpec => ImplementsService
<1>1. NodeInit => Service!Init
  BY InitRefines DEF NodeInit
<1>2. IInv /\ IInv' /\ [NodeNext]_nodeVars => [Service!Next]_(Service!serviceVars)
  BY NextRefines, NodeStepIsOtaStep
<1>3. QED
  BY <1>1, <1>2, OtaKeptInNode, PTL DEF NodeSpec, ImplementsService, Service!Spec

(* The partitions change at a step at which ota_task has no message of its own. *)
LEMMA ChangeKeepsInfo ==
    ASSUME InfoInv, PartitionsChange
    PROVE  InfoInv'
<1>1. ota # "refresh"
  BY DEF PartitionsChange, Writes, ProcessValidate, Begin, PerformReads, PerformEnds,
         Finish, Goes
<1>2. ota_msg = "none" /\ ota_msg' = "none"
  BY <1>1 DEF InfoInv, PartitionsChange, Outdates, Outdated
<1>3. untold' = TRUE /\ client_msg' \in {"none", "old"}
  BY DEF InfoInv, PartitionsChange, Outdates, Outdated, Messages
<1>4. QED
  BY <1>2, <1>3 DEF InfoInv, RefreshedIsCurrent, Messages

(* Every step of the node keeps track of where an old message is. *)
LEMMA NextKeepsInfo == InfoInv /\ [NodeNext]_nodeVars => InfoInv'
<1> SUFFICES ASSUME InfoInv, [NodeNext]_nodeVars PROVE InfoInv'
  OBVIOUS
<1>1. CASE NodeClientTask
  BY <1>1, ClientLeavesOta DEF NodeClientTask, InfoInv, infoVars, RefreshedIsCurrent
<1>2. CASE ClientBuilds
  BY <1>2 DEF ClientBuilds, InfoInv, vars, RefreshedIsCurrent, Messages
<1>3. CASE ClientPublishes
  BY <1>3 DEF ClientPublishes, Publish, InfoInv, vars, RefreshedIsCurrent, Messages
<1>4. CASE NodeOtaTask
  <2>1. UNCHANGED infoVars /\ ota_msg = "none"
    BY <1>4, OtaStepsOutsideRefresh DEF NodeOtaTask, InfoInv
  <2>2. QED
    BY <2>1 DEF InfoInv, infoVars, RefreshedIsCurrent
<1>5. CASE PartitionsChange
  BY <1>5, ChangeKeepsInfo
<1>6. CASE OtaBuilds
  BY <1>6 DEF OtaBuilds, InfoInv, vars, RefreshedIsCurrent
<1>7. CASE NodeRefresh
  BY <1>7 DEF NodeRefresh, Handling, Publish, InfoInv, RefreshedIsCurrent, Messages
<1>8. CASE NodeReadNull \/ NodeRestart
  BY <1>8 DEF NodeReadNull, NodeRestart, InfoLost, InfoInv, RefreshedIsCurrent, Messages
<1>9. CASE UNCHANGED nodeVars
  BY <1>9 DEF nodeVars, vars, infoVars, InfoInv, RefreshedIsCurrent
<1>10. QED
  BY <1>1, <1>2, <1>3, <1>4, <1>5, <1>6, <1>7, <1>8, <1>9 DEF NodeNext, OtaRuns

(* Between a refresh and the next change of the partitions the broker keeps no *)
(* older message, whichever of the two tasks published last.                   *)
THEOREM NoOldInfo == NodeSpec => []RefreshedIsCurrent
<1>1. NodeInit => InfoInv
  BY DEF NodeInit, InfoInv, RefreshedIsCurrent, Messages
<1>2. InfoInv => RefreshedIsCurrent
  BY DEF InfoInv
<1>3. QED
  BY <1>1, <1>2, NextKeepsInfo, PTL DEF NodeSpec

=============================================================================
