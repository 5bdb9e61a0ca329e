------------------------------ MODULE OtaProofs ------------------------------
(***************************************************************************)
(* Proofs about Ota, for every set of buffers, queue length, milestone and *)
(* image size.                                                             *)
(*                                                                         *)
(* IInv has two halves that no step disturbs together: who owns a buffer   *)
(* (ClientStep, CommandStep and QueueStep) and what an update has          *)
(* established where it is (UpdateStep).  MemoryFrame and UpdateFrame are  *)
(* what lets a step that works on the one half leave the other.  From IInv *)
(* follow the invariants, the two action properties and, with the mapping  *)
(* of Ota, that the component implements OtaService.                       *)
(***************************************************************************)
EXTENDS Ota, SequenceTheorems, TLAPS

(* What an integer division returns: the largest multiple not above n. *)
LEMMA DivBounds ==
    ASSUME NEW n \in Nat, NEW d \in Nat \ {0}
    PROVE  /\ n \div d \in Nat
           /\ d * (n \div d) <= n
           /\ n < d * ((n \div d) + 1)
           /\ n \div d <= n
OBVIOUS

(* The quotient is the only number with those bounds. *)
LEMMA DivUnique ==
    ASSUME NEW n \in Nat, NEW d \in Nat \ {0}, NEW q \in Nat, d * q <= n,
           n < d * (q + 1)
    PROVE  n \div d = q
OBVIOUS

(* A division by a constant is monotonic. *)
LEMMA DivMonotonic ==
    ASSUME NEW m \in Nat, NEW n \in Nat, NEW d \in Nat \ {0}, m <= n
    PROVE  m \div d <= n \div d
OBVIOUS

(* A number without a remainder is the product of its quotient and the divisor. *)
LEMMA DivMod ==
    ASSUME NEW m \in Nat \ {0}, NEW k \in Nat \ {0}, m % k = 0
    PROVE  /\ m \div k \in Nat \ {0}
           /\ m = k * (m \div k)
OBVIOUS

(* The milestone of an amount rounded to KB is that of the amount itself, as a  *)
(* milestone is a whole number of KB: the published amount tells the milestone. *)
LEMMA MilestoneOfKB ==
    ASSUME NEW n \in Nat
    PROVE  (n \div KB) \div (MilestoneBytes \div KB) = n \div MilestoneBytes
<1> DEFINE m == MilestoneBytes \div KB
           k == n \div KB
           q == k \div m
<1>1. m \in Nat \ {0} /\ MilestoneBytes = KB * m /\ KB \in Nat \ {0}
  BY DivMod, OtaAssumption
<1>2. k \in Nat /\ KB * k <= n /\ n < KB * (k + 1)
  BY DivBounds, <1>1
<1>3. q \in Nat /\ m * q <= k /\ k + 1 <= m * (q + 1)
  BY DivBounds, <1>1, <1>2
<1> HIDE DEF m, k, q
<1>4. KB * (m * q) <= KB * k
  BY <1>1, <1>2, <1>3
<1>5. KB * (k + 1) <= KB * (m * (q + 1))
  BY <1>1, <1>2, <1>3
<1>6. MilestoneBytes * q <= n
  BY <1>1, <1>2, <1>3, <1>4
<1>7. n < MilestoneBytes * (q + 1)
  BY <1>1, <1>2, <1>3, <1>5
<1>8. QED
  BY <1>3, <1>6, <1>7, DivUnique, OtaAssumption DEF m, k, q

-----------------------------------------------------------------------------
(* A restart brings every variable to a state in which the invariant holds, *)
(* whatever the state before it was.                                        *)
LEMMA ResetIsInit ==
    ASSUME Reset
    PROVE  IInv'
<1>1. switched' \in BOOLEAN /\ installed' \in BOOLEAN /\ ~switched' /\ ~installed'
  BY Zenon DEF Reset
<1>2. perform' \in [err : {"none", "ESP_OK", "ESP_FAIL"}, complete : BOOLEAN]
  BY DEF Reset, NotPerformed
<1>3. TypeOK'
  BY <1>1, <1>2, OtaAssumption, EmptySeq
     DEF Reset, TypeOK, Pointers, Steps, Publishing, Downloading
<1>4. HandleReleased' /\ OutcomeIsTrue'
  BY DEF Reset, HandleReleased, OutcomeIsTrue, Downloading
<1>5. OneOwner'
  BY OtaAssumption DEF Reset, OneOwner, InUse, Queued, Held, Range
<1>6. PointerInv'
  BY OtaAssumption DEF Reset, PointerInv
<1>7. UpdateInv' /\ ProgressInv'
  BY <1>1, OtaAssumption DEF Reset, UpdateInv, ProgressInv, Downloading
<1>8. QED
  BY <1>3, <1>4, <1>5, <1>6, <1>7 DEF IInv

(* A step that leaves the buffers, the queue and both tasks' pointers alone *)
(* disturbs no statement about who owns a buffer.                           *)
LEMMA MemoryFrame ==
    ASSUME IInv, NEW from \in Steps \ {"receive", "refresh"},
           NEW to \in Steps \ {"receive", "process", "refresh"},
           Goes(from, to), cmd_json # NULL
    PROVE  OneOwner' /\ PointerInv'
<1>1. /\ ota = from /\ ota' = to
      /\ UNCHANGED <<heap, content, ota_cmd_queue, cmd_json, leaked, mqtt, dup>>
  BY DEF Goes, clientVars
<1>2. cmd_json \in Buffers
  BY DEF IInv, TypeOK, Pointers
<1>3. InUse' = InUse /\ Queued' = Queued /\ Held' = Held
  BY <1>1 DEF InUse, Queued, Held
<1>4. OneOwner'
  BY <1>1, <1>3 DEF IInv, OneOwner
<1>5. PointerInv'
  BY <1>1, <1>2 DEF IInv, PointerInv
<1>6. QED
  BY <1>4, <1>5

(* A step that leaves the variables of an update alone disturbs no statement *)
(* about its handle, its outcome or its progress.                            *)
LEMMA UpdateFrame ==
    ASSUME IInv, UNCHANGED <<ota, updateVars, cmd_json>>,
           cmd_json \in heap => content'[cmd_json] = content[cmd_json]
    PROVE  HandleReleased' /\ OutcomeIsTrue' /\ UpdateInv' /\ ProgressInv'
<1>1. UNCHANGED <<byte_count, last_milestone_count, perform, handles, switched,
                  installed, reported, rx_kb>>
  BY DEF updateVars
<1>2. HandleReleased' /\ OutcomeIsTrue' /\ ProgressInv'
  BY <1>1, Zenon DEF IInv, HandleReleased, OutcomeIsTrue, ProgressInv
<1>3. ota \in Downloading \cup {"start", "begin", "log_fail", "fail", "done"} =>
        cmd_json \in heap
  BY DEF IInv, OneOwner, InUse, PointerInv, Downloading
<1>4. UpdateInv'
  BY <1>1, <1>3 DEF IInv, UpdateInv
<1>5. QED
  BY <1>2, <1>4

(* What a queue holds after one more pointer was sent to it. *)
LEMMA RangeAppend ==
    ASSUME NEW S, NEW q \in Seq(S), NEW x \in S
    PROVE  Range(Append(q, x)) = Range(q) \cup {x}
BY AppendProperties DEF Range

(* The client task's steps preserve the invariant: a buffer goes from the heap *)
(* to the client task, and from there to the queue or to nobody.               *)
LEMMA ClientStep ==
    ASSUME IInv, ClientTask
    PROVE  IInv'
<1>1. TypeOK
  BY DEF IInv
<1>2. ASSUME NEW command \in Commands, CommandArrives(command)
      PROVE  IInv'
  <2>1. PICK p \in Pointers :
          /\ mqtt = "idle" /\ mqtt' = "dispatch" /\ dup' = p /\ p \notin heap
          /\ p = NULL => UNCHANGED <<heap, content>>
          /\ p # NULL => heap' = heap \cup {p} /\ content' = [content EXCEPT ![p] = command]
          /\ UNCHANGED <<ota_cmd_queue, ota, cmd_json, leaked, updateVars>>
    BY <1>2, <1>1, OtaAssumption DEF CommandArrives, Pointers, TypeOK
  <2>2. TypeOK'
    <3>1. heap' \subseteq Buffers
      BY <2>1, <1>1 DEF TypeOK, Pointers
    <3>2. content' \in [Buffers -> Commands \cup {Freed}]
      BY <2>1, <1>2, <1>1 DEF TypeOK, Pointers
    <3>3. mqtt' \in {"idle", "dispatch", "log_full"} /\ dup' \in Pointers
      BY <2>1
    <3>4. QED
      BY <2>1, <3>1, <3>2, <3>3, <1>1, Zenon DEF TypeOK, Pointers, updateVars
  <2>3. UNCHANGED <<ota, updateVars, cmd_json>>
        /\ (cmd_json \in heap => content'[cmd_json] = content[cmd_json])
    BY <2>1, <1>1 DEF TypeOK
  <2>4. HandleReleased' /\ OutcomeIsTrue' /\ UpdateInv' /\ ProgressInv'
    BY <2>3, UpdateFrame
  <2>5. OneOwner'
    BY <2>1, <1>1, OtaAssumption
       DEF IInv, OneOwner, InUse, Queued, Held, TypeOK, Pointers, PointerInv
  <2>6. PointerInv'
    BY <2>1, <1>2, <1>1, OtaAssumption
       DEF IInv, PointerInv, TypeOK, Pointers, Commands, Freed
  <2>7. QED
    BY <2>2, <2>4, <2>5, <2>6 DEF IInv
<1>3. CASE QueueCommand
  <2> USE <1>3 DEF QueueCommand
  <2>1. dup \in Pointers /\ ota_cmd_queue \in Seq(Pointers) /\ UNCHANGED updateVars
    BY <1>1 DEF TypeOK
  <2>2. /\ ota_cmd_queue' \in Seq(Pointers)
        /\ Len(ota_cmd_queue') = Len(ota_cmd_queue) + 1
        /\ \A i \in 1 .. Len(ota_cmd_queue) : ota_cmd_queue'[i] = ota_cmd_queue[i]
        /\ ota_cmd_queue'[Len(ota_cmd_queue) + 1] = dup
        /\ Range(ota_cmd_queue') = Range(ota_cmd_queue) \cup {dup}
    BY <2>1, AppendProperties, RangeAppend
  <2>3. TypeOK'
    <3>1. Len(ota_cmd_queue') <= QueueLength
      BY <2>1, <2>2, OtaAssumption
    <3>2. QED
      BY <2>1, <2>2, <3>1, <1>1, Zenon DEF TypeOK, Pointers, updateVars
  <2>4. HandleReleased' /\ OutcomeIsTrue' /\ UpdateInv' /\ ProgressInv'
    BY <2>1, UpdateFrame
  <2>5. OneOwner'
    <3>1. InUse' = InUse /\ Queued' = Queued \cup Held /\ Held' = {}
      BY <2>2, OtaAssumption DEF InUse, Queued, Held
    <3>2. dup \in Range(ota_cmd_queue) => dup = NULL
      BY <2>1, OtaAssumption DEF IInv, OneOwner, Queued, Held, Pointers
    <3>3. DOMAIN ota_cmd_queue = 1 .. Len(ota_cmd_queue)
          /\ DOMAIN ota_cmd_queue' = 1 .. Len(ota_cmd_queue) + 1
      BY <2>1, <2>2
    <3>4. ASSUME NEW i \in DOMAIN ota_cmd_queue', NEW j \in DOMAIN ota_cmd_queue',
                 ota_cmd_queue'[i] = ota_cmd_queue'[j], ota_cmd_queue'[i] # NULL
          PROVE  i = j
      BY <3>2, <3>3, <3>4, <2>1, <2>2 DEF IInv, OneOwner, Range
    <3>5. QED
      BY <3>1, <3>4 DEF IInv, OneOwner
  <2>6. PointerInv'
    BY DEF IInv, PointerInv
  <2>7. QED
    BY <2>3, <2>4, <2>5, <2>6 DEF IInv
<1>4. CASE QueueFull
  <2> USE <1>4 DEF QueueFull
  <2>1. TypeOK'
    BY <1>1, Zenon DEF TypeOK, Pointers, updateVars
  <2>2. HandleReleased' /\ OutcomeIsTrue' /\ UpdateInv' /\ ProgressInv'
    BY UpdateFrame
  <2>3. OneOwner'
    BY OtaAssumption DEF IInv, OneOwner, InUse, Queued, Held
  <2>4. PointerInv'
    BY DEF IInv, PointerInv
  <2>5. QED
    BY <2>1, <2>2, <2>3, <2>4 DEF IInv
<1>5. CASE FullLogged
  <2> USE <1>5 DEF FullLogged
  <2>1. TypeOK'
    BY <1>1, Zenon DEF TypeOK, Pointers, updateVars
  <2>2. HandleReleased' /\ OutcomeIsTrue' /\ UpdateInv' /\ ProgressInv'
    BY UpdateFrame
  <2>3. OneOwner' /\ PointerInv'
    BY DEF IInv, OneOwner, InUse, Queued, Held, PointerInv
  <2>4. QED
    BY <2>1, <2>2, <2>3 DEF IInv
<1>6. QED
  BY <1>2, <1>3, <1>4, <1>5 DEF ClientTask

-----------------------------------------------------------------------------
(* A step that does nothing but move ota_task keeps every type. *)
LEMMA PlaceStep ==
    ASSUME IInv, NEW from \in Steps, NEW to \in Steps, Goes(from, to),
           UNCHANGED updateVars
    PROVE  TypeOK'
<1>1. UNCHANGED <<heap, content, ota_cmd_queue, cmd_json, leaked, mqtt, dup, byte_count,
                  last_milestone_count, perform, handles, switched, installed,
                  reported, rx_kb>>
      /\ ota' = to
  BY DEF Goes, clientVars, updateVars
<1>2. QED
  BY <1>1, Zenon DEF IInv, TypeOK

(* The steps that only decide where ota_task goes next: they touch no buffer. *)
LEMMA CommandStep ==
    ASSUME IInv, Refuse \/ ProcessUpdate \/ ProcessValidate \/ ProcessRollback \/ LogError
                 \/ CheckDownload \/ LogFail
    PROVE  IInv'
<1>1. TypeOK
  BY DEF IInv
<1>2. CASE Reset
  BY <1>2, ResetIsInit
<1>3. ASSUME NEW from \in Steps \ {"receive", "refresh"},
             NEW to \in Steps \ {"receive", "process", "refresh"},
             Goes(from, to), UNCHANGED updateVars, cmd_json # NULL,
             from \in Downloading <=> to \in Downloading,
             to \in {"log", "start", "fail", "free", "finish", "abort"},
             from \in {"process", "log", "check", "log_fail"},
             to \in {"start", "finish", "abort",
             "fail"} => content[cmd_json] = "update",
             to \in {"start", "log"} => from = "process",
             to = "free" => from \in {"process", "log"},
             to = "finish" => perform = [err |-> "ESP_OK", complete |-> TRUE]
      PROVE  IInv'
  <2>1. OneOwner' /\ PointerInv' /\ TypeOK'
    BY <1>3, MemoryFrame, PlaceStep
  <2>2. /\ UNCHANGED <<byte_count, last_milestone_count, perform, handles, switched,
                       installed, reported, rx_kb, content, cmd_json>>
        /\ ota = from /\ ota' = to
    BY <1>3 DEF Goes, updateVars
  <2>3. HandleReleased' /\ OutcomeIsTrue'
    BY <1>3, <2>2 DEF IInv, HandleReleased, OutcomeIsTrue
  <2>4. UpdateInv'
    BY <1>3, <2>2 DEF IInv, UpdateInv, Downloading
  <2>5. ProgressInv'
    BY <1>3, <2>2 DEF IInv, ProgressInv, Downloading
  <2>6. QED
    BY <2>1, <2>3, <2>4, <2>5 DEF IInv
<1>4. CASE Refuse
  BY <1>3, <1>4 DEF Refuse, Steps, Publishing, Downloading
<1>5. CASE ProcessUpdate
  BY <1>3, <1>5 DEF ProcessUpdate, Steps, Publishing, Downloading
<1>6. CASE ProcessValidate
  BY <1>3, <1>6 DEF ProcessValidate, Steps, Publishing, Downloading
<1>7. CASE ProcessRollback
  BY <1>2, <1>3, <1>7 DEF ProcessRollback, Steps, Publishing, Downloading
<1>8. cmd_json # NULL \/ ota \in {"receive", "process", "refresh"}
  BY OtaAssumption DEF IInv, PointerInv
<1>9. CASE LogError
  BY <1>3, <1>8, <1>9 DEF LogError, Goes, Steps, Publishing, Downloading
<1>10. CASE LogFail
  <2>1. content[cmd_json] = "update"
    BY <1>10 DEF LogFail, Goes, IInv, UpdateInv
  <2>2. QED
    BY <1>3, <1>8, <1>10, <2>1 DEF LogFail, Goes, Steps, Publishing, Downloading
<1>11. CASE CheckDownload
  <2>1. content[cmd_json] = "update" /\ cmd_json # NULL
    BY <1>8, <1>11 DEF CheckDownload, Goes, IInv, UpdateInv, Downloading
  <2>2. CASE Goes("check", "abort")
    BY <1>3, <1>11, <2>1, <2>2 DEF CheckDownload, Steps, Publishing, Downloading
  <2>3. CASE Goes("check", "finish") /\ perform.complete /\ perform.err = "ESP_OK"
    <3>1. perform = [err |-> "ESP_OK", complete |-> TRUE]
      BY <1>1, <2>3 DEF TypeOK
    <3>2. QED
      BY <1>3, <1>11, <2>1, <2>3, <3>1 DEF CheckDownload, Steps, Publishing, Downloading
  <2>4. QED
    BY <1>11, <2>2, <2>3 DEF CheckDownload
<1>12. QED
  BY <1>4, <1>5, <1>6, <1>7, <1>9, <1>10, <1>11

(* The steps that move or free the buffer of ota_task. *)
LEMMA QueueStep ==
    ASSUME IInv, Receive \/ Free \/ Refresh
    PROVE  IInv'
<1>1. TypeOK
  BY DEF IInv
<1>2. CASE Receive
  <2> USE <1>2 DEF Receive
  <2>1. /\ ota = "receive" /\ ota' = "process" /\ cmd_json = NULL
        /\ UNCHANGED <<heap, content, leaked, mqtt, dup, byte_count,
                       last_milestone_count, perform,
                       handles, switched, installed, reported, rx_kb>>
    BY DEF clientVars, updateVars, IInv, PointerInv
  <2>2. ota_cmd_queue \in Seq(Pointers) /\ ota_cmd_queue # <<>>
    BY <1>1 DEF TypeOK
  <2>3. /\ ota_cmd_queue' \in Seq(Pointers)
        /\ Len(ota_cmd_queue') = Len(ota_cmd_queue) - 1
        /\ Len(ota_cmd_queue) \in Nat \ {0}
        /\ \A i \in 1 .. Len(ota_cmd_queue') : ota_cmd_queue'[i] = ota_cmd_queue[i + 1]
        /\ cmd_json' = ota_cmd_queue[1] /\ cmd_json' \in Pointers
    BY <2>2, HeadTailProperties
  <2>4. DOMAIN ota_cmd_queue = 1 .. Len(ota_cmd_queue)
        /\ DOMAIN ota_cmd_queue' = 1 .. Len(ota_cmd_queue) - 1
    BY <2>2, <2>3
  <2>5. Range(ota_cmd_queue) = Range(ota_cmd_queue') \cup {cmd_json'}
    <3>1. ASSUME NEW i \in DOMAIN ota_cmd_queue
          PROVE  i = 1 \/ i - 1 \in DOMAIN ota_cmd_queue'
      BY <2>3, <2>4
    <3>2. QED
      BY <2>3, <2>4, <3>1 DEF Range
  <2>6. cmd_json' \in Range(ota_cmd_queue') => cmd_json' = NULL
    BY <2>3, <2>4 DEF IInv, OneOwner, Range
  <2>7. TypeOK'
    <3>1. Len(ota_cmd_queue') <= QueueLength
      BY <2>3, <1>1, OtaAssumption DEF TypeOK
    <3>2. ota' \in Steps
      BY <2>1 DEF Steps
    <3>3. QED
      BY <2>1, <2>3, <3>1, <3>2, <1>1, Zenon DEF TypeOK
  <2>8. HandleReleased' /\ OutcomeIsTrue'
    BY <2>1 DEF IInv, HandleReleased, OutcomeIsTrue, Downloading
  <2>9. UpdateInv' /\ ProgressInv'
    BY <2>1 DEF IInv, UpdateInv, ProgressInv, Downloading
  <2>10. OneOwner'
    <3>1. InUse = {} /\ InUse' = {cmd_json'} \cap Buffers /\ Held' = Held
          /\ Queued = Queued' \cup InUse'
      BY <2>1, <2>5 DEF InUse, Held, Queued
    <3>2. InUse' \cap Queued' = {}
      BY <2>6, <3>1, OtaAssumption DEF Queued
    <3>3. ASSUME NEW i \in DOMAIN ota_cmd_queue', NEW j \in DOMAIN ota_cmd_queue',
                 ota_cmd_queue'[i] = ota_cmd_queue'[j], ota_cmd_queue'[i] # NULL
          PROVE  i = j
      <4>1. i \in Nat /\ j \in Nat /\ i + 1 \in DOMAIN ota_cmd_queue /\ j + 1 \in DOMAIN ota_cmd_queue
        BY <2>3, <2>4
      <4>2. i + 1 = j + 1
        BY <2>3, <2>4, <3>3, <4>1 DEF IInv, OneOwner
      <4>3. QED
        BY <4>1, <4>2
    <3>4. QED
      BY <2>1, <3>1, <3>2, <3>3 DEF IInv, OneOwner
  <2>11. PointerInv'
    BY <2>1, <2>3 DEF IInv, PointerInv
  <2>12. QED
    BY <2>7, <2>8, <2>9, <2>10, <2>11 DEF IInv
<1>3. CASE Free
  <2> USE <1>3 DEF Free
  <2>1. /\ ota = "free" /\ ota' = "refresh" /\ cmd_json \in Buffers
        /\ UNCHANGED <<ota_cmd_queue, cmd_json, leaked, mqtt, dup, byte_count,
                       last_milestone_count, perform, handles, switched>>
        /\ reported' = {} /\ rx_kb' = -1
    BY DEF clientVars, IInv, PointerInv
  <2>2. ~installed' /\ installed' \in BOOLEAN
    BY Zenon DEF Free
  <2>3. TypeOK'
    <3>1. heap' \subseteq Buffers /\ content' \in [Buffers -> Commands \cup {Freed}]
      BY <1>1 DEF TypeOK
    <3>2. ota' \in Steps /\ rx_kb' \in -1 .. PartitionBytes
      BY <2>1, OtaAssumption DEF Steps, Publishing
    <3>3. reported' \subseteq {"start", "in_progress", "done", "fail"}
      BY <2>1
    <3>4. QED
      BY <2>1, <2>2, <3>1, <3>2, <3>3, <1>1, Zenon DEF TypeOK
  <2>4. HandleReleased' /\ OutcomeIsTrue' /\ UpdateInv'
    BY <2>1, <2>2 DEF IInv, HandleReleased, OutcomeIsTrue, UpdateInv, Downloading
  <2>5. ProgressInv'
    BY <2>1, OtaAssumption DEF IInv, ProgressInv, Downloading
  <2>6. OneOwner'
    BY <2>1 DEF IInv, OneOwner, InUse, Queued, Held
  <2>7. PointerInv'
    BY <2>1, <1>1 DEF IInv, PointerInv, TypeOK, Commands, Freed
  <2>8. QED
    BY <2>3, <2>4, <2>5, <2>6, <2>7 DEF IInv
<1>4. CASE Refresh
  <2> USE <1>4 DEF Refresh
  <2>1. /\ ota = "refresh" /\ ota' = "receive" /\ cmd_json' = NULL
        /\ UNCHANGED <<heap, content, ota_cmd_queue, leaked, mqtt, dup, byte_count,
                       last_milestone_count, perform, handles, switched, installed,
                       reported, rx_kb>>
    BY DEF clientVars, updateVars
  <2>2. TypeOK'
    BY <2>1, <1>1, Zenon DEF TypeOK, Steps, Pointers
  <2>3. HandleReleased' /\ OutcomeIsTrue' /\ UpdateInv' /\ ProgressInv'
    BY <2>1 DEF IInv, HandleReleased, OutcomeIsTrue, UpdateInv, ProgressInv, Downloading
  <2>4. OneOwner' /\ PointerInv'
    BY <2>1 DEF IInv, OneOwner, InUse, Queued, Held, PointerInv
  <2>5. QED
    BY <2>2, <2>3, <2>4 DEF IInv
<1>5. QED
  BY <1>2, <1>3, <1>4

-----------------------------------------------------------------------------
(* The steps of perform_update: one case for each, as each establishes what the *)
(* next one relies on.                                                          *)
LEMMA UpdateStep ==
    ASSUME IInv, PublishStart \/ Begin \/ PerformReads \/ PerformEnds \/ PublishProgress
                 \/ Finish \/ Abort \/ PublishDone \/ PublishFail
    PROVE  IInv'
<1>1. TypeOK
  BY DEF IInv
<1>2. /\ cmd_json # NULL \/ ota \in {"receive", "process", "refresh"}
      /\ ota \in Downloading \cup {"start", "begin", "log_fail", "fail", "done"} =>
            content[cmd_json] = "update"
  BY OtaAssumption DEF IInv, PointerInv, UpdateInv
<1>3. ASSUME NEW from \in Downloading \cup {"start", "begin", "fail", "done"},
             NEW to \in Downloading \cup {"begin", "log_fail", "done", "free"},
             Goes(from, to)
      PROVE  /\ OneOwner' /\ PointerInv'
             /\ ota = from /\ ota' = to /\ cmd_json' = cmd_json /\ content' = content
             /\ content[cmd_json] = "update"
             /\ heap' \subseteq Buffers
             /\ content' \in [Buffers -> Commands \cup {Freed}]
             /\ ota_cmd_queue' \in Seq(Pointers) /\ Len(ota_cmd_queue') <= QueueLength
             /\ mqtt' \in {"idle", "dispatch", "log_full"}
             /\ dup' \in Pointers
             /\ ota' \in Steps
             /\ cmd_json' \in Pointers
             /\ leaked' \subseteq Buffers
  <2>1. /\ from \in Steps \ {"receive", "refresh", "process"}
        /\ to \in Steps \ {"receive", "refresh", "process"}
    BY DEF Steps, Publishing, Downloading
  <2>2. ota = from /\ ota' = to
        /\ UNCHANGED <<heap, content, ota_cmd_queue, cmd_json, leaked, mqtt, dup>>
    BY <1>3 DEF Goes, clientVars
  <2>3. cmd_json # NULL
    BY <1>2, <2>1, <2>2
  <2>4. OneOwner' /\ PointerInv'
    BY <1>3, <2>1, <2>3, MemoryFrame
  <2>5. ota' \in Steps
    BY <2>1, <2>2
  <2>6. QED
    BY <1>2, <1>1, <2>2, <2>4, <2>5 DEF TypeOK
<1>4. CASE PublishStart
  <2> USE <1>4 DEF PublishStart
  <2>1. Goes("start", "begin")
    OBVIOUS
  <2>2. UNCHANGED <<byte_count, last_milestone_count, perform, handles, switched,
                    installed, rx_kb>>
        /\ reported' \in {reported, reported \cup {"start"}}
    BY DEF Publishes
  <2>3. reported' \subseteq {"start", "in_progress", "done", "fail"}
        /\ reported' \cap {"done", "fail"} = reported \cap {"done", "fail"}
    BY <2>2, <1>1 DEF TypeOK
  <2>4. TypeOK'
    BY <1>3, <1>1, <2>1, <2>2, <2>3 DEF TypeOK
  <2>5. HandleReleased' /\ OutcomeIsTrue' /\ UpdateInv' /\ ProgressInv'
    BY <1>3, <2>1, <2>2, <2>3
       DEF IInv, HandleReleased, OutcomeIsTrue, UpdateInv, ProgressInv, Downloading
  <2>6. QED
    BY <1>3, <2>1, <2>4, <2>5 DEF IInv
<1>5. CASE Begin
  <2>1. UNCHANGED <<byte_count, last_milestone_count, perform, switched, installed,
                    reported, rx_kb>>
    BY <1>5 DEF Begin
  <2>2. \/ Goes("begin", "perform") /\ handles' = handles + 1
        \/ Goes("begin", "log_fail") /\ handles' = handles
    BY <1>5 DEF Begin
  <2>3. PICK to \in {"perform", "log_fail"} :
           Goes("begin", to) /\ handles' = IF to = "perform" THEN handles + 1 ELSE handles
    BY <2>2
  <2>4. ota = "begin" /\ ota' = to
    BY <2>3 DEF Goes
  <2>5. HandleReleased' /\ handles' \in {0, 1}
    BY <2>3, <2>4 DEF IInv, HandleReleased, Downloading
  <2>6. TypeOK'
    BY <1>3, <1>1, <2>1, <2>3, <2>5 DEF TypeOK, Downloading
  <2>7. OutcomeIsTrue' /\ UpdateInv' /\ ProgressInv'
    BY <1>3, <2>1, <2>3, <2>4
       DEF IInv, OutcomeIsTrue, UpdateInv, ProgressInv, Downloading
  <2>8. QED
    BY <1>3, <2>3, <2>5, <2>6, <2>7 DEF IInv, Downloading
<1>6. CASE PerformReads
  <2>1. Goes("perform", "progress")
        /\ UNCHANGED <<last_milestone_count, perform, handles, switched, installed,
                       reported, rx_kb>>
    BY <1>6 DEF PerformReads
  <2>2. byte_count' \in 0 .. PartitionBytes /\ byte_count' >= byte_count /\ byte_count \in Nat
    BY <1>6, <1>1, OtaAssumption DEF PerformReads, TypeOK
  <2>3. TypeOK'
    BY <1>3, <1>1, <2>1, <2>2 DEF TypeOK, Downloading
  <2>4. HandleReleased' /\ OutcomeIsTrue' /\ UpdateInv'
    BY <1>3, <2>1 DEF IInv, HandleReleased, OutcomeIsTrue, UpdateInv, Downloading
  <2>5. ProgressInv'
    <3>1. /\ ota = "perform" /\ ota' = "progress"
          /\ last_milestone_count * MilestoneBytes <= byte_count /\ rx_kb * KB <= byte_count
          /\ rx_kb >= 0 => rx_kb \div (MilestoneBytes \div KB) <= last_milestone_count
      BY <2>1 DEF IInv, ProgressInv, Goes
    <3>2. last_milestone_count * MilestoneBytes \in Int /\ rx_kb * KB \in Int
      BY <1>1, OtaAssumption DEF TypeOK
    <3>3. QED
      BY <2>1, <2>2, <3>1, <3>2 DEF ProgressInv, Downloading
  <2>6. QED
    BY <1>3, <2>1, <2>3, <2>4, <2>5 DEF IInv, Downloading
<1>7. CASE PerformEnds
  <2>1. Goes("perform", "check")
        /\ UNCHANGED <<byte_count, last_milestone_count, handles, switched, installed,
                       reported, rx_kb>>
    BY <1>7 DEF PerformEnds
  <2>2. perform' \in [err : {"none", "ESP_OK", "ESP_FAIL"}, complete : BOOLEAN]
    BY <1>7 DEF PerformEnds
  <2>3. TypeOK'
    BY <1>3, <1>1, <2>1, <2>2 DEF TypeOK, Downloading
  <2>4. HandleReleased' /\ OutcomeIsTrue' /\ UpdateInv' /\ ProgressInv'
    BY <1>3, <2>1
       DEF IInv, HandleReleased, OutcomeIsTrue, UpdateInv, ProgressInv, Downloading
  <2>5. QED
    BY <1>3, <2>1, <2>3, <2>4 DEF IInv, Downloading
<1>8. CASE PublishProgress
  <2>1. Goes("progress", "perform")
        /\ UNCHANGED <<byte_count, perform, handles, switched, installed>>
    BY <1>8 DEF PublishProgress
  <2>2. /\ milestone_count \in 0 .. PartitionBytes
        /\ milestone_count * MilestoneBytes <= byte_count
        /\ byte_count \div KB \in 0 .. PartitionBytes
        /\ (byte_count \div KB) * KB <= byte_count
        /\ (byte_count \div KB) \div (MilestoneBytes \div KB) = milestone_count
    <3>1. byte_count \in Nat /\ byte_count <= PartitionBytes
      BY <1>1, OtaAssumption DEF TypeOK
    <3>2. /\ milestone_count \in Nat /\ milestone_count <= byte_count
          /\ MilestoneBytes * milestone_count <= byte_count
      BY <3>1, DivBounds, OtaAssumption DEF milestone_count
    <3>3. /\ byte_count \div KB \in Nat /\ byte_count \div KB <= byte_count
          /\ KB * (byte_count \div KB) <= byte_count
      BY <3>1, DivBounds, OtaAssumption
    <3>4. (byte_count \div KB) \div (MilestoneBytes \div KB) = milestone_count
      BY <3>1, MilestoneOfKB DEF milestone_count
    <3>5. QED
      BY <3>1, <3>2, <3>3, <3>4, OtaAssumption
  <2>3. /\ \/ UNCHANGED last_milestone_count
           \/ last_milestone_count' = milestone_count /\ milestone_count > last_milestone_count
        /\ \/ UNCHANGED <<reported, rx_kb>>
           \/ /\ reported' = reported \cup {"in_progress"} /\ rx_kb' = byte_count \div KB
              /\ last_milestone_count' = milestone_count
    BY <1>8 DEF PublishProgress
  <2>4. TypeOK'
    <3>1. last_milestone_count' \in -1 .. PartitionBytes /\ rx_kb' \in -1 .. PartitionBytes
      BY <1>1, <2>2, <2>3 DEF TypeOK
    <3>2. reported' \subseteq {"start", "in_progress", "done", "fail"}
      BY <1>1, <2>3 DEF TypeOK
    <3>3. QED
      BY <1>3, <1>1, <2>1, <3>1, <3>2 DEF TypeOK, Downloading
  <2>5. HandleReleased' /\ OutcomeIsTrue' /\ UpdateInv'
    BY <1>3, <2>1, <2>3 DEF IInv, HandleReleased, OutcomeIsTrue, UpdateInv, Downloading
  <2>6. ProgressInv'
    <3>1. /\ ota = "progress" /\ ota' = "perform"
          /\ last_milestone_count * MilestoneBytes <= byte_count /\ rx_kb * KB <= byte_count
          /\ rx_kb >= 0 => rx_kb \div (MilestoneBytes \div KB) <= last_milestone_count
      BY <2>1 DEF IInv, ProgressInv, Goes
    <3>2. last_milestone_count' * MilestoneBytes <= byte_count' /\ rx_kb' * KB <= byte_count'
      BY <2>1, <2>2, <2>3, <3>1
    <3>3. last_milestone_count' >= last_milestone_count
      BY <1>1, <2>2, <2>3 DEF TypeOK
    <3>4. ASSUME rx_kb' >= 0
          PROVE  rx_kb' \div (MilestoneBytes \div KB) <= last_milestone_count'
      <4>1. CASE rx_kb' = rx_kb
        <5>1. rx_kb \in Nat /\ MilestoneBytes \div KB \in Nat \ {0}
          BY <1>1, <3>4, <4>1, DivMod, OtaAssumption DEF TypeOK
        <5>2. rx_kb \div (MilestoneBytes \div KB) \in Nat
          BY <5>1, DivBounds
        <5>3. QED
          BY <1>1, <2>2, <2>3, <3>1, <3>3, <3>4, <4>1, <5>2 DEF TypeOK
      <4>2. CASE rx_kb' = byte_count \div KB /\ last_milestone_count' = milestone_count
        BY <2>2, <4>2
      <4>3. QED
        BY <2>3, <4>1, <4>2
    <3>5. QED
      BY <3>1, <3>2, <3>4 DEF ProgressInv, Downloading
  <2>7. QED
    BY <1>3, <2>1, <2>4, <2>5, <2>6 DEF IInv, Downloading
<1>9. CASE Finish
  <2>1. UNCHANGED <<byte_count, last_milestone_count, perform, reported, rx_kb>>
        /\ handles' = handles - 1
    BY <1>9 DEF Finish
  <2>2. \/ Goes("finish", "done") /\ switched' /\ installed'
           /\ switched' \in BOOLEAN /\ installed' \in BOOLEAN
        \/ Goes("finish", "log_fail") /\ UNCHANGED <<switched, installed>>
    BY <1>9, Zenon DEF Finish
  <2>3. PICK to \in {"done", "log_fail"} :
           /\ Goes("finish", to)
           /\ to = "done" => switched' /\ installed' /\ switched' \in BOOLEAN /\ installed' \in BOOLEAN
           /\ to = "log_fail" => UNCHANGED <<switched, installed>>
    BY <2>2
  <2>4. ota = "finish" /\ ota' = to
    BY <2>3 DEF Goes
  <2>5. HandleReleased' /\ handles' \in {0, 1}
    BY <2>1, <2>4 DEF IInv, HandleReleased, Downloading
  <2>6. switched' \in BOOLEAN /\ installed' \in BOOLEAN
    BY <1>1, <2>3 DEF TypeOK
  <2>7. TypeOK'
    BY <1>3, <1>1, <2>1, <2>3, <2>5, <2>6 DEF TypeOK, Downloading
  <2>8. OutcomeIsTrue' /\ UpdateInv' /\ ProgressInv'
    BY <1>3, <2>1, <2>3, <2>4
       DEF IInv, OutcomeIsTrue, UpdateInv, ProgressInv, Downloading
  <2>9. QED
    BY <1>3, <2>3, <2>5, <2>7, <2>8 DEF IInv, Downloading
<1>10. CASE Abort
  <2>1. Goes("abort", "log_fail") /\ handles' = handles - 1
        /\ UNCHANGED <<byte_count, last_milestone_count, perform, switched, installed,
                       reported, rx_kb>>
    BY <1>10 DEF Abort
  <2>2. HandleReleased' /\ handles' \in {0, 1}
    BY <1>3, <2>1 DEF IInv, HandleReleased, Downloading
  <2>3. TypeOK'
    BY <1>3, <1>1, <2>1, <2>2 DEF TypeOK, Downloading
  <2>4. OutcomeIsTrue' /\ UpdateInv' /\ ProgressInv'
    BY <1>3, <2>1 DEF IInv, OutcomeIsTrue, UpdateInv, ProgressInv, Downloading
  <2>5. QED
    BY <1>3, <2>1, <2>2, <2>3, <2>4 DEF IInv, Downloading
<1>11. ASSUME NEW state \in {"done", "fail"}, PublishOutcome(state)
      PROVE  IInv'
  <2>1. Goes(state, "free") /\ byte_count' = 0 /\ last_milestone_count' = -1 /\ perform' = NotPerformed
        /\ UNCHANGED <<handles, switched, installed, rx_kb>>
        /\ reported' \in {reported, reported \cup {state}}
    BY <1>11 DEF PublishOutcome, Publishes
  <2>2. ota = state /\ ota' = "free"
    BY <2>1 DEF Goes
  <2>3. TypeOK'
    <3>1. perform' \in [err : {"none", "ESP_OK", "ESP_FAIL"}, complete : BOOLEAN]
      BY <2>1 DEF NotPerformed
    <3>2. byte_count' \in 0 .. PartitionBytes /\ last_milestone_count' \in -1 .. PartitionBytes
      BY <2>1, OtaAssumption
    <3>3. reported' \subseteq {"start", "in_progress", "done", "fail"}
      BY <1>1, <2>1 DEF TypeOK
    <3>4. QED
      BY <1>3, <1>1, <2>1, <3>1, <3>2, <3>3 DEF TypeOK
  <2>4. HandleReleased' /\ UpdateInv'
    BY <1>3, <2>1, <2>2 DEF IInv, HandleReleased, UpdateInv, Downloading
  <2>5. OutcomeIsTrue'
    BY <2>1, <2>2 DEF IInv, OutcomeIsTrue, UpdateInv
  <2>6. ProgressInv'
    BY <2>1, <2>2, OtaAssumption DEF ProgressInv, Downloading
  <2>7. QED
    BY <1>3, <2>1, <2>3, <2>4, <2>5, <2>6 DEF IInv
<1>12. QED
  BY <1>4, <1>5, <1>6, <1>7, <1>8, <1>9, <1>10, <1>11 DEF PublishDone, PublishFail

-----------------------------------------------------------------------------
(* The invariant holds when the device is first switched on. *)
LEMMA InitInv == Init => IInv
<1> SUFFICES ASSUME Init PROVE IInv
  OBVIOUS
<1>1. switched \in BOOLEAN /\ installed \in BOOLEAN /\ ~switched /\ ~installed
  BY Zenon DEF Init
<1>2. perform \in [err : {"none", "ESP_OK", "ESP_FAIL"}, complete : BOOLEAN]
  BY DEF Init, NotPerformed
<1>3. TypeOK
  BY <1>1, <1>2, OtaAssumption, EmptySeq
     DEF Init, TypeOK, Pointers, Steps, Publishing, Downloading
<1>4. HandleReleased /\ OutcomeIsTrue
  BY DEF Init, HandleReleased, OutcomeIsTrue, Downloading
<1>5. OneOwner
  BY OtaAssumption DEF Init, OneOwner, InUse, Queued, Held, Range
<1>6. PointerInv
  BY OtaAssumption DEF Init, PointerInv
<1>7. UpdateInv /\ ProgressInv
  BY <1>1, OtaAssumption DEF Init, UpdateInv, ProgressInv, Downloading
<1>8. QED
  BY <1>3, <1>4, <1>5, <1>6, <1>7 DEF IInv

(* Every step preserves the invariant. *)
LEMMA NextInv == IInv /\ [Next]_vars => IInv'
<1> SUFFICES ASSUME IInv, [Next]_vars PROVE IInv'
  OBVIOUS
<1>1. CASE ReadNull \/ PublishFails \/ Restart
  BY <1>1, ResetIsInit DEF ReadNull, PublishFails, Restart
<1>2. CASE UNCHANGED vars
  <2>1. UNCHANGED <<heap, content, ota_cmd_queue, mqtt, dup, ota, cmd_json, byte_count,
                    last_milestone_count, perform, handles, switched, leaked, installed,
                    reported, rx_kb>>
    BY <1>2 DEF vars
  <2>2. HandleReleased' /\ OutcomeIsTrue' /\ UpdateInv' /\ ProgressInv'
    BY <2>1, UpdateFrame DEF updateVars
  <2>3. TypeOK' /\ PointerInv'
    BY <2>1, Zenon DEF IInv, TypeOK, PointerInv
  <2>4. InUse' = InUse /\ Queued' = Queued /\ Held' = Held
    BY <2>1 DEF InUse, Queued, Held
  <2>5. OneOwner'
    BY <2>1, <2>4, Zenon DEF IInv, OneOwner
  <2>6. QED
    BY <2>2, <2>3, <2>5 DEF IInv
<1>3. QED
  BY <1>1, <1>2, ClientStep, CommandStep, QueueStep, UpdateStep DEF Next, OtaTask

(* Every state the OTA component reaches satisfies the inductive invariant. *)
THEOREM Inductive == Spec => []IInv
BY InitInv, NextInv, PTL DEF Spec

(* Every variable keeps its type, in every run of the component. *)
THEOREM TypeCorrect == Spec => []TypeOK
<1>1. IInv => TypeOK
  BY DEF IInv
<1>2. QED
  BY <1>1, Inductive, PTL

(* Every update gives its OTA handle back, exactly once, whatever fails in it. *)
THEOREM HandlesBalance == Spec => []HandleReleased
<1>1. IInv => HandleReleased
  BY DEF IInv
<1>2. QED
  BY <1>1, Inductive, PTL

(* No buffer is freed early or twice, and none is lost but to a full queue. *)
THEOREM BuffersOwned == Spec => []OneOwner
<1>1. IInv => OneOwner
  BY DEF IInv
<1>2. QED
  BY <1>1, Inductive, PTL

(* The outcome an update reports is what it did to the boot partition. *)
THEOREM ReportsTrue == Spec => []OutcomeIsTrue
<1>1. IInv => OutcomeIsTrue
  BY DEF IInv
<1>2. QED
  BY <1>1, Inductive, PTL

-----------------------------------------------------------------------------
(* Every other step leaves what is installed and published alone. *)
LEMMA OtherStepsKeepUpdate ==
    ASSUME ClientTask \/ Receive \/ Refuse \/ ProcessUpdate \/ ProcessValidate
           \/ (ProcessRollback /\ ~Reset) \/ LogError \/ Refresh \/ PublishStart \/ Begin
           \/ PerformReads \/ PerformEnds \/ CheckDownload \/ Abort \/ LogFail
           \/ PublishDone \/ PublishFail \/ UNCHANGED vars
    PROVE  UNCHANGED <<switched, installed, rx_kb>>
BY DEF ClientTask, CommandArrives, QueueCommand, QueueFull, FullLogged, Receive, Refuse,
       ProcessUpdate, ProcessValidate, ProcessRollback, LogError, Refresh,
       PublishStart, Begin,
       PerformReads, PerformEnds, CheckDownload, Abort, LogFail, PublishDone,
       PublishFail,
       PublishOutcome, updateVars, vars

(* The steps that touch what is installed or published at all *)
LEMMA StepsOnUpdate ==
    ASSUME [Next]_vars
    PROVE  UNCHANGED <<switched, installed, rx_kb>> \/ Reset \/ Free \/ Finish \/ PublishProgress
BY OtherStepsKeepUpdate DEF Next, OtaTask, ReadNull, PublishFails, Restart

(* For every image and every way a download may go: the boot partition is *)
(* switched only to an image that was received and written completely.    *)
THEOREM InstallsWhole == Spec => InstallsWholeImage
<1> DEFINE Installs == (switched' /\ ~switched) \/ (installed' /\ ~installed)
<1>1. ASSUME IInv, [Next]_vars, Installs
      PROVE  perform = [err |-> "ESP_OK", complete |-> TRUE]
  <2>1. ~Reset
    BY <1>1, Zenon DEF Reset
  <2>2. ~Free /\ ~PublishProgress
    BY <1>1 DEF Free, PublishProgress
  <2>3. Finish
    BY <1>1, <2>1, <2>2, StepsOnUpdate
  <2>4. ota = "finish"
    BY <2>3 DEF Finish, Goes
  <2>5. QED
    BY <1>1, <2>4 DEF IInv, UpdateInv
<1>2. IInv /\ [Next]_vars =>
        [Installs => perform = [err |-> "ESP_OK", complete |-> TRUE]]_vars
  BY <1>1
<1>3. QED
  BY <1>2, Inductive, PTL DEF Spec, InstallsWholeImage

(* For every milestone, KB and image size: the published amount only grows, *)
(* and by at least a milestone's border with every message.                 *)
THEOREM ProgressIsMonotonic == Spec => ProgressGrows
<1> DEFINE m == MilestoneBytes \div KB
           Grows == /\ rx_kb' > rx_kb
                    /\ rx_kb >= 0 => rx_kb' \div m > rx_kb \div m
<1>1. ASSUME IInv, [Next]_vars, rx_kb' # rx_kb, rx_kb' # -1
      PROVE  Grows
  <2>1. ~Reset /\ ~Free /\ ~Finish
    BY <1>1 DEF Reset, Free, Finish
  <2>2. PublishProgress
    BY <1>1, <2>1, StepsOnUpdate
  <2>3. /\ rx_kb' = byte_count \div KB
        /\ milestone_count > last_milestone_count
        /\ ota = "progress"
    BY <1>1, <2>2 DEF PublishProgress, Goes
  <2>4. rx_kb \in Nat \cup {-1} /\ byte_count \in Nat /\ last_milestone_count \in Int
    BY <1>1 DEF IInv, TypeOK
  <2>5. m \in Nat \ {0} /\ rx_kb' \in Nat /\ rx_kb' \div m = milestone_count
        /\ milestone_count \in Nat
    BY <2>3, <2>4, DivMod, DivBounds, MilestoneOfKB, OtaAssumption DEF milestone_count
  <2>6. CASE rx_kb = -1
    BY <2>5, <2>6
  <2>7. CASE rx_kb \in Nat
    <3>1. rx_kb \div m \in Nat /\ rx_kb \div m <= last_milestone_count
      BY <1>1, <2>3, <2>5, <2>7, DivBounds DEF IInv, ProgressInv
    <3>2. rx_kb' \div m > rx_kb \div m
      BY <2>3, <2>4, <2>5, <3>1
    <3>3. rx_kb' > rx_kb
      BY <2>5, <2>7, <3>1, <3>2, DivMonotonic
    <3>4. QED
      BY <3>2, <3>3
  <2>8. QED
    BY <2>4, <2>6, <2>7
<1>2. IInv /\ [Next]_vars => [rx_kb' # rx_kb /\ rx_kb' # -1 => Grows]_vars
  BY <1>1
<1>3. QED
  BY <1>2, Inductive, PTL DEF Spec, ProgressGrows

-----------------------------------------------------------------------------
(* What Ota puts in place of the variables of the service *)
pendingBar == [i \in DOMAIN ota_cmd_queue |-> CommandAt(ota_cmd_queue[i])]

currentBar == IF ota \in {"receive", "refresh"} THEN <<>> ELSE <<CommandAt(cmd_json)>>

serviceBar == <<pendingBar, currentBar, switched>>

(* Each step of the service, stated of the values it is mapped to. *)
LEMMA AcceptStep ==
    ASSUME NEW c \in Commands \cup {"lost"}, Len(pendingBar) < QueueLength,
           pendingBar' = Append(pendingBar, c), UNCHANGED <<currentBar, switched>>
    PROVE  Service!Next
BY Zenon DEF Service!Next, Service!Accept, pendingBar, currentBar

LEMMA TakeStep ==
    ASSUME currentBar = <<>>, pendingBar # <<>>, currentBar' = <<Head(pendingBar)>>,
           pendingBar' = Tail(pendingBar), UNCHANGED switched
    PROVE  Service!Next
BY Zenon DEF Service!Next, Service!Take, pendingBar, currentBar

LEMMA InstallStep ==
    ASSUME currentBar = <<"update">>, switched' = TRUE, UNCHANGED <<pendingBar,
           currentBar>>
    PROVE  Service!Next
BY Zenon DEF Service!Next, Service!Install, pendingBar, currentBar

LEMMA FinishStep ==
    ASSUME currentBar # <<>>, currentBar' = <<>>, UNCHANGED <<pendingBar, switched>>
    PROVE  Service!Next
BY Zenon DEF Service!Next, Service!Finish, pendingBar, currentBar

LEMMA RestartStep ==
    ASSUME pendingBar' = <<>>, currentBar' = <<>>, switched' = FALSE
    PROVE  Service!Next
BY Zenon DEF Service!Next, Service!Restart, pendingBar, currentBar

(* The pending commands are a sequence as long as the queue. *)
LEMMA PendingIsSeq ==
    ASSUME IInv
    PROVE  /\ pendingBar \in Seq(Commands \cup {"lost"})
           /\ Len(pendingBar) = Len(ota_cmd_queue)
           /\ DOMAIN pendingBar = 1 .. Len(ota_cmd_queue)
           /\ \A i \in 1 .. Len(ota_cmd_queue) : pendingBar[i] = CommandAt(ota_cmd_queue[i])
<1>1. ota_cmd_queue \in Seq(Pointers) /\ content \in [Buffers -> Commands \cup {Freed}]
  BY DEF IInv, TypeOK
<1>2. DOMAIN ota_cmd_queue = 1 .. Len(ota_cmd_queue) /\ Len(ota_cmd_queue) \in Nat
  BY <1>1
<1>3. ASSUME NEW i \in 1 .. Len(ota_cmd_queue)
      PROVE  CommandAt(ota_cmd_queue[i]) \in Commands \cup {"lost"}
  <2>1. ota_cmd_queue[i] \in Pointers
    BY <1>1
  <2>2. ota_cmd_queue[i] # NULL => ota_cmd_queue[i] \in heap
    BY <1>2, <2>1, OtaAssumption DEF IInv, OneOwner, Queued, Range, Pointers
  <2>3. QED
    BY <1>1, <2>1, <2>2 DEF IInv, PointerInv, CommandAt, Pointers
<1>4. QED
  BY <1>2, <1>3, IsASeq DEF pendingBar

(* Reallocating a buffer or freeing the one in use changes no queued command. *)
LEMMA PendingKept ==
    ASSUME IInv, UNCHANGED ota_cmd_queue,
           \A b \in Queued : content'[b] = content[b]
    PROVE  pendingBar' = pendingBar
<1>1. ota_cmd_queue \in Seq(Pointers)
  BY DEF IInv, TypeOK
<1>2. ASSUME NEW i \in DOMAIN ota_cmd_queue
      PROVE  CommandAt(ota_cmd_queue[i])' = CommandAt(ota_cmd_queue[i])
  BY <1>1, <1>2, OtaAssumption DEF CommandAt, Queued, Range, Pointers
<1>3. QED
  BY <1>2 DEF pendingBar

(* A step of the client task accepts one command or is invisible to the *)
(* service: accepted is what was sent to the queue.                     *)
LEMMA ClientRefines ==
    ASSUME IInv, IInv', ClientTask
    PROVE  \/ UNCHANGED <<pendingBar, currentBar, switched>>
           \/ \E c \in Commands \cup {"lost"} :
                 /\ Len(pendingBar) < QueueLength
                 /\ pendingBar' = Append(pendingBar, c)
                 /\ UNCHANGED <<currentBar, switched>>
<1>1. ASSUME NEW command \in Commands, CommandArrives(command)
      PROVE  UNCHANGED <<pendingBar, currentBar, switched>>
  <2>1. /\ UNCHANGED <<ota_cmd_queue, ota, cmd_json, switched>>
        /\ \A b \in heap : content'[b] = content[b]
    BY <1>1 DEF CommandArrives, updateVars, IInv, TypeOK
  <2>2. Queued \subseteq heap /\ InUse \subseteq heap
    BY DEF IInv, OneOwner
  <2>3. pendingBar' = pendingBar
    BY <2>1, <2>2, PendingKept
  <2>4. currentBar' = currentBar
    BY <2>1, <2>2 DEF currentBar, CommandAt, InUse, IInv, TypeOK, Pointers
  <2>5. QED
    BY <2>1, <2>3, <2>4
<1>2. ASSUME QueueCommand
      PROVE  \E c \in Commands \cup {"lost"} :
                 /\ Len(pendingBar) < QueueLength
                 /\ pendingBar' = Append(pendingBar, c)
                 /\ UNCHANGED <<currentBar, switched>>
  <2>1. /\ Len(ota_cmd_queue) < QueueLength
        /\ ota_cmd_queue' = Append(ota_cmd_queue, dup)
        /\ UNCHANGED <<content, ota, cmd_json, switched>>
        /\ dup \in Pointers /\ ota_cmd_queue \in Seq(Pointers)
    BY <1>2 DEF QueueCommand, updateVars, IInv, TypeOK
  <2>2. CommandAt(dup) \in Commands \cup {"lost"}
    BY <2>1 DEF IInv, TypeOK, OneOwner, Held, PointerInv, CommandAt, Pointers
  <2>3. /\ Len(ota_cmd_queue') = Len(ota_cmd_queue) + 1
        /\ \A i \in 1 .. Len(ota_cmd_queue) : ota_cmd_queue'[i] = ota_cmd_queue[i]
        /\ ota_cmd_queue'[Len(ota_cmd_queue) + 1] = dup
        /\ Len(ota_cmd_queue) \in Nat
    BY <2>1, AppendProperties
  <2>4. /\ pendingBar \in Seq(Commands \cup {"lost"}) /\ Len(pendingBar) = Len(ota_cmd_queue)
        /\ \A i \in 1 .. Len(ota_cmd_queue) : pendingBar[i] = CommandAt(ota_cmd_queue[i])
    BY PendingIsSeq
  <2>5. /\ pendingBar' \in Seq(Commands \cup {"lost"})
        /\ Len(pendingBar') = Len(ota_cmd_queue) + 1
        /\ \A i \in 1 .. Len(ota_cmd_queue) + 1 : pendingBar'[i] = CommandAt(ota_cmd_queue'[i])
    <3>1. DOMAIN ota_cmd_queue' = 1 .. Len(ota_cmd_queue) + 1
      BY <2>1, <2>3
    <3>2. pendingBar' = [i \in 1 .. Len(ota_cmd_queue) + 1 |-> CommandAt(ota_cmd_queue'[i])]
      BY <2>1, <3>1 DEF pendingBar, CommandAt
    <3>3. ASSUME NEW i \in 1 .. Len(ota_cmd_queue) + 1
          PROVE  CommandAt(ota_cmd_queue'[i]) \in Commands \cup {"lost"}
      <4>1. CASE i = Len(ota_cmd_queue) + 1
        BY <2>2, <2>3, <4>1
      <4>2. CASE i \in 1 .. Len(ota_cmd_queue)
        <5>1. pendingBar[i] \in Commands \cup {"lost"}
          BY <2>4, <4>2, ElementOfSeq
        <5>2. QED
          BY <2>3, <2>4, <4>2, <5>1
      <4>3. QED
        BY <2>3, <4>1, <4>2
    <3>4. QED
      BY <2>3, <3>2, <3>3, IsASeq
  <2>6. pendingBar' = Append(pendingBar, CommandAt(dup))
    <3> DEFINE a == Append(pendingBar, CommandAt(dup))
    <3>1. /\ a \in Seq(Commands \cup {"lost"}) /\ Len(a) = Len(ota_cmd_queue) + 1
          /\ \A i \in 1 .. Len(ota_cmd_queue) : a[i] = pendingBar[i]
          /\ a[Len(ota_cmd_queue) + 1] = CommandAt(dup)
      BY <2>2, <2>4, AppendProperties
    <3>2. \A i \in 1 .. Len(a) : a[i] = pendingBar'[i]
      BY <2>3, <2>4, <2>5, <3>1
    <3>3. QED
      BY <2>5, <3>1, <3>2, SeqEqual
  <2>7. UNCHANGED currentBar
    BY <2>1 DEF currentBar, CommandAt
  <2>8. QED
    BY <2>1, <2>2, <2>4, <2>6, <2>7
<1>3. ASSUME QueueFull \/ FullLogged
      PROVE  UNCHANGED <<pendingBar, currentBar, switched>>
  <2>1. UNCHANGED <<content, ota_cmd_queue, ota, cmd_json, switched>>
    BY <1>3 DEF QueueFull, FullLogged, updateVars
  <2>2. QED
    BY <2>1 DEF pendingBar, currentBar, CommandAt
<1>4. QED
  BY <1>1, <1>2, <1>3 DEF ClientTask

(* A step of ota_task takes a command, finishes it, installs an image, or is *)
(* invisible to the service.                                                 *)
LEMMA TaskRefines ==
    ASSUME IInv, IInv', OtaTask, ~Reset
    PROVE  Service!Next \/ UNCHANGED serviceBar
<1>1. ASSUME NEW from \in Steps \ {"receive", "refresh"},
             NEW to \in Steps \ {"receive", "refresh"},
             Goes(from, to)
      PROVE  UNCHANGED <<pendingBar, currentBar>>
  <2>1. ota = from /\ ota' = to /\ UNCHANGED <<content, ota_cmd_queue, cmd_json>>
    BY <1>1 DEF Goes
  <2>2. QED
    BY <2>1 DEF pendingBar, currentBar, CommandAt
<1> USE DEF serviceBar
<1>2. CASE Receive
  <2>1. /\ ota = "receive" /\ ota' = "process"
        /\ ota_cmd_queue # <<>> /\ ota_cmd_queue \in Seq(Pointers)
        /\ cmd_json' = Head(ota_cmd_queue) /\ ota_cmd_queue' = Tail(ota_cmd_queue)
        /\ UNCHANGED <<content, switched>>
    BY <1>2 DEF Receive, updateVars, IInv, TypeOK
  <2>2. /\ Len(ota_cmd_queue) \in Nat \ {0}
        /\ ota_cmd_queue' \in Seq(Pointers)
        /\ Len(ota_cmd_queue') = Len(ota_cmd_queue) - 1
        /\ \A i \in 1 .. Len(ota_cmd_queue') : ota_cmd_queue'[i] = ota_cmd_queue[i + 1]
        /\ cmd_json' = ota_cmd_queue[1]
    BY <2>1, HeadTailProperties
  <2>3. /\ pendingBar \in Seq(Commands \cup {"lost"}) /\ Len(pendingBar) = Len(ota_cmd_queue)
        /\ \A i \in 1 .. Len(ota_cmd_queue) : pendingBar[i] = CommandAt(ota_cmd_queue[i])
    BY PendingIsSeq
  <2>4. /\ pendingBar # <<>>
        /\ Tail(pendingBar) \in Seq(Commands \cup {"lost"})
        /\ Len(Tail(pendingBar)) = Len(ota_cmd_queue) - 1
        /\ \A i \in 1 .. Len(ota_cmd_queue) - 1 : Tail(pendingBar)[i] = pendingBar[i + 1]
        /\ Head(pendingBar) = pendingBar[1]
    BY <2>2, <2>3, HeadTailProperties, EmptySeq
  <2>5. pendingBar' = Tail(pendingBar)
    <3>1. /\ DOMAIN ota_cmd_queue' = 1 .. Len(ota_cmd_queue) - 1
          /\ pendingBar' = [i \in 1 .. Len(ota_cmd_queue) - 1 |-> CommandAt(ota_cmd_queue'[i])]
      BY <2>1, <2>2 DEF pendingBar, CommandAt
    <3>2. \A i \in 1 .. Len(ota_cmd_queue) - 1 : pendingBar'[i] = Tail(pendingBar)[i]
      BY <2>2, <2>3, <2>4, <3>1
    <3>3. pendingBar' \in Seq(Commands \cup {"lost"}) /\ Len(pendingBar') = Len(ota_cmd_queue) - 1
      <4>1. \A i \in 1 .. Len(ota_cmd_queue) - 1 : pendingBar'[i] \in Commands \cup {"lost"}
        BY <2>4, <3>2, ElementOfSeq
      <4>2. QED
        BY <2>2, <3>1, <4>1, IsASeq
    <3>4. QED
      BY <2>4, <3>2, <3>3, SeqEqual
  <2>6. currentBar = <<>> /\ currentBar' = <<Head(pendingBar)>>
    BY <2>1, <2>2, <2>3, <2>4 DEF currentBar, CommandAt
  <2>7. QED
    BY <2>1, <2>4, <2>5, <2>6, TakeStep, Zenon
<1>3. CASE Free
  <2>1. /\ ota = "free" /\ ota' = "refresh"
        /\ UNCHANGED <<ota_cmd_queue, switched>>
        /\ \A b \in Buffers : b # cmd_json => content'[b] = content[b]
    BY <1>3 DEF Free, IInv, TypeOK
  <2>2. cmd_json \notin Queued /\ Queued \subseteq Buffers
    BY <2>1 DEF IInv, OneOwner, InUse, Queued
  <2>3. pendingBar' = pendingBar
    BY <2>1, <2>2, PendingKept
  <2>4. currentBar # <<>> /\ currentBar' = <<>>
    BY <2>1 DEF currentBar
  <2>5. QED
    BY <2>1, <2>3, <2>4, FinishStep, Zenon
<1>4. CASE Refresh
  <2>1. ota = "refresh" /\ ota' = "receive" /\ UNCHANGED <<content, ota_cmd_queue,
                                                           switched>>
    BY <1>4 DEF Refresh, updateVars
  <2>2. QED
    BY <2>1 DEF pendingBar, currentBar, CommandAt
<1>5. CASE Finish
  <2>1. ota = "finish" /\ UNCHANGED <<pendingBar, currentBar>>
    BY <1>1, <1>5 DEF Finish, Goes, Steps, Publishing, Downloading
  <2>2. currentBar = <<"update">>
    BY <2>1, OtaAssumption
       DEF IInv, UpdateInv, PointerInv, Downloading, currentBar, CommandAt
  <2>3. switched' = TRUE \/ UNCHANGED switched
    BY <1>5, Zenon DEF Finish
  <2>4. QED
    BY <2>1, <2>2, <2>3, InstallStep, Zenon
<1>6. CASE Refuse \/ ProcessUpdate \/ ProcessValidate \/ ProcessRollback \/ LogError
           \/ PublishStart \/ Begin \/ PerformReads \/ PerformEnds \/ PublishProgress
           \/ CheckDownload \/ Abort \/ LogFail \/ PublishDone \/ PublishFail
  <2>1. PICK from \in Steps \ {"receive", "refresh"}, to \in Steps \ {"receive",
        "refresh"} :
           Goes(from, to)
    BY <1>6
       DEF Refuse, ProcessUpdate, ProcessValidate, ProcessRollback, LogError,
           PublishStart,
           Begin, PerformReads, PerformEnds, PublishProgress, CheckDownload, Abort,
           LogFail,
           PublishDone, PublishFail, PublishOutcome, Steps, Publishing, Downloading
  <2>2. UNCHANGED switched
    BY <1>6
       DEF Refuse, ProcessUpdate, ProcessValidate, ProcessRollback, LogError,
           PublishStart,
           Begin, PerformReads, PerformEnds, PublishProgress, CheckDownload, Abort,
           LogFail,
           PublishDone, PublishFail, PublishOutcome, updateVars
  <2>3. QED
    BY <1>1, <2>1, <2>2
<1>7. QED
  BY <1>2, <1>3, <1>4, <1>5, <1>6 DEF OtaTask, ReadNull

(* A restart of the device is one of the service. *)
LEMMA ResetRefines ==
    ASSUME Reset
    PROVE  Service!Next
<1>1. ota_cmd_queue' = <<>> /\ ota' = "receive" /\ switched' = FALSE
  BY Zenon DEF Reset
<1>2. pendingBar' = <<>>
  BY <1>1 DEF pendingBar
<1>3. currentBar' = <<>>
  BY <1>1 DEF currentBar
<1>4. QED
  BY <1>1, <1>2, <1>3, RestartStep, Zenon

(* A node without commands is the service without commands. *)
LEMMA InitRefines == Init => Service!Init
<1> SUFFICES ASSUME Init PROVE Service!Init
  OBVIOUS
<1>1. ota_cmd_queue = <<>> /\ ota = "receive" /\ switched = FALSE
  BY Zenon DEF Init
<1>2. pendingBar = <<>> /\ currentBar = <<>>
  BY <1>1 DEF pendingBar, currentBar
<1>3. QED
  BY <1>1, <1>2, Zenon DEF Service!Init, pendingBar, currentBar

(* Every step is one of the service or a stutter of it. *)
LEMMA NextRefines ==
    IInv /\ IInv' /\ [Next]_vars => [Service!Next]_(Service!serviceVars)
<1> SUFFICES ASSUME IInv, IInv', [Next]_vars
             PROVE  Service!Next \/ UNCHANGED serviceBar
  BY Zenon DEF Service!serviceVars, serviceBar, pendingBar, currentBar
<1>1. CASE Reset
  BY <1>1, ResetRefines
<1>2. CASE ClientTask
  BY <1>2, ClientRefines, AcceptStep, Zenon DEF serviceBar
<1>3. CASE OtaTask /\ ~Reset
  BY <1>3, TaskRefines
<1>4. CASE PublishFails \/ Restart
  BY <1>4, ResetRefines DEF PublishFails, Restart
<1>5. CASE UNCHANGED vars
  BY <1>5 DEF vars, serviceBar, pendingBar, currentBar, CommandAt
<1>6. QED
  BY <1>1, <1>2, <1>3, <1>4, <1>5 DEF Next

(* The OTA component is the bounded first-come-first-served service of           *)
(* OtaService: accepted commands are executed once, in order, one at a time,     *)
(* only updates install an image, and only a restart loses an accepted command.  *)
THEOREM Refinement == Spec => ImplementsService
BY InitRefines, NextRefines, Inductive, PTL
   DEF Spec, ImplementsService, Service!Spec

=============================================================================
