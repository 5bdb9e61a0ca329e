---------------------------- MODULE JsonBuilder ----------------------------
(***************************************************************************)
(* The messages of a node: json_builder.c, and send_resp of mqtt.c, which  *)
(* publishes what it returns.  A message is built as a tree of cJSON nodes *)
(* on the heap and printed to a string.  Every allocation may fail, and a  *)
(* failure takes one of three nested json_fail labels, which give back     *)
(* what there is by then: the tree, a subtree that is not yet part of it,  *)
(* the iterator over the partitions.                                       *)
(* A node is named by its path.  The leaves that follow each other in one  *)
(* container are one node, named after the first of them.  What the leaves *)
(* say is left out.  A call shares nothing but the heap with other tasks,  *)
(* so there is one call at a time.                                         *)
(* A Mutant is a plausible bug in the definition that follows it.          *)
(***************************************************************************)
EXTENDS Integers, FiniteSets, SequencesExt

CONSTANTS
    Caps,               \* the names in HEAP_CAPS, in order
    AppPartitions,      \* the partition table of the device: the
    DataPartitions      \* partitions of the two types, in order

(* A partition has one type. *)
ASSUME JsonAssumption ==
    /\ Caps \in Seq(STRING) /\ AppPartitions \in Seq(STRING)
    /\ DataPartitions \in Seq(STRING)
    /\ ToSet(AppPartitions) \cap ToSet(DataPartitions) = {}

VARIABLES
    message,    \* the message that is being built or sent, or "none"
    todo,       \* the steps the builder still has to take
    heap,       \* the nodes that are allocated, but
    lost,       \* the nodes that this call has lost
    linked,     \* the nodes that are in the list of their parent
    it,         \* the partitions the iterator has before it, <<>> for NULL
    iterators,  \* how many iterators are allocated
    heap_info,  \* the heap's use, as read for each of Caps at first
    info,       \* ... and as read again and reported
    msg         \* the string: the nodes that are in it, {} for NULL

vars == <<message, todo, heap, lost, linked, it, iterators, heap_info, info, msg>>

-----------------------------------------------------------------------------
(* What each function does when nothing fails *)

Step(op, node) == [op |-> op, node |-> node]
Inserts(nodes) == [i \in DOMAIN nodes |-> Step("insert", nodes[i])]

Root == <<>>
In(node, name) == Append(node, name)

Unformatted == <<Step("print", Root)>>

Wifi == In(Root, "wifi")

state_up == Inserts(<<Root, In(Root, "state"), Wifi, In(Wifi, "rssi")>>) \o Unformatted

state_down == Inserts(<<Root, In(Root, "state")>>) \o Unformatted

startup == Inserts(<<Root, In(Root, "start_epoch_time_ms")>>) \o Unformatted

Capabilities == In(Root, "heap_capabilities")

mem_check ==
    [i \in DOMAIN Caps |-> Step("obtain", Root)]
    \o Inserts(<<Root, In(Root, "heap_integrity_sound"), Capabilities>>)
    \o [i \in DOMAIN Caps |-> Step("report", In(Capabilities, Caps[i]))]
    \o Unformatted

(* One turn of the loop of mem_check *)
AddCapability(cap) == Inserts(<<cap, In(cap, "name")>>)

Software == In(Root, "software")
AppDesc == In(Software, "app_desc")
Sha256 == In(AppDesc, "app_elf_sha256")
PartitionInfo == In(Software, "partitions")
List == In(PartitionInfo, "list")
IdfVersion == In(Software, "idf_version")

software ==
    Inserts(<<Software, AppDesc, In(AppDesc, "magic_word"), Sha256, In(Sha256, "bytes"),
              PartitionInfo, In(PartitionInfo, "is_rollback_possible"), List>>)
    \o <<Step("find", In(Root, "app")), Step("find", In(Root, "data"))>>
    \o Inserts(<<IdfVersion, In(IdfVersion, "major")>>)

Efuse == In(Root, "efuse")
Err == In(Efuse, "err")
MacDefault == In(Efuse, "mac_default")

(* Without the custom MAC address, which REPORT_MAC_CUSTOM_BLK3 would add and no *)
(* build of the repository defines.                                              *)
efuse ==
    Inserts(<<Efuse, Err, In(Err, "mac_default"), MacDefault, In(MacDefault, "bytes")>>)

Chip == In(Root, "chip")
Features == In(Chip, "features")

chip == Inserts(<<Chip, In(Chip, "model"), Features, In(Features, "names")>>)

system_id == Inserts(<<Root>>) \o software \o efuse \o chip \o Unformatted

Script ==
    [state_up |-> state_up, state_down |-> state_down, startup |-> startup,
     mem_check |-> mem_check, system_id |-> system_id]

Row(part) == In(List, part)
Type(part) == In(Row(part), "type")

build_part_type(type) ==
    LET subtype == In(type, "subtype")
    IN Inserts(<<type, subtype, In(type, "name"), In(subtype, "name")>>)

(* One turn of the loop of add_partitions_to_array *)
AddPartition(part) ==
    Inserts(<<Row(part), In(Row(part), "flash_chip_id")>>)
    \o build_part_type(Type(part)) \o <<Step("add", Type(part))>>
    \o Inserts(<<In(Row(part), "address")>>) \o <<Step("next", List)>>

-----------------------------------------------------------------------------
(* A node that is created on its own: the root, and a partition's type *)
Partitions == ToSet(AppPartitions) \cup ToSet(DataPartitions)
IsRoot(node) == node = Root \/ node \in {Type(p) : p \in Partitions}

(* What cJSON_Delete(root) frees *)
Tree(root) ==
    {n \in heap : IsPrefix(root, n)
                  /\ \A k \in Len(root) + 1 .. Len(n) : SubSeq(n, 1, k) \in linked}

Frees(nodes) ==
    /\ heap' = heap \ nodes
    /\ linked' = linked \ nodes

Takes(op) ==
    /\ todo # <<>> /\ Head(todo).op = op

Node == Head(todo).node

Init ==
    /\ message = "none" /\ todo = <<>>
    /\ heap = {} /\ lost = {} /\ linked = {}
    /\ it = <<>> /\ iterators = 0
    /\ heap_info = <<>> /\ info = <<>>
    /\ msg = {}

Call(m) ==
    /\ message = "none"
    /\ message' = m
    /\ todo' = Script[m]
    /\ lost' = {}
    /\ heap_info' = <<>> /\ info' = <<>>
    /\ UNCHANGED <<heap, linked, it, iterators, msg>>

(* heap_caps_get_info, at first into heap_info *)
ObtainInfo ==
    /\ Takes("obtain")
    /\ todo' = Tail(todo)
    /\ heap_info' = Append(heap_info, Cardinality(heap))
    /\ UNCHANGED <<message, heap, lost, linked, it, iterators, info, msg>>

(* ... and again before each row, into the variable that is reported *)
ReportInfo ==
    /\ Takes("report")
    /\ todo' = AddCapability(Node) \o Tail(todo)
    /\ info' = Append(info, Cardinality(heap))
    /\ UNCHANGED <<message, heap, lost, linked, it, iterators, heap_info, msg>>

(* cJSON_CREATE_..._OR_GOTO and cJSON_INSERT_..._OR_GOTO *)
Insert ==
    /\ Takes("insert")
    /\ todo' = Tail(todo)
    /\ heap' = heap \cup {Node}
    /\ linked' = IF IsRoot(Node) THEN linked ELSE linked \cup {Node}
    /\ UNCHANGED <<message, lost, it, iterators, heap_info, info, msg>>

MutantDeleted(node) == Tree(Root)

(* What the json_fail labels delete: that of build_part_type the type first *)
Deleted(node) ==
    Tree(Root) \cup UNION {Tree(Type(p)) : p \in {p \in Partitions : IsPrefix(Type(p), node)}}

(* build_part_type returned NULL, and the caller does not look *)
MutantInsertFails ==
    /\ Takes("insert")
    /\ IF \E p \in Partitions : IsPrefix(Type(p), Node)
       THEN /\ Frees(Tree(SubSeq(Node, 1, Len(List) + 2)))
            /\ todo' = SubSeq(todo, SelectInSeq(todo, LAMBDA s : s.op = "add") + 1,
                              Len(todo))
            /\ UNCHANGED <<it, iterators>>
       ELSE /\ Frees(Deleted(Node))
            /\ it' = <<>> /\ iterators' = IF it = <<>> THEN iterators ELSE iterators - 1
            /\ todo' = <<>>
    /\ UNCHANGED <<message, lost, heap_info, info, msg>>

(* No memory: all functions return, the builder with NULL. *)
InsertFails ==
    /\ Takes("insert")
    /\ Frees(Deleted(Node))
    /\ it' = <<>> /\ iterators' = IF it = <<>> THEN iterators ELSE iterators - 1
    /\ todo' = <<>>
    /\ UNCHANGED <<message, lost, heap_info, info, msg>>

(* cJSON_AddItemToObject, whose result nobody looks at: it needs memory for the key. *)
AddType ==
    /\ Takes("add")
    /\ todo' = Tail(todo)
    /\ \/ linked' = linked \cup {Node} /\ UNCHANGED <<heap, lost>>
       \/ Frees(Tree(Node)) /\ lost' = lost \cup Tree(Node)
    /\ UNCHANGED <<message, it, iterators, heap_info, info, msg>>

(* The loop of add_partitions_to_array, with the iterator at parts *)
Iterates(parts) ==
    /\ it' = parts
    /\ todo' = (IF parts = <<>> THEN <<>> ELSE AddPartition(Head(parts))) \o Tail(todo)

(* esp_partition_find: NULL without such a partition or without memory *)
FindPartitions ==
    /\ Takes("find")
    /\ \/ Iterates(<<>>) /\ UNCHANGED iterators
       \/ LET parts == IF Node = In(Root, "app") THEN AppPartitions ELSE DataPartitions
          IN /\ parts # <<>>
             /\ Iterates(parts)
             /\ iterators' = iterators + 1
    /\ UNCHANGED <<message, heap, lost, linked, heap_info, info, msg>>

MutantNextPartition ==
    /\ Takes("next")
    /\ Iterates(Tail(it))
    /\ iterators' = IF Tail(it) = <<>> THEN iterators - 2 ELSE iterators
    /\ UNCHANGED <<message, heap, lost, linked, heap_info, info, msg>>

(* esp_partition_next releases the iterator at the end, and only then. *)
NextPartition ==
    /\ Takes("next")
    /\ Iterates(Tail(it))
    /\ iterators' = IF Tail(it) = <<>> THEN iterators - 1 ELSE iterators
    /\ UNCHANGED <<message, heap, lost, linked, heap_info, info, msg>>

(* cJSON_PrintUnformatted, which may not have the memory, and cJSON_Delete *)
PrintMessage ==
    /\ Takes("print")
    /\ todo' = <<>>
    /\ msg' \in {Tree(Root), {}}
    /\ Frees(Tree(Root))
    /\ UNCHANGED <<message, lost, it, iterators, heap_info, info>>

Returned == message # "none" /\ todo = <<>>

(* send_resp, or libiot_start_mqtt for the last will: both free the string.  A *)
(* will without a message is not refused.                                      *)
Send ==
    /\ Returned
    /\ message = "state_down" \/ msg # {}
    /\ message' = "none"
    /\ msg' = {}
    /\ UNCHANGED <<todo, heap, lost, linked, it, iterators, heap_info, info>>

(* send_resp asserts that there is a message: the program starts anew. *)
AssertFails ==
    /\ Returned
    /\ message # "state_down" /\ msg = {}
    /\ message' = "none" /\ todo' = <<>>
    /\ heap' = {} /\ lost' = {} /\ linked' = {}
    /\ it' = <<>> /\ iterators' = 0
    /\ heap_info' = <<>> /\ info' = <<>>
    /\ msg' = {}

Next ==
    \/ \E m \in DOMAIN Script : Call(m)
    \/ ObtainInfo \/ ReportInfo \/ Insert \/ InsertFails \/ AddType
    \/ FindPartitions \/ NextPartition \/ PrintMessage \/ Send \/ AssertFails

Spec == Init /\ [][Next]_vars

-----------------------------------------------------------------------------
(* Properties *)

Inserted(steps) == {s.node : s \in {s \in ToSet(steps) : s.op = "insert"}}

(* ... with the rows for which the steps have a turn of the loop of mem_check *)
Fields(steps) ==
    Inserted(steps)
    \cup UNION {Inserted(AddCapability(s.node)) : s \in {s \in ToSet(steps) : s.op = "report"}}

Nodes ==
    (UNION {Fields(Script[m]) : m \in DOMAIN Script})
    \cup UNION {Inserted(AddPartition(p)) : p \in Partitions}

(* Types: there is one iterator at most, and it is allocated as long as it is not *)
(* at its end; what is linked is allocated.                                       *)
TypeOK ==
    /\ message \in DOMAIN Script \cup {"none"}
    /\ \A i \in DOMAIN todo :
          todo[i].op \in {"insert", "obtain", "report", "find", "add", "next", "print"}
    /\ heap \cup lost \cup msg \subseteq Nodes
    /\ linked \subseteq heap
    /\ ToSet(it) \subseteq Partitions
    /\ iterators = IF it = <<>> THEN 0 ELSE 1
    /\ {heap_info[i] : i \in DOMAIN heap_info} \cup {info[i] : i \in DOMAIN info}
          \subseteq 0 .. Cardinality(Nodes)

(* Whatever allocation fails, a builder returns with every node of its tree and  *)
(* its iterator given back, and once the message is sent its string is too.  The *)
(* one thing it may lose is the type of a partition, which AddItemToObject does  *)
(* not take without memory for its key (json_builder.c:379).                     *)
NothingLeaks ==
    /\ todo = <<>> => heap = {} /\ iterators = 0
    /\ message = "none" => msg = {}
    /\ \A n \in lost : \E p \in Partitions : IsPrefix(Type(p), n)

(* A message is all or nothing: what is published has every field, and in each  *)
(* of the two lists all partitions with all their fields or, when the iterator  *)
(* could not be allocated, none, but for the types that were lost.              *)
AllOrNothing ==
    msg # {} =>
        /\ Fields(Script[message]) \subseteq msg
        /\ \A parts \in {AppPartitions, DataPartitions} :
              \/ \A p \in ToSet(parts) : Row(p) \notin msg
              \/ \A p \in ToSet(parts) : Inserted(AddPartition(p)) \subseteq msg \cup lost

(* What json_builder.c:155-156 says: the information was obtained before the first *)
(* allocation, so that the message does not count itself.                          *)
ReportsHeapBefore ==
    \A i \in DOMAIN info : info[i] = heap_info[i]

=============================================================================
