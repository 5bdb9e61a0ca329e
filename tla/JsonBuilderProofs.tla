------------------------- MODULE JsonBuilderProofs -------------------------
(***************************************************************************)
(* Proofs about the messages of a node, for every table of partitions and  *)
(* every list of heap capabilities.                                        *)
(* The properties speak of a builder that has returned; the invariant has  *)
(* to say of one that has not what its failure would leave behind.  It     *)
(* does so by what the steps that are still to come (todo) need and bring: *)
(* - TodoInv: every step finds its parent on the heap, or an earlier step  *)
(*   inserts it; one type is built, and one iterator is there, at a time;  *)
(* - HeapInv: the heap is a tree, but for the type that is about to be     *)
(*   added, so that the two deletions of the json_fail labels free all;    *)
(* - IteratorInv: the loop that has an iterator is the one under way;      *)
(* - FieldsInv, ListsInv: what a message lacks is still to come.           *)
(* A Block is a sequence of steps that can be taken from a given heap:     *)
(* blocks may be taken from the front (BlockTail) and put together         *)
(* (BlockConcat).  The builders are blocks (ScriptSteps), and so is a turn *)
(* of the loop over the partitions (TurnBlock).                            *)
(***************************************************************************)
EXTENDS JsonBuilder, SequenceTheorems, FiniteSetTheorems, TLAPS

-----------------------------------------------------------------------------
(* Paths *)

(* What the fields of a message are called *)
Names ==
    {"state", "wifi", "rssi", "start_epoch_time_ms", "heap_integrity_sound",
     "heap_capabilities", "name", "software", "app_desc", "magic_word", "app_elf_sha256",
     "bytes", "partitions", "is_rollback_possible", "list", "app", "data", "idf_version",
     "major", "efuse", "err", "mac_default", "chip", "model", "features", "names",
     "type", "subtype", "flash_chip_id", "address"}
    \cup ToSet(Caps) \cup Partitions
Paths == Seq(Names)
Depth(node) == Len(node)

Parent(node) == SubSeq(node, 1, Len(node) - 1)

LEMMA PrefixPath ==
    ASSUME NEW n \in Paths, NEW k \in 0 .. Len(n)
    PROVE  /\ SubSeq(n, 1, k) \in Paths /\ Len(SubSeq(n, 1, k)) = k
           /\ \A i \in 1 .. k : SubSeq(n, 1, k)[i] = n[i]
BY SubSeqProperties, LenProperties, ElementOfSeq DEF Paths

LEMMA PrefixOfPrefix ==
    ASSUME NEW n \in Paths, NEW k \in 0 .. Len(n), NEW j \in 0 .. k
    PROVE  SubSeq(SubSeq(n, 1, k), 1, j) = SubSeq(n, 1, j)
<1> DEFINE m == SubSeq(n, 1, k)
<1>1. m \in Paths /\ Len(m) = k /\ \A i \in 1 .. k : m[i] = n[i]
  BY PrefixPath
<1>2. j \in 0 .. Len(m) /\ j \in 0 .. Len(n)
  BY <1>1, LenProperties DEF Paths
<1>3. /\ SubSeq(m, 1, j) \in Paths /\ Len(SubSeq(m, 1, j)) = j
      /\ \A i \in 1 .. j : SubSeq(m, 1, j)[i] = m[i]
  BY <1>1, <1>2, PrefixPath
<1>4. /\ SubSeq(n, 1, j) \in Paths /\ Len(SubSeq(n, 1, j)) = j
      /\ \A i \in 1 .. j : SubSeq(n, 1, j)[i] = n[i]
  BY <1>2, PrefixPath
<1>5. \A i \in 1 .. j : SubSeq(m, 1, j)[i] = SubSeq(n, 1, j)[i]
  BY <1>1, <1>3, <1>4
<1> HIDE DEF m
<1>6. SubSeq(m, 1, j) = SubSeq(n, 1, j)
  BY <1>3, <1>4, <1>5, SeqEqual DEF Paths
<1> QED BY <1>6 DEF m

LEMMA PrefixFull ==
    ASSUME NEW n \in Paths
    PROVE  SubSeq(n, 1, Len(n)) = n /\ (Len(n) = 0 => n = Root)
BY SubSeqFull, EmptySeq DEF Paths, Root

LEMMA ParentPath ==
    ASSUME NEW n \in Paths, n # Root
    PROVE  /\ Len(n) \in Nat \ {0}
           /\ Parent(n) \in Paths /\ Len(Parent(n)) = Len(n) - 1
           /\ \A k \in 0 .. Len(n) - 1 : SubSeq(Parent(n), 1, k) = SubSeq(n, 1, k)
<1>1. Len(n) \in Nat \ {0}
  BY EmptySeq DEF Paths, Root
<1>2. Len(n) - 1 \in 0 .. Len(n)
  BY <1>1
<1>3. Parent(n) \in Paths /\ Len(Parent(n)) = Len(n) - 1
  BY <1>2, PrefixPath DEF Parent
<1>4. \A k \in 0 .. Len(n) - 1 : SubSeq(Parent(n), 1, k) = SubSeq(n, 1, k)
  BY <1>2, PrefixOfPrefix DEF Parent
<1> QED BY <1>1, <1>3, <1>4

LEMMA RootPath == Root \in Paths /\ Depth(Root) = 0
BY EmptySeq DEF Paths, Root, Depth

LEMMA InPath ==
    ASSUME NEW n \in Paths, NEW name \in Names
    PROVE  /\ In(n, name) \in Paths /\ In(n, name) # Root
           /\ Depth(n) \in Nat /\ Depth(In(n, name)) = Depth(n) + 1
           /\ Parent(In(n, name)) = n
<1> DEFINE c == In(n, name)
<1>1. /\ c \in Paths /\ c # Root /\ Len(c) = Len(n) + 1
      /\ \A i \in 1 .. Len(n) : c[i] = n[i]
  <2>1. n \in Seq(Names)
    BY DEF Paths
  <2> QED BY <2>1, AppendProperties DEF Paths, In, Root
<1>2. Len(n) \in Nat
  BY LenProperties DEF Paths
<1>3. Parent(c) = n
  <2>1. /\ Parent(c) \in Paths /\ Len(Parent(c)) = Len(n)
        /\ \A i \in 1 .. Len(n) : Parent(c)[i] = c[i]
    BY <1>1, <1>2, PrefixPath DEF Parent
  <2> HIDE DEF c
  <2> QED BY <2>1, <1>1, SeqEqual DEF Paths
<1> QED BY <1>1, <1>2, <1>3 DEF Depth

(* Two nodes of the same parent that have different names are different *)
LEMMA InInjective ==
    ASSUME NEW n \in Paths, NEW a \in Names, NEW b \in Names, In(n, a) = In(n, b)
    PROVE  a = b
BY AppendInjective DEF Paths, In

LEMMA PartitionNames == Partitions \subseteq Names
BY DEF Names

LEMMA ListPaths ==
    /\ Software \in Paths /\ Software # Root /\ Depth(Software) = 1 /\ Parent(Software) = Root
    /\ PartitionInfo \in Paths /\ PartitionInfo # Root /\ Depth(PartitionInfo) = 2
    /\ Parent(PartitionInfo) = Software
    /\ List \in Paths /\ List # Root /\ Depth(List) = 3 /\ Parent(List) = PartitionInfo
<1>1. {"software", "partitions", "list"} \subseteq Names
  BY DEF Names
<1>2. Software \in Paths /\ Software # Root /\ Depth(Software) = 1 /\ Parent(Software) = Root
  BY <1>1, RootPath, InPath DEF Software
<1>3. /\ PartitionInfo \in Paths /\ PartitionInfo # Root /\ Depth(PartitionInfo) = 2
      /\ Parent(PartitionInfo) = Software
  BY <1>1, <1>2, InPath DEF PartitionInfo
<1>4. List \in Paths /\ List # Root /\ Depth(List) = 3 /\ Parent(List) = PartitionInfo
  BY <1>1, <1>3, InPath DEF List
<1> QED BY <1>2, <1>3, <1>4

LEMMA RowPath ==
    ASSUME NEW p \in Partitions
    PROVE  /\ Row(p) \in Paths /\ Row(p) # Root /\ Depth(Row(p)) = 4 /\ Parent(Row(p)) = List
           /\ Type(p) \in Paths /\ Type(p) # Root /\ Depth(Type(p)) = 5 /\ Parent(Type(p)) = Row(p)
<1>1. p \in Names /\ "type" \in Names
  BY PartitionNames DEF Names
<1>2. Row(p) \in Paths /\ Row(p) # Root /\ Depth(Row(p)) = 4 /\ Parent(Row(p)) = List
  BY <1>1, ListPaths, InPath DEF Row
<1>3. Type(p) \in Paths /\ Type(p) # Root /\ Depth(Type(p)) = 5 /\ Parent(Type(p)) = Row(p)
  BY <1>1, <1>2, InPath DEF Type
<1> QED BY <1>2, <1>3

LEMMA RowInjective ==
    ASSUME NEW p \in Partitions, NEW q \in Partitions, Row(p) = Row(q)
    PROVE  p = q
BY PartitionNames, ListPaths, InInjective DEF Row

(* What is below a node: the prefixes in between *)
LEMMA BelowPath ==
    ASSUME NEW t \in Paths, NEW n \in Paths
    PROVE  IsPrefix(t, n) <=> Depth(t) \in 0 .. Depth(n) /\ SubSeq(n, 1, Depth(t)) = t
BY LenProperties, PrefixFull DEF IsPrefix, Paths, Depth

-----------------------------------------------------------------------------
(* The steps of a builder *)

Steps ==
    [op : {"insert", "obtain", "report", "find", "add", "next", "print"}, node : Paths]

(* What a step needs on the heap when its turn comes *)
Needs(step) ==
    IF step.op \in {"insert", "report"} /\ step.node # Root THEN {Parent(step.node)}
    ELSE IF step.op \in {"find", "next"} THEN {List}
    ELSE IF step.op = "add" THEN {step.node} ELSE {}

(* What a step inserts, or has inserted by the turn of the loop it begins *)
Own(step) ==
    IF step.op = "insert" THEN {step.node}
    ELSE IF step.op = "report" THEN {step.node, In(step.node, "name")} ELSE {}

Before(steps, i) == {steps[j].node : j \in {j \in 1 .. i - 1 : steps[j].op = "insert"}}

(* Every parent is there before its fields. *)
Fed(steps, nodes) ==
    \A i \in DOMAIN steps : Needs(steps[i]) \subseteq nodes \cup Before(steps, i)

(* From step i on, only fields of the type of p are inserted, and then it is added. *)
Pending(steps, i, p) ==
    \E k \in DOMAIN steps :
       /\ k >= i /\ steps[k] = Step("add", Type(p))
       /\ \A j \in i .. k - 1 : steps[j].op = "insert" /\ IsPrefix(Type(p), steps[j].node)

Kept(steps) ==
    \A i \in DOMAIN steps : \A p \in Partitions :
       steps[i].op = "insert" /\ IsPrefix(Type(p), steps[i].node) => Pending(steps, i, p)

(* One type is built at a time, and one iterator is there at a time. *)
Ordered(steps) ==
    \A j \in DOMAIN steps : \A i \in 1 .. j - 1 :
       /\ steps[j].op = "next" => steps[i].op \notin {"find", "next"}
       /\ steps[j].op = "add" => steps[i].op \notin {"find", "next", "add"}

(* A step of one of the builders *)
OkStep(step) ==
    /\ step \in Steps
    /\ step.op = "report" => \E c \in ToSet(Caps) : step.node = In(Capabilities, c)
    /\ step.op = "add" => \E p \in Partitions : step.node = Type(p)

Block(steps, nodes) ==
    /\ steps \in Seq(Steps)
    /\ \A i \in DOMAIN steps : OkStep(steps[i])
    /\ Fed(steps, nodes) /\ Kept(steps) /\ Ordered(steps)

(* The message is printed at the end, and only then. *)
Ended(steps) == \A i \in DOMAIN steps : steps[i].op = "print" <=> i = Len(steps)

-----------------------------------------------------------------------------
(* The inductive invariant *)

ValuesInv ==
    /\ message \in DOMAIN Script \cup {"none"}
    /\ heap \cup lost \cup msg \subseteq Nodes
    /\ linked \subseteq heap
    /\ it \in Seq(Partitions)
    /\ heap_info \in Seq(0 .. Cardinality(Nodes))
    /\ info \in Seq(0 .. Cardinality(Nodes))

(* Between two calls nothing is left, and during a call nothing is published. *)
MessageInv ==
    /\ message = "none" => todo = <<>> /\ msg = {}
    /\ todo = <<>> => heap = {} /\ it = <<>>
    /\ todo # <<>> => msg = {}

(* What the builder has before it finds its parents on the heap. *)
TodoInv == Block(todo, heap) /\ Ended(todo) /\ Fields(todo) \subseteq Nodes

(* An iterator that is not at its end is about to be asked for the next partition. *)
IteratorInv ==
    /\ iterators = IF it = <<>> THEN 0 ELSE 1
    /\ it # <<>> <=> \E i \in DOMAIN todo : todo[i].op = "next"

(* The heap is a tree, except that the type of a partition that is about to be added *)
(* is not yet linked.                                                                *)
HeapInv ==
    /\ \A n \in heap : \A k \in 0 .. Len(n) : SubSeq(n, 1, k) \in heap
    /\ \A n \in heap \ linked : n = Root \/ \E p \in Partitions : n = Type(p)
    /\ \A p \in Partitions : Type(p) \in heap \ linked => Pending(todo, 1, p)

LostInv == \A n \in lost : \E p \in Partitions : IsPrefix(Type(p), n)

(* A field of the message is there or is still to come. *)
FieldsInv == todo # <<>> => Fields(Script[message]) \subseteq heap \cup Fields(todo)

(* The partitions the loop has not come to *)
Left == IF it = <<>> THEN {} ELSE ToSet(Tail(it))

Full(p) == Inserted(AddPartition(p)) \subseteq heap \cup lost \cup Inserted(todo)

(* A list was not begun, or each of its partitions has or gets its fields. *)
ListsInv ==
    \A parts \in {AppPartitions, DataPartitions} :
       \/ \A p \in ToSet(parts) : Row(p) \notin heap \cup Inserted(todo) /\ p \notin ToSet(it)
       \/ \A p \in ToSet(parts) : p \in Left \/ Full(p)

IInv ==
    /\ ValuesInv /\ MessageInv /\ TodoInv /\ IteratorInv /\ HeapInv /\ LostInv
    /\ FieldsInv /\ (todo # <<>> => ListsInv) /\ AllOrNothing

-----------------------------------------------------------------------------
(* Sequences of steps *)

LEMMA TailOfSteps ==
    ASSUME NEW s \in Seq(Steps), s # <<>>
    PROVE  /\ Len(s) \in Nat \ {0} /\ DOMAIN s = 1 .. Len(s)
           /\ Head(s) = s[1] /\ s[1] \in Steps
           /\ Tail(s) \in Seq(Steps) /\ Len(Tail(s)) = Len(s) - 1
           /\ DOMAIN Tail(s) = 1 .. Len(s) - 1
           /\ \A i \in 1 .. Len(s) - 1 : Tail(s)[i] = s[i + 1]
<1>1. Len(s) \in Nat \ {0} /\ DOMAIN s = 1 .. Len(s)
  BY EmptySeq, LenProperties
<1>2. Tail(s) \in Seq(Steps) /\ Len(Tail(s)) = Len(s) - 1
  BY HeadTailProperties
<1>3. DOMAIN Tail(s) = 1 .. Len(s) - 1
  BY <1>2, LenProperties
<1>4. \A i \in 1 .. Len(s) - 1 : Tail(s)[i] = s[i + 1]
  BY <1>2, HeadTailProperties
<1>5. Head(s) = s[1] /\ s[1] \in Steps
  BY <1>1, ElementOfSeq
<1> QED BY <1>1, <1>2, <1>3, <1>4, <1>5

LEMMA ConcatOfSteps ==
    ASSUME NEW s \in Seq(Steps), NEW t \in Seq(Steps)
    PROVE  /\ s \o t \in Seq(Steps) /\ Len(s \o t) = Len(s) + Len(t)
           /\ Len(s) \in Nat /\ Len(t) \in Nat
           /\ DOMAIN s = 1 .. Len(s) /\ DOMAIN t = 1 .. Len(t)
           /\ DOMAIN (s \o t) = 1 .. Len(s) + Len(t)
           /\ \A i \in 1 .. Len(s) : (s \o t)[i] = s[i]
           /\ \A i \in 1 .. Len(t) : (s \o t)[Len(s) + i] = t[i]
<1>1. Len(s) \in Nat /\ Len(t) \in Nat /\ DOMAIN s = 1 .. Len(s) /\ DOMAIN t = 1 .. Len(t)
  BY LenProperties
<1>2. /\ s \o t \in Seq(Steps) /\ Len(s \o t) = Len(s) + Len(t)
      /\ \A i \in 1 .. Len(s) + Len(t) : (s \o t)[i] =
            IF i <= Len(s) THEN s[i] ELSE t[i - Len(s)]
  BY ConcatProperties
<1>3. DOMAIN (s \o t) = 1 .. Len(s) + Len(t)
  BY <1>2, LenProperties
<1>4. \A i \in 1 .. Len(s) : (s \o t)[i] = s[i]
  BY <1>1, <1>2
<1>5. \A i \in 1 .. Len(t) : (s \o t)[Len(s) + i] = t[i]
  <2> SUFFICES ASSUME NEW i \in 1 .. Len(t) PROVE (s \o t)[Len(s) + i] = t[i]
    OBVIOUS
  <2>1. Len(s) + i \in 1 .. Len(s) + Len(t) /\ ~(Len(s) + i <= Len(s)) /\ Len(s) + i - Len(s) = i
    BY <1>1
  <2> QED BY <2>1, <1>2
<1> QED BY <1>1, <1>2, <1>3, <1>4, <1>5

LEMMA InsertsSteps ==
    ASSUME NEW nodes \in Seq(Paths)
    PROVE  /\ Inserts(nodes) \in Seq(Steps) /\ Len(Inserts(nodes)) = Len(nodes)
           /\ Len(nodes) \in Nat /\ DOMAIN Inserts(nodes) = 1 .. Len(nodes)
           /\ \A i \in 1 .. Len(nodes) : Inserts(nodes)[i] = Step("insert", nodes[i])
<1>1. Len(nodes) \in Nat /\ DOMAIN nodes = 1 .. Len(nodes)
  BY LenProperties
<1>2. \A i \in 1 .. Len(nodes) : nodes[i] \in Paths
  BY ElementOfSeq
<1>3. \A i \in 1 .. Len(nodes) : Step("insert", nodes[i]) \in Steps
  BY <1>2 DEF Step, Steps
<1>4. Inserts(nodes) \in [1 .. Len(nodes) -> Steps]
  BY <1>1, <1>3 DEF Inserts
<1>5. Inserts(nodes) \in Seq(Steps)
  BY <1>1, <1>4, SeqDef
<1>6. Len(Inserts(nodes)) = Len(nodes)
  BY <1>1, <1>4, <1>5, LenProperties
<1> QED BY <1>1, <1>4, <1>5, <1>6 DEF Inserts

LEMMA PendingTail ==
    ASSUME NEW s \in Seq(Steps), s # <<>>, NEW i \in 2 .. Len(s), NEW p \in Partitions,
           Pending(s, i, p)
    PROVE  Pending(Tail(s), i - 1, p)
<1>1. PICK k \in DOMAIN s :
         /\ k >= i /\ s[k] = Step("add", Type(p))
         /\ \A j \in i .. k - 1 : s[j].op = "insert" /\ IsPrefix(Type(p), s[j].node)
  BY DEF Pending
<1>2. /\ Len(s) \in Nat \ {0} /\ DOMAIN s = 1 .. Len(s) /\ DOMAIN Tail(s) = 1 .. Len(s) - 1
      /\ \A j \in 1 .. Len(s) - 1 : Tail(s)[j] = s[j + 1]
  BY TailOfSteps
<1>3. k - 1 \in DOMAIN Tail(s) /\ k - 1 >= i - 1 /\ Tail(s)[k - 1] = Step("add", Type(p))
  BY <1>1, <1>2
<1>4. ASSUME NEW j \in i - 1 .. (k - 1) - 1
      PROVE  Tail(s)[j].op = "insert" /\ IsPrefix(Type(p), Tail(s)[j].node)
  <2>1. j + 1 \in i .. k - 1 /\ j \in 1 .. Len(s) - 1
    BY <1>1, <1>2
  <2> QED BY <2>1, <1>1, <1>2
<1> QED BY <1>3, <1>4 DEF Pending

LEMMA PendingConcat ==
    ASSUME NEW s \in Seq(Steps), NEW t \in Seq(Steps), NEW p \in Partitions
    PROVE  /\ \A i \in DOMAIN s : Pending(s, i, p) => Pending(s \o t, i, p)
           /\ \A i \in DOMAIN t : Pending(t, i, p) => Pending(s \o t, Len(s) + i, p)
<1> DEFINE st == s \o t
<1>0. /\ st \in Seq(Steps) /\ Len(st) = Len(s) + Len(t)
      /\ Len(s) \in Nat /\ Len(t) \in Nat
      /\ DOMAIN s = 1 .. Len(s) /\ DOMAIN t = 1 .. Len(t)
      /\ DOMAIN st = 1 .. Len(s) + Len(t)
      /\ \A i \in 1 .. Len(s) : st[i] = s[i]
      /\ \A i \in 1 .. Len(t) : st[Len(s) + i] = t[i]
  BY ConcatOfSteps
<1> HIDE DEF st
<1>1. ASSUME NEW i \in DOMAIN s, Pending(s, i, p) PROVE Pending(st, i, p)
  <2>1. PICK k \in DOMAIN s :
           /\ k >= i /\ s[k] = Step("add", Type(p))
           /\ \A j \in i .. k - 1 : s[j].op = "insert" /\ IsPrefix(Type(p), s[j].node)
    BY <1>1 DEF Pending
  <2>2. k \in DOMAIN st /\ st[k] = Step("add", Type(p))
    BY <2>1, <1>0
  <2>3. \A j \in i .. k - 1 : j \in 1 .. Len(s)
    BY <1>0
  <2>4. \A j \in i .. k - 1 : st[j].op = "insert" /\ IsPrefix(Type(p), st[j].node)
    BY <2>1, <2>3, <1>0
  <2> QED BY <2>1, <2>2, <2>4 DEF Pending
<1>2. ASSUME NEW i \in DOMAIN t, Pending(t, i, p) PROVE Pending(st, Len(s) + i, p)
  <2>1. PICK k \in DOMAIN t :
           /\ k >= i /\ t[k] = Step("add", Type(p))
           /\ \A j \in i .. k - 1 : t[j].op = "insert" /\ IsPrefix(Type(p), t[j].node)
    BY <1>2 DEF Pending
  <2>2. /\ Len(s) + k \in DOMAIN st /\ Len(s) + k >= Len(s) + i
        /\ st[Len(s) + k] = Step("add", Type(p))
    BY <2>1, <1>0
  <2>3. ASSUME NEW j \in Len(s) + i .. Len(s) + k - 1
        PROVE  st[j].op = "insert" /\ IsPrefix(Type(p), st[j].node)
    <3>1. j - Len(s) \in i .. k - 1 /\ j - Len(s) \in 1 .. Len(t) /\ Len(s) + (j - Len(s)) = j
      BY <1>0, <2>1
    <3>2. st[j] = t[j - Len(s)]
      BY <3>1, <1>0
    <3> QED BY <3>1, <3>2, <2>1
  <2> QED BY <2>2, <2>3 DEF Pending
<1> QED BY <1>1, <1>2 DEF st

LEMMA InsertedOf ==
    ASSUME NEW s \in Seq(Steps), NEW n
    PROVE  n \in Inserted(s) <=> \E i \in DOMAIN s : s[i].op = "insert" /\ s[i].node = n
BY DEF Inserted, ToSet

LEMMA InsertedTail ==
    ASSUME NEW s \in Seq(Steps), s # <<>>
    PROVE  Inserted(s) = {n \in {s[1].node} : s[1].op = "insert"} \cup Inserted(Tail(s))
<1>1. /\ Len(s) \in Nat \ {0} /\ DOMAIN s = 1 .. Len(s) /\ Tail(s) \in Seq(Steps)
      /\ DOMAIN Tail(s) = 1 .. Len(s) - 1
      /\ \A i \in 1 .. Len(s) - 1 : Tail(s)[i] = s[i + 1]
  BY TailOfSteps
<1>2. ASSUME NEW n, n \in Inserted(s)
      PROVE  (s[1].op = "insert" /\ n = s[1].node) \/ n \in Inserted(Tail(s))
  <2>1. PICK i \in DOMAIN s : s[i].op = "insert" /\ s[i].node = n
    BY <1>2, InsertedOf
  <2>2. CASE i = 1
    BY <2>1, <2>2
  <2>3. CASE i # 1
    <3>1. i - 1 \in DOMAIN Tail(s) /\ Tail(s)[i - 1] = s[i]
      BY <2>3, <1>1
    <3>2. Tail(s)[i - 1].op = "insert" /\ Tail(s)[i - 1].node = n
      BY <3>1, <2>1
    <3>3. Tail(s) \in Seq(Steps)
      BY <1>1
    <3> QED BY <3>1, <3>2, <3>3, InsertedOf
  <2> QED BY <2>2, <2>3
<1>3. ASSUME NEW n, n \in Inserted(Tail(s)) PROVE n \in Inserted(s)
  <2>1. PICK i \in DOMAIN Tail(s) : Tail(s)[i].op = "insert" /\ Tail(s)[i].node = n
    BY <1>1, <1>3, InsertedOf
  <2>2. i + 1 \in DOMAIN s /\ s[i + 1] = Tail(s)[i]
    BY <1>1
  <2> QED BY <2>1, <2>2, InsertedOf
<1>4. s[1].op = "insert" => s[1].node \in Inserted(s)
  BY <1>1, InsertedOf
<1> QED BY <1>2, <1>3, <1>4

LEMMA InsertedConcat ==
    ASSUME NEW s \in Seq(Steps), NEW t \in Seq(Steps)
    PROVE  Inserted(s \o t) = Inserted(s) \cup Inserted(t)
<1> DEFINE st == s \o t
<1>1. /\ st \in Seq(Steps) /\ Len(s) \in Nat /\ Len(t) \in Nat
      /\ DOMAIN s = 1 .. Len(s) /\ DOMAIN t = 1 .. Len(t)
      /\ DOMAIN st = 1 .. Len(s) + Len(t)
      /\ \A i \in 1 .. Len(s) : st[i] = s[i]
      /\ \A i \in 1 .. Len(t) : st[Len(s) + i] = t[i]
  BY ConcatOfSteps
<1> HIDE DEF st
<1>2. ASSUME NEW n, n \in Inserted(st) PROVE n \in Inserted(s) \cup Inserted(t)
  <2>1. PICK i \in DOMAIN st : st[i].op = "insert" /\ st[i].node = n
    BY <1>1, <1>2, InsertedOf
  <2>2. CASE i <= Len(s)
    <3>1. i \in DOMAIN s /\ st[i] = s[i]
      BY <2>2, <1>1
    <3> QED BY <3>1, <2>1, InsertedOf
  <2>3. CASE ~(i <= Len(s))
    <3>1. i - Len(s) \in 1 .. Len(t) /\ Len(s) + (i - Len(s)) = i
      BY <2>3, <1>1
    <3>2. st[i] = t[i - Len(s)] /\ i - Len(s) \in DOMAIN t
      BY <3>1, <1>1
    <3> QED BY <3>2, <2>1, InsertedOf
  <2> QED BY <2>2, <2>3
<1>3. ASSUME NEW n, n \in Inserted(s) PROVE n \in Inserted(st)
  <2>1. PICK i \in DOMAIN s : s[i].op = "insert" /\ s[i].node = n
    BY <1>3, InsertedOf
  <2>2. i \in DOMAIN st /\ st[i] = s[i]
    BY <1>1
  <2> QED BY <2>1, <2>2, <1>1, InsertedOf
<1>4. ASSUME NEW n, n \in Inserted(t) PROVE n \in Inserted(st)
  <2>1. PICK i \in DOMAIN t : t[i].op = "insert" /\ t[i].node = n
    BY <1>4, InsertedOf
  <2>2. Len(s) + i \in DOMAIN st /\ st[Len(s) + i] = t[i]
    BY <1>1
  <2> QED BY <2>1, <2>2, <1>1, InsertedOf
<1>5. Inserted(st) = Inserted(s) \cup Inserted(t)
  BY <1>2, <1>3, <1>4
<1> QED BY <1>5 DEF st

LEMMA InsertedInserts ==
    ASSUME NEW nodes \in Seq(Paths)
    PROVE  Inserted(Inserts(nodes)) = {nodes[i] : i \in 1 .. Len(nodes)}
<1> DEFINE s == Inserts(nodes)
<1>1. /\ s \in Seq(Steps) /\ DOMAIN s = 1 .. Len(nodes)
      /\ \A i \in 1 .. Len(nodes) : s[i] = Step("insert", nodes[i])
  BY InsertsSteps
<1> HIDE DEF s
<1>2. \A i \in DOMAIN s : s[i].op = "insert" /\ s[i].node = nodes[i]
  BY <1>1 DEF Step
<1>3. ASSUME NEW n PROVE n \in Inserted(s) <=> \E i \in 1 .. Len(nodes) : nodes[i] = n
  BY <1>1, <1>2, InsertedOf
<1>4. Inserted(s) = {nodes[i] : i \in 1 .. Len(nodes)}
  BY <1>3
<1> QED BY <1>4 DEF s

LEMMA AddCapabilityNodes ==
    ASSUME NEW cap \in Paths
    PROVE  /\ In(cap, "name") \in Paths /\ <<cap, In(cap, "name")>> \in Seq(Paths)
           /\ AddCapability(cap) \in Seq(Steps) /\ Len(AddCapability(cap)) = 2
           /\ AddCapability(cap)[1] = Step("insert", cap)
           /\ AddCapability(cap)[2] = Step("insert", In(cap, "name"))
           /\ Inserted(AddCapability(cap)) = {cap, In(cap, "name")}
<1> DEFINE nodes == <<cap, In(cap, "name")>>
<1>1. In(cap, "name") \in Paths
  BY InPath DEF Names
<1>2. nodes \in Seq(Paths) /\ Len(nodes) = 2 /\ nodes[1] = cap /\ nodes[2] = In(cap, "name")
  BY <1>1
<1> HIDE DEF nodes
<1>3. /\ Inserts(nodes) \in Seq(Steps) /\ Len(Inserts(nodes)) = 2
      /\ Inserts(nodes)[1] = Step("insert", cap)
      /\ Inserts(nodes)[2] = Step("insert", In(cap, "name"))
  BY <1>2, InsertsSteps
<1>4. Inserted(Inserts(nodes)) = {nodes[i] : i \in 1 .. 2}
  BY <1>2, InsertedInserts
<1>5. Inserted(Inserts(nodes)) = {cap, In(cap, "name")}
  BY <1>2, <1>4
<1> QED BY <1>1, <1>2, <1>3, <1>5 DEF AddCapability, nodes

LEMMA FieldsOf ==
    ASSUME NEW s \in Seq(Steps), NEW n
    PROVE  n \in Fields(s) <=> \E i \in DOMAIN s : n \in Own(s[i])
<1>1. \A i \in DOMAIN s : s[i].node \in Paths
  <2> SUFFICES ASSUME NEW i \in DOMAIN s PROVE s[i].node \in Paths
    OBVIOUS
  <2>1. s[i] \in Steps
    BY LenProperties, ElementOfSeq
  <2> QED BY <2>1 DEF Steps
<1>2. \A i \in DOMAIN s : Inserted(AddCapability(s[i].node)) = {s[i].node, In(s[i].node, "name")}
  BY <1>1, AddCapabilityNodes
<1>3. n \in Fields(s) <=>
        \/ \E i \in DOMAIN s : s[i].op = "insert" /\ s[i].node = n
        \/ \E i \in DOMAIN s : s[i].op = "report" /\ n \in Inserted(AddCapability(s[i].node))
  BY InsertedOf DEF Fields, ToSet
<1> QED BY <1>2, <1>3 DEF Own

LEMMA FieldsTail ==
    ASSUME NEW s \in Seq(Steps), s # <<>>
    PROVE  Fields(s) = Own(s[1]) \cup Fields(Tail(s))
<1>1. /\ Len(s) \in Nat \ {0} /\ DOMAIN s = 1 .. Len(s) /\ Tail(s) \in Seq(Steps)
      /\ DOMAIN Tail(s) = 1 .. Len(s) - 1
      /\ \A i \in 1 .. Len(s) - 1 : Tail(s)[i] = s[i + 1]
  BY TailOfSteps
<1>2. ASSUME NEW n, n \in Fields(s) PROVE n \in Own(s[1]) \/ n \in Fields(Tail(s))
  <2>1. PICK i \in DOMAIN s : n \in Own(s[i])
    BY <1>2, FieldsOf
  <2>2. CASE i = 1
    BY <2>1, <2>2
  <2>3. CASE i # 1
    <3>1. i - 1 \in DOMAIN Tail(s) /\ Tail(s)[i - 1] = s[i]
      BY <2>3, <1>1
    <3> QED BY <3>1, <2>1, <1>1, FieldsOf
  <2> QED BY <2>2, <2>3
<1>3. ASSUME NEW n, n \in Fields(Tail(s)) PROVE n \in Fields(s)
  <2>1. PICK i \in DOMAIN Tail(s) : n \in Own(Tail(s)[i])
    BY <1>1, <1>3, FieldsOf
  <2>2. i + 1 \in DOMAIN s /\ s[i + 1] = Tail(s)[i]
    BY <1>1
  <2> QED BY <2>1, <2>2, FieldsOf
<1>4. \A n \in Own(s[1]) : n \in Fields(s)
  BY <1>1, FieldsOf
<1> QED BY <1>2, <1>3, <1>4

LEMMA FieldsConcat ==
    ASSUME NEW s \in Seq(Steps), NEW t \in Seq(Steps)
    PROVE  Fields(s \o t) = Fields(s) \cup Fields(t)
<1> DEFINE st == s \o t
<1>1. /\ st \in Seq(Steps) /\ Len(s) \in Nat /\ Len(t) \in Nat
      /\ DOMAIN s = 1 .. Len(s) /\ DOMAIN t = 1 .. Len(t)
      /\ DOMAIN st = 1 .. Len(s) + Len(t)
      /\ \A i \in 1 .. Len(s) : st[i] = s[i]
      /\ \A i \in 1 .. Len(t) : st[Len(s) + i] = t[i]
  BY ConcatOfSteps
<1> HIDE DEF st
<1>2. ASSUME NEW n, n \in Fields(st) PROVE n \in Fields(s) \cup Fields(t)
  <2>1. PICK i \in DOMAIN st : n \in Own(st[i])
    BY <1>1, <1>2, FieldsOf
  <2>2. CASE i <= Len(s)
    <3>1. i \in DOMAIN s /\ st[i] = s[i]
      BY <2>2, <1>1
    <3> QED BY <3>1, <2>1, FieldsOf
  <2>3. CASE ~(i <= Len(s))
    <3>1. i - Len(s) \in 1 .. Len(t) /\ Len(s) + (i - Len(s)) = i
      BY <2>3, <1>1
    <3>2. st[i] = t[i - Len(s)] /\ i - Len(s) \in DOMAIN t
      BY <3>1, <1>1
    <3> QED BY <3>2, <2>1, FieldsOf
  <2> QED BY <2>2, <2>3
<1>3. ASSUME NEW n, n \in Fields(s) PROVE n \in Fields(st)
  <2>1. PICK i \in DOMAIN s : n \in Own(s[i])
    BY <1>3, FieldsOf
  <2>2. i \in DOMAIN st /\ st[i] = s[i]
    BY <1>1
  <2> QED BY <2>1, <2>2, <1>1, FieldsOf
<1>4. ASSUME NEW n, n \in Fields(t) PROVE n \in Fields(st)
  <2>1. PICK i \in DOMAIN t : n \in Own(t[i])
    BY <1>4, FieldsOf
  <2>2. Len(s) + i \in DOMAIN st /\ st[Len(s) + i] = t[i]
    BY <1>1
  <2> QED BY <2>1, <2>2, <1>1, FieldsOf
<1>5. Fields(st) = Fields(s) \cup Fields(t)
  BY <1>2, <1>3, <1>4
<1> QED BY <1>5 DEF st

-----------------------------------------------------------------------------
(* Blocks of steps *)

LEMMA BeforeTail ==
    ASSUME NEW s \in Seq(Steps), s # <<>>, NEW i \in 1 .. Len(s) - 1
    PROVE  Before(s, i + 1) =
              {n \in {s[1].node} : s[1].op = "insert"} \cup Before(Tail(s), i)
<1>1. /\ Len(s) \in Nat \ {0}
      /\ \A j \in 1 .. Len(s) - 1 : Tail(s)[j] = s[j + 1]
  BY TailOfSteps
<1>2. ASSUME NEW n, n \in Before(s, i + 1)
      PROVE  (s[1].op = "insert" /\ n = s[1].node) \/ n \in Before(Tail(s), i)
  <2>1. PICK j \in 1 .. i : s[j].op = "insert" /\ s[j].node = n
    BY <1>2 DEF Before
  <2>2. CASE j = 1
    BY <2>1, <2>2
  <2>3. CASE j # 1
    <3>1. j - 1 \in 1 .. i - 1 /\ j - 1 \in 1 .. Len(s) - 1 /\ (j - 1) + 1 = j
      BY <2>3, <1>1
    <3>2. Tail(s)[j - 1] = s[j]
      BY <3>1, <1>1
    <3> QED BY <3>1, <3>2, <2>1 DEF Before
  <2> QED BY <2>2, <2>3
<1>3. ASSUME NEW n, n \in Before(Tail(s), i) PROVE n \in Before(s, i + 1)
  <2>1. PICK j \in 1 .. i - 1 : Tail(s)[j].op = "insert" /\ Tail(s)[j].node = n
    BY <1>3 DEF Before
  <2>2. j + 1 \in 1 .. (i + 1) - 1 /\ s[j + 1] = Tail(s)[j]
    BY <1>1
  <2> QED BY <2>1, <2>2 DEF Before
<1>4. s[1].op = "insert" => s[1].node \in Before(s, i + 1)
  <2>1. 1 \in 1 .. (i + 1) - 1
    BY <1>1
  <2> QED BY <2>1 DEF Before
<1> QED BY <1>2, <1>3, <1>4

LEMMA BlockTail ==
    ASSUME NEW s, NEW nodes, Block(s, nodes), s # <<>>
    PROVE  Block(Tail(s), nodes \cup {n \in {s[1].node} : s[1].op = "insert"})
<1> DEFINE t == Tail(s)
           more == nodes \cup {n \in {s[1].node} : s[1].op = "insert"}
<1>1. s \in Seq(Steps)
  BY DEF Block
<1>2. /\ Len(s) \in Nat \ {0} /\ DOMAIN s = 1 .. Len(s)
      /\ t \in Seq(Steps) /\ Len(t) = Len(s) - 1 /\ DOMAIN t = 1 .. Len(s) - 1
      /\ \A i \in 1 .. Len(s) - 1 : t[i] = s[i + 1]
  BY <1>1, TailOfSteps
<1>3. \A i \in DOMAIN t : i + 1 \in DOMAIN s /\ t[i] = s[i + 1]
  BY <1>2
<1>4. \A i \in DOMAIN t :
         Before(s, i + 1) = {n \in {s[1].node} : s[1].op = "insert"} \cup Before(t, i)
  BY <1>1, <1>2, BeforeTail
<1> HIDE DEF t
<1>5. \A i \in DOMAIN t : OkStep(t[i])
  BY <1>3 DEF Block
<1>6. Fed(t, more)
  <2> SUFFICES ASSUME NEW i \in DOMAIN t PROVE Needs(t[i]) \subseteq more \cup Before(t, i)
    BY DEF Fed
  <2>1. Needs(s[i + 1]) \subseteq nodes \cup Before(s, i + 1)
    BY <1>3 DEF Block, Fed
  <2> QED BY <2>1, <1>3, <1>4
<1>7. Kept(t)
  <2> SUFFICES ASSUME NEW i \in DOMAIN t, NEW p \in Partitions,
                      t[i].op = "insert", IsPrefix(Type(p), t[i].node)
               PROVE  Pending(t, i, p)
    BY DEF Kept
  <2>1. Pending(s, i + 1, p)
    BY <1>3 DEF Block, Kept
  <2>2. i + 1 \in 2 .. Len(s) /\ (i + 1) - 1 = i
    BY <1>2
  <2> QED BY <2>1, <2>2, <1>1, PendingTail DEF t
<1>8. Ordered(t)
  <2> SUFFICES ASSUME NEW j \in DOMAIN t, NEW i \in 1 .. j - 1
               PROVE  /\ t[j].op = "next" => t[i].op \notin {"find", "next"}
                      /\ t[j].op = "add" => t[i].op \notin {"find", "next", "add"}
    BY DEF Ordered
  <2>1. i \in DOMAIN t /\ i + 1 \in 1 .. (j + 1) - 1
    BY <1>2
  <2> QED BY <2>1, <1>3 DEF Block, Ordered
<1> QED BY <1>2, <1>5, <1>6, <1>7, <1>8 DEF Block, t

LEMMA BlockMonotonic ==
    ASSUME NEW s, NEW nodes, NEW more, Block(s, nodes), nodes \subseteq more
    PROVE  Block(s, more)
BY DEF Block, Fed

LEMMA BlockConcat ==
    ASSUME NEW s, NEW t, NEW nodes, Block(s, nodes), Block(t, nodes \cup Inserted(s)),
           \/ \A i \in DOMAIN s : s[i].op \notin {"find", "next", "add"}
           \/ \A i \in DOMAIN t : t[i].op \notin {"next", "add"}
    PROVE  Block(s \o t, nodes)
<1> DEFINE st == s \o t
<1>1. s \in Seq(Steps) /\ t \in Seq(Steps)
  BY DEF Block
<1>2. /\ st \in Seq(Steps) /\ Len(s) \in Nat /\ Len(t) \in Nat
      /\ DOMAIN s = 1 .. Len(s) /\ DOMAIN t = 1 .. Len(t)
      /\ DOMAIN st = 1 .. Len(s) + Len(t)
      /\ \A i \in 1 .. Len(s) : st[i] = s[i]
      /\ \A i \in 1 .. Len(t) : st[Len(s) + i] = t[i]
  BY <1>1, ConcatOfSteps
<1>3. /\ \A p \in Partitions : \A i \in DOMAIN s : Pending(s, i, p) => Pending(st, i, p)
      /\ \A p \in Partitions : \A i \in DOMAIN t : Pending(t, i, p) => Pending(st, Len(s) + i, p)
  BY <1>1, PendingConcat
<1> HIDE DEF st
<1>4. ASSUME NEW i \in DOMAIN st
      PROVE  \/ i \in DOMAIN s /\ st[i] = s[i]
             \/ /\ ~(i <= Len(s)) /\ i - Len(s) \in DOMAIN t /\ st[i] = t[i - Len(s)]
                /\ Len(s) + (i - Len(s)) = i
  <2>1. CASE i <= Len(s)
    BY <2>1, <1>2
  <2>2. CASE ~(i <= Len(s))
    <3>1. i - Len(s) \in 1 .. Len(t) /\ Len(s) + (i - Len(s)) = i
      BY <2>2, <1>2
    <3> QED BY <2>2, <3>1, <1>2
  <2> QED BY <2>1, <2>2
<1>5. \A i \in DOMAIN st : OkStep(st[i])
  BY <1>4 DEF Block
<1>6. \A i \in DOMAIN s : Before(s, i) \subseteq Before(st, i)
  <2> SUFFICES ASSUME NEW i \in DOMAIN s, NEW j \in 1 .. i - 1, s[j].op = "insert"
               PROVE  st[j].op = "insert" /\ st[j].node = s[j].node
    BY DEF Before
  <2>1. j \in 1 .. Len(s)
    BY <1>2
  <2> QED BY <2>1, <1>2
<1>7. \A i \in DOMAIN t : Inserted(s) \cup Before(t, i) \subseteq Before(st, Len(s) + i)
  <2> TAKE i \in DOMAIN t
  <2>1. ASSUME NEW n, n \in Inserted(s) PROVE n \in Before(st, Len(s) + i)
    <3>1. PICK j \in DOMAIN s : s[j].op = "insert" /\ s[j].node = n
      BY <1>1, <2>1, InsertedOf
    <3>2. j \in 1 .. (Len(s) + i) - 1 /\ st[j] = s[j]
      BY <1>2
    <3> QED BY <3>1, <3>2 DEF Before
  <2>2. ASSUME NEW n, n \in Before(t, i) PROVE n \in Before(st, Len(s) + i)
    <3>1. PICK j \in 1 .. i - 1 : t[j].op = "insert" /\ t[j].node = n
      BY <2>2 DEF Before
    <3>2. Len(s) + j \in 1 .. (Len(s) + i) - 1 /\ j \in 1 .. Len(t)
      BY <1>2
    <3>3. st[Len(s) + j] = t[j]
      BY <3>2, <1>2
    <3> QED BY <3>1, <3>2, <3>3 DEF Before
  <2> QED BY <2>1, <2>2
<1>8. Fed(st, nodes)
  <2> SUFFICES ASSUME NEW i \in DOMAIN st PROVE Needs(st[i]) \subseteq nodes \cup Before(st, i)
    BY DEF Fed
  <2>1. CASE i \in DOMAIN s /\ st[i] = s[i]
    <3>1. Needs(s[i]) \subseteq nodes \cup Before(s, i)
      BY <2>1 DEF Block, Fed
    <3> QED BY <3>1, <2>1, <1>6
  <2>2. CASE i - Len(s) \in DOMAIN t /\ st[i] = t[i - Len(s)] /\ Len(s) + (i - Len(s)) = i
    <3>1. Needs(t[i - Len(s)]) \subseteq (nodes \cup Inserted(s)) \cup Before(t, i - Len(s))
      BY <2>2 DEF Block, Fed
    <3>2. Inserted(s) \cup Before(t, i - Len(s)) \subseteq Before(st, i)
      BY <2>2, <1>7
    <3> QED BY <3>1, <3>2, <2>2
  <2> QED BY <2>1, <2>2, <1>4
<1>9. Kept(st)
  <2> SUFFICES ASSUME NEW i \in DOMAIN st, NEW p \in Partitions,
                      st[i].op = "insert", IsPrefix(Type(p), st[i].node)
               PROVE  Pending(st, i, p)
    BY DEF Kept
  <2>1. CASE i \in DOMAIN s /\ st[i] = s[i]
    <3>1. Pending(s, i, p)
      BY <2>1 DEF Block, Kept
    <3> QED BY <3>1, <2>1, <1>3
  <2>2. CASE i - Len(s) \in DOMAIN t /\ st[i] = t[i - Len(s)] /\ Len(s) + (i - Len(s)) = i
    <3>1. Pending(t, i - Len(s), p)
      BY <2>2 DEF Block, Kept
    <3>2. Pending(st, Len(s) + (i - Len(s)), p)
      BY <3>1, <2>2, <1>3
    <3> QED BY <3>2, <2>2
  <2> QED BY <2>1, <2>2, <1>4
<1>10. Ordered(st)
  <2> SUFFICES ASSUME NEW j \in DOMAIN st, NEW i \in 1 .. j - 1
               PROVE  /\ st[j].op = "next" => st[i].op \notin {"find", "next"}
                      /\ st[j].op = "add" => st[i].op \notin {"find", "next", "add"}
    BY DEF Ordered
  <2>1. i \in DOMAIN st
    BY <1>2
  <2>2. CASE j \in DOMAIN s /\ st[j] = s[j]
    <3>1. i \in DOMAIN s /\ st[i] = s[i]
      BY <2>2, <1>2
    <3> QED BY <3>1, <2>2 DEF Block, Ordered
  <2>3. CASE ~(j <= Len(s)) /\ j - Len(s) \in DOMAIN t /\ st[j] = t[j - Len(s)]
    <3>1. CASE i \in DOMAIN s /\ st[i] = s[i]
      BY <2>3, <3>1
    <3>2. CASE ~(i <= Len(s)) /\ i - Len(s) \in DOMAIN t /\ st[i] = t[i - Len(s)]
      <4>1. i - Len(s) \in 1 .. (j - Len(s)) - 1
        BY <3>2, <2>3, <1>2
      <4> QED BY <4>1, <3>2, <2>3 DEF Block, Ordered
    <3> QED BY <3>1, <3>2, <2>1, <1>4
  <2> QED BY <2>2, <2>3, <1>4
<1> QED BY <1>2, <1>5, <1>8, <1>9, <1>10 DEF Block, st

LEMMA EndedTail ==
    ASSUME NEW s \in Seq(Steps), s # <<>>, Ended(s), s[1].op # "print"
    PROVE  Ended(Tail(s)) /\ Tail(s) # <<>>
<1>1. /\ Len(s) \in Nat \ {0} /\ DOMAIN s = 1 .. Len(s)
      /\ Tail(s) \in Seq(Steps) /\ Len(Tail(s)) = Len(s) - 1 /\ DOMAIN Tail(s) = 1 .. Len(s) - 1
      /\ \A i \in 1 .. Len(s) - 1 : Tail(s)[i] = s[i + 1]
  BY TailOfSteps
<1>2. Len(s) # 1
  BY <1>1 DEF Ended
<1>3. Tail(s) # <<>>
  <2>1. Len(Tail(s)) # 0
    BY <1>1, <1>2
  <2> QED BY <2>1, EmptySeq
<1>4. \A i \in DOMAIN Tail(s) : i + 1 \in DOMAIN s /\ Tail(s)[i] = s[i + 1]
  BY <1>1
<1>5. \A i \in DOMAIN Tail(s) : i = Len(Tail(s)) <=> i + 1 = Len(s)
  BY <1>1
<1> QED BY <1>3, <1>4, <1>5 DEF Ended

LEMMA EndedConcat ==
    ASSUME NEW s \in Seq(Steps), NEW t \in Seq(Steps), t # <<>>, Ended(t),
           \A i \in DOMAIN s : s[i].op # "print"
    PROVE  Ended(s \o t) /\ s \o t # <<>>
<1> DEFINE st == s \o t
<1>1. /\ st \in Seq(Steps) /\ Len(st) = Len(s) + Len(t) /\ Len(s) \in Nat
      /\ DOMAIN s = 1 .. Len(s) /\ DOMAIN t = 1 .. Len(t)
      /\ DOMAIN st = 1 .. Len(s) + Len(t)
      /\ \A i \in 1 .. Len(s) : st[i] = s[i]
      /\ \A i \in 1 .. Len(t) : st[Len(s) + i] = t[i]
  BY ConcatOfSteps
<1>2. Len(t) \in Nat \ {0}
  BY EmptySeq
<1> HIDE DEF st
<1>3. st # <<>>
  BY <1>1, <1>2
<1>4. ASSUME NEW i \in DOMAIN st PROVE st[i].op = "print" <=> i = Len(st)
  <2>1. CASE i <= Len(s)
    <3>1. i \in DOMAIN s /\ st[i] = s[i] /\ i # Len(st)
      BY <2>1, <1>1, <1>2
    <3> QED BY <3>1
  <2>2. CASE ~(i <= Len(s))
    <3>1. i - Len(s) \in 1 .. Len(t) /\ Len(s) + (i - Len(s)) = i
          /\ (i - Len(s) = Len(t) <=> i = Len(st))
      BY <2>2, <1>1, <1>2
    <3>2. st[i] = t[i - Len(s)] /\ i - Len(s) \in DOMAIN t
      BY <3>1, <1>1
    <3> QED BY <3>1, <3>2 DEF Ended
  <2> QED BY <2>1, <2>2
<1> QED BY <1>3, <1>4 DEF Ended, st

-----------------------------------------------------------------------------
(* The builders *)

(* A node that is not in a row of the list of partitions *)
Outside(node) == node \in Paths /\ Depth(node) < 5 /\ \A p \in Partitions : node # Row(p)

(* Steps of a builder outside the loop over the partitions *)
Plain(steps, nodes) ==
    /\ Block(steps, nodes)
    /\ \A i \in DOMAIN steps :
          /\ steps[i].op \in {"insert", "report", "find"}
          /\ \A n \in Own(steps[i]) : Outside(n)

LEMMA OutsideTypes ==
    ASSUME NEW n, Outside(n), NEW p \in Partitions
    PROVE  ~IsPrefix(Type(p), n)
<1>1. n \in Paths /\ Type(p) \in Paths /\ Depth(Type(p)) = 5
  BY RowPath DEF Outside
<1>2. Depth(n) \in Nat /\ Depth(n) < 5
  BY <1>1, LenProperties DEF Outside, Paths, Depth
<1> QED BY <1>1, <1>2, BelowPath

LEMMA Shallow ==
    ASSUME NEW n \in Paths, Depth(n) < 4
    PROVE  Outside(n)
<1>1. Depth(n) \in Nat
  BY LenProperties DEF Paths, Depth
<1> QED BY <1>1, RowPath DEF Outside

LEMMA InsertsPlain ==
    ASSUME NEW nodes \in Seq(Paths), NEW given,
           \A i \in 1 .. Len(nodes) :
              /\ Outside(nodes[i])
              /\ \/ nodes[i] = Root \/ Parent(nodes[i]) \in given
                 \/ \E j \in 1 .. i - 1 : Parent(nodes[i]) = nodes[j]
    PROVE  /\ Plain(Inserts(nodes), given)
           /\ Inserted(Inserts(nodes)) = {nodes[i] : i \in 1 .. Len(nodes)}
<1> DEFINE s == Inserts(nodes)
<1>1. /\ s \in Seq(Steps) /\ Len(nodes) \in Nat /\ DOMAIN s = 1 .. Len(nodes)
      /\ \A i \in 1 .. Len(nodes) : s[i] = Step("insert", nodes[i])
  BY InsertsSteps
<1>2. \A i \in 1 .. Len(nodes) : s[i] \in Steps
  BY <1>1, ElementOfSeq, LenProperties
<1> HIDE DEF s
<1>3. \A i \in 1 .. Len(nodes) : s[i].op = "insert" /\ s[i].node = nodes[i]
  BY <1>1 DEF Step
<1>4. \A i \in DOMAIN s : OkStep(s[i])
  BY <1>1, <1>2, <1>3 DEF OkStep
<1>5. Fed(s, given)
  <2> SUFFICES ASSUME NEW i \in DOMAIN s PROVE Needs(s[i]) \subseteq given \cup Before(s, i)
    BY DEF Fed
  <2>1. Needs(s[i]) = IF nodes[i] # Root THEN {Parent(nodes[i])} ELSE {}
    BY <1>1, <1>3 DEF Needs
  <2>2. ASSUME NEW j \in 1 .. i - 1 PROVE nodes[j] \in Before(s, i)
    <3>1. j \in 1 .. Len(nodes)
      BY <1>1
    <3>2. s[j].op = "insert" /\ s[j].node = nodes[j]
      BY <3>1, <1>3
    <3> QED BY <3>2 DEF Before
  <2> QED BY <2>1, <2>2, <1>1
<1>6. Kept(s)
  BY <1>1, <1>3, OutsideTypes DEF Kept
<1>7. Ordered(s)
  BY <1>1, <1>3 DEF Ordered
<1>8. \A i \in DOMAIN s : s[i].op = "insert" /\ \A n \in Own(s[i]) : Outside(n)
  BY <1>1, <1>3 DEF Own
<1>9. Plain(s, given)
  BY <1>1, <1>4, <1>5, <1>6, <1>7, <1>8 DEF Plain, Block
<1> QED BY <1>9, InsertedInserts DEF s

LEMMA PlainConcat ==
    ASSUME NEW s, NEW t, NEW nodes, Plain(s, nodes), Plain(t, nodes \cup Inserted(s))
    PROVE  Plain(s \o t, nodes) /\ Inserted(s \o t) = Inserted(s) \cup Inserted(t)
<1> DEFINE st == s \o t
<1>1. s \in Seq(Steps) /\ t \in Seq(Steps)
  BY DEF Plain, Block
<1>2. Block(st, nodes)
  BY BlockConcat DEF Plain
<1>3. /\ Len(s) \in Nat /\ Len(t) \in Nat /\ DOMAIN s = 1 .. Len(s) /\ DOMAIN t = 1 .. Len(t)
      /\ DOMAIN st = 1 .. Len(s) + Len(t)
      /\ \A i \in 1 .. Len(s) : st[i] = s[i]
      /\ \A i \in 1 .. Len(t) : st[Len(s) + i] = t[i]
  BY <1>1, ConcatOfSteps
<1> HIDE DEF st
<1>4. ASSUME NEW i \in DOMAIN st
      PROVE  (\E j \in DOMAIN s : st[i] = s[j]) \/ (\E j \in DOMAIN t : st[i] = t[j])
  <2>1. CASE i <= Len(s)
    BY <2>1, <1>3
  <2>2. CASE ~(i <= Len(s))
    <3>1. i - Len(s) \in 1 .. Len(t) /\ Len(s) + (i - Len(s)) = i
      BY <2>2, <1>3
    <3> QED BY <3>1, <1>3
  <2> QED BY <2>1, <2>2
<1>5. Plain(st, nodes)
  BY <1>2, <1>4 DEF Plain
<1> QED BY <1>1, <1>5, InsertedConcat DEF st

(* A builder: its steps, and the message is printed. *)
LEMMA UnformattedLast ==
    ASSUME NEW s, Plain(s, {})
    PROVE  /\ Block(s \o Unformatted, {}) /\ Ended(s \o Unformatted)
           /\ s \o Unformatted # <<>>
           /\ \A i \in DOMAIN (s \o Unformatted) :
                 (s \o Unformatted)[i].op \notin {"next", "add", "obtain"}
           /\ \A n \in Fields(s \o Unformatted) : Outside(n)
<1> DEFINE t == Unformatted
           st == s \o t
<1>1. s \in Seq(Steps)
  BY DEF Plain, Block
<1>2. Step("print", Root) \in Steps
  BY RootPath DEF Step, Steps
<1>3. t \in Seq(Steps) /\ Len(t) = 1 /\ DOMAIN t = 1 .. 1 /\ t[1] = Step("print", Root) /\ t # <<>>
  BY <1>2 DEF Unformatted
<1> HIDE DEF t
<1>4. t[1].op = "print" /\ t[1].node = Root
  BY <1>3 DEF Step
<1>5. \A i \in DOMAIN t : t[i] = t[1]
  BY <1>3
<1>6. Block(t, Inserted(s))
  <2>1. \A i \in DOMAIN t : OkStep(t[i])
    BY <1>2, <1>3, <1>4, <1>5 DEF OkStep
  <2>2. Fed(t, Inserted(s))
    BY <1>4, <1>5 DEF Fed, Needs
  <2>3. Kept(t) /\ Ordered(t)
    BY <1>4, <1>5 DEF Kept, Ordered
  <2> QED BY <1>3, <2>1, <2>2, <2>3 DEF Block
<1>7. Block(st, {})
  <2>1. {} \cup Inserted(s) = Inserted(s)
    OBVIOUS
  <2> QED BY <1>4, <1>5, <1>6, <2>1, BlockConcat DEF Plain
<1>8. Ended(t)
  BY <1>3, <1>4 DEF Ended
<1>9. Ended(st) /\ st # <<>>
  BY <1>1, <1>3, <1>8, EndedConcat DEF Plain
<1>10. /\ Len(s) \in Nat /\ DOMAIN s = 1 .. Len(s) /\ DOMAIN st = 1 .. Len(s) + 1
       /\ \A i \in 1 .. Len(s) : st[i] = s[i]
       /\ st[Len(s) + 1] = t[1]
  BY <1>1, <1>3, ConcatOfSteps
<1> HIDE DEF st
<1>11. \A i \in DOMAIN st : (i \in DOMAIN s /\ st[i] = s[i]) \/ st[i] = t[1]
  BY <1>10
<1>12. \A i \in DOMAIN st : st[i].op \notin {"next", "add", "obtain"}
  BY <1>4, <1>11 DEF Plain
<1>13. st \in Seq(Steps)
  BY <1>7 DEF Block
<1>14. Own(t[1]) = {}
  BY <1>4 DEF Own
<1>15. \A n \in Fields(st) : Outside(n)
  BY <1>11, <1>13, <1>14, FieldsOf DEF Plain
<1> QED BY <1>7, <1>9, <1>12, <1>15 DEF st, t

LEMMA LiteralNames ==
    {"state", "wifi", "rssi", "start_epoch_time_ms", "heap_integrity_sound",
     "heap_capabilities", "name", "software", "app_desc", "magic_word", "app_elf_sha256",
     "bytes", "partitions", "is_rollback_possible", "list", "app", "data", "idf_version",
     "major", "efuse", "err", "mac_default", "chip", "model", "features", "names",
     "type", "subtype", "flash_chip_id", "address"} \subseteq Names
BY DEF Names

LEMMA RootPlain ==
    Plain(Inserts(<<Root>>), {}) /\ Inserted(Inserts(<<Root>>)) = {Root}
<1> DEFINE nodes == <<Root>>
<1>1. nodes \in Seq(Paths) /\ Len(nodes) = 1 /\ nodes[1] = Root
  BY RootPath
<1>2. Outside(Root)
  BY RootPath, Shallow
<1> HIDE DEF nodes
<1>3. \A i \in 1 .. Len(nodes) : Outside(nodes[i]) /\ nodes[i] = Root
  BY <1>1, <1>2
<1>4. /\ Plain(Inserts(nodes), {})
      /\ Inserted(Inserts(nodes)) = {nodes[i] : i \in 1 .. Len(nodes)}
  BY <1>1, <1>3, InsertsPlain
<1>5. Inserted(Inserts(nodes)) = {Root}
  BY <1>1, <1>4
<1> QED BY <1>4, <1>5 DEF nodes

LEMMA StatePlain ==
    /\ Plain(Inserts(<<Root, In(Root, "state")>>), {})
    /\ Plain(Inserts(<<Root, In(Root, "start_epoch_time_ms")>>), {})
    /\ Plain(Inserts(<<Root, In(Root, "state"), Wifi, In(Wifi, "rssi")>>), {})
<1>1. ASSUME NEW name \in Names PROVE Plain(Inserts(<<Root, In(Root, name)>>), {})
  <2> DEFINE nodes == <<Root, In(Root, name)>>
  <2>1. /\ In(Root, name) \in Paths /\ Parent(In(Root, name)) = Root
        /\ Depth(In(Root, name)) = 1
    BY RootPath, InPath
  <2>2. nodes \in Seq(Paths) /\ Len(nodes) = 2 /\ nodes[1] = Root /\ nodes[2] = In(Root, name)
    BY <2>1, RootPath
  <2>3. Outside(Root) /\ Outside(In(Root, name))
    BY <2>1, RootPath, Shallow
  <2> HIDE DEF nodes
  <2>4. \A i \in 1 .. Len(nodes) :
          /\ Outside(nodes[i])
          /\ nodes[i] = Root \/ \E j \in 1 .. i - 1 : Parent(nodes[i]) = nodes[j]
    BY <2>1, <2>2, <2>3
  <2>5. Plain(Inserts(nodes), {})
    BY <2>2, <2>4, InsertsPlain
  <2> QED BY <2>5 DEF nodes
<1>2. Plain(Inserts(<<Root, In(Root, "state"), Wifi, In(Wifi, "rssi")>>), {})
  <2> DEFINE nodes == <<Root, In(Root, "state"), Wifi, In(Wifi, "rssi")>>
  <2>1. /\ Wifi \in Paths /\ Parent(Wifi) = Root /\ Depth(Wifi) = 1
        /\ In(Root, "state") \in Paths /\ Parent(In(Root, "state")) = Root
        /\ Depth(In(Root, "state")) = 1
    BY RootPath, LiteralNames, InPath DEF Wifi
  <2>2. /\ In(Wifi, "rssi") \in Paths /\ Parent(In(Wifi, "rssi")) = Wifi
        /\ Depth(In(Wifi, "rssi")) = 2
    BY <2>1, LiteralNames, InPath
  <2>3. /\ nodes \in Seq(Paths) /\ Len(nodes) = 4 /\ nodes[1] = Root
        /\ nodes[2] = In(Root, "state") /\ nodes[3] = Wifi /\ nodes[4] = In(Wifi, "rssi")
    BY <2>1, <2>2, RootPath
  <2>4. Outside(Root) /\ Outside(In(Root, "state")) /\ Outside(Wifi) /\ Outside(In(Wifi, "rssi"))
    BY <2>1, <2>2, RootPath, Shallow
  <2> HIDE DEF nodes
  <2>5. \A i \in 1 .. Len(nodes) :
          /\ Outside(nodes[i])
          /\ nodes[i] = Root \/ \E j \in 1 .. i - 1 : Parent(nodes[i]) = nodes[j]
    BY <2>1, <2>2, <2>3, <2>4
  <2>6. Plain(Inserts(nodes), {})
    BY <2>3, <2>5, InsertsPlain
  <2> QED BY <2>6 DEF nodes
<1> QED BY <1>1, <1>2, LiteralNames

LEMMA ObtainSteps ==
    LET s == [i \in DOMAIN Caps |-> Step("obtain", Root)]
    IN  /\ s \in Seq(Steps) /\ Block(s, {}) /\ Inserted(s) = {} /\ Fields(s) = {}
        /\ \A i \in DOMAIN s : s[i].op = "obtain"
<1> DEFINE s == [i \in DOMAIN Caps |-> Step("obtain", Root)]
<1>1. Step("obtain", Root) \in Steps /\ Step("obtain", Root).op = "obtain"
  BY RootPath DEF Step, Steps
<1>2. s \in Seq(Steps) /\ \A i \in DOMAIN s : s[i] = Step("obtain", Root)
  <2>1. Len(Caps) \in Nat /\ DOMAIN Caps = 1 .. Len(Caps)
    BY JsonAssumption, LenProperties
  <2>2. s \in [1 .. Len(Caps) -> Steps]
    BY <1>1, <2>1
  <2> QED BY <2>1, <2>2, SeqDef
<1> HIDE DEF s
<1>3. \A i \in DOMAIN s : s[i].op = "obtain" /\ s[i] \in Steps
  BY <1>1, <1>2
<1>4. \A i \in DOMAIN s : OkStep(s[i]) /\ Needs(s[i]) = {} /\ Own(s[i]) = {}
  BY <1>3 DEF OkStep, Needs, Own
<1>5. Fed(s, {}) /\ Kept(s)
  BY <1>3, <1>4 DEF Fed, Kept
<1>6. Ordered(s)
  BY <1>3 DEF Ordered
<1>7. Block(s, {})
  BY <1>2, <1>3, <1>4, <1>5, <1>6 DEF Block
<1>8. Inserted(s) = {} /\ Fields(s) = {}
  BY <1>2, <1>3, <1>4, InsertedOf, FieldsOf
<1> QED BY <1>2, <1>3, <1>7, <1>8 DEF s

LEMMA CapabilitiesPath ==
    /\ Capabilities \in Paths /\ Parent(Capabilities) = Root
    /\ Depth(Capabilities) = 1
BY RootPath, LiteralNames, InPath DEF Capabilities

LEMMA CapPath ==
    ASSUME NEW c \in ToSet(Caps)
    PROVE  LET cap == In(Capabilities, c)
           IN  /\ cap \in Paths /\ cap # Root /\ Parent(cap) = Capabilities /\ Depth(cap) = 2
               /\ In(cap, "name") \in Paths /\ In(cap, "name") # Root
               /\ Parent(In(cap, "name")) = cap /\ Depth(In(cap, "name")) = 3
<1>1. c \in Names
  BY DEF Names
<1>2. LET cap == In(Capabilities, c)
      IN  cap \in Paths /\ cap # Root /\ Parent(cap) = Capabilities /\ Depth(cap) = 2
  BY <1>1, CapabilitiesPath, InPath
<1> QED BY <1>2, LiteralNames, InPath

LEMMA ReportPlain ==
    ASSUME NEW given, Capabilities \in given
    PROVE  Plain([i \in DOMAIN Caps |-> Step("report", In(Capabilities, Caps[i]))], given)
<1> DEFINE s == [i \in DOMAIN Caps |-> Step("report", In(Capabilities, Caps[i]))]
<1>1. Len(Caps) \in Nat /\ DOMAIN Caps = 1 .. Len(Caps)
  BY JsonAssumption, LenProperties
<1>2. \A i \in DOMAIN Caps : Caps[i] \in ToSet(Caps)
  BY DEF ToSet
<1>3. \A i \in DOMAIN Caps : In(Capabilities, Caps[i]) \in Paths
  BY <1>2, CapPath
<1>4. \A i \in DOMAIN Caps : Step("report", In(Capabilities, Caps[i])) \in Steps
  BY <1>3 DEF Step, Steps
<1>5. s \in Seq(Steps)
  <2>1. s \in [1 .. Len(Caps) -> Steps]
    BY <1>1, <1>4
  <2> QED BY <1>1, <2>1, SeqDef
<1>6. \A i \in DOMAIN s : i \in DOMAIN Caps /\ s[i] = Step("report", In(Capabilities, Caps[i]))
  OBVIOUS
<1> HIDE DEF s
<1>7. \A i \in DOMAIN s :
        s[i] \in Steps /\ s[i].op = "report" /\ s[i].node = In(Capabilities, Caps[i])
  BY <1>4, <1>6 DEF Step
<1>8. \A i \in DOMAIN s : OkStep(s[i])
  BY <1>2, <1>6, <1>7 DEF OkStep
<1>9. \A i \in DOMAIN s : Needs(s[i]) = {Capabilities}
  BY <1>2, <1>6, <1>7, CapPath DEF Needs
<1>10. \A i \in DOMAIN s : \A n \in Own(s[i]) : Outside(n)
  <2> TAKE i \in DOMAIN s
  <2> DEFINE cap == In(Capabilities, Caps[i])
  <2>1. Own(s[i]) = {cap, In(cap, "name")}
    BY <1>7 DEF Own
  <2>2. cap \in Paths /\ Depth(cap) = 2 /\ In(cap, "name") \in Paths /\ Depth(In(cap, "name")) = 3
    BY <1>2, <1>6, CapPath
  <2>3. Outside(cap) /\ Outside(In(cap, "name"))
    BY <2>2, Shallow
  <2> QED BY <2>1, <2>3
<1>11. Fed(s, given)
  BY <1>9 DEF Fed
<1>12. Kept(s)
  BY <1>7 DEF Kept
<1>13. Ordered(s)
  <2>1. \A j \in DOMAIN s : s[j].op # "next" /\ s[j].op # "add"
    BY <1>7
  <2> QED BY <2>1 DEF Ordered
<1>14. Plain(s, given)
  BY <1>5, <1>7, <1>8, <1>10, <1>11, <1>12, <1>13 DEF Plain, Block
<1> QED BY <1>14 DEF s

LEMMA MemCheckPlain ==
    LET t == Inserts(<<Root, In(Root, "heap_integrity_sound"), Capabilities>>)
        u == [i \in DOMAIN Caps |-> Step("report", In(Capabilities, Caps[i]))]
    IN  t \in Seq(Steps) /\ u \in Seq(Steps) /\ Plain(t \o u, {})
<1> DEFINE sound == In(Root, "heap_integrity_sound")
           nodes == <<Root, sound, Capabilities>>
           report == [i \in DOMAIN Caps |-> Step("report", In(Capabilities, Caps[i]))]
<1>1. sound \in Paths /\ Parent(sound) = Root /\ Depth(sound) = 1
  BY RootPath, LiteralNames, InPath
<1>2. Outside(Root) /\ Outside(sound) /\ Outside(Capabilities)
  BY <1>1, RootPath, CapabilitiesPath, Shallow
<1>3. /\ nodes \in Seq(Paths) /\ Len(nodes) = 3
      /\ nodes[1] = Root /\ nodes[2] = sound /\ nodes[3] = Capabilities
  BY <1>1, RootPath, CapabilitiesPath
<1> HIDE DEF sound, nodes
<1>4. \A i \in 1 .. Len(nodes) :
        /\ Outside(nodes[i])
        /\ nodes[i] = Root \/ \E j \in 1 .. i - 1 : Parent(nodes[i]) = nodes[j]
  BY <1>1, <1>2, <1>3, CapabilitiesPath
<1>5. /\ Plain(Inserts(nodes), {})
      /\ Inserted(Inserts(nodes)) = {nodes[i] : i \in 1 .. Len(nodes)}
  BY <1>3, <1>4, InsertsPlain
<1>6. Capabilities \in {} \cup Inserted(Inserts(nodes))
  BY <1>3, <1>5
<1>7. Plain(report, {} \cup Inserted(Inserts(nodes)))
  BY <1>6, ReportPlain
<1> HIDE DEF report
<1>8. Plain(Inserts(nodes) \o report, {})
  BY <1>5, <1>7, PlainConcat
<1>9. Inserts(nodes) \in Seq(Steps) /\ report \in Seq(Steps)
  BY <1>5, <1>7 DEF Plain, Block
<1> QED BY <1>8, <1>9 DEF nodes, sound, report

LEMMA FindPlain ==
    ASSUME NEW given, List \in given
    PROVE  LET s == <<Step("find", In(Root, "app")), Step("find", In(Root, "data"))>>
           IN  Plain(s, given) /\ Inserted(s) = {}
<1> DEFINE app == In(Root, "app")
           data == In(Root, "data")
           s == <<Step("find", app), Step("find", data)>>
<1>1. app \in Paths /\ data \in Paths
  BY RootPath, LiteralNames, InPath
<1> HIDE DEF app, data
<1>2. Step("find", app) \in Steps /\ Step("find", data) \in Steps
  BY <1>1 DEF Step, Steps
<1>3. s \in Seq(Steps) /\ \A i \in DOMAIN s : s[i] \in Steps
  BY <1>2
<1>4. \A i \in DOMAIN s : s[i] = Step("find", app) \/ s[i] = Step("find", data)
  OBVIOUS
<1> HIDE DEF s
<1>5. \A i \in DOMAIN s : s[i].op = "find"
  BY <1>4 DEF Step
<1>6. \A i \in DOMAIN s : OkStep(s[i]) /\ Needs(s[i]) = {List} /\ Own(s[i]) = {}
  BY <1>3, <1>5 DEF OkStep, Needs, Own
<1>7. Fed(s, given) /\ Kept(s)
  BY <1>5, <1>6 DEF Fed, Kept
<1>8. Ordered(s)
  <2>1. \A j \in DOMAIN s : s[j].op # "next" /\ s[j].op # "add"
    BY <1>5
  <2> QED BY <2>1 DEF Ordered
<1>9. Plain(s, given)
  BY <1>3, <1>5, <1>6, <1>7, <1>8 DEF Plain, Block
<1>10. Inserted(s) = {}
  BY <1>3, <1>5, InsertedOf
<1> QED BY <1>9, <1>10 DEF s, app, data

LEMMA SoftwarePaths ==
    /\ AppDesc \in Paths /\ Parent(AppDesc) = Software /\ Depth(AppDesc) = 2
    /\ In(AppDesc, "magic_word") \in Paths /\ Depth(In(AppDesc, "magic_word")) = 3
    /\ Parent(In(AppDesc, "magic_word")) = AppDesc
    /\ Sha256 \in Paths /\ Parent(Sha256) = AppDesc /\ Depth(Sha256) = 3
    /\ In(Sha256, "bytes") \in Paths /\ Depth(In(Sha256, "bytes")) = 4
    /\ Parent(In(Sha256, "bytes")) = Sha256
    /\ In(PartitionInfo, "is_rollback_possible") \in Paths
    /\ Depth(In(PartitionInfo, "is_rollback_possible")) = 3
    /\ Parent(In(PartitionInfo, "is_rollback_possible")) = PartitionInfo
    /\ IdfVersion \in Paths /\ Parent(IdfVersion) = Software /\ Depth(IdfVersion) = 2
    /\ In(IdfVersion, "major") \in Paths /\ Depth(In(IdfVersion, "major")) = 3
    /\ Parent(In(IdfVersion, "major")) = IdfVersion
<1>1. AppDesc \in Paths /\ Parent(AppDesc) = Software /\ Depth(AppDesc) = 2
  BY ListPaths, LiteralNames, InPath DEF AppDesc
<1>2. IdfVersion \in Paths /\ Parent(IdfVersion) = Software /\ Depth(IdfVersion) = 2
  BY ListPaths, LiteralNames, InPath DEF IdfVersion
<1>3. Sha256 \in Paths /\ Parent(Sha256) = AppDesc /\ Depth(Sha256) = 3
  BY <1>1, LiteralNames, InPath DEF Sha256
<1>4. /\ In(Sha256, "bytes") \in Paths /\ Depth(In(Sha256, "bytes")) = 4
      /\ Parent(In(Sha256, "bytes")) = Sha256
  BY <1>3, LiteralNames, InPath
<1>5. /\ In(AppDesc, "magic_word") \in Paths /\ Depth(In(AppDesc, "magic_word")) = 3
      /\ Parent(In(AppDesc, "magic_word")) = AppDesc
  BY <1>1, LiteralNames, InPath
<1>6. /\ In(PartitionInfo, "is_rollback_possible") \in Paths
      /\ Depth(In(PartitionInfo, "is_rollback_possible")) = 3
      /\ Parent(In(PartitionInfo, "is_rollback_possible")) = PartitionInfo
  BY ListPaths, LiteralNames, InPath
<1>7. /\ In(IdfVersion, "major") \in Paths /\ Depth(In(IdfVersion, "major")) = 3
      /\ Parent(In(IdfVersion, "major")) = IdfVersion
  BY <1>2, LiteralNames, InPath
<1> QED BY <1>1, <1>2, <1>3, <1>4, <1>5, <1>6, <1>7

(* The one leaf at the depth of a row is in another container. *)
LEMMA BytesOutside == Outside(In(Sha256, "bytes"))
<1>1. AppDesc # PartitionInfo
  BY ListPaths, LiteralNames, InInjective DEF AppDesc, PartitionInfo
<1>2. Sha256 # List
  BY <1>1, ListPaths, SoftwarePaths
<1>3. \A p \in Partitions : In(Sha256, "bytes") # Row(p)
  BY <1>2, SoftwarePaths, RowPath
<1> QED BY <1>3, SoftwarePaths DEF Outside

LEMMA SoftwarePlain ==
    ASSUME NEW given, Root \in given
    PROVE  Plain(software, given)
<1> DEFINE magic == In(AppDesc, "magic_word")
           bytes == In(Sha256, "bytes")
           rollback == In(PartitionInfo, "is_rollback_possible")
           nodes == <<Software, AppDesc, magic, Sha256, bytes, PartitionInfo, rollback, List>>
           find == <<Step("find", In(Root, "app")), Step("find", In(Root, "data"))>>
           major == In(IdfVersion, "major")
           idf == <<IdfVersion, major>>
<1>1. /\ magic \in Paths /\ Parent(magic) = AppDesc /\ Depth(magic) = 3
      /\ bytes \in Paths /\ Parent(bytes) = Sha256 /\ Outside(bytes)
      /\ rollback \in Paths /\ Parent(rollback) = PartitionInfo /\ Depth(rollback) = 3
      /\ major \in Paths /\ Parent(major) = IdfVersion /\ Depth(major) = 3
  BY SoftwarePaths, BytesOutside
<1> HIDE DEF magic, bytes, rollback, major
<1>2. /\ nodes \in Seq(Paths) /\ Len(nodes) = 8
      /\ nodes[1] = Software /\ nodes[2] = AppDesc /\ nodes[3] = magic /\ nodes[4] = Sha256
      /\ nodes[5] = bytes /\ nodes[6] = PartitionInfo /\ nodes[7] = rollback /\ nodes[8] = List
  BY <1>1, SoftwarePaths, ListPaths
<1>3. idf \in Seq(Paths) /\ Len(idf) = 2 /\ idf[1] = IdfVersion /\ idf[2] = major
  BY <1>1, SoftwarePaths
<1>4. /\ Outside(Software) /\ Outside(AppDesc) /\ Outside(magic) /\ Outside(Sha256)
      /\ Outside(PartitionInfo) /\ Outside(rollback) /\ Outside(List)
      /\ Outside(IdfVersion) /\ Outside(major)
  BY <1>1, SoftwarePaths, ListPaths, Shallow
<1> HIDE DEF nodes, idf
<1>5. \A i \in 1 .. Len(nodes) : Outside(nodes[i])
  BY <1>1, <1>2, <1>4
<1>6. Parent(nodes[1]) \in given
  BY <1>2, ListPaths
<1>7. \A i \in 2 .. Len(nodes) : \E j \in 1 .. i - 1 : Parent(nodes[i]) = nodes[j]
  BY <1>1, <1>2, SoftwarePaths, ListPaths
<1>8. \A i \in 1 .. Len(nodes) :
        Parent(nodes[i]) \in given \/ \E j \in 1 .. i - 1 : Parent(nodes[i]) = nodes[j]
  BY <1>2, <1>6, <1>7
<1>9. /\ Plain(Inserts(nodes), given)
      /\ Inserted(Inserts(nodes)) = {nodes[i] : i \in 1 .. Len(nodes)}
  BY <1>2, <1>5, <1>8, InsertsPlain
<1>10. List \in Inserted(Inserts(nodes)) /\ Software \in Inserted(Inserts(nodes))
  BY <1>2, <1>9
<1>11. Plain(find, given \cup Inserted(Inserts(nodes))) /\ Inserted(find) = {}
  BY <1>10, FindPlain
<1> HIDE DEF find
<1>12. /\ Plain(Inserts(nodes) \o find, given)
       /\ Inserted(Inserts(nodes) \o find) = Inserted(Inserts(nodes)) \cup Inserted(find)
  BY <1>9, <1>11, PlainConcat
<1>13. Software \in given \cup Inserted(Inserts(nodes) \o find)
  BY <1>10, <1>12
<1>14. \A i \in 1 .. Len(idf) :
         /\ Outside(idf[i])
         /\ \/ Parent(idf[i]) \in given \cup Inserted(Inserts(nodes) \o find)
            \/ \E j \in 1 .. i - 1 : Parent(idf[i]) = idf[j]
  BY <1>1, <1>3, <1>4, <1>13, SoftwarePaths
<1>15. Plain(Inserts(idf), given \cup Inserted(Inserts(nodes) \o find))
  BY <1>3, <1>14, InsertsPlain
<1>16. Plain((Inserts(nodes) \o find) \o Inserts(idf), given)
  BY <1>12, <1>15, PlainConcat
<1> QED BY <1>16 DEF software, nodes, find, idf, magic, bytes, rollback, major

LEMMA EfusePlain ==
    ASSUME NEW given, Root \in given
    PROVE  Plain(efuse, given)
<1> DEFINE mac == In(Err, "mac_default")
           bytes == In(MacDefault, "bytes")
           nodes == <<Efuse, Err, mac, MacDefault, bytes>>
<1>1. Efuse \in Paths /\ Parent(Efuse) = Root /\ Depth(Efuse) = 1
  BY RootPath, LiteralNames, InPath DEF Efuse
<1>2. Err \in Paths /\ Parent(Err) = Efuse /\ Depth(Err) = 2
  BY <1>1, LiteralNames, InPath DEF Err
<1>3. MacDefault \in Paths /\ Parent(MacDefault) = Efuse /\ Depth(MacDefault) = 2
  BY <1>1, LiteralNames, InPath DEF MacDefault
<1>4. /\ mac \in Paths /\ Parent(mac) = Err /\ Depth(mac) = 3
      /\ bytes \in Paths /\ Parent(bytes) = MacDefault /\ Depth(bytes) = 3
  BY <1>2, <1>3, LiteralNames, InPath
<1> HIDE DEF mac, bytes
<1>5. /\ nodes \in Seq(Paths) /\ Len(nodes) = 5
      /\ nodes[1] = Efuse /\ nodes[2] = Err /\ nodes[3] = mac /\ nodes[4] = MacDefault
      /\ nodes[5] = bytes
  BY <1>1, <1>2, <1>3, <1>4
<1>6. Outside(Efuse) /\ Outside(Err) /\ Outside(mac) /\ Outside(MacDefault) /\ Outside(bytes)
  BY <1>1, <1>2, <1>3, <1>4, Shallow
<1> HIDE DEF nodes
<1>7. \A i \in 2 .. Len(nodes) : \E j \in 1 .. i - 1 : Parent(nodes[i]) = nodes[j]
  BY <1>2, <1>3, <1>4, <1>5
<1>8. \A i \in 1 .. Len(nodes) :
        /\ Outside(nodes[i])
        /\ Parent(nodes[i]) \in given \/ \E j \in 1 .. i - 1 : Parent(nodes[i]) = nodes[j]
  BY <1>1, <1>5, <1>6, <1>7
<1>9. Plain(Inserts(nodes), given)
  BY <1>5, <1>8, InsertsPlain
<1> QED BY <1>9 DEF efuse, nodes, mac, bytes

LEMMA ChipPlain ==
    ASSUME NEW given, Root \in given
    PROVE  Plain(chip, given)
<1> DEFINE model == In(Chip, "model")
           names == In(Features, "names")
           nodes == <<Chip, model, Features, names>>
<1>1. Chip \in Paths /\ Parent(Chip) = Root /\ Depth(Chip) = 1
  BY RootPath, LiteralNames, InPath DEF Chip
<1>2. Features \in Paths /\ Parent(Features) = Chip /\ Depth(Features) = 2
  BY <1>1, LiteralNames, InPath DEF Features
<1>3. /\ model \in Paths /\ Parent(model) = Chip /\ Depth(model) = 2
      /\ names \in Paths /\ Parent(names) = Features /\ Depth(names) = 3
  BY <1>1, <1>2, LiteralNames, InPath
<1> HIDE DEF model, names
<1>4. /\ nodes \in Seq(Paths) /\ Len(nodes) = 4
      /\ nodes[1] = Chip /\ nodes[2] = model /\ nodes[3] = Features /\ nodes[4] = names
  BY <1>1, <1>2, <1>3
<1>5. Outside(Chip) /\ Outside(model) /\ Outside(Features) /\ Outside(names)
  BY <1>1, <1>2, <1>3, Shallow
<1> HIDE DEF nodes
<1>6. \A i \in 2 .. Len(nodes) : \E j \in 1 .. i - 1 : Parent(nodes[i]) = nodes[j]
  BY <1>2, <1>3, <1>4
<1>7. \A i \in 1 .. Len(nodes) :
        /\ Outside(nodes[i])
        /\ Parent(nodes[i]) \in given \/ \E j \in 1 .. i - 1 : Parent(nodes[i]) = nodes[j]
  BY <1>1, <1>4, <1>5, <1>6
<1>8. Plain(Inserts(nodes), given)
  BY <1>4, <1>7, InsertsPlain
<1> QED BY <1>8 DEF chip, nodes, model, names

LEMMA SystemIdPlain ==
    Plain(Inserts(<<Root>>) \o software \o efuse \o chip, {})
<1> DEFINE root == Inserts(<<Root>>)
<1>1. Plain(root, {}) /\ Inserted(root) = {Root}
  BY RootPlain
<1> HIDE DEF root
<1>2. Root \in {} \cup Inserted(root)
  BY <1>1
<1>3. Plain(software, {} \cup Inserted(root))
  BY <1>2, SoftwarePlain
<1>4. /\ Plain(root \o software, {})
      /\ Inserted(root \o software) = Inserted(root) \cup Inserted(software)
  BY <1>1, <1>3, PlainConcat
<1>5. Root \in {} \cup Inserted(root \o software)
  BY <1>2, <1>4
<1>6. Plain(efuse, {} \cup Inserted(root \o software))
  BY <1>5, EfusePlain
<1>7. /\ Plain((root \o software) \o efuse, {})
      /\ Inserted((root \o software) \o efuse) = Inserted(root \o software) \cup Inserted(efuse)
  BY <1>4, <1>6, PlainConcat
<1>8. Root \in {} \cup Inserted((root \o software) \o efuse)
  BY <1>5, <1>7
<1>9. Plain(chip, {} \cup Inserted((root \o software) \o efuse))
  BY <1>8, ChipPlain
<1>10. Plain(((root \o software) \o efuse) \o chip, {})
  BY <1>7, <1>9, PlainConcat
<1> QED BY <1>10 DEF root

LEMMA NothingLeft ==
    /\ <<>> \in Seq(Steps) /\ Ended(<<>>) /\ Fields(<<>>) = {} /\ Inserted(<<>>) = {}
    /\ \A nodes : Block(<<>>, nodes)
<1> DEFINE s == <<>>
<1>1. s \in Seq(Steps) /\ Len(s) = 0
  BY EmptySeq
<1>2. DOMAIN s = {}
  BY <1>1, LenProperties
<1> HIDE DEF s
<1>3. Ended(s) /\ Fields(s) = {} /\ Inserted(s) = {}
  BY <1>1, <1>2, FieldsOf, InsertedOf DEF Ended
<1>4. \A nodes : Block(s, nodes)
  BY <1>1, <1>2 DEF Block, Fed, Kept, Ordered
<1> QED BY <1>1, <1>3, <1>4 DEF s

(* The memory check begins with what it obtains; the others obtain nothing. *)
LEMMA ScriptParts ==
    ASSUME NEW m \in DOMAIN Script
    PROVE  \E o, s : /\ o \in Seq(Steps) /\ Block(o, {}) /\ Inserted(o) = {} /\ Fields(o) = {}
                     /\ \A i \in DOMAIN o : o[i].op = "obtain"
                     /\ Plain(s, {}) /\ Script[m] = o \o (s \o Unformatted)
<1>1. m \in {"state_up", "state_down", "startup", "mem_check", "system_id"}
  BY DEF Script
<1>2. CASE m # "mem_check"
  <2>1. \E s : Plain(s, {}) /\ Script[m] = s \o Unformatted
    <3>1. CASE m = "state_up"
      <4>1. Script[m] = state_up
        BY <3>1 DEF Script
      <4> QED BY <4>1, StatePlain DEF state_up
    <3>2. CASE m = "state_down"
      <4>1. Script[m] = state_down
        BY <3>2 DEF Script
      <4> QED BY <4>1, StatePlain DEF state_down
    <3>3. CASE m = "startup"
      <4>1. Script[m] = startup
        BY <3>3 DEF Script
      <4> QED BY <4>1, StatePlain DEF startup
    <3>4. CASE m = "system_id"
      <4>1. Script[m] = system_id
        BY <3>4 DEF Script
      <4> QED BY <4>1, SystemIdPlain DEF system_id
    <3> QED BY <1>1, <1>2, <3>1, <3>2, <3>3, <3>4
  <2>2. PICK s : Plain(s, {}) /\ Script[m] = s \o Unformatted
    BY <2>1
  <2> DEFINE o == <<>>
  <2>3. /\ o \in Seq(Steps) /\ Block(o, {}) /\ Inserted(o) = {} /\ Fields(o) = {}
    BY NothingLeft
  <2>4. DOMAIN o = {}
    BY <2>3, EmptySeq, LenProperties
  <2>5. s \o Unformatted \in Seq(Steps)
    BY <2>2, UnformattedLast DEF Block
  <2>6. o \o (s \o Unformatted) = s \o Unformatted
    BY <2>5, ConcatEmptySeq
  <2>7. \A i \in DOMAIN o : o[i].op = "obtain"
    BY <2>4
  <2> HIDE DEF o
  <2> QED BY <2>2, <2>3, <2>6, <2>7
<1>3. CASE m = "mem_check"
  <2> DEFINE o == [i \in DOMAIN Caps |-> Step("obtain", Root)]
             t == Inserts(<<Root, In(Root, "heap_integrity_sound"), Capabilities>>)
             u == [i \in DOMAIN Caps |-> Step("report", In(Capabilities, Caps[i]))]
  <2>1. Script[m] = ((o \o t) \o u) \o Unformatted
    <3>1. Script[m] = mem_check
      BY <1>3 DEF Script
    <3> QED BY <3>1 DEF mem_check
  <2>2. /\ o \in Seq(Steps) /\ Block(o, {}) /\ Inserted(o) = {} /\ Fields(o) = {}
        /\ \A i \in DOMAIN o : o[i].op = "obtain"
    BY ObtainSteps
  <2>3. Plain(t \o u, {})
    BY MemCheckPlain
  <2>4. t \in Seq(Steps)
    BY MemCheckPlain
  <2>5. u \in Seq(Steps)
    BY MemCheckPlain
  <2>6. Unformatted \in Seq(Steps)
    BY RootPath DEF Unformatted, Step, Steps
  <2> HIDE DEF o, t, u
  <2>7. (o \o t) \o u = o \o (t \o u)
    BY <2>2, <2>4, <2>5, ConcatAssociative
  <2>8. t \o u \in Seq(Steps)
    BY <2>3 DEF Plain, Block
  <2>9. (o \o (t \o u)) \o Unformatted = o \o ((t \o u) \o Unformatted)
    BY <2>2, <2>6, <2>8, ConcatAssociative
  <2>10. Script[m] = o \o ((t \o u) \o Unformatted)
    BY <2>1, <2>7, <2>9
  <2> QED BY <2>2, <2>3, <2>10
<1> QED BY <1>2, <1>3

(* What is obtained at first, before any other step *)
ObtainsFirst(steps) ==
    \A j \in DOMAIN steps : steps[j].op = "obtain" => \A i \in 1 .. j : steps[i].op = "obtain"

(* What a builder has before it when it is called *)
LEMMA ScriptSteps ==
    ASSUME NEW m \in DOMAIN Script
    PROVE  /\ Block(Script[m], {}) /\ Ended(Script[m]) /\ Script[m] # <<>>
           /\ \A i \in DOMAIN Script[m] : Script[m][i].op \notin {"next", "add"}
           /\ \A n \in Fields(Script[m]) : Outside(n)
           /\ Fields(Script[m]) \subseteq Nodes
           /\ ObtainsFirst(Script[m])
<1>1. PICK o, s :
         /\ o \in Seq(Steps) /\ Block(o, {}) /\ Inserted(o) = {} /\ Fields(o) = {}
         /\ \A i \in DOMAIN o : o[i].op = "obtain"
         /\ Plain(s, {}) /\ Script[m] = o \o (s \o Unformatted)
  BY ScriptParts
<1> DEFINE t == s \o Unformatted
           st == o \o t
<1>2. /\ Block(t, {}) /\ Ended(t) /\ t # <<>>
      /\ \A i \in DOMAIN t : t[i].op \notin {"next", "add", "obtain"}
      /\ \A n \in Fields(t) : Outside(n)
  BY <1>1, UnformattedLast
<1>3. t \in Seq(Steps) /\ Script[m] = st
  BY <1>1, <1>2 DEF Block
<1> HIDE DEF t
<1>4. Block(st, {})
  <2>1. Block(t, {} \cup Inserted(o))
    BY <1>1, <1>2
  <2>2. \A i \in DOMAIN o : o[i].op \notin {"find", "next", "add"}
    BY <1>1
  <2> QED BY <2>1, <2>2, <1>1, BlockConcat
<1>5. Ended(st) /\ st # <<>>
  <2>1. \A i \in DOMAIN o : o[i].op # "print"
    BY <1>1
  <2> QED BY <2>1, <1>1, <1>2, <1>3, EndedConcat
<1>6. Fields(st) = Fields(t)
  <2>1. o \in Seq(Steps) /\ t \in Seq(Steps) /\ Fields(o) = {}
    BY <1>1, <1>3
  <2>2. Fields(st) = Fields(o) \cup Fields(t)
    BY <2>1, FieldsConcat
  <2> QED BY <2>1, <2>2
<1>7. /\ Len(o) \in Nat /\ Len(t) \in Nat /\ DOMAIN o = 1 .. Len(o) /\ DOMAIN t = 1 .. Len(t)
      /\ DOMAIN st = 1 .. Len(o) + Len(t)
      /\ \A i \in 1 .. Len(o) : st[i] = o[i]
      /\ \A i \in 1 .. Len(t) : st[Len(o) + i] = t[i]
  BY <1>1, <1>3, ConcatOfSteps
<1> HIDE DEF st
<1>8. ASSUME NEW i \in DOMAIN st
      PROVE  /\ i <= Len(o) => st[i].op = "obtain"
             /\ ~(i <= Len(o)) => st[i].op \notin {"next", "add", "obtain"}
  <2>1. CASE i <= Len(o)
    BY <2>1, <1>1, <1>7
  <2>2. CASE ~(i <= Len(o))
    <3>1. i - Len(o) \in DOMAIN t /\ st[i] = t[i - Len(o)]
      <4>1. i - Len(o) \in 1 .. Len(t) /\ Len(o) + (i - Len(o)) = i
        BY <2>2, <1>7
      <4> QED BY <4>1, <1>7
    <3> QED BY <3>1, <2>2, <1>2
  <2> QED BY <2>1, <2>2
<1>9. \A i \in DOMAIN st : st[i].op \notin {"next", "add"}
  BY <1>8
<1>10. ObtainsFirst(st)
  <2> SUFFICES ASSUME NEW j \in DOMAIN st, st[j].op = "obtain", NEW i \in 1 .. j
               PROVE  st[i].op = "obtain"
    BY DEF ObtainsFirst
  <2>1. j <= Len(o)
    BY <1>8
  <2>2. i \in DOMAIN st /\ i <= Len(o)
    BY <2>1, <1>7
  <2> QED BY <2>2, <1>8
<1>11. Fields(Script[m]) \subseteq Nodes
  BY DEF Nodes
<1> QED BY <1>2, <1>3, <1>4, <1>5, <1>6, <1>9, <1>10, <1>11

-----------------------------------------------------------------------------
(* One turn of the loop over the partitions *)

LEMMA TurnPaths ==
    ASSUME NEW p \in Partitions
    PROVE  /\ In(Row(p), "flash_chip_id") \in Paths
           /\ Parent(In(Row(p), "flash_chip_id")) = Row(p)
           /\ Depth(In(Row(p), "flash_chip_id")) = 5
           /\ In(Row(p), "address") \in Paths
           /\ Parent(In(Row(p), "address")) = Row(p) /\ Depth(In(Row(p), "address")) = 5
           /\ In(Type(p), "subtype") \in Paths
           /\ Parent(In(Type(p), "subtype")) = Type(p) /\ Depth(In(Type(p), "subtype")) = 6
           /\ In(Type(p), "name") \in Paths
           /\ Parent(In(Type(p), "name")) = Type(p) /\ Depth(In(Type(p), "name")) = 6
           /\ In(In(Type(p), "subtype"), "name") \in Paths
           /\ Parent(In(In(Type(p), "subtype"), "name")) = In(Type(p), "subtype")
           /\ Depth(In(In(Type(p), "subtype"), "name")) = 7
<1>1. /\ In(Row(p), "flash_chip_id") \in Paths
      /\ Parent(In(Row(p), "flash_chip_id")) = Row(p)
      /\ Depth(In(Row(p), "flash_chip_id")) = 5
  BY RowPath, LiteralNames, InPath
<1>2. /\ In(Row(p), "address") \in Paths
      /\ Parent(In(Row(p), "address")) = Row(p) /\ Depth(In(Row(p), "address")) = 5
  BY RowPath, LiteralNames, InPath
<1>3. /\ In(Type(p), "subtype") \in Paths
      /\ Parent(In(Type(p), "subtype")) = Type(p) /\ Depth(In(Type(p), "subtype")) = 6
  BY RowPath, LiteralNames, InPath
<1>4. /\ In(Type(p), "name") \in Paths
      /\ Parent(In(Type(p), "name")) = Type(p) /\ Depth(In(Type(p), "name")) = 6
  BY RowPath, LiteralNames, InPath
<1>5. /\ In(In(Type(p), "subtype"), "name") \in Paths
      /\ Parent(In(In(Type(p), "subtype"), "name")) = In(Type(p), "subtype")
      /\ Depth(In(In(Type(p), "subtype"), "name")) = 7
  BY <1>3, LiteralNames, InPath
<1> QED BY <1>1, <1>2, <1>3, <1>4, <1>5

(* What is inserted below a node of the type is below the type. *)
LEMMA PrefixOfField ==
    ASSUME NEW t \in Paths, NEW n \in Paths, n # Root, IsPrefix(t, Parent(n))
    PROVE  IsPrefix(t, n)
<1>1. /\ Len(n) \in Nat \ {0} /\ Parent(n) \in Paths /\ Depth(Parent(n)) = Len(n) - 1
      /\ \A k \in 0 .. Len(n) - 1 : SubSeq(Parent(n), 1, k) = SubSeq(n, 1, k)
  BY ParentPath DEF Depth
<1>2. Depth(t) \in 0 .. Len(n) - 1 /\ SubSeq(Parent(n), 1, Depth(t)) = t
  BY <1>1, BelowPath
<1>3. SubSeq(n, 1, Depth(t)) = t /\ Depth(t) \in 0 .. Len(n)
  BY <1>1, <1>2
<1> QED BY <1>3, BelowPath DEF Depth

LEMMA PrefixOfItself ==
    ASSUME NEW n \in Paths
    PROVE  IsPrefix(n, n)
BY LenProperties DEF IsPrefix, Paths

LEMMA TurnSteps ==
    ASSUME NEW p \in Partitions
    PROVE  LET s == AddPartition(p)
               subtype == In(Type(p), "subtype")
           IN  /\ s \in Seq(Steps) /\ Len(s) = 9 /\ DOMAIN s = 1 .. 9
               /\ s[1] = Step("insert", Row(p))
               /\ s[2] = Step("insert", In(Row(p), "flash_chip_id"))
               /\ s[3] = Step("insert", Type(p))
               /\ s[4] = Step("insert", subtype)
               /\ s[5] = Step("insert", In(Type(p), "name"))
               /\ s[6] = Step("insert", In(subtype, "name"))
               /\ s[7] = Step("add", Type(p))
               /\ s[8] = Step("insert", In(Row(p), "address"))
               /\ s[9] = Step("next", List)
<1> DEFINE flash == In(Row(p), "flash_chip_id")
           subtype == In(Type(p), "subtype")
           name == In(Type(p), "name")
           subname == In(subtype, "name")
           address == In(Row(p), "address")
           a == <<Row(p), flash>>
           b == <<Type(p), subtype, name, subname>>
           c == <<Step("add", Type(p))>>
           d == <<address>>
           e == <<Step("next", List)>>
<1>0. AddPartition(p) = (((Inserts(a) \o Inserts(b)) \o c) \o Inserts(d)) \o e
  BY DEF AddPartition, build_part_type
<1>1. /\ flash \in Paths /\ subtype \in Paths /\ name \in Paths /\ subname \in Paths
      /\ address \in Paths
  BY TurnPaths
<1> HIDE DEF flash, subtype, name, subname, address
<1>2. Step("add", Type(p)) \in Steps /\ Step("next", List) \in Steps
  BY RowPath, ListPaths DEF Step, Steps
<1>3. a \in Seq(Paths) /\ Len(a) = 2 /\ a[1] = Row(p) /\ a[2] = flash
  BY <1>1, RowPath
<1>4. /\ b \in Seq(Paths) /\ Len(b) = 4 /\ b[1] = Type(p) /\ b[2] = subtype /\ b[3] = name
      /\ b[4] = subname
  BY <1>1, RowPath
<1>5. d \in Seq(Paths) /\ Len(d) = 1 /\ d[1] = address
  BY <1>1
<1>6. c \in Seq(Steps) /\ Len(c) = 1 /\ c[1] = Step("add", Type(p))
  BY <1>2
<1>7. e \in Seq(Steps) /\ Len(e) = 1 /\ e[1] = Step("next", List)
  BY <1>2
<1> HIDE DEF a, b, c, d, e
<1>8. /\ Inserts(a) \in Seq(Steps) /\ Len(Inserts(a)) = 2
      /\ Inserts(a)[1] = Step("insert", Row(p)) /\ Inserts(a)[2] = Step("insert", flash)
  BY <1>3, InsertsSteps
<1>9. /\ Inserts(b) \in Seq(Steps) /\ Len(Inserts(b)) = 4
      /\ Inserts(b)[1] = Step("insert", Type(p)) /\ Inserts(b)[2] = Step("insert", subtype)
      /\ Inserts(b)[3] = Step("insert", name) /\ Inserts(b)[4] = Step("insert", subname)
  BY <1>4, InsertsSteps
<1>10. /\ Inserts(d) \in Seq(Steps) /\ Len(Inserts(d)) = 1
       /\ Inserts(d)[1] = Step("insert", address)
  BY <1>5, InsertsSteps
<1> DEFINE ab == Inserts(a) \o Inserts(b)
           abc == ab \o c
           abcd == abc \o Inserts(d)
           abcde == abcd \o e
<1>11. /\ ab \in Seq(Steps) /\ Len(ab) = 6
       /\ ab[1] = Step("insert", Row(p)) /\ ab[2] = Step("insert", flash)
       /\ ab[3] = Step("insert", Type(p)) /\ ab[4] = Step("insert", subtype)
       /\ ab[5] = Step("insert", name) /\ ab[6] = Step("insert", subname)
  <2>1. /\ ab \in Seq(Steps) /\ Len(ab) = Len(Inserts(a)) + Len(Inserts(b))
        /\ \A i \in 1 .. Len(Inserts(a)) : ab[i] = Inserts(a)[i]
        /\ \A i \in 1 .. Len(Inserts(b)) : ab[Len(Inserts(a)) + i] = Inserts(b)[i]
    BY <1>8, <1>9, ConcatOfSteps
  <2> HIDE DEF ab
  <2>2. /\ ab[1] = Inserts(a)[1] /\ ab[2] = Inserts(a)[2]
        /\ ab[3] = Inserts(b)[1] /\ ab[4] = Inserts(b)[2]
        /\ ab[5] = Inserts(b)[3] /\ ab[6] = Inserts(b)[4]
    BY <2>1, <1>8, <1>9
  <2> QED BY <2>1, <2>2, <1>8, <1>9
<1> HIDE DEF ab
<1>12. /\ abc \in Seq(Steps) /\ Len(abc) = 7
       /\ \A i \in 1 .. 6 : abc[i] = ab[i]
       /\ abc[7] = Step("add", Type(p))
  <2>1. /\ abc \in Seq(Steps) /\ Len(abc) = Len(ab) + Len(c)
        /\ \A i \in 1 .. Len(ab) : abc[i] = ab[i]
        /\ \A i \in 1 .. Len(c) : abc[Len(ab) + i] = c[i]
    BY <1>6, <1>11, ConcatOfSteps
  <2> HIDE DEF abc
  <2> QED BY <2>1, <1>6, <1>11
<1> HIDE DEF abc
<1>13. /\ abcd \in Seq(Steps) /\ Len(abcd) = 8
       /\ \A i \in 1 .. 7 : abcd[i] = abc[i]
       /\ abcd[8] = Step("insert", address)
  <2>1. /\ abcd \in Seq(Steps) /\ Len(abcd) = Len(abc) + Len(Inserts(d))
        /\ \A i \in 1 .. Len(abc) : abcd[i] = abc[i]
        /\ \A i \in 1 .. Len(Inserts(d)) : abcd[Len(abc) + i] = Inserts(d)[i]
    BY <1>10, <1>12, ConcatOfSteps
  <2> HIDE DEF abcd
  <2> QED BY <2>1, <1>10, <1>12
<1> HIDE DEF abcd
<1>14. /\ abcde \in Seq(Steps) /\ Len(abcde) = 9
       /\ \A i \in 1 .. 8 : abcde[i] = abcd[i]
       /\ abcde[9] = Step("next", List)
  <2>1. /\ abcde \in Seq(Steps) /\ Len(abcde) = Len(abcd) + Len(e)
        /\ \A i \in 1 .. Len(abcd) : abcde[i] = abcd[i]
        /\ \A i \in 1 .. Len(e) : abcde[Len(abcd) + i] = e[i]
    BY <1>7, <1>13, ConcatOfSteps
  <2> HIDE DEF abcde
  <2> QED BY <2>1, <1>7, <1>13
<1>15. AddPartition(p) = abcde
  BY <1>0 DEF ab, abc, abcd
<1> HIDE DEF abcde
<1>16. DOMAIN abcde = 1 .. 9
  BY <1>14, LenProperties
<1>17. /\ abcde[1] = Step("insert", Row(p)) /\ abcde[2] = Step("insert", flash)
       /\ abcde[3] = Step("insert", Type(p)) /\ abcde[4] = Step("insert", subtype)
       /\ abcde[5] = Step("insert", name) /\ abcde[6] = Step("insert", subname)
       /\ abcde[7] = Step("add", Type(p)) /\ abcde[8] = Step("insert", address)
  BY <1>11, <1>12, <1>13, <1>14
<1> QED BY <1>14, <1>15, <1>16, <1>17 DEF flash, subtype, name, subname, address

(* A field of the row is not below a type, one of the type is below its own. *)
LEMMA TurnPrefixes ==
    ASSUME NEW p \in Partitions, NEW q \in Partitions
    PROVE  /\ ~IsPrefix(Type(q), Row(p))
           /\ ~IsPrefix(Type(q), In(Row(p), "flash_chip_id"))
           /\ ~IsPrefix(Type(q), In(Row(p), "address"))
           /\ IsPrefix(Type(p), Type(p))
           /\ IsPrefix(Type(p), In(Type(p), "subtype"))
           /\ IsPrefix(Type(p), In(Type(p), "name"))
           /\ IsPrefix(Type(p), In(In(Type(p), "subtype"), "name"))
<1>1. ~IsPrefix(Type(q), Row(p))
  BY RowPath, BelowPath
<1>2. ASSUME NEW name \in Names, name # "type", IsPrefix(Type(q), In(Row(p), name))
      PROVE  FALSE
  <2> DEFINE n == In(Row(p), name)
  <2>1. n \in Paths /\ Depth(n) = 5 /\ Parent(n) = Row(p)
    BY RowPath, InPath
  <2>2. Type(q) \in Paths /\ Depth(Type(q)) = 5 /\ Parent(Type(q)) = Row(q)
    BY RowPath
  <2>3. SubSeq(n, 1, Depth(n)) = n
    BY <2>1, PrefixFull DEF Depth
  <2>4. SubSeq(n, 1, Depth(Type(q))) = Type(q)
    BY <1>2, <2>1, <2>2, BelowPath
  <2>5. n = Type(q)
    BY <2>1, <2>2, <2>3, <2>4
  <2>6. In(Row(p), name) = In(Row(p), "type")
    BY <2>1, <2>2, <2>5 DEF Type
  <2> QED BY <2>6, <1>2, RowPath, LiteralNames, InInjective
<1>3. /\ ~IsPrefix(Type(q), In(Row(p), "flash_chip_id"))
      /\ ~IsPrefix(Type(q), In(Row(p), "address"))
  BY <1>2, LiteralNames
<1>4. IsPrefix(Type(p), Type(p))
  BY RowPath, PrefixOfItself
<1>5. ASSUME NEW n \in Paths, NEW name \in Names, IsPrefix(Type(p), n)
      PROVE  IsPrefix(Type(p), In(n, name))
  BY <1>5, RowPath, InPath, PrefixOfField
<1>6. IsPrefix(Type(p), In(Type(p), "subtype")) /\ IsPrefix(Type(p), In(Type(p), "name"))
  BY <1>4, <1>5, RowPath, LiteralNames
<1>7. IsPrefix(Type(p), In(In(Type(p), "subtype"), "name"))
  BY <1>5, <1>6, TurnPaths, LiteralNames
<1> QED BY <1>1, <1>3, <1>4, <1>6, <1>7

LEMMA TurnBlock ==
    ASSUME NEW p \in Partitions, NEW given, List \in given
    PROVE  /\ Block(AddPartition(p), given)
           /\ \A i \in DOMAIN AddPartition(p) : AddPartition(p)[i].op \notin {"print", "obtain"}
           /\ \E i \in DOMAIN AddPartition(p) : AddPartition(p)[i].op = "next"
<1> DEFINE s == AddPartition(p)
           flash == In(Row(p), "flash_chip_id")
           subtype == In(Type(p), "subtype")
           name == In(Type(p), "name")
           subname == In(subtype, "name")
           address == In(Row(p), "address")
<1>1. /\ s \in Seq(Steps) /\ DOMAIN s = 1 .. 9
      /\ s[1] = Step("insert", Row(p)) /\ s[2] = Step("insert", flash)
      /\ s[3] = Step("insert", Type(p)) /\ s[4] = Step("insert", subtype)
      /\ s[5] = Step("insert", name) /\ s[6] = Step("insert", subname)
      /\ s[7] = Step("add", Type(p)) /\ s[8] = Step("insert", address)
      /\ s[9] = Step("next", List)
  BY TurnSteps
<1>2. /\ flash \in Paths /\ Parent(flash) = Row(p) /\ subtype \in Paths /\ Parent(subtype) = Type(p)
      /\ name \in Paths /\ Parent(name) = Type(p) /\ subname \in Paths /\ Parent(subname) = subtype
      /\ address \in Paths /\ Parent(address) = Row(p)
      /\ Parent(Row(p)) = List /\ Parent(Type(p)) = Row(p)
  BY TurnPaths, RowPath
<1>3. \A q \in Partitions :
        ~IsPrefix(Type(q), Row(p)) /\ ~IsPrefix(Type(q), flash) /\ ~IsPrefix(Type(q), address)
  BY TurnPrefixes
<1>4. /\ IsPrefix(Type(p), Type(p)) /\ IsPrefix(Type(p), subtype) /\ IsPrefix(Type(p), name)
      /\ IsPrefix(Type(p), subname)
  BY TurnPrefixes
<1> HIDE DEF s, flash, subtype, name, subname, address
<1>5. /\ \A i \in {1, 2, 3, 4, 5, 6, 8} : s[i].op = "insert"
      /\ s[7].op = "add" /\ s[9].op = "next"
      /\ s[1].node = Row(p) /\ s[2].node = flash /\ s[3].node = Type(p) /\ s[4].node = subtype
      /\ s[5].node = name /\ s[6].node = subname /\ s[7].node = Type(p) /\ s[8].node = address
  BY <1>1 DEF Step
<1>6. \A i \in DOMAIN s : s[i] \in Steps
  BY <1>1, LenProperties, ElementOfSeq
<1>7. \A i \in DOMAIN s : OkStep(s[i])
  BY <1>1, <1>5, <1>6 DEF OkStep
<1>8. Fed(s, given)
  <2>1. /\ \A i \in 2 .. 9 : Row(p) \in Before(s, i)
        /\ \A i \in 4 .. 9 : Type(p) \in Before(s, i)
        /\ subtype \in Before(s, 6)
    <3>1. \A i \in 2 .. 9 : 1 \in 1 .. i - 1
      OBVIOUS
    <3>2. \A i \in 4 .. 9 : 3 \in 1 .. i - 1
      OBVIOUS
    <3>3. 4 \in 1 .. 6 - 1
      OBVIOUS
    <3> QED BY <3>1, <3>2, <3>3, <1>5 DEF Before
  <2>2. /\ Needs(s[1]) \subseteq {List} /\ Needs(s[2]) \subseteq {Row(p)}
        /\ Needs(s[3]) \subseteq {Row(p)} /\ Needs(s[4]) \subseteq {Type(p)}
        /\ Needs(s[5]) \subseteq {Type(p)} /\ Needs(s[6]) \subseteq {subtype}
        /\ Needs(s[7]) \subseteq {Type(p)} /\ Needs(s[8]) \subseteq {Row(p)}
        /\ Needs(s[9]) \subseteq {List}
    BY <1>2, <1>5 DEF Needs
  <2>3. \A i \in 1 .. 9 : Needs(s[i]) \subseteq given \cup Before(s, i)
    BY <2>1, <2>2
  <2> QED BY <2>3, <1>1 DEF Fed
<1>9. Kept(s)
  <2> SUFFICES ASSUME NEW i \in DOMAIN s, NEW q \in Partitions,
                      s[i].op = "insert", IsPrefix(Type(q), s[i].node)
               PROVE  Pending(s, i, q)
    BY DEF Kept
  <2>1. i \in 3 .. 6
    BY <1>1, <1>3, <1>5
  <2>2. Type(q) = Type(p)
    <3>1. s[i].node \in Paths /\ IsPrefix(Type(p), s[i].node)
      BY <2>1, <1>2, <1>4, <1>5, RowPath
    <3>2. /\ Type(p) \in Paths /\ Type(q) \in Paths
          /\ Depth(Type(p)) = 5 /\ Depth(Type(q)) = 5
      BY RowPath
    <3> QED BY <3>1, <3>2, BelowPath
  <2>3. \A j \in i .. 7 - 1 : s[j].op = "insert" /\ IsPrefix(Type(p), s[j].node)
    BY <2>1, <1>4, <1>5
  <2>4. 7 \in DOMAIN s /\ 7 >= i /\ s[7] = Step("add", Type(q))
    BY <2>1, <2>2, <1>1
  <2> QED BY <2>2, <2>3, <2>4 DEF Pending
<1>10. Ordered(s)
  <2>1. \A j \in 1 .. 9 : s[j].op = "next" <=> j = 9
    BY <1>5
  <2>2. \A j \in 1 .. 9 : s[j].op = "add" <=> j = 7
    BY <1>5
  <2>3. \A j \in 1 .. 9 : s[j].op # "find"
    BY <1>5
  <2> QED BY <2>1, <2>2, <2>3, <1>1 DEF Ordered
<1>11. Block(s, given)
  BY <1>1, <1>7, <1>8, <1>9, <1>10 DEF Block
<1>12. \A i \in 1 .. 9 : s[i].op \notin {"print", "obtain"}
  BY <1>5
<1> QED BY <1>1, <1>5, <1>11, <1>12 DEF s

LEMMA TurnInserts ==
    ASSUME NEW p \in Partitions
    PROVE  /\ Inserted(AddPartition(p)) \subseteq Nodes
           /\ Fields(AddPartition(p)) = Inserted(AddPartition(p))
           /\ \A q \in Partitions : Row(q) \in Inserted(AddPartition(p)) => q = p
           /\ Row(p) \in Inserted(AddPartition(p))
<1> DEFINE s == AddPartition(p)
           subtype == In(Type(p), "subtype")
<1>1. /\ s \in Seq(Steps) /\ DOMAIN s = 1 .. 9
      /\ s[1] = Step("insert", Row(p)) /\ s[2] = Step("insert", In(Row(p), "flash_chip_id"))
      /\ s[3] = Step("insert", Type(p)) /\ s[4] = Step("insert", subtype)
      /\ s[5] = Step("insert", In(Type(p), "name")) /\ s[6] = Step("insert", In(subtype, "name"))
      /\ s[7] = Step("add", Type(p)) /\ s[8] = Step("insert", In(Row(p), "address"))
      /\ s[9] = Step("next", List)
  BY TurnSteps
<1>2. Inserted(s) \subseteq Nodes
  <2> DEFINE turns == {Inserted(AddPartition(q)) : q \in Partitions}
  <2>1. Inserted(s) \in turns
    OBVIOUS
  <2>2. UNION turns \subseteq Nodes
    BY DEF Nodes
  <2> HIDE DEF s, turns
  <2> QED BY <2>1, <2>2
<1>3. \A i \in DOMAIN s : s[i].op # "report"
  <2> HIDE DEF s
  <2> QED BY <1>1 DEF Step
<1>4. \A i \in DOMAIN s : i # 1 => s[i].op # "insert" \/ Depth(s[i].node) # 4
  <2>1. /\ Depth(In(Row(p), "flash_chip_id")) = 5 /\ Depth(Type(p)) = 5 /\ Depth(subtype) = 6
        /\ Depth(In(Type(p), "name")) = 6 /\ Depth(In(subtype, "name")) = 7
        /\ Depth(In(Row(p), "address")) = 5
    BY TurnPaths, RowPath
  <2> HIDE DEF s, subtype
  <2>2. /\ s[2].node = In(Row(p), "flash_chip_id") /\ s[3].node = Type(p) /\ s[4].node = subtype
        /\ s[5].node = In(Type(p), "name") /\ s[6].node = In(subtype, "name")
        /\ s[7].op = "add" /\ s[8].node = In(Row(p), "address") /\ s[9].op = "next"
    BY <1>1 DEF Step
  <2>3. \A i \in 2 .. 9 : s[i].op # "insert" \/ Depth(s[i].node) # 4
    BY <2>1, <2>2
  <2> QED BY <2>3, <1>1
<1>5. s[1].op = "insert" /\ s[1].node = Row(p)
  BY <1>1 DEF Step
<1> HIDE DEF s
<1>6. ASSUME NEW q \in Partitions, Row(q) \in Inserted(s) PROVE q = p
  <2>1. PICK i \in DOMAIN s : s[i].op = "insert" /\ s[i].node = Row(q)
    BY <1>1, <1>6, InsertedOf
  <2>2. i = 1
    BY <2>1, <1>4, RowPath
  <2> QED BY <2>1, <2>2, <1>5, RowInjective
<1>7. Fields(s) = Inserted(s)
  <2>1. \A i \in DOMAIN s : \A n : n \in Own(s[i]) <=> s[i].op = "insert" /\ s[i].node = n
    BY <1>3 DEF Own
  <2>2. ASSUME NEW n PROVE n \in Fields(s) <=> n \in Inserted(s)
    <3>1. s \in Seq(Steps)
      BY <1>1
    <3>2. n \in Fields(s) <=> \E i \in DOMAIN s : n \in Own(s[i])
      BY <3>1, FieldsOf
    <3>3. n \in Inserted(s) <=> \E i \in DOMAIN s : s[i].op = "insert" /\ s[i].node = n
      BY <3>1, InsertedOf
    <3> QED BY <2>1, <3>2, <3>3
  <2> QED BY <2>2
<1>8. Row(p) \in Inserted(s)
  BY <1>1, <1>5, InsertedOf
<1> QED BY <1>2, <1>6, <1>7, <1>8 DEF s

-----------------------------------------------------------------------------
(* The nodes are finitely many paths. *)

LEMMA NodesPaths == Nodes \subseteq Paths
<1>1. \A m \in DOMAIN Script : Fields(Script[m]) \subseteq Paths
  BY ScriptSteps DEF Outside
<1>2. \A p \in Partitions : Inserted(AddPartition(p)) \subseteq Paths
  <2> SUFFICES ASSUME NEW p \in Partitions, NEW n, n \in Inserted(AddPartition(p))
               PROVE  n \in Paths
    OBVIOUS
  <2> DEFINE s == AddPartition(p)
  <2>1. s \in Seq(Steps)
    BY TurnSteps
  <2> HIDE DEF s
  <2>2. PICK i \in DOMAIN s : s[i].node = n
    BY <2>1, InsertedOf DEF s
  <2>3. s[i] \in Steps
    BY <2>1, LenProperties, ElementOfSeq
  <2> QED BY <2>2, <2>3 DEF Steps
<1> QED BY <1>1, <1>2 DEF Nodes

LEMMA ImageFinite ==
    ASSUME NEW S, IsFiniteSet(S), NEW f, f = [x \in S |-> f[x]]
    PROVE  IsFiniteSet({f[x] : x \in S})
<1> DEFINE T == {f[x] : x \in S}
<1>1. f \in Surjection(S, T)
  BY DEF Surjection
<1> QED BY <1>1, FS_Surjection

LEMMA FieldsFinite ==
    ASSUME NEW s \in Seq(Steps)
    PROVE  IsFiniteSet(Inserted(s)) /\ IsFiniteSet(Fields(s))
<1>1. Len(s) \in Nat /\ DOMAIN s = 1 .. Len(s) /\ IsFiniteSet(DOMAIN s)
  BY LenProperties, FS_Interval
<1> DEFINE f == [i \in DOMAIN s |-> s[i].node]
           g == [i \in DOMAIN s |-> In(s[i].node, "name")]
           F == {f[i] : i \in DOMAIN s}
           G == {g[i] : i \in DOMAIN s}
<1>2. IsFiniteSet(F) /\ IsFiniteSet(G)
  BY <1>1, ImageFinite
<1>3. IsFiniteSet(F \cup G)
  BY <1>2, FS_Union
<1>4. \A i \in DOMAIN s : s[i].node \in F /\ In(s[i].node, "name") \in G
  OBVIOUS
<1> HIDE DEF F, G
<1>5. \A n \in Inserted(s) : n \in F
  BY <1>4, InsertedOf
<1>6. \A i \in DOMAIN s : Own(s[i]) \subseteq F \cup G
  BY <1>4 DEF Own
<1>7. \A n \in Fields(s) : n \in F \cup G
  BY <1>6, FieldsOf
<1>8. Inserted(s) \in SUBSET F /\ Fields(s) \in SUBSET (F \cup G)
  BY <1>5, <1>7
<1> QED BY <1>2, <1>3, <1>8, FS_Subset

LEMMA PartitionsFinite == IsFiniteSet(Partitions)
<1>1. ASSUME NEW s \in Seq(STRING) PROVE IsFiniteSet(ToSet(s))
  <2>1. Len(s) \in Nat /\ DOMAIN s = 1 .. Len(s)
    BY LenProperties
  <2>2. IsFiniteSet(DOMAIN s)
    BY <2>1, FS_Interval
  <2>3. s = [i \in DOMAIN s |-> s[i]]
    BY LenProperties
  <2>4. IsFiniteSet({s[i] : i \in DOMAIN s})
    BY <2>2, <2>3, ImageFinite
  <2> QED BY <2>4 DEF ToSet
<1> QED BY <1>1, JsonAssumption, FS_Union DEF Partitions

LEMMA NodesFinite == IsFiniteSet(Nodes) /\ Cardinality(Nodes) \in Nat
<1> DEFINE scripts == {Fields(Script[m]) : m \in DOMAIN Script}
           turns == {Inserted(AddPartition(p)) : p \in Partitions}
<1>1. IsFiniteSet(UNION turns)
  <2> DEFINE f == [p \in Partitions |-> Inserted(AddPartition(p))]
  <2>1. IsFiniteSet({f[p] : p \in Partitions})
    BY PartitionsFinite, ImageFinite
  <2>2. turns = {f[p] : p \in Partitions}
    OBVIOUS
  <2>3. \A T \in turns : IsFiniteSet(T)
    BY TurnSteps, FieldsFinite
  <2> QED BY <2>1, <2>2, <2>3, FS_UNION
<1>2. IsFiniteSet(UNION scripts)
  <2> DEFINE f == [m \in DOMAIN Script |-> Fields(Script[m])]
  <2>1. IsFiniteSet(DOMAIN Script)
    <3>1. DOMAIN Script =
             {"state_up"} \cup ({"state_down"} \cup ({"startup"}
                \cup ({"mem_check"} \cup {"system_id"})))
      BY DEF Script
    <3>2. \A m : IsFiniteSet({m})
      BY FS_Singleton
    <3>3. IsFiniteSet({"mem_check"} \cup {"system_id"})
      BY <3>2, FS_Union
    <3>4. IsFiniteSet({"startup"} \cup ({"mem_check"} \cup {"system_id"}))
      BY <3>2, <3>3, FS_Union
    <3>5. IsFiniteSet({"state_down"} \cup ({"startup"} \cup ({"mem_check"} \cup {"system_id"})))
      BY <3>2, <3>4, FS_Union
    <3>6. IsFiniteSet({"state_up"} \cup ({"state_down"} \cup ({"startup"}
                         \cup ({"mem_check"} \cup {"system_id"}))))
      BY <3>2, <3>5, FS_Union
    <3> QED BY <3>1, <3>6
  <2>2. IsFiniteSet({f[m] : m \in DOMAIN Script})
    BY <2>1, ImageFinite
  <2>3. scripts = {f[m] : m \in DOMAIN Script}
    OBVIOUS
  <2>4. \A T \in scripts : IsFiniteSet(T)
    BY ScriptSteps, FieldsFinite DEF Block
  <2> QED BY <2>2, <2>3, <2>4, FS_UNION
<1>3. Nodes = (UNION scripts) \cup (UNION turns)
  BY DEF Nodes
<1> HIDE DEF scripts, turns
<1>4. IsFiniteSet(Nodes)
  BY <1>1, <1>2, <1>3, FS_Union
<1> QED BY <1>4, FS_CardinalityType

(* The use of the heap is within the bound of the type invariant. *)
LEMMA HeapUse ==
    ASSUME NEW nodes \in SUBSET Nodes
    PROVE  Cardinality(nodes) \in 0 .. Cardinality(Nodes)
<1>1. IsFiniteSet(nodes) /\ Cardinality(nodes) <= Cardinality(Nodes)
  BY NodesFinite, FS_Subset
<1>2. Cardinality(nodes) \in Nat
  BY <1>1, FS_CardinalityType
<1> QED BY <1>1, <1>2, NodesFinite

-----------------------------------------------------------------------------
(* What a builder finds when it takes a step *)

LEMMA Taken ==
    ASSUME TodoInv, NEW op, Takes(op)
    PROVE  /\ todo \in Seq(Steps) /\ todo # <<>> /\ DOMAIN todo = 1 .. Len(todo)
           /\ Len(todo) \in Nat \ {0}
           /\ todo[1].op = op /\ Node = todo[1].node /\ Node \in Paths
           /\ OkStep(todo[1]) /\ Needs(todo[1]) \subseteq heap
           /\ Tail(todo) \in Seq(Steps)
           /\ Fields(todo) = Own(todo[1]) \cup Fields(Tail(todo))
           /\ Inserted(todo) = {n \in {Node} : op = "insert"} \cup Inserted(Tail(todo))
           /\ op # "print" => Ended(Tail(todo)) /\ Tail(todo) # <<>>
<1>1. todo \in Seq(Steps) /\ todo # <<>> /\ Head(todo).op = op
  BY DEF TodoInv, Block, Takes
<1>2. /\ Len(todo) \in Nat \ {0} /\ DOMAIN todo = 1 .. Len(todo)
      /\ Head(todo) = todo[1] /\ todo[1] \in Steps /\ Tail(todo) \in Seq(Steps)
  BY <1>1, TailOfSteps
<1>3. todo[1].op = op /\ Node = todo[1].node /\ Node \in Paths
  BY <1>1, <1>2 DEF Node, Steps
<1>4. OkStep(todo[1])
  BY <1>2 DEF TodoInv, Block
<1>5. Needs(todo[1]) \subseteq heap
  <2>1. Needs(todo[1]) \subseteq heap \cup Before(todo, 1)
    BY <1>2 DEF TodoInv, Block, Fed
  <2>2. Before(todo, 1) = {}
    BY DEF Before
  <2> QED BY <2>1, <2>2
<1>6. /\ Fields(todo) = Own(todo[1]) \cup Fields(Tail(todo))
      /\ Inserted(todo) = {n \in {Node} : op = "insert"} \cup Inserted(Tail(todo))
  BY <1>1, <1>3, FieldsTail, InsertedTail
<1>7. op # "print" => Ended(Tail(todo)) /\ Tail(todo) # <<>>
  BY <1>1, <1>3, EndedTail DEF TodoInv
<1> QED BY <1>1, <1>2, <1>3, <1>4, <1>5, <1>6, <1>7

(* A step that neither inserts nor adds finds no type that is not linked. *)
LEMMA NoneDetached ==
    ASSUME TodoInv, HeapInv, NEW op, Takes(op), op \notin {"insert", "add"}, NEW p \in Partitions
    PROVE  Type(p) \notin heap \ linked
<1> SUFFICES ASSUME Type(p) \in heap \ linked PROVE FALSE
  OBVIOUS
<1>1. PICK k \in DOMAIN todo :
         /\ k >= 1 /\ todo[k] = Step("add", Type(p))
         /\ \A j \in 1 .. k - 1 : todo[j].op = "insert"
  BY DEF HeapInv, Pending
<1>2. todo[1].op = op /\ DOMAIN todo = 1 .. Len(todo) /\ Len(todo) \in Nat
  BY Taken
<1>3. CASE k = 1
  <2>1. todo[1].op = "add"
    BY <1>1, <1>3 DEF Step
  <2> QED BY <2>1, <1>2
<1>4. CASE k # 1
  <2>1. 1 \in 1 .. k - 1
    BY <1>1, <1>2, <1>4
  <2> QED BY <2>1, <1>1, <1>2
<1> QED BY <1>3, <1>4

LEMMA HeapPrefix ==
    ASSUME ValuesInv, HeapInv, NEW n \in heap
    PROVE  /\ n \in Paths /\ Len(n) \in Nat
           /\ \A k \in 1 .. Len(n) :
                 /\ SubSeq(n, 1, k) \in heap /\ SubSeq(n, 1, k) # Root
                 /\ SubSeq(n, 1, k) \in linked
                    \/ \E p \in Partitions : /\ SubSeq(n, 1, k) = Type(p) /\ k = 5
                                             /\ IsPrefix(Type(p), n) /\ Type(p) \in heap \ linked
<1>1. n \in Paths /\ Len(n) \in Nat
  BY NodesPaths, LenProperties DEF ValuesInv, Paths
<1>2. ASSUME NEW k \in 1 .. Len(n)
      PROVE  /\ SubSeq(n, 1, k) \in heap /\ SubSeq(n, 1, k) # Root
             /\ SubSeq(n, 1, k) \in linked
                \/ \E p \in Partitions : /\ SubSeq(n, 1, k) = Type(p) /\ k = 5
                                         /\ IsPrefix(Type(p), n) /\ Type(p) \in heap \ linked
  <2> DEFINE m == SubSeq(n, 1, k)
  <2>1. k \in 0 .. Len(n)
    BY <1>1
  <2>2. m \in Paths /\ Depth(m) = k
    BY <1>1, <2>1, PrefixPath DEF Depth
  <2>3. m \in heap
    BY <2>1 DEF HeapInv
  <2>4. m # Root
    <3>1. Depth(m) # 0
      BY <2>2, <1>1
    <3> QED BY <3>1, RootPath
  <2>5. ASSUME m \notin linked
        PROVE  \E p \in Partitions : /\ m = Type(p) /\ k = 5
                                     /\ IsPrefix(Type(p), n) /\ Type(p) \in heap \ linked
    <3>1. PICK p \in Partitions : m = Type(p)
      BY <2>3, <2>4, <2>5 DEF HeapInv
    <3>2. Depth(Type(p)) = 5 /\ Type(p) \in Paths
      BY RowPath
    <3>3. k = 5
      BY <2>2, <3>1, <3>2
    <3>4. IsPrefix(Type(p), n)
      BY <1>1, <2>1, <3>1, <3>2, <3>3, BelowPath DEF Depth
    <3> QED BY <3>1, <3>3, <3>4, <2>3, <2>5
  <2> QED BY <2>3, <2>4, <2>5
<1> QED BY <1>1, <1>2

(* cJSON_Delete of the root frees all that is not below a type that waits, ... *)
LEMMA RootTree ==
    ASSUME ValuesInv, HeapInv, NEW n \in heap,
           \A p \in Partitions : Type(p) \in heap \ linked => ~IsPrefix(Type(p), n)
    PROVE  n \in Tree(Root)
<1>1. n \in Paths /\ Len(n) \in Nat /\ \A k \in 1 .. Len(n) : SubSeq(n, 1, k) \in linked
  BY HeapPrefix
<1>2. IsPrefix(Root, n)
  <2>1. SubSeq(n, 1, 0) = Root
    BY <1>1, SubSeqEmpty DEF Root
  <2>2. Depth(n) \in Nat
    BY <1>1 DEF Depth
  <2>3. Depth(Root) \in 0 .. Depth(n) /\ SubSeq(n, 1, Depth(Root)) = Root
    BY <2>1, <2>2, RootPath
  <2> QED BY <1>1, <2>3, RootPath, BelowPath
<1>3. Len(Root) + 1 = 1
  BY RootPath DEF Depth
<1> QED BY <1>1, <1>2, <1>3 DEF Tree

(* ... and that of a type all that is below it. *)
LEMMA TypeTree ==
    ASSUME ValuesInv, HeapInv, NEW n \in heap, NEW p \in Partitions, IsPrefix(Type(p), n)
    PROVE  n \in Tree(Type(p))
<1>1. Len(Type(p)) = 5
  BY RowPath DEF Depth
<1>2. \A k \in 6 .. Len(n) : SubSeq(n, 1, k) \in linked
  <2> SUFFICES ASSUME NEW k \in 6 .. Len(n) PROVE SubSeq(n, 1, k) \in linked
    OBVIOUS
  <2>1. Len(n) \in Nat
    BY HeapPrefix
  <2>2. k \in 1 .. Len(n) /\ k # 5
    BY <2>1
  <2> QED BY <2>2, HeapPrefix
<1>3. Len(Type(p)) + 1 = 6
  BY <1>1
<1> QED BY <1>2, <1>3 DEF Tree

(* Behind a step that comes once, no type is added; in a loop, no other loop is. *)
LEMMA NothingLater ==
    ASSUME TodoInv, NEW op, Takes(op), op \in {"find", "next", "add"}
    PROVE  /\ \A j \in DOMAIN Tail(todo) : Tail(todo)[j].op # "add"
           /\ op # "add" => \A j \in DOMAIN Tail(todo) : Tail(todo)[j].op # "next"
<1>1. todo \in Seq(Steps) /\ todo # <<>> /\ todo[1].op = op
  BY Taken
<1>2. /\ DOMAIN todo = 1 .. Len(todo) /\ Len(todo) \in Nat
      /\ DOMAIN Tail(todo) = 1 .. Len(todo) - 1
      /\ \A i \in 1 .. Len(todo) - 1 : Tail(todo)[i] = todo[i + 1]
  BY <1>1, TailOfSteps
<1>3. \A j \in DOMAIN Tail(todo) :
        j + 1 \in DOMAIN todo /\ 1 \in 1 .. (j + 1) - 1 /\ Tail(todo)[j] = todo[j + 1]
  BY <1>2
<1>4. Ordered(todo)
  BY DEF TodoInv, Block
<1> QED BY <1>1, <1>3, <1>4 DEF Ordered

(* What comes after the type of p does not need it. *)
LEMMA BlockWithout ==
    ASSUME NEW s, NEW nodes, NEW less, NEW p \in Partitions, Block(s, nodes),
           \A i \in DOMAIN s : s[i].op # "add",
           \A n \in nodes : n \in less \/ IsPrefix(Type(p), n)
    PROVE  Block(s, less)
<1>1. s \in Seq(Steps) /\ \A i \in DOMAIN s : s[i] \in Steps
  BY LenProperties, ElementOfSeq DEF Block
<1>2. \A i \in DOMAIN s : ~Pending(s, i, p)
  BY DEF Pending, Step
<1>3. ASSUME NEW i \in DOMAIN s, NEW n \in Needs(s[i]) PROVE ~IsPrefix(Type(p), n)
  <2>1. CASE s[i].op = "insert"
    <3>1. s[i].node \in Paths /\ s[i].node # Root /\ n = Parent(s[i].node)
      BY <2>1, <1>1 DEF Needs, Steps
    <3>2. ~IsPrefix(Type(p), s[i].node)
      BY <2>1, <1>2 DEF Block, Kept
    <3> QED BY <3>1, <3>2, RowPath, PrefixOfField
  <2>2. CASE s[i].op = "report"
    <3>1. PICK c \in ToSet(Caps) : s[i].node = In(Capabilities, c)
      BY <2>2 DEF Block, OkStep
    <3>2. n = Capabilities
      BY <2>2, <3>1, CapPath DEF Needs
    <3> QED BY <3>2, CapabilitiesPath, Shallow, OutsideTypes
  <2>3. CASE s[i].op \notin {"insert", "report"}
    <3>1. n = List
      BY <2>3 DEF Needs
    <3> QED BY <3>1, ListPaths, Shallow, OutsideTypes
  <2> QED BY <2>1, <2>2, <2>3
<1>4. Fed(s, less)
  <2> SUFFICES ASSUME NEW i \in DOMAIN s, NEW n \in Needs(s[i])
               PROVE  n \in less \cup Before(s, i)
    BY DEF Fed
  <2>1. n \in nodes \cup Before(s, i)
    BY DEF Block, Fed
  <2> QED BY <2>1, <1>3
<1> QED BY <1>4 DEF Block

LEMMA NextLater ==
    ASSUME TodoInv, NEW op, Takes(op), op # "next"
    PROVE  (\E i \in DOMAIN todo : todo[i].op = "next")
              <=> \E i \in DOMAIN Tail(todo) : Tail(todo)[i].op = "next"
<1>1. todo \in Seq(Steps) /\ todo # <<>> /\ todo[1].op = op
  BY Taken
<1>2. /\ DOMAIN todo = 1 .. Len(todo) /\ Len(todo) \in Nat
      /\ DOMAIN Tail(todo) = 1 .. Len(todo) - 1
      /\ \A i \in 1 .. Len(todo) - 1 : Tail(todo)[i] = todo[i + 1]
  BY <1>1, TailOfSteps
<1>3. ASSUME NEW i \in DOMAIN todo, todo[i].op = "next"
      PROVE  \E j \in DOMAIN Tail(todo) : Tail(todo)[j].op = "next"
  <2>1. i # 1
    BY <1>1, <1>3
  <2>2. i - 1 \in DOMAIN Tail(todo) /\ Tail(todo)[i - 1] = todo[i]
    BY <2>1, <1>2
  <2> QED BY <2>2, <1>3
<1>4. ASSUME NEW i \in DOMAIN Tail(todo), Tail(todo)[i].op = "next"
      PROVE  \E j \in DOMAIN todo : todo[j].op = "next"
  <2>1. i + 1 \in DOMAIN todo /\ Tail(todo)[i] = todo[i + 1]
    BY <1>2
  <2> QED BY <2>1, <1>4
<1> QED BY <1>3, <1>4

LEMMA NextConcat ==
    ASSUME NEW s \in Seq(Steps), NEW t \in Seq(Steps)
    PROVE  (\E i \in DOMAIN (s \o t) : (s \o t)[i].op = "next")
              <=> \/ \E i \in DOMAIN s : s[i].op = "next"
                  \/ \E i \in DOMAIN t : t[i].op = "next"
<1> DEFINE st == s \o t
<1>1. /\ Len(s) \in Nat /\ Len(t) \in Nat
      /\ DOMAIN s = 1 .. Len(s) /\ DOMAIN t = 1 .. Len(t)
      /\ DOMAIN st = 1 .. Len(s) + Len(t)
      /\ \A i \in 1 .. Len(s) : st[i] = s[i]
      /\ \A i \in 1 .. Len(t) : st[Len(s) + i] = t[i]
  BY ConcatOfSteps
<1> HIDE DEF st
<1>2. ASSUME NEW i \in DOMAIN st, st[i].op = "next"
      PROVE  \/ \E j \in DOMAIN s : s[j].op = "next"
             \/ \E j \in DOMAIN t : t[j].op = "next"
  <2>1. CASE i <= Len(s)
    BY <2>1, <1>1, <1>2
  <2>2. CASE ~(i <= Len(s))
    <3>1. i - Len(s) \in 1 .. Len(t) /\ Len(s) + (i - Len(s)) = i
      BY <2>2, <1>1
    <3> QED BY <3>1, <1>1, <1>2
  <2> QED BY <2>1, <2>2
<1>3. \A i \in DOMAIN s : i \in DOMAIN st /\ st[i] = s[i]
  BY <1>1
<1>4. \A i \in DOMAIN t : Len(s) + i \in DOMAIN st /\ st[Len(s) + i] = t[i]
  BY <1>1
<1> QED BY <1>2, <1>3, <1>4 DEF st

-----------------------------------------------------------------------------
(* The steps, one by one *)

LEMMA StateOfMessage ==
    ASSUME IInv, todo # <<>>
    PROVE  message \in DOMAIN Script /\ msg = {} /\ ListsInv
BY DEF IInv, ValuesInv, MessageInv

(* Nothing is lost for good and no row is begun: the fields stay accounted for. *)
LEMMA FieldsStay ==
    ASSUME IInv, todo # <<>>, message' = message,
           \A n \in heap \cup Fields(todo) : Outside(n) => n \in heap' \cup Fields(todo')
    PROVE  FieldsInv'
<1>1. message \in DOMAIN Script /\ Fields(Script[message]) \subseteq heap \cup Fields(todo)
  BY StateOfMessage DEF IInv, FieldsInv
<1>2. Fields(Script[message]) \subseteq heap' \cup Fields(todo')
  BY <1>1, ScriptSteps
<1> QED BY <1>2 DEF FieldsInv

LEMMA ListsStay ==
    ASSUME IInv, todo # <<>>, it' = it,
           heap \cup lost \cup Inserted(todo) \subseteq heap' \cup lost' \cup Inserted(todo'),
           \A p \in Partitions :
              Row(p) \in heap' \cup Inserted(todo') => Row(p) \in heap \cup Inserted(todo)
    PROVE  ListsInv'
<1>1. ListsInv
  BY StateOfMessage
<1>2. ToSet(AppPartitions) \subseteq Partitions /\ ToSet(DataPartitions) \subseteq Partitions
  BY DEF Partitions
<1>3. \A p \in Partitions : Full(p) => Full(p)'
  BY DEF Full
<1>4. Left' = Left
  BY DEF Left
<1> QED BY <1>1, <1>2, <1>3, <1>4 DEF ListsInv

(* The heap's use is read, and nothing else happens. *)
LEMMA ObtainInfoStep == IInv /\ ObtainInfo => IInv'
<1> SUFFICES ASSUME IInv, ObtainInfo PROVE IInv'
  OBVIOUS
<1>1. TodoInv /\ Takes("obtain") /\ todo' = Tail(todo)
  BY DEF IInv, ObtainInfo
<1>2. /\ todo \in Seq(Steps) /\ todo # <<>> /\ todo[1].op = "obtain"
      /\ Fields(todo) = Own(todo[1]) \cup Fields(Tail(todo))
      /\ Inserted(todo) = {n \in {Node} : "obtain" = "insert"} \cup Inserted(Tail(todo))
      /\ Ended(Tail(todo)) /\ Tail(todo) # <<>>
  BY <1>1, Taken
<1>3. /\ heap' = heap /\ linked' = linked /\ lost' = lost /\ it' = it /\ message' = message
      /\ msg' = msg /\ iterators' = iterators /\ info' = info
  BY DEF ObtainInfo
<1>4. Fields(todo') = Fields(todo) /\ Inserted(todo') = Inserted(todo)
  BY <1>1, <1>2 DEF Own
<1>5. ValuesInv'
  <2>1. heap_info' \in Seq(0 .. Cardinality(Nodes))
    BY HeapUse, AppendProperties DEF IInv, ValuesInv, ObtainInfo
  <2> QED BY <2>1, <1>3 DEF IInv, ValuesInv
<1>6. MessageInv'
  BY <1>1, <1>2, <1>3 DEF IInv, MessageInv
<1>7. TodoInv'
  <2>1. Block(Tail(todo), heap \cup {n \in {todo[1].node} : todo[1].op = "insert"})
    BY <1>1, <1>2, BlockTail DEF TodoInv
  <2>2. {n \in {todo[1].node} : todo[1].op = "insert"} = {}
    BY <1>2
  <2>3. Block(todo', heap')
    BY <2>1, <2>2, <1>1, <1>3
  <2> QED BY <2>3, <1>1, <1>2, <1>4 DEF TodoInv
<1>8. IteratorInv'
  BY <1>1, <1>3, NextLater DEF IInv, IteratorInv
<1>9. HeapInv'
  <2>1. \A p \in Partitions : Type(p) \notin heap \ linked
    BY <1>1, NoneDetached DEF IInv
  <2> QED BY <2>1, <1>3 DEF IInv, HeapInv
<1>10. LostInv' /\ AllOrNothing'
  BY <1>2, <1>3, StateOfMessage DEF IInv, LostInv, AllOrNothing
<1>11. FieldsInv'
  BY <1>2, <1>3, <1>4, FieldsStay
<1>12. ListsInv'
  BY <1>2, <1>3, <1>4, ListsStay
<1> QED BY <1>5, <1>6, <1>7, <1>8, <1>9, <1>10, <1>11, <1>12 DEF IInv

LEMMA CapabilityBlock ==
    ASSUME NEW c \in ToSet(Caps), NEW given, Capabilities \in given, NEW cap,
           cap = In(Capabilities, c)
    PROVE  /\ Block(AddCapability(cap), given) /\ AddCapability(cap) \in Seq(Steps)
           /\ \A i \in DOMAIN AddCapability(cap) : AddCapability(cap)[i].op = "insert"
           /\ Inserted(AddCapability(cap)) = {cap, In(cap, "name")}
           /\ Fields(AddCapability(cap)) = {cap, In(cap, "name")}
           /\ Outside(cap) /\ Outside(In(cap, "name"))
<1> DEFINE name == In(cap, "name")
           nodes == <<cap, name>>
           s == AddCapability(cap)
<1>1. /\ cap \in Paths /\ Parent(cap) = Capabilities /\ Depth(cap) = 2
      /\ name \in Paths /\ Parent(name) = cap /\ Depth(name) = 3
  BY CapPath
<1>2. Outside(cap) /\ Outside(name)
  BY <1>1, Shallow
<1>3. /\ s \in Seq(Steps) /\ Len(s) = 2
      /\ s[1] = Step("insert", cap) /\ s[2] = Step("insert", name)
      /\ Inserted(s) = {cap, name}
  BY <1>1, AddCapabilityNodes
<1>4. DOMAIN s = 1 .. 2
  BY <1>3, LenProperties
<1> HIDE DEF name
<1>5. nodes \in Seq(Paths) /\ Len(nodes) = 2 /\ nodes[1] = cap /\ nodes[2] = name
  BY <1>1
<1>6. s = Inserts(nodes)
  BY DEF AddCapability, name
<1> HIDE DEF nodes, s
<1>7. \A i \in 1 .. Len(nodes) :
        /\ Outside(nodes[i])
        /\ Parent(nodes[i]) \in given \/ \E j \in 1 .. i - 1 : Parent(nodes[i]) = nodes[j]
  BY <1>1, <1>2, <1>5
<1>8. Plain(s, given)
  BY <1>5, <1>6, <1>7, InsertsPlain
<1>9. \A i \in DOMAIN s : s[i].op = "insert"
  BY <1>3, <1>4 DEF Step
<1>10. Fields(s) = Inserted(s)
  <2>1. ASSUME NEW n PROVE n \in Fields(s) <=> n \in Inserted(s)
    <3>1. s \in Seq(Steps)
      BY <1>3
    <3>2. n \in Fields(s) <=> \E i \in DOMAIN s : n \in Own(s[i])
      BY <3>1, FieldsOf
    <3>3. n \in Inserted(s) <=> \E i \in DOMAIN s : s[i].op = "insert" /\ s[i].node = n
      BY <3>1, InsertedOf
    <3> QED BY <3>2, <3>3, <1>9 DEF Own
  <2> QED BY <2>1
<1> QED BY <1>2, <1>3, <1>8, <1>9, <1>10 DEF Plain, s, name

(* The heap's use is read again, and the turn of the loop begins with a row. *)
LEMMA ReportInfoStep == IInv /\ ReportInfo => IInv'
<1> SUFFICES ASSUME IInv, ReportInfo PROVE IInv'
  OBVIOUS
<1> DEFINE turn == AddCapability(Node)
           rest == Tail(todo)
<1>1. TodoInv /\ Takes("report") /\ todo' = turn \o rest
  BY DEF IInv, ReportInfo
<1>2. /\ todo \in Seq(Steps) /\ todo # <<>> /\ todo[1].op = "report" /\ Node = todo[1].node
      /\ OkStep(todo[1]) /\ Needs(todo[1]) \subseteq heap /\ rest \in Seq(Steps)
      /\ Fields(todo) = Own(todo[1]) \cup Fields(rest)
      /\ Inserted(todo) = {n \in {Node} : "report" = "insert"} \cup Inserted(rest)
      /\ Ended(rest) /\ rest # <<>>
  BY <1>1, Taken
<1>3. /\ heap' = heap /\ linked' = linked /\ lost' = lost /\ it' = it /\ message' = message
      /\ msg' = msg /\ iterators' = iterators /\ heap_info' = heap_info
  BY DEF ReportInfo
<1>4. PICK c \in ToSet(Caps) : Node = In(Capabilities, c)
  BY <1>2 DEF OkStep
<1>5. Capabilities \in heap
  <2>1. Needs(todo[1]) = {Capabilities}
    BY <1>2, <1>4, CapPath DEF Needs
  <2> QED BY <2>1, <1>2
<1>6. /\ Block(turn, heap) /\ turn \in Seq(Steps)
      /\ \A i \in DOMAIN turn : turn[i].op = "insert"
      /\ Inserted(turn) = {Node, In(Node, "name")} /\ Fields(turn) = {Node, In(Node, "name")}
      /\ Outside(Node) /\ Outside(In(Node, "name"))
  BY <1>4, <1>5, CapabilityBlock
<1>7. Own(todo[1]) = {Node, In(Node, "name")}
  BY <1>2 DEF Own
<1> HIDE DEF turn, rest
<1>8. Fields(todo') = Fields(todo) /\ Inserted(todo') = Inserted(turn) \cup Inserted(todo)
  BY <1>1, <1>2, <1>6, <1>7, FieldsConcat, InsertedConcat
<1>9. ValuesInv'
  <2>1. info' \in Seq(0 .. Cardinality(Nodes))
    BY HeapUse, AppendProperties DEF IInv, ValuesInv, ReportInfo
  <2> QED BY <2>1, <1>3 DEF IInv, ValuesInv
<1>10. Ended(todo') /\ todo' # <<>>
  BY <1>1, <1>2, <1>6, EndedConcat
<1>11. MessageInv'
  BY <1>2, <1>3, <1>10 DEF IInv, MessageInv
<1>12. TodoInv'
  <2>1. Block(rest, heap \cup {n \in {todo[1].node} : todo[1].op = "insert"})
    BY <1>1, <1>2, BlockTail DEF TodoInv, rest
  <2>2. heap \cup {n \in {todo[1].node} : todo[1].op = "insert"} \subseteq heap \cup Inserted(turn)
    BY <1>2
  <2>3. Block(rest, heap \cup Inserted(turn))
    BY <2>1, <2>2, BlockMonotonic
  <2>4. Block(todo', heap')
    BY <2>3, <1>1, <1>3, <1>6, BlockConcat
  <2> QED BY <2>4, <1>1, <1>8, <1>10 DEF TodoInv
<1>13. IteratorInv'
  <2>1. (\E i \in DOMAIN todo : todo[i].op = "next") <=> \E i \in DOMAIN rest : rest[i].op = "next"
    BY <1>1, NextLater DEF rest
  <2>2. (\E i \in DOMAIN todo' : todo'[i].op = "next")
           <=> \E i \in DOMAIN rest : rest[i].op = "next"
    <3>1. ~\E i \in DOMAIN turn : turn[i].op = "next"
      BY <1>6
    <3>2. (\E i \in DOMAIN (turn \o rest) : (turn \o rest)[i].op = "next")
             <=> \/ \E i \in DOMAIN turn : turn[i].op = "next"
                 \/ \E i \in DOMAIN rest : rest[i].op = "next"
      BY <1>2, <1>6, NextConcat
    <3> QED BY <1>1, <3>1, <3>2
  <2> QED BY <2>1, <2>2, <1>3 DEF IInv, IteratorInv
<1>14. HeapInv'
  <2>1. \A p \in Partitions : Type(p) \notin heap \ linked
    BY <1>1, NoneDetached DEF IInv
  <2> QED BY <2>1, <1>3 DEF IInv, HeapInv
<1>15. LostInv' /\ AllOrNothing'
  BY <1>2, <1>3, StateOfMessage DEF IInv, LostInv, AllOrNothing
<1>16. FieldsInv'
  BY <1>2, <1>3, <1>8, FieldsStay
<1>17. ListsInv'
  <2>1. \A p \in Partitions : Row(p) \notin Inserted(turn)
    BY <1>6 DEF Outside
  <2> QED BY <2>1, <1>2, <1>3, <1>8, ListsStay
<1> QED BY <1>9, <1>11, <1>12, <1>13, <1>14, <1>15, <1>16, <1>17 DEF IInv

(* A type that waits waits for a step that is not an insertion. *)
LEMMA PendingLater ==
    ASSUME NEW s \in Seq(Steps), s # <<>>, s[1].op = "insert", NEW p \in Partitions,
           Pending(s, 1, p)
    PROVE  Pending(Tail(s), 1, p) /\ IsPrefix(Type(p), s[1].node)
<1>1. PICK k \in DOMAIN s :
         /\ k >= 1 /\ s[k] = Step("add", Type(p))
         /\ \A j \in 1 .. k - 1 : s[j].op = "insert" /\ IsPrefix(Type(p), s[j].node)
  BY DEF Pending
<1>2. DOMAIN s = 1 .. Len(s) /\ Len(s) \in Nat
  BY TailOfSteps
<1>3. k # 1
  <2>1. s[k].op = "add"
    BY <1>1 DEF Step
  <2> QED BY <2>1
<1>4. k \in 2 .. Len(s) /\ 2 \in 2 .. Len(s) /\ 1 \in 1 .. k - 1
  BY <1>1, <1>2, <1>3
<1>5. \A j \in 2 .. k - 1 : j \in 1 .. k - 1
  BY <1>1, <1>2
<1>6. Pending(s, 2, p)
  BY <1>1, <1>4, <1>5 DEF Pending
<1>7. Pending(Tail(s), 2 - 1, p)
  BY <1>4, <1>6, PendingTail
<1> QED BY <1>1, <1>4, <1>7

(* A node is allocated and, but for a root, linked. *)
LEMMA InsertStep == IInv /\ Insert => IInv'
<1> SUFFICES ASSUME IInv, Insert PROVE IInv'
  OBVIOUS
<1>1. TodoInv /\ Takes("insert") /\ todo' = Tail(todo) /\ heap' = heap \cup {Node}
  BY DEF IInv, Insert
<1>2. /\ todo \in Seq(Steps) /\ todo # <<>> /\ todo[1].op = "insert" /\ Node = todo[1].node
      /\ Node \in Paths /\ Needs(todo[1]) \subseteq heap /\ DOMAIN todo = 1 .. Len(todo)
      /\ Len(todo) \in Nat \ {0}
      /\ Fields(todo) = Own(todo[1]) \cup Fields(Tail(todo))
      /\ Inserted(todo) = {n \in {Node} : "insert" = "insert"} \cup Inserted(Tail(todo))
      /\ Ended(Tail(todo)) /\ Tail(todo) # <<>>
  BY <1>1, Taken
<1>3. /\ lost' = lost /\ it' = it /\ message' = message /\ msg' = msg
      /\ iterators' = iterators /\ heap_info' = heap_info /\ info' = info
  BY DEF Insert
<1>4. /\ linked \subseteq linked' /\ linked' \subseteq linked \cup {Node}
      /\ Node \in linked' \/ IsRoot(Node)
  BY DEF Insert
<1>5. Own(todo[1]) = {Node}
  BY <1>2 DEF Own
<1>6. Node \in Nodes
  BY <1>1, <1>2, <1>5 DEF TodoInv
<1>7. ValuesInv'
  BY <1>1, <1>3, <1>4, <1>6 DEF IInv, ValuesInv
<1>8. MessageInv'
  BY <1>1, <1>2, <1>3 DEF IInv, MessageInv
<1>9. TodoInv'
  <2>1. Block(Tail(todo), heap \cup {n \in {todo[1].node} : todo[1].op = "insert"})
    BY <1>1, <1>2, BlockTail DEF TodoInv
  <2>2. {n \in {todo[1].node} : todo[1].op = "insert"} = {Node}
    BY <1>2
  <2>3. Block(todo', heap')
    BY <2>1, <2>2, <1>1
  <2> QED BY <2>3, <1>1, <1>2 DEF TodoInv
<1>10. IteratorInv'
  BY <1>1, <1>3, NextLater DEF IInv, IteratorInv
<1>11. HeapInv'
  <2>1. ASSUME NEW k \in 0 .. Len(Node) PROVE SubSeq(Node, 1, k) \in heap'
    <3>1. CASE k = Len(Node)
      BY <3>1, <1>1, <1>2, PrefixFull
    <3>2. CASE k # Len(Node)
      <4>1. Node # Root
        BY <3>2, RootPath DEF Depth
      <4>2. /\ Len(Node) \in Nat \ {0} /\ Len(Parent(Node)) = Len(Node) - 1
            /\ \A j \in 0 .. Len(Node) - 1 : SubSeq(Parent(Node), 1, j) = SubSeq(Node, 1, j)
        BY <4>1, <1>2, ParentPath
      <4>3. Parent(Node) \in heap
        BY <4>1, <1>2 DEF Needs
      <4>4. k \in 0 .. Len(Node) - 1 /\ k \in 0 .. Len(Parent(Node))
        BY <3>2, <4>2
      <4>5. SubSeq(Parent(Node), 1, k) \in heap
        BY <4>3, <4>4 DEF IInv, HeapInv
      <4> QED BY <4>2, <4>4, <4>5, <1>1
    <3> QED BY <3>1, <3>2
  <2>2. \A n \in heap' : \A k \in 0 .. Len(n) : SubSeq(n, 1, k) \in heap'
    BY <2>1, <1>1 DEF IInv, HeapInv
  <2>3. \A n \in heap' \ linked' : n = Root \/ \E p \in Partitions : n = Type(p)
    BY <1>1, <1>4 DEF IInv, HeapInv, IsRoot
  <2>4. ASSUME NEW p \in Partitions, Type(p) \in heap' \ linked'
        PROVE  Pending(todo', 1, p)
    <3>1. CASE Type(p) \in heap \ linked
      <4>1. Pending(todo, 1, p)
        BY <3>1 DEF IInv, HeapInv
      <4> QED BY <4>1, <1>1, <1>2, PendingLater
    <3>2. CASE Type(p) = Node
      <4>1. IsPrefix(Type(p), todo[1].node)
        BY <3>2, <1>2, PrefixOfItself
      <4>2. Pending(todo, 1, p)
        BY <4>1, <1>1, <1>2 DEF TodoInv, Block, Kept
      <4> QED BY <4>2, <1>1, <1>2, PendingLater
    <3> QED BY <2>4, <3>1, <3>2, <1>1, <1>4
  <2> QED BY <2>2, <2>3, <2>4 DEF HeapInv
<1>12. LostInv' /\ AllOrNothing'
  BY <1>2, <1>3, StateOfMessage DEF IInv, LostInv, AllOrNothing
<1>13. FieldsInv'
  BY <1>1, <1>2, <1>3, <1>5, FieldsStay
<1>14. ListsInv'
  BY <1>1, <1>2, <1>3, ListsStay
<1> QED BY <1>7, <1>8, <1>9, <1>10, <1>11, <1>12, <1>13, <1>14 DEF IInv

(* The two ways in which a call ends *)
LEMMA ReturnsInv ==
    ASSUME IInv, todo' = <<>>, heap' = {}, linked' = {}, lost' = lost, it' = <<>>,
           iterators' = 0, message' = message, message # "none",
           heap_info' = heap_info, info' = info, msg' \in SUBSET Nodes, AllOrNothing'
    PROVE  IInv'
<1>1. it' \in Seq(Partitions)
  BY EmptySeq
<1>2. ValuesInv'
  BY <1>1 DEF IInv, ValuesInv
<1>3. MessageInv'
  BY DEF MessageInv
<1>4. TodoInv'
  BY NothingLeft DEF TodoInv
<1>5. IteratorInv'
  BY DEF IteratorInv
<1>6. HeapInv' /\ FieldsInv'
  BY DEF HeapInv, FieldsInv
<1>7. LostInv'
  BY DEF IInv, LostInv
<1> QED BY <1>2, <1>3, <1>4, <1>5, <1>6, <1>7 DEF IInv

(* Without memory everything is given back, and the builder returns. *)
LEMMA InsertFailsStep == IInv /\ InsertFails => IInv'
<1> SUFFICES ASSUME IInv, InsertFails PROVE IInv'
  OBVIOUS
<1>1. TodoInv /\ HeapInv /\ ValuesInv /\ Takes("insert") /\ todo' = <<>>
  BY DEF IInv, InsertFails
<1>2. /\ todo \in Seq(Steps) /\ todo # <<>> /\ todo[1].op = "insert" /\ Node = todo[1].node
  BY <1>1, Taken
<1>3. ASSUME NEW n \in heap PROVE n \in Deleted(Node)
  <2>1. CASE \A p \in Partitions : Type(p) \in heap \ linked => ~IsPrefix(Type(p), n)
    BY <2>1, <1>1, RootTree DEF Deleted
  <2>2. ASSUME NEW p \in Partitions, Type(p) \in heap \ linked, IsPrefix(Type(p), n)
        PROVE  n \in Deleted(Node)
    <3>1. Pending(todo, 1, p)
      BY <2>2, <1>1 DEF HeapInv
    <3>2. IsPrefix(Type(p), Node)
      BY <3>1, <1>2, PendingLater
    <3>3. n \in Tree(Type(p))
      BY <2>2, <1>1, TypeTree
    <3> QED BY <3>2, <3>3 DEF Deleted
  <2> QED BY <2>1, <2>2
<1>4. heap' = {} /\ linked' = {}
  BY <1>1, <1>3 DEF InsertFails, Frees, ValuesInv
<1>5. it' = <<>> /\ iterators' = 0
  BY DEF IInv, IteratorInv, InsertFails
<1>6. /\ lost' = lost /\ message' = message /\ msg' = msg
      /\ heap_info' = heap_info /\ info' = info
  BY DEF InsertFails
<1>7. message # "none" /\ msg = {}
  BY <1>2 DEF IInv, MessageInv
<1>8. msg' \in SUBSET Nodes /\ AllOrNothing'
  BY <1>6, <1>7 DEF AllOrNothing
<1> QED BY <1>1, <1>4, <1>5, <1>6, <1>7, <1>8, ReturnsInv

(* A type is linked, or it is lost and freed: nothing that comes after it needs it. *)
LEMMA AddTypeStep == IInv /\ AddType => IInv'
<1> SUFFICES ASSUME IInv, AddType PROVE IInv'
  OBVIOUS
<1>1. TodoInv /\ HeapInv /\ ValuesInv /\ Takes("add") /\ todo' = Tail(todo)
  BY DEF IInv, AddType
<1>2. /\ todo \in Seq(Steps) /\ todo # <<>> /\ todo[1].op = "add" /\ Node = todo[1].node
      /\ OkStep(todo[1]) /\ Needs(todo[1]) \subseteq heap
      /\ DOMAIN todo = 1 .. Len(todo) /\ Len(todo) \in Nat \ {0}
      /\ Fields(todo) = Own(todo[1]) \cup Fields(Tail(todo))
      /\ Inserted(todo) = {n \in {Node} : "add" = "insert"} \cup Inserted(Tail(todo))
      /\ Ended(Tail(todo)) /\ Tail(todo) # <<>>
  BY <1>1, Taken
<1>3. /\ it' = it /\ message' = message /\ msg' = msg
      /\ iterators' = iterators /\ heap_info' = heap_info /\ info' = info
  BY DEF AddType
<1>4. PICK p \in Partitions : Node = Type(p)
  BY <1>2 DEF OkStep
<1>5. Node \in heap
  BY <1>2 DEF Needs
<1>6. Fields(todo') = Fields(todo) /\ Inserted(todo') = Inserted(todo)
  BY <1>1, <1>2 DEF Own
<1>7. ASSUME NEW q \in Partitions, Type(q) \in heap \ linked PROVE Type(q) = Node
  <2>1. PICK k \in DOMAIN todo :
           /\ k >= 1 /\ todo[k] = Step("add", Type(q))
           /\ \A j \in 1 .. k - 1 : todo[j].op = "insert"
    BY <1>1, <1>7 DEF HeapInv, Pending
  <2>2. k = 1
    <3> SUFFICES ASSUME k # 1 PROVE FALSE
      OBVIOUS
    <3>1. 1 \in 1 .. k - 1
      BY <2>1, <1>2
    <3> QED BY <3>1, <2>1, <1>2
  <2> QED BY <2>1, <2>2, <1>2 DEF Step
<1>8. Block(Tail(todo), heap)
  <2>1. Block(Tail(todo), heap \cup {n \in {todo[1].node} : todo[1].op = "insert"})
    BY <1>1, <1>2, BlockTail DEF TodoInv
  <2>2. {n \in {todo[1].node} : todo[1].op = "insert"} = {}
    BY <1>2
  <2> QED BY <2>1, <2>2
<1>9. MessageInv'
  BY <1>1, <1>2, <1>3 DEF IInv, MessageInv
<1>10. IteratorInv'
  BY <1>1, <1>3, NextLater DEF IInv, IteratorInv
<1>11. AllOrNothing'
  BY <1>2, <1>3, StateOfMessage DEF AllOrNothing
<1>12. CASE linked' = linked \cup {Node} /\ UNCHANGED <<heap, lost>>
  <2>1. ValuesInv'
    BY <1>1, <1>3, <1>5, <1>12 DEF ValuesInv
  <2>2. TodoInv'
    BY <1>1, <1>2, <1>6, <1>8, <1>12 DEF TodoInv
  <2>3. HeapInv'
    <3>1. \A q \in Partitions : Type(q) \notin heap' \ linked'
      BY <1>7, <1>12
    <3> QED BY <3>1, <1>1, <1>12 DEF HeapInv
  <2>4. LostInv'
    BY <1>12 DEF IInv, LostInv
  <2>5. FieldsInv'
    BY <1>2, <1>3, <1>6, <1>12, FieldsStay
  <2>6. ListsInv'
    BY <1>2, <1>3, <1>6, <1>12, ListsStay
  <2> QED BY <1>9, <1>10, <1>11, <2>1, <2>2, <2>3, <2>4, <2>5, <2>6 DEF IInv
<1>13. CASE Frees(Tree(Node)) /\ lost' = lost \cup Tree(Node)
  <2>1. heap' = heap \ Tree(Node) /\ linked' = linked \ Tree(Node)
    BY <1>13 DEF Frees
  <2>2. \A n \in heap : n \in Tree(Node) <=> IsPrefix(Type(p), n)
    BY <1>1, <1>4, TypeTree DEF Tree
  <2>3. Tree(Node) \subseteq heap
    BY DEF Tree
  <2>4. Node \in Tree(Node)
    BY <1>2, <1>4, <1>5, <2>2, RowPath, PrefixOfItself
  <2>5. ValuesInv'
    BY <1>1, <1>3, <1>13, <2>1, <2>3 DEF ValuesInv
  <2>6. TodoInv'
    <3>1. \A i \in DOMAIN Tail(todo) : Tail(todo)[i].op # "add"
      BY <1>1, NothingLater
    <3>2. \A n \in heap : n \in heap' \/ IsPrefix(Type(p), n)
      BY <2>1, <2>2
    <3>3. Block(todo', heap')
      BY <1>1, <1>8, <3>1, <3>2, BlockWithout
    <3> QED BY <3>3, <1>1, <1>2, <1>6 DEF TodoInv
  <2>7. HeapInv'
    <3>1. ASSUME NEW n \in heap', NEW k \in 0 .. Len(n) PROVE SubSeq(n, 1, k) \in heap'
      <4> DEFINE m == SubSeq(n, 1, k)
      <4>1. n \in heap /\ ~IsPrefix(Type(p), n)
        BY <2>1, <2>2
      <4>2. n \in Paths /\ Len(n) \in Nat
        BY <1>1, <4>1, HeapPrefix
      <4>3. m \in heap
        BY <4>1, <1>1 DEF HeapInv
      <4>4. m \in Paths /\ Len(m) = k
        BY <4>2, PrefixPath
      <4> HIDE DEF m
      <4>5. ~IsPrefix(Type(p), m)
        <5> SUFFICES ASSUME IsPrefix(Type(p), m) PROVE FALSE
          OBVIOUS
        <5>1. Type(p) \in Paths /\ Depth(Type(p)) = 5
          BY RowPath
        <5>2. 5 \in 0 .. k /\ SubSeq(m, 1, 5) = Type(p)
          BY <5>1, <4>4, BelowPath DEF Depth
        <5>3. SubSeq(m, 1, 5) = SubSeq(n, 1, 5)
          BY <4>2, <5>2, PrefixOfPrefix DEF m
        <5>4. Depth(Type(p)) \in 0 .. Depth(n)
          BY <5>1, <5>2, <4>2 DEF Depth
        <5>5. IsPrefix(Type(p), n)
          BY <5>1, <5>2, <5>3, <5>4, <4>2, BelowPath
        <5> QED BY <5>5, <4>1
      <4> QED BY <4>3, <4>5, <2>1, <2>2 DEF m
    <3>2. \A n \in heap' \ linked' : n \in heap \ linked
      BY <2>1
    <3>3. \A q \in Partitions : Type(q) \notin heap' \ linked'
      BY <3>2, <1>7, <2>1, <2>4
    <3> QED BY <3>1, <3>2, <3>3, <1>1 DEF HeapInv
  <2>8. LostInv'
    BY <1>13, <2>2, <2>3 DEF IInv, LostInv
  <2>9. FieldsInv'
    <3>1. \A n \in heap : Outside(n) => n \in heap'
      BY <2>1, <2>2, OutsideTypes
    <3> QED BY <3>1, <1>2, <1>3, <1>6, FieldsStay
  <2>10. ListsInv'
    <3>1. heap \cup lost \cup Inserted(todo) \subseteq heap' \cup lost' \cup Inserted(todo')
      BY <1>6, <1>13, <2>1
    <3>2. \A q \in Partitions :
             Row(q) \in heap' \cup Inserted(todo') => Row(q) \in heap \cup Inserted(todo)
      BY <1>6, <2>1
    <3> QED BY <3>1, <3>2, <1>2, <1>3, ListsStay
  <2> QED BY <1>9, <1>10, <1>11, <2>5, <2>6, <2>7, <2>8, <2>9, <2>10 DEF IInv
<1> QED BY <1>12, <1>13 DEF AddType

(* A list that the loop has before it is not begun, or the loop will come to all of it. *)
LEMMA HeadAndTail ==
    ASSUME NEW s \in Seq(Partitions), s # <<>>
    PROVE  /\ Head(s) \in Partitions /\ Tail(s) \in Seq(Partitions)
           /\ ToSet(s) = {Head(s)} \cup ToSet(Tail(s))
<1>1. /\ Len(s) \in Nat \ {0} /\ DOMAIN s = 1 .. Len(s) /\ Head(s) = s[1]
      /\ \A i \in 1 .. Len(s) : s[i] \in Partitions
  BY EmptySeq, LenProperties, ElementOfSeq
<1>2. /\ Tail(s) \in Seq(Partitions) /\ Len(Tail(s)) = Len(s) - 1
      /\ \A i \in 1 .. Len(s) - 1 : Tail(s)[i] = s[i + 1]
  BY HeadTailProperties
<1>3. DOMAIN Tail(s) = 1 .. Len(s) - 1
  BY <1>2, LenProperties
<1>4. ASSUME NEW i \in DOMAIN s PROVE s[i] \in {Head(s)} \cup ToSet(Tail(s))
  <2>1. CASE i = 1
    BY <2>1, <1>1
  <2>2. CASE i # 1
    <3>1. i - 1 \in DOMAIN Tail(s) /\ Tail(s)[i - 1] = s[i]
      BY <2>2, <1>1, <1>2, <1>3
    <3> QED BY <3>1 DEF ToSet
  <2> QED BY <2>1, <2>2
<1>5. ASSUME NEW i \in DOMAIN Tail(s) PROVE Tail(s)[i] \in ToSet(s)
  <2>1. i + 1 \in DOMAIN s /\ Tail(s)[i] = s[i + 1]
    BY <1>1, <1>2, <1>3
  <2> QED BY <2>1 DEF ToSet
<1>6. Head(s) \in ToSet(s)
  BY <1>1 DEF ToSet
<1> QED BY <1>1, <1>2, <1>4, <1>5, <1>6 DEF ToSet

(* What the loop does next: nothing more, or a turn for the first partition it has *)
LEMMA TurnOf ==
    ASSUME NEW parts \in Seq(Partitions), NEW given, List \in given
    PROVE  LET turn == IF parts = <<>> THEN <<>> ELSE AddPartition(Head(parts))
           IN  /\ Block(turn, given) /\ turn \in Seq(Steps)
               /\ \A i \in DOMAIN turn : turn[i].op \notin {"print", "obtain"}
               /\ (\E i \in DOMAIN turn : turn[i].op = "next") <=> parts # <<>>
               /\ Inserted(turn) \subseteq Nodes /\ Fields(turn) = Inserted(turn)
               /\ \A q \in Partitions :
                     Row(q) \in Inserted(turn) => parts # <<>> /\ q = Head(parts)
               /\ parts # <<>> => Inserted(turn) = Inserted(AddPartition(Head(parts)))
<1>1. CASE parts = <<>>
  <2> DEFINE turn == <<>>
  <2>1. /\ turn \in Seq(Steps) /\ Fields(turn) = {} /\ Inserted(turn) = {}
        /\ Block(turn, given)
    BY NothingLeft
  <2>2. DOMAIN turn = {}
    BY <2>1, EmptySeq, LenProperties
  <2>3. (\E i \in DOMAIN turn : turn[i].op = "next") <=> parts # <<>>
    BY <1>1, <2>2
  <2>4. \A i \in DOMAIN turn : turn[i].op \notin {"print", "obtain"}
    BY <2>2
  <2> HIDE DEF turn
  <2>5. turn = IF parts = <<>> THEN <<>> ELSE AddPartition(Head(parts))
    BY <1>1 DEF turn
  <2> QED BY <1>1, <2>1, <2>3, <2>4, <2>5
<1>2. CASE parts # <<>>
  <2> DEFINE p == Head(parts)
             turn == AddPartition(p)
  <2>1. p \in Partitions
    BY <1>2, HeadAndTail
  <2>2. /\ Block(turn, given) /\ \A i \in DOMAIN turn : turn[i].op \notin {"print", "obtain"}
        /\ \E i \in DOMAIN turn : turn[i].op = "next"
    BY <2>1, TurnBlock
  <2>3. /\ Inserted(turn) \subseteq Nodes /\ Fields(turn) = Inserted(turn)
        /\ \A q \in Partitions : Row(q) \in Inserted(turn) => q = p
    BY <2>1, TurnInserts
  <2>4. turn \in Seq(Steps)
    BY <2>2 DEF Block
  <2>5. turn = (IF parts = <<>> THEN <<>> ELSE AddPartition(Head(parts)))
    BY <1>2
  <2> HIDE DEF turn
  <2>6. turn = AddPartition(Head(parts)) /\ p = Head(parts)
    BY DEF turn
  <2> QED BY <1>2, <2>2, <2>3, <2>4, <2>5, <2>6
<1> QED BY <1>1, <1>2

(* A list is not begun and not before the loop, or the loop comes to what is missing. *)
Awaits(parts) ==
    \A Q \in {AppPartitions, DataPartitions} :
       \/ \A p \in ToSet(Q) : Row(p) \notin heap \cup Inserted(todo) /\ p \notin ToSet(parts)
       \/ \A p \in ToSet(Q) : p \in ToSet(parts) \/ Full(p)

LEMMA IteratesStep ==
    ASSUME IInv, NEW op \in {"find", "next"}, Takes(op), NEW parts \in Seq(Partitions),
           Iterates(parts), Awaits(parts), iterators' = IF parts = <<>> THEN 0 ELSE 1,
           UNCHANGED <<message, heap, lost, linked, heap_info, info, msg>>
    PROVE  IInv'
<1> DEFINE turn == IF parts = <<>> THEN <<>> ELSE AddPartition(Head(parts))
           rest == Tail(todo)
<1>1. TodoInv /\ HeapInv /\ todo' = turn \o rest /\ it' = parts
  BY DEF IInv, Iterates
<1>2. /\ todo \in Seq(Steps) /\ todo # <<>> /\ todo[1].op = op
      /\ Needs(todo[1]) \subseteq heap /\ rest \in Seq(Steps)
      /\ Fields(todo) = Own(todo[1]) \cup Fields(rest)
      /\ Inserted(todo) = {n \in {Node} : op = "insert"} \cup Inserted(rest)
      /\ Ended(rest) /\ rest # <<>>
  BY <1>1, Taken
<1>3. List \in heap
  BY <1>2 DEF Needs
<1>4. /\ Block(turn, heap) /\ turn \in Seq(Steps)
      /\ \A i \in DOMAIN turn : turn[i].op \notin {"print", "obtain"}
      /\ (\E i \in DOMAIN turn : turn[i].op = "next") <=> parts # <<>>
      /\ Inserted(turn) \subseteq Nodes /\ Fields(turn) = Inserted(turn)
      /\ \A q \in Partitions : Row(q) \in Inserted(turn) => parts # <<>> /\ q = Head(parts)
      /\ parts # <<>> => Inserted(turn) = Inserted(AddPartition(Head(parts)))
  BY <1>3, TurnOf
<1>5. \A j \in DOMAIN rest : rest[j].op \notin {"next", "add"}
  BY <1>1, NothingLater
<1>6. \A p \in Partitions : Type(p) \notin heap \ linked
  BY <1>1, NoneDetached
<1>7. Block(rest, heap \cup {n \in {todo[1].node} : todo[1].op = "insert"})
  BY <1>1, <1>2, BlockTail DEF TodoInv
<1> HIDE DEF turn, rest
<1>8. Fields(todo) = Fields(rest) /\ Inserted(todo) = Inserted(rest)
  BY <1>2 DEF Own
<1>9. /\ Fields(todo') = Inserted(turn) \cup Fields(todo)
      /\ Inserted(todo') = Inserted(turn) \cup Inserted(todo)
  BY <1>1, <1>2, <1>4, <1>8, FieldsConcat, InsertedConcat
<1>10. Ended(todo') /\ todo' # <<>>
  BY <1>1, <1>2, <1>4, EndedConcat
<1>11. ValuesInv'
  BY <1>1 DEF IInv, ValuesInv
<1>12. MessageInv'
  BY <1>2, <1>10 DEF IInv, MessageInv
<1>13. TodoInv'
  <2>1. heap \cup {n \in {todo[1].node} : todo[1].op = "insert"} \subseteq heap \cup Inserted(turn)
    BY <1>2
  <2>2. Block(rest, heap \cup Inserted(turn))
    BY <1>7, <2>1, BlockMonotonic
  <2>3. Block(todo', heap)
    BY <2>2, <1>1, <1>4, <1>5, BlockConcat
  <2> QED BY <2>3, <1>1, <1>4, <1>9, <1>10 DEF TodoInv
<1>14. IteratorInv'
  <2>1. (\E i \in DOMAIN (turn \o rest) : (turn \o rest)[i].op = "next")
           <=> \/ \E i \in DOMAIN turn : turn[i].op = "next"
               \/ \E i \in DOMAIN rest : rest[i].op = "next"
    BY <1>2, <1>4, NextConcat
  <2>2. (\E i \in DOMAIN todo' : todo'[i].op = "next") <=> parts # <<>>
    BY <2>1, <1>1, <1>4, <1>5
  <2> QED BY <2>2, <1>1 DEF IteratorInv
<1>15. HeapInv'
  BY <1>1, <1>6 DEF HeapInv
<1>16. LostInv'
  BY DEF IInv, LostInv
<1>17. AllOrNothing'
  BY <1>2, StateOfMessage DEF AllOrNothing
<1>18. FieldsInv'
  BY <1>2, <1>9, FieldsStay
<1>19. ListsInv'
  <2>1. ASSUME NEW Q \in {AppPartitions, DataPartitions}
        PROVE  \/ \A p \in ToSet(Q) :
                     Row(p) \notin heap' \cup Inserted(todo') /\ p \notin ToSet(it')
               \/ \A p \in ToSet(Q) : p \in Left' \/ Full(p)'
    <3>1. ToSet(Q) \subseteq Partitions
      BY DEF Partitions
    <3>2. parts # <<>> => ToSet(parts) = {Head(parts)} \cup ToSet(Tail(parts))
      BY HeadAndTail
    <3>3. parts # <<>> => Left' = ToSet(Tail(parts))
      BY <1>1 DEF Left
    <3>4. \A p \in Partitions : Full(p) => Full(p)'
      BY <1>9 DEF Full
    <3>5. parts # <<>> => Full(Head(parts))'
      BY <1>4, <1>9 DEF Full
    <3>6. CASE \A p \in ToSet(Q) : Row(p) \notin heap \cup Inserted(todo) /\ p \notin ToSet(parts)
      <4>1. ASSUME NEW p \in ToSet(Q) PROVE Row(p) \notin Inserted(turn)
        BY <3>1, <3>2, <3>6, <1>4
      <4> QED BY <4>1, <3>6, <1>1, <1>9
    <3>7. CASE \A p \in ToSet(Q) : p \in ToSet(parts) \/ Full(p)
      <4>1. parts = <<>> => ToSet(parts) = {}
        BY DEF ToSet
      <4> QED BY <4>1, <3>1, <3>2, <3>3, <3>4, <3>5, <3>7
    <3> QED BY <3>6, <3>7 DEF Awaits
  <2> QED BY <2>1 DEF ListsInv
<1> QED BY <1>11, <1>12, <1>13, <1>14, <1>15, <1>16, <1>17, <1>18, <1>19 DEF IInv

(* The loop over the partitions of one type begins, without partitions or with them. *)
LEMMA FindPartitionsStep == IInv /\ FindPartitions => IInv'
<1> SUFFICES ASSUME IInv, FindPartitions PROVE IInv'
  OBVIOUS
<1>1. TodoInv /\ Takes("find")
  BY DEF IInv, FindPartitions
<1>2. UNCHANGED <<message, heap, lost, linked, heap_info, info, msg>>
  BY DEF FindPartitions
<1>3. it = <<>> /\ iterators = 0
  <2>1. ~\E i \in DOMAIN Tail(todo) : Tail(todo)[i].op = "next"
    BY <1>1, NothingLater
  <2>2. ~\E i \in DOMAIN todo : todo[i].op = "next"
    BY <2>1, <1>1, NextLater
  <2> QED BY <2>2 DEF IInv, IteratorInv
<1>4. ListsInv
  BY <1>1, Taken, StateOfMessage
<1>5. Left = {}
  BY <1>3 DEF Left
<1>6. <<>> \in Seq(Partitions) /\ ToSet(<<>>) = {}
  BY EmptySeq DEF ToSet
<1>7. CASE Iterates(<<>>) /\ UNCHANGED iterators
  <2>1. Awaits(<<>>)
    BY <1>4, <1>5, <1>6 DEF ListsInv, Awaits
  <2>2. iterators' = 0
    BY <1>3, <1>7
  <2> QED BY <1>1, <1>2, <1>6, <1>7, <2>1, <2>2, IteratesStep
<1>8. ASSUME NEW parts \in {AppPartitions, DataPartitions}, parts # <<>>,
             Iterates(parts), iterators' = iterators + 1
      PROVE  IInv'
  <2>1. parts \in Seq(Partitions)
    <3>1. ToSet(parts) \subseteq Partitions
      BY DEF Partitions
    <3>2. parts \in Seq(STRING)
      BY JsonAssumption
    <3>3. Len(parts) \in Nat /\ DOMAIN parts = 1 .. Len(parts)
      BY <3>2, LenProperties
    <3>4. parts = [i \in 1 .. Len(parts) |-> parts[i]]
      BY <3>2, LenProperties
    <3>5. \A i \in 1 .. Len(parts) : parts[i] \in Partitions
      BY <3>1, <3>3 DEF ToSet
    <3>6. parts \in [1 .. Len(parts) -> Partitions]
      BY <3>4, <3>5
    <3> QED BY <3>3, <3>6, SeqDef
  <2>2. Awaits(parts)
    <3>1. ASSUME NEW Q \in {AppPartitions, DataPartitions}
          PROVE  \/ \A p \in ToSet(Q) :
                       Row(p) \notin heap \cup Inserted(todo) /\ p \notin ToSet(parts)
                 \/ \A p \in ToSet(Q) : p \in ToSet(parts) \/ Full(p)
      <4>1. CASE Q = parts
        BY <4>1
      <4>2. CASE Q # parts
        <5>1. ToSet(Q) \cap ToSet(parts) = {}
          BY <4>2, JsonAssumption
        <5> QED BY <5>1, <1>4, <1>5 DEF ListsInv
      <4> QED BY <4>1, <4>2
    <3> QED BY <3>1 DEF Awaits
  <2>3. iterators' = IF parts = <<>> THEN 0 ELSE 1
    BY <1>3, <1>8
  <2> QED BY <1>1, <1>2, <1>8, <2>1, <2>2, <2>3, IteratesStep
<1> QED BY <1>7, <1>8 DEF FindPartitions

(* ... and goes on with the next one. *)
LEMMA NextPartitionStep == IInv /\ NextPartition => IInv'
<1> SUFFICES ASSUME IInv, NextPartition PROVE IInv'
  OBVIOUS
<1>1. TodoInv /\ Takes("next") /\ Iterates(Tail(it))
  BY DEF IInv, NextPartition
<1>2. UNCHANGED <<message, heap, lost, linked, heap_info, info, msg>>
  BY DEF NextPartition
<1>3. /\ todo # <<>> /\ todo[1].op = "next" /\ DOMAIN todo = 1 .. Len(todo)
      /\ Len(todo) \in Nat \ {0}
  BY <1>1, Taken
<1>4. it # <<>> /\ iterators = 1
  <2>1. 1 \in DOMAIN todo
    BY <1>3
  <2> QED BY <2>1, <1>3 DEF IInv, IteratorInv
<1>5. Tail(it) \in Seq(Partitions) /\ ToSet(it) = {Head(it)} \cup ToSet(Tail(it))
  BY <1>4, HeadAndTail DEF IInv, ValuesInv
<1>6. ListsInv
  BY <1>3, StateOfMessage
<1>7. Awaits(Tail(it))
  BY <1>4, <1>5, <1>6 DEF ListsInv, Awaits, Left
<1>8. iterators' = IF Tail(it) = <<>> THEN 0 ELSE 1
  BY <1>4 DEF NextPartition
<1> QED BY <1>1, <1>2, <1>5, <1>7, <1>8, IteratesStep

(* The message is printed when it has all of its fields, and the tree is given back. *)
LEMMA PrintMessageStep == IInv /\ PrintMessage => IInv'
<1> SUFFICES ASSUME IInv, PrintMessage PROVE IInv'
  OBVIOUS
<1>1. TodoInv /\ HeapInv /\ ValuesInv /\ Takes("print") /\ todo' = <<>>
  BY DEF IInv, PrintMessage
<1>2. /\ todo \in Seq(Steps) /\ todo # <<>> /\ todo[1].op = "print"
      /\ DOMAIN todo = 1 .. Len(todo) /\ Len(todo) \in Nat \ {0}
      /\ Fields(todo) = Own(todo[1]) \cup Fields(Tail(todo))
      /\ Inserted(todo) = {n \in {Node} : "print" = "insert"} \cup Inserted(Tail(todo))
  BY <1>1, Taken
<1>3. Len(todo) = 1
  <2>1. 1 \in DOMAIN todo
    BY <1>2
  <2> QED BY <2>1, <1>1, <1>2 DEF TodoInv, Ended
<1>4. Fields(todo) = {} /\ Inserted(todo) = {}
  <2>1. Tail(todo) \in Seq(Steps) /\ Len(Tail(todo)) = 0
    BY <1>2, <1>3, TailOfSteps
  <2>2. Tail(todo) = <<>>
    BY <2>1, EmptySeq
  <2> QED BY <2>2, <1>2, NothingLeft DEF Own
<1>5. it = <<>> /\ iterators = 0
  <2>1. ~\E i \in DOMAIN todo : todo[i].op = "next"
    <3>1. \A i \in DOMAIN todo : i = 1
      BY <1>2, <1>3
    <3> QED BY <3>1, <1>2
  <2> QED BY <2>1 DEF IInv, IteratorInv
<1>6. Tree(Root) = heap
  <2>1. \A p \in Partitions : Type(p) \notin heap \ linked
    BY <1>1, NoneDetached
  <2>2. \A n \in heap : n \in Tree(Root)
    BY <2>1, <1>1, RootTree
  <2> QED BY <2>2 DEF Tree
<1>7. heap' = {} /\ linked' = {} /\ msg' \in {heap, {}}
  BY <1>1, <1>6 DEF PrintMessage, Frees, ValuesInv
<1>8. /\ it' = <<>> /\ iterators' = 0 /\ lost' = lost /\ message' = message
      /\ heap_info' = heap_info /\ info' = info
  BY <1>5 DEF PrintMessage
<1>9. message # "none" /\ message \in DOMAIN Script
  BY <1>2, StateOfMessage DEF IInv, MessageInv
<1>10. msg' \in SUBSET Nodes
  BY <1>1, <1>7 DEF ValuesInv
<1>11. ASSUME msg' = heap PROVE AllOrNothing'
  <2>1. Fields(Script[message]) \subseteq heap
    BY <1>2, <1>4 DEF IInv, FieldsInv
  <2>2. ListsInv /\ Left = {}
    BY <1>2, <1>5, StateOfMessage DEF Left
  <2>3. \A Q \in {AppPartitions, DataPartitions} :
           \/ \A p \in ToSet(Q) : Row(p) \notin heap
           \/ \A p \in ToSet(Q) : Inserted(AddPartition(p)) \subseteq heap \cup lost
    BY <2>2, <1>4 DEF ListsInv, Full
  <2> QED BY <2>1, <2>3, <1>8, <1>11 DEF AllOrNothing
<1>12. ASSUME msg' = {} PROVE AllOrNothing'
  BY <1>12 DEF AllOrNothing
<1> QED BY <1>1, <1>7, <1>8, <1>9, <1>10, <1>11, <1>12, ReturnsInv

(* A builder is called: it has everything before it. *)
LEMMA CallStep ==
    ASSUME IInv, NEW m \in DOMAIN Script, Call(m)
    PROVE  IInv'
<1>1. /\ message = "none" /\ message' = m /\ todo' = Script[m] /\ lost' = {}
      /\ heap_info' = <<>> /\ info' = <<>>
      /\ UNCHANGED <<heap, linked, it, iterators, msg>>
  BY DEF Call
<1>2. todo = <<>> /\ heap = {} /\ linked = {} /\ it = <<>> /\ iterators = 0 /\ msg = {}
  BY <1>1 DEF IInv, MessageInv, ValuesInv, IteratorInv
<1>3. /\ Block(Script[m], {}) /\ Ended(Script[m]) /\ Script[m] # <<>>
      /\ \A i \in DOMAIN Script[m] : Script[m][i].op \notin {"next", "add"}
      /\ \A n \in Fields(Script[m]) : Outside(n)
      /\ Fields(Script[m]) \subseteq Nodes
  BY ScriptSteps
<1>4. ValuesInv'
  <2>1. <<>> \in Seq(0 .. Cardinality(Nodes))
    BY EmptySeq
  <2> QED BY <2>1, <1>1, <1>2 DEF IInv, ValuesInv
<1>5. MessageInv'
  <2>1. m # "none"
    BY DEF Script
  <2> QED BY <2>1, <1>1, <1>2, <1>3 DEF MessageInv
<1>6. TodoInv'
  BY <1>1, <1>2, <1>3 DEF TodoInv
<1>7. IteratorInv'
  BY <1>1, <1>2, <1>3 DEF IteratorInv
<1>8. HeapInv' /\ LostInv' /\ AllOrNothing'
  BY <1>1, <1>2 DEF HeapInv, LostInv, AllOrNothing
<1>9. FieldsInv'
  BY <1>1 DEF FieldsInv
<1>10. ListsInv'
  <2>1. ToSet(AppPartitions) \subseteq Partitions /\ ToSet(DataPartitions) \subseteq Partitions
    BY DEF Partitions
  <2>2. \A p \in Partitions : Row(p) \notin Fields(Script[m])
    BY <1>3 DEF Outside
  <2>3. \A p \in Partitions : Row(p) \notin heap' \cup Inserted(todo')
    BY <2>2, <1>1, <1>2 DEF Fields
  <2>4. ToSet(it') = {}
    BY <1>1, <1>2 DEF ToSet
  <2> QED BY <2>1, <2>3, <2>4 DEF ListsInv
<1> QED BY <1>4, <1>5, <1>6, <1>7, <1>8, <1>9, <1>10 DEF IInv

(* The string is sent and given back. *)
LEMMA SendStep == IInv /\ Send => IInv'
<1> SUFFICES ASSUME IInv, Send PROVE IInv'
  OBVIOUS
<1>1. /\ todo = <<>> /\ message' = "none" /\ msg' = {}
      /\ UNCHANGED <<todo, heap, lost, linked, it, iterators, heap_info, info>>
  BY DEF Send, Returned
<1>2. todo' = <<>> /\ heap' = heap /\ linked' = linked /\ it' = it /\ lost' = lost
      /\ heap_info' = heap_info /\ info' = info /\ iterators' = iterators /\ todo' = todo
  BY <1>1
<1>3. ValuesInv' /\ MessageInv'
  BY <1>1, <1>2 DEF IInv, ValuesInv, MessageInv
<1>4. TodoInv'
  BY <1>2 DEF IInv, TodoInv
<1>5. IteratorInv' /\ HeapInv' /\ LostInv'
  BY <1>2 DEF IInv, IteratorInv, HeapInv, LostInv
<1>6. FieldsInv' /\ AllOrNothing'
  BY <1>1, <1>2 DEF FieldsInv, AllOrNothing
<1> QED BY <1>2, <1>3, <1>4, <1>5, <1>6 DEF IInv

LEMMA InitInv == Init => IInv
<1> SUFFICES ASSUME Init PROVE IInv
  OBVIOUS
<1>1. /\ <<>> \in Seq(Partitions) /\ <<>> \in Seq(0 .. Cardinality(Nodes))
  BY EmptySeq
<1>2. ValuesInv /\ MessageInv
  BY <1>1 DEF Init, ValuesInv, MessageInv
<1>3. TodoInv
  BY NothingLeft DEF Init, TodoInv
<1>4. IteratorInv /\ HeapInv /\ LostInv /\ FieldsInv /\ AllOrNothing
  BY DEF Init, IteratorInv, HeapInv, LostInv, FieldsInv, AllOrNothing
<1> QED BY <1>2, <1>3, <1>4 DEF IInv, Init

(* The program starts anew. *)
LEMMA AssertFailsStep == AssertFails => IInv'
<1> SUFFICES ASSUME AssertFails PROVE IInv'
  OBVIOUS
<1>1. /\ message' = "none" /\ todo' = <<>> /\ heap' = {} /\ lost' = {} /\ linked' = {}
      /\ it' = <<>> /\ iterators' = 0 /\ heap_info' = <<>> /\ info' = <<>> /\ msg' = {}
  BY DEF AssertFails
<1>2. /\ <<>> \in Seq(Partitions) /\ <<>> \in Seq(0 .. Cardinality(Nodes))
  BY EmptySeq
<1>3. ValuesInv' /\ MessageInv'
  BY <1>1, <1>2 DEF ValuesInv, MessageInv
<1>4. TodoInv'
  BY <1>1, NothingLeft DEF TodoInv
<1>5. IteratorInv' /\ HeapInv' /\ LostInv' /\ FieldsInv' /\ AllOrNothing'
  BY <1>1 DEF IteratorInv, HeapInv, LostInv, FieldsInv, AllOrNothing
<1> QED BY <1>1, <1>3, <1>4, <1>5 DEF IInv

LEMMA NextInv == IInv /\ [Next]_vars => IInv'
<1> SUFFICES ASSUME IInv, [Next]_vars PROVE IInv'
  OBVIOUS
<1>1. ASSUME NEW m \in DOMAIN Script, Call(m) PROVE IInv'
  BY <1>1, CallStep
<1>2. CASE ObtainInfo
  BY <1>2, ObtainInfoStep
<1>3. CASE ReportInfo
  BY <1>3, ReportInfoStep
<1>4. CASE Insert
  BY <1>4, InsertStep
<1>5. CASE InsertFails
  BY <1>5, InsertFailsStep
<1>6. CASE AddType
  BY <1>6, AddTypeStep
<1>7. CASE FindPartitions
  BY <1>7, FindPartitionsStep
<1>8. CASE NextPartition
  BY <1>8, NextPartitionStep
<1>9. CASE PrintMessage
  BY <1>9, PrintMessageStep
<1>10. CASE Send
  BY <1>10, SendStep
<1>11. CASE AssertFails
  BY <1>11, AssertFailsStep
<1>12. CASE UNCHANGED vars
  <2>1. /\ message' = message /\ todo' = todo /\ heap' = heap /\ lost' = lost
        /\ linked' = linked /\ it' = it /\ iterators' = iterators /\ msg' = msg
        /\ heap_info' = heap_info /\ info' = info
    BY <1>12 DEF vars
  <2>2. ValuesInv' /\ MessageInv' /\ TodoInv' /\ IteratorInv' /\ HeapInv' /\ LostInv'
    BY <2>1 DEF IInv, ValuesInv, MessageInv, TodoInv, IteratorInv, HeapInv, LostInv
  <2>3. FieldsInv' /\ AllOrNothing'
    BY <2>1 DEF IInv, FieldsInv, AllOrNothing
  <2>4. todo' # <<>> => ListsInv'
    BY <2>1 DEF IInv, ListsInv, Full, Left
  <2> QED BY <2>2, <2>3, <2>4 DEF IInv
<1> QED BY <1>1, <1>2, <1>3, <1>4, <1>5, <1>6, <1>7, <1>8, <1>9, <1>10, <1>11, <1>12 DEF Next

-----------------------------------------------------------------------------
(* The theorems *)

(* The strengthening holds in every state: it says of the steps that a builder still  *)
(* has to take what they need, and of the heap how it is linked (json_builder.c).     *)
THEOREM Invariant == Spec => []IInv
BY InitInv, NextInv, PTL DEF Spec

(* The variables of json_builder.c have their types for every partition table and     *)
(* every list of heap capabilities; there is one iterator at most, and it is          *)
(* allocated as long as it is not at its end (json_builder.c:364-404).                *)
THEOREM TypeCorrect == Spec => []TypeOK
<1>1. IInv => TypeOK
  <2> SUFFICES ASSUME IInv PROVE TypeOK
    OBVIOUS
  <2>1. \A i \in DOMAIN todo : todo[i] \in Steps
    BY LenProperties, ElementOfSeq DEF IInv, TodoInv, Block
  <2>2. \A i \in DOMAIN todo :
           todo[i].op \in {"insert", "obtain", "report", "find", "add", "next", "print"}
    BY <2>1 DEF Steps
  <2>3. ToSet(it) \subseteq Partitions
    BY LenProperties, ElementOfSeq DEF IInv, ValuesInv, ToSet
  <2>4. /\ \A i \in DOMAIN heap_info : heap_info[i] \in 0 .. Cardinality(Nodes)
        /\ \A i \in DOMAIN info : info[i] \in 0 .. Cardinality(Nodes)
    BY LenProperties, ElementOfSeq DEF IInv, ValuesInv
  <2>5. iterators = IF it = <<>> THEN 0 ELSE 1
    BY DEF IInv, IteratorInv
  <2> QED BY <2>2, <2>3, <2>4, <2>5 DEF IInv, ValuesInv, TypeOK
<1> QED BY <1>1, Invariant, PTL

(* Whatever allocation fails, the nested json_fail labels of json_builder.c give back *)
(* the whole tree, the type that is not yet part of it and the iterator; nothing but   *)
(* the type of a partition is ever lost, and once a message is sent its string is      *)
(* given back too.                                                                     *)
THEOREM NothingIsLeaked == Spec => []NothingLeaks
<1>1. IInv => NothingLeaks
  BY DEF IInv, MessageInv, IteratorInv, LostInv, NothingLeaks
<1> QED BY <1>1, Invariant, PTL

(* Whatever allocation fails, what send_resp publishes has every field, and of a list  *)
(* of partitions all or, without an iterator, none (json_builder.c:364-404, 554-566);  *)
(* what is missing of a type was lost at line 379.                                     *)
THEOREM MessagesAreWhole == Spec => []AllOrNothing
<1>1. IInv => AllOrNothing
  BY DEF IInv
<1> QED BY <1>1, Invariant, PTL

-----------------------------------------------------------------------------
(* The memory check *)

(* What was obtained was obtained from an empty heap, what is reported was not. *)
CountInv ==
    /\ ObtainsFirst(todo)
    /\ (\E i \in DOMAIN todo : todo[i].op = "obtain") => heap = {}
    /\ \A i \in DOMAIN heap_info : heap_info[i] = 0
    /\ \A i \in DOMAIN info : info[i] > 0

LEMMA ObtainsTail ==
    ASSUME NEW s \in Seq(Steps), s # <<>>, ObtainsFirst(s)
    PROVE  /\ ObtainsFirst(Tail(s))
           /\ (\E i \in DOMAIN Tail(s) : Tail(s)[i].op = "obtain") => s[1].op = "obtain"
<1>1. /\ Len(s) \in Nat \ {0} /\ DOMAIN s = 1 .. Len(s) /\ DOMAIN Tail(s) = 1 .. Len(s) - 1
      /\ \A i \in 1 .. Len(s) - 1 : Tail(s)[i] = s[i + 1]
  BY TailOfSteps
<1>2. ASSUME NEW j \in DOMAIN Tail(s), Tail(s)[j].op = "obtain"
      PROVE  \A i \in 1 .. j + 1 : s[i].op = "obtain"
  <2>1. j + 1 \in DOMAIN s /\ s[j + 1].op = "obtain"
    BY <1>1, <1>2
  <2> QED BY <2>1 DEF ObtainsFirst
<1>3. ASSUME NEW j \in DOMAIN Tail(s), Tail(s)[j].op = "obtain", NEW i \in 1 .. j
      PROVE  Tail(s)[i].op = "obtain"
  <2>1. i \in 1 .. Len(s) - 1 /\ i + 1 \in 1 .. j + 1
    BY <1>1
  <2> QED BY <2>1, <1>1, <1>2, <1>3
<1>4. \A j \in DOMAIN Tail(s) : 1 \in 1 .. j + 1
  BY <1>1
<1> QED BY <1>2, <1>3, <1>4 DEF ObtainsFirst

LEMMA ObtainsConcat ==
    ASSUME NEW s \in Seq(Steps), NEW t \in Seq(Steps),
           \A i \in DOMAIN s : s[i].op # "obtain", \A i \in DOMAIN t : t[i].op # "obtain"
    PROVE  \A i \in DOMAIN (s \o t) : (s \o t)[i].op # "obtain"
<1> DEFINE st == s \o t
<1>1. /\ Len(s) \in Nat /\ Len(t) \in Nat
      /\ DOMAIN s = 1 .. Len(s) /\ DOMAIN t = 1 .. Len(t)
      /\ DOMAIN st = 1 .. Len(s) + Len(t)
      /\ \A i \in 1 .. Len(s) : st[i] = s[i]
      /\ \A i \in 1 .. Len(t) : st[Len(s) + i] = t[i]
  BY ConcatOfSteps
<1> HIDE DEF st
<1>2. ASSUME NEW i \in DOMAIN st PROVE st[i].op # "obtain"
  <2>1. CASE i <= Len(s)
    BY <2>1, <1>1
  <2>2. CASE ~(i <= Len(s))
    <3>1. i - Len(s) \in 1 .. Len(t) /\ Len(s) + (i - Len(s)) = i
      BY <2>2, <1>1
    <3> QED BY <3>1, <1>1
  <2> QED BY <2>1, <2>2
<1> QED BY <1>2 DEF st

(* Once there is another step to take, nothing is obtained any more. *)
LEMMA ObtainedBefore ==
    ASSUME IInv, CountInv, NEW op, Takes(op), op # "obtain"
    PROVE  \A i \in DOMAIN Tail(todo) : Tail(todo)[i].op # "obtain"
<1>1. todo \in Seq(Steps) /\ todo # <<>> /\ todo[1].op = op
  BY Taken DEF IInv
<1> QED BY <1>1, ObtainsTail DEF CountInv

LEMMA CountStep ==
    ASSUME IInv, CountInv, IInv', [Next]_vars
    PROVE  CountInv'
<1> USE DEF CountInv
<1>1. ASSUME NEW m \in DOMAIN Script, Call(m) PROVE CountInv'
  <2>1. /\ message = "none" /\ todo' = Script[m] /\ heap_info' = <<>> /\ info' = <<>>
        /\ heap' = heap
    BY <1>1 DEF Call
  <2>2. heap = {}
    BY <2>1 DEF IInv, MessageInv
  <2>3. ObtainsFirst(Script[m])
    BY ScriptSteps
  <2> QED BY <2>1, <2>2, <2>3
<1>2. ASSUME ObtainInfo PROVE CountInv'
  <2>1. /\ todo' = Tail(todo) /\ heap' = heap /\ info' = info
        /\ heap_info' = Append(heap_info, Cardinality(heap)) /\ Takes("obtain")
    BY <1>2 DEF ObtainInfo
  <2>2. /\ todo \in Seq(Steps) /\ todo # <<>> /\ todo[1].op = "obtain"
        /\ DOMAIN todo = 1 .. Len(todo) /\ Len(todo) \in Nat \ {0}
    BY <2>1, Taken DEF IInv
  <2>3. heap = {}
    <3>1. 1 \in DOMAIN todo
      BY <2>2
    <3> QED BY <3>1, <2>2
  <2>4. Cardinality(heap) = 0
    BY <2>3, FS_EmptySet
  <2>5. \A i \in DOMAIN heap_info' : heap_info'[i] = 0
    <3>1. /\ heap_info \in Seq(0 .. Cardinality(Nodes))
          /\ Cardinality(heap) \in 0 .. Cardinality(Nodes)
      BY HeapUse DEF IInv, ValuesInv
    <3>2. /\ Len(heap_info) \in Nat /\ DOMAIN heap_info = 1 .. Len(heap_info)
      BY <3>1, LenProperties
    <3>3. /\ heap_info' \in Seq(0 .. Cardinality(Nodes)) /\ Len(heap_info') = Len(heap_info) + 1
          /\ \A i \in 1 .. Len(heap_info) : heap_info'[i] = heap_info[i]
          /\ heap_info'[Len(heap_info) + 1] = Cardinality(heap)
      BY <2>1, <3>1, AppendProperties
    <3>4. DOMAIN heap_info' = 1 .. Len(heap_info) + 1
      BY <3>3, LenProperties
    <3> QED BY <2>4, <3>2, <3>3, <3>4
  <2>6. ObtainsFirst(todo')
    BY <2>1, <2>2, ObtainsTail
  <2> QED BY <2>1, <2>3, <2>5, <2>6
<1>3. ASSUME NEW op, Takes(op), op # "obtain", heap_info' = heap_info, info' = info,
             NEW turn \in Seq(Steps), \A i \in DOMAIN turn : turn[i].op # "obtain",
             todo' \in {<<>>, Tail(todo), turn \o Tail(todo)}
      PROVE  CountInv'
  <2>1. Tail(todo) \in Seq(Steps)
    BY <1>3, Taken DEF IInv
  <2>2. \A i \in DOMAIN Tail(todo) : Tail(todo)[i].op # "obtain"
    BY <1>3, ObtainedBefore
  <2>3. \A i \in DOMAIN (turn \o Tail(todo)) : (turn \o Tail(todo))[i].op # "obtain"
    BY <1>3, <2>1, <2>2, ObtainsConcat
  <2>4. DOMAIN <<>> = {}
    OBVIOUS
  <2>5. \A i \in DOMAIN todo' : todo'[i].op # "obtain"
    BY <1>3, <2>2, <2>3, <2>4
  <2> QED BY <1>3, <2>5 DEF ObtainsFirst
<1>4. <<>> \in Seq(Steps) /\ DOMAIN <<>> = {}
  BY EmptySeq
<1>5. ASSUME ReportInfo PROVE CountInv'
  <2>1. /\ todo' = AddCapability(Node) \o Tail(todo) /\ heap' = heap /\ heap_info' = heap_info
        /\ info' = Append(info, Cardinality(heap)) /\ Takes("report")
    BY <1>5 DEF ReportInfo
  <2>2. /\ OkStep(todo[1]) /\ todo[1].op = "report" /\ Node = todo[1].node
        /\ Needs(todo[1]) \subseteq heap
    BY <2>1, Taken DEF IInv
  <2>3. PICK c \in ToSet(Caps) : Node = In(Capabilities, c)
    BY <2>2 DEF OkStep
  <2>4. Capabilities \in heap
    BY <2>2, <2>3, CapPath DEF Needs
  <2>5. /\ AddCapability(Node) \in Seq(Steps)
        /\ \A i \in DOMAIN AddCapability(Node) : AddCapability(Node)[i].op = "insert"
    BY <2>3, <2>4, CapabilityBlock
  <2>6. Tail(todo) \in Seq(Steps) /\ \A i \in DOMAIN Tail(todo) : Tail(todo)[i].op # "obtain"
    BY <2>1, Taken, ObtainedBefore DEF IInv
  <2>7. \A i \in DOMAIN todo' : todo'[i].op # "obtain"
    <3>1. \A i \in DOMAIN AddCapability(Node) : AddCapability(Node)[i].op # "obtain"
      BY <2>5
    <3> QED BY <2>1, <2>5, <2>6, <3>1, ObtainsConcat
  <2>8. Cardinality(heap) > 0
    <3>1. IsFiniteSet(heap)
      BY NodesFinite, FS_Subset DEF IInv, ValuesInv
    <3>2. Cardinality(heap) \in Nat /\ (Cardinality(heap) = 0 <=> heap = {})
      BY <3>1, FS_CardinalityType, FS_EmptySet
    <3> QED BY <2>4, <3>2
  <2>9. \A i \in DOMAIN info' : info'[i] > 0
    <3>1. info \in Seq(0 .. Cardinality(Nodes)) /\ Cardinality(heap) \in 0 .. Cardinality(Nodes)
      BY HeapUse DEF IInv, ValuesInv
    <3>2. /\ Len(info) \in Nat /\ DOMAIN info = 1 .. Len(info)
      BY <3>1, LenProperties
    <3>3. /\ info' \in Seq(0 .. Cardinality(Nodes)) /\ Len(info') = Len(info) + 1
          /\ \A i \in 1 .. Len(info) : info'[i] = info[i]
          /\ info'[Len(info) + 1] = Cardinality(heap)
      BY <2>1, <3>1, AppendProperties
    <3>4. DOMAIN info' = 1 .. Len(info) + 1
      BY <3>3, LenProperties
    <3> QED BY <2>8, <3>2, <3>3, <3>4
  <2> QED BY <2>1, <2>7, <2>9 DEF ObtainsFirst
<1>6. ASSUME Insert \/ AddType PROVE CountInv'
  <2>1. heap_info' = heap_info /\ info' = info /\ todo' = Tail(todo)
    BY <1>6 DEF Insert, AddType
  <2>2. Takes("insert") \/ Takes("add")
    BY <1>6 DEF Insert, AddType
  <2> QED BY <2>1, <2>2, <1>3, <1>4
<1>7. ASSUME InsertFails \/ PrintMessage PROVE CountInv'
  <2>1. heap_info' = heap_info /\ info' = info /\ todo' = <<>>
    BY <1>7 DEF InsertFails, PrintMessage
  <2>2. Takes("insert") \/ Takes("print")
    BY <1>7 DEF InsertFails, PrintMessage
  <2> QED BY <2>1, <2>2, <1>3, <1>4
<1>8. ASSUME FindPartitions \/ NextPartition PROVE CountInv'
  <2>1. heap_info' = heap_info /\ info' = info
    BY <1>8 DEF FindPartitions, NextPartition
  <2>2. \E op \in {"find", "next"} : Takes(op)
    BY <1>8 DEF FindPartitions, NextPartition
  <2>3. Iterates(it')
    BY <1>8 DEF FindPartitions, NextPartition, Iterates
  <2>4. List \in heap
    BY <2>2, Taken DEF IInv, Needs
  <2>5. it' \in Seq(Partitions)
    BY DEF IInv, ValuesInv
  <2> DEFINE turn == IF it' = <<>> THEN <<>> ELSE AddPartition(Head(it'))
  <2>6. turn \in Seq(Steps) /\ \A i \in DOMAIN turn : turn[i].op \notin {"print", "obtain"}
    BY <2>4, <2>5, TurnOf
  <2>7. todo' = turn \o Tail(todo)
    BY <2>3 DEF Iterates
  <2> HIDE DEF turn
  <2>8. \A i \in DOMAIN turn : turn[i].op # "obtain"
    BY <2>6
  <2> QED BY <2>1, <2>2, <2>6, <2>7, <2>8, <1>3
<1>9. ASSUME Send PROVE CountInv'
  BY <1>9 DEF Send
<1>10. ASSUME AssertFails PROVE CountInv'
  <2>1. todo' = <<>> /\ heap' = {} /\ heap_info' = <<>> /\ info' = <<>>
    BY <1>10 DEF AssertFails
  <2> QED BY <2>1, <1>4 DEF ObtainsFirst
<1>11. ASSUME UNCHANGED vars PROVE CountInv'
  BY <1>11 DEF vars
<1> QED BY <1>1, <1>2, <1>5, <1>6, <1>7, <1>8, <1>9, <1>10, <1>11 DEF Next

(* What json_builder.c:155-156 promises is broken in every row of every memory check:  *)
(* counting the message's own nodes alone, each amount that is reported (:177) is      *)
(* larger than all that were obtained before the first allocation (:163).              *)
THEOREM MessageCountsItself ==
    Spec => [](\A i \in DOMAIN heap_info, j \in DOMAIN info : heap_info[i] < info[j])
<1>1. Init => CountInv
  <2> SUFFICES ASSUME Init PROVE CountInv
    OBVIOUS
  <2>1. todo = <<>> /\ heap = {} /\ heap_info = <<>> /\ info = <<>> /\ DOMAIN <<>> = {}
    BY DEF Init
  <2> QED BY <2>1 DEF CountInv, ObtainsFirst
<1>2. IInv /\ CountInv /\ IInv' /\ [Next]_vars => CountInv'
  BY CountStep
<1>3. CountInv => \A i \in DOMAIN heap_info, j \in DOMAIN info : heap_info[i] < info[j]
  BY DEF CountInv
<1> QED BY <1>1, <1>2, <1>3, Invariant, PTL DEF Spec

=============================================================================
