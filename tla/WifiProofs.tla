----------------------------- MODULE WifiProofs -----------------------------
(***************************************************************************)
(* Proofs about Wifi, for every number of retries, bound of the queue, set *)
(* of readers and set of buffers.                                          *)
(*                                                                         *)
(* IInv is the inductive invariant.  Who holds the mutex (MutexInv) keeps  *)
(* the readers and the handler apart; where the handler has a buffer of    *)
(* its own (MineInv) makes every buffer somebody's; and what the events    *)
(* under way say of the station (StationInv) is why the address follows    *)
(* it and why the assertion in the handler holds.  Each part has a lemma   *)
(* that says what one step does to it.                                     *)
(***************************************************************************)
EXTENDS Wifi, SequenceTheorems, FiniteSetTheorems, TLAPS

(* The steps of the handler that lead to an attempt to connect, and those that *)
(* lead to an address *)
Connecting == {"hostname", "connect", "take_to_clear", "clear", "give_cleared",
               "free", "retry", "set_fail"}

Addressing == {"malloc", "take_to_set", "set", "give_set", "set_connected"}

(* The chain of retries goes on. *)
Alive == ~refused /\ WIFI_FAIL_BIT \notin events

(* The mutex is with the one whose next step is between its take and its give. *)
MutexInv ==
    /\ mutex = "handler" <=> handler \in {"clear", "give_cleared", "set", "give_set"}
    /\ \A r \in Readers : mutex = r <=> reader[r] # "idle"
    /\ mutex = "absent" <=> run_app = "start_wifi"

(* Where the handler has a buffer of its own, and what it leaves in local_ip *)
MineInv ==
    /\ handler \in {"take_to_set", "set"} => mine \in Buffers
    /\ handler \in {"give_cleared", "free"} => local_ip = NULL
    /\ handler \in {"give_set", "set_connected"} => local_ip # NULL
    /\ handler \notin {"give_cleared", "free", "take_to_set", "set"} => mine = NULL

OnlyAddresses == \A i \in DOMAIN queue : queue[i] = "sta_got_ip"

(* The station was lost or started, which nobody has heard of yet: the event is *)
(* the last one in the queue, behind addresses.                                 *)
NewsWaits ==
    /\ Alive /\ handler \in Addressing \cup {"idle"}
    /\ queue # <<>> /\ queue[Len(queue)] # "sta_got_ip"
    /\ \A i \in DOMAIN queue : i # Len(queue) => queue[i] = "sta_got_ip"
    /\ queue[Len(queue)] = "sta_start" =>
          Len(queue) = 1 /\ handler = "idle" /\ local_ip = NULL

(* ... the handler deals with it; ... *)
NewsHandled ==
    /\ Alive /\ handler \in Connecting /\ queue = <<>>
    /\ local_ip # NULL => handler \in {"take_to_clear", "clear"}

(* ... or it was the last and nobody tries again. *)
GivenUp == ~Alive /\ handler = "idle" /\ queue = <<>> /\ local_ip = NULL

(* What the driver does, and what the events under way are going to say of it *)
StationInv ==
    /\ station = "off" <=> run_app = "start_wifi"
    /\ station = "off" =>
          Alive /\ handler = "idle" /\ queue = <<>> /\ local_ip = NULL
    /\ station = "idle" => NewsWaits \/ NewsHandled \/ GivenUp
    /\ station = "connecting" =>
          Alive /\ handler = "idle" /\ queue = <<>> /\ local_ip = NULL
    /\ station = "up" =>
          /\ Alive /\ handler \in Addressing \cup {"idle"} /\ OnlyAddresses
          /\ queue = <<>> /\ handler = "idle" => local_ip # NULL

IInv ==
    /\ TypeOK
    /\ MutexInv
    /\ MineInv
    /\ AddressOwned
    /\ NoUseAfterFree
    /\ StationInv

-----------------------------------------------------------------------------
(* The event group *)

(* A call that sets bits leaves a group of the same type. *)
LEMMA SetBitsType ==
    ASSUME TypeOK, NEW bits \in SUBSET {WIFI_CONNECTED_BIT, WIFI_FAIL_BIT},
           Group!SetBits(bits)
    PROVE  Group!GroupType' /\ events' = events \cup bits
<1>1. events' = events \cup bits
  BY DEF Group!SetBits
<1>2. events' \in SUBSET {WIFI_CONNECTED_BIT, WIFI_FAIL_BIT}
  BY <1>1 DEF TypeOK, Group!GroupType
<1>3. Group!Woken(events \cup bits) \in Group!Waiter
  BY <1>1, <1>2 DEF Group!Woken, Group!Waiter, Group!Forever
<1>4. waiter \in [{"run_app"} -> Group!Waiter]
  BY DEF TypeOK, Group!GroupType
<1>5. waiter' \in [{"run_app"} -> Group!Waiter]
  BY <1>3, <1>4 DEF Group!SetBits
<1>6. QED
  BY <1>1, <1>2, <1>5 DEF Group!GroupType

(* The steps of the task that waits keep the type of the group and its bits. *)
LEMMA WaitType ==
    ASSUME TypeOK, WaitForBits \/ WaitReturns
    PROVE  Group!GroupType' /\ events' = events
<1>1. events' = events
  BY DEF WaitForBits, WaitReturns, Group!WaitBits, Group!Return
<1>2. /\ events \in SUBSET {WIFI_CONNECTED_BIT, WIFI_FAIL_BIT}
      /\ waiter \in [{"run_app"} -> Group!Waiter]
  BY DEF TypeOK, Group!GroupType
<1>3. /\ Group!Running \in Group!Waiter
      /\ Group!Woken(events) \in Group!Waiter
      /\ Group!Blocked({WIFI_CONNECTED_BIT, WIFI_FAIL_BIT}, Group!Forever)
            \in Group!Waiter
  BY <1>2 DEF Group!Running, Group!Woken, Group!Blocked, Group!Waiter, Group!Forever
<1>4. waiter' \in [{"run_app"} -> Group!Waiter]
  BY <1>2, <1>3 DEF WaitForBits, WaitReturns, Group!WaitBits, Group!Return
<1>5. QED
  BY <1>1, <1>2, <1>4 DEF Group!GroupType

-----------------------------------------------------------------------------
(* A restart brings every variable to a state in which the invariant holds, *)
(* whatever the state before it was.                                        *)
LEMMA ResetIsInit ==
    ASSUME Reset
    PROVE  IInv'
<1>1. Group!GroupType'
  BY DEF Reset, Group!GroupType, Group!Running, Group!Waiter, Group!Forever
<1>2. TypeOK'
  <2>1. refused' \in BOOLEAN
    BY Zenon DEF Reset
  <2>2. queue' \in Seq(WifiEvents) /\ Len(queue') <= QueueBound
    BY WifiAssumption, EmptySeq DEF Reset
  <2>3. QED
    BY <1>1, <2>1, <2>2, WifiAssumption DEF Reset, TypeOK, Steps, Pointers
<1>3. MutexInv' /\ MineInv' /\ AddressOwned' /\ NoUseAfterFree'
  BY WifiAssumption DEF Reset, MutexInv, MineInv, AddressOwned, NoUseAfterFree
<1>4. StationInv'
  BY DEF Reset, StationInv, Alive
<1>5. QED
  BY <1>2, <1>3, <1>4 DEF IInv

(* The first boot starts as every other. *)
LEMMA InitInv == Init => IInv
<1> SUFFICES ASSUME Init PROVE IInv
  OBVIOUS
<1>1. Group!GroupType
  BY DEF Init, Group!GroupInit, Group!GroupType, Group!Running, Group!Waiter,
         Group!Forever
<1>2. TypeOK
  <2>1. refused \in BOOLEAN
    BY Zenon DEF Init
  <2>2. queue \in Seq(WifiEvents) /\ Len(queue) <= QueueBound
    BY WifiAssumption, EmptySeq DEF Init
  <2>3. QED
    BY <1>1, <2>1, <2>2, WifiAssumption DEF Init, TypeOK, Steps, Pointers
<1>3. MutexInv /\ MineInv /\ AddressOwned /\ NoUseAfterFree
  BY WifiAssumption DEF Init, MutexInv, MineInv, AddressOwned, NoUseAfterFree
<1>4. StationInv
  BY DEF Init, StationInv, Alive, Group!GroupInit
<1>5. QED
  BY <1>2, <1>3, <1>4 DEF IInv

-----------------------------------------------------------------------------
(* Frames *)

(* A step that leaves the mutex, the pointers and the buffers alone disturbs no *)
(* statement about them.                                                        *)
LEMMA MemoryFrame ==
    ASSUME IInv,
           UNCHANGED <<run_app, handler, mine, local_ip, mutex, readerVars, heap>>
    PROVE  MutexInv' /\ MineInv' /\ AddressOwned' /\ NoUseAfterFree'
BY DEF IInv, MutexInv, MineInv, AddressOwned, NoUseAfterFree, readerVars

(* A step that leaves the station, the handler and the events alone disturbs no *)
(* statement about what the events under way are going to say.                  *)
LEMMA StationFrame ==
    ASSUME IInv,
           UNCHANGED <<events, run_app, station, queue, handler, local_ip, refused>>
    PROVE  StationInv'
<1>1. Alive' = Alive /\ NewsWaits' = NewsWaits /\ NewsHandled' = NewsHandled
  BY DEF Alive, NewsWaits, NewsHandled
<1>2. GivenUp' = GivenUp /\ OnlyAddresses' = OnlyAddresses
  BY <1>1 DEF GivenUp, OnlyAddresses
<1>3. QED
  BY <1>1, <1>2 DEF IInv, StationInv

(* What the type invariant says of the variables a step leaves alone *)
LEMMA GroupFrame ==
    ASSUME TypeOK, UNCHANGED <<events, waiter>>
    PROVE  Group!GroupType'
BY DEF TypeOK, Group!GroupType

-----------------------------------------------------------------------------
(* The task in libiot_start_wifi starts the driver, whose first event is the news *)
(* that the station is there; it only waits after that.                           *)
LEMMA TaskStep ==
    ASSUME IInv, StartTask
    PROVE  IInv'
<1>1. CASE StartSta
  <2>1. CASE Reset
    BY <2>1, ResetIsInit
  <2>2. CASE ~Reset
    <3>1. /\ run_app = "start_wifi" /\ run_app' = "wait"
          /\ mutex' = "free" /\ station' = "idle" /\ queue' = <<"sta_start">>
          /\ UNCHANGED <<events, waiter, handler, mine, local_ip, readerVars,
                         heap, retry_count, refused>>
      BY <1>1, <2>2 DEF StartSta
    <3>2. /\ station = "off" /\ handler = "idle" /\ local_ip = NULL
          /\ mutex = "absent" /\ \A r \in Readers : reader[r] = "idle"
      BY <3>1, WifiAssumption DEF IInv, StationInv, MutexInv
    <3>3. TypeOK'
      <4>1. queue' \in Seq(WifiEvents) /\ Len(queue') <= QueueBound
        BY <3>1, WifiAssumption DEF WifiEvents
      <4>2. QED
        BY <3>1, <4>1, GroupFrame DEF IInv, TypeOK, readerVars
    <3>4. MutexInv' /\ MineInv' /\ AddressOwned' /\ NoUseAfterFree'
      BY <3>1, <3>2, WifiAssumption
         DEF IInv, MutexInv, MineInv, AddressOwned, NoUseAfterFree, readerVars
    <3>5. Alive'
      BY <3>1 DEF IInv, StationInv, Alive
    <3>6. StationInv'
      BY <3>1, <3>2, <3>5 DEF StationInv, NewsWaits
    <3>7. QED
      BY <3>3, <3>4, <3>6 DEF IInv
  <2>3. QED
    BY <2>1, <2>2
<1>2. CASE WaitForBits
  <2>1. UNCHANGED <<run_app, station, queue, handler, mine, local_ip, mutex,
                    readerVars, heap, retry_count, refused>>
    BY <1>2 DEF WaitForBits
  <2>2. Group!GroupType' /\ events' = events
    BY <1>2, WaitType DEF IInv
  <2>3. TypeOK'
    BY <2>1, <2>2 DEF IInv, TypeOK, readerVars
  <2>4. QED
    BY <2>1, <2>2, <2>3, MemoryFrame, StationFrame DEF IInv
<1>3. CASE WaitReturns
  <2>1. /\ run_app = "wait" /\ run_app' = "started"
        /\ UNCHANGED <<station, queue, handler, mine, local_ip, mutex, readerVars,
                       heap, retry_count, refused>>
    BY <1>3 DEF WaitReturns
  <2>2. Group!GroupType' /\ events' = events
    BY <1>3, WaitType DEF IInv
  <2>3. TypeOK'
    BY <2>1, <2>2 DEF IInv, TypeOK, readerVars
  <2>4. MutexInv' /\ MineInv' /\ AddressOwned' /\ NoUseAfterFree'
    BY <2>1 DEF IInv, MutexInv, MineInv, AddressOwned, NoUseAfterFree, readerVars
  <2>5. StationInv'
    BY <2>1, <2>2
       DEF IInv, StationInv, Alive, NewsWaits, NewsHandled, GivenUp, OnlyAddresses
  <2>6. QED
    BY <2>3, <2>4, <2>5 DEF IInv
<1>4. QED
  BY <1>1, <1>2, <1>3 DEF StartTask

-----------------------------------------------------------------------------
(* The driver appends one event: the news of a lost connection comes last, behind *)
(* nothing but addresses.                                                         *)
LEMMA NetworkStep ==
    ASSUME IInv, Network
    PROVE  IInv'
<1>1. PICK event \in {"sta_got_ip", "sta_disconnected"} :
        queue' = Append(queue, event) /\ Len(queue) < QueueBound
  BY DEF Network, GetsAddress, AttemptFails, ConnectionLost, AddressChanges, Posts
<1>2. UNCHANGED <<events, waiter, run_app, handler, mine, local_ip, mutex,
                  readerVars, heap, retry_count, refused>>
  BY DEF Network, GetsAddress, AttemptFails, ConnectionLost, AddressChanges, Posts
<1>3. /\ queue' \in Seq(WifiEvents) /\ Len(queue') = Len(queue) + 1
      /\ queue'[Len(queue')] = event
      /\ \A i \in 1 .. Len(queue) : queue'[i] = queue[i]
      /\ queue' # <<>> /\ DOMAIN queue' = 1 .. Len(queue) + 1
      /\ DOMAIN queue = 1 .. Len(queue) /\ Len(queue) \in Nat
  BY <1>1 DEF IInv, TypeOK, WifiEvents
<1>4. TypeOK'
  <2>1. station' \in {"idle", "up"}
    BY DEF Network, GetsAddress, AttemptFails, ConnectionLost, AddressChanges, Posts
  <2>2. Len(queue') <= QueueBound
    BY <1>1, <1>3, WifiAssumption
  <2>3. QED
    BY <1>2, <1>3, <2>1, <2>2, GroupFrame DEF IInv, TypeOK, readerVars
<1>5. MutexInv' /\ MineInv' /\ AddressOwned' /\ NoUseAfterFree'
  BY <1>2, MemoryFrame
<1>6. StationInv'
  <2>1. Alive /\ Alive' /\ handler \in Addressing \cup {"idle"} /\ OnlyAddresses
    BY <1>2 DEF Network, GetsAddress, AttemptFails, ConnectionLost, AddressChanges,
                Posts, IInv, StationInv, Alive, OnlyAddresses
  <2>2. run_app # "start_wifi"
    BY DEF Network, GetsAddress, AttemptFails, ConnectionLost, AddressChanges,
           Posts, IInv, StationInv
  <2>3. CASE GetsAddress \/ AddressChanges
    <3>1. event = "sta_got_ip" /\ station' = "up"
      BY <2>3, <1>1, <1>3 DEF GetsAddress, AddressChanges, Posts, IInv, TypeOK
    <3>2. OnlyAddresses'
      BY <1>3, <2>1, <3>1 DEF OnlyAddresses
    <3>3. QED
      BY <1>2, <1>3, <2>1, <2>2, <3>1, <3>2 DEF StationInv
  <2>4. CASE AttemptFails \/ ConnectionLost
    <3>1. event = "sta_disconnected" /\ station' = "idle"
      BY <2>4, <1>1, <1>3 DEF AttemptFails, ConnectionLost, Posts, IInv, TypeOK
    <3>2. NewsWaits'
      BY <1>2, <1>3, <2>1, <3>1 DEF NewsWaits, OnlyAddresses
    <3>3. QED
      BY <1>2, <2>2, <3>1, <3>2 DEF StationInv
  <2>5. QED
    BY <2>3, <2>4 DEF Network
<1>7. QED
  BY <1>4, <1>5, <1>6 DEF IInv

-----------------------------------------------------------------------------
(* The handler *)

(* Where the handler is tells what the station does. *)
LEMMA HandlerTells ==
    ASSUME IInv
    PROVE  /\ handler \in Connecting => station = "idle" /\ NewsHandled
           /\ handler \in Addressing =>
                 \/ station = "idle" /\ NewsWaits
                 \/ station = "up" /\ Alive /\ OnlyAddresses
           /\ handler # "idle" => run_app # "start_wifi" /\ Alive
BY DEF IInv, TypeOK, StationInv, NewsWaits, NewsHandled, GivenUp, Connecting,
       Addressing, Steps

(* A step of the handler on the way to an attempt to connect *)
LEMMA ConnectingStep ==
    ASSUME IInv, handler \in Connecting, handler' \in Connecting,
           UNCHANGED <<events, run_app, station, queue, refused>>,
           local_ip' # NULL => handler' \in {"take_to_clear", "clear"}
    PROVE  StationInv'
<1>1. station = "idle" /\ NewsHandled /\ run_app # "start_wifi"
  BY HandlerTells DEF Connecting
<1>2. NewsHandled'
  BY <1>1 DEF NewsHandled, Alive
<1>3. QED
  BY <1>1, <1>2 DEF StationInv

(* A step of the handler on the way to an address *)
LEMMA AddressingStep ==
    ASSUME IInv, handler \in Addressing, handler' \in Addressing \cup {"idle"},
           UNCHANGED <<run_app, station, queue, refused>>,
           WIFI_FAIL_BIT \in events' <=> WIFI_FAIL_BIT \in events,
           handler' = "idle" => local_ip' # NULL
    PROVE  StationInv'
<1>1. Alive' /\ run_app # "start_wifi"
  BY HandlerTells DEF Alive, Addressing
<1>2. CASE station = "idle" /\ NewsWaits
  <2>1. NewsWaits'
    BY <1>1, <1>2 DEF NewsWaits, Addressing
  <2>2. QED
    BY <1>1, <1>2, <2>1 DEF StationInv
<1>3. CASE station = "up" /\ OnlyAddresses
  <2>1. OnlyAddresses'
    BY <1>3 DEF OnlyAddresses
  <2>2. QED
    BY <1>1, <1>3, <2>1 DEF StationInv
<1>4. QED
  BY <1>2, <1>3, HandlerTells

(* esp_wifi_connect is called once per chain: then the station connects, or the *)
(* chain has ended.                                                             *)
LEMMA ConnectsStep ==
    ASSUME IInv, handler \in {"connect", "retry"}, handler' = "idle", Connects,
           UNCHANGED <<events, run_app, queue, local_ip>>
    PROVE  StationInv' /\ station' \in {"off", "idle", "connecting", "up"}
           /\ refused' \in BOOLEAN
<1>1. /\ station = "idle" /\ Alive /\ queue = <<>> /\ local_ip = NULL
      /\ run_app # "start_wifi"
  BY HandlerTells DEF Connecting, NewsHandled
<1>2. CASE station' = "connecting" /\ UNCHANGED refused
  <2>1. Alive'
    BY <1>1, <1>2, Zenon DEF Alive
  <2>2. QED
    BY <1>1, <1>2, <2>1 DEF StationInv, IInv, TypeOK
<1>3. CASE refused' = TRUE /\ UNCHANGED station
  <2>1. ~Alive'
    BY <1>3, Zenon DEF Alive
  <2>2. GivenUp'
    BY <1>1, <2>1 DEF GivenUp
  <2>3. refused' \in BOOLEAN
    BY <1>3, Zenon
  <2>4. QED
    BY <1>1, <1>3, <2>2, <2>3 DEF StationInv
<1>4. QED
  BY <1>2, <1>3 DEF Connects

(* The next event starts the chain of steps that belongs to it. *)
LEMMA NextEventStep ==
    ASSUME IInv, NextEvent
    PROVE  IInv'
<1>1. /\ handler = "idle" /\ queue # <<>> /\ queue' = Tail(queue)
      /\ UNCHANGED <<events, waiter, run_app, station, mine, local_ip, mutex,
                     readerVars, heap, retry_count, refused>>
  BY DEF NextEvent
<1>2. /\ Head(queue) \in WifiEvents /\ queue' \in Seq(WifiEvents)
      /\ Head(queue) = queue[1]
      /\ \A i \in 1 .. Len(queue') : queue'[i] = queue[i + 1]
      /\ Len(queue) \in Nat \ {0} /\ Len(queue') = Len(queue) - 1
      /\ DOMAIN queue = 1 .. Len(queue) /\ DOMAIN queue' = 1 .. Len(queue')
      /\ queue' = <<>> <=> Len(queue') = 0
  <2>1. queue \in Seq(WifiEvents)
    BY DEF IInv, TypeOK
  <2>2. queue' \in Seq(WifiEvents) /\ Len(queue') = Len(queue) - 1
    BY <1>1, <2>1, HeadTailProperties
  <2>3. Len(queue) \in Nat \ {0} /\ Head(queue) = queue[1]
    BY <1>1, <2>1
  <2>4. /\ DOMAIN queue = 1 .. Len(queue) /\ DOMAIN queue' = 1 .. Len(queue')
        /\ \A i \in 1 .. Len(queue') : queue'[i] = queue[i + 1]
    BY <1>1, <2>1, <2>2, <2>3
  <2>5. queue' = <<>> <=> Len(queue') = 0
    BY <2>2, EmptySeq
  <2>6. QED
    BY <1>1, <2>1, <2>2, <2>3, <2>4, <2>5, HeadTailProperties
<1>3. handler' = CASE queue[1] = "sta_start" -> "hostname"
                     [] queue[1] = "sta_disconnected" -> "take_to_clear"
                     [] queue[1] = "sta_got_ip" -> "malloc"
  BY <1>2 DEF NextEvent
<1>4. handler' \in {"hostname", "take_to_clear", "malloc"}
  BY <1>2, <1>3 DEF WifiEvents
<1>5. TypeOK'
  <2>1. Len(queue') <= QueueBound
    BY <1>2, WifiAssumption DEF IInv, TypeOK
  <2>2. QED
    BY <1>1, <1>2, <1>4, <2>1, GroupFrame DEF IInv, TypeOK, Steps, readerVars
<1>6. MutexInv' /\ MineInv' /\ AddressOwned' /\ NoUseAfterFree'
  BY <1>1, <1>4
     DEF IInv, MutexInv, MineInv, AddressOwned, NoUseAfterFree, readerVars
<1>7. StationInv'
  <2>1. CASE station = "idle"
    <3>1. NewsWaits /\ run_app # "start_wifi"
      BY <1>1, <2>1 DEF IInv, StationInv, NewsHandled, GivenUp, Connecting
    <3>2. Alive'
      BY <1>1, <3>1 DEF NewsWaits, Alive
    <3>3. CASE Len(queue) = 1
      <4>1. handler' \in {"hostname", "take_to_clear"} /\ queue' = <<>>
        BY <1>1, <1>2, <1>3, <3>1, <3>3 DEF NewsWaits, WifiEvents
      <4>2. handler' = "hostname" => local_ip = NULL
        BY <1>2, <1>3, <3>1, <3>3 DEF NewsWaits, WifiEvents
      <4>3. NewsHandled'
        BY <1>1, <3>2, <4>1, <4>2 DEF NewsHandled, Connecting
      <4>4. QED
        BY <1>1, <2>1, <3>1, <4>3 DEF StationInv
    <3>4. CASE Len(queue) # 1
      <4>1. queue[1] = "sta_got_ip" /\ handler' = "malloc"
        BY <1>2, <1>3, <3>1, <3>4 DEF NewsWaits
      <4>2. queue'[Len(queue')] = queue[Len(queue)] /\ queue' # <<>>
        BY <1>2, <3>4
      <4>3. NewsWaits'
        BY <1>2, <3>1, <3>2, <3>4, <4>1, <4>2 DEF NewsWaits, Addressing
      <4>4. QED
        BY <1>1, <2>1, <3>1, <4>3 DEF StationInv
    <3>5. QED
      BY <3>3, <3>4
  <2>2. CASE station # "idle"
    <3>1. /\ station = "up" /\ Alive /\ OnlyAddresses
          /\ run_app # "start_wifi"
      BY <1>1, <2>2 DEF IInv, TypeOK, StationInv
    <3>2. handler' = "malloc" /\ OnlyAddresses' /\ Alive'
      BY <1>1, <1>2, <1>3, <3>1 DEF OnlyAddresses, Alive
    <3>3. QED
      BY <1>1, <3>1, <3>2 DEF StationInv, Addressing
  <2>3. QED
    BY <2>1, <2>2
<1>8. QED
  BY <1>5, <1>6, <1>7 DEF IInv

(* The steps that prepare an attempt to connect, make it, or give up *)
LEMMA ConnectStep ==
    ASSUME IInv, SetHostname \/ FirstConnect \/ Retry \/ SetFail
    PROVE  IInv'
<1>1. CASE Reset
  BY <1>1, ResetIsInit
<1>2. CASE SetHostname /\ ~Reset
  <2>1. /\ handler = "hostname" /\ handler' = "connect"
        /\ UNCHANGED <<events, waiter, run_app, station, queue, mine, local_ip,
                       mutex, readerVars, heap, retry_count, refused>>
    BY <1>2 DEF SetHostname
  <2>2. TypeOK'
    BY <2>1, GroupFrame DEF IInv, TypeOK, Steps, readerVars
  <2>3. MutexInv' /\ MineInv' /\ AddressOwned' /\ NoUseAfterFree'
    BY <2>1 DEF IInv, MutexInv, MineInv, AddressOwned, NoUseAfterFree, readerVars
  <2>4. local_ip = NULL
    BY <2>1, HandlerTells DEF NewsHandled, Connecting
  <2>5. StationInv'
    BY <2>1, <2>4, ConnectingStep DEF Connecting
  <2>6. QED
    BY <2>2, <2>3, <2>5 DEF IInv
<1>3. CASE FirstConnect \/ Retry
  <2>1. /\ handler \in {"connect", "retry"} /\ handler' = "idle" /\ Connects
        /\ UNCHANGED <<events, waiter, run_app, queue, mine, local_ip, mutex,
                       readerVars, heap>>
    BY <1>3 DEF FirstConnect, Retry
  <2>2. retry_count' \in 0 .. RetryCap
    BY <1>3, WifiAssumption DEF FirstConnect, Retry, IInv, TypeOK
  <2>3. StationInv' /\ station' \in {"off", "idle", "connecting", "up"}
        /\ refused' \in BOOLEAN
    BY <2>1, ConnectsStep
  <2>4. TypeOK'
    BY <2>1, <2>2, <2>3, GroupFrame DEF IInv, TypeOK, Steps, readerVars
  <2>5. MutexInv' /\ MineInv' /\ AddressOwned' /\ NoUseAfterFree'
    BY <2>1 DEF IInv, MutexInv, MineInv, AddressOwned, NoUseAfterFree, readerVars
  <2>6. QED
    BY <2>3, <2>4, <2>5 DEF IInv
<1>4. CASE SetFail
  <2>1. /\ handler = "set_fail" /\ handler' = "idle"
        /\ Group!SetBits({WIFI_FAIL_BIT})
        /\ UNCHANGED <<run_app, station, queue, mine, local_ip, mutex, readerVars,
                       heap, retry_count, refused>>
    BY <1>4 DEF SetFail
  <2>2. Group!GroupType' /\ WIFI_FAIL_BIT \in events'
    BY <2>1, SetBitsType DEF IInv
  <2>3. TypeOK'
    BY <2>1, <2>2 DEF IInv, TypeOK, Steps, readerVars
  <2>4. MutexInv' /\ MineInv' /\ AddressOwned' /\ NoUseAfterFree'
    BY <2>1 DEF IInv, MutexInv, MineInv, AddressOwned, NoUseAfterFree, readerVars
  <2>5. /\ station = "idle" /\ queue = <<>> /\ local_ip = NULL
        /\ run_app # "start_wifi"
    BY <2>1, HandlerTells DEF NewsHandled, Connecting
  <2>6. GivenUp'
    BY <2>1, <2>2, <2>5 DEF GivenUp, Alive
  <2>7. StationInv'
    BY <2>1, <2>5, <2>6 DEF StationInv
  <2>8. QED
    BY <2>3, <2>4, <2>7 DEF IInv
<1>5. QED
  BY <1>1, <1>2, <1>3, <1>4

(* The steps with the mutex: it is the handler's from the take to the give. *)
LEMMA MutexStep ==
    ASSUME IInv, HandlerTakes \/ HandlerGives
    PROVE  IInv'
<1>1. UNCHANGED <<events, waiter, run_app, station, queue, mine, local_ip,
                  readerVars, heap, retry_count, refused>>
  BY DEF HandlerTakes, HandlerGives
<1>2. TypeOK'
  BY <1>1, GroupFrame DEF HandlerTakes, HandlerGives, IInv, TypeOK, Steps, readerVars
<1>3. MutexInv' /\ MineInv'
  BY <1>1, WifiAssumption
     DEF HandlerTakes, HandlerGives, IInv, MutexInv, MineInv, readerVars
<1>4. AddressOwned' /\ NoUseAfterFree'
  BY <1>1 DEF IInv, AddressOwned, NoUseAfterFree, readerVars
<1>5. StationInv'
  <2>1. CASE handler \in {"take_to_clear", "give_cleared"}
    <3>1. local_ip' # NULL => handler' = "clear"
      BY <1>1, <2>1, HandlerTells DEF HandlerTakes, HandlerGives, NewsHandled, Connecting
    <3>2. handler' \in {"clear", "free"}
      BY <2>1 DEF HandlerTakes, HandlerGives
    <3>3. QED
      BY <1>1, <2>1, <3>1, <3>2, ConnectingStep DEF Connecting
  <2>2. CASE handler \in {"take_to_set", "give_set"}
    <3>1. handler' \in {"set", "set_connected"}
      BY <2>2 DEF HandlerTakes, HandlerGives
    <3>2. QED
      BY <1>1, <2>2, <3>1, AddressingStep DEF Addressing
  <2>3. QED
    BY <2>1, <2>2 DEF HandlerTakes, HandlerGives
<1>6. QED
  BY <1>2, <1>3, <1>4, <1>5 DEF IInv

(* The lost address goes from local_ip to the handler, which frees it when no *)
(* reader can have it any more.                                               *)
LEMMA ClearStep ==
    ASSUME IInv, ClearAddress \/ FreeAddress
    PROVE  IInv'
<1>1. CASE ClearAddress
  <2>1. /\ handler = "clear" /\ handler' = "give_cleared"
        /\ mine' = local_ip /\ local_ip' = NULL
        /\ UNCHANGED <<events, waiter, run_app, station, queue, mutex, readerVars,
                       heap, retry_count, refused>>
    BY <1>1 DEF ClearAddress
  <2>2. TypeOK'
    BY <2>1, GroupFrame DEF IInv, TypeOK, Steps, Pointers, readerVars
  <2>3. \A r \in Readers : reader[r] = "idle"
    BY <2>1, WifiAssumption DEF IInv, MutexInv
  <2>4. MutexInv' /\ MineInv' /\ AddressOwned' /\ NoUseAfterFree'
    BY <2>1, <2>3
       DEF IInv, MutexInv, MineInv, AddressOwned, NoUseAfterFree, readerVars
  <2>5. StationInv'
    BY <2>1, ConnectingStep DEF Connecting
  <2>6. QED
    BY <2>2, <2>4, <2>5 DEF IInv
<1>2. CASE FreeAddress
  <2>1. /\ handler = "free" /\ handler' \in {"retry", "set_fail"}
        /\ heap' = heap \ {mine} /\ mine' = NULL
        /\ UNCHANGED <<events, waiter, run_app, station, queue, local_ip, mutex,
                       readerVars, retry_count, refused>>
    BY <1>2 DEF FreeAddress
  <2>2. TypeOK'
    BY <2>1, GroupFrame DEF IInv, TypeOK, Steps, Pointers, readerVars
  <2>3. local_ip = NULL
    BY <2>1 DEF IInv, MineInv
  <2>4. \A r \in Readers : reader[r] # "copy"
    BY <2>3, WifiAssumption DEF IInv, TypeOK, NoUseAfterFree
  <2>5. MutexInv' /\ MineInv' /\ AddressOwned' /\ NoUseAfterFree'
    BY <2>1, <2>3, <2>4
       DEF IInv, MutexInv, MineInv, AddressOwned, NoUseAfterFree, readerVars
  <2>6. StationInv'
    BY <2>1, <2>3, ConnectingStep DEF Connecting
  <2>7. QED
    BY <2>2, <2>5, <2>6 DEF IInv
<1>3. QED
  BY <1>1, <1>2

(* The new address is the handler's, then local_ip's: the assertion that none is *)
(* there already ends the program or holds.                                      *)
LEMMA SetStep ==
    ASSUME IInv, FormatAddress \/ SetAddress \/ SetConnected
    PROVE  IInv'
<1>1. CASE Reset
  BY <1>1, ResetIsInit
<1>2. CASE FormatAddress /\ ~Reset
  <2>1. PICK b \in Buffers \ heap :
          /\ handler = "malloc" /\ handler' = "take_to_set"
          /\ mine' = b /\ heap' = heap \cup {b}
          /\ UNCHANGED <<events, waiter, run_app, station, queue, local_ip,
                         mutex, readerVars, retry_count, refused>>
    BY <1>2 DEF FormatAddress
  <2>2. TypeOK'
    BY <2>1, GroupFrame DEF IInv, TypeOK, Steps, Pointers, readerVars
  <2>3. b # NULL /\ mine = NULL
    BY <2>1, WifiAssumption DEF IInv, MineInv
  <2>4. MutexInv' /\ MineInv' /\ AddressOwned' /\ NoUseAfterFree'
    BY <2>1, <2>3
       DEF IInv, MutexInv, MineInv, AddressOwned, NoUseAfterFree, readerVars
  <2>5. StationInv'
    BY <2>1, AddressingStep DEF Addressing
  <2>6. QED
    BY <2>2, <2>4, <2>5 DEF IInv
<1>3. CASE SetAddress /\ ~Reset
  <2>1. /\ handler = "set" /\ handler' = "give_set"
        /\ local_ip = NULL /\ local_ip' = mine /\ mine' = NULL
        /\ UNCHANGED <<events, waiter, run_app, station, queue, mutex, readerVars,
                       heap, retry_count, refused>>
    BY <1>3 DEF SetAddress
  <2>2. TypeOK'
    BY <2>1, GroupFrame DEF IInv, TypeOK, Steps, Pointers, readerVars
  <2>3. mine # NULL /\ \A r \in Readers : reader[r] = "idle"
    BY <2>1, WifiAssumption DEF IInv, MineInv, MutexInv
  <2>4. MutexInv' /\ MineInv' /\ AddressOwned' /\ NoUseAfterFree'
    BY <2>1, <2>3
       DEF IInv, MutexInv, MineInv, AddressOwned, NoUseAfterFree, readerVars
  <2>5. StationInv'
    BY <2>1, AddressingStep DEF Addressing
  <2>6. QED
    BY <2>2, <2>4, <2>5 DEF IInv
<1>4. CASE SetConnected
  <2>1. /\ handler = "set_connected" /\ handler' = "idle" /\ retry_count' = 0
        /\ Group!SetBits({WIFI_CONNECTED_BIT})
        /\ UNCHANGED <<run_app, station, queue, mine, local_ip, mutex, readerVars,
                       heap, refused>>
    BY <1>4 DEF SetConnected
  <2>2. Group!GroupType' /\ events' = events \cup {WIFI_CONNECTED_BIT}
    BY <2>1, SetBitsType DEF IInv
  <2>3. WIFI_FAIL_BIT \in events' <=> WIFI_FAIL_BIT \in events
    BY <2>2 DEF WIFI_CONNECTED_BIT, WIFI_FAIL_BIT
  <2>4. TypeOK'
    BY <2>1, <2>2, WifiAssumption DEF IInv, TypeOK, Steps, readerVars
  <2>5. local_ip # NULL
    BY <2>1 DEF IInv, MineInv
  <2>6. MutexInv' /\ MineInv' /\ AddressOwned' /\ NoUseAfterFree'
    BY <2>1 DEF IInv, MutexInv, MineInv, AddressOwned, NoUseAfterFree, readerVars
  <2>7. StationInv'
    BY <2>1, <2>3, <2>5, AddressingStep DEF Addressing
  <2>8. QED
    BY <2>4, <2>6, <2>7 DEF IInv
<1>5. QED
  BY <1>1, <1>2, <1>3, <1>4

-----------------------------------------------------------------------------
(* A reader holds the mutex from before it looks at local_ip until it has copied *)
(* the bytes.                                                                    *)
LEMMA ReaderStep ==
    ASSUME IInv, NEW r \in Readers, ReadTakes(r) \/ Reads(r)
    PROVE  IInv'
<1>1. CASE Reset
  BY <1>1, ResetIsInit
<1>2. CASE ~Reset
  <2>1. UNCHANGED <<events, waiter, run_app, station, queue, handler, mine,
                    local_ip, heap, retry_count, refused>>
    BY <1>2 DEF ReadTakes, Reads, ReadPointer, ReadCopies, ReadGives
  <2>2. /\ reader' \in [Readers -> {"idle", "strdup", "copy", "give"}]
        /\ seen' \in [Readers -> Pointers]
        /\ mutex' \in {"absent", "free", "handler"} \cup Readers
    BY <1>2 DEF ReadTakes, Reads, ReadPointer, ReadCopies, ReadGives, IInv, TypeOK,
                Pointers
  <2>3. TypeOK'
    BY <2>1, <2>2, GroupFrame DEF IInv, TypeOK
  <2>4. MutexInv'
    <3>1. CASE ReadTakes(r)
      BY <1>2, <2>1, <3>1, WifiAssumption DEF ReadTakes, IInv, TypeOK, MutexInv
    <3>2. CASE ReadPointer(r) \/ ReadCopies(r)
      BY <1>2, <2>1, <3>2, WifiAssumption
         DEF ReadPointer, ReadCopies, IInv, TypeOK, MutexInv
    <3>3. CASE ReadGives(r)
      BY <1>2, <2>1, <3>3, WifiAssumption DEF ReadGives, IInv, TypeOK, MutexInv
    <3>4. QED
      BY <3>1, <3>2, <3>3 DEF Reads
  <2>5. MineInv' /\ AddressOwned'
    BY <2>1 DEF IInv, MineInv, AddressOwned
  <2>6. NoUseAfterFree'
    <3>1. CASE ReadPointer(r)
      <4>1. /\ local_ip # NULL /\ mutex = r
            /\ seen' = [seen EXCEPT ![r] = local_ip]
            /\ reader' = [reader EXCEPT ![r] = "copy"]
        BY <1>2, <3>1 DEF ReadPointer, IInv, MutexInv
      <4>2. local_ip \in heap
        BY <4>1 DEF IInv, AddressOwned
      <4>3. QED
        BY <2>1, <4>1, <4>2 DEF IInv, TypeOK, NoUseAfterFree
    <3>2. CASE ~ReadPointer(r)
      BY <1>2, <2>1, <3>2
         DEF ReadTakes, Reads, ReadCopies, ReadGives, IInv, TypeOK, NoUseAfterFree
    <3>3. QED
      BY <3>1, <3>2
  <2>7. StationInv'
    BY <2>1, StationFrame
  <2>8. QED
    BY <2>3, <2>4, <2>5, <2>6, <2>7 DEF IInv
<1>3. QED
  BY <1>1, <1>2

(* Every step preserves the invariant. *)
LEMMA NextInv == IInv /\ [Next]_vars => IInv'
<1> SUFFICES ASSUME IInv, [Next]_vars PROVE IInv'
  OBVIOUS
<1>1. CASE StartTask
  BY <1>1, TaskStep
<1>2. CASE Network
  BY <1>2, NetworkStep
<1>3. CASE HandlerRuns \/ HandlerTakes
  BY <1>3, NextEventStep, ConnectStep, MutexStep, ClearStep, SetStep DEF HandlerRuns
<1>4. CASE \E r \in Readers : ReadTakes(r) \/ Reads(r)
  BY <1>4, ReaderStep
<1>5. CASE UNCHANGED vars
  <2>1. TypeOK'
    BY <1>5, GroupFrame DEF vars, readerVars, IInv, TypeOK
  <2>2. QED
    BY <1>5, <2>1, MemoryFrame, StationFrame DEF vars, readerVars, IInv
<1>6. QED
  BY <1>1, <1>2, <1>3, <1>4, <1>5 DEF Next

-----------------------------------------------------------------------------
(* The inductive invariant holds in every reachable state. *)
THEOREM Invariant == Spec => []IInv
BY InitInv, NextInv, PTL DEF Spec

(* Every variable has its type, of the queue and the retry counter the bound *)
(* included.                                                                 *)
THEOREM TypeCorrect == Spec => []TypeOK
<1>1. IInv => TypeOK
  BY DEF IInv
<1>2. QED
  BY <1>1, Invariant, PTL

(* libiot_get_local_ip copies from live memory, and the current address: what   *)
(* the handler frees it has taken out of local_ip under the mutex first.        *)
THEOREM ReadsLiveAddress == Spec => []NoUseAfterFree
<1>1. IInv => NoUseAfterFree
  BY DEF IInv
<1>2. QED
  BY <1>1, Invariant, PTL

(* No series of events of the driver leaks an address or frees one twice. *)
THEOREM NoAddressLost == Spec => []AddressOwned
<1>1. IInv => AddressOwned
  BY DEF IInv
<1>2. QED
  BY <1>1, Invariant, PTL

(* With the events handled there is an address to tell exactly while the station *)
(* is connected.                                                                 *)
THEOREM AddressIsStations == Spec => []AddressFollowsStation
<1>1. IInv => AddressFollowsStation
  BY DEF IInv, TypeOK, StationInv, AddressFollowsStation, NewsWaits, NewsHandled,
         GivenUp, Connecting
<1>2. QED
  BY <1>1, Invariant, PTL

(* What is on its way to an attempt to connect is one thing, or nothing once the *)
(* chain has ended.                                                              *)
LEMMA AttemptsOfStation ==
    ASSUME IInv, run_app # "start_wifi"
    PROVE  /\ Alive => \E x : Attempts = {x}
           /\ ~Alive => Attempts = {}
<1>1. CASE station = "idle" /\ NewsWaits
  <2>1. handler \notin Connecting /\ Alive
    BY <1>1 DEF NewsWaits, Addressing, Connecting
  <2>2. /\ Len(queue) \in Nat \ {0} /\ DOMAIN queue = 1 .. Len(queue)
        /\ queue[Len(queue)] \in {"sta_start", "sta_disconnected"}
    <3>1. queue \in Seq(WifiEvents) /\ queue # <<>>
      BY <1>1 DEF IInv, TypeOK, NewsWaits
    <3>2. Len(queue) \in Nat \ {0} /\ DOMAIN queue = 1 .. Len(queue)
      BY <3>1, EmptySeq, LenProperties
    <3>3. queue[Len(queue)] \in WifiEvents
      BY <3>1, <3>2, LenProperties
    <3>4. QED
      BY <1>1, <3>2, <3>3 DEF NewsWaits, WifiEvents
  <2>3. {i \in DOMAIN queue : queue[i] \in {"sta_start", "sta_disconnected"}}
            = {Len(queue)}
    BY <1>1, <2>2 DEF NewsWaits
  <2>4. Attempts = {Len(queue)}
    BY <1>1, <2>1, <2>3 DEF Attempts, Connecting
  <2>5. QED
    BY <2>1, <2>4
<1>2. CASE station = "idle" /\ NewsHandled
  <2>1. /\ handler \in Connecting /\ Alive
        /\ DOMAIN queue = {}
    BY <1>2 DEF NewsHandled
  <2>2. Attempts = {0}
    BY <1>2, <2>1 DEF Attempts, Connecting
  <2>3. QED
    BY <2>1, <2>2
<1>3. CASE station = "idle" /\ GivenUp
  <2>1. ~Alive /\ handler = "idle" /\ DOMAIN queue = {}
    BY <1>3 DEF GivenUp
  <2>2. Attempts = {}
    BY <1>3, <2>1 DEF Attempts
  <2>3. QED
    BY <2>1, <2>2
<1>4. CASE station \in {"connecting", "up"}
  <2>1. Alive /\ handler \notin Connecting /\ OnlyAddresses
    BY <1>4 DEF IInv, StationInv, Addressing, Connecting, OnlyAddresses
  <2>2. Attempts = {-1}
    BY <1>4, <2>1 DEF Attempts, Connecting, OnlyAddresses
  <2>3. QED
    BY <2>1, <2>2
<1>5. QED
  BY <1>1, <1>2, <1>3, <1>4 DEF IInv, TypeOK, StationInv

(* The chain of retries neither breaks nor forks, whatever the number of retries. *)
THEOREM OneAttemptAtATime == Spec => []OneAttempt
<1>1. IInv => OneAttempt
  <2> SUFFICES ASSUME IInv, run_app # "start_wifi"
               PROVE  Cardinality(Attempts) = IF Alive THEN 1 ELSE 0
    BY DEF OneAttempt, Alive
  <2>1. CASE Alive
    <3>1. PICK x : Attempts = {x}
      BY <2>1, AttemptsOfStation
    <3>2. QED
      BY <2>1, <3>1, FS_Singleton
  <2>2. CASE ~Alive
    BY <2>2, AttemptsOfStation, FS_EmptySet
  <2>3. QED
    BY <2>1, <2>2
<1>2. QED
  BY <1>1, Invariant, PTL

=============================================================================
