---------------------------- MODULE StartupProofs ----------------------------
(***************************************************************************)
(* Proofs about Startup, for all answers of the time server, every size of *)
(* a word, and every bound on the clocks and the faults.                   *)
(*                                                                         *)
(* IInv is the inductive invariant.  OrderInv says what has happened where *)
(* run_app is; the other parts follow one quantity each from the step that *)
(* makes it to the message that tells it: the instance, the cause of the   *)
(* reset, the start time, and the bound that the two clocks give it.       *)
(***************************************************************************)
EXTENDS Startup, TLAPS

(* Where run_app is when there is a client, and when the others do what they do *)
OrderInv ==
    /\ client # "NULL" => run_app \in {"first_connect", "app_run", "returned"}
    /\ run_app = "first_connect" => client # "NULL"
    /\ handler # "idle" => client = "connected"
    /\ sync_status = "COMPLETED" => run_app = "poll"
    /\ reader = "late" => run_app \in {"app_run", "returned"}
    /\ run_app # "off" => boots # 0

(* From init_id on the instance is this boot's, in the will and the status too. *)
InstanceInv ==
    /\ Identified \/ run_app \in {"read_epoch", "read_uptime", "store"} =>
          instance_uuid = boots
    /\ client # "NULL" => will \in {boots, NoWill}
    /\ status = IF handler \in {"startup", "announced"} THEN boots ELSE NoInstance

(* The reset information is what libiot_reset_info_init made of this boot's cause. *)
CauseInv ==
    /\ run_app \notin {"off", "reset_info"} => reset_info = generate_reset_info(cause)
    /\ startup # NoStartup =>
          /\ run_app \notin {"off", "reset_info"}
          /\ startup.info = generate_reset_info(cause)

(* The places from which on the start time may be other than 0 *)
Storing == {"store", "start_mqtt", "first_connect", "app_run", "returned"}

(* Until the value is final no word of it is stored, and nobody has read another than *)
(* 0; then each word is stored once.  A reader whose read began with the start time   *)
(* in place has got no other word.                                                    *)
StartTimeInv ==
    /\ run_app \notin {"read_uptime", "store"} =>
          start_epoch_time_ms = InWords(current_ms)
    /\ run_app \notin Storing =>
          /\ start_epoch_time_ms = InWords(0)
          /\ \A w \in Words : read["app"][w] \in {Unread, 0}
    /\ \A w \in Words : start_epoch_time_ms[w] \in {0, InWords(current_ms)[w]}
    /\ \A w \in Words : read["app"][w] \in {Unread, 0, InWords(current_ms)[w]}
    /\ \A w \in Words :
          read["handler"][w] = Unread
          \/ /\ handler \in {"startup", "announced"}
             /\ read["handler"][w] = InWords(current_ms)[w]
    /\ reader = "idle" => read["app"] = NothingRead
    /\ reader = "late" =>
          \A w \in Words : read["app"][w] \in {Unread, InWords(current_ms)[w]}
    /\ startup # NoStartup =>
          handler = "announced" /\ startup.start = InWords(current_ms)

(* The clock is not before 1970 when init_id reads it, and the uptime that is *)
(* subtracted is the same or a later one.                                     *)
ClockInv ==
    /\ sync_status = "COMPLETED" \/ run_app \in {"uuid", "read_epoch"} =>
          uptime + offset >= 0
    /\ run_app = "read_uptime" => current_ms <= uptime + offset
    /\ run_app = "store" \/ Identified =>
          current_ms <= IF offset > 0 THEN offset ELSE 0

IInv ==
    /\ TypeOK
    /\ OrderInv
    /\ InstanceInv
    /\ CauseInv
    /\ StartTimeInv
    /\ ClockInv

-----------------------------------------------------------------------------
(* Numbers *)

(* A value of 64 bits is two words, which together are the value. *)
LEMMA WordsOfValue ==
    ASSUME NEW n \in 0 .. WordSize * WordSize - 1
    PROVE  InWords(n) \in [Words -> Word] /\ Value(InWords(n)) = n
<1> DEFINE low == n % WordSize
           high == n \div WordSize
<1>1. WordSize \in Nat /\ WordSize > 1
  BY StartupAssumption
<1>2. low \in 0 .. WordSize - 1 /\ high \in Nat /\ n = low + high * WordSize
  BY <1>1
<1>3. high < WordSize
  <2> HIDE DEF low, high
  <2>1. SUFFICES ASSUME high >= WordSize PROVE FALSE
    BY <1>1, <1>2
  <2>2. high * WordSize >= WordSize * WordSize
    BY <1>1, <1>2, <2>1
  <2>3. high * WordSize \in Nat /\ WordSize * WordSize \in Nat
    BY <1>1, <1>2
  <2>4. QED
    BY <1>1, <1>2, <2>2, <2>3
<1>4. low \in Word /\ high \in Word
  BY <1>1, <1>2, <1>3 DEF Word
<1>5. InWords(n) = [w \in Words |-> IF w = "low" THEN low ELSE high]
  BY DEF InWords
<1> HIDE DEF low, high
<1>6. InWords(n)["low"] = low /\ InWords(n)["high"] = high
  BY <1>5 DEF Words
<1>7. QED
  BY <1>2, <1>4, <1>5, <1>6 DEF Value

(* The words of 0 *)
LEMMA WordsOfZero ==
    ASSUME NEW w \in Words
    PROVE  InWords(0)[w] = 0
<1>1. 0 % WordSize = 0 /\ 0 \div WordSize = 0
  BY StartupAssumption
<1>2. QED
  BY <1>1 DEF InWords

(* A number that is reduced to 64 bits is one of them, and not more than before. *)
LEMMA UnsignedBounds ==
    ASSUME NEW n \in Int
    PROVE  /\ Unsigned(n) \in 0 .. WordSize * WordSize - 1
           /\ n >= 0 => Unsigned(n) <= n
<1>1. WordSize * WordSize \in Nat \ {0}
  BY StartupAssumption
<1> DEFINE m == WordSize * WordSize
<1> HIDE DEF m
<1>2. m \in Nat \ {0}
  BY <1>1 DEF m
<1>3. n % m \in 0 .. m - 1 /\ (n >= 0 => n % m <= n)
  BY <1>2
<1>4. QED
  BY <1>3 DEF m, Unsigned

(* Zero and a 64-bit number are numbers of 64 bits. *)
LEMMA ZeroFits == 0 \in 0 .. WordSize * WordSize - 1
<1>1. WordSize * WordSize \in Nat \ {0}
  BY StartupAssumption
<1>2. QED
  BY <1>1

-----------------------------------------------------------------------------
(* A boot ends, whatever the reason: what the next one starts from. *)
LEMMA ResetInv ==
    ASSUME IInv, NEW reason \in Causes \cup {"ESP_RST_PANIC"}, Reset(reason),
           UNCHANGED faults \/ Fault
    PROVE  IInv'
<1>1. TypeOK'
  <2>1. faults' \in 0 .. MaxFaults
    BY StartupAssumption DEF Fault, IInv, TypeOK
  <2>2. offset' \in Int
    BY DEF Reset, epoch_ms, IInv, TypeOK
  <2>3. start_epoch_time_ms' \in [Words -> Word] /\ current_ms' = 0
    BY WordsOfValue, ZeroFits DEF Reset
  <2>4. /\ read' \in [{"handler", "app"} -> MaybeRead]
        /\ startup' \in [start : MaybeRead, info : Infos \cup {NotInited}]
    BY DEF Reset, NoStartup, NothingRead, MaybeRead
  <2>5. /\ UNCHANGED <<build, nvs, boots>>
        /\ cause' \in Causes \cup {"ESP_RST_POWERON", "ESP_RST_PANIC"}
        /\ uptime' = 0 /\ run_app' = "off" /\ reset_info' = NotInited
        /\ sync_status' = "off" /\ instance_uuid' = 0 /\ client' = "NULL"
        /\ will' = -1 /\ handler' = "idle" /\ status' = 0 /\ reader' = "idle"
    BY DEF Reset, NoInstance, NoWill
  <2>6. 0 \in 0 .. MaxUptime /\ 0 \in 0 .. MaxFaults + 1 /\ -1 \in -1 .. MaxFaults + 1
    BY StartupAssumption
  <2>7. QED
    BY <2>1, <2>2, <2>3, <2>4, <2>5, <2>6, ZeroFits DEF IInv, TypeOK, Steps
<1>2. OrderInv' /\ InstanceInv' /\ CauseInv' /\ ClockInv'
  BY DEF Reset, OrderInv, InstanceInv, CauseInv, ClockInv, Identified
<1>3. StartTimeInv'
  BY WordsOfZero DEF Reset, StartTimeInv, NothingRead, Words, Storing
<1>4. QED
  BY <1>1, <1>2, <1>3 DEF IInv

(* The node as it is before its first boot *)
LEMMA InitInv == Init => IInv
<1> SUFFICES ASSUME Init PROVE IInv
  OBVIOUS
<1>1. TypeOK
  <2>1. start_epoch_time_ms \in [Words -> Word] /\ current_ms = 0
    BY WordsOfValue, ZeroFits DEF Init
  <2>2. /\ read \in [{"handler", "app"} -> MaybeRead]
        /\ startup \in [start : MaybeRead, info : Infos \cup {NotInited}]
    BY DEF Init, NoStartup, NothingRead, MaybeRead
  <2>3. 0 \in 0 .. MaxUptime /\ 0 \in 0 .. MaxFaults /\ 0 \in 0 .. MaxFaults + 1
        /\ -1 \in -1 .. MaxFaults + 1
    BY StartupAssumption
  <2>4. QED
    BY <2>1, <2>2, <2>3, ZeroFits DEF Init, TypeOK, Steps, NoInstance, NoWill
<1>2. OrderInv /\ InstanceInv /\ CauseInv /\ ClockInv
  BY DEF Init, OrderInv, InstanceInv, CauseInv, ClockInv, Identified
<1>3. StartTimeInv
  BY WordsOfZero DEF Init, StartTimeInv, NothingRead, Words, Storing
<1>4. QED
  BY <1>1, <1>2, <1>3 DEF IInv

-----------------------------------------------------------------------------
(* The steps of run_app, one by one *)
LEMMA RunAppStep ==
    ASSUME IInv, RunApp
    PROVE  IInv'
<1>1. CASE Boot
  <2>1. TypeOK'
    BY <1>1, StartupAssumption DEF Boot, IInv, TypeOK, Steps, deviceVars, idVars,
       mqttVars, readVars
  <2>2. boots' # 0 /\ client = "NULL" /\ handler = "idle" /\ startup = NoStartup
    BY <1>1, StartupAssumption
       DEF Boot, IInv, TypeOK, OrderInv, CauseInv
  <2>3. OrderInv' /\ InstanceInv' /\ CauseInv' /\ StartTimeInv' /\ ClockInv'
    BY <1>1, <2>2
       DEF Boot, IInv, TypeOK, OrderInv, InstanceInv, CauseInv, StartTimeInv, Storing,
           ClockInv, Identified, idVars, mqttVars, readVars
  <2>4. QED
    BY <2>1, <2>2, <2>3 DEF IInv
<1>2. CASE InitResetInfo
  <2>1. TypeOK'
    <3>1. reset_info' \in Infos
      BY <1>2 DEF InitResetInfo, Infos, IInv, TypeOK
    <3>2. QED
      BY <1>2, <3>1 DEF InitResetInfo, Does, After, IInv, TypeOK, Steps,
         deviceVars, idVars, mqttVars, readVars
  <2>2. OrderInv' /\ InstanceInv' /\ CauseInv' /\ StartTimeInv' /\ ClockInv'
    BY <1>2
       DEF InitResetInfo, Does, After, IInv, TypeOK, OrderInv, InstanceInv,
           CauseInv, StartTimeInv, Storing, ClockInv, Identified, deviceVars,
           idVars, mqttVars, readVars
  <2>3. QED
    BY <2>1, <2>2 DEF IInv
<1>3. CASE InitNvs
  <2>1. TypeOK'
    BY <1>3
       DEF InitNvs, Does, After, IInv, TypeOK, Steps, deviceVars, idVars,
           mqttVars, readVars
  <2>2. OrderInv' /\ InstanceInv' /\ CauseInv' /\ StartTimeInv' /\ ClockInv'
    BY <1>3
       DEF InitNvs, Does, After, IInv, TypeOK, OrderInv, InstanceInv, CauseInv,
           StartTimeInv, Storing, ClockInv, Identified, deviceVars, idVars,
           mqttVars, readVars
  <2>3. QED
    BY <2>1, <2>2 DEF IInv
<1>4. CASE InitOta
  <2>1. TypeOK'
    BY <1>4
       DEF InitOta, Does, After, IInv, TypeOK, Steps, deviceVars, idVars,
           mqttVars, readVars
  <2>2. OrderInv' /\ InstanceInv' /\ CauseInv' /\ StartTimeInv' /\ ClockInv'
    BY <1>4
       DEF InitOta, Does, After, IInv, TypeOK, OrderInv, InstanceInv, CauseInv,
           StartTimeInv, Storing, ClockInv, Identified, deviceVars, idVars,
           mqttVars, readVars
  <2>3. QED
    BY <2>1, <2>2 DEF IInv
<1>5. CASE AppInit
  <2>1. TypeOK'
    BY <1>5
       DEF AppInit, Does, After, IInv, TypeOK, Steps, deviceVars, idVars,
           mqttVars, readVars
  <2>2. OrderInv' /\ InstanceInv' /\ CauseInv' /\ StartTimeInv' /\ ClockInv'
    BY <1>5
       DEF AppInit, Does, After, IInv, TypeOK, OrderInv, InstanceInv, CauseInv,
           StartTimeInv, Storing, ClockInv, Identified, deviceVars, idVars,
           mqttVars, readVars
  <2>3. QED
    BY <2>1, <2>2 DEF IInv
<1>6. CASE StartWifi
  <2>1. TypeOK'
    BY <1>6
       DEF StartWifi, Does, After, IInv, TypeOK, Steps, deviceVars, idVars,
           mqttVars, readVars
  <2>2. OrderInv' /\ InstanceInv' /\ CauseInv' /\ StartTimeInv' /\ ClockInv'
    BY <1>6
       DEF StartWifi, Does, After, IInv, TypeOK, OrderInv, InstanceInv,
           CauseInv, StartTimeInv, Storing, ClockInv, Identified, deviceVars,
           idVars, mqttVars, readVars
  <2>3. QED
    BY <2>1, <2>2 DEF IInv
<1>7. CASE InitSntp
  <2>1. TypeOK'
    BY <1>7
       DEF InitSntp, Does, After, IInv, TypeOK, Steps, deviceVars, idVars,
           mqttVars, readVars
  <2>2. OrderInv' /\ InstanceInv' /\ CauseInv' /\ StartTimeInv' /\ ClockInv'
    BY <1>7
       DEF InitSntp, Does, After, IInv, TypeOK, OrderInv, InstanceInv,
           CauseInv, StartTimeInv, Storing, ClockInv, Identified, deviceVars,
           idVars, mqttVars, readVars
  <2>3. QED
    BY <2>1, <2>2 DEF IInv
<1>8. CASE PollSntp
  <2>1. TypeOK'
    BY <1>8
       DEF PollSntp, Does, After, IInv, TypeOK, Steps, deviceVars, idVars,
           mqttVars, readVars
  <2>2. OrderInv' /\ InstanceInv' /\ CauseInv' /\ StartTimeInv' /\ ClockInv'
    BY <1>8
       DEF PollSntp, Does, After, IInv, TypeOK, OrderInv, InstanceInv,
           CauseInv, StartTimeInv, Storing, ClockInv, Identified, deviceVars,
           idVars, mqttVars, readVars
  <2>3. QED
    BY <2>1, <2>2 DEF IInv
<1>9. CASE GenerateUuid
  <2>1. TypeOK'
    BY <1>9
       DEF GenerateUuid, Does, After, IInv, TypeOK, Steps, deviceVars, idVars,
           mqttVars, readVars
  <2>2. OrderInv' /\ InstanceInv' /\ CauseInv' /\ StartTimeInv' /\ ClockInv'
    BY <1>9
       DEF GenerateUuid, Does, After, IInv, TypeOK, OrderInv, InstanceInv,
           CauseInv, StartTimeInv, Storing, ClockInv, Identified, deviceVars,
           idVars, mqttVars, readVars
  <2>3. QED
    BY <2>1, <2>2 DEF IInv
<1>10. CASE ReadEpoch
  <2>1. TypeOK' /\ (epoch_ms >= 0 => current_ms' <= epoch_ms)
    <3>1. epoch_ms \in Int /\ current_ms' = Unsigned(epoch_ms)
      BY <1>10 DEF ReadEpoch, epoch_ms, IInv, TypeOK
    <3>2. /\ current_ms' \in 0 .. WordSize * WordSize - 1
          /\ epoch_ms >= 0 => current_ms' <= epoch_ms
      BY <3>1, UnsignedBounds
    <3>3. QED
      BY <1>10, <3>2 DEF ReadEpoch, Does, After, IInv, TypeOK, Steps, deviceVars,
         mqttVars, readVars
  <2>2. ClockInv'
    BY <1>10, <2>1
       DEF ReadEpoch, Does, After, epoch_ms, IInv, TypeOK, OrderInv, ClockInv,
           Identified, deviceVars, mqttVars
  <2>3. OrderInv' /\ InstanceInv' /\ CauseInv'
    BY <1>10
       DEF ReadEpoch, Does, After, IInv, OrderInv, InstanceInv, CauseInv,
           StartTimeInv, Identified, deviceVars, mqttVars, readVars
  <2>4. StartTimeInv'
    <3>1. /\ run_app = "read_epoch" /\ run_app' = "read_uptime"
          /\ UNCHANGED <<start_epoch_time_ms, handler, startup, read, reader>>
      BY <1>10 DEF ReadEpoch, Does, After, mqttVars, readVars
    <3>2. /\ start_epoch_time_ms = InWords(0)
          /\ \A w \in Words : read["app"][w] \in {Unread, 0}
          /\ handler = "idle"
      BY <3>1 DEF IInv, OrderInv, StartTimeInv, Storing
    <3>3. \A w \in Words : start_epoch_time_ms[w] = 0
      BY <3>2, WordsOfZero
    <3>4. QED
      BY <3>1, <3>2, <3>3 DEF IInv, OrderInv, StartTimeInv, Storing
  <2>5. QED
    BY <2>1, <2>2, <2>3, <2>4 DEF IInv
<1>11. CASE ReadUptime
  <2>1. TypeOK' /\ current_ms' <= IF offset > 0 THEN offset ELSE 0
    <3>1. current_ms \in Nat /\ uptime \in Nat /\ offset \in Int
          /\ current_ms <= uptime + offset
      BY <1>11, ZeroFits DEF ReadUptime, Does, IInv, TypeOK, ClockInv
    <3>2. /\ current_ms' \in 0 .. WordSize * WordSize - 1
          /\ current_ms' <= IF offset > 0 THEN offset ELSE 0
      <4>1. CASE uptime > current_ms
        BY <1>11, <3>1, <4>1, ZeroFits DEF ReadUptime
      <4>2. CASE ~(uptime > current_ms)
        <5>1. current_ms - uptime \in Nat /\ current_ms - uptime <= offset
          BY <3>1, <4>2
        <5>2. current_ms' = Unsigned(current_ms - uptime)
          BY <1>11, <4>2 DEF ReadUptime
        <5>3. /\ Unsigned(current_ms - uptime) \in 0 .. WordSize * WordSize - 1
              /\ Unsigned(current_ms - uptime) <= current_ms - uptime
          BY <5>1, UnsignedBounds
        <5> DEFINE m == WordSize * WordSize - 1
                   u == Unsigned(current_ms - uptime)
        <5> HIDE DEF m, u
        <5>4. u \in 0 .. m /\ u <= current_ms - uptime /\ m \in Int
          BY <5>3, StartupAssumption DEF m, u
        <5>5. u <= offset
          BY <3>1, <5>1, <5>4
        <5>6. QED
          BY <3>1, <5>2, <5>4, <5>5 DEF u, m
      <4>3. QED
        BY <4>1, <4>2
    <3>3. QED
      BY <1>11, <3>2 DEF ReadUptime, Does, After, IInv, TypeOK, Steps, deviceVars,
         mqttVars, readVars
  <2>2. ClockInv'
    BY <1>11, <2>1
       DEF ReadUptime, Does, After, IInv, OrderInv, ClockInv, Identified,
           deviceVars, mqttVars
  <2>3. OrderInv' /\ InstanceInv' /\ CauseInv'
    BY <1>11
       DEF ReadUptime, Does, After, IInv, OrderInv, InstanceInv, CauseInv,
           StartTimeInv, Identified, deviceVars, mqttVars, readVars
  <2>4. StartTimeInv'
    <3>1. /\ run_app = "read_uptime" /\ run_app' = "store"
          /\ UNCHANGED <<start_epoch_time_ms, handler, startup, read, reader>>
      BY <1>11 DEF ReadUptime, Does, After, mqttVars, readVars
    <3>2. /\ start_epoch_time_ms = InWords(0)
          /\ \A w \in Words : read["app"][w] \in {Unread, 0}
          /\ handler = "idle"
      BY <3>1 DEF IInv, OrderInv, StartTimeInv, Storing
    <3>3. \A w \in Words : start_epoch_time_ms[w] = 0
      BY <3>2, WordsOfZero
    <3>4. QED
      BY <3>1, <3>2, <3>3 DEF IInv, OrderInv, StartTimeInv, Storing
  <2>5. QED
    BY <2>1, <2>2, <2>3, <2>4 DEF IInv
<1>12. CASE \E w \in Words : StoreWord(w)
  <2>1. TypeOK'
    <3>1. InWords(current_ms) \in [Words -> Word]
      BY WordsOfValue DEF IInv, TypeOK
    <3>2. start_epoch_time_ms' \in [Words -> Word]
      BY <1>12, <3>1 DEF StoreWord, IInv, TypeOK
    <3>3. QED
      BY <1>12, <3>2 DEF StoreWord, IInv, TypeOK, deviceVars, mqttVars, readVars
  <2>2. OrderInv' /\ InstanceInv' /\ CauseInv' /\ StartTimeInv' /\ ClockInv'
    BY <1>12
       DEF StoreWord, IInv, TypeOK, OrderInv, InstanceInv, CauseInv,
           StartTimeInv, Storing, ClockInv, Identified, deviceVars, idVars,
           mqttVars, readVars
  <2>3. QED
    BY <2>1, <2>2 DEF IInv
<1>13. CASE Stored
  <2>1. TypeOK'
    BY <1>13
       DEF Stored, Does, After, IInv, TypeOK, Steps, deviceVars, idVars,
           mqttVars, readVars
  <2>2. OrderInv' /\ InstanceInv' /\ CauseInv' /\ StartTimeInv' /\ ClockInv'
    BY <1>13
       DEF Stored, Does, After, IInv, TypeOK, OrderInv, InstanceInv, CauseInv,
           StartTimeInv, Storing, ClockInv, Identified, deviceVars, idVars,
           mqttVars, readVars
  <2>3. QED
    BY <2>1, <2>2 DEF IInv
<1>14. CASE StartMqtt
  <2>1. TypeOK'
    <3>1. will' \in -1 .. MaxFaults + 1
      BY <1>14, StartupAssumption DEF StartMqtt, NoWill, IInv, TypeOK
    <3>2. client' \in {"NULL", "started", "connected"} /\ run_app' \in Steps
      BY <1>14 DEF StartMqtt, After, IInv, TypeOK, Steps
    <3>3. QED
      BY <1>14, <3>1, <3>2
         DEF StartMqtt, IInv, TypeOK, deviceVars, idVars, readVars
  <2>2. OrderInv' /\ InstanceInv' /\ CauseInv' /\ StartTimeInv' /\ ClockInv'
    BY <1>14
       DEF StartMqtt, Does, After, IInv, TypeOK, OrderInv, InstanceInv,
           CauseInv, StartTimeInv, Storing, ClockInv, Identified, deviceVars,
           idVars, mqttVars, readVars
  <2>3. QED
    BY <2>1, <2>2 DEF IInv
<1>15. CASE FirstConnect
  <2>1. TypeOK'
    BY <1>15
       DEF FirstConnect, Does, After, IInv, TypeOK, Steps, deviceVars, idVars,
           mqttVars, readVars
  <2>2. OrderInv' /\ InstanceInv' /\ CauseInv' /\ StartTimeInv' /\ ClockInv'
    BY <1>15
       DEF FirstConnect, Does, After, IInv, TypeOK, OrderInv, InstanceInv,
           CauseInv, StartTimeInv, Storing, ClockInv, Identified, deviceVars,
           idVars, mqttVars, readVars
  <2>3. QED
    BY <2>1, <2>2 DEF IInv
<1>16. CASE AppRunReturns
  <2>1. TypeOK'
    BY <1>16
       DEF AppRunReturns, Does, After, IInv, TypeOK, Steps, deviceVars, idVars,
           mqttVars, readVars
  <2>2. OrderInv' /\ InstanceInv' /\ CauseInv' /\ StartTimeInv' /\ ClockInv'
    BY <1>16
       DEF AppRunReturns, Does, After, IInv, TypeOK, OrderInv, InstanceInv,
           CauseInv, StartTimeInv, Storing, ClockInv, Identified, deviceVars,
           idVars, mqttVars, readVars
  <2>3. QED
    BY <2>1, <2>2 DEF IInv
<1>17. CASE EraseNvs
  <2>1. TypeOK'
    BY <1>17
       DEF EraseNvs, Does, After, IInv, TypeOK, Steps, deviceVars, idVars,
           mqttVars, readVars
  <2>2. OrderInv' /\ InstanceInv' /\ CauseInv' /\ StartTimeInv' /\ ClockInv'
    BY <1>17
       DEF EraseNvs, Does, After, IInv, TypeOK, OrderInv, InstanceInv, CauseInv,
           StartTimeInv, Storing, ClockInv, Identified, deviceVars, idVars,
           mqttVars, readVars
  <2>3. QED
    BY <2>1, <2>2 DEF IInv
<1>18. CASE ReopenNvs
  <2>1. TypeOK'
    BY <1>18
       DEF ReopenNvs, Does, After, IInv, TypeOK, Steps, deviceVars, idVars,
           mqttVars, readVars
  <2>2. OrderInv' /\ InstanceInv' /\ CauseInv' /\ StartTimeInv' /\ ClockInv'
    BY <1>18
       DEF ReopenNvs, Does, After, IInv, TypeOK, OrderInv, InstanceInv, CauseInv,
           StartTimeInv, Storing, ClockInv, Identified, deviceVars, idVars,
           mqttVars, readVars
  <2>3. QED
    BY <2>1, <2>2 DEF IInv
<1>19. CASE NvsFails
  BY <1>19, ResetInv DEF NvsFails
<1>20. QED
  BY <1>1, <1>2, <1>3, <1>4, <1>5, <1>6, <1>7, <1>8, <1>9, <1>10, <1>11,
     <1>12, <1>13, <1>14, <1>15, <1>16, <1>17, <1>18, <1>19 DEF RunApp

-----------------------------------------------------------------------------
(* The clock, the broker and the client task *)
LEMMA OutsideStep ==
    ASSUME IInv, TimeArrives \/ Tick \/ BrokerAccepts
    PROVE  IInv'
<1>1. CASE TimeArrives
  <2>1. PICK now \in NetworkTimes : offset' = now - uptime
    BY <1>1 DEF TimeArrives
  <2>2. offset' \in Int /\ uptime \in Int /\ uptime + offset' >= 0
    BY <2>1, StartupAssumption DEF IInv, TypeOK
  <2>3. TypeOK'
    BY <1>1, <2>2 DEF TimeArrives, IInv, TypeOK, idVars, mqttVars, readVars
  <2>4. OrderInv' /\ InstanceInv' /\ CauseInv' /\ StartTimeInv' /\ ClockInv'
    BY <1>1, <2>2
       DEF TimeArrives, IInv, TypeOK, OrderInv, InstanceInv, CauseInv,
           StartTimeInv, Storing, ClockInv, Identified, idVars, mqttVars, readVars
  <2>5. QED
    BY <2>3, <2>4 DEF IInv
<1>2. CASE Tick
  <2>1. TypeOK'
    BY <1>2, StartupAssumption
       DEF Tick, IInv, TypeOK, idVars, mqttVars, readVars
  <2>2. OrderInv' /\ InstanceInv' /\ CauseInv' /\ StartTimeInv' /\ ClockInv'
    BY <1>2
       DEF Tick, IInv, TypeOK, OrderInv, InstanceInv, CauseInv, StartTimeInv, Storing,
           ClockInv, Identified, idVars, mqttVars, readVars
  <2>3. QED
    BY <2>1, <2>2 DEF IInv
<1>3. CASE BrokerAccepts
  <2>1. TypeOK'
    BY <1>3 DEF BrokerAccepts, IInv, TypeOK, deviceVars, idVars, readVars
  <2>2. handler = "idle"
    BY <1>3 DEF BrokerAccepts, IInv, OrderInv
  <2>3. OrderInv' /\ InstanceInv' /\ CauseInv' /\ StartTimeInv' /\ ClockInv'
    BY <1>3, <2>2
       DEF BrokerAccepts, IInv, OrderInv, InstanceInv, CauseInv, StartTimeInv, Storing,
           ClockInv, Identified, deviceVars, idVars, readVars
  <2>4. QED
    BY <2>1, <2>3 DEF IInv
<1>4. QED
  BY <1>1, <1>2, <1>3

(* The messages of the first connection *)
LEMMA HandlerStep ==
    ASSUME IInv, HandlerRuns
    PROVE  IInv'
<1>1. CASE PublishStatus
  <2>1. TypeOK'
    BY <1>1 DEF PublishStatus, IInv, TypeOK, deviceVars, idVars, readVars
  <2>2. instance_uuid = boots
    BY <1>1 DEF PublishStatus, IInv, OrderInv, InstanceInv, Identified
  <2>3. OrderInv' /\ InstanceInv' /\ CauseInv' /\ StartTimeInv' /\ ClockInv'
    BY <1>1, <2>2
       DEF PublishStatus, IInv, OrderInv, InstanceInv, CauseInv, StartTimeInv, Storing,
           ClockInv, Identified, deviceVars, idVars, readVars
  <2>4. QED
    BY <2>1, <2>3 DEF IInv
<1>2. CASE PublishStartup
  <2>1. /\ startup' = [start |-> read["handler"], info |-> reset_info]
        /\ handler = "startup" /\ handler' = "announced"
        /\ UNCHANGED <<deviceVars, run_app, reset_info, sync_status, idVars, client,
                       will, status, readVars>>
    BY <1>2 DEF PublishStartup
  <2>2. TypeOK'
    BY <2>1 DEF IInv, TypeOK, deviceVars, idVars, readVars
  <2>3. read["handler"] = InWords(current_ms)
    <3>1. \A w \in Words : read["handler"][w] = InWords(current_ms)[w]
      BY <1>2 DEF PublishStartup, IInv, StartTimeInv
    <3>2. read["handler"] \in MaybeRead /\ InWords(current_ms) \in [Words -> Word]
      BY WordsOfValue DEF IInv, TypeOK
    <3>3. QED
      BY <3>1, <3>2 DEF MaybeRead
  <2>4. run_app \in {"first_connect", "app_run", "returned"}
    BY <2>1 DEF IInv, OrderInv
  <2>5. OrderInv' /\ InstanceInv' /\ CauseInv' /\ ClockInv'
    BY <2>1, <2>4
       DEF IInv, OrderInv, InstanceInv, CauseInv, ClockInv, Identified,
           deviceVars, idVars, readVars
  <2>6. StartTimeInv'
    BY <2>1, <2>3, <2>4
       DEF IInv, StartTimeInv, deviceVars, idVars, readVars
  <2>7. QED
    BY <2>2, <2>5, <2>6 DEF IInv
<1>3. CASE \E w \in Words : ReadWord("handler", w)
  <2>1. PICK v \in Words :
          /\ handler = "startup"
          /\ read' = [read EXCEPT !["handler"][v] = start_epoch_time_ms[v]]
          /\ UNCHANGED <<deviceVars, run_app, reset_info, sync_status, idVars,
                         mqttVars, reader>>
    BY <1>3 DEF ReadWord
  <2>2. TypeOK'
    BY <2>1 DEF IInv, TypeOK, MaybeRead, deviceVars, idVars, mqttVars
  <2>3. start_epoch_time_ms = InWords(current_ms)
    BY <2>1 DEF IInv, OrderInv, StartTimeInv
  <2>4. /\ read'["app"] = read["app"]
        /\ \A w \in Words : read'["handler"][w] =
              IF w = v THEN InWords(current_ms)[w] ELSE read["handler"][w]
    BY <2>1, <2>3 DEF IInv, TypeOK, MaybeRead
  <2>5. OrderInv' /\ InstanceInv' /\ CauseInv' /\ ClockInv'
    BY <2>1
       DEF IInv, OrderInv, InstanceInv, CauseInv, ClockInv, Identified,
           deviceVars, idVars, mqttVars
  <2>6. StartTimeInv'
    BY <2>1, <2>4 DEF IInv, StartTimeInv, idVars, mqttVars
  <2>7. QED
    BY <2>2, <2>5, <2>6 DEF IInv
<1>4. QED
  BY <1>1, <1>2, <1>3 DEF HandlerRuns

(* A read of the application, which may have begun before there was a start time *)
LEMMA AppStep ==
    ASSUME IInv, AppReads
    PROVE  IInv'
<1>1. CASE AppAsks \/ AppHasRead
  <2>1. UNCHANGED <<deviceVars, run_app, reset_info, sync_status, idVars, mqttVars>>
    BY <1>1 DEF AppAsks, AppHasRead
  <2>2. NothingRead \in MaybeRead
    BY DEF NothingRead, MaybeRead
  <2>3. TypeOK'
    BY <1>1, <2>1, <2>2
       DEF AppAsks, AppHasRead, IInv, TypeOK, deviceVars, idVars, mqttVars
  <2>4. InstanceInv' /\ CauseInv' /\ ClockInv'
    BY <2>1 DEF IInv, InstanceInv, CauseInv, ClockInv, Identified, deviceVars,
                idVars, mqttVars
  <2>5. OrderInv'
    BY <1>1, <2>1 DEF AppAsks, AppHasRead, IInv, OrderInv, deviceVars, mqttVars
  <2>6. StartTimeInv'
    <3>1. read'["handler"] = read["handler"]
      BY <1>1 DEF AppAsks, AppHasRead, IInv, TypeOK
    <3>2. /\ reader' \in {"idle", "late"} => read'["app"] = NothingRead
          /\ read'["app"] \in {read["app"], NothingRead}
      BY <1>1 DEF AppAsks, AppHasRead, IInv, TypeOK, StartTimeInv
    <3>3. \A w \in Words : NothingRead[w] = Unread
      BY DEF NothingRead
    <3>4. QED
      BY <2>1, <3>1, <3>2, <3>3 DEF IInv, StartTimeInv, idVars, mqttVars
  <2>7. QED
    BY <2>3, <2>4, <2>5, <2>6 DEF IInv
<1>2. CASE \E w \in Words : ReadWord("app", w)
  <2>1. PICK v \in Words :
          /\ reader # "idle"
          /\ read' = [read EXCEPT !["app"][v] = start_epoch_time_ms[v]]
          /\ UNCHANGED <<deviceVars, run_app, reset_info, sync_status, idVars,
                         mqttVars, reader>>
    BY <1>2 DEF ReadWord
  <2>2. TypeOK'
    BY <2>1 DEF IInv, TypeOK, MaybeRead, deviceVars, idVars, mqttVars
  <2>3. /\ reader = "late" => start_epoch_time_ms = InWords(current_ms)
        /\ run_app \notin Storing => start_epoch_time_ms[v] = 0
        /\ start_epoch_time_ms[v] \in {0, InWords(current_ms)[v]}
    BY WordsOfZero DEF IInv, OrderInv, StartTimeInv
  <2>4. /\ read'["handler"] = read["handler"]
        /\ \A w \in Words : read'["app"][w] =
              IF w = v THEN start_epoch_time_ms[w] ELSE read["app"][w]
    BY <2>1 DEF IInv, TypeOK, MaybeRead
  <2>5. OrderInv' /\ InstanceInv' /\ CauseInv' /\ ClockInv'
    BY <2>1
       DEF IInv, OrderInv, InstanceInv, CauseInv, ClockInv, Identified,
           deviceVars, idVars, mqttVars
  <2>6. StartTimeInv'
    BY <2>1, <2>3, <2>4 DEF IInv, StartTimeInv, idVars, mqttVars
  <2>7. QED
    BY <2>2, <2>5, <2>6 DEF IInv
<1>3. QED
  BY <1>1, <1>2 DEF AppReads

(* What may go wrong ends the boot or leaves everything but the count alone. *)
LEMMA FaultStep ==
    ASSUME IInv, LogError \/ \E reason \in Causes : Ends(reason)
    PROVE  IInv'
<1>1. CASE \E reason \in Causes \cup {"ESP_RST_PANIC"} : Fault /\ Reset(reason)
  BY <1>1, ResetInv
<1>2. CASE /\ Fault
           /\ UNCHANGED <<build, nvs, cause, uptime, offset, boots, run_app,
                          reset_info, sync_status, idVars, mqttVars, readVars>>
  <2>1. TypeOK'
    BY <1>2, StartupAssumption
       DEF Fault, IInv, TypeOK, idVars, mqttVars, readVars
  <2>2. OrderInv' /\ InstanceInv' /\ CauseInv' /\ StartTimeInv' /\ ClockInv'
    BY <1>2
       DEF IInv, OrderInv, InstanceInv, CauseInv, StartTimeInv, Storing, ClockInv,
           Identified, idVars, mqttVars, readVars
  <2>3. QED
    BY <2>1, <2>2 DEF IInv
<1>3. QED
  BY <1>1, <1>2 DEF LogError, Ends

(* Every step preserves the invariant. *)
LEMMA NextInv == IInv /\ [Next]_vars => IInv'
<1> SUFFICES ASSUME IInv, [Next]_vars PROVE IInv'
  OBVIOUS
<1>1. CASE RunApp
  BY <1>1, RunAppStep
<1>2. CASE TimeArrives \/ Tick \/ BrokerAccepts
  BY <1>2, OutsideStep
<1>3. CASE HandlerRuns \/ AppReads
  BY <1>3, HandlerStep, AppStep
<1>4. CASE LogError \/ \E reason \in Causes : Ends(reason)
  BY <1>4, FaultStep
<1>5. CASE UNCHANGED vars
  BY <1>5
     DEF vars, deviceVars, idVars, mqttVars, readVars, IInv, TypeOK, OrderInv,
         InstanceInv, CauseInv, StartTimeInv, Storing, ClockInv, Identified
<1>6. QED
  BY <1>1, <1>2, <1>3, <1>4, <1>5 DEF Next

-----------------------------------------------------------------------------
(* The inductive invariant holds in every reachable state. *)
THEOREM Invariant == Spec => []IInv
BY InitInv, NextInv, PTL DEF Spec

(* Every variable has its type: the start time always fits 64 bits. *)
THEOREM TypeCorrect == Spec => []TypeOK
<1>1. IInv => TypeOK
  BY DEF IInv
<1>2. QED
  BY <1>1, Invariant, PTL

(* A task may ask for the start time at any moment, between the writes of its words *)
(* too: what it gets is made of 0 and of words of the one value that is ever stored *)
(* in this boot, and from app_run() on, like the startup message, of that value.    *)
THEOREM ReadsOfStartTime == Spec => []StartTimeReads
<1>1. IInv => StartTimeReads
  BY DEF IInv, StartTimeInv, StartTimeReads
<1>2. QED
  BY <1>1, Invariant, PTL

(* Whatever times the server answers, the boot is not after its start time. *)
THEOREM StartTimeBounded == Spec => []StartTimeNotAfterBoot
<1>1. IInv => StartTimeNotAfterBoot
  <2> SUFFICES ASSUME IInv, Identified
               PROVE  Value(start_epoch_time_ms) <= IF offset > 0 THEN offset ELSE 0
    BY DEF StartTimeNotAfterBoot
  <2>1. run_app \notin {"read_uptime", "store"}
    BY DEF IInv, OrderInv, Identified
  <2>2. Value(start_epoch_time_ms) = current_ms
    BY <2>1, WordsOfValue DEF IInv, TypeOK, StartTimeInv
  <2>3. QED
    BY <2>2 DEF IInv, ClockInv
<1>2. QED
  BY <1>1, Invariant, PTL

(* In every boot, however often the node restarts, the will and the status name *)
(* that boot's instance.                                                        *)
THEOREM WillIsThisBoots == Spec => []WillNamesInstance
<1>1. IInv => WillNamesInstance
  BY DEF IInv, TypeOK, OrderInv, InstanceInv, WillNamesInstance, NoInstance, NoWill
<1>2. QED
  BY <1>1, Invariant, PTL

(* Whatever ended the last boot, the startup message tells it. *)
THEOREM CauseIsTold == Spec => []StartupTellsCause
<1>1. ASSUME NEW raw \in Causes \cup {"ESP_RST_POWERON", "ESP_RST_PANIC"}
      PROVE  /\ generate_reset_info(raw).exceptional =
                    (raw \notin {"ESP_RST_POWERON", "ESP_RST_SW"})
             /\ generate_reset_info(raw).reason # "<Unknown>"
  BY StartupAssumption DEF generate_reset_info, ResetInfo, Impossible
<1>2. IInv => StartupTellsCause
  BY <1>1 DEF IInv, TypeOK, CauseInv, StartupTellsCause
<1>3. QED
  BY <1>2, Invariant, PTL

=============================================================================
