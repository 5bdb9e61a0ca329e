----------------------------- MODULE EventGroup -----------------------------
(***************************************************************************)
(* A FreeRTOS event group, as mqtt.c and wifi.c use one: every call to     *)
(* xEventGroupWaitBits there passes clear-on-exit = false and              *)
(* wait-for-all = false.                                                   *)
(*                                                                         *)
(* The kernel is not part of this repository.  What the callers rely on is:*)
(*   - a wait whose bits are already set returns at once;                  *)
(*   - xEventGroupSetBits wakes every blocked task it satisfies and hands  *)
(*     it the bits as they were at that moment, so that a bit cleared      *)
(*     before the task runs again is not lost;                             *)
(*   - a wait that times out reads the bits once more when its task gets   *)
(*     to run, which may be later than the tick at which it expired.       *)
(***************************************************************************)
EXTENDS Integers

CONSTANTS
    Tasks,   \* the tasks that wait on the group
    Bits     \* the bits the group is used with

VARIABLES
    events,  \* the bits that are set
    waiter   \* each task's call to xEventGroupWaitBits, if it is in one

groupVars == <<events, waiter>>

Forever == -1    \* portMAX_DELAY

-----------------------------------------------------------------------------
(* The phases of a call. `left` counts the ticks until the call expires and *)
(* `got` is what it is going to return.                                     *)

Waiter == [state : {"running", "blocked", "expired", "woken"},
           mask  : SUBSET Bits,
           left  : Nat \cup {Forever},
           got   : SUBSET Bits]

Running == [state |-> "running", mask |-> {}, left |-> Forever, got |-> {}]

Blocked(mask, ticks) ==
    [state |-> "blocked", mask |-> mask, left |-> ticks, got |-> {}]

Expired == [state |-> "expired", mask |-> {}, left |-> Forever, got |-> {}]

Woken(bits) ==
    [state |-> "woken", mask |-> {}, left |-> Forever, got |-> bits]

GroupType ==
    /\ events \subseteq Bits
    /\ waiter \in [Tasks -> Waiter]

GroupInit ==
    /\ events = {}
    /\ waiter = [t \in Tasks |-> Running]

-----------------------------------------------------------------------------
(* xEventGroupWaitBits(group, mask, false, false, ticks), called by t *)
WaitBits(t, mask, ticks) ==
    /\ waiter[t].state = "running"
    /\ waiter' = [waiter EXCEPT ![t] = IF mask \cap events # {}
                                       THEN Woken(events)
                                       ELSE Blocked(mask, ticks)]
    /\ UNCHANGED events

(* The task runs again after its time ran out, and reads the bits. *)
ReadAfterTimeout(t) ==
    /\ waiter[t].state = "expired"
    /\ waiter' = [waiter EXCEPT ![t] = Woken(events)]
    /\ UNCHANGED events

(* The call returns waiter[t].got to its caller. *)
Return(t) ==
    /\ waiter[t].state = "woken"
    /\ waiter' = [waiter EXCEPT ![t] = Running]
    /\ UNCHANGED events

(* xEventGroupSetBits *)
SetBits(bits) ==
    /\ events' = events \cup bits
    /\ waiter' = [t \in Tasks |->
                    IF /\ waiter[t].state = "blocked"
                       /\ waiter[t].mask \cap (events \cup bits) # {}
                    THEN Woken(events \cup bits)
                    ELSE waiter[t]]

(* xEventGroupClearBits *)
ClearBits(bits) ==
    /\ events' = events \ bits
    /\ UNCHANGED waiter

(* One tick of the kernel: the calls whose last tick this is expire. *)
TickWaiters ==
    /\ waiter' = [t \in Tasks |->
                    CASE waiter[t].left = 1 -> Expired
                      [] waiter[t].left > 1 -> [waiter[t] EXCEPT !.left = @ - 1]
                      [] OTHER -> waiter[t]]
    /\ UNCHANGED events

=============================================================================
