----------------------------- MODULE OtaService -----------------------------
(***************************************************************************)
(* What the OTA component of a node promises to the sender of commands on  *)
(* the topic "_cmd/ota": a bounded first-come-first-served service.  An     *)
(* accepted command is executed once, after those accepted before it and   *)
(* never while another one is; only an update command installs an image;   *)
(* and nothing but a restart of the device loses an accepted command.      *)
(* A command that is not accepted changes nothing, a stutter here.         *)
(***************************************************************************)
EXTENDS Naturals, Sequences

CONSTANTS
    Commands,     \* what a command may be
    Installing,   \* the commands that may install an image
    Capacity      \* how many commands may wait

VARIABLES
    pending,      \* the accepted commands, the oldest first
    current,      \* <<command>> in execution, or <<>>
    switched      \* the next boot is going to run another image

serviceVars == <<pending, current, switched>>

Init ==
    /\ pending = <<>>
    /\ current = <<>>
    /\ switched = FALSE

Accept(c) ==
    /\ Len(pending) < Capacity
    /\ pending' = Append(pending, c)
    /\ UNCHANGED <<current, switched>>

Take ==
    /\ current = <<>>
    /\ pending # <<>>
    /\ current' = <<Head(pending)>>
    /\ pending' = Tail(pending)
    /\ UNCHANGED switched

Install ==
    /\ \E c \in Installing : current = <<c>>
    /\ switched' = TRUE
    /\ UNCHANGED <<pending, current>>

Finish ==
    /\ current # <<>>
    /\ current' = <<>>
    /\ UNCHANGED <<pending, switched>>

Restart ==
    /\ pending' = <<>>
    /\ current' = <<>>
    /\ switched' = FALSE

Next == (\E c \in Commands : Accept(c)) \/ Take \/ Install \/ Finish \/ Restart

Spec == Init /\ [][Next]_serviceVars

=============================================================================
