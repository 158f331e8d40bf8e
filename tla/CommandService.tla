--------------------------- MODULE CommandService ---------------------------
(***************************************************************************)
(* What the daemon promises about commands, with neither threads nor locks *)
(* nor the periodic tasks: an accepted command waits behind the ones       *)
(* accepted before it and is handed to the podman engine once.             *)
(***************************************************************************)
EXTENDS Sequences

CONSTANTS
    Command,    \* the commands a client can have accepted
    Effect(_)   \* the engine request a command stands for

VARIABLES
    pending,    \* accepted, not yet handed to the engine
    performed   \* the requests the engine was handed, in order

vars == <<pending, performed>>

Init == pending = <<>> /\ performed = <<>>

Submit(c) ==
    /\ pending' = Append(pending, c)
    /\ UNCHANGED performed

Perform ==
    /\ pending # <<>>
    /\ performed' = Append(performed, Effect(Head(pending)))
    /\ pending' = Tail(pending)

Next == Perform \/ \E c \in Command : Submit(c)

Spec == Init /\ [][Next]_vars

(* A waiting command is not kept waiting for ever.                         *)
LiveSpec == Spec /\ WF_vars(Perform)
=============================================================================
