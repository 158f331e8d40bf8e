------------------------------ MODULE BusyStat ------------------------------
(***************************************************************************)
(* Podman::BusyStat (src/podman/include/podman_busystat.hpp): the mark a   *)
(* container carries from a client's command until a count of cycles runs  *)
(* out.  CREATING and REMOVING are declared by the code and never used.    *)
(***************************************************************************)
EXTENDS Naturals

CONSTANT BUSY_COUNTDOWN_CYCLES

(* The count is a uint8_t.                                                 *)
ASSUME BusyAssumption == BUSY_COUNTDOWN_CYCLES \in 1 .. 255

BusyValue == {"NONE", "STARTING", "STOPPING", "RESTARTING"}
Busy == [value : BusyValue, count : 0 .. BUSY_COUNTDOWN_CYCLES]

NotBusy == [value |-> "NONE", count |-> 0]

(* operator=(Value)                                                        *)
Assign(v) == [value |-> v,
              count |-> IF v = "NONE" THEN 0 ELSE BUSY_COUNTDOWN_CYCLES]

(* cycle(): the five branches come to two.  In the mutant a count of one   *)
(* does not expire.                                                        *)
CycleStuck(b) == IF b.value = "NONE" \/ b.count < 1
                 THEN NotBusy
                 ELSE [b EXCEPT !.count = IF b.count > 1 THEN b.count - 1 ELSE 1]

Cycle(b) == IF b.value = "NONE" \/ b.count <= 1
            THEN NotBusy
            ELSE [b EXCEPT !.count = b.count - 1]
=============================================================================
