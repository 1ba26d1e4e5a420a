-------------------------- MODULE MCFirmwareTimers --------------------------
(* Small instances of FirmwareTimers. *)
EXTENDS FirmwareTimers, Integers

(* A clock that drifts: 0 stays 0, 2 and 3 round to 2, 5 to 4. *)
Drifting == [d \in Delays |-> CASE d = 0 -> 0 [] d \in {2, 3} -> 2 [] OTHER -> d - 1]
NotArmed == -1
=============================================================================
