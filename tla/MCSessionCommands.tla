------------------------- MODULE MCSessionCommands -------------------------
(* Connections as model values for the runs of SessionCommands. *)
EXTENDS SessionCommands, TLC

CONSTANTS c1, c2

Two == {c1, c2}
=============================================================================
