------------------------- MODULE MCSessionRegistry -------------------------
(* Model values for the run of SessionRegistry. *)
EXTENDS SessionRegistry, TLC

CONSTANTS s1, c1, c2

OneSession == {s1}
TwoClients == {c1, c2}
=============================================================================
