---------------------------- MODULE MCSimManager ----------------------------
(* Model values and instances for the runs of SimManager. *)
EXTENDS SimManager, TLC

CONSTANTS s1, s2, s3, c1, c2, absent, unwritten, torn, done

One   == {s1}
Two   == {s1, s2}
Three == {s1, s2, s3}
NoSim == {}

NoClient   == {}
OneClient  == {c1}
TwoClients == {c1, c2}

(* Simulations that run to their end: none is deleted, and no interactive  *)
(* session exports one.                                                    *)
RunsNext ==
  \/ \E s \in Sims : RunNext(s)
  \/ Acquire \/ Restart \/ Quiet
  \/ \E c \in Clients : Subscribe(c) \/ Receive(c) \/ Disconnect(c)

RunsSpec == Init /\ [][RunsNext]_vars /\ Fairness
=============================================================================
