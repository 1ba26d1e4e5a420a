------------------------------- MODULE MCMesh -------------------------------
(***************************************************************************)
(* Directed messages and channel gossip of dv_dual_sf, with the reports    *)
(* that the tools make on each from the log.  A behaviour exercises one of *)
(* the two; the other is at rest.                                          *)
(***************************************************************************)
EXTENDS FlightReport, GossipReport

CONSTANTS a, b, c, d, m1, m2

(* Directed messages.  Four nodes: a reaches d through b or c, and b may   *)
(* also go through c.                                                      *)
MCNodes == {a, b, c, d}
MCMessages == {m1, m2}
MCOrigin == (m1 :> a) @@ (m2 :> c)
MCDest == (m1 :> d) @@ (m2 :> d)
MCRoutes == [n \in MCNodes |-> [dst \in MCNodes |->
  IF n = a THEN <<b, c>> ELSE IF n = b THEN <<d, c>> ELSE IF n = c THEN <<d>> ELSE <<>>]]
Conf(sends, retries, requeues, cut) ==
  [sends |-> sends, retries |-> retries, requeues |-> requeues, events |-> cut]
MCConfigs ==
  {Conf({m1}, 0, 0, 24), Conf({m1}, 1, 0, 17), Conf({m1}, 0, 1, 18), Conf({m1, m2}, 0, 1, 15)}

(* Channel gossip.  Three nodes that all hear each other, or in a line.    *)
Clique == [n \in Stations |-> Stations \ {n}]
Line   == [n \in Stations |-> IF n = 2 THEN {1, 3} ELSE {2}]
(* Beacons of the nodes of B, at the times of T. *)
Beats(B, T) == [t \in 0 .. Horizon |-> IF t \in T THEN B ELSE {}]

(* Node 1 posts one message and beacons twice, and all hear all. *)
Lone ==
  [author |-> (m1 :> 1), posted |-> (m1 :> 0), beats |-> Beats({1}, {0, 2}), reach |-> Clique,
   gateways |-> {}, layer |-> <<0, 0, 0>>, cap |-> 2, quota |-> 9, losses |-> 0]
Both(x, y, t) == [Lone EXCEPT !.author = (m1 :> x) @@ (m2 :> y), !.posted = (m1 :> 0) @@ (m2 :> t)]
Pair     == Both(1, 1, 0)
(* The second message evicts the first. *)
Tight    == [Both(1, 1, 2) EXCEPT !.cap = 1]
Crossing == [Both(1, 3, 0) EXCEPT !.reach = Line, !.beats = Beats({1, 2}, {0, 2}), !.cap = 1]
(* One frame may miss one receiver. *)
Lossy    == [Lone EXCEPT !.losses = 1, !.beats = [Beats({1}, {0, 2}) EXCEPT ![2] = {1, 2}]]
(* The node in the middle is a gateway between two layers. *)
Bridge   == [Lone EXCEPT !.reach = Line, !.gateways = {2}, !.layer = <<0, 0, 1>>,
                         !.beats = Beats({1, 2}, {0, 2})]
OwnPost  == [Bridge EXCEPT !.author = (m1 :> 2), !.beats = Beats({2}, {0, 2})]
Throttle == [Pair EXCEPT !.quota = 1]
MCSettings == {Lone, Pair, Tight, Crossing, Lossy, Bridge, OwnPost, Throttle}

NoFlights ==
  /\ conf = Conf({}, 0, 0, 0)
  /\ now = 0 /\ log = <<>> /\ sent = {} /\ air = {}
  /\ queue = [n \in Nodes |-> <<>>] /\ px = [n \in Nodes |-> None]
  /\ seen = [n \in Nodes |-> [m \in Messages |-> None]] /\ lost = [data |-> 0, ack |-> 0]
NoGossip ==
  /\ setting = Lone /\ clock = Horizon /\ due = {}
  /\ station = [n \in Stations |-> Fresh] /\ journal = <<>> /\ had = <<>>
  /\ astray = [receptions |-> 0, unheard |-> 0, dropped |-> {}]

MeshInit == (Init /\ NoGossip) \/ (GossipInit /\ NoFlights)
MeshNext == (Next /\ UNCHANGED gossipVars) \/ (GossipNext /\ UNCHANGED vars)
MeshSpec == MeshInit /\ [][MeshNext]_<<vars, gossipVars>>
=============================================================================
