--------------------------- MODULE MCSimulations ---------------------------
(***************************************************************************)
(* Two parts of the simulations API that share nothing but the event loop: *)
(* the manager that runs lus, with crashes of the server, and the caches   *)
(* through which the results are read.  A behaviour exercises one of them; *)
(* the other is at rest.                                                   *)
(***************************************************************************)
EXTENDS MCSimManager, WebCache

CONSTANTS r1, r2, r3

AllStored == {r1, r2, r3}
OneStored == {r1}
Alike     == Permutations({r2, r3})
BothViews == {"index", "breakdown"}
TwoAndOne == [v \in BothViews |-> IF v = "index" THEN 2 ELSE 1]

NoRequests ==
  /\ file = [s \in Stored |-> <<>>] /\ live = {} /\ clock = 0
  /\ cache = [v \in Views |-> <<>>] /\ used = cache /\ browser = NoBody /\ req = Rest

ApiInit == Init /\ (NoRequests \/ CacheInit)

ApiNext ==
  \/ clock = 0 /\ Next /\ UNCHANGED cacheVars
  \/ clock > 0 /\ CacheNext /\ UNCHANGED vars

ApiSpec == ApiInit /\ [][ApiNext]_<<vars, cacheVars>>
=============================================================================
