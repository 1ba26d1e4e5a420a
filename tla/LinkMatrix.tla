----------------------------- MODULE LinkMatrix -----------------------------
(***************************************************************************)
(* services/topo_srtm.compute_link_matrix and its two endpoints: which     *)
(* links a scenario gets from the terrain between its nodes.               *)
(*                                                                         *)
(* Places are points of a line.  The propagation model is reduced to a     *)
(* loss of one dB per unit of distance, and the hash-seeded draw of        *)
(* _asym_offsets to a table; both are part of the survey, a record:        *)
(*   names     the nodes' names in the order the request lists them        *)
(*   place     name -> position, or Nowhere                                *)
(*   tiles     the points whose elevation SRTM knows                       *)
(*   draw      <<lower name, higher name>> -> the two draws of the seed    *)
(*   cap, minSnr, asym    max_links_per_node, min_snr_db, asymmetry        *)
(***************************************************************************)
EXTENDS Integers, SequencesExt

CONSTANT Nowhere   \* the position of a node without lat/lon

VARIABLE survey

PowerBudget == 3    \* SNR of a link of length 0, dB

Between(a, b) == Min({a, b}) .. Max({a, b})
Distance(a, b) == Max({a, b}) - Min({a, b})

(* sample_elevation_profile: one sample without data and there is none.    *)
Covered(s, a, b) == Between(a, b) \subseteq s.tiles

(* compute_pair_link: no link between nodes at one place, or without data. *)
HasLink(s, x, y) ==
  /\ s.place[x] # s.place[y]
  /\ Covered(s, s.place[x], s.place[y])
Median(s, x, y) == PowerBudget - Distance(s.place[x], s.place[y])

(* _asym_offsets, for the direction x -> y: the pair has one seed whatever *)
(* the order, and the first draw belongs to the lower name.                *)
Offset(s, x, y, first) ==
  IF ~s.asym THEN 0 ELSE s.draw[<<Min({x, y}), Max({x, y})>>][IF x < y THEN 1 ELSE 2]

(* The records of a pair of positions i < j in the list: one for both      *)
(* directions, or one for each direction that is strong enough.            *)
Places(s) == DOMAIN s.names
Pairs(s) == {p \in Places(s) \X Places(s) : p[1] < p[2]}
Directed(s, i, j, first) ==
  [from |-> s.names[i], to |-> s.names[j], bidir |-> ~s.asym,
   snr |-> Median(s, s.names[i], s.names[j]) + Offset(s, s.names[i], s.names[j], first)]
Both(s, p) ==
  {Directed(s, p[1], p[2], TRUE)} \cup (IF s.asym THEN {Directed(s, p[2], p[1], FALSE)} ELSE {})
Entries(s, p) ==
  IF HasLink(s, s.names[p[1]], s.names[p[2]])
  THEN {e \in Both(s, p) : s.minSnr <= e.snr} ELSE {}
Misses(s) == {p \in Pairs(s) : ~HasLink(s, s.names[p[1]], s.names[p[2]])}

(* Both directions of a pair are admitted together, the best pair first.   *)
Groups(s) == {p \in Pairs(s) : Entries(s, p) # {}}
WeakestOfBoth(s, p) == Min({e.snr : e \in Entries(s, p)})
BestOfEither(s, p) == Max({e.snr : e \in Entries(s, p)})
Ahead(best, p, q) ==
  \/ best[p] > best[q]
  \/ /\ best[p] = best[q]
     /\ (p[1] < q[1] \/ (p[1] = q[1] /\ p[2] < q[2]))
Sorted(best) ==
  [k \in 1 .. Cardinality(DOMAIN best) |->
     CHOOSE p \in DOMAIN best : Cardinality({q \in DOMAIN best : Ahead(best, q, p)}) = k - 1]
SortedPairs(s) == Sorted([p \in Groups(s) |-> BestOfEither(s, p)])

HasRoomAtFirst(s, count, i) == count[i] <= s.cap
HasRoom(s, count, i) == count[i] < s.cap

Admit(s, st, p) ==
  IF HasRoom(s, st.count, p[1]) /\ HasRoom(s, st.count, p[2])
  THEN [count |-> [st.count EXCEPT ![p[1]] = @ + 1, ![p[2]] = @ + 1],
        kept |-> st.kept \cup {p}]
  ELSE st

(* The pass over the sorted pairs: what is kept after the first k of them. *)
KeptPairs(s) ==
  LET sorted == SortedPairs(s)
      after[k \in 0 .. Len(sorted)] ==
        IF k = 0 THEN [count |-> [i \in Places(s) |-> 0], kept |-> {}]
        ELSE Admit(s, after[k - 1], sorted[k])
  IN  after[Len(sorted)].kept

ComputeLinkMatrix(s) ==
  LET links == UNION {Entries(s, p) : p \in KeptPairs(s)}
  IN  [links |-> links, evaluated |-> Cardinality(Pairs(s)), kept |-> Cardinality(links),
       misses |-> Cardinality(Misses(s))]

(* The endpoints: a request with fewer than two nodes is refused; so is a  *)
(* scenario one of whose nodes has no position.  Refining a scenario       *)
(* replaces its links and nothing else.                                    *)
Refused == [links |-> {}, evaluated |-> 0, kept |-> 0, misses |-> 0]
GenerateSrtm(s) == IF Len(s.names) < 2 THEN Refused ELSE ComputeLinkMatrix(s)
RefineWithSrtm(s, scenario) ==
  IF Len(s.names) < 2 \/ \E x \in Range(s.names) : s.place[x] = Nowhere THEN scenario
  ELSE [scenario EXCEPT !.links = ComputeLinkMatrix(s).links]

-----------------------------------------------------------------------------
(* A survey as the endpoints make it: distinct names, numbers for the      *)
(* places of the nodes that have one, two draws for every pair of nodes.   *)
IsSurvey(s) ==
  /\ s = [names |-> s.names, place |-> s.place, tiles |-> s.tiles, draw |-> s.draw,
          cap |-> s.cap, minSnr |-> s.minSnr, asym |-> s.asym]
  /\ s.names \in Seq(Int)
  /\ \A i, j \in DOMAIN s.names : s.names[i] = s.names[j] => i = j
  /\ s.place \in [Range(s.names) -> Int \cup {Nowhere}]
  /\ \A x, y \in Range(s.names) : x < y => s.draw[<<x, y>>] \in Int \X Int
  /\ s.cap \in Nat /\ s.minSnr \in Int /\ s.asym \in BOOLEAN

Located(s) == \A x \in Range(s.names) : s.place[x] # Nowhere
PairOf(s, p) == {s.names[p[1]], s.names[p[2]]}
Touching(pairs, s, x) == {p \in pairs : x \in PairOf(s, p)}

(* No node gets more neighbours than the cap, and a usable pair is left    *)
(* out only because one end has as many neighbours as it may, each heard   *)
(* at least as well, in its better direction, as this pair would be.       *)
CapKeepsTheBest ==
  Located(survey) =>
    LET s    == survey
        kept == KeptPairs(s)
        Best(p) == Max({e.snr : e \in Entries(s, p)})
    IN  /\ \A x \in Range(s.names) : Cardinality(Touching(kept, s, x)) <= s.cap
        /\ \A p \in Groups(s) \ kept :
             \E x \in PairOf(s, p) :
               /\ Cardinality(Touching(kept, s, x)) = s.cap
               /\ \A q \in Touching(kept, s, x) : Best(p) <= Best(q)

(* A direction is listed exactly if its pair was admitted and it is strong *)
(* enough itself; the pair's other direction may be missing.  Every pair   *)
(* is accounted for as missed, too weak, left out or kept.                 *)
LinksAreUsable ==
  Located(survey) =>
    LET s == survey
        r == GenerateSrtm(s)
        Snr(x, y) == Median(s, x, y) + Offset(s, x, y, x < y)
        Weak == {p \in Pairs(s) \ Misses(s) : Entries(s, p) = {}}
    IN  /\ \A e \in r.links : s.minSnr <= e.snr
        /\ s.asym =>
             \A e \in r.links : s.minSnr <= Snr(e.to, e.from) =>
               \E f \in r.links : f.from = e.to /\ f.to = e.from
        /\ Cardinality(KeptPairs(s)) + Cardinality(Groups(s) \ KeptPairs(s))
             + Cardinality(Weak) + r.misses = r.evaluated

(* The links do not depend on the order in which a request lists its       *)
(* nodes, unless two pairs are equally good: then the order decides.       *)
Relisted(s) == {[s EXCEPT !.names = q] : q \in
                  {q \in [Places(s) -> Range(s.names)] : Range(q) = Range(s.names)}}
NoTies(s) ==
  \A p, q \in Groups(s) : p # q =>
    Max({e.snr : e \in Entries(s, p)}) # Max({e.snr : e \in Entries(s, q)})
ListingIsIrrelevant ==
  Located(survey) /\ NoTies(survey) =>
    LET here == GenerateSrtm(survey).links IN
    \A t \in Relisted(survey) :
      LET there == RefineWithSrtm(t, [links |-> {}]).links
      IN  IF survey.asym THEN here = there
          ELSE {<<{e.from, e.to}, e.snr>> : e \in here} = {<<{e.from, e.to}, e.snr>> : e \in there}

(* The matrix a terrain survey is turned into is usable, keeps the best    *)
(* links the cap allows, and does not depend on how the nodes are listed.  *)
MatrixIsSound == LinksAreUsable /\ CapKeepsTheBest /\ ListingIsIrrelevant
=============================================================================
