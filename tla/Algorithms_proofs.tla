-------------------------- MODULE Algorithms_proofs --------------------------
(***************************************************************************)
(* Proofs about two algorithms that work on data at rest.  For signals of  *)
(* any length, strength and offset, the interval arithmetic of             *)
(* EvaluateCollision decides what a reading of the air tick by tick        *)
(* decides.  For terrain surveys of any number of nodes, the greedy pass   *)
(* of ComputeLinkMatrix keeps the best links the cap allows and does not   *)
(* depend on the order of the request.                                     *)
(***************************************************************************)
EXTENDS MCCollisionModel, LinkMatrix, FiniteSetTheorems, WellFoundedInduction, TLAPS

(* What a signal looks like to the collision test. *)
WellFormed(s) ==
  /\ s.snr \in Int /\ s.start \in Nat /\ s.end \in Nat /\ s.cr \in 5 .. 8
  /\ s.pre \in Nat /\ s.tpre \in Nat /\ s.sym = 1
  /\ s.pre < s.end - s.start

(* The ticks two signals share are an interval, empty when they do not     *)
(* overlap; Cardinality counts them without counting.                      *)
LEMMA HitIsInterval ==
  ASSUME NEW p, NEW i, WellFormed(p), WellFormed(i)
  PROVE  /\ Hit(p, i) = Latest(p.start, i.start) .. Earliest(p.end, i.end) - 1
         /\ Overlaps(p, i) =>
              Cardinality(Hit(p, i)) = Earliest(p.end, i.end) - Latest(p.start, i.start)
         /\ Overlaps(p, i) <=> Hit(p, i) # {}
<1> DEFINE lo == Latest(p.start, i.start)
           hi == Earliest(p.end, i.end)
<1>1. /\ p.start \in Nat /\ p.end \in Nat /\ i.start \in Nat /\ i.end \in Nat
      /\ p.start < p.end /\ i.start < i.end
  BY DEF WellFormed
<1>2. lo \in Int /\ hi \in Int /\ (Overlaps(p, i) <=> lo < hi)
  BY <1>1 DEF Latest, Earliest, Overlaps
<1>3. Hit(p, i) = lo .. hi - 1
  BY <1>1 DEF Hit, Latest, Earliest
<1> HIDE DEF lo, hi
<1>4. lo < hi => Cardinality(lo .. hi - 1) = hi - lo
  <2>1. hi - 1 \in Int
    BY <1>2
  <2>2. Cardinality(lo .. hi - 1) = IF lo > hi - 1 THEN 0 ELSE hi - 1 - lo + 1
    BY <1>2, <2>1, FS_Interval
  <2> QED
    BY <1>2, <2>2
<1>5. lo .. hi - 1 # {} <=> lo < hi
  BY <1>2
<1> QED
  BY <1>2, <1>3, <1>4, <1>5 DEF lo, hi

(* A set of consecutive ticks lies before a limit when its last one does,  *)
(* and after a limit when its first one does.                              *)
LEMMA IntervalBounds ==
  ASSUME NEW lo \in Int, NEW hi \in Int, NEW limit \in Int, lo < hi
  PROVE  /\ lo .. hi - 1 = { t \in lo .. hi - 1 : t < limit } <=> hi <= limit
         /\ lo .. hi - 1 = { t \in lo .. hi - 1 : t >= limit } <=> lo >= limit
<1>1. lo \in lo .. hi - 1 /\ hi - 1 \in lo .. hi - 1
  OBVIOUS
<1>2. (\A t \in lo .. hi - 1 : t < limit) <=> hi <= limit
  BY <1>1
<1>3. (\A t \in lo .. hi - 1 : t >= limit) <=> lo >= limit
  BY <1>1
<1> QED
  BY <1>2, <1>3

(* The three stages of the test, each against its tick-by-tick reading.    *)
LEMMA CaptureAgrees ==
  ASSUME NEW p, NEW i, WellFormed(p), WellFormed(i)
  PROVE  Captures(p, i) <=>
           p.snr - i.snr >= IF i.start < p.start + PreambleLockSymbols * p.sym
                            THEN CaptureUnlockedDb ELSE CaptureLockedDb
<1>1. /\ CaptureLockedDb \in Int /\ CaptureUnlockedDb \in Int
      /\ PreambleLockSymbols * p.sym = PreambleLockSymbols /\ PreambleLockSymbols \in Nat
  BY CollisionAssumption DEF WellFormed
<1> QED
  BY <1>1 DEF Captures, CaptureThreshold, WellFormed

LEMMA GraceAgrees ==
  ASSUME NEW p, NEW i, WellFormed(p), WellFormed(i), Overlaps(p, i)
  PROVE  PreambleGrace(p, i) <=>
           Hit(p, i) = { t \in Hit(p, i) : t < p.start + (p.pre - PreambleLockSymbols) * p.sym }
<1> DEFINE lo == Latest(p.start, i.start)
           hi == Earliest(p.end, i.end)
           grace == (p.pre - PreambleLockSymbols) * p.sym
<1>1. /\ p.start \in Nat /\ p.end \in Nat /\ i.start \in Nat /\ i.end \in Nat
      /\ grace \in Int /\ grace < p.end - p.start
  BY CollisionAssumption DEF WellFormed
<1>2. lo \in Int /\ hi \in Int /\ lo < hi /\ lo >= p.start
  BY <1>1 DEF Overlaps, Latest, Earliest, WellFormed
<1>3. Hit(p, i) = lo .. hi - 1
  BY HitIsInterval
<1>4. hi <= p.start + grace <=> i.end <= p.start + grace
  BY <1>1 DEF Earliest
<1>5. i.end <= p.start + grace => grace > 0
  BY <1>1, <1>2, <1>4
<1> HIDE DEF lo, hi, grace
<1>6. Hit(p, i) = { t \in Hit(p, i) : t < p.start + grace } <=> hi <= p.start + grace
  <2>1. p.start + grace \in Int
    BY <1>1
  <2> QED
    BY <1>2, <1>3, <2>1, IntervalBounds
<1> QED
  BY <1>4, <1>5, <1>6 DEF grace, PreambleGrace

LEMMA FecAgrees ==
  ASSUME NEW p, NEW i, WellFormed(p), WellFormed(i), Overlaps(p, i)
  PROVE  FecTolerates(p, i) <=>
           /\ p.cr >= 7
           /\ Hit(p, i) = { t \in Hit(p, i) : t >= p.start + p.tpre }
           /\ Cardinality(Hit(p, i)) <= p.sym
<1> DEFINE lo == Latest(p.start, i.start)
           hi == Earliest(p.end, i.end)
<1>1. /\ p.start \in Nat /\ p.end \in Nat /\ i.start \in Nat /\ i.end \in Nat
      /\ p.tpre \in Nat /\ p.sym = 1 /\ p.cr \in 5 .. 8
  BY DEF WellFormed
<1>2. lo \in Int /\ hi \in Int /\ lo < hi
  BY <1>1 DEF Overlaps, Latest, Earliest, WellFormed
<1>3. Hit(p, i) = lo .. hi - 1 /\ Cardinality(Hit(p, i)) = hi - lo
  BY HitIsInterval
<1>4. /\ FecSymbolsForCr(p.cr) > 0 <=> p.cr >= 7
      /\ p.cr >= 7 => FecSymbolsForCr(p.cr) * p.sym = p.sym
  BY <1>1 DEF FecSymbolsForCr
<1>5. FecTolerates(p, i) <=> p.cr >= 7 /\ hi - lo <= p.sym /\ lo >= p.start + p.tpre
  BY <1>4 DEF FecTolerates
<1> HIDE DEF lo, hi
<1>6. Hit(p, i) = { t \in Hit(p, i) : t >= p.start + p.tpre } <=> lo >= p.start + p.tpre
  <2>1. p.start + p.tpre \in Int
    BY <1>1
  <2> QED
    BY <1>2, <1>3, <2>1, IntervalBounds
<1> QED
  BY <1>3, <1>5, <1>6

(* EvaluateCollision keeps exactly the receptions that the tick-by-tick    *)
(* reference keeps.                                                        *)
LEMMA SurvivesAsReferred ==
  ASSUME NEW p, NEW i, WellFormed(p), WellFormed(i)
  PROVE  Survives(p, i) <=> ReferenceSurvives(p, i)
<1>1. Survives(p, i) <=> \/ p.sf # i.sf \/ ~Overlaps(p, i)
                         \/ Captures(p, i) \/ PreambleGrace(p, i) \/ FecTolerates(p, i)
  BY DEF Survives, EvaluateCollision, Clean, Captured, Graced, FecSaved, Destroyed
<1>2. CASE ~Overlaps(p, i)
  BY <1>1, <1>2, HitIsInterval DEF ReferenceSurvives
<1>3. CASE Overlaps(p, i)
  BY <1>1, <1>3, HitIsInterval, CaptureAgrees, GraceAgrees, FecAgrees DEF ReferenceSurvives
<1> QED
  BY <1>2, <1>3

-----------------------------------------------------------------------------
SignalsOK == a \in Signals /\ b \in Signals

LEMMA SignalsTyped == SignalSpec => []SignalsOK
<1>1. SignalInit => SignalsOK
  BY DEF SignalInit, SignalsOK
<1>2. SignalsOK /\ [SignalNext]_signalVars => SignalsOK'
  BY DEF SignalsOK, SignalNext, Lengthen, Strengthen, signalVars, Signals
<1> QED
  BY <1>1, <1>2, PTL DEF SignalSpec

LEMMA SignalTypes ==
  ASSUME NEW s \in Signals
  PROVE  /\ s.start \in Nat /\ s.air \in Nat /\ s.snr \in Int /\ s.cr \in 5 .. 8
         /\ s.pre \in Nat /\ s.pre < s.air
<1>1. /\ s.start \in 0 .. MaxStart /\ s.air \in Airtimes /\ s.snr \in Snrs
      /\ s.cr \in Crs /\ s.pre \in Preambles
  BY DEF Signals
<1>2. s.start \in Nat
  <2>1. MaxStart \in Nat
    BY SignalAssumption
  <2> QED
    BY <1>1, <2>1
<1>3. s.air \in Nat /\ s.snr \in Int
  <2>1. Airtimes \subseteq Nat /\ Snrs \subseteq Int
    BY Zenon, SignalAssumption
  <2> QED
    BY <1>1, <2>1
<1>4. s.cr \in 5 .. 8
  <2>1. Crs \subseteq 5 .. 8
    BY Zenon, SignalAssumption
  <2> QED
    BY <1>1, <2>1
<1>5. s.pre \in Nat /\ s.pre < s.air
  BY <1>1, SignalAssumption
<1> QED
  BY <1>2, <1>3, <1>4, <1>5

LEMMA CapturedIsWellFormed ==
  ASSUME NEW s \in Signals
  PROVE  WellFormed(ToCaptured(s))
BY SignalTypes DEF ToCaptured, WellFormed, Symbol

(* The collision test agrees with its tick-by-tick reference whatever the  *)
(* airtimes, strengths, preambles and thresholds.                          *)
THEOREM CollisionTestIsExact == SignalSpec => []AgreesWithReference
<1>1. SignalsOK => AgreesWithReference
  BY CapturedIsWellFormed, SurvivesAsReferred DEF SignalsOK, AgreesWithReference
<1> QED
  BY <1>1, SignalsTyped, PTL

(* Of two overlapping frames at most one captures the receiver: the two    *)
(* calls that registration makes for a pair cannot both excuse it.         *)
THEOREM CaptureIsExclusive == SignalSpec => []AtMostOneCaptures
<1>1. SignalsOK => AtMostOneCaptures
  <2> SUFFICES ASSUME SignalsOK,
                      Captures(ToCaptured(a), ToCaptured(b)),
                      Captures(ToCaptured(b), ToCaptured(a))
               PROVE  FALSE
    BY DEF AtMostOneCaptures, EvaluateCollision, Clean, Captured, Graced, FecSaved, Destroyed
  <2>1. CaptureLockedDb > 0 /\ CaptureLockedDb \in Int /\ CaptureUnlockedDb > 0 /\ CaptureUnlockedDb \in Int
    BY CollisionAssumption
  <2>2. ToCaptured(a).snr \in Int /\ ToCaptured(b).snr \in Int
    BY CapturedIsWellFormed DEF SignalsOK, WellFormed
  <2> QED
    BY <2>1, <2>2 DEF Captures, CaptureThreshold
<1> QED
  BY <1>1, SignalsTyped, PTL

(* Interference only hurts: what the test rejects stays rejected when the  *)
(* other signal lasts longer or arrives stronger.                          *)
THEOREM InterferenceIsMonotone == SignalSpec => InterferenceOnlyHurts
<1> DEFINE Worse(p, i, j) ==
      /\ j.sf = i.sf /\ j.start = i.start /\ j.end >= i.end /\ j.snr >= i.snr
<1>1. ASSUME NEW p, NEW i, NEW j, WellFormed(p), WellFormed(i), WellFormed(j),
             Worse(p, i, j), ~Survives(p, i)
      PROVE  ~Survives(p, j)
  <2>1. /\ p.sf = i.sf /\ Overlaps(p, i)
        /\ ~Captures(p, i) /\ ~PreambleGrace(p, i) /\ ~FecTolerates(p, i)
    BY <1>1 DEF Survives, EvaluateCollision, Clean, Captured, Graced, FecSaved, Destroyed
  <2>2. p.sf = j.sf /\ Overlaps(p, j)
    BY <1>1, <2>1 DEF Overlaps, WellFormed
  <2>3. ~Captures(p, j)
    <3>1. CaptureThreshold(p, i) = CaptureThreshold(p, j) /\ CaptureThreshold(p, i) \in Int
      BY <1>1, CollisionAssumption DEF CaptureThreshold
    <3> QED
      BY <1>1, <2>1, <3>1 DEF Captures, WellFormed
  <2>4. ~PreambleGrace(p, j)
    <3>1. (p.pre - PreambleLockSymbols) * p.sym \in Int
      BY <1>1, CollisionAssumption DEF WellFormed
    <3> QED
      BY <1>1, <2>1, <3>1 DEF PreambleGrace, WellFormed
  <2>5. ~FecTolerates(p, j)
    <3>1. FecSymbolsForCr(p.cr) * p.sym \in Int
      BY <1>1 DEF FecSymbolsForCr, WellFormed
    <3> QED
      BY <1>1, <2>1, <3>1 DEF FecTolerates, Latest, Earliest, WellFormed
  <2> QED
    BY <2>2, <2>3, <2>4, <2>5 DEF Survives, EvaluateCollision, Clean, Captured, Graced, FecSaved, Destroyed
<1>2. SignalsOK /\ SignalsOK' /\ [SignalNext]_signalVars =>
        \/ UNCHANGED signalVars
        \/ a' = a /\ Worse(ToCaptured(a), ToCaptured(b), ToCaptured(b'))
  <2> SUFFICES ASSUME SignalsOK, SignalNext
               PROVE  a' = a /\ Worse(ToCaptured(a), ToCaptured(b), ToCaptured(b'))
    OBVIOUS
  <2>1. b.snr \in Int /\ b.air \in Nat /\ b.start \in Nat
    BY SignalTypes DEF SignalsOK
  <2> QED
    BY <2>1 DEF SignalNext, Lengthen, Strengthen, ToCaptured, SignalsOK, Signals
<1>3. SignalsOK /\ SignalsOK' /\ [SignalNext]_signalVars =>
        [~Survives(ToCaptured(a), ToCaptured(b))
           => ~Survives(ToCaptured(a)', ToCaptured(b)')]_signalVars
  BY <1>1, <1>2, CapturedIsWellFormed DEF SignalsOK
<1> QED
  BY <1>3, SignalsTyped, PTL DEF SignalSpec, InterferenceOnlyHurts

-----------------------------------------------------------------------------
(* The link matrix.                                                        *)

(* Pairs of places with the SNR they are ranked by. *)
Ranking(best) ==
  /\ IsFiniteSet(DOMAIN best) /\ DOMAIN best \subseteq Int \X Int
  /\ \A p \in DOMAIN best : best[p] \in Int

AheadOf(best, p) == {q \in DOMAIN best : Ahead(best, q, p)}

(* The better of two pairs, or the lexicographically first, is ahead.      *)
LEMMA AheadIsOrder ==
  ASSUME NEW best, Ranking(best)
  PROVE  /\ \A p \in DOMAIN best : ~Ahead(best, p, p)
         /\ \A p, q, r \in DOMAIN best :
              Ahead(best, p, q) /\ Ahead(best, q, r) => Ahead(best, p, r)
         /\ \A p, q \in DOMAIN best : p # q => Ahead(best, p, q) \/ Ahead(best, q, p)
<1>1. \A p \in DOMAIN best : /\ best[p] \in Int /\ p[1] \in Int /\ p[2] \in Int
                             /\ p = <<p[1], p[2]>>
  BY DEF Ranking
<1>2. ASSUME NEW p \in DOMAIN best PROVE ~Ahead(best, p, p)
  BY <1>1 DEF Ahead
<1>3. ASSUME NEW p \in DOMAIN best, NEW q \in DOMAIN best, NEW r \in DOMAIN best,
             Ahead(best, p, q), Ahead(best, q, r)
      PROVE  Ahead(best, p, r)
  BY <1>1, <1>3 DEF Ahead
<1>4. ASSUME NEW p \in DOMAIN best, NEW q \in DOMAIN best, p # q
      PROVE  Ahead(best, p, q) \/ Ahead(best, q, p)
  <2>1. p[1] # q[1] \/ p[2] # q[2]
    BY <1>1, <1>4
  <2> QED
    BY <1>1, <2>1 DEF Ahead
<1> QED
  BY <1>2, <1>3, <1>4

(* How many pairs are ahead of a pair places it: no two are placed alike,  *)
(* and every place is taken.                                               *)
LEMMA Ranks ==
  ASSUME NEW best, Ranking(best)
  PROVE  LET n == Cardinality(DOMAIN best) IN
         /\ n \in Nat
         /\ \A p \in DOMAIN best : Cardinality(AheadOf(best, p)) \in 0 .. n - 1
         /\ \A p, q \in DOMAIN best :
              Ahead(best, p, q) <=> Cardinality(AheadOf(best, p)) < Cardinality(AheadOf(best, q))
         /\ \A p, q \in DOMAIN best :
              Cardinality(AheadOf(best, p)) = Cardinality(AheadOf(best, q)) => p = q
         /\ \A i \in 0 .. n - 1 : \E p \in DOMAIN best : Cardinality(AheadOf(best, p)) = i
<1> DEFINE G == DOMAIN best
           n == Cardinality(G)
           rank == [p \in G |-> Cardinality(AheadOf(best, p))]
<1>1. IsFiniteSet(G) /\ n \in Nat
  BY FS_CardinalityType DEF Ranking
<1>2. ASSUME NEW p \in G PROVE rank[p] \in 0 .. n - 1 /\ IsFiniteSet(AheadOf(best, p))
  <2>1. AheadOf(best, p) \subseteq G /\ p \notin AheadOf(best, p)
    BY AheadIsOrder DEF AheadOf
  <2>2. /\ IsFiniteSet(AheadOf(best, p)) /\ Cardinality(AheadOf(best, p)) \in Nat
        /\ Cardinality(AheadOf(best, p)) <= n /\ Cardinality(AheadOf(best, p)) # n
    BY <1>1, <2>1, FS_Subset, FS_CardinalityType
  <2> QED
    BY <1>1, <2>2
<1>3. ASSUME NEW p \in G, NEW q \in G, Ahead(best, p, q) PROVE rank[p] < rank[q]
  <2>1. /\ AheadOf(best, p) \subseteq AheadOf(best, q)
        /\ p \in AheadOf(best, q) /\ p \notin AheadOf(best, p)
    BY <1>3, AheadIsOrder DEF AheadOf
  <2>2. /\ Cardinality(AheadOf(best, p)) <= Cardinality(AheadOf(best, q))
        /\ Cardinality(AheadOf(best, p)) # Cardinality(AheadOf(best, q))
    BY <1>2, <2>1, FS_Subset
  <2> QED
    BY <1>2, <2>2
<1>4. \A p, q \in G : /\ Ahead(best, p, q) <=> rank[p] < rank[q]
                      /\ rank[p] = rank[q] => p = q
  <2> SUFFICES ASSUME NEW p \in G, NEW q \in G
               PROVE  /\ Ahead(best, p, q) <=> rank[p] < rank[q]
                      /\ rank[p] = rank[q] => p = q
    OBVIOUS
  <2>1. p = q \/ Ahead(best, p, q) \/ Ahead(best, q, p)
    BY AheadIsOrder
  <2>2. /\ rank[p] \in Int /\ rank[q] \in Int
        /\ Ahead(best, p, q) => rank[p] < rank[q]
        /\ Ahead(best, q, p) => rank[q] < rank[p]
    BY <1>2, <1>3
  <2> HIDE DEF rank
  <2> QED
    BY <2>1, <2>2
<1>5. ASSUME NEW i \in 0 .. n - 1 PROVE \E p \in G : rank[p] = i
  <2>1. IsFiniteSet(0 .. n - 1) /\ Cardinality(0 .. n - 1) = n
    <3>1. n - 1 \in Int /\ 0 \in Int
      BY <1>1
    <3> QED
      BY <1>1, <3>1, FS_Interval
  <2>2. rank \in Injection(G, 0 .. n - 1)
    <3>1. rank \in [G -> 0 .. n - 1]
      BY <1>2
    <3> HIDE DEF rank, n, G
    <3> QED
      BY <1>4, <3>1 DEF Injection, IsInjective
  <2>3. rank \in Surjection(G, 0 .. n - 1)
    <3> HIDE DEF rank
    <3> QED
      BY <2>1, <2>2, FS_Injection DEF n
  <2> HIDE DEF rank, n
  <2> QED
    BY <1>5, <2>3 DEF Surjection
<1> QED
  BY <1>1, <1>2, <1>4, <1>5

(* Sorted lists every pair once, the better ones first. *)
LEMMA SortedIs ==
  ASSUME NEW best, Ranking(best)
  PROVE  LET n == Cardinality(DOMAIN best) IN
         /\ n \in Nat /\ DOMAIN Sorted(best) = 1 .. n
         /\ \A k \in 1 .. n : Sorted(best)[k] \in DOMAIN best
         /\ \A p \in DOMAIN best : \E k \in 1 .. n : Sorted(best)[k] = p
         /\ \A k, l \in 1 .. n : Ahead(best, Sorted(best)[k], Sorted(best)[l]) <=> k < l
<1> DEFINE n == Cardinality(DOMAIN best)
<1>1. n \in Nat
  BY Ranks
<1>2. Sorted(best) = [k \in 1 .. n |->
                        CHOOSE p \in DOMAIN best : Cardinality(AheadOf(best, p)) = k - 1]
  BY DEF Sorted, AheadOf
<1>3. ASSUME NEW k \in 1 .. n
      PROVE  Sorted(best)[k] \in DOMAIN best /\ Cardinality(AheadOf(best, Sorted(best)[k])) = k - 1
  <2>1. \E p \in DOMAIN best : Cardinality(AheadOf(best, p)) = k - 1
    <3>1. k - 1 \in 0 .. n - 1
      BY <1>1, <1>3
    <3> QED
      BY <3>1, Ranks
  <2> QED
    BY <1>2, <2>1
<1>4. ASSUME NEW p \in DOMAIN best PROVE \E k \in 1 .. n : Sorted(best)[k] = p
  <2> DEFINE k == Cardinality(AheadOf(best, p)) + 1
  <2>1. Cardinality(AheadOf(best, p)) \in 0 .. n - 1
    BY <1>4, Ranks
  <2>2. k \in 1 .. n /\ k - 1 = Cardinality(AheadOf(best, p))
    BY <1>1, <2>1
  <2> HIDE DEF k
  <2>3. Sorted(best)[k] = p
    BY <1>3, <1>4, <2>2, Ranks
  <2> QED
    BY <2>2, <2>3
<1>5. ASSUME NEW k \in 1 .. n, NEW l \in 1 .. n
      PROVE  Ahead(best, Sorted(best)[k], Sorted(best)[l]) <=> k < l
  <2>1. Ahead(best, Sorted(best)[k], Sorted(best)[l]) <=> k - 1 < l - 1
    <3>1. /\ Sorted(best)[k] \in DOMAIN best /\ Cardinality(AheadOf(best, Sorted(best)[k])) = k - 1
          /\ Sorted(best)[l] \in DOMAIN best /\ Cardinality(AheadOf(best, Sorted(best)[l])) = l - 1
      BY <1>3
    <3> QED
      BY <3>1, Ranks
  <2> QED
    BY <1>1, <2>1
<1> HIDE DEF n
<1>6. DOMAIN Sorted(best) = 1 .. n
  BY <1>2
<1> QED
  BY <1>1, <1>3, <1>4, <1>5, <1>6 DEF n

LEMMA MinMaxOfTwo ==
  ASSUME NEW x \in Int, NEW y \in Int
  PROVE  /\ Min({x, y}) = IF x <= y THEN x ELSE y
         /\ Max({x, y}) = IF x >= y THEN x ELSE y
<1>1. ASSUME NEW m \in {x, y} PROVE (\A z \in {x, y} : m <= z) <=> m = IF x <= y THEN x ELSE y
  OBVIOUS
<1>2. ASSUME NEW m \in {x, y} PROVE (\A z \in {x, y} : m >= z) <=> m = IF x >= y THEN x ELSE y
  OBVIOUS
<1>3. Min({x, y}) = IF x <= y THEN x ELSE y
  BY <1>1 DEF Min
<1>4. Max({x, y}) = IF x >= y THEN x ELSE y
  BY <1>2 DEF Max
<1> QED
  BY <1>3, <1>4

(* The greatest of a set of one or two numbers. *)
LEMMA GreatestOfTwo ==
  ASSUME NEW x \in Int, NEW y \in Int, NEW S \in SUBSET {x, y}, S # {}
  PROVE  Max(S) \in S /\ \A z \in S : z <= Max(S)
<1>1. \E m \in S : \A z \in S : m >= z
  <2>1. CASE x \in S /\ y \in S
    BY <2>1
  <2>2. CASE S = {x} \/ S = {y}
    BY <2>2
  <2> QED
    BY <2>1, <2>2
<1>2. Max(S) \in S /\ \A z \in S : Max(S) >= z
  <2> DEFINE m == CHOOSE m \in S : \A z \in S : m >= z
  <2>1. m \in S /\ \A z \in S : m >= z
    BY <1>1
  <2> HIDE DEF m
  <2> QED
    BY <2>1 DEF Max, m
<1>3. \A z \in S : z \in Int
  OBVIOUS
<1> QED
  BY <1>2, <1>3

(* What two nodes with a position are to each other.                       *)
LEMMA BetweenTwo ==
  ASSUME NEW s, IsSurvey(s), Located(s), NEW x \in Range(s.names), NEW y \in Range(s.names)
  PROVE  /\ x \in Int /\ y \in Int /\ s.place[x] \in Int /\ s.place[y] \in Int
         /\ HasLink(s, x, y) <=> HasLink(s, y, x)
         /\ Median(s, x, y) \in Int /\ Median(s, x, y) = Median(s, y, x)
         /\ x # y => \A f \in BOOLEAN : Offset(s, x, y, f) \in Int
<1>1. x \in Int /\ y \in Int
  <2>1. \A i \in DOMAIN s.names : s.names[i] \in Int
    BY DEF IsSurvey
  <2> QED
    BY <2>1 DEF Range
<1>2. s.place[x] \in Int /\ s.place[y] \in Int
  BY DEF IsSurvey, Located
<1>3. HasLink(s, x, y) <=> HasLink(s, y, x)
  <2>1. Between(s.place[x], s.place[y]) = Between(s.place[y], s.place[x])
    <3>1. {s.place[x], s.place[y]} = {s.place[y], s.place[x]}
      OBVIOUS
    <3> QED
      BY <3>1 DEF Between
  <2> QED
    BY <2>1 DEF HasLink, Covered
<1>4. Median(s, x, y) \in Int /\ Median(s, x, y) = Median(s, y, x)
  BY <1>2, MinMaxOfTwo DEF Median, Distance, PowerBudget
<1>5. ASSUME x # y, NEW f \in BOOLEAN PROVE Offset(s, x, y, f) \in Int
  <2>1. /\ x < y => s.draw[<<x, y>>] \in Int \X Int
        /\ y < x => s.draw[<<y, x>>] \in Int \X Int
    BY DEF IsSurvey
  <2>2. CASE x < y
    <3>1. Min({x, y}) = x /\ Max({x, y}) = y
      BY <1>1, <2>2, MinMaxOfTwo
    <3> QED
      BY <2>1, <2>2, <3>1 DEF Offset
  <2>3. CASE y < x
    <3>1. Min({x, y}) = y /\ Max({x, y}) = x
      BY <1>1, <2>3, MinMaxOfTwo
    <3>2. ~(x < y)
      BY <1>1, <2>3
    <3> QED
      BY <2>1, <2>3, <3>1, <3>2 DEF Offset
  <2> QED
    BY <1>1, <1>5, <2>2, <2>3
<1> QED
  BY <1>1, <1>2, <1>3, <1>4, <1>5

LEMMA PlacesAre ==
  ASSUME NEW s, IsSurvey(s)
  PROVE  /\ Len(s.names) \in Nat /\ Places(s) = 1 .. Len(s.names)
         /\ IsFiniteSet(Pairs(s)) /\ Pairs(s) \subseteq Int \X Int
         /\ \A p \in Pairs(s) : /\ p[1] \in Places(s) /\ p[2] \in Places(s) /\ p[1] < p[2]
                                /\ p = <<p[1], p[2]>>
                                /\ s.names[p[1]] \in Range(s.names) /\ s.names[p[2]] \in Range(s.names)
                                /\ s.names[p[1]] # s.names[p[2]]
<1>1. Len(s.names) \in Nat /\ Places(s) = 1 .. Len(s.names)
  BY DEF IsSurvey, Places
<1>2. IsFiniteSet(Places(s))
  <2>1. 1 \in Int /\ Len(s.names) \in Int
    BY <1>1
  <2> QED
    BY <1>1, <2>1, FS_Interval
<1>3. IsFiniteSet(Pairs(s))
  <2>1. IsFiniteSet(Places(s) \X Places(s))
    BY <1>2, FS_Product
  <2> QED
    BY <2>1, FS_Subset DEF Pairs
<1>4. \A p \in Pairs(s) : /\ p[1] \in Places(s) /\ p[2] \in Places(s) /\ p[1] < p[2]
                          /\ p = <<p[1], p[2]>>
  BY DEF Pairs
<1>5. \A p \in Pairs(s) : p[1] # p[2]
  BY <1>1, <1>4
<1> QED
  BY <1>1, <1>3, <1>4, <1>5 DEF IsSurvey, Range, Places

(* The records of a pair, and the best of them.                            *)
LEMMA GroupsAre ==
  ASSUME NEW s, IsSurvey(s), Located(s)
  PROVE  /\ IsFiniteSet(Groups(s)) /\ Groups(s) \subseteq Pairs(s)
         /\ \A p \in Pairs(s) :
              /\ Directed(s, p[1], p[2], TRUE).snr \in Int
              /\ Directed(s, p[2], p[1], FALSE).snr \in Int
              /\ Entries(s, p) \subseteq {Directed(s, p[1], p[2], TRUE), Directed(s, p[2], p[1], FALSE)}
         /\ \A p \in Groups(s) :
              /\ BestOfEither(s, p) \in Int
              /\ BestOfEither(s, p) = Max({e.snr : e \in Entries(s, p)})
<1>1. Groups(s) \subseteq Pairs(s) /\ IsFiniteSet(Groups(s))
  BY PlacesAre, FS_Subset DEF Groups
<1>2. ASSUME NEW p \in Pairs(s)
      PROVE  /\ Directed(s, p[1], p[2], TRUE).snr \in Int
             /\ Directed(s, p[2], p[1], FALSE).snr \in Int
  <2> DEFINE x == s.names[p[1]]
             y == s.names[p[2]]
  <2>1. x \in Range(s.names) /\ y \in Range(s.names) /\ x # y
    BY PlacesAre
  <2>2. /\ Median(s, x, y) \in Int /\ Median(s, y, x) \in Int
        /\ Offset(s, x, y, TRUE) \in Int /\ Offset(s, y, x, FALSE) \in Int
    <3> HIDE DEF x, y
    <3> QED
      BY <2>1, BetweenTwo
  <2> DEFINE m == Median(s, x, y)
             w == Median(s, y, x)
             o == Offset(s, x, y, TRUE)
             q == Offset(s, y, x, FALSE)
             d == Directed(s, p[1], p[2], TRUE).snr
             e == Directed(s, p[2], p[1], FALSE).snr
  <2>3. d = m + o /\ e = w + q
    BY DEF Directed
  <2>4. m \in Int /\ w \in Int /\ o \in Int /\ q \in Int
    BY Zenon, <2>2
  <2>5. d \in Int /\ e \in Int
    <3> HIDE DEF m, w, o, q, d, e
    <3> QED
      BY <2>3, <2>4
  <2> QED
    BY <2>5
<1>3. \A p \in Pairs(s) :
        Entries(s, p) \subseteq {Directed(s, p[1], p[2], TRUE), Directed(s, p[2], p[1], FALSE)}
  BY DEF Entries, Both
<1>4. ASSUME NEW p \in Groups(s) PROVE BestOfEither(s, p) \in Int
  <2> DEFINE u == Directed(s, p[1], p[2], TRUE).snr
             v == Directed(s, p[2], p[1], FALSE).snr
             S == {e.snr : e \in Entries(s, p)}
  <2>1. u \in Int /\ v \in Int
    BY <1>1, <1>2
  <2>2. S \in SUBSET {u, v} /\ S # {}
    <3>1. Entries(s, p) # {}
      BY DEF Groups
    <3> QED
      BY <1>1, <1>3, <3>1
  <2> HIDE DEF u, v, S
  <2>3. Max(S) \in S
    BY <2>1, <2>2, GreatestOfTwo
  <2> QED
    BY <2>1, <2>2, <2>3 DEF S, BestOfEither
<1>5. \A p \in Groups(s) : BestOfEither(s, p) = Max({e.snr : e \in Entries(s, p)})
  BY DEF BestOfEither
<1> QED
  BY <1>1, <1>2, <1>3, <1>4, <1>5
(* The least of a set of numbers.                                          *)
Below == {p \in Nat \X Nat : p[1] < p[2]}

LEMMA LeastNumber ==
  ASSUME NEW S \in SUBSET Nat, S # {}
  PROVE  \E x \in S : \A y \in S : x <= y
<1>1. OpToRel(<, Nat) = Below
  BY DEF OpToRel, Below
<1>2. IsWellFoundedOn(Below, Nat)
  BY <1>1, NatLessThanWellFounded
<1>3. PICK x \in S : \A y \in S : ~(<<y, x>> \in Below)
  BY <1>2, WFMin
<1>4. \A y \in S : ~(y < x)
  BY <1>3 DEF Below
<1> QED
  BY <1>4


LEMMA GreatestNumber ==
  ASSUME NEW S \in SUBSET Nat, S # {}, NEW top \in Nat, \A x \in S : x <= top
  PROVE  \E x \in S : \A y \in S : y <= x
<1> DEFINE T == {top - x : x \in S}
<1>1. T \in SUBSET Nat /\ T # {}
  <2>1. \A x \in S : top - x \in Nat
    OBVIOUS
  <2> QED
    BY <2>1
<1>2. PICK z \in T : \A y \in T : z <= y
  BY <1>1, LeastNumber
<1>3. PICK x \in S : z = top - x
  BY <1>2
<1>4. ASSUME NEW y \in S PROVE y <= x
  <2>1. top - x <= top - y
    BY <1>2, <1>3, <1>4
  <2> QED
    BY <2>1
<1> QED
  BY <1>4

(* The pass over the sorted pairs, as the recursive function of KeptPairs. *)
Ends(p) == {p[1], p[2]}
At(pairs, i) == {q \in pairs : i \in Ends(q)}
Ranked(s) == [p \in Groups(s) |-> BestOfEither(s, p)]
Start(s) == [count |-> [i \in Places(s) |-> 0], kept |-> {}]
Pass(s, sorted, f, n) ==
  f = [k \in 0 .. n |-> IF k = 0 THEN Start(s) ELSE Admit(s, f[k - 1], sorted[k])]

LEMMA PassExists ==
  ASSUME NEW s, NEW sorted, NEW n \in Nat
  PROVE  \E f : Pass(s, sorted, f, n)
<1> DEFINE Bad == {k \in Nat : ~\E f : Pass(s, sorted, f, k)}
<1>1. SUFFICES ASSUME Bad # {} PROVE FALSE
  OBVIOUS
<1>2. PICK k \in Bad : \A j \in Bad : k <= j
  BY <1>1, LeastNumber
<1>3. k # 0
  <2> DEFINE f == [j \in 0 .. 0 |-> Start(s)]
  <2>1. Pass(s, sorted, f, 0)
    BY DEF Pass
  <2> HIDE DEF f
  <2> QED
    BY <1>2, <2>1
<1>4. k \in Nat /\ k - 1 \in Nat /\ k - 1 \notin Bad
  BY <1>2, <1>3
<1>5. PICK f : Pass(s, sorted, f, k - 1)
  BY <1>4
<1> DEFINE g == [j \in 0 .. k |-> IF j = k THEN Admit(s, f[k - 1], sorted[k]) ELSE f[j]]
<1>6. \A j \in 0 .. k : j # k => g[j] = f[j] /\ j \in 0 .. k - 1
  BY <1>4
<1>7. ASSUME NEW j \in 0 .. k
      PROVE  g[j] = IF j = 0 THEN Start(s) ELSE Admit(s, g[j - 1], sorted[j])
  <2>1. CASE j = k
    <3>1. g[k - 1] = f[k - 1] /\ g[k] = Admit(s, f[k - 1], sorted[k])
      BY <1>4
    <3> HIDE DEF g
    <3> QED
      BY <1>3, <2>1, <3>1
  <2>2. CASE j # k /\ j # 0
    <3>1. f[j] = Admit(s, f[j - 1], sorted[j])
      <4>1. j \in 0 .. k - 1
        BY <1>6, <2>2
      <4> QED
        BY <1>5, <2>2, <4>1 DEF Pass
    <3>2. g[j] = f[j] /\ g[j - 1] = f[j - 1]
      <4>1. j - 1 \in 0 .. k /\ j - 1 # k
        BY <1>4, <2>2
      <4> QED
        BY <1>6, <2>2, <4>1
    <3> HIDE DEF g
    <3> QED
      BY <2>2, <3>1, <3>2
  <2>3. CASE j # k /\ j = 0
    <3>1. f[0] = Start(s)
      <4>1. 0 \in 0 .. k - 1
        BY <1>4
      <4> QED
        BY <1>5, <4>1 DEF Pass
    <3>2. g[0] = f[0]
      BY <1>6, <2>3
    <3> HIDE DEF g
    <3> QED
      BY <2>3, <3>1, <3>2
  <2> QED
    BY <2>1, <2>2, <2>3
<1>8. g = [j \in 0 .. k |-> g[j]]
  OBVIOUS
<1> HIDE DEF g
<1>9. [j \in 0 .. k |-> g[j]]
        = [j \in 0 .. k |-> IF j = 0 THEN Start(s) ELSE Admit(s, g[j - 1], sorted[j])]
  BY <1>7
<1>10. Pass(s, sorted, g, k)
  BY <1>8, <1>9 DEF Pass
<1> QED
  BY <1>2, <1>10

LEMMA LenIs ==
  ASSUME NEW q, NEW n \in Nat, DOMAIN q = 1 .. n
  PROVE  Len(q) = n
OBVIOUS

(* What is kept is the end of a pass over the pairs, the best first.       *)
LEMMA KeptIs ==
  ASSUME NEW s, IsSurvey(s), Located(s)
  PROVE  LET n == Cardinality(Groups(s)) IN
         /\ Ranking(Ranked(s)) /\ SortedPairs(s) = Sorted(Ranked(s)) /\ n \in Nat
         /\ \E f : Pass(s, SortedPairs(s), f, n) /\ KeptPairs(s) = f[n].kept
<1> DEFINE n == Cardinality(Groups(s))
           sorted == SortedPairs(s)
<1>1. Ranking(Ranked(s))
  <2>1. DOMAIN Ranked(s) = Groups(s) /\ \A p \in Groups(s) : Ranked(s)[p] = BestOfEither(s, p)
    BY DEF Ranked
  <2>2. Groups(s) \subseteq Int \X Int
    BY GroupsAre, PlacesAre
  <2>3. IsFiniteSet(Groups(s)) /\ \A p \in Groups(s) : BestOfEither(s, p) \in Int
    BY GroupsAre
  <2> HIDE DEF Ranked
  <2> QED
    BY <2>1, <2>2, <2>3 DEF Ranking
<1>2. sorted = Sorted(Ranked(s)) /\ DOMAIN Ranked(s) = Groups(s)
  BY DEF SortedPairs, Ranked
<1>3. n \in Nat /\ DOMAIN sorted = 1 .. n
  BY <1>1, <1>2, SortedIs
<1>4. Len(sorted) = n
  BY <1>3, LenIs
<1> DEFINE f == CHOOSE g : g = [k \in 0 .. Len(sorted) |->
                  IF k = 0 THEN [count |-> [i \in Places(s) |-> 0], kept |-> {}]
                  ELSE Admit(s, g[k - 1], sorted[k])]
<1>5. KeptPairs(s) = f[Len(sorted)].kept
  BY DEF KeptPairs
<1>6. Pass(s, sorted, f, n)
  <2> HIDE DEF sorted
  <2>1. \E g : Pass(s, sorted, g, n)
    BY <1>3, PassExists
  <2> QED
    BY <1>4, <2>1 DEF Pass, Start
<1> HIDE DEF f
<1> QED
  BY <1>1, <1>2, <1>3, <1>4, <1>5, <1>6

(* What a pair kept or left out does to the pass.                          *)
Room(s, pairs, p) == \A i \in Ends(p) : Cardinality(At(pairs, i)) < s.cap

LEMMA AtGrows ==
  ASSUME NEW pairs, IsFiniteSet(pairs), NEW p, p \notin pairs, NEW i
  PROVE  /\ IsFiniteSet(At(pairs, i)) /\ Cardinality(At(pairs, i)) \in Nat
         /\ Cardinality(At(pairs \cup {p}, i))
              = Cardinality(At(pairs, i)) + (IF i \in Ends(p) THEN 1 ELSE 0)
<1>1. IsFiniteSet(At(pairs, i)) /\ Cardinality(At(pairs, i)) \in Nat /\ p \notin At(pairs, i)
  BY FS_Subset, FS_CardinalityType DEF At
<1>2. At(pairs \cup {p}, i) = IF i \in Ends(p) THEN At(pairs, i) \cup {p} ELSE At(pairs, i)
  BY DEF At
<1> DEFINE A == At(pairs, i)
<1>3. CASE i \in Ends(p)
  <2>1. At(pairs \cup {p}, i) = A \cup {p}
    BY <1>2, <1>3
  <2> HIDE DEF A
  <2>2. Cardinality(A \cup {p}) = Cardinality(A) + 1
    BY <1>1, FS_AddElement DEF A
  <2> QED
    BY <1>1, <1>3, <2>1, <2>2 DEF A
<1>4. CASE i \notin Ends(p)
  <2>1. Cardinality(A) + 0 = Cardinality(A)
    BY <1>1
  <2> QED
    BY <1>1, <1>2, <1>4, <2>1
<1> QED
  BY <1>3, <1>4

LEMMA AdmitIs ==
  ASSUME NEW s, NEW st, NEW p, IsSurvey(s), p \in Pairs(s),
         st.count = [i \in Places(s) |-> Cardinality(At(st.kept, i))],
         IsFiniteSet(st.kept), p \notin st.kept
  PROVE  LET next == Admit(s, st, p) IN
         /\ next.kept = IF Room(s, st.kept, p) THEN st.kept \cup {p} ELSE st.kept
         /\ next.count = [i \in Places(s) |-> Cardinality(At(next.kept, i))]
<1> DEFINE next == Admit(s, st, p)
<1>1. p[1] \in Places(s) /\ p[2] \in Places(s) /\ p[1] # p[2]
  BY PlacesAre DEF Ends
<1>2. Room(s, st.kept, p) <=> HasRoom(s, st.count, p[1]) /\ HasRoom(s, st.count, p[2])
  BY <1>1 DEF Room, Ends, HasRoom
<1>3. CASE ~Room(s, st.kept, p)
  <2>1. next = st
    BY <1>2, <1>3 DEF Admit
  <2> HIDE DEF next
  <2> QED
    BY <1>3, <2>1 DEF next
<1>4. CASE Room(s, st.kept, p)
  <2> DEFINE c == [st.count EXCEPT ![p[1]] = @ + 1, ![p[2]] = @ + 1]
  <2>1. next.kept = st.kept \cup {p} /\ next.count = c
    BY <1>2, <1>4 DEF Admit
  <2>2. DOMAIN c = Places(s)
    OBVIOUS
  <2>3. ASSUME NEW i \in Places(s) PROVE c[i] = Cardinality(At(st.kept \cup {p}, i))
    <3>1. c[i] = Cardinality(At(st.kept, i)) + (IF i \in Ends(p) THEN 1 ELSE 0)
      <4>1. st.count[i] = Cardinality(At(st.kept, i)) /\ Cardinality(At(st.kept, i)) \in Nat
        BY AtGrows
      <4>2. c[i] = IF i \in Ends(p) THEN st.count[i] + 1 ELSE st.count[i]
        BY <1>1 DEF Ends
      <4> HIDE DEF c
      <4> QED
        BY <4>1, <4>2
    <3> QED
      BY <3>1, AtGrows
  <2>4. c = [i \in Places(s) |-> c[i]]
    BY <2>2
  <2> HIDE DEF c, next
  <2>5. c = [i \in Places(s) |-> Cardinality(At(next.kept, i))]
    BY <2>1, <2>3, <2>4
  <2> QED
    BY <1>4, <2>1, <2>5 DEF next
<1> QED
  BY <1>3, <1>4

(* A list of pairs of places, none of them twice. *)
ListsPairs(s, sorted, n) ==
  /\ \A k \in 1 .. n : sorted[k] \in Pairs(s)
  /\ \A k, l \in 1 .. n : sorted[k] = sorted[l] => k = l

Taken(s, pairs, p) == IF Room(s, pairs, p) THEN pairs \cup {p} ELSE pairs
FirstOf(sorted, k) == {sorted[j] : j \in 1 .. k}

(* After k pairs, what is kept is among them, and every count is right.    *)
LEMMA PassIs ==
  ASSUME NEW s, IsSurvey(s), NEW sorted, NEW n \in Nat, NEW f, Pass(s, sorted, f, n),
         ListsPairs(s, sorted, n)
  PROVE  \A k \in 0 .. n :
           /\ IsFiniteSet(f[k].kept) /\ f[k].kept \subseteq FirstOf(sorted, k)
           /\ k # 0 => f[k].kept = Taken(s, f[k - 1].kept, sorted[k])
<1> DEFINE Good(k) ==
      /\ IsFiniteSet(f[k].kept) /\ f[k].kept \subseteq FirstOf(sorted, k)
      /\ f[k].count = [i \in Places(s) |-> Cardinality(At(f[k].kept, i))]
<1>1. Good(0)
  <2>1. f[0] = Start(s)
    BY DEF Pass
  <2>2. f[0].kept = {} /\ f[0].count = [i \in Places(s) |-> 0]
    BY <2>1 DEF Start
  <2>3. \A i : Cardinality(At({}, i)) = 0
    BY FS_EmptySet DEF At
  <2> QED
    BY <2>2, <2>3, FS_EmptySet DEF FirstOf
<1>2. ASSUME NEW k \in 1 .. n, Good(k - 1)
      PROVE  /\ Good(k)
             /\ f[k].kept = Taken(s, f[k - 1].kept, sorted[k])
  <2>1. f[k] = Admit(s, f[k - 1], sorted[k])
    <3>1. k \in 0 .. n /\ k # 0
      OBVIOUS
    <3> QED
      BY <3>1 DEF Pass
  <2>2. sorted[k] \notin f[k - 1].kept
    <3>1. \A j \in 1 .. k - 1 : j \in 1 .. n /\ j # k
      OBVIOUS
    <3> QED
      BY <1>2, <3>1 DEF ListsPairs, FirstOf
  <2>3. sorted[k] \in Pairs(s)
    BY DEF ListsPairs
  <2>4. /\ f[k].kept = Taken(s, f[k - 1].kept, sorted[k])
        /\ f[k].count = [i \in Places(s) |-> Cardinality(At(f[k].kept, i))]
    <3> DEFINE st == f[k - 1]
               p == sorted[k]
    <3>1. /\ IsFiniteSet(st.kept) /\ p \notin st.kept /\ p \in Pairs(s)
          /\ st.count = [i \in Places(s) |-> Cardinality(At(st.kept, i))]
      BY <1>2, <2>2, <2>3
    <3> HIDE DEF st, p
    <3>2. /\ Admit(s, st, p).kept = Taken(s, st.kept, p)
          /\ Admit(s, st, p).count = [i \in Places(s) |-> Cardinality(At(Admit(s, st, p).kept, i))]
      BY <3>1, AdmitIs DEF Taken
    <3> USE DEF st, p
    <3>3. f[k] = Admit(s, st, p)
      BY <2>1
    <3> HIDE DEF st, p
    <3> QED
      BY <3>2, <3>3 DEF st, p
  <2>5. IsFiniteSet(f[k].kept)
    BY <1>2, <2>4, FS_AddElement DEF Taken
  <2>6. f[k].kept \subseteq FirstOf(sorted, k)
    <3>1. \A j \in 1 .. k - 1 : j \in 1 .. k
      OBVIOUS
    <3>2. k \in 1 .. k
      OBVIOUS
    <3> QED
      BY <1>2, <2>4, <3>1, <3>2 DEF FirstOf, Taken
  <2> QED
    BY <2>4, <2>5, <2>6
<1>3. \A k \in 0 .. n : Good(k)
  <2> DEFINE Bad == {k \in 0 .. n : ~Good(k)}
  <2> HIDE DEF Good
  <2>1. SUFFICES ASSUME Bad # {} PROVE FALSE
    OBVIOUS
  <2>2. PICK k \in Bad : \A j \in Bad : k <= j
    <3>1. Bad \in SUBSET Nat
      OBVIOUS
    <3> QED
      BY <2>1, <3>1, LeastNumber
  <2>3. k \in 1 .. n /\ k - 1 \in 0 .. n /\ k - 1 \notin Bad
    BY <1>1, <2>2
  <2> QED
    BY <1>2, <2>2, <2>3
<1> QED
  <2>1. ASSUME NEW k \in 0 .. n, k # 0 PROVE k \in 1 .. n /\ k - 1 \in 0 .. n
    BY <2>1
  <2>2. \A k \in 0 .. n :
          k # 0 => f[k].kept = Taken(s, f[k - 1].kept, sorted[k])
    <3> HIDE DEF Good
    <3> QED
      BY <1>2, <1>3, <2>1
  <2> QED
    BY <1>3, <2>2

(* The pairs kept are those with room at both ends when their turn comes:  *)
(* a pair's fate is decided by the kept pairs ahead of it.                 *)
KeptAhead(s, p) == {q \in KeptPairs(s) : Ahead(Ranked(s), q, p)}

LEMMA KeptAreGreedy ==
  ASSUME NEW s, IsSurvey(s), Located(s)
  PROVE  /\ KeptPairs(s) \subseteq Groups(s)
         /\ \A p \in Groups(s) : p \in KeptPairs(s) <=> Room(s, KeptAhead(s, p), p)
<1> DEFINE G == Groups(s)
           n == Cardinality(G)
           sorted == SortedPairs(s)
           best == Ranked(s)
           K == KeptPairs(s)
<1>1. /\ Ranking(best) /\ sorted = Sorted(best) /\ n \in Nat /\ DOMAIN best = G
  BY KeptIs DEF Ranked
<1>2. PICK f : Pass(s, sorted, f, n) /\ K = f[n].kept
  BY KeptIs
<1>3. /\ \A k \in 1 .. n : sorted[k] \in G
      /\ \A p \in G : \E k \in 1 .. n : sorted[k] = p
      /\ \A k, l \in 1 .. n : Ahead(best, sorted[k], sorted[l]) <=> k < l
  <2> HIDE DEF best, sorted
  <2> QED
    BY <1>1, SortedIs
<1> HIDE DEF sorted, best, n, K, G
<1>4. \A k, l \in 1 .. n : sorted[k] = sorted[l] => k = l
  <2>1. ASSUME NEW k \in 1 .. n, NEW l \in 1 .. n, sorted[k] = sorted[l] PROVE k = l
    <3>1. ~(k < l) /\ ~(l < k)
      BY <1>3, <2>1
    <3> QED
      BY <1>1, <3>1
  <2> QED
    BY <2>1
<1>5. G \subseteq Pairs(s)
  BY GroupsAre DEF G
<1>6. \A k \in 0 .. n :
        /\ IsFiniteSet(f[k].kept) /\ f[k].kept \subseteq FirstOf(sorted, k)
        /\ k # 0 => f[k].kept = Taken(s, f[k - 1].kept, sorted[k])
  <2>1. ListsPairs(s, sorted, n)
    BY <1>3, <1>4, <1>5 DEF ListsPairs
  <2> QED
    BY <1>1, <1>2, <2>1, PassIs
<1> DEFINE First(j) == FirstOf(sorted, j)
           Same(j, k) == f[k].kept \cap First(j) = f[j].kept
<1>7. ASSUME NEW j \in 0 .. n PROVE \A k \in j .. n : Same(j, k)
  <2> DEFINE Bad == {k \in j .. n : ~Same(j, k)}
  <2>1. Same(j, j)
    BY <1>6
  <2>2. ASSUME NEW k \in j .. n, k # j, Same(j, k - 1) PROVE Same(j, k)
    <3>1. k \in 1 .. n /\ k \in 0 .. n /\ k # 0
      BY <1>1, <2>2
    <3>2. sorted[k] \notin First(j)
      <4>1. \A i \in 1 .. j : i \in 1 .. n /\ i # k
        BY <1>1, <2>2
      <4> QED
        BY <1>4, <3>1, <4>1 DEF FirstOf
    <3> HIDE DEF First
    <3> QED
      BY <1>6, <2>2, <3>1, <3>2 DEF Taken
  <2>3. SUFFICES ASSUME Bad # {} PROVE FALSE
    OBVIOUS
  <2> HIDE DEF Same
  <2>4. PICK k \in Bad : \A i \in Bad : k <= i
    <3>1. Bad \in SUBSET Nat
      BY <1>1
    <3> QED
      BY <2>3, <3>1, LeastNumber
  <2>5. k \in j .. n /\ k # j /\ k - 1 \in j .. n /\ k - 1 \notin Bad
    BY <1>1, <2>1, <2>4
  <2> QED
    BY <2>2, <2>4, <2>5
<1>8. ASSUME NEW m \in 1 .. n
      PROVE  sorted[m] \in K <=> Room(s, KeptAhead(s, sorted[m]), sorted[m])
  <2>1. /\ m \in 0 .. n /\ m - 1 \in 0 .. n /\ m # 0 /\ n \in m .. n /\ n \in m - 1 .. n
    BY <1>1
  <2>2. K \cap First(m) = f[m].kept /\ K \cap First(m - 1) = f[m - 1].kept
    BY <1>2, <1>7, <2>1
  <2>3. sorted[m] \in First(m) /\ sorted[m] \notin First(m - 1)
    <3>1. \A i \in 1 .. m - 1 : i \in 1 .. n /\ i # m
      BY <1>1
    <3>2. m \in 1 .. m
      BY <1>1
    <3> QED
      BY <1>4, <3>1, <3>2 DEF FirstOf
  <2>4. KeptAhead(s, sorted[m]) = f[m - 1].kept
    <3>1. K \subseteq First(n)
      <4>1. n \in 0 .. n
        BY <1>1
      <4> QED
        BY <1>2, <1>6, <4>1
    <3>2. ASSUME NEW i \in 1 .. n PROVE Ahead(best, sorted[i], sorted[m]) <=> sorted[i] \in First(m - 1)
      <4>1. Ahead(best, sorted[i], sorted[m]) <=> i < m
        BY <1>3
      <4>2. sorted[i] \in First(m - 1) <=> i \in 1 .. m - 1
        <5>1. \A l \in 1 .. m - 1 : l \in 1 .. n
          BY <1>1
        <5> QED
          BY <1>4, <5>1 DEF FirstOf
      <4>3. i < m <=> i \in 1 .. m - 1
        BY <1>1
      <4> HIDE DEF First
      <4> QED
        BY <4>1, <4>2, <4>3
    <3>3. \A q \in K : Ahead(best, q, sorted[m]) <=> q \in First(m - 1)
      <4>1. \A q \in K : \E i \in 1 .. n : q = sorted[i]
        BY <3>1 DEF FirstOf
      <4> HIDE DEF First
      <4> QED
        BY <3>2, <4>1
    <3> HIDE DEF First
    <3>4. {q \in K : Ahead(best, q, sorted[m])} = K \cap First(m - 1)
      BY <3>3
    <3> QED
      BY <2>2, <3>4 DEF KeptAhead, K, best
  <2>5. f[m].kept = Taken(s, f[m - 1].kept, sorted[m])
    BY <1>6, <2>1
  <2>6. sorted[m] \notin f[m - 1].kept
    <3> HIDE DEF First
    <3> QED
      BY <2>2, <2>3
  <2>7. sorted[m] \in K <=> sorted[m] \in f[m].kept
    <3> HIDE DEF First
    <3> QED
      BY <2>2, <2>3
  <2> HIDE DEF First, Same
  <2> QED
    BY <2>4, <2>5, <2>6, <2>7 DEF Taken
<1>9. K \subseteq G
  <2>1. n \in 0 .. n
    BY <1>1
  <2>2. K \subseteq FirstOf(sorted, n)
    BY <1>2, <1>6, <2>1
  <2> QED
    BY <1>3, <2>2 DEF FirstOf
<1> QED
  <2>1. \A p \in G : p \in K <=> Room(s, KeptAhead(s, p), p)
    BY <1>3, <1>8
  <2> QED
    BY <1>9, <2>1 DEF G, K

(* Among finitely many ranked pairs there is a last one. *)
LEMMA LastOf ==
  ASSUME NEW best, Ranking(best), NEW S \in SUBSET DOMAIN best, S # {}
  PROVE  \E p \in S : \A q \in S : q # p => Ahead(best, q, p)
<1> DEFINE rank(p) == Cardinality(AheadOf(best, p))
           R == {rank(p) : p \in S}
           n == Cardinality(DOMAIN best)
<1>1. n \in Nat /\ \A p \in DOMAIN best : rank(p) \in 0 .. n - 1
  BY Ranks
<1>2. R \in SUBSET Nat /\ R # {} /\ \A r \in R : r <= n
  <2> HIDE DEF rank, n
  <2> QED
    BY <1>1
<1>3. PICK r \in R : \A t \in R : t <= r
  BY <1>1, <1>2, GreatestNumber
<1>4. PICK p \in S : r = rank(p)
  OBVIOUS
<1>5. ASSUME NEW q \in S, q # p PROVE Ahead(best, q, p)
  <2>1. rank(q) <= rank(p) /\ rank(q) # rank(p)
    BY <1>3, <1>4, <1>5, Ranks
  <2>2. rank(q) < rank(p)
    <3>1. rank(q) \in Int /\ rank(p) \in Int
      BY <1>1
    <3> HIDE DEF rank
    <3> QED
      BY <2>1, <3>1
  <2> QED
    BY <2>2, Ranks
<1> QED
  BY <1>5

(* Nobody has more neighbours than the cap, and a pair left out has an end *)
(* full of pairs that were ahead of it.                                    *)
LEMMA CapHolds ==
  ASSUME NEW s, IsSurvey(s), Located(s)
  PROVE  LET K == KeptPairs(s) IN
         /\ IsFiniteSet(K)
         /\ \A i : IsFiniteSet(At(K, i)) /\ Cardinality(At(K, i)) \in Nat /\ Cardinality(At(K, i)) <= s.cap
         /\ \A p \in Groups(s) \ K : \E i \in Ends(p) :
              Cardinality(At(K, i)) = s.cap /\ \A q \in At(K, i) : Ahead(Ranked(s), q, p)
<1> DEFINE K == KeptPairs(s)
           best == Ranked(s)
<1>1. /\ K \subseteq Groups(s) /\ Ranking(best) /\ DOMAIN best = Groups(s) /\ s.cap \in Nat
      /\ \A p \in Groups(s) : p \in K <=> Room(s, KeptAhead(s, p), p)
  BY KeptAreGreedy, KeptIs DEF Ranked, IsSurvey
<1>2. IsFiniteSet(K)
  BY <1>1, FS_Subset, GroupsAre
<1>3. \A i : IsFiniteSet(At(K, i)) /\ Cardinality(At(K, i)) \in Nat
  BY <1>2, FS_Subset, FS_CardinalityType DEF At
<1>4. ASSUME NEW i PROVE Cardinality(At(K, i)) <= s.cap
  <2>1. SUFFICES ASSUME At(K, i) # {} PROVE Cardinality(At(K, i)) <= s.cap
    BY <1>1, FS_EmptySet
  <2>2. PICK p \in At(K, i) : \A q \in At(K, i) : q # p => Ahead(best, q, p)
    <3>1. At(K, i) \in SUBSET DOMAIN best
      BY <1>1 DEF At
    <3> HIDE DEF best, K
    <3> QED
      BY <1>1, <2>1, <3>1, LastOf
  <2>3. p \in K /\ i \in Ends(p)
    BY DEF At
  <2>4. Cardinality(At(KeptAhead(s, p), i)) < s.cap
    BY <1>1, <2>3 DEF Room
  <2>5. ~Ahead(best, p, p)
    BY <1>1, <2>3, AheadIsOrder
  <2>6. At(KeptAhead(s, p), i) = At(K, i) \ {p}
    BY <2>2, <2>5 DEF At, KeptAhead
  <2>7. Cardinality(At(K, i) \ {p}) = Cardinality(At(K, i)) - 1
    BY <1>3, FS_RemoveElement
  <2> HIDE DEF K
  <2> QED
    BY <1>1, <1>3, <2>4, <2>6, <2>7
<1>5. ASSUME NEW p \in Groups(s) \ K
      PROVE  \E i \in Ends(p) :
               Cardinality(At(K, i)) = s.cap /\ \A q \in At(K, i) : Ahead(best, q, p)
  <2>1. PICK i \in Ends(p) : ~(Cardinality(At(KeptAhead(s, p), i)) < s.cap)
    BY <1>1 DEF Room
  <2>2. At(KeptAhead(s, p), i) \subseteq At(K, i)
    BY DEF At, KeptAhead
  <2>3. /\ Cardinality(At(KeptAhead(s, p), i)) \in Nat
        /\ Cardinality(At(KeptAhead(s, p), i)) <= Cardinality(At(K, i))
        /\ Cardinality(At(KeptAhead(s, p), i)) = Cardinality(At(K, i)) =>
             At(KeptAhead(s, p), i) = At(K, i)
    BY <1>3, <2>2, FS_Subset, FS_CardinalityType
  <2>4. Cardinality(At(K, i)) \in Nat /\ Cardinality(At(K, i)) <= s.cap
    BY <1>3, <1>4
  <2> HIDE DEF K
  <2>5. Cardinality(At(K, i)) = s.cap /\ At(KeptAhead(s, p), i) = At(K, i)
    BY <1>1, <2>1, <2>3, <2>4
  <2>6. \A q \in At(KeptAhead(s, p), i) : Ahead(best, q, p)
    BY DEF At, KeptAhead
  <2> QED
    BY <2>5, <2>6
<1> QED
  BY <1>2, <1>3, <1>4, <1>5

(* A node's name stands for its place in the list.                         *)
LEMMA TouchingIsAt ==
  ASSUME NEW s, IsSurvey(s), NEW pairs \in SUBSET Pairs(s), NEW i \in Places(s)
  PROVE  Touching(pairs, s, s.names[i]) = At(pairs, i)
<1>1. ASSUME NEW p \in pairs PROVE s.names[i] \in PairOf(s, p) <=> i \in Ends(p)
  <2>1. p[1] \in Places(s) /\ p[2] \in Places(s)
    BY PlacesAre
  <2>2. \A j \in Places(s) : s.names[i] = s.names[j] => i = j
    BY DEF IsSurvey, Places
  <2> QED
    BY <2>1, <2>2 DEF PairOf, Ends
<1> QED
  BY <1>1 DEF Touching, At

LEMMA AheadIsBetter ==
  ASSUME NEW s, IsSurvey(s), Located(s), NEW p \in Groups(s), NEW q \in Groups(s),
         Ahead(Ranked(s), q, p)
  PROVE  Max({e.snr : e \in Entries(s, p)}) <= Max({e.snr : e \in Entries(s, q)})
<1>1. Ranked(s)[p] = BestOfEither(s, p) /\ Ranked(s)[q] = BestOfEither(s, q)
  BY DEF Ranked
<1>2. BestOfEither(s, p) \in Int /\ BestOfEither(s, q) \in Int
  BY GroupsAre
<1>3. BestOfEither(s, p) <= BestOfEither(s, q)
  BY <1>1, <1>2 DEF Ahead
<1> QED
  BY <1>3, GroupsAre

LEMMA CapIsKept ==
  ASSUME IsSurvey(survey)
  PROVE  CapKeepsTheBest
<1> DEFINE s == survey
           K == KeptPairs(s)
           Best(p) == Max({e.snr : e \in Entries(s, p)})
<1> SUFFICES ASSUME Located(s)
             PROVE  /\ \A x \in Range(s.names) : Cardinality(Touching(K, s, x)) <= s.cap
                    /\ \A p \in Groups(s) \ K :
                         \E x \in PairOf(s, p) :
                           /\ Cardinality(Touching(K, s, x)) = s.cap
                           /\ \A q \in Touching(K, s, x) : Best(p) <= Best(q)
  BY DEF CapKeepsTheBest
<1>1. K \subseteq Groups(s) /\ K \subseteq Pairs(s)
  BY KeptAreGreedy, GroupsAre
<1>2. ASSUME NEW x \in Range(s.names) PROVE Cardinality(Touching(K, s, x)) <= s.cap
  <2>1. PICK i \in Places(s) : x = s.names[i]
    BY DEF Range, Places
  <2>2. Touching(K, s, x) = At(K, i)
    BY <1>1, <2>1, TouchingIsAt
  <2> QED
    BY <2>2, CapHolds
<1>3. ASSUME NEW p \in Groups(s) \ K
      PROVE  \E x \in PairOf(s, p) :
               /\ Cardinality(Touching(K, s, x)) = s.cap
               /\ \A q \in Touching(K, s, x) : Best(p) <= Best(q)
  <2>1. PICK i \in Ends(p) : Cardinality(At(K, i)) = s.cap /\ \A q \in At(K, i) : Ahead(Ranked(s), q, p)
    BY CapHolds
  <2>2. i \in Places(s) /\ s.names[i] \in PairOf(s, p)
    <3>1. p \in Pairs(s)
      BY GroupsAre
    <3>2. p[1] \in Places(s) /\ p[2] \in Places(s)
      BY <3>1, PlacesAre
    <3> QED
      BY <2>1, <3>2 DEF Ends, PairOf
  <2>3. Touching(K, s, s.names[i]) = At(K, i)
    BY <1>1, <2>2, TouchingIsAt
  <2>4. \A q \in At(K, i) : Best(p) <= Best(q)
    <3>1. \A q \in At(K, i) : q \in Groups(s)
      BY <1>1 DEF At
    <3> QED
      BY <2>1, <3>1, AheadIsBetter
  <2> HIDE DEF Best, K
  <2> QED
    BY <2>1, <2>2, <2>3, <2>4
<1> QED
  BY <1>2, <1>3

(* The draw of a direction is the same whichever end is listed first.      *)
LEMMA OffsetIgnoresOrder ==
  ASSUME NEW s, NEW x, NEW y, NEW f, NEW g
  PROVE  Offset(s, x, y, f) = Offset(s, x, y, g)
BY DEF Offset

LEMMA DisjointSizes ==
  ASSUME NEW S, NEW T, IsFiniteSet(S), IsFiniteSet(T), S \cap T = {}
  PROVE  /\ IsFiniteSet(S \cup T) /\ Cardinality(S) \in Nat /\ Cardinality(T) \in Nat
         /\ Cardinality(S \cup T) = Cardinality(S) + Cardinality(T)
<1>1. Cardinality(S) \in Nat /\ Cardinality(T) \in Nat
  BY FS_CardinalityType
<1>2. /\ IsFiniteSet(S \cup T)
      /\ Cardinality(S \cup T) = Cardinality(S) + Cardinality(T) - Cardinality(S \cap T)
  BY FS_Union
<1>3. Cardinality(S \cap T) = 0
  BY FS_EmptySet
<1> QED
  BY <1>1, <1>2, <1>3

(* Every pair of nodes is missed, too weak, left out or kept.              *)
LEMMA PairsAreCounted ==
  ASSUME NEW s, IsSurvey(s), Located(s)
  PROVE  LET Weak == {p \in Pairs(s) \ Misses(s) : Entries(s, p) = {}} IN
         Cardinality(KeptPairs(s)) + Cardinality(Groups(s) \ KeptPairs(s))
             + Cardinality(Weak) + Cardinality(Misses(s)) = Cardinality(Pairs(s))
<1> DEFINE K == KeptPairs(s)
           G == Groups(s)
           M == Misses(s)
           P == Pairs(s)
           W == {p \in P \ M : Entries(s, p) = {}}
<1>1. K \subseteq G /\ G \subseteq P /\ M \subseteq P /\ W \subseteq P
  BY KeptAreGreedy, GroupsAre DEF Misses
<1>2. G \cap M = {} /\ G \cap W = {} /\ W \cap M = {} /\ G \cup W \cup M = P
  BY DEF Groups, Misses, Entries
<1>3. IsFiniteSet(P)
  BY PlacesAre
<1> HIDE DEF K, G, M, P, W
<1>4. IsFiniteSet(K) /\ IsFiniteSet(G) /\ IsFiniteSet(M) /\ IsFiniteSet(W) /\ IsFiniteSet(G \ K)
  <2>1. G \ K \subseteq P
    BY <1>1
  <2> QED
    BY <1>1, <1>3, <2>1, FS_Subset
<1>5. Cardinality(G) = Cardinality(K) + Cardinality(G \ K) /\ Cardinality(K) \in Nat /\ Cardinality(G \ K) \in Nat
  <2>1. G = K \cup (G \ K) /\ K \cap (G \ K) = {}
    BY <1>1
  <2> QED
    BY <1>4, <2>1, DisjointSizes
<1>6. /\ Cardinality(G \cup W) = Cardinality(G) + Cardinality(W) /\ IsFiniteSet(G \cup W)
      /\ Cardinality(G) \in Nat /\ Cardinality(W) \in Nat
  BY <1>2, <1>4, DisjointSizes
<1>7. Cardinality(P) = Cardinality(G \cup W) + Cardinality(M) /\ Cardinality(M) \in Nat
  <2>1. (G \cup W) \cap M = {}
    BY <1>2
  <2> QED
    BY <1>2, <1>4, <1>6, <2>1, DisjointSizes
<1>8. Cardinality(K) + Cardinality(G \ K) + Cardinality(W) + Cardinality(M) = Cardinality(P)
  BY <1>5, <1>6, <1>7
<1> QED
  BY <1>8 DEF K, G, M, P, W

LinksOf(s) == UNION {Entries(s, p) : p \in KeptPairs(s)}

LEMMA LonelySurvey ==
  ASSUME NEW s, IsSurvey(s), Located(s), Len(s.names) < 2
  PROVE  Pairs(s) = {} /\ KeptPairs(s) = {} /\ LinksOf(s) = {}
<1>1. Pairs(s) = {}
  <2>1. ASSUME NEW p \in Pairs(s) PROVE FALSE
    BY PlacesAre
  <2> QED
    BY <2>1
<1> QED
  BY <1>1, KeptAreGreedy, GroupsAre DEF LinksOf

(* The result of GenerateSrtm, whether the request was refused or not.     *)
LEMMA ResultIs ==
  ASSUME NEW s, IsSurvey(s), Located(s)
  PROVE  /\ GenerateSrtm(s).links = LinksOf(s)
         /\ GenerateSrtm(s).misses = Cardinality(Misses(s))
         /\ GenerateSrtm(s).evaluated = Cardinality(Pairs(s))
<1>1. CASE Len(s.names) < 2
  <2>1. LinksOf(s) = {} /\ Pairs(s) = {} /\ Misses(s) = {}
    BY <1>1, LonelySurvey DEF Misses
  <2>2. Cardinality({}) = 0
    BY FS_EmptySet
  <2> QED
    BY <1>1, <2>1, <2>2 DEF GenerateSrtm, Refused
<1>2. CASE ~(Len(s.names) < 2)
  BY <1>2 DEF GenerateSrtm, ComputeLinkMatrix, LinksOf
<1> QED
  BY <1>1, <1>2

(* The record of the direction x -> y.                                     *)
SnrOf(s, x, y) == Median(s, x, y) + Offset(s, x, y, x < y)
Link(s, x, y) == [from |-> x, to |-> y, bidir |-> ~s.asym, snr |-> SnrOf(s, x, y)]

LEMMA EntriesAre ==
  ASSUME NEW s, IsSurvey(s), Located(s), NEW p \in Pairs(s),
         NEW x, x = s.names[p[1]], NEW y, y = s.names[p[2]]
  PROVE  /\ PairOf(s, p) = {x, y} /\ x # y /\ x \in Range(s.names) /\ y \in Range(s.names)
         /\ x \in Int /\ y \in Int
         /\ Both(s, p) = IF s.asym THEN {Link(s, x, y), Link(s, y, x)} ELSE {Link(s, x, y)}
         /\ Entries(s, p) = IF HasLink(s, x, y) THEN {e \in Both(s, p) : s.minSnr <= e.snr} ELSE {}
         /\ SnrOf(s, x, y) \in Int /\ SnrOf(s, y, x) \in Int
         /\ ~s.asym => SnrOf(s, x, y) = SnrOf(s, y, x)
<1>1. /\ PairOf(s, p) = {x, y} /\ x # y /\ x \in Range(s.names) /\ y \in Range(s.names)
      /\ x \in Int /\ y \in Int
  BY PlacesAre, BetweenTwo DEF PairOf
<1>2. /\ Directed(s, p[1], p[2], TRUE) = Link(s, x, y)
      /\ Directed(s, p[2], p[1], FALSE) = Link(s, y, x)
  <2>1. /\ Offset(s, x, y, TRUE) = Offset(s, x, y, x < y)
        /\ Offset(s, y, x, FALSE) = Offset(s, y, x, y < x)
    BY DEF Offset
  <2> QED
    BY <2>1 DEF Directed, Link, SnrOf
<1>3. Both(s, p) = IF s.asym THEN {Link(s, x, y), Link(s, y, x)} ELSE {Link(s, x, y)}
  BY <1>2 DEF Both
<1>4. Entries(s, p) = IF HasLink(s, x, y) THEN {e \in Both(s, p) : s.minSnr <= e.snr} ELSE {}
  BY DEF Entries
<1>5. /\ SnrOf(s, x, y) \in Int /\ SnrOf(s, y, x) \in Int
      /\ ~s.asym => SnrOf(s, x, y) = SnrOf(s, y, x)
  <2> DEFINE m == Median(s, x, y)
             w == Median(s, y, x)
             o == Offset(s, x, y, x < y)
             q == Offset(s, y, x, y < x)
  <2>1. m \in Int /\ w \in Int /\ m = w
    BY <1>1, BetweenTwo
  <2>2. o \in Int /\ q \in Int
    <3>1. (x < y) \in BOOLEAN /\ (y < x) \in BOOLEAN
      OBVIOUS
    <3> QED
      BY Zenon, <1>1, <3>1, BetweenTwo
  <2>3. ~s.asym => o = 0 /\ q = 0
    BY DEF Offset
  <2>4. SnrOf(s, x, y) = m + o /\ SnrOf(s, y, x) = w + q
    BY DEF SnrOf
  <2> HIDE DEF m, w, o, q
  <2> QED
    BY <2>1, <2>2, <2>3, <2>4
<1> QED
  BY <1>1, <1>3, <1>4, <1>5

LEMMA LinksUsable ==
  ASSUME IsSurvey(survey)
  PROVE  LinksAreUsable
<1> DEFINE s == survey
           r == GenerateSrtm(s)
           Snr(x, y) == Median(s, x, y) + Offset(s, x, y, x < y)
           Weak == {p \in Pairs(s) \ Misses(s) : Entries(s, p) = {}}
<1> SUFFICES ASSUME Located(s)
             PROVE  /\ \A e \in r.links : s.minSnr <= e.snr
                    /\ s.asym =>
                         \A e \in r.links : s.minSnr <= Snr(e.to, e.from) =>
                           \E f \in r.links : f.from = e.to /\ f.to = e.from
                    /\ Cardinality(KeptPairs(s)) + Cardinality(Groups(s) \ KeptPairs(s))
                         + Cardinality(Weak) + r.misses = r.evaluated
  BY DEF LinksAreUsable
<1>1. r.links = LinksOf(s) /\ r.misses = Cardinality(Misses(s)) /\ r.evaluated = Cardinality(Pairs(s))
  BY ResultIs
<1>2. KeptPairs(s) \subseteq Pairs(s)
  BY KeptAreGreedy, GroupsAre
<1>3. ASSUME NEW e \in LinksOf(s) PROVE s.minSnr <= e.snr
  BY <1>3 DEF LinksOf, Entries
<1>4. ASSUME s.asym, NEW e \in LinksOf(s), s.minSnr <= Snr(e.to, e.from)
      PROVE  \E f \in LinksOf(s) : f.from = e.to /\ f.to = e.from
  <2>1. PICK p \in KeptPairs(s) : e \in Entries(s, p)
    BY DEF LinksOf
  <2> DEFINE x == s.names[p[1]]
             y == s.names[p[2]]
  <2>2. p \in Pairs(s)
    BY <1>2
  <2>3. /\ Both(s, p) = {Link(s, x, y), Link(s, y, x)}
        /\ Entries(s, p) = IF HasLink(s, x, y) THEN {d \in Both(s, p) : s.minSnr <= d.snr} ELSE {}
    <3> HIDE DEF x, y
    <3> QED
      BY <1>4, <2>2, EntriesAre DEF x, y
  <2>4. /\ Link(s, x, y).from = x /\ Link(s, x, y).to = y /\ Link(s, x, y).snr = Snr(x, y)
        /\ Link(s, y, x).from = y /\ Link(s, y, x).to = x /\ Link(s, y, x).snr = Snr(y, x)
    BY DEF Link, SnrOf
  <2> HIDE DEF x, y, Snr
  <2>5. e \in Both(s, p) /\ Entries(s, p) = {d \in Both(s, p) : s.minSnr <= d.snr}
    BY <2>1, <2>3
  <2>6. PICK f \in Both(s, p) : f.from = e.to /\ f.to = e.from /\ f.snr = Snr(e.to, e.from)
    BY <2>3, <2>4, <2>5
  <2>7. f \in Entries(s, p)
    BY <1>4, <2>5, <2>6
  <2> QED
    BY <2>1, <2>6, <2>7 DEF LinksOf
<1>5. Cardinality(KeptPairs(s)) + Cardinality(Groups(s) \ KeptPairs(s))
        + Cardinality(Weak) + r.misses = r.evaluated
  BY <1>1, PairsAreCounted
<1> HIDE DEF r, Snr, Weak
<1> QED
  BY <1>1, <1>3, <1>4, <1>5

(* Two requests for the same survey that list the nodes differently.       *)
Alike(s, t) ==
  /\ IsSurvey(s) /\ IsSurvey(t) /\ Located(s) /\ Located(t)
  /\ Range(t.names) = Range(s.names)
  /\ t.place = s.place /\ t.tiles = s.tiles /\ t.draw = s.draw
  /\ t.cap = s.cap /\ t.minSnr = s.minSnr /\ t.asym = s.asym

LEMMA AlikeBack ==
  ASSUME NEW s, NEW t, Alike(s, t)
  PROVE  Alike(t, s)
BY DEF Alike

LEMMA RelistedIsAlike ==
  ASSUME NEW s, IsSurvey(s), Located(s), NEW t \in Relisted(s)
  PROVE  Alike(s, t)
<1> DEFINE P == Places(s)
           R == Range(s.names)
           N == s.names
<1>1. PICK q \in [P -> R] : Range(q) = R /\ t = [s EXCEPT !.names = q]
  BY DEF Relisted
<1>2. /\ DOMAIN s = {"names", "place", "tiles", "draw", "cap", "minSnr", "asym"}
      /\ P = 1 .. Len(N) /\ Len(N) \in Nat
  <2>1. s = [names |-> s.names, place |-> s.place, tiles |-> s.tiles, draw |-> s.draw,
             cap |-> s.cap, minSnr |-> s.minSnr, asym |-> s.asym]
    BY DEF IsSurvey
  <2>2. DOMAIN [names |-> s.names, place |-> s.place, tiles |-> s.tiles, draw |-> s.draw,
                cap |-> s.cap, minSnr |-> s.minSnr, asym |-> s.asym]
          = {"names", "place", "tiles", "draw", "cap", "minSnr", "asym"}
    OBVIOUS
  <2>3. P = 1 .. Len(N) /\ Len(N) \in Nat
    BY PlacesAre
  <2> HIDE DEF P, N
  <2> QED
    BY <2>1, <2>2, <2>3
<1>3. t = [names |-> q, place |-> s.place, tiles |-> s.tiles, draw |-> s.draw,
           cap |-> s.cap, minSnr |-> s.minSnr, asym |-> s.asym]
  <2>1. s = [names |-> s.names, place |-> s.place, tiles |-> s.tiles, draw |-> s.draw,
             cap |-> s.cap, minSnr |-> s.minSnr, asym |-> s.asym]
    BY DEF IsSurvey
  <2>2. [[names |-> s.names, place |-> s.place, tiles |-> s.tiles, draw |-> s.draw,
          cap |-> s.cap, minSnr |-> s.minSnr, asym |-> s.asym] EXCEPT !.names = q]
          = [names |-> q, place |-> s.place, tiles |-> s.tiles, draw |-> s.draw,
             cap |-> s.cap, minSnr |-> s.minSnr, asym |-> s.asym]
    OBVIOUS
  <2> QED
    BY Zenon, <1>1, <2>1, <2>2
<1>4. /\ t.names = q /\ t.place = s.place /\ t.tiles = s.tiles /\ t.draw = s.draw
      /\ t.cap = s.cap /\ t.minSnr = s.minSnr /\ t.asym = s.asym
  BY <1>3
<1>5. \A i, j \in P : q[i] = q[j] => i = j
  <2>1. N \in Bijection(P, R)
    <3>1. N \in [P -> R] /\ \A i, j \in P : N[i] = N[j] => i = j
      BY DEF IsSurvey, Range, Places
    <3>2. \A r \in R : \E i \in P : N[i] = r
      BY DEF Range, Places
    <3> HIDE DEF N, P, R
    <3> QED
      BY <3>1, <3>2 DEF Bijection, Injection, Surjection, IsInjective
  <2>2. IsFiniteSet(P)
    <3>1. 1 \in Int /\ Len(N) \in Int
      BY <1>2
    <3> QED
      BY <1>2, <3>1, FS_Interval
  <2>3. IsFiniteSet(R) /\ Cardinality(R) = Cardinality(P)
    <3>1. ExistsBijection(P, R)
      BY <2>1 DEF ExistsBijection
    <3> HIDE DEF P, R
    <3> QED
      BY <2>2, <3>1, FS_Bijection
  <2>4. q \in Surjection(P, R)
    <3>1. \A r \in R : \E i \in P : q[i] = r
      <4>1. \A r \in Range(q) : \E i \in DOMAIN q : q[i] = r
        BY DEF Range
      <4> HIDE DEF P, R
      <4> QED
        BY <1>1, <4>1
    <3> HIDE DEF P, R
    <3> QED
      BY <3>1 DEF Surjection
  <2>5. q \in Injection(P, R)
    <3> HIDE DEF P, R
    <3> QED
      BY <2>2, <2>3, <2>4, FS_SurjSameCardinalityImpliesInj
  <2> HIDE DEF P, R
  <2> QED
    BY <2>5 DEF Injection, IsInjective
<1>6. q \in Seq(Int)
  <2>1. \A r \in R : r \in Int
    BY BetweenTwo
  <2>2. q \in [1 .. Len(N) -> Int]
    <3> HIDE DEF P, R, N
    <3> QED
      BY <1>2, <2>1
  <2> HIDE DEF N
  <2> QED
    BY <1>2, <2>2
<1>7. IsSurvey(t)
  <2>1. DOMAIN t.names = P
    BY <1>4
  <2>2. Range(t.names) = Range(s.names)
    BY <1>1, <1>4
  <2>3. t = [names |-> t.names, place |-> t.place, tiles |-> t.tiles, draw |-> t.draw,
             cap |-> t.cap, minSnr |-> t.minSnr, asym |-> t.asym]
    BY <1>3, <1>4
  <2>4. t.names \in Seq(Int) /\ \A i, j \in DOMAIN t.names : t.names[i] = t.names[j] => i = j
    BY <1>4, <1>5, <1>6, <2>1
  <2>5. /\ t.place \in [Range(t.names) -> Int \cup {Nowhere}]
        /\ \A x, y \in Range(t.names) : x < y => t.draw[<<x, y>>] \in Int \X Int
        /\ t.cap \in Nat /\ t.minSnr \in Int /\ t.asym \in BOOLEAN
    BY <1>4, <2>2 DEF IsSurvey
  <2> QED
    BY <2>3, <2>4, <2>5 DEF IsSurvey
<1>8. Range(t.names) = Range(s.names) /\ Located(t)
  BY <1>1, <1>4 DEF Located
<1> QED
  BY <1>4, <1>7, <1>8 DEF Alike

LEMMA PairOfIsInjective ==
  ASSUME NEW s, IsSurvey(s), NEW p \in Pairs(s), NEW q \in Pairs(s), PairOf(s, p) = PairOf(s, q)
  PROVE  p = q
<1>1. /\ p[1] \in Places(s) /\ p[2] \in Places(s) /\ p = <<p[1], p[2]>> /\ p[1] < p[2]
      /\ q[1] \in Places(s) /\ q[2] \in Places(s) /\ q = <<q[1], q[2]>> /\ q[1] < q[2]
      /\ p[1] \in Int /\ p[2] \in Int /\ q[1] \in Int /\ q[2] \in Int
  BY PlacesAre
<1>2. \A i, j \in Places(s) : s.names[i] = s.names[j] => i = j
  BY DEF IsSurvey, Places
<1>3. {p[1], p[2]} = {q[1], q[2]}
  BY <1>1, <1>2 DEF PairOf
<1>4. p[1] = q[1] /\ p[2] = q[2]
  BY <1>1, <1>3
<1> QED
  BY <1>1, <1>4

LEMMA Partner ==
  ASSUME NEW s, NEW t, Alike(s, t), NEW p \in Pairs(s)
  PROVE  \E q \in Pairs(t) : PairOf(t, q) = PairOf(s, p)
<1> DEFINE x == s.names[p[1]]
           y == s.names[p[2]]
<1>1. x \in Range(t.names) /\ y \in Range(t.names) /\ x # y /\ PairOf(s, p) = {x, y}
  BY PlacesAre DEF Alike, PairOf
<1>2. PICK i \in Places(t), j \in Places(t) : t.names[i] = x /\ t.names[j] = y
  <2> HIDE DEF x, y
  <2> QED
    BY <1>1 DEF Range, Places
<1>3. i # j /\ i \in Int /\ j \in Int
  BY <1>1, <1>2, PlacesAre DEF Alike
<1>4. CASE i < j
  <2>1. <<i, j>> \in Pairs(t) /\ PairOf(t, <<i, j>>) = {x, y}
    BY <1>2, <1>4 DEF Pairs, PairOf
  <2> QED
    BY <1>1, <2>1
<1>5. CASE j < i
  <2>1. <<j, i>> \in Pairs(t) /\ PairOf(t, <<j, i>>) = {x, y}
    BY <1>2, <1>5 DEF Pairs, PairOf
  <2> QED
    BY <1>1, <2>1
<1> QED
  BY <1>3, <1>4, <1>5

(* What a record says, whichever end it calls the sender.                  *)
Said(e) == <<{e.from, e.to}, e.snr>>
SaidBy(es) == {Said(e) : e \in es}
SnrsOf(es) == {e.snr : e \in es}

LEMMA AlikeBetween ==
  ASSUME NEW s, NEW t, Alike(s, t), NEW x, NEW y
  PROVE  /\ SnrOf(t, x, y) = SnrOf(s, x, y) /\ Link(t, x, y) = Link(s, x, y)
         /\ HasLink(t, x, y) <=> HasLink(s, x, y)
<1>1. SnrOf(t, x, y) = SnrOf(s, x, y)
  BY DEF Alike, SnrOf, Median, Offset
<1> QED
  BY <1>1 DEF Alike, Link, HasLink, Covered

LEMMA EntriesAgree ==
  ASSUME NEW s, NEW t, Alike(s, t), NEW p \in Pairs(s), NEW q \in Pairs(t),
         PairOf(t, q) = PairOf(s, p)
  PROVE  /\ s.asym => Entries(t, q) = Entries(s, p)
         /\ SaidBy(Entries(t, q)) = SaidBy(Entries(s, p))
         /\ SnrsOf(Entries(t, q)) = SnrsOf(Entries(s, p))
         /\ q \in Groups(t) <=> p \in Groups(s)
<1>1. PICK x, y : x = s.names[p[1]] /\ y = s.names[p[2]]
  OBVIOUS
<1>2. PICK u, v : u = t.names[q[1]] /\ v = t.names[q[2]]
  OBVIOUS
<1>3. IsSurvey(s) /\ Located(s) /\ IsSurvey(t) /\ Located(t) /\ t.asym = s.asym /\ t.minSnr = s.minSnr
      /\ s.asym \in BOOLEAN
  BY DEF Alike, IsSurvey
<1>4. /\ PairOf(s, p) = {x, y} /\ x # y /\ x \in Range(s.names) /\ y \in Range(s.names)
      /\ Both(s, p) = IF s.asym THEN {Link(s, x, y), Link(s, y, x)} ELSE {Link(s, x, y)}
      /\ Entries(s, p) = IF HasLink(s, x, y) THEN {e \in Both(s, p) : s.minSnr <= e.snr} ELSE {}
      /\ ~s.asym => SnrOf(s, x, y) = SnrOf(s, y, x)
  BY <1>1, <1>3, EntriesAre
<1>5. /\ PairOf(t, q) = {u, v} /\ u # v
      /\ Both(t, q) = IF s.asym THEN {Link(t, u, v), Link(t, v, u)} ELSE {Link(t, u, v)}
      /\ Entries(t, q) = IF HasLink(t, u, v) THEN {e \in Both(t, q) : s.minSnr <= e.snr} ELSE {}
  BY <1>2, <1>3, EntriesAre
<1>6. (u = x /\ v = y) \/ (u = y /\ v = x)
  BY <1>4, <1>5
<1>7. HasLink(t, u, v) <=> HasLink(s, x, y)
  <2>1. HasLink(s, x, y) <=> HasLink(s, y, x)
    BY <1>3, <1>4, BetweenTwo
  <2> QED
    BY <1>6, <2>1, AlikeBetween
<1>8. Both(t, q) = IF s.asym THEN {Link(s, x, y), Link(s, y, x)}
                   ELSE IF u = x THEN {Link(s, x, y)} ELSE {Link(s, y, x)}
  BY <1>4, <1>5, <1>6, AlikeBetween
<1>9. CASE s.asym
  <2>1. Both(t, q) = Both(s, p)
    BY <1>4, <1>8, <1>9
  <2>2. Entries(t, q) = Entries(s, p)
    BY <1>4, <1>5, <1>7, <2>1
  <2> QED
    BY <1>9, <2>2 DEF Groups
<1>10. CASE ~s.asym
  <2>1. PICK d, e : /\ Both(s, p) = {d} /\ Both(t, q) = {e}
                    /\ e.snr = d.snr /\ {e.from, e.to} = {d.from, d.to}
    <3>1. Link(s, x, y).snr = Link(s, y, x).snr
      BY <1>4, <1>10 DEF Link
    <3>2. {Link(s, x, y).from, Link(s, x, y).to} = {Link(s, y, x).from, Link(s, y, x).to}
      BY DEF Link
    <3>3. Both(s, p) = {Link(s, x, y)}
      BY <1>4, <1>10
    <3>4. Both(t, q) = {Link(s, x, y)} \/ Both(t, q) = {Link(s, y, x)}
      BY <1>8, <1>10
    <3> QED
      BY <3>1, <3>2, <3>3, <3>4
  <2>2. \/ Entries(s, p) = {} /\ Entries(t, q) = {}
        \/ Entries(s, p) = {d} /\ Entries(t, q) = {e}
    BY <1>4, <1>5, <1>7, <2>1
  <2>3. Said(e) = Said(d)
    BY <2>1 DEF Said
  <2> QED
    BY <1>10, <2>1, <2>2, <2>3 DEF Groups, SaidBy, SnrsOf
<1> QED
  BY <1>3, <1>9, <1>10

LEMMA NamedSize ==
  ASSUME NEW s, IsSurvey(s), NEW S \in SUBSET Pairs(s)
  PROVE  /\ IsFiniteSet(S)
         /\ Cardinality({PairOf(s, p) : p \in S}) = Cardinality(S)
<1> DEFINE T == {PairOf(s, p) : p \in S}
           f == [p \in S |-> PairOf(s, p)]
<1>1. IsFiniteSet(S)
  BY PlacesAre, FS_Subset
<1>2. f \in Bijection(S, T)
  <2>1. f \in [S -> T] /\ \A r \in T : \E p \in S : f[p] = r
    OBVIOUS
  <2>2. \A p, q \in S : f[p] = f[q] => p = q
    BY PairOfIsInjective
  <2> HIDE DEF f, T
  <2> QED
    BY <2>1, <2>2 DEF Bijection, Injection, Surjection, IsInjective
<1>3. ExistsBijection(S, T)
  BY <1>2 DEF ExistsBijection
<1> HIDE DEF T
<1>4. Cardinality(T) = Cardinality(S)
  BY <1>1, <1>3, FS_Bijection
<1> QED
  BY <1>1, <1>4 DEF T

(* Without ties, what is ahead is what is strictly better.                 *)
LEMMA AheadWithoutTies ==
  ASSUME NEW s, IsSurvey(s), Located(s), NEW p \in Groups(s), NEW q \in Groups(s),
         p # q => BestOfEither(s, p) # BestOfEither(s, q)
  PROVE  Ahead(Ranked(s), q, p) <=> BestOfEither(s, q) > BestOfEither(s, p)
<1>1. Ranked(s)[p] = BestOfEither(s, p) /\ Ranked(s)[q] = BestOfEither(s, q)
  BY DEF Ranked
<1>2. BestOfEither(s, p) \in Int /\ BestOfEither(s, q) \in Int
  BY GroupsAre
<1>3. CASE p # q
  BY <1>1, <1>2, <1>3 DEF Ahead
<1>4. CASE p = q
  <2>1. ~Ahead(Ranked(s), p, p)
    <3>1. Ranking(Ranked(s)) /\ DOMAIN Ranked(s) = Groups(s)
      BY KeptIs DEF Ranked
    <3> QED
      BY <3>1, AheadIsOrder
  <2> QED
    BY <1>2, <1>4, <2>1
<1> QED
  BY <1>3, <1>4

Untied(s) == \A p, q \in Groups(s) : p # q => BestOfEither(s, p) # BestOfEither(s, q)

LEMMA PartnersRankAlike ==
  ASSUME NEW s, NEW t, Alike(s, t), Untied(s),
         NEW p \in Groups(s), NEW q \in Groups(s), NEW p2 \in Groups(t), NEW q2 \in Groups(t),
         PairOf(t, p2) = PairOf(s, p), PairOf(t, q2) = PairOf(s, q)
  PROVE  Ahead(Ranked(t), q2, p2) <=> Ahead(Ranked(s), q, p)
<1>1. IsSurvey(s) /\ Located(s) /\ IsSurvey(t) /\ Located(t)
  BY DEF Alike
<1>2. p \in Pairs(s) /\ q \in Pairs(s) /\ p2 \in Pairs(t) /\ q2 \in Pairs(t)
  BY <1>1, GroupsAre
<1>3. /\ SnrsOf(Entries(t, p2)) = SnrsOf(Entries(s, p))
      /\ SnrsOf(Entries(t, q2)) = SnrsOf(Entries(s, q))
  BY <1>2, EntriesAgree
<1>4. BestOfEither(t, p2) = BestOfEither(s, p) /\ BestOfEither(t, q2) = BestOfEither(s, q)
  <2>1. \A r, u : BestOfEither(r, u) = Max(SnrsOf(Entries(r, u)))
    BY DEF BestOfEither, SnrsOf
  <2> QED
    BY <1>3, <2>1
<1>5. p2 # q2 => p # q
  BY <1>1, <1>2, PairOfIsInjective
<1>6. Ahead(Ranked(s), q, p) <=> BestOfEither(s, q) > BestOfEither(s, p)
  BY <1>1, AheadWithoutTies DEF Untied
<1>7. Ahead(Ranked(t), q2, p2) <=> BestOfEither(t, q2) > BestOfEither(t, p2)
  <2>1. p2 # q2 => BestOfEither(t, p2) # BestOfEither(t, q2)
    BY <1>4, <1>5 DEF Untied
  <2> QED
    BY <1>1, <2>1, AheadWithoutTies
<1> QED
  BY <1>4, <1>6, <1>7

(* If the pairs ahead of a pair fare alike in both lists, so does the pair. *)
LEMMA FaresAlike ==
  ASSUME NEW s, NEW t, Alike(s, t), Untied(s), NEW p \in Groups(s), NEW p2 \in Groups(t),
         PairOf(t, p2) = PairOf(s, p),
         \A q \in Groups(s) : Ahead(Ranked(s), q, p) =>
           \A q2 \in Groups(t) : PairOf(t, q2) = PairOf(s, q) =>
             (q2 \in KeptPairs(t) <=> q \in KeptPairs(s))
  PROVE  p2 \in KeptPairs(t) <=> p \in KeptPairs(s)
<1> DEFINE A == KeptAhead(s, p)
           B == KeptAhead(t, p2)
<1>1. /\ IsSurvey(s) /\ Located(s) /\ IsSurvey(t) /\ Located(t) /\ t.cap = s.cap
      /\ p \in Pairs(s) /\ p2 \in Pairs(t)
  BY GroupsAre DEF Alike
<1>2. /\ KeptPairs(s) \subseteq Groups(s) /\ Groups(s) \subseteq Pairs(s)
      /\ KeptPairs(t) \subseteq Groups(t) /\ Groups(t) \subseteq Pairs(t)
  BY <1>1, KeptAreGreedy, GroupsAre
<1>3. ASSUME NEW q \in Groups(s) PROVE \E q2 \in Groups(t) : PairOf(t, q2) = PairOf(s, q)
  <2>1. PICK q2 \in Pairs(t) : PairOf(t, q2) = PairOf(s, q)
    BY <1>2, Partner
  <2> QED
    BY <1>2, <2>1, EntriesAgree
<1>4. ASSUME NEW q2 \in Groups(t) PROVE \E q \in Groups(s) : PairOf(t, q2) = PairOf(s, q)
  <2>1. PICK q \in Pairs(s) : PairOf(s, q) = PairOf(t, q2)
    BY <1>2, AlikeBack, Partner
  <2> QED
    BY <1>2, <2>1, EntriesAgree
<1>5. {PairOf(s, q) : q \in A} = {PairOf(t, q2) : q2 \in B}
  <2>1. ASSUME NEW q \in A PROVE \E q2 \in B : PairOf(t, q2) = PairOf(s, q)
    <3>1. q \in KeptPairs(s) /\ q \in Groups(s) /\ Ahead(Ranked(s), q, p)
      BY <1>2 DEF KeptAhead
    <3>2. PICK q2 \in Groups(t) : PairOf(t, q2) = PairOf(s, q)
      BY <1>3, <3>1
    <3>3. q2 \in KeptPairs(t) /\ Ahead(Ranked(t), q2, p2)
      BY <3>1, <3>2, PartnersRankAlike
    <3> QED
      BY <3>2, <3>3 DEF KeptAhead
  <2>2. ASSUME NEW q2 \in B PROVE \E q \in A : PairOf(t, q2) = PairOf(s, q)
    <3>1. q2 \in KeptPairs(t) /\ q2 \in Groups(t) /\ Ahead(Ranked(t), q2, p2)
      BY <1>2 DEF KeptAhead
    <3>2. PICK q \in Groups(s) : PairOf(t, q2) = PairOf(s, q)
      BY <1>4, <3>1
    <3>3. Ahead(Ranked(s), q, p) /\ q \in KeptPairs(s)
      BY <3>1, <3>2, PartnersRankAlike
    <3> QED
      BY <3>2, <3>3 DEF KeptAhead
  <2> HIDE DEF A, B
  <2> QED
    BY <2>1, <2>2
<1>6. A \subseteq Pairs(s) /\ B \subseteq Pairs(t)
  BY <1>2 DEF KeptAhead
<1>7. ASSUME NEW i \in Ends(p), NEW j \in Ends(p2), t.names[j] = s.names[i]
      PROVE  Cardinality(At(A, i)) = Cardinality(At(B, j))
  <2> DEFINE x == s.names[i]
  <2>1. i \in Places(s) /\ j \in Places(t)
    BY <1>1, PlacesAre DEF Ends
  <2>2. Touching(A, s, x) = At(A, i) /\ Touching(B, t, x) = At(B, j)
    <3> HIDE DEF A, B
    <3>1. Touching(B, t, t.names[j]) = At(B, j)
      BY <1>1, <1>6, <2>1, TouchingIsAt
    <3> QED
      BY <1>1, <1>6, <1>7, <2>1, <3>1, TouchingIsAt
  <2>3. {PairOf(s, q) : q \in Touching(A, s, x)} = {r \in {PairOf(s, q) : q \in A} : x \in r}
    BY DEF Touching
  <2>4. {PairOf(t, q) : q \in Touching(B, t, x)} = {r \in {PairOf(t, q) : q \in B} : x \in r}
    BY DEF Touching
  <2>5. {PairOf(s, q) : q \in Touching(A, s, x)} = {PairOf(t, q) : q \in Touching(B, t, x)}
    BY <1>5, <2>3, <2>4
  <2>6. Touching(A, s, x) \subseteq Pairs(s) /\ Touching(B, t, x) \subseteq Pairs(t)
    BY <1>6 DEF Touching
  <2> HIDE DEF A, B, x
  <2>7. Cardinality(Touching(A, s, x)) = Cardinality(Touching(B, t, x))
    <3>1. Cardinality({PairOf(s, q) : q \in Touching(A, s, x)}) = Cardinality(Touching(A, s, x))
      BY <1>1, <2>6, NamedSize
    <3>2. Cardinality({PairOf(t, q) : q \in Touching(B, t, x)}) = Cardinality(Touching(B, t, x))
      BY <1>1, <2>6, NamedSize
    <3> QED
      BY <2>5, <3>1, <3>2
  <2> QED
    BY <2>2, <2>7
<1>8. /\ \A i \in Ends(p) : \E j \in Ends(p2) : t.names[j] = s.names[i]
      /\ \A j \in Ends(p2) : \E i \in Ends(p) : t.names[j] = s.names[i]
  BY DEF Ends, PairOf
<1> HIDE DEF A, B
<1>9. Room(s, A, p) <=> Room(t, B, p2)
  BY <1>1, <1>7, <1>8 DEF Room
<1> QED
  BY <1>1, <1>9, KeptAreGreedy DEF A, B

(* The pairs kept are the same nodes in both lists.                        *)
LEMMA KeptAlike ==
  ASSUME NEW s, NEW t, Alike(s, t), Untied(s)
  PROVE  \A p \in Groups(s), p2 \in Groups(t) :
           PairOf(t, p2) = PairOf(s, p) => (p2 \in KeptPairs(t) <=> p \in KeptPairs(s))
<1> DEFINE G == Groups(s)
           best == Ranked(s)
           Agrees(p) == \A p2 \in Groups(t) :
             PairOf(t, p2) = PairOf(s, p) => (p2 \in KeptPairs(t) <=> p \in KeptPairs(s))
           rank(p) == Cardinality(AheadOf(best, p))
           Bad == {p \in G : ~Agrees(p)}
<1>1. Ranking(best) /\ DOMAIN best = G
  BY KeptIs DEF Ranked, Alike
<1>2. \A p \in G : rank(p) \in Nat
  <2> HIDE DEF best, G
  <2> QED
    BY <1>1, Ranks
<1>3. SUFFICES ASSUME Bad # {} PROVE FALSE
  OBVIOUS
<1>4. PICK r \in {rank(p) : p \in Bad} : \A u \in {rank(p) : p \in Bad} : r <= u
  <2>1. {rank(p) : p \in Bad} \in SUBSET Nat /\ {rank(p) : p \in Bad} # {}
    <3> HIDE DEF rank, Agrees
    <3> QED
      BY <1>2, <1>3
  <2> QED
    BY <2>1, LeastNumber
<1>5. PICK p \in Bad : r = rank(p)
  BY <1>4
<1>6. ASSUME NEW q \in G, Ahead(best, q, p) PROVE Agrees(q)
  <2>1. rank(q) < rank(p) /\ rank(q) \in Nat /\ rank(p) \in Nat
    <3>1. p \in G
      BY <1>5
    <3>2. rank(q) \in Nat /\ rank(p) \in Nat
      BY <1>2, <3>1
    <3>3. rank(q) < rank(p)
      <4> HIDE DEF best, G
      <4> QED
        BY <1>1, <1>6, <3>1, Ranks
    <3> QED
      BY <3>2, <3>3
  <2>2. q \notin Bad
    <3>1. rank(p) <= rank(q) => ~(rank(q) < rank(p))
      BY <2>1
    <3> HIDE DEF rank
    <3> QED
      BY <1>4, <1>5, <2>1, <3>1
  <2> HIDE DEF Agrees
  <2> QED
    BY <2>2
<1>7. Agrees(p)
  <2>1. p \in G
    BY <1>5
  <2> QED
    BY <1>6, <2>1, FaresAlike
<1> QED
  BY <1>5, <1>7

(* So are the links, up to which end of a two-way link is called sender.   *)
LEMMA LinksWithin ==
  ASSUME NEW s, NEW t, Alike(s, t), Untied(s), NEW p \in KeptPairs(s)
  PROVE  \E q \in KeptPairs(t) : /\ s.asym => Entries(t, q) = Entries(s, p)
                                 /\ SaidBy(Entries(t, q)) = SaidBy(Entries(s, p))
<1>1. p \in Groups(s) /\ p \in Pairs(s)
  BY KeptAreGreedy, GroupsAre DEF Alike
<1>2. PICK q \in Pairs(t) : PairOf(t, q) = PairOf(s, p)
  BY <1>1, Partner
<1>3. /\ s.asym => Entries(t, q) = Entries(s, p)
      /\ SaidBy(Entries(t, q)) = SaidBy(Entries(s, p))
      /\ q \in Groups(t)
  BY <1>1, <1>2, EntriesAgree
<1>4. q \in KeptPairs(t)
  BY <1>1, <1>2, <1>3, KeptAlike
<1> QED
  BY <1>3, <1>4

LEMMA UntiedAlike ==
  ASSUME NEW s, NEW t, Alike(s, t), Untied(s)
  PROVE  Untied(t)
<1> SUFFICES ASSUME NEW p2 \in Groups(t), NEW q2 \in Groups(t), p2 # q2
             PROVE  BestOfEither(t, p2) # BestOfEither(t, q2)
  BY DEF Untied
<1>1. Alike(t, s) /\ p2 \in Pairs(t) /\ q2 \in Pairs(t)
  BY AlikeBack, GroupsAre DEF Alike
<1>2. PICK p \in Pairs(s), q \in Pairs(s) : PairOf(s, p) = PairOf(t, p2) /\ PairOf(s, q) = PairOf(t, q2)
  BY <1>1, Partner
<1>3. /\ SnrsOf(Entries(t, p2)) = SnrsOf(Entries(s, p)) /\ p \in Groups(s)
      /\ SnrsOf(Entries(t, q2)) = SnrsOf(Entries(s, q)) /\ q \in Groups(s)
  BY <1>1, <1>2, EntriesAgree
<1>4. BestOfEither(t, p2) = BestOfEither(s, p) /\ BestOfEither(t, q2) = BestOfEither(s, q)
  <2>1. \A r, u : BestOfEither(r, u) = Max(SnrsOf(Entries(r, u)))
    BY DEF BestOfEither, SnrsOf
  <2> QED
    BY <1>3, <2>1
<1>5. p # q
  BY <1>1, <1>2, PairOfIsInjective DEF Alike
<1> QED
  BY <1>3, <1>4, <1>5 DEF Untied

LEMMA ListingIgnored ==
  ASSUME IsSurvey(survey)
  PROVE  ListingIsIrrelevant
<1> DEFINE s == survey
           here == GenerateSrtm(s).links
           Saying(es) == {<<{e.from, e.to}, e.snr>> : e \in es}
<1> SUFFICES ASSUME Located(s), NoTies(s), NEW t \in Relisted(s)
             PROVE  LET there == RefineWithSrtm(t, [links |-> {}]).links
                    IN  IF s.asym THEN here = there ELSE Saying(here) = Saying(there)
  BY DEF ListingIsIrrelevant
<1> DEFINE there == RefineWithSrtm(t, [links |-> {}]).links
<1>1. Alike(s, t)
  BY RelistedIsAlike
<1>2. Untied(s) /\ Untied(t) /\ Alike(t, s) /\ t.asym = s.asym
  <2>1. Untied(s)
    BY GroupsAre DEF NoTies, Untied
  <2> QED
    BY <1>1, <2>1, UntiedAlike, AlikeBack DEF Alike
<1>3. here = LinksOf(s)
  BY ResultIs
<1>4. there = LinksOf(t)
  <2>1. IsSurvey(t) /\ Located(t)
    BY <1>1 DEF Alike
  <2>2. CASE Len(t.names) < 2
    BY <2>1, <2>2, LonelySurvey DEF RefineWithSrtm
  <2>3. CASE ~(Len(t.names) < 2)
    BY <2>1, <2>3 DEF RefineWithSrtm, Located, ComputeLinkMatrix, LinksOf
  <2> QED
    BY <2>2, <2>3
<1> HIDE DEF here, there
<1>5. CASE s.asym
  <2>1. ASSUME NEW u, NEW v, Alike(u, v), Untied(u), u.asym, NEW e \in LinksOf(u)
        PROVE  e \in LinksOf(v)
    <3>1. PICK p \in KeptPairs(u) : e \in Entries(u, p)
      BY DEF LinksOf
    <3>2. PICK q \in KeptPairs(v) : Entries(v, q) = Entries(u, p)
      BY <2>1, LinksWithin
    <3> QED
      BY <3>1, <3>2 DEF LinksOf
  <2>2. LinksOf(s) \subseteq LinksOf(t)
    BY <1>1, <1>2, <1>5, <2>1
  <2>3. LinksOf(t) \subseteq LinksOf(s)
    BY <1>1, <1>2, <1>5, <2>1
  <2> QED
    BY <1>3, <1>4, <1>5, <2>2, <2>3 DEF here, there
<1>6. CASE ~s.asym
  <2>1. SaidBy(LinksOf(s)) = SaidBy(LinksOf(t))
    <3>1. ASSUME NEW u, NEW v, Alike(u, v), Untied(u), NEW e \in LinksOf(u)
          PROVE  Said(e) \in SaidBy(LinksOf(v))
      <4>1. PICK p \in KeptPairs(u) : e \in Entries(u, p)
        BY DEF LinksOf
      <4>2. PICK q \in KeptPairs(v) : SaidBy(Entries(v, q)) = SaidBy(Entries(u, p))
        BY <3>1, LinksWithin
      <4>3. PICK d \in Entries(v, q) : Said(d) = Said(e)
        BY <4>1, <4>2 DEF SaidBy
      <4>4. d \in LinksOf(v)
        BY <4>3 DEF LinksOf
      <4> QED
        BY <4>3, <4>4 DEF SaidBy
    <3> QED
      BY <1>1, <1>2, <3>1 DEF SaidBy
  <2>2. \A es : Saying(es) = SaidBy(es)
    BY DEF SaidBy, Said
  <2> HIDE DEF Saying
  <2> QED
    BY <1>3, <1>4, <1>6, <2>1, <2>2 DEF here, there
<1> QED
  BY <1>5, <1>6

(* The matrix of a terrain survey is usable, keeps the best links the cap  *)
(* allows and ignores the order of the request, for every survey of any    *)
(* number of nodes, wherever they stand and whatever the seeds draw.       *)
THEOREM MatrixSound ==
  ASSUME IsSurvey(survey)
  PROVE  MatrixIsSound
BY LinksUsable, CapIsKept, ListingIgnored DEF MatrixIsSound
=============================================================================
