------------------------ MODULE FlightReport_proofs ------------------------
(***************************************************************************)
(* Proofs, for every mesh, routes, loss and course of the flights, of what *)
(* the offline reports on directed messages say of the run that wrote the  *)
(* log.                                                                    *)
(***************************************************************************)
EXTENDS FlightReport, FiniteSetTheorems, SequenceTheorems, WellFoundedInduction, TLAPS

Types ==
  {"tx_enqueue", "rts_tx", "rts_retry", "cts_rx", "data_tx", "data_rx", "ack_tx", "ack_rx",
   "nack_rx", "dup_drop", "delivered", "path_cascade", "path_cascade_exhausted",
   "cascade_requeue", "rts_giveup", "data_ack_giveup", "rts_attempt_timeout"}
Whys ==
  {None, "already_received", "cts_timeout", "ack_timeout", "cascade", "rts_giveup",
   "ack_giveup", "loop_duplicate"}
Events ==
  [t : Nat, type : Types, node : Nodes, m : Messages, to : Nodes \cup {None}, why : Whys]
Items == [m : Messages, prev : Nodes \cup {None}, count : Nat]
Frames == [from : Nodes, to : Nodes, m : Messages]

(* n may hold a message that came to it from prev.                         *)
Fits(n, m, prev) ==
  /\ n # Dest[m]
  /\ \/ prev = None /\ n = Origin[m]
     \/ prev \in Nodes \ {Dest[m]} /\ n \in Via(prev, m)

Typed ==
  /\ conf \in Configs /\ now \in Nat /\ log \in Seq(Events) /\ sent \subseteq Messages
  /\ queue \in [Nodes -> Seq(Items)] /\ px \in [Nodes -> OpenFlights \cup {None}]
  /\ air \subseteq Frames /\ IsFiniteSet(air)
  /\ seen \in [Nodes -> [Messages -> Nodes \cup {None}]]
  /\ lost \in [data : Nat, ack : Nat]

(* Who holds a message could have got it, sends it to one of its next      *)
(* hops, and a frame on the air is the pending DATA of its sender.         *)
Routed ==
  /\ \A n \in Nodes : \A i \in DOMAIN queue[n] : Fits(n, queue[n][i].m, queue[n][i].prev)
  /\ \A n \in Nodes : px[n] # None =>
       /\ Fits(n, px[n].m, px[n].prev)
       /\ px[n].next \in Via(n, px[n].m)
  /\ \A f \in air : px[f.from] # None /\ px[f.from].data /\ px[f.from].next = f.to
                    /\ px[f.from].m = f.m

Legal == Typed /\ Routed

-----------------------------------------------------------------------------
LEMMA Constants ==
  /\ None \notin Nodes /\ None \notin OpenFlights /\ IsFiniteSet(Nodes)
  /\ None # "already_received"
  /\ \A m \in Messages : Origin[m] \in Nodes /\ Dest[m] \in Nodes /\ Origin[m] # Dest[m]
  /\ \A c \in Configs : /\ c.sends \in SUBSET Messages /\ c.retries \in Nat
                        /\ c.requeues \in Nat /\ c.events \in Nat
<1>1. /\ None \notin Nodes /\ None \notin OpenFlights /\ IsFiniteSet(Nodes)
      /\ None # "already_received"
  BY MeshAssumption, NoneAssumption
<1>2. \A m \in Messages : Origin[m] \in Nodes /\ Dest[m] \in Nodes /\ Origin[m] # Dest[m]
  BY MeshAssumption
<1>3. ASSUME NEW c \in Configs
      PROVE  /\ c.sends \in SUBSET Messages /\ c.retries \in Nat
             /\ c.requeues \in Nat /\ c.events \in Nat
  <2>1. c \in [sends : SUBSET Messages, retries : Nat, requeues : Nat, events : Nat]
    BY MeshAssumption
  <2> QED
    BY <2>1
<1> QED
  BY <1>1, <1>2, <1>3

LEMMA ViaIsNodes ==
  ASSUME NEW n \in Nodes, NEW m \in Messages
  PROVE  /\ Routes[n][Dest[m]] \in Seq(Nodes)
         /\ Via(n, m) = {Routes[n][Dest[m]][i] : i \in DOMAIN Routes[n][Dest[m]]}
         /\ Via(n, m) \subseteq Nodes
<1>1. Routes[n][Dest[m]] \in Seq(Nodes)
  BY MeshAssumption, RouteAssumption
<1>2. Via(n, m) = {Routes[n][Dest[m]][i] : i \in DOMAIN Routes[n][Dest[m]]}
  BY DEF Via, ToSet
<1>3. \A i \in DOMAIN Routes[n][Dest[m]] : Routes[n][Dest[m]][i] \in Nodes
  BY <1>1, ElementOfSeq, LenProperties
<1> QED
  BY <1>1, <1>2, <1>3

(* The least of a set of numbers.                                          *)
Below == {p \in Nat \X Nat : p[1] < p[2]}

LEMMA LeastNumber ==
  ASSUME NEW S \in SUBSET Nat, S # {}
  PROVE  \E x \in S : \A y \in S : x <= y
<1>1. OpToRel(<, Nat) = Below
  BY DEF OpToRel, Below
<1>2. IsWellFoundedOn(Below, Nat)
  BY <1>1, NatLessThanWellFounded
<1>3. PICK x \in S : \A y \in S : ~(<<y, x>> \in Below)
  BY <1>2, WFMin
<1>4. \A y \in S : ~(y < x)
  BY <1>3 DEF Below
<1> QED
  BY <1>4

LEMMA GreatestNumber ==
  ASSUME NEW S \in SUBSET Nat, S # {}, NEW b \in Nat, \A x \in S : x <= b
  PROVE  \E x \in S : \A y \in S : y <= x
<1> DEFINE T == {b - x : x \in S}
<1>1. T \in SUBSET Nat /\ T # {}
  <2>1. \A x \in S : b - x \in Nat
    OBVIOUS
  <2> QED
    BY <2>1
<1>2. PICK z \in T : \A y \in T : z <= y
  BY <1>1, LeastNumber
<1>3. PICK x \in S : z = b - x
  BY <1>2
<1>4. ASSUME NEW y \in S PROVE y <= x
  <2>1. b - x <= b - y
    BY <1>2, <1>3, <1>4
  <2> QED
    BY <2>1
<1> QED
  BY <1>4

(* The hop chosen is a candidate, and there is none only if all are tried. *)
LEMMA NextHopIs ==
  ASSUME NEW n \in Nodes, NEW m \in Messages, NEW prev, NEW tried
  PROVE  /\ NextHop(n, m, prev, tried) = None =>
              \A h \in Via(n, m) : h = prev \/ h \in tried
         /\ NextHop(n, m, prev, tried) # None =>
              NextHop(n, m, prev, tried) \in Via(n, m) \ ({prev} \cup tried)
<1> DEFINE hops == Routes[n][Dest[m]]
           left == {i \in DOMAIN hops : hops[i] # prev /\ hops[i] \notin tried}
<1>1. DOMAIN hops = 1 .. Len(hops) /\ Len(hops) \in Nat
  BY ViaIsNodes, LenProperties
<1>0. \A i \in DOMAIN hops : hops[i] \in Via(n, m)
  BY ViaIsNodes
<1>2. CASE left = {}
  <2>1. NextHop(n, m, prev, tried) = None
    BY <1>2 DEF NextHop
  <2> QED
    BY <1>2, <2>1, ViaIsNodes
<1>3. CASE left # {}
  <2> DEFINE least == CHOOSE i \in left : \A j \in left : i <= j
  <2>1. left \in SUBSET Nat
    BY <1>1
  <2>2. \E i \in left : \A j \in left : i <= j
    BY <1>3, <2>1, LeastNumber
  <2>3. least \in left
    BY <2>2
  <2>4. NextHop(n, m, prev, tried) = hops[least]
    BY <1>3 DEF NextHop
  <2>5. hops[least] \in Via(n, m) /\ hops[least] \notin {prev} \cup tried
    <3> HIDE DEF least
    <3> QED
      BY <1>0, <2>3
  <2> QED
    BY <2>4, <2>5, ViaIsNodes, Constants
<1> QED
  BY <1>2, <1>3

LEMMA PendingIs ==
  ASSUME Typed, NEW n \in Nodes, NEW item \in Items, Fits(n, item.m, item.prev)
  PROVE  /\ Pending(n, item) \in OpenFlights /\ Pending(n, item) # None
         /\ Pending(n, item).m = item.m /\ ~Pending(n, item).data
         /\ Fits(n, Pending(n, item).m, Pending(n, item).prev)
         /\ Pending(n, item).next \in Via(n, item.m)
<1>1. item.m \in Messages /\ item.prev \in Nodes \cup {None} /\ item.count \in Nat
  BY DEF Items
<1>2. NextHop(n, item.m, item.prev, {}) # None
  <2>1. CASE item.prev = None /\ n = Origin[item.m]
    <3>1. PICK h \in Via(n, item.m) : TRUE
      BY <1>1, <2>1, RouteAssumption
    <3>2. h # None
      BY <1>1, ViaIsNodes, Constants
    <3> QED
      BY <1>1, <2>1, <3>1, <3>2, NextHopIs
  <2>2. CASE item.prev \in Nodes \ {Dest[item.m]} /\ n \in Via(item.prev, item.m)
    <3>1. n \in Nodes \ {Dest[item.m]}
      BY DEF Fits
    <3>2. PICK h \in Via(n, item.m) \ {item.prev} : TRUE
      BY <1>1, <2>2, <3>1, RouteAssumption
    <3> QED
      BY <1>1, <3>2, NextHopIs
  <2> QED
    BY <2>1, <2>2 DEF Fits
<1>3. NextHop(n, item.m, item.prev, {}) \in Via(n, item.m)
  BY <1>1, <1>2, NextHopIs
<1>4. Retries(item.count) \in Nat
  BY <1>1, Constants DEF Retries, Typed
<1>5. Pending(n, item) \in OpenFlights
  <2>1. NextHop(n, item.m, item.prev, {}) \in Nodes
    BY <1>1, <1>3, ViaIsNodes
  <2> QED
    BY <1>1, <1>4, <2>1 DEF Pending, OpenFlights
<1> QED
  BY <1>1, <1>3, <1>5, Constants DEF Pending

(* A queue that is not empty has a freshest item.                          *)
LEMMA FreshestIs ==
  ASSUME NEW q \in Seq(Items), q # <<>>
  PROVE  Freshest(q) \in DOMAIN q
<1> DEFINE counts == {q[i].count : i \in DOMAIN q}
<1>1. DOMAIN q = 1 .. Len(q) /\ Len(q) \in Nat /\ Len(q) # 0
  BY LenProperties, EmptySeq
<1>2. \A i \in DOMAIN q : q[i].count \in Nat
  <2>1. \A i \in DOMAIN q : q[i] \in Items
    BY <1>1, ElementOfSeq
  <2> QED
    BY <2>1 DEF Items
<1>3. counts \in SUBSET Nat /\ counts # {}
  BY <1>1, <1>2
<1>4. PICK c \in counts : \A d \in counts : c <= d
  BY <1>3, LeastNumber
<1> DEFINE first == {i \in DOMAIN q : q[i].count = c}
<1>5. first \in SUBSET Nat /\ first # {}
  BY <1>1, <1>4
<1>6. PICK i \in first : \A j \in first : i <= j
  BY <1>5, LeastNumber
<1>7. ASSUME NEW j \in DOMAIN q \ {i}
      PROVE  q[i].count < q[j].count \/ (q[i].count = q[j].count /\ i < j)
  <2>1. c <= q[j].count /\ q[j].count \in Nat /\ c \in Nat /\ i \in Nat /\ j \in Nat
    BY <1>1, <1>2, <1>3, <1>4, <1>5, <1>6, <1>7
  <2>2. CASE q[j].count = c
    BY <1>6, <1>7, <2>1, <2>2
  <2>3. CASE q[j].count # c
    BY <1>6, <2>1, <2>3
  <2> QED
    BY <2>2, <2>3
<1>8. i \in DOMAIN q
  BY <1>6
<1> HIDE DEF counts, first
<1>9. \E k \in DOMAIN q : \A j \in DOMAIN q \ {k} :
        q[k].count < q[j].count \/ (q[k].count = q[j].count /\ k < j)
  BY <1>7, <1>8
<1> QED
  BY <1>9 DEF Freshest

(* Taking an item out of a queue leaves the others in it.                  *)
LEMMA RemoveAtIs ==
  ASSUME NEW S, NEW q \in Seq(S), NEW i \in DOMAIN q
  PROVE  /\ RemoveAt(q, i) \in Seq(S)
         /\ \A k \in DOMAIN RemoveAt(q, i) : \E j \in DOMAIN q : RemoveAt(q, i)[k] = q[j]
         /\ \A j \in DOMAIN q \ {i} : \E k \in DOMAIN RemoveAt(q, i) : RemoveAt(q, i)[k] = q[j]
<1> DEFINE a == SubSeq(q, 1, i - 1)
           b == SubSeq(q, i + 1, Len(q))
<1>1. DOMAIN q = 1 .. Len(q) /\ Len(q) \in Nat /\ i \in 1 .. Len(q)
  BY LenProperties
<1>2. \A k \in 1 .. Len(q) : q[k] \in S
  BY ElementOfSeq
<1>3. /\ a \in Seq(S) /\ Len(a) = i - 1
      /\ \A k \in 1 .. i - 1 : a[k] = q[k]
  BY <1>1, <1>2, SubSeqProperties
<1>4. /\ b \in Seq(S) /\ Len(b) = Len(q) - i
      /\ \A k \in 1 .. Len(q) - i : b[k] = q[k + i]
  <2>1. \A k \in i + 1 .. Len(q) : q[k] \in S
    BY <1>1, <1>2
  <2>2. /\ b \in Seq(S) /\ Len(b) = (IF i + 1 <= Len(q) THEN Len(q) - (i + 1) + 1 ELSE 0)
        /\ \A k \in 1 .. Len(q) - (i + 1) + 1 : b[k] = q[(i + 1) + k - 1]
    BY <1>1, <2>1, SubSeqProperties
  <2> HIDE DEF b
  <2>3. /\ Len(q) - (i + 1) + 1 = Len(q) - i
        /\ \A k \in Int : (i + 1) + k - 1 = k + i
        /\ ~(i + 1 <= Len(q)) => Len(q) - i = 0
    BY <1>1
  <2>4. Len(b) = Len(q) - i
    BY <2>2, <2>3
  <2>5. \A k \in 1 .. Len(q) - i : b[k] = q[k + i]
    <3> SUFFICES ASSUME NEW k \in 1 .. Len(q) - i PROVE b[k] = q[k + i]
      OBVIOUS
    <3>1. k \in 1 .. Len(q) - (i + 1) + 1 /\ (i + 1) + k - 1 = k + i
      BY <2>3
    <3>2. b[k] = q[(i + 1) + k - 1]
      BY <2>2, <3>1
    <3> QED
      BY <3>1, <3>2
  <2> QED
    BY <2>2, <2>4, <2>5
<1>5. RemoveAt(q, i) = a \o b
  BY DEF RemoveAt
<1> HIDE DEF a, b
<1>6. /\ a \o b \in Seq(S) /\ Len(a \o b) = Len(q) - 1
      /\ \A k \in 1 .. Len(q) - 1 : (a \o b)[k] = IF k <= i - 1 THEN a[k] ELSE b[k - (i - 1)]
  <2>1. /\ a \o b \in Seq(S) /\ Len(a \o b) = Len(a) + Len(b)
        /\ \A k \in 1 .. Len(a) + Len(b) :
             (a \o b)[k] = IF k <= Len(a) THEN a[k] ELSE b[k - Len(a)]
    BY <1>3, <1>4, ConcatProperties
  <2>2. Len(a) + Len(b) = Len(q) - 1
    BY <1>1, <1>3, <1>4
  <2> QED
    BY <1>3, <2>1, <2>2
<1>7. /\ DOMAIN (a \o b) = 1 .. Len(q) - 1
      /\ \A k \in 1 .. Len(q) - 1 : (a \o b)[k] = IF k <= i - 1 THEN q[k] ELSE q[k + 1]
  <2>1. DOMAIN (a \o b) = 1 .. Len(q) - 1
    BY <1>6, LenProperties
  <2>2. ASSUME NEW k \in 1 .. Len(q) - 1, k > i - 1
        PROVE  b[k - (i - 1)] = q[k + 1]
    <3>1. k - (i - 1) \in 1 .. Len(q) - i /\ (k - (i - 1)) + i = k + 1
      BY <1>1, <2>2
    <3> QED
      BY <1>4, <3>1
  <2>3. ASSUME NEW k \in 1 .. Len(q) - 1, k <= i - 1
        PROVE  a[k] = q[k]
    BY <1>1, <1>3, <2>3
  <2>4. ASSUME NEW k \in 1 .. Len(q) - 1
        PROVE  (a \o b)[k] = IF k <= i - 1 THEN q[k] ELSE q[k + 1]
    <3>1. (a \o b)[k] = IF k <= i - 1 THEN a[k] ELSE b[k - (i - 1)]
      BY <1>6
    <3>2. CASE k <= i - 1
      BY <2>3, <3>1, <3>2
    <3>3. CASE k > i - 1
      <4>1. ~(k <= i - 1)
        BY <1>1, <3>3
      <4> QED
        BY <2>2, <3>1, <3>3, <4>1
    <3>4. k <= i - 1 \/ k > i - 1
      BY <1>1
    <3> QED
      BY <3>2, <3>3, <3>4
  <2> QED
    BY <2>1, <2>4
<1>8. ASSUME NEW k \in DOMAIN (a \o b)
      PROVE  \E j \in DOMAIN q : (a \o b)[k] = q[j]
  <2>0. k \in 1 .. Len(q) - 1
    BY <1>7
  <2>1. k \in DOMAIN q /\ k + 1 \in DOMAIN q
    BY <1>1, <2>0
  <2> QED
    BY <1>7, <2>0, <2>1
<1>9. ASSUME NEW j \in DOMAIN q \ {i}
      PROVE  \E k \in DOMAIN (a \o b) : (a \o b)[k] = q[j]
  <2>1. CASE j < i
    <3>1. j \in 1 .. Len(q) - 1 /\ j <= i - 1
      BY <1>1, <2>1
    <3> QED
      BY <1>7, <3>1
  <2>2. CASE j > i
    <3>1. j - 1 \in 1 .. Len(q) - 1 /\ ~(j - 1 <= i - 1) /\ (j - 1) + 1 = j
      BY <1>1, <2>2
    <3> QED
      BY <1>7, <3>1
  <2> QED
    BY <1>1, <2>1, <2>2
<1> QED
  BY <1>5, <1>6, <1>8, <1>9

-----------------------------------------------------------------------------
LEMMA EventIs ==
  ASSUME now' \in Nat, NEW type \in Types, NEW n \in Nodes, NEW m \in Messages,
         NEW to \in Nodes \cup {None}
  PROVE  /\ Event(type, n, m, to) \in Events
         /\ Event(type, n, m, to).t = now' /\ Event(type, n, m, to).type = type
         /\ Event(type, n, m, to).node = n /\ Event(type, n, m, to).m = m
         /\ Event(type, n, m, to).why = None
         /\ \A why \in Whys :
              /\ Because(Event(type, n, m, to), why) \in Events
              /\ Because(Event(type, n, m, to), why).t = now'
              /\ Because(Event(type, n, m, to), why).type = type
              /\ Because(Event(type, n, m, to), why).node = n
              /\ Because(Event(type, n, m, to), why).m = m
              /\ Because(Event(type, n, m, to), why).why = why
<1>1. Event(type, n, m, to) \in Events
  BY DEF Event, Events, Whys
<1>2. ASSUME NEW why \in Whys
      PROVE  Because(Event(type, n, m, to), why) =
               [t |-> now', type |-> type, node |-> n, m |-> m, to |-> to, why |-> why]
  BY DEF Because, Event
<1>3. ASSUME NEW why \in Whys
      PROVE  [t |-> now', type |-> type, node |-> n, m |-> m, to |-> to, why |-> why] \in Events
  BY DEF Events
<1>4. /\ Event(type, n, m, to).t = now' /\ Event(type, n, m, to).type = type
      /\ Event(type, n, m, to).node = n /\ Event(type, n, m, to).m = m
      /\ Event(type, n, m, to).why = None
  BY DEF Event
<1>5. ASSUME NEW why \in Whys
      PROVE  /\ Because(Event(type, n, m, to), why) \in Events
             /\ Because(Event(type, n, m, to), why).t = now'
             /\ Because(Event(type, n, m, to), why).type = type
             /\ Because(Event(type, n, m, to), why).node = n
             /\ Because(Event(type, n, m, to), why).m = m
             /\ Because(Event(type, n, m, to), why).why = why
  BY <1>2, <1>3
<1> QED
  BY <1>1, <1>4, <1>5

LEMMA RtsIs ==
  ASSUME now' \in Nat, NEW n \in Nodes, NEW p \in OpenFlights
  PROVE  /\ FirstRts(n, p) \in Events /\ FirstRts(n, p).t = now'
         /\ FirstRts(n, p).type = "rts_tx" /\ FirstRts(n, p).m = p.m
         /\ FirstRts(n, p).why = None
         /\ \A why \in Whys :
              /\ NextRts(n, p, why) \in Events /\ NextRts(n, p, why).t = now'
              /\ NextRts(n, p, why).type = "rts_retry" /\ NextRts(n, p, why).m = p.m
              /\ NextRts(n, p, why).why = why
<1>1. p.m \in Messages /\ p.next \in Nodes \cup {None}
  BY DEF OpenFlights
<1>2. "rts_tx" \in Types /\ "rts_retry" \in Types
  BY DEF Types
<1>3. FirstRts(n, p) = Event("rts_tx", n, p.m, p.next)
  BY DEF FirstRts
<1>4. \A why : NextRts(n, p, why) = Because(Event("rts_retry", n, p.m, p.next), why)
  BY DEF NextRts
<1> QED
  BY <1>1, <1>2, <1>3, <1>4, EventIs

(* What Settle is given: a queue and a pending flight that n may have.     *)
Proper(n, q, p, evs) ==
  /\ n \in Nodes /\ q \in Seq(Items) /\ p \in OpenFlights \cup {None} /\ evs \in Seq(Events)
  /\ \A i \in DOMAIN q : Fits(n, q[i].m, q[i].prev)
  /\ p # None => Fits(n, p.m, p.prev) /\ p.next \in Via(n, p.m)

(* What it does to n, and all that it tells the log of it.                 *)
Acts(n, q, p, evs, told) ==
  \/ /\ p # None \/ q = <<>>
     /\ queue'[n] = q /\ px'[n] = p /\ told = evs
  \/ /\ p = None
     /\ \E i \in DOMAIN q :
          /\ queue'[n] = RemoveAt(q, i) /\ px'[n] = Pending(n, q[i])
          /\ told = evs \o <<FirstRts(n, Pending(n, q[i]))>>
Stays(n) == queue'[n] = queue[n] /\ px'[n] = px[n]
OverNodes == queue' = [n \in Nodes |-> queue'[n]] /\ px' = [n \in Nodes |-> px'[n]]

Turn(n, q, p, evs, told) ==
  /\ Acts(n, q, p, evs, told) /\ OverNodes /\ \A x \in Nodes \ {n} : Stays(x)
  /\ log' = log \o told

LEMMA SettleIs ==
  ASSUME Typed, now' \in Nat, NEW n, NEW q, NEW p, NEW evs, Proper(n, q, p, evs),
         Settle(n, q, p, evs)
  PROVE  \E told \in Seq(Events) : Turn(n, q, p, evs, told)
<1>0. /\ queue \in [Nodes -> Seq(Items)] /\ px \in [Nodes -> OpenFlights \cup {None}]
      /\ q \in Seq(Items) /\ evs \in Seq(Events) /\ n \in Nodes
  BY DEF Typed, Proper
<1>1. CASE p # None \/ q = <<>>
  <2>1. queue' = [queue EXCEPT ![n] = q] /\ px' = [px EXCEPT ![n] = p] /\ log' = log \o evs
    BY <1>1 DEF Settle
  <2> QED
    BY <1>0, <1>1, <2>1 DEF Turn, Acts, Stays, OverNodes
<1>2. CASE ~(p # None \/ q = <<>>)
  <2> DEFINE best == Freshest(q)
             rts == FirstRts(n, Pending(n, q[best]))
             told == evs \o <<rts>>
  <2>2. best \in DOMAIN q /\ q[best] \in Items
    BY <1>0, <1>2, FreshestIs, LenProperties, ElementOfSeq
  <2>3. /\ Pending(n, q[best]) \in OpenFlights
        /\ Pending(n, q[best]).m \in Messages /\ Pending(n, q[best]).next \in Nodes
    BY <1>0, <2>2, PendingIs DEF Proper, OpenFlights
  <2>4. rts \in Events
    BY <1>0, <2>3, RtsIs
  <2> HIDE DEF best
  <2>5. /\ queue' = [queue EXCEPT ![n] = RemoveAt(q, best)]
        /\ px' = [px EXCEPT ![n] = Pending(n, q[best])]
        /\ log' = log \o Append(evs, rts)
    BY <1>2 DEF Settle, best
  <2>6. Append(evs, rts) = evs \o <<rts>> /\ evs \o <<rts>> \in Seq(Events)
    BY <1>0, <2>4, AppendIsConcat, AppendProperties
  <2>7. Acts(n, q, p, evs, told)
    BY <1>0, <1>2, <2>2, <2>5 DEF Acts
  <2>8. OverNodes /\ \A x \in Nodes \ {n} : Stays(x)
    BY <1>0, <2>5 DEF Stays, OverNodes
  <2> QED
    BY <2>5, <2>6, <2>7, <2>8 DEF Turn
<1> QED
  BY <1>1, <1>2

(* What n is left with may be its own.                                     *)
Owns(n, q, p) ==
  /\ q \in Seq(Items) /\ \A i \in DOMAIN q : Fits(n, q[i].m, q[i].prev)
  /\ p \in OpenFlights \cup {None}
  /\ p # None => Fits(n, p.m, p.prev) /\ p.next \in Via(n, p.m)

LEMMA ActsLegal ==
  ASSUME Typed, NEW n, NEW q, NEW p, NEW evs, Proper(n, q, p, evs),
         NEW told, Acts(n, q, p, evs, told)
  PROVE  Owns(n, queue'[n], px'[n]) /\ (p # None => px'[n] = p)
<1>1. CASE (p # None \/ q = <<>>) /\ queue'[n] = q /\ px'[n] = p
  BY <1>1 DEF Proper, Owns
<1>2. ASSUME p = None, NEW i \in DOMAIN q, queue'[n] = RemoveAt(q, i),
             px'[n] = Pending(n, q[i])
      PROVE  Owns(n, queue'[n], px'[n])
  <2>0. q \in Seq(Items) /\ n \in Nodes /\ \A j \in DOMAIN q : Fits(n, q[j].m, q[j].prev)
    BY DEF Proper
  <2>1. q[i] \in Items /\ Fits(n, q[i].m, q[i].prev)
    BY <1>2, <2>0, LenProperties, ElementOfSeq
  <2> DEFINE taken == Pending(n, q[i])
  <2>2. /\ taken \in OpenFlights /\ Fits(n, taken.m, taken.prev)
        /\ taken.next \in Via(n, taken.m)
    BY <2>0, <2>1, PendingIs
  <2>3. /\ RemoveAt(q, i) \in Seq(Items)
        /\ \A k \in DOMAIN RemoveAt(q, i) : \E j \in DOMAIN q : RemoveAt(q, i)[k] = q[j]
    BY <1>2, <2>0, RemoveAtIs
  <2> HIDE DEF taken
  <2>4. \A k \in DOMAIN RemoveAt(q, i) : Fits(n, RemoveAt(q, i)[k].m, RemoveAt(q, i)[k].prev)
    BY <2>0, <2>3
  <2> QED
    BY <1>2, <2>2, <2>3, <2>4 DEF Owns, taken
<1> QED
  BY <1>1, <1>2 DEF Acts

LEMMA OwnsAll ==
  ASSUME OverNodes, \A n \in Nodes : Owns(n, queue'[n], px'[n])
  PROVE  /\ queue' \in [Nodes -> Seq(Items)] /\ px' \in [Nodes -> OpenFlights \cup {None}]
         /\ \A n \in Nodes : \A i \in DOMAIN queue'[n] : Fits(n, queue'[n][i].m, queue'[n][i].prev)
         /\ \A n \in Nodes : px'[n] # None => Fits(n, px'[n].m, px'[n].prev)
                                             /\ px'[n].next \in Via(n, px'[n].m)
<1>1. /\ \A n \in Nodes : queue'[n] \in Seq(Items)
      /\ \A n \in Nodes : px'[n] \in OpenFlights \cup {None}
  BY DEF Owns
<1>2. queue' \in [Nodes -> Seq(Items)]
  <2>1. [n \in Nodes |-> queue'[n]] \in [Nodes -> Seq(Items)]
    BY <1>1
  <2> QED
    BY <2>1 DEF OverNodes
<1>3. px' \in [Nodes -> OpenFlights \cup {None}]
  <2>1. [n \in Nodes |-> px'[n]] \in [Nodes -> OpenFlights \cup {None}]
    BY <1>1
  <2> QED
    BY <2>1 DEF OverNodes
<1> QED
  BY <1>2, <1>3 DEF Owns

LEMMA StaysLegal ==
  ASSUME Legal, NEW n \in Nodes, Stays(n)
  PROVE  Owns(n, queue'[n], px'[n])
BY DEF Legal, Typed, Routed, Stays, Owns

(* A step of one node keeps the state legal, whatever happens on the air.  *)
LEMMA TurnLegal ==
  ASSUME Legal, NEW n, NEW q, NEW p, NEW evs, Proper(n, q, p, evs),
         NEW told \in Seq(Events), Turn(n, q, p, evs, told),
         conf' = conf, now' \in Nat, sent' \subseteq Messages,
         seen' \in [Nodes -> [Messages -> Nodes \cup {None}]], lost' \in [data : Nat, ack : Nat],
         air' \subseteq Frames, IsFiniteSet(air'),
         \A f \in air' : IF f.from = n
                         THEN p # None /\ p.data /\ p.next = f.to /\ p.m = f.m
                         ELSE f \in air
  PROVE  Legal'
<1>0. log' \in Seq(Events)
  BY ConcatProperties DEF Turn, Legal, Typed
<1>1. (p # None => px'[n] = p) /\ Owns(n, queue'[n], px'[n])
  BY ActsLegal DEF Turn, Legal
<1>2. \A x \in Nodes : Owns(x, queue'[x], px'[x])
  BY <1>1, StaysLegal DEF Turn
<1>3. /\ queue' \in [Nodes -> Seq(Items)] /\ px' \in [Nodes -> OpenFlights \cup {None}]
      /\ \A x \in Nodes : \A i \in DOMAIN queue'[x] : Fits(x, queue'[x][i].m, queue'[x][i].prev)
      /\ \A x \in Nodes : px'[x] # None => Fits(x, px'[x].m, px'[x].prev)
                                          /\ px'[x].next \in Via(x, px'[x].m)
  BY <1>2, OwnsAll DEF Turn
<1>4. Typed'
  BY <1>0, <1>3 DEF Legal, Typed
<1>5. ASSUME NEW f \in air'
      PROVE  px'[f.from] # None /\ px'[f.from].data /\ px'[f.from].next = f.to
             /\ px'[f.from].m = f.m
  <2>1. CASE f.from = n
    BY <2>1, <1>1, <1>5
  <2>2. CASE f.from # n
    <3>1. f \in air /\ f.from \in Nodes \ {n}
      BY <2>2, <1>5 DEF Frames
    <3> QED
      BY <3>1 DEF Legal, Routed, Turn, Stays
  <2> QED
    BY <2>1, <2>2
<1>6. Routed'
  BY <1>3, <1>5 DEF Routed
<1> QED
  BY <1>4, <1>6 DEF Legal

Says(e, type, m) == e \in Events /\ e.t = now' /\ e.type = type /\ e.m = m

(* What becomes of a hop that failed, of message m, after what was told    *)
(* before.                                                                 *)
Retried(n, m, before, q, p, evs) ==
  /\ q = queue[n] /\ p # None /\ p.m = m /\ ~p.data
  /\ \E e : Says(e, "rts_retry", m) /\ evs = before \o <<e>>
Cascaded(n, m, before, q, p, evs) ==
  /\ q = queue[n] /\ p # None /\ p.m = m /\ ~p.data
  /\ \E e, f : /\ Says(e, "path_cascade", m) /\ Says(f, "rts_retry", m)
               /\ evs = before \o <<e, f>>
Requeued(n, m, before, q, p, evs) ==
  /\ p = None /\ \E item \in Items : item.m = m /\ q = Append(queue[n], item)
  /\ \E e : Says(e, "cascade_requeue", m) /\ evs = before \o <<e>>
GivenUp(n, m, before, q, p, evs) ==
  /\ q = queue[n] /\ p = None
  /\ \E e, f : /\ Says(e, "path_cascade_exhausted", m)
               /\ Says(f, "rts_giveup", m) \/ Says(f, "data_ack_giveup", m)
               /\ evs = before \o <<e, f>>
HopEnds(n, m, before, q, p, evs) ==
  \/ Retried(n, m, before, q, p, evs) \/ Cascaded(n, m, before, q, p, evs)
  \/ Requeued(n, m, before, q, p, evs) \/ GivenUp(n, m, before, q, p, evs)

LEMMA ItemIs ==
  ASSUME NEW n \in Nodes, NEW S, NEW q \in Seq(Items), NEW item \in Items,
         Fits(n, item.m, item.prev), \A i \in DOMAIN q : Fits(n, q[i].m, q[i].prev)
  PROVE  /\ Append(q, item) \in Seq(Items)
         /\ \A i \in DOMAIN Append(q, item) :
              Fits(n, Append(q, item)[i].m, Append(q, item)[i].prev)
         /\ \A i \in DOMAIN Append(q, item) : \/ Append(q, item)[i] = item
                                              \/ \E j \in DOMAIN q : q[j] = Append(q, item)[i]
         /\ \A j \in DOMAIN q : \E i \in DOMAIN Append(q, item) : Append(q, item)[i] = q[j]
         /\ \E i \in DOMAIN Append(q, item) : Append(q, item)[i] = item
<1> DEFINE r == Append(q, item)
<1>1. /\ r \in Seq(Items) /\ Len(r) = Len(q) + 1 /\ Len(q) \in Nat
      /\ \A i \in 1 .. Len(q) : r[i] = q[i]
      /\ r[Len(q) + 1] = item
  BY AppendProperties, LenProperties
<1>2. DOMAIN r = 1 .. Len(q) + 1 /\ DOMAIN q = 1 .. Len(q)
  BY <1>1, LenProperties
<1>3. ASSUME NEW i \in DOMAIN r
      PROVE  r[i] = item \/ (i \in DOMAIN q /\ r[i] = q[i])
  <2>1. i \in 1 .. Len(q) \/ i = Len(q) + 1
    BY <1>1, <1>2
  <2> QED
    BY <1>1, <1>2, <2>1
<1>4. DOMAIN q \subseteq DOMAIN r /\ Len(q) + 1 \in DOMAIN r
  BY <1>1, <1>2
<1> HIDE DEF r
<1>5. \A i \in DOMAIN r : Fits(n, r[i].m, r[i].prev)
  BY <1>3
<1>6. /\ \A i \in DOMAIN r : r[i] = item \/ \E j \in DOMAIN q : q[j] = r[i]
      /\ \A j \in DOMAIN q : \E i \in DOMAIN r : r[i] = q[j]
      /\ \E i \in DOMAIN r : r[i] = item
  BY <1>1, <1>2, <1>3, <1>4
<1> QED
  BY <1>1, <1>5, <1>6 DEF r

(* A flight at its next attempt, at its next hop and with its DATA out.    *)
Again(p, left)             == [p EXCEPT !.left = left, !.data = FALSE]
Other(p, next, tried, left) ==
  [p EXCEPT !.next = next, !.tried = tried, !.left = left, !.data = FALSE]
WithData(p)                == [p EXCEPT !.data = TRUE]

Like(q, p) == q \in OpenFlights /\ q # None /\ q.m = p.m /\ q.prev = p.prev

LEMMA FlightParts ==
  ASSUME NEW p \in OpenFlights
  PROVE  /\ \A left \in Nat :
              Like(Again(p, left), p) /\ ~Again(p, left).data /\ Again(p, left).next = p.next
         /\ \A next \in Nodes, tried \in SUBSET Nodes, left \in Nat :
              /\ Like(Other(p, next, tried, left), p) /\ ~Other(p, next, tried, left).data
              /\ Other(p, next, tried, left).next = next
         /\ Like(WithData(p), p) /\ WithData(p).data /\ WithData(p).next = p.next
<1>1. ASSUME NEW left \in Nat
      PROVE  /\ Again(p, left) \in OpenFlights /\ ~Again(p, left).data
             /\ Again(p, left).next = p.next /\ Again(p, left).m = p.m
             /\ Again(p, left).prev = p.prev
  BY DEF OpenFlights, Again
<1>2. ASSUME NEW next \in Nodes, NEW tried \in SUBSET Nodes, NEW left \in Nat
      PROVE  /\ Other(p, next, tried, left) \in OpenFlights /\ ~Other(p, next, tried, left).data
             /\ Other(p, next, tried, left).next = next /\ Other(p, next, tried, left).m = p.m
             /\ Other(p, next, tried, left).prev = p.prev
  BY DEF OpenFlights, Other
<1>3. /\ WithData(p) \in OpenFlights /\ WithData(p).data
      /\ WithData(p).next = p.next /\ WithData(p).m = p.m /\ WithData(p).prev = p.prev
  BY DEF OpenFlights, WithData
<1> QED
  BY <1>1, <1>2, <1>3, Constants DEF Like

LEMMA HopIs ==
  ASSUME Legal, now' \in Nat, NEW n \in Nodes, px[n] # None,
         NEW mayRetry \in BOOLEAN, NEW reason, mayRetry => reason \in Whys,
         NEW trigger \in Whys, NEW giveup \in {"rts_giveup", "data_ack_giveup"},
         NEW before \in Seq(Events), HopFailed(n, mayRetry, reason, trigger, giveup, before)
  PROVE  \E q, p, evs : /\ Proper(n, q, p, evs) /\ Settle(n, q, p, evs)
                        /\ HopEnds(n, px[n].m, before, q, p, evs)
<1> DEFINE p0    == px[n]
           m     == p0.m
           tried == p0.tried \cup {p0.next}
           alt   == NextHop(n, m, p0.prev, tried)
           again == [p0 EXCEPT !.left = @ - 1, !.data = FALSE]
           other == [p0 EXCEPT !.next = alt, !.tried = tried, !.left = Retries(p0.count),
                               !.data = FALSE]
           As(type) == Because(Event(type, n, m, p0.next), trigger)
<1>1. /\ p0 \in OpenFlights /\ Fits(n, m, p0.prev) /\ p0.next \in Via(n, m)
      /\ queue[n] \in Seq(Items) /\ \A i \in DOMAIN queue[n] : Fits(n, queue[n][i].m, queue[n][i].prev)
      /\ Typed
  BY DEF Legal, Typed, Routed
<1>2. /\ m \in Messages /\ p0.prev \in Nodes \cup {None} /\ p0.count \in Nat
      /\ p0.tried \in SUBSET Nodes /\ p0.next \in Nodes /\ p0.left \in Nat
  BY <1>1 DEF OpenFlights
<1>3. ASSUME NEW type \in Types
      PROVE  Says(As(type), type, m)
  BY <1>2, <1>3, EventIs DEF Says
<1>4. {"path_cascade", "path_cascade_exhausted", "cascade_requeue", giveup} \subseteq Types
      /\ "cascade" \in Whys
  BY DEF Types, Whys
<1>5. CASE mayRetry /\ p0.left > 0
  <2>1. p0.left - 1 \in Nat
    BY <1>2, <1>5
  <2>2. Like(again, p0) /\ ~again.data /\ again.next = p0.next
    <3>1. again = Again(p0, p0.left - 1)
      BY DEF Again
    <3> HIDE DEF again, p0
    <3> QED
      BY <1>1, <2>1, <3>1, FlightParts
  <2>3. Says(NextRts(n, again, reason), "rts_retry", m)
    <3> HIDE DEF again
    <3> QED
      BY <1>5, <2>2, RtsIs DEF Says, Like
  <2> DEFINE evs == Append(before, NextRts(n, again, reason))
  <2>4. evs = before \o <<NextRts(n, again, reason)>> /\ evs \in Seq(Events)
    BY <2>3, AppendIsConcat, AppendProperties DEF Says
  <2>5. Settle(n, queue[n], again, evs)
    BY <1>5 DEF HopFailed
  <2>6. again # None
    BY <2>2, Constants DEF Like
  <2> HIDE DEF again, evs
  <2>8. Proper(n, queue[n], again, evs)
    BY <1>1, <2>2, <2>4 DEF Proper, Like
  <2>9. Retried(n, m, before, queue[n], again, evs)
    BY <2>2, <2>3, <2>4, <2>6 DEF Retried, Like
  <2> QED
    BY <2>5, <2>8, <2>9 DEF HopEnds
<1>6. CASE ~(mayRetry /\ p0.left > 0) /\ alt # None
  <2>2. alt \in Via(n, m) /\ alt \in Nodes
    BY <1>2, <1>6, NextHopIs, ViaIsNodes
  <2>3. Retries(p0.count) \in Nat
    BY <1>1, <1>2, Constants DEF Retries, Typed
  <2>4. Like(other, p0) /\ ~other.data /\ other.next = alt
    <3>1. tried \in SUBSET Nodes
      BY <1>2
    <3>2. other = Other(p0, alt, tried, Retries(p0.count))
      BY DEF Other
    <3> HIDE DEF alt, tried, p0, other
    <3> QED
      BY <1>1, <2>2, <2>3, <3>1, <3>2, FlightParts
  <2>6. Says(NextRts(n, other, "cascade"), "rts_retry", m)
    <3> HIDE DEF other
    <3> QED
      BY <1>4, <2>4, RtsIs DEF Says, Like
  <2> DEFINE evs == before \o <<As("path_cascade"), NextRts(n, other, "cascade")>>
  <2>7. Says(As("path_cascade"), "path_cascade", m)
    BY <1>3, <1>4
  <2>8. <<As("path_cascade"), NextRts(n, other, "cascade")>> \in Seq(Events)
    BY <2>6, <2>7 DEF Says
  <2>9. evs \in Seq(Events)
    BY <2>8, ConcatProperties
  <2>10. Settle(n, queue[n], other, evs)
    BY <1>6 DEF HopFailed
  <2>11. other # None
    BY <2>4, Constants DEF Like
  <2> HIDE DEF other
  <2>12. Cascaded(n, m, before, queue[n], other, evs)
    BY <2>4, <2>6, <2>7, <2>11 DEF Cascaded, Like
  <2> HIDE DEF evs
  <2>13. Proper(n, queue[n], other, evs)
    BY <1>1, <2>2, <2>4, <2>9 DEF Proper, Like
  <2> QED
    BY <2>10, <2>12, <2>13 DEF HopEnds
<1>7. CASE ~(mayRetry /\ p0.left > 0) /\ alt = None /\ mayRetry /\ p0.count < conf.requeues
  <2> DEFINE item == Item(m, p0.prev, p0.count + 1)
             q == Append(queue[n], item)
             evs == Append(before, As("cascade_requeue"))
  <2>1. item \in Items /\ item.m = m /\ item.prev = p0.prev
    BY <1>2 DEF Item, Items
  <2>2. Says(As("cascade_requeue"), "cascade_requeue", m)
    BY <1>3, <1>4
  <2>3. evs = before \o <<As("cascade_requeue")>> /\ evs \in Seq(Events)
    BY <2>2, AppendIsConcat, AppendProperties DEF Says
  <2>4. Settle(n, q, None, evs)
    BY <1>7 DEF HopFailed
  <2> HIDE DEF item
  <2>5. q \in Seq(Items) /\ \A i \in DOMAIN q : Fits(n, q[i].m, q[i].prev)
    BY <1>1, <2>1, ItemIs
  <2>6. Requeued(n, m, before, q, None, evs)
    BY <2>1, <2>2, <2>3 DEF Requeued
  <2> HIDE DEF q, evs
  <2>7. Proper(n, q, None, evs)
    BY <2>3, <2>5 DEF Proper
  <2> QED
    BY <2>4, <2>6, <2>7 DEF HopEnds
<1>8. CASE /\ ~(mayRetry /\ p0.left > 0) /\ alt = None
           /\ ~(mayRetry /\ p0.count < conf.requeues)
  <2> DEFINE evs == before \o <<As("path_cascade_exhausted"), As(giveup)>>
  <2>1. /\ Says(As("path_cascade_exhausted"), "path_cascade_exhausted", m)
        /\ Says(As(giveup), giveup, m)
    BY <1>3, <1>4
  <2>2. <<As("path_cascade_exhausted"), As(giveup)>> \in Seq(Events)
    BY <2>1 DEF Says
  <2>3. evs \in Seq(Events)
    BY <2>2, ConcatProperties
  <2>4. Settle(n, queue[n], None, evs)
    BY <1>8 DEF HopFailed
  <2> HIDE DEF As
  <2>5. GivenUp(n, m, before, queue[n], None, evs)
    BY <2>1 DEF GivenUp
  <2> HIDE DEF evs
  <2>6. Proper(n, queue[n], None, evs)
    BY <1>1, <2>3 DEF Proper
  <2> QED
    BY <2>4, <2>5, <2>6 DEF HopEnds
<1> QED
  BY <1>5, <1>6, <1>7, <1>8

-----------------------------------------------------------------------------
(* The steps of one node: what it settles with, what it tells the log, and *)
(* what becomes of the rest of the state.                                  *)
Waits(n) == px[n] # None /\ ~px[n].data

Posts(n, q, p, evs) ==
  /\ \E m \in conf.sends \ sent :
       /\ n = Origin[m] /\ p = px[n] /\ sent' = sent \cup {m}
       /\ \E item \in Items : item.m = m /\ q = Append(queue[n], item)
       /\ \E e : Says(e, "tx_enqueue", m) /\ e.node = n /\ evs = <<e>>
  /\ now' = now /\ air' = air /\ seen' = seen /\ lost' = lost

GoesOut(n, q, p, evs) ==
  /\ Waits(n) /\ q = queue[n] /\ Like(p, px[n]) /\ p.data /\ p.next = px[n].next
  /\ air' = air \cup {[from |-> n, to |-> px[n].next, m |-> px[n].m]}
  /\ \E e, f : /\ Says(e, "cts_rx", px[n].m) /\ e.why = None
               /\ Says(f, "data_tx", px[n].m) /\ evs = <<e, f>>
  /\ now' = now /\ sent' = sent /\ seen' = seen /\ lost' = lost

Skips(n, q, p, evs) ==
  /\ Waits(n) /\ q = queue[n] /\ p = None /\ seen[px[n].next][px[n].m] = n
  /\ \E e : Says(e, "cts_rx", px[n].m) /\ e.why = "already_received" /\ evs = <<e>>
  /\ now' = now /\ sent' = sent /\ seen' = seen /\ lost' = lost /\ air' = air

NoCts(n, q, p, evs) ==
  /\ Waits(n)
  /\ \E e : /\ Says(e, "rts_attempt_timeout", px[n].m)
            /\ HopEnds(n, px[n].m, <<e>>, q, p, evs)
  /\ now' = now /\ sent' = sent /\ seen' = seen /\ lost' = lost /\ air' = air

NoAck(n, q, p, evs) ==
  /\ px[n] # None /\ px[n].data
  /\ [from |-> n, to |-> px[n].next, m |-> px[n].m] \notin air
  /\ HopEnds(n, px[n].m, <<>>, q, p, evs)
  /\ now' = now /\ sent' = sent /\ seen' = seen /\ lost' = lost /\ air' = air

Echo(n, f, e1, e2, q, p, evs) ==
  \/ /\ q = queue[n] /\ p = px[n] /\ lost' = [lost EXCEPT !.ack = @ + 1]
     /\ \E e3 : Says(e3, "ack_tx", f.m) /\ evs = <<e1, e2, e3>>
  \/ /\ seen[f.to][f.m] = n /\ q = queue[n] /\ p = None /\ lost' = lost
     /\ \E e3, e4 : /\ Says(e3, "ack_tx", f.m) /\ Says(e4, "ack_rx", f.m)
                    /\ evs = <<e1, e2, e3, e4>>
  \/ /\ q = queue[n] /\ p = px[n] /\ lost' = lost /\ evs = <<e1, e2>>
  \/ /\ lost' = lost
     /\ \E e3 : /\ Says(e3, "nack_rx", f.m)
                /\ HopEnds(n, f.m, <<e1, e2, e3>>, q, p, evs)

Repeats(n, q, p, evs) ==
  /\ \E f \in air :
       /\ n = f.from /\ seen[f.to][f.m] # None /\ air' = air \ {f}
       /\ \E e1, e2 : /\ Says(e1, "data_rx", f.m) /\ Says(e2, "dup_drop", f.m)
                      /\ Echo(n, f, e1, e2, q, p, evs)
  /\ now' = now + 1 /\ sent' = sent /\ seen' = seen

OneNode(n, q, p, evs, told) ==
  /\ Proper(n, q, p, evs) /\ told \in Seq(Events) /\ Turn(n, q, p, evs, told) /\ conf' = conf
  /\ \/ Posts(n, q, p, evs) \/ GoesOut(n, q, p, evs) \/ Skips(n, q, p, evs)
     \/ NoCts(n, q, p, evs) \/ NoAck(n, q, p, evs) \/ Repeats(n, q, p, evs)

LEMMA PxIs ==
  ASSUME Legal, NEW n \in Nodes
  PROVE  /\ queue[n] \in Seq(Items) /\ \A i \in DOMAIN queue[n] : Fits(n, queue[n][i].m, queue[n][i].prev)
         /\ px[n] \in OpenFlights \cup {None}
         /\ px[n] # None => /\ px[n] \in OpenFlights /\ px[n].m \in Messages /\ px[n].next \in Nodes
                            /\ Fits(n, px[n].m, px[n].prev) /\ px[n].next \in Via(n, px[n].m)
         /\ Typed /\ now \in Nat
<1>1. /\ queue[n] \in Seq(Items) /\ \A i \in DOMAIN queue[n] : Fits(n, queue[n][i].m, queue[n][i].prev)
      /\ px[n] \in OpenFlights \cup {None} /\ Typed /\ now \in Nat
      /\ px[n] # None => Fits(n, px[n].m, px[n].prev) /\ px[n].next \in Via(n, px[n].m)
  BY DEF Legal, Typed, Routed
<1>2. px[n] # None => px[n] \in OpenFlights /\ px[n].m \in Messages /\ px[n].next \in Nodes
  BY <1>1 DEF OpenFlights
<1> QED
  BY <1>1, <1>2

LEMMA SendIs ==
  ASSUME Legal, NEW m \in Messages, Send(m)
  PROVE  \E n, q, p, evs, told : OneNode(n, q, p, evs, told)
<1> DEFINE n == Origin[m]
           item == Item(m, None, 0)
           q == Append(queue[n], item)
           e == Event("tx_enqueue", n, m, None)
<1>1. /\ m \in conf.sends \ sent /\ now' = now /\ now' \in Nat /\ conf' = conf
      /\ sent' = sent \cup {m} /\ air' = air /\ seen' = seen /\ lost' = lost
      /\ Settle(n, q, px[n], <<e>>)
  BY DEF Send, Legal, Typed
<1>2. n \in Nodes /\ item \in Items /\ item.m = m /\ Fits(n, item.m, item.prev)
  BY Constants DEF Item, Items, Fits
<1>3. Says(e, "tx_enqueue", m) /\ e.node = n
  <2>1. "tx_enqueue" \in Types
    BY DEF Types
  <2> QED
    BY <1>1, <1>2, <2>1, EventIs DEF Says
<1> HIDE DEF item, e
<1>4. q \in Seq(Items) /\ \A i \in DOMAIN q : Fits(n, q[i].m, q[i].prev)
  BY <1>2, PxIs, ItemIs
<1>5. <<e>> \in Seq(Events)
  BY <1>3 DEF Says
<1>6. Posts(n, q, px[n], <<e>>)
  BY <1>1, <1>2, <1>3 DEF Posts
<1> HIDE DEF n, q
<1>7. Proper(n, q, px[n], <<e>>)
  BY <1>2, <1>4, <1>5, PxIs DEF Proper
<1>8. PICK told \in Seq(Events) : Turn(n, q, px[n], <<e>>, told)
  BY <1>1, <1>7, SettleIs DEF Legal
<1> QED
  BY <1>1, <1>6, <1>7, <1>8 DEF OneNode

LEMMA ClearedIs ==
  ASSUME Legal, NEW n \in Nodes, Cleared(n)
  PROVE  \E q, p, evs, told : OneNode(n, q, p, evs, told)
<1> DEFINE p0  == px[n]
           cts == Event("cts_rx", n, p0.m, p0.next)
           dtx == Event("data_tx", n, p0.m, p0.next)
           old == Because(cts, "already_received")
<1>1. /\ p0 # None /\ ~p0.data /\ now' = now /\ now' \in Nat /\ conf' = conf
      /\ sent' = sent /\ seen' = seen /\ lost' = lost
  BY PxIs DEF Cleared
<1>2. /\ p0 \in OpenFlights /\ p0.m \in Messages /\ p0.next \in Nodes
  BY <1>1, PxIs
<1>3. /\ Says(cts, "cts_rx", p0.m) /\ cts.why = None /\ Says(dtx, "data_tx", p0.m)
      /\ Says(old, "cts_rx", p0.m) /\ old.why = "already_received"
  <2>1. {"cts_rx", "data_tx"} \subseteq Types /\ "already_received" \in Whys
    BY DEF Types, Whys
  <2> QED
    BY <1>1, <1>2, <2>1, EventIs DEF Says
<1>4. <<cts, dtx>> \in Seq(Events) /\ <<old>> \in Seq(Events)
  BY <1>3 DEF Says
<1>5. CASE /\ air' = air \cup {[from |-> n, to |-> p0.next, m |-> p0.m]}
           /\ px' = [px EXCEPT ![n].data = TRUE]
           /\ log' = log \o <<cts, dtx>> /\ queue' = queue
  <2> DEFINE p == WithData(p0)
  <2>1. px' = [px EXCEPT ![n] = p]
    BY <1>5 DEF WithData
  <2>2. Like(p, p0) /\ p.data /\ p.next = p0.next
    BY <1>2, FlightParts
  <2>3. queue' = [queue EXCEPT ![n] = queue[n]]
    BY <1>5 DEF Legal, Typed
  <2> HIDE DEF p, cts, dtx
  <2>4. Turn(n, queue[n], p, <<cts, dtx>>, <<cts, dtx>>)
    <3>1. queue \in [Nodes -> Seq(Items)] /\ px \in [Nodes -> OpenFlights \cup {None}]
      BY DEF Legal, Typed
    <3> QED
      BY <1>5, <2>1, <2>2, <2>3, <3>1 DEF Turn, Acts, Stays, OverNodes, Like
  <2>5. Proper(n, queue[n], p, <<cts, dtx>>)
    BY <1>1, <1>4, <2>2, PxIs DEF Proper, Like
  <2>6. GoesOut(n, queue[n], p, <<cts, dtx>>)
    BY <1>1, <1>3, <1>5, <2>2 DEF GoesOut, Waits
  <2> QED
    BY <1>1, <1>4, <2>4, <2>5, <2>6 DEF OneNode
<1>6. CASE seen[p0.next][p0.m] = n /\ Settle(n, queue[n], None, <<old>>) /\ air' = air
  <2> HIDE DEF old
  <2>1. Proper(n, queue[n], None, <<old>>)
    BY <1>4, PxIs DEF Proper
  <2>2. PICK told \in Seq(Events) : Turn(n, queue[n], None, <<old>>, told)
    BY <1>1, <1>6, <2>1, SettleIs DEF Legal
  <2>3. Skips(n, queue[n], None, <<old>>)
    BY <1>1, <1>3, <1>6 DEF Skips, Waits
  <2> QED
    BY <1>1, <2>1, <2>2, <2>3 DEF OneNode
<1> QED
  BY <1>5, <1>6 DEF Cleared

LEMMA RtsTimeoutIs ==
  ASSUME Legal, NEW n \in Nodes, RtsTimeout(n)
  PROVE  \E q, p, evs, told : OneNode(n, q, p, evs, told)
<1> DEFINE e == Event("rts_attempt_timeout", n, px[n].m, px[n].next)
<1>1. /\ px[n] # None /\ ~px[n].data /\ now' = now /\ now' \in Nat /\ conf' = conf
      /\ sent' = sent /\ seen' = seen /\ lost' = lost /\ air' = air
      /\ HopFailed(n, TRUE, "cts_timeout", "rts_giveup", "rts_giveup", <<e>>)
  BY PxIs DEF RtsTimeout
<1>2. Says(e, "rts_attempt_timeout", px[n].m)
  <2>1. "rts_attempt_timeout" \in Types
    BY DEF Types
  <2> QED
    BY <1>1, <2>1, PxIs, EventIs DEF Says
<1>3. <<e>> \in Seq(Events)
  BY <1>2 DEF Says
<1> HIDE DEF e
<1>4. {"cts_timeout", "rts_giveup"} \subseteq Whys
  BY DEF Whys
<1>5. PICK q, p, evs : /\ Proper(n, q, p, evs) /\ Settle(n, q, p, evs)
                       /\ HopEnds(n, px[n].m, <<e>>, q, p, evs)
  BY <1>1, <1>3, <1>4, HopIs
<1>6. PICK told \in Seq(Events) : Turn(n, q, p, evs, told)
  BY <1>1, <1>5, SettleIs DEF Legal
<1>7. NoCts(n, q, p, evs)
  BY <1>1, <1>2, <1>5 DEF NoCts, Waits
<1> QED
  BY <1>1, <1>5, <1>6, <1>7 DEF OneNode

LEMMA AckTimeoutIs ==
  ASSUME Legal, NEW n \in Nodes, AckTimeout(n)
  PROVE  \E q, p, evs, told : OneNode(n, q, p, evs, told)
<1>1. /\ px[n] # None /\ px[n].data /\ now' = now /\ now' \in Nat /\ conf' = conf
      /\ sent' = sent /\ seen' = seen /\ lost' = lost /\ air' = air
      /\ [from |-> n, to |-> px[n].next, m |-> px[n].m] \notin air
      /\ HopFailed(n, TRUE, "ack_timeout", "ack_giveup", "data_ack_giveup", <<>>)
  BY PxIs DEF AckTimeout
<1>2. {"ack_timeout", "ack_giveup"} \subseteq Whys /\ <<>> \in Seq(Events)
  BY DEF Whys
<1>3. PICK q, p, evs : /\ Proper(n, q, p, evs) /\ Settle(n, q, p, evs)
                       /\ HopEnds(n, px[n].m, <<>>, q, p, evs)
  BY <1>1, <1>2, HopIs
<1>4. PICK told \in Seq(Events) : Turn(n, q, p, evs, told)
  BY <1>1, <1>3, SettleIs DEF Legal
<1>5. NoAck(n, q, p, evs)
  BY <1>1, <1>3 DEF NoAck
<1> QED
  BY <1>1, <1>3, <1>4, <1>5 DEF OneNode

LEMMA Strings ==
  ASSUME NEW a \in Events, NEW b \in Events, NEW c \in Events, NEW d \in Events
  PROVE  Append(<<a, b>>, c) = <<a, b, c>> /\ <<a, b>> \o <<c, d>> = <<a, b, c, d>>
<1>1. <<a, b>> \in Seq(Events) /\ Len(<<a, b>>) = 2 /\ <<c, d>> \in Seq(Events)
  OBVIOUS
<1>2. Append(<<a, b>>, c) = <<a, b, c>>
  <2>1. /\ Append(<<a, b>>, c) \in Seq(Events) /\ Len(Append(<<a, b>>, c)) = 3
        /\ \A i \in 1 .. 2 : Append(<<a, b>>, c)[i] = <<a, b>>[i]
        /\ Append(<<a, b>>, c)[3] = c
    BY <1>1, AppendProperties
  <2>2. \A i \in 1 .. 3 : Append(<<a, b>>, c)[i] = <<a, b, c>>[i]
    BY <2>1
  <2>3. <<a, b, c>> \in Seq(Events) /\ Len(<<a, b, c>>) = 3
    OBVIOUS
  <2> QED
    BY <2>1, <2>2, <2>3, SeqEqual
<1>3. <<a, b>> \o <<c, d>> = <<a, b, c, d>>
  <2>1. /\ <<a, b>> \o <<c, d>> \in Seq(Events) /\ Len(<<a, b>> \o <<c, d>>) = 4
        /\ \A i \in 1 .. 4 : (<<a, b>> \o <<c, d>>)[i] = IF i <= 2 THEN <<a, b>>[i] ELSE <<c, d>>[i-2]
    BY <1>1, ConcatProperties
  <2>2. \A i \in 1 .. 4 : (<<a, b>> \o <<c, d>>)[i] = <<a, b, c, d>>[i]
    BY <2>1
  <2>3. <<a, b, c, d>> \in Seq(Events) /\ Len(<<a, b, c, d>>) = 4
    OBVIOUS
  <2> QED
    BY <2>1, <2>2, <2>3, SeqEqual
<1> QED
  BY <1>2, <1>3

LEMMA AppendTwo ==
  \A a, b, c \in Events : Append(<<a, b>>, c) = <<a, b, c>>
<1> SUFFICES ASSUME NEW a \in Events, NEW b \in Events, NEW c \in Events
             PROVE  Append(<<a, b>>, c) = <<a, b, c>>
  OBVIOUS
<1> QED
  BY Strings

LEMMA DuplicateIs ==
  ASSUME Legal, NEW f \in air, Duplicate(f)
  PROVE  \E n, q, p, evs, told : OneNode(n, q, p, evs, told)
<1> DEFINE n  == f.from
           e1 == Decoded(f)
           e2 == Event("dup_drop", f.to, f.m, f.from)
           e3 == AckTx(f)
           e4 == AckRx(f)
           e5 == Event("nack_rx", f.from, f.m, f.to)
<1>1. /\ now' = now + 1 /\ now' \in Nat /\ conf' = conf /\ sent' = sent /\ seen' = seen
      /\ air' = air \ {f} /\ seen[f.to][f.m] # None
  BY DEF Duplicate, Flying, Legal, Typed
<1>2. /\ f \in Frames /\ f.from \in Nodes /\ f.to \in Nodes /\ f.m \in Messages
      /\ px[n] # None /\ px[n].m = f.m
  BY DEF Legal, Typed, Routed, Frames
<1>3. /\ Says(e1, "data_rx", f.m) /\ Says(e2, "dup_drop", f.m) /\ Says(e3, "ack_tx", f.m)
      /\ Says(e4, "ack_rx", f.m) /\ Says(e5, "nack_rx", f.m)
  <2>1. {"data_rx", "dup_drop", "ack_tx", "ack_rx", "nack_rx"} \subseteq Types
    BY DEF Types
  <2> QED
    BY <1>1, <1>2, <2>1, EventIs DEF Says, Decoded, AckTx, AckRx
<1>4. CASE \/ /\ seen[f.to][f.m] = f.from /\ lost' = [lost EXCEPT !.ack = @ + 1]
              /\ log' = log \o <<e1, e2, e3>> /\ UNCHANGED <<queue, px>>
           \/ lost' = lost /\ log' = log \o <<e1, e2>> /\ UNCHANGED <<queue, px>>
  <2>1. PICK evs \in {<<e1, e2, e3>>, <<e1, e2>>} :
          /\ log' = log \o evs /\ UNCHANGED <<queue, px>>
          /\ \/ evs = <<e1, e2, e3>> /\ lost' = [lost EXCEPT !.ack = @ + 1]
             \/ evs = <<e1, e2>> /\ lost' = lost
    BY <1>4
  <2>2. evs \in Seq(Events)
    BY <1>3, <2>1 DEF Says
  <2>3. queue' = [queue EXCEPT ![n] = queue[n]] /\ px' = [px EXCEPT ![n] = px[n]]
    BY <1>2, <2>1 DEF Legal, Typed
  <2> HIDE DEF e1, e2, e3, n
  <2>4. Turn(n, queue[n], px[n], evs, evs)
    <3>1. queue \in [Nodes -> Seq(Items)] /\ px \in [Nodes -> OpenFlights \cup {None}]
      BY DEF Legal, Typed
    <3> QED
      BY <1>2, <2>1, <2>3, <3>1 DEF Turn, Acts, Stays, OverNodes, n
  <2>5. Proper(n, queue[n], px[n], evs)
    BY <1>2, <2>2, PxIs DEF Proper, n
  <2>6. Repeats(n, queue[n], px[n], evs)
    BY <1>1, <1>3, <2>1 DEF Repeats, Echo, n
  <2> QED
    BY <1>1, <2>2, <2>4, <2>5, <2>6 DEF OneNode
<1>5. CASE /\ seen[f.to][f.m] = f.from /\ lost' = lost
           /\ Settle(n, queue[n], None, <<e1, e2, e3, e4>>)
  <2> DEFINE evs == <<e1, e2, e3, e4>>
  <2>1. evs \in Seq(Events)
    BY <1>3 DEF Says
  <2>2. Repeats(n, queue[n], None, evs)
    <3> HIDE DEF e1, e2, e3, e4
    <3> QED
      BY <1>1, <1>3, <1>5 DEF Repeats, Echo
  <2> HIDE DEF evs
  <2>3. Proper(n, queue[n], None, evs)
    BY <1>2, <2>1, PxIs DEF Proper
  <2>4. PICK told \in Seq(Events) : Turn(n, queue[n], None, evs, told)
    BY <1>1, <1>5, <2>3, SettleIs DEF Legal, evs
  <2> QED
    BY <1>1, <2>2, <2>3, <2>4 DEF OneNode
<1>6. CASE lost' = lost /\ HopFailed(n, FALSE, None, "loop_duplicate", "rts_giveup", <<e1, e2, e5>>)
  <2> HIDE DEF e1, e2, e5
  <2>1. <<e1, e2, e5>> \in Seq(Events)
    BY <1>3 DEF Says
  <2>2. "loop_duplicate" \in Whys
    BY DEF Whys
  <2>3. PICK q, p, evs : /\ Proper(n, q, p, evs) /\ Settle(n, q, p, evs)
                         /\ HopEnds(n, px[n].m, <<e1, e2, e5>>, q, p, evs)
    BY <1>1, <1>2, <1>6, <2>1, <2>2, HopIs
  <2>4. PICK told \in Seq(Events) : Turn(n, q, p, evs, told)
    BY <1>1, <2>3, SettleIs DEF Legal
  <2>5. Repeats(n, q, p, evs)
    BY <1>1, <1>2, <1>3, <1>6, <2>3 DEF Repeats, Echo
  <2> QED
    BY <1>1, <2>3, <2>4, <2>5 DEF OneNode
<1>7. /\ Append(<<e1, e2>>, e3) = <<e1, e2, e3>> /\ Append(<<e1, e2>>, e5) = <<e1, e2, e5>>
      /\ <<e1, e2>> \o <<e3, e4>> = <<e1, e2, e3, e4>>
  <2>1. e1 \in Events /\ e2 \in Events /\ e3 \in Events /\ e4 \in Events /\ e5 \in Events
    BY <1>3 DEF Says
  <2> HIDE DEF e1, e2, e3, e4, e5
  <2>2. Append(<<e1, e2>>, e3) = <<e1, e2, e3>>
    BY <2>1, AppendTwo
  <2>3. Append(<<e1, e2>>, e5) = <<e1, e2, e5>>
    BY <2>1, AppendTwo
  <2>4. <<e1, e2>> \o <<e3, e4>> = <<e1, e2, e3, e4>>
    BY <2>1, Strings
  <2> QED
    BY <2>2, <2>3, <2>4
<1> QED
  BY <1>4, <1>5, <1>6, <1>7 DEF Duplicate, LosesAck

(* The decoding of a new frame at its next hop: what the sender does if    *)
(* the ACK reaches it, and what becomes of the message at the receiver.    *)
Takes(f, b) ==
  LET n == f.to IN
  \/ n = Dest[f.m] /\ Stays(n) /\ \E e : Says(e, "delivered", f.m) /\ b = <<e>>
  \/ n # Dest[f.m] /\ n = Origin[f.m] /\ Stays(n) /\ b = <<>>
  \/ /\ n # Dest[f.m] /\ n # Origin[f.m]
     /\ \E q, p : /\ Proper(n, q, p, b) /\ Acts(n, q, p, b, b)
                  /\ \/ /\ px[n] = None /\ q = queue[n] /\ p # None /\ p.m = f.m /\ ~p.data
                        /\ \E e : Says(e, "rts_tx", f.m) /\ b = <<e>>
                     \/ /\ px[n] # None /\ p = px[n] /\ b = <<>>
                        /\ \E item \in Items : item.m = f.m /\ q = Append(queue[n], item)

Receives(f, acked, a, b) ==
  /\ now' = now + 1 /\ conf' = conf /\ sent' = sent /\ air' = air \ {f}
  /\ seen[f.to][f.m] = None /\ seen' = [seen EXCEPT ![f.to][f.m] = f.from]
  /\ OverNodes /\ \A n \in Nodes \ {f.from, f.to} : Stays(n)
  /\ IF acked THEN Acts(f.from, queue[f.from], None, <<>>, a) /\ lost' = lost
     ELSE Stays(f.from) /\ a = <<>> /\ lost' = [lost EXCEPT !.ack = @ + 1]
  /\ Takes(f, b)
  /\ \E e1, e2, e3 :
       /\ Says(e1, "data_rx", f.m) /\ Says(e2, "ack_tx", f.m) /\ Says(e3, "ack_rx", f.m)
       /\ log' = log \o <<e1, e2>> \o (IF acked THEN <<e3>> ELSE <<>>) \o a \o b

LEMMA FrameIs ==
  ASSUME Legal, NEW f \in air
  PROVE  /\ f \in Frames /\ f.from \in Nodes /\ f.to \in Nodes /\ f.m \in Messages
         /\ px[f.from] # None /\ px[f.from].data /\ px[f.from].m = f.m
         /\ f.from # Dest[f.m] /\ f.to \in Via(f.from, f.m) /\ f.from # f.to
         /\ f = [from |-> f.from, to |-> f.to, m |-> f.m]
<1>1. /\ f \in Frames /\ px[f.from] # None /\ px[f.from].data /\ px[f.from].m = f.m
      /\ px[f.from].next = f.to
  BY DEF Legal, Typed, Routed
<1>2. f.from \in Nodes /\ f.to \in Nodes /\ f.m \in Messages
      /\ f = [from |-> f.from, to |-> f.to, m |-> f.m]
  BY <1>1 DEF Frames
<1>3. f.to \in Via(f.from, f.m) /\ f.from # Dest[f.m]
  BY <1>1, <1>2, PxIs DEF Fits
<1>4. f.from # f.to
  BY <1>2, <1>3, RouteAssumption
<1> QED
  BY <1>1, <1>2, <1>3, <1>4

LEMMA DataRxIs ==
  ASSUME Legal, NEW f \in air, DataRx(f)
  PROVE  \E acked \in BOOLEAN, a \in Seq(Events), b \in Seq(Events) : Receives(f, acked, a, b)
<1> DEFINE x == f.from
           y == f.to
           item    == Item(f.m, x, 0)
           arrived == y = Dest[f.m]
           ends    == arrived \/ y = Origin[f.m]
           best    == Freshest(queue[x])
           next    == Pending(x, queue[x][best])
           taken   == Pending(y, item)
           starts  == ~ends /\ px[y] = None
           frees(acked) == acked /\ queue[x] # <<>>
           first   == FirstRts(x, next)
           second  == FirstRts(y, taken)
           won     == Event("delivered", y, f.m, x)
           a(acked) == IF frees(acked) THEN <<first>> ELSE <<>>
           b == IF arrived THEN <<won>> ELSE IF starts THEN <<second>> ELSE <<>>
<1>1. /\ x \in Nodes /\ y \in Nodes /\ x # y /\ f.m \in Messages /\ x # Dest[f.m] /\ y \in Via(x, f.m)
  BY FrameIs
<1>2. /\ now' = now + 1 /\ now' \in Nat /\ conf' = conf /\ sent' = sent /\ air' = air \ {f}
      /\ seen[y][f.m] = None /\ seen' = [seen EXCEPT ![y][f.m] = x]
  <2>1. Flying(f) /\ seen[y][f.m] = None /\ seen' = [seen EXCEPT ![y][f.m] = x]
    BY DEF DataRx
  <2>2. now \in Nat
    BY DEF Legal, Typed
  <2> QED
    BY <2>1, <2>2 DEF Flying
<1>3. PICK acked \in BOOLEAN :
        /\ IF acked THEN UNCHANGED lost ELSE LosesAck
        /\ queue' = [queue EXCEPT ![x] = IF frees(acked) THEN RemoveAt(@, best) ELSE @,
                                  ![y] = IF ends \/ starts THEN @ ELSE Append(@, item)]
        /\ px' = [px EXCEPT ![x] = IF frees(acked) THEN next ELSE IF acked THEN None ELSE @,
                            ![y] = IF starts THEN taken ELSE @]
        /\ log' = log \o <<Decoded(f), AckTx(f)>> \o (IF acked THEN <<AckRx(f)>> ELSE <<>>)
                      \o a(acked) \o b
  BY DEF DataRx
<1>4. /\ Says(Decoded(f), "data_rx", f.m) /\ Says(AckTx(f), "ack_tx", f.m)
      /\ Says(AckRx(f), "ack_rx", f.m) /\ Says(won, "delivered", f.m)
  <2>1. {"data_rx", "ack_tx", "ack_rx", "delivered"} \subseteq Types
    BY DEF Types
  <2> QED
    BY <1>1, <1>2, <2>1, EventIs DEF Says, Decoded, AckTx, AckRx
<1>5. item \in Items /\ item.m = f.m /\ item.prev = x
  BY <1>1 DEF Item, Items
<1>6. /\ queue \in [Nodes -> Seq(Items)] /\ px \in [Nodes -> OpenFlights \cup {None}] /\ Typed
  BY DEF Legal, Typed
<1> HIDE DEF item, best, next, taken, first, second, won, ends, starts
<1>7. /\ queue'[x] = IF frees(acked) THEN RemoveAt(queue[x], best) ELSE queue[x]
      /\ px'[x] = IF frees(acked) THEN next ELSE IF acked THEN None ELSE px[x]
      /\ queue'[y] = IF ends \/ starts THEN queue[y] ELSE Append(queue[y], item)
      /\ px'[y] = IF starts THEN taken ELSE px[y]
      /\ \A n \in Nodes \ {x, y} : Stays(n)
      /\ OverNodes
  <2>1. /\ queue'[x] = IF frees(acked) THEN RemoveAt(queue[x], best) ELSE queue[x]
        /\ queue'[y] = IF ends \/ starts THEN queue[y] ELSE Append(queue[y], item)
        /\ \A n \in Nodes \ {x, y} : queue'[n] = queue[n]
        /\ queue' = [n \in Nodes |-> queue'[n]]
    BY <1>1, <1>3, <1>6
  <2>2. /\ px'[x] = IF frees(acked) THEN next ELSE IF acked THEN None ELSE px[x]
        /\ px'[y] = IF starts THEN taken ELSE px[y]
        /\ \A n \in Nodes \ {x, y} : px'[n] = px[n]
        /\ px' = [n \in Nodes |-> px'[n]]
    BY <1>1, <1>3, <1>6
  <2> QED
    BY <2>1, <2>2 DEF Stays, OverNodes
<1>8. a(acked) \in Seq(Events) /\
      IF acked THEN Acts(x, queue[x], None, <<>>, a(acked)) /\ lost' = lost
      ELSE Stays(x) /\ a(acked) = <<>> /\ lost' = [lost EXCEPT !.ack = @ + 1]
  <2>1. CASE ~acked
    BY <1>3, <1>7, <2>1 DEF Stays, LosesAck
  <2>2. CASE acked /\ queue[x] = <<>>
    BY <1>3, <1>7, <2>2 DEF Acts
  <2>3. CASE acked /\ queue[x] # <<>>
    <3>1. best \in DOMAIN queue[x] /\ queue[x] \in Seq(Items)
      BY <1>1, <1>6, <2>3, FreshestIs DEF best
    <3>2. queue[x][best] \in Items /\ Fits(x, queue[x][best].m, queue[x][best].prev)
      BY <1>1, <3>1, PxIs, LenProperties, ElementOfSeq
    <3>3. next \in OpenFlights
      BY <1>1, <1>6, <3>2, PendingIs DEF next
    <3>4. first \in Events
      BY <1>1, <1>2, <3>3, RtsIs DEF first
    <3>5. a(acked) = <<>> \o <<first>> /\ a(acked) \in Seq(Events)
      <4>1. a(acked) = <<first>> /\ <<first>> \in Seq(Events)
        BY <2>3, <3>4
      <4> QED
        BY <4>1, ConcatEmptySeq
    <3>6. queue'[x] = RemoveAt(queue[x], best) /\ px'[x] = Pending(x, queue[x][best])
      BY <1>7, <2>3 DEF next
    <3>7. Acts(x, queue[x], None, <<>>, a(acked))
      BY <3>1, <3>5, <3>6 DEF Acts, first, next
    <3> QED
      BY <1>3, <2>3, <3>5, <3>7
  <2> QED
    BY <2>1, <2>2, <2>3
<1>9. b \in Seq(Events) /\ Takes(f, b)
  <2>1. CASE arrived
    <3>1. b = <<won>> /\ b \in Seq(Events)
      BY <1>4, <2>1 DEF Says
    <3>2. Stays(y)
      BY <1>7, <2>1 DEF Stays, ends, starts
    <3> QED
      BY <1>4, <2>1, <3>1, <3>2 DEF Takes
  <2>2. CASE ~arrived /\ y = Origin[f.m]
    <3>1. b = <<>> /\ Stays(y)
      BY <1>7, <2>2 DEF Stays, ends, starts
    <3> QED
      BY <2>2, <3>1 DEF Takes
  <2>3. CASE ~ends /\ px[y] = None
    <3>0. starts /\ ~arrived /\ y # Dest[f.m] /\ y # Origin[f.m]
      BY <2>3 DEF starts, ends
    <3>1. Fits(y, item.m, item.prev)
      BY <1>1, <1>5, <3>0 DEF Fits
    <3>2. /\ taken \in OpenFlights /\ taken # None /\ taken.m = f.m /\ ~taken.data
          /\ Fits(y, taken.m, taken.prev) /\ taken.next \in Via(y, f.m)
      BY <1>1, <1>5, <1>6, <3>1, PendingIs DEF taken
    <3>3. Says(second, "rts_tx", f.m)
      BY <1>1, <1>2, <3>2, RtsIs DEF Says, second
    <3>4. b = <<second>> /\ b \in Seq(Events)
      BY <3>0, <3>3 DEF Says
    <3>5. queue'[y] = queue[y] /\ px'[y] = taken
      BY <1>7, <3>0
    <3> HIDE DEF b
    <3>6. Acts(y, queue[y], taken, b, b)
      BY <3>2, <3>5 DEF Acts
    <3>7. Proper(y, queue[y], taken, b)
      BY <1>1, <3>2, <3>4, PxIs DEF Proper
    <3> QED
      BY <2>3, <3>0, <3>2, <3>3, <3>4, <3>6, <3>7 DEF Takes
  <2>4. CASE ~ends /\ px[y] # None
    <3>0. ~starts /\ ~arrived /\ y # Dest[f.m] /\ y # Origin[f.m]
      BY <2>4 DEF starts, ends
    <3>1. Fits(y, item.m, item.prev)
      BY <1>1, <1>5, <3>0 DEF Fits
    <3> DEFINE q == Append(queue[y], item)
    <3>2. q \in Seq(Items) /\ \A i \in DOMAIN q : Fits(y, q[i].m, q[i].prev)
      BY <1>1, <1>5, <3>1, PxIs, ItemIs
    <3>3. b = <<>>
      BY <3>0
    <3>5. queue'[y] = q /\ px'[y] = px[y]
      BY <1>7, <3>0, <2>4
    <3>8. \E it \in Items : it.m = f.m /\ q = Append(queue[y], it)
      BY <1>5
    <3> HIDE DEF b, q
    <3>6. Acts(y, q, px[y], b, b)
      BY <2>4, <3>5 DEF Acts
    <3>7. Proper(y, q, px[y], b)
      BY <1>1, <3>2, <3>3, PxIs DEF Proper
    <3>9. b \in Seq(Events)
      BY <3>3
    <3>10. Takes(f, b)
      <4> SUFFICES /\ Proper(y, q, px[y], b) /\ Acts(y, q, px[y], b, b)
                   /\ px[y] # None /\ b = <<>>
                   /\ \E it \in Items : it.m = f.m /\ q = Append(queue[y], it)
        BY <3>0 DEF Takes
      <4> QED
        BY <2>4, <3>3, <3>6, <3>7, <3>8
    <3> QED
      BY <3>9, <3>10
  <2> QED
    BY <2>1, <2>2, <2>3, <2>4 DEF ends
<1> HIDE DEF a, b
<1>10. Receives(f, acked, a(acked), b)
  BY <1>2, <1>3, <1>4, <1>7, <1>8, <1>9 DEF Receives
<1> QED
  BY <1>8, <1>9, <1>10

(* A frame is destroyed, or nothing happens at all.                        *)
Vanishes(f) ==
  /\ air' = air \ {f} /\ lost' = [lost EXCEPT !.data = @ + 1]
  /\ UNCHANGED <<conf, now, log, sent, queue, px, seen>>

LEMMA LostIs ==
  ASSUME lost \in [data : Nat, ack : Nat]
  PROVE  /\ lost.data \in Nat /\ lost.ack \in Nat
         /\ [lost EXCEPT !.data = @ + 1] \in [data : Nat, ack : Nat]
         /\ [lost EXCEPT !.ack = @ + 1] \in [data : Nat, ack : Nat]
         /\ [lost EXCEPT !.data = @ + 1].data = lost.data + 1
         /\ [lost EXCEPT !.data = @ + 1].ack = lost.ack
         /\ [lost EXCEPT !.ack = @ + 1].ack = lost.ack + 1
         /\ [lost EXCEPT !.ack = @ + 1].data = lost.data
<1>1. lost.data \in Nat /\ lost.ack \in Nat
  OBVIOUS
<1>2. /\ [lost EXCEPT !.data = @ + 1].data = lost.data + 1
      /\ [lost EXCEPT !.data = @ + 1].ack = lost.ack
      /\ [lost EXCEPT !.ack = @ + 1].ack = lost.ack + 1
      /\ [lost EXCEPT !.ack = @ + 1].data = lost.data
  OBVIOUS
<1>3. [lost EXCEPT !.data = @ + 1] \in [data : Nat, ack : Nat]
  BY <1>1
<1>4. [lost EXCEPT !.ack = @ + 1] \in [data : Nat, ack : Nat]
  BY <1>1
<1> QED
  BY <1>1, <1>2, <1>3, <1>4

(* Every step is one of a single node, a reception, or a loss.             *)
LEMMA StepIs ==
  ASSUME Legal, [Next]_vars
  PROVE  \/ \E n, q, p, evs, told : OneNode(n, q, p, evs, told)
         \/ \E f \in air, acked \in BOOLEAN, a \in Seq(Events), b \in Seq(Events) :
              Receives(f, acked, a, b)
         \/ \E f \in air : Vanishes(f)
         \/ UNCHANGED vars
<1>1. ASSUME NEW m \in Messages, Send(m)
      PROVE  \E n, q, p, evs, told : OneNode(n, q, p, evs, told)
  BY <1>1, SendIs
<1>2. ASSUME NEW n \in Nodes, Cleared(n) \/ RtsTimeout(n) \/ AckTimeout(n)
      PROVE  \E x, q, p, evs, told : OneNode(x, q, p, evs, told)
  <2>1. CASE Cleared(n)
    BY <2>1, ClearedIs
  <2>2. CASE RtsTimeout(n)
    BY <2>2, RtsTimeoutIs
  <2>3. CASE AckTimeout(n)
    BY <2>3, AckTimeoutIs
  <2> QED
    BY <1>2, <2>1, <2>2, <2>3
<1>3. ASSUME NEW f \in air, DataLost(f)
      PROVE  Vanishes(f)
  BY <1>3 DEF DataLost, Vanishes
<1>4. ASSUME NEW f \in air, Duplicate(f)
      PROVE  \E n, q, p, evs, told : OneNode(n, q, p, evs, told)
  BY <1>4, DuplicateIs
<1>5. ASSUME NEW f \in air, DataRx(f)
      PROVE  \E acked \in BOOLEAN, a \in Seq(Events), b \in Seq(Events) :
               Receives(f, acked, a, b)
  BY <1>5, DataRxIs
<1> QED
  BY <1>1, <1>2, <1>3, <1>4, <1>5 DEF Next

(* What a node is left with after it failed a hop is not a DATA frame.     *)
LEMMA HopEndsIs ==
  ASSUME NEW n, NEW m, NEW before, NEW q, NEW p, NEW evs, HopEnds(n, m, before, q, p, evs)
  PROVE  p # None => p.m = m /\ ~p.data
BY DEF HopEnds, Retried, Cascaded, Requeued, GivenUp

LEMMA OneNodeLegal ==
  ASSUME Legal, NEW n, NEW q, NEW p, NEW evs, NEW told, OneNode(n, q, p, evs, told)
  PROVE  Legal'
<1>1. /\ Proper(n, q, p, evs) /\ told \in Seq(Events) /\ Turn(n, q, p, evs, told) /\ conf' = conf
      /\ n \in Nodes
  BY DEF OneNode, Proper
<1>2. /\ air \subseteq Frames /\ IsFiniteSet(air) /\ sent \subseteq Messages
      /\ seen \in [Nodes -> [Messages -> Nodes \cup {None}]] /\ lost \in [data : Nat, ack : Nat]
      /\ now \in Nat /\ conf \in Configs
  BY DEF Legal, Typed
<1>3. \A f \in air : f.from = n => px[n] # None /\ px[n].data /\ px[n].next = f.to /\ px[n].m = f.m
  BY DEF Legal, Routed
<1>4. CASE Posts(n, q, p, evs)
  <2>1. /\ p = px[n] /\ sent' \subseteq Messages /\ now' \in Nat
        /\ air' = air /\ seen' = seen /\ lost' = lost
    BY <1>2, <1>4, Constants DEF Posts
  <2> QED
    BY <1>1, <1>2, <1>3, <2>1, TurnLegal
<1>5. CASE GoesOut(n, q, p, evs)
  <2> DEFINE f0 == [from |-> n, to |-> px[n].next, m |-> px[n].m]
  <2>1. /\ p # None /\ p.data /\ p.next = px[n].next /\ p.m = px[n].m
        /\ air' = air \cup {f0} /\ now' = now /\ sent' = sent /\ seen' = seen /\ lost' = lost
    BY <1>5 DEF GoesOut, Like
  <2>2. f0 \in Frames /\ f0.from = n /\ f0.to = p.next /\ f0.m = p.m
    BY <1>1, <1>5, <2>1, PxIs DEF GoesOut, Waits, Frames
  <2> HIDE DEF f0
  <2>3. air' \subseteq Frames /\ IsFiniteSet(air')
    BY <1>2, <2>1, <2>2, FS_AddElement
  <2>4. \A f \in air : f.from # n
    BY <1>3, <1>5 DEF GoesOut, Waits
  <2>5. \A f \in air' : IF f.from = n
                         THEN p # None /\ p.data /\ p.next = f.to /\ p.m = f.m
                         ELSE f \in air
    BY <2>1, <2>2, <2>4
  <2> QED
    BY <1>1, <1>2, <2>1, <2>3, <2>5, TurnLegal
<1>6. CASE Skips(n, q, p, evs) \/ NoCts(n, q, p, evs)
  <2>1. now' = now /\ sent' = sent /\ seen' = seen /\ lost' = lost /\ air' = air /\ Waits(n)
    BY <1>6 DEF Skips, NoCts
  <2>2. \A f \in air : f.from # n
    BY <1>3, <2>1 DEF Waits
  <2> QED
    BY <1>1, <1>2, <2>1, <2>2, TurnLegal
<1>7. CASE NoAck(n, q, p, evs)
  <2>1. /\ now' = now /\ sent' = sent /\ seen' = seen /\ lost' = lost /\ air' = air
        /\ [from |-> n, to |-> px[n].next, m |-> px[n].m] \notin air
    BY <1>7 DEF NoAck
  <2>2. \A f \in air : f.from # n
    BY <1>3, <2>1, FrameIs
  <2> QED
    BY <1>1, <1>2, <2>1, <2>2, TurnLegal
<1>8. CASE Repeats(n, q, p, evs)
  <2>1. PICK f0 \in air : n = f0.from /\ air' = air \ {f0}
    BY <1>8 DEF Repeats
  <2>2. now' = now + 1 /\ sent' = sent /\ seen' = seen /\ lost' \in [data : Nat, ack : Nat]
    <3>1. \E f, e1, e2 : Echo(n, f, e1, e2, q, p, evs)
      BY <1>8 DEF Repeats
    <3>2. lost' = lost \/ lost' = [lost EXCEPT !.ack = @ + 1]
      BY <3>1 DEF Echo
    <3>3. now' = now + 1 /\ sent' = sent /\ seen' = seen
      BY <1>8 DEF Repeats
    <3> QED
      BY <1>2, <3>2, <3>3
  <2>3. IsFiniteSet(air') /\ air' \subseteq Frames
    BY <1>2, <2>1, FS_RemoveElement
  <2>4. \A f \in air' : f \in air /\ f.from # n
    <3> SUFFICES ASSUME NEW f \in air', f.from = n PROVE FALSE
      BY <2>1
    <3>1. f.to = f0.to /\ f.m = f0.m /\ f.from = f0.from
      BY <1>3, <2>1
    <3>2. f = f0
      BY <2>1, <3>1, FrameIs
    <3> QED
      BY <2>1, <3>2
  <2> QED
    BY <1>1, <1>2, <2>2, <2>3, <2>4, TurnLegal
<1> QED
  BY <1>4, <1>5, <1>6, <1>7, <1>8 DEF OneNode

LEMMA ReceivesLegal ==
  ASSUME Legal, NEW f \in air, NEW acked \in BOOLEAN, NEW a \in Seq(Events), NEW b \in Seq(Events),
         Receives(f, acked, a, b)
  PROVE  Legal'
<1>1. /\ f.from \in Nodes /\ f.to \in Nodes /\ f.m \in Messages /\ f.from # f.to
      /\ \A n \in Nodes : queue[n] \in Seq(Items) /\ Owns(n, queue[n], px[n])
  BY FrameIs, PxIs DEF Owns
<1>2. /\ air \subseteq Frames /\ IsFiniteSet(air) /\ sent \subseteq Messages
      /\ seen \in [Nodes -> [Messages -> Nodes \cup {None}]] /\ lost \in [data : Nat, ack : Nat]
      /\ now \in Nat /\ conf \in Configs /\ log \in Seq(Events)
  BY DEF Legal, Typed
<1>3. Owns(f.from, queue'[f.from], px'[f.from])
  <2>1. CASE acked
    <3>1. Proper(f.from, queue[f.from], None, <<>>)
      BY <1>1, PxIs DEF Proper
    <3> QED
      BY <2>1, <3>1, ActsLegal DEF Receives, Legal
  <2>2. CASE ~acked
    BY <1>1, <2>2, StaysLegal DEF Receives
  <2> QED
    BY <2>1, <2>2
<1>4. Owns(f.to, queue'[f.to], px'[f.to]) /\ (px[f.to] # None => px'[f.to] = px[f.to])
  <2>1. CASE Stays(f.to)
    BY <1>1, <2>1, StaysLegal DEF Stays
  <2>2. CASE ~Stays(f.to)
    <3>1. PICK q, p : /\ Proper(f.to, q, p, b) /\ Acts(f.to, q, p, b, b)
                      /\ \/ px[f.to] = None
                         \/ px[f.to] # None /\ p = px[f.to]
      BY <2>2 DEF Receives, Takes
    <3> QED
      BY <3>1, ActsLegal DEF Legal
  <2> QED
    BY <2>1, <2>2
<1>5. \A n \in Nodes : Owns(n, queue'[n], px'[n])
  BY <1>3, <1>4, StaysLegal DEF Receives
<1>6. /\ queue' \in [Nodes -> Seq(Items)] /\ px' \in [Nodes -> OpenFlights \cup {None}]
      /\ \A x \in Nodes : \A i \in DOMAIN queue'[x] : Fits(x, queue'[x][i].m, queue'[x][i].prev)
      /\ \A x \in Nodes : px'[x] # None => Fits(x, px'[x].m, px'[x].prev)
                                          /\ px'[x].next \in Via(x, px'[x].m)
  BY <1>5, OwnsAll DEF Receives
<1>7. log' \in Seq(Events)
  <2>1. PICK e1, e2, e3 :
          /\ e1 \in Events /\ e2 \in Events /\ e3 \in Events
          /\ log' = log \o <<e1, e2>> \o (IF acked THEN <<e3>> ELSE <<>>) \o a \o b
    <3>1. PICK e1, e2, e3 :
            /\ Says(e1, "data_rx", f.m) /\ Says(e2, "ack_tx", f.m) /\ Says(e3, "ack_rx", f.m)
            /\ log' = log \o <<e1, e2>> \o (IF acked THEN <<e3>> ELSE <<>>) \o a \o b
      BY DEF Receives
    <3>2. e1 \in Events /\ e2 \in Events /\ e3 \in Events
      BY <3>1 DEF Says
    <3> QED
      BY <3>1, <3>2
  <2>2. <<e1, e2>> \in Seq(Events) /\ (IF acked THEN <<e3>> ELSE <<>>) \in Seq(Events)
    BY <2>1
  <2> QED
    BY <1>2, <2>1, <2>2, ConcatProperties
<1>8. /\ air' \subseteq Frames /\ IsFiniteSet(air') /\ sent' \subseteq Messages
      /\ seen' \in [Nodes -> [Messages -> Nodes \cup {None}]] /\ lost' \in [data : Nat, ack : Nat]
      /\ now' \in Nat /\ conf' \in Configs
  <2>1. lost' \in [data : Nat, ack : Nat]
    <3>1. lost' = lost \/ lost' = [lost EXCEPT !.ack = @ + 1]
      BY DEF Receives
    <3> QED
      BY <1>2, <3>1, LostIs
  <2>2. air' \subseteq Frames /\ IsFiniteSet(air')
    BY <1>2, FS_RemoveElement DEF Receives
  <2> QED
    BY <1>1, <1>2, <2>1, <2>2 DEF Receives
<1>9. ASSUME NEW g \in air'
      PROVE  px'[g.from] # None /\ px'[g.from].data /\ px'[g.from].next = g.to
             /\ px'[g.from].m = g.m
  <2>1. g \in air /\ g # f
    BY <1>9 DEF Receives
  <2>2. px[g.from] # None /\ px[g.from].data /\ px[g.from].next = g.to /\ px[g.from].m = g.m
    BY <2>1 DEF Legal, Routed
  <2>3. g.from # f.from
    <3> SUFFICES ASSUME g.from = f.from PROVE FALSE
      OBVIOUS
    <3>1. px[f.from].next = f.to /\ px[f.from].m = f.m
      BY DEF Legal, Routed
    <3>2. g = f
      BY <2>1, <2>2, <3>1, FrameIs
    <3> QED
      BY <2>1, <3>2
  <2>4. px'[g.from] = px[g.from]
    BY <1>4, <2>1, <2>2, <2>3, FrameIs DEF Receives, Stays
  <2> QED
    BY <2>2, <2>4
<1> QED
  BY <1>6, <1>7, <1>8, <1>9 DEF Legal, Typed, Routed

LEMMA LegalInit ==
  ASSUME Init
  PROVE  Legal
<1>1. <<>> \in Seq(Events) /\ <<>> \in Seq(Items) /\ {} \subseteq Frames /\ IsFiniteSet({})
  BY FS_EmptySet
<1> QED
  BY <1>1 DEF Init, Legal, Typed, Routed

LEMMA LegalStep ==
  ASSUME Legal, [Next]_vars
  PROVE  Legal'
<1>1. ASSUME NEW f \in air, Vanishes(f)
      PROVE  Legal'
  <2>1. IsFiniteSet(air') /\ air' \subseteq air
    BY <1>1, FS_RemoveElement DEF Legal, Typed, Vanishes
  <2>2. lost' \in [data : Nat, ack : Nat]
    <3>1. lost' = [lost EXCEPT !.data = @ + 1] /\ lost \in [data : Nat, ack : Nat]
      BY <1>1 DEF Legal, Typed, Vanishes
    <3> QED
      BY <3>1, LostIs
  <2> QED
    BY <1>1, <2>1, <2>2 DEF Legal, Typed, Routed, Vanishes, Fits
<1>2. CASE UNCHANGED vars
  BY <1>2 DEF vars, Legal, Typed, Routed, Fits
<1> QED
  BY <1>1, <1>2, StepIs, OneNodeLegal, ReceivesLegal

THEOREM FlightsLegal == Spec => []Legal
<1>1. Init => Legal
  BY LegalInit
<1>2. Legal /\ [Next]_vars => Legal'
  BY LegalStep
<1> QED
  BY <1>1, <1>2, PTL DEF Spec

-----------------------------------------------------------------------------
(* Counting the events of a kind.                                          *)
Num(es, K) == Cardinality({i \in DOMAIN es : es[i] \in K})
Kind(types) == {e \in Events : e.type \in types}

LEMMA SameSize ==
  ASSUME NEW S, NEW T, IsFiniteSet(S), NEW g \in [S -> T],
         \A x, y \in S : g[x] = g[y] => x = y, \A t \in T : \E x \in S : g[x] = t
  PROVE  IsFiniteSet(T) /\ Cardinality(T) = Cardinality(S)
<1>1. g \in Bijection(S, T)
  BY DEF Bijection, Injection, Surjection, IsInjective
<1>2. ExistsBijection(S, T)
  BY <1>1 DEF ExistsBijection
<1> QED
  BY <1>2, FS_Bijection

LEMMA ConcatIs ==
  ASSUME NEW S, NEW a \in Seq(S), NEW b \in Seq(S)
  PROVE  /\ a \o b \in Seq(S) /\ Len(a) \in Nat /\ Len(b) \in Nat
         /\ DOMAIN a = 1 .. Len(a) /\ DOMAIN b = 1 .. Len(b)
         /\ DOMAIN (a \o b) = 1 .. Len(a) + Len(b) /\ Len(a \o b) = Len(a) + Len(b)
         /\ \A i \in 1 .. Len(a) : (a \o b)[i] = a[i]
         /\ \A i \in 1 .. Len(b) : (a \o b)[i + Len(a)] = b[i]
<1>1. /\ a \o b \in Seq(S) /\ Len(a \o b) = Len(a) + Len(b)
      /\ \A i \in 1 .. Len(a) + Len(b) :
           (a \o b)[i] = IF i <= Len(a) THEN a[i] ELSE b[i - Len(a)]
  BY ConcatProperties
<1>2. /\ Len(a) \in Nat /\ Len(b) \in Nat /\ DOMAIN a = 1 .. Len(a) /\ DOMAIN b = 1 .. Len(b)
      /\ DOMAIN (a \o b) = 1 .. Len(a) + Len(b)
  BY <1>1, LenProperties
<1>3. ASSUME NEW i \in 1 .. Len(b)
      PROVE  (a \o b)[i + Len(a)] = b[i]
  <2>1. i + Len(a) \in 1 .. Len(a) + Len(b) /\ ~(i + Len(a) <= Len(a)) /\ (i + Len(a)) - Len(a) = i
    BY <1>2
  <2> QED
    BY <1>1, <2>1
<1>4. \A i \in 1 .. Len(a) : (a \o b)[i] = a[i]
  BY <1>1, <1>2
<1> QED
  BY <1>1, <1>2, <1>3, <1>4

LEMMA NumIs ==
  ASSUME NEW es \in Seq(Events), NEW K
  PROVE  Num(es, K) \in Nat /\ IsFiniteSet({i \in DOMAIN es : es[i] \in K})
<1>1. IsFiniteSet(DOMAIN es)
  BY LenProperties, FS_Interval
<1>2. IsFiniteSet({i \in DOMAIN es : es[i] \in K})
  BY <1>1, FS_Subset
<1> QED
  BY <1>2, FS_CardinalityType DEF Num

LEMMA NumConcat ==
  ASSUME NEW a \in Seq(Events), NEW b \in Seq(Events), NEW K
  PROVE  Num(a \o b, K) = Num(a, K) + Num(b, K)
<1> DEFINE A == {i \in DOMAIN a : a[i] \in K}
           B == {i \in DOMAIN b : b[i] \in K}
           C == {i \in DOMAIN (a \o b) : (a \o b)[i] \in K}
           g == [i \in B |-> i + Len(a)]
           D == {i + Len(a) : i \in B}
<1>1. /\ Len(a) \in Nat /\ Len(b) \in Nat
      /\ DOMAIN a = 1 .. Len(a) /\ DOMAIN b = 1 .. Len(b)
      /\ DOMAIN (a \o b) = 1 .. Len(a) + Len(b)
      /\ \A i \in 1 .. Len(a) : (a \o b)[i] = a[i]
      /\ \A i \in 1 .. Len(b) : (a \o b)[i + Len(a)] = b[i]
  BY ConcatIs
<1>2. IsFiniteSet(A) /\ IsFiniteSet(B)
  BY NumIs
<1>3. IsFiniteSet(D) /\ Cardinality(D) = Cardinality(B)
  <2>1. \A i, j \in B : g[i] = g[j] => i = j
    BY <1>1
  <2>2. g \in [B -> D] /\ \A t \in D : \E i \in B : g[i] = t
    OBVIOUS
  <2> HIDE DEF B, D, g
  <2> QED
    BY <1>2, <2>1, <2>2, SameSize
<1>5. C = A \cup D
  <2>1. ASSUME NEW i \in C PROVE i \in A \cup D
    <3>1. CASE i <= Len(a)
      BY <1>1, <2>1, <3>1
    <3>2. CASE ~(i <= Len(a))
      <4>1. i - Len(a) \in 1 .. Len(b) /\ (i - Len(a)) + Len(a) = i
        BY <1>1, <3>2
      <4>2. i - Len(a) \in B
        BY <1>1, <2>1, <4>1
      <4> QED
        BY <4>1, <4>2
    <3> QED
      BY <3>1, <3>2
  <2>2. ASSUME NEW i \in A PROVE i \in C
    BY <1>1
  <2>3. ASSUME NEW i \in B PROVE i + Len(a) \in C
    <3>1. i \in 1 .. Len(b) /\ i + Len(a) \in 1 .. Len(a) + Len(b)
      BY <1>1
    <3> QED
      BY <1>1, <3>1
  <2> QED
    BY <2>1, <2>2, <2>3
<1>6. A \cap D = {}
  BY <1>1
<1> HIDE DEF A, B, C, D
<1>7. Cardinality(A \cup D) = Cardinality(A) + Cardinality(D) - Cardinality(A \cap D)
  BY <1>2, <1>3, FS_Union
<1>8. Cardinality(C) = Cardinality(A) + Cardinality(B)
  <2>1. Cardinality(A) \in Nat /\ Cardinality(B) \in Nat /\ Cardinality(A \cap D) = 0
    BY <1>2, <1>6, FS_EmptySet, FS_CardinalityType
  <2> QED
    BY <1>3, <1>5, <1>7, <2>1
<1> QED
  BY <1>8 DEF Num, A, B, C

LEMMA NumShort ==
  ASSUME NEW K
  PROVE  /\ Num(<<>>, K) = 0
         /\ \A e : Num(<<e>>, K) = IF e \in K THEN 1 ELSE 0
<1>1. {i \in DOMAIN <<>> : <<>>[i] \in K} = {}
  OBVIOUS
<1>2. ASSUME NEW e
      PROVE  {i \in DOMAIN <<e>> : <<e>>[i] \in K} = IF e \in K THEN {1} ELSE {}
  OBVIOUS
<1> QED
  BY <1>1, <1>2, FS_EmptySet, FS_Singleton DEF Num

(* What section 25 subtracts from what: DATA frames that were not decoded, *)
(* ACKs that were not, RTS attempts without an answer or a timeout, and    *)
(* CTS that opened a transfer less the transfers.                          *)
Ones(es, type) == Num(es, Kind({type}))
Already == {e \in Kind({"cts_rx"}) : e.why = "already_received"}
Net(es, w, x, y, z) ==
  /\ es \in Seq(Events)
  /\ w = Ones(es, "data_tx") - Ones(es, "data_rx")
  /\ x = Ones(es, "ack_tx") - Ones(es, "ack_rx")
  /\ y = Ones(es, "rts_tx") + Ones(es, "rts_retry") - Ones(es, "cts_rx")
         - Ones(es, "rts_attempt_timeout")
  /\ z = Ones(es, "data_tx") + Num(es, Already) - Ones(es, "cts_rx")

LEMMA NetConcat ==
  ASSUME NEW a, NEW b, NEW w1, NEW x1, NEW y1, NEW z1, NEW w2, NEW x2, NEW y2, NEW z2,
         Net(a, w1, x1, y1, z1), Net(b, w2, x2, y2, z2)
  PROVE  Net(a \o b, w1 + w2, x1 + x2, y1 + y2, z1 + z2)
<1>1. a \in Seq(Events) /\ b \in Seq(Events)
  BY DEF Net
<1>2. ASSUME NEW K
      PROVE  /\ Num(a, K) \in Nat /\ Num(b, K) \in Nat
             /\ Num(a \o b, K) = Num(a, K) + Num(b, K)
  BY <1>1, NumIs, NumConcat
<1>3. ASSUME NEW type
      PROVE  /\ Ones(a, type) \in Nat /\ Ones(b, type) \in Nat
             /\ Ones(a \o b, type) = Ones(a, type) + Ones(b, type)
  BY <1>2 DEF Ones
<1>4. a \o b \in Seq(Events)
  BY <1>1, ConcatProperties
<1>5. /\ w1 = Ones(a, "data_tx") - Ones(a, "data_rx")
      /\ w2 = Ones(b, "data_tx") - Ones(b, "data_rx")
      /\ x1 = Ones(a, "ack_tx") - Ones(a, "ack_rx")
      /\ x2 = Ones(b, "ack_tx") - Ones(b, "ack_rx")
  BY DEF Net
<1>6. /\ y1 = Ones(a, "rts_tx") + Ones(a, "rts_retry") - Ones(a, "cts_rx")
               - Ones(a, "rts_attempt_timeout")
      /\ y2 = Ones(b, "rts_tx") + Ones(b, "rts_retry") - Ones(b, "cts_rx")
               - Ones(b, "rts_attempt_timeout")
      /\ z1 = Ones(a, "data_tx") + Num(a, Already) - Ones(a, "cts_rx")
      /\ z2 = Ones(b, "data_tx") + Num(b, Already) - Ones(b, "cts_rx")
  BY DEF Net
<1>7. w1 + w2 = Ones(a \o b, "data_tx") - Ones(a \o b, "data_rx")
  BY <1>3, <1>5
<1>8. x1 + x2 = Ones(a \o b, "ack_tx") - Ones(a \o b, "ack_rx")
  BY <1>3, <1>5
<1>9. y1 + y2 = Ones(a \o b, "rts_tx") + Ones(a \o b, "rts_retry") - Ones(a \o b, "cts_rx")
                - Ones(a \o b, "rts_attempt_timeout")
  BY <1>3, <1>6
<1>10. z1 + z2 = Ones(a \o b, "data_tx") + Num(a \o b, Already) - Ones(a \o b, "cts_rx")
  <2>1. Num(a \o b, Already) = Num(a, Already) + Num(b, Already)
        /\ Num(a, Already) \in Nat /\ Num(b, Already) \in Nat
    BY <1>2
  <2> QED
    BY <1>3, <1>6, <2>1
<1> QED
  BY <1>4, <1>7, <1>8, <1>9, <1>10 DEF Net

LEMMA NetEmpty == Net(<<>>, 0, 0, 0, 0)
<1>1. <<>> \in Seq(Events) /\ \A K : Num(<<>>, K) = 0
  BY NumShort
<1> QED
  BY <1>1 DEF Net, Ones

(* Each event of a kind section 25 does not subtract weighs nothing.       *)
Plus(type)  == IF type = "data_tx" THEN 1 ELSE IF type = "data_rx" THEN -1 ELSE 0
Acked(type) == IF type = "ack_tx" THEN 1 ELSE IF type = "ack_rx" THEN -1 ELSE 0
Tries(type) ==
  IF type \in {"rts_tx", "rts_retry"} THEN 1
  ELSE IF type \in {"cts_rx", "rts_attempt_timeout"} THEN -1 ELSE 0
Opens(e) ==
  IF e.type = "data_tx" THEN 1
  ELSE IF e.type = "cts_rx" /\ e.why # "already_received" THEN -1 ELSE 0

LEMMA NetOne ==
  ASSUME NEW e \in Events
  PROVE  Net(<<e>>, Plus(e.type), Acked(e.type), Tries(e.type), Opens(e))
<1>1. ASSUME NEW type
      PROVE  Ones(<<e>>, type) = IF e.type = type THEN 1 ELSE 0
  BY NumShort DEF Ones, Kind
<1>2. Num(<<e>>, Already) = IF e.type = "cts_rx" /\ e.why = "already_received" THEN 1 ELSE 0
  BY NumShort DEF Already, Kind
<1>3. <<e>> \in Seq(Events)
  OBVIOUS
<1>4. Plus(e.type) = Ones(<<e>>, "data_tx") - Ones(<<e>>, "data_rx")
  BY <1>1 DEF Plus
<1>5. Acked(e.type) = Ones(<<e>>, "ack_tx") - Ones(<<e>>, "ack_rx")
  BY <1>1 DEF Acked
<1>6. Tries(e.type) = Ones(<<e>>, "rts_tx") + Ones(<<e>>, "rts_retry") - Ones(<<e>>, "cts_rx")
                      - Ones(<<e>>, "rts_attempt_timeout")
  BY <1>1 DEF Tries
<1>7. Opens(e) = Ones(<<e>>, "data_tx") + Num(<<e>>, Already) - Ones(<<e>>, "cts_rx")
  BY <1>1, <1>2 DEF Opens
<1> QED
  BY <1>3, <1>4, <1>5, <1>6, <1>7 DEF Net

LEMMA NetTwo ==
  ASSUME NEW e \in Events, NEW f \in Events
  PROVE  Net(<<e, f>>, Plus(e.type) + Plus(f.type), Acked(e.type) + Acked(f.type),
             Tries(e.type) + Tries(f.type), Opens(e) + Opens(f))
<1>1. <<e, f>> = <<e>> \o <<f>>
  <2>1. <<e>> \in Seq(Events) /\ <<f>> \in Seq(Events) /\ Len(<<e>>) = 1 /\ Len(<<f>>) = 1
    OBVIOUS
  <2>2. <<e>> \o <<f>> \in Seq(Events) /\ Len(<<e>> \o <<f>>) = 2
        /\ (<<e>> \o <<f>>)[1] = e /\ (<<e>> \o <<f>>)[2] = f
    BY <2>1, ConcatProperties
  <2>3. <<e, f>> \in Seq(Events) /\ Len(<<e, f>>) = 2 /\ <<e, f>>[1] = e /\ <<e, f>>[2] = f
    OBVIOUS
  <2>4. \A i \in 1 .. 2 : (<<e>> \o <<f>>)[i] = <<e, f>>[i]
    BY <2>2, <2>3
  <2> QED
    BY <2>2, <2>3, <2>4, SeqEqual
<1>2. Net(<<e>> \o <<f>>, Plus(e.type) + Plus(f.type), Acked(e.type) + Acked(f.type),
          Tries(e.type) + Tries(f.type), Opens(e) + Opens(f))
  BY NetOne, NetConcat
<1> QED
  BY <1>1, <1>2

(* 1 while an RTS of p waits for its CTS.                                  *)
Busy(p) == IF p # None /\ ~p.data THEN 1 ELSE 0

(* A failed hop tells of an RTS if and only if it goes on with one.        *)
LEMMA NetHopEnds ==
  ASSUME NEW n, NEW m, NEW before, NEW q, NEW p, NEW evs, HopEnds(n, m, before, q, p, evs),
         NEW w \in Int, NEW x \in Int, NEW y \in Int, NEW z \in Int, Net(before, w, x, y, z)
  PROVE  Net(evs, w, x, y + Busy(p), z)
<1>1. CASE Retried(n, m, before, q, p, evs)
  <2>1. PICK e : Says(e, "rts_retry", m) /\ evs = before \o <<e>>
    BY <1>1 DEF Retried
  <2>2. Net(<<e>>, 0, 0, 1, 0)
    BY <2>1, NetOne DEF Says, Plus, Acked, Tries, Opens
  <2>3. Net(evs, w + 0, x + 0, y + 1, z + 0)
    BY <2>1, <2>2, NetConcat
  <2>4. Busy(p) = 1
    BY <1>1 DEF Retried, Busy
  <2> QED
    BY <2>3, <2>4
<1>2. CASE Cascaded(n, m, before, q, p, evs)
  <2>1. PICK e, f : Says(e, "path_cascade", m) /\ Says(f, "rts_retry", m) /\ evs = before \o <<e, f>>
    BY <1>2 DEF Cascaded
  <2>2. Net(<<e, f>>, 0, 0, 1, 0)
    <3>1. e \in Events /\ f \in Events
      BY <2>1 DEF Says
    <3>2. /\ Plus(e.type) + Plus(f.type) = 0 /\ Acked(e.type) + Acked(f.type) = 0
          /\ Tries(e.type) + Tries(f.type) = 1 /\ Opens(e) + Opens(f) = 0
      BY <2>1 DEF Says, Plus, Acked, Tries, Opens
    <3>3. Net(<<e, f>>, Plus(e.type) + Plus(f.type), Acked(e.type) + Acked(f.type),
              Tries(e.type) + Tries(f.type), Opens(e) + Opens(f))
      BY <3>1, NetTwo
    <3> QED
      BY <3>2, <3>3
  <2>3. Net(evs, w + 0, x + 0, y + 1, z + 0)
    BY <2>1, <2>2, NetConcat
  <2>4. Busy(p) = 1
    BY <1>2 DEF Cascaded, Busy
  <2> QED
    BY <2>3, <2>4
<1>3. CASE Requeued(n, m, before, q, p, evs)
  <2>1. PICK e : Says(e, "cascade_requeue", m) /\ evs = before \o <<e>>
    BY <1>3 DEF Requeued
  <2>2. Net(<<e>>, 0, 0, 0, 0)
    BY <2>1, NetOne DEF Says, Plus, Acked, Tries, Opens
  <2>3. Net(evs, w + 0, x + 0, y + 0, z + 0)
    BY <2>1, <2>2, NetConcat
  <2>4. Busy(p) = 0
    BY <1>3 DEF Requeued, Busy
  <2> QED
    BY <2>3, <2>4
<1>4. CASE GivenUp(n, m, before, q, p, evs)
  <2>1. PICK e, f : /\ Says(e, "path_cascade_exhausted", m)
                    /\ Says(f, "rts_giveup", m) \/ Says(f, "data_ack_giveup", m)
                    /\ evs = before \o <<e, f>>
    BY <1>4 DEF GivenUp
  <2>2. Net(<<e, f>>, 0, 0, 0, 0)
    <3>1. e \in Events /\ f \in Events
      BY <2>1 DEF Says
    <3>2. /\ Plus(e.type) + Plus(f.type) = 0 /\ Acked(e.type) + Acked(f.type) = 0
          /\ Tries(e.type) + Tries(f.type) = 0 /\ Opens(e) + Opens(f) = 0
      BY <2>1 DEF Says, Plus, Acked, Tries, Opens
    <3>3. Net(<<e, f>>, Plus(e.type) + Plus(f.type), Acked(e.type) + Acked(f.type),
              Tries(e.type) + Tries(f.type), Opens(e) + Opens(f))
      BY <3>1, NetTwo
    <3> QED
      BY <3>2, <3>3
  <2>3. Net(evs, w + 0, x + 0, y + 0, z + 0)
    BY <2>1, <2>2, NetConcat
  <2>4. Busy(p) = 0
    BY <1>4 DEF GivenUp, Busy
  <2> QED
    BY <2>3, <2>4
<1> QED
  BY <1>1, <1>2, <1>3, <1>4 DEF HopEnds

(* So does a node that goes on with the next item of its queue.            *)
LEMMA NetActs ==
  ASSUME Typed, now' \in Nat, NEW n, NEW q, NEW p, NEW evs, Proper(n, q, p, evs),
         NEW told, Acts(n, q, p, evs, told),
         NEW w \in Int, NEW x \in Int, NEW y \in Int, NEW z \in Int, Net(evs, w, x, y, z)
  PROVE  Net(told, w, x, y + Busy(px'[n]) - Busy(p), z)
<1>1. CASE px'[n] = p /\ told = evs
  <2>1. Busy(p) \in Int
    BY DEF Busy
  <2> QED
    BY <1>1, <2>1
<1>2. ASSUME p = None, NEW i \in DOMAIN q, px'[n] = Pending(n, q[i]),
             told = evs \o <<FirstRts(n, Pending(n, q[i]))>>
      PROVE  Net(told, w, x, y + Busy(px'[n]) - Busy(p), z)
  <2>1. n \in Nodes /\ q \in Seq(Items) /\ Fits(n, q[i].m, q[i].prev)
    BY <1>2 DEF Proper
  <2>2. q[i] \in Items
    BY <1>2, <2>1, LenProperties, ElementOfSeq
  <2> DEFINE next == Pending(n, q[i])
             e == FirstRts(n, next)
  <2>3. next \in OpenFlights /\ next # None /\ ~next.data
    BY <2>1, <2>2, PendingIs
  <2>4. e \in Events /\ e.type = "rts_tx"
    BY <2>1, <2>3, RtsIs
  <2>5. Busy(px'[n]) = 1 /\ Busy(p) = 0
    BY <1>2, <2>3 DEF Busy
  <2> HIDE DEF e
  <2>6. Net(<<e>>, 0, 0, 1, 0)
    BY <2>4, NetOne DEF Plus, Acked, Tries, Opens
  <2>7. Net(told, w + 0, x + 0, y + 1, z + 0)
    BY <1>2, <2>6, NetConcat DEF e
  <2> QED
    BY <2>5, <2>7
<1> QED
  BY <1>1, <1>2 DEF Acts

Waiting == {n \in Nodes : Waits(n)}
Ledger == Net(log, Cardinality(air) + lost.data, lost.ack, Cardinality(Waiting), 0)

LEMMA OneApart ==
  ASSUME NEW S, NEW T, NEW x, IsFiniteSet(S), S \ {x} = T \ {x}
  PROVE  /\ IsFiniteSet(T)
         /\ Cardinality(T) = Cardinality(S) + (IF x \in T THEN 1 ELSE 0) - (IF x \in S THEN 1 ELSE 0)
<1>1. IsFiniteSet(S \ {x}) /\ Cardinality(S) \in Nat /\ Cardinality(S \ {x}) \in Nat
      /\ Cardinality(S \ {x}) = IF x \in S THEN Cardinality(S) - 1 ELSE Cardinality(S)
  BY FS_RemoveElement, FS_CardinalityType
<1>2. CASE x \in T
  <2>1. T = (S \ {x}) \cup {x} /\ x \notin S \ {x}
    BY <1>2
  <2>2. IsFiniteSet(T) /\ Cardinality(T) = Cardinality(S \ {x}) + 1
    <3> DEFINE U == S \ {x}
    <3> HIDE DEF U
    <3>1. IsFiniteSet(U \cup {x}) /\ Cardinality(U \cup {x}) = IF x \in U THEN Cardinality(U) ELSE Cardinality(U) + 1
      BY <1>1, FS_AddElement DEF U
    <3> QED
      BY <2>1, <3>1 DEF U
  <2> QED
    BY <1>1, <1>2, <2>2
<1>3. CASE x \notin T
  <2>1. T = S \ {x}
    BY <1>3
  <2> QED
    BY <1>1, <1>3, <2>1
<1> QED
  BY <1>2, <1>3

LEMMA BusyIs ==
  ASSUME NEW n \in Nodes
  PROVE  Busy(px[n]) = (IF n \in Waiting THEN 1 ELSE 0)
         /\ Busy(px'[n]) = (IF n \in Waiting' THEN 1 ELSE 0)
BY DEF Busy, Waiting, Waits

LEMMA WaitingIs == IsFiniteSet(Waiting) /\ Cardinality(Waiting) \in Nat
<1>1. Waiting \in SUBSET Nodes /\ IsFiniteSet(Nodes)
  BY Constants DEF Waiting
<1> QED
  BY <1>1, FS_Subset, FS_CardinalityType

LEMMA TurnWaiting ==
  ASSUME NEW n \in Nodes, \A x \in Nodes \ {n} : Stays(x)
  PROVE  Cardinality(Waiting') = Cardinality(Waiting) + Busy(px'[n]) - Busy(px[n])
<1>1. Waiting \ {n} = Waiting' \ {n}
  BY DEF Waiting, Waits, Stays
<1>2. Cardinality(Waiting') = Cardinality(Waiting) + (IF n \in Waiting' THEN 1 ELSE 0)
                              - (IF n \in Waiting THEN 1 ELSE 0)
  BY <1>1, WaitingIs, OneApart
<1> QED
  BY <1>2, BusyIs

LEMMA AirIs ==
  ASSUME Legal
  PROVE  /\ lost.data \in Nat /\ lost.ack \in Nat /\ Cardinality(air) \in Nat
         /\ \A f \in air : Cardinality(air \ {f}) = Cardinality(air) - 1
         /\ \A f : f \notin air => Cardinality(air \cup {f}) = Cardinality(air) + 1
<1>1. IsFiniteSet(air) /\ lost \in [data : Nat, ack : Nat]
  BY DEF Legal, Typed
<1> QED
  BY <1>1, LostIs, FS_CardinalityType, FS_RemoveElement, FS_AddElement

(* What the events of one node's step weigh is what the step changes.      *)
LEMMA OneNodeNet ==
  ASSUME Legal, NEW n, NEW q, NEW p, NEW evs, NEW told, OneNode(n, q, p, evs, told)
  PROVE  Net(evs, Cardinality(air') + lost'.data - Cardinality(air) - lost.data,
             lost'.ack - lost.ack, Busy(p) - Busy(px[n]), 0)
<1>1. /\ n \in Nodes /\ Typed /\ evs \in Seq(Events)
      /\ \A f \in air : f.from = n => px[n] # None /\ px[n].data
  BY DEF OneNode, Proper, Legal, Routed
<1>2. /\ lost.data \in Nat /\ lost.ack \in Nat /\ Cardinality(air) \in Nat
      /\ lost \in [data : Nat, ack : Nat]
  BY AirIs DEF Legal, Typed
<1> DEFINE Goal(w, x, y) ==
             /\ w = Cardinality(air') + lost'.data - Cardinality(air) - lost.data
             /\ x = lost'.ack - lost.ack /\ y = Busy(p) - Busy(px[n])
           Done == Net(evs, Cardinality(air') + lost'.data - Cardinality(air) - lost.data,
                       lost'.ack - lost.ack, Busy(p) - Busy(px[n]), 0)
<1> SUFFICES Done
  OBVIOUS
<1>3. ASSUME NEW w \in Int, NEW x \in Int, NEW y \in Int, Net(evs, w, x, y, 0), Goal(w, x, y)
      PROVE  Done
  BY <1>3
<1>4. CASE Posts(n, q, p, evs)
  <2>1. PICK m, e : Says(e, "tx_enqueue", m) /\ evs = <<e>>
    BY <1>4 DEF Posts
  <2>2. Net(evs, 0, 0, 0, 0)
    BY <2>1, NetOne DEF Says, Plus, Acked, Tries, Opens
  <2>3. Goal(0, 0, 0)
    BY <1>2, <1>4 DEF Posts, Busy
  <2> QED
    BY <1>3, <2>2, <2>3
<1>5. CASE GoesOut(n, q, p, evs)
  <2>1. PICK e, f : /\ Says(e, "cts_rx", px[n].m) /\ e.why = None
                    /\ Says(f, "data_tx", px[n].m) /\ evs = <<e, f>>
    BY <1>5 DEF GoesOut
  <2>2. Net(evs, 1, 0, -1, 0)
    <3>1. e \in Events /\ f \in Events
      BY <2>1 DEF Says
    <3>2. /\ Plus(e.type) + Plus(f.type) = 1 /\ Acked(e.type) + Acked(f.type) = 0
          /\ Tries(e.type) + Tries(f.type) = -1 /\ Opens(e) + Opens(f) = 0
      BY <2>1, Constants DEF Says, Plus, Acked, Tries, Opens
    <3>3. Net(<<e, f>>, Plus(e.type) + Plus(f.type), Acked(e.type) + Acked(f.type),
              Tries(e.type) + Tries(f.type), Opens(e) + Opens(f))
      BY <3>1, NetTwo
    <3> QED
      BY <2>1, <3>2, <3>3
  <2>3. Goal(1, 0, -1)
    <3> DEFINE f0 == [from |-> n, to |-> px[n].next, m |-> px[n].m]
    <3>1. air' = air \cup {f0} /\ lost' = lost /\ Waits(n) /\ p # None /\ p.data
      BY <1>5 DEF GoesOut, Like
    <3>2. f0 \notin air
      BY <1>1, <3>1 DEF Waits
    <3> HIDE DEF f0
    <3>3. Cardinality(air') = Cardinality(air) + 1
      BY <3>1, <3>2, AirIs
    <3> QED
      BY <1>2, <3>1, <3>3 DEF Waits, Busy
  <2> QED
    BY <1>3, <2>2, <2>3
<1>6. CASE Skips(n, q, p, evs)
  <2>1. PICK e : Says(e, "cts_rx", px[n].m) /\ e.why = "already_received" /\ evs = <<e>>
    BY <1>6 DEF Skips
  <2>2. Net(evs, 0, 0, -1, 0)
    BY <2>1, NetOne DEF Says, Plus, Acked, Tries, Opens
  <2>3. Goal(0, 0, -1)
    BY <1>2, <1>6 DEF Skips, Waits, Busy
  <2> QED
    BY <1>3, <2>2, <2>3
<1>7. CASE NoCts(n, q, p, evs)
  <2>1. PICK e : Says(e, "rts_attempt_timeout", px[n].m) /\ HopEnds(n, px[n].m, <<e>>, q, p, evs)
    BY <1>7 DEF NoCts
  <2>2. Net(<<e>>, 0, 0, -1, 0)
    BY <2>1, NetOne DEF Says, Plus, Acked, Tries, Opens
  <2>3. Net(evs, 0, 0, -1 + Busy(p), 0)
    BY <2>1, <2>2, NetHopEnds
  <2>4. Goal(0, 0, -1 + Busy(p)) /\ -1 + Busy(p) \in Int
    BY <1>2, <1>7 DEF NoCts, Waits, Busy
  <2> QED
    BY <1>3, <2>3, <2>4
<1>8. CASE NoAck(n, q, p, evs)
  <2>1. HopEnds(n, px[n].m, <<>>, q, p, evs)
    BY <1>8 DEF NoAck
  <2>2. Net(evs, 0, 0, 0 + Busy(p), 0)
    BY <2>1, NetEmpty, NetHopEnds
  <2>3. Goal(0, 0, 0 + Busy(p)) /\ 0 + Busy(p) \in Int
    BY <1>2, <1>8 DEF NoAck, Busy
  <2> QED
    BY <1>3, <2>2, <2>3
<1>9. CASE Repeats(n, q, p, evs)
  <2>0. PICK f \in air :
          /\ n = f.from /\ seen[f.to][f.m] # None /\ air' = air \ {f}
          /\ \E e1, e2 : /\ Says(e1, "data_rx", f.m) /\ Says(e2, "dup_drop", f.m)
                         /\ Echo(n, f, e1, e2, q, p, evs)
    BY <1>9 DEF Repeats
  <2>1. PICK e1, e2 : /\ Says(e1, "data_rx", f.m) /\ Says(e2, "dup_drop", f.m)
                      /\ Echo(n, f, e1, e2, q, p, evs)
    BY <2>0
  <2>2. Cardinality(air') = Cardinality(air) - 1 /\ Busy(px[n]) = 0
    BY <1>1, <2>0, AirIs DEF Busy
  <2>3. Net(<<e1, e2>>, -1, 0, 0, 0) /\ e1 \in Events /\ e2 \in Events
    <3>1. e1 \in Events /\ e2 \in Events
      BY <2>1 DEF Says
    <3>2. /\ Plus(e1.type) + Plus(e2.type) = -1 /\ Acked(e1.type) + Acked(e2.type) = 0
          /\ Tries(e1.type) + Tries(e2.type) = 0 /\ Opens(e1) + Opens(e2) = 0
      BY <2>1 DEF Says, Plus, Acked, Tries, Opens
    <3>3. Net(<<e1, e2>>, Plus(e1.type) + Plus(e2.type), Acked(e1.type) + Acked(e2.type),
              Tries(e1.type) + Tries(e2.type), Opens(e1) + Opens(e2))
      BY <3>1, NetTwo
    <3> QED
      BY <3>1, <3>2, <3>3
  <2>4. ASSUME NEW e3 \in Events
        PROVE  <<e1, e2, e3>> = <<e1, e2>> \o <<e3>>
    <3>1. <<e1, e2>> \in Seq(Events) /\ Append(<<e1, e2>>, e3) = <<e1, e2>> \o <<e3>>
      BY <2>3, AppendIsConcat
    <3> QED
      BY <2>3, <3>1, Strings
  <2>5. ASSUME NEW e3, Says(e3, "ack_tx", f.m), evs = <<e1, e2, e3>>, p = px[n],
               lost' = [lost EXCEPT !.ack = @ + 1]
        PROVE  Done
    <3>1. Net(<<e3>>, 0, 1, 0, 0) /\ e3 \in Events
      BY <2>5, NetOne DEF Says, Plus, Acked, Tries, Opens
    <3>2. Net(<<e1, e2>> \o <<e3>>, -1 + 0, 0 + 1, 0 + 0, 0 + 0)
      BY <2>3, <3>1, NetConcat
    <3>3. lost'.data = lost.data /\ lost'.ack = lost.ack + 1
      BY <1>2, <2>5, LostIs
    <3>4. Net(evs, -1, 1, 0, 0)
      <4>1. Net(evs, -1 + 0, 0 + 1, 0 + 0, 0 + 0)
        BY <2>4, <2>5, <3>1, <3>2
      <4> QED
        BY <4>1
    <3>5. Goal(-1, 1, 0)
      BY <1>2, <2>2, <2>5, <3>3
    <3> QED
      BY <1>3, <3>4, <3>5
  <2>6. ASSUME NEW e3, NEW e4, Says(e3, "ack_tx", f.m), Says(e4, "ack_rx", f.m),
               evs = <<e1, e2, e3, e4>>, p = None, lost' = lost
        PROVE  Done
    <3>1. e3 \in Events /\ e4 \in Events
      BY <2>6 DEF Says
    <3>2. /\ Plus(e3.type) + Plus(e4.type) = 0 /\ Acked(e3.type) + Acked(e4.type) = 0
          /\ Tries(e3.type) + Tries(e4.type) = 0 /\ Opens(e3) + Opens(e4) = 0
      BY <2>6 DEF Says, Plus, Acked, Tries, Opens
    <3>3. Net(<<e3, e4>>, Plus(e3.type) + Plus(e4.type), Acked(e3.type) + Acked(e4.type),
              Tries(e3.type) + Tries(e4.type), Opens(e3) + Opens(e4))
      BY <3>1, NetTwo
    <3>4. Net(<<e3, e4>>, 0, 0, 0, 0)
      BY <3>2, <3>3
    <3>5. Net(<<e1, e2>> \o <<e3, e4>>, -1 + 0, 0 + 0, 0 + 0, 0 + 0)
      BY <2>3, <3>4, NetConcat
    <3>6. Net(evs, -1, 0, 0, 0)
      <4>1. evs = <<e1, e2>> \o <<e3, e4>>
        BY <2>3, <2>6, <3>1, Strings
      <4>2. Net(evs, -1 + 0, 0 + 0, 0 + 0, 0 + 0)
        BY <3>5, <4>1
      <4> QED
        BY <4>2
    <3>7. Goal(-1, 0, 0)
      <4>1. Busy(p) = 0
        BY <2>6 DEF Busy
      <4> QED
        BY <1>2, <2>2, <2>6, <4>1
    <3> QED
      BY <1>3, <3>6, <3>7
  <2>7. ASSUME p = px[n], lost' = lost, evs = <<e1, e2>>
        PROVE  Done
    <3>1. Goal(-1, 0, 0)
      BY <1>2, <2>2, <2>7
    <3> QED
      BY <1>3, <2>3, <2>7, <3>1
  <2>8. ASSUME NEW e3, Says(e3, "nack_rx", f.m), HopEnds(n, f.m, <<e1, e2, e3>>, q, p, evs),
               lost' = lost
        PROVE  Done
    <3>1. Net(<<e3>>, 0, 0, 0, 0) /\ e3 \in Events
      BY <2>8, NetOne DEF Says, Plus, Acked, Tries, Opens
    <3>2. Net(<<e1, e2>> \o <<e3>>, -1 + 0, 0 + 0, 0 + 0, 0 + 0)
      BY <2>3, <3>1, NetConcat
    <3>3. Net(<<e1, e2, e3>>, -1, 0, 0, 0)
      <4>1. Net(<<e1, e2, e3>>, -1 + 0, 0 + 0, 0 + 0, 0 + 0)
        BY <2>4, <3>1, <3>2
      <4> QED
        BY <4>1
    <3>4. Net(evs, -1, 0, 0 + Busy(p), 0)
      BY <2>8, <3>3, NetHopEnds
    <3>5. Goal(-1, 0, 0 + Busy(p)) /\ 0 + Busy(p) \in Int
      BY <1>2, <2>2, <2>8 DEF Busy
    <3> QED
      BY <1>3, <3>4, <3>5
  <2> HIDE DEF Done
  <2> QED
    BY <2>1, <2>5, <2>6, <2>7, <2>8 DEF Echo
<1> QED
  BY <1>4, <1>5, <1>6, <1>7, <1>8, <1>9 DEF OneNode

LEMMA OneNodeLedger ==
  ASSUME Legal, Ledger, NEW n, NEW q, NEW p, NEW evs, NEW told, OneNode(n, q, p, evs, told)
  PROVE  Ledger'
<1> DEFINE w == Cardinality(air') + lost'.data - Cardinality(air) - lost.data
           x == lost'.ack - lost.ack
           y == Busy(p) - Busy(px[n])
<1>0. /\ Proper(n, q, p, evs) /\ Turn(n, q, p, evs, told) /\ n \in Nodes
      /\ told \in Seq(Events) /\ Legal' /\ Typed
  BY OneNodeLegal DEF OneNode, Proper, Legal
<1>1. now' \in Nat
  BY <1>0 DEF Legal, Typed
<1>2. /\ lost.data \in Nat /\ lost.ack \in Nat /\ Cardinality(air) \in Nat
      /\ lost'.data \in Nat /\ lost'.ack \in Nat /\ Cardinality(air') \in Nat
  <2>1. IsFiniteSet(air') /\ lost' \in [data : Nat, ack : Nat]
    BY <1>0 DEF Legal, Typed
  <2>2. lost'.data \in Nat /\ lost'.ack \in Nat
    BY <2>1
  <2> QED
    BY <2>1, <2>2, AirIs, FS_CardinalityType
<1>3. Busy(p) \in Int /\ Busy(px[n]) \in Int /\ Busy(px'[n]) \in Int /\ y \in Int
  BY DEF Busy
<1>4. Net(evs, w, x, y, 0)
  BY OneNodeNet
<1>5. Net(told, w, x, y + Busy(px'[n]) - Busy(p), 0)
  <2>1. w \in Int /\ x \in Int /\ 0 \in Int
    BY <1>2
  <2>2. Acts(n, q, p, evs, told)
    BY <1>0 DEF Turn
  <2> HIDE DEF w, x, y
  <2> QED
    BY <1>0, <1>1, <1>3, <1>4, <2>1, <2>2, NetActs
<1>6. Net(log \o told, Cardinality(air) + lost.data + w, lost.ack + x,
          Cardinality(Waiting) + (y + Busy(px'[n]) - Busy(p)), 0 + 0)
  BY <1>5, NetConcat DEF Ledger
<1>7. Cardinality(Waiting') = Cardinality(Waiting) + Busy(px'[n]) - Busy(px[n])
  BY <1>0, TurnWaiting DEF Turn
<1>8. /\ Cardinality(air) + lost.data + w = Cardinality(air') + lost'.data
      /\ lost.ack + x = lost'.ack
      /\ Cardinality(Waiting) + (y + Busy(px'[n]) - Busy(p)) = Cardinality(Waiting')
  BY <1>2, <1>3, <1>7, WaitingIs
<1>9. log' = log \o told
  BY <1>0 DEF Turn
<1> HIDE DEF w, x, y
<1>10. Net(log', Cardinality(air') + lost'.data, lost'.ack, Cardinality(Waiting'), 0)
  BY <1>6, <1>8, <1>9
<1> QED
  BY <1>10 DEF Ledger

LEMMA TakesNet ==
  ASSUME Legal, NEW f \in air, NEW b, Takes(f, b)
  PROVE  Net(b, 0, 0, Busy(px'[f.to]) - Busy(px[f.to]), 0)
<1>1. Busy(px'[f.to]) \in Int /\ Busy(px[f.to]) \in Int
  BY DEF Busy
<1>2. CASE Stays(f.to) /\ \E e : Says(e, "delivered", f.m) /\ b = <<e>>
  <2>1. PICK e : Says(e, "delivered", f.m) /\ b = <<e>>
    BY <1>2
  <2>2. Net(b, 0, 0, 0, 0)
    BY <2>1, NetOne DEF Says, Plus, Acked, Tries, Opens
  <2>3. Busy(px'[f.to]) - Busy(px[f.to]) = 0
    BY <1>1, <1>2 DEF Stays
  <2> QED
    BY <2>2, <2>3
<1>3. CASE Stays(f.to) /\ b = <<>>
  <2>1. Busy(px'[f.to]) - Busy(px[f.to]) = 0
    BY <1>1, <1>3 DEF Stays
  <2> QED
    BY <1>3, <2>1, NetEmpty
<1>4. ASSUME NEW q, NEW p, Acts(f.to, q, p, b, b), px[f.to] = None, p # None, ~p.data,
             NEW e, Says(e, "rts_tx", f.m), b = <<e>>
      PROVE  Net(b, 0, 0, Busy(px'[f.to]) - Busy(px[f.to]), 0)
  <2>1. Net(b, 0, 0, 1, 0)
    BY <1>4, NetOne DEF Says, Plus, Acked, Tries, Opens
  <2>2. px'[f.to] = p
    BY <1>4 DEF Acts
  <2>3. Busy(px'[f.to]) - Busy(px[f.to]) = 1
    BY <1>4, <2>2 DEF Busy
  <2> QED
    BY <2>1, <2>3
<1>5. ASSUME NEW q, NEW p, Acts(f.to, q, p, b, b), px[f.to] # None, p = px[f.to], b = <<>>
      PROVE  Net(b, 0, 0, Busy(px'[f.to]) - Busy(px[f.to]), 0)
  <2>1. px'[f.to] = p
    BY <1>5 DEF Acts
  <2>2. Busy(px'[f.to]) - Busy(px[f.to]) = 0
    BY <1>1, <1>5, <2>1
  <2> QED
    BY <1>5, <2>2, NetEmpty
<1> QED
  BY <1>2, <1>3, <1>4, <1>5 DEF Takes

LEMMA ReceivesLedger ==
  ASSUME Legal, Ledger, NEW f \in air, NEW acked \in BOOLEAN, NEW a \in Seq(Events),
         NEW b \in Seq(Events), Receives(f, acked, a, b)
  PROVE  Ledger'
<1> DEFINE x == f.from
           y == f.to
           M == {n \in Nodes : IF n = x THEN n \in Waiting' ELSE n \in Waiting}
<1>1. /\ x \in Nodes /\ y \in Nodes /\ x # y /\ px[x] # None /\ px[x].data /\ Typed /\ Legal'
  BY FrameIs, ReceivesLegal DEF Legal
<1>2. now' \in Nat
  BY <1>1 DEF Legal, Typed
<1>3. /\ lost.data \in Nat /\ lost.ack \in Nat /\ Cardinality(air) \in Nat
      /\ Cardinality(air') = Cardinality(air) - 1
  BY AirIs DEF Receives
<1>4. Busy(px'[x]) \in Int /\ Busy(px[x]) = 0 /\ Busy(px'[y]) \in Int /\ Busy(px[y]) \in Int
  BY <1>1 DEF Busy
<1>5. Cardinality(Waiting') = Cardinality(Waiting) + Busy(px'[x]) + (Busy(px'[y]) - Busy(px[y]))
  <2>1. /\ \A n \in Nodes \ {x, y} : n \in Waiting <=> n \in Waiting'
        /\ Waiting \subseteq Nodes /\ Waiting' \subseteq Nodes
    BY DEF Receives, Stays, Waiting, Waits
  <2>2. Waiting \ {x} = M \ {x} /\ M \ {y} = Waiting' \ {y}
    BY <2>1
  <2>3. x \in M <=> x \in Waiting'
    BY <1>1
  <2>4. y \in M <=> y \in Waiting
    BY <1>1
  <2> HIDE DEF M
  <2>5. /\ IsFiniteSet(M)
        /\ Cardinality(M) = Cardinality(Waiting) + (IF x \in M THEN 1 ELSE 0)
                            - (IF x \in Waiting THEN 1 ELSE 0)
    BY <2>2, WaitingIs, OneApart
  <2>6. Cardinality(Waiting') = Cardinality(M) + (IF y \in Waiting' THEN 1 ELSE 0)
                                - (IF y \in M THEN 1 ELSE 0)
    BY <2>2, <2>5, OneApart
  <2>7. /\ Busy(px[x]) = (IF x \in Waiting THEN 1 ELSE 0)
        /\ Busy(px'[x]) = (IF x \in M THEN 1 ELSE 0)
        /\ Busy(px[y]) = (IF y \in M THEN 1 ELSE 0)
        /\ Busy(px'[y]) = (IF y \in Waiting' THEN 1 ELSE 0)
    BY <1>1, <2>3, <2>4, BusyIs
  <2> QED
    BY <1>4, <2>5, <2>6, <2>7, WaitingIs
<1>6. Net(a, 0, 0, Busy(px'[x]), 0)
  <2>1. CASE acked
    <3>1. Acts(x, queue[x], None, <<>>, a) /\ Proper(x, queue[x], None, <<>>)
      BY <1>1, <2>1, PxIs DEF Receives, Proper
    <3>2. Net(a, 0, 0, 0 + Busy(px'[x]) - Busy(None), 0)
      BY <1>1, <1>2, <3>1, NetEmpty, NetActs
    <3>3. Busy(None) = 0
      BY DEF Busy
    <3> QED
      BY <1>4, <3>2, <3>3
  <2>2. CASE ~acked
    <3>1. a = <<>> /\ Busy(px'[x]) = 0
      BY <1>4, <2>2 DEF Receives, Stays
    <3> QED
      BY <3>1, NetEmpty
  <2> QED
    BY <2>1, <2>2
<1>7. Net(b, 0, 0, Busy(px'[y]) - Busy(px[y]), 0)
  BY TakesNet DEF Receives
<1>8. PICK e1, e2, e3 :
        /\ Says(e1, "data_rx", f.m) /\ Says(e2, "ack_tx", f.m) /\ Says(e3, "ack_rx", f.m)
        /\ log' = log \o <<e1, e2>> \o (IF acked THEN <<e3>> ELSE <<>>) \o a \o b
  BY DEF Receives
<1> DEFINE c == IF acked THEN <<e3>> ELSE <<>>
           k == IF acked THEN -1 ELSE 0
<1>9. Net(<<e1, e2>>, -1, 1, 0, 0)
  <2>1. e1 \in Events /\ e2 \in Events
    BY <1>8 DEF Says
  <2>2. /\ Plus(e1.type) + Plus(e2.type) = -1 /\ Acked(e1.type) + Acked(e2.type) = 1
        /\ Tries(e1.type) + Tries(e2.type) = 0 /\ Opens(e1) + Opens(e2) = 0
    BY <1>8 DEF Says, Plus, Acked, Tries, Opens
  <2>3. Net(<<e1, e2>>, Plus(e1.type) + Plus(e2.type), Acked(e1.type) + Acked(e2.type),
            Tries(e1.type) + Tries(e2.type), Opens(e1) + Opens(e2))
    BY <2>1, NetTwo
  <2> QED
    BY <2>2, <2>3
<1>10. Net(c, 0, k, 0, 0)
  <2>1. Net(<<e3>>, 0, -1, 0, 0)
    BY <1>8, NetOne DEF Says, Plus, Acked, Tries, Opens
  <2> QED
    BY <2>1, NetEmpty
<1>11. lost'.data = lost.data /\ lost'.ack = lost.ack + 1 + k
  <2>1. lost \in [data : Nat, ack : Nat]
    BY <1>1 DEF Typed
  <2>2. CASE acked
    BY <1>3, <2>2 DEF Receives
  <2>3. CASE ~acked
    BY <1>3, <2>1, <2>3, LostIs DEF Receives
  <2> QED
    BY <2>2, <2>3
<1>12. k \in Int
  OBVIOUS
<1> HIDE DEF c, k
<1>13. Net(log \o <<e1, e2>> \o c \o a \o b,
           Cardinality(air) + lost.data + -1 + 0 + 0 + 0,
           lost.ack + 1 + k + 0 + 0,
           Cardinality(Waiting) + 0 + 0 + Busy(px'[x]) + (Busy(px'[y]) - Busy(px[y])),
           0 + 0 + 0 + 0 + 0)
  <2>1. Net(log \o <<e1, e2>>, Cardinality(air) + lost.data + -1, lost.ack + 1,
            Cardinality(Waiting) + 0, 0 + 0)
    BY <1>9, NetConcat DEF Ledger
  <2>2. Net(log \o <<e1, e2>> \o c, Cardinality(air) + lost.data + -1 + 0, lost.ack + 1 + k,
            Cardinality(Waiting) + 0 + 0, 0 + 0 + 0)
    BY <1>10, <2>1, NetConcat
  <2>3. Net(log \o <<e1, e2>> \o c \o a, Cardinality(air) + lost.data + -1 + 0 + 0,
            lost.ack + 1 + k + 0, Cardinality(Waiting) + 0 + 0 + Busy(px'[x]), 0 + 0 + 0 + 0)
    BY <1>6, <2>2, NetConcat
  <2> QED
    BY <1>7, <2>3, NetConcat
<1>14. /\ Cardinality(air) + lost.data + -1 + 0 + 0 + 0 = Cardinality(air') + lost'.data
       /\ lost.ack + 1 + k + 0 + 0 = lost'.ack
       /\ Cardinality(Waiting) + 0 + 0 + Busy(px'[x]) + (Busy(px'[y]) - Busy(px[y]))
            = Cardinality(Waiting')
       /\ 0 + 0 + 0 + 0 + 0 = 0
  <2>1. Cardinality(air) + lost.data + -1 + 0 + 0 + 0 = Cardinality(air') + lost'.data
    BY <1>3, <1>11, SMTT(30)
  <2>2. lost.ack + 1 + k + 0 + 0 = lost'.ack
    BY <1>3, <1>11, <1>12
  <2>3. Cardinality(Waiting) + 0 + 0 + Busy(px'[x]) + (Busy(px'[y]) - Busy(px[y]))
          = Cardinality(Waiting')
    BY <1>4, <1>5, WaitingIs
  <2> QED
    BY <2>1, <2>2, <2>3
<1>15. log' = log \o <<e1, e2>> \o c \o a \o b
  BY <1>8 DEF c
<1>16. Net(log', Cardinality(air') + lost'.data, lost'.ack, Cardinality(Waiting'), 0)
  BY <1>13, <1>14, <1>15
<1> QED
  BY <1>16 DEF Ledger

LEMMA LedgerStep ==
  ASSUME Legal, Ledger, [Next]_vars
  PROVE  Ledger'
<1>1. ASSUME NEW f \in air, Vanishes(f)
      PROVE  Ledger'
  <2>1. Waiting' = Waiting /\ log' = log
    BY <1>1 DEF Vanishes, Waiting, Waits
  <2>2. /\ Cardinality(air') = Cardinality(air) - 1 /\ Cardinality(air) \in Nat
        /\ lost'.data = lost.data + 1 /\ lost'.ack = lost.ack /\ lost.data \in Nat
    <3>1. lost \in [data : Nat, ack : Nat]
      BY DEF Legal, Typed
    <3> QED
      BY <1>1, <3>1, LostIs, AirIs DEF Vanishes
  <2>3. Cardinality(air') + lost'.data = Cardinality(air) + lost.data
    BY <2>2
  <2> QED
    BY <2>1, <2>2, <2>3 DEF Ledger
<1>2. CASE UNCHANGED vars
  BY <1>2 DEF vars, Ledger, Waiting, Waits
<1> QED
  BY <1>1, <1>2, StepIs, OneNodeLedger, ReceivesLedger

LEMMA LedgerInit ==
  ASSUME Init
  PROVE  Ledger
<1>1. Waiting = {} /\ air = {} /\ log = <<>> /\ lost = [data |-> 0, ack |-> 0]
  BY DEF Init, Waiting, Waits
<1>2. Cardinality({}) = 0
  BY FS_EmptySet
<1>3. Cardinality(air) + lost.data = 0 /\ lost.ack = 0 /\ Cardinality(Waiting) = 0
  BY <1>1, <1>2
<1> QED
  BY <1>1, <1>3, NetEmpty DEF Ledger

(* The numbers of section 25.                                              *)
LEMMA StagesFollow ==
  ASSUME Legal, Ledger
  PROVE  LossStagesAreTrue
<1>1. ASSUME NEW type
      PROVE  Count(log, {type}) = Ones(log, type) /\ Ones(log, type) \in Nat
  <2>1. log \in Seq(Events)
    BY DEF Legal, Typed
  <2>2. \A i \in DOMAIN log : log[i] \in Events
    BY <2>1, LenProperties, ElementOfSeq
  <2>3. Of(log, {type}) = {i \in DOMAIN log : log[i] \in Kind({type})}
    BY <2>2 DEF Of, Kind
  <2> QED
    BY <2>1, <2>3, NumIs DEF Count, Ones, Num
<1>2. Cardinality({i \in Of(log, {"cts_rx"}) : log[i].why = "already_received"}) = Num(log, Already)
      /\ Num(log, Already) \in Nat
  <2>1. log \in Seq(Events)
    BY DEF Legal, Typed
  <2>2. \A i \in DOMAIN log : log[i] \in Events
    BY <2>1, LenProperties, ElementOfSeq
  <2>3. {i \in Of(log, {"cts_rx"}) : log[i].why = "already_received"}
          = {i \in DOMAIN log : log[i] \in Already}
    BY <2>2 DEF Of, Kind, Already
  <2> QED
    BY <2>1, <2>3, NumIs DEF Num
<1>3. ASSUME NEW k \in Nat, NEW c \in Nat, NEW d \in Nat, k = c - d
      PROVE  Shortfall(c, d) = k
  <2>1. Max({0, c - d}) = k
    <3>1. {0, c - d} = {0, k}
      BY <1>3
    <3>2. \E x \in {0, k} : x >= 0 /\ x >= k
      OBVIOUS
    <3>3. Max({0, k}) = k
      BY DEF Max
    <3> QED
      BY <3>1, <3>3
  <2> QED
    BY <2>1 DEF Shortfall
<1>4. /\ Cardinality(air) + lost.data = Ones(log, "data_tx") - Ones(log, "data_rx")
      /\ lost.ack = Ones(log, "ack_tx") - Ones(log, "ack_rx")
      /\ Cardinality(Waiting) = Ones(log, "rts_tx") + Ones(log, "rts_retry") - Ones(log, "cts_rx")
                                - Ones(log, "rts_attempt_timeout")
      /\ 0 = Ones(log, "data_tx") + Num(log, Already) - Ones(log, "cts_rx")
  BY DEF Ledger, Net
<1>5. /\ lost.data \in Nat /\ lost.ack \in Nat /\ Cardinality(air) \in Nat
      /\ Cardinality(Waiting) \in Nat
  BY AirIs, WaitingIs
<1>6. Shortfall(Count(log, {"data_tx"}), Count(log, {"data_rx"})) = Cardinality(air) + lost.data
  <2>1. Count(log, {"data_tx"}) \in Nat /\ Count(log, {"data_rx"}) \in Nat
        /\ Cardinality(air) + lost.data \in Nat
    <3>1. Count(log, {"data_tx"}) \in Nat
      BY <1>1
    <3>2. Count(log, {"data_rx"}) \in Nat
      BY <1>1
    <3>3. Cardinality(air) + lost.data \in Nat
      BY <1>5
    <3> QED
      BY <3>1, <3>2, <3>3
  <2>2. Cardinality(air) + lost.data = Count(log, {"data_tx"}) - Count(log, {"data_rx"})
    BY <1>1, <1>4
  <2> QED
    BY <1>3, <2>1, <2>2
<1>7. Shortfall(Count(log, {"ack_tx"}), Count(log, {"ack_rx"})) = lost.ack
  BY <1>1, <1>3, <1>4, <1>5
<1>8. Count(log, {"rts_tx"}) + Count(log, {"rts_retry"})
        = Count(log, {"cts_rx"}) + Count(log, {"rts_attempt_timeout"}) + Cardinality(Waiting)
  BY <1>1, <1>4, <1>5
<1>9. Count(log, {"data_tx"})
        = Count(log, {"cts_rx"})
          - Cardinality({i \in Of(log, {"cts_rx"}) : log[i].why = "already_received"})
  BY <1>1, <1>2, <1>4
<1>10. Waiting = {n \in Nodes : px[n] # None /\ ~px[n].data}
  BY DEF Waiting, Waits
<1> QED
  BY <1>6, <1>7, <1>8, <1>9, <1>10 DEF LossStagesAreTrue, LossStages

(* Section 25 says which frames the air destroyed or still holds, and of   *)
(* every RTS whether it was answered, timed out, or is waiting.            *)
THEOREM StagesAreTrue == Spec => []LossStagesAreTrue
<1>1. Init => Legal /\ Ledger
  BY LegalInit, LedgerInit
<1>2. Legal /\ Ledger /\ [Next]_vars => Legal' /\ Ledger'
  BY LegalStep, LedgerStep
<1>3. Legal /\ Ledger => LossStagesAreTrue
  BY StagesFollow
<1> QED
  BY <1>1, <1>2, <1>3, PTL DEF Spec

-----------------------------------------------------------------------------
(* What a part of the log says of a message.                               *)
Said(es) == {es[i] : i \in DOMAIN es}
Tells(es, types, m) == \E e \in Said(es) : e.type \in types /\ e.m = m
Closes(es, m) == es # <<>> /\ es[Len(es)].type = "rts_tx" /\ es[Len(es)].m = m

(* A node holds a message in its queue or in its pending flight.           *)
InQueue(q, m) == \E i \in DOMAIN q : q[i].m = m
Has(p, m) == p # None /\ p.m = m
On(n, m) == px[n] # None /\ px[n].m = m
Holds(n, m) == On(n, m) \/ Queued(n, m)

LEMMA SaidConcat ==
  ASSUME NEW S, NEW a \in Seq(S), NEW b \in Seq(S)
  PROVE  Said(a \o b) = Said(a) \cup Said(b)
<1>1. /\ Len(a) \in Nat /\ Len(b) \in Nat
      /\ DOMAIN a = 1 .. Len(a) /\ DOMAIN b = 1 .. Len(b)
      /\ DOMAIN (a \o b) = 1 .. Len(a) + Len(b)
      /\ \A i \in 1 .. Len(a) : (a \o b)[i] = a[i]
      /\ \A i \in 1 .. Len(b) : (a \o b)[i + Len(a)] = b[i]
  BY ConcatIs
<1>2. ASSUME NEW i \in DOMAIN (a \o b)
      PROVE  (a \o b)[i] \in Said(a) \cup Said(b)
  <2>1. CASE i <= Len(a)
    <3>1. i \in DOMAIN a /\ (a \o b)[i] = a[i]
      BY <1>1, <2>1
    <3> QED
      BY <3>1 DEF Said
  <2>2. CASE ~(i <= Len(a))
    <3>1. i - Len(a) \in DOMAIN b /\ (i - Len(a)) + Len(a) = i
      BY <1>1, <2>2
    <3>2. (a \o b)[i] = b[i - Len(a)]
      BY <1>1, <3>1
    <3> QED
      BY <3>1, <3>2 DEF Said
  <2> QED
    BY <2>1, <2>2
<1>3. ASSUME NEW i \in DOMAIN a PROVE a[i] \in Said(a \o b)
  <2>1. i \in DOMAIN (a \o b) /\ (a \o b)[i] = a[i]
    BY <1>1
  <2> QED
    BY <2>1 DEF Said
<1>4. ASSUME NEW i \in DOMAIN b PROVE b[i] \in Said(a \o b)
  <2>1. i + Len(a) \in DOMAIN (a \o b) /\ (a \o b)[i + Len(a)] = b[i]
    BY <1>1
  <2> QED
    BY <2>1 DEF Said
<1> QED
  BY <1>2, <1>3, <1>4 DEF Said

LEMMA SaidAll ==
  \A a, b \in Seq(Events) : Said(a \o b) = Said(a) \cup Said(b)
BY SaidConcat

LEMMA Regroup ==
  \A a, b, c \in Seq(Events) : (a \o b) \o c = a \o (b \o c)
BY ConcatAssociative

LEMMA SaidShort ==
  /\ Said(<<>>) = {}
  /\ \A e : Said(<<e>>) = {e}
  /\ \A e, f : Said(<<e, f>>) = {e, f}
  /\ \A e, f, g : Said(<<e, f, g>>) = {e, f, g}
  /\ \A e, f, g, h : Said(<<e, f, g, h>>) = {e, f, g, h}
<1>1. Said(<<>>) = {}
  BY DEF Said
<1>2. ASSUME NEW e PROVE Said(<<e>>) = {e}
  BY DEF Said
<1>3. ASSUME NEW e, NEW f PROVE Said(<<e, f>>) = {e, f}
  <2>1. DOMAIN <<e, f>> = {1, 2} /\ <<e, f>>[1] = e /\ <<e, f>>[2] = f
    OBVIOUS
  <2> QED
    BY <2>1 DEF Said
<1>4. ASSUME NEW e, NEW f, NEW g PROVE Said(<<e, f, g>>) = {e, f, g}
  <2>1. DOMAIN <<e, f, g>> = {1, 2, 3} /\ <<e, f, g>>[1] = e /\ <<e, f, g>>[2] = f /\ <<e, f, g>>[3] = g
    OBVIOUS
  <2> QED
    BY <2>1 DEF Said
<1>5. ASSUME NEW e, NEW f, NEW g, NEW h PROVE Said(<<e, f, g, h>>) = {e, f, g, h}
  <2>1. /\ DOMAIN <<e, f, g, h>> = {1, 2, 3, 4}
        /\ <<e, f, g, h>>[1] = e /\ <<e, f, g, h>>[2] = f
        /\ <<e, f, g, h>>[3] = g /\ <<e, f, g, h>>[4] = h
    OBVIOUS
  <2> QED
    BY <2>1 DEF Said
<1> QED
  BY <1>1, <1>2, <1>3, <1>4, <1>5

LEMMA SaidIs ==
  ASSUME NEW es \in Seq(Events)
  PROVE  Said(es) \subseteq Events
<1>1. \A i \in DOMAIN es : es[i] \in Events
  BY LenProperties, ElementOfSeq
<1> QED
  BY <1>1 DEF Said

(* A node settles: what it holds afterwards, and what it tells.            *)
Onward(q, evs, told) ==
  \E e \in Events : told = evs \o <<e>> /\ Says(e, "rts_tx", e.m) /\ InQueue(q, e.m)

LEMMA ActsHold ==
  ASSUME Typed, now' \in Nat, NEW n, NEW q, NEW p, NEW evs, Proper(n, q, p, evs),
         NEW told, Acts(n, q, p, evs, told)
  PROVE  /\ \A m : InQueue(queue'[n], m) => InQueue(q, m)
         /\ \A m : Has(px'[n], m) => \/ p # None /\ p.m = m
                                     \/ InQueue(q, m) /\ Tells(told, {"rts_tx"}, m)
         /\ \A m : InQueue(q, m) => InQueue(queue'[n], m) \/ (Has(px'[n], m) /\ Closes(told, m))
         /\ p # None => px'[n] = p
         /\ told = evs \/ Onward(q, evs, told)
<1>0. n \in Nodes /\ q \in Seq(Items) /\ evs \in Seq(Events)
  BY DEF Proper
<1>1. CASE (p # None \/ q = <<>>) /\ queue'[n] = q /\ px'[n] = p /\ told = evs
  BY <1>1 DEF InQueue, Has
<1>2. ASSUME p = None, NEW i \in DOMAIN q, queue'[n] = RemoveAt(q, i),
             px'[n] = Pending(n, q[i]), told = evs \o <<FirstRts(n, Pending(n, q[i]))>>
      PROVE  /\ \A m : InQueue(queue'[n], m) => InQueue(q, m)
             /\ \A m : Has(px'[n], m) => InQueue(q, m) /\ Tells(told, {"rts_tx"}, m)
             /\ \A m : InQueue(q, m) => InQueue(queue'[n], m) \/ (Has(px'[n], m) /\ Closes(told, m))
             /\ Onward(q, evs, told)
  <2> DEFINE next == Pending(n, q[i])
             e == FirstRts(n, next)
  <2>1. q[i] \in Items /\ Fits(n, q[i].m, q[i].prev)
    BY <1>0, <1>2, LenProperties, ElementOfSeq DEF Proper
  <2>2. next \in OpenFlights /\ next # None /\ next.m = q[i].m
    BY <1>0, <2>1, PendingIs
  <2>3. e \in Events /\ e.type = "rts_tx" /\ e.t = now' /\ e.m = q[i].m
    BY <1>0, <2>2, RtsIs
  <2>4. /\ \A k \in DOMAIN RemoveAt(q, i) : \E j \in DOMAIN q : RemoveAt(q, i)[k] = q[j]
        /\ \A j \in DOMAIN q \ {i} : \E k \in DOMAIN RemoveAt(q, i) : RemoveAt(q, i)[k] = q[j]
    BY <1>0, <1>2, RemoveAtIs
  <2>5. px'[n] = next /\ told = evs \o <<e>>
    BY <1>2
  <2> HIDE DEF next, e
  <2>6. Said(told) = Said(evs) \cup {e}
    <3>1. <<e>> \in Seq(Events)
      BY <2>3
    <3>2. Said(evs \o <<e>>) = Said(evs) \cup Said(<<e>>)
      BY <1>0, <3>1, SaidAll
    <3>3. Said(<<e>>) = {e}
      BY SaidShort
    <3> QED
      BY <2>5, <3>2, <3>3
  <2>7. Closes(told, q[i].m)
    <3>1. <<e>> \in Seq(Events) /\ Len(<<e>>) = 1 /\ <<e>>[1] = e
      BY <2>3
    <3>2. /\ Len(evs) \in Nat /\ Len(told) = Len(evs) + 1 /\ told[1 + Len(evs)] = e
          /\ told \in Seq(Events)
      BY <1>0, <2>5, <3>1, ConcatIs
    <3>3. told[Len(told)] = e /\ told # <<>>
      BY <3>2, EmptySeq
    <3> QED
      BY <2>3, <3>3 DEF Closes
  <2>8. ASSUME NEW m, InQueue(queue'[n], m) PROVE InQueue(q, m)
    BY <1>2, <2>4, <2>8 DEF InQueue
  <2>9. ASSUME NEW m, Has(px'[n], m) PROVE InQueue(q, m) /\ Tells(told, {"rts_tx"}, m)
    <3>1. m = q[i].m
      BY <2>2, <2>5, <2>9 DEF Has
    <3> QED
      BY <1>2, <2>3, <2>6, <3>1 DEF InQueue, Tells
  <2>10. ASSUME NEW m, InQueue(q, m) PROVE InQueue(queue'[n], m) \/ (Has(px'[n], m) /\ Closes(told, m))
    <3>1. PICK j \in DOMAIN q : q[j].m = m
      BY <2>10 DEF InQueue
    <3>2. CASE j = i
      BY <2>2, <2>5, <2>7, <3>1, <3>2 DEF Has
    <3>3. CASE j # i
      BY <1>2, <2>4, <3>1, <3>3 DEF InQueue
    <3> QED
      BY <3>2, <3>3
  <2>11. InQueue(q, e.m)
    BY <1>2, <2>3 DEF InQueue
  <2>12. Onward(q, evs, told)
    BY <2>3, <2>5, <2>11 DEF Onward, Says
  <2> QED
    BY <2>8, <2>9, <2>10, <2>12
<1> QED
  BY <1>1, <1>2 DEF Acts

(* As many flights are told exhausted as given up, and the same ones.      *)
Exhausted == Kind({"path_cascade_exhausted"})
Giveups   == Kind({"rts_giveup", "data_ack_giveup"})
Paired(es) ==
  /\ es \in Seq(Events) /\ Num(es, Exhausted) = Num(es, Giveups)
  /\ \A e \in Said(es) \cap Giveups : \E f \in Said(es) \cap Exhausted : f.m = e.m /\ f.t = e.t

LEMMA PairedConcat ==
  ASSUME NEW a, NEW b, Paired(a), Paired(b)
  PROVE  Paired(a \o b)
<1>1. /\ a \in Seq(Events) /\ b \in Seq(Events) /\ a \o b \in Seq(Events)
      /\ Said(a \o b) = Said(a) \cup Said(b)
      /\ Num(a \o b, Exhausted) = Num(a, Exhausted) + Num(b, Exhausted)
      /\ Num(a \o b, Giveups) = Num(a, Giveups) + Num(b, Giveups)
  BY ConcatIs, SaidConcat, NumConcat DEF Paired
<1> QED
  BY <1>1 DEF Paired

LEMMA PairedNone ==
  ASSUME NEW es \in Seq(Events), \A e \in Said(es) : e \notin Exhausted \cup Giveups
  PROVE  Paired(es)
<1>1. {i \in DOMAIN es : es[i] \in Exhausted} = {} /\ {i \in DOMAIN es : es[i] \in Giveups} = {}
  BY DEF Said
<1> QED
  BY <1>1, FS_EmptySet DEF Paired, Num

LEMMA ShortSeq ==
  /\ \A e \in Events : <<e>> \in Seq(Events)
  /\ \A e, f \in Events : <<e, f>> \in Seq(Events) /\ <<e>> \o <<f>> = <<e, f>>
  /\ \A e, f, g \in Events : <<e, f, g>> \in Seq(Events)
  /\ \A e, f, g, h \in Events : <<e, f, g, h>> \in Seq(Events)
<1>1. ASSUME NEW e \in Events PROVE <<e>> \in Seq(Events)
  OBVIOUS
<1>2. ASSUME NEW e \in Events, NEW f \in Events
      PROVE  <<e, f>> \in Seq(Events) /\ <<e>> \o <<f>> = <<e, f>>
  <2>1. <<e, f>> \in Seq(Events) /\ Len(<<e, f>>) = 2
    OBVIOUS
  <2>2. /\ <<e>> \in Seq(Events) /\ <<f>> \in Seq(Events)
        /\ Len(<<e>>) = 1 /\ Len(<<f>>) = 1 /\ <<e>>[1] = e /\ <<f>>[1] = f
    OBVIOUS
  <2>3. /\ <<e>> \o <<f>> \in Seq(Events) /\ Len(<<e>> \o <<f>>) = 2
        /\ \A i \in 1 .. 2 : (<<e>> \o <<f>>)[i] = IF i <= 1 THEN <<e>>[i] ELSE <<f>>[i - 1]
    BY <2>2, ConcatProperties
  <2>4. \A i \in 1 .. 2 : (<<e>> \o <<f>>)[i] = <<e, f>>[i]
    BY <2>2, <2>3
  <2>5. <<e>> \o <<f>> = <<e, f>>
    BY <2>1, <2>3, <2>4, SeqEqual
  <2> QED
    BY <2>1, <2>5
<1>3. ASSUME NEW e \in Events, NEW f \in Events, NEW g \in Events
      PROVE  <<e, f, g>> \in Seq(Events)
  OBVIOUS
<1>4. ASSUME NEW e \in Events, NEW f \in Events, NEW g \in Events, NEW h \in Events
      PROVE  <<e, f, g, h>> \in Seq(Events)
  OBVIOUS
<1> QED
  BY <1>1, <1>2, <1>3, <1>4

LEMMA PairedTwo ==
  ASSUME NEW e \in Exhausted, NEW f \in Giveups, e.m = f.m, e.t = f.t
  PROVE  Paired(<<e, f>>)
<1>1. e \in Events /\ f \in Events /\ e \notin Giveups /\ f \notin Exhausted
  BY DEF Exhausted, Giveups, Kind
<1>2. <<e>> \in Seq(Events) /\ <<f>> \in Seq(Events) /\ <<e, f>> \in Seq(Events)
  BY <1>1, ShortSeq
<1>3. /\ Num(<<e, f>>, Exhausted) = Num(<<e>>, Exhausted) + Num(<<f>>, Exhausted)
      /\ Num(<<e, f>>, Giveups) = Num(<<e>>, Giveups) + Num(<<f>>, Giveups)
  <2>1. <<e>> \o <<f>> = <<e, f>>
    BY <1>1, ShortSeq
  <2>2. \A K : Num(<<e>> \o <<f>>, K) = Num(<<e>>, K) + Num(<<f>>, K)
    BY <1>2, NumConcat
  <2> QED
    BY <2>1, <2>2
<1>4. /\ Num(<<e>>, Exhausted) = 1 /\ Num(<<f>>, Exhausted) = 0
      /\ Num(<<e>>, Giveups) = 0 /\ Num(<<f>>, Giveups) = 1
  BY <1>1, NumShort
<1>5. Said(<<e, f>>) = {e, f}
  BY SaidShort
<1> QED
  BY <1>1, <1>2, <1>3, <1>4, <1>5 DEF Paired

(* Some node first had the message from n.                                 *)
Handed(n, m) == \E y \in Nodes : seen[y][m] = n

(* What a node settles with, before it goes on with its queue: where its   *)
(* messages are, and what the log is told of them.  new are the messages   *)
(* whose command fires.                                                    *)
Shifts(n, q, p, evs, new) ==
  /\ \A m : Queued(n, m) => InQueue(q, m)
  /\ \A m : InQueue(q, m) => Holds(n, m) \/ m \in new
  /\ p # None => On(n, p.m)
  /\ \A m : On(n, m) => \/ p # None /\ p.m = m
                        \/ InQueue(q, m)
                        \/ Tells(evs, TerminalEvents, m)
                        \/ Handed(n, m)
  /\ \A e \in Said(evs) : /\ e.t = now'
                          /\ On(n, e.m) \/ e.m \in new
                          /\ e.type = "cascade_requeue" => InQueue(q, e.m)
                          /\ e.type # "delivered"
                          /\ e.type = "tx_enqueue" => new # {}
  /\ new # {} => \E e : evs = <<e>> /\ Says(e, "tx_enqueue", e.m) /\ e.node = n
                        /\ new = {e.m} /\ n = Origin[e.m] /\ InQueue(q, e.m)
  /\ Paired(evs)

LEMMA AppendHolds ==
  ASSUME NEW q \in Seq(Items), NEW item \in Items
  PROVE  \A m : InQueue(Append(q, item), m) <=> InQueue(q, m) \/ m = item.m
<1>1. /\ Append(q, item) \in Seq(Items) /\ Len(Append(q, item)) = Len(q) + 1 /\ Len(q) \in Nat
      /\ \A i \in 1 .. Len(q) : Append(q, item)[i] = q[i]
      /\ Append(q, item)[Len(q) + 1] = item
  BY AppendProperties, LenProperties
<1>2. DOMAIN Append(q, item) = 1 .. Len(q) + 1 /\ DOMAIN q = 1 .. Len(q)
  BY <1>1, LenProperties
<1>3. ASSUME NEW m, InQueue(Append(q, item), m) PROVE InQueue(q, m) \/ m = item.m
  <2>1. PICK i \in 1 .. Len(q) + 1 : Append(q, item)[i].m = m
    BY <1>2, <1>3 DEF InQueue
  <2>2. i \in 1 .. Len(q) \/ i = Len(q) + 1
    BY <1>1
  <2> QED
    BY <1>1, <1>2, <2>1, <2>2 DEF InQueue
<1>4. ASSUME NEW m, InQueue(q, m) PROVE InQueue(Append(q, item), m)
  <2>1. PICK i \in 1 .. Len(q) : q[i].m = m
    BY <1>2, <1>4 DEF InQueue
  <2>2. i \in 1 .. Len(q) + 1
    BY <1>1
  <2> QED
    BY <1>1, <1>2, <2>1, <2>2 DEF InQueue
<1>5. InQueue(Append(q, item), item.m)
  BY <1>1, <1>2 DEF InQueue
<1> QED
  BY <1>3, <1>4, <1>5

(* A failed hop shifts nothing but the message it was of.                  *)
LEMMA HopEndsShifts ==
  ASSUME Legal, NEW n \in Nodes, NEW m, On(n, m), NEW before \in Seq(Events), NEW q, NEW p, NEW evs,
         HopEnds(n, m, before, q, p, evs),
         \A e \in Said(before) :
           /\ e.t = now' /\ e.m = m /\ e \notin Exhausted \cup Giveups
           /\ e.type \notin {"cascade_requeue", "delivered", "tx_enqueue"}
  PROVE  Shifts(n, q, p, evs, {})
<1>0. queue[n] \in Seq(Items) /\ \A k : Queued(n, k) <=> InQueue(queue[n], k)
  BY PxIs DEF Queued, InQueue
<1>1. Paired(before)
  BY PairedNone
<1>7. \A tail \in Seq(Events) : Said(before \o tail) = Said(before) \cup Said(tail)
  BY SaidConcat
<1>2. ASSUME q = queue[n], p # None, p.m = m, NEW tail \in Seq(Events), evs = before \o tail,
             \A e \in Said(tail) : /\ e.t = now' /\ e.m = m /\ e \notin Exhausted \cup Giveups
                                   /\ e.type \notin {"cascade_requeue", "delivered", "tx_enqueue"}
      PROVE  Shifts(n, q, p, evs, {})
  <2>1. Said(evs) = Said(before) \cup Said(tail)
    BY <1>2, SaidConcat
  <2>2. Paired(evs)
    BY <1>1, <1>2, PairedNone, PairedConcat
  <2>3. \A k : On(n, k) => k = m
    BY DEF On
  <2> QED
    BY <1>0, <1>2, <2>1, <2>2, <2>3 DEF Shifts, Holds
<1>3. CASE Retried(n, m, before, q, p, evs)
  <2>1. PICK e : Says(e, "rts_retry", m) /\ evs = before \o <<e>>
    BY <1>3 DEF Retried
  <2>2. <<e>> \in Seq(Events) /\ Said(<<e>>) = {e}
    BY <2>1, ShortSeq, SaidShort DEF Says
  <2> QED
    BY <1>2, <1>3, <2>1, <2>2 DEF Retried, Says, Exhausted, Giveups, Kind
<1>4. CASE Cascaded(n, m, before, q, p, evs)
  <2>1. PICK e, f : Says(e, "path_cascade", m) /\ Says(f, "rts_retry", m) /\ evs = before \o <<e, f>>
    BY <1>4 DEF Cascaded
  <2>2. <<e, f>> \in Seq(Events) /\ Said(<<e, f>>) = {e, f}
    BY <2>1, ShortSeq, SaidShort DEF Says
  <2> QED
    BY <1>2, <1>4, <2>1, <2>2 DEF Cascaded, Says, Exhausted, Giveups, Kind
<1>5. CASE Requeued(n, m, before, q, p, evs)
  <2>1. PICK e : Says(e, "cascade_requeue", m) /\ evs = before \o <<e>>
    BY <1>5 DEF Requeued
  <2>2. PICK item \in Items : item.m = m /\ q = Append(queue[n], item)
    BY <1>5 DEF Requeued
  <2>3. \A k : InQueue(q, k) <=> InQueue(queue[n], k) \/ k = m
    BY <1>0, <2>2, AppendHolds
  <2>4. <<e>> \in Seq(Events) /\ Said(<<e>>) = {e} /\ Said(evs) = Said(before) \cup {e}
    <3>1. <<e>> \in Seq(Events)
      BY <2>1, ShortSeq DEF Says
    <3>2. Said(<<e>>) = {e}
      BY SaidShort
    <3>3. Said(before \o <<e>>) = Said(before) \cup Said(<<e>>)
      BY <1>7, <3>1
    <3> QED
      BY <2>1, <3>1, <3>2, <3>3
  <2>5. Paired(evs)
    <3>1. e \notin Exhausted \cup Giveups
      BY <2>1 DEF Says, Exhausted, Giveups, Kind
    <3> QED
      BY <1>1, <2>1, <2>4, <3>1, PairedNone, PairedConcat
  <2>6. \A k : On(n, k) => k = m
    BY DEF On
  <2>7. p = None
    BY <1>5 DEF Requeued
  <2>8. \A x \in Said(evs) : /\ x.t = now' /\ On(n, x.m)
                             /\ x.type = "cascade_requeue" => InQueue(q, x.m)
                             /\ x.type # "delivered" /\ x.type # "tx_enqueue"
    BY <2>1, <2>3, <2>4 DEF Says
  <2> QED
    BY <1>0, <2>3, <2>5, <2>6, <2>7, <2>8 DEF Shifts, Holds
<1>6. CASE GivenUp(n, m, before, q, p, evs)
  <2>1. PICK e, f : /\ Says(e, "path_cascade_exhausted", m)
                    /\ Says(f, "rts_giveup", m) \/ Says(f, "data_ack_giveup", m)
                    /\ evs = before \o <<e, f>>
    BY <1>6 DEF GivenUp
  <2>2. <<e, f>> \in Seq(Events) /\ Said(evs) = Said(before) \cup {e, f}
    <3>1. <<e, f>> \in Seq(Events)
      BY <2>1, ShortSeq DEF Says
    <3>2. Said(<<e, f>>) = {e, f}
      BY SaidShort
    <3>3. Said(before \o <<e, f>>) = Said(before) \cup Said(<<e, f>>)
      BY <1>7, <3>1
    <3> QED
      BY <2>1, <3>1, <3>2, <3>3
  <2>3. Paired(evs)
    <3>1. e \in Exhausted /\ f \in Giveups /\ e.m = f.m /\ e.t = f.t
      BY <2>1 DEF Says, Exhausted, Giveups, Kind
    <3> QED
      BY <1>1, <2>1, <3>1, PairedTwo, PairedConcat
  <2>4. Tells(evs, TerminalEvents, m)
    BY <2>1, <2>2 DEF Says, Tells, TerminalEvents
  <2>5. \A k : On(n, k) => k = m
    BY DEF On
  <2>6. p = None /\ q = queue[n]
    BY <1>6 DEF GivenUp
  <2>7. \A x \in Said(evs) : /\ x.t = now' /\ On(n, x.m)
                             /\ x.type \notin {"cascade_requeue", "delivered", "tx_enqueue"}
    BY <2>1, <2>2 DEF Says
  <2> QED
    BY <1>0, <2>3, <2>4, <2>5, <2>6, <2>7 DEF Shifts, Holds
<1> QED
  BY <1>3, <1>4, <1>5, <1>6 DEF HopEnds

LEMMA OneNodeShifts ==
  ASSUME Legal, NEW n, NEW q, NEW p, NEW evs, NEW told, OneNode(n, q, p, evs, told)
  PROVE  /\ \E new \in SUBSET (conf.sends \ sent) :
              Shifts(n, q, p, evs, new) /\ sent' = sent \cup new
         /\ seen' = seen /\ now' \in Nat /\ now <= now'
<1>0. /\ Proper(n, q, p, evs) /\ n \in Nodes /\ now \in Nat
      /\ queue[n] \in Seq(Items) /\ \A k : Queued(n, k) <=> InQueue(queue[n], k)
      /\ \A k : On(n, k) <=> px[n] # None /\ k = px[n].m
  BY PxIs DEF OneNode, Proper, Queued, InQueue, On
<1>1. CASE Posts(n, q, p, evs)
  <2>1. PICK m \in conf.sends \ sent :
          /\ n = Origin[m] /\ p = px[n] /\ sent' = sent \cup {m}
          /\ \E item \in Items : item.m = m /\ q = Append(queue[n], item)
          /\ \E e : Says(e, "tx_enqueue", m) /\ e.node = n /\ evs = <<e>>
    BY <1>1 DEF Posts
  <2>2. PICK item \in Items : item.m = m /\ q = Append(queue[n], item)
    BY <2>1
  <2>3. PICK e : Says(e, "tx_enqueue", m) /\ e.node = n /\ evs = <<e>>
    BY <2>1
  <2>4. \A k : InQueue(q, k) <=> InQueue(queue[n], k) \/ k = m
    BY <1>0, <2>2, AppendHolds
  <2>5. Said(evs) = {e} /\ evs \in Seq(Events) /\ e \in Events /\ e.m = m
    BY <2>3, SaidShort, ShortSeq DEF Says
  <2>6. Paired(evs)
    <3>1. e \notin Exhausted \cup Giveups
      BY <2>3 DEF Says, Exhausted, Giveups, Kind
    <3> QED
      BY <2>5, <3>1, PairedNone
  <2>7. Shifts(n, q, p, evs, {m})
    <3>1. \A k : Queued(n, k) => InQueue(q, k)
      BY <1>0, <2>4
    <3>2. \A k : InQueue(q, k) => Holds(n, k) \/ k \in {m}
      BY <1>0, <2>4 DEF Holds
    <3>3. /\ p # None => On(n, p.m)
          /\ \A k : On(n, k) => p # None /\ p.m = k
      BY <1>0, <2>1
    <3>4. \A x \in Said(evs) : /\ x.t = now' /\ x.m \in {m}
                               /\ x.type # "cascade_requeue" /\ x.type # "delivered"
      BY <2>3, <2>5 DEF Says
    <3>5. \E x : evs = <<x>> /\ Says(x, "tx_enqueue", x.m) /\ x.node = n
                 /\ {m} = {x.m} /\ n = Origin[x.m] /\ InQueue(q, x.m)
      <4>1. e.m = m /\ Says(e, "tx_enqueue", e.m) /\ n = Origin[e.m] /\ InQueue(q, e.m)
        BY <2>1, <2>3, <2>4, <2>5
      <4> QED
        BY <2>3, <4>1
    <3> QED
      BY <2>6, <3>1, <3>2, <3>3, <3>4, <3>5 DEF Shifts
  <2>8. seen' = seen /\ now' = now
    BY <1>1 DEF Posts
  <2> QED
    BY <1>0, <2>1, <2>7, <2>8
<1>2. ASSUME Shifts(n, q, p, evs, {}), sent' = sent, seen' = seen, now' = now \/ now' = now + 1
      PROVE  /\ \E new \in SUBSET (conf.sends \ sent) :
                  Shifts(n, q, p, evs, new) /\ sent' = sent \cup new
             /\ seen' = seen /\ now' \in Nat /\ now <= now'
  <2>1. {} \in SUBSET (conf.sends \ sent) /\ sent' = sent \cup {}
    BY <1>2
  <2> QED
    BY <1>0, <1>2, <2>1
(* Nothing is queued, nothing ends, and the node keeps its flight or lets  *)
(* it go.                                                                  *)
<1>3. ASSUME q = queue[n], evs \in Seq(Events),
             \A e \in Said(evs) :
               /\ e.t = now' /\ On(n, e.m) /\ e \notin Exhausted \cup Giveups
               /\ e.type \notin {"cascade_requeue", "delivered", "tx_enqueue"},
             \/ px[n] # None /\ p # None /\ p.m = px[n].m
             \/ p = None /\ \A k : On(n, k) => Handed(n, k)
      PROVE  Shifts(n, q, p, evs, {})
  <2>1. Paired(evs)
    BY <1>3, PairedNone
  <2>2. p # None => On(n, p.m)
    BY <1>0, <1>3
  <2>3. \A k : On(n, k) => (p # None /\ p.m = k) \/ Handed(n, k)
    BY <1>0, <1>3
  <2> QED
    BY <1>0, <1>3, <2>1, <2>2, <2>3 DEF Shifts, Holds
<1>4. CASE GoesOut(n, q, p, evs)
  <2>1. PICK e, f : Says(e, "cts_rx", px[n].m) /\ Says(f, "data_tx", px[n].m) /\ evs = <<e, f>>
    BY <1>4 DEF GoesOut
  <2>2. Said(evs) = {e, f}
    BY <2>1, SaidShort
  <2>3. px[n] # None /\ q = queue[n] /\ p # None /\ p.m = px[n].m
    BY <1>4 DEF GoesOut, Waits, Like
  <2>4. \A x \in Said(evs) :
          /\ x.t = now' /\ On(n, x.m) /\ x \notin Exhausted \cup Giveups
          /\ x.type \notin {"cascade_requeue", "delivered", "tx_enqueue"}
    BY <1>0, <2>1, <2>2, <2>3 DEF Says, Exhausted, Giveups, Kind
  <2>5. evs \in Seq(Events)
    BY <1>0 DEF Proper
  <2>6. sent' = sent /\ seen' = seen /\ now' = now
    BY <1>4 DEF GoesOut
  <2> QED
    BY <1>2, <1>3, <2>3, <2>4, <2>5, <2>6
<1>5. CASE Skips(n, q, p, evs)
  <2>1. PICK e : Says(e, "cts_rx", px[n].m) /\ evs = <<e>>
    BY <1>5 DEF Skips
  <2>2. Said(evs) = {e}
    BY <2>1, SaidShort
  <2>3. px[n] # None /\ q = queue[n] /\ p = None /\ seen[px[n].next][px[n].m] = n
    BY <1>5 DEF Skips, Waits
  <2>4. \A x \in Said(evs) :
          /\ x.t = now' /\ On(n, x.m) /\ x \notin Exhausted \cup Giveups
          /\ x.type \notin {"cascade_requeue", "delivered", "tx_enqueue"}
    BY <1>0, <2>1, <2>2, <2>3 DEF Says, Exhausted, Giveups, Kind
  <2>5. evs \in Seq(Events)
    BY <1>0 DEF Proper
  <2>6. sent' = sent /\ seen' = seen /\ now' = now
    BY <1>5 DEF Skips
  <2>7. \A k : On(n, k) => Handed(n, k)
    <3>1. px[n].next \in Nodes
      BY <1>0, <2>3, PxIs
    <3> QED
      BY <1>0, <2>3, <3>1 DEF Handed
  <2> QED
    BY <1>2, <1>3, <2>3, <2>4, <2>5, <2>6, <2>7
<1>6. CASE NoCts(n, q, p, evs)
  <2>1. PICK e : Says(e, "rts_attempt_timeout", px[n].m) /\ HopEnds(n, px[n].m, <<e>>, q, p, evs)
    BY <1>6 DEF NoCts
  <2>2. Said(<<e>>) = {e} /\ <<e>> \in Seq(Events)
    BY <2>1, SaidShort, ShortSeq DEF Says
  <2>3. On(n, px[n].m)
    BY <1>6 DEF NoCts, Waits, On
  <2>4. \A x \in Said(<<e>>) :
          /\ x.t = now' /\ x.m = px[n].m /\ x \notin Exhausted \cup Giveups
          /\ x.type \notin {"cascade_requeue", "delivered", "tx_enqueue"}
    BY <2>1, <2>2 DEF Says, Exhausted, Giveups, Kind
  <2>5. sent' = sent /\ seen' = seen /\ now' = now
    BY <1>6 DEF NoCts
  <2>6. Shifts(n, q, p, evs, {})
    BY <1>0, <2>1, <2>2, <2>3, <2>4, HopEndsShifts
  <2> QED
    BY <1>2, <2>5, <2>6
<1>7. CASE NoAck(n, q, p, evs)
  <2>1. HopEnds(n, px[n].m, <<>>, q, p, evs) /\ On(n, px[n].m)
    BY <1>7 DEF NoAck, On
  <2>2. Said(<<>>) = {} /\ <<>> \in Seq(Events)
    BY SaidShort
  <2>3. sent' = sent /\ seen' = seen /\ now' = now
    BY <1>7 DEF NoAck
  <2>4. Shifts(n, q, p, evs, {})
    BY <1>0, <2>1, <2>2, HopEndsShifts
  <2> QED
    BY <1>2, <2>3, <2>4
<1>8. CASE Repeats(n, q, p, evs)
  <2>1. PICK f \in air :
          /\ n = f.from /\ seen[f.to][f.m] # None /\ air' = air \ {f}
          /\ \E e1, e2 : /\ Says(e1, "data_rx", f.m) /\ Says(e2, "dup_drop", f.m)
                         /\ Echo(n, f, e1, e2, q, p, evs)
    BY <1>8 DEF Repeats
  <2>2. sent' = sent /\ seen' = seen /\ now' = now + 1
    BY <1>8 DEF Repeats
  <2>3. px[n] # None /\ px[n].m = f.m /\ On(n, f.m) /\ f.to \in Nodes
    BY <2>1, FrameIs DEF On
  <2>4. PICK e1, e2 : /\ Says(e1, "data_rx", f.m) /\ Says(e2, "dup_drop", f.m)
                      /\ Echo(n, f, e1, e2, q, p, evs)
    BY <2>1
  <2> DEFINE Plain(x) == /\ x.t = now' /\ x.m = f.m /\ x \notin Exhausted \cup Giveups
                         /\ x.type \notin {"cascade_requeue", "delivered", "tx_enqueue"}
  <2>5. \A x, type : Says(x, type, f.m)
                     /\ type \in {"data_rx", "dup_drop", "ack_tx", "ack_rx", "nack_rx"} => Plain(x)
    BY DEF Says, Exhausted, Giveups, Kind
  <2>6. Plain(e1) /\ Plain(e2)
    BY <2>4, <2>5
  <2>7. evs \in Seq(Events)
    BY <1>0 DEF Proper
  <2>8. ASSUME q = queue[n], \A x \in Said(evs) : Plain(x),
               p = px[n] \/ (seen[f.to][f.m] = n /\ p = None)
        PROVE  Shifts(n, q, p, evs, {})
    <3>1. \A x \in Said(evs) :
            /\ x.t = now' /\ On(n, x.m) /\ x \notin Exhausted \cup Giveups
            /\ x.type \notin {"cascade_requeue", "delivered", "tx_enqueue"}
      BY <2>3, <2>8
    <3>2. \/ px[n] # None /\ p # None /\ p.m = px[n].m
          \/ p = None /\ \A k : On(n, k) => Handed(n, k)
      BY <1>0, <2>3, <2>8 DEF Handed
    <3> QED
      BY <1>3, <2>7, <2>8, <3>1, <3>2
  <2>9. Shifts(n, q, p, evs, {})
    <3>1. ASSUME q = queue[n], p = px[n], NEW e3, Says(e3, "ack_tx", f.m), evs = <<e1, e2, e3>>
          PROVE  Shifts(n, q, p, evs, {})
      <4>1. Said(evs) = {e1, e2, e3} /\ Plain(e3)
        BY <2>5, <3>1, SaidShort
      <4> QED
        BY <2>6, <2>8, <3>1, <4>1
    <3>2. ASSUME seen[f.to][f.m] = n, q = queue[n], p = None, NEW e3, NEW e4,
                 Says(e3, "ack_tx", f.m), Says(e4, "ack_rx", f.m), evs = <<e1, e2, e3, e4>>
          PROVE  Shifts(n, q, p, evs, {})
      <4>1. Said(evs) = {e1, e2, e3, e4} /\ Plain(e3) /\ Plain(e4)
        BY <2>5, <3>2, SaidShort
      <4> QED
        BY <2>6, <2>8, <3>2, <4>1
    <3>3. ASSUME q = queue[n], p = px[n], evs = <<e1, e2>>
          PROVE  Shifts(n, q, p, evs, {})
      <4>1. Said(evs) = {e1, e2}
        BY <3>3, SaidShort
      <4> QED
        BY <2>6, <2>8, <3>3, <4>1
    <3>4. ASSUME NEW e3, Says(e3, "nack_rx", f.m), HopEnds(n, f.m, <<e1, e2, e3>>, q, p, evs)
          PROVE  Shifts(n, q, p, evs, {})
      <4>1. Said(<<e1, e2, e3>>) = {e1, e2, e3} /\ Plain(e3)
        BY <2>5, <3>4, SaidShort
      <4>2. <<e1, e2, e3>> \in Seq(Events)
        BY <2>4, <3>4, ShortSeq DEF Says
      <4>3. \A x \in Said(<<e1, e2, e3>>) : Plain(x)
        BY <2>6, <4>1
      <4> QED
        BY <1>0, <2>3, <3>4, <4>2, <4>3, HopEndsShifts
    <3> QED
      BY <2>4, <3>1, <3>2, <3>3, <3>4 DEF Echo
  <2> QED
    BY <1>2, <2>2, <2>9
<1> QED
  BY <1>1, <1>4, <1>5, <1>6, <1>7, <1>8 DEF OneNode

-----------------------------------------------------------------------------
(* Who was given a message: its originator by a command, others by a DATA  *)
(* frame.                                                                  *)
Accepted(n, m) == IF n = Origin[m] THEN m \in sent ELSE seen[n][m] # None

(* At most one message is sent, and its tx_enqueue comes first. *)
Opening(told, new) ==
  /\ new \in SUBSET (conf.sends \ sent) /\ sent' = sent \cup new
  /\ IF new = {} THEN \A i \in DOMAIN told : told[i].type # "tx_enqueue"
     ELSE /\ told # <<>> /\ new = {told[1].m}
          /\ told[1].type = "tx_enqueue" /\ told[1].node = Origin[told[1].m]
          /\ \A i \in DOMAIN told \ {1} : told[i].type # "tx_enqueue"
  /\ \A m \in new : Queued(Origin[m], m)' \/ Tells(told, SetupEvents, m)

(* At most one node gets a message, and tells so if it is the destination. *)
Reaches(told, x, y, m) ==
  /\ x \in Nodes /\ y \in Nodes /\ m \in Messages /\ x # y /\ x # Dest[m]
  /\ Holds(x, m) /\ seen[y][m] = None /\ seen' = [seen EXCEPT ![y][m] = x]
  /\ IF y # Dest[m] THEN \A i \in DOMAIN told : told[i].type # "delivered"
     ELSE \E k \in DOMAIN told :
            /\ told[k].type = "delivered" /\ told[k].m = m
            /\ \A i \in DOMAIN told \ {k} : told[i].type # "delivered"
Arrival(told) ==
  \/ seen' = seen /\ \A i \in DOMAIN told : told[i].type # "delivered"
  \/ \E x, y, m : Reaches(told, x, y, m)

(* A message changes hands, or is told of where it stays. *)
Passing(told) ==
  \A n \in Nodes : \A m :
    /\ Holds(n, m)' => Holds(n, m) \/ Accepted(n, m)'
    /\ Holds(n, m) => Holds(n, m)' \/ Tells(told, TerminalEvents, m) \/ Handed(n, m)'
    /\ Accepted(n, m)' => Accepted(n, m) \/ Holds(n, m)' \/ n = Dest[m]
    /\ On(n, m)' => On(n, m) \/ Tells(told, SetupEvents, m)
    /\ Queued(n, m) => Queued(n, m)' \/ Tells(told, SetupEvents, m)

(* A message put back is in a queue, unless its flight has begun again. *)
PutBack(told) ==
  \A k \in DOMAIN told : told[k].type = "cascade_requeue" =>
    \/ \E n \in Nodes : Queued(n, told[k].m)'
    \/ \E j \in DOMAIN told : j > k /\ told[j].type \in SetupEvents /\ told[j].m = told[k].m

(* What a step tells the log, and what it does to the messages.            *)
Course(told) ==
  /\ told \in Seq(Events) /\ log' = log \o told /\ conf' = conf
  /\ now' \in Nat /\ now <= now'
  /\ \A e \in Said(told) : e.t = now' /\ (e.m \in sent' \/ \E n \in Nodes : Holds(n, e.m))
  /\ \E new : Opening(told, new)
  /\ Arrival(told) /\ Passing(told) /\ PutBack(told) /\ Paired(told)

LEMMA OneNodeCourse ==
  ASSUME Legal, NEW n, NEW q, NEW p, NEW evs, NEW told, OneNode(n, q, p, evs, told)
  PROVE  Course(told)
<1>0. /\ Typed /\ Proper(n, q, p, evs) /\ n \in Nodes /\ evs \in Seq(Events)
      /\ told \in Seq(Events) /\ log' = log \o told /\ conf' = conf
      /\ Acts(n, q, p, evs, told) /\ \A x \in Nodes \ {n} : Stays(x)
  BY DEF OneNode, Turn, Proper, Legal
<1>1. /\ \E new \in SUBSET (conf.sends \ sent) :
           Shifts(n, q, p, evs, new) /\ sent' = sent \cup new
      /\ seen' = seen /\ now' \in Nat /\ now <= now'
  BY OneNodeShifts
<1>2. PICK new \in SUBSET (conf.sends \ sent) :
        Shifts(n, q, p, evs, new) /\ sent' = sent \cup new
  BY <1>1
<1>3. /\ \A m : Queued(n, m)' => InQueue(q, m)
      /\ \A m : On(n, m)' => \/ p # None /\ p.m = m
                             \/ InQueue(q, m) /\ Tells(told, {"rts_tx"}, m)
      /\ \A m : InQueue(q, m) => Queued(n, m)' \/ (On(n, m)' /\ Closes(told, m))
      /\ p # None => px'[n] = p
      /\ \/ told = evs
         \/ \E e \in Events : /\ told = evs \o <<e>> /\ e.type = "rts_tx" /\ e.t = now'
                              /\ InQueue(q, e.m)
  <2>1. Typed /\ now' \in Nat /\ Proper(n, q, p, evs) /\ Acts(n, q, p, evs, told)
    BY <1>0, <1>1
  <2>2. /\ \A m : InQueue(queue'[n], m) => InQueue(q, m)
        /\ \A m : Has(px'[n], m) => \/ p # None /\ p.m = m
                                    \/ InQueue(q, m) /\ Tells(told, {"rts_tx"}, m)
        /\ \A m : InQueue(q, m) => InQueue(queue'[n], m) \/ (Has(px'[n], m) /\ Closes(told, m))
        /\ p # None => px'[n] = p
        /\ told = evs \/ Onward(q, evs, told)
    BY <2>1, ActsHold
  <2>3. \A m : (Queued(n, m)' <=> InQueue(queue'[n], m)) /\ (On(n, m)' <=> Has(px'[n], m))
    BY DEF Queued, InQueue, On, Has
  <2> QED
    BY <2>2, <2>3 DEF Onward, Says
<1>4. DOMAIN told = 1 .. Len(told) /\ Len(told) \in Nat
      /\ DOMAIN evs = 1 .. Len(evs) /\ Len(evs) \in Nat
  BY <1>0, LenProperties
<1>5. \/ told = evs /\ Said(told) = Said(evs) /\ Paired(told)
      \/ \E e \in Events :
           /\ e.type = "rts_tx" /\ e.t = now' /\ InQueue(q, e.m)
           /\ Said(told) = Said(evs) \cup {e} /\ Paired(told)
           /\ Len(told) = Len(evs) + 1 /\ told[Len(told)] = e
           /\ \A i \in 1 .. Len(evs) : told[i] = evs[i]
  <2>1. ASSUME NEW e \in Events, told = evs \o <<e>>, e.type = "rts_tx", InQueue(q, e.m)
        PROVE  /\ Said(told) = Said(evs) \cup {e} /\ Paired(told)
               /\ Len(told) = Len(evs) + 1 /\ told[Len(told)] = e
               /\ \A i \in 1 .. Len(evs) : told[i] = evs[i]
    <3>1. <<e>> \in Seq(Events) /\ Len(<<e>>) = 1 /\ <<e>>[1] = e
      BY ShortSeq
    <3>2. Said(<<e>>) = {e}
      BY SaidShort
    <3>3. Said(evs \o <<e>>) = Said(evs) \cup Said(<<e>>)
      BY <1>0, <3>1, SaidAll
    <3>4. Paired(<<e>>)
      <4>1. e \notin Exhausted \cup Giveups
        BY <2>1 DEF Exhausted, Giveups, Kind
      <4> QED
        BY <3>1, <3>2, <4>1, PairedNone
    <3>5. Paired(evs \o <<e>>)
      BY <1>2, <3>4, PairedConcat DEF Shifts
    <3>6. /\ Len(evs \o <<e>>) = Len(evs) + 1 /\ (evs \o <<e>>)[1 + Len(evs)] = e
          /\ \A i \in 1 .. Len(evs) : (evs \o <<e>>)[i] = evs[i]
      BY <1>0, <3>1, ConcatIs
    <3> QED
      BY <1>4, <2>1, <3>2, <3>3, <3>5, <3>6
  <2> QED
    BY <1>2, <1>3, <2>1 DEF Shifts
<1>6. \A m : Closes(told, m) => Tells(told, {"rts_tx"}, m) /\ told[Len(told)].type = "rts_tx"
                                /\ told[Len(told)].m = m /\ Len(told) \in DOMAIN told
  <2>1. told # <<>> => Len(told) \in DOMAIN told
    BY <1>0, <1>4, EmptySeq
  <2> QED
    BY <2>1 DEF Closes, Tells, Said
<1>7. \A m : Tells(told, {"rts_tx"}, m) => Tells(told, SetupEvents, m)
  BY DEF Tells, SetupEvents
<1>8. Said(evs) \subseteq Said(told)
  BY <1>5
<1>9. ASSUME NEW e \in Said(told)
      PROVE  /\ e.t = now' /\ (e.m \in sent' \/ \E x \in Nodes : Holds(x, e.m))
             /\ e.type # "delivered"
  <2>1. CASE e \in Said(evs)
    <3>1. e.t = now' /\ (On(n, e.m) \/ e.m \in new) /\ e.type # "delivered"
      BY <1>2, <2>1 DEF Shifts
    <3>2. On(n, e.m) => Holds(n, e.m)
      BY DEF Holds
    <3> QED
      BY <1>0, <1>2, <3>1, <3>2
  <2>2. CASE e.type = "rts_tx" /\ e.t = now' /\ InQueue(q, e.m)
    BY <1>0, <1>2, <2>2 DEF Shifts
  <2> QED
    BY <1>5, <2>1, <2>2
<1>10. Opening(told, new)
  <2>1. CASE new = {}
    <3>1. \A e \in Said(told) : e.type # "tx_enqueue"
      BY <1>2, <1>5, <2>1 DEF Shifts
    <3>2. \A i \in DOMAIN told : told[i] \in Said(told)
      BY DEF Said
    <3> QED
      BY <1>2, <2>1, <3>1, <3>2 DEF Opening
  <2>2. CASE new # {}
    <3>1. PICK e : /\ evs = <<e>> /\ Says(e, "tx_enqueue", e.m) /\ e.node = n
                   /\ new = {e.m} /\ n = Origin[e.m] /\ InQueue(q, e.m)
      BY <1>2, <2>2 DEF Shifts
    <3>2. Len(evs) = 1 /\ evs[1] = e /\ e.type = "tx_enqueue"
      BY <3>1 DEF Says
    <3>3. told[1] = e /\ 1 \in DOMAIN told /\ told # <<>>
          /\ \A i \in DOMAIN told \ {1} : told[i].type # "tx_enqueue"
      <4>1. CASE told = evs
        <5>1. DOMAIN evs = {1}
          BY <1>4, <3>2
        <5>2. evs # <<>>
          BY <3>2
        <5> QED
          BY <3>2, <4>1, <5>1, <5>2
      <4>2. ASSUME NEW x \in Events, x.type = "rts_tx", Len(told) = Len(evs) + 1,
                   told[Len(told)] = x, \A i \in 1 .. Len(evs) : told[i] = evs[i]
            PROVE  told[1] = e /\ 1 \in DOMAIN told /\ told # <<>>
                   /\ \A i \in DOMAIN told \ {1} : told[i].type # "tx_enqueue"
        <5>1. Len(told) = 2 /\ told[2] = x /\ told[1] = e /\ DOMAIN told = {1, 2}
          BY <1>4, <3>2, <4>2
        <5> QED
          BY <4>2, <5>1
      <4> QED
        BY <1>5, <4>1, <4>2
    <3>4. Queued(Origin[e.m], e.m)' \/ Tells(told, SetupEvents, e.m)
      <4>1. Queued(n, e.m)' \/ Tells(told, SetupEvents, e.m)
        BY <1>3, <1>6, <1>7, <3>1
      <4> QED
        BY <3>1, <4>1
    <3> QED
      BY <1>2, <2>2, <3>1, <3>2, <3>3, <3>4 DEF Opening
  <2> QED
    BY <2>1, <2>2
<1>11. Arrival(told)
  BY <1>1, <1>9 DEF Arrival, Said
<1>12. \A x \in Nodes \ {n} : queue'[x] = queue[x] /\ px'[x] = px[x]
  BY <1>0 DEF Stays
<1>13. \A x \in Nodes : \A m : Handed(x, m)' <=> Handed(x, m)
  BY <1>1 DEF Handed
<1>14. Passing(told)
  <2> SUFFICES ASSUME NEW x \in Nodes, NEW m
               PROVE  /\ Holds(x, m)' => Holds(x, m) \/ Accepted(x, m)'
                      /\ Holds(x, m) => Holds(x, m)' \/ Tells(told, TerminalEvents, m) \/ Handed(x, m)'
                      /\ Accepted(x, m)' => Accepted(x, m) \/ Holds(x, m)' \/ x = Dest[m]
                      /\ On(x, m)' => On(x, m) \/ Tells(told, SetupEvents, m)
                      /\ Queued(x, m) => Queued(x, m)' \/ Tells(told, SetupEvents, m)
    BY DEF Passing
  <2>1. m \in new => m \in sent' /\ Origin[m] = n /\ InQueue(q, m)
    BY <1>2 DEF Shifts
  <2>2. Accepted(x, m)' => Accepted(x, m) \/ (m \in new /\ x = n)
    BY <1>1, <1>2, <2>1 DEF Accepted
  <2>3. CASE x = n
    <3>1. InQueue(q, m) => Holds(n, m)' /\ (Queued(n, m)' \/ Tells(told, SetupEvents, m))
      BY <1>3, <1>6, <1>7 DEF Holds
    <3>2. p # None /\ p.m = m => On(n, m)'
      BY <1>3 DEF On
    <3>3. Queued(n, m) => InQueue(q, m)
      BY <1>2 DEF Shifts
    <3>4. Tells(evs, TerminalEvents, m) => Tells(told, TerminalEvents, m)
      BY <1>8 DEF Tells
    <3>5. Holds(n, m)' => Holds(n, m) \/ Accepted(n, m)'
      <4>1. CASE InQueue(q, m)
        BY <1>2, <2>1, <4>1 DEF Shifts, Accepted
      <4>2. CASE p # None /\ p.m = m
        BY <1>2, <4>2 DEF Shifts, Holds
      <4> QED
        BY <1>3, <4>1, <4>2 DEF Holds
    <3>6. Holds(n, m) => Holds(n, m)' \/ Tells(told, TerminalEvents, m) \/ Handed(n, m)'
      <4>1. CASE Queued(n, m)
        BY <3>1, <3>3, <4>1
      <4>2. CASE On(n, m)
        BY <1>0, <1>2, <1>13, <3>1, <3>2, <3>4, <4>2 DEF Shifts, Holds
      <4> QED
        BY <4>1, <4>2 DEF Holds
    <3>7. Accepted(n, m)' => Accepted(n, m) \/ Holds(n, m)'
      BY <2>1, <2>2, <2>3, <3>1
    <3>8. On(n, m)' => On(n, m) \/ Tells(told, SetupEvents, m)
      BY <1>2, <1>3, <1>7 DEF Shifts
    <3>9. Queued(n, m) => Queued(n, m)' \/ Tells(told, SetupEvents, m)
      BY <3>1, <3>3
    <3> QED
      BY <2>3, <3>5, <3>6, <3>7, <3>8, <3>9
  <2>4. CASE x # n
    <3>1. (Holds(x, m)' <=> Holds(x, m)) /\ (On(x, m)' <=> On(x, m)) /\ (Queued(x, m)' <=> Queued(x, m))
      BY <1>12, <2>4 DEF Holds, On, Queued
    <3> QED
      BY <2>2, <2>4, <3>1
  <2> QED
    BY <2>3, <2>4
<1>15. PutBack(told)
  <2> SUFFICES ASSUME NEW k \in DOMAIN told, told[k].type = "cascade_requeue"
               PROVE  \/ \E x \in Nodes : Queued(x, told[k].m)'
                      \/ \E j \in DOMAIN told : /\ j > k /\ told[j].type \in SetupEvents
                                                /\ told[j].m = told[k].m
    BY DEF PutBack
  <2>1. told[k] \in Said(told)
    BY DEF Said
  <2>2. told[k] \in Said(evs)
    BY <1>5, <2>1
  <2>3. InQueue(q, told[k].m)
    BY <1>2, <2>2 DEF Shifts
  <2>4. CASE Queued(n, told[k].m)'
    BY <1>0, <2>4
  <2>5. CASE Closes(told, told[k].m)
    <3>1. k # Len(told)
      BY <1>6, <2>5
    <3>2. Len(told) > k
      BY <1>4, <3>1
    <3> QED
      BY <1>6, <2>5, <3>2 DEF SetupEvents
  <2> QED
    BY <1>3, <2>3, <2>4, <2>5
<1>16. Paired(told)
  BY <1>5
<1> QED
  BY <1>0, <1>1, <1>9, <1>10, <1>11, <1>14, <1>15, <1>16 DEF Course

(* What is told of the node that settles: nothing, or an RTS.              *)
LEMMA RtsTold ==
  ASSUME NEW q, NEW told, told = <<>> \/ Onward(q, <<>>, told)
  PROVE  /\ told \in Seq(Events)
         /\ \A e \in Said(told) : e.t = now' /\ e.type = "rts_tx" /\ InQueue(q, e.m)
<1>1. CASE told = <<>>
  BY <1>1, SaidShort
<1>2. ASSUME NEW e \in Events, told = <<>> \o <<e>>, Says(e, "rts_tx", e.m), InQueue(q, e.m)
      PROVE  /\ told \in Seq(Events)
             /\ \A x \in Said(told) : x.t = now' /\ x.type = "rts_tx" /\ InQueue(q, x.m)
  <2>1. <<e>> \in Seq(Events)
    BY ShortSeq
  <2>2. told = <<e>>
    BY <1>2, <2>1, ConcatEmptySeq
  <2>3. Said(<<e>>) = {e}
    BY SaidShort
  <2> QED
    BY <1>2, <2>1, <2>2, <2>3 DEF Says
<1> QED
  BY <1>1, <1>2 DEF Onward

LEMMA ClosesTells ==
  ASSUME NEW es \in Seq(Events), NEW m, Closes(es, m)
  PROVE  Tells(es, {"rts_tx"}, m)
<1>1. Len(es) \in DOMAIN es
  <2>1. Len(es) \in Nat /\ DOMAIN es = 1 .. Len(es) /\ Len(es) # 0
    BY LenProperties, EmptySeq DEF Closes
  <2> QED
    BY <2>1
<1> QED
  BY <1>1 DEF Closes, Tells, Said

(* The sender of a frame, once its flight is over or its ACK is lost.      *)
LEMMA SenderIs ==
  ASSUME Legal, NEW f \in air, NEW acked \in BOOLEAN, NEW a \in Seq(Events), NEW b \in Seq(Events),
         Receives(f, acked, a, b)
  PROVE  /\ \A m : Holds(f.from, m)' => Holds(f.from, m)
         /\ \A m : Holds(f.from, m) => Holds(f.from, m)' \/ m = f.m
         /\ \A m : On(f.from, m)' => On(f.from, m) \/ Tells(a, {"rts_tx"}, m)
         /\ \A m : Queued(f.from, m) => Queued(f.from, m)' \/ Tells(a, {"rts_tx"}, m)
         /\ \A e \in Said(a) : e.t = now' /\ e.type = "rts_tx" /\ Queued(f.from, e.m)
<1> DEFINE n == f.from
           q == queue[n]
<1>0. /\ n \in Nodes /\ Typed /\ q \in Seq(Items) /\ On(n, f.m) /\ now' \in Nat
      /\ \A m : On(n, m) => m = f.m
      /\ \A m : Queued(n, m) <=> InQueue(q, m)
      /\ \A m : Queued(n, m)' <=> InQueue(queue'[n], m)
      /\ \A m : On(n, m)' <=> Has(px'[n], m)
  <2>1. n \in Nodes /\ px[n] # None /\ px[n].m = f.m
    BY FrameIs
  <2>2. Typed /\ q \in Seq(Items) /\ now' \in Nat
    BY <2>1, PxIs DEF Receives
  <2> QED
    BY <2>1, <2>2 DEF Queued, InQueue, On, Has
<1>1. CASE acked
  <2>1. Acts(n, q, None, <<>>, a)
    BY <1>1 DEF Receives
  <2>2. Proper(n, q, None, <<>>)
    BY <1>0, PxIs DEF Proper
  <2> HIDE DEF q, n
  <2>3. /\ \A m : InQueue(queue'[n], m) => InQueue(q, m)
        /\ \A m : Has(px'[n], m) => InQueue(q, m) /\ Tells(a, {"rts_tx"}, m)
        /\ \A m : InQueue(q, m) => InQueue(queue'[n], m) \/ (Has(px'[n], m) /\ Closes(a, m))
        /\ a = <<>> \/ Onward(q, <<>>, a)
    BY <1>0, <2>1, <2>2, ActsHold
  <2>4. \A e \in Said(a) : e.t = now' /\ e.type = "rts_tx" /\ InQueue(q, e.m)
    BY <2>3, RtsTold
  <2>5. \A m : Closes(a, m) => Tells(a, {"rts_tx"}, m)
    BY ClosesTells
  <2>6. \A m : Holds(n, m)' <=> On(n, m)' \/ Queued(n, m)'
    BY DEF Holds
  <2> QED
    BY <1>0, <2>3, <2>4, <2>5, <2>6 DEF Holds, n
<1>2. CASE ~acked
  <2>1. queue'[n] = queue[n] /\ px'[n] = px[n] /\ a = <<>>
    BY <1>2 DEF Receives, Stays
  <2>2. Said(a) = {}
    BY <2>1, SaidShort
  <2> QED
    BY <2>1, <2>2 DEF Holds, On, Queued
<1> QED
  BY <1>1, <1>2

Delivers(es, m) == \E e : es = <<e>> /\ Says(e, "delivered", m)

(* The receiver: it forwards the message, unless it ends there.            *)
LEMMA ReceiverIs ==
  ASSUME Legal, NEW f \in air, NEW acked \in BOOLEAN, NEW a \in Seq(Events), NEW b \in Seq(Events),
         Receives(f, acked, a, b)
  PROVE  /\ \A m : Holds(f.to, m)' => Holds(f.to, m) \/ (m = f.m /\ f.to # Origin[m])
         /\ \A m : Holds(f.to, m) => Holds(f.to, m)'
         /\ f.to # Dest[f.m] /\ f.to # Origin[f.m] => Holds(f.to, f.m)'
         /\ \A m : On(f.to, m)' => On(f.to, m) \/ Tells(b, {"rts_tx"}, m)
         /\ \A m : Queued(f.to, m) => Queued(f.to, m)' \/ Tells(b, {"rts_tx"}, m)
         /\ \A e \in Said(b) : e.t = now' /\ e.m = f.m /\ e.type \in {"rts_tx", "delivered"}
         /\ IF f.to = Dest[f.m] THEN Delivers(b, f.m)
            ELSE \A e \in Said(b) : e.type # "delivered"
<1> DEFINE n == f.to
<1>0. /\ n \in Nodes /\ Typed /\ queue[n] \in Seq(Items) /\ now' \in Nat
      /\ \A m : Queued(n, m) <=> InQueue(queue[n], m)
      /\ \A m : Queued(n, m)' <=> InQueue(queue'[n], m)
      /\ \A m : On(n, m)' <=> Has(px'[n], m)
      /\ \A m : On(n, m) <=> Has(px[n], m)
      /\ \A m : Holds(n, m)' <=> On(n, m)' \/ Queued(n, m)'
      /\ \A m : Holds(n, m) <=> On(n, m) \/ Queued(n, m)
  <2>1. n \in Nodes
    BY FrameIs
  <2>2. Typed /\ queue[n] \in Seq(Items)
    BY <2>1, PxIs
  <2>3. now' \in Nat
    BY <2>2 DEF Typed, Receives
  <2> QED
    BY <2>1, <2>2, <2>3 DEF Queued, InQueue, On, Has, Holds
<1>1. ASSUME Stays(n)
      PROVE  \A m : /\ Holds(n, m)' <=> Holds(n, m)
                    /\ On(n, m)' <=> On(n, m)
                    /\ Queued(n, m)' <=> Queued(n, m)
  BY <1>1 DEF Stays, Holds, On, Queued
<1>2. ASSUME n = Dest[f.m], Stays(n), NEW e, Says(e, "delivered", f.m), b = <<e>>
      PROVE  /\ \A x \in Said(b) : x.t = now' /\ x.m = f.m /\ x.type \in {"rts_tx", "delivered"}
             /\ Delivers(b, f.m)
  <2>1. Said(b) = {e}
    BY <1>2, SaidShort
  <2> QED
    BY <1>2, <2>1 DEF Says, Delivers
<1>3. CASE n = Dest[f.m] /\ Stays(n) /\ \E e : Says(e, "delivered", f.m) /\ b = <<e>>
  BY <1>1, <1>2, <1>3
<1>4. CASE n # Dest[f.m] /\ n = Origin[f.m] /\ Stays(n) /\ b = <<>>
  <2>1. Said(b) = {}
    BY <1>4, SaidShort
  <2> QED
    BY <1>1, <1>4, <2>1
<1>5. ASSUME n # Dest[f.m], n # Origin[f.m],
             NEW q, NEW p, Proper(n, q, p, b), Acts(n, q, p, b, b),
             \/ /\ px[n] = None /\ q = queue[n] /\ p # None /\ p.m = f.m /\ ~p.data
                /\ \E e : Says(e, "rts_tx", f.m) /\ b = <<e>>
             \/ /\ px[n] # None /\ p = px[n] /\ b = <<>>
                /\ \E item \in Items : item.m = f.m /\ q = Append(queue[n], item)
      PROVE  /\ \A m : Holds(n, m)' => Holds(n, m) \/ m = f.m
             /\ \A m : Holds(n, m) => Holds(n, m)'
             /\ Holds(n, f.m)'
             /\ \A m : On(n, m)' => On(n, m) \/ Tells(b, {"rts_tx"}, m)
             /\ \A m : Queued(n, m) => Queued(n, m)' \/ Tells(b, {"rts_tx"}, m)
             /\ \A e \in Said(b) : e.t = now' /\ e.m = f.m /\ e.type = "rts_tx"
  <2> HIDE DEF n
  <2>1. /\ \A m : InQueue(queue'[n], m) => InQueue(q, m)
        /\ \A m : Has(px'[n], m) => \/ p # None /\ p.m = m
                                    \/ InQueue(q, m) /\ Tells(b, {"rts_tx"}, m)
        /\ \A m : InQueue(q, m) => InQueue(queue'[n], m) \/ (Has(px'[n], m) /\ Closes(b, m))
        /\ p # None => px'[n] = p
    BY <1>0, <1>5, ActsHold
  <2>2. \A m : Closes(b, m) => Tells(b, {"rts_tx"}, m)
    BY ClosesTells
  <2>3. CASE px[n] = None /\ q = queue[n] /\ p # None /\ p.m = f.m
             /\ \E e : Says(e, "rts_tx", f.m) /\ b = <<e>>
    <3>1. PICK e : Says(e, "rts_tx", f.m) /\ b = <<e>>
      BY <2>3
    <3>2. Said(b) = {e}
      BY <3>1, SaidShort
    <3>3. Tells(b, {"rts_tx"}, f.m)
      BY <3>1, <3>2 DEF Tells, Says
    <3>4. \A x \in Said(b) : x.t = now' /\ x.m = f.m /\ x.type = "rts_tx"
      BY <3>1, <3>2 DEF Says
    <3>5. Has(px'[n], f.m)
      BY <2>1, <2>3 DEF Has
    <3>6. \A m : ~Has(px[n], m)
      BY <2>3 DEF Has
    <3> QED
      BY <1>0, <2>1, <2>2, <2>3, <3>3, <3>4, <3>5, <3>6
  <2>4. CASE px[n] # None /\ p = px[n] /\ b = <<>>
             /\ \E item \in Items : item.m = f.m /\ q = Append(queue[n], item)
    <3>1. PICK item \in Items : item.m = f.m /\ q = Append(queue[n], item)
      BY <2>4
    <3>2. \A m : InQueue(q, m) <=> InQueue(queue[n], m) \/ m = f.m
      BY <1>0, <3>1, AppendHolds
    <3>3. Said(b) = {}
      BY <2>4, SaidShort
    <3>4. \A m : (p # None /\ p.m = m) <=> Has(px[n], m)
      BY <2>4 DEF Has
    <3>5. \A m : Has(px[n], m) <=> Has(px'[n], m)
      BY <2>1, <2>4, <3>3 DEF Has, Tells
    <3>6. \A m : ~Tells(b, {"rts_tx"}, m)
      BY <3>3 DEF Tells
    <3> QED
      BY <1>0, <2>1, <2>2, <3>2, <3>3, <3>4, <3>5, <3>6
  <2> QED
    BY <1>5, <2>3, <2>4
<1>6. CASE n # Dest[f.m] /\ n # Origin[f.m]
           /\ \E q, p : /\ Proper(n, q, p, b) /\ Acts(n, q, p, b, b)
                        /\ \/ /\ px[n] = None /\ q = queue[n] /\ p # None /\ p.m = f.m /\ ~p.data
                              /\ \E e : Says(e, "rts_tx", f.m) /\ b = <<e>>
                           \/ /\ px[n] # None /\ p = px[n] /\ b = <<>>
                              /\ \E item \in Items : item.m = f.m /\ q = Append(queue[n], item)
  BY <1>5, <1>6
<1>7. Takes(f, b)
  BY DEF Receives
<1> QED
  BY <1>3, <1>4, <1>6, <1>7 DEF Takes

LEMMA ReceivesCourse ==
  ASSUME Legal, NEW f \in air, NEW acked \in BOOLEAN, NEW a \in Seq(Events), NEW b \in Seq(Events),
         Receives(f, acked, a, b)
  PROVE  \E told : Course(told)
<1> DEFINE x == f.from
           y == f.to
           m0 == f.m
<1>1. /\ x \in Nodes /\ y \in Nodes /\ m0 \in Messages /\ x # y /\ x # Dest[m0]
      /\ On(x, m0) /\ now \in Nat /\ Typed
  BY FrameIs DEF On, Legal, Typed
<1>2. /\ now' = now + 1 /\ conf' = conf /\ sent' = sent
      /\ seen[y][m0] = None /\ seen' = [seen EXCEPT ![y][m0] = x]
      /\ \A n \in Nodes \ {x, y} : Stays(n)
  BY DEF Receives
<1>3. PICK e1, e2, e3 :
        /\ Says(e1, "data_rx", m0) /\ Says(e2, "ack_tx", m0) /\ Says(e3, "ack_rx", m0)
        /\ log' = log \o <<e1, e2>> \o (IF acked THEN <<e3>> ELSE <<>>) \o a \o b
  BY DEF Receives
<1> DEFINE pair == <<e1, e2>>
           ack == IF acked THEN <<e3>> ELSE <<>>
           start == pair \o ack
           front == start \o a
           told == front \o b
<1>4. /\ pair \in Seq(Events) /\ ack \in Seq(Events)
      /\ Said(pair) = {e1, e2} /\ Said(ack) \subseteq {e3}
  <2>1. <<e1, e2>> \in Seq(Events) /\ <<e3>> \in Seq(Events)
    BY <1>3, ShortSeq DEF Says
  <2>2. ack \in Seq(Events)
    BY <2>1
  <2>3. Said(<<e1, e2>>) = {e1, e2} /\ Said(<<e3>>) = {e3} /\ Said(<<>>) = {}
    BY SaidShort
  <2> QED
    BY <2>1, <2>2, <2>3
<1> HIDE DEF pair, ack
<1>5. start \in Seq(Events) /\ Said(start) = Said(pair) \cup Said(ack)
  <2>1. pair \o ack \in Seq(Events)
    BY <1>4, ConcatProperties
  <2>2. Said(pair \o ack) = Said(pair) \cup Said(ack)
    BY <1>4, SaidConcat
  <2> QED
    BY <2>1, <2>2
<1> HIDE DEF start
<1>6. front \in Seq(Events) /\ Said(front) = Said(start) \cup Said(a)
  <2>1. start \o a \in Seq(Events)
    BY <1>5, ConcatProperties
  <2>2. Said(start \o a) = Said(start) \cup Said(a)
    BY <1>5, SaidConcat
  <2> QED
    BY <2>1, <2>2
<1> HIDE DEF front
<1>7. told \in Seq(Events) /\ Said(told) = Said(front) \cup Said(b)
  BY <1>6, ConcatIs, SaidConcat
<1>8. log' = log \o told
  <2>1. log \in Seq(Events)
    BY <1>1 DEF Typed
  <2>2. log' = ((log \o pair) \o ack) \o a \o b
    BY <1>3 DEF pair, ack
  <2>3. (log \o pair) \o ack = log \o start
    <3>1. log \o (pair \o ack) = (log \o pair) \o ack
      BY <1>4, <2>1, Regroup
    <3> QED
      BY <3>1 DEF start
  <2>4. (log \o start) \o a = log \o front
    <3>1. log \o (start \o a) = (log \o start) \o a
      BY <1>5, <2>1, Regroup
    <3> QED
      BY <3>1 DEF front
  <2>5. (log \o front) \o b = log \o told
    BY <1>6, <2>1, Regroup
  <2> QED
    BY <2>2, <2>3, <2>4, <2>5
<1>9. \A e \in Said(start) : /\ e.t = now' /\ e.m = m0 /\ e \notin Exhausted \cup Giveups
                             /\ e.type \notin {"cascade_requeue", "delivered", "tx_enqueue"}
  BY <1>3, <1>4, <1>5 DEF Says, Exhausted, Giveups, Kind
<1>10. /\ \A m : Holds(x, m)' => Holds(x, m)
       /\ \A m : Holds(x, m) => Holds(x, m)' \/ m = m0
       /\ \A m : On(x, m)' => On(x, m) \/ Tells(a, {"rts_tx"}, m)
       /\ \A m : Queued(x, m) => Queued(x, m)' \/ Tells(a, {"rts_tx"}, m)
       /\ \A e \in Said(a) : e.t = now' /\ e.type = "rts_tx" /\ Queued(x, e.m)
  BY SenderIs
<1>11. /\ \A m : Holds(y, m)' => Holds(y, m) \/ (m = m0 /\ y # Origin[m])
       /\ \A m : Holds(y, m) => Holds(y, m)'
       /\ y # Dest[m0] /\ y # Origin[m0] => Holds(y, m0)'
       /\ \A m : On(y, m)' => On(y, m) \/ Tells(b, {"rts_tx"}, m)
       /\ \A m : Queued(y, m) => Queued(y, m)' \/ Tells(b, {"rts_tx"}, m)
       /\ \A e \in Said(b) : e.t = now' /\ e.m = m0 /\ e.type \in {"rts_tx", "delivered"}
       /\ IF y = Dest[m0] THEN Delivers(b, m0)
          ELSE \A e \in Said(b) : e.type # "delivered"
  <2>1. /\ \A m : Holds(y, m)' => Holds(y, m) \/ (m = m0 /\ y # Origin[m])
        /\ \A m : Holds(y, m) => Holds(y, m)'
        /\ y # Dest[m0] /\ y # Origin[m0] => Holds(y, m0)'
    BY ReceiverIs
  <2>2. /\ \A m : On(y, m)' => On(y, m) \/ Tells(b, {"rts_tx"}, m)
        /\ \A m : Queued(y, m) => Queued(y, m)' \/ Tells(b, {"rts_tx"}, m)
    BY ReceiverIs
  <2>3. \A e \in Said(b) : e.t = now' /\ e.m = m0 /\ e.type \in {"rts_tx", "delivered"}
    BY ReceiverIs
  <2>4. IF y = Dest[m0] THEN Delivers(b, m0) ELSE \A e \in Said(b) : e.type # "delivered"
    BY ReceiverIs
  <2> QED
    BY <2>1, <2>2, <2>3, <2>4
<1>12. \A m : Tells(a, {"rts_tx"}, m) \/ Tells(b, {"rts_tx"}, m) => Tells(told, SetupEvents, m)
  BY <1>6, <1>7 DEF Tells, SetupEvents
<1>13. \A e \in Said(told) : /\ e.t = now' /\ e.type \notin {"cascade_requeue", "tx_enqueue"}
                             /\ e \notin Exhausted \cup Giveups
                             /\ \E n \in Nodes : Holds(n, e.m)
  <2>1. Holds(x, m0)
    BY <1>1 DEF Holds
  <2>2. \A e \in Said(start) : /\ e.t = now' /\ e.type \notin {"cascade_requeue", "tx_enqueue"}
                               /\ e \notin Exhausted \cup Giveups
                               /\ \E n \in Nodes : Holds(n, e.m)
    BY <1>1, <1>9, <2>1
  <2>3. \A e \in Said(a) : /\ e.t = now' /\ e.type \notin {"cascade_requeue", "tx_enqueue"}
                           /\ e \notin Exhausted \cup Giveups
                           /\ \E n \in Nodes : Holds(n, e.m)
    BY <1>1, <1>10 DEF Holds, Exhausted, Giveups, Kind
  <2>4. \A e \in Said(b) : /\ e.t = now' /\ e.type \notin {"cascade_requeue", "tx_enqueue"}
                           /\ e \notin Exhausted \cup Giveups
                           /\ \E n \in Nodes : Holds(n, e.m)
    BY <1>1, <1>11, <2>1 DEF Exhausted, Giveups, Kind
  <2> QED
    BY <1>6, <1>7, <2>2, <2>3, <2>4
<1>14. \A i \in DOMAIN told : told[i] \in Said(told)
  BY DEF Said
<1>15. Opening(told, {})
  BY <1>2, <1>13, <1>14 DEF Opening
<1>16. \A e \in Said(front) : e.type # "delivered"
  BY <1>6, <1>9, <1>10
<1>17. Reaches(told, x, y, m0)
  <2>1. Holds(x, m0)
    BY <1>1 DEF Holds
  <2>2. CASE y # Dest[m0]
    <3>1. \A e \in Said(told) : e.type # "delivered"
      BY <1>7, <1>11, <1>16, <2>2
    <3> QED
      BY <1>1, <1>2, <1>14, <2>1, <2>2, <3>1 DEF Reaches
  <2>3. CASE y = Dest[m0]
    <3>1. PICK e : b = <<e>> /\ Says(e, "delivered", m0)
      BY <1>11, <2>3 DEF Delivers
    <3>2. Len(b) = 1 /\ b[1] = e
      BY <3>1
    <3>3. /\ Len(front) \in Nat /\ DOMAIN told = 1 .. Len(front) + 1
          /\ \A i \in 1 .. Len(front) : told[i] = front[i]
          /\ told[1 + Len(front)] = e /\ DOMAIN front = 1 .. Len(front)
      <4>1. /\ Len(front) \in Nat /\ DOMAIN front = 1 .. Len(front)
            /\ DOMAIN (front \o b) = 1 .. Len(front) + Len(b)
            /\ \A i \in 1 .. Len(front) : (front \o b)[i] = front[i]
            /\ \A i \in 1 .. Len(b) : (front \o b)[i + Len(front)] = b[i]
        BY <1>6, ConcatIs
      <4>2. 1 \in 1 .. Len(b)
        BY <3>2
      <4>3. (front \o b)[1 + Len(front)] = b[1]
        BY <4>1, <4>2
      <4> QED
        BY <3>2, <4>1, <4>3
    <3>4. \A i \in 1 .. Len(front) : told[i].type # "delivered"
      BY <1>16, <3>3 DEF Said
    <3> HIDE DEF told
    <3>5. \E k \in DOMAIN told :
            /\ told[k].type = "delivered" /\ told[k].m = m0
            /\ \A i \in DOMAIN told \ {k} : told[i].type # "delivered"
      <4>1. 1 + Len(front) \in DOMAIN told
        BY <3>3
      <4>2. \A i \in DOMAIN told \ {1 + Len(front)} : i \in 1 .. Len(front)
        BY <3>3
      <4> QED
        BY <3>1, <3>3, <3>4, <4>1, <4>2 DEF Says
    <3> QED
      BY <1>1, <1>2, <2>1, <2>3, <3>5 DEF Reaches
  <2> QED
    BY <2>2, <2>3
<1>18. Arrival(told)
  BY <1>17 DEF Arrival
<1>19. Passing(told)
  <2> SUFFICES ASSUME NEW n \in Nodes, NEW m
               PROVE  /\ Holds(n, m)' => Holds(n, m) \/ Accepted(n, m)'
                      /\ Holds(n, m) => Holds(n, m)' \/ Tells(told, TerminalEvents, m) \/ Handed(n, m)'
                      /\ Accepted(n, m)' => Accepted(n, m) \/ Holds(n, m)' \/ n = Dest[m]
                      /\ On(n, m)' => On(n, m) \/ Tells(told, SetupEvents, m)
                      /\ Queued(n, m) => Queued(n, m)' \/ Tells(told, SetupEvents, m)
    BY DEF Passing
  <2>1. seen'[y][m0] = x /\ \A k \in Nodes : \A l : k # y \/ l # m0 => seen'[k][l] = seen[k][l]
    <3>1. seen \in [Nodes -> [Messages -> Nodes \cup {None}]]
      BY <1>1 DEF Typed
    <3> QED
      BY <1>1, <1>2, <3>1
  <2>2. Handed(x, m0)'
    BY <1>1, <2>1 DEF Handed
  <2>3. ASSUME Accepted(n, m)', ~Accepted(n, m)
        PROVE  n = y /\ m = m0 /\ y # Origin[m0]
    <3>1. n # Origin[m] /\ seen'[n][m] # None /\ seen[n][m] = None
      BY <1>2, <2>3 DEF Accepted
    <3>2. n = y /\ m = m0
      BY <2>1, <3>1
    <3> QED
      BY <3>1, <3>2
  <2>4. Accepted(n, m)' => Accepted(n, m) \/ Holds(n, m)' \/ n = Dest[m]
    BY <1>11, <2>3
  <2>5. CASE n = x
    BY <1>10, <1>12, <2>2, <2>4, <2>5
  <2>6. CASE n = y
    <3>1. m = m0 /\ y # Origin[m] => Accepted(n, m)'
      BY <1>1, <2>1, <2>6, Constants DEF Accepted
    <3> QED
      BY <1>11, <1>12, <2>4, <2>6, <3>1
  <2>7. CASE n # x /\ n # y
    <3>1. queue'[n] = queue[n] /\ px'[n] = px[n]
      BY <1>2, <2>7 DEF Stays
    <3>2. /\ On(n, m)' <=> On(n, m)
          /\ Queued(n, m)' <=> Queued(n, m)
          /\ Holds(n, m)' <=> Holds(n, m)
      BY <3>1 DEF On, Queued, Holds
    <3> QED
      BY <2>4, <3>2
  <2> QED
    BY <2>5, <2>6, <2>7
<1>20. PutBack(told) /\ Paired(told)
  BY <1>7, <1>13, <1>14, PairedNone DEF PutBack
<1>21. now' \in Nat /\ now <= now'
  BY <1>1, <1>2
<1> QED
  BY <1>2, <1>7, <1>8, <1>13, <1>15, <1>18, <1>19, <1>20, <1>21 DEF Course

(* Every step has a course.                                                *)
LEMMA StepCourse ==
  ASSUME Legal, [Next]_vars
  PROVE  \E told : Course(told)
<1>1. ASSUME NEW n, NEW q, NEW p, NEW evs, NEW told, OneNode(n, q, p, evs, told)
      PROVE  \E x : Course(x)
  BY <1>1, OneNodeCourse
<1>2. ASSUME NEW f \in air, NEW acked \in BOOLEAN, NEW a \in Seq(Events), NEW b \in Seq(Events),
             Receives(f, acked, a, b)
      PROVE  \E x : Course(x)
  BY <1>2, ReceivesCourse
<1>3. ASSUME UNCHANGED <<conf, now, log, sent, queue, px, seen>>
      PROVE  Course(<<>>)
  <2>1. now \in Nat /\ log \in Seq(Events)
    BY DEF Legal, Typed
  <2>2. /\ <<>> \in Seq(Events) /\ log' = log \o <<>> /\ conf' = conf /\ now' \in Nat /\ now <= now'
    BY <1>3, <2>1, ConcatEmptySeq
  <2>3. Said(<<>>) = {} /\ Paired(<<>>)
    <3>1. Said(<<>>) = {} /\ <<>> \in Seq(Events)
      BY SaidShort
    <3> QED
      BY <3>1, PairedNone
  <2>4. Opening(<<>>, {}) /\ PutBack(<<>>)
    BY <1>3 DEF Opening, PutBack
  <2>5. Arrival(<<>>)
    BY <1>3 DEF Arrival
  <2>6. Passing(<<>>)
    BY <1>3 DEF Passing, Holds, On, Queued, Accepted
  <2> QED
    BY <2>2, <2>3, <2>4, <2>5, <2>6 DEF Course
<1>4. \/ \E n, q, p, evs, told : OneNode(n, q, p, evs, told)
      \/ \E f \in air, acked \in BOOLEAN, a \in Seq(Events), b \in Seq(Events) :
           Receives(f, acked, a, b)
      \/ \E f \in air : Vanishes(f)
      \/ UNCHANGED vars
  BY StepIs
<1>5. ASSUME NEW f \in air, Vanishes(f)
      PROVE  \E x : Course(x)
  <2>1. UNCHANGED <<conf, now, log, sent, queue, px, seen>>
    BY <1>5 DEF Vanishes
  <2> QED
    BY <1>3, <2>1
<1>6. CASE UNCHANGED vars
  <2>1. UNCHANGED <<conf, now, log, sent, queue, px, seen>>
    BY <1>6 DEF vars
  <2> QED
    BY <1>3, <2>1
<1> QED
  BY <1>1, <1>2, <1>4, <1>5, <1>6

-----------------------------------------------------------------------------
(* Where messages are: who holds one was given it; who was given one holds *)
(* it, has handed it on, or has told of its end; and the copies of one     *)
(* have their origin at its originator.                                    *)
Kept ==
  \A n \in Nodes, m \in Messages :
    /\ Holds(n, m) => Accepted(n, m)
    /\ Accepted(n, m) => m \in sent
    /\ Accepted(n, m) => n = Dest[m] \/ Holds(n, m) \/ Tells(log, TerminalEvents, m) \/ Handed(n, m)
    /\ \A x \in Nodes : seen[n][m] = x => m \in sent /\ Accepted(x, m)
    /\ On(n, m) => Tells(log, SetupEvents, m)
    /\ m \in sent => Tells(log, SetupEvents, m) \/ Queued(Origin[m], m)
Deeper(d, m) ==
  \A y \in Nodes \ {Origin[m]} : seen[y][m] # None => d[seen[y][m]] < d[y]
Rooted == \A m \in Messages : \E d \in [Nodes -> Nat] : Deeper(d, m)

LEMMA HoldsMessages ==
  ASSUME Legal, NEW n \in Nodes, NEW m, Holds(n, m)
  PROVE  m \in Messages
<1>1. CASE On(n, m)
  BY <1>1, PxIs DEF On
<1>2. CASE Queued(n, m)
  <2>1. PICK i \in DOMAIN queue[n] : queue[n][i].m = m
    BY <1>2 DEF Queued
  <2>2. queue[n] \in Seq(Items)
    BY PxIs
  <2>3. queue[n][i] \in Items
    BY <2>1, <2>2, LenProperties, ElementOfSeq
  <2> QED
    BY <2>1, <2>3 DEF Items
<1> QED
  BY <1>1, <1>2 DEF Holds

LEMMA SeenIs ==
  ASSUME Legal, NEW told, Course(told)
  PROVE  /\ \A y \in Nodes : \A m \in Messages : seen[y][m] \in Nodes \cup {None}
         /\ \A y \in Nodes : \A m \in Messages :
              seen'[y][m] = seen[y][m]
              \/ Reaches(told, seen'[y][m], y, m)
         /\ \A x, y, m : Reaches(told, x, y, m) =>
              seen'[y][m] = x /\ \A k \in Nodes \ {y} : seen'[k][m] = seen[k][m]
         /\ sent \subseteq sent' /\ sent \subseteq Messages
<1>1. seen \in [Nodes -> [Messages -> Nodes \cup {None}]] /\ sent \subseteq Messages
  BY DEF Legal, Typed
<1>2. ASSUME NEW x, NEW y, NEW m, Reaches(told, x, y, m)
      PROVE  seen'[y][m] = x /\ \A k \in Nodes : \A l \in Messages : k # y \/ l # m => seen'[k][l] = seen[k][l]
  BY <1>1, <1>2 DEF Reaches
<1>3. sent \subseteq sent'
  BY DEF Course, Opening
<1>4. ASSUME NEW y \in Nodes, NEW m \in Messages
      PROVE  seen'[y][m] = seen[y][m] \/ Reaches(told, seen'[y][m], y, m)
  <2>1. CASE seen' = seen
    BY <2>1
  <2>2. ASSUME NEW x, NEW k, NEW l, Reaches(told, x, k, l)
        PROVE  seen'[y][m] = seen[y][m] \/ Reaches(told, seen'[y][m], y, m)
    BY <1>2, <2>2
  <2> QED
    BY <2>1, <2>2 DEF Course, Arrival
<1>5. ASSUME NEW x, NEW y, NEW m, Reaches(told, x, y, m)
      PROVE  seen'[y][m] = x /\ \A k \in Nodes \ {y} : seen'[k][m] = seen[k][m]
  <2>1. m \in Messages
    BY <1>5 DEF Reaches
  <2> QED
    BY <1>2, <1>5, <2>1
<1> QED
  BY <1>1, <1>3, <1>4, <1>5

(* The log grows, and forgets nothing.                                     *)
LEMMA TellsMore ==
  ASSUME Legal, NEW told, Course(told)
  PROVE  \A types, m : Tells(log, types, m)' <=> Tells(log, types, m) \/ Tells(told, types, m)
<1>1. Said(log') = Said(log) \cup Said(told)
  <2>1. log \in Seq(Events) /\ told \in Seq(Events) /\ log' = log \o told
    BY DEF Legal, Typed, Course
  <2> QED
    BY <2>1, SaidConcat
<1>2. \A types, m : Tells(log, types, m)' <=> \E e \in Said(log') : e.type \in types /\ e.m = m
  BY DEF Tells, Said
<1> QED
  BY <1>1, <1>2 DEF Tells

LEMMA KeptStep ==
  ASSUME Legal, Legal', NEW told, Course(told), Kept
  PROVE  Kept'
<1>1. /\ \A y \in Nodes : \A m \in Messages : seen[y][m] \in Nodes \cup {None}
      /\ \A y \in Nodes : \A m \in Messages :
           seen'[y][m] = seen[y][m] \/ Reaches(told, seen'[y][m], y, m)
      /\ sent \subseteq sent' /\ sent \subseteq Messages
  BY SeenIs
<1>2. \A types, m : Tells(log, types, m)' <=> Tells(log, types, m) \/ Tells(told, types, m)
  BY TellsMore
<1>3. Passing(told)
  BY DEF Course
<1>4. ASSUME NEW n \in Nodes, NEW m \in Messages
      PROVE  (seen[n][m] # None => seen'[n][m] = seen[n][m])
  BY <1>1 DEF Reaches
<1>5. ASSUME NEW n \in Nodes, NEW m \in Messages, Accepted(n, m)
      PROVE  Accepted(n, m)'
  BY <1>1, <1>4, <1>5 DEF Accepted
<1>6. ASSUME NEW n \in Nodes, NEW m \in Messages, Handed(n, m)
      PROVE  Handed(n, m)'
  <2>1. PICK y \in Nodes : seen[y][m] = n
    BY <1>6 DEF Handed
  <2>2. seen'[y][m] = n
    BY <1>4, <2>1, Constants
  <2> QED
    BY <2>2 DEF Handed
<1>7. ASSUME NEW n \in Nodes, NEW m \in Messages
      PROVE  Holds(n, m)' => Accepted(n, m)'
  BY <1>3, <1>5 DEF Passing, Kept
<1>8. ASSUME NEW n \in Nodes, NEW m \in Messages, NEW x \in Nodes, seen'[n][m] = x
      PROVE  m \in sent' /\ Accepted(x, m)'
  <2>1. CASE seen'[n][m] = seen[n][m]
    <3>1. m \in sent /\ Accepted(x, m)
      BY <1>8, <2>1 DEF Kept
    <3> QED
      BY <1>1, <1>5, <3>1
  <2>2. CASE Reaches(told, x, n, m)
    <3>1. Holds(x, m)
      BY <2>2 DEF Reaches
    <3>2. Accepted(x, m)
      BY <3>1 DEF Kept
    <3>3. m \in sent
      BY <3>2 DEF Kept
    <3> QED
      BY <1>1, <1>5, <3>2, <3>3
  <2> QED
    BY <1>1, <1>8, <2>1, <2>2
<1>9. ASSUME NEW n \in Nodes, NEW m \in Messages, Accepted(n, m)'
      PROVE  m \in sent'
  <2>1. seen'[n][m] # None => seen'[n][m] \in Nodes
    BY DEF Legal, Typed
  <2> QED
    BY <1>8, <1>9, <2>1 DEF Accepted
<1>10. ASSUME NEW n \in Nodes, NEW m \in Messages, Accepted(n, m)'
       PROVE  n = Dest[m] \/ Holds(n, m)' \/ Tells(log, TerminalEvents, m)' \/ Handed(n, m)'
  <2>1. CASE Accepted(n, m)
    <3>1. n = Dest[m] \/ Holds(n, m) \/ Tells(log, TerminalEvents, m) \/ Handed(n, m)
      BY <2>1 DEF Kept
    <3> QED
      BY <1>2, <1>3, <1>6, <3>1 DEF Passing
  <2>2. CASE ~Accepted(n, m)
    BY <1>3, <1>10, <2>2 DEF Passing
  <2> QED
    BY <2>1, <2>2
<1>11. ASSUME NEW n \in Nodes, NEW m \in Messages, On(n, m)'
       PROVE  Tells(log, SetupEvents, m)'
  BY <1>2, <1>3, <1>11 DEF Passing, Kept
<1>12. ASSUME NEW m \in Messages, m \in sent'
       PROVE  Tells(log, SetupEvents, m)' \/ Queued(Origin[m], m)'
  <2>1. CASE m \in sent
    <3>1. Tells(log, SetupEvents, m) \/ Queued(Origin[m], m)
      BY <2>1, Constants DEF Kept
    <3>2. Queued(Origin[m], m) => Queued(Origin[m], m)' \/ Tells(told, SetupEvents, m)
      BY <1>3, Constants DEF Passing
    <3> QED
      BY <1>2, <3>1, <3>2
  <2>2. CASE m \notin sent
    <3>1. Queued(Origin[m], m)' \/ Tells(told, SetupEvents, m)
      BY <1>12, <2>2 DEF Course, Opening
    <3> QED
      BY <1>2, <3>1
  <2> QED
    BY <2>1, <2>2
<1> QED
  <2> SUFFICES ASSUME NEW n \in Nodes, NEW m \in Messages
               PROVE  /\ Holds(n, m)' => Accepted(n, m)'
                      /\ Accepted(n, m)' => m \in sent'
                      /\ Accepted(n, m)' => \/ n = Dest[m] \/ Holds(n, m)'
                                            \/ Tells(log, TerminalEvents, m)' \/ Handed(n, m)'
                      /\ \A x \in Nodes : seen'[n][m] = x => m \in sent' /\ Accepted(x, m)'
                      /\ On(n, m)' => Tells(log, SetupEvents, m)'
                      /\ m \in sent' => Tells(log, SetupEvents, m)' \/ Queued(Origin[m], m)'
    BY DEF Kept
  <2> QED
    BY <1>7, <1>8, <1>9, <1>10, <1>11, <1>12

LEMMA RootedStep ==
  ASSUME Legal, NEW told, Course(told), Kept, Rooted
  PROVE  Rooted'
<1>1. /\ \A y \in Nodes : \A m \in Messages : seen[y][m] \in Nodes \cup {None}
      /\ \A y \in Nodes : \A m \in Messages :
           seen'[y][m] = seen[y][m] \/ Reaches(told, seen'[y][m], y, m)
      /\ \A x, y, m : Reaches(told, x, y, m) =>
           seen'[y][m] = x /\ \A k \in Nodes \ {y} : seen'[k][m] = seen[k][m]
  BY SeenIs
<1> SUFFICES ASSUME NEW m \in Messages
             PROVE  \E d \in [Nodes -> Nat] :
                      \A y \in Nodes \ {Origin[m]} : seen'[y][m] # None => d[seen'[y][m]] < d[y]
  BY DEF Rooted, Deeper
<1>2. PICK d \in [Nodes -> Nat] : Deeper(d, m)
  BY DEF Rooted
<1>3. CASE \A y \in Nodes : seen'[y][m] = seen[y][m]
  BY <1>2, <1>3 DEF Deeper
<1>4. ASSUME NEW x, NEW y, Reaches(told, x, y, m)
      PROVE  \E g \in [Nodes -> Nat] :
               \A k \in Nodes \ {Origin[m]} : seen'[k][m] # None => g[seen'[k][m]] < g[k]
  <2>1. /\ x \in Nodes /\ y \in Nodes /\ x # y /\ seen[y][m] = None /\ seen'[y][m] = x
        /\ \A k \in Nodes \ {y} : seen'[k][m] = seen[k][m]
    <3>1. /\ x \in Nodes /\ y \in Nodes /\ x # y /\ seen[y][m] = None
      BY <1>4 DEF Reaches
    <3> QED
      BY <1>1, <1>4, <3>1
  <2>2. CASE y = Origin[m]
    BY <1>2, <2>1, <2>2 DEF Deeper
  <2>3. CASE y # Origin[m]
    <3> DEFINE g == [d EXCEPT ![y] = d[x] + 1]
    <3>1. g \in [Nodes -> Nat] /\ g[y] = d[x] + 1 /\ \A k \in Nodes \ {y} : g[k] = d[k]
      BY <2>1
    <3>2. \A k \in Nodes : seen[k][m] # y
      <4>1. ~Accepted(y, m)
        BY <2>1, <2>3 DEF Accepted
      <4> QED
        BY <2>1, <4>1, Constants DEF Kept
    <3> HIDE DEF g
    <3>3. ASSUME NEW k \in Nodes \ {Origin[m]}, seen'[k][m] # None
          PROVE  g[seen'[k][m]] < g[k]
      <4>1. CASE k = y
        <5>1. g[x] = d[x] /\ d[x] \in Nat
          BY <2>1, <3>1
        <5> QED
          BY <2>1, <3>1, <4>1, <5>1
      <4>2. CASE k # y
        <5>1. seen'[k][m] = seen[k][m] /\ seen[k][m] \in Nodes \ {y}
          BY <1>1, <2>1, <3>2, <3>3, <4>2
        <5>2. d[seen[k][m]] < d[k]
          BY <1>2, <3>3, <5>1 DEF Deeper
        <5> QED
          BY <3>1, <4>2, <5>1, <5>2
      <4> QED
        BY <4>1, <4>2
    <3> QED
      BY <3>1, <3>3
  <2> QED
    BY <2>2, <2>3
<1> QED
  BY <1>1, <1>3, <1>4

-----------------------------------------------------------------------------
(* What the log says of the run: it is in order, every message begins with *)
(* one tx_enqueue at its originator and is delivered at most once, when    *)
(* its destination has it; who is given up is exhausted, and what was last *)
(* put back is in a queue.                                                 *)
Is(es, i, type) == i \in DOMAIN es /\ es[i].type = type
Once(es, type) == \A i, j : Is(es, i, type) /\ Is(es, j, type) /\ es[i].m = es[j].m => i = j

InTime ==
  /\ \A i \in DOMAIN log : log[i].t <= now
  /\ \A i, j \in DOMAIN log : i <= j => log[i].t <= log[j].t
Begun ==
  /\ sent \subseteq conf.sends /\ Once(log, "tx_enqueue")
  /\ \A i \in DOMAIN log : log[i].m \in sent
  /\ \A i : Is(log, i, "tx_enqueue") => log[i].node = Origin[log[i].m]
  /\ \A i \in DOMAIN log : \E j : j <= i /\ Is(log, j, "tx_enqueue") /\ log[j].m = log[i].m
  /\ \A m \in sent : \E j : Is(log, j, "tx_enqueue") /\ log[j].m = m
Delivered ==
  /\ Once(log, "delivered")
  /\ \A i : Is(log, i, "delivered") => seen[Dest[log[i].m]][log[i].m] # None
  /\ \A m \in Messages : seen[Dest[m]][m] # None => \E i : Is(log, i, "delivered") /\ log[i].m = m
Resting ==
  \A k : Is(log, k, "cascade_requeue") =>
    \/ \E n \in Nodes : Queued(n, log[k].m)
    \/ \E j \in DOMAIN log : j > k /\ log[j].type \in SetupEvents /\ log[j].m = log[k].m
LogTrue == InTime /\ Begun /\ Delivered /\ Paired(log) /\ Resting

(* The log after a step. *)
LEMMA LogGrows ==
  ASSUME Legal, NEW told, Course(told)
  PROVE  /\ Len(log) \in Nat /\ Len(told) \in Nat
         /\ DOMAIN log = 1 .. Len(log) /\ DOMAIN told = 1 .. Len(told)
         /\ DOMAIN log' = 1 .. Len(log) + Len(told)
         /\ \A i \in DOMAIN log : i \in DOMAIN log' /\ log'[i] = log[i]
         /\ \A k \in DOMAIN told : k + Len(log) \in DOMAIN log' /\ log'[k + Len(log)] = told[k]
         /\ \A i \in DOMAIN log' \ DOMAIN log :
              \E k \in DOMAIN told : i = k + Len(log) /\ log'[i] = told[k]
         /\ \A i \in DOMAIN log : log[i] \in Events
         /\ \A k \in DOMAIN told : told[k] \in Events /\ told[k] \in Said(told)
<1>1. log \in Seq(Events) /\ told \in Seq(Events) /\ log' = log \o told
  BY DEF Legal, Typed, Course
<1>2. /\ Len(log) \in Nat /\ Len(told) \in Nat
      /\ DOMAIN log = 1 .. Len(log) /\ DOMAIN told = 1 .. Len(told)
      /\ DOMAIN log' = 1 .. Len(log) + Len(told)
      /\ \A i \in 1 .. Len(log) : log'[i] = log[i]
      /\ \A k \in 1 .. Len(told) : log'[k + Len(log)] = told[k]
  BY <1>1, ConcatIs
<1>3. \A i \in DOMAIN log : i \in DOMAIN log' /\ log'[i] = log[i]
  BY <1>2
<1>4. \A k \in DOMAIN told : k + Len(log) \in DOMAIN log' /\ log'[k + Len(log)] = told[k]
  BY <1>2
<1>5. ASSUME NEW i \in DOMAIN log' \ DOMAIN log
      PROVE  \E k \in DOMAIN told : i = k + Len(log) /\ log'[i] = told[k]
  <2>1. i - Len(log) \in DOMAIN told /\ i = (i - Len(log)) + Len(log)
    BY <1>2
  <2> QED
    BY <1>4, <2>1
<1>6. \A i \in DOMAIN log : log[i] \in Events
  BY <1>1, <1>2, ElementOfSeq
<1>7. \A k \in DOMAIN told : told[k] \in Events /\ told[k] \in Said(told)
  BY <1>1, <1>2, ElementOfSeq DEF Said
<1> QED
  BY <1>2, <1>3, <1>4, <1>5, <1>6, <1>7

LEMMA InTimeStep ==
  ASSUME Legal, NEW told, Course(told), InTime
  PROVE  InTime'
<1>1. /\ Len(log) \in Nat /\ DOMAIN log = 1 .. Len(log) /\ DOMAIN log' = 1 .. Len(log) + Len(told)
      /\ DOMAIN told = 1 .. Len(told)
      /\ \A i \in DOMAIN log : log'[i] = log[i]
      /\ \A i \in DOMAIN log' \ DOMAIN log :
           \E k \in DOMAIN told : i = k + Len(log) /\ log'[i] = told[k]
      /\ \A i \in DOMAIN log : log[i] \in Events
      /\ \A k \in DOMAIN told : told[k] \in Said(told)
  BY LogGrows
<1>2. now \in Nat /\ now' \in Nat /\ now <= now' /\ \A e \in Said(told) : e.t = now'
  BY DEF Legal, Typed, Course
<1>3. \A i \in DOMAIN log' \ DOMAIN log : log'[i].t = now'
  BY <1>1, <1>2
<1>4. \A i \in DOMAIN log : log[i].t \in Nat
  BY <1>1 DEF Events
<1>5. \A i \in DOMAIN log' : log'[i].t <= now'
  BY <1>1, <1>2, <1>3, <1>4 DEF InTime
<1>6. ASSUME NEW i \in DOMAIN log', NEW j \in DOMAIN log', i <= j
      PROVE  log'[i].t <= log'[j].t
  <2>1. CASE j \in DOMAIN log
    <3>1. i \in DOMAIN log
      BY <1>1, <1>6, <2>1
    <3> QED
      BY <1>1, <1>6, <2>1, <3>1 DEF InTime
  <2>2. CASE j \notin DOMAIN log
    BY <1>3, <1>5, <2>2
  <2> QED
    BY <2>1, <2>2
<1> QED
  BY <1>5, <1>6 DEF InTime

LEMMA BegunStep ==
  ASSUME Legal, Legal', NEW told, Course(told), Kept, Begun
  PROVE  Begun'
<1>1. /\ Len(log) \in Nat /\ Len(told) \in Nat /\ DOMAIN log = 1 .. Len(log)
      /\ DOMAIN told = 1 .. Len(told)
      /\ \A i \in DOMAIN log : i \in DOMAIN log' /\ log'[i] = log[i]
      /\ \A k \in DOMAIN told : k + Len(log) \in DOMAIN log' /\ log'[k + Len(log)] = told[k]
      /\ \A i \in DOMAIN log' \ DOMAIN log :
           \E k \in DOMAIN told : i = k + Len(log) /\ log'[i] = told[k]
      /\ \A k \in DOMAIN told : told[k] \in Said(told) /\ told[k] \in Events
      /\ \A i \in DOMAIN log : log[i] \in Events
  BY LogGrows
<1>2. PICK new : Opening(told, new)
  BY DEF Course
<1>3. conf' = conf /\ sent' = sent \cup new /\ new \subseteq conf.sends \ sent
  BY <1>2 DEF Course, Opening
<1>4. sent' \subseteq conf'.sends
  BY <1>3 DEF Begun
<1>5. ASSUME NEW k \in DOMAIN told
      PROVE  told[k].m \in sent'
  <2>1. told[k].m \in sent' \/ \E n \in Nodes : Holds(n, told[k].m)
    BY <1>1 DEF Course
  <2>2. ASSUME NEW n \in Nodes, Holds(n, told[k].m)
        PROVE  told[k].m \in sent
    BY <2>2, HoldsMessages DEF Kept
  <2> QED
    BY <1>3, <2>1, <2>2
<1>6. \A i \in DOMAIN log' : log'[i].m \in sent'
  BY <1>1, <1>3, <1>5 DEF Begun
(* A tx_enqueue in what is told is the first event, of the new message. *)
<1>7. ASSUME NEW k, Is(told, k, "tx_enqueue")
      PROVE  k = 1 /\ new = {told[1].m} /\ told[1].node = Origin[told[1].m]
  BY <1>2, <1>7 DEF Opening, Is
<1>8. new # {} => Is(told, 1, "tx_enqueue")
  <2>1. told \in Seq(Events)
    BY DEF Course
  <2>2. told # <<>> => 1 \in DOMAIN told
    BY <1>1, <2>1, EmptySeq
  <2> QED
    BY <1>2, <2>2 DEF Opening, Is
<1>9. ASSUME NEW i, Is(log, i, "tx_enqueue")'
      PROVE  \/ Is(log, i, "tx_enqueue") /\ log'[i] = log[i]
             \/ i = 1 + Len(log) /\ log'[i] = told[1] /\ Is(told, 1, "tx_enqueue")
  <2>1. CASE i \in DOMAIN log
    BY <1>1, <1>9, <2>1 DEF Is
  <2>2. CASE i \notin DOMAIN log
    <3>1. PICK k \in DOMAIN told : i = k + Len(log) /\ log'[i] = told[k]
      BY <1>1, <1>9, <2>2 DEF Is
    <3>2. Is(told, k, "tx_enqueue")
      BY <1>9, <3>1 DEF Is
    <3> QED
      BY <1>7, <3>1, <3>2
  <2> QED
    BY <2>1, <2>2
<1>10. \A i : Is(log, i, "tx_enqueue")' => log'[i].node = Origin[log'[i].m]
  BY <1>7, <1>9 DEF Begun
<1>11. ASSUME NEW i, NEW j, Is(log, i, "tx_enqueue")', Is(log, j, "tx_enqueue")',
              log'[i].m = log'[j].m
       PROVE  i = j
  <2>1. \A k : Is(log, k, "tx_enqueue") => log[k].m \notin new
    BY <1>3 DEF Begun, Is
  <2>2. Is(told, 1, "tx_enqueue") => told[1].m \in new
    BY <1>7
  <2> QED
    <3>1. CASE Is(log, i, "tx_enqueue") /\ log'[i] = log[i]
               /\ Is(log, j, "tx_enqueue") /\ log'[j] = log[j]
      BY <1>11, <3>1 DEF Begun, Once
    <3>2. CASE i = 1 + Len(log) /\ j = 1 + Len(log)
      BY <3>2
    <3>3. CASE Is(log, i, "tx_enqueue") /\ log'[i] = log[i]
               /\ log'[j] = told[1] /\ Is(told, 1, "tx_enqueue")
      BY <1>11, <2>1, <2>2, <3>3
    <3>4. CASE Is(log, j, "tx_enqueue") /\ log'[j] = log[j]
               /\ log'[i] = told[1] /\ Is(told, 1, "tx_enqueue")
      BY <1>11, <2>1, <2>2, <3>4
    <3> QED
      BY <1>9, <1>11, <3>1, <3>2, <3>3, <3>4
<1>12. \A m \in sent' : \E j : Is(log, j, "tx_enqueue")' /\ log'[j].m = m
                               /\ (j \in DOMAIN log \/ j = 1 + Len(log))
  <2>1. ASSUME NEW m \in sent
        PROVE  \E j : Is(log, j, "tx_enqueue")' /\ log'[j].m = m /\ j \in DOMAIN log
    <3>1. PICK j : Is(log, j, "tx_enqueue") /\ log[j].m = m
      BY DEF Begun
    <3> QED
      BY <1>1, <3>1 DEF Is
  <2>2. ASSUME NEW m \in new, NEW j, j = 1 + Len(log)
        PROVE  Is(log, j, "tx_enqueue")' /\ log'[j].m = m
    <3>1. Is(told, 1, "tx_enqueue") /\ m = told[1].m
      BY <1>7, <1>8, <2>2
    <3>2. j \in DOMAIN log' /\ log'[j] = told[1]
      BY <1>1, <2>2, <3>1 DEF Is
    <3> QED
      BY <3>1, <3>2 DEF Is
  <2> QED
    BY <1>3, <2>1, <2>2
<1>13. ASSUME NEW i \in DOMAIN log'
       PROVE  \E j : j <= i /\ Is(log, j, "tx_enqueue")' /\ log'[j].m = log'[i].m
  <2>1. CASE i \in DOMAIN log
    <3>1. PICK j : j <= i /\ Is(log, j, "tx_enqueue") /\ log[j].m = log[i].m
      BY <2>1 DEF Begun
    <3> QED
      BY <1>1, <2>1, <3>1 DEF Is
  <2>2. CASE i \notin DOMAIN log
    <3>1. PICK k \in DOMAIN told : i = k + Len(log)
      BY <1>1, <2>2
    <3>2. PICK j : Is(log, j, "tx_enqueue")' /\ log'[j].m = log'[i].m
                   /\ (j \in DOMAIN log \/ j = 1 + Len(log))
      BY <1>6, <1>12
    <3>3. j <= i
      BY <1>1, <3>1, <3>2
    <3> QED
      BY <3>2, <3>3
  <2> QED
    BY <2>1, <2>2
<1> QED
  BY <1>4, <1>6, <1>10, <1>11, <1>12, <1>13 DEF Begun, Once

LEMMA DeliveredStep ==
  ASSUME Legal, NEW told, Course(told), Delivered
  PROVE  Delivered'
<1>1. /\ Len(log) \in Nat /\ Len(told) \in Nat /\ DOMAIN log = 1 .. Len(log)
      /\ DOMAIN told = 1 .. Len(told)
      /\ \A i \in DOMAIN log : i \in DOMAIN log' /\ log'[i] = log[i]
      /\ \A k \in DOMAIN told : k + Len(log) \in DOMAIN log' /\ log'[k + Len(log)] = told[k]
      /\ \A i \in DOMAIN log' \ DOMAIN log :
           \E k \in DOMAIN told : i = k + Len(log) /\ log'[i] = told[k]
      /\ \A i \in DOMAIN log : log[i] \in Events
  BY LogGrows
<1>2. /\ \A y \in Nodes : \A m \in Messages : seen[y][m] \in Nodes \cup {None}
      /\ \A y \in Nodes : \A m \in Messages :
           seen'[y][m] = seen[y][m] \/ Reaches(told, seen'[y][m], y, m)
      /\ \A x, y, m : Reaches(told, x, y, m) =>
           seen'[y][m] = x /\ \A k \in Nodes \ {y} : seen'[k][m] = seen[k][m]
  BY SeenIs
<1>3. ASSUME NEW k, Is(told, k, "delivered")
      PROVE  /\ seen[Dest[told[k].m]][told[k].m] = None
             /\ seen'[Dest[told[k].m]][told[k].m] # None
             /\ \A j : Is(told, j, "delivered") => j = k
  <2>1. PICK x, y, m : Reaches(told, x, y, m)
    BY <1>3 DEF Course, Arrival, Is
  <2>2. y = Dest[m] /\ told[k].m = m /\ \A j : Is(told, j, "delivered") => j = k
    BY <1>3, <2>1 DEF Reaches, Is
  <2>3. seen[y][m] = None /\ seen'[y][m] = x /\ x \in Nodes
    <3>1. seen[y][m] = None /\ x \in Nodes
      BY <2>1 DEF Reaches
    <3> QED
      BY <1>2, <2>1, <3>1
  <2> QED
    BY <2>2, <2>3, Constants
<1>4. ASSUME NEW i, Is(log, i, "delivered")'
      PROVE  \/ Is(log, i, "delivered") /\ log'[i] = log[i]
             \/ \E k : i = k + Len(log) /\ log'[i] = told[k] /\ Is(told, k, "delivered")
  <2>1. CASE i \in DOMAIN log
    BY <1>1, <1>4, <2>1 DEF Is
  <2>2. CASE i \notin DOMAIN log
    BY <1>1, <1>4, <2>2 DEF Is
  <2> QED
    BY <2>1, <2>2
<1>5. \A y \in Nodes : \A m \in Messages : seen[y][m] # None => seen'[y][m] # None
  BY <1>2 DEF Reaches
<1>6. ASSUME NEW i, Is(log, i, "delivered")
      PROVE  /\ seen[Dest[log[i].m]][log[i].m] # None
             /\ seen'[Dest[log[i].m]][log[i].m] # None
  <2>1. log[i].m \in Messages
    BY <1>1, <1>6 DEF Is, Events
  <2> QED
    BY <1>5, <1>6, <2>1, Constants DEF Delivered
<1>7. \A i : Is(log, i, "delivered")' => seen'[Dest[log'[i].m]][log'[i].m] # None
  BY <1>3, <1>4, <1>6
<1>8. ASSUME NEW i, NEW j, Is(log, i, "delivered")', Is(log, j, "delivered")', log'[i].m = log'[j].m
      PROVE  i = j
  <2>1. CASE Is(log, i, "delivered") /\ log'[i] = log[i] /\ Is(log, j, "delivered") /\ log'[j] = log[j]
    BY <1>8, <2>1 DEF Delivered, Once
  <2>2. ASSUME NEW k, i = k + Len(log), log'[i] = told[k], Is(told, k, "delivered"),
               NEW l, j = l + Len(log), log'[j] = told[l], Is(told, l, "delivered")
        PROVE  i = j
    BY <1>3, <2>2
  <2>3. ASSUME NEW k, log'[i] = told[k], Is(told, k, "delivered"),
               Is(log, j, "delivered"), log'[j] = log[j]
        PROVE  FALSE
    BY <1>3, <1>6, <1>8, <2>3
  <2>4. ASSUME NEW k, log'[j] = told[k], Is(told, k, "delivered"),
               Is(log, i, "delivered"), log'[i] = log[i]
        PROVE  FALSE
    BY <1>3, <1>6, <1>8, <2>4
  <2> QED
    BY <1>4, <1>8, <2>1, <2>2, <2>3, <2>4
<1>9. ASSUME NEW m \in Messages, seen'[Dest[m]][m] # None
      PROVE  \E i : Is(log, i, "delivered")' /\ log'[i].m = m
  <2>1. CASE seen[Dest[m]][m] # None
    <3>1. PICK i : Is(log, i, "delivered") /\ log[i].m = m
      BY <2>1 DEF Delivered
    <3> QED
      BY <1>1, <3>1 DEF Is
  <2>2. CASE seen[Dest[m]][m] = None
    <3>1. Reaches(told, seen'[Dest[m]][m], Dest[m], m)
      BY <1>2, <1>9, <2>2, Constants
    <3>2. PICK k \in DOMAIN told : told[k].type = "delivered" /\ told[k].m = m
      BY <3>1 DEF Reaches
    <3> QED
      BY <1>1, <3>2 DEF Is
  <2> QED
    BY <2>1, <2>2
<1> QED
  BY <1>7, <1>8, <1>9 DEF Delivered, Once

LEMMA RestingStep ==
  ASSUME Legal, NEW told, Course(told), Resting
  PROVE  Resting'
<1>1. /\ Len(log) \in Nat /\ Len(told) \in Nat /\ DOMAIN log = 1 .. Len(log)
      /\ DOMAIN told = 1 .. Len(told)
      /\ \A i \in DOMAIN log : i \in DOMAIN log' /\ log'[i] = log[i]
      /\ \A k \in DOMAIN told : k + Len(log) \in DOMAIN log' /\ log'[k + Len(log)] = told[k]
      /\ \A i \in DOMAIN log' \ DOMAIN log :
           \E k \in DOMAIN told : i = k + Len(log) /\ log'[i] = told[k]
  BY LogGrows
<1>2. Passing(told) /\ PutBack(told)
  BY DEF Course
<1> SUFFICES ASSUME NEW k, Is(log, k, "cascade_requeue")'
             PROVE  \/ \E n \in Nodes : Queued(n, log[k].m)'
                    \/ \E j \in DOMAIN log' : j > k /\ log'[j].type \in SetupEvents /\ log'[j].m = log'[k].m
  BY DEF Resting
<1>3. CASE k \in DOMAIN log
  <2>1. Is(log, k, "cascade_requeue") /\ log'[k] = log[k]
    BY <1>1, <1>3 DEF Is
  <2>2. ASSUME NEW j \in DOMAIN log, j > k, log[j].type \in SetupEvents, log[j].m = log[k].m
        PROVE  j \in DOMAIN log' /\ log'[j].type \in SetupEvents /\ log'[j].m = log'[k].m
    BY <1>1, <2>1, <2>2
  <2>3. ASSUME NEW n \in Nodes, Queued(n, log[k].m)
        PROVE  \/ Queued(n, log[k].m)'
               \/ \E j \in DOMAIN log' : j > k /\ log'[j].type \in SetupEvents /\ log'[j].m = log'[k].m
    <3>0. PICK m : m = log[k].m
      OBVIOUS
    <3>1. Queued(n, m)' \/ Tells(told, SetupEvents, m)
      BY <1>2, <2>3, <3>0 DEF Passing
    <3>2. CASE Queued(n, m)'
      BY <2>1, <3>0, <3>2 DEF Queued
    <3>3. CASE Tells(told, SetupEvents, m)
      <4>1. PICK i \in DOMAIN told : told[i].type \in SetupEvents /\ told[i].m = m
        BY <3>3 DEF Tells, Said
      <4>2. i + Len(log) \in DOMAIN log' /\ i + Len(log) > k /\ log'[i + Len(log)] = told[i]
        BY <1>1, <1>3
      <4> QED
        BY <2>1, <3>0, <4>1, <4>2
    <3> QED
      BY <3>1, <3>2, <3>3
  <2> QED
    BY <2>1, <2>2, <2>3 DEF Resting
<1>4. CASE k \notin DOMAIN log
  <2>1. PICK i \in DOMAIN told : k = i + Len(log) /\ log'[k] = told[i]
    BY <1>1, <1>4 DEF Is
  <2>2. told[i].type = "cascade_requeue"
    BY <2>1 DEF Is
  <2>3. CASE \E n \in Nodes : Queued(n, told[i].m)'
    BY <2>1, <2>3 DEF Queued
  <2>4. ASSUME NEW j \in DOMAIN told, j > i, told[j].type \in SetupEvents, told[j].m = told[i].m
        PROVE  \E l \in DOMAIN log' : l > k /\ log'[l].type \in SetupEvents /\ log'[l].m = log'[k].m
    <3>1. j + Len(log) \in DOMAIN log' /\ j + Len(log) > k /\ log'[j + Len(log)] = told[j]
      BY <1>1, <2>1, <2>4
    <3> QED
      BY <2>1, <2>4, <3>1
  <2> QED
    BY <1>2, <2>2, <2>3, <2>4 DEF PutBack
<1> QED
  BY <1>3, <1>4

(* The invariant the reports rest on.                                      *)
Truth == Legal /\ Kept /\ Rooted /\ LogTrue

LEMMA TruthInit ==
  ASSUME Init
  PROVE  Truth
<1>1. /\ log = <<>> /\ sent = {} /\ now = 0 /\ queue = [n \in Nodes |-> <<>>]
      /\ px = [n \in Nodes |-> None] /\ seen = [n \in Nodes |-> [m \in Messages |-> None]]
  BY DEF Init
<1>2. \A n \in Nodes, m \in Messages : ~Holds(n, m) /\ seen[n][m] = None /\ ~On(n, m)
  BY <1>1 DEF Holds, On, Queued
<1>3. Kept
  <2>1. \A n \in Nodes, m \in Messages : ~Accepted(n, m)
    BY <1>1, <1>2 DEF Accepted
  <2> QED
    BY <1>1, <1>2, <2>1, Constants DEF Kept
<1>4. Rooted
  <2>1. \A m \in Messages : Deeper([n \in Nodes |-> 0], m)
    BY <1>2 DEF Deeper
  <2>2. [n \in Nodes |-> 0] \in [Nodes -> Nat]
    OBVIOUS
  <2> QED
    BY <2>1, <2>2 DEF Rooted
<1>5. LogTrue
  <2>1. DOMAIN log = {} /\ log \in Seq(Events)
    BY <1>1
  <2>2. Paired(log)
    BY <2>1, PairedNone DEF Said
  <2>3. \A m \in Messages : seen[Dest[m]][m] = None
    BY <1>2, Constants
  <2> QED
    BY <1>1, <2>1, <2>2, <2>3 DEF LogTrue, InTime, Begun, Delivered, Resting, Once, Is
<1> QED
  BY <1>3, <1>4, <1>5, LegalInit DEF Truth

LEMMA TruthStep ==
  ASSUME Truth, [Next]_vars
  PROVE  Truth'
<1>1. Legal /\ Legal' /\ Kept /\ Rooted /\ InTime /\ Begun /\ Delivered /\ Paired(log) /\ Resting
  BY LegalStep DEF Truth, LogTrue
<1>2. PICK told : Course(told)
  BY <1>1, StepCourse
<1>3. Kept' /\ Rooted'
  BY <1>1, <1>2, KeptStep, RootedStep
<1>4. InTime' /\ Begun' /\ Delivered' /\ Resting'
  BY <1>1, <1>2, InTimeStep, BegunStep, DeliveredStep, RestingStep
<1>5. Paired(log)'
  <2>1. Paired(told) /\ log' = log \o told
    BY <1>2 DEF Course
  <2>2. Paired(log \o told)
    BY <1>1, <2>1, PairedConcat
  <2> QED
    BY <2>1, <2>2
<1> QED
  BY <1>1, <1>3, <1>4, <1>5 DEF Truth, LogTrue

-----------------------------------------------------------------------------
(* The first and the last event of a kind.                                 *)
LEMMA MaxIs ==
  ASSUME NEW S \in SUBSET Nat, S # {}, NEW b \in Nat, \A x \in S : x <= b
  PROVE  /\ Max(S) \in S /\ \A x \in S : x <= Max(S)
         /\ Min(S) \in S /\ \A x \in S : Min(S) <= x
<1>1. \E x \in S : \A y \in S : x >= y
  BY GreatestNumber
<1>2. \E x \in S : \A y \in S : x <= y
  BY LeastNumber
<1>3. Max(S) \in S /\ \A y \in S : Max(S) >= y
  BY <1>1 DEF Max
<1>4. Min(S) \in S /\ \A y \in S : Min(S) <= y
  BY <1>2 DEF Min
<1> QED
  BY <1>3, <1>4

LEMMA ForIs ==
  ASSUME NEW es \in Seq(Events), NEW types, NEW m
  PROVE  /\ For(es, types, m) = {i \in DOMAIN es : es[i].type \in types /\ es[i].m = m}
         /\ For(es, types, m) \in SUBSET Nat /\ Len(es) \in Nat
         /\ \A i \in For(es, types, m) : i <= Len(es)
         /\ DOMAIN es = 1 .. Len(es) /\ \A i \in DOMAIN es : es[i] \in Events
<1>1. DOMAIN es = 1 .. Len(es) /\ Len(es) \in Nat /\ \A i \in DOMAIN es : es[i] \in Events
  BY LenProperties, ElementOfSeq
<1>2. For(es, types, m) = {i \in DOMAIN es : es[i].type \in types /\ es[i].m = m}
  BY DEF For, Of
<1> QED
  BY <1>1, <1>2

(* What the classifier says.                                               *)
Word(es, m) ==
  es[Max({i \in For(es, StateEvents \union {"tx_enqueue"}, m) :
            i >= Min(For(es, {"tx_enqueue"}, m))})].type
Unresolved(es, m) ==
  CASE Word(es, m) \in SetupEvents -> "rts_setup"
    [] Word(es, m) = "cascade_requeue" -> "requeued"
    [] OTHER -> "queued_never_dequeued"

LEMMA ClassIs ==
  ASSUME NEW es \in Seq(Events)
  PROVE  /\ DOMAIN Classify(es) = {m \in Messages : For(es, {"tx_enqueue"}, m) # {}}
         /\ \A m \in DOMAIN Classify(es) :
              /\ For(es, {"delivered"}, m) # {} => Classify(es)[m] = <<"delivered">>
              /\ For(es, {"delivered"}, m) = {} /\ For(es, TerminalEvents, m) # {} =>
                   Classify(es)[m] = <<"terminal", Terminal(es, m)>>
              /\ For(es, {"delivered"}, m) = {} /\ For(es, TerminalEvents, m) = {} =>
                   Classify(es)[m] = <<"unresolved", Unresolved(es, m)>>
<1>1. DOMAIN Classify(es) = {m \in Messages : For(es, {"tx_enqueue"}, m) # {}}
  BY DEF Classify
<1>2. ASSUME NEW m \in Messages, For(es, {"tx_enqueue"}, m) # {}
      PROVE  Classify(es)[m] =
               CASE For(es, {"delivered"}, m) # {} -> <<"delivered">>
                 [] For(es, {"delivered"}, m) = {} /\ For(es, TerminalEvents, m) # {} ->
                      <<"terminal", Terminal(es, m)>>
                 [] OTHER -> <<"unresolved", Unresolved(es, m)>>
  BY <1>2 DEF Classify, Unresolved, Word
<1>3. ASSUME NEW m \in DOMAIN Classify(es), For(es, {"delivered"}, m) # {}
      PROVE  Classify(es)[m] = <<"delivered">>
  BY <1>1, <1>2, <1>3
<1>4. ASSUME NEW m \in DOMAIN Classify(es),
             For(es, {"delivered"}, m) = {}, For(es, TerminalEvents, m) # {}
      PROVE  Classify(es)[m] = <<"terminal", Terminal(es, m)>>
  BY <1>1, <1>2, <1>4
<1>5. ASSUME NEW m \in DOMAIN Classify(es),
             For(es, {"delivered"}, m) = {}, For(es, TerminalEvents, m) = {}
      PROVE  Classify(es)[m] = <<"unresolved", Unresolved(es, m)>>
  BY <1>1, <1>2, <1>5
<1> QED
  BY <1>1, <1>3, <1>4, <1>5

(* A function from a finite set to numbers is bounded.                     *)
LEMMA Bounds ==
  ASSUME NEW S, IsFiniteSet(S), NEW d, \A x \in S : d[x] \in Nat
  PROVE  \E b \in Nat : \A x \in S : d[x] <= b
<1>1. PICK f \in Seq(S) : \A x \in S : \E i \in 1 .. Len(f) : f[i] = x
  BY DEF IsFiniteSet
<1>2. Len(f) \in Nat /\ \A i \in 1 .. Len(f) : f[i] \in S
  BY <1>1, LenProperties, ElementOfSeq
<1> DEFINE Bounded(k) == \E b \in Nat : \A i \in 1 .. k : d[f[i]] <= b
           Bad == {k \in 0 .. Len(f) : ~Bounded(k)}
<1>3. Bad = {}
  <2>1. SUFFICES ASSUME Bad # {} PROVE FALSE
    OBVIOUS
  <2>2. Bad \in SUBSET Nat
    BY <1>2
  <2>3. PICK k \in Bad : \A j \in Bad : k <= j
    BY <2>1, <2>2, LeastNumber
  <2>k. k \in 0 .. Len(f) /\ k \in Nat
    BY <1>2, <2>3
  <2>4. k # 0
    <3>1. \A i \in 1 .. 0 : d[f[i]] <= 0
      OBVIOUS
    <3>2. Bounded(0)
      BY <3>1
    <3> QED
      BY <2>3, <3>2
  <2>5. k - 1 \in 0 .. Len(f) /\ k \in 1 .. Len(f) /\ ~(k <= k - 1)
    BY <1>2, <2>k, <2>4
  <2>b. Bounded(k - 1)
    BY <2>3, <2>5
  <2>6. PICK b \in Nat : \A i \in 1 .. k - 1 : d[f[i]] <= b
    BY <2>b
  <2>7. PICK c \in Nat : c = d[f[k]]
    BY <1>2, <2>5
  <2> HIDE DEF Bad, Bounded
  <2>s. \A x, y, z \in Nat : (x <= y => x <= y + z) /\ (x = z => x <= y + z)
    OBVIOUS
  <2>8. ASSUME NEW i \in 1 .. k PROVE d[f[i]] <= b + c
    <3>1. /\ i = k \/ i \in 1 .. k - 1
          /\ i \in 1 .. Len(f)
      BY <1>2, <2>k
    <3>2. d[f[i]] \in Nat
      BY <1>2, <3>1
    <3>3. d[f[i]] <= b \/ d[f[i]] = c
      BY <2>6, <2>7, <3>1
    <3> QED
      BY <2>s, <3>2, <3>3
  <2>9. Bounded(k)
    <3>1. b + c \in Nat
      BY <2>6, <2>7
    <3> QED
      BY <2>8, <3>1 DEF Bounded
  <2> QED
    BY <2>3, <2>9 DEF Bad
<1>4. Bounded(Len(f))
  <2>1. Len(f) \in 0 .. Len(f)
    BY <1>2
  <2> QED
    BY <1>3, <2>1
<1>5. PICK b \in Nat : \A i \in 1 .. Len(f) : d[f[i]] <= b
  BY <1>4
<1> QED
  BY <1>1, <1>5

(* Of finitely many nodes one is deepest.                                  *)
LEMMA Deepest ==
  ASSUME NEW d \in [Nodes -> Nat], NEW A \in SUBSET Nodes, A # {}
  PROVE  \E x \in A : \A y \in A : d[y] <= d[x]
<1>1. PICK b \in Nat : \A x \in Nodes : d[x] <= b
  BY Constants, Bounds
<1> DEFINE T == {d[y] : y \in A}
<1>2. T \in SUBSET Nat /\ T # {} /\ \A x \in T : x <= b
  BY <1>1
<1> HIDE DEF T
<1>3. PICK z \in T : \A y \in T : y <= z
  BY <1>2, GreatestNumber
<1> USE DEF T
<1>4. PICK x \in A : z = d[x]
  BY <1>3
<1> QED
  BY <1>3, <1>4

(* A message that was sent, but not delivered, given up or absorbed by its *)
(* originator, is held by the node it has got furthest to.                 *)
LEMMA SomeoneHolds ==
  ASSUME Truth, NEW m \in sent, seen[Dest[m]][m] = None, seen[Origin[m]][m] = None,
         ~Tells(log, TerminalEvents, m)
  PROVE  \E n \in Nodes : Holds(n, m)
<1>1. Typed /\ m \in Messages /\ Origin[m] \in Nodes /\ Dest[m] \in Nodes /\ Origin[m] # Dest[m]
  BY Constants DEF Truth, Legal, Typed
<1>2. PICK d \in [Nodes -> Nat] : Deeper(d, m)
  BY <1>1 DEF Truth, Rooted
<1> DEFINE A == {n \in Nodes : Accepted(n, m)}
<1>3. Origin[m] \in A /\ A \in SUBSET Nodes /\ A # {}
  BY <1>1 DEF Accepted
<1> HIDE DEF A
<1>4. PICK x \in A : \A y \in A : d[y] <= d[x]
  BY <1>2, <1>3, Deepest
<1> USE DEF A
<1>5. x # Dest[m]
  BY <1>1, <1>4 DEF Accepted
<1>6. ~Handed(x, m)
  <2>1. SUFFICES ASSUME NEW y \in Nodes, seen[y][m] = x PROVE FALSE
    BY DEF Handed
  <2>2. x # None
    BY <1>4, Constants
  <2>3. y # Origin[m] /\ y \in A
    BY <2>1, <2>2 DEF Accepted
  <2>4. d[x] < d[y]
    BY <1>2, <2>1, <2>2, <2>3 DEF Deeper
  <2>5. d[x] \in Nat /\ d[y] \in Nat
    BY <1>2, <2>1, <1>4
  <2> QED
    BY <1>4, <2>3, <2>4, <2>5
<1>7. Holds(x, m)
  BY <1>1, <1>4, <1>5, <1>6 DEF Truth, Kept
<1> QED
  BY <1>4, <1>7

(* Where the classifier's last word is. *)
LEMMA WordIs ==
  ASSUME NEW es \in Seq(Events), NEW m, For(es, {"tx_enqueue"}, m) # {}
  PROVE  \E i, j \in DOMAIN es :
           /\ Is(es, j, "tx_enqueue") /\ es[j].m = m
           /\ i >= j /\ es[i].type = Word(es, m) /\ es[i].m = m
           /\ es[i].type \in StateEvents \union {"tx_enqueue"}
           /\ \A k \in DOMAIN es :
                k >= j /\ es[k].m = m /\ es[k].type \in StateEvents \union {"tx_enqueue"} => k <= i
<1> DEFINE E == For(es, {"tx_enqueue"}, m)
           W == For(es, StateEvents \union {"tx_enqueue"}, m)
           L == {i \in W : i >= Min(E)}
<1>1. /\ E = {i \in DOMAIN es : es[i].type \in {"tx_enqueue"} /\ es[i].m = m}
      /\ E \in SUBSET Nat /\ Len(es) \in Nat /\ \A i \in E : i <= Len(es)
  BY ForIs
<1>2. /\ W = {i \in DOMAIN es : es[i].type \in StateEvents \union {"tx_enqueue"} /\ es[i].m = m}
      /\ W \in SUBSET Nat /\ \A i \in W : i <= Len(es)
  BY ForIs
<1>3. Min(E) \in E
  BY <1>1, MaxIs
<1>4. Min(E) \in L /\ L \in SUBSET Nat /\ L # {} /\ \A i \in L : i <= Len(es)
  <2> HIDE DEF E, W
  <2>1. Min(E) \in Nat /\ Min(E) >= Min(E) /\ Min(E) \in W
    <3>1. Min(E) \in Nat /\ Min(E) >= Min(E)
      BY <1>1, <1>3
    <3> QED
      BY <1>1, <1>2, <1>3, <3>1
  <2> QED
    BY <1>2, <2>1
<1>5. Max(L) \in L /\ \A x \in L : x <= Max(L)
  <2> HIDE DEF L
  <2> QED
    BY <1>1, <1>4, MaxIs
<1>6. Word(es, m) = es[Max(L)].type
  BY DEF Word
<1>7. ASSUME NEW i, NEW j, i = Max(L), j = Min(E)
      PROVE  /\ i \in DOMAIN es /\ j \in DOMAIN es
             /\ Is(es, j, "tx_enqueue") /\ es[j].m = m
             /\ i >= j /\ es[i].type = Word(es, m) /\ es[i].m = m
             /\ es[i].type \in StateEvents \union {"tx_enqueue"}
             /\ \A k \in DOMAIN es :
                  k >= j /\ es[k].m = m /\ es[k].type \in StateEvents \union {"tx_enqueue"} => k <= i
  <2>1. j \in E /\ i \in L /\ (\A x \in L : x <= i) /\ es[i].type = Word(es, m)
        /\ L = {x \in W : x >= j}
    BY <1>3, <1>5, <1>6, <1>7
  <2> HIDE DEF L, E, W
  <2> QED
    BY <1>1, <1>2, <2>1 DEF Is
<1> HIDE DEF E, L, W
<1> QED
  BY <1>7

LEMMA ActiveIsOn ==
  ASSUME Legal, NEW m \in Messages
  PROVE  Active(m) <=> \E n \in Nodes : On(n, m)
<1>1. \A f \in air : f.from \in Nodes /\ px[f.from] # None /\ px[f.from].m = f.m
  BY DEF Legal, Typed, Routed, Frames
<1> QED
  BY <1>1 DEF Active, On

LEMMA NothingEnded ==
  ASSUME Truth, NEW m \in DOMAIN Classify(log), Classify(log)[m][1] = "unresolved"
  PROVE  /\ m \in sent /\ For(log, {"tx_enqueue"}, m) # {}
         /\ Classify(log)[m][2] = Unresolved(log, m)
         /\ seen[Dest[m]][m] = None /\ ~Tells(log, TerminalEvents, m)
<1>1. log \in Seq(Events) /\ sent \subseteq Messages /\ Begun /\ Delivered
  BY DEF Truth, Legal, Typed, LogTrue
<1>2. m \in Messages /\ For(log, {"tx_enqueue"}, m) # {}
  BY <1>1, ClassIs
<1>3. For(log, {"delivered"}, m) = {}
  <2>1. SUFFICES ASSUME For(log, {"delivered"}, m) # {} PROVE FALSE
    OBVIOUS
  <2>2. Classify(log)[m] = <<"delivered">>
    BY <1>1, <2>1, ClassIs
  <2> QED
    BY <2>2
<1>4. For(log, TerminalEvents, m) = {}
  <2>1. SUFFICES ASSUME For(log, TerminalEvents, m) # {} PROVE FALSE
    OBVIOUS
  <2>2. Classify(log)[m] = <<"terminal", Terminal(log, m)>>
    BY <1>1, <1>3, <2>1, ClassIs
  <2> QED
    BY <2>2
<1>5. Classify(log)[m][2] = Unresolved(log, m)
  <2>1. Classify(log)[m] = <<"unresolved", Unresolved(log, m)>>
    BY <1>1, <1>3, <1>4, ClassIs
  <2> QED
    BY <2>1
<1>6. m \in sent
  <2>1. PICK i \in For(log, {"tx_enqueue"}, m) : TRUE
    BY <1>2
  <2>2. i \in DOMAIN log /\ log[i].m = m
    BY <1>1, <2>1, ForIs
  <2> QED
    BY <1>1, <2>2 DEF Begun
<1>7. seen[Dest[m]][m] = None
  <2>1. SUFFICES ASSUME seen[Dest[m]][m] # None PROVE FALSE
    OBVIOUS
  <2>2. PICK i : Is(log, i, "delivered") /\ log[i].m = m
    BY <1>1, <1>2, <2>1 DEF Delivered
  <2>3. i \in For(log, {"delivered"}, m)
    BY <1>1, <2>2, ForIs DEF Is
  <2> QED
    BY <1>3, <2>3
<1>8. ~Tells(log, TerminalEvents, m)
  BY <1>1, <1>4, ForIs DEF Tells, Said
<1> QED
  BY <1>2, <1>5, <1>6, <1>7, <1>8

LEMMA NeverDequeued ==
  ASSUME Truth, NEW m \in sent, For(log, {"tx_enqueue"}, m) # {},
         Unresolved(log, m) = "queued_never_dequeued"
  PROVE  Queued(Origin[m], m) /\ ~Active(m)
<1>1. /\ log \in Seq(Events) /\ m \in Messages /\ Begun /\ Kept /\ Legal /\ Len(log) \in Nat
      /\ DOMAIN log = 1 .. Len(log) /\ Origin[m] \in Nodes
  BY LenProperties, Constants DEF Truth, Legal, Typed, LogTrue
<1>2. PICK i \in DOMAIN log, j \in DOMAIN log :
           /\ Is(log, j, "tx_enqueue") /\ log[j].m = m
           /\ i >= j /\ log[i].type = Word(log, m) /\ log[i].m = m
           /\ log[i].type \in StateEvents \union {"tx_enqueue"}
           /\ \A k \in DOMAIN log :
                k >= j /\ log[k].m = m /\ log[k].type \in StateEvents \union {"tx_enqueue"} => k <= i
  BY <1>1, WordIs
<1>3. log[i].type = "tx_enqueue"
  BY <1>2 DEF Unresolved, StateEvents
<1>4. i = j
  BY <1>1, <1>2, <1>3 DEF Begun, Once, Is
<1>5. ~Tells(log, SetupEvents, m)
  <2>1. SUFFICES ASSUME NEW k \in DOMAIN log, log[k].type \in SetupEvents, log[k].m = m PROVE FALSE
    BY DEF Tells, Said
  <2>2. PICK b : b <= k /\ Is(log, b, "tx_enqueue") /\ log[b].m = m
    BY <1>1, <2>1 DEF Begun
  <2>3. b = j
    BY <1>1, <1>2, <2>2 DEF Begun, Once
  <2>4. k <= j
    BY <1>1, <1>2, <1>4, <2>1, <2>2, <2>3 DEF StateEvents
  <2>5. k = j
    BY <1>1, <2>1, <2>2, <2>3, <2>4
  <2> QED
    BY <1>3, <1>4, <2>1, <2>5 DEF SetupEvents
<1>6. Queued(Origin[m], m) /\ \A n \in Nodes : ~On(n, m)
  BY <1>1, <1>5 DEF Kept
<1> QED
  BY <1>1, <1>6, ActiveIsOn

LEMMA RequeuedIsQueued ==
  ASSUME Truth, NEW m \in sent, For(log, {"tx_enqueue"}, m) # {},
         Unresolved(log, m) = "requeued"
  PROVE  \E n \in Nodes : Queued(n, m)
<1>1. /\ log \in Seq(Events) /\ Resting /\ Len(log) \in Nat /\ DOMAIN log = 1 .. Len(log)
  BY LenProperties DEF Truth, Legal, Typed, LogTrue
<1>2. PICK i \in DOMAIN log, j \in DOMAIN log :
           /\ Is(log, j, "tx_enqueue") /\ log[j].m = m
           /\ i >= j /\ log[i].type = Word(log, m) /\ log[i].m = m
           /\ log[i].type \in StateEvents \union {"tx_enqueue"}
           /\ \A k \in DOMAIN log :
                k >= j /\ log[k].m = m /\ log[k].type \in StateEvents \union {"tx_enqueue"} => k <= i
  BY <1>1, WordIs
<1>3. Is(log, i, "cascade_requeue")
  BY <1>2 DEF Unresolved, Is
<1>4. ~ \E k \in DOMAIN log : k > i /\ log[k].type \in SetupEvents /\ log[k].m = m
  BY <1>1, <1>2 DEF StateEvents
<1>5. \/ \E n \in Nodes : Queued(n, log[i].m)
      \/ \E k \in DOMAIN log : k > i /\ log[k].type \in SetupEvents /\ log[k].m = log[i].m
  BY <1>1, <1>3 DEF Resting
<1> QED
  BY <1>2, <1>4, <1>5

LEMMA VanishNothing ==
  ASSUME Truth
  PROVE  NothingVanishes
<1>1. SUFFICES
        ASSUME NEW m \in DOMAIN Classify(log), Classify(log)[m][1] = "unresolved"
        PROVE  /\ Active(m) \/ (\E n \in Nodes : Queued(n, m)) \/ seen[Origin[m]][m] # None
               /\ Classify(log)[m][2] = "queued_never_dequeued" => Queued(Origin[m], m) /\ ~Active(m)
               /\ Classify(log)[m][2] = "requeued" => \E n \in Nodes : Queued(n, m)
  BY DEF NothingVanishes
<1>2. /\ m \in sent /\ For(log, {"tx_enqueue"}, m) # {}
      /\ Classify(log)[m][2] = Unresolved(log, m)
      /\ seen[Dest[m]][m] = None /\ ~Tells(log, TerminalEvents, m)
  BY <1>1, NothingEnded
<1>3. Legal /\ m \in Messages
  BY <1>2 DEF Truth, Legal, Typed
<1>4. ASSUME seen[Origin[m]][m] = None
      PROVE  Active(m) \/ \E n \in Nodes : Queued(n, m)
  <2>1. PICK n \in Nodes : Holds(n, m)
    BY <1>2, <1>4, SomeoneHolds
  <2> QED
    BY <1>3, <2>1, ActiveIsOn DEF Holds
<1>5. Classify(log)[m][2] = "queued_never_dequeued" => Queued(Origin[m], m) /\ ~Active(m)
  BY <1>2, NeverDequeued
<1>6. Classify(log)[m][2] = "requeued" => \E n \in Nodes : Queued(n, m)
  BY <1>2, RequeuedIsQueued
<1> QED
  BY <1>4, <1>5, <1>6

LEMMA TruthHolds == Spec => []Truth
<1>1. Init => Truth
  BY TruthInit
<1>2. Truth /\ [Next]_vars => Truth'
  BY TruthStep
<1> QED
  BY <1>1, <1>2, PTL DEF Spec

(* A message section 8 calls unresolved is still held by a node or on the  *)
(* air, unless a copy came back to its originator, and the classifier's    *)
(* word for it is where it is: no handler of the MAC drops a message       *)
(* without a terminal event.                                               *)
THEOREM NothingIsDropped == Spec => []NothingVanishes
<1>1. Truth => NothingVanishes
  BY VanishNothing
<1> QED
  BY <1>1, TruthHolds, PTL

-----------------------------------------------------------------------------
(* Counting.  MapThenSumSet and SumFunction are recursive functions over   *)
(* the subsets of their argument.  What is added up here are the sizes of  *)
(* the fibers of a function, and their sum has a closed form: how many are *)
(* mapped into the subset.                                                 *)
LEMMA SmallestSet ==
  ASSUME NEW D, IsFiniteSet(D), NEW Family \in SUBSET SUBSET D, Family # {}
  PROVE  \E s \in Family : \A u \in Family : ~(Cardinality(u) < Cardinality(s))
<1> DEFINE Sizes == {Cardinality(s) : s \in Family}
<1>1. \A s \in Family : Cardinality(s) \in Nat
  BY FS_Subset, FS_CardinalityType
<1>2. Sizes \in SUBSET Nat /\ Sizes # {}
  BY <1>1
<1> HIDE DEF Sizes
<1>3. PICK n \in Sizes : \A x \in Sizes : n <= x
  BY <1>2, LeastNumber
<1>4. PICK s \in Family : n = Cardinality(s)
  BY DEF Sizes
<1>5. \A u \in Family : Cardinality(u) \in Sizes
  BY DEF Sizes
<1> QED
  BY <1>1, <1>3, <1>4, <1>5

LEMMA Splits ==
  ASSUME NEW S, IsFiniteSet(S), NEW A, NEW B, A \union B = S, A \cap B = {}
  PROVE  /\ Cardinality(S) = Cardinality(A) + Cardinality(B)
         /\ Cardinality(A) \in Nat /\ Cardinality(B) \in Nat
         /\ IsFiniteSet(A) /\ IsFiniteSet(B)
<1>1. IsFiniteSet(A) /\ IsFiniteSet(B)
  BY FS_Subset
<1>2. Cardinality(A) \in Nat /\ Cardinality(B) \in Nat
  BY <1>1, FS_CardinalityType
<1>3. Cardinality(A \union B) = Cardinality(A) + Cardinality(B) - Cardinality(A \cap B)
  BY <1>1, FS_Union
<1>4. Cardinality(A \cap B) = 0
  BY FS_EmptySet
<1> QED
  BY <1>1, <1>2, <1>3, <1>4

LEMMA Image ==
  ASSUME NEW S, IsFiniteSet(S), NEW T, NEW g, \A t \in T : \E x \in S : g[x] = t
  PROVE  IsFiniteSet(T)
<1> DEFINE U == {x \in S : g[x] \in T}
           h == [x \in U |-> g[x]]
<1>1. IsFiniteSet(U)
  BY FS_Subset
<1>2. h \in Surjection(U, T)
  BY DEF Surjection
<1> QED
  BY <1>1, <1>2, FS_Surjection

Pick(s) == CHOOSE x \in s : TRUE

LEMMA PickIn ==
  ASSUME NEW s, s # {}
  PROVE  Pick(s) \in s
BY DEF Pick

LEMMA Shrinks ==
  ASSUME NEW D, IsFiniteSet(D), NEW s \in SUBSET D, NEW x \in s
  PROVE  s \ {x} \in SUBSET D /\ Cardinality(s \ {x}) < Cardinality(s)
<1>1. IsFiniteSet(s) /\ s # {}
  BY FS_Subset
<1>2. Cardinality(s) \in Nat
  BY <1>1, FS_CardinalityType
<1>3. Cardinality(s \ {x}) = Cardinality(s) - 1
  BY <1>1, FS_RemoveElement
<1> QED
  BY <1>2, <1>3

(* f adds up the weights w of the elements of S. *)
Adds(f, w, S) == f = [s \in SUBSET S |-> IF s = {} THEN 0 ELSE w[Pick(s)] + f[s \ {Pick(s)}]]

LEMMA AddsAgree ==
  ASSUME NEW S, IsFiniteSet(S), NEW w, NEW f, NEW g, Adds(f, w, S), Adds(g, w, S)
  PROVE  f[S] = g[S]
<1> DEFINE Bad == {s \in SUBSET S : f[s] # g[s]}
<1>1. SUFFICES ASSUME Bad # {} PROVE FALSE
  OBVIOUS
<1>3. PICK s \in Bad : \A u \in Bad : ~(Cardinality(u) < Cardinality(s))
  <2>1. Bad \in SUBSET SUBSET S
    OBVIOUS
  <2> HIDE DEF Bad
  <2> QED
    BY <1>1, <2>1, SmallestSet
<1>4. s \in SUBSET S
  BY <1>3
<1>5. f[s] = IF s = {} THEN 0 ELSE w[Pick(s)] + f[s \ {Pick(s)}]
  BY <1>4 DEF Adds
<1>6. g[s] = IF s = {} THEN 0 ELSE w[Pick(s)] + g[s \ {Pick(s)}]
  BY <1>4 DEF Adds
<1>7. CASE s = {}
  BY <1>3, <1>5, <1>6, <1>7
<1>8. CASE s # {}
  <2>1. Pick(s) \in s
    BY <1>8, PickIn
  <2>2. s \ {Pick(s)} \in SUBSET S /\ Cardinality(s \ {Pick(s)}) < Cardinality(s)
    BY <1>4, <2>1, Shrinks
  <2>3. s \ {Pick(s)} \notin Bad
    BY <1>3, <2>2
  <2>4. f[s \ {Pick(s)}] = g[s \ {Pick(s)}]
    BY <2>2, <2>3
  <2> QED
    BY <1>3, <1>5, <1>6, <1>8, <2>4
<1> QED
  BY <1>7, <1>8

(* w[v] is how many elements of E the function f maps to v. *)
Fibers(E, f, S, w) ==
  /\ IsFiniteSet(E) /\ IsFiniteSet(S) /\ \A x \in E : f[x] \in S
  /\ \A v \in S : w[v] = Cardinality({x \in E : f[x] = v})

LEMMA FibersAdd ==
  ASSUME NEW E, NEW f, NEW S, NEW w, Fibers(E, f, S, w)
  PROVE  /\ \E g : Adds(g, w, S)
         /\ \A g : Adds(g, w, S) => g[S] = Cardinality(E)
<1> DEFINE In(s) == {x \in E : f[x] \in s}
           G == [s \in SUBSET S |-> Cardinality(In(s))]
           R(s) == IF s = {} THEN 0 ELSE w[Pick(s)] + G[s \ {Pick(s)}]
<1>1. ASSUME NEW s \in SUBSET S PROVE G[s] = R(s)
  <2>1. G[s] = Cardinality(In(s)) /\ IsFiniteSet(In(s))
    BY FS_Subset DEF Fibers
  <2>2. CASE s = {}
    <3>1. In(s) = {}
      BY <2>2
    <3>2. Cardinality(In(s)) = 0
      BY <3>1, FS_EmptySet
    <3> QED
      BY <2>1, <2>2, <3>2
  <2>3. CASE s # {}
    <3>1. Pick(s) \in s
      BY <2>3, PickIn
    <3> DEFINE p == Pick(s)
               A == {x \in E : f[x] = p}
    <3>2. w[p] = Cardinality(A)
      BY <3>1 DEF Fibers
    <3>3. G[s \ {p}] = Cardinality(In(s \ {p}))
      OBVIOUS
    <3> DEFINE B == In(s \ {p})
               C == In(s)
    <3>4. A \union B = C /\ A \cap B = {} /\ IsFiniteSet(C)
      BY <2>1, <3>1
    <3> HIDE DEF A, In, G, p, B, C
    <3>5. Cardinality(C) = Cardinality(A) + Cardinality(B)
      BY <3>4, Splits
    <3> USE DEF B, C
    <3>6. G[s] = w[p] + G[s \ {p}]
      BY <2>1, <3>2, <3>3, <3>5
    <3> QED
      BY <2>3, <3>6 DEF p
  <2> QED
    BY <2>2, <2>3
<1>2. G = [s \in SUBSET S |-> G[s]]
  OBVIOUS
<1>3. G[S] = Cardinality(E)
  <2>1. In(S) = E
    BY DEF Fibers
  <2> QED
    BY <2>1
<1> HIDE DEF G
<1>4. [s \in SUBSET S |-> G[s]] = [s \in SUBSET S |-> R(s)]
  <2> HIDE DEF R
  <2> QED
    BY <1>1
<1>5. Adds(G, w, S)
  BY <1>2, <1>4 DEF Adds
<1>6. ASSUME NEW g, Adds(g, w, S) PROVE g[S] = Cardinality(E)
  <2>1. g[S] = G[S]
    BY <1>5, <1>6, AddsAgree DEF Fibers
  <2> QED
    BY <1>3, <2>1
<1> QED
  BY <1>5, <1>6

(* The counts of a Counter add up to what was counted. *)
LEMMA FunctionSum ==
  ASSUME NEW E, NEW f, NEW w, Fibers(E, f, DOMAIN w, w)
  PROVE  SumFunction(w) = Cardinality(E)
<1> DEFINE S == DOMAIN w
           it == CHOOSE g : g = [s \in SUBSET S |-> IF s = {} THEN 0 ELSE w[CHOOSE x \in s : TRUE] + g[s \ {CHOOSE x \in s : TRUE}]]
<1>1. SumFunction(w) = it[S]
  BY DEF SumFunction, SumFunctionOnSet, FoldFunctionOnSet, MapThenFoldSet
<1>2. \E g : Adds(g, w, S)
  BY FibersAdd
<1>3. Adds(it, w, S)
  BY <1>2 DEF Adds, Pick
<1> HIDE DEF it
<1> QED
  BY <1>1, <1>3, FibersAdd

LEMMA TallyIs ==
  ASSUME NEW E, IsFiniteSet(E), NEW f, DOMAIN f = E
  PROVE  Total(Tally(f)) = Cardinality(E)
<1> DEFINE w == Tally(f)
<1>1. DOMAIN w = {f[x] : x \in E} /\ \A v \in DOMAIN w : w[v] = Cardinality({x \in E : f[x] = v})
  BY DEF Tally, Range
<1>2. IsFiniteSet(DOMAIN w)
  <2>1. \A v \in DOMAIN w : \E x \in E : f[x] = v
    BY <1>1
  <2> HIDE DEF w
  <2> QED
    BY <2>1, Image
<1>3. Fibers(E, f, DOMAIN w, w)
  <2> HIDE DEF w
  <2> QED
    BY <1>1, <1>2 DEF Fibers
<1> HIDE DEF w
<1>4. SumFunction(w) = Cardinality(E)
  BY <1>3, FunctionSum
<1> QED
  BY <1>4 DEF Total, w

(* Two functions that one-to-one take the same values have one tally.      *)
LEMMA TallyCarries ==
  ASSUME NEW A, NEW B, NEW f, NEW g, NEW h, IsFiniteSet(A), A = DOMAIN f, B = DOMAIN g,
         \A x \in A : h[x] \in B /\ g[h[x]] = f[x],
         \A x, y \in A : h[x] = h[y] => x = y,
         \A z \in B : \E x \in A : h[x] = z
  PROVE  Tally(f) = Tally(g)
<1> DEFINE Count1(v) == Cardinality({x \in A : f[x] = v})
           Count2(v) == Cardinality({x \in B : g[x] = v})
<1>1. Tally(f) = [v \in {f[x] : x \in A} |-> Count1(v)]
  BY DEF Tally, Range
<1>2. Tally(g) = [v \in {g[x] : x \in B} |-> Count2(v)]
  BY DEF Tally, Range
<1>3. {f[x] : x \in A} = {g[x] : x \in B}
  OBVIOUS
<1>4. ASSUME NEW v PROVE Count1(v) = Count2(v)
  <2> DEFINE S == {x \in A : f[x] = v}
             T == {x \in B : g[x] = v}
             k == [x \in S |-> h[x]]
  <2>1. IsFiniteSet(S)
    BY FS_Subset
  <2>2. k \in [S -> T] /\ (\A x, y \in S : k[x] = k[y] => x = y) /\ \A t \in T : \E x \in S : k[x] = t
    <3>1. \A x \in S : h[x] \in T
      OBVIOUS
    <3>2. \A t \in T : \E x \in S : h[x] = t
      OBVIOUS
    <3>3. \A x, y \in S : h[x] = h[y] => x = y
      OBVIOUS
    <3> HIDE DEF S, T
    <3> QED
      BY <3>1, <3>2, <3>3
  <2> HIDE DEF S, T, k
  <2>3. Cardinality(T) = Cardinality(S)
    BY <2>1, <2>2, SameSize
  <2> QED
    BY <2>3 DEF S, T
<1> HIDE DEF Count1, Count2
<1> QED
  BY <1>1, <1>2, <1>3, <1>4

(* What iter_events leaves of a log in the order of its times: its end.    *)
Cutoff(es, k, since) ==
  /\ es \in Seq(Events) /\ k \in 0 .. Len(log) /\ Len(es) = Len(log) - k
  /\ \A i \in 1 .. Len(es) : es[i] = log[i + k]
  /\ \A i \in 1 .. Len(log) : log[i].t >= since <=> i > k

Shifted(es, k, n) == [j \in 1 .. n |-> es[j + k]]
Above(i, k) == IF i <= k THEN 0 ELSE i - k

LEMMA ShiftedGrows ==
  ASSUME NEW es \in Seq(Events), NEW k \in Nat, NEW n \in Nat, n + 1 + k <= Len(es)
  PROVE  Shifted(es, k, n + 1) = Append(Shifted(es, k, n), es[n + 1 + k])
<1>1. Len(es) \in Nat /\ \A j \in 1 .. Len(es) : es[j] \in Events
  BY LenProperties, ElementOfSeq
<1> DEFINE a == Shifted(es, k, n)
           b == Shifted(es, k, n + 1)
           e == es[n + 1 + k]
<1>2. e \in Events
  BY <1>1
<1>3. \A j \in 1 .. n + 1 : es[j + k] \in Events
  BY <1>1
<1>4. /\ a \in Seq(Events) /\ Len(a) = n /\ \A j \in 1 .. n : a[j] = es[j + k]
  BY <1>3, IsASeq DEF Shifted
<1>5. /\ b \in Seq(Events) /\ Len(b) = n + 1 /\ \A j \in 1 .. n + 1 : b[j] = es[j + k]
  BY <1>3, IsASeq DEF Shifted
<1> HIDE DEF a, b, e
<1>6. /\ Append(a, e) \in Seq(Events) /\ Len(Append(a, e)) = Len(a) + 1
      /\ \A i \in 1 .. Len(a) : Append(a, e)[i] = a[i]
      /\ Append(a, e)[Len(a) + 1] = e
  BY <1>2, <1>4, AppendProperties
<1>7. \A i \in 1 .. Len(b) : b[i] = Append(a, e)[i]
  <2>1. ASSUME NEW i \in 1 .. n + 1 PROVE b[i] = Append(a, e)[i]
    <3>1. CASE i = n + 1
      BY <1>4, <1>5, <1>6, <3>1 DEF e
    <3>2. CASE i # n + 1
      <4>1. i \in 1 .. n
        BY <3>2
      <4> QED
        BY <1>4, <1>5, <1>6, <4>1
    <3> QED
      BY <3>1, <3>2
  <2> QED
    BY <1>5, <2>1
<1>8. b = Append(a, e)
  BY <1>4, <1>5, <1>6, <1>7, SeqEqual
<1> QED
  BY <1>8 DEF a, b, e

(* How far the events are too early. *)
LEMMA EarlyIs ==
  ASSUME Truth, NEW since \in Nat
  PROVE  \E k \in 0 .. Len(log) : \A i \in 1 .. Len(log) : log[i].t >= since <=> i > k
<1>1. /\ Len(log) \in Nat /\ DOMAIN log = 1 .. Len(log)
      /\ \A i \in 1 .. Len(log) : log[i].t \in Nat
      /\ \A i, j \in 1 .. Len(log) : i <= j => log[i].t <= log[j].t
  <2>1. log \in Seq(Events) /\ InTime
    BY DEF Truth, Legal, Typed, LogTrue
  <2>2. Len(log) \in Nat /\ DOMAIN log = 1 .. Len(log) /\ \A i \in 1 .. Len(log) : log[i] \in Events
    BY <2>1, LenProperties, ElementOfSeq
  <2> QED
    BY <2>1, <2>2 DEF InTime, Events
<1> DEFINE Late == {i \in 1 .. Len(log) : log[i].t >= since}
<1>2. CASE Late = {}
  <2>1. Len(log) \in 0 .. Len(log) /\ \A i \in 1 .. Len(log) : ~(log[i].t >= since) /\ ~(i > Len(log))
    BY <1>1, <1>2
  <2> QED
    BY <2>1
<1>3. CASE Late # {}
  <2>1. Late \in SUBSET Nat
    OBVIOUS
  <2>2. PICK f \in Late : \A i \in Late : f <= i
    <3> HIDE DEF Late
    <3> QED
      BY <1>3, <2>1, LeastNumber
  <2>3. f - 1 \in 0 .. Len(log)
    BY <1>1, <2>2
  <2>4. ASSUME NEW i \in 1 .. Len(log) PROVE log[i].t >= since <=> i > f - 1
    <3>1. CASE i < f
      <4>1. i \notin Late
        BY <2>2, <3>1
      <4> QED
        BY <2>2, <3>1, <4>1
    <3>2. CASE i >= f
      <4>1. log[f].t <= log[i].t /\ log[f].t >= since
        BY <1>1, <2>2, <3>2
      <4>2. log[i].t >= since
        BY <1>1, <2>2, <4>1
      <4> QED
        BY <2>2, <3>2, <4>2
    <3> QED
      BY <2>2, <3>1, <3>2
  <2> QED
    BY <2>3, <2>4
<1> QED
  BY <1>2, <1>3

LEMMA SinceIs ==
  ASSUME Truth, NEW since \in Nat
  PROVE  \E k : Cutoff(Since(log, since), k, since)
<1>1. log \in Seq(Events) /\ Len(log) \in Nat /\ \A i \in 1 .. Len(log) : log[i] \in Events
  <2>1. log \in Seq(Events)
    BY DEF Truth, Legal, Typed
  <2> QED
    BY <2>1, LenProperties, ElementOfSeq
<1>2. PICK k \in 0 .. Len(log) : \A i \in 1 .. Len(log) : log[i].t >= since <=> i > k
  BY EarlyIs
<1> DEFINE N == Len(log)
           Step(f, i) == IF i = 0 THEN <<>>
                         ELSE IF log[i].t >= since THEN Append(f[i-1], log[i]) ELSE f[i-1]
           Cuts(f) == f = [i \in 0 .. N |-> Step(f, i)]
           it == CHOOSE f : Cuts(f)
           G == [i \in 0 .. N |-> Shifted(log, k, Above(i, k))]
<1>3. Since(log, since) = it[N]
  BY DEF Since
<1>4. ASSUME NEW i \in 0 .. N PROVE G[i] = Step(G, i)
  <2>1. G[i] = Shifted(log, k, Above(i, k))
    OBVIOUS
  <2>2. CASE i = 0
    <3>1. Above(i, k) = 0
      BY <1>2, <2>2 DEF Above
    <3>2. Shifted(log, k, 0) = <<>>
      BY DEF Shifted
    <3> QED
      BY <2>1, <2>2, <3>1, <3>2
  <2>3. CASE i # 0
    <3>1. i - 1 \in 0 .. N /\ i \in 1 .. N
      BY <1>1, <2>3
    <3>2. G[i - 1] = Shifted(log, k, Above(i - 1, k))
      BY <3>1
    <3> HIDE DEF G
    <3>3. CASE i <= k
      <4>1. Above(i, k) = 0 /\ Above(i - 1, k) = 0 /\ ~(log[i].t >= since)
        BY <1>2, <3>1, <3>3 DEF Above
      <4> QED
        BY <2>1, <2>3, <3>2, <4>1
    <3>4. CASE i > k
      <4> DEFINE n == i - 1 - k
      <4>1. n \in Nat /\ n + 1 + k = i /\ n + 1 + k <= Len(log) /\ k \in Nat
        BY <1>1, <1>2, <3>1, <3>4
      <4>2. Above(i, k) = n + 1 /\ Above(i - 1, k) = n /\ log[i].t >= since
        BY <1>1, <1>2, <3>1, <3>4 DEF Above
      <4> HIDE DEF n
      <4>3. Shifted(log, k, n + 1) = Append(Shifted(log, k, n), log[n + 1 + k])
        BY <1>1, <4>1, ShiftedGrows
      <4> QED
        BY <2>1, <2>3, <3>2, <4>1, <4>2, <4>3
    <3> QED
      BY <1>2, <3>1, <3>3, <3>4
  <2> QED
    BY <2>2, <2>3
<1>5. Cuts(G)
  <2>1. G = [i \in 0 .. N |-> G[i]]
    OBVIOUS
  <2> HIDE DEF G, Step
  <2>2. [i \in 0 .. N |-> G[i]] = [i \in 0 .. N |-> Step(G, i)]
    BY <1>4
  <2> QED
    BY <2>1, <2>2
<1>6. Cuts(it)
  <2> HIDE DEF Cuts, G
  <2> QED
    BY <1>5
<1> HIDE DEF G, it
<1>7. \A i \in 0 .. N : it[i] = Step(it, i)
  <2> HIDE DEF Step
  <2> QED
    BY <1>6
<1> DEFINE Bad == {i \in 0 .. N : it[i] # G[i]}
<1>8. Bad = {}
  <2>1. SUFFICES ASSUME Bad # {} PROVE FALSE
    OBVIOUS
  <2>2. Bad \in SUBSET Nat
    OBVIOUS
  <2>3. PICK i \in Bad : \A j \in Bad : i <= j
    <3> HIDE DEF Bad
    <3> QED
      BY <2>1, <2>2, LeastNumber
  <2>4. i \in 0 .. N /\ it[i] # G[i]
    BY <2>3
  <2>5. i # 0
    BY <1>4, <1>7, <2>4
  <2>6. i - 1 \in 0 .. N /\ i - 1 \notin Bad
    BY <1>1, <2>3, <2>4, <2>5
  <2>7. it[i - 1] = G[i - 1]
    BY <2>6
  <2> HIDE DEF Bad
  <2> QED
    BY <1>4, <1>7, <2>4, <2>5, <2>7
<1>9. Since(log, since) = Shifted(log, k, N - k)
  <2>1. N \in 0 .. N /\ Above(N, k) = N - k
    BY <1>1, <1>2 DEF Above
  <2>2. it[N] = G[N]
    BY <1>8, <2>1
  <2> QED
    BY <1>3, <2>1, <2>2 DEF G
<1>10. /\ Shifted(log, k, N - k) \in Seq(Events) /\ Len(Shifted(log, k, N - k)) = N - k
       /\ \A j \in 1 .. N - k : Shifted(log, k, N - k)[j] = log[j + k]
  <2>1. N - k \in Nat /\ \A j \in 1 .. N - k : log[j + k] \in Events
    BY <1>1, <1>2
  <2> QED
    BY <2>1, IsASeq DEF Shifted
<1> QED
  BY <1>2, <1>9, <1>10 DEF Cutoff

(* What the reports rely on in what they read: a message is enqueued once, *)
(* at its originator and before anything else is said of it, delivered     *)
(* once, and given up only together with an exhaustion.                    *)
Sound(es) ==
  /\ es \in Seq(Events) /\ Once(es, "tx_enqueue") /\ Once(es, "delivered")
  /\ \A i : Is(es, i, "tx_enqueue") => es[i].node = Origin[es[i].m]
  /\ \A i, j : i \in DOMAIN es /\ Is(es, j, "tx_enqueue") /\ es[j].m = es[i].m =>
                 j <= i /\ es[j].t <= es[i].t
  /\ \A i \in DOMAIN es : es[i].type \in {"rts_giveup", "data_ack_giveup"} =>
       \E j : Is(es, j, "path_cascade_exhausted") /\ es[j].m = es[i].m

LEMMA CutoffSound ==
  ASSUME Truth, NEW es, NEW k, NEW since, Cutoff(es, k, since)
  PROVE  Sound(es)
<1>1. /\ log \in Seq(Events) /\ InTime /\ Begun /\ Delivered /\ Paired(log)
  BY DEF Truth, Legal, Typed, LogTrue
<1>2. /\ Len(log) \in Nat /\ DOMAIN log = 1 .. Len(log) /\ \A i \in 1 .. Len(log) : log[i] \in Events
  BY <1>1, LenProperties, ElementOfSeq
<1>3. /\ es \in Seq(Events) /\ k \in Nat /\ k <= Len(log) /\ DOMAIN es = 1 .. Len(log) - k
      /\ Len(es) = Len(log) - k
  BY <1>2, LenProperties DEF Cutoff
<1>4. \A i \in DOMAIN es : es[i] = log[i + k] /\ i + k \in DOMAIN log
  BY <1>2, <1>3 DEF Cutoff
<1>5. \A i, type : Is(es, i, type) => i \in Nat /\ Is(log, i + k, type) /\ es[i] = log[i + k]
  BY <1>3, <1>4 DEF Is
<1>6. Once(es, "tx_enqueue") /\ Once(es, "delivered")
  <2>1. ASSUME NEW type, Once(log, type) PROVE Once(es, type)
    <3>1. SUFFICES ASSUME NEW i, NEW j, Is(es, i, type), Is(es, j, type), es[i].m = es[j].m
                   PROVE  i = j
      BY DEF Once
    <3>2. i + k = j + k
      BY <1>5, <2>1, <3>1 DEF Once
    <3> QED
      BY <1>3, <1>5, <3>1, <3>2
  <2> QED
    BY <1>1, <2>1 DEF Begun, Delivered
<1>7. \A i : Is(es, i, "tx_enqueue") => es[i].node = Origin[es[i].m]
  BY <1>1, <1>5 DEF Begun
<1>8. ASSUME NEW i, NEW j, i \in DOMAIN es, Is(es, j, "tx_enqueue"), es[j].m = es[i].m
      PROVE  j <= i /\ es[j].t <= es[i].t
  <2>1. i + k \in DOMAIN log /\ es[i] = log[i + k] /\ Is(log, j + k, "tx_enqueue") /\ es[j] = log[j + k]
    BY <1>4, <1>5, <1>8
  <2>2. PICK b : b <= i + k /\ Is(log, b, "tx_enqueue") /\ log[b].m = log[i + k].m
    BY <1>1, <2>1 DEF Begun
  <2>3. b = j + k
    BY <1>1, <1>8, <2>1, <2>2 DEF Begun, Once
  <2>4. j + k <= i + k /\ j + k \in DOMAIN log
    BY <2>1, <2>2, <2>3 DEF Is
  <2>5. log[j + k].t <= log[i + k].t
    BY <1>1, <2>1, <2>4 DEF InTime
  <2>6. j \in Nat /\ i \in Nat
    BY <1>3, <1>8 DEF Is
  <2> QED
    BY <1>3, <2>1, <2>4, <2>5, <2>6
<1>9. ASSUME NEW i \in DOMAIN es, es[i].type \in {"rts_giveup", "data_ack_giveup"}
      PROVE  \E j : Is(es, j, "path_cascade_exhausted") /\ es[j].m = es[i].m
  <2>1. i + k \in 1 .. Len(log) /\ es[i] = log[i + k] /\ log[i + k].t >= since
    BY <1>2, <1>3, <1>4, <1>9 DEF Cutoff
  <2>2. log[i + k] \in Said(log) \cap Giveups
    BY <1>2, <1>9, <2>1 DEF Said, Giveups, Kind
  <2>3. PICK f \in Said(log) \cap Exhausted : f.m = log[i + k].m /\ f.t = log[i + k].t
    BY <1>1, <2>2 DEF Paired
  <2>4. PICK j \in 1 .. Len(log) : log[j] = f
    BY <1>2, <2>3 DEF Said
  <2>5. log[j].type = "path_cascade_exhausted" /\ log[j].t >= since
    BY <2>1, <2>3, <2>4 DEF Exhausted, Kind
  <2>6. j > k
    BY <2>4, <2>5 DEF Cutoff
  <2>7. j - k \in DOMAIN es /\ (j - k) + k = j
    BY <1>2, <1>3, <2>4, <2>6
  <2>8. es[j - k] = log[j]
    BY <1>4, <2>7
  <2> QED
    BY <2>1, <2>3, <2>4, <2>5, <2>7, <2>8 DEF Is
<1> QED
  BY <1>3, <1>6, <1>7, <1>8, <1>9 DEF Sound

LEMMA LogCutoff ==
  ASSUME Truth
  PROVE  Cutoff(log, 0, 0)
<1>1. log \in Seq(Events)
  BY DEF Truth, Legal, Typed
<1>2. Len(log) \in Nat /\ \A i \in 1 .. Len(log) : log[i] \in Events
  BY <1>1, LenProperties, ElementOfSeq
<1>3. \A i \in 1 .. Len(log) : log[i].t \in Nat /\ i + 0 = i /\ i > 0
  BY <1>2 DEF Events
<1> QED
  BY <1>1, <1>2, <1>3 DEF Cutoff

(* The messages of which es says so, and the event of each that does.      *)
Tell(es, type) == {m \in Messages : \E i : Is(es, i, type) /\ es[i].m = m}

LEMMA FirstsIs ==
  ASSUME NEW es \in Seq(Events), NEW type, NEW types, types = {type}
  PROVE  /\ DOMAIN Firsts(es, types) = Tell(es, type) /\ IsFiniteSet(Tell(es, type))
         /\ \A m \in Tell(es, type) : Firsts(es, types)[m] = es[Min(For(es, types, m))]
         /\ Of(es, types) = {i \in DOMAIN es : Is(es, i, type)}
<1>1. /\ DOMAIN es = 1 .. Len(es) /\ Len(es) \in Nat /\ \A i \in DOMAIN es : es[i] \in Events
      /\ IsFiniteSet(DOMAIN es)
  BY LenProperties, ElementOfSeq, FS_Interval
<1>2. Of(es, types) = {i \in DOMAIN es : Is(es, i, type)}
  BY DEF Of, Is
<1>4. {es[i].m : i \in Of(es, types)} = Tell(es, type)
  BY <1>1, <1>2 DEF Tell, Is, Events
<1>5. /\ DOMAIN Firsts(es, types) = Tell(es, type)
      /\ \A m \in Tell(es, type) : Firsts(es, types)[m] = es[Min(For(es, types, m))]
  BY <1>4 DEF Firsts
<1>6. IsFiniteSet(Tell(es, type))
  <2> DEFINE g == [i \in DOMAIN es |-> es[i].m]
  <2>1. \A m \in Tell(es, type) : \E i \in DOMAIN es : g[i] = m
    BY DEF Tell, Is
  <2> HIDE DEF g
  <2> QED
    BY <1>1, <2>1, Image
<1> QED
  BY <1>2, <1>5, <1>6

(* Where a message has one such event, that is the first. *)
LEMMA FirstIsOnly ==
  ASSUME NEW es \in Seq(Events), NEW type, Once(es, type),
         NEW types, types = {type}, NEW i, Is(es, i, type)
  PROVE  /\ es[i].m \in Tell(es, type)
         /\ Firsts(es, types)[es[i].m] = es[i]
<1>1. i \in DOMAIN es /\ es[i] \in Events /\ i \in Nat
  BY LenProperties, ElementOfSeq DEF Is
<1>2. PICK m : m = es[i].m
  OBVIOUS
<1>3. For(es, types, m) = {i}
  <2>1. For(es, types, m) = {j \in DOMAIN es : es[j].type = type /\ es[j].m = m}
    BY DEF For, Of
  <2>2. \A j \in DOMAIN es : es[j].type = type /\ es[j].m = m => j = i
    BY <1>2 DEF Once, Is
  <2>3. es[i].type = type
    BY DEF Is
  <2> QED
    BY <1>1, <1>2, <2>1, <2>2, <2>3
<1>4. Min({i}) = i
  <2>1. {i} \in SUBSET Nat /\ {i} # {} /\ \A x \in {i} : x <= i
    BY <1>1
  <2>2. Min({i}) \in {i}
    BY <1>1, <2>1, MaxIs
  <2> QED
    BY <2>2
<1>5. m \in Tell(es, type)
  BY <1>1, <1>2 DEF Tell, Events
<1>6. Firsts(es, types)[m] = es[Min(For(es, types, m))]
  BY <1>5, FirstsIs
<1> QED
  BY <1>2, <1>3, <1>4, <1>5, <1>6

Began(es) == Tell(es, "tx_enqueue")
Out(es) == Tell(es, "delivered")
Gone(es) == Tell(es, "path_cascade_exhausted")
Dead(es) == (Gone(es) \cap Began(es)) \ Out(es)

(* What section 8 says, message by message. *)
LEMMA BreakdownIs ==
  ASSUME NEW es, Sound(es)
  PROVE  /\ DOMAIN Breakdown(es).enqueued = Began(es) /\ IsFiniteSet(Began(es))
         /\ \A i : Is(es, i, "tx_enqueue") => Breakdown(es).enqueued[es[i].m] = es[i]
         /\ Breakdown(es).delivered = Firsts(es, {"delivered"})
         /\ DOMAIN Breakdown(es).delivered = Out(es)
         /\ Breakdown(es).n_enqueued = Cardinality(Began(es))
         /\ Breakdown(es).n_delivered = Cardinality(Out(es) \cap Began(es))
         /\ Breakdown(es).n_exhausted = Cardinality(Dead(es))
         /\ Breakdown(es).n_unresolved = Cardinality((Began(es) \ Out(es)) \ Dead(es))
         /\ Breakdown(es).triggers =
              Tally([m \in Dead(es) |-> Firsts(es, {"path_cascade_exhausted"})[m].why])
         /\ Cardinality(Out(es) \cap Began(es)) + Cardinality(Dead(es))
              + Cardinality((Began(es) \ Out(es)) \ Dead(es)) = Cardinality(Began(es))
         /\ Cardinality(Out(es) \cap Began(es)) \in Nat
<1> DEFINE own  == {i \in Of(es, {"tx_enqueue"}) : es[i].node = Origin[es[i].m]}
           enq  == [m \in {es[i].m : i \in own} |-> es[Min({i \in own : es[i].m = m})]]
           del  == Firsts(es, {"delivered"})
           exh  == Firsts(es, {"path_cascade_exhausted"})
           fail == Failed(enq, del, exh)
           n    == Cardinality(DOMAIN enq)
           nDel == Cardinality(DOMAIN del \cap DOMAIN enq)
           nExh == Cardinality(fail)
           B == Began(es)
           D == Out(es)
           X == Dead(es)
<1>1. es \in Seq(Events)
  BY DEF Sound
<1>2. Breakdown(es) = [enqueued |-> enq, delivered |-> del, exhausted |-> exh,
       n_enqueued |-> n, n_delivered |-> nDel, n_exhausted |-> nExh,
       n_unresolved |-> Max({0, n - nDel - nExh}),
       triggers |-> Tally([m \in fail |-> exh[m].why])]
  BY DEF Breakdown
<1>3. /\ enq = Firsts(es, {"tx_enqueue"}) /\ DOMAIN enq = B /\ IsFiniteSet(B)
      /\ \A i : Is(es, i, "tx_enqueue") => enq[es[i].m] = es[i]
  <2>1. /\ DOMAIN Firsts(es, {"tx_enqueue"}) = B /\ IsFiniteSet(B)
        /\ Of(es, {"tx_enqueue"}) = {i \in DOMAIN es : Is(es, i, "tx_enqueue")}
    <3>1. PICK types : types = {"tx_enqueue"}
      OBVIOUS
    <3> QED
      BY <1>1, <3>1, FirstsIs DEF Began
  <2>2. own = Of(es, {"tx_enqueue"})
    BY <2>1 DEF Sound
  <2>3. enq = Firsts(es, {"tx_enqueue"})
    BY <2>2 DEF Firsts, For
  <2>4. \A i : Is(es, i, "tx_enqueue") => Firsts(es, {"tx_enqueue"})[es[i].m] = es[i]
    <3>1. Once(es, "tx_enqueue")
      BY DEF Sound
    <3>2. PICK types : types = {"tx_enqueue"}
      OBVIOUS
    <3>3. ASSUME NEW i, Is(es, i, "tx_enqueue") PROVE Firsts(es, types)[es[i].m] = es[i]
      BY <1>1, <3>1, <3>2, <3>3, FirstIsOnly
    <3> QED
      BY <3>2, <3>3
  <2> HIDE DEF enq, own
  <2> QED
    BY <2>1, <2>3, <2>4
<1>4. DOMAIN del = D
  BY <1>1, FirstsIs DEF Out
<1>5. DOMAIN exh = Gone(es)
  BY <1>1, FirstsIs DEF Gone
<1> HIDE DEF enq, del, exh, own
<1>6. fail = X
  BY <1>3, <1>4, <1>5 DEF Failed, Dead
<1> HIDE DEF fail
<1>7. /\ Cardinality(B) = Cardinality(D \cap B) + Cardinality(B \ D)
      /\ Cardinality(D \cap B) \in Nat /\ Cardinality(B \ D) \in Nat /\ IsFiniteSet(B \ D)
  <2>1. (D \cap B) \union (B \ D) = B /\ (D \cap B) \cap (B \ D) = {}
    OBVIOUS
  <2> HIDE DEF B, D
  <2> QED
    BY <1>3, <2>1, Splits
<1>8. /\ Cardinality(B \ D) = Cardinality(X) + Cardinality((B \ D) \ X)
      /\ Cardinality(X) \in Nat /\ Cardinality((B \ D) \ X) \in Nat
  <2> DEFINE C == B \ D
             Y == C \ X
  <2>1. X \union Y = C /\ X \cap Y = {}
    BY DEF Dead
  <2>2. IsFiniteSet(C)
    BY <1>7
  <2> HIDE DEF B, D, X, C, Y
  <2>3. /\ Cardinality(C) = Cardinality(X) + Cardinality(Y)
        /\ Cardinality(X) \in Nat /\ Cardinality(Y) \in Nat
    BY <2>1, <2>2, Splits
  <2> QED
    BY <2>3 DEF C, Y
<1> HIDE DEF B, D, X
<1>9. Max({0, n - nDel - nExh}) = Cardinality((B \ D) \ X)
  <2>1. n - nDel - nExh = Cardinality((B \ D) \ X)
    <3>1. n = Cardinality(B) /\ nDel = Cardinality(D \cap B) /\ nExh = Cardinality(X)
      BY <1>3, <1>4, <1>6
    <3> HIDE DEF n, nDel, nExh
    <3> QED
      BY <1>7, <1>8, <3>1
  <2>2. PICK c \in Nat : c = n - nDel - nExh
    BY <1>8, <2>1
  <2>3. {0, c} \in SUBSET Nat /\ {0, c} # {} /\ \A x \in {0, c} : x <= c
    BY <2>2
  <2>4. Max({0, c}) \in {0, c} /\ \A x \in {0, c} : x <= Max({0, c})
    BY <2>2, <2>3, MaxIs
  <2>5. Max({0, c}) = c
    BY <2>2, <2>4
  <2> QED
    BY <2>1, <2>2, <2>5
<1>10. /\ Breakdown(es).enqueued = enq /\ Breakdown(es).delivered = del
       /\ Breakdown(es).n_enqueued = n /\ Breakdown(es).n_delivered = nDel
       /\ Breakdown(es).n_exhausted = nExh
       /\ Breakdown(es).n_unresolved = Cardinality((B \ D) \ X)
       /\ Breakdown(es).triggers = Tally([m \in fail |-> exh[m].why])
  BY <1>2, <1>9
<1>11. del = Firsts(es, {"delivered"}) /\ exh = Firsts(es, {"path_cascade_exhausted"})
  BY DEF del, exh
<1>12. Breakdown(es).triggers = Tally([m \in X |-> Firsts(es, {"path_cascade_exhausted"})[m].why])
  BY <1>6, <1>10, <1>11
<1> QED
  BY <1>3, <1>4, <1>6, <1>7, <1>8, <1>10, <1>11, <1>12 DEF B, D, X

(* The sums over the rows of section 12 are such sums. *)
SentOf(rows, S) == MapThenSumSet(LAMBDA i : rows[i].sent, S)
DeliveredOf(rows, S) == MapThenSumSet(LAMBDA i : rows[i].delivered, S)

LEMMA SentSum ==
  ASSUME NEW E, NEW f, NEW S, NEW w, Fibers(E, f, S, w),
         NEW rows, \A i \in S : w[i] = rows[i].sent
  PROVE  SentOf(rows, S) = Cardinality(E)
<1> DEFINE Solves(g) == g = [s \in SUBSET S |->
                               IF s = {} THEN 0
                               ELSE rows[CHOOSE x \in s : TRUE].sent + g[s \ {CHOOSE x \in s : TRUE}]]
           it == CHOOSE g : Solves(g)
<1>1. SentOf(rows, S) = it[S]
  BY DEF SentOf, MapThenSumSet, MapThenFoldSet
<1>2. ASSUME NEW g PROVE Solves(g) <=> Adds(g, w, S)
  <2>1. ASSUME NEW s \in SUBSET S, s # {}
        PROVE  rows[Pick(s)].sent = w[Pick(s)]
    <3>1. Pick(s) \in S
      BY <2>1, PickIn
    <3> QED
      BY <3>1
  <2> DEFINE L(s) == IF s = {} THEN 0 ELSE rows[Pick(s)].sent + g[s \ {Pick(s)}]
             R(s) == IF s = {} THEN 0 ELSE w[Pick(s)] + g[s \ {Pick(s)}]
  <2>2. \A s \in SUBSET S : L(s) = R(s)
    BY <2>1
  <2>3. Solves(g) <=> g = [s \in SUBSET S |-> L(s)]
    BY DEF Pick
  <2>4. Adds(g, w, S) <=> g = [s \in SUBSET S |-> R(s)]
    BY DEF Adds
  <2> HIDE DEF L, R, Solves
  <2>5. [s \in SUBSET S |-> L(s)] = [s \in SUBSET S |-> R(s)]
    BY <2>2
  <2> QED
    BY <2>3, <2>4, <2>5
<1> HIDE DEF Solves
<1>3. \E g : Solves(g)
  BY <1>2, FibersAdd
<1>4. Solves(it)
  BY <1>3
<1> HIDE DEF it
<1>5. Adds(it, w, S)
  BY <1>2, <1>4
<1> QED
  BY <1>1, <1>5, FibersAdd

LEMMA DeliveredSum ==
  ASSUME NEW E, NEW f, NEW S, NEW w, Fibers(E, f, S, w),
         NEW rows, \A i \in S : w[i] = rows[i].delivered
  PROVE  DeliveredOf(rows, S) = Cardinality(E)
<1> DEFINE Solves(g) == g = [s \in SUBSET S |->
                               IF s = {} THEN 0
                               ELSE rows[CHOOSE x \in s : TRUE].delivered + g[s \ {CHOOSE x \in s : TRUE}]]
           it == CHOOSE g : Solves(g)
<1>1. DeliveredOf(rows, S) = it[S]
  BY DEF DeliveredOf, MapThenSumSet, MapThenFoldSet
<1>2. ASSUME NEW g PROVE Solves(g) <=> Adds(g, w, S)
  <2>1. ASSUME NEW s \in SUBSET S, s # {}
        PROVE  rows[Pick(s)].delivered = w[Pick(s)]
    <3>1. Pick(s) \in S
      BY <2>1, PickIn
    <3> QED
      BY <3>1
  <2> DEFINE L(s) == IF s = {} THEN 0 ELSE rows[Pick(s)].delivered + g[s \ {Pick(s)}]
             R(s) == IF s = {} THEN 0 ELSE w[Pick(s)] + g[s \ {Pick(s)}]
  <2>2. \A s \in SUBSET S : L(s) = R(s)
    BY <2>1
  <2>3. Solves(g) <=> g = [s \in SUBSET S |-> L(s)]
    BY DEF Pick
  <2>4. Adds(g, w, S) <=> g = [s \in SUBSET S |-> R(s)]
    BY DEF Adds
  <2> HIDE DEF L, R, Solves
  <2>5. [s \in SUBSET S |-> L(s)] = [s \in SUBSET S |-> R(s)]
    BY <2>2
  <2> QED
    BY <2>3, <2>4, <2>5
<1> HIDE DEF Solves
<1>3. \E g : Solves(g)
  BY <1>2, FibersAdd
<1>4. Solves(it)
  BY <1>3
<1> HIDE DEF it
<1>5. Adds(it, w, S)
  BY <1>2, <1>4
<1> QED
  BY <1>1, <1>5, FibersAdd

(* Which row a message is counted in. *)
Places(r, rows, f) ==
  /\ IsFiniteSet(DOMAIN rows) /\ \A m \in DOMAIN r.enqueued : f[m] \in DOMAIN rows
  /\ \A i \in DOMAIN rows :
       LET S == {m \in DOMAIN r.enqueued : f[m] = i} IN
       /\ rows[i].sent = Cardinality(S)
       /\ rows[i].delivered = Cardinality(S \cap DOMAIN r.delivered)

LEMMA PlacesAdd ==
  ASSUME NEW r, NEW rows, NEW f, IsFiniteSet(DOMAIN r.enqueued), Places(r, rows, f)
  PROVE  /\ SentOf(rows, DOMAIN rows) = Cardinality(DOMAIN r.enqueued)
         /\ DeliveredOf(rows, DOMAIN rows)
              = Cardinality(DOMAIN r.delivered \cap DOMAIN r.enqueued)
<1> DEFINE E == DOMAIN r.enqueued
           D == DOMAIN r.delivered \cap E
           S == DOMAIN rows
           v == [i \in S |-> rows[i].sent]
           w == [i \in S |-> rows[i].delivered]
<1>1. \A i \in S : v[i] = rows[i].sent /\ w[i] = rows[i].delivered
  OBVIOUS
<1>2. Fibers(E, f, S, v)
  <2>1. \A i \in S : v[i] = Cardinality({m \in E : f[m] = i})
    BY DEF Places
  <2> HIDE DEF v
  <2> QED
    BY <2>1 DEF Places, Fibers
<1>3. Fibers(D, f, S, w)
  <2>1. \A i \in S : {m \in E : f[m] = i} \cap DOMAIN r.delivered = {m \in D : f[m] = i}
    OBVIOUS
  <2>2. ASSUME NEW i \in S PROVE w[i] = Cardinality({m \in D : f[m] = i})
    BY <2>1 DEF Places
  <2>3. IsFiniteSet(D)
    BY FS_Subset
  <2> HIDE DEF w
  <2> QED
    BY <2>2, <2>3 DEF Places, Fibers
<1> HIDE DEF v, w
<1>4. SentOf(rows, S) = Cardinality(E)
  BY <1>1, <1>2, SentSum
<1>5. DeliveredOf(rows, S) = Cardinality(D)
  BY <1>1, <1>3, DeliveredSum
<1> QED
  BY <1>4, <1>5

(* A slot is one of the five. *)
LEMMA SlotIs ==
  ASSUME NEW first \in Nat, NEW last \in Nat, NEW t \in Nat, first <= t, first <= last
  PROVE  /\ Min({(t - first) \div BucketWidth(first, last), Buckets - 1}) \in Nat
         /\ Min({(t - first) \div BucketWidth(first, last), Buckets - 1}) < Buckets
<1>1. (last - first) \div 5 \in Nat
  OBVIOUS
<1>2. BucketWidth(first, last) \in Nat \ {0}
  BY <1>1 DEF BucketWidth, Buckets
<1>3. PICK w \in Nat \ {0} : w = BucketWidth(first, last)
  BY <1>2
<1>4. (t - first) \div w \in Nat
  BY <1>3
<1>5. PICK c \in Nat : c = (t - first) \div w
  BY <1>4
<1> DEFINE T == {c, 4}
<1>6. PICK b \in Nat : T \in SUBSET Nat /\ T # {} /\ \A x \in T : x <= b
  <2>1. c + 4 \in Nat /\ c <= c + 4 /\ 4 <= c + 4
    BY <1>5
  <2> QED
    BY <1>5, <2>1
<1>7. Min(T) \in T /\ \A x \in T : Min(T) <= x
  <2> HIDE DEF T
  <2> QED
    BY <1>6, MaxIs
<1>8. Min(T) \in Nat /\ Min(T) < 5
  BY <1>5, <1>7
<1> QED
  BY <1>3, <1>5, <1>8 DEF Buckets

LEMMA ColdStartIs ==
  ASSUME NEW r, IsFiniteSet(DOMAIN r.enqueued), \A m \in DOMAIN r.enqueued : r.enqueued[m].t \in Nat
  PROVE  \E f : Places(r, ColdStart(r), f)
<1> DEFINE E == DOMAIN r.enqueued
           times == {r.enqueued[m].t : m \in E}
           In(S) == [sent |-> Cardinality(S), delivered |-> Cardinality(S \cap DOMAIN r.delivered)]
           Slot(m) == Min({(r.enqueued[m].t - Min(times)) \div BucketWidth(Min(times), Max(times)),
                           Buckets - 1})
           rows == [i \in 1 .. Buckets |-> In({m \in E : Slot(m) = i - 1})]
<1>1. ColdStart(r) = CASE times = {} -> <<>>
                       [] Cardinality(times) = 1 -> <<In(E)>>
                       [] OTHER -> rows
  BY DEF ColdStart
<1>2. times \in SUBSET Nat
  OBVIOUS
<1>3. CASE times = {}
  <2>1. E = {}
    BY <1>3
  <2>2. ColdStart(r) = <<>> /\ DOMAIN ColdStart(r) = {}
    <3> HIDE DEF times, In, rows
    <3>1. Cardinality(times) # 1
      BY <1>3, FS_EmptySet
    <3>2. ColdStart(r) = <<>>
      BY <1>1, <1>3, <3>1
    <3> QED
      BY <3>2
  <2>3. IsFiniteSet(DOMAIN ColdStart(r))
    BY <2>2, FS_EmptySet
  <2> HIDE DEF times
  <2> QED
    BY <2>1, <2>2, <2>3 DEF Places
<1>4. CASE times # {} /\ Cardinality(times) = 1
  <2> DEFINE f == [m \in E |-> 1]
             one == ColdStart(r)
  <2>1. one = <<In(E)>>
    <3> HIDE DEF times, In, rows
    <3> QED
      BY <1>1, <1>4
  <2>2. DOMAIN one = {1} /\ one[1] = In(E)
    BY <2>1
  <2>3. IsFiniteSet(DOMAIN one)
    BY <2>2, FS_Singleton
  <2> DEFINE T == {m \in E : f[m] = 1}
  <2>4. T = E
    OBVIOUS
  <2>5. one[1].sent = Cardinality(T) /\ one[1].delivered = Cardinality(T \cap DOMAIN r.delivered)
    <3> HIDE DEF T, one
    <3> QED
      BY <2>2, <2>4
  <2>6. \A m \in E : f[m] = 1
    OBVIOUS
  <2> HIDE DEF one, f
  <2>7. Places(r, one, f)
    BY <2>2, <2>3, <2>5, <2>6 DEF Places
  <2> QED
    BY <2>7 DEF one
<1>5. CASE times # {} /\ Cardinality(times) # 1
  <2> DEFINE f == [m \in E |-> Slot(m) + 1]
  <2>1. ColdStart(r) = rows
    <3> HIDE DEF times, In, rows
    <3> QED
      BY <1>1, <1>5
  <2>2. PICK b \in Nat : \A x \in times : x <= b
    <3> DEFINE g == [m \in E |-> r.enqueued[m].t]
    <3>1. \A m \in E : g[m] \in Nat
      OBVIOUS
    <3> HIDE DEF g
    <3>2. PICK b \in Nat : \A m \in E : g[m] <= b
      BY <3>1, Bounds
    <3> QED
      BY <3>2 DEF g
  <2>3. /\ Min(times) \in Nat /\ Max(times) \in Nat /\ Min(times) <= Max(times)
        /\ \A t \in times : Min(times) <= t
    <3> HIDE DEF times
    <3>2. /\ Max(times) \in times /\ \A x \in times : x <= Max(times)
          /\ Min(times) \in times /\ \A x \in times : Min(times) <= x
      BY <1>2, <1>5, <2>2, MaxIs
    <3> QED
      BY <1>2, <3>2
  <2>4. ASSUME NEW m \in E PROVE Slot(m) \in Nat /\ Slot(m) < 5
    <3>1. r.enqueued[m].t \in times /\ r.enqueued[m].t \in Nat
      OBVIOUS
    <3> DEFINE a == Min(times)
               z == Max(times)
               t == r.enqueued[m].t
    <3>2. a \in Nat /\ z \in Nat /\ t \in Nat /\ a <= t /\ a <= z
      BY <2>3, <3>1
    <3> HIDE DEF a, z, t, times
    <3>3. /\ Min({(t - a) \div BucketWidth(a, z), Buckets - 1}) \in Nat
          /\ Min({(t - a) \div BucketWidth(a, z), Buckets - 1}) < Buckets
      BY <3>2, SlotIs
    <3> QED
      BY <3>3 DEF a, z, t, Buckets
  <2> HIDE DEF Slot, times
  <2>5. DOMAIN rows = 1 .. 5 /\ \A i \in 1 .. 5 : rows[i] = In({m \in E : Slot(m) = i - 1})
    BY DEF Buckets
  <2>6. ASSUME NEW i \in 1 .. 5
        PROVE  {m \in E : Slot(m) = i - 1} = {m \in E : f[m] = i}
    BY <2>4
  <2>7. ASSUME NEW i \in 1 .. 5
        PROVE  /\ rows[i].sent = Cardinality({m \in E : f[m] = i})
               /\ rows[i].delivered = Cardinality({m \in E : f[m] = i} \cap DOMAIN r.delivered)
    <3>1. rows[i] = In({m \in E : f[m] = i})
      BY <2>5, <2>6
    <3> HIDE DEF rows, f
    <3> QED
      BY <3>1
  <2>8. \A m \in E : f[m] \in 1 .. 5
    BY <2>4
  <2>9. IsFiniteSet(1 .. 5)
    <3>1. PICK n \in Nat : n = 5
      OBVIOUS
    <3>2. IsFiniteSet(1 .. n)
      BY FS_Interval
    <3> QED
      BY <3>1, <3>2
  <2> HIDE DEF rows, f
  <2>10. Places(r, rows, f)
    BY <2>5, <2>7, <2>8, <2>9 DEF Places
  <2> QED
    BY <2>1, <2>10
<1> QED
  BY <1>3, <1>4, <1>5

LEMMA DepthAdds ==
  ASSUME NEW es, Sound(es)
  PROVE  Total(CascadeDepth(es)) = Cardinality(Began(es))
<1> DEFINE C == Cascades(es)
           f == [m \in DOMAIN C |-> DepthClass(C[m])]
           E == DOMAIN C
<1>1. E = {m \in Messages : For(es, {"tx_enqueue"}, m) # {}}
  BY DEF Cascades
<1>2. E = Began(es)
  BY <1>1 DEF For, Of, Began, Tell, Is
<1>3. IsFiniteSet(E)
  BY <1>2, BreakdownIs
<1>4. CascadeDepth(es) = Tally(f) /\ DOMAIN f = E
  BY DEF CascadeDepth
<1> HIDE DEF f, E
<1>5. Total(Tally(f)) = Cardinality(E)
  BY <1>3, <1>4, TallyIs
<1> QED
  BY <1>2, <1>4, <1>5

(* The lifetimes of section 14: one for each message that was enqueued and *)
(* delivered, from the one event to the other.                             *)
Lives(es, life) ==
  \A i, j : Is(es, i, "delivered") /\ Is(es, j, "tx_enqueue") /\ es[j].m = es[i].m =>
    /\ es[i].m \in DOMAIN life /\ life[es[i].m] = es[i].t - es[j].t
    /\ j < i /\ es[j].t <= es[i].t /\ es[i].t \in Nat /\ es[j].t \in Nat

LEMMA LifeIs ==
  ASSUME NEW es, Sound(es), NEW life, life = Lifetimes(Breakdown(es)).delivered
  PROVE  DOMAIN life = Out(es) \cap Began(es) /\ Lives(es, life)
<1> DEFINE del == Breakdown(es).delivered
           enq == Breakdown(es).enqueued
<1>1. /\ DOMAIN enq = Began(es) /\ DOMAIN del = Out(es) /\ del = Firsts(es, {"delivered"})
      /\ \A i : Is(es, i, "tx_enqueue") => enq[es[i].m] = es[i]
  BY BreakdownIs
<1>2. life = [m \in DOMAIN del \cap DOMAIN enq |-> del[m].t - enq[m].t]
  BY DEF Lifetimes
<1>3. \A i : Is(es, i, "delivered") => del[es[i].m] = es[i]
  <2>1. es \in Seq(Events) /\ Once(es, "delivered")
    BY DEF Sound
  <2>2. PICK types : types = {"delivered"}
    OBVIOUS
  <2>3. \A i : Is(es, i, "delivered") => Firsts(es, types)[es[i].m] = es[i]
    BY <2>1, <2>2, FirstIsOnly
  <2> QED
    BY <1>1, <2>2, <2>3
<1> HIDE DEF del, enq
<1>4. ASSUME NEW i, NEW j, Is(es, i, "delivered"), Is(es, j, "tx_enqueue"), es[j].m = es[i].m
      PROVE  /\ es[i].m \in DOMAIN life /\ life[es[i].m] = es[i].t - es[j].t
             /\ j < i /\ es[j].t <= es[i].t /\ es[i].t \in Nat /\ es[j].t \in Nat
  <2>1. es \in Seq(Events) /\ i \in DOMAIN es /\ j \in DOMAIN es
    BY <1>4 DEF Sound, Is
  <2>2. i \in Nat /\ j \in Nat /\ es[i] \in Events /\ es[j] \in Events
    BY <2>1, LenProperties, ElementOfSeq
  <2>3. j <= i /\ es[j].t <= es[i].t
    BY <1>4, <2>1 DEF Sound
  <2>4. i # j
    BY <1>4 DEF Is
  <2>5. es[i].m \in Messages /\ es[i].t \in Nat /\ es[j].t \in Nat
    BY <2>2 DEF Events
  <2>6. PICK m : m = es[i].m
    OBVIOUS
  <2>7. m \in Out(es) /\ m \in Began(es)
    BY <1>4, <2>5, <2>6 DEF Out, Began, Tell
  <2>8. del[m] = es[i] /\ enq[m] = es[j]
    BY <1>1, <1>3, <1>4, <2>6
  <2>9. m \in DOMAIN life /\ life[m] = es[i].t - es[j].t
    BY <1>1, <1>2, <2>7, <2>8
  <2> QED
    BY <2>2, <2>3, <2>4, <2>5, <2>6, <2>9
<1> QED
  BY <1>1, <1>2, <1>4 DEF Lives

(* Section 9 measures the same lifetimes, event by event.                  *)
LEMMA LatenciesIs ==
  ASSUME NEW es, Sound(es), NEW life, life = Lifetimes(Breakdown(es)).delivered
  PROVE  Tally(Latencies(es)) = Tally(life)
<1> DEFINE Enqueued(i) == {j \in For(es, {"tx_enqueue"}, es[i].m) : j < i}
           timed == {i \in Of(es, {"delivered"}) : Enqueued(i) # {}}
           A == DOMAIN Latencies(es)
           h == [i \in A |-> es[i].m]
<1>0. Lives(es, life)
  BY LifeIs
<1>1. es \in Seq(Events) /\ DOMAIN es \subseteq Nat /\ IsFiniteSet(DOMAIN es)
  <2>1. es \in Seq(Events)
    BY DEF Sound
  <2>2. DOMAIN es = 1 .. Len(es) /\ Len(es) \in Nat
    BY <2>1, LenProperties
  <2> QED
    BY <2>1, <2>2, FS_Interval
<1>2. Latencies(es) = [i \in timed |-> es[i].t - es[Min(Enqueued(i))].t]
  BY DEF Latencies
<1>3. A = timed
  BY <1>2
<1>4. \A i, j : j \in Enqueued(i) <=> Is(es, j, "tx_enqueue") /\ es[j].m = es[i].m /\ j < i
  BY DEF For, Of, Is
<1>5. \A i : i \in timed <=> Is(es, i, "delivered") /\ Enqueued(i) # {}
  BY DEF Of, Is
<1> HIDE DEF timed, Enqueued
<1>6. ASSUME NEW i \in A
      PROVE  /\ Is(es, i, "delivered")
             /\ \E j : /\ Is(es, j, "tx_enqueue") /\ es[j].m = es[i].m
                       /\ Latencies(es)[i] = es[i].t - es[j].t
  <2>1. Is(es, i, "delivered") /\ Enqueued(i) # {}
    BY <1>3, <1>5
  <2>2. PICK j : j \in Enqueued(i)
    BY <2>1
  <2>3. Is(es, j, "tx_enqueue") /\ es[j].m = es[i].m /\ j < i
    BY <1>4, <2>2
  <2> DEFINE S == Enqueued(i)
  <2>4. j \in Nat
    BY <1>1, <2>3 DEF Is
  <2>5. \A k \in S : k = j
    BY <1>4, <2>3 DEF Sound, Once
  <2>6. S \in SUBSET Nat /\ S # {} /\ \A k \in S : k <= j
    <3>1. \A k \in S : k \in Nat /\ k <= j
      BY <2>4, <2>5
    <3>2. S # {}
      BY <2>2
    <3> HIDE DEF S
    <3> QED
      BY <3>1, <3>2
  <2>7. Min(S) \in S
    <3> HIDE DEF S
    <3> QED
      BY <2>4, <2>6, MaxIs
  <2>8. Min(Enqueued(i)) = j
    BY <2>5, <2>7
  <2>9. Latencies(es)[i] = es[i].t - es[Min(Enqueued(i))].t
    BY <1>2, <1>3
  <2> QED
    BY <2>1, <2>3, <2>8, <2>9
<1>7. ASSUME NEW i \in A
      PROVE  h[i] \in DOMAIN life /\ life[h[i]] = Latencies(es)[i]
  <2>1. PICK j : /\ Is(es, j, "tx_enqueue") /\ es[j].m = es[i].m
                 /\ Latencies(es)[i] = es[i].t - es[j].t
    BY <1>6
  <2>2. es[i].m \in DOMAIN life /\ life[es[i].m] = es[i].t - es[j].t
    BY <1>6, <2>1, <1>0 DEF Lives
  <2> QED
    BY <2>1, <2>2
<1>8. \A x, y \in A : h[x] = h[y] => x = y
  BY <1>6 DEF Sound, Once
<1>9. ASSUME NEW m \in DOMAIN life
      PROVE  \E i \in A : h[i] = m
  <2>1. m \in Out(es) /\ m \in Began(es)
    BY LifeIs
  <2>2. PICK i : Is(es, i, "delivered") /\ es[i].m = m
    BY <2>1 DEF Out, Tell
  <2>3. PICK j : Is(es, j, "tx_enqueue") /\ es[j].m = m
    BY <2>1 DEF Began, Tell
  <2>4. j < i
    BY <2>2, <2>3, <1>0 DEF Lives
  <2>5. i \in A
    BY <1>3, <1>4, <1>5, <2>2, <2>3, <2>4
  <2> QED
    BY <2>2, <2>5
<1>10. IsFiniteSet(A)
  <2>1. A \subseteq DOMAIN es
    BY <1>6 DEF Is
  <2> QED
    BY <1>1, <2>1, FS_Subset
<1> HIDE DEF h
<1> DEFINE f == Latencies(es)
           B == DOMAIN life
<1>11. /\ A = DOMAIN f /\ B = DOMAIN life
       /\ \A x \in A : h[x] \in B /\ life[h[x]] = f[x]
       /\ \A z \in B : \E x \in A : h[x] = z
  BY <1>7, <1>9
<1> HIDE DEF A, B, f
<1>12. Tally(f) = Tally(life)
  BY <1>8, <1>10, <1>11, TallyCarries
<1> QED
  BY <1>12 DEF f

LEMMA AddsUp ==
  ASSUME Truth
  PROVE  MessagesAddUp
<1>1. SUFFICES ASSUME NEW since \in Starts
      PROVE  LET es == Since(log, since)
                 r  == Breakdown(es)
                 rows == ColdStart(r)
                 life == Lifetimes(r).delivered
             IN  /\ r.n_delivered + r.n_exhausted + r.n_unresolved = r.n_enqueued
                 /\ MapThenSumSet(LAMBDA i : rows[i].sent, DOMAIN rows) = r.n_enqueued
                 /\ MapThenSumSet(LAMBDA i : rows[i].delivered, DOMAIN rows) = r.n_delivered
                 /\ Total(CascadeDepth(es)) = r.n_enqueued
                 /\ Tally(Latencies(es)) = Tally(life)
                 /\ Cardinality(DOMAIN life) = r.n_delivered
                 /\ \A m \in DOMAIN life : life[m] >= 0
  BY DEF MessagesAddUp
<1> DEFINE es == Since(log, since)
           r == Breakdown(es)
           rows == ColdStart(r)
           life == Lifetimes(r).delivered
<1>2. Sound(es)
  <2>1. since \in Nat
    BY DEF Starts, Truth, Legal, Typed
  <2>2. PICK k : Cutoff(es, k, since)
    BY <2>1, SinceIs
  <2> HIDE DEF es
  <2> QED
    BY <2>2, CutoffSound
<1> HIDE DEF es
<1>3. /\ DOMAIN r.enqueued = Began(es) /\ IsFiniteSet(Began(es))
      /\ \A i : Is(es, i, "tx_enqueue") => r.enqueued[es[i].m] = es[i]
      /\ DOMAIN r.delivered = Out(es)
      /\ r.n_enqueued = Cardinality(Began(es))
      /\ r.n_delivered = Cardinality(Out(es) \cap Began(es))
      /\ r.n_exhausted = Cardinality(Dead(es))
      /\ r.n_unresolved = Cardinality((Began(es) \ Out(es)) \ Dead(es))
      /\ Cardinality(Out(es) \cap Began(es)) + Cardinality(Dead(es))
           + Cardinality((Began(es) \ Out(es)) \ Dead(es)) = Cardinality(Began(es))
  BY <1>2, BreakdownIs
<1>4. r.n_delivered + r.n_exhausted + r.n_unresolved = r.n_enqueued
  BY <1>3
<1>5. /\ SentOf(rows, DOMAIN rows) = r.n_enqueued
      /\ DeliveredOf(rows, DOMAIN rows) = r.n_delivered
  <2>1. ASSUME NEW m \in DOMAIN r.enqueued PROVE r.enqueued[m].t \in Nat
    <3>1. PICK i : Is(es, i, "tx_enqueue") /\ es[i].m = m
      BY <1>3 DEF Began, Tell
    <3>2. es[i] \in Events
      BY <1>2, <3>1, ElementOfSeq DEF Sound, Is
    <3>3. r.enqueued[m] = es[i]
      BY <1>3, <3>1
    <3> QED
      BY <3>2, <3>3 DEF Events
  <2> HIDE DEF r
  <2>2. PICK f : Places(r, rows, f)
    BY <1>3, <2>1, ColdStartIs
  <2> HIDE DEF rows
  <2>3. /\ SentOf(rows, DOMAIN rows) = Cardinality(DOMAIN r.enqueued)
        /\ DeliveredOf(rows, DOMAIN rows) = Cardinality(DOMAIN r.delivered \cap DOMAIN r.enqueued)
    BY <1>3, <2>2, PlacesAdd
  <2> QED
    BY <1>3, <2>3
<1>6. Total(CascadeDepth(es)) = r.n_enqueued
  BY <1>2, <1>3, DepthAdds
<1>7. Tally(Latencies(es)) = Tally(life)
  BY <1>2, LatenciesIs
<1>8. DOMAIN life = Out(es) \cap Began(es)
  BY <1>2, LifeIs
<1>11. Lives(es, life)
  BY <1>2, LifeIs
<1>9. Cardinality(DOMAIN life) = r.n_delivered
  BY <1>3, <1>8
<1>10. ASSUME NEW m \in DOMAIN life PROVE life[m] >= 0
  <2>1. m \in Out(es) /\ m \in Began(es)
    BY <1>8
  <2>2. PICK i : Is(es, i, "delivered") /\ es[i].m = m
    BY <2>1 DEF Out, Tell
  <2>3. PICK j : Is(es, j, "tx_enqueue") /\ es[j].m = m
    BY <2>1 DEF Began, Tell
  <2>4. life[m] = es[i].t - es[j].t /\ es[j].t <= es[i].t /\ es[i].t \in Nat /\ es[j].t \in Nat
    BY <2>2, <2>3, <1>11 DEF Lives
  <2> HIDE DEF life
  <2> QED
    BY <2>4
<1> HIDE DEF r, life, rows
<1> QED
  BY <1>4, <1>5, <1>6, <1>7, <1>9, <1>10 DEF es, r, life, rows, SentOf, DeliveredOf

(* The classes of section 27 are the outcomes of section 8.                *)
ClassOf(es, x) == {m \in DOMAIN Classify(es) : Classify(es)[m][1] = x}

LEMMA ForOne ==
  ASSUME NEW es, NEW m, NEW type
  PROVE  For(es, {type}, m) # {} <=> \E i : Is(es, i, type) /\ es[i].m = m
BY DEF For, Of, Is

LEMMA ClassesAre ==
  ASSUME NEW es, Sound(es)
  PROVE  /\ ClassOf(es, "delivered") = Out(es) \cap Began(es)
         /\ ClassOf(es, "terminal") = Dead(es)
         /\ ClassOf(es, "unresolved") = (Began(es) \ Out(es)) \ Dead(es)
         /\ \A m \in Dead(es) :
              Classify(es)[m][2] = Firsts(es, {"path_cascade_exhausted"})[m].why
<1> DEFINE C == Classify(es)
           B == Began(es)
           D == Out(es)
           X == Dead(es)
<1>1. es \in Seq(Events) /\ \A i \in DOMAIN es : es[i].m \in Messages
  <2>1. es \in Seq(Events)
    BY DEF Sound
  <2>2. \A i \in DOMAIN es : es[i] \in Events
    BY <2>1, LenProperties, ElementOfSeq
  <2> QED
    BY <2>1, <2>2 DEF Events
<1>2. \A m \in Messages : m \in B <=> For(es, {"tx_enqueue"}, m) # {}
  BY ForOne DEF Began, Tell
<1>3. \A m \in Messages : m \in D <=> For(es, {"delivered"}, m) # {}
  BY ForOne DEF Out, Tell
<1>4. \A m \in Messages : m \in Gone(es) <=> For(es, {"path_cascade_exhausted"}, m) # {}
  BY ForOne DEF Gone, Tell
<1>5. \A m \in Messages : For(es, TerminalEvents, m) # {} <=> m \in Gone(es)
  <2>1. ASSUME NEW m \in Messages, For(es, TerminalEvents, m) # {} PROVE m \in Gone(es)
    <3>1. PICK i \in DOMAIN es : es[i].type \in TerminalEvents /\ es[i].m = m
      BY <2>1 DEF For, Of
    <3>2. \E j : Is(es, j, "path_cascade_exhausted") /\ es[j].m = m
      BY <3>1 DEF TerminalEvents, Sound, Is
    <3> QED
      BY <3>2 DEF Gone, Tell
  <2>2. ASSUME NEW m \in Messages, m \in Gone(es) PROVE For(es, TerminalEvents, m) # {}
    <3>1. PICK j : Is(es, j, "path_cascade_exhausted") /\ es[j].m = m
      BY <2>2 DEF Gone, Tell
    <3>2. j \in For(es, TerminalEvents, m)
      BY <3>1 DEF For, Of, Is, TerminalEvents
    <3> QED
      BY <3>2
  <2> QED
    BY <2>1, <2>2
<1>6. DOMAIN C = B /\ B \subseteq Messages
  <2>1. DOMAIN C = {m \in Messages : For(es, {"tx_enqueue"}, m) # {}}
    BY <1>1, ClassIs
  <2>2. B \subseteq Messages
    BY DEF Began, Tell
  <2> QED
    BY <1>2, <2>1, <2>2
<1>7. ASSUME NEW m \in B
      PROVE  /\ m \in D => C[m] = <<"delivered">>
             /\ m \in X => C[m] = <<"terminal", Terminal(es, m)>>
             /\ m \notin D /\ m \notin X => C[m] = <<"unresolved", Unresolved(es, m)>>
  <2>1. m \in DOMAIN C /\ m \in Messages
    BY <1>6
  <2>2. m \in X <=> m \notin D /\ m \in Gone(es)
    BY DEF Dead
  <2>3. /\ m \in D <=> For(es, {"delivered"}, m) # {}
        /\ m \in Gone(es) <=> For(es, TerminalEvents, m) # {}
    BY <1>3, <1>5, <2>1
  <2>4. /\ For(es, {"delivered"}, m) # {} => C[m] = <<"delivered">>
        /\ For(es, {"delivered"}, m) = {} /\ For(es, TerminalEvents, m) # {} =>
             C[m] = <<"terminal", Terminal(es, m)>>
        /\ For(es, {"delivered"}, m) = {} /\ For(es, TerminalEvents, m) = {} =>
             C[m] = <<"unresolved", Unresolved(es, m)>>
    BY <1>1, <2>1, ClassIs
  <2> QED
    BY <2>2, <2>3, <2>4
<1>8. X \subseteq B /\ X \cap D = {}
  BY DEF Dead
<1> HIDE DEF B, C, D, X
<1>9. ASSUME NEW m \in B
      PROVE  /\ C[m][1] = "delivered" <=> m \in D
             /\ C[m][1] = "terminal" <=> m \in X
             /\ C[m][1] = "unresolved" <=> m \notin D /\ m \notin X
  <2>1. CASE m \in D
    <3>1. C[m][1] = "delivered"
      BY <1>7, <2>1
    <3> QED
      BY <1>8, <2>1, <3>1
  <2>2. CASE m \in X
    <3>1. C[m][1] = "terminal"
      BY <1>7, <2>2
    <3> QED
      BY <1>8, <2>2, <3>1
  <2>3. CASE m \notin D /\ m \notin X
    <3>1. C[m][1] = "unresolved"
      BY <1>7, <2>3
    <3> QED
      BY <2>3, <3>1
  <2> QED
    BY <2>1, <2>2, <2>3
<1>10. /\ ClassOf(es, "delivered") = D \cap B
       /\ ClassOf(es, "terminal") = X
       /\ ClassOf(es, "unresolved") = (B \ D) \ X
  <2>1. /\ ClassOf(es, "delivered") = {m \in B : C[m][1] = "delivered"}
        /\ ClassOf(es, "terminal") = {m \in B : C[m][1] = "terminal"}
        /\ ClassOf(es, "unresolved") = {m \in B : C[m][1] = "unresolved"}
    BY <1>6 DEF ClassOf, C
  <2>2. ClassOf(es, "delivered") = D \cap B
    BY <1>9, <2>1
  <2>3. ClassOf(es, "terminal") = X
    BY <1>8, <1>9, <2>1
  <2>4. ClassOf(es, "unresolved") = (B \ D) \ X
    BY <1>9, <2>1
  <2> QED
    BY <2>2, <2>3, <2>4
<1>11. ASSUME NEW m \in X
       PROVE  C[m][2] = Firsts(es, {"path_cascade_exhausted"})[m].why
  <2>1. m \in Messages /\ m \in Gone(es)
    BY <1>6, <1>8 DEF X, Dead
  <2>2. C[m] = <<"terminal", Terminal(es, m)>>
    BY <1>7, <1>8
  <2>3. Terminal(es, m) = es[Min(For(es, {"path_cascade_exhausted"}, m))].why
    BY <1>4, <2>1 DEF Terminal
  <2>4. Firsts(es, {"path_cascade_exhausted"})[m] = es[Min(For(es, {"path_cascade_exhausted"}, m))]
    BY <1>1, <2>1, FirstsIs DEF Gone
  <2> QED
    BY <2>2, <2>3, <2>4
<1> QED
  BY <1>10, <1>11 DEF B, C, D, X

(* The deliveries after the cut the headline counts are those of messages  *)
(* enqueued after it.                                                      *)
LEMMA HeadlineIs ==
  ASSUME Truth, NEW since, NEW k, Cutoff(Since(log, since), k, since)
  PROVE  Headline(log, since).delivered
           = Cardinality(Out(Since(log, since)) \cap Began(Since(log, since)))
<1> DEFINE es == Since(log, since)
           Late == CommandsSince(log, since)
<1>1. es \in Seq(Events) /\ Begun /\ log \in Seq(Events)
  BY DEF Cutoff, Truth, Legal, Typed, LogTrue
<1>2. /\ DOMAIN log = 1 .. Len(log) /\ Len(log) \in Nat /\ k \in Nat /\ k <= Len(log)
      /\ DOMAIN es = 1 .. Len(log) - k
  BY <1>1, LenProperties DEF Cutoff
<1>3. /\ \A i \in DOMAIN es : es[i] = log[i + k] /\ i + k \in DOMAIN log
      /\ \A i \in DOMAIN log : log[i].t >= since <=> i > k
      /\ \A i \in DOMAIN log : i > k => i - k \in DOMAIN es /\ (i - k) + k = i
  BY <1>2 DEF Cutoff
<1> HIDE DEF es
<1>4. DOMAIN Firsts(es, {"delivered"}) = Out(es)
  BY <1>1, FirstsIs DEF Out
<1>5. ASSUME NEW m \in Out(es)
      PROVE  m \in Late <=> m \in Began(es)
  <2>1. PICK i : Is(es, i, "delivered") /\ es[i].m = m
    BY DEF Out, Tell
  <2>2. m \in Messages
    BY DEF Out, Tell
  <2>3. i + k \in DOMAIN log /\ log[i + k].m = m
    BY <1>3, <2>1 DEF Is
  <2>4. m \in conf.sends
    BY <1>1, <2>3 DEF Begun
  <2>5. PICK j : Is(log, j, "tx_enqueue") /\ log[j].m = m
    BY <1>1, <2>3 DEF Begun
  <2>6. \A x : x \in For(log, {"tx_enqueue"}, m) <=> x = j
    BY <1>1, <2>5 DEF For, Of, Is, Begun, Once
  <2>7. m \in Late <=> log[j].t >= since
    BY <2>4, <2>6 DEF CommandsSince
  <2>8. log[j].t >= since <=> j > k
    BY <1>3, <2>5 DEF Is
  <2>9. ASSUME j > k PROVE m \in Began(es)
    <3>1. j - k \in DOMAIN es /\ es[j - k] = log[j]
      BY <1>3, <2>5, <2>9 DEF Is
    <3> QED
      BY <2>2, <2>5, <3>1 DEF Began, Tell, Is
  <2>10. ASSUME m \in Began(es) PROVE j > k
    <3>1. PICK x : Is(es, x, "tx_enqueue") /\ es[x].m = m
      BY <2>10 DEF Began, Tell
    <3>2. Is(log, x + k, "tx_enqueue") /\ log[x + k].m = m
      BY <1>3, <3>1 DEF Is
    <3>3. x + k = j
      BY <1>1, <2>5, <3>2 DEF Begun, Once
    <3>4. x \in 1 .. Len(log) - k
      BY <1>2, <3>1 DEF Is
    <3> QED
      BY <1>2, <3>3, <3>4
  <2> QED
    BY <2>7, <2>8, <2>9, <2>10
<1>6. Out(es) \cap Late = Out(es) \cap Began(es)
  BY <1>5
<1>7. Headline(log, since).delivered = Cardinality(DOMAIN Firsts(es, {"delivered"}) \cap Late)
  BY DEF Headline, es
<1> QED
  BY <1>4, <1>6, <1>7 DEF es

(* delivery_summary and dm_diff count the same deliveries and exhaustions  *)
(* over the whole run.                                                     *)
LEMMA SummaryIs ==
  ASSUME Truth
  PROVE  LET r == Breakdown(log)
             s == DeliverySummary(log)
         IN  /\ s.delivered = r.n_delivered /\ s.delivered = Funnel(log)["delivered"]
             /\ DOMAIN DeliveredSet(log) = DOMAIN r.delivered
             /\ s.at_origin + s.at_forwarder = Count(log, {"path_cascade_exhausted"})
<1> DEFINE r == Breakdown(log)
           s == DeliverySummary(log)
           Told == Of(log, {"delivered"})
           D == Out(log)
           Up == Of(log, {"rts_giveup", "data_ack_giveup"})
           Home == {i \in Up : log[i].node = Origin[log[i].m]}
           Away == {i \in Up : log[i].node # Origin[log[i].m]}
<1>1. Sound(log) /\ log \in Seq(Events) /\ Begun /\ Paired(log)
  BY LogCutoff, CutoffSound DEF Truth, Legal, Typed, LogTrue
<1>2. /\ IsFiniteSet(DOMAIN log) /\ \A i \in DOMAIN log : log[i] \in Events
  BY <1>1, LenProperties, ElementOfSeq, FS_Interval
<1>3. Told = {i \in DOMAIN log : Is(log, i, "delivered")}
  BY DEF Of, Is
<1>4. D \cap Began(log) = D
  <2>1. ASSUME NEW m \in D PROVE m \in Began(log)
    <3>1. PICK i : Is(log, i, "delivered") /\ log[i].m = m
      BY DEF Out, Tell
    <3>2. m \in Messages /\ i \in DOMAIN log
      BY <3>1 DEF Out, Tell, Is
    <3>3. \E j : Is(log, j, "tx_enqueue") /\ log[j].m = m
      BY <1>1, <3>1, <3>2 DEF Begun
    <3> QED
      BY <3>2, <3>3 DEF Began, Tell
  <2> QED
    BY <2>1
<1>5. Cardinality(D) = Cardinality(Told)
  <2> DEFINE g == [i \in Told |-> log[i].m]
  <2>1. IsFiniteSet(Told)
    BY <1>2, <1>3, FS_Subset
  <2>2. \A i \in Told : g[i] \in D
    BY <1>2, <1>3 DEF Out, Tell, Is, Events
  <2>3. \A x, y \in Told : g[x] = g[y] => x = y
    BY <1>1, <1>3 DEF Sound, Once
  <2>4. \A m \in D : \E i \in Told : g[i] = m
    BY <1>3 DEF Out, Tell, Is
  <2>5. g \in [Told -> D]
    BY <2>2
  <2> HIDE DEF g, Told, D
  <2> QED
    BY <2>1, <2>3, <2>4, <2>5, SameSize
<1>6. r.n_delivered = Cardinality(D \cap Began(log)) /\ DOMAIN r.delivered = D
  BY <1>1, BreakdownIs
<1>7. s.delivered = Cardinality(Told)
  BY DEF DeliverySummary, Count
<1>8. Funnel(log)["delivered"] = Cardinality(Told)
  BY DEF Funnel, Count
<1>9. DOMAIN DeliveredSet(log) = D
  <2>1. DOMAIN DeliveredSet(log) = {log[i].m : i \in Told}
    BY DEF DeliveredSet
  <2>2. {log[i].m : i \in Told} = D
    BY <1>2, <1>3 DEF Out, Tell, Is, Events
  <2> QED
    BY <2>1, <2>2
<1>10. s.at_origin = Cardinality(Home) /\ s.at_forwarder = Cardinality(Away)
  BY DEF DeliverySummary
<1>11. Cardinality(Up) = Cardinality(Home) + Cardinality(Away)
  <2>1. IsFiniteSet(Up)
    BY <1>2, FS_Subset DEF Of
  <2>2. Home \union Away = Up /\ Home \cap Away = {}
    OBVIOUS
  <2> HIDE DEF Home, Away, Up
  <2> QED
    BY <2>1, <2>2, Splits
<1>12. Cardinality(Up) = Num(log, Giveups)
  <2>1. Up = {i \in DOMAIN log : log[i] \in Giveups}
    BY <1>2 DEF Of, Giveups, Kind
  <2> QED
    BY <2>1 DEF Num
<1>13. Count(log, {"path_cascade_exhausted"}) = Num(log, Exhausted)
  <2>1. Of(log, {"path_cascade_exhausted"}) = {i \in DOMAIN log : log[i] \in Exhausted}
    BY <1>2 DEF Of, Exhausted, Kind
  <2> QED
    BY <2>1 DEF Num, Count
<1>14. Num(log, Exhausted) = Num(log, Giveups)
  BY <1>1 DEF Paired
<1> HIDE DEF r, s, Told, D, Up, Home, Away
<1>15. /\ s.delivered = r.n_delivered /\ s.delivered = Funnel(log)["delivered"]
       /\ DOMAIN DeliveredSet(log) = DOMAIN r.delivered
       /\ s.at_origin + s.at_forwarder = Count(log, {"path_cascade_exhausted"})
  BY <1>4, <1>5, <1>6, <1>7, <1>8, <1>9, <1>10, <1>11, <1>12, <1>13, <1>14
<1> QED
  BY <1>15 DEF r, s

LEMMA Agree ==
  ASSUME Truth
  PROVE  ToolsAgree
<1>1. ASSUME NEW since \in Starts
      PROVE  LET es    == Since(log, since)
                 r     == Breakdown(es)
                 class == Classify(es)
                 In(x) == {m \in DOMAIN class : class[m][1] = x}
             IN  /\ Cardinality(In("delivered")) = r.n_delivered
                 /\ Tally([m \in In("terminal") |-> class[m][2]]) = r.triggers
                 /\ Cardinality(In("unresolved")) = r.n_unresolved
                 /\ Headline(log, since).delivered = r.n_delivered
  <2> DEFINE es == Since(log, since)
             r == Breakdown(es)
             class == Classify(es)
             X == Dead(es)
             v == [m \in ClassOf(es, "terminal") |-> class[m][2]]
             w == [m \in X |-> Firsts(es, {"path_cascade_exhausted"})[m].why]
  <2>1. since \in Nat
    BY DEF Starts, Truth, Legal, Typed
  <2>2. PICK k : Cutoff(es, k, since)
    BY <2>1, SinceIs
  <2>3. Headline(log, since).delivered = Cardinality(Out(es) \cap Began(es))
    BY <2>2, HeadlineIs
  <2> HIDE DEF es
  <2>4. Sound(es)
    BY <2>2, CutoffSound
  <2>5. /\ ClassOf(es, "delivered") = Out(es) \cap Began(es)
        /\ ClassOf(es, "terminal") = X
        /\ ClassOf(es, "unresolved") = (Began(es) \ Out(es)) \ X
    BY <2>4, ClassesAre
  <2>6. \A m \in X : class[m][2] = Firsts(es, {"path_cascade_exhausted"})[m].why
    BY <2>4, ClassesAre
  <2>7. /\ r.n_delivered = Cardinality(Out(es) \cap Began(es))
        /\ r.n_unresolved = Cardinality((Began(es) \ Out(es)) \ X)
        /\ r.triggers = Tally(w)
    BY <2>4, BreakdownIs
  <2>8. v = w
    <3> HIDE DEF X, class
    <3> QED
      BY <2>5, <2>6
  <2> HIDE DEF r, v, w, X
  <2>9. /\ Cardinality(ClassOf(es, "delivered")) = r.n_delivered
        /\ Tally(v) = r.triggers
        /\ Cardinality(ClassOf(es, "unresolved")) = r.n_unresolved
        /\ Headline(log, since).delivered = r.n_delivered
    BY <2>3, <2>5, <2>7, <2>8
  <2> QED
    BY <2>9 DEF es, r, v, class, ClassOf
<1> QED
  BY <1>1, SummaryIs DEF ToolsAgree

(* Whatever the mesh, its routes, what is lost and when the warm-up ends,  *)
(* the reports on directed messages tell one story and it is the run's:    *)
(* outcomes, curves and latencies add up, four tools agree on them, no     *)
(* message vanishes and the losses by stage are those of the air.          *)
THEOREM ReportIsTrue == Spec => []FlightReportIsTrue
<1>1. Truth => MessagesAddUp /\ ToolsAgree
  BY AddsUp, Agree
<1> QED
  BY <1>1, TruthHolds, NothingIsDropped, StagesAreTrue, PTL DEF FlightReportIsTrue
=============================================================================
