------------------------ MODULE ChannelGossip_proofs ------------------------
(***************************************************************************)
(* Proofs, for every network, setting and course of the gossip, of the     *)
(* discipline of pulls, of the locality of channels, of the honesty of     *)
(* seen_by and of how far one advertisement carries.  What a station       *)
(* holds, has queued and still means to pull is one invariant, Sound; whom *)
(* its entries vouch for another, Honest; and who is still to come by a    *)
(* message a third, Course.  Every handler preserves the first two on the  *)
(* state it is given, and what a frame does to the network is then the     *)
(* same argument for every kind of frame.                                  *)
(***************************************************************************)
EXTENDS ChannelGossip, FiniteSetTheorems, WellFoundedInduction, SequenceTheorems, TLAPS

(* The least of a set of numbers, by which Min and an induction are used.  *)
Below == {p \in Nat \X Nat : p[1] < p[2]}

LEMMA LeastNumber ==
  ASSUME NEW S \in SUBSET Nat, S # {}
  PROVE  \E x \in S : \A y \in S : x <= y
<1>1. OpToRel(<, Nat) = Below
  BY DEF OpToRel, Below
<1>2. IsWellFoundedOn(Below, Nat)
  BY <1>1, NatLessThanWellFounded
<1>3. PICK x \in S : \A y \in S : ~(<<y, x>> \in Below)
  BY <1>2, WFMin
<1>4. \A y \in S : ~(y < x)
  BY <1>3 DEF Below
<1> QED
  BY <1>4

(* FlattenSeq is a recursive function.  It exists, and what it yields has  *)
(* the elements of the sequences it joins: a least index where either      *)
(* fails would not be the least.                                           *)
Joins(f, seqs) == f = [i \in 1 .. Len(seqs) |-> IF i = 1 THEN seqs[i] ELSE f[i - 1] \o seqs[i]]

LEMMA JoinsExist ==
  ASSUME NEW T, NEW seqs \in Seq(Seq(T))
  PROVE  \E f \in [1 .. Len(seqs) -> Seq(T)] : Joins(f, seqs)
<1> DEFINE Part(m) == \E f \in [1 .. m -> Seq(T)] :
                        \A i \in 1 .. m : f[i] = IF i = 1 THEN seqs[i] ELSE f[i - 1] \o seqs[i]
           Bad == {m \in Nat : m <= Len(seqs) /\ ~Part(m)}
<1>1. Len(seqs) \in Nat /\ \A i \in 1 .. Len(seqs) : seqs[i] \in Seq(T)
  OBVIOUS
<1>2. Bad = {}
  <2> SUFFICES ASSUME Bad # {} PROVE FALSE
    OBVIOUS
  <2>1. PICK m \in Bad : \A k \in Bad : m <= k
    BY LeastNumber, Bad \in SUBSET Nat
  <2>2. CASE m = 0
    <3> DEFINE f == [i \in 1 .. m |-> <<>>]
    <3>1. \A i \in 1 .. m : FALSE
      BY <2>2
    <3>2. f \in [1 .. m -> Seq(T)]
      BY <3>1
    <3>3. Part(m)
      BY <3>1, <3>2
    <3> QED
      BY <2>1, <3>3
  <2>3. CASE m > 0
    <3>1. m - 1 \in Nat /\ m - 1 <= Len(seqs) /\ m \in 1 .. Len(seqs)
      BY <1>1, <2>1, <2>3
    <3>2. Part(m - 1)
      <4>1. m \in Nat
        BY <2>1
      <4>2. m - 1 \notin Bad
        <5> HIDE DEF Bad
        <5> QED
          BY <2>1, <4>1
      <4> HIDE DEF Part
      <4> QED
        BY <3>1, <4>2
    <3>3. PICK f \in [1 .. m - 1 -> Seq(T)] :
            \A i \in 1 .. m - 1 : f[i] = IF i = 1 THEN seqs[i] ELSE f[i - 1] \o seqs[i]
      BY <3>2
    <3> DEFINE last == IF m = 1 THEN seqs[m] ELSE f[m - 1] \o seqs[m]
               g == [i \in 1 .. m |-> IF i = m THEN last ELSE f[i]]
    <3>4. last \in Seq(T)
      <4>1. CASE m = 1
        BY <1>1, <3>1, <4>1
      <4>2. CASE m # 1
        <5>1. f[m - 1] \in Seq(T) /\ seqs[m] \in Seq(T)
          BY <1>1, <2>1, <2>3, <3>1, <4>2
        <5> QED
          BY <4>2, <5>1
      <4> QED
        BY <4>1, <4>2
    <3> HIDE DEF last
    <3>5. g \in [1 .. m -> Seq(T)]
      BY <2>1, <3>1, <3>4
    <3>6. \A i \in 1 .. m : g[i] = IF i = 1 THEN seqs[i] ELSE g[i - 1] \o seqs[i]
      <4> SUFFICES ASSUME NEW i \in 1 .. m
                   PROVE  g[i] = IF i = 1 THEN seqs[i] ELSE g[i - 1] \o seqs[i]
        OBVIOUS
      <4>1. i # 1 => i - 1 \in 1 .. m - 1
        BY <2>1
      <4>2. CASE i = m
        <5>1. g[i] = last
          BY <4>2
        <5>2. m # 1 => g[i - 1] = f[m - 1]
          BY <4>1, <4>2
        <5> QED
          BY <4>2, <5>1, <5>2 DEF last
      <4>3. CASE i # m
        <5>1. i \in 1 .. m - 1 /\ g[i] = f[i]
          BY <2>1, <4>3
        <5>2. i # 1 => g[i - 1] = f[i - 1]
          BY <4>1, <4>3, <2>1, <5>1
        <5> QED
          BY <3>3, <5>1, <5>2
      <4> QED
        BY <4>2, <4>3
    <3> QED
      BY <2>1, <3>5, <3>6
  <2> QED
    BY <2>1, <2>2, <2>3
<1>3. Part(Len(seqs))
  <2> HIDE DEF Part
  <2> QED
    BY <1>1, <1>2
<1> QED
  BY <1>3 DEF Joins

LEMMA FlattenType ==
  ASSUME NEW T, NEW seqs \in Seq(Seq(T))
  PROVE  FlattenSeq(seqs) \in Seq(T)
<1> DEFINE n == Len(seqs)
           flat == CHOOSE f : Joins(f, seqs)
<1>1. n \in Nat /\ \A i \in 1 .. n : seqs[i] \in Seq(T)
  OBVIOUS
<1>2. CASE n = 0
  BY <1>2 DEF FlattenSeq
<1>3. CASE n # 0
  <2>1. FlattenSeq(seqs) = flat[n]
    BY <1>3 DEF FlattenSeq, Joins
  <2>2. Joins(flat, seqs)
    BY JoinsExist
  <2> HIDE DEF flat
  <2>3. \A i \in 1 .. n : flat[i] = IF i = 1 THEN seqs[i] ELSE flat[i - 1] \o seqs[i]
    BY <2>2 DEF Joins
  <2> DEFINE Bad == {i \in 1 .. n : flat[i] \notin Seq(T)}
  <2>4. Bad = {}
    <3> SUFFICES ASSUME Bad # {} PROVE FALSE
      OBVIOUS
    <3>1. PICK i \in Bad : \A k \in Bad : i <= k
      <4>1. Bad \in SUBSET Nat
        OBVIOUS
      <4> HIDE DEF Bad
      <4> QED
        BY <4>1, LeastNumber
    <3>2. CASE i = 1
      BY <1>1, <2>3, <3>1, <3>2
    <3>3. CASE i # 1
      <4>1. i - 1 \in 1 .. n /\ i - 1 < i
        BY <1>1, <3>1, <3>3
      <4>2. flat[i - 1] \in Seq(T)
        BY <3>1, <4>1
      <4>3. flat[i - 1] \o seqs[i] \in Seq(T)
        BY <1>1, <3>1, <4>2
      <4> QED
        BY <2>3, <3>1, <3>3, <4>3
    <3> QED
      BY <3>2, <3>3
  <2>5. n \in 1 .. n
    BY <1>1, <1>3
  <2>6. flat[n] \in Seq(T)
    BY <2>4, <2>5
  <2> QED
    BY <2>1, <2>6
<1> QED
  BY <1>2, <1>3

-----------------------------------------------------------------------------
(* What a station may hold, have queued and mean to pull.  A message that  *)
(* is anywhere has been posted; it is where it is at home, and a gateway   *)
(* carries only its own; a pull is pending only for what the station does  *)
(* not hold, a timer will see to, and was not asked for within the window; *)
(* and a timer's target is a station whose frames it decodes.              *)
Posted == {m \in Posts : setting.posted[m] <= clock /\ <<"post", m>> \notin due}

Local(n, m) == setting.layer[n] = setting.layer[Author(m)] \/ IsGateway(Author(m))

Carries(n, m) == m \in Posted /\ Local(n, m) /\ (IsGateway(n) => Author(m) = n)

Entries == [id : Posts, dirty : BOOLEAN, ads : Nat, seenBy : SUBSET Stations]
Items   == [id : Posts, to : Stations]
Ids(s)  == {s[i].id : i \in DOMAIN s}
Rows(s) == {s[i] : i \in DOMAIN s}

(* Edits of the record that a station's state is.                          *)
Record(b, p, t, r, a, q, rt, ad) ==
  [buffer |-> b, pending |-> p, timers |-> t, recent |-> r, answered |-> a, queue |-> q,
   rt |-> rt, admitted |-> ad]

IsRecord(st) ==
  st = Record(st.buffer, st.pending, st.timers, st.recent, st.answered, st.queue, st.rt, st.admitted)

Shaped(st) == IsRecord(st) /\ st.buffer \in Seq(Entries) /\ st.queue \in Seq(Items)

MayPull(st, m) ==
  /\ m \in Posted /\ m \notin Ids(st.buffer)
  /\ \E timer \in st.timers : timer.id = m
  /\ m \in DOMAIN st.recent => clock - st.recent[m] >= PullWindow

Heard(n, to) == to \in Stations /\ n \in setting.reach[to]

Sound(n, st) ==
  /\ Shaped(st)
  /\ \A m \in Ids(st.buffer) \cup Ids(st.queue) : Carries(n, m)
  /\ \A m \in DOMAIN st.pending : MayPull(st, m)
  /\ \A m \in DOMAIN st.recent : st.recent[m] \in Int
  /\ \A timer \in st.timers : Heard(n, timer.to)

(* An event of a handler is no pull of its own.                            *)
Causes     == {"self_originate", "pull_target", "overheard", "peer_q", "promiscuous_receive"}
Sources    == Stations \cup BOOLEAN \cup Causes
QuietKinds == {"channel_msg_received", "channel_msg_overheard", "channel_msg_pulled",
               "channel_msg_evicted", "channel_msg_seen_by_neighbour", "channel_pull_received",
               "channel_pull_suppressed", "channel_drop_originator_throttle"}
QuietEvent == [t : Nat, type : QuietKinds, node : Stations, id : Posts, src : Sources]
Event      == [t : Nat, type : QuietKinds \cup {"channel_pull_sent"}, node : Stations,
               id : Posts, src : Sources]

SoundResult(n, st, r) == Sound(n, r.st) /\ r.st.recent = st.recent /\ r.ev \in Seq(QuietEvent)

LEMMA SettingTypes ==
  ASSUME setting \in Settings
  PROVE  /\ setting.author \in [Posts -> Stations] /\ setting.posted \in [Posts -> Nat]
         /\ setting.beats \in [0 .. Horizon -> SUBSET Stations]
         /\ setting.reach \in [Stations -> SUBSET Stations]
         /\ setting.gateways \subseteq Stations
         /\ setting.cap \in Nat \ {0} /\ setting.losses \in Nat
         /\ \A n \in Stations : \A r \in setting.reach[n] :
              n # r /\ (setting.layer[n] = setting.layer[r] \/ IsGateway(n) \/ IsGateway(r))
         /\ PullWindow \in Nat /\ Horizon \in Nat
BY GossipAssumption DEF Posts, IsGateway

LEMMA HoldsIds == ASSUME NEW st, NEW m PROVE Holds(st, m) <=> m \in Ids(st.buffer)
BY DEF Holds, Ids

LEMMA EditAdmitted ==
  ASSUME NEW st, IsRecord(st)
  PROVE  \A v : [st EXCEPT !.admitted = v] =
                  Record(st.buffer, st.pending, st.timers, st.recent, st.answered, st.queue, st.rt, v)
<1> DEFINE b == st.buffer
           p == st.pending
           t == st.timers
           r == st.recent
           a == st.answered
           q == st.queue
           rt == st.rt
           ad == st.admitted
<1>1. st = Record(b, p, t, r, a, q, rt, ad)
  BY DEF IsRecord
<1> HIDE DEF b, p, t, r, a, q, rt, ad
<1>2. \A v : [st EXCEPT !.admitted = v] = Record(b, p, t, r, a, q, rt, v)
  BY <1>1 DEF Record
<1> QED
  BY <1>2 DEF b, p, t, r, a, q, rt

LEMMA Edits ==
  ASSUME NEW st, IsRecord(st), NEW v
  PROVE  /\ [st EXCEPT !.buffer = v] = Record(v, st.pending, st.timers, st.recent, st.answered, st.queue, st.rt, st.admitted)
         /\ [st EXCEPT !.pending = v] = Record(st.buffer, v, st.timers, st.recent, st.answered, st.queue, st.rt, st.admitted)
         /\ [st EXCEPT !.timers = v] = Record(st.buffer, st.pending, v, st.recent, st.answered, st.queue, st.rt, st.admitted)
         /\ [st EXCEPT !.recent = v] = Record(st.buffer, st.pending, st.timers, v, st.answered, st.queue, st.rt, st.admitted)
         /\ [st EXCEPT !.answered = v] = Record(st.buffer, st.pending, st.timers, st.recent, v, st.queue, st.rt, st.admitted)
         /\ [st EXCEPT !.queue = v] = Record(st.buffer, st.pending, st.timers, st.recent, st.answered, v, st.rt, st.admitted)
         /\ [st EXCEPT !.rt = v] = Record(st.buffer, st.pending, st.timers, st.recent, st.answered, st.queue, v, st.admitted)
         /\ [st EXCEPT !.admitted = v] = Record(st.buffer, st.pending, st.timers, st.recent, st.answered, st.queue, st.rt, v)
<1> DEFINE b == st.buffer
           p == st.pending
           t == st.timers
           r == st.recent
           a == st.answered
           q == st.queue
           rt == st.rt
           ad == st.admitted
<1>1. st = Record(b, p, t, r, a, q, rt, ad)
  BY DEF IsRecord
<1> HIDE DEF b, p, t, r, a, q, rt, ad
<1>2. [st EXCEPT !.buffer = v] = Record(v, p, t, r, a, q, rt, ad)
  BY <1>1 DEF Record
<1>3. [st EXCEPT !.pending = v] = Record(b, v, t, r, a, q, rt, ad)
  BY <1>1 DEF Record
<1>4. [st EXCEPT !.timers = v] = Record(b, p, v, r, a, q, rt, ad)
  BY <1>1 DEF Record
<1>5. [st EXCEPT !.recent = v] = Record(b, p, t, v, a, q, rt, ad)
  BY <1>1 DEF Record
<1>6. [st EXCEPT !.answered = v] = Record(b, p, t, r, v, q, rt, ad)
  BY <1>1 DEF Record
<1>7. [st EXCEPT !.queue = v] = Record(b, p, t, r, a, v, rt, ad)
  BY <1>1 DEF Record
<1>8. [st EXCEPT !.rt = v] = Record(b, p, t, r, a, q, v, ad)
  BY <1>1 DEF Record
<1>9. [st EXCEPT !.admitted = v] = Record(b, p, t, r, a, q, rt, v)
  BY <1>1 DEF Record
<1> QED
  BY <1>2, <1>3, <1>4, <1>5, <1>6, <1>7, <1>8, <1>9 DEF b, p, t, r, a, q, rt, ad

LEMMA RecordFields ==
  ASSUME NEW b, NEW p, NEW t, NEW r, NEW a, NEW q, NEW rt, NEW ad
  PROVE  LET s == Record(b, p, t, r, a, q, rt, ad)
         IN  /\ IsRecord(s)
             /\ s.buffer = b /\ s.pending = p /\ s.timers = t /\ s.recent = r
             /\ s.answered = a /\ s.queue = q /\ s.rt = rt /\ s.admitted = ad
BY DEF Record, IsRecord

LEMMA EditAnswer ==
  ASSUME NEW st, IsRecord(st), NEW v, NEW w
  PROVE  [st EXCEPT !.answered = v, !.pending = w] =
           Record(st.buffer, w, st.timers, st.recent, v, st.queue, st.rt, st.admitted)
<1>1. [st EXCEPT !.answered = v, !.pending = w] = [[st EXCEPT !.answered = v] EXCEPT !.pending = w]
  OBVIOUS
<1>2. PICK s : s = [st EXCEPT !.answered = v]
  OBVIOUS
<1>3. s = Record(st.buffer, st.pending, st.timers, st.recent, v, st.queue, st.rt, st.admitted)
  BY <1>2, Edits
<1>4. /\ IsRecord(s) /\ s.buffer = st.buffer /\ s.pending = st.pending /\ s.timers = st.timers /\ s.recent = st.recent
      /\ s.answered = v /\ s.queue = st.queue /\ s.rt = st.rt /\ s.admitted = st.admitted
  BY <1>3, RecordFields
<1>5. [s EXCEPT !.pending = w] =
        Record(s.buffer, w, s.timers, s.recent, s.answered, s.queue, s.rt, s.admitted)
  BY <1>4, Edits
<1> QED
  BY <1>1, <1>2, <1>4, <1>5

LEMMA EditPending ==
  ASSUME NEW st, IsRecord(st), NEW v, NEW w
  PROVE  [st EXCEPT !.pending = v, !.timers = w] =
           Record(st.buffer, v, w, st.recent, st.answered, st.queue, st.rt, st.admitted)
<1>1. [st EXCEPT !.pending = v, !.timers = w] = [[st EXCEPT !.pending = v] EXCEPT !.timers = w]
  OBVIOUS
<1>2. PICK s : s = [st EXCEPT !.pending = v]
  OBVIOUS
<1>3. s = Record(st.buffer, v, st.timers, st.recent, st.answered, st.queue, st.rt, st.admitted)
  BY <1>2, Edits
<1>4. /\ IsRecord(s) /\ s.buffer = st.buffer /\ s.pending = v /\ s.timers = st.timers /\ s.recent = st.recent
      /\ s.answered = st.answered /\ s.queue = st.queue /\ s.rt = st.rt /\ s.admitted = st.admitted
  BY <1>3, RecordFields
<1>5. [s EXCEPT !.timers = w] =
        Record(s.buffer, s.pending, w, s.recent, s.answered, s.queue, s.rt, s.admitted)
  BY <1>4, Edits
<1> QED
  BY <1>1, <1>2, <1>4, <1>5

LEMMA EditRecent ==
  ASSUME NEW st, IsRecord(st), NEW v, NEW w
  PROVE  [st EXCEPT !.recent = v, !.pending = w] =
           Record(st.buffer, w, st.timers, v, st.answered, st.queue, st.rt, st.admitted)
<1>1. [st EXCEPT !.recent = v, !.pending = w] = [[st EXCEPT !.recent = v] EXCEPT !.pending = w]
  OBVIOUS
<1>2. PICK s : s = [st EXCEPT !.recent = v]
  OBVIOUS
<1>3. s = Record(st.buffer, st.pending, st.timers, v, st.answered, st.queue, st.rt, st.admitted)
  BY <1>2, Edits
<1>4. /\ IsRecord(s) /\ s.buffer = st.buffer /\ s.pending = st.pending /\ s.timers = st.timers /\ s.recent = v
      /\ s.answered = st.answered /\ s.queue = st.queue /\ s.rt = st.rt /\ s.admitted = st.admitted
  BY <1>3, RecordFields
<1>5. [s EXCEPT !.pending = w] =
        Record(s.buffer, w, s.timers, s.recent, s.answered, s.queue, s.rt, s.admitted)
  BY <1>4, Edits
<1> QED
  BY <1>1, <1>2, <1>4, <1>5

LEMMA ToldQuiet ==
  ASSUME clock \in Nat, NEW n \in Stations, NEW m \in Posts, NEW src \in Sources,
         NEW what \in QuietKinds
  PROVE  Told(n, what, m, src) \in QuietEvent
BY DEF Told, QuietEvent

LEMMA Answers ==
  ASSUME NEW n, NEW st, NEW s, NEW e, Sound(n, s), s.recent = st.recent, e \in Seq(QuietEvent)
  PROVE  SoundResult(n, st, Result(s, e))
BY DEF Result, SoundResult

(* A state that holds, has queued and means to pull no more is sound too.  *)
LEMMA SoundLess ==
  ASSUME NEW n, NEW st, NEW s, Sound(n, st), Shaped(s),
         Ids(s.buffer) \subseteq Ids(st.buffer), Ids(s.queue) \subseteq Ids(st.queue),
         DOMAIN s.pending \subseteq DOMAIN st.pending,
         s.timers = st.timers, s.recent = st.recent
  PROVE  Sound(n, s)
BY DEF Sound, MayPull

LEMMA NeighbourFields ==
  ASSUME NEW st, Shaped(st), NEW n
  PROVE  LET s == Neighbour(st, n)
         IN  /\ Shaped(s)
             /\ s.buffer = st.buffer /\ s.queue = st.queue /\ s.pending = st.pending
             /\ s.timers = st.timers /\ s.recent = st.recent
<1>1. Neighbour(st, n) = [st EXCEPT !.rt = st.rt \cup {n}]
  BY DEF Neighbour
<1>2. Neighbour(st, n) = Record(st.buffer, st.pending, st.timers, st.recent, st.answered,
                                st.queue, st.rt \cup {n}, st.admitted)
  BY <1>1, Edits DEF Shaped
<1> QED
  BY <1>2, RecordFields DEF Shaped

LEMMA NeighbourSound ==
  ASSUME NEW n, NEW st, Sound(n, st), NEW from
  PROVE  Sound(n, Neighbour(st, from)) /\ Neighbour(st, from).recent = st.recent
BY NeighbourFields, SoundLess DEF Sound

LEMMA MarkedFields ==
  ASSUME NEW st, Shaped(st), NEW ids, NEW n \in Stations
  PROVE  LET s == MarkSeen(st, ids, n)
         IN  /\ Shaped(s) /\ s.buffer = Marked(st.buffer, ids, n)
             /\ Ids(s.buffer) = Ids(st.buffer) /\ s.queue = st.queue /\ s.pending = st.pending
             /\ s.timers = st.timers /\ s.recent = st.recent
<1> DEFINE marked == Marked(st.buffer, ids, n)
<1>1. /\ st.buffer \in Seq(Entries) /\ DOMAIN st.buffer = 1 .. Len(st.buffer)
      /\ Len(st.buffer) \in Nat
  BY DEF Shaped
<1>2. /\ DOMAIN marked = DOMAIN st.buffer /\ marked = [i \in DOMAIN st.buffer |-> marked[i]]
      /\ \A i \in DOMAIN st.buffer : marked[i] \in Entries /\ marked[i].id = st.buffer[i].id
  <2>1. \A i \in DOMAIN st.buffer : st.buffer[i] \in Entries
    BY <1>1
  <2> QED
    BY <2>1 DEF Marked, Entries
<1> HIDE DEF marked
<1>3. marked \in Seq(Entries) /\ Ids(marked) = Ids(st.buffer)
  <2>1. marked \in [1 .. Len(st.buffer) -> Entries]
    BY <1>1, <1>2
  <2>2. marked \in Seq(Entries)
    BY <1>1, <2>1
  <2>3. Ids(marked) = Ids(st.buffer)
    BY <1>2 DEF Ids
  <2> QED
    BY <2>2, <2>3
<1>4. MarkSeen(st, ids, n) = Record(marked, st.pending, st.timers, st.recent, st.answered,
                                    st.queue, st.rt, st.admitted)
  BY Edits DEF MarkSeen, Shaped, marked
<1>5. marked = Marked(st.buffer, ids, n)
  BY DEF marked
<1> QED
  BY <1>3, <1>4, <1>5, RecordFields DEF Shaped

-----------------------------------------------------------------------------
(* on_recv Q: the queue grows only by what the station holds, and it marks *)
(* of that message that the station that pulls it will have it.            *)
PullLeaves(n, st, from, to, m, s, ev) ==
  /\ Shaped(s) /\ s.timers = st.timers /\ s.recent = st.recent
  /\ DOMAIN s.pending \subseteq DOMAIN st.pending /\ ev \in Seq(QuietEvent)
  /\ \/ s.buffer = st.buffer /\ s.queue = st.queue
     \/ /\ n = to /\ m \in Ids(st.buffer) /\ s.buffer = Marked(st.buffer, {m}, from)
        /\ Ids(s.buffer) = Ids(st.buffer) /\ Ids(s.queue) = Ids(st.queue) \cup {m}

LEMMA PullFields ==
  ASSUME clock \in Nat, NEW n \in Stations, NEW from \in Stations,
         NEW to \in Stations, NEW m \in Posts, NEW st, Shaped(st)
  PROVE  LET r == HearsPull(n, from, to, st, m) IN PullLeaves(n, st, from, to, m, r.st, r.ev)
<1> DEFINE near == Neighbour(st, from)
           answers == With(near.answered, {<<from, to>>}, clock)
           asked == [near EXCEPT !.answered = answers, !.pending = Quashed(st, m)]
           longer == Append(asked.queue, [id |-> m, to |-> from])
           queued == IF InFlight(st, m) THEN asked ELSE [asked EXCEPT !.queue = longer]
           marked == MarkSeen(queued, {m}, from)
           quash == IF m \in DOMAIN st.pending
                    THEN <<Told(n, "channel_pull_suppressed", m, "peer_q")>> ELSE <<>>
           taken == Told(n, "channel_pull_received", m, from)
           pulled == Told(n, "channel_msg_pulled", m, from)
           r == HearsPull(n, from, to, st, m)
<1>1. \/ r = Result(near, <<>>)
      \/ r = Result(asked, quash)
      \/ n = to /\ Holds(st, m) /\ r = Result(marked, quash \o <<taken, pulled>>)
      \/ r = Result(asked, Append(quash, taken))
  BY DEF HearsPull, Addressed
<1>2. /\ Told(n, "channel_pull_suppressed", m, "peer_q") \in QuietEvent
      /\ taken \in QuietEvent /\ pulled \in QuietEvent
  <2>1. from \in Sources /\ "peer_q" \in Sources
    BY DEF Sources, Causes
  <2>2. /\ "channel_pull_suppressed" \in QuietKinds /\ "channel_pull_received" \in QuietKinds
        /\ "channel_msg_pulled" \in QuietKinds
    BY DEF QuietKinds
  <2> QED
    BY <2>1, <2>2, ToldQuiet
<1>3. /\ <<>> \in Seq(QuietEvent) /\ quash \in Seq(QuietEvent)
      /\ quash \o <<taken, pulled>> \in Seq(QuietEvent)
      /\ Append(quash, taken) \in Seq(QuietEvent)
  BY <1>2
<1>4. /\ Shaped(near) /\ near.buffer = st.buffer /\ near.queue = st.queue
      /\ near.pending = st.pending /\ near.timers = st.timers /\ near.recent = st.recent
  BY NeighbourFields
<1> HIDE DEF near, answers
<1>5. asked = Record(near.buffer, Quashed(st, m), near.timers, near.recent, answers, near.queue,
                     near.rt, near.admitted)
  <2>1. IsRecord(near)
    BY <1>4 DEF Shaped
  <2>2. \A v, w : [near EXCEPT !.answered = v, !.pending = w] =
                    Record(near.buffer, w, near.timers, near.recent, v, near.queue,
                           near.rt, near.admitted)
    BY <2>1, EditAnswer
  <2> QED
    BY <2>2
<1>6. /\ Shaped(asked) /\ asked.buffer = st.buffer /\ asked.queue = st.queue
      /\ asked.pending = Quashed(st, m) /\ asked.timers = st.timers /\ asked.recent = st.recent
  BY <1>4, <1>5, RecordFields DEF Shaped
<1>7. DOMAIN Quashed(st, m) \subseteq DOMAIN st.pending
  BY DEF Quashed, Forget, Restrict
<1> HIDE DEF asked
<1>8. longer \in Seq(Items) /\ Ids(longer) = Ids(st.queue) \cup {m}
  <2> DEFINE item == [id |-> m, to |-> from]
  <2>1. item \in Items /\ item.id = m
    BY DEF Items
  <2> HIDE DEF item
  <2>2. /\ asked.queue \in Seq(Items) /\ DOMAIN asked.queue = 1 .. Len(asked.queue)
        /\ Len(asked.queue) \in Nat
    BY <1>6 DEF Shaped
  <2>3. /\ longer \in Seq(Items) /\ DOMAIN longer = 1 .. Len(asked.queue) + 1
        /\ longer[Len(asked.queue) + 1] = item
        /\ \A i \in 1 .. Len(asked.queue) : longer[i] = asked.queue[i]
    <3>1. longer = Append(asked.queue, item)
      BY DEF item
    <3> HIDE DEF longer
    <3> QED
      BY <2>1, <2>2, <3>1, AppendProperties
  <2> HIDE DEF longer
  <2>4. \A i \in DOMAIN longer : i \in DOMAIN asked.queue \/ longer[i].id = m
    BY <2>1, <2>2, <2>3
  <2>5. DOMAIN asked.queue \subseteq DOMAIN longer /\ Len(asked.queue) + 1 \in DOMAIN longer
    BY <2>2, <2>3
  <2> QED
    BY <1>6, <2>1, <2>2, <2>3, <2>4, <2>5 DEF Ids
<1> HIDE DEF longer
<1>9. /\ Shaped(queued) /\ queued.buffer = st.buffer /\ queued.pending = Quashed(st, m)
      /\ queued.timers = st.timers /\ queued.recent = st.recent
      /\ Ids(queued.queue) = Ids(st.queue) \cup {m}
  <2>1. [asked EXCEPT !.queue = longer] =
          Record(asked.buffer, asked.pending, asked.timers, asked.recent, asked.answered,
                 longer, asked.rt, asked.admitted)
    BY <1>6, Edits DEF Shaped
  <2>2. CASE InFlight(st, m)
    <3>1. m \in Ids(st.queue)
      BY <2>2 DEF InFlight, SameBroadcast, Ids
    <3> QED
      BY <1>6, <2>2, <3>1
  <2>3. CASE ~InFlight(st, m)
    <3> DEFINE s == [asked EXCEPT !.queue = longer]
    <3>1. /\ Shaped(s) /\ s.buffer = st.buffer /\ s.pending = asked.pending
          /\ s.timers = st.timers /\ s.recent = st.recent /\ s.queue = longer
      BY <1>6, <1>8, <2>1, RecordFields DEF Shaped
    <3> QED
      BY <1>6, <1>8, <2>3, <3>1
  <2> QED
    BY <2>2, <2>3
<1> HIDE DEF queued
<1>10. /\ Shaped(marked) /\ marked.buffer = Marked(st.buffer, {m}, from)
       /\ Ids(marked.buffer) = Ids(st.buffer) /\ Ids(marked.queue) = Ids(st.queue) \cup {m}
       /\ marked.pending = Quashed(st, m) /\ marked.timers = st.timers /\ marked.recent = st.recent
  BY <1>9, MarkedFields
<1> HIDE DEF marked, quash, taken, pulled, r
<1>11. /\ PullLeaves(n, st, from, to, m, near, <<>>) /\ PullLeaves(n, st, from, to, m, asked, quash)
       /\ PullLeaves(n, st, from, to, m, asked, Append(quash, taken))
  BY <1>3, <1>4, <1>6, <1>7 DEF PullLeaves
<1>12. n = to /\ Holds(st, m) =>
         PullLeaves(n, st, from, to, m, marked, quash \o <<taken, pulled>>)
  BY <1>3, <1>7, <1>10, HoldsIds DEF PullLeaves
<1>13. \A s, ev : Result(s, ev).st = s /\ Result(s, ev).ev = ev
  BY DEF Result
<1>14. PullLeaves(n, st, from, to, m, r.st, r.ev)
  BY <1>1, <1>11, <1>12, <1>13
<1> QED
  BY <1>14 DEF r

LEMMA PullSound ==
  ASSUME clock \in Nat, NEW n \in Stations, NEW from \in Stations,
         NEW to \in Stations, NEW m \in Posts, NEW st, Sound(n, st)
  PROVE  SoundResult(n, st, HearsPull(n, from, to, st, m))
<1>1. PICK r : r = HearsPull(n, from, to, st, m)
  OBVIOUS
<1>2. Shaped(st)
  BY DEF Sound
<1>3. PullLeaves(n, st, from, to, m, r.st, r.ev)
  BY <1>1, <1>2, PullFields
<1>4. Ids(r.st.buffer) = Ids(st.buffer) /\ Ids(r.st.queue) \subseteq Ids(st.queue) \cup Ids(st.buffer)
  BY <1>3 DEF PullLeaves
<1>5. Sound(n, r.st)
  BY <1>3, <1>4 DEF Sound, MayPull, PullLeaves
<1> QED
  BY <1>1, <1>3, <1>5 DEF SoundResult, PullLeaves

-----------------------------------------------------------------------------
(* channel_buffer_add: a full buffer gives up one entry for the new one.   *)
LEMMA RemovedType ==
  ASSUME NEW T, NEW q \in Seq(T), NEW k \in 1 .. Len(q)
  PROVE  RemoveAt(q, k) \in Seq(T)
<1>1. Len(q) \in Nat /\ \A i \in 1 .. Len(q) : q[i] \in T
  BY ElementOfSeq, LenProperties
<1>2. SubSeq(q, 1, k - 1) \in Seq(T)
  <2>1. \A i \in 1 .. k - 1 : q[i] \in T
    BY <1>1
  <2> QED
    BY <1>1, <2>1, SubSeqProperties
<1>3. SubSeq(q, k + 1, Len(q)) \in Seq(T)
  <2>1. \A i \in k + 1 .. Len(q) : q[i] \in T
    BY <1>1
  <2> QED
    BY <1>1, <2>1, SubSeqProperties
<1> QED
  BY <1>2, <1>3 DEF RemoveAt

LEMMA VictimHeld ==
  ASSUME NEW st, Shaped(st), st.buffer # <<>>
  PROVE  Victim(st) \in 1 .. Len(st.buffer)
<1>1. DOMAIN st.buffer = 1 .. Len(st.buffer) /\ Len(st.buffer) \in Nat /\ 1 \in 1 .. Len(st.buffer)
  BY DEF Shaped
<1>2. CASE Seen(st) = {}
  BY <1>1, <1>2 DEF Victim
<1>3. CASE Seen(st) # {}
  <2>1. Seen(st) \subseteq 1 .. Len(st.buffer)
    BY <1>1 DEF Seen
  <2>2. PICK x \in Seen(st) : \A y \in Seen(st) : x <= y
    <3>1. Seen(st) \in SUBSET Nat
      BY <1>1, <2>1
    <3> QED
      BY <1>3, <3>1, LeastNumber
  <2>3. Min(Seen(st)) \in Seen(st)
    BY <2>2 DEF Min
  <2> QED
    BY <1>3, <2>1, <2>3 DEF Victim
<1> QED
  BY <1>2, <1>3

LEMMA AddedFields ==
  ASSUME setting \in Settings, clock \in Nat, NEW n \in Stations, NEW e \in Entries,
         NEW st, Shaped(st)
  PROVE  LET s == Added(n, st, e).st
         IN  /\ Shaped(s) /\ Rows(s.buffer) \subseteq Rows(st.buffer) \cup {e}
             /\ Ids(s.buffer) \subseteq Ids(st.buffer) \cup {e.id} /\ e.id \in Ids(s.buffer)
             /\ s.queue = st.queue /\ s.pending = st.pending
             /\ s.timers = st.timers /\ s.recent = st.recent
             /\ Added(n, st, e).ev \in Seq(QuietEvent)
<1> DEFINE T == {x \in Entries : x \in Rows(st.buffer)}
           kept == IF Len(st.buffer) < setting.cap THEN st.buffer
                   ELSE RemoveAt(st.buffer, Victim(st))
           full == Append(kept, e)
           gone == Told(n, "channel_msg_evicted", st.buffer[Victim(st)].id, Seen(st) # {})
<1>1. /\ st.buffer \in Seq(Entries) /\ DOMAIN st.buffer = 1 .. Len(st.buffer)
      /\ Len(st.buffer) \in Nat /\ setting.cap \in Nat \ {0}
  BY SettingTypes DEF Shaped
<1>2. ~(Len(st.buffer) < setting.cap) => Victim(st) \in 1 .. Len(st.buffer)
  BY <1>1, VictimHeld
<1>3. kept \in Seq(T)
  <2>1. st.buffer \in Seq(T)
    <3>1. \A i \in 1 .. Len(st.buffer) : st.buffer[i] \in T
      BY <1>1 DEF Rows
    <3> HIDE DEF T
    <3> QED
      BY <1>1, <3>1
  <2> HIDE DEF T
  <2> QED
    BY <1>2, <2>1, RemovedType
<1>4. /\ full \in Seq(Entries) /\ Rows(full) \subseteq Rows(st.buffer) \cup {e}
      /\ Ids(full) \subseteq Ids(st.buffer) \cup {e.id} /\ e.id \in Ids(full)
  <2>1. /\ full \in Seq(T \cup {e}) /\ Len(full) \in Nat /\ DOMAIN full = 1 .. Len(full)
        /\ Len(full) \in 1 .. Len(full) /\ full[Len(full)] = e
    <3> HIDE DEF T, kept
    <3> QED
      BY <1>3
  <2>2. \A i \in 1 .. Len(full) : full[i] \in T \cup {e}
    <3> HIDE DEF T, full
    <3> QED
      BY <2>1
  <2> HIDE DEF full
  <2>3. \A i \in 1 .. Len(full) : full[i] \in Entries /\ full[i] \in Rows(st.buffer) \cup {e}
    BY <2>2
  <2>4. \A i \in 1 .. Len(full) : full[i].id \in Ids(st.buffer) \cup {e.id}
    BY <2>3 DEF Ids, Rows
  <2>5. full \in Seq(Entries)
    BY <2>1, <2>3
  <2> QED
    BY <2>1, <2>3, <2>4, <2>5 DEF Ids, Rows
<1> HIDE DEF full
<1>5. Added(n, st, e).st = [st EXCEPT !.buffer = full]
  BY DEF Added, Result, full
<1>6. [st EXCEPT !.buffer = full] = Record(full, st.pending, st.timers, st.recent, st.answered,
                                           st.queue, st.rt, st.admitted)
  BY Edits DEF Shaped
<1>7. Added(n, st, e).ev \in Seq(QuietEvent)
  <2>1. CASE Len(st.buffer) < setting.cap
    BY <2>1 DEF Added, Result
  <2>2. CASE ~(Len(st.buffer) < setting.cap)
    <3>1. st.buffer[Victim(st)].id \in Posts
      <4>1. st.buffer[Victim(st)] \in Entries
        BY <1>1, <1>2, <2>2
      <4> QED
        BY <4>1 DEF Entries
    <3>2. (Seen(st) # {}) \in Sources /\ "channel_msg_evicted" \in QuietKinds
      BY DEF Sources, QuietKinds
    <3>3. gone \in QuietEvent
      BY <3>1, <3>2, ToldQuiet
    <3>4. Added(n, st, e).ev = <<gone>>
      BY <2>2 DEF Added, Result
    <3> HIDE DEF gone
    <3> QED
      BY <3>3, <3>4
  <2> QED
    BY <2>1, <2>2
<1> QED
  BY <1>4, <1>5, <1>6, <1>7, RecordFields DEF Shaped


(* RTS and DATA: who keeps the message is no gateway, and it no longer     *)
(* means to pull it.  Who does not keep it is a gateway, holds it already, *)
(* or says that its author's quota is used up.                             *)
BroadcastLeaves(n, st, from, m, s, ev) ==
  /\ Shaped(s) /\ s.queue = st.queue /\ s.timers = st.timers /\ s.recent = st.recent
  /\ ev \in Seq(QuietEvent)
  /\ \/ /\ s.buffer = st.buffer /\ s.pending = st.pending
        /\ \/ m \in Ids(st.buffer) \/ IsGateway(n)
           \/ \E i \in DOMAIN ev : ev[i].type = "channel_drop_originator_throttle"
     \/ /\ ~IsGateway(n)
        /\ Rows(s.buffer) \subseteq Rows(st.buffer) \cup {Entry(m, {from})}
        /\ Ids(s.buffer) \subseteq Ids(st.buffer) \cup {m} /\ m \in Ids(s.buffer)
        /\ DOMAIN s.pending = DOMAIN st.pending \ {m}

LEMMA BroadcastFields ==
  ASSUME setting \in Settings, clock \in Nat, NEW n \in Stations, NEW from \in Stations,
         NEW to \in Stations, NEW m \in Posts, NEW st, Shaped(st)
  PROVE  LET r == HearsBroadcast(n, from, to, st, m) IN BroadcastLeaves(n, st, from, m, r.st, r.ev)
<1> DEFINE heard == Neighbour(st, from)
           label == IF n = to THEN "pull_target" ELSE "overheard"
           admitted == IF Author(m) = n THEN heard.admitted ELSE With(heard.admitted, {m}, clock)
           counted == [heard EXCEPT !.admitted = admitted]
           cleared == [counted EXCEPT !.pending = ClearsPull(st, m)]
           kept == Added(n, cleared, Entry(m, {from}))
           thrown == Told(n, "channel_drop_originator_throttle", m, from)
           received == Told(n, "channel_msg_received", m, label)
           overheard == Told(n, "channel_msg_overheard", m, from)
           suppressed == Told(n, "channel_pull_suppressed", m, from)
           ev1 == IF n = to THEN <<>> ELSE <<overheard>>
           ev2 == IF m \in DOMAIN st.pending THEN <<suppressed>> ELSE <<>>
           events == kept.ev \o <<received>> \o ev1 \o ev2
           r == HearsBroadcast(n, from, to, st, m)
<1>1. \/ Holds(st, m) /\ r = Result(heard, <<>>)
      \/ r = Result(heard, <<thrown>>)
      \/ IsGateway(n) /\ r = Result(counted, <<>>)
      \/ ~IsGateway(n) /\ r = Result(kept.st, events)
  BY DEF HearsBroadcast, TakesPart, Promiscuous
<1>2. /\ thrown \in QuietEvent /\ received \in QuietEvent /\ overheard \in QuietEvent
      /\ suppressed \in QuietEvent /\ thrown.type = "channel_drop_originator_throttle"
  <2>1. from \in Sources /\ label \in Sources
    BY DEF Sources, Causes
  <2>2. {"channel_drop_originator_throttle", "channel_msg_received", "channel_msg_overheard",
         "channel_pull_suppressed"} \subseteq QuietKinds
    BY DEF QuietKinds
  <2>3. thrown.type = "channel_drop_originator_throttle"
    BY DEF Told
  <2> HIDE DEF label, thrown
  <2>4. thrown \in QuietEvent
    BY <2>1, <2>2, ToldQuiet DEF thrown
  <2> QED
    BY <2>1, <2>2, <2>3, <2>4, ToldQuiet
<1>3. /\ Shaped(heard) /\ heard.buffer = st.buffer /\ heard.queue = st.queue
      /\ heard.pending = st.pending /\ heard.timers = st.timers /\ heard.recent = st.recent
  BY NeighbourFields
<1> HIDE DEF heard, admitted, thrown, received, overheard, suppressed
<1>4. /\ Shaped(counted) /\ counted.buffer = st.buffer /\ counted.queue = st.queue
      /\ counted.pending = st.pending /\ counted.timers = st.timers /\ counted.recent = st.recent
  <2>1. \A v : [heard EXCEPT !.admitted = v] =
               Record(heard.buffer, heard.pending, heard.timers, heard.recent, heard.answered,
                      heard.queue, heard.rt, v)
    BY <1>3, EditAdmitted DEF Shaped
  <2>2. counted = Record(heard.buffer, heard.pending, heard.timers, heard.recent, heard.answered,
                         heard.queue, heard.rt, admitted)
    BY <2>1
  <2> HIDE DEF counted
  <2> QED
    BY <1>3, <2>2, RecordFields DEF Shaped
<1> HIDE DEF counted
<1>5. /\ Shaped(cleared) /\ cleared.buffer = st.buffer /\ cleared.queue = st.queue
      /\ DOMAIN cleared.pending = DOMAIN st.pending \ {m} /\ cleared.timers = st.timers
      /\ cleared.recent = st.recent
  <2> DEFINE pulls == ClearsPull(st, m)
  <2>1. DOMAIN pulls = DOMAIN st.pending \ {m}
    BY DEF ClearsPull, Forget, Restrict
  <2> HIDE DEF pulls
  <2>2. [counted EXCEPT !.pending = pulls] =
          Record(counted.buffer, pulls, counted.timers, counted.recent, counted.answered,
                 counted.queue, counted.rt, counted.admitted)
    BY <1>4, Edits DEF Shaped
  <2>3. cleared = Record(counted.buffer, pulls, counted.timers, counted.recent, counted.answered,
                         counted.queue, counted.rt, counted.admitted)
    BY <2>2 DEF pulls
  <2> HIDE DEF cleared
  <2>4. /\ Shaped(cleared) /\ cleared.buffer = st.buffer /\ cleared.queue = st.queue
        /\ cleared.pending = pulls /\ cleared.timers = st.timers /\ cleared.recent = st.recent
    BY <1>4, <2>3, RecordFields DEF Shaped
  <2> QED
    BY <2>1, <2>4
<1> HIDE DEF cleared
<1>6. /\ Shaped(kept.st) /\ Rows(kept.st.buffer) \subseteq Rows(st.buffer) \cup {Entry(m, {from})}
      /\ Ids(kept.st.buffer) \subseteq Ids(st.buffer) \cup {m} /\ m \in Ids(kept.st.buffer)
      /\ kept.st.queue = st.queue /\ DOMAIN kept.st.pending = DOMAIN st.pending \ {m}
      /\ kept.st.timers = st.timers /\ kept.st.recent = st.recent
      /\ kept.ev \in Seq(QuietEvent)
  <2> DEFINE e == Entry(m, {from})
  <2>1. e \in Entries /\ e.id = m
    BY DEF Entry, Entries
  <2> HIDE DEF e
  <2>2. kept = Added(n, cleared, e)
    BY DEF e
  <2> HIDE DEF kept
  <2>3. LET s == Added(n, cleared, e).st
        IN  /\ Shaped(s) /\ Rows(s.buffer) \subseteq Rows(cleared.buffer) \cup {e}
            /\ Ids(s.buffer) \subseteq Ids(cleared.buffer) \cup {e.id} /\ e.id \in Ids(s.buffer)
            /\ s.queue = cleared.queue /\ s.pending = cleared.pending
            /\ s.timers = cleared.timers /\ s.recent = cleared.recent
            /\ Added(n, cleared, e).ev \in Seq(QuietEvent)
    BY <1>5, <2>1, AddedFields
  <2>4. e = Entry(m, {from})
    BY DEF e
  <2> QED
    BY <1>5, <2>1, <2>2, <2>3, <2>4
<1> HIDE DEF kept
<1>7. events \in Seq(QuietEvent)
  <2>1. ev1 \in Seq(QuietEvent) /\ ev2 \in Seq(QuietEvent) /\ <<received>> \in Seq(QuietEvent)
    BY <1>2
  <2> HIDE DEF ev1, ev2
  <2> QED
    BY <1>6, <2>1
<1>8. /\ <<>> \in Seq(QuietEvent) /\ <<thrown>> \in Seq(QuietEvent)
      /\ \E i \in DOMAIN <<thrown>> : <<thrown>>[i].type = "channel_drop_originator_throttle"
  BY <1>2
<1> HIDE DEF r, events
<1>9. /\ Holds(st, m) => BroadcastLeaves(n, st, from, m, heard, <<>>)
      /\ BroadcastLeaves(n, st, from, m, heard, <<thrown>>)
      /\ IsGateway(n) => BroadcastLeaves(n, st, from, m, counted, <<>>)
  BY <1>3, <1>4, <1>8, HoldsIds DEF BroadcastLeaves
<1>10. ~IsGateway(n) => BroadcastLeaves(n, st, from, m, kept.st, events)
  BY <1>6, <1>7 DEF BroadcastLeaves
<1>11. \A s, ev : Result(s, ev).st = s /\ Result(s, ev).ev = ev
  BY DEF Result
<1>12. BroadcastLeaves(n, st, from, m, r.st, r.ev)
  BY <1>1, <1>9, <1>10, <1>11
<1> QED
  BY <1>12 DEF r

LEMMA BroadcastSound ==
  ASSUME setting \in Settings, clock \in Nat, NEW from \in Stations, NEW n \in setting.reach[from],
         n \in Stations, NEW to \in Stations, NEW m \in Posts, Carries(from, m), NEW st, Sound(n, st)
  PROVE  SoundResult(n, st, HearsBroadcast(n, from, to, st, m))
<1>1. PICK r : r = HearsBroadcast(n, from, to, st, m)
  OBVIOUS
<1>2. Shaped(st)
  BY DEF Sound
<1>3. BroadcastLeaves(n, st, from, m, r.st, r.ev)
  BY <1>1, <1>2, BroadcastFields
<1>4. ~IsGateway(n) => Carries(n, m)
  <2>1. setting.layer[from] = setting.layer[n] \/ IsGateway(from) \/ IsGateway(n)
    BY SettingTypes
  <2> QED
    BY <2>1 DEF Carries, Local
<1>5. Sound(n, r.st)
  BY <1>3, <1>4 DEF Sound, MayPull, BroadcastLeaves
<1> QED
  BY <1>1, <1>3, <1>5 DEF SoundResult, BroadcastLeaves

-----------------------------------------------------------------------------
(* process_channel_digest: it arms a timer for every pull it makes pending *)
(* and asks for nothing that is held, or was asked for within the window.  *)
LEMMA DigestType ==
  ASSUME NEW st, Shaped(st)
  PROVE  Digest(st) \in Seq(Ids(st.buffer))
<1> DEFINE Back(k) == Len(st.buffer) + 1 - k
           picked == Picked(st)
           ids == Ids(st.buffer)
           Part(k) == IF Back(k) \in picked THEN <<st.buffer[Back(k)].id>> ELSE <<>>
           parts == [k \in DOMAIN st.buffer |-> Part(k)]
<1>1. DOMAIN st.buffer = 1 .. Len(st.buffer) /\ Len(st.buffer) \in Nat
  BY DEF Shaped
<1>2. \A i \in picked : st.buffer[i].id \in ids
  BY DEF Picked, Dirty, Ids
<1>3. Digest(st) = FlattenSeq(parts)
  BY DEF Digest
<1> HIDE DEF picked, ids
<1>4. \A k \in 1 .. Len(st.buffer) : Part(k) \in Seq(ids)
  BY <1>2
<1> HIDE DEF Part
<1>5. parts \in Seq(Seq(ids))
  BY <1>1, <1>4
<1> HIDE DEF parts
<1>6. FlattenSeq(parts) \in Seq(ids)
  BY <1>5, FlattenType
<1> QED
  BY <1>3, <1>6 DEF ids

(* What it marks, the sender of the beacon has; a gateway does none of it. *)
Wants(st, ids, m) ==
  /\ m \in ToSet(ids) /\ m \notin Ids(st.buffer)
  /\ m \in DOMAIN st.recent => clock - st.recent[m] >= PullWindow

DigestLeaves(n, st, from, ids, s, ev) ==
  /\ Shaped(s) /\ Ids(s.buffer) = Ids(st.buffer) /\ s.queue = st.queue /\ s.recent = st.recent
  /\ ev \in Seq(QuietEvent)
  /\ \/ s.buffer = st.buffer /\ s.pending = st.pending /\ s.timers = st.timers
     \/ /\ ~IsGateway(n) /\ s.buffer = Marked(st.buffer, ToSet(ids), from)
        /\ \A m \in DOMAIN s.pending :
             m \in DOMAIN st.pending \/ (Wants(st, ids, m) /\ \E timer \in s.timers : timer.id = m)
        /\ st.timers \subseteq s.timers
        /\ \A timer \in s.timers : timer \in st.timers \/ timer.to = from

LEMMA DigestFields ==
  ASSUME setting \in Settings, clock \in Nat, NEW n \in Stations, NEW from \in Stations,
         NEW ids \in Seq(Posts), NEW delay, NEW st, Shaped(st),
         \A m \in DOMAIN st.recent : st.recent[m] \in Int
  PROVE  LET r == HearsDigest(n, from, st, ids, delay)
         IN  DigestLeaves(n, st, from, ids, r.st, r.ev)
<1> DEFINE near == Neighbour(st, from)
           missed == {k \in DOMAIN ids : ~Holds(st, ids[k]) /\ ~JustPulled(st, ids[k])}
           wanted == {ids[k] : k \in {i \in missed : Cardinality({j \in missed : j < i}) < MaxPulls}}
           known == {k \in DOMAIN ids : \E i \in DOMAIN st.buffer :
                       st.buffer[i].id = ids[k] /\ from \notin st.buffer[i].seenBy}
           marked == MarkSeen(near, ToSet(ids), from)
           pulls == With(marked.pending, wanted, from)
           armed == {[id |-> m, to |-> from, at |-> clock + delay[m]] : m \in wanted}
           timers == marked.timers \cup armed
           after == [marked EXCEPT !.pending = pulls, !.timers = timers]
           telling(k) == IF k \in known
                         THEN <<Told(n, "channel_msg_seen_by_neighbour", ids[k], from)>> ELSE <<>>
           told == [k \in DOMAIN ids |-> telling(k)]
           r == HearsDigest(n, from, st, ids, delay)
<1>1. r = Result(near, <<>>) \/ (~IsGateway(n) /\ r = Result(after, FlattenSeq(told)))
  BY DEF HearsDigest, TakesPart
<1>2. /\ Shaped(near) /\ near.recent = st.recent /\ near.buffer = st.buffer
      /\ near.queue = st.queue /\ near.pending = st.pending /\ near.timers = st.timers
  BY NeighbourFields
<1> HIDE DEF near
<1>3. /\ Shaped(marked) /\ Ids(marked.buffer) = Ids(st.buffer)
      /\ marked.buffer = Marked(st.buffer, ToSet(ids), from) /\ marked.queue = st.queue
      /\ marked.recent = st.recent /\ marked.pending = st.pending /\ marked.timers = st.timers
  BY <1>2, MarkedFields
<1> HIDE DEF marked
<1>4. \A m \in wanted : Wants(st, ids, m)
  <2> SUFFICES ASSUME NEW k \in missed PROVE Wants(st, ids, ids[k])
    OBVIOUS
  <2>1. PullWindow \in Nat /\ ids[k] \in ToSet(ids)
    BY SettingTypes DEF ToSet
  <2> QED
    BY <2>1, HoldsIds DEF JustPulled, Wants
<1> HIDE DEF wanted
<1>5. \A m \in wanted : \E timer \in armed : timer.id = m
  <2> SUFFICES ASSUME NEW m \in wanted PROVE \E timer \in armed : timer.id = m
    OBVIOUS
  <2>1. [id |-> m, to |-> from, at |-> clock + delay[m]].id = m
    OBVIOUS
  <2>2. [id |-> m, to |-> from, at |-> clock + delay[m]] \in armed
    OBVIOUS
  <2> HIDE DEF armed
  <2> QED
    BY <2>1, <2>2
<1>6. \A timer \in armed : timer.to = from
  OBVIOUS
<1> HIDE DEF armed
<1>7. DOMAIN pulls = wanted \cup DOMAIN st.pending
  BY <1>3 DEF With
<1> HIDE DEF pulls
<1>8. /\ Shaped(after) /\ after.buffer = marked.buffer /\ after.queue = marked.queue
      /\ after.pending = pulls /\ after.timers = st.timers \cup armed /\ after.recent = marked.recent
  <2>1. \A v, w : [marked EXCEPT !.pending = v, !.timers = w] =
                    Record(marked.buffer, v, w, marked.recent, marked.answered, marked.queue,
                           marked.rt, marked.admitted)
    BY <1>3, EditPending DEF Shaped
  <2>2. after = Record(marked.buffer, pulls, timers, marked.recent, marked.answered, marked.queue,
                       marked.rt, marked.admitted)
    BY <2>1
  <2>3. timers = st.timers \cup armed
    BY <1>3
  <2> HIDE DEF after, timers
  <2> QED
    BY <1>3, <2>2, <2>3, RecordFields DEF Shaped
<1> HIDE DEF after
<1>9. <<>> \in Seq(QuietEvent) /\ FlattenSeq(told) \in Seq(QuietEvent)
  <2>1. from \in Sources /\ "channel_msg_seen_by_neighbour" \in QuietKinds
    BY DEF Sources, QuietKinds
  <2>2. DOMAIN ids = 1 .. Len(ids) /\ Len(ids) \in Nat /\ \A k \in 1 .. Len(ids) : ids[k] \in Posts
    OBVIOUS
  <2>3. \A k \in 1 .. Len(ids) :
          Told(n, "channel_msg_seen_by_neighbour", ids[k], from) \in QuietEvent
    BY <2>1, <2>2, ToldQuiet
  <2>4. \A k \in 1 .. Len(ids) : telling(k) \in Seq(QuietEvent)
    BY <2>3
  <2> HIDE DEF telling
  <2>5. told \in Seq(Seq(QuietEvent))
    BY <2>2, <2>4
  <2> HIDE DEF told
  <2> QED
    BY <2>5, FlattenType
<1> HIDE DEF r, told
<1>10. DigestLeaves(n, st, from, ids, near, <<>>)
  BY <1>2, <1>9 DEF DigestLeaves
<1>11. ~IsGateway(n) => DigestLeaves(n, st, from, ids, after, FlattenSeq(told))
  BY <1>3, <1>4, <1>5, <1>6, <1>7, <1>8, <1>9 DEF DigestLeaves
<1>12. \A s, ev : Result(s, ev).st = s /\ Result(s, ev).ev = ev
  BY DEF Result
<1>13. DigestLeaves(n, st, from, ids, r.st, r.ev)
  BY <1>1, <1>10, <1>11, <1>12
<1> QED
  BY <1>13 DEF r

LEMMA DigestSound ==
  ASSUME setting \in Settings, clock \in Nat, NEW n \in Stations, NEW from \in Stations, Heard(n, from),
         NEW ids \in Seq(Posts), \A k \in DOMAIN ids : ids[k] \in Posted,
         NEW delay, NEW st, Sound(n, st)
  PROVE  SoundResult(n, st, HearsDigest(n, from, st, ids, delay))
<1>1. PICK r : r = HearsDigest(n, from, st, ids, delay)
  OBVIOUS
<1>2. Shaped(st) /\ \A m \in DOMAIN st.recent : st.recent[m] \in Int
  BY DEF Sound
<1>3. DigestLeaves(n, st, from, ids, r.st, r.ev)
  BY <1>1, <1>2, DigestFields
<1>4. \A m : Wants(st, ids, m) => m \in Posted
  BY DEF Wants, ToSet
<1>5. \A m \in DOMAIN r.st.pending : MayPull(r.st, m)
  BY <1>3, <1>4 DEF Sound, MayPull, DigestLeaves, Wants
<1>6. \A timer \in r.st.timers : Heard(n, timer.to)
  BY <1>3 DEF Sound, DigestLeaves
<1>7. Sound(n, r.st)
  BY <1>3, <1>5, <1>6 DEF Sound, DigestLeaves
<1> QED
  BY <1>1, <1>3, <1>7 DEF SoundResult, DigestLeaves


-----------------------------------------------------------------------------
(* The senders: a beacon, a pull and a broadcast leave the state of their  *)
(* sender sound.                                                           *)
LEMMA AdvertisedSound ==
  ASSUME NEW n, NEW st, Sound(n, st)
  PROVE  LET s == Advertised(st)
         IN  /\ Sound(n, s) /\ s.recent = st.recent
             /\ s.queue = st.queue /\ s.pending = st.pending /\ DOMAIN s.buffer = DOMAIN st.buffer
             /\ \A i \in DOMAIN st.buffer :
                  s.buffer[i].id = st.buffer[i].id /\ s.buffer[i].seenBy = st.buffer[i].seenBy
<1> DEFINE told == [i \in DOMAIN st.buffer |->
                      IF i \in Picked(st) THEN Retold(st.buffer[i]) ELSE st.buffer[i]]
<1>1. /\ st.buffer \in Seq(Entries) /\ DOMAIN st.buffer = 1 .. Len(st.buffer)
      /\ Len(st.buffer) \in Nat /\ IsRecord(st)
  BY DEF Sound, Shaped
<1>2. \A e \in Entries : Retold(e) \in Entries /\ Retold(e).id = e.id /\ Retold(e).seenBy = e.seenBy
  <2> SUFFICES ASSUME NEW e \in Entries
               PROVE  Retold(e) \in Entries /\ Retold(e).id = e.id /\ Retold(e).seenBy = e.seenBy
    OBVIOUS
  <2> DEFINE more == e.ads + 1
             again == more < MaxAds
  <2>1. more \in Nat
    BY DEF Entries
  <2>2. again \in BOOLEAN
    OBVIOUS
  <2>3. Retold(e) = [e EXCEPT !.ads = more, !.dirty = again]
    BY DEF Retold
  <2> HIDE DEF more, again
  <2>4. PICK v \in Nat, w \in BOOLEAN : Retold(e) = [e EXCEPT !.ads = v, !.dirty = w]
    BY <2>1, <2>2, <2>3, Zenon
  <2> QED
    BY <2>4 DEF Entries
<1>3. \A i \in DOMAIN st.buffer : /\ told[i] \in Entries /\ told[i].id = st.buffer[i].id
                                  /\ told[i].seenBy = st.buffer[i].seenBy
  <2>1. \A i \in DOMAIN st.buffer : st.buffer[i] \in Entries
    BY <1>1
  <2> QED
    BY <1>2, <2>1
<1>4. DOMAIN told = DOMAIN st.buffer /\ told = [i \in DOMAIN st.buffer |-> told[i]]
  OBVIOUS
<1>5. Advertised(st) = [st EXCEPT !.buffer = told]
  BY DEF Advertised
<1> HIDE DEF told
<1>6. told \in Seq(Entries) /\ Ids(told) = Ids(st.buffer)
  <2>1. told \in [1 .. Len(st.buffer) -> Entries]
    BY <1>1, <1>3, <1>4
  <2>2. told \in Seq(Entries)
    BY <1>1, <2>1
  <2>3. Ids(told) = Ids(st.buffer)
    BY <1>3, <1>4 DEF Ids
  <2> QED
    BY <2>2, <2>3
<1>7. Advertised(st) = Record(told, st.pending, st.timers, st.recent, st.answered, st.queue,
                              st.rt, st.admitted)
  BY <1>1, <1>5, Edits
<1>8. LET s == Advertised(st)
      IN  /\ Shaped(s) /\ Ids(s.buffer) = Ids(st.buffer) /\ s.queue = st.queue
          /\ s.pending = st.pending /\ s.timers = st.timers /\ s.recent = st.recent
          /\ s.buffer = told
  BY <1>6, <1>7, RecordFields DEF Sound, Shaped
<1> QED
  BY <1>3, <1>4, <1>8, SoundLess

LEMMA ServedSound ==
  ASSUME NEW n, NEW st, Sound(n, st), st.queue # <<>>
  PROVE  LET s == [st EXCEPT !.queue = Tail(@)]
         IN  /\ Sound(n, s) /\ s.recent = st.recent
             /\ s.queue = Tail(st.queue) /\ s.pending = st.pending /\ s.buffer = st.buffer
<1> DEFINE rest == Tail(st.queue)
           s == [st EXCEPT !.queue = rest]
<1>1. st.queue \in Seq(Items) /\ IsRecord(st)
  BY DEF Sound, Shaped
<1>2. rest \in Seq(Items) /\ Ids(rest) \subseteq Ids(st.queue)
  BY <1>1, HeadTailProperties DEF Ids
<1> HIDE DEF rest
<1>3. s = Record(st.buffer, st.pending, st.timers, st.recent, st.answered, rest,
                 st.rt, st.admitted)
  BY <1>1, Edits
<1> HIDE DEF s
<1>4. /\ Shaped(s) /\ s.buffer = st.buffer /\ s.queue = rest
      /\ s.pending = st.pending /\ s.timers = st.timers /\ s.recent = st.recent
  BY <1>2, <1>3, RecordFields DEF Sound, Shaped
<1>5. /\ Sound(n, s) /\ s.recent = st.recent
      /\ s.queue = rest /\ s.pending = st.pending /\ s.buffer = st.buffer
  BY <1>2, <1>4, SoundLess
<1> QED
  BY <1>5 DEF s, rest

(* The pull of a fired timer is no longer pending, whatever became of it.  *)
Settles(st, s) ==
  s.buffer = st.buffer /\ s.queue = st.queue /\ DOMAIN s.pending \subseteq DOMAIN st.pending

Asks(st, timer, s) ==
  /\ Settles(st, s)
  /\ DOMAIN s.recent = DOMAIN st.recent \cup {timer.id} /\ s.recent[timer.id] = clock
  /\ \A m \in DOMAIN st.recent : m # timer.id => s.recent[m] = st.recent[m]

LEMMA SettledSound ==
  ASSUME setting \in Settings, clock \in Nat, NEW n \in Stations, NEW timer, Sound(n, station[n])
  PROVE  LET quiet == [Quiet(n, timer) EXCEPT !.pending = Forget(@, timer.id)]
             asked == Asked(n, timer)
         IN  /\ Sound(n, quiet) /\ quiet.recent = station[n].recent /\ Settles(station[n], quiet)
             /\ Sound(n, asked) /\ Asks(station[n], timer, asked)
<1> DEFINE still == Quiet(n, timer)
           fewer == station[n].timers \ {timer}
           recent == With(still.recent, {timer.id}, clock)
           pulls == Forget(still.pending, timer.id)
           quiet == [still EXCEPT !.pending = pulls]
           asked == [still EXCEPT !.recent = recent, !.pending = pulls]
           st == station[n]
<1>1. Shaped(st) /\ \A m \in DOMAIN st.recent : st.recent[m] \in Int
  BY DEF Sound
<1>2. /\ Shaped(still) /\ still.buffer = st.buffer /\ still.queue = st.queue
      /\ still.pending = st.pending /\ still.timers = fewer /\ still.recent = st.recent
  <2>1. still = Record(st.buffer, st.pending, fewer, st.recent, st.answered, st.queue, st.rt,
                       st.admitted)
    <3>1. \A v : [st EXCEPT !.timers = v] =
                   Record(st.buffer, st.pending, v, st.recent, st.answered, st.queue, st.rt,
                          st.admitted)
      BY <1>1, Edits DEF Shaped
    <3> QED
      BY <3>1 DEF Quiet
  <2> HIDE DEF still
  <2> QED
    BY <1>1, <2>1, RecordFields DEF Shaped
<1> HIDE DEF still
<1>3. quiet = Record(still.buffer, pulls, still.timers, still.recent, still.answered,
                     still.queue, still.rt, still.admitted)
  <2>1. \A v : [still EXCEPT !.pending = v] =
                 Record(still.buffer, v, still.timers, still.recent, still.answered,
                        still.queue, still.rt, still.admitted)
    BY <1>2, Edits DEF Shaped
  <2> QED
    BY <2>1
<1>4. asked = Record(still.buffer, pulls, still.timers, recent, still.answered,
                     still.queue, still.rt, still.admitted)
  <2>1. \A v, w : [still EXCEPT !.recent = v, !.pending = w] =
                    Record(still.buffer, w, still.timers, v, still.answered, still.queue,
                           still.rt, still.admitted)
    BY <1>2, EditRecent DEF Shaped
  <2> QED
    BY <2>1
<1>5. /\ asked = Asked(n, timer)
      /\ quiet = [Quiet(n, timer) EXCEPT !.pending = Forget(@, timer.id)]
  BY DEF Asked, still
<1>6. DOMAIN pulls = DOMAIN st.pending \ {timer.id}
  BY <1>2 DEF Forget, Restrict
<1>7. /\ DOMAIN recent = DOMAIN st.recent \cup {timer.id} /\ recent[timer.id] = clock
      /\ \A m \in DOMAIN st.recent : m # timer.id => recent[m] = st.recent[m]
  BY <1>2 DEF With
<1> HIDE DEF quiet, asked, pulls, recent
<1>8. /\ Shaped(quiet) /\ quiet.buffer = st.buffer /\ quiet.queue = st.queue
      /\ quiet.pending = pulls /\ quiet.timers = fewer /\ quiet.recent = st.recent
  BY <1>2, <1>3, RecordFields DEF Shaped
<1>9. /\ Shaped(asked) /\ asked.buffer = st.buffer /\ asked.queue = st.queue
      /\ asked.pending = pulls /\ asked.timers = fewer /\ asked.recent = recent
  BY <1>2, <1>4, RecordFields DEF Shaped
<1>10. \A m \in DOMAIN pulls : \E t \in fewer : t.id = m
  BY <1>6 DEF Sound, MayPull
<1>11. Sound(n, quiet)
  BY <1>6, <1>8, <1>10 DEF Sound, MayPull
<1>12. Sound(n, asked)
  <2>1. \A m \in DOMAIN pulls : MayPull(asked, m)
    BY <1>6, <1>7, <1>9, <1>10 DEF Sound, MayPull
  <2>2. \A m \in DOMAIN recent : recent[m] \in Int
    BY <1>1, <1>7
  <2> QED
    BY <1>9, <2>1, <2>2 DEF Sound
<1> QED
  BY <1>5, <1>6, <1>7, <1>8, <1>9, <1>11, <1>12 DEF Settles, Asks


-----------------------------------------------------------------------------
(* What the journal says of pulls: they are spaced, and their sender still *)
(* remembers the last of them.                                             *)
Sent(j) == {i \in DOMAIN j : j[i].type = "channel_pull_sent"}

Spaced(j) ==
  \A i, k \in Sent(j) :
    i < k /\ j[i].node = j[k].node /\ j[i].id = j[k].id => j[k].t - j[i].t >= PullWindow

Remembered(j, st) ==
  \A i \in Sent(j) :
    j[i].id \in DOMAIN st[j[i].node].recent /\ j[i].t <= st[j[i].node].recent[j[i].id]

Logged(j, st) == j \in Seq(Event) /\ Spaced(j) /\ Remembered(j, st)

LEMMA EventFields == \A e \in Event : e.t \in Nat /\ e.node \in Stations
BY DEF Event

LEMMA LoggedQuiet ==
  ASSUME NEW j, NEW st, NEW st2, NEW quiet \in Seq(QuietEvent), Logged(j, st),
         \A n \in Stations : st2[n].recent = st[n].recent
  PROVE  Logged(j \o quiet, st2)
<1> DEFINE k == j \o quiet
<1>1. /\ j \in Seq(Event) /\ quiet \in Seq(Event) /\ DOMAIN j = 1 .. Len(j) /\ Len(j) \in Nat
      /\ Len(quiet) \in Nat /\ \A i \in 1 .. Len(quiet) : quiet[i].type # "channel_pull_sent"
  <2>1. quiet \in Seq(Event)
    <3>1. QuietEvent \subseteq Event
      BY DEF QuietEvent, Event
    <3> HIDE DEF QuietEvent, Event
    <3> QED
      BY <3>1
  <2>2. \A e \in QuietEvent : e.type # "channel_pull_sent"
    BY DEF QuietEvent, QuietKinds
  <2> QED
    BY <2>1, <2>2 DEF Logged
<1>2. /\ k \in Seq(Event) /\ DOMAIN k = 1 .. Len(j) + Len(quiet)
      /\ \A i \in 1 .. Len(j) : k[i] = j[i]
      /\ \A i \in DOMAIN k : i \in 1 .. Len(j) \/ (i - Len(j) \in 1 .. Len(quiet) /\ k[i] = quiet[i - Len(j)])
  BY <1>1, ConcatProperties
<1> HIDE DEF k
<1>3. Sent(k) = Sent(j) /\ \A i \in Sent(j) : k[i] = j[i] /\ j[i].node \in Stations
  <2>1. \A i \in DOMAIN k : k[i].type = "channel_pull_sent" => i \in 1 .. Len(j)
    BY <1>1, <1>2
  <2>2. \A i \in DOMAIN j : j[i].node \in Stations
    <3>1. \A i \in DOMAIN j : j[i] \in Event
      BY <1>1
    <3> QED
      BY <3>1, EventFields
  <2> QED
    BY <1>1, <1>2, <2>1, <2>2 DEF Sent
<1>4. Spaced(k)
  BY <1>3 DEF Logged, Spaced
<1>5. Remembered(k, st2)
  BY <1>3 DEF Logged, Remembered
<1> QED
  BY <1>2, <1>4, <1>5 DEF Logged, k

LEMMA LoggedSent ==
  ASSUME setting \in Settings, clock \in Nat, NEW n \in Stations, NEW m \in Posts, NEW to \in Stations,
         NEW j, NEW st, NEW st2, Logged(j, st),
         m \in DOMAIN st[n].recent => st[n].recent[m] \in Int /\ clock - st[n].recent[m] >= PullWindow,
         DOMAIN st2[n].recent = DOMAIN st[n].recent \cup {m}, st2[n].recent[m] = clock,
         \A x \in DOMAIN st[n].recent : x # m => st2[n].recent[x] = st[n].recent[x],
         \A x \in Stations : x # n => st2[x].recent = st[x].recent
  PROVE  Logged(j \o <<Told(n, "channel_pull_sent", m, to)>>, st2)
<1> DEFINE e == Told(n, "channel_pull_sent", m, to)
           k == Append(j, e)
<1>1. e \in Event /\ e.type = "channel_pull_sent" /\ e.node = n /\ e.id = m /\ e.t = clock
  BY DEF Told, Event, Sources
<1> HIDE DEF e
<1>2. /\ j \in Seq(Event) /\ DOMAIN j = 1 .. Len(j) /\ Len(j) \in Nat /\ PullWindow \in Nat
  BY SettingTypes DEF Logged
<1>3. /\ k \in Seq(Event) /\ DOMAIN k = 1 .. Len(j) + 1 /\ k[Len(j) + 1] = e
      /\ \A i \in 1 .. Len(j) : k[i] = j[i]
  BY <1>1, <1>2, AppendProperties
<1>4. j \o <<e>> = k
  <2>1. <<e>> \in Seq(Event)
    BY <1>1
  <2> HIDE DEF k
  <2>2. j \o <<e>> \in Seq(Event) /\ Len(j \o <<e>>) = Len(j) + 1
    BY <1>2, <2>1, ConcatProperties
  <2>3. \A i \in 1 .. Len(j) + 1 : (j \o <<e>>)[i] = IF i <= Len(j) THEN j[i] ELSE e
    BY <1>2, <2>1, ConcatProperties
  <2>4. k \in Seq(Event) /\ Len(k) = Len(j) + 1
    BY <1>1, <1>2, AppendProperties DEF k
  <2> QED
    BY <1>2, <1>3, <2>2, <2>3, <2>4, SeqEqual
<1> HIDE DEF k
<1>5. Sent(k) = Sent(j) \cup {Len(j) + 1} /\ \A i \in Sent(j) : k[i] = j[i] /\ i <= Len(j)
  BY <1>1, <1>2, <1>3 DEF Sent
<1>6. \A i \in Sent(j) : j[i].t \in Nat /\ j[i].node \in Stations
  <2> SUFFICES ASSUME NEW i \in DOMAIN j PROVE j[i].t \in Nat /\ j[i].node \in Stations
    BY DEF Sent
  <2>1. j[i] \in Event
    BY <1>2
  <2> QED
    BY <2>1, EventFields
<1>7. \A i \in Sent(j) : j[i].node = n /\ j[i].id = m => clock - j[i].t >= PullWindow
  <2> SUFFICES ASSUME NEW i \in Sent(j), j[i].node = n, j[i].id = m
               PROVE  clock - j[i].t >= PullWindow
    OBVIOUS
  <2>1. m \in DOMAIN st[n].recent /\ j[i].t <= st[n].recent[m]
    BY DEF Logged, Remembered
  <2>2. j[i].t \in Nat /\ st[n].recent[m] \in Int /\ clock - st[n].recent[m] >= PullWindow
    BY <1>6, <2>1
  <2> QED
    BY <1>2, <2>1, <2>2
<1>8. Spaced(k)
  <2> SUFFICES ASSUME NEW i \in Sent(k), NEW l \in Sent(k), i < l,
                      k[i].node = k[l].node, k[i].id = k[l].id
               PROVE  k[l].t - k[i].t >= PullWindow
    BY DEF Spaced
  <2>1. i \in Sent(j)
    <3>1. \A x \in Sent(j) : x <= Len(j)
      BY <1>5
    <3>2. l <= Len(j) + 1 /\ i \in Int /\ l \in Int
      BY <1>2, <1>3 DEF Sent
    <3> QED
      BY <1>2, <1>5, <3>2
  <2>2. CASE l \in Sent(j)
    <3>1. k[i] = j[i] /\ k[l] = j[l]
      BY <1>5, <2>1, <2>2
    <3>2. j[l].t - j[i].t >= PullWindow
      BY <2>1, <2>2, <3>1 DEF Logged, Spaced
    <3> QED
      BY <3>1, <3>2
  <2>3. CASE l = Len(j) + 1
    <3>1. k[l] = e /\ k[i] = j[i]
      BY <1>3, <1>5, <2>1, <2>3
    <3>2. j[i].node = n /\ j[i].id = m
      BY <1>1, <3>1
    <3>3. clock - j[i].t >= PullWindow
      BY <1>7, <2>1, <3>2
    <3> QED
      BY <1>1, <3>1, <3>3
  <2> QED
    BY <1>5, <2>2, <2>3
<1>9. Remembered(k, st2)
  <2>1. \A i \in Sent(j) : /\ j[i].id \in DOMAIN st2[j[i].node].recent
                           /\ j[i].t <= st2[j[i].node].recent[j[i].id]
    <3> SUFFICES ASSUME NEW i \in Sent(j)
                 PROVE  /\ j[i].id \in DOMAIN st2[j[i].node].recent
                        /\ j[i].t <= st2[j[i].node].recent[j[i].id]
      OBVIOUS
    <3>1. j[i].id \in DOMAIN st[j[i].node].recent /\ j[i].t <= st[j[i].node].recent[j[i].id]
      BY DEF Logged, Remembered
    <3>2. CASE j[i].node = n /\ j[i].id = m
      BY <1>2, <1>6, <1>7, <3>2
    <3>3. CASE j[i].node = n /\ j[i].id # m
      BY <3>1, <3>3
    <3>4. CASE j[i].node # n
      BY <1>6, <3>1, <3>4
    <3> QED
      BY <3>2, <3>3, <3>4
  <2> QED
    BY <1>1, <1>3, <1>5, <2>1 DEF Remembered
<1> QED
  BY <1>3, <1>4, <1>8, <1>9 DEF Logged, e


-----------------------------------------------------------------------------
(* A frame of n: its decoders are sound afterwards, the others unchanged,  *)
(* and their events are no pulls.                                          *)
LEMMA Transmitted ==
  ASSUME setting \in Settings, NEW n \in Stations, NEW after, NEW ev \in Seq(Event), journal \in Seq(Event),
         NEW R \in SUBSET Stations, NEW does, n \notin R, Transmit(n, after, ev, R, does),
         \A x \in Stations : Sound(x, station[x]),
         \A x \in R : SoundResult(x, station[x], does[x])
  PROVE  /\ station'[n] = after
         /\ \A x \in Stations : x # n => Sound(x, station'[x]) /\ station'[x].recent = station[x].recent
         /\ \E quiet \in Seq(QuietEvent) : journal' = (journal \o ev) \o quiet
         /\ \A x \in DOMAIN had' :
              x \in DOMAIN had \/ (x \in Stations \X Posts /\ Holds(station'[x[1]], x[2]))
<1> DEFINE new == [x \in Stations |-> CASE x = n -> after
                                        [] x \in R -> does[x].st
                                        [] OTHER -> station[x]]
           Says(x) == IF x \in R THEN does[x].ev ELSE <<>>
           says == [x \in Stations |-> Says(x)]
           fresh == {x \in (Stations \X Posts) \ DOMAIN had : Holds(new[x[1]], x[2])}
<1>1. /\ station' = new /\ journal' = journal \o ev \o FlattenSeq(says)
      /\ had' = With(had, fresh, clock)
  BY DEF Transmit
<1>2. station'[n] = after
  BY <1>1
<1>3. \A x \in Stations : x # n => Sound(x, station'[x]) /\ station'[x].recent = station[x].recent
  <2> SUFFICES ASSUME NEW x \in Stations, x # n
               PROVE  Sound(x, station'[x]) /\ station'[x].recent = station[x].recent
    OBVIOUS
  <2>1. CASE x \in R
    <3>1. station'[x] = does[x].st
      BY <1>1, <2>1
    <3> QED
      BY <2>1, <3>1 DEF SoundResult
  <2>2. CASE x \notin R
    <3>1. station'[x] = station[x]
      BY <1>1, <2>2
    <3> QED
      BY <3>1
  <2> QED
    BY <2>1, <2>2
<1>4. FlattenSeq(says) \in Seq(QuietEvent)
  <2>1. /\ Cardinality(Stations) \in Nat /\ Stations = 1 .. Cardinality(Stations)
    BY GossipAssumption, FS_CardinalityType
  <2>2. \A x \in Stations : Says(x) \in Seq(QuietEvent)
    BY DEF SoundResult
  <2> HIDE DEF Says
  <2>3. says \in [Stations -> Seq(QuietEvent)]
    BY <2>2
  <2>4. says \in Seq(Seq(QuietEvent))
    <3> HIDE DEF says
    <3> QED
      BY <2>1, <2>3
  <2> HIDE DEF says
  <2> QED
    BY <2>4, FlattenType
<1>5. \A x \in DOMAIN had' : x \in DOMAIN had \/ x \in fresh
  BY <1>1 DEF With
<1> QED
  BY <1>1, <1>2, <1>3, <1>4, <1>5

LEMMA SoundLater ==
  ASSUME setting' = setting, clock \in Nat, clock' \in Nat, clock <= clock', Posted \subseteq Posted',
         PullWindow \in Nat, NEW n \in Stations, Sound(n, station'[n])
  PROVE  Sound(n, station[n])'
<1> DEFINE st == station'[n]
<1>1. /\ Shaped(st) /\ \A m \in DOMAIN st.recent : st.recent[m] \in Int
      /\ \A m \in Ids(st.buffer) \cup Ids(st.queue) : Carries(n, m)
      /\ \A m \in DOMAIN st.pending : MayPull(st, m)
      /\ \A timer \in st.timers : Heard(n, timer.to)
  BY DEF Sound
<1>2. \A m : Carries(n, m) => Carries(n, m)'
  BY DEF Carries, Local, Author, IsGateway
<1>3. \A m \in DOMAIN st.pending : MayPull(station[n], m)'
  BY <1>1 DEF MayPull
<1>4. Shaped(station[n])'
  BY <1>1 DEF Shaped, IsRecord, Record, Entries, Items, Posts
<1>5. \A m \in Ids(st.buffer) \cup Ids(st.queue) : Carries(n, m)'
  BY <1>1, <1>2
<1>6. \A timer \in st.timers : Heard(n, timer.to)'
  BY <1>1 DEF Heard
<1> QED
  BY <1>1, <1>3, <1>4, <1>5, <1>6 DEF Sound

(* The invariant. *)
Disciplined ==
  /\ setting \in Settings /\ clock \in Nat /\ due \subseteq Due(clock)
  /\ \A n \in Stations : Sound(n, station[n])
  /\ Logged(journal, station)
  /\ \A x \in DOMAIN had : Local(x[1], x[2])

LEMMA PostedStays ==
  ASSUME setting' = setting, clock' = clock, due' \subseteq due
  PROVE  Posted \subseteq Posted'
BY DEF Posted, Posts

(* What a transmission leaves to be shown: its sender is sound, and what   *)
(* it says of pulls is true.                                               *)
LEMMA TransmitStep ==
  ASSUME Disciplined, setting' = setting, clock' = clock, due' \subseteq due,
         NEW n \in Stations, NEW after, NEW ev \in Seq(Event), NEW R \in SUBSET Stations, NEW does,
         n \notin R, Transmit(n, after, ev, R, does),
         \A x \in R : SoundResult(x, station[x], does[x]),
         Sound(n, station[n])', Logged(journal \o ev, station')
  PROVE  Disciplined'
<1>1. /\ setting \in Settings /\ clock \in Nat /\ journal \in Seq(Event)
      /\ \A x \in Stations : Sound(x, station[x])
  BY DEF Disciplined, Logged
<1>2. /\ \A x \in Stations : x # n => Sound(x, station'[x]) /\ station'[x].recent = station[x].recent
      /\ \E quiet \in Seq(QuietEvent) : journal' = (journal \o ev) \o quiet
      /\ \A x \in DOMAIN had' :
           x \in DOMAIN had \/ (x \in Stations \X Posts /\ Holds(station'[x[1]], x[2]))
  BY <1>1, Transmitted
<1>3. PICK quiet \in Seq(QuietEvent) : journal' = (journal \o ev) \o quiet
  BY <1>2
<1>4. \A x \in Stations : Sound(x, station[x])'
  <2> SUFFICES ASSUME NEW x \in Stations PROVE Sound(x, station[x])'
    OBVIOUS
  <2>1. CASE x = n
    BY <2>1
  <2>2. CASE x # n
    BY <1>1, <1>2, <2>2, PostedStays, SettingTypes, SoundLater
  <2> QED
    BY <2>1, <2>2
<1>5. Logged(journal', station')
  BY <1>3, LoggedQuiet
<1>6. \A x \in DOMAIN had' : Local(x[1], x[2])'
  <2> SUFFICES ASSUME NEW x \in DOMAIN had' PROVE Local(x[1], x[2])'
    OBVIOUS
  <2>1. CASE x \in DOMAIN had
    <3>1. Local(x[1], x[2])
      BY <2>1 DEF Disciplined
    <3> QED
      BY <3>1 DEF Local, Author, IsGateway
  <2>2. CASE x \in Stations \X Posts /\ Holds(station'[x[1]], x[2])
    <3>1. x[1] \in Stations /\ x[2] \in Ids(station'[x[1]].buffer)
      BY <2>2, HoldsIds
    <3>2. Carries(x[1], x[2])'
      BY <1>4, <3>1 DEF Sound
    <3> QED
      BY <3>2 DEF Carries
  <2> QED
    BY <1>2, <2>1, <2>2
<1>7. setting' \in Settings /\ clock' \in Nat /\ due' \subseteq Due(clock)'
  BY DEF Disciplined, Due, Posts
<1> QED
  <2>1. Logged(journal, station)'
    BY <1>5 DEF Logged, Spaced, Remembered, Sent, Event, Posts, Sources
  <2> QED
    BY <1>4, <1>6, <1>7, <2>1 DEF Disciplined


LEMMA DisciplinedInit == GossipInit => Disciplined
<1> SUFFICES ASSUME GossipInit PROVE Disciplined
  OBVIOUS
<1>1. /\ setting \in Settings /\ clock = 0 /\ due = Due(0) /\ journal = <<>> /\ had = <<>>
      /\ station = [n \in Stations |-> Fresh]
  BY DEF GossipInit
<1>2. \A n \in Stations : Sound(n, station[n])
  <2> SUFFICES ASSUME NEW n \in Stations PROVE Sound(n, Fresh)
    BY <1>1
  <2>1. /\ Fresh = Record(<<>>, <<>>, {}, <<>>, <<>>, <<>>, {}, <<>>)
        /\ <<>> \in Seq(Entries) /\ <<>> \in Seq(Items)
    BY DEF Fresh, Record
  <2>2. /\ Shaped(Fresh) /\ Fresh.buffer = <<>> /\ Fresh.queue = <<>> /\ Fresh.pending = <<>>
        /\ Fresh.recent = <<>> /\ Fresh.timers = {}
    BY <2>1 DEF Fresh, Shaped, IsRecord, Record
  <2> QED
    BY <2>2 DEF Sound, Ids
<1>3. Logged(journal, station)
  BY <1>1 DEF Logged, Spaced, Remembered, Sent
<1> QED
  BY <1>1, <1>2, <1>3 DEF Disciplined

LEMMA DecodersTypes ==
  ASSUME setting \in Settings, NEW n \in Stations, NEW R \in Decoders(n)
  PROVE  R \in SUBSET Stations /\ n \notin R /\ R \subseteq setting.reach[n]
BY SettingTypes DEF Decoders

(* A sender that has pulled nothing since has nothing new to be logged.    *)
LEMMA QuietStep ==
  ASSUME Disciplined, setting' = setting, clock' = clock, due' \subseteq due,
         NEW n \in Stations, NEW after, NEW ev \in Seq(QuietEvent), NEW R \in SUBSET Stations, NEW does,
         n \notin R, Transmit(n, after, ev, R, does),
         \A x \in R : SoundResult(x, station[x], does[x]),
         Sound(n, after), after.recent = station[n].recent
  PROVE  Disciplined'
<1>1. /\ setting \in Settings /\ clock \in Nat /\ journal \in Seq(Event)
      /\ \A x \in Stations : Sound(x, station[x])
  BY DEF Disciplined, Logged
<1>2. ev \in Seq(Event)
  <2>1. QuietEvent \subseteq Event
    BY DEF QuietEvent, Event
  <2> HIDE DEF QuietEvent, Event
  <2> QED
    BY <2>1
<1>3. /\ station'[n] = after
      /\ \A x \in Stations : x # n => station'[x].recent = station[x].recent
  BY <1>1, <1>2, Transmitted
<1>4. Logged(journal \o ev, station')
  <2>1. \A x \in Stations : station'[x].recent = station[x].recent
    BY <1>3
  <2> QED
    BY <2>1, LoggedQuiet DEF Disciplined
<1>5. Sound(n, station[n])'
  <2>1. Sound(n, station'[n])
    BY <1>3
  <2> QED
    BY <1>1, <2>1, PostedStays, SettingTypes, SoundLater
<1> QED
  BY <1>2, <1>4, <1>5, TransmitStep

LEMMA BeaconStep ==
  ASSUME Disciplined, NEW n \in Stations, Beacon(n)
  PROVE  Disciplined'
<1> DEFINE st == station[n]
           ids == Digest(st)
<1>1. /\ setting \in Settings /\ clock \in Nat /\ \A x \in Stations : Sound(x, station[x])
  BY DEF Disciplined
<1>2. PICK R \in Decoders(n) : \E delay \in [R -> [ToSet(ids) -> 0 .. MaxDelay]] :
        Transmit(n, Advertised(st), <<>>, R,
                 [x \in R |-> HearsDigest(x, n, station[x], ids, delay[x])])
  BY DEF Beacon
<1>3. PICK delay : Transmit(n, Advertised(st), <<>>, R,
                            [x \in R |-> HearsDigest(x, n, station[x], ids, delay[x])])
  BY <1>2
<1>4. R \in SUBSET Stations /\ n \notin R
  BY <1>1, DecodersTypes
<1>5. ids \in Seq(Posts) /\ \A k \in DOMAIN ids : ids[k] \in Posted
  <2>1. ids \in Seq(Ids(st.buffer))
    BY <1>1, DigestType DEF Sound
  <2>2. Ids(st.buffer) \subseteq Posted /\ Posted \subseteq Posts
    BY <1>1 DEF Sound, Carries, Posted
  <2> HIDE DEF ids
  <2> QED
    BY <2>1, <2>2
<1> DEFINE does == [x \in R |-> HearsDigest(x, n, station[x], ids, delay[x])]
<1>6. \A x \in R : SoundResult(x, station[x], does[x])
  <2> SUFFICES ASSUME NEW x \in R
               PROVE  SoundResult(x, station[x], HearsDigest(x, n, station[x], ids, delay[x]))
    OBVIOUS
  <2>1. x \in Stations /\ Heard(x, n)
    BY <1>1, <1>4, DecodersTypes DEF Heard
  <2> HIDE DEF ids
  <2> QED
    BY <1>1, <1>5, <2>1, DigestSound
<1>7. Sound(n, Advertised(st)) /\ Advertised(st).recent = st.recent
  BY <1>1, AdvertisedSound
<1>8. setting' = setting /\ clock' = clock /\ due' \subseteq due
  BY DEF Beacon
<1>9. Transmit(n, Advertised(st), <<>>, R, does) /\ <<>> \in Seq(QuietEvent)
  BY <1>3
<1> HIDE DEF does
<1> QED
  BY <1>4, <1>6, <1>7, <1>8, <1>9, QuietStep

LEMMA BroadcastStep ==
  ASSUME Disciplined, NEW n \in Stations, Broadcast(n)
  PROVE  Disciplined'
<1> DEFINE st == station[n]
           item == Head(st.queue)
           after == [st EXCEPT !.queue = Tail(@)]
<1>1. /\ setting \in Settings /\ clock \in Nat /\ \A x \in Stations : Sound(x, station[x])
  BY DEF Disciplined
<1>2. /\ st.queue # <<>>
      /\ \E R \in Decoders(n) :
           Transmit(n, after, <<>>, R,
                    [x \in R |-> HearsBroadcast(x, n, item.to, station[x], item.id)])
  BY DEF Broadcast
<1>3. PICK R \in Decoders(n) :
        Transmit(n, after, <<>>, R,
                 [x \in R |-> HearsBroadcast(x, n, item.to, station[x], item.id)])
  BY <1>2
<1>4. R \in SUBSET Stations /\ n \notin R /\ R \subseteq setting.reach[n]
  BY <1>1, DecodersTypes
<1>5. item.id \in Posts /\ item.to \in Stations /\ Carries(n, item.id)
  <2>1. st.queue \in Seq(Items)
    BY <1>1 DEF Sound, Shaped
  <2>2. item \in Items /\ item = st.queue[1] /\ 1 \in DOMAIN st.queue
    BY <1>2, <2>1
  <2>3. item.id \in Ids(st.queue)
    BY <2>2 DEF Ids
  <2> QED
    BY <1>1, <2>2, <2>3 DEF Sound, Items
<1> DEFINE does == [x \in R |-> HearsBroadcast(x, n, item.to, station[x], item.id)]
<1>6. \A x \in R : SoundResult(x, station[x], does[x])
  <2> SUFFICES ASSUME NEW x \in R
               PROVE  SoundResult(x, station[x], HearsBroadcast(x, n, item.to, station[x], item.id))
    OBVIOUS
  <2> HIDE DEF item
  <2> QED
    BY <1>1, <1>4, <1>5, BroadcastSound
<1>7. Sound(n, after) /\ after.recent = st.recent
  BY <1>1, <1>2, ServedSound
<1>8. setting' = setting /\ clock' = clock /\ due' \subseteq due
  BY DEF Broadcast
<1>9. Transmit(n, after, <<>>, R, does) /\ <<>> \in Seq(QuietEvent)
  BY <1>3
<1> HIDE DEF does, after
<1> QED
  BY <1>4, <1>6, <1>7, <1>8, <1>9, QuietStep


LEMMA PullStep ==
  ASSUME Disciplined, NEW n \in Stations, NEW timer \in station[n].timers, Pull(n, timer)
  PROVE  Disciplined'
<1> DEFINE st == station[n]
           m == timer.id
           to == timer.to
           quiet == [Quiet(n, timer) EXCEPT !.pending = Forget(@, timer.id)]
           suppressed == Told(n, "channel_pull_suppressed", m, "promiscuous_receive")
           sent == Told(n, "channel_pull_sent", m, to)
           ev == IF m \in DOMAIN st.pending THEN <<suppressed>> ELSE <<>>
<1>1. /\ setting \in Settings /\ clock \in Nat /\ \A x \in Stations : Sound(x, station[x])
      /\ journal \in Seq(Event)
  BY DEF Disciplined, Logged
<1>2. setting' = setting /\ clock' = clock /\ due' = due
  BY DEF Pull
<1>3. to \in Stations
  BY <1>1 DEF Sound, Heard
<1>4. \/ Transmit(n, quiet, ev, {}, <<>>)
      \/ /\ m \in DOMAIN st.pending
         /\ \E R \in Decoders(n) :
              Transmit(n, Asked(n, timer), <<sent>>, R,
                       [x \in R |-> HearsPull(x, n, to, station[x], m)])
  BY DEF Pull
<1>5. m \in DOMAIN st.pending => m \in Posts /\ MayPull(st, m)
  BY <1>1 DEF Sound, MayPull, Posted
<1>6. CASE Transmit(n, quiet, ev, {}, <<>>)
  <2>1. ev \in Seq(QuietEvent)
    <3>1. "promiscuous_receive" \in Sources /\ "channel_pull_suppressed" \in QuietKinds
      BY DEF Sources, Causes, QuietKinds
    <3>2. m \in DOMAIN st.pending => suppressed \in QuietEvent
      BY <1>1, <1>5, <3>1, ToldQuiet
    <3> HIDE DEF suppressed
    <3> QED
      BY <3>2
  <2>2. Sound(n, quiet) /\ quiet.recent = st.recent
    BY <1>1, SettledSound
  <2> HIDE DEF quiet, ev
  <2>3. PICK R, does : R = {} /\ does = <<>>
    OBVIOUS
  <2>4. Transmit(n, quiet, ev, R, does)
    BY <1>6, <2>3
  <2>5. \A x \in R : SoundResult(x, station[x], does[x])
    BY <2>3
  <2> QED
    BY <1>2, <2>1, <2>2, <2>3, <2>4, <2>5, QuietStep
<1>7. CASE m \in DOMAIN st.pending /\ ~Transmit(n, quiet, ev, {}, <<>>)
  <2> DEFINE after == Asked(n, timer)
  <2>1. PICK R \in Decoders(n) : Transmit(n, after, <<sent>>, R,
                                          [x \in R |-> HearsPull(x, n, to, station[x], m)])
    BY <1>4, <1>7
  <2>2. R \in SUBSET Stations /\ n \notin R
    BY <1>1, DecodersTypes
  <2> DEFINE does == [x \in R |-> HearsPull(x, n, to, station[x], m)]
  <2>3. \A x \in R : SoundResult(x, station[x], does[x])
    <3> SUFFICES ASSUME NEW x \in R
                 PROVE  SoundResult(x, station[x], HearsPull(x, n, to, station[x], m))
      OBVIOUS
    <3> QED
      BY <1>1, <1>3, <1>5, <1>7, <2>2, PullSound
  <2>4. /\ Sound(n, after)
        /\ DOMAIN after.recent = DOMAIN st.recent \cup {m} /\ after.recent[m] = clock
        /\ \A x \in DOMAIN st.recent : x # m => after.recent[x] = st.recent[x]
    <3>1. Asks(station[n], timer, after) /\ Sound(n, after)
      BY <1>1, SettledSound
    <3> QED
      BY <3>1 DEF Asks
  <2>5. <<sent>> \in Seq(Event)
    <3>1. sent \in Event
      BY <1>1, <1>3, <1>5, <1>7 DEF Told, Event, Sources
    <3> HIDE DEF sent
    <3> QED
      BY <3>1
  <2>6. Transmit(n, after, <<sent>>, R, does)
    BY <2>1
  <2> HIDE DEF after, does
  <2>7. /\ station'[n] = after
        /\ \A x \in Stations : x # n => station'[x].recent = station[x].recent
    BY <1>1, <2>2, <2>3, <2>5, <2>6, Transmitted
  <2>8. Logged(journal \o <<sent>>, station')
    <3>1. Logged(journal, station)
      BY DEF Disciplined
    <3>2. m \in DOMAIN st.recent => st.recent[m] \in Int /\ clock - st.recent[m] >= PullWindow
      BY <1>1, <1>5, <1>7 DEF Sound, MayPull
    <3> QED
      BY <1>1, <1>3, <1>5, <1>7, <2>4, <2>7, <3>1, <3>2, LoggedSent
  <2>9. Sound(n, station[n])'
    <3>1. Sound(n, station'[n])
      BY <2>4, <2>7
    <3> QED
      BY <1>1, <1>2, <3>1, PostedStays, SettingTypes, SoundLater
  <2> HIDE DEF sent
  <2> QED
    BY <1>2, <2>2, <2>3, <2>5, <2>6, <2>8, <2>9, TransmitStep
<1> QED
  BY <1>4, <1>6, <1>7

LEMMA PostStep ==
  ASSUME Disciplined, NEW m \in Posts, Post(m)
  PROVE  Disciplined'
<1>1. PICK n : n = Author(m)
  OBVIOUS
<1> DEFINE st == station[n]
           e == Entry(m, {})
           added == Added(n, st, e)
           received == Told(n, "channel_msg_received", m, "self_originate")
           ev == Append(added.ev, received)
<1>2. /\ setting \in Settings /\ clock \in Nat /\ \A x \in Stations : Sound(x, station[x])
      /\ journal \in Seq(Event)
  BY DEF Disciplined, Logged
<1>3. /\ setting' = setting /\ clock' = clock /\ due' = due \ {<<"post", m>>}
      /\ <<"post", m>> \in due /\ Transmit(n, added.st, ev, {}, <<>>)
  BY <1>1 DEF Post
<1>4. n \in Stations
  BY <1>1, <1>2, SettingTypes DEF Author
<1>5. setting.posted[m] = clock
  <2>1. <<"post", m>> \in Due(clock)
    BY <1>3 DEF Disciplined
  <2> QED
    BY <2>1 DEF Due
<1>6. e \in Entries /\ e.id = m
  BY DEF Entry, Entries
<1>7. /\ Shaped(added.st)
      /\ Ids(added.st.buffer) \subseteq Ids(st.buffer) \cup {m}
      /\ added.st.queue = st.queue /\ added.st.pending = st.pending
      /\ added.st.timers = st.timers /\ added.st.recent = st.recent
      /\ added.ev \in Seq(QuietEvent)
  <2>1. Shaped(st)
    BY <1>2, <1>4 DEF Sound
  <2> HIDE DEF e
  <2>2. LET s == added.st
        IN  /\ Shaped(s) /\ Rows(s.buffer) \subseteq Rows(st.buffer) \cup {e}
            /\ Ids(s.buffer) \subseteq Ids(st.buffer) \cup {e.id} /\ e.id \in Ids(s.buffer)
            /\ s.queue = st.queue /\ s.pending = st.pending
            /\ s.timers = st.timers /\ s.recent = st.recent
            /\ added.ev \in Seq(QuietEvent)
    BY <1>2, <1>4, <1>6, <2>1, AddedFields
  <2> HIDE DEF added
  <2> QED
    BY <1>6, <2>2
<1> HIDE DEF added
<1>8. ev \in Seq(QuietEvent) /\ ev \in Seq(Event)
  <2>1. received \in QuietEvent
    <3>1. "self_originate" \in Sources /\ "channel_msg_received" \in QuietKinds
      BY DEF Sources, Causes, QuietKinds
    <3> QED
      BY <1>2, <1>4, <3>1, ToldQuiet
  <2>2. QuietEvent \subseteq Event
    BY DEF QuietEvent, Event
  <2> HIDE DEF received, QuietEvent, Event
  <2> QED
    BY <1>7, <2>1, <2>2
<1> HIDE DEF ev
<1>9. PICK R, does : R = {} /\ does = <<>>
  OBVIOUS
<1>10. /\ Transmit(n, added.st, ev, R, does) /\ R \in SUBSET Stations /\ n \notin R
       /\ \A x \in R : SoundResult(x, station[x], does[x])
  BY <1>3, <1>9
<1>11. /\ station'[n] = added.st
      /\ \A x \in Stations : x # n => station'[x].recent = station[x].recent
  BY <1>2, <1>4, <1>8, <1>9, <1>10, Transmitted
<1>12. Logged(journal \o ev, station')
  <2>1. \A x \in Stations : station'[x].recent = station[x].recent
    BY <1>7, <1>11
  <2> QED
    BY <1>8, <2>1, LoggedQuiet DEF Disciplined
<1>13. Posted \subseteq Posted' /\ m \in Posted' /\ m \notin Posted
  BY <1>2, <1>3, <1>5 DEF Posted, Posts
<1>14. Sound(n, station[n])'
  <2> DEFINE s == added.st
  <2>1. \A x \in Ids(s.buffer) \cup Ids(s.queue) : Carries(n, x)'
    <3>1. Carries(n, m)'
      BY <1>1, <1>3, <1>13 DEF Carries, Local, Author, IsGateway
    <3>2. \A x : Carries(n, x) => Carries(n, x)'
      BY <1>3, <1>13 DEF Carries, Local, Author, IsGateway
    <3> QED
      BY <1>2, <1>4, <1>7, <3>1, <3>2 DEF Sound
  <2>2. \A x \in DOMAIN s.pending : MayPull(station[n], x)'
    <3>1. \A x \in DOMAIN st.pending : MayPull(st, x) /\ x # m
      BY <1>2, <1>4, <1>13 DEF Sound, MayPull
    <3> QED
      BY <1>3, <1>7, <1>11, <1>13, <3>1 DEF MayPull
  <2>3. Shaped(station[n])'
    BY <1>3, <1>7, <1>11 DEF Shaped, IsRecord, Record, Entries, Items, Posts
  <2>4. /\ \A x \in DOMAIN s.recent : s.recent[x] \in Int
        /\ \A timer \in s.timers : Heard(n, timer.to)'
    BY <1>2, <1>3, <1>4, <1>7 DEF Sound, Heard
  <2> QED
    BY <1>11, <2>1, <2>2, <2>3, <2>4 DEF Sound
<1> QED
  <2>1. due' \subseteq due
    BY <1>3
  <2> QED
    BY <1>3, <1>4, <1>8, <1>12, <1>10, <1>14, <2>1, TransmitStep


LEMMA PassesStep ==
  ASSUME Disciplined, Passes
  PROVE  Disciplined'
<1>1. /\ setting \in Settings /\ clock \in Nat /\ \A x \in Stations : Sound(x, station[x])
      /\ Logged(journal, station) /\ due = {}
  BY DEF Disciplined, Passes
<1>2. /\ setting' = setting /\ clock' = clock + 1 /\ due' = Due(clock')
      /\ station' = station /\ journal' = journal /\ had' = had
  BY DEF Passes
<1>3. Posted \subseteq Posted'
  <2> SUFFICES ASSUME NEW m \in Posted PROVE m \in Posted'
    OBVIOUS
  <2>1. m \in Posts /\ setting.posted[m] <= clock
    BY DEF Posted
  <2>2. setting.posted[m] \in Nat
    BY <1>1, <2>1, SettingTypes
  <2>3. <<"post", m>> \notin Due(clock + 1)
    BY <1>1, <2>1, <2>2 DEF Due
  <2> QED
    BY <1>1, <1>2, <2>1, <2>2, <2>3 DEF Posted, Posts
<1>4. \A n \in Stations : Sound(n, station[n])'
  <2> SUFFICES ASSUME NEW n \in Stations PROVE Sound(n, station[n])'
    OBVIOUS
  <2>1. Sound(n, station'[n])
    BY <1>1, <1>2
  <2> QED
    BY <1>1, <1>2, <1>3, <2>1, SettingTypes, SoundLater
<1>5. Logged(journal, station)'
  BY <1>1, <1>2 DEF Logged, Spaced, Remembered, Sent, Event, Posts, Sources
<1>6. \A x \in DOMAIN had' : Local(x[1], x[2])'
  BY <1>2 DEF Disciplined, Local, Author, IsGateway
<1>7. due' \subseteq Due(clock)'
  BY <1>2 DEF Due, Posts
<1> QED
  BY <1>1, <1>2, <1>4, <1>5, <1>6, <1>7 DEF Disciplined

LEMMA DisciplinedStep == Disciplined /\ [GossipNext]_gossipVars => Disciplined'
<1> SUFFICES ASSUME Disciplined, [GossipNext]_gossipVars PROVE Disciplined'
  OBVIOUS
<1>1. CASE \E m \in Posts : Post(m)
  BY <1>1, PostStep
<1>2. CASE \E n \in Stations : Beacon(n)
  BY <1>2, BeaconStep
<1>3. CASE \E n \in Stations : Broadcast(n)
  BY <1>3, BroadcastStep
<1>4. CASE \E n \in Stations : \E timer \in station[n].timers : Pull(n, timer)
  BY <1>4, PullStep
<1>5. CASE Passes
  BY <1>5, PassesStep
<1>6. CASE UNCHANGED gossipVars
  <2>1. /\ setting' = setting /\ clock' = clock /\ due' = due /\ station' = station
        /\ journal' = journal /\ had' = had
    BY <1>6 DEF gossipVars
  <2>2. /\ setting \in Settings /\ clock \in Nat /\ \A x \in Stations : Sound(x, station[x])
        /\ Logged(journal, station)
    BY DEF Disciplined
  <2>3. \A n \in Stations : Sound(n, station[n])'
    <3> SUFFICES ASSUME NEW n \in Stations PROVE Sound(n, station[n])'
      OBVIOUS
    <3>1. Sound(n, station'[n])
      BY <2>1, <2>2
    <3> QED
      BY <2>1, <2>2, <3>1, PostedStays, SettingTypes, SoundLater
  <2>4. Logged(journal, station)'
    BY <2>1, <2>2 DEF Logged, Spaced, Remembered, Sent, Event, Posts, Sources
  <2>5. \A x \in DOMAIN had' : Local(x[1], x[2])'
    BY <2>1 DEF Disciplined, Local, Author, IsGateway
  <2>6. due' \subseteq Due(clock)'
    BY <2>1 DEF Disciplined, Due, Posts
  <2> QED
    BY <2>1, <2>2, <2>3, <2>4, <2>5, <2>6 DEF Disciplined
<1> QED
  BY <1>1, <1>2, <1>3, <1>4, <1>5, <1>6 DEF GossipNext

(* Whatever the network and its losses, no node pulls a message a second   *)
(* time within channel_pull_window_ms, and a pull that is pending is for a *)
(* message the node still misses, with a timer that will see to it.        *)
THEOREM PullsKeepDiscipline == GossipSpec => []PullsAreDisciplined
<1>1. GossipInit => Disciplined
  BY DisciplinedInit
<1>2. Disciplined /\ [GossipNext]_gossipVars => Disciplined'
  BY DisciplinedStep
<1>3. Disciplined => PullsAreDisciplined
  <2> SUFFICES ASSUME Disciplined PROVE PullsAreDisciplined
    OBVIOUS
  <2>1. PullsAreSpaced
    <3>1. Spaced(journal) /\ Sent(journal) = Tells("channel_pull_sent")
      BY DEF Disciplined, Logged, Sent, Tells
    <3> QED
      BY <3>1 DEF Spaced, PullsAreSpaced
  <2>2. PendingPullsAreMeant
    BY HoldsIds DEF Disciplined, Sound, MayPull, PendingPullsAreMeant
  <2> QED
    BY <2>1, <2>2 DEF PullsAreDisciplined
<1> QED
  BY <1>1, <1>2, <1>3, PTL DEF GossipSpec

(* Principle 11 for every network whose layers meet at gateways alone: a   *)
(* message is never held outside its author's layer, unless the author is  *)
(* a gateway.                                                              *)
THEOREM GossipStaysLocal == GossipSpec => []ChannelsStayLocal
<1>1. GossipInit => Disciplined
  BY DisciplinedInit
<1>2. Disciplined /\ [GossipNext]_gossipVars => Disciplined'
  BY DisciplinedStep
<1>3. Disciplined => ChannelsStayLocal
  BY DEF Disciplined, ChannelsStayLocal, Local
<1> QED
  BY <1>1, <1>2, <1>3, PTL DEF GossipSpec

-----------------------------------------------------------------------------
(* seen_by.  What a handler marks is true: the sender of a beacon has what *)
(* it advertises and the sender of a broadcast what it sends, while who is *)
(* marked for its pull will hear the broadcast that is now in the queue,   *)
(* which is how it comes to have the message where no frame is lost.       *)
Vouched(n, st, m, r) ==
  \/ <<r, m>> \in DOMAIN had
  \/ m \in Ids(st.queue) /\ r \in setting.reach[n] /\ ~IsGateway(r)

Honest(n, st) == \A e \in Rows(st.buffer) : \A r \in e.seenBy : Vouched(n, st, e.id, r)
Held(n, st)   == \A m \in Ids(st.buffer) \cup Ids(st.queue) : <<n, m>> \in DOMAIN had
Plain(n, st)  == IsGateway(n) => DOMAIN st.pending = {}

HonestResult(n, st, s) ==
  /\ Ids(s.queue) \subseteq Ids(st.queue) \cup Ids(st.buffer)
  /\ Plain(n, st) => Plain(n, s)
  /\ Honest(n, st) => Honest(n, s)

(* An element of one of the sequences is in the sequence that joins them.  *)
LEMMA FlattenHas ==
  ASSUME NEW T, NEW seqs \in Seq(Seq(T)), NEW i \in DOMAIN seqs, NEW k \in DOMAIN seqs[i]
  PROVE  \E j \in DOMAIN FlattenSeq(seqs) : FlattenSeq(seqs)[j] = seqs[i][k]
<1> DEFINE n == Len(seqs)
           flat == CHOOSE f : Joins(f, seqs)
           Has(s) == \E j \in DOMAIN s : s[j] = seqs[i][k]
<1>1. n \in Nat /\ DOMAIN seqs = 1 .. n /\ \A x \in 1 .. n : seqs[x] \in Seq(T)
  OBVIOUS
<1>2. FlattenSeq(seqs) = flat[n]
  BY <1>1 DEF FlattenSeq, Joins
<1>3. Joins(flat, seqs)
  BY JoinsExist
<1> HIDE DEF flat
<1>4. \A x \in 1 .. n : flat[x] = IF x = 1 THEN seqs[x] ELSE flat[x - 1] \o seqs[x]
  BY <1>3 DEF Joins
<1>5. \A x \in 1 .. n : flat[x] \in Seq(T)
  <2> DEFINE Bad == {x \in 1 .. n : flat[x] \notin Seq(T)}
  <2> SUFFICES ASSUME Bad # {} PROVE FALSE
    OBVIOUS
  <2>1. PICK x \in Bad : \A y \in Bad : x <= y
    <3>1. Bad \in SUBSET Nat
      OBVIOUS
    <3> HIDE DEF Bad
    <3> QED
      BY <3>1, LeastNumber
  <2>2. CASE x = 1
    BY <1>1, <1>4, <2>1, <2>2
  <2>3. CASE x # 1
    <3>1. x - 1 \in 1 .. n /\ x - 1 < x
      BY <1>1, <2>1, <2>3
    <3>2. flat[x - 1] \in Seq(T)
      BY <2>1, <3>1
    <3>3. flat[x - 1] \o seqs[x] \in Seq(T)
      BY <1>1, <2>1, <3>2
    <3> QED
      BY <1>4, <2>1, <2>3, <3>3
  <2> QED
    BY <2>2, <2>3
<1>6. \A p, q \in Seq(T) : Has(p) \/ Has(q) => Has(p \o q)
  <2> SUFFICES ASSUME NEW p \in Seq(T), NEW q \in Seq(T), Has(p) \/ Has(q) PROVE Has(p \o q)
    OBVIOUS
  <2>1. /\ DOMAIN p = 1 .. Len(p) /\ DOMAIN q = 1 .. Len(q) /\ Len(p) \in Nat /\ Len(q) \in Nat
        /\ DOMAIN (p \o q) = 1 .. Len(p) + Len(q)
        /\ \A j \in 1 .. Len(p) + Len(q) :
             (p \o q)[j] = IF j <= Len(p) THEN p[j] ELSE q[j - Len(p)]
    BY ConcatProperties
  <2>2. CASE Has(p)
    <3>1. PICK j \in DOMAIN p : p[j] = seqs[i][k]
      BY <2>2
    <3>2. j \in DOMAIN (p \o q) /\ (p \o q)[j] = p[j]
      BY <2>1
    <3> QED
      BY <3>1, <3>2
  <2>3. CASE Has(q)
    <3>1. PICK j \in DOMAIN q : q[j] = seqs[i][k]
      BY <2>3
    <3>2. PICK l \in DOMAIN (p \o q) : l = Len(p) + j
      BY <2>1
    <3>3. (p \o q)[l] = q[j]
      BY <2>1, <3>2
    <3> QED
      BY <3>1, <3>3
  <2> QED
    BY <2>2, <2>3
<1>7. Has(seqs[i])
  OBVIOUS
<1> HIDE DEF Has
<1> DEFINE Lacks == {x \in i .. n : ~Has(flat[x])}
<1>8. Lacks = {}
  <2> SUFFICES ASSUME Lacks # {} PROVE FALSE
    OBVIOUS
  <2>1. PICK x \in Lacks : \A y \in Lacks : x <= y
    <3>1. Lacks \in SUBSET Nat
      BY <1>1
    <3> HIDE DEF Lacks
    <3> QED
      BY <3>1, LeastNumber
  <2>2. x \in 1 .. n /\ i \in 1 .. n /\ x >= i
    BY <1>1, <2>1
  <2>3. x # 1 => x - 1 \in 1 .. n /\ flat[x - 1] \in Seq(T) /\ seqs[x] \in Seq(T)
    BY <1>1, <1>5, <2>2
  <2>4. CASE x = i
    BY <1>4, <1>6, <1>7, <2>1, <2>2, <2>3, <2>4
  <2>5. CASE x # i
    <3>1. x - 1 \in i .. n /\ x - 1 < x /\ x # 1
      BY <1>1, <2>2, <2>5
    <3>2. Has(flat[x - 1])
      BY <2>1, <3>1
    <3>3. Has(flat[x - 1] \o seqs[x])
      BY <1>6, <2>3, <3>1, <3>2
    <3> QED
      BY <1>4, <2>1, <2>2, <3>1, <3>3
  <2> QED
    BY <2>4, <2>5
<1>9. n \in i .. n
  BY <1>1
<1>10. Has(flat[n])
  BY <1>8, <1>9
<1> QED
  BY <1>2, <1>10 DEF Has

LEMMA MarkedRows ==
  ASSUME NEW b \in Seq(Entries), NEW ids, NEW x, NEW e \in Rows(Marked(b, ids, x)), NEW r \in e.seenBy
  PROVE  \E o \in Rows(b) : e.id = o.id /\ (r \in o.seenBy \/ (r = x /\ e.id \in ids))
<1>1. PICK i \in DOMAIN Marked(b, ids, x) : e = Marked(b, ids, x)[i]
  BY DEF Rows
<1>2. i \in DOMAIN b /\ e = IF b[i].id \in ids THEN [b[i] EXCEPT !.seenBy = @ \cup {x}] ELSE b[i]
  BY <1>1 DEF Marked
<1>3. b[i] \in Entries /\ b[i] \in Rows(b)
  BY <1>2 DEF Rows
<1>4. PICK o \in Entries : o = b[i]
  BY <1>3
<1>5. [o EXCEPT !.seenBy = @ \cup {x}].id = o.id /\ [o EXCEPT !.seenBy = @ \cup {x}].seenBy = o.seenBy \cup {x}
  BY DEF Entries
<1>6. e.id = o.id /\ (r \in o.seenBy \/ (r = x /\ e.id \in ids))
  BY <1>2, <1>4, <1>5
<1> QED
  BY <1>3, <1>4, <1>6

LEMMA RowIds == ASSUME NEW s, NEW e \in Rows(s) PROVE e.id \in Ids(s)
BY DEF Rows, Ids

LEMMA DigestHonest ==
  ASSUME NEW n, NEW from, NEW ids, NEW st, NEW s, NEW ev, Shaped(st),
         \A k \in DOMAIN ids : <<from, ids[k]>> \in DOMAIN had,
         DigestLeaves(n, st, from, ids, s, ev)
  PROVE  HonestResult(n, st, s)
<1>1. s.queue = st.queue /\ (Plain(n, st) => Plain(n, s))
  BY DEF DigestLeaves, Plain
<1>2. ASSUME Honest(n, st), NEW e \in Rows(s.buffer), NEW r \in e.seenBy
      PROVE  Vouched(n, s, e.id, r)
  <2>1. \E o \in Rows(st.buffer) : e.id = o.id /\ (r \in o.seenBy \/ (r = from /\ e.id \in ToSet(ids)))
    <3>1. CASE s.buffer = st.buffer
      BY <3>1
    <3>2. CASE s.buffer # st.buffer
      BY <3>2, MarkedRows DEF DigestLeaves, Shaped
    <3> QED
      BY <3>1, <3>2
  <2>2. e.id \in ToSet(ids) => <<from, e.id>> \in DOMAIN had
    BY DEF ToSet
  <2> QED
    BY <1>1, <1>2, <2>1, <2>2 DEF Honest, Vouched
<1>3. Honest(n, st) => Honest(n, s)
  BY <1>2 DEF Honest
<1> QED
  BY <1>1, <1>3 DEF HonestResult

LEMMA PullHonest ==
  ASSUME NEW n, NEW from, NEW to, NEW m, NEW st, NEW s, NEW ev, Shaped(st),
         n = to => from \in setting.reach[n], ~IsGateway(from),
         PullLeaves(n, st, from, to, m, s, ev)
  PROVE  HonestResult(n, st, s)
<1>1. Ids(s.queue) \subseteq Ids(st.queue) \cup Ids(st.buffer) /\ Ids(st.queue) \subseteq Ids(s.queue)
  BY DEF PullLeaves
<1>2. Plain(n, st) => Plain(n, s)
  BY DEF PullLeaves, Plain
<1>3. ASSUME Honest(n, st), NEW e \in Rows(s.buffer), NEW r \in e.seenBy
      PROVE  Vouched(n, s, e.id, r)
  <2>1. CASE s.buffer = st.buffer
    BY <1>1, <1>3, <2>1 DEF Honest, Vouched
  <2>2. CASE s.buffer # st.buffer
    <3>1. n = to /\ s.buffer = Marked(st.buffer, {m}, from) /\ m \in Ids(s.queue)
      BY <2>2 DEF PullLeaves
    <3>2. \E o \in Rows(st.buffer) : e.id = o.id /\ (r \in o.seenBy \/ (r = from /\ e.id \in {m}))
      BY <3>1, MarkedRows DEF Shaped
    <3> QED
      BY <1>1, <1>3, <3>1, <3>2 DEF Honest, Vouched
  <2> QED
    BY <2>1, <2>2
<1>4. Honest(n, st) => Honest(n, s)
  BY <1>3 DEF Honest
<1> QED
  BY <1>1, <1>2, <1>4 DEF HonestResult

(* A row that a buffer gains by a broadcast vouches for its sender alone.  *)
LEMMA GainedHonest ==
  ASSUME NEW n, NEW st, NEW s, NEW m, NEW R, s.queue = st.queue, DOMAIN s.pending \subseteq DOMAIN st.pending,
         \A r \in R : <<r, m>> \in DOMAIN had,
         Rows(s.buffer) \subseteq Rows(st.buffer) \cup {Entry(m, R)}
  PROVE  HonestResult(n, st, s)
<1>1. Entry(m, R).id = m /\ Entry(m, R).seenBy = R
  BY DEF Entry
<1>2. Honest(n, st) => Honest(n, s)
  BY <1>1 DEF Honest, Vouched
<1>3. Plain(n, st) => Plain(n, s)
  BY DEF Plain
<1> QED
  BY <1>2, <1>3 DEF HonestResult

LEMMA BroadcastHonest ==
  ASSUME NEW n, NEW from, NEW m, NEW st, NEW s, NEW ev, <<from, m>> \in DOMAIN had,
         BroadcastLeaves(n, st, from, m, s, ev)
  PROVE  HonestResult(n, st, s)
<1>1. /\ s.queue = st.queue /\ DOMAIN s.pending \subseteq DOMAIN st.pending
      /\ Rows(s.buffer) \subseteq Rows(st.buffer) \cup {Entry(m, {from})}
  BY DEF BroadcastLeaves
<1> QED
  BY <1>1, GainedHonest

-----------------------------------------------------------------------------
(* The whole of a frame's effect on the network and on the history.        *)
Spread(n, after, R, does) ==
  /\ station'[n] = after
  /\ \A x \in R : station'[x] = does[x].st
  /\ \A x \in Stations : x # n /\ x \notin R => station'[x] = station[x]
  /\ DOMAIN had \subseteq DOMAIN had'
  /\ \A x \in Stations : \A m \in Posts : Holds(station'[x], m) => <<x, m>> \in DOMAIN had'
  /\ \A i \in DOMAIN journal : i \in DOMAIN journal' /\ journal'[i] = journal[i]
  /\ \A x \in R : \A k \in DOMAIN does[x].ev :
       \E i \in DOMAIN journal' : journal'[i] = does[x].ev[k]

LEMMA TransmittedAll ==
  ASSUME setting \in Settings, NEW n \in Stations, NEW after, NEW ev \in Seq(Event), journal \in Seq(Event),
         NEW R \in SUBSET Stations, NEW does, n \notin R, Transmit(n, after, ev, R, does),
         \A x \in R : SoundResult(x, station[x], does[x])
  PROVE  Spread(n, after, R, does)
<1> DEFINE new == [x \in Stations |-> CASE x = n -> after
                                        [] x \in R -> does[x].st
                                        [] OTHER -> station[x]]
           Says(x) == IF x \in R THEN does[x].ev ELSE <<>>
           says == [x \in Stations |-> Says(x)]
           said == FlattenSeq(says)
           fresh == {x \in (Stations \X Posts) \ DOMAIN had : Holds(new[x[1]], x[2])}
<1>1. /\ station' = new /\ journal' = journal \o ev \o said
      /\ had' = With(had, fresh, clock)
  BY DEF Transmit
<1>2. /\ station'[n] = after
      /\ \A x \in R : station'[x] = does[x].st
      /\ \A x \in Stations : x # n /\ x \notin R => station'[x] = station[x]
  BY <1>1
<1>3. DOMAIN had' = fresh \cup DOMAIN had
  BY <1>1 DEF With
<1>4. \A x \in Stations : \A m \in Posts : Holds(station'[x], m) => <<x, m>> \in DOMAIN had'
  <2> SUFFICES ASSUME NEW x \in Stations, NEW m \in Posts, Holds(station'[x], m)
               PROVE  <<x, m>> \in DOMAIN had \cup fresh
    BY <1>3
  <2>1. <<x, m>> \in Stations \X Posts /\ <<x, m>>[1] = x /\ <<x, m>>[2] = m
    OBVIOUS
  <2>2. Holds(new[x], m)
    BY <1>1
  <2> HIDE DEF new
  <2> QED
    BY <2>1, <2>2
<1>5. QuietEvent \subseteq Event
  BY DEF QuietEvent, Event
<1>6. says \in Seq(Seq(QuietEvent)) /\ DOMAIN says = Stations
  <2>1. /\ Cardinality(Stations) \in Nat /\ Stations = 1 .. Cardinality(Stations)
    BY GossipAssumption, FS_CardinalityType
  <2>2. \A x \in Stations : Says(x) \in Seq(QuietEvent)
    BY DEF SoundResult
  <2> HIDE DEF Says
  <2>3. says \in [Stations -> Seq(QuietEvent)]
    BY <2>2
  <2> HIDE DEF says
  <2> QED
    BY <2>1, <2>3
<1>7. \A x \in R : says[x] = does[x].ev
  OBVIOUS
<1> HIDE DEF says, said, new, fresh
<1>8. said \in Seq(QuietEvent)
  BY <1>6, FlattenType DEF said
<1>9. said \in Seq(Event)
  <2> HIDE DEF QuietEvent, Event
  <2> QED
    BY <1>5, <1>8
<1>10. \A x \in R : \A k \in DOMAIN does[x].ev : \E i \in DOMAIN said : said[i] = does[x].ev[k]
  <2> SUFFICES ASSUME NEW x \in R, NEW k \in DOMAIN does[x].ev
               PROVE  \E i \in DOMAIN said : said[i] = does[x].ev[k]
    OBVIOUS
  <2>1. x \in DOMAIN says /\ k \in DOMAIN says[x] /\ says[x][k] = does[x].ev[k]
    BY <1>6, <1>7
  <2>2. \E i \in DOMAIN FlattenSeq(says) : FlattenSeq(says)[i] = says[x][k]
    BY <1>6, <2>1, FlattenHas
  <2> QED
    BY <2>1, <2>2 DEF said
<1>11. /\ \A i \in DOMAIN journal : i \in DOMAIN journal' /\ journal'[i] = journal[i]
       /\ \A i \in DOMAIN said : \E k \in DOMAIN journal' : journal'[k] = said[i]
  <2> DEFINE first == journal \o ev
  <2>1. first \in Seq(Event) /\ first = journal \o ev
    OBVIOUS
  <2> HIDE DEF first
  <2>2. /\ DOMAIN journal = 1 .. Len(journal) /\ Len(journal) \in Nat /\ Len(ev) \in Nat
        /\ DOMAIN first = 1 .. Len(first) /\ Len(first) = Len(journal) + Len(ev)
        /\ \A i \in 1 .. Len(journal) : first[i] = journal[i]
    BY <2>1, ConcatProperties
  <2>3. journal' = first \o said
    BY <1>1, <2>1
  <2>4. /\ DOMAIN said = 1 .. Len(said) /\ Len(said) \in Nat /\ Len(first) \in Nat
        /\ DOMAIN journal' = 1 .. Len(first) + Len(said)
        /\ \A i \in 1 .. Len(first) + Len(said) :
             journal'[i] = IF i <= Len(first) THEN first[i] ELSE said[i - Len(first)]
    BY <1>9, <2>3, ConcatProperties
  <2>5. \A i \in DOMAIN journal : i \in DOMAIN journal' /\ journal'[i] = journal[i]
    BY <2>2, <2>4
  <2>6. \A i \in DOMAIN said : \E k \in DOMAIN journal' : journal'[k] = said[i]
    <3> SUFFICES ASSUME NEW i \in DOMAIN said
                 PROVE  \E k \in DOMAIN journal' : journal'[k] = said[i]
      OBVIOUS
    <3>1. PICK k \in DOMAIN journal' : k = Len(first) + i
      BY <2>4
    <3>2. journal'[k] = said[i]
      BY <2>4, <3>1
    <3> QED
      BY <3>2
  <2> QED
    BY <2>5, <2>6
<1>12. \A x \in R : \A k \in DOMAIN does[x].ev :
         \E i \in DOMAIN journal' : journal'[i] = does[x].ev[k]
  <2> SUFFICES ASSUME NEW x \in R, NEW k \in DOMAIN does[x].ev
               PROVE  \E i \in DOMAIN journal' : journal'[i] = does[x].ev[k]
    OBVIOUS
  <2>1. PICK i \in DOMAIN said : said[i] = does[x].ev[k]
    BY <1>10
  <2>2. \E j \in DOMAIN journal' : journal'[j] = said[i]
    BY <1>11
  <2> QED
    BY <2>1, <2>2
<1> QED
  BY <1>2, <1>3, <1>4, <1>11, <1>12 DEF Spread

LEMMA UnthrottledBefore ==
  ASSUME \A i \in DOMAIN journal : i \in DOMAIN journal' /\ journal'[i] = journal[i], Unthrottled'
  PROVE  Unthrottled
BY DEF Unthrottled, Tells

LEMMA HonestLater ==
  ASSUME setting' = setting, DOMAIN had \subseteq DOMAIN had', NEW n, Honest(n, station'[n])
  PROVE  Honest(n, station[n])'
BY DEF Honest, Vouched, Rows, Ids, IsGateway

(* The invariant: what a station holds or has queued, it has had; gateways *)
(* pull nothing; and where no frame was lost and nobody throttled, what    *)
(* seen_by says is vouched for.                                            *)
Tallied(x) ==
  /\ x = [receptions |-> x.receptions, unheard |-> x.unheard, dropped |-> x.dropped]
  /\ x.receptions \in Nat

Truthful ==
  /\ Disciplined /\ Tallied(astray)
  /\ \A n \in Stations : Held(n, station[n]) /\ Plain(n, station[n])
  /\ Lossless /\ Unthrottled => \A n \in Stations : Honest(n, station[n])

(* What a transmission leaves to be shown: that its sender is honest.      *)
LEMMA TruthStep ==
  ASSUME Truthful, Disciplined', setting' = setting, Tallied(astray'), Lossless' => Lossless,
         NEW n \in Stations, NEW after, NEW ev \in Seq(Event), NEW R \in SUBSET Stations, NEW does,
         n \notin R, Transmit(n, after, ev, R, does),
         \A x \in R : /\ SoundResult(x, station[x], does[x])
                      /\ HonestResult(x, station[x], does[x].st),
         Ids(after.queue) \subseteq Ids(station[n].queue) \cup Ids(station[n].buffer),
         Plain(n, station[n]) => Plain(n, after),
         Lossless' /\ Unthrottled' /\ Honest(n, station[n]) => Honest(n, station[n])'
  PROVE  Truthful'
<1>1. /\ setting \in Settings /\ journal \in Seq(Event)
      /\ \A x \in R : SoundResult(x, station[x], does[x])
  BY DEF Truthful, Disciplined, Logged
<1>2. /\ station'[n] = after
      /\ \A x \in R : station'[x] = does[x].st
      /\ \A x \in Stations : x # n /\ x \notin R => station'[x] = station[x]
      /\ DOMAIN had \subseteq DOMAIN had'
      /\ \A x \in Stations : \A m \in Posts : Holds(station'[x], m) => <<x, m>> \in DOMAIN had'
      /\ \A i \in DOMAIN journal : i \in DOMAIN journal' /\ journal'[i] = journal[i]
  <2>1. Spread(n, after, R, does)
    BY <1>1, TransmittedAll
  <2> QED
    BY <2>1 DEF Spread
<1>3. \A x \in Stations :
        /\ Ids(station'[x].queue) \subseteq Ids(station[x].queue) \cup Ids(station[x].buffer)
        /\ Plain(x, station[x]) => Plain(x, station'[x])
  BY <1>2 DEF HonestResult
<1>4. \A x \in Stations : Held(x, station[x])'
  <2> SUFFICES ASSUME NEW x \in Stations, NEW m \in Ids(station'[x].buffer) \cup Ids(station'[x].queue)
               PROVE  <<x, m>> \in DOMAIN had'
    BY DEF Held, Ids
  <2>1. CASE m \in Ids(station'[x].buffer)
    <3>1. Carries(x, m)'
      BY <2>1 DEF Disciplined, Sound, Ids
    <3>2. m \in Posts
      BY <3>1 DEF Carries, Posted, Posts
    <3> QED
      BY <1>2, <2>1, <3>2, HoldsIds
  <2>2. CASE m \notin Ids(station'[x].buffer)
    <3>1. m \in Ids(station[x].queue) \cup Ids(station[x].buffer)
      BY <1>3, <2>2
    <3> QED
      BY <1>2, <3>1 DEF Truthful, Held
  <2> QED
    BY <2>1, <2>2
<1>5. \A x \in Stations : Plain(x, station[x])'
  BY <1>3 DEF Truthful, Plain, IsGateway
<1>6. ASSUME Lossless', Unthrottled', NEW x \in Stations PROVE Honest(x, station[x])'
  <2>1. \A y \in Stations : Honest(y, station[y])
    BY <1>2, <1>6, UnthrottledBefore DEF Truthful
  <2>2. CASE x = n
    BY <1>6, <2>1, <2>2
  <2>3. CASE x # n
    <3>1. Honest(x, station'[x])
      BY <1>2, <2>1, <2>3 DEF HonestResult
    <3> QED
      BY <1>2, <3>1, HonestLater
  <2> QED
    BY <2>2, <2>3
<1> QED
  BY <1>4, <1>5, <1>6 DEF Truthful

(* The sender's own entries and queue are as before. *)
LEMMA SameHonest ==
  ASSUME setting' = setting, DOMAIN had \subseteq DOMAIN had', NEW n, NEW st, NEW after,
         station'[n] = after, DOMAIN after.buffer = DOMAIN st.buffer,
         \A i \in DOMAIN st.buffer :
           after.buffer[i].id = st.buffer[i].id /\ after.buffer[i].seenBy = st.buffer[i].seenBy,
         after.queue = st.queue, Honest(n, st)
  PROVE  Honest(n, station[n])'
<1>1. ASSUME NEW e \in Rows(after.buffer), NEW r \in e.seenBy
      PROVE  Vouched(n, after, e.id, r)
  <2>1. PICK i \in DOMAIN st.buffer : e = after.buffer[i]
    BY DEF Rows
  <2>2. st.buffer[i] \in Rows(st.buffer) /\ st.buffer[i].id = e.id /\ r \in st.buffer[i].seenBy
    BY <2>1 DEF Rows
  <2>3. Vouched(n, st, e.id, r)
    BY <2>2 DEF Honest
  <2> QED
    BY <2>3 DEF Vouched
<1> QED
  BY <1>1, HonestLater DEF Honest

LEMMA AstrayTypes ==
  ASSUME setting \in Settings, NEW n \in Stations, NEW R, astray.receptions \in Nat
  PROVE  /\ Astray(n, R) \in Nat
         /\ Astray(n, R) = 0 => astray.receptions = 0 /\ setting.reach[n] \subseteq R
<1>1. IsFiniteSet(setting.reach[n] \ R)
  <2>1. setting.reach[n] \ R \subseteq Stations
    BY SettingTypes
  <2> QED
    BY <2>1, GossipAssumption, FS_Subset
<1>2. Cardinality(setting.reach[n] \ R) \in Nat
  BY <1>1, FS_CardinalityType
<1>3. Cardinality(setting.reach[n] \ R) = 0 => setting.reach[n] \ R = {}
  BY <1>1, FS_EmptySet
<1> QED
  BY <1>2, <1>3 DEF Astray

LEMMA AstrayCounted ==
  ASSUME setting \in Settings, NEW n \in Stations, NEW R, Tallied(astray),
         astray' = [astray EXCEPT !.receptions = Astray(n, R)]
  PROVE  Tallied(astray') /\ (Lossless' => Lossless /\ setting.reach[n] \subseteq R)
<1>1. PICK k, u, d : /\ k = Astray(n, R)
                     /\ astray = [receptions |-> astray.receptions, unheard |-> u, dropped |-> d]
  BY DEF Tallied
<1>2. k \in Nat /\ (k = 0 => astray.receptions = 0 /\ setting.reach[n] \subseteq R)
  BY <1>1, AstrayTypes DEF Tallied
<1>3. astray' = [receptions |-> k, unheard |-> u, dropped |-> d]
  BY <1>1
<1>4. Tallied(astray') /\ astray'.receptions = k
  BY <1>2, <1>3 DEF Tallied
<1> QED
  BY <1>2, <1>4 DEF Lossless

LEMMA TruthBeacon ==
  ASSUME Truthful, NEW n \in Stations, Beacon(n)
  PROVE  Truthful'
<1> DEFINE st == station[n]
           ids == Digest(st)
<1>1. /\ setting \in Settings /\ clock \in Nat /\ \A x \in Stations : Sound(x, station[x])
      /\ journal \in Seq(Event)
  BY DEF Truthful, Disciplined, Logged
<1>2. PICK R \in Decoders(n) :
        /\ \E delay \in [R -> [ToSet(ids) -> 0 .. MaxDelay]] :
             Transmit(n, Advertised(st), <<>>, R,
                      [x \in R |-> HearsDigest(x, n, station[x], ids, delay[x])])
        /\ astray' = [astray EXCEPT !.receptions = Astray(n, R)]
  BY DEF Beacon
<1>3. PICK delay : Transmit(n, Advertised(st), <<>>, R,
                            [x \in R |-> HearsDigest(x, n, station[x], ids, delay[x])])
  BY <1>2
<1>4. R \in SUBSET Stations /\ n \notin R /\ \A x \in R : Heard(x, n)
  BY <1>1, DecodersTypes DEF Heard
<1>5. ids \in Seq(Posts) /\ \A k \in DOMAIN ids : ids[k] \in Posted /\ <<n, ids[k]>> \in DOMAIN had
  <2>1. ids \in Seq(Ids(st.buffer))
    BY <1>1, DigestType DEF Sound
  <2>2. Ids(st.buffer) \subseteq Posted /\ Posted \subseteq Posts
    BY <1>1 DEF Sound, Carries, Posted
  <2>3. \A m \in Ids(st.buffer) : <<n, m>> \in DOMAIN had
    BY DEF Truthful, Held
  <2> HIDE DEF ids
  <2> QED
    BY <2>1, <2>2, <2>3
<1> HIDE DEF ids
<1> DEFINE does == [x \in R |-> HearsDigest(x, n, station[x], ids, delay[x])]
<1>6. \A x \in R : SoundResult(x, station[x], does[x]) /\ HonestResult(x, station[x], does[x].st)
  <2> SUFFICES ASSUME NEW x \in R
               PROVE  /\ SoundResult(x, station[x], HearsDigest(x, n, station[x], ids, delay[x]))
                      /\ HonestResult(x, station[x], HearsDigest(x, n, station[x], ids, delay[x]).st)
    OBVIOUS
  <2>1. PICK r : r = HearsDigest(x, n, station[x], ids, delay[x])
    OBVIOUS
  <2>2. SoundResult(x, station[x], HearsDigest(x, n, station[x], ids, delay[x]))
    BY <1>1, <1>4, <1>5, DigestSound
  <2>3. Shaped(station[x]) /\ \A m \in DOMAIN station[x].recent : station[x].recent[m] \in Int
    BY <1>1, <1>4 DEF Sound
  <2>4. DigestLeaves(x, station[x], n, ids, r.st, r.ev)
    BY <1>1, <1>4, <1>5, <2>1, <2>3, DigestFields
  <2>5. HonestResult(x, station[x], r.st)
    BY <1>5, <2>3, <2>4, DigestHonest
  <2> QED
    BY <2>1, <2>2, <2>5
<1> DEFINE after == Advertised(st)
<1>7. /\ after.queue = st.queue /\ after.pending = st.pending /\ DOMAIN after.buffer = DOMAIN st.buffer
      /\ \A i \in DOMAIN st.buffer :
           after.buffer[i].id = st.buffer[i].id /\ after.buffer[i].seenBy = st.buffer[i].seenBy
  <2>1. Sound(n, st)
    BY <1>1
  <2>2. LET s == Advertised(st)
        IN  /\ Sound(n, s) /\ s.recent = st.recent
            /\ s.queue = st.queue /\ s.pending = st.pending /\ DOMAIN s.buffer = DOMAIN st.buffer
            /\ \A i \in DOMAIN st.buffer :
                 s.buffer[i].id = st.buffer[i].id /\ s.buffer[i].seenBy = st.buffer[i].seenBy
    BY <2>1, AdvertisedSound
  <2> QED
    BY <2>2
<1>8. setting' = setting /\ Tallied(astray') /\ (Lossless' => Lossless)
  BY <1>1, <1>2, AstrayCounted DEF Beacon, Truthful
<1>9. Transmit(n, after, <<>>, R, does) /\ <<>> \in Seq(Event)
  BY <1>3
<1> HIDE DEF after, does
<1>10. station'[n] = after /\ DOMAIN had \subseteq DOMAIN had'
  <2>1. Spread(n, after, R, does)
    BY <1>1, <1>4, <1>6, <1>9, TransmittedAll
  <2> QED
    BY <2>1 DEF Spread
<1>11. Honest(n, st) => Honest(n, station[n])'
  BY <1>7, <1>8, <1>10, SameHonest
<1>12. Disciplined'
  BY BeaconStep DEF Truthful
<1>13. Ids(after.queue) \subseteq Ids(st.queue) /\ (Plain(n, st) => Plain(n, after))
  BY <1>7 DEF Plain
<1> QED
  BY <1>4, <1>6, <1>8, <1>9, <1>11, <1>12, <1>13, TruthStep

(* The broadcast leaves the queue.  Where every decoder heard it and none  *)
(* threw it away, those it was vouched for by have had it.                 *)
LEMMA TruthBroadcast ==
  ASSUME Truthful, NEW n \in Stations, Broadcast(n)
  PROVE  Truthful'
<1> DEFINE st == station[n]
           item == Head(st.queue)
           m == item.id
           after == [st EXCEPT !.queue = Tail(@)]
<1>1. /\ setting \in Settings /\ clock \in Nat /\ \A x \in Stations : Sound(x, station[x])
      /\ journal \in Seq(Event)
  BY DEF Truthful, Disciplined, Logged
<1>2. /\ st.queue # <<>> /\ setting' = setting
      /\ \E R \in Decoders(n) :
           /\ Transmit(n, after, <<>>, R,
                       [x \in R |-> HearsBroadcast(x, n, item.to, station[x], item.id)])
           /\ astray' = [astray EXCEPT !.receptions = Astray(n, R)]
  BY DEF Broadcast
<1>3. PICK R \in Decoders(n) :
        /\ Transmit(n, after, <<>>, R,
                    [x \in R |-> HearsBroadcast(x, n, item.to, station[x], item.id)])
        /\ astray' = [astray EXCEPT !.receptions = Astray(n, R)]
  BY <1>2
<1>4. R \in SUBSET Stations /\ n \notin R /\ R \subseteq setting.reach[n]
  BY <1>1, DecodersTypes
<1>5. st.queue \in Seq(Items) /\ item \in Items
  <2>1. st.queue \in Seq(Items)
    BY <1>1 DEF Sound, Shaped
  <2> QED
    BY <1>2, <2>1
<1>6. \A i \in DOMAIN st.queue : st.queue[i] = item \/ st.queue[i].id \in Ids(Tail(st.queue))
  <2> SUFFICES ASSUME NEW i \in DOMAIN st.queue, i # 1
               PROVE  st.queue[i].id \in Ids(Tail(st.queue))
    BY <1>2, <1>5
  <2>1. PICK k \in DOMAIN Tail(st.queue) : k = i - 1
    BY <1>2, <1>5, HeadTailProperties
  <2>2. Tail(st.queue)[k] = st.queue[i]
    BY <1>2, <1>5, <2>1, HeadTailProperties
  <2> QED
    BY <2>2 DEF Ids
<1>7. /\ m \in Posts /\ item.to \in Stations /\ Carries(n, m) /\ <<n, m>> \in DOMAIN had
      /\ Ids(st.queue) \subseteq Ids(Tail(st.queue)) \cup {m} /\ Ids(Tail(st.queue)) \subseteq Ids(st.queue)
  <2>1. m \in Posts /\ item.to \in Stations
    BY <1>5 DEF Items
  <2>2. m \in Ids(st.queue) /\ Ids(Tail(st.queue)) \subseteq Ids(st.queue)
    <3>1. 1 \in DOMAIN st.queue /\ item = st.queue[1]
      BY <1>2, <1>5
    <3>2. \A i \in DOMAIN Tail(st.queue) : i + 1 \in DOMAIN st.queue /\ Tail(st.queue)[i] = st.queue[i + 1]
      BY <1>2, <1>5, HeadTailProperties
    <3> QED
      BY <3>1, <3>2 DEF Ids
  <2>3. Ids(st.queue) \subseteq Ids(Tail(st.queue)) \cup {m}
    BY <1>6 DEF Ids
  <2> QED
    BY <1>1, <2>1, <2>2, <2>3 DEF Sound, Truthful, Held
<1>8. /\ after.queue = Tail(st.queue) /\ after.pending = st.pending /\ after.buffer = st.buffer
  <2>1. Sound(n, st)
    BY <1>1
  <2>2. LET s == [st EXCEPT !.queue = Tail(@)]
        IN  /\ Sound(n, s) /\ s.recent = st.recent
            /\ s.queue = Tail(st.queue) /\ s.pending = st.pending /\ s.buffer = st.buffer
    BY <1>2, <2>1, ServedSound
  <2> QED
    BY <2>2
<1> HIDE DEF item
<1> DEFINE does == [x \in R |-> HearsBroadcast(x, n, item.to, station[x], item.id)]
<1>9. \A x \in R : /\ SoundResult(x, station[x], does[x])
                   /\ HonestResult(x, station[x], does[x].st)
                   /\ BroadcastLeaves(x, station[x], n, m, does[x].st, does[x].ev)
  <2> SUFFICES ASSUME NEW x \in R
               PROVE  LET r == HearsBroadcast(x, n, item.to, station[x], item.id)
                      IN  /\ SoundResult(x, station[x], r)
                          /\ HonestResult(x, station[x], r.st)
                          /\ BroadcastLeaves(x, station[x], n, m, r.st, r.ev)
    OBVIOUS
  <2>1. PICK r : r = HearsBroadcast(x, n, item.to, station[x], item.id)
    OBVIOUS
  <2>2. SoundResult(x, station[x], HearsBroadcast(x, n, item.to, station[x], item.id))
    BY <1>1, <1>4, <1>7, BroadcastSound
  <2>3. Shaped(station[x])
    BY <1>1, <1>4 DEF Sound
  <2>4. BroadcastLeaves(x, station[x], n, m, r.st, r.ev)
    BY <1>1, <1>4, <1>7, <2>1, <2>3, BroadcastFields
  <2>5. HonestResult(x, station[x], r.st)
    BY <1>7, <2>4, BroadcastHonest
  <2> QED
    BY <2>1, <2>2, <2>4, <2>5
<1>10. Tallied(astray') /\ (Lossless' => Lossless /\ setting.reach[n] \subseteq R)
  BY <1>1, <1>3, AstrayCounted DEF Truthful
<1>11. Transmit(n, after, <<>>, R, does) /\ <<>> \in Seq(Event)
  BY <1>3
<1> HIDE DEF does, after
<1>12. Spread(n, after, R, does)
  BY <1>1, <1>4, <1>9, <1>11, TransmittedAll
<1>13. ASSUME Lossless', Unthrottled', NEW r \in setting.reach[n], ~IsGateway(r)
       PROVE  <<r, m>> \in DOMAIN had'
  <2>1. r \in R /\ r \in Stations
    BY <1>4, <1>10, <1>13
  <2>2. BroadcastLeaves(r, station[r], n, m, does[r].st, does[r].ev)
    BY <1>9, <2>1
  <2>3. CASE m \in Ids(station[r].buffer)
    BY <1>12, <2>1, <2>3 DEF Truthful, Held, Spread
  <2>4. CASE m \in Ids(does[r].st.buffer)
    BY <1>7, <1>12, <2>1, <2>4, HoldsIds DEF Spread
  <2>5. ~\E i \in DOMAIN does[r].ev : does[r].ev[i].type = "channel_drop_originator_throttle"
    <3> SUFFICES ASSUME NEW i \in DOMAIN does[r].ev,
                        does[r].ev[i].type = "channel_drop_originator_throttle"
                 PROVE  FALSE
      OBVIOUS
    <3>1. PICK k \in DOMAIN journal' : journal'[k] = does[r].ev[i]
      BY <1>12, <2>1 DEF Spread
    <3> QED
      BY <1>13, <3>1 DEF Unthrottled, Tells
  <2> QED
    BY <1>13, <2>2, <2>3, <2>4, <2>5 DEF BroadcastLeaves
<1>14. ASSUME Lossless', Unthrottled', Honest(n, st) PROVE Honest(n, station[n])'
  <2> SUFFICES ASSUME NEW e \in Rows(st.buffer), NEW r \in e.seenBy
               PROVE  Vouched(n, station[n], e.id, r)'
    BY <1>8, <1>12 DEF Honest, Spread, Rows
  <2>1. Vouched(n, st, e.id, r)
    BY <1>14 DEF Honest
  <2>2. CASE <<r, e.id>> \in DOMAIN had
    BY <1>12, <2>2 DEF Spread, Vouched
  <2>3. CASE e.id \in Ids(st.queue) /\ r \in setting.reach[n] /\ ~IsGateway(r)
    <3>1. CASE e.id = m
      BY <1>13, <1>14, <2>3, <3>1 DEF Vouched
    <3>2. CASE e.id # m
      <4>1. e.id \in Ids(station'[n].queue)
        BY <1>7, <1>8, <1>12, <2>3, <3>2 DEF Spread
      <4> QED
        BY <1>2, <2>3, <4>1 DEF Vouched, Ids, IsGateway
    <3> QED
      BY <3>1, <3>2
  <2> QED
    BY <2>1, <2>2, <2>3 DEF Vouched
<1>15. Disciplined'
  BY BroadcastStep DEF Truthful
<1>16. Ids(after.queue) \subseteq Ids(st.queue) /\ (Plain(n, st) => Plain(n, after))
  BY <1>7, <1>8 DEF Plain
<1>17. \A x \in R : SoundResult(x, station[x], does[x]) /\ HonestResult(x, station[x], does[x].st)
  BY <1>9
<1> QED
  BY <1>2, <1>4, <1>10, <1>11, <1>14, <1>15, <1>16, <1>17, TruthStep

(* A pull: its target decodes it and is decoded, and it is no gateway's.   *)
LEMMA TruthPull ==
  ASSUME Truthful, NEW n \in Stations, NEW timer \in station[n].timers, Pull(n, timer)
  PROVE  Truthful'
<1> DEFINE st == station[n]
           m == timer.id
           to == timer.to
           quiet == [Quiet(n, timer) EXCEPT !.pending = Forget(@, timer.id)]
           asked == Asked(n, timer)
           suppressed == Told(n, "channel_pull_suppressed", m, "promiscuous_receive")
           sent == Told(n, "channel_pull_sent", m, to)
           ev == IF m \in DOMAIN st.pending THEN <<suppressed>> ELSE <<>>
           Drops(R) == to \in R /\ JustAnswered(station[to], n, to)
           Counts(R) == [receptions |-> Astray(n, R),
                         unheard |-> astray.unheard + (IF to \in R THEN 0 ELSE 1),
                         dropped |-> astray.dropped \cup
                                       (IF Drops(R) THEN {<<n, to, m, clock>>} ELSE {})]
<1>1. /\ setting \in Settings /\ clock \in Nat /\ \A x \in Stations : Sound(x, station[x])
      /\ journal \in Seq(Event) /\ Tallied(astray)
  BY DEF Truthful, Disciplined, Logged
<1>2. setting' = setting
  BY DEF Pull
<1>3. Heard(n, to) /\ to \in Stations
  BY <1>1 DEF Sound, Heard
<1>4. \/ Transmit(n, quiet, ev, {}, <<>>) /\ astray' = astray
      \/ /\ m \in DOMAIN st.pending
         /\ \E R \in Decoders(n) :
              /\ Transmit(n, asked, <<sent>>, R,
                          [x \in R |-> HearsPull(x, n, to, station[x], m)])
              /\ astray' = Counts(R)
  BY DEF Pull
<1>5. m \in DOMAIN st.pending => m \in Posts /\ ~IsGateway(n)
  BY <1>1 DEF Sound, MayPull, Posted, Truthful, Plain
<1>6. Disciplined'
  BY PullStep DEF Truthful
<1>7. /\ quiet.buffer = st.buffer /\ quiet.queue = st.queue
      /\ DOMAIN quiet.pending \subseteq DOMAIN st.pending
      /\ asked.buffer = st.buffer /\ asked.queue = st.queue
      /\ DOMAIN asked.pending \subseteq DOMAIN st.pending
  <2>1. Settles(st, quiet) /\ Asks(st, timer, asked)
    BY <1>1, SettledSound
  <2> QED
    BY <2>1 DEF Settles, Asks
<1> HIDE DEF quiet, asked, suppressed, sent
<1>8. CASE Transmit(n, quiet, ev, {}, <<>>) /\ astray' = astray
  <2>1. ev \in Seq(Event)
    <3>1. m \in DOMAIN st.pending => suppressed \in Event
      BY <1>1, <1>5 DEF suppressed, Told, Event, QuietKinds, Sources, Causes
    <3> QED
      BY <3>1
  <2> HIDE DEF ev
  <2>2. PICK R, does : R = {} /\ does = <<>>
    OBVIOUS
  <2>3. /\ Transmit(n, quiet, ev, R, does) /\ R \in SUBSET Stations /\ n \notin R
        /\ \A x \in R : SoundResult(x, station[x], does[x]) /\ HonestResult(x, station[x], does[x].st)
    BY <1>8, <2>2
  <2>4. Spread(n, quiet, R, does)
    BY <1>1, <2>1, <2>3, TransmittedAll
  <2>5. station'[n] = quiet /\ DOMAIN had \subseteq DOMAIN had'
    BY <2>4 DEF Spread
  <2>6. Honest(n, st) => Honest(n, station[n])'
    BY <1>2, <1>7, <2>5, SameHonest
  <2>7. Tallied(astray') /\ (Lossless' => Lossless)
    BY <1>1, <1>8 DEF Lossless
  <2>8. Ids(quiet.queue) \subseteq Ids(st.queue) /\ (Plain(n, st) => Plain(n, quiet))
    BY <1>7 DEF Plain
  <2> QED
    BY <1>2, <1>6, <2>1, <2>3, <2>6, <2>7, <2>8, TruthStep
<1>9. CASE ~(Transmit(n, quiet, ev, {}, <<>>) /\ astray' = astray)
  <2>1. m \in DOMAIN st.pending /\ m \in Posts /\ ~IsGateway(n)
    BY <1>4, <1>5, <1>9
  <2>2. PICK R \in Decoders(n) :
          /\ Transmit(n, asked, <<sent>>, R, [x \in R |-> HearsPull(x, n, to, station[x], m)])
          /\ astray' = Counts(R)
    BY <1>4, <1>9
  <2>3. R \in SUBSET Stations /\ n \notin R
    BY <1>1, DecodersTypes
  <2> DEFINE does == [x \in R |-> HearsPull(x, n, to, station[x], m)]
  <2>4. \A x \in R : SoundResult(x, station[x], does[x]) /\ HonestResult(x, station[x], does[x].st)
    <3> SUFFICES ASSUME NEW x \in R
                 PROVE  LET r == HearsPull(x, n, to, station[x], m)
                        IN  SoundResult(x, station[x], r) /\ HonestResult(x, station[x], r.st)
      OBVIOUS
    <3>1. PICK r : r = HearsPull(x, n, to, station[x], m)
      OBVIOUS
    <3>2. SoundResult(x, station[x], HearsPull(x, n, to, station[x], m))
      BY <1>1, <1>3, <2>1, <2>3, PullSound
    <3>3. Shaped(station[x])
      BY <1>1, <2>3 DEF Sound
    <3>4. PullLeaves(x, station[x], n, to, m, r.st, r.ev)
      BY <1>1, <1>3, <2>1, <2>3, <3>1, <3>3, PullFields
    <3>5. HonestResult(x, station[x], r.st)
      BY <1>3, <2>1, <3>3, <3>4, PullHonest DEF Heard
    <3> QED
      BY <3>1, <3>2, <3>5
  <2>5. <<sent>> \in Seq(Event)
    <3>1. sent \in Event
      BY <1>1, <1>3, <2>1 DEF sent, Told, Event, Sources
    <3> QED
      BY <3>1
  <2>6. Transmit(n, asked, <<sent>>, R, does)
    BY <2>2
  <2> HIDE DEF does
  <2>7. Spread(n, asked, R, does)
    BY <1>1, <2>3, <2>4, <2>5, <2>6, TransmittedAll
  <2>8. station'[n] = asked /\ DOMAIN had \subseteq DOMAIN had'
    BY <2>7 DEF Spread
  <2>9. Honest(n, st) => Honest(n, station[n])'
    BY <1>2, <1>7, <2>8, SameHonest
  <2>10. Tallied(astray') /\ (Lossless' => Lossless)
    <3>1. Astray(n, R) \in Nat /\ (Astray(n, R) = 0 => astray.receptions = 0)
      BY <1>1, AstrayTypes DEF Tallied
    <3>2. Tallied(Counts(R)) /\ Counts(R).receptions = Astray(n, R)
      BY <3>1 DEF Tallied
    <3> HIDE DEF Counts
    <3> QED
      BY <2>2, <3>1, <3>2 DEF Lossless
  <2>11. Ids(asked.queue) \subseteq Ids(st.queue) /\ (Plain(n, st) => Plain(n, asked))
    BY <1>7 DEF Plain
  <2> QED
    BY <1>2, <1>6, <2>3, <2>4, <2>5, <2>6, <2>9, <2>10, <2>11, TruthStep
<1> QED
  BY <1>8, <1>9

LEMMA TruthPost ==
  ASSUME Truthful, NEW m \in Posts, Post(m)
  PROVE  Truthful'
<1>1. PICK n : n = Author(m)
  OBVIOUS
<1> DEFINE st == station[n]
           e == Entry(m, {})
           added == Added(n, st, e)
           received == Told(n, "channel_msg_received", m, "self_originate")
           ev == Append(added.ev, received)
<1>2. /\ setting \in Settings /\ clock \in Nat /\ \A x \in Stations : Sound(x, station[x])
      /\ journal \in Seq(Event)
  BY DEF Truthful, Disciplined, Logged
<1>3. /\ setting' = setting /\ astray' = astray /\ Transmit(n, added.st, ev, {}, <<>>)
  BY <1>1 DEF Post
<1>4. n \in Stations /\ Shaped(st)
  BY <1>1, <1>2, SettingTypes DEF Author, Sound
<1>5. /\ added.st.queue = st.queue /\ added.st.pending = st.pending
      /\ Rows(added.st.buffer) \subseteq Rows(st.buffer) \cup {Entry(m, {})}
      /\ added.ev \in Seq(QuietEvent)
  <2>1. e \in Entries
    BY DEF Entry, Entries
  <2>2. e = Entry(m, {})
    OBVIOUS
  <2> HIDE DEF e
  <2>3. LET s == Added(n, st, e).st
        IN  /\ Shaped(s) /\ Rows(s.buffer) \subseteq Rows(st.buffer) \cup {e}
            /\ Ids(s.buffer) \subseteq Ids(st.buffer) \cup {e.id} /\ e.id \in Ids(s.buffer)
            /\ s.queue = st.queue /\ s.pending = st.pending
            /\ s.timers = st.timers /\ s.recent = st.recent
            /\ Added(n, st, e).ev \in Seq(QuietEvent)
    BY <1>2, <1>4, <2>1, AddedFields
  <2> QED
    BY <2>2, <2>3
<1> HIDE DEF added
<1>6. ev \in Seq(Event)
  <2>1. received \in QuietEvent
    <3>1. "self_originate" \in Sources /\ "channel_msg_received" \in QuietKinds
      BY DEF Sources, Causes, QuietKinds
    <3> QED
      BY <1>2, <1>4, <3>1, ToldQuiet
  <2>2. QuietEvent \subseteq Event
    BY DEF QuietEvent, Event
  <2> HIDE DEF received, QuietEvent, Event
  <2> QED
    BY <1>5, <2>1, <2>2
<1> HIDE DEF ev
<1>7. PICK R, does : R = {} /\ does = <<>>
  OBVIOUS
<1>8. /\ Transmit(n, added.st, ev, R, does) /\ R \in SUBSET Stations /\ n \notin R
      /\ \A x \in R : SoundResult(x, station[x], does[x]) /\ HonestResult(x, station[x], does[x].st)
  BY <1>3, <1>7
<1>9. Spread(n, added.st, R, does)
  BY <1>2, <1>4, <1>6, <1>8, TransmittedAll
<1>10. HonestResult(n, st, added.st)
  <2>1. PICK none : none = {}
    OBVIOUS
  <2>2. /\ \A r \in none : <<r, m>> \in DOMAIN had
        /\ DOMAIN added.st.pending \subseteq DOMAIN st.pending
        /\ Rows(added.st.buffer) \subseteq Rows(st.buffer) \cup {Entry(m, none)}
    BY <1>5, <2>1
  <2> QED
    BY <1>5, <2>1, <2>2, GainedHonest
<1>11. Honest(n, st) => Honest(n, station[n])'
  <2>1. station'[n] = added.st /\ DOMAIN had \subseteq DOMAIN had'
    BY <1>9 DEF Spread
  <2> QED
    BY <1>3, <1>10, <2>1, HonestLater DEF HonestResult
<1>12. Tallied(astray') /\ (Lossless' => Lossless)
  BY <1>3 DEF Truthful, Lossless
<1>13. Disciplined'
  BY PostStep DEF Truthful
<1>14. /\ Ids(added.st.queue) \subseteq Ids(st.queue) \cup Ids(st.buffer)
       /\ Plain(n, st) => Plain(n, added.st)
  BY <1>10 DEF HonestResult
<1> QED
  BY <1>3, <1>4, <1>6, <1>8, <1>11, <1>12, <1>13, <1>14, TruthStep

LEMMA TruthInit == GossipInit => Truthful
<1> SUFFICES ASSUME GossipInit PROVE Truthful
  OBVIOUS
<1>1. /\ station = [n \in Stations |-> Fresh]
      /\ astray = [receptions |-> 0, unheard |-> 0, dropped |-> {}]
  BY DEF GossipInit
<1>2. Fresh.buffer = <<>> /\ Fresh.queue = <<>> /\ Fresh.pending = <<>>
  BY DEF Fresh
<1>3. \A n \in Stations : Held(n, station[n]) /\ Plain(n, station[n]) /\ Honest(n, station[n])
  BY <1>1, <1>2 DEF Held, Plain, Honest, Ids, Rows
<1>4. Tallied(astray)
  BY <1>1 DEF Tallied
<1> QED
  BY <1>3, <1>4, DisciplinedInit DEF Truthful

LEMMA TruthStays ==
  ASSUME Truthful, Disciplined', UNCHANGED <<setting, station, journal, had, astray>>
  PROVE  Truthful'
BY DEF Truthful, Tallied, Held, Plain, Honest, Vouched, Rows, Ids, IsGateway, Lossless, Unthrottled, Tells

LEMMA TruthfulStep == Truthful /\ [GossipNext]_gossipVars => Truthful'
<1> SUFFICES ASSUME Truthful, [GossipNext]_gossipVars PROVE Truthful'
  OBVIOUS
<1>1. CASE \E m \in Posts : Post(m)
  BY <1>1, TruthPost
<1>2. CASE \E n \in Stations : Beacon(n)
  BY <1>2, TruthBeacon
<1>3. CASE \E n \in Stations : Broadcast(n)
  BY <1>3, TruthBroadcast
<1>4. CASE \E n \in Stations : \E timer \in station[n].timers : Pull(n, timer)
  BY <1>4, TruthPull
<1>5. CASE Passes \/ UNCHANGED gossipVars
  <2>1. Disciplined'
    BY DisciplinedStep DEF Truthful
  <2>2. UNCHANGED <<setting, station, journal, had, astray>>
    BY <1>5 DEF Passes, gossipVars
  <2> QED
    BY <2>1, <2>2, TruthStays
<1> QED
  BY <1>1, <1>2, <1>3, <1>4, <1>5 DEF GossipNext

(* Eviction trusts seen_by, and may: in every network, at every time, for  *)
(* every way in which beacons, pulls, answers and evictions fall, a        *)
(* neighbour marked there has had the message or will hear its broadcast,  *)
(* as long as no frame was lost and nobody threw a message away.           *)
THEOREM SeenByIsHonest == GossipSpec => []SeenByIsTrue
<1>1. GossipInit => Truthful
  BY TruthInit
<1>2. Truthful /\ [GossipNext]_gossipVars => Truthful'
  BY TruthfulStep
<1>3. Truthful => SeenByIsTrue
  <2> SUFFICES ASSUME Truthful, Lossless, Unthrottled, NEW n \in Stations,
                      NEW i \in DOMAIN station[n].buffer, NEW r \in station[n].buffer[i].seenBy
               PROVE  <<r, station[n].buffer[i].id>> \in DOMAIN had \/ InQueue(n, station[n].buffer[i].id)
    BY DEF SeenByIsTrue
  <2>1. Vouched(n, station[n], station[n].buffer[i].id, r)
    BY DEF Truthful, Honest, Rows
  <2> QED
    BY <2>1 DEF Vouched, InQueue, Ids
<1> QED
  BY <1>1, <1>2, <1>3, PTL DEF GossipSpec

-----------------------------------------------------------------------------
(* How far one advertisement carries.  Besides what the leaves above say,  *)
(* a handler forgets no answer, no pull but the one it is told of, and     *)
(* counts no advertisement: only a beacon does, on what it advertises.     *)
Telling(st) == \E e \in Rows(st.buffer) : e.ads > 0

LEMMA MarkedAds ==
  ASSUME NEW b \in Seq(Entries), NEW ids, NEW x, NEW e \in Rows(Marked(b, ids, x))
  PROVE  \E o \in Rows(b) : e.ads = o.ads
<1>1. PICK i \in DOMAIN Marked(b, ids, x) : e = Marked(b, ids, x)[i]
  BY DEF Rows
<1>2. i \in DOMAIN b /\ e = IF b[i].id \in ids THEN [b[i] EXCEPT !.seenBy = @ \cup {x}] ELSE b[i]
  BY <1>1 DEF Marked
<1>3. b[i] \in Entries /\ b[i] \in Rows(b)
  BY <1>2 DEF Rows
<1>4. PICK o \in Entries : o = b[i]
  BY <1>3
<1>5. [o EXCEPT !.seenBy = @ \cup {x}].ads = o.ads
  BY DEF Entries
<1>6. e.ads = o.ads
  BY <1>2, <1>4, <1>5
<1> QED
  BY <1>3, <1>4, <1>6

LEMMA NeighbourAnswers ==
  ASSUME NEW st, Shaped(st), NEW n
  PROVE  Neighbour(st, n).answered = st.answered
<1>1. Neighbour(st, n) = [st EXCEPT !.rt = st.rt \cup {n}]
  BY DEF Neighbour
<1>2. Neighbour(st, n) = Record(st.buffer, st.pending, st.timers, st.recent, st.answered,
                                st.queue, st.rt \cup {n}, st.admitted)
  BY <1>1, Edits DEF Shaped
<1> QED
  BY <1>2, RecordFields

LEMMA MarkedAnswers ==
  ASSUME NEW st, Shaped(st), NEW ids, NEW n
  PROVE  MarkSeen(st, ids, n).answered = st.answered
<1> DEFINE marked == Marked(st.buffer, ids, n)
<1>1. MarkSeen(st, ids, n) = [st EXCEPT !.buffer = marked]
  BY DEF MarkSeen
<1> HIDE DEF marked
<1>2. MarkSeen(st, ids, n) = Record(marked, st.pending, st.timers, st.recent, st.answered,
                                    st.queue, st.rt, st.admitted)
  BY <1>1, Edits DEF Shaped
<1> QED
  BY <1>2, RecordFields

LEMMA AddedAnswers ==
  ASSUME NEW n, NEW st, Shaped(st), NEW e
  PROVE  Added(n, st, e).st.answered = st.answered
<1>1. \A v : [st EXCEPT !.buffer = v].answered = st.answered
  <2> SUFFICES ASSUME NEW v PROVE [st EXCEPT !.buffer = v].answered = st.answered
    OBVIOUS
  <2>1. [st EXCEPT !.buffer = v] = Record(v, st.pending, st.timers, st.recent, st.answered,
                                          st.queue, st.rt, st.admitted)
    BY Edits DEF Shaped
  <2> QED
    BY <2>1, RecordFields
<1>2. PICK v, ev : Added(n, st, e) = Result([st EXCEPT !.buffer = v], ev)
  BY DEF Added
<1>3. \A s, said : Result(s, said).st = s
  BY DEF Result
<1>4. Added(n, st, e).st = [st EXCEPT !.buffer = v]
  BY <1>2, <1>3
<1> QED
  BY <1>1, <1>4

(* process_channel_digest.  What is missing and was not asked for lately   *)
(* is asked for: the first identifier that is missed, at the least.        *)
DigestKeeps(n, st, from, ids, s) ==
  /\ s.answered = st.answered /\ DOMAIN st.pending \subseteq DOMAIN s.pending
  /\ \A timer \in s.timers : timer \in st.timers \/ (timer.to = from /\ timer.id \in ToSet(ids))
  /\ \A m : ~IsGateway(n) /\ ids # <<>> /\ ToSet(ids) \subseteq {m} =>
       m \in Ids(st.buffer) \cup DOMAIN st.recent \cup DOMAIN s.pending

LEMMA DigestAsks ==
  ASSUME setting \in Settings, MaxPulls # 0, clock \in Nat, NEW n \in Stations, NEW from \in Stations,
         NEW ids \in Seq(Posts), NEW delay, NEW st, Shaped(st)
  PROVE  DigestKeeps(n, st, from, ids, HearsDigest(n, from, st, ids, delay).st)
<1> DEFINE near == Neighbour(st, from)
           missed == {k \in DOMAIN ids : ~Holds(st, ids[k]) /\ ~JustPulled(st, ids[k])}
           wanted == {ids[k] : k \in {i \in missed : Cardinality({j \in missed : j < i}) < MaxPulls}}
           known == {k \in DOMAIN ids : \E i \in DOMAIN st.buffer :
                       st.buffer[i].id = ids[k] /\ from \notin st.buffer[i].seenBy}
           marked == MarkSeen(near, ToSet(ids), from)
           pulls == With(marked.pending, wanted, from)
           armed == {[id |-> m, to |-> from, at |-> clock + delay[m]] : m \in wanted}
           timers == marked.timers \cup armed
           after == [marked EXCEPT !.pending = pulls, !.timers = timers]
           told == FlattenSeq([k \in DOMAIN ids |->
                     IF k \in known THEN <<Told(n, "channel_msg_seen_by_neighbour", ids[k], from)>> ELSE <<>>])
           r == HearsDigest(n, from, st, ids, delay)
<1>1. (IsGateway(n) /\ r = Result(near, <<>>)) \/ (~IsGateway(n) /\ r = Result(after, told))
  BY DEF HearsDigest, TakesPart
<1>2. /\ Shaped(near) /\ near.recent = st.recent /\ near.buffer = st.buffer
      /\ near.queue = st.queue /\ near.pending = st.pending /\ near.timers = st.timers
      /\ near.answered = st.answered
  BY NeighbourFields, NeighbourAnswers
<1> HIDE DEF near
<1>3. /\ Shaped(marked) /\ marked.pending = st.pending /\ marked.timers = st.timers
      /\ marked.answered = st.answered
  BY <1>2, MarkedFields, MarkedAnswers
<1> HIDE DEF marked
<1>4. wanted \subseteq ToSet(ids)
  BY DEF ToSet
<1>5. ASSUME NEW m, ids # <<>>, ToSet(ids) \subseteq {m}, m \notin Ids(st.buffer), m \notin DOMAIN st.recent
      PROVE  m \in wanted
  <2>1. DOMAIN ids = 1 .. Len(ids) /\ Len(ids) \in Nat /\ 1 \in DOMAIN ids /\ ids[1] = m
    BY <1>5 DEF ToSet
  <2>2. 1 \in missed
    BY <1>5, <2>1, HoldsIds DEF JustPulled
  <2>3. {j \in missed : j < 1} = {}
    BY <2>1
  <2>4. Cardinality({j \in missed : j < 1}) = 0 /\ MaxPulls \in Nat
    BY <2>3, FS_EmptySet, GossipAssumption
  <2> DEFINE first == {i \in missed : Cardinality({j \in missed : j < i}) < MaxPulls}
  <2>5. 1 \in first
    BY <2>2, <2>4
  <2>6. \A k \in first : ids[k] \in wanted
    OBVIOUS
  <2> HIDE DEF first, wanted
  <2> QED
    BY <2>1, <2>5, <2>6
<1> HIDE DEF wanted
<1>6. \A timer \in armed : timer.to = from /\ timer.id \in wanted
  OBVIOUS
<1> HIDE DEF armed
<1>7. DOMAIN pulls = wanted \cup DOMAIN st.pending
  BY <1>3 DEF With
<1> HIDE DEF pulls
<1>8. after.answered = st.answered /\ after.pending = pulls /\ after.timers = st.timers \cup armed
  <2>1. \A v, w : [marked EXCEPT !.pending = v, !.timers = w] =
                    Record(marked.buffer, v, w, marked.recent, marked.answered, marked.queue,
                           marked.rt, marked.admitted)
    BY <1>3, EditPending DEF Shaped
  <2>2. after = Record(marked.buffer, pulls, timers, marked.recent, marked.answered, marked.queue,
                       marked.rt, marked.admitted)
    BY <2>1
  <2>3. timers = st.timers \cup armed
    BY <1>3
  <2> HIDE DEF after, timers
  <2> QED
    BY <1>3, <2>2, <2>3, RecordFields
<1> HIDE DEF after, told, r
<1>9. IsGateway(n) => DigestKeeps(n, st, from, ids, near)
  BY <1>2 DEF DigestKeeps
<1>10. ~IsGateway(n) => DigestKeeps(n, st, from, ids, after)
  BY <1>4, <1>5, <1>6, <1>7, <1>8 DEF DigestKeeps
<1>11. \A s, ev : Result(s, ev).st = s
  BY DEF Result
<1>12. DigestKeeps(n, st, from, ids, r.st)
  BY <1>1, <1>9, <1>10, <1>11
<1> QED
  BY <1>12 DEF r

(* on_recv Q.  A pull that reaches who holds the message puts it in the    *)
(* queue, or it is taken for one that was answered before.                 *)
PullKeeps(n, st, from, to, m, s) ==
  /\ DOMAIN s.answered \subseteq DOMAIN st.answered \cup {<<from, to>>}
  /\ n = to /\ m \in Ids(st.buffer) => <<from, to>> \in DOMAIN st.answered \/ m \in Ids(s.queue)

LEMMA PullAnswered ==
  ASSUME NEW n \in Stations, NEW from \in Stations, NEW to \in Stations, NEW m \in Posts,
         NEW st, Shaped(st)
  PROVE  PullKeeps(n, st, from, to, m, HearsPull(n, from, to, st, m).st)
<1> DEFINE near == Neighbour(st, from)
           answers == With(near.answered, {<<from, to>>}, clock)
           asked == [near EXCEPT !.answered = answers, !.pending = Quashed(st, m)]
           longer == Append(asked.queue, [id |-> m, to |-> from])
           queued == IF InFlight(st, m) THEN asked ELSE [asked EXCEPT !.queue = longer]
           marked == MarkSeen(queued, {m}, from)
           quash == IF m \in DOMAIN st.pending
                    THEN <<Told(n, "channel_pull_suppressed", m, "peer_q")>> ELSE <<>>
           taken == Told(n, "channel_pull_received", m, from)
           pulled == Told(n, "channel_msg_pulled", m, from)
           r == HearsPull(n, from, to, st, m)
<1>1. \/ <<from, to>> \in DOMAIN st.answered /\ r = Result(near, <<>>)
      \/ n # to /\ r = Result(asked, quash)
      \/ r = Result(marked, quash \o <<taken, pulled>>)
      \/ ~Holds(st, m) /\ r = Result(asked, Append(quash, taken))
  BY DEF HearsPull, Addressed, JustAnswered
<1>2. /\ Shaped(near) /\ near.queue = st.queue /\ near.answered = st.answered
  BY NeighbourFields, NeighbourAnswers
<1>3. DOMAIN answers = DOMAIN st.answered \cup {<<from, to>>}
  BY <1>2 DEF With
<1> HIDE DEF near, answers
<1>4. asked = Record(near.buffer, Quashed(st, m), near.timers, near.recent, answers, near.queue,
                     near.rt, near.admitted)
  <2>1. \A v, w : [near EXCEPT !.answered = v, !.pending = w] =
                    Record(near.buffer, w, near.timers, near.recent, v, near.queue,
                           near.rt, near.admitted)
    BY <1>2, EditAnswer DEF Shaped
  <2> QED
    BY <2>1
<1>5. Shaped(asked) /\ asked.answered = answers /\ asked.queue = st.queue
  BY <1>2, <1>4, RecordFields DEF Shaped
<1> HIDE DEF asked
<1>6. longer \in Seq(Items) /\ m \in Ids(longer)
  <2> DEFINE item == [id |-> m, to |-> from]
  <2>1. item \in Items /\ item.id = m
    BY DEF Items
  <2> HIDE DEF item
  <2>2. asked.queue \in Seq(Items) /\ Len(asked.queue) \in Nat
    BY <1>5 DEF Shaped
  <2>3. /\ longer \in Seq(Items) /\ DOMAIN longer = 1 .. Len(asked.queue) + 1
        /\ longer[Len(asked.queue) + 1] = item
    <3>1. longer = Append(asked.queue, item)
      BY DEF item
    <3> HIDE DEF longer
    <3> QED
      BY <2>1, <2>2, <3>1, AppendProperties
  <2> HIDE DEF longer
  <2>4. Len(asked.queue) + 1 \in DOMAIN longer
    BY <2>2, <2>3
  <2> QED
    BY <2>1, <2>3, <2>4 DEF Ids
<1> HIDE DEF longer
<1>7. Shaped(queued) /\ queued.answered = answers /\ m \in Ids(queued.queue)
  <2>1. CASE InFlight(st, m)
    <3>1. m \in Ids(st.queue)
      BY <2>1 DEF InFlight, SameBroadcast, Ids
    <3> QED
      BY <1>5, <2>1, <3>1
  <2>2. CASE ~InFlight(st, m)
    <3> DEFINE s == [asked EXCEPT !.queue = longer]
    <3>1. s = Record(asked.buffer, asked.pending, asked.timers, asked.recent, asked.answered,
                     longer, asked.rt, asked.admitted)
      BY <1>5, Edits DEF Shaped
    <3> HIDE DEF s
    <3>2. Shaped(s) /\ s.queue = longer /\ s.answered = answers
      BY <1>5, <1>6, <3>1, RecordFields DEF Shaped
    <3>3. queued = s
      BY <2>2 DEF s
    <3> QED
      BY <1>6, <3>2, <3>3
  <2> QED
    BY <2>1, <2>2
<1> HIDE DEF queued
<1>8. marked.answered = answers /\ m \in Ids(marked.queue)
  <2>1. MarkSeen(queued, {m}, from).queue = queued.queue
    BY <1>7, MarkedFields
  <2> QED
    BY <1>7, <2>1, MarkedAnswers
<1> HIDE DEF marked, quash, taken, pulled, r
<1>9. /\ <<from, to>> \in DOMAIN st.answered => PullKeeps(n, st, from, to, m, near)
      /\ n # to \/ ~Holds(st, m) => PullKeeps(n, st, from, to, m, asked)
      /\ PullKeeps(n, st, from, to, m, marked)
  BY <1>2, <1>3, <1>5, <1>8, HoldsIds DEF PullKeeps
<1>10. \A s, ev : Result(s, ev).st = s
  BY DEF Result
<1>11. PullKeeps(n, st, from, to, m, r.st)
  BY <1>1, <1>9, <1>10
<1> QED
  BY <1>11 DEF r

(* RTS and DATA: no answer is forgotten or made up. *)
LEMMA BroadcastAnswers ==
  ASSUME NEW n \in Stations, NEW from, NEW to, NEW m \in Posts, NEW st, Shaped(st)
  PROVE  HearsBroadcast(n, from, to, st, m).st.answered = st.answered
<1> DEFINE heard == Neighbour(st, from)
           label == IF n = to THEN "pull_target" ELSE "overheard"
           admitted == IF Author(m) = n THEN heard.admitted ELSE With(heard.admitted, {m}, clock)
           counted == [heard EXCEPT !.admitted = admitted]
           cleared == [counted EXCEPT !.pending = ClearsPull(st, m)]
           kept == Added(n, cleared, Entry(m, {from}))
           thrown == <<Told(n, "channel_drop_originator_throttle", m, from)>>
           events == kept.ev \o <<Told(n, "channel_msg_received", m, label)>>
                       \o (IF n = to THEN <<>> ELSE <<Told(n, "channel_msg_overheard", m, from)>>)
                       \o (IF m \in DOMAIN st.pending
                           THEN <<Told(n, "channel_pull_suppressed", m, from)>> ELSE <<>>)
           r == HearsBroadcast(n, from, to, st, m)
<1>1. \/ r = Result(heard, <<>>) \/ r = Result(heard, thrown)
      \/ r = Result(counted, <<>>) \/ r = Result(kept.st, events)
  BY DEF HearsBroadcast, TakesPart, Promiscuous
<1>2. Shaped(heard) /\ heard.answered = st.answered
  BY NeighbourFields, NeighbourAnswers
<1> HIDE DEF heard, admitted, thrown, events
<1>3. Shaped(counted) /\ counted.answered = st.answered
  <2>1. \A v : [heard EXCEPT !.admitted = v] =
               Record(heard.buffer, heard.pending, heard.timers, heard.recent, heard.answered,
                      heard.queue, heard.rt, v)
    BY <1>2, EditAdmitted DEF Shaped
  <2>2. counted = Record(heard.buffer, heard.pending, heard.timers, heard.recent, heard.answered,
                         heard.queue, heard.rt, admitted)
    BY <2>1
  <2> HIDE DEF counted
  <2> QED
    BY <1>2, <2>2, RecordFields DEF Shaped
<1> HIDE DEF counted
<1>4. Shaped(cleared) /\ cleared.answered = st.answered
  <2> DEFINE pulls == ClearsPull(st, m)
  <2> HIDE DEF pulls
  <2>1. \A v : [counted EXCEPT !.pending = v] =
               Record(counted.buffer, v, counted.timers, counted.recent, counted.answered,
                      counted.queue, counted.rt, counted.admitted)
    BY <1>3, Edits DEF Shaped
  <2>2. cleared = Record(counted.buffer, pulls, counted.timers, counted.recent, counted.answered,
                         counted.queue, counted.rt, counted.admitted)
    BY <2>1 DEF pulls
  <2> HIDE DEF cleared
  <2> QED
    BY <1>3, <2>2, RecordFields DEF Shaped
<1> HIDE DEF cleared
<1>5. kept.st.answered = st.answered
  BY <1>4, AddedAnswers
<1> HIDE DEF kept, r
<1>6. \A s, ev : Result(s, ev).st = s
  BY DEF Result
<1>7. r.st.answered = st.answered
  BY <1>1, <1>2, <1>3, <1>5, <1>6
<1> QED
  BY <1>7 DEF r

(* The senders, likewise.  A beacon that names nothing counts nothing.     *)
LEMMA DigestTells ==
  ASSUME NEW st, Shaped(st), Digest(st) = <<>>
  PROVE  Picked(st) = {}
<1> DEFINE Back(k) == Len(st.buffer) + 1 - k
           picked == Picked(st)
           ids == Ids(st.buffer)
           Part(k) == IF Back(k) \in picked THEN <<st.buffer[Back(k)].id>> ELSE <<>>
           parts == [k \in DOMAIN st.buffer |-> Part(k)]
<1> SUFFICES ASSUME NEW i \in picked PROVE FALSE
  OBVIOUS
<1>1. DOMAIN st.buffer = 1 .. Len(st.buffer) /\ Len(st.buffer) \in Nat
  BY DEF Shaped
<1>2. picked \subseteq DOMAIN st.buffer /\ \A j \in picked : st.buffer[j].id \in ids
  BY DEF Picked, Dirty, Ids
<1>3. Digest(st) = FlattenSeq(parts)
  BY DEF Digest
<1> HIDE DEF picked, ids
<1>4. PICK k \in DOMAIN st.buffer : Back(k) = i
  <2>1. Len(st.buffer) + 1 - i \in DOMAIN st.buffer /\ Back(Len(st.buffer) + 1 - i) = i
    BY <1>1, <1>2
  <2> QED
    BY <2>1
<1>5. \A j \in 1 .. Len(st.buffer) : Part(j) \in Seq(ids)
  BY <1>2
<1>6. Part(k) = <<st.buffer[i].id>>
  BY <1>4
<1> HIDE DEF Part
<1>7. parts \in Seq(Seq(ids)) /\ k \in DOMAIN parts /\ parts[k] = <<st.buffer[i].id>>
  BY <1>1, <1>4, <1>5, <1>6
<1> HIDE DEF parts
<1>8. 1 \in DOMAIN parts[k]
  BY <1>7
<1>9. \E j \in DOMAIN FlattenSeq(parts) : FlattenSeq(parts)[j] = parts[k][1]
  BY <1>7, <1>8, FlattenHas
<1> QED
  BY <1>3, <1>9

LEMMA AdvertisedKeeps ==
  ASSUME NEW st, Shaped(st)
  PROVE  LET s == Advertised(st)
         IN  /\ s.answered = st.answered /\ s.timers = st.timers
             /\ Digest(st) = <<>> => s.buffer = st.buffer
<1> DEFINE told == [i \in DOMAIN st.buffer |->
                      IF i \in Picked(st) THEN Retold(st.buffer[i]) ELSE st.buffer[i]]
<1>1. Digest(st) = <<>> => told = st.buffer
  <2>1. Picked(st) = {} => told = [i \in DOMAIN st.buffer |-> st.buffer[i]]
    OBVIOUS
  <2>2. st.buffer = [i \in DOMAIN st.buffer |-> st.buffer[i]]
    BY DEF Shaped
  <2> QED
    BY <2>1, <2>2, DigestTells
<1>2. Advertised(st) = [st EXCEPT !.buffer = told]
  BY DEF Advertised
<1> HIDE DEF told
<1>3. Advertised(st) = Record(told, st.pending, st.timers, st.recent, st.answered, st.queue,
                              st.rt, st.admitted)
  BY <1>2, Edits DEF Shaped
<1> QED
  BY <1>1, <1>3, RecordFields

LEMMA ServedKeeps ==
  ASSUME NEW st, Shaped(st)
  PROVE  LET s == [st EXCEPT !.queue = Tail(@)]
         IN  s.answered = st.answered /\ s.timers = st.timers
<1> DEFINE rest == Tail(st.queue)
<1> HIDE DEF rest
<1>1. [st EXCEPT !.queue = rest] = Record(st.buffer, st.pending, st.timers, st.recent, st.answered,
                                          rest, st.rt, st.admitted)
  BY Edits DEF Shaped
<1>2. LET s == [st EXCEPT !.queue = rest] IN s.answered = st.answered /\ s.timers = st.timers
  BY <1>1, RecordFields
<1> QED
  BY <1>2 DEF rest

LEMMA SettledKeeps ==
  ASSUME NEW n, NEW timer, Shaped(station[n])
  PROVE  LET quiet == [Quiet(n, timer) EXCEPT !.pending = Forget(@, timer.id)]
             asked == Asked(n, timer)
         IN  /\ quiet.answered = station[n].answered /\ asked.answered = station[n].answered
             /\ quiet.timers \subseteq station[n].timers /\ asked.timers \subseteq station[n].timers
             /\ DOMAIN quiet.pending = DOMAIN station[n].pending \ {timer.id}
<1> DEFINE still == Quiet(n, timer)
           fewer == station[n].timers \ {timer}
           recent == With(still.recent, {timer.id}, clock)
           pulls == Forget(still.pending, timer.id)
           quiet == [still EXCEPT !.pending = pulls]
           asked == [still EXCEPT !.recent = recent, !.pending = pulls]
           st == station[n]
<1>1. Shaped(still) /\ still.pending = st.pending /\ still.timers = fewer /\ still.answered = st.answered
  <2>1. \A v : [st EXCEPT !.timers = v] =
               Record(st.buffer, st.pending, v, st.recent, st.answered, st.queue, st.rt, st.admitted)
    BY Edits DEF Shaped
  <2>2. still = Record(st.buffer, st.pending, fewer, st.recent, st.answered, st.queue, st.rt,
                       st.admitted)
    BY <2>1 DEF Quiet
  <2> HIDE DEF still
  <2> QED
    BY <2>2, RecordFields DEF Shaped
<1> HIDE DEF still
<1>2. quiet = Record(still.buffer, pulls, still.timers, still.recent, still.answered,
                     still.queue, still.rt, still.admitted)
  <2>1. \A v : [still EXCEPT !.pending = v] =
               Record(still.buffer, v, still.timers, still.recent, still.answered,
                      still.queue, still.rt, still.admitted)
    BY <1>1, Edits DEF Shaped
  <2> QED
    BY <2>1
<1>3. asked = Record(still.buffer, pulls, still.timers, recent, still.answered,
                     still.queue, still.rt, still.admitted)
  <2>1. \A v, w : [still EXCEPT !.recent = v, !.pending = w] =
                  Record(still.buffer, w, still.timers, v, still.answered, still.queue,
                         still.rt, still.admitted)
    BY <1>1, EditRecent DEF Shaped
  <2> QED
    BY <2>1
<1>4. /\ asked = Asked(n, timer)
      /\ quiet = [Quiet(n, timer) EXCEPT !.pending = Forget(@, timer.id)]
  BY DEF Asked, still
<1>5. DOMAIN pulls = DOMAIN st.pending \ {timer.id}
  BY <1>1 DEF Forget, Restrict
<1> HIDE DEF quiet, asked, pulls, recent
<1>6. /\ quiet.answered = st.answered /\ quiet.pending = pulls /\ quiet.timers = fewer
      /\ asked.answered = st.answered /\ asked.timers = fewer
  BY <1>1, <1>2, <1>3, RecordFields
<1> QED
  BY <1>4, <1>5, <1>6

(* The invariant.  Where all hear all, no frame is lost and there is one   *)
(* message: who has had it still holds it; whom a holder has answered has  *)
(* had it or will hear it; so has, or will, who has asked for it; and once *)
(* somebody told of it, everybody has had it, will hear it or will ask.    *)
(* Who is to be asked, has had it.                                         *)
Alone(m) ==
  /\ Posts = {m} /\ \A n \in Stations : setting.reach[n] = Stations \ {n}
  /\ Lossless /\ Unthrottled

Owed(m)       == \E h \in Stations : m \in Ids(station[h].queue)
Reached(r, m) == <<r, m>> \in DOMAIN had \/ Owed(m)
SomeTold      == \E n \in Stations : Telling(station[n])

Kept(m) == \A r \in Stations : <<r, m>> \in DOMAIN had => m \in Ids(station[r].buffer)
Replied(m) ==
  \A h, r \in Stations : <<r, h>> \in DOMAIN station[h].answered =>
    ~IsGateway(r) /\ (<<r, m>> \in DOMAIN had \/ m \in Ids(station[h].queue))
Recalled(m) ==
  \A r \in Stations : ~IsGateway(r) /\ m \in DOMAIN station[r].recent => Reached(r, m)
Promised(m) ==
  SomeTold => \A r \in Stations : IsGateway(r) \/ Reached(r, m) \/ m \in DOMAIN station[r].pending

Course(m) == Kept(m) /\ Replied(m) /\ Recalled(m) /\ Promised(m)

Sourced == \A n \in Stations : \A timer \in station[n].timers : <<timer.to, timer.id>> \in DOMAIN had

Carried == Truthful /\ Sourced /\ \A m : Alone(m) => Course(m)

(* What a station's state may become without disturbing any of it. *)
Steady(st, s) ==
  /\ s.answered = st.answered /\ s.recent = st.recent /\ Ids(st.queue) \subseteq Ids(s.queue)
  /\ DOMAIN st.pending \subseteq DOMAIN s.pending /\ (Telling(s) => Telling(st))

LEMMA CourseSteady ==
  ASSUME NEW m, Course(m), Kept(m)', setting' = setting, DOMAIN had \subseteq DOMAIN had',
         \A x \in Stations : Steady(station[x], station'[x])
  PROVE  Course(m)'
<1>1. Owed(m) => Owed(m)'
  BY DEF Owed, Steady, Ids
<1>2. \A r \in Stations : Reached(r, m) => Reached(r, m)'
  BY <1>1 DEF Reached
<1>3. Replied(m)'
  BY DEF Course, Replied, Steady, IsGateway, Ids
<1>4. Recalled(m)'
  BY <1>2 DEF Course, Recalled, Steady, IsGateway
<1>5. SomeTold' => SomeTold
  BY DEF SomeTold, Steady, Telling, Rows
<1>6. Promised(m)'
  BY <1>2, <1>5 DEF Course, Promised, Steady, IsGateway
<1> QED
  BY <1>3, <1>4, <1>6 DEF Course

LEMMA CourseOwed ==
  ASSUME NEW m, Kept(m)', Replied(m)', Owed(m)'
  PROVE  Course(m)'
BY DEF Course, Recalled, Promised, Reached

LEMMA CourseDone ==
  ASSUME NEW m, Replied(m), Kept(m)', setting' = setting,
         \A x \in Stations : station'[x].answered = station[x].answered,
         \A x \in Stations : IsGateway(x) \/ <<x, m>> \in DOMAIN had'
  PROVE  Course(m)'
BY DEF Course, Replied, Recalled, Promised, Reached, IsGateway

LEMMA KeptStep ==
  ASSUME NEW m, Kept(m),
         \A x \in DOMAIN had' :
           x \in DOMAIN had \/ (x \in Stations \X Posts /\ Holds(station'[x[1]], x[2])),
         \A x \in Stations : m \in Ids(station[x].buffer) => m \in Ids(station'[x].buffer)
  PROVE  Kept(m)'
<1>1. ASSUME NEW r \in Stations, <<r, m>> \in DOMAIN had' PROVE m \in Ids(station'[r].buffer)
  <2>1. <<r, m>>[1] = r /\ <<r, m>>[2] = m
    OBVIOUS
  <2>2. <<r, m>> \in DOMAIN had \/ Holds(station'[r], m)
    BY <1>1, <2>1
  <2> QED
    BY <2>2, HoldsIds DEF Kept
<1> QED
  BY <1>1 DEF Kept, Ids

(* A frame, and what of its effect every case below needs. *)
Effect(n, after, R, does) ==
  /\ Spread(n, after, R, does) /\ (Unthrottled' => Unthrottled)
  /\ \A x \in DOMAIN had' :
       x \in DOMAIN had \/ (x \in Stations \X Posts /\ Holds(station'[x[1]], x[2]))

LEMMA FrameEffect ==
  ASSUME Truthful, NEW n \in Stations, NEW after, NEW ev \in Seq(Event), NEW R \in SUBSET Stations,
         NEW does, n \notin R, Transmit(n, after, ev, R, does),
         \A x \in R : SoundResult(x, station[x], does[x])
  PROVE  Effect(n, after, R, does)
<1>1. /\ setting \in Settings /\ journal \in Seq(Event) /\ \A x \in Stations : Sound(x, station[x])
  BY DEF Truthful, Disciplined, Logged
<1>2. Spread(n, after, R, does)
  BY <1>1, TransmittedAll
<1>3. Unthrottled' => Unthrottled
  BY <1>2, UnthrottledBefore DEF Spread
<1>4. \A x \in DOMAIN had' :
        x \in DOMAIN had \/ (x \in Stations \X Posts /\ Holds(station'[x[1]], x[2]))
  BY <1>1, Transmitted
<1> QED
  BY <1>2, <1>3, <1>4 DEF Effect

LEMMA AloneBefore ==
  ASSUME setting' = setting, Lossless' => Lossless, Unthrottled' => Unthrottled, NEW m, Alone(m)'
  PROVE  Alone(m)
BY DEF Alone, Posts

(* In a lone network a buffer holds the message or nothing. *)
LEMMA AloneIds ==
  ASSUME Truthful, NEW m, Posts = {m}, NEW x \in Stations
  PROVE  Ids(station[x].buffer) \subseteq {m} /\ Ids(station[x].queue) \subseteq {m}
BY DEF Truthful, Disciplined, Sound, Carries, Posted

LEMMA CarriedPost ==
  ASSUME Carried, NEW k \in Posts, Post(k)
  PROVE  Sourced' /\ \A m : Alone(m)' => Course(m)'
<1>1. PICK n : n = Author(k)
  OBVIOUS
<1> DEFINE st == station[n]
           e == Entry(k, {})
           added == Added(n, st, e)
           received == Told(n, "channel_msg_received", k, "self_originate")
           ev == Append(added.ev, received)
<1>2. /\ setting \in Settings /\ clock \in Nat /\ Truthful /\ Sourced /\ Sound(n, st) /\ n \in Stations
  <2>1. Truthful /\ Sourced /\ setting \in Settings /\ clock \in Nat /\ \A x \in Stations : Sound(x, station[x])
    BY DEF Carried, Truthful, Disciplined
  <2> QED
    BY <1>1, <2>1, SettingTypes DEF Author
<1>3. setting' = setting /\ astray' = astray /\ Transmit(n, added.st, ev, {}, <<>>)
  BY <1>1 DEF Post
<1>4. /\ Rows(added.st.buffer) \subseteq Rows(st.buffer) \cup {e} /\ k \in Ids(added.st.buffer)
      /\ added.st.queue = st.queue /\ added.st.pending = st.pending /\ added.st.timers = st.timers
      /\ added.st.recent = st.recent /\ added.ev \in Seq(QuietEvent) /\ e.ads = 0
      /\ added.st.answered = st.answered
  <2>1. e \in Entries /\ e.id = k /\ e.ads = 0
    BY DEF Entry, Entries
  <2> HIDE DEF e
  <2>2. Shaped(st)
    BY <1>2 DEF Sound
  <2>3. LET s == Added(n, st, e).st
        IN  /\ Shaped(s) /\ Rows(s.buffer) \subseteq Rows(st.buffer) \cup {e}
            /\ Ids(s.buffer) \subseteq Ids(st.buffer) \cup {e.id} /\ e.id \in Ids(s.buffer)
            /\ s.queue = st.queue /\ s.pending = st.pending
            /\ s.timers = st.timers /\ s.recent = st.recent
            /\ Added(n, st, e).ev \in Seq(QuietEvent)
    BY <1>2, <2>1, <2>2, AddedFields
  <2> QED
    BY <2>1, <2>2, <2>3, AddedAnswers
<1> HIDE DEF added, e
<1>5. ev \in Seq(Event)
  <2>1. received \in QuietEvent
    <3>1. "self_originate" \in Sources /\ "channel_msg_received" \in QuietKinds
      BY DEF Sources, Causes, QuietKinds
    <3> QED
      BY <1>2, <3>1, ToldQuiet
  <2>2. QuietEvent \subseteq Event
    BY DEF QuietEvent, Event
  <2> HIDE DEF received, QuietEvent, Event
  <2> QED
    BY <1>4, <2>1, <2>2
<1> HIDE DEF ev
<1>6. PICK R, does : R = {} /\ does = <<>>
  OBVIOUS
<1>7. /\ Transmit(n, added.st, ev, R, does) /\ R \in SUBSET Stations /\ n \notin R
      /\ \A x \in R : SoundResult(x, station[x], does[x])
  BY <1>3, <1>6
<1>8. Effect(n, added.st, R, does)
  BY <1>2, <1>5, <1>7, FrameEffect
<1>9. /\ station'[n] = added.st /\ \A x \in Stations : x # n => station'[x] = station[x]
      /\ DOMAIN had \subseteq DOMAIN had'
  BY <1>6, <1>8 DEF Effect, Spread
<1>10. Sourced'
  BY <1>2, <1>4, <1>9 DEF Sourced
<1>11. ASSUME NEW m, Alone(m)' PROVE Course(m)'
  <2>1. Alone(m) /\ Course(m)
    <3>1. Lossless' => Lossless
      BY <1>3 DEF Lossless
    <3>2. Alone(m)
      BY <1>3, <1>8, <1>11, <3>1, AloneBefore DEF Effect
    <3> QED
      BY <3>2 DEF Carried
  <2>2. k = m
    BY <2>1 DEF Alone
  <2>3. Kept(m)'
    <3>1. \A x \in Stations : m \in Ids(station[x].buffer) => m \in Ids(station'[x].buffer)
      BY <1>4, <1>9, <2>2
    <3> QED
      BY <1>8, <2>1, <3>1, KeptStep DEF Effect, Course
  <2>4. \A x \in Stations : Steady(station[x], station'[x])
    <3>1. Steady(st, added.st)
      BY <1>4 DEF Steady, Telling
    <3>2. \A s : Steady(s, s)
      BY DEF Steady
    <3> QED
      BY <1>9, <3>1, <3>2
  <2> QED
    BY <1>3, <1>9, <2>1, <2>3, <2>4, CourseSteady
<1> QED
  BY <1>10, <1>11

LEMMA CarriedBeacon ==
  ASSUME MaxPulls # 0, Carried, NEW n \in Stations, Beacon(n)
  PROVE  Sourced' /\ \A m : Alone(m)' => Course(m)'
<1> DEFINE st == station[n]
           ids == Digest(st)
<1>1. /\ setting \in Settings /\ clock \in Nat /\ \A x \in Stations : Sound(x, station[x])
      /\ Truthful /\ Sourced
  BY DEF Carried, Truthful, Disciplined
<1>2. PICK R \in Decoders(n) :
        /\ \E delay \in [R -> [ToSet(ids) -> 0 .. MaxDelay]] :
             Transmit(n, Advertised(st), <<>>, R,
                      [x \in R |-> HearsDigest(x, n, station[x], ids, delay[x])])
        /\ astray' = [astray EXCEPT !.receptions = Astray(n, R)]
  BY DEF Beacon
<1>3. PICK delay : Transmit(n, Advertised(st), <<>>, R,
                            [x \in R |-> HearsDigest(x, n, station[x], ids, delay[x])])
  BY <1>2
<1>4. R \in SUBSET Stations /\ n \notin R /\ \A x \in R : Heard(x, n)
  BY <1>1, DecodersTypes DEF Heard
<1>5. ids \in Seq(Posts) /\ ToSet(ids) \subseteq Ids(st.buffer)
      /\ \A k \in DOMAIN ids : ids[k] \in Posted /\ <<n, ids[k]>> \in DOMAIN had
  <2>1. ids \in Seq(Ids(st.buffer))
    BY <1>1, DigestType DEF Sound
  <2>2. Ids(st.buffer) \subseteq Posted /\ Posted \subseteq Posts
    BY <1>1 DEF Sound, Carries, Posted
  <2>3. \A m \in Ids(st.buffer) : <<n, m>> \in DOMAIN had
    BY <1>1 DEF Truthful, Held
  <2> HIDE DEF ids
  <2>4. ToSet(ids) \subseteq Ids(st.buffer)
    BY <2>1 DEF ToSet
  <2> QED
    BY <2>1, <2>2, <2>3, <2>4
<1> DEFINE after == Advertised(st)
<1>6. /\ after.queue = st.queue /\ after.pending = st.pending /\ after.recent = st.recent
      /\ after.answered = st.answered /\ after.timers = st.timers /\ Ids(after.buffer) = Ids(st.buffer)
      /\ ids = <<>> => after.buffer = st.buffer
  <2>1. Sound(n, st) /\ Shaped(st)
    BY <1>1 DEF Sound
  <2>2. LET s == Advertised(st)
        IN  /\ Sound(n, s) /\ s.recent = st.recent
            /\ s.queue = st.queue /\ s.pending = st.pending /\ DOMAIN s.buffer = DOMAIN st.buffer
            /\ \A i \in DOMAIN st.buffer :
                 s.buffer[i].id = st.buffer[i].id /\ s.buffer[i].seenBy = st.buffer[i].seenBy
    BY <2>1, AdvertisedSound
  <2>3. LET s == Advertised(st)
        IN  /\ s.answered = st.answered /\ s.timers = st.timers
            /\ Digest(st) = <<>> => s.buffer = st.buffer
    BY <2>1, AdvertisedKeeps
  <2> HIDE DEF ids
  <2>4. Ids(Advertised(st).buffer) = Ids(st.buffer)
    BY <2>2 DEF Ids
  <2> QED
    BY <2>2, <2>3, <2>4 DEF ids
<1> HIDE DEF ids, after
<1> DEFINE does == [x \in R |-> HearsDigest(x, n, station[x], ids, delay[x])]
<1>7. \A x \in R : /\ SoundResult(x, station[x], does[x])
                   /\ DigestLeaves(x, station[x], n, ids, does[x].st, does[x].ev)
                   /\ DigestKeeps(x, station[x], n, ids, does[x].st)
  <2> SUFFICES ASSUME NEW x \in R
               PROVE  LET r == HearsDigest(x, n, station[x], ids, delay[x])
                      IN  /\ SoundResult(x, station[x], r)
                          /\ DigestLeaves(x, station[x], n, ids, r.st, r.ev)
                          /\ DigestKeeps(x, station[x], n, ids, r.st)
    OBVIOUS
  <2>1. PICK r : r = HearsDigest(x, n, station[x], ids, delay[x])
    OBVIOUS
  <2>2. SoundResult(x, station[x], HearsDigest(x, n, station[x], ids, delay[x]))
    BY <1>1, <1>4, <1>5, DigestSound
  <2>3. Shaped(station[x]) /\ \A m \in DOMAIN station[x].recent : station[x].recent[m] \in Int
    BY <1>1, <1>4 DEF Sound
  <2>4. DigestLeaves(x, station[x], n, ids, r.st, r.ev)
    BY <1>1, <1>4, <1>5, <2>1, <2>3, DigestFields
  <2>5. DigestKeeps(x, station[x], n, ids, r.st)
    BY <1>1, <1>4, <1>5, <2>1, <2>3, DigestAsks
  <2> QED
    BY <2>1, <2>2, <2>4, <2>5
<1>8. setting' = setting /\ (Lossless' => Lossless /\ setting.reach[n] \subseteq R)
  BY <1>1, <1>2, AstrayCounted DEF Beacon, Truthful
<1>9. Transmit(n, after, <<>>, R, does) /\ <<>> \in Seq(Event)
  BY <1>3 DEF after
<1> HIDE DEF does
<1>10. Effect(n, after, R, does)
  BY <1>1, <1>4, <1>7, <1>9, FrameEffect
<1>11. /\ station'[n] = after /\ \A x \in R : station'[x] = does[x].st
       /\ \A x \in Stations : x # n /\ x \notin R => station'[x] = station[x]
       /\ DOMAIN had \subseteq DOMAIN had'
  BY <1>10 DEF Effect, Spread
<1>12. Sourced'
  <2> SUFFICES ASSUME NEW x \in Stations, NEW timer \in station'[x].timers
               PROVE  <<timer.to, timer.id>> \in DOMAIN had
    BY <1>11 DEF Sourced
  <2>1. CASE timer \in station[x].timers
    BY <1>1, <2>1 DEF Sourced
  <2>2. CASE timer \notin station[x].timers
    <3>1. x \in R
      BY <1>6, <1>11, <2>2
    <3>2. timer.to = n /\ timer.id \in ToSet(ids)
      BY <1>7, <1>11, <2>2, <3>1 DEF DigestKeeps
    <3> QED
      BY <1>5, <3>2 DEF ToSet
  <2> QED
    BY <2>1, <2>2
<1>13. \A x \in Stations :
         /\ Ids(station'[x].buffer) = Ids(station[x].buffer) /\ station'[x].queue = station[x].queue
         /\ station'[x].answered = station[x].answered /\ station'[x].recent = station[x].recent
         /\ DOMAIN station[x].pending \subseteq DOMAIN station'[x].pending
         /\ x # n => (Telling(station'[x]) => Telling(station[x]))
  <2> SUFFICES ASSUME NEW x \in R
               PROVE  LET s == does[x].st
                      IN  /\ Ids(s.buffer) = Ids(station[x].buffer) /\ s.queue = station[x].queue
                          /\ s.answered = station[x].answered /\ s.recent = station[x].recent
                          /\ DOMAIN station[x].pending \subseteq DOMAIN s.pending
                          /\ Telling(s) => Telling(station[x])
    BY <1>6, <1>11
  <2>1. PICK s : s = does[x].st
    OBVIOUS
  <2>2. DigestLeaves(x, station[x], n, ids, s, does[x].ev) /\ DigestKeeps(x, station[x], n, ids, s)
    BY <1>7, <2>1
  <2>3. Shaped(station[x])
    BY <1>1, <1>4 DEF Sound
  <2>4. Telling(s) => Telling(station[x])
    <3>1. CASE s.buffer = station[x].buffer
      BY <3>1 DEF Telling
    <3>2. CASE s.buffer # station[x].buffer
      BY <2>2, <2>3, <3>2, MarkedAds DEF DigestLeaves, Telling, Shaped
    <3> QED
      BY <3>1, <3>2
  <2> QED
    BY <2>1, <2>2, <2>4 DEF DigestLeaves, DigestKeeps
<1>14. ASSUME NEW m, Alone(m)' PROVE Course(m)'
  <2>1. Alone(m) /\ Course(m) /\ setting.reach[n] \subseteq R
    <3>1. Alone(m)
      BY <1>8, <1>10, <1>14, AloneBefore DEF Effect
    <3>2. Lossless'
      BY <1>14 DEF Alone
    <3> QED
      BY <1>8, <3>1, <3>2 DEF Carried
  <2>2. Kept(m)'
    BY <1>10, <1>13, <2>1, KeptStep DEF Effect, Course
  <2>3. CASE ids = <<>>
    <3>1. \A x \in Stations : Steady(station[x], station'[x])
      <4>1. Telling(station'[n]) => Telling(station[n])
        BY <1>6, <1>11, <2>3 DEF Telling
      <4> QED
        BY <1>13, <4>1 DEF Steady
    <3> QED
      BY <1>8, <1>11, <2>1, <2>2, <3>1, CourseSteady
  <2>4. CASE ids # <<>>
    <3>1. \A r \in Stations : Reached(r, m) => Reached(r, m)'
      BY <1>11, <1>13 DEF Reached, Owed
    <3>2. Replied(m)'
      BY <1>8, <1>11, <1>13, <2>1 DEF Course, Replied, IsGateway
    <3>3. Recalled(m)'
      BY <1>8, <1>13, <2>1, <3>1 DEF Course, Recalled, IsGateway
    <3>4. ASSUME NEW r \in Stations, ~IsGateway(r)
          PROVE  Reached(r, m)' \/ m \in DOMAIN station'[r].pending
      <4>1. ToSet(ids) \subseteq {m} /\ m \in Ids(st.buffer)
        <5>1. ToSet(ids) \subseteq {m}
          BY <1>1, <1>5, <2>1, AloneIds DEF Alone
        <5>2. ids[1] \in ToSet(ids)
          BY <1>5, <2>4 DEF ToSet
        <5> QED
          BY <1>5, <5>1, <5>2
      <4>2. CASE r = n
        BY <1>1, <3>1, <4>1, <4>2 DEF Truthful, Held, Reached
      <4>3. CASE r # n
        <5>1. r \in R
          BY <2>1, <4>3 DEF Alone
        <5>2. m \in Ids(station[r].buffer) \cup DOMAIN station[r].recent \cup DOMAIN station'[r].pending
          BY <1>7, <1>11, <2>4, <3>4, <4>1, <5>1 DEF DigestKeeps
        <5>3. m \in Ids(station[r].buffer) => Reached(r, m)
          BY <1>1 DEF Truthful, Held, Reached
        <5>4. m \in DOMAIN station[r].recent => Reached(r, m)
          BY <2>1, <3>4 DEF Course, Recalled
        <5> QED
          BY <3>1, <5>2, <5>3, <5>4
      <4> QED
        BY <4>2, <4>3
    <3>5. Promised(m)'
      BY <1>8, <3>4 DEF Promised, IsGateway
    <3> QED
      BY <2>2, <3>2, <3>3, <3>5 DEF Course
  <2> QED
    BY <2>3, <2>4
<1> QED
  BY <1>12, <1>14

(* A broadcast where nothing is lost or thrown away: then all have had it. *)
LEMMA CarriedBroadcast ==
  ASSUME Carried, NEW n \in Stations, Broadcast(n)
  PROVE  Sourced' /\ \A m : Alone(m)' => Course(m)'
<1> DEFINE st == station[n]
           item == Head(st.queue)
           k == item.id
           after == [st EXCEPT !.queue = Tail(@)]
<1>1. /\ setting \in Settings /\ clock \in Nat /\ \A x \in Stations : Sound(x, station[x])
      /\ Truthful /\ Sourced
  BY DEF Carried, Truthful, Disciplined
<1>2. PICK R \in Decoders(n) :
        /\ st.queue # <<>> /\ setting' = setting
        /\ Transmit(n, after, <<>>, R,
                    [x \in R |-> HearsBroadcast(x, n, item.to, station[x], item.id)])
        /\ astray' = [astray EXCEPT !.receptions = Astray(n, R)]
  BY DEF Broadcast
<1>3. R \in SUBSET Stations /\ n \notin R /\ R \subseteq setting.reach[n]
  BY <1>1, DecodersTypes
<1>4. k \in Posts /\ item.to \in Stations /\ Carries(n, k) /\ <<n, k>> \in DOMAIN had
  <2>1. st.queue \in Seq(Items)
    BY <1>1 DEF Sound, Shaped
  <2>2. item \in Items /\ 1 \in DOMAIN st.queue /\ item = st.queue[1]
    BY <1>2, <2>1
  <2>3. k \in Ids(st.queue)
    BY <2>2 DEF Ids
  <2> QED
    BY <1>1, <2>2, <2>3 DEF Items, Sound, Truthful, Held
<1>5. /\ after.recent = st.recent /\ after.pending = st.pending /\ after.buffer = st.buffer
      /\ after.answered = st.answered /\ after.timers = st.timers
  <2>1. Sound(n, st) /\ Shaped(st)
    BY <1>1 DEF Sound
  <2>2. LET s == [st EXCEPT !.queue = Tail(@)]
        IN  /\ Sound(n, s) /\ s.recent = st.recent
            /\ s.queue = Tail(st.queue) /\ s.pending = st.pending /\ s.buffer = st.buffer
    BY <1>2, <2>1, ServedSound
  <2>3. LET s == [st EXCEPT !.queue = Tail(@)]
        IN  s.answered = st.answered /\ s.timers = st.timers
    BY <2>1, ServedKeeps
  <2> QED
    BY <2>2, <2>3
<1> HIDE DEF item, after
<1> DEFINE does == [x \in R |-> HearsBroadcast(x, n, item.to, station[x], item.id)]
<1>6. \A x \in R : /\ SoundResult(x, station[x], does[x])
                   /\ BroadcastLeaves(x, station[x], n, k, does[x].st, does[x].ev)
                   /\ does[x].st.answered = station[x].answered
  <2> SUFFICES ASSUME NEW x \in R
               PROVE  LET r == HearsBroadcast(x, n, item.to, station[x], item.id)
                      IN  /\ SoundResult(x, station[x], r)
                          /\ BroadcastLeaves(x, station[x], n, k, r.st, r.ev)
                          /\ r.st.answered = station[x].answered
    OBVIOUS
  <2>1. PICK r : r = HearsBroadcast(x, n, item.to, station[x], item.id)
    OBVIOUS
  <2>2. SoundResult(x, station[x], HearsBroadcast(x, n, item.to, station[x], item.id))
    BY <1>1, <1>3, <1>4, BroadcastSound
  <2>3. Shaped(station[x])
    BY <1>1, <1>3 DEF Sound
  <2>4. BroadcastLeaves(x, station[x], n, k, r.st, r.ev)
    BY <1>1, <1>3, <1>4, <2>1, <2>3, BroadcastFields
  <2>5. r.st.answered = station[x].answered
    BY <1>3, <1>4, <2>1, <2>3, BroadcastAnswers
  <2> QED
    BY <2>1, <2>2, <2>4, <2>5
<1>7. Lossless' => Lossless /\ setting.reach[n] \subseteq R
  BY <1>1, <1>2, AstrayCounted DEF Truthful
<1>8. Transmit(n, after, <<>>, R, does) /\ <<>> \in Seq(Event)
  BY <1>2
<1> HIDE DEF does
<1>9. Effect(n, after, R, does)
  BY <1>1, <1>3, <1>6, <1>8, FrameEffect
<1>10. /\ station'[n] = after /\ \A x \in R : station'[x] = does[x].st
       /\ \A x \in Stations : x # n /\ x \notin R => station'[x] = station[x]
       /\ DOMAIN had \subseteq DOMAIN had'
       /\ \A x \in Stations : \A m \in Posts : Holds(station'[x], m) => <<x, m>> \in DOMAIN had'
       /\ \A x \in R : \A i \in DOMAIN does[x].ev :
            \E j \in DOMAIN journal' : journal'[j] = does[x].ev[i]
  BY <1>9 DEF Effect, Spread
<1>11. \A x \in Stations : /\ station'[x].timers = station[x].timers
                           /\ station'[x].answered = station[x].answered
  BY <1>5, <1>6, <1>10 DEF BroadcastLeaves
<1>12. Sourced'
  BY <1>1, <1>10, <1>11 DEF Sourced
<1>13. ASSUME NEW m, Alone(m)' PROVE Course(m)'
  <2>1. Alone(m) /\ Course(m) /\ setting.reach[n] \subseteq R /\ Unthrottled'
    <3>1. Alone(m)
      BY <1>2, <1>7, <1>9, <1>13, AloneBefore DEF Effect
    <3>2. Lossless' /\ Unthrottled'
      BY <1>13 DEF Alone
    <3> QED
      BY <1>7, <3>1, <3>2 DEF Carried
  <2>2. k = m
    BY <1>4, <2>1 DEF Alone
  <2>3. Kept(m)'
    <3>1. \A x \in Stations : m \in Ids(station[x].buffer) => m \in Ids(station'[x].buffer)
      BY <1>5, <1>6, <1>10, <2>2 DEF BroadcastLeaves
    <3> QED
      BY <1>9, <2>1, <3>1, KeptStep DEF Effect, Course
  <2>4. ASSUME NEW r \in Stations, ~IsGateway(r), r # n PROVE <<r, m>> \in DOMAIN had'
    <3>1. r \in R
      BY <2>1, <2>4 DEF Alone
    <3>2. BroadcastLeaves(r, station[r], n, m, does[r].st, does[r].ev)
      BY <1>6, <2>2, <3>1
    <3>3. CASE m \in Ids(station[r].buffer)
      BY <1>1, <1>10, <3>3 DEF Truthful, Held
    <3>4. CASE m \in Ids(does[r].st.buffer)
      BY <1>4, <1>10, <2>2, <3>1, <3>4, HoldsIds
    <3>5. ~\E i \in DOMAIN does[r].ev : does[r].ev[i].type = "channel_drop_originator_throttle"
      <4> SUFFICES ASSUME NEW i \in DOMAIN does[r].ev,
                          does[r].ev[i].type = "channel_drop_originator_throttle"
                   PROVE  FALSE
        OBVIOUS
      <4>1. PICK j \in DOMAIN journal' : journal'[j] = does[r].ev[i]
        BY <1>10, <3>1
      <4> QED
        BY <2>1, <4>1 DEF Unthrottled, Tells
    <3> QED
      BY <2>4, <3>2, <3>3, <3>4, <3>5 DEF BroadcastLeaves
  <2>5. \A x \in Stations : IsGateway(x) \/ <<x, m>> \in DOMAIN had'
    BY <1>4, <1>10, <2>2, <2>4
  <2> QED
    BY <1>2, <1>11, <2>1, <2>3, <2>5, CourseDone DEF Course
<1> QED
  BY <1>12, <1>13

(* A pull: its target holds the message and answers, or has answered.      *)
LEMMA CarriedPull ==
  ASSUME Carried, NEW n \in Stations, NEW timer \in station[n].timers, Pull(n, timer)
  PROVE  Sourced' /\ \A m : Alone(m)' => Course(m)'
<1> DEFINE st == station[n]
           k == timer.id
           to == timer.to
           quiet == [Quiet(n, timer) EXCEPT !.pending = Forget(@, timer.id)]
           asked == Asked(n, timer)
           suppressed == Told(n, "channel_pull_suppressed", k, "promiscuous_receive")
           sent == Told(n, "channel_pull_sent", k, to)
           ev == IF k \in DOMAIN st.pending THEN <<suppressed>> ELSE <<>>
           Drops(R) == to \in R /\ JustAnswered(station[to], n, to)
           Counts(R) == [receptions |-> Astray(n, R),
                         unheard |-> astray.unheard + (IF to \in R THEN 0 ELSE 1),
                         dropped |-> astray.dropped \cup
                                       (IF Drops(R) THEN {<<n, to, k, clock>>} ELSE {})]
<1>1. /\ setting \in Settings /\ clock \in Nat /\ \A x \in Stations : Sound(x, station[x])
      /\ Truthful /\ Sourced /\ Tallied(astray) /\ Shaped(st)
  BY DEF Carried, Truthful, Disciplined, Sound
<1>2. setting' = setting
  BY DEF Pull
<1>3. Heard(n, to) /\ to \in Stations /\ to # n /\ <<to, k>> \in DOMAIN had
  <2>1. Heard(n, to) /\ <<to, k>> \in DOMAIN had
    BY <1>1 DEF Sound, Sourced
  <2> QED
    BY <1>1, <2>1, SettingTypes DEF Heard
<1>4. \/ /\ k \notin DOMAIN st.pending \/ Holds(st, k)
         /\ Transmit(n, quiet, ev, {}, <<>>) /\ astray' = astray
      \/ /\ k \in DOMAIN st.pending
         /\ \E R \in Decoders(n) :
              /\ Transmit(n, asked, <<sent>>, R,
                          [x \in R |-> HearsPull(x, n, to, station[x], k)])
              /\ astray' = Counts(R)
  BY DEF Pull
<1>5. k \in DOMAIN st.pending => k \in Posts /\ ~IsGateway(n) /\ k \notin Ids(st.buffer)
  BY <1>1 DEF Sound, MayPull, Posted, Truthful, Plain
<1>6. /\ quiet.buffer = st.buffer /\ quiet.queue = st.queue /\ quiet.recent = st.recent
      /\ quiet.answered = st.answered /\ quiet.timers \subseteq st.timers
      /\ DOMAIN quiet.pending = DOMAIN st.pending \ {k}
      /\ asked.buffer = st.buffer /\ asked.queue = st.queue /\ asked.answered = st.answered
      /\ asked.timers \subseteq st.timers
  <2>1. quiet.recent = st.recent /\ Settles(st, quiet) /\ Asks(st, timer, asked)
    BY <1>1, SettledSound
  <2>2. /\ quiet.answered = station[n].answered /\ asked.answered = station[n].answered
        /\ quiet.timers \subseteq station[n].timers /\ asked.timers \subseteq station[n].timers
        /\ DOMAIN quiet.pending = DOMAIN station[n].pending \ {timer.id}
    BY <1>1, SettledKeeps
  <2> QED
    BY <2>1, <2>2 DEF Settles, Asks
<1> HIDE DEF quiet, asked, suppressed, sent
<1>7. CASE /\ k \notin DOMAIN st.pending \/ Holds(st, k)
           /\ Transmit(n, quiet, ev, {}, <<>>) /\ astray' = astray
  <2>1. k \notin DOMAIN st.pending
    BY <1>5, <1>7, HoldsIds
  <2>2. ev \in Seq(Event)
    BY <2>1
  <2>3. PICK R, does : R = {} /\ does = <<>>
    OBVIOUS
  <2> HIDE DEF ev
  <2>4. /\ Transmit(n, quiet, ev, R, does) /\ R \in SUBSET Stations /\ n \notin R
        /\ \A x \in R : SoundResult(x, station[x], does[x])
    BY <1>7, <2>3
  <2>5. Effect(n, quiet, R, does)
    BY <1>1, <2>2, <2>4, FrameEffect
  <2>6. /\ station'[n] = quiet /\ \A x \in Stations : x # n => station'[x] = station[x]
        /\ DOMAIN had \subseteq DOMAIN had'
    BY <2>3, <2>5 DEF Effect, Spread
  <2>7. Sourced'
    BY <1>1, <1>6, <2>6 DEF Sourced
  <2>8. ASSUME NEW m, Alone(m)' PROVE Course(m)'
    <3>1. Course(m)
      <4>1. Lossless' => Lossless
        BY <1>7 DEF Lossless
      <4> QED
        BY <1>2, <2>5, <2>8, <4>1, AloneBefore DEF Effect, Carried
    <3>2. Kept(m)'
      BY <1>6, <2>5, <2>6, <3>1, KeptStep DEF Effect, Course
    <3>3. \A x \in Stations : Steady(station[x], station'[x])
      BY <1>6, <2>1, <2>6 DEF Steady, Telling
    <3> QED
      BY <1>2, <2>6, <3>1, <3>2, <3>3, CourseSteady
  <2> QED
    BY <2>7, <2>8
<1>8. CASE /\ k \in DOMAIN st.pending
           /\ \E R \in Decoders(n) :
                /\ Transmit(n, asked, <<sent>>, R, [x \in R |-> HearsPull(x, n, to, station[x], k)])
                /\ astray' = Counts(R)
  <2>1. PICK R \in Decoders(n) :
          /\ Transmit(n, asked, <<sent>>, R, [x \in R |-> HearsPull(x, n, to, station[x], k)])
          /\ astray' = Counts(R)
    BY <1>8
  <2>2. R \in SUBSET Stations /\ n \notin R
    BY <1>1, DecodersTypes
  <2>3. k \in Posts /\ ~IsGateway(n) /\ k \notin Ids(st.buffer)
    BY <1>5, <1>8
  <2> DEFINE does == [x \in R |-> HearsPull(x, n, to, station[x], k)]
  <2>4. \A x \in R : /\ SoundResult(x, station[x], does[x])
                     /\ PullLeaves(x, station[x], n, to, k, does[x].st, does[x].ev)
                     /\ PullKeeps(x, station[x], n, to, k, does[x].st)
    <3> SUFFICES ASSUME NEW x \in R
                 PROVE  LET r == HearsPull(x, n, to, station[x], k)
                        IN  /\ SoundResult(x, station[x], r)
                            /\ PullLeaves(x, station[x], n, to, k, r.st, r.ev)
                            /\ PullKeeps(x, station[x], n, to, k, r.st)
      OBVIOUS
    <3>1. PICK r : r = HearsPull(x, n, to, station[x], k)
      OBVIOUS
    <3>2. SoundResult(x, station[x], HearsPull(x, n, to, station[x], k))
      BY <1>1, <1>3, <2>2, <2>3, PullSound
    <3>3. Shaped(station[x])
      BY <1>1, <2>2 DEF Sound
    <3>4. PullLeaves(x, station[x], n, to, k, r.st, r.ev)
      BY <1>1, <1>3, <2>2, <2>3, <3>1, <3>3, PullFields
    <3>5. PullKeeps(x, station[x], n, to, k, r.st)
      BY <1>3, <2>2, <2>3, <3>1, <3>3, PullAnswered
    <3> QED
      BY <3>1, <3>2, <3>4, <3>5
  <2>5. Lossless' => Lossless /\ setting.reach[n] \subseteq R
    <3>1. Astray(n, R) = 0 => astray.receptions = 0 /\ setting.reach[n] \subseteq R
      BY <1>1, AstrayTypes DEF Tallied
    <3>2. Counts(R).receptions = Astray(n, R)
      OBVIOUS
    <3> HIDE DEF Counts
    <3> QED
      BY <2>1, <3>1, <3>2 DEF Lossless
  <2>6. <<sent>> \in Seq(Event)
    <3>1. sent \in Event
      BY <1>1, <1>3, <2>3 DEF sent, Told, Event, Sources
    <3> QED
      BY <3>1
  <2>7. Transmit(n, asked, <<sent>>, R, does)
    BY <2>1
  <2> HIDE DEF does
  <2>8. Effect(n, asked, R, does)
    BY <1>1, <2>2, <2>4, <2>6, <2>7, FrameEffect
  <2>9. /\ station'[n] = asked /\ \A x \in R : station'[x] = does[x].st
        /\ \A x \in Stations : x # n /\ x \notin R => station'[x] = station[x]
        /\ DOMAIN had \subseteq DOMAIN had'
    BY <2>8 DEF Effect, Spread
  <2>10. \A x \in Stations :
           /\ station'[x].timers \subseteq station[x].timers
           /\ Ids(station'[x].buffer) = Ids(station[x].buffer)
           /\ Ids(station[x].queue) \subseteq Ids(station'[x].queue)
    BY <1>6, <2>4, <2>9 DEF PullLeaves
  <2>11. Sourced'
    BY <1>1, <2>9, <2>10 DEF Sourced
  <2>12. ASSUME NEW m, Alone(m)' PROVE Course(m)'
    <3>1. Alone(m) /\ Course(m) /\ setting.reach[n] \subseteq R
      <4>1. Alone(m)
        BY <1>2, <2>5, <2>8, <2>12, AloneBefore DEF Effect
      <4>2. Lossless'
        BY <2>12 DEF Alone
      <4> QED
        BY <2>5, <4>1, <4>2 DEF Carried
    <3>2. k = m /\ to \in R
      BY <1>3, <2>3, <3>1 DEF Alone
    <3>3. Kept(m)'
      BY <2>8, <2>10, <3>1, KeptStep DEF Effect, Course
    <3>4. m \in Ids(station'[to].queue)
      <4>1. m \in Ids(station[to].buffer)
        BY <1>3, <3>1, <3>2 DEF Course, Kept
      <4>2. <<n, to>> \in DOMAIN station[to].answered \/ m \in Ids(station'[to].queue)
        BY <2>4, <2>9, <3>2, <4>1 DEF PullKeeps
      <4>3. <<n, m>> \notin DOMAIN had
        BY <2>3, <3>1, <3>2 DEF Course, Kept
      <4>4. <<n, to>> \in DOMAIN station[to].answered => m \in Ids(station[to].queue)
        BY <1>3, <3>1, <4>3 DEF Course, Replied
      <4> QED
        BY <1>3, <2>10, <4>2, <4>4
    <3>5. Replied(m)'
      <4> SUFFICES ASSUME NEW h \in Stations, NEW r \in Stations, <<r, h>> \in DOMAIN station'[h].answered
                   PROVE  ~IsGateway(r) /\ (<<r, m>> \in DOMAIN had' \/ m \in Ids(station'[h].queue))
        BY <1>2 DEF Replied, IsGateway, Ids
      <4>1. CASE <<r, h>> \in DOMAIN station[h].answered
        BY <2>9, <2>10, <3>1, <4>1 DEF Course, Replied
      <4>2. CASE <<r, h>> \notin DOMAIN station[h].answered
        <5>1. h \in R
          BY <1>6, <2>9, <4>2
        <5>2. DOMAIN station'[h].answered \subseteq DOMAIN station[h].answered \cup {<<n, to>>}
          BY <2>4, <2>9, <5>1 DEF PullKeeps
        <5>3. r = n /\ h = to
          BY <4>2, <5>2
        <5> QED
          BY <2>3, <3>4, <5>3
      <4> QED
        BY <4>1, <4>2
    <3>6. Owed(m)'
      BY <1>3, <3>4 DEF Owed, Ids
    <3> QED
      BY <3>3, <3>5, <3>6, CourseOwed
  <2> QED
    BY <2>11, <2>12
<1> QED
  BY <1>4, <1>7, <1>8

LEMMA CarriedInit == GossipInit => Carried
<1> SUFFICES ASSUME GossipInit PROVE Carried
  OBVIOUS
<1>1. station = [n \in Stations |-> Fresh] /\ had = <<>>
  BY DEF GossipInit
<1>2. /\ Fresh.buffer = <<>> /\ Fresh.answered = <<>> /\ Fresh.recent = <<>> /\ Fresh.timers = {}
  BY DEF Fresh
<1>3. Sourced
  BY <1>1, <1>2 DEF Sourced
<1>4. ~SomeTold
  BY <1>1, <1>2 DEF SomeTold, Telling, Rows
<1>5. \A m : Course(m)
  BY <1>1, <1>2, <1>4 DEF Course, Kept, Replied, Recalled, Promised
<1> QED
  BY <1>3, <1>5, TruthInit DEF Carried

LEMMA CarriedStays ==
  ASSUME Carried, UNCHANGED <<setting, station, journal, had, astray>>
  PROVE  Sourced' /\ \A m : Alone(m)' => Course(m)'
<1>1. Sourced'
  BY DEF Carried, Sourced
<1>2. \A m : Alone(m)' => Alone(m)
  BY DEF Alone, Posts, Lossless, Unthrottled, Tells
<1>3. \A m : Course(m) => Course(m)'
  BY DEF Course, Kept, Replied, Recalled, Promised, Reached, Owed, SomeTold, Telling, Rows, Ids, IsGateway
<1> QED
  BY <1>1, <1>2, <1>3 DEF Carried

LEMMA CarriedStep ==
  ASSUME MaxPulls # 0
  PROVE  Carried /\ [GossipNext]_gossipVars => Carried'
<1> SUFFICES ASSUME Carried, [GossipNext]_gossipVars PROVE Carried'
  OBVIOUS
<1>1. Truthful'
  BY TruthfulStep DEF Carried
<1>2. CASE \E m \in Posts : Post(m)
  BY <1>1, <1>2, CarriedPost DEF Carried
<1>3. CASE \E n \in Stations : Beacon(n)
  BY <1>1, <1>3, CarriedBeacon DEF Carried
<1>4. CASE \E n \in Stations : Broadcast(n)
  BY <1>1, <1>4, CarriedBroadcast DEF Carried
<1>5. CASE \E n \in Stations : \E timer \in station[n].timers : Pull(n, timer)
  BY <1>1, <1>5, CarriedPull DEF Carried
<1>6. CASE Passes \/ UNCHANGED gossipVars
  <2>1. UNCHANGED <<setting, station, journal, had, astray>>
    BY <1>6 DEF Passes, gossipVars
  <2> QED
    BY <1>1, <2>1, CarriedStays DEF Carried
<1> QED
  BY <1>2, <1>3, <1>4, <1>5, <1>6 DEF GossipNext

(* One advertisement is enough.  Where all hear all and no frame is lost   *)
(* or thrown away, a lone message that was advertised once has reached all *)
(* that take part by the time that no pull waits and no queue: for every   *)
(* number of stations, every course of beacons, delays, cancellations and  *)
(* answers that were taken for repeated, as long as a beacon may start a   *)
(* pull at all.                                                            *)
THEOREM OneAdSuffices ==
  ASSUME MaxPulls # 0
  PROVE  GossipSpec => []OneAdIsEnough
<1>1. GossipInit => Carried
  BY CarriedInit
<1>2. Carried /\ [GossipNext]_gossipVars => Carried'
  BY CarriedStep
<1>3. Carried => OneAdIsEnough
  <2> SUFFICES ASSUME Carried, Lossless, Unthrottled,
                      \A n \in Stations : setting.reach[n] = Stations \ {n},
                      \A n \in Stations : station[n].timers = {} /\ station[n].queue = <<>>,
                      \E n \in Stations : \E i \in DOMAIN station[n].buffer : station[n].buffer[i].ads > 0,
                      NEW m \in Posts, Posts = {m}, NEW r \in Stations, ~IsGateway(r)
               PROVE  <<r, m>> \in DOMAIN had
    BY DEF OneAdIsEnough
  <2>1. Alone(m) /\ SomeTold
    BY DEF Alone, SomeTold, Telling, Rows
  <2>2. Reached(r, m) \/ m \in DOMAIN station[r].pending
    BY <2>1 DEF Carried, Course, Promised
  <2>3. ~Owed(m)
    BY DEF Owed, Ids
  <2>4. m \notin DOMAIN station[r].pending
    BY DEF Carried, Truthful, Disciplined, Sound, MayPull
  <2> QED
    BY <2>2, <2>3, <2>4 DEF Reached
<1> QED
  BY <1>1, <1>2, <1>3, PTL DEF GossipSpec
=============================================================================
