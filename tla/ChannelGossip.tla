---------------------------- MODULE ChannelGossip ----------------------------
(***************************************************************************)
(* How dv_dual_sf spreads channel messages: a holder advertises the        *)
(* messages it took last in its beacons, a neighbour that misses one pulls *)
(* it after a random delay, and the holder answers with a broadcast that   *)
(* everyone in range keeps.  Pulls that others make superfluous are        *)
(* cancelled, and a full buffer gives up what all neighbours seem to have. *)
(*                                                                         *)
(* A frame is sent and handled by those that decode it in one step; who    *)
(* does not decode it (a collision, a busy or retuned radio) is chosen.    *)
(* Routes between neighbours are direct, a queue is served in any order    *)
(* with respect to the clock, and only gossip waits in it.                 *)
(***************************************************************************)
EXTENDS Integers, Sequences, FiniteSets, SequencesExt, FiniteSetsExt, Functions

CONSTANTS
  Stations,        \* the nodes, by number
  Settings,        \* what a run may be given: author, the messages and who posts
                   \* them; posted, when; beats, who beacons at which time; reach,
                   \* who decodes whom; gateways; layer; cap, cap_channel_buffer;
                   \* quota, channel_origin_max_per_window; losses, a bound
  Horizon,         \* bound: the last time of a run
  MaxDigest,       \* channel_dirty_max_per_bcn
  MaxPulls,        \* cap_channel_pulls_per_bcn_cycle
  MaxAds,          \* channel_dirty_max_advertisements
  MaxDelay,        \* channel_pull_jitter_ms
  PullWindow,      \* channel_pull_window_ms
  AnswerWindow,    \* q_respond_ttl_ms
  QuotaWindow      \* channel_origin_window_ms

(* Stations of different layers decode each other only where one of them   *)
(* is a gateway.                                                           *)
ASSUME GossipAssumption ==
  /\ IsFiniteSet(Stations) /\ Stations = 1 .. Cardinality(Stations)
  /\ {Horizon, MaxDigest, MaxPulls, MaxAds, MaxDelay} \subseteq Nat
  /\ {PullWindow, AnswerWindow, QuotaWindow} \subseteq Nat
  /\ \A s \in Settings :
       /\ s.author \in [DOMAIN s.author -> Stations]
       /\ s.posted \in [DOMAIN s.author -> Nat]
       /\ s.beats \in [0 .. Horizon -> SUBSET Stations]
       /\ s.reach \in [Stations -> SUBSET Stations]
       /\ s.gateways \subseteq Stations
       /\ s.cap \in Nat \ {0} /\ s.quota \in Nat /\ s.losses \in Nat
       /\ \A n \in Stations : \A r \in s.reach[n] :
            n # r /\ (s.layer[n] = s.layer[r] \/ n \in s.gateways \/ r \in s.gateways)

VARIABLES
  setting,  \* the settings of this run
  clock,
  station,  \* per node: its buffer, pulls, answers, queue, neighbours and quotas
  due,      \* posts and beacons that this moment still owes
  journal,  \* the events of the run
  had,      \* history: when a node first held a message
  astray    \* history: receptions lost, pulls that missed their target, and pulls
            \* that the target decoded and dropped, as <<requester, target, id, clock>>

gossipVars == <<setting, clock, station, due, journal, had, astray>>

Posts == DOMAIN setting.author
Author(m) == setting.author[m]
IsGateway(n) == n \in setting.gateways

Entry(m, seen) == [id |-> m, dirty |-> TRUE, ads |-> 0, seenBy |-> seen]
Fresh == [buffer |-> <<>>, pending |-> <<>>, timers |-> {}, recent |-> <<>>,
          answered |-> <<>>, queue |-> <<>>, rt |-> {}, admitted |-> <<>>]

(* A handler of node n turns its state into [st, ev]: the state after it,  *)
(* and the events it emits.  src is the event's source or its cause.       *)
Told(n, what, m, src) == [t |-> clock, type |-> what, node |-> n, id |-> m, src |-> src]
Result(st, ev) == [st |-> st, ev |-> ev]

Holds(st, m)    == \E i \in DOMAIN st.buffer : st.buffer[i].id = m
Neighbour(st, n) == [st EXCEPT !.rt = @ \cup {n}]
Forget(f, m)    == Restrict(f, DOMAIN f \ {m})
With(f, S, v)   == [x \in S \cup DOMAIN f |-> IF x \in S THEN v ELSE f[x]]
(* channel_buffer_mark_seen_by *)
Marked(buffer, ids, n) ==
  [i \in DOMAIN buffer |-> IF buffer[i].id \in ids
                           THEN [buffer[i] EXCEPT !.seenBy = @ \cup {n}] ELSE buffer[i]]
MarkSeen(st, ids, n) == [st EXCEPT !.buffer = Marked(@, ids, n)]

(* channel_buffer_pick_eviction: the oldest that every neighbour has seen; *)
(* without such an entry, or without a neighbour, the oldest.              *)
Seen(st)    == {i \in DOMAIN st.buffer : st.rt # {} /\ st.rt \subseteq st.buffer[i].seenBy}
Victim(st)  == IF Seen(st) = {} THEN 1 ELSE Min(Seen(st))
(* channel_buffer_add *)
Added(n, st, e) ==
  IF Len(st.buffer) < setting.cap
  THEN Result([st EXCEPT !.buffer = Append(@, e)], <<>>)
  ELSE Result([st EXCEPT !.buffer = Append(RemoveAt(@, Victim(st)), e)],
              <<Told(n, "channel_msg_evicted", st.buffer[Victim(st)].id, Seen(st) # {})>>)
-----------------------------------------------------------------------------
(* build_channel_digest_ext: the dirty entries that were taken last, each  *)
(* of which retires after MaxAds advertisements.                           *)
Dirty(st)  == {i \in DOMAIN st.buffer : st.buffer[i].dirty}
Picked(st) == {i \in Dirty(st) : Cardinality({j \in Dirty(st) : j > i}) < MaxDigest}
Digest(st) ==
  LET Back(k) == Len(st.buffer) + 1 - k
  IN  FlattenSeq([k \in DOMAIN st.buffer |->
        IF Back(k) \in Picked(st) THEN <<st.buffer[Back(k)].id>> ELSE <<>>])
Retold(e)      == [e EXCEPT !.ads = @ + 1, !.dirty = e.ads + 1 < MaxAds]
Advertised(st) ==
  [st EXCEPT !.buffer = [i \in DOMAIN st.buffer |->
     IF i \in Picked(st) THEN Retold(st.buffer[i]) ELSE st.buffer[i]]]

(* Principle 11: gateways take no part in gossip. *)
TakesPartAnyway(n) == TRUE
TakesPart(n)       == ~IsGateway(n)

(* process_channel_digest: what the node has, the sender has seen; what it *)
(* misses and has not just asked for it will pull, delay[m] from now.      *)
JustPulled(st, m) == m \in DOMAIN st.recent /\ clock - st.recent[m] < PullWindow
HearsDigest(n, from, st, ids, delay) ==
  LET missed == {k \in DOMAIN ids : ~Holds(st, ids[k]) /\ ~JustPulled(st, ids[k])}
      wanted == {ids[k] : k \in {i \in missed : Cardinality({j \in missed : j < i}) < MaxPulls}}
      known  == {k \in DOMAIN ids : \E i \in DOMAIN st.buffer :
                   st.buffer[i].id = ids[k] /\ from \notin st.buffer[i].seenBy}
      marked == MarkSeen(Neighbour(st, from), ToSet(ids), from)
  IN  IF ~TakesPart(n) THEN Result(Neighbour(st, from), <<>>)
      ELSE Result([marked EXCEPT
                     !.pending = With(@, wanted, from),
                     !.timers = @ \cup {[id |-> m, to |-> from, at |-> clock + delay[m]] : m \in wanted}],
                  FlattenSeq([k \in DOMAIN ids |->
                    IF k \in known THEN <<Told(n, "channel_msg_seen_by_neighbour", ids[k], from)>>
                    ELSE <<>>]))

(* on_recv Q.  The query is the same as an earlier one if requester and    *)
(* target are: the identifiers it names are not compared.                  *)
JustAnswered(st, from, to) ==
  <<from, to>> \in DOMAIN st.answered /\ clock - st.answered[<<from, to>>] < AnswerWindow
Quashed(st, m) == Forget(st.pending, m)
AnyBroadcast(m)  == Posts
SameBroadcast(m) == {m}
InFlight(st, m) == \E i \in DOMAIN st.queue : st.queue[i].id \in SameBroadcast(m)

Addressed(n, to)      == n = to

HearsPull(n, from, to, st, m) ==
  LET asked == [Neighbour(st, from) EXCEPT !.answered = With(@, {<<from, to>>}, clock),
                                           !.pending = Quashed(st, m)]
      queued == IF InFlight(st, m) THEN asked
                ELSE [asked EXCEPT !.queue = Append(@, [id |-> m, to |-> from])]
      quash == IF m \in DOMAIN st.pending
               THEN <<Told(n, "channel_pull_suppressed", m, "peer_q")>> ELSE <<>>
      taken == Told(n, "channel_pull_received", m, from)
  IN  CASE JustAnswered(st, from, to) -> Result(Neighbour(st, from), <<>>)
        [] ~JustAnswered(st, from, to) /\ ~Addressed(n, to) -> Result(asked, quash)
        [] ~JustAnswered(st, from, to) /\ Addressed(n, to) /\ Holds(st, m) ->
             Result(MarkSeen(queued, {m}, from),
                    quash \o <<taken, Told(n, "channel_msg_pulled", m, from)>>)
        [] OTHER -> Result(asked, Append(quash, taken))

(* channel_origin_admit: so many messages of one author per window, not    *)
(* counting those that come again; one's own are always admitted.          *)
Counted(st, m) == {x \in DOMAIN st.admitted : /\ Author(x) = Author(m)
                                              /\ clock - st.admitted[x] <= QuotaWindow}
Admits(n, st, m) ==
  Author(m) = n \/ m \in Counted(st, m) \/ Cardinality(Counted(st, m)) < setting.quota

(* The broadcast of a message: its RTS names it, and who has it does not   *)
(* listen to the DATA.                                                     *)
ClearsPull(st, m)  == Forget(st.pending, m)
AddresseeOnly(n, to) == n = to
Promiscuous(n, to)   == TRUE
HearsBroadcast(n, from, to, st, m) ==
  LET heard  == Neighbour(st, from)
      label  == IF n = to THEN "pull_target" ELSE "overheard"
      counted == [heard EXCEPT !.admitted = IF Author(m) = n THEN @ ELSE With(@, {m}, clock)]
      kept   == Added(n, [counted EXCEPT !.pending = ClearsPull(st, m)], Entry(m, {from}))
  IN  CASE Holds(st, m) \/ ~Promiscuous(n, to) -> Result(heard, <<>>)
        [] ~Holds(st, m) /\ Promiscuous(n, to) /\ ~Admits(n, st, m) ->
             Result(heard, <<Told(n, "channel_drop_originator_throttle", m, from)>>)
        [] ~Holds(st, m) /\ Promiscuous(n, to) /\ Admits(n, st, m) /\ ~TakesPart(n) -> Result(counted, <<>>)
        [] OTHER ->
             Result(kept.st,
                    kept.ev \o <<Told(n, "channel_msg_received", m, label)>>
                    \o (IF n = to THEN <<>> ELSE <<Told(n, "channel_msg_overheard", m, from)>>)
                    \o (IF m \in DOMAIN st.pending
                        THEN <<Told(n, "channel_pull_suppressed", m, from)>> ELSE <<>>))
-----------------------------------------------------------------------------
(* The moment of a run owes the posts and beacons that are due then.       *)
Due(t) ==
  {<<"post", m>> : m \in {x \in Posts : setting.posted[x] = t}}
    \cup {<<"beacon", n>> : n \in setting.beats[t]}

GossipInit ==
  /\ setting \in Settings
  /\ clock = 0 /\ due = Due(0)
  /\ station = [n \in Stations |-> Fresh]
  /\ journal = <<>> /\ had = <<>>
  /\ astray = [receptions |-> 0, unheard |-> 0, dropped |-> {}]

(* Node n has sent a frame, of which node r in R makes does[r].            *)
Transmit(n, after, ev, R, does) ==
  LET new == [x \in Stations |-> CASE x = n -> after
                                   [] x \in R -> does[x].st
                                   [] OTHER -> station[x]]
  IN  /\ station' = new
      /\ journal' = journal \o ev \o FlattenSeq([x \in Stations |-> IF x \in R THEN does[x].ev ELSE <<>>])
      /\ had' = With(had, {x \in (Stations \X Posts) \ DOMAIN had : Holds(new[x[1]], x[2])}, clock)

(* Those of its neighbours that decode a frame of n. *)
Decoders(n) == {R \in SUBSET setting.reach[n] :
                  astray.receptions + Cardinality(setting.reach[n] \ R) <= setting.losses}
Astray(n, R) == astray.receptions + Cardinality(setting.reach[n] \ R)

(* send_channel *)
Post(m) ==
  LET n     == Author(m)
      added == Added(n, station[n], Entry(m, {}))
  IN  /\ <<"post", m>> \in due /\ due' = due \ {<<"post", m>>}
      /\ Transmit(n, added.st, Append(added.ev, Told(n, "channel_msg_received", m, "self_originate")),
                  {}, <<>>)
      /\ UNCHANGED <<setting, clock, astray>>

Beacon(n) ==
  LET ids == Digest(station[n]) IN
  /\ <<"beacon", n>> \in due /\ due' = due \ {<<"beacon", n>>}
  /\ \E R \in Decoders(n) :
       /\ \E delay \in [R -> [ToSet(ids) -> 0 .. MaxDelay]] :
            Transmit(n, Advertised(station[n]), <<>>, R,
                     [r \in R |-> HearsDigest(r, n, station[r], ids, delay[r])])
       /\ astray' = [astray EXCEPT !.receptions = Astray(n, R)]
  /\ UNCHANGED <<setting, clock>>

(* The timer of a pull fires.  It sends what is still pending, to the node *)
(* it was armed for, though a later beacon may have replaced the target.   *)
Quiet(n, timer) == [station[n] EXCEPT !.timers = @ \ {timer}]
AskedAgain(n, timer) == [Quiet(n, timer) EXCEPT !.recent = With(@, {timer.id}, clock)]
Asked(n, timer) ==
  [Quiet(n, timer) EXCEPT !.recent = With(@, {timer.id}, clock),
                          !.pending = Forget(@, timer.id)]
Pull(n, timer) ==
  LET m == timer.id
      to == timer.to
      meant == m \in DOMAIN station[n].pending
      Drops(R) == to \in R /\ JustAnswered(station[to], n, to)
      Suppressed == Told(n, "channel_pull_suppressed", m, "promiscuous_receive")
  IN  /\ timer \in station[n].timers /\ timer.at = clock
      /\ IF ~meant \/ Holds(station[n], m)
         THEN /\ Transmit(n, [Quiet(n, timer) EXCEPT !.pending = Forget(@, m)],
                          IF meant THEN <<Suppressed>> ELSE <<>>, {}, <<>>)
              /\ UNCHANGED astray
         ELSE \E R \in Decoders(n) :
                /\ Transmit(n, Asked(n, timer), <<Told(n, "channel_pull_sent", m, to)>>, R,
                            [r \in R |-> HearsPull(r, n, to, station[r], m)])
                /\ astray' = [receptions |-> Astray(n, R),
                              unheard |-> astray.unheard + (IF to \in R THEN 0 ELSE 1),
                              dropped |-> astray.dropped \cup
                                            (IF Drops(R) THEN {<<n, to, m, clock>>} ELSE {})]
      /\ UNCHANGED <<setting, clock, due>>

(* The head of the queue goes out: RTS and DATA. *)
Broadcast(n) ==
  /\ station[n].queue # <<>>
  /\ LET item == Head(station[n].queue) IN
     \E R \in Decoders(n) :
       /\ Transmit(n, [station[n] EXCEPT !.queue = Tail(@)], <<>>, R,
                   [r \in R |-> HearsBroadcast(r, n, item.to, station[r], item.id)])
       /\ astray' = [astray EXCEPT !.receptions = Astray(n, R)]
  /\ UNCHANGED <<setting, clock, due>>

Passes ==
  /\ due = {} /\ \A n \in Stations : \A timer \in station[n].timers : timer.at > clock
  /\ clock < Horizon /\ clock' = clock + 1 /\ due' = Due(clock')
  /\ UNCHANGED <<setting, station, journal, had, astray>>

GossipNext ==
  \/ \E m \in Posts : Post(m)
  \/ \E n \in Stations : \/ Beacon(n) \/ Broadcast(n)
                         \/ \E timer \in station[n].timers : Pull(n, timer)
  \/ Passes

GossipSpec == GossipInit /\ [][GossipNext]_gossipVars
-----------------------------------------------------------------------------
Tells(what) == {i \in DOMAIN journal : journal[i].type = what}
Lossless == astray.receptions = 0
Unthrottled == Tells("channel_drop_originator_throttle") = {}
InQueue(n, m) == \E i \in DOMAIN station[n].queue : station[n].queue[i].id = m

(* However beacons, delays, cancellations and evictions fall, a node does  *)
(* not pull a message again before channel_pull_window_ms has passed.      *)
PullsAreSpaced ==
  \A i, j \in Tells("channel_pull_sent") :
    i < j /\ journal[i].node = journal[j].node /\ journal[i].id = journal[j].id =>
      journal[j].t - journal[i].t >= PullWindow

(* A pull that is pending is for a message the node does not have, and a   *)
(* timer will still see to it, whatever earlier timers and cancellations   *)
(* for the same message did.  So the branch for a message that came in     *)
(* before the timer is never taken.                                        *)
PendingPullsAreMeant ==
  \A n \in Stations : \A m \in DOMAIN station[n].pending :
    /\ ~Holds(station[n], m)
    /\ \E timer \in station[n].timers : timer.id = m

(* Principle 11: gossip does not cross layers, though a gateway hears and  *)
(* is heard on both; only what a gateway posts itself gets to both.        *)
ChannelsStayLocal ==
  \A x \in DOMAIN had :
    setting.layer[x[1]] = setting.layer[Author(x[2])] \/ IsGateway(Author(x[2]))

(* Eviction trusts seen_by: where no frame was lost and nobody throttled,  *)
(* a neighbour marked there has had the message or a broadcast of it is    *)
(* still in the queue.                                                     *)
SeenByIsTrue ==
  Lossless /\ Unthrottled =>
    \A n \in Stations : \A i \in DOMAIN station[n].buffer :
      LET e == station[n].buffer[i] IN
      \A r \in e.seenBy : <<r, e.id>> \in DOMAIN had \/ InQueue(n, e.id)

(* Where all hear all and no frame is lost, one advertisement of a lone    *)
(* message reaches every node, whoever cancels its pull on account of      *)
(* whose.                                                                  *)
OneAdIsEnough ==
  LET clique == \A n \in Stations : setting.reach[n] = Stations \ {n}
      quiet  == \A n \in Stations : station[n].timers = {} /\ station[n].queue = <<>>
      told   == \E n \in Stations : \E i \in DOMAIN station[n].buffer : station[n].buffer[i].ads > 0
  IN  \A m \in Posts :
        Lossless /\ Unthrottled /\ clique /\ quiet /\ told /\ Posts = {m} =>
          \A n \in Stations : IsGateway(n) \/ <<n, m>> \in DOMAIN had

(* A pull that its target decodes is taken, unless the target has taken a  *)
(* pull of that message from that node before.                             *)
DecodedPullsAreTaken ==
  \A x \in astray.dropped :
    \E i \in Tells("channel_pull_received") :
      journal[i].node = x[2] /\ journal[i].src = x[1] /\ journal[i].id = x[3]

(* What keeps the pulls of a node in check over any history of beacons,    *)
(* delays, cancellations and evictions: both of the above.                 *)
PullsAreDisciplined == PullsAreSpaced /\ PendingPullsAreMeant
=============================================================================
