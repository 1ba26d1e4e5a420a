---------------------------- MODULE GossipReport ----------------------------
(***************************************************************************)
(* Section 23 of tools/analyze.py: what the report on channel gossip makes *)
(* of the event log of a run, as operators over the journal of             *)
(* ChannelGossip, and what its numbers must mean for that run.             *)
(***************************************************************************)
EXTENDS ChannelGossip

CONSTANTS
  BurstWindow,  \* BURST_WINDOW_MS
  SlowestTail   \* SLOWEST_TAIL_MS

(* iter_events: what is left after the warm-up is cut off. *)
AfterWarmup(es, since) == SelectSeq(es, LAMBDA e : e.t >= since)
OfType(es, what) == {i \in DOMAIN es : es[i].type = what}
CountOf(es, what) == Cardinality(OfType(es, what))
TimesOf(es, what) ==
  LET told == SelectSeq(es, LAMBDA e : e.type = what)
  IN  [k \in DOMAIN told |-> told[k].t]

(* origin_t, origin_node: the first event of the message's own node.       *)
PostedIn(es)   == {i \in OfType(es, "channel_msg_received") : es[i].src = "self_originate"}
OriginTimes(es) ==
  [m \in {es[i].id : i \in PostedIn(es)} |-> es[Min({i \in PostedIn(es) : es[i].id = m})].t]

(* receivers: per node the last time the message came to it.               *)
CamePulled(es, m) ==
  {i \in OfType(es, "channel_msg_received") : es[i].id = m /\ es[i].src = "pull_target"}
CameTo(es, m) ==
  {i \in OfType(es, "channel_msg_received") \ PostedIn(es) : es[i].id = m}
Receivers(es, m) ==
  [n \in {es[i].node : i \in CameTo(es, m)} |-> Max({es[i].t : i \in {j \in CameTo(es, m) : es[j].node = n}})]

(* _pct: the value at rank round(p (n - 1)) of the sorted list, where      *)
(* round takes a half to the even neighbour; p is num / 100.               *)
Rank(num, n) ==
  LET twice == 2 * num * (n - 1)
      low   == twice \div 200
  IN  IF twice % 200 > 100 \/ (twice % 200 = 100 /\ low % 2 = 1) THEN low + 1 ELSE low
Percentile(xs, num) ==
  IF xs = <<>> THEN 0 ELSE SortSeq(xs, <)[Rank(num, Len(xs)) + 1]
Ascending(f) == SortSeq(FoldFunction(LAMBDA x, xs : Append(xs, x), <<>>, f), <)

(* What a message's way through the mesh looked like.                      *)
Spread(es, m) ==
  LET ot  == OriginTimes(es)[m]
      rec == Receivers(es, m)
      home == setting.layer[Author(m)]
  IN  [id |-> m, origin |-> ot, receivers |-> rec,
       last |-> Max({ot} \cup Range(rec)),
       delay |-> Max({ot} \cup Range(rec)) - ot,
       leaked |-> {setting.layer[n] : n \in DOMAIN rec} \ {home},
       leaks |-> {rec[n] : n \in {x \in DOMAIN rec : setting.layer[x] # home}},
       pairs |-> [l \in {setting.layer[n] : n \in DOMAIN rec} |->
                    Cardinality({n \in DOMAIN rec : setting.layer[n] = l})]]

(* The peak of pulls: for each pull those that came at most a window before *)
(* it, and of all of these the first that is largest.               *)
WindowStart(ts, i) == Min({j \in DOMAIN ts : ts[j] >= ts[i] - BurstWindow})
PeakBurst(ts) ==
  LET Size(i) == i - WindowStart(ts, i) + 1
      best == Min({i \in DOMAIN ts : \A k \in DOMAIN ts : Size(k) <= Size(i)})
  IN  IF ts = <<>> THEN [count |-> 0, start |-> 0, stop |-> 0]
      ELSE [count |-> Size(best), start |-> ts[WindowStart(ts, best)], stop |-> ts[best]]

(* The first message that took longest to its last receiver; none took     *)
(* longer than nothing at all.                                             *)
Slowest(spreads) ==
  LET slow == {s \in spreads : s.delay > 0 /\ \A x \in spreads : x.delay <= s.delay}
  IN  IF slow = {} THEN <<>>
      ELSE <<CHOOSE s \in slow : \A x \in slow : s.origin <= x.origin>>

(* _count_contention_in_windows, for the events of this module.            *)
ContentionEvents ==
  {"channel_pull_sent", "channel_pull_suppressed", "channel_msg_evicted"}
WithinWindow(w, t) == w[1] <= t /\ t <= w[2]
Contention(es, w) ==
  [what \in ContentionEvents |->
     Cardinality({i \in OfType(es, what) : WithinWindow(w, es[i].t)})]

ChannelReport(es) ==
  LET origins == DOMAIN OriginTimes(es)
      spreads == {Spread(es, m) : m \in origins}
      covered == Ascending([m \in origins |-> Cardinality(DOMAIN Receivers(es, m))])
      arrivals == UNION {{<<m, n>> : n \in DOMAIN Receivers(es, m)} : m \in origins}
      waits   == Ascending([x \in arrivals |-> Receivers(es, x[1])[x[2]] - OriginTimes(es)[x[1]]])
      pulls   == TimesOf(es, "channel_pull_sent")
      peak    == PeakBurst(pulls)
      slow    == Slowest(spreads)
  IN  [n_originated |-> Cardinality(origins),
       total_received |-> CountOf(es, "channel_msg_received"),
       overheard |-> CountOf(es, "channel_msg_overheard"),
       seen_by_neighbour |-> CountOf(es, "channel_msg_seen_by_neighbour"),
       evicted |-> CountOf(es, "channel_msg_evicted"),
       pulls_sent |-> CountOf(es, "channel_pull_sent"),
       pulls_received |-> CountOf(es, "channel_pull_received"),
       msg_pulled |-> CountOf(es, "channel_msg_pulled"),
       pulls_suppressed |-> CountOf(es, "channel_pull_suppressed"),
       coverages |-> covered, latencies |-> waits, spreads |-> spreads,
       leaks |-> {s \in spreads : s.leaked # {}},
       leak_times |-> UNION {s.leaks : s \in spreads},
       peak |-> peak, slowest |-> slow,
       burst_context |-> IF peak.count = 0 THEN <<>>
                         ELSE Contention(es, <<peak.start, peak.stop>>),
       tail |-> IF slow = <<>> THEN <<>>
                ELSE <<Max({slow[1].origin, slow[1].last - SlowestTail}), slow[1].last>>]
-----------------------------------------------------------------------------
(* Over the whole run the report knows who received each message: the      *)
(* receivers it counts, apart from an author who got an evicted message    *)
(* back, are the nodes that ever held it.  While nothing was evicted the   *)
(* times are right too, and a leak is reported exactly when a node of      *)
(* another layer has the message.                                          *)
CoverageIsTrue ==
  LET r == ChannelReport(journal) IN
  /\ {s.id : s \in r.spreads} = {m \in Posts : <<Author(m), m>> \in DOMAIN had}
  /\ \A s \in r.spreads :
       LET holders == {n \in Stations : <<n, s.id>> \in DOMAIN had} \ {Author(s.id)}
       IN  /\ DOMAIN s.receivers \ {Author(s.id)} = holders
           /\ r.evicted = 0 => /\ \A n \in holders : s.receivers[n] = had[<<n, s.id>>]
                               /\ \A n \in holders : had[<<n, s.id>>] - s.origin <= s.delay
           /\ s \in r.leaks <=> \E n \in holders : setting.layer[n] # setting.layer[Author(s.id)]
  /\ \A xs \in {r.coverages, r.latencies} :
       Percentile(xs, 50) <= Percentile(xs, 90) /\ Percentile(xs, 90) <= Max({0} \cup Range(xs))

(* A warm-up cuts messages whole: those posted after it are reported as in *)
(* the whole run, the others not at all.                                   *)
CutKeepsMessagesWhole ==
  LET whole == ChannelReport(journal).spreads IN
  \A since \in 0 .. Horizon :
    ChannelReport(AfterWarmup(journal, since)).spreads = {s \in whole : s.origin >= since}

(* Every pull was taken by its target, missed it, or was decoded by it and *)
(* dropped; nobody serves a pull that it did not take.                     *)
PullBooksBalance ==
  LET r == ChannelReport(journal) IN
  /\ r.pulls_sent = r.pulls_received + astray.unheard + Cardinality(astray.dropped)
  /\ r.msg_pulled <= r.pulls_received

(* The peak is the densest window there is, and the second pass over the   *)
(* log finds in it the very pulls that make it the peak; the tail of the   *)
(* slowest message ends when a node received it.                           *)
BurstIsDensest ==
  \A since \in 0 .. Horizon :
    LET es == AfterWarmup(journal, since)
        r  == ChannelReport(es)
        In(t) == {i \in OfType(es, "channel_pull_sent") : WithinWindow(<<t, t + BurstWindow>>, es[i].t)}
    IN  /\ r.peak.count = Max({Cardinality(In(t)) : t \in 0 .. Horizon})
        /\ r.peak.count > 0 => r.burst_context["channel_pull_sent"] = r.peak.count
        /\ r.slowest # <<>> =>
             \E i \in CameTo(es, r.slowest[1].id) : es[i].t = r.tail[2] /\ r.tail[1] < r.tail[2]

(* The channel section is true of the run, in all its tables.              *)
GossipReportIsTrue ==
  CoverageIsTrue /\ CutKeepsMessagesWhole /\ PullBooksBalance /\ BurstIsDensest
=============================================================================
