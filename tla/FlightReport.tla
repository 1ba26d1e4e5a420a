---------------------------- MODULE FlightReport ----------------------------
(***************************************************************************)
(* The offline reports on directed messages: what tools/analyze.py,        *)
(* tools/delivery_summary.py and tools/dm_diff.py compute from the event   *)
(* log of a run, as operators over the log of MeshFlights, and what their  *)
(* numbers must mean for the run that wrote it.  Wording, percentages and  *)
(* the order of equal rows are left out.                                   *)
(***************************************************************************)
EXTENDS MeshFlights, FiniteSetsExt, Functions

CONSTANTS
  HopMax,     \* hop_limit of section 19
  TraceBound  \* longest path the backward walk follows (50 in the code)

(* iter_events: what is left after the warm-up is cut off. *)
Since(es, since) ==
  LET Cut[i \in 0 .. Len(es)] ==
        IF i = 0 THEN <<>>
        ELSE IF es[i].t >= since THEN Append(Cut[i-1], es[i]) ELSE Cut[i-1]
  IN  Cut[Len(es)]

Of(es, types) == {i \in DOMAIN es : es[i].type \in types}
For(es, types, m) == {i \in Of(es, types) : es[i].m = m}
Count(es, types) == Cardinality(Of(es, types))

(* What a loop that keeps the first, or the last, event of a message has.  *)
Firsts(es, types) ==
  [m \in {es[i].m : i \in Of(es, types)} |->
     es[Min(For(es, types, m))]]
Lasts(es, types) ==
  [m \in {es[i].m : i \in Of(es, types)} |->
     es[Max(For(es, types, m))]]

(* How often each value occurs in the range of f (a Counter). *)
Tally(f) == [v \in Range(f) |-> Cardinality({x \in DOMAIN f : f[x] = v})]
Total(counter) == SumFunction(counter)

-----------------------------------------------------------------------------
(* Section 8: the terminal outcome of every message enqueued at its        *)
(* originator.  A forwarder that exhausts its hops counts as well.         *)
Failed(enq, del, exh) == {m \in DOMAIN exh : m \in DOMAIN enq /\ m \notin DOMAIN del}

Breakdown(es) ==
  LET own  == {i \in Of(es, {"tx_enqueue"}) : es[i].node = Origin[es[i].m]}
      enq  == [m \in {es[i].m : i \in own} |-> es[Min({i \in own : es[i].m = m})]]
      del  == Firsts(es, {"delivered"})
      exh  == Firsts(es, {"path_cascade_exhausted"})
      fail == Failed(enq, del, exh)
      n    == Cardinality(DOMAIN enq)
      nDel == Cardinality(DOMAIN del \cap DOMAIN enq)
      nExh == Cardinality(fail)
  IN  [enqueued |-> enq, delivered |-> del, exhausted |-> exh,
       n_enqueued |-> n, n_delivered |-> nDel, n_exhausted |-> nExh,
       n_unresolved |-> Max({0, n - nDel - nExh}),
       triggers |-> Tally([m \in fail |-> exh[m].why])]

(* Section 9: one latency per delivered event whose enqueueing came before *)
(* it in the log.                                                          *)
Latencies(es) ==
  LET Enqueued(i) == {j \in For(es, {"tx_enqueue"}, es[i].m) : j < i}
      timed == {i \in Of(es, {"delivered"}) : Enqueued(i) # {}}
  IN  [i \in timed |-> es[i].t - es[Min(Enqueued(i))].t]

(* Section 12: delivery rate by time of enqueueing, in five buckets. *)
Buckets == 5
BucketWidth(first, last) == (last - first) \div Buckets + 1
ColdStart(r) ==
  LET times == {r.enqueued[m].t : m \in DOMAIN r.enqueued}
      In(S) == [sent |-> Cardinality(S), delivered |-> Cardinality(S \cap DOMAIN r.delivered)]
      Slot(m) == Min({(r.enqueued[m].t - Min(times)) \div BucketWidth(Min(times), Max(times)),
                      Buckets - 1})
  IN  CASE times = {} -> <<>>
        [] Cardinality(times) = 1 -> <<In(DOMAIN r.enqueued)>>
        [] OTHER -> [i \in 1 .. Buckets |-> In({m \in DOMAIN r.enqueued : Slot(m) = i - 1})]

(* Section 14: how long delivered and exhausted messages lived.  A message *)
(* that was delivered and exhausted is in both.                            *)
Lifetimes(r) ==
  LET Life(end) == [m \in DOMAIN end \cap DOMAIN r.enqueued |-> end[m].t - r.enqueued[m].t]
  IN  [delivered |-> Life(r.delivered), exhausted |-> Life(r.exhausted)]

(* Section 16: cascades of each flight the originator enqueued before. *)
Cascades(es) ==
  LET enq  == {m \in Messages : For(es, {"tx_enqueue"}, m) # {}}
      After(m) == {i \in For(es, {"path_cascade"}, m) : i > Min(For(es, {"tx_enqueue"}, m))}
  IN  [m \in enq |-> Cardinality(After(m))]
DepthClass(n) == CASE n = 0 -> "primary" [] n = 1 -> "one" [] n \in 2 .. 3 -> "two_three"
                   [] OTHER -> "four_plus"
CascadeDepth(es) == Tally([m \in DOMAIN Cascades(es) |-> DepthClass(Cascades(es)[m])])

-----------------------------------------------------------------------------
(* Section 1.  A link was seen in both directions once any frame crossed   *)
(* it; the runtime's rx records are those of the CTS, DATA, ACK and NACK.  *)
Links(es) ==
  UNION {{<<es[i].node, es[i].to>>, <<es[i].to, es[i].node>>} :
         i \in Of(es, {"cts_rx", "data_rx", "ack_rx", "nack_rx"})}

(* shortest_hops: breadth first, None when out of reach. *)
ShortestHops(links, src, dst) ==
  LET Ring[k \in 0 .. Cardinality(Nodes)] ==
        IF k = 0 THEN {src}
        ELSE LET in == Ring[k-1] IN in \union {l[2] : l \in {x \in links : x[1] \in in}}
      reached == {k \in DOMAIN Ring : dst \in Ring[k]}
  IN  IF reached = {} THEN None ELSE Min(reached)

(* DATA transmissions of a message, by time: the log's order, since lus    *)
(* writes it in time order and sort() is stable.                           *)
Chain(es, m) == SelectSeq(es, LAMBDA e : e.type = "data_tx" /\ e.m = m)
Edges(chain) == {<<chain[i].node, chain[i].to>> : i \in DOMAIN chain}

(* The hop whose first transmission is the last one is taken for the one   *)
(* that reached the destination.                                           *)
LastNewHop(chain) ==
  LET New(i) == \A j \in 1 .. i - 1 :
                  <<chain[j].node, chain[j].to>> # <<chain[i].node, chain[i].to>>
  IN  chain[Max({i \in DOMAIN chain : New(i)})].to

PathDeltas(es) ==
  LET Optimal(m) == ShortestHops(Links(es), Origin[m], LastNewHop(Chain(es, m)))
      analyzed == {i \in Of(es, {"delivered"}) :
                     /\ Chain(es, es[i].m) # <<>>
                     /\ Optimal(es[i].m) \notin {None, 0}}
  IN  [i \in analyzed |-> Cardinality(Edges(Chain(es, es[i].m))) - Optimal(es[i].m)]

(* _trace_delivery_path: backwards from the deliverer, each time the last  *)
(* transmission to that node not later than the one found before.          *)
UpstreamAny(chain, node, t) == {i \in DOMAIN chain : chain[i].to = node}
Upstream(chain, node, t) ==
  {i \in DOMAIN chain : chain[i].to = node /\ chain[i].t <= t}
Trace(chain, origin, deliverer, delivered) ==
  LET Back[k \in 0 .. TraceBound] ==
        IF k = 0 THEN [node |-> deliverer, t |-> delivered, path |-> <<>>]
        ELSE LET at == Back[k-1]
                 up == IF at.node = None \/ at.node = origin THEN {}
                       ELSE Upstream(chain, at.node, at.t)
             IN  IF at.node = None \/ at.node = origin THEN at
                 ELSE IF up = {} THEN [at EXCEPT !.node = None]
                 ELSE LET hop == chain[Max(up)]
                      IN  [node |-> hop.node, t |-> hop.t, path |-> <<hop>> \o at.path]
  IN  IF Back[TraceBound].node = origin THEN Back[TraceBound].path ELSE None

(* Section 19: of every delivered flight the path that delivered it, all   *)
(* edges burned, branches the originator started and duplicates.           *)
Flights(es) ==
  LET del == Lasts(es, {"delivered"})
      Path(m) == Trace(Chain(es, m), Origin[m], del[m].node, del[m].t)
      traced == {m \in DOMAIN del : Chain(es, m) # <<>> /\ Path(m) \notin {None, <<>>}}
      Own(m) == {i \in DOMAIN Chain(es, m) : Chain(es, m)[i].node = Origin[m]}
  IN  [m \in traced |->
         [path |-> Path(m), edges |-> Cardinality(Edges(Chain(es, m))),
          variants |-> Max({1, Cardinality(Own(m))}),
          dups |-> Cardinality(For(es, {"dup_drop"}, m)),
          cascades |-> Cardinality(For(es, {"path_cascade"}, m))]]

(* Amplification buckets, up to one, one and a half, two, three times.     *)
Amplification(f) ==
  LET Upto(num, den) == f.edges * den <= num * Len(f.path)
  IN  CASE Upto(1, 1) -> "single path" [] Upto(3, 2) -> "1.5" [] Upto(2, 1) -> "2"
        [] Upto(3, 1) -> "3" [] OTHER -> "more"
DupClass(n) == CASE n = 0 -> "clean" [] n = 1 -> "1" [] n \in 2 .. 3 -> "2-3" [] OTHER -> "4+"
VariantClass(n) == Min({n, 4})

HopLimit(es) ==
  LET limit == HopMax
      fs == Flights(es)
      Hops(m) == Len(fs[m].path)
      Over(k) == Cardinality({m \in DOMAIN fs : Hops(m) > k})
      far == {m \in conf.sends : ShortestHops(Links(es), Origin[m], Dest[m]) \notin
                                   {None} \union (0 .. limit)}
  IN  [path_hops |-> Tally([m \in DOMAIN fs |-> Hops(m)]),
       amplification |-> Tally([m \in DOMAIN fs |-> Amplification(fs[m])]),
       dups |-> Tally([m \in DOMAIN fs |-> DupClass(fs[m].dups)]),
       variants |-> Tally([m \in DOMAIN fs |-> VariantClass(fs[m].variants)]),
       at_limit |-> Cardinality({m \in DOMAIN fs : Hops(m) = limit}),
       over_limit |-> Over(limit),
       total_edges |-> MapThenSumSet(LAMBDA m : fs[m].edges, DOMAIN fs),
       total_hops |-> MapThenSumSet(Hops, DOMAIN fs),
       impossible |-> Cardinality(far),
       what_if |-> [k \in 1 .. limit - 1 |-> Over(k)]]

-----------------------------------------------------------------------------
(* Section 25: where directed DATA flights fail, stage by stage. *)
Shortfall(a, b) == Max({0, a - b})
LossStages(es) ==
  LET n(type) == Count(es, {type})
      Retry(reason) == Cardinality({i \in Of(es, {"rts_retry"}) : es[i].why = reason})
  IN  [rts_attempts |-> n("rts_tx") + n("rts_retry"), setup_success |-> n("cts_rx"),
       recovered |-> Cardinality({i \in Of(es, {"cts_rx"}) : es[i].why = "already_received"}),
       no_cts |-> Retry("cts_timeout"), no_ack_retry |-> Retry("ack_timeout"),
       data_tx |-> n("data_tx"), data_rx |-> n("data_rx"),
       ack_tx |-> n("ack_tx"), ack_rx |-> n("ack_rx"), nack_rx |-> n("nack_rx"),
       data_missing |-> Shortfall(n("data_tx"), n("data_rx")),
       data_no_ack |-> Shortfall(n("data_tx"), n("ack_rx")),
       ack_missing |-> Shortfall(n("ack_tx"), n("ack_rx")),
       cascades |-> n("path_cascade"), requeues |-> n("cascade_requeue"),
       exhausted |-> n("path_cascade_exhausted")]

(* Section 27: the last word of the log on every message.  cts_rx and      *)
(* nack_rx name no destination, so the classifier never sees them.         *)
TerminalEvents == {"path_cascade_exhausted", "rts_giveup", "data_ack_giveup"}
SetupEvents == {"rts_attempt_timeout", "rts_retry", "rts_tx", "path_cascade"}
StateEvents == SetupEvents \union {"cascade_requeue"}

(* The first exhaustion names the cause; a give-up event does not replace  *)
(* it.                                                                     *)
TerminalLast(es, m) == es[Max(For(es, TerminalEvents, m))].type
Terminal(es, m) ==
  LET exh == For(es, {"path_cascade_exhausted"}, m)
  IN  IF exh # {} THEN es[Min(exh)].why ELSE es[Max(For(es, TerminalEvents, m))].type

Classify(es) ==
  LET enq(m)  == For(es, {"tx_enqueue"}, m)
      LastWord(m) == es[Max({i \in For(es, StateEvents \union {"tx_enqueue"}, m) :
                           i >= Min(enq(m))})].type
  IN  [m \in {n \in Messages : enq(n) # {}} |->
         CASE For(es, {"delivered"}, m) # {} -> <<"delivered">>
           [] For(es, {"delivered"}, m) = {} /\ For(es, TerminalEvents, m) # {} ->
                <<"terminal", Terminal(es, m)>>
           [] OTHER ->
                <<"unresolved", CASE LastWord(m) \in SetupEvents -> "rts_setup"
                                  [] LastWord(m) = "cascade_requeue" -> "requeued"
                                  [] OTHER -> "queued_never_dequeued">>]

-----------------------------------------------------------------------------
(* The headline and delivery_summary start from the commands of the        *)
(* configuration (a command that has not fired yet is in the window), and  *)
(* dm_diff from the delivered events alone.                                *)
CommandsSince(es, since) ==
  {m \in conf.sends : \A i \in For(es, {"tx_enqueue"}, m) : es[i].t >= since}
Headline(es, since) ==
  LET out == DOMAIN Firsts(Since(es, since), {"delivered"})
  IN  [sent |-> Cardinality(CommandsSince(es, since)),
       delivered |-> Cardinality(out \cap CommandsSince(es, since))]
DeliverySummary(es) ==
  LET Giveups(P(_)) == Cardinality({i \in Of(es, {"rts_giveup", "data_ack_giveup"}) : P(es[i])})
  IN  [sent |-> Cardinality(conf.sends), delivered |-> Count(es, {"delivered"}),
       dup_drops |-> Count(es, {"dup_drop"}),
       at_origin |-> Giveups(LAMBDA e : e.node = Origin[e.m]),
       at_forwarder |-> Giveups(LAMBDA e : e.node # Origin[e.m])]
DeliveredSet(es) == [m \in {es[i].m : i \in Of(es, {"delivered"})} |->
                       Cardinality(For(es, {"delivered"}, m))]
Funnel(es) == [x \in {"tx_enqueue", "rts_tx", "cts_rx", "data_tx", "data_rx", "ack_rx",
                      "delivered"} |-> Count(es, {x})]
-----------------------------------------------------------------------------
Starts == 0 .. now + 1

(* Whatever warm-up is cut off, the sections that count messages tell the  *)
(* same story: outcomes add up to the messages enqueued, the buckets of    *)
(* the cold-start curve and of the cascade depths lose none, and the       *)
(* latencies of section 9 are the lifetimes of section 14, none negative.  *)
MessagesAddUp ==
  \A since \in Starts :
    LET es == Since(log, since)
        r  == Breakdown(es)
        rows == ColdStart(r)
        life == Lifetimes(r).delivered
    IN  /\ r.n_delivered + r.n_exhausted + r.n_unresolved = r.n_enqueued
        /\ MapThenSumSet(LAMBDA i : rows[i].sent, DOMAIN rows) = r.n_enqueued
        /\ MapThenSumSet(LAMBDA i : rows[i].delivered, DOMAIN rows) = r.n_delivered
        /\ Total(CascadeDepth(es)) = r.n_enqueued
        /\ Tally(Latencies(es)) = Tally(life)
        /\ Cardinality(DOMAIN life) = r.n_delivered
        /\ \A m \in DOMAIN life : life[m] >= 0

(* Tools that walk the same log apart agree on it, whatever warm-up is cut *)
(* off: the classifier and the headline with the breakdown, and over the   *)
(* whole run delivery_summary and dm_diff as well.                         *)
ToolsAgree ==
  /\ \A since \in Starts :
       LET es    == Since(log, since)
           r     == Breakdown(es)
           class == Classify(es)
           Is(x) == {m \in DOMAIN class : class[m][1] = x}
       IN  /\ Cardinality(Is("delivered")) = r.n_delivered
           /\ Tally([m \in Is("terminal") |-> class[m][2]]) = r.triggers
           /\ Cardinality(Is("unresolved")) = r.n_unresolved
           /\ Headline(log, since).delivered = r.n_delivered
  /\ LET r == Breakdown(log)
         s == DeliverySummary(log)
     IN  /\ s.delivered = r.n_delivered /\ s.delivered = Funnel(log)["delivered"]
         /\ DOMAIN DeliveredSet(log) = DOMAIN r.delivered
         /\ s.at_origin + s.at_forwarder = Count(log, {"path_cascade_exhausted"})

(* A message section 8 calls unresolved is still held by a node or on the  *)
(* air, and the classifier's word for it is where it is: nothing is        *)
(* dropped without a terminal event, unless a copy has come back to its    *)
(* originator, which absorbs it.                                           *)
Queued(n, m) == \E i \in DOMAIN queue[n] : queue[n][i].m = m
Active(m) == (\E n \in Nodes : px[n] # None /\ px[n].m = m) \/ (\E f \in air : f.m = m)
NothingVanishes ==
  LET class == Classify(log) IN
  \A m \in DOMAIN class : class[m][1] = "unresolved" =>
    /\ Active(m) \/ (\E n \in Nodes : Queued(n, m)) \/ seen[Origin[m]][m] # None
    /\ class[m][2] = "queued_never_dequeued" => Queued(Origin[m], m) /\ ~Active(m)
    /\ class[m][2] = "requeued" => \E n \in Nodes : Queued(n, m)

(* The numbers of section 25 are the frames the air destroyed or still     *)
(* holds, and every RTS attempt was answered, timed out, or is waiting.    *)
LossStagesAreTrue ==
  LET s == LossStages(log)
      waiting == {n \in Nodes : px[n] # None /\ ~px[n].data}
  IN  /\ s.data_missing = Cardinality(air) + lost.data
      /\ s.ack_missing = lost.ack
      /\ s.rts_attempts = s.setup_success + Count(log, {"rts_attempt_timeout"})
                          + Cardinality(waiting)
      /\ s.data_tx = s.setup_success - s.recovered

(* The path section 19 reconstructs starts at the originator, ends at the  *)
(* deliverer, hangs together and never runs back in time; and where nobody *)
(* was sent the message by two nodes it is the path the copy really took.  *)
RealPath(m) ==
  LET Back[k \in 0 .. Cardinality(Nodes)] ==
        IF k = 0 THEN <<Dest[m]>>
        ELSE IF Head(Back[k-1]) = Origin[m] THEN Back[k-1]
        ELSE <<seen[Head(Back[k-1])][m]>> \o Back[k-1]
  IN  Back[Cardinality(Nodes)]
PathIsTrue ==
  LET fs == Flights(log) IN
  \A m \in DOMAIN Firsts(log, {"delivered"}) :
    LET p == fs[m].path
        stops == [i \in 1 .. Len(p) + 1 |-> IF i = 1 THEN p[1].node ELSE p[i-1].to]
        edges == Edges(Chain(log, m))
    IN  /\ m \in DOMAIN fs
        /\ p[1].node = Origin[m] /\ p[Len(p)].to = Dest[m]
        /\ \A i \in 2 .. Len(p) : p[i].node = p[i-1].to /\ p[i].t >= p[i-1].t
        /\ (\A x, y \in edges : x[2] = y[2] => x = y) => stops = RealPath(m)

(* Over a whole run no flight looks shorter than the shortest path, in     *)
(* section 1 or in 19; every delivered flight is in every histogram of 19, *)
(* and a send out of the hop limit's reach is not among those within it.   *)
NoFlightBeatsTheGraph ==
  LET deltas == PathDeltas(log)
      fs == Flights(log)
      h  == HopLimit(log)
      n  == Breakdown(log).n_delivered
  IN  /\ \A i \in DOMAIN deltas : deltas[i] >= 0
      /\ \A m \in DOMAIN fs : /\ Len(fs[m].path) >= ShortestHops(Links(log), Origin[m], Dest[m])
                             /\ fs[m].edges >= Len(fs[m].path)
      /\ Total(h.path_hops) = n /\ Total(h.amplification) = n
      /\ Total(h.dups) = n /\ Total(h.variants) = n
      /\ h.over_limit >= Cardinality({m \in DOMAIN fs :
                           ShortestHops(Links(log), Origin[m], Dest[m]) > HopMax})
      /\ h.total_edges >= h.total_hops

(* The sections on deliveries agree with one another, with the other tools *)
(* and with the run.                                                       *)
FlightReportIsTrue == MessagesAddUp /\ ToolsAgree /\ NothingVanishes /\ LossStagesAreTrue

(* So do the paths, section by section and against the graph.              *)
PathsAreTrue == PathIsTrue /\ NoFlightBeatsTheGraph
=============================================================================
