----------------------------- MODULE RadioReport ----------------------------
(***************************************************************************)
(* The sections of tools/analyze.py on radio use, as operators over the    *)
(* log of RunLog: airtime by class, label, spreading factor and node       *)
(* (3, 6, 10, 15), SF optimality (2), concurrency (4), drops (7) and       *)
(* budget-tier residence (21).  Percentages and layout are left out; an    *)
(* SNR is in dB, thresholds are rounded up to whole dB.                    *)
(***************************************************************************)
EXTENDS EventQueries

CONSTANTS
  AllowedSfs,    \* the union of allowed_data_sfs over the configured nodes
  SfNeeds        \* demodulation threshold plus margin of an SF, dB above its floor

(* iter_events and find_warmup_end_ms: the default cut of every section.   *)
Since(es, since) == SelectSeq(es, LAMBDA e : e.t >= since)

FindWarmupEnd(es) ==
  LET marks == SelectSeq(es, LAMBDA e : e.type = "warmup_end")
  IN  IF marks = <<>> THEN 0 ELSE Head(marks).t

Txs(es) == SelectSeq(es, LAMBDA e : e.type = "tx")

(* A Counter fed with Amount(e) under Key(e) for every event of es. *)
Counted(es, Key(_), Amount(_)) ==
  FoldLeft(LAMBDA c, e : (Key(e) :> ((IF Key(e) \in DOMAIN c THEN c[Key(e)] ELSE 0) + Amount(e))) @@ c,
           <<>>, es)
Total(counter) == SumFunction(counter)
At(counter, key) == IF key \in DOMAIN counter THEN counter[key] ELSE 0

LabelClass(label) ==
  CASE label = "DATA" -> "data"
    [] label \in {"RTS", "NACK"} -> "ctrl_initiating"
    [] label = "CTS" -> "ctrl_response"
    [] label = "RTS-rty" -> "retry_initiating"
    [] label = "CTS-dup" -> "retry_response"
    [] label = "BCN" -> "flood"
    [] OTHER -> "other"

Air(e) == e.air
One(e) == 1
ClassOf(e) == LabelClass(e.label)
LabelOf(e) == e.label
NodeOf(e) == e.node
LabelSf(e) == <<e.label, e.sf>>

(* Section 3. *)
ControlPlane(es) ==
  [airByClass |-> Counted(Txs(es), ClassOf, Air), airByLabel |-> Counted(Txs(es), LabelOf, Air),
   countByLabel |-> Counted(Txs(es), LabelOf, One),
   total |-> Total(Counted(Txs(es), ClassOf, Air))]

(* Section 5 compares the retries with the data. *)
RetryAir(ctrl) ==
  [initiating |-> At(ctrl.airByClass, "retry_initiating"),
   response |-> At(ctrl.airByClass, "retry_response"), data |-> At(ctrl.airByClass, "data")]

(* Section 6. *)
PerClassSf(es) ==
  [count |-> Counted(Txs(es), LabelSf, One), air |-> Counted(Txs(es), LabelSf, Air)]

(* Section 10: the busiest nodes first, at most top of them. *)
PerNodeTx(es, top) ==
  LET spent == Counted(Txs(es), NodeOf, Air)
      rank  == SetToSortSeq(DOMAIN spent, LAMBDA a, b : spent[a] > spent[b])
  IN  [k \in 1 .. Min({top, Len(rank)}) |-> <<rank[k], spent[rank[k]]>>]

(* Section 15: the airtime of every configured node, silent ones as well,  *)
(* in ascending order, to be read as shares of the same budget.            *)
Consumption(es) ==
  LET spent == Counted(Txs(es), NodeOf, Air)
  IN  SortSeq([i \in 1 .. scene.n |-> <<At(spent, Name(i - 1)), Name(i - 1)>>], LAMBDA a, b : a[1] < b[1])
DutyCycle(es) ==
  [consumption |-> Consumption(es), airByLabel |-> Counted(Txs(es), LabelOf, Air)]
Quantile(s, num, den) == s[1 + Min({Len(s) - 1, Max({0, (num * Len(s)) \div den})})]

-----------------------------------------------------------------------------
(* Section 4: a sweep over the starts and ends of the logged intervals,    *)
(* where an end sorts before a start of the same time.                     *)
Points(es) ==
  LET txs    == Txs(es)
      points == [k \in 1 .. 2 * Len(txs) |->
                   IF k <= Len(txs) THEN <<txs[k].t, 1>>
                   ELSE <<txs[k - Len(txs)].t + txs[k - Len(txs)].air, 0 - 1>>]
  IN  points
BeforeStartFirst(p, q) == p[1] < q[1] \/ (p[1] = q[1] /\ p[2] > q[2])
Before(p, q) == p[1] < q[1] \/ (p[1] = q[1] /\ p[2] < q[2])

Concurrency(es) ==
  LET points == SortSeq(Points(es), Before)
      Sweep(s, p) ==
        [cur |-> s.cur + p[2], last |-> p[1], max |-> Max({s.max, s.cur + p[2]}),
         weighted |-> s.weighted + s.cur * (p[1] - s.last),
         any |-> s.any + IF s.cur > 0 THEN p[1] - s.last ELSE 0]
      zero == [cur |-> 0, last |-> 0, max |-> 0, weighted |-> 0, any |-> 0]
      swept == FoldLeft(Sweep, [zero EXCEPT !.last = points[1][1]], points)
  IN  IF points = <<>> THEN [max |-> 0, weighted |-> 0, any |-> 0, wall |-> 0, total |-> 0]
      ELSE [max |-> swept.max, weighted |-> swept.weighted, any |-> swept.any,
            wall |-> Last(points)[1] - Head(points)[1], total |-> FoldLeft(LAMBDA s, e : s + e.air, 0, Txs(es))]

-----------------------------------------------------------------------------
(* build_pkt_label_map: the last label any transmission of a packet had,   *)
(* over the whole file.                                                    *)
PktLabels(es) == FoldLeft(LAMBDA m, e : (e.pkt :> e.label) @@ m, <<>>, Txs(es))

(* Section 2: one row per reception of a DATA frame, with the fastest SF   *)
(* its SNR allowed.                                                        *)
FastestSfForSnr(snr) ==
  LET fit == {sf \in AllowedSfs : SfNeeds[sf] <= snr}
  IN  IF fit = {} THEN Max(AllowedSfs) ELSE Min(fit)

IsDataLeg(e, labels) == At(labels, e.pkt) = "DATA"

SfRows(es, labels) ==
  LET rxs  == SelectSeq(es, LAMBDA e : e.type = "rx" /\ e.pkt \in DOMAIN labels)
      legs == SelectSeq(rxs, LAMBDA e : IsDataLeg(e, labels))
  IN  [k \in DOMAIN legs |-> [sf |-> legs[k].sf, opt |-> FastestSfForSnr(legs[k].snr), at |-> legs[k].t]]

SfClasses(rows) ==
  LET Slower(d(_)) == Len(SelectSeq(rows, LAMBDA r : d(r.sf - r.opt)))
  IN  [optimal |-> Slower(LAMBDA x : x = 0), one |-> Slower(LAMBDA x : x = 1),
       two |-> Slower(LAMBDA x : x >= 2)]

(* Section 7: drops by type; a bystander on another SF is no failure of a  *)
(* DATA frame.  The labels come from the cut file here.                    *)
ListedDrops == Drops \cup {"collision", "tx_fail"}
ExpectedMismatch(e, labels) == e.type = "drop_sf_mismatch" /\ At(labels, e.pkt) = "DATA"

DropCounts(es) ==
  LET labels == PktLabels(es)
      drops  == SelectSeq(es, LAMBDA e : e.type \in ListedDrops)
      TypeOf(e) == IF ExpectedMismatch(e, labels) THEN "expected" ELSE e.type
  IN  Counted(drops, TypeOf, One)

-----------------------------------------------------------------------------
(* Section 21: each snapshot's tier is held until the node's next one.     *)
Snapshots(es) == SelectSeq(es, LAMBDA e : IsEmit(e, "node_state_snapshot"))
SamplesOf(es, n) ==
  LET mine == SelectSeq(Snapshots(es), LAMBDA e : e.node = n)
  IN  SortSeq([k \in DOMAIN mine |-> <<mine[k].t, mine[k].d.tier>>],
              LAMBDA a, b : a[1] < b[1] \/ (a[1] = b[1] /\ a[2] < b[2]))

Held(samples, k) == samples[k][2]

Residence(samples) ==
  LET gaps == [k \in 1 .. Len(samples) - 1 |->
                 <<Held(samples, k), Max({0, samples[k + 1][1] - samples[k][1]})>>]
      Tier(g) == g[1]
      Ms(g)   == g[2]
  IN  Counted(gaps, Tier, Ms)

BudgetTier(es) ==
  LET nodes == {e.node : e \in Range(Snapshots(es))}
      per   == [n \in nodes |-> Residence(SamplesOf(es, n))]
      Seen(n) == SelectSeq(Snapshots(es), LAMBDA e : e.node = n)
      Change(n) == [k \in 1 .. Len(Seen(n)) - 1 |-> <<Seen(n)[k].d.tier, Seen(n)[k + 1].d.tier>>]
  IN  [perNode |-> per,
       net |-> [tier \in UNION {DOMAIN per[n] : n \in nodes} |->
                  SumFunction([n \in nodes |-> At(per[n], tier)])],
       transitions |-> SumFunction([n \in nodes |->
                  Len(SelectSeq(Change(n), LAMBDA c : c[1] # c[2]))]),
       worst |-> [n \in {m \in nodes : Total(per[m]) > 0} |-> Max(DOMAIN per[n])],
       strained |-> [n \in nodes |-> SumFunction([tier \in {x \in DOMAIN per[n] : x >= 1} |-> per[n][tier]])]]

(* The counters behind sections 11 and 13. *)
CountEmits(es, whats) ==
  LET kept == SelectSeq(es, LAMBDA e : e.type = "script_emit" /\ e.emit \in whats)
      What(e) == e.emit
  IN  Counted(kept, What, One)

-----------------------------------------------------------------------------
(* A report is read once the warm-up is over; before that there is nothing *)
(* to cut at and the sections count its frames.                            *)
Cut == Since(log, FindWarmupEnd(log))
Reported == Readable /\ (0 < scene.warm => Logged({"warmup_end"}) # {})
SumOver(S, f(_)) == FoldSet(LAMBDA x, s : f(x) + s, 0, S)
AirOf(g) == g.end - g.start

(* What the sections on airtime call the channel time of the run after its *)
(* warm-up is what its frames really took, node by node, and every section *)
(* spends the same total.                                                  *)
AirtimeIsTrue ==
  Reported =>
    LET ctrl == ControlPlane(Cut)
        duty == DutyCycle(Cut)
        spent == SumOver(flown, AirOf)
    IN  /\ ctrl.total = spent
        /\ Total(ctrl.airByLabel) = spent
        /\ Total(PerClassSf(Cut).air) = spent
        /\ Total(duty.airByLabel) = spent
        /\ Concurrency(Cut).total = spent
        /\ \A k \in DOMAIN duty.consumption :
             duty.consumption[k][1]
               = SumOver({g \in flown : Name(g.node) = duty.consumption[k][2]}, AirOf)
        /\ {r[1] : r \in Range(PerNodeTx(Cut, 10))} = {Name(g.node) : g \in flown}
        /\ Total(PerClassSf(Cut).count) = Cardinality(flown)
        /\ RetryAir(ctrl).data = SumOver({g \in flown : g.label = "DATA"}, AirOf)

(* The quantiles of section 15 are quantiles of all configured nodes, those*)
(* that never sent included: no more than half of them lie strictly on     *)
(* either side of its median.                                              *)
MedianCountsSilentNodes ==
  Reported /\ flown # {} =>
    LET c == Consumption(Cut)
        m == Quantile(c, 1, 2)[1]
        Of(n) == SumOver({g \in flown : g.node = n}, AirOf)
    IN  /\ 2 * Cardinality({n \in Nodes : Of(n) < m}) <= scene.n
        /\ 2 * Cardinality({n \in Nodes : Of(n) > m}) <= scene.n

(* As long as no frame waited for a reception to end, section 4 reports    *)
(* the concurrency of the channel, tick by tick; and even if one did, it   *)
(* never shows a node twice on the air, nor more time than all the frames  *)
(* took.                                                                   *)
OnTime == {<<Name(g.node), g.start>> : g \in flown} = {<<e.node, e.t>> : e \in Range(Txs(Cut))}
ConcurrencyIsTrue ==
  Reported =>
    LET c == Concurrency(Cut)
        ticks == 0 .. Duration + 6
        On(t) == {g \in flown : g.start <= t /\ t < g.end}
    IN  /\ OnTime => /\ c.max = Max({Cardinality(On(t)) : t \in ticks})
                     /\ c.any = Cardinality({t \in ticks : On(t) # {}})
                     /\ c.wall = IF flown = {} THEN 0
                                 ELSE Max({g.end : g \in flown}) - Min({g.start : g \in flown})
        /\ c.weighted = SumOver(flown, AirOf)
        /\ c.max <= scene.n
        /\ c.any <= c.weighted /\ c.any <= c.wall

(* Every row of section 2 is a reception of a DATA frame and every such    *)
(* reception has its row, with the lowest SF the link would have carried.  *)
FrameOf(e) == CHOOSE g \in flown : Name(g.node) = e.from /\ g.end = e.t
LandedAs(labels, types) ==
  SelectSeq(Cut, LAMBDA e : e.type \in types /\ FrameOf(e).label \in labels)
SfRowsAreDataLegs ==
  Reported =>
    LET legs == LandedAs({"DATA"}, {"rx"})
        rows == SfRows(Cut, PktLabels(log))
        Fits(sf, snr) == SfNeeds[sf] <= snr
    IN  /\ Len(rows) = Len(legs)
        /\ \A k \in DOMAIN rows :
             /\ rows[k].sf = FrameOf(legs[k]).sf
             /\ Fits(rows[k].opt, legs[k].snr) \/ \A sf \in AllowedSfs : ~Fits(sf, legs[k].snr)
             /\ \A sf \in AllowedSfs : sf < rows[k].opt => ~Fits(sf, legs[k].snr)
        /\ SfClasses(rows).optimal + SfClasses(rows).one + SfClasses(rows).two
             = Len(SelectSeq(rows, LAMBDA r : r.sf >= r.opt))

(* Section 7 sets aside the SF mismatches of DATA frames and no others,    *)
(* and its counts add up to every refused reception: the labels it joins   *)
(* come from the cut file, which is enough because no frame of the warm-up *)
(* lands after it.                                                         *)
DropsAreClassified ==
  Reported =>
    LET counts == DropCounts(Cut)
    IN  /\ At(counts, "expected") = Len(LandedAs({"DATA"}, {"drop_sf_mismatch"}))
        /\ Total(counts) = Cardinality({i \in DOMAIN log : log[i].type \in ListedDrops})
        /\ At(CountEmits(Cut, {"beacon_rx"}), "beacon_rx") =
             Len(SelectSeq(Cut, LAMBDA e : e.type = "rx" /\ At(PktLabels(log), e.pkt) = "BCN"))

(* The tiers of section 21 share out the time between a node's first and   *)
(* last snapshot, tick by tick to the tier last seen.                      *)
ResidenceTiles ==
  Reported =>
    LET r == BudgetTier(Cut)
        Seen(n) == Range(SamplesOf(Cut, n))
        Span(n) == {t \in Times : \E a, b \in Seen(n) : a[1] <= t /\ t < b[1]}
        Latest(n, t) == CHOOSE s \in Seen(n) : s[1] <= t /\ \A q \in Seen(n) : q[1] <= t => q[1] <= s[1]
    IN  \A n \in DOMAIN r.perNode :
          /\ \A tier \in 0 .. 1 :
               At(r.perNode[n], tier) = Cardinality({t \in Span(n) : Latest(n, t)[2] = tier})
          /\ r.strained[n] = At(r.perNode[n], 1)
          /\ n \in DOMAIN r.worst => At(r.perNode[n], r.worst[n]) > 0

(* What sections 7, 12, 13, 15, 16 and the SF rows say of the radio is     *)
(* what happened on the air, whatever warm-up is cut off.                  *)
RadioReportIsTrue ==
  /\ AirtimeIsTrue /\ MedianCountsSilentNodes /\ ConcurrencyIsTrue
  /\ SfRowsAreDataLegs /\ DropsAreClassified /\ ResidenceTiles
=============================================================================
