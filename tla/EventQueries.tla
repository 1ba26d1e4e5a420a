---------------------------- MODULE EventQueries ----------------------------
(***************************************************************************)
(* services/event_index: the index the web server builds over an events    *)
(* file in one scan, and the queries the timeline page asks it, over the   *)
(* log of RunLog.  A line of the file is a position of the log; a stored   *)
(* event is the position of its line (offsets, line_lengths).              *)
(***************************************************************************)
EXTENDS RunLog, Functions

Has(e, field) == field \in DOMAIN e
IsEmit(e, what) == e.type = "script_emit" /\ e.emit = what

EmptyIndex ==
  [nodes |-> <<>>, idToName |-> <<>>, stored |-> <<>>, times |-> <<>>, byNode |-> <<>>,
   byPkt |-> <<>>, replies |-> <<>>, sim |-> <<>>]

(* One more element in the list a dictionary keeps under a key. *)
Filed(dict, key, x) == (key :> (IF key \in DOMAIN dict THEN Append(dict[key], x) ELSE <<x>>)) @@ dict

(* node_set and nodes: a node is known from its first metadata line on.    *)
Known(ix, name) == \E k \in DOMAIN ix.nodes : ix.nodes[k] = name
WithNode(ix, name) == IF Known(ix, name) THEN ix ELSE [ix EXCEPT !.nodes = Append(@, name)]
WithId(ix, i, name) == [ix EXCEPT !.idToName = (i :> name) @@ @]

(* node_ready: a node nobody announced gets the id its registration order  *)
(* gives it, which is the runtime id only where nodes boot in that order.  *)
RegisterReady(ix, e) ==
  IF Known(ix, e.node) THEN ix
  ELSE LET known == WithNode(ix, e.node) IN WithId(known, Id(Len(known.nodes) - 1), e.node)

Announced(ix, e) == WithNode(WithId(ix, e.node, e.d.name), e.d.name)

(* An integer id resolves to the announced name, else to its own digits.   *)
Canonical(ix, ident) ==
  IF ident[1] = "name" THEN ident
  ELSE IF ident \in DOMAIN ix.idToName THEN ix.idToName[ident] ELSE <<"digits", ident[2]>>

StoreEvent(ix, e, line) ==
  LET k       == Len(ix.stored) + 1
      keys    == SelectSeq(<<"node", "from", "to">>, LAMBDA f : Has(e, f))
      byNode  == FoldLeft(LAMBDA d, f : Filed(d, Canonical(ix, e[f]), k), ix.byNode, keys)
  IN  [ix EXCEPT !.stored = Append(@, line),
                 !.times = Append(@, e.t),
                 !.byNode = byNode,
                 !.byPkt = IF Has(e, "pkt") THEN Filed(@, e.pkt, k) ELSE @,
                 !.replies = IF e.type = "cmd_reply" THEN Append(@, k) ELSE @]

SimInfo(ix, field, value) == [ix EXCEPT !.sim = (field :> value) @@ @]

IndexEvent(ix, e, line) ==
  IF e.type = "sim_start"    THEN SimInfo(ix, "start", e.t)
  ELSE IF e.type = "sim_end" THEN SimInfo(ix, "end_ms", e.t)
  ELSE IF e.type = "warmup_end" THEN SimInfo(ix, "warmup_end_ms", e.t)
  ELSE IF e.type = "node_ready" THEN RegisterReady(ix, e)
  ELSE StoreEvent(IF IsEmit(e, "node_layer_info") THEN Announced(ix, e) ELSE ix, e, line)

Index(es) ==
  FoldLeft(LAMBDA s, e : <<IndexEvent(s[1], e, s[2]), s[2] + 1>>, <<EmptyIndex, 1>>, es)[1]

-----------------------------------------------------------------------------
(* The queries.  Positions in stored start at 1 here, at 0 in the code; a  *)
(* range is lo .. hi - 1 all the same.                                     *)
BisectRight(times, t) == Cardinality({k \in DOMAIN times : times[k] <= t}) + 1
BisectLeft(times, t) == Cardinality({k \in DOMAIN times : times[k] < t}) + 1

MetadataTypes ==
  {"sim_start", "sim_end", "warmup_end", "node_ready", "node_started", "node_died"}

(* _read_contiguous: every line of the file between the first and the last *)
(* wanted event, less the metadata wedged in between.                      *)
ReadEverything(es, ix, lo, hi) ==
  IF hi <= lo THEN <<>> ELSE SubSeq(es, ix.stored[lo], ix.stored[hi - 1])
ReadContiguous(es, ix, lo, hi) ==
  IF hi <= lo THEN <<>>
  ELSE SelectSeq(SubSeq(es, ix.stored[lo], ix.stored[hi - 1]),
                 LAMBDA e : e.type \notin MetadataTypes)

ReadIndices(es, ix, ks) == [j \in DOMAIN ks |-> es[ix.stored[ks[j]]]]

(* Every step-th position of a range that holds more than limit: the step  *)
(* is rounded down, so that up to twice as many are left.                  *)
Thinned(lo, hi, limit) ==
  LET step == (hi - lo) \div limit
  IN  [j \in 1 .. (hi - lo + step - 1) \div step |-> lo + (j - 1) * step]

QueryTimeRange(es, ix, from, to, maxEvents) ==
  LET lo == BisectLeft(ix.times, from)
      hi == BisectRight(ix.times, to)
  IN  IF hi - lo > maxEvents THEN ReadIndices(es, ix, Thinned(lo, hi, maxEvents))
      ELSE ReadContiguous(es, ix, lo, hi)

QueryPkt(es, ix, pkt) ==
  ReadIndices(es, ix, IF pkt \in DOMAIN ix.byPkt THEN ix.byPkt[pkt] ELSE <<>>)

Involving(ix, name) == IF name \in DOMAIN ix.byNode THEN ix.byNode[name] ELSE <<>>

QueryNodeRange(es, ix, name, from, to) ==
  ReadIndices(es, ix, SelectSeq(Involving(ix, name),
                                LAMBDA k : from <= ix.times[k] /\ ix.times[k] <= to))

(* What the swim lanes count, and for which node. *)
Drops == {"drop_weak", "drop_sf_mismatch", "drop_halfduplex", "drop_receiver_inactive"}
Category(e) ==
  IF e.type \in {"tx", "rx", "collision"} THEN e.type
  ELSE IF e.type \in Drops THEN "drop"
  ELSE IF e.type = "cmd_reply" THEN "cmd" ELSE "none"
Lane(e) == IF Has(e, "to") THEN e.to ELSE e.node

Bucket(t, from, width, n) == Min({(t - from) \div width, n - 1})

Density(es, ix, from, to, width) ==
  LET events == ReadContiguous(es, ix, BisectLeft(ix.times, from), BisectRight(ix.times, to))
      n      == Max({1, (to - from + width - 1) \div width})
      counted == SelectSeq(events, LAMBDA e : Category(e) # "none")
      Cell(e) == <<Lane(e), Category(e), Bucket(e.t, from, width, n)>>
  IN  [buckets |-> n,
       count |-> FoldLeft(LAMBDA c, e : (Cell(e) :> (IF Cell(e) \in DOMAIN c THEN c[Cell(e)] + 1 ELSE 1)) @@ c,
                          <<>>, counted)]

(* The first transmission of a node after a command's reply. *)
NoEvent == [type |-> "none"]
TxAfter(es, ix, name, after) ==
  SelectSeq(ReadIndices(es, ix, Involving(ix, name)), LAMBDA e : e.type = "tx" /\ e.t >= after)
FindMsgTx(es, ix, name, after) ==
  IF TxAfter(es, ix, name, after) = <<>> THEN NoEvent ELSE Head(TxAfter(es, ix, name, after))

(* The interactive endpoints: an empty answer before the session has a     *)
(* file, else an index built for this one request.                         *)
SessionMeta(es, names) ==
  LET ix == Index(es) IN
  IF es = <<>> THEN [nodes |-> names, min |-> 0, max |-> 0, count |-> 0]
  ELSE [nodes |-> ix.nodes, min |-> IF ix.times = <<>> THEN 0 ELSE Head(ix.times),
        max |-> IF ix.times = <<>> THEN 0 ELSE Last(ix.times), count |-> Len(ix.times)]
SessionEvents(es, from, to) ==
  IF es = <<>> THEN <<>> ELSE QueryTimeRange(es, Index(es), from, to, 20000)
SessionDensity(es, from, to, width) ==
  IF es = <<>> THEN [buckets |-> 0, count |-> <<>>] ELSE Density(es, Index(es), from, to, width)

-----------------------------------------------------------------------------
(* Reports are asked for between two steps, of a run that is still going   *)
(* on or was stopped there, and after its last.                            *)
Readable == phase \in {"start", "done"}
Times == 0 .. Duration
Windows == {w \in Times \X Times : w[1] <= w[2]}

(* A time window holds exactly the events of the file whose time lies in   *)
(* it, once and in file order: the positions found by bisection and the    *)
(* byte range read between them agree, whatever metadata lines lie there.  *)
WindowIsFilter ==
  Readable =>
    LET ix == Index(log) IN
    \A w \in Windows :
      QueryTimeRange(log, ix, w[1], w[2], 20000) =
        SelectSeq(log, LAMBDA e : w[1] <= e.t /\ e.t <= w[2] /\ e.type \notin MetadataTypes)

(* A window with too many events is thinned evenly: less than twice the    *)
(* limit is sent, and no stretch of the window as long as the step is      *)
(* without an event, up to its end.                                        *)
SampleSpansWindow ==
  phase = "done" =>
    LET ix == Index(log) IN
    \A w \in Windows, limit \in 1 .. 4 :
      LET lo     == BisectLeft(ix.times, w[1])
          hi     == BisectRight(ix.times, w[2])
          sample == QueryTimeRange(log, ix, w[1], w[2], limit)
          step   == (hi - lo) \div limit
      IN  hi - lo > limit =>
            /\ Len(sample) < 2 * limit
            /\ sample[1] = log[ix.stored[lo]]
            /\ \A k \in lo .. hi - step :
                 \E j \in k .. k + step - 1, i \in DOMAIN sample : sample[i] = log[ix.stored[j]]

(* The row of a node shows every event that names it or carries its        *)
(* runtime id from the moment it is known, and nothing of another node:    *)
(* provided scripts announce themselves or nodes boot in the order of      *)
(* their ids.                                                              *)
Booted == SelectSeq(log, LAMBDA e : e.type = "node_ready")
IdsResolve ==
  scene.announces \/ \A k \in DOMAIN Booted : Booted[k].node = Name(k - 1)
KnownFrom(n) ==
  {i \in DOMAIN log : \/ log[i].type = "node_ready" /\ log[i].node = Name(n)
                      \/ IsEmit(log[i], "node_layer_info") /\ log[i].node = Id(n)}
Concerns(i, n) ==
  \E field \in {"node", "from", "to"} :
    /\ Has(log[i], field)
    /\ \/ log[i][field] = Name(n)
       \/ log[i][field] = Id(n) /\ \E k \in KnownFrom(n) : k <= i
RowIsComplete ==
  Readable /\ IdsResolve =>
    LET ix   == Index(log)
        Line(i) == log[i].type \notin {"sim_start", "sim_end", "warmup_end", "node_ready"}
        Row(n) == SelectSeq([i \in DOMAIN log |-> i], LAMBDA i : Line(i) /\ Concerns(i, n))
    IN  \A n \in Nodes :
          [j \in DOMAIN Involving(ix, Name(n)) |-> ix.stored[Involving(ix, Name(n))[j]]] = Row(n)

(* The zoomed-out view counts every event of the window once, in the lane  *)
(* of the node it happened at and in the last bucket that begins no later. *)
DensityIsTrue ==
  phase = "done" =>
    LET ix == Index(log) IN
    \A w \in Windows, width \in {2, 3} :
      LET d == Density(log, ix, w[1], w[2], width)
          In(e) == w[1] <= e.t /\ e.t <= w[2] /\ Category(e) # "none"
          BucketOf(e) == Max({b \in 0 .. d.buckets - 1 : w[1] + b * width <= e.t})
          events == SelectSeq(log, In)
      IN  /\ DOMAIN d.count = {<<Lane(e), Category(e), BucketOf(e)>> : e \in Range(events)}
          /\ \A c \in DOMAIN d.count :
               d.count[c] = Len(SelectSeq(events,
                                  LAMBDA e : c = <<Lane(e), Category(e), BucketOf(e)>>))

(* The transmission shown for a command's reply is the first one its node  *)
(* made after it, although both may carry the same time.                   *)
ReplyFindsItsTx ==
  Readable =>
    LET ix == Index(log) IN
    \A i \in Logged({"cmd_reply"}) :
      LET later == {j \in Logged({"tx"}) : j > i /\ log[j].node = log[i].node}
      IN  FindMsgTx(log, ix, log[i].node, log[i].t)
            = IF later = {} THEN NoEvent ELSE log[Min(later)]

(* What a live session has answered for a window that is over stays the    *)
(* answer, whatever lus writes later, and the session only grows.          *)
FinishedWindowsAreFinal ==
  LET w     == Duration \div 2
      later == {i \in DOMAIN log : log[i].t > w}
  IN  phase = "done" /\ later # {} =>
      LET before == SubSeq(log, 1, Min(later))
      IN  /\ SessionEvents(before, 0, w) = SessionEvents(log, 0, w)
          /\ SessionDensity(before, 0, w, 2) = SessionDensity(log, 0, w, 2)
          /\ SessionMeta(before, <<>>).count <= SessionMeta(log, <<>>).count

(* Every query of the timeline tells what the file holds: windows, samples *)
(* and buckets, the row of a node, the frame of a reply, and live windows. *)
QueriesAreTrue ==
  /\ WindowIsFilter /\ SampleSpansWindow /\ RowIsComplete
  /\ DensityIsTrue /\ ReplyFindsItsTx /\ FinishedWindowsAreFinal
=============================================================================
