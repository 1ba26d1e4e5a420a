---------------------------- MODULE MeshFlights ----------------------------
(***************************************************************************)
(* The part of the dv_dual_sf MAC that decides what the event log says of  *)
(* a directed message: queueing, the RTS/CTS exchange that opens a hop,    *)
(* DATA and its ACK, retries, the cascade over alternative next hops, the  *)
(* requeueing of an exhausted item, duplicate suppression and forwarding.  *)
(* The log is what the offline reports (FlightReport) read.                *)
(*                                                                         *)
(* Abstractions: routes are fixed and ordered; the clock moves when a DATA *)
(* frame ends, and its ACK belongs to the same step; budgets, blindness,   *)
(* layers, gateways and the window of visited carriers are left out, so    *)
(* every candidate is selectable but the previous hop and those tried; and *)
(* a node that may get a message has a candidate, so none says             *)
(* send_no_route.                                                          *)
(* An event rts_tx or rts_retry stands for the rts_attempt_detail emitted  *)
(* just before it, too, and events no report reads are not logged.         *)
(***************************************************************************)
EXTENDS Integers, Sequences, FiniteSets, SequencesExt

CONSTANTS
  Nodes,       \* nodes of the mesh
  Messages,    \* directed messages: one (origin, dst, ctr, text) each
  Origin,      \* [Messages -> Nodes]
  Dest,        \* [Messages -> Nodes]
  Routes,      \* [Nodes -> [Nodes -> Seq(Nodes)]]: next hops, best first
  Configs,     \* what a run may be given: sends, the messages its commands send;
               \* retries, rts_max_retries; requeues, cascade_requeue_max;
               \* events, after how many events the run is cut
  None

ASSUME MeshAssumption ==
  /\ Origin \in [Messages -> Nodes] /\ Dest \in [Messages -> Nodes]
  /\ \A m \in Messages : Origin[m] # Dest[m]
  /\ Configs \subseteq [sends : SUBSET Messages, retries : Nat, requeues : Nat,
                        events : Nat]
  /\ IsFiniteSet(Nodes)

(* What pending_tx holds: the message and whom it came from, how often it  *)
(* was requeued, the hops tried, the next hop, the attempts left for it,   *)
(* and whether DATA went out.                                              *)
OpenFlights ==
  [m : Messages, prev : Nodes \union {None}, count : Nat, tried : SUBSET Nodes,
   next : Nodes, left : Nat, data : BOOLEAN]
ASSUME NoneAssumption ==
  None \notin Nodes \union OpenFlights /\ None # "already_received"

(* The candidates of n for a message. *)
Via(n, m) == ToSet(Routes[n][Dest[m]])

ASSUME RouteAssumption ==
  /\ Routes \in [Nodes -> [Nodes -> Seq(Nodes)]]
  /\ \A m \in Messages : Via(Origin[m], m) # {}
  /\ \A m \in Messages : \A n, h \in Nodes \ {Dest[m]} :
       n \in Via(h, m) => n # h /\ Via(n, m) \ {h} # {}

VARIABLES
  conf,    \* the configuration of this run
  now,     \* clock of the simulation, in DATA airtimes
  log,     \* the events of the run, in the order lus writes them
  sent,    \* the messages whose command has fired
  queue,   \* queue[n]: tx_queue
  px,      \* px[n]: pending_tx, or None
  air,     \* DATA frames on their way: {[from, to, m]}
  seen,    \* seen[n][m]: seen_origin_from, the previous hop, or None
  lost     \* DATA frames and ACKs that were destroyed (history)

vars == <<conf, now, log, sent, queue, px, air, seen, lost>>

Item(m, prev, count) == [m |-> m, prev |-> prev, count |-> count]

(* One event, at the time its step reaches: to is the peer or the next hop *)
(* it names, why its reason or trigger.                                    *)
Event(type, n, m, to) ==
  [t |-> now', type |-> type, node |-> n, m |-> m, to |-> to, why |-> None]
Because(e, why) == [e EXCEPT !.why = why]

(* pick_next_cascade_hop: the best candidate that is neither the previous  *)
(* hop nor already tried.                                                  *)
NextHop(n, m, prev, tried) ==
  LET hops == Routes[n][Dest[m]]
      left == {i \in DOMAIN hops : hops[i] # prev /\ hops[i] \notin tried}
  IN  IF left = {} THEN None ELSE hops[CHOOSE i \in left : \A j \in left : i <= j]

(* effective_rts_max_retries: one less for each requeueing. *)
Retries(count) == IF count < conf.retries THEN conf.retries - count ELSE 0

Pending(n, item) ==
  [m |-> item.m, prev |-> item.prev, count |-> item.count, tried |-> {},
   next |-> NextHop(n, item.m, item.prev, {}), left |-> Retries(item.count), data |-> FALSE]

FirstRts(n, p) == Event("rts_tx", n, p.m, p.next)
NextRts(n, p, why) == Because(Event("rts_retry", n, p.m, p.next), why)

(* The freshest item of a queue: least often requeued, then longest there. *)
Freshest(q) ==
  CHOOSE i \in DOMAIN q : \A j \in DOMAIN q \ {i} :
    q[i].count < q[j].count \/ (q[i].count = q[j].count /\ i < j)

(* become_free, issue_send: a node without a pending flight takes the      *)
(* freshest item of its queue and sends an RTS.                            *)
Settle(n, q, p, events) ==
  LET best  == Freshest(q)
      taken == Pending(n, q[best])
  IN  IF p # None \/ q = <<>>
      THEN /\ queue' = [queue EXCEPT ![n] = q]
           /\ px' = [px EXCEPT ![n] = p]
           /\ log' = log \o events
      ELSE /\ queue' = [queue EXCEPT ![n] = RemoveAt(q, best)]
           /\ px' = [px EXCEPT ![n] = taken]
           /\ log' = log \o Append(events, FirstRts(n, taken))

Init ==
  /\ conf \in Configs
  /\ now = 0 /\ log = <<>> /\ sent = {} /\ air = {}
  /\ queue = [n \in Nodes |-> <<>>]
  /\ px = [n \in Nodes |-> None]
  /\ seen = [n \in Nodes |-> [m \in Messages |-> None]]
  /\ lost = [data |-> 0, ack |-> 0]

(* The run is cut after conf.events events. *)
Running == Len(log) < conf.events

(* A send command fires at its originator. *)
Send(m) ==
  /\ Running /\ m \in conf.sends \ sent
  /\ sent' = sent \union {m}
  /\ UNCHANGED <<conf, now, air, seen, lost>>
  /\ Settle(Origin[m], Append(queue[Origin[m]], Item(m, None, 0)), px[Origin[m]],
            <<Event("tx_enqueue", Origin[m], m, None)>>)

(* The CTS of the next hop arrives and DATA goes out; a next hop that      *)
(* still remembers this very flight answers already_received instead.      *)
Cleared(n) ==
  LET p   == px[n]
      cts == Event("cts_rx", n, p.m, p.next) IN
  /\ Running /\ p # None /\ ~p.data
  /\ UNCHANGED <<conf, now, sent, seen, lost>>
  /\ \/ /\ air' = air \union {[from |-> n, to |-> p.next, m |-> p.m]}
        /\ px' = [px EXCEPT ![n].data = TRUE]
        /\ log' = log \o <<cts, Event("data_tx", n, p.m, p.next)>>
        /\ UNCHANGED queue
     \/ /\ seen[p.next][p.m] = n
        /\ Settle(n, queue[n], None, <<Because(cts, "already_received")>>)
        /\ UNCHANGED air

(* The hop failed: retry it, cascade to another next hop, put the item     *)
(* back into the queue, or give the flight up.                             *)
HopFailed(n, mayRetry, reason, trigger, giveup, events) ==
  LET p     == px[n]
      tried == p.tried \union {p.next}
      alt   == NextHop(n, p.m, p.prev, tried)
      again == [p EXCEPT !.left = @ - 1, !.data = FALSE]
      other == [p EXCEPT !.next = alt, !.tried = tried, !.left = Retries(p.count),
                         !.data = FALSE]
      As(type) == Because(Event(type, n, p.m, p.next), trigger)
  IN  IF mayRetry /\ p.left > 0
      THEN Settle(n, queue[n], again, Append(events, NextRts(n, again, reason)))
      ELSE IF alt # None
      THEN Settle(n, queue[n], other,
                  events \o <<As("path_cascade"), NextRts(n, other, "cascade")>>)
      ELSE IF mayRetry /\ p.count < conf.requeues
      THEN Settle(n, Append(queue[n], Item(p.m, p.prev, p.count + 1)), None,
                  Append(events, As("cascade_requeue")))
      ELSE Settle(n, queue[n], None, events \o <<As("path_cascade_exhausted"), As(giveup)>>)

(* rts_timeout_fire: no CTS came back. *)
RtsTimeout(n) ==
  /\ Running /\ px[n] # None /\ ~px[n].data
  /\ UNCHANGED <<conf, now, sent, air, seen, lost>>
  /\ HopFailed(n, TRUE, "cts_timeout", "rts_giveup", "rts_giveup",
               <<Event("rts_attempt_timeout", n, px[n].m, px[n].next)>>)

(* ack_timeout_fire: DATA or its ACK was lost. *)
AckTimeout(n) ==
  /\ Running /\ px[n] # None /\ px[n].data
  /\ [from |-> n, to |-> px[n].next, m |-> px[n].m] \notin air
  /\ UNCHANGED <<conf, now, sent, air, seen, lost>>
  /\ HopFailed(n, TRUE, "ack_timeout", "ack_giveup", "data_ack_giveup", <<>>)

(* The frame is destroyed on the air. *)
DataLost(f) ==
  /\ Running
  /\ air' = air \ {f}
  /\ lost' = [lost EXCEPT !.data = @ + 1]
  /\ UNCHANGED <<conf, now, log, sent, queue, px, seen>>

(* The frame ends and is decoded.                                          *)
Flying(f) == Running /\ now' = now + 1 /\ air' = air \ {f} /\ UNCHANGED <<conf, sent>>
Decoded(f) == Event("data_rx", f.to, f.m, f.from)
AckTx(f) == Event("ack_tx", f.to, f.m, f.from)
AckRx(f) == Event("ack_rx", f.from, f.m, f.to)
LosesAck == lost' = [lost EXCEPT !.ack = @ + 1]

(* A duplicate from the previous hop it first came from is only            *)
(* acknowledged; from another one it is a loop: the sender is told with a  *)
(* NACK, on which it cascades.                                             *)
Duplicate(f) ==
  /\ Flying(f) /\ seen[f.to][f.m] # None
  /\ UNCHANGED seen
  /\ LET told == <<Decoded(f), Event("dup_drop", f.to, f.m, f.from)>>
     IN  \/ /\ seen[f.to][f.m] = f.from /\ LosesAck
            /\ log' = log \o Append(told, AckTx(f)) /\ UNCHANGED <<queue, px>>
         \/ /\ seen[f.to][f.m] = f.from /\ UNCHANGED lost
            /\ Settle(f.from, queue[f.from], None, told \o <<AckTx(f), AckRx(f)>>)
         \/ /\ seen[f.to][f.m] # f.from /\ UNCHANGED lost
            /\ log' = log \o told /\ UNCHANGED <<queue, px>>
         \/ /\ seen[f.to][f.m] # f.from /\ UNCHANGED lost
            /\ HopFailed(f.from, FALSE, None, "loop_duplicate", "rts_giveup",
                         Append(told, Event("nack_rx", f.from, f.m, f.to)))

(* DATA is decoded for the first time: at its destination it is delivered, *)
(* at its own originator it is absorbed (origin_loop_drop), elsewhere it   *)
(* is forwarded.  The ACK reaches the sender or not.                       *)
DataRx(f) ==
  /\ Flying(f) /\ seen[f.to][f.m] = None
  /\ seen' = [seen EXCEPT ![f.to][f.m] = f.from]
  /\ \E acked \in BOOLEAN :
       LET item    == Item(f.m, f.from, 0)
           arrived == f.to = Dest[f.m]
           ends    == arrived \/ f.to = Origin[f.m]
           best    == Freshest(queue[f.from])
           next    == Pending(f.from, queue[f.from][best])
           taken   == Pending(f.to, item)
           frees   == acked /\ queue[f.from] # <<>>
           starts  == ~ends /\ px[f.to] = None
       IN  /\ IF acked THEN UNCHANGED lost ELSE LosesAck
           /\ queue' = [queue EXCEPT ![f.from] = IF frees THEN RemoveAt(@, best) ELSE @,
                                     ![f.to] = IF ends \/ starts THEN @
                                               ELSE Append(@, item)]
           /\ px' = [px EXCEPT ![f.from] = IF frees THEN next ELSE IF acked THEN None ELSE @,
                               ![f.to] = IF starts THEN taken ELSE @]
           /\ log' = log \o <<Decoded(f), AckTx(f)>>
                 \o (IF acked THEN <<AckRx(f)>> ELSE <<>>)
                 \o (IF frees THEN <<FirstRts(f.from, next)>> ELSE <<>>)
                 \o (IF arrived THEN <<Event("delivered", f.to, f.m, f.from)>>
                     ELSE IF starts THEN <<FirstRts(f.to, taken)>> ELSE <<>>)

Next ==
  \/ \E m \in Messages : Send(m)
  \/ \E n \in Nodes : Cleared(n) \/ RtsTimeout(n) \/ AckTimeout(n)
  \/ \E f \in air : DataLost(f) \/ Duplicate(f) \/ DataRx(f)

Spec == Init /\ [][Next]_vars
=============================================================================
