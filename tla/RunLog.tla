------------------------------- MODULE RunLog -------------------------------
(***************************************************************************)
(* The event log one run of lus writes, as the offline tools and the web   *)
(* server read it: what SimController emits at each phase of a step, and   *)
(* what the MAC script emits in the callbacks in between.  Node 0 has a    *)
(* message for node 1 (RTS, CTS or NACK, DATA); the last node sends        *)
(* beacons.  What the radio makes of a frame at a receiver is one of the   *)
(* outcomes the code can reach; time is counted in steps.                  *)
(*                                                                         *)
(* An identifier in an event is <<"id", i>> where lus writes the runtime   *)
(* index and <<"name", i>> where it writes the configured name.  The data  *)
(* of a script_emit is the record d.                                       *)
(***************************************************************************)
EXTENDS Integers, SequencesExt

CONSTANTS
  Scenes,    \* the scenarios: a set of records, see MCAlgorithms
  Duration   \* simulation.duration_ms, in steps

VARIABLES
  scene,    \* the scenario that runs
  log,      \* the events written so far
  now, phase,
  up,       \* per node: unborn, alive or dead
  air,      \* the frames in flight, oldest first (_in_flight)
  outbox,   \* per node: frames handed to the modem (pending_tx), with the time to send
  px,       \* pending_tx of the script on node 0
  rxp,      \* pending_rx of the script on node 1
  tries,    \* what became of every RTS attempt: history, read by no action
  flown     \* every frame that went on air, at its true times: likewise

runVars == <<scene, log, now, phase, up, air, outbox, px, rxp, tries, flown>>

Nodes == 0 .. scene.n - 1
Nobody == scene.n
Id(i) == <<"id", i>>
Name(i) == <<"name", i>>
RoutingSf == 8
RtsLabels == {"RTS", "RTS-rty"}
Responses == {"CTS", "CTS-dup", "NACK"}
AirtimeOf(label) == IF label \in {"BCN", "DATA"} THEN 2 ELSE 1

Event(type, n) == [type |-> type, t |-> now, node |-> Name(n)]
Emit(n, what, d) == [type |-> "script_emit", t |-> now, node |-> Id(n), emit |-> what, d |-> d]
OnAir(type, f, r) ==
  [type |-> type, t |-> now, from |-> Name(f.node), to |-> Name(r), pkt |-> f.pkt]
Received(f, r, snr) ==
  [type |-> "rx", t |-> now, from |-> Name(f.node), to |-> Name(r), pkt |-> f.pkt,
   snr |-> snr, sf |-> f.sf, air |-> AirtimeOf(f.label)]
Sent(f) ==
  [type |-> "tx", t |-> now, node |-> Name(f.node), pkt |-> f.pkt, label |-> f.label,
   sf |-> f.sf, air |-> AirtimeOf(f.label), seq |-> f.try]

Logged(types) == {i \in DOMAIN log : log[i].type \in types}
Emitted(what) == {i \in Logged({"script_emit"}) : log[i].emit = what}
WarmedUp == now >= scene.warm

(* A frame of the script: pkt is the hash of its bytes, which a retry with *)
(* the same header repeats.                                                *)
Frame(n, to, label, sf, try) ==
  [node |-> n, to |-> to, label |-> label, sf |-> sf, try |-> try, at |-> now, grant |-> 0,
   pkt |-> <<IF label \in RtsLabels THEN "RTS" ELSE IF label = "CTS-dup" THEN "CTS" ELSE label, n>>]

NoTx == [seq |-> 0, awaiting |-> FALSE, deadline |-> 0]
NoRx == [sf |-> 0, until |-> 0]
Alive(n) == up[n] = "alive"

(* An attempt the timeout overtook while a frame of it was on its way, or  *)
(* that was given the answer of an earlier one, stays that.                *)
Fate(k, fate) ==
  IF tries[k] \in {"overtaken", "answered late"} THEN tries ELSE [tries EXCEPT ![k] = fate]

-----------------------------------------------------------------------------
(* on_init announces the node to the tools, if the script is one that      *)
(* does; node_ready follows once on_init has returned.                     *)
BootOf(n) ==
  (IF scene.announces THEN <<Emit(n, "node_layer_info", [name |-> Name(n)])>> ELSE <<>>)
    \o <<Event("node_ready", n)>>
Ordered(ns) == SetToSortSeq(ns, <)
EventsOf(ns, Of(_)) == FoldLeft(LAMBDA es, n : es \o Of(n), <<>>, Ordered(ns))

RunInit ==
  /\ scene \in Scenes
  /\ now = 0
  /\ phase = "start"
  /\ up = [n \in Nodes |-> IF scene.start[n] = 0 THEN "alive" ELSE "unborn"]
  /\ log = (IF scene.profile THEN <<Emit(1, "node_clock_profile", [drift |-> 0])>> ELSE <<>>)
             \o <<[type |-> "sim_start", t |-> 0]>>
             \o EventsOf({n \in Nodes : scene.start[n] = 0}, BootOf)
  /\ air = <<>>
  /\ outbox = [n \in Nodes |-> <<>>]
  /\ px = NoTx
  /\ rxp = NoRx
  /\ tries = <<>>
  /\ flown = {}

(* The step marks the end of the warm-up, then births and deaths, which    *)
(* take the frames of the dead off the air, then boots the newborn.        *)
StartStep ==
  LET born == {n \in Nodes : up[n] = "unborn" /\ scene.start[n] <= now}
      died == {n \in Nodes : Alive(n) /\ scene.dies[n] <= now}
      mark == IF 0 < scene.warm /\ WarmedUp /\ Logged({"warmup_end"}) = {}
              THEN <<[type |-> "warmup_end", t |-> scene.warm]>> ELSE <<>>
      Started(n) == <<Event("node_started", n)>>
      Died(n) == <<Event("node_died", n)>>
  IN  /\ phase = "start"
      /\ up' = [n \in Nodes |-> IF n \in born THEN "alive" ELSE IF n \in died THEN "dead" ELSE up[n]]
      /\ log' = log \o mark \o EventsOf(born, Started) \o EventsOf(died, Died)
                    \o EventsOf(born, BootOf)
      /\ air' = SelectSeq(air, LAMBDA f : f.node \notin died)
      /\ phase' = "commands"
      /\ UNCHANGED <<scene, now, outbox, px, rxp, tries, flown>>

(* One RTS attempt of the script: the detail, the rts_tx or rts_retry, and *)
(* the frame; the timeout runs from the moment the modem has it.           *)
Detail(past) == [seq |-> Len(past) + 1, next |-> 1, ctr |-> 0, age |-> now]
Attempt(what, label, past) ==
  LET k == Len(past) + 1
  IN  /\ tries' = Append(past, "queued")
      /\ px' = [seq |-> k, awaiting |-> TRUE, deadline |-> now + 2]
      /\ outbox' = [outbox EXCEPT ![0] = Append(@, Frame(0, 1, label, RoutingSf, k))]
      /\ log' = log \o what

SendCommand ==
  LET d == Detail(tries)
      first == <<Emit(0, "rts_attempt_detail", d), Emit(0, "rts_tx", d), Event("cmd_reply", 0)>>
  IN  /\ phase = "commands"
      /\ tries = <<>>
      /\ 0 < scene.tries
      /\ Alive(0)
      /\ Attempt(first, "RTS", tries)
      /\ phase' = "land"
      /\ UNCHANGED <<scene, now, up, air, rxp, flown>>

NoCommand ==
  /\ phase = "commands"
  /\ phase' = "land"
  /\ UNCHANGED <<scene, now, up, air, outbox, px, rxp, log, tries, flown>>

-----------------------------------------------------------------------------
(* What the script of node r does with a decoded frame: the emits, the     *)
(* frames it hands to the modem, and its new state.                        *)
Effect(es, frames, tx, rx, fates) ==
  [emits |-> es, frames |-> frames, px |-> tx, rxp |-> rx, tries |-> fates]
Ignored == Effect(<<>>, <<>>, px, rxp, tries)
Peer(f) == [peer |-> f.node, ctr |-> 0]
State(f, busy) == Emit(1, "rts_receiver_state", [busy |-> busy] @@ Peer(f))

Answered(f, label, es, rx) ==
  Effect(<<State(f, IF rxp = NoRx THEN "no" ELSE "rx")>> \o es,
         <<[Frame(1, 0, label, RoutingSf, f.try) EXCEPT !.grant = rx.sf]>>,
         px, rx, Fate(f.try, "answered"))

OnRts(f) ==
  IF rxp # NoRx
  THEN {Answered(f, "CTS-dup", <<Emit(1, "rts_rx_dup", Peer(f)), Emit(1, "cts_tx", Peer(f))>>, rxp)}
  ELSE {Answered(f, "CTS", <<Emit(1, "rts_rx", Peer(f)), Emit(1, "cts_tx", Peer(f))>>,
                 [sf |-> sf, until |-> now + 4]) : sf \in scene.dataSfs}
       \cup {Answered(f, "NACK", <<Emit(1, "nack_tx", Peer(f))>>, rxp),
             Effect(<<State(f, "tx"), Emit(1, "rts_drop_pending_tx", Peer(f))>>,
                    <<>>, px, rxp, Fate(f.try, "dropped"))}

(* The sender takes an answer for its latest attempt, whichever it is for. *)
OnResponse(f) ==
  IF ~px.awaiting THEN Ignored
  ELSE LET seen == IF f.label = "NACK" THEN "nack_rx" ELSE "cts_rx"
       IN  Effect(<<Emit(0, seen, [peer |-> f.node, ctr |-> 0, seq |-> px.seq])>>,
                  IF f.label = "NACK" THEN <<>> ELSE <<Frame(0, 1, "DATA", f.grant, 0)>>,
                  NoTx, rxp,
                  Fate(px.seq, IF f.try # px.seq THEN "answered late"
                               ELSE IF f.label = "NACK" THEN "nack" ELSE "cts"))

Reactions(r, f) ==
  IF f.label \in RtsLabels /\ r = 1      THEN OnRts(f)
  ELSE IF f.label \in Responses /\ r = 0 THEN {OnResponse(f)}
  ELSE IF f.label = "DATA" /\ r = 1      THEN {Effect(<<>>, <<>>, px, NoRx, tries)}
  ELSE IF f.label = "BCN"
  THEN {Effect(<<Emit(r, "beacon_rx", Peer(f))>>, <<>>, px, rxp, tries)}
  ELSE {Ignored}

-----------------------------------------------------------------------------
(* Deliveries.  The frames that have ended are looked at one receiver at a *)
(* time, in the order of _in_flight and of the node indices.               *)
Ended == {k \in DOMAIN air : air[k].end <= now}
Overlapping(f, ns) ==
  \E g \in flown : g.node \in ns /\ g.start < f.end /\ f.start < g.end
Tuned(r, f) == f.sf = IF r = 1 /\ rxp # NoRx THEN rxp.sf ELSE RoutingSf

(* An overlap that destroys the frame is logged where the frame could have *)
(* been decoded; the gates after it apply to what is left.                 *)
Outcomes(r, f) ==
  IF ~Alive(r)
  THEN {IF f.label \in RtsLabels /\ f.to = r THEN "drop_receiver_inactive" ELSE "silent"}
  ELSE (IF Overlapping(f, Nodes \ {r, f.node})
        THEN {IF Tuned(r, f) THEN "collision" ELSE "silent"} ELSE {})
       \cup (IF ~Tuned(r, f) THEN {"drop_sf_mismatch", "silent"}
             ELSE IF Overlapping(f, {r}) THEN {"drop_halfduplex"}
             ELSE {"drop_weak", "rx"})

React(f, r, snr, e) ==
  /\ log' = log \o e.emits \o <<Received(f, r, snr)>>
  /\ outbox' = [outbox EXCEPT ![r] = @ \o e.frames]
  /\ px' = e.px
  /\ rxp' = e.rxp
  /\ tries' = e.tries

(* An attempt, or the answer to it, that its addressee did not decode. *)
Missed(f, r, outcome) ==
  IF r # f.to \/ f.try = 0 \/ tries[f.try] \notin {"flying", "answered"} THEN tries
  ELSE IF f.label \in RtsLabels
  THEN Fate(f.try, IF outcome = "silent" THEN "unheard" ELSE "lost")
  ELSE Fate(f.try, IF f.label = "NACK" THEN "nack lost"
                   ELSE IF outcome = "silent" THEN "answer unheard" ELSE "answer lost")

Land(k, r) ==
  LET f == air[k] IN
  /\ air' = IF f.todo = {r} THEN SelectSeq(air, LAMBDA g : g # f)
                             ELSE [air EXCEPT ![k].todo = @ \ {r}]
  /\ \E o \in Outcomes(r, f) :
       \/ /\ o = "rx"
          /\ \E e \in Reactions(r, f), snr \in IF f.label = "DATA" THEN scene.snrs ELSE {0} :
               React(f, r, snr, e)
       \/ /\ o # "rx"
          /\ log' = IF o = "silent" THEN log ELSE Append(log, OnAir(o, f, r))
          /\ tries' = Missed(f, r, o)
          /\ UNCHANGED <<outbox, px, rxp>>

Deliver ==
  /\ phase = "land"
  /\ IF Ended = {} \/ ~WarmedUp
     THEN phase' = "timers" /\ UNCHANGED <<air, log, outbox, px, rxp, tries>>
     ELSE LET k == Min(Ended) IN Land(k, Min(air[k].todo)) /\ phase' = phase
  /\ UNCHANGED <<scene, now, up, flown>>

-----------------------------------------------------------------------------
(* Timers of the script: the wait for a CTS runs out and is retried while  *)
(* the scenario allows, the wait for DATA runs out, a beacon is due, the   *)
(* periodic snapshot tells the budget tier.                                *)
RtsTimeout ==
  LET Expired == <<Emit(0, "rts_attempt_timeout", [seq |-> px.seq])>>
      past == IF tries[px.seq] \in {"queued", "flying", "answered"} THEN Fate(px.seq, "overtaken") ELSE tries
      d == Detail(past)
      again == Expired \o <<Emit(0, "rts_attempt_detail", d), Emit(0, "rts_retry", d)>>
  IN  /\ px.seq # 0
      /\ px.deadline <= now
      /\ IF Len(tries) < scene.tries THEN Attempt(again, "RTS-rty", past)
         ELSE /\ px' = NoTx
              /\ tries' = past
              /\ log' = log \o Expired
              /\ UNCHANGED outbox
      /\ UNCHANGED rxp

RxExpiry ==
  /\ rxp # NoRx
  /\ rxp.until <= now
  /\ rxp' = NoRx
  /\ UNCHANGED <<log, outbox, px, tries>>

Fired(n, what) == \E i \in Emitted(what) : log[i].node = Id(n) /\ log[i].t = now

Beacon(n) ==
  /\ Alive(n)
  /\ n \in scene.beacons
  /\ now \in scene.ticks
  /\ Cardinality(Emitted("beacon_tx")) < scene.maxBeacons
  /\ ~Fired(n, "beacon_tx")
  /\ outbox' = [outbox EXCEPT ![n] = Append(@, Frame(n, Nobody, "BCN", RoutingSf, 0))]
  /\ log' = Append(log, Emit(n, "beacon_tx", [seq |-> 0]))
  /\ UNCHANGED <<px, rxp, tries>>

Snapshot(n) ==
  /\ Alive(n)
  /\ now \in scene.ticks
  /\ Cardinality(Emitted("node_state_snapshot")) < scene.snaps
  /\ ~Fired(n, "node_state_snapshot")
  /\ \E tier \in 0 .. 1 : log' = Append(log, Emit(n, "node_state_snapshot", [tier |-> tier]))
  /\ UNCHANGED <<outbox, px, rxp, tries>>

TimersDone ==
  /\ phase' = "register"
  /\ px.seq = 0 \/ now < px.deadline
  /\ rxp = NoRx \/ now < rxp.until
  /\ UNCHANGED <<log, outbox, px, rxp, tries>>

Timers ==
  /\ phase = "timers"
  /\ \/ /\ \/ Alive(0) /\ RtsTimeout
           \/ RxExpiry
           \/ \E n \in Nodes : Beacon(n) \/ Snapshot(n)
        /\ phase' = phase
     \/ TimersDone
  /\ UNCHANGED <<scene, now, up, air, flown>>

-----------------------------------------------------------------------------
(* The modem.  Before the end of the warm-up a frame is logged and reaches *)
(* every living node at once; after it, a node that is on the air or hears *)
(* another is told that its radio is busy, and any other frame takes off,  *)
(* after what is being received has ended.                                 *)
Ready(n) == {k \in DOMAIN outbox[n] : outbox[n][k].at <= now}
Senders == {n \in Nodes : Alive(n) /\ Ready(n) # {}}
Head1(n) == outbox[n][Min(Ready(n))]
Rest(n) == RemoveAt(outbox[n], Min(Ready(n)))

Busy(n) == {f \in Range(air) : f.node = n}
Heard(n) == {f \in Range(air) : f.node # n}

(* The script hears of a refusal: an RTS waits for its timeout, an answer  *)
(* or DATA is offered again later, a beacon is forgotten.                  *)
Defer(n, f) ==
  LET again == [f EXCEPT !.at = Max({g.end : g \in Busy(n) \cup Heard(n)}) + 1]
  IN  /\ log' = log \o <<[type |-> "tx_deferred", t |-> now, node |-> Name(n),
                          label |-> f.label, seq |-> f.try]>>
                    \o (IF f.label \in RtsLabels THEN <<Emit(n, "rts_tx_blocked", [seq |-> px.seq])>> ELSE <<>>)
      /\ outbox' = [outbox EXCEPT ![n] =
           IF f.label \in RtsLabels \cup {"BCN"} THEN Rest(n) ELSE Append(Rest(n), again)]
      /\ px' = IF f.label \in RtsLabels THEN [px EXCEPT !.awaiting = FALSE] ELSE px
      /\ tries' = IF f.label \in RtsLabels THEN Fate(f.try, "blocked") ELSE tries
      /\ UNCHANGED <<air, flown>>

TakeOff(n, f) ==
  LET starts == {now} \cup (IF Heard(n) = {} THEN {} ELSE {Max({g.end : g \in Heard(n)})})
  IN  \E s \in starts :
        LET g == [node |-> n, to |-> f.to, label |-> f.label, sf |-> f.sf, pkt |-> f.pkt,
                  try |-> f.try, grant |-> f.grant, start |-> s, end |-> s + AirtimeOf(f.label)]
        IN  /\ air' = Append(air, [todo |-> Nodes \ {n}] @@ g)
            /\ flown' = flown \cup {g}
            /\ log' = Append(log, Sent(f))
            /\ outbox' = [outbox EXCEPT ![n] = Rest(n)]
            /\ tries' = IF f.label \in RtsLabels THEN Fate(f.try, "flying") ELSE tries
            /\ UNCHANGED px

(* Only beacons are modelled during a warm-up. *)
Warmup(n, f) ==
  LET Heard1(r) == <<Emit(r, "beacon_rx", Peer(f)), Received(f, r, 0)>>
  IN  /\ log' = log \o <<Sent(f)>> \o EventsOf({r \in Nodes \ {n} : Alive(r)}, Heard1)
      /\ outbox' = [outbox EXCEPT ![n] = Rest(n)]
      /\ UNCHANGED <<air, flown, px, tries>>

Register ==
  /\ phase = "register"
  /\ Senders # {}
  /\ LET n == Min(Senders)
         f == Head1(n)
     IN  IF ~WarmedUp THEN Warmup(n, f)
         ELSE IF Busy(n) # {} THEN Defer(n, f)
         ELSE \/ TakeOff(n, f)
              \/ Heard(n) # {} /\ scene.lbt /\ Defer(n, f)
  /\ UNCHANGED <<scene, now, phase, up, rxp>>

EndStep ==
  /\ phase = "register"
  /\ Senders = {}
  /\ IF now < Duration THEN now' = now + 1 /\ phase' = "start" /\ log' = log
     ELSE phase' = "done" /\ log' = Append(log, [type |-> "sim_end", t |-> Duration]) /\ now' = now
  /\ UNCHANGED <<scene, up, air, outbox, px, rxp, tries, flown>>

RunNext ==
  StartStep \/ SendCommand \/ NoCommand \/ Deliver \/ Timers \/ Register \/ EndStep

RunSpec == RunInit /\ [][RunNext]_runVars
=============================================================================
