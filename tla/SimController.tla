--------------------------- MODULE SimController ---------------------------
(***************************************************************************)
(* orchestrator/runtime/SimController: the discrete-time engine that runs  *)
(* every node and the radio channel between them.                          *)
(*                                                                         *)
(* One call of step() is the sequence of phases                            *)
(*                                                                         *)
(*   lifecycle -> startup -> commands -> deliver -> timers -> register     *)
(*                                                                         *)
(* after which simulated time advances.  initialize() boots some nodes     *)
(* before the first step, and an operator may command a node between two   *)
(* steps.  A node's firmware or Lua script is external: whenever the       *)
(* engine calls back into it, it may queue a frame, retune its receiver,   *)
(* ask how much airtime it has used, or do nothing.  The in-flight list is *)
(* a set of frames, ordered where the order matters by the id that         *)
(* registration gives them.                                                *)
(***************************************************************************)
EXTENDS CollisionModel, FiniteSetsExt, Sequences

CONSTANTS
  N,              \* number of nodes
  Links,          \* Links[s][r]: SNR in dB from s to r, or NoLink
  NoLink,         \* MatrixLinkModel::getLink returns false
  Freqs, Sfs, Bws, Lens, Labels,
  BootTune,       \* BootTune[i]: carrier, SF set and bandwidth at boot
  Tunings,        \* what a node may retune its receiver to
  Packets,        \* what a node may ask to transmit
  Inherit,        \* the -1 sentinel: use the radio's current SF or BW
  Airtime,        \* Airtime[<<sf, bw, len>>], ms
  SnrThreshold,   \* SnrThreshold[sf]: demodulator floor, dB
  MaxPacketBytes, \* simulation.radio.max_packet_bytes
  RxToTx, TxToRx, SfSwitch,      \* hardware delays, ms
  EnergyMode,     \* lbt_model is "energy" (else "cad")
  EnergyThreshold, CadMarginalSnr,
  LbtNodes,       \* nodes with lbt_enabled
  TxFailNodes,    \* nodes with tx_fail_prob > 0
  DutyWindow,     \* duty_cycle_window_ms, 0 when duty cycling is off
  DutyBudget,     \* duty_cycle * window, ms
  QueryWindows,   \* windows a node passes to airtime_used_ms
  Fades, Losses,  \* fading offsets; whether a random loss may happen
  Drops,          \* forced_drops directives, a sequence
  Commands,       \* scheduled commands, a sequence of [at, node]
  StartAt, DiesAt, MaxJitter,
  Cr, PreSym, SymbolMs, PreambleMs,
  Warmup, Duration,
  Steps,          \* how far one step() may advance time, ms
  Console,        \* nodes an operator commands from the interactive REPL
  MaxTx           \* bound: frames the nodes queue in one behaviour

Nodes == 1 .. N

Tune == [freq : Freqs, sfs : SUBSET Sfs, bw : Bws]
Phy  == [sf : Sfs, bw : Bws]
Packet == [len : Lens, sf : Sfs \cup {Inherit}, bw : Bws \cup {Inherit},
           label : Labels, pdelta : Int]
Directive == [from : Nodes \cup {0}, to : Nodes \cup {0},
              label : Labels \cup {""}, nth : Nat \ {0}, count : Nat \ {0}]

ASSUME ConfigAssumption ==
  /\ N \in Nat
  /\ NoLink \in Int
  /\ Links \in [Nodes -> [Nodes -> Int]]
  /\ BootTune \in [Nodes -> Tune]
  /\ \A i \in Nodes : BootTune[i].sfs # {}
  /\ Tunings \subseteq Tune
  /\ Packets \subseteq Packet
  /\ Airtime \in [Sfs \X Bws \X Lens -> Nat \ {0}]
  /\ SnrThreshold \in [Sfs -> Int]
  /\ Lens \subseteq Nat /\ MaxPacketBytes \in Nat
  /\ RxToTx \in Nat /\ TxToRx \in Nat /\ SfSwitch \in Nat
  /\ EnergyMode \in BOOLEAN /\ EnergyThreshold \in Int /\ CadMarginalSnr \in Int
  /\ LbtNodes \subseteq Nodes /\ TxFailNodes \subseteq Nodes
  /\ DutyWindow \in Nat /\ DutyBudget \in Nat /\ QueryWindows \subseteq Nat
  /\ Fades \subseteq Int /\ Fades # {} /\ Losses \in BOOLEAN
  /\ Drops \in Seq(Directive)
  /\ Commands \in Seq([at : Nat, node : Nodes])
  /\ StartAt \in [Nodes -> Nat] /\ DiesAt \in [Nodes -> Nat] /\ MaxJitter \in Nat
  /\ Cr \in 5 .. 8 /\ PreSym \in Nat /\ SymbolMs \in Nat /\ PreambleMs \in Nat
  /\ Warmup \in Nat /\ Duration \in Nat
  /\ Steps \subseteq Nat \ {0} /\ Steps # {}
  /\ Console \subseteq Nodes
  /\ MaxTx \in Nat

VARIABLES
  now,          \* _now_ms
  phase,        \* which part of step() runs next
  alive,        \* _node_alive, as the set of alive nodes
  initialized,  \* nodes whose on_init has run
  initAt,       \* _node_init_at_ms
  lifeLog,      \* lifecycle events of each node, in emission order
  fired,        \* _command_fired, as the set of fired command indices
  inFlight,     \* _in_flight
  collided,     \* collided_at_rcv: pairs <<frame id, receiver>>
  txUntil,      \* _node_tx_in_flight_until
  lastTx,       \* _node_last_tx_start_ms / _node_last_tx_end_ms
  radio,        \* SimRadio: RX-active window and RX->TX turnaround
  busyUntil,    \* LbtModel::_busy_until (CAD mode)
  tune,         \* live receive tuning of each node
  txPhy,        \* the SF and BW the node's radio last transmitted with
  blindUntil,   \* rxBlindUntilMs: SF-retune blind window
  dutyLog,      \* _tx_airtime_log
  pending,      \* _pending_txs
  dropCount,    \* _drop_match_count
  todo,         \* ids of the ended frames deliverReceptions has yet to visit
  turn, batch,  \* node being drained by registerTransmissions, frames left
  queued,       \* frames queued so far (bounded by MaxTx)
  nextId,       \* id of the next registered frame
  aired,        \* history: every registered frame that did not evaporate
  received      \* history: pairs <<frame, receiver>> handed to onRecv

nodeVars == <<tune, txPhy, blindUntil, dutyLog, pending, queued>>
airVars  == <<inFlight, collided, txUntil, lastTx, radio, busyUntil, nextId, aired>>
lifeVars == <<alive, initialized, initAt, lifeLog>>
loopVars == <<todo, turn, batch>>
vars == <<now, phase, lifeVars, fired, airVars, nodeVars, dropCount, loopVars, received>>

Frame == [id : Nat, sender : Nodes, start : Nat, end : Nat, freq : Freqs,
          sf : Sfs, bw : Bws, label : Labels, pdelta : Int]
-----------------------------------------------------------------------------
(* The radio channel. *)

HasLink(s, r) == Links[s][r] # NoLink

(* tunedToCarrier: the one carrier-reachability rule. *)
TunedToCarrier(i, freq) == tune[i].freq = freq

(* toCaptured, with the frame's explicit TX-power delta. *)
ToCaptured(f, r) ==
  [snr |-> Links[f.sender][r] + f.pdelta, start |-> f.start, end |-> f.end,
   sf |-> f.sf, cr |-> Cr, pre |-> PreSym, sym |-> SymbolMs, tpre |-> PreambleMs]

(* Receiver r would lose frame f to frame g. *)
Destroys(g, f, r) ==
  /\ Overlaps(g, f)
  /\ g.freq = f.freq
  /\ r \in Nodes \ {f.sender, g.sender}
  /\ HasLink(f.sender, r) /\ HasLink(g.sender, r)
  /\ ~Survives(ToCaptured(f, r), ToCaptured(g, r))

AudibleOnBootCarrier(i) ==
  { f \in inFlight : /\ f.sender # i
                     /\ f.end > now
                     /\ BootTune[i].freq = f.freq
                     /\ HasLink(f.sender, i)
                     /\ Links[f.sender][i] >= EnergyThreshold }

(* The energy-LBT ask-time provider: frames that observer i hears now. *)
Audible(i) ==
  { f \in inFlight : /\ f.sender # i
                     /\ f.end > now
                     /\ TunedToCarrier(i, f.freq)
                     /\ HasLink(f.sender, i)
                     /\ Links[f.sender][i] > -100
                     /\ Links[f.sender][i] >= EnergyThreshold }

(* LbtModel::isChannelBusy. *)
IsChannelBusy(i) == IF EnergyMode THEN Audible(i) # {} ELSE busyUntil[i] > now

NotifyRxNoTurnaround(r, until) ==
  IF until > r.rxUntil THEN [rxUntil |-> until, earliestTx |-> until] ELSE r

(* SimRadio::notifyRxStart: a reception until `until` delays the next TX. *)
NotifyRxStart(r, until) ==
  IF until > r.rxUntil THEN [rxUntil |-> until, earliestTx |-> until + RxToTx] ELSE r
-----------------------------------------------------------------------------
(* The duty-cycle log of a node.  The code's deque is ordered by end (a    *)
(* node's frames follow one another), so a set of entries represents it.   *)

Cutoff(window) == IF now > window THEN now - window ELSE 0

(* airtimeUsedInWindow pops every leading entry that ended by the cutoff. *)
Pruned(log, window) ==
  IF window = 0 THEN log ELSE { e \in log : e.end > Cutoff(window) }

AirtimeUsed(i) == MapThenSumSet(LAMBDA e : e.air, Pruned(dutyLog[i], DutyWindow))
-----------------------------------------------------------------------------
(* A node called back by the engine (onInit, onCommand, onRecv, onTimer,   *)
(* onRadioBusy, onPreambleDetected) does one of these.  Nodes that are not *)
(* initialized ignore the callback.                                        *)

Reactions ==
  [kind : {"idle"}] \cup [kind : {"tx"}, packet : Packets]
    \cup [kind : {"retune"}, to : Tunings] \cup [kind : {"query"}, window : QueryWindows]

React(callees, ready, log, phy) ==
  \E act \in [callees \cap ready -> Reactions] :
    LET Of(kind) == { i \in DOMAIN act : act[i].kind = kind }
    IN  /\ queued + Cardinality(Of("tx")) <= MaxTx
        /\ queued' = queued + Cardinality(Of("tx"))
        /\ pending' = [i \in Nodes |->
             IF i \in Of("tx") THEN Append(pending[i], act[i].packet) ELSE pending[i]]
        /\ tune' = [i \in Nodes |-> IF i \in Of("retune") THEN act[i].to ELSE tune[i]]
        /\ txPhy' = [i \in Nodes |->
             IF i \in Of("retune") THEN [phy[i] EXCEPT !.bw = act[i].to.bw] ELSE phy[i]]
        /\ blindUntil' = [i \in Nodes |->
             IF i \in Of("retune") /\ SfSwitch > 0
             THEN Latest(blindUntil[i], now + SfSwitch) ELSE blindUntil[i]]
        /\ dutyLog' = [i \in Nodes |->
             IF i \in Of("query") THEN Pruned(log[i], act[i].window) ELSE log[i]]
-----------------------------------------------------------------------------
(* initialize(): a node without start_at_ms boots at a random offset up to *)
(* the startup jitter.                                                     *)
Init ==
  /\ now = 0
  /\ phase = "boot"
  /\ alive = { i \in Nodes : StartAt[i] = 0 }
  /\ \E jitter \in [Nodes -> 0 .. MaxJitter] :
       initAt = [i \in Nodes |-> IF StartAt[i] > 0 THEN StartAt[i] ELSE jitter[i]]
  /\ initialized = {}
  /\ lifeLog = [i \in Nodes |-> <<>>]
  /\ fired = {}
  /\ inFlight = {} /\ collided = {} /\ aired = {} /\ received = {}
  /\ txUntil = [i \in Nodes |-> 0]
  /\ lastTx = [i \in Nodes |-> [start |-> 0, end |-> 0]]
  /\ radio = [i \in Nodes |-> [rxUntil |-> 0, earliestTx |-> 0]]
  /\ busyUntil = [i \in Nodes |-> 0]
  /\ tune = BootTune
  /\ txPhy = [i \in Nodes |-> [sf |-> CHOOSE s \in BootTune[i].sfs : TRUE, bw |-> BootTune[i].bw]]
  /\ blindUntil = [i \in Nodes |-> 0]
  /\ dutyLog = [i \in Nodes |-> {}]
  /\ pending = [i \in Nodes |-> <<>>]
  /\ dropCount = [k \in 1 .. Len(Drops) |-> 0]
  /\ todo = {} /\ turn = 0 /\ batch = <<>>
  /\ queued = 0 /\ nextId = 0
-----------------------------------------------------------------------------
(* The verdicts and the slots that outlive the frames of `gone`.  A slot   *)
(* is cleared only while it still holds that frame's end.                  *)
KeepVerdicts(gone) == collided

VerdictsWithout(gone) == { c \in collided : \A f \in gone : c[1] # f.id }

KeepSlots(gone) == txUntil

SlotsWithout(gone) ==
  [i \in Nodes |-> IF \E f \in gone : f.sender = i /\ f.end = txUntil[i]
                   THEN 0 ELSE txUntil[i]]

(* processLifecycleAtStep: births, then deaths.  A dying node's frame is   *)
(* dropped from the air.                                                   *)
Born  == { i \in Nodes \ (alive \cup initialized) : StartAt[i] > 0 /\ now >= StartAt[i] }
DyingAgain == { i \in Nodes : DiesAt[i] > 0 /\ now >= DiesAt[i] }
Dying == { i \in alive \cup Born : DiesAt[i] > 0 /\ now >= DiesAt[i] }

FramesFinishAnyway == {}

Evaporating == { f \in inFlight : f.sender \in Dying }

Lifecycle ==
  /\ phase = "lifecycle"
  /\ phase' = "startup"
  /\ alive' = (alive \cup Born) \ Dying
  /\ lifeLog' = [i \in Nodes |-> lifeLog[i]
                   \o (IF i \in Born THEN <<"started">> ELSE <<>>)
                   \o (IF i \in Dying THEN <<"died">> ELSE <<>>)]
  /\ inFlight' = inFlight \ Evaporating
  /\ aired' = aired \ Evaporating
  /\ collided' = VerdictsWithout(Evaporating)
  /\ txUntil' = [i \in Nodes |-> IF i \in Dying THEN 0 ELSE txUntil[i]]
  /\ UNCHANGED <<now, initialized, initAt, fired, lastTx, radio, busyUntil, nextId,
                 nodeVars, dropCount, loopVars, received>>

(* on_init of the nodes whose boot time has come: initialize() boots those *)
(* of offset 0 before the first step, processStartupAtStep the others.     *)
(* Neither looks at _node_alive.                                           *)
Booting == { i \in Nodes \ initialized : initAt[i] <= now }

BootNodes ==
  /\ initialized' = initialized \cup Booting
  /\ lifeLog' = [i \in Nodes |->
                   IF i \in Booting THEN Append(lifeLog[i], "ready") ELSE lifeLog[i]]
  /\ React(Booting, Booting, dutyLog, txPhy)
  /\ UNCHANGED <<now, alive, initAt, fired, airVars, dropCount, loopVars, received>>

Boot == phase = "boot" /\ phase' = "lifecycle" /\ BootNodes

Startup == phase = "startup" /\ phase' = "commands" /\ BootNodes

(* fireCommand: the REPL runs a command between two steps, without looking *)
(* at _node_alive either.                                                  *)
ConsoleCommand ==
  /\ phase = "lifecycle"
  /\ \E i \in Console : React({i}, initialized, dutyLog, txPhy)
  /\ UNCHANGED <<now, phase, lifeVars, fired, airVars, dropCount, loopVars, received>>

(* processCommandsAtStep visits the due commands in order.  A command for  *)
(* a dead node is dropped, one for an unborn node stays queued.            *)
Died(i) == i \notin alive /\ DiesAt[i] > 0 /\ now >= DiesAt[i]

DueCommandsOfLiving ==
  { k \in 1 .. Len(Commands) \ fired : Commands[k].at <= now /\ Commands[k].node \in alive }

DueCommands ==
  { k \in 1 .. Len(Commands) \ fired :
      /\ Commands[k].at <= now
      /\ Commands[k].node \in alive \/ Died(Commands[k].node) }

FireCommand ==
  /\ phase = "commands"
  /\ \E k \in DueCommands :
       /\ \A j \in DueCommands : k <= j
       /\ fired' = fired \cup {k}
       /\ React({Commands[k].node} \cap alive, initialized, dutyLog, txPhy)
  /\ UNCHANGED <<now, phase, lifeVars, airVars, dropCount, loopVars, received>>

(* Frames whose airtime has elapsed. *)
Elapsed == { f \in inFlight : f.end <= now }

CommandsDone ==
  /\ phase = "commands"
  /\ DueCommands = {}
  /\ phase' = "deliver"
  /\ todo' = IF now < Warmup THEN {} ELSE { f.id : f \in Elapsed }
  /\ UNCHANGED <<now, lifeVars, fired, airVars, nodeVars, dropCount, turn, batch, received>>
-----------------------------------------------------------------------------
(* Half-duplex and TX->RX settling: receiver r cannot hear f when one of   *)
(* its own transmissions, extended by the settling time, touches f's       *)
(* airtime.  The engine knows r's frames still in flight and, because an   *)
(* ended frame has left that list, r's most recent transmission.           *)
OwnTxInFlight(r) ==
  { [start |-> g.start, end |-> g.end] : g \in { h \in inFlight : h.sender = r } }

OwnTx(r) ==
  OwnTxInFlight(r)
    \cup (IF lastTx[r].end # 0 THEN {lastTx[r]} ELSE {})

Deaf(f, r) == \E w \in OwnTx(r) : w.start < f.end /\ w.end + TxToRx > f.start

(* The gates of deliverReceptionsForStep, all of which a reception passes. *)
Hears(f, r, fade, lost) ==
  /\ f.sender \in alive /\ r \in alive
  /\ HasLink(f.sender, r)
  /\ TunedToCarrier(r, f.freq)
  /\ <<f.id, r>> \notin collided
  /\ f.sf \in tune[r].sfs
  /\ f.bw = tune[r].bw
  /\ Links[f.sender][r] + f.pdelta + fade >= SnrThreshold[f.sf]
  /\ ~lost
  /\ f.start >= blindUntil[r]
  /\ ~Deaf(f, r)

(* forced_drops: directive k drops the nth .. nth+count-1 frames matching  *)
(* it; a frame counts once however many receivers it reaches, and is not   *)
(* shown to k at a receiver where an earlier directive dropped it.         *)
Matches(k, f, r) ==
  /\ Drops[k].from \in {0, f.sender}
  /\ Drops[k].to \in {0, r}
  /\ Drops[k].label \in {"", f.label}

InWindowFromZero(k) == dropCount[k] \in Drops[k].nth .. Drops[k].nth + Drops[k].count - 1

InWindow(k) == dropCount[k] + 1 \in Drops[k].nth .. Drops[k].nth + Drops[k].count - 1

ForcedDrop(f, r) == \E k \in DOMAIN Drops : Matches(k, f, r) /\ InWindow(k)

Counts(k, f, reached) ==
  \E r \in reached : /\ Matches(k, f, r)
                     /\ \A j \in 1 .. k - 1 : Matches(j, f, r) => ~InWindow(j)

(* deliverReceptionsForStep, one ended frame: every receiver decides.      *)
Deliver ==
  /\ phase = "deliver"
  /\ todo # {}
  /\ \E f \in inFlight :
       /\ f.id \in todo
       /\ \A j \in todo : f.id <= j
       /\ todo' = todo \ {f.id}
       /\ \E fade \in [Nodes \ {f.sender} -> Fades],
            lost \in SUBSET (IF Losses THEN Nodes \ {f.sender} ELSE {}) :
            LET reached == { r \in Nodes \ {f.sender} : Hears(f, r, fade[r], r \in lost) }
                kept    == { r \in reached : ~ForcedDrop(f, r) }
            IN  /\ dropCount' = [k \in DOMAIN Drops |->
                     IF Counts(k, f, reached) THEN dropCount[k] + 1 ELSE dropCount[k]]
                /\ received' = received \cup { <<f, r>> : r \in kept }
                /\ React(kept, initialized, dutyLog, txPhy)
  /\ UNCHANGED <<now, phase, lifeVars, fired, airVars, turn, batch>>

(* The tail of deliverReceptionsForStep: clear the slots, compact.         *)
Compact ==
  /\ phase = "deliver"
  /\ todo = {}
  /\ phase' = "timers"
  /\ txUntil' = SlotsWithout(Elapsed)
  /\ inFlight' = inFlight \ Elapsed
  /\ collided' = VerdictsWithout(Elapsed)
  /\ UNCHANGED <<now, lifeVars, fired, lastTx, radio, busyUntil, nextId, aired,
                 nodeVars, dropCount, loopVars, received>>

(* tickTimersForStep. *)
TickTimers ==
  /\ phase = "timers"
  /\ phase' = "register"
  /\ turn' = 0
  /\ React(alive, initialized, dutyLog, txPhy)
  /\ UNCHANGED <<now, lifeVars, fired, airVars, dropCount, todo, batch, received>>
-----------------------------------------------------------------------------
(* registerTransmissionsForStep drains the alive nodes in index order.     *)
WaitingFromTurn == { i \in alive : i >= turn /\ i > 0 }

Waiting == { i \in alive : i > turn /\ pending[i] # <<>> }

DrainNode ==
  /\ phase = "register"
  /\ batch = <<>>
  /\ \E i \in Waiting :
       /\ \A j \in Waiting : i <= j
       /\ turn' = i
       /\ batch' = pending[i]
       /\ pending' = [pending EXCEPT ![i] = <<>>]
  /\ UNCHANGED <<now, phase, lifeVars, fired, airVars, tune, txPhy, blindUntil, dutyLog,
                 queued, dropCount, todo, received>>

(* The radio parameters a packet resolves to; they stick to the radio.     *)
Resolved(p) ==
  [sf |-> IF p.sf = Inherit THEN txPhy[turn].sf ELSE p.sf,
   bw |-> IF p.bw = Inherit THEN txPhy[turn].bw ELSE p.bw]

AirtimeOf(p) == Airtime[<<Resolved(p).sf, Resolved(p).bw, p.len>>]

Oversized(p) == p.len > MaxPacketBytes

SelfTx == \E f \in inFlight : f.sender = turn

ChannelBusy == turn \in LbtNodes /\ IsChannelBusy(turn)

DutyAlreadyExceeded(p) == DutyWindow > 0 /\ AirtimeUsed(turn) > DutyBudget

DutyExceeded(p) == DutyWindow > 0 /\ AirtimeUsed(turn) + AirtimeOf(p) > DutyBudget

Registering == phase = "register" /\ batch # <<>> /\ now >= Warmup
NoDuty(p)   == ~(Oversized(p) \/ SelfTx \/ ChannelBusy)

Stuck == [txPhy EXCEPT ![turn] = Resolved(Head(batch))]
DutyChecked == IF DutyWindow > 0
               THEN [dutyLog EXCEPT ![turn] = Pruned(@, DutyWindow)] ELSE dutyLog

(* onRadioBusy and no transmission: oversized, self_tx_in_flight or        *)
(* channel_busy.                                                           *)
Refuse ==
  /\ Registering
  /\ Oversized(Head(batch)) \/ SelfTx \/ ChannelBusy
  /\ batch' = Tail(batch)
  /\ React({turn}, initialized, dutyLog, Stuck)
  /\ UNCHANGED <<now, phase, lifeVars, fired, airVars, dropCount, todo, turn, received>>

(* onRadioBusy with duty_cycle_exceeded. *)
RefuseDuty ==
  /\ Registering
  /\ NoDuty(Head(batch))
  /\ DutyExceeded(Head(batch))
  /\ batch' = Tail(batch)
  /\ React({turn}, initialized, DutyChecked, Stuck)
  /\ UNCHANGED <<now, phase, lifeVars, fired, airVars, dropCount, todo, turn, received>>

(* rollTxFail: the frame is lost in the modem and the node is not told. *)
TxFail ==
  /\ Registering
  /\ NoDuty(Head(batch))
  /\ ~DutyExceeded(Head(batch))
  /\ turn \in TxFailNodes
  /\ batch' = Tail(batch)
  /\ txPhy' = Stuck
  /\ dutyLog' = DutyChecked
  /\ UNCHANGED <<now, phase, lifeVars, fired, airVars, tune, blindUntil, pending, queued,
                 dropCount, todo, turn, received>>

(* The frame the packet becomes: it starts when the radio may transmit.    *)
NewFrame(p) ==
  LET start == Latest(now, radio[turn].earliestTx)
  IN  [id |-> nextId, sender |-> turn, start |-> start, end |-> start + AirtimeOf(p),
       freq |-> tune[turn].freq, sf |-> Resolved(p).sf, bw |-> Resolved(p).bw,
       label |-> p.label, pdelta |-> p.pdelta]

(* Observers whose radio is on the frame's carrier and within reach. *)
Observers(f) ==
  { o \in Nodes \ {f.sender} : /\ HasLink(f.sender, o)
                               /\ Links[f.sender][o] > -100
                               /\ TunedToCarrier(o, f.freq) }

(* Observers that detect the preamble: by energy, or by a CAD roll.        *)
Detections(f) ==
  IF EnergyMode
  THEN { { o \in Observers(f) : Links[f.sender][o] >= EnergyThreshold } }
  ELSE SUBSET { o \in Observers(f) : Links[f.sender][o] > CadMarginalSnr }

(* Bidirectional collision verdicts against every frame in flight. *)
VerdictsOn(f) == { <<f.id, r>> : r \in { q \in Nodes : \E e \in inFlight : Destroys(e, f, q) } }

VerdictsBy(f) ==
  UNION { { <<e.id, r>> : r \in { q \in Nodes : Destroys(f, e, q) } } : e \in inFlight }

Verdicts(f) == VerdictsOn(f) \cup VerdictsBy(f)

Transmit ==
  /\ Registering
  /\ NoDuty(Head(batch))
  /\ ~DutyExceeded(Head(batch))
  /\ batch' = Tail(batch)
  /\ LET f == NewFrame(Head(batch))
     IN  /\ inFlight' = inFlight \cup {f}
         /\ aired' = aired \cup {f}
         /\ collided' = collided \cup Verdicts(f)
         /\ nextId' = nextId + 1
         /\ txUntil' = [txUntil EXCEPT ![turn] = f.end]
         /\ lastTx' = [lastTx EXCEPT ![turn] = [start |-> f.start, end |-> f.end]]
         /\ radio' = [o \in Nodes |-> IF o \in Observers(f) THEN NotifyRxStart(radio[o], f.end)
                                      ELSE radio[o]]
         /\ \E detecting \in Detections(f) :
              /\ busyUntil' = [o \in Nodes |->
                   IF o \in detecting /\ ~EnergyMode THEN Latest(busyUntil[o], f.end)
                   ELSE busyUntil[o]]
              /\ React({ o \in detecting : f.sf \in tune[o].sfs /\ f.bw = tune[o].bw },
                       initialized,
                       [DutyChecked EXCEPT ![turn] =
                          @ \cup {[end |-> f.end, air |-> AirtimeOf(Head(batch))]}],
                       Stuck)
  /\ UNCHANGED <<now, phase, lifeVars, fired, dropCount, todo, turn, received>>

(* During the warmup a packet reaches every linked alive node at once.     *)
RouteInWarmup ==
  /\ phase = "register"
  /\ batch # <<>>
  /\ now < Warmup
  /\ batch' = Tail(batch)
  /\ React({ r \in alive \ {turn} : HasLink(turn, r) }, initialized, dutyLog, Stuck)
  /\ UNCHANGED <<now, phase, lifeVars, fired, airVars, dropCount, todo, turn, received>>

(* The end of step(): simulated time advances. *)
EndStep ==
  /\ phase = "register"
  /\ batch = <<>>
  /\ Waiting = {}
  /\ \E advance \in Steps :
       /\ now' = now + advance
       /\ phase' = IF now + advance >= Duration THEN "ended" ELSE "lifecycle"
  /\ UNCHANGED <<lifeVars, fired, airVars, nodeVars, dropCount, loopVars, received>>

Ended == phase = "ended" /\ UNCHANGED vars

Next ==
  \/ Boot \/ ConsoleCommand
  \/ Lifecycle \/ Startup \/ FireCommand \/ CommandsDone
  \/ Deliver \/ Compact \/ TickTimers
  \/ DrainNode \/ Refuse \/ RefuseDuty \/ TxFail \/ Transmit \/ RouteInWarmup
  \/ EndStep \/ Ended

Spec == Init /\ [][Next]_vars
FairSpec == Spec /\ WF_vars(Next)
-----------------------------------------------------------------------------
(* Every variable has its type; a verdict is about a frame in flight, and  *)
(* a visit still due about one whose airtime has elapsed.                  *)
LifeOK ==
  /\ alive \subseteq Nodes /\ initialized \subseteq Nodes
  /\ initAt \in [Nodes -> Nat]
  /\ lifeLog \in [Nodes -> Seq({"started", "ready", "died"})]
  /\ fired \subseteq 1 .. Len(Commands)

AirOK ==
  /\ inFlight \subseteq Frame /\ aired \subseteq Frame
  /\ collided \subseteq { f.id : f \in inFlight } \X Nodes
  /\ txUntil \in [Nodes -> Nat] /\ busyUntil \in [Nodes -> Nat]
  /\ lastTx \in [Nodes -> [start : Nat, end : Nat]]
  /\ radio \in [Nodes -> [rxUntil : Nat, earliestTx : Nat]]
  /\ nextId \in Nat

NodeOK ==
  /\ tune \in [Nodes -> Tune] /\ txPhy \in [Nodes -> Phy]
  /\ blindUntil \in [Nodes -> Nat]
  /\ dutyLog \in [Nodes -> SUBSET [end : Nat, air : Nat]]
  /\ pending \in [Nodes -> Seq(Packet)]
  /\ queued \in Nat

LoopOK ==
  /\ phase \in {"boot", "lifecycle", "startup", "commands", "deliver", "timers", "register",
                "ended"}
  /\ todo \subseteq { f.id : f \in Elapsed }
  /\ phase # "deliver" => todo = {}
  /\ turn \in 0 .. N /\ batch \in Seq(Packet)
  /\ batch # <<>> => phase = "register" /\ turn \in alive

TypeOK ==
  /\ now \in Nat
  /\ LifeOK /\ AirOK /\ NodeOK /\ LoopOK
  /\ received \subseteq Frame \X Nodes
  /\ dropCount \in [1 .. Len(Drops) -> Nat]
-----------------------------------------------------------------------------
(* "There's only ever one such entry": a sender has at most one frame in   *)
(* flight, whatever it queues and however its start is deferred.           *)
AtMostOneFlight ==
  \A f, g \in inFlight : f.sender = g.sender => f = g

(* The slot behind self:tx_in_flight() always agrees with the in-flight    *)
(* list: the end of the node's frame, 0 when it has none, through          *)
(* deferral, compaction and death.                                         *)
SlotTracksFlight ==
  \A i \in Nodes :
    /\ \A f \in inFlight : f.sender = i => txUntil[i] = f.end
    /\ (\A f \in inFlight : f.sender # i) => txUntil[i] = 0

(* No reception handed to a node overlapped a transmission that destroys   *)
(* it.  Verdicts are only taken against frames in flight when a frame is   *)
(* registered, so this needs every overlapping pair to meet in flight.     *)
NoDestroyedReception ==
  \A x \in received : \A g \in aired \ {x[1]} : ~Destroys(g, x[1], x[2])

(* No reception handed to a node overlapped that node's own transmissions  *)
(* or their TX->RX settling tail.                                          *)
NeverHearsWhileTransmitting ==
  \A x \in received : \A g \in aired :
    g.sender = x[2] => ~(g.start < x[1].end /\ g.end + TxToRx > x[1].start)

(* Listen before talk: a frame that its LBT-enabled sender could hear at   *)
(* or above the energy threshold is never talked over, even when nodes     *)
(* hop between carriers and a hop ends on an occupied one.                 *)
LbtExclusive ==
  \A f, g \in aired :
    /\ EnergyMode /\ f.id < g.id /\ f.freq = g.freq
    /\ g.sender \in LbtNodes \ {f.sender}
    /\ HasLink(f.sender, g.sender)
    /\ Links[f.sender][g.sender] >= Latest(EnergyThreshold, -99)
    => ~Overlaps(f, g)

(* RX->TX turnaround: on a network of one carrier, a node that another     *)
(* frame reaches starts transmitting no earlier than that frame's end plus *)
(* the turnaround, also when that frame's own start was deferred.          *)
TurnaroundRespected ==
  \A f, g \in aired :
    /\ Freqs = {f.freq} /\ f.id < g.id /\ f.sender # g.sender
    /\ HasLink(f.sender, g.sender) /\ Links[f.sender][g.sender] > -100
    => g.start >= f.end + RxToTx

(* The duty-cycle hard block: in no window of DutyWindow ms is a node on   *)
(* the air for longer than its budget.                                     *)
OnAir(f, t) == Latest(0, Earliest(f.end, t + DutyWindow) - Latest(f.start, t))

DutyBudgetHeld ==
  \A i \in Nodes : \A x \in aired :
    LET own == { f \in aired : f.sender = i }
    IN  /\ MapThenSumSet(LAMBDA f : OnAir(f, x.start), own) <= DutyBudget
        /\ MapThenSumSet(LAMBDA f : OnAir(f, x.end - DutyWindow), own) <= DutyBudget

(* A dead or unborn node has no frame on the air: nobody sees a ghost      *)
(* delivery from it.                                                       *)
DeadAreSilent == \A f \in inFlight : f.sender \in alive

(* A due command that has not fired waits for its target to be born; it is *)
(* never retried against a dead node.                                      *)
DueCommandsAwaitBirth ==
  phase \in {"deliver", "timers", "register"} =>
    \A k \in 1 .. Len(Commands) \ fired :
      Commands[k].at <= now => StartAt[Commands[k].node] > now

(* A lone wildcard forced_drops directive drops exactly its window: the    *)
(* frames it counted and did not drop were delivered, once counted however *)
(* many receivers each reached.                                            *)
ForcedDropWindow ==
  Len(Drops) = 1 /\ Drops[1].from = 0 /\ Drops[1].to = 0 /\ Drops[1].label = "" =>
    LET d       == Drops[1]
        dropped == Earliest(d.count, Latest(0, dropCount[1] - d.nth + 1))
    IN  Cardinality({ x[1].id : x \in received }) = dropCount[1] - dropped

(* The lifecycle events of a node and its life agree: each comes at most   *)
(* once, a late node is started before anything else, who has died stays   *)
(* dead, and a boot that jitter staged a step or more before the node's    *)
(* death comes first: processStartupAtStep runs after the lifecycle pass   *)
(* and does not ask whether the node is alive.                             *)
LivesInOrder ==
  \A i \in Nodes :
    LET told == {lifeLog[i][k] : k \in DOMAIN lifeLog[i]}
        At(what) == CHOOSE k \in DOMAIN lifeLog[i] : lifeLog[i][k] = what
    IN  /\ Len(lifeLog[i]) = Cardinality(told)
        /\ "started" \in told => StartAt[i] > 0 /\ At("started") = 1
        /\ i \in alive <=> (StartAt[i] = 0 \/ "started" \in told) /\ "died" \notin told
        /\ i \in initialized <=> "ready" \in told
        /\ {"ready", "died"} \subseteq told /\ (\A s \in Steps : initAt[i] + s <= DiesAt[i])
             => At("ready") < At("died")

(* A run always comes to its end: no phase of step() blocks. *)
RunEnds == <>(phase = "ended")
=============================================================================
