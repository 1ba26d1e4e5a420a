---------------------------- MODULE MCAlgorithms ----------------------------
(***************************************************************************)
(* The algorithms that work on data at rest, over bounded inputs: the      *)
(* collision test on pairs of signals, the link matrix on surveys, the     *)
(* phases of configurations with births and deaths, and the event queries  *)
(* and reports on every log the scenes of RunLog can write.  A behaviour   *)
(* exercises one of the four; the inputs of the others are inert.          *)
(***************************************************************************)
EXTENDS SetupReport, LifecycleReport, LinkMatrix, MCCollisionModel

(* Demodulation needs of the data SFs, dB above the floor of the slowest. *)
MCNeeds == [sf \in 7 .. 9 |-> 8 - sf]

Every(v) == [n \in 0 .. 2 |-> v]
Plain ==
  [n |-> 2, start |-> Every(0), dies |-> Every(99), warm |-> 0, announces |-> TRUE,
   profile |-> FALSE, tries |-> 0, dataSfs |-> {7}, snrs |-> {0}, beacons |-> {},
   ticks |-> 0 .. Duration, maxBeacons |-> 0, snaps |-> 0, lbt |-> FALSE]

(* Two nodes and every course a handshake of up to three attempts can take. *)
Handshake == [Plain EXCEPT !.tries = 3, !.dataSfs = {7, 8}, !.lbt = TRUE]
(* A third node's beacon may hit any frame of a handshake. *)
Crowd == [Plain EXCEPT !.n = 3, !.tries = 2, !.beacons = {2}, !.ticks = {1},
                       !.maxBeacons = 1]
LinkQuality == [Crowd EXCEPT !.tries = 1, !.ticks = {1, 2}, !.snrs = {0, 1}]
(* The addressee dies during the handshake. *)
Widowed == [Handshake EXCEPT !.dies = [Every(99) EXCEPT ![1] = 3]]
(* Node 0 has sent a beacon before its command: the reply comes second. *)
Talkative == [Crowd EXCEPT !.n = 2, !.beacons = {0}, !.maxBeacons = 2, !.tries = 1]
(* Births out of order, a death and a warm-up; the scripts that boot late  *)
(* announce themselves or do not.                                          *)
Late == [Plain EXCEPT !.n = 3, !.start[0] = 2, !.dies[1] = 4, !.profile = TRUE,
                      !.beacons = {0, 2}, !.maxBeacons = 2, !.warm = 1]
Snaps == [Plain EXCEPT !.snaps = 3, !.ticks = {0, 2, 5}]

MCScenes ==
  {Handshake, Crowd, LinkQuality, Widowed, Talkative, Late, [Late EXCEPT !.announces = FALSE], Snaps}

(* Three nodes with every placement and every draw, four with some. *)
Survey(names, place, draw, cap, minSnr, asym, tiles) ==
  [names |-> names, place |-> place, draw |-> draw, cap |-> cap, minSnr |-> minSnr,
   asym |-> asym, tiles |-> tiles]
NamePairs(n) == {p \in (1 .. n) \X (1 .. n) : p[1] < p[2]}
Three ==
  {Survey(<<2, 3, 1>>, place, draw, 1, minSnr, asym, tiles) :
     place \in [1 .. 3 -> (0 .. 2) \cup {Nowhere}],
     draw \in [NamePairs(3) -> {<<0, 0>>, <<0, 1>>, <<2, 0>>}],
     minSnr \in {1, 2}, asym \in BOOLEAN, tiles \in {0 .. 2, 1 .. 2}}
Four ==
  {Survey(<<3, 1, 4, 2>>, [n \in 1 .. 4 |-> place[n]], [p \in NamePairs(4) |-> <<p[1] % 2, p[2] % hi>>],
          cap, 1, asym, 0 .. 4) :
     place \in {q \in [1 .. 4 -> 0 .. 3] : q[1] = 0}, hi \in {2, 3}, cap \in {1, 2}, asym \in BOOLEAN}
Lonely == {Survey(<<1>>, [n \in {1} |-> 0], <<>>, 1, 1, FALSE, 0 .. 2)}
NoSurvey == Survey(<<>>, <<>>, <<>>, 1, 1, FALSE, {})
ASSUME SurveyAssumption == \A s \in Three \cup Four \cup Lonely : IsSurvey(s)

Plan(starts, dies, commands, delivered) ==
  [duration |-> 6, starts |-> starts, dies |-> dies, commands |-> commands, delivered |-> delivered]
Command(at, node, verb, text) == [at |-> at, node |-> node, verb |-> verb, text |-> text]
Texts == {"x", "y", NoText}

(* Every three births and deaths; two commands of every kind in some. *)
Courses ==
  {Plan(starts, dies, <<Command(at, 1, "send", "x")>>, {1}) :
     starts \in [1 .. 3 -> {0, 1, 2, 4}], dies \in [1 .. 3 -> {0, 3, 4, 5}], at \in {0, 4}}
Pairings ==
  {Plan(<<0, 0, s>>, <<0, d, 0>>, c, del) :
     s \in {0, 2}, d \in {0, 4},
     c \in {<<Command(at1, 1, verb, text), Command(at2, n, "send", "x")>> :
              at1 \in {0, 3}, verb \in {"send", "send_e2e", "routes"}, text \in Texts,
              at2 \in 0 .. 5, n \in {1, 2}},
     del \in SUBSET {1, 2}}
MCPlans == Courses \cup {p \in Pairings : p.commands[1].verb \in Verbs \/ 1 \notin p.delivered}
NoPlan == Plan(<<>>, <<>>, <<>>, {})

NoSignal == [start |-> 0, air |-> Min(Airtimes), snr |-> Min(Snrs), cr |-> Min(Crs),
             sf |-> Min(Sfs), pre |-> Min(Preambles)]

NoRun ==
  /\ scene = Plain
  /\ now = 0 /\ phase = "off"
  /\ up = <<>> /\ log = <<>> /\ air = <<>> /\ outbox = <<>>
  /\ px = NoTx /\ rxp = NoRx /\ tries = <<>> /\ flown = {}

Init ==
  \/ SignalInit /\ survey = NoSurvey /\ plan = NoPlan /\ NoRun
  \/ survey \in Three \cup Four \cup Lonely /\ a = NoSignal /\ b = NoSignal /\ plan = NoPlan /\ NoRun
  \/ plan \in Plans /\ survey = NoSurvey /\ a = NoSignal /\ b = NoSignal /\ NoRun
  \/ RunInit /\ survey = NoSurvey /\ a = NoSignal /\ b = NoSignal /\ plan = NoPlan

Next ==
  /\ UNCHANGED <<survey, plan>>
  /\ \/ phase = "off" /\ survey = NoSurvey /\ plan = NoPlan /\ SignalNext /\ UNCHANGED runVars
     \/ phase # "off" /\ RunNext /\ UNCHANGED signalVars

Spec == Init /\ [][Next]_<<runVars, survey, plan, signalVars>>
=============================================================================
