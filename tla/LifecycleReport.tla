--------------------------- MODULE LifecycleReport --------------------------
(***************************************************************************)
(* The fast report of tools/analyze.py on scenarios whose nodes are born   *)
(* late and die: the phases it derives from the configuration, the         *)
(* commands and deliveries that it counts by phase, and its counters over  *)
(* the log of RunLog.                                                      *)
(***************************************************************************)
EXTENDS RadioReport

CONSTANTS
  Plans,      \* configurations: per node starts and dies, the duration, the
              \* commands [at, node, verb, text] and which of them are delivered
  LateStart,  \* a node born that late is one that joins (one hour in the code)
  Settling,   \* how long a join or a death is felt (ten minutes in the code)
  NoText      \* what a command without a payload has

VARIABLE plan  \* the configuration that is analysed

(* lifecycle_phase_boundaries.  A phase is [name, from, upto].             *)
LateBirths(p) == {p.starts[n] : n \in DOMAIN p.starts} \cap {t \in Nat : t >= LateStart}
Demises(p)    == {p.dies[n] : n \in DOMAIN p.dies} \ {0}

PhaseOf(name, from, upto) == [name |-> name, from |-> from, upto |-> upto]
PhaseIf(cond, name, from, upto) == IF cond THEN <<PhaseOf(name, from, upto)>> ELSE <<>>
Settled(p, S)      == Min({p.duration, Max(S) + Settling})

PhaseBoundaries(p) ==
  LET births == LateBirths(p)
      deaths == Demises(p)
      joining == IF births = {} THEN p.duration ELSE Min(births)
      joined  == IF births = {} THEN 0 ELSE Settled(p, births)
      dying   == IF deaths = {} THEN p.duration ELSE Min(deaths)
      died    == IF deaths = {} THEN joined ELSE Settled(p, deaths)
      listed  == PhaseIf(TRUE, "cold-start", 0, joining)
                 \o PhaseIf(births # {}, "join-window", joining, joined)
                 \o PhaseIf(deaths # {}, "post-join", joined, dying)
                 \o PhaseIf(deaths # {}, "death-window", dying, died)
                 \o PhaseIf(TRUE, "tail", died, p.duration)
  IN  IF births \cup deaths = {} THEN <<PhaseOf("whole-run", 0, p.duration)>>
      ELSE SelectSeq(listed, LAMBDA ph : ph.from < ph.upto)

Spanning(phases, t) == {k \in DOMAIN phases : phases[k].from <= t /\ t < phases[k].upto}
PhaseAt(phases, t) ==
  CASE phases = <<>> -> "whole-run"
    [] phases # <<>> /\ Spanning(phases, t) = {} -> Last(phases).name
    [] OTHER -> phases[Min(Spanning(phases, t))].name

-----------------------------------------------------------------------------
(* The messages a run was told to send, and those that arrived, by the     *)
(* phase of the command.  A delivery names its origin and its text; the    *)
(* last command with the two gives the phase.                              *)
Verbs == {"send", "send_e2e"}
Sends(p) == {k \in DOMAIN p.commands : p.commands[k].verb \in Verbs}
TextOnly(c)  == <<c.text>>
MessageKey(c) == <<c.node, c.text>>
CommandPhases(p) ==
  LET keyed == {k \in Sends(p) : p.commands[k].text # NoText}
      keys  == {MessageKey(p.commands[k]) : k \in keyed}
      Latest1(key) == Max({k \in keyed : MessageKey(p.commands[k]) = key})
  IN  [key \in keys |-> PhaseAt(PhaseBoundaries(p), p.commands[Latest1(key)].at)]

ByPhase(which) == [ph \in Range(which) |-> Cardinality({k \in DOMAIN which : which[k] = ph})]
SentByPhase(p) == ByPhase([k \in Sends(p) |-> PhaseAt(PhaseBoundaries(p), p.commands[k].at)])
DeliveredByPhase(p) ==
  LET known == CommandPhases(p)
      found == {k \in p.delivered : MessageKey(p.commands[k]) \in DOMAIN known}
  IN  [byPhase |-> ByPhase([k \in found |-> known[MessageKey(p.commands[k])]]),
       unknown |-> Cardinality(p.delivered \ found), total |-> Cardinality(p.delivered)]

-----------------------------------------------------------------------------
(* The single pass over the events, none of which is cut.                  *)
AnyDrop(e)      == e.type \in Drops \cup {"collision"}
TypeOf(e)       == e.type
LifecycleEvents(es, type) ==
  LET told == SelectSeq(es, LAMBDA e : e.type = type)
  IN  [k \in DOMAIN told |-> <<told[k].t, told[k].node>>]
LifecycleFast(es) ==
  [count |-> Len(es),
   txCount |-> Counted(Txs(es), LabelOf, One), txAir |-> Counted(Txs(es), LabelOf, Air),
   drops |-> Counted(SelectSeq(es, AnyDrop), TypeOf, One),
   starts |-> LifecycleEvents(es, "node_started"), deaths |-> LifecycleEvents(es, "node_died"),
   beaconTx |-> At(CountEmits(es, {"beacon_tx"}), "beacon_tx"),
   beaconRx |-> At(CountEmits(es, {"beacon_rx"}), "beacon_rx")]

-----------------------------------------------------------------------------
(* Every moment of a run is in a phase.  Where the last late node has      *)
(* settled before the first death, the phase of a moment is what a look at *)
(* the births and deaths says it is.  (Deaths without late births, and     *)
(* deaths during the joins, are told wrongly: the first phase listed wins.)*)
PhasesAreTrue ==
  LET p == plan
      phases == PhaseBoundaries(p)
      births == LateBirths(p)
      deaths == Demises(p)
      Felt(S, t) == \E x, y \in S : x <= t /\ t < y + Settling
      Expected(t) ==
        CASE Felt(births, t)          -> "join-window"
          [] births # {} /\ \A x \in births : t < x -> "cold-start"
          [] Felt(deaths, t)          -> "death-window"
          [] births # {} /\ \E x \in deaths : t < x  -> "post-join"
          [] births \cup deaths = {}  -> "whole-run"
          [] OTHER                    -> "tail"
  IN  \A t \in 0 .. p.duration - 1 :
        /\ Spanning(phases, t) # {}
        /\ (deaths = {} \/ births # {}) /\ (\A x \in births, y \in deaths : x + Settling <= y) =>
             PhaseAt(phases, t) = Expected(t)

(* Deliveries and commands meet in the phase of the command: where no node *)
(* sends the same text in two phases, no phase has more deliveries than    *)
(* commands, a delivery of unknown phase is one of a message without text  *)
(* or of another verb, and none is lost.                                   *)
DeliveriesStayInPhase ==
  LET p == plan
      sent == SentByPhase(p)
      r == DeliveredByPhase(p)
      Of(k) == PhaseAt(PhaseBoundaries(p), p.commands[k].at)
      Same(j, k) == p.commands[j].node = p.commands[k].node /\ p.commands[j].text = p.commands[k].text
      told == {k \in p.delivered : \E j \in Sends(p) : Same(j, k) /\ p.commands[j].text # NoText}
  IN  /\ Total(r.byPhase) + r.unknown = r.total
      /\ Total(sent) = Cardinality(Sends(p))
      /\ (\A j \in Sends(p), k \in DOMAIN p.commands : Same(j, k) => k \in Sends(p) /\ Of(j) = Of(k)) =>
           /\ \A ph \in DOMAIN r.byPhase :
                r.byPhase[ph] = Cardinality({k \in told : Of(k) = ph}) /\ r.byPhase[ph] <= At(sent, ph)
           /\ r.unknown = Cardinality({k \in p.delivered : k \notin Sends(p) \/ p.commands[k].text = NoText})

(* The births and deaths the report lists account for every node: those    *)
(* alive were there from the start or were born, and have not died; nobody *)
(* dies before his birth.  Its drops are those of section 7, the expected  *)
(* ones included, and without a warm-up its airtime is what was sent.      *)
LifecycleAddsUp ==
  Readable =>
    LET r == LifecycleFast(log)
        founders == {Name(n) : n \in {x \in Nodes : scene.start[x] = 0}}
        born == {s[2] : s \in Range(r.starts)}
        dead == {s[2] : s \in Range(r.deaths)}
    IN  /\ {Name(n) : n \in {x \in Nodes : Alive(x)}} = (founders \cup born) \ dead
        /\ dead \subseteq founders \cup born /\ founders \cap born = {}
        /\ Len(r.starts) = Cardinality(born) /\ Len(r.deaths) = Cardinality(dead)
        /\ \A b \in Range(r.starts), d \in Range(r.deaths) : b[2] = d[2] => b[1] <= d[1]
        /\ Total(r.drops) = Total(DropCounts(log))
        /\ scene.warm = 0 => Total(r.txAir) = SumOver(flown, AirOf) /\ Total(r.txCount) = Cardinality(flown)
        /\ r.beaconRx <= r.beaconTx * (scene.n - 1)

(* The lifecycle sections put every moment, message and node where it was. *)
LifecycleReportIsTrue == PhasesAreTrue /\ DeliveriesStayInPhase /\ LifecycleAddsUp
=============================================================================
