------------------------ MODULE SimController_proofs ------------------------
(***************************************************************************)
(* Proofs, for every network, configuration and behaviour of the nodes, of *)
(* the safety properties of SimController.  The argument is one inductive  *)
(* invariant, IInv, built in layers: types, then the identity of frames,   *)
(* then what the in-flight list and the verdict table promise.             *)
(***************************************************************************)
EXTENDS SimController, FiniteSetTheorems, SequenceTheorems, WellFoundedInduction, TLAPS

(* Typing of the two places where a node's choice enters the engine.       *)
LEMMA ReactionTypes ==
  ASSUME NEW a \in Reactions
  PROVE  /\ a.kind = "tx" => a.packet \in Packet
         /\ a.kind = "retune" => a.to \in Tune
BY ConfigAssumption DEF Reactions

LEMMA PrunedType ==
  ASSUME NEW log \in SUBSET [end : Nat, air : Nat], NEW window
  PROVE  Pruned(log, window) \in SUBSET [end : Nat, air : Nat]
BY DEF Pruned

LEMMA ReactType ==
  ASSUME now \in Nat, NodeOK,
         NEW callees \in SUBSET Nodes, NEW ready \in SUBSET Nodes,
         NEW log \in [Nodes -> SUBSET [end : Nat, air : Nat]],
         NEW phy \in [Nodes -> Phy],
         React(callees, ready, log, phy)
  PROVE  NodeOK'
<1> DEFINE Of(act, kind) == { i \in DOMAIN act : act[i].kind = kind }
<1>1. PICK act \in [callees \cap ready -> Reactions] :
        /\ queued' = queued + Cardinality(Of(act, "tx"))
        /\ pending' = [i \in Nodes |->
             IF i \in Of(act, "tx") THEN Append(pending[i], act[i].packet) ELSE pending[i]]
        /\ tune' = [i \in Nodes |-> IF i \in Of(act, "retune") THEN act[i].to ELSE tune[i]]
        /\ txPhy' = [i \in Nodes |->
             IF i \in Of(act, "retune") THEN [phy[i] EXCEPT !.bw = act[i].to.bw] ELSE phy[i]]
        /\ blindUntil' = [i \in Nodes |->
             IF i \in Of(act, "retune") /\ SfSwitch > 0
             THEN Latest(blindUntil[i], now + SfSwitch) ELSE blindUntil[i]]
        /\ dutyLog' = [i \in Nodes |->
             IF i \in Of(act, "query") THEN Pruned(log[i], act[i].window) ELSE log[i]]
  BY DEF React
<1>2. \A i \in Of(act, "tx") : i \in Nodes /\ act[i].packet \in Packet
  BY ReactionTypes
<1>3. \A i \in Of(act, "retune") : i \in Nodes /\ act[i].to \in Tune
  BY ReactionTypes
<1>4. tune' \in [Nodes -> Tune]
  BY <1>1, <1>3 DEF NodeOK
<1>5. txPhy' \in [Nodes -> Phy]
  BY <1>1, <1>3 DEF NodeOK, Phy, Tune
<1>6. blindUntil' \in [Nodes -> Nat]
  <2>1. SfSwitch \in Nat
    BY ConfigAssumption
  <2>2. \A i \in Nodes : blindUntil'[i] \in {blindUntil[i], now + SfSwitch}
    BY <1>1 DEF Latest
  <2>3. \A i \in Nodes : blindUntil[i] \in Nat
    BY DEF NodeOK
  <2>4. \A i \in Nodes : blindUntil'[i] \in Nat
    BY <2>1, <2>2, <2>3
  <2> QED
    BY <1>1, <2>4
<1>7. dutyLog' \in [Nodes -> SUBSET [end : Nat, air : Nat]]
  BY <1>1, PrunedType
<1>8. pending' \in [Nodes -> Seq(Packet)]
  BY <1>1, <1>2 DEF NodeOK
<1>9. queued' \in Nat
  <2>1. IsFiniteSet(Nodes)
    <3>1. N \in Nat
      BY ConfigAssumption
    <3> QED
      BY <3>1, FS_Interval DEF Nodes
  <2>2. Of(act, "tx") \subseteq Nodes
    BY <1>2
  <2>3. Cardinality(Of(act, "tx")) \in Nat
    BY <2>1, <2>2, FS_Subset, FS_CardinalityType
  <2> HIDE DEF Of
  <2> QED
    BY <2>3, <1>1 DEF NodeOK
<1> QED
  BY <1>4, <1>5, <1>6, <1>7, <1>8, <1>9 DEF NodeOK

(* The radio parameters of a packet, and the frame it becomes, have types. *)
LEMMA HeadType ==
  ASSUME TypeOK, batch # <<>>
  PROVE  /\ turn \in Nodes /\ turn \in alive
         /\ phase = "register"
         /\ Head(batch) \in Packet
         /\ Tail(batch) \in Seq(Packet)
         /\ Resolved(Head(batch)) \in Phy
         /\ AirtimeOf(Head(batch)) \in Nat \ {0}
         /\ Stuck \in [Nodes -> Phy]
         /\ DutyChecked \in [Nodes -> SUBSET [end : Nat, air : Nat]]
<1>1. turn \in Nodes /\ turn \in alive /\ phase = "register"
  BY DEF TypeOK, LoopOK, LifeOK
<1>2. Head(batch) \in Packet /\ Tail(batch) \in Seq(Packet)
  BY DEF TypeOK, LoopOK
<1>3. txPhy[turn] \in Phy /\ txPhy \in [Nodes -> Phy]
  BY <1>1 DEF TypeOK, NodeOK
<1>4. Resolved(Head(batch)) \in Phy
  BY <1>2, <1>3 DEF Resolved, Packet, Phy
<1>5. Airtime \in [Sfs \X Bws \X Lens -> Nat \ {0}]
  BY ConfigAssumption
<1>6. AirtimeOf(Head(batch)) \in Nat \ {0}
  BY <1>2, <1>4, <1>5 DEF AirtimeOf, Packet, Phy
<1>7. Stuck \in [Nodes -> Phy]
  BY <1>1, <1>3, <1>4 DEF Stuck
<1>8. dutyLog \in [Nodes -> SUBSET [end : Nat, air : Nat]]
  BY DEF TypeOK, NodeOK
<1>9. DutyChecked \in [Nodes -> SUBSET [end : Nat, air : Nat]]
  BY <1>1, <1>8, PrunedType DEF DutyChecked
<1> QED
  BY <1>1, <1>2, <1>4, <1>6, <1>7, <1>9

LEMMA NewFrameType ==
  ASSUME TypeOK, batch # <<>>
  PROVE  LET f == NewFrame(Head(batch))
         IN  /\ f \in Frame
             /\ f.id = nextId /\ f.sender = turn /\ f.freq = tune[turn].freq
             /\ f.start >= now /\ f.start >= radio[turn].earliestTx
             /\ f.end > f.start
<1> DEFINE p == Head(batch)
           f == NewFrame(p)
<1>1. turn \in Nodes /\ p \in Packet /\ Resolved(p) \in Phy /\ AirtimeOf(p) \in Nat \ {0}
  BY HeadType
<1>2. now \in Nat /\ nextId \in Nat /\ radio[turn].earliestTx \in Nat /\ tune[turn].freq \in Freqs
  BY <1>1 DEF TypeOK, AirOK, NodeOK, Tune
<1>3. f.start \in Nat /\ f.start >= now /\ f.start >= radio[turn].earliestTx
  BY <1>2 DEF NewFrame, Latest
<1>4. f.end = f.start + AirtimeOf(p)
  BY DEF NewFrame
<1>5. f.end \in Nat /\ f.end > f.start
  BY <1>1, <1>3, <1>4
<1>6. /\ p.label \in Labels /\ p.pdelta \in Int
      /\ Resolved(p).sf \in Sfs /\ Resolved(p).bw \in Bws
  BY <1>1 DEF Packet, Phy
<1>7. /\ f = [id |-> nextId, sender |-> turn, start |-> f.start, end |-> f.end,
              freq |-> tune[turn].freq, sf |-> Resolved(p).sf, bw |-> Resolved(p).bw,
              label |-> p.label, pdelta |-> p.pdelta]
  BY DEF NewFrame
<1> HIDE DEF f, p
<1>8. f \in Frame
  BY <1>1, <1>2, <1>3, <1>5, <1>6, <1>7 DEF Frame
<1>9. f.id = nextId /\ f.sender = turn /\ f.freq = tune[turn].freq
  BY <1>7
<1> QED
  BY <1>3, <1>5, <1>8, <1>9 DEF f, p

-----------------------------------------------------------------------------
(* Type correctness. *)

LEMMA TypeInit == Init => TypeOK
<1> SUFFICES ASSUME Init PROVE TypeOK
  OBVIOUS
<1>1. StartAt \in [Nodes -> Nat] /\ MaxJitter \in Nat
  BY ConfigAssumption
<1>2. PICK jitter \in [Nodes -> 0 .. MaxJitter] :
        initAt = [i \in Nodes |-> IF StartAt[i] > 0 THEN StartAt[i] ELSE jitter[i]]
  BY DEF Init
<1>3. \A i \in Nodes : jitter[i] \in Nat /\ StartAt[i] \in Nat
  BY <1>1, <1>2
<1>4. initAt \in [Nodes -> Nat]
  BY <1>2, <1>3
<1>5. LifeOK
  BY <1>4 DEF Init, LifeOK
<1>6. AirOK
  BY DEF Init, AirOK
<1>7. /\ BootTune \in [Nodes -> Tune]
      /\ \A i \in Nodes : BootTune[i].sfs # {}
  BY ConfigAssumption
<1>8. \A i \in Nodes : (CHOOSE s \in BootTune[i].sfs : TRUE) \in Sfs /\ BootTune[i].bw \in Bws
  <2> SUFFICES ASSUME NEW i \in Nodes
               PROVE  (CHOOSE s \in BootTune[i].sfs : TRUE) \in Sfs /\ BootTune[i].bw \in Bws
    OBVIOUS
  <2>1. BootTune[i].sfs \subseteq Sfs /\ BootTune[i].bw \in Bws
    BY <1>7 DEF Tune
  <2>2. (CHOOSE s \in BootTune[i].sfs : TRUE) \in BootTune[i].sfs
    BY <1>7
  <2> QED
    BY <2>1, <2>2
<1>9. txPhy \in [Nodes -> Phy]
  BY <1>8 DEF Init, Phy
<1>10. NodeOK
  BY <1>7, <1>9 DEF Init, NodeOK
<1>11. LoopOK
  <2>1. N \in Nat
    BY ConfigAssumption
  <2> QED
    BY <2>1 DEF Init, LoopOK
<1>12. dropCount \in [1 .. Len(Drops) -> Nat]
  BY DEF Init
<1>13. now \in Nat /\ received \subseteq Frame \X Nodes
  BY DEF Init
<1> QED
  BY <1>5, <1>6, <1>10, <1>11, <1>12, <1>13 DEF TypeOK

(* A part of TypeOK whose variables a step leaves alone still holds. *)
LEMMA FrameRules ==
  /\ LifeOK /\ UNCHANGED <<lifeVars, fired>> => LifeOK'
  /\ AirOK /\ UNCHANGED airVars => AirOK'
  /\ NodeOK /\ UNCHANGED nodeVars => NodeOK'
<1>1. LifeOK /\ UNCHANGED <<lifeVars, fired>> => LifeOK'
  BY DEF LifeOK, lifeVars
<1>2. AirOK /\ UNCHANGED airVars => AirOK'
  BY DEF AirOK, airVars
<1>3. NodeOK /\ UNCHANGED nodeVars => NodeOK'
  BY DEF NodeOK, nodeVars
<1> QED
  BY <1>1, <1>2, <1>3

(* When frames leave the air, the verdicts left are about those still there. *)
LEMMA VerdictsStay ==
  ASSUME AirOK, NEW gone
  PROVE  VerdictsWithout(gone) \subseteq { f.id : f \in inFlight \ gone } \X Nodes
<1> SUFFICES ASSUME NEW c \in collided, \A f \in gone : c[1] # f.id
             PROVE  c \in { f.id : f \in inFlight \ gone } \X Nodes
  BY DEF VerdictsWithout
<1>1. c \in { f.id : f \in inFlight } \X Nodes
  BY DEF AirOK
<1>2. PICK f \in inFlight : c[1] = f.id
  BY <1>1
<1>3. f \in inFlight \ gone
  BY <1>2
<1> QED
  BY <1>1, <1>2, <1>3

LEMMA TypeBootNodes ==
  ASSUME TypeOK, BootNodes
  PROVE  LifeOK' /\ AirOK' /\ NodeOK' /\ UNCHANGED <<now, alive, loopVars, inFlight, received, dropCount>>
<1>1. AirOK'
  BY FrameRules DEF TypeOK, BootNodes
<1>2. Booting \subseteq Nodes
  BY DEF Booting
<1>3. LifeOK'
  BY <1>2 DEF TypeOK, LifeOK, BootNodes
<1>4. /\ dutyLog \in [Nodes -> SUBSET [end : Nat, air : Nat]]
      /\ txPhy \in [Nodes -> Phy]
  BY DEF TypeOK, NodeOK
<1>5. NodeOK'
  BY <1>2, <1>4, ReactType DEF TypeOK, BootNodes
<1> QED
  BY <1>1, <1>3, <1>5 DEF BootNodes, airVars

LEMMA TypeBoot == TypeOK /\ Boot => TypeOK'
<1> SUFFICES ASSUME TypeOK, Boot PROVE TypeOK'
  OBVIOUS
<1>1. LoopOK'
  BY TypeBootNodes DEF Boot, TypeOK, LoopOK, loopVars
<1> QED
  BY <1>1, TypeBootNodes DEF Boot, TypeOK

LEMMA TypeStartup == TypeOK /\ Startup => TypeOK'
<1> SUFFICES ASSUME TypeOK, Startup PROVE TypeOK'
  OBVIOUS
<1>1. LoopOK'
  BY TypeBootNodes DEF Startup, TypeOK, LoopOK, loopVars
<1> QED
  BY <1>1, TypeBootNodes DEF Startup, TypeOK

LEMMA TypeConsole == TypeOK /\ ConsoleCommand => TypeOK'
<1> SUFFICES ASSUME TypeOK, ConsoleCommand PROVE TypeOK'
  OBVIOUS
<1>1. Console \subseteq Nodes
  BY ConfigAssumption
<1>2. PICK i \in Console : React({i}, initialized, dutyLog, txPhy)
  BY DEF ConsoleCommand
<1>3. NodeOK'
  BY <1>1, <1>2, ReactType DEF TypeOK, LifeOK, NodeOK
<1>4. AirOK' /\ LifeOK'
  BY FrameRules DEF TypeOK, ConsoleCommand
<1>5. LoopOK'
  BY DEF TypeOK, LoopOK, ConsoleCommand, loopVars, airVars, lifeVars
<1> QED
  BY <1>3, <1>4, <1>5 DEF TypeOK, ConsoleCommand

LEMMA TypeLifecycle == TypeOK /\ Lifecycle => TypeOK'
<1> SUFFICES ASSUME TypeOK, Lifecycle PROVE TypeOK'
  OBVIOUS
<1>1. NodeOK'
  BY FrameRules DEF TypeOK, Lifecycle
<1>2. Born \subseteq Nodes /\ Dying \subseteq Nodes
  BY DEF Born, Dying, TypeOK, LifeOK
<1>3. LifeOK'
  <2>1. alive' \subseteq Nodes
    BY <1>2 DEF TypeOK, LifeOK, Lifecycle
  <2>2. lifeLog' \in [Nodes -> Seq({"started", "ready", "died"})]
    <3> DEFINE E == {"started", "ready", "died"}
               Birth(i) == IF i \in Born THEN <<"started">> ELSE <<>>
               Death(i) == IF i \in Dying THEN <<"died">> ELSE <<>>
    <3>1. \A i \in Nodes : Birth(i) \in Seq(E) /\ Death(i) \in Seq(E)
      <4>1. <<"started">> \in Seq(E) /\ <<"died">> \in Seq(E) /\ <<>> \in Seq(E)
        OBVIOUS
      <4> HIDE DEF E
      <4> QED
        BY <4>1
    <3>2. lifeLog \in [Nodes -> Seq(E)]
      BY DEF TypeOK, LifeOK
    <3>3. lifeLog' = [i \in Nodes |-> lifeLog[i] \o Birth(i) \o Death(i)]
      BY DEF Lifecycle
    <3> HIDE DEF E, Birth, Death
    <3>4. \A i \in Nodes : lifeLog[i] \o Birth(i) \o Death(i) \in Seq(E)
      BY <3>1, <3>2
    <3>5. lifeLog' \in [Nodes -> Seq(E)]
      BY <3>3, <3>4
    <3> QED
      BY <3>5 DEF E
  <2> QED
    BY <2>1, <2>2 DEF TypeOK, LifeOK, Lifecycle
<1>4. AirOK'
  <2>1. inFlight' \subseteq Frame /\ aired' \subseteq Frame
    BY DEF TypeOK, AirOK, Lifecycle
  <2>2. collided' \subseteq { f.id : f \in inFlight' } \X Nodes
    BY VerdictsStay DEF TypeOK, Lifecycle, Evaporating
  <2>3. txUntil' \in [Nodes -> Nat]
    BY DEF TypeOK, AirOK, Lifecycle
  <2> QED
    BY <2>1, <2>2, <2>3 DEF TypeOK, AirOK, Lifecycle
<1>5. LoopOK'
  BY DEF TypeOK, LoopOK, Lifecycle, loopVars
<1> QED
  BY <1>1, <1>3, <1>4, <1>5 DEF TypeOK, Lifecycle

LEMMA TypeFireCommand == TypeOK /\ FireCommand => TypeOK'
<1> SUFFICES ASSUME TypeOK, FireCommand PROVE TypeOK'
  OBVIOUS
<1>1. PICK k \in DueCommands : /\ fired' = fired \cup {k}
                              /\ React({Commands[k].node} \cap alive, initialized, dutyLog, txPhy)
  BY DEF FireCommand
<1>2. {Commands[k].node} \cap alive \subseteq Nodes
  BY DEF TypeOK, LifeOK
<1>3. NodeOK'
  BY <1>1, <1>2, ReactType DEF TypeOK, LifeOK, NodeOK
<1>4. AirOK'
  BY FrameRules DEF TypeOK, FireCommand
<1>5. LifeOK'
  BY <1>1 DEF TypeOK, LifeOK, FireCommand, lifeVars, DueCommands
<1>6. LoopOK'
  BY DEF TypeOK, LoopOK, FireCommand, loopVars, airVars, lifeVars
<1> QED
  BY <1>3, <1>4, <1>5, <1>6 DEF TypeOK, FireCommand

LEMMA TypeCommandsDone == TypeOK /\ CommandsDone => TypeOK'
<1> SUFFICES ASSUME TypeOK, CommandsDone PROVE TypeOK'
  OBVIOUS
<1>1. NodeOK' /\ AirOK' /\ LifeOK'
  BY FrameRules DEF TypeOK, CommandsDone
<1>2. LoopOK'
  BY DEF TypeOK, LoopOK, CommandsDone, airVars, lifeVars, Elapsed
<1> QED
  BY <1>1, <1>2 DEF TypeOK, CommandsDone

LEMMA TypeDeliver == TypeOK /\ Deliver => TypeOK'
<1> SUFFICES ASSUME TypeOK, Deliver PROVE TypeOK'
  OBVIOUS
<1>1. PICK f \in inFlight :
        /\ f.id \in todo
        /\ todo' = todo \ {f.id}
        /\ \E fade \in [Nodes \ {f.sender} -> Fades],
              lost \in SUBSET (IF Losses THEN Nodes \ {f.sender} ELSE {}) :
             LET reached == { r \in Nodes \ {f.sender} : Hears(f, r, fade[r], r \in lost) }
                 kept    == { r \in reached : ~ForcedDrop(f, r) }
             IN  /\ dropCount' = [k \in DOMAIN Drops |->
                      IF Counts(k, f, reached) THEN dropCount[k] + 1 ELSE dropCount[k]]
                 /\ received' = received \cup { <<f, r>> : r \in kept }
                 /\ React(kept, initialized, dutyLog, txPhy)
  BY DEF Deliver
<1>2. PICK kept \in SUBSET Nodes, reached \in SUBSET Nodes :
        /\ dropCount' = [k \in DOMAIN Drops |->
             IF Counts(k, f, reached) THEN dropCount[k] + 1 ELSE dropCount[k]]
        /\ received' = received \cup { <<f, r>> : r \in kept }
        /\ React(kept, initialized, dutyLog, txPhy)
  BY <1>1
<1>3. NodeOK'
  BY <1>2, ReactType DEF TypeOK, LifeOK, NodeOK
<1>4. AirOK' /\ LifeOK'
  BY FrameRules DEF TypeOK, Deliver
<1>5. received' \subseteq Frame \X Nodes
  BY <1>1, <1>2 DEF TypeOK, AirOK
<1>6. dropCount' \in [1 .. Len(Drops) -> Nat]
  <2>1. DOMAIN Drops = 1 .. Len(Drops)
    BY ConfigAssumption
  <2>2. dropCount \in [1 .. Len(Drops) -> Nat]
    BY DEF TypeOK
  <2> QED
    BY <1>2, <2>1, <2>2
<1>7. LoopOK'
  <2>1. UNCHANGED <<now, phase, alive, turn, batch, inFlight>>
    BY DEF Deliver, airVars, lifeVars
  <2>2. Elapsed' = Elapsed
    BY <2>1 DEF Elapsed
  <2>3. todo' \subseteq todo
    BY <1>1
  <2>4. phase = "deliver"
    BY DEF Deliver
  <2> QED
    BY <2>1, <2>2, <2>3, <2>4 DEF TypeOK, LoopOK
<1> QED
  BY <1>3, <1>4, <1>5, <1>6, <1>7 DEF TypeOK, Deliver

LEMMA TypeCompact == TypeOK /\ Compact => TypeOK'
<1> SUFFICES ASSUME TypeOK, Compact PROVE TypeOK'
  OBVIOUS
<1>1. NodeOK' /\ LifeOK'
  BY FrameRules DEF TypeOK, Compact, lifeVars
<1>2. AirOK'
  <2>1. inFlight' \subseteq Frame
    BY DEF TypeOK, AirOK, Compact
  <2>2. collided' \subseteq { f.id : f \in inFlight' } \X Nodes
    BY VerdictsStay DEF TypeOK, Compact
  <2>3. txUntil' \in [Nodes -> Nat]
    BY DEF TypeOK, AirOK, Compact, SlotsWithout
  <2> QED
    BY <2>1, <2>2, <2>3 DEF TypeOK, AirOK, Compact
<1>3. LoopOK'
  BY DEF TypeOK, LoopOK, Compact, loopVars, lifeVars
<1> QED
  BY <1>1, <1>2, <1>3 DEF TypeOK, Compact

LEMMA TypeTickTimers == TypeOK /\ TickTimers => TypeOK'
<1> SUFFICES ASSUME TypeOK, TickTimers PROVE TypeOK'
  OBVIOUS
<1>1. NodeOK'
  BY ReactType DEF TypeOK, LifeOK, NodeOK, TickTimers
<1>2. AirOK' /\ LifeOK'
  BY FrameRules DEF TypeOK, TickTimers
<1>3. LoopOK'
  <2>1. N \in Nat
    BY ConfigAssumption
  <2> QED
    BY <2>1 DEF TypeOK, LoopOK, TickTimers, airVars, lifeVars
<1> QED
  BY <1>1, <1>2, <1>3 DEF TypeOK, TickTimers

LEMMA TypeDrainNode == TypeOK /\ DrainNode => TypeOK'
<1> SUFFICES ASSUME TypeOK, DrainNode PROVE TypeOK'
  OBVIOUS
<1>1. PICK i \in Waiting : /\ turn' = i
                           /\ batch' = pending[i]
                           /\ pending' = [pending EXCEPT ![i] = <<>>]
  BY DEF DrainNode
<1>2. i \in alive /\ i \in Nodes
  BY DEF Waiting, TypeOK, LifeOK
<1>3. NodeOK'
  BY <1>1, <1>2 DEF TypeOK, NodeOK, DrainNode
<1>4. AirOK' /\ LifeOK'
  BY FrameRules DEF TypeOK, DrainNode
<1>5. LoopOK'
  BY <1>1, <1>2 DEF TypeOK, LoopOK, NodeOK, Nodes, DrainNode, airVars, lifeVars
<1> QED
  BY <1>3, <1>4, <1>5 DEF TypeOK, DrainNode

(* The steps that consume a packet without putting it on the air. *)
LEMMA TypeNoFlight == TypeOK /\ (Refuse \/ RefuseDuty \/ TxFail \/ RouteInWarmup) => TypeOK'
<1> SUFFICES ASSUME TypeOK, Refuse \/ RefuseDuty \/ TxFail \/ RouteInWarmup PROVE TypeOK'
  OBVIOUS
<1>1. batch # <<>> /\ batch' = Tail(batch)
      /\ UNCHANGED <<now, phase, lifeVars, fired, airVars, todo, turn, received>>
      /\ dropCount' = dropCount
  BY DEF Refuse, RefuseDuty, TxFail, RouteInWarmup, Registering
<1>2. /\ Stuck \in [Nodes -> Phy]
      /\ DutyChecked \in [Nodes -> SUBSET [end : Nat, air : Nat]]
      /\ dutyLog \in [Nodes -> SUBSET [end : Nat, air : Nat]]
      /\ turn \in Nodes
  BY <1>1, HeadType DEF TypeOK, NodeOK
<1>3. NodeOK'
  <2>1. CASE Refuse
    BY <2>1, <1>2, ReactType DEF TypeOK, LifeOK, Refuse
  <2>2. CASE RefuseDuty
    BY <2>2, <1>2, ReactType DEF TypeOK, LifeOK, RefuseDuty
  <2>3. CASE TxFail
    BY <2>3, <1>2 DEF TypeOK, NodeOK, TxFail
  <2>4. CASE RouteInWarmup
    <3>1. { r \in alive \ {turn} : HasLink(turn, r) } \subseteq Nodes
      BY DEF TypeOK, LifeOK
    <3> QED
      BY <2>4, <3>1, <1>2, ReactType DEF TypeOK, LifeOK, RouteInWarmup
  <2> QED
    BY <2>1, <2>2, <2>3, <2>4
<1>4. AirOK' /\ LifeOK'
  BY <1>1, FrameRules DEF TypeOK
<1>5. LoopOK'
  BY <1>1, HeadType DEF TypeOK, LoopOK, airVars, lifeVars
<1> QED
  BY <1>1, <1>3, <1>4, <1>5 DEF TypeOK

LEMMA TypeEndStep == TypeOK /\ EndStep => TypeOK'
<1> SUFFICES ASSUME TypeOK, EndStep PROVE TypeOK'
  OBVIOUS
<1>1. NodeOK' /\ AirOK' /\ LifeOK'
  BY FrameRules DEF TypeOK, EndStep
<1>2. now' \in Nat
  <2>1. Steps \subseteq Nat \ {0}
    BY ConfigAssumption
  <2> QED
    BY <2>1 DEF TypeOK, EndStep
<1>3. LoopOK'
  BY DEF TypeOK, LoopOK, EndStep, loopVars, airVars, lifeVars
<1> QED
  BY <1>1, <1>2, <1>3 DEF TypeOK, EndStep

(* What a transmission does to the air and to its sender. *)
LEMMA TransmitEffect ==
  ASSUME TypeOK, Transmit
  PROVE  LET f == NewFrame(Head(batch))
         IN  /\ batch # <<>> /\ now >= Warmup
             /\ ~SelfTx /\ ~ChannelBusy
             /\ batch' = Tail(batch)
             /\ inFlight' = inFlight \cup {f}
             /\ aired' = aired \cup {f}
             /\ collided' = collided \cup Verdicts(f)
             /\ nextId' = nextId + 1
             /\ txUntil' = [txUntil EXCEPT ![turn] = f.end]
             /\ lastTx' = [lastTx EXCEPT ![turn] = [start |-> f.start, end |-> f.end]]
             /\ radio' = [o \in Nodes |-> IF o \in Observers(f) THEN NotifyRxStart(radio[o], f.end)
                                          ELSE radio[o]]
             /\ UNCHANGED <<now, phase, lifeVars, fired, dropCount, todo, turn, received>>
BY DEF Transmit, Registering, NoDuty

LEMMA TypeTransmit == TypeOK /\ Transmit => TypeOK'
<1> SUFFICES ASSUME TypeOK, Transmit PROVE TypeOK'
  OBVIOUS
<1> DEFINE f == NewFrame(Head(batch))
           air == [end |-> f.end, air |-> AirtimeOf(Head(batch))]
           heard(d) == { o \in d : f.sf \in tune[o].sfs /\ f.bw = tune[o].bw }
           log == [DutyChecked EXCEPT ![turn] = @ \cup {air}]
<1>1. batch # <<>>
  BY TransmitEffect
<1>2. f \in Frame /\ f.id = nextId /\ f.end \in Nat
  BY <1>1, NewFrameType DEF Frame
<1>3. /\ turn \in Nodes
      /\ Stuck \in [Nodes -> Phy]
      /\ DutyChecked \in [Nodes -> SUBSET [end : Nat, air : Nat]]
      /\ AirtimeOf(Head(batch)) \in Nat
  BY <1>1, HeadType
<1>4. PICK d \in Detections(f) :
        /\ busyUntil' = [o \in Nodes |->
             IF o \in d /\ ~EnergyMode THEN Latest(busyUntil[o], f.end) ELSE busyUntil[o]]
        /\ React(heard(d), initialized, log, Stuck)
  BY DEF Transmit
<1>5. d \subseteq Nodes /\ heard(d) \subseteq Nodes
  BY DEF Detections, Observers
<1> HIDE DEF f, heard
<1>6. log \in [Nodes -> SUBSET [end : Nat, air : Nat]]
  BY <1>2, <1>3
<1> HIDE DEF log
<1>7. NodeOK'
  BY <1>3, <1>4, <1>5, <1>6, ReactType DEF TypeOK, LifeOK
<1>8. AirOK'
  <2>1. inFlight' \subseteq Frame /\ aired' \subseteq Frame
    BY <1>2, TransmitEffect DEF TypeOK, AirOK, f
  <2>2. collided' \subseteq { g.id : g \in inFlight' } \X Nodes
    <3>1. Verdicts(f) \subseteq { g.id : g \in inFlight \cup {f} } \X Nodes
      BY DEF Verdicts, VerdictsOn, VerdictsBy
    <3>2. collided \subseteq { g.id : g \in inFlight \cup {f} } \X Nodes
      BY DEF TypeOK, AirOK
    <3> QED
      BY <3>1, <3>2, TransmitEffect DEF f
  <2>3. txUntil' \in [Nodes -> Nat] /\ lastTx' \in [Nodes -> [start : Nat, end : Nat]]
    <3>1. f.start \in Nat
      BY <1>2 DEF Frame
    <3>2. /\ txUntil' = [txUntil EXCEPT ![turn] = f.end]
          /\ lastTx' = [lastTx EXCEPT ![turn] = [start |-> f.start, end |-> f.end]]
      BY TransmitEffect DEF f
    <3>3. txUntil \in [Nodes -> Nat] /\ lastTx \in [Nodes -> [start : Nat, end : Nat]]
      BY DEF TypeOK, AirOK
    <3> QED
      BY <1>2, <1>3, <3>1, <3>2, <3>3
  <2>4. busyUntil' \in [Nodes -> Nat]
    BY <1>2, <1>4 DEF TypeOK, AirOK, Latest
  <2>5. radio' \in [Nodes -> [rxUntil : Nat, earliestTx : Nat]]
    <3>1. RxToTx \in Nat
      BY ConfigAssumption
    <3>2. \A o \in Nodes : NotifyRxStart(radio[o], f.end) \in [rxUntil : Nat, earliestTx : Nat]
      BY <1>2, <3>1 DEF TypeOK, AirOK, NotifyRxStart
    <3>3. radio' = [o \in Nodes |-> IF o \in Observers(f) THEN NotifyRxStart(radio[o], f.end)
                                    ELSE radio[o]]
      BY TransmitEffect DEF f
    <3> QED
      BY <3>2, <3>3 DEF TypeOK, AirOK
  <2>6. nextId' \in Nat
    <3>1. nextId' = nextId + 1 /\ nextId \in Nat
      BY TransmitEffect DEF TypeOK, AirOK
    <3> QED
      BY <3>1
  <2> QED
    BY <2>1, <2>2, <2>3, <2>4, <2>5, <2>6 DEF AirOK
<1>9. LifeOK'
  BY FrameRules, TransmitEffect DEF TypeOK
<1>10. LoopOK'
  <2>1. batch' \in Seq(Packet)
    BY <1>1, HeadType, TransmitEffect
  <2>2. todo = {} /\ phase = "register" /\ turn \in alive
    BY <1>1, HeadType DEF TypeOK, LoopOK
  <2>3. UNCHANGED <<phase, todo, turn, alive>>
    BY TransmitEffect DEF lifeVars
  <2> QED
    BY <2>1, <2>2, <2>3 DEF TypeOK, LoopOK
<1> QED
  BY <1>7, <1>8, <1>9, <1>10, TransmitEffect DEF TypeOK

LEMMA TypeStep == TypeOK /\ [Next]_vars => TypeOK'
<1> SUFFICES ASSUME TypeOK, [Next]_vars PROVE TypeOK'
  OBVIOUS
<1>1. CASE UNCHANGED vars
  BY <1>1 DEF vars, lifeVars, airVars, nodeVars, loopVars, TypeOK, LifeOK, AirOK, NodeOK, LoopOK,
               Elapsed
<1>2. CASE Ended
  BY <1>2 DEF Ended, vars, lifeVars, airVars, nodeVars, loopVars, TypeOK, LifeOK, AirOK, NodeOK, LoopOK,
               Elapsed
<1> QED
  BY <1>1, <1>2, TypeBoot, TypeConsole, TypeLifecycle, TypeStartup, TypeFireCommand,
     TypeCommandsDone, TypeDeliver, TypeCompact, TypeTickTimers, TypeDrainNode, TypeNoFlight,
     TypeTransmit, TypeEndStep DEF Next

(* Every behaviour of the engine is well typed, whatever the network, the  *)
(* configuration and the nodes: in particular a collision verdict never    *)
(* outlives the in-flight frame it is about.                               *)
THEOREM TypeCorrect == Spec => []TypeOK
<1>1. Init => TypeOK
  BY TypeInit
<1>2. TypeOK /\ [Next]_vars => TypeOK'
  BY TypeStep
<1> QED
  BY <1>1, <1>2, PTL DEF Spec

-----------------------------------------------------------------------------
(* The inductive invariant.                                                *)
(*                                                                         *)
(* NoDestroyedReception speaks of all frames ever aired, but the engine    *)
(* compares a new frame only with those in flight and forgets a frame, and *)
(* its verdicts, when its airtime has elapsed.  What connects the two is   *)
(* that a frame off the list has Landed in the past, while a new frame     *)
(* never starts in the past, and that a verdict exists (Judged) for every  *)
(* reception still in flight that some frame destroys.                     *)

IdsUnique ==
  /\ inFlight \subseteq aired
  /\ \A f \in aired : f.id < nextId
  /\ \A f, g \in aired : f.id = g.id => f = g

Landed == \A f \in aired \ inFlight : f.end <= now

Settled == \A x \in received : x[1].end <= now

Judged ==
  \A f \in inFlight : \A g \in aired \ {f} : \A r \in Nodes :
    Destroys(g, f, r) => <<f.id, r>> \in collided

IInv ==
  /\ TypeOK
  /\ IdsUnique
  /\ AtMostOneFlight /\ SlotTracksFlight /\ DeadAreSilent
  /\ Landed /\ Settled /\ Judged
  /\ NoDestroyedReception
  /\ LbtExclusive

(* Most steps leave the air and its history alone. *)
Quiet == UNCHANGED <<airVars, alive, received>> /\ now' >= now

LEMMA StepClasses ==
  ASSUME TypeOK, [Next]_vars
  PROVE  Quiet \/ Lifecycle \/ Deliver \/ Compact \/ Transmit
<1>1. now \in Nat
  BY DEF TypeOK
<1>2. UNCHANGED <<airVars, alive, received, now>> => Quiet
  BY <1>1 DEF Quiet
<1>3. Boot \/ Startup \/ ConsoleCommand \/ FireCommand \/ CommandsDone \/ TickTimers
      => UNCHANGED <<airVars, alive, received, now>>
  BY DEF Boot, Startup, BootNodes, ConsoleCommand, FireCommand, CommandsDone, TickTimers, lifeVars
<1>4. DrainNode \/ Refuse \/ RefuseDuty \/ TxFail \/ RouteInWarmup
      => UNCHANGED <<airVars, alive, received, now>>
  BY DEF DrainNode, Refuse, RefuseDuty, TxFail, RouteInWarmup, lifeVars
<1>5. EndStep => Quiet
  <2>1. Steps \subseteq Nat \ {0}
    BY ConfigAssumption
  <2> QED
    BY <1>1, <2>1 DEF EndStep, Quiet, lifeVars
<1>6. Ended \/ UNCHANGED vars => UNCHANGED <<airVars, alive, received, now>>
  BY DEF Ended, vars, lifeVars
<1> QED
  BY <1>2, <1>3, <1>4, <1>5, <1>6 DEF Next

LEMMA QuietStep == IInv /\ TypeOK' /\ Quiet => IInv'
<1> SUFFICES ASSUME IInv, TypeOK', Quiet PROVE IInv'
  OBVIOUS
<1>1. UNCHANGED <<inFlight, collided, txUntil, nextId, aired, alive, received>>
  BY DEF Quiet, airVars
<1>2. IdsUnique' /\ AtMostOneFlight' /\ SlotTracksFlight' /\ DeadAreSilent'
  BY <1>1 DEF IInv, IdsUnique, AtMostOneFlight, SlotTracksFlight, DeadAreSilent
<1>3. Landed' /\ Settled'
  <2>1. now \in Nat /\ now' \in Nat /\ now' >= now
    BY DEF Quiet, IInv, TypeOK
  <2>2. \A f \in aired : f.end \in Nat
    BY DEF IInv, TypeOK, AirOK, Frame
  <2>3. \A x \in received : x[1].end \in Nat
    BY DEF IInv, TypeOK, Frame
  <2> QED
    BY <1>1, <2>1, <2>2, <2>3 DEF IInv, Landed, Settled
<1>4. Judged' /\ NoDestroyedReception' /\ LbtExclusive'
  BY <1>1 DEF IInv, Judged, NoDestroyedReception, LbtExclusive
<1> QED
  BY <1>2, <1>3, <1>4 DEF IInv

(* A dying node takes its frame off the air. *)
LEMMA LifecycleStep == IInv /\ TypeOK' /\ Lifecycle => IInv'
<1> SUFFICES ASSUME IInv, TypeOK', Lifecycle PROVE IInv'
  OBVIOUS
<1>1. /\ inFlight' = inFlight \ Evaporating
      /\ aired' = aired \ Evaporating
      /\ collided' = VerdictsWithout(Evaporating)
      /\ txUntil' = [i \in Nodes |-> IF i \in Dying THEN 0 ELSE txUntil[i]]
      /\ alive' = (alive \cup Born) \ Dying
      /\ UNCHANGED <<now, nextId, received>>
  BY DEF Lifecycle
<1>2. IdsUnique'
  BY <1>1 DEF IInv, IdsUnique
<1>3. AtMostOneFlight'
  BY <1>1 DEF IInv, AtMostOneFlight
<1>4. SlotTracksFlight'
  <2> SUFFICES ASSUME NEW i \in Nodes
               PROVE  /\ \A f \in inFlight' : f.sender = i => txUntil'[i] = f.end
                      /\ (\A f \in inFlight' : f.sender # i) => txUntil'[i] = 0
    BY DEF SlotTracksFlight
  <2>1. CASE i \in Dying
    <3>1. \A f \in inFlight' : f.sender # i
      BY <1>1, <2>1 DEF Evaporating
    <3> QED
      BY <1>1, <2>1, <3>1
  <2>2. CASE i \notin Dying
    <3>1. txUntil'[i] = txUntil[i]
      BY <1>1, <2>2
    <3>2. \A f \in inFlight : f.sender = i => f \in inFlight'
      BY <1>1, <2>2 DEF Evaporating
    <3> QED
      BY <1>1, <3>1, <3>2 DEF IInv, SlotTracksFlight
  <2> QED
    BY <2>1, <2>2
<1>5. DeadAreSilent'
  BY <1>1 DEF IInv, DeadAreSilent, Evaporating
<1>6. Landed' /\ Settled'
  BY <1>1 DEF IInv, Landed, Settled
<1>7. Judged'
  <2> SUFFICES ASSUME NEW f \in inFlight', NEW g \in aired' \ {f}, NEW r \in Nodes,
                      Destroys(g, f, r)
               PROVE  <<f.id, r>> \in collided'
    BY DEF Judged
  <2>1. <<f.id, r>> \in collided
    BY <1>1 DEF IInv, Judged
  <2>2. \A e \in Evaporating : e.id # f.id
    BY <1>1 DEF IInv, IdsUnique, Evaporating
  <2> QED
    BY <1>1, <2>1, <2>2 DEF VerdictsWithout
<1>8. NoDestroyedReception' /\ LbtExclusive'
  BY <1>1 DEF IInv, NoDestroyedReception, LbtExclusive
<1> QED
  BY <1>2, <1>3, <1>4, <1>5, <1>6, <1>7, <1>8 DEF IInv

(* A frame whose airtime has elapsed is handed to receivers for which it   *)
(* carries no verdict.                                                     *)
LEMMA DeliverStep == IInv /\ TypeOK' /\ Deliver => IInv'
<1> SUFFICES ASSUME IInv, TypeOK', Deliver PROVE IInv'
  OBVIOUS
<1>1. UNCHANGED <<inFlight, collided, txUntil, nextId, aired, alive, now>>
  BY DEF Deliver, airVars, lifeVars
<1>2. PICK f \in inFlight :
        /\ f.id \in todo
        /\ \E fade \in [Nodes \ {f.sender} -> Fades],
              lost \in SUBSET (IF Losses THEN Nodes \ {f.sender} ELSE {}) :
             LET reached == { r \in Nodes \ {f.sender} : Hears(f, r, fade[r], r \in lost) }
                 kept    == { r \in reached : ~ForcedDrop(f, r) }
             IN  received' = received \cup { <<f, r>> : r \in kept }
  BY ZenonT(60) DEF Deliver
<1>3. PICK heard \in SUBSET Nodes :
        /\ received' = received \cup { <<f, r>> : r \in heard }
        /\ \A r \in heard : <<f.id, r>> \notin collided
  <2>1. PICK fade \in [Nodes \ {f.sender} -> Fades],
              lost \in SUBSET (IF Losses THEN Nodes \ {f.sender} ELSE {}) :
             LET reached == { r \in Nodes \ {f.sender} : Hears(f, r, fade[r], r \in lost) }
                 kept    == { r \in reached : ~ForcedDrop(f, r) }
             IN  received' = received \cup { <<f, r>> : r \in kept }
    BY <1>2
  <2> DEFINE kept == { r \in Nodes \ {f.sender} : /\ Hears(f, r, fade[r], r \in lost)
                                                 /\ ~ForcedDrop(f, r) }
  <2>2. received' = received \cup { <<f, r>> : r \in kept }
    BY <2>1
  <2>3. \A r \in kept : <<f.id, r>> \notin collided
    BY DEF Hears
  <2>4. kept \in SUBSET Nodes
    OBVIOUS
  <2> QED
    BY <2>2, <2>3, <2>4
<1>4. f.end <= now
  <2>1. PICK e \in Elapsed : e.id = f.id
    BY <1>2 DEF IInv, TypeOK, LoopOK
  <2>2. e = f
    BY <1>2, <2>1 DEF IInv, IdsUnique, Elapsed
  <2> QED
    BY <2>1, <2>2 DEF Elapsed
<1>5. IdsUnique' /\ AtMostOneFlight' /\ SlotTracksFlight' /\ DeadAreSilent' /\ Landed'
  BY <1>1 DEF IInv, IdsUnique, AtMostOneFlight, SlotTracksFlight, DeadAreSilent, Landed
<1>6. Settled'
  BY <1>1, <1>3, <1>4 DEF IInv, Settled
<1>7. Judged' /\ LbtExclusive'
  BY <1>1 DEF IInv, Judged, LbtExclusive
<1>8. NoDestroyedReception'
  <2>1. \A r \in heard : \A g \in aired \ {f} : ~Destroys(g, f, r)
    BY <1>3 DEF IInv, Judged
  <2> QED
    BY <1>1, <1>3, <2>1 DEF IInv, NoDestroyedReception
<1> QED
  BY <1>5, <1>6, <1>7, <1>8 DEF IInv

(* Frames off the list have landed; their slots and verdicts go with them. *)
LEMMA CompactStep == IInv /\ TypeOK' /\ Compact => IInv'
<1> SUFFICES ASSUME IInv, TypeOK', Compact PROVE IInv'
  OBVIOUS
<1>1. /\ inFlight' = inFlight \ Elapsed
      /\ collided' = VerdictsWithout(Elapsed)
      /\ txUntil' = SlotsWithout(Elapsed)
      /\ UNCHANGED <<now, nextId, received, aired, alive>>
  BY DEF Compact, lifeVars
<1>2. IdsUnique' /\ AtMostOneFlight' /\ DeadAreSilent' /\ Settled'
  BY <1>1 DEF IInv, IdsUnique, AtMostOneFlight, DeadAreSilent, Settled
<1>3. SlotTracksFlight'
  <2> SUFFICES ASSUME NEW i \in Nodes
               PROVE  /\ \A f \in inFlight' : f.sender = i => txUntil'[i] = f.end
                      /\ (\A f \in inFlight' : f.sender # i) => txUntil'[i] = 0
    BY DEF SlotTracksFlight
  <2>1. txUntil'[i] = IF \E f \in Elapsed : f.sender = i /\ f.end = txUntil[i]
                      THEN 0 ELSE txUntil[i]
    BY <1>1 DEF SlotsWithout
  <2>2. \A f \in inFlight' : f.sender = i => ~ \E g \in Elapsed : g.sender = i
    BY <1>1 DEF IInv, AtMostOneFlight, Elapsed
  <2>3. \A f \in inFlight' : f.sender = i => txUntil'[i] = f.end
    BY <1>1, <2>1, <2>2 DEF IInv, SlotTracksFlight
  <2>4. ASSUME \A f \in inFlight' : f.sender # i PROVE txUntil'[i] = 0
    BY <1>1, <2>1, <2>4 DEF IInv, SlotTracksFlight
  <2> QED
    BY <2>3, <2>4
<1>4. Landed'
  BY <1>1 DEF IInv, Landed, Elapsed
<1>5. Judged'
  <2> SUFFICES ASSUME NEW f \in inFlight', NEW g \in aired' \ {f}, NEW r \in Nodes,
                      Destroys(g, f, r)
               PROVE  <<f.id, r>> \in collided'
    BY DEF Judged
  <2>1. <<f.id, r>> \in collided
    BY <1>1 DEF IInv, Judged
  <2>2. \A e \in Elapsed : e.id # f.id
    BY <1>1 DEF IInv, IdsUnique, Elapsed
  <2> QED
    BY <1>1, <2>1, <2>2 DEF VerdictsWithout
<1>6. NoDestroyedReception' /\ LbtExclusive'
  BY <1>1 DEF IInv, NoDestroyedReception, LbtExclusive
<1> QED
  BY <1>2, <1>3, <1>4, <1>5, <1>6 DEF IInv

(* A new frame does not start in the past, and is judged against every     *)
(* frame in flight.                                                        *)
LEMMA TransmitStep == IInv /\ TypeOK' /\ Transmit => IInv'
<1> SUFFICES ASSUME IInv, TypeOK', Transmit PROVE IInv'
  OBVIOUS
<1> DEFINE f == NewFrame(Head(batch))
<1>1. TypeOK
  BY DEF IInv
<1>2. /\ batch # <<>> /\ ~SelfTx /\ ~ChannelBusy
      /\ inFlight' = inFlight \cup {f}
      /\ aired' = aired \cup {f}
      /\ collided' = collided \cup Verdicts(f)
      /\ nextId' = nextId + 1
      /\ txUntil' = [txUntil EXCEPT ![turn] = f.end]
      /\ UNCHANGED <<now, alive, received>>
  BY <1>1, TransmitEffect DEF lifeVars
<1>3. turn \in Nodes /\ turn \in alive
  BY <1>1, <1>2, HeadType
<1>4. /\ f \in Frame /\ f.id = nextId /\ f.sender = turn /\ f.freq = tune[turn].freq
      /\ f.start >= now /\ f.end > f.start
  BY <1>1, <1>2, NewFrameType
<1> HIDE DEF f
<1>5. now \in Nat /\ nextId \in Nat /\ f.start \in Nat /\ f.end \in Nat
  BY <1>1, <1>4 DEF TypeOK, AirOK, Frame
<1>6. \A g \in aired : g.id \in Nat /\ g.start \in Nat /\ g.end \in Nat
  BY <1>1 DEF TypeOK, AirOK, Frame
<1>7. \A g \in aired : g.id < nextId /\ g # f
  BY <1>4, <1>5 DEF IInv, IdsUnique
<1>8. \A g \in inFlight : g.sender # turn
  BY <1>2 DEF SelfTx
<1>9. \A g \in aired : g.end <= now => ~Overlaps(g, f) /\ ~Overlaps(f, g)
  BY <1>4, <1>5, <1>6 DEF Overlaps
<1>10. IdsUnique'
  <2>1. \A g \in aired' : g.id < nextId'
    BY <1>2, <1>4, <1>5, <1>6, <1>7
  <2>2. \A g, h \in aired' : g.id = h.id => g = h
    BY <1>2, <1>4, <1>5, <1>6, <1>7 DEF IInv, IdsUnique
  <2> QED
    BY <1>2, <2>1, <2>2 DEF IInv, IdsUnique
<1>11. AtMostOneFlight'
  BY <1>2, <1>4, <1>8 DEF IInv, AtMostOneFlight
<1>12. SlotTracksFlight'
  <2> SUFFICES ASSUME NEW i \in Nodes
               PROVE  /\ \A g \in inFlight' : g.sender = i => txUntil'[i] = g.end
                      /\ (\A g \in inFlight' : g.sender # i) => txUntil'[i] = 0
    BY DEF SlotTracksFlight
  <2>1. txUntil \in [Nodes -> Nat]
    BY <1>1 DEF TypeOK, AirOK
  <2>2. CASE i = turn
    <3>1. txUntil'[i] = f.end
      BY <1>2, <1>3, <2>1, <2>2
    <3> QED
      BY <1>2, <1>4, <1>8, <2>2, <3>1
  <2>3. CASE i # turn
    <3>1. txUntil'[i] = txUntil[i]
      BY <1>2, <2>1, <2>3
    <3> QED
      BY <1>2, <1>4, <2>3, <3>1 DEF IInv, SlotTracksFlight
  <2> QED
    BY <2>2, <2>3
<1>13. DeadAreSilent' /\ Landed' /\ Settled'
  BY <1>2, <1>3, <1>4 DEF IInv, DeadAreSilent, Landed, Settled
<1>14. Judged'
  <2> SUFFICES ASSUME NEW e \in inFlight', NEW g \in aired' \ {e}, NEW r \in Nodes,
                      Destroys(g, e, r)
               PROVE  <<e.id, r>> \in collided'
    BY DEF Judged
  <2>1. CASE e = f
    <3>1. g \in aired
      BY <1>2, <2>1
    <3>2. g \in inFlight
      BY <1>9, <2>1, <3>1 DEF Destroys, IInv, Landed
    <3>3. <<e.id, r>> \in VerdictsOn(f)
      BY <2>1, <3>2 DEF VerdictsOn
    <3> QED
      BY <1>2, <3>3 DEF Verdicts
  <2>2. CASE e \in inFlight /\ g = f
    <3>1. <<e.id, r>> \in VerdictsBy(f)
      BY <2>2 DEF VerdictsBy
    <3> QED
      BY <1>2, <3>1 DEF Verdicts
  <2>3. CASE e \in inFlight /\ g # f
    BY <1>2, <2>3 DEF IInv, Judged
  <2> QED
    BY <1>2, <2>1, <2>2, <2>3
<1>15. NoDestroyedReception'
  <2> SUFFICES ASSUME NEW x \in received, NEW g \in aired' \ {x[1]}
               PROVE  ~Destroys(g, x[1], x[2])
    BY <1>2 DEF NoDestroyedReception
  <2>1. x[1].end \in Nat /\ x[1].end <= now
    BY <1>1 DEF IInv, TypeOK, Settled, Frame
  <2>2. g = f => ~Overlaps(g, x[1])
    BY <1>4, <1>5, <2>1 DEF Overlaps
  <2> QED
    BY <1>2, <2>2 DEF IInv, NoDestroyedReception, Destroys
<1>16. LbtExclusive'
  <2> SUFFICES ASSUME NEW g \in aired', NEW h \in aired',
                      EnergyMode, g.id < h.id, g.freq = h.freq,
                      h.sender \in LbtNodes \ {g.sender}, HasLink(g.sender, h.sender),
                      Links[g.sender][h.sender] >= Latest(EnergyThreshold, -99)
               PROVE  ~Overlaps(g, h)
    BY DEF LbtExclusive
  <2>1. CASE h \in aired
    <3>1. g # f
      BY <1>4, <1>5, <1>6, <1>7, <2>1
    <3> QED
      BY <1>2, <2>1, <3>1 DEF IInv, LbtExclusive
  <2>2. CASE h = f
    <3>1. g \in aired
      BY <1>2, <1>4, <1>5, <2>2
    <3>2. EnergyThreshold \in Int /\ Links[g.sender][turn] \in Int
      <4>1. g.sender \in Nodes
        BY <1>1, <3>1 DEF TypeOK, AirOK, Frame
      <4>2. EnergyThreshold \in Int /\ Links \in [Nodes -> [Nodes -> Int]]
        BY ConfigAssumption
      <4> QED
        BY <1>3, <4>1, <4>2
    <3>3. Links[g.sender][turn] > -100 /\ Links[g.sender][turn] >= EnergyThreshold
      BY <1>4, <2>2, <3>2 DEF Latest
    <3>4. g \notin Audible(turn)
      BY <1>2, <1>4, <2>2 DEF ChannelBusy, IsChannelBusy
    <3>5. g \in inFlight => g.end <= now
      BY <1>4, <1>5, <1>6, <2>2, <3>1, <3>3, <3>4 DEF Audible, TunedToCarrier
    <3>6. g.end <= now
      BY <3>1, <3>5 DEF IInv, Landed
    <3> QED
      BY <1>9, <2>2, <3>1, <3>6
  <2> QED
    BY <1>2, <2>1, <2>2
<1> QED
  BY <1>10, <1>11, <1>12, <1>13, <1>14, <1>15, <1>16 DEF IInv

LEMMA Inductive == IInv /\ [Next]_vars => IInv'
<1> SUFFICES ASSUME IInv, [Next]_vars PROVE IInv'
  OBVIOUS
<1>1. TypeOK /\ TypeOK'
  BY TypeStep DEF IInv
<1> QED
  BY <1>1, StepClasses, QuietStep, LifecycleStep, DeliverStep, CompactStep, TransmitStep

LEMMA InitInvariant == Init => IInv
<1> SUFFICES ASSUME Init PROVE IInv
  OBVIOUS
<1>1. TypeOK
  BY TypeInit
<1>2. IdsUnique /\ AtMostOneFlight /\ SlotTracksFlight /\ DeadAreSilent
  BY DEF Init, IdsUnique, AtMostOneFlight, SlotTracksFlight, DeadAreSilent
<1>3. Landed /\ Settled /\ Judged /\ NoDestroyedReception /\ LbtExclusive
  BY DEF Init, Landed, Settled, Judged, NoDestroyedReception, LbtExclusive
<1> QED
  BY <1>1, <1>2, <1>3 DEF IInv

THEOREM InvariantHolds == Spec => []IInv
<1>1. Init => IInv
  BY InitInvariant
<1>2. IInv /\ [Next]_vars => IInv'
  BY Inductive
<1> QED
  BY <1>1, <1>2, PTL DEF Spec

(* "There's only ever one such entry": registerTransmissionsForStep never  *)
(* has two frames of one sender in flight.                                 *)
THEOREM OneFlightPerSender == Spec => []AtMostOneFlight
<1>1. IInv => AtMostOneFlight
  BY DEF IInv
<1> QED
  BY <1>1, InvariantHolds, PTL

(* The slot that self:tx_in_flight() reads always agrees with the          *)
(* in-flight list.                                                         *)
THEOREM SlotAgrees == Spec => []SlotTracksFlight
<1>1. IInv => SlotTracksFlight
  BY DEF IInv
<1> QED
  BY <1>1, InvariantHolds, PTL

(* A dead node's frame is never left on the air.                           *)
THEOREM NoGhostFrames == Spec => []DeadAreSilent
<1>1. IInv => DeadAreSilent
  BY DEF IInv
<1> QED
  BY <1>1, InvariantHolds, PTL

(* deliverReceptionsForStep never hands a node a frame that overlapped     *)
(* another frame which evaluateCollision says destroys it, for any links,  *)
(* any capture thresholds, any deferral and any step lengths.              *)
THEOREM CollisionsComplete == Spec => []NoDestroyedReception
<1>1. IInv => NoDestroyedReception
  BY DEF IInv
<1> QED
  BY <1>1, InvariantHolds, PTL

(* Under energy LBT no node talks over a frame it could hear.              *)
THEOREM ListenBeforeTalk == Spec => []LbtExclusive
<1>1. IInv => LbtExclusive
  BY DEF IInv
<1> QED
  BY <1>1, InvariantHolds, PTL
-----------------------------------------------------------------------------
(* The turnaround.  NotifyRxStart only moves a radio's clock forward, so   *)
(* a radio that was told of a frame knows it for good (Told), and what it  *)
(* knows is the end of a frame plus the turnaround (RadioShape).           *)

RadioShape ==
  \A o \in Nodes : radio[o].rxUntil > 0 => radio[o].earliestTx = radio[o].rxUntil + RxToTx

Told ==
  \A f \in aired : \A o \in Nodes \ {f.sender} :
    Freqs = {f.freq} /\ HasLink(f.sender, o) /\ Links[f.sender][o] > -100
      => radio[o].rxUntil >= f.end

FramesLast == \A f \in aired : f.end > 0

RInv == RadioShape /\ Told /\ FramesLast /\ TurnaroundRespected

LEMMA NotifyMonotone ==
  ASSUME NEW r \in [rxUntil : Nat, earliestTx : Nat], NEW until \in Nat, until > 0,
         r.rxUntil > 0 => r.earliestTx = r.rxUntil + RxToTx
  PROVE  LET s == NotifyRxStart(r, until)
         IN  /\ s.rxUntil >= r.rxUntil /\ s.rxUntil >= until
             /\ s.rxUntil > 0 => s.earliestTx = s.rxUntil + RxToTx
BY DEF NotifyRxStart

LEMMA RadioStep == IInv /\ RInv /\ [Next]_vars => RInv'
<1> SUFFICES ASSUME IInv, RInv, [Next]_vars PROVE RInv'
  OBVIOUS
<1>1. TypeOK
  BY DEF IInv
<1>2. ASSUME UNCHANGED radio, aired' \subseteq aired PROVE RInv'
  <2>1. \A f \in aired' : f \in aired
    BY <1>2
  <2> QED
    BY <1>2, <2>1 DEF RInv, RadioShape, Told, FramesLast, TurnaroundRespected
<1>3. CASE Quiet
  BY <1>2, <1>3 DEF Quiet, airVars
<1>4. CASE Lifecycle
  BY <1>2, <1>4 DEF Lifecycle
<1>5. CASE Deliver
  BY <1>2, <1>5 DEF Deliver, airVars
<1>6. CASE Compact
  BY <1>2, <1>6 DEF Compact
<1>7. CASE Transmit
  <2> DEFINE f == NewFrame(Head(batch))
  <2>1. /\ batch # <<>>
        /\ aired' = aired \cup {f}
        /\ radio' = [o \in Nodes |-> IF o \in Observers(f) THEN NotifyRxStart(radio[o], f.end)
                                     ELSE radio[o]]
    BY <1>1, <1>7, TransmitEffect
  <2>2. /\ f \in Frame /\ f.id = nextId /\ f.sender = turn
        /\ f.start >= radio[turn].earliestTx /\ f.end > f.start
    BY <1>1, <2>1, NewFrameType
  <2> HIDE DEF f
  <2>3. /\ f.start \in Nat /\ f.end \in Nat /\ f.end > 0 /\ f.freq \in Freqs
        /\ turn \in Nodes /\ nextId \in Nat
    BY <2>2, <1>1 DEF Frame, TypeOK, AirOK
  <2>4. radio \in [Nodes -> [rxUntil : Nat, earliestTx : Nat]]
    BY <1>1 DEF TypeOK, AirOK
  <2>5. \A g \in aired : g \in Frame /\ g.id < nextId
    BY <1>1 DEF IInv, IdsUnique, TypeOK, AirOK
  <2>6. \A o \in Nodes : /\ radio'[o].rxUntil >= radio[o].rxUntil
                         /\ o \in Observers(f) => radio'[o].rxUntil >= f.end
                         /\ radio'[o].rxUntil > 0 => radio'[o].earliestTx = radio'[o].rxUntil + RxToTx
    <3> SUFFICES ASSUME NEW o \in Nodes
                 PROVE  /\ radio'[o].rxUntil >= radio[o].rxUntil
                        /\ o \in Observers(f) => radio'[o].rxUntil >= f.end
                        /\ radio'[o].rxUntil > 0 => radio'[o].earliestTx = radio'[o].rxUntil + RxToTx
      OBVIOUS
    <3>1. radio[o] \in [rxUntil : Nat, earliestTx : Nat]
      BY <2>4
    <3>2. radio[o].rxUntil > 0 => radio[o].earliestTx = radio[o].rxUntil + RxToTx
      BY DEF RInv, RadioShape
    <3>3. CASE o \in Observers(f)
      <4>1. radio'[o] = NotifyRxStart(radio[o], f.end)
        BY <2>1, <3>3
      <4> QED
        BY <2>3, <3>1, <3>2, <4>1, NotifyMonotone
    <3>4. CASE o \notin Observers(f)
      <4>1. radio'[o] = radio[o]
        BY <2>1, <3>4
      <4> QED
        BY <3>1, <3>2, <3>4, <4>1
    <3> QED
      BY <3>3, <3>4
  <2>7. \A o \in Nodes : radio[o].rxUntil \in Nat /\ radio'[o].rxUntil \in Nat
    <3>1. TypeOK'
      BY <1>1, TypeStep
    <3>2. radio' \in [Nodes -> [rxUntil : Nat, earliestTx : Nat]]
      BY <3>1 DEF TypeOK, AirOK
    <3> QED
      BY <2>4, <3>2
  <2>8. RadioShape'
    BY <2>6 DEF RadioShape
  <2>9. Told'
    <3> SUFFICES ASSUME NEW g \in aired', NEW o \in Nodes \ {g.sender},
                        Freqs = {g.freq}, HasLink(g.sender, o), Links[g.sender][o] > -100
                 PROVE  radio'[o].rxUntil >= g.end
      BY DEF Told
    <3>1. CASE g \in aired
      <4>1. radio[o].rxUntil >= g.end /\ g.end \in Nat
        BY <2>5, <3>1 DEF RInv, Told, Frame
      <4> QED
        BY <2>6, <2>7, <4>1
    <3>2. CASE g = f
      <4>1. tune[o].freq = f.freq
        <5>1. tune[o].freq \in Freqs
          BY <1>1 DEF TypeOK, NodeOK, Tune
        <5> QED
          BY <3>2, <5>1
      <4>2. o \in Observers(f)
        BY <3>2, <4>1 DEF Observers, TunedToCarrier
      <4> QED
        BY <2>6, <3>2, <4>2
    <3> QED
      BY <2>1, <3>1, <3>2
  <2>10. FramesLast'
    BY <2>1, <2>3 DEF RInv, FramesLast
  <2>11. TurnaroundRespected'
    <3> SUFFICES ASSUME NEW g \in aired', NEW h \in aired',
                        Freqs = {g.freq}, g.id < h.id, g.sender # h.sender,
                        HasLink(g.sender, h.sender), Links[g.sender][h.sender] > -100
                 PROVE  h.start >= g.end + RxToTx
      BY DEF TurnaroundRespected
    <3>1. CASE h \in aired
      <4>1. g # f
        BY <2>2, <2>3, <2>5, <3>1 DEF Frame
      <4> QED
        BY <2>1, <3>1, <4>1 DEF RInv, TurnaroundRespected
    <3>2. CASE h = f
      <4>1. g \in aired
        BY <2>1, <2>2, <2>3, <3>2
      <4>2. g.end \in Nat /\ g.end > 0
        BY <2>5, <4>1 DEF RInv, FramesLast, Frame
      <4>3. radio[turn].rxUntil >= g.end
        BY <2>2, <2>3, <3>2, <4>1 DEF RInv, Told
      <4>4. radio[turn].earliestTx = radio[turn].rxUntil + RxToTx
        BY <2>3, <2>7, <4>2, <4>3 DEF RInv, RadioShape
      <4>5. RxToTx \in Nat
        BY ConfigAssumption
      <4> QED
        BY <2>2, <2>3, <2>7, <3>2, <4>2, <4>3, <4>4, <4>5
    <3> QED
      BY <2>1, <3>1, <3>2
  <2> QED
    BY <2>8, <2>9, <2>10, <2>11 DEF RInv
<1> QED
  BY <1>1, <1>3, <1>4, <1>5, <1>6, <1>7, StepClasses

(* The RX->TX turnaround holds against every frame heard before, not only  *)
(* the last one, whatever their lengths and deferrals.                     *)
THEOREM TurnaroundHolds == Spec => []TurnaroundRespected
<1>1. Init => RInv
  BY DEF Init, RInv, RadioShape, Told, FramesLast, TurnaroundRespected
<1>2. RInv => TurnaroundRespected
  BY DEF RInv
<1> QED
  BY <1>1, <1>2, RadioStep, InvariantHolds, PTL DEF Spec

-----------------------------------------------------------------------------
(* Births and commands.  A node that is not alive has died or has yet to   *)
(* be born (Cycle); after the lifecycle phase it is not overdue either.    *)

Gone(i) == Died(i) \/ (StartAt[i] > 0 /\ i \notin initialized)

Cycle ==
  /\ phase = "boot" => now = 0
  /\ \A i \in Nodes : StartAt[i] > 0 => initAt[i] = StartAt[i]
  /\ \A i \in Nodes \ alive : Gone(i)
  /\ phase \notin {"boot", "lifecycle", "ended"} =>
       \A i \in Nodes \ alive : Died(i) \/ StartAt[i] > now
  /\ phase \in {"deliver", "timers", "register"} => DueCommands = {}

LEMMA CycleBoot == TypeOK /\ Cycle /\ (Boot \/ Startup) => Cycle'
<1> SUFFICES ASSUME TypeOK, Cycle, Boot \/ Startup PROVE Cycle'
  OBVIOUS
<1>1. /\ UNCHANGED <<now, alive, initAt, fired>>
      /\ initialized' = initialized \cup Booting
      /\ \/ phase = "boot" /\ phase' = "lifecycle"
         \/ phase = "startup" /\ phase' = "commands"
  BY DEF Boot, Startup, BootNodes
<1>2. StartAt \in [Nodes -> Nat] /\ now \in Nat
  BY ConfigAssumption DEF TypeOK
<1>3. \A i \in Nodes \ alive : Gone(i)'
  <2> SUFFICES ASSUME NEW i \in Nodes \ alive PROVE Gone(i)'
    OBVIOUS
  <2>1. Died(i)' <=> Died(i)
    BY <1>1 DEF Died
  <2>2. CASE i \in Booting /\ ~Died(i)
    <3>1. StartAt[i] > 0 /\ initAt[i] = StartAt[i] /\ StartAt[i] <= now
      BY <2>2 DEF Cycle, Gone, Booting
    <3> QED
      BY <1>1, <1>2, <2>2, <3>1 DEF Cycle
  <2>3. CASE Died(i)
    BY <2>1, <2>3 DEF Gone, Died
  <2>4. CASE i \notin Booting /\ ~Died(i)
    <3>1. StartAt[i] > 0 /\ i \notin initialized
      BY <2>4 DEF Cycle, Gone
    <3>2. i \notin initialized'
      BY <1>1, <2>4, <3>1
    <3> QED
      BY <3>1, <3>2 DEF Gone
  <2> QED
    BY <2>2, <2>3, <2>4
<1>4. \A i \in Nodes : Died(i)' <=> Died(i)
  BY <1>1 DEF Died
<1> QED
  BY <1>1, <1>3, <1>4 DEF Cycle

LEMMA CycleLifecycle == TypeOK /\ Cycle /\ Lifecycle => Cycle'
<1> SUFFICES ASSUME TypeOK, Cycle, Lifecycle PROVE Cycle'
  OBVIOUS
<1>1. /\ UNCHANGED <<now, initialized, initAt, fired>>
      /\ alive' = (alive \cup Born) \ Dying
      /\ phase' = "startup"
  BY DEF Lifecycle
<1>2. StartAt \in [Nodes -> Nat] /\ now \in Nat
  BY ConfigAssumption DEF TypeOK
<1>3. ASSUME NEW i \in Nodes \ alive'
      PROVE  Gone(i)' /\ (Died(i)' \/ StartAt[i] > now)
  <2>1. CASE i \in Dying
    <3>1. DiesAt[i] > 0 /\ now >= DiesAt[i]
      BY <2>1 DEF Dying
    <3>2. Died(i)'
      BY <1>1, <1>3, <3>1 DEF Died
    <3> QED
      BY <3>2 DEF Gone, Died
  <2>2. CASE i \notin Dying
    <3>1. i \notin alive /\ i \notin Born
      BY <1>1, <1>3, <2>2
    <3>2. Gone(i)
      BY <3>1 DEF Cycle
    <3>3. Died(i) => Died(i)'
      BY <1>1, <1>3 DEF Died
    <3>4. ~Died(i) => StartAt[i] > 0 /\ i \notin initialized /\ ~(now >= StartAt[i])
      BY <3>1, <3>2 DEF Gone, Born
    <3>5. CASE Died(i)
      BY <3>3, <3>5 DEF Gone, Died
    <3>6. CASE ~Died(i)
      <4>1. StartAt[i] > 0 /\ i \notin initialized' /\ StartAt[i] > now
        BY <1>1, <1>2, <1>3, <3>4, <3>6
      <4> QED
        BY <4>1 DEF Gone
    <3> QED
      BY <3>5, <3>6
  <2> QED
    BY <2>1, <2>2
<1> QED
  BY <1>1, <1>3 DEF Cycle

(* In the other phases nobody is born or dies.                             *)
LEMMA CycleRest ==
  ASSUME TypeOK, Cycle, UNCHANGED <<now, alive, initialized, initAt>>,
         \/ UNCHANGED <<phase, fired>>
         \/ phase = "commands" /\ UNCHANGED phase
         \/ phase = "commands" /\ phase' = "deliver" /\ DueCommands = {} /\ UNCHANGED fired
         \/ phase = "deliver" /\ phase' = "timers" /\ UNCHANGED fired
         \/ phase = "timers" /\ phase' = "register" /\ UNCHANGED fired
  PROVE  Cycle'
<1>1. \A i \in Nodes : (Died(i)' <=> Died(i)) /\ (Gone(i)' <=> Gone(i))
  BY DEF Died, Gone
<1>2. UNCHANGED fired => DueCommands' = DueCommands
  BY DEF DueCommands, Died
<1> QED
  BY <1>1, <1>2 DEF Cycle

LEMMA CycleEndStep == TypeOK /\ Cycle /\ EndStep => Cycle'
<1> SUFFICES ASSUME TypeOK, Cycle, EndStep PROVE Cycle'
  OBVIOUS
<1>1. PICK advance \in Steps : now' = now + advance
  BY DEF EndStep
<1>2. advance \in Nat /\ now \in Nat /\ DiesAt \in [Nodes -> Nat]
  BY ConfigAssumption DEF TypeOK
<1>3. /\ UNCHANGED <<alive, initialized, initAt>>
      /\ phase' \in {"lifecycle", "ended"}
  BY DEF EndStep, lifeVars
<1>4. \A i \in Nodes : Died(i) => Died(i)'
  BY <1>1, <1>2, <1>3 DEF Died
<1> QED
  BY <1>3, <1>4 DEF Cycle, Gone

LEMMA CycleStep == TypeOK /\ Cycle /\ [Next]_vars => Cycle'
<1> SUFFICES ASSUME TypeOK, Cycle, [Next]_vars PROVE Cycle'
  OBVIOUS
<1>1. CASE Boot \/ Startup
  BY <1>1, CycleBoot
<1>2. CASE Lifecycle
  BY <1>2, CycleLifecycle
<1>3. CASE FireCommand
  BY <1>3, CycleRest DEF FireCommand, lifeVars
<1>4. CASE CommandsDone
  BY <1>4, CycleRest DEF CommandsDone, lifeVars
<1>5. CASE Compact
  BY <1>5, CycleRest DEF Compact, lifeVars
<1>6. CASE TickTimers
  BY <1>6, CycleRest DEF TickTimers, lifeVars
<1>7. CASE EndStep
  BY <1>7, CycleEndStep
<1>8. CASE ConsoleCommand \/ Deliver \/ DrainNode \/ Ended \/ UNCHANGED vars
  BY <1>8, CycleRest DEF ConsoleCommand, Deliver, DrainNode, Ended, lifeVars, vars
<1>9. CASE Refuse \/ RefuseDuty \/ TxFail \/ Transmit \/ RouteInWarmup
  BY <1>9, CycleRest DEF Refuse, RefuseDuty, TxFail, Transmit, RouteInWarmup, lifeVars
<1> QED
  BY <1>1, <1>2, <1>3, <1>4, <1>5, <1>6, <1>7, <1>8, <1>9 DEF Next

LEMMA CycleInit == Init => Cycle
<1> SUFFICES ASSUME Init PROVE Cycle
  OBVIOUS
<1>1. PICK jitter \in [Nodes -> 0 .. MaxJitter] :
        initAt = [i \in Nodes |-> IF StartAt[i] > 0 THEN StartAt[i] ELSE jitter[i]]
  BY DEF Init
<1>2. \A i \in Nodes : StartAt[i] \in Nat
  BY ConfigAssumption
<1> QED
  BY <1>1, <1>2 DEF Init, Cycle, Gone

(* A due command is left over only for a node that has yet to be born:     *)
(* processCommandsAtStep never strands one on a living or a dead node.     *)
THEOREM CommandsAwaitBirth == Spec => []DueCommandsAwaitBirth
<1>1. Init => Cycle
  BY CycleInit
<1>2. TypeOK /\ Cycle => DueCommandsAwaitBirth
  <2> SUFFICES ASSUME Cycle, phase \in {"deliver", "timers", "register"},
                      NEW k \in 1 .. Len(Commands) \ fired, Commands[k].at <= now
               PROVE  StartAt[Commands[k].node] > now
    BY DEF DueCommandsAwaitBirth
  <2>1. Commands[k].node \in Nodes
    <3>1. Commands \in Seq([at : Nat, node : Nodes])
      BY ConfigAssumption
    <3>2. k \in 1 .. Len(Commands)
      OBVIOUS
    <3> DEFINE C == [at : Nat, node : Nodes]
    <3>3. Commands[k] \in C
      <4>1. Commands \in Seq(C)
        BY <3>1
      <4> HIDE DEF C
      <4> QED
        BY <3>2, <4>1
    <3> QED
      BY <3>3
  <2>2. Commands[k].node \notin alive /\ ~Died(Commands[k].node)
    BY DEF Cycle, DueCommands
  <2> QED
    BY <2>1, <2>2 DEF Cycle
<1> QED
  BY <1>1, <1>2, CycleStep, TypeCorrect, PTL DEF Spec

-----------------------------------------------------------------------------
(* Lives.  What a node's log says and in which order, whether the node is  *)
(* alive and initialized, and how far its boot is due are one invariant:   *)
(* each clause is what the next birth, boot or death appends under.        *)
Events == {"started", "ready", "died"}

Says(log, what) == \E k \in 1 .. Len(log) : log[k] = what

SaysOnce(log) == \A k, l \in 1 .. Len(log) : log[k] = log[l] => k = l

Precedes(log, a, b) == \A k, l \in 1 .. Len(log) : log[k] = a /\ log[l] = b => k < l

(* The node's death may come in the step that boots it, or before.         *)
DiesEarly(i) == \E s \in Steps : DiesAt[i] < initAt[i] + s

Overdue(i) == \A s \in Steps : initAt[i] + s <= now

LogInOrder(i) ==
  /\ SaysOnce(lifeLog[i])
  /\ Precedes(lifeLog[i], "started", "ready") /\ Precedes(lifeLog[i], "started", "died")
  /\ ~DiesEarly(i) => Precedes(lifeLog[i], "ready", "died")

LogTellsLife(i) ==
  /\ i \in alive <=> (StartAt[i] = 0 \/ Says(lifeLog[i], "started")) /\ ~Says(lifeLog[i], "died")
  /\ i \in initialized <=> Says(lifeLog[i], "ready")
  /\ Says(lifeLog[i], "started") => StartAt[i] > 0 /\ StartAt[i] <= now
  /\ StartAt[i] > 0 /\ (Says(lifeLog[i], "ready") \/ Says(lifeLog[i], "died"))
       => Says(lifeLog[i], "started")

BootFollows(i) ==
  /\ Says(lifeLog[i], "started") /\ ~Says(lifeLog[i], "ready") => phase = "startup"
  /\ Says(lifeLog[i], "died") /\ ~Says(lifeLog[i], "ready") => DiesEarly(i)
  /\ phase = "startup" /\ StartAt[i] > 0 /\ StartAt[i] <= now => Says(lifeLog[i], "started")
  /\ phase \notin {"boot", "lifecycle", "startup", "ended"} => i \notin Booting
  /\ Overdue(i) => i \in initialized

Lived == \A i \in Nodes : LogInOrder(i) /\ LogTellsLife(i) /\ BootFollows(i)

LEMMA LogAppend ==
  ASSUME NEW log \in Seq(Events), NEW w \in Events, ~Says(log, w)
  PROVE  /\ Append(log, w) \in Seq(Events)
         /\ \A v : Says(Append(log, w), v) <=> Says(log, v) \/ v = w
         /\ SaysOnce(log) => SaysOnce(Append(log, w))
         /\ \A a, b : Precedes(log, a, b) /\ (a # w \/ ~Says(log, b)) /\ a # b
                        => Precedes(Append(log, w), a, b)
<1> DEFINE long == Append(log, w)
<1>1. /\ long \in Seq(Events) /\ Len(log) \in Nat
      /\ Len(long) = Len(log) + 1 /\ long[Len(log) + 1] = w
      /\ \A k \in 1 .. Len(log) : long[k] = log[k]
  OBVIOUS
<1> HIDE DEF long
<1>2. \A k \in 1 .. Len(long) : k \in 1 .. Len(log) \/ k = Len(log) + 1
  BY <1>1
<1>3. \A k \in 1 .. Len(log) : k \in 1 .. Len(long) /\ k < Len(log) + 1
  BY <1>1
<1>4. \A v : Says(long, v) <=> Says(log, v) \/ v = w
  <2>1. Len(log) + 1 \in 1 .. Len(long)
    BY <1>1
  <2> QED
    BY <1>1, <1>2, <1>3, <2>1, Zenon DEF Says
<1>5. SaysOnce(log) => SaysOnce(long)
  BY <1>1, <1>2, <1>3 DEF SaysOnce, Says
<1>6. ASSUME NEW a, NEW b, Precedes(log, a, b), a # w \/ ~Says(log, b), a # b
      PROVE  Precedes(long, a, b)
  <2> SUFFICES ASSUME NEW k \in 1 .. Len(long), NEW l \in 1 .. Len(long),
                      long[k] = a, long[l] = b
               PROVE  k < l
    BY DEF Precedes
  <2>1. CASE k \in 1 .. Len(log) /\ l \in 1 .. Len(log)
    BY <1>1, <1>6, <2>1 DEF Precedes
  <2>2. CASE k \in 1 .. Len(log) /\ l = Len(log) + 1
    BY <1>3, <2>2
  <2>3. CASE k = Len(log) + 1
    <3>1. a = w
      BY <1>1, <2>3
    <3>2. l \in 1 .. Len(log)
      BY <1>1, <1>2, <1>6, <3>1
    <3> QED
      BY <1>1, <1>6, <3>1, <3>2 DEF Says
  <2> QED
    BY <1>2, <2>1, <2>2, <2>3
<1> QED
  BY <1>1, <1>4, <1>5, <1>6 DEF long

LEMMA LogTypes ==
  ASSUME TypeOK
  PROVE  /\ \A i \in Nodes : lifeLog[i] \in Seq(Events)
         /\ \A i \in Nodes : initAt[i] \in Nat /\ StartAt[i] \in Nat /\ DiesAt[i] \in Nat
         /\ now \in Nat /\ Steps \subseteq Nat \ {0} /\ Steps # {}
<1>1. lifeLog \in [Nodes -> Seq(Events)] /\ initAt \in [Nodes -> Nat] /\ now \in Nat
  BY DEF TypeOK, LifeOK, Events
<1> QED
  BY <1>1, ConfigAssumption

(* on_init: a boot appends node_ready, at the end of a log without it.     *)
LEMMA LivedBoot == TypeOK /\ Cycle /\ Lived /\ (Boot \/ Startup) => Lived'
<1> SUFFICES ASSUME TypeOK, Cycle, Lived, Boot \/ Startup, NEW i \in Nodes
             PROVE  LogInOrder(i)' /\ LogTellsLife(i)' /\ BootFollows(i)'
  BY DEF Lived
<1>1. /\ UNCHANGED <<now, alive, initAt>>
      /\ initialized' = initialized \cup Booting
      /\ lifeLog'[i] = IF i \in Booting THEN Append(lifeLog[i], "ready") ELSE lifeLog[i]
      /\ \/ phase = "boot" /\ phase' = "lifecycle"
         \/ phase = "startup" /\ phase' = "commands"
  BY DEF Boot, Startup, BootNodes
<1>2. LogInOrder(i) /\ LogTellsLife(i) /\ BootFollows(i)
  BY DEF Lived
<1>3. (DiesEarly(i)' <=> DiesEarly(i)) /\ (Overdue(i)' <=> Overdue(i)) /\ i \notin Booting'
  BY <1>1 DEF DiesEarly, Overdue, Booting
<1>4. CASE i \in Booting
  <2>1. ~Says(lifeLog[i], "ready") /\ i \notin initialized /\ initAt[i] <= now
    BY <1>2, <1>4 DEF Booting, LogTellsLife
  <2>2. /\ \A v : Says(lifeLog[i], v)' <=> Says(lifeLog[i], v) \/ v = "ready"
        /\ SaysOnce(lifeLog[i]) => SaysOnce(lifeLog[i])'
        /\ \A a, b : Precedes(lifeLog[i], a, b) /\ (a # "ready" \/ ~Says(lifeLog[i], b)) /\ a # b
                       => Precedes(lifeLog[i], a, b)'
    <3>1. lifeLog[i] \in Seq(Events) /\ "ready" \in Events
      BY LogTypes DEF Events
    <3> QED
      BY <1>1, <1>4, <2>1, <3>1, LogAppend DEF Says, SaysOnce, Precedes
  <2>3. StartAt[i] > 0 => Says(lifeLog[i], "started")
    <3>1. StartAt[i] > 0 => initAt[i] = StartAt[i]
      BY DEF Cycle
    <3> QED
      BY <1>1, <1>2, <2>1, <3>1, LogTypes DEF Cycle, BootFollows
  <2>4. LogInOrder(i)'
    BY <1>2, <1>3, <2>1, <2>2 DEF LogInOrder, BootFollows
  <2>5. LogTellsLife(i)'
    BY <1>1, <1>2, <1>4, <2>2, <2>3 DEF LogTellsLife
  <2>6. BootFollows(i)'
    BY <1>1, <1>2, <1>3, <1>4, <2>2 DEF BootFollows
  <2> QED
    BY <2>4, <2>5, <2>6
<1>5. CASE i \notin Booting
  <2>1. lifeLog'[i] = lifeLog[i] /\ (i \in initialized' <=> i \in initialized)
    BY <1>1, <1>5
  <2>2. LogInOrder(i)' /\ LogTellsLife(i)'
    <3>1. LogInOrder(i)'
      BY <1>2, <1>3, <2>1 DEF LogInOrder, SaysOnce, Precedes
    <3>2. \A v : Says(lifeLog[i], v)' <=> Says(lifeLog[i], v)
      BY <2>1 DEF Says
    <3>3. LogTellsLife(i)'
      BY <1>1, <1>2, <2>1, <3>2 DEF LogTellsLife
    <3> QED
      BY <3>1, <3>3
  <2>3. ~(Says(lifeLog[i], "started") /\ ~Says(lifeLog[i], "ready"))
    <3> SUFFICES ASSUME Says(lifeLog[i], "started"), ~Says(lifeLog[i], "ready") PROVE FALSE
      OBVIOUS
    <3>1. phase = "startup" /\ StartAt[i] > 0 /\ StartAt[i] <= now /\ i \notin initialized
      BY <1>2 DEF BootFollows, LogTellsLife
    <3>2. initAt[i] = StartAt[i]
      BY <3>1 DEF Cycle
    <3> QED
      BY <1>5, <3>1, <3>2 DEF Booting
  <2>4. BootFollows(i)'
    BY <1>1, <1>2, <1>3, <2>1, <2>3 DEF BootFollows, Says
  <2> QED
    BY <2>2, <2>4
<1> QED
  BY <1>4, <1>5

(* A birth is told at the head of an empty log; a death at the end of one  *)
(* that does not tell it, and before the boot only where the boot was not  *)
(* overdue.                                                                *)
LEMMA LivedLifecycle == TypeOK /\ Cycle /\ Lived /\ Lifecycle => Lived'
<1> SUFFICES ASSUME TypeOK, Cycle, Lived, Lifecycle, NEW i \in Nodes
             PROVE  LogInOrder(i)' /\ LogTellsLife(i)' /\ BootFollows(i)'
  BY DEF Lived
<1> DEFINE log == lifeLog[i]
           mid == IF i \in Born THEN Append(log, "started") ELSE log
<1>0. log \in Seq(Events) /\ "started" \in Events /\ "died" \in Events
  BY LogTypes DEF Events
<1>1. /\ UNCHANGED <<now, initAt, initialized>>
      /\ phase = "lifecycle" /\ phase' = "startup"
      /\ alive' = (alive \cup Born) \ Dying
  BY DEF Lifecycle
<1>2. LogInOrder(i) /\ LogTellsLife(i) /\ BootFollows(i)
  BY DEF Lived
<1>3. (DiesEarly(i)' <=> DiesEarly(i)) /\ (Overdue(i)' <=> Overdue(i))
  BY <1>1 DEF DiesEarly, Overdue
<1>4. ASSUME i \in Born
      PROVE  /\ StartAt[i] > 0 /\ StartAt[i] <= now
             /\ \A v \in Events : ~Says(log, v)
  <2>1. i \notin alive /\ i \notin initialized /\ StartAt[i] > 0 /\ now >= StartAt[i]
    BY <1>4 DEF Born
  <2>2. ~Says(log, "ready")
    BY <1>2, <2>1 DEF LogTellsLife
  <2>3. ~Says(log, "started")
    BY <1>1, <1>2, <2>2 DEF BootFollows
  <2>4. ~Says(log, "died")
    BY <1>2, <2>1, <2>3 DEF LogTellsLife
  <2> QED
    BY <2>1, <2>2, <2>3, <2>4, LogTypes DEF Events
<1>5. /\ mid \in Seq(Events)
      /\ \A v : Says(mid, v) <=> Says(log, v) \/ (i \in Born /\ v = "started")
      /\ SaysOnce(mid)
      /\ Precedes(mid, "started", "ready") /\ Precedes(mid, "started", "died")
      /\ ~DiesEarly(i) => Precedes(mid, "ready", "died")
  <2>1. CASE i \in Born
    <3>1. /\ ~Says(log, "started") /\ ~Says(log, "died") /\ ~Says(log, "ready")
      BY <1>4, <2>1 DEF Events
    <3> QED
      BY <1>0, <1>2, <2>1, <3>1, LogAppend DEF LogInOrder
  <2>2. CASE i \notin Born
    BY <1>0, <1>2, <2>2 DEF LogInOrder
  <2> QED
    BY <2>1, <2>2
<1>6. lifeLog'[i] = IF i \in Dying THEN Append(mid, "died") ELSE mid
  <2>1. lifeLog'[i] = lifeLog[i] \o (IF i \in Born THEN <<"started">> ELSE <<>>)
                                 \o (IF i \in Dying THEN <<"died">> ELSE <<>>)
    BY DEF Lifecycle
  <2>2. \A s \in Seq(Events) : \A e \in Events : s \o <<>> = s /\ s \o <<e>> = Append(s, e)
    OBVIOUS
  <2>3. lifeLog[i] \o (IF i \in Born THEN <<"started">> ELSE <<>>) = mid
    BY <1>0, <2>2
  <2> HIDE DEF mid
  <2> QED
    BY <1>0, <1>5, <2>1, <2>2, <2>3
<1>7. i \in Dying => ~Says(mid, "died") /\ DiesAt[i] <= now
  <2>1. i \in Dying => i \in alive \cup Born /\ now >= DiesAt[i]
    BY DEF Dying
  <2>2. i \in alive => ~Says(log, "died")
    BY <1>2 DEF LogTellsLife
  <2>3. i \in Born => ~Says(log, "died")
    BY <1>4 DEF Events
  <2> QED
    BY <1>5, <2>1, <2>2, <2>3, LogTypes
<1> HIDE DEF mid
<1>8. /\ \A v : Says(lifeLog[i], v)' <=>
           Says(log, v) \/ (i \in Born /\ v = "started") \/ (i \in Dying /\ v = "died")
      /\ LogInOrder(i)'
  <2>1. CASE i \in Dying
    <3>1. /\ \A v : Says(Append(mid, "died"), v) <=> Says(mid, v) \/ v = "died"
          /\ SaysOnce(Append(mid, "died"))
          /\ \A a, b : Precedes(mid, a, b) /\ (a # "died" \/ ~Says(mid, b)) /\ a # b
                         => Precedes(Append(mid, "died"), a, b)
      BY <1>0, <1>5, <1>7, <2>1, LogAppend
    <3>2. lifeLog'[i] = Append(mid, "died")
      BY <1>6, <2>1
    <3>3. /\ \A v : Says(lifeLog[i], v)' <=> Says(mid, v) \/ v = "died"
          /\ SaysOnce(lifeLog[i])'
          /\ \A a, b : Precedes(mid, a, b) /\ (a # "died" \/ ~Says(mid, b)) /\ a # b
                         => Precedes(lifeLog[i], a, b)'
      <4>1. \A v : Says(lifeLog[i], v)' <=> Says(Append(mid, "died"), v)
        BY <3>2 DEF Says
      <4>2. SaysOnce(lifeLog[i])' <=> SaysOnce(Append(mid, "died"))
        BY <3>2 DEF SaysOnce
      <4>3. \A a, b : Precedes(lifeLog[i], a, b)' <=> Precedes(Append(mid, "died"), a, b)
        BY <3>2 DEF Precedes
      <4> QED
        BY <3>1, <4>1, <4>2, <4>3, Zenon
    <3> QED
      BY <1>3, <1>5, <2>1, <3>3 DEF LogInOrder
  <2>2. CASE i \notin Dying
    <3>1. lifeLog'[i] = mid
      BY <1>6, <2>2
    <3>2. /\ \A v : Says(lifeLog[i], v)' <=> Says(mid, v)
          /\ SaysOnce(lifeLog[i])' <=> SaysOnce(mid)
          /\ \A a, b : Precedes(lifeLog[i], a, b)' <=> Precedes(mid, a, b)
      BY <3>1 DEF Says, SaysOnce, Precedes
    <3> QED
      BY <1>3, <1>5, <2>2, <3>2 DEF LogInOrder
  <2> QED
    BY <2>1, <2>2
<1>9. LogTellsLife(i)'
  <2>1. i \in alive' <=> (i \in alive \/ i \in Born) /\ i \notin Dying
    BY <1>1
  <2>2. i \in Dying => i \in alive \/ i \in Born
    BY DEF Dying
  <2>3. i \in Born => ~Says(log, "died") /\ ~Says(log, "started") /\ ~Says(log, "ready")
    BY <1>4 DEF Events
  <2> QED
    BY <1>1, <1>2, <1>4, <1>8, <2>1, <2>2, <2>3 DEF LogTellsLife
<1>10. BootFollows(i)'
  <2>1. i \in Dying /\ ~Says(log, "ready") => DiesEarly(i)
    <3>1. i \in Dying /\ ~Says(log, "ready") => ~Overdue(i) /\ DiesAt[i] <= now
      BY <1>2, <1>7 DEF BootFollows, LogTellsLife
    <3>2. \A s \in Steps : initAt[i] + s \in Nat
      BY LogTypes
    <3> QED
      BY <3>1, <3>2, LogTypes DEF Overdue, DiesEarly
  <2>2. StartAt[i] > 0 /\ StartAt[i] <= now => Says(log, "started") \/ i \in Born
    <3>1. StartAt[i] > 0 /\ StartAt[i] <= now => i \in Born \/ i \in alive \/ i \in initialized
      BY LogTypes DEF Born
    <3> QED
      BY <1>2, <3>1, LogTypes DEF LogTellsLife
  <2> QED
    BY <1>1, <1>2, <1>3, <1>8, <2>1, <2>2 DEF BootFollows
<1> QED
  BY <1>8, <1>9, <1>10

(* In the other phases no log grows, and nobody's boot comes due.          *)
LEMMA LivedRest ==
  ASSUME Lived, UNCHANGED <<now, lifeVars>>,
         \/ UNCHANGED phase
         \/ /\ phase \notin {"boot", "lifecycle", "startup", "ended"}
            /\ phase' \notin {"boot", "lifecycle", "startup", "ended"}
  PROVE  Lived'
<1> SUFFICES ASSUME NEW i \in Nodes PROVE LogInOrder(i)' /\ LogTellsLife(i)' /\ BootFollows(i)'
  BY DEF Lived
<1>1. UNCHANGED <<alive, initialized, initAt, lifeLog, now>>
  BY DEF lifeVars
<1>2. LogInOrder(i) /\ LogTellsLife(i) /\ BootFollows(i)
  BY DEF Lived
<1>3. /\ DiesEarly(i)' <=> DiesEarly(i)
      /\ Overdue(i)' <=> Overdue(i)
      /\ Booting' = Booting
      /\ \A v : Says(lifeLog[i], v)' <=> Says(lifeLog[i], v)
  BY <1>1 DEF DiesEarly, Overdue, Booting, Says
<1>4. LogInOrder(i)'
  BY <1>1, <1>2, <1>3 DEF LogInOrder, SaysOnce, Precedes
<1>5. LogTellsLife(i)'
  BY <1>1, <1>2, <1>3 DEF LogTellsLife
<1>6. BootFollows(i)'
  BY <1>1, <1>2, <1>3 DEF BootFollows
<1> QED
  BY <1>4, <1>5, <1>6

LEMMA LivedEndStep == TypeOK /\ Lived /\ EndStep => Lived'
<1> SUFFICES ASSUME TypeOK, Lived, EndStep, NEW i \in Nodes
             PROVE  LogInOrder(i)' /\ LogTellsLife(i)' /\ BootFollows(i)'
  BY DEF Lived
<1>1. PICK advance \in Steps : now' = now + advance
  BY DEF EndStep
<1>2. /\ UNCHANGED <<alive, initialized, initAt, lifeLog>>
      /\ phase = "register" /\ phase' \in {"lifecycle", "ended"}
  BY DEF EndStep, lifeVars
<1>3. LogInOrder(i) /\ LogTellsLife(i) /\ BootFollows(i)
  BY DEF Lived
<1>4. advance \in Nat /\ now \in Nat /\ initAt[i] \in Nat /\ StartAt[i] \in Nat
  BY LogTypes
<1>5. (DiesEarly(i)' <=> DiesEarly(i)) /\ (\A v : Says(lifeLog[i], v)' <=> Says(lifeLog[i], v))
  BY <1>2 DEF DiesEarly, Says
<1>6. LogInOrder(i)'
  BY <1>2, <1>3, <1>5 DEF LogInOrder, SaysOnce, Precedes
<1>7. LogTellsLife(i)'
  BY <1>1, <1>2, <1>3, <1>4, <1>5 DEF LogTellsLife
<1>8. Overdue(i)' => i \in initialized
  <2> SUFFICES ASSUME Overdue(i)' PROVE i \in initialized
    OBVIOUS
  <2>1. initAt[i] + advance <= now + advance
    BY <1>1, <1>2 DEF Overdue
  <2>2. initAt[i] <= now
    BY <1>4, <2>1
  <2>3. i \notin Booting
    BY <1>2, <1>3 DEF BootFollows
  <2> QED
    BY <2>2, <2>3 DEF Booting
<1>9. BootFollows(i)'
  BY <1>2, <1>3, <1>5, <1>8 DEF BootFollows
<1> QED
  BY <1>6, <1>7, <1>9

LEMMA LivedStep == TypeOK /\ Cycle /\ Lived /\ [Next]_vars => Lived'
<1> SUFFICES ASSUME TypeOK, Cycle, Lived, [Next]_vars PROVE Lived'
  OBVIOUS
<1>1. CASE Boot \/ Startup
  BY <1>1, LivedBoot
<1>2. CASE Lifecycle
  BY <1>2, LivedLifecycle
<1>3. CASE EndStep
  BY <1>3, LivedEndStep
<1>4. CASE CommandsDone \/ Compact \/ TickTimers
  BY <1>4, LivedRest DEF CommandsDone, Compact, TickTimers
<1>5. CASE ConsoleCommand \/ FireCommand \/ Deliver \/ DrainNode \/ Ended \/ UNCHANGED vars
  BY <1>5, LivedRest DEF ConsoleCommand, FireCommand, Deliver, DrainNode, Ended, vars
<1>6. CASE Refuse \/ RefuseDuty \/ TxFail \/ Transmit \/ RouteInWarmup
  BY <1>6, LivedRest DEF Refuse, RefuseDuty, TxFail, Transmit, RouteInWarmup
<1> QED
  BY <1>1, <1>2, <1>3, <1>4, <1>5, <1>6 DEF Next

(* The places of what an ordered log says, as LivesInOrder counts them.    *)
LEMMA LogPlaces ==
  ASSUME NEW log \in Seq(Events), SaysOnce(log),
         Precedes(log, "started", "ready"), Precedes(log, "started", "died")
  PROVE  LET told == {log[k] : k \in DOMAIN log}
             At(what) == CHOOSE k \in DOMAIN log : log[k] = what
         IN  /\ Len(log) = Cardinality(told)
             /\ \A what : what \in told <=> Says(log, what)
             /\ "started" \in told => At("started") = 1
             /\ \A a, b : Precedes(log, a, b) /\ a \in told /\ b \in told => At(a) < At(b)
<1> DEFINE told == {log[k] : k \in DOMAIN log}
           At(what) == CHOOSE k \in DOMAIN log : log[k] = what
<1>1. DOMAIN log = 1 .. Len(log) /\ Len(log) \in Nat /\ log \in [1 .. Len(log) -> Events]
  OBVIOUS
<1>2. \A what : what \in told <=> Says(log, what)
  BY <1>1 DEF Says
<1>3. \A what \in told : At(what) \in 1 .. Len(log) /\ log[At(what)] = what
  BY <1>1
<1>4. Len(log) = Cardinality(told)
  <2>1. /\ log \in [1 .. Len(log) -> told]
        /\ \A t \in told : \E k \in 1 .. Len(log) : log[k] = t
        /\ \A k, l \in 1 .. Len(log) : log[k] = log[l] => k = l
    BY <1>1 DEF SaysOnce
  <2> DEFINE n == Len(log)
             T == told
  <2> HIDE DEF T
  <2>2. log \in Bijection(1 .. n, T)
    BY <2>1 DEF Bijection, Injection, Surjection, IsInjective, T
  <2>3. n \in Nat
    BY <1>1
  <2> HIDE DEF n
  <2>4. IsFiniteSet(1 .. n) /\ Cardinality(1 .. n) = n
    BY <2>3, FS_Interval
  <2>5. Cardinality(T) = n
    BY <2>2, <2>4, FS_Bijection DEF ExistsBijection
  <2> QED
    BY <2>5 DEF n, T
<1>5. "started" \in told => At("started") = 1
  <2> SUFFICES ASSUME "started" \in told PROVE At("started") = 1
    OBVIOUS
  <2> DEFINE k == At("started")
  <2>1. k \in 1 .. Len(log) /\ log[k] = "started"
    BY <1>3
  <2> HIDE DEF k
  <2>2. 1 \in 1 .. Len(log) /\ log[1] \in Events
    BY <1>1, <2>1
  <2>3. log[1] = "started"
    BY <2>1, <2>2 DEF Events, Precedes
  <2>4. k = 1
    BY <2>1, <2>2, <2>3 DEF SaysOnce
  <2> QED
    BY <2>4 DEF k
<1>6. \A a, b : Precedes(log, a, b) /\ a \in told /\ b \in told => At(a) < At(b)
  <2> HIDE DEF told, At
  <2> QED
    BY <1>3 DEF Precedes
<1> QED
  BY <1>2, <1>4, <1>5, <1>6

(* What a node's lifecycle events say is its life, in the order a life     *)
(* has: born, booted, dead, except that a boot staged less than a step     *)
(* before the death, or after it, may come last.                           *)
THEOREM LivesAreInOrder == Spec => []LivesInOrder
<1>1. Init => Lived
  <2> SUFFICES ASSUME Init, NEW i \in Nodes
               PROVE  LogInOrder(i) /\ LogTellsLife(i) /\ BootFollows(i)
    BY DEF Lived
  <2>1. /\ now = 0 /\ phase = "boot" /\ initialized = {}
        /\ alive = { j \in Nodes : StartAt[j] = 0 }
        /\ lifeLog[i] = <<>>
    BY DEF Init
  <2>2. \A v : ~Says(lifeLog[i], v)
    BY <2>1 DEF Says
  <2>3. LogInOrder(i)
    BY <2>1 DEF LogInOrder, SaysOnce, Precedes
  <2>4. LogTellsLife(i)
    BY <2>1, <2>2 DEF LogTellsLife
  <2>5. ~Overdue(i)
    BY <2>1, TypeInit, LogTypes DEF Overdue
  <2>6. BootFollows(i)
    BY <2>1, <2>2, <2>5 DEF BootFollows
  <2> QED
    BY <2>3, <2>4, <2>6
<1>2. TypeOK /\ Lived => LivesInOrder
  <2> SUFFICES ASSUME TypeOK, Lived, NEW i \in Nodes
               PROVE  LET told == {lifeLog[i][k] : k \in DOMAIN lifeLog[i]}
                          At(what) == CHOOSE k \in DOMAIN lifeLog[i] : lifeLog[i][k] = what
                      IN  /\ Len(lifeLog[i]) = Cardinality(told)
                          /\ "started" \in told => StartAt[i] > 0 /\ At("started") = 1
                          /\ i \in alive <=> /\ StartAt[i] = 0 \/ "started" \in told
                                             /\ "died" \notin told
                          /\ i \in initialized <=> "ready" \in told
                          /\ /\ {"ready", "died"} \subseteq told
                             /\ \A s \in Steps : initAt[i] + s <= DiesAt[i]
                             => At("ready") < At("died")
    BY DEF LivesInOrder
  <2> DEFINE told == {lifeLog[i][k] : k \in DOMAIN lifeLog[i]}
             At(what) == CHOOSE k \in DOMAIN lifeLog[i] : lifeLog[i][k] = what
  <2>1. LogInOrder(i) /\ LogTellsLife(i)
    BY DEF Lived
  <2>2. /\ Len(lifeLog[i]) = Cardinality(told)
        /\ \A what : what \in told <=> Says(lifeLog[i], what)
        /\ "started" \in told => At("started") = 1
        /\ \A a, b : Precedes(lifeLog[i], a, b) /\ a \in told /\ b \in told => At(a) < At(b)
    BY <2>1, LogTypes, LogPlaces DEF LogInOrder
  <2>3. (\A s \in Steps : initAt[i] + s <= DiesAt[i]) => ~DiesEarly(i)
    BY LogTypes DEF DiesEarly
  <2> HIDE DEF told, At
  <2>4. /\ "started" \in told => StartAt[i] > 0 /\ At("started") = 1
        /\ i \in alive <=> (StartAt[i] = 0 \/ "started" \in told) /\ "died" \notin told
        /\ i \in initialized <=> "ready" \in told
    BY <2>1, <2>2 DEF LogTellsLife
  <2>5. {"ready", "died"} \subseteq told /\ (\A s \in Steps : initAt[i] + s <= DiesAt[i])
          => At("ready") < At("died")
    BY <2>1, <2>2, <2>3 DEF LogInOrder
  <2> QED
    BY <2>2, <2>4, <2>5 DEF told, At
<1>3. Init => Cycle
  BY CycleInit
<1> QED
  BY <1>1, <1>2, <1>3, CycleStep, LivedStep, TypeCorrect, PTL DEF Spec

-----------------------------------------------------------------------------
(* Forced drops.  A frame is visited once, while it is still listed but    *)
(* its airtime is over, so each visit that reaches somebody either adds a  *)
(* new frame to what was delivered or is inside the window.                *)
Delivered == { x[1].id : x \in received }

OnceOnly ==
  /\ \A m \in Delivered : m < nextId /\ m \notin todo
  /\ \A f \in inFlight : f.id \in Delivered => phase = "deliver" /\ f.end <= now

LoneWildcard == Len(Drops) = 1 /\ Drops[1].from = 0 /\ Drops[1].to = 0 /\ Drops[1].label = ""
DroppedOf(n) == Earliest(Drops[1].count, Latest(0, n - Drops[1].nth + 1))

Counted ==
  LoneWildcard =>
    IsFiniteSet(Delivered) /\ Cardinality(Delivered) = dropCount[1] - DroppedOf(dropCount[1])

(* One visit: who was reached and who of them was handed the frame.        *)
Visit(f, reached) ==
  /\ f \in inFlight /\ f.id \in todo /\ todo' = todo \ {f.id}
  /\ dropCount' = [k \in DOMAIN Drops |->
       IF Counts(k, f, reached) THEN dropCount[k] + 1 ELSE dropCount[k]]
  /\ received' = received \cup { <<f, r>> : r \in { q \in reached : ~ForcedDrop(f, q) } }
  /\ UNCHANGED <<now, phase, inFlight, nextId>>

LEMMA DeliverVisits ==
  ASSUME Deliver
  PROVE  phase = "deliver" /\ \E f \in inFlight : \E reached \in SUBSET Nodes : Visit(f, reached)
<1>0. phase = "deliver" /\ UNCHANGED <<now, phase, inFlight, nextId>>
  BY DEF Deliver, airVars
<1>1. PICK f \in inFlight :
        /\ f.id \in todo
        /\ todo' = todo \ {f.id}
        /\ \E fade \in [Nodes \ {f.sender} -> Fades],
              lost \in SUBSET (IF Losses THEN Nodes \ {f.sender} ELSE {}) :
             LET reached == { r \in Nodes \ {f.sender} : Hears(f, r, fade[r], r \in lost) }
                 kept    == { r \in reached : ~ForcedDrop(f, r) }
             IN  /\ dropCount' = [k \in DOMAIN Drops |->
                      IF Counts(k, f, reached) THEN dropCount[k] + 1 ELSE dropCount[k]]
                 /\ received' = received \cup { <<f, r>> : r \in kept }
  BY ZenonT(60) DEF Deliver
<1>2. PICK reached \in SUBSET Nodes :
        /\ dropCount' = [k \in DOMAIN Drops |->
             IF Counts(k, f, reached) THEN dropCount[k] + 1 ELSE dropCount[k]]
        /\ received' = received \cup { <<f, r>> : r \in { q \in reached : ~ForcedDrop(f, q) } }
  BY <1>1
<1> QED
  BY <1>0, <1>1, <1>2 DEF Visit

LEMMA DeliveredAfter ==
  ASSUME NEW f, NEW kept, received' = received \cup { <<f, r>> : r \in kept }
  PROVE  /\ kept = {} => Delivered' = Delivered
         /\ kept # {} => Delivered' = Delivered \cup {f.id}
<1>1. ASSUME kept = {} PROVE Delivered' = Delivered
  <2>1. received' = received
    BY <1>1
  <2> QED
    BY <2>1 DEF Delivered
<1>2. ASSUME NEW q \in kept PROVE Delivered' = Delivered \cup {f.id}
  <2>1. \A x \in received' : x \in received \/ x[1] = f
    OBVIOUS
  <2>2. \A x \in received : x \in received'
    OBVIOUS
  <2>3. <<f, q>> \in received' /\ <<f, q>>[1] = f
    BY <1>2
  <2> QED
    BY <2>1, <2>2, <2>3 DEF Delivered
<1> QED
  BY <1>1, <1>2

LEMMA LoneDirective ==
  ASSUME LoneWildcard
  PROVE  /\ Len(Drops) = 1 /\ 1 \in 1 .. Len(Drops) /\ DOMAIN Drops = {1} /\ Drops[1] \in Directive
         /\ \A f, r : Matches(1, f, r)
<1>1. Len(Drops) = 1 /\ \A f, r : Matches(1, f, r)
  BY Zenon DEF LoneWildcard, Matches
<1>2. Drops \in Seq(Directive)
  BY ConfigAssumption
<1>3. 1 \in 1 .. Len(Drops) /\ DOMAIN Drops = {1}
  BY <1>1, <1>2
<1>4. Drops[1] \in Directive
  BY <1>2, <1>3, ElementOfSeq
<1> QED
  BY <1>1, <1>3, <1>4

LEMMA WindowGrows ==
  ASSUME LoneWildcard, NEW n \in Nat
  PROVE  /\ DroppedOf(n) \in Nat /\ DroppedOf(0) = 0
         /\ n + 1 \in Drops[1].nth .. Drops[1].nth + Drops[1].count - 1 => DroppedOf(n + 1) = DroppedOf(n) + 1
         /\ n + 1 \notin Drops[1].nth .. Drops[1].nth + Drops[1].count - 1 => DroppedOf(n + 1) = DroppedOf(n)
<1>2. Drops[1] \in Directive
  BY LoneDirective
<1>3. PICK a \in Nat \ {0} : a = Drops[1].nth
  BY <1>2 DEF Directive
<1>4. PICK c \in Nat \ {0} : c = Drops[1].count
  BY <1>2 DEF Directive
<1>5. \A m : DroppedOf(m) = Earliest(c, Latest(0, m - a + 1))
  BY <1>3, <1>4 DEF DroppedOf
<1>6. Earliest(c, Latest(0, n - a + 1)) \in Nat /\ Earliest(c, Latest(0, 0 - a + 1)) = 0
  BY DEF Earliest, Latest
<1>7. n + 1 \in a .. a + c - 1 => Earliest(c, Latest(0, (n + 1) - a + 1)) = Earliest(c, Latest(0, n - a + 1)) + 1
  BY DEF Earliest, Latest
<1>8. n + 1 \notin a .. a + c - 1 => Earliest(c, Latest(0, (n + 1) - a + 1)) = Earliest(c, Latest(0, n - a + 1))
  BY DEF Earliest, Latest
<1> QED
  BY <1>3, <1>4, <1>5, <1>6, <1>7, <1>8

LEMMA OnceVisit ==
  ASSUME IInv, OnceOnly, phase = "deliver", NEW f, NEW reached, Visit(f, reached)
  PROVE  OnceOnly' /\ f.id \notin Delivered
<1>1. f \in inFlight /\ f.id \in todo /\ todo' = todo \ {f.id} /\ UNCHANGED <<now, phase, inFlight, nextId>>
  BY DEF Visit
<1>2. f.id < nextId
  BY <1>1 DEF IInv, IdsUnique
<1>3. f.end <= now
  <2>1. PICK e \in Elapsed : e.id = f.id
    BY <1>1 DEF IInv, TypeOK, LoopOK
  <2>2. e = f
    BY <1>1, <2>1 DEF IInv, IdsUnique, Elapsed
  <2> QED
    BY <2>1, <2>2 DEF Elapsed
<1>4. f.id \notin Delivered
  BY <1>1 DEF OnceOnly
<1>5. Delivered' = Delivered \/ Delivered' = Delivered \cup {f.id}
  BY DeliveredAfter DEF Visit
<1>6. \A g \in inFlight : g.id = f.id => g = f
  BY <1>1 DEF IInv, IdsUnique
<1>7. \A m \in Delivered' : m < nextId' /\ m \notin todo'
  BY <1>1, <1>2, <1>5 DEF OnceOnly
<1>8. \A g \in inFlight' : g.id \in Delivered' => phase' = "deliver" /\ g.end <= now'
  BY <1>1, <1>3, <1>5, <1>6 DEF OnceOnly
<1> QED
  BY <1>4, <1>7, <1>8 DEF OnceOnly

LEMMA CountedVisit ==
  ASSUME TypeOK, Counted, NEW f, NEW reached, Visit(f, reached), f.id \notin Delivered
  PROVE  Counted'
<1> SUFFICES ASSUME LoneWildcard
             PROVE  IsFiniteSet(Delivered') /\ Cardinality(Delivered') = dropCount'[1] - DroppedOf(dropCount'[1])
  BY DEF Counted, LoneWildcard, DroppedOf
<1>1. IsFiniteSet(Delivered) /\ Cardinality(Delivered) = dropCount[1] - DroppedOf(dropCount[1])
  BY DEF Counted
<1>2. PICK n \in Nat : n = dropCount[1]
  BY LoneDirective DEF TypeOK
<1>3. DOMAIN Drops = {1}
  BY LoneDirective
<1>4. /\ \A r : Matches(1, f, r)
      /\ \A r : ForcedDrop(f, r) <=> InWindow(1)
      /\ Counts(1, f, reached) <=> reached # {}
  <2>1. \A r : Matches(1, f, r)
    BY LoneDirective
  <2>2. \A j \in 1 .. 1 - 1 : FALSE
    OBVIOUS
  <2> QED
    BY <1>3, <2>1, <2>2 DEF ForcedDrop, Counts
<1>5. dropCount'[1] = IF reached # {} THEN n + 1 ELSE n
  BY <1>2, <1>3, <1>4 DEF Visit
<1>6. InWindow(1) <=> n + 1 \in Drops[1].nth .. Drops[1].nth + Drops[1].count - 1
  BY <1>2 DEF InWindow
<1>7. PICK kept : kept = { q \in reached : ~ForcedDrop(f, q) } /\ received' = received \cup { <<f, r>> : r \in kept }
  BY DEF Visit
<1>8. /\ kept = {} => Delivered' = Delivered
      /\ kept # {} => Delivered' = Delivered \cup {f.id}
  BY <1>7, DeliveredAfter
<1>9. CASE reached = {}
  BY <1>1, <1>2, <1>5, <1>7, <1>8, <1>9
<1>10. CASE reached # {} /\ InWindow(1)
  <2>1. kept = {} /\ dropCount'[1] = n + 1
    BY <1>4, <1>5, <1>7, <1>10
  <2>2. DroppedOf(n + 1) = DroppedOf(n) + 1 /\ DroppedOf(n) \in Nat
    BY <1>6, <1>10, WindowGrows
  <2>3. (n + 1) - (DroppedOf(n) + 1) = n - DroppedOf(n)
    BY <2>2
  <2> QED
    BY <1>1, <1>2, <1>8, <2>1, <2>2, <2>3
<1>11. CASE reached # {} /\ ~InWindow(1)
  <2>1. kept # {} /\ dropCount'[1] = n + 1
    BY <1>4, <1>5, <1>7, <1>11
  <2>2. DroppedOf(n + 1) = DroppedOf(n) /\ DroppedOf(n) \in Nat
    BY <1>6, <1>11, WindowGrows
  <2>3. IsFiniteSet(Delivered') /\ Cardinality(Delivered') = Cardinality(Delivered) + 1
    BY <1>1, <1>8, <2>1, FS_AddElement
  <2>4. (n - DroppedOf(n)) + 1 = (n + 1) - DroppedOf(n)
    BY <2>2
  <2> QED
    BY <1>1, <1>2, <2>1, <2>2, <2>3, <2>4
<1> QED
  BY <1>9, <1>10, <1>11

(* In the other phases nothing is delivered and nothing is due a visit.    *)
LEMMA OnceElsewhere ==
  ASSUME OnceOnly, phase # "deliver", todo' = {}, UNCHANGED received, nextId' = nextId, inFlight' \subseteq inFlight
  PROVE  OnceOnly'
<1>1. Delivered' = Delivered
  BY DEF Delivered
<1> QED
  BY <1>1 DEF OnceOnly

LEMMA OnceStep ==
  ASSUME IInv, TypeOK', OnceOnly, Counted, [Next]_vars
  PROVE  OnceOnly' /\ Counted'
<1>0. TypeOK
  BY DEF IInv
<1>1. ASSUME UNCHANGED <<received, dropCount>> PROVE Delivered' = Delivered /\ Counted'
  BY <1>1 DEF Counted, Delivered
<1>2. CASE Deliver
  <2>1. phase = "deliver"
    BY <1>2, DeliverVisits
  <2>2. PICK f, reached : Visit(f, reached)
    BY <1>2, DeliverVisits
  <2> QED
    BY <1>0, <2>1, <2>2, OnceVisit, CountedVisit
<1>3. CASE CommandsDone
  <2>1. /\ phase = "commands" /\ phase' = "deliver" /\ UNCHANGED <<now, received, dropCount, nextId, inFlight>>
        /\ todo' \subseteq { f.id : f \in Elapsed }
    BY <1>3 DEF CommandsDone, airVars
  <2>2. Delivered' = Delivered /\ Counted'
    BY <1>1, <2>1
  <2>3. \A m \in Delivered : m \notin todo'
    BY <2>1 DEF OnceOnly, Elapsed
  <2> QED
    BY <2>1, <2>2, <2>3 DEF OnceOnly
<1>4. CASE Compact
  <2>1. /\ phase' = "timers" /\ UNCHANGED <<now, received, dropCount, nextId>>
        /\ inFlight' = inFlight \ Elapsed /\ todo' = {}
    BY <1>4 DEF Compact, loopVars
  <2>2. Delivered' = Delivered /\ Counted'
    BY <1>1, <2>1
  <2>3. \A f \in inFlight' : f.id \notin Delivered
    BY <2>1 DEF OnceOnly, Elapsed
  <2> QED
    BY <2>1, <2>2, <2>3 DEF OnceOnly
<1>5. CASE Transmit
  <2>1. /\ phase = "register" /\ todo = {} /\ UNCHANGED <<phase, todo, received, dropCount, now>>
        /\ inFlight' = inFlight \cup {NewFrame(Head(batch))} /\ nextId' = nextId + 1
        /\ NewFrame(Head(batch)).id = nextId /\ nextId \in Nat
    BY <1>0, <1>5, TransmitEffect DEF Transmit, Registering, NewFrame, TypeOK, LoopOK, AirOK
  <2>2. Delivered' = Delivered /\ Counted'
    BY <1>1, <2>1
  <2>3. \A m \in Delivered : m < nextId /\ m \in Nat
    <3>1. \A x \in received : x[1].id \in Nat
      BY <1>0 DEF TypeOK, Frame
    <3> QED
      BY <3>1 DEF OnceOnly, Delivered
  <2>4. nextId \notin Delivered /\ \A m \in Delivered : m < nextId'
    BY <2>1, <2>3
  <2> QED
    BY <2>1, <2>2, <2>4 DEF OnceOnly
<1>6. CASE Lifecycle
  <2>1. /\ phase = "lifecycle" /\ todo = {} /\ UNCHANGED <<todo, received, dropCount, nextId>>
        /\ inFlight' \subseteq inFlight
    BY <1>0, <1>6 DEF Lifecycle, loopVars, TypeOK, LoopOK
  <2> QED
    BY <1>1, <2>1, OnceElsewhere
<1>7. CASE Boot \/ Startup \/ ConsoleCommand \/ FireCommand \/ TickTimers
  <2>1. phase # "deliver" /\ todo = {} /\ UNCHANGED <<todo, received, dropCount, nextId, inFlight>>
    BY <1>0, <1>7 DEF Boot, Startup, BootNodes, ConsoleCommand, FireCommand, TickTimers, loopVars, airVars, TypeOK, LoopOK
  <2> QED
    BY <1>1, <2>1, OnceElsewhere
<1>8. CASE DrainNode \/ Refuse \/ RefuseDuty \/ TxFail \/ RouteInWarmup \/ EndStep
  <2>1. phase # "deliver" /\ todo = {} /\ UNCHANGED <<todo, received, dropCount, nextId, inFlight>>
    BY <1>0, <1>8 DEF DrainNode, Refuse, RefuseDuty, TxFail, RouteInWarmup, Registering, EndStep, loopVars, airVars,
                      TypeOK, LoopOK
  <2> QED
    BY <1>1, <2>1, OnceElsewhere
<1>9. CASE UNCHANGED vars
  <2>1. UNCHANGED <<now, phase, todo, received, dropCount, nextId, inFlight>>
    BY <1>9 DEF vars, loopVars, airVars
  <2> QED
    BY <1>1, <2>1 DEF OnceOnly
<1> QED
  BY <1>2, <1>3, <1>4, <1>5, <1>6, <1>7, <1>8, <1>9 DEF Next, Ended

(* A lone wildcard directive drops exactly its window: of the frames that  *)
(* reached somebody, those outside the window were delivered, each counted *)
(* once however many receivers it reached.                                 *)
THEOREM WindowIsExact == Spec => []ForcedDropWindow
<1>1. Init => OnceOnly /\ Counted
  <2> SUFFICES ASSUME Init PROVE OnceOnly /\ Counted
    OBVIOUS
  <2>1. Delivered = {} /\ inFlight = {}
    BY DEF Init, Delivered
  <2>2. ASSUME LoneWildcard PROVE dropCount[1] = 0 /\ DroppedOf(0) = 0
    <3>1. 1 \in 1 .. Len(Drops)
      BY <2>2, LoneDirective
    <3> QED
      BY <2>2, <3>1, WindowGrows DEF Init
  <2> QED
    BY <2>1, <2>2, FS_EmptySet DEF OnceOnly, Counted
<1>2. Counted => ForcedDropWindow
  <2> SUFFICES ASSUME Counted, LoneWildcard
               PROVE  Cardinality(Delivered) = dropCount[1] - DroppedOf(dropCount[1])
    BY DEF ForcedDropWindow, LoneWildcard, Delivered, DroppedOf
  <2> QED
    BY DEF Counted
<1>3. IInv /\ TypeOK' /\ (OnceOnly /\ Counted) /\ [Next]_vars => (OnceOnly /\ Counted)'
  BY OnceStep
<1> QED
  BY <1>1, <1>2, <1>3, InvariantHolds, TypeCorrect, PTL DEF Spec
-----------------------------------------------------------------------------
(* The duty cycle.  Sums of airtimes first: MapThenSumSet is a recursive   *)
(* function over the subsets of its argument, and what is needed of it is  *)
(* that it exists, does not depend on the order of choice (SumRemove), and *)
(* compares sums whose terms are matched one to one (SumMatched).          *)

Below == {p \in Nat \X Nat : p[1] < p[2]}

LEMMA LeastNumber ==
  ASSUME NEW S \in SUBSET Nat, S # {}
  PROVE  \E x \in S : \A y \in S : x <= y
<1>1. OpToRel(<, Nat) = Below
  BY DEF OpToRel, Below
<1>2. IsWellFoundedOn(Below, Nat)
  BY <1>1, NatLessThanWellFounded
<1>3. PICK x \in S : \A y \in S : ~(<<y, x>> \in Below)
  BY <1>2, WFMin
<1>4. \A y \in S : ~(y < x)
  BY <1>3 DEF Below
<1> QED
  BY <1>4

(* Induction over the subsets of a finite set: the smallest of a family.   *)
LEMMA SmallestSet ==
  ASSUME NEW D, IsFiniteSet(D), NEW Family \in SUBSET SUBSET D, Family # {}
  PROVE  \E s \in Family : \A u \in Family : ~(Cardinality(u) < Cardinality(s))
<1> DEFINE Sizes == { Cardinality(s) : s \in Family }
<1>1. \A s \in Family : Cardinality(s) \in Nat
  BY FS_Subset, FS_CardinalityType
<1>2. Sizes \in SUBSET Nat /\ Sizes # {}
  BY <1>1
<1> HIDE DEF Sizes
<1>3. PICK n \in Sizes : \A m \in Sizes : n <= m
  BY <1>2, LeastNumber
<1>4. PICK s \in Family : n = Cardinality(s)
  BY DEF Sizes
<1>5. \A u \in Family : Cardinality(u) \in Sizes
  BY DEF Sizes
<1> QED
  BY <1>1, <1>3, <1>4, <1>5

Pick(s) == CHOOSE x \in s : TRUE

Weighs(f, w, S) ==
  f = [s \in SUBSET S |-> IF s = {} THEN 0 ELSE w[Pick(s)] + f[s \ {Pick(s)}]]

LEMMA PickIn ==
  ASSUME NEW s, s # {}
  PROVE  Pick(s) \in s
BY DEF Pick

LEMMA Shrinks ==
  ASSUME NEW D, IsFiniteSet(D), NEW s \in SUBSET D, NEW x \in s
  PROVE  /\ s \ {x} \in SUBSET D
         /\ Cardinality(s \ {x}) = Cardinality(s) - 1
         /\ Cardinality(s) \in Nat \ {0}
         /\ Cardinality(s \ {x}) < Cardinality(s)
<1>1. IsFiniteSet(s) /\ s # {}
  BY FS_Subset
<1>2. Cardinality(s) \in Nat /\ Cardinality(s) # 0
  BY <1>1, FS_CardinalityType, FS_EmptySet
<1>3. Cardinality(s \ {x}) = Cardinality(s) - 1
  BY <1>1, FS_RemoveElement
<1> QED
  BY <1>2, <1>3

SumOf(w, S) == MapThenSumSet(LAMBDA x : w[x], S)

LEMMA SumUnfold ==
  ASSUME NEW w, NEW S, \E f : Weighs(f, w, S)
  PROVE  \E f : Weighs(f, w, S) /\ SumOf(w, S) = f[S]
<1> DEFINE it == CHOOSE f : f = [s \in SUBSET S |-> IF s = {} THEN 0 ELSE w[CHOOSE x \in s : TRUE] + f[s \ {CHOOSE x \in s : TRUE}]]
<1>1. SumOf(w, S) = it[S]
  BY DEF SumOf, MapThenSumSet, MapThenFoldSet
<1>2. Weighs(it, w, S)
  BY DEF Weighs, Pick
<1> QED
  BY <1>1, <1>2

TotalOnAir(S, t) == MapThenSumSet(LAMBDA f : OnAir(f, t), S)

LEMMA OnAirUnfold ==
  ASSUME NEW w, NEW S, NEW t, \E f : Weighs(f, w, S), \A x \in S : w[x] = OnAir(x, t)
  PROVE  \E f : Weighs(f, w, S) /\ TotalOnAir(S, t) = f[S]
<1> DEFINE Solves(f) == f = [s \in SUBSET S |-> IF s = {} THEN 0 ELSE OnAir(CHOOSE x \in s : TRUE, t) + f[s \ {CHOOSE x \in s : TRUE}]]
           it == CHOOSE f : Solves(f)
<1>1. TotalOnAir(S, t) = it[S]
  BY DEF TotalOnAir, MapThenSumSet, MapThenFoldSet
<1>2. ASSUME NEW f PROVE Solves(f) <=> Weighs(f, w, S)
  <2>1. ASSUME NEW s \in SUBSET S, s # {}
        PROVE  OnAir(Pick(s), t) = w[Pick(s)]
    <3>1. Pick(s) \in S
      BY <2>1, PickIn
    <3> QED
      BY <3>1
  <2> DEFINE L(s) == IF s = {} THEN 0 ELSE OnAir(Pick(s), t) + f[s \ {Pick(s)}]
             R(s) == IF s = {} THEN 0 ELSE w[Pick(s)] + f[s \ {Pick(s)}]
  <2>2. \A s \in SUBSET S : L(s) = R(s)
    BY <2>1
  <2>3. Solves(f) <=> f = [s \in SUBSET S |-> L(s)]
    BY DEF Pick
  <2>4. Weighs(f, w, S) <=> f = [s \in SUBSET S |-> R(s)]
    BY DEF Weighs
  <2> HIDE DEF L, R, Solves
  <2>5. [s \in SUBSET S |-> L(s)] = [s \in SUBSET S |-> R(s)]
    BY <2>2
  <2> QED
    BY <2>3, <2>4, <2>5
<1>3. \E f : Solves(f)
  <2> HIDE DEF Solves
  <2> QED
    BY <1>2
<1>4. Solves(it)
  <2> HIDE DEF Solves
  <2> QED
    BY <1>3
<1>5. Weighs(it, w, S)
  <2> HIDE DEF Solves, it
  <2> QED
    BY <1>2, <1>4
<1> HIDE DEF it
<1> QED
  BY <1>1, <1>5

(* MapThenSumSet is a recursive function over subsets: it exists ...       *)
LEMMA WeighsExists ==
  ASSUME NEW D, IsFiniteSet(D), NEW w \in [D -> Nat]
  PROVE  \E f \in [SUBSET D -> Nat] : Weighs(f, w, D)
<1> DEFINE Small(n) == { s \in SUBSET D : Cardinality(s) <= n }
           Step(f, s) == IF s = {} THEN 0 ELSE w[Pick(s)] + f[s \ {Pick(s)}]
           Part(n) == \E f \in [Small(n) -> Nat] : \A s \in Small(n) : f[s] = Step(f, s)
           Bad == { n \in Nat : ~Part(n) }
<1>1. \A s \in SUBSET D : IsFiniteSet(s) /\ Cardinality(s) \in Nat
  BY FS_Subset, FS_CardinalityType
<1>2. Part(0)
  <2>1. \A s \in Small(0) : s = {}
    BY <1>1, FS_EmptySet
  <2> DEFINE f == [s \in Small(0) |-> 0]
  <2>2. f \in [Small(0) -> Nat]
    OBVIOUS
  <2>3. \A s \in Small(0) : f[s] = Step(f, s)
    BY <2>1
  <2> QED
    BY <2>2, <2>3
<1>3. ASSUME NEW n \in Nat, Part(n) PROVE Part(n + 1)
  <2>1. PICK f \in [Small(n) -> Nat] : \A s \in Small(n) : f[s] = Step(f, s)
    BY <1>3
  <2>2. ASSUME NEW s \in Small(n + 1), s # {}
        PROVE  s \ {Pick(s)} \in Small(n) /\ Pick(s) \in D
    <3>1. Pick(s) \in s
      BY <2>2, PickIn
    <3>2. /\ s \ {Pick(s)} \in SUBSET D
          /\ Cardinality(s \ {Pick(s)}) = Cardinality(s) - 1
          /\ Cardinality(s) \in Nat
      BY <3>1, Shrinks
    <3> QED
      BY <3>1, <3>2
  <2> DEFINE g == [s \in Small(n + 1) |-> Step(f, s)]
  <2>3. ASSUME NEW s \in Small(n + 1) PROVE Step(f, s) \in Nat
    <3>1. CASE s = {}
      BY <3>1
    <3>2. CASE s # {}
      <4>1. s \ {Pick(s)} \in Small(n) /\ Pick(s) \in D
        BY <2>2, <3>2
      <4>2. f[s \ {Pick(s)}] \in Nat /\ w[Pick(s)] \in Nat
        BY <4>1
      <4> QED
        BY <3>2, <4>2
    <3> QED
      BY <3>1, <3>2
  <2>4. g \in [Small(n + 1) -> Nat]
    BY <2>3
  <2>5. \A s \in Small(n) : s \in Small(n + 1)
    BY <1>1
  <2> HIDE DEF Small
  <2>6. \A s \in Small(n) : g[s] = f[s]
    BY <2>1, <2>5
  <2>7. ASSUME NEW s \in Small(n + 1) PROVE g[s] = Step(g, s)
    <3>1. CASE s = {}
      BY <3>1
    <3>2. CASE s # {}
      <4>1. g[s \ {Pick(s)}] = f[s \ {Pick(s)}]
        BY <2>2, <2>6, <3>2
      <4>2. g[s] = Step(f, s)
        OBVIOUS
      <4> HIDE DEF g
      <4> QED
        BY <4>1, <4>2
    <3> QED
      BY <3>1, <3>2
  <2> HIDE DEF g
  <2> QED
    BY <2>4, <2>7
<1> HIDE DEF Part
<1>4. Bad = {}
  <2> SUFFICES ASSUME Bad # {} PROVE FALSE
    OBVIOUS
  <2>1. PICK n \in Bad : \A m \in Bad : n <= m
    BY LeastNumber, Bad \in SUBSET Nat
  <2>2. n # 0
    BY <1>2, <2>1
  <2>3. n - 1 \in Nat /\ n - 1 \notin Bad /\ (n - 1) + 1 = n
    BY <2>1, <2>2
  <2>4. Part(n)
    BY <1>3, <2>3
  <2> QED
    BY <2>1, <2>4
<1>5. Cardinality(D) \in Nat
  BY FS_CardinalityType
<1>6. PICK f \in [Small(Cardinality(D)) -> Nat] :
        \A s \in Small(Cardinality(D)) : f[s] = Step(f, s)
  <2>1. Part(Cardinality(D))
    BY <1>4, <1>5
  <2> QED
    BY <2>1 DEF Part
<1>7. Small(Cardinality(D)) = SUBSET D
  BY FS_Subset
<1>8. f = [s \in SUBSET D |-> Step(f, s)]
  <2> HIDE DEF Small, Step
  <2> QED
    BY <1>6, <1>7
<1>9. Weighs(f, w, D)
  BY <1>8 DEF Weighs
<1> QED
  BY <1>6, <1>7, <1>9

(* ... and is the same function whatever set it was started from.          *)
LEMMA WeighsAgree ==
  ASSUME NEW D, IsFiniteSet(D), NEW S \in SUBSET D, NEW w, NEW f, NEW g,
         Weighs(f, w, D), Weighs(g, w, S)
  PROVE  \A s \in SUBSET S : f[s] = g[s]
<1> DEFINE Bad == { s \in SUBSET S : f[s] # g[s] }
<1>1. SUFFICES ASSUME Bad # {} PROVE FALSE
  OBVIOUS
<1>2. IsFiniteSet(S)
  BY FS_Subset
<1>3. PICK s \in Bad : \A u \in Bad : ~(Cardinality(u) < Cardinality(s))
  <2>1. Bad \in SUBSET SUBSET S
    OBVIOUS
  <2> HIDE DEF Bad
  <2> QED
    BY <1>1, <1>2, <2>1, SmallestSet
<1>4. s \in SUBSET S /\ s \in SUBSET D
  BY <1>3
<1>5. f[s] = IF s = {} THEN 0 ELSE w[Pick(s)] + f[s \ {Pick(s)}]
  BY <1>4 DEF Weighs
<1>6. g[s] = IF s = {} THEN 0 ELSE w[Pick(s)] + g[s \ {Pick(s)}]
  BY <1>4 DEF Weighs
<1>7. CASE s = {}
  BY <1>3, <1>5, <1>6, <1>7
<1>8. CASE s # {}
  <2>1. Pick(s) \in s
    BY <1>8, PickIn
  <2>2. s \ {Pick(s)} \in SUBSET S /\ Cardinality(s \ {Pick(s)}) < Cardinality(s)
    BY <1>2, <1>4, <2>1, Shrinks
  <2>3. s \ {Pick(s)} \notin Bad
    BY <1>3, <2>2
  <2>4. f[s \ {Pick(s)}] = g[s \ {Pick(s)}]
    BY <2>2, <2>3
  <2> QED
    BY <1>3, <1>5, <1>6, <1>8, <2>4
<1> QED
  BY <1>7, <1>8

(* The sum over a set, for weights on a set that contains it.              *)
LEMMA SumStarts ==
  ASSUME NEW D, IsFiniteSet(D), NEW w \in [D -> Nat], NEW S \in SUBSET D
  PROVE  /\ SumOf(w, S) \in Nat
         /\ S = {} => SumOf(w, S) = 0
         /\ S # {} => SumOf(w, S) = w[Pick(S)] + SumOf(w, S \ {Pick(S)})
<1>1. PICK F \in [SUBSET D -> Nat] : Weighs(F, w, D)
  BY WeighsExists
<1>2. ASSUME NEW T \in SUBSET D
      PROVE  SumOf(w, T) = F[T]
  <2>1. Weighs([s \in SUBSET T |-> F[s]], w, T)
    <3> DEFINE G == [s \in SUBSET T |-> F[s]]
               R(s) == IF s = {} THEN 0 ELSE w[Pick(s)] + G[s \ {Pick(s)}]
    <3>1. ASSUME NEW s \in SUBSET T PROVE G[s] = R(s)
      <4>1. F[s] = IF s = {} THEN 0 ELSE w[Pick(s)] + F[s \ {Pick(s)}]
        BY <1>1 DEF Weighs
      <4>2. s \ {Pick(s)} \in SUBSET T
        OBVIOUS
      <4>3. G[s \ {Pick(s)}] = F[s \ {Pick(s)}]
        BY <4>2
      <4>4. G[s] = F[s]
        OBVIOUS
      <4> HIDE DEF G
      <4> QED
        BY <4>1, <4>3, <4>4
    <3>2. G = [s \in SUBSET T |-> G[s]]
      OBVIOUS
    <3> HIDE DEF G
    <3>3. [s \in SUBSET T |-> G[s]] = [s \in SUBSET T |-> R(s)]
      <4> HIDE DEF R
      <4> QED
        BY <3>1
    <3>4. Weighs(G, w, T)
      BY <3>2, <3>3 DEF Weighs
    <3> QED
      BY <3>4 DEF G
  <2>2. PICK g : Weighs(g, w, T) /\ SumOf(w, T) = g[T]
    BY <2>1, SumUnfold
  <2>3. \A s \in SUBSET T : F[s] = g[s]
    BY <1>1, <2>2, WeighsAgree
  <2> QED
    BY <2>2, <2>3
<1>3. F[S] = IF S = {} THEN 0 ELSE w[Pick(S)] + F[S \ {Pick(S)}]
  BY <1>1 DEF Weighs
<1>4. SumOf(w, S) = F[S] /\ SumOf(w, S \ {Pick(S)}) = F[S \ {Pick(S)}]
  BY <1>2
<1>5. F[S] \in Nat
  BY <1>1
<1> QED
  BY <1>3, <1>4, <1>5

(* Any element may be taken out first. *)
LEMMA SumRemove ==
  ASSUME NEW D, IsFiniteSet(D), NEW w \in [D -> Nat], NEW S \in SUBSET D, NEW x \in S
  PROVE  SumOf(w, S) = w[x] + SumOf(w, S \ {x})
<1> DEFINE Fair(s) == \A y \in s : SumOf(w, s) = w[y] + SumOf(w, s \ {y})
           Bad == { s \in SUBSET D : ~Fair(s) }
<1>1. SUFFICES Bad = {}
  OBVIOUS
<1>2. SUFFICES ASSUME Bad # {} PROVE FALSE
  OBVIOUS
<1>3. PICK s \in Bad : \A u \in Bad : ~(Cardinality(u) < Cardinality(s))
  <2>1. Bad \in SUBSET SUBSET D
    OBVIOUS
  <2> HIDE DEF Bad
  <2> QED
    BY <1>2, <2>1, SmallestSet
<1>4. s \in SUBSET D
  BY <1>3
<1>5. PICK y \in s : SumOf(w, s) # w[y] + SumOf(w, s \ {y})
  BY <1>3
<1>6. ASSUME NEW z \in s
      PROVE  /\ s \ {z} \in SUBSET D
             /\ SumOf(w, s \ {z}) \in Nat /\ w[z] \in Nat
             /\ \A v \in s \ {z} : SumOf(w, s \ {z}) = w[v] + SumOf(w, (s \ {z}) \ {v})
  <2>1. s \ {z} \in SUBSET D /\ Cardinality(s \ {z}) < Cardinality(s)
    BY <1>4, Shrinks
  <2>2. s \ {z} \notin Bad
    BY <1>3, <2>1
  <2>3. SumOf(w, s \ {z}) \in Nat
    BY <2>1, SumStarts
  <2>4. w[z] \in Nat
    BY <1>4
  <2> QED
    BY <2>1, <2>2, <2>3, <2>4
<1> DEFINE p == Pick(s)
<1>7. p \in s
  BY <1>5, PickIn
<1>8. SumOf(w, s) = w[p] + SumOf(w, s \ {p})
  BY <1>4, <1>5, SumStarts
<1>9. p # y
  BY <1>5, <1>8
<1> HIDE DEF p
<1>10. SumOf(w, s \ {p}) = w[y] + SumOf(w, (s \ {p}) \ {y})
  BY <1>6, <1>7, <1>9
<1>11. SumOf(w, s \ {y}) = w[p] + SumOf(w, (s \ {y}) \ {p})
  BY <1>6, <1>7, <1>9
<1>12. SumOf(w, s \ {y}) = w[p] + SumOf(w, (s \ {p}) \ {y})
  <2>1. (s \ {p}) \ {y} = (s \ {y}) \ {p}
    OBVIOUS
  <2> QED
    BY <1>11, <2>1
<1>13. SumOf(w, (s \ {p}) \ {y}) \in Nat
  <2>1. (s \ {p}) \ {y} \in SUBSET D
    BY <1>4
  <2> QED
    BY <2>1, SumStarts
<1>14. w[p] \in Nat /\ w[y] \in Nat
  BY <1>4, <1>7
<1> QED
  BY <1>5, <1>8, <1>10, <1>12, <1>13, <1>14

(* What weighs at all in S is matched, one to one, by something in T that  *)
(* weighs as much.                                                         *)
Matched(S, T, v, w, h) ==
  /\ \A x \in S : v[x] > 0 => h[x] \in T /\ v[x] <= w[h[x]]
  /\ \A x, y \in S : v[x] > 0 /\ v[y] > 0 /\ h[x] = h[y] => x = y

LEMMA SumMatched ==
  ASSUME NEW D, IsFiniteSet(D), NEW v \in [D -> Nat], NEW S \in SUBSET D,
         NEW E, IsFiniteSet(E), NEW w \in [E -> Nat], NEW T \in SUBSET E,
         NEW h, Matched(S, T, v, w, h)
  PROVE  SumOf(v, S) <= SumOf(w, T)
<1> DEFINE Fits(s) == \A t \in SUBSET E : Matched(s, t, v, w, h) => SumOf(v, s) <= SumOf(w, t)
           Bad == { s \in SUBSET D : ~Fits(s) }
<1>1. SUFFICES Bad = {}
  OBVIOUS
<1>2. SUFFICES ASSUME Bad # {} PROVE FALSE
  OBVIOUS
<1>3. PICK s \in Bad : \A u \in Bad : ~(Cardinality(u) < Cardinality(s))
  <2>1. Bad \in SUBSET SUBSET D
    OBVIOUS
  <2> HIDE DEF Bad
  <2> QED
    BY <1>2, <2>1, SmallestSet
<1>4. s \in SUBSET D
  BY <1>3
<1>5. PICK t \in SUBSET E : Matched(s, t, v, w, h) /\ ~(SumOf(v, s) <= SumOf(w, t))
  BY <1>3
<1>6. SumOf(v, s) \in Nat /\ SumOf(w, t) \in Nat
  BY <1>4, SumStarts
<1>7. CASE s = {}
  <2>1. SumOf(v, s) = 0
    BY <1>4, <1>7, SumStarts
  <2> QED
    BY <1>5, <1>6, <2>1
<1>8. CASE s # {}
  <2>1. PICK x : x \in s
    BY <1>8
  <2>2. s \ {x} \in SUBSET D /\ Cardinality(s \ {x}) < Cardinality(s)
    BY <1>4, <2>1, Shrinks
  <2>3. Fits(s \ {x})
    BY <1>3, <2>2
  <2>4. SumOf(v, s) = v[x] + SumOf(v, s \ {x})
    BY <1>4, <2>1, SumRemove
  <2>5. SumOf(v, s \ {x}) \in Nat /\ v[x] \in Nat
    BY <1>4, <2>1, <2>2, SumStarts
  <2>6. CASE v[x] = 0
    <3>1. Matched(s \ {x}, t, v, w, h)
      BY <1>5 DEF Matched
    <3>2. SumOf(v, s \ {x}) <= SumOf(w, t)
      BY <2>3, <3>1
    <3> QED
      BY <1>5, <1>6, <2>4, <2>5, <2>6, <3>2
  <2>7. CASE v[x] > 0
    <3>1. h[x] \in t /\ v[x] <= w[h[x]]
      BY <1>5, <2>1, <2>7 DEF Matched
    <3>2. t \ {h[x]} \in SUBSET E
      OBVIOUS
    <3>3. Matched(s \ {x}, t \ {h[x]}, v, w, h)
      BY <1>5, <2>1, <2>7 DEF Matched
    <3>4. SumOf(v, s \ {x}) <= SumOf(w, t \ {h[x]})
      BY <2>3, <3>2, <3>3
    <3>5. SumOf(w, t) = w[h[x]] + SumOf(w, t \ {h[x]})
      BY <3>1, SumRemove
    <3>6. SumOf(w, t \ {h[x]}) \in Nat /\ w[h[x]] \in Nat
      BY <3>1, <3>2, SumStarts
    <3> QED
      BY <1>5, <1>6, <2>4, <2>5, <3>1, <3>4, <3>5, <3>6
  <2> QED
    BY <2>5, <2>6, <2>7
<1> QED
  BY <1>7, <1>8

(* The same unfolding for the two sums of the engine. *)
LEMMA AirUnfold ==
  ASSUME NEW w, NEW S, \E f : Weighs(f, w, S), \A x \in S : w[x] = x.air
  PROVE  \E f : Weighs(f, w, S) /\ MapThenSumSet(LAMBDA e : e.air, S) = f[S]
<1> DEFINE Solves(f) == f = [s \in SUBSET S |->
                               IF s = {} THEN 0
                               ELSE (CHOOSE x \in s : TRUE).air + f[s \ {CHOOSE x \in s : TRUE}]]
           it == CHOOSE f : Solves(f)
<1>1. MapThenSumSet(LAMBDA e : e.air, S) = it[S]
  BY DEF MapThenSumSet, MapThenFoldSet
<1>2. ASSUME NEW f PROVE Solves(f) <=> Weighs(f, w, S)
  <2>1. ASSUME NEW s \in SUBSET S, s # {}
        PROVE  Pick(s).air = w[Pick(s)]
    <3>1. Pick(s) \in S
      BY <2>1, PickIn
    <3> QED
      BY <3>1
  <2> DEFINE L(s) == IF s = {} THEN 0 ELSE Pick(s).air + f[s \ {Pick(s)}]
             R(s) == IF s = {} THEN 0 ELSE w[Pick(s)] + f[s \ {Pick(s)}]
  <2>2. \A s \in SUBSET S : L(s) = R(s)
    BY <2>1
  <2>3. Solves(f) <=> f = [s \in SUBSET S |-> L(s)]
    BY DEF Pick
  <2>4. Weighs(f, w, S) <=> f = [s \in SUBSET S |-> R(s)]
    BY DEF Weighs
  <2> HIDE DEF L, R, Solves
  <2>5. [s \in SUBSET S |-> L(s)] = [s \in SUBSET S |-> R(s)]
    BY <2>2
  <2> QED
    BY <2>3, <2>4, <2>5
<1>3. \E f : Solves(f)
  <2> HIDE DEF Solves
  <2> QED
    BY <1>2
<1>4. Solves(it)
  <2> HIDE DEF Solves
  <2> QED
    BY <1>3
<1>5. Weighs(it, w, S)
  <2> HIDE DEF Solves, it
  <2> QED
    BY <1>2, <1>4
<1> HIDE DEF it
<1> QED
  BY <1>1, <1>5

WeightOn(S, t) == [f \in S |-> OnAir(f, t)]
AirOf(log) == [e \in log |-> e.air]

(* Time on the air is a natural number, no more than the airtime; and a    *)
(* frame that counts ends after the window begins and starts before it     *)
(* ends.                                                                   *)
LEMMA OnAirBounds ==
  ASSUME NEW f, f.start \in Nat, f.end \in Nat, f.start < f.end, NEW t \in Int
  PROVE  /\ OnAir(f, t) \in Nat
         /\ OnAir(f, t) <= f.end - f.start
         /\ OnAir(f, t) > 0 => f.end > t /\ f.start < t + DutyWindow /\ DutyWindow > 0
<1>1. DutyWindow \in Nat
  BY ConfigAssumption
<1> QED
  BY <1>1 DEF OnAir, Latest, Earliest

LEMMA OnAirSum ==
  ASSUME NEW S, IsFiniteSet(S), NEW t \in Int,
         \A f \in S : f.start \in Nat /\ f.end \in Nat /\ f.start < f.end
  PROVE  /\ WeightOn(S, t) \in [S -> Nat]
         /\ TotalOnAir(S, t) = SumOf(WeightOn(S, t), S)
<1> DEFINE w == WeightOn(S, t)
<1>1. w \in [S -> Nat] /\ \A x \in S : w[x] = OnAir(x, t)
  BY OnAirBounds DEF WeightOn
<1> HIDE DEF w
<1>2. \E f : Weighs(f, w, S)
  BY <1>1, WeighsExists
<1>3. PICK f : Weighs(f, w, S) /\ TotalOnAir(S, t) = f[S]
  BY <1>1, <1>2, OnAirUnfold
<1>4. PICK g : Weighs(g, w, S) /\ SumOf(w, S) = g[S]
  BY <1>2, SumUnfold
<1>5. f[S] = g[S]
  BY <1>3, <1>4, WeighsAgree
<1>6. TotalOnAir(S, t) = SumOf(w, S)
  BY <1>3, <1>4, <1>5
<1> QED
  BY <1>1, <1>6 DEF w

LEMMA AirtimeSum ==
  ASSUME NEW S \in SUBSET [end : Nat, air : Nat], IsFiniteSet(S)
  PROVE  /\ AirOf(S) \in [S -> Nat]
         /\ MapThenSumSet(LAMBDA e : e.air, S) = SumOf(AirOf(S), S)
<1> DEFINE w == AirOf(S)
<1>1. w \in [S -> Nat] /\ \A x \in S : w[x] = x.air
  BY DEF AirOf
<1> HIDE DEF w
<1>2. \E f : Weighs(f, w, S)
  BY <1>1, WeighsExists
<1>3. PICK f : Weighs(f, w, S) /\ MapThenSumSet(LAMBDA e : e.air, S) = f[S]
  BY <1>1, <1>2, AirUnfold
<1>4. PICK g : Weighs(g, w, S) /\ SumOf(w, S) = g[S]
  BY <1>2, SumUnfold
<1>5. f[S] = g[S]
  BY <1>3, <1>4, WeighsAgree
<1>6. MapThenSumSet(LAMBDA e : e.air, S) = SumOf(w, S)
  BY <1>3, <1>4, <1>5
<1> QED
  BY <1>1, <1>6 DEF w

-----------------------------------------------------------------------------
(* The invariant of the duty cycle.  DutyBudgetHeld speaks of every window *)
(* over all frames ever aired, the engine of one window, at the moment a   *)
(* frame is registered, and of a log that forgets.  A window in which the  *)
(* new frame is on the air ends after that moment, so what else is in it   *)
(* has not been forgotten (Logged) and is one entry each (Successive).     *)

(* No node asks for its airtime over a window shorter than the one that    *)
(* limits it: the answer would drop entries that the limit still counts.   *)
(* Every script of the repository asks over the configured window.         *)
NoShortQuery == \A w \in QueryWindows : w = 0 \/ w >= DutyWindow

(* What recordTxAirtime puts in the log of the sender of f. *)
EntryOf(f) == [end |-> f.end, air |-> f.end - f.start]

FiniteHistory == IsFiniteSet(aired) /\ \A i \in Nodes : IsFiniteSet(dutyLog[i])

Logged ==
  DutyWindow > 0 =>
    \A f \in aired : f.end > Cutoff(DutyWindow) => EntryOf(f) \in dutyLog[f.sender]

Successive ==
  \A f \in aired : /\ f.start < f.end
                   /\ \A g \in aired : f.sender = g.sender /\ f.end = g.end => f = g

Own(i) == { f \in aired : f.sender = i }
WithinBudget == \A i \in Nodes : \A t \in Int : TotalOnAir(Own(i), t) <= DutyBudget

BudgetInv == FiniteHistory /\ Logged /\ Successive /\ WithinBudget

(* What a step may do to the logs: forget entries out of the window.       *)
Keeps(old, new) ==
  \A i \in Nodes : /\ new[i] \subseteq old[i]
                   /\ \A e \in old[i] : e.end > Cutoff(DutyWindow) => e \in new[i]

LEMMA PrunedKeeps ==
  ASSUME now \in Nat, NEW log \in SUBSET [end : Nat, air : Nat],
         NEW window \in Nat, window = 0 \/ window >= DutyWindow
  PROVE  /\ Pruned(log, window) \subseteq log
         /\ \A e \in log : e.end > Cutoff(DutyWindow) => e \in Pruned(log, window)
<1>1. DutyWindow \in Nat
  BY ConfigAssumption
<1> QED
  BY <1>1 DEF Pruned, Cutoff

LEMMA ReactKeeps ==
  ASSUME NoShortQuery, now \in Nat, NEW callees \in SUBSET Nodes, NEW ready, NEW phy,
         NEW log \in [Nodes -> SUBSET [end : Nat, air : Nat]],
         React(callees, ready, log, phy)
  PROVE  Keeps(log, dutyLog')
<1> DEFINE Of(act, kind) == { i \in DOMAIN act : act[i].kind = kind }
<1>1. PICK act \in [callees \cap ready -> Reactions] :
        dutyLog' = [i \in Nodes |->
          IF i \in Of(act, "query") THEN Pruned(log[i], act[i].window) ELSE log[i]]
  BY DEF React
<1>2. \A i \in Of(act, "query") : act[i].window \in QueryWindows
  BY DEF Reactions
<1> HIDE DEF Of
<1>3. \A w \in QueryWindows : w \in Nat
  BY ConfigAssumption
<1>4. \A i \in Nodes : /\ dutyLog'[i] \subseteq log[i]
                       /\ \A e \in log[i] : e.end > Cutoff(DutyWindow) => e \in dutyLog'[i]
  BY <1>1, <1>2, <1>3, PrunedKeeps DEF NoShortQuery
<1> QED
  BY <1>4 DEF Keeps

LEMMA KeepsOn ==
  ASSUME NEW a, NEW b, NEW c, Keeps(a, b), Keeps(b, c)
  PROVE  Keeps(a, c)
BY DEF Keeps

LEMMA CheckKeeps ==
  ASSUME TypeOK
  PROVE  Keeps(dutyLog, DutyChecked) /\ DutyChecked \in [Nodes -> SUBSET [end : Nat, air : Nat]]
<1>1. now \in Nat /\ dutyLog \in [Nodes -> SUBSET [end : Nat, air : Nat]] /\ DutyWindow \in Nat
  BY ConfigAssumption DEF TypeOK, NodeOK
<1>2. \A i \in Nodes : /\ Pruned(dutyLog[i], DutyWindow) \subseteq dutyLog[i]
                       /\ \A e \in dutyLog[i] :
                            e.end > Cutoff(DutyWindow) => e \in Pruned(dutyLog[i], DutyWindow)
  BY <1>1, PrunedKeeps
<1>3. \A i \in Nodes : DutyChecked[i] \in {dutyLog[i], Pruned(dutyLog[i], DutyWindow)}
  BY <1>1 DEF DutyChecked
<1>4. DutyChecked \in [Nodes -> SUBSET [end : Nat, air : Nat]]
  BY <1>1, <1>2 DEF DutyChecked
<1> QED
  BY <1>2, <1>3, <1>4 DEF Keeps

LEMMA LogSteps ==
  ASSUME NoShortQuery, TypeOK, TypeOK', [Next]_vars
  PROVE  \/ Transmit
         \/ Keeps(dutyLog, dutyLog') /\ aired' \subseteq aired /\ now' >= now
<1> USE DEF LifeOK, NodeOK, LoopOK
<1>1. /\ now \in Nat /\ now' \in Nat
      /\ dutyLog \in [Nodes -> SUBSET [end : Nat, air : Nat]]
      /\ alive \subseteq Nodes /\ initialized \subseteq Nodes
      /\ batch # <<>> => turn \in Nodes
  BY DEF TypeOK
<1>2. ASSUME NEW callees \in SUBSET Nodes, NEW ready, NEW phy, React(callees, ready, dutyLog, phy)
      PROVE  Keeps(dutyLog, dutyLog')
  BY <1>1, <1>2, ReactKeeps
<1>3. UNCHANGED dutyLog => Keeps(dutyLog, dutyLog')
  BY DEF Keeps
<1>4. Boot \/ Startup => Keeps(dutyLog, dutyLog') /\ UNCHANGED <<aired, now>>
  <2> SUFFICES ASSUME BootNodes PROVE Keeps(dutyLog, dutyLog') /\ UNCHANGED <<aired, now>>
    BY DEF Boot, Startup
  <2>1. React(Booting, Booting, dutyLog, txPhy) /\ Booting \subseteq Nodes
    BY DEF BootNodes, Booting
  <2> QED
    BY <1>2, <2>1 DEF BootNodes, airVars
<1>5. ConsoleCommand => Keeps(dutyLog, dutyLog') /\ UNCHANGED <<aired, now>>
  <2> SUFFICES ASSUME ConsoleCommand PROVE Keeps(dutyLog, dutyLog') /\ UNCHANGED <<aired, now>>
    OBVIOUS
  <2>1. PICK i \in Console : React({i}, initialized, dutyLog, txPhy)
    BY DEF ConsoleCommand
  <2>2. {i} \subseteq Nodes
    BY ConfigAssumption
  <2> QED
    BY <1>2, <2>1, <2>2 DEF ConsoleCommand, airVars
<1>6. FireCommand => Keeps(dutyLog, dutyLog') /\ UNCHANGED <<aired, now>>
  <2> SUFFICES ASSUME FireCommand PROVE Keeps(dutyLog, dutyLog') /\ UNCHANGED <<aired, now>>
    OBVIOUS
  <2>1. PICK k : React({Commands[k].node} \cap alive, initialized, dutyLog, txPhy)
    BY DEF FireCommand
  <2>2. {Commands[k].node} \cap alive \subseteq Nodes
    BY <1>1
  <2> QED
    BY <1>2, <2>1, <2>2 DEF FireCommand, airVars
<1>7. Deliver => Keeps(dutyLog, dutyLog') /\ UNCHANGED <<aired, now>>
  <2> SUFFICES ASSUME Deliver PROVE Keeps(dutyLog, dutyLog') /\ UNCHANGED <<aired, now>>
    OBVIOUS
  <2>1. PICK f \in inFlight :
          /\ f.id \in todo
          /\ todo' = todo \ {f.id}
          /\ \E fade \in [Nodes \ {f.sender} -> Fades],
                lost \in SUBSET (IF Losses THEN Nodes \ {f.sender} ELSE {}) :
               LET reached == { r \in Nodes \ {f.sender} : Hears(f, r, fade[r], r \in lost) }
                   kept    == { r \in reached : ~ForcedDrop(f, r) }
               IN  /\ dropCount' = [k \in DOMAIN Drops |->
                        IF Counts(k, f, reached) THEN dropCount[k] + 1 ELSE dropCount[k]]
                   /\ received' = received \cup { <<f, r>> : r \in kept }
                   /\ React(kept, initialized, dutyLog, txPhy)
    BY DEF Deliver
  <2>2. PICK kept \in SUBSET Nodes : React(kept, initialized, dutyLog, txPhy)
    BY <2>1
  <2> QED
    BY <1>2, <2>1, <2>2 DEF Deliver, airVars
<1>8. TickTimers => Keeps(dutyLog, dutyLog') /\ UNCHANGED <<aired, now>>
  BY <1>1, <1>2 DEF TickTimers, airVars
<1>9. Refuse => Keeps(dutyLog, dutyLog') /\ UNCHANGED <<aired, now>>
  <2> SUFFICES ASSUME Refuse PROVE Keeps(dutyLog, dutyLog') /\ UNCHANGED <<aired, now>>
    OBVIOUS
  <2>1. React({turn}, initialized, dutyLog, Stuck) /\ {turn} \subseteq Nodes
    BY <1>1 DEF Refuse, Registering
  <2> QED
    BY <1>2, <2>1 DEF Refuse, airVars
<1>10. Keeps(dutyLog, DutyChecked) /\ DutyChecked \in [Nodes -> SUBSET [end : Nat, air : Nat]]
  BY CheckKeeps
<1>11. RefuseDuty => Keeps(dutyLog, dutyLog') /\ UNCHANGED <<aired, now>>
  <2> SUFFICES ASSUME RefuseDuty PROVE Keeps(dutyLog, dutyLog') /\ UNCHANGED <<aired, now>>
    OBVIOUS
  <2>1. React({turn}, initialized, DutyChecked, Stuck) /\ {turn} \subseteq Nodes
    BY <1>1 DEF RefuseDuty, Registering
  <2>2. Keeps(DutyChecked, dutyLog')
    BY <1>1, <1>10, <2>1, ReactKeeps
  <2>3. Keeps(dutyLog, dutyLog')
    BY <1>10, <2>2, KeepsOn
  <2> QED
    BY <2>3 DEF RefuseDuty, airVars
<1>12. TxFail => Keeps(dutyLog, dutyLog') /\ UNCHANGED <<aired, now>>
  BY <1>10 DEF TxFail, airVars
<1>13. RouteInWarmup => Keeps(dutyLog, dutyLog') /\ UNCHANGED <<aired, now>>
  <2> SUFFICES ASSUME RouteInWarmup PROVE Keeps(dutyLog, dutyLog') /\ UNCHANGED <<aired, now>>
    OBVIOUS
  <2>1. React({ r \in alive \ {turn} : HasLink(turn, r) }, initialized, dutyLog, Stuck)
    BY DEF RouteInWarmup
  <2>2. { r \in alive \ {turn} : HasLink(turn, r) } \subseteq Nodes
    BY <1>1
  <2> QED
    BY <1>2, <2>1, <2>2 DEF RouteInWarmup, airVars
<1>14. CommandsDone \/ Compact \/ DrainNode \/ UNCHANGED vars
         => Keeps(dutyLog, dutyLog') /\ UNCHANGED <<aired, now>>
  BY <1>3 DEF CommandsDone, Compact, DrainNode, vars, nodeVars, airVars
<1>15. Lifecycle => Keeps(dutyLog, dutyLog') /\ aired' \subseteq aired /\ UNCHANGED now
  BY <1>3 DEF Lifecycle, nodeVars
<1>16. EndStep => Keeps(dutyLog, dutyLog') /\ UNCHANGED aired /\ now' >= now
  <2>1. Steps \subseteq Nat \ {0}
    BY ConfigAssumption
  <2> QED
    BY <1>1, <1>3, <2>1 DEF EndStep, nodeVars, airVars
<1> QED
  BY <1>1, <1>4, <1>5, <1>6, <1>7, <1>8, <1>9, <1>11, <1>12, <1>13, <1>14, <1>15, <1>16 DEF Next, Ended

LEMMA FrameNumbers ==
  ASSUME TypeOK, Successive
  PROVE  \A f \in aired : /\ f.start \in Nat /\ f.end \in Nat /\ f.start < f.end
                          /\ f.sender \in Nodes
BY DEF TypeOK, AirOK, Frame, Successive

(* A window over fewer frames holds no more time on the air. *)
LEMMA FewerFrames ==
  ASSUME NEW S, IsFiniteSet(S), NEW R \in SUBSET S, NEW t \in Int,
         \A f \in S : f.start \in Nat /\ f.end \in Nat /\ f.start < f.end
  PROVE  /\ TotalOnAir(R, t) <= TotalOnAir(S, t)
         /\ TotalOnAir(R, t) \in Nat /\ TotalOnAir(S, t) \in Nat
<1>1. IsFiniteSet(R)
  BY FS_Subset
<1>2. /\ WeightOn(S, t) \in [S -> Nat] /\ TotalOnAir(S, t) = SumOf(WeightOn(S, t), S)
      /\ WeightOn(R, t) \in [R -> Nat] /\ TotalOnAir(R, t) = SumOf(WeightOn(R, t), R)
  BY <1>1, OnAirSum
<1> DEFINE h == [f \in R |-> f]
<1>3. Matched(R, S, WeightOn(R, t), WeightOn(S, t), h)
  <2>1. \A f \in R : WeightOn(R, t)[f] = WeightOn(S, t)[f] /\ h[f] = f /\ WeightOn(R, t)[f] \in Nat
    BY <1>2 DEF WeightOn
  <2> QED
    BY <2>1 DEF Matched
<1> HIDE DEF h
<1>4. SumOf(WeightOn(R, t), R) <= SumOf(WeightOn(S, t), S)
  BY <1>1, <1>2, <1>3, SumMatched
<1>5. SumOf(WeightOn(R, t), R) \in Nat /\ SumOf(WeightOn(S, t), S) \in Nat
  BY <1>1, <1>2, SumStarts
<1> QED
  BY <1>2, <1>4, <1>5

LEMMA BudgetKeep ==
  ASSUME TypeOK, TypeOK', BudgetInv,
         Keeps(dutyLog, dutyLog'), aired' \subseteq aired, now' >= now
  PROVE  BudgetInv'
<1>1. now \in Nat /\ now' \in Nat /\ DutyWindow \in Nat
  BY ConfigAssumption DEF TypeOK
<1>2. FiniteHistory'
  BY FS_Subset DEF BudgetInv, FiniteHistory, Keeps
<1>3. Logged'
  <2> SUFFICES ASSUME DutyWindow > 0, NEW f \in aired', f.end > Cutoff(DutyWindow)'
               PROVE  EntryOf(f) \in dutyLog'[f.sender]
    BY DEF Logged
  <2>1. f.end \in Nat /\ f.sender \in Nodes /\ f \in aired
    BY DEF TypeOK, AirOK, Frame
  <2>2. f.end > Cutoff(DutyWindow)
    BY <1>1, <2>1 DEF Cutoff
  <2>3. EntryOf(f) \in dutyLog[f.sender] /\ EntryOf(f).end = f.end
    BY <2>1, <2>2 DEF BudgetInv, Logged, EntryOf
  <2> QED
    BY <2>1, <2>2, <2>3 DEF Keeps
<1>4. Successive'
  BY DEF BudgetInv, Successive
<1>5. WithinBudget'
  <2> SUFFICES ASSUME NEW i \in Nodes, NEW t \in Int
               PROVE  TotalOnAir(Own(i)', t) <= DutyBudget
    BY DEF WithinBudget
  <2>1. IsFiniteSet(Own(i)) /\ Own(i)' \in SUBSET Own(i)
    BY FS_Subset DEF BudgetInv, FiniteHistory, Own
  <2>2. \A f \in Own(i) : f.start \in Nat /\ f.end \in Nat /\ f.start < f.end
    BY FrameNumbers DEF BudgetInv, Own
  <2>3. TotalOnAir(Own(i)', t) <= TotalOnAir(Own(i), t)
        /\ TotalOnAir(Own(i)', t) \in Nat /\ TotalOnAir(Own(i), t) \in Nat
    BY <2>1, <2>2, FewerFrames
  <2>4. TotalOnAir(Own(i), t) <= DutyBudget /\ DutyBudget \in Nat
    BY ConfigAssumption DEF BudgetInv, WithinBudget
  <2> QED
    BY <2>3, <2>4
<1> QED
  BY <1>2, <1>3, <1>4, <1>5 DEF BudgetInv

(* What a frame adds to a window that it reaches fits: what else is in the *)
(* window was in the log when the frame was admitted.                      *)
LEMMA LogCoversWindow ==
  ASSUME TypeOK, FiniteHistory, Logged, Successive, NEW i \in Nodes,
         NEW t \in Int, DutyWindow > 0, now < t + DutyWindow
  PROVE  /\ TotalOnAir(Own(i), t) <= AirtimeUsed(i)
         /\ TotalOnAir(Own(i), t) \in Nat /\ AirtimeUsed(i) \in Nat
<1> DEFINE P == Pruned(dutyLog[i], DutyWindow)
           h == [f \in Own(i) |-> EntryOf(f)]
<1>1. now \in Nat /\ DutyWindow \in Nat
  BY ConfigAssumption DEF TypeOK
<1>2. P \in SUBSET [end : Nat, air : Nat] /\ IsFiniteSet(P)
  <2>1. dutyLog[i] \in SUBSET [end : Nat, air : Nat] /\ IsFiniteSet(dutyLog[i])
    BY DEF TypeOK, NodeOK, FiniteHistory
  <2>2. P \subseteq dutyLog[i]
    BY DEF Pruned
  <2> QED
    BY <2>1, <2>2, FS_Subset
<1>3. IsFiniteSet(Own(i)) /\ \A f \in Own(i) : f \in aired /\ f.sender = i
  BY FS_Subset DEF FiniteHistory, Own
<1>4. \A f \in Own(i) : f.start \in Nat /\ f.end \in Nat /\ f.start < f.end
  BY <1>3, FrameNumbers
<1>5. /\ WeightOn(Own(i), t) \in [Own(i) -> Nat]
      /\ TotalOnAir(Own(i), t) = SumOf(WeightOn(Own(i), t), Own(i))
  BY <1>3, <1>4, OnAirSum
<1>6. AirOf(P) \in [P -> Nat] /\ AirtimeUsed(i) = SumOf(AirOf(P), P)
  BY <1>2, AirtimeSum DEF AirtimeUsed
<1>7. ASSUME NEW f \in Own(i), WeightOn(Own(i), t)[f] > 0
      PROVE  h[f] \in P /\ WeightOn(Own(i), t)[f] <= AirOf(P)[h[f]] /\ h[f].end = f.end
  <2>1. WeightOn(Own(i), t)[f] = OnAir(f, t) /\ h[f] = EntryOf(f)
    BY DEF WeightOn
  <2>2. OnAir(f, t) <= f.end - f.start /\ f.end > t
    BY <1>4, <1>7, <2>1, OnAirBounds
  <2>3. f.end > Cutoff(DutyWindow)
    BY <1>1, <1>4, <2>2 DEF Cutoff
  <2>4. EntryOf(f) \in dutyLog[i] /\ EntryOf(f).end = f.end /\ EntryOf(f).air = f.end - f.start
    BY <1>3, <2>3 DEF Logged, EntryOf
  <2>5. EntryOf(f) \in P
    BY <2>3, <2>4 DEF Pruned
  <2>6. AirOf(P)[EntryOf(f)] = f.end - f.start
    BY <2>4, <2>5 DEF AirOf
  <2> QED
    BY <2>1, <2>2, <2>4, <2>5, <2>6
<1>8. Matched(Own(i), P, WeightOn(Own(i), t), AirOf(P), h)
  <2>1. \A f, g \in Own(i) : f.end = g.end => f = g
    BY <1>3 DEF Successive
  <2> HIDE DEF h, P
  <2> QED
    BY <1>7, <2>1 DEF Matched
<1> HIDE DEF h, P
<1>9. SumOf(WeightOn(Own(i), t), Own(i)) <= SumOf(AirOf(P), P)
  BY <1>2, <1>3, <1>5, <1>6, <1>8, SumMatched
<1>10. SumOf(WeightOn(Own(i), t), Own(i)) \in Nat /\ SumOf(AirOf(P), P) \in Nat
  BY <1>2, <1>3, <1>5, <1>6, SumStarts
<1> QED
  BY <1>5, <1>6, <1>9, <1>10

LEMMA BudgetTransmit ==
  ASSUME NoShortQuery, IInv, TypeOK', BudgetInv, Transmit
  PROVE  BudgetInv'
<1> DEFINE p == Head(batch)
           f == NewFrame(p)
           grown == [DutyChecked EXCEPT ![turn] = @ \cup {[end |-> f.end, air |-> AirtimeOf(p)]}]
<1>1. TypeOK
  BY DEF IInv
<1>2. /\ batch # <<>> /\ ~SelfTx /\ aired' = aired \cup {f} /\ UNCHANGED now
  BY <1>1, TransmitEffect
<1>3. /\ f \in Frame /\ f.id = nextId /\ f.sender = turn /\ f.start >= now /\ f.end > f.start
  BY <1>1, <1>2, NewFrameType
<1>4. /\ turn \in Nodes /\ AirtimeOf(p) \in Nat \ {0} /\ initialized \subseteq Nodes
      /\ now \in Nat /\ DutyWindow \in Nat /\ DutyBudget \in Nat
  BY <1>1, <1>2, HeadType, ConfigAssumption DEF TypeOK, LifeOK
<1>5. f.start \in Nat /\ f.end \in Nat /\ f.end - f.start = AirtimeOf(p)
  <2>1. f.start \in Nat /\ f.end \in Nat
    BY <1>3 DEF Frame
  <2>2. f.end = f.start + AirtimeOf(p)
    BY DEF NewFrame
  <2> QED
    BY <1>4, <2>1, <2>2
<1>6. ~DutyExceeded(p)
  BY DEF Transmit
<1>7. \E detecting \in Detections(f) :
        React({ o \in detecting : f.sf \in tune[o].sfs /\ f.bw = tune[o].bw },
              initialized, grown, Stuck)
  BY DEF Transmit
<1> HIDE DEF f, p
<1>8. /\ Keeps(dutyLog, DutyChecked)
      /\ DutyChecked \in [Nodes -> SUBSET [end : Nat, air : Nat]]
  BY <1>1, CheckKeeps
<1>9. EntryOf(f) = [end |-> f.end, air |-> AirtimeOf(p)]
  BY <1>5 DEF EntryOf
<1>10. /\ grown \in [Nodes -> SUBSET [end : Nat, air : Nat]]
       /\ EntryOf(f) \in grown[turn]
       /\ \A i \in Nodes : DutyChecked[i] \subseteq grown[i] /\ grown[i] \subseteq DutyChecked[i] \cup {EntryOf(f)}
  BY <1>4, <1>5, <1>8, <1>9
<1> HIDE DEF grown
<1>11. Keeps(grown, dutyLog')
  <2>1. PICK detecting \in Detections(f) :
          React({ o \in detecting : f.sf \in tune[o].sfs /\ f.bw = tune[o].bw },
                initialized, grown, Stuck)
    BY <1>7
  <2>2. detecting \subseteq Nodes
    BY DEF Detections, Observers
  <2>3. { o \in detecting : f.sf \in tune[o].sfs /\ f.bw = tune[o].bw } \in SUBSET Nodes
    BY <2>2
  <2> QED
    BY <1>4, <1>10, <2>1, <2>3, ReactKeeps
<1>12. \A g \in aired : g.start \in Nat /\ g.end \in Nat /\ g.start < g.end /\ g.sender \in Nodes
  BY <1>1, FrameNumbers DEF BudgetInv
<1>13. \A g \in aired : g.sender = turn => g.end <= now
  BY <1>2 DEF SelfTx, IInv, Landed
<1>14. f \notin aired
  BY <1>3, <1>4, <1>5, <1>12, <1>13
<1>15. FiniteHistory'
  <2>1. IsFiniteSet(aired')
    BY <1>2, FS_AddElement DEF BudgetInv, FiniteHistory
  <2>2. ASSUME NEW i \in Nodes PROVE IsFiniteSet(dutyLog'[i])
    <3>1. IsFiniteSet(dutyLog[i] \cup {EntryOf(f)})
      BY FS_AddElement DEF BudgetInv, FiniteHistory
    <3>2. dutyLog'[i] \subseteq dutyLog[i] \cup {EntryOf(f)}
      BY <1>8, <1>10, <1>11 DEF Keeps
    <3> QED
      BY <3>1, <3>2, FS_Subset
  <2> QED
    BY <2>1, <2>2 DEF FiniteHistory
<1>16. Logged'
  <2> SUFFICES ASSUME DutyWindow > 0, NEW g \in aired', g.end > Cutoff(DutyWindow)
               PROVE  EntryOf(g) \in dutyLog'[g.sender]
    BY <1>2 DEF Logged, Cutoff
  <2>1. g.sender \in Nodes /\ EntryOf(g).end = g.end
    BY <1>2, <1>3, <1>4, <1>12 DEF EntryOf
  <2>2. CASE g = f
    BY <1>3, <1>10, <1>11, <2>1, <2>2 DEF Keeps
  <2>3. CASE g \in aired
    <3>1. EntryOf(g) \in dutyLog[g.sender]
      BY <2>3 DEF BudgetInv, Logged
    <3>2. EntryOf(g) \in DutyChecked[g.sender]
      BY <1>8, <2>1, <3>1 DEF Keeps
    <3>3. EntryOf(g) \in grown[g.sender]
      BY <1>10, <2>1, <3>2
    <3> QED
      BY <1>11, <2>1, <3>3 DEF Keeps
  <2> QED
    BY <1>2, <2>2, <2>3
<1>17. Successive'
  <2>1. \A g \in aired : g.sender = f.sender => g.end # f.end
    BY <1>3, <1>4, <1>5, <1>12, <1>13
  <2> QED
    BY <1>2, <1>3, <2>1 DEF BudgetInv, Successive
<1>18. WithinBudget'
  <2> SUFFICES ASSUME NEW i \in Nodes, NEW t \in Int
               PROVE  TotalOnAir(Own(i)', t) <= DutyBudget
    BY DEF WithinBudget
  <2>1. TotalOnAir(Own(i), t) <= DutyBudget
    BY DEF BudgetInv, WithinBudget
  <2>2. CASE i # turn
    <3>1. Own(i)' = Own(i)
      BY <1>2, <1>3, <2>2 DEF Own
    <3> QED
      BY <2>1, <3>1
  <2>3. CASE i = turn
    <3> DEFINE A == Own(i) \cup {f}
               v == WeightOn(A, t)
    <3>1. Own(i)' = A /\ A \ {f} = Own(i) /\ f \in A
      BY <1>2, <1>3, <1>14, <2>3 DEF Own
    <3>2. IsFiniteSet(Own(i)) /\ IsFiniteSet(A)
      BY FS_Subset, FS_AddElement DEF Own, BudgetInv, FiniteHistory
    <3>3. /\ \A g \in A : g.start \in Nat /\ g.end \in Nat /\ g.start < g.end
          /\ \A g \in Own(i) : g.start \in Nat /\ g.end \in Nat /\ g.start < g.end
      BY <1>3, <1>5, <1>12 DEF Own
    <3>4. v \in [A -> Nat] /\ TotalOnAir(A, t) = SumOf(v, A)
      BY <3>2, <3>3, OnAirSum
    <3>5. SumOf(v, A) = v[f] + SumOf(v, Own(i))
      <4>1. SumOf(v, A) = v[f] + SumOf(v, A \ {f})
        BY <3>1, <3>2, <3>4, SumRemove
      <4> QED
        BY <3>1, <4>1
    <3>6. SumOf(v, Own(i)) = TotalOnAir(Own(i), t)
      <4> DEFINE u == WeightOn(Own(i), t)
                 h == [g \in Own(i) |-> g]
      <4>1. u \in [Own(i) -> Nat] /\ TotalOnAir(Own(i), t) = SumOf(u, Own(i))
        BY <3>2, <3>3, OnAirSum
      <4>2. \A g \in Own(i) : u[g] = v[g] /\ h[g] = g
        BY DEF WeightOn
      <4>3. Own(i) \in SUBSET A
        OBVIOUS
      <4> HIDE DEF u, v, A, h
      <4>4. Matched(Own(i), Own(i), u, v, h) /\ Matched(Own(i), Own(i), v, u, h)
        BY <3>4, <4>1, <4>2, <4>3 DEF Matched
      <4>5. SumOf(u, Own(i)) <= SumOf(v, Own(i))
        BY <3>2, <3>4, <4>1, <4>3, <4>4, SumMatched
      <4>6. SumOf(v, Own(i)) <= SumOf(u, Own(i))
        BY <3>2, <3>4, <4>1, <4>3, <4>4, SumMatched
      <4>7. SumOf(v, Own(i)) \in Nat /\ SumOf(u, Own(i)) \in Nat
        BY <3>2, <3>4, <4>1, <4>3, SumStarts
      <4> QED
        BY <4>1, <4>5, <4>6, <4>7
    <3>7. v[f] = OnAir(f, t)
      BY <3>1 DEF WeightOn
    <3>8. /\ OnAir(f, t) \in Nat /\ OnAir(f, t) <= AirtimeOf(p)
          /\ OnAir(f, t) > 0 => f.start < t + DutyWindow /\ DutyWindow > 0
      BY <1>3, <1>5, OnAirBounds
    <3>9. TotalOnAir(A, t) = OnAir(f, t) + TotalOnAir(Own(i), t)
      BY <3>4, <3>5, <3>6, <3>7
    <3>10. TotalOnAir(Own(i), t) \in Nat
      BY <3>2, <3>3, FewerFrames
    <3>11. CASE OnAir(f, t) = 0
      BY <2>1, <3>1, <3>9, <3>10, <3>11
    <3>12. CASE OnAir(f, t) > 0
      <4>1. now < t + DutyWindow /\ DutyWindow > 0
        BY <1>3, <1>4, <1>5, <3>8, <3>12
      <4>2. TotalOnAir(Own(i), t) <= AirtimeUsed(i) /\ AirtimeUsed(i) \in Nat
        BY <1>1, <4>1, LogCoversWindow DEF BudgetInv
      <4>3. ~(AirtimeUsed(i) + AirtimeOf(p) > DutyBudget)
        BY <1>6, <2>3, <4>1 DEF DutyExceeded
      <4> QED
        BY <1>4, <3>1, <3>8, <3>9, <3>10, <4>2, <4>3
    <3> QED
      BY <3>8, <3>11, <3>12
  <2> QED
    BY <2>2, <2>3
<1> QED
  BY <1>15, <1>16, <1>17, <1>18 DEF BudgetInv

LEMMA BudgetStep ==
  ASSUME NoShortQuery, IInv, TypeOK', BudgetInv, [Next]_vars
  PROVE  BudgetInv'
<1>1. TypeOK
  BY DEF IInv
<1> QED
  BY <1>1, LogSteps, BudgetKeep, BudgetTransmit

LEMMA BudgetInit == Init => BudgetInv
<1> SUFFICES ASSUME Init PROVE BudgetInv
  OBVIOUS
<1>1. aired = {} /\ dutyLog = [i \in Nodes |-> {}]
  BY DEF Init
<1>2. FiniteHistory /\ Logged /\ Successive
  BY <1>1, FS_EmptySet DEF FiniteHistory, Logged, Successive
<1>3. ASSUME NEW i \in Nodes, NEW t \in Int PROVE TotalOnAir(Own(i), t) <= DutyBudget
  <2>1. Own(i) = {} /\ IsFiniteSet({})
    BY <1>1, FS_EmptySet DEF Own
  <2>2. /\ WeightOn({}, t) \in [{} -> Nat]
        /\ TotalOnAir({}, t) = SumOf(WeightOn({}, t), {})
    BY <2>1, OnAirSum
  <2>3. SumOf(WeightOn({}, t), {}) = 0
    BY <2>1, <2>2, SumStarts
  <2> QED
    BY <2>1, <2>2, <2>3, ConfigAssumption
<1> QED
  BY <1>2, <1>3 DEF BudgetInv, WithinBudget

(* The duty-cycle hard block: in no window of DutyWindow ms is a node on   *)
(* the air for longer than its budget, if no node asks for its airtime     *)
(* over a shorter window.                                                  *)
THEOREM BudgetIsHeld == NoShortQuery => (Spec => []DutyBudgetHeld)
<1> SUFFICES ASSUME NoShortQuery PROVE Spec => []DutyBudgetHeld
  OBVIOUS
<1>1. IInv /\ TypeOK' /\ BudgetInv /\ [Next]_vars => BudgetInv'
  BY BudgetStep
<1>2. IInv /\ BudgetInv => DutyBudgetHeld
  <2> SUFFICES ASSUME IInv, BudgetInv, NEW i \in Nodes, NEW x \in aired
               PROVE  /\ TotalOnAir(Own(i), x.start) <= DutyBudget
                      /\ TotalOnAir(Own(i), x.end - DutyWindow) <= DutyBudget
    BY DEF DutyBudgetHeld, TotalOnAir, Own
  <2>1. x.start \in Int /\ x.end - DutyWindow \in Int
    BY FrameNumbers, ConfigAssumption DEF IInv, BudgetInv
  <2> QED
    BY <2>1 DEF BudgetInv, WithinBudget
<1> QED
  BY <1>1, <1>2, BudgetInit, InvariantHolds, TypeCorrect, PTL DEF Spec
-----------------------------------------------------------------------------
(* Half duplex.  The engine knows the transmissions of a receiver that are *)
(* in flight, and of the earlier ones the last.  That is enough where a    *)
(* node cannot transmit while a frame is on its way to it, nor be sent one *)
(* while it transmits; on other networks it is not.                        *)

(* Who is linked is linked both ways, hears the other well enough to defer *)
(* to it, and is on the same carrier.                                      *)
Audibly(s, r) == HasLink(s, r) /\ Links[s][r] >= Latest(EnergyThreshold, -99)

AllDefer ==
  /\ EnergyMode /\ LbtNodes = Nodes
  /\ \A c, d \in Freqs : c = d
  /\ \A s \in Nodes : \A r \in Nodes \ {s} :
       HasLink(s, r) => Audibly(s, r) /\ Audibly(r, s)

(* A transmission that, with its settling, reaches into f's airtime.       *)
Touches(w, f) == w.start < f.end /\ w.end + TxToRx > f.start

(* What the one remembered transmission of a node says of the others, and  *)
(* whether it is over.                                                     *)
LastShape ==
  /\ \A i \in Nodes : lastTx[i].start <= lastTx[i].end
  /\ \A f \in aired : f.end > 0 /\ f.end <= lastTx[f.sender].end
  /\ \A f \in inFlight : f.end = lastTx[f.sender].end

PastDeath(i) == DiesAt[i] > 0 /\ now >= DiesAt[i]

LastOver ==
  /\ \A i \in alive : lastTx[i].end <= now \/ \E f \in inFlight : f.sender = i
  /\ \A i \in Nodes \ alive : lastTx[i].end = 0 \/ PastDeath(i)

StillThere == phase \in {"timers", "register"} => \A f \in inFlight : f.end > now

(* If any transmission of r touches f, the remembered one does.            *)
Covered ==
  \A f \in inFlight : \A r \in alive \ {f.sender} :
    HasLink(f.sender, r) /\ (\E g \in aired : g.sender = r /\ Touches(g, f))
      => Touches(lastTx[r], f)

DeafInv == LastShape /\ LastOver /\ StillThere /\ Covered /\ NeverHearsWhileTransmitting

LEMMA NumbersOfAir ==
  ASSUME TypeOK
  PROVE  /\ now \in Nat /\ TxToRx \in Nat
         /\ \A f \in aired : f.start \in Nat /\ f.end \in Nat /\ f.sender \in Nodes /\ f.freq \in Freqs
         /\ \A f \in inFlight : f.start \in Nat /\ f.end \in Nat /\ f.sender \in Nodes /\ f.freq \in Freqs
         /\ \A i \in Nodes : lastTx[i].start \in Nat /\ lastTx[i].end \in Nat
         /\ \A x \in received : x[1].start \in Nat /\ x[1].end \in Nat
         /\ alive \subseteq Nodes
BY ConfigAssumption DEF TypeOK, LifeOK, AirOK, Frame

(* A step that leaves the air and the living alone.                        *)
LEMMA DeafRest ==
  ASSUME TypeOK, TypeOK', DeafInv, now' >= now,
         UNCHANGED <<inFlight, aired, lastTx, alive, received>>,
         phase' \in {"timers", "register"} => phase \in {"timers", "register"} /\ now' = now
  PROVE  DeafInv'
<1>1. /\ now \in Nat /\ now' \in Nat
      /\ \A i \in Nodes : lastTx[i].end \in Nat
      /\ alive \subseteq Nodes
  BY NumbersOfAir DEF TypeOK
<1>2. LastShape' /\ Covered' /\ NeverHearsWhileTransmitting'
  BY DEF DeafInv, LastShape, Covered, NeverHearsWhileTransmitting
<1>3. LastOver'
  <2>1. \A i \in Nodes : DiesAt[i] \in Nat
    BY ConfigAssumption
  <2> QED
    BY <1>1, <2>1 DEF DeafInv, LastOver, PastDeath
<1>4. StillThere'
  BY DEF DeafInv, StillThere
<1> QED
  BY <1>2, <1>3, <1>4 DEF DeafInv

LEMMA DeafLifecycle ==
  ASSUME TypeOK, TypeOK', DeafInv, Lifecycle
  PROVE  DeafInv'
<1>1. /\ alive' = (alive \cup Born) \ Dying
      /\ inFlight' = inFlight \ Evaporating
      /\ aired' = aired \ Evaporating
      /\ phase' = "startup"
      /\ UNCHANGED <<now, lastTx, received>>
  BY DEF Lifecycle
<1>2. /\ \A i \in Nodes : lastTx[i].start \in Nat /\ lastTx[i].end \in Nat
      /\ \A f \in aired : f.end \in Nat /\ f.sender \in Nodes
      /\ \A f \in inFlight : f.sender \in Nodes
      /\ now \in Nat /\ alive \subseteq Nodes
  BY NumbersOfAir
<1>3. \A i \in Nodes : PastDeath(i)' <=> PastDeath(i)
  BY <1>1 DEF PastDeath
<1>4. \A i \in alive' : i \in Nodes /\ ~PastDeath(i)
  BY <1>1, <1>2 DEF Dying, Born, PastDeath
<1>5. \A i \in alive' \ alive : lastTx[i].end = 0
  BY <1>4 DEF DeafInv, LastOver
<1>6. \A i \in Nodes \ alive' : i \in alive => PastDeath(i)
  BY <1>1 DEF Dying, PastDeath
<1>7. \A f \in inFlight : f.sender \in alive' => f \in inFlight'
  BY <1>1 DEF Evaporating
<1>8. LastShape'
  BY <1>1 DEF DeafInv, LastShape
<1>9. LastOver'
  <2>1. \A i \in alive' : lastTx[i].end <= now \/ \E f \in inFlight' : f.sender = i
    <3> SUFFICES ASSUME NEW i \in alive', ~(lastTx[i].end <= now)
                 PROVE  \E f \in inFlight' : f.sender = i
      OBVIOUS
    <3>1. i \in alive
      BY <1>2, <1>4, <1>5
    <3> QED
      BY <1>7, <3>1 DEF DeafInv, LastOver
  <2>2. \A i \in Nodes \ alive' : lastTx[i].end = 0 \/ PastDeath(i)
    BY <1>6 DEF DeafInv, LastOver
  <2> QED
    BY <1>1, <1>3, <2>1, <2>2 DEF LastOver
<1>10. StillThere'
  BY <1>1 DEF StillThere
<1>11. Covered'
  <2> SUFFICES ASSUME NEW f \in inFlight', NEW r \in alive' \ {f.sender}, HasLink(f.sender, r),
                      NEW g \in aired', g.sender = r, Touches(g, f)
               PROVE  Touches(lastTx[r], f)
    BY <1>1 DEF Covered
  <2>1. g \in aired /\ f \in inFlight
    BY <1>1
  <2>2. r \in alive
    BY <1>2, <1>4, <1>5, <2>1 DEF DeafInv, LastShape
  <2> QED
    BY <2>1, <2>2 DEF DeafInv, Covered
<1>12. NeverHearsWhileTransmitting'
  BY <1>1 DEF DeafInv, NeverHearsWhileTransmitting
<1> QED
  BY <1>8, <1>9, <1>10, <1>11, <1>12 DEF DeafInv

LEMMA DeafCompact ==
  ASSUME TypeOK, TypeOK', DeafInv, Compact
  PROVE  DeafInv'
<1>1. /\ inFlight' = inFlight \ Elapsed
      /\ UNCHANGED <<now, alive, lastTx, aired, received>>
  BY DEF Compact, lifeVars
<1>2. /\ \A i \in Nodes : lastTx[i].end \in Nat
      /\ \A f \in inFlight : f.end \in Nat /\ f.sender \in Nodes
      /\ now \in Nat /\ alive \subseteq Nodes
  BY NumbersOfAir
<1>3. \A f \in inFlight \ inFlight' : lastTx[f.sender].end <= now
  BY <1>1 DEF DeafInv, LastShape, Elapsed
<1>4. LastShape' /\ Covered' /\ NeverHearsWhileTransmitting'
  BY <1>1 DEF DeafInv, LastShape, Covered, NeverHearsWhileTransmitting
<1>5. LastOver'
  BY <1>1, <1>3 DEF DeafInv, LastOver, PastDeath
<1>6. StillThere'
  BY <1>1, <1>2 DEF StillThere, Elapsed
<1> QED
  BY <1>4, <1>5, <1>6 DEF DeafInv

(* The gate asks for the last transmission, which covers every other.      *)
LEMMA DeafDeliver ==
  ASSUME TypeOK, TypeOK', DeafInv, Deliver
  PROVE  DeafInv'
<1>1. PICK f \in inFlight :
        /\ f.id \in todo
        /\ todo' = todo \ {f.id}
        /\ \E fade \in [Nodes \ {f.sender} -> Fades],
              lost \in SUBSET (IF Losses THEN Nodes \ {f.sender} ELSE {}) :
             LET reached == { r \in Nodes \ {f.sender} : Hears(f, r, fade[r], r \in lost) }
                 kept    == { r \in reached : ~ForcedDrop(f, r) }
             IN  /\ dropCount' = [k \in DOMAIN Drops |->
                      IF Counts(k, f, reached) THEN dropCount[k] + 1 ELSE dropCount[k]]
                 /\ received' = received \cup { <<f, r>> : r \in kept }
                 /\ React(kept, initialized, dutyLog, txPhy)
  BY DEF Deliver
<1>2. PICK kept \in SUBSET (Nodes \ {f.sender}) :
        /\ received' = received \cup { <<f, r>> : r \in kept }
        /\ \A r \in kept : r \in alive /\ HasLink(f.sender, r) /\ ~Deaf(f, r)
  <2>1. PICK fade \in [Nodes \ {f.sender} -> Fades],
             lost \in SUBSET (IF Losses THEN Nodes \ {f.sender} ELSE {}) :
          LET reached == { r \in Nodes \ {f.sender} : Hears(f, r, fade[r], r \in lost) }
              kept    == { r \in reached : ~ForcedDrop(f, r) }
          IN  received' = received \cup { <<f, r>> : r \in kept }
    BY <1>1
  <2> DEFINE heard == { r \in { r \in Nodes \ {f.sender} : Hears(f, r, fade[r], r \in lost) } :
                          ~ForcedDrop(f, r) }
  <2>2. received' = received \cup { <<f, r>> : r \in heard }
    BY <2>1
  <2>3. \A r \in heard : Hears(f, r, fade[r], r \in lost)
    OBVIOUS
  <2>4. \A r \in heard : r \in alive /\ HasLink(f.sender, r) /\ ~Deaf(f, r)
    BY <2>3 DEF Hears
  <2>5. heard \in SUBSET (Nodes \ {f.sender})
    OBVIOUS
  <2> HIDE DEF heard
  <2> QED
    BY <2>2, <2>4, <2>5
<1>3. UNCHANGED <<now, phase, alive, lastTx, aired, inFlight>>
  BY DEF Deliver, lifeVars, airVars
<1>4. LastShape' /\ LastOver' /\ StillThere' /\ Covered'
  BY <1>3 DEF DeafInv, LastShape, LastOver, PastDeath, StillThere, Covered
<1>5. ASSUME NEW r \in kept, NEW g \in aired, g.sender = r, Touches(g, f)
      PROVE  FALSE
  <2>1. Touches(lastTx[r], f)
    BY <1>2, <1>5 DEF DeafInv, Covered
  <2>2. lastTx[r].end \in Nat /\ lastTx[r].end # 0
    BY <1>2, <1>5, NumbersOfAir DEF DeafInv, LastShape
  <2>3. Deaf(f, r)
    BY <2>1, <2>2 DEF Deaf, OwnTx, Touches
  <2> QED
    BY <1>2, <2>3
<1>6. NeverHearsWhileTransmitting'
  BY <1>2, <1>3, <1>5 DEF DeafInv, NeverHearsWhileTransmitting, Touches
<1> QED
  BY <1>4, <1>6 DEF DeafInv

(* Where all defer, whoever is linked to a sender has nothing in flight.   *)
LEMMA LinkedAreSilent ==
  ASSUME AllDefer, TypeOK, StillThere, Transmit
  PROVE  \A f \in inFlight : ~HasLink(f.sender, turn) /\ ~HasLink(turn, f.sender)
<1>1. /\ batch # <<>> /\ ~SelfTx /\ ~ChannelBusy /\ phase = "register"
  BY TransmitEffect DEF Transmit, Registering
<1>2. turn \in Nodes
  BY <1>1, HeadType
<1> SUFFICES ASSUME NEW f \in inFlight, HasLink(f.sender, turn) \/ HasLink(turn, f.sender)
             PROVE  FALSE
  OBVIOUS
<1>3. f.sender \in Nodes /\ f.freq \in Freqs /\ f.sender # turn /\ f.end > now
  BY <1>1, NumbersOfAir DEF SelfTx, StillThere
<1>4. Audibly(f.sender, turn)
  BY <1>2, <1>3 DEF AllDefer
<1>5. TunedToCarrier(turn, f.freq)
  <2>1. tune[turn].freq \in Freqs
    BY <1>2 DEF TypeOK, NodeOK, Tune
  <2> QED
    BY <1>3, <2>1 DEF AllDefer, TunedToCarrier
<1>6. Links[f.sender][turn] > -100 /\ Links[f.sender][turn] >= EnergyThreshold
  <2>1. Links[f.sender][turn] \in Int /\ EnergyThreshold \in Int
    BY <1>2, <1>3, ConfigAssumption
  <2> QED
    BY <1>4, <2>1 DEF Audibly, Latest
<1>7. f \in Audible(turn)
  BY <1>3, <1>4, <1>5, <1>6 DEF Audible, Audibly
<1> QED
  BY <1>1, <1>2, <1>7 DEF ChannelBusy, IsChannelBusy, AllDefer

LEMMA DeafTransmit ==
  ASSUME AllDefer, IInv, TypeOK', DeafInv, Transmit
  PROVE  DeafInv'
<1> DEFINE n == NewFrame(Head(batch))
<1>1. TypeOK
  BY DEF IInv
<1>2. /\ batch # <<>> /\ ~SelfTx
      /\ inFlight' = inFlight \cup {n}
      /\ aired' = aired \cup {n}
      /\ lastTx' = [lastTx EXCEPT ![turn] = [start |-> n.start, end |-> n.end]]
      /\ UNCHANGED <<now, phase, alive, received>>
  BY <1>1, TransmitEffect DEF lifeVars
<1>3. n \in Frame /\ n.sender = turn /\ n.start >= now /\ n.end > n.start
  BY <1>1, <1>2, NewFrameType
<1>4. turn \in Nodes /\ turn \in alive
  BY <1>1, <1>2, HeadType
<1> HIDE DEF n
<1>5. n.start \in Nat /\ n.end \in Nat
  BY <1>3 DEF Frame
<1>6. /\ now \in Nat /\ TxToRx \in Nat
      /\ \A f \in aired : f.start \in Nat /\ f.end \in Nat /\ f.sender \in Nodes
      /\ \A f \in inFlight : f.start \in Nat /\ f.end \in Nat /\ f.sender \in Nodes
      /\ \A i \in Nodes : lastTx[i].start \in Nat /\ lastTx[i].end \in Nat
      /\ \A x \in received : x[1].start \in Nat /\ x[1].end \in Nat
      /\ alive \subseteq Nodes
  BY <1>1, NumbersOfAir
<1>7. lastTx \in [Nodes -> [start : Nat, end : Nat]]
  BY <1>1 DEF TypeOK, AirOK
<1>8. /\ lastTx'[turn].start = n.start /\ lastTx'[turn].end = n.end
      /\ \A i \in Nodes \ {turn} : lastTx'[i] = lastTx[i]
  BY <1>2, <1>4, <1>7
<1>9. \A f \in inFlight : f.sender # turn
  BY <1>2 DEF SelfTx
<1>10. \A f \in inFlight : ~HasLink(f.sender, turn) /\ ~HasLink(turn, f.sender)
  BY <1>1, LinkedAreSilent DEF DeafInv
<1>11. \A g \in aired : g.sender = turn => g.end <= now
  BY <1>9 DEF IInv, Landed
<1>12. LastShape'
  <2>1. \A i \in Nodes : lastTx'[i].start <= lastTx'[i].end
    BY <1>3, <1>5, <1>8 DEF DeafInv, LastShape
  <2>2. \A f \in aired' : f.end > 0 /\ f.end <= lastTx'[f.sender].end
    <3>1. \A f \in aired : f.end > 0 /\ f.end <= lastTx'[f.sender].end
      BY <1>3, <1>5, <1>6, <1>8, <1>11 DEF DeafInv, LastShape
    <3> QED
      BY <1>2, <1>3, <1>5, <1>8, <3>1
  <2>3. \A f \in inFlight' : f.end = lastTx'[f.sender].end
    BY <1>2, <1>3, <1>6, <1>8, <1>9 DEF DeafInv, LastShape
  <2> QED
    BY <2>1, <2>2, <2>3 DEF LastShape
<1>13. LastOver'
  BY <1>2, <1>3, <1>4, <1>6, <1>8 DEF DeafInv, LastOver, PastDeath
<1>14. StillThere'
  BY <1>2, <1>3, <1>5, <1>6 DEF DeafInv, StillThere
<1>15. Covered'
  <2> SUFFICES ASSUME NEW f \in inFlight', NEW r \in alive \ {f.sender}, HasLink(f.sender, r),
                      NEW g \in aired', g.sender = r, Touches(g, f)
               PROVE  Touches(lastTx'[r], f)
    BY <1>2 DEF Covered
  <2>1. CASE f = n
    <3>1. r # turn /\ g \in aired
      BY <1>2, <1>3, <2>1
    <3>2. \A h \in inFlight : h.sender # r
      BY <1>3, <1>10, <2>1
    <3>3. lastTx[r].end <= now /\ lastTx[r].start <= lastTx[r].end /\ g.end <= lastTx[r].end
      BY <1>6, <3>1, <3>2 DEF DeafInv, LastOver, LastShape
    <3>4. lastTx[r].start < n.end
      BY <1>3, <1>5, <1>6, <3>3
    <3>5. lastTx[r].end + TxToRx > n.start
      BY <1>5, <1>6, <2>1, <3>1, <3>3 DEF Touches
    <3> QED
      BY <1>6, <1>8, <2>1, <3>1, <3>4, <3>5 DEF Touches
  <2>2. CASE f \in inFlight
    <3>1. r # turn
      BY <1>10, <2>2
    <3>2. g \in aired
      BY <1>2, <1>3, <3>1
    <3>3. Touches(lastTx[r], f)
      BY <2>2, <3>2 DEF DeafInv, Covered
    <3> QED
      BY <1>6, <1>8, <3>1, <3>3
  <2> QED
    BY <1>2, <2>1, <2>2
<1>16. NeverHearsWhileTransmitting'
  <2> SUFFICES ASSUME NEW x \in received, n.start < x[1].end PROVE FALSE
    BY <1>2 DEF DeafInv, NeverHearsWhileTransmitting
  <2>1. x[1].end <= now
    BY DEF IInv, Settled
  <2> QED
    BY <1>3, <1>5, <1>6, <2>1
<1> QED
  BY <1>12, <1>13, <1>14, <1>15, <1>16 DEF DeafInv

LEMMA DeafStep ==
  ASSUME AllDefer, IInv, TypeOK', DeafInv, [Next]_vars
  PROVE  DeafInv'
<1>1. TypeOK
  BY DEF IInv
<1>2. CASE Lifecycle \/ Deliver \/ Compact \/ Transmit
  BY <1>1, <1>2, DeafLifecycle, DeafDeliver, DeafCompact, DeafTransmit
<1>3. ASSUME UNCHANGED <<now, alive, received, airVars>>,
             phase' \in {"timers", "register"} => phase \in {"timers", "register"}
      PROVE  DeafInv'
  <2>1. now \in Nat
    BY <1>1 DEF TypeOK
  <2> QED
    BY <1>1, <1>3, <2>1, DeafRest DEF airVars
<1>4. CASE Boot \/ Startup \/ ConsoleCommand \/ FireCommand \/ CommandsDone \/ TickTimers
  BY <1>3, <1>4 DEF Boot, Startup, BootNodes, ConsoleCommand, FireCommand, CommandsDone, TickTimers, lifeVars
<1>5. CASE DrainNode \/ Refuse \/ RefuseDuty \/ TxFail \/ RouteInWarmup
  BY <1>3, <1>5 DEF DrainNode, Refuse, RefuseDuty, TxFail, RouteInWarmup, lifeVars
<1>6. CASE EndStep
  <2>1. Steps \subseteq Nat \ {0} /\ now \in Nat
    BY <1>1, ConfigAssumption DEF TypeOK
  <2>2. now' >= now /\ phase' \in {"ended", "lifecycle"} /\ UNCHANGED <<alive, received, airVars>>
    BY <1>6, <2>1 DEF EndStep, lifeVars
  <2> QED
    BY <1>1, <2>2, DeafRest DEF airVars
<1>7. CASE Ended \/ UNCHANGED vars
  BY <1>3, <1>7 DEF Ended, vars, lifeVars
<1> QED
  BY <1>2, <1>4, <1>5, <1>6, <1>7 DEF Next

(* Half duplex.  Where everyone listens before talking, on one carrier,    *)
(* and hears whoever hears it, no node is given a frame that overlapped    *)
(* its own transmission or the settling after it.                          *)
THEOREM DeafWhileTransmitting == AllDefer => (Spec => []NeverHearsWhileTransmitting)
<1> SUFFICES ASSUME AllDefer PROVE Spec => []NeverHearsWhileTransmitting
  OBVIOUS
<1>1. Init => DeafInv
  BY DEF Init, DeafInv, LastShape, LastOver, StillThere, Covered, NeverHearsWhileTransmitting
<1>2. IInv /\ TypeOK' /\ DeafInv /\ [Next]_vars => DeafInv'
  BY DeafStep
<1>3. DeafInv => NeverHearsWhileTransmitting
  BY DEF DeafInv
<1> QED
  BY <1>1, <1>2, <1>3, InvariantHolds, TypeCorrect, PTL DEF Spec
=============================================================================
