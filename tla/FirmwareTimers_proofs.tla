------------------------ MODULE FirmwareTimers_proofs ------------------------
(***************************************************************************)
(* Proofs about FirmwareTimers: its maps, heap and tombstones stay         *)
(* consistent, and with them every step of the wheel is a step of          *)
(* NodeTimers or leaves the promised deadlines alone.                      *)
(***************************************************************************)
EXTENDS FirmwareTimers, FiniteSetTheorems, TLAPS

IInv == TypeOK /\ Consistent

USE FirmwareTimersAssumption DEF Handles, Entry, Known, Dropped

(* Initially no timer is armed. *)
LEMMA InitInv == Init => IInv
  <1> SUFFICES ASSUME Init PROVE IInv
    OBVIOUS
  <1>1. TypeOK
    <2>1. ticked \in BOOLEAN
      BY Zenon DEF Init
    <2>2. heap \subseteq Entry /\ cancelled \subseteq Handles
      BY DEF Init
    <2>3. nextHandle \in 1 .. MaxHandle + 1
      BY DEF Init
    <2>4. handleOf \in [Ids -> 0 .. MaxHandle]
      BY DEF Init
    <2>5. idsOf \in [Handles -> SUBSET Ids]
      BY DEF Init
    <2>6. now \in Nat /\ phase \in {"step", "popping", "callback"}
      BY DEF Init
    <2>. QED BY <2>1, <2>2, <2>3, <2>4, <2>5, <2>6, Zenon DEF TypeOK
  <1>2. \A h \in Handles : h # 0 /\ idsOf[h] = {}
    BY DEF Init
  <1>3. Consistent
    BY <1>2 DEF Init, Consistent, MapsAgree, LiveAreMapped, HandlesAreFresh
  <1>. QED BY <1>1, <1>3 DEF IInv

(* A handle is forgotten with its tombstone set, in simAfter and simCancel. *)
LEMMA ForgottenIsType ==
  ASSUME TypeOK, NEW i \in Ids
  PROVE  /\ Forgot(i) \in [Handles -> SUBSET Ids]
         /\ CancelledWith(i) \subseteq Handles
         /\ \A h \in Handles : Forgot(i)[h] = IF h = handleOf[i] THEN {} ELSE idsOf[h]
  <1>1. i \in Known => handleOf[i] \in Handles
    BY DEF TypeOK
  <1>2. Forgot(i) \in [Handles -> SUBSET Ids]
    BY <1>1 DEF TypeOK, Forgot
  <1>3. CancelledWith(i) \subseteq Handles
    BY <1>1 DEF TypeOK, CancelledWith
  <1>4. \A h \in Handles : Forgot(i)[h] = IF h = handleOf[i] THEN {} ELSE idsOf[h]
    <2>1. CASE i \in Known
      BY <2>1, <1>1 DEF TypeOK, Forgot
    <2>2. CASE i \notin Known
      <3>1. handleOf[i] \notin Handles
        BY <2>2
      <3>. QED BY <2>2, <3>1 DEF Forgot
    <2>. QED BY <2>1, <2>2
  <1>. QED BY <1>2, <1>3, <1>4

LEMMA AfterInv ==
  ASSUME IInv, NEW i \in Ids, NEW d \in Delays, SimAfter(i, d)
  PROVE  IInv'
  <1> USE DEF IInv, TypeOK, Consistent, MapsAgree, LiveAreMapped, HandlesAreFresh, SimAfter,
          ScheduleAfter
  <1>0. nextHandle \in Handles /\ idsOf[nextHandle] = {} /\ now + Wall[d] \in Nat
    OBVIOUS
  <1>1. TypeOK'
    <2>1. idsOf' \in [Handles -> SUBSET Ids]
      BY <1>0, ForgottenIsType
    <2>2. cancelled' \subseteq Handles
      BY ForgottenIsType
    <2>. QED BY <1>0, <2>1, <2>2
  <1>a. \A h \in Handles :
          idsOf'[h] = IF h = nextHandle THEN {i} ELSE IF h = handleOf[i] THEN {} ELSE idsOf[h]
    BY <1>0, ForgottenIsType
  <1>b. \A h \in Handles : h \in cancelled' <=> h \in cancelled \/ h = handleOf[i]
    BY DEF CancelledWith
  <1>c. \A j \in Ids : handleOf'[j] = IF j = i THEN nextHandle ELSE handleOf[j]
    OBVIOUS
  <1>d. handleOf[i] # nextHandle
    BY <1>0
  <1>2. MapsAgree'
    <2>1. ASSUME NEW j \in Ids, NEW h \in Handles
          PROVE  handleOf'[j] = h <=> j \in idsOf'[h]
      BY <1>0, <1>a, <1>c, <1>d
    <2>2. ASSUME NEW h \in Handles, NEW j \in idsOf'[h], NEW k \in idsOf'[h]
          PROVE  j = k
      <3>1. CASE h = nextHandle
        BY <2>2, <3>1, <1>a
      <3>2. CASE h # nextHandle
        <4>1. h # handleOf[i]
          <5>1. CASE h = handleOf[i]
            <6>1. idsOf'[h] = {}
              BY <3>2, <5>1, <1>a
            <6>. QED BY <2>2, <6>1
          <5>. QED BY <5>1
        <4>2. idsOf'[h] = idsOf[h]
          BY <3>2, <4>1, <1>a, Zenon
        <4>3. j \in idsOf[h] /\ k \in idsOf[h]
          BY <2>2, <4>2, Zenon
        <4>. QED BY <4>3
      <3>. QED BY <3>1, <3>2
    <2>. QED BY <2>1, <2>2
  <1>3. LiveAreMapped'
    <2>1. ASSUME NEW h \in Handles, idsOf'[h] # {}
          PROVE  h \notin cancelled' /\ \E e \in heap' : e.handle = h
      <3>1. CASE h = nextHandle
        <4>1. h \notin cancelled'
          BY <3>1, <1>0, <1>b, <1>d
        <4> DEFINE new == [deadline |-> now + Wall[d], handle |-> nextHandle]
        <4>2. new \in heap' /\ new.handle = h
          BY <3>1
        <4>. QED BY <4>1, <4>2, Zenon
      <3>2. CASE h # nextHandle
        <4>1. h # handleOf[i] /\ idsOf[h] # {}
          BY <2>1, <3>2, <1>a
        <4>. QED BY <4>1, <1>b
      <3>. QED BY <3>1, <3>2
    <2>2. ASSUME NEW e \in heap'
          PROVE  Dropped(e)' \/ idsOf'[e.handle] # {}
      <3>1. CASE e \in heap
        <4>1. e.handle \in Handles /\ e.handle # nextHandle
          BY <3>1
        <4>2. e.handle \in cancelled \/ e.handle = handleOf[i] \/ idsOf'[e.handle] = idsOf[e.handle]
          BY <4>1, <1>a
        <4>. QED BY <3>1, <4>1, <4>2, <1>b
      <3>2. CASE e \notin heap
        <4>1. e.handle = nextHandle
          BY <3>2
        <4>2. idsOf'[nextHandle] = {i}
          BY <1>0, <1>a, Zenon
        <4>3. idsOf'[e.handle] # {}
          BY <4>1, <4>2
        <4>. QED BY <4>3, Zenon
      <3>. QED BY <3>1, <3>2
    <2>3. ASSUME NEW e \in heap', NEW f \in heap', e.handle = f.handle
          PROVE  e = f
      BY <2>3
    <2>. QED BY <2>1, <2>2, <2>3
  <1>4. HandlesAreFresh'
    BY <1>0, <1>b, <1>1
  <1>. QED BY <1>1, <1>2, <1>3, <1>4

LEMMA CancelInv ==
  ASSUME IInv, NEW i \in Ids, SimCancel(i)
  PROVE  IInv'
  <1> USE DEF IInv, TypeOK, Consistent, MapsAgree, LiveAreMapped, HandlesAreFresh, SimCancel
  <1>0. handleOf[i] \in Handles
    OBVIOUS
  <1>1. TypeOK'
    BY ForgottenIsType
  <1>a. \A h \in Handles : idsOf'[h] = IF h = handleOf[i] THEN {} ELSE idsOf[h]
    BY <1>0 DEF Forgot
  <1>b. \A h \in Handles : h \in cancelled' <=> h \in cancelled \/ h = handleOf[i]
    BY DEF CancelledWith
  <1>c. \A j \in Ids : handleOf'[j] = IF j = i THEN 0 ELSE handleOf[j]
    OBVIOUS
  <1>2. MapsAgree'
    BY <1>0, <1>a, <1>c
  <1>3. LiveAreMapped'
    <2>1. ASSUME NEW h \in Handles, idsOf'[h] # {}
          PROVE  h \notin cancelled' /\ \E e \in heap' : e.handle = h
      <3>1. h # handleOf[i] /\ idsOf[h] # {}
        BY <2>1, <1>a
      <3>. QED BY <3>1, <1>b
    <2>2. ASSUME NEW e \in heap'
          PROVE  Dropped(e)' \/ idsOf'[e.handle] # {}
      <3>1. e \in heap /\ e.handle \in Handles
        OBVIOUS
      <3>2. e.handle \in cancelled \/ e.handle = handleOf[i] \/ idsOf'[e.handle] = idsOf[e.handle]
        BY <3>1, <1>a
      <3>. QED BY <3>1, <3>2, <1>b
    <2>. QED BY <2>1, <2>2
  <1>4. HandlesAreFresh'
    <2>1. handleOf[i] < nextHandle
      BY <1>0
    <2>. QED BY <2>1, <1>b, <1>1
  <1>. QED BY <1>1, <1>2, <1>3, <1>4

LEMMA FireInv ==
  ASSUME IInv, Fire
  PROVE  IInv'
  <1> USE DEF IInv, TypeOK, Consistent, MapsAgree, LiveAreMapped, HandlesAreFresh
  <1>1. PICK e \in heap :
          /\ ~Dropped(e) /\ heap' = heap \ {e}
          /\ idsOf' = [idsOf EXCEPT ![e.handle] = {}]
          /\ handleOf' = [i \in Ids |-> IF i \in idsOf[e.handle] THEN 0 ELSE handleOf[i]]
          /\ phase' = IF idsOf[e.handle] = {} THEN "popping" ELSE "callback"
    BY DEF Fire
  <1>2. UNCHANGED <<now, ticked, cancelled, nextHandle>>
    BY DEF Fire
  <1>3. e.handle \in Handles
    OBVIOUS
  <1>4. TypeOK'
    BY <1>1, <1>2, <1>3
  <1>5. MapsAgree'
    <2>1. ASSUME NEW j \in Ids, NEW h \in Handles
          PROVE  handleOf'[j] = h <=> j \in idsOf'[h]
      BY <1>1, <1>3
    <2>2. ASSUME NEW h \in Handles, NEW j \in idsOf'[h], NEW k \in idsOf'[h]
          PROVE  j = k
      BY <1>1, <1>3
    <2>. QED BY <2>1, <2>2
  <1>6. LiveAreMapped'
    BY <1>1, <1>2, <1>3
  <1>7. HandlesAreFresh'
    BY <1>1, <1>2
  <1>. QED BY <1>4, <1>5, <1>6, <1>7

LEMMA StepInv == IInv /\ [Next]_vars => IInv'
  <1> SUFFICES ASSUME IInv, [Next]_vars PROVE IInv'
    OBVIOUS
  <1> USE DEF IInv, TypeOK, Consistent, MapsAgree, LiveAreMapped, HandlesAreFresh
  <1>1. CASE \E i \in Ids, d \in Delays : SimAfter(i, d)
    BY <1>1, AfterInv DEF IInv
  <1>2. CASE \E i \in Ids : SimCancel(i)
    BY <1>2, CancelInv DEF IInv
  <1>3. CASE Fire
    BY <1>3, FireInv DEF IInv
  <1>4. CASE Sweep
    BY <1>4 DEF Sweep, mapVars
  <1>5. CASE StartTick \/ Return \/ EndTick
    <2>1. UNCHANGED <<now, wheelVars, mapVars>>
      BY <1>5 DEF StartTick, Return, EndTick
    <2>2. phase' \in {"step", "popping", "callback"}
      BY <1>5 DEF StartTick, Return, EndTick
    <2>3. ticked' \in BOOLEAN
      BY <1>5, Zenon DEF StartTick, Return, EndTick
    <2>4. TypeOK'
      BY <2>1, <2>2, <2>3, Zenon DEF wheelVars, mapVars
    <2>5. Consistent'
      BY <2>1 DEF wheelVars, mapVars
    <2>. QED BY <2>4, <2>5
  <1>6. CASE Advance
    <2>1. now' \in Nat
      BY <1>6, FirmwareTimersAssumption DEF Advance
    <2>2. UNCHANGED <<phase, wheelVars, mapVars>>
      BY <1>6 DEF Advance
    <2>3. ticked' \in BOOLEAN
      BY <1>6, Zenon DEF Advance
    <2>4. TypeOK'
      BY <2>1, <2>2, <2>3, Zenon DEF wheelVars, mapVars
    <2>5. Consistent'
      BY <2>2 DEF wheelVars, mapVars
    <2>. QED BY <2>4, <2>5
  <1>7. CASE Over \/ UNCHANGED vars
    <2>1. UNCHANGED <<now, phase, ticked, wheelVars, mapVars>>
      BY <1>7 DEF Over, vars
    <2>2. TypeOK'
      BY <2>1, Zenon DEF wheelVars, mapVars
    <2>3. Consistent'
      BY <2>1 DEF wheelVars, mapVars
    <2>. QED BY <2>2, <2>3
  <1>. QED BY <1>1, <1>2, <1>3, <1>4, <1>5, <1>6, <1>7 DEF Next

(* The inductive invariant of the wheel holds in every reachable state.    *)
THEOREM InvariantHolds == Spec => []IInv
  BY InitInv, StepInv, PTL DEF Spec

(* Every variable of the wheel and of FirmwareNode's maps has its type. *)
THEOREM TypeCorrect == Spec => []TypeOK
  BY InvariantHolds, PTL DEF IInv

(* Maps, heap and tombstones agree, for any number of timers and handles. *)
THEOREM WheelConsistent == Spec => []Consistent
  BY InvariantHolds, PTL DEF IInv
-----------------------------------------------------------------------------
(* What the refinement mapping shows of an id. *)
Shown(i, x) ==
  \/ i \notin Known /\ x = Idle
  \/ i \in Known /\ \E e \in heap : e.handle = handleOf[i] /\ e.deadline = x

ShownNext(i, x) ==
  \/ handleOf'[i] = 0 /\ x = Idle
  \/ handleOf'[i] # 0 /\ \E e \in heap' : e.handle = handleOf'[i] /\ e.deadline = x

Unambiguous ==
  \A i \in Ids : Shown(i, DeadlineOf(i)) /\ \A x : Shown(i, x) => x = DeadlineOf(i)

LEMMA DeadlineShown == IInv => Unambiguous
  <1> SUFFICES ASSUME IInv, NEW i \in Ids
               PROVE  Shown(i, DeadlineOf(i)) /\ \A x : Shown(i, x) => x = DeadlineOf(i)
    BY DEF Unambiguous
  <1> USE DEF IInv, TypeOK, Consistent, MapsAgree, LiveAreMapped
  <1>1. CASE i \notin Known
    BY <1>1 DEF Shown, DeadlineOf
  <1>2. CASE i \in Known
    <2>1. PICK e \in heap : e.handle = handleOf[i]
      BY <1>2
    <2>2. \A f \in heap : f.handle = handleOf[i] => f = e
      BY <2>1
    <2>3. DeadlineOf(i) = e.deadline
      <3>1. (CHOOSE f \in heap : f.handle = handleOf[i]) = e
        BY <2>1, <2>2
      <3>. QED BY <1>2, <3>1 DEF DeadlineOf
    <2>. QED BY <1>2, <2>1, <2>2, <2>3 DEF Shown
  <1>. QED BY <1>1, <1>2

LEMMA DeadlineShownNext == (IInv => Unambiguous)'
  BY DeadlineShown, PTL

(* The deadlines change exactly where what is shown of an id changes. *)
LEMMA DeadlinesFollow ==
  ASSUME IInv, IInv', NEW f \in [Ids -> Nat \cup {Idle}],
         \A i \in Ids : ShownNext(i, f[i])
  PROVE  Deadlines' = f
  <1>1. \A i \in Ids : f[i] = DeadlineOf(i)'
    BY DeadlineShownNext DEF Unambiguous, Shown, ShownNext
  <1>2. Deadlines' = [i \in Ids |-> DeadlineOf(i)']
    BY DEF Deadlines
  <1>. QED BY <1>1, <1>2

LEMMA ArmedIsKnown ==
  ASSUME IInv
  PROVE  /\ Promise!Armed = Known
         /\ Deadlines \in [Ids -> Nat \cup {Idle}]
         /\ \A i \in Ids : Shown(i, Deadlines[i])
  <1>1. \A i \in Ids : Deadlines[i] = DeadlineOf(i) /\ Shown(i, DeadlineOf(i))
    BY DeadlineShown DEF Unambiguous, Deadlines
  <1>2. \A i \in Ids : IF i \in Known THEN Deadlines[i] \in Nat ELSE Deadlines[i] = Idle
    BY <1>1 DEF Shown, IInv, TypeOK
  <1>3. \A i \in Ids : i \in Known <=> Deadlines[i] # Idle
    BY <1>2
  <1>4. Promise!Armed = Known
    BY <1>3 DEF Promise!Armed
  <1>5. Deadlines \in [Ids -> Nat \cup {Idle}]
    BY <1>2 DEF Deadlines
  <1>. QED BY <1>1, <1>4, <1>5

LEMMA AfterRefines ==
  ASSUME IInv, IInv', NEW i \in Ids, NEW d \in Delays, SimAfter(i, d)
  PROVE  Promise!After(i, d)
  <1> DEFINE f == [Deadlines EXCEPT ![i] = now + Wall[d]]
  <1>1. now + Wall[d] \in Nat
    BY DEF IInv, TypeOK
  <1>2. f \in [Ids -> Nat \cup {Idle}]
    BY <1>1, ArmedIsKnown
  <1>3. ASSUME NEW j \in Ids PROVE ShownNext(j, f[j])
    <2>1. CASE j = i
      <3> DEFINE new == [deadline |-> now + Wall[d], handle |-> nextHandle]
      <3>1. new \in heap' /\ handleOf'[j] = nextHandle /\ nextHandle # 0
        BY <2>1 DEF SimAfter, ScheduleAfter, IInv, TypeOK
      <3>2. f[j] = new.deadline
        BY <2>1, ArmedIsKnown
      <3>. QED BY <3>1, <3>2 DEF Shown, ShownNext
    <2>2. CASE j # i
      <3>1. handleOf'[j] = handleOf[j] /\ heap \subseteq heap'
        BY <2>2 DEF SimAfter, ScheduleAfter, IInv, TypeOK
      <3>2. Shown(j, f[j])
        BY <2>2, ArmedIsKnown
      <3>. QED BY <3>1, <3>2 DEF Shown, ShownNext
    <2>. QED BY <2>1, <2>2
  <1>4. Deadlines' = f
    BY <1>2, <1>3, DeadlinesFollow
  <1>5. i \in Known \/ Cardinality(Known) < MaxTimers
    <2>1. i \notin Known => Known \ {i} = Known
      OBVIOUS
    <2>2. CASE i \notin Known
      <3>1. ~(Cardinality(Known) >= MaxTimers)
        BY <2>1, <2>2 DEF SimAfter, Refused
      <3>2. Cardinality(Known) \in Nat
        BY FS_Subset, FS_CardinalityType
      <3>. QED BY <3>1, <3>2
    <2>. QED BY <2>2
  <1>6. i \in Promise!Armed \/ Cardinality(Promise!Armed) < MaxTimers
    BY <1>5, ArmedIsKnown, Zenon
  <1>7. phase # "popping" /\ UNCHANGED <<now, phase, ticked>>
    BY DEF SimAfter
  <1>8. Cardinality(Promise!Armed) = Promise!Cardinality(Promise!Armed)
    BY Zenon DEF Cardinality, Promise!Cardinality
  <1>. QED BY <1>4, <1>6, <1>7, <1>8, Zenon DEF Promise!After

LEMMA CancelRefines ==
  ASSUME IInv, IInv', NEW i \in Ids, SimCancel(i)
  PROVE  Promise!Cancel(i)
  <1> DEFINE f == [Deadlines EXCEPT ![i] = Idle]
  <1>1. f \in [Ids -> Nat \cup {Idle}]
    BY ArmedIsKnown
  <1>2. ASSUME NEW j \in Ids PROVE ShownNext(j, f[j])
    <2>1. CASE j = i
      BY <2>1, ArmedIsKnown DEF ShownNext, SimCancel, IInv, TypeOK
    <2>2. CASE j # i
      <3>1. handleOf'[j] = handleOf[j] /\ heap' = heap
        BY <2>2 DEF SimCancel, IInv, TypeOK
      <3>2. Shown(j, f[j])
        BY <2>2, ArmedIsKnown
      <3>. QED BY <3>1, <3>2 DEF Shown, ShownNext
    <2>. QED BY <2>1, <2>2
  <1>3. Deadlines' = f
    BY <1>1, <1>2, DeadlinesFollow
  <1>. QED BY <1>3, ArmedIsKnown DEF SimCancel, Promise!Cancel

LEMMA FireRefines ==
  ASSUME IInv, IInv', Fire
  PROVE  \E i \in Ids : Promise!Fire(i)
  <1> USE DEF IInv, TypeOK, Consistent, MapsAgree, LiveAreMapped
  <1>1. PICK e \in heap :
          /\ Top(e) /\ ~Dropped(e) /\ Due(e)
          /\ heap' = heap \ {e}
          /\ handleOf' = [i \in Ids |-> IF i \in idsOf[e.handle] THEN 0 ELSE handleOf[i]]
          /\ phase' = IF idsOf[e.handle] = {} THEN "popping" ELSE "callback"
    BY DEF Fire
  <1>2. PICK i \in Ids : i \in idsOf[e.handle]
    BY <1>1
  <1>3. handleOf[i] = e.handle /\ i \in Known
    BY <1>2
  <1>4. Deadlines[i] = e.deadline
    <2>1. PICK g \in heap : g.handle = handleOf[i] /\ g.deadline = Deadlines[i]
      BY <1>3, ArmedIsKnown DEF Shown
    <2>. QED BY <2>1, <1>3
  <1>5. \A j \in Known : Deadlines[i] <= Deadlines[j]
    <2>1. ASSUME NEW j \in Known PROVE e.deadline <= Deadlines[j]
      <3>1. PICK g \in heap : g.handle = handleOf[j] /\ g.deadline = Deadlines[j]
        BY ArmedIsKnown DEF Shown
      <3>. QED BY <3>1, <1>1 DEF Top
    <2>. QED BY <2>1, <1>4
  <1> DEFINE f == [Deadlines EXCEPT ![i] = Idle]
  <1>6. f \in [Ids -> Nat \cup {Idle}]
    BY ArmedIsKnown
  <1>7. ASSUME NEW j \in Ids PROVE ShownNext(j, f[j])
    <2>1. CASE j = i
      BY <2>1, <1>1, <1>2, ArmedIsKnown DEF ShownNext
    <2>2. CASE j # i
      <3>1. j \notin idsOf[e.handle]
        BY <2>2, <1>2
      <3>2. handleOf'[j] = handleOf[j] /\ handleOf[j] # e.handle
        BY <3>1, <1>1
      <3>3. Shown(j, f[j])
        BY <2>2, ArmedIsKnown
      <3>. QED BY <3>2, <3>3, <1>1 DEF Shown, ShownNext
    <2>. QED BY <2>1, <2>2
  <1>8. Deadlines' = f
    BY <1>6, <1>7, DeadlinesFollow
  <1>9. phase = "popping" /\ phase' = "callback" /\ UNCHANGED <<now, ticked>>
    BY <1>1, <1>2 DEF Fire
  <1>10. Deadlines[i] <= now
    BY <1>1, <1>4 DEF Due
  <1>11. Promise!Armed = Known
    BY ArmedIsKnown
  <1>. QED BY <1>3, <1>5, <1>8, <1>9, <1>10, <1>11 DEF Promise!Fire

LEMMA SweepRefines ==
  ASSUME IInv, IInv', Sweep
  PROVE  Deadlines' = Deadlines
  <1> USE DEF IInv, TypeOK, Consistent, MapsAgree, LiveAreMapped
  <1>1. PICK e \in heap : Dropped(e) /\ heap' = heap \ {e}
    BY DEF Sweep
  <1>2. ASSUME NEW j \in Ids PROVE ShownNext(j, Deadlines[j])
    <2>1. handleOf'[j] = handleOf[j]
      BY DEF Sweep, mapVars
    <2>2. handleOf[j] # 0 => handleOf[j] # e.handle
      BY <1>1
    <2>3. Shown(j, Deadlines[j])
      BY ArmedIsKnown
    <2>. QED BY <2>1, <2>2, <2>3, <1>1 DEF Shown, ShownNext
  <1>. QED BY <1>2, ArmedIsKnown, DeadlinesFollow

LEMMA EndTickRefines ==
  ASSUME IInv, EndTick
  PROVE  \A i \in Promise!Armed : Deadlines[i] > now
  <1> SUFFICES ASSUME NEW i \in Known PROVE Deadlines[i] > now
    BY ArmedIsKnown
  <1>1. PICK g \in heap : g.handle = handleOf[i] /\ g.deadline = Deadlines[i]
    BY ArmedIsKnown DEF Shown
  <1>2. PICK e \in heap : Top(e) /\ ~Due(e)
    BY <1>1 DEF EndTick
  <1>3. e.deadline \in Nat /\ g.deadline \in Nat /\ now \in Nat
    BY DEF IInv, TypeOK
  <1>. QED BY <1>1, <1>2, <1>3 DEF Top, Due

(* A step that leaves the heap and the map of handles alone shows the      *)
(* firmware the same deadlines.                                            *)
LEMMA SameDeadlines ==
  ASSUME IInv, IInv', UNCHANGED <<heap, handleOf>>
  PROVE  Deadlines' = Deadlines
  <1>1. ASSUME NEW j \in Ids PROVE ShownNext(j, Deadlines[j])
    BY ArmedIsKnown DEF Shown, ShownNext
  <1>. QED BY <1>1, ArmedIsKnown, DeadlinesFollow

LEMMA InitRefines == Init => Promise!Init
  <1> SUFFICES ASSUME Init PROVE Promise!Init
    OBVIOUS
  <1>1. Deadlines = [i \in Ids |-> Idle]
    BY DEF Init, Known, DeadlineOf, Deadlines
  <1>2. now = 0 /\ phase = "step" /\ ticked = FALSE
    BY Zenon DEF Init
  <1>. QED BY <1>1, <1>2, Zenon DEF Promise!Init

(* Every step of the wheel is a step of the promise, or none.              *)
LEMMA NextRefines ==
  ASSUME IInv, IInv', [Next]_vars
  PROVE  [Promise!Next]_(Promise!vars)
  <1>1. CASE \E i \in Ids, d \in Delays : SimAfter(i, d)
    BY <1>1, AfterRefines, Zenon DEF Promise!Next
  <1>2. CASE \E i \in Ids : SimCancel(i)
    BY <1>2, CancelRefines, Zenon DEF Promise!Next
  <1>3. CASE Fire
    BY <1>3, FireRefines, Zenon DEF Promise!Next
  <1>4. CASE Sweep
    <2>1. UNCHANGED <<now, phase, ticked>>
      BY <1>4 DEF Sweep
    <2>2. Deadlines' = Deadlines
      BY <1>4, SweepRefines
    <2>. QED BY <2>1, <2>2, Zenon DEF Promise!vars
  <1>5. CASE StartTick
    <2>1. Deadlines' = Deadlines
      BY <1>5, SameDeadlines DEF StartTick, wheelVars, mapVars
    <2>2. Promise!StartTick
      BY <1>5, <2>1, Zenon DEF StartTick, Promise!StartTick
    <2>. QED BY <2>2, Zenon DEF Promise!Next
  <1>6. CASE Return
    <2>1. Deadlines' = Deadlines
      BY <1>6, SameDeadlines DEF Return, wheelVars, mapVars
    <2>2. Promise!Return
      BY <1>6, <2>1, Zenon DEF Return, Promise!Return
    <2>. QED BY <2>2, Zenon DEF Promise!Next
  <1>7. CASE EndTick
    <2>1. Deadlines' = Deadlines
      BY <1>7, SameDeadlines DEF EndTick, wheelVars, mapVars
    <2>2. \A i \in Promise!Armed : Deadlines[i] > now
      BY <1>7, EndTickRefines
    <2>3. Promise!EndTick
      BY <1>7, <2>1, <2>2, Zenon DEF EndTick, Promise!EndTick
    <2>. QED BY <2>3, Zenon DEF Promise!Next
  <1>8. CASE Advance
    <2>1. Deadlines' = Deadlines
      BY <1>8, SameDeadlines DEF Advance, wheelVars, mapVars
    <2>2. now' \in Nat /\ now' > now
      BY <1>8, FirmwareTimersAssumption DEF Advance, IInv, TypeOK
    <2>3. Promise!Advance
      BY <1>8, <2>1, <2>2, Zenon DEF Advance, Promise!Advance
    <2>. QED BY <2>3, Zenon DEF Promise!Next
  <1>9. CASE Over \/ UNCHANGED vars
    <2>1. UNCHANGED <<now, phase, ticked, wheelVars, mapVars>>
      BY <1>9 DEF Over, vars
    <2>2. Deadlines' = Deadlines
      BY <2>1, SameDeadlines DEF wheelVars, mapVars
    <2>. QED BY <2>1, <2>2, Zenon DEF Promise!vars
  <1>. QED BY <1>1, <1>2, <1>3, <1>4, <1>5, <1>6, <1>7, <1>8, <1>9, Zenon DEF Next

(* TimerWheel with FirmwareNode's maps implements the promise of NodeTimers *)
(* for any set of ids, any delays and any number of timers.                 *)
THEOREM WheelRefines == Spec => Refines
  BY InitRefines, NextRefines, InvariantHolds, PTL DEF Spec, Refines, Promise!Spec
=============================================================================
