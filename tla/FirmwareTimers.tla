--------------------------- MODULE FirmwareTimers ---------------------------
(***************************************************************************)
(* orchestrator/runtime/TimerWheel and its use by FirmwareNode.  The wheel *)
(* is a heap of entries by deadline; cancelling leaves the entry in the    *)
(* heap and remembers its handle, and the entry is dropped when it reaches *)
(* the top.  FirmwareNode keeps the two maps between the timer ids of the  *)
(* firmware and the handles of the wheel.  Entries with the same deadline  *)
(* leave the heap in any order.                                            *)
(***************************************************************************)
EXTENDS Naturals, FiniteSets

CONSTANTS
  Ids,         \* timer ids of the firmware
  Delays,      \* delays it asks for, ms of node time
  Wall,        \* nodeDelayToWallDelay
  MaxTimers,   \* kMaxTimers
  Idle,        \* NodeTimers: the deadline of a timer that is not armed
  Steps,       \* how far the clock may advance in a step, ms
  MaxHandle,   \* bound: handles given out
  MaxNow       \* bound: simulated time

ASSUME FirmwareTimersAssumption ==
  /\ IsFiniteSet(Ids)
  /\ Wall \in [Delays -> Nat]
  /\ MaxTimers \in Nat
  /\ Idle \notin Nat
  /\ Steps \subseteq Nat \ {0}
  /\ MaxHandle \in Nat /\ MaxNow \in Nat

VARIABLES
  now, phase, ticked,
  heap,        \* TimerWheel::_heap
  cancelled,   \* TimerWheel::_cancelled
  nextHandle,  \* TimerWheel::_next_handle
  handleOf,    \* _id_to_handle, 0 where the id has no handle
  idsOf        \* _handle_to_id, as the set of ids of each handle

wheelVars == <<heap, cancelled, nextHandle>>
mapVars   == <<handleOf, idsOf>>
vars == <<now, phase, ticked, wheelVars, mapVars>>

Handles == 1 .. MaxHandle
Entry == [deadline : Nat, handle : Handles]

Init ==
  /\ now = 0 /\ phase = "step" /\ ticked = FALSE
  /\ heap = {} /\ cancelled = {} /\ nextHandle = 1
  /\ handleOf = [i \in Ids |-> 0]
  /\ idsOf = [h \in Handles |-> {}]
-----------------------------------------------------------------------------
(* The wheel. *)
ScheduleAfter(delay) ==
  /\ heap' = heap \cup {[deadline |-> now + delay, handle |-> nextHandle]}
  /\ nextHandle' = nextHandle + 1

Top(e) == e \in heap /\ \A f \in heap : e.deadline <= f.deadline

Dropped(e) == e.handle \in cancelled
-----------------------------------------------------------------------------
(* FirmwareNode.  simAfter first forgets the pending timer of the same id. *)
Known == { i \in Ids : handleOf[i] # 0 }

RefusedCountingItself(i) == Cardinality(Known) >= MaxTimers

Refused(i) == Cardinality(Known \ {i}) >= MaxTimers

CancelledWith(i) == IF i \in Known THEN cancelled \cup {handleOf[i]} ELSE cancelled

Forgot(i) == IF i \in Known THEN [idsOf EXCEPT ![handleOf[i]] = {}] ELSE idsOf

SimAfter(i, d) ==
  /\ phase # "popping"
  /\ nextHandle <= MaxHandle
  /\ ~Refused(i)
  /\ cancelled' = CancelledWith(i)
  /\ ScheduleAfter(Wall[d])
  /\ handleOf' = [handleOf EXCEPT ![i] = nextHandle]
  /\ idsOf' = [Forgot(i) EXCEPT ![nextHandle] = {i}]
  /\ UNCHANGED <<now, phase, ticked>>

SimCancel(i) ==
  /\ phase # "popping" /\ i \in Known
  /\ cancelled' = CancelledWith(i)
  /\ handleOf' = [handleOf EXCEPT ![i] = 0]
  /\ idsOf' = Forgot(i)
  /\ UNCHANGED <<now, phase, ticked, heap, nextHandle>>
-----------------------------------------------------------------------------
(* tickTimers pops what is due and calls onTimer, in which the firmware    *)
(* may arm and cancel.                                                     *)
StartTick ==
  /\ phase = "step" /\ ~ticked
  /\ phase' = "popping"
  /\ UNCHANGED <<now, ticked, wheelVars, mapVars>>

(* The loop of popDue that drops cancelled entries from the top. *)
Sweep ==
  /\ phase = "popping"
  /\ \E e \in heap : Top(e) /\ Dropped(e) /\ heap' = heap \ {e}
  /\ UNCHANGED <<now, phase, ticked, cancelled, nextHandle, mapVars>>

DueLate(e) == e.deadline < now

Due(e) == e.deadline <= now

Fire ==
  /\ phase = "popping"
  /\ \E e \in heap :
       /\ Top(e) /\ ~Dropped(e) /\ Due(e)
       /\ heap' = heap \ {e}
       /\ idsOf' = [idsOf EXCEPT ![e.handle] = {}]
       /\ handleOf' = [i \in Ids |-> IF i \in idsOf[e.handle] THEN 0 ELSE handleOf[i]]
       /\ phase' = IF idsOf[e.handle] = {} THEN "popping" ELSE "callback"
  /\ UNCHANGED <<now, ticked, cancelled, nextHandle>>

Return ==
  /\ phase = "callback"
  /\ phase' = "popping"
  /\ UNCHANGED <<now, ticked, wheelVars, mapVars>>

EndTick ==
  /\ phase = "popping"
  /\ heap = {} \/ \E e \in heap : Top(e) /\ ~Dropped(e) /\ ~Due(e)
  /\ phase' = "step" /\ ticked' = TRUE
  /\ UNCHANGED <<now, wheelVars, mapVars>>

Advance ==
  /\ phase = "step" /\ ticked
  /\ \E ms \in Steps : now + ms <= MaxNow /\ now' = now + ms
  /\ ticked' = FALSE
  /\ UNCHANGED <<phase, wheelVars, mapVars>>

(* The run is over. *)
Over ==
  /\ phase = "step" /\ ticked /\ \A ms \in Steps : now + ms > MaxNow
  /\ UNCHANGED vars

Next ==
  \/ \E i \in Ids : (\E d \in Delays : SimAfter(i, d)) \/ SimCancel(i)
  \/ StartTick \/ Sweep \/ Fire \/ Return \/ EndTick \/ Advance \/ Over

Spec == Init /\ [][Next]_vars
-----------------------------------------------------------------------------
(* Every variable has its type. *)
TypeOK ==
  /\ now \in Nat /\ phase \in {"step", "popping", "callback"} /\ ticked \in BOOLEAN
  /\ heap \subseteq Entry /\ cancelled \subseteq Handles /\ nextHandle \in 1 .. MaxHandle + 1
  /\ handleOf \in [Ids -> 0 .. MaxHandle]
  /\ idsOf \in [Handles -> SUBSET Ids]

(* The two maps are inverse to each other; the wheel holds exactly one     *)
(* live entry for each armed timer, and every other entry of the heap is a *)
(* cancelled one: no timer is lost, doubled or fired for a stale handle.   *)
MapsAgree ==
  /\ \A i \in Ids, h \in Handles : handleOf[i] = h <=> i \in idsOf[h]
  /\ \A h \in Handles : \A i, j \in idsOf[h] : i = j

LiveAreMapped ==
  /\ \A h \in Handles : idsOf[h] # {} => h \notin cancelled /\ \E e \in heap : e.handle = h
  /\ \A e \in heap : Dropped(e) \/ idsOf[e.handle] # {}
  /\ \A e, f \in heap : e.handle = f.handle => e = f

HandlesAreFresh ==
  /\ \A e \in heap : e.handle < nextHandle
  /\ \A h \in cancelled : h < nextHandle

Consistent == MapsAgree /\ LiveAreMapped /\ HandlesAreFresh

(* The timers the firmware sees. *)
DeadlineOf(i) ==
  IF i \in Known THEN (CHOOSE e \in heap : e.handle = handleOf[i]).deadline ELSE Idle

Deadlines == [i \in Ids |-> DeadlineOf(i)]

Promise == INSTANCE NodeTimers WITH deadline <- Deadlines

(* The wheel with its lazy cancellation keeps the promise: a timer fires   *)
(* once, in order, at the first tick that reaches its deadline, never      *)
(* after a cancellation and never at the deadline it had before a re-arm.  *)
Refines == Promise!Spec
=============================================================================
