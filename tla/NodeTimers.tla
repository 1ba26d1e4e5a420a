----------------------------- MODULE NodeTimers -----------------------------
(***************************************************************************)
(* What a node's firmware is promised of its timers (Hal::after, cancel    *)
(* and onTimer): an armed timer is cancelled, re-armed or fired, once, in  *)
(* the order of the deadlines, at the first tick that reaches its deadline.*)
(***************************************************************************)
EXTENDS Naturals, FiniteSets

CONSTANTS
  Ids,         \* timer ids of the firmware
  Delays,      \* delays it asks for, ms of node time
  Wall,        \* nodeDelayToWallDelay
  MaxTimers,   \* kMaxTimers
  Idle         \* the deadline of a timer that is not armed

VARIABLES
  now,       \* the virtual clock, ms
  phase,     \* "step", or within tickTimers "popping" or "callback"
  ticked,    \* the timers of this step have been ticked
  deadline   \* deadline of each armed timer, or Idle

vars == <<now, phase, ticked, deadline>>

Armed == { i \in Ids : deadline[i] # Idle }

Init ==
  /\ now = 0 /\ phase = "step" /\ ticked = FALSE
  /\ deadline = [i \in Ids |-> Idle]

(* The firmware runs outside of tickTimers, and in onTimer.  Only a new    *)
(* timer can be refused, and only when MaxTimers are armed.                *)
After(i, d) ==
  /\ phase # "popping"
  /\ i \in Armed \/ Cardinality(Armed) < MaxTimers
  /\ deadline' = [deadline EXCEPT ![i] = now + Wall[d]]
  /\ UNCHANGED <<now, phase, ticked>>

Cancel(i) ==
  /\ phase # "popping" /\ i \in Armed
  /\ deadline' = [deadline EXCEPT ![i] = Idle]
  /\ UNCHANGED <<now, phase, ticked>>

StartTick ==
  /\ phase = "step" /\ ~ticked
  /\ phase' = "popping"
  /\ UNCHANGED <<now, ticked, deadline>>

Fire(i) ==
  /\ phase = "popping" /\ i \in Armed
  /\ deadline[i] <= now
  /\ \A j \in Armed : deadline[i] <= deadline[j]
  /\ deadline' = [deadline EXCEPT ![i] = Idle]
  /\ phase' = "callback"
  /\ UNCHANGED <<now, ticked>>

Return ==
  /\ phase = "callback"
  /\ phase' = "popping"
  /\ UNCHANGED <<now, ticked, deadline>>

EndTick ==
  /\ phase = "popping"
  /\ \A i \in Armed : deadline[i] > now
  /\ phase' = "step" /\ ticked' = TRUE
  /\ UNCHANGED <<now, deadline>>

Advance ==
  /\ phase = "step" /\ ticked
  /\ now' \in Nat /\ now' > now
  /\ ticked' = FALSE
  /\ UNCHANGED <<phase, deadline>>

Next ==
  \/ \E i \in Ids : (\E d \in Delays : After(i, d)) \/ Cancel(i) \/ Fire(i)
  \/ StartTick \/ Return \/ EndTick \/ Advance

Spec == Init /\ [][Next]_vars
=============================================================================
