------------------------ MODULE Simulations_proofs ------------------------
(***************************************************************************)
(* Proofs about the simulations of the web server.  First, for any number  *)
(* of simulations, slots, SSE connections, restarts and failing writes, of *)
(* what the registry of sim_manager promises: what a simulation is shown   *)
(* as, what is on its disk, where its task is and what its lus does hang   *)
(* together (Honest); the rest is counting slots and the order of the      *)
(* semaphore's queue.  Then, for any number of simulations, views, cache   *)
(* sizes, events and ticks, that the two LRU caches hold the simulations   *)
(* used last and that no answer misses an event that the file had when it  *)
(* was asked for.                                                          *)
(***************************************************************************)
EXTENDS SimManager, WebCache, SequenceTheorems, FiniteSetTheorems, TLAPS

Busy == {"spawning", "running", "draining"}

(* One simulation whose status could always be written and whose directory *)
(* no crash left half made.                                                *)
Faithful(s) ==
  /\ disk[s] # Unwritten
  /\ registry[s] = "completed" <=> disk[s] = "completed"
  /\ registry[s] = "completed" => events[s] = "whole" /\ proc[s] \in {"ok", "none"}
  /\ registry[s] = "completed" /\ proc[s] = "none" => pc[s] \notin {"created", "queued", "spawning"}
  /\ registry[s] # Absent /\ proc[s] = "simulating" => events[s] = "part"
  /\ registry[s] # Absent /\ proc[s] = "ok" => events[s] = "whole"

(* The record, the directory, the task and the process of one simulation.  *)
Honest(s) ==
  /\ registry[s] = Absent <=> disk[s] = Absent
  /\ registry[s] = "running" => pc[s] \in Busy
  /\ registry[s] = "pending" => pc[s] \in {"created", "queued"}
  /\ proc[s] # "none" => pc[s] \in Busy \cup {"done"}
  /\ s \in ours => registry[s] # Absent
  /\ s \in ours /\ pc[s] \in Busy => registry[s] = "running"
  /\ s \notin ours /\ pc[s] \in Busy \cup {"queued"} => registry[s] \notin Active
  /\ s \notin cut \cup Unsavable => Faithful(s)

AllHonest == \A s \in Sims : Honest(s)

Slots == IsFiniteSet(Holding) /\ Cardinality(Holding) <= MaxConcurrent

(* The semaphore's queue holds the queued tasks, each once.                *)
Queue ==
  /\ \A s \in Sims : pc[s] = "queued" <=> \E k \in DOMAIN waiters : waiters[k] = s
  /\ \A j, k \in DOMAIN waiters : waiters[j] = waiters[k] => j = k

RegOK ==
  /\ registry \in [Sims -> Status \cup {Absent}]
  /\ disk \in [Sims -> Status \cup {Absent, Unwritten, Torn}]
  /\ events \in [Sims -> {"none", "part", "whole"}]
  /\ pc \in [Sims -> {"none", "created", "queued", "spawning", "running", "draining", "done"}]
  /\ ours \subseteq Sims /\ waiters \in Seq(Sims)
  /\ proc \in [Sims -> {"none", "loading", "simulating", "ok", "err"}]

-----------------------------------------------------------------------------
LEMMA Markers ==
  /\ Absent \notin Status /\ Unwritten \notin Status /\ Torn \notin Status
  /\ Absent # Unwritten /\ Absent # Torn /\ Unwritten # Torn
  /\ Absent # "completed" /\ Unwritten # "completed" /\ Torn # "completed"
  /\ "completed" \in Status
BY SimManagerAssumption DEF Status, Terminal

(* What saving a status does to the disk.                                  *)
LEMMA Saved ==
  ASSUME NEW s \in Sims, RegOK, registry' \in [Sims -> Status \cup {Absent}], SaveStatus(s)
  PROVE  /\ disk' \in [Sims -> Status \cup {Absent, Unwritten, Torn}]
         /\ \A t \in Sims \ {s} : disk'[t] = disk[t]
         /\ registry'[s] = Absent => disk'[s] = disk[s]
         /\ registry'[s] # Absent => disk'[s] # Absent
         /\ registry'[s] # Absent /\ s \notin Unsavable => disk'[s] = registry'[s]
<1>1. CASE registry'[s] = Absent
  BY <1>1 DEF SaveStatus, RegOK
<1>2. CASE registry'[s] # Absent
  <2>1. registry'[s] \in Status
    BY <1>2
  <2>2. CASE disk' = [disk EXCEPT ![s] = registry'[s]]
    BY <1>2, <2>1, <2>2 DEF RegOK
  <2>3. CASE s \in Unsavable /\ \E d \in {IF disk[s] = Absent THEN Unwritten ELSE disk[s], Torn} :
                                  disk' = [disk EXCEPT ![s] = d]
    <3>1. PICK d \in {IF disk[s] = Absent THEN Unwritten ELSE disk[s], Torn} :
            disk' = [disk EXCEPT ![s] = d]
      BY <2>3
    <3>2. d # Absent /\ d \in Status \cup {Absent, Unwritten, Torn}
      BY Markers DEF RegOK
    <3> QED
      BY <1>2, <2>3, <3>1, <3>2 DEF RegOK
  <2> QED
    BY <1>2, <2>2, <2>3 DEF SaveStatus
<1> QED
  BY <1>1, <1>2

(* What a scan makes of a directory.                                       *)
LEMMA Scans ==
  ASSUME NEW status \in Status \cup {Absent, Unwritten, Torn}, NEW kept
  PROVE  /\ Scanned(status, kept) \in Terminal \cup {Absent}
         /\ Scanned(status, kept) = Absent <=> status = Absent
         /\ status # Unwritten => (Scanned(status, kept) = "completed" <=> status = "completed")
<1>1. \/ status = Absent \/ status = Unwritten \/ status = Torn
      \/ status \in Active \/ status \in Terminal
  BY DEF Status
<1>2. "failed" # Absent /\ "completed" # Absent
  BY Markers DEF Status, Terminal
<1> QED
  BY <1>1, <1>2, Markers DEF Scanned, Status, Active, Terminal

(* A simulation that a step does not touch stays honest.                   *)
LEMMA Untouched ==
  ASSUME NEW t, Honest(t),
         registry'[t] = registry[t], disk'[t] = disk[t], events'[t] = events[t],
         pc'[t] = pc[t], proc'[t] = proc[t], t \in ours' <=> t \in ours, t \in cut => t \in cut'
  PROVE  Honest(t)'
BY DEF Honest, Faithful

-----------------------------------------------------------------------------
(* What setting a status does to the registry. *)
LEMMA SetStatusType ==
  ASSUME NEW s \in Sims, RegOK, NEW status \in Status, SetStatus(s, status)
  PROVE  /\ registry' \in [Sims -> Status \cup {Absent}]
         /\ \A t \in Sims \ {s} : registry'[t] = registry[t]
         /\ registry'[s] = IF s \in ours' THEN status ELSE registry[s]
BY DEF SetStatus, RegOK

LEMMA Outcomes == \A s : Outcome(s) \in Status /\ Outcome(s) \in Terminal
BY DEF Outcome, Status, Terminal

-----------------------------------------------------------------------------
(* Every step of a simulation keeps all simulations honest.                *)

LEMMA CreateStep ==
  ASSUME RegOK, AllHonest, NEW s \in Sims, CreateSim(s)
  PROVE  RegOK' /\ AllHonest'
<1>1. /\ registry[s] = Absent /\ disk[s] = Absent /\ pc[s] = "none" /\ proc[s] = "none"
      /\ registry' = [registry EXCEPT ![s] = "pending"]
      /\ pc' = [pc EXCEPT ![s] = "created"]
      /\ UNCHANGED <<ours, waiters, events, proc, cut>>
      /\ SaveStatus(s)
  BY DEF CreateSim, Fresh, lusVars
<1>2. "pending" \in Status /\ "pending" # Absent /\ "pending" # "completed"
  BY Markers DEF Status, Active
<1>3. registry' \in [Sims -> Status \cup {Absent}] /\ registry'[s] = "pending"
  BY <1>1, <1>2 DEF RegOK
<1>4. /\ disk' \in [Sims -> Status \cup {Absent, Unwritten, Torn}]
      /\ \A t \in Sims \ {s} : disk'[t] = disk[t]
      /\ disk'[s] # Absent
      /\ s \notin Unsavable => disk'[s] = "pending"
  BY <1>1, <1>2, <1>3, Saved
<1>5. RegOK'
  BY <1>1, <1>3, <1>4 DEF RegOK
<1>6. \A t \in Sims \ {s} : Honest(t)'
  BY <1>1, <1>4, Untouched DEF RegOK, AllHonest
<1>7. Honest(s)'
  <2>1. /\ registry'[s] = "pending" /\ pc'[s] = "created" /\ proc'[s] = "none"
        /\ s \notin ours' /\ cut' = cut
    BY <1>1, <1>3 DEF AllHonest, Honest, RegOK
  <2>2. s \notin Unsavable => Faithful(s)'
    BY <1>2, <1>4, <2>1, Markers DEF Faithful
  <2> QED
    BY <1>2, <1>4, <2>1, <2>2 DEF Honest, Busy
<1> QED
  BY <1>5, <1>6, <1>7 DEF AllHonest

LEMMA ImportStep ==
  ASSUME RegOK, AllHonest, NEW s \in Sims, ImportSim(s)
  PROVE  RegOK' /\ AllHonest'
<1>1. /\ registry[s] = Absent /\ disk[s] = Absent /\ pc[s] = "none" /\ proc[s] = "none"
      /\ registry' = [registry EXCEPT ![s] = "completed"]
      /\ events' = [events EXCEPT ![s] = "whole"]
      /\ UNCHANGED <<ours, waiters, pc, proc, cut>>
      /\ SaveStatus(s)
  BY DEF ImportSim, Fresh, lusVars, taskVars
<1>2. registry' \in [Sims -> Status \cup {Absent}] /\ registry'[s] = "completed"
  BY <1>1, Markers DEF RegOK
<1>3. /\ disk' \in [Sims -> Status \cup {Absent, Unwritten, Torn}]
      /\ \A t \in Sims \ {s} : disk'[t] = disk[t]
      /\ disk'[s] # Absent
      /\ s \notin Unsavable => disk'[s] = "completed"
  BY <1>1, <1>2, Markers, Saved
<1>4. RegOK'
  BY <1>1, <1>2, <1>3 DEF RegOK
<1>5. \A t \in Sims \ {s} : Honest(t)'
  BY <1>1, <1>3, Untouched DEF RegOK, AllHonest
<1>6. Honest(s)'
  <2>1. /\ pc'[s] = "none" /\ proc'[s] = "none" /\ events'[s] = "whole"
        /\ s \notin ours' /\ cut' = cut
    BY <1>1 DEF AllHonest, Honest, RegOK
  <2>2. s \notin Unsavable => Faithful(s)'
    BY <1>2, <1>3, <2>1, Markers DEF Faithful
  <2> QED
    BY <1>2, <1>3, <2>1, <2>2, Markers DEF Honest, Busy
<1> QED
  BY <1>4, <1>5, <1>6 DEF AllHonest

(* The first step inside the semaphore. *)
LEMMA BeginStep ==
  ASSUME RegOK, AllHonest, NEW s \in Sims, Begin(s), ours' \subseteq Sims,
         proc[s] = "none", pc[s] \in {"created", "queued"},
         s \notin ours' => registry[s] \notin Active,
         s \in ours' => registry[s] # Absent,
         \A t \in Sims \ {s} : t \in ours' <=> t \in ours,
         waiters' \in Seq(Sims), UNCHANGED <<events, proc, cut>>
  PROVE  RegOK' /\ AllHonest'
<1>1. pc' = [pc EXCEPT ![s] = "spawning"] /\ SetStatus(s, "running") /\ SaveStatus(s)
  BY DEF Begin
<1>2. "running" \in Status /\ "running" # Absent /\ "running" # "completed"
  BY Markers DEF Status, Active
<1>3. /\ registry' \in [Sims -> Status \cup {Absent}]
      /\ \A t \in Sims \ {s} : registry'[t] = registry[t]
      /\ registry'[s] = IF s \in ours' THEN "running" ELSE registry[s]
  BY <1>1, <1>2, SetStatusType
<1>4. /\ disk' \in [Sims -> Status \cup {Absent, Unwritten, Torn}]
      /\ \A t \in Sims \ {s} : disk'[t] = disk[t]
      /\ registry'[s] = Absent => disk'[s] = disk[s]
      /\ registry'[s] # Absent => disk'[s] # Absent
      /\ registry'[s] # Absent /\ s \notin Unsavable => disk'[s] = registry'[s]
  BY <1>1, <1>3, Saved
<1>5. RegOK'
  BY <1>1, <1>3, <1>4 DEF RegOK
<1>6. \A t \in Sims \ {s} : Honest(t)'
  BY <1>1, <1>3, <1>4, Untouched DEF RegOK, AllHonest
<1>7. Honest(s)'
  <2>1. pc'[s] = "spawning" /\ proc'[s] = "none"
    BY <1>1 DEF RegOK
  <2>2. ASSUME s \notin cut' \cup Unsavable PROVE Faithful(s)'
    <3>1. Faithful(s)
      BY <2>2 DEF AllHonest, Honest
    <3>2. registry'[s] # "completed"
      BY <1>2, <1>3, <3>1 DEF Faithful
    <3>3. disk'[s] # "completed" /\ disk'[s] # Unwritten
      BY <1>3, <1>4, <2>2, <3>1, <3>2, Markers DEF Faithful
    <3> QED
      BY <2>1, <3>2, <3>3 DEF Faithful
  <2>3. registry'[s] = Absent <=> disk'[s] = Absent
    BY <1>2, <1>3, <1>4 DEF AllHonest, Honest
  <2>4. registry'[s] # "pending"
    BY <1>3 DEF Active
  <2> QED
    BY <1>2, <1>3, <2>1, <2>2, <2>3, <2>4 DEF Honest, Busy
<1> QED
  BY <1>5, <1>6, <1>7 DEF AllHonest

LEMMA StartTaskStep ==
  ASSUME RegOK, AllHonest, NEW s \in Sims, StartTask(s)
  PROVE  RegOK' /\ AllHonest'
<1>1. pc[s] = "created" /\ proc[s] = "none" /\ UNCHANGED <<events, proc, cut>>
  BY DEF StartTask, AllHonest, Honest, Busy, lusVars
<1>2. CASE registry[s] = Absent /\ pc' = [pc EXCEPT ![s] = "done"]
             /\ UNCHANGED <<ours, waiters, registry, disk>>
  <2>1. RegOK'
    BY <1>1, <1>2 DEF RegOK
  <2>2. \A t \in Sims \ {s} : Honest(t)'
    BY <1>1, <1>2, Untouched DEF RegOK, AllHonest
  <2>3. Honest(s)'
    <3>1. pc'[s] = "done"
      BY <1>2 DEF RegOK
    <3> QED
      BY <1>1, <1>2, <3>1, Markers DEF AllHonest, Honest, Faithful, Busy, Status, Active
  <2> QED
    BY <2>1, <2>2, <2>3 DEF AllHonest
<1>3. CASE registry[s] # Absent /\ ours' = ours \cup {s} /\ Begin(s) /\ UNCHANGED waiters
  <2>1. waiters' \in Seq(Sims) /\ ours' \subseteq Sims
    BY <1>3 DEF RegOK
  <2> QED
    BY <1>1, <1>3, <2>1, BeginStep
<1>4. CASE /\ registry[s] # Absent /\ ours' = ours \cup {s}
           /\ pc' = [pc EXCEPT ![s] = "queued"] /\ waiters' = Append(waiters, s)
           /\ UNCHANGED <<registry, disk>>
  <2>1. RegOK'
    BY <1>1, <1>4 DEF RegOK
  <2>2. \A t \in Sims \ {s} : Honest(t)'
    BY <1>1, <1>4, Untouched DEF RegOK, AllHonest
  <2>3. Honest(s)'
    <3>1. pc'[s] = "queued" /\ s \in ours'
      BY <1>4 DEF RegOK
    <3> QED
      BY <1>1, <1>4, <3>1 DEF AllHonest, Honest, Faithful, Busy
  <2> QED
    BY <2>1, <2>2, <2>3 DEF AllHonest
<1> QED
  BY <1>2, <1>3, <1>4 DEF StartTask

LEMMA AcquireStep ==
  ASSUME RegOK, AllHonest, Queue, Acquire
  PROVE  RegOK' /\ AllHonest'
<1> DEFINE s == Head(waiters)
<1>1. /\ waiters # <<>> /\ waiters' = Tail(waiters) /\ Begin(s)
      /\ UNCHANGED <<ours, events, proc, cut>>
  BY DEF Acquire, lusVars
<1>2. s \in Sims /\ waiters' \in Seq(Sims) /\ s = waiters[1] /\ 1 \in DOMAIN waiters
  BY <1>1 DEF RegOK
<1> HIDE DEF s
<1>3. pc[s] = "queued"
  BY <1>2 DEF Queue
<1>4. /\ proc[s] = "none"
      /\ s \notin ours => registry[s] \notin Active
      /\ s \in ours => registry[s] # Absent
  BY <1>2, <1>3 DEF AllHonest, Honest, Busy
<1>5. ours' \subseteq Sims
  BY <1>1 DEF RegOK
<1> QED
  BY <1>1, <1>2, <1>3, <1>4, <1>5, BeginStep

(* lus is started, reaped, and does its work. *)
LEMMA ProcessStep ==
  ASSUME RegOK, AllHonest, NEW s \in Sims,
         Fork(s) \/ Spawned(s) \/ Waited(s) \/ LusOpens(s) \/ LusExits(s)
  PROVE  RegOK' /\ AllHonest'
<1>1. UNCHANGED <<registry, disk, ours, waiters, cut>>
  BY DEF Fork, Spawned, Waited, LusOpens, LusExits, taskVars
<1>2. Honest(s) /\ registry[s] \in Status \cup {Absent}
  BY DEF AllHonest, RegOK
<1>3. CASE Fork(s)
  <2>1. /\ pc[s] = "spawning" /\ proc[s] = "none" /\ proc' = [proc EXCEPT ![s] = "loading"]
        /\ UNCHANGED <<pc, events>>
    BY <1>3 DEF Fork, taskVars
  <2>2. RegOK' /\ \A t \in Sims \ {s} : Honest(t)'
    BY <1>1, <2>1, Untouched DEF RegOK, AllHonest
  <2>3. proc'[s] = "loading"
    BY <2>1 DEF RegOK
  <2>4. Honest(s)'
    BY <1>1, <1>2, <2>1, <2>3 DEF Honest, Faithful, Busy
  <2> QED
    BY <2>2, <2>4 DEF AllHonest
<1>4. CASE Spawned(s) \/ Waited(s)
  <2>1. PICK next \in {"running", "draining"} : pc' = [pc EXCEPT ![s] = next]
    BY <1>4 DEF Spawned, Waited
  <2>2. pc[s] \in Busy /\ proc[s] # "none" /\ UNCHANGED <<proc, events>>
    BY <1>4 DEF Spawned, Waited, Busy, lusVars, Exited
  <2>3. RegOK' /\ \A t \in Sims \ {s} : Honest(t)'
    BY <1>1, <2>1, <2>2, Untouched DEF RegOK, AllHonest
  <2>4. pc'[s] = next
    BY <2>1 DEF RegOK
  <2>5. Honest(s)'
    BY <1>1, <1>2, <2>2, <2>4 DEF Honest, Faithful, Busy
  <2> QED
    BY <2>3, <2>5 DEF AllHonest
<1>5. CASE LusOpens(s)
  <2>1. /\ proc[s] = "loading" /\ disk[s] # Absent /\ UNCHANGED pc
        /\ proc' = [proc EXCEPT ![s] = "simulating"] /\ events' = [events EXCEPT ![s] = "part"]
    BY <1>5 DEF LusOpens, taskVars
  <2>2. RegOK' /\ \A t \in Sims \ {s} : Honest(t)'
    BY <1>1, <2>1, Untouched DEF RegOK, AllHonest
  <2>3. proc'[s] = "simulating" /\ events'[s] = "part"
    BY <2>1 DEF RegOK
  <2>4. Honest(s)'
    BY <1>1, <1>2, <2>1, <2>3 DEF Honest, Faithful, Busy
  <2> QED
    BY <2>2, <2>4 DEF AllHonest
<1>6. CASE LusExits(s)
  <2>1. /\ UNCHANGED pc /\ proc[s] \in {"loading", "simulating"}
        /\ \/ proc' = [proc EXCEPT ![s] = "err"] /\ UNCHANGED events
           \/ /\ proc[s] = "simulating" /\ proc' = [proc EXCEPT ![s] = "ok"]
              /\ events' = [events EXCEPT ![s] = IF events[s] = "part" THEN "whole" ELSE events[s]]
    BY <1>6 DEF LusExits, taskVars
  <2>2. RegOK' /\ \A t \in Sims \ {s} : Honest(t)'
    BY <1>1, <2>1, Untouched DEF RegOK, AllHonest
  <2>3. \/ proc'[s] = "err" /\ events'[s] = events[s]
        \/ /\ proc[s] = "simulating" /\ proc'[s] = "ok"
           /\ events'[s] = IF events[s] = "part" THEN "whole" ELSE events[s]
    BY <2>1 DEF RegOK
  <2>4. Honest(s)'
    BY <1>1, <1>2, <2>1, <2>3 DEF Honest, Faithful, Busy
  <2> QED
    BY <2>2, <2>4 DEF AllHonest
<1> QED
  BY <1>3, <1>4, <1>5, <1>6

(* The end of _run_sim, after lus or without it. *)
LEMMA SettleStep ==
  ASSUME RegOK, AllHonest, NEW s \in Sims, Finish(s) \/ SpawnFails(s)
  PROVE  RegOK' /\ AllHonest'
<1>1. /\ pc[s] \in Busy /\ (pc[s] = "spawning" => proc[s] = "none")
      /\ SetStatus(s, Outcome(s)) /\ SaveStatus(s) /\ pc' = [pc EXCEPT ![s] = "done"]
      /\ UNCHANGED <<ours, waiters, events, proc, cut>>
  BY DEF Finish, SpawnFails, Settle, Busy, lusVars
<1>2. /\ registry' \in [Sims -> Status \cup {Absent}]
      /\ \A t \in Sims \ {s} : registry'[t] = registry[t]
      /\ registry'[s] = IF s \in ours' THEN Outcome(s) ELSE registry[s]
  BY <1>1, Outcomes, SetStatusType
<1>3. /\ disk' \in [Sims -> Status \cup {Absent, Unwritten, Torn}]
      /\ \A t \in Sims \ {s} : disk'[t] = disk[t]
      /\ registry'[s] = Absent => disk'[s] = disk[s]
      /\ registry'[s] # Absent => disk'[s] # Absent
      /\ registry'[s] # Absent /\ s \notin Unsavable => disk'[s] = registry'[s]
  BY <1>1, <1>2, Saved
<1>4. RegOK'
  BY <1>1, <1>2, <1>3 DEF RegOK
<1>5. \A t \in Sims \ {s} : Honest(t)'
  BY <1>1, <1>2, <1>3, Untouched DEF RegOK, AllHonest
<1>6. Honest(s)'
  <2>1. pc'[s] = "done" /\ Honest(s)
    BY <1>1 DEF RegOK, AllHonest
  <2>2. registry'[s] = Absent <=> registry[s] = Absent
    BY <1>1, <1>2, <2>1, Outcomes, Markers DEF Honest
  <2>3. registry'[s] \notin Active
    BY <1>1, <1>2, <2>1, Outcomes DEF Honest, Active, Terminal
  <2>4. ASSUME s \notin cut' \cup Unsavable PROVE Faithful(s)'
    <3>1. Faithful(s)
      BY <1>1, <2>1, <2>4 DEF Honest
    <3>2. registry'[s] # Absent => disk'[s] = registry'[s]
      BY <1>3, <2>4
    <3>3. CASE registry'[s] = Absent
      BY <1>1, <1>3, <2>1, <2>2, <3>1, <3>3, Markers DEF Honest, Faithful
    <3>4. CASE registry'[s] # Absent /\ s \notin ours
      BY <1>1, <1>2, <2>1, <3>1, <3>2, <3>4, Markers DEF Faithful, RegOK
    <3>5. CASE registry'[s] # Absent /\ s \in ours
      <4>1. registry'[s] = Outcome(s) /\ disk'[s] = Outcome(s) /\ registry[s] # Absent
        BY <1>1, <1>2, <2>2, <3>2, <3>5
      <4> QED
        BY <1>1, <2>1, <3>1, <4>1, Outcomes, Markers DEF Faithful, Outcome
    <3> QED
      BY <3>3, <3>4, <3>5
  <2> QED
    BY <1>1, <1>3, <2>1, <2>2, <2>3, <2>4 DEF Honest, Busy, Active
<1> QED
  BY <1>4, <1>5, <1>6 DEF AllHonest

LEMMA DeleteStep ==
  ASSUME RegOK, AllHonest, NEW s \in Sims, DeleteSim(s)
  PROVE  RegOK' /\ AllHonest'
<1>1. /\ registry' = [registry EXCEPT ![s] = Absent] /\ ours' = ours \ {s}
      /\ disk' = [disk EXCEPT ![s] = Absent] /\ events' = [events EXCEPT ![s] = "none"]
      /\ UNCHANGED <<pc, waiters, proc, cut>>
  BY DEF DeleteSim
<1>2. RegOK' /\ \A t \in Sims \ {s} : Honest(t)'
  BY <1>1, Untouched DEF RegOK, AllHonest
<1>3. registry'[s] = Absent /\ disk'[s] = Absent /\ s \notin ours'
  BY <1>1 DEF RegOK
<1>4. Honest(s)'
  <2>1. Absent \notin Active
    BY Markers DEF Status
  <2> QED
    BY <1>1, <1>3, <2>1, Markers DEF AllHonest, Honest, Faithful, Active
<1> QED
  BY <1>2, <1>4 DEF AllHonest

(* A rescan while the server runs. *)
LEMMA ExportStep ==
  ASSUME RegOK, AllHonest, NEW s \in Sims, Export(s)
  PROVE  RegOK' /\ AllHonest'
<1>1. /\ registry[s] = Absent /\ pc[s] = "none" /\ proc[s] = "none"
      /\ disk' = [disk EXCEPT ![s] = "completed"] /\ events' = [events EXCEPT ![s] = "whole"]
      /\ registry' = [x \in Sims |-> IF disk'[x] = Absent THEN registry[x]
                                     ELSE Scanned(disk'[x], events'[x])]
      /\ ours' = { x \in ours : disk'[x] = Absent }
      /\ UNCHANGED <<pc, waiters, proc, cut>>
  BY DEF Export, Fresh, lusVars
<1>2. /\ disk' \in [Sims -> Status \cup {Absent, Unwritten, Torn}]
      /\ events' \in [Sims -> {"none", "part", "whole"}]
      /\ disk'[s] = "completed" /\ events'[s] = "whole"
      /\ \A t \in Sims \ {s} : disk'[t] = disk[t] /\ events'[t] = events[t]
  BY <1>1, Markers DEF RegOK
<1>3. \A t \in Sims : disk'[t] # Absent =>
        /\ registry'[t] \in Terminal \cup {Absent} /\ registry'[t] # Absent
        /\ disk'[t] # Unwritten => (registry'[t] = "completed" <=> disk'[t] = "completed")
  BY <1>1, <1>2, Scans
<1>4. RegOK'
  <2>1. \A t \in Sims : registry'[t] \in Status \cup {Absent}
    BY <1>1, <1>3 DEF RegOK, Status
  <2> QED
    BY <1>1, <1>2, <2>1 DEF RegOK
<1>5. ASSUME NEW t \in Sims PROVE Honest(t)'
  <2>1. Honest(t)
    BY DEF AllHonest
  <2>2. CASE disk'[t] = Absent
    <3>1. t # s /\ disk[t] = Absent /\ registry'[t] = registry[t]
      BY <1>1, <1>2, <2>2, Markers
    <3> QED
      BY <1>1, <1>2, <2>1, <2>2, <3>1, Untouched
  <2>3. CASE disk'[t] # Absent
    <3>1. t \notin ours' /\ registry'[t] \in Terminal /\ registry'[t] # Absent
      BY <1>1, <1>3, <2>3
    <3>2. ASSUME t \notin cut' \cup Unsavable PROVE Faithful(t)'
      <4>1. CASE t = s
        BY <1>1, <1>2, <1>3, <2>3, <4>1, Markers DEF Faithful
      <4>2. CASE t # s
        <5>1. Faithful(t) /\ disk[t] # Absent /\ registry[t] # Absent
          BY <1>1, <1>2, <2>1, <2>3, <3>2, <4>2 DEF Honest
        <5>2. registry'[t] = "completed" <=> registry[t] = "completed"
          BY <1>2, <1>3, <2>3, <4>2, <5>1 DEF Faithful
        <5> QED
          BY <1>1, <1>2, <4>2, <5>1, <5>2 DEF Faithful
      <4> QED
        BY <4>1, <4>2
    <3> QED
      BY <1>1, <2>1, <2>3, <3>1, <3>2 DEF Honest, Active, Terminal
  <2> QED
    BY <2>2, <2>3
<1> QED
  BY <1>4, <1>5 DEF AllHonest

LEMMA LeftoverTypes ==
  ASSUME RegOK, NEW s \in Sims, NEW x \in Leftovers(s)
  PROVE  /\ x[1] \in Status \cup {Absent, Unwritten, Torn}
         /\ x[2] \in {"none", "part", "whole"}
<1>1. disk[s] \in Status \cup {Absent, Unwritten, Torn} /\ events[s] \in {"none", "part", "whole"}
  BY DEF RegOK
<1>2. "cancelled" \in Status
  BY DEF Status, Terminal
<1>3. \/ x \in {Unwritten, Torn} \X {"none", "whole"} \cup {<<Unwritten, "part">>}
      \/ x = <<Torn, events[s]>>
      \/ x \in {IF Registered(s) THEN "cancelled" ELSE disk[s], Unwritten} \X {events[s], "none"}
  BY DEF Leftovers
<1> QED
  BY <1>1, <1>2, <1>3

(* What a crash in the middle of a write does to the disk.                 *)
LEMMA Crash ==
  ASSUME RegOK, Restart
  PROVE  /\ disk' \in [Sims -> Status \cup {Absent, Unwritten, Torn}]
         /\ events' \in [Sims -> {"none", "part", "whole"}]
         /\ cut \subseteq cut'
         /\ \A t \in Sims \ cut' : disk'[t] = disk[t] /\ events'[t] = events[t]
<1>1. CASE UNCHANGED <<disk, events, cut>>
  BY <1>1 DEF RegOK
<1>2. CASE \E s \in Sims : \E x \in Leftovers(s) :
             /\ disk' = [disk EXCEPT ![s] = x[1]]
             /\ events' = [events EXCEPT ![s] = x[2]]
             /\ cut' = cut \cup {s}
  <2> PICK s \in Sims : \E x \in Leftovers(s) :
             /\ disk' = [disk EXCEPT ![s] = x[1]]
             /\ events' = [events EXCEPT ![s] = x[2]]
             /\ cut' = cut \cup {s}
    BY <1>2
  <2>1. PICK x \in Leftovers(s) :
             /\ disk' = [disk EXCEPT ![s] = x[1]]
             /\ events' = [events EXCEPT ![s] = x[2]]
             /\ cut' = cut \cup {s}
    OBVIOUS
  <2>2. /\ x[1] \in Status \cup {Absent, Unwritten, Torn}
        /\ x[2] \in {"none", "part", "whole"}
    BY LeftoverTypes
  <2> QED
    BY <2>1, <2>2 DEF RegOK
<1> QED
  BY <1>1, <1>2 DEF Restart

(* A crash, and the scan of what it left. *)
LEMMA RestartStep ==
  ASSUME RegOK, AllHonest, Restart
  PROVE  RegOK' /\ AllHonest'
<1>1. /\ registry' = [s \in Sims |-> Scanned(disk'[s], events'[s])]
      /\ pc' = [s \in Sims |-> IF pc[s] = "none" THEN "none" ELSE "done"]
      /\ ours' = {} /\ waiters' = <<>> /\ UNCHANGED proc
  BY DEF Restart, lusVars
<1>2. /\ disk' \in [Sims -> Status \cup {Absent, Unwritten, Torn}]
      /\ events' \in [Sims -> {"none", "part", "whole"}]
      /\ cut \subseteq cut'
      /\ \A t \in Sims \ cut' : disk'[t] = disk[t] /\ events'[t] = events[t]
  BY Crash
<1>3. \A t \in Sims :
        /\ registry'[t] \in Terminal \cup {Absent}
        /\ registry'[t] = Absent <=> disk'[t] = Absent
        /\ disk'[t] # Unwritten => (registry'[t] = "completed" <=> disk'[t] = "completed")
  BY <1>1, <1>2, Scans
<1>4. RegOK'
  <2>1. registry' \in [Sims -> Status \cup {Absent}]
    BY <1>1, <1>3 DEF Status
  <2> QED
    BY <1>1, <1>2, <2>1 DEF RegOK
<1>5. ASSUME NEW t \in Sims PROVE Honest(t)'
  <2>1. Honest(t) /\ pc'[t] \in {"none", "done"} /\ (proc[t] # "none" => pc'[t] = "done")
    BY <1>1 DEF AllHonest, Honest, Busy
  <2>2. registry'[t] \notin Active /\ registry'[t] # "running" /\ registry'[t] # "pending"
    BY <1>3, Markers DEF Active, Terminal, Status
  <2>3. ASSUME t \notin cut' \cup Unsavable PROVE Faithful(t)'
    <3>1. Faithful(t) /\ disk'[t] = disk[t] /\ events'[t] = events[t]
      BY <1>2, <2>1, <2>3 DEF Honest
    <3>2. registry'[t] = "completed" <=> registry[t] = "completed"
      BY <1>3, <3>1 DEF Faithful
    <3>3. registry'[t] # Absent <=> registry[t] # Absent
      BY <1>3, <2>1, <3>1 DEF Honest
    <3> QED
      BY <1>1, <2>1, <3>1, <3>2, <3>3 DEF Faithful
  <2> QED
    BY <1>1, <1>3, <2>1, <2>2, <2>3 DEF Honest, Busy
<1> QED
  BY <1>4, <1>5 DEF AllHonest

(* Connections and idle steps leave the simulations alone. *)
LEMMA RestStep ==
  ASSUME RegOK, AllHonest, UNCHANGED <<registry, disk, events, ours, pc, waiters, proc, cut>>
  PROVE  RegOK' /\ AllHonest'
BY Untouched DEF RegOK, AllHonest

LEMMA ClientSteps ==
  \A c \in Clients : Subscribe(c) \/ Receive(c) \/ Disconnect(c) =>
    UNCHANGED <<registry, disk, events, ours, pc, waiters, proc, cut>>
BY DEF Subscribe, Receive, Disconnect, taskVars, lusVars

LEMMA HonestStep ==
  ASSUME RegOK, AllHonest, Queue, [Next]_vars
  PROVE  RegOK' /\ AllHonest'
<1>1. ASSUME NEW s \in Sims, SimNext(s) PROVE RegOK' /\ AllHonest'
  BY <1>1, CreateStep, ImportStep, StartTaskStep, ProcessStep, SettleStep, DeleteStep, ExportStep
     DEF SimNext, RunNext
<1>2. CASE Acquire
  BY <1>2, AcquireStep
<1>3. CASE Restart
  BY <1>3, RestartStep
<1>4. CASE UNCHANGED vars
  BY <1>4, RestStep DEF vars, taskVars, lusVars
<1>5. CASE \E c \in Clients : Subscribe(c) \/ Receive(c) \/ Disconnect(c)
  BY <1>5, ClientSteps, RestStep
<1> QED
  BY <1>1, <1>2, <1>3, <1>4, <1>5 DEF Next, Quiet

-----------------------------------------------------------------------------
(* The semaphore. *)

(* What a step does to the tasks: one moves on without entering or leaving *)
(* the queue, one starts to wait, one enters, or the server restarts.      *)
LEMMA TaskSteps ==
  ASSUME RegOK, AllHonest, [Next]_vars
  PROVE  \/ UNCHANGED <<pc, waiters>>
         \/ \E s \in Sims : \E to \in {"created", "running", "draining", "done"} :
              /\ pc[s] # "queued" /\ pc' = [pc EXCEPT ![s] = to] /\ UNCHANGED waiters
              /\ to \in Busy => pc[s] \in Busy
         \/ \E s \in Sims : /\ pc[s] = "created" /\ pc' = [pc EXCEPT ![s] = "queued"]
                            /\ waiters' = Append(waiters, s)
         \/ \E s \in Sims : /\ pc[s] = "created" /\ pc' = [pc EXCEPT ![s] = "spawning"]
                            /\ HasSlot /\ UNCHANGED waiters
         \/ /\ waiters # <<>> /\ HasSlot /\ waiters' = Tail(waiters)
            /\ pc' = [pc EXCEPT ![Head(waiters)] = "spawning"]
         \/ /\ waiters' = <<>>
            /\ pc' = [s \in Sims |-> IF pc[s] = "none" THEN "none" ELSE "done"]
<1> DEFINE Moves(s, to) == /\ pc[s] # "queued" /\ pc' = [pc EXCEPT ![s] = to] /\ UNCHANGED waiters
                           /\ to \in Busy => pc[s] \in Busy
<1>1. ASSUME NEW s \in Sims, SimNext(s)
      PROVE  \/ UNCHANGED <<pc, waiters>>
             \/ \E to \in {"created", "running", "draining", "done"} : Moves(s, to)
             \/ /\ pc[s] = "created" /\ pc' = [pc EXCEPT ![s] = "queued"]
                /\ waiters' = Append(waiters, s)
             \/ /\ pc[s] = "created" /\ pc' = [pc EXCEPT ![s] = "spawning"]
                /\ HasSlot /\ UNCHANGED waiters
  <2>1. CASE CreateSim(s)
    BY <2>1 DEF CreateSim, Fresh, Busy
  <2>2. CASE ImportSim(s) \/ Fork(s) \/ LusOpens(s) \/ LusExits(s) \/ DeleteSim(s) \/ Export(s)
    BY <2>2 DEF ImportSim, Fork, LusOpens, LusExits, DeleteSim, Export, taskVars
  <2>3. CASE StartTask(s)
    BY <2>3 DEF StartTask, Begin, Busy
  <2>4. CASE Spawned(s) \/ Waited(s)
    BY <2>4 DEF Spawned, Waited, Busy
  <2>5. CASE Finish(s) \/ SpawnFails(s)
    BY <2>5 DEF Finish, SpawnFails, Settle, Busy
  <2> QED
    BY <1>1, <2>1, <2>2, <2>3, <2>4, <2>5 DEF SimNext, RunNext
<1>2. CASE Acquire
  BY <1>2 DEF Acquire, Begin
<1>3. CASE Restart
  BY <1>3 DEF Restart
<1>4. CASE UNCHANGED vars
  BY <1>4 DEF vars, taskVars
<1>5. CASE \E c \in Clients : Subscribe(c) \/ Receive(c) \/ Disconnect(c)
  BY <1>5, ClientSteps
<1> QED
  BY <1>1, <1>2, <1>3, <1>4, <1>5 DEF Next, Quiet

LEMMA QueueStep ==
  ASSUME RegOK, AllHonest, Queue, [Next]_vars
  PROVE  Queue'
<1> USE DEF Queue
<1>1. CASE UNCHANGED <<pc, waiters>>
  BY <1>1
<1>2. ASSUME NEW s \in Sims, NEW to \in {"created", "running", "draining", "done", "spawning"},
             pc[s] # "queued", pc' = [pc EXCEPT ![s] = to], UNCHANGED waiters
      PROVE  Queue'
  <2>1. \A t \in Sims : pc'[t] = "queued" <=> pc[t] = "queued"
    BY <1>2 DEF RegOK
  <2> QED
    BY <1>2, <2>1
<1>3. ASSUME NEW s \in Sims, pc[s] = "created", pc' = [pc EXCEPT ![s] = "queued"],
             waiters' = Append(waiters, s)
      PROVE  Queue'
  <2>1. \A k \in DOMAIN waiters : waiters[k] # s
    BY <1>3
  <2>2. /\ DOMAIN waiters = 1 .. Len(waiters) /\ DOMAIN waiters' = 1 .. Len(waiters) + 1
        /\ Len(waiters) \in Nat
        /\ \A k \in DOMAIN waiters : waiters'[k] = waiters[k]
        /\ waiters'[Len(waiters) + 1] = s
    BY <1>3 DEF RegOK
  <2>3. \A t \in Sims : pc'[t] = "queued" <=> pc[t] = "queued" \/ t = s
    BY <1>3 DEF RegOK
  <2>4. \A t \in Sims : (\E k \in DOMAIN waiters' : waiters'[k] = t)
                          <=> (\E k \in DOMAIN waiters : waiters[k] = t) \/ t = s
    BY <2>2
  <2>5. \A j, k \in DOMAIN waiters' : waiters'[j] = waiters'[k] => j = k
    BY <2>1, <2>2
  <2> QED
    BY <2>3, <2>4, <2>5
<1>4. CASE /\ waiters # <<>> /\ waiters' = Tail(waiters)
           /\ pc' = [pc EXCEPT ![Head(waiters)] = "spawning"]
  <2>1. /\ Len(waiters) \in Nat \ {0} /\ DOMAIN waiters = 1 .. Len(waiters)
        /\ DOMAIN waiters' = 1 .. Len(waiters) - 1
        /\ \A k \in DOMAIN waiters' : waiters'[k] = waiters[k + 1]
        /\ Head(waiters) = waiters[1] /\ waiters[1] \in Sims
    BY <1>4 DEF RegOK
  <2>2. \A t \in Sims : pc'[t] = "queued" <=> pc[t] = "queued" /\ t # waiters[1]
    BY <1>4, <2>1 DEF RegOK
  <2>3. \A t \in Sims : (\E k \in DOMAIN waiters' : waiters'[k] = t)
                          <=> (\E k \in DOMAIN waiters : waiters[k] = t) /\ t # waiters[1]
    <3> SUFFICES ASSUME NEW t \in Sims
                 PROVE  (\E k \in DOMAIN waiters' : waiters'[k] = t)
                          <=> (\E k \in DOMAIN waiters : waiters[k] = t) /\ t # waiters[1]
      OBVIOUS
    <3>1. ASSUME NEW k \in DOMAIN waiters', waiters'[k] = t
          PROVE  k + 1 \in DOMAIN waiters /\ waiters[k + 1] = t /\ t # waiters[1]
      BY <2>1, <3>1
    <3>2. ASSUME NEW k \in DOMAIN waiters, waiters[k] = t, t # waiters[1]
          PROVE  k - 1 \in DOMAIN waiters' /\ waiters'[k - 1] = t
      BY <2>1, <3>2
    <3> QED
      BY <3>1, <3>2
  <2>4. \A j, k \in DOMAIN waiters' : waiters'[j] = waiters'[k] => j = k
    BY <2>1
  <2> QED
    BY <2>2, <2>3, <2>4
<1>5. CASE /\ waiters' = <<>>
           /\ pc' = [s \in Sims |-> IF pc[s] = "none" THEN "none" ELSE "done"]
  BY <1>5
<1> QED
  BY <1>1, <1>2, <1>3, <1>4, <1>5, TaskSteps

LEMMA SlotStep ==
  ASSUME RegOK, AllHonest, Queue, Slots, [Next]_vars
  PROVE  Slots'
<1>1. ASSUME Holding' \subseteq Holding PROVE Slots'
  <2>1. IsFiniteSet(Holding') /\ Cardinality(Holding') <= Cardinality(Holding)
    BY <1>1, FS_Subset DEF Slots
  <2>2. Cardinality(Holding) \in Nat /\ Cardinality(Holding') \in Nat /\ MaxConcurrent \in Nat
    BY <2>1, FS_CardinalityType, SimManagerAssumption DEF Slots
  <2> QED
    BY <2>1, <2>2 DEF Slots
<1>2. ASSUME HasSlot, NEW s \in Sims, Holding' = Holding \cup {s} PROVE Slots'
  <2>1. /\ IsFiniteSet(Holding \cup {s})
        /\ Cardinality(Holding \cup {s}) = IF s \in Holding THEN Cardinality(Holding)
                                           ELSE Cardinality(Holding) + 1
    BY FS_AddElement DEF Slots
  <2>2. Cardinality(Holding) \in Nat /\ MaxConcurrent \in Nat
    BY FS_CardinalityType, SimManagerAssumption DEF Slots
  <2>3. Cardinality(Holding) < MaxConcurrent
    BY <1>2 DEF HasSlot
  <2>4. Cardinality(Holding') <= MaxConcurrent
    BY <1>2, <2>1, <2>2, <2>3
  <2> QED
    BY <1>2, <2>1, <2>4 DEF Slots
<1>3. CASE UNCHANGED <<pc, waiters>>
  BY <1>1, <1>3 DEF Holding
<1>4. ASSUME NEW s \in Sims, NEW to \in {"created", "running", "draining", "done", "queued"},
             pc' = [pc EXCEPT ![s] = to], to \in Busy => pc[s] \in Busy
      PROVE  Slots'
  <2>1. Holding' \subseteq Holding
    BY <1>4 DEF Holding, Busy, RegOK
  <2> QED
    BY <1>1, <2>1
<1>5. ASSUME NEW s \in Sims, HasSlot, pc' = [pc EXCEPT ![s] = "spawning"] PROVE Slots'
  <2>1. Holding' = Holding \cup {s}
    BY <1>5 DEF Holding, RegOK
  <2> QED
    BY <1>2, <1>5, <2>1
<1>6. CASE pc' = [s \in Sims |-> IF pc[s] = "none" THEN "none" ELSE "done"]
  <2>1. Holding' = {}
    BY <1>6 DEF Holding
  <2> QED
    BY <1>1, <2>1
<1>7. "queued" \notin Busy
  BY DEF Busy
<1>8. waiters # <<>> => Head(waiters) \in Sims
  BY DEF RegOK
<1> QED
  BY <1>3, <1>4, <1>5, <1>6, <1>7, <1>8, TaskSteps

-----------------------------------------------------------------------------
MInv == RegOK /\ AllHonest /\ Queue /\ Slots

LEMMA ManagerInit == Init => MInv
<1> SUFFICES ASSUME Init PROVE MInv
  OBVIOUS
<1>1. RegOK
  BY DEF Init, RegOK
<1>2. AllHonest
  BY Markers DEF Init, AllHonest, Honest, Faithful, Busy, Active, Status
<1>3. Queue
  BY DEF Init, Queue
<1>4. Slots
  <2>1. Holding = {} /\ MaxConcurrent \in Nat
    BY SimManagerAssumption DEF Init, Holding
  <2> QED
    BY <2>1, FS_EmptySet DEF Slots
<1> QED
  BY <1>1, <1>2, <1>3, <1>4 DEF MInv

THEOREM ManagerInvariant == Spec => []MInv
<1>1. MInv /\ [Next]_vars => MInv'
  BY HonestStep, QueueStep, SlotStep DEF MInv
<1> QED
  BY <1>1, ManagerInit, PTL DEF Spec

(* Every variable has its type, the connections' queues included. *)
ClientOK ==
  /\ stopped \subseteq Sims /\ cut \subseteq Sims /\ restarts \in Nat
  /\ client \in [Clients -> {"idle", "open", "done", "cut"}] /\ watching \in [Clients -> Sims]
  /\ inbox \in [Clients -> Seq(Status \cup {Done})] /\ told \in [Clients -> Status \cup {Absent}]
  /\ subs \subseteq Sims \X Clients

LEMMA InboxType ==
  ASSUME ClientOK, NEW s, NEW updates \in Seq(Status \cup {Done}), Notify(s, updates)
  PROVE  inbox' \in [Clients -> Seq(Status \cup {Done})]
BY DEF ClientOK, Notify

LEMMA Updates ==
  ASSUME NEW x \in Status
  PROVE  <<x>> \in Seq(Status \cup {Done}) /\ <<x, Done>> \in Seq(Status \cup {Done})
<1> DEFINE U == Status \cup {Done}
<1>1. x \in U /\ Done \in U
  OBVIOUS
<1> HIDE DEF U
<1>2. <<x>> \in Seq(U) /\ <<x, Done>> \in Seq(U)
  BY <1>1
<1> QED
  BY <1>2 DEF U

LEMMA SimKeepsClients ==
  ASSUME RegOK, ClientOK, NEW s \in Sims, SimNext(s)
  PROVE  ClientOK'
<1>1. "running" \in Status /\ "cancelled" \in Status /\ Outcome(s) \in Status
  BY Outcomes DEF Status, Active, Terminal
<1>2. CASE StartTask(s)
  <2>1. inbox' \in [Clients -> Seq(Status \cup {Done})]
    BY <1>1, <1>2, InboxType, Updates DEF StartTask, Begin, ClientOK
  <2> QED
    BY <1>2, <2>1 DEF StartTask, ClientOK, lusVars, clientVars
<1>3. CASE Finish(s) \/ SpawnFails(s)
  <2>1. inbox' \in [Clients -> Seq(Status \cup {Done})]
    BY <1>1, <1>3, InboxType, Updates DEF Finish, SpawnFails, Settle
  <2> QED
    BY <1>3, <2>1 DEF Finish, SpawnFails, ClientOK, lusVars, clientVars
<1>4. CASE DeleteSim(s)
  <2>1. inbox' \in [Clients -> Seq(Status \cup {Done})]
    BY <1>1, <1>4, InboxType, Updates DEF DeleteSim, ClientOK
  <2>2. stopped' \subseteq Sims
    BY <1>4 DEF DeleteSim, ClientOK
  <2> QED
    BY <1>4, <2>1, <2>2 DEF DeleteSim, ClientOK, clientVars
<1>5. CASE CreateSim(s) \/ ImportSim(s) \/ Fork(s) \/ Spawned(s)
  BY <1>5 DEF CreateSim, ImportSim, Fork, Spawned, ClientOK, lusVars, clientVars
<1>6. CASE Waited(s) \/ LusOpens(s) \/ LusExits(s) \/ Export(s)
  BY <1>6 DEF Waited, LusOpens, LusExits, Export, ClientOK, lusVars, clientVars
<1> QED
  BY <1>2, <1>3, <1>4, <1>5, <1>6 DEF SimNext, RunNext

LEMMA ConnectionSteps ==
  ASSUME RegOK, ClientOK, NEW c \in Clients, Subscribe(c) \/ Receive(c) \/ Disconnect(c)
  PROVE  ClientOK'
<1>1. inbox[c] \in Seq(Status \cup {Done}) /\ watching[c] \in Sims
  BY DEF ClientOK
<1>2. CASE Subscribe(c)
  <2>1. Answer(watching[c]) \in Seq(Status \cup {Done})
    <3>1. registry[watching[c]] \in Terminal => registry[watching[c]] \in Status
      BY DEF Status
    <3>2. CASE registry[watching[c]] \in Terminal
      <4>1. Answer(watching[c]) = <<registry[watching[c]], Done>>
        BY <3>2 DEF Answer
      <4> QED
        BY <3>1, <3>2, <4>1, Updates
    <3>3. CASE registry[watching[c]] \notin Terminal
      BY <3>3 DEF Answer
    <3> QED
      BY <3>2, <3>3
  <2> QED
    BY <1>1, <1>2, <2>1 DEF Subscribe, ClientOK, lusVars
<1>3. CASE Receive(c)
  <2>1. Tail(inbox[c]) \in Seq(Status \cup {Done}) /\ Head(inbox[c]) \in Status \cup {Done}
    BY <1>1, <1>3 DEF Receive
  <2>2. inbox' \in [Clients -> Seq(Status \cup {Done})]
    BY <1>3, <2>1 DEF Receive, ClientOK
  <2>3. /\ told' \in [Clients -> Status \cup {Absent}]
        /\ client' \in [Clients -> {"idle", "open", "done", "cut"}]
        /\ subs' \subseteq Sims \X Clients
    BY <1>3, <2>1 DEF Receive, Close, ClientOK
  <2> QED
    BY <1>3, <2>2, <2>3 DEF Receive, ClientOK, lusVars
<1>4. CASE Disconnect(c)
  BY <1>1, <1>4 DEF Disconnect, Close, ClientOK, lusVars
<1> QED
  BY <1>2, <1>3, <1>4

LEMMA ClientStep == RegOK /\ ClientOK /\ [Next]_vars => ClientOK'
<1> SUFFICES ASSUME RegOK, ClientOK, [Next]_vars PROVE ClientOK'
  OBVIOUS
<1>1. CASE Acquire
  <2>1. "running" \in Status
    BY DEF Status, Active
  <2>2. inbox' \in [Clients -> Seq(Status \cup {Done})]
    BY <1>1, <2>1, InboxType, Updates DEF Acquire, Begin
  <2> QED
    BY <1>1, <2>2 DEF Acquire, ClientOK, lusVars, clientVars
<1>2. CASE Restart
  <2>1. cut' \subseteq Sims
    BY <1>2 DEF Restart, ClientOK
  <2> QED
    BY <1>2, <2>1 DEF Restart, ClientOK, lusVars
<1>3. CASE UNCHANGED vars
  BY <1>3 DEF vars, ClientOK, lusVars, clientVars
<1> QED
  BY <1>1, <1>2, <1>3, SimKeepsClients, ConnectionSteps DEF Next, Quiet

THEOREM ManagerTyped == Spec => []TypeOK
<1>1. Init => ClientOK
  BY DEF Init, ClientOK
<1>2. MInv => RegOK
  BY DEF MInv
<1>3. RegOK /\ ClientOK => TypeOK
  BY DEF RegOK, ClientOK, TypeOK
<1> QED
  BY <1>1, <1>2, <1>3, ClientStep, ManagerInvariant, PTL DEF Spec

(* The server never runs more than MAX_CONCURRENT_SIMS processes of its    *)
(* own, whatever is deleted, fails to spawn or is rescanned meanwhile.     *)
THEOREM ProcessesBounded == Spec => []ProcessBound
<1>1. MInv => ProcessBound
  <2> SUFFICES ASSUME MInv PROVE ProcessBound
    OBVIOUS
  <2> DEFINE Live == { s \in Sims : proc[s] \in {"loading", "simulating"} /\ pc[s] # "done" }
  <2>1. Live \subseteq Holding
    BY DEF MInv, AllHonest, Honest, Busy, Holding
  <2>2. IsFiniteSet(Live) /\ Cardinality(Live) <= Cardinality(Holding)
    BY <2>1, FS_Subset DEF MInv, Slots
  <2>3. Cardinality(Live) \in Nat /\ Cardinality(Holding) \in Nat /\ MaxConcurrent \in Nat
    BY <2>2, FS_CardinalityType, SimManagerAssumption DEF MInv, Slots
  <2> HIDE DEF Live
  <2>4. Cardinality(Live) <= MaxConcurrent
    BY <2>2, <2>3 DEF MInv, Slots
  <2> QED
    BY <2>4 DEF ProcessBound, Live
<1> QED
  BY <1>1, ManagerInvariant, PTL

(* No deletion, restart or failed spawn strands a simulation: one that is  *)
(* shown as active has a task, and a waiting task is in the queue once.    *)
THEOREM NobodyStranded == Spec => []ActiveIsTended
<1>1. MInv => ActiveIsTended
  BY DEF MInv, AllHonest, Honest, Busy, Holding, Queue, ActiveIsTended
<1> QED
  BY <1>1, ManagerInvariant, PTL

(* What is shown as completed was completed, after any number of restarts. *)
THEOREM CompletedTold == Spec => []CompletedIsTrue
<1>1. MInv => CompletedIsTrue
  BY DEF MInv, AllHonest, Honest, Faithful, CompletedIsTrue
<1> QED
  BY <1>1, ManagerInvariant, PTL

LEMMA CutGrows == [Next]_vars => cut \subseteq cut'
<1> SUFFICES ASSUME [Next]_vars PROVE cut \subseteq cut'
  OBVIOUS
<1>1. ASSUME NEW s \in Sims, SimNext(s) PROVE UNCHANGED cut
  BY <1>1 DEF SimNext, RunNext, CreateSim, ImportSim, StartTask, Fork, Spawned, SpawnFails, Waited, Finish,
              LusOpens, LusExits, DeleteSim, Export
<1>2. CASE Restart
  BY <1>2 DEF Restart
<1>3. CASE Acquire \/ UNCHANGED vars
  BY <1>3 DEF Acquire, vars
<1>4. CASE \E c \in Clients : Subscribe(c) \/ Receive(c) \/ Disconnect(c)
  BY <1>4, ClientSteps
<1> QED
  BY <1>1, <1>2, <1>3, <1>4 DEF Next, Quiet

(* The steps that set a status, one by one. *)
LEMMA CompletedStep ==
  ASSUME RegOK, AllHonest, Queue, [Next]_vars, NEW s \in Sims, Faithful(s),
         registry[s] = "completed", s \notin cut', disk'[s] # Absent
  PROVE  registry'[s] = "completed"
<1>1. Honest(s) /\ disk[s] = "completed"
  BY DEF AllHonest, Faithful
<1>2. pc[s] \notin {"created", "queued"}
  BY <1>1 DEF Honest, Faithful, Busy
<1>3. ASSUME NEW t \in Sims, Begin(t), pc[t] \in {"created", "queued"} PROVE registry'[s] = "completed"
  <2>1. t # s /\ SetStatus(t, "running") /\ "running" \in Status
    BY <1>2, <1>3 DEF Begin, Status, Active
  <2> QED
    BY <2>1, SetStatusType
<1>4. ASSUME NEW t \in Sims, SimNext(t) PROVE registry'[s] = "completed"
  <2>1. CASE CreateSim(t) \/ ImportSim(t)
    BY <2>1, Markers DEF CreateSim, ImportSim, Fresh, RegOK
  <2>2. CASE StartTask(t)
    BY <1>3, <2>2 DEF StartTask
  <2>3. CASE Fork(t) \/ Spawned(t) \/ Waited(t) \/ LusOpens(t) \/ LusExits(t)
    BY <2>3 DEF Fork, Spawned, Waited, LusOpens, LusExits
  <2>4. CASE Finish(t) \/ SpawnFails(t)
    <3>1. SetStatus(t, Outcome(t)) /\ UNCHANGED ours /\ pc[t] \in Busy
      BY <2>4 DEF Finish, SpawnFails, Settle, Busy
    <3>2. t = s => s \notin ours'
      BY <1>1, <3>1 DEF Honest
    <3> QED
      BY <3>1, <3>2, Outcomes, SetStatusType
  <2>5. CASE DeleteSim(t)
    <3>1. t # s
      BY <2>5 DEF DeleteSim, RegOK
    <3> QED
      BY <2>5, <3>1 DEF DeleteSim, RegOK
  <2>6. CASE Export(t)
    <3>1. t # s
      BY <2>6, Markers DEF Export, Fresh
    <3>2. /\ disk' = [disk EXCEPT ![t] = "completed"]
          /\ registry'[s] = IF disk'[s] = Absent THEN registry[s] ELSE Scanned(disk'[s], events'[s])
      BY <2>6 DEF Export
    <3>3. disk'[s] = "completed"
      BY <1>1, <3>1, <3>2 DEF RegOK
    <3> QED
      BY <3>2, <3>3, Scans, Markers
  <2> QED
    BY <1>4, <2>1, <2>2, <2>3, <2>4, <2>5, <2>6 DEF SimNext, RunNext
<1>5. CASE Acquire
  <2>1. Begin(Head(waiters)) /\ waiters # <<>>
    BY <1>5 DEF Acquire
  <2>2. Head(waiters) \in Sims /\ pc[Head(waiters)] = "queued"
    BY <2>1 DEF RegOK, Queue
  <2> QED
    BY <1>3, <2>1, <2>2
<1>6. CASE Restart
  <2>1. disk'[s] = "completed" /\ registry'[s] = Scanned(disk'[s], events'[s])
    BY <1>1, <1>6, Crash DEF Restart
  <2> QED
    BY <2>1, Scans, Markers
<1>7. CASE UNCHANGED vars
  BY <1>7 DEF vars
<1>8. CASE \E c \in Clients : Subscribe(c) \/ Receive(c) \/ Disconnect(c)
  BY <1>8, ClientSteps
<1> QED
  BY <1>4, <1>5, <1>6, <1>7, <1>8 DEF Next, Quiet

(* A completed simulation is never shown as anything else until deleted:   *)
(* a task that settles late, a rescan or a restart cannot take it back.    *)
THEOREM CompletedStays == Spec => CompletedIsDurable
<1> DEFINE Durable(s) == registry[s] = "completed" /\ s \notin cut' \cup Unsavable
                           => registry'[s] = "completed" \/ disk'[s] = Absent
<1>1. ASSUME MInv, MInv', [Next]_vars, NEW s \in Sims,
             registry[s] = "completed", s \notin cut' \cup Unsavable, disk'[s] # Absent
      PROVE  registry'[s] = "completed"
  <2>1. RegOK /\ AllHonest /\ Queue /\ RegOK' /\ AllHonest'
    BY <1>1 DEF MInv
  <2>2. cut \subseteq cut'
    BY <1>1, CutGrows
  <2>3. Faithful(s) /\ Honest(s) /\ Faithful(s)' /\ Honest(s)'
    BY <1>1, <2>1, <2>2 DEF AllHonest, Honest
  <2> QED
    BY <1>1, <2>1, <2>3, CompletedStep
<1>2. MInv /\ MInv' /\ [Next]_vars => [\A s \in Sims : Durable(s)]_vars
  BY <1>1
<1> QED
  BY <1>2, ManagerInvariant, PTL DEF Spec, CompletedIsDurable

-----------------------------------------------------------------------------
(* The streams.  What was told of a simulation stays true if its record is *)
(* the one that its task settles and what a scan would read back.          *)
Steady(s) ==
  /\ registry[s] \in Terminal => pc[s] \in {"none", "done"} /\ Scanned(disk[s], events[s]) = registry[s]
  /\ pc[s] \in Busy \cup {"queued"} => s \in ours
  /\ disk[s] = Unwritten => proc[s] = "none" /\ pc[s] = "none"

Lasting == Sims \ (Deletable \cup Unsavable)

LEMMA ScanOfWritten ==
  /\ \A s : registry[s] \in Terminal => Scanned(registry[s], events[s]) = registry[s]
  /\ \A status, f, g : status # Unwritten => Scanned(status, f) = Scanned(status, g)
<1>1. \A status \in Terminal : status \notin Active /\ status # Absent /\ status # Unwritten /\ status # Torn
  BY Markers DEF Status, Terminal, Active
<1> QED
  BY <1>1 DEF Scanned

LEMMA SteadyElsewhere ==
  ASSUME NEW s, Steady(s), registry'[s] = registry[s], disk'[s] = disk[s], events'[s] = events[s],
         pc'[s] = pc[s], proc'[s] = proc[s], s \in ours => s \in ours'
  PROVE  Steady(s)' /\ registry'[s] = registry[s]
BY DEF Steady, Scanned

(* A task begins or settles: the record and the file agree.                *)
LEMMA SteadyWritten ==
  ASSUME RegOK, NEW s \in Lasting, s \in ours', SaveStatus(s), NEW to \in {"spawning", "done"}, pc'[s] = to,
         NEW status \in Status, SetStatus(s, status), to = "spawning" => status \notin Terminal
  PROVE  Steady(s)' /\ registry'[s] = status
<1>1. s \in Sims /\ s \notin Unsavable
  BY DEF Lasting
<1>2. registry' \in [Sims -> Status \cup {Absent}] /\ registry'[s] = status
  BY <1>1, SetStatusType
<1>3. status # Absent /\ status # Unwritten /\ disk'[s] = status
  BY <1>1, <1>2, Saved, Markers
<1>4. status \in Terminal => Scanned(status, events'[s]) = status
  BY Markers DEF Scanned, Status, Terminal, Active
<1> QED
  BY <1>2, <1>3, <1>4 DEF Steady

LEMMA SteadyRestart ==
  ASSUME RegOK, NEW s \in Lasting, Steady(s), Restart
  PROVE  Steady(s)' /\ (registry[s] \in Terminal => registry'[s] = registry[s])
<1>0. s \in Sims /\ s \notin Deletable
  BY DEF Lasting
<1>1. /\ registry'[s] = Scanned(disk'[s], events'[s]) /\ proc'[s] = proc[s] /\ ours' = {}
      /\ pc'[s] = IF pc[s] = "none" THEN "none" ELSE "done"
  BY <1>0 DEF Restart, lusVars
<1>2. Unwritten # Torn
  BY Markers
<1>3. \/ disk'[s] = disk[s] /\ events'[s] = events[s]
      \/ disk'[s] = Torn /\ registry[s] # Absent /\ pc[s] \notin {"none", "done"}
      \/ Fresh(s)
  <2>1. CASE UNCHANGED <<disk, events, cut>>
    BY <2>1
  <2>2. ASSUME NEW t \in Sims, NEW x \in Leftovers(t),
               disk' = [disk EXCEPT ![t] = x[1]], events' = [events EXCEPT ![t] = x[2]]
        PROVE  <1>3!1 \/ <1>3!2 \/ <1>3!3
    <3>1. CASE t # s
      BY <1>0, <2>2, <3>1 DEF RegOK
    <3>2. CASE t = s /\ ~Fresh(s)
      <4>1. x = <<Torn, events[s]>> /\ registry[s] # Absent /\ pc[s] \notin {"none", "done"}
        BY <1>0, <2>2, <3>2 DEF Leftovers
      <4> QED
        BY <1>0, <2>2, <3>2, <4>1 DEF RegOK
    <3> QED
      BY <3>1, <3>2
  <2> QED
    BY <2>1, <2>2 DEF Restart
<1>4. Steady(s)'
  BY <1>1, <1>2, <1>3, Scans DEF Steady, Fresh, Busy
<1>5. registry[s] \in Terminal => registry'[s] = registry[s]
  BY <1>1, <1>3, Markers DEF Steady, Fresh, Status
<1> QED
  BY <1>4, <1>5

LEMMA SteadyStep ==
  ASSUME RegOK, AllHonest, Queue, Exportable = {}, NEW s \in Lasting, Steady(s), [Next]_vars
  PROVE  Steady(s)' /\ (registry[s] \in Terminal => registry'[s] = registry[s])
<1>0. s \in Sims /\ s \notin Deletable /\ s \notin Unsavable /\ Honest(s)
  BY DEF Lasting, AllHonest
<1>1. "running" \in Status /\ "running" \notin Terminal
  BY DEF Status, Active, Terminal
<1>2. ASSUME NEW t \in Sims, t # s, SimNext(t)
      PROVE  Steady(s)' /\ registry'[s] = registry[s]
  <2>1. /\ events'[s] = events[s] /\ pc'[s] = pc[s] /\ proc'[s] = proc[s] /\ (s \in ours => s \in ours')
        /\ registry'[s] = registry[s]
    BY <1>0, <1>2 DEF RegOK, SimNext, RunNext, CreateSim, ImportSim, StartTask, Begin, SetStatus, Fork, Spawned,
       SpawnFails, Waited, Finish, Settle, LusOpens, LusExits, DeleteSim, Export, taskVars, lusVars
  <2>2. CASE CreateSim(t) \/ ImportSim(t) \/ StartTask(t) \/ SpawnFails(t) \/ Finish(t)
    <3>1. SaveStatus(t) \/ disk' = disk
      BY <2>2 DEF CreateSim, ImportSim, StartTask, Begin, SpawnFails, Finish, Settle
    <3>2. disk'[s] = disk[s]
      BY <1>0, <1>2, <3>1 DEF SaveStatus, RegOK
    <3> QED
      BY <2>1, <3>2, SteadyElsewhere
  <2>3. CASE Fork(t) \/ Spawned(t) \/ Waited(t) \/ LusOpens(t) \/ LusExits(t) \/ DeleteSim(t)
    <3>1. disk'[s] = disk[s]
      BY <1>0, <1>2, <2>3 DEF Fork, Spawned, Waited, LusOpens, LusExits, DeleteSim, RegOK
    <3> QED
      BY <2>1, <3>1, SteadyElsewhere
  <2> QED
    BY <1>2, <2>2, <2>3 DEF SimNext, RunNext, Export
<1>3. CASE SimNext(s)
  <2>1. CASE CreateSim(s)
    <3>1. registry[s] = Absent /\ registry'[s] = "pending" /\ pc'[s] = "created" /\ SaveStatus(s)
          /\ registry' \in [Sims -> Status \cup {Absent}]
      BY <1>0, <2>1 DEF CreateSim, Fresh, RegOK, Status, Active
    <3>2. disk'[s] = "pending"
      BY <1>0, <3>1, Saved, Markers DEF Status, Active
    <3> QED
      BY <3>1, <3>2, Markers DEF Steady, Status, Active, Terminal, Busy
  <2>2. CASE ImportSim(s)
    <3>1. registry[s] = Absent /\ registry'[s] = "completed" /\ pc'[s] = "none" /\ SaveStatus(s)
          /\ registry' \in [Sims -> Status \cup {Absent}]
      BY <1>0, <2>2 DEF ImportSim, Fresh, RegOK, Status, Terminal, taskVars
    <3>2. disk'[s] = "completed"
      BY <1>0, <3>1, Saved, Markers
    <3>3. Scanned("completed", events'[s]) = "completed"
      BY Markers DEF Scanned, Terminal, Active
    <3> QED
      BY <3>1, <3>2, <3>3, Markers DEF Steady, Status, Terminal, Busy
  <2>3. CASE StartTask(s)
    <3>1. registry[s] \notin Terminal
      BY <2>3 DEF StartTask, Steady
    <3>2. CASE registry[s] = Absent
      BY <1>0, <2>3, <3>2, Markers DEF StartTask, Steady, RegOK, Honest, Busy, Status
    <3>3. CASE registry[s] # Absent /\ Begin(s)
      BY <1>0, <1>1, <2>3, <3>1, <3>3, SteadyWritten DEF StartTask, Begin, RegOK
    <3>4. CASE registry[s] # Absent /\ ~Begin(s)
      BY <1>0, <2>3, <3>1, <3>4 DEF StartTask, Steady, RegOK
    <3> QED
      BY <3>2, <3>3, <3>4
  <2>4. CASE Finish(s) \/ SpawnFails(s)
    <3>1. /\ pc[s] \in Busy /\ s \in ours' /\ SetStatus(s, Outcome(s)) /\ SaveStatus(s) /\ pc'[s] = "done"
      BY <1>0, <2>4 DEF Finish, SpawnFails, Settle, Busy, Steady, RegOK
    <3> QED
      BY <3>1, Outcomes, SteadyWritten DEF Steady, Busy
  <2>5. CASE Fork(s) \/ Spawned(s) \/ Waited(s) \/ LusOpens(s) \/ LusExits(s)
    <3>1. /\ UNCHANGED <<registry, disk, ours>> /\ disk[s] # Unwritten
          /\ pc'[s] = pc[s] \/ (pc[s] \in Busy /\ pc'[s] \in Busy)
      BY <1>0, <2>5 DEF Fork, Spawned, Waited, LusOpens, LusExits, taskVars, Steady, Busy, RegOK
    <3> QED
      BY <3>1, ScanOfWritten DEF Steady, Busy
  <2>6. ~DeleteSim(s) /\ ~Export(s)
    BY <1>0 DEF DeleteSim, Export
  <2> QED
    BY <1>3, <2>1, <2>2, <2>3, <2>4, <2>5, <2>6 DEF SimNext, RunNext
<1>4. CASE Acquire
  <2> DEFINE t == Head(waiters)
  <2>1. /\ Begin(t) /\ UNCHANGED <<ours, events, proc>> /\ t \in Sims /\ pc[t] = "queued"
    BY <1>4 DEF Acquire, lusVars, RegOK, Queue
  <2> HIDE DEF t
  <2>2. CASE t = s
    <3>1. s \in ours' /\ pc'[s] = "spawning" /\ registry[s] \notin Terminal
      BY <1>0, <2>1, <2>2 DEF Steady, Begin, RegOK
    <3> QED
      BY <1>1, <2>1, <2>2, <3>1, SteadyWritten DEF Begin
  <2>3. CASE t # s
    <3>1. disk'[s] = disk[s] /\ registry'[s] = registry[s] /\ pc'[s] = pc[s]
      BY <1>0, <2>1, <2>3 DEF Begin, SaveStatus, SetStatus, RegOK
    <3> QED
      BY <2>1, <3>1, SteadyElsewhere
  <2> QED
    BY <2>2, <2>3
<1>5. CASE Restart
  BY <1>5, SteadyRestart
<1>6. CASE UNCHANGED vars
  BY <1>6, SteadyElsewhere DEF vars, taskVars, lusVars
<1>7. CASE \E c \in Clients : Subscribe(c) \/ Receive(c) \/ Disconnect(c)
  BY <1>7, ClientSteps, SteadyElsewhere
<1> QED
  BY <1>2, <1>3, <1>4, <1>5, <1>6, <1>7 DEF Next, Quiet

(* A connection is subscribed to what it watches, while it is open.        *)
Subscribed == \A x \in subs : x[1] = watching[x[2]] /\ client[x[2]] = "open"

(* The sentinel in a queue is preceded by the outcome, and nothing follows *)
(* once it was read.                                                       *)
ToldRight(c) ==
  /\ client[c] = "done" => registry[watching[c]] \in Terminal /\ told[c] = registry[watching[c]]
  /\ client[c] = "open" => \A k \in DOMAIN inbox[c] : inbox[c][k] = Done =>
       /\ registry[watching[c]] \in Terminal
       /\ IF k = 1 THEN told[c] = registry[watching[c]] ELSE inbox[c][k - 1] = registry[watching[c]]

Streams ==
  /\ Subscribed
  /\ \A s \in Lasting : Steady(s)
  /\ \A c \in Clients : watching[c] \in Lasting => ToldRight(c)

LEMMA SubscribedStep ==
  ASSUME RegOK, ClientOK, Subscribed, [Next]_vars
  PROVE  Subscribed'
<1>1. ASSUME NEW s \in Sims, SimNext(s) PROVE subs' \subseteq subs /\ UNCHANGED <<client, watching>>
  BY <1>1 DEF SimNext, RunNext, CreateSim, ImportSim, StartTask, Fork, Spawned, SpawnFails, Waited, Finish,
              LusOpens, LusExits, DeleteSim, Export, clientVars
<1>2. CASE Acquire \/ UNCHANGED vars
  BY <1>2 DEF Acquire, vars, clientVars, Subscribed
<1>3. CASE Restart
  BY <1>3 DEF Restart, Subscribed
<1>4. ASSUME NEW c \in Clients, Subscribe(c) PROVE Subscribed'
  BY <1>4 DEF Subscribe, Subscribed, ClientOK
<1>5. ASSUME NEW c \in Clients, Receive(c) \/ Disconnect(c) PROVE Subscribed'
  <2>1. UNCHANGED watching
    BY <1>5 DEF Receive, Disconnect
  <2>2. CASE UNCHANGED <<client, subs>>
    BY <2>1, <2>2 DEF Subscribed
  <2>3. ASSUME NEW state, Close(c, state) PROVE Subscribed'
    <3>1. ASSUME NEW x \in subs, x # <<watching[c], c>> PROVE x[1] = watching[x[2]] /\ client[x[2]] = "open" /\ x[2] # c /\ x[2] \in Clients
      BY <3>1 DEF Subscribed, ClientOK
    <3> QED
      BY <2>1, <2>3, <3>1 DEF Subscribed, Close, ClientOK
  <2> QED
    BY <1>5, <2>2, <2>3 DEF Receive, Disconnect
<1> QED
  BY <1>1, <1>2, <1>3, <1>4, <1>5 DEF Next, Quiet, Subscribed

(* What a step of a simulation sends to a connection that watches s.       *)
LEMMA Notified ==
  ASSUME RegOK, ClientOK, Queue, Subscribed, \A t \in Lasting : Steady(t), Exportable = {},
         NEW c \in Clients, NEW s \in Lasting, watching[c] = s,
         Acquire \/ \E t \in Sims : SimNext(t)
  PROVE  \/ inbox'[c] = inbox[c]
         \/ inbox'[c] = inbox[c] \o <<"running">> /\ registry[s] \notin Terminal
         \/ /\ inbox'[c] = inbox[c] \o <<Outcome(s), Done>>
            /\ registry[s] \notin Terminal /\ registry'[s] = Outcome(s)
<1>0. s \in Sims /\ s \notin Deletable /\ Steady(s)
  BY DEF Lasting
<1>1. ASSUME NEW t \in Sims, NEW u, Notify(t, u)
      PROVE  inbox'[c] = inbox[c] \/ (t = s /\ inbox'[c] = inbox[c] \o u)
  BY <1>1 DEF Notify, Subscribed
<1>2. CASE Acquire
  <2>1. Begin(Head(waiters)) /\ Head(waiters) \in Sims /\ pc[Head(waiters)] = "queued"
    BY <1>2 DEF Acquire, RegOK, Queue
  <2> QED
    BY <1>0, <1>1, <2>1 DEF Begin, Steady
<1>3. ASSUME NEW t \in Sims, StartTask(t)
      PROVE  inbox'[c] = inbox[c] \/ (inbox'[c] = inbox[c] \o <<"running">> /\ registry[s] \notin Terminal)
  BY <1>0, <1>1, <1>3 DEF StartTask, Begin, Steady
<1>4. ASSUME NEW t \in Sims, Finish(t) \/ SpawnFails(t)
      PROVE  \/ inbox'[c] = inbox[c]
             \/ /\ inbox'[c] = inbox[c] \o <<Outcome(s), Done>>
                /\ registry[s] \notin Terminal /\ registry'[s] = Outcome(s)
  <2>1. pc[t] \in Busy /\ UNCHANGED ours /\ SetStatus(t, Outcome(t)) /\ Notify(t, <<Outcome(t), Done>>)
    BY <1>4 DEF Finish, SpawnFails, Settle, Busy
  <2>2. t = s => registry[s] \notin Terminal /\ registry'[s] = Outcome(s)
    BY <1>0, <2>1, Outcomes, SetStatusType DEF Steady, Busy
  <2> QED
    BY <1>1, <2>1, <2>2
<1>5. ASSUME NEW t \in Sims, DeleteSim(t) PROVE inbox'[c] = inbox[c]
  BY <1>0, <1>1, <1>5 DEF DeleteSim
<1>6. ASSUME NEW t \in Sims, CreateSim(t) \/ ImportSim(t) \/ Fork(t) \/ Spawned(t) \/ Waited(t) \/ LusOpens(t) \/ LusExits(t)
      PROVE  inbox'[c] = inbox[c]
  BY <1>6 DEF CreateSim, ImportSim, Fork, Spawned, Waited, LusOpens, LusExits
<1> QED
  BY <1>2, <1>3, <1>4, <1>5, <1>6 DEF SimNext, RunNext, Export

LEMMA ToldStep ==
  ASSUME RegOK, AllHonest, Queue, ClientOK, Streams, Exportable = {}, [Next]_vars,
         NEW c \in Clients, watching[c] \in Lasting
  PROVE  ToldRight(c)'
<1> DEFINE s == watching[c]
<1>0. /\ Subscribed /\ s \in Lasting /\ Steady(s) /\ ToldRight(c) /\ \A t \in Lasting : Steady(t)
      /\ inbox[c] \in Seq(Status \cup {Done}) /\ Done \notin Status /\ Absent \notin Terminal
  BY SimManagerAssumption DEF Streams, ClientOK, Status
<1>1. registry[s] \in Terminal => registry'[s] = registry[s]
  BY <1>0, SteadyStep
<1>2. watching' = watching
  BY DEF Next, SimNext, RunNext, Quiet, vars, clientVars, CreateSim, ImportSim, StartTask, Fork, Spawned, SpawnFails,
         Waited, Finish, LusOpens, LusExits, DeleteSim, Export, Acquire, Restart, Subscribe, Receive, Disconnect
<1>3. CASE inbox'[c] = inbox[c] /\ UNCHANGED <<client, told>>
  BY <1>0, <1>1, <1>2, <1>3 DEF ToldRight
<1>4. CASE Acquire \/ \E t \in Sims : SimNext(t)
  <2>1. UNCHANGED <<client, told>>
    BY <1>4 DEF SimNext, RunNext, clientVars, CreateSim, ImportSim, StartTask, Fork, Spawned, SpawnFails,
         Waited, Finish, LusOpens, LusExits, DeleteSim, Export, Acquire
  <2>2. ASSUME registry[s] \notin Terminal, client[c] = "open", NEW k \in DOMAIN inbox[c] PROVE inbox[c][k] # Done
    BY <1>0, <2>2 DEF ToldRight
  <2>3. CASE inbox'[c] = inbox[c] \o <<"running">> /\ registry[s] \notin Terminal
    <3>1. "running" \in Status
      BY DEF Status, Active
    <3>2. <<"running">> \in Seq(Status \cup {Done}) /\ Len(<<"running">>) = 1 /\ <<"running">>[1] = "running"
      BY <3>1, Updates
    <3>3. ASSUME client[c] = "open", NEW k \in DOMAIN inbox'[c] PROVE inbox'[c][k] # Done
      <4>1. k \in 1 .. Len(inbox[c]) + 1
            /\ inbox'[c][k] = IF k <= Len(inbox[c]) THEN inbox[c][k] ELSE <<"running">>[k - Len(inbox[c])]
        BY <1>0, <2>3, <3>2, <3>3, ConcatProperties, LenProperties
      <4>2. Len(inbox[c]) \in Nat /\ DOMAIN inbox[c] = 1 .. Len(inbox[c])
        BY <1>0, LenProperties
      <4> QED
        BY <1>0, <2>2, <2>3, <3>1, <3>2, <3>3, <4>1, <4>2
    <3>4. client[c] # "done"
      BY <1>0, <2>3 DEF ToldRight
    <3> QED
      BY <2>1, <3>3, <3>4 DEF ToldRight
  <2>4. CASE /\ inbox'[c] = inbox[c] \o <<Outcome(s), Done>>
             /\ registry[s] \notin Terminal /\ registry'[s] = Outcome(s)
    <3>1. Outcome(s) \in Status /\ Outcome(s) \in Terminal
      BY Outcomes
    <3>2. <<Outcome(s), Done>> \in Seq(Status \cup {Done}) /\ Len(<<Outcome(s), Done>>) = 2
          /\ <<Outcome(s), Done>>[1] = Outcome(s) /\ <<Outcome(s), Done>>[2] = Done
      BY <3>1, Updates
    <3>3. Len(inbox[c]) \in Nat /\ DOMAIN inbox[c] = 1 .. Len(inbox[c])
      BY <1>0, LenProperties
    <3>4. /\ DOMAIN inbox'[c] = 1 .. Len(inbox[c]) + 2
          /\ \A k \in 1 .. Len(inbox[c]) : inbox'[c][k] = inbox[c][k]
          /\ inbox'[c][Len(inbox[c]) + 1] = Outcome(s) /\ inbox'[c][Len(inbox[c]) + 2] = Done
      BY <1>0, <2>4, <3>2, <3>3, ConcatProperties, LenProperties
    <3>5. ASSUME client[c] = "open", NEW k \in DOMAIN inbox'[c], inbox'[c][k] = Done
          PROVE  k = Len(inbox[c]) + 2
      BY <1>0, <2>2, <2>4, <3>1, <3>3, <3>4, <3>5
    <3>6. client[c] # "done"
      BY <1>0, <2>4 DEF ToldRight
    <3>7. client[c] = "open" => \A k \in DOMAIN inbox'[c] : inbox'[c][k] = Done => k # 1 /\ inbox'[c][k - 1] = registry'[s]
      <4>1. SUFFICES ASSUME client[c] = "open", NEW k \in DOMAIN inbox'[c], inbox'[c][k] = Done
                     PROVE  k # 1 /\ inbox'[c][k - 1] = registry'[s]
        OBVIOUS
      <4>2. k = Len(inbox[c]) + 2
        BY <3>5, <4>1
      <4>3. k # 1 /\ k - 1 = Len(inbox[c]) + 1
        BY <3>3, <4>2
      <4> QED
        BY <2>4, <3>4, <4>3
    <3> QED
      BY <1>2, <2>1, <2>4, <3>1, <3>6, <3>7 DEF ToldRight
  <2> QED
    BY <1>0, <1>3, <1>4, <2>1, <2>3, <2>4, Notified
<1>5. CASE Restart
  <2>1. client'[c] = (IF client[c] = "open" THEN "cut" ELSE client[c]) /\ UNCHANGED told
    BY <1>5 DEF Restart
  <2> QED
    BY <1>0, <1>1, <1>2, <2>1 DEF ToldRight
<1>6. CASE Subscribe(c)
  <2>1. client'[c] = "open" /\ inbox'[c] = Answer(s) /\ registry' = registry
    BY <1>6 DEF Subscribe, ClientOK
  <2>2. CASE registry[s] \in Terminal
    <3>1. Answer(s) = <<registry[s], Done>> /\ registry[s] # Done
      BY <1>0, <2>2 DEF Answer, Status
    <3> QED
      BY <1>2, <2>1, <2>2, <3>1 DEF ToldRight
  <2>3. CASE registry[s] \notin Terminal
    <3>1. inbox'[c] = <<>>
      BY <2>1, <2>3 DEF Answer
    <3> QED
      BY <2>1, <3>1 DEF ToldRight
  <2> QED
    BY <2>2, <2>3
<1>7. CASE Disconnect(c)
  BY <1>7 DEF Disconnect, Close, ClientOK, ToldRight
<1>8. CASE Receive(c)
  <2>1. client[c] = "open" /\ inbox[c] # <<>> /\ inbox'[c] = Tail(inbox[c]) /\ registry' = registry
    BY <1>8 DEF Receive, ClientOK
  <2>2. /\ Len(inbox[c]) \in Nat \ {0} /\ DOMAIN inbox[c] = 1 .. Len(inbox[c]) /\ Head(inbox[c]) = inbox[c][1]
        /\ DOMAIN inbox'[c] = 1 .. Len(inbox[c]) - 1
        /\ \A k \in 1 .. Len(inbox[c]) - 1 : inbox'[c][k] = inbox[c][k + 1]
    BY <1>0, <2>1
  <2>3. CASE inbox[c][1] = Done
    <3>1. client'[c] = "done" /\ told' = told
      BY <1>8, <2>2, <2>3 DEF Receive, Close, ClientOK
    <3>2. registry[s] \in Terminal /\ told[c] = registry[s]
      <4>1. 1 \in DOMAIN inbox[c]
        BY <2>2
      <4> QED
        BY <1>0, <2>1, <2>3, <4>1 DEF ToldRight
    <3> QED
      BY <1>2, <2>1, <3>1, <3>2 DEF ToldRight
  <2>4. CASE inbox[c][1] # Done
    <3>1. client'[c] = "open" /\ told'[c] = inbox[c][1]
      BY <1>8, <2>1, <2>2, <2>4 DEF Receive, ClientOK
    <3>2. ASSUME NEW k \in DOMAIN inbox'[c], inbox'[c][k] = Done
          PROVE  /\ registry'[s] \in Terminal
                 /\ IF k = 1 THEN told'[c] = registry'[s] ELSE inbox'[c][k - 1] = registry'[s]
      <4>1. k + 1 \in DOMAIN inbox[c] /\ inbox[c][k + 1] = Done /\ k + 1 # 1 /\ k \in Nat \ {0}
        BY <2>2, <3>2
      <4>2. registry[s] \in Terminal /\ inbox[c][(k + 1) - 1] = registry[s]
        BY <1>0, <2>1, <4>1 DEF ToldRight
      <4>3. (k + 1) - 1 = k /\ (k # 1 => inbox'[c][k - 1] = inbox[c][k])
        BY <2>2, <3>2, <4>1
      <4> QED
        BY <2>1, <3>1, <4>1, <4>2, <4>3
    <3> QED
      BY <1>2, <3>1, <3>2 DEF ToldRight
  <2> QED
    BY <2>3, <2>4
<1>9. ASSUME NEW d \in Clients, d # c, Subscribe(d) \/ Receive(d) \/ Disconnect(d)
      PROVE  inbox'[c] = inbox[c] /\ client'[c] = client[c] /\ told'[c] = told[c]
  BY <1>9 DEF Subscribe, Receive, Disconnect, Close, ClientOK
<1>10. ASSUME NEW d \in Clients, d # c, Subscribe(d) \/ Receive(d) \/ Disconnect(d)
       PROVE  ToldRight(c)'
  BY <1>0, <1>1, <1>2, <1>9, <1>10 DEF ToldRight
<1>11. CASE UNCHANGED vars
  BY <1>3, <1>11 DEF vars, clientVars
<1> QED
  BY <1>4, <1>5, <1>6, <1>7, <1>8, <1>10, <1>11 DEF Next, Quiet

(* A stream that ended told the outcome for good, whatever ran, crashed or *)
(* was deleted meanwhile, unless a session exported a simulation: the scan *)
(* that follows takes the records away from the tasks that run.            *)
THEOREM StreamsTellTheOutcome ==
  ASSUME Exportable = {}
  PROVE  Spec => []StreamTellsOutcome
<1>1. Init => ClientOK /\ Streams
  <2> SUFFICES ASSUME Init PROVE ClientOK /\ Streams
    OBVIOUS
  <2>1. ClientOK
    BY DEF Init, ClientOK
  <2>2. \A s \in Lasting : Steady(s)
    BY Markers DEF Init, Lasting, Steady, Terminal, Status, Busy
  <2> QED
    BY <2>1, <2>2 DEF Init, Streams, Subscribed, ToldRight
<1>2. MInv /\ ClientOK /\ Streams /\ [Next]_vars => ClientOK' /\ Streams'
  <2> SUFFICES ASSUME MInv, ClientOK, Streams, [Next]_vars PROVE ClientOK' /\ Streams'
    OBVIOUS
  <2>1. RegOK /\ AllHonest /\ Queue /\ Subscribed /\ \A s \in Lasting : Steady(s)
    BY DEF MInv, Streams
  <2>2. ClientOK' /\ Subscribed' /\ \A s \in Lasting : Steady(s)'
    BY <2>1, ClientStep, SubscribedStep, SteadyStep
  <2>3. watching' = watching
    BY DEF Next, SimNext, RunNext, Quiet, vars, clientVars, CreateSim, ImportSim, StartTask, Fork, Spawned, SpawnFails,
           Waited, Finish, LusOpens, LusExits, DeleteSim, Export, Acquire, Restart, Subscribe, Receive, Disconnect
  <2>4. \A c \in Clients : watching'[c] \in Lasting => ToldRight(c)'
    BY <2>1, <2>3, ToldStep
  <2> QED
    BY <2>2, <2>4 DEF Streams, Lasting
<1>3. MInv /\ ClientOK /\ Streams => StreamTellsOutcome
  BY DEF Streams, StreamTellsOutcome, ToldRight, Lasting, ClientOK
<1> QED
  BY <1>1, <1>2, <1>3, ManagerInvariant, PTL DEF Spec

-----------------------------------------------------------------------------
(***************************************************************************)
(* The caches and the conditional requests.                                *)
(***************************************************************************)
Entries == [sim : Stored, stamp : Nat, size : Nat]
Bodies ==
  [sim : Stored \cup {None}, view : Views, etag : Seq(Nat), size : Nat, stamp : Nat, late : BOOLEAN]
Requests ==
  [at : {"idle", "load", "store", "answer"}, sim : Stored \cup {None}, view : Views, asked : Nat,
   size : Nat, stamp : Nat, late : BOOLEAN]

Typed ==
  /\ file \in [Stored -> Seq(1 .. MaxClock)] /\ live \subseteq Stored /\ clock \in 1 .. MaxClock
  /\ cache \in [Views -> Seq(Entries)] /\ used \in [Views -> Seq(Stored)]
  /\ browser \in Bodies /\ req \in Requests
  /\ req.at # "idle" => req.sim \in live

(* The cache holds the last of the simulations by last use, in that order. *)
Once(u)    == \A i, j \in 1 .. Len(u) : u[i] = u[j] => i = j
Tied(q, u) == Len(q) <= Len(u) /\ \A i \in 1 .. Len(q) : q[i].sim = u[i + (Len(u) - Len(q))]

Recent ==
  /\ \A v \in Views : Tied(cache[v], used[v]) /\ Once(used[v]) /\ Len(cache[v]) <= Size[v]
  /\ \A i \in 1 .. Len(cache["index"]) : cache["index"][i].sim \in live

-----------------------------------------------------------------------------
(* Dropping, moving to the end, and keeping the last.                      *)
LEMMA Removed ==
  ASSUME NEW S, NEW q \in Seq(S), NEW k \in 1 .. Len(q)
  PROVE  /\ RemoveAt(q, k) \in Seq(S) /\ Len(RemoveAt(q, k)) = Len(q) - 1
         /\ \A i \in 1 .. Len(q) - 1 : RemoveAt(q, k)[i] = IF i < k THEN q[i] ELSE q[i + 1]
<1> DEFINE a == SubSeq(q, 1, k - 1)
           b == SubSeq(q, k + 1, Len(q))
<1>1. Len(q) \in Nat /\ k \in Nat /\ 1 <= k /\ k <= Len(q) /\ \A i \in 1 .. Len(q) : q[i] \in S
  BY ElementOfSeq, LenProperties
<1>2. /\ a \in Seq(S) /\ Len(a) = k - 1
      /\ \A i \in 1 .. k - 1 : a[i] = q[i]
  <2>1. \A i \in 1 .. k - 1 : q[i] \in S
    BY <1>1
  <2> QED
    BY <1>1, <2>1, SubSeqProperties
<1>3. /\ b \in Seq(S) /\ Len(b) = Len(q) - k
      /\ \A i \in 1 .. Len(q) - k : b[i] = q[k + i]
  <2>1. \A i \in k + 1 .. Len(q) : q[i] \in S
    BY <1>1
  <2>2. /\ b \in Seq(S) /\ Len(b) = (IF k + 1 <= Len(q) THEN Len(q) - (k + 1) + 1 ELSE 0)
        /\ \A i \in 1 .. Len(q) - (k + 1) + 1 : b[i] = q[(k + 1) + i - 1]
    BY <1>1, <2>1, SubSeqProperties
  <2>3. \A i \in 1 .. Len(q) - k : i \in 1 .. Len(q) - (k + 1) + 1 /\ (k + 1) + i - 1 = k + i
    BY <1>1
  <2> QED
    BY <1>1, <2>2, <2>3
<1> HIDE DEF a, b
<1>4. /\ a \o b \in Seq(S) /\ Len(a \o b) = Len(a) + Len(b)
      /\ \A i \in 1 .. Len(a) + Len(b) : (a \o b)[i] = IF i <= Len(a) THEN a[i] ELSE b[i - Len(a)]
  BY <1>2, <1>3, ConcatProperties
<1>5. ASSUME NEW i \in 1 .. Len(q) - 1 PROVE (a \o b)[i] = IF i < k THEN q[i] ELSE q[i + 1]
  <2>1. i \in 1 .. Len(a) + Len(b)
    BY <1>1, <1>2, <1>3, <1>5
  <2>2. CASE i < k
    BY <1>1, <1>2, <1>4, <2>1, <2>2
  <2>3. CASE ~(i < k)
    <3>1. i - Len(a) \in 1 .. Len(q) - k /\ k + (i - Len(a)) = i + 1
      BY <1>1, <1>2, <1>5, <2>3
    <3> QED
      BY <1>1, <1>2, <1>3, <1>4, <2>1, <2>3, <3>1
  <2> QED
    BY <2>2, <2>3
<1>6. RemoveAt(q, k) = a \o b
  BY DEF RemoveAt, a, b
<1>7. a \o b \in Seq(S) /\ Len(a \o b) = Len(q) - 1
  BY <1>1, <1>2, <1>3, <1>4
<1> QED
  BY <1>5, <1>6, <1>7

LEMMA DroppedFrom ==
  ASSUME NEW q \in Seq(Entries), NEW s
  PROVE  \/ Drop(q, s) = q /\ \A i \in 1 .. Len(q) : q[i].sim # s
         \/ \E k \in 1 .. Len(q) : q[k].sim = s /\ Drop(q, s) = RemoveAt(q, k)
BY LenProperties DEF Drop

LEMMA DroppedIdFrom ==
  ASSUME NEW u \in Seq(Stored), NEW s
  PROVE  \/ DropId(u, s) = u /\ \A i \in 1 .. Len(u) : u[i] # s
         \/ \E k \in 1 .. Len(u) : u[k] = s /\ DropId(u, s) = RemoveAt(u, k)
BY LenProperties DEF DropId

(* Dropping a simulation from a cache and from the order of use.           *)
LEMMA Dropped ==
  ASSUME NEW q \in Seq(Entries), NEW u \in Seq(Stored), Tied(q, u), Once(u), NEW s
  PROVE  /\ Drop(q, s) \in Seq(Entries) /\ DropId(u, s) \in Seq(Stored)
         /\ Tied(Drop(q, s), DropId(u, s)) /\ Once(DropId(u, s))
         /\ \A i \in 1 .. Len(DropId(u, s)) : DropId(u, s)[i] # s
         /\ Len(Drop(q, s)) <= Len(q)
         /\ (\E i \in 1 .. Len(q) : q[i].sim = s) => Len(Drop(q, s)) = Len(q) - 1
         /\ \A i \in 1 .. Len(Drop(q, s)) : Drop(q, s)[i].sim # s /\ \E j \in 1 .. Len(q) : Drop(q, s)[i] = q[j]
<1>0. Len(q) \in Nat /\ Len(u) \in Nat /\ Len(q) <= Len(u)
  BY LenProperties DEF Tied
<1>1. CASE \A i \in 1 .. Len(u) : u[i] # s
  <2>1. DropId(u, s) = u
    BY <1>1, DroppedIdFrom
  <2>2. \A i \in 1 .. Len(q) : q[i].sim # s
    <3>1. ASSUME NEW i \in 1 .. Len(q) PROVE q[i].sim # s
      <4>1. i + (Len(u) - Len(q)) \in 1 .. Len(u)
        BY <1>0
      <4> QED
        BY <1>1, <4>1 DEF Tied
    <3> QED
      BY <3>1
  <2>3. Drop(q, s) = q
    BY <2>2, DroppedFrom
  <2> QED
    BY <1>0, <1>1, <2>1, <2>2, <2>3
<1>2. ASSUME NEW k \in 1 .. Len(u), u[k] = s
      PROVE  /\ DropId(u, s) = RemoveAt(u, k) /\ DropId(u, s) \in Seq(Stored) /\ Len(DropId(u, s)) = Len(u) - 1
             /\ \A i \in 1 .. Len(u) - 1 : DropId(u, s)[i] = IF i < k THEN u[i] ELSE u[i + 1]
             /\ Once(DropId(u, s)) /\ \A i \in 1 .. Len(DropId(u, s)) : DropId(u, s)[i] # s
  <2>1. PICK j \in 1 .. Len(u) : u[j] = s /\ DropId(u, s) = RemoveAt(u, j)
    BY <1>2, DroppedIdFrom
  <2>2. j = k
    BY <1>2, <2>1 DEF Once
  <2>3. /\ DropId(u, s) \in Seq(Stored) /\ Len(DropId(u, s)) = Len(u) - 1
        /\ \A i \in 1 .. Len(u) - 1 : DropId(u, s)[i] = IF i < k THEN u[i] ELSE u[i + 1]
    <3>1. /\ RemoveAt(u, k) \in Seq(Stored) /\ Len(RemoveAt(u, k)) = Len(u) - 1
          /\ \A i \in 1 .. Len(u) - 1 : RemoveAt(u, k)[i] = IF i < k THEN u[i] ELSE u[i + 1]
      BY Removed
    <3>2. DropId(u, s) = RemoveAt(u, k)
      BY <2>1, <2>2
    <3> QED
      BY <3>1, <3>2
  <2>4. ASSUME NEW i \in 1 .. Len(u) - 1
        PROVE  \E a \in 1 .. Len(u) : a # k /\ DropId(u, s)[i] = u[a] /\ a = IF i < k THEN i ELSE i + 1
    <3>1. CASE i < k
      BY <1>0, <2>3, <2>4, <3>1
    <3>2. CASE ~(i < k)
      <4>1. i + 1 \in 1 .. Len(u) /\ i + 1 # k
        BY <1>0, <2>4, <3>2
      <4> QED
        BY <2>3, <2>4, <3>2, <4>1
    <3> QED
      BY <3>1, <3>2
  <2>5. \A i \in 1 .. Len(DropId(u, s)) : DropId(u, s)[i] # s
    BY <1>2, <2>3, <2>4 DEF Once
  <2>6. Once(DropId(u, s))
    <3>1. ASSUME NEW i \in 1 .. Len(u) - 1, NEW h \in 1 .. Len(u) - 1, DropId(u, s)[i] = DropId(u, s)[h] PROVE i = h
      <4>1. PICK a \in 1 .. Len(u) : a # k /\ DropId(u, s)[i] = u[a] /\ a = IF i < k THEN i ELSE i + 1
        BY <2>4
      <4>2. PICK b \in 1 .. Len(u) : b # k /\ DropId(u, s)[h] = u[b] /\ b = IF h < k THEN h ELSE h + 1
        BY <2>4
      <4>3. a = b
        BY <3>1, <4>1, <4>2 DEF Once
      <4> QED
        BY <1>0, <4>1, <4>2, <4>3
    <3> QED
      BY <2>3, <3>1 DEF Once
  <2> QED
    BY <2>1, <2>2, <2>3, <2>5, <2>6
<1>3. ASSUME NEW k \in 1 .. Len(u), u[k] = s, k <= Len(u) - Len(q)
      PROVE  Drop(q, s) = q /\ (\A i \in 1 .. Len(q) : q[i].sim # s) /\ Tied(Drop(q, s), DropId(u, s))
  <2>1. ASSUME NEW i \in 1 .. Len(q) PROVE q[i].sim # s
    <3>1. i + (Len(u) - Len(q)) \in 1 .. Len(u) /\ i + (Len(u) - Len(q)) # k
      BY <1>0, <1>3
    <3> QED
      BY <1>3, <3>1 DEF Tied, Once
  <2>2. Drop(q, s) = q
    BY <2>1, DroppedFrom
  <2>3. Len(DropId(u, s)) = Len(u) - 1 /\ Len(q) <= Len(u) - 1
    BY <1>0, <1>2, <1>3
  <2>4. ASSUME NEW i \in 1 .. Len(q) PROVE q[i].sim = DropId(u, s)[i + (Len(u) - 1 - Len(q))]
    <3>1. /\ i + (Len(u) - 1 - Len(q)) \in 1 .. Len(u) - 1 /\ ~(i + (Len(u) - 1 - Len(q)) < k)
          /\ (i + (Len(u) - 1 - Len(q))) + 1 = i + (Len(u) - Len(q))
      BY <1>0, <1>3, <2>3
    <3>2. DropId(u, s)[i + (Len(u) - 1 - Len(q))] = u[i + (Len(u) - Len(q))]
      BY <1>2, <1>3, <3>1
    <3> QED
      BY <3>2 DEF Tied
  <2> QED
    BY <2>1, <2>2, <2>3, <2>4 DEF Tied
<1>4. ASSUME NEW k \in 1 .. Len(u), u[k] = s, ~(k <= Len(u) - Len(q))
      PROVE  /\ Drop(q, s) \in Seq(Entries) /\ Len(Drop(q, s)) = Len(q) - 1 /\ Tied(Drop(q, s), DropId(u, s))
             /\ \A i \in 1 .. Len(Drop(q, s)) : \E j \in 1 .. Len(q) : Drop(q, s)[i] = q[j]
  <2>1. PICK h \in 1 .. Len(q) : h + (Len(u) - Len(q)) = k
    <3>1. k - (Len(u) - Len(q)) \in 1 .. Len(q) /\ (k - (Len(u) - Len(q))) + (Len(u) - Len(q)) = k
      BY <1>0, <1>4
    <3> QED
      BY <3>1
  <2>2. q[h].sim = s
    BY <1>4, <2>1 DEF Tied
  <2>3. PICK j \in 1 .. Len(q) : q[j].sim = s /\ Drop(q, s) = RemoveAt(q, j)
    BY <2>2, DroppedFrom
  <2>4. j = h
    <3>1. j + (Len(u) - Len(q)) \in 1 .. Len(u)
      BY <1>0
    <3>2. u[j + (Len(u) - Len(q))] = u[k]
      BY <1>4, <2>3 DEF Tied
    <3>3. j + (Len(u) - Len(q)) = k
      BY <3>1, <3>2 DEF Once
    <3> QED
      BY <1>0, <2>1, <3>3
  <2>5. /\ Drop(q, s) \in Seq(Entries) /\ Len(Drop(q, s)) = Len(q) - 1
        /\ \A i \in 1 .. Len(q) - 1 : Drop(q, s)[i] = IF i < h THEN q[i] ELSE q[i + 1]
    <3>1. /\ RemoveAt(q, h) \in Seq(Entries) /\ Len(RemoveAt(q, h)) = Len(q) - 1
          /\ \A i \in 1 .. Len(q) - 1 : RemoveAt(q, h)[i] = IF i < h THEN q[i] ELSE q[i + 1]
      BY Removed
    <3>2. Drop(q, s) = RemoveAt(q, h)
      BY <2>3, <2>4
    <3> QED
      BY <3>1, <3>2
  <2>6. ASSUME NEW i \in 1 .. Len(q) - 1
        PROVE  Drop(q, s)[i].sim = DropId(u, s)[i + (Len(u) - Len(q))]
    <3>1. i + (Len(u) - Len(q)) \in 1 .. Len(u) - 1 /\ i \in 1 .. Len(q) /\ i + 1 \in 1 .. Len(q)
      BY <1>0
    <3>2. (i < h) <=> (i + (Len(u) - Len(q)) < k)
      BY <1>0, <2>1
    <3>3. (i + (Len(u) - Len(q))) + 1 = (i + 1) + (Len(u) - Len(q))
      BY <1>0
    <3>4. DropId(u, s)[i + (Len(u) - Len(q))] = IF i < h THEN u[i + (Len(u) - Len(q))] ELSE u[(i + 1) + (Len(u) - Len(q))]
      BY <1>2, <1>4, <3>1, <3>2, <3>3
    <3> QED
      BY <2>5, <3>1, <3>4 DEF Tied
  <2>7. Len(DropId(u, s)) - Len(Drop(q, s)) = Len(u) - Len(q) /\ Len(Drop(q, s)) <= Len(DropId(u, s))
    BY <1>0, <1>2, <1>4, <2>5
  <2>8. \A i \in 1 .. Len(Drop(q, s)) : \E o \in 1 .. Len(q) : Drop(q, s)[i] = q[o]
    <3>1. \A i \in 1 .. Len(q) - 1 : i \in 1 .. Len(q) /\ i + 1 \in 1 .. Len(q)
      BY <1>0
    <3> QED
      BY <2>5, <3>1
  <2> QED
    BY <2>5, <2>6, <2>7, <2>8 DEF Tied
<1>5. ASSUME NEW k \in 1 .. Len(u), u[k] = s, ~(k <= Len(u) - Len(q))
      PROVE  \A i \in 1 .. Len(Drop(q, s)) : Drop(q, s)[i].sim # s
  <2>1. ASSUME NEW i \in 1 .. Len(Drop(q, s)) PROVE Drop(q, s)[i].sim # s
    <3>1. /\ Drop(q, s)[i].sim = DropId(u, s)[i + (Len(DropId(u, s)) - Len(Drop(q, s)))]
          /\ Len(DropId(u, s)) = Len(u) - 1 /\ Len(Drop(q, s)) = Len(q) - 1
      BY <1>2, <1>4, <1>5 DEF Tied
    <3>2. i + (Len(DropId(u, s)) - Len(Drop(q, s))) \in 1 .. Len(DropId(u, s))
      BY <1>0, <3>1
    <3> QED
      BY <1>2, <1>5, <3>1, <3>2
  <2> QED
    BY <2>1
<1>6. CASE \E k \in 1 .. Len(u) : u[k] = s
  <2>1. PICK k \in 1 .. Len(u) : u[k] = s
    BY <1>6
  <2>2. /\ DropId(u, s) \in Seq(Stored) /\ Once(DropId(u, s)) /\ \A i \in 1 .. Len(DropId(u, s)) : DropId(u, s)[i] # s
    BY <1>2, <2>1
  <2>3. CASE k <= Len(u) - Len(q)
    BY <1>0, <1>3, <2>1, <2>2, <2>3
  <2>4. CASE ~(k <= Len(u) - Len(q))
    <3>1. Len(Drop(q, s)) <= Len(q)
      BY <1>0, <1>4, <2>1, <2>4
    <3> QED
      BY <1>4, <1>5, <2>1, <2>2, <2>4, <3>1
  <2> QED
    BY <2>3, <2>4
<1> QED
  BY <1>1, <1>6

(* The simulation asked for becomes the one used last.                     *)
LEMMA MovedLast ==
  ASSUME NEW q \in Seq(Entries), NEW u \in Seq(Stored), Tied(q, u), Once(u), NEW e \in Entries,
         \A i \in 1 .. Len(u) : u[i] # e.sim
  PROVE  /\ Append(q, e) \in Seq(Entries) /\ Append(u, e.sim) \in Seq(Stored) /\ Len(Append(q, e)) = Len(q) + 1
         /\ Tied(Append(q, e), Append(u, e.sim)) /\ Once(Append(u, e.sim))
         /\ \A i \in 1 .. Len(Append(q, e)) : Append(q, e)[i] = e \/ \E j \in 1 .. Len(q) : Append(q, e)[i] = q[j]
<1>0. e.sim \in Stored /\ Len(q) \in Nat /\ Len(u) \in Nat /\ Len(q) <= Len(u)
  BY LenProperties DEF Entries, Tied
<1>1. /\ Append(q, e) \in Seq(Entries) /\ Len(Append(q, e)) = Len(q) + 1
      /\ \A i \in 1 .. Len(q) : Append(q, e)[i] = q[i]
      /\ Append(q, e)[Len(q) + 1] = e
  BY AppendProperties
<1>2. /\ Append(u, e.sim) \in Seq(Stored) /\ Len(Append(u, e.sim)) = Len(u) + 1
      /\ \A i \in 1 .. Len(u) : Append(u, e.sim)[i] = u[i]
      /\ Append(u, e.sim)[Len(u) + 1] = e.sim
  BY <1>0, AppendProperties
<1>3. Once(Append(u, e.sim))
  BY <1>0, <1>2 DEF Once
<1>4. ASSUME NEW i \in 1 .. Len(q) + 1 PROVE Append(q, e)[i].sim = Append(u, e.sim)[i + (Len(u) - Len(q))]
  <2>1. CASE i = Len(q) + 1
    <3>1. i + (Len(u) - Len(q)) = Len(u) + 1
      BY <1>0, <2>1
    <3> QED
      BY <1>1, <1>2, <2>1, <3>1
  <2>2. CASE i # Len(q) + 1
    <3>1. i \in 1 .. Len(q) /\ i + (Len(u) - Len(q)) \in 1 .. Len(u)
      BY <1>0, <2>2
    <3> QED
      BY <1>1, <1>2, <3>1 DEF Tied
  <2> QED
    BY <2>1, <2>2
<1>5. Len(Append(u, e.sim)) - Len(Append(q, e)) = Len(u) - Len(q) /\ Len(Append(q, e)) <= Len(Append(u, e.sim))
  BY <1>0, <1>1, <1>2
<1>6. Tied(Append(q, e), Append(u, e.sim))
  BY <1>1, <1>4, <1>5 DEF Tied
<1>7. \A i \in 1 .. Len(q) + 1 : Append(q, e)[i] = e \/ \E j \in 1 .. Len(q) : Append(q, e)[i] = q[j]
  BY <1>0, <1>1
<1> QED
  BY <1>1, <1>2, <1>3, <1>6, <1>7

LEMMA KeptLast ==
  ASSUME NEW q \in Seq(Entries), NEW u \in Seq(Stored), Tied(q, u), NEW n \in Nat \ {0}
  PROVE  /\ Kept(q, n) \in Seq(Entries) /\ Len(Kept(q, n)) <= n /\ Tied(Kept(q, n), u)
         /\ \A i \in 1 .. Len(Kept(q, n)) : \E j \in 1 .. Len(q) : Kept(q, n)[i] = q[j]
<1>0. Len(q) \in Nat /\ Len(u) \in Nat /\ Len(q) <= Len(u)
  BY LenProperties DEF Tied
<1>1. PICK m \in Nat : m = IF Len(q) > n THEN Len(q) - n ELSE 0
  <2>1. (IF Len(q) > n THEN Len(q) - n ELSE 0) \in Nat
    BY <1>0
  <2> QED
    BY <2>1
<1>2. m + 1 \in Nat \ {0} /\ m <= Len(q) /\ Len(q) - m <= n /\ Kept(q, n) = SubSeq(q, m + 1, Len(q))
  BY <1>0, <1>1 DEF Kept
<1>3. \A i \in m + 1 .. Len(q) : q[i] \in Entries
  BY <1>0, <1>1, ElementOfSeq
<1>4. /\ SubSeq(q, m + 1, Len(q)) \in Seq(Entries)
      /\ Len(SubSeq(q, m + 1, Len(q))) = (IF m + 1 <= Len(q) THEN Len(q) - (m + 1) + 1 ELSE 0)
      /\ \A i \in 1 .. Len(q) - (m + 1) + 1 : SubSeq(q, m + 1, Len(q))[i] = q[(m + 1) + i - 1]
  BY <1>0, <1>2, <1>3, SubSeqProperties
<1>5. \A i \in 1 .. Len(q) - m : i \in 1 .. Len(q) - (m + 1) + 1 /\ (m + 1) + i - 1 = m + i /\ m + i \in 1 .. Len(q)
  BY <1>0, <1>1
<1>6. /\ Len(Kept(q, n)) = Len(q) - m
      /\ \A i \in 1 .. Len(q) - m : Kept(q, n)[i] = q[m + i] /\ m + i \in 1 .. Len(q)
  BY <1>0, <1>2, <1>4, <1>5
<1>7. Tied(Kept(q, n), u)
  <2>1. ASSUME NEW i \in 1 .. Len(q) - m PROVE Kept(q, n)[i].sim = u[i + (Len(u) - (Len(q) - m))]
    <3>1. (m + i) + (Len(u) - Len(q)) = i + (Len(u) - (Len(q) - m))
      BY <1>0, <1>1
    <3> QED
      BY <1>6, <3>1 DEF Tied
  <2>2. Len(q) - m <= Len(u)
    BY <1>0, <1>1, <1>2
  <2> QED
    BY <1>6, <2>1, <2>2 DEF Tied
<1> QED
  BY <1>2, <1>4, <1>6, <1>7

LEMMA UsedLast ==
  ASSUME NEW q \in Seq(Entries), NEW u \in Seq(Stored), Tied(q, u), Once(u), NEW e \in Entries
  PROVE  /\ MovedToEnd(q, e) \in Seq(Entries) /\ Append(DropId(u, e.sim), e.sim) \in Seq(Stored)
         /\ Tied(MovedToEnd(q, e), Append(DropId(u, e.sim), e.sim)) /\ Once(Append(DropId(u, e.sim), e.sim))
         /\ (\E i \in 1 .. Len(q) : q[i].sim = e.sim) => Len(MovedToEnd(q, e)) = Len(q)
         /\ \A i \in 1 .. Len(MovedToEnd(q, e)) :
              MovedToEnd(q, e)[i] = e \/ \E j \in 1 .. Len(q) : MovedToEnd(q, e)[i] = q[j]
<1> DEFINE d == Drop(q, e.sim)
           w == DropId(u, e.sim)
<1>1. /\ d \in Seq(Entries) /\ w \in Seq(Stored) /\ Tied(d, w) /\ Once(w)
      /\ \A i \in 1 .. Len(w) : w[i] # e.sim
      /\ (\E i \in 1 .. Len(q) : q[i].sim = e.sim) => Len(d) = Len(q) - 1
      /\ \A i \in 1 .. Len(d) : \E j \in 1 .. Len(q) : d[i] = q[j]
  BY Dropped
<1> HIDE DEF d, w
<1>2. /\ Append(d, e) \in Seq(Entries) /\ Append(w, e.sim) \in Seq(Stored) /\ Len(Append(d, e)) = Len(d) + 1
      /\ Tied(Append(d, e), Append(w, e.sim)) /\ Once(Append(w, e.sim))
      /\ \A i \in 1 .. Len(Append(d, e)) : Append(d, e)[i] = e \/ \E j \in 1 .. Len(d) : Append(d, e)[i] = d[j]
  BY <1>1, MovedLast
<1>3. Len(q) \in Nat /\ ((\E i \in 1 .. Len(q) : q[i].sim = e.sim) => Len(Append(d, e)) = Len(q))
  BY <1>1, <1>2, LenProperties
<1>4. \A i \in 1 .. Len(Append(d, e)) : Append(d, e)[i] = e \/ \E j \in 1 .. Len(q) : Append(d, e)[i] = q[j]
  BY <1>1, <1>2
<1>5. MovedToEnd(q, e) = Append(d, e)
  BY DEF MovedToEnd, d
<1>6. Append(DropId(u, e.sim), e.sim) = Append(w, e.sim)
  BY DEF w
<1> QED
  BY <1>2, <1>3, <1>4, <1>5, <1>6

LEMMA Lateness ==
  ASSUME req \in Requests, NEW s
  PROVE  /\ [req EXCEPT !.late = @ \/ Writing(s)] \in Requests
         /\ \A r : r = [req EXCEPT !.late = @ \/ Writing(s)] =>
              /\ r.at = req.at /\ r.sim = req.sim /\ r.view = req.view /\ r.asked = req.asked
              /\ r.size = req.size /\ r.stamp = req.stamp /\ (r.late <=> req.late \/ Writing(s))
<1>1. (req.late \/ Writing(s)) \in BOOLEAN
  OBVIOUS
<1>2. PICK b \in BOOLEAN : b = (req.late \/ Writing(s))
  BY <1>1
<1>3. [req EXCEPT !.late = b] \in Requests
  BY DEF Requests
<1>4. [req EXCEPT !.late = @ \/ Writing(s)] = [req EXCEPT !.late = b]
  BY <1>2
<1>5. \A r : r = [req EXCEPT !.late = b] =>
              /\ r.at = req.at /\ r.sim = req.sim /\ r.view = req.view /\ r.asked = req.asked
              /\ r.size = req.size /\ r.stamp = req.stamp /\ r.late = b
  BY DEF Requests
<1>6. b <=> (req.late \/ Writing(s))
  BY <1>2
<1> QED
  BY <1>3, <1>4, <1>5, <1>6

LEMMA Stat ==
  ASSUME Typed, NEW s \in Stored
  PROVE  /\ file[s] \in Seq(1 .. MaxClock) /\ Len(file[s]) \in Nat /\ Mtime(s) \in 0 .. MaxClock /\ Mtime(s) \in Nat
         /\ Etag(s) = <<Mtime(s), Len(file[s])>> /\ Etag(s) \in Seq(Nat) /\ Etag(s)[2] = Len(file[s])
         /\ \A k \in 1 .. Len(file[s]) : file[s][k] \in 1 .. MaxClock
<1> USE SizeAssumption
<1>1. file[s] \in Seq(1 .. MaxClock)
  BY DEF Typed
<1>2. Len(file[s]) \in Nat /\ \A k \in 1 .. Len(file[s]) : file[s][k] \in 1 .. MaxClock
  BY <1>1, LenProperties, ElementOfSeq
<1>3. Mtime(s) \in 0 .. MaxClock /\ Mtime(s) \in Nat
  <2>1. CASE file[s] = <<>>
    BY <2>1 DEF Mtime
  <2>2. CASE file[s] # <<>>
    <3>1. Len(file[s]) \in 1 .. Len(file[s])
      BY <1>1, <1>2, <2>2, EmptySeq
    <3>2. Mtime(s) = file[s][Len(file[s])]
      BY <2>2 DEF Mtime, Last
    <3> QED
      BY <1>2, <3>1, <3>2
  <2> QED
    BY <2>1, <2>2
<1>4. Etag(s) = <<Mtime(s), Len(file[s])>> /\ Etag(s) \in Seq(Nat)
  BY <1>2, <1>3 DEF Etag
<1> QED
  BY <1>1, <1>2, <1>3, <1>4

-----------------------------------------------------------------------------
(* Every step keeps the types and the order of the entries.                *)
LEMMA RecentAtRest ==
  ASSUME Recent, UNCHANGED <<cache, used, live>>
  PROVE  Recent'
BY DEF Recent, Tied, Once

LEMMA KeptByFile ==
  ASSUME Typed, Recent, Tick \/ Load \/ Respond \/ \E s \in Stored : Write(s)
  PROVE  Typed' /\ Recent'
<1> USE SizeAssumption
<1>0. UNCHANGED <<cache, used, live>> /\ req \in Requests /\ browser \in Bodies
  BY DEF Tick, Load, Respond, Write, fileVars, Typed
<1>1. Recent'
  BY <1>0, RecentAtRest
<1>2. CASE Tick
  <2>1. clock' \in 1 .. MaxClock /\ UNCHANGED <<file, live, cache, used, browser, req>>
    BY <1>2 DEF Tick, Typed
  <2> QED
    BY <1>1, <2>1 DEF Typed
<1>3. CASE Load
  <2>1. req.sim \in Stored /\ req.at = "load" /\ req' = [req EXCEPT !.at = "store", !.size = Len(file[req.sim])]
    BY <1>3 DEF Load, Typed
  <2>2. Len(file[req.sim]) \in Nat
    BY <2>1, Stat
  <2>3. req' \in Requests /\ req'.at = "store" /\ req'.sim = req.sim
    BY <1>0, <2>1, <2>2 DEF Requests
  <2> QED
    BY <1>1, <1>3, <2>1, <2>3 DEF Load, Typed, fileVars
<1>4. CASE Respond
  <2>1. req.at = "answer" /\ req.sim \in Stored /\ req.sim \in live
    BY <1>4 DEF Respond, Typed
  <2>2. [sim |-> req.sim, view |-> req.view, etag |-> Etag(req.sim), size |-> req.size, stamp |-> req.stamp,
         late |-> req.late] \in Bodies
    BY <1>0, <2>1, Stat DEF Requests, Bodies
  <2>3. browser' \in Bodies
    BY <1>0, <1>4, <2>2 DEF Respond
  <2>4. req' \in Requests /\ req'.at = "idle"
    BY <1>0, <1>4 DEF Respond, Requests, Rest
  <2> QED
    BY <1>1, <1>4, <2>3, <2>4 DEF Respond, Typed, fileVars
<1>5. ASSUME NEW s \in Stored, Write(s) PROVE Typed'
  <2>1. file' = [file EXCEPT ![s] = Append(file[s], clock)]
    BY <1>5 DEF Write
  <2>2. Append(file[s], clock) \in Seq(1 .. MaxClock)
    BY Stat, AppendProperties DEF Typed
  <2>3. file' \in [Stored -> Seq(1 .. MaxClock)]
    BY <2>1, <2>2 DEF Typed
  <2>4. req' = [req EXCEPT !.late = @ \/ Writing(s)]
    BY <1>5 DEF Write
  <2>5. req' \in Requests /\ req'.at = req.at /\ req'.sim = req.sim
    BY <1>0, <2>4, Lateness
  <2> QED
    BY <1>5, <2>3, <2>5 DEF Write, Typed
<1> QED
  BY <1>1, <1>2, <1>3, <1>4, <1>5

(* What the entries of the caches are after a step.                        *)
AddsOnly(e) ==
  \A x \in Views : \A i \in 1 .. Len(cache'[x]) :
    cache'[x][i] = e \/ \E j \in 1 .. Len(cache[x]) : cache'[x][i] = cache[x][j]

AddsNone ==
  \A x \in Views : \A i \in 1 .. Len(cache'[x]) : \E j \in 1 .. Len(cache[x]) : cache'[x][i] = cache[x][j]

(* One cache gets e as its last entry; afterwards it may be cut to size.   *)
LEMMA RecentUsed ==
  ASSUME Typed, Recent, NEW v \in Views, NEW e \in Entries, e.sim \in live, UNCHANGED live,
         used' = [used EXCEPT ![v] = Append(DropId(used[v], e.sim), e.sim)],
         \/ /\ cache' = [cache EXCEPT ![v] = MovedToEnd(cache[v], e)]
            /\ \E i \in 1 .. Len(cache[v]) : cache[v][i].sim = e.sim
         \/ cache' = [cache EXCEPT ![v] = Kept(MovedToEnd(cache[v], e), Size[v])]
  PROVE  /\ Recent' /\ cache' \in [Views -> Seq(Entries)] /\ used' \in [Views -> Seq(Stored)]
         /\ AddsOnly(e)
<1> DEFINE m == MovedToEnd(cache[v], e)
           w == Append(DropId(used[v], e.sim), e.sim)
<1>1. cache[v] \in Seq(Entries) /\ used[v] \in Seq(Stored) /\ Tied(cache[v], used[v]) /\ Once(used[v]) /\ Len(cache[v]) <= Size[v]
      /\ Size[v] \in Nat \ {0}
  BY SizeAssumption DEF Typed, Recent
<1>a. PICK c \in Seq(Entries) : c = cache[v]
  BY <1>1
<1>b. PICK u \in Seq(Stored) : u = used[v]
  BY <1>1
<1>c. Tied(c, u) /\ Once(u)
  BY <1>1, <1>a, <1>b
<1>d. /\ MovedToEnd(c, e) \in Seq(Entries) /\ Append(DropId(u, e.sim), e.sim) \in Seq(Stored)
      /\ Tied(MovedToEnd(c, e), Append(DropId(u, e.sim), e.sim)) /\ Once(Append(DropId(u, e.sim), e.sim))
      /\ (\E i \in 1 .. Len(c) : c[i].sim = e.sim) => Len(MovedToEnd(c, e)) = Len(c)
      /\ \A i \in 1 .. Len(MovedToEnd(c, e)) :
           MovedToEnd(c, e)[i] = e \/ \E j \in 1 .. Len(c) : MovedToEnd(c, e)[i] = c[j]
  BY <1>c, UsedLast
<1>e. m = MovedToEnd(c, e) /\ w = Append(DropId(u, e.sim), e.sim)
  BY <1>a, <1>b
<1>2. /\ m \in Seq(Entries) /\ w \in Seq(Stored) /\ Tied(m, w) /\ Once(w)
      /\ (\E i \in 1 .. Len(cache[v]) : cache[v][i].sim = e.sim) => Len(m) = Len(cache[v])
      /\ \A i \in 1 .. Len(m) : m[i] = e \/ \E j \in 1 .. Len(cache[v]) : m[i] = cache[v][j]
  <2> HIDE DEF m, w
  <2> QED
    BY <1>a, <1>d, <1>e
<1>3. PICK q : /\ cache' = [cache EXCEPT ![v] = q]
               /\ \/ q = m /\ \E i \in 1 .. Len(cache[v]) : cache[v][i].sim = e.sim
                  \/ q = Kept(m, Size[v])
  OBVIOUS
<1>4. used' = [used EXCEPT ![v] = w]
  OBVIOUS
<1> HIDE DEF m, w
<1>5. /\ q \in Seq(Entries) /\ Len(q) <= Size[v] /\ Tied(q, w)
      /\ \A i \in 1 .. Len(q) : q[i] = e \/ \E j \in 1 .. Len(cache[v]) : q[i] = cache[v][j]
  <2>1. CASE q = m /\ \E i \in 1 .. Len(cache[v]) : cache[v][i].sim = e.sim
    BY <1>1, <1>2, <2>1
  <2>2. CASE q = Kept(m, Size[v])
    <3>1. /\ q \in Seq(Entries) /\ Len(q) <= Size[v] /\ Tied(q, w)
          /\ \A i \in 1 .. Len(q) : \E j \in 1 .. Len(m) : q[i] = m[j]
      <4>1. PICK n \in Nat \ {0} : n = Size[v]
        BY <1>1
      <4>2. /\ Kept(m, n) \in Seq(Entries) /\ Len(Kept(m, n)) <= n /\ Tied(Kept(m, n), w)
            /\ \A i \in 1 .. Len(Kept(m, n)) : \E j \in 1 .. Len(m) : Kept(m, n)[i] = m[j]
        BY <1>2, KeptLast
      <4>3. q = Kept(m, n)
        BY <2>2, <4>1
      <4> QED
        BY <4>1, <4>2, <4>3
    <3>2. \A i \in 1 .. Len(q) : q[i] = e \/ \E j \in 1 .. Len(cache[v]) : q[i] = cache[v][j]
      BY <1>2, <3>1
    <3> QED
      BY <3>1, <3>2
  <2> QED
    BY <1>3, <2>1, <2>2
<1>6. cache' \in [Views -> Seq(Entries)] /\ cache'[v] = q /\ \A x \in Views : x # v => cache'[x] = cache[x]
  BY <1>3, <1>5 DEF Typed
<1>7. used' \in [Views -> Seq(Stored)] /\ used'[v] = w /\ \A x \in Views : x # v => used'[x] = used[x]
  BY <1>2, <1>4 DEF Typed
<1>8. \A x \in Views : Tied(cache'[x], used'[x]) /\ Once(used'[x]) /\ Len(cache'[x]) <= Size[x]
  BY <1>2, <1>5, <1>6, <1>7 DEF Recent
<1>9. \A i \in 1 .. Len(cache'["index"]) : cache'["index"][i].sim \in live'
  <2>1. CASE v = "index"
    BY <1>5, <1>6, <2>1 DEF Recent
  <2>2. CASE v # "index"
    BY <1>6, <2>2, SizeAssumption DEF Recent
  <2> QED
    BY <2>1, <2>2
<1>10. AddsOnly(e)
  <2>1. \A x \in Views : x = v \/ cache'[x] = cache[x]
    BY <1>6
  <2>2. \A i \in 1 .. Len(cache'[v]) : cache'[v][i] = e \/ \E j \in 1 .. Len(cache[v]) : cache'[v][i] = cache[v][j]
    BY <1>5, <1>6
  <2> QED
    BY <2>1, <2>2 DEF AddsOnly
<1> QED
  BY <1>6, <1>7, <1>8, <1>9, <1>10 DEF Recent

(* The index cache loses a simulation.                                     *)
LEMMA RecentDropped ==
  ASSUME Typed, Recent, NEW s, live \ {s} \subseteq live', live' \subseteq live,
         cache' = [cache EXCEPT !["index"] = Drop(cache["index"], s)],
         used' = [used EXCEPT !["index"] = DropId(used["index"], s)]
  PROVE  /\ Recent' /\ cache' \in [Views -> Seq(Entries)] /\ used' \in [Views -> Seq(Stored)]
         /\ AddsNone
<1> DEFINE d == Drop(cache["index"], s)
           w == DropId(used["index"], s)
<1>1. /\ cache["index"] \in Seq(Entries) /\ used["index"] \in Seq(Stored) /\ Tied(cache["index"], used["index"])
      /\ Once(used["index"]) /\ Len(cache["index"]) <= Size["index"] /\ "index" \in Views /\ Size["index"] \in Nat
  BY SizeAssumption DEF Typed, Recent
<1>2. /\ d \in Seq(Entries) /\ w \in Seq(Stored) /\ Tied(d, w) /\ Once(w) /\ Len(d) <= Len(cache["index"])
      /\ \A i \in 1 .. Len(d) : d[i].sim # s /\ \E j \in 1 .. Len(cache["index"]) : d[i] = cache["index"][j]
  <2>1. PICK q \in Seq(Entries) : q = cache["index"]
    BY <1>1
  <2>2. PICK u \in Seq(Stored) : u = used["index"]
    BY <1>1
  <2>3. Tied(q, u) /\ Once(u)
    BY <1>1, <2>1, <2>2
  <2>4. /\ Drop(q, s) \in Seq(Entries) /\ DropId(u, s) \in Seq(Stored)
        /\ Tied(Drop(q, s), DropId(u, s)) /\ Once(DropId(u, s)) /\ Len(Drop(q, s)) <= Len(q)
        /\ \A i \in 1 .. Len(Drop(q, s)) : Drop(q, s)[i].sim # s /\ \E j \in 1 .. Len(q) : Drop(q, s)[i] = q[j]
    BY <2>3, Dropped
  <2>5. d = Drop(q, s) /\ w = DropId(u, s)
    BY <2>1, <2>2
  <2> HIDE DEF d, w
  <2> QED
    BY <2>1, <2>4, <2>5
<1>3. cache' = [cache EXCEPT !["index"] = d] /\ used' = [used EXCEPT !["index"] = w]
  OBVIOUS
<1> HIDE DEF d, w
<1>4. Len(d) \in Nat /\ Len(cache["index"]) \in Nat /\ Len(d) <= Size["index"]
  BY <1>1, <1>2, LenProperties
<1>5. cache' \in [Views -> Seq(Entries)] /\ cache'["index"] = d /\ \A x \in Views : x # "index" => cache'[x] = cache[x]
  BY <1>1, <1>2, <1>3 DEF Typed
<1>6. used' \in [Views -> Seq(Stored)] /\ used'["index"] = w /\ \A x \in Views : x # "index" => used'[x] = used[x]
  BY <1>1, <1>2, <1>3 DEF Typed
<1>7. \A x \in Views : Tied(cache'[x], used'[x]) /\ Once(used'[x]) /\ Len(cache'[x]) <= Size[x]
  BY <1>2, <1>4, <1>5, <1>6 DEF Recent
<1>8. \A i \in 1 .. Len(d) : d[i].sim \in live'
  BY <1>2 DEF Recent
<1>9. AddsNone
  BY <1>2, <1>5 DEF AddsNone
<1> QED
  BY <1>5, <1>6, <1>7, <1>8, <1>9 DEF Recent

(* An answer from the cache comes from an entry of it.                     *)
LEMMA Hit ==
  ASSUME Typed, NEW v \in Views, NEW s, NEW e \in FreshEntry(v, s)
  PROVE  /\ e \in Entries /\ e.sim = s /\ e.stamp >= Mtime(s)
         /\ \E i \in 1 .. Len(cache[v]) : cache[v][i] = e
BY LenProperties, ElementOfSeq DEF FreshEntry, Entry, ToSet, Typed

LEMMA KeptByAsking ==
  ASSUME Typed, Recent, NEW v \in Views, NEW s \in Stored, Ask(v, s)
  PROVE  Typed' /\ Recent'
<1>0. req.at = "idle" /\ s \in live /\ UNCHANGED <<fileVars, browser>> /\ UNCHANGED live
  BY DEF Ask, fileVars
<1>1. ASSUME NEW e \in FreshEntry(v, s),
             cache' = [cache EXCEPT ![v] = Touch(@, e)], used' = [used EXCEPT ![v] = Append(DropId(@, s), s)],
             req' = [at |-> "answer", sim |-> s, view |-> v, asked |-> Len(file[s]),
                     size |-> e.size, stamp |-> e.stamp, late |-> FALSE]
      PROVE  Typed' /\ Recent'
  <2>1. e \in Entries /\ e.sim = s /\ \E i \in 1 .. Len(cache[v]) : cache[v][i] = e
    BY Hit
  <2>2. Recent' /\ cache' \in [Views -> Seq(Entries)] /\ used' \in [Views -> Seq(Stored)]
    <3>1. cache' = [cache EXCEPT ![v] = MovedToEnd(cache[v], e)]
      BY <1>1 DEF Touch
    <3>2. used' = [used EXCEPT ![v] = Append(DropId(used[v], e.sim), e.sim)]
      BY <1>1, <2>1
    <3>3. \E i \in 1 .. Len(cache[v]) : cache[v][i].sim = e.sim
      BY <2>1
    <3> QED
      BY <1>0, <2>1, <3>1, <3>2, <3>3, RecentUsed
  <2>3. req' \in Requests /\ req'.sim = s
    BY <1>1, <2>1, Stat DEF Requests, Entries
  <2> QED
    BY <1>0, <2>2, <2>3 DEF Typed, fileVars
<1>2. ASSUME req' = [at |-> "load", sim |-> s, view |-> v, asked |-> Len(file[s]),
                     size |-> 0, stamp |-> Mtime(s), late |-> FALSE]
      PROVE  req' \in Requests /\ req'.sim = s
  BY <1>2, Stat DEF Requests
<1>3. CASE /\ v = "index" /\ cache' = [cache EXCEPT ![v] = Drop(@, s)] /\ used' = [used EXCEPT ![v] = DropId(@, s)]
           /\ req' = [at |-> "load", sim |-> s, view |-> v, asked |-> Len(file[s]),
                      size |-> 0, stamp |-> Mtime(s), late |-> FALSE]
  <2>1. Recent' /\ cache' \in [Views -> Seq(Entries)] /\ used' \in [Views -> Seq(Stored)]
    BY <1>0, <1>3, RecentDropped
  <2> QED
    BY <1>0, <1>2, <1>3, <2>1 DEF Typed, fileVars
<1>4. CASE /\ UNCHANGED <<cache, used>>
           /\ req' = [at |-> "load", sim |-> s, view |-> v, asked |-> Len(file[s]),
                      size |-> 0, stamp |-> Mtime(s), late |-> FALSE]
  BY <1>0, <1>2, <1>4, RecentAtRest DEF Typed, fileVars
<1> QED
  BY <1>1, <1>3, <1>4 DEF Ask

LEMMA KeptByStoring ==
  ASSUME Typed, Recent, Store
  PROVE  Typed' /\ Recent'
<1>0. /\ req.at = "store" /\ UNCHANGED <<fileVars, browser>> /\ UNCHANGED live /\ req \in Requests
      /\ req.sim \in live /\ req.sim \in Stored /\ req.view \in Views
  BY DEF Store, fileVars, Typed, Requests
<1>1. PICK e \in Entries : e = [sim |-> req.sim, stamp |-> Stamp(req), size |-> req.size]
  BY <1>0 DEF Entries, Stamp, Requests
<1>2. PICK v \in Views : v = req.view
  BY <1>0
<1>3. /\ cache' = [cache EXCEPT ![v] = Kept(MovedToEnd(cache[v], e), Size[v])]
      /\ used' = [used EXCEPT ![v] = Append(DropId(used[v], e.sim), e.sim)]
      /\ req' = [req EXCEPT !.at = "answer", !.stamp = e.stamp]
  BY <1>1, <1>2 DEF Store
<1>4. Recent' /\ cache' \in [Views -> Seq(Entries)] /\ used' \in [Views -> Seq(Stored)]
  BY <1>0, <1>1, <1>3, RecentUsed
<1>5. req' \in Requests /\ req'.sim = req.sim
  BY <1>0, <1>1, <1>3 DEF Requests, Entries
<1> QED
  BY <1>0, <1>4, <1>5 DEF Typed, fileVars

LEMMA KeptByLosing ==
  ASSUME Typed, Recent, CacheLost \/ \E s \in Stored : Delete(s)
  PROVE  Typed' /\ Recent'
<1> USE SizeAssumption
<1>0. Rest \in Requests /\ Rest.at = "idle"
  BY DEF Rest, Requests
<1>1. CASE CacheLost
  <2>1. cache' = [v \in Views |-> <<>>] /\ used' = [v \in Views |-> <<>>] /\ req' = Rest /\ UNCHANGED <<fileVars, browser>>
    BY <1>1 DEF CacheLost
  <2>2. Recent'
    BY <2>1 DEF Recent, Tied, Once
  <2> QED
    BY <1>0, <2>1, <2>2 DEF Typed, fileVars
<1>2. ASSUME NEW s \in Stored, Delete(s) PROVE Typed' /\ Recent'
  <2>1. /\ live' = live \ {s} /\ req' = Rest /\ UNCHANGED <<file, clock, browser>>
        /\ cache' = [cache EXCEPT !["index"] = Drop(cache["index"], s)]
        /\ used' = [used EXCEPT !["index"] = DropId(used["index"], s)]
    BY <1>2 DEF Delete, Evicted
  <2>2. Recent' /\ cache' \in [Views -> Seq(Entries)] /\ used' \in [Views -> Seq(Stored)]
    BY <2>1, RecentDropped
  <2> QED
    BY <1>0, <2>1, <2>2 DEF Typed
<1> QED
  BY <1>1, <1>2

LEMMA CacheStart == CacheInit => Typed /\ Recent
<1> SUFFICES ASSUME CacheInit PROVE Typed /\ Recent
  OBVIOUS
<1> USE SizeAssumption
<1>1. /\ cache = [v \in Views |-> <<>>] /\ used = [v \in Views |-> <<>>] /\ live = Stored /\ clock = 1
      /\ browser = NoBody /\ req = Rest
  BY DEF CacheInit
<1>2. file \in [Stored -> Seq(1 .. MaxClock)]
  <2>1. <<>> \in Seq(1 .. MaxClock) /\ <<1>> \in Seq(1 .. MaxClock)
    BY DEF CacheInit
  <2> QED
    BY <2>1 DEF CacheInit
<1>3. req \in Requests /\ browser \in Bodies /\ req.at = "idle"
  BY <1>1 DEF Rest, NoBody, Requests, Bodies
<1> QED
  BY <1>1, <1>2, <1>3 DEF Typed, Recent, Tied, Once

LEMMA CacheStep ==
  ASSUME Typed, Recent, [CacheNext]_cacheVars
  PROVE  Typed' /\ Recent'
<1>1. CASE UNCHANGED cacheVars
  BY <1>1, RecentAtRest DEF cacheVars, fileVars, Typed
<1> QED
  BY <1>1, KeptByFile, KeptByAsking, KeptByStoring, KeptByLosing DEF CacheNext
-----------------------------------------------------------------------------
(* A sequence tied to the end of another is a suffix of it.                *)
LEMMA SuffixOf ==
  ASSUME NEW S, NEW s \in Seq(S), NEW t \in Seq(S), Len(s) <= Len(t),
         \A i \in 1 .. Len(s) : s[i] = t[i + (Len(t) - Len(s))]
  PROVE  IsSuffix(s, t)
<1>1. Len(s) \in Nat /\ Len(t) \in Nat /\ \A i \in 1 .. Len(t) : t[i] \in S
  BY LenProperties, ElementOfSeq
<1>2. \A i \in 1 .. Len(s) : (Len(s) - i) + 1 \in 1 .. Len(s) /\ s[(Len(s) - i) + 1] \in S
  BY <1>1, ElementOfSeq
<1>3. \A i \in 1 .. Len(t) : (Len(t) - i) + 1 \in 1 .. Len(t)
  BY <1>1
<1>4. PICK a : a = Reverse(s)
  OBVIOUS
<1>5. PICK b : b = Reverse(t)
  OBVIOUS
<1>6. a \in Seq(S) /\ Len(a) = Len(s) /\ \A i \in 1 .. Len(s) : a[i] = s[(Len(s) - i) + 1]
  BY <1>1, <1>2, <1>4 DEF Reverse
<1>7. b \in Seq(S) /\ Len(b) = Len(t) /\ \A i \in 1 .. Len(t) : b[i] = t[(Len(t) - i) + 1]
  BY <1>1, <1>3, <1>5 DEF Reverse
<1>8. ASSUME NEW i \in 1 .. Len(s) PROVE a[i] = b[i]
  <2>1. ((Len(s) - i) + 1) + (Len(t) - Len(s)) = (Len(t) - i) + 1 /\ i \in 1 .. Len(t)
    BY <1>1
  <2>2. PICK h \in 1 .. Len(s) : h = (Len(s) - i) + 1
    BY <1>2
  <2>3. a[i] = s[h]
    BY <1>6, <2>2
  <2>4. s[h] = t[h + (Len(t) - Len(s))]
    OBVIOUS
  <2>5. h + (Len(t) - Len(s)) = (Len(t) - i) + 1
    BY <2>1, <2>2
  <2>6. b[i] = t[(Len(t) - i) + 1]
    BY <1>7, <2>1
  <2> QED
    BY <2>3, <2>4, <2>5, <2>6
<1>9. SubSeq(a, 1, Len(a)) = SubSeq(b, 1, Len(a))
  BY <1>1, <1>6, <1>7, <1>8
<1> QED
  BY <1>4, <1>5, <1>6, <1>7, <1>9 DEF IsSuffix, IsPrefix

LEMMA RecentIsMeant ==
  ASSUME Typed, Recent
  PROVE  CacheIsRecent
<1>1. ASSUME NEW v \in Views
      PROVE  /\ cache[v] \in Seq(Entries) /\ used[v] \in Seq(Stored) /\ Tied(cache[v], used[v]) /\ Once(used[v])
             /\ Len(cache[v]) <= Size[v] /\ DOMAIN cache[v] = 1 .. Len(cache[v])
             /\ Len(cache[v]) \in Nat /\ Len(used[v]) \in Nat /\ Len(cache[v]) <= Len(used[v])
             /\ \A i \in 1 .. Len(cache[v]) : cache[v][i].sim \in Stored
  <2>1. cache[v] \in Seq(Entries) /\ used[v] \in Seq(Stored)
    BY DEF Typed
  <2>2. DOMAIN cache[v] = 1 .. Len(cache[v]) /\ Len(cache[v]) \in Nat /\ Len(used[v]) \in Nat
    BY <2>1, LenProperties
  <2>3. \A i \in 1 .. Len(cache[v]) : cache[v][i].sim \in Stored
    <3>1. ASSUME NEW i \in 1 .. Len(cache[v]) PROVE cache[v][i] \in Entries
      BY <2>1, ElementOfSeq
    <3> QED
      BY <3>1 DEF Entries
  <2>4. Tied(cache[v], used[v]) /\ Once(used[v]) /\ Len(cache[v]) <= Size[v]
    BY DEF Recent
  <2>5. Len(cache[v]) <= Len(used[v])
    BY <2>4 DEF Tied
  <2> QED
    BY <2>1, <2>2, <2>3, <2>4, <2>5
<1>2. CacheTypeOK
  <2>1. \A v \in Views : cache[v] \in Seq([sim : Stored, stamp : Nat, size : Nat]) /\ Len(cache[v]) <= Size[v]
                         /\ used[v] \in Seq(Stored)
    BY <1>1 DEF Entries
  <2>2. clock \in 0 .. MaxClock
    BY SizeAssumption DEF Typed
  <2>3. browser.sim \in Stored \cup {None} /\ browser.size \in Nat /\ browser.etag \in Seq(Nat)
    BY DEF Typed, Bodies
  <2>4. req.at \in {"idle", "load", "store", "answer"} /\ req.view \in Views
    BY DEF Typed, Requests
  <2> QED
    BY <2>1, <2>2, <2>3, <2>4 DEF CacheTypeOK, Typed
<1>3. ASSUME NEW v \in Views PROVE IsSuffix([i \in DOMAIN cache[v] |-> cache[v][i].sim], used[v])
  <2>1. PICK n \in Nat : n = Len(cache[v])
    BY <1>1
  <2>2. PICK s : s = [i \in 1 .. n |-> cache[v][i].sim]
    OBVIOUS
  <2>3. s \in Seq(Stored) /\ Len(s) = n /\ \A i \in 1 .. n : s[i] = cache[v][i].sim
    BY <1>1, <2>1, <2>2
  <2>4. Len(s) <= Len(used[v]) /\ \A i \in 1 .. Len(s) : s[i] = used[v][i + (Len(used[v]) - Len(s))]
    BY <1>1, <2>1, <2>3 DEF Tied
  <2>5. IsSuffix(s, used[v])
    BY <1>1, <2>3, <2>4, SuffixOf
  <2> QED
    BY <1>1, <2>1, <2>2, <2>5
<1>4. ASSUME NEW v \in Views, NEW i \in DOMAIN cache[v], NEW j \in DOMAIN cache[v], cache[v][i].sim = cache[v][j].sim
      PROVE  i = j
  <2>1. PICK n \in Nat : n = Len(cache[v]) /\ DOMAIN cache[v] = 1 .. n
    BY <1>1
  <2>2. PICK m \in Nat : m = Len(used[v]) /\ n <= m
    BY <1>1, <2>1
  <2>3. i \in 1 .. n /\ j \in 1 .. n
    BY <1>4, <2>1
  <2>4. i + (m - n) \in 1 .. m /\ j + (m - n) \in 1 .. m
    BY <2>2, <2>3
  <2>5. used[v][i + (m - n)] = used[v][j + (m - n)]
    BY <1>1, <1>4, <2>1, <2>2, <2>3 DEF Tied
  <2>6. i + (m - n) = j + (m - n)
    BY <1>1, <2>2, <2>4, <2>5 DEF Once
  <2> QED
    BY <2>2, <2>3, <2>6
<1>5. \A e \in ToSet(cache["index"]) : e.sim \in live
  BY <1>1, SizeAssumption DEF ToSet, Recent
<1> QED
  BY <1>2, <1>3, <1>4, <1>5 DEF CacheIsRecent, KeepsMostRecent, DeletedIsUnmapped

(* Whatever is asked, deleted and restarted: each cache holds the          *)
(* simulations used last, up to its size, in the order of their use and    *)
(* once each, and the index cache maps no file of a deleted simulation.    *)
THEOREM CachesKeepTheRecent == CacheSpec => []CacheIsRecent
<1>1. CacheInit => Typed /\ Recent
  BY CacheStart
<1>2. (Typed /\ Recent) /\ [CacheNext]_cacheVars => (Typed /\ Recent)'
  BY CacheStep
<1>3. Typed /\ Recent => CacheIsRecent
  BY RecentIsMeant
<1> QED
  BY <1>1, <1>2, <1>3, PTL DEF CacheSpec
-----------------------------------------------------------------------------
(* What was read of a file misses only events written in the tick of its   *)
(* stamp or later; what was answered, only events of that very tick, or    *)
(* lus wrote while the answer was prepared.                                *)
Grows ==
  \A s \in Stored : \A i \in 1 .. Len(file[s]) :
    file[s][i] <= clock /\ \A j \in 1 .. Len(file[s]) : i <= j => file[s][i] <= file[s][j]

Covers(e)   == e.stamp <= clock /\ \A k \in e.size + 1 .. Len(file[e.sim]) : file[e.sim][k] >= e.stamp
Shows(b, n) == \A k \in b.size + 1 .. n : file[b.sim][k] = b.stamp \/ b.late

EntriesCover == \A v \in Views : \A i \in 1 .. Len(cache[v]) : Covers(cache[v][i])

AskedIsThere == req.at # "idle" => req.asked <= Len(file[req.sim])
Reading      == req.at = "load" => req.stamp <= clock
HasRead      == req.at = "store" => Covers(req)
MayAnswer    == req.at \in {"store", "answer"} => Shows(req, Len(file[req.sim]))
Answered     == req.at = "idle" /\ req.sim # None => browser.sim = req.sim /\ req.asked <= browser.etag[2]
BodyShows ==
  browser.sim # None =>
    /\ browser.etag[2] \in Nat /\ browser.etag[2] <= Len(file[browser.sim])
    /\ Shows(browser, browser.etag[2])

UpToDate ==
  /\ Grows /\ EntriesCover
  /\ AskedIsThere /\ Reading /\ HasRead /\ MayAnswer
  /\ Answered /\ BodyShows

LEMMA FreshStart == CacheInit => UpToDate
<1> SUFFICES ASSUME CacheInit PROVE UpToDate
  OBVIOUS
<1>1. /\ cache = [v \in Views |-> <<>>] /\ clock = 1 /\ browser.sim = None /\ req.at = "idle" /\ req.sim = None
  BY DEF CacheInit, NoBody, Rest
<1>2. Grows
  <2>1. \A s \in Stored : file[s] = <<>> \/ file[s] = <<1>>
    BY DEF CacheInit
  <2>2. Len(<<>>) = 0 /\ Len(<<1>>) = 1 /\ <<1>>[1] = 1
    OBVIOUS
  <2> QED
    BY <1>1, <2>1, <2>2 DEF Grows
<1>3. EntriesCover
  BY <1>1 DEF EntriesCover
<1> QED
  BY <1>1, <1>2, <1>3 DEF UpToDate, AskedIsThere, Reading, HasRead, MayAnswer, Answered, BodyShows

(* The types, where the arithmetic needs them.                             *)
LEMMA Numbers ==
  ASSUME Typed
  PROVE  /\ clock \in Nat /\ req \in Requests /\ browser \in Bodies
         /\ req.asked \in Nat /\ req.size \in Nat /\ req.stamp \in Nat /\ browser.size \in Nat /\ browser.stamp \in Nat
         /\ req.at # "idle" => req.sim \in Stored
         /\ req.sim # None => req.sim \in Stored
         /\ browser.sim # None => browser.sim \in Stored
         /\ \A s \in Stored : Len(file[s]) \in Nat /\ \A k \in 1 .. Len(file[s]) : file[s][k] \in Nat
         /\ \A v \in Views : \A i \in 1 .. Len(cache[v]) :
              cache[v][i].sim \in Stored /\ cache[v][i].size \in Nat /\ cache[v][i].stamp \in Nat
<1> USE SizeAssumption
<1>1. \A s \in Stored : Len(file[s]) \in Nat /\ \A k \in 1 .. Len(file[s]) : file[s][k] \in Nat
  BY Stat
<1>2. ASSUME NEW v \in Views, NEW i \in 1 .. Len(cache[v])
      PROVE  cache[v][i].sim \in Stored /\ cache[v][i].size \in Nat /\ cache[v][i].stamp \in Nat
  <2>1. cache[v][i] \in Entries
    BY ElementOfSeq DEF Typed
  <2> QED
    BY <2>1 DEF Entries
<1>3. clock \in Nat /\ req \in Requests /\ browser \in Bodies /\ live \subseteq Stored
  BY DEF Typed
<1>4. /\ req.asked \in Nat /\ req.size \in Nat /\ req.stamp \in Nat /\ browser.size \in Nat /\ browser.stamp \in Nat
      /\ req.sim \in Stored \cup {None} /\ browser.sim \in Stored \cup {None}
  BY <1>3 DEF Requests, Bodies
<1>5. req.at # "idle" => req.sim \in Stored
  BY <1>3 DEF Typed
<1> QED
  BY <1>1, <1>2, <1>3, <1>4, <1>5

(* What happens to a file of which something was read.                     *)
LEMMA FreshByWriting ==
  ASSUME Typed, UpToDate, NEW s \in Stored, Write(s)
  PROVE  UpToDate'
<1>1. /\ file' = [file EXCEPT ![s] = Append(file[s], clock)] /\ UNCHANGED <<clock, cache, browser>>
      /\ req' = [req EXCEPT !.late = @ \/ Writing(s)]
  BY DEF Write
<1>2. /\ req'.at = req.at /\ req'.sim = req.sim /\ req'.view = req.view /\ req'.asked = req.asked
      /\ req'.size = req.size /\ req'.stamp = req.stamp /\ (req'.late <=> req.late \/ Writing(s))
  BY <1>1, Numbers, Lateness
<1>3. ASSUME NEW x \in Stored
      PROVE  /\ Len(file'[x]) \in Nat /\ Len(file[x]) <= Len(file'[x])
             /\ \A k \in 1 .. Len(file[x]) : file'[x][k] = file[x][k]
             /\ \A k \in 1 .. Len(file'[x]) : k \in 1 .. Len(file[x]) \/ (x = s /\ file'[x][k] = clock)
  <2>1. CASE x = s
    <3>1. file[s] \in Seq(1 .. MaxClock) /\ clock \in 1 .. MaxClock /\ file'[s] = Append(file[s], clock)
      BY <1>1 DEF Typed
    <3>2. /\ Len(file'[s]) = Len(file[s]) + 1 /\ file'[s][Len(file[s]) + 1] = clock
          /\ \A k \in 1 .. Len(file[s]) : file'[s][k] = file[s][k]
      BY <3>1, AppendProperties
    <3>3. PICK n \in Nat : n = Len(file[s])
      BY Numbers
    <3>4. /\ Len(file'[x]) = n + 1 /\ file'[x][n + 1] = clock /\ Len(file[x]) = n
          /\ \A k \in 1 .. n : file'[x][k] = file[x][k]
      BY <2>1, <3>2, <3>3
    <3>5. n + 1 \in Nat /\ n <= n + 1 /\ \A k \in 1 .. n + 1 : k \in 1 .. n \/ k = n + 1
      OBVIOUS
    <3> QED
      BY <2>1, <3>4, <3>5
  <2>2. CASE x # s
    <3>1. PICK n \in Nat : n = Len(file[x])
      BY Numbers
    <3>2. file'[x] = file[x] /\ Len(file'[x]) = n /\ Len(file[x]) = n /\ n <= n
      BY <1>1, <2>2, <3>1 DEF Typed
    <3> QED
      BY <3>2
  <2> QED
    BY <2>1, <2>2
<1>4. ASSUME NEW e, e.sim \in Stored, e.size \in Nat, e.stamp \in Nat, Covers(e)
      PROVE  e.stamp <= clock' /\ \A k \in e.size + 1 .. Len(file'[e.sim]) : file'[e.sim][k] >= e.stamp
  <2>1. e.stamp <= clock /\ \A k \in e.size + 1 .. Len(file[e.sim]) : file[e.sim][k] >= e.stamp
    BY <1>4 DEF Covers
  <2>2. clock \in Nat /\ Len(file[e.sim]) \in Nat
    BY <1>4, Numbers
  <2>3. ASSUME NEW k \in e.size + 1 .. Len(file'[e.sim]) PROVE file'[e.sim][k] >= e.stamp
    <3>1. k \in 1 .. Len(file'[e.sim])
      BY <1>3, <1>4
    <3>2. CASE k \in 1 .. Len(file[e.sim])
      <4>1. k \in e.size + 1 .. Len(file[e.sim])
        BY <1>3, <1>4, <2>2, <3>2
      <4> QED
        BY <1>3, <1>4, <2>1, <3>2, <4>1
    <3>3. CASE file'[e.sim][k] = clock
      BY <1>4, <2>1, <2>2, <3>3
    <3> QED
      BY <1>3, <1>4, <3>1, <3>2, <3>3
  <2> QED
    BY <1>1, <2>1, <2>3
<1>5. Grows'
  <2>1. ASSUME NEW x \in Stored, NEW i \in 1 .. Len(file'[x]) PROVE file'[x][i] <= clock
    <3>1. clock \in Nat /\ clock <= clock
      BY Numbers
    <3>2. CASE i \in 1 .. Len(file[x])
      BY <1>3, <3>2 DEF UpToDate, Grows
    <3>3. CASE file'[x][i] = clock
      BY <3>1, <3>3
    <3> QED
      BY <1>3, <3>2, <3>3
  <2>2. ASSUME NEW x \in Stored, NEW i \in 1 .. Len(file'[x]), NEW j \in 1 .. Len(file'[x]), i <= j
        PROVE  file'[x][i] <= file'[x][j]
    <3>1. CASE j \in 1 .. Len(file[x])
      <4>1. i \in 1 .. Len(file[x])
        BY <1>3, <2>2, <3>1, Numbers
      <4> QED
        BY <1>3, <2>2, <3>1, <4>1 DEF UpToDate, Grows
    <3>2. CASE file'[x][j] = clock
      BY <2>1, <3>2
    <3> QED
      BY <1>3, <3>1, <3>2
  <2> QED
    BY <1>1, <2>1, <2>2 DEF Grows
<1>6. EntriesCover'
  BY <1>1, <1>4, Numbers DEF UpToDate, EntriesCover, Covers
<1>7. AskedIsThere' /\ Reading' /\ Answered'
  <2>1. AskedIsThere'
    <3>1. ASSUME req.at # "idle" PROVE req.asked <= Len(file'[req.sim])
      <4>1. req.sim \in Stored /\ Len(file[req.sim]) \in Nat /\ req.asked \in Nat /\ req.asked <= Len(file[req.sim])
        BY <3>1, Numbers DEF UpToDate, AskedIsThere
      <4> QED
        BY <1>3, <4>1
    <3> QED
      BY <1>2, <3>1 DEF AskedIsThere
  <2> QED
    BY <1>1, <1>2, <2>1 DEF UpToDate, Reading, Answered
<1>8. HasRead'
  <2>1. ASSUME req.at = "store"
        PROVE  req.stamp <= clock' /\ \A k \in req.size + 1 .. Len(file'[req.sim]) : file'[req.sim][k] >= req.stamp
    BY <1>4, <2>1, Numbers DEF UpToDate, HasRead
  <2> QED
    BY <1>2, <2>1 DEF HasRead, Covers
<1>9. MayAnswer'
  <2>1. ASSUME req.at \in {"store", "answer"}, NEW k \in req.size + 1 .. Len(file'[req.sim])
        PROVE  file'[req.sim][k] = req.stamp \/ req'.late
    <3>1. /\ req.sim \in Stored /\ req.size \in Nat /\ Len(file[req.sim]) \in Nat
          /\ \A h \in req.size + 1 .. Len(file[req.sim]) : file[req.sim][h] = req.stamp \/ req.late
      BY <2>1, Numbers DEF UpToDate, MayAnswer, Shows
    <3>2. k \in 1 .. Len(file'[req.sim])
      BY <1>3, <3>1
    <3>3. CASE k \in 1 .. Len(file[req.sim])
      <4>1. k \in req.size + 1 .. Len(file[req.sim])
        BY <3>1, <3>3
      <4> QED
        BY <1>2, <1>3, <3>1, <3>3, <4>1
    <3>4. CASE req.sim = s
      BY <1>2, <2>1, <3>4 DEF Writing
    <3> QED
      BY <1>3, <3>1, <3>2, <3>3, <3>4
  <2> QED
    BY <1>2, <2>1 DEF MayAnswer, Shows
<1>10. BodyShows'
  <2>1. ASSUME browser.sim # None
        PROVE  /\ browser.etag[2] \in Nat /\ browser.etag[2] <= Len(file'[browser.sim])
               /\ \A k \in browser.size + 1 .. browser.etag[2] : file'[browser.sim][k] = browser.stamp \/ browser.late
    <3>1. /\ browser.sim \in Stored /\ browser.size \in Nat /\ Len(file[browser.sim]) \in Nat
          /\ browser.etag[2] \in Nat /\ browser.etag[2] <= Len(file[browser.sim])
          /\ \A k \in browser.size + 1 .. browser.etag[2] : file[browser.sim][k] = browser.stamp \/ browser.late
      BY <2>1, Numbers DEF UpToDate, BodyShows, Shows
    <3>2. \A k \in browser.size + 1 .. browser.etag[2] : k \in 1 .. Len(file[browser.sim])
      BY <3>1
    <3>3. Len(file'[browser.sim]) \in Nat /\ Len(file[browser.sim]) <= Len(file'[browser.sim])
      BY <1>3, <3>1
    <3>4. browser.etag[2] <= Len(file'[browser.sim])
      BY <3>1, <3>3
    <3>5. \A k \in 1 .. Len(file[browser.sim]) : file'[browser.sim][k] = file[browser.sim][k]
      BY <1>3, <3>1
    <3>6. \A k \in browser.size + 1 .. browser.etag[2] : file'[browser.sim][k] = browser.stamp \/ browser.late
      BY <3>1, <3>2, <3>5
    <3> QED
      BY <3>1, <3>4, <3>6
  <2> QED
    BY <1>1, <2>1 DEF BodyShows, Shows
<1> QED
  BY <1>5, <1>6, <1>7, <1>8, <1>9, <1>10 DEF UpToDate

LEMMA FreshByTicking ==
  ASSUME Typed, UpToDate, Tick
  PROVE  UpToDate'
<1>1. clock' = clock + 1 /\ UNCHANGED <<file, live, cache, used, browser, req>> /\ clock \in Nat
  BY Numbers DEF Tick
<1>2. Grows'
  <2>1. ASSUME NEW s \in Stored, NEW i \in 1 .. Len(file[s]) PROVE file[s][i] <= clock'
    <3>1. file[s][i] \in Nat /\ file[s][i] <= clock
      BY Numbers DEF UpToDate, Grows
    <3> QED
      BY <1>1, <3>1
  <2> QED
    BY <1>1, <2>1 DEF UpToDate, Grows
<1>3. ASSUME NEW e, e.stamp \in Nat, Covers(e)
      PROVE  e.stamp <= clock' /\ \A k \in e.size + 1 .. Len(file'[e.sim]) : file'[e.sim][k] >= e.stamp
  BY <1>1, <1>3 DEF Covers
<1>4. EntriesCover'
  BY <1>1, <1>3, Numbers DEF UpToDate, EntriesCover, Covers
<1>5. Reading'
  BY <1>1, Numbers DEF UpToDate, Reading
<1>6. HasRead'
  <2>1. ASSUME req.at = "store"
        PROVE  req.stamp <= clock' /\ \A k \in req.size + 1 .. Len(file'[req.sim]) : file'[req.sim][k] >= req.stamp
    BY <1>3, <2>1, Numbers DEF UpToDate, HasRead
  <2> QED
    BY <1>1, <2>1 DEF HasRead, Covers
<1>7. AskedIsThere' /\ MayAnswer' /\ Answered' /\ BodyShows'
  BY <1>1 DEF UpToDate, AskedIsThere, MayAnswer, Answered, BodyShows, Shows
<1> QED
  BY <1>2, <1>4, <1>5, <1>6, <1>7 DEF UpToDate

(* Entries that are new or were there before.                              *)
LEMMA StillCovered ==
  ASSUME EntriesCover, UNCHANGED <<file, clock>>, NEW e, Covers(e), AddsOnly(e)
  PROVE  EntriesCover'
<1>1. ASSUME NEW v \in Views, NEW i \in 1 .. Len(cache'[v])
      PROVE  /\ cache'[v][i].stamp <= clock
             /\ \A k \in cache'[v][i].size + 1 .. Len(file[cache'[v][i].sim]) :
                  file[cache'[v][i].sim][k] >= cache'[v][i].stamp
  <2>1. PICK c : c = cache'[v][i] /\ Covers(c)
    BY <1>1 DEF EntriesCover, AddsOnly
  <2> QED
    BY <2>1 DEF Covers
<1> QED
  BY <1>1 DEF EntriesCover, Covers

LEMMA StillCoveredWithout ==
  ASSUME EntriesCover, UNCHANGED <<file, clock>>, AddsNone
  PROVE  EntriesCover'
<1>1. ASSUME NEW v \in Views, NEW i \in 1 .. Len(cache'[v])
      PROVE  /\ cache'[v][i].stamp <= clock
             /\ \A k \in cache'[v][i].size + 1 .. Len(file[cache'[v][i].sim]) :
                  file[cache'[v][i].sim][k] >= cache'[v][i].stamp
  <2>1. PICK c : c = cache'[v][i] /\ Covers(c)
    BY <1>1 DEF EntriesCover, AddsNone
  <2> QED
    BY <2>1 DEF Covers
<1> QED
  BY <1>1 DEF EntriesCover, Covers

(* The mtime is the tick of the last event; no event is later.             *)
LEMMA MtimeIsLast ==
  ASSUME Typed, Grows, NEW s \in Stored
  PROVE  /\ Mtime(s) \in Nat /\ Mtime(s) <= clock
         /\ \A k \in 1 .. Len(file[s]) : file[s][k] <= Mtime(s)
<1>1. /\ file[s] \in Seq(1 .. MaxClock) /\ Len(file[s]) \in Nat /\ clock \in Nat
      /\ \A k \in 1 .. Len(file[s]) : file[s][k] \in Nat
  BY Stat, Numbers
<1>2. CASE file[s] = <<>>
  BY <1>1, <1>2 DEF Mtime
<1>3. CASE file[s] # <<>>
  <2>1. Len(file[s]) \in 1 .. Len(file[s])
    BY <1>1, <1>3, EmptySeq
  <2>2. Mtime(s) = file[s][Len(file[s])]
    BY <1>3 DEF Mtime, Last
  <2>3. \A k \in 1 .. Len(file[s]) : k <= Len(file[s])
    BY <1>1
  <2> QED
    BY <1>1, <2>1, <2>2, <2>3 DEF Grows
<1> QED
  BY <1>2, <1>3

LEMMA FreshByAsking ==
  ASSUME Typed, Recent, UpToDate, NEW v \in Views, NEW s \in Stored, Ask(v, s)
  PROVE  UpToDate'
<1>0. /\ req.at = "idle" /\ s \in live /\ UNCHANGED <<file, clock, live, browser>>
      /\ Len(file[s]) \in Nat /\ Len(file[s]) <= Len(file[s]) /\ clock \in Nat
      /\ Mtime(s) \in Nat /\ Mtime(s) <= clock /\ \A k \in 1 .. Len(file[s]) : file[s][k] <= Mtime(s) /\ file[s][k] \in Nat
  BY Numbers, MtimeIsLast DEF Ask, fileVars, UpToDate
<1>1. Grows' /\ BodyShows'
  BY <1>0 DEF UpToDate, Grows, BodyShows, Shows
<1>2. ASSUME req'.sim = s, req'.at \in {"load", "answer"}, req'.asked = Len(file[s])
      PROVE  AskedIsThere' /\ Answered' /\ HasRead'
  BY <1>0, <1>2 DEF AskedIsThere, Answered, HasRead
<1>3. ASSUME NEW e \in FreshEntry(v, s),
             cache' = [cache EXCEPT ![v] = Touch(@, e)], used' = [used EXCEPT ![v] = Append(DropId(@, s), s)],
             req' = [at |-> "answer", sim |-> s, view |-> v, asked |-> Len(file[s]),
                     size |-> e.size, stamp |-> e.stamp, late |-> FALSE]
      PROVE  UpToDate'
  <2>1. /\ e \in Entries /\ e.sim = s /\ e.stamp >= Mtime(s) /\ \E i \in 1 .. Len(cache[v]) : cache[v][i] = e
        /\ e.stamp \in Nat /\ e.size \in Nat
    BY Hit DEF Entries
  <2>2. Covers(e)
    BY <2>1 DEF UpToDate, EntriesCover
  <2>3. EntriesCover'
    <3>1. cache' = [cache EXCEPT ![v] = MovedToEnd(cache[v], e)]
      BY <1>3 DEF Touch
    <3>2. used' = [used EXCEPT ![v] = Append(DropId(used[v], e.sim), e.sim)]
      BY <1>3, <2>1
    <3>3. e.sim \in live /\ UNCHANGED live /\ \E i \in 1 .. Len(cache[v]) : cache[v][i].sim = e.sim
      BY <1>0, <2>1
    <3>4. AddsOnly(e)
      BY <2>1, <3>1, <3>2, <3>3, RecentUsed
    <3> QED
      BY <1>0, <2>2, <3>4, StillCovered DEF UpToDate
  <2>4. MayAnswer'
    <3>1. ASSUME NEW k \in e.size + 1 .. Len(file[s]) PROVE file[s][k] = e.stamp
      <4>1. k \in 1 .. Len(file[s])
        BY <1>0, <2>1
      <4>2. file[s][k] <= Mtime(s) /\ file[s][k] >= e.stamp /\ file[s][k] \in Nat
        BY <1>0, <2>1, <2>2, <4>1 DEF Covers
      <4> QED
        BY <1>0, <2>1, <4>2
    <3> QED
      BY <1>0, <1>3, <3>1 DEF MayAnswer, Shows
  <2>5. Reading'
    BY <1>3 DEF Reading
  <2> QED
    BY <1>1, <1>2, <1>3, <2>3, <2>4, <2>5 DEF UpToDate
<1>4. ASSUME req' = [at |-> "load", sim |-> s, view |-> v, asked |-> Len(file[s]),
                     size |-> 0, stamp |-> Mtime(s), late |-> FALSE],
             EntriesCover'
      PROVE  UpToDate'
  <2>1. Reading' /\ MayAnswer'
    BY <1>0, <1>4 DEF Reading, MayAnswer
  <2> QED
    BY <1>1, <1>2, <1>4, <2>1 DEF UpToDate
<1>5. CASE /\ v = "index" /\ cache' = [cache EXCEPT ![v] = Drop(@, s)] /\ used' = [used EXCEPT ![v] = DropId(@, s)]
           /\ req' = [at |-> "load", sim |-> s, view |-> v, asked |-> Len(file[s]),
                      size |-> 0, stamp |-> Mtime(s), late |-> FALSE]
  <2>1. AddsNone
    BY <1>0, <1>5, RecentDropped
  <2>2. EntriesCover'
    BY <1>0, <2>1, StillCoveredWithout DEF UpToDate
  <2> QED
    BY <1>4, <1>5, <2>2
<1>6. CASE /\ UNCHANGED <<cache, used>>
           /\ req' = [at |-> "load", sim |-> s, view |-> v, asked |-> Len(file[s]),
                      size |-> 0, stamp |-> Mtime(s), late |-> FALSE]
  <2>1. EntriesCover'
    BY <1>0, <1>6 DEF UpToDate, EntriesCover, Covers
  <2> QED
    BY <1>4, <1>6, <2>1
<1> QED
  BY <1>3, <1>5, <1>6 DEF Ask

LEMMA FreshByStoring ==
  ASSUME Typed, Recent, UpToDate, Store
  PROVE  UpToDate'
<1>0. /\ req.at = "store" /\ UNCHANGED <<file, clock, live, browser>> /\ req \in Requests
      /\ req.sim \in live /\ req.sim \in Stored /\ req.view \in Views
  BY DEF Store, fileVars, Typed, Requests
<1>1. PICK e \in Entries : e = [sim |-> req.sim, stamp |-> Stamp(req), size |-> req.size]
  BY <1>0 DEF Entries, Stamp, Requests
<1>2. PICK v \in Views : v = req.view
  BY <1>0
<1>3. e.sim = req.sim /\ e.stamp = req.stamp /\ e.size = req.size
  BY <1>1 DEF Stamp
<1>5. /\ cache' = [cache EXCEPT ![v] = Kept(MovedToEnd(cache[v], e), Size[v])]
      /\ used' = [used EXCEPT ![v] = Append(DropId(used[v], e.sim), e.sim)]
      /\ req' = [req EXCEPT !.at = "answer", !.stamp = e.stamp]
  BY <1>1, <1>2, <1>3 DEF Store
<1>6. /\ req'.at = "answer" /\ req'.sim = req.sim /\ req'.asked = req.asked /\ req'.size = req.size
      /\ req'.stamp = req.stamp /\ req'.late = req.late
  BY <1>0, <1>3, <1>5 DEF Requests
<1>7. EntriesCover'
  <2>1. Covers(e)
    BY <1>0, <1>3 DEF UpToDate, HasRead, Covers
  <2>2. e.sim \in live /\ UNCHANGED live
    BY <1>0, <1>3
  <2>3. AddsOnly(e)
    BY <1>5, <2>2, RecentUsed
  <2> QED
    BY <1>0, <2>1, <2>3, StillCovered DEF UpToDate
<1>8. Grows' /\ BodyShows'
  BY <1>0 DEF UpToDate, Grows, BodyShows, Shows
<1>9. AskedIsThere' /\ Reading' /\ HasRead' /\ Answered'
  BY <1>0, <1>6 DEF UpToDate, AskedIsThere, Reading, HasRead, Answered
<1>10. MayAnswer'
  BY <1>0, <1>6 DEF UpToDate, MayAnswer, Shows
<1> QED
  BY <1>7, <1>8, <1>9, <1>10 DEF UpToDate

LEMMA FreshByAnswering ==
  ASSUME Typed, UpToDate, Load \/ Respond
  PROVE  UpToDate'
<1>0. /\ UNCHANGED <<file, clock, cache>> /\ req \in Requests /\ req.sim \in Stored
      /\ Len(file[req.sim]) \in Nat /\ req.asked <= Len(file[req.sim])
  BY Numbers DEF Load, Respond, fileVars, UpToDate, AskedIsThere
<1>1. Grows' /\ EntriesCover'
  BY <1>0 DEF UpToDate, Grows, EntriesCover, Covers
<1>2. CASE Load
  <2>1. /\ UNCHANGED browser /\ req.at = "load" /\ req'.at = "store" /\ req'.sim = req.sim /\ req'.asked = req.asked
        /\ req'.size = Len(file[req.sim]) /\ req'.stamp = req.stamp
    BY <1>0, <1>2 DEF Load, Requests
  <2>2. \A k : k \notin req'.size + 1 .. Len(file'[req'.sim])
    BY <1>0, <2>1
  <2>3. HasRead' /\ MayAnswer'
    BY <1>0, <2>1, <2>2 DEF HasRead, MayAnswer, Covers, Shows, UpToDate, Reading
  <2>4. AskedIsThere' /\ Reading' /\ Answered' /\ BodyShows'
    BY <1>0, <2>1 DEF UpToDate, AskedIsThere, Reading, Answered, BodyShows, Shows
  <2> QED
    BY <1>1, <2>3, <2>4 DEF UpToDate
<1>3. CASE Respond
  <2>1. /\ req.at = "answer" /\ req'.at = "idle" /\ req'.sim = req.sim /\ req'.asked = req.asked
    BY <1>3 DEF Respond, Rest
  <2>2. AskedIsThere' /\ Reading' /\ HasRead' /\ MayAnswer'
    BY <2>1 DEF AskedIsThere, Reading, HasRead, MayAnswer
  <2>3. /\ Etag(req.sim)[2] = Len(file[req.sim])
        /\ \A k \in req.size + 1 .. Len(file[req.sim]) : file[req.sim][k] = req.stamp \/ req.late
    BY <1>0, <2>1, Stat DEF UpToDate, MayAnswer, Shows
  <2>4. CASE Matches(browser, req)
    <3>1. browser' = browser /\ browser.sim = req.sim /\ browser.etag[2] = Len(file[req.sim])
      BY <1>3, <2>3, <2>4 DEF Respond, Matches
    <3>2. BodyShows' /\ Answered'
      BY <1>0, <2>1, <3>1 DEF BodyShows, Shows, Answered, UpToDate
    <3> QED
      BY <1>1, <2>2, <3>2 DEF UpToDate
  <2>5. CASE ~Matches(browser, req)
    <3>1. /\ browser'.sim = req.sim /\ browser'.etag = Etag(req.sim) /\ browser'.size = req.size
          /\ browser'.stamp = req.stamp /\ browser'.late = req.late
      BY <1>3, <2>5 DEF Respond
    <3>2. BodyShows'
      BY <1>0, <2>3, <3>1 DEF BodyShows, Shows
    <3>3. Answered'
      BY <1>0, <2>1, <2>3, <3>1 DEF Answered
    <3> QED
      BY <1>1, <2>2, <3>2, <3>3 DEF UpToDate
  <2> QED
    BY <2>4, <2>5
<1> QED
  BY <1>2, <1>3

LEMMA FreshByLosing ==
  ASSUME Typed, Recent, UpToDate, CacheLost \/ \E s \in Stored : Delete(s)
  PROVE  UpToDate'
<1>0. UNCHANGED <<file, clock, browser>> /\ req'.at = "idle" /\ req'.sim = None
  BY DEF CacheLost, Delete, fileVars, Rest
<1>1. Grows' /\ BodyShows'
  BY <1>0 DEF UpToDate, Grows, BodyShows, Shows
<1>2. AskedIsThere' /\ Reading' /\ HasRead' /\ MayAnswer' /\ Answered'
  BY <1>0 DEF AskedIsThere, Reading, HasRead, MayAnswer, Answered
<1>3. CASE CacheLost
  <2>1. \A v \in Views : Len(cache'[v]) = 0
    BY <1>3 DEF CacheLost
  <2> QED
    BY <1>1, <1>2, <2>1 DEF UpToDate, EntriesCover
<1>4. ASSUME NEW s \in Stored, Delete(s) PROVE UpToDate'
  <2>1. /\ live' = live \ {s}
        /\ cache' = [cache EXCEPT !["index"] = Drop(cache["index"], s)]
        /\ used' = [used EXCEPT !["index"] = DropId(used["index"], s)]
    BY <1>4 DEF Delete, Evicted
  <2>2. AddsNone
    BY <2>1, RecentDropped
  <2>3. EntriesCover'
    BY <1>0, <2>2, StillCoveredWithout DEF UpToDate
  <2> QED
    BY <1>1, <1>2, <2>3 DEF UpToDate
<1> QED
  BY <1>3, <1>4

LEMMA FreshStep ==
  ASSUME Typed, Recent, UpToDate, [CacheNext]_cacheVars
  PROVE  UpToDate'
<1>1. CASE UNCHANGED cacheVars
  BY <1>1 DEF cacheVars, fileVars, UpToDate, Grows, EntriesCover, Covers, AskedIsThere, Reading, HasRead, MayAnswer,
              Answered, BodyShows, Shows
<1> QED
  BY <1>1, FreshByWriting, FreshByTicking, FreshByAsking, FreshByStoring, FreshByAnswering, FreshByLosing DEF CacheNext

LEMMA FreshIsMeant ==
  ASSUME Typed, UpToDate
  PROVE  AnswerIsFresh
<1>1. ASSUME req.at = "idle", req.sim # None, NEW k \in browser.size + 1 .. req.asked
      PROVE  file[req.sim][k] = browser.stamp \/ browser.late
  <2>1. /\ browser.sim = req.sim /\ req.asked <= browser.etag[2] /\ browser.etag[2] \in Nat
        /\ \A h \in browser.size + 1 .. browser.etag[2] : file[browser.sim][h] = browser.stamp \/ browser.late
    BY <1>1 DEF UpToDate, Answered, BodyShows, Shows
  <2>2. k \in browser.size + 1 .. browser.etag[2]
    BY <1>1, <2>1, Numbers
  <2> QED
    BY <2>1, <2>2
<1> QED
  BY <1>1 DEF AnswerIsFresh

(* However lus writes, the caches fill and lose, and the browser           *)
(* revalidates: what it shows after an answer, 200 or 304, misses no event *)
(* that the file had when the request came, except those of the very tick  *)
(* of its stamp and those of a body that lus overtook.                     *)
THEOREM AnswersMissNothing == CacheSpec => []AnswerIsFresh
<1>1. CacheInit => Typed /\ Recent /\ UpToDate
  BY CacheStart, FreshStart
<1>2. (Typed /\ Recent /\ UpToDate) /\ [CacheNext]_cacheVars => (Typed /\ Recent /\ UpToDate)'
  BY CacheStep, FreshStep
<1>3. Typed /\ Recent /\ UpToDate => AnswerIsFresh
  BY FreshIsMeant
<1> QED
  BY <1>1, <1>2, <1>3, PTL DEF CacheSpec
=============================================================================
