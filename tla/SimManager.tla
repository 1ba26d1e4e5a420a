----------------------------- MODULE SimManager -----------------------------
(***************************************************************************)
(* webapp/server/services/sim_manager: runs lus once per simulation that a *)
(* user submits, at most MaxConcurrent at a time, keeps a registry of the  *)
(* simulations in memory and their status on disk, and streams status to   *)
(* SSE clients.                                                            *)
(*                                                                         *)
(* Everything runs on one asyncio loop, so the code between two awaits is  *)
(* one action.  The task of a simulation (_run_sim) goes through           *)
(*                                                                         *)
(*   created -> queued -> spawning -> running -> draining -> done          *)
(*                                                                         *)
(* where it waits for the loop, for the semaphore, for the spawn, for the  *)
(* exit of lus and for the end of its stderr.  lus is a process of its     *)
(* own; it outlives the server.                                            *)
(***************************************************************************)
EXTENDS Integers, Sequences, FiniteSets

CONSTANTS
  Sims,           \* identifiers that uuid4 may give
  MaxConcurrent,  \* MAX_CONCURRENT_SIMS
  Clients,        \* SSE connections, each opened at most once
  Deletable,      \* simulations a user may delete
  Exportable,     \* simulations that an interactive session may export
  Unsavable,      \* simulations whose status.json may fail to be written
  MaxRestarts,    \* bound: how often the server crashes and restarts
  Absent,         \* get_sim returns None; no directory on disk
  Unwritten,      \* a directory without status.json
  Torn,           \* a status.json that does not parse
  Done            \* the None sentinel of a progress queue

Active   == {"pending", "running"}
Terminal == {"completed", "failed", "cancelled"}
Status   == Active \cup Terminal

ASSUME SimManagerAssumption ==
  /\ Status \cap {Absent, Unwritten, Torn} = {}
  /\ Absent # Unwritten /\ Absent # Torn /\ Unwritten # Torn /\ Done \notin Status
  /\ MaxConcurrent \in Nat \ {0} /\ MaxRestarts \in Nat
  /\ Deletable \subseteq Sims /\ Exportable \subseteq Sims /\ Unsavable \subseteq Sims

VARIABLES
  registry,  \* _sims: the status of each record
  ours,      \* simulations whose task holds the very record of the registry
  disk,      \* status.json of each simulation directory
  events,    \* events.ndjson: "none", "part" or "whole"
  pc,        \* where the task of a simulation is
  waiters,   \* tasks queued on the semaphore
  proc,      \* lus: "none", "loading", "simulating", "ok" or "err"
  stopped,   \* simulations whose process was terminated
  client,    \* state of each SSE connection: "idle", "open", "done", "cut"
  watching,  \* the simulation a connection asked for
  inbox,     \* its asyncio.Queue
  told,      \* history: the last status a connection was sent
  subs,      \* _progress_subscribers, as pairs <<simulation, client>>
  cut,       \* history: simulations whose creation or deletion a crash cut short
  restarts

taskVars   == <<ours, pc, waiters>>
lusVars    == <<proc, stopped>>
clientVars == <<client, watching, told>>
vars == <<registry, disk, events, taskVars, lusVars, clientVars, inbox, subs, cut, restarts>>

Init ==
  /\ registry = [s \in Sims |-> Absent] /\ disk = [s \in Sims |-> Absent]
  /\ events = [s \in Sims |-> "none"]
  /\ pc = [s \in Sims |-> "none"] /\ waiters = <<>> /\ ours = {}
  /\ proc = [s \in Sims |-> "none"] /\ stopped = {}
  /\ client = [c \in Clients |-> "idle"] /\ watching \in [Clients -> Sims]
  /\ inbox = [c \in Clients |-> <<>>] /\ told = [c \in Clients |-> Absent]
  /\ subs = {} /\ cut = {} /\ restarts = 0
-----------------------------------------------------------------------------
(* _notify_progress: every subscriber of s is sent the updates. *)
Notify(s, updates) ==
  inbox' = [c \in Clients |-> IF <<s, c>> \in subs THEN inbox[c] \o updates ELSE inbox[c]]

(* The task sets the status of the record it looked up: the registry's,    *)
(* unless a rescan replaced that one or a deletion dropped it.             *)
SetStatus(s, status) ==
  registry' = IF s \in ours' THEN [registry EXCEPT ![s] = status] ELSE registry

(* _save_status writes the registry's record, and nothing if there is none. *)
(* It logs an OSError and goes on: the file may then be the old one or cut. *)
SaveStatus(s) ==
  IF registry'[s] = Absent
  THEN UNCHANGED disk
  ELSE \/ disk' = [disk EXCEPT ![s] = registry'[s]]
       \/ /\ s \in Unsavable
          /\ disk' \in { [disk EXCEPT ![s] = d] :
                          d \in {IF disk[s] = Absent THEN Unwritten ELSE disk[s], Torn} }

Fresh(s) == registry[s] = Absent /\ disk[s] = Absent /\ pc[s] = "none" /\ proc[s] = "none"

CreateSim(s) ==
  /\ Fresh(s) /\ s \notin cut
  /\ registry' = [registry EXCEPT ![s] = "pending"]
  /\ SaveStatus(s)
  /\ pc' = [pc EXCEPT ![s] = "created"]
  /\ UNCHANGED <<ours, waiters, events, lusVars, clientVars, inbox, subs, cut, restarts>>

ImportSim(s) ==
  /\ Fresh(s) /\ s \notin cut
  /\ registry' = [registry EXCEPT ![s] = "completed"]
  /\ SaveStatus(s)
  /\ events' = [events EXCEPT ![s] = "whole"]
  /\ UNCHANGED <<taskVars, lusVars, clientVars, inbox, subs, cut, restarts>>
-----------------------------------------------------------------------------
(* The semaphore.  asyncio hands a released slot to the first waiter.      *)
Holding == { s \in Sims : pc[s] \in {"spawning", "running", "draining"} }

HasSlotOffByOne == Cardinality(Holding) <= MaxConcurrent

HasSlot == Cardinality(Holding) < MaxConcurrent

(* The body of the async with: the simulation is running. *)
Begin(s) ==
  /\ pc' = [pc EXCEPT ![s] = "spawning"]
  /\ SetStatus(s, "running")
  /\ SaveStatus(s)
  /\ Notify(s, <<"running">>)

(* The first step of _run_sim: it looks its record up, which fails if the  *)
(* simulation was deleted meanwhile, and asks for the semaphore.           *)
StartTask(s) ==
  /\ pc[s] = "created"
  /\ \/ /\ registry[s] = Absent
        /\ pc' = [pc EXCEPT ![s] = "done"]
        /\ UNCHANGED <<ours, waiters, registry, disk, inbox>>
     \/ /\ registry[s] # Absent
        /\ ours' = ours \cup {s}
        /\ IF HasSlot /\ waiters = <<>> THEN Begin(s) /\ UNCHANGED waiters
           ELSE /\ pc' = [pc EXCEPT ![s] = "queued"]
                /\ waiters' = Append(waiters, s)
                /\ UNCHANGED <<registry, disk, inbox>>
  /\ UNCHANGED <<events, lusVars, clientVars, subs, cut, restarts>>

Acquire ==
  /\ waiters # <<>> /\ HasSlot
  /\ waiters' = Tail(waiters)
  /\ UNCHANGED ours
  /\ Begin(Head(waiters))
  /\ UNCHANGED <<events, lusVars, clientVars, subs, cut, restarts>>

(* create_subprocess_exec: lus starts, and is registered in _processes     *)
(* only when the await returns.                                            *)
Fork(s) ==
  /\ pc[s] = "spawning" /\ proc[s] = "none"
  /\ proc' = [proc EXCEPT ![s] = "loading"]
  /\ UNCHANGED <<registry, disk, events, taskVars, stopped, clientVars, inbox, subs, cut, restarts>>

Spawned(s) ==
  /\ pc[s] = "spawning" /\ proc[s] # "none"
  /\ pc' = [pc EXCEPT ![s] = "running"]
  /\ UNCHANGED <<registry, ours, waiters, disk, events, lusVars, clientVars, inbox, subs, cut,
                 restarts>>

(* _processes *)
Registered(s) == pc[s] \in {"running", "draining"}

Exited(s) == proc[s] \in {"ok", "err"}

(* proc.wait() returns, and then the end of stderr. *)
Waited(s) ==
  /\ pc[s] = "running" /\ Exited(s)
  /\ pc' = [pc EXCEPT ![s] = "draining"]
  /\ UNCHANGED <<registry, ours, waiters, disk, events, lusVars, clientVars, inbox, subs, cut,
                 restarts>>

(* The end of _run_sim, with its finally clause: the outcome, the saved    *)
(* status and the sentinel.                                                *)
OutcomeByEvents(s) == IF events[s] # "none" THEN "completed" ELSE "failed"

Outcome(s) == IF proc[s] = "ok" THEN "completed" ELSE "failed"

SettleUnsaved(s) ==
  /\ UNCHANGED <<ours, disk>>
  /\ SetStatus(s, Outcome(s))
  /\ Notify(s, <<Outcome(s), Done>>)
  /\ pc' = [pc EXCEPT ![s] = "done"]

SettleForgetsFailure(s) ==
  /\ UNCHANGED <<ours, registry, disk>>
  /\ Notify(s, <<Outcome(s), Done>>)
  /\ pc' = [pc EXCEPT ![s] = "done"]

SettleSentinelFirst(s) ==
  /\ UNCHANGED ours
  /\ SetStatus(s, Outcome(s))
  /\ SaveStatus(s)
  /\ Notify(s, <<Done, Outcome(s)>>)
  /\ pc' = [pc EXCEPT ![s] = "done"]

Settle(s) ==
  /\ UNCHANGED ours
  /\ SetStatus(s, Outcome(s))
  /\ SaveStatus(s)
  /\ Notify(s, <<Outcome(s), Done>>)
  /\ pc' = [pc EXCEPT ![s] = "done"]

Finish(s) ==
  /\ pc[s] = "draining"
  /\ Settle(s)
  /\ UNCHANGED <<waiters, events, lusVars, clientVars, subs, cut, restarts>>

(* The lus binary cannot be started. *)
SpawnFails(s) ==
  /\ pc[s] = "spawning" /\ proc[s] = "none"
  /\ Settle(s)
  /\ UNCHANGED <<waiters, events, lusVars, clientVars, subs, cut, restarts>>
-----------------------------------------------------------------------------
(* lus loads its config and opens its events file, and later exits; the    *)
(* signal of a termination kills it.                                       *)
LusOpens(s) ==
  /\ proc[s] = "loading" /\ disk[s] # Absent /\ s \notin stopped
  /\ proc' = [proc EXCEPT ![s] = "simulating"]
  /\ events' = [events EXCEPT ![s] = "part"]
  /\ UNCHANGED <<registry, disk, taskVars, stopped, clientVars, inbox, subs, cut, restarts>>

LusExits(s) ==
  /\ \/ /\ proc[s] \in {"loading", "simulating"}
        /\ proc' = [proc EXCEPT ![s] = "err"]
        /\ UNCHANGED events
     \/ /\ proc[s] = "simulating" /\ s \notin stopped
        /\ proc' = [proc EXCEPT ![s] = "ok"]
        /\ events' = [events EXCEPT ![s] = IF @ = "part" THEN "whole" ELSE @]
  /\ UNCHANGED <<registry, disk, taskVars, stopped, clientVars, inbox, subs, cut, restarts>>
-----------------------------------------------------------------------------
(* delete_sim with the cancel_sim it calls: neither suspends.  A process   *)
(* that is registered is terminated; the directory goes; subscribers are   *)
(* forgotten.                                                              *)
DeleteSim(s) ==
  /\ s \in Deletable /\ registry[s] # Absent
  /\ IF Registered(s)
     THEN /\ stopped' = stopped \cup {s}
          /\ Notify(s, <<"cancelled", Done>>)
     ELSE UNCHANGED <<stopped, inbox>>
  /\ registry' = [registry EXCEPT ![s] = Absent]
  /\ ours' = ours \ {s}
  /\ disk' = [disk EXCEPT ![s] = Absent]
  /\ events' = [events EXCEPT ![s] = "none"]
  /\ subs' = { x \in subs : x[1] # s }
  /\ UNCHANGED <<pc, waiters, proc, clientVars, cut, restarts>>
-----------------------------------------------------------------------------
(* _scan_existing: what a directory becomes in the registry. *)
ScannedTrusting(status, file) ==
  IF status \in Status THEN status ELSE IF status = Absent THEN Absent ELSE "failed"

Scanned(status, file) ==
  CASE status = Absent        -> Absent
    [] status = Unwritten     -> IF file = "none" THEN "failed" ELSE "completed"
    [] status = Torn          -> "failed"
    [] status \in Active      -> "failed"
    [] status \in Terminal    -> status

(* The router of the interactive sessions writes a completed simulation to *)
(* disk and scans the directory again, while the server runs.              *)
Export(s) ==
  /\ s \in Exportable /\ Fresh(s) /\ s \notin cut
  /\ disk' = [disk EXCEPT ![s] = "completed"]
  /\ events' = [events EXCEPT ![s] = "whole"]
  /\ registry' = [x \in Sims |-> IF disk'[x] = Absent THEN registry[x]
                                 ELSE Scanned(disk'[x], events'[x])]
  /\ ours' = { x \in ours : disk'[x] = Absent }
  /\ UNCHANGED <<pc, waiters, lusVars, clientVars, inbox, subs, cut, restarts>>

(* What a crash can leave of s on disk when it hits a create, an import, a *)
(* save of its status or a delete.                                         *)
Leftovers(s) ==
  LET saved == IF Registered(s) THEN "cancelled" ELSE disk[s]
  IN  CASE Fresh(s) -> {Unwritten, Torn} \X {"none", "whole"} \cup {<<Unwritten, "part">>}
        [] ~Fresh(s) /\ registry[s] = Absent -> {}
        [] OTHER -> (IF pc[s] \in {"none", "done"} THEN {} ELSE {<<Torn, events[s]>>})
                    \cup IF s \in Deletable THEN {saved, Unwritten} \X {events[s], "none"} ELSE {}

(* The server dies, perhaps in the middle of one of those, and is started  *)
(* again: it scans the disk.  lus processes live on.                       *)
Restart ==
  /\ restarts < MaxRestarts
  /\ restarts' = restarts + 1
  /\ \/ UNCHANGED <<disk, events, cut>>
     \/ \E s \in Sims : \E x \in Leftovers(s) :
          /\ disk' = [disk EXCEPT ![s] = x[1]]
          /\ events' = [events EXCEPT ![s] = x[2]]
          /\ cut' = cut \cup {s}
  /\ registry' = [s \in Sims |-> Scanned(disk'[s], events'[s])]
  /\ pc' = [s \in Sims |-> IF pc[s] = "none" THEN "none" ELSE "done"]
  /\ ours' = {} /\ waiters' = <<>> /\ subs' = {}
  /\ client' = [c \in Clients |-> IF client[c] = "open" THEN "cut" ELSE client[c]]
  /\ inbox' = [c \in Clients |-> <<>>]
  /\ UNCHANGED <<lusVars, watching, told>>
-----------------------------------------------------------------------------
(* The SSE endpoint: subscribe_progress answers at once when the           *)
(* simulation is over; the stream ends with the sentinel, or when the      *)
(* client hangs up, and then unsubscribes.                                 *)
AnswerIfCompleted(s) == IF registry[s] = "completed" THEN <<registry[s], Done>> ELSE <<>>

Answer(s) == IF registry[s] \in Terminal THEN <<registry[s], Done>> ELSE <<>>

Subscribe(c) ==
  LET s == watching[c]
  IN  /\ client[c] = "idle" /\ registry[s] # Absent
      /\ client' = [client EXCEPT ![c] = "open"]
      /\ subs' = subs \cup {<<s, c>>}
      /\ inbox' = [inbox EXCEPT ![c] = Answer(s)]
      /\ UNCHANGED <<registry, disk, events, taskVars, lusVars, watching, told, cut, restarts>>

Close(c, state) ==
  /\ client' = [client EXCEPT ![c] = state]
  /\ subs' = subs \ {<<watching[c], c>>}

Receive(c) ==
  /\ client[c] = "open" /\ inbox[c] # <<>>
  /\ inbox' = [inbox EXCEPT ![c] = Tail(@)]
  /\ IF Head(inbox[c]) = Done
     THEN Close(c, "done") /\ UNCHANGED told
     ELSE told' = [told EXCEPT ![c] = Head(inbox[c])] /\ UNCHANGED <<client, subs>>
  /\ UNCHANGED <<registry, disk, events, taskVars, lusVars, watching, cut, restarts>>

Disconnect(c) ==
  /\ client[c] = "open"
  /\ Close(c, "cut")
  /\ inbox' = [inbox EXCEPT ![c] = <<>>]
  /\ UNCHANGED <<registry, disk, events, taskVars, lusVars, watching, told, cut, restarts>>

(* Nothing more can happen. *)
Quiet ==
  /\ restarts = MaxRestarts
  /\ \A s \in Sims : pc[s] \in {"none", "done"} /\ proc[s] \notin {"loading", "simulating"}
  /\ UNCHANGED vars

RunNext(s) ==
  \/ CreateSim(s) \/ ImportSim(s) \/ StartTask(s) \/ Fork(s) \/ Spawned(s) \/ SpawnFails(s)
  \/ Waited(s) \/ Finish(s) \/ LusOpens(s) \/ LusExits(s)

SimNext(s) == RunNext(s) \/ DeleteSim(s) \/ Export(s)

Next ==
  \/ \E s \in Sims : SimNext(s)
  \/ Acquire \/ Restart \/ Quiet
  \/ \E c \in Clients : Subscribe(c) \/ Receive(c) \/ Disconnect(c)

Spec == Init /\ [][Next]_vars

(* The loop runs every ready task and drains every open connection; lus    *)
(* simulates a finite duration and exits.                                  *)
Fairness ==
  /\ WF_vars(Acquire)
  /\ \A s \in Sims : /\ WF_vars(StartTask(s)) /\ WF_vars(Fork(s)) /\ WF_vars(Spawned(s))
                     /\ WF_vars(Waited(s)) /\ WF_vars(Finish(s)) /\ WF_vars(LusExits(s))
  /\ \A c \in Clients : WF_vars(Receive(c))

FairSpec == Spec /\ Fairness
-----------------------------------------------------------------------------
(* Every variable has its type. *)
TypeOK ==
  /\ registry \in [Sims -> Status \cup {Absent}]
  /\ disk \in [Sims -> Status \cup {Absent, Unwritten, Torn}]
  /\ events \in [Sims -> {"none", "part", "whole"}]
  /\ pc \in [Sims -> {"none", "created", "queued", "spawning", "running", "draining", "done"}]
  /\ ours \subseteq Sims /\ waiters \in Seq(Sims)
  /\ proc \in [Sims -> {"none", "loading", "simulating", "ok", "err"}] /\ stopped \subseteq Sims
  /\ client \in [Clients -> {"idle", "open", "done", "cut"}] /\ watching \in [Clients -> Sims]
  /\ inbox \in [Clients -> Seq(Status \cup {Done})] /\ told \in [Clients -> Status \cup {Absent}]
  /\ subs \subseteq Sims \X Clients /\ cut \subseteq Sims /\ restarts \in Nat

(* The server never runs more than MaxConcurrent lus processes of its own. *)
ProcessBound ==
  Cardinality({ s \in Sims : proc[s] \in {"loading", "simulating"} /\ pc[s] # "done" })
    <= MaxConcurrent

(* A simulation shown as pending or running has a task that will settle    *)
(* it, and one that waits for the semaphore is in its queue exactly once:  *)
(* no deletion, restart or failed spawn strands a simulation.              *)
ActiveIsTended ==
  /\ \A s \in Sims :
       /\ registry[s] = "running" => s \in Holding
       /\ registry[s] = "pending" => pc[s] \in {"created", "queued"}
  /\ \A s \in Sims : pc[s] = "queued" <=> \E k \in DOMAIN waiters : waiters[k] = s
  /\ \A j, k \in DOMAIN waiters : waiters[j] = waiters[k] => j = k

(* A simulation is shown as completed only if lus exited with 0 or it was  *)
(* imported whole, also after any number of restarts; the exceptions are   *)
(* one whose creation or deletion a crash cut short and one whose status   *)
(* could not be written.                                                   *)
CompletedIsTrue ==
  \A s \in Sims :
    registry[s] = "completed" => s \in cut \cup Unsavable \/ (events[s] = "whole" /\ proc[s] \in {"ok", "none"})

(* A completed simulation stays completed, across restarts and rescans,    *)
(* until it is deleted.                                                    *)
CompletedIsDurable ==
  [][\A s \in Sims : registry[s] = "completed" /\ s \notin cut' \cup Unsavable
       => registry'[s] = "completed" \/ disk'[s] = Absent]_vars

(* A stream that ended has told the outcome that the registry shows, now   *)
(* and after any restart, of a simulation that is not deleted and whose    *)
(* status can be written.                                                  *)
StreamTellsOutcome ==
  \A c \in Clients :
    client[c] = "done" /\ watching[c] \notin Deletable \cup Unsavable => told[c] = registry[watching[c]]

(* "A None sentinel signals the end of updates": every stream ends. *)
StreamsEnd == \A c \in Clients : (client[c] = "open") ~> (client[c] # "open")

(* Every submitted simulation is settled, deleted or ended by a crash.     *)
EverySimSettles ==
  \A s \in Sims : (registry[s] \in Active) ~> (registry[s] \notin Active)
=============================================================================
