-------------------------- MODULE SessionCommands --------------------------
(***************************************************************************)
(* One interactive session of the web server: WebSocket connections send   *)
(* commands to a running lus -i, whose standard output carries NDJSON      *)
(* events, prompts and responses on the same stream.  A reader task tells  *)
(* the lines apart, saves the events and queues the responses.             *)
(*                                                                         *)
(* A line is what it is for the reader: how many prompts precede it (lus   *)
(* ends no line after a prompt, so the prompt sits on the first line that  *)
(* the next command prints), its kind, the command that printed it (0 for  *)
(* the start-up probe) and, for an event, which one.  A response is the    *)
(* set of commands whose lines it holds.  The event loop runs one handler  *)
(* from await to await, which is one action here.                          *)
(***************************************************************************)
EXTENDS Integers, Sequences, FiniteSets, Functions, SequencesExt

CONSTANTS
  Clients,      \* WebSocket connections of the session
  Ops,          \* commands they send
  NodeCounts,   \* numbers of nodes of the configurations tried
  InitEvents,   \* events that lus emits before its first prompt
  MaxCommands,  \* bound: commands sent in a run
  MaxStepEvents \* bound: events of one :step

ASSUME CommandBounds ==
  /\ InitEvents \in Nat /\ MaxCommands \in Nat /\ MaxStepEvents \in Nat /\ NodeCounts \subseteq Nat
  /\ Ops \subseteq {"time", "step", "cmd", "nodes", "events", "lua"}

VARIABLES
  status,   \* session.status
  nodes,    \* number of nodes in the session's configuration
  lus,      \* the subprocess: "booting", "up" or "dead"
  input,    \* its stdin: commands not yet read
  output,   \* its stdout: complete lines not yet read
  prompts,  \* prompts printed at the end of stdout, without a newline
  emitted,  \* events emitted so far
  glued,    \* history: the events among them printed on a prompt's line
  reader,   \* the _read_stdout task: "reading" or "ended"
  probed,   \* probe_nodes is not empty
  pending,  \* _pending_response
  queue,    \* _response_queues[sid]
  file,     \* events.ndjson
  lock,     \* _cmd_locks[sid]: the holder, then those who wait
  doing,    \* per connection: its command and where send_command stands
  asked,    \* commands sent so far
  answer    \* what each command was answered

lusVars    == <<nodes, lus, input, output, prompts, emitted, glued>>
readerVars == <<reader, probed, pending, file>>
callVars   == <<lock, doing, asked, answer>>
vars == <<status, lusVars, readerVars, queue, callVars>>

Ids  == 1 .. MaxCommands
Idle == [id |-> 0, op |-> "none", at |-> "idle"]
None == [kind |-> "none", from |-> {}]
Replied(from) == [kind |-> "response", from |-> from]
Failed(why)   == [kind |-> why, from |-> {}]

Probe == << [id |-> 0, op |-> "nodes"], [id |-> 0, op |-> "time"] >>

(* create_session has spawned lus, started the reader and written the      *)
(* probe.                                                                  *)
Init ==
  /\ status = "starting" /\ nodes \in NodeCounts /\ lus = "booting"
  /\ input = Probe
  /\ output = <<>> /\ prompts = 0 /\ emitted = 0 /\ glued = {}
  /\ reader = "reading" /\ probed = FALSE /\ pending = {} /\ queue = <<>> /\ file = <<>>
  /\ lock = <<>> /\ doing = [c \in Clients |-> Idle] /\ asked = 0
  /\ answer = [k \in Ids |-> None]
-----------------------------------------------------------------------------
(* lus.  A step prints its events and one final line; a command that       *)
(* reached its node also emits a cmd_reply event, before the reply; Lua    *)
(* prints a value or nothing.                                              *)
Copies(n, kind) == [i \in 1 .. n |-> kind]

Prints(op) ==
  CASE op = "time"   -> { <<"final">> }
    [] op = "step"   -> { Copies(n, "event") \o <<"final">> : n \in 0 .. MaxStepEvents }
    [] op = "cmd"    -> { <<"final">>, <<"event", "final">> }
    [] op = "nodes"  -> { Copies(nodes, "node") }
    [] op = "events" -> { Copies(n, "echo") : n \in { m \in 0 .. 2 : m <= emitted } }
    [] op = "lua"    -> { <<"final">>, <<"text">>, <<>> }

Line(kind, n, by, ev) == [prompts |-> n, kind |-> kind, by |-> by, ev |-> ev]

(* The event a line shows: a new one, or one of the last for :events.      *)
EventOf(kinds, i) ==
  CASE kinds[i] = "event" -> emitted + i
    [] kinds[i] = "echo"  -> emitted - Len(kinds) + i
    [] OTHER              -> 0

Printed(kinds, by) ==
  [i \in DOMAIN kinds |-> Line(kinds[i], IF i = 1 THEN prompts ELSE 0, by, EventOf(kinds, i))]

NewEvents(kinds) == Cardinality({ i \in DOMAIN kinds : kinds[i] = "event" })

LusBoots ==
  /\ lus = "booting" /\ lus' = "up"
  /\ output' = Printed(Copies(InitEvents, "event"), 0)
  /\ prompts' = 1 /\ emitted' = InitEvents
  /\ UNCHANGED <<status, nodes, input, glued, readerVars, queue, callVars>>

LusExecutes ==
  /\ lus = "up" /\ input # <<>> /\ input' = Tail(input)
  /\ \E kinds \in Prints(Head(input).op) :
       /\ output' = output \o Printed(kinds, Head(input).id)
       /\ prompts' = IF kinds = <<>> THEN prompts + 1 ELSE 1
       /\ emitted' = emitted + NewEvents(kinds)
       /\ glued' = IF kinds # <<>> /\ kinds[1] = "event" THEN glued \cup {emitted + 1} ELSE glued
  /\ UNCHANGED <<status, nodes, lus, readerVars, queue, callVars>>

(* lus refuses its configuration, aborts, or is terminated.                *)
LusDies ==
  /\ lus # "dead" /\ lus' = "dead" /\ input' = <<>>
  /\ UNCHANGED <<status, nodes, output, prompts, emitted, glued, readerVars, queue, callVars>>
-----------------------------------------------------------------------------
(* The reader: one line per iteration of _read_stdout.                     *)
IsEventWhenReady(l) == status # "starting" /\ l.prompts = 0 /\ l.kind \in {"event", "echo"}
IsEvent(l)     == l.prompts = 0 /\ l.kind \in {"event", "echo"}
IsNode(l)      == l.prompts <= 1 /\ l.kind = "node"
IsPrompt(l)    == l.prompts > 0
IsTerminal(l)  == l.prompts = 1 /\ l.kind = "final"

FlushPending(q) == IF pending = {} THEN q ELSE Append(q, pending)

Reading == reader = "reading" /\ output # <<>> /\ output' = Tail(output)

SaveEvent ==
  /\ Reading /\ IsEvent(Head(output))
  /\ file' = Append(file, Head(output).ev)
  /\ UNCHANGED <<status, nodes, lus, input, prompts, emitted, glued, reader, probed, pending, queue, callVars>>

(* The :time line of the probe ends the list of nodes, unless it is empty. *)
EndsProbe(l)   == IsPrompt(l) /\ ~IsNode(l) /\ probed

ReadProbe ==
  /\ Reading /\ ~IsEvent(Head(output)) /\ status = "starting"
  /\ probed' = (probed \/ IsNode(Head(output)))
  /\ status' = IF EndsProbe(Head(output)) THEN "ready" ELSE status
  /\ UNCHANGED <<nodes, lus, input, prompts, emitted, glued, reader, pending, queue, file, callVars>>

ReadResponse ==
  /\ Reading /\ ~IsEvent(Head(output)) /\ status # "starting"
  /\ LET l == Head(output)
     IN  IF IsPrompt(l)
         THEN /\ queue' = IF IsTerminal(l) THEN Append(FlushPending(queue), {l.by})
                                           ELSE FlushPending(queue)
              /\ pending' = IF IsTerminal(l) THEN {} ELSE {l.by}
         ELSE pending' = pending \cup {l.by} /\ UNCHANGED queue
  /\ UNCHANGED <<status, nodes, lus, input, prompts, emitted, glued, reader, probed, file, callVars>>

StatusAtEof == "closed"

(* EOF: the task flushes and closes a session that nobody closed.          *)
ReaderEnds ==
  /\ reader = "reading" /\ lus = "dead" /\ output = <<>>
  /\ reader' = "ended" /\ status' = StatusAtEof
  /\ queue' = FlushPending(queue) /\ pending' = {}
  /\ UNCHANGED <<lusVars, probed, file, callVars>>

(* close_session: first the status, then, once lus is gone, the reader is  *)
(* cancelled with what it has not read.                                    *)
CloseSession ==
  /\ status # "closed" /\ status' = "closed"
  /\ UNCHANGED <<lusVars, readerVars, queue, callVars>>

CancelReader ==
  /\ status = "closed" /\ lus = "dead" /\ reader = "reading" /\ reader' = "ended"
  /\ queue' = FlushPending(queue) /\ pending' = {}
  /\ UNCHANGED <<status, lusVars, probed, file, callVars>>
-----------------------------------------------------------------------------
(* send_command.  The stale responses are drained before the lock is taken.*)
Release(c, a) ==
  /\ lock' = Tail(lock)
  /\ doing' = [doing EXCEPT ![c] = Idle]
  /\ answer' = [answer EXCEPT ![doing[c].id] = a]

KeepLock(c, a) ==
  /\ UNCHANGED lock
  /\ doing' = [doing EXCEPT ![c] = Idle]
  /\ answer' = [answer EXCEPT ![doing[c].id] = a]

Unlocked(c, a) == Release(c, a)

Drained == <<>>

Refuse(c) ==
  /\ doing[c] = Idle /\ asked < MaxCommands
  /\ \/ (status = "closed" \/ lus = "dead") /\ UNCHANGED queue
     \/ status # "closed" /\ lus = "dead" /\ lock = <<>> /\ queue' = Drained
  /\ asked' = asked + 1
  /\ answer' = [answer EXCEPT ![asked + 1] = Failed("error")]
  /\ UNCHANGED <<status, lusVars, readerVars, lock, doing>>

(* What stdin holds once a command is written: lus may be dead already.    *)
Sent(id, op) == IF lus = "dead" THEN input ELSE Append(input, [id |-> id, op |-> op])

Ask(c, op) ==
  /\ doing[c] = Idle /\ asked < MaxCommands /\ status # "closed"
  /\ asked' = asked + 1
  /\ queue' = Drained
  /\ lock' = Append(lock, c)
  /\ doing' = [doing EXCEPT ![c] = [id |-> asked + 1, op |-> op,
                                    at |-> IF lock = <<>> THEN "awaiting" ELSE "locking"]]
  /\ input' = IF lock = <<>> THEN Sent(asked + 1, op) ELSE input
  /\ UNCHANGED <<status, nodes, lus, output, prompts, emitted, glued, readerVars, answer>>

HoldsAnyone(c) == lock # <<>>
Holds(c)       == lock # <<>> /\ Head(lock) = c

(* The lock is free: the next in line writes its command.                  *)
Write(c) ==
  /\ Holds(c) /\ doing[c].at = "locking"
  /\ doing' = [doing EXCEPT ![c].at = "awaiting"]
  /\ input' = Sent(doing[c].id, doing[c].op)
  /\ UNCHANGED <<status, nodes, lus, output, prompts, emitted, glued, readerVars, queue, lock, asked, answer>>

StdinBroken(c) ==
  /\ Holds(c) /\ doing[c].at = "locking" /\ lus = "dead"
  /\ Unlocked(c, Failed("error"))
  /\ UNCHANGED <<status, lusVars, readerVars, queue, asked>>

Taken     == Tail(queue)

GetResponse(c) ==
  /\ Holds(c) /\ doing[c].at = "awaiting" /\ queue # <<>>
  /\ queue' = Taken
  /\ Release(c, Replied(Head(queue)))
  /\ UNCHANGED <<status, lusVars, readerVars, asked>>

TimeOut(c) ==
  /\ Holds(c) /\ doing[c].at = "awaiting" /\ queue = <<>>
  /\ Release(c, Failed("timeout"))
  /\ UNCHANGED <<status, lusVars, readerVars, queue, asked>>

(* A closed session may rest. *)
Quiet == status = "closed" /\ reader = "ended" /\ UNCHANGED vars

Next ==
  \/ LusBoots \/ LusExecutes \/ LusDies
  \/ SaveEvent \/ ReadProbe \/ ReadResponse \/ ReaderEnds
  \/ CloseSession \/ CancelReader
  \/ \E c \in Clients :
       \/ Refuse(c) \/ Write(c) \/ StdinBroken(c) \/ GetResponse(c) \/ TimeOut(c)
       \/ \E op \in Ops : Ask(c, op)
  \/ Quiet

Spec == Init /\ [][Next]_vars

(* The loop runs every ready task, lus reads its input, and asyncio fires  *)
(* the 60 s timeout of a call that waits; nobody has to ask or to close.   *)
FairSpec ==
  /\ Spec
  /\ WF_vars(LusBoots) /\ WF_vars(LusExecutes)
  /\ WF_vars(SaveEvent \/ ReadProbe \/ ReadResponse) /\ WF_vars(ReaderEnds) /\ WF_vars(CancelReader)
  /\ \A c \in Clients : WF_vars(Write(c) \/ StdinBroken(c)) /\ WF_vars(GetResponse(c) \/ TimeOut(c))
-----------------------------------------------------------------------------
(* Every variable has its type; events.ndjson holds only emitted events.   *)
TypeOK ==
  /\ status \in {"starting", "ready", "closed"} /\ nodes \in NodeCounts
  /\ lus \in {"booting", "up", "dead"} /\ prompts \in Nat /\ emitted \in Nat /\ glued \subseteq 1 .. emitted
  /\ input \in Seq([id : 0 .. MaxCommands, op : Ops \cup {"nodes", "time"}])
  /\ output \in Seq([prompts : Nat, kind : {"event", "echo", "node", "final", "text"},
                     by : 0 .. MaxCommands, ev : Nat])
  /\ reader \in {"reading", "ended"} /\ probed \in BOOLEAN
  /\ pending \subseteq 0 .. MaxCommands /\ queue \in Seq(SUBSET (0 .. MaxCommands))
  /\ file \in Seq(1 .. emitted) /\ lock \in Seq(Clients) /\ asked \in 0 .. MaxCommands
  /\ doing \in [Clients -> [id : 0 .. MaxCommands, op : Ops \cup {"none"},
                            at : {"idle", "locking", "awaiting"}]]
  /\ answer \in [Ids -> [kind : {"none", "response", "error", "timeout"}, from : SUBSET (0 .. MaxCommands)]]

(* What a command printed is handed to at most one caller and never to one *)
(* that asked before it; while the session is open, the probe's lines      *)
(* reach nobody.                                                           *)
OutputDeliveredOnce ==
  \A k \in Ids :
    /\ answer[k].from \subseteq 0 .. k /\ (status # "closed" => 0 \notin answer[k].from)
    /\ \A j \in Ids \ {k} : answer[j].from \cap answer[k].from \subseteq {0}

(* The lock keeps calls apart: while the session is open, a caller is      *)
(* given another command's output only after an earlier call gave up       *)
(* waiting for its own.                                                    *)
MispairedOnlyAfterTimeout ==
  status # "closed" =>
    \A k \in Ids : answer[k].kind = "response" /\ answer[k].from # {k}
      => \E j \in 1 .. k - 1 : answer[j].kind = "timeout"

(* Of the events that the reader has passed, events.ndjson lacks only      *)
(* those that lus printed on the line of a prompt, and the others are      *)
(* saved in the order of their emission; :events may save one again.       *)
Unread(e) == \E i \in DOMAIN output : output[i].kind = "event" /\ output[i].ev = e

EventsSavedInOrder ==
  /\ reader = "reading" => \A e \in 1 .. emitted : e \in Range(file) \cup glued \/ Unread(e)
  /\ \A j \in DOMAIN file :
       \/ file[j] \in glued
       \/ \E i \in 1 .. j - 1 : file[i] = file[j]
       \/ \A i \in 1 .. j - 1 : file[i] < file[j]

(* Every call returns: with a response, an error or a timeout.             *)
EveryCommandAnswered == \A c \in Clients : (doing[c] # Idle) ~> (doing[c] = Idle)

(* The probe makes a session with nodes ready, unless it is closed.        *)
SessionStarts == (status = "starting" /\ nodes > 0) ~> (status # "starting")

(* A session whose lus is gone is closed, whoever notices.                 *)
DeadIsClosed == (lus = "dead") ~> (status = "closed")

(* Output goes where it belongs: both of the above, in well-typed states.  *)
OutputIsPaired == TypeOK /\ OutputDeliveredOnce /\ MispairedOnlyAfterTimeout

(* Nobody waits for ever: not a caller, not the probe, not a dead session. *)
NobodyHangs == EveryCommandAnswered /\ SessionStarts /\ DeadIsClosed
=============================================================================
