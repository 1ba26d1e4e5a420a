-------------------------- MODULE SessionRegistry --------------------------
(***************************************************************************)
(* The life of the interactive sessions of the web server: creation under  *)
(* a cap, start-up, close by a user, an idle timeout, a deletion, the end  *)
(* of lus or the server's shutdown, and what the WebSocket connections of  *)
(* a session are told.  What the commands of a session do is the subject   *)
(* of SessionCommands.                                                     *)
(*                                                                         *)
(* One event loop runs handlers from await to await.  A broadcast awaits   *)
(* every send, so the list of connections it walks can change under it.    *)
(***************************************************************************)
EXTENDS Integers, Sequences, FiniteSets, SequencesExt

CONSTANTS
  Sessions,     \* identifiers that create_session may draw
  Clients,      \* WebSocket connections
  MaxSessions   \* max_sessions

ASSUME SessionAssumption == MaxSessions \in Nat \ {0} /\ Sessions # {}

VARIABLES
  status,    \* per session: _sessions[sid].status, "absent" before, "gone" after
  creating,  \* sessions whose create_session awaits the spawn of lus
  proc,      \* per session: the lus process
  known,     \* sessions with an entry in _processes
  tables,    \* sessions with a response queue and a command lock
  files,     \* sessions whose events.ndjson is open
  dirs,      \* sessions with a directory
  reader,    \* per session: the _read_stdout task
  closing,   \* per session: where its close_session stands
  removing,  \* sessions whose close_session was called by delete_session
  sweeping,  \* the session that the cleanup loop or shutdown is closing, if any
  listed,    \* sessions with an entry in _ws_clients
  ws,        \* per session: that list
  cast,      \* per session and task: the broadcast that is under way
  conn,      \* per connection: its session and state
  heard,     \* per connection: kinds of messages it was sent
  down,      \* the server is shutting down
  raced,     \* history: sessions closed while lus was being spawned
  missed     \* history: sessions of whose end some connection was not told

procVars   == <<creating, proc, known, raced>>
storeVars  == <<files, dirs>>
closeVars  == <<closing, removing, sweeping>>
clientVars == <<listed, ws, cast, conn, heard, missed>>
vars == <<status, procVars, tables, storeVars, reader, closeVars, clientVars, down>>

Open    == {"starting", "ready"}
Tasks   == {"reader", "closer"}
Nothing == [msg |-> "none", i |-> 0, dead |-> {}]
(* A broadcast takes the list that _ws_clients holds when it starts.       *)
Cast(m, s) == IF s \in listed /\ ws[s] # <<>> THEN [msg |-> m, i |-> 1, dead |-> {}] ELSE Nothing
Away    == [at |-> "out", to |-> CHOOSE s \in Sessions : TRUE]

Init ==
  /\ status = [s \in Sessions |-> "absent"] /\ proc = [s \in Sessions |-> "none"]
  /\ creating = {} /\ known = {} /\ tables = {} /\ files = {} /\ dirs = {} /\ raced = {}
  /\ reader = [s \in Sessions |-> "none"] /\ closing = [s \in Sessions |-> "no"] /\ removing = {}
  /\ sweeping = {} /\ missed = {}
  /\ listed = {} /\ ws = [s \in Sessions |-> <<>>]
  /\ cast = [s \in Sessions |-> [t \in Tasks |-> Nothing]]
  /\ conn = [c \in Clients |-> Away] /\ heard = [c \in Clients |-> {}] /\ down = FALSE
-----------------------------------------------------------------------------
(* create_session: the session is in the tables before lus is spawned.     *)
Active == { s \in Sessions : status[s] \in Open }

CreateSession(s) ==
  /\ status[s] = "absent" /\ ~down /\ Cardinality(Active) < MaxSessions
  /\ status' = [status EXCEPT ![s] = "starting"]
  /\ creating' = creating \cup {s} /\ tables' = tables \cup {s}
  /\ dirs' = dirs \cup {s} /\ listed' = listed \cup {s}
  /\ UNCHANGED <<proc, known, raced, files, reader, closeVars, ws, cast, conn, heard, missed, down>>

(* lus runs; a reader that finds no queue returns at once.                 *)
Spawned(s) ==
  /\ s \in creating /\ s \in dirs /\ creating' = creating \ {s}
  /\ proc' = [proc EXCEPT ![s] = "alive"] /\ known' = known \cup {s}
  /\ files' = files \cup {s}
  /\ reader' = [reader EXCEPT ![s] = IF s \in tables THEN "reading" ELSE "ended"]
  /\ UNCHANGED <<status, raced, tables, dirs, closeVars, clientVars, down>>

(* _cleanup_failed_startup: no lus, or no directory to write the events in,*)
(* or the probe cannot be written; a lus that was started is terminated.   *)
StartupFails(s) ==
  /\ s \in creating /\ creating' = creating \ {s}
  /\ status' = [status EXCEPT ![s] = IF @ = "gone" THEN @ ELSE "closed"]
  /\ \E p \in {"none", "dead"} : proc' = [proc EXCEPT ![s] = p]
  /\ tables' = tables \ {s} /\ listed' = listed \ {s}
  /\ UNCHANGED <<known, raced, storeVars, reader, closeVars, ws, cast, conn, heard, missed, down>>

LusExits(s) ==
  /\ proc[s] = "alive" /\ proc' = [proc EXCEPT ![s] = "dead"]
  /\ UNCHANGED <<status, creating, known, raced, tables, storeVars, reader, closeVars, clientVars, down>>
-----------------------------------------------------------------------------
(* The reader task broadcasts what lus says, one message at a time.        *)
ReaderIdle(s) == reader[s] = "reading" /\ cast[s]["reader"] = Nothing

BecomesReady(s) ==
  /\ ReaderIdle(s) /\ status[s] = "starting"
  /\ status' = [status EXCEPT ![s] = "ready"]
  /\ cast' = [cast EXCEPT ![s]["reader"] = Cast("ready", s)]
  /\ UNCHANGED <<procVars, tables, storeVars, reader, closeVars, listed, ws, conn, heard, missed, down>>

ReadEvent(s) ==
  /\ ReaderIdle(s)
  /\ cast' = [cast EXCEPT ![s]["reader"] = Cast("event", s)]
  /\ UNCHANGED <<status, procVars, tables, storeVars, reader, closeVars, listed, ws, conn, heard, missed, down>>

(* _broadcast: the loop indexes the live list, so a removal ahead of it    *)
(* makes it pass over a connection.  Failed sends are removed at the end.  *)
CanHear(c, s) == conn[c].at \in {"open", "quitting"} /\ conn[c].to = s

Send(s, t) ==
  LET b == cast[s][t]
      c == ws[s][b.i]
  IN  /\ b # Nothing /\ b.i <= Len(ws[s])
      /\ heard' = IF CanHear(c, s) THEN [heard EXCEPT ![c] = @ \cup {b.msg}] ELSE heard
      /\ cast' = [cast EXCEPT ![s][t] = [msg |-> b.msg, i |-> b.i + 1,
                                         dead |-> IF CanHear(c, s) THEN b.dead ELSE b.dead \cup {c}]]
      /\ UNCHANGED <<status, procVars, tables, storeVars, reader, closeVars, listed, ws, conn, missed, down>>

WithoutNone(q, C) == q
Without(q, C) ==
  LET kept[i \in 0 .. Len(q)] ==
        IF i = 0 THEN <<>> ELSE IF q[i] \in C THEN kept[i - 1] ELSE Append(kept[i - 1], q[i])
  IN  kept[Len(q)]

EndCast(s, t) ==
  LET b == cast[s][t]
  IN  /\ b = Nothing \/ b.i > Len(ws[s])
      /\ ws' = [ws EXCEPT ![s] = Without(@, b.dead)]
      /\ cast' = [cast EXCEPT ![s][t] = Nothing]
-----------------------------------------------------------------------------
(* close_session, called by a handler of the given session.  One call at a *)
(* time gets past the status.  Without a process there is nothing to await.*)
BeginClose(s) ==
  /\ status' = [status EXCEPT ![s] = "closed"]
  /\ known' = known \ {s}
  /\ raced' = IF s \in creating THEN raced \cup {s} ELSE raced
  /\ closing' = [closing EXCEPT ![s] = IF s \in known THEN "killing" ELSE "telling"]
  /\ cast' = IF s \in known THEN cast ELSE [cast EXCEPT ![s]["closer"] = Cast("closed", s)]

ReaderEof(s) ==
  /\ ReaderIdle(s) /\ proc[s] = "dead" /\ reader' = [reader EXCEPT ![s] = "ended"]
  /\ IF status[s] \in Open THEN BeginClose(s) ELSE UNCHANGED <<status, known, raced, closing, cast>>
  /\ UNCHANGED <<creating, proc, tables, storeVars, removing, sweeping, listed, ws, conn, heard, missed, down>>

Close(s) ==
  /\ status[s] \in Open /\ BeginClose(s)
  /\ UNCHANGED <<creating, proc, tables, storeVars, reader, listed, ws, heard, missed>>

(* The endpoint that quits waits for the close, unless it is another's.    *)
Quit(c) ==
  /\ conn[c].at = "open"
  /\ IF status[conn[c].to] \in Open
     THEN Close(conn[c].to) /\ conn' = [conn EXCEPT ![c].at = "quitting"]
     ELSE /\ conn' = [conn EXCEPT ![c].at = "lost"]
          /\ UNCHANGED <<status, procVars, tables, storeVars, reader, closing, listed, ws, cast, heard, missed>>
  /\ UNCHANGED <<removing, sweeping, down>>

(* _cleanup_loop: no connection, and no command for idle_timeout_s.        *)
Idle(s)      == status[s] \in Open /\ ws[s] = <<>>

IdleClose(s) ==
  /\ Idle(s) /\ sweeping = {} /\ ~down /\ Close(s)
  /\ sweeping' = {s}
  /\ UNCHANGED <<removing, conn, down>>

(* shutdown, once no request is being served: it cancels the cleanup loop, *)
(* and a close that the loop was awaiting goes no further than the signal  *)
(* it sent to lus.                                                         *)
Shutdown ==
  /\ ~down /\ down' = TRUE /\ creating = {}
  /\ closing' = [s \in Sessions |-> IF s \in sweeping THEN "aborted" ELSE closing[s]]
  /\ cast' = [s \in Sessions |-> IF s \in sweeping THEN [cast[s] EXCEPT !["closer"] = Nothing] ELSE cast[s]]
  /\ sweeping' = {}
  /\ UNCHANGED <<status, procVars, tables, storeVars, reader, removing, listed, ws, conn, heard, missed>>

ToShut(s)      == down /\ status[s] \in Open

(* One session after the other.                                            *)
ShutdownClose(s) ==
  /\ ToShut(s) /\ sweeping = {} /\ Close(s)
  /\ sweeping' = {s}
  /\ UNCHANGED <<removing, conn, down>>

(* The process is terminated, or killed after 3 s; then the reader is      *)
(* cancelled, in the middle of a broadcast if need be.                     *)
KillableAlive(s) == closing[s] = "killing" /\ proc[s] = "alive"
Killable(s)      == closing[s] = "killing"

CastLeft(s)      == cast[s]["reader"]
CastCancelled(s) == Nothing
FileToClose(s)   == {s}

Killed(s) ==
  /\ Killable(s) /\ closing' = [closing EXCEPT ![s] = "telling"]
  /\ proc' = [proc EXCEPT ![s] = "dead"]
  /\ reader' = [reader EXCEPT ![s] = "ended"]
  /\ files' = files \ FileToClose(s)
  /\ cast' = [cast EXCEPT ![s] = [reader |-> CastCancelled(s), closer |-> Cast("closed", s)]]
  /\ UNCHANGED <<status, creating, known, raced, tables, dirs, removing, sweeping, listed, ws, conn, heard, missed, down>>

Delisted(s)        == {s}

Told(s) ==
  /\ closing[s] = "telling" /\ EndCast(s, "closer")
  /\ closing' = [closing EXCEPT ![s] = "done"]
  /\ tables' = tables \ {s} /\ sweeping' = sweeping \ {s}
  /\ IF s \in removing /\ status[s] # "gone"
     THEN status' = [status EXCEPT ![s] = "gone"] /\ dirs' = dirs \ {s} /\ listed' = listed \ Delisted(s)
     ELSE UNCHANGED <<status, dirs, listed>>
  /\ UNCHANGED <<procVars, files, reader, removing, conn, heard, missed, down>>

ReaderTold(s) ==
  /\ cast[s]["reader"] # Nothing /\ EndCast(s, "reader")
  /\ UNCHANGED <<status, procVars, tables, storeVars, reader, closeVars, listed, conn, heard, missed, down>>

(* delete_session: another call that is closing the session is not awaited.*)
DeleteOpen(s) ==
  /\ removing' = removing \cup {s} /\ Close(s)
  /\ UNCHANGED <<sweeping, conn, down>>

DeleteClosed(s) ==
  /\ status[s] = "closed" /\ status' = [status EXCEPT ![s] = "gone"]
  /\ dirs' = dirs \ {s} /\ listed' = listed \ Delisted(s)
  /\ missed' = IF closing[s] = "killing" THEN missed \cup {s} ELSE missed
  /\ UNCHANGED <<procVars, tables, files, reader, closeVars, ws, cast, conn, heard, down>>
-----------------------------------------------------------------------------
(* The WebSocket endpoint: register, tell the current state, serve, and    *)
(* unregister when the connection is lost or the user quits.               *)
GreetingIfOpen(s) == {status[s]} \cap Open
Greeting(s)       == {status[s]}

Connect(c, s) ==
  /\ conn[c].at = "out" /\ status[s] \in Open \cup {"closed"} /\ ~down
  /\ conn' = [conn EXCEPT ![c] = [at |-> "open", to |-> s]]
  /\ ws' = IF s \in listed THEN [ws EXCEPT ![s] = Append(@, c)] ELSE ws
  /\ heard' = [heard EXCEPT ![c] = Greeting(s)]
  /\ UNCHANGED <<status, procVars, tables, storeVars, reader, closeVars, listed, cast, missed, down>>

Lose(c) ==
  /\ conn[c].at = "open" /\ conn' = [conn EXCEPT ![c].at = "lost"]
  /\ UNCHANGED <<status, procVars, tables, storeVars, reader, closeVars, listed, ws, cast, heard, missed, down>>

(* unregister_ws; the broadcast of a close passes over the connection that *)
(* moves up to a place it has already visited.                             *)
Unregister(c) ==
  LET s == conn[c].to
      b == cast[s]["closer"]
  IN  /\ conn[c].at = "lost" \/ (conn[c].at = "quitting" /\ closing[s] = "done")
      /\ ws' = IF s \in listed THEN [ws EXCEPT ![s] = Without(@, {c})] ELSE ws
      /\ missed' = IF s \in listed /\ b # Nothing /\ \E k \in 1 .. b.i - 1 : k <= Len(ws[s]) /\ ws[s][k] = c
                   THEN missed \cup {s} ELSE missed
      /\ conn' = [conn EXCEPT ![c] = [Away EXCEPT !.at = "left"]] /\ heard' = [heard EXCEPT ![c] = {}]
      /\ UNCHANGED <<status, procVars, tables, storeVars, reader, closeVars, listed, cast, down>>

(* A server that was shut down may rest; CloseCompletes says that it       *)
(* leaves nothing half done.                                               *)
Stopped == down /\ UNCHANGED vars

SessionNext(s) ==
  \/ CreateSession(s) \/ Spawned(s) \/ StartupFails(s) \/ LusExits(s)
  \/ BecomesReady(s) \/ ReadEvent(s) \/ ReaderEof(s) \/ ReaderTold(s)
  \/ IdleClose(s) \/ ShutdownClose(s) \/ Killed(s) \/ Told(s)
  \/ DeleteOpen(s) \/ DeleteClosed(s)
  \/ \E t \in Tasks : Send(s, t)

Next ==
  \/ \E s \in Sessions : SessionNext(s)
  \/ \E c \in Clients : Quit(c) \/ Lose(c) \/ Unregister(c) \/ \E s \in Sessions : Connect(c, s)
  \/ Shutdown \/ Stopped

Spec == Init /\ [][Next]_vars

(* The loop runs every ready task; terminate() or kill() ends lus; idle    *)
(* sessions are looked at every 60 s.                                      *)
Fairness ==
  /\ \A s \in Sessions :
       /\ WF_vars(Spawned(s) \/ StartupFails(s)) /\ WF_vars(ReaderEof(s)) /\ WF_vars(ReaderTold(s))
       /\ WF_vars(Killed(s)) /\ WF_vars(Told(s)) /\ \A t \in Tasks : WF_vars(Send(s, t))
       /\ WF_vars(IdleClose(s)) /\ WF_vars(ShutdownClose(s))
       /\ WF_vars(LusExits(s) /\ closing[s] = "aborted")
  /\ \A c \in Clients : WF_vars(Unregister(c))

FairSpec == Spec /\ Fairness
-----------------------------------------------------------------------------
(* Every variable has its type; a deleted session keeps no list.           *)
TypeOK ==
  /\ status \in [Sessions -> Open \cup {"absent", "closed", "gone"}]
  /\ proc \in [Sessions -> {"none", "alive", "dead"}]
  /\ UNION {creating, known, tables, files, dirs, removing, sweeping, listed, raced, missed} \subseteq Sessions
  /\ reader \in [Sessions -> {"none", "reading", "ended"}]
  /\ closing \in [Sessions -> {"no", "killing", "telling", "done", "aborted"}]
  /\ \A s \in Sessions : ws[s] \in Seq(Clients) /\ (s \in listed => status[s] # "gone")
  /\ cast \in [Sessions -> [Tasks -> [msg : {"none", "ready", "event", "closed"}, i : Nat, dead : SUBSET Clients]]]
  /\ conn \in [Clients -> [at : {"out", "open", "quitting", "lost", "left"}, to : Sessions]]
  /\ heard \in [Clients -> SUBSET {"starting", "ready", "event", "closed"}] /\ down \in BOOLEAN

(* A session that was closed, other than in the middle of its own spawn,   *)
(* keeps no lus once its close is through, and no reader, open file,       *)
(* process entry, queue or lock.                                           *)
ClosedLeavesNothing ==
  \A s \in Sessions \ raced : status[s] \in {"closed", "gone"} =>
    /\ proc[s] = "alive" => closing[s] \in {"killing", "aborted"}
    /\ s \notin known
    /\ closing[s] = "done" => s \notin files \cup tables /\ reader[s] = "ended"

(* Nobody is left waiting at a session that ended: when its close is       *)
(* through, every connection was told, except where a deletion or a        *)
(* connection that left overtook the broadcast.                            *)
EveryoneToldOfClose ==
  \A c \in Clients : conn[c].at = "open" =>
    LET s == conn[c].to IN closing[s] = "done" /\ s \notin missed \cup raced => "closed" \in heard[c]

(* "closed" is the last word of a session: once its close has begun to     *)
(* tell the connections, none of them hears an event of the dying lus.     *)
ClosedIsLastWord ==
  [][\A c \in Clients : conn[c].at \in {"open", "quitting"} /\ conn[c].to \notin raced
       /\ closing[conn[c].to] \in {"telling", "done"}
       => heard'[c] \subseteq heard[c] \cup {"closed"}]_vars

(* A session that nobody watches any more is closed, though it may never   *)
(* have become ready.                                                      *)
AbandonedIsClosed ==
  \A s \in Sessions :
    (status[s] \in Open /\ ws[s] = <<>> /\ ~down) ~> (status[s] \notin Open \/ ws[s] # <<>> \/ down)

(* Every close gets through, and after a shutdown no lus of an orderly     *)
(* session runs.                                                           *)
CloseCompletes ==
  \A s \in Sessions : (closing[s] = "killing") ~> (closing[s] \in {"done", "aborted"})

ShutdownStopsAll == \A s \in Sessions : down ~> (s \in raced \/ proc[s] # "alive")

(* A close is clean for the server and for those who watch the session.    *)
CloseIsClean == TypeOK /\ ClosedLeavesNothing /\ EveryoneToldOfClose

(* Whatever starts a close, it comes about and it comes to its end.        *)
ClosesEnd == AbandonedIsClosed /\ CloseCompletes /\ ShutdownStopsAll
=============================================================================
