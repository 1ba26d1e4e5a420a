---------------------- MODULE SessionRegistry_proofs ----------------------
(***************************************************************************)
(* Proofs, for any number of sessions and connections, that the close of a *)
(* session leaves nothing behind, that everybody who stays is told of it   *)
(* and that "closed" is the last word they hear.  Each handler works on    *)
(* one session, so the invariants are about one session: Tidy, and for the *)
(* lists that broadcasts walk Honest and Reached.                          *)
(***************************************************************************)
EXTENDS SessionRegistry, SequenceTheorems, WellFoundedInduction, TLAPS

Over == {"closed", "gone"}

(* A session that was not closed in the middle of its own spawn.           *)
Tidy(s) ==
  /\ status[s] = "absent" => s \notin creating \cup known /\ reader[s] = "none"
  /\ s \in creating => status[s] = "starting" /\ s \notin known /\ reader[s] = "none"
  /\ status[s] \in Open /\ s \notin creating => s \in known
  /\ s \in known => status[s] \in Open
  /\ status[s] \notin Over => closing[s] = "no"
  /\ status[s] \in Over =>
       \/ closing[s] \in {"killing", "aborted"}
       \/ proc[s] # "alive" /\ reader[s] # "reading" /\ cast[s]["reader"] = Nothing
  /\ closing[s] \in {"telling", "done"} => s \notin files /\ reader[s] = "ended"
  /\ closing[s] = "done" => s \notin tables
  /\ reader[s] = "none" => cast[s]["reader"] = Nothing
  /\ s \in sweeping => status[s] \in Over
  /\ cast[s]["closer"] = Nothing \/ cast[s]["closer"].msg = "closed"

(* What is a function stays one.                                           *)
Shapes ==
  /\ status \in [Sessions -> Open \cup Over \cup {"absent"}]
  /\ proc \in [Sessions -> {"none", "alive", "dead"}]
  /\ reader \in [Sessions -> {"none", "reading", "ended"}]
  /\ closing \in [Sessions -> {"no", "killing", "telling", "done", "aborted"}]
  /\ DOMAIN cast = Sessions /\ \A s \in Sessions : DOMAIN cast[s] = Tasks
  /\ conn \in [Clients -> [at : {"out", "open", "quitting", "lost", "left"}, to : Sessions]]
  /\ DOMAIN heard = Clients

SInv == Shapes /\ \A s \in Sessions \ raced : Tidy(s)

(* A session that a step does not touch.                                   *)
Same(s) ==
  /\ status'[s] = status[s] /\ proc'[s] = proc[s] /\ reader'[s] = reader[s]
  /\ closing'[s] = closing[s] /\ cast'[s] = cast[s]
  /\ s \in creating' <=> s \in creating
  /\ s \in known' <=> s \in known
  /\ s \in files' <=> s \in files
  /\ s \in tables' <=> s \in tables
  /\ s \in sweeping' <=> s \in sweeping
  /\ s \in raced => s \in raced'

LEMMA SameStaysTidy ==
  ASSUME NEW s, Same(s), Tidy(s)
  PROVE  Tidy(s)'
BY DEF Same, Tidy

(* A step of one session. *)
LEMMA OneSession ==
  ASSUME SInv, Shapes', NEW s \in Sessions, \A t \in Sessions \ {s} : Same(t),
         s \notin raced' => Tidy(s)', s \in raced => s \in raced'
  PROVE  SInv'
<1>1. ASSUME NEW t \in Sessions \ raced', t # s PROVE Tidy(t)'
  BY <1>1, SameStaysTidy DEF SInv, Same
<1> QED
  BY <1>1 DEF SInv

LEMMA TaskNames == "reader" \in Tasks /\ "closer" \in Tasks /\ "reader" # "closer"
BY DEF Tasks

LEMMA CastShape ==
  ASSUME Shapes, NEW s \in Sessions, NEW t \in Tasks, NEW b, cast' = [cast EXCEPT ![s][t] = b]
  PROVE  /\ DOMAIN cast' = Sessions /\ \A x \in Sessions : DOMAIN cast'[x] = Tasks
         /\ cast'[s][t] = b
         /\ \A y \in Tasks \ {t} : cast'[s][y] = cast[s][y]
         /\ \A x \in Sessions \ {s} : cast'[x] = cast[x]
<1>1. DOMAIN cast = Sessions /\ \A x \in Sessions : DOMAIN cast[x] = Tasks
  BY DEF Shapes
<1>2. cast' = [cast EXCEPT ![s] = [cast[s] EXCEPT ![t] = b]]
  OBVIOUS
<1>3. /\ DOMAIN cast' = Sessions /\ cast'[s] = [cast[s] EXCEPT ![t] = b]
      /\ \A x \in Sessions \ {s} : cast'[x] = cast[x]
  BY <1>1, <1>2
<1>4. DOMAIN cast'[s] = Tasks /\ cast'[s][t] = b /\ \A y \in Tasks \ {t} : cast'[s][y] = cast[s][y]
  BY <1>1, <1>3
<1> QED
  BY <1>1, <1>3, <1>4

LEMMA ShapesKept == SInv => Shapes
BY DEF SInv

LEMMA ReaderCast ==
  ASSUME Shapes, NEW s \in Sessions, NEW b, cast' = [cast EXCEPT ![s]["reader"] = b]
  PROVE  /\ DOMAIN cast' = Sessions /\ \A x \in Sessions : DOMAIN cast'[x] = Tasks
         /\ cast'[s]["reader"] = b /\ cast'[s]["closer"] = cast[s]["closer"]
         /\ \A x \in Sessions \ {s} : cast'[x] = cast[x]
<1>1. DOMAIN cast = Sessions /\ \A x \in Sessions : DOMAIN cast[x] = Tasks
  BY DEF Shapes
<1>2. cast' = [cast EXCEPT ![s] = [cast[s] EXCEPT !["reader"] = b]]
  OBVIOUS
<1>3. /\ DOMAIN cast' = Sessions /\ cast'[s] = [cast[s] EXCEPT !["reader"] = b]
      /\ \A x \in Sessions \ {s} : cast'[x] = cast[x]
  BY <1>1, <1>2
<1>4. DOMAIN cast'[s] = Tasks /\ cast'[s]["reader"] = b /\ cast'[s]["closer"] = cast[s]["closer"]
  BY <1>1, <1>3, TaskNames
<1> QED
  BY <1>1, <1>3, <1>4

LEMMA CloserCast ==
  ASSUME Shapes, NEW s \in Sessions, NEW b, cast' = [cast EXCEPT ![s]["closer"] = b]
  PROVE  /\ DOMAIN cast' = Sessions /\ \A x \in Sessions : DOMAIN cast'[x] = Tasks
         /\ cast'[s]["closer"] = b /\ cast'[s]["reader"] = cast[s]["reader"]
         /\ \A x \in Sessions \ {s} : cast'[x] = cast[x]
<1>1. DOMAIN cast = Sessions /\ \A x \in Sessions : DOMAIN cast[x] = Tasks
  BY DEF Shapes
<1>2. cast' = [cast EXCEPT ![s] = [cast[s] EXCEPT !["closer"] = b]]
  OBVIOUS
<1>3. /\ DOMAIN cast' = Sessions /\ cast'[s] = [cast[s] EXCEPT !["closer"] = b]
      /\ \A x \in Sessions \ {s} : cast'[x] = cast[x]
  BY <1>1, <1>2
<1>4. DOMAIN cast'[s] = Tasks /\ cast'[s]["closer"] = b /\ cast'[s]["reader"] = cast[s]["reader"]
  BY <1>1, <1>3, TaskNames
<1> QED
  BY <1>1, <1>3, <1>4

LEMMA CastSays ==
  \A m, s : Cast(m, s) = Nothing \/ Cast(m, s).msg = m
BY DEF Cast


-----------------------------------------------------------------------------
LEMMA CreateStep ==
  ASSUME SInv, NEW s \in Sessions, CreateSession(s)
  PROVE  SInv'
<1>1. /\ status[s] = "absent" /\ status' = [status EXCEPT ![s] = "starting"]
      /\ creating' = creating \cup {s} /\ tables' = tables \cup {s}
      /\ UNCHANGED <<proc, known, files, reader, closing, cast, sweeping, raced, conn, heard>>
  BY DEF CreateSession, closeVars
<1>2. Shapes'
  BY <1>1 DEF SInv, Shapes, Open
<1>3. \A t \in Sessions \ {s} : Same(t)
  BY <1>1 DEF SInv, Shapes, Same
<1>4. ASSUME s \notin raced' PROVE Tidy(s)'
  <2>1. Tidy(s) /\ status'[s] = "starting" /\ closing'[s] = "no" /\ reader'[s] = "none" /\ cast'[s] = cast[s]
    BY <1>1, <1>4 DEF SInv, Shapes, Tidy, Over
  <2> QED
    BY <1>1, <2>1 DEF Tidy, Open, Over
<1> QED
  BY <1>1, <1>2, <1>3, <1>4, OneSession

LEMMA SpawnedStep ==
  ASSUME SInv, NEW s \in Sessions, Spawned(s)
  PROVE  SInv'
<1>1. /\ s \in creating /\ creating' = creating \ {s} /\ proc' = [proc EXCEPT ![s] = "alive"]
      /\ known' = known \cup {s} /\ files' = files \cup {s}
      /\ \E r \in {"reading", "ended"} : reader' = [reader EXCEPT ![s] = r]
      /\ UNCHANGED <<status, tables, closing, cast, sweeping, raced, conn, heard>>
  BY DEF Spawned, closeVars, clientVars
<1>2. Shapes'
  BY <1>1 DEF SInv, Shapes, Open, Over
<1>3. \A x \in Sessions \ {s} : Same(x)
  BY <1>1 DEF SInv, Shapes, Same
<1>4. ASSUME s \notin raced' PROVE Tidy(s)'
  <2>1. /\ Tidy(s) /\ status'[s] = "starting" /\ closing'[s] = "no" /\ reader'[s] \in {"reading", "ended"}
        /\ cast'[s] = cast[s] /\ s \in known' /\ s \notin creating'
    BY <1>1, <1>4 DEF SInv, Shapes, Tidy, Over
  <2> QED
    BY <1>1, <2>1 DEF Tidy, Open, Over
<1> QED
  BY <1>1, <1>2, <1>3, <1>4, OneSession

LEMMA StartupFailsStep ==
  ASSUME SInv, NEW s \in Sessions, StartupFails(s)
  PROVE  SInv'
<1>1. /\ s \in creating /\ creating' = creating \ {s} /\ tables' = tables \ {s}
      /\ status' = [status EXCEPT ![s] = IF @ = "gone" THEN @ ELSE "closed"]
      /\ \E p \in {"none", "dead"} : proc' = [proc EXCEPT ![s] = p]
      /\ UNCHANGED <<known, files, reader, closing, cast, sweeping, raced, conn, heard>>
  BY DEF StartupFails, closeVars, storeVars
<1>2. Shapes'
  BY <1>1 DEF SInv, Shapes, Open, Over
<1>3. \A x \in Sessions \ {s} : Same(x)
  BY <1>1 DEF SInv, Shapes, Same
<1>4. ASSUME s \notin raced' PROVE Tidy(s)'
  <2>1. /\ Tidy(s) /\ status'[s] = "closed" /\ closing'[s] = "no" /\ reader'[s] = "none"
        /\ cast'[s] = cast[s] /\ s \notin known' /\ s \notin creating' /\ proc'[s] # "alive"
    BY <1>1, <1>4 DEF SInv, Shapes, Tidy, Over
  <2> QED
    BY <1>1, <2>1 DEF Tidy, Open, Over
<1> QED
  BY <1>1, <1>2, <1>3, <1>4, OneSession

LEMMA LusExitsStep ==
  ASSUME SInv, NEW s \in Sessions, LusExits(s)
  PROVE  SInv'
<1>1. /\ proc' = [proc EXCEPT ![s] = "dead"]
      /\ UNCHANGED <<status, creating, known, raced, tables, files, reader, closing, sweeping, cast, conn, heard>>
  BY DEF LusExits, closeVars, clientVars, storeVars
<1>2. Shapes'
  BY <1>1 DEF SInv, Shapes, Open, Over
<1>3. \A x \in Sessions \ {s} : Same(x)
  BY <1>1 DEF SInv, Shapes, Same
<1>4. ASSUME s \notin raced' PROVE Tidy(s)'
  <2>1. Tidy(s) /\ proc'[s] = "dead"
    BY <1>1, <1>4 DEF SInv, Shapes
  <2> QED
    BY <1>1, <2>1 DEF Tidy, Open, Over
<1> QED
  BY <1>1, <1>2, <1>3, <1>4, OneSession

LEMMA BecomesReadyStep ==
  ASSUME SInv, NEW s \in Sessions, BecomesReady(s)
  PROVE  SInv'
<1>1. /\ status[s] = "starting" /\ status' = [status EXCEPT ![s] = "ready"]
      /\ reader[s] = "reading" /\ \E b : cast' = [cast EXCEPT ![s]["reader"] = b]
      /\ UNCHANGED <<creating, proc, known, raced, tables, files, reader, closing, sweeping, conn, heard>>
  BY DEF BecomesReady, ReaderIdle, procVars, closeVars, storeVars
<1>2. PICK b : cast' = [cast EXCEPT ![s]["reader"] = b]
  BY <1>1
<1>3. /\ DOMAIN cast' = Sessions /\ \A x \in Sessions : DOMAIN cast'[x] = Tasks
      /\ cast'[s]["closer"] = cast[s]["closer"]
      /\ \A x \in Sessions \ {s} : cast'[x] = cast[x]
  BY <1>2, ReaderCast, ShapesKept
<1>4. Shapes'
  BY <1>1, <1>3 DEF SInv, Shapes, Open
<1>5. \A x \in Sessions \ {s} : Same(x)
  BY <1>1, <1>3 DEF SInv, Shapes, Same
<1>6. ASSUME s \notin raced' PROVE Tidy(s)'
  <2>1. Tidy(s)
    BY <1>1, <1>6 DEF SInv
  <2>2. status'[s] = "ready" /\ status[s] = "starting"
    BY <1>1 DEF SInv, Shapes
  <2> QED
    BY <1>1, <1>3, <2>1, <2>2 DEF Tidy, Open, Over
<1> QED
  BY <1>1, <1>4, <1>5, <1>6, OneSession

LEMMA ReadEventStep ==
  ASSUME SInv, NEW s \in Sessions, ReadEvent(s)
  PROVE  SInv'
<1>1. /\ reader[s] = "reading" /\ \E b : cast' = [cast EXCEPT ![s]["reader"] = b]
      /\ UNCHANGED <<status, creating, proc, known, raced, tables, files, reader, closing, sweeping, conn, heard>>
  BY DEF ReadEvent, ReaderIdle, procVars, closeVars, storeVars
<1>2. PICK b : cast' = [cast EXCEPT ![s]["reader"] = b]
  BY <1>1
<1>3. /\ DOMAIN cast' = Sessions /\ \A x \in Sessions : DOMAIN cast'[x] = Tasks
      /\ cast'[s]["closer"] = cast[s]["closer"]
      /\ \A x \in Sessions \ {s} : cast'[x] = cast[x]
  BY <1>2, ReaderCast, ShapesKept
<1>4. Shapes'
  BY <1>1, <1>3 DEF SInv, Shapes, Open
<1>5. \A x \in Sessions \ {s} : Same(x)
  BY <1>1, <1>3 DEF SInv, Shapes, Same
<1>6. ASSUME s \notin raced' PROVE Tidy(s)'
  <2>1. Tidy(s)
    BY <1>1, <1>6 DEF SInv
  <2>2. status'[s] = status[s]
    BY <1>1 DEF SInv, Shapes
  <2> QED
    BY <1>1, <1>3, <2>1, <2>2 DEF Tidy, Open, Over
<1> QED
  BY <1>1, <1>4, <1>5, <1>6, OneSession

(* However a close begins: the session is still known, so its lus is killed *)
(* before anybody is told.                                                  *)
LEMMA CloseStep ==
  ASSUME SInv, NEW s \in Sessions, status[s] \in Open, BeginClose(s),
         UNCHANGED <<creating, proc, files, tables, heard>>,
         reader' = reader \/ reader' = [reader EXCEPT ![s] = "ended"],
         \A x \in Sessions \ {s} : x \in sweeping' <=> x \in sweeping,
         conn' \in [Clients -> [at : {"out", "open", "quitting", "lost", "left"}, to : Sessions]]
  PROVE  SInv'
<1>1. /\ status' = [status EXCEPT ![s] = "closed"] /\ known' = known \ {s}
      /\ raced' = IF s \in creating THEN raced \cup {s} ELSE raced
      /\ closing' = [closing EXCEPT ![s] = IF s \in known THEN "killing" ELSE "telling"]
      /\ cast' = cast \/ cast' = [cast EXCEPT ![s]["closer"] = Cast("closed", s)]
      /\ s \in known => cast' = cast
  BY DEF BeginClose
<1>2. /\ DOMAIN cast' = Sessions /\ \A x \in Sessions : DOMAIN cast'[x] = Tasks
      /\ \A x \in Sessions \ {s} : cast'[x] = cast[x]
  <2>1. CASE cast' = cast
    BY <2>1 DEF SInv, Shapes
  <2>2. CASE cast' = [cast EXCEPT ![s]["closer"] = Cast("closed", s)]
    BY <2>2, CloserCast, ShapesKept
  <2> QED
    BY <1>1, <2>1, <2>2
<1>3. Shapes'
  BY <1>1, <1>2 DEF SInv, Shapes, Over
<1>4. \A x \in Sessions \ {s} : Same(x)
  BY <1>1, <1>2 DEF SInv, Shapes, Same
<1>5. ASSUME s \notin raced' PROVE Tidy(s)'
  <2>1. Tidy(s) /\ s \notin creating
    BY <1>1, <1>5 DEF SInv
  <2>2. s \in known
    BY <2>1 DEF Tidy
  <2>3. /\ status'[s] = "closed" /\ closing'[s] = "killing" /\ cast' = cast /\ s \notin known'
        /\ reader'[s] \in {reader[s], "ended"}
    BY <1>1, <2>2 DEF SInv, Shapes
  <2> QED
    BY <2>1, <2>3 DEF Tidy, Open, Over
<1> QED
  BY <1>1, <1>3, <1>4, <1>5, OneSession

LEMMA ReaderEofStep ==
  ASSUME SInv, NEW s \in Sessions, ReaderEof(s)
  PROVE  SInv'
<1>1. /\ reader[s] = "reading" /\ cast[s]["reader"] = Nothing /\ proc[s] = "dead"
      /\ reader' = [reader EXCEPT ![s] = "ended"]
      /\ UNCHANGED <<creating, proc, tables, files, removing, sweeping, conn, heard>>
  BY DEF ReaderEof, ReaderIdle, storeVars
<1>2. CASE status[s] \in Open
  <2>1. BeginClose(s)
    BY <1>2 DEF ReaderEof
  <2>2. conn' \in [Clients -> [at : {"out", "open", "quitting", "lost", "left"}, to : Sessions]]
    BY <1>1 DEF SInv, Shapes
  <2> QED
    BY <1>1, <1>2, <2>1, <2>2, CloseStep
<1>3. CASE status[s] \notin Open
  <2>1. UNCHANGED <<status, known, raced, closing, cast>>
    BY <1>3 DEF ReaderEof
  <2>2. Shapes'
    BY <1>1, <2>1 DEF SInv, Shapes
  <2>3. \A x \in Sessions \ {s} : Same(x)
    BY <1>1, <2>1 DEF SInv, Shapes, Same
  <2>4. ASSUME s \notin raced' PROVE Tidy(s)'
    <3>1. Tidy(s) /\ reader'[s] = "ended"
      BY <1>1, <2>1, <2>4 DEF SInv, Shapes
    <3> QED
      BY <1>1, <1>3, <2>1, <3>1 DEF Tidy, Over
  <2> QED
    BY <2>1, <2>2, <2>3, <2>4, OneSession
<1> QED
  BY <1>2, <1>3

LEMMA ClosedByServer ==
  ASSUME SInv, NEW s \in Sessions, IdleClose(s) \/ ShutdownClose(s) \/ DeleteOpen(s)
  PROVE  SInv'
<1>1. /\ Close(s) /\ conn' = conn /\ \A x \in Sessions \ {s} : x \in sweeping' <=> x \in sweeping
  BY DEF IdleClose, ShutdownClose, DeleteOpen
<1>2. /\ status[s] \in Open /\ BeginClose(s)
      /\ UNCHANGED <<creating, proc, tables, files, reader, heard>>
  BY <1>1 DEF Close, storeVars
<1>3. conn' \in [Clients -> [at : {"out", "open", "quitting", "lost", "left"}, to : Sessions]]
  BY <1>1 DEF SInv, Shapes
<1> QED
  BY <1>1, <1>2, <1>3, CloseStep

LEMMA KilledStep ==
  ASSUME SInv, NEW s \in Sessions, Killed(s)
  PROVE  SInv'
<1>1. /\ closing[s] = "killing" /\ closing' = [closing EXCEPT ![s] = "telling"]
      /\ proc' = [proc EXCEPT ![s] = "dead"] /\ reader' = [reader EXCEPT ![s] = "ended"]
      /\ files' = files \ {s}
      /\ cast' = [cast EXCEPT ![s] = [reader |-> Nothing, closer |-> Cast("closed", s)]]
      /\ UNCHANGED <<status, creating, known, raced, tables, sweeping, conn, heard>>
  BY DEF Killed, Killable, FileToClose, CastCancelled
<1>2. /\ DOMAIN cast' = Sessions /\ \A x \in Sessions \ {s} : cast'[x] = cast[x]
      /\ cast'[s] = [reader |-> Nothing, closer |-> Cast("closed", s)]
  BY <1>1 DEF SInv, Shapes
<1>3. /\ \A x \in Sessions : DOMAIN cast'[x] = Tasks
      /\ cast'[s]["reader"] = Nothing
      /\ cast'[s]["closer"] = Nothing \/ cast'[s]["closer"].msg = "closed"
  BY <1>2, CastSays DEF SInv, Shapes, Tasks
<1>4. Shapes'
  BY <1>1, <1>2, <1>3 DEF SInv, Shapes
<1>5. \A x \in Sessions \ {s} : Same(x)
  BY <1>1, <1>2 DEF SInv, Shapes, Same
<1>6. ASSUME s \notin raced' PROVE Tidy(s)'
  <2>1. /\ Tidy(s) /\ closing'[s] = "telling" /\ reader'[s] = "ended" /\ proc'[s] = "dead"
    BY <1>1, <1>6 DEF SInv, Shapes
  <2> QED
    BY <1>1, <1>3, <2>1 DEF Tidy, Open, Over
<1> QED
  BY <1>1, <1>4, <1>5, <1>6, OneSession

LEMMA ToldStep ==
  ASSUME SInv, NEW s \in Sessions, Told(s)
  PROVE  SInv'
<1>1. /\ closing[s] = "telling" /\ closing' = [closing EXCEPT ![s] = "done"]
      /\ cast' = [cast EXCEPT ![s]["closer"] = Nothing]
      /\ tables' = tables \ {s} /\ sweeping' = sweeping \ {s}
      /\ status' = [status EXCEPT ![s] = "gone"] \/ status' = status
      /\ UNCHANGED <<creating, proc, known, raced, files, reader, conn, heard>>
  BY DEF Told, EndCast, procVars
<1>2. /\ DOMAIN cast' = Sessions /\ \A x \in Sessions : DOMAIN cast'[x] = Tasks
      /\ cast'[s]["closer"] = Nothing /\ cast'[s]["reader"] = cast[s]["reader"]
      /\ \A x \in Sessions \ {s} : cast'[x] = cast[x]
  BY <1>1, CloserCast, ShapesKept
<1>3. Shapes'
  BY <1>1, <1>2 DEF SInv, Shapes, Over
<1>4. \A x \in Sessions \ {s} : Same(x)
  BY <1>1, <1>2 DEF SInv, Shapes, Same
<1>5. ASSUME s \notin raced' PROVE Tidy(s)'
  <2>1. Tidy(s) /\ closing'[s] = "done" /\ s \notin tables' /\ status'[s] \in {status[s], "gone"}
    BY <1>1, <1>5 DEF SInv, Shapes
  <2>2. status[s] \in Over
    BY <1>1, <2>1 DEF Tidy
  <2>3. status'[s] \in Over
    BY <2>1, <2>2 DEF Over
  <2> QED
    BY <1>1, <1>2, <2>1, <2>2, <2>3 DEF Tidy, Open, Over
<1> QED
  BY <1>1, <1>3, <1>4, <1>5, OneSession

LEMMA ReaderToldStep ==
  ASSUME SInv, NEW s \in Sessions, ReaderTold(s)
  PROVE  SInv'
<1>1. /\ cast' = [cast EXCEPT ![s]["reader"] = Nothing]
      /\ UNCHANGED <<status, creating, proc, known, raced, tables, files, reader, closing, sweeping, conn, heard>>
  BY DEF ReaderTold, EndCast, procVars, storeVars, closeVars
<1>2. /\ DOMAIN cast' = Sessions /\ \A x \in Sessions : DOMAIN cast'[x] = Tasks
      /\ cast'[s]["reader"] = Nothing /\ cast'[s]["closer"] = cast[s]["closer"]
      /\ \A x \in Sessions \ {s} : cast'[x] = cast[x]
  <2>1. cast' = [cast EXCEPT ![s]["reader"] = Nothing] /\ Shapes
    BY <1>1 DEF SInv
  <2>2. /\ DOMAIN cast' = Sessions /\ \A x \in Sessions : DOMAIN cast'[x] = Tasks
        /\ cast'[s]["reader"] = Nothing
        /\ \A y \in Tasks \ {"reader"} : cast'[s][y] = cast[s][y]
        /\ \A x \in Sessions \ {s} : cast'[x] = cast[x]
    BY <2>1, CastShape, TaskNames
  <2> QED
    BY <2>2, TaskNames
<1>3. Shapes'
  BY <1>1, <1>2 DEF SInv, Shapes
<1>4. \A x \in Sessions \ {s} : Same(x)
  BY <1>1, <1>2 DEF SInv, Shapes, Same
<1>5. ASSUME s \notin raced' PROVE Tidy(s)'
  BY <1>1, <1>2, <1>5 DEF SInv, Tidy
<1> QED
  BY <1>1, <1>3, <1>4, <1>5, OneSession

LEMMA DeleteClosedStep ==
  ASSUME SInv, NEW s \in Sessions, DeleteClosed(s)
  PROVE  SInv'
<1>1. /\ status[s] = "closed" /\ status' = [status EXCEPT ![s] = "gone"]
      /\ UNCHANGED <<creating, proc, known, raced, tables, files, reader, closing, sweeping, cast, conn, heard>>
  BY DEF DeleteClosed, procVars, closeVars
<1>2. Shapes'
  BY <1>1 DEF SInv, Shapes, Over
<1>3. \A x \in Sessions \ {s} : Same(x)
  BY <1>1 DEF SInv, Shapes, Same
<1>4. ASSUME s \notin raced' PROVE Tidy(s)'
  <2>1. Tidy(s) /\ status'[s] = "gone"
    BY <1>1, <1>4 DEF SInv, Shapes
  <2> QED
    BY <1>1, <2>1 DEF Tidy, Open, Over
<1> QED
  BY <1>1, <1>2, <1>3, <1>4, OneSession

LEMMA SendStep ==
  ASSUME SInv, NEW s \in Sessions, NEW t \in Tasks, Send(s, t)
  PROVE  SInv'
<1>1. /\ cast[s][t] # Nothing
      /\ \E d : cast' = [cast EXCEPT ![s][t] = [msg |-> cast[s][t].msg, i |-> cast[s][t].i + 1, dead |-> d]]
      /\ heard' = heard \/ \E c, h : heard' = [heard EXCEPT ![c] = h]
      /\ UNCHANGED <<status, creating, proc, known, raced, tables, files, reader, closing, sweeping, conn>>
  BY DEF Send, procVars, storeVars, closeVars
<1>2. PICK d : cast' = [cast EXCEPT ![s][t] = [msg |-> cast[s][t].msg, i |-> cast[s][t].i + 1, dead |-> d]]
  BY <1>1
<1>3. /\ DOMAIN cast' = Sessions /\ \A x \in Sessions : DOMAIN cast'[x] = Tasks
      /\ cast'[s][t].msg = cast[s][t].msg
      /\ \A y \in Tasks \ {t} : cast'[s][y] = cast[s][y]
      /\ \A x \in Sessions \ {s} : cast'[x] = cast[x]
  <2> DEFINE b == [msg |-> cast[s][t].msg, i |-> cast[s][t].i + 1, dead |-> d]
  <2>1. cast' = [cast EXCEPT ![s][t] = b] /\ Shapes
    BY <1>2 DEF SInv
  <2>2. b.msg = cast[s][t].msg
    OBVIOUS
  <2> HIDE DEF b
  <2>3. /\ DOMAIN cast' = Sessions /\ \A x \in Sessions : DOMAIN cast'[x] = Tasks
        /\ cast'[s][t] = b
        /\ \A y \in Tasks \ {t} : cast'[s][y] = cast[s][y]
        /\ \A x \in Sessions \ {s} : cast'[x] = cast[x]
    BY <2>1, CastShape
  <2> QED
    BY <2>2, <2>3
<1>4. Shapes'
  BY <1>1, <1>3 DEF SInv, Shapes
<1>5. \A x \in Sessions \ {s} : Same(x)
  BY <1>1, <1>3 DEF SInv, Shapes, Same
<1>6. ASSUME s \notin raced' PROVE Tidy(s)'
  <2>1. Tidy(s)
    BY <1>1, <1>6 DEF SInv
  <2>2. CASE t = "reader"
    BY <1>1, <1>3, <2>1, <2>2, TaskNames DEF Tidy
  <2>3. CASE t = "closer"
    BY <1>1, <1>3, <2>1, <2>3, TaskNames DEF Tidy
  <2> QED
    BY <2>2, <2>3 DEF Tasks
<1> QED
  BY <1>1, <1>4, <1>5, <1>6, OneSession

(* The handlers of a connection change no session, but a user may quit one. *)
LEMMA SilentStep ==
  ASSUME SInv, DOMAIN heard' = Clients,
         UNCHANGED <<status, creating, proc, known, raced, tables, files, reader, closing, sweeping, cast>>,
         conn' \in [Clients -> [at : {"out", "open", "quitting", "lost", "left"}, to : Sessions]]
  PROVE  SInv'
<1>1. Shapes'
  BY DEF SInv, Shapes
<1>2. \A x \in Sessions : Same(x)
  BY DEF Same
<1> QED
  BY <1>1, <1>2, SameStaysTidy DEF SInv

LEMMA ConnectStep ==
  ASSUME SInv, NEW c \in Clients, NEW s \in Sessions, Connect(c, s)
  PROVE  SInv'
<1>1. /\ conn' = [conn EXCEPT ![c] = [at |-> "open", to |-> s]]
      /\ heard' = [heard EXCEPT ![c] = Greeting(s)]
      /\ UNCHANGED <<status, creating, proc, known, raced, tables, files, reader, closing, sweeping, cast>>
  BY DEF Connect, procVars, storeVars, closeVars
<1>2. conn' \in [Clients -> [at : {"out", "open", "quitting", "lost", "left"}, to : Sessions]]
  BY <1>1 DEF SInv, Shapes
<1> QED
  BY <1>1, <1>2, SilentStep DEF SInv, Shapes

LEMMA LoseStep ==
  ASSUME SInv, NEW c \in Clients, Lose(c)
  PROVE  SInv'
<1>1. /\ conn' = [conn EXCEPT ![c].at = "lost"]
      /\ UNCHANGED <<status, creating, proc, known, raced, tables, files, reader, closing, sweeping, cast, heard>>
  BY DEF Lose, procVars, storeVars, closeVars
<1>2. conn' \in [Clients -> [at : {"out", "open", "quitting", "lost", "left"}, to : Sessions]]
  BY <1>1 DEF SInv, Shapes
<1> QED
  BY <1>1, <1>2, SilentStep DEF SInv, Shapes

LEMMA UnregisterStep ==
  ASSUME SInv, NEW c \in Clients, Unregister(c)
  PROVE  SInv'
<1>1. /\ conn' = [conn EXCEPT ![c] = [Away EXCEPT !.at = "left"]]
      /\ heard' = [heard EXCEPT ![c] = {}]
      /\ UNCHANGED <<status, creating, proc, known, raced, tables, files, reader, closing, sweeping, cast>>
  BY DEF Unregister, procVars, storeVars, closeVars
<1>2. [Away EXCEPT !.at = "left"] \in [at : {"out", "open", "quitting", "lost", "left"}, to : Sessions]
  BY SessionAssumption DEF Away, SessionAssumption
<1>3. conn' \in [Clients -> [at : {"out", "open", "quitting", "lost", "left"}, to : Sessions]]
  BY <1>1, <1>2 DEF SInv, Shapes
<1> QED
  BY <1>1, <1>3, SilentStep DEF SInv, Shapes

LEMMA QuitStep ==
  ASSUME SInv, NEW c \in Clients, Quit(c)
  PROVE  SInv'
<1>1. conn[c].to \in Sessions
  BY DEF SInv, Shapes
<1>2. CASE status[conn[c].to] \in Open
  <2>1. Close(conn[c].to) /\ conn' = [conn EXCEPT ![c].at = "quitting"] /\ sweeping' = sweeping
    BY <1>2 DEF Quit
  <2>2. /\ BeginClose(conn[c].to)
        /\ UNCHANGED <<creating, proc, tables, files, reader, heard>>
    BY <2>1 DEF Close, storeVars
  <2>3. conn' \in [Clients -> [at : {"out", "open", "quitting", "lost", "left"}, to : Sessions]]
    BY <2>1 DEF SInv, Shapes
  <2> QED
    BY <1>1, <1>2, <2>1, <2>2, <2>3, CloseStep
<1>3. CASE status[conn[c].to] \notin Open
  <2>1. /\ conn' = [conn EXCEPT ![c].at = "lost"]
        /\ UNCHANGED <<status, creating, proc, known, raced, tables, files, reader, closing, sweeping, cast, heard>>
    BY <1>3 DEF Quit, procVars, storeVars
  <2>2. conn' \in [Clients -> [at : {"out", "open", "quitting", "lost", "left"}, to : Sessions]]
    BY <2>1 DEF SInv, Shapes
  <2> QED
    BY <2>1, <2>2, SilentStep DEF SInv, Shapes
<1> QED
  BY <1>2, <1>3

(* A shutdown aborts the close that the cleanup loop awaits.               *)
LEMMA ShutdownStep ==
  ASSUME SInv, Shutdown
  PROVE  SInv'
<1>1. /\ closing' = [s \in Sessions |-> IF s \in sweeping THEN "aborted" ELSE closing[s]]
      /\ cast' = [s \in Sessions |-> IF s \in sweeping THEN [cast[s] EXCEPT !["closer"] = Nothing] ELSE cast[s]]
      /\ sweeping' = {}
      /\ UNCHANGED <<status, creating, proc, known, raced, tables, files, reader, conn, heard>>
  BY DEF Shutdown, procVars, storeVars
<1>2. /\ DOMAIN cast' = Sessions
      /\ \A s \in Sessions : /\ DOMAIN cast'[s] = Tasks /\ cast'[s]["reader"] = cast[s]["reader"]
                             /\ cast'[s]["closer"] \in {Nothing, cast[s]["closer"]}
  <2>1. DOMAIN cast' = Sessions
    BY <1>1
  <2>2. ASSUME NEW s \in Sessions
        PROVE  /\ DOMAIN cast'[s] = Tasks /\ cast'[s]["reader"] = cast[s]["reader"]
               /\ cast'[s]["closer"] \in {Nothing, cast[s]["closer"]}
    <3>1. CASE s \in sweeping
      <4>1. cast'[s] = [cast[s] EXCEPT !["closer"] = Nothing]
        BY <1>1, <3>1
      <4> QED
        BY <4>1, TaskNames DEF SInv, Shapes
    <3>2. CASE s \notin sweeping
      <4>1. cast'[s] = cast[s]
        BY <1>1, <3>2
      <4> QED
        BY <4>1 DEF SInv, Shapes
    <3> QED
      BY <3>1, <3>2
  <2> QED
    BY <2>1, <2>2
<1>3. Shapes'
  BY <1>1, <1>2 DEF SInv, Shapes
<1>4. ASSUME NEW s \in Sessions \ raced' PROVE Tidy(s)'
  <2>1. Tidy(s) /\ s \in Sessions
    BY <1>1, <1>4 DEF SInv
  <2>2. CASE s \in sweeping
    <3>1. closing'[s] = "aborted" /\ status[s] \in Over
      BY <1>1, <2>1, <2>2 DEF Tidy
    <3> QED
      BY <1>1, <1>2, <2>1, <3>1 DEF Tidy, Open, Over
  <2>3. CASE s \notin sweeping
    <3>1. closing'[s] = closing[s]
      BY <1>1, <2>1, <2>3
    <3> QED
      BY <1>1, <1>2, <2>1, <3>1 DEF Tidy
  <2> QED
    BY <2>2, <2>3
<1> QED
  BY <1>3, <1>4 DEF SInv

-----------------------------------------------------------------------------
LEMMA InitTidy == Init => SInv
<1> SUFFICES ASSUME Init PROVE SInv
  OBVIOUS
<1>1. Away \in [at : {"out", "open", "quitting", "lost", "left"}, to : Sessions]
  BY SessionAssumption DEF Away, SessionAssumption
<1>2. Shapes
  BY <1>1 DEF Init, Shapes, Open, Over
<1>3. ASSUME NEW s \in Sessions PROVE Tidy(s)
  <2>1. /\ status[s] = "absent" /\ reader[s] = "none" /\ closing[s] = "no"
        /\ cast[s]["reader"] = Nothing /\ cast[s]["closer"] = Nothing
    BY TaskNames DEF Init
  <2> QED
    BY <2>1 DEF Init, Tidy, Open, Over
<1> QED
  BY <1>2, <1>3 DEF SInv

LEMMA NextTidy == SInv /\ [Next]_vars => SInv'
<1> SUFFICES ASSUME SInv, [Next]_vars PROVE SInv'
  OBVIOUS
<1>1. ASSUME NEW s \in Sessions, SessionNext(s) PROVE SInv'
  <2>1. CASE CreateSession(s) \/ Spawned(s) \/ StartupFails(s) \/ LusExits(s)
    BY <2>1, CreateStep, SpawnedStep, StartupFailsStep, LusExitsStep
  <2>2. CASE BecomesReady(s) \/ ReadEvent(s) \/ ReaderEof(s) \/ ReaderTold(s)
    BY <2>2, BecomesReadyStep, ReadEventStep, ReaderEofStep, ReaderToldStep
  <2>3. CASE IdleClose(s) \/ ShutdownClose(s) \/ DeleteOpen(s)
    BY <2>3, ClosedByServer
  <2>4. CASE Killed(s) \/ Told(s) \/ DeleteClosed(s)
    BY <2>4, KilledStep, ToldStep, DeleteClosedStep
  <2>5. CASE \E t \in Tasks : Send(s, t)
    BY <2>5, SendStep
  <2> QED
    BY <1>1, <2>1, <2>2, <2>3, <2>4, <2>5 DEF SessionNext
<1>2. ASSUME NEW c \in Clients, Quit(c) \/ Lose(c) \/ Unregister(c) \/ \E s \in Sessions : Connect(c, s)
      PROVE  SInv'
  BY <1>2, QuitStep, LoseStep, UnregisterStep, ConnectStep
<1>3. CASE Stopped \/ UNCHANGED vars
  <2>1. UNCHANGED <<status, creating, proc, known, raced, tables, files, reader, closing, sweeping, cast, conn, heard>>
    BY <1>3 DEF Stopped, vars, procVars, storeVars, closeVars, clientVars
  <2>2. Shapes'
    BY <2>1 DEF SInv, Shapes
  <2> QED
    BY <2>1, <2>2, SilentStep DEF Shapes
<1> QED
  BY <1>1, <1>2, <1>3, ShutdownStep DEF Next

(* The registry keeps every session tidy: the invariant the two theorems   *)
(* below rest on.                                                          *)
THEOREM RegistryInvariant == Spec => []SInv
BY InitTidy, NextTidy, PTL DEF Spec

(* A close, once through, leaves no lus, reader, open file, process entry, *)
(* response queue or lock behind: ClosedLeavesNothing.                     *)
THEOREM CloseLeavesNothing == Spec => []ClosedLeavesNothing
<1>1. SInv => ClosedLeavesNothing
  <2> SUFFICES ASSUME SInv, NEW s \in Sessions \ raced, status[s] \in {"closed", "gone"}
               PROVE  /\ proc[s] = "alive" => closing[s] \in {"killing", "aborted"}
                      /\ s \notin known
                      /\ closing[s] = "done" => s \notin files \cup tables /\ reader[s] = "ended"
    BY DEF ClosedLeavesNothing
  <2>1. Tidy(s)
    BY DEF SInv
  <2> QED
    BY <2>1 DEF Tidy, Open, Over
<1> QED
  BY <1>1, RegistryInvariant, PTL

(* Once the connections of a session are being told that it is closed,     *)
(* they hear nothing else: ClosedIsLastWord.                               *)
THEOREM ClosedSpokenLast == Spec => ClosedIsLastWord
<1> DEFINE Hush == \A c \in Clients : conn[c].at \in {"open", "quitting"} /\ conn[c].to \notin raced
       /\ closing[conn[c].to] \in {"telling", "done"}
       => heard'[c] \subseteq heard[c] \cup {"closed"}
<1>1. SInv /\ [Next]_vars => [Hush]_vars
  <2> SUFFICES ASSUME SInv, Next, NEW c \in Clients,
                      conn[c].at \in {"open", "quitting"}, conn[c].to \notin raced,
                      closing[conn[c].to] \in {"telling", "done"}
               PROVE  heard'[c] \subseteq heard[c] \cup {"closed"}
    OBVIOUS
  <2> DEFINE s == conn[c].to
  <2>1. s \in Sessions /\ Tidy(s) /\ cast[s]["reader"] = Nothing
    BY DEF SInv, Shapes, Tidy, Open, Over
  <2>2. ASSUME NEW x \in Sessions, NEW t \in Tasks, Send(x, t)
        PROVE  heard'[c] \subseteq heard[c] \cup {"closed"}
    <3> DEFINE b == cast[x][t]  h == ws[x][b.i]
    <3>1. b # Nothing /\ heard' = IF CanHear(h, x) THEN [heard EXCEPT ![h] = @ \cup {b.msg}] ELSE heard
      BY <2>2 DEF Send
    <3>2. CASE CanHear(h, x) /\ h = c
      <4>1. x = s
        BY <3>2 DEF CanHear
      <4>2. t = "closer"
        BY <4>1, <3>1, <2>1 DEF Tasks
      <4>3. b.msg = "closed"
        BY <4>1, <4>2, <3>1, <2>1 DEF Tidy
      <4>4. heard'[c] = heard[c] \cup {b.msg}
        BY <3>1, <3>2 DEF SInv, Shapes
      <4> QED
        BY <4>3, <4>4
    <3>3. CASE ~(CanHear(h, x) /\ h = c)
      <4>1. heard'[c] = heard[c]
        BY <3>1, <3>3 DEF SInv, Shapes
      <4> QED
        BY <4>1
    <3> QED
      BY <3>2, <3>3
  <2>3. ASSUME NEW x \in Clients, Unregister(x) PROVE heard'[c] \subseteq heard[c] \cup {"closed"}
    <3>1. heard' = [heard EXCEPT ![x] = {}]
      BY <2>3 DEF Unregister
    <3> QED
      BY <3>1 DEF SInv, Shapes
  <2>4. ASSUME NEW x \in Clients, NEW y \in Sessions, Connect(x, y)
        PROVE  heard'[c] \subseteq heard[c] \cup {"closed"}
    <3>1. heard' = [heard EXCEPT ![x] = Greeting(y)] /\ conn[x].at = "out"
      BY <2>4 DEF Connect
    <3>2. x # c
      BY <3>1
    <3> QED
      BY <3>1, <3>2 DEF SInv, Shapes
  <2>5. ASSUME heard' = heard PROVE heard'[c] \subseteq heard[c] \cup {"closed"}
    BY <2>5
  <2>6. ASSUME NEW x \in Sessions, SessionNext(x), ~\E t \in Tasks : Send(x, t) PROVE heard' = heard
    <3>1. CASE CreateSession(x) \/ Spawned(x) \/ StartupFails(x) \/ LusExits(x)
      BY <3>1 DEF CreateSession, Spawned, StartupFails, LusExits, clientVars
    <3>2. CASE BecomesReady(x) \/ ReadEvent(x) \/ ReaderEof(x) \/ ReaderTold(x)
      BY <3>2 DEF BecomesReady, ReadEvent, ReaderEof, ReaderTold
    <3>3. CASE IdleClose(x) \/ ShutdownClose(x) \/ DeleteOpen(x)
      BY <3>3 DEF IdleClose, ShutdownClose, DeleteOpen, Close
    <3>4. CASE Killed(x) \/ Told(x) \/ DeleteClosed(x)
      BY <3>4 DEF Killed, Told, DeleteClosed
    <3> QED
      BY <2>6, <3>1, <3>2, <3>3, <3>4 DEF SessionNext
  <2>7. ASSUME NEW x \in Clients, Quit(x) \/ Lose(x) PROVE heard' = heard
    BY <2>7 DEF Quit, Lose, Close
  <2>8. ASSUME Shutdown \/ Stopped PROVE heard' = heard
    BY <2>8 DEF Shutdown, Stopped, vars, clientVars
  <2> QED
    BY <2>2, <2>3, <2>4, <2>5, <2>6, <2>7, <2>8 DEF Next
<1> QED
  BY <1>1, RegistryInvariant, PTL DEF Spec, ClosedIsLastWord
-----------------------------------------------------------------------------
(* Induction over the places of a list.                                    *)
LEMMA Least == ASSUME NEW T \in SUBSET Nat, T # {} PROVE \E x \in T : \A y \in T : x <= y
<1> DEFINE R == {ss \in Nat \X Nat : ss[1] < ss[2]}
<1>1. IsWellFoundedOn(R, Nat)
  BY NatLessThanWellFounded DEF OpToRel
<1>0. \A x, y \in Nat : y < x => <<y, x>> \in R
  OBVIOUS
<1> HIDE DEF R
<1>2. PICK x \in T : \A y \in T : ~(<<y, x>> \in R)
  BY <1>1, WFMin
<1>3. ASSUME NEW y \in T PROVE x <= y
  <2>1. x \in Nat /\ y \in Nat
    OBVIOUS
  <2>2. ~(y < x)
    BY <1>0, <1>2, <2>1
  <2> QED
    BY <2>1, <2>2
<1> QED
  BY <1>3

(* What holds of 0 and passes from each number to the next holds of all.   *)
LEMMA Climb ==
  ASSUME NEW T \in SUBSET Nat, NEW n \in Nat, 0 \in T, \A i \in 0 .. n - 1 : i \in T => i + 1 \in T
  PROVE  0 .. n \subseteq T
<1> SUFFICES ASSUME ~(0 .. n \subseteq T) PROVE FALSE
  OBVIOUS
<1> DEFINE B == {i \in 0 .. n : i \notin T}
<1>1. B # {} /\ B \in SUBSET Nat
  OBVIOUS
<1> HIDE DEF B
<1>2. PICK x \in B : \A y \in B : x <= y
  BY <1>1, Least
<1>3. x \in 0 .. n /\ x \notin T /\ x # 0 /\ x - 1 \notin B
  BY <1>2 DEF B
<1>4. x - 1 \in T
  BY <1>3 DEF B
<1> QED
  BY <1>3, <1>4

(* What is kept of the first i places, given what is kept of fewer.        *)
KeptStep(g, q, C, i) == IF i = 0 THEN <<>> ELSE IF q[i] \in C THEN g[i - 1] ELSE Append(g[i - 1], q[i])

LEMMA KeptExists ==
  ASSUME NEW q, NEW C, NEW n \in Nat
  PROVE  \E g : g = [i \in 0 .. n |-> KeptStep(g, q, C, i)]
<1> DEFINE T == {m \in Nat : \E g : g = [i \in 0 .. m |-> KeptStep(g, q, C, i)]}
<1>1. 0 \in T
  <2>1. [i \in 0 .. 0 |-> <<>>] = [i \in 0 .. 0 |-> KeptStep([j \in 0 .. 0 |-> <<>>], q, C, i)]
    BY DEF KeptStep
  <2> QED
    BY <2>1
<1>2. ASSUME NEW m \in 0 .. n - 1, m \in T PROVE m + 1 \in T
  <2>1. PICK g : g = [i \in 0 .. m |-> KeptStep(g, q, C, i)]
    BY <1>2
  <2> DEFINE h == [i \in 0 .. m + 1 |-> IF i <= m THEN g[i] ELSE KeptStep(g, q, C, m + 1)]
  <2>2. \A i \in 0 .. m + 1 : KeptStep(h, q, C, i) = KeptStep(g, q, C, i)
    BY DEF KeptStep
  <2>3. \A i \in 0 .. m : g[i] = KeptStep(g, q, C, i)
    BY <2>1
  <2>5. \A i \in 0 .. m + 1 : h[i] = KeptStep(h, q, C, i)
    BY <2>2, <2>3
  <2>6. h = [i \in 0 .. m + 1 |-> h[i]]
    OBVIOUS
  <2>7. h = [i \in 0 .. m + 1 |-> KeptStep(h, q, C, i)]
    <3> HIDE DEF h
    <3> QED BY <2>5, <2>6
  <2> HIDE DEF h
  <2>8. \E f : f = [i \in 0 .. m + 1 |-> KeptStep(f, q, C, i)]
    BY <2>7
  <2> QED
    BY <2>8
<1>3. T \in SUBSET Nat
  OBVIOUS
<1> HIDE DEF T
<1>4. 0 .. n \subseteq T
  BY <1>1, <1>2, <1>3, Climb
<1>5. n \in T
  BY <1>4
<1> QED
  BY <1>5 DEF T

(* The sequence that Without builds, place by place.                     *)
Kept(q, C) ==
  LET kept[i \in 0 .. Len(q)] ==
        IF i = 0 THEN <<>> ELSE IF q[i] \in C THEN kept[i - 1] ELSE Append(kept[i - 1], q[i])
  IN  kept

LEMMA KeptIs ==
  ASSUME NEW q, NEW C, Len(q) \in Nat
  PROVE  Kept(q, C) = [i \in 0 .. Len(q) |-> KeptStep(Kept(q, C), q, C, i)]
<1>1. \E g : g = [i \in 0 .. Len(q) |-> KeptStep(g, q, C, i)]
  BY KeptExists
<1>2. Kept(q, C) = CHOOSE g : g = [i \in 0 .. Len(q) |-> KeptStep(g, q, C, i)]
  BY DEF Kept, KeptStep
<1> QED
  BY <1>1, <1>2

LEMMA WithoutIsKept ==
  \A q, C : Without(q, C) = Kept(q, C)[Len(q)]
BY DEF Without, Kept

LEMMA KeptSteps ==
  ASSUME NEW q, NEW C, Len(q) \in Nat
  PROVE  /\ Kept(q, C)[0] = <<>>
         /\ \A i \in 1 .. Len(q) :
              Kept(q, C)[i] = IF q[i] \in C THEN Kept(q, C)[i - 1] ELSE Append(Kept(q, C)[i - 1], q[i])
<1> DEFINE g == Kept(q, C)
<1>1. g = [i \in 0 .. Len(q) |-> KeptStep(g, q, C, i)]
  BY KeptIs
<1> HIDE DEF g
<1>2. \A i \in 0 .. Len(q) : g[i] = KeptStep(g, q, C, i)
  BY <1>1
<1>3. /\ g[0] = <<>>
      /\ \A i \in 1 .. Len(q) : g[i] = IF q[i] \in C THEN g[i - 1] ELSE Append(g[i - 1], q[i])
  BY <1>2 DEF KeptStep
<1> QED
  BY <1>3 DEF g

(* Without takes off the members of C and nobody else; when none of them   *)
(* stands at the first m places, who is behind these places stays behind.  *)
LEMMA WithoutKeeps ==
  ASSUME NEW S, NEW q \in Seq(S), NEW C, NEW m \in 0 .. Len(q), \A j \in 1 .. m : q[j] \notin C
  PROVE  /\ Without(q, C) \in Seq(S)
         /\ \A k \in 1 .. Len(Without(q, C)) :
               Without(q, C)[k] \notin C /\ \E j \in 1 .. Len(q) : q[j] = Without(q, C)[k]
         /\ \A j \in m + 1 .. Len(q) :
               q[j] \notin C => \E k \in m + 1 .. Len(Without(q, C)) : Without(q, C)[k] = q[j]
<1> DEFINE g == Kept(q, C)
           P(i) == /\ g[i] \in Seq(S)
                   /\ IF i <= m THEN Len(g[i]) = i ELSE Len(g[i]) >= m
                   /\ \A k \in 1 .. Len(g[i]) : g[i][k] \notin C /\ \E j \in 1 .. i : q[j] = g[i][k]
                   /\ \A j \in m + 1 .. i : q[j] \notin C => \E k \in m + 1 .. Len(g[i]) : g[i][k] = q[j]
           T == {i \in 0 .. Len(q) : P(i)}
<1>0. Len(q) \in Nat /\ \A i \in 1 .. Len(q) : q[i] \in S
  OBVIOUS
<1>1. /\ g[0] = <<>>
      /\ \A i \in 1 .. Len(q) : g[i] = IF q[i] \in C THEN g[i - 1] ELSE Append(g[i - 1], q[i])
  BY <1>0, KeptSteps
<1> HIDE DEF g
<1>2. P(0)
  BY <1>1
<1>3. ASSUME NEW i \in 0 .. Len(q) - 1, P(i) PROVE P(i + 1)
  <2> DEFINE old == g[i]  new == g[i + 1]
  <2>0. /\ i \in Nat /\ i + 1 \in 1 .. Len(q) /\ q[i + 1] \in S /\ (i + 1) - 1 = i /\ m \in Nat
        /\ old \in Seq(S) /\ Len(old) \in Nat
    BY <1>0, <1>3
  <2>1. CASE q[i + 1] \in C
    <3>1. new = old /\ ~(i + 1 <= m)
      BY <1>1, <2>0, <2>1
    <3> QED
      BY <1>3, <2>0, <2>1, <3>1
  <2>2. CASE q[i + 1] \notin C
    <3>1. new = Append(old, q[i + 1])
      BY <1>1, <2>0, <2>2
    <3>2. /\ new \in Seq(S) /\ Len(new) = Len(old) + 1
          /\ \A k \in 1 .. Len(old) : new[k] = old[k]
          /\ new[Len(new)] = q[i + 1]
      BY <2>0, <3>1
    <3> HIDE DEF old, new
    <3>3. IF i + 1 <= m THEN Len(new) = i + 1 ELSE Len(new) >= m
      BY <1>3, <2>0, <3>2 DEF old
    <3>4. ASSUME NEW k \in 1 .. Len(new)
          PROVE  new[k] \notin C /\ \E j \in 1 .. i + 1 : q[j] = new[k]
      <4>1. CASE k = Len(new)
        <5>1. new[k] = q[i + 1] /\ i + 1 \in 1 .. i + 1
          BY <2>0, <3>2, <4>1
        <5> QED
          BY <2>2, <5>1
      <4>2. CASE k # Len(new)
        <5>1. k \in 1 .. Len(old) /\ new[k] = old[k]
          BY <2>0, <3>2, <4>2
        <5>2. old[k] \notin C /\ \E j \in 1 .. i : q[j] = old[k]
          BY <1>3, <5>1 DEF old
        <5> QED
          BY <2>0, <5>1, <5>2
      <4> QED
        BY <4>1, <4>2
    <3>5. ASSUME NEW j \in m + 1 .. i + 1, q[j] \notin C PROVE \E k \in m + 1 .. Len(new) : new[k] = q[j]
      <4>1. CASE j = i + 1
        <5>1. Len(new) \in m + 1 .. Len(new)
          BY <1>3, <2>0, <3>2, <4>1 DEF old
        <5> QED
          BY <4>1, <3>2, <5>1
      <4>2. CASE j # i + 1
        <5>1. j \in m + 1 .. i
          BY <4>2, <2>0
        <5>2. PICK k \in m + 1 .. Len(old) : old[k] = q[j]
          BY <1>3, <3>5, <5>1 DEF old
        <5> QED
          BY <2>0, <3>2, <5>2
      <4> QED
        BY <4>1, <4>2
    <3> QED
      BY <3>2, <3>3, <3>4, <3>5 DEF new
  <2> QED
    BY <2>1, <2>2
<1>4. 0 .. Len(q) \subseteq T
  <2> HIDE DEF P
  <2>1. T \in SUBSET Nat /\ 0 \in T /\ \A i \in 0 .. Len(q) - 1 : i \in T => i + 1 \in T
    BY <1>0, <1>2, <1>3
  <2> HIDE DEF T
  <2> QED
    BY <1>0, <2>1, Climb
<1>5. P(Len(q))
  BY <1>0, <1>4
<1> QED
  BY <1>0, <1>5, WithoutIsKept DEF g
-----------------------------------------------------------------------------
(* The rest of the types; what Shapes says is not repeated.                *)
Broadcasts == [msg : {"none", "ready", "event", "closed"}, i : Nat, dead : SUBSET Clients]

Subsets ==
  /\ creating \subseteq Sessions /\ known \subseteq Sessions /\ tables \subseteq Sessions
  /\ files \subseteq Sessions /\ dirs \subseteq Sessions /\ removing \subseteq Sessions
  /\ sweeping \subseteq Sessions /\ listed \subseteq Sessions
  /\ raced \subseteq Sessions /\ missed \subseteq Sessions

Lists ==
  /\ DOMAIN ws = Sessions /\ \A s \in Sessions : ws[s] \in Seq(Clients)
  /\ \A s \in Sessions : s \in listed => status[s] # "gone"

Rest ==
  /\ Subsets /\ Lists
  /\ cast \in [Sessions -> [Tasks -> Broadcasts]]
  /\ heard \in [Clients -> SUBSET {"starting", "ready", "event", "closed"}]
  /\ down \in BOOLEAN

LEMMA CastTyped ==
  ASSUME cast \in [Sessions -> [Tasks -> Broadcasts]], NEW s \in Sessions, NEW t \in Tasks,
         NEW b \in Broadcasts, cast' = [cast EXCEPT ![s][t] = b]
  PROVE  cast' \in [Sessions -> [Tasks -> Broadcasts]]
<1>1. [cast[s] EXCEPT ![t] = b] \in [Tasks -> Broadcasts]
  OBVIOUS
<1>2. cast' = [cast EXCEPT ![s] = [cast[s] EXCEPT ![t] = b]]
  OBVIOUS
<1> QED
  BY <1>1, <1>2

LEMMA Castable ==
  /\ Nothing \in Broadcasts
  /\ \A m \in {"ready", "event", "closed"} : \A s : Cast(m, s) \in Broadcasts
BY DEF Nothing, Cast, Broadcasts

LEMMA WithoutTyped ==
  ASSUME Lists, NEW s \in Sessions, NEW C, ws' = [ws EXCEPT ![s] = Without(@, C)]
  PROVE  DOMAIN ws' = Sessions /\ \A x \in Sessions : ws'[x] \in Seq(Clients)
<1>1. ws[s] \in Seq(Clients) /\ 0 \in 0 .. Len(ws[s]) /\ \A j \in 1 .. 0 : ws[s][j] \notin C
  BY DEF Lists
<1>2. Without(ws[s], C) \in Seq(Clients)
  BY <1>1, WithoutKeeps
<1> QED
  BY <1>2 DEF Lists

LEMMA CloseTyped ==
  ASSUME SInv, Rest, NEW s \in Sessions, BeginClose(s), UNCHANGED ws, listed' = listed
  PROVE  /\ known' \subseteq Sessions /\ raced' \subseteq Sessions /\ Lists'
         /\ cast' \in [Sessions -> [Tasks -> Broadcasts]]
<1>1. /\ status' = [status EXCEPT ![s] = "closed"] /\ known' = known \ {s}
      /\ raced' = IF s \in creating THEN raced \cup {s} ELSE raced
      /\ cast' = cast \/ cast' = [cast EXCEPT ![s]["closer"] = Cast("closed", s)]
  BY DEF BeginClose
<1>2. cast' \in [Sessions -> [Tasks -> Broadcasts]]
  BY <1>1, CastTyped, Castable, TaskNames DEF Rest
<1>3. known' \subseteq Sessions /\ raced' \subseteq Sessions
  BY <1>1 DEF Rest, Subsets
<1>4. Lists'
  BY <1>1 DEF SInv, Shapes, Rest, Lists
<1> QED
  BY <1>2, <1>3, <1>4

LEMMA StartTyped ==
  ASSUME SInv, Rest, NEW s \in Sessions,
         CreateSession(s) \/ Spawned(s) \/ StartupFails(s) \/ LusExits(s)
  PROVE  Rest'
<1>1. CASE CreateSession(s)
  BY <1>1 DEF CreateSession, closeVars, SInv, Shapes, Rest, Subsets, Lists
<1>2. CASE Spawned(s)
  BY <1>2 DEF Spawned, closeVars, clientVars, Rest, Subsets, Lists
<1>3. CASE StartupFails(s)
  BY <1>3 DEF StartupFails, storeVars, closeVars, SInv, Shapes, Rest, Subsets, Lists
<1>4. CASE LusExits(s)
  BY <1>4 DEF LusExits, storeVars, closeVars, clientVars, Rest, Subsets, Lists
<1> QED
  BY <1>1, <1>2, <1>3, <1>4

LEMMA ReaderTyped ==
  ASSUME SInv, Rest, NEW s \in Sessions,
         BecomesReady(s) \/ ReadEvent(s) \/ ReaderEof(s) \/ ReaderTold(s)
  PROVE  Rest'
<1>1. CASE BecomesReady(s)
  <2>1. cast' \in [Sessions -> [Tasks -> Broadcasts]]
    BY <1>1, CastTyped, Castable, TaskNames DEF BecomesReady, Rest
  <2>2. Subsets' /\ Lists'
    BY <1>1 DEF BecomesReady, procVars, storeVars, closeVars, SInv, Shapes, Rest, Subsets, Lists
  <2> QED
    BY <1>1, <2>1, <2>2 DEF BecomesReady, Rest
<1>2. CASE ReadEvent(s)
  <2>1. cast' \in [Sessions -> [Tasks -> Broadcasts]]
    BY <1>2, CastTyped, Castable, TaskNames DEF ReadEvent, Rest
  <2>2. Subsets' /\ Lists'
    BY <1>2 DEF ReadEvent, procVars, storeVars, closeVars, Rest, Subsets, Lists
  <2> QED
    BY <1>2, <2>1, <2>2 DEF ReadEvent, Rest
<1>3. CASE ReaderEof(s)
  <2>1. CASE status[s] \in Open
    <3>1. BeginClose(s)
      BY <1>3, <2>1 DEF ReaderEof
    <3>2. /\ known' \subseteq Sessions /\ raced' \subseteq Sessions /\ Lists'
          /\ cast' \in [Sessions -> [Tasks -> Broadcasts]]
      BY <1>3, <3>1, CloseTyped DEF ReaderEof
    <3> QED
      BY <1>3, <3>2 DEF ReaderEof, storeVars, Rest, Subsets
  <2>2. CASE status[s] \notin Open
    BY <1>3, <2>2 DEF ReaderEof, storeVars, Rest, Subsets, Lists
  <2> QED
    BY <2>1, <2>2
<1>4. CASE ReaderTold(s)
  <2>1. /\ cast' = [cast EXCEPT ![s]["reader"] = Nothing]
        /\ ws' = [ws EXCEPT ![s] = Without(@, cast[s]["reader"].dead)]
        /\ UNCHANGED <<status, procVars, tables, storeVars, closeVars, listed, heard, missed, down>>
    BY <1>4 DEF ReaderTold, EndCast
  <2>2. cast' \in [Sessions -> [Tasks -> Broadcasts]]
    BY <2>1, CastTyped, Castable, TaskNames DEF Rest
  <2>3. DOMAIN ws' = Sessions /\ \A x \in Sessions : ws'[x] \in Seq(Clients)
    BY <2>1, WithoutTyped DEF Rest
  <2>4. Subsets' /\ Lists'
    BY <2>1, <2>3 DEF procVars, storeVars, closeVars, Rest, Subsets, Lists
  <2> QED
    BY <2>1, <2>2, <2>4 DEF Rest
<1> QED
  BY <1>1, <1>2, <1>3, <1>4

LEMMA ClosersTyped ==
  ASSUME SInv, Rest, NEW s \in Sessions, IdleClose(s) \/ ShutdownClose(s) \/ DeleteOpen(s)
  PROVE  Rest'
<1>1. /\ BeginClose(s)
      /\ UNCHANGED <<creating, proc, tables, storeVars, reader, listed, ws, heard, missed, down>>
      /\ sweeping' \in {sweeping, {s}} /\ removing' \in {removing, removing \cup {s}}
  BY DEF IdleClose, ShutdownClose, DeleteOpen, Close
<1>2. /\ known' \subseteq Sessions /\ raced' \subseteq Sessions /\ Lists'
      /\ cast' \in [Sessions -> [Tasks -> Broadcasts]]
  BY <1>1, CloseTyped
<1> QED
  BY <1>1, <1>2 DEF storeVars, Rest, Subsets

LEMMA EndTyped ==
  ASSUME SInv, Rest, NEW s \in Sessions, Killed(s) \/ Told(s) \/ DeleteClosed(s)
  PROVE  Rest'
<1>1. CASE Killed(s)
  <2>1. /\ cast' = [cast EXCEPT ![s] = [reader |-> Nothing, closer |-> Cast("closed", s)]]
        /\ files' = files \ {s}
        /\ UNCHANGED <<status, creating, known, raced, tables, dirs, removing, sweeping, listed, ws, heard, missed, down>>
    BY <1>1 DEF Killed, CastCancelled, FileToClose
  <2>2. [reader |-> Nothing, closer |-> Cast("closed", s)] \in [Tasks -> Broadcasts]
    BY Castable DEF Tasks
  <2>3. cast' \in [Sessions -> [Tasks -> Broadcasts]]
    BY <2>1, <2>2 DEF Rest
  <2> QED
    BY <2>1, <2>3 DEF Rest, Subsets, Lists
<1>2. CASE Told(s)
  <2>1. /\ cast' = [cast EXCEPT ![s]["closer"] = Nothing]
        /\ ws' = [ws EXCEPT ![s] = Without(@, cast[s]["closer"].dead)]
        /\ tables' = tables \ {s} /\ sweeping' = sweeping \ {s}
        /\ \/ status' = [status EXCEPT ![s] = "gone"] /\ dirs' = dirs \ {s} /\ listed' = listed \ {s}
           \/ UNCHANGED <<status, dirs, listed>>
        /\ UNCHANGED <<procVars, files, removing, heard, missed, down>>
    BY <1>2 DEF Told, EndCast, Delisted
  <2>2. cast' \in [Sessions -> [Tasks -> Broadcasts]]
    BY <2>1, CastTyped, Castable, TaskNames DEF Rest
  <2>3. DOMAIN ws' = Sessions /\ \A x \in Sessions : ws'[x] \in Seq(Clients)
    BY <2>1, WithoutTyped DEF Rest
  <2>4. Subsets'
    BY <2>1 DEF procVars, Rest, Subsets
  <2>5. Lists'
    BY <2>1, <2>3 DEF SInv, Shapes, Rest, Lists
  <2> QED
    BY <2>1, <2>2, <2>4, <2>5 DEF Rest
<1>3. CASE DeleteClosed(s)
  BY <1>3 DEF DeleteClosed, Delisted, procVars, closeVars, SInv, Shapes, Rest, Subsets, Lists
<1> QED
  BY <1>1, <1>2, <1>3

LEMMA SendTyped ==
  ASSUME SInv, Rest, NEW s \in Sessions, NEW t \in Tasks, Send(s, t),
         cast[s][t] = Nothing \/ (cast[s][t].i >= 1 /\ cast[s][t].msg # "none")
  PROVE  Rest'
<1> DEFINE b == cast[s][t]  c == ws[s][b.i]
           d == IF CanHear(c, s) THEN b.dead ELSE b.dead \cup {c}
<1>1. /\ b # Nothing /\ b.i <= Len(ws[s])
      /\ heard' = IF CanHear(c, s) THEN [heard EXCEPT ![c] = @ \cup {b.msg}] ELSE heard
      /\ cast' = [cast EXCEPT ![s][t] = [msg |-> b.msg, i |-> b.i + 1, dead |-> d]]
      /\ UNCHANGED <<status, procVars, tables, storeVars, closeVars, listed, ws, missed, down>>
  BY DEF Send
<1>2. b \in Broadcasts /\ b.i >= 1 /\ b.msg # "none"
  BY <1>1 DEF Rest
<1>3. b.msg \in {"ready", "event", "closed"} /\ b.i \in Nat /\ b.dead \subseteq Clients
  BY <1>2 DEF Broadcasts
<1>4. c \in Clients
  BY <1>1, <1>2, <1>3 DEF Rest, Lists
<1> HIDE DEF b, c, d
<1>5. [msg |-> b.msg, i |-> b.i + 1, dead |-> d] \in Broadcasts
  BY <1>3, <1>4 DEF d, Broadcasts
<1>6. cast' \in [Sessions -> [Tasks -> Broadcasts]]
  BY <1>1, <1>5, CastTyped DEF Rest
<1>7. heard' \in [Clients -> SUBSET {"starting", "ready", "event", "closed"}]
  BY <1>1, <1>3, <1>4 DEF Rest
<1>8. Subsets' /\ Lists' /\ down' \in BOOLEAN
  BY <1>1 DEF procVars, storeVars, closeVars, Rest, Subsets, Lists
<1> QED
  BY <1>6, <1>7, <1>8 DEF Rest

LEMMA ClientTyped ==
  ASSUME SInv, Rest, NEW c \in Clients,
         Quit(c) \/ Lose(c) \/ Unregister(c) \/ \E s \in Sessions : Connect(c, s)
  PROVE  Rest'
<1>0. conn[c].to \in Sessions
  BY DEF SInv, Shapes
<1>1. CASE Quit(c)
  <2>1. CASE status[conn[c].to] \in Open
    <3>1. /\ BeginClose(conn[c].to)
          /\ UNCHANGED <<creating, proc, tables, storeVars, removing, sweeping, listed, ws, heard, missed, down>>
      BY <1>1, <2>1 DEF Quit, Close
    <3>2. /\ known' \subseteq Sessions /\ raced' \subseteq Sessions /\ Lists'
          /\ cast' \in [Sessions -> [Tasks -> Broadcasts]]
      BY <1>0, <3>1, CloseTyped
    <3> QED
      BY <3>1, <3>2 DEF storeVars, Rest, Subsets
  <2>2. CASE status[conn[c].to] \notin Open
    BY <1>1, <2>2 DEF Quit, procVars, storeVars, Rest, Subsets, Lists
  <2> QED
    BY <2>1, <2>2
<1>2. CASE Lose(c)
  BY <1>2 DEF Lose, procVars, storeVars, closeVars, Rest, Subsets, Lists
<1>3. CASE Unregister(c)
  <2> DEFINE s == conn[c].to
  <2>1. /\ ws' = ws \/ ws' = [ws EXCEPT ![s] = Without(@, {c})]
        /\ missed' \in {missed, missed \cup {s}} /\ heard' = [heard EXCEPT ![c] = {}]
        /\ UNCHANGED <<status, procVars, tables, storeVars, closeVars, listed, cast, down>>
    BY <1>3 DEF Unregister
  <2>2. DOMAIN ws' = Sessions /\ \A x \in Sessions : ws'[x] \in Seq(Clients)
    BY <1>0, <2>1, WithoutTyped DEF Rest, Lists
  <2>3. Subsets' /\ Lists'
    BY <1>0, <2>1, <2>2 DEF procVars, storeVars, closeVars, Rest, Subsets, Lists
  <2> QED
    BY <2>1, <2>3 DEF Rest
<1>4. ASSUME NEW s \in Sessions, Connect(c, s) PROVE Rest'
  <2>1. /\ ws' = ws \/ ws' = [ws EXCEPT ![s] = Append(@, c)]
        /\ heard' = [heard EXCEPT ![c] = {status[s]}] /\ status[s] \in {"starting", "ready", "closed"}
        /\ UNCHANGED <<status, procVars, tables, storeVars, closeVars, listed, cast, missed, down>>
    BY <1>4 DEF Connect, Greeting, Open
  <2>4. DOMAIN ws = Sessions /\ \A x \in Sessions : ws[x] \in Seq(Clients)
    BY DEF Rest, Lists
  <2>5. Append(ws[s], c) \in Seq(Clients)
    BY <2>4
  <2>2. DOMAIN ws' = Sessions /\ \A x \in Sessions : ws'[x] \in Seq(Clients)
    BY <2>1, <2>4, <2>5
  <2>3. Subsets' /\ Lists'
    BY <2>1, <2>2 DEF procVars, storeVars, closeVars, Rest, Subsets, Lists
  <2> QED
    BY <2>1, <2>3 DEF Rest
<1> QED
  BY <1>1, <1>2, <1>3, <1>4

LEMMA ShutdownTyped ==
  ASSUME SInv, Rest, Shutdown
  PROVE  Rest'
<1>1. /\ cast' = [s \in Sessions |-> IF s \in sweeping THEN [cast[s] EXCEPT !["closer"] = Nothing] ELSE cast[s]]
      /\ sweeping' = {} /\ down' = TRUE
      /\ UNCHANGED <<status, procVars, tables, storeVars, removing, listed, ws, heard, missed>>
  BY DEF Shutdown
<1>2. ASSUME NEW s \in Sessions PROVE [cast[s] EXCEPT !["closer"] = Nothing] \in [Tasks -> Broadcasts]
  BY Castable, TaskNames DEF Rest
<1>3. cast' \in [Sessions -> [Tasks -> Broadcasts]]
  BY <1>1, <1>2 DEF Rest
<1>4. Subsets' /\ Lists'
  BY <1>1 DEF procVars, storeVars, Rest, Subsets, Lists
<1> QED
  BY <1>1, <1>3, <1>4 DEF Rest
-----------------------------------------------------------------------------
(* Who is told.  A listener of a session that is not over stands in its    *)
(* list, and the broadcast of the close has yet to come to each listener   *)
(* that has not heard of it: unless a deletion or a connection that left   *)
(* overtook the broadcast (missed).                                        *)
Listens(c, s)      == conn[c].at = "open" /\ conn[c].to = s
InList(c, s, from) == \E k \in from .. Len(ws[s]) : ws[s][k] = c

Honest(s) ==
  /\ \A k \in 1 .. Len(ws[s]) :
       /\ conn[ws[s][k]].at # "out"
       /\ conn[ws[s][k]].at \in {"open", "quitting"} => conn[ws[s][k]].to = s
  /\ \A t \in Tasks :
       /\ cast[s][t] = Nothing \/ (cast[s][t].i >= 1 /\ cast[s][t].msg # "none")
       /\ \A c \in cast[s][t].dead : conn[c].at \in {"lost", "left"}

Reached(s) ==
  /\ status[s] \in Open \/ closing[s] = "killing" => s \in listed
  /\ \A c \in Clients : Listens(c, s) =>
       /\ status[s] # "absent"
       /\ status[s] \in Open \/ closing[s] = "killing" => InList(c, s, 1)
       /\ closing[s] = "telling" =>
            \/ "closed" \in heard[c]
            \/ cast[s]["closer"] # Nothing /\ InList(c, s, cast[s]["closer"].i)
       /\ closing[s] = "done" => "closed" \in heard[c]

(* The histories only grow, so a session excused once stays excused.       *)
Excused(s)   == s \in missed \/ s \in raced
WellTold(s) == Honest(s) /\ (Excused(s) \/ Reached(s))

RInv == Rest /\ \A s \in Sessions : WellTold(s)

(* A session that a step does not touch, and connections that stay or go.  *)
Alike(s) ==
  /\ status'[s] = status[s] /\ closing'[s] = closing[s] /\ ws'[s] = ws[s] /\ cast'[s] = cast[s]
  /\ s \in listed' <=> s \in listed
  /\ Excused(s) => Excused(s)'

Fades(c) ==
  /\ conn[c].at # "out"
  /\ \/ conn'[c].at \in {"lost", "left"}
     \/ conn[c].at = "open" /\ conn'[c].at = "quitting" /\ conn'[c].to = conn[c].to

Drift == \A c \in Clients : (conn'[c] = conn[c] /\ heard[c] \subseteq heard'[c]) \/ Fades(c)

(* A list may lose places, and a broadcast may end or a new one begin.     *)
LEMMA HonestShorter ==
  ASSUME Rest, NEW s \in Sessions, Honest(s), Drift,
         \A k \in 1 .. Len(ws'[s]) : \E j \in 1 .. Len(ws[s]) : ws[s][j] = ws'[s][k],
         \A t \in Tasks : cast'[s][t] \in {cast[s][t], Nothing}
                          \/ (cast'[s][t].i >= 1 /\ cast'[s][t].msg # "none" /\ cast'[s][t].dead = {})
  PROVE  Honest(s)'
<1>1. ASSUME NEW k \in 1 .. Len(ws'[s])
      PROVE  /\ conn'[ws'[s][k]].at # "out"
             /\ conn'[ws'[s][k]].at \in {"open", "quitting"} => conn'[ws'[s][k]].to = s
  <2>1. PICK j \in 1 .. Len(ws[s]) : ws[s][j] = ws'[s][k]
    OBVIOUS
  <2> DEFINE c == ws[s][j]
  <2>2. c \in Clients
    BY DEF Rest, Lists
  <2>3. conn[c].at # "out" /\ (conn[c].at \in {"open", "quitting"} => conn[c].to = s)
    BY DEF Honest
  <2> HIDE DEF c
  <2>4. conn'[c].at # "out" /\ (conn'[c].at \in {"open", "quitting"} => conn'[c].to = s)
    BY <2>2, <2>3 DEF Drift, Fades
  <2> QED
    BY <2>1, <2>4 DEF c
<1>2. ASSUME NEW t \in Tasks
      PROVE  /\ cast'[s][t] = Nothing \/ (cast'[s][t].i >= 1 /\ cast'[s][t].msg # "none")
             /\ \A c \in cast'[s][t].dead : conn'[c].at \in {"lost", "left"}
  <2>1. CASE cast'[s][t] = cast[s][t]
    <3>1. \A c \in cast[s][t].dead : c \in Clients
      BY DEF Rest, Broadcasts
    <3> QED
      BY <2>1, <3>1 DEF Honest, Drift, Fades
  <2>2. CASE cast'[s][t] = Nothing
    BY <2>2 DEF Nothing
  <2>3. CASE cast'[s][t].i >= 1 /\ cast'[s][t].msg # "none" /\ cast'[s][t].dead = {}
    BY <2>3
  <2> QED
    BY <2>1, <2>2, <2>3
<1> QED
  BY <1>1, <1>2 DEF Honest

LEMMA HonestStays ==
  ASSUME Rest, NEW s \in Sessions, Honest(s), Drift, ws'[s] = ws[s],
         \A t \in Tasks : cast'[s][t] \in {cast[s][t], Nothing}
                          \/ (cast'[s][t].i >= 1 /\ cast'[s][t].msg # "none" /\ cast'[s][t].dead = {})
  PROVE  Honest(s)'
<1>1. \A k \in 1 .. Len(ws'[s]) : \E j \in 1 .. Len(ws[s]) : ws[s][j] = ws'[s][k]
  OBVIOUS
<1> QED
  BY <1>1, HonestShorter

LEMMA ShorterList ==
  ASSUME Rest, NEW s \in Sessions, NEW C, ws' = [ws EXCEPT ![s] = Without(@, C)]
  PROVE  \A k \in 1 .. Len(ws'[s]) : \E j \in 1 .. Len(ws[s]) : ws[s][j] = ws'[s][k]
<1> DEFINE q == ws[s]
<1>1. q \in Seq(Clients) /\ Len(q) \in Nat /\ ws'[s] = Without(q, C)
  BY DEF Rest, Lists
<1> HIDE DEF q
<1>2. 0 \in 0 .. Len(q) /\ \A j \in 1 .. 0 : q[j] \notin C
  BY <1>1
<1>3. \A k \in 1 .. Len(Without(q, C)) : \E j \in 1 .. Len(q) : q[j] = Without(q, C)[k]
  BY <1>1, <1>2, WithoutKeeps
<1> QED
  BY <1>1, <1>3 DEF q

(* Who is left in a list stands behind those who stay ahead of it.         *)
LEMMA StaysBehind ==
  ASSUME Rest, NEW s \in Sessions, NEW C, ws'[s] = Without(ws[s], C),
         NEW c \in Clients, c \notin C, NEW m \in Nat,
         \A j \in 1 .. m : j <= Len(ws[s]) => ws[s][j] \notin C,
         InList(c, s, m + 1)
  PROVE  \E k \in m + 1 .. Len(ws'[s]) : ws'[s][k] = c
<1> DEFINE q == ws[s]  w == ws'[s]
<1>1. q \in Seq(Clients) /\ Len(q) \in Nat /\ w = Without(q, C)
  BY DEF Rest, Lists
<1>2. PICK k \in m + 1 .. Len(q) : q[k] = c
  BY DEF InList
<1>3. \A j \in 1 .. m : j <= Len(q) => q[j] \notin C
  OBVIOUS
<1> HIDE DEF q, w
<1>4. m \in 0 .. Len(q)
  BY <1>1, <1>2
<1>5. \A j \in 1 .. m : q[j] \notin C
  BY <1>1, <1>3, <1>4
<1>8. q \in Seq(Clients) /\ m \in 0 .. Len(q)
  BY <1>1, <1>4
<1>6. \A j \in m + 1 .. Len(q) :
        q[j] \notin C => \E l \in m + 1 .. Len(Without(q, C)) : Without(q, C)[l] = q[j]
  BY <1>5, <1>8, WithoutKeeps
<1>7. \E l \in m + 1 .. Len(w) : w[l] = c
  BY <1>1, <1>2, <1>6
<1> QED
  BY <1>7 DEF w

LEMMA StaysListed ==
  ASSUME Rest, NEW s \in Sessions, NEW C, ws'[s] = Without(ws[s], C),
         NEW c \in Clients, c \notin C, InList(c, s, 1)
  PROVE  InList(c, s, 1)'
<1> DEFINE m == 0
<1>1. m \in Nat /\ m + 1 = 1 /\ \A j \in 1 .. m : j <= Len(ws[s]) => ws[s][j] \notin C
  OBVIOUS
<1> HIDE DEF m
<1>2. InList(c, s, m + 1)
  BY <1>1
<1>4. m \in Nat /\ \A j \in 1 .. m : j <= Len(ws[s]) => ws[s][j] \notin C
  BY <1>1
<1>3. \E k \in m + 1 .. Len(ws'[s]) : ws'[s][k] = c
  BY <1>2, <1>4, StaysBehind
<1> QED
  BY <1>1, <1>3 DEF InList

LEMMA AlikeStays ==
  ASSUME Rest, NEW s \in Sessions, WellTold(s), Alike(s), Drift
  PROVE  WellTold(s)'
<1>1. Honest(s)'
  BY HonestStays DEF WellTold, Alike
<1>2. ASSUME ~Excused(s)' PROVE Reached(s)'
  <2>1. Reached(s)
    BY <1>2 DEF WellTold, Alike
  <2>2. \A c \in Clients : Listens(c, s)' => Listens(c, s) /\ heard[c] \subseteq heard'[c]
    BY DEF Listens, Drift, Fades
  <2> QED
    BY <2>1, <2>2 DEF Reached, Alike, InList
<1> QED
  BY <1>1, <1>2 DEF WellTold

LEMMA OneTold ==
  ASSUME RInv, NEW s \in Sessions, \A x \in Sessions \ {s} : Alike(x), Drift,
         Rest', WellTold(s)'
  PROVE  RInv'
<1>1. ASSUME NEW x \in Sessions, x # s PROVE WellTold(x)'
  BY <1>1, AlikeStays DEF RInv
<1> QED
  BY <1>1 DEF RInv

LEMMA CastHonest ==
  \A m, s : Cast(m, s) = Nothing \/ (Cast(m, s).i = 1 /\ Cast(m, s).msg = m /\ Cast(m, s).dead = {})
BY DEF Cast

LEMMA StartTold ==
  ASSUME SInv, RInv, NEW s \in Sessions,
         CreateSession(s) \/ Spawned(s) \/ StartupFails(s) \/ LusExits(s)
  PROVE  RInv'
<1>0. Rest /\ Rest' /\ WellTold(s)
  BY StartTyped DEF RInv
<1>1. /\ UNCHANGED <<closing, cast, ws, conn, heard, missed, raced>>
      /\ \A x \in Sessions \ {s} : status'[x] = status[x] /\ (x \in listed' <=> x \in listed)
  <2>1. CASE CreateSession(s)
    BY <2>1 DEF CreateSession, closeVars, SInv, Shapes
  <2>2. CASE Spawned(s)
    BY <2>2 DEF Spawned, closeVars, clientVars
  <2>3. CASE StartupFails(s)
    BY <2>3 DEF StartupFails, closeVars, SInv, Shapes
  <2>4. CASE LusExits(s)
    BY <2>4 DEF LusExits, closeVars, clientVars
  <2> QED
    BY <2>1, <2>2, <2>3, <2>4
<1>2. Drift /\ \A x \in Sessions \ {s} : Alike(x)
  BY <1>1 DEF Drift, Alike, Excused
<1>3. Honest(s)'
  BY <1>0, <1>1, <1>2, HonestStays DEF WellTold
<1>4. ASSUME ~Excused(s)' PROVE Reached(s)'
  <2>1. Reached(s) /\ Tidy(s)
    BY <1>0, <1>1, <1>4 DEF WellTold, Excused, SInv
  <2>2. CASE CreateSession(s)
    <3>1. status[s] = "absent" /\ status'[s] = "starting" /\ s \in listed' /\ closing[s] = "no"
      BY <2>1, <2>2 DEF CreateSession, SInv, Shapes, Tidy, Over
    <3>2. \A c \in Clients : ~Listens(c, s)'
      BY <1>1, <2>1, <3>1 DEF Reached, Listens
    <3> QED
      BY <1>1, <3>1, <3>2 DEF Reached
  <2>3. CASE StartupFails(s)
    <3>1. status[s] = "starting" /\ status'[s] = "closed" /\ closing[s] = "no"
      BY <2>1, <2>3 DEF StartupFails, SInv, Shapes, Tidy, Over
    <3> QED
      BY <1>1, <2>1, <3>1 DEF Reached, Listens, Open
  <2>4. CASE Spawned(s) \/ LusExits(s)
    <3>1. status' = status /\ listed' = listed
      BY <2>4 DEF Spawned, LusExits, clientVars
    <3> QED
      BY <1>1, <2>1, <3>1 DEF Reached, Listens, InList
  <2> QED
    BY <2>2, <2>3, <2>4
<1> QED
  BY <1>0, <1>2, <1>3, <1>4, OneTold DEF WellTold

(* What a broadcast of the reader does to the session's listeners.         *)
LEMMA SpeakTold ==
  ASSUME SInv, RInv, NEW s \in Sessions, BecomesReady(s) \/ ReadEvent(s)
  PROVE  RInv'
<1>0. Rest /\ Rest' /\ WellTold(s)
  BY ReaderTyped DEF RInv
<1>1. PICK m \in {"ready", "event"} : cast' = [cast EXCEPT ![s]["reader"] = Cast(m, s)]
  BY DEF BecomesReady, ReadEvent
<1>2. /\ UNCHANGED <<closing, ws, listed, conn, heard, missed, raced>>
      /\ status' = status \/ (status[s] = "starting" /\ status' = [status EXCEPT ![s] = "ready"])
  BY DEF BecomesReady, ReadEvent, procVars, closeVars
<1>3. /\ cast'[s]["reader"] = Cast(m, s) /\ cast'[s]["closer"] = cast[s]["closer"]
      /\ \A x \in Sessions \ {s} : cast'[x] = cast[x]
  BY <1>1, ReaderCast, ShapesKept
<1>4. Drift /\ \A x \in Sessions \ {s} : Alike(x)
  BY <1>2, <1>3 DEF Drift, Alike, Excused, SInv, Shapes
<1>5. Honest(s)'
  <2>1. ASSUME NEW t \in Tasks
        PROVE  \/ cast'[s][t] \in {cast[s][t], Nothing}
               \/ cast'[s][t].i >= 1 /\ cast'[s][t].msg # "none" /\ cast'[s][t].dead = {}
    BY <1>3, CastHonest DEF Tasks
  <2> QED
    BY <1>0, <1>2, <1>4, <2>1, HonestStays DEF WellTold
<1>6. ASSUME ~Excused(s)' PROVE Reached(s)'
  <2>1. Reached(s)
    BY <1>0, <1>2, <1>6 DEF WellTold, Excused
  <2>2. status'[s] # "absent" \/ status'[s] = status[s]
    BY <1>2 DEF SInv, Shapes
  <2>3. status'[s] \in Open => status[s] \in Open
    BY <1>2 DEF SInv, Shapes, Open
  <2> QED
    BY <1>2, <1>3, <2>1, <2>2, <2>3 DEF Reached, Listens, InList
<1> QED
  BY <1>0, <1>4, <1>5, <1>6, OneTold DEF WellTold

(* A close begins: the session is known, so nobody is told before lus is   *)
(* dead.                                                                   *)
LEMMA CloseTold ==
  ASSUME SInv, RInv, Rest', NEW s \in Sessions, status[s] \in Open, BeginClose(s), Drift,
         UNCHANGED <<ws, listed, missed>>
  PROVE  RInv'
<1>0. Rest /\ WellTold(s)
  BY DEF RInv
<1>1. /\ status' = [status EXCEPT ![s] = "closed"]
      /\ raced' = IF s \in creating THEN raced \cup {s} ELSE raced
      /\ closing' = [closing EXCEPT ![s] = IF s \in known THEN "killing" ELSE "telling"]
      /\ cast' = IF s \in known THEN cast ELSE [cast EXCEPT ![s]["closer"] = Cast("closed", s)]
  BY DEF BeginClose
<1>2. /\ \A x \in Sessions \ {s} : cast'[x] = cast[x]
      /\ \A t \in Tasks : cast'[s][t] \in {cast[s][t], Cast("closed", s)}
  <2>1. CASE s \in known
    BY <1>1, <2>1
  <2>2. CASE s \notin known
    <3>1. cast' = [cast EXCEPT ![s]["closer"] = Cast("closed", s)]
      BY <1>1, <2>2
    <3> QED
      BY <3>1, CloserCast, ShapesKept DEF Tasks
  <2> QED
    BY <2>1, <2>2
<1>3. \A x \in Sessions \ {s} : Alike(x)
  BY <1>1, <1>2 DEF Alike, Excused, SInv, Shapes
<1>4. Honest(s)'
  <2>1. ASSUME NEW t \in Tasks
        PROVE  \/ cast'[s][t] \in {cast[s][t], Nothing}
               \/ cast'[s][t].i >= 1 /\ cast'[s][t].msg # "none" /\ cast'[s][t].dead = {}
    BY <1>2, CastHonest
  <2> QED
    BY <1>0, <2>1, HonestStays DEF WellTold
<1>5. ASSUME ~Excused(s)' PROVE Reached(s)'
  <2>1. Reached(s) /\ Tidy(s) /\ s \notin creating
    BY <1>0, <1>1, <1>5 DEF WellTold, Excused, SInv
  <2>2. s \in known
    BY <2>1 DEF Tidy
  <2>3. status'[s] = "closed" /\ closing'[s] = "killing"
    BY <1>1, <2>2 DEF SInv, Shapes
  <2>4. \A c \in Clients : Listens(c, s)' => Listens(c, s)
    BY DEF Drift, Fades, Listens
  <2> QED
    BY <2>1, <2>3, <2>4 DEF Reached, InList
<1> QED
  BY <1>0, <1>3, <1>4, <1>5, OneTold DEF WellTold

LEMMA ClosersTold ==
  ASSUME SInv, RInv, NEW s \in Sessions, IdleClose(s) \/ ShutdownClose(s) \/ DeleteOpen(s)
  PROVE  RInv'
<1>1. /\ status[s] \in Open /\ BeginClose(s)
      /\ UNCHANGED <<ws, listed, conn, heard, missed>>
  BY DEF IdleClose, ShutdownClose, DeleteOpen, Close
<1>2. Drift
  BY <1>1 DEF Drift
<1> QED
  BY <1>1, <1>2, ClosersTyped, CloseTold DEF RInv

LEMMA EofTold ==
  ASSUME SInv, RInv, NEW s \in Sessions, ReaderEof(s)
  PROVE  RInv'
<1>0. Rest /\ Rest'
  BY ReaderTyped DEF RInv
<1>1. UNCHANGED <<ws, listed, conn, heard, missed>>
  BY DEF ReaderEof
<1>2. Drift
  BY <1>1 DEF Drift
<1>3. CASE status[s] \in Open
  BY <1>0, <1>1, <1>2, <1>3, CloseTold DEF ReaderEof
<1>4. CASE status[s] \notin Open
  <2>1. UNCHANGED <<status, closing, cast, raced>>
    BY <1>4 DEF ReaderEof
  <2>2. \A x \in Sessions : Alike(x)
    BY <1>1, <2>1 DEF Alike, Excused
  <2> QED
    BY <1>0, <1>2, <2>2, AlikeStays DEF RInv
<1> QED
  BY <1>3, <1>4

LEMMA ReaderToldTold ==
  ASSUME SInv, RInv, NEW s \in Sessions, ReaderTold(s)
  PROVE  RInv'
<1>0. Rest /\ Rest' /\ WellTold(s)
  BY ReaderTyped DEF RInv
<1>1. /\ cast[s]["reader"] # Nothing /\ cast' = [cast EXCEPT ![s]["reader"] = Nothing]
      /\ ws' = [ws EXCEPT ![s] = Without(@, cast[s]["reader"].dead)]
      /\ UNCHANGED <<status, closing, listed, conn, heard, missed, raced>>
  BY DEF ReaderTold, EndCast, procVars, closeVars
<1>2. /\ cast'[s]["reader"] = Nothing /\ cast'[s]["closer"] = cast[s]["closer"]
      /\ \A x \in Sessions \ {s} : cast'[x] = cast[x] /\ ws'[x] = ws[x]
  <2>1. \A x \in Sessions \ {s} : ws'[x] = ws[x]
    BY <1>0, <1>1 DEF Rest, Lists
  <2> QED
    BY <1>1, <2>1, ReaderCast, ShapesKept
<1>3. Drift /\ \A x \in Sessions \ {s} : Alike(x)
  BY <1>1, <1>2 DEF Drift, Alike, Excused
<1>4. Honest(s)'
  <2>1. \A k \in 1 .. Len(ws'[s]) : \E j \in 1 .. Len(ws[s]) : ws[s][j] = ws'[s][k]
    BY <1>0, <1>1, ShorterList
  <2>2. \A t \in Tasks : cast'[s][t] \in {cast[s][t], Nothing}
    BY <1>2 DEF Tasks
  <2> QED
    BY <1>0, <1>3, <2>1, <2>2, HonestShorter DEF WellTold
<1>5. ASSUME ~Excused(s)' PROVE Reached(s)'
  <2>1. Reached(s) /\ Tidy(s) /\ Honest(s)
    BY <1>0, <1>1, <1>5 DEF WellTold, Excused, SInv
  <2>2. closing[s] \notin {"telling", "done"}
    BY <1>1, <2>1 DEF Tidy
  <2>3. ASSUME NEW c \in Clients, Listens(c, s), InList(c, s, 1) PROVE InList(c, s, 1)'
    <3> DEFINE C == cast[s]["reader"].dead
    <3>1. c \notin C
      BY <2>1, <2>3, TaskNames DEF Honest, Listens
    <3>4. ws'[s] = Without(ws[s], C)
      BY <1>0, <1>1 DEF Rest, Lists
    <3> HIDE DEF C
    <3> QED
      BY <1>0, <2>3, <3>1, <3>4, StaysListed
  <2> QED
    BY <1>1, <2>1, <2>2, <2>3 DEF Reached, Listens
<1> QED
  BY <1>0, <1>3, <1>4, <1>5, OneTold DEF WellTold

(* lus is dead: the broadcast of the close starts at the head of the list, *)
(* in which every listener stands.                                         *)
LEMMA KilledTold ==
  ASSUME SInv, RInv, NEW s \in Sessions, Killed(s)
  PROVE  RInv'
<1>0. Rest /\ Rest' /\ WellTold(s)
  BY EndTyped DEF RInv
<1>1. /\ closing[s] = "killing" /\ closing' = [closing EXCEPT ![s] = "telling"]
      /\ cast' = [cast EXCEPT ![s] = [reader |-> Nothing, closer |-> Cast("closed", s)]]
      /\ UNCHANGED <<status, ws, listed, conn, heard, missed, raced>>
  BY DEF Killed, Killable, CastCancelled
<1>2. /\ cast'[s]["reader"] = Nothing /\ cast'[s]["closer"] = Cast("closed", s)
      /\ closing'[s] = "telling"
      /\ \A x \in Sessions \ {s} : cast'[x] = cast[x] /\ closing'[x] = closing[x]
  BY <1>1 DEF SInv, Shapes
<1>3. Drift /\ \A x \in Sessions \ {s} : Alike(x)
  BY <1>1, <1>2 DEF Drift, Alike, Excused
<1>4. Honest(s)'
  <2>1. ASSUME NEW t \in Tasks
        PROVE  \/ cast'[s][t] \in {cast[s][t], Nothing}
               \/ cast'[s][t].i >= 1 /\ cast'[s][t].msg # "none" /\ cast'[s][t].dead = {}
    BY <1>2, CastHonest DEF Tasks
  <2> QED
    BY <1>0, <1>1, <1>3, <2>1, HonestStays DEF WellTold
<1>5. ASSUME ~Excused(s)' PROVE Reached(s)'
  <2>1. Reached(s) /\ Tidy(s) /\ s \in listed
    BY <1>0, <1>1, <1>5 DEF WellTold, Excused, SInv, Reached
  <2>2. status[s] \notin Open
    BY <1>1, <2>1 DEF Tidy, Open, Over
  <2>3. ASSUME NEW c \in Clients, Listens(c, s)
        PROVE  Cast("closed", s) # Nothing /\ Cast("closed", s).i = 1 /\ InList(c, s, 1)
    <3>1. InList(c, s, 1)
      BY <1>1, <2>1, <2>3 DEF Reached
    <3>2. ws[s] # <<>>
      BY <3>1 DEF InList
    <3> QED
      BY <2>1, <3>1, <3>2 DEF Cast, Nothing
  <2> QED
    BY <1>1, <1>2, <2>1, <2>2, <2>3 DEF Reached, Listens, InList
<1> QED
  BY <1>0, <1>3, <1>4, <1>5, OneTold DEF WellTold

(* The broadcast has come to the end of the list: nobody is left in it who *)
(* listens and has not heard.                                              *)
LEMMA ToldTold ==
  ASSUME SInv, RInv, NEW s \in Sessions, Told(s)
  PROVE  RInv'
<1>0. Rest /\ Rest' /\ WellTold(s)
  BY EndTyped DEF RInv
<1> DEFINE b == cast[s]["closer"]
<1>1. /\ closing[s] = "telling" /\ closing' = [closing EXCEPT ![s] = "done"]
      /\ b = Nothing \/ b.i > Len(ws[s])
      /\ cast' = [cast EXCEPT ![s]["closer"] = Nothing]
      /\ ws' = [ws EXCEPT ![s] = Without(@, b.dead)]
      /\ status' = [status EXCEPT ![s] = "gone"] \/ status' = status
      /\ listed' = listed \/ listed' = listed \ {s}
      /\ UNCHANGED <<conn, heard, missed, raced>>
  BY DEF Told, EndCast, procVars, Delisted
<1>2. /\ cast'[s]["closer"] = Nothing /\ cast'[s]["reader"] = cast[s]["reader"]
      /\ closing'[s] = "done" /\ status'[s] \in {status[s], "gone"}
      /\ \A x \in Sessions \ {s} : /\ cast'[x] = cast[x] /\ ws'[x] = ws[x]
                                   /\ closing'[x] = closing[x] /\ status'[x] = status[x]
  <2>1. \A x \in Sessions \ {s} : ws'[x] = ws[x]
    BY <1>0, <1>1 DEF Rest, Lists
  <2>2. /\ cast'[s]["closer"] = Nothing /\ cast'[s]["reader"] = cast[s]["reader"]
        /\ \A x \in Sessions \ {s} : cast'[x] = cast[x]
    BY <1>1, CloserCast, ShapesKept
  <2> QED
    BY <1>1, <2>1, <2>2 DEF SInv, Shapes
<1>3. Drift /\ \A x \in Sessions \ {s} : Alike(x)
  BY <1>1, <1>2 DEF Drift, Alike, Excused
<1>4. Honest(s)'
  <2>1. \A k \in 1 .. Len(ws'[s]) : \E j \in 1 .. Len(ws[s]) : ws[s][j] = ws'[s][k]
    BY <1>0, <1>1, ShorterList
  <2>2. \A t \in Tasks : cast'[s][t] \in {cast[s][t], Nothing}
    BY <1>2 DEF Tasks
  <2> QED
    BY <1>0, <1>3, <2>1, <2>2, HonestShorter DEF WellTold
<1>5. ASSUME ~Excused(s)' PROVE Reached(s)'
  <2>1. Reached(s) /\ Tidy(s)
    BY <1>0, <1>1, <1>5 DEF WellTold, Excused, SInv
  <2>2. status[s] \in Over
    BY <1>1, <2>1 DEF Tidy
  <2>3. ASSUME NEW c \in Clients, Listens(c, s) PROVE "closed" \in heard[c]
    <3>1. "closed" \in heard[c] \/ (b # Nothing /\ InList(c, s, b.i))
      BY <1>1, <2>1, <2>3 DEF Reached
    <3>2. b.i \in Nat /\ Len(ws[s]) \in Nat
      BY <1>0, TaskNames DEF Rest, Lists, Broadcasts
    <3>3. ASSUME b # Nothing PROVE ~InList(c, s, b.i)
      BY <1>1, <3>2, <3>3 DEF InList
    <3> QED
      BY <3>1, <3>3
  <2> QED
    BY <1>1, <1>2, <2>2, <2>3 DEF Reached, Listens, Open, Over
<1> QED
  BY <1>0, <1>3, <1>4, <1>5, OneTold DEF WellTold

LEMMA DeleteTold ==
  ASSUME SInv, RInv, NEW s \in Sessions, DeleteClosed(s)
  PROVE  RInv'
<1>0. Rest /\ Rest' /\ WellTold(s)
  BY EndTyped DEF RInv
<1>1. /\ status' = [status EXCEPT ![s] = "gone"] /\ listed' = listed \ {s}
      /\ missed' = IF closing[s] = "killing" THEN missed \cup {s} ELSE missed
      /\ UNCHANGED <<closing, cast, ws, conn, heard, raced>>
  BY DEF DeleteClosed, procVars, closeVars, Delisted
<1>2. Drift /\ \A x \in Sessions \ {s} : Alike(x)
  BY <1>1 DEF Drift, Alike, Excused, SInv, Shapes
<1>3. Honest(s)'
  BY <1>0, <1>1, <1>2, HonestStays DEF WellTold
<1>4. ASSUME ~Excused(s)' PROVE Reached(s)'
  <2>1. Reached(s) /\ closing[s] # "killing"
    BY <1>0, <1>1, <1>4 DEF WellTold, Excused
  <2>2. status'[s] = "gone"
    BY <1>1 DEF SInv, Shapes
  <2> QED
    BY <1>1, <2>1, <2>2 DEF Reached, Listens, InList, Open
<1> QED
  BY <1>0, <1>2, <1>3, <1>4, OneTold DEF WellTold

(* The connection at the broadcast's place hears it, or it is gone.        *)
LEMMA SendTold ==
  ASSUME SInv, RInv, NEW s \in Sessions, NEW t \in Tasks, Send(s, t)
  PROVE  RInv'
<1> DEFINE b == cast[s][t]  d == ws[s][b.i]
<1>0. Rest /\ Rest' /\ WellTold(s)
  BY SendTyped DEF RInv, WellTold, Honest
<1>1. /\ b # Nothing /\ b.i <= Len(ws[s])
      /\ heard' = IF CanHear(d, s) THEN [heard EXCEPT ![d] = @ \cup {b.msg}] ELSE heard
      /\ cast' = [cast EXCEPT ![s][t] = [msg |-> b.msg, i |-> b.i + 1,
                                         dead |-> IF CanHear(d, s) THEN b.dead ELSE b.dead \cup {d}]]
      /\ UNCHANGED <<status, closing, ws, listed, conn, missed, raced>>
  BY DEF Send, procVars, closeVars
<1>2. /\ b.i \in Nat /\ b.i >= 1 /\ b.msg # "none" /\ b.i \in 1 .. Len(ws[s])
      /\ \A c \in b.dead : conn[c].at \in {"lost", "left"}
  <2>1. b \in Broadcasts /\ Len(ws[s]) \in Nat
    BY <1>0 DEF Rest, Lists
  <2>2. /\ b = Nothing \/ (b.i >= 1 /\ b.msg # "none")
        /\ \A c \in b.dead : conn[c].at \in {"lost", "left"}
    BY <1>0 DEF WellTold, Honest
  <2>3. b.i \in Nat
    BY <2>1 DEF Broadcasts
  <2> HIDE DEF b
  <2> QED
    BY <1>1, <2>1, <2>2, <2>3
<1>3. d \in Clients /\ conn[d].at \in {"out", "open", "quitting", "lost", "left"}
  <2>1. ws[s] \in Seq(Clients) /\ Shapes
    BY <1>0 DEF Rest, Lists, SInv
  <2>2. d \in Clients
    BY <1>2, <2>1
  <2> QED
    BY <2>1, <2>2 DEF Shapes
<1>4. ~CanHear(d, s) => conn[d].at \in {"lost", "left"}
  BY <1>0, <1>2, <1>3 DEF WellTold, Honest, CanHear
<1>5. heard' \in [Clients -> SUBSET {"starting", "ready", "event", "closed"}]
      /\ \A c \in Clients : heard[c] \subseteq heard'[c]
  BY <1>0, <1>1, <1>3 DEF Rest
<1>6. /\ cast'[s][t].msg = b.msg /\ cast'[s][t].i = b.i + 1
      /\ cast'[s][t].dead = IF CanHear(d, s) THEN b.dead ELSE b.dead \cup {d}
      /\ \A y \in Tasks \ {t} : cast'[s][y] = cast[s][y]
      /\ \A x \in Sessions \ {s} : cast'[x] = cast[x]
  <2> DEFINE e == [msg |-> b.msg, i |-> b.i + 1, dead |-> IF CanHear(d, s) THEN b.dead ELSE b.dead \cup {d}]
  <2>1. cast' = [cast EXCEPT ![s][t] = e] /\ Shapes
    BY <1>1 DEF SInv
  <2>2. e.msg = b.msg /\ e.i = b.i + 1 /\ e.dead = IF CanHear(d, s) THEN b.dead ELSE b.dead \cup {d}
    OBVIOUS
  <2> HIDE DEF e
  <2>4. DOMAIN cast = Sessions /\ DOMAIN cast[s] = Tasks
    BY <2>1 DEF Shapes
  <2>5. cast' = [cast EXCEPT ![s] = [cast[s] EXCEPT ![t] = e]]
    BY <2>1
  <2>3. /\ cast'[s][t] = e /\ \A y \in Tasks \ {t} : cast'[s][y] = cast[s][y]
        /\ \A x \in Sessions \ {s} : cast'[x] = cast[x]
    BY <2>4, <2>5
  <2> QED
    BY <2>2, <2>3
<1> HIDE DEF b, d
<1>7. Drift /\ \A x \in Sessions \ {s} : Alike(x)
  BY <1>1, <1>5, <1>6 DEF Drift, Alike, Excused
<1>8. Honest(s)'
  <2>1. Honest(s)
    BY <1>0 DEF WellTold
  <2>2. ASSUME NEW k \in 1 .. Len(ws'[s])
        PROVE  /\ conn'[ws'[s][k]].at # "out"
               /\ conn'[ws'[s][k]].at \in {"open", "quitting"} => conn'[ws'[s][k]].to = s
    BY <1>1, <2>1 DEF Honest
  <2>3. ASSUME NEW y \in Tasks
        PROVE  /\ cast'[s][y] = Nothing \/ (cast'[s][y].i >= 1 /\ cast'[s][y].msg # "none")
               /\ \A c \in cast'[s][y].dead : conn'[c].at \in {"lost", "left"}
    <3>1. CASE y = t
      BY <1>1, <1>2, <1>4, <1>6, <3>1
    <3>2. CASE y # t
      BY <1>1, <1>6, <2>1, <3>2 DEF Honest
    <3> QED
      BY <3>1, <3>2
  <2> QED
    BY <2>2, <2>3 DEF Honest
<1>9. ASSUME ~Excused(s)' PROVE Reached(s)'
  <2>1. Reached(s) /\ Tidy(s)
    BY <1>0, <1>1, <1>9 DEF WellTold, Excused, SInv
  <2>2. ASSUME NEW c \in Clients, Listens(c, s), closing[s] = "telling"
        PROVE  "closed" \in heard'[c] \/ (cast'[s]["closer"] # Nothing /\ InList(c, s, cast'[s]["closer"].i))
    <3>1. CASE "closed" \in heard[c]
      BY <1>5, <3>1
    <3>2. CASE "closed" \notin heard[c]
      <4>1. cast[s]["closer"] # Nothing /\ InList(c, s, cast[s]["closer"].i)
        BY <2>1, <2>2, <3>2 DEF Reached
      <4>2. CASE t # "closer"
        BY <1>6, <4>1, <4>2, TaskNames
      <4>3. CASE t = "closer"
        <5>1. PICK k \in b.i .. Len(ws[s]) : ws[s][k] = c
          BY <4>1, <4>3 DEF InList, b
        <5>2. CASE k = b.i
          <6>1. d = c /\ CanHear(d, s)
            BY <2>2, <5>1, <5>2 DEF d, b, CanHear, Listens
          <6>2. b.msg = "closed"
            BY <1>1, <2>1, <4>3 DEF Tidy, b
          <6> QED
            BY <1>0, <1>1, <1>3, <6>1, <6>2 DEF Rest
        <5>3. CASE k # b.i
          <6>1. k \in b.i + 1 .. Len(ws[s])
            BY <1>2, <5>1, <5>3
          <6>2. cast'[s]["closer"].msg = b.msg /\ b.msg # "none" /\ cast'[s]["closer"].i = b.i + 1
            BY <1>2, <1>6, <4>3
          <6> QED
            BY <5>1, <6>1, <6>2 DEF InList, Nothing
        <5> QED
          BY <5>2, <5>3
      <4> QED
        BY <4>2, <4>3
    <3> QED
      BY <3>1, <3>2
  <2> QED
    BY <1>1, <1>5, <2>1, <2>2 DEF Reached, Listens, InList
<1> QED
  BY <1>0, <1>7, <1>8, <1>9, OneTold DEF WellTold

LEMMA QuitTold ==
  ASSUME SInv, RInv, NEW c \in Clients, Quit(c) \/ Lose(c)
  PROVE  RInv'
<1>0. /\ Rest' /\ Rest /\ conn[c].to \in Sessions /\ conn[c].at = "open"
      /\ \E a \in {"quitting", "lost"} : conn' = [conn EXCEPT ![c].at = a]
      /\ UNCHANGED <<listed, ws, heard, missed>>
  BY ClientTyped DEF RInv, SInv, Shapes, Quit, Lose, Close
<1>1. Drift
  BY <1>0 DEF Drift, Fades, SInv, Shapes
<1>2. CASE Quit(c) /\ status[conn[c].to] \in Open
  <2>1. BeginClose(conn[c].to)
    BY <1>2 DEF Quit, Close
  <2> QED
    BY <1>0, <1>1, <1>2, <2>1, CloseTold
<1>3. CASE ~(Quit(c) /\ status[conn[c].to] \in Open)
  <2>1. UNCHANGED <<status, closing, cast, raced>>
    BY <1>3 DEF Quit, Lose, procVars, closeVars
  <2>2. \A x \in Sessions : Alike(x)
    BY <1>0, <2>1 DEF Alike, Excused
  <2> QED
    BY <1>0, <1>1, <2>2, AlikeStays DEF RInv
<1> QED
  BY <1>2, <1>3

(* A connection leaves the list: those behind the broadcast's place stay   *)
(* behind it, unless the one that left stood ahead of the place.           *)
LEMMA UnregisterTold ==
  ASSUME SInv, RInv, NEW c \in Clients, Unregister(c), NEW s \in Sessions, s = conn[c].to
  PROVE  RInv'
<1> DEFINE b == cast[s]["closer"]
<1>0. Rest /\ Rest' /\ WellTold(s)
  BY ClientTyped DEF RInv
<1>1. /\ conn[c].at \in {"lost", "quitting"}
      /\ ws' = IF s \in listed THEN [ws EXCEPT ![s] = Without(@, {c})] ELSE ws
      /\ missed' = IF s \in listed /\ b # Nothing /\ \E k \in 1 .. b.i - 1 : k <= Len(ws[s]) /\ ws[s][k] = c
                   THEN missed \cup {s} ELSE missed
      /\ conn' = [conn EXCEPT ![c] = [Away EXCEPT !.at = "left"]] /\ heard' = [heard EXCEPT ![c] = {}]
      /\ UNCHANGED <<status, closing, listed, cast, raced>>
  BY DEF Unregister, procVars, closeVars
<1>2. /\ conn'[c].at = "left" /\ \A d \in Clients \ {c} : conn'[d] = conn[d] /\ heard'[d] = heard[d]
      /\ \A x \in Sessions \ {s} : ws'[x] = ws[x]
  BY <1>0, <1>1 DEF Away, SInv, Shapes, Rest, Lists
<1> HIDE DEF b
<1>3. Drift
  BY <1>1, <1>2 DEF Drift, Fades
<1>4. \A x \in Sessions \ {s} : Alike(x)
  BY <1>1, <1>2 DEF Alike, Excused
<1>5. CASE s \notin listed
  <2>1. \A x \in Sessions : Alike(x)
    BY <1>1, <1>5 DEF Alike, Excused
  <2> QED
    BY <1>0, <1>3, <2>1, AlikeStays DEF RInv
<1>6. CASE s \in listed
  <2>0. ws' = [ws EXCEPT ![s] = Without(@, {c})] /\ ws'[s] = Without(ws[s], {c})
    BY <1>0, <1>1, <1>6 DEF Rest, Lists
  <2>1. Honest(s)'
    <3>1. \A k \in 1 .. Len(ws'[s]) : \E j \in 1 .. Len(ws[s]) : ws[s][j] = ws'[s][k]
      BY <1>0, <2>0, ShorterList
    <3> QED
      BY <1>0, <1>1, <1>3, <3>1, HonestShorter DEF WellTold
  <2>2. ASSUME ~Excused(s)' PROVE Reached(s)'
    <3>1. Reached(s)
      BY <1>0, <1>1, <2>2 DEF WellTold, Excused
    <3>2. ASSUME NEW d \in Clients, Listens(d, s)' PROVE d # c /\ Listens(d, s) /\ heard'[d] = heard[d]
      BY <1>2, <3>2 DEF Listens
    <3>3. ASSUME NEW d \in Clients, d # c, InList(d, s, 1) PROVE InList(d, s, 1)'
      <4>1. d \notin {c}
        BY <3>3
      <4> QED
        BY <1>0, <2>0, <3>3, <4>1, StaysListed
    <3>4. ASSUME NEW d \in Clients, d # c, b # Nothing, InList(d, s, b.i)
          PROVE  \E k \in b.i .. Len(ws'[s]) : ws'[s][k] = d
      <4> DEFINE m == b.i - 1
      <4>0. b \in Broadcasts
        BY <1>0, TaskNames DEF b, Rest
      <4>1. b.i \in Nat /\ b.i >= 1
        BY <1>0, <3>4, <4>0, TaskNames DEF b, Broadcasts, WellTold, Honest
      <4>2. m \in Nat /\ \A j \in 1 .. m : j <= Len(ws[s]) => ws[s][j] \notin {c}
        BY <1>1, <1>6, <2>2, <3>4, <4>1 DEF Excused
      <4>3. m + 1 = b.i
        BY <4>1
      <4> HIDE DEF m
      <4> DEFINE C == {c}
      <4>4. /\ InList(d, s, m + 1) /\ d \notin C /\ ws'[s] = Without(ws[s], C)
            /\ \A j \in 1 .. m : j <= Len(ws[s]) => ws[s][j] \notin C
        BY <2>0, <3>4, <4>2, <4>3
      <4> HIDE DEF C
      <4>6. m \in Nat
        BY <4>2
      <4>5. \E k \in m + 1 .. Len(ws'[s]) : ws'[s][k] = d
        BY <1>0, <4>4, <4>6, StaysBehind
      <4> QED
        BY <4>3, <4>5
    <3>5. ASSUME NEW d \in Clients, Listens(d, s)'
          PROVE  /\ status[s] # "absent"
                 /\ status[s] \in Open \/ closing[s] = "killing" => InList(d, s, 1)'
                 /\ closing[s] = "telling" =>
                      "closed" \in heard[d] \/ (b # Nothing /\ \E k \in b.i .. Len(ws'[s]) : ws'[s][k] = d)
                 /\ closing[s] = "done" => "closed" \in heard[d]
                 /\ heard'[d] = heard[d]
      BY <3>1, <3>2, <3>3, <3>4, <3>5 DEF Reached, b
    <3> QED
      BY <1>1, <3>1, <3>5 DEF Reached, InList, b
  <2> QED
    BY <1>0, <1>3, <1>4, <2>1, <2>2, OneTold DEF WellTold
<1> QED
  BY <1>5, <1>6

(* A newcomer is greeted with the status; it stands in no list and in no   *)
(* broadcast's record of the dead yet.                                     *)
LEMMA ConnectTold ==
  ASSUME SInv, RInv, NEW c \in Clients, NEW s \in Sessions, Connect(c, s)
  PROVE  RInv'
<1>0. Rest /\ Rest'
  BY ClientTyped DEF RInv
<1>1. /\ conn[c].at = "out" /\ status[s] \in Open \cup {"closed"}
      /\ conn' = [conn EXCEPT ![c] = [at |-> "open", to |-> s]]
      /\ ws' = IF s \in listed THEN [ws EXCEPT ![s] = Append(@, c)] ELSE ws
      /\ heard' = [heard EXCEPT ![c] = {status[s]}]
      /\ UNCHANGED <<status, closing, listed, cast, missed, raced>>
  BY DEF Connect, Greeting, procVars, closeVars
<1>2. /\ conn'[c] = [at |-> "open", to |-> s] /\ heard'[c] = {status[s]}
      /\ \A d \in Clients \ {c} : conn'[d] = conn[d] /\ heard'[d] = heard[d]
      /\ \A x \in Sessions \ {s} : ws'[x] = ws[x]
      /\ ws'[s] = IF s \in listed THEN Append(ws[s], c) ELSE ws[s]
  BY <1>0, <1>1 DEF SInv, Shapes, Rest, Lists
<1>3. ASSUME NEW x \in Sessions
      PROVE  \A k \in 1 .. Len(ws[x]) : ws[x][k] \in Clients \ {c}
  <2>1. Honest(x) /\ ws[x] \in Seq(Clients)
    BY <1>0 DEF RInv, WellTold, Rest, Lists
  <2>2. ASSUME NEW k \in 1 .. Len(ws[x]) PROVE ws[x][k] \in Clients /\ conn[ws[x][k]].at # "out"
    BY <2>1 DEF Honest
  <2> QED
    BY <1>1, <2>2
<1>4. ASSUME NEW x \in Sessions
      PROVE  /\ Len(ws[x]) \in Nat /\ Len(ws'[x]) \in Nat /\ Len(ws'[x]) >= Len(ws[x])
             /\ \A k \in 1 .. Len(ws[x]) : ws'[x][k] = ws[x][k]
             /\ \A k \in 1 .. Len(ws'[x]) : k \in 1 .. Len(ws[x]) \/ (x = s /\ ws'[x][k] = c)
  <2>1. ws[x] \in Seq(Clients)
    BY <1>0 DEF Rest, Lists
  <2>2. CASE ws'[x] = ws[x]
    BY <2>1, <2>2
  <2>3. CASE x = s /\ ws'[x] = Append(ws[x], c)
    BY <2>1, <2>3
  <2> QED
    BY <1>2, <2>2, <2>3
<1>5. ASSUME NEW x \in Sessions PROVE Honest(x)'
  <2>1. Honest(x)
    BY DEF RInv, WellTold
  <2>2. ASSUME NEW k \in 1 .. Len(ws'[x])
        PROVE  /\ conn'[ws'[x][k]].at # "out"
               /\ conn'[ws'[x][k]].at \in {"open", "quitting"} => conn'[ws'[x][k]].to = x
    <3>1. CASE k \in 1 .. Len(ws[x])
      BY <1>2, <1>3, <1>4, <2>1, <3>1 DEF Honest
    <3>2. CASE x = s /\ ws'[x][k] = c
      BY <1>2, <3>2
    <3> QED
      BY <1>4, <3>1, <3>2
  <2>3. ASSUME NEW t \in Tasks, NEW d \in cast[x][t].dead PROVE conn'[d].at \in {"lost", "left"}
    <3>1. d \in Clients /\ conn[d].at \in {"lost", "left"}
      BY <1>0, <2>1, <2>3 DEF Rest, Broadcasts, Honest
    <3> QED
      BY <1>1, <1>2, <3>1
  <2> QED
    BY <1>1, <2>1, <2>2, <2>3 DEF Honest
<1>6. ASSUME NEW x \in Sessions, ~Excused(x)' PROVE Reached(x)'
  <2>1. Reached(x) /\ Tidy(x)
    BY <1>1, <1>6 DEF RInv, WellTold, Excused, SInv
  <2>2. ASSUME NEW d \in Clients, NEW from \in Nat \ {0}, InList(d, x, from)
        PROVE  \E k \in from .. Len(ws'[x]) : ws'[x][k] = d
    BY <1>4, <2>2 DEF InList
  <2>3. ASSUME cast[x]["closer"] # Nothing PROVE cast[x]["closer"].i \in Nat \ {0}
    BY <1>0, <2>3, TaskNames DEF RInv, WellTold, Honest, Rest, Broadcasts
  <2>4. ASSUME NEW d \in Clients, d # c, Listens(d, x)'
        PROVE  /\ Listens(d, x) /\ heard'[d] = heard[d]
    BY <1>2, <2>4 DEF Listens
  <2>5. ASSUME Listens(c, x)'
        PROVE  /\ status[x] # "absent"
               /\ status[x] \in Open \/ closing[x] = "killing" => \E k \in 1 .. Len(ws'[x]) : ws'[x][k] = c
               /\ closing[x] \in {"telling", "done"} => "closed" \in heard'[c]
    <3>1. x = s
      BY <1>2, <2>5 DEF Listens
    <3>2. status[x] # "absent"
      BY <1>1, <3>1 DEF Open
    <3>3. ASSUME status[x] \in Open \/ closing[x] = "killing"
          PROVE  \E k \in 1 .. Len(ws'[x]) : ws'[x][k] = c
      <4>1. ws'[x] = Append(ws[x], c) /\ ws[x] \in Seq(Clients)
        BY <1>0, <1>2, <2>1, <3>1, <3>3 DEF Reached, Rest, Lists
      <4>2. Len(ws'[x]) \in 1 .. Len(ws'[x]) /\ ws'[x][Len(ws'[x])] = c
        BY <4>1
      <4> QED
        BY <4>2
    <3>4. ASSUME closing[x] \in {"telling", "done"} PROVE "closed" \in heard'[c]
      <4>1. status[x] \in Over
        BY <2>1, <3>4 DEF Tidy
      <4> QED
        BY <1>1, <1>2, <3>1, <4>1 DEF Open, Over
    <3> QED
      BY <3>2, <3>3, <3>4
  <2>6. ASSUME NEW d \in Clients, d # c, Listens(d, x)'
        PROVE  /\ status[x] # "absent"
               /\ status[x] \in Open \/ closing[x] = "killing" => \E k \in 1 .. Len(ws'[x]) : ws'[x][k] = d
               /\ closing[x] = "telling" =>
                    \/ "closed" \in heard'[d]
                    \/ /\ cast[x]["closer"] # Nothing
                       /\ \E k \in cast[x]["closer"].i .. Len(ws'[x]) : ws'[x][k] = d
               /\ closing[x] = "done" => "closed" \in heard'[d]
    BY <2>1, <2>2, <2>3, <2>4, <2>6 DEF Reached
  <2>7. ASSUME NEW d \in Clients, Listens(d, x)'
        PROVE  /\ status'[x] # "absent"
               /\ status'[x] \in Open \/ closing'[x] = "killing" => InList(d, x, 1)'
               /\ closing'[x] = "telling" =>
                    \/ "closed" \in heard'[d]
                    \/ cast'[x]["closer"] # Nothing /\ InList(d, x, cast[x]["closer"].i)'
               /\ closing'[x] = "done" => "closed" \in heard'[d]
    <3>1. CASE d = c
      BY <1>1, <2>5, <2>7, <3>1 DEF InList
    <3>2. CASE d # c
      BY <1>1, <2>6, <2>7, <3>2 DEF InList
    <3> QED
      BY <3>1, <3>2
  <2>8. status'[x] \in Open \/ closing'[x] = "killing" => x \in listed'
    BY <1>1, <2>1 DEF Reached
  <2> QED
    BY <2>7, <2>8 DEF Reached
<1> QED
  BY <1>0, <1>5, <1>6 DEF RInv, WellTold

LEMMA ShutdownTold ==
  ASSUME SInv, RInv, Shutdown
  PROVE  RInv'
<1>0. Rest /\ Rest'
  BY ShutdownTyped DEF RInv
<1>1. /\ closing' = [s \in Sessions |-> IF s \in sweeping THEN "aborted" ELSE closing[s]]
      /\ cast' = [s \in Sessions |-> IF s \in sweeping THEN [cast[s] EXCEPT !["closer"] = Nothing] ELSE cast[s]]
      /\ UNCHANGED <<status, ws, listed, conn, heard, missed, raced>>
  BY DEF Shutdown, procVars
<1>2. Drift
  BY <1>1 DEF Drift
<1>3. ASSUME NEW s \in Sessions, s \notin sweeping PROVE WellTold(s)'
  <2>1. Alike(s)
    BY <1>1, <1>3 DEF Alike, Excused
  <2> QED
    BY <1>0, <1>2, <2>1, AlikeStays DEF RInv
<1>4. ASSUME NEW s \in Sessions, s \in sweeping PROVE WellTold(s)'
  <2>1. cast'[s] = [cast[s] EXCEPT !["closer"] = Nothing] /\ closing'[s] = "aborted"
    BY <1>1, <1>4
  <2>2. \A t \in Tasks : cast'[s][t] \in {cast[s][t], Nothing}
    BY <2>1, TaskNames DEF SInv, Shapes, Tasks
  <2>3. Honest(s)'
    BY <1>0, <1>1, <1>2, <2>2, HonestStays DEF RInv, WellTold
  <2>4. ASSUME ~Excused(s)' PROVE Reached(s)'
    <3>1. Reached(s) /\ Tidy(s)
      BY <1>1, <2>4 DEF RInv, WellTold, Excused, SInv
    <3>2. status[s] \notin Open
      BY <1>4, <3>1 DEF Tidy, Open, Over
    <3> QED
      BY <1>1, <2>1, <3>1, <3>2 DEF Reached, Listens
  <2> QED
    BY <2>3, <2>4 DEF WellTold
<1> QED
  BY <1>0, <1>3, <1>4 DEF RInv

LEMMA InitTold == Init => RInv
<1> SUFFICES ASSUME Init PROVE RInv
  OBVIOUS
<1>1. /\ ws = [s \in Sessions |-> <<>>] /\ cast = [s \in Sessions |-> [t \in Tasks |-> Nothing]]
      /\ conn = [c \in Clients |-> Away] /\ heard = [c \in Clients |-> {}]
      /\ status = [s \in Sessions |-> "absent"] /\ closing = [s \in Sessions |-> "no"]
      /\ down = FALSE
  BY DEF Init
<1>2. Rest
  <2>1. Subsets
    BY DEF Init, Subsets
  <2>2. Lists
    BY <1>1 DEF Lists
  <2>3. cast \in [Sessions -> [Tasks -> Broadcasts]]
    BY <1>1, Castable
  <2> QED
    BY <1>1, <2>1, <2>2, <2>3 DEF Rest
<1>3. ASSUME NEW s \in Sessions PROVE Honest(s)
  BY <1>1 DEF Honest, Nothing
<1>4. ASSUME NEW s \in Sessions PROVE Reached(s)
  BY <1>1 DEF Reached, Listens, Away, Open
<1> QED
  BY <1>2, <1>3, <1>4 DEF RInv, WellTold

LEMMA NextTold == SInv /\ RInv /\ [Next]_vars => RInv'
<1> SUFFICES ASSUME SInv, RInv, [Next]_vars PROVE RInv'
  OBVIOUS
<1>1. ASSUME NEW s \in Sessions, SessionNext(s) PROVE RInv'
  <2>1. CASE CreateSession(s) \/ Spawned(s) \/ StartupFails(s) \/ LusExits(s)
    BY <2>1, StartTold
  <2>2. CASE BecomesReady(s) \/ ReadEvent(s) \/ ReaderEof(s) \/ ReaderTold(s)
    BY <2>2, SpeakTold, EofTold, ReaderToldTold
  <2>3. CASE IdleClose(s) \/ ShutdownClose(s) \/ DeleteOpen(s)
    BY <2>3, ClosersTold
  <2>4. CASE Killed(s) \/ Told(s) \/ DeleteClosed(s)
    BY <2>4, KilledTold, ToldTold, DeleteTold
  <2>5. CASE \E t \in Tasks : Send(s, t)
    BY <2>5, SendTold
  <2> QED
    BY <1>1, <2>1, <2>2, <2>3, <2>4, <2>5 DEF SessionNext
<1>2. ASSUME NEW c \in Clients, Quit(c) \/ Lose(c) \/ Unregister(c) \/ \E s \in Sessions : Connect(c, s)
      PROVE  RInv'
  <2>1. conn[c].to \in Sessions
    BY DEF SInv, Shapes
  <2> QED
    BY <1>2, <2>1, QuitTold, UnregisterTold, ConnectTold
<1>3. CASE Stopped \/ UNCHANGED vars
  <2>1. UNCHANGED vars
    BY <1>3 DEF Stopped
  <2>2. Rest'
    BY <2>1 DEF RInv, Rest, Subsets, Lists, vars, procVars, storeVars, closeVars, clientVars
  <2>3. Drift /\ \A s \in Sessions : Alike(s)
    BY <2>1 DEF Drift, Alike, Excused, vars, procVars, closeVars, clientVars
  <2> QED
    BY <2>2, <2>3, AlikeStays DEF RInv
<1> QED
  BY <1>1, <1>2, <1>3, ShutdownTold DEF Next

(* A close leaves nothing behind, and every connection that stays to the   *)
(* end has been told of it, except where a deletion or a connection that   *)
(* left overtook the broadcast: CloseIsClean.                              *)
THEOREM CloseIsTold == Spec => []CloseIsClean
<1>1. SInv /\ [Next]_vars => SInv'
  BY NextTidy
<1>2. Spec => [](SInv /\ RInv)
  BY InitTidy, NextTidy, InitTold, NextTold, PTL DEF Spec
<1>3. SInv /\ RInv => TypeOK
  BY DEF SInv, RInv, Shapes, Rest, Subsets, Lists, TypeOK, Open, Over, Broadcasts
<1>4. SInv /\ RInv => EveryoneToldOfClose
  <2> SUFFICES ASSUME SInv, RInv, NEW c \in Clients, conn[c].at = "open",
                      closing[conn[c].to] = "done", conn[c].to \notin missed \cup raced
               PROVE  "closed" \in heard[c]
    BY DEF EveryoneToldOfClose
  <2>1. conn[c].to \in Sessions
    BY DEF SInv, Shapes
  <2>2. Reached(conn[c].to)
    BY <2>1 DEF RInv, WellTold, Excused
  <2> QED
    BY <2>2 DEF Reached, Listens
<1>5. ClosedLeavesNothing /\ TypeOK /\ EveryoneToldOfClose => CloseIsClean
  BY DEF CloseIsClean
<1> QED
  BY <1>2, <1>3, <1>4, <1>5, CloseLeavesNothing, PTL
=============================================================================
